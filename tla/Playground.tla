----------------------------- MODULE Playground -----------------------------
(***************************************************************************)
(* The playground's render path: the live update controller renders        *)
(* through the worker client, whose slots the linter's validations share   *)
(* (web/src/app/bootstrap.ts).                                             *)
(***************************************************************************)
EXTENDS RenderClient

VARIABLES text, scheduled, timer, latestSeq, rendered, open, shown

INSTANCE LiveUpdate WITH Seqs <- Renders, Results <- Outcomes

controller == <<text, scheduled, timer, latestSeq, rendered, open, shown>>
vars == <<clientVars, controller>>

Init == ClientInit /\ LiveInit

-----------------------------------------------------------------------------

\* The controller calls render() for a number it has just given out.
Rendering == StartRender(latestSeq')

\* An edit arms the timer, or renders at once; so does the timer.
Edit ==
    \/ EditNow /\ Rendering
    \/ EditLater /\ UNCHANGED clientVars

TimerFires == Fire /\ Rendering

\* The linter validates the text, on a timer of its own.
Lint == \E c \in Checks : StartCheck(c) /\ UNCHANGED controller

\* What the client settles, the controller's then or catch sees in that step.
Ended == {c \in Renders : settled[c] = None /\ settled'[c] # None}

\* The slip of a catch that says nothing: a render that fails stays under way.
NoticedWell ==
    LET well == {c \in Ended : settled'[c].ok}
    IN  /\ open' = open \ well
        /\ Show(Ended, settled')
        /\ UNCHANGED <<text, scheduled, timer, latestSeq, rendered>>

Noticed ==
    /\ open' = open \ Ended
    /\ Show(Ended, settled')
    /\ UNCHANGED <<text, scheduled, timer, latestSeq, rendered>>

Works == ClientStep /\ Noticed

Next == Edit \/ TimerFires \/ Lint \/ Works

Spec == Init /\ [][Next]_vars

\* The event loops run: messages are delivered, timers fire, a module's load
\* ends, the page's own renderer ends.  The worker answers what it can without
\* waiting; preparing fonts for a dynamic render may take for ever.
FairSpec ==
    /\ Spec
    /\ WF_vars(TimerFires)
    /\ WF_vars((Receive \/ Drop) /\ Noticed)
    /\ WF_vars(Take /\ Noticed)
    /\ \A h \in Handlers : WF_vars(ModuleLoads(h) /\ Noticed)
    /\ \A c \in Calls, kind \in Kinds \ {"dynamic"} :
         WF_vars(Answer(Message(c, kind)) /\ Noticed)
    /\ \A c \in Calls :
         WF_vars((TimeOut(c) \/ PageSettles(c) \/ Reject(c)) /\ Noticed)

-----------------------------------------------------------------------------
(* Properties.                                                             *)

TypeOK == ClientTypeOK /\ LiveTypeOK

\* The page is a live update controller: it starts renders as the controller does,
\* and every promise the client settles ends one of them, whichever order that is.
RunsController == LiveSpec

\* A page at rest shows the newest text: with no timer set and no render under
\* way, what is displayed was rendered from what the editor holds.
QuietShowsText ==
    ~timer /\ open = {} /\ text > 0 => shown.seq # 0 /\ rendered[shown.seq] = text

\* A call made while the worker lives is settled, whatever the worker does then.
CallsSettle ==
    \A c \in Calls : (c \in called /\ ~terminated) ~> settled[c] # None

\* When the user stops typing the preview comes to show the text: "ignores stale
\* results when newer seq is pending" (web/tests/live-update.test.ts), and does
\* not stay with them.
TypingConverges ==
    <>[](terminated \/ text = 0 \/ (shown.seq # 0 /\ rendered[shown.seq] = text))

=============================================================================
