----------------------------- MODULE LiveUpdate -----------------------------
(***************************************************************************)
(* The live update controller of the playground (web/src/live-update.ts):  *)
(* it debounces edits, numbers the renders it starts and shows only what   *)
(* comes back for the newest one, in whatever order renders end.           *)
(***************************************************************************)
EXTENDS Naturals

CONSTANTS
    Seqs,           \* the sequence numbers used, 1..MaxEdits in a small instance
    Results,        \* what a render may end with
    None            \* nothing, yet

VARIABLES
    text,           \* the edits made so far: the version the editor shows
    scheduled,      \* latestScheduled: the version a timer will render
    timer,          \* timeoutHandle is set
    latestSeq,      \* latestSeq and nextSeq, which are always equal
    rendered,       \* the version each render was started for
    open,           \* the renders that have not ended
    shown           \* what the preview displays: a render and its result

liveVars == <<text, scheduled, timer, latestSeq, rendered, open, shown>>

Nothing == [seq |-> 0, result |-> None]

LiveInit ==
    /\ text = 0
    /\ scheduled = 0
    /\ timer = FALSE
    /\ latestSeq = 0
    /\ rendered = [s \in Seqs |-> 0]
    /\ open = {}
    /\ shown = Nothing

-----------------------------------------------------------------------------

\* The slip of numbering a render without making it the latest.
TriggerUnnoticed(version) ==
    /\ latestSeq + 1 \in Seqs
    /\ rendered' = [rendered EXCEPT ![latestSeq + 1] = version]
    /\ open' = open \cup {latestSeq + 1}
    /\ UNCHANGED latestSeq

\* triggerRender: the next number is the latest.
Trigger(version) ==
    /\ latestSeq + 1 \in Seqs
    /\ latestSeq' = latestSeq + 1
    /\ rendered' = [rendered EXCEPT ![latestSeq + 1] = version]
    /\ open' = open \cup {latestSeq + 1}

\* The slip of rendering at once but leaving the timer as it was.
EditNowToo ==
    /\ text' = text + 1
    /\ Trigger(text + 1)
    /\ UNCHANGED <<scheduled, timer, shown>>

\* schedule() without a delay: the timer, if any, is cleared.
EditNow ==
    /\ text' = text + 1
    /\ scheduled' = text + 1
    /\ timer' = FALSE
    /\ Trigger(text + 1)
    /\ UNCHANGED shown

\* The slip of keeping a timer, and with it the version it was set for.
EditLaterOnce ==
    /\ text + 1 \in Seqs
    /\ text' = text + 1
    /\ scheduled' = IF timer THEN scheduled ELSE text + 1
    /\ timer' = TRUE
    /\ UNCHANGED <<latestSeq, rendered, open, shown>>

\* schedule() with a delay: the timer starts again, for the newest text.
EditLater ==
    /\ text + 1 \in Seqs
    /\ text' = text + 1
    /\ scheduled' = text + 1
    /\ timer' = TRUE
    /\ UNCHANGED <<latestSeq, rendered, open, shown>>

Fire ==
    /\ timer
    /\ timer' = FALSE
    /\ Trigger(scheduled)
    /\ UNCHANGED <<text, scheduled, shown>>

\* The slip of showing whatever comes.
ShowAll(ended, result) ==
    shown' = IF ended = {} THEN shown
             ELSE LET s == CHOOSE s \in ended : TRUE
                  IN  [seq |-> s, result |-> result[s]]

\* then and catch: the render with the latest number is shown, others are not.
Show(ended, result) ==
    shown' = IF latestSeq \in ended
             THEN [seq |-> latestSeq, result |-> result[latestSeq]]
             ELSE shown

\* Some renders end, each once.
End(ended, result) ==
    /\ ended # {}
    /\ ended \subseteq open
    /\ open' = open \ ended
    /\ Show(ended, result)
    /\ UNCHANGED <<text, scheduled, timer, latestSeq, rendered>>

\* cancel(): the page never calls it.
Cancel == timer /\ timer' = FALSE /\
          UNCHANGED <<text, scheduled, latestSeq, rendered, open, shown>>

LiveNext ==
    \/ EditNow \/ EditLater \/ Fire \/ Cancel
    \/ \E ended \in SUBSET Seqs : \E result \in [Seqs -> Results] : End(ended, result)

LiveSpec == LiveInit /\ [][LiveNext]_liveVars

-----------------------------------------------------------------------------
(* Properties.                                                             *)

LiveTypeOK ==
    /\ text \in Nat
    /\ scheduled \in 0..text
    /\ timer \in BOOLEAN
    /\ latestSeq \in Nat
    /\ rendered \in [Seqs -> 0..text]
    /\ open \subseteq Seqs
    /\ shown.seq \in 0..latestSeq

\* The preview never goes back to an older render, whatever order they end in.
NeverOlder == [][shown'.seq >= shown.seq]_liveVars

\* A controller at rest shows its newest render: with nothing under way, what
\* is displayed is the render with the latest number.
QuietShowsLatest == open = {} => shown.seq = latestSeq

=============================================================================
