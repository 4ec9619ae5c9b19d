\* Two edits and a validation; posts that throw, loads that fail, a termination.
SPECIFICATION FairSpec
CONSTANTS
    Renders = {1, 2}
    Checks <- OneCheck
    None = None
CHECK_DEADLOCK FALSE
INVARIANTS TypeOK OneOwner OwnOutput QuietShowsText
PROPERTIES RunsController NeverOlder CallsSettle TypingConverges
