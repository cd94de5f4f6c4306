SPECIFICATION ChoiceSpec
CONSTANTS
    MaxPreviews = 2
    MaxTurns = 3
    MaxPrompts = 1
    MaxAborts = 1
    MaxResolves = 2
INVARIANTS
    ChoiceInv
    PreviewKept
    AppliedOnce
CHECK_DEADLOCK FALSE
