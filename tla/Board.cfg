\* One session: two overlapping tool calls, four things Claude Code or the player
\* do, two unasked reactions at once, a cooldown of one tick and a clock that passes it.
SPECIFICATION Spec
CONSTANTS
    None = None
    Concepts <- MCConcepts
    Tools = {t1, t2}
    Cooldown = 1
    BoardLines = 3
    MaxClock = 1
    MaxInputs = 4
    MaxSpeaking = 2
INVARIANTS
    AnswersInOrder
    UnaskedWaitsItsTurn
    BannerEnds
SYMMETRY MCSymmetry
CHECK_DEADLOCK FALSE
