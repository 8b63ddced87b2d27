CONSTANTS
    QueueLen = 3
    Clear = 3
    Update = 8
SPECIFICATION Spec
INVARIANTS
    TypeOK
    PlainPressWorks
    PatternTellsHold
    PatternTellsOutcome
