SPECIFICATION SonixSpec
CONSTANTS
    Threads = {t1, t2}
    Patterns = 2
    MaxSets = 1
    Registers <- MCRegisters
    MaxAccesses = 4
    Page = 4
    Sector = 16
    Burst = 3
    Base = 131312
    Texts <- MCTexts
    MaxCalls = 3
INVARIANTS AnswersRight PeripheralsMatch
CHECK_DEADLOCK FALSE
