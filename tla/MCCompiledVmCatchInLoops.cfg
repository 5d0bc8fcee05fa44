SPECIFICATION FairSpec
CONSTANTS
    JumpRange = 1000
    LoopMax = 8
    JumpMax = 16
    ArgumentMax = 31
    FrameMax = 3
    StackSlots = 40
    MaxReads = 3
    CatchInLoops = TRUE
    FinallyThrows = FALSE
    FinallyJumps = FALSE
    Sources <- MCSources
    Source <- MCSource
INVARIANTS
    RunsAsWritten
