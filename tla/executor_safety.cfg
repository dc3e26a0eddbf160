\* One apply and one read share the executor; Desktop starts serving twice.
CONSTANTS
    a1 = a1
    r1 = r1
    Calls <- OneOfEach
    Mutating <- OneApply
    MaxEpoch = 2
SPECIFICATION Spec
INVARIANTS
    TypeOK
    RunsAtMostOnce
    PinnedNeverRetargeted
    OutcomeTellsTheTruth
    UnsentNeverRuns
PROPERTY PromiseKept
