CONSTANTS
    None = None
    NoTool = NoTool
    FsWrite = "fs.write"
    MeterCap = 2
    MsPerSecond = 1
    MAX = 9
    ApprovalTtl = 1
    MaxEffects = 2
    MaxTurns = 1
    MaxLines = 1
    Tools = {"fs.write", "fs.read", "shell.exec", "forbidden", "mystery"}
    Manifest <- MCManifest
    Policy <- MCPolicy
    Budgets <- MCAmountBudgets
    Times <- MCTimes
SPECIFICATION ViewedSpec
INVARIANTS
    ViewAgrees
    AtMostOnce
    RunOnlyWithConsent
    RefusedNeverRuns
    OneOpenEffect
    TurnsCountEffects
    PlanSeesEverything
    OutputsTaint
    ToldTheTruth
PROPERTIES
    GrantInTime
    EffectsFollowTheProtocol
