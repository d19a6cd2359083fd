CONSTANTS
    None = None
    NoTool = NoTool
    FsWrite = "fs.write"
    MeterCap = 2
    MsPerSecond = 1
    MAX = 9
    ApprovalTtl = 1
    MaxEffects = 2
    MaxTurns = 1
    MaxLines = 1
    Tools = {"fs.write", "forbidden", "shell.exec"}
    Manifest <- MCManifest
    Policy <- MCPolicy
    Budgets <- MCWallBudgets
    Times <- MCTimes
SPECIFICATION FairSpec
INVARIANTS
    GatesAgree
    BrokeOnlyByApproval
PROPERTIES
    NothingIsForgotten
    EveryCallEnds
