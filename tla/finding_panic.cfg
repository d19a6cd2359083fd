CONSTANTS
    None = None
    NoTool = NoTool
    FsWrite = "fs.write"
    MeterCap = 2
    MsPerSecond = 1
    MAX = 9
    ApprovalTtl = 1
    MaxEffects = 1
    MaxTurns = 0
    MaxLines = 1
    Tools = {"fs.read"}
    Manifest <- MCManifest
    Policy <- MCPolicy
    Budgets <- MCUnlimited
    Times <- MCStill
SPECIFICATION StartedThenResumed
INVARIANTS
    NeverPanics
