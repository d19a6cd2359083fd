CONSTANTS
    None = None
    MeterCap = 4
    MsPerSecond = 1
    Tools = {"fs.write", "fs.read", "shell.exec", "other"}
    Policies <- MCPolicies
    Budgets <- MCBudgets
    MaxMeter = 4
    Names = {"a", "b", "w1", "w2", "out", "base"}
    Base <- MCBase
    DirNames = {"w1", "w2"}
    Sensitive <- MCSensitive
    MaxSteps = 9
    FileCalls <- MCFileCalls
    ShellCalls <- MCShellCalls
    AllowedPrograms = {"sh"}
    TimeoutCap = 3
    OutputCap = 1
    MaxWritten = 2
    MAX = 4
    Model = "m"
    Tables <- MCTables
    Usages <- MCUsages
SPECIFICATION TurnSpec
CHECK_DEADLOCK FALSE
INVARIANTS
    LogDecides
    NeverLooser
    GatesHold
    PaidFor
    OutputIsWhole
    NothingOutlivesAKill
    LandsInWorkspace
    AccountIsExact
PROPERTIES
    EveryCommandEnds
