CONSTANTS
    None = None
    Scheduler = scheduler
    Triggers = {t1}
    Runs = {r1, r2, r3}
    Hooks = {h1, h2}
    Specs <- MCWebhook
    Times <- MCShort
    MaxCrashes = 0
SPECIFICATION Spec
INVARIANTS
    NeverOverlaps
