CONSTANTS
    None = None
    Scheduler = scheduler
    Triggers = {t1}
    Runs = {r1, r2}
    Hooks = {h1}
    Specs <- MCSpecs
    Times <- MCTimes
    MaxCrashes = 1
SYMMETRY MCRunSymmetry
SPECIFICATION Spec
INVARIANTS
    NoOverlap
    OnceStartsOnce
    OnceIsNotLost
PROPERTIES
    FiresAdvance
