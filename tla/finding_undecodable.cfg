CONSTANTS
    None = None
    Garbage = Garbage
    Procs = {p1, p2}
    MaxEvents = 2
    MaxDamage = 1
SPECIFICATION Spec
INVARIANTS
    DamageCostsNothing
