\* The last domain is disabled and the daemon is then stopped.
SPECIFICATION Spec
CONSTANTS
    a = a
    b = b
    d1 = d1
    d2 = d2
    d3 = d3
    None = None
    Namespaces = {a, b}
    Daemons <- Runs
    Mechanism = "nrpt"
    Faults = {}
    Zones <- AnyZones
    Owned <- Window
    Overlap = FALSE
INVARIANTS
    StopPutsBack
