\* Repair after a stop and before the next start, with reboots; the store may empty.
SPECIFICATION RepairSpec
CONSTANTS
    a = a
    b = b
    d1 = d1
    d2 = d2
    d3 = d3
    None = None
    Namespaces = {a, b}
    Daemons <- Runs
    Mechanism = "nrpt"
    Faults = {}
    Zones <- AnyZones
    Owned <- Window
    Overlap = FALSE
    RepairAnytime = FALSE
    Reboots = TRUE
INVARIANTS
    RepairedIsClean
