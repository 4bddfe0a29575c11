\* Three runs one after another on the NRPT, a death possible between any two
\* calls, the store edited meanwhile; the store never empties and no command fails.
SPECIFICATION Spec
CONSTANTS
    a = a
    b = b
    d1 = d1
    d2 = d2
    d3 = d3
    None = None
    Namespaces = {a, b}
    Daemons <- MoreRuns
    Mechanism = "nrpt"
    Faults = {}
    Zones <- SomeZones
    Owned <- Window
    Overlap = FALSE
INVARIANTS
    TypeOK
    RulesAreListed
    StartsClean
    ServedIsClaimed
