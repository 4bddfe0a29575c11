\* What must eventually happen, with commands that may be refused.
SPECIFICATION FairSpec
CONSTANTS
    a = a
    b = b
    d1 = d1
    d2 = d2
    d3 = d3
    None = None
    Namespaces = {a, b}
    Daemons <- OneRun
    Mechanism = "nrpt"
    Faults = {"apply", "bind"}
    Zones <- SomeZones
    Owned <- Window
    Overlap = FALSE
PROPERTIES
    OwnedRunEnds
    EditIsServed
    ServedGetsClaimed
