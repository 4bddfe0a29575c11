\* Two runs that may be alive at once, and every fault they can meet before stop().
SPECIFICATION Spec
CONSTANTS
    a = a
    b = b
    d1 = d1
    d2 = d2
    d3 = d3
    None = None
    Namespaces = {a, b}
    Daemons <- Runs
    Mechanism = "nrpt"
    Faults = {"apply", "remove", "save", "pid"}
    Zones <- NoneOrBoth
    Owned <- NoWindow
    Overlap = TRUE
INVARIANTS
    IntentCoversConfirmed
    ServingIsPublished
PROPERTIES
    BindBeforeClaim
SYMMETRY Interchangeable
