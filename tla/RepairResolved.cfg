\* Runs and repairs on systemd-resolved, where a reboot takes the link away.
SPECIFICATION RepairSpec
CONSTANTS
    a = a
    b = b
    d1 = d1
    d2 = d2
    d3 = d3
    None = None
    Namespaces = {a, b}
    Daemons <- Runs
    Mechanism = "systemd-resolved"
    Faults = {}
    Zones <- SomeZones
    Owned <- Window
    Overlap = FALSE
    RepairAnytime = FALSE
    Reboots = TRUE
INVARIANTS
    RulesAreListed
