\* Two records at a time, three in all, named and renamed by the window, the
\* console and one importer.
CONSTANTS
    Labels <- MCLabels
    Folded <- MCFolded
    LongLabels = {}
    HyphenLabels = {}
    OddLabels = {"*"}
    HstsLabels = {}
    MaxLabels = 3
    Addresses = {"home", "other"}
    TypedAddresses = {"", "home"}
    DefaultAddress = "home"
    Typed <- MCTyped
    Importers = {"docker"}
    Listings <- MCListings
    MaxRecords = 2
    MaxIssued = 3
SPECIFICATION Spec
INVARIANTS
    EditingTypeOK
    BackendsAgree
PROPERTIES
    EditsAreRecordEdits
    
