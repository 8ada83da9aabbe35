SPECIFICATION Spec
CONSTANTS
    attr1 = attr1
    attr2 = attr2
    old = old
    Attrs = {attr1, attr2}
    Entries <- MCEntries
    OldNames = {old}
    Handlers <- MCHandlers
    Sizes = {1, 2}
    Values = {0, 1}
    Default = 0
INVARIANTS
    TypeOK
    CleanIsStored
    ExportStoresAll
PROPERTIES
    LoadTouchesOwn
