SPECIFICATION SnapSpec
CONSTANTS
    SnapPaths = {"a", "b"}
    SnapHeads <- MCSnapHeads
    SnapTexts = {"x", "y"}
    MaxSnapEdits = 1
INVARIANT InventoryComplete
