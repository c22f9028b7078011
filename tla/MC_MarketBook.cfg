SPECIFICATION Spec
CONSTANTS
    m1 = m1
    m2 = m2
    Markets = {m1}
    Prices = {0, 50}
    Unit = 100
    Sizes = {0, 1}
    SnapshotSides <- MCSnapshotSides
    MaxLevels = 3
    Assets <- MCAssets
    AssetMarket <- MCAssetMarket
    AssetOutcome <- MCAssetOutcome
INVARIANTS
    NoDuplicateLevels
    BestIsExtreme
PROPERTIES
    ImplementsLevelBook
    MessagesDoAsTheySay
    MarkFollowsBook
