SPECIFICATION Spec
CONSTANTS
    Item = {"energy", "ore"}
    EnergyItem = "energy"
    CatalogueItem = {"ore"}
    Regions <- OneRegion
    Recipe <- Sifting
    Ingredients <- SiftedOre
    Results <- SiftedOre
    ZeroEnergy = {"sift"}
    Lots = {{}, {0}, {0, 2, 3}}
    Trade = {"trade"}
    Rejections = {"invalid"}
    Faults = TRUE
    RequestsPerMinute = 3
    CraftLotsRefresh = 1
    CraftHistoryRefresh = 1
    MarketLotsRefresh = 1
    MarketHistoryRefresh = 1
    EmptyProbeLimit = 2
    RunTicks = 0
    NoRow = NoRow
INVARIANTS
    RetirementJustified
    CandlesCoverTrades
    SnapshotNeverContradicts
PROPERTIES
    FollowsLifecycle
