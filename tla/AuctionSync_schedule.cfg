SPECIFICATION FairSpec
CONSTANTS
    Item = {"energy", "scrap"}
    EnergyItem = "energy"
    CatalogueItem = {"scrap"}
    Regions <- TwoRegions
    Recipe <- NoRecipes
    Ingredients <- NoComponents
    Results <- NoComponents
    ZeroEnergy = {}
    Lots = {{1}}
    Trade = {}
    Rejections = {"other"}
    Faults = TRUE
    RequestsPerMinute = 4
    CraftLotsRefresh = 1
    CraftHistoryRefresh = 1
    MarketLotsRefresh = 1
    MarketHistoryRefresh = 1
    EmptyProbeLimit = 1
    RunTicks = 0
    NoRow = NoRow
PROPERTIES
    CatalogueIsQueued
    MarketQueueIsServed
INVARIANTS
    RequestBudget
    ActivityIsStored
