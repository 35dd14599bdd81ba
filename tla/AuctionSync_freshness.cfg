SPECIFICATION Spec
CONSTANTS
    Item = {"energy", "ore", "result"}
    EnergyItem = "energy"
    CatalogueItem = {"ore", "result"}
    Regions <- OneRegion
    Recipe <- OneRecipe
    Ingredients <- OreIngredient
    Results <- ResultComponent
    ZeroEnergy = {}
    Lots = {{1}}
    Trade = {"trade"}
    Rejections = {}
    Faults = FALSE
    RequestsPerMinute = 20
    CraftLotsRefresh = 1
    CraftHistoryRefresh = 1
    MarketLotsRefresh = 1
    MarketHistoryRefresh = 1
    EmptyProbeLimit = 1
    RunTicks = 0
    NoRow = NoRow
INVARIANTS
    SnapshotUsesStoredPrices
