SPECIFICATION Spec
CONSTANTS
    tea = tea
    Item <- MCItems
    NameOf <- MCNames
    Score <- MCScores
    LastRecipe = 3
    PageSize = 2
    NoScore = NoScore
    NoTurning = NoTurning
INVARIANTS
    RankedAsShown
    WholeUnlessReplaced
    NoProfitWithoutComponents
    PagesPartition
