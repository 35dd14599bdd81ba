SPECIFICATION FairSpec
CONSTANTS
    Request = {p1, p2}
    User = {"ann", "bob"}
    RecordId = {1}
    Quantity = {1, 2}
    Quote <- Quotes
    Crashes = TRUE
    NoRow = NoRow
    NoPrice = NoPrice
INVARIANTS
    NoOversell
PROPERTIES
    AnswersAsLedger
    RequestsAnswered
