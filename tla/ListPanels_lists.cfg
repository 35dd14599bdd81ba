SPECIFICATION FairSpec
CONSTANTS
    Question = {"tea", "rum", "gin"}
    Entries <- EntriesOf
    PageSize = 2
    Slot = {1, 2, 3}
    None = None
INVARIANTS
    OneQuestionInOrder
    ButtonContinuesRows
    DeadButtonIsReplaced
    NothingLeftBehind
PROPERTIES
    LoadingEnds
