SPECIFICATION FairSpec
CONSTANTS
    Path = {1, 2, 3}
    Blob <- Blobs
    Id <- Texts
    IdOf <- IdOfBlob
    ItemRefusal <- ItemRefusals
    Tree <- Trees
    Files <- FilesOf
    RecipeBlob <- RecipeBlobs
    RecipeRefusal <- RecipeRefusals
    RecipeFile <- RecipeFileOf
    MaxFaults = 2
    None = None
    Text <- Texts
    Blank = {""}
    Long = {"wordy"}
    DescriptionKey = {"about.description"}
    Absent = Absent
    ItemDocument <- ItemDocuments
    RecipeDocument <- RecipeDocuments
INVARIANTS
    MarkersAreTrue
    SuccessIsConsistent
    AttributesKeepSourceOrder
    StoredRecipesYield
PROPERTIES
    Converges
    StatusSettles
    OnlyRotationBreaksConstraints
