SPECIFICATION Spec
CONSTANTS
    Path = {1, 2, 3}
    Blob <- Blobs
    Id <- Texts
    IdOf <- IdOfBlob
    ItemRefusal <- ItemRefusals
    Tree <- RotatedTrees
    Files <- RotatedFiles
    RecipeBlob <- RecipeBlobs
    RecipeRefusal <- RecipeRefusals
    RecipeFile <- RotatedRecipes
    MaxFaults = 0
    None = None
    Text <- Texts
    Blank = {""}
    Long = {"wordy"}
    DescriptionKey = {"about.description"}
    Absent = Absent
    ItemDocument <- ItemDocuments
    RecipeDocument <- RecipeDocuments
INVARIANTS
    UnsafeSourceIsRefused
