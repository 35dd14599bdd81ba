----------------------------- MODULE MCGitHubSync -----------------------------
(* Small instances of CatalogueSync: the values of its constants for TLC. *)
EXTENDS CatalogueSync

\* A tree is named for what is done to "base".
Trees == {"base", "edited", "moved", "swapped", "rotated", "duplicate", "malformed", "overlong",
          "no_recipes", "no_result", "twins", "wordy"}
FilesOf == [t \in Trees |->
    CASE t = "edited"    -> <<"tea2", "rum1", "gin1">>
      [] t = "moved"     -> <<None, "tea1", "rum1">>
      [] t = "swapped"   -> <<"rum1", "tea1", "gin1">>
      [] t = "rotated"   -> <<"gin1", "tea1", "rum1">>
      [] t = "duplicate" -> <<"tea1", "tea2", None>>
      [] t = "malformed" -> <<"anonymous", "unnamed", "unsorted">>
      [] t = "overlong"  -> <<"tea1", "wordy", None>>
      [] OTHER           -> <<"tea1", "rum1", None>>]
RecipeFileOf == [t \in Trees |->
    CASE t = "no_recipes" -> None
      [] t \in {"no_result", "twins", "wordy"} -> t
      [] t = "moved" -> "unpaid"
      [] t \in {"edited", "swapped"} -> "new"
      [] OTHER -> "old"]

\* Texts, among them the keys that blocks and elements are known by.
Texts == {"", "tea", "rum", "gin", "wordy", "k1", "k2", "k3", "about.description"}

Pair(key, value) == [type |-> "key-value", key |-> key, label |-> "tea", value |-> value]
Figure(key, value, unit) ==
    [type |-> "numeric", key |-> key, label |-> Absent, value |-> value, unit |-> unit]
List(elements) == [type |-> "list", elements |-> elements]
TextBlock(key, title, text) == [type |-> "text", key |-> key, label |-> title, text |-> text]
Item(id, blocks) ==
    [id |-> id, category |-> "k1", name |-> "tea", color |-> Absent, state |-> Absent,
     infoBlocks |-> blocks]

\* Blobs are named for the item they describe and their version, or for their flaw.
ItemJson ==
    [tea1 |-> Item("tea", << List(<<Pair("k2", "gin"), Pair("", "rum"), Figure("k1", 3, "tea")>>),
                             [type |-> "icon"],
                             TextBlock("about.description", "", "wordy"),
                             List(<<Figure("k2", Absent, Absent), [type |-> "priceStub", key |-> "k3",
                                                           value |-> "tea"], Pair("k1", "")>>),
                             TextBlock("about.description", "tea", "gin"),
                             TextBlock("k3", "", Absent) >>),
     tea2 |-> Item("tea", << TextBlock("k3", Absent, "rum"), List(<<Pair("k1", "tea")>>) >>),
     rum1 |-> Item("rum", << List(<<>>), List(<<Figure("k3", 0, Absent)>>),
                             List(<<Pair("k2", "gin"), Pair("k2", "rum")>>) >>),
     gin1 |-> Item("gin", <<>>),
     anonymous |-> Item("", <<>>),
     unnamed |-> [Item("gin", <<>>) EXCEPT !.name = Absent],
     unsorted |-> [Item("gin", <<>>) EXCEPT !.category = ""],
     wordy |-> Item("rum", << List(<<Figure("k1", 1, "wordy")>>) >>)]
ItemDocuments == ItemJson
Blobs == DOMAIN ItemJson

\* A function that is computed once; TLC keeps its value for a definition, not for the
\* constant that a configuration gives that definition to.
Table(Of(_), S) == FoldSet(LAMBDA x, table : (x :> Of(x)) @@ table, <<>>, S)

RefusalOfBlob(b) == RefusalOfItem(ItemJson[b])
IdIn(b) == LET item == parse_item(ItemJson[b]) IN IF item.ok THEN item.id ELSE ""
RefusalTable == Table(RefusalOfBlob, Blobs)
IdTable == Table(IdIn, Blobs)
ItemRefusals == RefusalTable
IdOfBlob == IdTable

Sort(key) == [key |-> key, text |-> "tea"]
Amount(item, n) == [item |-> item, amount |-> n]
Brew == [bench |-> "k1", category |-> Sort("k1"), subcategory |-> Absent, energy |-> 0,
         result |-> <<Amount("rum", 1), Amount("gin", 2)>>, ingredients |-> <<Amount("tea", 2)>>,
         perks |-> {[id |-> "k2", level |-> 0]}, features |-> {"k3"}]
Perks == <<[id |-> "k1", name |-> "tea"], [id |-> "k2", name |-> "tea"]>>
RecipeJson ==
    [old |-> [perks |-> Perks, recipes |-> <<Brew, [Brew EXCEPT !.subcategory = Sort("k2")]>>],
     new |-> [perks |-> <<>>, recipes |-> <<[Brew EXCEPT !.ingredients = <<>>, !.energy = 3]>>],
     no_result |-> [perks |-> Perks, recipes |-> <<Brew, [Brew EXCEPT !.result = <<>>]>>],
     unpaid |-> [perks |-> Perks, recipes |-> <<[Brew EXCEPT !.ingredients = <<Amount("tea", 0)>>]>>],
     twins |-> [perks |-> <<Perks[1], Perks[2], Perks[1]>>, recipes |-> <<>>],
     wordy |-> [perks |-> Perks, recipes |-> <<[Brew EXCEPT !.subcategory = Sort("wordy")]>>]]
RecipeDocuments == RecipeJson
RecipeBlobs == DOMAIN RecipeJson
RefusalOfRecipeBlob(b) == RefusalOfRecipes(RecipeJson[b])
RecipeRefusalTable == Table(RefusalOfRecipeBlob, RecipeBlobs)
RecipeRefusals == RecipeRefusalTable

\* Items that exchange their identifiers.
RotatedTrees == {"edited", "rotated"}
RotatedFiles == [t \in RotatedTrees |-> FilesOf[t]]
RotatedRecipes == [t \in RotatedTrees |-> RecipeFileOf[t]]
================================================================================
