---------------------------- MODULE CatalogueSync ----------------------------
(***************************************************************************)
(* The synchronisation with its parsers: what a blob is refused with, and  *)
(* the item it describes, follow from the document it holds, the parser    *)
(* that reads it and the tables that are to store it.                      *)
(***************************************************************************)
EXTENDS GitHubSync, SourceParsers

CONSTANTS
    ItemDocument,   \* [Blob -> the JSON document of an item]
    RecipeDocument  \* [RecipeBlob -> the JSON document of perks and recipes]

\* The length of a value is found out before the constraints of its row.
RefusalOfItem(raw) ==
    LET item == parse_item(raw)
    IN CASE ~item.ok -> "ItemParseError"
         [] item.ok /\ ~ItemHasRoom(item) -> "DataError"
         [] item.ok /\ ItemHasRoom(item) /\ ~ItemKeepsConstraints(item) -> "IntegrityError"
         [] OTHER -> "none"

RefusalOfRecipes(raw) ==
    LET parsed == parse_hideout_recipes(raw)
    IN CASE ~parsed.ok -> "HideoutRecipeParseError"
         [] parsed.ok /\ ~RecipesHaveRoom(parsed) -> "DataError"
         [] parsed.ok /\ RecipesHaveRoom(parsed) /\ ~RecipesKeepConstraints(parsed) ->
              "IntegrityError"
         [] OTHER -> "none"

ASSUME DocumentAssumption ==
    /\ ItemRefusal = [b \in Blob |-> RefusalOfItem(ItemDocument[b])]
    /\ RecipeRefusal = [b \in RecipeBlob |-> RefusalOfRecipes(RecipeDocument[b])]
    /\ \A b \in Blob :
         ItemRefusal[b] # "ItemParseError" => IdOf[b] = parse_item(ItemDocument[b]).id

Component == [item : Text \cup {Absent}, amount : Int \cup {Absent}]

\* The blocks of an item are a list, and so are the elements of those that are lists.
IsList(value) == value \in Seq(ToSet(value))

AreBlocks(blocks) ==
    IsList(blocks) /\ \A i \in DOMAIN blocks : blocks[i].type = "list" => IsList(blocks[i].elements)

ASSUME BlocksAssumption == \A b \in Blob : AreBlocks(ItemDocument[b].infoBlocks)

\* The recipes of a document are a list, if there are any, and so are those of a recipe.
ASSUME ListAssumption ==
    \A b \in RecipeBlob :
        LET raw == RecipeDocument[b]
        IN raw.recipes # Absent =>
             /\ IsList(raw.recipes)
             /\ \A i \in DOMAIN raw.recipes :
                  /\ raw.recipes[i].result \in Seq(Component) \cup {Absent}
                  /\ raw.recipes[i].ingredients \in Seq(Component) \cup {Absent}

--------------------------------------------------------------------------------
(* Properties *)

\* The parsers let nothing through that a CHECK, a key or a UNIQUE of the tables would
\* stop: identifiers that rotate among items already stored are the only rows that ever
\* fail against a constraint (item_parser.py:36-40, hideout_recipe_parser.py:55-63, models).
OnlyRotationBreaksConstraints ==
    [][error # "IntegrityError" /\ error' = "IntegrityError" => PrimaryKeyClash]_vars

\* The elements and text blocks of a document that are worth an attribute, as pairs of
\* block and position.
Given(key, value) == IsNonempty(key) /\ value # Absent

WorthyIn(block) ==
    CASE block.type = "list" ->
           {j \in DOMAIN block.elements :
              /\ block.elements[j].type \in {"key-value", "numeric"}
              /\ Given(block.elements[j].key, block.elements[j].value)}
      [] block.type = "text" ->
           {j \in {0} : Given(block.key, block.text) /\ ~IsDescription(block)}
      [] OTHER -> {}

Worthy(raw) ==
    UNION {{<<i, j>> : j \in WorthyIn(raw.infoBlocks[i])} : i \in DOMAIN raw.infoBlocks}

KeyAt(raw, place) ==
    LET block == raw.infoBlocks[place[1]]
    IN IF block.type = "list" THEN block.elements[place[2]].key ELSE block.key

Before(place, other) ==
    place[1] < other[1] \/ (place[1] = other[1] /\ place[2] < other[2])

\* The attributes of every stored item, read by sort_order, are what is worth one in its
\* document, once each and in its order, over all its blocks (item_parser.py:42-62).
AttributesKeepSourceOrder ==
    \A p \in Path : items[p] # None =>
        LET raw == ItemDocument[items[p].content]
            rows == ToSet(parse_item(raw).attributes)
            Rank(place) == Cardinality({other \in Worthy(raw) : Before(other, place)})
        IN /\ Cardinality(rows) = Cardinality(Worthy(raw))
           /\ \A place \in Worthy(raw) :
                {row.key : row \in {r \in rows : r.sort_order = Rank(place)}} = {KeyAt(raw, place)}

\* A recipe's components: something is made, and reading them by type and number gives
\* each its place.
Yields(components) ==
    /\ \E i \in DOMAIN components : components[i].component_type = "result" /\ components[i].amount > 0
    /\ \A i, j \in DOMAIN components :
         /\ i # j
         /\ components[i].component_type = components[j].component_type
         => components[i].sort_order # components[j].sort_order

\* Every recipe that is stored makes something, so that its profit means something: the
\* value of no results at all would be a complete price of nothing, and its cost a loss
\* (hideout_recipe_parser.py:95-98, auction_sync.py:223-240).
StoredRecipesYield ==
    recipes # None =>
        LET stored == parse_hideout_recipes(RecipeDocument[recipes]).recipes
        IN \A i \in DOMAIN stored : Yields(stored[i].components)
================================================================================
