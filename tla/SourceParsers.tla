---------------------------- MODULE SourceParsers ----------------------------
(***************************************************************************)
(* What the parsers of the GitHub synchronisation make of a document: rows *)
(* to be stored, or a refusal; and what the tables say to such rows.       *)
(*                                                                         *)
(* A field of a document is a text, a number, a sequence or a record, and  *)
(* Absent where it is missing or of another type; a list that the parser   *)
(* takes to be empty when it is missing is empty.  A translation is a key  *)
(* and an English text.                                                    *)
(***************************************************************************)
EXTENDS Integers, Sequences, SequencesExt

CONSTANTS
    Text,           \* the texts that documents hold
    Blank,          \* those of which strip() leaves nothing
    Long,           \* those that no column of limited length holds
    DescriptionKey, \* those that end in ".description"
    Absent          \* a field that is missing or of another type

ASSUME TextAssumption ==
    /\ Blank \subseteq Text
    /\ Long \subseteq Text \ Blank
    /\ DescriptionKey \subseteq Text \ Blank
    /\ Absent \notin Text

Refused == [ok |-> FALSE]

\* _require_nonempty_string, _require_string, _get_translation_key: value.strip()
IsNonempty(value) == value \in Text \ Blank

--------------------------------------------------------------------------------
(* item_parser.py *)

Attribute(key, label, text, number, unit, n) ==
    [key |-> key, label |-> label, value_text |-> text, value_numeric |-> number,
     unit_label |-> unit, sort_order |-> n]

\* An element without a key or a value of its type gives no attribute; the number of
\* an attribute is that of the attributes before it.
WithListElement(attributes, element) ==
    IF ~IsNonempty(element.key) \/ element.value = Absent THEN attributes
    ELSE CASE element.type = "key-value" ->
                Append(attributes, Attribute(element.key, element.label, element.value, Absent,
                                             Absent, Len(attributes)))
           [] element.type = "numeric" ->
                Append(attributes, Attribute(element.key, element.label, Absent, element.value,
                                             element.unit, Len(attributes)))
           [] OTHER -> attributes

WithTextBlock(attributes, block) ==
    IF ~IsNonempty(block.key) \/ block.text = Absent THEN attributes
    ELSE Append(attributes, Attribute(block.key, block.label, block.text, Absent, Absent,
                                      Len(attributes)))

IsDescription(block) == block.label = "" /\ block.key \in DescriptionKey

\* The attributes after so many elements.
AfterElements(attributes, elements) ==
    LET after[n \in 0..Len(elements)] ==
          IF n = 0 THEN attributes ELSE WithListElement(after[n - 1], elements[n])
    IN after

\* Mutation: each list numbers its own elements.
WithOwnList(attributes, elements) == attributes \o AfterElements(<<>>, elements)[Len(elements)]

WithList(attributes, elements) == AfterElements(attributes, elements)[Len(elements)]

\* parsed: the description and the attributes found in the blocks before.
WithBlock(parsed, block) ==
    CASE block.type = "list" ->
           [parsed EXCEPT !.attributes = WithList(@, block.elements)]
      [] block.type = "text" /\ IsDescription(block) -> [parsed EXCEPT !.description = block.text]
      [] block.type = "text" /\ ~IsDescription(block) ->
           [parsed EXCEPT !.attributes = WithTextBlock(@, block)]
      [] OTHER -> parsed

\* The same after so many blocks.
AfterBlocks(blocks) ==
    LET after[n \in 0..Len(blocks)] ==
          IF n = 0 THEN [description |-> Absent, attributes |-> <<>>]
          ELSE WithBlock(after[n - 1], blocks[n])
    IN after

parse_item(raw) ==
    IF ~(IsNonempty(raw.id) /\ IsNonempty(raw.category) /\ IsNonempty(raw.name)) THEN Refused
    ELSE LET parsed == AfterBlocks(raw.infoBlocks)[Len(raw.infoBlocks)]
         IN [ok |-> TRUE, id |-> raw.id, category |-> raw.category, name |-> raw.name,
             description |-> parsed.description, color |-> raw.color, state |-> raw.state,
             attributes |-> parsed.attributes]

--------------------------------------------------------------------------------
(* hideout_recipe_parser.py *)

IsPerk(perk) == IsNonempty(perk.id) /\ IsNonempty(perk.name)

\* Mutation: the ids are not compared.
EachIsPerk(perks) == \A i \in DOMAIN perks : IsPerk(perks[i])

\* Each perk can be parsed, and no two have one id.
ArePerks(perks) ==
    /\ \A i \in DOMAIN perks : IsPerk(perks[i])
    /\ \A i, j \in DOMAIN perks : i # j => perks[i].id # perks[j].id

IsTranslation(value) == value # Absent /\ IsNonempty(value.key) /\ IsNonempty(value.text)

AreComponents(raw) ==
    raw # Absent /\ \A i \in DOMAIN raw : IsNonempty(raw[i].item) /\ raw[i].amount \in Nat \ {0}

\* Mutation: the check follows the ingredients.
HasComponents(raw) == raw.result \o raw.ingredients # <<>>

HasResults(raw) == raw.result # <<>>

\* What the checks of _parse_recipe leave.
IsRecipe(raw) ==
    /\ IsTranslation(raw.category)
    /\ raw.subcategory # Absent => IsTranslation(raw.subcategory)
    /\ raw.energy \in Nat
    /\ AreComponents(raw.result) /\ AreComponents(raw.ingredients) /\ HasResults(raw)
    /\ IsNonempty(raw.bench)
    /\ \A required \in raw.perks : IsNonempty(required.id) /\ required.level \in Nat
    /\ \A feature \in raw.features : IsNonempty(feature)

_parse_components(raw, type) ==
    [i \in DOMAIN raw |-> [component_type |-> type, item_id |-> raw[i].item,
                           amount |-> raw[i].amount, sort_order |-> i - 1]]

_parse_recipe(raw, index) ==
    [source_index |-> index, bench |-> raw.bench, energy |-> raw.energy,
     category |-> raw.category, subcategory |-> raw.subcategory,
     required_perks |-> raw.perks, required_features |-> raw.features,
     components |-> _parse_components(raw.result, "result")
                    \o _parse_components(raw.ingredients, "ingredient")]

parse_hideout_recipes(raw) ==
    IF raw.perks = Absent \/ raw.recipes = Absent THEN Refused
    ELSE IF ~ArePerks(raw.perks) \/ (\E i \in DOMAIN raw.recipes : ~IsRecipe(raw.recipes[i]))
    THEN Refused
    ELSE [ok |-> TRUE, perks |-> raw.perks,
          recipes |-> [i \in DOMAIN raw.recipes |-> _parse_recipe(raw.recipes[i], i - 1)]]

--------------------------------------------------------------------------------
(* The constraints of the tables, and the lengths of their columns *)

ItemKeepsConstraints(item) ==
    /\ {item.id, item.category, item.name} \cap Blank = {}
    /\ \A i \in DOMAIN item.attributes :
         LET row == item.attributes[i]
         IN /\ row.key \notin Blank /\ row.sort_order >= 0
            /\ row.value_text # Absent \/ row.value_numeric # Absent

\* Descriptions and values are of unlimited length.
ItemHasRoom(item) ==
    /\ {item.id, item.category, item.name, item.color, item.state} \cap Long = {}
    /\ \A i \in DOMAIN item.attributes :
         LET row == item.attributes[i] IN {row.key, row.label, row.unit_label} \cap Long = {}

RecipesKeepConstraints(parsed) ==
    /\ \A i \in DOMAIN parsed.perks :
         /\ {parsed.perks[i].id, parsed.perks[i].name} \cap Blank = {}
         /\ \A j \in DOMAIN parsed.perks : i # j => parsed.perks[i].id # parsed.perks[j].id
    /\ \A i \in DOMAIN parsed.recipes :
         LET row == parsed.recipes[i]
         IN /\ {row.bench, row.category.key, row.category.text} \cap Blank = {}
            /\ row.source_index >= 0 /\ row.energy >= 0
            /\ \A j \in DOMAIN parsed.recipes : i # j => parsed.recipes[j].source_index # row.source_index
            /\ \A j \in DOMAIN row.components :
                 LET component == row.components[j]
                 IN /\ component.item_id \notin Blank
                    /\ component.amount > 0 /\ component.sort_order >= 0

RecipesHaveRoom(parsed) ==
    /\ \A i \in DOMAIN parsed.perks : {parsed.perks[i].id, parsed.perks[i].name} \cap Long = {}
    /\ \A i \in DOMAIN parsed.recipes :
         LET row == parsed.recipes[i]
             sub == IF row.subcategory = Absent THEN {}
                    ELSE {row.subcategory.key, row.subcategory.text}
         IN /\ ({row.bench, row.category.key, row.category.text} \cup sub) \cap Long = {}
            /\ \A j \in DOMAIN row.components : row.components[j].item_id \notin Long

================================================================================
