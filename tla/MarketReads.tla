------------------------------ MODULE MarketReads ------------------------------
(***************************************************************************)
(* The listings of services/market.py: searches and rankings of items and  *)
(* of crafts, page by page, read by a GET request while the two            *)
(* synchronisations go on committing.  Every statement is a step and sees  *)
(* what is committed when it runs; a row that the session has loaded and   *)
(* still holds is not read again.                                          *)
(*                                                                         *)
(* Requests only read, so one at a time stands for all of them.  Of an     *)
(* item the model keeps its name, as a place in the alphabet, and how good *)
(* a buy it is; of a recipe its identifier, the profit stored for it and   *)
(* whether its components were found.  All items and recipes match the     *)
(* search, and all are ranked by the same column.                          *)
(***************************************************************************)
EXTENDS Integers, Sequences, FiniteSets

CONSTANTS
    Item,
    NameOf,         \* [Item -> Nat]: the place of an item's name, which others may share
    Score,          \* what an item or a recipe may be ranked by
    LastRecipe,     \* bound: recipe identifiers are given out up to this one
    PageSize,       \* PAGE_SIZE
    NoScore,        \* no price, no snapshot, or not good enough to be listed
    NoTurning       \* nobody is turning pages

ASSUME ItemAssumption == IsFiniteSet(Item) /\ NameOf \in [Item -> Nat]
ASSUME ScoreAssumption == Score \subseteq Int /\ NoScore \notin Score
ASSUME SizeAssumption == LastRecipe \in Nat /\ PageSize \in Nat \ {0}

VARIABLES
    items,      \* the items there are
    scores,     \* [Item -> Score or NoScore]       prices and candles of EU
    recipes,    \* identifiers of the recipes there are
    lastId,     \* the last identifier given out
    profits,    \* [recipe -> Score or NoScore]     complete snapshots of EU
    pc, listing, order, page,   \* the request
    ranked,     \* the rows of its first statement, in order
    found,      \* recipes loaded for them
    whole,      \* those of them whose components were loaded too
    shown,      \* the crafts of the answer so far
    answer,
    replaced,   \* history: the recipes were replaced during the request
    turning,    \* history: the listing whose pages are asked for one by one, ...
    turned      \* history: ... while nothing changes, and what they have listed

tables == <<items, scores, recipes, lastId, profits>>
request == <<pc, listing, order, page, ranked, found, whole, shown, answer>>
histories == <<replaced, turning, turned>>
vars == <<tables, request, histories>>

RecipeId == 1..LastRecipe

Init ==
    /\ items = {} /\ scores = [i \in Item |-> NoScore]
    /\ recipes = {} /\ lastId = 0 /\ profits = [r \in RecipeId |-> NoScore]
    /\ pc = "idle" /\ listing = "items" /\ order = "asc" /\ page = 1
    /\ ranked = <<>> /\ found = {} /\ whole = {} /\ shown = <<>> /\ answer = "none"
    /\ replaced = FALSE /\ turning = NoTurning /\ turned = <<>>

--------------------------------------------------------------------------------
(* What the listings list *)

\* A row of a listing, with the value it is sorted by.
Row(o, k) == [of |-> o, key |-> k]

\* search_items: by name
ItemRows == {Row(i, NameOf[i]) : i \in items}

\* top_buy_items and profitable_buy_items: what is on sale, traded and worth its price
BuyRows == {Row(i, scores[i]) : i \in {i \in items : scores[i] # NoScore}}

\* search_crafts: by identifier
CraftRows == {Row(r, r) : r \in recipes}

\* top_crafts: the complete snapshots
ProfitRows == {Row(r, profits[r]) : r \in {r \in RecipeId : profits[r] # NoScore}}

Rows(l) ==
    CASE l = "items" -> ItemRows
      [] l = "top_items" -> BuyRows
      [] l = "crafts" -> CraftRows
      [] l = "top_crafts" -> ProfitRows

InOrder(o, a, b) == IF o = "asc" THEN a.key <= b.key ELSE b.key <= a.key

\* The orders in which the rows may come: nothing decides between equal values.
Listings(rows, o) ==
    {s \in [1..Cardinality(rows) -> rows] :
        /\ \A x \in rows : \E i \in DOMAIN s : s[i] = x
        /\ \A i, j \in DOMAIN s : i < j => InOrder(o, s[i], s[j])}

\* Mutation: the first page is skipped.
SkippedOffset(n) == n * PageSize

Offset(n) == (n - 1) * PageSize

PageOf(s, n) == SubSeq(s, Offset(n) + 1, IF Len(s) < Offset(n) + PageSize THEN Len(s)
                                         ELSE Offset(n) + PageSize)

--------------------------------------------------------------------------------
(* A request *)

Searches == {"items", "crafts"}
Listed == {"items", "top_items", "crafts", "top_crafts"}

\* A reader who turns pages: what has been asked for last.
Turn == [listing : Listed, order : {"asc", "desc"}, page : Nat \ {0}]
ASSUME NoTurningAssumption == NoTurning \notin Turn

\* Searches are sorted upwards, by name and by identifier.
Ask(l, o, n) ==
    /\ pc = "idle" /\ (l \in Searches => o = "asc")
    /\ pc' = "rank" /\ listing' = l /\ order' = o /\ page' = n
    /\ ranked' = <<>> /\ found' = {} /\ whole' = {} /\ shown' = <<>> /\ answer' = "none"
    /\ replaced' = FALSE
    /\ UNCHANGED <<tables, turning, turned>>

Reply(a) == pc' = "idle" /\ answer' = a

\* History: the page is the first one, or continues the one before it.
TurnPage(rows) ==
    LET turn == [listing |-> listing, order |-> order, page |-> page] IN
    IF page = 1
    THEN turning' = turn /\ turned' = rows
    ELSE IF turning = [turn EXCEPT !.page = page - 1]
    THEN turning' = turn /\ turned' = turned \o rows
    ELSE turning' = NoTurning /\ turned' = <<>>

\* The ranking of items is one statement; the rows of a search get columns added.
RankItems ==
    /\ pc = "rank" /\ listing \in {"items", "top_items"}
    /\ \E s \in Listings(Rows(listing), order) :
        ranked' = PageOf(s, page) /\ TurnPage(PageOf(s, page))
    /\ Reply("ok")
    /\ UNCHANGED <<tables, listing, order, page, found, whole, shown, replaced>>

\* The page of top_crafts: snapshots, whose recipes are looked up by the next statement.
RankSnapshots ==
    /\ pc = "rank" /\ listing = "top_crafts"
    /\ \E s \in Listings(Rows(listing), order) :
        ranked' = PageOf(s, page) /\ TurnPage(PageOf(s, page))
    /\ pc' = IF ranked' = <<>> THEN "crafts" ELSE "recipes"
    /\ UNCHANGED <<tables, listing, order, page, found, whole, shown, answer, replaced>>

Ranked == {ranked[i].of : i \in DOMAIN ranked}

\* _recipes_by_id
LoadRecipes ==
    /\ pc = "recipes"
    /\ found' = Ranked \cap recipes
    /\ pc' = "components"
    /\ UNCHANGED <<tables, listing, order, page, ranked, whole, shown, answer, histories>>

\* The page of search_crafts.
FindRecipes ==
    /\ pc = "rank" /\ listing = "crafts"
    /\ \E s \in Listings(Rows(listing), order) :
        /\ ranked' = PageOf(s, page) /\ TurnPage(PageOf(s, page))
        /\ found' = {ranked'[i].of : i \in DOMAIN ranked'}
    /\ pc' = "components"
    /\ UNCHANGED <<tables, listing, order, page, whole, shown, answer, replaced>>

\* Mutation: components are not loaded with their recipes.
NotLoaded == {}

\* The recipes whose components are still there for a second statement.
Loaded == found \cap recipes

\* selectinload, by search_crafts and by _recipes_by_id.
LoadComponents ==
    /\ pc = "components"
    /\ whole' = Loaded
    /\ pc' = "crafts"
    /\ UNCHANGED <<tables, listing, order, page, ranked, found, shown, answer, histories>>

Current == ranked[Len(shown) + 1]

\* Mutation: the snapshot is read again.
ProfitReread(row) == profits[row.of]

\* db.get of the snapshot: top_crafts still holds the one it ranked.
ProfitOf(row) == IF listing = "top_crafts" THEN row.key ELSE profits[row.of]

\* craft_market for the next recipe of the page.
ShowCraft ==
    /\ pc = "crafts" /\ Len(shown) < Len(ranked) /\ Current.of \in found
    /\ shown' = Append(shown, [of |-> Current.of, profit |-> ProfitOf(Current),
                               whole |-> Current.of \in whole])
    /\ UNCHANGED <<tables, pc, listing, order, page, ranked, found, whole, answer, histories>>

\* A snapshot whose recipe was not found: a KeyError.
RecipeMissing ==
    /\ pc = "crafts" /\ Len(shown) < Len(ranked) /\ Current.of \notin found
    /\ Reply("server_error")
    /\ UNCHANGED <<tables, listing, order, page, ranked, found, whole, shown, histories>>

PageComplete ==
    /\ pc = "crafts" /\ Len(shown) = Len(ranked)
    /\ Reply("ok")
    /\ UNCHANGED <<tables, listing, order, page, ranked, found, whole, shown, histories>>

--------------------------------------------------------------------------------
(* The synchronisations commit *)

NothingTurned == turning' = NoTurning /\ turned' = <<>>

\* A region of the auction synchronisation: prices, candles and snapshots together.
CommitAuction ==
    /\ \E new \in [Item -> Score \cup {NoScore}] : scores' = new
    /\ \E new \in [recipes -> Score \cup {NoScore}] :
        profits' = [r \in RecipeId |-> IF r \in recipes THEN new[r] ELSE NoScore]
    /\ NothingTurned
    /\ UNCHANGED <<items, recipes, lastId, request, replaced>>

\* Items of the GitHub synchronisation: prices and candles stay, items come and go.
CommitItems ==
    /\ items' \in SUBSET Item /\ items' # items
    /\ NothingTurned
    /\ UNCHANGED <<scores, recipes, lastId, profits, request, replaced>>

\* Mutation: identifiers are used again.
FromTheFirst(n) == 1..n

\* Identifiers are generated by the database and never used again.
NewRecipes(n) == (lastId + 1)..(lastId + n)

\* Recipes of the GitHub synchronisation: all are deleted, and their snapshots with them.
CommitRecipes ==
    /\ \E n \in 0..(LastRecipe - lastId) :
        recipes' = NewRecipes(n) /\ lastId' = lastId + n
    /\ profits' = [r \in RecipeId |-> NoScore]
    /\ replaced' = TRUE
    /\ NothingTurned
    /\ UNCHANGED <<items, scores, request>>

--------------------------------------------------------------------------------

\* Bound: nobody asks for a page after the first empty one.
Pages == 1..((IF Cardinality(Item) > LastRecipe THEN Cardinality(Item) ELSE LastRecipe)
              \div PageSize + 1)

Next ==
    \/ \E l \in Listed, o \in {"asc", "desc"}, n \in Pages : Ask(l, o, n)
    \/ RankItems \/ RankSnapshots \/ LoadRecipes \/ FindRecipes \/ LoadComponents
    \/ ShowCraft \/ RecipeMissing \/ PageComplete
    \/ CommitAuction \/ CommitItems \/ CommitRecipes

Spec == Init /\ [][Next]_vars

--------------------------------------------------------------------------------
(* Properties *)

Craft == [of : RecipeId, profit : Score \cup {NoScore}, whole : BOOLEAN]

\* Every variable has its type.
TypeOK ==
    /\ items \subseteq Item /\ scores \in [Item -> Score \cup {NoScore}]
    /\ recipes \subseteq RecipeId /\ lastId \in 0..LastRecipe
    /\ profits \in [RecipeId -> Score \cup {NoScore}]
    /\ pc \in {"idle", "rank", "recipes", "components", "crafts"}
    /\ listing \in Listed /\ order \in {"asc", "desc"} /\ page \in Nat \ {0}
    /\ ranked \in Seq([of : Item \cup RecipeId, key : Int])
    /\ found \subseteq RecipeId /\ whole \subseteq RecipeId
    /\ shown \in Seq(Craft) /\ answer \in {"none", "ok", "server_error"}
    /\ replaced \in BOOLEAN
    /\ turning \in Turn \cup {NoTurning}
    /\ turned \in Seq([of : Item \cup RecipeId, key : Int])

\* The crafts of a ranking are complete and in the order asked for by the profit they show,
\* although snapshots are stored anew while they are read one by one (market.py:207-222).
RankedAsShown ==
    listing = "top_crafts" =>
        /\ \A i \in DOMAIN shown : shown[i].profit # NoScore
        /\ \A i, j \in DOMAIN shown : i < j =>
            IF order = "asc" THEN shown[i].profit <= shown[j].profit
            ELSE shown[j].profit <= shown[i].profit

\* A search that meets a replacement of the recipes may show recipes without components
\* (market.py:183-195), but none of them with a profit.
NoProfitWithoutComponents ==
    listing = "crafts" =>
        \A i \in DOMAIN shown : shown[i].profit # NoScore => shown[i].whole

\* Nothing but a replacement of the recipes during the request makes a listing fail or show
\* a craft without its components (market.py:216-221).
WholeUnlessReplaced ==
    ~replaced => answer # "server_error" /\ \A i \in DOMAIN shown : shown[i].whole

Distinct(rows) == \A x, y \in rows : x.key = y.key => x = y

\* While nothing changes and no two rows are equal in what is sorted by, turning the pages
\* one by one lists everything, and nothing twice (PAGE_SIZE, offset and limit).
PagesPartition ==
    (turning # NoTurning /\ Distinct(Rows(turning.listing))) =>
        /\ \A i, j \in DOMAIN turned : turned[i] = turned[j] => i = j
        /\ Len(turned) < turning.page * PageSize =>
             \A x \in Rows(turning.listing) : \E i \in DOMAIN turned : turned[i] = x
================================================================================
