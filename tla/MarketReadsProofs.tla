--------------------------- MODULE MarketReadsProofs ---------------------------
(***************************************************************************)
(* Proofs about MarketReads, for any catalogue, page size and number of    *)
(* replacements: what a request shows although the tables change between   *)
(* its statements.                                                         *)
(***************************************************************************)
EXTENDS MarketReads, FiniteSetTheorems, SequenceTheorems, TLAPS

AnyRow == [of : Item \cup RecipeId, key : Int]

--------------------------------------------------------------------------------
(* Listings *)

\* Rows made one from each element of a finite set are finitely many.
LEMMA RowsOfFinite ==
    ASSUME NEW S, IsFiniteSet(S), NEW k, NEW rows,
           \A x \in S : Row(x, k[x]) \in rows, \A r \in rows : \E x \in S : r = Row(x, k[x])
    PROVE  IsFiniteSet(rows)
<1> DEFINE f == [x \in S |-> Row(x, k[x])]
<1>1. f \in Surjection(S, rows)
  BY DEF Surjection
<1> QED
  BY <1>1, FS_Surjection

LEMMA RowsTyped ==
    ASSUME TypeOK, NEW l \in Listed
    PROVE  IsFiniteSet(Rows(l)) /\ Rows(l) \subseteq AnyRow
<1> USE DEF TypeOK, AnyRow
<1>1. IsFiniteSet(RecipeId) /\ RecipeId \subseteq Int
  BY FS_Interval, SizeAssumption DEF RecipeId
<1>2. CASE l = "items"
  <2>1. IsFiniteSet(items)
    BY FS_Subset, ItemAssumption
  <2>2. Rows(l) = {Row(x, NameOf[x]) : x \in items}
    BY <1>2 DEF Rows, ItemRows
  <2>3. Rows(l) \subseteq AnyRow
    BY <2>2, ItemAssumption DEF Row
  <2>6. \A x \in items : Row(x, NameOf[x]) \in Rows(l)
    BY <2>2
  <2>7. \A r \in Rows(l) : \E x \in items : r = Row(x, NameOf[x])
    BY <2>2
  <2>8. IsFiniteSet(Rows(l))
    BY <2>1, <2>6, <2>7, RowsOfFinite
  <2> QED
    BY <2>3, <2>8
<1>3. CASE l = "top_items"
  <2> DEFINE S == {i \in items : scores[i] # NoScore}
  <2>1. IsFiniteSet(S)
    BY FS_Subset, ItemAssumption
  <2>2. Rows(l) = {Row(x, scores[x]) : x \in S}
    BY <1>3 DEF Rows, BuyRows
  <2>3. \A x \in S : x \in Item /\ scores[x] \in Int
    BY ScoreAssumption
  <2> HIDE DEF S
  <2>4. Rows(l) \subseteq AnyRow
    BY <2>2, <2>3 DEF Row
  <2>6. \A x \in S : Row(x, scores[x]) \in Rows(l)
    BY <2>2
  <2>7. \A r \in Rows(l) : \E x \in S : r = Row(x, scores[x])
    BY <2>2
  <2>8. IsFiniteSet(Rows(l))
    BY <2>1, <2>6, <2>7, RowsOfFinite
  <2> QED
    BY <2>4, <2>8
<1>4. CASE l = "crafts"
  <2> DEFINE k == [x \in recipes |-> x]
  <2>1. IsFiniteSet(recipes)
    BY <1>1, FS_Subset
  <2>2. Rows(l) = {Row(x, k[x]) : x \in recipes}
    BY <1>4 DEF Rows, CraftRows, Row
  <2>3. \A x \in recipes : x \in RecipeId /\ k[x] \in Int
    BY <1>1
  <2> HIDE DEF k
  <2>4. Rows(l) \subseteq AnyRow
    BY <2>2, <2>3 DEF Row
  <2>6. \A x \in recipes : Row(x, k[x]) \in Rows(l)
    BY <2>2
  <2>7. \A r \in Rows(l) : \E x \in recipes : r = Row(x, k[x])
    BY <2>2
  <2>8. IsFiniteSet(Rows(l))
    BY <2>1, <2>6, <2>7, RowsOfFinite
  <2> QED
    BY <2>4, <2>8
<1>5. CASE l = "top_crafts"
  <2> DEFINE S == {r \in RecipeId : profits[r] # NoScore}
  <2>1. IsFiniteSet(S)
    BY <1>1, FS_Subset
  <2>2. Rows(l) = {Row(x, profits[x]) : x \in S}
    BY <1>5 DEF Rows, ProfitRows
  <2>3. \A x \in S : x \in RecipeId /\ profits[x] \in Int
    BY ScoreAssumption
  <2> HIDE DEF S
  <2>4. Rows(l) \subseteq AnyRow
    BY <2>2, <2>3 DEF Row
  <2>6. \A x \in S : Row(x, profits[x]) \in Rows(l)
    BY <2>2
  <2>7. \A r \in Rows(l) : \E x \in S : r = Row(x, profits[x])
    BY <2>2
  <2>8. IsFiniteSet(Rows(l))
    BY <2>1, <2>6, <2>7, RowsOfFinite
  <2> QED
    BY <2>4, <2>8
<1> QED
  BY <1>2, <1>3, <1>4, <1>5 DEF Listed

\* A page is a sequence of rows of the listing, in the order asked for.
LEMMA PageSorted ==
    ASSUME NEW rows, IsFiniteSet(rows), NEW o, NEW s \in Listings(rows, o), NEW n \in Nat \ {0}
    PROVE  /\ PageOf(s, n) \in Seq(rows)
           /\ \A i, j \in DOMAIN PageOf(s, n) : i < j => InOrder(o, PageOf(s, n)[i], PageOf(s, n)[j])
<1> DEFINE m == Offset(n) + 1
           last == IF Len(s) < Offset(n) + PageSize THEN Len(s) ELSE Offset(n) + PageSize
<1>1. s \in Seq(rows) /\ Len(s) = Cardinality(rows) /\ Len(s) \in Nat
  BY FS_CardinalityType DEF Listings
<1>2. Offset(n) \in Nat
  BY SizeAssumption DEF Offset
<1>3. m \in Int /\ m >= 1 /\ last \in Int /\ last <= Len(s)
  BY <1>1, <1>2, SizeAssumption
<1>4. PageOf(s, n) = SubSeq(s, m, last)
  BY DEF PageOf
<1> HIDE DEF m, last
<1>5. \A i \in m..last : i \in DOMAIN s /\ s[i] \in rows
  BY <1>1, <1>3
<1>6. /\ SubSeq(s, m, last) \in Seq(rows)
      /\ Len(SubSeq(s, m, last)) = IF m <= last THEN last - m + 1 ELSE 0
      /\ \A i \in 1..(last - m + 1) : SubSeq(s, m, last)[i] = s[m + i - 1]
  BY <1>3, <1>5, SubSeqProperties
<1>7. ASSUME NEW i \in DOMAIN PageOf(s, n), NEW j \in DOMAIN PageOf(s, n), i < j
      PROVE  InOrder(o, PageOf(s, n)[i], PageOf(s, n)[j])
  <2>1. i \in 1..(last - m + 1) /\ j \in 1..(last - m + 1)
    BY <1>3, <1>4, <1>6, <1>7
  <2>2. m + i - 1 \in m..last /\ m + j - 1 \in m..last /\ m + i - 1 < m + j - 1
    BY <1>3, <1>7, <2>1
  <2>3. InOrder(o, s[m + i - 1], s[m + j - 1])
    BY <1>5, <2>2 DEF Listings
  <2> QED
    BY <1>4, <1>6, <2>1, <2>3
<1> QED
  BY <1>4, <1>6, <1>7

--------------------------------------------------------------------------------
(* The inductive invariant *)

\* What has been shown agrees with what was ranked; a ranking of crafts is sorted and complete.
ShownInv ==
    /\ pc = "rank" => shown = <<>> /\ found = {} /\ whole = {} /\ answer = "none"
    /\ Len(shown) <= Len(ranked)
    /\ listing = "top_crafts" =>
        /\ \A i \in DOMAIN shown : shown[i].profit = ranked[i].key
        /\ \A i \in DOMAIN ranked : ranked[i].key \in Score
        /\ \A i, j \in DOMAIN ranked : i < j => InOrder(order, ranked[i], ranked[j])

\* Only live recipes have snapshots, and a recipe that was found dead stays dead.
LiveInv ==
    /\ \A r \in RecipeId : profits[r] # NoScore => r \in recipes
    /\ recipes \subseteq 1..lastId
    /\ pc \in {"components", "crafts"} => found \subseteq 1..lastId
    /\ pc = "crafts" => \A r \in found \ whole : r \notin recipes
    /\ NoProfitWithoutComponents

\* How far a request has come that met no replacement of the recipes.
WholeInv ==
    /\ ~replaced =>
        /\ pc = "recipes" => Ranked \subseteq recipes
        /\ pc = "components" => Ranked \subseteq found /\ found \subseteq recipes
        /\ pc = "crafts" => Ranked \subseteq found /\ found \subseteq whole
    /\ WholeUnlessReplaced

Inv == TypeOK /\ ShownInv /\ LiveInv /\ WholeInv

LEMMA Initially == Init => Inv
<1> SUFFICES ASSUME Init PROVE Inv
  OBVIOUS
<1>1. TypeOK
  <2>1. recipes \subseteq RecipeId /\ lastId \in 0..LastRecipe
    BY SizeAssumption DEF Init
  <2>2. /\ ranked \in Seq(AnyRow) /\ turned \in Seq(AnyRow) /\ shown \in Seq(Craft)
        /\ listing \in Listed /\ page \in Nat \ {0}
    BY DEF Init, Listed
  <2> QED
    BY <2>1, <2>2 DEF Init, TypeOK, AnyRow
<1>2. ShownInv /\ LiveInv /\ WholeInv
  BY DEF Init, ShownInv, LiveInv, WholeInv, NoProfitWithoutComponents, WholeUnlessReplaced
<1> QED
  BY <1>1, <1>2 DEF Inv

\* The page that the first statement of a request returns.
LEMMA PageRead ==
    ASSUME TypeOK, NEW s \in Listings(Rows(listing), order)
    PROVE  /\ PageOf(s, page) \in Seq(AnyRow)
           /\ \A i \in DOMAIN PageOf(s, page) : PageOf(s, page)[i] \in Rows(listing)
           /\ \A i, j \in DOMAIN PageOf(s, page) :
                i < j => InOrder(order, PageOf(s, page)[i], PageOf(s, page)[j])
<1>1. listing \in Listed /\ page \in Nat \ {0}
  BY DEF TypeOK
<1>2. IsFiniteSet(Rows(listing)) /\ Rows(listing) \subseteq AnyRow
  BY <1>1, RowsTyped
<1>3. /\ PageOf(s, page) \in Seq(Rows(listing))
      /\ \A i, j \in DOMAIN PageOf(s, page) :
           i < j => InOrder(order, PageOf(s, page)[i], PageOf(s, page)[j])
  BY <1>1, <1>2, PageSorted
<1> QED
  BY <1>2, <1>3

LEMMA Turning ==
    ASSUME TypeOK, NEW rows \in Seq(AnyRow), TurnPage(rows)
    PROVE  /\ turning' \in Turn \cup {NoTurning}
           /\ turned' \in Seq(AnyRow)
<1> DEFINE turn == [listing |-> listing, order |-> order, page |-> page]
<1>1. turn \in Turn /\ turned \in Seq(AnyRow)
  BY DEF TypeOK, AnyRow, Turn
<1>2. turning' \in {turn, NoTurning} /\ turned' \in {rows, turned \o rows, <<>>}
  BY DEF TurnPage
<1>3. turned \o rows \in Seq(AnyRow) /\ <<>> \in Seq(AnyRow)
  BY <1>1
<1> HIDE DEF turn
<1> QED
  BY <1>1, <1>2, <1>3

LEMMA InvStep == ASSUME Inv, [Next]_vars PROVE Inv'
<1> USE DEF Inv, tables, request, histories
<1>1. ASSUME NEW l \in Listed, NEW o \in {"asc", "desc"}, NEW n \in Pages, Ask(l, o, n)
      PROVE  Inv'
  <2>1. n \in Nat \ {0}
    BY DEF Pages
  <2>2. TypeOK'
    <3>1. ranked' \in Seq(AnyRow) /\ shown' \in Seq(Craft)
      BY <1>1 DEF Ask
    <3> QED
      BY <1>1, <2>1, <3>1 DEF Ask, TypeOK, AnyRow
  <2>3. ShownInv' /\ LiveInv' /\ WholeInv'
    BY <1>1 DEF Ask, ShownInv, LiveInv, WholeInv, NoProfitWithoutComponents, WholeUnlessReplaced
  <2> QED
    BY <2>2, <2>3
<1>2. ASSUME RankItems PROVE Inv'
  <2>1. PICK s \in Listings(Rows(listing), order) :
          ranked' = PageOf(s, page) /\ TurnPage(PageOf(s, page))
    BY <1>2 DEF RankItems
  <2>2. ranked' \in Seq(AnyRow)
    BY <2>1, PageRead
  <2>3. TypeOK'
    BY <1>2, <2>1, <2>2, Turning DEF RankItems, Reply, TypeOK, AnyRow
  <2>4. ShownInv' /\ LiveInv' /\ WholeInv'
    BY <1>2, <2>2 DEF RankItems, Reply, TypeOK, ShownInv, LiveInv, WholeInv,
       NoProfitWithoutComponents, WholeUnlessReplaced
  <2> QED
    BY <2>3, <2>4
<1>3. ASSUME RankSnapshots PROVE Inv'
  <2>1. PICK s \in Listings(Rows(listing), order) :
          ranked' = PageOf(s, page) /\ TurnPage(PageOf(s, page))
    BY <1>3 DEF RankSnapshots
  <2>2. ranked' \in Seq(AnyRow)
    BY <2>1, PageRead
  <2>3. \A i \in DOMAIN ranked' : ranked'[i] \in Rows("top_crafts")
    BY <1>3, <2>1, PageRead DEF RankSnapshots
  <2>4. \A i \in DOMAIN ranked' : ranked'[i].key \in Score /\ ranked'[i].of \in recipes
    BY <2>3 DEF Rows, ProfitRows, Row, TypeOK, LiveInv
  <2>5. TypeOK'
    BY <1>3, <2>1, <2>2, Turning DEF RankSnapshots, TypeOK, AnyRow
  <2>6. ShownInv'
    BY <1>3, <2>1, <2>2, <2>4, PageRead DEF RankSnapshots, ShownInv
  <2>7. LiveInv' /\ WholeInv'
    BY <1>3, <2>2, <2>4 DEF RankSnapshots, ShownInv, LiveInv, WholeInv, Ranked,
       NoProfitWithoutComponents, WholeUnlessReplaced
  <2> QED
    BY <2>5, <2>6, <2>7
<1>4. ASSUME LoadRecipes PROVE Inv'
  BY <1>4 DEF LoadRecipes, TypeOK, ShownInv, LiveInv, WholeInv, Ranked,
     NoProfitWithoutComponents, WholeUnlessReplaced
<1>5. ASSUME FindRecipes PROVE Inv'
  <2>1. PICK s \in Listings(Rows(listing), order) :
          ranked' = PageOf(s, page) /\ TurnPage(PageOf(s, page))
    BY <1>5 DEF FindRecipes
  <2>2. ranked' \in Seq(AnyRow)
    BY <2>1, PageRead
  <2>3. \A i \in DOMAIN ranked' : ranked'[i] \in Rows("crafts")
    BY <1>5, <2>1, PageRead DEF FindRecipes
  <2>4. found' = {ranked'[i].of : i \in DOMAIN ranked'} /\ found' \subseteq recipes
    BY <1>5, <2>3 DEF FindRecipes, Rows, CraftRows, Row
  <2>5. TypeOK'
    BY <1>5, <2>1, <2>2, <2>4, Turning DEF FindRecipes, TypeOK, AnyRow
  <2>6. ShownInv'
    BY <1>5, <2>2 DEF FindRecipes, ShownInv
  <2>7. LiveInv' /\ WholeInv'
    BY <1>5, <2>4 DEF FindRecipes, TypeOK, ShownInv, LiveInv, WholeInv, Ranked,
       NoProfitWithoutComponents, WholeUnlessReplaced
  <2> QED
    BY <2>5, <2>6, <2>7
<1>6. ASSUME LoadComponents PROVE Inv'
  BY <1>6 DEF LoadComponents, Loaded, TypeOK, ShownInv, LiveInv, WholeInv, Ranked,
     NoProfitWithoutComponents, WholeUnlessReplaced
<1>7. ASSUME ShowCraft PROVE Inv'
  <2> DEFINE craft == [of |-> Current.of, profit |-> ProfitOf(Current),
                       whole |-> Current.of \in whole]
  <2>1. /\ Len(shown) + 1 \in DOMAIN ranked /\ Current = ranked[Len(shown) + 1]
        /\ Current.of \in RecipeId /\ Current.of \in Ranked
    BY <1>7 DEF ShowCraft, Current, Ranked, TypeOK
  <2>2. ProfitOf(Current) \in Score \cup {NoScore}
    BY <2>1 DEF ProfitOf, TypeOK, ShownInv
  <2>3. craft \in Craft /\ shown \in Seq(Craft) /\ shown' = Append(shown, craft)
    BY <1>7, <2>1, <2>2 DEF ShowCraft, Craft, TypeOK
  <2>4. /\ craft.profit = ProfitOf(Current) /\ craft.of = Current.of
        /\ craft.whole = (Current.of \in whole)
    OBVIOUS
  <2> HIDE DEF craft
  <2>5. /\ shown' \in Seq(Craft) /\ Len(shown') = Len(shown) + 1
        /\ \A i \in DOMAIN shown' : shown'[i] = IF i = Len(shown) + 1 THEN craft ELSE shown[i]
        /\ \A i \in DOMAIN shown' : i # Len(shown) + 1 => i \in DOMAIN shown
    BY <2>3
  <2>6. TypeOK'
    BY <1>7, <2>5 DEF ShowCraft, TypeOK
  <2>7. ShownInv'
    BY <1>7, <2>1, <2>4, <2>5 DEF ShowCraft, ShownInv, ProfitOf, TypeOK
  <2>8. LiveInv'
    <3>1. listing = "crafts" /\ craft.profit # NoScore => craft.whole
      BY <1>7, <2>1, <2>4 DEF ShowCraft, LiveInv, ProfitOf
    <3>2. NoProfitWithoutComponents'
      BY <1>7, <2>5, <3>1 DEF ShowCraft, LiveInv, NoProfitWithoutComponents
    <3> QED
      BY <1>7, <3>2 DEF ShowCraft, LiveInv
  <2>9. WholeInv'
    <3>1. ~replaced => craft.whole
      BY <1>7, <2>1, <2>4 DEF ShowCraft, WholeInv
    <3>2. WholeUnlessReplaced'
      BY <1>7, <2>5, <3>1 DEF ShowCraft, WholeInv, WholeUnlessReplaced
    <3> QED
      BY <1>7, <3>2 DEF ShowCraft, WholeInv, Ranked
  <2> QED
    BY <2>6, <2>7, <2>8, <2>9
<1>8. ASSUME RecipeMissing PROVE Inv'
  <2>1. Current.of \in Ranked
    BY <1>8 DEF RecipeMissing, Current, Ranked, TypeOK
  <2> QED
    BY <1>8, <2>1 DEF RecipeMissing, Reply, TypeOK, ShownInv, LiveInv, WholeInv, Ranked,
       NoProfitWithoutComponents, WholeUnlessReplaced
<1>9. ASSUME PageComplete PROVE Inv'
  BY <1>9 DEF PageComplete, Reply, TypeOK, ShownInv, LiveInv, WholeInv,
     NoProfitWithoutComponents, WholeUnlessReplaced
<1>10. ASSUME CommitAuction PROVE Inv'
  <2>1. TypeOK'
    BY <1>10 DEF CommitAuction, NothingTurned, TypeOK
  <2>2. ShownInv' /\ LiveInv' /\ WholeInv'
    BY <1>10 DEF CommitAuction, ShownInv, LiveInv, WholeInv, Ranked, NoProfitWithoutComponents,
       WholeUnlessReplaced
  <2> QED
    BY <2>1, <2>2
<1>11. ASSUME CommitItems PROVE Inv'
  BY <1>11 DEF CommitItems, NothingTurned, TypeOK, ShownInv, LiveInv, WholeInv, Ranked,
     NoProfitWithoutComponents, WholeUnlessReplaced
<1>12. ASSUME CommitRecipes PROVE Inv'
  <2>1. PICK n \in 0..(LastRecipe - lastId) : recipes' = NewRecipes(n) /\ lastId' = lastId + n
    BY <1>12 DEF CommitRecipes
  <2>2. TypeOK'
    BY <1>12, <2>1, SizeAssumption DEF CommitRecipes, NothingTurned, NewRecipes, TypeOK, RecipeId
  <2>3. ShownInv' /\ WholeInv'
    BY <1>12 DEF CommitRecipes, ShownInv, WholeInv, WholeUnlessReplaced
  <2>4. LiveInv'
    BY <1>12, <2>1, SizeAssumption DEF CommitRecipes, NewRecipes, TypeOK, RecipeId, LiveInv,
       NoProfitWithoutComponents
  <2> QED
    BY <2>2, <2>3, <2>4
<1>13. CASE UNCHANGED vars
  BY <1>13 DEF vars, TypeOK, ShownInv, LiveInv, WholeInv, Ranked, NoProfitWithoutComponents,
     WholeUnlessReplaced
<1> QED
  BY <1>1, <1>2, <1>3, <1>4, <1>5, <1>6, <1>7, <1>8, <1>9, <1>10, <1>11, <1>12, <1>13 DEF Next

LEMMA Invariance == Spec => []Inv
BY Initially, InvStep, PTL DEF Spec

--------------------------------------------------------------------------------

\* The variables keep their types, pages of every listing included.
THEOREM Typing == Spec => []TypeOK
<1>1. Inv => TypeOK
  BY DEF Inv
<1> QED
  BY Invariance, <1>1, PTL

\* A ranking of crafts shows the profits it was sorted by (market.py:199-222).
THEOREM RankingsStaySorted == Spec => []RankedAsShown
<1>1. Inv => RankedAsShown
  <2> SUFFICES ASSUME Inv, listing = "top_crafts"
               PROVE  /\ \A i \in DOMAIN shown : shown[i].profit # NoScore
                      /\ \A i, j \in DOMAIN shown : i < j =>
                           IF order = "asc" THEN shown[i].profit <= shown[j].profit
                           ELSE shown[j].profit <= shown[i].profit
    BY DEF RankedAsShown
  <2>1. \A i \in DOMAIN shown : i \in DOMAIN ranked /\ shown[i].profit = ranked[i].key
    BY DEF Inv, ShownInv, TypeOK
  <2>2. \A i \in DOMAIN ranked : ranked[i].key # NoScore
    BY ScoreAssumption DEF Inv, ShownInv
  <2> QED
    BY <2>1, <2>2 DEF Inv, ShownInv, InOrder
<1> QED
  BY Invariance, <1>1, PTL

\* What a search or a ranking shows of crafts although recipes are replaced under it
\* (market.py:182-222): no profit without components, nothing torn without a replacement.
THEOREM TornOnlyByReplacement == Spec => [](NoProfitWithoutComponents /\ WholeUnlessReplaced)
<1>1. Inv => NoProfitWithoutComponents /\ WholeUnlessReplaced
  BY DEF Inv, LiveInv, WholeInv
<1> QED
  BY Invariance, <1>1, PTL

\* What a search shows of a craft has its components, or no profit (market.py:183-195): a
\* recipe that was deleted before its components were read has lost its snapshot too.
THEOREM ProfitsHaveComponents == Spec => []NoProfitWithoutComponents
BY TornOnlyByReplacement, PTL

--------------------------------------------------------------------------------
(* Pages *)

\* A listing of finitely many rows has each of them once.
LEMMA ListedOnce ==
    ASSUME NEW rows, IsFiniteSet(rows), NEW o, NEW s \in Listings(rows, o)
    PROVE  /\ Len(s) = Cardinality(rows) /\ Len(s) \in Nat /\ s \in [1..Len(s) -> rows]
           /\ \A x \in rows : \E i \in 1..Len(s) : s[i] = x
           /\ \A i, j \in 1..Len(s) : s[i] = s[j] => i = j
<1> DEFINE n == Cardinality(rows)
<1>1. n \in Nat /\ s \in [1..n -> rows] /\ \A x \in rows : \E i \in 1..n : s[i] = x
  BY FS_CardinalityType DEF Listings
<1>2. IsFiniteSet(1..n) /\ Cardinality(1..n) = n
  BY <1>1, FS_Interval
<1>3. s \in Surjection(1..n, rows)
  BY <1>1 DEF Surjection
<1>4. s \in Injection(1..n, rows)
  BY <1>2, <1>3, FS_SurjSameCardinalityImpliesInj
<1>5. \A i, j \in 1..n : s[i] = s[j] => i = j
  BY <1>4 DEF Injection, IsInjective
<1> QED
  BY <1>1, <1>5

\* The first rows of a listing, as a set.
First(s, m) == {s[i] : i \in 1..m}

LEMMA FirstCounted ==
    ASSUME NEW rows, IsFiniteSet(rows), NEW o, NEW s \in Listings(rows, o), NEW m \in 0..Len(s)
    PROVE  IsFiniteSet(First(s, m)) /\ Cardinality(First(s, m)) = m
<1> DEFINE f == [i \in 1..m |-> s[i]]
<1>1. m \in Nat /\ 1..m \subseteq 1..Len(s)
  BY ListedOnce
<1>2. \A i, j \in 1..m : s[i] = s[j] => i = j
  BY <1>1, ListedOnce
<1>3. f \in Surjection(1..m, First(s, m)) /\ f \in Injection(1..m, First(s, m))
  BY <1>2 DEF First, Surjection, Injection, IsInjective
<1>4. ExistsBijection(1..m, First(s, m))
  BY <1>3 DEF ExistsBijection, Bijection
<1>5. IsFiniteSet(1..m)
  BY <1>1, FS_Interval
<1> QED
  BY <1>1, <1>4, <1>5, FS_CountingElements, FS_Bijection

\* Two listings of distinct rows begin with the same rows, since each beginning has the
\* least of them; so they are one listing.
LEMMA SameFirst ==
    ASSUME NEW rows, IsFiniteSet(rows), rows \subseteq AnyRow, Distinct(rows),
           NEW o, NEW s \in Listings(rows, o), NEW t \in Listings(rows, o), NEW m \in 0..Len(s)
    PROVE  First(s, m) = First(t, m)
<1>1. /\ Len(t) = Len(s) /\ Len(s) \in Nat
      /\ s \in [1..Len(s) -> rows] /\ t \in [1..Len(s) -> rows]
      /\ \A x \in rows : (\E l \in 1..Len(s) : s[l] = x) /\ (\E l \in 1..Len(s) : t[l] = x)
  BY ListedOnce
<1>2. ASSUME NEW i \in 1..m, s[i] \notin First(t, m), NEW j \in 1..m, t[j] \notin First(s, m)
      PROVE  FALSE
  <2>0. i \in 1..Len(s) /\ j \in 1..Len(s) /\ s[i] \in rows /\ t[j] \in rows
    <3>1. m \in Nat /\ m <= Len(s)
      BY <1>1
    <3>2. i \in 1..Len(s) /\ j \in 1..Len(s)
      BY <1>1, <3>1
    <3> QED
      BY <1>1, <3>2
  <2>1. PICK k \in 1..Len(s) : t[k] = s[i]
    BY <1>1, <2>0
  <2>2. PICK l \in 1..Len(s) : s[l] = t[j]
    BY <1>1, <2>0
  <2>3. j < k /\ i < l
    <3>1. k \notin 1..m /\ l \notin 1..m
      BY <1>2, <2>1, <2>2 DEF First
    <3> QED
      BY <1>1, <3>1
  <2>4. InOrder(o, t[j], t[k]) /\ InOrder(o, s[i], s[l])
    BY <1>1, <2>0, <2>3 DEF Listings
  <2>5. s[i].key \in Int /\ t[j].key \in Int
    BY <2>0 DEF AnyRow
  <2>6. s[i].key = t[j].key
    BY <2>1, <2>2, <2>4, <2>5 DEF InOrder
  <2> QED
    <3>1. s[i] = t[j]
      BY <2>0, <2>6 DEF Distinct
    <3> QED
      BY <1>2, <3>1 DEF First
<1>3. First(s, m) \subseteq First(t, m) \/ First(t, m) \subseteq First(s, m)
  BY <1>2 DEF First
<1>4. /\ IsFiniteSet(First(s, m)) /\ Cardinality(First(s, m)) = m
      /\ IsFiniteSet(First(t, m)) /\ Cardinality(First(t, m)) = m
  BY <1>1, FirstCounted
<1> QED
  BY <1>3, <1>4, FS_Subset

LEMMA OneListing ==
    ASSUME NEW rows, IsFiniteSet(rows), rows \subseteq AnyRow, Distinct(rows),
           NEW o, NEW s \in Listings(rows, o), NEW t \in Listings(rows, o)
    PROVE  s = t
<1>1. /\ Len(t) = Len(s) /\ Len(s) \in Nat
      /\ s \in [1..Len(s) -> rows] /\ t \in [1..Len(s) -> rows]
  BY ListedOnce
<1>2. ASSUME NEW i \in 1..Len(s) PROVE s[i] = t[i]
  <2>1. i \in 0..Len(s) /\ i - 1 \in 0..Len(s) /\ i \in 1..i
    BY <1>1
  <2>2. First(s, i) = First(t, i) /\ First(s, i - 1) = First(t, i - 1)
    BY <2>1, SameFirst
  <2>3. s[i] \in First(t, i)
    BY <2>1, <2>2 DEF First
  <2>4. PICK k \in 1..i : s[i] = t[k]
    BY <2>3 DEF First
  <2>5. ASSUME k # i PROVE FALSE
    <3>1. s[i] \in First(s, i - 1)
      BY <2>2, <2>4, <2>5 DEF First
    <3>2. PICK j \in 1..i - 1 : s[i] = s[j]
      BY <3>1 DEF First
    <3> QED
      BY <1>1, <3>2, ListedOnce
  <2> QED
    BY <2>4, <2>5
<1> QED
  BY <1>1, <1>2

\* The pages up to the n-th, as one sequence.
Covered(s, n) == IF Len(s) < n * PageSize THEN Len(s) ELSE n * PageSize
UpTo(s, n) == SubSeq(s, 1, Covered(s, n))

LEMMA Covers ==
    ASSUME NEW rows, IsFiniteSet(rows), NEW o, NEW s \in Listings(rows, o), NEW n \in Nat
    PROVE  /\ Covered(s, n) \in 0..Len(s) /\ UpTo(s, n) \in Seq(rows)
           /\ Len(UpTo(s, n)) = Covered(s, n)
           /\ \A i \in 1..Covered(s, n) : UpTo(s, n)[i] = s[i]
<1>1. Len(s) \in Nat /\ s \in [1..Len(s) -> rows]
  BY ListedOnce
<1>2. n * PageSize \in Nat
  BY SizeAssumption
<1>3. Covered(s, n) \in 0..Len(s)
  BY <1>1, <1>2 DEF Covered
<1>4. \A i \in 1..Covered(s, n) : s[i] \in rows
  BY <1>1, <1>3
<1> QED
  BY <1>3, <1>4, SubSeqProperties DEF UpTo

\* The next page is what follows.
LEMMA PageFollows ==
    ASSUME NEW rows, IsFiniteSet(rows), NEW o, NEW s \in Listings(rows, o), NEW n \in Nat \ {0}
    PROVE  UpTo(s, n - 1) \o PageOf(s, n) = UpTo(s, n)
<1> DEFINE a == Covered(s, n - 1)
           b == Covered(s, n)
           first == Offset(n) + 1
<1>1. Len(s) \in Nat /\ s \in [1..Len(s) -> rows]
  BY ListedOnce
<1>2. /\ Offset(n) = (n - 1) * PageSize /\ Offset(n) \in Nat
      /\ Offset(n) + PageSize = n * PageSize /\ n - 1 \in Nat
  BY SizeAssumption DEF Offset
<1>3. PageOf(s, n) = SubSeq(s, first, b)
  BY <1>2 DEF PageOf, Covered
<1>4. /\ a \in 0..Len(s) /\ b \in 0..Len(s) /\ a <= b
      /\ first \in Int /\ first > 0
      /\ a = first - 1 \/ (a = b /\ b < first)
  BY <1>1, <1>2, SizeAssumption DEF Covered
<1>5. /\ UpTo(s, n - 1) \in Seq(rows) /\ Len(UpTo(s, n - 1)) = a
      /\ \A i \in 1..a : UpTo(s, n - 1)[i] = s[i]
  <2>1. n - 1 \in Nat
    BY <1>2
  <2> HIDE DEF a
  <2> QED
    BY <2>1, Covers DEF a
<1>6. /\ UpTo(s, n) \in Seq(rows) /\ Len(UpTo(s, n)) = b
      /\ \A i \in 1..b : UpTo(s, n)[i] = s[i]
  BY Covers
<1> HIDE DEF a, b, first
<1>7. \A i \in first..b : s[i] \in rows
  BY <1>1, <1>4
<1>8. /\ PageOf(s, n) \in Seq(rows)
      /\ Len(PageOf(s, n)) = IF first <= b THEN b - first + 1 ELSE 0
      /\ \A i \in 1..(b - first + 1) : PageOf(s, n)[i] = s[first + i - 1]
  <2>1. b \in Int /\ first \in Int
    BY <1>4
  <2> QED
    BY <1>3, <1>7, <2>1, SubSeqProperties
<1>9. Len(PageOf(s, n)) = b - a /\ a \in Nat /\ b \in Nat
  BY <1>1, <1>4, <1>8
<1>10. /\ UpTo(s, n - 1) \o PageOf(s, n) \in Seq(rows)
       /\ Len(UpTo(s, n - 1) \o PageOf(s, n)) = b
       /\ \A i \in 1..b : (UpTo(s, n - 1) \o PageOf(s, n))[i] =
            IF i <= a THEN UpTo(s, n - 1)[i] ELSE PageOf(s, n)[i - a]
  <2> DEFINE before == UpTo(s, n - 1)
             new == PageOf(s, n)
  <2>1. before \in Seq(rows) /\ new \in Seq(rows) /\ Len(before) = a /\ Len(new) = b - a
    BY <1>5, <1>8, <1>9
  <2> HIDE DEF before, new
  <2>2. /\ before \o new \in Seq(rows)
        /\ Len(before \o new) = Len(before) + Len(new)
        /\ \A i \in 1..Len(before) + Len(new) : (before \o new)[i] =
             IF i <= Len(before) THEN before[i] ELSE new[i - Len(before)]
    BY <2>1, ConcatProperties
  <2>3. Len(before) + Len(new) = b
    BY <1>9, <2>1
  <2> QED
    BY <2>1, <2>2, <2>3 DEF before, new
<1>11. ASSUME NEW i \in 1..b PROVE (UpTo(s, n - 1) \o PageOf(s, n))[i] = s[i]
  <2>1. CASE i <= a
    <3>1. i \in 1..a
      BY <1>9, <2>1
    <3> QED
      BY <1>5, <1>10, <2>1, <3>1
  <2>2. CASE i > a
    <3>1. a = first - 1
      BY <1>4, <1>9, <2>2
    <3>2. i - a \in 1..(b - first + 1) /\ first + (i - a) - 1 = i /\ ~(i <= a)
      BY <1>4, <1>9, <2>2, <3>1
    <3> QED
      BY <1>8, <1>10, <3>2
  <2>3. i <= a \/ i > a
    BY <1>9
  <2> QED
    BY <2>1, <2>2, <2>3
<1> QED
  BY <1>6, <1>10, <1>11, SeqEqual

\* What has been turned is the beginning of the listing.
TurnedInv ==
    turning # NoTurning /\ Distinct(Rows(turning.listing)) =>
        \E s \in Listings(Rows(turning.listing), turning.order) : turned = UpTo(s, turning.page)

LEMMA TurnKeeps ==
    ASSUME TypeOK, TurnedInv, NEW s \in Listings(Rows(listing), order),
           TurnPage(PageOf(s, page)), UNCHANGED tables
    PROVE  TurnedInv'
<1> DEFINE turn == [listing |-> listing, order |-> order, page |-> page]
<1>1. listing \in Listed /\ page \in Nat \ {0} /\ order \in {"asc", "desc"}
  BY DEF TypeOK
<1>2. IsFiniteSet(Rows(listing)) /\ Rows(listing) \subseteq AnyRow
  BY <1>1, RowsTyped
<1>3. PageOf(s, page) \in Seq(Rows(listing))
  BY <1>1, <1>2, PageSorted
<1>4. CASE page = 1 /\ turning' = turn /\ turned' = PageOf(s, page)
  <2>1. UpTo(s, 0) \o PageOf(s, 1) = UpTo(s, 1)
    BY <1>2, PageFollows
  <2>2. UpTo(s, 0) = <<>>
    <3>1. Len(s) \in Nat /\ PageSize \in Nat
      BY <1>2, ListedOnce, SizeAssumption
    <3>2. Covered(s, 0) = 0
      BY <3>1 DEF Covered
    <3> QED
      BY <3>2, SubSeqEmpty DEF UpTo
  <2>3. turned' = UpTo(s, turning'.page)
    BY <1>3, <1>4, <2>1, <2>2
  <2> QED
    BY <1>4, <2>3 DEF TurnedInv, tables, Rows, ItemRows, BuyRows, CraftRows, ProfitRows
<1>5. CASE /\ page # 1 /\ turning = [turn EXCEPT !.page = page - 1]
           /\ turning' = turn /\ turned' = turned \o PageOf(s, page)
  <2>1. /\ turning.listing = listing /\ turning.order = order /\ turning.page = page - 1
        /\ turning # NoTurning
    BY <1>1, <1>5, NoTurningAssumption DEF Turn
  <2>2. ASSUME Distinct(Rows(listing)) PROVE turned' = UpTo(s, page)
    <3>1. PICK t \in Listings(Rows(listing), order) : turned = UpTo(t, page - 1)
      BY <2>1, <2>2 DEF TurnedInv
    <3>2. t = s
      BY <1>2, <2>2, OneListing
    <3> QED
      BY <1>1, <1>2, <1>5, <3>1, <3>2, PageFollows
  <2> QED
    BY <1>5, <2>2 DEF TurnedInv, tables, Rows, ItemRows, BuyRows, CraftRows, ProfitRows
<1>6. CASE turning' = NoTurning
  BY <1>6 DEF TurnedInv
<1> QED
  BY <1>4, <1>5, <1>6 DEF TurnPage

LEMMA TurnedStep == ASSUME TypeOK, TurnedInv, [Next]_vars PROVE TurnedInv'
<1>1. CASE RankItems \/ RankSnapshots \/ FindRecipes
  <2>1. PICK s \in Listings(Rows(listing), order) : TurnPage(PageOf(s, page))
    BY <1>1 DEF RankItems, RankSnapshots, FindRecipes
  <2>2. UNCHANGED tables
    BY <1>1 DEF RankItems, RankSnapshots, FindRecipes
  <2> QED
    BY <2>1, <2>2, TurnKeeps
<1>2. CASE UNCHANGED <<tables, turning, turned>>
  BY <1>2 DEF TurnedInv, tables, Rows, ItemRows, BuyRows, CraftRows, ProfitRows
<1>3. CASE CommitAuction \/ CommitItems \/ CommitRecipes
  BY <1>3 DEF CommitAuction, CommitItems, CommitRecipes, NothingTurned, TurnedInv
<1>4. ASSUME NEW l \in Listed, NEW o \in {"asc", "desc"}, NEW n \in Pages, Ask(l, o, n)
      PROVE  UNCHANGED <<tables, turning, turned>>
  BY <1>4 DEF Ask
<1>5. ASSUME \/ LoadRecipes \/ LoadComponents \/ ShowCraft \/ RecipeMissing \/ PageComplete
             \/ UNCHANGED vars
      PROVE  UNCHANGED <<tables, turning, turned>>
  BY <1>5 DEF LoadRecipes, LoadComponents, ShowCraft, RecipeMissing, PageComplete, histories, vars
<1> QED
  BY <1>1, <1>2, <1>3, <1>4, <1>5 DEF Next

\* Turning pages one by one partitions a listing, whatever its length and the page size, if
\* nothing changes meanwhile and no two rows are equal in what is sorted by (market.py:211).
THEOREM PagesPartitionListings == Spec => []PagesPartition
<1>1. Init => TurnedInv
  BY DEF Init, TurnedInv
<1>2. Inv /\ TurnedInv /\ [Next]_vars => (Inv /\ TurnedInv)'
  BY InvStep, TurnedStep DEF Inv
<1>3. Inv /\ TurnedInv => PagesPartition
  <2> SUFFICES ASSUME Inv, TurnedInv, turning # NoTurning, Distinct(Rows(turning.listing))
               PROVE  /\ \A i, j \in DOMAIN turned : turned[i] = turned[j] => i = j
                      /\ Len(turned) < turning.page * PageSize =>
                           \A x \in Rows(turning.listing) : \E i \in DOMAIN turned : turned[i] = x
    BY DEF PagesPartition
  <2>1. turning.listing \in Listed /\ turning.page \in Nat \ {0}
    BY DEF Inv, TypeOK, Turn
  <2>2. IsFiniteSet(Rows(turning.listing))
    BY <2>1, RowsTyped DEF Inv
  <2>3. PICK s \in Listings(Rows(turning.listing), turning.order) : turned = UpTo(s, turning.page)
    BY DEF TurnedInv
  <2> DEFINE c == Covered(s, turning.page)
  <2>4. /\ c \in 0..Len(s) /\ turned \in Seq(Rows(turning.listing)) /\ Len(turned) = c
        /\ \A i \in 1..c : turned[i] = s[i]
    <3> DEFINE rows == Rows(turning.listing)
               n == turning.page
    <3>1. IsFiniteSet(rows) /\ s \in Listings(rows, turning.order) /\ n \in Nat
      BY <2>1, <2>2
    <3> HIDE DEF rows, n
    <3>2. /\ Covered(s, n) \in 0..Len(s) /\ UpTo(s, n) \in Seq(rows)
          /\ Len(UpTo(s, n)) = Covered(s, n) /\ \A i \in 1..Covered(s, n) : UpTo(s, n)[i] = s[i]
      BY <3>1, Covers
    <3> QED
      BY <2>3, <3>2 DEF rows, n
  <2>5. /\ Len(s) \in Nat
        /\ \A x \in Rows(turning.listing) : \E i \in 1..Len(s) : s[i] = x
        /\ \A i, j \in 1..Len(s) : s[i] = s[j] => i = j
    BY <2>2, ListedOnce
  <2>6. c < turning.page * PageSize => c = Len(s)
    <3> DEFINE asked == turning.page * PageSize
    <3>1. c = IF Len(s) < asked THEN Len(s) ELSE asked
      BY DEF Covered
    <3>2. asked \in Nat
      BY <2>1, SizeAssumption
    <3> HIDE DEF c, asked
    <3>3. c < asked => c = Len(s)
      BY <2>5, <3>1, <3>2
    <3> QED
      BY <3>3 DEF asked
  <2> HIDE DEF c
  <2>7. DOMAIN turned = 1..c /\ 1..c \subseteq 1..Len(s)
    BY <2>4, <2>5
  <2>8. \A i, j \in DOMAIN turned : turned[i] = turned[j] => i = j
    BY <2>4, <2>5, <2>7
  <2>9. ASSUME Len(turned) < turning.page * PageSize, NEW x \in Rows(turning.listing)
        PROVE  \E i \in DOMAIN turned : turned[i] = x
    BY <2>4, <2>5, <2>6, <2>7, <2>9
  <2> QED
    BY <2>8, <2>9
<1> QED
  BY Initially, <1>1, <1>2, <1>3, PTL DEF Spec
================================================================================
