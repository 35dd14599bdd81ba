------------------------- MODULE CatalogueSyncProofs -------------------------
(***************************************************************************)
(* Proofs about the synchronisation and its parsers.  The inductive        *)
(* invariant of a run carries, through its locations, what its steps have  *)
(* established: the tree it works on, the downloads made of it, and the    *)
(* transactions already committed.  What a parser guarantees of every      *)
(* document it accepts then holds of whatever has been stored.             *)
(***************************************************************************)
EXTENDS CatalogueSync, SequenceTheorems, FiniteSetTheorems, TLAPS

--------------------------------------------------------------------------------
(* The run *)

InRun == {"tree", "items", "download", "recipes", "recipe_file", "report"}

RunInv ==
    /\ pc \in InRun => target \in Tree
    /\ pc \in InRun \ {"tree"} => RecipeFile[target] # None
    /\ pc \in {"recipes", "recipe_file", "report"} => itemsMarker = target
    /\ pc = "report" => recipesMarker = RecipeFile[target]
    /\ \A p \in Path : downloaded[p] # None =>
         pc = "download" /\ downloaded[p] = Files[target][p]
    /\ status = "success" => pc = "idle"

IInv == TypeOK /\ RunInv /\ MarkersAreTrue /\ SuccessIsConsistent

LEMMA InitInv == Init => IInv
  BY FaultsAssumption
     DEF Init, IInv, TypeOK, RunInv, InRun, MarkersAreTrue, SuccessIsConsistent, Nothing, Errors, Refusal

\* What is said of rows and markers stays true while they stay what they are.
LEMMA StoredSame ==
  ASSUME MarkersAreTrue, SuccessIsConsistent, UNCHANGED <<itemVars, recipeVars>>,
         status' = "success" => status = "success"
  PROVE  MarkersAreTrue' /\ SuccessIsConsistent'
  BY DEF MarkersAreTrue, SuccessIsConsistent, itemVars, recipeVars, Mirror, Nothing

\* An exception touches neither rows nor markers.
LEMMA RaiseInv ==
  ASSUME IInv, pc # "idle", NEW exception \in Errors, Raise(exception)
  PROVE  IInv'
<1>1. MarkersAreTrue' /\ SuccessIsConsistent'
  BY StoredSame DEF IInv, Raise
<1>2. TypeOK' /\ RunInv'
  BY DEF IInv, TypeOK, RunInv, InRun, Raise, itemVars, recipeVars, Nothing
<1> QED BY <1>1, <1>2 DEF IInv

\* The steps that move on without touching rows, markers or downloads.
LEMMA MoveInv ==
  ASSUME IInv,
         \/ StartRun \/ GetLatestCommit \/ SkipItems \/ CompareItems
         \/ SkipRecipes \/ CompareRecipes \/ Push
  PROVE  IInv'
<1>0. TypeOK /\ RunInv
  BY DEF IInv
<1>1. MarkersAreTrue' /\ SuccessIsConsistent'
  BY StoredSame DEF IInv, StartRun, GetLatestCommit, SkipItems, CompareItems, SkipRecipes,
                    CompareRecipes, Push
<1>2. CASE StartRun
  BY <1>0, <1>1, <1>2 DEF IInv, TypeOK, RunInv, InRun, StartRun, itemVars, recipeVars
<1>3. CASE GetLatestCommit
  BY <1>0, <1>1, <1>3 DEF IInv, TypeOK, RunInv, InRun, GetLatestCommit, itemVars, recipeVars
<1>4. CASE SkipItems
  BY <1>0, <1>1, <1>4 DEF IInv, TypeOK, RunInv, InRun, SkipItems, itemVars, recipeVars
<1>5. CASE CompareItems
  BY <1>0, <1>1, <1>5 DEF IInv, TypeOK, RunInv, InRun, CompareItems, itemVars, recipeVars
<1>6. CASE SkipRecipes
  BY <1>0, <1>1, <1>6 DEF IInv, TypeOK, RunInv, InRun, SkipRecipes, RecipesApplied, itemVars, recipeVars
<1>7. CASE CompareRecipes
  BY <1>0, <1>1, <1>7 DEF IInv, TypeOK, RunInv, InRun, CompareRecipes, itemVars, recipeVars
<1>8. CASE Push
  BY <1>0, <1>1, <1>8 DEF IInv, TypeOK, RunInv, InRun, Push, itemVars, recipeVars
<1> QED BY <1>2, <1>3, <1>4, <1>5, <1>6, <1>7, <1>8

\* The end of a run, by its own report or by its death.
LEMMA EndInv ==
  ASSUME IInv, SaveSuccess \/ SaveError \/ RunDies \/ RequestFails
  PROVE  IInv'
<1>0. TypeOK /\ RunInv /\ MarkersAreTrue /\ SuccessIsConsistent
  BY DEF IInv
<1>1. TypeOK' /\ RunInv'
  <2>1. CASE SaveSuccess
    BY <1>0, <2>1 DEF TypeOK, RunInv, InRun, SaveSuccess, Finish, itemVars, recipeVars, Nothing, Errors, Refusal
  <2>2. CASE SaveError
    BY <1>0, <2>2 DEF TypeOK, RunInv, InRun, SaveError, Finish, itemVars, recipeVars, Nothing, Errors, Refusal
  <2>3. CASE RunDies
    BY <1>0, <2>3, FaultsAssumption
       DEF TypeOK, RunInv, InRun, RunDies, Finish, itemVars, recipeVars, Nothing, Errors, Refusal
  <2>4. CASE RequestFails
    BY <1>0, <2>4, FaultsAssumption
       DEF TypeOK, RunInv, InRun, RequestFails, itemVars, recipeVars, Nothing, Errors, Refusal
  <2> QED BY <2>1, <2>2, <2>3, <2>4
<1>2. CASE SaveSuccess
  <2>1. itemsMarker = target /\ recipesMarker = RecipeFile[target] /\ target \in Tree
    BY <1>0, <1>2 DEF RunInv, InRun, SaveSuccess
  <2>2. items' = Mirror(itemsMarker') /\ recipes' = RecipeFile[itemsMarker'] /\ itemsMarker' # None
    BY <1>0, <1>2, <2>1, NoneAssumption DEF MarkersAreTrue, SaveSuccess, itemVars, recipeVars
  <2>3. MarkersAreTrue'
    BY <1>0, <1>2 DEF MarkersAreTrue, SaveSuccess, itemVars, recipeVars, Nothing
  <2> QED BY <1>1, <2>2, <2>3 DEF IInv, SuccessIsConsistent
<1>3. CASE SaveError \/ RunDies \/ RequestFails
  <2>1. status' = "success" => status = "success"
    BY <1>0, <1>3 DEF TypeOK, Errors, Refusal, SaveError, RunDies, RequestFails
  <2>2. MarkersAreTrue' /\ SuccessIsConsistent'
    BY <1>0, <1>3, <2>1, StoredSame DEF SaveError, RunDies, RequestFails
  <2> QED BY <1>1, <2>2 DEF IInv
<1> QED BY <1>2, <1>3

LEMMA DownloadInv ==
  ASSUME IInv, DownloadItem \/ RefuseItems \/ FlushItemsFails \/ GetTree \/ RefuseRecipes
  PROVE  IInv'
<1>0. TypeOK /\ RunInv
  BY DEF IInv
<1>1. CASE pc' = "failed"
  <2>1. PICK exception \in Errors : Raise(exception)
    <3>1. CASE GetTree \/ DownloadItem \/ RefuseItems
      BY <1>0, <1>1, <3>1 DEF DownloadItem, RefuseItems, GetTree, Errors, Refusal
    <3>2. CASE FlushItemsFails
      <4>1. ASSUME NEW p \in ToDownload, AllDownloaded
            PROVE  ItemRefusal[downloaded[p]] \in Refusal
        BY <4>1, <1>0, BlobAssumption DEF TypeOK, AllDownloaded, ToDownload, Listed
      <4> QED BY <3>2, <4>1 DEF FlushItemsFails, Errors, Refusal
    <3>3. CASE RefuseRecipes
      <4>1. RecipeFile[target] \in RecipeBlob
        BY <3>3, <1>0, TreeAssumption DEF RefuseRecipes, RunInv, InRun
      <4>2. RecipeRefusal[RecipeFile[target]] \in Refusal
        BY <4>1, BlobAssumption
      <4> QED BY <3>3, <4>2 DEF RefuseRecipes, Errors
    <3> QED BY <3>1, <3>2, <3>3
  <2>2. pc # "idle"
    BY DEF DownloadItem, RefuseItems, FlushItemsFails, GetTree, RefuseRecipes
  <2> QED BY <2>1, <2>2, RaiseInv
<1>2. CASE pc' # "failed"
  <2>1. CASE GetTree
    <3>1. MarkersAreTrue' /\ SuccessIsConsistent'
      BY <2>1, StoredSame DEF IInv, GetTree, Raise
    <3> QED BY <1>0, <1>2, <2>1, <3>1
            DEF IInv, TypeOK, RunInv, InRun, GetTree, Raise, itemVars, recipeVars
  <2>2. CASE DownloadItem
    <3>1. PICK p \in Path :
            /\ downloaded' = [downloaded EXCEPT ![p] = Files[target][p]]
            /\ Files[target][p] # None
            /\ pc = "download"
            /\ UNCHANGED <<head, itemVars, recipeVars, status, pc, target, error, faults>>
      BY <1>2, <2>2 DEF DownloadItem, Raise, ToDownload, Listed, Source
    <3>2. Files[target][p] \in Blob
      BY <3>1, <1>0, TreeAssumption DEF RunInv, InRun
    <3>3. MarkersAreTrue' /\ SuccessIsConsistent'
      BY <3>1, StoredSame DEF IInv
    <3>4. TypeOK'
      BY <3>1, <3>2, <1>0 DEF TypeOK, itemVars, recipeVars
    <3>5. RunInv'
      BY <3>1, <1>0 DEF TypeOK, RunInv, InRun, itemVars, recipeVars
    <3> QED BY <3>3, <3>4, <3>5 DEF IInv
  <2>3. CASE RefuseItems \/ FlushItemsFails \/ RefuseRecipes
    BY <1>2, <2>3 DEF RefuseItems, FlushItemsFails, RefuseRecipes, Raise
  <2> QED BY <2>1, <2>2, <2>3
<1> QED BY <1>1, <1>2

\* The differences, applied to the rows of any earlier tree, make the rows of the target.
LEMMA DifferencesSuffice ==
  ASSUME IInv, ApplyItems
  PROVE  items' = Mirror(target)
<1>0. TypeOK /\ RunInv /\ MarkersAreTrue
  BY DEF IInv
<1>1. pc = "download" /\ AllDownloaded /\ target \in Tree
  BY <1>0 DEF ApplyItems, RunInv, InRun
<1>2. ASSUME NEW p \in Path PROVE AppliedRow(p) = Mirror(target)[p]
  <2>1. CASE p \notin Listed
    BY <2>1 DEF AppliedRow, Listed, Mirror
  <2>2. CASE p \in ToDownload
    <3>1. downloaded[p] = Files[target][p] /\ p \in Listed
      BY <2>2, <1>0, <1>1 DEF AllDownloaded, RunInv, ToDownload
    <3> QED BY <3>1, <2>2 DEF AppliedRow, Listed, Mirror
  <2>3. CASE p \in Listed /\ p \notin ToDownload
    <3>1. items[p] # None /\ items[p].sha = Files[target][p]
      BY <2>3 DEF ToDownload
    <3>2. itemsMarker # None /\ items[p] = Mirror(itemsMarker)[p]
      BY <3>1, <1>0 DEF MarkersAreTrue, Nothing
    <3>3. items[p].content = items[p].sha /\ items[p] \in Row
      BY <3>1, <3>2, <1>0 DEF TypeOK, Mirror
    <3> QED BY <2>3, <3>1, <3>3 DEF AppliedRow, Listed, Mirror, Row
  <2> QED BY <2>1, <2>2, <2>3 DEF ToDownload
<1> QED BY <1>2 DEF ApplyItems, Mirror

LEMMA ApplyItemsInv == ASSUME IInv, ApplyItems PROVE IInv'
<1>0. TypeOK /\ RunInv /\ MarkersAreTrue /\ SuccessIsConsistent
  BY DEF IInv
<1>1. items' = Mirror(target)
  BY DifferencesSuffice
<1>2. target \in Tree /\ target # None /\ pc = "download" /\ RecipeFile[target] # None
  BY <1>0, NoneAssumption DEF ApplyItems, RunInv, InRun
<1>3. Mirror(target) \in [Path -> Row \cup {None}]
  BY <1>2, TreeAssumption DEF Mirror, Row
<1>4. TypeOK'
  BY <1>0, <1>1, <1>2, <1>3 DEF TypeOK, ApplyItems, recipeVars, Nothing
<1>5. RunInv'
  BY <1>0, <1>2 DEF RunInv, InRun, ApplyItems, recipeVars, Nothing
<1>6. MarkersAreTrue'
  BY <1>0, <1>1, <1>2 DEF MarkersAreTrue, ApplyItems, recipeVars, Mirror
<1>7. SuccessIsConsistent'
  BY <1>0, <1>2 DEF RunInv, SuccessIsConsistent, ApplyItems
<1> QED BY <1>4, <1>5, <1>6, <1>7 DEF IInv

LEMMA ApplyRecipesInv == ASSUME IInv, ApplyRecipes PROVE IInv'
<1>0. TypeOK /\ RunInv /\ MarkersAreTrue /\ SuccessIsConsistent
  BY DEF IInv
<1>1. target \in Tree /\ RecipeFile[target] \in RecipeBlob
  BY <1>0, TreeAssumption DEF RunInv, InRun, ApplyRecipes
<1>2. TypeOK'
  BY <1>0, <1>1 DEF TypeOK, ApplyRecipes, itemVars
<1>3. RunInv'
  BY <1>0 DEF RunInv, InRun, ApplyRecipes, itemVars
<1>4. MarkersAreTrue'
  BY <1>0 DEF MarkersAreTrue, ApplyRecipes, itemVars, Mirror, Nothing
<1>5. SuccessIsConsistent'
  BY <1>0 DEF RunInv, SuccessIsConsistent, ApplyRecipes
<1> QED BY <1>2, <1>3, <1>4, <1>5 DEF IInv

LEMMA StepInv == ASSUME IInv, [Next]_vars PROVE IInv'
<1>1. CASE UNCHANGED vars
  <2>1. MarkersAreTrue' /\ SuccessIsConsistent'
    BY <1>1, StoredSame DEF IInv, vars
  <2> QED BY <1>1, <2>1 DEF IInv, TypeOK, RunInv, InRun, vars, itemVars, recipeVars
<1>2. CASE Next
  BY <1>2, MoveInv, EndInv, DownloadInv, ApplyItemsInv, ApplyRecipesInv DEF Next, Runner
<1> QED BY <1>1, <1>2

LEMMA Invariance == Spec => []IInv
  BY InitInv, StepInv, PTL DEF Spec

\* The variables of the synchronisation keep their types.
THEOREM Typing == Spec => []TypeOK
  BY Invariance, PTL DEF IInv

\* For every history of pushes and failures, the rows are those of the tree and of the
\* recipe file that the markers name (github_sync.py:79-115, 127-169).
THEOREM MarkersTellTheTruth == Spec => []MarkersAreTrue
  BY Invariance, PTL DEF IInv

\* A reported success means that items and recipes are of one commit
\* (github_sync.py:68-70, sync_runner.py:60-81).
THEOREM SuccessMeansConsistency == Spec => []SuccessIsConsistent
  BY Invariance, PTL DEF IInv

--------------------------------------------------------------------------------
(* The recipe parser *)

\* What a document that is not refused has passed.
LEMMA Accepted ==
  ASSUME NEW raw, RefusalOfRecipes(raw) # "HideoutRecipeParseError"
  PROVE  /\ raw.recipes # Absent
         /\ ArePerks(raw.perks)
         /\ \A i \in DOMAIN raw.recipes : IsRecipe(raw.recipes[i])
         /\ parse_hideout_recipes(raw) =
              [ok |-> TRUE, perks |-> raw.perks,
               recipes |-> [i \in DOMAIN raw.recipes |-> _parse_recipe(raw.recipes[i], i - 1)]]
<1>1. parse_hideout_recipes(raw).ok
  BY DEF RefusalOfRecipes
<1>2. parse_hideout_recipes(raw) # Refused
  BY <1>1 DEF Refused
<1> QED BY <1>2 DEF parse_hideout_recipes

\* The two lists of components, one after the other.
LEMMA ComponentsYield ==
  ASSUME NEW result \in Seq(Component), NEW ingredients \in Seq(Component),
         AreComponents(result), result # <<>>
  PROVE  Yields(_parse_components(result, "result") \o _parse_components(ingredients, "ingredient"))
<1> DEFINE r == _parse_components(result, "result")
           s == _parse_components(ingredients, "ingredient")
           Part == UNION {{r[i] : i \in DOMAIN r}, {s[i] : i \in DOMAIN s}}
<1>1. r \in Seq(Part) /\ Len(r) = Len(result)
  BY DEF _parse_components
<1>2. s \in Seq(Part) /\ Len(s) = Len(ingredients)
  BY DEF _parse_components
<1>3. /\ Len(r \o s) = Len(r) + Len(s) /\ r \o s \in Seq(Part)
      /\ \A i \in 1 .. Len(r) + Len(s) :
           (r \o s)[i] = IF i <= Len(r) THEN r[i] ELSE s[i - Len(r)]
  BY <1>1, <1>2, ConcatProperties
<1>4. \A i \in 1 .. Len(r) :
        r[i].component_type = "result" /\ r[i].sort_order = i - 1 /\ r[i].amount = result[i].amount
  BY <1>1 DEF _parse_components
<1>5. \A i \in 1 .. Len(s) : s[i].component_type = "ingredient" /\ s[i].sort_order = i - 1
  BY <1>2 DEF _parse_components
<1>6. Len(r) > 0 /\ result[1].amount > 0
  BY <1>1 DEF AreComponents
<1> HIDE DEF r, s, Part
<1>7. Len(r) \in Nat /\ Len(s) \in Nat
  BY <1>1, <1>2
<1>8. DOMAIN (r \o s) = 1 .. Len(r) + Len(s)
  BY <1>3, <1>7
<1>9. /\ (r \o s)[1].component_type = "result" /\ (r \o s)[1].amount > 0
      /\ 1 \in DOMAIN (r \o s)
  BY <1>3, <1>4, <1>6, <1>7, <1>8
<1>10. ASSUME NEW i \in DOMAIN (r \o s), NEW j \in DOMAIN (r \o s), i # j,
              (r \o s)[i].component_type = (r \o s)[j].component_type
       PROVE  (r \o s)[i].sort_order # (r \o s)[j].sort_order
  <2>1. /\ i \in Nat /\ i > 0 /\ i <= Len(r) + Len(s)
        /\ j \in Nat /\ j > 0 /\ j <= Len(r) + Len(s)
    BY <1>7, <1>8
  <2>2. ASSUME NEW k \in DOMAIN (r \o s)
        PROVE  /\ k <= Len(r) => /\ (r \o s)[k].component_type = "result"
                                /\ (r \o s)[k].sort_order = k - 1
               /\ ~(k <= Len(r)) => /\ (r \o s)[k].component_type = "ingredient"
                                   /\ (r \o s)[k].sort_order = k - Len(r) - 1
    <3>1. k \in Nat /\ k > 0 /\ k <= Len(r) + Len(s)
      BY <1>7, <1>8
    <3>2. CASE k <= Len(r)
      BY <3>1, <3>2, <1>3, <1>4, <1>7
    <3>3. CASE ~(k <= Len(r))
      <4>1. (r \o s)[k] = s[k - Len(r)]
        BY <3>1, <3>3, <1>3, <1>7
      <4>2. k - Len(r) \in 1 .. Len(s)
        BY <3>1, <3>3, <1>7
      <4> QED BY <3>3, <4>1, <4>2, <1>5
    <3> QED BY <3>2, <3>3
  <2>3. CASE i <= Len(r)
    <3>1. (r \o s)[i].component_type = "result" /\ (r \o s)[i].sort_order = i - 1
      BY <2>2, <2>3
    <3>2. j <= Len(r)
      BY <3>1, <2>2, <1>10
    <3>3. (r \o s)[j].sort_order = j - 1
      BY <3>2, <2>2
    <3> QED BY <3>1, <3>3, <2>1, <1>10
  <2>4. CASE ~(i <= Len(r))
    <3>1. (r \o s)[i].component_type = "ingredient" /\ (r \o s)[i].sort_order = i - Len(r) - 1
      BY <2>2, <2>4
    <3>2. ~(j <= Len(r))
      BY <3>1, <2>2, <1>10
    <3>3. (r \o s)[j].sort_order = j - Len(r) - 1
      BY <3>2, <2>2
    <3> QED BY <3>1, <3>3, <2>1, <1>7, <1>10
  <2> QED BY <2>3, <2>4
<1>11. Yields(r \o s)
  BY <1>9, <1>10 DEF Yields
<1> QED BY <1>11 DEF r, s

LEMMA RecipesOfBlobYield ==
  ASSUME NEW b \in RecipeBlob, RecipeRefusal[b] = "none",
         NEW i \in DOMAIN parse_hideout_recipes(RecipeDocument[b]).recipes
  PROVE  Yields(parse_hideout_recipes(RecipeDocument[b]).recipes[i].components)
<1> DEFINE raw == RecipeDocument[b]
<1>1. RefusalOfRecipes(raw) # "HideoutRecipeParseError"
  BY DocumentAssumption
<1> HIDE DEF raw
<1>2. /\ raw.recipes # Absent
      /\ \A k \in DOMAIN raw.recipes : IsRecipe(raw.recipes[k])
      /\ parse_hideout_recipes(raw).recipes =
           [k \in DOMAIN raw.recipes |-> _parse_recipe(raw.recipes[k], k - 1)]
  BY <1>1, Accepted
<1>3. i \in DOMAIN raw.recipes
  BY <1>2 DEF raw
<1>4. IsRecipe(raw.recipes[i])
  BY <1>2, <1>3
<1>5. /\ raw.recipes[i].result \in Seq(Component) /\ raw.recipes[i].result # <<>>
      /\ raw.recipes[i].ingredients \in Seq(Component)
      /\ AreComponents(raw.recipes[i].result)
  BY <1>2, <1>3, <1>4, ListAssumption DEF raw, IsRecipe, AreComponents, HasResults
<1>6. parse_hideout_recipes(raw).recipes[i].components =
        _parse_components(raw.recipes[i].result, "result")
        \o _parse_components(raw.recipes[i].ingredients, "ingredient")
  <2>1. parse_hideout_recipes(raw).recipes[i] = _parse_recipe(raw.recipes[i], i - 1)
    BY <1>2, <1>3
  <2> QED BY <2>1 DEF _parse_recipe
<1>7. Yields(parse_hideout_recipes(raw).recipes[i].components)
  BY <1>5, <1>6, ComponentsYield
<1> QED BY <1>7 DEF raw

StoredWasAccepted == recipes # None => recipes \in RecipeBlob /\ RecipeRefusal[recipes] = "none"

LEMMA StoredWasAcceptedStep ==
  ASSUME IInv, StoredWasAccepted, [Next]_vars
  PROVE  StoredWasAccepted'
<1>1. CASE ApplyRecipes
  <2>1. RecipeFile[target] \in RecipeBlob
    BY <1>1, TreeAssumption DEF IInv, RunInv, InRun, ApplyRecipes
  <2> QED BY <1>1, <2>1 DEF StoredWasAccepted, ApplyRecipes
<1>2. CASE ~ApplyRecipes
  <2>1. recipes' = recipes
    BY <1>2 DEF Next, Runner, vars, recipeVars, StartRun, GetLatestCommit, GetTree, SkipItems,
                CompareItems, DownloadItem, RefuseItems, FlushItemsFails, ApplyItems, SkipRecipes,
                CompareRecipes, RefuseRecipes, SaveSuccess, SaveError, RequestFails, RunDies, Push,
                Raise
  <2> QED BY <2>1 DEF StoredWasAccepted
<1> QED BY <1>1, <1>2

\* Whatever was pushed and whatever failed, every recipe in the database makes something
\* of a positive amount (hideout_recipe_parser.py:95-98, 121-148).
THEOREM RecipesYield == Spec => []StoredRecipesYield
<1>1. Init => StoredWasAccepted
  BY DEF Init, StoredWasAccepted
<1>2. StoredWasAccepted => StoredRecipesYield
  BY RecipesOfBlobYield DEF StoredWasAccepted, StoredRecipesYield
<1> QED BY <1>1, <1>2, Invariance, StoredWasAcceptedStep, PTL DEF Spec

--------------------------------------------------------------------------------
(* The item parser *)

\* Induction up to n for a set: the intervals that end outside it have no least one.
LEMMA Induction ==
  ASSUME NEW n \in Nat, NEW S, 0 \in S, \A m \in 0..n - 1 : m \in S => m + 1 \in S
  PROVE  0..n \subseteq S
<1> DEFINE Outside == {0..m : m \in (0..n) \ S}
<1> SUFFICES ASSUME Outside # {} PROVE FALSE
  OBVIOUS
<1>1. IsFiniteSet(0..n)
  BY FS_Interval
<1>2. IsWellFoundedOn(StrictSubsetOrdering(0..n), SUBSET (0..n))
  BY <1>1, FS_FiniteSubsetsOfFinite, FS_StrictSubsetOrderingWellFounded
<1>3. Outside \subseteq SUBSET (0..n)
  OBVIOUS
<1> HIDE DEF Outside
<1>4. PICK least \in Outside : \A i \in Outside : <<i, least>> \notin StrictSubsetOrdering(0..n)
  BY <1>2, <1>3, WFMin
<1>5. PICK m \in (0..n) \ S : least = 0..m
  BY <1>4 DEF Outside
<1>6. m # 0 /\ m - 1 \in 0..n - 1 /\ (m - 1) + 1 = m
  BY <1>5
<1>7. m - 1 \in (0..n) \ S
  BY <1>5, <1>6
<1>8. 0..m - 1 \in Outside
  BY <1>7 DEF Outside
<1>9. 0..m - 1 \subseteq 0..m /\ 0..m - 1 # 0..m
  BY <1>5, <1>6
<1>10. <<0..m - 1, least>> \in StrictSubsetOrdering(0..n)
  BY <1>3, <1>4, <1>5, <1>8, <1>9 DEF StrictSubsetOrdering
<1> QED BY <1>4, <1>8, <1>10

\* The attributes after a number of elements are what the recursion says.
LEMMA AfterElementsDef ==
  ASSUME NEW attributes, NEW elements, IsList(elements)
  PROVE  LET after == AfterElements(attributes, elements)
         IN /\ after[0] = attributes
            /\ \A n \in 1..Len(elements) : after[n] = WithListElement(after[n - 1], elements[n])
<1> DEFINE Step(f, n) == IF n = 0 THEN attributes ELSE WithListElement(f[n - 1], elements[n])
           Defined == {n \in Nat : \E f : f = [m \in 0..n |-> Step(f, m)]}
<1>1. Len(elements) \in Nat
  BY DEF IsList
<1>2. 0 \in Defined
  <2> DEFINE g == [m \in 0..0 |-> attributes]
  <2>1. g = [m \in 0..0 |-> Step(g, m)]
    OBVIOUS
  <2> QED BY <2>1
<1>3. ASSUME NEW n \in 0..Len(elements) - 1, n \in Defined PROVE n + 1 \in Defined
  <2>1. PICK f : f = [m \in 0..n |-> Step(f, m)]
    BY <1>3
  <2> DEFINE g == [m \in 0..n + 1 |-> IF m \in 0..n THEN f[m] ELSE WithListElement(f[n], elements[n + 1])]
  <2>2. ASSUME NEW m \in 0..n + 1 PROVE g[m] = Step(g, m)
    <3>1. CASE m = 0
      BY <2>1, <3>1
    <3>2. CASE m \in 1..n
      <4>1. g[m - 1] = f[m - 1] /\ g[m] = f[m] /\ m # 0
        BY <3>2
      <4>2. f[m] = WithListElement(f[m - 1], elements[m])
        BY <2>1, <3>2
      <4> QED BY <4>1, <4>2
    <3>3. CASE m = n + 1
      <4>1. g[m - 1] = f[n] /\ g[m] = WithListElement(f[n], elements[n + 1]) /\ m # 0
        BY <3>3
      <4> QED BY <3>3, <4>1
    <3> QED BY <1>1, <3>1, <3>2, <3>3
  <2> HIDE DEF Step
  <2>3. g = [m \in 0..n + 1 |-> Step(g, m)]
    BY <2>2
  <2>4. n + 1 \in Nat
    BY <1>1
  <2> QED BY <2>3, <2>4
<1> HIDE DEF Step
<1>4. Len(elements) \in Defined
  <2> HIDE DEF Defined
  <2>1. 0..Len(elements) \subseteq Defined
    BY <1>1, <1>2, <1>3, Induction
  <2> QED BY <1>1, <2>1
<1> DEFINE after == AfterElements(attributes, elements)
<1>5. after = [n \in 0..Len(elements) |-> Step(after, n)]
  BY <1>4 DEF AfterElements, Step
<1> HIDE DEF after
<1>6. after[0] = Step(after, 0)
  BY <1>1, <1>5
<1>7. ASSUME NEW n \in 1..Len(elements)
      PROVE  after[n] = Step(after, n) /\ n # 0
  BY <1>1, <1>5
<1>8. /\ after[0] = attributes
      /\ \A n \in 1..Len(elements) : after[n] = WithListElement(after[n - 1], elements[n])
  BY <1>6, <1>7 DEF Step
<1> QED BY <1>8 DEF after

\* What an item starts with.
Start == [description |-> Absent, attributes |-> <<>>]

\* And so is what has been parsed after a number of blocks.
LEMMA AfterBlocksDef ==
  ASSUME NEW blocks, IsList(blocks)
  PROVE  LET after == AfterBlocks(blocks)
         IN /\ after[0] = Start
            /\ \A n \in 1..Len(blocks) : after[n] = WithBlock(after[n - 1], blocks[n])
<1> DEFINE Step(f, n) == IF n = 0 THEN Start ELSE WithBlock(f[n - 1], blocks[n])
           Defined == {n \in Nat : \E f : f = [m \in 0..n |-> Step(f, m)]}
<1>1. Len(blocks) \in Nat
  BY DEF IsList
<1>2. 0 \in Defined
  <2> DEFINE g == [m \in 0..0 |-> Start]
  <2>1. g = [m \in 0..0 |-> Step(g, m)]
    OBVIOUS
  <2> QED BY <2>1
<1>3. ASSUME NEW n \in 0..Len(blocks) - 1, n \in Defined PROVE n + 1 \in Defined
  <2>1. PICK f : f = [m \in 0..n |-> Step(f, m)]
    BY <1>3
  <2> DEFINE g == [m \in 0..n + 1 |-> IF m \in 0..n THEN f[m] ELSE WithBlock(f[n], blocks[n + 1])]
  <2>2. ASSUME NEW m \in 0..n + 1 PROVE g[m] = Step(g, m)
    <3>1. CASE m = 0
      BY <2>1, <3>1
    <3>2. CASE m \in 1..n
      <4>1. g[m - 1] = f[m - 1] /\ g[m] = f[m] /\ m # 0
        BY <3>2
      <4>2. f[m] = WithBlock(f[m - 1], blocks[m])
        BY <2>1, <3>2
      <4> QED BY <4>1, <4>2
    <3>3. CASE m = n + 1
      <4>1. g[m - 1] = f[n] /\ g[m] = WithBlock(f[n], blocks[n + 1]) /\ m # 0
        BY <3>3
      <4> QED BY <3>3, <4>1
    <3> QED BY <1>1, <3>1, <3>2, <3>3
  <2> HIDE DEF Step
  <2>3. g = [m \in 0..n + 1 |-> Step(g, m)]
    BY <2>2
  <2>4. n + 1 \in Nat
    BY <1>1
  <2> QED BY <2>3, <2>4
<1> HIDE DEF Step
<1>4. Len(blocks) \in Defined
  <2> HIDE DEF Defined
  <2>1. 0..Len(blocks) \subseteq Defined
    BY <1>1, <1>2, <1>3, Induction
  <2> QED BY <1>1, <2>1
<1> DEFINE after == AfterBlocks(blocks)
<1>5. after = [n \in 0..Len(blocks) |-> Step(after, n)]
  BY <1>4 DEF AfterBlocks, Step, Start
<1> HIDE DEF after
<1>6. after[0] = Step(after, 0)
  BY <1>1, <1>5
<1>7. ASSUME NEW n \in 1..Len(blocks)
      PROVE  after[n] = Step(after, n) /\ n # 0
  BY <1>1, <1>5
<1>8. /\ after[0] = Start
      /\ \A n \in 1..Len(blocks) : after[n] = WithBlock(after[n - 1], blocks[n])
  BY <1>6, <1>7 DEF Step
<1> QED BY <1>8 DEF after

\* The places that are worth an attribute up to a position in block i, and up to its end.
Upto(raw, i, j) == {w \in Worthy(raw) : w[1] < i \/ (w[1] = i /\ w[2] <= j)}
Under(raw, i) == {w \in Worthy(raw) : w[1] <= i}

\* The attributes are rows for these places, one for each, in their order and numbered.
Numbered(raw, attributes, P) ==
    /\ IsList(attributes)
    /\ \E place \in [1..Len(attributes) -> P] :
         /\ \A w \in P : \E k \in 1..Len(attributes) : place[k] = w
         /\ \A k, l \in 1..Len(attributes) : k < l => Before(place[k], place[l])
         /\ \A k \in 1..Len(attributes) :
              /\ attributes[k].sort_order = k - 1
              /\ attributes[k].key = KeyAt(raw, place[k])
    /\ \A k \in 1..Len(attributes) :
         /\ attributes[k].key \notin Blank
         /\ attributes[k].value_text # Absent \/ attributes[k].value_numeric # Absent

LEMMA EmptyNumbered ==
  ASSUME NEW raw, NEW empty, empty = <<>>
  PROVE  Numbered(raw, empty, {})
<1> DEFINE place == [k \in 1..Len(empty) |-> 0]
<1>1. 1..Len(empty) = {} /\ IsList(empty)
  BY DEF IsList
<1>2. place \in [1..Len(empty) -> {}]
  BY <1>1
<1> HIDE DEF place
<1>3. \E q \in [1..Len(empty) -> {}] :
        /\ \A w \in {} : \E k \in 1..Len(empty) : q[k] = w
        /\ \A k, l \in 1..Len(empty) : k < l => Before(q[k], q[l])
        /\ \A k \in 1..Len(empty) :
             empty[k].sort_order = k - 1 /\ empty[k].key = KeyAt(raw, q[k])
  BY <1>1, <1>2
<1>4. \A k \in 1..Len(empty) :
        /\ empty[k].key \notin Blank
        /\ empty[k].value_text # Absent \/ empty[k].value_numeric # Absent
  BY <1>1
<1> QED BY <1>1, <1>3, <1>4 DEF Numbered

LEMMA AppendNumbered ==
  ASSUME NEW raw, NEW attributes, NEW P, Numbered(raw, attributes, P),
         NEW p, \A w \in P : Before(w, p),
         NEW row, row.sort_order = Len(attributes), row.key = KeyAt(raw, p),
         row.key \notin Blank, row.value_text # Absent \/ row.value_numeric # Absent
  PROVE  Numbered(raw, Append(attributes, row), P \cup {p})
<1> DEFINE longer == Append(attributes, row)
           n == Len(attributes)
<1>1. /\ n \in Nat /\ longer \in Seq(ToSet(attributes) \cup {row}) /\ Len(longer) = n + 1
      /\ \A k \in 1..n : longer[k] = attributes[k]
      /\ longer[n + 1] = row
  <2>1. attributes \in Seq(ToSet(attributes) \cup {row})
    BY DEF Numbered, IsList
  <2> QED BY <2>1, AppendProperties
<1> HIDE DEF longer
<1>2. IsList(longer)
  BY <1>1 DEF IsList, ToSet
<1>3. PICK place \in [1..n -> P] :
         /\ \A w \in P : \E k \in 1..n : place[k] = w
         /\ \A k, l \in 1..n : k < l => Before(place[k], place[l])
         /\ \A k \in 1..n :
              attributes[k].sort_order = k - 1 /\ attributes[k].key = KeyAt(raw, place[k])
  BY DEF Numbered
<1>4. \A k \in 1..n :
         /\ attributes[k].key \notin Blank
         /\ attributes[k].value_text # Absent \/ attributes[k].value_numeric # Absent
  BY DEF Numbered
<1> DEFINE places == [k \in 1..n + 1 |-> IF k \in 1..n THEN place[k] ELSE p]
<1> HIDE DEF n
<1>5. \A k \in 1..n + 1 : k \in 1..n \/ k = n + 1
  BY <1>1
<1>6. places \in [1..n + 1 -> P \cup {p}]
  BY <1>3
<1>7. \A w \in P \cup {p} : \E k \in 1..n + 1 : places[k] = w
  <2>1. \A w \in P : \E k \in 1..n : places[k] = w
    BY <1>1, <1>3
  <2>2. places[n + 1] = p /\ n + 1 \in 1..n + 1 /\ 1..n \subseteq 1..n + 1
    BY <1>1
  <2> HIDE DEF places
  <2> QED BY <2>1, <2>2
<1>8. ASSUME NEW k \in 1..n + 1, NEW l \in 1..n + 1, k < l PROVE Before(places[k], places[l])
  <2>1. k \in 1..n
    BY <1>1, <1>8
  <2>2. places[k] = place[k] /\ place[k] \in P
    BY <1>3, <2>1
  <2>3. CASE l \in 1..n
    BY <1>3, <1>8, <2>1, <2>2, <2>3
  <2>4. CASE l = n + 1
    <3>1. places[l] = p
      BY <1>1, <2>4
    <3> QED BY <2>2, <3>1
  <2> QED BY <1>5, <2>3, <2>4
<1>9. ASSUME NEW k \in 1..n + 1
      PROVE  /\ longer[k].sort_order = k - 1
             /\ longer[k].key = KeyAt(raw, places[k])
             /\ longer[k].key \notin Blank
             /\ longer[k].value_text # Absent \/ longer[k].value_numeric # Absent
  <2>1. CASE k \in 1..n
    <3>1. longer[k] = attributes[k] /\ places[k] = place[k]
      BY <1>1, <2>1
    <3> QED BY <1>3, <1>4, <2>1, <3>1
  <2>2. CASE k = n + 1
    <3>1. longer[k] = row /\ places[k] = p /\ (n + 1) - 1 = n
      BY <1>1, <2>2
    <3> QED BY <2>2, <3>1 DEF n
  <2> QED BY <1>5, <2>1, <2>2
<1> HIDE DEF places
<1>10. \E q \in [1..Len(longer) -> P \cup {p}] :
         /\ \A w \in P \cup {p} : \E k \in 1..Len(longer) : q[k] = w
         /\ \A k, l \in 1..Len(longer) : k < l => Before(q[k], q[l])
         /\ \A k \in 1..Len(longer) :
              longer[k].sort_order = k - 1 /\ longer[k].key = KeyAt(raw, q[k])
  <2>1. Len(longer) = n + 1
    BY <1>1
  <2>2. \A k, l \in 1..n + 1 : k < l => Before(places[k], places[l])
    BY <1>8
  <2>3. \A k \in 1..n + 1 :
          longer[k].sort_order = k - 1 /\ longer[k].key = KeyAt(raw, places[k])
    BY <1>9
  <2> QED BY <1>6, <1>7, <2>1, <2>2, <2>3, Zenon
<1>11. \A k \in 1..Len(longer) :
         /\ longer[k].key \notin Blank
         /\ longer[k].value_text # Absent \/ longer[k].value_numeric # Absent
  BY <1>1, <1>9
<1>12. Numbered(raw, longer, P \cup {p})
  BY <1>2, <1>10, <1>11 DEF Numbered
<1> QED BY <1>12 DEF longer

LEMMA WorthyPlaces ==
  ASSUME NEW raw, AreBlocks(raw.infoBlocks), NEW w \in Worthy(raw)
  PROVE  /\ w[1] \in DOMAIN raw.infoBlocks /\ w[1] \in Nat /\ w = <<w[1], w[2]>>
         /\ w[2] \in WorthyIn(raw.infoBlocks[w[1]]) /\ w[2] \in Nat
         /\ raw.infoBlocks[w[1]].type = "list" =>
              w[2] \in 1..Len(raw.infoBlocks[w[1]].elements)
<1>1. PICK i \in DOMAIN raw.infoBlocks : \E j \in WorthyIn(raw.infoBlocks[i]) : w = <<i, j>>
  BY DEF Worthy
<1> PICK j \in WorthyIn(raw.infoBlocks[i]) : w = <<i, j>>
  BY <1>1
<1>2. i \in Nat
  BY <1>1 DEF AreBlocks, IsList
<1>3. raw.infoBlocks[i].type = "list" => j \in 1..Len(raw.infoBlocks[i].elements)
  BY <1>1 DEF AreBlocks, IsList, WorthyIn
<1>4. j \in Nat
  BY <1>1, <1>3 DEF WorthyIn
<1> QED BY <1>1, <1>2, <1>3, <1>4

\* A block without an attribute leaves the places alone; a text has one at most.
LEMMA UnderStep ==
  ASSUME NEW raw, AreBlocks(raw.infoBlocks), NEW i \in DOMAIN raw.infoBlocks,
         raw.infoBlocks[i].type # "list"
  PROVE  /\ WorthyIn(raw.infoBlocks[i]) = {} => Under(raw, i) = Under(raw, i - 1)
         /\ WorthyIn(raw.infoBlocks[i]) # {} =>
              /\ WorthyIn(raw.infoBlocks[i]) = {0}
              /\ Under(raw, i) = Under(raw, i - 1) \cup {<<i, 0>>}
         /\ \A w \in Under(raw, i - 1) : Before(w, <<i, 0>>)
<1>1. i \in Nat
  BY DEF AreBlocks, IsList
<1>2. WorthyIn(raw.infoBlocks[i]) \subseteq {0}
  BY DEF WorthyIn
<1>3. \A w \in Worthy(raw) : /\ w[1] \in Nat /\ w = <<w[1], w[2]>>
                             /\ w[2] \in WorthyIn(raw.infoBlocks[w[1]])
  BY WorthyPlaces
<1>4. \A w \in Under(raw, i - 1) : Before(w, <<i, 0>>)
  BY <1>1, <1>3 DEF Under, Before
<1>5. \A w \in Under(raw, i) :
        w \notin Under(raw, i - 1) => w = <<i, 0>> /\ 0 \in WorthyIn(raw.infoBlocks[i])
  <2> SUFFICES ASSUME NEW w \in Under(raw, i), w \notin Under(raw, i - 1)
               PROVE  w = <<i, 0>> /\ 0 \in WorthyIn(raw.infoBlocks[i])
    OBVIOUS
  <2>1. w[1] = i
    BY <1>1, <1>3 DEF Under
  <2>2. w[2] \in WorthyIn(raw.infoBlocks[i]) /\ w = <<w[1], w[2]>>
    BY <1>3, <2>1 DEF Under
  <2> QED BY <1>2, <2>1, <2>2
<1>6. Under(raw, i - 1) \subseteq Under(raw, i)
  BY <1>1, <1>3 DEF Under
<1>7. 0 \in WorthyIn(raw.infoBlocks[i]) => <<i, 0>> \in Under(raw, i)
  BY <1>1 DEF Under, Worthy
<1> QED BY <1>2, <1>4, <1>5, <1>6, <1>7

\* The places of a list, element by element.
LEMMA UptoStep ==
  ASSUME NEW raw, AreBlocks(raw.infoBlocks), NEW i \in DOMAIN raw.infoBlocks,
         raw.infoBlocks[i].type = "list"
  PROVE  /\ Upto(raw, i, 0) = Under(raw, i - 1)
         /\ Upto(raw, i, Len(raw.infoBlocks[i].elements)) = Under(raw, i)
         /\ \A j \in 1..Len(raw.infoBlocks[i].elements) :
              /\ j \notin WorthyIn(raw.infoBlocks[i]) => Upto(raw, i, j) = Upto(raw, i, j - 1)
              /\ j \in WorthyIn(raw.infoBlocks[i]) =>
                   Upto(raw, i, j) = Upto(raw, i, j - 1) \cup {<<i, j>>}
              /\ \A w \in Upto(raw, i, j - 1) : Before(w, <<i, j>>)
<1> DEFINE n == Len(raw.infoBlocks[i].elements)
           W == WorthyIn(raw.infoBlocks[i])
<1>1. i \in Nat /\ n \in Nat
  BY DEF AreBlocks, IsList
<1>2. ASSUME NEW w \in Worthy(raw)
      PROVE  /\ w[1] \in Nat /\ w[2] \in Nat /\ w = <<w[1], w[2]>>
             /\ w[1] = i => (w[2] \in W /\ w[2] \in 1..n)
  BY <1>2, WorthyPlaces
<1>3. \A j \in W : <<i, j>> \in Worthy(raw)
  BY DEF Worthy
<1> HIDE DEF n, W
<1>4. Upto(raw, i, 0) = Under(raw, i - 1)
  <2>1. \A w \in Worthy(raw) : (w[1] < i \/ (w[1] = i /\ w[2] <= 0)) <=> w[1] <= i - 1
    BY <1>1, <1>2
  <2> QED BY <2>1 DEF Upto, Under
<1>5. Upto(raw, i, n) = Under(raw, i)
  <2>1. \A w \in Worthy(raw) : (w[1] < i \/ (w[1] = i /\ w[2] <= n)) <=> w[1] <= i
    BY <1>1, <1>2
  <2> QED BY <2>1 DEF Upto, Under
<1>6. ASSUME NEW j \in 1..n
      PROVE  /\ j \notin W => Upto(raw, i, j) = Upto(raw, i, j - 1)
             /\ j \in W => Upto(raw, i, j) = Upto(raw, i, j - 1) \cup {<<i, j>>}
             /\ \A w \in Upto(raw, i, j - 1) : Before(w, <<i, j>>)
  <2>1. Upto(raw, i, j - 1) \subseteq Upto(raw, i, j)
    BY <1>1, <1>2 DEF Upto
  <2>2. ASSUME NEW w \in Upto(raw, i, j), w \notin Upto(raw, i, j - 1)
        PROVE  w = <<i, j>> /\ j \in W
    <3>1. w \in Worthy(raw)
      BY DEF Upto
    <3>2. w[1] = i /\ w[2] = j
      BY <1>1, <1>2, <2>2, <3>1 DEF Upto
    <3> QED BY <1>2, <3>1, <3>2
  <2>3. j \in W => <<i, j>> \in Upto(raw, i, j)
    BY <1>1, <1>3 DEF Upto
  <2>4. \A w \in Upto(raw, i, j - 1) : Before(w, <<i, j>>)
    BY <1>1, <1>2 DEF Upto, Before
  <2> QED BY <2>1, <2>2, <2>3, <2>4
<1> QED BY <1>4, <1>5, <1>6 DEF n, W

\* One element: an attribute for its place, if it is worth one.
LEMMA ElementNumbered ==
  ASSUME NEW raw, AreBlocks(raw.infoBlocks), NEW i \in DOMAIN raw.infoBlocks,
         raw.infoBlocks[i].type = "list", NEW j \in 1..Len(raw.infoBlocks[i].elements),
         NEW attributes, Numbered(raw, attributes, Upto(raw, i, j - 1))
  PROVE  Numbered(raw, WithListElement(attributes, raw.infoBlocks[i].elements[j]), Upto(raw, i, j))
<1> DEFINE element == raw.infoBlocks[i].elements[j]
           P == Upto(raw, i, j - 1)
           p == <<i, j>>
<1>1. /\ j \notin WorthyIn(raw.infoBlocks[i]) => Upto(raw, i, j) = P
      /\ j \in WorthyIn(raw.infoBlocks[i]) => Upto(raw, i, j) = P \cup {p}
      /\ \A w \in P : Before(w, p)
  BY UptoStep
<1>2. KeyAt(raw, p) = element.key
  BY DEF KeyAt
<1>3. j \in WorthyIn(raw.infoBlocks[i]) <=>
        element.type \in {"key-value", "numeric"} /\ Given(element.key, element.value)
  <2>1. DOMAIN raw.infoBlocks[i].elements = 1..Len(raw.infoBlocks[i].elements)
    BY DEF AreBlocks, IsList
  <2> QED BY <2>1 DEF WorthyIn
<1> HIDE DEF element, P, p
<1>4. CASE ~(element.type \in {"key-value", "numeric"} /\ Given(element.key, element.value))
  <2>1. WithListElement(attributes, element) = attributes
    BY <1>4 DEF WithListElement, Given
  <2> QED BY <1>1, <1>3, <1>4, <2>1 DEF element, P
<1>5. CASE element.type \in {"key-value", "numeric"} /\ Given(element.key, element.value)
  <2>1. PICK row : /\ WithListElement(attributes, element) = Append(attributes, row)
                   /\ row.sort_order = Len(attributes) /\ row.key = element.key
                   /\ row.value_text # Absent \/ row.value_numeric # Absent
    <3>1. CASE element.type = "key-value"
      <4> DEFINE row == Attribute(element.key, element.label, element.value, Absent, Absent,
                                  Len(attributes))
      <4>1. WithListElement(attributes, element) = Append(attributes, row)
        BY <1>5, <3>1 DEF WithListElement, Given
      <4>2. /\ row.sort_order = Len(attributes) /\ row.key = element.key
            /\ row.value_text = element.value /\ element.value # Absent
        BY <1>5 DEF Attribute, Given
      <4> HIDE DEF row
      <4> QED BY <4>1, <4>2
    <3>2. CASE element.type = "numeric"
      <4> DEFINE row == Attribute(element.key, element.label, Absent, element.value,
                                  element.unit, Len(attributes))
      <4>1. WithListElement(attributes, element) = Append(attributes, row)
        BY <1>5, <3>2 DEF WithListElement, Given
      <4>2. /\ row.sort_order = Len(attributes) /\ row.key = element.key
            /\ row.value_numeric = element.value /\ element.value # Absent
        BY <1>5 DEF Attribute, Given
      <4> HIDE DEF row
      <4> QED BY <4>1, <4>2
    <3> QED BY <1>5, <3>1, <3>2
  <2>2. row.key \notin Blank /\ row.key = KeyAt(raw, p)
    BY <1>2, <1>5, <2>1 DEF Given, IsNonempty
  <2>3. Numbered(raw, Append(attributes, row), P \cup {p})
    BY <1>1, <2>1, <2>2, AppendNumbered DEF P
  <2> QED BY <1>1, <1>3, <1>5, <2>1, <2>3 DEF element
<1> QED BY <1>4, <1>5

LEMMA ListNumbered ==
  ASSUME NEW raw, AreBlocks(raw.infoBlocks), NEW i \in DOMAIN raw.infoBlocks,
         raw.infoBlocks[i].type = "list",
         NEW attributes, Numbered(raw, attributes, Under(raw, i - 1))
  PROVE  Numbered(raw, WithList(attributes, raw.infoBlocks[i].elements), Under(raw, i))
<1> DEFINE elements == raw.infoBlocks[i].elements
           after == AfterElements(attributes, elements)
           Good == {j \in Nat : Numbered(raw, after[j], Upto(raw, i, j))}
<1>1. IsList(elements) /\ Len(elements) \in Nat
  BY DEF AreBlocks, IsList
<1>2. /\ after[0] = attributes
      /\ \A j \in 1..Len(elements) : after[j] = WithListElement(after[j - 1], elements[j])
  BY <1>1, AfterElementsDef
<1>3. /\ Upto(raw, i, 0) = Under(raw, i - 1)
      /\ Upto(raw, i, Len(elements)) = Under(raw, i)
  BY UptoStep
<1> HIDE DEF after
<1>4. 0 \in Good
  BY <1>2, <1>3
<1>5. ASSUME NEW j \in 0..Len(elements) - 1, j \in Good PROVE j + 1 \in Good
  <2>1. j + 1 \in 1..Len(elements) /\ (j + 1) - 1 = j /\ j + 1 \in Nat
    BY <1>1
  <2>2. Numbered(raw, after[j], Upto(raw, i, (j + 1) - 1))
    BY <1>5, <2>1
  <2>3. Numbered(raw, WithListElement(after[j], elements[j + 1]), Upto(raw, i, j + 1))
    BY <2>1, <2>2, ElementNumbered
  <2>4. after[j + 1] = WithListElement(after[j], elements[j + 1])
    BY <1>2, <2>1
  <2> QED BY <2>1, <2>3, <2>4
<1>6. Len(elements) \in Good
  <2> HIDE DEF Good
  <2>1. 0..Len(elements) \subseteq Good
    BY <1>1, <1>4, <1>5, Induction
  <2> QED BY <1>1, <2>1
<1> QED BY <1>3, <1>6 DEF WithList, after

\* What has been parsed of an item after i blocks.
ParsedUpTo(raw, parsed, i) ==
    /\ parsed = [description |-> parsed.description, attributes |-> parsed.attributes]
    /\ Numbered(raw, parsed.attributes, Under(raw, i))

LEMMA BlockNumbered ==
  ASSUME NEW raw, AreBlocks(raw.infoBlocks), NEW i \in DOMAIN raw.infoBlocks,
         NEW parsed, ParsedUpTo(raw, parsed, i - 1)
  PROVE  ParsedUpTo(raw, WithBlock(parsed, raw.infoBlocks[i]), i)
<1> DEFINE block == raw.infoBlocks[i]
<1>1. /\ parsed = [description |-> parsed.description, attributes |-> parsed.attributes]
      /\ Numbered(raw, parsed.attributes, Under(raw, i - 1))
  BY DEF ParsedUpTo
<1>2. CASE block.type = "list"
  <2> DEFINE longer == WithList(parsed.attributes, block.elements)
  <2>1. Numbered(raw, longer, Under(raw, i))
    BY <1>1, <1>2, ListNumbered
  <2>2. WithBlock(parsed, block) = [parsed EXCEPT !.attributes = longer]
    BY <1>2 DEF WithBlock
  <2> HIDE DEF longer
  <2>3. WithBlock(parsed, block) = [description |-> parsed.description, attributes |-> longer]
    BY <1>1, <2>2
  <2> QED BY <2>1, <2>3 DEF ParsedUpTo
<1>3. CASE block.type # "list"
  <2>1. /\ WorthyIn(block) = {} => Under(raw, i) = Under(raw, i - 1)
        /\ WorthyIn(block) # {} => Under(raw, i) = Under(raw, i - 1) \cup {<<i, 0>>}
        /\ \A w \in Under(raw, i - 1) : Before(w, <<i, 0>>)
    BY <1>3, UnderStep
  <2>2. WorthyIn(block) # {} <=>
          block.type = "text" /\ Given(block.key, block.text) /\ ~IsDescription(block)
    BY <1>3 DEF WorthyIn
  <2>3. KeyAt(raw, <<i, 0>>) = block.key
    BY <1>3 DEF KeyAt
  <2> HIDE DEF block
  <2>4. CASE WorthyIn(block) # {}
    <3> DEFINE row == Attribute(block.key, block.label, block.text, Absent, Absent,
                                Len(parsed.attributes))
    <3>1. WithBlock(parsed, block) = [parsed EXCEPT !.attributes = Append(parsed.attributes, row)]
      BY <2>2, <2>4 DEF WithBlock, WithTextBlock, Given
    <3>2. /\ row.sort_order = Len(parsed.attributes) /\ row.key = KeyAt(raw, <<i, 0>>)
          /\ row.key \notin Blank /\ row.value_text # Absent
      BY <2>2, <2>3, <2>4 DEF Attribute, Given, IsNonempty
    <3> HIDE DEF row
    <3>3. Numbered(raw, Append(parsed.attributes, row), Under(raw, i))
      BY <1>1, <2>1, <2>4, <3>2, AppendNumbered
    <3>4. WithBlock(parsed, block) =
            [description |-> parsed.description, attributes |-> Append(parsed.attributes, row)]
      BY <1>1, <3>1
    <3> QED BY <3>3, <3>4 DEF ParsedUpTo, block
  <2>5. CASE WorthyIn(block) = {}
    <3>1. PICK text : WithBlock(parsed, block) =
            [description |-> text, attributes |-> parsed.attributes]
      <4>1. CASE block.type = "text" /\ IsDescription(block)
        <5>1. WithBlock(parsed, block) = [parsed EXCEPT !.description = block.text]
          BY <4>1 DEF WithBlock
        <5> QED BY <1>1, <5>1
      <4>2. CASE block.type = "text" /\ ~IsDescription(block)
        <5>1. WithTextBlock(parsed.attributes, block) = parsed.attributes
          BY <2>2, <2>5, <4>2 DEF WithTextBlock, Given
        <5>2. WithBlock(parsed, block) = [parsed EXCEPT !.attributes = parsed.attributes]
          BY <4>2, <5>1 DEF WithBlock
        <5> QED BY <1>1, <5>2
      <4>3. CASE block.type # "text"
        <5>1. WithBlock(parsed, block) = parsed
          BY <1>3, <4>3 DEF WithBlock, block
        <5> QED BY <1>1, <5>1
      <4> QED BY <4>1, <4>2, <4>3
    <3> QED BY <1>1, <2>1, <2>5, <3>1 DEF ParsedUpTo, block
  <2> QED BY <2>4, <2>5
<1> QED BY <1>2, <1>3

\* The attributes of any document that is accepted are those of its worthy places.
LEMMA ItemNumbered ==
  ASSUME NEW raw, AreBlocks(raw.infoBlocks), parse_item(raw).ok
  PROVE  /\ Numbered(raw, parse_item(raw).attributes, Worthy(raw))
         /\ parse_item(raw).id = raw.id /\ parse_item(raw).category = raw.category
         /\ parse_item(raw).name = raw.name
         /\ {raw.id, raw.category, raw.name} \cap Blank = {}
<1> DEFINE blocks == raw.infoBlocks
           after == AfterBlocks(blocks)
           Good == {i \in Nat : ParsedUpTo(raw, after[i], i)}
<1>1. IsList(blocks) /\ Len(blocks) \in Nat /\ DOMAIN blocks = 1..Len(blocks)
  BY DEF AreBlocks, IsList
<1>2. after[0] = Start /\ \A i \in 1..Len(blocks) : after[i] = WithBlock(after[i - 1], blocks[i])
  BY <1>1, AfterBlocksDef
<1>3. \A w \in Worthy(raw) : w[1] \in Nat /\ w[1] \in 1..Len(blocks)
  BY <1>1, WorthyPlaces
<1>4. Under(raw, 0) = {} /\ Under(raw, Len(blocks)) = Worthy(raw)
  BY <1>1, <1>3 DEF Under
<1> HIDE DEF after
<1>5. 0 \in Good
  <2> DEFINE empty == <<>>
  <2>1. after[0] = [description |-> Absent, attributes |-> empty]
    BY <1>2 DEF Start
  <2>2. empty = <<>>
    OBVIOUS
  <2> HIDE DEF empty
  <2>3. Numbered(raw, empty, {})
    BY <2>2, EmptyNumbered
  <2>4. Numbered(raw, empty, Under(raw, 0))
    BY <1>4, <2>3, Zenon
  <2>5. after[0].description = Absent /\ after[0].attributes = empty
    BY <2>1
  <2>6. ParsedUpTo(raw, after[0], 0)
    BY <2>1, <2>4, <2>5, Zenon DEF ParsedUpTo
  <2> QED BY <2>6
<1>6. ASSUME NEW i \in 0..Len(blocks) - 1, i \in Good PROVE i + 1 \in Good
  <2>1. i + 1 \in 1..Len(blocks) /\ (i + 1) - 1 = i /\ i + 1 \in Nat
    BY <1>1
  <2>2. ParsedUpTo(raw, after[i], (i + 1) - 1)
    BY <1>6, <2>1
  <2>3. ParsedUpTo(raw, WithBlock(after[i], blocks[i + 1]), i + 1)
    BY <1>1, <2>1, <2>2, BlockNumbered
  <2>4. after[i + 1] = WithBlock(after[i], blocks[i + 1])
    BY <1>2, <2>1
  <2> QED BY <2>1, <2>3, <2>4
<1>7. Len(blocks) \in Good
  <2> HIDE DEF Good
  <2>1. 0..Len(blocks) \subseteq Good
    BY <1>1, <1>5, <1>6, Induction
  <2> QED BY <1>1, <2>1
<1>8. /\ IsNonempty(raw.id) /\ IsNonempty(raw.category) /\ IsNonempty(raw.name)
      /\ parse_item(raw) =
           [ok |-> TRUE, id |-> raw.id, category |-> raw.category, name |-> raw.name,
            description |-> after[Len(blocks)].description, color |-> raw.color,
            state |-> raw.state, attributes |-> after[Len(blocks)].attributes]
  BY DEF parse_item, Refused, after
<1> QED BY <1>4, <1>7, <1>8 DEF ParsedUpTo, IsNonempty

--------------------------------------------------------------------------------
(* The constraints of the tables *)

\* The rows of an item that is accepted pass every constraint of their tables.
LEMMA ItemsPassConstraints ==
  ASSUME NEW raw, AreBlocks(raw.infoBlocks)
  PROVE  RefusalOfItem(raw) # "IntegrityError"
<1> DEFINE item == parse_item(raw)
<1>1. ASSUME item.ok PROVE ItemKeepsConstraints(item)
  <2>1. /\ Numbered(raw, item.attributes, Worthy(raw))
        /\ {item.id, item.category, item.name} \cap Blank = {}
    BY <1>1, ItemNumbered
  <2> HIDE DEF item
  <2>2. /\ DOMAIN item.attributes = 1..Len(item.attributes)
        /\ \A k \in 1..Len(item.attributes) :
             LET row == item.attributes[k]
             IN /\ row.key \notin Blank /\ row.sort_order = k - 1
                /\ row.value_text # Absent \/ row.value_numeric # Absent
    BY <2>1 DEF Numbered, IsList
  <2> QED BY <2>1, <2>2 DEF ItemKeepsConstraints
<1> HIDE DEF item
<1>2. ~(item.ok /\ ItemHasRoom(item) /\ ~ItemKeepsConstraints(item))
  BY <1>1
<1> QED BY <1>2 DEF RefusalOfItem, item

\* So do the components of a recipe, of both lists,
LEMMA ComponentsPassConstraints ==
  ASSUME NEW result \in Seq(Component), NEW ingredients \in Seq(Component),
         AreComponents(result), AreComponents(ingredients),
         NEW j \in DOMAIN (_parse_components(result, "result")
                           \o _parse_components(ingredients, "ingredient"))
  PROVE  LET component == (_parse_components(result, "result")
                           \o _parse_components(ingredients, "ingredient"))[j]
         IN component.item_id \notin Blank /\ component.amount > 0 /\ component.sort_order >= 0
<1> DEFINE r == _parse_components(result, "result")
           s == _parse_components(ingredients, "ingredient")
           Part == UNION {{r[i] : i \in DOMAIN r}, {s[i] : i \in DOMAIN s}}
           Fine(component) == /\ component.item_id \notin Blank
                              /\ component.amount > 0 /\ component.sort_order >= 0
<1>1. r \in Seq(Part) /\ s \in Seq(Part)
  <2>1. r \in Seq(Part) /\ Len(r) = Len(result)
    BY DEF _parse_components
  <2>2. s \in Seq(Part) /\ Len(s) = Len(ingredients)
    BY DEF _parse_components
  <2> QED BY <2>1, <2>2
<1>2. /\ \A i \in 1..Len(r) : Fine(r[i])
      /\ \A i \in 1..Len(s) : Fine(s[i])
  <2>1. ASSUME NEW raw \in Seq(Component), AreComponents(raw), NEW type, NEW i \in DOMAIN raw
        PROVE  Fine(_parse_components(raw, type)[i])
    <3>1. IsNonempty(raw[i].item) /\ raw[i].amount \in Nat \ {0} /\ i \in Nat /\ i > 0
      BY <2>1 DEF AreComponents
    <3> QED BY <3>1 DEF _parse_components, IsNonempty
  <2> HIDE DEF Fine
  <2>2. 1..Len(r) = DOMAIN result /\ 1..Len(s) = DOMAIN ingredients
    BY DEF _parse_components
  <2> QED BY <2>1, <2>2
<1> HIDE DEF r, s, Part, Fine
<1>3. /\ Len(r) \in Nat /\ Len(s) \in Nat
      /\ DOMAIN (r \o s) = 1..Len(r) + Len(s)
      /\ \A i \in 1..Len(r) + Len(s) :
           (r \o s)[i] = IF i <= Len(r) THEN r[i] ELSE s[i - Len(r)]
  BY <1>1, ConcatProperties
<1>4. j \in 1..Len(r) + Len(s)
  BY <1>3 DEF r, s
<1>5. Fine((r \o s)[j])
  <2>1. CASE j <= Len(r)
    BY <1>2, <1>3, <1>4, <2>1
  <2>2. CASE ~(j <= Len(r))
    <3>1. j - Len(r) \in 1..Len(s)
      BY <1>3, <1>4, <2>2
    <3> QED BY <1>2, <1>3, <1>4, <2>2, <3>1
  <2> QED BY <2>1, <2>2
<1> QED BY <1>5 DEF Fine, r, s

\* and with them the recipes.
LEMMA RecipesPassConstraints ==
  ASSUME NEW b \in RecipeBlob
  PROVE  RefusalOfRecipes(RecipeDocument[b]) # "IntegrityError"
<1> DEFINE raw == RecipeDocument[b]
<1> SUFFICES ASSUME RefusalOfRecipes(raw) # "HideoutRecipeParseError"
             PROVE  RefusalOfRecipes(raw) # "IntegrityError"
  OBVIOUS
<1>1. /\ raw.recipes # Absent /\ ArePerks(raw.perks)
      /\ \A i \in DOMAIN raw.recipes : IsRecipe(raw.recipes[i])
      /\ parse_hideout_recipes(raw) =
           [ok |-> TRUE, perks |-> raw.perks,
            recipes |-> [i \in DOMAIN raw.recipes |-> _parse_recipe(raw.recipes[i], i - 1)]]
  BY Accepted
<1>2. /\ IsList(raw.recipes)
      /\ \A i \in DOMAIN raw.recipes :
           /\ raw.recipes[i].result \in Seq(Component) \cup {Absent}
           /\ raw.recipes[i].ingredients \in Seq(Component) \cup {Absent}
  BY <1>1, ListAssumption
<1> HIDE DEF raw
<1> DEFINE parsed == parse_hideout_recipes(raw)
<1>3. \A i \in DOMAIN raw.recipes : i \in Nat /\ i > 0
  BY <1>2 DEF IsList
<1>4. \A i \in DOMAIN parsed.perks :
         /\ {parsed.perks[i].id, parsed.perks[i].name} \cap Blank = {}
         /\ \A j \in DOMAIN parsed.perks : i # j => parsed.perks[i].id # parsed.perks[j].id
  BY <1>1 DEF ArePerks, IsPerk, IsNonempty
<1>5. /\ DOMAIN parsed.recipes = DOMAIN raw.recipes
      /\ \A i \in DOMAIN raw.recipes : parsed.recipes[i] = _parse_recipe(raw.recipes[i], i - 1)
  BY <1>1
<1> HIDE DEF parsed
<1>6. ASSUME NEW i \in DOMAIN raw.recipes
      PROVE  LET row == parsed.recipes[i]
             IN /\ {row.bench, row.category.key, row.category.text} \cap Blank = {}
                /\ row.source_index = i - 1 /\ row.energy >= 0
                /\ \A j \in DOMAIN row.components :
                     LET component == row.components[j]
                     IN /\ component.item_id \notin Blank
                        /\ component.amount > 0 /\ component.sort_order >= 0
  <2> DEFINE recipe == raw.recipes[i]
             row == _parse_recipe(recipe, i - 1)
  <2>1. IsRecipe(recipe)
    BY <1>1
  <2>2. /\ recipe.result \in Seq(Component) /\ recipe.ingredients \in Seq(Component)
        /\ AreComponents(recipe.result) /\ AreComponents(recipe.ingredients)
    BY <1>2, <2>1 DEF IsRecipe, AreComponents
  <2> HIDE DEF recipe
  <2>3. /\ {row.bench, row.category.key, row.category.text} \cap Blank = {}
        /\ row.source_index = i - 1 /\ row.energy >= 0
    BY <2>1 DEF _parse_recipe, IsRecipe, IsTranslation, IsNonempty
  <2>4. row.components = _parse_components(recipe.result, "result")
                         \o _parse_components(recipe.ingredients, "ingredient")
    BY DEF _parse_recipe
  <2> HIDE DEF row
  <2>5. \A j \in DOMAIN row.components :
          /\ row.components[j].item_id \notin Blank
          /\ row.components[j].amount > 0 /\ row.components[j].sort_order >= 0
    BY <2>2, <2>4, ComponentsPassConstraints
  <2>6. parsed.recipes[i] = row
    BY <1>5 DEF row, recipe
  <2> QED BY <2>3, <2>5, <2>6
<1>7. ASSUME NEW i \in DOMAIN raw.recipes, NEW j \in DOMAIN raw.recipes, i # j
      PROVE  parsed.recipes[j].source_index # parsed.recipes[i].source_index
  BY <1>3, <1>6, <1>7
<1>8. \A i \in DOMAIN raw.recipes : parsed.recipes[i].source_index >= 0
  BY <1>3, <1>6
<1>9. RecipesKeepConstraints(parsed)
  BY <1>4, <1>5, <1>6, <1>7, <1>8 DEF RecipesKeepConstraints
<1> QED BY <1>9 DEF RefusalOfRecipes, parsed

\* Only rows that are in the way of one another ever fail against a constraint: whatever
\* was pushed, no document that the parsers accept does (item_parser.py:36-40,
\* hideout_recipe_parser.py:55-63).
THEOREM OnlyRotationFails == Spec => OnlyRotationBreaksConstraints
<1>1. ASSUME IInv, [Next]_vars, error # "IntegrityError", error' = "IntegrityError"
      PROVE  PrimaryKeyClash
  <2>1. CASE FlushItemsFails
    <3>1. ASSUME NEW p \in ToDownload, AllDownloaded
          PROVE  downloaded[p] \in Blob
      BY <1>1, <3>1 DEF IInv, TypeOK, AllDownloaded, ToDownload, Listed
    <3>2. \A b \in Blob : ItemRefusal[b] # "IntegrityError"
      BY DocumentAssumption, BlocksAssumption, ItemsPassConstraints
    <3> QED BY <1>1, <2>1, <3>1, <3>2 DEF FlushItemsFails, Raise
  <2>2. CASE RefuseRecipes
    <3>1. RecipeFile[target] \in RecipeBlob
      BY <1>1, <2>2, TreeAssumption DEF IInv, RunInv, InRun, RefuseRecipes
    <3>2. RecipeRefusal[RecipeFile[target]] # "IntegrityError"
      BY <3>1, DocumentAssumption, RecipesPassConstraints
    <3> QED BY <1>1, <2>2, <3>2 DEF RefuseRecipes, Raise
  <2>3. CASE ~FlushItemsFails /\ ~RefuseRecipes
    BY <1>1, <2>3 DEF Next, Runner, vars, StartRun, GetLatestCommit, GetTree, SkipItems,
                CompareItems, DownloadItem, RefuseItems, ApplyItems, SkipRecipes,
                CompareRecipes, ApplyRecipes, SaveSuccess, SaveError, RequestFails, RunDies, Push,
                Raise, Finish
  <2> QED BY <2>1, <2>2, <2>3
<1>2. IInv /\ [Next]_vars => [error # "IntegrityError" /\ error' = "IntegrityError" => PrimaryKeyClash]_vars
  BY <1>1
<1> QED BY <1>2, Invariance, PTL DEF Spec, OnlyRotationBreaksConstraints

--------------------------------------------------------------------------------
(* The order of the attributes *)

\* A sequence without repetitions enumerates a set of its length.
LEMMA CountedOff ==
  ASSUME NEW S, NEW n \in Nat, NEW f \in [1..n -> S], \A w \in S : \E k \in 1..n : f[k] = w,
         \A k, l \in 1..n : f[k] = f[l] => k = l
  PROVE  Cardinality(S) = n
<1>1. f \in Surjection(1..n, S) /\ f \in Injection(1..n, S)
  BY DEF Surjection, Injection, IsInjective
<1>2. ExistsBijection(1..n, S)
  BY <1>1 DEF ExistsBijection, Bijection
<1> QED BY <1>2, FS_CountingElements

\* Attributes that are numbered say what their document says, in its order.
LEMMA NumberedInOrder ==
  ASSUME NEW raw, AreBlocks(raw.infoBlocks), NEW attributes,
         Numbered(raw, attributes, Worthy(raw))
  PROVE  LET rows == ToSet(attributes)
             Rank(place) == Cardinality({other \in Worthy(raw) : Before(other, place)})
         IN /\ Cardinality(rows) = Cardinality(Worthy(raw))
            /\ \A place \in Worthy(raw) :
                 {row.key : row \in {r \in rows : r.sort_order = Rank(place)}} = {KeyAt(raw, place)}
<1> DEFINE n == Len(attributes)
           P == Worthy(raw)
           rows == ToSet(attributes)
<1>1. n \in Nat /\ rows = {attributes[k] : k \in 1..n}
  <2>1. n \in Nat /\ DOMAIN attributes = 1..n
    BY DEF Numbered, IsList
  <2> QED BY <2>1 DEF ToSet
<1>2. PICK place \in [1..n -> P] :
         /\ \A w \in P : \E k \in 1..n : place[k] = w
         /\ \A k, l \in 1..n : k < l => Before(place[k], place[l])
         /\ \A k \in 1..n :
              attributes[k].sort_order = k - 1 /\ attributes[k].key = KeyAt(raw, place[k])
  BY DEF Numbered
<1>3. \A w \in P : w[1] \in Nat /\ w[2] \in Nat
  BY WorthyPlaces
<1> HIDE DEF n, P, rows
<1>4. \A v, w \in P : Before(v, w) => ~Before(w, v) /\ v # w
  BY <1>3 DEF Before
<1>5. ASSUME NEW k \in 1..n, NEW l \in 1..n
      PROVE  /\ Before(place[l], place[k]) <=> l < k
             /\ place[k] = place[l] => k = l
  <2>1. k \in Nat /\ l \in Nat /\ (k < l \/ l < k \/ k = l)
    BY <1>1
  <2>2. place[k] \in P /\ place[l] \in P
    BY <1>2
  <2>3. /\ k < l => Before(place[k], place[l])
        /\ l < k => Before(place[l], place[k])
    BY <1>2
  <2> QED BY <1>4, <2>1, <2>2, <2>3
<1>6. Cardinality(P) = n
  <2>1. n \in Nat /\ \A k, l \in 1..n : place[k] = place[l] => k = l
    BY <1>1, <1>5
  <2> QED BY <1>2, <2>1, CountedOff
<1>7. Cardinality(rows) = n
  <2> DEFINE f == [k \in 1..n |-> attributes[k]]
  <2>1. f \in [1..n -> rows] /\ \A w \in rows : \E k \in 1..n : f[k] = w
    BY <1>1
  <2>2. ASSUME NEW k \in 1..n, NEW l \in 1..n, f[k] = f[l] PROVE k = l
    <3>1. k - 1 = l - 1
      BY <1>2, <2>2
    <3> QED BY <1>1, <3>1
  <2>3. n \in Nat /\ \A k, l \in 1..n : f[k] = f[l] => k = l
    BY <1>1, <2>2
  <2> HIDE DEF f
  <2> QED BY <2>1, <2>3, CountedOff
<1>8. ASSUME NEW k \in 1..n
      PROVE  Cardinality({other \in P : Before(other, place[k])}) = k - 1
  <2> DEFINE S == {other \in P : Before(other, place[k])}
             f == [l \in 1..k - 1 |-> place[l]]
  <2>1. k - 1 \in Nat /\ 1..k - 1 \subseteq 1..n /\ \A l \in 1..n : l < k <=> l \in 1..k - 1
    BY <1>1
  <2>2. f \in [1..k - 1 -> S]
    BY <1>2, <1>5, <2>1
  <2>3. \A w \in S : \E l \in 1..k - 1 : f[l] = w
    BY <1>2, <1>5, <2>1
  <2>4. \A i, l \in 1..k - 1 : f[i] = f[l] => i = l
    BY <1>5, <2>1
  <2> HIDE DEF f, S
  <2>5. Cardinality(S) = k - 1
    BY <2>1, <2>2, <2>3, <2>4, CountedOff
  <2> QED BY <2>5 DEF S
<1>9. ASSUME NEW w \in P
      PROVE  {row.key : row \in {r \in rows :
                                   r.sort_order = Cardinality({other \in P : Before(other, w)})}}
             = {KeyAt(raw, w)}
  <2>1. PICK k \in 1..n : place[k] = w
    BY <1>2
  <2>2. Cardinality({other \in P : Before(other, w)}) = k - 1
    BY <1>8, <2>1
  <2>3. {r \in rows : r.sort_order = k - 1} = {attributes[k]}
    <3>1. \A l \in 1..n : l - 1 = k - 1 => l = k
      BY <1>1
    <3> QED BY <1>1, <1>2, <3>1
  <2>4. attributes[k].key = KeyAt(raw, w)
    BY <1>2, <2>1
  <2>5. {row.key : row \in {attributes[k]}} = {KeyAt(raw, w)}
    BY <2>4
  <2> QED BY <2>2, <2>3, <2>5
<1> QED BY <1>6, <1>7, <1>9 DEF P, rows

\* What is stored was accepted, parsed and found to fit its columns.
ItemsWereAccepted ==
    \A p \in Path : items[p] # None => items[p].content \in Blob /\ ItemRefusal[items[p].content] = "none"

LEMMA ItemsWereAcceptedStep ==
  ASSUME IInv, ItemsWereAccepted, [Next]_vars
  PROVE  ItemsWereAccepted'
<1>1. CASE ApplyItems
  <2> SUFFICES ASSUME NEW p \in Path, AppliedRow(p) # None
               PROVE  /\ AppliedRow(p).content \in Blob
                      /\ ItemRefusal[AppliedRow(p).content] = "none"
    BY <1>1 DEF ItemsWereAccepted, ApplyItems
  <2>1. CASE p \in ToDownload
    <3>1. AppliedRow(p).content = downloaded[p] /\ ItemRefusal[downloaded[p]] = "none"
      BY <1>1, <2>1 DEF AppliedRow, ToDownload, ApplyItems, Storable
    <3>2. downloaded[p] \in Blob
      BY <1>1, <2>1 DEF IInv, TypeOK, ApplyItems, AllDownloaded
    <3> QED BY <3>1, <3>2
  <2>2. CASE p \notin ToDownload
    BY <2>2 DEF AppliedRow, ItemsWereAccepted
  <2> QED BY <2>1, <2>2
<1>2. CASE ~ApplyItems
  <2>1. items' = items
    BY <1>2 DEF Next, Runner, vars, itemVars, StartRun, GetLatestCommit, GetTree, SkipItems,
                CompareItems, DownloadItem, RefuseItems, FlushItemsFails, SkipRecipes,
                CompareRecipes, RefuseRecipes, ApplyRecipes, SaveSuccess, SaveError, RequestFails,
                RunDies, Push, Raise
  <2> QED BY <2>1 DEF ItemsWereAccepted
<1> QED BY <1>1, <1>2

\* Whatever was pushed and whatever failed, every stored item has the attributes of its
\* document, all of them, once each and in the order of its blocks (item_parser.py:42-62).
THEOREM SourceOrderKept == Spec => []AttributesKeepSourceOrder
<1>1. Init => ItemsWereAccepted
  BY DEF Init, ItemsWereAccepted, Nothing
<1>2. ItemsWereAccepted => AttributesKeepSourceOrder
  <2> SUFFICES ASSUME ItemsWereAccepted, NEW p \in Path, items[p] # None
               PROVE  LET raw == ItemDocument[items[p].content]
                          rows == ToSet(parse_item(raw).attributes)
                          Rank(place) == Cardinality({other \in Worthy(raw) : Before(other, place)})
                      IN /\ Cardinality(rows) = Cardinality(Worthy(raw))
                         /\ \A place \in Worthy(raw) :
                              {row.key : row \in {r \in rows : r.sort_order = Rank(place)}}
                                = {KeyAt(raw, place)}
    BY DEF AttributesKeepSourceOrder
  <2> DEFINE b == items[p].content
             raw == ItemDocument[b]
  <2>1. b \in Blob /\ RefusalOfItem(raw) = "none"
    BY DocumentAssumption DEF ItemsWereAccepted
  <2>2. AreBlocks(raw.infoBlocks)
    BY <2>1, BlocksAssumption
  <2> HIDE DEF raw
  <2>3. parse_item(raw).ok
    BY <2>1 DEF RefusalOfItem
  <2>4. Numbered(raw, parse_item(raw).attributes, Worthy(raw))
    BY <2>2, <2>3, ItemNumbered
  <2> QED BY <2>2, <2>4, NumberedInOrder DEF raw
<1> QED BY <1>1, <1>2, Invariance, ItemsWereAcceptedStep, PTL DEF Spec
================================================================================
