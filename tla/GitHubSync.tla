------------------------------ MODULE GitHubSync ------------------------------
(***************************************************************************)
(* The GitHub synchronisation: the scheduler calls GitHubSyncRunner.run,   *)
(* one run at a time, which stores its status, lets GitHubSyncService.sync *)
(* bring the database to the tree of the branch's latest commit, and       *)
(* stores the outcome.  Items and recipes are two transactions, each with  *)
(* a marker in sync_states that names what it has applied.                 *)
(*                                                                         *)
(* A tree of the repository gives every path the blob it holds, and a blob *)
(* stands for its content.  The items of a tree are the files below the    *)
(* items directory, in the order of the listing, which is that of Path.    *)
(* Every await of a run is a step, so that pushes and failures fall        *)
(* between any two of them; the transactions of the run have no other      *)
(* writer and are one step each.                                           *)
(***************************************************************************)
EXTENDS Integers, FiniteSets

CONSTANTS
    Path,           \* paths of item files, numbered in the order of the listing
    Blob,           \* contents of item files
    Id,             \* item identifiers
    IdOf,           \* [Blob -> Id]    what parse_item finds
    ItemRefusal,    \* [Blob -> Refusal]   the exception it is refused with, or "none"
    Tree,           \* trees of the repository
    Files,          \* [Tree -> [Path -> Blob or None]]
    RecipeBlob,     \* contents of the recipe file
    RecipeRefusal,  \* [RecipeBlob -> Refusal]
    RecipeFile,     \* [Tree -> RecipeBlob or None]
    MaxFaults,      \* bound: failures of the network, the database or the process
    None            \* no file, no row, no marker

\* A parser refuses a source, the database a value too long or against a constraint.
Refusal == {"none", "ItemParseError", "HideoutRecipeParseError", "DataError", "IntegrityError"}

ASSUME PathAssumption == Path \subseteq Nat
ASSUME BlobAssumption ==
    /\ IdOf \in [Blob -> Id]
    /\ ItemRefusal \in [Blob -> Refusal] /\ RecipeRefusal \in [RecipeBlob -> Refusal]
ASSUME TreeAssumption ==
    /\ Files \in [Tree -> [Path -> Blob \cup {None}]]
    /\ RecipeFile \in [Tree -> RecipeBlob \cup {None}]
ASSUME FaultsAssumption == MaxFaults \in Nat

\* A row of items: the blob named by source_sha and the blob it was parsed from.
Row == [sha : Blob, content : Blob]
ASSUME NoneAssumption ==
    None \notin Row /\ None \notin Blob /\ None \notin Tree /\ None \notin RecipeBlob

VARIABLES
    head,           \* the tree of the branch's latest commit
    items,          \* [Path -> Row or None]       items, by source_path
    itemsMarker,    \* sync_states: github_items_tree_sha
    recipes,        \* the content of hideout_recipes and its components
    recipesMarker,  \* sync_states: github_hideout_recipes_blob_sha
    status,         \* sync_states: github_sync_run_status
    pc,
    target,         \* the tree that the run applies
    downloaded,     \* [Path -> Blob or None]
    error,          \* the exception that has ended the run
    faults

itemVars == <<items, itemsMarker>>
recipeVars == <<recipes, recipesMarker>>
vars == <<head, itemVars, recipeVars, status, pc, target, downloaded, error, faults>>

Nothing == [p \in Path |-> None]

Init ==
    /\ head \in Tree
    /\ items = Nothing /\ itemsMarker = None
    /\ recipes = None /\ recipesMarker = None
    /\ status = "none" /\ pc = "idle" /\ target = None /\ downloaded = Nothing
    /\ error = "none" /\ faults = 0

\* The run is over, one way or another; its client and sessions are closed.
Finish == pc' = "idle" /\ target' = None /\ downloaded' = Nothing /\ error' = "none"

\* An exception leaves the transaction, which is rolled back.
Raise(exception) ==
    /\ pc' = "failed" /\ error' = exception /\ downloaded' = Nothing
    /\ UNCHANGED <<head, itemVars, recipeVars, status, target, faults>>

--------------------------------------------------------------------------------
(* GitHubSyncService.sync *)

\* The run takes the lock and stores that it is running.
StartRun ==
    /\ pc = "idle"
    /\ pc' = "commit" /\ status' = "running"
    /\ UNCHANGED <<head, itemVars, recipeVars, target, downloaded, error, faults>>

\* Mutation: the commit that was applied last is asked for.
GetKnownCommit ==
    /\ pc = "commit"
    /\ pc' = "tree" /\ target' = IF itemsMarker = None THEN head ELSE itemsMarker
    /\ UNCHANGED <<head, itemVars, recipeVars, status, downloaded, error, faults>>

GetLatestCommit ==
    /\ pc = "commit"
    /\ pc' = "tree" /\ target' = head
    /\ UNCHANGED <<head, itemVars, recipeVars, status, downloaded, error, faults>>

GetTree ==
    /\ pc = "tree"
    /\ \/ /\ RecipeFile[target] # None
          /\ pc' = "items"
          /\ UNCHANGED <<head, itemVars, recipeVars, status, target, downloaded, error, faults>>
       \/ RecipeFile[target] = None /\ Raise("GitHubSyncError")

SkipItems ==
    /\ pc = "items" /\ itemsMarker = target
    /\ pc' = "recipes"
    /\ UNCHANGED <<head, itemVars, recipeVars, status, target, downloaded, error, faults>>

CompareItems ==
    /\ pc = "items" /\ itemsMarker # target
    /\ pc' = "download"
    /\ UNCHANGED <<head, itemVars, recipeVars, status, target, downloaded, error, faults>>

Listed == {p \in Path : Files[target][p] # None}

\* entries_to_download: the paths without a row, and those whose blob has changed.
ToDownload == {p \in Listed : items[p] = None \/ items[p].sha # Files[target][p]}

\* Mutation: the file is downloaded from the branch.
SourceAtHead(p) == IF Files[head][p] = None THEN Files[target][p] ELSE Files[head][p]

\* download_raw names the commit: a push meanwhile does not matter.
Source(p) == Files[target][p]

DownloadItem ==
    /\ pc = "download"
    /\ \E p \in ToDownload :
        /\ downloaded[p] = None
        /\ \/ /\ ItemRefusal[Source(p)] # "ItemParseError"
              /\ downloaded' = [downloaded EXCEPT ![p] = Source(p)]
              /\ UNCHANGED <<head, itemVars, recipeVars, status, pc, target, error, faults>>
           \/ ItemRefusal[Source(p)] = "ItemParseError" /\ Raise("ItemParseError")

AllDownloaded == \A p \in ToDownload : downloaded[p] # None

\* ids_by_path: the identifiers once the transaction is committed.
NewId(p) == IF p \in ToDownload THEN IdOf[downloaded[p]] ELSE IdOf[items[p].content]

\* _validate_item_ids
DuplicateIds == \E p, q \in Listed : p # q /\ NewId(p) = NewId(q)

Reidentified ==
    {p \in ToDownload : items[p] # None /\ IdOf[items[p].content] # NewId(p)}
Inserted == {p \in ToDownload : items[p] = None} \cup Reidentified

\* The flush that deletes the old row of q also inserts the new rows that are pending,
\* while a later entry still has its old row under the identifier of one of them.
\* (Deletion and insertion of one identifier in one flush become an update.)
PrimaryKeyClash ==
    \E p \in Inserted, q, r \in Reidentified :
        p < q /\ q < r /\ IdOf[items[r].content] = NewId(p)

Storable == \A p \in ToDownload : ItemRefusal[downloaded[p]] = "none"

AppliedRow(p) ==
    IF p \notin Listed THEN None
    ELSE IF p \in ToDownload
    THEN [sha |-> Files[target][p], content |-> downloaded[p]]
    ELSE items[p]

RefuseItems ==
    /\ pc = "download" /\ AllDownloaded /\ DuplicateIds
    /\ Raise("GitHubSyncError")

FlushItemsFails ==
    /\ pc = "download" /\ AllDownloaded /\ ~DuplicateIds
    /\ \/ PrimaryKeyClash /\ Raise("IntegrityError")
       \/ \E p \in ToDownload :
            ItemRefusal[downloaded[p]] # "none" /\ Raise(ItemRefusal[downloaded[p]])

ApplyItems ==
    /\ pc = "download" /\ AllDownloaded /\ ~DuplicateIds /\ ~PrimaryKeyClash /\ Storable
    /\ items' = [p \in Path |-> AppliedRow(p)]
    /\ itemsMarker' = target
    /\ pc' = "recipes" /\ downloaded' = Nothing
    /\ UNCHANGED <<head, recipeVars, status, target, error, faults>>

\* Mutation: the marker of the items decides.
RecipesSeen == itemsMarker = target

RecipesApplied == recipesMarker = RecipeFile[target]

SkipRecipes ==
    /\ pc = "recipes" /\ RecipesApplied
    /\ pc' = "report"
    /\ UNCHANGED <<head, itemVars, recipeVars, status, target, downloaded, error, faults>>

CompareRecipes ==
    /\ pc = "recipes" /\ ~RecipesApplied
    /\ pc' = "recipe_file"
    /\ UNCHANGED <<head, itemVars, recipeVars, status, target, downloaded, error, faults>>

\* By the parser, or by the database when the rows are flushed.
RefuseRecipes ==
    /\ pc = "recipe_file" /\ RecipeRefusal[RecipeFile[target]] # "none"
    /\ Raise(RecipeRefusal[RecipeFile[target]])

\* Recipes and perks are deleted, the new ones inserted, the marker set.
ApplyRecipes ==
    /\ pc = "recipe_file" /\ RecipeRefusal[RecipeFile[target]] = "none"
    /\ recipes' = RecipeFile[target] /\ recipesMarker' = RecipeFile[target]
    /\ pc' = "report"
    /\ UNCHANGED <<head, itemVars, status, target, downloaded, error, faults>>

--------------------------------------------------------------------------------
(* GitHubSyncRunner.run *)

SaveSuccess ==
    /\ pc = "report"
    /\ status' = "success" /\ Finish
    /\ UNCHANGED <<head, itemVars, recipeVars, faults>>

\* Mutation: the outcome of a failed run is only logged.
LogError ==
    /\ pc = "failed" /\ Finish
    /\ UNCHANGED <<head, itemVars, recipeVars, status, faults>>

SaveError ==
    /\ pc = "failed"
    /\ status' = error /\ Finish
    /\ UNCHANGED <<head, itemVars, recipeVars, faults>>

\* The network or the database fails, in the service or while the success is stored.
RequestFails ==
    /\ faults < MaxFaults /\ pc \notin {"idle", "failed"}
    /\ pc' = "failed" /\ error' = "fault" /\ downloaded' = Nothing /\ faults' = faults + 1
    /\ UNCHANGED <<head, itemVars, recipeVars, status, target>>

\* The process dies or is stopped, or the error cannot be stored.
RunDies ==
    /\ faults < MaxFaults /\ pc # "idle"
    /\ Finish /\ faults' = faults + 1
    /\ UNCHANGED <<head, itemVars, recipeVars, status>>

Push ==
    /\ head' \in Tree \ {head}
    /\ UNCHANGED <<itemVars, recipeVars, status, pc, target, downloaded, error, faults>>

Runner ==
    \/ StartRun \/ GetLatestCommit \/ GetTree
    \/ SkipItems \/ CompareItems \/ DownloadItem \/ RefuseItems \/ FlushItemsFails \/ ApplyItems
    \/ SkipRecipes \/ CompareRecipes \/ RefuseRecipes \/ ApplyRecipes
    \/ SaveSuccess \/ SaveError

Next == Runner \/ RequestFails \/ RunDies \/ Push

Spec == Init /\ [][Next]_vars

\* run_sync_scheduler loops for ever, and every process that dies is started again.
FairSpec == Spec /\ WF_vars(Runner)

--------------------------------------------------------------------------------
(* Properties *)

Errors == Refusal \cup {"fault", "GitHubSyncError"}

\* Every variable has its type.
TypeOK ==
    /\ head \in Tree
    /\ items \in [Path -> Row \cup {None}] /\ itemsMarker \in Tree \cup {None}
    /\ recipes \in RecipeBlob \cup {None} /\ recipesMarker \in RecipeBlob \cup {None}
    /\ status \in Errors \cup {"running", "success"}
    /\ pc \in {"idle", "commit", "tree", "items", "download", "recipes", "recipe_file",
               "report", "failed"}
    /\ target \in Tree \cup {None}
    /\ downloaded \in [Path -> Blob \cup {None}]
    /\ error \in Errors /\ faults \in 0..MaxFaults

\* The items that a tree describes.
Mirror(t) ==
    [p \in Path |-> IF Files[t][p] = None THEN None
                    ELSE [sha |-> Files[t][p], content |-> Files[t][p]]]

\* The markers tell the truth, whatever was pushed, failed or died meanwhile: the rows,
\* brought up to date from any earlier tree by differences only, are those of the tree
\* that the marker names (github_sync.py:79-115), and so are the recipes (127-169).
MarkersAreTrue ==
    /\ itemsMarker # None => items = Mirror(itemsMarker)
    /\ itemsMarker = None => items = Nothing
    /\ recipes = recipesMarker

\* After a run that reported success, items and recipes are of one and the same commit,
\* although they are stored by two transactions (github_sync.py:68-70).
SuccessIsConsistent ==
    status = "success" =>
        itemsMarker # None /\ recipes = RecipeFile[itemsMarker] /\ items = Mirror(itemsMarker)

\* The status does not stay "running", although a run may die without storing its end:
\* a later one stores its own (sync_runner.py:60-81, 130-135).
StatusSettles == status = "running" ~> status # "running"

\* Every file of the tree can be stored, and no two items have one identifier.
Sound(t) ==
    /\ RecipeFile[t] # None /\ RecipeRefusal[RecipeFile[t]] = "none"
    /\ \A p \in Path : Files[t][p] # None => ItemRefusal[Files[t][p]] = "none"
    /\ \A p, q \in Path :
         p # q /\ Files[t][p] # None /\ Files[t][q] # None => IdOf[Files[t][p]] # IdOf[Files[t][q]]

\* Once nobody pushes and nothing fails any more, the database mirrors the branch, if it
\* can be stored at all; only identifiers that rotate hold it up for ever, and then run
\* after run stores that error (github_sync.py:79-115, sync_runner.py:78).
Converges ==
    \A t \in Tree :
        Sound(t) /\ <>[](head = t) =>
            \/ <>[](items = Mirror(t) /\ recipes = RecipeFile[t])
            \/ []<>(status = "IntegrityError")

\* github_sync.py:24: a source that cannot safely be applied to the database is refused
\* with GitHubSyncError (a malformed file is refused by its parser).
UnsafeSourceIsRefused == error # "IntegrityError"
================================================================================
