------------------------------ MODULE AuctionSync ------------------------------
(***************************************************************************)
(* The auction synchronisation: AuctionSyncRunner.run (one run at a time,  *)
(* one database session, one region after the other) driving               *)
(* AuctionSyncService (candidates, due requests, market state, prices,     *)
(* trades, candles, craft profit snapshots), beside the GitHub             *)
(* synchronisation that replaces items and recipes in other transactions.  *)
(*                                                                         *)
(* Every await of the run is a step of its own, so that ticks of the       *)
(* clock, catalogue replacements and failures fall between any two of      *)
(* them.  The session's view (variables s...) reaches the database at the  *)
(* commit that ends a region and is dropped by a rollback.                 *)
(*                                                                         *)
(* Time.  A refresh instant is kept as the ticks left until it, 0 meaning  *)
(* due: the code only ever asks "<= now".  The session's rows count from   *)
(* the instant `now` captured at the start of the region; `elapsed` is the *)
(* time since then, and the commit ages the rows by it.                    *)
(*                                                                         *)
(* Prices.  The unit buyout price of a lot is a positive number, 0 stands  *)
(* for a missing one: a lot without buyout, a NULL column, a price that a  *)
(* query does not return.  A lots reply is the set of its unit prices.     *)
(***************************************************************************)
EXTENDS Integers, Sequences, FiniteSets

CONSTANTS
    Item,                  \* item identifiers
    EnergyItem,            \* ENERGY_ITEM_ID
    CatalogueItem,         \* items that upstream may publish
    Regions,               \* AUCTION_REGIONS, a sequence
    Recipe,                \* recipes that upstream may publish
    Ingredients, Results,  \* [Recipe -> SUBSET Item]
    ZeroEnergy,            \* the recipes that need no energy
    Lots,                  \* the lots replies the API may give
    Trade,                 \* trades, one for each fingerprint
    Rejections,            \* kinds of AuctionApiError the API may raise
    Faults,                \* whether a run may die of another exception or a crash
    RequestsPerMinute, CraftLotsRefresh, CraftHistoryRefresh,
    MarketLotsRefresh, MarketHistoryRefresh, EmptyProbeLimit,
    RunTicks,              \* bound: ticks that pass while a region is synchronised
    NoRow                  \* no such row

ASSUME ItemAssumption == EnergyItem \in Item /\ CatalogueItem \subseteq Item
ASSUME RegionAssumption ==
    /\ Regions \in Seq(STRING) /\ Len(Regions) > 0
    /\ \A j, k \in 1..Len(Regions) : Regions[j] = Regions[k] => j = k
ASSUME RecipeAssumption ==
    /\ Ingredients \in [Recipe -> SUBSET Item]
    /\ Results \in [Recipe -> SUBSET Item]
    /\ ZeroEnergy \subseteq Recipe
ASSUME ReplyAssumption ==
    /\ Lots \subseteq SUBSET Nat
    /\ Rejections \subseteq {"invalid", "other"}
    /\ Faults \in BOOLEAN
ASSUME SettingsAssumption ==
    /\ RequestsPerMinute \in Nat /\ RunTicks \in Nat
    /\ CraftLotsRefresh \in Nat \ {0} /\ CraftHistoryRefresh \in Nat \ {0}
    /\ MarketLotsRefresh \in Nat \ {0} /\ MarketHistoryRefresh \in Nat \ {0}
    /\ EmptyProbeLimit \in Nat \ {0}

CRAFT_PRIORITY == 50
MARKET_PRIORITY == 10

Region == {Regions[k] : k \in 1..Len(Regions)}

State == {"probing", "active", "retired"}
Reason == {"none", "no_market_activity", "invalid_api_item"}

\* A row of auction_refresh_queue, with the columns that some code reads.
Row == [priority : Nat, lotsDueIn : Nat, historyDueIn : Nat, state : State,
        emptyProbes : Nat, lotsEmpty : BOOLEAN, reason : Reason]

Price == Nat
View == [Item -> Price]      \* the prices a craft profit snapshot was computed from

ASSUME NoRowAssumption == NoRow \notin Row /\ NoRow \notin Price /\ NoRow \notin View

VARIABLES
    \* the database
    queue,      \* [Region -> [Item -> Row or NoRow]]      auction_refresh_queue
    prices,     \* [Region -> [Item -> Price or NoRow]]    auction_current_prices
    trades,     \* [Region -> [Item -> SUBSET Trade]]      auction_trades
    candles,    \* the trades that auction_price_candles summarises
    snapshots,  \* [Region -> [Recipe -> View or NoRow]]   craft_profit_snapshots
    items,      \* SUBSET Item                             items
    recipes,    \* SUBSET Recipe                           hideout_recipes
    \* the run
    pc, read, at, elapsed, phase, todo, cur, used, spent, total, changed,
    \* its session, on the region Regions[at]
    sRows, sPrices, sTrades, sCandles,
    unflushed,  \* items whose price row is pending: a query does not see it
    pending,    \* the snapshots merged, not yet flushed
    stale       \* the recipes of `pending` have been deleted meanwhile

auctionVars == <<queue, prices, trades, candles>>
catalogueVars == <<items, recipes>>
loopVars == <<read, at, elapsed, phase, todo, cur, used, spent, total, changed>>
sessionVars == <<sRows, sPrices, sTrades, sCandles, unflushed, pending, stale>>
vars == <<auctionVars, snapshots, catalogueVars, pc, loopVars, sessionVars>>

--------------------------------------------------------------------------------
(* The queue rows *)

Craft(row) == row.priority >= CRAFT_PRIORITY
LotsRefresh(row) == IF Craft(row) THEN CraftLotsRefresh ELSE MarketLotsRefresh
HistoryRefresh(row) == IF Craft(row) THEN CraftHistoryRefresh ELSE MarketHistoryRefresh

\* Mutation: the catalogue is forgotten, only recipe components are queued.
ComponentsOnly(rs, is) == {EnergyItem} \cup UNION {Ingredients[r] \cup Results[r] : r \in rs}

Candidates(rs, is) ==
    is \cup {EnergyItem} \cup UNION {Ingredients[r] \cup Results[r] : r \in rs}

CandidatePriority(i, rs) ==
    IF i = EnergyItem THEN 200
    ELSE IF \E r \in rs : i \in Results[r] THEN 100
    ELSE IF \E r \in rs : i \in Ingredients[r] THEN CRAFT_PRIORITY
    ELSE MARKET_PRIORITY

NewRow(priority) ==
    [priority |-> priority, lotsDueIn |-> 0, historyDueIn |-> 0, state |-> "probing",
     emptyProbes |-> 0, lotsEmpty |-> FALSE, reason |-> "none"]

\* Mutation: an existing row is written anew.
EnsureRowAnew(row, priority) == NewRow(priority)

\* An existing row only ever gains priority.
EnsureRow(row, priority) ==
    IF row = NoRow THEN NewRow(priority)
    ELSE [row EXCEPT !.priority = IF @ >= priority THEN @ ELSE priority]

Left(due, ticks) == IF due <= ticks THEN 0 ELSE due - ticks
Age(row, ticks) ==
    IF row = NoRow THEN NoRow
    ELSE [row EXCEPT !.lotsDueIn = Left(@, ticks), !.historyDueIn = Left(@, ticks)]

DueItems(rows) ==
    {i \in Item : /\ rows[i] # NoRow
                  /\ rows[i].state # "retired"
                  /\ (rows[i].lotsDueIn = 0 \/ rows[i].historyDueIn = 0)}

\* Only an answer 400 or 404 retires the item; other errors leave the row as it is.
RetireInvalid(row, rejection) ==
    IF rejection # "invalid" THEN row
    ELSE [row EXCEPT !.state = "retired", !.reason = "invalid_api_item"]

\* Mutation: lots on offer do not count as activity.
UpdateByHistoryOnly(row, hasHistory) ==
    IF hasHistory THEN [row EXCEPT !.state = "active", !.emptyProbes = 0]
    ELSE IF row.emptyProbes + 1 >= EmptyProbeLimit
    THEN [row EXCEPT !.emptyProbes = @ + 1, !.state = "retired",
                     !.reason = "no_market_activity"]
    ELSE [row EXCEPT !.emptyProbes = @ + 1]

UpdateMarketState(row, hasHistory) ==
    IF hasHistory \/ ~row.lotsEmpty
    THEN [row EXCEPT !.state = "active", !.emptyProbes = 0]
    ELSE IF row.emptyProbes + 1 >= EmptyProbeLimit
    THEN [row EXCEPT !.emptyProbes = @ + 1, !.state = "retired",
                     !.reason = "no_market_activity"]
    ELSE [row EXCEPT !.emptyProbes = @ + 1]

--------------------------------------------------------------------------------
(* Budgets and prices *)

\* Mutation: the budget is not divided among the regions.
PerRun == RequestsPerMinute

PerRegion == RequestsPerMinute \div Len(Regions)
\* Mutation: the craft queue may use the whole budget.
WholeBudget == PerRegion

CraftBudget == (PerRegion * 3) \div 4
Budget == IF phase = "craft" THEN CraftBudget ELSE PerRegion - spent

\* The queue of the phase, and its items that the priority order allows next.
PhaseQueue == {i \in todo : Craft(sRows[i]) <=> phase = "craft"}
Foremost == {i \in PhaseQueue : \A j \in PhaseQueue : sRows[j].priority <= sRows[i].priority}

Buyouts(lots) == lots \ {0}
\* min(buyouts, default=None), as a set of one price
BestBuyout(lots) ==
    IF Buyouts(lots) = {} THEN {0}
    ELSE {p \in Buyouts(lots) : \A q \in Buyouts(lots) : p <= q}

\* Mutation: the query runs before the flush.
CandleSourceUnflushed(i, reply) == sTrades[i]

\* What the candle query of an item returns once the reply has been flushed.
CandleSource(i, reply) == sTrades[i] \cup reply

\* Mutation: the query reads in another session.
VisibleElsewhere(i) ==
    IF prices[Regions[at]][i] = NoRow THEN 0 ELSE prices[Regions[at]][i]

\* What the price query of the recalculation returns: autoflush is off.
Visible(i) == IF sPrices[i] = NoRow \/ i \in unflushed THEN 0 ELSE sPrices[i]
Inputs(r) == Ingredients[r] \cup Results[r] \cup {EnergyItem}
Profit(r) == [i \in Item |-> IF i \in Inputs(r) THEN Visible(i) ELSE 0]

\* total_cost = ingredient_cost + energy_cost although energy_cost is None.
TypeErrorIn(r) ==
    /\ r \in ZeroEnergy /\ Visible(EnergyItem) = 0
    /\ \A i \in Ingredients[r] \cup Results[r] : Visible(i) # 0

--------------------------------------------------------------------------------
(* The run *)

Blank(x) == [i \in Item |-> x]

CleanSession ==
    /\ sRows = Blank(NoRow) /\ sPrices = Blank(NoRow)
    /\ sTrades = Blank({}) /\ sCandles = Blank({})
    /\ unflushed = {} /\ pending = [r \in Recipe |-> NoRow] /\ stale = FALSE
CleanLoop ==
    /\ elapsed = 0 /\ phase = "craft" /\ todo = {} /\ cur = EnergyItem
    /\ used = 0 /\ spent = 0 /\ changed = FALSE

Init ==
    /\ queue = [R \in Region |-> Blank(NoRow)]
    /\ prices = [R \in Region |-> Blank(NoRow)]
    /\ trades = [R \in Region |-> Blank({})]
    /\ candles = [R \in Region |-> Blank({})]
    /\ snapshots = [R \in Region |-> [r \in Recipe |-> NoRow]]
    /\ items = {} /\ recipes = {}
    /\ pc = "idle" /\ read = {} /\ at = 1 /\ total = 0
    /\ CleanLoop /\ CleanSession

\* A run begins when the lock is free; a call while it is held returns 0.
StartRun ==
    /\ pc = "idle"
    /\ pc' = "ensure" /\ read' = recipes
    /\ UNCHANGED <<auctionVars, snapshots, catalogueVars, at, elapsed, phase, todo, cur,
                   used, spent, total, changed, sessionVars>>

\* ensure_recipe_candidates: the components were read first, the items now.
EnsureCandidates ==
    /\ pc = "ensure"
    /\ queue' = [R \in Region |-> [i \in Item |->
                    IF i \in Candidates(read, items)
                    THEN EnsureRow(queue[R][i], CandidatePriority(i, read))
                    ELSE queue[R][i]]]
    /\ pc' = "region" /\ read' = {}
    /\ UNCHANGED <<prices, trades, candles, snapshots, catalogueVars, at, elapsed, phase,
                   todo, cur, used, spent, total, changed, sessionVars>>

\* sync_due: `now` is captured and the due rows are selected.
BeginRegion ==
    /\ pc = "region"
    /\ pc' = "item"
    /\ sRows' = queue[Regions[at]]
    /\ sPrices' = prices[Regions[at]]
    /\ sTrades' = trades[Regions[at]]
    /\ sCandles' = candles[Regions[at]]
    /\ todo' = DueItems(queue[Regions[at]])
    /\ UNCHANGED <<auctionVars, snapshots, catalogueVars, read, at, elapsed, phase, cur,
                   used, spent, total, changed, unflushed, pending, stale>>

\* The loop of _sync_queue_items takes its next item while budget is left.
PickItem ==
    /\ pc = "item" /\ used < Budget
    /\ \E i \in Foremost :
        /\ cur' = i /\ todo' = todo \ {i}
        /\ pc' = IF sRows[i].lotsDueIn = 0 THEN "lots" ELSE "history"
    /\ UNCHANGED <<auctionVars, snapshots, catalogueVars, read, at, elapsed, phase, used,
                   spent, total, changed, sessionVars>>

LotsReceived ==
    /\ pc = "lots"
    /\ \E lots \in Lots :
        /\ sRows' = [sRows EXCEPT ![cur] =
                        [sRows[cur] EXCEPT !.lotsEmpty = (lots = {}),
                                           !.lotsDueIn = LotsRefresh(sRows[cur])]]
        /\ \/ /\ lots = {}
              /\ UNCHANGED <<sPrices, unflushed, changed>>
           \/ /\ lots # {}
              /\ \E best \in BestBuyout(lots) : sPrices' = [sPrices EXCEPT ![cur] = best]
              /\ unflushed' = IF sPrices[cur] = NoRow THEN unflushed \cup {cur} ELSE unflushed
              /\ changed' = TRUE
    /\ used' = used + 1 /\ pc' = "history"
    /\ UNCHANGED <<auctionVars, snapshots, catalogueVars, read, at, elapsed, phase, todo,
                   cur, spent, total, sTrades, sCandles, pending, stale>>

\* Mutation: after a failed lots request the history of the item is asked for all the same.
HistoryAfterRejection ==
    /\ \/ pc = "lots"
       \/ pc = "history" /\ used < Budget /\ sRows[cur].historyDueIn = 0
    /\ \E rejection \in Rejections :
        sRows' = [sRows EXCEPT ![cur] = RetireInvalid(sRows[cur], rejection)]
    /\ used' = used + 1 /\ pc' = IF pc = "lots" THEN "history" ELSE "item"
    /\ UNCHANGED <<auctionVars, snapshots, catalogueVars, read, at, elapsed, phase, todo,
                   cur, spent, total, changed, sPrices, sTrades, sCandles, unflushed,
                   pending, stale>>

\* The answer to a lots or a history request is an error: on to the next item.
RequestRejected ==
    /\ \/ pc = "lots"
       \/ pc = "history" /\ used < Budget /\ sRows[cur].historyDueIn = 0
    /\ \E rejection \in Rejections :
        sRows' = [sRows EXCEPT ![cur] = RetireInvalid(sRows[cur], rejection)]
    /\ used' = used + 1 /\ pc' = "item"
    /\ UNCHANGED <<auctionVars, snapshots, catalogueVars, read, at, elapsed, phase, todo,
                   cur, spent, total, changed, sPrices, sTrades, sCandles, unflushed,
                   pending, stale>>

HistorySkipped ==
    /\ pc = "history" /\ (used >= Budget \/ sRows[cur].historyDueIn > 0)
    /\ pc' = "item"
    /\ UNCHANGED <<auctionVars, snapshots, catalogueVars, loopVars, sessionVars>>

\* A reply with trades is stored, flushed with all else that is pending, and the
\* candles of the item are rebuilt.
HistoryReceived ==
    /\ pc = "history" /\ used < Budget /\ sRows[cur].historyDueIn = 0
    /\ \E reply \in SUBSET Trade :
        /\ sRows' = [sRows EXCEPT ![cur] =
                        [UpdateMarketState(sRows[cur], reply # {})
                           EXCEPT !.historyDueIn = HistoryRefresh(sRows[cur])]]
        /\ sTrades' = [sTrades EXCEPT ![cur] = @ \cup reply]
        /\ \/ reply = {} /\ UNCHANGED <<sCandles, unflushed>>
           \/ /\ reply # {}
              /\ sCandles' = [sCandles EXCEPT ![cur] = CandleSource(cur, reply)]
              /\ unflushed' = {}
    /\ used' = used + 1 /\ pc' = "item"
    /\ UNCHANGED <<auctionVars, snapshots, catalogueVars, read, at, elapsed, phase, todo,
                   cur, spent, total, changed, sPrices, pending, stale>>

\* The craft queue is done with, or its share of the budget is.
CraftPhaseEnds ==
    /\ pc = "item" /\ phase = "craft" /\ (PhaseQueue = {} \/ used >= Budget)
    /\ phase' = "market" /\ spent' = used /\ used' = 0
    /\ UNCHANGED <<auctionVars, snapshots, catalogueVars, pc, read, at, elapsed, todo, cur,
                   total, changed, sessionVars>>

MarketPhaseEnds ==
    /\ pc = "item" /\ phase = "market" /\ (PhaseQueue = {} \/ used >= Budget)
    /\ spent' = spent + used /\ used' = 0
    /\ pc' = IF changed THEN "recalc" ELSE "commit"
    /\ UNCHANGED <<auctionVars, snapshots, catalogueVars, read, at, elapsed, phase, todo,
                   cur, total, changed, sessionVars>>

\* recalculate_craft_profit, for every recipe of the table
Recalculate ==
    /\ pc = "recalc" /\ (\A r \in recipes : ~TypeErrorIn(r))
    /\ pending' = [r \in Recipe |-> IF r \in recipes THEN Profit(r) ELSE NoRow]
    /\ pc' = "commit"
    /\ UNCHANGED <<auctionVars, snapshots, catalogueVars, loopVars, sRows, sPrices, sTrades,
                   sCandles, unflushed, stale>>

--------------------------------------------------------------------------------
(* The end of a region and of a run *)

ResetSession ==
    /\ sRows' = Blank(NoRow) /\ sPrices' = Blank(NoRow)
    /\ sTrades' = Blank({}) /\ sCandles' = Blank({})
    /\ unflushed' = {} /\ pending' = [r \in Recipe |-> NoRow] /\ stale' = FALSE
    /\ elapsed' = 0 /\ phase' = "craft" /\ todo' = {} /\ cur' = EnergyItem
    /\ used' = 0 /\ spent' = 0 /\ changed' = FALSE

RunEnds == pc' = "idle" /\ at' = 1 /\ total' = 0

\* The commit writes the session, unless its snapshots refer to deleted recipes.
CommitRegion ==
    /\ pc = "commit" /\ ~stale
    /\ queue' = [queue EXCEPT ![Regions[at]] = [i \in Item |-> Age(sRows[i], elapsed)]]
    /\ prices' = [prices EXCEPT ![Regions[at]] = sPrices]
    /\ trades' = [trades EXCEPT ![Regions[at]] = sTrades]
    /\ candles' = [candles EXCEPT ![Regions[at]] = sCandles]
    /\ snapshots' = [snapshots EXCEPT ![Regions[at]] = [r \in Recipe |->
                        IF pending[r] # NoRow THEN pending[r] ELSE @[r]]]
    /\ \/ /\ at < Len(Regions)
          /\ pc' = "region" /\ at' = at + 1 /\ total' = total + spent
       \/ at = Len(Regions) /\ RunEnds
    /\ ResetSession
    /\ UNCHANGED <<catalogueVars, read>>

\* An exception leaves the session block: rollback, the other regions are skipped.
Rollback ==
    /\ RunEnds /\ ResetSession /\ read' = {}
    /\ UNCHANGED <<auctionVars, snapshots, catalogueVars>>

RecalculationFails == pc = "recalc" /\ (\E r \in recipes : TypeErrorIn(r)) /\ Rollback
CommitFails == pc = "commit" /\ stale /\ Rollback

\* Any other exception (transport, database), a cancellation or a crash.
Abort == Faults /\ pc # "idle" /\ Rollback

--------------------------------------------------------------------------------
(* The environment: time, and the GitHub synchronisation *)

InRegion == pc \notin {"idle", "ensure", "region"}

Tick ==
    /\ InRegion => elapsed < RunTicks
    /\ elapsed' = IF InRegion THEN elapsed + 1 ELSE elapsed
    /\ queue' = [R \in Region |-> [i \in Item |-> Age(queue[R][i], 1)]]
    /\ UNCHANGED <<prices, trades, candles, snapshots, catalogueVars, pc, read, at, phase,
                   todo, cur, used, spent, total, changed, sessionVars>>

\* GitHubSyncService._sync_items commits
ReplaceItems ==
    /\ items' \in SUBSET CatalogueItem
    /\ UNCHANGED <<auctionVars, snapshots, recipes, pc, loopVars, sessionVars>>

\* GitHubSyncService._sync_hideout_recipes commits: every recipe is deleted, and its
\* snapshots with it, and the new ones get new ids.
ReplaceRecipes ==
    /\ recipes' \in SUBSET Recipe
    /\ snapshots' = [R \in Region |-> [r \in Recipe |-> NoRow]]
    /\ stale' = (stale \/ \E r \in Recipe : pending[r] # NoRow)
    /\ UNCHANGED <<auctionVars, items, pc, loopVars, sRows, sPrices, sTrades, sCandles,
                   unflushed, pending>>

Runner ==
    \/ StartRun \/ EnsureCandidates \/ BeginRegion \/ PickItem
    \/ LotsReceived \/ RequestRejected \/ HistorySkipped \/ HistoryReceived
    \/ CraftPhaseEnds \/ MarketPhaseEnds \/ Recalculate \/ RecalculationFails
    \/ CommitRegion \/ CommitFails

Next == Runner \/ Abort \/ Tick \/ ReplaceItems \/ ReplaceRecipes

Spec == Init /\ [][Next]_vars

\* The scheduler task loops for ever, catches what a run raises, and the event loop
\* resumes it.  Two premises come from outside the code: the API and the token endpoint
\* answer each call, if only with an error, and the first transaction of a run, which is
\* committed by itself, succeeds again and again.  The rest of a run may fail each time.
FairSpec == Spec /\ WF_vars(Runner) /\ SF_vars(EnsureCandidates)
--------------------------------------------------------------------------------
(* Properties *)

Rows == Row \cup {NoRow}
PC == {"idle", "ensure", "region", "item", "lots", "history", "recalc", "commit"}

\* Every variable has its type.
TypeOK ==
    /\ queue \in [Region -> [Item -> Rows]]
    /\ prices \in [Region -> [Item -> Price \cup {NoRow}]]
    /\ trades \in [Region -> [Item -> SUBSET Trade]]
    /\ candles \in [Region -> [Item -> SUBSET Trade]]
    /\ snapshots \in [Region -> [Recipe -> View \cup {NoRow}]]
    /\ items \in SUBSET Item /\ recipes \in SUBSET Recipe
    /\ pc \in PC /\ read \in SUBSET Recipe /\ at \in 1..Len(Regions)
    /\ elapsed \in Nat /\ phase \in {"craft", "market"}
    /\ todo \in SUBSET Item /\ cur \in Item
    /\ used \in Nat /\ spent \in Nat /\ total \in Nat /\ changed \in BOOLEAN
    /\ sRows \in [Item -> Rows] /\ sPrices \in [Item -> Price \cup {NoRow}]
    /\ sTrades \in [Item -> SUBSET Trade] /\ sCandles \in [Item -> SUBSET Trade]
    /\ unflushed \in SUBSET Item
    /\ pending \in [Recipe -> View \cup {NoRow}] /\ stale \in BOOLEAN

\* A run asks the API at most RequestsPerMinute times over all its regions, whatever
\* is due, rejected or skipped: the phases of sync_due share the budget of the region
\* (auction_sync.py:112-118) and the regions share the one of the run
\* (auction_runner.py:36, 48-50).
RequestBudget == total + spent + used <= RequestsPerMinute

\* No item is dropped from the market for want of activity unless its lots were empty
\* and EmptyProbeLimit history probes found nothing, and none stays once they have
\* (_update_market_state); a retired row has a reason, and only a retired row does.
RetirementJustified ==
    \A R \in Region, i \in Item : queue[R][i] # NoRow =>
        LET row == queue[R][i] IN
        /\ row.state = "retired" <=> row.reason # "none"
        /\ row.reason = "no_market_activity" =>
              row.lotsEmpty /\ row.emptyProbes >= EmptyProbeLimit
        /\ row.state # "retired" => row.emptyProbes < EmptyProbeLimit

\* A stored snapshot never contradicts the stored prices: each price it was computed
\* from is the current one, or was missing.  Holds although other regions, rollbacks
\* and recipe replacements interleave, because sync_due recalculates and commits in the
\* transaction that stores the prices (auction_sync.py:122-124).
SnapshotNeverContradicts ==
    \A R \in Region, r \in Recipe : snapshots[R][r] # NoRow =>
        \A i \in Item : snapshots[R][r][i] \in {0, prices[R][i]}

\* The candles summarise all the stored trades of the item, the ones of the last reply
\* included: _rebuild_candles queries them after the flush (auction_sync.py:163, 313).
CandlesCoverTrades == candles = trades

MarketOf(row) == IF row = NoRow THEN "absent" ELSE row.state
Market == [R \in Region |-> [i \in Item |-> MarketOf(queue[R][i])]]
Lifecycle == INSTANCE MarketLifecycle WITH market <- Market

\* Whatever the order of runs, failures and replacements of the catalogue: an item is
\* never probed again once it was active, and never leaves "retired".
FollowsLifecycle == Lifecycle!Spec

\* A row says that its market is active only if a lot or a trade of the item is stored.
\* A row that has never had lots says lotsEmpty = FALSE (models/auction_refresh_queue.py:27),
\* which counts as activity: after a failed lots request the history must be left alone
\* (auction_sync.py:145), and reply and row must reach the database together.
ActivityIsStored ==
    \A R \in Region, i \in Item :
        queue[R][i] # NoRow /\ queue[R][i].state = "active" =>
            prices[R][i] # NoRow \/ trades[R][i] # {}

MarketDue(R) == \E i \in DueItems(queue[R]) : ~Craft(queue[R][i])
MarketAsked(R) == phase = "market" /\ used > 0 /\ Regions[at] = R

\* A run is cut short before its last region has used its requests.
CutShort == pc # "idle" /\ Rollback /\ ~(pc = "commit" /\ at = Len(Regions))

\* The share of the budget that the craft queue may not use is enough for the market
\* queue of each region to be asked about again and again while something of it is due,
\* although craft items are due at every run (auction_sync.py:112-118), once runs are no
\* longer cut short.  Of market items that are due together nothing is said: rows of one
\* priority come in any order (auction_sync.py:107).
MarketQueueIsServed ==
    <>[][~CutShort]_vars => \A R \in Region : []<>(MarketDue(R) => MarketAsked(R))

\* Again and again every item of the catalogue has a queue row in every region, although
\* runs fail after their first transaction: the candidates are committed before any
\* request is made (auction_sync.py:91).
CatalogueIsQueued == []<>(\A R \in Region, i \in items : queue[R][i] # NoRow)

\* tests/services/test_auction_sync.py:84: the profit of a recipe is computed from the
\* prices that the same synchronisation stored.
SnapshotUsesStoredPrices ==
    \A R \in Region, r \in Recipe : snapshots[R][r] # NoRow =>
        \A i \in Inputs(r) : prices[R][i] # NoRow => snapshots[R][r][i] = prices[R][i]
================================================================================
