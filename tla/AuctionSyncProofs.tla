--------------------------- MODULE AuctionSyncProofs ---------------------------
(***************************************************************************)
(* Proofs about AuctionSync for every set of items, recipes and regions,   *)
(* every reply of the API and every setting: typing, the request budget of *)
(* a run and the share of the market queue, the retirement of items, the   *)
(* lifecycle of MarketLifecycle, the evidence of market activity, and the  *)
(* agreement of snapshots with prices and of candles with trades.          *)
(***************************************************************************)
EXTENDS AuctionSync, TLAPS

--------------------------------------------------------------------------------
(* What the operators return *)

LEMMA RegionFacts ==
    /\ Len(Regions) \in Nat /\ Len(Regions) > 0
    /\ \A k \in 1..Len(Regions) : Regions[k] \in Region
  BY RegionAssumption DEF Region

LEMMA RowFacts ==
    /\ NoRow \notin Row
    /\ \A x \in Rows : x # NoRow => x \in Row
  BY NoRowAssumption DEF Rows

LEMMA PerRegionType == PerRegion \in Nat /\ CraftBudget \in Nat /\ CraftBudget <= PerRegion
<1>1. PerRegion \in Nat
  BY RegionFacts, SettingsAssumption DEF PerRegion
<1> QED BY <1>1 DEF CraftBudget

LEMMA RefreshType ==
    ASSUME NEW row \in Row
    PROVE  LotsRefresh(row) \in Nat \ {0} /\ HistoryRefresh(row) \in Nat \ {0}
  BY SettingsAssumption DEF LotsRefresh, HistoryRefresh

LEMMA PriorityType == \A i, rs : CandidatePriority(i, rs) \in Nat
  BY DEF CandidatePriority, CRAFT_PRIORITY, MARKET_PRIORITY

LEMMA EnsureRowType ==
    ASSUME NEW row \in Rows, NEW p \in Nat
    PROVE  EnsureRow(row, p) \in Row
  BY RowFacts DEF EnsureRow, NewRow, Row, State, Reason

LEMMA AgeType ==
    ASSUME NEW row \in Rows, NEW t \in Nat
    PROVE  /\ Age(row, t) \in Rows
           /\ (Age(row, t) = NoRow) <=> (row = NoRow)
           /\ row # NoRow => /\ Age(row, t).state = row.state
                             /\ Age(row, t).reason = row.reason
                             /\ Age(row, t).emptyProbes = row.emptyProbes
                             /\ Age(row, t).lotsEmpty = row.lotsEmpty
<1>1. CASE row = NoRow
  BY <1>1 DEF Age, Rows
<1>2. CASE row # NoRow
  <2>1. row \in Row
    BY <1>2, RowFacts
  <2>2. Left(row.lotsDueIn, t) \in Nat /\ Left(row.historyDueIn, t) \in Nat
    BY <2>1 DEF Left, Row
  <2>3. Age(row, t) = [row EXCEPT !.lotsDueIn = Left(row.lotsDueIn, t),
                                  !.historyDueIn = Left(row.historyDueIn, t)]
    BY <1>2 DEF Age
  <2>4. Age(row, t) \in Row
    BY <2>1, <2>2, <2>3 DEF Row
  <2> QED BY <1>2, <2>1, <2>3, <2>4, RowFacts DEF Rows, Row
<1> QED BY <1>1, <1>2

LEMMA RetireInvalidType ==
    ASSUME NEW row \in Row, NEW rejection
    PROVE  RetireInvalid(row, rejection) \in Row
  BY DEF RetireInvalid, Row, State, Reason

LEMMA UpdateMarketStateType ==
    ASSUME NEW row \in Row, NEW has \in BOOLEAN
    PROVE  UpdateMarketState(row, has) \in Row
<1>1. row.emptyProbes + 1 \in Nat
  BY DEF Row
<1>2. [row EXCEPT !.state = "active", !.emptyProbes = 0] \in Row
  BY DEF Row, State
<1>3. [row EXCEPT !.emptyProbes = row.emptyProbes + 1] \in Row
  BY <1>1 DEF Row
<1>4. [row EXCEPT !.emptyProbes = row.emptyProbes + 1, !.state = "retired",
                  !.reason = "no_market_activity"] \in Row
  BY <1>1 DEF Row, State, Reason
<1> QED BY <1>2, <1>3, <1>4 DEF UpdateMarketState

LEMMA BestBuyoutType == \A lots \in Lots : BestBuyout(lots) \subseteq Price
<1> SUFFICES ASSUME NEW lots \in Lots, NEW p \in BestBuyout(lots)
             PROVE  p \in Price
  OBVIOUS
<1>1. lots \subseteq Nat
  BY ReplyAssumption
<1>2. p = 0 \/ p \in lots
  BY DEF BestBuyout, Buyouts
<1>3. p \in lots => p \in Nat
  BY <1>1, Zenon
<1>4. p = 0 => p \in Nat
  OBVIOUS
<1> QED BY <1>2, <1>3, <1>4 DEF Price

LEMMA ProfitType ==
    ASSUME TypeOK, NEW r
    PROVE  Profit(r) \in View
<1>1. \A i \in Item : Visible(i) \in Price
  BY DEF TypeOK, Visible, Price
<1> QED BY <1>1 DEF Profit, View, Price

--------------------------------------------------------------------------------
(* Typing.  The rows that the loop may still touch exist: that is what makes the *)
(* types inductive.                                                              *)

Loaded ==
    /\ \A i \in todo : sRows[i] # NoRow
    /\ pc \in {"lots", "history"} => sRows[cur] # NoRow

TypeInv == TypeOK /\ Loaded

LEMMA ResetTypes ==
    ResetSession =>
        /\ sRows' \in [Item -> Rows] /\ sPrices' \in [Item -> Price \cup {NoRow}]
        /\ sTrades' \in [Item -> SUBSET Trade] /\ sCandles' \in [Item -> SUBSET Trade]
        /\ unflushed' \in SUBSET Item /\ pending' \in [Recipe -> View \cup {NoRow}]
        /\ stale' \in BOOLEAN /\ elapsed' \in Nat /\ phase' \in {"craft", "market"}
        /\ todo' = {} /\ cur' \in Item /\ used' \in Nat /\ spent' \in Nat
        /\ changed' \in BOOLEAN
<1> SUFFICES ASSUME ResetSession
             PROVE  /\ sRows' \in [Item -> Rows] /\ sPrices' \in [Item -> Price \cup {NoRow}]
                    /\ sTrades' \in [Item -> SUBSET Trade]
                    /\ sCandles' \in [Item -> SUBSET Trade]
                    /\ unflushed' \in SUBSET Item
                    /\ pending' \in [Recipe -> View \cup {NoRow}]
                    /\ stale' \in BOOLEAN /\ elapsed' \in Nat
                    /\ phase' \in {"craft", "market"}
                    /\ todo' = {} /\ cur' \in Item /\ used' \in Nat /\ spent' \in Nat
                    /\ changed' \in BOOLEAN
  OBVIOUS
<1> USE DEF ResetSession, Blank, Rows
<1>1. /\ sRows' \in [Item -> Rows] /\ sPrices' \in [Item -> Price \cup {NoRow}]
      /\ sTrades' \in [Item -> SUBSET Trade] /\ sCandles' \in [Item -> SUBSET Trade]
      /\ unflushed' \in SUBSET Item /\ pending' \in [Recipe -> View \cup {NoRow}]
  OBVIOUS
<1>2. elapsed' \in Nat /\ phase' \in {"craft", "market"} /\ todo' = {} /\ cur' \in Item
      /\ used' \in Nat /\ spent' \in Nat
  BY ItemAssumption
<1>3. stale' \in BOOLEAN /\ changed' \in BOOLEAN
  OBVIOUS
<1> QED BY <1>1, <1>2, <1>3

LEMMA InitTypeInv == Init => TypeInv
<1> SUFFICES ASSUME Init PROVE TypeInv
  OBVIOUS
<1> USE DEF Init, CleanLoop, CleanSession, Blank
<1>1. queue \in [Region -> [Item -> Rows]] /\ sRows \in [Item -> Rows]
  BY DEF Rows
<1>2. /\ prices \in [Region -> [Item -> Price \cup {NoRow}]]
      /\ sPrices \in [Item -> Price \cup {NoRow}]
  OBVIOUS
<1>3. /\ trades \in [Region -> [Item -> SUBSET Trade]]
      /\ candles \in [Region -> [Item -> SUBSET Trade]]
      /\ sTrades \in [Item -> SUBSET Trade] /\ sCandles \in [Item -> SUBSET Trade]
  OBVIOUS
<1>4. /\ snapshots \in [Region -> [Recipe -> View \cup {NoRow}]]
      /\ pending \in [Recipe -> View \cup {NoRow}]
  OBVIOUS
<1>5. /\ items \in SUBSET Item /\ recipes \in SUBSET Recipe
      /\ pc \in PC /\ read \in SUBSET Recipe /\ at \in 1..Len(Regions)
      /\ elapsed \in Nat /\ phase \in {"craft", "market"}
      /\ todo \in SUBSET Item /\ cur \in Item
      /\ used \in Nat /\ spent \in Nat /\ total \in Nat
      /\ unflushed \in SUBSET Item
  BY RegionFacts, ItemAssumption DEF PC
<1>6. changed \in BOOLEAN /\ stale \in BOOLEAN
  OBVIOUS
<1>7. TypeOK
  BY <1>1, <1>2, <1>3, <1>4, <1>5, <1>6 DEF TypeOK
<1>8. Loaded
  BY DEF Loaded
<1> QED BY <1>7, <1>8 DEF TypeInv

LEMMA NextTypeInv == TypeInv /\ [Next]_vars => TypeInv'
<1> SUFFICES ASSUME TypeInv, [Next]_vars PROVE TypeInv'
  OBVIOUS
<1> USE DEF TypeInv, TypeOK, Loaded, auctionVars, catalogueVars, loopVars, sessionVars
<1>1. CASE StartRun
  BY <1>1 DEF StartRun, PC
<1>2. CASE EnsureCandidates
  <2>1. \A R \in Region, i \in Item :
           EnsureRow(queue[R][i], CandidatePriority(i, read)) \in Rows
    <3> SUFFICES ASSUME NEW R \in Region, NEW i \in Item
                 PROVE  EnsureRow(queue[R][i], CandidatePriority(i, read)) \in Rows
      OBVIOUS
    <3>1. queue[R][i] \in Rows
      OBVIOUS
    <3> QED BY <3>1, PriorityType, EnsureRowType DEF Rows
  <2>2. queue' \in [Region -> [Item -> Rows]]
    BY <1>2, <2>1 DEF EnsureCandidates
  <2> QED BY <1>2, <2>2 DEF EnsureCandidates, PC
<1>3. CASE BeginRegion
  <2>1. todo' \in SUBSET Item /\ \A i \in todo' : sRows'[i] # NoRow
    BY <1>3 DEF BeginRegion, DueItems
  <2> QED BY <1>3, <2>1, RegionFacts DEF BeginRegion, PC
<1>4. CASE PickItem
  <2>1. PICK i \in todo : cur' = i /\ todo' = todo \ {i}
    BY <1>4 DEF PickItem, Foremost, PhaseQueue
  <2> QED BY <1>4, <2>1 DEF PickItem, PC
<1>5. CASE LotsReceived
  <2> DEFINE row(empty) == [sRows[cur] EXCEPT !.lotsEmpty = empty,
                                              !.lotsDueIn = LotsRefresh(sRows[cur])]
  <2>1. sRows[cur] \in Row
    BY <1>5, RowFacts DEF LotsReceived
  <2>2. \A empty \in BOOLEAN : row(empty) \in Row
    BY <2>1, RefreshType DEF Row
  <2>3. PICK lots \in Lots : sRows' = [sRows EXCEPT ![cur] = row(lots = {})]
    BY <1>5 DEF LotsReceived
  <2>4. sRows' \in [Item -> Rows] /\ sRows'[cur] # NoRow
    BY <2>2, <2>3, RowFacts DEF Rows
  <2>5. sPrices' \in [Item -> Price \cup {NoRow}]
    BY <1>5, BestBuyoutType DEF LotsReceived
  <2>6. unflushed' \in SUBSET Item /\ used' \in Nat
    BY <1>5 DEF LotsReceived
  <2>8. changed' \in BOOLEAN
    BY <1>5 DEF LotsReceived
  <2>7. \A i \in Item : sRows[i] # NoRow => sRows'[i] # NoRow
    BY <2>3, <2>4
  <2> QED BY <1>5, <2>4, <2>5, <2>6, <2>7, <2>8 DEF LotsReceived, PC
<1>6. CASE RequestRejected
  <2>1. sRows[cur] \in Row
    BY <1>6, RowFacts DEF RequestRejected
  <2>2. sRows' \in [Item -> Rows] /\ sRows'[cur] # NoRow
    BY <1>6, <2>1, RetireInvalidType, RowFacts DEF RequestRejected, Rows
  <2>3. \A i \in Item : sRows[i] # NoRow => sRows'[i] # NoRow
    BY <1>6, <2>2 DEF RequestRejected
  <2> QED BY <1>6, <2>2, <2>3 DEF RequestRejected, PC
<1>7. CASE HistorySkipped
  BY <1>7 DEF HistorySkipped, PC
<1>8. CASE HistoryReceived
  <2> DEFINE row(has) == [UpdateMarketState(sRows[cur], has)
                            EXCEPT !.historyDueIn = HistoryRefresh(sRows[cur])]
  <2>1. sRows[cur] \in Row
    BY <1>8, RowFacts DEF HistoryReceived
  <2>2. \A has \in BOOLEAN : row(has) \in Row
    BY <2>1, RefreshType, UpdateMarketStateType DEF Row
  <2>3. PICK reply \in SUBSET Trade :
           /\ sRows' = [sRows EXCEPT ![cur] = row(reply # {})]
           /\ sTrades' = [sTrades EXCEPT ![cur] = @ \cup reply]
           /\ sCandles' = sCandles
              \/ sCandles' = [sCandles EXCEPT ![cur] = CandleSource(cur, reply)]
    BY <1>8 DEF HistoryReceived
  <2>4. sRows' \in [Item -> Rows] /\ sRows'[cur] # NoRow
    BY <2>2, <2>3, RowFacts DEF Rows
  <2>5. /\ sTrades' \in [Item -> SUBSET Trade]
        /\ sCandles' \in [Item -> SUBSET Trade]
    BY <2>3 DEF CandleSource
  <2>6. unflushed' \in SUBSET Item /\ used' \in Nat
    BY <1>8 DEF HistoryReceived
  <2>7. \A i \in Item : sRows[i] # NoRow => sRows'[i] # NoRow
    BY <2>3, <2>4
  <2> QED BY <1>8, <2>4, <2>5, <2>6, <2>7 DEF HistoryReceived, PC
<1>9. CASE CraftPhaseEnds
  BY <1>9 DEF CraftPhaseEnds
<1>10. CASE MarketPhaseEnds
  BY <1>10 DEF MarketPhaseEnds, PC
<1>11. CASE Recalculate
  BY <1>11, ProfitType DEF Recalculate, PC
<1>12. CASE CommitRegion
  <2>1. [i \in Item |-> Age(sRows[i], elapsed)] \in [Item -> Rows]
    BY AgeType
  <2>2. queue' \in [Region -> [Item -> Rows]]
    BY <1>12, <2>1 DEF CommitRegion
  <2>3. /\ prices' \in [Region -> [Item -> Price \cup {NoRow}]]
        /\ trades' \in [Region -> [Item -> SUBSET Trade]]
        /\ candles' \in [Region -> [Item -> SUBSET Trade]]
    BY <1>12 DEF CommitRegion
  <2>4. snapshots' \in [Region -> [Recipe -> View \cup {NoRow}]]
    BY <1>12, RegionFacts DEF CommitRegion
  <2>5. pc' \in {"idle", "region"} /\ at' \in 1..Len(Regions) /\ total' \in Nat
    BY <1>12, RegionFacts DEF CommitRegion, RunEnds, PC
  <2>6. items' \in SUBSET Item /\ recipes' \in SUBSET Recipe /\ read' \in SUBSET Recipe
    BY <1>12 DEF CommitRegion
  <2> QED BY <1>12, <2>2, <2>3, <2>4, <2>5, <2>6, ResetTypes DEF CommitRegion, PC
<1>13. CASE Rollback
  <2>1. pc' = "idle" /\ at' \in 1..Len(Regions) /\ total' \in Nat /\ read' = {}
    BY <1>13, RegionFacts DEF Rollback, RunEnds
  <2> QED BY <1>13, <2>1, ResetTypes DEF Rollback, PC
<1>14. CASE Tick
  <2>1. queue' \in [Region -> [Item -> Rows]]
    BY <1>14, AgeType DEF Tick
  <2> QED BY <1>14, <2>1 DEF Tick
<1>15. CASE ReplaceItems
  BY <1>15, ItemAssumption DEF ReplaceItems
<1>16. CASE ReplaceRecipes
  BY <1>16 DEF ReplaceRecipes
<1>17. CASE UNCHANGED vars
  BY <1>17 DEF vars
<1> QED
  BY <1>1, <1>2, <1>3, <1>4, <1>5, <1>6, <1>7, <1>8, <1>9, <1>10, <1>11, <1>12, <1>13,
     <1>14, <1>15, <1>16, <1>17
  DEF Next, Runner, RecalculationFails, CommitFails, Abort

\* Every variable keeps its type, for every set of items, recipes, regions and replies.
THEOREM Typing == Spec => []TypeOK
<1>1. Spec => []TypeInv
  BY InitTypeInv, NextTypeInv, PTL DEF Spec
<1> QED BY <1>1, PTL DEF TypeInv

--------------------------------------------------------------------------------
(* The request budget.  The sum that a run returns is bounded by the regions done *)
(* so far times the budget of a region, and a request is made only below the      *)
(* budget of its phase.                                                           *)

LEMMA RegionShare == PerRegion * Len(Regions) <= RequestsPerMinute
  BY RegionFacts, SettingsAssumption DEF PerRegion

BudgetInv ==
    /\ total <= (at - 1) * PerRegion
    /\ phase = "craft" => spent = 0
    /\ used <= Budget
    /\ pc = "lots" => used < Budget
    /\ pc \notin {"recalc", "commit"} => spent <= CraftBudget

LEMMA BudgetInvBounds == TypeInv /\ BudgetInv => RequestBudget
<1> SUFFICES ASSUME TypeInv, BudgetInv PROVE RequestBudget
  OBVIOUS
<1> DEFINE P == PerRegion
           L == Len(Regions)
<1>1. P \in Nat /\ L \in Nat /\ at \in 1..L
  BY PerRegionType, RegionFacts DEF TypeInv, TypeOK
<1>2. spent + used <= P
  BY PerRegionType DEF TypeInv, TypeOK, BudgetInv, Budget
<1>3. total + spent + used <= (at - 1) * P + P
  BY <1>1, <1>2 DEF TypeInv, TypeOK, BudgetInv
<1>4. (at - 1) * P + P <= P * L
  <2> HIDE DEF P, L
  <2> QED BY <1>1
<1> QED BY <1>1, <1>3, <1>4, RegionShare, SettingsAssumption DEF TypeInv, TypeOK, RequestBudget

LEMMA InitBudgetInv == Init => BudgetInv
  BY PerRegionType DEF Init, CleanLoop, BudgetInv, Budget

LEMMA NextBudgetInv == TypeInv /\ BudgetInv /\ [Next]_vars => BudgetInv'
<1> SUFFICES ASSUME TypeInv, BudgetInv, [Next]_vars PROVE BudgetInv'
  OBVIOUS
<1>1. /\ PerRegion \in Nat /\ CraftBudget \in Nat /\ CraftBudget <= PerRegion
      /\ used \in Nat /\ spent \in Nat /\ total \in Nat /\ at \in Nat
  BY PerRegionType, RegionFacts DEF TypeInv, TypeOK
<1> USE <1>1 DEF BudgetInv, Budget, auctionVars, catalogueVars, loopVars, sessionVars
<1>2. CASE StartRun \/ EnsureCandidates \/ BeginRegion
  BY <1>2 DEF StartRun, EnsureCandidates, BeginRegion
<1>3. CASE PickItem
  BY <1>3 DEF PickItem
<1>4. CASE LotsReceived
  BY <1>4 DEF LotsReceived
<1>5. CASE RequestRejected
  BY <1>5 DEF RequestRejected
<1>6. CASE HistorySkipped \/ HistoryReceived
  BY <1>6 DEF HistorySkipped, HistoryReceived
<1>7. CASE CraftPhaseEnds
  BY <1>7 DEF CraftPhaseEnds
<1>8. CASE MarketPhaseEnds
  BY <1>8 DEF MarketPhaseEnds
<1>9. CASE Recalculate \/ Tick \/ ReplaceItems \/ ReplaceRecipes
  BY <1>9 DEF Recalculate, Tick, ReplaceItems, ReplaceRecipes
<1>10. CASE CommitRegion
  <2>1. used' = 0 /\ spent' = 0 /\ phase' = "craft" /\ pc' # "lots"
    BY <1>10 DEF CommitRegion, RunEnds, ResetSession
  <2>2. total' <= (at' - 1) * PerRegion
    <3>1. CASE at < Len(Regions)
      <4>1. total' = total + spent /\ at' = at + 1
        BY <1>10, <3>1, RegionFacts DEF CommitRegion, TypeInv, TypeOK
      <4>2. spent <= PerRegion
        OBVIOUS
      <4>3. (at + 1 - 1) * PerRegion = (at - 1) * PerRegion + PerRegion
        OBVIOUS
      <4> QED BY <4>1, <4>2, <4>3
    <3>2. CASE at = Len(Regions)
      <4>1. total' = 0 /\ at' = 1
        BY <1>10, <3>2, RegionFacts DEF CommitRegion, RunEnds
      <4> QED BY <4>1
    <3> QED BY <3>1, <3>2, RegionFacts DEF TypeInv, TypeOK
  <2> QED BY <2>1, <2>2
<1>11. CASE Rollback
  BY <1>11 DEF Rollback, RunEnds, ResetSession
<1>12. CASE UNCHANGED vars
  BY <1>12 DEF vars
<1> QED
  BY <1>2, <1>3, <1>4, <1>5, <1>6, <1>7, <1>8, <1>9, <1>10, <1>11, <1>12
  DEF Next, Runner, RecalculationFails, CommitFails, Abort

\* No run asks the API more than RequestsPerMinute times, whatever the number of regions
\* and the answers.
THEOREM RequestsWithinBudget == Spec => []RequestBudget
<1>1. Spec => [](TypeInv /\ BudgetInv)
  BY InitTypeInv, NextTypeInv, InitBudgetInv, NextBudgetInv, PTL DEF Spec
<1> QED BY <1>1, BudgetInvBounds, PTL

\* The market queue gets at least a quarter of the requests of its region, however many
\* items are due: its phase ends with some of them left only after that many requests
\* (auction_sync.py:112-118).
MarketShare == [][MarketPhaseEnds /\ PhaseQueue # {} => 4 * used >= PerRegion]_vars

\* No number of craft items that are due at every run takes the share of the market queue.
THEOREM MarketShareIsKept == Spec => MarketShare
<1>1. ASSUME TypeInv, BudgetInv, MarketPhaseEnds, PhaseQueue # {} PROVE 4 * used >= PerRegion
  <2>1. PerRegion \in Nat /\ used \in Nat /\ spent \in Nat
    BY <1>1, PerRegionType DEF TypeInv, TypeOK
  <2>2. used >= PerRegion - spent /\ spent <= CraftBudget
    BY <1>1 DEF MarketPhaseEnds, Budget, BudgetInv
  <2>3. 4 * CraftBudget <= 3 * PerRegion
    BY <2>1 DEF CraftBudget
  <2> QED BY <2>1, <2>2, <2>3, PerRegionType
<1>2. TypeInv /\ BudgetInv /\ [Next]_vars
        => [MarketPhaseEnds /\ PhaseQueue # {} => 4 * used >= PerRegion]_vars
  BY <1>1
<1>3. Spec => [](TypeInv /\ BudgetInv)
  BY InitTypeInv, NextTypeInv, InitBudgetInv, NextBudgetInv, PTL DEF Spec
<1> QED BY <1>2, <1>3, PTL DEF Spec, MarketShare

--------------------------------------------------------------------------------
(* Retirement: the rows of the session satisfy what the stored rows do. *)

Justified(row) ==
    /\ row.state = "retired" <=> row.reason # "none"
    /\ row.reason = "no_market_activity" => row.lotsEmpty /\ row.emptyProbes >= EmptyProbeLimit
    /\ row.state # "retired" => row.emptyProbes < EmptyProbeLimit

\* The rows that the loop may still ask about are not retired.
RetirementInv ==
    /\ \A R \in Region, i \in Item : queue[R][i] # NoRow => Justified(queue[R][i])
    /\ \A i \in Item : sRows[i] # NoRow => Justified(sRows[i])
    /\ \A i \in todo : sRows[i].state # "retired"
    /\ pc \in {"lots", "history"} => cur \notin todo /\ sRows[cur].state # "retired"

LEMMA EnsureRowJustified ==
    ASSUME NEW row \in Rows, row # NoRow => Justified(row), NEW p \in Nat
    PROVE  Justified(EnsureRow(row, p))
<1>1. CASE row = NoRow
  BY <1>1, SettingsAssumption DEF EnsureRow, NewRow, Justified
<1>2. CASE row # NoRow
  <2>1. row \in Row
    BY <1>2, RowFacts
  <2>2. PICK q : EnsureRow(row, p) = [row EXCEPT !.priority = q]
    BY <1>2 DEF EnsureRow
  <2> QED BY <1>2, <2>1, <2>2 DEF Justified, Row
<1> QED BY <1>1, <1>2

LEMMA AgeJustified ==
    ASSUME NEW row \in Rows, row # NoRow, Justified(row), NEW t \in Nat
    PROVE  Justified(Age(row, t))
  BY AgeType DEF Justified

\* A probed row is justified, and it was not retired before.
LEMMA UpdateJustified ==
    ASSUME NEW row \in Row, Justified(row), row.state # "retired", NEW has \in BOOLEAN
    PROVE  Justified(UpdateMarketState(row, has))
<1> USE SettingsAssumption DEF Row, State, Reason
<1>1. CASE has \/ ~row.lotsEmpty
  BY <1>1 DEF UpdateMarketState, Justified
<1>2. CASE ~(has \/ ~row.lotsEmpty) /\ row.emptyProbes + 1 >= EmptyProbeLimit
  BY <1>2 DEF UpdateMarketState, Justified
<1>3. CASE ~(has \/ ~row.lotsEmpty) /\ ~(row.emptyProbes + 1 >= EmptyProbeLimit)
  BY <1>3 DEF UpdateMarketState, Justified
<1> QED BY <1>1, <1>2, <1>3

LEMMA RetireInvalidJustified ==
    ASSUME NEW row \in Row, Justified(row), row.state # "retired", NEW rejection
    PROVE  Justified(RetireInvalid(row, rejection))
  BY DEF RetireInvalid, Justified, Row, State, Reason

LEMMA InitRetirementInv == Init => RetirementInv
  BY DEF Init, CleanLoop, CleanSession, Blank, RetirementInv

LEMMA NextRetirementInv == TypeInv /\ RetirementInv /\ [Next]_vars => RetirementInv'
<1> SUFFICES ASSUME TypeInv, RetirementInv, [Next]_vars PROVE RetirementInv'
  OBVIOUS
<1> USE DEF TypeInv, TypeOK, Loaded, RetirementInv,
            auctionVars, catalogueVars, loopVars, sessionVars
<1>1. CASE StartRun
  BY <1>1 DEF StartRun
<1>2. CASE EnsureCandidates
  <2>1. SUFFICES ASSUME NEW R \in Region, NEW i \in Item, queue'[R][i] # NoRow
                 PROVE  Justified(queue'[R][i])
    BY <1>2 DEF EnsureCandidates
  <2>2. queue[R][i] \in Rows /\ (queue[R][i] # NoRow => Justified(queue[R][i]))
    OBVIOUS
  <2>3. Justified(EnsureRow(queue[R][i], CandidatePriority(i, read)))
    BY <2>2, EnsureRowJustified, PriorityType
  <2> QED BY <1>2, <2>1, <2>2, <2>3 DEF EnsureCandidates
<1>3. CASE BeginRegion
  BY <1>3, RegionFacts DEF BeginRegion, DueItems
<1>4. CASE PickItem
  <2>1. PICK i \in todo : cur' = i /\ todo' = todo \ {i}
    BY <1>4 DEF PickItem, Foremost, PhaseQueue
  <2> QED BY <1>4, <2>1 DEF PickItem
<1>5. CASE LotsReceived
  <2>1. sRows[cur] \in Row /\ Justified(sRows[cur]) /\ sRows[cur].state # "retired"
        /\ cur \notin todo
    BY <1>5, RowFacts DEF LotsReceived
  <2>2. PICK lots \in Lots :
           sRows' = [sRows EXCEPT ![cur] =
                       [sRows[cur] EXCEPT !.lotsEmpty = (lots = {}),
                                          !.lotsDueIn = LotsRefresh(sRows[cur])]]
    BY <1>5 DEF LotsReceived
  <2>3. Justified(sRows'[cur]) /\ sRows'[cur].state # "retired"
    <3> DEFINE empty == (lots = {})
               due == LotsRefresh(sRows[cur])
    <3>1. sRows'[cur] = [sRows[cur] EXCEPT !.lotsEmpty = empty, !.lotsDueIn = due]
      BY <2>2
    <3> HIDE DEF empty, due
    <3> QED BY <2>1, <3>1 DEF Justified, Row, State, Reason
  <2>4. \A i \in Item : i # cur => sRows'[i] = sRows[i]
    BY <2>2
  <2> QED BY <1>5, <2>1, <2>3, <2>4 DEF LotsReceived
<1>6. CASE RequestRejected
  <2>1. sRows[cur] \in Row /\ Justified(sRows[cur]) /\ sRows[cur].state # "retired"
        /\ cur \notin todo
    BY <1>6, RowFacts DEF RequestRejected
  <2>2. PICK rejection \in Rejections :
           sRows' = [sRows EXCEPT ![cur] = RetireInvalid(sRows[cur], rejection)]
    BY <1>6 DEF RequestRejected
  <2>3. Justified(sRows'[cur])
    BY <2>1, <2>2, RetireInvalidJustified
  <2>4. \A i \in Item : i # cur => sRows'[i] = sRows[i]
    BY <2>2
  <2> QED BY <1>6, <2>1, <2>3, <2>4 DEF RequestRejected
<1>7. CASE HistorySkipped
  BY <1>7 DEF HistorySkipped
<1>8. CASE HistoryReceived
  <2>1. sRows[cur] \in Row /\ Justified(sRows[cur]) /\ sRows[cur].state # "retired"
        /\ cur \notin todo
    BY <1>8, RowFacts DEF HistoryReceived
  <2>2. PICK has \in BOOLEAN :
           sRows' = [sRows EXCEPT ![cur] =
                       [UpdateMarketState(sRows[cur], has)
                          EXCEPT !.historyDueIn = HistoryRefresh(sRows[cur])]]
    BY <1>8 DEF HistoryReceived
  <2>3. Justified(sRows'[cur])
    <3> DEFINE row == UpdateMarketState(sRows[cur], has)
               due == HistoryRefresh(sRows[cur])
    <3>1. row \in Row /\ Justified(row)
      BY <2>1, UpdateMarketStateType, UpdateJustified
    <3>2. sRows'[cur] = [row EXCEPT !.historyDueIn = due]
      BY <2>2
    <3> HIDE DEF row, due
    <3> QED BY <3>1, <3>2 DEF Justified, Row
  <2>4. \A i \in Item : i # cur => sRows'[i] = sRows[i]
    BY <2>2
  <2> QED BY <1>8, <2>1, <2>3, <2>4 DEF HistoryReceived
<1>9. CASE CraftPhaseEnds \/ MarketPhaseEnds \/ Recalculate
  BY <1>9 DEF CraftPhaseEnds, MarketPhaseEnds, Recalculate
<1>10. CASE CommitRegion
  <2>1. \A i \in Item : Age(sRows[i], elapsed) # NoRow => Justified(Age(sRows[i], elapsed))
    BY AgeType, AgeJustified
  <2>2. \A R \in Region, i \in Item : queue'[R][i] # NoRow => Justified(queue'[R][i])
    BY <1>10, <2>1 DEF CommitRegion
  <2>3. todo' = {} /\ pc' \in {"idle", "region"} /\ \A i \in Item : sRows'[i] = NoRow
    BY <1>10 DEF CommitRegion, RunEnds, ResetSession, Blank
  <2> QED BY <2>2, <2>3
<1>11. CASE Rollback
  BY <1>11 DEF Rollback, RunEnds, ResetSession, Blank
<1>12. CASE Tick
  <2>1. \A R \in Region, i \in Item : queue'[R][i] # NoRow => Justified(queue'[R][i])
    BY <1>12, AgeType, AgeJustified DEF Tick
  <2> QED BY <1>12, <2>1 DEF Tick
<1>13. CASE ReplaceItems \/ ReplaceRecipes
  BY <1>13 DEF ReplaceItems, ReplaceRecipes
<1>14. CASE UNCHANGED vars
  BY <1>14 DEF vars
<1> QED
  BY <1>1, <1>2, <1>3, <1>4, <1>5, <1>6, <1>7, <1>8, <1>9, <1>10, <1>11, <1>12, <1>13, <1>14
  DEF Next, Runner, RecalculationFails, CommitFails, Abort

\* Every retired item has its reason, and none is retired for want of activity before
\* EmptyProbeLimit empty probes, for every limit, budget and set of items.
THEOREM RetirementIsJustified == Spec => []RetirementJustified
<1>1. RetirementInv => RetirementJustified
  BY DEF RetirementInv, RetirementJustified, Justified
<1> QED
  BY <1>1, InitTypeInv, NextTypeInv, InitRetirementInv, NextRetirementInv, PTL DEF Spec

--------------------------------------------------------------------------------
(* The lifecycle.  Between the stored row of an item and the one of the session *)
(* lies at most one move, made when the item left `todo`: then the commit, which *)
(* shows the moves of all items at once, is a step of MarketLifecycle.           *)

Moved(old, new) == old = new \/ <<old, new>> \in Lifecycle!Moves

Stored(i) == MarketOf(queue[Regions[at]][i])

LifecycleInv ==
    InRegion =>
        /\ \A i \in Item : Moved(Stored(i), MarketOf(sRows[i]))
        /\ \A i \in todo : Stored(i) = MarketOf(sRows[i]) /\ sRows[i].state # "retired"
        /\ pc \in {"lots", "history"} =>
              /\ cur \notin todo
              /\ Stored(cur) = MarketOf(sRows[cur]) /\ sRows[cur].state # "retired"

LEMMA MarketType == \A row \in Rows : MarketOf(row) \in Lifecycle!State
  BY RowFacts DEF MarketOf, Rows, Row, State, Lifecycle!State

LEMMA AgeMarket ==
    ASSUME NEW row \in Rows, NEW t \in Nat
    PROVE  MarketOf(Age(row, t)) = MarketOf(row)
  BY AgeType DEF MarketOf

LEMMA EnsureMarket ==
    ASSUME NEW row \in Rows, NEW p \in Nat
    PROVE  Moved(MarketOf(row), MarketOf(EnsureRow(row, p)))
<1>1. CASE row = NoRow
  <2>1. EnsureRow(row, p) = NewRow(p)
    BY <1>1 DEF EnsureRow
  <2>2. NewRow(p) # NoRow /\ NewRow(p).state = "probing"
    BY <2>1, EnsureRowType, RowFacts DEF NewRow
  <2> QED BY <1>1, <2>1, <2>2 DEF MarketOf, Moved, Lifecycle!Moves
<1>2. CASE row # NoRow
  <2>1. row \in Row /\ EnsureRow(row, p) \in Row
    BY <1>2, RowFacts, EnsureRowType
  <2>2. EnsureRow(row, p).state = row.state
    BY <1>2, <2>1 DEF EnsureRow, Row
  <2> QED BY <1>2, <2>1, <2>2, RowFacts DEF MarketOf, Moved
<1> QED BY <1>1, <1>2

LEMMA UpdateMarket ==
    ASSUME NEW row \in Row, row.state # "retired", NEW has \in BOOLEAN
    PROVE  Moved(row.state, UpdateMarketState(row, has).state)
<1> USE SettingsAssumption DEF Row, State, Moved, Lifecycle!Moves
<1>1. CASE has \/ ~row.lotsEmpty
  BY <1>1 DEF UpdateMarketState
<1>2. CASE ~(has \/ ~row.lotsEmpty) /\ row.emptyProbes + 1 >= EmptyProbeLimit
  BY <1>2 DEF UpdateMarketState
<1>3. CASE ~(has \/ ~row.lotsEmpty) /\ ~(row.emptyProbes + 1 >= EmptyProbeLimit)
  BY <1>3 DEF UpdateMarketState
<1> QED BY <1>1, <1>2, <1>3

LEMMA RetireMarket ==
    ASSUME NEW row \in Row, row.state # "retired", NEW rejection
    PROVE  Moved(row.state, RetireInvalid(row, rejection).state)
  BY DEF RetireInvalid, Row, State, Moved, Lifecycle!Moves

LEMMA InitLifecycleInv == Init => LifecycleInv
  BY DEF Init, InRegion, LifecycleInv

\* A step of the loop that changes one row of the session, by one move at most.
LEMMA RowStep ==
    ASSUME TypeInv, LifecycleInv, pc \in {"lots", "history"}, pc' \in PC,
           UNCHANGED <<queue, at, todo, cur>>,
           NEW row \in Row, Moved(sRows[cur].state, row.state),
           sRows' = [sRows EXCEPT ![cur] = row],
           pc' \in {"lots", "history"} => row.state = sRows[cur].state
    PROVE  LifecycleInv'
<1> USE DEF TypeInv, TypeOK, Loaded, LifecycleInv, InRegion
<1>1. /\ cur \in Item /\ cur \notin todo /\ sRows[cur].state # "retired"
      /\ Stored(cur) = MarketOf(sRows[cur])
      /\ \A i \in Item : Moved(Stored(i), MarketOf(sRows[i]))
      /\ \A i \in todo : Stored(i) = MarketOf(sRows[i]) /\ sRows[i].state # "retired"
  OBVIOUS
<1>2. MarketOf(sRows[cur]) = sRows[cur].state /\ MarketOf(row) = row.state
  BY RowFacts DEF MarketOf
<1>3. sRows'[cur] = row /\ \A i \in Item : i # cur => sRows'[i] = sRows[i]
  BY <1>1
<1>4. \A i \in Item : Stored(i)' = Stored(i)
  BY DEF Stored
<1>5. \A i \in Item : Moved(Stored(i)', MarketOf(sRows'[i]))
  BY <1>1, <1>2, <1>3, <1>4
<1>6. \A i \in todo : i \in Item /\ i # cur
  BY <1>1
<1> QED BY <1>1, <1>2, <1>3, <1>4, <1>5, <1>6

LEMMA NextLifecycleInv == TypeInv /\ LifecycleInv /\ [Next]_vars => LifecycleInv'
<1> SUFFICES ASSUME TypeInv, LifecycleInv, [Next]_vars PROVE LifecycleInv'
  OBVIOUS
<1> USE DEF TypeInv, TypeOK, Loaded, auctionVars, catalogueVars, loopVars, sessionVars
<1>1. CASE StartRun \/ EnsureCandidates
  BY <1>1 DEF StartRun, EnsureCandidates, InRegion, LifecycleInv
<1>2. CASE BeginRegion
  BY <1>2, RegionFacts DEF BeginRegion, DueItems, LifecycleInv, Stored, Moved
<1>3. CASE PickItem
  <2>1. PICK i \in todo : cur' = i /\ todo' = todo \ {i}
    BY <1>3 DEF PickItem, Foremost, PhaseQueue
  <2> QED BY <1>3, <2>1 DEF PickItem, LifecycleInv, InRegion, Stored
<1>4. CASE LotsReceived
  <2>1. PICK lots \in Lots :
           sRows' = [sRows EXCEPT ![cur] =
                       [sRows[cur] EXCEPT !.lotsEmpty = (lots = {}),
                                          !.lotsDueIn = LotsRefresh(sRows[cur])]]
    BY <1>4 DEF LotsReceived
  <2> DEFINE empty == (lots = {})
             due == LotsRefresh(sRows[cur])
             row == [sRows[cur] EXCEPT !.lotsEmpty = empty, !.lotsDueIn = due]
  <2>2. sRows[cur] \in Row
    BY <1>4, RowFacts DEF LotsReceived
  <2>3. empty \in BOOLEAN /\ due \in Nat
    BY <2>2, RefreshType
  <2>4. row \in Row /\ row.state = sRows[cur].state
    <3> HIDE DEF empty, due
    <3> QED BY <2>2, <2>3 DEF Row
  <2>5. sRows' = [sRows EXCEPT ![cur] = row]
    BY <2>1
  <2>6. pc = "lots" /\ pc' = "history" /\ UNCHANGED <<queue, at, todo, cur>>
    BY <1>4 DEF LotsReceived
  <2> HIDE DEF row
  <2> QED BY <2>4, <2>5, <2>6, RowStep DEF Moved, PC
<1>5. CASE RequestRejected
  <2>1. PICK rejection \in Rejections :
           sRows' = [sRows EXCEPT ![cur] = RetireInvalid(sRows[cur], rejection)]
    BY <1>5 DEF RequestRejected
  <2>2. /\ pc \in {"lots", "history"} /\ pc' = "item" /\ UNCHANGED <<queue, at, todo, cur>>
    BY <1>5 DEF RequestRejected
  <2>3. sRows[cur] \in Row /\ sRows[cur].state # "retired"
    BY <2>2, RowFacts DEF LifecycleInv, InRegion
  <2>4. /\ RetireInvalid(sRows[cur], rejection) \in Row
        /\ Moved(sRows[cur].state, RetireInvalid(sRows[cur], rejection).state)
    BY <2>3, RetireInvalidType, RetireMarket
  <2> QED BY <2>1, <2>2, <2>4, RowStep DEF PC
<1>6. CASE HistorySkipped
  BY <1>6 DEF HistorySkipped, LifecycleInv, InRegion, Stored
<1>7. CASE HistoryReceived
  <2>1. PICK has \in BOOLEAN :
           sRows' = [sRows EXCEPT ![cur] =
                       [UpdateMarketState(sRows[cur], has)
                          EXCEPT !.historyDueIn = HistoryRefresh(sRows[cur])]]
    BY <1>7 DEF HistoryReceived
  <2>2. /\ pc = "history" /\ pc' = "item" /\ UNCHANGED <<queue, at, todo, cur>>
    BY <1>7 DEF HistoryReceived
  <2> DEFINE probed == UpdateMarketState(sRows[cur], has)
             due == HistoryRefresh(sRows[cur])
             row == [probed EXCEPT !.historyDueIn = due]
  <2>3. sRows[cur] \in Row /\ sRows[cur].state # "retired"
    BY <2>2, RowFacts DEF LifecycleInv, InRegion
  <2>4. probed \in Row /\ Moved(sRows[cur].state, probed.state) /\ due \in Nat
    BY <2>3, UpdateMarketStateType, UpdateMarket, RefreshType
  <2>5. row \in Row /\ row.state = probed.state
    <3> HIDE DEF probed, due
    <3> QED BY <2>4 DEF Row
  <2>6. sRows' = [sRows EXCEPT ![cur] = row]
    BY <2>1
  <2> HIDE DEF row, probed
  <2> QED BY <2>2, <2>4, <2>5, <2>6, RowStep DEF PC
<1>8. CASE CraftPhaseEnds \/ MarketPhaseEnds \/ Recalculate
  BY <1>8 DEF CraftPhaseEnds, MarketPhaseEnds, Recalculate, LifecycleInv, InRegion, Stored
<1>9. CASE CommitRegion \/ Rollback
  BY <1>9 DEF CommitRegion, Rollback, RunEnds, LifecycleInv, InRegion
<1>10. CASE Tick
  <2>1. \A R \in Region, i \in Item : MarketOf(queue'[R][i]) = MarketOf(queue[R][i])
    BY <1>10, AgeMarket DEF Tick
  <2>2. \A i \in Item : Stored(i)' = Stored(i)
    BY <1>10, <2>1, RegionFacts DEF Tick, Stored
  <2> QED BY <1>10, <2>2 DEF Tick, LifecycleInv, InRegion
<1>11. CASE ReplaceItems \/ ReplaceRecipes
  BY <1>11 DEF ReplaceItems, ReplaceRecipes, LifecycleInv, InRegion, Stored
<1>12. CASE UNCHANGED vars
  BY <1>12 DEF vars, LifecycleInv, InRegion, Stored
<1> QED
  BY <1>1, <1>2, <1>3, <1>4, <1>5, <1>6, <1>7, <1>8, <1>9, <1>10, <1>11, <1>12
  DEF Next, Runner, RecalculationFails, CommitFails, Abort

LEMMA StepFollowsLifecycle ==
    TypeInv /\ TypeInv' /\ LifecycleInv /\ [Next]_vars => [Lifecycle!Next]_Market
<1> SUFFICES ASSUME TypeInv, TypeInv', LifecycleInv, [Next]_vars
             PROVE  [Lifecycle!Next]_Market
  OBVIOUS
<1>1. Market' \in [Region -> [Item -> Lifecycle!State]]
  BY MarketType DEF Market, TypeInv, TypeOK
<1>2. SUFFICES \A R \in Region, i \in Item :
                  Moved(MarketOf(queue[R][i]), MarketOf(queue'[R][i]))
  BY <1>1 DEF Lifecycle!Next, Market, Moved
<1> USE DEF TypeInv, TypeOK, auctionVars
<1>3. CASE EnsureCandidates
  BY <1>3, EnsureMarket, PriorityType DEF EnsureCandidates, Moved
<1>4. CASE CommitRegion
  <2>1. \A i \in Item : Moved(Stored(i), MarketOf(sRows[i]))
    BY <1>4 DEF CommitRegion, LifecycleInv, InRegion
  <2>2. \A i \in Item : MarketOf(Age(sRows[i], elapsed)) = MarketOf(sRows[i])
    BY AgeMarket
  <2> QED BY <1>4, <2>1, <2>2 DEF CommitRegion, Stored, Moved
<1>5. CASE Tick
  BY <1>5, AgeMarket DEF Tick, Moved
<1>6. CASE UNCHANGED queue
  BY <1>6 DEF Moved
<1>7. UNCHANGED queue \/ EnsureCandidates \/ CommitRegion \/ Tick
  BY DEF Next, Runner, RecalculationFails, CommitFails, Abort, Rollback, vars, StartRun,
     BeginRegion, PickItem, LotsReceived, RequestRejected, HistorySkipped, HistoryReceived,
     CraftPhaseEnds, MarketPhaseEnds, Recalculate, ReplaceItems, ReplaceRecipes
<1> QED BY <1>3, <1>4, <1>5, <1>6, <1>7

\* AuctionSync implements MarketLifecycle: no interleaving of runs, failures and catalogue
\* replacements revives a retired item or probes an active one as if it were new.
THEOREM ImplementsLifecycle == Spec => FollowsLifecycle
<1>1. Init => Lifecycle!Init
  BY DEF Init, Blank, Market, MarketOf, Lifecycle!Init
<1> QED
  BY <1>1, InitTypeInv, NextTypeInv, InitLifecycleInv, NextLifecycleInv,
     StepFollowsLifecycle, PTL
  DEF Spec, FollowsLifecycle, Lifecycle!Spec

--------------------------------------------------------------------------------
(* Evidence of activity.  A row that says that lots were seen, which is read only once *)
(* its lots request has been answered (lotsDueIn > 0), has a price; so has a row that  *)
(* is active, or a trade.  The history of an item is asked for after its lots alone.   *)

Evidence(row, price, traded) ==
    /\ row.lotsDueIn > 0 /\ ~row.lotsEmpty => price # NoRow
    /\ row.state = "active" => price # NoRow \/ traded # {}

EvidenceInv ==
    /\ \A R \in Region, i \in Item : queue[R][i] # NoRow =>
          Evidence(queue[R][i], prices[R][i], trades[R][i])
    /\ \A i \in Item : sRows[i] # NoRow => Evidence(sRows[i], sPrices[i], sTrades[i])
    /\ pc = "history" => sRows[cur].lotsDueIn > 0

LEMMA EnsureRowEvidence ==
    ASSUME NEW row \in Rows, NEW price, NEW traded, NEW p \in Nat,
           row # NoRow => Evidence(row, price, traded)
    PROVE  Evidence(EnsureRow(row, p), price, traded)
<1>1. CASE row = NoRow
  BY <1>1 DEF EnsureRow, NewRow, Evidence
<1>2. CASE row # NoRow
  <2>1. row \in Row
    BY <1>2, RowFacts
  <2>2. PICK q : EnsureRow(row, p) = [row EXCEPT !.priority = q]
    BY <1>2 DEF EnsureRow
  <2> QED BY <1>2, <2>1, <2>2 DEF Evidence, Row
<1> QED BY <1>1, <1>2

\* Time only brings the next lots request nearer.
LEMMA AgeEvidence ==
    ASSUME NEW row \in Rows, row # NoRow, NEW price, NEW traded, NEW t \in Nat,
           Evidence(row, price, traded)
    PROVE  Evidence(Age(row, t), price, traded)
<1>1. row \in Row
  BY RowFacts
<1>2. Age(row, t).state = row.state /\ Age(row, t).lotsEmpty = row.lotsEmpty
  BY AgeType
<1>3. Age(row, t).lotsDueIn = Left(row.lotsDueIn, t)
  BY <1>1 DEF Age, Row
<1>4. Left(row.lotsDueIn, t) > 0 => row.lotsDueIn > 0
  BY <1>1 DEF Left, Row
<1> QED BY <1>2, <1>3, <1>4 DEF Evidence

\* A probe of an item whose lots were asked for: what it makes active has evidence.
LEMMA UpdateEvidence ==
    ASSUME NEW row \in Row, NEW price, NEW traded, NEW more, row.lotsDueIn > 0,
           Evidence(row, price, traded)
    PROVE  Evidence(UpdateMarketState(row, more # {}), price, traded \cup more)
<1> USE DEF Row, State, Evidence
<1>1. CASE more # {} \/ ~row.lotsEmpty
  BY <1>1 DEF UpdateMarketState
<1>2. CASE more = {} /\ row.lotsEmpty /\ row.emptyProbes + 1 >= EmptyProbeLimit
  BY <1>2 DEF UpdateMarketState
<1>3. CASE more = {} /\ row.lotsEmpty /\ ~(row.emptyProbes + 1 >= EmptyProbeLimit)
  BY <1>3 DEF UpdateMarketState
<1> QED BY <1>1, <1>2, <1>3

LEMMA RetireEvidence ==
    ASSUME NEW row \in Row, NEW price, NEW traded, NEW rejection,
           Evidence(row, price, traded)
    PROVE  Evidence(RetireInvalid(row, rejection), price, traded)
  BY DEF RetireInvalid, Row, State, Reason, Evidence

LEMMA InitEvidenceInv == Init => EvidenceInv
  BY DEF Init, CleanSession, Blank, EvidenceInv

LEMMA NextEvidenceInv == TypeInv /\ EvidenceInv /\ [Next]_vars => EvidenceInv'
<1> SUFFICES ASSUME TypeInv, EvidenceInv, [Next]_vars PROVE EvidenceInv'
  OBVIOUS
<1> USE DEF TypeInv, TypeOK, Loaded, EvidenceInv,
            auctionVars, catalogueVars, loopVars, sessionVars
<1>1. CASE StartRun
  BY <1>1 DEF StartRun
<1>2. CASE EnsureCandidates
  <2>1. SUFFICES ASSUME NEW R \in Region, NEW i \in Item, queue'[R][i] # NoRow
                 PROVE  Evidence(queue'[R][i], prices[R][i], trades[R][i])
    BY <1>2 DEF EnsureCandidates
  <2>2. /\ queue[R][i] \in Rows
        /\ queue[R][i] # NoRow => Evidence(queue[R][i], prices[R][i], trades[R][i])
    OBVIOUS
  <2>3. Evidence(EnsureRow(queue[R][i], CandidatePriority(i, read)), prices[R][i], trades[R][i])
    BY <2>2, EnsureRowEvidence, PriorityType
  <2> QED BY <1>2, <2>1, <2>2, <2>3 DEF EnsureCandidates
<1>3. CASE BeginRegion
  BY <1>3, RegionFacts DEF BeginRegion
<1>4. CASE PickItem
  <2>1. PICK i \in todo :
           /\ cur' = i /\ pc' = IF sRows[i].lotsDueIn = 0 THEN "lots" ELSE "history"
    BY <1>4 DEF PickItem, Foremost, PhaseQueue
  <2>2. i \in Item /\ sRows[i] \in Row
    BY <2>1, RowFacts
  <2>3. sRows[i].lotsDueIn \in Nat
    BY <2>2 DEF Row
  <2>4. pc' = "history" => sRows[i].lotsDueIn > 0
    BY <2>1, <2>3
  <2> QED BY <1>4, <2>1, <2>4 DEF PickItem
<1>5. CASE LotsReceived
  <2>1. sRows[cur] \in Row /\ Evidence(sRows[cur], sPrices[cur], sTrades[cur])
    BY <1>5, RowFacts DEF LotsReceived
  <2>2. PICK lots \in Lots :
           /\ sRows' = [sRows EXCEPT ![cur] =
                          [sRows[cur] EXCEPT !.lotsEmpty = (lots = {}),
                                             !.lotsDueIn = LotsRefresh(sRows[cur])]]
           /\ \/ lots = {} /\ sPrices' = sPrices
              \/ /\ lots # {}
                 /\ \E best \in BestBuyout(lots) : sPrices' = [sPrices EXCEPT ![cur] = best]
    BY <1>5 DEF LotsReceived
  <2>3. sPrices[cur] # NoRow => sPrices'[cur] # NoRow
    BY <2>2, BestBuyoutType, NoRowAssumption
  <2>4. lots # {} => sPrices'[cur] # NoRow
    BY <2>2, BestBuyoutType, NoRowAssumption
  <2>5. Evidence(sRows'[cur], sPrices'[cur], sTrades[cur]) /\ sRows'[cur].lotsDueIn > 0
    <3> DEFINE empty == (lots = {})
               due == LotsRefresh(sRows[cur])
    <3>1. sRows'[cur] = [sRows[cur] EXCEPT !.lotsEmpty = empty, !.lotsDueIn = due]
      BY <2>2
    <3>2. due \in Nat \ {0} /\ (~empty => sPrices'[cur] # NoRow)
      BY <2>1, <2>4, RefreshType
    <3> HIDE DEF empty, due
    <3> QED BY <2>1, <2>3, <3>1, <3>2 DEF Evidence, Row
  <2>6. \A i \in Item : i # cur => sRows'[i] = sRows[i] /\ sPrices'[i] = sPrices[i]
    BY <2>2
  <2> QED BY <1>5, <2>5, <2>6 DEF LotsReceived
<1>6. CASE RequestRejected
  <2>1. sRows[cur] \in Row /\ Evidence(sRows[cur], sPrices[cur], sTrades[cur])
    BY <1>6, RowFacts DEF RequestRejected
  <2>2. PICK rejection \in Rejections :
           sRows' = [sRows EXCEPT ![cur] = RetireInvalid(sRows[cur], rejection)]
    BY <1>6 DEF RequestRejected
  <2>3. Evidence(sRows'[cur], sPrices[cur], sTrades[cur])
    BY <2>1, <2>2, RetireEvidence
  <2>4. \A i \in Item : i # cur => sRows'[i] = sRows[i]
    BY <2>2
  <2> QED BY <1>6, <2>3, <2>4 DEF RequestRejected
<1>7. CASE HistorySkipped
  BY <1>7 DEF HistorySkipped
<1>8. CASE HistoryReceived
  <2>1. /\ sRows[cur] \in Row /\ Evidence(sRows[cur], sPrices[cur], sTrades[cur])
        /\ sRows[cur].lotsDueIn > 0
    BY <1>8, RowFacts DEF HistoryReceived
  <2>2. PICK reply \in SUBSET Trade :
           /\ sRows' = [sRows EXCEPT ![cur] =
                          [UpdateMarketState(sRows[cur], reply # {})
                             EXCEPT !.historyDueIn = HistoryRefresh(sRows[cur])]]
           /\ sTrades' = [sTrades EXCEPT ![cur] = @ \cup reply]
    BY <1>8 DEF HistoryReceived
  <2>3. Evidence(sRows'[cur], sPrices[cur], sTrades'[cur])
    <3> DEFINE row == UpdateMarketState(sRows[cur], reply # {})
               due == HistoryRefresh(sRows[cur])
    <3>1. row \in Row /\ Evidence(row, sPrices[cur], sTrades[cur] \cup reply)
      BY <2>1, UpdateMarketStateType, UpdateEvidence
    <3>2. sRows'[cur] = [row EXCEPT !.historyDueIn = due]
      BY <2>2
    <3>3. sTrades'[cur] = sTrades[cur] \cup reply
      BY <2>2
    <3> HIDE DEF row, due
    <3> QED BY <3>1, <3>2, <3>3 DEF Evidence, Row
  <2>4. \A i \in Item : i # cur => sRows'[i] = sRows[i] /\ sTrades'[i] = sTrades[i]
    BY <2>2
  <2> QED BY <1>8, <2>3, <2>4 DEF HistoryReceived
<1>9. CASE CraftPhaseEnds \/ MarketPhaseEnds \/ Recalculate
  BY <1>9 DEF CraftPhaseEnds, MarketPhaseEnds, Recalculate
<1>10. CASE CommitRegion
  <2>1. \A i \in Item : Age(sRows[i], elapsed) # NoRow =>
            Evidence(Age(sRows[i], elapsed), sPrices[i], sTrades[i])
    BY AgeType, AgeEvidence
  <2>2. \A R \in Region, i \in Item : queue'[R][i] # NoRow =>
            Evidence(queue'[R][i], prices'[R][i], trades'[R][i])
    BY <1>10, <2>1 DEF CommitRegion
  <2>3. pc' \in {"idle", "region"} /\ \A i \in Item : sRows'[i] = NoRow
    BY <1>10 DEF CommitRegion, RunEnds, ResetSession, Blank
  <2> QED BY <2>2, <2>3
<1>11. CASE Rollback
  BY <1>11 DEF Rollback, RunEnds, ResetSession, Blank
<1>12. CASE Tick
  <2>1. \A R \in Region, i \in Item : queue'[R][i] # NoRow =>
            Evidence(queue'[R][i], prices[R][i], trades[R][i])
    BY <1>12, AgeType, AgeEvidence DEF Tick
  <2> QED BY <1>12, <2>1 DEF Tick
<1>13. CASE ReplaceItems \/ ReplaceRecipes
  BY <1>13 DEF ReplaceItems, ReplaceRecipes
<1>14. CASE UNCHANGED vars
  BY <1>14 DEF vars
<1> QED
  BY <1>1, <1>2, <1>3, <1>4, <1>5, <1>6, <1>7, <1>8, <1>9, <1>10, <1>11, <1>12, <1>13, <1>14
  DEF Next, Runner, RecalculationFails, CommitFails, Abort

\* No row is active without a stored lot or trade of its item, for every order of replies,
\* failed requests, rollbacks and changes of priority.
THEOREM ActivityHasEvidence == Spec => []ActivityIsStored
<1>1. EvidenceInv => ActivityIsStored
  BY DEF EvidenceInv, ActivityIsStored, Evidence
<1> QED
  BY <1>1, InitTypeInv, NextTypeInv, InitEvidenceInv, NextEvidenceInv, PTL DEF Spec

--------------------------------------------------------------------------------
(* Snapshots and prices.  While no reply has changed a price, the session has the *)
(* stored ones; once one has, every stored snapshot is recalculated before the    *)
(* commit, unless its recipe is gone.                                             *)

Agrees(view, of) == \A i \in Item : view[i] \in {0, of[i]}

SnapshotInv ==
    /\ \A R \in Region, r \in Recipe : snapshots[R][r] # NoRow =>
          r \in recipes /\ Agrees(snapshots[R][r], prices[R])
    /\ InRegion /\ ~changed => sPrices = prices[Regions[at]]
    /\ pc # "commit" => \A r \in Recipe : pending[r] = NoRow
    /\ pc = "commit" /\ ~stale =>
          \A r \in Recipe : pending[r] # NoRow => r \in recipes /\ Agrees(pending[r], sPrices)
    /\ pc = "commit" /\ ~stale /\ changed =>
          \A r \in Recipe : snapshots[Regions[at]][r] # NoRow => pending[r] # NoRow

LEMMA ProfitAgrees == ASSUME NEW r PROVE Agrees(Profit(r), sPrices)
  BY DEF Agrees, Profit, Visible

LEMMA InitSnapshotInv == Init => SnapshotInv
  BY DEF Init, CleanSession, InRegion, SnapshotInv

LEMMA NextSnapshotInv == TypeInv /\ SnapshotInv /\ [Next]_vars => SnapshotInv'
<1> SUFFICES ASSUME TypeInv, SnapshotInv, [Next]_vars PROVE SnapshotInv'
  OBVIOUS
<1> USE DEF TypeInv, TypeOK, SnapshotInv, InRegion, Agrees,
            auctionVars, catalogueVars, loopVars, sessionVars
<1>1. CASE StartRun \/ EnsureCandidates
  BY <1>1 DEF StartRun, EnsureCandidates
<1>2. CASE BeginRegion
  BY <1>2 DEF BeginRegion
<1>3. CASE PickItem
  BY <1>3 DEF PickItem
<1>4. CASE LotsReceived
  BY <1>4 DEF LotsReceived
<1>5. CASE RequestRejected \/ HistorySkipped \/ HistoryReceived \/ CraftPhaseEnds
  BY <1>5 DEF RequestRejected, HistorySkipped, HistoryReceived, CraftPhaseEnds
<1>6. CASE MarketPhaseEnds
  BY <1>6 DEF MarketPhaseEnds
<1>7. CASE Recalculate
  <2>1. \A r \in Recipe : pending'[r] # NoRow <=> r \in recipes
    BY <1>7, ProfitType, NoRowAssumption DEF Recalculate
  <2>2. \A r \in recipes : pending'[r] = Profit(r)
    BY <1>7 DEF Recalculate
  <2> QED BY <1>7, <2>1, <2>2, ProfitAgrees, RegionFacts DEF Recalculate
<1>8. CASE CommitRegion
  <2> DEFINE here == Regions[at]
  <2>1. here \in Region /\ pc' \in {"idle", "region"}
    BY <1>8, RegionFacts DEF CommitRegion, RunEnds
  <2>2. SUFFICES ASSUME NEW R \in Region, NEW r \in Recipe, snapshots'[R][r] # NoRow
                 PROVE  r \in recipes /\ Agrees(snapshots'[R][r], prices'[R])
    BY <1>8, <2>1 DEF CommitRegion, ResetSession
  <2>3. CASE R # here
    BY <1>8, <2>2, <2>3 DEF CommitRegion
  <2>4. CASE R = here
    <3>1. prices'[R] = sPrices
      BY <1>8, <2>1, <2>4 DEF CommitRegion
    <3>2. CASE pending[r] # NoRow
      BY <1>8, <2>1, <2>4, <3>1, <3>2 DEF CommitRegion
    <3>3. CASE pending[r] = NoRow
      <4>1. snapshots'[R][r] = snapshots[R][r]
        BY <1>8, <2>1, <2>4, <3>3 DEF CommitRegion
      <4>2. ~changed
        BY <1>8, <2>2, <2>4, <3>3, <4>1 DEF CommitRegion
      <4> QED BY <1>8, <2>2, <2>4, <3>1, <4>1, <4>2 DEF CommitRegion
    <3> QED BY <3>2, <3>3
  <2> QED BY <2>3, <2>4
<1>9. CASE Rollback
  BY <1>9 DEF Rollback, RunEnds, ResetSession
<1>10. CASE Tick \/ ReplaceItems
  BY <1>10 DEF Tick, ReplaceItems
<1>11. CASE ReplaceRecipes
  BY <1>11, RegionFacts DEF ReplaceRecipes
<1>12. CASE UNCHANGED vars
  BY <1>12 DEF vars
<1> QED
  BY <1>1, <1>2, <1>3, <1>4, <1>5, <1>6, <1>7, <1>8, <1>9, <1>10, <1>11, <1>12
  DEF Next, Runner, RecalculationFails, CommitFails, Abort

\* A stored craft profit never rests on a price other than the stored one, for every
\* catalogue, every interleaving of its replacement and every failure.
THEOREM SnapshotsAgreeWithPrices == Spec => []SnapshotNeverContradicts
<1>1. SnapshotInv => SnapshotNeverContradicts
  BY DEF SnapshotInv, SnapshotNeverContradicts, Agrees
<1> QED
  BY <1>1, InitTypeInv, NextTypeInv, InitSnapshotInv, NextSnapshotInv, PTL DEF Spec

--------------------------------------------------------------------------------
(* Candles.  What the session holds of candles and trades agrees throughout, so a *)
(* commit, which stores both, keeps them in agreement in the database.            *)

CandleInv == candles = trades /\ sCandles = sTrades

LEMMA NextCandleInv == TypeInv /\ CandleInv /\ [Next]_vars => CandleInv'
<1> SUFFICES ASSUME TypeInv, CandleInv, [Next]_vars PROVE CandleInv'
  OBVIOUS
<1> USE DEF CandleInv, auctionVars, sessionVars
<1>1. CASE StartRun \/ EnsureCandidates \/ PickItem \/ LotsReceived \/ RequestRejected
  BY <1>1 DEF StartRun, EnsureCandidates, PickItem, LotsReceived, RequestRejected
<1>2. CASE HistorySkipped \/ CraftPhaseEnds \/ MarketPhaseEnds \/ Recalculate
  BY <1>2 DEF HistorySkipped, CraftPhaseEnds, MarketPhaseEnds, Recalculate
<1>3. CASE BeginRegion
  BY <1>3 DEF BeginRegion
<1>4. CASE HistoryReceived
  <2>1. PICK reply \in SUBSET Trade :
          /\ sTrades' = [sTrades EXCEPT ![cur] = @ \cup reply]
          /\ \/ reply = {} /\ sCandles' = sCandles
             \/ reply # {} /\ sCandles' = [sCandles EXCEPT ![cur] = CandleSource(cur, reply)]
    BY <1>4 DEF HistoryReceived
  <2>2. sTrades \in [Item -> SUBSET Trade] /\ cur \in Item
    BY DEF TypeInv, TypeOK
  <2>3. sCandles' = sTrades'
    BY <2>1, <2>2 DEF CandleSource
  <2> QED
    BY <1>4, <2>3 DEF HistoryReceived
<1>5. CASE CommitRegion
  BY <1>5 DEF CommitRegion, ResetSession
<1>6. CASE Rollback
  BY <1>6 DEF Rollback, ResetSession
<1>7. CASE Tick \/ ReplaceItems \/ ReplaceRecipes \/ UNCHANGED vars
  BY <1>7 DEF Tick, ReplaceItems, ReplaceRecipes, vars
<1> QED
  BY <1>1, <1>2, <1>3, <1>4, <1>5, <1>6, <1>7
  DEF Next, Runner, RecalculationFails, CommitFails, Abort

\* The candles cover every stored trade, after any sequence of replies, commits and
\* rollbacks: each reply is flushed before its candles are rebuilt (auction_sync.py:163).
THEOREM CandlesStayCurrent == Spec => []CandlesCoverTrades
<1>1. Init => CandleInv
  BY DEF Init, CleanSession, CandleInv
<1>2. CandleInv => CandlesCoverTrades
  BY DEF CandleInv, CandlesCoverTrades
<1> QED
  BY <1>1, <1>2, InitTypeInv, NextTypeInv, NextCandleInv, PTL DEF Spec

================================================================================
