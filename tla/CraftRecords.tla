----------------------------- MODULE CraftRecords -----------------------------
(***************************************************************************)
(* Craft records and their sales: POST /craft-records (create_record) and  *)
(* POST /craft-records/{id}/sales (add_sale), called by any number of      *)
(* requests at once, each with a session of its own.  Every await on the   *)
(* database is a step.  PostgreSQL reads committed rows, statement by      *)
(* statement; SELECT ... FOR UPDATE waits for the row lock and keeps it    *)
(* until the transaction ends.                                             *)
(*                                                                         *)
(* The sales of a record are kept as their total quantity, which is all    *)
(* that add_sale asks of them.  A quote is what the catalogue, the auction *)
(* prices and the craft profits say of the item asked for; it changes      *)
(* between the statements of create_record.                                *)
(***************************************************************************)
EXTENDS Integers, FiniteSets

CONSTANTS
    Request,    \* HTTP requests that may be in progress together
    User,       \* users with trading:write
    RecordId,   \* identities of craft records
    Quantity,   \* quantities that a request may name
    Quote,      \* what the tables may say of the item
    Crashes,    \* whether a request may be cancelled, or its connection lost
    NoRow,      \* no such row
    NoPrice     \* NULL

ASSUME QuantityAssumption == Quantity \subseteq Nat \ {0}
ASSUME QuoteAssumption ==
    Quote \subseteq [matches : 0..2, buyout : Nat \cup {NoPrice}, bid : Nat \cup {NoPrice},
                     recipe : Nat \cup {NoPrice}]
ASSUME CrashesAssumption == Crashes \in BOOLEAN
ASSUME NoPriceAssumption == NoPrice \notin Nat

CraftRecord == [owner : User, quantity : Nat, unitCost : Nat, source : {"market", "recipe"}]
StockRow == [owner : User, left : Int]
ASSUME NoRowAssumption ==
    NoRow \notin CraftRecord /\ NoRow \notin StockRow /\ NoRow \notin Request

VARIABLES
    quote,      \* items, auction_current_prices, craft_profit_snapshots
    records,    \* [RecordId -> CraftRecord or NoRow]      craft_records
    sold,       \* [RecordId -> Nat]    total of the rows of craft_sales
    lock,       \* [RecordId -> Request or NoRow]          row locks
    pc, user, record, asked,    \* the requests
    seen,       \* the sales that a request has loaded, in total
    price,      \* the market price that a request has read
    answer      \* the last answer of a request

tables == <<records, sold>>
arguments == <<user, record, asked>>
vars == <<quote, tables, lock, pc, arguments, seen, price, answer>>

Plain(kind) == [kind |-> kind, record |-> NoRow, asked |-> 0, left |-> 0]
About(kind, id, n, left) == [kind |-> kind, record |-> id, asked |-> n, left |-> left]

Init ==
    /\ quote \in Quote
    /\ records = [id \in RecordId |-> NoRow] /\ sold = [id \in RecordId |-> 0]
    /\ lock = [id \in RecordId |-> NoRow]
    /\ pc = [p \in Request |-> "idle"]
    /\ user \in [Request -> User] /\ record \in [Request -> RecordId]
    /\ asked \in [Request -> Quantity]
    /\ seen = [p \in Request |-> 0] /\ price = [p \in Request |-> NoPrice]
    /\ answer = [p \in Request |-> Plain("none")]

Goto(p, label) == pc' = [pc EXCEPT ![p] = label]

\* Mutation: the session of a refused request is not closed.
AnswerHoldingLocks(p, reply) ==
    /\ answer' = [answer EXCEPT ![p] = reply]
    /\ Goto(p, "idle")
    /\ seen' = [seen EXCEPT ![p] = 0] /\ price' = [price EXCEPT ![p] = NoPrice]
    /\ UNCHANGED lock

\* The request is over: its session is closed, which releases the locks it holds.
Answer(p, reply) ==
    /\ answer' = [answer EXCEPT ![p] = reply]
    /\ Goto(p, "idle")
    /\ lock' = [id \in RecordId |-> IF lock[id] = p THEN NoRow ELSE lock[id]]
    /\ seen' = [seen EXCEPT ![p] = 0] /\ price' = [price EXCEPT ![p] = NoPrice]

Submit(p, first) ==
    /\ pc[p] = "idle"
    /\ \E u \in User : user' = [user EXCEPT ![p] = u]
    /\ \E n \in Quantity : asked' = [asked EXCEPT ![p] = n]
    /\ Goto(p, first)
    /\ UNCHANGED <<quote, tables, lock, seen, price, answer>>

--------------------------------------------------------------------------------
(* add_sale *)

\* The row that the WHERE clause selects.
Owned(p) == records[record[p]] # NoRow /\ records[record[p]].owner = user[p]

SubmitSale(p) ==
    /\ Submit(p, "sale")
    /\ \E id \in RecordId : record' = [record EXCEPT ![p] = id]

RecordNotFound(p) ==
    /\ pc[p] = "sale" /\ ~Owned(p)
    /\ Answer(p, Plain("not_found"))
    /\ UNCHANGED <<quote, tables, arguments>>

\* Mutation: the row is selected without FOR UPDATE.
LockFreely(p) ==
    /\ pc[p] = "sale" /\ Owned(p)
    /\ Goto(p, "locked")
    /\ UNCHANGED <<quote, tables, lock, arguments, seen, price, answer>>

LockRecord(p) ==
    /\ pc[p] = "sale" /\ Owned(p) /\ lock[record[p]] = NoRow
    /\ lock' = [lock EXCEPT ![record[p]] = p]
    /\ Goto(p, "locked")
    /\ UNCHANGED <<quote, tables, arguments, seen, price, answer>>

\* selectinload: the sales are the rows that its own statement finds.
LoadSales(p) ==
    /\ pc[p] = "locked"
    /\ seen' = [seen EXCEPT ![p] = sold[record[p]]]
    /\ Goto(p, "loaded")
    /\ UNCHANGED <<quote, tables, lock, arguments, price, answer>>

Remaining(p) == records[record[p]].quantity - seen[p]

\* Mutation: something must remain.
FitsStrictly(p) == asked[p] < Remaining(p)

Fits(p) == asked[p] <= Remaining(p)

RefuseSale(p) ==
    /\ pc[p] = "loaded" /\ ~Fits(p)
    /\ Answer(p, About("too_many", record[p], asked[p], Remaining(p)))
    /\ UNCHANGED <<quote, tables, arguments>>

\* The commit, and the view of the record with the new sale.
StoreSale(p) ==
    /\ pc[p] = "loaded" /\ Fits(p)
    /\ sold' = [sold EXCEPT ![record[p]] = @ + asked[p]]
    /\ Answer(p, About("sold", record[p], asked[p], Remaining(p) - asked[p]))
    /\ UNCHANGED <<quote, records, arguments>>

--------------------------------------------------------------------------------
(* create_record *)

Creating == {p \in Request : pc[p] \in {"create", "pricing", "costing"}}

\* Bound: as many records are asked for as RecordId has identities left.
SubmitRecord(p) ==
    /\ Cardinality(Creating) < Cardinality({id \in RecordId : records[id] = NoRow})
    /\ Submit(p, "create") /\ UNCHANGED record

FindItem(p) ==
    /\ pc[p] = "create" /\ quote.matches = 1
    /\ Goto(p, "pricing")
    /\ UNCHANGED <<quote, tables, lock, arguments, seen, price, answer>>

ItemNotFound(p) ==
    /\ pc[p] = "create" /\ quote.matches # 1
    /\ Answer(p, Plain(IF quote.matches = 0 THEN "not_found" ELSE "conflict"))
    /\ UNCHANGED <<quote, tables, arguments>>

\* best_buyout_unit_price or best_bid_unit_price: a buyout of 0 does not count.
MarketPrice == IF quote.buyout \in {NoPrice, 0} THEN quote.bid ELSE quote.buyout

ReadMarketPrice(p) ==
    /\ pc[p] = "pricing"
    /\ price' = [price EXCEPT ![p] = MarketPrice]
    /\ Goto(p, "costing")
    /\ UNCHANGED <<quote, tables, lock, arguments, seen, answer>>

UnitCost(p) == IF price[p] # NoPrice THEN price[p] ELSE quote.recipe

\* The recipe cost is read, and found missing like the market price.
NoCostKnown(p) ==
    /\ pc[p] = "costing" /\ price[p] = NoPrice /\ quote.recipe = NoPrice
    /\ Answer(p, Plain("conflict"))
    /\ UNCHANGED <<quote, tables, arguments>>

\* The recipe cost is read, and the record is inserted with a new identity.
InsertRecord(p) ==
    /\ pc[p] = "costing" /\ ~(price[p] = NoPrice /\ quote.recipe = NoPrice)
    /\ \E id \in RecordId :
        /\ records[id] = NoRow
        /\ records' = [records EXCEPT ![id] =
              [owner |-> user[p], quantity |-> asked[p],
               unitCost |-> UnitCost(p),
               source |-> IF price[p] # NoPrice THEN "market" ELSE "recipe"]]
        /\ Answer(p, About("created", id, asked[p], asked[p]))
    /\ UNCHANGED <<quote, sold, arguments>>

--------------------------------------------------------------------------------

\* The request is cancelled, the process dies, or only the reply is lost.
Lose(p) ==
    /\ Crashes /\ (pc[p] # "idle" \/ answer[p].kind # "lost")
    /\ Answer(p, Plain("lost"))
    /\ UNCHANGED <<quote, tables, arguments>>

\* The synchronisations commit.
Requote == quote' \in Quote /\ UNCHANGED <<tables, lock, pc, arguments, seen, price, answer>>

Step(p) ==
    \/ RecordNotFound(p) \/ LoadSales(p) \/ RefuseSale(p) \/ StoreSale(p)
    \/ FindItem(p) \/ ItemNotFound(p) \/ ReadMarketPrice(p)
    \/ NoCostKnown(p) \/ InsertRecord(p)

Next ==
    \/ \E p \in Request : SubmitSale(p) \/ SubmitRecord(p) \/ LockRecord(p) \/ Step(p) \/ Lose(p)
    \/ Requote

Spec == Init /\ [][Next]_vars

\* The event loop resumes every request, and PostgreSQL serves the waiters of a row
\* lock in their order of arrival.
FairSpec == Spec /\ \A p \in Request : WF_vars(Step(p)) /\ SF_vars(LockRecord(p))

--------------------------------------------------------------------------------
(* Properties *)

Locations == {"idle", "sale", "locked", "loaded", "create", "pricing", "costing"}
Answers == [kind : {"none", "created", "sold", "too_many", "not_found", "conflict", "lost"},
            record : RecordId \cup {NoRow}, asked : Nat, left : Int]

\* Every variable has its type.
TypeOK ==
    /\ quote \in Quote
    /\ records \in [RecordId -> CraftRecord \cup {NoRow}]
    /\ sold \in [RecordId -> Nat]
    /\ lock \in [RecordId -> Request \cup {NoRow}]
    /\ pc \in [Request -> Locations]
    /\ user \in [Request -> User] /\ record \in [Request -> RecordId]
    /\ asked \in [Request -> Quantity]
    /\ seen \in [Request -> Nat] /\ price \in [Request -> Nat \cup {NoPrice}]
    /\ answer \in [Request -> Answers]

\* However many sales of a record are submitted together, they never sell more than
\* was crafted: add_sale checks and inserts under the row lock (craft_records.py:46-58).
NoOversell ==
    \A id \in RecordId :
        sold[id] <= IF records[id] = NoRow THEN 0 ELSE records[id].quantity

Stock ==
    [id \in RecordId |->
        IF records[id] = NoRow THEN NoRow
        ELSE [owner |-> records[id].owner, left |-> records[id].quantity - sold[id]]]

Ledger == INSTANCE SaleLedger WITH stock <- Stock, answer <- answer

\* The answers are those of requests served one at a time: the remaining quantity that
\* a sale or a refusal reports (craft_records.py:56, 153) is the true one.
AnswersAsLedger == Ledger!Spec

\* Every request is answered, whoever waits for the lock of the same record.
RequestsAnswered == \A p \in Request : pc[p] # "idle" ~> pc[p] = "idle"
================================================================================
