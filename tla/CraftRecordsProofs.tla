-------------------------- MODULE CraftRecordsProofs --------------------------
(***************************************************************************)
(* Proofs about CraftRecords.  The inductive invariant says what the row   *)
(* lock is for: between the two statements of add_sale the request holds   *)
(* the lock of an existing row of its user, and from its second statement  *)
(* on the sales that it has seen are still all the sales there are.        *)
(***************************************************************************)
EXTENDS CraftRecords, TLAPS

LockInv ==
    /\ \A p \in Request : pc[p] \in {"locked", "loaded"} => lock[record[p]] = p /\ Owned(p)
    /\ \A p \in Request : pc[p] = "loaded" => seen[p] = sold[record[p]]
    /\ \A id \in RecordId : records[id] = NoRow => sold[id] = 0

IInv == TypeOK /\ LockInv /\ NoOversell

\* An action of request p does one of these things.
RequestStep(p) ==
    \/ SubmitSale(p) \/ SubmitRecord(p) \/ LockRecord(p) \/ RecordNotFound(p)
    \/ LoadSales(p) \/ RefuseSale(p) \/ StoreSale(p) \/ FindItem(p) \/ ItemNotFound(p)
    \/ ReadMarketPrice(p) \/ NoCostKnown(p) \/ InsertRecord(p) \/ Lose(p)

LEMMA Steps == Next => (\E p \in Request : RequestStep(p)) \/ Requote
  BY DEF Next, Step, RequestStep

LEMMA InitInv == Init => IInv
  BY QuantityAssumption, NoPriceAssumption
     DEF Init, IInv, TypeOK, LockInv, NoOversell, Locations, Answers, Plain

\* Answers have their type, and the request that gives one ends.
LEMMA AnswerType ==
  ASSUME TypeOK, NEW p \in Request, NEW reply \in Answers, Answer(p, reply)
  PROVE  /\ answer' \in [Request -> Answers]
         /\ pc' \in [Request -> Locations]
         /\ lock' \in [RecordId -> Request \cup {NoRow}]
         /\ seen' \in [Request -> Nat]
         /\ price' \in [Request -> Nat \cup {NoPrice}]
  BY DEF TypeOK, Answer, Goto, Locations

LEMMA PlainType ==
  ASSUME NEW kind \in {"none", "not_found", "conflict", "lost"}
  PROVE  Plain(kind) \in Answers
  BY DEF Plain, Answers

LEMMA AboutType ==
  ASSUME NEW kind \in {"created", "sold", "too_many"}, NEW id \in RecordId,
         NEW n \in Nat, NEW left \in Int
  PROVE  About(kind, id, n, left) \in Answers
  BY DEF About, Answers

\* Every action keeps the types of the variables.
LEMMA TypeStep == ASSUME TypeOK, LockInv, [Next]_vars PROVE TypeOK'
<1>1. CASE UNCHANGED vars
  BY <1>1 DEF TypeOK, vars, tables, arguments
<1>2. CASE Requote
  BY <1>2 DEF TypeOK, Requote, tables, arguments
<1>3. ASSUME NEW p \in Request, RequestStep(p) PROVE TypeOK'
  <2>0. asked[p] \in Nat /\ asked[p] \in Quantity /\ record[p] \in RecordId /\ user[p] \in User
    BY QuantityAssumption DEF TypeOK
  <2>1. CASE SubmitSale(p)
    BY <2>1 DEF TypeOK, SubmitSale, Submit, Goto, tables, Locations
  <2>2. CASE SubmitRecord(p)
    BY <2>2 DEF TypeOK, SubmitRecord, Submit, Goto, tables, Locations
  <2>3. CASE LockRecord(p)
    BY <2>3 DEF TypeOK, LockRecord, Goto, tables, arguments, Locations
  <2>4. CASE RecordNotFound(p)
    <3>1. Answer(p, Plain("not_found"))
      BY <2>4 DEF RecordNotFound
    <3> QED BY <3>1, AnswerType, PlainType, <2>4 DEF TypeOK, RecordNotFound, tables, arguments
  <2>5. CASE LoadSales(p)
    BY <2>5 DEF TypeOK, LoadSales, Goto, tables, arguments, Locations
  <2>6. ASSUME pc[p] = "loaded" PROVE /\ Remaining(p) \in Int
                                      /\ records[record[p]] \in CraftRecord
    BY <2>6, <2>0 DEF TypeOK, LockInv, Owned, Remaining, CraftRecord
  <2>7. CASE RefuseSale(p)
    <3>1. /\ Answer(p, About("too_many", record[p], asked[p], Remaining(p)))
          /\ Remaining(p) \in Int
      BY <2>7, <2>6 DEF RefuseSale
    <3>2. About("too_many", record[p], asked[p], Remaining(p)) \in Answers
      BY <3>1, <2>0, AboutType
    <3> QED BY <3>1, <3>2, AnswerType, <2>7 DEF TypeOK, RefuseSale, tables, arguments
  <2>8. CASE StoreSale(p)
    <3>1. /\ Answer(p, About("sold", record[p], asked[p], Remaining(p) - asked[p]))
          /\ Remaining(p) - asked[p] \in Int
      BY <2>8, <2>6, <2>0 DEF StoreSale
    <3>2. About("sold", record[p], asked[p], Remaining(p) - asked[p]) \in Answers
      BY <3>1, <2>0, AboutType
    <3>3. sold' \in [RecordId -> Nat]
      BY <2>8, <2>0 DEF TypeOK, StoreSale
    <3> QED BY <3>1, <3>2, <3>3, AnswerType, <2>8 DEF TypeOK, StoreSale, arguments
  <2>9. CASE FindItem(p)
    BY <2>9 DEF TypeOK, FindItem, Goto, tables, arguments, Locations
  <2>10. CASE ItemNotFound(p)
    <3>1. PICK kind \in {"not_found", "conflict"} : Answer(p, Plain(kind))
      BY <2>10 DEF ItemNotFound
    <3>2. Plain(kind) \in Answers
      BY PlainType
    <3> QED BY <3>1, <3>2, AnswerType, <2>10 DEF TypeOK, ItemNotFound, tables, arguments
  <2>11. CASE ReadMarketPrice(p)
    <3>1. MarketPrice \in Nat \cup {NoPrice}
      BY QuoteAssumption DEF TypeOK, MarketPrice
    <3> QED BY <3>1, <2>11 DEF TypeOK, ReadMarketPrice, Goto, tables, arguments, Locations
  <2>12. CASE NoCostKnown(p)
    <3>1. Answer(p, Plain("conflict")) /\ Plain("conflict") \in Answers
      BY <2>12, PlainType DEF NoCostKnown
    <3> QED BY <3>1, AnswerType, <2>12 DEF TypeOK, NoCostKnown, tables, arguments
  <2>13. CASE InsertRecord(p)
    <3>1. PICK id \in RecordId :
            /\ records' = [records EXCEPT ![id] =
                  [owner |-> user[p], quantity |-> asked[p], unitCost |-> UnitCost(p),
                   source |-> IF price[p] # NoPrice THEN "market" ELSE "recipe"]]
            /\ Answer(p, About("created", id, asked[p], asked[p]))
      BY <2>13 DEF InsertRecord
    <3>2. UnitCost(p) \in Nat
      BY <2>13, QuoteAssumption DEF TypeOK, InsertRecord, UnitCost
    <3>3. records' \in [RecordId -> CraftRecord \cup {NoRow}]
      BY <3>1, <3>2, <2>0 DEF TypeOK, CraftRecord
    <3>4. About("created", id, asked[p], asked[p]) \in Answers
      BY <2>0, AboutType
    <3> QED BY <3>1, <3>3, <3>4, AnswerType, <2>13 DEF TypeOK, InsertRecord, arguments
  <2>14. CASE Lose(p)
    <3>1. Answer(p, Plain("lost")) /\ Plain("lost") \in Answers
      BY <2>14, PlainType DEF Lose
    <3> QED BY <3>1, AnswerType, <2>14 DEF TypeOK, Lose, tables, arguments
  <2> QED BY <1>3, <2>1, <2>2, <2>3, <2>4, <2>5, <2>7, <2>8, <2>9, <2>10, <2>11, <2>12,
             <2>13, <2>14 DEF RequestStep
<1> QED BY <1>1, <1>2, <1>3, Steps

\* A request that ends without storing anything leaves the others their locks.
LEMMA AnswerKeepsLocks ==
  ASSUME TypeOK, LockInv, NoOversell, NEW p \in Request, NEW reply, Answer(p, reply),
         UNCHANGED <<tables, arguments>>
  PROVE  LockInv' /\ NoOversell'
<1>1. \A q \in Request : pc'[q] \in {"locked", "loaded"} =>
        q # p /\ pc[q] = pc'[q] /\ seen'[q] = seen[q]
  BY DEF TypeOK, Answer, Goto
<1>2. \A q \in Request : pc'[q] \in {"locked", "loaded"} => lock'[record[q]] = q
  BY <1>1 DEF TypeOK, LockInv, Answer
<1> QED BY <1>1, <1>2 DEF LockInv, NoOversell, Owned, tables, arguments

\* Every action keeps the locks meaningful, and sells no more than is left.
LEMMA LockStep == ASSUME TypeOK, LockInv, NoOversell, [Next]_vars PROVE LockInv' /\ NoOversell'
<1>1. CASE UNCHANGED vars
  BY <1>1 DEF LockInv, NoOversell, Owned, vars, tables, arguments
<1>2. CASE Requote
  BY <1>2 DEF LockInv, NoOversell, Owned, Requote, tables, arguments
<1>3. ASSUME NEW p \in Request, RequestStep(p) PROVE LockInv' /\ NoOversell'
  <2>0. asked[p] \in Nat \ {0} /\ record[p] \in RecordId /\ user[p] \in User
    BY QuantityAssumption DEF TypeOK
  <2>1. CASE SubmitSale(p) \/ SubmitRecord(p)
    <3>1. \A q \in Request : pc'[q] \in {"locked", "loaded"} =>
            pc[q] = pc'[q] /\ record'[q] = record[q] /\ user'[q] = user[q]
      BY <2>1 DEF TypeOK, SubmitSale, SubmitRecord, Submit, Goto
    <3> QED BY <3>1, <2>1 DEF LockInv, NoOversell, Owned, SubmitSale, SubmitRecord, Submit, tables
  <2>2. CASE LockRecord(p)
    <3>1. \A q \in Request : pc[q] \in {"locked", "loaded"} => record[q] # record[p]
      BY <2>2, NoRowAssumption DEF LockInv, LockRecord
    <3>2. \A q \in Request \ {p} : pc'[q] = pc[q]
      BY <2>2 DEF TypeOK, LockRecord, Goto
    <3>3. pc'[p] = "locked" /\ lock'[record[p]] = p
      BY <2>2, <2>0 DEF TypeOK, LockRecord, Goto
    <3>4. \A q \in Request \ {p} : pc'[q] \in {"locked", "loaded"} => lock'[record[q]] = q
      BY <2>2, <3>1, <3>2 DEF TypeOK, LockInv, LockRecord
    <3> QED BY <2>2, <3>2, <3>3, <3>4
            DEF LockInv, NoOversell, Owned, LockRecord, tables, arguments
  <2>3. CASE RecordNotFound(p) \/ RefuseSale(p) \/ ItemNotFound(p) \/ NoCostKnown(p) \/ Lose(p)
    <3>1. (\E reply : Answer(p, reply)) /\ UNCHANGED <<tables, arguments>>
      BY <2>3 DEF RecordNotFound, RefuseSale, ItemNotFound, NoCostKnown, Lose
    <3> QED BY <3>1, AnswerKeepsLocks
  <2>4. CASE LoadSales(p)
    <3>1. \A q \in Request : /\ q # p => pc'[q] = pc[q] /\ seen'[q] = seen[q]
                             /\ q = p => pc[q] = "locked" /\ seen'[q] = sold[record[q]]
      BY <2>4 DEF TypeOK, LoadSales, Goto
    <3> QED BY <2>4, <3>1 DEF LockInv, NoOversell, Owned, LoadSales, tables, arguments
  <2>5. CASE StoreSale(p)
    <3>1. \A q \in Request : pc'[q] \in {"locked", "loaded"} =>
            q # p /\ pc[q] = pc'[q] /\ seen'[q] = seen[q]
      BY <2>5 DEF TypeOK, StoreSale, Answer, Goto
    <3>2. pc[p] = "loaded" /\ lock[record[p]] = p /\ records[record[p]] \in CraftRecord
      BY <2>5, <2>0 DEF TypeOK, LockInv, StoreSale, Owned
    <3>3. \A q \in Request : pc'[q] \in {"locked", "loaded"} =>
            record[q] # record[p] /\ lock'[record[q]] = q
      BY <2>5, <3>1, <3>2 DEF TypeOK, LockInv, StoreSale, Answer
    <3>4. \A id \in RecordId : id # record[p] => sold'[id] = sold[id]
      BY <2>5 DEF TypeOK, StoreSale
    <3>5. sold'[record[p]] = sold[record[p]] + asked[p]
      BY <2>5, <2>0 DEF TypeOK, StoreSale
    <3>6. sold[record[p]] + asked[p] <= records[record[p]].quantity
      BY <2>5, <2>0, <3>2 DEF TypeOK, LockInv, StoreSale, Fits, Remaining, CraftRecord
    <3>7. records[record[p]] # NoRow
      BY <3>2, NoRowAssumption
    <3>8. LockInv'
      <4>1. \A q \in Request : pc'[q] \in {"locked", "loaded"} => lock'[record'[q]] = q /\ Owned(q)'
        BY <2>5, <3>1, <3>3 DEF LockInv, Owned, StoreSale, arguments
      <4>2. \A q \in Request : pc'[q] = "loaded" => seen'[q] = sold'[record'[q]]
        BY <2>5, <3>1, <3>3, <3>4 DEF TypeOK, LockInv, StoreSale, arguments
      <4>3. \A id \in RecordId : records'[id] = NoRow => sold'[id] = 0
        BY <2>5, <3>4, <3>7 DEF LockInv, StoreSale
      <4> QED BY <4>1, <4>2, <4>3 DEF LockInv
    <3>9. NoOversell'
      BY <2>5, <3>4, <3>5, <3>6, <3>7 DEF NoOversell, StoreSale
    <3> QED BY <3>8, <3>9
  <2>6. CASE FindItem(p) \/ ReadMarketPrice(p)
    <3>1. \A q \in Request : pc'[q] \in {"locked", "loaded"} => pc[q] = pc'[q]
      BY <2>6 DEF TypeOK, FindItem, ReadMarketPrice, Goto
    <3> QED BY <2>6, <3>1 DEF LockInv, NoOversell, Owned, FindItem, ReadMarketPrice, tables, arguments
  <2>7. CASE InsertRecord(p)
    <3>1. PICK id \in RecordId :
            /\ records[id] = NoRow
            /\ \E row \in CraftRecord : records' = [records EXCEPT ![id] = row]
            /\ \E reply : Answer(p, reply)
      <4>1. UnitCost(p) \in Nat
        BY <2>7, QuoteAssumption DEF TypeOK, InsertRecord, UnitCost
      <4>2. [owner |-> user[p], quantity |-> asked[p], unitCost |-> UnitCost(p),
             source |-> IF price[p] # NoPrice THEN "market" ELSE "recipe"] \in CraftRecord
        BY <4>1, <2>0 DEF CraftRecord
      <4> QED BY <2>7, <4>2 DEF InsertRecord
    <3>2. \A q \in Request : pc'[q] \in {"locked", "loaded"} =>
            q # p /\ pc[q] = pc'[q] /\ seen'[q] = seen[q] /\ lock'[record[q]] = q
      BY <3>1 DEF TypeOK, LockInv, Answer, Goto
    <3>3. \A i \in RecordId : i # id => records'[i] = records[i]
      BY <3>1 DEF TypeOK
    <3>4. records'[id] \in CraftRecord /\ records'[id] # NoRow /\ sold[id] = 0
      BY <3>1, NoRowAssumption DEF TypeOK, LockInv
    <3>5. \A q \in Request : pc'[q] \in {"locked", "loaded"} => Owned(q)'
      BY <2>7, <3>1, <3>2, <3>3 DEF TypeOK, LockInv, Owned, InsertRecord, arguments
    <3>6. LockInv'
      BY <2>7, <3>2, <3>3, <3>4, <3>5 DEF LockInv, InsertRecord, arguments
    <3>7. NoOversell'
      BY <2>7, <3>3, <3>4 DEF TypeOK, NoOversell, InsertRecord, CraftRecord
    <3> QED BY <3>6, <3>7
  <2> QED BY <1>3, <2>1, <2>2, <2>3, <2>4, <2>5, <2>6, <2>7 DEF RequestStep
<1> QED BY <1>1, <1>2, <1>3, Steps

LEMMA Invariance == Spec => []IInv
<1>1. Init => IInv
  BY InitInv
<1>2. IInv /\ [Next]_vars => IInv'
  BY TypeStep, LockStep DEF IInv
<1> QED BY <1>1, <1>2, PTL DEF Spec

\* The variables of the craft record requests keep their types.
THEOREM Typing == Spec => []TypeOK
BY Invariance, PTL DEF IInv

\* However many requests sell from a record at once, and whenever they die: no more is
\* sold than was crafted (add_sale, craft_records.py:46-58).
THEOREM NothingOversold == Spec => []NoOversell
BY Invariance, PTL DEF IInv

LEMMA LedgerInit == Init => Ledger!Init
  BY DEF Init, Ledger!Init, Stock, Plain, Ledger!Plain

\* Records and sales untouched: the stock is, too.
LEMMA SameStock == ASSUME UNCHANGED tables PROVE UNCHANGED Stock
  BY DEF tables, Stock

\* Every step of the requests is a step of the ledger, or changes neither stock nor answers.
LEMMA LedgerStep == ASSUME IInv, [Next]_vars PROVE [Ledger!Next]_(Ledger!ledger)
<1>0. TypeOK /\ LockInv /\ NoOversell
  BY DEF IInv
<1>1. CASE UNCHANGED vars
  BY <1>1, SameStock DEF Ledger!ledger, vars
<1>2. CASE Requote
  BY <1>2, SameStock DEF Ledger!ledger, Requote
<1>3. ASSUME NEW p \in Request, RequestStep(p) PROVE [Ledger!Next]_(Ledger!ledger)
  <2>0. asked[p] \in Quantity /\ asked[p] \in Nat /\ record[p] \in RecordId /\ user[p] \in User
    BY <1>0, QuantityAssumption DEF TypeOK
  <2>1. CASE SubmitSale(p) \/ SubmitRecord(p) \/ LockRecord(p) \/ LoadSales(p)
             \/ FindItem(p) \/ ReadMarketPrice(p)
    BY <2>1, SameStock
       DEF Ledger!ledger, SubmitSale, SubmitRecord, Submit, LockRecord, LoadSales, FindItem,
           ReadMarketPrice
  <2>2. CASE RecordNotFound(p) \/ ItemNotFound(p) \/ NoCostKnown(p) \/ Lose(p)
    <3>1. PICK kind \in {"not_found", "conflict", "lost"} : Answer(p, Plain(kind))
      BY <2>2 DEF RecordNotFound, ItemNotFound, NoCostKnown, Lose
    <3>2. UNCHANGED Stock
      BY <2>2, SameStock DEF RecordNotFound, ItemNotFound, NoCostKnown, Lose
    <3>3. Ledger!Fail(p)
      BY <3>1, <3>2 DEF Ledger!Fail, Answer, Plain, Ledger!Plain
    <3> QED BY <3>3 DEF Ledger!Next
  <2>3. ASSUME pc[p] = "loaded"
        PROVE  /\ records[record[p]] \in CraftRecord /\ Stock[record[p]] # NoRow
               /\ Stock[record[p]] = [owner |-> user[p], left |-> Remaining(p)]
               /\ Stock[record[p]].owner = user[p] /\ Stock[record[p]].left = Remaining(p)
               /\ Remaining(p) \in Int
    <3>1. Owned(p) /\ seen[p] = sold[record[p]]
      BY <2>3, <1>0 DEF LockInv
    <3>2. Stock[record[p]] = [owner |-> user[p], left |-> Remaining(p)]
      BY <3>1, <2>0 DEF Stock, Owned, Remaining
    <3>3. records[record[p]] \in CraftRecord
      BY <3>1, <2>0, <1>0 DEF TypeOK, Owned
    <3>4. Remaining(p) \in Int
      BY <3>3, <2>0, <1>0 DEF TypeOK, Remaining, CraftRecord
    <3>5. Stock[record[p]] \in StockRow
      BY <3>2, <3>4, <2>0 DEF StockRow
    <3> QED BY <3>2, <3>3, <3>4, <3>5, NoRowAssumption
  <2>4. CASE RefuseSale(p)
    <3>1. pc[p] = "loaded" /\ UNCHANGED Stock /\ ~(asked[p] <= Remaining(p))
      BY <2>4, SameStock DEF RefuseSale, Fits
    <3>2. Remaining(p) \in Int
      BY <3>1, <2>3, <1>0 DEF TypeOK, Remaining, CraftRecord
    <3>3. answer' = [answer EXCEPT ![p] = About("too_many", record[p], asked[p], Remaining(p))]
      BY <2>4 DEF RefuseSale, Answer
    <3>4. asked[p] > Stock[record[p]].left
      BY <3>1, <3>2, <2>3, <2>0
    <3>5. answer' = [answer EXCEPT ![p] =
                       Ledger!About("too_many", record[p], asked[p], Stock[record[p]].left)]
      BY <3>1, <3>3, <2>3 DEF About, Ledger!About
    <3>6. Ledger!Refuse(p, user[p], record[p], asked[p])
      BY <3>1, <3>4, <3>5, <2>3 DEF Ledger!Refuse
    <3> QED BY <3>6, <2>0 DEF Ledger!Next
  <2>5. CASE StoreSale(p)
    <3>1. pc[p] = "loaded" /\ asked[p] <= Remaining(p)
      BY <2>5 DEF StoreSale, Fits
    <3>2. /\ sold' = [sold EXCEPT ![record[p]] = @ + asked[p]] /\ UNCHANGED records
          /\ answer' = [answer EXCEPT ![p] =
                          About("sold", record[p], asked[p], Remaining(p) - asked[p])]
      BY <2>5 DEF StoreSale, Answer
    <3>3. Owned(p) /\ seen[p] = sold[record[p]]
      BY <3>1, <1>0 DEF LockInv
    <3>4. Stock' = [Stock EXCEPT ![record[p]] =
                      [owner |-> user[p], left |-> Remaining(p) - asked[p]]]
      <4>1. \A id \in RecordId : id # record[p] => Stock'[id] = Stock[id]
        BY <3>2, <1>0 DEF TypeOK, Stock
      <4>2. records[record[p]].quantity - (sold[record[p]] + asked[p]) = Remaining(p) - asked[p]
        BY <3>1, <3>3, <2>3, <2>0, <1>0 DEF TypeOK, Remaining, CraftRecord
      <4>3. sold'[record[p]] = sold[record[p]] + asked[p]
        BY <3>2, <2>0, <1>0 DEF TypeOK
      <4>4. Stock'[record[p]] = [owner |-> user[p], left |-> Remaining(p) - asked[p]]
        BY <4>2, <4>3, <3>2, <3>3, <2>0 DEF Stock, Owned
      <4>5. /\ Stock = [id \in RecordId |-> Stock[id]] /\ Stock' = [id \in RecordId |-> Stock'[id]]
        BY DEF Stock
      <4> QED BY <4>1, <4>4, <4>5
    <3>5. answer' = [answer EXCEPT ![p] =
                       Ledger!About("sold", record[p], asked[p], Stock[record[p]].left - asked[p])]
      BY <3>1, <3>2, <2>3 DEF About, Ledger!About
    <3>6. asked[p] <= Stock[record[p]].left
      BY <3>1, <2>3
    <3>7. Stock' = [Stock EXCEPT ![record[p]] =
                      [owner |-> user[p], left |-> Stock[record[p]].left - asked[p]]]
      BY <3>1, <3>4, <2>3
    <3>8. Ledger!Sell(p, user[p], record[p], asked[p])
      BY <3>1, <3>5, <3>6, <3>7, <2>3 DEF Ledger!Sell
    <3> QED BY <3>8, <2>0 DEF Ledger!Next
  <2>6. CASE InsertRecord(p)
    <3>1. PICK id \in RecordId :
            /\ records[id] = NoRow
            /\ records' = [records EXCEPT ![id] =
                  [owner |-> user[p], quantity |-> asked[p], unitCost |-> UnitCost(p),
                   source |-> IF price[p] # NoPrice THEN "market" ELSE "recipe"]]
            /\ Answer(p, About("created", id, asked[p], asked[p]))
      BY <2>6 DEF InsertRecord
    <3>2. UNCHANGED sold /\ sold[id] = 0
      BY <2>6, <3>1, <1>0 DEF InsertRecord, LockInv
    <3>3. UnitCost(p) \in Nat
      BY <2>6, <1>0, QuoteAssumption DEF TypeOK, InsertRecord, UnitCost
    <3>4. records'[id] \in CraftRecord /\ records'[id].owner = user[p]
            /\ records'[id].quantity = asked[p]
      BY <3>1, <3>3, <2>0, <1>0 DEF TypeOK, CraftRecord
    <3>5. Stock[id] = NoRow /\ Stock'[id] = [owner |-> user[p], left |-> asked[p]]
      BY <3>1, <3>2, <3>4, <2>0, NoRowAssumption DEF Stock
    <3>6. \A i \in RecordId : i # id => Stock'[i] = Stock[i]
      BY <3>1, <3>2, <1>0 DEF TypeOK, Stock
    <3>7. Stock' = [Stock EXCEPT ![id] = [owner |-> user[p], left |-> asked[p]]]
      <4>1. /\ Stock = [i \in RecordId |-> Stock[i]] /\ Stock' = [i \in RecordId |-> Stock'[i]]
        BY DEF Stock
      <4> QED BY <4>1, <3>5, <3>6
    <3>8. Ledger!Open(p, user[p], id, asked[p])
      BY <3>1, <3>5, <3>7 DEF Ledger!Open, Answer, About, Ledger!About
    <3> QED BY <3>8, <2>0 DEF Ledger!Next
  <2> QED BY <1>3, <2>1, <2>2, <2>4, <2>5, <2>6 DEF RequestStep
<1> QED BY <1>1, <1>2, <1>3, Steps

\* Requests that run together are answered as if they ran one after the other, and the
\* remaining quantities they report are the true ones (craft_records.py:46-59).
THEOREM ImplementsLedger == Spec => AnswersAsLedger
<1>1. Init => Ledger!Init
  BY LedgerInit
<1>2. IInv /\ [Next]_vars => [Ledger!Next]_(Ledger!ledger)
  BY LedgerStep
<1> QED BY <1>1, <1>2, Invariance, PTL DEF Spec, AnswersAsLedger, Ledger!Spec
================================================================================
