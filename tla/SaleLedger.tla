------------------------------ MODULE SaleLedger ------------------------------
(***************************************************************************)
(* What the craft records promise to the requests of their owners: every   *)
(* request is answered as if the requests ran one after the other.  A sale *)
(* takes its quantity out of what is left of the record, is answered with  *)
(* what remains then, and is refused, with the quantity that remains, only *)
(* if that is too little at that moment.                                   *)
(***************************************************************************)
EXTENDS Integers

CONSTANTS Request, User, RecordId, Quantity, NoRow
VARIABLES
    stock,      \* [RecordId -> [owner, left] or NoRow]
    answer      \* [Request -> the last answer given]

ledger == <<stock, answer>>

Plain(kind) == [kind |-> kind, record |-> NoRow, asked |-> 0, left |-> 0]
About(kind, id, asked, left) == [kind |-> kind, record |-> id, asked |-> asked, left |-> left]

Init ==
    /\ stock = [id \in RecordId |-> NoRow]
    /\ answer = [p \in Request |-> Plain("none")]

Open(p, u, id, n) ==
    /\ stock[id] = NoRow
    /\ stock' = [stock EXCEPT ![id] = [owner |-> u, left |-> n]]
    /\ answer' = [answer EXCEPT ![p] = About("created", id, n, n)]

Sell(p, u, id, n) ==
    /\ stock[id] # NoRow /\ stock[id].owner = u /\ n <= stock[id].left
    /\ stock' = [stock EXCEPT ![id] = [owner |-> u, left |-> stock[id].left - n]]
    /\ answer' = [answer EXCEPT ![p] = About("sold", id, n, stock[id].left - n)]

Refuse(p, u, id, n) ==
    /\ stock[id] # NoRow /\ stock[id].owner = u /\ n > stock[id].left
    /\ answer' = [answer EXCEPT ![p] = About("too_many", id, n, stock[id].left)]
    /\ UNCHANGED stock

\* Nothing is changed by a request that finds no record, no item or no price, nor by
\* one whose answer is lost.
Fail(p) ==
    /\ \E kind \in {"none", "not_found", "conflict", "lost"} :
         answer' = [answer EXCEPT ![p] = Plain(kind)]
    /\ UNCHANGED stock

Next ==
    \E p \in Request :
        \/ Fail(p)
        \/ \E u \in User, id \in RecordId, n \in Quantity :
             Open(p, u, id, n) \/ Sell(p, u, id, n) \/ Refuse(p, u, id, n)

Spec == Init /\ [][Next]_ledger
================================================================================
