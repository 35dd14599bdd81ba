---------------------------- MODULE MCCraftRecords ----------------------------
(* Small instances of CraftRecords: the values of its constants for TLC. *)
EXTENDS CraftRecords

\* The item is known and has a recipe cost, or shares its name and has a bid beside a buyout
\* price of nothing.  Read by different statements, the two mix into every case.
Quotes == {[matches |-> 1, buyout |-> NoPrice, bid |-> NoPrice, recipe |-> 4],
           [matches |-> 2, buyout |-> 0, bid |-> 3, recipe |-> NoPrice]}
================================================================================
