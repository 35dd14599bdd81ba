------------------------------ MODULE MCAccounts ------------------------------
(* Small instances of Accounts. *)
EXTENDS Accounts, TLC

Symmetry == Permutations(Request) \cup Permutations(Token)
================================================================================
