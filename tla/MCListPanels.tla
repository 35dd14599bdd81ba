----------------------------- MODULE MCListPanels -----------------------------
(* A small instance of ListPanels: the values of its constants for TLC. *)
EXTENDS ListPanels

\* Two full pages, one and a half, nothing.
EntriesOf == [q \in {"tea", "rum", "gin"} |-> CASE q = "tea" -> 4 [] q = "rum" -> 3 [] OTHER -> 0]
================================================================================
