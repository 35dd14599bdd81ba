---------------------------- MODULE MCMarketReads ----------------------------
(* A small instance of MarketReads: one item, and recipes that fill two pages. *)
EXTENDS MarketReads

CONSTANT tea

MCItems == {tea}
MCNames == [i \in MCItems |-> 1]
MCScores == {1, 2}
================================================================================
