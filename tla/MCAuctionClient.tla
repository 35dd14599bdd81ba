---------------------------- MODULE MCAuctionClient ----------------------------
(* Small instances of AuctionClient. *)
EXTENDS AuctionClient
================================================================================
