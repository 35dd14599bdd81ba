---------------------------- MODULE MarketLifecycle ----------------------------
(***************************************************************************)
(* What the refresh queue promises about each item of each region: it is   *)
(* unknown, then probed for market activity, then active or retired, and   *)
(* a retired market is never asked about again.  One transaction of        *)
(* AuctionSyncService moves any number of items along.                     *)
(***************************************************************************)
CONSTANTS Region, Item
VARIABLE market

State == {"absent", "probing", "active", "retired"}

Init == market = [R \in Region |-> [i \in Item |-> "absent"]]

\* The columns market_state and retired_at change in these ways only.
Moves == {<<"absent", "probing">>, <<"probing", "active">>,
          <<"probing", "retired">>, <<"active", "retired">>}

Next ==
    /\ market' \in [Region -> [Item -> State]]
    /\ \A R \in Region, i \in Item :
         market'[R][i] = market[R][i] \/ <<market[R][i], market'[R][i]>> \in Moves

Spec == Init /\ [][Next]_market
================================================================================
