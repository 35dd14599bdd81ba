----------------------------- MODULE MCAuctionSync -----------------------------
(* Small instances of AuctionSync: the values of its constants for TLC. *)
EXTENDS AuctionSync, TLC

OneRegion == <<"EU">>
TwoRegions == <<"EU", "RU">>

NoRecipes == {}
NoComponents == <<>>

\* "sift" makes more ore of ore, without energy.
Sifting == {"sift"}
SiftedOre == [r \in Sifting |-> {"ore"}]

\* "craft" makes "result" of ore.
OneRecipe == {"craft"}
OreIngredient == [r \in OneRecipe |-> {"ore"}]
ResultComponent == [r \in OneRecipe |-> {"result"}]
================================================================================
