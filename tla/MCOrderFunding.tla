--------------------------- MODULE MCOrderFunding ---------------------------
(* Three orders of two markets on one asset.  oA and oC both name coin c1, *)
(* oB names c1 and c2: every pair conflicts on c1.                         *)
EXTENDS OrderFunding, TLC

CONSTANTS oA, oB, oC, mk1, mk2, c1, c2

MCOrders == {oA, oB, oC}
MCCoins == {c1, c2}
MCCoinsOf == (oA :> {c1}) @@ (oB :> {c1, c2}) @@ (oC :> {c1})
MCMarkets == {mk1, mk2}
MCMarketOf == (oA :> mk1) @@ (oB :> mk1) @@ (oC :> mk2)
MCKind == (oA :> "standing") @@ (oB :> "standing") @@ (oC :> "immediate")

=============================================================================
