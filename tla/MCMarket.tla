------------------------------ MODULE MCMarket ------------------------------
(***************************************************************************)
(* Model-checking instance of Market: one order, epochs of two units.      *)
(***************************************************************************)
EXTENDS Market

CONSTANTS oA, MaxEpoch

MCOrders == {oA}
MCEpochs == 1..MaxEpoch

=============================================================================
