------------------------------ MODULE MCTrade ------------------------------
EXTENDS Trade

MCAccountSides == {"taker"}
=============================================================================
