----------------------------- MODULE MCBookFeed -----------------------------
(* BookFeed with two orders.  They are not declared symmetric: the updates *)
(* and notes of an epoch name them one after the other.                    *)
EXTENDS BookFeed

CONSTANTS oA, oB

MCOrders == {oA, oB}

=============================================================================
