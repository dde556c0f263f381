----------------------------- MODULE MCWaitQueue -----------------------------
(* WaitQueue with waiters that expire at different times. *)
EXTENDS WaitQueue

MCExpiration == [w \in Waiters |-> IF w = "a" THEN 0 ELSE 1]
=============================================================================
