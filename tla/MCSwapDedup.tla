----------------------------- MODULE MCSwapDedup -----------------------------
(* Two matches and two contracts with the same secret hash.                *)
EXTENDS SwapDedup, FiniteSets, TLC

CONSTANTS m1, m2, c1, c2, h1,
          MaxWaiters   \* bound: coin waiters at a time

MCMatches == {m1, m2}
MCContracts == {c1, c2}
MCHashes == {h1}
MCHashOf == (c1 :> h1) @@ (c2 :> h1)
MCSymmetry == Permutations(MCMatches) \cup Permutations(MCContracts)

FewWaiters == Cardinality(searching \cup registered) <= MaxWaiters

=============================================================================
