----------------------------- MODULE AtomicSwap -----------------------------
(***************************************************************************)
(* What a settled match promises its two traders, told by the two swap     *)
(* contracts alone: the maker funds first and learns nothing by waiting,   *)
(* the taker's contract is opened by the maker's secret, and from then on  *)
(* the only way the maker's contract can end is in the taker's hands.      *)
(* Nobody ends with both sides of the trade.                               *)
(***************************************************************************)
VARIABLES makerSwap,  \* the contract the maker funded, the taker may redeem
          takerSwap   \* the contract the taker funded, the maker may redeem

swaps == <<makerSwap, takerSwap>>

Init == makerSwap = "none" /\ takerSwap = "none"

FundMaker == /\ makerSwap = "none"
             /\ makerSwap' = "locked"
             /\ UNCHANGED takerSwap

\* The taker commits only against a contract that is still there to redeem.
FundTaker == /\ takerSwap = "none"
             /\ makerSwap = "locked"
             /\ takerSwap' = "locked"
             /\ UNCHANGED makerSwap

\* The maker takes the taker's contract and shows the secret; it has not
\* taken its own contract back.
MakerRedeems == /\ takerSwap = "locked"
                /\ makerSwap = "locked"
                /\ takerSwap' = "redeemed"
                /\ UNCHANGED makerSwap

TakerRedeems == /\ makerSwap = "locked"
                /\ takerSwap = "redeemed"
                /\ makerSwap' = "redeemed"
                /\ UNCHANGED takerSwap

MakerRefunds == /\ makerSwap = "locked"
                /\ takerSwap # "redeemed"
                /\ makerSwap' = "refunded"
                /\ UNCHANGED takerSwap

TakerRefunds == /\ takerSwap = "locked"
                /\ takerSwap' = "refunded"
                /\ UNCHANGED makerSwap

Next == \/ FundMaker \/ FundTaker
        \/ MakerRedeems \/ TakerRedeems
        \/ MakerRefunds \/ TakerRefunds

AtomicSpec == Init /\ [][Next]_swaps
-----------------------------------------------------------------------------
\* The maker never has both its own contract back and the taker's, and the
\* taker never has both its own back and the maker's: the two outcomes the
\* lock times and the secret hash of the swap contracts are there to exclude.
NobodyCheated == /\ makerSwap = "refunded" => takerSwap # "redeemed"
                 /\ makerSwap = "redeemed" => takerSwap = "redeemed"
=============================================================================
