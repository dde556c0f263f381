---------------------------- MODULE OrderFunding ----------------------------
(***************************************************************************)
(* How the markets and the Swapper use the coin lockers of one asset over  *)
(* the life of the orders that asset funds: server/market (processOrder,   *)
(* prepEpoch, processReadyEpoch, SwapDone, Unbook), server/swap            *)
(* (Negotiate, processBlock, deleteMatch) and the wiring in server/dex.    *)
(* Composes CoinLock: every locker call below is one of its operations.    *)
(*                                                                         *)
(* Each market has one order-taking goroutine (Run -> processOrder) and    *)
(* one matching goroutine (processReadyEpoch); the Swapper's callbacks run *)
(* in others.  All interleave between locker calls.                        *)
(***************************************************************************)
EXTENDS CoinLock, Integers

CONSTANTS Markets,     \* markets that share the funding asset
          MarketOf,    \* the market each order is submitted to
          Kind,        \* "standing", "immediate" (limit) or "market"
          MaxMatches   \* bound: matches an order may take part in

ASSUME FundingAssumption ==
    /\ MarketOf \in [Orders -> Markets]
    /\ Kind \in [Orders -> {"standing", "immediate", "market"}]
    /\ MaxMatches \in Nat \ {0}

Absent == -1   \* no entry in Market.settling

VARIABLES
    assetKind, \* "utxo" (OutputTracker) or "account" (AccountBalancer); it
               \* never changes
    stage,     \* where the order is: not submitted, between the two locker
               \* calls of processOrder, in an epoch queue, on the book, out,
               \* "unstored": locked, but NewEpochOrder failed, or "dropped":
               \* queued for an epoch that a suspended market never closes
    phase,     \* phase[o][i]: the matches of order o, in any order
    settling,  \* Market.settling, in matches instead of lots
    rebooked,  \* partly filled orders NewMarket put back on the book unlocked
    release,   \* orders whose coins the running processReadyEpoch of their
               \* market has still to unlock
    unbooking, \* orders removed by Unbook, coins not yet unlocked
    matching,  \* markets inside processReadyEpoch, after Match
    atFault    \* history: orders that had a swap fail by their user's fault

fundVars == <<stage, phase, settling, rebooked, release, unbooking, matching,
              atFault>>
fundingVars == <<assetKind, lockVars, fundVars>>

MatchNos == 1..MaxMatches
Phases == {"none", "due", "live", "confirmed", "reported", "deleted", "done"}
Stages == {"new", "checked", "epoch", "booked", "out", "unstored", "dropped"}

-----------------------------------------------------------------------------
(* server/dex gives the markets a book locker for UTXO assets only, and    *)
(* the Swapper a swap locker for account-based assets only.                *)

BookLockerSet == assetKind = "utxo"
SwapLockerSet == assetKind = "account"

lockOrderCoins(o) ==
    IF BookLockerSet THEN LockOrdersCoins("book", {o}) ELSE UNCHANGED lockVars

\* Mutant of unlockOrderCoins: the call is lost.
unlockOrderCoinsLost(o) == UNCHANGED lockVars

unlockOrderCoins(o) ==
    IF BookLockerSet THEN UnlockOrderCoins("book", o) ELSE UNCHANGED lockVars

swapLockOrders(S) ==
    IF SwapLockerSet THEN LockOrdersCoins("swap", S) ELSE UNCHANGED lockVars

swapUnlockOrder(o) ==
    IF SwapLockerSet THEN UnlockOrderCoins("swap", o) ELSE UNCHANGED lockVars

\* Market.coinsLocked: a known order, or any coin locked by either locker.
coinsLocked(o) ==
    /\ BookLockerSet
    /\ OrderCoinsLocked(o) # {} \/ \E c \in CoinsOf[o] : CoinLocked(c)

(* NewMarket, for every market on the asset, on the orders and matches of  *)
(* an earlier run (none on a new database).  Unfilled booked orders lock   *)
(* their coins again, one call each; one whose coins are taken is revoked  *)
(* (one whose coins are spent too: it is as if it had not been booked).    *)
(* Partly filled orders are booked without a lock, since their coins       *)
(* should be spent in a swap.  settling counts the active matches.         *)
Partly(booked, active) == booked \cap active
Unfilled(booked, active) == booked \ active

NewMarket(booked, active, A) ==
    /\ IF BookLockerSet
       THEN /\ \A o, p \in A : o # p => ~Conflict(o, p)
            /\ \A o \in Unfilled(booked, active) \ A : \E p \in A : Conflict(o, p)
       ELSE A = Unfilled(booked, active)
    /\ lockedCoins = [l \in Lockers |->
           IF l = "book" /\ BookLockerSet THEN UNION {CoinsOf[o] : o \in A} ELSE {}]
    /\ lockedCoinsByOrder = [l \in Lockers |-> [o \in Orders |->
           IF l = "book" /\ BookLockerSet /\ o \in A THEN CoinsOf[o] ELSE {}]]
    /\ stage = [o \in Orders |->
           IF o \in A \cup Partly(booked, active) THEN "booked"
           ELSE IF o \in Unfilled(booked, active) \cup active THEN "out" ELSE "new"]
    /\ phase = [o \in Orders |-> [i \in MatchNos |->
           IF o \in active /\ i = 1 THEN "live" ELSE "none"]]
    /\ settling = [o \in Orders |-> IF o \in active THEN 1 ELSE Absent]
    /\ rebooked = Partly(booked, active)
    /\ release = {} /\ unbooking = {} /\ matching = {} /\ atFault = {}

FundInit ==
    /\ assetKind \in {"utxo", "account"}
    /\ \E booked \in SUBSET {o \in Orders : Kind[o] = "standing"},
          active \in SUBSET Orders :
          \E A \in SUBSET Unfilled(booked, active) : NewMarket(booked, active, A)

-----------------------------------------------------------------------------
(* processOrder: check, then lock.  A market takes one order at a time,    *)
(* and stops when one cannot be stored.                                    *)

CheckCoins(o) ==
    /\ stage[o] = "new"
    /\ \A p \in Orders : MarketOf[p] = MarketOf[o] => stage[p] \notin {"checked", "unstored"}
    /\ stage' = [stage EXCEPT ![o] = IF coinsLocked(o) THEN "out" ELSE "checked"]
    /\ UNCHANGED <<lockVars, phase, settling, rebooked, release, unbooking,
                   matching, atFault>>

EnterEpoch(o) ==
    /\ stage[o] = "checked"
    /\ lockOrderCoins(o)
    /\ \E stored \in {"epoch", "unstored"} :
          stage' = [stage EXCEPT
                       ![o] = IF BookLockerSet /\ Held("book", o) THEN "out" ELSE stored]
    /\ UNCHANGED <<phase, settling, rebooked, release, unbooking, matching,
                   atFault>>

\* prepEpoch: no preimage came, the order is revoked.
MissPreimage(o) ==
    /\ stage[o] = "epoch"
    /\ unlockOrderCoins(o)
    /\ stage' = [stage EXCEPT ![o] = "out"]
    /\ UNCHANGED <<phase, settling, rebooked, release, unbooking, matching,
                   atFault>>

\* Run returns at a suspend: the orders that fell into the epoch after the
\* final one stay in the open queue, which is dropped with it.
DropEpochOrder(o) ==
    /\ stage[o] = "epoch"
    /\ stage' = [stage EXCEPT ![o] = "dropped"]
    /\ UNCHANGED <<lockVars, phase, settling, rebooked, release, unbooking,
                   matching, atFault>>

-----------------------------------------------------------------------------
(* processReadyEpoch.  Matching, the book and the settling amounts change  *)
(* together under bookMtx; the coins of the orders that are through are    *)
(* unlocked after it, one call each; Negotiate comes last.                 *)

\* What one epoch may do to one of its own orders, or to a booked order.
Results(o) ==
    CASE stage[o] = "epoch" ->
            {"filled", "failed"} \cup
            (IF Kind[o] = "standing" THEN {"booked", "partial", "canceled"} ELSE {})
      [] stage[o] = "booked" -> {"booked", "partial", "filled", "canceled"}

Matched(r) == r \in {"filled", "partial"}
Through(r) == r \in {"filled", "failed", "canceled"}
CanMatch(o) == \E i \in MatchNos : phase[o][i] = "none"
NextMatch(o) == CHOOSE i \in MatchNos : phase[o][i] = "none"

MatchOrders(mk) ==
    /\ mk \notin matching
    /\ \E E \in SUBSET {o \in Orders : stage[o] \in {"epoch", "booked"} /\ MarketOf[o] = mk} :
       \E res \in [E -> {"filled", "failed", "booked", "partial", "canceled"}] :
        /\ E # {}
        /\ \A o \in E : res[o] \in Results(o) /\ (Matched(res[o]) => CanMatch(o))
        /\ stage' = [o \in Orders |->
                        IF o \notin E THEN stage[o]
                        ELSE IF Through(res[o]) THEN "out" ELSE "booked"]
        /\ phase' = [o \in Orders |->
                        IF o \in E /\ Matched(res[o])
                        THEN [phase[o] EXCEPT ![NextMatch(o)] = "due"]
                        ELSE phase[o]]
        /\ settling' = [o \in Orders |->
                          IF o \notin E THEN settling[o]
                          ELSE IF res[o] = "canceled" THEN Absent
                          ELSE IF ~Matched(res[o]) THEN settling[o]
                          ELSE IF settling[o] = Absent THEN 1 ELSE settling[o] + 1]
        /\ release' = release \cup {o \in E : Through(res[o])}
    /\ matching' = matching \cup {mk}
    /\ UNCHANGED <<lockVars, rebooked, unbooking, atFault>>

\* The doneOK, failed and unbooked loops.
UnlockThrough(o) ==
    /\ o \in release
    /\ unlockOrderCoins(o)
    /\ release' = release \ {o}
    /\ UNCHANGED <<stage, phase, settling, rebooked, unbooking, matching,
                   atFault>>

MatchesDue(mk) == {o \in Orders : MarketOf[o] = mk /\ \E i \in MatchNos : phase[o][i] = "due"}

Negotiate(mk) ==
    /\ mk \in matching
    /\ \A o \in release : MarketOf[o] # mk
    /\ swapLockOrders(MatchesDue(mk))
    /\ phase' = [o \in Orders |->
                    IF MarketOf[o] # mk THEN phase[o]
                    ELSE [i \in MatchNos |->
                            IF phase[o][i] = "due" THEN "live" ELSE phase[o][i]]]
    /\ matching' = matching \ {mk}
    /\ UNCHANGED <<stage, settling, rebooked, release, unbooking, atFault>>

-----------------------------------------------------------------------------
(* The Swapper's side of a match, and its SwapDone callback.               *)

SetPhase(o, i, to) == phase' = [phase EXCEPT ![o][i] = to]

\* processBlock: the order's swap has SwapConf confirmations.
ConfirmSwap(o, i) ==
    /\ phase[o][i] = "live"
    /\ swapUnlockOrder(o)
    /\ SetPhase(o, i, "confirmed")
    /\ UNCHANGED <<stage, settling, rebooked, release, unbooking, matching,
                   atFault>>

\* Market.SwapDone's effect on the settling map, the book and the locker.
Remaining(o) == IF settling[o] = 0 THEN 0 ELSE settling[o] - 1

SwapDone(o, fail) ==
    \/ /\ settling[o] = Absent
       /\ UNCHANGED <<lockVars, stage, settling>>
    \/ /\ settling[o] # Absent
       /\ fail
       /\ settling' = [settling EXCEPT ![o] = Absent]
       /\ IF Kind[o] # "market"
          THEN /\ unlockOrderCoins(o)
               /\ stage' = [stage EXCEPT ![o] = IF @ = "booked" THEN "out" ELSE @]
          ELSE UNCHANGED <<lockVars, stage>>
    \/ /\ settling[o] # Absent
       /\ ~fail
       /\ settling' = [settling EXCEPT
                          ![o] = IF Remaining(o) > 0 \/ stage[o] = "booked"
                                 THEN Remaining(o) ELSE Absent]
       /\ UNCHANGED <<lockVars, stage>>

\* processRedeem: the order's side is settled, the match still tracked.
ReportRedeem(o, i) ==
    /\ phase[o][i] \in {"live", "confirmed"}
    /\ SwapDone(o, FALSE)
    /\ SetPhase(o, i, "reported")
    /\ UNCHANGED <<rebooked, release, unbooking, matching, atFault>>

\* deleteMatch: completed matches after their report, failed ones before.
DeleteMatch(o, i) ==
    /\ phase[o][i] \in {"live", "confirmed", "reported"}
    /\ swapUnlockOrder(o)
    /\ SetPhase(o, i, IF phase[o][i] = "reported" THEN "done" ELSE "deleted")
    /\ UNCHANGED <<stage, settling, rebooked, release, unbooking, matching,
                   atFault>>

\* failMatch after deleteMatch.
ReportFail(o, i, fault) ==
    /\ phase[o][i] = "deleted"
    /\ SwapDone(o, fault)
    /\ SetPhase(o, i, "done")
    /\ atFault' = IF fault THEN atFault \cup {o} ELSE atFault
    /\ UNCHANGED <<rebooked, release, unbooking, matching>>

-----------------------------------------------------------------------------
(* Unbook, UnbookUserOrders, PurgeBook: off the book first, unlock after.  *)

Unbook(o) ==
    /\ stage[o] = "booked"
    /\ stage' = [stage EXCEPT ![o] = "out"]
    /\ settling' = [settling EXCEPT ![o] = Absent]
    /\ unbooking' = unbooking \cup {o}
    /\ UNCHANGED <<lockVars, phase, rebooked, release, matching, atFault>>

UnlockUnbooked(o) ==
    /\ o \in unbooking
    /\ unlockOrderCoins(o)
    /\ unbooking' = unbooking \ {o}
    /\ UNCHANGED <<stage, phase, settling, rebooked, release, matching, atFault>>

\* purgeBook at a suspend: the book is cleared and its coins unlocked under
\* bookMtx; the settling amounts stay.
PurgeBook(mk) ==
    LET onBook == {o \in Orders : MarketOf[o] = mk /\ stage[o] = "booked"}
    IN  /\ onBook # {}
        /\ stage' = [o \in Orders |-> IF o \in onBook THEN "out" ELSE stage[o]]
        /\ IF BookLockerSet THEN UnlockOrdersCoins("book", onBook)
                            ELSE UNCHANGED lockVars
        /\ UNCHANGED <<phase, settling, rebooked, release, unbooking, matching,
                       atFault>>

-----------------------------------------------------------------------------
FundNext ==
    /\ UNCHANGED assetKind
    /\ \/ \E o \in Orders : CheckCoins(o) \/ EnterEpoch(o) \/ MissPreimage(o)
                               \/ DropEpochOrder(o) \/ UnlockThrough(o)
                               \/ Unbook(o) \/ UnlockUnbooked(o)
       \/ \E mk \in Markets : MatchOrders(mk) \/ Negotiate(mk) \/ PurgeBook(mk)
       \/ \E o \in Orders, i \in MatchNos :
             ConfirmSwap(o, i) \/ ReportRedeem(o, i) \/ DeleteMatch(o, i)
       \/ \E o \in Orders, i \in MatchNos, fault \in BOOLEAN : ReportFail(o, i, fault)

FundSpec == FundInit /\ [][FundNext]_fundingVars

-----------------------------------------------------------------------------
(* Properties. *)

\* No coin stays locked in the book locker once every order that named it
\* has left the epoch queue and the book: each way out of the market (a
\* missed preimage, a fill, a cancel, a revocation, a purge) unlocks.  Only
\* an order that could not be stored, which stops its market, and one that a
\* suspended market dropped stay locked.
NoLeakedBookLock ==
    \A c \in lockedCoins["book"] :
        \E o \in Orders : /\ c \in CoinsOf[o]
                          /\ \/ stage[o] \in {"epoch", "booked", "unstored", "dropped"}
                             \/ o \in release \cup unbooking

\* No coin stays locked in the swap locker once the Swapper tracks no match
\* of an order that named it (Negotiate locks, deleteMatch unlocks).
NoLeakedSwapLock ==
    \A c \in lockedCoins["swap"] :
        \E o \in Orders, i \in MatchNos :
            c \in CoinsOf[o] /\ phase[o][i] \in {"live", "confirmed", "reported"}

\* No coin stays locked, in either locker, once nobody needs it: every way an
\* order takes through Market and Swapper ends with the unlock call of the
\* locker that holds its coins.
NoLeakedLock == NoLeakedBookLock /\ NoLeakedSwapLock

\* "Market and limit orders using the same coin IDs as other orders is
\* prevented by the coinlocker" (processOrder), restricted to orders that
\* wait in an epoch queue or on the book, and as long as no order on that
\* coin had an at-fault swap.  Orders funded by an account share its address
\* and lock no coin.  Partly filled orders rebooked by NewMarket
\* are not locked by design ("should be spent in a swap contract").
WaitingOrdersShareNoCoin ==
    \A o, p \in Orders :
        (/\ BookLockerSet /\ o # p /\ Conflict(o, p)
         /\ stage[o] \in {"epoch", "booked"} /\ stage[p] \in {"epoch", "booked"})
        => \/ \E q \in atFault : CoinsOf[q] \cap CoinsOf[o] \cap CoinsOf[p] # {}
           \/ {o, p} \cap rebooked # {}

=============================================================================
