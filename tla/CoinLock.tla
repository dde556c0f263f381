------------------------------ MODULE CoinLock ------------------------------
(***************************************************************************)
(* server/coinlock: the MasterCoinLocker of one asset.  It pairs two       *)
(* AssetCoinLockers, the market's ("book") and the Swapper's ("swap"), and *)
(* a coin counts as locked when either of them holds it.  Every method     *)
(* runs under the locker's coinMtx, so a call is one atomic step.          *)
(*                                                                         *)
(* A funding coin is a model value.  CoinsOf[o] are the coins an order     *)
(* names (Trade().Coins); they never change during the order's life.       *)
(***************************************************************************)
EXTENDS FiniteSets

CONSTANTS Orders, Coins, CoinsOf

ASSUME CoinsOfAssumption == CoinsOf \in [Orders -> SUBSET Coins]

Lockers == {"book", "swap"}

VARIABLES lockedCoins,        \* AssetCoinLocker.lockedCoins
          lockedCoinsByOrder  \* AssetCoinLocker.lockedCoinsByOrder

lockVars == <<lockedCoins, lockedCoinsByOrder>>

LockInit ==
    /\ lockedCoins = [l \in Lockers |-> {}]
    /\ lockedCoinsByOrder = [l \in Lockers |-> [o \in Orders |-> {}]]

-----------------------------------------------------------------------------
(* Queries. *)

\* MasterCoinLocker.CoinLocked: the swap lock first, then the book lock.
CoinLocked(c) == \E l \in Lockers : c \in lockedCoins[l]

\* MasterCoinLocker.OrderCoinsLocked: the swap list when it has any.
OrderCoinsLocked(o) ==
    IF lockedCoinsByOrder["swap"][o] # {}
    THEN lockedCoinsByOrder["swap"][o]
    ELSE lockedCoinsByOrder["book"][o]

-----------------------------------------------------------------------------
(* Locking.  A call walks its orders one by one and takes an order's coins *)
(* only when none of them is held by THIS locker, counting the coins of    *)
(* the orders it accepted before.  The walk follows a list the caller      *)
(* built (LockOrdersCoins) or Go's map order (LockCoins); over all walks   *)
(* the accepted orders are exactly the maximal conflict-free subsets.      *)

Conflict(o, p) == CoinsOf[o] \cap CoinsOf[p] # {}

\* Mutant of Held: an order is refused only when ALL its coins are held.
HeldWhole(l, o) == CoinsOf[o] # {} /\ CoinsOf[o] \subseteq lockedCoins[l]

Held(l, o) == CoinsOf[o] \cap lockedCoins[l] # {}

Accepted(l, S) ==
    {A \in SUBSET S :
        /\ \A o \in A : ~Held(l, o) /\ \A p \in A \ {o} : ~Conflict(o, p)
        /\ \A o \in S \ A : Held(l, o) \/ \E p \in A : Conflict(o, p)}

\* Mutant of Take: the order's list is not recorded.
TakeUnlisted(l, A) ==
    /\ lockedCoins' =
          [lockedCoins EXCEPT ![l] = @ \cup UNION {CoinsOf[o] : o \in A}]
    /\ UNCHANGED lockedCoinsByOrder

Take(l, A) ==
    /\ lockedCoins' =
          [lockedCoins EXCEPT ![l] = @ \cup UNION {CoinsOf[o] : o \in A}]
    /\ lockedCoinsByOrder' =
          [lockedCoinsByOrder EXCEPT
              ![l] = [o \in Orders |-> IF o \in A THEN CoinsOf[o] ELSE @[o]]]

\* Orders without coins (cancel orders) are skipped.
LockOrdersCoins(l, S) ==
    \E A \in Accepted(l, {o \in S : CoinsOf[o] # {}}) : Take(l, A)

LockCoins(l, S) == \E A \in Accepted(l, S) : Take(l, A)

-----------------------------------------------------------------------------
(* Unlocking.  The coins leave lockedCoins; the order's list stays.        *)

UnlockOrderCoins(l, o) ==
    /\ lockedCoins' = [lockedCoins EXCEPT ![l] = @ \ lockedCoinsByOrder[l][o]]
    /\ UNCHANGED lockedCoinsByOrder

UnlockOrdersCoins(l, S) ==
    /\ lockedCoins' = [lockedCoins EXCEPT
                          ![l] = @ \ UNION {lockedCoinsByOrder[l][o] : o \in S}]
    /\ UNCHANGED lockedCoinsByOrder

UnlockAll(l) ==
    /\ lockedCoins' = [lockedCoins EXCEPT ![l] = {}]
    /\ lockedCoinsByOrder' =
          [lockedCoinsByOrder EXCEPT ![l] = [o \in Orders |-> {}]]

LockNext ==
    \E l \in Lockers :
        \/ \E S \in SUBSET Orders : LockOrdersCoins(l, S)
        \/ \E S \in SUBSET Orders : LockCoins(l, S)
        \/ \E o \in Orders : UnlockOrderCoins(l, o)
        \/ \E S \in SUBSET Orders : UnlockOrdersCoins(l, S)
        \/ UnlockAll(l)

LockSpec == LockInit /\ [][LockNext]_lockVars

-----------------------------------------------------------------------------
(* Properties. *)

\* The shape of the two maps of each AssetCoinLocker.
LockTypeOK ==
    /\ lockedCoins \in [Lockers -> SUBSET Coins]
    /\ lockedCoinsByOrder \in [Lockers -> [Orders -> SUBSET Coins]]

\* Every locked coin is on the list of an order, and that order names it:
\* UnlockOrderCoins of some order can still release it.  A coin locked
\* without an owner would stay locked until the server restarts.
EveryLockHasOwner ==
    \A l \in Lockers : \A c \in lockedCoins[l] :
        \E o \in Orders : c \in lockedCoinsByOrder[l][o] /\ c \in CoinsOf[o]

=============================================================================
