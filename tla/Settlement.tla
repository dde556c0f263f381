----------------------------- MODULE Settlement -----------------------------
(***************************************************************************)
(* What the Swapper promises about one match, without handlers, timers,    *)
(* storage or goroutines: the four actions of the settlement happen in     *)
(* order, one party at a time (order.MatchStatus); the negotiation may be  *)
(* closed at any point; and once it is closed short of the end, at most    *)
(* one party is penalised, a party that could have moved it on.  Only a    *)
(* server restart may reopen it or take an action back.                    *)
(***************************************************************************)
EXTENDS Integers

VARIABLES phase,      \* "before", "open" or "closed"
          turn,       \* actions accepted so far: order.MatchStatus
          penalised,  \* the party charged with the failure, or "none"
          restarts

settleVars == <<phase, turn, penalised, restarts>>

Turns == 0..4

\* The maker swaps and redeems first.
Actor(t) == IF t \in {0, 2} THEN "maker" ELSE "taker"

\* Before the maker's swap the taker, too, owes something: an address.
MayBlame(t) == IF t = 0 THEN {"maker", "taker"} ELSE {Actor(t)}

SettleInit == phase = "before" /\ turn = 0 /\ penalised = "none" /\ restarts = 0

Begin ==
    /\ phase = "before" /\ phase' = "open"
    /\ UNCHANGED <<turn, penalised, restarts>>

Act ==
    /\ phase = "open" /\ turn < 4
    /\ turn' = turn + 1
    /\ UNCHANGED <<phase, penalised, restarts>>

Close ==
    /\ phase = "open" /\ phase' = "closed"
    /\ UNCHANGED <<turn, penalised, restarts>>

Penalise ==
    /\ phase = "closed" /\ turn < 4 /\ penalised = "none"
    /\ penalised' \in MayBlame(turn)
    /\ UNCHANGED <<phase, turn, restarts>>

\* A restart finds the match as stored: one action ahead of the memory that
\* was lost, or one behind.  A penalised match stays closed.
Resume ==
    /\ restarts' = restarts + 1
    /\ phase' = "before" => phase = "before"
    /\ phase' \in {"before", "open", "closed"}
    /\ penalised # "none" => phase' = "closed"
    /\ turn' \in (turn - 1)..(turn + 1) /\ turn' \in Turns
    /\ UNCHANGED penalised

SettleNext == Begin \/ Act \/ Close \/ Penalise \/ Resume

SettleSpec == SettleInit /\ [][SettleNext]_settleVars

=============================================================================
