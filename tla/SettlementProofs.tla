-------------------------- MODULE SettlementProofs --------------------------
(***************************************************************************)
(* Theorems about the negotiation of a match whose requests do not overlap *)
(* (with two in flight, the coin search gate lets a stale step through):   *)
(* no failure after acceptance, no credit and penalty for the same side,   *)
(* one report to the market, and the refinement of Settlement.  They hold  *)
(* for any timeouts, storage failures and restarts.                        *)
(***************************************************************************)
EXTENDS SwapperProofs

\* Requests do not overlap: one request at a time is in flight.
Serial == \E k : Slots = {k}

\* The redeem of step st was accepted by request k and is not yet credited.
Pending(k, st) == task[k].pc \in {"saveRedeem", "credit"} /\ task[k].step = st

\* What a status says of the swaps and redeems recorded with it.
Recorded(st, sw, rd) ==
    /\ "maker" \in sw => st >= 1
    /\ "taker" \in sw => st >= 2
    /\ rd["maker"] # Never => st >= 3
    /\ rd["taker"] # Never => st = 4

\* The request works on the step it read: the status moves with it only.
StepInv(k) ==
    /\ task[k].pc \in {"stepped", "search", "expired", "save", "update"}
         => task[k].step = status
    /\ task[k].pc \in {"expired", "save", "update"} => task[k].step \in {0, 1}
    /\ task[k].pc \in {"saveRedeem", "credit"}
         => task[k].step \in {2, 3} /\ status = task[k].step + 1

\* No swap or redeem is recorded ahead of the status, in memory or in the row.
RecordInv ==
    /\ inMap \/ failing.pc # "none" => Recorded(status, swap, redeemTime)
    /\ db.active => Recorded(db.status, db.swap, db.redeem) /\ db.status <= 3
    /\ neg # "done" => /\ ~inMap /\ status = 0 /\ swap = {} /\ redeemTime = Reset
                       /\ db.status = 0 /\ db.swap = {} /\ db.redeem = Reset

\* How far the row is from the memory, as long as nothing was lost, and as
\* long as the row is active.
RowInv(k) ==
    /\ db.active =>
         /\ task[k].pc = "update" => db.status = status + 1
         /\ task[k].pc = "saveRedeem" /\ task[k].step = 2 => db.status = 2
         /\ (inMap \/ task[k].pc # "idle") /\ task[k].pc # "update" /\ status <= 2
              => db.status = status
    /\ lost = {} =>
         /\ task[k].pc = "update" => db.status = status + 1
         /\ task[k].pc = "saveRedeem" => db.status = status - 1
         /\ task[k].pc \notin {"update", "saveRedeem"}
              => \/ db.status = status
                 \/ task[k].pc = "idle" /\ ~inMap /\ db.status = status + 1

\* A match fails before it is complete.
FailInv ==
    /\ failing.pc # "none" => status <= 3 /\ (failing.noAddr => status = 0)
    /\ faults = 0 <=> faulted = "none"
    /\ redeemAck => status = 4

\* A credited side has its redeem behind it and was not penalised.
CreditInv(k) ==
    lost = {} =>
      /\ "maker" \in credited => status >= 3 /\ db.status >= 3 /\ faulted # "maker"
      /\ "taker" \in credited => status = 4 /\ db.status = 4 /\ faulted # "taker"
      /\ Pending(k, 2) => faulted # "maker"
      /\ Pending(k, 3) => faulted # "taker"

\* Who the market has heard of, in this run of the server.
DoneInv(k) ==
    /\ done["maker"] <= 1 /\ done["taker"] <= 1
    /\ Pending(k, 2) => done["maker"] = 0
    /\ Pending(k, 3) => done["taker"] = 0
    /\ (inMap \/ failing.pc # "none") /\ status <= 3 => done["taker"] = 0
    /\ (inMap \/ failing.pc # "none") /\ status <= 2 => done["maker"] = 0
    /\ neg # "done" => done["maker"] = 0 /\ done["taker"] = 0 /\ task[k].pc = "idle"
    /\ crashes = 0 =>
         /\ status >= 3 => done["maker"] = 1 \/ Pending(k, 2)
         /\ status = 4 => done["taker"] = 1 \/ Pending(k, 3)
         /\ neg = "done" /\ ~inMap /\ failing.pc = "none" =>
              /\ done["maker"] = 1 \/ Pending(k, 2)
              /\ done["taker"] = 1 \/ Pending(k, 3)

SerialInv(k) == /\ StepInv(k) /\ RecordInv /\ RowInv(k)
                /\ FailInv /\ CreditInv(k) /\ DoneInv(k)

-----------------------------------------------------------------------------
(* What the steps of a request do. *)

\* A request that goes on keeps the step it works on.
LEMMA GotoEffect ==
    ASSUME TypeOK, NEW k \in Slots, NEW p, Goto(k, p)
    PROVE  task'[k].pc = p /\ task'[k].step = task[k].step
  BY Zenon DEF Goto, TypeOK, Tasks

\* A request that is answered leaves its slot idle.
LEMMA FinishEffect ==
    ASSUME TypeOK, NEW k \in Slots, Finish(k)
    PROVE  task'[k].pc = "idle"
  BY Zenon DEF Finish, TypeOK, Idle

\* Everything the invariant speaks of, but the requests.
rest == <<neg, inMap, status, swap, redeemTime, failing, redeemAck, db.active, db.status,
          db.swap, db.redeem, crashes, done, credited, faults, faulted, lost>>

\* A step that changes none of it keeps the invariant.
LEMMA QuietKeepsSerial ==
    ASSUME NEW k, SerialInv(k), UNCHANGED rest, UNCHANGED task
    PROVE  SerialInv(k)'
  BY DEF SerialInv, StepInv, RecordInv, Recorded, RowInv, FailInv, CreditInv, DoneInv, Pending, rest

\* Types, for one request.
LEMMA SerialTypes ==
    ASSUME TypeOK, NEW k \in Slots
    PROVE  /\ status \in 0..4 /\ db.status \in 0..4 /\ task[k].step \in 0..3
           /\ task[k].pc \in PCs
           /\ done["maker"] \in 0..2 /\ done["taker"] \in 0..2
           /\ faults \in 0..2 /\ crashes \in Nat
           /\ redeemTime["maker"] \in Times /\ redeemTime["taker"] \in Times
  BY SwapperAssumption DEF TypeOK, Status, Row, Tasks, Sides

\* A request that only moves on, with nothing accepted or stored.
LEMMA MoveKeepsSerial ==
    ASSUME TypeOK, NEW k \in Slots, SerialInv(k), UNCHANGED rest,
           \/ task[k].pc = "idle" /\ task'[k].pc = "stepped" /\ task'[k].step = status /\ inMap
           \/ task[k].pc = "stepped" /\ task'[k].pc = "search" /\ task'[k].step = task[k].step
           \/ task[k].pc \in {"stepped", "search"} /\ task'[k].pc = "idle"
           \/ /\ task[k].pc = "search" /\ task[k].step \in {0, 1}
              /\ task'[k].pc \in {"expired", "save"} /\ task'[k].step = task[k].step
    PROVE  SerialInv(k)'
  <1> USE SerialTypes DEF rest, PCs
  <1>1. StepInv(k)' /\ RecordInv'
    BY DEF SerialInv, StepInv, RecordInv, Recorded
  <1>2. RowInv(k)'
    BY Zenon DEF SerialInv, RowInv, StepInv, RecordInv
  <1>3. /\ ~Pending(k, 2) /\ ~Pending(k, 3)
        /\ ~Pending(k, 2)' /\ ~Pending(k, 3)'
    BY Zenon DEF Pending
  <1>4. FailInv' /\ CreditInv(k)'
    BY Zenon, <1>3 DEF SerialInv, FailInv, CreditInv
  <1>5. DoneInv(k)'
    BY Zenon, <1>3 DEF SerialInv, DoneInv, RecordInv
  <1> QED BY Zenon, <1>1, <1>2, <1>4, <1>5 DEF SerialInv

\* The steps of a request before anything is stored or accepted.
LEMMA SearchesKeepSerial ==
    ASSUME TypeOK, NEW k \in Slots, SerialInv(k),
           handleStep(k) \/ startSearch(k) \/ endSearch(k) \/ checkContract(k)
    PROVE  SerialInv(k)'
  <1>1. UNCHANGED rest
    <2>1. /\ UNCHANGED <<neg, inMap, status, swap, redeemTime, failing, redeemAck, db, crashes>>
          /\ UNCHANGED histVars
      BY ZenonT(30) DEF handleStep, startSearch, endSearch, checkContract
    <2> QED BY ZenonT(30), <2>1 DEF histVars, rest
  <1>2. CASE handleStep(k)
    <2>1. /\ task[k].pc = "idle" /\ inMap
          /\ task' = [task EXCEPT ![k] = [pc |-> "stepped", step |-> status]]
      BY ZenonT(30), <1>2 DEF handleStep, stepAllowed
    <2>2. task'[k].pc = "stepped" /\ task'[k].step = status
      BY Zenon, <2>1 DEF TypeOK
    <2> QED BY Zenon, <1>1, <2>1, <2>2, MoveKeepsSerial
  <1>3. CASE startSearch(k)
    <2>1. task[k].pc = "stepped" /\ (Goto(k, "search") \/ Finish(k))
      BY ZenonT(30), <1>3 DEF startSearch
    <2> QED BY Zenon, <1>1, <2>1, GotoEffect, FinishEffect, MoveKeepsSerial
  <1>4. CASE endSearch(k)
    <2>1. task[k].pc = "search" /\ Finish(k)
      BY ZenonT(30), <1>4 DEF endSearch
    <2> QED BY Zenon, <1>1, <2>1, FinishEffect, MoveKeepsSerial
  <1>5. CASE checkContract(k)
    <2>1. /\ task[k].pc = "search" /\ kind(task[k].step) = "init"
          /\ Goto(k, "expired") \/ Goto(k, "save")
      BY ZenonT(30), <1>5 DEF checkContract
    <2>2. task[k].step \in {0, 1}
      BY Zenon, <2>1, SerialTypes DEF kind, NewlyMatched, MakerSwapCast
    <2> QED BY Zenon, <1>1, <2>1, <2>2, GotoEffect, MoveKeepsSerial
  <1> QED BY Zenon, <1>2, <1>3, <1>4, <1>5

\* processInit stores the contract: the row is one step ahead.
LEMMA SaveContractKeepsSerial ==
    ASSUME TypeOK, NEW k \in Slots, SerialInv(k), SaveContract(k)
    PROVE  SerialInv(k)'
  <1> DEFINE st == task[k].step
  <1>1. /\ task[k].pc = "save"
        /\ UNCHANGED <<neg, inMap, status, swap, redeemTime, failing, redeemAck, crashes,
                       done, credited, faults, faulted>>
    BY ZenonT(30) DEF SaveContract
  <1>2. \/ /\ lost' = lost /\ Goto(k, "update")
           /\ db' = [db EXCEPT !.status = nextStep(st), !.swap = @ \cup {actor(st)}]
        \/ lost' = lost \cup {} /\ db' = db /\ Goto(k, "search")
    BY ZenonT(30) DEF SaveContract, Stored, StoreFails
  <1>3. CASE lost' = lost \cup {} /\ db' = db /\ Goto(k, "search")
    <2>1. UNCHANGED rest /\ task'[k].pc = "search" /\ task'[k].step = st
      BY Zenon, <1>1, <1>3, GotoEffect DEF rest
    <2> USE SerialTypes DEF rest, PCs
    <2>2. StepInv(k)' /\ RecordInv' /\ RowInv(k)'
      BY <1>1, <2>1 DEF SerialInv, StepInv, RecordInv, Recorded, RowInv
    <2>3. FailInv' /\ CreditInv(k)' /\ DoneInv(k)'
      BY <1>1, <2>1 DEF SerialInv, FailInv, CreditInv, DoneInv, StepInv, Pending
    <2> QED BY Zenon, <2>2, <2>3 DEF SerialInv
  <1>4. CASE /\ lost' = lost /\ Goto(k, "update")
             /\ db' = [db EXCEPT !.status = nextStep(st), !.swap = @ \cup {actor(st)}]
    <2>1. task'[k].pc = "update" /\ task'[k].step = st
      BY Zenon, <1>4, GotoEffect
    <2>2. /\ db'.status = st + 1 /\ db'.swap = db.swap \cup {actor(st)}
          /\ db'.active = db.active /\ db'.redeem = db.redeem
      BY Zenon, <1>4 DEF TypeOK, Row, nextStep
    <2>3. st \in {0, 1} /\ st = status /\ neg = "done"
      BY Zenon, <1>1 DEF SerialInv, StepInv, DoneInv
    <2>4. actor(st) = IF st = 0 THEN "maker" ELSE "taker"
      BY <2>3 DEF actor, NewlyMatched, TakerSwapCast
    <2> USE SerialTypes
    <2>5. StepInv(k)' /\ RowInv(k)'
      BY Zenon, <1>1, <1>4, <2>1, <2>2, <2>3 DEF SerialInv, StepInv, RowInv
    <2>6. RecordInv'
      BY <1>1, <1>4, <2>2, <2>3, <2>4 DEF SerialInv, RecordInv, Recorded, RowInv
    <2>7. FailInv' /\ CreditInv(k)' /\ DoneInv(k)'
      BY <1>1, <1>4, <2>1, <2>2, <2>3 DEF SerialInv, FailInv, CreditInv, DoneInv, Pending
    <2> QED BY Zenon, <2>5, <2>6, <2>7 DEF SerialInv
  <1> QED BY Zenon, <1>2, <1>3, <1>4

\* processInit advances the match, if it is still tracked.
LEMMA UpdateInitKeepsSerial ==
    ASSUME TypeOK, PenaltyInv, NEW k \in Slots, SerialInv(k), updateInit(k)
    PROVE  SerialInv(k)'
  <1> DEFINE st == task[k].step
  <1>1. /\ task[k].pc = "update" /\ Finish(k)
        /\ UNCHANGED <<neg, inMap, redeemTime, failing, redeemAck, db, crashes>>
        /\ UNCHANGED histVars
    BY ZenonT(30) DEF updateInit
  <1>2. UNCHANGED <<done, credited, faults, faulted, lost>>
    BY ZenonT(30), <1>1 DEF histVars
  <1>3. /\ inMap => swap' = swap \cup {actor(st)} /\ status' = st + 1
        /\ ~inMap => UNCHANGED <<swap, status>>
    BY ZenonT(30) DEF updateInit, nextStep
  <1>4. st \in {0, 1} /\ st = status /\ neg = "done"
    BY Zenon, <1>1 DEF SerialInv, StepInv, DoneInv
  <1>5. actor(st) = IF st = 0 THEN "maker" ELSE "taker"
    BY <1>4 DEF actor, NewlyMatched, TakerSwapCast
  <1>6. task'[k].pc = "idle"
    BY Zenon, <1>1, FinishEffect
  <1>7. failing.pc # "none" => ~inMap
    BY Zenon DEF PenaltyInv
  <1>8. /\ ~Pending(k, 2) /\ ~Pending(k, 3)
        /\ ~Pending(k, 2)' /\ ~Pending(k, 3)'
    BY Zenon, <1>1, <1>6 DEF Pending
  <1> USE SerialTypes
  <1>9. StepInv(k)' /\ RowInv(k)'
    BY Zenon, <1>1, <1>2, <1>3, <1>4, <1>6 DEF SerialInv, StepInv, RowInv
  <1>10. RecordInv'
    BY <1>1, <1>3, <1>4, <1>5, <1>7 DEF SerialInv, RecordInv, Recorded
  <1>11. FailInv' /\ CreditInv(k)'
    BY <1>1, <1>2, <1>3, <1>4, <1>7, <1>8 DEF SerialInv, FailInv, CreditInv
  <1>12. DoneInv(k)'
    BY <1>1, <1>2, <1>3, <1>4, <1>7, <1>8 DEF SerialInv, DoneInv
  <1> QED BY Zenon, <1>9, <1>10, <1>11, <1>12 DEF SerialInv

\* processRedeem accepts a redeem of a match that is still tracked.
LEMMA UpdateRedeemKeepsSerial ==
    ASSUME TypeOK, PenaltyInv, NEW k \in Slots, SerialInv(k), updateRedeem(k)
    PROVE  SerialInv(k)'
  <1> DEFINE st == task[k].step
  <1>1. /\ task[k].pc = "search" /\ kind(st) = "redeem"
        /\ UNCHANGED <<neg, inMap, swap, failing, redeemAck, db, crashes>>
        /\ UNCHANGED histVars
    BY ZenonT(30) DEF updateRedeem
  <1>2. UNCHANGED <<done, credited, faults, faulted, lost>>
    BY ZenonT(30), <1>1 DEF histVars
  <1>3. /\ inMap => /\ redeemTime' = [redeemTime EXCEPT ![actor(st)] = now]
                    /\ status' = st + 1 /\ Goto(k, "saveRedeem")
        /\ ~inMap => UNCHANGED <<redeemTime, status>> /\ Finish(k)
    BY ZenonT(30) DEF updateRedeem, nextStep
  <1>4. st = status /\ neg = "done"
    BY Zenon, <1>1 DEF SerialInv, StepInv, DoneInv
  <1>5. st \in {2, 3}
    BY <1>1, SerialTypes DEF kind, NewlyMatched, MakerSwapCast
  <1>6. actor(st) = IF st = 2 THEN "maker" ELSE "taker"
    BY <1>5 DEF actor, NewlyMatched, TakerSwapCast
  <1>7. failing.pc # "none" => ~inMap
    BY Zenon DEF PenaltyInv
  <1>8. CASE ~inMap
    <2>1. UNCHANGED rest
      BY ZenonT(30), <1>1, <1>2, <1>3, <1>8 DEF rest
    <2>2. task'[k].pc = "idle"
      BY Zenon, <1>3, <1>8, FinishEffect
    <2> QED BY Zenon, <1>1, <2>1, <2>2, MoveKeepsSerial
  <1>9. CASE inMap
    <2>1. task'[k].pc = "saveRedeem" /\ task'[k].step = st
      BY Zenon, <1>3, <1>9, GotoEffect
    <2>2. /\ Pending(k, 2)' <=> st = 2
          /\ Pending(k, 3)' <=> st = 3
          /\ ~Pending(k, 2) /\ ~Pending(k, 3)
      BY Zenon, <1>1, <2>1 DEF Pending
    <2>3. faults = 0 \/ lost # {}
      BY <1>9, SerialTypes DEF PenaltyInv
    <2>4. redeemTime'["maker"] = IF st = 2 THEN now ELSE redeemTime["maker"]
      BY Zenon, <1>3, <1>5, <1>6, <1>9 DEF TypeOK, Sides
    <2>5. redeemTime'["taker"] = IF st = 3 THEN now ELSE redeemTime["taker"]
      BY <1>3, <1>5, <1>6, <1>9 DEF TypeOK, Sides
    <2>6. st \in {2, 3} /\ status = st /\ status' = st + 1 /\ neg = "done"
          /\ UNCHANGED <<neg, inMap, failing, crashes>> /\ failing.pc = "none"
      BY Zenon, <1>1, <1>3, <1>4, <1>5, <1>7, <1>9
    <2> HIDE DEF st
    <2> USE SerialTypes
    <2>7. StepInv(k)' /\ RowInv(k)'
      BY <1>1, <1>2, <1>9, <2>1, <2>6 DEF SerialInv, StepInv, RowInv, st
    <2>8. RecordInv'
      BY <1>1, <1>9, <2>4, <2>5, <2>6 DEF SerialInv, RecordInv, Recorded
    <2>9. FailInv'
      BY <1>1, <1>2, <2>6 DEF SerialInv, FailInv
    <2>10. CreditInv(k)'
      BY <1>1, <1>2, <2>2, <2>3, <2>6 DEF SerialInv, FailInv, CreditInv
    <2>11. DoneInv(k)'
      BY <1>2, <1>9, <2>2, <2>6 DEF SerialInv, DoneInv
    <2> QED BY Zenon, <2>7, <2>8, <2>9, <2>10, <2>11 DEF SerialInv
  <1> QED BY Zenon, <1>8, <1>9

\* processRedeem stores the redeem, or loses it.
LEMMA SaveRedeemKeepsSerial ==
    ASSUME TypeOK, NEW k \in Slots, SerialInv(k), SaveRedeem(k)
    PROVE  SerialInv(k)'
  <1> DEFINE st == task[k].step
  <1>1. /\ task[k].pc = "saveRedeem" /\ Goto(k, "credit")
        /\ UNCHANGED <<neg, inMap, status, swap, redeemTime, failing, redeemAck, crashes,
                       done, credited, faults, faulted>>
    BY ZenonT(30) DEF SaveRedeem
  <1>2. \/ /\ lost' = lost
           /\ db' = [db EXCEPT !.status = nextStep(st), !.redeem[actor(st)] = redeemTime[actor(st)],
                               !.active = @ /\ actor(st) = "maker"]
        \/ lost' = lost \cup {"redeem"} /\ db' = db
    BY ZenonT(30) DEF SaveRedeem, Stored, StoreFails
  <1>3. st \in {2, 3} /\ status = st + 1 /\ neg = "done"
    BY Zenon, <1>1 DEF SerialInv, StepInv, DoneInv
  <1>4. actor(st) = IF st = 2 THEN "maker" ELSE "taker"
    BY <1>3 DEF actor, NewlyMatched, TakerSwapCast
  <1>5. task'[k].pc = "credit" /\ task'[k].step = st
    BY Zenon, <1>1, GotoEffect
  <1>6. (Pending(k, 2)' <=> Pending(k, 2)) /\ (Pending(k, 3)' <=> Pending(k, 3))
    BY Zenon, <1>1, <1>5 DEF Pending
  <1>7. \/ /\ lost' = lost /\ db'.status = st + 1 /\ db'.swap = db.swap
           /\ db'.active => db.active /\ st = 2
           /\ st = 2 => db'.redeem["taker"] = db.redeem["taker"]
        \/ lost' # {} /\ db' = db
    <2>1. ASSUME db' = [db EXCEPT !.status = nextStep(st), !.redeem[actor(st)] = redeemTime[actor(st)],
                               !.active = @ /\ actor(st) = "maker"]
          PROVE  /\ db'.status = st + 1 /\ db'.swap = db.swap
                 /\ db'.active = (db.active /\ actor(st) = "maker")
                 /\ db'.redeem = [db.redeem EXCEPT ![actor(st)] = redeemTime[actor(st)]]
      BY ZenonT(30), <2>1 DEF TypeOK, Row, nextStep
    <2>2. db.redeem \in [Sides -> Times]
      BY Zenon DEF TypeOK, Row
    <2> QED BY ZenonT(30), <1>2, <1>3, <1>4, <2>1, <2>2 DEF Sides
  <1> USE SerialTypes
  <1>8. StepInv(k)' /\ RowInv(k)'
    BY Zenon, <1>1, <1>3, <1>5, <1>7 DEF SerialInv, StepInv, RowInv
  <1>9. RecordInv'
    <2>1. UNCHANGED <<neg, inMap, status, swap, redeemTime, failing>>
      BY Zenon, <1>1
    <2>2. db'.active => Recorded(db'.status, db'.swap, db'.redeem) /\ db'.status <= 3
      BY <1>1, <1>3, <1>7 DEF SerialInv, RecordInv, Recorded, RowInv
    <2> QED BY Zenon, <1>3, <2>1, <2>2 DEF SerialInv, RecordInv
  <1>10. FailInv' /\ CreditInv(k)'
    BY Zenon, <1>1, <1>3, <1>6, <1>7 DEF SerialInv, FailInv, CreditInv
  <1>11. DoneInv(k)'
    BY Zenon, <1>1, <1>3, <1>6 DEF SerialInv, DoneInv
  <1> QED BY Zenon, <1>8, <1>9, <1>10, <1>11 DEF SerialInv

\* SwapSuccess and swapDone for the side that redeemed.
LEMMA CreditKeepsSerial ==
    ASSUME TypeOK, NEW k \in Slots, SerialInv(k), creditRedeem(k)
    PROVE  SerialInv(k)'
  <1> DEFINE st == task[k].step
  <1>1. /\ task[k].pc = "credit" /\ Finish(k)
        /\ UNCHANGED <<neg, inMap, status, swap, redeemTime, failing, db, crashes, faults,
                       faulted, lost>>
    BY ZenonT(30) DEF creditRedeem
  <1>2. /\ credited' = credited \cup {actor(st)}
        /\ redeemAck' => redeemAck \/ actor(st) = "taker"
    BY ZenonT(30) DEF creditRedeem
  <1>2a. done' = [done EXCEPT ![actor(st)] = Incr(@)]
    BY ZenonT(30) DEF creditRedeem
  <1>3. st \in {2, 3} /\ status = st + 1 /\ neg = "done"
    BY Zenon, <1>1 DEF SerialInv, StepInv, DoneInv
  <1>4. actor(st) = IF st = 2 THEN "maker" ELSE "taker"
    BY <1>3 DEF actor, NewlyMatched, TakerSwapCast
  <1>5. task'[k].pc = "idle"
    BY Zenon, <1>1, FinishEffect
  <1>6. /\ Pending(k, 2) <=> st = 2
        /\ Pending(k, 3) <=> st = 3
        /\ ~Pending(k, 2)' /\ ~Pending(k, 3)'
    BY Zenon, <1>1, <1>3, <1>5 DEF Pending
  <1>7. /\ st = 2 => done'["maker"] = done["maker"] + 1 /\ done'["taker"] = done["taker"]
        /\ st = 3 => done'["taker"] = done["taker"] + 1 /\ done'["maker"] = done["maker"]
    BY <1>2a, <1>4, <1>6, SerialTypes DEF TypeOK, SerialInv, DoneInv, Incr, Sides
  <1> HIDE DEF st
  <1> USE SerialTypes
  <1>8. StepInv(k)' /\ RowInv(k)'
    BY Zenon, <1>1, <1>3, <1>5 DEF SerialInv, StepInv, RowInv
  <1>9. RecordInv'
    BY Zenon, <1>1, <1>3 DEF SerialInv, RecordInv, Recorded
  <1>10. FailInv'
    <2>1. UNCHANGED <<status, failing, faults, faulted>> /\ (redeemAck' => redeemAck \/ status = 4)
      <3>1. st = 3 => status = 4
        BY <1>3
      <3> QED BY Zenon, <1>1, <1>2, <1>3, <1>4, <3>1
    <2> QED BY Zenon, <2>1 DEF SerialInv, FailInv
  <1>11. CreditInv(k)'
    BY <1>1, <1>2, <1>3, <1>4, <1>6 DEF SerialInv, CreditInv, RowInv
  <1>12. DoneInv(k)'
    <2>1. UNCHANGED <<neg, inMap, status, failing, crashes>> /\ st \in {2, 3} /\ status = st + 1
      BY Zenon, <1>1, <1>3
    <2> QED BY <1>3, <1>6, <1>7, <2>1 DEF SerialInv, DoneInv
  <1> QED BY Zenon, <1>8, <1>9, <1>10, <1>11, <1>12 DEF SerialInv

\* swapDone of failMatch: the taker hears of it, the maker unless they redeemed.
LEMMA SwapDoneEffect ==
    ASSUME TypeOK
    PROVE  /\ swapDoneFailed["taker"] = Incr(done["taker"])
           /\ swapDoneFailed["maker"] = IF status = 3 THEN done["maker"] ELSE Incr(done["maker"])
  BY Zenon DEF swapDoneFailed, accounted, Sides, MakerRedeemed

\* processInit revokes a match whose contract has expired.
LEMMA RevokeKeepsSerial ==
    ASSUME TypeOK, PenaltyInv, NEW k \in Slots, SerialInv(k), revokeExpired(k)
    PROVE  SerialInv(k)'
  <1>1. /\ task[k].pc = "expired" /\ Finish(k) /\ inMap' = FALSE
        /\ UNCHANGED <<neg, status, swap, redeemTime, failing, redeemAck, crashes, credited,
                       faults, faulted>>
    BY ZenonT(30) DEF revokeExpired
  <1>2. /\ inMap /\ status # 4 =>
             /\ done' = swapDoneFailed
             /\ \/ lost' = lost /\ db' = [db EXCEPT !.active = FALSE, !.forgiven = TRUE]
                \/ lost' = lost \cup {"revoke"} /\ db' = db
        /\ ~(inMap /\ status # 4) => UNCHANGED <<done, db, lost>>
    BY ZenonT(30) DEF revokeExpired, Stored, StoreFails, MatchComplete
  <1>3. /\ db'.status = db.status /\ db'.swap = db.swap /\ db'.redeem = db.redeem
        /\ db'.active => db.active
        /\ lost \subseteq lost'
    BY ZenonT(30), <1>2 DEF TypeOK, Row
  <1>4. task[k].step \in {0, 1} /\ status = task[k].step /\ neg = "done"
    BY Zenon, <1>1 DEF SerialInv, StepInv, DoneInv
  <1>5. task'[k].pc = "idle"
    BY Zenon, <1>1, FinishEffect
  <1>6. /\ ~Pending(k, 2)' /\ ~Pending(k, 3)' /\ ~Pending(k, 2) /\ ~Pending(k, 3)
    BY Zenon, <1>1, <1>5 DEF Pending
  <1>7. /\ inMap => failing.pc = "none" /\ done'["maker"] = 1 /\ done'["taker"] = 1
        /\ ~inMap => done' = done
    BY <1>2, <1>4, SerialTypes, SwapDoneEffect DEF PenaltyInv, SerialInv, DoneInv, Incr
  <1> USE SerialTypes
  <1>8. StepInv(k)' /\ RowInv(k)'
    BY Zenon, <1>1, <1>3, <1>4, <1>5 DEF SerialInv, StepInv, RowInv
  <1>9. RecordInv'
    BY Zenon, <1>1, <1>3, <1>4 DEF SerialInv, RecordInv, Recorded
  <1>10. FailInv' /\ CreditInv(k)'
    BY Zenon, <1>1, <1>3, <1>4, <1>6 DEF SerialInv, FailInv, CreditInv
  <1>12. DoneInv(k)'
    BY <1>1, <1>4, <1>6, <1>7 DEF SerialInv, DoneInv
  <1> QED BY Zenon, <1>8, <1>9, <1>10, <1>12 DEF SerialInv

\* Negotiate stores the match, then tracks it.
LEMMA NegotiateKeepsSerial ==
    ASSUME TypeOK, PenaltyInv, NEW k \in Slots, SerialInv(k), InsertMatch \/ addMatch
    PROVE  SerialInv(k)'
  <1>1. /\ UNCHANGED <<status, swap, redeemTime, task, failing, redeemAck, crashes, done,
                       credited, faults, faulted, lost>>
        /\ neg # "done"
        /\ \/ inMap' = inMap /\ neg' = "inserted" /\ db' = [db EXCEPT !.active = TRUE]
           \/ inMap' = TRUE /\ neg' = "done" /\ db' = db
    BY ZenonT(30) DEF InsertMatch, addMatch, memVars, histVars
  <1>2. db'.status = db.status /\ db'.swap = db.swap /\ db'.redeem = db.redeem
    BY Zenon, <1>1 DEF TypeOK, Row
  <1>3. /\ status = 0 /\ swap = {} /\ redeemTime = Reset /\ task[k].pc = "idle"
        /\ db.status = 0 /\ db.swap = {} /\ db.redeem = Reset
        /\ done["maker"] = 0 /\ done["taker"] = 0
        /\ failing.pc = "none" /\ ~inMap
    BY Zenon, <1>1 DEF SerialInv, RecordInv, DoneInv, PenaltyInv
  <1>4. Recorded(0, {}, Reset)
    BY Zenon DEF Recorded, Reset, Sides
  <1>5. ~Pending(k, 2)' /\ ~Pending(k, 3)'
    BY Zenon, <1>1, <1>3 DEF Pending
  <1>6. StepInv(k)' /\ RowInv(k)'
    BY Zenon, <1>1, <1>2, <1>3 DEF SerialInv, StepInv, RowInv
  <1>7. RecordInv'
    <2>1. neg' # "done" => ~inMap'
      BY Zenon, <1>1, <1>3
    <2> QED BY <1>1, <1>2, <1>3, <1>4, <2>1 DEF RecordInv
  <1>8. FailInv' /\ CreditInv(k)'
    BY Zenon, <1>1, <1>2, <1>5 DEF SerialInv, FailInv, CreditInv
  <1>9. DoneInv(k)'
    BY <1>1, <1>3, <1>5 DEF SerialInv, DoneInv
  <1> QED BY Zenon, <1>6, <1>7, <1>8, <1>9 DEF SerialInv

\* A check, or the maker's last acknowledgement, ends the tracking of a match.
LEMMA UntrackKeepsSerial ==
    ASSUME TypeOK, PenaltyInv, NEW k \in Slots, SerialInv(k),
           UNCHANGED <<neg, status, swap, redeemTime, task, db, crashes, done, credited,
                       faults, faulted, lost>>,
           redeemAck' => redeemAck, ~inMap', neg = "done",
           \/ /\ inMap /\ failing'.pc = "store" /\ status <= 3
              /\ failing'.noAddr => status = 0
           \/ failing' = failing /\ status = 4
    PROVE  SerialInv(k)'
  <1>1. (Pending(k, 2)' <=> Pending(k, 2)) /\ (Pending(k, 3)' <=> Pending(k, 3))
    BY Zenon DEF Pending
  <1> USE SerialTypes
  <1>2. StepInv(k)' /\ RowInv(k)'
    BY Zenon DEF SerialInv, StepInv, RowInv
  <1>3. RecordInv'
    BY Zenon DEF SerialInv, RecordInv, FailInv
  <1>4. FailInv' /\ CreditInv(k)'
    BY Zenon, <1>1 DEF SerialInv, FailInv, CreditInv
  <1>5. DoneInv(k)'
    BY <1>1 DEF SerialInv, DoneInv, FailInv
  <1> QED BY Zenon, <1>2, <1>3, <1>4, <1>5 DEF SerialInv

\* The inaction checks end the tracking: the match fails, or it is complete.
LEMMA ChecksEffect ==
    ASSUME TypeOK, Checks
    PROVE  /\ inMap /\ ~inMap'
           /\ UNCHANGED <<neg, status, swap, redeemTime, task, db, crashes, redeemAck, done,
                       credited, faults, faulted, lost>>
           /\ \/ /\ failing'.pc = "store" /\ status <= 3
                 /\ failing'.noAddr => status = 0
              \/ failing' = failing /\ status = 4
  <1>1. \A f, n : deleteAndFail(f, n) => inMap' = FALSE /\ failing'.pc = "store" /\ failing'.noAddr = n
    BY DEF deleteAndFail
  <1>2. /\ inMap /\ UNCHANGED <<neg, status, swap, redeemTime, task, db, crashes, redeemAck>>
        /\ UNCHANGED histVars
    BY ZenonT(30) DEF Checks, checkInactionEventBased, checkInactionBlockBased
  <1>3. UNCHANGED <<done, credited, faults, faulted, lost>>
    BY ZenonT(30), <1>2 DEF histVars
  <1>4. CASE checkInactionEventBased
    <2>1. \/ status = 0 /\ deleteAndFail(TRUE, "taker" \notin addr)
          \/ status \in {1, 2} /\ deleteAndFail(FALSE, FALSE)
          \/ status = 3 /\ deleteAndFail(TRUE, FALSE)
          \/ status = 4 /\ inMap' = FALSE /\ failing' = failing
      BY ZenonT(30), <1>4 DEF checkInactionEventBased, completedDue, NewlyMatched,
           MakerSwapCast, TakerSwapCast, MakerRedeemed, MatchComplete
    <2>2. CASE status = 0 /\ deleteAndFail(TRUE, "taker" \notin addr)
      <3>1. inMap' = FALSE /\ failing'.pc = "store"
        BY ZenonT(30), <1>1, <2>2
      <3> QED BY <1>2, <1>3, <2>2, <3>1
    <2>3. CASE status \in {1, 2} /\ deleteAndFail(FALSE, FALSE)
      <3>1. inMap' = FALSE /\ failing'.pc = "store" /\ failing'.noAddr = FALSE
        BY ZenonT(30), <1>1, <2>3
      <3> QED BY <1>2, <1>3, <2>3, <3>1
    <2>4. CASE status = 3 /\ deleteAndFail(TRUE, FALSE)
      <3>1. inMap' = FALSE /\ failing'.pc = "store" /\ failing'.noAddr = FALSE
        BY ZenonT(30), <1>1, <2>4
      <3> QED BY <1>2, <1>3, <2>4, <3>1
    <2>5. CASE status = 4 /\ inMap' = FALSE /\ failing' = failing
      BY Zenon, <1>2, <1>3, <2>5
    <2> QED BY ZenonT(30), <2>1, <2>2, <2>3, <2>4, <2>5
  <1>5. CASE checkInactionBlockBased
    <2>1. status \in {1, 2} /\ deleteAndFail(~expiredBy(now), FALSE)
      BY ZenonT(30), <1>5 DEF checkInactionBlockBased, MakerSwapCast, TakerSwapCast
    <2>2. inMap' = FALSE /\ failing'.pc = "store" /\ failing'.noAddr = FALSE
      BY ZenonT(30), <1>1, <2>1
    <2> QED BY <1>2, <1>3, <2>1, <2>2
  <1> QED BY Zenon, <1>4, <1>5 DEF Checks

\* So they, and the maker's ack of the taker's redeem, keep the invariant.
LEMMA EndsKeepSerial ==
    ASSUME TypeOK, PenaltyInv, NEW k \in Slots, SerialInv(k), Checks \/ processRedeemAck
    PROVE  SerialInv(k)'
  <1>1. CASE Checks
    <2>1. neg = "done"
      BY Zenon, <1>1, ChecksEffect DEF SerialInv, RecordInv
    <2> QED BY <1>1, <2>1, ChecksEffect, UntrackKeepsSerial
  <1>2. CASE processRedeemAck
    <2>1. /\ redeemAck /\ redeemAck' = FALSE /\ inMap' = FALSE
          /\ UNCHANGED <<neg, status, swap, redeemTime, task, failing, db, crashes, done,
                         credited, faults, faulted, lost>>
      BY ZenonT(30), <1>2 DEF processRedeemAck, histVars
    <2>2. status = 4 /\ neg = "done"
      BY <2>1 DEF SerialInv, FailInv, RecordInv
    <2> QED BY Zenon, <2>1, <2>2, UntrackKeepsSerial
  <1> QED BY Zenon, <1>1, <1>2

\* failMatch keeps the invariant.
LEMMA FailureKeepsSerial ==
    ASSUME TypeOK, PenaltyInv, NEW k \in Slots, SerialInv(k), failMatch
    PROVE  SerialInv(k)'
  <1>1. CASE SetMatchInactive
    <2>1. /\ failing.pc = "store" /\ failing' = [failing EXCEPT !.pc = "account"]
          /\ UNCHANGED <<neg, inMap, status, swap, redeemTime, task, redeemAck, crashes, done,
                         credited, faults, faulted>>
          /\ \/ lost' = lost /\ db' = [db EXCEPT !.active = FALSE, !.forgiven = @ \/ ~failing.fault]
             \/ lost' = lost \cup {"revoke"} /\ db' = db
      BY ZenonT(30), <1>1 DEF SetMatchInactive, Stored, StoreFails
    <2>2. /\ db'.status = db.status /\ db'.swap = db.swap /\ db'.redeem = db.redeem
          /\ db'.active => db.active
          /\ lost \subseteq lost'
      BY ZenonT(30), <2>1 DEF TypeOK, Row
    <2>3. failing'.pc = "account" /\ failing'.noAddr = failing.noAddr
      BY Zenon, <2>1 DEF TypeOK, Failing
    <2>4. (Pending(k, 2)' <=> Pending(k, 2)) /\ (Pending(k, 3)' <=> Pending(k, 3))
      BY Zenon, <2>1 DEF Pending
    <2> HIDE <1>1
    <2> USE SerialTypes
    <2>5. StepInv(k)' /\ RowInv(k)'
      BY <2>1, <2>2 DEF SerialInv, StepInv, RowInv
    <2>6. RecordInv'
      BY Zenon, <2>1, <2>2 DEF SerialInv, RecordInv, Recorded
    <2>7. FailInv' /\ CreditInv(k)'
      BY Zenon, <2>1, <2>2, <2>3, <2>4 DEF SerialInv, FailInv, CreditInv
    <2>8. DoneInv(k)'
      BY Zenon, <2>1, <2>3, <2>4 DEF SerialInv, DoneInv
    <2> QED BY Zenon, <2>5, <2>6, <2>7, <2>8 DEF SerialInv
  <1>2. CASE accountFailure
    <2>1. /\ failing.pc = "account" /\ failing' = NotFailing /\ done' = swapDoneFailed
          /\ UNCHANGED <<neg, inMap, status, swap, redeemTime, task, redeemAck, db, crashes,
                         credited, lost>>
          /\ \/ faults' = Incr(faults) /\ faulted' = AtFault
             \/ UNCHANGED <<faults, faulted>>
      BY ZenonT(30), <1>2 DEF accountFailure
    <2>2. /\ failing'.pc = "none"
          /\ done'["taker"] = Incr(done["taker"])
          /\ done'["maker"] = IF status = 3 THEN done["maker"] ELSE Incr(done["maker"])
      BY Zenon, <2>1, SwapDoneEffect DEF NotFailing
    <2>3. status <= 3 /\ (failing.noAddr => status = 0) /\ ~inMap /\ neg = "done"
      BY Zenon, <2>1 DEF SerialInv, FailInv, PenaltyInv
    <2>4. /\ AtFault \in Sides
          /\ AtFault = "maker" => status \in {0, 2}
          /\ AtFault = "taker" => status \in {0, 1, 3}
      BY <2>3, SerialTypes DEF AtFault, Sides, MakerSwapCast, MakerRedeemed
    <2>5. (Pending(k, 2)' <=> Pending(k, 2)) /\ (Pending(k, 3)' <=> Pending(k, 3))
      BY Zenon, <2>1 DEF Pending
    <2>6. (Pending(k, 2) => status = 3) /\ ~Pending(k, 3)
      BY <2>3 DEF SerialInv, StepInv, Pending
    <2>7. done["taker"] = 0 /\ (status <= 2 => done["maker"] = 0)
      BY Zenon, <2>1, <2>3 DEF SerialInv, DoneInv
    <2> USE SerialTypes
    <2>8. StepInv(k)' /\ RowInv(k)'
      BY Zenon, <2>1 DEF SerialInv, StepInv, RowInv
    <2>9. RecordInv'
      BY Zenon, <2>1, <2>2, <2>3 DEF SerialInv, RecordInv, Recorded
    <2>10. FailInv'
      <3>1. Incr(faults) # 0 /\ AtFault # "none"
        BY <2>4 DEF Incr, Sides
      <3> QED BY Zenon, <2>1, <2>2, <3>1 DEF SerialInv, FailInv
    <2>11. CreditInv(k)'
      <3>1. (faulted' = faulted \/ faulted' = AtFault) /\ UNCHANGED <<credited, lost, db, status>>
        BY Zenon, <2>1
      <3> QED BY <2>3, <2>4, <2>5, <2>6, <3>1 DEF SerialInv, CreditInv
    <2>12. DoneInv(k)'
      BY <2>1, <2>2, <2>3, <2>5, <2>6, <2>7 DEF SerialInv, DoneInv, Incr
    <2> QED BY Zenon, <2>8, <2>9, <2>10, <2>11, <2>12 DEF SerialInv
  <1> QED BY Zenon, <1>1, <1>2 DEF failMatch

\* A restart loads what the row says.
LEMMA RestartKeepsSerial ==
    ASSUME TypeOK, PenaltyInv, NEW k \in Slots, SerialInv(k), Restart
    PROVE  SerialInv(k)'
  <1>1. /\ status' = db.status /\ swap' = db.swap /\ redeemTime' = db.redeem
        /\ task' = [j \in Slots |-> Idle] /\ failing' = NotFailing /\ redeemAck' = FALSE
        /\ crashes' = crashes + 1
        /\ neg' = IF neg = "new" THEN "new" ELSE "done"
        /\ UNCHANGED <<credited, faults, faulted, lost>>
    BY ZenonT(30) DEF Restart
  <1>2. done' = [s \in Sides |-> IF ActiveSwaps /\ NoAddresses THEN 1 ELSE 0]
    BY ZenonT(30) DEF Restart
  <1>3. \/ /\ inMap' = FALSE /\ db' = [db EXCEPT !.active = FALSE, !.forgiven = TRUE]
           /\ db.active
        \/ /\ inMap' \in {db.active, FALSE} /\ db' = db
           /\ ~(ActiveSwaps /\ NoAddresses)
    BY ZenonT(30) DEF Restart, ActiveSwaps
  <1>4. /\ db'.status = db.status /\ db'.swap = db.swap /\ db'.redeem = db.redeem
        /\ db'.active => db.active
        /\ inMap' => db.active
    BY ZenonT(30), <1>3 DEF TypeOK, Row
  <1>5. task'[k].pc = "idle" /\ failing'.pc = "none"
    BY Zenon, <1>1 DEF Idle, NotFailing
  <1>6. ~Pending(k, 2)' /\ ~Pending(k, 3)'
    BY Zenon, <1>5 DEF Pending
  <1>7. neg = "new" => ~db.active
    BY Zenon DEF PenaltyInv
  <1>8. /\ done'["maker"] \in {0, 1} /\ done'["taker"] \in {0, 1}
        /\ inMap' \/ neg' # "done" => done'["maker"] = 0 /\ done'["taker"] = 0
    <2>1. inMap' \/ neg' # "done" => ~(ActiveSwaps /\ NoAddresses)
      BY ZenonT(30), <1>1, <1>3, <1>7 DEF ActiveSwaps
    <2> QED BY Zenon, <1>2, <2>1 DEF Sides
  <1> USE SerialTypes
  <1>9. StepInv(k)' /\ RowInv(k)'
    BY Zenon, <1>1, <1>4, <1>5 DEF SerialInv, StepInv, RowInv
  <1>10. RecordInv'
    BY Zenon, <1>1, <1>4, <1>5, <1>7 DEF SerialInv, RecordInv
  <1>11. FailInv' /\ CreditInv(k)'
    BY Zenon, <1>1, <1>4, <1>5, <1>6 DEF SerialInv, FailInv, CreditInv
  <1>12. DoneInv(k)'
    BY <1>1, <1>5, <1>6, <1>8 DEF SerialInv, DoneInv
  <1> QED BY Zenon, <1>9, <1>10, <1>11, <1>12 DEF SerialInv

\* The other steps leave alone what the invariant speaks of.
LEMMA OthersAreQuiet ==
    ASSUME TypeOK,
           \/ UNCHANGED vars \/ Tick \/ processBlock
           \/ \E s \in Sides : MatchAck(s) \/ SaveMatchAck(s) \/ sendCounterPartyAddresses(s)
    PROVE  UNCHANGED rest /\ UNCHANGED task
  <1>1. CASE UNCHANGED vars \/ Tick \/ processBlock
    <2>1. /\ UNCHANGED <<neg, inMap, status, swap, redeemTime, failing, redeemAck, db, crashes, task>>
          /\ UNCHANGED histVars
      BY ZenonT(30), <1>1 DEF vars, memVars, Tick, processBlock
    <2> QED BY ZenonT(30), <2>1 DEF histVars, rest
  <1>2. ASSUME NEW s \in Sides, MatchAck(s) \/ sendCounterPartyAddresses(s)
        PROVE  UNCHANGED rest /\ UNCHANGED task
    BY ZenonT(30), <1>2 DEF MatchAck, sendCounterPartyAddresses, rest
  <1>3. ASSUME NEW s \in Sides, SaveMatchAck(s)
        PROVE  UNCHANGED rest /\ UNCHANGED task
    <2>1. /\ UNCHANGED <<neg, inMap, status, swap, redeemTime, failing, redeemAck, crashes, task,
                         done, credited, faults, faulted>>
          /\ lost' = lost \/ lost' = lost \cup {}
          /\ db' = db \/ db' = [db EXCEPT !.addr = @ \cup {s}]
      BY ZenonT(30), <1>3 DEF SaveMatchAck, Stored, StoreFails
    <2>2. /\ db'.active = db.active /\ db'.status = db.status /\ db'.swap = db.swap
          /\ db'.redeem = db.redeem
      BY ZenonT(30), <2>1 DEF TypeOK, Row
    <2>3. lost' = lost
      BY Zenon, <2>1
    <2> QED BY ZenonT(30), <2>1, <2>2, <2>3 DEF rest
  <1> QED BY Zenon, <1>1, <1>2, <1>3

\* One request at a time keeps the invariant.
LEMMA SerialStep ==
    ASSUME NEW k, Slots = {k}, TypeOK, PenaltyInv, SerialInv(k), [Next]_vars
    PROVE  SerialInv(k)'
  <1>k. k \in Slots /\ \A j \in Slots : j = k
    BY Zenon
  <1>1. ASSUME NEW j \in Slots, handleStep(j) \/ Handler(j) PROVE SerialInv(k)'
    <2>1. handleStep(k) \/ Handler(k)
      BY Zenon, <1>k, <1>1
    <2> QED BY Zenon, <1>k, <2>1, SearchesKeepSerial, RevokeKeepsSerial, SaveContractKeepsSerial,
               UpdateInitKeepsSerial, UpdateRedeemKeepsSerial, SaveRedeemKeepsSerial,
               CreditKeepsSerial DEF Handler
  <1>2. CASE InsertMatch \/ addMatch \/ processRedeemAck \/ Checks \/ failMatch \/ Restart
    BY Zenon, <1>k, <1>2, NegotiateKeepsSerial, EndsKeepSerial, FailureKeepsSerial, RestartKeepsSerial
  <1>3. CASE \/ UNCHANGED vars \/ Tick \/ processBlock
             \/ \E s \in Sides : MatchAck(s) \/ SaveMatchAck(s) \/ sendCounterPartyAddresses(s)
    BY Zenon, <1>3, OthersAreQuiet, QuietKeepsSerial
  <1> QED BY ZenonT(30), <1>1, <1>2, <1>3 DEF Next

\* It holds before the match is negotiated.
LEMMA SerialStart == ASSUME NEW k \in Slots, Init PROVE SerialInv(k)
  <1>1. /\ task[k].pc = "idle" /\ failing.pc = "none" /\ ~inMap /\ status = 0 /\ swap = {}
        /\ redeemTime = Reset /\ neg = "new"
        /\ db.active = FALSE /\ db.status = 0 /\ db.swap = {} /\ db.redeem = Reset
        /\ done["maker"] = 0 /\ done["taker"] = 0 /\ credited = {} /\ faults = 0
        /\ faulted = "none" /\ redeemAck = FALSE
    BY Zenon DEF Init, Idle, NotFailing, NewlyMatched, Sides
  <1>2. ~Pending(k, 2) /\ ~Pending(k, 3)
    BY Zenon, <1>1 DEF Pending
  <1>3. StepInv(k) /\ RecordInv /\ RowInv(k)
    BY Zenon, <1>1 DEF StepInv, RecordInv, RowInv
  <1> QED BY <1>1, <1>2, <1>3 DEF SerialInv, FailInv, CreditInv, DoneInv

\* The invariant holds in every run with one request at a time.
LEMMA SerialHolds == ASSUME NEW k, Slots = {k} PROVE Spec => []SerialInv(k)
  <1>1. Init => SerialInv(k)
    BY Zenon, SerialStart
  <1>2. TypeOK /\ PenaltyInv /\ SerialInv(k) /\ [Next]_vars => SerialInv(k)'
    BY Zenon, SerialStep
  <1> QED BY <1>1, <1>2, TypeCorrect, PenaltyHolds, PTL DEF Spec

\* "Contract now recorded and will be used to reject backward progress"
\* (processInit, processRedeem): when requests do not overlap, no user is
\* failed for an action the server has accepted from them.
THEOREM AcceptedIsNotFailed == Serial => (Spec => []NoFaultAfterAcceptance)
  <1> SUFFICES ASSUME Serial PROVE Spec => []NoFaultAfterAcceptance
    BY Zenon
  <1>1. PICK k : Slots = {k}
    BY Zenon DEF Serial
  <1>2. SerialInv(k) => NoFaultAfterAcceptance
    BY DEF SerialInv, RecordInv, Recorded, NoFaultAfterAcceptance, NewlyMatched, MakerSwapCast,
           TakerSwapCast, MakerRedeemed
  <1>3. Spec => []SerialInv(k)
    BY Zenon, <1>1, SerialHolds
  <1> QED BY <1>2, <1>3, PTL

\* When requests do not overlap, a user credited with SwapSuccess is not the
\* one Inaction penalises, across restarts, unless the database lost a redeem
\* or a revocation.
THEOREM CreditedIsNotPenalised == Serial => (Spec => []CreditXorFault)
  <1> SUFFICES ASSUME Serial PROVE Spec => []CreditXorFault
    BY Zenon
  <1>1. PICK k : Slots = {k}
    BY Zenon DEF Serial
  <1>2. TypeOK /\ SerialInv(k) => CreditXorFault
    BY Zenon DEF SerialInv, CreditInv, CreditXorFault, TypeOK, Sides
  <1>3. Spec => []SerialInv(k)
    BY Zenon, <1>1, SerialHolds
  <1> QED BY <1>2, <1>3, TypeCorrect, PTL

\* When requests do not overlap, the market hears of each order's part in the
\* match once per server run (swapDone), so Market.settling is reduced once.
THEOREM MarketHearsOnce == Serial => (Spec => []SettledOnce)
  <1> SUFFICES ASSUME Serial PROVE Spec => []SettledOnce
    BY Zenon
  <1>1. PICK k : Slots = {k}
    BY Zenon DEF Serial
  <1>2. SerialInv(k) => SettledOnce
    BY <1>1 DEF SerialInv, DoneInv, Pending, SettledOnce, Sides, NotFailing
  <1>3. Spec => []SerialInv(k)
    BY Zenon, <1>1, SerialHolds
  <1> QED BY <1>2, <1>3, PTL

-----------------------------------------------------------------------------
(* The negotiation implements Settlement. *)

\* A step of Settlement, or a stutter.
Move == Settled!SettleNext \/ UNCHANGED Settled!settleVars

\* Steps that Settlement does not see.
LEMMA SettleStutter ==
    ASSUME UNCHANGED <<inMap, status, faulted, crashes>>, neg' = "done" <=> neg = "done"
    PROVE  Move
  BY Zenon DEF Move, Settled!settleVars

\* The status of an open match goes up by one: Act.
LEMMA SettleAct ==
    ASSUME inMap, neg = "done", status' = status + 1, status \in 0..3,
           UNCHANGED <<neg, inMap, faulted, crashes>>
    PROVE  Move
  BY DEF Move, Settled!SettleNext, Settled!Act

\* The match is no longer tracked: Close.
LEMMA SettleClose ==
    ASSUME neg = "done", ~inMap', UNCHANGED <<neg, status, faulted, crashes>>
    PROVE  Move
  BY Zenon DEF Move, Settled!SettleNext, Settled!Close, Settled!settleVars

\* A request advances the match by one, closes it, or does nothing visible.
LEMMA RequestsSettle ==
    ASSUME TypeOK, NEW k \in Slots, SerialInv(k), handleStep(k) \/ Handler(k)
    PROVE  Move
  <1>1. neg' = neg /\ faulted' = faulted /\ crashes' = crashes
    BY ZenonT(30) DEF handleStep, Handler, startSearch, endSearch, checkContract, revokeExpired,
         SaveContract, updateInit, updateRedeem, SaveRedeem, creditRedeem, histVars
  <1>2. CASE handleStep(k) \/ startSearch(k) \/ endSearch(k) \/ checkContract(k)
    <2>1. UNCHANGED <<inMap, status>>
      BY ZenonT(30), <1>2 DEF handleStep, startSearch, endSearch, checkContract
    <2> QED BY Zenon, <1>1, <2>1, SettleStutter
  <1>3. CASE SaveContract(k) \/ SaveRedeem(k) \/ creditRedeem(k)
    <2>1. UNCHANGED <<inMap, status>>
      BY ZenonT(30), <1>3 DEF SaveContract, SaveRedeem, creditRedeem
    <2> QED BY Zenon, <1>1, <2>1, SettleStutter
  <1>4. CASE revokeExpired(k)
    <2>1. task[k].pc = "expired" /\ inMap' = FALSE /\ status' = status
      BY ZenonT(30), <1>4 DEF revokeExpired
    <2>2. neg = "done"
      BY Zenon, <2>1 DEF SerialInv, DoneInv
    <2> QED BY Zenon, <1>1, <2>1, <2>2, SettleClose
  <1>5. CASE updateInit(k) \/ updateRedeem(k)
    <2>1. /\ task[k].pc \in {"update", "search"}
          /\ inMap' = inMap
          /\ IF inMap THEN status' = nextStep(task[k].step) ELSE status' = status
      BY ZenonT(30), <1>5 DEF updateInit, updateRedeem
    <2>2. task[k].step = status /\ neg = "done" /\ task[k].step \in 0..3
      BY Zenon, <2>1, SerialTypes DEF SerialInv, StepInv, DoneInv
    <2>3. CASE inMap
      BY Zenon, <1>1, <2>1, <2>2, <2>3, SettleAct DEF nextStep
    <2>4. CASE ~inMap
      BY Zenon, <1>1, <2>1, <2>4, SettleStutter
    <2> QED BY Zenon, <2>3, <2>4
  <1> QED BY Zenon, <1>2, <1>3, <1>4, <1>5 DEF Handler

\* failMatch penalises a party whose turn it was, once.
LEMMA PenaltySettles ==
    ASSUME TypeOK, PenaltyInv, NEW k \in Slots, SerialInv(k), failMatch, lost' = {}
    PROVE  Move
  <1>1. CASE SetMatchInactive
    <2>1. UNCHANGED <<neg, inMap, status, faulted, crashes>>
      BY ZenonT(30), <1>1 DEF SetMatchInactive
    <2> QED BY Zenon, <2>1, SettleStutter
  <1>2. CASE accountFailure
    <2>1. /\ failing.pc = "account" /\ UNCHANGED <<neg, inMap, status, crashes, lost>>
          /\ faulted' = AtFault \/ faulted' = faulted
      BY ZenonT(30), <1>2 DEF accountFailure
    <2>2. CASE faulted' = faulted
      BY Zenon, <2>1, <2>2, SettleStutter
    <2>3. CASE faulted' = AtFault
      <3>1. /\ status <= 3 /\ (failing.noAddr => status = 0) /\ ~inMap /\ neg = "done"
            /\ faulted = "none"
        BY <2>1, SerialTypes DEF SerialInv, FailInv, PenaltyInv
      <3>2. AtFault \in Settled!MayBlame(status)
        BY <3>1, SerialTypes DEF AtFault, Settled!MayBlame, Settled!Actor, MakerSwapCast,
             MakerRedeemed
      <3>3. Settled!Penalise
        BY <2>1, <2>3, <3>1, <3>2, SerialTypes DEF Settled!Penalise
      <3> QED BY Zenon, <3>3 DEF Move, Settled!SettleNext
    <2> QED BY Zenon, <2>1, <2>2, <2>3
  <1> QED BY Zenon, <1>1, <1>2 DEF failMatch

\* A restart finds the match one action ahead, or one behind.
LEMMA RestartSettles ==
    ASSUME TypeOK, PenaltyInv, NEW k \in Slots, SerialInv(k), Restart, lost' = {}
    PROVE  Move
  <1>1. /\ status' = db.status /\ crashes' = crashes + 1
        /\ neg' = IF neg = "new" THEN "new" ELSE "done"
        /\ UNCHANGED <<faulted, lost>>
    BY ZenonT(30) DEF Restart
  <1>2. inMap' => db.active
    BY ZenonT(30) DEF Restart, ActiveSwaps
  <1>3. status' \in (status - 1)..(status + 1) /\ status' \in 0..4
    BY <1>1, SerialTypes DEF SerialInv, RowInv
  <1>4. faulted # "none" => ~db.active /\ neg = "done"
    BY <1>1, SerialTypes DEF SerialInv, FailInv, PenaltyInv
  <1>5. Settled!Resume
    BY Zenon, <1>1, <1>2, <1>3, <1>4 DEF Settled!Resume, Settled!Turns
  <1> QED BY Zenon, <1>5 DEF Move, Settled!SettleNext

\* Every step up to the first loss is a step of Settlement.
LEMMA SettleStep ==
    ASSUME NEW k, Slots = {k}, TypeOK, PenaltyInv, SerialInv(k), [Next]_vars, lost' = {}
    PROVE  Move
  <1>k. k \in Slots /\ \A j \in Slots : j = k
    BY Zenon
  <1>1. ASSUME NEW j \in Slots, handleStep(j) \/ Handler(j) PROVE Move
    <2>1. handleStep(k) \/ Handler(k)
      BY Zenon, <1>k, <1>1
    <2> QED BY Zenon, <1>k, <2>1, RequestsSettle
  <1>2. CASE InsertMatch
    <2>1. neg # "done" /\ neg' # "done" /\ UNCHANGED <<inMap, status, faulted, crashes>>
      BY ZenonT(30), <1>2 DEF InsertMatch, memVars, histVars
    <2> QED BY Zenon, <2>1, SettleStutter
  <1>3. CASE addMatch
    <2>1. neg # "done" /\ neg' = "done" /\ inMap' = TRUE /\ UNCHANGED <<status, faulted, crashes>>
      BY ZenonT(30), <1>3 DEF addMatch, histVars
    <2>2. Settled!Begin
      BY Zenon, <2>1 DEF Settled!Begin
    <2> QED BY Zenon, <2>2 DEF Move, Settled!SettleNext
  <1>4. CASE Checks \/ processRedeemAck
    <2>1. ~inMap' /\ UNCHANGED <<neg, status, faulted, crashes>> /\ (inMap \/ redeemAck)
      <3>1. CASE Checks
        BY Zenon, <3>1, ChecksEffect
      <3>2. CASE processRedeemAck
        BY ZenonT(30), <3>2 DEF processRedeemAck, histVars
      <3> QED BY Zenon, <1>4, <3>1, <3>2
    <2>2. neg = "done"
      BY <1>k, <2>1 DEF SerialInv, RecordInv, FailInv
    <2> QED BY Zenon, <2>1, <2>2, SettleClose
  <1>5. CASE failMatch \/ Restart
    BY Zenon, <1>k, <1>5, PenaltySettles, RestartSettles
  <1>6. CASE \/ UNCHANGED vars \/ Tick \/ processBlock
             \/ \E s \in Sides : MatchAck(s) \/ SaveMatchAck(s) \/ sendCounterPartyAddresses(s)
    BY Zenon, <1>6, OthersAreQuiet, SettleStutter DEF rest
  <1> QED BY ZenonT(30), <1>1, <1>2, <1>3, <1>4, <1>5, <1>6 DEF Next

\* The negotiation of a match implements Settlement when requests do not
\* overlap: the four actions in order, one penalty at most and to a party whose
\* turn it was, across restarts, up to the first revocation or redeem that the
\* database loses.
THEOREM NegotiationSettles == Serial => (Spec => ImplementsSettlement)
  <1> SUFFICES ASSUME Serial PROVE Spec => ImplementsSettlement
    BY Zenon
  <1>1. PICK k : Slots = {k}
    BY Zenon DEF Serial
  <1>2. Init => Settled!SettleInit
    BY Zenon DEF Init, Settled!SettleInit, NewlyMatched
  <1>3. TypeOK /\ PenaltyInv /\ SerialInv(k) /\ [Next]_vars =>
          [lost' = {} => Settled!SettleNext \/ UNCHANGED Settled!settleVars]_vars
    BY Zenon, <1>1, SettleStep DEF Move
  <1>4. Spec => []SerialInv(k)
    BY Zenon, <1>1, SerialHolds
  <1> QED BY <1>2, <1>3, <1>4, TypeCorrect, PenaltyHolds, PTL DEF Spec, ImplementsSettlement
=============================================================================
