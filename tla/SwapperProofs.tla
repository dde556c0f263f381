--------------------------- MODULE SwapperProofs ---------------------------
(***************************************************************************)
(* Theorems about the negotiation of a match, for any number of requests   *)
(* in flight, restarts and any timeouts: type correctness, at most one     *)
(* penalty, one search for each side's transaction, a row to restart from, *)
(* and the maker's full timeout.                                           *)
(***************************************************************************)
EXTENDS Swapper, TLAPS

\* A count saturates inside its range.
LEMMA IncrBound == \A n \in 0..2 : Incr(n) \in 0..2
  BY DEF Incr

\* The statuses a request may be at have a successor.
LEMMA NextStepType == \A st \in 0..3 : nextStep(st) \in Status
  BY DEF nextStep, Status

\* A status names the side that must act and the request it must send.
LEMMA ActorType == \A st \in 0..3 : actor(st) \in Sides /\ kind(st) \in Kinds
                                     /\ Flag(st) \in Sides \X Kinds
  BY Zenon DEF actor, kind, Flag, Sides, Kinds

\* failMatch reports to the market within the counts' range.
LEMMA SwapDoneType == TypeOK => swapDoneFailed \in [Sides -> 0..2]
  BY Zenon, IncrBound DEF swapDoneFailed, TypeOK, accounted

\* What the storage calls write to the matches row keeps it a row: here
\* SaveMatchAckAddrA and SaveMatchAckAddrB.
LEMMA RowAddr == \A row \in Row, s \in Sides : [row EXCEPT !.addr = @ \cup {s}] \in Row
  BY Zenon DEF Row

\* SaveContractA and SaveContractB.
LEMMA RowSwap ==
    \A row \in Row, st \in Status, s \in Sides :
        [row EXCEPT !.status = st, !.swap = @ \cup {s}] \in Row
  BY ZenonT(30) DEF Row

\* SaveRedeemA and SaveRedeemB.
LEMMA RowRedeem ==
    ASSUME NEW row \in Row, NEW st \in Status, NEW s \in Sides, NEW t \in Times,
           NEW b \in BOOLEAN
    PROVE  [row EXCEPT !.status = st, !.redeem[s] = t, !.active = b] \in Row
  <1> USE DEF Row
  <1>1. [row EXCEPT !.status = st] \in Row
    BY Zenon
  <1>2. [[row EXCEPT !.status = st] EXCEPT !.redeem[s] = t] \in Row
    BY ZenonT(30), <1>1
  <1>3. [[[row EXCEPT !.status = st] EXCEPT !.redeem[s] = t] EXCEPT !.active = b] \in Row
    BY ZenonT(30), <1>2
  <1> QED BY Zenon, <1>3

-----------------------------------------------------------------------------
(* Type correctness. *)

\* Negotiate and the match acknowledgements keep the types.
LEMMA NegotiateType ==
    ASSUME TypeOK,
           Tick \/ InsertMatch \/ addMatch
             \/ \E s \in Sides : MatchAck(s) \/ SaveMatchAck(s) \/ sendCounterPartyAddresses(s)
    PROVE  TypeOK'
  <1> USE SwapperAssumption DEF Clock
  <1>1. CASE Tick
    BY <1>1 DEF TypeOK, Tick, memVars, histVars
  <1>2. CASE InsertMatch
    <2>1. db' \in Row
      BY ZenonT(30), <1>2 DEF TypeOK, InsertMatch, Row
    <2> QED BY Zenon, <1>2, <2>1 DEF TypeOK, InsertMatch, memVars, histVars
  <1>3. CASE addMatch
    BY Zenon, <1>3 DEF TypeOK, addMatch, histVars
  <1>4. ASSUME NEW s \in Sides, MatchAck(s) PROVE TypeOK'
    BY ZenonT(30), <1>4 DEF TypeOK, MatchAck, restartedTimer, Times
  <1>5. ASSUME NEW s \in Sides, SaveMatchAck(s) PROVE TypeOK'
    <2>1. db' \in Row
      BY <1>5, RowAddr DEF TypeOK, SaveMatchAck, StoreFails
    <2>2. dbFailed' \in BOOLEAN /\ lost' \subseteq {"redeem", "revoke"}
      BY ZenonT(30), <1>5 DEF TypeOK, SaveMatchAck, Stored, StoreFails
    <2>3. ack' \in [Sides -> {"none", "asked", "acked", "stored", "sent"}]
      BY Zenon, <1>5 DEF TypeOK, SaveMatchAck
    <2> QED BY Zenon, <1>5, <2>1, <2>2, <2>3 DEF TypeOK, SaveMatchAck
  <1>6. ASSUME NEW s \in Sides, sendCounterPartyAddresses(s) PROVE TypeOK'
    BY <1>6 DEF TypeOK, sendCounterPartyAddresses
  <1> QED BY Zenon, <1>1, <1>2, <1>3, <1>4, <1>5, <1>6

\* The handlers and coin waiters of 'init' and 'redeem' requests keep them.
LEMMA HandlerType ==
    ASSUME TypeOK, NEW k \in Slots, handleStep(k) \/ Handler(k)
    PROVE  TypeOK'
  <1> USE SwapperAssumption DEF Clock
  <1>t. task[k].step \in 0..3 /\ task[k].pc \in PCs
    BY Zenon DEF TypeOK, Tasks
  <1>a. /\ actor(task[k].step) \in Sides /\ Flag(task[k].step) \in Sides \X Kinds
        /\ nextStep(task[k].step) \in Status
    BY Zenon, <1>t, ActorType, NextStepType
  <1>g. \A p \in PCs : Goto(k, p) => task' \in [Slots -> Tasks]
    BY DEF Goto, TypeOK, Tasks
  <1>f. Finish(k) => task' \in [Slots -> Tasks]
    BY DEF Finish, TypeOK, Tasks, Idle, PCs
  <1>p. {"stepped", "search", "expired", "save", "update", "saveRedeem", "credit"}
            \subseteq PCs
    BY Zenon DEF PCs
  <1>1. CASE handleStep(k)
    <2>1. task' \in [Slots -> Tasks]
      BY <1>1, <1>p DEF TypeOK, handleStep, stepAllowed, Status, MatchComplete, Tasks
    <2> QED BY Zenon, <1>1, <2>1 DEF TypeOK, handleStep, histVars
  <1>2. CASE startSearch(k)
    BY <1>2, <1>a, <1>g, <1>f, <1>p DEF TypeOK, startSearch, histVars
  <1>3. CASE endSearch(k)
    BY <1>3, <1>f DEF TypeOK, endSearch, lowered, histVars
  <1>4. CASE checkContract(k)
    BY <1>4, <1>g, <1>p DEF TypeOK, checkContract, lowered, histVars
  <1>5. CASE revokeExpired(k)
    <2>1. db' \in Row
      BY ZenonT(30), <1>5 DEF TypeOK, revokeExpired, StoreFails, Row
    <2>2. /\ dbFailed' \in BOOLEAN /\ lost' \subseteq {"redeem", "revoke"}
          /\ done' \in [Sides -> 0..2]
      BY ZenonT(30), <1>5, SwapDoneType DEF TypeOK, revokeExpired, Stored, StoreFails
    <2>3. inMap' \in BOOLEAN /\ task' \in [Slots -> Tasks]
      BY ZenonT(30), <1>5, <1>f DEF revokeExpired
    <2> QED BY <1>5, <2>1, <2>2, <2>3 DEF TypeOK, revokeExpired
  <1>6. CASE SaveContract(k)
    <2>1. db' \in Row
      <3>1. [db EXCEPT !.status = nextStep(task[k].step),
                       !.swap = @ \cup {actor(task[k].step)}] \in Row
        BY ZenonT(30), <1>a, RowSwap DEF TypeOK
      <3> QED BY Zenon, <1>6, <3>1 DEF TypeOK, SaveContract, StoreFails
    <2>2. dbFailed' \in BOOLEAN /\ lost' \subseteq {"redeem", "revoke"}
      BY ZenonT(30), <1>6 DEF TypeOK, SaveContract, Stored, StoreFails
    <2>3. task' \in [Slots -> Tasks]
      BY Zenon, <1>6, <1>g, <1>p DEF SaveContract
    <2> QED BY Zenon, <1>6, <2>1, <2>2, <2>3 DEF TypeOK, SaveContract
  <1>7. CASE updateInit(k)
    BY <1>7, <1>a, <1>f DEF TypeOK, updateInit, lowered, histVars
  <1>8. CASE updateRedeem(k)
    BY <1>8, <1>a, <1>f, <1>g, <1>p DEF TypeOK, updateRedeem, lowered, histVars, Times
  <1>9. CASE SaveRedeem(k)
    <2>1. redeemTime[actor(task[k].step)] \in Times /\ db.active \in BOOLEAN
      BY Zenon, <1>a DEF TypeOK, Row
    <2>2. db' \in Row
      <3> DEFINE s == actor(task[k].step)
      <3>1. (db.active /\ s = "maker") \in BOOLEAN
        BY Zenon
      <3>2. [db EXCEPT !.status = nextStep(task[k].step), !.redeem[s] = redeemTime[s],
                       !.active = db.active /\ s = "maker"] \in Row
        BY ZenonT(30), <1>a, <2>1, <3>1, RowRedeem DEF TypeOK
      <3> QED BY Zenon, <1>9, <3>2 DEF TypeOK, SaveRedeem, StoreFails
    <2>3. dbFailed' \in BOOLEAN /\ lost' \subseteq {"redeem", "revoke"}
      BY ZenonT(30), <1>9 DEF TypeOK, SaveRedeem, Stored, StoreFails
    <2>4. task' \in [Slots -> Tasks]
      BY Zenon, <1>9, <1>g, <1>p DEF SaveRedeem
    <2> QED BY Zenon, <1>9, <2>2, <2>3, <2>4 DEF TypeOK, SaveRedeem
  <1>10. CASE creditRedeem(k)
    <2>1. done' \in [Sides -> 0..2]
      BY Zenon, <1>10, <1>a, IncrBound DEF TypeOK, creditRedeem
    <2> QED BY Zenon, <1>10, <1>a, <1>f, <2>1 DEF TypeOK, creditRedeem
  <1> QED BY Zenon, <1>1, <1>2, <1>3, <1>4, <1>5, <1>6, <1>7, <1>8, <1>9, <1>10 DEF Handler

\* A check that fails the match leaves it a well-formed task of failMatch.
LEMMA DeleteAndFailType ==
    ASSUME NEW f \in BOOLEAN, NEW n \in BOOLEAN, deleteAndFail(f, n)
    PROVE  inMap' \in BOOLEAN /\ failing' \in Failing
  BY ZenonT(30) DEF deleteAndFail, Failing

\* The main loop, the maker's last acknowledgement and a restart keep them.
LEMMA MainLoopType ==
    ASSUME TypeOK,
           processRedeemAck \/ processBlock \/ Checks \/ failMatch \/ Restart
    PROVE  TypeOK'
  <1> USE SwapperAssumption DEF Clock
  <1>1. CASE processRedeemAck
    BY ZenonT(30), <1>1 DEF TypeOK, processRedeemAck, histVars
  <1>2. CASE processBlock
    BY <1>2 DEF TypeOK, processBlock, histVars, Sides, Times
  <1>3. CASE checkInactionEventBased
    <2>1. inMap' \in BOOLEAN /\ failing' \in Failing
      BY ZenonT(30), <1>3, DeleteAndFailType DEF TypeOK, checkInactionEventBased
    <2> QED BY Zenon, <1>3, <2>1 DEF TypeOK, checkInactionEventBased, histVars
  <1>4. CASE checkInactionBlockBased
    <2>1. expiredBy(now) \in BOOLEAN
      BY Zenon DEF expiredBy
    <2>2. inMap' \in BOOLEAN /\ failing' \in Failing
      BY ZenonT(30), <1>4, <2>1, DeleteAndFailType DEF TypeOK, checkInactionBlockBased
    <2> QED BY <1>4, <2>2 DEF TypeOK, checkInactionBlockBased, histVars
  <1>5. CASE SetMatchInactive
    <2>1. failing' \in Failing
      BY Zenon, <1>5 DEF TypeOK, SetMatchInactive, Failing
    <2>2. failing.fault \in BOOLEAN /\ db.forgiven \in BOOLEAN
      BY Zenon DEF TypeOK, Failing, Row
    <2>3. db' \in Row
      BY ZenonT(30), <1>5, <2>2 DEF TypeOK, SetMatchInactive, StoreFails, Row
    <2>4. dbFailed' \in BOOLEAN /\ lost' \subseteq {"redeem", "revoke"}
      BY ZenonT(30), <1>5 DEF TypeOK, SetMatchInactive, Stored, StoreFails
    <2> QED BY Zenon, <1>5, <2>1, <2>3, <2>4 DEF TypeOK, SetMatchInactive
  <1>6. CASE accountFailure
    <2>1. failing' \in Failing
      BY Zenon, <1>6 DEF accountFailure, NotFailing, Failing
    <2>2. faults' \in 0..2 /\ faulted' \in Sides \cup {"none"}
      BY <1>6, IncrBound DEF TypeOK, accountFailure, AtFault, Sides
    <2>3. done' \in [Sides -> 0..2]
      BY Zenon, <1>6, SwapDoneType DEF accountFailure
    <2> QED BY Zenon, <1>6, <2>1, <2>2, <2>3 DEF TypeOK, accountFailure
  <1>7. CASE Restart
    <2>0. db' \in Row
      BY ZenonT(30), <1>7 DEF TypeOK, Restart, Row
    <2>1. inMap' \in BOOLEAN
      BY ZenonT(30), <1>7 DEF TypeOK, Row, Restart, ActiveSwaps
    <2>2. failing' \in Failing /\ task' \in [Slots -> Tasks]
      BY <1>7 DEF Restart, NotFailing, Failing, Tasks, Idle, PCs
    <2>3. /\ status' \in Status /\ addr' \subseteq Sides /\ addrsSent' \in BOOLEAN
          /\ swap' \subseteq Sides /\ redeemTime' \in [Sides -> Times]
      BY Zenon, <1>7 DEF TypeOK, Restart, Row
    <2>4. conf' \in [Sides -> Times]
      BY <1>7 DEF TypeOK, Restart, Times
    <2>5. time' \in Clock /\ crashes' \in 0..MaxCrashes
      BY <1>7 DEF TypeOK, Restart
    <2>6. /\ neg' \in {"new", "inserted", "done"} /\ searching' \subseteq Sides \X Kinds
          /\ sender' \subseteq Sides /\ dbFailed' \in BOOLEAN /\ redeemAck' \in BOOLEAN
      BY ZenonT(30), <1>7 DEF Restart
    <2>7. ack' \in [Sides -> {"none", "asked", "acked", "stored", "sent"}]
      BY Zenon, <1>7 DEF Restart
    <2>8. done' \in [Sides -> 0..2]
      BY <1>7 DEF Restart
    <2> QED BY Zenon, <1>7, <2>0, <2>1, <2>2, <2>3, <2>4, <2>5, <2>6, <2>7, <2>8 DEF TypeOK, Restart
  <1> QED BY Zenon, <1>1, <1>2, <1>3, <1>4, <1>5, <1>6, <1>7 DEF Checks, failMatch

\* The initial row, tasks and clock have their types.
LEMMA InitType == Init => TypeOK
  <1> SUFFICES ASSUME Init PROVE TypeOK
    BY Zenon
  <1> USE SwapperAssumption
  <1>1. Reset \in [Sides -> Times]
    BY Zenon DEF Reset, Times
  <1>2. db \in Row
    BY <1>1 DEF Init, Row, Status, NewlyMatched
  <1>3. failing \in Failing /\ task \in [Slots -> Tasks]
    BY DEF Init, NotFailing, Failing, Tasks, Idle, PCs
  <1>4. /\ now \in Clock /\ time \in Clock /\ bothAt \in Times /\ status \in Status
        /\ crashes \in 0..MaxCrashes
    BY DEF Init, Clock, Times, Status, NewlyMatched
  <1>5. /\ conf \in [Sides -> Times] /\ redeemTime \in [Sides -> Times]
        /\ ack \in [Sides -> {"none", "asked", "acked", "stored", "sent"}]
        /\ done \in [Sides -> 0..2]
    BY <1>1 DEF Init
  <1>6. /\ inMap \in BOOLEAN /\ addrsSent \in BOOLEAN /\ redeemAck \in BOOLEAN
        /\ dbFailed \in BOOLEAN
    BY ZenonT(30) DEF Init
  <1>7. /\ addr \subseteq Sides /\ swap \subseteq Sides /\ sender \subseteq Sides
        /\ credited \subseteq Sides /\ searching \subseteq Sides \X Kinds
        /\ lost \subseteq {"redeem", "revoke"}
    BY Zenon DEF Init
  <1>8. /\ neg \in {"new", "inserted", "done"} /\ faults \in 0..2
        /\ faulted \in Sides \cup {"none"}
    BY DEF Init
  <1> QED BY Zenon, <1>2, <1>3, <1>4, <1>5, <1>6, <1>7, <1>8 DEF TypeOK

\* Every variable of the Swapper keeps its type.
THEOREM TypeCorrect == Spec => []TypeOK
  <1>1. TypeOK /\ [Next]_vars => TypeOK'
    <2> SUFFICES ASSUME TypeOK, [Next]_vars PROVE TypeOK'
      BY Zenon
    <2>1. CASE UNCHANGED vars
      BY <2>1 DEF vars, memVars, histVars, TypeOK
    <2>2. CASE Next
      BY Zenon, <2>2, NegotiateType, HandlerType, MainLoopType DEF Next
    <2> QED BY Zenon, <2>1, <2>2
  <1> QED BY <1>1, InitType, PTL DEF Spec

-----------------------------------------------------------------------------
(* At most one penalty. *)

\* A step that fails no match, adds none and activates no row keeps the
\* penalty invariant.
LEMMA QuietKeepsPenalty ==
    ASSUME PenaltyInv, neg' = neg, failing' = failing, faults' = faults,
           db'.active => db.active, inMap' => inMap, lost \subseteq lost'
    PROVE  PenaltyInv'
  BY Zenon DEF PenaltyInv, AtMostOneFault

\* The acknowledgements, the requests and their coin waiters are such steps.
LEMMA HandlersKeepPenalty ==
    ASSUME TypeOK, PenaltyInv,
           \/ Tick \/ processRedeemAck \/ processBlock
           \/ \E s \in Sides : MatchAck(s) \/ SaveMatchAck(s) \/ sendCounterPartyAddresses(s)
           \/ \E k \in Slots : handleStep(k) \/ Handler(k)
    PROVE  PenaltyInv'
  <1> DEFINE Quiet == /\ neg' = neg /\ failing' = failing /\ faults' = faults
                      /\ (db'.active => db.active) /\ (inMap' => inMap)
                      /\ lost \subseteq lost'
  <1>r. /\ \A s : [db EXCEPT !.addr = @ \cup {s}].active = db.active
        /\ \A f : [db EXCEPT !.active = FALSE, !.forgiven = f].active = FALSE
    BY SMTT(30) DEF TypeOK, Row
  <1>1. CASE Tick
    BY SMTT(30), <1>1, QuietKeepsPenalty DEF Tick, memVars, histVars
  <1>2. CASE processRedeemAck \/ processBlock
    BY SMTT(30), <1>2, QuietKeepsPenalty DEF processRedeemAck, processBlock, histVars
  <1>3. ASSUME NEW s \in Sides, MatchAck(s) \/ sendCounterPartyAddresses(s)
        PROVE  PenaltyInv'
    BY <1>3, QuietKeepsPenalty DEF MatchAck, sendCounterPartyAddresses
  <1>4. ASSUME NEW s \in Sides, SaveMatchAck(s) PROVE PenaltyInv'
    <2>1. Quiet
      BY ZenonT(30), <1>4, <1>r DEF SaveMatchAck, Stored, StoreFails
    <2> QED BY Zenon, <2>1, QuietKeepsPenalty
  <1>5. ASSUME NEW k \in Slots, handleStep(k) \/ Handler(k) PROVE PenaltyInv'
    <2>1. CASE handleStep(k) \/ startSearch(k) \/ endSearch(k)
      <3>1. UNCHANGED <<neg, failing, db, inMap>> /\ UNCHANGED histVars
        BY ZenonT(30), <2>1 DEF handleStep, startSearch, endSearch
      <3>2. Quiet
        BY ZenonT(30), <3>1 DEF histVars
      <3> QED BY Zenon, <3>2, QuietKeepsPenalty
    <2>2. CASE checkContract(k) \/ updateInit(k) \/ updateRedeem(k)
      <3>1. UNCHANGED <<neg, failing, db, inMap>> /\ UNCHANGED histVars
        BY ZenonT(30), <2>2 DEF checkContract, updateInit, updateRedeem
      <3>2. Quiet
        BY ZenonT(30), <3>1 DEF histVars
      <3> QED BY Zenon, <3>2, QuietKeepsPenalty
    <2>3. CASE revokeExpired(k)
      <3>1. Quiet
        BY ZenonT(30), <2>3, <1>r DEF revokeExpired, Stored, StoreFails
      <3> QED BY Zenon, <3>1, QuietKeepsPenalty
    <2>4. CASE SaveContract(k)
      <3>1. Quiet
        <4>1. db'.active => db.active
          BY ZenonT(30), <2>4 DEF SaveContract, StoreFails, TypeOK, Row
        <4> QED BY ZenonT(30), <2>4, <4>1 DEF SaveContract, Stored, StoreFails
      <3> QED BY Zenon, <3>1, QuietKeepsPenalty
    <2>5. CASE SaveRedeem(k)
      <3>1. Quiet
        <4>1. db'.active => db.active
          BY ZenonT(30), <2>5 DEF SaveRedeem, StoreFails, TypeOK, Row
        <4> QED BY ZenonT(30), <2>5, <4>1 DEF SaveRedeem, Stored, StoreFails
      <3> QED BY Zenon, <3>1, QuietKeepsPenalty
    <2>6. CASE creditRedeem(k)
      <3>1. Quiet
        BY ZenonT(30), <2>6 DEF creditRedeem
      <3> QED BY Zenon, <3>1, QuietKeepsPenalty
    <2> QED BY Zenon, <1>5, <2>1, <2>2, <2>3, <2>4, <2>5, <2>6 DEF Handler
  <1> QED BY Zenon, <1>1, <1>2, <1>3, <1>4, <1>5

\* So do the steps that add, fail, penalise or load a match.
LEMMA FailuresKeepPenalty ==
    ASSUME TypeOK, PenaltyInv,
           InsertMatch \/ addMatch \/ Checks \/ failMatch \/ Restart
    PROVE  PenaltyInv'
  <1>1. CASE InsertMatch
    BY SMTT(30), <1>1 DEF InsertMatch, PenaltyInv, AtMostOneFault, memVars, histVars
  <1>2. CASE addMatch
    BY <1>2 DEF addMatch, PenaltyInv, AtMostOneFault, histVars
  <1>3. CASE Checks
    <2>0. MainLoop /\ inMap /\ UNCHANGED <<neg, db>> /\ UNCHANGED histVars
      BY ZenonT(30), <1>3 DEF Checks, checkInactionEventBased, checkInactionBlockBased
    <2>1. inMap /\ failing.pc = "none" /\ UNCHANGED <<neg, db, faults, lost>>
      BY Zenon, <2>0 DEF MainLoop, NotFailing, histVars
    <2>2. \A f, n : deleteAndFail(f, n) => inMap' = FALSE /\ failing'.pc = "store"
      BY DEF deleteAndFail
    <2>3. CASE checkInactionEventBased
      <3>1. inMap' = FALSE /\ failing'.pc \in {"none", "store"}
        BY ZenonT(30), <2>1, <2>2, <2>3 DEF checkInactionEventBased
      <3> QED BY Zenon, <2>1, <3>1 DEF PenaltyInv, AtMostOneFault
    <2>4. CASE checkInactionBlockBased
      <3>1. inMap' = FALSE /\ failing'.pc = "store"
        BY ZenonT(30), <2>2, <2>4 DEF checkInactionBlockBased
      <3> QED BY Zenon, <2>1, <3>1 DEF PenaltyInv, AtMostOneFault
    <2> QED BY SMTT(30), <1>3, <2>3, <2>4 DEF Checks
  <1>4. CASE SetMatchInactive
    <2>1. /\ failing.pc = "store" /\ failing'.pc = "account"
          /\ UNCHANGED <<neg, inMap, faults>> /\ lost \subseteq lost'
      BY Zenon, <1>4 DEF SetMatchInactive, Stored, StoreFails, TypeOK, Failing
    <2>2. ~db'.active \/ "revoke" \in lost'
      BY ZenonT(30), <1>4 DEF SetMatchInactive, StoreFails, TypeOK, Row
    <2> QED BY Zenon, <2>1, <2>2 DEF PenaltyInv, AtMostOneFault
  <1>5. CASE accountFailure
    <2>1. /\ failing.pc = "account" /\ failing'.pc = "none"
          /\ UNCHANGED <<neg, inMap, db, lost>>
          /\ faults' = faults \/ faults' = Incr(faults)
      BY Zenon, <1>5 DEF accountFailure, NotFailing
    <2>2. faults = 0 \/ "revoke" \in lost
      BY <2>1 DEF PenaltyInv, TypeOK
    <2>3. ~(faults' > 1) \/ "revoke" \in lost
      BY <2>1, <2>2 DEF Incr
    <2> QED BY Zenon, <2>1, <2>3 DEF PenaltyInv, AtMostOneFault
  <1>6. CASE Restart
    <2>1. /\ failing'.pc = "none" /\ UNCHANGED <<faults, lost>>
          /\ neg' # "done" => neg # "done"
          /\ neg' # "done" => neg = "new"
      BY Zenon, <1>6 DEF Restart, NotFailing
    <2>2. db'.active => db.active
      BY ZenonT(30), <1>6 DEF Restart, TypeOK, Row
    <2>3. inMap' => db.active
      BY ZenonT(30), <1>6 DEF Restart, ActiveSwaps
    <2> QED BY Zenon, <2>1, <2>2, <2>3 DEF PenaltyInv, AtMostOneFault
  <1> QED BY Zenon, <1>1, <1>2, <1>3, <1>4, <1>5, <1>6 DEF failMatch

\* A penalised match is neither tracked, nor being failed, nor loaded again.
LEMMA PenaltyHolds == Spec => []PenaltyInv
  <1>1. Init => PenaltyInv
    BY DEF Init, PenaltyInv, AtMostOneFault, NotFailing
  <1>2. TypeOK /\ PenaltyInv /\ [Next]_vars => PenaltyInv'
    <2> SUFFICES ASSUME TypeOK, PenaltyInv, [Next]_vars PROVE PenaltyInv'
      BY Zenon
    <2>1. CASE UNCHANGED vars
      BY Zenon, <2>1, QuietKeepsPenalty DEF vars, memVars, histVars
    <2>2. CASE Next
      BY Zenon, <2>2, HandlersKeepPenalty, FailuresKeepPenalty DEF Next
    <2> QED BY Zenon, <2>1, <2>2
  <1> QED BY <1>1, <1>2, TypeCorrect, PTL DEF Spec

\* A match costs at most one user one penalty, however many requests race
\* with the inaction checks and however often the server is restarted,
\* unless a SetMatchInactive whose error is not looked at was lost.
THEOREM OnePenaltyPerMatch == Spec => []AtMostOneFault
  <1>1. PenaltyInv => AtMostOneFault
    BY SMTT(30) DEF PenaltyInv
  <1> QED BY <1>1, PenaltyHolds, PTL

-----------------------------------------------------------------------------
(* One search for each side's transaction. *)

\* Slots other than k are left alone.
Apart(k) == \A j \in Slots \ {k} : task'[j] = task[j]

\* A request that neither starts nor ends its search disturbs nothing.
LEMMA SearchSame ==
    ASSUME OneSearchPerAction, NEW k \in Slots, Apart(k), searching' = searching,
           Searching(k)' <=> Searching(k),
           Searching(k) => task'[k].step = task[k].step
    PROVE  OneSearchPerAction'
  <1>1. \A j \in Slots : /\ Searching(j)' <=> Searching(j)
                         /\ Searching(j) => Flag(task'[j].step) = Flag(task[j].step)
    BY SMTT(30) DEF Apart, Searching
  <1>2. \A i, j \in Slots : i # j /\ Searching(i)' /\ Searching(j)'
                              => Flag(task'[i].step) # Flag(task'[j].step)
    BY SMTT(30), <1>1 DEF OneSearchPerAction
  <1>3. {Flag(task'[i].step) : i \in {j \in Slots : Searching(j)'}}
          = {Flag(task[i].step) : i \in {j \in Slots : Searching(j)}}
    BY SMTT(30), <1>1
  <1> QED BY SMTT(30), <1>2, <1>3 DEF OneSearchPerAction

\* The compare-and-swap of startSwapSearch and startRedeemSearch succeeds
\* only when no request searches for the same transaction.
LEMMA SearchRaised ==
    ASSUME OneSearchPerAction, NEW k \in Slots, Apart(k), ~Searching(k),
           Searching(k)', task'[k].step = task[k].step,
           Flag(task[k].step) \notin searching,
           searching' = searching \cup {Flag(task[k].step)}
    PROVE  OneSearchPerAction'
  <1>1. \A j \in Slots \ {k} : /\ Searching(j)' <=> Searching(j)
                               /\ Flag(task'[j].step) = Flag(task[j].step)
    BY Zenon DEF Apart, Searching
  <1>2. \A j \in Slots \ {k} : Searching(j)' =>
            Flag(task'[j].step) # Flag(task[k].step)
    BY SMTT(30), <1>1 DEF OneSearchPerAction
  <1>3. \A i, j \in Slots : i # j /\ Searching(i)' /\ Searching(j)'
                              => Flag(task'[i].step) # Flag(task'[j].step)
    BY Zenon, <1>1, <1>2 DEF OneSearchPerAction
  <1>4. {Flag(task'[i].step) : i \in {j \in Slots : Searching(j)'}}
          = {Flag(task[i].step) : i \in {j \in Slots : Searching(j)}}
              \cup {Flag(task[k].step)}
    BY <1>1
  <1> QED BY SMTT(30), <1>3, <1>4 DEF OneSearchPerAction

\* A request that ends its search lowers its own flag and no other.
LEMMA SearchLowered ==
    ASSUME OneSearchPerAction, NEW k \in Slots, Apart(k), Searching(k),
           ~Searching(k)', searching' = searching \ {Flag(task[k].step)}
    PROVE  OneSearchPerAction'
  <1>1. \A j \in Slots \ {k} : /\ Searching(j)' <=> Searching(j)
                               /\ Flag(task'[j].step) = Flag(task[j].step)
    BY Zenon DEF Apart, Searching
  <1>2. \A j \in Slots \ {k} : Searching(j) =>
            Flag(task[j].step) # Flag(task[k].step)
    BY Zenon DEF OneSearchPerAction
  <1>3. \A i, j \in Slots : i # j /\ Searching(i)' /\ Searching(j)'
                              => Flag(task'[i].step) # Flag(task'[j].step)
    BY Zenon, <1>1 DEF OneSearchPerAction
  <1>4. {Flag(task'[i].step) : i \in {j \in Slots : Searching(j)'}}
          = {Flag(task[i].step) : i \in {j \in Slots : Searching(j)}}
              \ {Flag(task[k].step)}
    BY Zenon, <1>1, <1>2
  <1> QED BY SMTT(30), <1>3, <1>4 DEF OneSearchPerAction

\* The requests keep one search for each side's transaction.
LEMMA HandlersKeepOneSearch ==
    ASSUME TypeOK, OneSearchPerAction, NEW k \in Slots, handleStep(k) \/ Handler(k)
    PROVE  OneSearchPerAction'
  <1>t. task \in [Slots -> Tasks]
    BY Zenon DEF TypeOK
  <1>g. ASSUME NEW p, Goto(k, p)
        PROVE  Apart(k) /\ task'[k].pc = p /\ task'[k].step = task[k].step
    BY Zenon, <1>g, <1>t DEF Goto, Apart, Tasks
  <1>f. ASSUME Finish(k) PROVE Apart(k) /\ task'[k].pc = "idle"
    BY SMTT(30), <1>f, <1>t DEF Finish, Apart, Idle
  <1>a. ASSUME Searching(k), Finish(k), searching' = lowered(k) PROVE OneSearchPerAction'
    <2>1. Apart(k) /\ ~Searching(k)'
      BY Zenon, <1>a, <1>f DEF Searching
    <2> QED BY Zenon, <1>a, <2>1, SearchLowered DEF lowered
  <1>b. ASSUME ~Searching(k), Finish(k), searching' = searching PROVE OneSearchPerAction'
    <2>1. Apart(k) /\ ~Searching(k)'
      BY Zenon, <1>b, <1>f DEF Searching
    <2> QED BY Zenon, <1>b, <2>1, SearchSame
  <1>c. ASSUME NEW p \in {"search", "save", "update"}, Searching(k), Goto(k, p),
               searching' = searching
        PROVE  OneSearchPerAction'
    <2>1. Apart(k) /\ Searching(k)' /\ task'[k].step = task[k].step
      BY Zenon, <1>c, <1>g DEF Searching
    <2> QED BY Zenon, <1>c, <2>1, SearchSame
  <1>d. ASSUME NEW p \in {"expired", "saveRedeem"}, Searching(k), Goto(k, p),
               searching' = lowered(k)
        PROVE  OneSearchPerAction'
    <2>1. Apart(k) /\ ~Searching(k)'
      BY Zenon, <1>d, <1>g DEF Searching
    <2> QED BY Zenon, <1>d, <2>1, SearchLowered DEF lowered
  <1>1. CASE handleStep(k)
    <2>1. /\ task[k].pc = "idle" /\ searching' = searching
          /\ task' = [task EXCEPT ![k] = [pc |-> "stepped", step |-> status]]
      BY ZenonT(30), <1>1 DEF handleStep
    <2>2. Apart(k) /\ task'[k].pc = "stepped"
      BY SMTT(30), <1>t, <2>1 DEF Apart
    <2> QED BY Zenon, <2>1, <2>2, SearchSame DEF Searching
  <1>2. CASE startSearch(k)
    <2>1. /\ task[k].pc = "stepped"
          /\ \/ /\ flagFree(k) /\ Goto(k, "search")
                /\ searching' = searching \cup {Flag(task[k].step)}
             \/ Finish(k) /\ searching' = searching
      BY ZenonT(30), <1>2 DEF startSearch
    <2>2. ~Searching(k)
      BY Zenon, <2>1 DEF Searching
    <2>3. CASE /\ flagFree(k) /\ Goto(k, "search")
               /\ searching' = searching \cup {Flag(task[k].step)}
      <3>1. Apart(k) /\ task'[k].pc = "search" /\ task'[k].step = task[k].step
        BY ZenonT(30), <1>g, <2>3
      <3>2. Searching(k)'
        BY Zenon, <3>1 DEF Searching
      <3> QED BY ZenonT(30), <2>2, <2>3, <3>1, <3>2, SearchRaised DEF flagFree
    <2> QED BY Zenon, <1>b, <2>1, <2>2, <2>3
  <1>3. CASE endSearch(k)
    <2>1. task[k].pc = "search" /\ Finish(k) /\ searching' = lowered(k)
      BY ZenonT(30), <1>3 DEF endSearch
    <2> QED BY Zenon, <1>a, <2>1 DEF Searching
  <1>4. CASE checkContract(k)
    <2>1. /\ task[k].pc = "search"
          /\ \/ Goto(k, "expired") /\ searching' = lowered(k)
             \/ Goto(k, "save") /\ searching' = searching
      BY ZenonT(30), <1>4 DEF checkContract
    <2> QED BY Zenon, <1>c, <1>d, <2>1 DEF Searching
  <1>5. CASE revokeExpired(k)
    <2>1. task[k].pc = "expired" /\ Finish(k) /\ searching' = searching
      BY ZenonT(30), <1>5 DEF revokeExpired
    <2> QED BY Zenon, <1>b, <2>1 DEF Searching
  <1>6. CASE SaveContract(k)
    <2>1. /\ task[k].pc = "save" /\ searching' = searching
          /\ Goto(k, "update") \/ Goto(k, "search")
      BY ZenonT(30), <1>6 DEF SaveContract
    <2> QED BY Zenon, <1>c, <2>1 DEF Searching
  <1>7. CASE updateInit(k)
    <2>1. task[k].pc = "update" /\ Finish(k) /\ searching' = lowered(k)
      BY ZenonT(30), <1>7 DEF updateInit
    <2> QED BY Zenon, <1>a, <2>1 DEF Searching
  <1>8. CASE updateRedeem(k)
    <2>1. /\ task[k].pc = "search" /\ searching' = lowered(k)
          /\ Goto(k, "saveRedeem") \/ Finish(k)
      BY ZenonT(30), <1>8 DEF updateRedeem
    <2> QED BY Zenon, <1>a, <1>d, <2>1 DEF Searching
  <1>9. CASE SaveRedeem(k)
    <2>1. task[k].pc = "saveRedeem" /\ Goto(k, "credit") /\ searching' = searching
      BY ZenonT(30), <1>9 DEF SaveRedeem
    <2>2. Apart(k) /\ ~Searching(k) /\ ~Searching(k)'
      BY <1>g, <2>1 DEF Searching
    <2> QED BY Zenon, <2>1, <2>2, SearchSame
  <1>10. CASE creditRedeem(k)
    <2>1. task[k].pc = "credit" /\ Finish(k) /\ searching' = searching
      BY ZenonT(30), <1>10 DEF creditRedeem
    <2> QED BY Zenon, <1>b, <2>1 DEF Searching
  <1> QED BY <1>1, <1>2, <1>3, <1>4, <1>5, <1>6, <1>7, <1>8, <1>9, <1>10 DEF Handler

\* However many 'init' and 'redeem' requests arrive, no two of them search
\* for the same side's transaction, and a search flag is raised exactly
\* while one does (handleInit, handleRedeem).
THEOREM OneSearch == Spec => []OneSearchPerAction
  <1>1. Init => OneSearchPerAction
    BY DEF Init, OneSearchPerAction, Searching, Idle
  <1>2. TypeOK /\ OneSearchPerAction /\ [Next]_vars => OneSearchPerAction'
    <2> SUFFICES ASSUME TypeOK, OneSearchPerAction, [Next]_vars
                 PROVE  OneSearchPerAction'
      BY Zenon
    <2>1. ASSUME NEW k \in Slots, handleStep(k) \/ Handler(k)
          PROVE  OneSearchPerAction'
      BY Zenon, <2>1, HandlersKeepOneSearch
    <2>2. CASE Restart
      BY SMTT(30), <2>2 DEF Restart, OneSearchPerAction, Searching, Idle
    <2>3. ASSUME UNCHANGED <<task, searching>> PROVE OneSearchPerAction'
      BY Zenon, <2>3 DEF OneSearchPerAction, Searching
    <2>4. CASE UNCHANGED vars \/ Tick \/ InsertMatch \/ addMatch
      BY <2>3, <2>4 DEF vars, memVars, Tick, InsertMatch, addMatch
    <2>5. ASSUME NEW s \in Sides,
                 MatchAck(s) \/ SaveMatchAck(s) \/ sendCounterPartyAddresses(s)
          PROVE  OneSearchPerAction'
      BY SMTT(30), <2>3, <2>5 DEF MatchAck, SaveMatchAck, sendCounterPartyAddresses
    <2>6. CASE processRedeemAck \/ processBlock \/ Checks \/ failMatch
      BY ZenonT(30), <2>3, <2>6 DEF processRedeemAck, processBlock, Checks, failMatch,
           checkInactionEventBased, checkInactionBlockBased, SetMatchInactive,
           accountFailure
    <2> QED BY Zenon, <2>1, <2>2, <2>4, <2>5, <2>6 DEF Next
  <1> QED BY <1>1, <1>2, TypeCorrect, PTL DEF Spec

-----------------------------------------------------------------------------
(* A tracked match would survive a restart. *)

\* The inductive form of TrackedIsRestorable: a match that is stored and not
\* yet tracked has an active row and no requests, and a redeem that is about
\* to be stored has its time.
RestorableInv ==
    /\ TrackedIsRestorable
    /\ neg = "inserted" => db.active
    /\ neg # "done" => \A k \in Slots : task[k].pc = "idle"
    /\ \A k \in Slots : task[k].pc = "saveRedeem" => redeemTime[actor(task[k].step)] # Never

\* A step that leaves the row and the requests alone.
LEMMA QuietKeepsRestorable ==
    ASSUME RestorableInv, UNCHANGED <<neg, redeemTime, task>>,
           db'.active = db.active, db'.redeem = db.redeem,
           inMap' => inMap, lost \subseteq lost'
    PROVE  RestorableInv'
  BY Zenon DEF RestorableInv, TrackedIsRestorable

\* A step of request k that comes to no redeem.
LEMMA MoveKeepsRestorable ==
    ASSUME RestorableInv, NEW k \in Slots, Apart(k), task'[k].pc # "saveRedeem",
           UNCHANGED <<neg, redeemTime>>, inMap \/ task[k].pc # "idle",
           neg # "done" => ~inMap,
           ~inMap' \/ db'.active = db.active, ~inMap' \/ db'.redeem = db.redeem,
           inMap' => inMap, lost \subseteq lost'
    PROVE  RestorableInv'
  <1>1. neg = "done"
    BY Zenon DEF RestorableInv
  <1>2. \A j \in Slots : j # k => task'[j] = task[j]
    BY Zenon DEF Apart
  <1> QED BY <1>1, <1>2 DEF RestorableInv, TrackedIsRestorable

\* The requests and their coin waiters keep it.
LEMMA HandlersKeepRestorable ==
    ASSUME TypeOK, PenaltyInv, RestorableInv, NEW k \in Slots, handleStep(k) \/ Handler(k)
    PROVE  RestorableInv'
  <1>t. task \in [Slots -> Tasks]
    BY Zenon DEF TypeOK
  <1>g. ASSUME NEW p, Goto(k, p)
        PROVE  Apart(k) /\ task'[k].pc = p /\ task'[k].step = task[k].step
    BY Zenon, <1>g, <1>t DEF Goto, Apart, Tasks
  <1>f. ASSUME Finish(k) PROVE Apart(k) /\ task'[k].pc = "idle"
    BY SMTT(30), <1>f, <1>t DEF Finish, Apart, Idle
  <1>n. neg # "done" => ~inMap
    BY Zenon DEF PenaltyInv
  <1>1. CASE handleStep(k)
    <2>1. /\ inMap /\ UNCHANGED <<neg, redeemTime, inMap, db>> /\ UNCHANGED histVars
          /\ task' = [task EXCEPT ![k] = [pc |-> "stepped", step |-> status]]
      BY ZenonT(30), <1>1 DEF handleStep, stepAllowed
    <2>2. Apart(k) /\ task'[k].pc = "stepped"
      BY SMTT(30), <1>t, <2>1 DEF Apart
    <2>3. lost' = lost
      BY Zenon, <2>1 DEF histVars
    <2> QED BY Zenon, <1>n, <2>1, <2>2, <2>3, MoveKeepsRestorable
  <1>2. CASE startSearch(k) \/ endSearch(k) \/ checkContract(k)
    <2>1. /\ task[k].pc # "idle" /\ UNCHANGED <<neg, redeemTime, inMap, db>> /\ UNCHANGED histVars
          /\ Finish(k) \/ \E p \in {"search", "expired", "save"} : Goto(k, p)
      BY ZenonT(30), <1>2 DEF startSearch, endSearch, checkContract
    <2>2. lost' = lost
      BY Zenon, <2>1 DEF histVars
    <2>3. Apart(k) /\ task'[k].pc # "saveRedeem"
      BY Zenon, <1>f, <1>g, <2>1
    <2> QED BY <1>n, <2>1, <2>2, <2>3, MoveKeepsRestorable
  <1>3. CASE revokeExpired(k)
    <2>1. /\ task[k].pc = "expired" /\ UNCHANGED <<neg, redeemTime>> /\ Finish(k) /\ inMap' = FALSE
          /\ lost' = lost \/ lost' = lost \cup {"revoke"}
      BY ZenonT(30), <1>3 DEF revokeExpired, Stored, StoreFails
    <2> QED BY <1>f, <1>n, <2>1, MoveKeepsRestorable
  <1>4. CASE SaveContract(k)
    <2>1. /\ task[k].pc = "save" /\ UNCHANGED <<neg, redeemTime, inMap>>
          /\ Goto(k, "update") \/ Goto(k, "search")
          /\ lost' = lost \/ lost' = lost \cup {}
      BY ZenonT(30), <1>4 DEF SaveContract, Stored, StoreFails
    <2>2. db'.active = db.active /\ db'.redeem = db.redeem
      BY ZenonT(30), <1>4 DEF SaveContract, StoreFails, TypeOK, Row
    <2> QED BY <1>g, <1>n, <2>1, <2>2, MoveKeepsRestorable
  <1>5. CASE updateInit(k) \/ creditRedeem(k)
    <2>1. /\ task[k].pc # "idle" /\ UNCHANGED <<neg, redeemTime, inMap, db>> /\ Finish(k)
          /\ lost' = lost
      BY ZenonT(30), <1>5 DEF updateInit, creditRedeem, histVars
    <2> QED BY Zenon, <1>f, <1>n, <2>1, MoveKeepsRestorable
  <1>6. CASE updateRedeem(k)
    <2>1. /\ task[k].pc = "search" /\ UNCHANGED <<neg, inMap, db, lost>>
          /\ \/ redeemTime' = [redeemTime EXCEPT ![actor(task[k].step)] = now] /\ Goto(k, "saveRedeem")
             \/ UNCHANGED redeemTime /\ Finish(k)
      BY ZenonT(30), <1>6 DEF updateRedeem, histVars
    <2>2. CASE UNCHANGED redeemTime /\ Finish(k)
      BY <1>f, <1>n, <2>1, <2>2, MoveKeepsRestorable
    <2>3. CASE redeemTime' = [redeemTime EXCEPT ![actor(task[k].step)] = now] /\ Goto(k, "saveRedeem")
      <3>1. Apart(k) /\ task'[k].pc = "saveRedeem" /\ task'[k].step = task[k].step
        BY Zenon, <1>g, <2>3
      <3>2. \A s \in Sides : redeemTime[s] # Never => redeemTime'[s] # Never
        BY <2>3 DEF TypeOK, Clock, Never
      <3>3. redeemTime'[actor(task[k].step)] # Never
        BY <1>t, <2>3, ActorType DEF TypeOK, Clock, Never, Tasks
      <3>4. \A j \in Slots : task'[j].pc = "saveRedeem" => redeemTime'[actor(task'[j].step)] # Never
        <4> SUFFICES ASSUME NEW j \in Slots, task'[j].pc = "saveRedeem"
                     PROVE  redeemTime'[actor(task'[j].step)] # Never
          BY Zenon
        <4>1. CASE j = k
          BY <3>1, <3>3, <4>1
        <4>2. CASE j # k
          <5>1. task'[j] = task[j] /\ actor(task[j].step) \in Sides
            BY SMTT(30), <1>t, <3>1, <4>2, ActorType DEF Apart, Tasks
          <5> QED BY <3>2, <5>1 DEF RestorableInv
        <4> QED BY <4>1, <4>2
      <3>5. neg = "done"
        BY <2>1 DEF RestorableInv
      <3> QED BY SMTT(30), <2>1, <3>4, <3>5 DEF RestorableInv, TrackedIsRestorable
    <2> QED BY Zenon, <2>1, <2>2, <2>3
  <1>7. CASE SaveRedeem(k)
    <2> DEFINE s == actor(task[k].step)
    <2>1. /\ task[k].pc = "saveRedeem" /\ Goto(k, "credit") /\ UNCHANGED <<neg, inMap, redeemTime>>
          /\ \/ /\ lost' = lost
                /\ db' = [db EXCEPT !.status = nextStep(task[k].step), !.redeem[s] = redeemTime[s],
                                    !.active = @ /\ s = "maker"]
             \/ lost' = lost \cup {"redeem"} /\ db' = db
      BY ZenonT(30), <1>7 DEF SaveRedeem, Stored, StoreFails
    <2>2. Apart(k) /\ task'[k].pc = "credit"
      BY <1>g, <2>1
    <2>3. CASE lost' = lost \cup {"redeem"} /\ db' = db
      BY <1>n, <2>1, <2>2, <2>3, MoveKeepsRestorable
    <2>4. CASE /\ lost' = lost
               /\ db' = [db EXCEPT !.status = nextStep(task[k].step), !.redeem[s] = redeemTime[s],
                                   !.active = @ /\ s = "maker"]
      <3>1. s \in Sides /\ redeemTime[s] # Never
        BY <1>t, <2>1, ActorType DEF RestorableInv, Tasks
      <3>2. /\ db'.active = (db.active /\ s = "maker")
            /\ db'.redeem = [db.redeem EXCEPT ![s] = redeemTime[s]]
        BY ZenonT(30), <2>4 DEF TypeOK, Row
      <3>3. db.redeem \in [Sides -> Times]
        BY Zenon DEF TypeOK, Row
      <3>4. db'.redeem["taker"] = Never => db.redeem["taker"] = Never /\ s = "maker"
        BY <3>1, <3>2, <3>3 DEF Sides
      <3>5. TrackedIsRestorable'
        BY ZenonT(30), <2>1, <2>4, <3>2, <3>4 DEF RestorableInv, TrackedIsRestorable
      <3>6. neg = "done"
        BY <2>1 DEF RestorableInv
      <3>7. \A j \in Slots : task'[j].pc = "saveRedeem" => task'[j] = task[j]
        BY Zenon, <2>2 DEF Apart
      <3> QED BY <2>1, <3>5, <3>6, <3>7 DEF RestorableInv
    <2> QED BY <2>1, <2>3, <2>4
  <1> QED BY Zenon, <1>1, <1>2, <1>3, <1>4, <1>5, <1>6, <1>7 DEF Handler

\* A match the Swapper is negotiating would survive a restart, for any number
\* of requests in flight and of restarts: its row is active until the taker's
\* redeem is saved, unless a revocation was lost.
THEOREM TrackedSurvives == Spec => []TrackedIsRestorable
  <1>1. Init => RestorableInv
    BY DEF Init, RestorableInv, TrackedIsRestorable, Idle
  <1>2. TypeOK /\ PenaltyInv /\ RestorableInv /\ [Next]_vars => RestorableInv'
    <2> SUFFICES ASSUME TypeOK, PenaltyInv, RestorableInv, [Next]_vars PROVE RestorableInv'
      BY Zenon
    <2>1. ASSUME NEW k \in Slots, handleStep(k) \/ Handler(k) PROVE RestorableInv'
      BY Zenon, <2>1, HandlersKeepRestorable
    <2>2. CASE UNCHANGED vars \/ Tick \/ processBlock \/ processRedeemAck \/ Checks \/ accountFailure
      <3>1. /\ UNCHANGED <<neg, redeemTime, task, db, lost>> /\ (inMap' = inMap \/ inMap' = FALSE)
        <4>1. CASE UNCHANGED vars \/ Tick \/ processBlock \/ processRedeemAck \/ accountFailure
          BY ZenonT(30), <4>1 DEF vars, memVars, histVars, Tick, processBlock, processRedeemAck,
               accountFailure
        <4>2. CASE Checks
          BY ZenonT(30), <4>2 DEF Checks, checkInactionEventBased, checkInactionBlockBased,
               deleteAndFail, histVars
        <4> QED BY ZenonT(30), <2>2, <4>1, <4>2
      <3> QED BY <3>1, QuietKeepsRestorable
    <2>3. ASSUME NEW s \in Sides,
                 MatchAck(s) \/ SaveMatchAck(s) \/ sendCounterPartyAddresses(s)
          PROVE  RestorableInv'
      <3>1. /\ UNCHANGED <<neg, redeemTime, task, inMap>> /\ (lost' = lost \/ lost' = lost \cup {})
            /\ db' = db \/ db' = [db EXCEPT !.addr = @ \cup {s}]
        BY ZenonT(30), <2>3 DEF MatchAck, SaveMatchAck, sendCounterPartyAddresses, Stored, StoreFails
      <3>2. db'.active = db.active /\ db'.redeem = db.redeem
        BY ZenonT(30), <3>1 DEF TypeOK, Row
      <3> QED BY <3>1, <3>2, QuietKeepsRestorable
    <2>4. CASE InsertMatch
      <3>1. /\ neg # "done" /\ UNCHANGED <<inMap, redeemTime, task>>
            /\ db' = [db EXCEPT !.active = TRUE]
        BY ZenonT(30), <2>4 DEF InsertMatch, memVars
      <3>2. db'.active /\ ~inMap
        BY <3>1 DEF PenaltyInv, TypeOK, Row
      <3> QED BY <3>1, <3>2 DEF RestorableInv, TrackedIsRestorable
    <2>5. CASE addMatch
      <3>1. neg = "inserted" /\ neg' = "done" /\ UNCHANGED <<redeemTime, task, db>>
        BY ZenonT(30), <2>5 DEF addMatch
      <3> QED BY Zenon, <3>1 DEF RestorableInv, TrackedIsRestorable
    <2>6. CASE SetMatchInactive
      <3>1. failing.pc = "store" /\ UNCHANGED <<neg, inMap, redeemTime, task>>
        BY ZenonT(30), <2>6 DEF SetMatchInactive
      <3>2. ~inMap /\ neg = "done"
        BY <3>1 DEF PenaltyInv
      <3> QED BY <3>1, <3>2 DEF RestorableInv, TrackedIsRestorable
    <2>7. CASE Restart
      <3>1. /\ task' = [k \in Slots |-> Idle] /\ neg' # "inserted"
            /\ \/ inMap' = FALSE
               \/ inMap' \in {db.active, FALSE} /\ db' = db
        BY ZenonT(30), <2>7 DEF Restart, ActiveSwaps
      <3> QED BY ZenonT(30), <3>1 DEF RestorableInv, TrackedIsRestorable, Idle
    <2> QED BY ZenonT(30), <2>1, <2>2, <2>3, <2>4, <2>5, <2>6, <2>7 DEF Next, failMatch
  <1>3. RestorableInv => TrackedIsRestorable
    BY Zenon DEF RestorableInv
  <1> QED BY <1>1, <1>2, <1>3, TypeCorrect, PenaltyHolds, PTL DEF Spec

-----------------------------------------------------------------------------
(* The maker's time for the swap. *)

\* The inductive form of MakerGetsFullTimeout, before the first restart: once
\* both addresses are there, the timer started with them and stays.
TimeoutInv ==
    crashes = 0 =>
      /\ MakerGetsFullTimeout
      /\ bothAt # Never => addrsSent /\ time = bothAt
      /\ neg # "done" => bothAt = Never /\ \A s \in Sides : ack[s] = "none"

\* What is too old stays too old.
LEMMA Later == \A t, u, evt, timeout \in Int : t - evt >= timeout /\ u >= t => u - evt >= timeout
  OBVIOUS

\* Steps that leave the timer alone, fail no match and keep a status that has
\* left NewlyMatched from coming back to it.
LEMMA QuietKeepsTimeout ==
    ASSUME TypeOK, TimeoutInv, UNCHANGED <<time, addrsSent, bothAt, neg, crashes>>,
           failing'.pc # "none" => /\ failing.pc # "none" /\ failing'.fault = failing.fault
                                   /\ failing'.noAddr = failing.noAddr,
           neg = "done" \/ UNCHANGED ack,
           status' = NewlyMatched => status = NewlyMatched,
           now' \in Clock, now' >= now
    PROVE  TimeoutInv'
  <1>1. now \in Int /\ now' \in Int /\ bothAt \in Int /\ BTimeout \in Int
    BY SwapperAssumption DEF TypeOK, Clock, Times, Never
  <1>2. MakerGetsFullTimeout => MakerGetsFullTimeout'
    <2> SUFFICES ASSUME MakerGetsFullTimeout, failing'.pc # "none", failing'.fault,
                        ~failing'.noAddr, status' = NewlyMatched, bothAt' # Never
                 PROVE  now' - bothAt' >= BTimeout
      BY ZenonT(30) DEF MakerGetsFullTimeout
    <2>1. now - bothAt >= BTimeout
      BY ZenonT(30) DEF MakerGetsFullTimeout
    <2>2. bothAt' = bothAt
      BY ZenonT(30)
    <2> QED BY ZenonT(30), <1>1, <2>1, <2>2, Later
  <1> QED BY <1>2 DEF TimeoutInv

\* A request leaves the timer alone and advances the status.
LEMMA HandlersKeepTimeout ==
    ASSUME TypeOK, TimeoutInv, NEW k \in Slots, handleStep(k) \/ Handler(k)
    PROVE  TimeoutInv'
  <1>1. UNCHANGED <<time, addrsSent, bothAt, neg, crashes, failing, ack, now>>
    <2>1. CASE handleStep(k) \/ startSearch(k) \/ endSearch(k) \/ checkContract(k)
      BY ZenonT(30), <2>1 DEF handleStep, startSearch, endSearch, checkContract, histVars
    <2>2. CASE revokeExpired(k) \/ SaveContract(k) \/ updateInit(k)
      BY ZenonT(30), <2>2 DEF revokeExpired, SaveContract, updateInit, histVars
    <2>3. CASE updateRedeem(k) \/ SaveRedeem(k) \/ creditRedeem(k)
      BY ZenonT(30), <2>3 DEF updateRedeem, SaveRedeem, creditRedeem, histVars
    <2> QED BY <2>1, <2>2, <2>3 DEF Handler
  <1>2. status' = status \/ status' = nextStep(task[k].step)
    BY ZenonT(30) DEF handleStep, Handler, startSearch, endSearch, checkContract, revokeExpired,
         SaveContract, updateInit, updateRedeem, SaveRedeem, creditRedeem
  <1>3. task[k].step \in 0..3
    BY DEF TypeOK, Tasks
  <1>4. nextStep(task[k].step) # NewlyMatched
    BY <1>3 DEF nextStep, NewlyMatched
  <1>5. now' \in Clock /\ now' >= now
    BY <1>1, SwapperAssumption DEF TypeOK, Clock
  <1> QED BY SMTT(30), <1>1, <1>2, <1>4, <1>5, QuietKeepsTimeout

\* The acknowledgements set the timer once, when both addresses are there.
LEMMA AcksKeepTimeout ==
    ASSUME TypeOK, PenaltyInv, TimeoutInv, NEW s \in Sides,
           MatchAck(s) \/ SaveMatchAck(s) \/ sendCounterPartyAddresses(s)
    PROVE  TimeoutInv'
  <1>1. CASE SaveMatchAck(s) \/ sendCounterPartyAddresses(s)
    <2>1. /\ UNCHANGED <<time, addrsSent, bothAt, neg, crashes, failing, now, status>>
          /\ ack[s] = "acked" \/ ack[s] = "stored"
      BY ZenonT(30), <1>1 DEF SaveMatchAck, sendCounterPartyAddresses
    <2>2. crashes = 0 => neg = "done"
      BY Zenon, <2>1 DEF TimeoutInv
    <2>3. now' \in Clock /\ now' >= now
      BY <2>1, SwapperAssumption DEF TypeOK, Clock
    <2>4. CASE crashes = 0
      BY Zenon, <2>1, <2>2, <2>3, <2>4, QuietKeepsTimeout
    <2> QED BY <2>1, <2>4 DEF TimeoutInv
  <1>2. CASE MatchAck(s)
    <2>1. /\ ack[s] = "asked" /\ UNCHANGED <<neg, crashes, failing, now, status>>
          /\ \/ /\ ~addrsSent /\ addrsSent' = TRUE /\ time' = now
                /\ bothAt' = IF inMap THEN now ELSE bothAt
             \/ UNCHANGED <<addrsSent, time, bothAt>>
      BY ZenonT(30), <1>2 DEF MatchAck, restartedTimer
    <2>2. CASE crashes = 0
      <3>1. neg = "done"
        BY <2>1, <2>2 DEF TimeoutInv
      <3>2. failing.pc # "none" => ~inMap
        BY Zenon DEF PenaltyInv
      <3>3. MakerGetsFullTimeout'
        BY <2>1, <2>2, <3>2 DEF TimeoutInv, MakerGetsFullTimeout
      <3> QED BY <2>1, <2>2, <3>1, <3>3 DEF TimeoutInv
    <2> QED BY <2>1, <2>2 DEF TimeoutInv
  <1> QED BY Zenon, <1>1, <1>2

\* The inaction check waits for the timer.
LEMMA ChecksKeepTimeout ==
    ASSUME TypeOK, TimeoutInv, Checks
    PROVE  TimeoutInv'
  <1>1. UNCHANGED <<time, addrsSent, bothAt, neg, crashes, ack, now, status>>
    BY ZenonT(30) DEF Checks, checkInactionEventBased, checkInactionBlockBased, histVars
  <1>2. \/ status = NewlyMatched /\ tooOld(time)
        \/ status # NewlyMatched
    <2>1. \/ status = NewlyMatched /\ tooOld(time)
          \/ status \in {MakerSwapCast, TakerSwapCast, MakerRedeemed, MatchComplete}
      BY ZenonT(30) DEF Checks, checkInactionEventBased, checkInactionBlockBased, completedDue
    <2> QED BY <2>1 DEF NewlyMatched, MakerSwapCast, TakerSwapCast, MakerRedeemed, MatchComplete
  <1>3. tooOld(time) => now - time >= BTimeout
    BY SwapperAssumption DEF TypeOK, tooOld, Clock, Never
  <1>4. crashes = 0 => MakerGetsFullTimeout'
    BY Zenon, <1>1, <1>2, <1>3 DEF TimeoutInv, MakerGetsFullTimeout
  <1> QED BY <1>1, <1>4 DEF TimeoutInv

\* "Reset the match timer so the maker gets a full bTimeout from when both
\* addresses are available": until the server is restarted, the maker is not
\* failed for a missing swap before that, however many requests are in flight.
THEOREM MakerHasItsTime == Spec => [](crashes = 0 => MakerGetsFullTimeout)
  <1>1. Init => TimeoutInv
    BY Zenon DEF Init, TimeoutInv, MakerGetsFullTimeout, NotFailing, Never
  <1>2. TypeOK /\ PenaltyInv /\ TimeoutInv /\ [Next]_vars => TimeoutInv'
    <2> SUFFICES ASSUME TypeOK, PenaltyInv, TimeoutInv, [Next]_vars PROVE TimeoutInv'
      BY Zenon
    <2>1. ASSUME NEW k \in Slots, handleStep(k) \/ Handler(k) PROVE TimeoutInv'
      BY <2>1, HandlersKeepTimeout
    <2>2. ASSUME NEW s \in Sides,
                 MatchAck(s) \/ SaveMatchAck(s) \/ sendCounterPartyAddresses(s)
          PROVE  TimeoutInv'
      BY Zenon, <2>2, AcksKeepTimeout
    <2>3. CASE UNCHANGED vars \/ Tick
      <3>1. /\ UNCHANGED <<time, addrsSent, bothAt, neg, crashes, failing, ack, status>>
            /\ now' = now \/ (now < MaxClock /\ now' = now + 1)
        BY ZenonT(30), <2>3 DEF vars, memVars, histVars, Tick
      <3>2. now' \in Clock /\ now' >= now
        BY <3>1, SwapperAssumption DEF TypeOK, Clock
      <3> QED BY <3>1, <3>2, QuietKeepsTimeout
    <2>4. CASE processRedeemAck \/ processBlock \/ failMatch
      <3>1. /\ UNCHANGED <<time, addrsSent, bothAt, neg, crashes, ack, now, status>>
            /\ \/ failing' = failing \/ failing' = NotFailing
               \/ failing' = [failing EXCEPT !.pc = "account"] /\ failing.pc = "store"
        BY ZenonT(30), <2>4 DEF processRedeemAck, processBlock, failMatch, SetMatchInactive,
             accountFailure, histVars
      <3>2. failing'.pc # "none" => /\ failing.pc # "none" /\ failing'.fault = failing.fault
                                    /\ failing'.noAddr = failing.noAddr
        BY <3>1 DEF NotFailing, TypeOK, Failing
      <3>3. now' \in Clock /\ now' >= now
        BY <3>1, SwapperAssumption DEF TypeOK, Clock
      <3> QED BY <3>1, <3>2, <3>3, QuietKeepsTimeout
    <2>5. CASE Checks
      BY <2>5, ChecksKeepTimeout
    <2>6. CASE InsertMatch
      <3>1. /\ neg = "new" /\ neg' = "inserted"
            /\ UNCHANGED <<time, addrsSent, bothAt, crashes, ack, now, status, failing>>
        BY ZenonT(30), <2>6 DEF InsertMatch, memVars, histVars
      <3> QED BY <3>1 DEF TimeoutInv, MakerGetsFullTimeout
    <2>7. CASE addMatch
      <3>1. /\ neg = "inserted" /\ neg' = "done"
            /\ UNCHANGED <<addrsSent, bothAt, crashes, now, status, failing>>
        BY ZenonT(30), <2>7 DEF addMatch, histVars
      <3> QED BY Zenon, <3>1 DEF TimeoutInv, MakerGetsFullTimeout
    <2>8. CASE Restart
      <3>1. crashes' = crashes + 1
        BY ZenonT(30), <2>8 DEF Restart
      <3> QED BY <3>1, SwapperAssumption DEF TypeOK, TimeoutInv
    <2> QED BY ZenonT(30), <2>1, <2>2, <2>3, <2>4, <2>5, <2>6, <2>7, <2>8 DEF Next
  <1>3. TimeoutInv => (crashes = 0 => MakerGetsFullTimeout)
    BY Zenon DEF TimeoutInv
  <1> QED BY <1>1, <1>2, <1>3, TypeCorrect, PenaltyHolds, PTL DEF Spec

=============================================================================
