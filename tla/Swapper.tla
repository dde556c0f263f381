------------------------------- MODULE Swapper -------------------------------
(***************************************************************************)
(* server/swap: the negotiation of one match by the Swapper, with its row  *)
(* in the matches table, the concurrency of its handlers and coin waiters, *)
(* its inaction timers and server restarts.                                *)
(*                                                                         *)
(* The Swapper negotiates many matches.  They meet only in the coin and    *)
(* secret-hash maps of processInit (module SwapDedup), in the coin lockers *)
(* (module OrderFunding) and in the loop of processBlock, which another    *)
(* match can cut short: here a block may always pass a match by.           *)
(*                                                                         *)
(* Goroutines: one per incoming request up to the coin waiter's start, one *)
(* per try of a coin waiter, one per match acknowledgement, and the main   *)
(* loop of Run (blocks and inaction checks).  A step below ends where a    *)
(* lock is released, the database is called or another goroutine could     *)
(* observe the difference.                                                 *)
(***************************************************************************)
EXTENDS Integers, FiniteSets

CONSTANTS
    Slots,         \* requests ('init' or 'redeem') that may be in flight at once
    BTimeout,      \* broadcast timeout, in clock units
    LockTimeTaker, \* lock time required of the taker's contract, from match time
    LockTimeMaker, \* lock time required of the maker's contract
    RestoreGrace,  \* restoreActiveSwaps: match.time = epoch close + one minute
    MaxStart,      \* bound: latest clock at which the match is negotiated
    MaxClock,      \* bound: end of the clock
    StoreErrors,   \* whether storage calls may fail
    MaxCrashes     \* bound: server restarts

ASSUME SwapperAssumption ==
    /\ BTimeout \in Nat \ {0}
    /\ LockTimeTaker \in Nat
    /\ LockTimeMaker \in Nat
    /\ MaxStart \in Nat
    /\ MaxClock \in Nat
    /\ RestoreGrace \in 0..MaxClock
    /\ StoreErrors \in BOOLEAN
    /\ MaxCrashes \in Nat

Sides == {"maker", "taker"}
Other(s) == IF s = "maker" THEN "taker" ELSE "maker"

\* order.MatchStatus
NewlyMatched == 0
MakerSwapCast == 1
TakerSwapCast == 2
MakerRedeemed == 3
MatchComplete == 4
Status == 0..4

Never == -1                   \* the zero time.Time
Clock == 0..MaxClock
Times == Clock \cup {Never}
Reset == [s \in Sides |-> Never]

(* The match's epoch closes at clock 0: matchTime = 0. *)
LockTime(s) == IF s = "maker" THEN LockTimeMaker ELSE LockTimeTaker

VARIABLES
    now,
    neg,         \* Negotiate: "new", "inserted" (InsertMatch done), "done"
    inMap,       \* the match is in Swapper.matches
    status,      \* match.Status
    time,        \* match.time
    addr,        \* sides whose per-match swap address is in memory
    addrsSent,   \* counterPartyAddrsSent
    swap,        \* sides whose swapStatus.swap is set
    conf,        \* swapStatus.swapConfirmed of each side
    redeemTime,  \* swapStatus.redeemTime of each side
    searching,   \* raised search flags: <<side, "init" or "redeem">>
    task,        \* the requests in flight: [pc, step], step = stepInfo.step
    ack,         \* each side's match acknowledgement
    sender,      \* sides whose processMatchAcks must send the addresses
    failing,     \* deleted match that the main loop has yet to fail
    redeemAck,   \* the maker owes an ack of the taker's redemption
    db,          \* the row of the matches table
    dbFailed,    \* the storage backend has recorded a fatal error
    crashes,
    \* history
    done,        \* swapDone calls for each side's order in this server run
    credited,    \* sides for which SwapSuccess was called
    faults,      \* Inaction calls
    faulted,     \* side of the last Inaction call
    lost,        \* redeems and revocations the database has lost
    bothAt       \* when a tracked match got both addresses

memVars == <<inMap, status, time, addr, addrsSent, swap, conf, redeemTime,
             searching, task, ack, sender, failing, redeemAck>>
histVars == <<done, credited, faults, faulted, lost, bothAt>>
vars == <<now, neg, memVars, db, dbFailed, crashes, histVars>>

Kinds == {"init", "redeem"}
PCs == {"idle", "stepped", "search", "expired", "save", "update",
        "saveRedeem", "credit"}
Idle == [pc |-> "idle", step |-> 0]
NotFailing == [pc |-> "none", fault |-> FALSE, noAddr |-> FALSE]

Init ==
    /\ now = 0 /\ neg = "new"
    /\ inMap = FALSE /\ status = NewlyMatched /\ time = 0
    /\ addr = {} /\ addrsSent = FALSE
    /\ swap = {} /\ conf = Reset /\ redeemTime = Reset
    /\ searching = {} /\ task = [k \in Slots |-> Idle]
    /\ ack = [s \in Sides |-> "none"] /\ sender = {}
    /\ failing = NotFailing /\ redeemAck = FALSE
    /\ db = [active |-> FALSE, status |-> NewlyMatched, forgiven |-> FALSE,
             addr |-> {}, swap |-> {}, redeem |-> Reset]
    /\ dbFailed = FALSE /\ crashes = 0
    /\ done = [s \in Sides |-> 0] /\ credited = {}
    /\ faults = 0 /\ faulted = "none"
    /\ lost = {} /\ bothAt = Never

-----------------------------------------------------------------------------
(* Helpers. *)

Incr(n) == IF n < 2 THEN n + 1 ELSE n   \* counts saturate at 2

\* step: whose turn it is, and what they must send.
actor(st) == IF st \in {NewlyMatched, TakerSwapCast} THEN "maker" ELSE "taker"
kind(st) == IF st \in {NewlyMatched, MakerSwapCast} THEN "init" ELSE "redeem"
Flag(st) == <<actor(st), kind(st)>>

\* Mutants of nextStep: the status stays, or skips a step.
nextStepSame(st) == st
nextStepSkips(st) == IF st < MakerRedeemed THEN st + 2 ELSE st + 1

nextStep(st) == st + 1

Goto(k, pc) == task' = [task EXCEPT ![k].pc = pc]
Finish(k) == task' = [task EXCEPT ![k] = Idle]

\* matchTracker.expiredBy, with lock times as processInit requires them.
expiredBy(ref) == \E s \in swap : LockTime(s) < ref

\* tooOld of the event-based checks (a zero time is long ago) and of the
\* block-based ones (a zero time has not happened yet).
tooOld(evt) == evt = Never \/ now - evt >= BTimeout
tooOldSet(evt) == evt # Never /\ now - evt >= BTimeout

\* Bound: events that start a timeout leave the clock room to run it out.
Room == now + BTimeout <= MaxClock

\* A storage call succeeds, or it fails and the backend goes fatal.
\* Bound: it only fails while a restart is left.
Stored == UNCHANGED <<dbFailed, lost>>
StoreFails(what) ==
    /\ StoreErrors /\ crashes < MaxCrashes
    /\ dbFailed' = TRUE /\ lost' = lost \cup what
    /\ UNCHANGED db

-----------------------------------------------------------------------------
Tick ==
    /\ now < MaxClock
    /\ now' = now + 1
    /\ UNCHANGED <<neg, memVars, db, dbFailed, crashes, histVars>>

(* Negotiate: store the match, then add it to the maps and ask both sides  *)
(* for their acknowledgements.                                             *)
InsertMatch ==
    /\ neg = "new" /\ now <= MaxStart
    /\ neg' = "inserted"
    /\ db' = [db EXCEPT !.active = TRUE]
    /\ UNCHANGED <<now, memVars, dbFailed, crashes, histVars>>

addMatch ==
    /\ neg = "inserted" /\ now <= MaxStart
    /\ neg' = "done"
    /\ inMap' = TRUE
    /\ time' = now
    /\ ack' = [s \in Sides |-> "asked"]
    /\ UNCHANGED <<now, status, addr, addrsSent, swap, conf, redeemTime, searching,
                   task, sender, failing, redeemAck, db, dbFailed, crashes, histVars>>

-----------------------------------------------------------------------------
(* processMatchAcks: memory first, under match.mtx; then the database;     *)
(* then the notifications, by the ack that found both addresses.           *)

\* Mutant of restartedTimer: the match timer is not reset.
restartedTimerKept == time

restartedTimer == now

MatchAck(s) ==
    /\ ack[s] = "asked" /\ Room
    /\ ack' = [ack EXCEPT ![s] = "acked"]
    /\ addr' = addr \cup {s}
    /\ IF addr' = Sides /\ ~addrsSent
       THEN /\ addrsSent' = TRUE
            /\ sender' = sender \cup {s}
            /\ time' = restartedTimer
            /\ bothAt' = IF inMap THEN now ELSE bothAt
       ELSE UNCHANGED <<addrsSent, sender, time, bothAt>>
    /\ UNCHANGED <<now, neg, inMap, status, swap, conf, redeemTime, searching, task,
                   failing, redeemAck, db, dbFailed, crashes, done, credited,
                   faults, faulted, lost>>

\* SaveMatchAckSig, SaveMatchAckAddr; an error ends the handler.
SaveMatchAck(s) ==
    /\ ack[s] = "acked"
    /\ \/ /\ Stored
          /\ db' = [db EXCEPT !.addr = @ \cup {s}]
          /\ ack' = [ack EXCEPT ![s] = IF s \in sender THEN "stored" ELSE "sent"]
       \/ /\ StoreFails({})
          /\ ack' = [ack EXCEPT ![s] = "sent"]
    /\ UNCHANGED <<now, neg, inMap, status, time, addr, addrsSent, swap, conf,
                   redeemTime, searching, task, sender, failing, redeemAck,
                   crashes, done, credited, faults, faulted, bothAt>>

\* UserConnected sends the addresses of a tracked match again; like the
\* notification itself it changes nothing here.
sendCounterPartyAddresses(s) ==
    /\ ack[s] = "stored"
    /\ ack' = [ack EXCEPT ![s] = "sent"]
    /\ UNCHANGED <<now, neg, inMap, status, time, addr, addrsSent, swap, conf,
                   redeemTime, searching, task, sender, failing, redeemAck, db,
                   dbFailed, crashes, done, credited, faults, faulted, lost, bothAt>>

-----------------------------------------------------------------------------
(* handleInit and handleRedeem: step() reads the status, then the search   *)
(* flag is raised by compare-and-swap; the status is not read again.       *)

stepAllowed == inMap /\ status # MatchComplete

handleStep(k) ==
    /\ task[k].pc = "idle"
    /\ stepAllowed
    /\ task' = [task EXCEPT ![k] = [pc |-> "stepped", step |-> status]]
    /\ UNCHANGED <<now, neg, inMap, status, time, addr, addrsSent, swap, conf,
                   redeemTime, searching, ack, sender, failing, redeemAck, db,
                   dbFailed, crashes, histVars>>

\* Mutant of flagFree: the flag is set without looking at it.
flagFreeAlways(k) == TRUE

flagFree(k) == Flag(task[k].step) \notin searching

\* A raised flag or an invalid coin ID or contract is an error response.
startSearch(k) ==
    /\ task[k].pc = "stepped"
    /\ \/ /\ flagFree(k)
          /\ Goto(k, "search")
          /\ searching' = searching \cup {Flag(task[k].step)}
       \/ /\ Finish(k)
          /\ UNCHANGED searching
    /\ UNCHANGED <<now, neg, inMap, status, time, addr, addrsSent, swap, conf,
                   redeemTime, ack, sender, failing, redeemAck, db, dbFailed,
                   crashes, histVars>>

\* Mutant of lowered: the flag of a revoked match stays up.
loweredIfTracked(k) == IF inMap THEN searching \ {Flag(task[k].step)} ELSE searching

lowered(k) == searching \ {Flag(task[k].step)}

\* The transaction is not found in time, or fails a check: the flag is
\* lowered and the client may retry.
endSearch(k) ==
    /\ task[k].pc = "search"
    /\ Finish(k)
    /\ searching' = lowered(k)
    /\ UNCHANGED <<now, neg, inMap, status, time, addr, addrsSent, swap, conf,
                   redeemTime, ack, sender, failing, redeemAck, db, dbFailed,
                   crashes, histVars>>

-----------------------------------------------------------------------------
(* processInit, from a contract that pays the counterparty's address.      *)

checkContract(k) ==
    LET s == actor(task[k].step)
    IN  /\ task[k].pc = "search" /\ kind(task[k].step) = "init"
        /\ Other(s) \in addr
        /\ s = "taker" => "maker" \in swap
        /\ IF LockTime(s) < now
           THEN /\ Goto(k, "expired")
                /\ searching' = lowered(k)
           ELSE /\ Goto(k, "save")
                /\ UNCHANGED searching
        /\ UNCHANGED <<now, neg, inMap, status, time, addr, addrsSent, swap, conf,
                       redeemTime, ack, sender, failing, redeemAck, db, dbFailed,
                       crashes, histVars>>

\* Mutant of accounted: the maker's redeem is forgotten.
accountedNever(s) == FALSE

\* failMatch: "Accounting for the maker has already taken place if they
\* have redeemed."
accounted(s) == s = "maker" /\ status = MakerRedeemed

swapDoneFailed == [s \in Sides |-> IF accounted(s) THEN done[s] ELSE Incr(done[s])]

\* The contract's lock time has passed: fail without fault, then delete,
\* both under matchMtx.  failMatch refuses a complete match.
revokeExpired(k) ==
    /\ task[k].pc = "expired"
    /\ Finish(k)
    /\ inMap' = FALSE
    /\ IF inMap /\ status # MatchComplete
       THEN /\ done' = swapDoneFailed
            /\ \/ Stored /\ db' = [db EXCEPT !.active = FALSE, !.forgiven = TRUE]
               \/ StoreFails({"revoke"})
       ELSE UNCHANGED <<done, db, dbFailed, lost>>
    /\ UNCHANGED <<now, neg, status, time, addr, addrsSent, swap, conf, redeemTime,
                   searching, ack, sender, failing, redeemAck, crashes,
                   credited, faults, faulted, bothAt>>

\* SaveContractA/B sets the row's status, whatever it is.  On an error the
\* waiter tries again, its flag still raised.
SaveContract(k) ==
    /\ task[k].pc = "save"
    /\ \/ /\ Stored
          /\ db' = [db EXCEPT !.status = nextStep(task[k].step),
                              !.swap = @ \cup {actor(task[k].step)}]
          /\ Goto(k, "update")
       \/ /\ StoreFails({})
          /\ Goto(k, "search")
    /\ UNCHANGED <<now, neg, inMap, status, time, addr, addrsSent, swap, conf,
                   redeemTime, searching, ack, sender, failing, redeemAck,
                   crashes, done, credited, faults, faulted, bothAt>>

\* Under matchMtx: only a match that is still tracked advances.
updateInit(k) ==
    /\ task[k].pc = "update"
    /\ IF inMap
       THEN /\ swap' = swap \cup {actor(task[k].step)}
            /\ status' = nextStep(task[k].step)
       ELSE UNCHANGED <<swap, status>>
    /\ searching' = lowered(k)
    /\ Finish(k)
    /\ UNCHANGED <<now, neg, inMap, time, addr, addrsSent, conf, redeemTime, ack,
                   sender, failing, redeemAck, db, dbFailed, crashes, histVars>>

-----------------------------------------------------------------------------
(* processRedeem: memory first, then the database, then the accounting.    *)

updateRedeem(k) ==
    LET s == actor(task[k].step)
    IN  /\ task[k].pc = "search" /\ kind(task[k].step) = "redeem" /\ Room
        /\ IF inMap
           THEN /\ redeemTime' = [redeemTime EXCEPT ![s] = now]
                /\ status' = nextStep(task[k].step)
                /\ Goto(k, "saveRedeem")
           ELSE /\ UNCHANGED <<redeemTime, status>>
                /\ Finish(k)
        /\ searching' = lowered(k)
        /\ UNCHANGED <<now, neg, inMap, time, addr, addrsSent, swap, conf, ack, sender,
                       failing, redeemAck, db, dbFailed, crashes, histVars>>

\* SaveRedeemA/B; the taker's also makes the row inactive.  An error is
\* logged only.
SaveRedeem(k) ==
    LET s == actor(task[k].step)
    IN  /\ task[k].pc = "saveRedeem"
        /\ \/ /\ Stored
              /\ db' = [db EXCEPT !.status = nextStep(task[k].step),
                                  !.redeem[s] = redeemTime[s],
                                  !.active = @ /\ s = "maker"]
           \/ StoreFails({"redeem"})
        /\ Goto(k, "credit")
        /\ UNCHANGED <<now, neg, inMap, status, time, addr, addrsSent, swap, conf,
                       redeemTime, searching, ack, sender, failing, redeemAck,
                       crashes, done, credited, faults, faulted, bothAt>>

\* SwapSuccess, swapDone and the redemption request to the counterparty.
creditRedeem(k) ==
    LET s == actor(task[k].step)
    IN  /\ task[k].pc = "credit"
        /\ Finish(k)
        /\ credited' = credited \cup {s}
        /\ done' = [done EXCEPT ![s] = Incr(@)]
        /\ redeemAck' = (redeemAck \/ s = "taker")
        /\ UNCHANGED <<now, neg, inMap, status, time, addr, addrsSent, swap, conf,
                       redeemTime, searching, ack, sender, failing, db, dbFailed,
                       crashes, faults, faulted, lost, bothAt>>

\* processAck of the maker's redemption ack: stop tracking the match.
processRedeemAck ==
    /\ redeemAck
    /\ redeemAck' = FALSE
    /\ inMap' = FALSE
    /\ UNCHANGED <<now, neg, status, time, addr, addrsSent, swap, conf, redeemTime,
                   searching, task, ack, sender, failing, db, dbFailed, crashes,
                   histVars>>

-----------------------------------------------------------------------------
(* The main loop of Run.  It handles one event at a time: while failMatch  *)
(* runs, no block and no check is processed.                               *)

MainLoop == failing = NotFailing /\ ~dbFailed

\* processBlock: the last actor's swap has reached SwapConf.
processBlock ==
    /\ MainLoop /\ inMap
    /\ LET s == IF status = MakerSwapCast THEN "maker" ELSE "taker"
       IN  /\ status \in {MakerSwapCast, TakerSwapCast}
           /\ s \in swap /\ conf[s] = Never
           /\ conf' = [conf EXCEPT ![s] = now]
    /\ UNCHANGED <<now, neg, inMap, status, time, addr, addrsSent, swap, redeemTime,
                   searching, task, ack, sender, failing, redeemAck, db, dbFailed,
                   crashes, histVars>>

\* A check deletes the match and leaves it to failMatch.
\* Mutant: the match is failed but not deleted.
deleteAndFailKept(fault, noAddr) ==
    /\ inMap' = inMap
    /\ failing' = [pc |-> "store", fault |-> fault, noAddr |-> noAddr]

deleteAndFail(fault, noAddr) ==
    /\ inMap' = FALSE
    /\ failing' = [pc |-> "store", fault |-> fault, noAddr |-> noAddr]

\* Mutant of completedDue: only the maker's ack removes a complete match.
completedDueNever == FALSE

completedDue == status = MatchComplete /\ tooOld(redeemTime["taker"])

checkInactionEventBased ==
    /\ MainLoop /\ inMap
    /\ \/ /\ status = NewlyMatched /\ tooOld(time)
          /\ deleteAndFail(TRUE, "taker" \notin addr)
       \/ /\ status = MakerSwapCast
          /\ LockTimeTaker < now \/ expiredBy(now)
          /\ deleteAndFail(FALSE, FALSE)
       \/ /\ status = TakerSwapCast /\ expiredBy(now)
          /\ deleteAndFail(FALSE, FALSE)
       \/ /\ status = MakerRedeemed /\ tooOld(redeemTime["maker"])
          /\ deleteAndFail(TRUE, FALSE)
       \/ /\ completedDue
          /\ inMap' = FALSE /\ UNCHANGED failing
    /\ UNCHANGED <<now, neg, status, time, addr, addrsSent, swap, conf, redeemTime,
                   searching, task, ack, sender, redeemAck, db, dbFailed, crashes,
                   histVars>>

checkInactionBlockBased ==
    /\ MainLoop /\ inMap
    /\ \/ status = MakerSwapCast /\ tooOldSet(conf["maker"])
       \/ status = TakerSwapCast /\ tooOldSet(conf["taker"])
    /\ deleteAndFail(~expiredBy(now), FALSE)
    /\ UNCHANGED <<now, neg, status, time, addr, addrsSent, swap, conf, redeemTime,
                   searching, task, ack, sender, redeemAck, db, dbFailed, crashes,
                   histVars>>

\* failMatch: who is at fault, by the status at which the match stopped.
\*
\* Mutant of AtFault: the maker is blamed when the taker does not redeem.
AtFaultMaker == IF failing.noAddr \/ status = MakerSwapCast THEN "taker" ELSE "maker"

AtFault == IF failing.noAddr \/ status \in {MakerSwapCast, MakerRedeemed}
           THEN "taker" ELSE "maker"

\* failMatch, SetMatchInactive; its error is not looked at.
SetMatchInactive ==
    /\ failing.pc = "store"
    /\ failing' = [failing EXCEPT !.pc = "account"]
    /\ \/ /\ Stored
          /\ db' = [db EXCEPT !.active = FALSE, !.forgiven = @ \/ ~failing.fault]
       \/ StoreFails({"revoke"})
    /\ UNCHANGED <<now, neg, inMap, status, time, addr, addrsSent, swap, conf,
                   redeemTime, searching, task, ack, sender, redeemAck, crashes,
                   done, credited, faults, faulted, bothAt>>

\* failMatch, the rest: swapDone for both orders (the maker of a redeemed
\* swap has had theirs), then Inaction.
accountFailure ==
    /\ failing.pc = "account"
    /\ failing' = NotFailing
    /\ done' = swapDoneFailed
    /\ IF failing.fault
       THEN faults' = Incr(faults) /\ faulted' = AtFault
       ELSE UNCHANGED <<faults, faulted>>
    /\ UNCHANGED <<now, neg, inMap, status, time, addr, addrsSent, swap, conf,
                   redeemTime, searching, task, ack, sender, redeemAck, db,
                   dbFailed, crashes, credited, lost, bothAt>>

-----------------------------------------------------------------------------
(* The server stops, in an orderly way or not, and starts again:           *)
(* restoreActiveSwaps.  The coin waiters are abandoned and the match       *)
(* request is not sent again.  A swap that has its confirmations counts as *)
(* confirmed now, unless the chain cannot be asked.                        *)

\* Mutant of ActiveSwaps: inactive matches are loaded as well.
ActiveSwapsAll == neg # "new"

ActiveSwaps == db.active
NoAddresses == db.addr = {} /\ db.status \in {NewlyMatched, MakerSwapCast}

Restart ==
    /\ crashes < MaxCrashes /\ crashes' = crashes + 1 /\ dbFailed' = FALSE
    /\ neg' = IF neg = "new" THEN "new" ELSE "done"
    /\ IF ActiveSwaps /\ NoAddresses
       THEN inMap' = FALSE /\ db' = [db EXCEPT !.active = FALSE, !.forgiven = TRUE]
       ELSE /\ \E loaded \in {ActiveSwaps, FALSE} : inMap' = loaded
            /\ UNCHANGED db
    /\ status' = db.status
    /\ time' = RestoreGrace
    /\ addr' = db.addr
    /\ addrsSent' = (db.addr = Sides)
    /\ swap' = db.swap
    /\ \E S \in SUBSET db.swap : conf' = [s \in Sides |-> IF s \in S THEN now ELSE Never]
    /\ redeemTime' = db.redeem
    /\ searching' = {} /\ task' = [k \in Slots |-> Idle]
    /\ ack' = [s \in Sides |-> "none"] /\ sender' = {}
    /\ failing' = NotFailing /\ redeemAck' = FALSE
    /\ done' = [s \in Sides |-> IF ActiveSwaps /\ NoAddresses THEN 1 ELSE 0]
    /\ UNCHANGED <<now, credited, faults, faulted, lost, bothAt>>

-----------------------------------------------------------------------------
Handler(k) == \/ startSearch(k) \/ endSearch(k) \/ checkContract(k)
              \/ revokeExpired(k) \/ SaveContract(k) \/ updateInit(k)
              \/ updateRedeem(k) \/ SaveRedeem(k) \/ creditRedeem(k)
Checks == checkInactionEventBased \/ checkInactionBlockBased
failMatch == SetMatchInactive \/ accountFailure

Next ==
    \/ Tick \/ InsertMatch \/ addMatch
    \/ \E s \in Sides : MatchAck(s) \/ SaveMatchAck(s) \/ sendCounterPartyAddresses(s)
    \/ \E k \in Slots : handleStep(k) \/ Handler(k)
    \/ processRedeemAck \/ processBlock
    \/ Checks \/ failMatch
    \/ Restart

Spec == Init /\ [][Next]_vars

\* The main loop, the coin waiters and the handlers are goroutines that keep
\* running; the clock advances; a coin waiter that keeps trying expires
\* (wait.Waiter.Expiration).  Nothing is assumed of the clients, of new
\* blocks or of restarts.
Fairness ==
    /\ WF_vars(Tick) /\ WF_vars(addMatch)
    /\ \A k \in Slots : WF_vars(Handler(k)) /\ SF_vars(endSearch(k))
    /\ WF_vars(Checks) /\ WF_vars(failMatch)

FairSpec == Spec /\ Fairness

-----------------------------------------------------------------------------
(* Properties. *)

Tasks == [pc : PCs, step : 0..3]
Failing == [pc : {"none", "store", "account"}, fault : BOOLEAN, noAddr : BOOLEAN]
Row == [active : BOOLEAN, status : Status, forgiven : BOOLEAN,
        addr : SUBSET Sides, swap : SUBSET Sides, redeem : [Sides -> Times]]

TypeOK ==
    /\ now \in Clock
    /\ neg \in {"new", "inserted", "done"}
    /\ inMap \in BOOLEAN /\ status \in Status /\ time \in Clock
    /\ addr \subseteq Sides /\ addrsSent \in BOOLEAN
    /\ swap \subseteq Sides /\ conf \in [Sides -> Times]
    /\ redeemTime \in [Sides -> Times]
    /\ searching \subseteq Sides \X Kinds
    /\ task \in [Slots -> Tasks]
    /\ ack \in [Sides -> {"none", "asked", "acked", "stored", "sent"}]
    /\ sender \subseteq Sides
    /\ failing \in Failing
    /\ redeemAck \in BOOLEAN
    /\ db \in Row
    /\ dbFailed \in BOOLEAN /\ crashes \in 0..MaxCrashes
    /\ done \in [Sides -> 0..2] /\ credited \subseteq Sides
    /\ faults \in 0..2 /\ faulted \in Sides \cup {"none"}
    /\ bothAt \in Times
    /\ lost \subseteq {"redeem", "revoke"}

\* A match costs at most one user one penalty, whatever requests race with
\* the inaction checks and wherever the server is stopped and restarted: a
\* match is deleted before it is failed, and its row is inactive before
\* Inaction is called (failMatch).  The one exception is a SetMatchInactive
\* whose error failMatch does not look at.
AtMostOneFault == faults > 1 => "revoke" \in lost

\* The inductive form of AtMostOneFault: a match being failed is no longer
\* tracked, it is penalised only when its row is inactive, and a penalised
\* match is neither tracked, nor being failed, nor loaded by a restart.
PenaltyInv ==
    /\ AtMostOneFault
    /\ failing.pc # "none" => ~inMap
    /\ failing.pc = "account" => ~db.active \/ "revoke" \in lost
    /\ faults > 0 => \/ "revoke" \in lost
                     \/ ~db.active /\ ~inMap /\ failing.pc = "none"
    /\ neg # "done" => ~inMap /\ failing.pc = "none" /\ faults = 0
    /\ neg = "new" => ~db.active

\* A match the Swapper is negotiating would survive a restart: its row is
\* active, except after the taker's redeem has been saved (SaveRedeemB) or
\* a revocation was lost.
TrackedIsRestorable ==
    inMap /\ ~db.active => db.redeem["taker"] # Never \/ "revoke" \in lost

\* "Ensure we only start one coin waiter for this swap" (handleInit,
\* handleRedeem): no two requests search for the same side's transaction,
\* and a flag is raised exactly while one does.
Searching(k) == task[k].pc \in {"search", "save", "update"}

OneSearchPerAction ==
    /\ \A k, j \in Slots : k # j /\ Searching(k) /\ Searching(j)
                             => Flag(task[k].step) # Flag(task[j].step)
    /\ searching = {Flag(task[k].step) : k \in {j \in Slots : Searching(j)}}

\* The negotiation of a match implements Settlement when requests do not
\* overlap: the four actions in order, one penalty at most, and to a party
\* whose turn it was, across restarts and up to the first revocation or redeem
\* that the database loses.
Settled == INSTANCE Settlement WITH
    phase <- IF neg # "done" THEN "before" ELSE IF inMap THEN "open" ELSE "closed",
    turn <- status,
    penalised <- faulted,
    restarts <- crashes

ImplementsSettlement ==
    /\ Settled!SettleInit
    /\ [][lost' = {} => Settled!SettleNext \/ UNCHANGED Settled!settleVars]_vars

\* "Contract now recorded and will be used to reject backward progress"
\* (processInit, processRedeem): no user is failed for an action the server
\* has accepted from them.
NoFaultAfterAcceptance ==
    failing.pc # "none" /\ failing.fault /\ ~failing.noAddr =>
        /\ status = NewlyMatched  => "maker" \notin swap
        /\ status = MakerSwapCast => "taker" \notin swap
        /\ status = TakerSwapCast => redeemTime["maker"] = Never
        /\ status = MakerRedeemed => redeemTime["taker"] = Never

\* A user credited with SwapSuccess for the match is not the one penalised
\* for it, across restarts, unless the redeem they were credited for was
\* lost by the database ("Neither party's fault. Continue."), or the
\* revocation was.
CreditXorFault ==
    faulted \in credited => lost \cap {"redeem", "revoke"} # {}

\* The market hears of each order's part in the match once per server run,
\* so Market.settling is reduced once: never twice, and not zero times
\* when the match has gone without a restart.
SettledOnce ==
    /\ \A s \in Sides : done[s] <= 1
    /\ (/\ neg = "done" /\ crashes = 0 /\ ~inMap /\ failing = NotFailing
        /\ \A k \in Slots : task[k].pc = "idle") => \A s \in Sides : done[s] = 1

\* "Reset the match timer so the maker gets a full bTimeout from when both
\* addresses are available" (processMatchAcks): the maker is not failed for
\* a missing swap before that.
MakerGetsFullTimeout ==
    failing.pc # "none" /\ failing.fault /\ ~failing.noAddr
        /\ status = NewlyMatched /\ bothAt # Never
    => now - bothAt >= BTimeout

\* "Counterparty address notifications are deferred until after persistence
\* so that a crash between notification send and DB write doesn't leave the
\* client acting on an address the server lost" (processMatchAcks): when an
\* ack comes to send them, both addresses are stored.
NotifiedArePersisted == (\E s \in Sides : ack[s] = "stored") => db.addr = Sides

\* CompletedOrAtFaultMatchesLastN and UserMatchFails read from an inactive,
\* unforgiven row who was at fault ("failed because of this user's
\* inaction"): it is the user whom Inaction penalised.
RowFault == IF db.status \in {NewlyMatched, TakerSwapCast} THEN "maker" ELSE "taker"

RowBlamesFaulted ==
    faults = 1 /\ ~db.active /\ ~db.forgiven /\ db.status # MatchComplete
    => RowFault = faulted

\* Every match the Swapper tracks is eventually removed from its maps,
\* however the two clients behave, unless the storage backend failed.
Resolved == inMap ~> (~inMap \/ dbFailed)

\* startSwapSearch and startRedeemSearch "must ultimately be followed by"
\* endSwapSearch and endRedeemSearch: no raised flag shuts a side out for
\* ever, whether the transaction is found, refused, expired or never stored.
Shut(s) == \E t \in Kinds : <<s, t>> \in searching

SearchEnds == \A s \in Sides : Shut(s) ~> ~Shut(s)

=============================================================================
