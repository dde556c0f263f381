------------------------------- MODULE Market -------------------------------
(***************************************************************************)
(* server/market/market.go: the life of a Market.  Run cycles epochs of a  *)
(* fixed duration, puts incoming orders into the epoch of their stamp, and *)
(* hands closed epochs to the epoch pump; the operator schedules suspends  *)
(* and resumes; a stop is a sequence of steps that other goroutines see    *)
(* half done.  Concurrent here: the main loop, clients (SubmitOrderAsync), *)
(* the operator's API calls, the pump and its consumer, preimage           *)
(* collection, and the server's context.                                   *)
(*                                                                         *)
(* Time is an integer; an epoch lasts Dur units, so that a stamp can be on *)
(* and off an epoch boundary.  What an order asks for is left out: how an  *)
(* epoch's matching ends for it is a choice (see BookFeed and Matcher).   *)
(***************************************************************************)
EXTENDS EpochPump

CONSTANTS MarketOrders,       \* orders that clients may submit
          Dur,          \* EpochDuration, in units of time
          MaxTime,      \* bound: the last instant of a behaviour
          MaxSuspends,  \* bound: suspend requests of the operator
          MaxResumes,   \* bound: resumes of the operator
          Failures      \* whether the storage may fail for good

ASSUME MarketAssumption ==
    /\ Dur \in Nat \ {0} /\ MaxTime \in Nat /\ Dur <= MaxTime /\ MaxSuspends \in Nat
    /\ MaxResumes \in Nat /\ Failures \in BOOLEAN

ASSUME EpochsCoverTime == \A e \in 1..MaxTime : e * Dur <= MaxTime => e \in Epochs

VARIABLES now,
          startEpochIdx, activeEpochIdx, suspendEpochIdx, persistBook,
          pc,         \* where Run is: see Run's steps below
          running,    \* the running channel is closed: orders may be sent
          ctxDone,    \* ctxRun is cancelled
          current,    \* currentEpoch, 0 for nil
          nextEpoch,
          router,     \* orders on the orderRouter channel
          where,      \* what became of every order
          epochOf,    \* the epoch an order was put into, 0 for none
          busy,       \* the epoch in processReadyEpoch, or <<>>
          book,       \* booked orders
          request,    \* apiSuspend past its Running check, or <<>>
          promised,   \* final epoch announced in this run, or None, or Late
          suspends, resumes,  \* spent so far
          shutdown,   \* the server's own context is cancelled
          lastErr     \* storage.LastErr() is not nil

None == -1   \* no suspend was announced in this run
Late == -2   \* one was, to a run that was stopping or stopped for another cause

lifeVars == <<startEpochIdx, activeEpochIdx, suspendEpochIdx, persistBook>>
loopVars == <<pc, running, ctxDone, current, nextEpoch>>
orderVars == <<router, where, epochOf, busy, book>>
adminVars == <<request, promised, suspends, resumes, shutdown, lastErr>>
vars == <<now, lifeVars, loopVars, orderVars, adminVars, pumpVars>>

Init ==
    /\ PumpInit
    /\ now = Dur
    /\ startEpochIdx = 2 /\ activeEpochIdx = 0
    /\ suspendEpochIdx = 0 /\ persistBook = TRUE
    /\ pc = "top" /\ running = FALSE /\ ctxDone = FALSE
    /\ current = 0 /\ nextEpoch = 2
    /\ router = <<>> /\ busy = <<>> /\ book = {}
    /\ where = [o \in MarketOrders |-> "new"] /\ epochOf = [o \in MarketOrders |-> 0]
    /\ request = <<>> /\ promised = None
    /\ suspends = 0 /\ resumes = 0 /\ shutdown = FALSE /\ lastErr = FALSE

IncludesTime(e, t) == e * Dur <= t /\ t < (e + 1) * Dur
epochEnd(e) == (e + 1) * Dur
Max2(a, b) == IF a > b THEN a ELSE b

-----------------------------------------------------------------------------
(* Clients and the main loop.  pc = "top" is the head of the loop, before  *)
(* the checks; "select" is the wait for the next signal.                   *)

\* SubmitOrderAsync of a trade order, under runMtx.
SubmitOrderAsync(o) ==
    /\ where[o] = "new"
    /\ IF running
       THEN router' = Append(router, o) /\ where' = [where EXCEPT ![o] = "sent"]
       ELSE where' = [where EXCEPT ![o] = "refused"] /\ UNCHANGED router
    /\ UNCHANGED <<now, lifeVars, loopVars, epochOf, busy, book, adminVars, pumpVars>>

\* The orders of a closed epoch leave epochOrders (enqueueEpoch).
Closed(e) == [o \in MarketOrders |-> IF where[o] = "epoch" /\ epochOf[o] = e
                               THEN "closed" ELSE where[o]]

\* Mutant of Suspends: a schedule is met only by a later epoch.
SuspendsLate == suspendEpochIdx = nextEpoch

\* cycleEpoch: the epoch just closed is the one to suspend after.
Suspends == suspendEpochIdx = nextEpoch - 1

\* cycleEpoch; after a halt the pump takes no epoch and nothing else happens.
cycleEpoch(then) ==
    /\ IF current = 0 THEN UNCHANGED <<where, pumpVars>>
       ELSE IF halt THEN UNCHANGED <<where, pumpVars>>
       ELSE Insert(current) /\ where' = Closed(current)
    /\ IF current # 0 /\ halt THEN pc' = then /\ UNCHANGED <<lifeVars, running, ctxDone, current, nextEpoch>>
       ELSE IF Suspends
       THEN /\ current' = 0 /\ ctxDone' = TRUE /\ pc' = then
            /\ UNCHANGED <<lifeVars, running, nextEpoch>>
       ELSE /\ current' = nextEpoch /\ nextEpoch' = nextEpoch + 1
            /\ activeEpochIdx' = nextEpoch
            /\ pc' = then
            /\ UNCHANGED running \/ running' = TRUE \* chains not synced, or open
            /\ UNCHANGED <<startEpochIdx, suspendEpochIdx, persistBook, ctxDone>>
    /\ UNCHANGED <<now, router, epochOf, busy, book, adminVars>>

Looping == pc \in {"top", "topped", "select"}

Due == now >= nextEpoch * Dur

Goto(stage) == pc' = stage /\ UNCHANGED <<running, ctxDone, current, nextEpoch>>

\* The checks at the head of the loop: context and storage, then the epoch
\* timer before any order, then the context again.
TopStops ==
    /\ pc = "top" /\ (ctxDone \/ lastErr)
    /\ Goto("stopping")
    /\ UNCHANGED <<now, lifeVars, orderVars, adminVars, pumpVars>>

TopCycles == pc = "top" /\ ~ctxDone /\ ~lastErr /\ Due /\ cycleEpoch("topped")

TopIdle ==
    /\ pc = "topped" \/ (pc = "top" /\ ~ctxDone /\ ~lastErr /\ ~Due)
    /\ Goto(IF ctxDone THEN "stopping" ELSE "select")
    /\ UNCHANGED <<now, lifeVars, orderVars, adminVars, pumpVars>>

SelectDone ==
    /\ pc = "select" /\ ctxDone
    /\ Goto("stopping")
    /\ UNCHANGED <<now, lifeVars, orderVars, adminVars, pumpVars>>

SelectCycles == pc = "select" /\ Due /\ cycleEpoch("top")

\* An order is stamped and put into the current or the next epoch, or refused
\* (no epoch, a late stamp, or any of processOrder's checks).
SelectOrder ==
    /\ pc = "select" /\ router # <<>>
    /\ router' = Tail(router)
    /\ Goto("top")
    /\ \/ /\ where' = [where EXCEPT ![Head(router)] = "refused"]
          /\ UNCHANGED epochOf
       \/ \E e \in {current, nextEpoch} :
            /\ current # 0 /\ IncludesTime(e, now)
            /\ where' = [where EXCEPT ![Head(router)] = "epoch"]
            /\ epochOf' = [epochOf EXCEPT ![Head(router)] = e]
    /\ UNCHANGED <<now, lifeVars, busy, book, adminVars, pumpVars>>

\* NewEpochOrder fails, for good or for this order: it is refused, Run returns.
SelectFails ==
    /\ Failures /\ pc = "select" /\ router # <<>> /\ current # 0
    /\ router' = Tail(router)
    /\ where' = [where EXCEPT ![Head(router)] = "refused"]
    /\ lastErr' \in {lastErr, TRUE} /\ Goto("stopping")
    /\ UNCHANGED <<now, lifeVars, epochOf, busy, book,
                   request, promised, suspends, resumes, shutdown, pumpVars>>

-----------------------------------------------------------------------------
(* Preimage collection, the pump, and its consumer.                        *)

MarketVars == <<now, lifeVars, loopVars, router, where, epochOf, book, adminVars>>

prepEpoch(e) == e \in Enqueued /\ Collect(e) /\ UNCHANGED <<MarketVars, busy>>

PumpStep ==
    /\ (ctxDone /\ Halt) \/ HaltToken \/ next \/ Deliver
    /\ UNCHANGED <<MarketVars, busy>>

\* The consumer's loop: for ep := range eq.ready.
TakeEpoch ==
    /\ busy = <<>>
    /\ \/ Receive /\ busy' = ready
       \/ Drained /\ UNCHANGED busy
    /\ UNCHANGED MarketVars

InEpoch(e) == {o \in MarketOrders : where[o] = "closed" /\ epochOf[o] = e}

\* processReadyEpoch: some orders of the epoch are booked, the others done;
\* some booked orders are filled or cancelled.  Nothing on a failing storage.
processReadyEpoch ==
    /\ busy # <<>> /\ busy' = <<>>
    /\ IF lastErr THEN UNCHANGED <<where, book>>
       ELSE \E bk \in SUBSET InEpoch(busy[1]), off \in SUBSET book :
              /\ book' = (book \ off) \cup bk
              /\ where' = [o \in MarketOrders |-> IF o \in bk THEN "booked"
                                            ELSE IF o \in InEpoch(busy[1]) \cup off THEN "done"
                                            ELSE where[o]]
    /\ UNCHANGED <<now, lifeVars, loopVars, router, epochOf, adminVars, pumpVars>>

\* A cancel order that found the market stopped takes its target off the book
\* at once, in a goroutine that may outlast the stop.
processCancelOrderWhileSuspended(o) ==
    /\ ~running \/ resumes > 0
    /\ o \in book
    /\ book' = book \ {o}
    /\ where' = [where EXCEPT ![o] = "done"]
    /\ UNCHANGED <<now, lifeVars, loopVars, router, epochOf, busy, adminVars, pumpVars>>

-----------------------------------------------------------------------------
(* The deferred shutdown of Run.                                           *)

\* Its drain goroutine answers what is still on the orderRouter channel.
DrainRouter ==
    /\ pc \in {"stopping", "flagged", "feeds"} /\ router # <<>>
    /\ where' = [where EXCEPT ![Head(router)] = "refused"]
    /\ router' = Tail(router)
    /\ UNCHANGED <<now, lifeVars, loopVars, epochOf, busy, book, adminVars, pumpVars>>

\* Under runMtx: a new running channel, the orderRouter closed; then cancel().
FlagStopped ==
    /\ pc = "stopping"
    /\ pc' = "flagged" /\ running' = FALSE /\ ctxDone' = TRUE
    /\ UNCHANGED <<now, lifeVars, current, nextEpoch, orderVars, adminVars, pumpVars>>

\* Mutant of SignalSuspend: wgEpochs.Wait is left out.
SignalSuspendEarly ==
    /\ pc = "flagged"
    /\ Goto("feeds")
    /\ book' = IF persistBook THEN book ELSE {}
    /\ where' = [o \in MarketOrders |-> IF where[o] = "epoch" THEN "dropped"
                                  ELSE IF where[o] = "booked" /\ ~persistBook THEN "purged"
                                  ELSE where[o]]
    /\ persistBook' = TRUE /\ activeEpochIdx' = 0
    /\ UNCHANGED <<now, startEpochIdx, suspendEpochIdx, router, epochOf, busy, adminVars, pumpVars>>

\* wgEpochs.Wait, then under epochMtx: the suspend signal, the purge, and the
\* end of every order still in epochOrders (which stays in that map).
SignalSuspend ==
    /\ pc = "flagged" /\ drained
    /\ Goto("feeds")
    /\ book' = IF persistBook THEN book ELSE {}
    /\ where' = [o \in MarketOrders |-> IF where[o] = "epoch" THEN "dropped"
                                  ELSE IF where[o] = "booked" /\ ~persistBook THEN "purged"
                                  ELSE where[o]]
    /\ persistBook' = TRUE /\ activeEpochIdx' = 0
    /\ UNCHANGED <<now, startEpochIdx, suspendEpochIdx, router, epochOf, busy, adminVars, pumpVars>>

\* wgFeeds.Wait: the drain and the feed goroutine are done; Run returns and
\* the StartStopWaiter is off.
RunReturns ==
    /\ pc = "feeds" /\ router = <<>>
    /\ Goto("down")
    /\ UNCHANGED <<now, lifeVars, orderVars, adminVars, pumpVars>>

-----------------------------------------------------------------------------
(* The operator and the environment.                                       *)

\* The last epoch a suspend "as soon as t" allows, t = 0 being the zero time:
\* the active epoch (before the first, the one before it) or the epoch of t,
\* a t on a boundary belonging to the epoch that ends there.
finalEpochIdx(t) ==
    LET soonest == IF activeEpochIdx = 0 THEN startEpochIdx - 1 ELSE activeEpochIdx
    IN  IF t < epochEnd(soonest) THEN soonest
        ELSE IF t % Dur = 0 THEN t \div Dur - 1 ELSE t \div Dur

\* apiSuspend up to its check of Running; t is the zero time or not past.
apiSuspend(t, persist) ==
    /\ suspends < MaxSuspends /\ request = <<>> /\ running
    /\ t = 0 \/ now <= t
    /\ request' = <<[t |-> t, persist |-> persist]>>
    /\ suspends' = suspends + 1
    /\ UNCHANGED <<now, lifeVars, loopVars, orderVars,
                   promised, resumes, shutdown, lastErr, pumpVars>>

\* Mutant of SuspendMarket: a time before the active epoch's end is not moved
\* up to that epoch.
SuspendMarketPast ==
    /\ request # <<>> /\ request' = <<>>
    /\ IF pc = "down" \/ shutdown THEN UNCHANGED <<lifeVars, promised>>
       ELSE /\ suspendEpochIdx' = request[1].t \div Dur
            /\ promised' = IF Looping THEN request[1].t \div Dur ELSE Late
            /\ persistBook' = request[1].persist
            /\ UNCHANGED <<startEpochIdx, activeEpochIdx>>
    /\ UNCHANGED <<now, loopVars, orderVars, suspends, resumes, shutdown, lastErr, pumpVars>>

\* The rest of the request: refused if the subsystem is off, else
\* Market.Suspend under epochMtx, whose final epoch is announced to everyone.
SuspendMarket ==
    /\ request # <<>> /\ request' = <<>>
    /\ IF pc = "down" \/ shutdown THEN UNCHANGED <<lifeVars, promised>>
       ELSE /\ suspendEpochIdx' = finalEpochIdx(request[1].t)
            /\ promised' = IF Looping THEN finalEpochIdx(request[1].t) ELSE Late
            /\ persistBook' = request[1].persist
            /\ UNCHANGED <<startEpochIdx, activeEpochIdx>>
    /\ UNCHANGED <<now, loopVars, orderVars, suspends, resumes, shutdown, lastErr, pumpVars>>

ResumeEpoch(t) == Max2(1 + t \div Dur, 1 + now \div Dur)

\* ResumeMarket of a stopped market; Run starts from the new start epoch.
ResumeMarket(t) ==
    /\ resumes < MaxResumes /\ ~running /\ pc = "down" /\ ~shutdown
    /\ t = 0 \/ now <= t
    /\ startEpochIdx' = ResumeEpoch(t)
    /\ nextEpoch' = ResumeEpoch(t) /\ current' = 0
    /\ pc' = "top" /\ ctxDone' = FALSE
    /\ newEpochPump
    /\ promised' = IF promised = Late \/ (promised >= 0 /\ current # 0) THEN Late ELSE None
    /\ resumes' = resumes + 1
    /\ UNCHANGED <<now, activeEpochIdx, suspendEpochIdx, persistBook, running, orderVars,
                   request, suspends, shutdown, lastErr>>

\* The server shuts down: the context of Run is cancelled from outside.
Shutdown ==
    /\ pc # "down" /\ ~shutdown
    /\ shutdown' = TRUE /\ ctxDone' = TRUE
    /\ UNCHANGED <<now, lifeVars, pc, running, current, nextEpoch, orderVars,
                   request, promised, suspends, resumes, lastErr, pumpVars>>

StorageFails ==
    /\ Failures /\ ~lastErr /\ lastErr' = TRUE
    /\ UNCHANGED <<now, lifeVars, loopVars, orderVars,
                   request, promised, suspends, resumes, shutdown, pumpVars>>

Tick ==
    /\ now < MaxTime /\ now' = now + 1
    /\ UNCHANGED <<lifeVars, loopVars, orderVars, adminVars, pumpVars>>

RunLoop == TopStops \/ TopCycles \/ TopIdle \/ SelectDone \/ SelectCycles \/ SelectOrder \/ SelectFails
Stopping == DrainRouter \/ FlagStopped \/ SignalSuspend \/ RunReturns

\* The server's own goroutines, and time.
System ==
    \/ RunLoop \/ Stopping \/ PumpStep \/ TakeEpoch \/ processReadyEpoch
    \/ \E e \in Epochs : prepEpoch(e)
    \/ SuspendMarket \/ Tick

Next ==
    \/ System
    \/ \E o \in MarketOrders : SubmitOrderAsync(o) \/ processCancelOrderWhileSuspended(o)
    \/ \E t \in 0..MaxTime, p \in BOOLEAN : apiSuspend(t, p)
    \/ \E t \in 0..MaxTime : ResumeMarket(t)
    \/ Shutdown \/ StorageFails

Spec == Init /\ [][Next]_vars

\* As long as some goroutine of the server can take a step, or time can pass,
\* some step is taken: the scheduler does not stop.  Which one is left open.
FairSpec == Spec /\ WF_vars(System)

-----------------------------------------------------------------------------
(* Properties.                                                             *)

\* A scheduled suspend is never overtaken: from the operator's request on,
\* as long as the main loop runs, the active epoch is not past the announced
\* final one, so that the equality test of cycleEpoch will meet it.
NeverPastFinalEpoch ==
    Looping /\ ~ctxDone /\ promised >= 0 => activeEpochIdx <= promised

\* The book is at rest while a market is stopped: once the shutdown has told
\* subscribers of the suspend and purged the book or kept it, no order is added
\* until the market runs again.
BookAtRestWhenSuspended == [][(pc \in {"feeds", "down"}) => (book' \subseteq book)]_vars

\* The orders a clean suspend drops are those stamped after the final epoch
\* ended, while the loop had not cycled yet: every order of the final epoch
\* or an earlier one goes through matching.  (current is nil when a stop was
\* a clean one.)
CleanStopDropsOnlyLateOrders ==
    [][\A o \in MarketOrders : current = 0 /\ where[o] # "dropped" /\ where'[o] = "dropped"
                           => epochOf[o] > suspendEpochIdx]_vars

SuspendPending == promised >= 0 /\ epochEnd(promised) <= MaxTime

\* A suspend that was announced takes place: the market comes to a stop (if
\* the final epoch ends within the bound on time).
SuspendIsKept == SuspendPending ~> pc = "down"

\* No order is left behind.  A client that sent an order to the loop gets an
\* answer, also when the market stops with the order on its channel; an order
\* of a closed epoch is matched, whatever happens to the market after the
\* close, unless the storage fails.
NoOrderLeftBehind ==
    \A o \in MarketOrders : /\ where[o] = "sent" ~> where[o] # "sent"
                      /\ where[o] = "closed" ~> where[o] # "closed" \/ lastErr

=============================================================================
