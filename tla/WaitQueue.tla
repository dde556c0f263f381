------------------------------ MODULE WaitQueue ------------------------------
(***************************************************************************)
(* The two queues of dex/wait/queue.go that retry a function until it      *)
(* succeeds or its time is up.  TickerQueue tries all its waiters in one   *)
(* goroutine on every tick, with the queue locked; the auth manager waits  *)
(* for bond confirmations with it, the order router for funding coins.     *)
(* TaperingTickerQueue gives every try a goroutine of its own, which sends *)
(* the waiter back to the loop through a buffered channel; the Swapper     *)
(* waits for swap transactions with it.                                    *)
(*                                                                         *)
(* Whether a try succeeds is up to the outside world.  The schedule of the *)
(* tries (ticks, tapering delays) is left out: a try may come at any time, *)
(* and comes.                                                              *)
(***************************************************************************)
EXTENDS Integers, FiniteSets

CONSTANTS Waiters,
          Expiration,  \* when the time of a waiter is up
          Cap,         \* capacity of the tapering queue's channel (16)
          LastTime      \* bound on time, past all expirations

ASSUME WaitAssumption == /\ Expiration \in [Waiters -> 0 .. LastTime - 1]
                         /\ Cap \in Nat \ {0}

VARIABLES
  kind,     \* which queue it is; never changes
  st,       \* where each waiter is
  ends,     \* how often each waiter was told of its end, by the DontTryAgain
            \* of its own TryFunc or by its ExpireFunc
  list,     \* TickerQueue.waiters
  pass,     \* runWaiters under way: waiters left, waiters to try again
  run,    \* Run: "running", "draining" (wg.Wait) or "returned"
  canceled,
  time

waitVars == <<kind, st, ends, list, pass, run, canceled, time>>

NoPass == [on |-> FALSE]

WaitInit ==
  /\ kind \in {"ticker", "tapering"}
  /\ st = [w \in Waiters |-> "new"]
  /\ ends = [w \in Waiters |-> 0]
  /\ list = {} /\ pass = NoPass
  /\ run = "running" /\ canceled = FALSE /\ time = 0

At(s) == {w \in Waiters : st[w] = s}
Goes(w, s) == st' = [st EXCEPT ![w] = s]
Ends(ws) == ends' = [w \in Waiters |-> IF w \in ws THEN ends[w] + 1 ELSE ends[w]]

\* Both queues refuse a waiter whose time is up, without a call.  The ticker
\* queue makes the first try in the caller's goroutine.
Wait(w) ==
  /\ st[w] = "new"
  /\ Goes(w, IF time > Expiration[w] THEN "refused"
             ELSE IF kind = "ticker" THEN "first" ELSE "sending")
  /\ UNCHANGED <<kind, ends, list, pass, run, canceled, time>>

-----------------------------------------------------------------------------
(* TickerQueue *)

FirstTry(w) ==
  /\ st[w] = "first"
  /\ \/ Goes(w, "done") /\ Ends({w})
     \/ Goes(w, "appending") /\ UNCHANGED ends
  /\ UNCHANGED <<kind, list, pass, run, canceled, time>>

\* waiterMtx is held during a pass.
Appends(w) ==
  /\ st[w] = "appending" /\ ~pass.on
  /\ list' = list \cup {w}
  /\ Goes(w, "listed")
  /\ UNCHANGED <<kind, ends, pass, run, canceled, time>>

PassStarts ==
  /\ kind = "ticker" /\ run = "running" /\ ~pass.on /\ list # {}
  /\ pass' = [on |-> TRUE, left |-> list, agains |-> {}, tNow |-> time]
  /\ UNCHANGED <<kind, st, ends, list, run, canceled, time>>

\* Mutant of PassTries: an expired waiter is kept for the next pass.
PassTriesKeeps(w) ==
  /\ pass.on /\ ~canceled /\ w \in pass.left
  /\ \/ /\ Goes(w, "done") /\ Ends({w})
        /\ pass' = [pass EXCEPT !.left = @ \ {w}]
     \/ /\ Expiration[w] < pass.tNow
        /\ Goes(w, "expired") /\ Ends({w})
        /\ pass' = [pass EXCEPT !.left = @ \ {w}, !.agains = @ \cup {w}]
     \/ /\ Expiration[w] >= pass.tNow
        /\ pass' = [pass EXCEPT !.left = @ \ {w}, !.agains = @ \cup {w}]
        /\ UNCHANGED <<st, ends>>
  /\ UNCHANGED <<kind, list, run, canceled, time>>

PassTries(w) ==
  /\ pass.on /\ ~canceled /\ w \in pass.left
  /\ \/ /\ Goes(w, "done") /\ Ends({w})
        /\ pass' = [pass EXCEPT !.left = @ \ {w}]
     \/ /\ Expiration[w] < pass.tNow
        /\ Goes(w, "expired") /\ Ends({w})
        /\ pass' = [pass EXCEPT !.left = @ \ {w}]
     \/ /\ Expiration[w] >= pass.tNow
        /\ pass' = [pass EXCEPT !.left = @ \ {w}, !.agains = @ \cup {w}]
        /\ UNCHANGED <<st, ends>>
  /\ UNCHANGED <<kind, list, run, canceled, time>>

PassEnds ==
  /\ pass.on /\ pass.left = {}
  /\ list' = pass.agains
  /\ pass' = NoPass
  /\ UNCHANGED <<kind, st, ends, run, canceled, time>>

\* The pass returns as soon as it sees the context done, and leaves the list
\* as it was, with the waiters that ended in this pass.
PassAborts ==
  /\ pass.on /\ canceled /\ pass.left # {}
  /\ pass' = NoPass
  /\ UNCHANGED <<kind, st, ends, list, run, canceled, time>>

\* The deferred function of Run.
TickerReturns ==
  /\ kind = "ticker" /\ run = "running" /\ canceled /\ ~pass.on
  /\ st' = [w \in Waiters |-> IF w \in list THEN "expired" ELSE st[w]]
  /\ Ends(list)
  /\ list' = {}
  /\ run' = "returned"
  /\ UNCHANGED <<kind, pass, canceled, time>>

-----------------------------------------------------------------------------
(* TaperingTickerQueue *)

\* A new waiter, or one sent back by the goroutine of its try.
Send(w) ==
  /\ st[w] \in {"sending", "resending"}
  /\ Cardinality(At("channel")) < Cap
  /\ Goes(w, "channel")
  /\ UNCHANGED <<kind, ends, list, pass, run, canceled, time>>

\* A waiter that is due is tried at once.
LoopReceives(w) ==
  /\ st[w] = "channel" /\ run = "running"
  /\ Goes(w, "trying") \/ Goes(w, "waiting")
  /\ UNCHANGED <<kind, ends, list, pass, run, canceled, time>>

NextTick(w) ==
  /\ st[w] = "waiting" /\ run = "running"
  /\ Goes(w, "trying")
  /\ UNCHANGED <<kind, ends, list, pass, run, canceled, time>>

\* Mutant of runWaiter: the expiration is not looked at.
runWaiterNoExpire(w) ==
  /\ st[w] = "trying"
  /\ \/ Goes(w, "done") /\ Ends({w})
     \/ Goes(w, "resending") /\ UNCHANGED ends
  /\ UNCHANGED <<kind, list, pass, run, canceled, time>>

runWaiter(w) ==
  /\ st[w] = "trying"
  /\ \/ Goes(w, "done") /\ Ends({w})
     \/ Expiration[w] < time /\ Goes(w, "expired") /\ Ends({w})
     \/ Expiration[w] >= time /\ Goes(w, "resending") /\ UNCHANGED ends
  /\ UNCHANGED <<kind, list, pass, run, canceled, time>>

\* The loop ends, and expires the waiters it holds; the deferred wg.Wait waits
\* for the tries under way.
LoopEnds ==
  /\ kind = "tapering" /\ run = "running" /\ canceled
  /\ st' = [w \in Waiters |-> IF st[w] = "waiting" THEN "expired" ELSE st[w]]
  /\ Ends(At("waiting"))
  /\ run' = "draining"
  /\ UNCHANGED <<kind, list, pass, canceled, time>>

\* Mutant of TaperingReturns: Run waits for the channel to be empty.
TaperingReturnsEmpty ==
  /\ run = "draining" /\ At("trying") \cup At("resending") \cup At("channel") = {}
  /\ run' = "returned"
  /\ UNCHANGED <<kind, st, ends, list, pass, canceled, time>>

TaperingReturns ==
  /\ run = "draining" /\ At("trying") \cup At("resending") = {}
  /\ run' = "returned"
  /\ UNCHANGED <<kind, st, ends, list, pass, canceled, time>>

-----------------------------------------------------------------------------

Cancel ==
  /\ ~canceled
  /\ canceled' = TRUE
  /\ UNCHANGED <<kind, st, ends, list, pass, run, time>>

TimePasses ==
  /\ time < LastTime
  /\ time' = time + 1
  /\ UNCHANGED <<kind, st, ends, list, pass, run, canceled>>

OfQueue == PassStarts \/ PassEnds \/ PassAborts \/ TickerReturns \/ LoopEnds \/ TaperingReturns

OfWaiter(w) ==
  \/ FirstTry(w) \/ Appends(w) \/ PassTries(w)
  \/ Send(w) \/ LoopReceives(w) \/ NextTick(w) \/ runWaiter(w)

WaitNext ==
  \/ OfQueue \/ Cancel \/ TimePasses
  \/ \E w \in Waiters : Wait(w) \/ OfWaiter(w)

\* Time passes, a TryFunc returns, and neither the loop nor a try is starved.
\* A select does not pass over a channel that is ready for ever, and a
\* sync.Mutex does not starve a goroutine that waits for it.
WaitSpec ==
  /\ WaitInit /\ [][WaitNext]_waitVars
  /\ WF_waitVars(TimePasses) /\ WF_waitVars(OfQueue) /\ SF_waitVars(TickerReturns)
  /\ \A w \in Waiters : WF_waitVars(OfWaiter(w)) /\ SF_waitVars(Appends(w))

-----------------------------------------------------------------------------
(* Properties *)

\* A waiter is told of its end once.  The exception is a ticker queue whose
\* context ends during a pass: the waiters that ended in the pass are still on
\* the list, and the deferred function expires them once more.
EndsOnce ==
  \A w \in Waiters : ends[w] <= (IF kind = "ticker" /\ run = "returned" THEN 2 ELSE 1)

Waits(w) == st[w] \notin {"new", "refused", "done", "expired"}
Settled(w) == ~Waits(w) \/ canceled

\* A waiter that was accepted ends, with success or with expiration, as long
\* as the queue runs.
WaiterEnds == \A w \in Waiters : Waits(w) ~> Settled(w)

Returned == run = "returned"

\* Run returns after its context is canceled.
QueueReturns == canceled ~> Returned

=============================================================================
