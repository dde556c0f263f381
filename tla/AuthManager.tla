----------------------------- MODULE AuthManager -----------------------------
(***************************************************************************)
(* The AuthManager as it serves one account (server/auth/auth.go,          *)
(* latest.go, registrar.go): the connection, the conduct score and trading *)
(* tier, the bonds, the requests sent to the user, and the timer that      *)
(* unbooks the orders of a user who stays away.                            *)
(*                                                                         *)
(* What the account did is stored in the points table and, while the user  *)
(* is connected, cached in three lists of bounded length; the tier in the  *)
(* clientInfo is derived from the cache and the clientInfo's bonds.  Five  *)
(* goroutines write to these: the handler of an outcome or a request (the  *)
(* variable task), the link's watcher, the bond ticker, the unbook timer   *)
(* and the expiration timer of a request.  Every step between two locks is *)
(* an action.                                                              *)
(***************************************************************************)
EXTENDS Integers, FiniteSets

CONSTANTS
  Bonds,             \* bonds the user may post, each of strength 1
  Expires,           \* last moment at which a bond counts
  Limit,             \* outcomes of a class that are scored
  FailScore, MissScore, CancelScore,  \* what a violation costs
  PenaltyThreshold,  \* score deficit that costs a tier
  Overlap,           \* may a user connect on a second link while the
                     \* server still holds the first
  MaxOutcomes, MaxConnects, MaxRequests, MaxCrashes, MaxTime  \* bounds

Classes == {"match", "preimage", "order"}

ASSUME AuthAssumption == /\ IsFiniteSet(Bonds) /\ Expires \in [Bonds -> Nat]
                         /\ FailScore \in Nat /\ MissScore \in Nat /\ CancelScore \in Nat
                         /\ Limit \in [Classes -> Nat \ {0}]
                         /\ PenaltyThreshold \in Nat \ {0}
                         /\ Overlap \in BOOLEAN

VARIABLES
  points,   \* the points table: outcomes with their serial IDs
  nextID,   \* next serial ID
  bonds,    \* the bonds table
  cache,    \* {match,preimg,order}Outcomes[user], or NoCache
  client,   \* users[user], or Nobody
  up,       \* the link of client is up
  task,     \* the handler that runs for the user
  timer,    \* unbookers[user]: "none", a "running" timer or one that "fired"
  stray,    \* an unbook timer runs that has no entry in unbookers
  firing,   \* unbookUserOrders has unbooked, and not yet deleted the entry
  booked,   \* the user has orders on a book
  doomed,   \* bonds pruned in memory, not yet deleted from the table
  req,      \* the request to the user, or NoRequest
  count,    \* connections, requests and crashes so far
  now,
  excused   \* the tier was last set from a score that is not the user's, or
            \* not set for a missed preimage (auxiliary)

timers == <<timer, stray, firing>>
vars == <<points, nextID, bonds, cache, client, up, task, timers, booked, doomed,
          req, count, now, excused>>

NoCache == [stage |-> "none"]
Nobody == [link |-> 0]
Idle == [op |-> "idle"]
NoRequest == [stage |-> "none"]

Init ==
  /\ points = {} /\ nextID = 1 /\ bonds = {} /\ cache = NoCache
  /\ client = Nobody /\ up = FALSE /\ task = Idle
  /\ timer = "none" /\ stray = FALSE /\ firing = FALSE /\ booked = FALSE /\ doomed = {} /\ req = NoRequest
  /\ count = [connect |-> 0, request |-> 0, crash |-> 0]
  /\ now = 0 /\ excused = FALSE

-----------------------------------------------------------------------------
(* Scoring *)

\* Outcomes are sets: the serial ID is the order of the table and of a list.
newer(s, o) == {p \in s : p.class = o.class /\ p.id > o.id}
howMany(s, bad) == Cardinality({o \in s : o.bad = bad})

\* The latest outcomes of a class, as loaded from the table.
loadUserOutcomes(s) ==
  [class \in Classes |-> {o \in s : o.class = class /\ Cardinality(newer(s, o)) < Limit[class]}]

\* The cancellation threshold is one half, so one order is graced.
GraceLimit == 1

CancelPenalty(ords) ==
  IF Cardinality(ords) > GraceLimit /\ 2 * howMany(ords, TRUE) > Cardinality(ords)
  THEN CancelScore ELSE 0

integrateOutcomes(os) ==
  howMany(os["match"], FALSE) - FailScore * howMany(os["match"], TRUE)
    - MissScore * howMany(os["preimage"], TRUE) - CancelPenalty(os["order"])

\* Penalties in excess of the uint16 are beyond any history of Limit outcomes.
tier(bs, score) == Cardinality(bs) - (IF score < 0 THEN (-score) \div PenaltyThreshold ELSE 0)

oldest(os) == CHOOSE o \in os : \A p \in os : o.id <= p.id

\* Adding to a full list pops its oldest entry.
adds(os, o) == \A p \in os : p.id # o.id
full(os, o) == Cardinality(os) = Limit[o.class]

add(os, o) == IF ~adds(os, o) THEN os
              ELSE IF full(os, o) THEN (os \ {oldest(os)}) \cup {o} ELSE os \cup {o}

\* Mutant of popped: the newest outcome is dropped, not the oldest.
poppedNewest(os, o) == IF full(os, o) THEN o.id ELSE 0

popped(os, o) == IF adds(os, o) /\ full(os, o) THEN oldest(os).id ELSE 0

-----------------------------------------------------------------------------
(* Outcomes: SwapSuccess, Inaction, PreimageSuccess, MissedPreimage,       *)
(* RecordCompletedOrder, RecordCancel                                      *)

\* The outcome goes to storage; when that fails, the score returned is 0.
AddOutcome(class, bad) ==
  /\ task = Idle /\ nextID <= MaxOutcomes
  /\ LET o == [id |-> nextID, class |-> class, bad |-> bad]
     IN \/ /\ points' = points \cup {o}
           /\ task' = [op |-> "outcome", stage |-> "stored", of |-> o]
        \/ /\ points' = points
           /\ task' = [op |-> "outcome", stage |-> "scored", of |-> o, score |-> 0, failed |-> TRUE]
  /\ nextID' = nextID + 1
  /\ UNCHANGED <<bonds, cache, client, up, timers, booked, doomed, req, count, now, excused>>

Scored(score) ==
  task' = [op |-> "outcome", stage |-> "scored", of |-> task.of, score |-> score, failed |-> FALSE]

\* Under violationMtx: the cache takes the outcome and what it pops is pruned
\* from the table (an error there is only logged); without a cache the
\* history is loaded.
ScoreOutcome ==
  /\ task.op = "outcome" /\ task.stage = "stored"
  /\ \/ /\ cache # NoCache
        /\ LET o == task.of
               old == cache[o.class]
           IN /\ cache' = [cache EXCEPT ![o.class] = add(old, o)]
              /\ \/ points' = {p \in points : p.class = o.class => p.id > popped(old, o)}
                 \/ points' = points
        /\ Scored(integrateOutcomes(cache'))
     \/ /\ cache = NoCache
        /\ Scored(integrateOutcomes(loadUserOutcomes(points)))
        /\ UNCHANGED <<points, cache>>
  /\ UNCHANGED <<nextID, bonds, client, up, timers, booked, doomed, req, count, now, excused>>

\* MissedPreimage returns before the tier is recomputed (the threshold is
\* stored with its sign inverted).
SkipsTier(t) == t.of.class = "preimage" /\ t.of.bad /\ t.score < -PenaltyThreshold

\* computeUserReputation, under client.mtx, then Penalize, which unbooks the
\* orders of a user whose tier sank below 1.
ApplyScore ==
  /\ task.op = "outcome" /\ task.stage = "scored"
  /\ \/ /\ client = Nobody
        /\ task' = Idle
        /\ UNCHANGED <<client, booked, excused>>
     \/ /\ client # Nobody /\ SkipsTier(task)
        /\ task' = Idle
        /\ excused' = TRUE
        /\ UNCHANGED <<client, booked>>
     \/ /\ client # Nobody /\ ~SkipsTier(task)
        /\ client' = [client EXCEPT !.score = task.score, !.tier = tier(client.bonds, task.score)]
        /\ excused' = task.failed
        /\ LET sunk == task.of.bad /\ client'.tier # client.tier /\ client'.tier < 1
           IN /\ booked' = (booked /\ ~sunk)
              /\ task' = IF sunk THEN [op |-> "penalize"] ELSE Idle
  /\ UNCHANGED <<points, nextID, bonds, cache, up, timers, doomed, req, count, now>>

\* The end of unbookUserOrders: the entry is deleted, also when it is that of
\* a timer set in the meantime.
DeletesEntry ==
  /\ timer' = "none"
  /\ stray' = (stray \/ timer = "running")

Penalized ==
  /\ task.op = "penalize"
  /\ task' = Idle
  /\ DeletesEntry
  /\ UNCHANGED <<points, nextID, bonds, cache, client, up, firing, booked, doomed, req, count, now, excused>>

\* ForgiveUser deletes the violations, ForgiveMatchFail marks a match that the
\* points do not refer to; then reRepUser reloads the history.
Forgive ==
  /\ task = Idle
  /\ points' \in {points, {p \in points : ~p.bad}}
  /\ LET os == loadUserOutcomes(points')
         score == integrateOutcomes(os)
     IN /\ cache' = (IF cache = NoCache THEN NoCache ELSE os)
        /\ client' = (IF client = Nobody THEN Nobody
                      ELSE [client EXCEPT !.score = score, !.tier = tier(client.bonds, score)])
  /\ excused' = FALSE
  /\ UNCHANGED <<nextID, bonds, up, task, timers, booked, doomed, req, count, now>>

-----------------------------------------------------------------------------
(* Connections *)

active(bs) == {b \in bs : Expires[b] >= now}

\* Mutant of handleConnect: response handlers are not carried over.
handleConnectFresh(same) ==
  /\ task = Idle /\ count.connect < MaxConnects
  /\ same => client # Nobody /\ up
  /\ ~same => client = Nobody \/ Overlap
  /\ count' = [count EXCEPT !.connect = @ + 1]
  /\ task' = [op |-> "connect", stage |-> "read", same |-> same, bonds |-> active(bonds), hist |-> NoCache,
              link |-> IF same THEN client.link ELSE count.connect + 1,
              map |-> count.connect + 1]
  /\ UNCHANGED <<points, nextID, bonds, cache, client, up, timers, booked, doomed, req, now, excused>>

\* handleConnect, first part: the account's bonds that have not expired, and
\* the response handlers of the client it replaces.  The link is a new one,
\* or the one that is authorized already.
handleConnect(same) ==
  /\ task = Idle /\ count.connect < MaxConnects
  /\ same => client # Nobody /\ up
  /\ ~same => client = Nobody \/ Overlap
  /\ count' = [count EXCEPT !.connect = @ + 1]
  /\ task' = [op |-> "connect", stage |-> "read", same |-> same, bonds |-> active(bonds), hist |-> NoCache,
              link |-> IF same THEN client.link ELSE count.connect + 1,
              map |-> IF client # Nobody THEN client.map ELSE count.connect + 1]
  /\ UNCHANGED <<points, nextID, bonds, cache, client, up, timers, booked, doomed, req, now, excused>>

ConnectLoads ==
  /\ task.op = "connect" /\ task.stage = "read"
  /\ task' = [task EXCEPT !.stage = "loaded", !.hist = loadUserOutcomes(points)]
  /\ UNCHANGED <<points, nextID, bonds, cache, client, up, timers, booked, doomed, req, count, now, excused>>

ConnectCaches ==
  /\ task.op = "connect" /\ task.stage = "loaded"
  /\ cache' = task.hist
  /\ task' = [task EXCEPT !.stage = "cached"]
  /\ UNCHANGED <<points, nextID, bonds, client, up, timers, booked, doomed, req, count, now, excused>>

\* A storage error, or the link of the request down: no client is added.
ConnectFails ==
  /\ task.op = "connect"
  /\ task' = Idle
  /\ UNCHANGED <<points, nextID, bonds, cache, client, up, timers, booked, doomed, req, count, now, excused>>

\* Mutant of addClient: the unbook timer is not stopped.
addClientNoStop ==
  /\ task.op = "connect" /\ task.stage = "cached"
  /\ task.same => up
  /\ LET score == integrateOutcomes(task.hist)
     IN client' = [link |-> task.link, map |-> task.map, bonds |-> task.bonds,
                   score |-> score, tier |-> tier(task.bonds, score)]
  /\ up' = TRUE
  /\ task' = Idle
  /\ excused' = FALSE
  /\ UNCHANGED <<points, nextID, bonds, cache, timers, booked, doomed, req, count, now>>

addClient ==
  /\ task.op = "connect" /\ task.stage = "cached"
  /\ task.same => up
  /\ LET score == integrateOutcomes(task.hist)
     IN client' = [link |-> task.link, map |-> task.map, bonds |-> task.bonds,
                   score |-> score, tier |-> tier(task.bonds, score)]
  /\ up' = TRUE
  /\ timer' = "none"
  /\ task' = Idle
  /\ excused' = FALSE
  /\ UNCHANGED <<points, nextID, bonds, cache, stray, firing, booked, doomed, req, count, now>>

LinkDrops ==
  /\ up
  /\ up' = FALSE
  /\ UNCHANGED <<points, nextID, bonds, cache, client, task, timers, booked, doomed, req, count, now, excused>>

Removed ==
  /\ client' = Nobody
  /\ cache' = NoCache
  /\ timer' = "running"
  /\ UNCHANGED <<stray, firing>>

\* The watcher of the link, or a Send that failed on it.
removeClient ==
  /\ client # Nobody /\ ~up
  /\ Removed
  /\ UNCHANGED <<points, nextID, bonds, up, task, booked, doomed, req, count, now, excused>>

unbookUserOrders ==
  /\ ~firing
  /\ \/ timer = "running" /\ timer' = "fired" /\ UNCHANGED stray
     \/ stray /\ stray' = FALSE /\ UNCHANGED timer
  /\ firing' = TRUE
  /\ booked' = FALSE
  /\ UNCHANGED <<points, nextID, bonds, cache, client, up, task, doomed, req, count, now, excused>>

Unbooked ==
  /\ firing
  /\ firing' = FALSE
  /\ DeletesEntry
  /\ UNCHANGED <<points, nextID, bonds, cache, client, up, task, booked, doomed, req, count, now, excused>>

\* An order of a user in good standing is booked.
BookOrder ==
  /\ client # Nobody /\ client.tier >= 1 /\ ~booked
  /\ booked' = TRUE
  /\ UNCHANGED <<points, nextID, bonds, cache, client, up, task, timers, doomed, req, count, now, excused>>

-----------------------------------------------------------------------------
(* Bonds *)

\* handlePostBond for a confirmed bond, up to AddBond.
PostBond(b) ==
  /\ task = Idle /\ b \notin bonds /\ Expires[b] >= now
  /\ bonds' = bonds \cup {b}
  /\ task' = [op |-> "bond", bond |-> b]
  /\ UNCHANGED <<points, nextID, cache, client, up, timers, booked, doomed, req, count, now, excused>>

\* The clientInfo gets the bond, and a tier from the score in the cache.
Rerated(bs) ==
  LET score == integrateOutcomes(cache)
  IN client' = [client EXCEPT !.bonds = bs, !.score = score, !.tier = tier(bs, score)]

addBond ==
  /\ task.op = "bond"
  /\ \/ client = Nobody /\ UNCHANGED <<client, excused>>
     \/ client # Nobody /\ Rerated(client.bonds \cup {task.bond}) /\ excused' = FALSE
  /\ task' = Idle
  /\ UNCHANGED <<points, nextID, bonds, cache, up, timers, booked, doomed, req, count, now>>

\* Mutant of checkBonds: the tier is not computed again.
checkBondsForgets ==
  /\ client # Nobody /\ active(client.bonds) # client.bonds
  /\ client' = [client EXCEPT !.bonds = active(@)]
  /\ doomed' = doomed \cup (client.bonds \ active(client.bonds))
  /\ UNCHANGED <<points, nextID, bonds, cache, up, task, timers, booked, req, count, now, excused>>

\* The bond ticker; the rows are deleted by a goroutine of their own.
checkBonds ==
  /\ client # Nobody /\ active(client.bonds) # client.bonds
  /\ Rerated(active(client.bonds))
  /\ doomed' = doomed \cup (client.bonds \ active(client.bonds))
  /\ excused' = FALSE
  /\ UNCHANGED <<points, nextID, bonds, cache, up, task, timers, booked, req, count, now>>

DeleteBonds ==
  /\ doomed # {}
  /\ bonds' = bonds \ doomed
  /\ doomed' = {}
  /\ UNCHANGED <<points, nextID, cache, client, up, task, timers, booked, req, count, now, excused>>

-----------------------------------------------------------------------------
(* Requests to the user *)

\* The handler is registered in the client's map and in the link; a link that
\* is down is an error to the caller, and the client is removed.
request ==
  /\ client # Nobody /\ req = NoRequest /\ count.request < MaxRequests
  /\ count' = [count EXCEPT !.request = @ + 1]
  /\ \/ /\ up
        /\ req' = [stage |-> "sent", link |-> client.link, map |-> client.map]
        /\ UNCHANGED <<client, cache, timers>>
     \/ /\ ~up
        /\ Removed
        /\ UNCHANGED req
  /\ UNCHANGED <<points, nextID, bonds, up, task, booked, doomed, now, excused>>

\* An answer comes in over the link that carried the request: the user of the
\* link is looked up, and the handler in the user's map.  (Over a link that
\* has been replaced, no user is found and nothing changes.)
handleResponse ==
  /\ req.stage = "sent"
  /\ client # Nobody /\ up /\ client.link = req.link
  /\ req' = IF client.map = req.map THEN NoRequest ELSE [req EXCEPT !.stage = "unheard"]
  /\ UNCHANGED <<points, nextID, bonds, cache, client, up, task, timers, booked, doomed, count, now, excused>>

\* The expiration timer of the handler, which holds on to the client and to
\* the map the handler was registered in.
Expire ==
  /\ req # NoRequest
  /\ req' = NoRequest
  /\ UNCHANGED <<points, nextID, bonds, cache, client, up, task, timers, booked, doomed, count, now, excused>>

-----------------------------------------------------------------------------
(* Time, and a restart of the server *)

Tick ==
  /\ now < MaxTime
  /\ now' = now + 1
  /\ UNCHANGED <<points, nextID, bonds, cache, client, up, task, timers, booked, doomed, req, count, excused>>

\* Mutant of Restart: ExpectUsers is not called.
RestartForgets ==
  /\ count.crash < MaxCrashes
  /\ count' = [count EXCEPT !.crash = @ + 1]
  /\ cache' = NoCache /\ client' = Nobody /\ up' = FALSE /\ task' = Idle
  /\ doomed' = {} /\ req' = NoRequest
  /\ timer' = "none" /\ stray' = FALSE /\ firing' = FALSE
  /\ UNCHANGED <<points, nextID, bonds, booked, now, excused>>

\* The server stops and starts again: ExpectUsers sets a timer for a user with
\* orders on a book.
Restart ==
  /\ count.crash < MaxCrashes
  /\ count' = [count EXCEPT !.crash = @ + 1]
  /\ cache' = NoCache /\ client' = Nobody /\ up' = FALSE /\ task' = Idle
  /\ doomed' = {} /\ req' = NoRequest
  /\ timer' = (IF booked THEN "running" ELSE "none") /\ stray' = FALSE /\ firing' = FALSE
  /\ UNCHANGED <<points, nextID, bonds, booked, now, excused>>

Handler ==
  \/ ScoreOutcome \/ ApplyScore \/ Penalized
  \/ ConnectLoads \/ ConnectCaches \/ ConnectFails \/ addClient
  \/ addBond

System ==
  \/ Handler
  \/ removeClient \/ unbookUserOrders \/ Unbooked
  \/ checkBonds \/ DeleteBonds
  \/ Expire

Environment ==
  \/ \E class \in Classes, bad \in BOOLEAN : AddOutcome(class, bad)
  \/ Forgive
  \/ \E same \in BOOLEAN : handleConnect(same)
  \/ LinkDrops
  \/ BookOrder
  \/ \E b \in Bonds : PostBond(b)
  \/ request
  \/ handleResponse
  \/ Tick
  \/ Restart

Next == System \/ Environment

Spec == Init /\ [][Next]_vars /\ WF_vars(System)

-----------------------------------------------------------------------------
(* Properties *)

\* Whenever no handler runs for a connected user, the clientInfo says what
\* storage says: the score of the stored history and the bonds that have not
\* expired, with the tier that follows from them.  Excused are a score of 0
\* applied because an outcome could not be stored, and a missed preimage that
\* takes the score below the threshold, after which the code recomputes no
\* tier.
ReputationIsCurrent ==
  client # Nobody /\ task = Idle /\ ~excused =>
    /\ client.score = integrateOutcomes(loadUserOutcomes(points))
    /\ client.tier = tier(client.bonds, client.score)
    /\ active(client.bonds) = active(bonds)

\* A connected user has entries in the outcome maps, which userScore reads
\* without looking whether they are there.
UserIsRated == client # Nobody => cache # NoCache

\* A connected user has cached lists, and they are the latest outcomes in the
\* table, in its order, but for the outcome a handler is about to add: what
\* add pops is what PruneOutcomes and the limits on loading leave out.
CacheIsHistory ==
  /\ UserIsRated
  /\ cache # NoCache /\ ~(task.op = "outcome" /\ task.stage = "stored")
       => cache = loadUserOutcomes(points)

\* An answer that comes in time, over the link that the user is connected
\* with, reaches the handler of the request, also when the user
\* authenticated again in the meantime.
AnswerIsHeard == req.stage # "unheard"

\* The orders of a connected user stay on the book unless the user is
\* penalized.  (A timer whose entry was deleted by an earlier unbooking cannot
\* be stopped any more, and is excused.)
KeepsOrdersWhileConnected ==
  [][(client # Nobody /\ booked /\ ~booked') => (stray \/ task'.op = "penalize")]_vars

Sinks == /\ task.op = "outcome" /\ task.stage = "scored" /\ task.of.bad
         /\ client # Nobody /\ client.tier >= 1 /\ tier(client.bonds, task.score) < 1

\* "If their tier sinks below 1, unbook their orders and send a note": a
\* violation that leaves a connected user without a tier takes the user's
\* orders off the books.  MissedPreimage says so too, and returns before it
\* when the score is below the threshold.
SinkingIsPenalized == [][(Sinks /\ ApplyScore) => ~booked']_vars

Away == client = Nobody /\ booked

\* The orders of a user who stays away are unbooked in the end, also when the
\* server restarts, or a timer loses its entry.
AwayIsUnbooked == Away ~> ~Away

=============================================================================
