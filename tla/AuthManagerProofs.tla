-------------------------- MODULE AuthManagerProofs --------------------------
(***************************************************************************)
(* Proofs about the AuthManager, for any bonds, scoring parameters, list   *)
(* lengths and any number of outcomes, connections and restarts: the       *)
(* cached outcome lists are the history in the table, the clientInfo says  *)
(* what storage says, answers are heard, and a connected user's orders     *)
(* stay booked.                                                            *)
(*                                                                         *)
(* All of it is for a user who connects on a second link only after the    *)
(* first was removed (~Overlap).  Otherwise removeClient, for the first    *)
(* link, drops the lists that handleConnect has cached for the second one, *)
(* and addClient then scores the user over lists that are not there.       *)
(*                                                                         *)
(* IInv has one conjunct per piece of state that must agree with another:  *)
(* TableInv the serial IDs of the outcomes, CacheInv the lists with the    *)
(* table, ReputationInv the clientInfo with storage while handlers are     *)
(* under way, MapInv a request with the map of handlers it was entered     *)
(* in, TimerInv the timer with the connection.  There is one lemma for     *)
(* each of them.                                                           *)
(***************************************************************************)
EXTENDS AuthFacts

-----------------------------------------------------------------------------
(* Every step keeps the types *)

\* Every step keeps the types: a score is only computed over lists that are there.
LEMMA TypeStep ==
  ASSUME TypeOK, TableInv, CacheInv, [Next]_vars
  PROVE  TypeOK'
<1>1. CASE ScoreOutcome
  <2>1. CASE cache # NoCache
    <3>1. points' \in History /\ task' \in Rated /\ cache' \in Lists
      BY <1>1, <2>1, CacheScores, LoadType, Zenon
    <3>2. UNCHANGED <<nextID, bonds, client, up, doomed, req, count, now>>
      BY <1>1, <2>1, CacheScores, Zenon
    <3> QED BY Zenon, <3>1, <3>2 DEF TypeOK
  <2>2. CASE cache = NoCache
    <3>1. task' \in Rated /\ UNCHANGED <<points, cache, nextID, bonds, client, up, doomed, req, count, now>>
      BY <1>1, <2>2, LoadScores, Zenon
    <3> QED BY Zenon, <3>1 DEF TypeOK
  <2> QED BY Zenon, <2>1, <2>2
<1>2. CASE ApplyScore
  <2>1. task' \in {Idle, Penalty} /\ (client' = client \/ client' \in Client)
        /\ UNCHANGED <<points, nextID, bonds, cache, up, doomed, req, count, now>>
    BY <1>2, ScoreApplied, Zenon
  <2> QED BY Zenon, <2>1 DEF TypeOK
<1>3. CASE Penalized \/ ConnectFails \/ unbookUserOrders \/ Unbooked \/ BookOrder
  <2>1. (task' = task \/ task' = Idle)
        /\ UNCHANGED <<points, nextID, bonds, cache, client, up, doomed, req, count, now>>
    BY <1>3, Zenon DEF Penalized, ConnectFails, unbookUserOrders, Unbooked, BookOrder
  <2> QED BY Zenon, <2>1 DEF TypeOK
<1>4. CASE ConnectLoads
  <2>1. task' \in Connecting /\ UNCHANGED <<points, nextID, bonds, cache, client, up, doomed, req, count, now>>
    BY <1>4, Loaded, Zenon
  <2> QED BY Zenon, <2>1 DEF TypeOK
<1>5. CASE ConnectCaches
  <2>1. task' \in Connecting /\ cache' = loadUserOutcomes(points)
        /\ UNCHANGED <<points, nextID, bonds, client, up, doomed, req, count, now>>
    BY <1>5, Cached, Zenon
  <2>2. cache' \in Lists
    BY Zenon, <2>1, LoadType DEF TypeOK
  <2> QED BY Zenon, <2>1, <2>2 DEF TypeOK
<1>6. CASE addClient
  <2>1. client' \in Client /\ up' = TRUE /\ task' = Idle
        /\ UNCHANGED <<points, nextID, bonds, cache, doomed, req, count, now>>
    BY <1>6, ClientAdded, Zenon
  <2> QED BY Zenon, <2>1 DEF TypeOK
<1>7. CASE addBond
  <2>1. task' = Idle /\ UNCHANGED <<points, nextID, bonds, cache, up, doomed, req, count, now>>
    BY <1>7, Zenon DEF addBond
  <2>2. client' = client \/ client' \in Client
    <3>1. task.bond \in Bonds
      BY Zenon, <1>7, TaskKinds DEF addBond, Bonding
    <3>2. CASE client # Nobody /\ Rerated(client.bonds \cup {task.bond})
      <4>1. client.bonds \cup {task.bond} \in SUBSET Bonds
        BY Zenon, <3>1, <3>2 DEF TypeOK, Client
      <4> QED BY <3>2, <4>1, ReratedClient, Zenon
    <3> QED BY <1>7, <3>2, Zenon DEF addBond
  <2> QED BY Zenon, <2>1, <2>2 DEF TypeOK
<1>8. CASE checkBonds
  <2>1. /\ client # Nobody /\ Rerated(active(client.bonds))
        /\ doomed' = doomed \cup (client.bonds \ active(client.bonds))
        /\ UNCHANGED <<points, nextID, bonds, cache, up, task, req, count, now>>
    BY <1>8, Zenon DEF checkBonds
  <2>2. client.bonds \in SUBSET Bonds
    BY Zenon, <2>1 DEF TypeOK, Client
  <2>3. active(client.bonds) \in SUBSET Bonds
    BY Zenon, <2>2 DEF active
  <2>4. client' \in Client
    BY <2>1, <2>3, ReratedClient, Zenon
  <2> QED BY Zenon, <2>1, <2>2, <2>4 DEF TypeOK
<1>9. CASE DeleteBonds
  <2>1. bonds' \subseteq bonds /\ doomed' = {}
        /\ UNCHANGED <<points, nextID, cache, client, up, task, req, count, now>>
    BY Zenon, <1>9 DEF DeleteBonds
  <2> QED BY Zenon, <2>1 DEF TypeOK
<1>10. CASE Expire
  <2>1. req' = NoRequest /\ UNCHANGED <<points, nextID, bonds, cache, client, up, task, doomed, count, now>>
    BY <1>10, Zenon DEF Expire
  <2> QED BY Zenon, <2>1 DEF TypeOK
<1>11. ASSUME NEW class \in Classes, NEW bad \in BOOLEAN, AddOutcome(class, bad) PROVE TypeOK'
  <2> DEFINE o == [id |-> nextID, class |-> class, bad |-> bad]
  <2>1. /\ nextID' = nextID + 1 /\ UNCHANGED <<bonds, cache, client, up, doomed, req, count, now>>
        /\ \/ points' = points \cup {o} /\ task' = [op |-> "outcome", stage |-> "stored", of |-> o]
           \/ /\ points' = points
              /\ task' = [op |-> "outcome", stage |-> "scored", of |-> o, score |-> 0, failed |-> TRUE]
    BY <1>11, ZenonT(30) DEF AddOutcome
  <2>2. o \in Outcome
    BY Zenon DEF TypeOK, Outcome
  <2>3. points \cup {o} \in History
    BY <2>2, FS_AddElement, ZenonT(30) DEF TypeOK, History
  <2> HIDE DEF o
  <2>4. points' \in History
    BY Zenon, <2>1, <2>3 DEF TypeOK
  <2>5. [op |-> "outcome", stage |-> "stored", of |-> o] \in Stored
    BY Zenon, <2>2 DEF Stored
  <2>6. [op |-> "outcome", stage |-> "scored", of |-> o, score |-> 0, failed |-> TRUE] \in Rated
    BY <2>2 DEF Rated
  <2>7. task' \in Stored \cup Rated
    BY <2>1, <2>5, <2>6, Zenon
  <2>8. nextID' \in Nat \ {0}
    BY <2>1 DEF TypeOK
  <2> QED BY Zenon, <2>1, <2>4, <2>7, <2>8 DEF TypeOK
<1>12. CASE Forgive
  <2>1. points' \in History /\ UNCHANGED <<nextID, bonds, up, task, doomed, req, count, now>>
    BY <1>12, Forgiven, Zenon
  <2>2. client' \in Client \cup {Nobody}
    BY Zenon, <1>12, Forgiven
  <2>3. cache' \in Lists \cup {NoCache}
    BY Zenon, <1>12, <2>1, Forgiven, LoadType
  <2> QED BY Zenon, <2>1, <2>2, <2>3 DEF TypeOK
<1>13. ASSUME NEW same \in BOOLEAN, handleConnect(same) PROVE TypeOK'
  <2>1. task' \in Connecting /\ count' \in [connect : Nat, request : Nat, crash : Nat]
        /\ UNCHANGED <<points, nextID, bonds, cache, client, up, doomed, req, now>>
    BY <1>13, ConnectStarts, Zenon
  <2> QED BY Zenon, <2>1 DEF TypeOK
<1>14. CASE LinkDrops \/ removeClient
  <2>1. (up' = FALSE \/ up' = up) /\ (cache' = cache \/ cache' = NoCache) /\ (client' = client \/ client' = Nobody)
        /\ UNCHANGED <<points, nextID, bonds, task, doomed, req, count, now>>
    BY <1>14, Zenon DEF LinkDrops, removeClient, Removed
  <2> QED BY <2>1, ZenonT(30) DEF TypeOK
<1>15. ASSUME NEW b \in Bonds, PostBond(b) PROVE TypeOK'
  <2>1. bonds' = bonds \cup {b} /\ task' = [op |-> "bond", bond |-> b]
        /\ UNCHANGED <<points, nextID, cache, client, up, doomed, req, count, now>>
    BY <1>15, Zenon DEF PostBond
  <2>2. task' \in Bonding
    BY Zenon, <2>1 DEF Bonding
  <2> QED BY Zenon, <2>1, <2>2 DEF TypeOK
<1>16. CASE request
  <2>1. UNCHANGED <<points, nextID, bonds, up, task, doomed, now>>
        /\ client # Nobody /\ count' = [count EXCEPT !.request = @ + 1]
        /\ \/ req' = [stage |-> "sent", link |-> client.link, map |-> client.map] /\ UNCHANGED <<client, cache>>
           \/ client' = Nobody /\ cache' = NoCache /\ UNCHANGED req
    BY <1>16, ZenonT(30) DEF request, Removed
  <2>2. count' \in [connect : Nat, request : Nat, crash : Nat]
    BY <2>1 DEF TypeOK
  <2>3. client.link \in Nat /\ client.map \in Nat
    BY Zenon, <2>1 DEF TypeOK, Client
  <2>4. req' \in Request \cup {NoRequest}
    BY <2>1, <2>3 DEF TypeOK, Request
  <2> QED BY Zenon, <2>1, <2>2, <2>4 DEF TypeOK
<1>17. CASE handleResponse
  <2>1. req.stage = "sent" /\ (req' = NoRequest \/ req' = [req EXCEPT !.stage = "unheard"])
        /\ UNCHANGED <<points, nextID, bonds, cache, client, up, task, doomed, count, now>>
    BY <1>17, Zenon DEF handleResponse
  <2>2. req \in Request
    BY <2>1 DEF TypeOK, NoRequest
  <2>3. req' \in Request \cup {NoRequest}
    BY Zenon, <2>1, <2>2 DEF Request
  <2> QED BY Zenon, <2>1, <2>3 DEF TypeOK
<1>18. CASE Tick
  <2>1. now' = now + 1 /\ UNCHANGED <<points, nextID, bonds, cache, client, up, task, doomed, req, count>>
    BY <1>18, Zenon DEF Tick
  <2> QED BY <2>1 DEF TypeOK
<1>19. CASE Restart
  <2>1. count' = [count EXCEPT !.crash = @ + 1] /\ cache' = NoCache /\ client' = Nobody /\ up' = FALSE /\ task' = Idle
        /\ doomed' = {} /\ req' = NoRequest /\ UNCHANGED <<points, nextID, bonds, now>>
    BY <1>19, Zenon DEF Restart
  <2>2. count' \in [connect : Nat, request : Nat, crash : Nat]
    BY <2>1 DEF TypeOK
  <2> QED BY <2>1, <2>2, ZenonT(30) DEF TypeOK
<1>20. CASE UNCHANGED vars
  BY Zenon, <1>20 DEF TypeOK, vars
<1> QED BY <1>1, <1>2, <1>3, <1>4, <1>5, <1>6, <1>7, <1>8, <1>9, <1>10, <1>11, <1>12, <1>13, <1>14,
           <1>15, <1>16, <1>17, <1>18, <1>19, <1>20, ZenonT(30) DEF Next, System, Handler, Environment

\* A task is of one kind.
LEMMA OneKind ==
  /\ Stored \cap (Rated \cup Connecting \cup Bonding) = {}
  /\ Rated \cap (Connecting \cup Bonding) = {}
  /\ Connecting \cap Bonding = {}
<1>1. \A t \in Stored : t.op = "outcome" /\ t.stage = "stored"
  BY Zenon DEF Stored
<1>2. \A t \in Rated : t.op = "outcome" /\ t.stage = "scored"
  BY Zenon DEF Rated
<1>3. \A t \in Connecting : t.op = "connect"
  BY Zenon DEF Connecting
<1>4. \A t \in Bonding : t.op = "bond"
  BY Zenon DEF Bonding
<1> QED BY Zenon, <1>1, <1>2, <1>3, <1>4

-----------------------------------------------------------------------------
(* Every step keeps the serial IDs *)

\* Every step keeps the serial IDs in order.
LEMMA TableStep ==
  ASSUME TypeOK, TableInv, CacheInv, [Next]_vars
  PROVE  TableInv'
<1>1. ASSUME points' \subseteq points, nextID' = nextID, task' \notin Stored
      PROVE  TableInv'
  BY Zenon, <1>1 DEF TableInv
<1>2. CASE ScoreOutcome
  <2>1. points' \subseteq points /\ nextID' = nextID /\ task' \in Rated
    BY <1>2, CacheScores, LoadScores
  <2> QED BY Zenon, <1>1, <2>1, OneKind
<1>3. CASE ApplyScore
  <2>1. task' \in {Idle, Penalty} /\ points' = points /\ nextID' = nextID
    BY <1>3, ScoreApplied, Zenon
  <2> QED BY Zenon, <1>1, <2>1, Differ
<1>4. CASE Penalized \/ ConnectFails \/ addBond \/ addClient \/ Restart
  <2>1. task' = Idle /\ points' = points /\ nextID' = nextID
    BY <1>4, Zenon DEF Penalized, ConnectFails, addBond, addClient, Restart
  <2> QED BY <1>1, <2>1, Differ
<1>5. CASE ConnectLoads \/ ConnectCaches \/ \E same \in BOOLEAN : handleConnect(same)
  <2>1. task' \in Connecting /\ points' = points /\ nextID' = nextID
    BY <1>5, Loaded, Cached, ConnectStarts, Zenon
  <2> QED BY <1>1, <2>1, OneKind
<1>6. ASSUME UNCHANGED <<points, nextID, task>> PROVE TableInv'
  BY Zenon, <1>6 DEF TableInv
<1>7. CASE \/ unbookUserOrders \/ Unbooked \/ BookOrder \/ checkBonds \/ DeleteBonds \/ Expire \/ LinkDrops
           \/ removeClient \/ request \/ handleResponse \/ Tick \/ UNCHANGED vars
  BY <1>6, <1>7, Zenon DEF unbookUserOrders, Unbooked, BookOrder, checkBonds, DeleteBonds, Expire, LinkDrops,
        removeClient, request, handleResponse, Tick, vars
<1>8. CASE Forgive
  <2>1. points' \subseteq points /\ nextID' = nextID /\ task' = Idle
    BY Zenon, <1>8, Forgiven
  <2> QED BY Zenon, <1>1, <2>1, Differ
<1>9. CASE \E b \in Bonds : PostBond(b)
  <2>1. task' \in Bonding /\ points' = points /\ nextID' = nextID
    BY <1>9 DEF PostBond, Bonding
  <2> QED BY Zenon, <1>1, <2>1, OneKind
<1>10. ASSUME NEW class \in Classes, NEW bad \in BOOLEAN, AddOutcome(class, bad) PROVE TableInv'
  <2> DEFINE o == [id |-> nextID, class |-> class, bad |-> bad]
  <2>1. /\ nextID' = nextID + 1
        /\ \/ points' = points \cup {o} /\ task' = [op |-> "outcome", stage |-> "stored", of |-> o]
           \/ /\ points' = points
              /\ task' = [op |-> "outcome", stage |-> "scored", of |-> o, score |-> 0, failed |-> TRUE]
    BY <1>10, ZenonT(30) DEF AddOutcome
  <2>2. o.id = nextID /\ nextID \in Nat /\ (\A p \in points : p.id \in Nat /\ p.id < nextID)
        /\ \A p, q \in points : p.id = q.id => p = q
    BY Zenon DEF TypeOK, History, Outcome, TableInv
  <2> HIDE DEF o
  <2>3. /\ \A p, q \in points \cup {o} : p.id = q.id => p = q
        /\ \A p \in points \cup {o} : p.id < nextID + 1
    BY <2>2
  <2>4. CASE points' = points \cup {o} /\ task' = [op |-> "outcome", stage |-> "stored", of |-> o]
    <3>1. task'.of = o
      BY Zenon, <2>4
    <3>2. task'.of \in points' /\ \A p \in points' : p # task'.of => p.id < task'.of.id
      BY <2>2, <2>4, <3>1
    <3> QED BY <2>1, <2>3, <2>4, <3>2 DEF TableInv
  <2>5. CASE points' = points /\ task' = [op |-> "outcome", stage |-> "scored", of |-> o, score |-> 0, failed |-> TRUE]
    <3>1. task'.stage = "scored"
      BY Zenon, <2>5
    <3>2. task' \notin Stored
      BY Zenon, <3>1 DEF Stored
    <3> QED BY <2>1, <2>2, <2>5, <3>2 DEF TableInv
  <2> QED BY Zenon, <2>1, <2>4, <2>5
<1> QED BY <1>2, <1>3, <1>4, <1>5, <1>7, <1>8, <1>9, <1>10, ZenonT(30)
        DEF Next, System, Handler, Environment

-----------------------------------------------------------------------------
(* Every step keeps the cache *)

\* Every step keeps the cache in agreement with the table.
LEMMA CacheStep ==
  ASSUME TypeOK, TableInv, CacheInv, ~Overlap, [Next]_vars
  PROVE  CacheInv'
<1> USE DEF known
<1>1. CASE ScoreOutcome
  <2>1. CASE cache # NoCache
    <3>1. points' \in History /\ task' \in Rated /\ cache' = loadUserOutcomes(points')
      BY <1>1, <2>1, CacheScores, Zenon
    <3>2. cache' # NoCache
      BY <3>1, LoadType, Zenon
    <3> QED BY <3>1, <3>2, OneKind DEF CacheInv
  <2>2. CASE cache = NoCache
    <3>1. task' \in Rated /\ UNCHANGED <<cache, client>>
      BY <1>1, <2>2, LoadScores, Zenon
    <3> QED BY <2>2, <3>1, OneKind DEF CacheInv
  <2> QED BY Zenon, <2>1, <2>2
<1>2. CASE ApplyScore
  <2>1. task \in Rated /\ task' \in {Idle, Penalty} /\ (client # Nobody => cache # NoCache)
        /\ (client = Nobody => client' = Nobody) /\ UNCHANGED <<points, cache>>
    BY <1>2, ScoreApplied, Differ, Zenon DEF CacheInv
  <2>2. task \notin Stored /\ task' \notin Stored \cup Connecting
    BY <2>1, Differ, OneKind
  <2> QED BY Zenon, <2>1, <2>2 DEF CacheInv
<1>3. ASSUME task \notin Stored, task' \notin Stored \cup Connecting,
             UNCHANGED <<points, cache>>, client' # Nobody => client # Nobody
      PROVE  CacheInv'
  BY Zenon, <1>3 DEF CacheInv
<1>4. CASE Penalized \/ ConnectFails \/ addBond
  <2>1. task' = Idle /\ UNCHANGED <<points, cache>>
    BY <1>4, Zenon DEF Penalized, ConnectFails, addBond
  <2>2. task = Penalty \/ task \in Connecting \cup Bonding
    BY Zenon, <1>4, TaskKinds DEF Penalized, ConnectFails, addBond
  <2>3. client = Nobody => client' = Nobody
    BY <1>4, Zenon DEF Penalized, ConnectFails, addBond
  <2> QED BY <1>3, <2>1, <2>2, <2>3, Differ, OneKind
<1>5. CASE ConnectLoads
  <2>1. /\ task \in Connecting /\ task' \in Connecting
        /\ task'.stage = "loaded" /\ task'.hist = loadUserOutcomes(points) /\ task'.same = task.same
        /\ UNCHANGED <<points, cache, client, up>>
    BY <1>5, Loaded, Zenon
  <2> QED BY Zenon, <2>1, OneKind DEF CacheInv
<1>6. CASE ConnectCaches
  <2>1. /\ task \in Connecting /\ task' \in Connecting
        /\ task'.stage = "cached" /\ task'.hist = loadUserOutcomes(points) /\ task'.same = task.same
        /\ cache' = loadUserOutcomes(points) /\ UNCHANGED <<points, client, up>>
    BY <1>6, Cached, Zenon
  <2>2. cache' # NoCache
    BY Zenon, <2>1, LoadType DEF TypeOK
  <2> QED BY <2>1, <2>2, OneKind DEF CacheInv
<1>7. CASE addClient
  <2>1. /\ task \in Connecting /\ task.stage = "cached" /\ (task.same => up) /\ task' = Idle
        /\ UNCHANGED <<points, cache>>
    BY <1>7, ClientAdded, Zenon
  <2>2. cache # NoCache
    BY Zenon, <2>1 DEF CacheInv
  <2> QED BY <2>1, <2>2, Differ, OneKind DEF CacheInv
<1>8. ASSUME UNCHANGED <<points, cache, task, up>>, client' # Nobody <=> client # Nobody PROVE CacheInv'
  BY Zenon, <1>8 DEF CacheInv
<1>9. CASE unbookUserOrders \/ Unbooked \/ BookOrder \/ DeleteBonds \/ Expire \/ handleResponse \/ Tick \/ UNCHANGED vars
  <2>1. UNCHANGED <<points, cache, task, up, client>>
    BY <1>9, Zenon DEF unbookUserOrders, Unbooked, BookOrder, DeleteBonds, Expire, handleResponse, Tick, vars
  <2> QED BY <1>8, <2>1
<1>10. CASE checkBonds
  <2>1. UNCHANGED <<points, cache, task, up>> /\ client # Nobody /\ Rerated(active(client.bonds))
    BY <1>10, Zenon DEF checkBonds
  <2>2. active(client.bonds) \in SUBSET Bonds
    BY Zenon, <2>1 DEF TypeOK, Client, active
  <2>3. client' \in Client
    BY <2>1, <2>2, ReratedClient, Zenon
  <2> QED BY <1>8, <2>1, <2>3, Differ
<1>11. CASE LinkDrops
  <2>1. up' = FALSE /\ UNCHANGED <<points, cache, task, client>>
    BY <1>11, Zenon DEF LinkDrops
  <2>2. task \in Connecting => task.same \in BOOLEAN
    BY Zenon DEF Connecting
  <2> QED BY <2>1, <2>2 DEF CacheInv
<1>12. CASE removeClient \/ (request /\ ~up)
  <2>1. up = FALSE /\ client # Nobody /\ client' = Nobody /\ cache' = NoCache /\ UNCHANGED <<points, task, up>>
    BY <1>12, ZenonT(30) DEF TypeOK, removeClient, request, Removed
  <2>2. task \in Connecting => task.same \in BOOLEAN
    BY Zenon DEF Connecting
  <2> QED BY <2>1, <2>2 DEF CacheInv
<1>13. CASE request /\ up
  <2>1. UNCHANGED <<points, task, up, cache, client>>
    BY <1>13, ZenonT(30) DEF request
  <2> QED BY <1>8, <2>1
<1>14. ASSUME NEW class \in Classes, NEW bad \in BOOLEAN, AddOutcome(class, bad) PROVE CacheInv'
  <2> DEFINE o == [id |-> nextID, class |-> class, bad |-> bad]
  <2>1. /\ task = Idle /\ UNCHANGED <<cache, client>>
        /\ \/ points' = points \cup {o} /\ task' = [op |-> "outcome", stage |-> "stored", of |-> o]
           \/ /\ points' = points
              /\ task' = [op |-> "outcome", stage |-> "scored", of |-> o, score |-> 0, failed |-> TRUE]
    BY <1>14, ZenonT(30) DEF AddOutcome
  <2>2. o \notin points /\ o \in Outcome
    BY DEF TypeOK, History, Outcome, TableInv
  <2> HIDE DEF o
  <2>3. task \notin Stored
    BY Zenon, <2>1, Differ
  <2>4. CASE points' = points \cup {o} /\ task' = [op |-> "outcome", stage |-> "stored", of |-> o]
    <3>1. task'.of = o /\ task' \in Stored
      BY <2>2, <2>4 DEF Stored
    <3>2. points' \ {task'.of} = points
      BY <2>2, <2>4, <3>1, ZenonT(30)
    <3> QED BY <2>1, <2>3, <3>1, <3>2, OneKind DEF CacheInv
  <2>5. CASE points' = points /\ task' = [op |-> "outcome", stage |-> "scored", of |-> o, score |-> 0, failed |-> TRUE]
    <3>1. task' \in Rated
      BY <2>2, <2>5 DEF Rated
    <3> QED BY <2>1, <2>3, <2>5, <3>1, OneKind DEF CacheInv
  <2> QED BY <2>1, <2>4, <2>5
<1>15. CASE Forgive
  <2>1. /\ task = Idle /\ task' = Idle /\ points' \in History
        /\ (cache = NoCache => cache' = NoCache) /\ (cache # NoCache => cache' = loadUserOutcomes(points'))
        /\ (client = Nobody => client' = Nobody)
    BY <1>15, Forgiven, Zenon
  <2>2. cache # NoCache => cache' # NoCache
    BY <2>1, LoadType, Zenon
  <2> QED BY <2>1, <2>2, Differ DEF CacheInv
<1>16. ASSUME NEW same \in BOOLEAN, handleConnect(same) PROVE CacheInv'
  <2>1. /\ task' \in Connecting /\ task'.stage = "read" /\ task'.same = same
        /\ task = Idle /\ (same => client # Nobody /\ up) /\ (~same => client = Nobody \/ Overlap)
        /\ UNCHANGED <<points, cache, client, up>>
    BY <1>16, ConnectStarts, Zenon
  <2> QED BY <2>1, Differ, OneKind DEF CacheInv
<1>17. ASSUME NEW b \in Bonds, PostBond(b) PROVE CacheInv'
  <2>1. task = Idle /\ task' \in Bonding /\ UNCHANGED <<points, cache, client>>
    BY <1>17 DEF PostBond, Bonding
  <2> QED BY <1>3, <2>1, Differ, OneKind
<1>18. CASE Restart
  <2>1. cache' = NoCache /\ client' = Nobody /\ task' = Idle
    BY <1>18, Zenon DEF Restart
  <2> QED BY <2>1, Differ DEF CacheInv
<1> QED BY <1>1, <1>2, <1>4, <1>5, <1>6, <1>7, <1>9, <1>10, <1>11, <1>12, <1>13, <1>14,
           <1>15, <1>16, <1>17, <1>18, ZenonT(30) DEF Next, System, Handler, Environment

-----------------------------------------------------------------------------
(* Every step keeps the reputation *)

\* Every step keeps the clientInfo in agreement with storage.
LEMMA ReputationStep ==
  ASSUME TypeOK, TableInv, CacheInv, ReputationInv, [Next]_vars
  PROVE  ReputationInv'
<1> DEFINE doomedInv == \A b \in doomed : Expires[b] < now
           connInv == task \in Connecting => active(task.bonds) = active(bonds)
           ratedInv == task \in Rated /\ ~task.failed => task.score = storedScore
           tierInv == client # Nobody => client.tier = tier(client.bonds, client.score)
           scoreInv == client # Nobody /\ task \notin Stored \cup Rated /\ ~excused => client.score = storedScore
           bondInv == client # Nobody => active(client.bonds \cup pending) = active(bonds)
<1>0. doomedInv /\ connInv /\ ratedInv /\ tierInv /\ scoreInv /\ bondInv
  BY Zenon DEF ReputationInv
<1>a. ASSUME doomedInv', connInv', ratedInv', tierInv', scoreInv', bondInv' PROVE ReputationInv'
  BY <1>a DEF ReputationInv
<1>b. task \notin Bonding => pending = {}
  BY Zenon DEF pending
<1>c. task' \notin Bonding => pending' = {}
  BY Zenon DEF pending
<1>d. points' = points => storedScore' = storedScore
  BY Zenon DEF storedScore
<1>e. UNCHANGED <<bonds, now>> => active(bonds)' = active(bonds)
  BY Zenon DEF active
<1> HIDE DEF doomedInv, connInv, ratedInv, tierInv, scoreInv, bondInv
<1>1. CASE ScoreOutcome
  <2>1. /\ task \in Stored /\ task' \in Rated /\ task'.score = storedScore'
        /\ UNCHANGED <<bonds, client, doomed, now>>
    <3>1. CASE cache # NoCache
      BY <1>1, <3>1, CacheScores, Zenon
    <3>2. CASE cache = NoCache
      BY <1>1, <1>d, <3>2, LoadScores, Zenon
    <3> QED BY <3>1, <3>2
  <2>2. pending = {} /\ pending' = {} /\ task' \notin Connecting
    BY <1>b, <1>c, <2>1, OneKind, ZenonT(30)
  <2>3. bondInv'
    BY <1>0, <2>1, <2>2 DEF active, bondInv
  <2>4. doomedInv' /\ connInv' /\ ratedInv' /\ tierInv' /\ scoreInv'
    BY <1>0, <2>1, <2>2 DEF doomedInv, connInv, ratedInv, tierInv, scoreInv
  <2> QED BY <1>a, <2>3, <2>4, Zenon
<1>2. CASE ApplyScore
  <2>1. /\ task \in Rated /\ task' \in {Idle, Penalty} /\ UNCHANGED <<points, bonds, doomed, now>>
        /\ \/ client' = client /\ excused' = TRUE
           \/ client = Nobody /\ client' = client
           \/ /\ client \in Client /\ client'.bonds = client.bonds
              /\ client'.score = task.score /\ client'.tier = tier(client.bonds, task.score)
              /\ excused' = task.failed
    BY <1>2, ScoreApplied, ZenonT(30)
  <2>2. pending = {} /\ pending' = {} /\ task' \notin Connecting \cup Rated
    BY <1>b, <1>c, <2>1, OneKind, Differ, ZenonT(30)
  <2>3. client' # Nobody => client # Nobody /\ client'.bonds = client.bonds
    BY <2>1, Differ
  <2>4. bondInv'
    BY <1>0, <2>1, <2>2, <2>3 DEF active, bondInv
  <2>5. /\ client' # Nobody => client'.tier = tier(client'.bonds, client'.score)
        /\ client' # Nobody /\ ~excused' => client'.score = task.score /\ ~task.failed
    BY <1>0, <2>1, ZenonT(30) DEF tierInv
  <2>6. tierInv' /\ scoreInv'
    BY <1>0, <1>d, <2>1, <2>5, Zenon DEF tierInv, scoreInv, ratedInv
  <2>7. doomedInv' /\ connInv' /\ ratedInv'
    BY <1>0, <2>1, <2>2 DEF doomedInv, connInv, ratedInv
  <2> QED BY <1>a, <2>4, <2>6, <2>7, Zenon
<1>3. ASSUME UNCHANGED <<points, bonds, doomed, now, client, excused>>,
             task' = task \/ (task' \in {Idle, Penalty} /\ task \notin Stored \cup Rated \cup Bonding)
      PROVE  ReputationInv'
  <2>1. CASE task' = task
    <3>1. pending' = pending
      BY Zenon, <2>1 DEF pending
    <3>2. active(client.bonds \cup pending)' = active(client.bonds \cup pending) /\ active(task.bonds)' = active(task.bonds)
      BY <1>3, <2>1, <3>1, ZenonT(30) DEF active
    <3> QED BY <1>0, <1>3, <1>a, <1>d, <1>e, <2>1, <3>2 DEF doomedInv, connInv, ratedInv, tierInv, scoreInv, bondInv
  <2>2. CASE task' \in {Idle, Penalty} /\ task \notin Stored \cup Rated \cup Bonding
    <3>1. task' \notin Stored \cup Rated \cup Bonding \cup Connecting
      BY Zenon, <2>2, Differ
    <3>2. pending = {} /\ pending' = {}
      BY <1>b, <1>c, <2>2, <3>1, ZenonT(30)
    <3>3. active(client.bonds \cup pending)' = active(client.bonds \cup pending)
      BY Zenon, <1>3, <3>2 DEF active
    <3> QED BY <1>0, <1>3, <1>a, <1>d, <1>e, <2>2, <3>1, <3>3, ZenonT(30) DEF doomedInv, connInv, ratedInv, tierInv, scoreInv, bondInv
  <2> QED BY <1>3, <2>1, <2>2, ZenonT(30)
<1>4. CASE Penalized \/ ConnectFails
  <2>1. task' = Idle /\ UNCHANGED <<points, bonds, doomed, now, client, excused>>
    BY <1>4, Zenon DEF Penalized, ConnectFails
  <2>2. task = Penalty \/ task \in Connecting
    BY Zenon, <1>4, TaskKinds DEF Penalized, ConnectFails
  <2> QED BY <1>3, <2>1, <2>2, Differ, OneKind
<1>5. CASE unbookUserOrders \/ Unbooked \/ BookOrder \/ Expire \/ handleResponse \/ LinkDrops \/ UNCHANGED vars
  <2>1. task' = task /\ UNCHANGED <<points, bonds, doomed, now, client, excused>>
    BY <1>5, Zenon DEF unbookUserOrders, Unbooked, BookOrder, Expire, handleResponse, LinkDrops, vars
  <2> QED BY <1>3, <2>1
<1>6. CASE ConnectLoads \/ ConnectCaches
  <2>1. task \in Connecting /\ task' \in Connecting /\ task'.bonds = task.bonds
        /\ UNCHANGED <<points, bonds, doomed, now, client, excused>>
    BY <1>6, Loaded, Cached, Zenon
  <2>2. task \notin Stored \cup Rated /\ task' \notin Rated /\ pending = {} /\ pending' = {}
    BY <1>b, <1>c, <2>1, OneKind, ZenonT(30)
  <2>3. bondInv' /\ connInv'
    BY <1>0, <2>1, <2>2 DEF active, connInv, bondInv
  <2>4. doomedInv' /\ ratedInv' /\ tierInv' /\ scoreInv'
    BY <1>0, <1>d, <2>1, <2>2 DEF doomedInv, ratedInv, tierInv, scoreInv
  <2> QED BY <1>a, <2>3, <2>4, Zenon
<1>7. CASE addClient
  <2>1. /\ client'.bonds = task.bonds /\ client'.score = storedScore
        /\ client'.tier = tier(client'.bonds, client'.score)
        /\ task' = Idle /\ task \in Connecting /\ UNCHANGED <<points, bonds, doomed, now>>
    BY <1>7, ClientAdded, Zenon
  <2>2. pending' = {} /\ task' \notin Connecting \cup Rated
    BY <1>c, <2>1, Differ, ZenonT(30)
  <2>3. bondInv'
    BY Zenon, <1>0, <2>1, <2>2 DEF active, bondInv, connInv
  <2>4. doomedInv' /\ ratedInv' /\ connInv'
    BY Zenon, <1>0, <2>1, <2>2 DEF doomedInv, ratedInv, connInv
  <2>5. tierInv' /\ scoreInv'
    BY <1>d, <2>1, Zenon DEF tierInv, scoreInv
  <2> QED BY <1>a, <2>3, <2>4, <2>5, Zenon
<1>8. CASE addBond
  <2>1. /\ task' = Idle /\ UNCHANGED <<points, bonds, doomed, now>>
        /\ \/ client = Nobody /\ client' = client
           \/ client # Nobody /\ Rerated(client.bonds \cup {task.bond})
    BY <1>8, Zenon DEF addBond
  <2>2. task \in Bonding /\ task.bond \in Bonds
    BY <1>8, TaskKinds DEF addBond, Bonding
  <2>3. pending = {task.bond} /\ pending' = {} /\ task' \notin Connecting \cup Rated
    BY <1>c, <2>1, <2>2, Differ, ZenonT(30) DEF pending
  <2>4. ASSUME client' # Nobody
        PROVE  /\ client # Nobody /\ client'.bonds = client.bonds \cup {task.bond}
               /\ client'.score = storedScore /\ client'.tier = tier(client'.bonds, client'.score)
    <3>1. client # Nobody /\ Rerated(client.bonds \cup {task.bond})
      BY <2>1, <2>4
    <3>2. client.bonds \cup {task.bond} \in SUBSET Bonds
      BY <2>2, <3>1 DEF TypeOK, Client
    <3>3. known = points
      BY <2>2, OneKind DEF known
    <3>4. /\ client'.bonds = client.bonds \cup {task.bond}
          /\ client'.score = integrateOutcomes(loadUserOutcomes(known))
          /\ client'.tier = tier(client.bonds \cup {task.bond}, client'.score)
      BY <3>1, <3>2, ReratedClient, Zenon
    <3> QED BY <3>1, <3>3, <3>4 DEF storedScore
  <2>5. bondInv'
    BY <1>0, <2>1, <2>3, <2>4, ZenonT(30) DEF active, bondInv
  <2>6. doomedInv' /\ ratedInv' /\ tierInv' /\ scoreInv' /\ connInv'
    BY <1>0, <1>d, <2>1, <2>3, <2>4 DEF doomedInv, connInv, ratedInv, tierInv, scoreInv
  <2> QED BY <1>a, <2>5, <2>6, Zenon
<1>9. CASE checkBonds
  <2>1. /\ client # Nobody /\ Rerated(active(client.bonds))
        /\ doomed' = doomed \cup (client.bonds \ active(client.bonds))
        /\ UNCHANGED <<points, bonds, task, now>>
    BY <1>9, Zenon DEF checkBonds
  <2>2. client.bonds \in SUBSET Bonds
    BY <2>1 DEF TypeOK, Client
  <2>3. active(client.bonds) \in SUBSET Bonds
    BY <2>2 DEF active
  <2>4. /\ client'.bonds = active(client.bonds)
        /\ client'.score = integrateOutcomes(loadUserOutcomes(known))
        /\ client'.tier = tier(active(client.bonds), client'.score)
    BY <2>1, <2>3, ReratedClient, Zenon
  <2>5. task \notin Stored => client'.score = storedScore
    BY <2>4 DEF known, storedScore
  <2>6. pending' = pending
    BY <2>1 DEF pending
  <2>7. bondInv'
    BY <1>0, <2>1, <2>4, <2>6, ZenonT(30) DEF active, bondInv
  <2>8. doomedInv'
    <3>1. \A b \in client.bonds \ active(client.bonds) : Expires[b] < now
      BY <2>2, AuthAssumption DEF active, TypeOK
    <3> QED BY <1>0, <2>1, <3>1, ZenonT(30) DEF doomedInv, connInv, ratedInv, tierInv, scoreInv, bondInv
  <2>9. connInv'
    BY <1>0, <2>1, ZenonT(30) DEF active, connInv
  <2>10. ratedInv' /\ tierInv' /\ scoreInv'
    BY <1>0, <1>d, <2>1, <2>4, <2>5, ZenonT(30) DEF ratedInv, tierInv, scoreInv
  <2> QED BY <1>a, <2>7, <2>8, <2>9, <2>10, Zenon
<1>10. CASE DeleteBonds
  <2>1. bonds' = bonds \ doomed /\ doomed' = {} /\ UNCHANGED <<points, client, task, now, excused>>
    BY <1>10, Zenon DEF DeleteBonds
  <2>2. active(bonds)' = active(bonds)
    <3>1. \A b \in doomed : Expires[b] < now /\ Expires[b] \in Nat /\ now \in Nat
      BY <1>0, AuthAssumption DEF TypeOK, doomedInv, connInv, ratedInv, tierInv, scoreInv, bondInv
    <3> QED BY <2>1, <3>1, SMTT(30) DEF active
  <2>3. pending' = pending
    BY <2>1 DEF pending
  <2>4. active(client.bonds \cup pending)' = active(client.bonds \cup pending) /\ active(task.bonds)' = active(task.bonds)
    BY <2>1, <2>3 DEF active
  <2> QED BY <1>0, <1>a, <1>d, <2>1, <2>2, <2>4 DEF doomedInv, connInv, ratedInv, tierInv, scoreInv, bondInv
<1>11. ASSUME NEW class \in Classes, NEW bad \in BOOLEAN, AddOutcome(class, bad) PROVE ReputationInv'
  <2> DEFINE o == [id |-> nextID, class |-> class, bad |-> bad]
  <2>1. /\ task = Idle /\ UNCHANGED <<bonds, client, doomed, now>>
        /\ \/ task' = [op |-> "outcome", stage |-> "stored", of |-> o]
           \/ task' = [op |-> "outcome", stage |-> "scored", of |-> o, score |-> 0, failed |-> TRUE]
    BY <1>11, ZenonT(30) DEF AddOutcome
  <2>2. o \in Outcome
    BY DEF TypeOK, Outcome
  <2> HIDE DEF o
  <2>3. task' \in Stored \/ (task' \in Rated /\ task'.failed)
    <3>1. [op |-> "outcome", stage |-> "stored", of |-> o] \in Stored
      BY <2>2 DEF Stored
    <3>2. [op |-> "outcome", stage |-> "scored", of |-> o, score |-> 0, failed |-> TRUE] \in Rated
      BY <2>2 DEF Rated
    <3>3. [op |-> "outcome", stage |-> "scored", of |-> o, score |-> 0, failed |-> TRUE].failed
      BY Zenon
    <3> QED BY <2>1, <3>1, <3>2, <3>3, Zenon
  <2>4. pending = {} /\ pending' = {} /\ task' \notin Connecting
    BY <1>b, <1>c, <2>1, <2>3, Differ, OneKind, ZenonT(30)
  <2>5. bondInv'
    BY <1>0, <2>1, <2>4, ZenonT(30) DEF active, bondInv
  <2>6. doomedInv' /\ connInv' /\ ratedInv' /\ tierInv' /\ scoreInv'
    BY <1>0, <2>1, <2>3, <2>4, OneKind, ZenonT(30) DEF doomedInv, connInv, ratedInv, tierInv, scoreInv
  <2> QED BY <1>a, <2>5, <2>6, Zenon
<1>12. CASE Forgive
  <2>1. /\ task = Idle /\ task' = Idle /\ UNCHANGED <<bonds, doomed, now>>
        /\ client = Nobody => client' = Nobody
        /\ client # Nobody =>
             /\ client'.bonds = client.bonds /\ client'.score = storedScore'
             /\ client'.tier = tier(client.bonds, client'.score)
    BY <1>12, Forgiven, ZenonT(30)
  <2>2. pending = {} /\ pending' = {} /\ task' \notin Connecting \cup Rated
    BY <1>b, <1>c, <2>1, Differ, ZenonT(30)
  <2>3. bondInv'
    BY <1>0, <2>1, <2>2, ZenonT(30) DEF active, bondInv
  <2>4. doomedInv' /\ connInv' /\ ratedInv' /\ tierInv' /\ scoreInv'
    BY <1>0, <2>1, <2>2 DEF doomedInv, connInv, ratedInv, tierInv, scoreInv
  <2> QED BY <1>a, <2>3, <2>4, Zenon
<1>13. ASSUME NEW same \in BOOLEAN, handleConnect(same) PROVE ReputationInv'
  <2>1. /\ task' \in Connecting /\ task'.bonds = active(bonds) /\ task = Idle
        /\ UNCHANGED <<points, bonds, client, doomed, now, excused>>
    BY <1>13, ConnectStarts, Zenon
  <2>2. pending = {} /\ pending' = {} /\ task' \notin Rated /\ task \notin Stored \cup Rated
    BY <1>b, <1>c, <2>1, Differ, OneKind, ZenonT(30)
  <2>3. bondInv' /\ connInv'
    BY <1>0, <2>1, <2>2, ZenonT(30) DEF active, connInv, bondInv
  <2>4. doomedInv' /\ ratedInv' /\ tierInv' /\ scoreInv'
    BY <1>0, <1>d, <2>1, <2>2 DEF doomedInv, ratedInv, tierInv, scoreInv
  <2> QED BY <1>a, <2>3, <2>4, Zenon
<1>14. CASE removeClient \/ (request /\ ~up)
  <2>1. client' = Nobody /\ UNCHANGED <<points, bonds, doomed, now, task>>
    BY <1>14, ZenonT(30) DEF removeClient, request, Removed
  <2>2. connInv'
    BY <1>0, <2>1 DEF active, connInv
  <2>3. doomedInv' /\ ratedInv' /\ tierInv' /\ scoreInv' /\ bondInv'
    BY <1>0, <1>d, <2>1 DEF doomedInv, ratedInv, tierInv, scoreInv, bondInv
  <2> QED BY <1>a, <2>2, <2>3, Zenon
<1>15. CASE request /\ up
  <2>1. task' = task /\ UNCHANGED <<points, bonds, doomed, now, client, excused>>
    BY <1>15, ZenonT(30) DEF request
  <2> QED BY Zenon, <1>3, <2>1
<1>16. ASSUME NEW b \in Bonds, PostBond(b) PROVE ReputationInv'
  <2>1. /\ task = Idle /\ bonds' = bonds \cup {b} /\ task' = [op |-> "bond", bond |-> b]
        /\ UNCHANGED <<points, client, doomed, now, excused>>
    BY <1>16, Zenon DEF PostBond
  <2>2. task' \in Bonding /\ task'.bond = b
    BY <2>1 DEF Bonding
  <2>3. pending = {} /\ pending' = {b} /\ task' \notin Connecting \cup Rated /\ task \notin Stored \cup Rated
    BY <1>b, <2>1, <2>2, Differ, OneKind, ZenonT(30) DEF pending
  <2>4. bondInv'
    BY <1>0, <2>1, <2>3, ZenonT(30) DEF active, bondInv
  <2>5. doomedInv' /\ connInv' /\ ratedInv' /\ tierInv' /\ scoreInv'
    BY <1>0, <1>d, <2>1, <2>3 DEF doomedInv, connInv, ratedInv, tierInv, scoreInv
  <2> QED BY <1>a, <2>4, <2>5, Zenon
<1>17. CASE Tick
  <2>1. now' = now + 1 /\ UNCHANGED <<points, bonds, doomed, task, client, excused>>
    BY <1>17, Zenon DEF Tick
  <2>2. now \in Nat /\ \A b \in Bonds : Expires[b] \in Nat
    BY AuthAssumption DEF TypeOK
  <2>3. doomed \subseteq Bonds /\ bonds \subseteq Bonds /\ (client # Nobody => client.bonds \subseteq Bonds)
        /\ (task \in Connecting => task.bonds \subseteq Bonds) /\ pending \subseteq Bonds
    BY DEF TypeOK, Client, Connecting, Bonding, pending
  <2>4. ASSUME NEW s \in SUBSET Bonds, NEW t \in SUBSET Bonds, active(s) = active(t)
        PROVE  {x \in s : Expires[x] >= now'} = {x \in t : Expires[x] >= now'}
    <3>1. \A x \in Bonds : Expires[x] >= now' => Expires[x] >= now
      BY <2>1, <2>2, SMTT(30)
    <3> QED BY <2>4, <3>1 DEF active
  <2>5. doomedInv'
    BY <1>0, <2>1, <2>2, <2>3 DEF doomedInv
  <2>6. pending' = pending
    BY <2>1 DEF pending
  <2>7. bondInv' /\ connInv'
    BY <1>0, <2>1, <2>3, <2>4, <2>6, ZenonT(30) DEF active, bondInv, connInv
  <2>8. ratedInv' /\ tierInv' /\ scoreInv'
    BY <1>0, <1>d, <2>1 DEF ratedInv, tierInv, scoreInv
  <2> QED BY <1>a, <2>5, <2>7, <2>8, Zenon
<1>18. CASE Restart
  <2>1. client' = Nobody /\ task' = Idle /\ doomed' = {}
    BY <1>18, Zenon DEF Restart
  <2>2. task' \notin Connecting \cup Rated
    BY <2>1, Differ
  <2> QED BY <1>a, <2>1, <2>2, Zenon DEF doomedInv, connInv, ratedInv, tierInv, scoreInv, bondInv
<1> QED BY <1>1, <1>2, <1>4, <1>5, <1>6, <1>7, <1>8, <1>9, <1>10, <1>11, <1>12, <1>13, <1>14,
           <1>15, <1>16, <1>17, <1>18, ZenonT(30) DEF Next, System, Handler, Environment

-----------------------------------------------------------------------------
(* Every step keeps the links and the maps of response handlers *)

\* Every step keeps a request in the map that its link answers to.
LEMMA MapStep ==
  ASSUME TypeOK, TableInv, CacheInv, MapInv, [Next]_vars
  PROVE  MapInv'
<1>1. count.connect \in Nat /\ (client # Nobody => client.link \in Nat) /\ (task \in Connecting => task.link \in Nat)
      /\ (req # NoRequest => req.link \in Nat)
  BY ZenonT(30) DEF TypeOK, Client, Connecting, Request
<1>2. ASSUME UNCHANGED count, req' = req \/ req' = NoRequest,
             client' # Nobody => client # Nobody /\ client'.link = client.link /\ client'.map = client.map,
             task' \in Connecting => task \in Connecting /\ task'.link = task.link /\ task'.map = task.map
      PROVE  MapInv'
  BY <1>2 DEF MapInv
<1>3. CASE ScoreOutcome
  <2>1. UNCHANGED <<count, req, client>> /\ task' \in Rated
    BY <1>3, CacheScores, LoadScores, Zenon
  <2> QED BY <1>2, <2>1, OneKind
<1>4. CASE ApplyScore
  <2>1. UNCHANGED <<count, req>> /\ task' \in {Idle, Penalty}
        /\ (client' # Nobody => client # Nobody /\ client'.link = client.link /\ client'.map = client.map)
    BY <1>4, ScoreApplied, Differ, ZenonT(30)
  <2>2. task' \notin Connecting
    BY <2>1, Differ
  <2> QED BY <1>2, <2>1, <2>2, Zenon
<1>5. CASE Penalized \/ ConnectFails \/ LinkDrops \/ unbookUserOrders \/ Unbooked \/ BookOrder \/ DeleteBonds
           \/ Expire \/ Tick \/ UNCHANGED vars
  <2>1. UNCHANGED <<count, client>> /\ (req' = req \/ req' = NoRequest) /\ (task' = Idle \/ task' = task)
    BY <1>5, Zenon DEF Penalized, ConnectFails, LinkDrops, unbookUserOrders, Unbooked, BookOrder, DeleteBonds,
         Expire, Tick, vars
  <2> QED BY <1>2, <2>1, Differ
<1>6. CASE ConnectLoads \/ ConnectCaches
  <2>1. UNCHANGED <<count, req, client>> /\ task \in Connecting /\ task'.link = task.link /\ task'.map = task.map
    BY <1>6, Loaded, Cached, Zenon
  <2> QED BY <1>2, <2>1
<1>7. CASE addClient
  <2>1. /\ client'.link = task.link /\ client'.map = task.map /\ task' = Idle /\ task \in Connecting
        /\ UNCHANGED <<count, req>>
    BY <1>7, ClientAdded, Zenon
  <2> QED BY <2>1, Differ DEF MapInv
<1>8. CASE addBond
  <2>1. /\ task' = Idle /\ UNCHANGED <<count, req>>
        /\ client' = client \/ (client # Nobody /\ Rerated(client.bonds \cup {task.bond}))
    BY <1>8, Zenon DEF addBond
  <2>2. task.bond \in Bonds
    BY <1>8, TaskKinds DEF addBond, Bonding
  <2>3. client' # Nobody => client # Nobody /\ client'.link = client.link /\ client'.map = client.map
    <3>1. CASE client # Nobody /\ Rerated(client.bonds \cup {task.bond})
      <4>1. client.bonds \cup {task.bond} \in SUBSET Bonds
        BY <2>2, <3>1 DEF TypeOK, Client
      <4> QED BY <3>1, <4>1, ReratedClient, Zenon
    <3> QED BY <2>1, <3>1, Zenon
  <2> QED BY <1>2, <2>1, <2>3, Differ
<1>9. CASE checkBonds
  <2>1. /\ client # Nobody /\ Rerated(active(client.bonds)) /\ UNCHANGED <<count, req, task>>
    BY <1>9, Zenon DEF checkBonds
  <2>2. active(client.bonds) \in SUBSET Bonds
    BY <2>1 DEF TypeOK, Client, active
  <2>3. client'.link = client.link /\ client'.map = client.map
    BY <2>1, <2>2, ReratedClient, Zenon
  <2> QED BY <1>2, <2>1, <2>3
<1>10. CASE \/ \E class \in Classes, bad \in BOOLEAN : AddOutcome(class, bad)
            \/ \E b \in Bonds : PostBond(b)
  <2>1. UNCHANGED <<count, req, client>> /\ task'.op \in {"outcome", "bond"}
    BY <1>10 DEF AddOutcome, PostBond
  <2>2. task' \notin Connecting
    BY Zenon, <2>1 DEF Connecting
  <2> QED BY <1>2, <2>1, <2>2, ZenonT(30)
<1>11. CASE Forgive
  <2>1. UNCHANGED <<count, req, task>>
        /\ (client' # Nobody => client # Nobody /\ client'.link = client.link /\ client'.map = client.map)
    BY <1>11, Forgiven, ZenonT(30)
  <2> QED BY <1>2, <2>1
<1>12. ASSUME NEW same \in BOOLEAN, handleConnect(same) PROVE MapInv'
  <2>1. /\ task' \in Connecting
        /\ task'.link = (IF same THEN client.link ELSE count.connect + 1)
        /\ task'.map = (IF client # Nobody THEN client.map ELSE count.connect + 1)
        /\ count'.connect = count.connect + 1
        /\ same => client # Nobody
        /\ UNCHANGED <<client, req>>
    BY <1>12, ConnectStarts, Zenon
  <2>2. (req # NoRequest => req.stage = "sent" /\ req.link <= count.connect)
        /\ (client # Nobody => client.link <= count.connect)
        /\ (client # Nobody /\ req # NoRequest /\ client.link = req.link => client.map = req.map)
    BY Zenon DEF MapInv
  <2>3. task'.link <= count'.connect
    BY <1>1, <2>1, <2>2, SMTT(30)
  <2>4. /\ req' # NoRequest => req'.stage = "sent" /\ req'.link <= count'.connect
        /\ client' # Nobody => client'.link <= count'.connect
    BY <1>1, <2>1, <2>2
  <2>5. req # NoRequest /\ task'.link = req.link => task'.map = req.map
    <3>1. CASE same
      BY <2>1, <2>2, <3>1
    <3>2. CASE ~same
      BY <1>1, <2>1, <2>2, <3>2
    <3> QED BY <3>1, <3>2
  <2>6. client # Nobody /\ task'.link = client.link => task'.map = client.map
    BY <2>1, ZenonT(30)
  <2> QED BY <2>1, <2>2, <2>3, <2>4, <2>5, <2>6, ZenonT(30) DEF MapInv
<1>13. CASE removeClient \/ (request /\ ~up)
  <2>1. client' = Nobody /\ UNCHANGED <<req, task>> /\ count'.connect = count.connect
    BY <1>13, ZenonT(30) DEF removeClient, request, Removed, TypeOK
  <2> QED BY Zenon, <2>1 DEF MapInv
<1>14. CASE request /\ up
  <2>1. /\ client # Nobody /\ UNCHANGED <<client, task>>
        /\ req' = [stage |-> "sent", link |-> client.link, map |-> client.map]
    BY <1>14, ZenonT(30) DEF request
  <2>2. count'.connect = count.connect
    BY <1>14, ZenonT(30) DEF request, TypeOK
  <2>3. req'.stage = "sent" /\ req'.link = client.link /\ req'.map = client.map
    BY Zenon, <2>1
  <2> HIDE <2>1
  <2>4. client # Nobody /\ UNCHANGED <<client, task>>
    BY Zenon, <2>1
  <2> QED BY <2>2, <2>3, <2>4 DEF MapInv
<1>15. CASE handleResponse
  <2>1. /\ req.stage = "sent" /\ client # Nobody /\ client.link = req.link
        /\ req' = (IF client.map = req.map THEN NoRequest ELSE [req EXCEPT !.stage = "unheard"])
        /\ UNCHANGED <<count, client, task>>
    BY <1>15, ZenonT(30) DEF handleResponse
  <2>2. req # NoRequest
    BY <2>1 DEF NoRequest
  <2>3. req' = NoRequest
    BY <2>1, <2>2, ZenonT(30) DEF MapInv
  <2> QED BY <1>2, <2>1, <2>3
<1>16. CASE Restart
  <2>1. client' = Nobody /\ task' = Idle /\ req' = NoRequest
    BY <1>16, Zenon DEF Restart
  <2> QED BY Zenon, <2>1, Differ DEF MapInv
<1> QED BY <1>3, <1>4, <1>5, <1>6, <1>7, <1>8, <1>9, <1>10, <1>11, <1>12, <1>13, <1>14,
           <1>15, <1>16, ZenonT(30) DEF Next, System, Handler, Environment

-----------------------------------------------------------------------------
(* Every step keeps the timer stopped while the user is connected *)

\* No step starts the timer of a connected user or connects past a timer.
LEMMA TimerStep ==
  ASSUME TypeOK, TimerInv, [Next]_vars
  PROVE  TimerInv'
<1>1. CASE ApplyScore
  <2>1. UNCHANGED timers /\ (client = Nobody => client' = Nobody)
    BY <1>1, ScoreApplied, Differ, ZenonT(30)
  <2> QED BY <2>1 DEF TimerInv, timers
<1>2. CASE Forgive
  <2>1. UNCHANGED timers /\ (client = Nobody => client' = Nobody)
    BY <1>2, Forgiven, ZenonT(30)
  <2> QED BY Zenon, <2>1 DEF TimerInv, timers
<1>3. CASE Penalized \/ Unbooked \/ addClient
  <2>1. timer' = "none"
    BY <1>3, Zenon DEF Penalized, Unbooked, addClient, DeletesEntry
  <2> QED BY <2>1 DEF TimerInv
<1>4. CASE removeClient \/ Restart \/ (request /\ ~up)
  <2>1. client' = Nobody
    BY <1>4, Zenon DEF removeClient, Restart, request, Removed
  <2> QED BY <2>1 DEF TimerInv
<1>5. CASE unbookUserOrders
  <2>1. client' = client /\ (timer' = "fired" \/ timer' = timer)
    BY <1>5, Zenon DEF unbookUserOrders
  <2> QED BY Zenon, <2>1 DEF TimerInv
<1>6. CASE addBond \/ checkBonds
  <2>1. UNCHANGED timers /\ (client = Nobody => client' = Nobody)
    BY <1>6, Zenon DEF addBond, checkBonds
  <2> QED BY Zenon, <2>1 DEF TimerInv, timers
<1>7. CASE \/ ScoreOutcome \/ ConnectLoads \/ ConnectCaches \/ ConnectFails \/ DeleteBonds \/ Expire
           \/ \E class \in Classes, bad \in BOOLEAN : AddOutcome(class, bad)
           \/ \E same \in BOOLEAN : handleConnect(same)
           \/ LinkDrops \/ BookOrder \/ (\E b \in Bonds : PostBond(b)) \/ (request /\ up)
           \/ handleResponse \/ Tick \/ UNCHANGED vars
  <2>1. UNCHANGED timers /\ client' = client
    BY <1>7, ZenonT(60) DEF ScoreOutcome, ConnectLoads, ConnectCaches, ConnectFails, DeleteBonds, Expire, AddOutcome,
         handleConnect, LinkDrops, BookOrder, PostBond, request, handleResponse, Tick, vars
  <2> QED BY <2>1 DEF TimerInv, timers
<1> QED BY <1>1, <1>2, <1>3, <1>4, <1>5, <1>6, <1>7, ZenonT(30) DEF Next, System, Handler, Environment

-----------------------------------------------------------------------------
(* The theorems *)

IInv == TypeOK /\ TableInv /\ CacheInv /\ ReputationInv /\ MapInv /\ TimerInv

\* IInv holds initially and every step keeps it.
LEMMA Inductive == ~Overlap => (Spec => []IInv)
<1> SUFFICES ASSUME ~Overlap PROVE Spec => []IInv
  BY Zenon
<1>1. Init => IInv
  <2> SUFFICES ASSUME Init PROVE IInv
    BY Zenon
  <2>1. points = {} /\ task = Idle /\ client = Nobody /\ cache = NoCache /\ doomed = {} /\ req = NoRequest
    BY Zenon DEF Init
  <2>2. {} \in History
    BY FS_EmptySet DEF History
  <2>3. TypeOK
    <3>1. count \in [connect : Nat, request : Nat, crash : Nat]
      BY Zenon DEF Init
    <3>2. nextID \in Nat \ {0} /\ now \in Nat /\ bonds = {} /\ up = FALSE
      BY SMTT(30) DEF Init
    <3> QED BY <2>1, <2>2, <3>1, <3>2, ZenonT(30) DEF TypeOK
  <2>4. TableInv /\ CacheInv /\ ReputationInv /\ MapInv /\ TimerInv
    BY <2>1, Differ DEF TableInv, CacheInv, ReputationInv, MapInv, TimerInv
  <2> QED BY <2>3, <2>4 DEF IInv
<1>2. IInv /\ [Next]_vars => IInv'
  <2> SUFFICES ASSUME TypeOK, TableInv, CacheInv, ReputationInv, MapInv, TimerInv, [Next]_vars PROVE IInv'
    BY Zenon DEF IInv
  <2>1. TypeOK'
    BY TypeStep, Zenon
  <2>2. TableInv' /\ CacheInv' /\ ReputationInv' /\ MapInv' /\ TimerInv'
    BY <2>1, TableStep, CacheStep, ReputationStep, MapStep, TimerStep, Zenon
  <2> QED BY Zenon, <2>1, <2>2 DEF IInv
<1> QED BY <1>1, <1>2, PTL DEF Spec

\* The cached outcome lists of a connected user are the latest outcomes in the
\* table, for lists of any length and histories of any length, as long as a
\* user connects on a second link only after the first was removed.
THEOREM CacheFollowsTable == ~Overlap => (Spec => []CacheIsHistory)
<1>1. IInv => CacheIsHistory
  <2> SUFFICES ASSUME TypeOK, CacheInv PROVE CacheIsHistory
    BY Zenon DEF IInv
  <2>1. task \in Stored => task.op = "outcome" /\ task.stage = "stored"
    BY ZenonT(30) DEF Stored
  <2> QED BY Zenon, <2>1 DEF CacheIsHistory, UserIsRated, CacheInv, known
<1> QED BY <1>1, Inductive, PTL

\* A connected user for whom no handler runs has the score, the tier and the
\* active bonds that storage says, for any scoring parameters and bonds.
THEOREM ReputationFollowsStorage == ~Overlap => (Spec => []ReputationIsCurrent)
<1>1. IInv => ReputationIsCurrent
  <2> SUFFICES ASSUME ReputationInv, client # Nobody, task = Idle, ~excused
               PROVE  /\ client.score = storedScore
                      /\ client.tier = tier(client.bonds, client.score)
                      /\ active(client.bonds) = active(bonds)
    BY Zenon DEF IInv, ReputationIsCurrent, storedScore
  <2>1. task \notin Stored \cup Rated /\ task \notin Bonding
    BY Zenon, Differ
  <2>2. client.bonds \cup pending = client.bonds
    BY <2>1, ZenonT(30) DEF pending
  <2> QED BY Zenon, <2>1, <2>2 DEF ReputationInv
<1> QED BY <1>1, Inductive, PTL

\* An answer over the link of the request finds its handler, however often the
\* user authenticated again.
THEOREM AnswersAreHeard == ~Overlap => (Spec => []AnswerIsHeard)
<1>1. IInv => AnswerIsHeard
  <2>1. NoRequest.stage = "none"
    BY Zenon DEF NoRequest
  <2> QED BY Zenon, <2>1 DEF IInv, MapInv, AnswerIsHeard
<1> QED BY <1>1, Inductive, PTL

\* No step takes a connected user's orders off the book, but a penalty or a
\* timer that has lost its entry.
THEOREM OrdersStayWhileConnected == ~Overlap => (Spec => KeepsOrdersWhileConnected)
<1> DEFINE Keeps == (client # Nobody /\ booked /\ ~booked') => (stray \/ task'.op = "penalize")
<1>1. IInv /\ [Next]_vars => [Keeps]_vars
  <2> SUFFICES ASSUME TypeOK, TimerInv, Next, client # Nobody, booked, ~booked'
               PROVE  stray \/ task'.op = "penalize"
    BY Zenon DEF IInv
  <2>1. CASE ApplyScore
    <3>1. task' = Penalty
      BY <2>1, ScoreApplied, ZenonT(30)
    <3> QED BY Zenon, <3>1 DEF Penalty
  <2>2. CASE unbookUserOrders
    BY <2>2, Zenon DEF unbookUserOrders, TimerInv
  <2>3. ASSUME booked' = booked \/ booked' = TRUE PROVE FALSE
    BY <2>3, Zenon
  <2>4. ~BookOrder
    BY Zenon DEF BookOrder
  <2> QED BY <2>1, <2>2, <2>3, <2>4, ZenonT(60) DEF Next, System, Handler, Environment, ScoreOutcome, Penalized, ConnectLoads,
       ConnectCaches, ConnectFails, addClient, addBond, removeClient, Unbooked, checkBonds, DeleteBonds, Expire, AddOutcome,
       Forgive, handleConnect, LinkDrops, PostBond, request, handleResponse, Tick, Restart
<1>2. Spec /\ []IInv => KeepsOrdersWhileConnected
  BY <1>1, PTL DEF Spec, KeepsOrdersWhileConnected
<1> QED BY <1>2, Inductive, PTL
=============================================================================
