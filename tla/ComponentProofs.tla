-------------------------- MODULE ComponentProofs ---------------------------
(***************************************************************************)
(* Proofs about the parts of the server that stand by themselves.          *)
(*                                                                         *)
(* 1. The Swapper's maps of contracts and secret hashes, for every set of  *)
(* matches, contracts and hashes: as long as no restart loads a deleted    *)
(* match, two tracked matches share neither a contract nor a maker's       *)
(* secret hash.                                                            *)
(*                                                                         *)
(* 2. The wait queues, for any waiters, expirations and capacity. A waiter *)
(* that can still be tried or expired has not ended yet: the list of a     *)
(* pass holds waiters that have not ended, as long as the context is not   *)
(* done; after that only the deferred function of Run ends waiters.        *)
(*                                                                         *)
(* 3. The coin lockers, and the use Market and Swapper make of them, for   *)
(* any orders, coins, markets and number of matches. An order's list only  *)
(* ever names its own coins. That waiting orders share no coin is not      *)
(* inductive: an order may take a coin that another one is about to unlock *)
(* a second time. FundInv says why that cannot be. Whoever is going to     *)
(* unlock coins in the ordinary way still holds them, and holders exclude  *)
(* each other; the one other unlock, that of SwapDone, is remembered in    *)
(* atFault.                                                                *)
(*                                                                         *)
(* 4. The epoch pump implements the epoch queue, for any epochs. The fact  *)
(* that makes it true is a count: until the channel is closed there are as *)
(* many tokens under way on newQ as epochs in q, and one more once the     *)
(* halt has sent its own. So the loop finds q empty only on the halt's     *)
(* token, with nothing left behind.                                        *)
(*                                                                         *)
(* 5. The market, for every epoch duration, any number of epochs, orders,  *)
(* suspends and resumes, and any time. A scheduled suspend is never        *)
(* overtaken: cycleEpoch compares suspendEpochIdx with one value only, so  *)
(* a schedule below the epoch being closed would be missed for ever; the   *)
(* invariant is that the schedule is at or above the epoch the loop will   *)
(* close next. A stopped market's book is at rest: the market uses its     *)
(* pump as EpochPump allows, so the pump's invariant holds in the market;  *)
(* a pump that is drained has nothing left.                                *)
(***************************************************************************)
EXTENDS Market, OrderFunding, WaitQueue, SwapDedup, TLAPS

(* Contracts and secret hashes in use *)

\* The invariant holds in every reachable state of the maps' specification.
THEOREM DedupInvariant == DedupSpec => []DedupInv
\* A step that leaves life, the maps and revived alone and only moves
\* entries between registered, stored and swaps keeps the ownership facts.
<1>SameMapsKeepOwnership.
    ASSUME ListsNameOwned, TrackedOwn, UNCHANGED <<life, mapVars>>,
           (registered \cup stored \cup swaps)'
               \subseteq registered \cup stored \cup swaps
    PROVE  ListsNameOwned' /\ TrackedOwn'
    BY <1>SameMapsKeepOwnership, Zenon DEF ListsNameOwned, TrackedOwn, Owns, Live, mapVars
\* addMatch keeps the invariant: a new match has no entries.
<1>AddKeepsInv.
    ASSUME DedupInv, NEW m \in Matches, addMatch(m)
    PROVE  DedupInv'
  <2> USE <1>AddKeepsInv
    <2> USE DedupAssumption DEF addMatch, mapVars, DedupInv
    <2>1. TypeOK'
      BY Zenon DEF TypeOK
    <2>2. SwapsAreTracked'
      BY Zenon DEF SwapsAreTracked, Live, TypeOK, Entries
    <2>3. NewHaveNoEntry'
      BY Zenon DEF NewHaveNoEntry, TypeOK, Entries
    <2>4. ASSUME revived' = {} PROVE ListsNameOwned'
      BY Zenon, <2>4 DEF ListsNameOwned
    <2>5. ASSUME revived' = {} PROVE TrackedOwn'
      BY <2>5 DEF TrackedOwn, Live, Owns, NewHaveNoEntry, SwapsAreTracked,
                  TypeOK, Entries
    <2> QED BY Zenon, <2>1, <2>2, <2>3, <2>4, <2>5
\* deleteMatch keeps it: the entries the reverse lists of m name are m's.
<1>DeleteKeepsInv.
    ASSUME DedupInv, NEW m \in Matches, NEW after \in {"deleted", "over"},
           deleteMatch(m, after)
    PROVE  DedupInv'
  <2> USE <1>DeleteKeepsInv
    <2> USE DedupAssumption DEF deleteMatch, Released, DedupInv
    <2>1. TypeOK'
      BY Zenon DEF TypeOK
    <2>2. SwapsAreTracked'
      BY Zenon DEF SwapsAreTracked, Live, TypeOK, Entries
    <2>3. NewHaveNoEntry'
      BY Zenon DEF NewHaveNoEntry, TypeOK, Entries
    <2>4. ASSUME revived' = {} PROVE ListsNameOwned'
      <3> USE <2>4
      <3>1. ASSUME NEW n \in Matches, NEW c \in matchCoinIDs'[n]
            PROVE  activeCoinIDs'[c] = n
        BY ZenonT(30), <3>1 DEF ListsNameOwned, TypeOK
      <3>2. ASSUME NEW n \in Matches, NEW h \in matchSecretHashes'[n]
            PROVE  activeSecretHashes'[h] = n
        BY ZenonT(30), <3>2 DEF ListsNameOwned, TypeOK
      <3> QED BY Zenon, <3>1, <3>2 DEF ListsNameOwned
    <2>5. ASSUME revived' = {} PROVE TrackedOwn'
      <3> SUFFICES ASSUME NEW e \in (registered \cup stored \cup swaps)',
                          Live(e.match)'
                   PROVE  Owns(e)'
        BY Zenon DEF TrackedOwn
      <3>1. e \in Entries /\ e.match \in Matches /\ e.contract \in Contracts
        BY Zenon DEF TypeOK, Entries
      <3>2. e.match # m /\ Live(e.match) /\ Owns(e)
        BY Zenon, <2>5, <3>1 DEF Live, TypeOK, TrackedOwn
      <3>3. activeCoinIDs'[e.contract] = e.match
        BY Zenon, <2>5, <3>1, <3>2 DEF Owns, ListsNameOwned, TypeOK
      <3>4. ASSUME e.side = "maker"
            PROVE  activeSecretHashes'[HashOf[e.contract]] = e.match
        BY Zenon, <2>5, <3>1, <3>2, <3>4 DEF Owns, ListsNameOwned, TypeOK
      <3> QED BY Zenon, <3>3, <3>4 DEF Owns
    <2> QED BY Zenon, <2>1, <2>2, <2>3, <2>4, <2>5
\* failMatch keeps it: it touches no tracked match.
<1>FailKeepsInv.
    ASSUME DedupInv, NEW m \in Matches, failMatch(m)
    PROVE  DedupInv'
  <2> USE <1>FailKeepsInv
    <2> USE DedupAssumption DEF failMatch, mapVars, DedupInv
    <2>1. TypeOK'
      BY Zenon DEF TypeOK
    <2>2. SwapsAreTracked'
      BY Zenon DEF SwapsAreTracked, Live, TypeOK, Entries
    <2>3. NewHaveNoEntry'
      BY Zenon DEF NewHaveNoEntry, TypeOK, Entries
    <2>4. ASSUME revived' = {} PROVE ListsNameOwned'
      BY Zenon, <2>4 DEF ListsNameOwned
    <2>5. ASSUME revived' = {} PROVE TrackedOwn'
      BY ZenonT(30), <2>5 DEF TrackedOwn, Live, Owns, TypeOK, Entries
    <2> QED BY Zenon, <2>1, <2>2, <2>3, <2>4, <2>5
\* register keeps it: the entry it writes was free or the match's own.
<1>RegisterKeepsInv.
    ASSUME DedupInv, NEW e \in Entries, register(e)
    PROVE  DedupInv'
  <2> USE <1>RegisterKeepsInv
    <2> USE DedupAssumption DEF DedupInv
    <2>0. e.match \in Matches /\ e.contract \in Contracts
          /\ HashOf[e.contract] \in Hashes
      BY Zenon DEF Entries
    <2>1. TypeOK'
      BY <2>0 DEF TypeOK, register
    <2>2. SwapsAreTracked'
      BY Zenon DEF SwapsAreTracked, Live, register
    <2>3. NewHaveNoEntry'
      BY Zenon DEF NewHaveNoEntry, register
    <2>a. activeCoinIDs[e.contract] \in {NoMatch, e.match}
      BY Zenon DEF register, Refused, InUse
    <2>b. e.side = "maker" =>
              activeSecretHashes[HashOf[e.contract]] \in {NoMatch, e.match}
      BY Zenon DEF register, Refused, InUse
    <2>4. ASSUME revived' = {} PROVE ListsNameOwned'
      <3>0. ListsNameOwned
        BY Zenon, <2>4 DEF register
      <3>1. ASSUME NEW n \in Matches, NEW c \in matchCoinIDs'[n]
            PROVE  activeCoinIDs'[c] = n
        <4>1. /\ activeCoinIDs' = [activeCoinIDs EXCEPT ![e.contract] = e.match]
              /\ activeCoinIDs \in [Contracts -> Matches \cup {NoMatch}]
          BY Zenon DEF register, TypeOK
        <4>2. c \in matchCoinIDs[n] \/ (c = e.contract /\ n = e.match)
          BY ZenonT(30), <2>0, <3>1 DEF register, TypeOK
        <4>3. c \in Contracts
          BY Zenon, <2>1, <3>1 DEF TypeOK
        <4>4. c \in matchCoinIDs[n] => activeCoinIDs[c] = n /\ n # NoMatch
          BY Zenon, <3>0 DEF ListsNameOwned
        <4>5. CASE c = e.contract
          BY Zenon, <2>a, <4>1, <4>2, <4>3, <4>4, <4>5
        <4>6. CASE c # e.contract
          BY Zenon, <4>1, <4>2, <4>3, <4>4, <4>6
        <4> QED BY Zenon, <4>5, <4>6
      <3>2. ASSUME NEW n \in Matches, NEW h \in matchSecretHashes'[n]
            PROVE  activeSecretHashes'[h] = n
        <4>1. h \in matchSecretHashes[n] => activeSecretHashes[h] = n /\ n # NoMatch
          BY Zenon, <3>0 DEF ListsNameOwned
        <4>2. CASE e.side # "maker"
          BY Zenon, <3>2, <4>1, <4>2 DEF register
        <4>3. CASE e.side = "maker"
          <5> DEFINE k == HashOf[e.contract]
          <5>1. /\ activeSecretHashes' = [activeSecretHashes EXCEPT ![k] = e.match]
                /\ activeSecretHashes \in [Hashes -> Matches \cup {NoMatch}]
            BY Zenon, <4>3 DEF register, TypeOK
          <5>2. h \in matchSecretHashes[n] \/ (h = k /\ n = e.match)
            <6>1. /\ matchSecretHashes' = [matchSecretHashes EXCEPT
                         ![e.match] = IF activeSecretHashes[k] = NoMatch THEN @ \cup {k} ELSE @]
                  /\ matchSecretHashes \in [Matches -> SUBSET Hashes]
              BY Zenon, <4>3 DEF register, TypeOK
            <6> HIDE DEF k
            <6> QED BY ZenonT(30), <2>0, <3>2, <6>1
          <5>3. h \in Hashes
            BY Zenon, <2>1, <3>2 DEF TypeOK
          <5>4. activeSecretHashes[k] \in {NoMatch, e.match}
            BY Zenon, <2>b, <4>3
          <5> HIDE DEF k
          <5>5. CASE h = k
            BY Zenon, <4>1, <5>1, <5>2, <5>3, <5>4, <5>5
          <5>6. CASE h # k
            BY Zenon, <4>1, <5>1, <5>2, <5>3, <5>6
          <5> QED BY Zenon, <5>5, <5>6
        <4> QED BY Zenon, <4>2, <4>3
      <3> QED BY Zenon, <3>1, <3>2 DEF ListsNameOwned
    <2>5. ASSUME revived' = {} PROVE TrackedOwn'
      <3> SUFFICES ASSUME NEW x \in (registered \cup stored \cup swaps)',
                          Live(x.match)'
                   PROVE  Owns(x)'
        BY Zenon DEF TrackedOwn
      <3>1. x \in Entries /\ x.match \in Matches /\ x.contract \in Contracts
            /\ HashOf[x.contract] \in Hashes
        BY Zenon, <2>1 DEF TypeOK, Entries
      <3>2. CASE x = e
        BY ZenonT(30), <2>0, <3>2 DEF Owns, register, TypeOK
      <3>3. CASE x # e
        <4>1. Owns(x)
          BY Zenon, <2>5, <3>3 DEF register, TrackedOwn, Live
        <4>2. activeCoinIDs'[x.contract] = x.match
          BY Zenon, <2>0, <2>a, <3>1, <4>1 DEF Owns, register, TypeOK
        <4>3. ASSUME x.side = "maker"
              PROVE  activeSecretHashes'[HashOf[x.contract]] = x.match
          BY ZenonT(30), <2>0, <2>b, <3>1, <4>1, <4>3 DEF Owns, register, TypeOK
        <4> QED BY Zenon, <4>2, <4>3 DEF Owns
      <3> QED BY Zenon, <3>2, <3>3
    <2> QED BY Zenon, <2>1, <2>2, <2>3, <2>4, <2>5
\* Every other step of a coin waiter keeps it.
<1>WaiterStepKeepsInv.
    ASSUME DedupInv, NEW e \in Entries, WaiterStep(e)
    PROVE  DedupInv'
  <2> USE <1>WaiterStepKeepsInv
    <2> USE DedupAssumption DEF DedupInv
    <2>0. CASE register(e)
      BY Zenon, <2>0, <1>RegisterKeepsInv
    <2> DEFINE Moved == (registered \cup stored \cup swaps)'
                            \subseteq registered \cup stored \cup swaps
               Same == UNCHANGED <<life, mapVars, revived>>
    <2>1. ASSUME TypeOK', SwapsAreTracked', NewHaveNoEntry', Moved, Same
          PROVE  DedupInv'
      BY Zenon, <2>1, <1>SameMapsKeepOwnership
    <2> HIDE DEF Moved, Same
    <2>2. CASE handleInit(e)
      <3> USE <2>2 DEF handleInit
      <3>1. TypeOK' /\ Same
        BY Zenon DEF TypeOK, mapVars, Same
      <3>2. SwapsAreTracked' /\ Moved
        BY Zenon DEF SwapsAreTracked, Live, Moved
      <3>3. NewHaveNoEntry'
        BY Zenon DEF NewHaveNoEntry
      <3> QED BY Zenon, <2>1, <3>1, <3>2, <3>3
    <2>3. CASE giveUp(e) \/ reject(e) \/ storeError(e)
      <3> USE <2>3 DEF giveUp, reject, storeError
      <3>1. TypeOK' /\ Same
        BY Zenon DEF TypeOK, mapVars, Same
      <3>2. SwapsAreTracked' /\ Moved
        BY Zenon DEF SwapsAreTracked, Live, Moved
      <3>3. NewHaveNoEntry'
        BY Zenon DEF NewHaveNoEntry
      <3> QED BY Zenon, <2>1, <3>1, <3>2, <3>3
    <2>4. CASE SaveContract(e) \/ update(e)
      <3> USE <2>4 DEF SaveContract, update, Replace
      <3>1. TypeOK' /\ Same
        BY Zenon DEF TypeOK, mapVars, Same
      <3>2. SwapsAreTracked' /\ Moved
        BY DEF SwapsAreTracked, Live, Moved
      <3>3. NewHaveNoEntry'
        BY Zenon DEF NewHaveNoEntry
      <3> QED BY Zenon, <2>1, <3>1, <3>2, <3>3
    <2> QED BY Zenon, <2>0, <2>2, <2>3, <2>4 DEF WaiterStep
\* A restart keeps it: when no deleted match is loaded, the stored contracts
\* of the rows loaded are owned by their matches, so each has one user.
<1>RestartKeepsInv.
    ASSUME DedupInv, Restart
    PROVE  DedupInv'
  <2> USE <1>RestartKeepsInv
    <2> USE DedupAssumption DEF DedupInv
    <2>1. TypeOK'
      BY DEF TypeOK, Restart, Rows, Active, Users, Makers
    <2>2. SwapsAreTracked'
      BY Zenon DEF SwapsAreTracked, Live, Restart, Rows, Active, TypeOK, Entries
    <2>3. NewHaveNoEntry'
      BY Zenon DEF NewHaveNoEntry, Restart, Active, TypeOK, Entries
    <2>4. ASSUME revived' = {} PROVE ListsNameOwned' /\ TrackedOwn'
      <3>1. revived = {} /\ \A m \in Matches : life[m] # "deleted"
        BY Zenon, <2>4 DEF Restart
      <3>2. \A x \in Rows : Owns(x)
        BY Zenon, <3>1 DEF Rows, Active, TrackedOwn, Live, TypeOK, Entries
      <3>3. \A c \in Contracts : Users(c) \subseteq {activeCoinIDs[c]}
        BY Zenon, <3>2 DEF Users, Owns
      <3>4. \A h \in Hashes : Makers(h) \subseteq {activeSecretHashes[h]}
        BY Zenon, <3>2 DEF Makers, Owns
      <3>5. \A c \in Contracts : \A m \in Users(c) : activeCoinIDs'[c] = m
        BY Zenon, <3>3 DEF Restart, Owner
      <3>6. \A h \in Hashes : \A m \in Makers(h) : activeSecretHashes'[h] = m
        BY Zenon, <3>4 DEF Restart, Owner
      <3>7. ListsNameOwned'
        <4>1. ASSUME NEW n \in Matches, NEW c \in matchCoinIDs'[n]
              PROVE  activeCoinIDs'[c] = n
          BY Zenon, <3>5, <4>1 DEF Restart
        <4>2. ASSUME NEW n \in Matches, NEW h \in matchSecretHashes'[n]
              PROVE  activeSecretHashes'[h] = n
          BY Zenon, <3>6, <4>2 DEF Restart
        <4> QED BY Zenon, <4>1, <4>2 DEF ListsNameOwned
      <3>8. TrackedOwn'
        <4> SUFFICES ASSUME NEW x \in (registered \cup stored \cup swaps)',
                            Live(x.match)'
                     PROVE  Owns(x)'
          BY Zenon DEF TrackedOwn
        <4>1. x \in Rows /\ x \in Entries /\ x.match \in Matches
              /\ x.contract \in Contracts /\ HashOf[x.contract] \in Hashes
          BY Zenon DEF Restart, Rows, Active, Live, TypeOK, Entries
        <4>2. x.match \in Users(x.contract)
          BY Zenon, <4>1 DEF Users
        <4>3. x.side = "maker" => x.match \in Makers(HashOf[x.contract])
          BY Zenon, <4>1 DEF Makers
        <4> QED BY Zenon, <3>5, <3>6, <4>1, <4>2, <4>3 DEF Owns
      <3> QED BY Zenon, <3>7, <3>8
    <2> QED BY Zenon, <2>1, <2>2, <2>3, <2>4
  <1> USE DedupAssumption
  <1>1. DedupInit => DedupInv
    BY DEF DedupInit, DedupInv, TypeOK, SwapsAreTracked, NewHaveNoEntry,
           ListsNameOwned, TrackedOwn
  <1>2. DedupInv /\ [DedupNext]_dedupVars => DedupInv'
    <2> SUFFICES ASSUME DedupInv, [DedupNext]_dedupVars PROVE DedupInv'
      BY Zenon
    <2>1. ASSUME NEW m \in Matches, MatchStep(m) PROVE DedupInv'
      BY Zenon, <2>1, <1>AddKeepsInv, <1>DeleteKeepsInv, <1>FailKeepsInv DEF MatchStep
    <2>2. ASSUME NEW e \in Entries, WaiterStep(e) PROVE DedupInv'
      BY Zenon, <2>2, <1>WaiterStepKeepsInv
    <2>3. CASE Restart
      BY Zenon, <2>3, <1>RestartKeepsInv
    <2>4. CASE UNCHANGED dedupVars
      BY Zenon, <2>4 DEF dedupVars, mapVars, DedupInv, TypeOK, SwapsAreTracked,
                  NewHaveNoEntry, ListsNameOwned, TrackedOwn, Owns, Live
    <2> QED BY Zenon, <2>1, <2>2, <2>3, <2>4 DEF DedupNext
  <1> QED BY <1>1, <1>2, PTL DEF DedupSpec

\* No two tracked matches use the same contract, and no two makers the same
\* secret hash, until a restart loads a deleted match (processInit's check,
\* deleteMatch, restoreActiveSwaps).
THEOREM MatchesAreExclusive == DedupSpec => []NothingServesTwo
  <1>1. DedupInv /\ revived = {} => OneMatchPerContract
    BY Zenon DEF DedupInv, OneMatchPerContract, TrackedOwn, SwapsAreTracked, Owns
  <1>2. DedupInv /\ revived = {} => OneMatchPerSecret
    BY Zenon DEF DedupInv, OneMatchPerSecret, TrackedOwn, SwapsAreTracked, Owns
  <1>3. DedupInv => NothingServesTwo
    BY Zenon, <1>1, <1>2 DEF NothingServesTwo
  <1> QED BY <1>3, DedupInvariant, PTL

-----------------------------------------------------------------------------
(* The wait queues *)

OfTicker == {"new", "refused", "first", "appending", "listed", "done", "expired"}
OfTapering == {"new", "refused", "sending", "channel", "waiting", "trying",
               "resending", "done", "expired"}

States == IF kind = "ticker" THEN OfTicker ELSE OfTapering
Passes == [on : {TRUE}, left : SUBSET Waiters, agains : SUBSET Waiters, tNow : Nat]

WaitTypeOK ==
  /\ kind \in {"ticker", "tapering"}
  /\ st \in [Waiters -> States]
  /\ ends \in [Waiters -> Nat]
  /\ list \in SUBSET Waiters
  /\ pass = NoPass \/ pass \in Passes
  /\ run \in {"running", "draining", "returned"}
  /\ canceled \in BOOLEAN /\ time \in Nat
  /\ kind = "tapering" => list = {} /\ pass = NoPass
  /\ kind = "ticker" => run # "draining"
  /\ pass # NoPass => run = "running"

\* Whom this pass, or the next one, will try.
Tried == IF pass.on THEN pass.left \cup pass.agains ELSE list

\* Those who may still be told of their end have not been.
UnendedAreLive ==
  /\ \A w \in Waiters : st[w] \notin {"done", "expired"} => ends[w] = 0
  /\ ~canceled => \A w \in Tried : st[w] = "listed"
  /\ pass.on => pass.left \cap pass.agains = {}
  /\ EndsOnce

WaitInv == WaitTypeOK /\ UnendedAreLive

\* A waiter is told of its end once, for any waiters, expirations and channel
\* capacity, however tries, the list, the channel and the shutdown interleave;
\* twice at most in a ticker queue stopped during a pass.
THEOREM EveryWaiterEndsOnce == WaitSpec => []EndsOnce
<1>PassOrNone.
  ASSUME WaitTypeOK
  PROVE  /\ pass.on => pass \in Passes /\ pass # NoPass
         /\ ~pass.on => pass = NoPass
  <2> USE <1>PassOrNone
  <2>1. NoPass.on = FALSE
    BY Zenon DEF NoPass
  <2>2. \A p \in Passes : p.on = TRUE
    BY ZenonT(30) DEF Passes
  <2> QED
    BY Zenon, <2>1, <2>2 DEF WaitTypeOK
<1>TriedAreWaiters.
  ASSUME WaitTypeOK PROVE Tried \subseteq Waiters
  <2> USE <1>TriedAreWaiters
  <2>1. CASE pass = NoPass
    BY Zenon, <2>1 DEF WaitTypeOK, Tried, NoPass
  <2>2. CASE pass \in Passes
    BY ZenonT(30), <2>2 DEF Tried, Passes
  <2> QED
    BY Zenon, <2>1, <2>2 DEF WaitTypeOK
\* A step of one waiter outside the list, at most once told of its end.
<1>OwnStepKeeps.
  ASSUME WaitInv, NEW w \in Waiters, UNCHANGED <<kind, list, pass, run, canceled, time>>,
         st[w] \notin {"done", "expired", "listed"},
         NEW s \in States, Goes(w, s),
         \/ UNCHANGED ends /\ s \notin {"done", "expired"}
         \/ Ends({w}) /\ s \in {"done", "expired"}
  PROVE  WaitInv'
  <2> USE <1>OwnStepKeeps
  <2>1. WaitTypeOK'
    <3>1. st' \in [Waiters -> States] /\ ends' \in [Waiters -> Nat]
      BY DEF WaitInv, WaitTypeOK, Goes, Ends
    <3>2. States' = States /\ Passes' = Passes
      BY Zenon DEF States, Passes
    <3> QED
      BY Zenon, <3>1, <3>2 DEF WaitInv, WaitTypeOK
  <2>2. \A v \in Waiters : v # w => st'[v] = st[v] /\ ends'[v] = ends[v]
    BY Zenon DEF WaitInv, WaitTypeOK, Goes, Ends
  <2>3. st'[w] = s /\ ends[w] = 0 /\ ends'[w] = IF s \in {"done", "expired"} THEN 1 ELSE 0
    BY DEF WaitInv, WaitTypeOK, UnendedAreLive, Goes, Ends
  <2>4. EndsOnce'
    BY <2>2, <2>3 DEF WaitInv, UnendedAreLive, EndsOnce
  <2>5. \A v \in Waiters : st'[v] \notin {"done", "expired"} => ends'[v] = 0
    BY Zenon, <2>2, <2>3 DEF WaitInv, UnendedAreLive
  <2>6. ~canceled => \A v \in Tried : st'[v] = "listed"
    BY Zenon, <2>2, <1>TriedAreWaiters DEF WaitInv, UnendedAreLive
  <2>7. UnendedAreLive'
    BY Zenon, <2>4, <2>5, <2>6 DEF UnendedAreLive, Tried, WaitInv
  <2> QED
    BY Zenon, <2>1, <2>7 DEF WaitInv
\* What the goroutine of a waiter does on its own: in the ticker queue up to
\* the first try, in the tapering queue all of it.
<1>GoroutineKeeps.
  ASSUME WaitInv, NEW w \in Waiters,
         \/ Wait(w) \/ FirstTry(w) \/ Send(w) \/ LoopReceives(w) \/ NextTick(w) \/ runWaiter(w)
  PROVE  WaitInv'
  <2> USE <1>GoroutineKeeps
  <2>0. st[w] \in States /\ kind \in {"ticker", "tapering"}
    BY Zenon DEF WaitInv, WaitTypeOK
  <2> USE DEF States, OfTicker, OfTapering
  <2>1. CASE Wait(w)
    <3>1. PICK s \in {"refused", "first", "sending"} :
            Goes(w, s) /\ (s = "first" => kind = "ticker") /\ (s = "sending" => kind # "ticker")
      BY Zenon, <2>1, <2>0 DEF Wait
    <3> QED
      BY ZenonT(30), <2>0, <2>1, <3>1, <1>OwnStepKeeps DEF Wait
  <2>2. CASE FirstTry(w)
    BY Zenon, <2>0, <2>2, <1>OwnStepKeeps DEF FirstTry
  <2>3. CASE Send(w)
    BY ZenonT(30), <2>0, <2>3, <1>OwnStepKeeps DEF Send
  <2>4. CASE LoopReceives(w)
    BY ZenonT(30), <2>0, <2>4, <1>OwnStepKeeps DEF LoopReceives
  <2>5. CASE NextTick(w)
    BY ZenonT(30), <2>0, <2>5, <1>OwnStepKeeps DEF NextTick
  <2>6. CASE runWaiter(w)
    BY Zenon, <2>0, <2>6, <1>OwnStepKeeps DEF runWaiter
  <2> QED
    BY Zenon, <2>1, <2>2, <2>3, <2>4, <2>5, <2>6
\* A waiter joins the list of the ticker queue.
<1>AppendKeeps.
  ASSUME WaitInv, NEW w \in Waiters, Appends(w)
  PROVE  WaitInv'
  <2> USE <1>AppendKeeps
  <2> USE DEF WaitInv
  <2>0. kind = "ticker" /\ pass = NoPass
    BY Zenon, <1>PassOrNone DEF Appends, WaitTypeOK, States, OfTapering
  <2>1. WaitTypeOK'
    <3>1. st' \in [Waiters -> States]
      BY Zenon, <2>0 DEF Appends, Goes, WaitTypeOK, States, OfTicker
    <3>2. States' = States /\ Passes' = Passes
      BY Zenon DEF States, Passes, Appends
    <3> QED
      BY Zenon, <2>0, <3>1, <3>2 DEF WaitTypeOK, Appends
  <2>2. Tried = list /\ Tried' = list \cup {w}
    BY Zenon, <2>0 DEF Tried, Appends, NoPass
  <2>3. UnendedAreLive'
    BY Zenon, <2>0, <2>2 DEF UnendedAreLive, EndsOnce, Appends, Goes, WaitTypeOK
  <2> QED
    BY Zenon, <2>1, <2>3
\* A pass begins, ends, or is given up; nobody is told anything.
<1>PassKeeps.
  ASSUME WaitInv, PassStarts \/ PassEnds \/ PassAborts
  PROVE  WaitInv'
  <2> USE <1>PassKeeps
  <2> USE DEF WaitInv
  <2>0. /\ UNCHANGED <<kind, st, ends, run, canceled, time>>
        /\ States' = States /\ Passes' = Passes
    BY Zenon DEF PassStarts, PassEnds, PassAborts, States, Passes
  <2>1. EndsOnce' /\ \A w \in Waiters : st'[w] \notin {"done", "expired"} => ends'[w] = 0
    BY Zenon, <2>0 DEF UnendedAreLive, EndsOnce
  <2>2. CASE PassStarts
    <3>1. pass = NoPass /\ pass' \in Passes /\ pass' # NoPass
      BY ZenonT(30), <2>2, <1>PassOrNone DEF PassStarts, WaitTypeOK, Passes, NoPass
    <3>2. /\ Tried = list /\ Tried' = list
          /\ pass'.left \cap pass'.agains = {}
      BY Zenon, <2>2, <3>1 DEF PassStarts, Tried, NoPass
    <3>3. WaitTypeOK'
      BY Zenon, <2>0, <2>2, <3>1 DEF WaitTypeOK, PassStarts
    <3> QED
      BY Zenon, <2>0, <2>1, <3>2, <3>3 DEF UnendedAreLive
  <2>3. CASE PassEnds
    <3>1. pass \in Passes /\ pass # NoPass /\ pass' = NoPass
      BY Zenon, <2>3, <1>PassOrNone DEF PassEnds
    <3>2. Tried = pass.agains /\ Tried' = pass.agains /\ list' = pass.agains
      BY <2>3, <3>1 DEF PassEnds, Tried, NoPass, Passes
    <3>3. WaitTypeOK'
      BY Zenon, <2>0, <3>1, <3>2 DEF WaitTypeOK, Passes
    <3> QED
      BY Zenon, <2>0, <2>1, <3>1, <3>2, <3>3 DEF UnendedAreLive, NoPass
  <2>4. CASE PassAborts
    <3>1. canceled' /\ pass' = NoPass /\ UNCHANGED list
      BY Zenon, <2>4 DEF PassAborts
    <3>2. pass # NoPass
      BY <2>4 DEF PassAborts, NoPass
    <3>3. WaitTypeOK'
      BY Zenon, <2>0, <3>1, <3>2 DEF WaitTypeOK
    <3> QED
      BY Zenon, <2>1, <3>1, <3>3 DEF UnendedAreLive, NoPass
  <2> QED
    BY Zenon, <2>2, <2>3, <2>4
\* A try of a pass: the waiter is one that has not ended, and one that ends
\* leaves the pass.
<1>TryKeeps.
  ASSUME WaitInv, NEW w \in Waiters, PassTries(w)
  PROVE  WaitInv'
  <2> USE <1>TryKeeps
  <2> USE DEF WaitInv
  <2>0. /\ pass \in Passes /\ pass # NoPass /\ kind = "ticker" /\ ~canceled
        /\ w \in pass.left /\ pass.on
        /\ UNCHANGED <<kind, list, run, canceled, time>>
        /\ States' = States /\ Passes' = Passes
    BY ZenonT(30), <1>PassOrNone DEF PassTries, WaitTypeOK, Passes, States
  <2>1. Tried = pass.left \cup pass.agains /\ st[w] = "listed" /\ ends[w] = 0
    BY Zenon, <2>0 DEF Tried, UnendedAreLive, WaitTypeOK, Passes
  <2>2. CASE /\ \E s \in {"done", "expired"} : Goes(w, s)
             /\ Ends({w}) /\ pass' = [pass EXCEPT !.left = @ \ {w}]
    <3>1. st' \in [Waiters -> States] /\ ends' \in [Waiters -> Nat]
      BY <2>0, <2>2 DEF Goes, Ends, WaitTypeOK, States, OfTicker
    <3>2. pass' \in Passes /\ pass' # NoPass /\ pass'.on
          /\ pass'.left = pass.left \ {w} /\ pass'.agains = pass.agains
      BY ZenonT(30), <2>0, <2>2 DEF Passes, NoPass
    <3>3. WaitTypeOK'
      BY Zenon, <2>0, <3>1, <3>2 DEF WaitTypeOK
    <3>4. /\ ends'[w] = 1 /\ st'[w] \in {"done", "expired"}
          /\ \A v \in Waiters : v # w => st'[v] = st[v] /\ ends'[v] = ends[v]
      BY <2>1, <2>2 DEF Goes, Ends, WaitTypeOK
    <3>5. pass.left \cap pass.agains = {}
      BY Zenon, <2>0 DEF UnendedAreLive
    <3>6. Tried' = Tried \ {w} /\ pass'.left \cap pass'.agains = {}
      BY Zenon, <2>0, <2>1, <3>2, <3>5 DEF Tried
    <3>7. EndsOnce'
      BY <2>0, <3>4 DEF UnendedAreLive, EndsOnce
    <3> QED
      BY Zenon, <2>0, <3>3, <3>4, <3>6, <3>7, <1>TriedAreWaiters DEF UnendedAreLive
  <2>3. CASE /\ UNCHANGED <<st, ends>>
             /\ pass' = [pass EXCEPT !.left = @ \ {w}, !.agains = @ \cup {w}]
    <3>1. pass' \in Passes /\ pass' # NoPass /\ pass'.on
          /\ pass'.left = pass.left \ {w} /\ pass'.agains = pass.agains \cup {w}
      BY ZenonT(30), <2>0, <2>3 DEF Passes, NoPass
    <3>2. WaitTypeOK'
      BY Zenon, <2>0, <2>3, <3>1 DEF WaitTypeOK
    <3>3. pass.left \cap pass.agains = {}
      BY Zenon, <2>0 DEF UnendedAreLive
    <3>4. Tried' = Tried /\ pass'.left \cap pass'.agains = {}
      BY ZenonT(30), <2>0, <2>1, <3>1, <3>3 DEF Tried
    <3> QED
      BY Zenon, <2>0, <2>3, <3>2, <3>4 DEF UnendedAreLive, EndsOnce
  <2> QED
    BY Zenon, <2>2, <2>3 DEF PassTries
\* The deferred function of the ticker queue's Run ends whoever is listed,
\* once more for those that ended in a pass that was given up.
<1>TickerReturnsKeeps.
  ASSUME WaitInv, TickerReturns
  PROVE  WaitInv'
  <2> USE <1>TickerReturnsKeeps
  <2> USE DEF WaitInv
  <2>0. /\ kind = "ticker" /\ canceled /\ pass = NoPass /\ run' = "returned"
        /\ run = "running" /\ list' = {}
        /\ UNCHANGED <<kind, pass, canceled, time>>
        /\ States' = States /\ Passes' = Passes
    BY Zenon, <1>PassOrNone DEF TickerReturns, States, Passes
  <2>1. st' \in [Waiters -> States] /\ ends' \in [Waiters -> Nat]
    BY <2>0 DEF TickerReturns, Ends, WaitTypeOK, States, OfTicker
  <2>2. WaitTypeOK'
    BY Zenon, <2>0, <2>1 DEF WaitTypeOK
  <2>3. \A w \in Waiters : ends[w] <= 1 /\ ends[w] \in Nat
    BY Zenon, <2>0 DEF UnendedAreLive, EndsOnce, WaitTypeOK
  <2>4. EndsOnce'
    BY <2>0, <2>3 DEF TickerReturns, Ends, EndsOnce
  <2>5. \A w \in Waiters : st'[w] \notin {"done", "expired"} => ends'[w] = 0
    BY Zenon DEF UnendedAreLive, TickerReturns, Ends
  <2> QED
    BY Zenon, <2>0, <2>2, <2>4, <2>5 DEF UnendedAreLive, NoPass
\* The tapering queue's loop ends the waiters it holds.
<1>TaperingStopKeeps.
  ASSUME WaitInv, LoopEnds \/ TaperingReturns
  PROVE  WaitInv'
  <2> USE <1>TaperingStopKeeps
  <2> USE DEF WaitInv
  <2>0. /\ kind = "tapering" /\ pass = NoPass /\ list = {}
        /\ run' \in {"draining", "returned"}
        /\ UNCHANGED <<kind, pass, list, canceled, time>>
        /\ States' = States /\ Passes' = Passes
    BY Zenon DEF LoopEnds, TaperingReturns, States, Passes, WaitTypeOK
  <2>1. \/ UNCHANGED <<st, ends>>
        \/ /\ st' = [w \in Waiters |-> IF st[w] = "waiting" THEN "expired" ELSE st[w]]
           /\ ends' = [w \in Waiters |-> IF st[w] = "waiting" THEN ends[w] + 1 ELSE ends[w]]
    BY Zenon DEF LoopEnds, TaperingReturns, Ends, At
  <2>2. st' \in [Waiters -> States] /\ ends' \in [Waiters -> Nat]
    BY <2>0, <2>1 DEF WaitTypeOK, States, OfTapering
  <2>3. WaitTypeOK'
    BY Zenon, <2>0, <2>2 DEF WaitTypeOK
  <2>4. EndsOnce' /\ \A w \in Waiters : st'[w] \notin {"done", "expired"} => ends'[w] = 0
    BY <2>0, <2>1 DEF UnendedAreLive, EndsOnce, WaitTypeOK
  <2>5. Tried' = {}
    BY Zenon, <2>0 DEF Tried, NoPass
  <2> QED
    BY Zenon, <2>0, <2>3, <2>4, <2>5 DEF UnendedAreLive, NoPass
<1>OutsideKeeps.
  ASSUME WaitInv, Cancel \/ TimePasses \/ UNCHANGED waitVars
  PROVE  WaitInv'
  <2> USE <1>OutsideKeeps
  <2> USE DEF WaitInv
  <2>0. /\ UNCHANGED <<kind, st, ends, list, pass, run>>
        /\ canceled' \in BOOLEAN /\ time' \in Nat /\ (canceled => canceled')
    <3>1. CASE Cancel
      BY Zenon, <3>1 DEF Cancel, WaitTypeOK
    <3>2. CASE TimePasses
      BY <3>2 DEF TimePasses, WaitTypeOK
    <3>3. CASE UNCHANGED waitVars
      BY Zenon, <3>3 DEF waitVars, WaitTypeOK
    <3> QED
      BY Zenon, <3>1, <3>2, <3>3
  <2>1. States' = States /\ Passes' = Passes /\ Tried' = Tried
    BY Zenon, <2>0 DEF States, Passes, Tried
  <2>2. WaitTypeOK'
    BY Zenon, <2>0, <2>1 DEF WaitTypeOK
  <2> QED
    BY Zenon, <2>0, <2>1, <2>2 DEF UnendedAreLive, EndsOnce
<1>1. WaitInit => WaitInv
  <2> SUFFICES ASSUME WaitInit PROVE WaitInv
    BY Zenon
  <2>1. WaitTypeOK
    BY ZenonT(30) DEF WaitInit, WaitTypeOK, States, OfTicker, OfTapering
  <2>2. Tried = {} /\ ~pass.on
    BY Zenon DEF WaitInit, Tried, NoPass
  <2> QED
    BY <2>1, <2>2 DEF WaitInit, WaitInv, UnendedAreLive, EndsOnce
<1>2. WaitInv /\ [WaitNext]_waitVars => WaitInv'
  <2> SUFFICES ASSUME WaitInv, [WaitNext]_waitVars PROVE WaitInv'
    BY Zenon
  <2>1. ASSUME NEW w \in Waiters, Wait(w) \/ OfWaiter(w)
        PROVE  WaitInv'
    BY Zenon, <2>1, <1>GoroutineKeeps, <1>AppendKeeps, <1>TryKeeps DEF OfWaiter
  <2>2. CASE OfQueue
    BY Zenon, <2>2, <1>PassKeeps, <1>TickerReturnsKeeps, <1>TaperingStopKeeps DEF OfQueue
  <2>3. CASE Cancel \/ TimePasses \/ UNCHANGED waitVars
    BY Zenon, <2>3, <1>OutsideKeeps
  <2> QED
    BY Zenon, <2>1, <2>2, <2>3 DEF WaitNext
<1>3. WaitInv => EndsOnce
  BY Zenon DEF WaitInv, UnendedAreLive
<1> QED
  BY <1>1, <1>2, <1>3, PTL DEF WaitSpec

-----------------------------------------------------------------------------
(* The lockers *)

\* What a list holds is what the order named when it was locked.
ListsNameOwnCoins ==
    \A l \in Lockers : \A o \in Orders :
        lockedCoinsByOrder[l][o] \subseteq CoinsOf[o]

LockInv == LockTypeOK /\ ListsNameOwnCoins /\ EveryLockHasOwner

\* Whatever sequence of lock and unlock calls the market and the Swapper
\* make, every locked coin stays releasable through an order that names it.
THEOREM LockedCoinsHaveOwners == LockSpec => [](LockTypeOK /\ EveryLockHasOwner)
\* Taking the coins of any set of orders keeps the invariant: the new
\* coins are listed under the orders that brought them.
<1>TakeKeepsInv.
    ASSUME LockInv, NEW l \in Lockers, NEW A \in SUBSET Orders, Take(l, A)
    PROVE  LockInv'
  <2> USE <1>TakeKeepsInv
  <2> USE CoinsOfAssumption DEF LockInv
  <2>1. LockTypeOK'
    BY ZenonT(30) DEF LockTypeOK, Take
  <2>2. ListsNameOwnCoins'
    BY Zenon DEF LockTypeOK, ListsNameOwnCoins, Take
  <2>3. EveryLockHasOwner'
    <3> SUFFICES ASSUME NEW k \in Lockers, NEW c \in lockedCoins'[k]
                 PROVE  \E o \in Orders : /\ c \in lockedCoinsByOrder'[k][o]
                                          /\ c \in CoinsOf[o]
      BY Zenon DEF EveryLockHasOwner
    <3>1. CASE k = l /\ \E o \in A : c \in CoinsOf[o]
      BY Zenon, <3>1 DEF LockTypeOK, Take
    <3>2. CASE ~(k = l /\ \E o \in A : c \in CoinsOf[o])
      <4>1. c \in lockedCoins[k]
        BY Zenon, <3>2 DEF LockTypeOK, Take
      <4>2. PICK o \in Orders : c \in lockedCoinsByOrder[k][o] /\ c \in CoinsOf[o]
        BY Zenon, <4>1 DEF EveryLockHasOwner
      <4>3. c \in lockedCoinsByOrder'[k][o]
        BY Zenon, <4>2 DEF LockTypeOK, Take
      <4> QED
        BY Zenon, <4>2, <4>3
    <3> QED
      BY Zenon, <3>1, <3>2
  <2> QED
    BY Zenon, <2>1, <2>2, <2>3
\* Dropping locked coins without touching the lists keeps the invariant.
<1>ReleaseKeepsInv.
    ASSUME LockInv, NEW l \in Lockers, NEW R,
           lockedCoins' = [lockedCoins EXCEPT ![l] = @ \ R],
           UNCHANGED lockedCoinsByOrder
    PROVE  LockInv'
  BY <1>ReleaseKeepsInv, Zenon DEF LockInv, LockTypeOK, ListsNameOwnCoins, EveryLockHasOwner
\* Every step of the locker keeps the invariant.
<1>LockStepKeepsInv.
    ASSUME LockInv, [LockNext]_lockVars
    PROVE  LockInv'
  <2> USE <1>LockStepKeepsInv
  <2>1. ASSUME NEW l \in Lockers, NEW S \in SUBSET Orders, LockOrdersCoins(l, S)
        PROVE  LockInv'
    <3>1. PICK A \in Accepted(l, {o \in S : CoinsOf[o] # {}}) : Take(l, A)
      BY Zenon, <2>1 DEF LockOrdersCoins
    <3>2. A \in SUBSET Orders
      BY Zenon, <3>1 DEF Accepted
    <3> QED
      BY Zenon, <3>1, <3>2, <1>TakeKeepsInv
  <2>2. ASSUME NEW l \in Lockers, NEW S \in SUBSET Orders, LockCoins(l, S)
        PROVE  LockInv'
    <3>1. PICK A \in Accepted(l, S) : Take(l, A)
      BY Zenon, <2>2 DEF LockCoins
    <3>2. A \in SUBSET Orders
      BY Zenon, <3>1 DEF Accepted
    <3> QED
      BY Zenon, <3>1, <3>2, <1>TakeKeepsInv
  <2>3. ASSUME NEW l \in Lockers, NEW o \in Orders, UnlockOrderCoins(l, o)
        PROVE  LockInv'
    BY ZenonT(30), <2>3, <1>ReleaseKeepsInv DEF UnlockOrderCoins
  <2>4. ASSUME NEW l \in Lockers, NEW S \in SUBSET Orders, UnlockOrdersCoins(l, S)
        PROVE  LockInv'
    BY ZenonT(30), <2>4, <1>ReleaseKeepsInv DEF UnlockOrdersCoins
  <2>5. ASSUME NEW l \in Lockers, UnlockAll(l)
        PROVE  LockInv'
    BY Zenon, <2>5 DEF UnlockAll, LockInv, LockTypeOK, ListsNameOwnCoins, EveryLockHasOwner
  <2>6. CASE UNCHANGED lockVars
    BY Zenon, <2>6 DEF lockVars, LockInv, LockTypeOK, ListsNameOwnCoins, EveryLockHasOwner
  <2> QED
    BY Zenon, <2>1, <2>2, <2>3, <2>4, <2>5, <2>6 DEF LockNext
<1>1. LockInit => LockInv
  BY ZenonT(30) DEF LockInit, LockInv, LockTypeOK, ListsNameOwnCoins, EveryLockHasOwner
<1>2. LockInv /\ [LockNext]_lockVars => LockInv'
  BY Zenon, <1>LockStepKeepsInv
<1>3. LockInv => LockTypeOK /\ EveryLockHasOwner
  BY Zenon DEF LockInv
<1> QED
  BY <1>1, <1>2, <1>3, PTL DEF LockSpec

-----------------------------------------------------------------------------
(* Order funding *)

Listed(l, o) == lockedCoinsByOrder[l][o]

\* Orders on their way through the market whose coins must be locked.
Holds(o) == /\ o \notin rebooked
            /\ stage[o] \in {"epoch", "booked"} \/ o \in release \cup unbooking

\* Orders that excuse a lock.
Keeps(o) == \/ stage[o] \in {"epoch", "booked", "unstored", "dropped"}
            \/ o \in release \cup unbooking

LiveOrder(o) == \E i \in MatchNos : phase[o][i] \in {"live", "confirmed", "reported"}

\* SwapDone may have unlocked the coin although it was in use.
Tainted(c) == \E x \in atFault : c \in CoinsOf[x]

FundTypeOK == /\ LockTypeOK
              /\ assetKind \in {"utxo", "account"}
              /\ stage \in [Orders -> Stages]
              /\ phase \in [Orders -> [MatchNos -> Phases]]
              /\ rebooked \in SUBSET Orders /\ release \in SUBSET Orders
              /\ unbooking \in SUBSET Orders /\ atFault \in SUBSET Orders

\* What each list and each set of the market's loops may contain.
Bookkeeping ==
    /\ \A l \in Lockers, o \in Orders : Listed(l, o) \subseteq CoinsOf[o]
    /\ \A o \in rebooked : Listed("book", o) = {} /\ stage[o] \in {"booked", "out"}
    /\ \A o \in release \cup unbooking : stage[o] = "out"
    /\ release \cap unbooking = {}
    /\ ~BookLockerSet => lockedCoins["book"] = {}
    /\ ~SwapLockerSet => lockedCoins["swap"] = {}

HoldersLocked ==
    BookLockerSet => \A o \in Orders : Holds(o) =>
                        \A c \in CoinsOf[o] : c \in lockedCoins["book"] \/ Tainted(c)

HoldersShareNoCoin ==
    BookLockerSet => \A o, p \in Orders : (Holds(o) /\ Holds(p) /\ o # p) =>
                        \A c \in CoinsOf[o] \cap CoinsOf[p] : Tainted(c)

BookLocksKept ==
    \A c \in lockedCoins["book"] : \E o \in Orders : c \in Listed("book", o) /\ Keeps(o)

SwapLocksLive ==
    \A c \in lockedCoins["swap"] : \E o \in Orders : c \in Listed("swap", o) /\ LiveOrder(o)

FundInv == /\ FundTypeOK /\ Bookkeeping
           /\ HoldersLocked /\ HoldersShareNoCoin /\ BookLocksKept
           /\ SwapLocksLive

-----------------------------------------------------------------------------
(* The steps.  Outside NewMarket and processOrder nothing is locked in the *)
(* book locker, and only Negotiate locks in the swap locker.               *)

\* NewMarket on the orders and matches of an earlier run.
LEMMA InitFunds == FundInit => FundInv
<1> SUFFICES ASSUME FundInit PROVE FundInv
  BY Zenon
<1> USE CoinsOfAssumption, FundingAssumption
<1>2. PICK booked \in SUBSET Orders, active \in SUBSET Orders :
         \E A \in SUBSET Unfilled(booked, active) : NewMarket(booked, active, A)
  BY Zenon DEF FundInit
<1>3. PICK A \in SUBSET Unfilled(booked, active) : NewMarket(booked, active, A)
  BY Zenon, <1>2
<1>4. A \in SUBSET Orders /\ Partly(booked, active) \in SUBSET Orders
      /\ A \cap Partly(booked, active) = {}
  BY Zenon DEF Partly, Unfilled
<1>5. /\ lockedCoins \in [Lockers -> SUBSET Coins]
      /\ lockedCoins["book"] = IF BookLockerSet THEN UNION {CoinsOf[o] : o \in A} ELSE {}
      /\ lockedCoins["swap"] = {}
  BY <1>3, <1>4 DEF Lockers, NewMarket
<1>6. /\ lockedCoinsByOrder \in [Lockers -> [Orders -> SUBSET Coins]]
      /\ \A o \in Orders : Listed("book", o) = IF BookLockerSet /\ o \in A
                                               THEN CoinsOf[o] ELSE {}
      /\ \A o \in Orders : Listed("swap", o) = {}
  BY Zenon, <1>3, <1>4 DEF Lockers, Listed, NewMarket
<1>7. assetKind \in {"utxo", "account"}
  BY Zenon DEF FundInit
<1>8. FundTypeOK
  BY ZenonT(30), <1>3, <1>4, <1>5, <1>6, <1>7 DEF FundTypeOK, LockTypeOK, Stages, Phases, NewMarket
<1>9. Bookkeeping
  <2>1. \A l \in Lockers, o \in Orders : Listed(l, o) \subseteq CoinsOf[o]
    BY Zenon, <1>6 DEF Lockers
  <2> QED
    BY ZenonT(30), <1>3, <1>4, <1>5, <1>6, <2>1 DEF Bookkeeping, NewMarket
<1>10. \A o \in Orders : (Holds(o) => o \in A) /\ (o \in A => Keeps(o))
  BY Zenon, <1>3, <1>4 DEF Holds, Keeps, NewMarket
<1>11. HoldersLocked /\ HoldersShareNoCoin
  <2>1. BookLockerSet => \A o, p \in A : o # p => ~Conflict(o, p)
    BY Zenon, <1>3 DEF NewMarket
  <2>2. HoldersLocked
    BY <1>5, <1>10 DEF HoldersLocked
  <2>3. HoldersShareNoCoin
    BY Zenon, <2>1, <1>10 DEF HoldersShareNoCoin, Conflict
  <2> QED
    BY Zenon, <2>2, <2>3
<1>12. BookLocksKept /\ SwapLocksLive
  BY <1>4, <1>5, <1>6, <1>10 DEF BookLocksKept, SwapLocksLive
<1> QED
  BY Zenon, <1>8, <1>9, <1>11, <1>12 DEF FundInv

\* Every step keeps the invariant.
LEMMA StepFunds == FundInv /\ [FundNext]_fundingVars => FundInv'
\* A step that unlocks the coins of the orders S in the book locker keeps the
\* book's part of the invariant when each of S gives up its hold, or is at
\* fault, and nobody else starts to hold or ceases to keep its coins.
<1>BookRelease.
    ASSUME FundInv, NEW S \in SUBSET Orders,
           lockedCoins'["book"] =
               lockedCoins["book"] \ UNION {Listed("book", p) : p \in S},
           UNCHANGED <<assetKind, lockedCoinsByOrder, rebooked>>,
           atFault \subseteq atFault',
           \A p \in S : Holds(p) \/ p \in rebooked \/ p \in atFault',
           \A p \in S : ~Holds(p)' \/ p \in atFault',
           \A o \in Orders : Holds(o)' => Holds(o),
           \A o \in Orders : Keeps(o) => Keeps(o)' \/ o \in S
    PROVE  HoldersLocked' /\ HoldersShareNoCoin' /\ BookLocksKept'
  <2> USE <1>BookRelease
  <2> USE DEF FundInv
  <2>0. \A c : Tainted(c) => Tainted(c)'
    BY Zenon DEF Tainted
  <2>1. HoldersLocked'
    <3> SUFFICES ASSUME BookLockerSet', NEW o \in Orders, Holds(o)',
                        NEW c \in CoinsOf[o], c \notin lockedCoins'["book"]
                 PROVE  Tainted(c)'
      BY Zenon DEF HoldersLocked
    <3>1. BookLockerSet /\ Holds(o)
      BY Zenon DEF BookLockerSet
    <3>2. CASE Tainted(c)
      BY Zenon, <3>2, <2>0
    <3>3. CASE c \in lockedCoins["book"]
      <4>1. PICK p \in S : c \in Listed("book", p)
        BY <3>3
      <4>2. c \in CoinsOf[p] /\ p \notin rebooked
        BY Zenon, <4>1 DEF Bookkeeping, Lockers
      <4>3. CASE p \in atFault'
        BY Zenon, <4>2, <4>3 DEF Tainted
      <4>4. CASE Holds(p) /\ p # o
        BY ZenonT(30), <3>1, <4>2, <4>4, <2>0 DEF HoldersShareNoCoin
      <4> QED
        BY Zenon, <4>2, <4>3, <4>4
    <3> QED
      BY Zenon, <3>1, <3>2, <3>3 DEF HoldersLocked
  <2>2. HoldersShareNoCoin'
    BY Zenon, <2>0 DEF HoldersShareNoCoin, BookLockerSet
  <2>3. BookLocksKept'
    BY ZenonT(30) DEF BookLocksKept, Listed
  <2> QED
    BY Zenon, <2>1, <2>2, <2>3
\* The same for the swap locker and the matches the Swapper tracks.
<1>SwapRelease.
    ASSUME FundInv, NEW S \in SUBSET Orders,
           lockedCoins'["swap"] =
               lockedCoins["swap"] \ UNION {Listed("swap", p) : p \in S},
           UNCHANGED lockedCoinsByOrder,
           \A o \in Orders : LiveOrder(o) => LiveOrder(o)' \/ o \in S
    PROVE  SwapLocksLive'
  BY ZenonT(30), <1>SwapRelease DEF FundInv, SwapLocksLive, Listed
\* A step that unlocks nothing.
<1>BookUntouched.
    ASSUME FundInv, lockedCoins'["book"] = lockedCoins["book"],
           UNCHANGED <<assetKind, lockedCoinsByOrder, rebooked>>,
           atFault \subseteq atFault',
           \A o \in Orders : Holds(o)' => Holds(o),
           \A o \in Orders : Keeps(o) => Keeps(o)'
    PROVE  HoldersLocked' /\ HoldersShareNoCoin' /\ BookLocksKept'
  <2> USE <1>BookUntouched
  <2> DEFINE S == {}
  <2>1. S \in SUBSET Orders /\ \A p \in S : FALSE
    BY Zenon
  <2>2. UNION {Listed("book", p) : p \in S} = {}
    BY Zenon
  <2> HIDE DEF S
  <2>3. lockedCoins'["book"] = lockedCoins["book"] \ UNION {Listed("book", p) : p \in S}
    BY Zenon, <2>2
  <2> QED
    BY Zenon, <2>1, <2>3, <1>BookRelease
\* A step that calls unlockOrderCoins for one order.
<1>BookReleaseOne.
    ASSUME FundInv, NEW o \in Orders, unlockOrderCoins(o),
           UNCHANGED <<assetKind, rebooked>>,
           atFault \subseteq atFault',
           Holds(o) \/ o \in rebooked \/ o \in atFault',
           ~Holds(o)' \/ o \in atFault',
           \A p \in Orders : Holds(p)' => Holds(p),
           \A p \in Orders : Keeps(p) => Keeps(p)' \/ p = o
    PROVE  HoldersLocked' /\ HoldersShareNoCoin' /\ BookLocksKept'
  <2> USE <1>BookReleaseOne
  <2> DEFINE S == {o}
  <2>1. S \in SUBSET Orders /\ o \in S /\ \A p \in S : p = o
    BY Zenon
  <2>2. UNION {Listed("book", p) : p \in S} = Listed("book", o)
    BY Zenon
  <2> HIDE DEF S
  <2>3. UNCHANGED lockedCoinsByOrder
    BY Zenon DEF unlockOrderCoins, UnlockOrderCoins, lockVars
  <2>4. lockedCoins'["book"] = lockedCoins["book"] \ UNION {Listed("book", p) : p \in S}
    BY <2>2 DEF unlockOrderCoins, UnlockOrderCoins, lockVars, FundInv, FundTypeOK,
                LockTypeOK, Lockers, Bookkeeping, Listed
  <2>5. /\ \A p \in S : Holds(p) \/ p \in rebooked \/ p \in atFault'
        /\ \A p \in S : ~Holds(p)' \/ p \in atFault'
        /\ \A p \in Orders : Keeps(p) => Keeps(p)' \/ p \in S
    BY Zenon, <2>1
  <2> QED
    BY Zenon, <2>1, <2>3, <2>4, <2>5, <1>BookRelease
\* The call leaves the swap locker and the shape of both as they were.
<1>BookUnlockOnly.
    ASSUME FundInv, NEW o \in Orders, unlockOrderCoins(o)
    PROVE  /\ LockTypeOK' /\ UNCHANGED lockedCoinsByOrder
           /\ lockedCoins'["swap"] = lockedCoins["swap"]
           /\ lockedCoins'["book"] \subseteq lockedCoins["book"]
  BY ZenonT(30), <1>BookUnlockOnly DEF unlockOrderCoins, UnlockOrderCoins, lockVars, FundInv, FundTypeOK,
         LockTypeOK, Lockers
\* processOrder's check, and a market that drops its open epoch queue.
<1>CheckOrDropKeeps.
    ASSUME FundInv, UNCHANGED assetKind, NEW o \in Orders,
           CheckCoins(o) \/ DropEpochOrder(o)
    PROVE  FundInv'
  <2> USE <1>CheckOrDropKeeps
  <2> USE DEF FundInv, CheckCoins, DropEpochOrder, lockVars
  <2>1. FundTypeOK' /\ Bookkeeping'
    BY ZenonT(30) DEF FundTypeOK, Bookkeeping, LockTypeOK, Stages, BookLockerSet, SwapLockerSet, Listed
  <2>2. /\ \A p \in Orders : Holds(p)' => Holds(p)
        /\ \A p \in Orders : Keeps(p) => Keeps(p)'
    BY Zenon DEF FundTypeOK, Holds, Keeps
  <2>3. HoldersLocked' /\ HoldersShareNoCoin' /\ BookLocksKept'
    BY Zenon, <2>2, <1>BookUntouched
  <2> QED
    BY Zenon, <2>1, <2>3 DEF SwapLocksLive, LiveOrder, Listed
\* processOrder's lock: the order enters only if its coins are free, so that
\* a holder it meets has lost the coin to SwapDone.
<1>EnterKeeps.
    ASSUME FundInv, UNCHANGED assetKind, NEW o \in Orders, EnterEpoch(o)
    PROVE  FundInv'
  <2> USE <1>EnterKeeps
  <2> USE CoinsOfAssumption DEF FundInv
  <2> DEFINE T == {p \in {o} : CoinsOf[p] # {}}
  <2>0. BookLockerSet => \E A \in Accepted("book", T) : Take("book", A)
    BY ZenonT(30) DEF EnterEpoch, lockOrderCoins, LockOrdersCoins
  <2>1. CASE BookLockerSet /\ ~Held("book", o)
    <3>1. PICK A \in Accepted("book", T) : Take("book", A)
      BY ZenonT(30), <2>0, <2>1
    <3>2. A = T
      BY <2>1, <3>1 DEF Accepted
    <3>3. UNION {CoinsOf[p] : p \in A} = CoinsOf[o]
      BY Zenon, <3>2
    <3>4. /\ lockedCoins'["book"] = lockedCoins["book"] \cup CoinsOf[o]
          /\ lockedCoins'["swap"] = lockedCoins["swap"]
          /\ lockedCoins' \in [Lockers -> SUBSET Coins]
      BY Zenon, <3>1, <3>3 DEF Take, FundTypeOK, LockTypeOK, Lockers
    <3>5. /\ \A p \in Orders : Listed("book", p)' = IF p = o THEN CoinsOf[o]
                                                             ELSE Listed("book", p)
          /\ \A p \in Orders : Listed("swap", p)' = Listed("swap", p)
          /\ lockedCoinsByOrder' \in [Lockers -> [Orders -> SUBSET Coins]]
      <4>1. /\ \A p \in Orders : Listed("book", p)' = IF p \in A THEN CoinsOf[p]
                                                                 ELSE Listed("book", p)
            /\ \A p \in Orders : Listed("swap", p)' = Listed("swap", p)
            /\ lockedCoinsByOrder' \in [Lockers -> [Orders -> SUBSET Coins]]
        BY Zenon, <3>1 DEF Take, FundTypeOK, LockTypeOK, Lockers, Listed
      <4>2. o \notin A => Listed("book", o) = CoinsOf[o]
        BY ZenonT(30), <3>2 DEF Bookkeeping, Lockers
      <4> QED
        BY Zenon, <4>1, <4>2, <3>2
    <3>6. /\ stage[o] = "checked" /\ stage'[o] \in {"epoch", "unstored"}
          /\ \A p \in Orders : p # o => stage'[p] = stage[p]
          /\ stage' \in [Orders -> Stages]
          /\ UNCHANGED <<phase, settling, rebooked, release, unbooking, atFault>>
      BY Zenon, <2>1 DEF EnterEpoch, FundTypeOK, Stages
    <3>7. o \notin rebooked /\ o \notin release \cup unbooking
      BY Zenon, <3>6 DEF Bookkeeping, FundTypeOK
    <3>8. FundTypeOK'
      BY Zenon, <3>4, <3>5, <3>6 DEF FundTypeOK, LockTypeOK
    <3>9. Bookkeeping'
      <4>1. \A l \in Lockers, p \in Orders : Listed(l, p)' \subseteq CoinsOf[p]
        BY ZenonT(30), <3>5 DEF Bookkeeping, Lockers
      <4>2. \A p \in rebooked' : Listed("book", p)' = {} /\ stage'[p] \in {"booked", "out"}
        BY Zenon, <3>5, <3>6, <3>7 DEF Bookkeeping, FundTypeOK
      <4>3. /\ \A p \in (release \cup unbooking)' : stage'[p] = "out"
            /\ (release \cap unbooking)' = {}
        BY Zenon, <3>6, <3>7 DEF Bookkeeping, FundTypeOK
      <4> QED
        BY Zenon, <2>1, <3>4, <4>1, <4>2, <4>3 DEF Bookkeeping, BookLockerSet, SwapLockerSet
    <3>10. \A p \in Orders : p # o => (Holds(p)' <=> Holds(p)) /\ (Keeps(p)' <=> Keeps(p))
      BY Zenon, <3>6 DEF Holds, Keeps
    <3>11. \A c : Tainted(c)' <=> Tainted(c)
      BY Zenon, <3>6 DEF Tainted
    <3>12. HoldersLocked'
      BY Zenon, <2>1, <3>4, <3>10, <3>11 DEF HoldersLocked
    <3>13. HoldersShareNoCoin'
      <4>1. \A p \in Orders : (p # o /\ Holds(p)) =>
               \A c \in CoinsOf[o] \cap CoinsOf[p] : Tainted(c)
        BY Zenon, <2>1 DEF HoldersLocked, Held
      <4> QED
        BY Zenon, <2>1, <4>1, <3>10, <3>11 DEF HoldersShareNoCoin
    <3>14. BookLocksKept'
      <4>1. Keeps(o)' /\ ~Keeps(o)
        BY Zenon, <3>6, <3>7 DEF Keeps
      <4> QED
        BY Zenon, <4>1, <3>4, <3>5, <3>10 DEF BookLocksKept
    <3>15. SwapLocksLive'
      BY ZenonT(30), <3>4, <3>5, <3>6 DEF SwapLocksLive, LiveOrder
    <3> QED
      BY Zenon, <3>8, <3>9, <3>12, <3>13, <3>14, <3>15
  <2>2. CASE ~BookLockerSet \/ Held("book", o)
    <3>1. UNCHANGED lockVars
      <4>1. CASE ~BookLockerSet
        BY Zenon, <4>1 DEF EnterEpoch, lockOrderCoins
      <4>2. CASE BookLockerSet
        <5>1. PICK A \in Accepted("book", T) : Take("book", A)
          BY Zenon, <2>0, <4>2
        <5>2. A = {}
          BY Zenon, <2>2, <4>2, <5>1 DEF Accepted
        <5>3. lockedCoins' = lockedCoins
          BY Zenon, <5>1, <5>2 DEF Take, FundTypeOK, LockTypeOK
        <5>4. lockedCoinsByOrder' = lockedCoinsByOrder
          BY Zenon, <5>1, <5>2 DEF Take, FundTypeOK, LockTypeOK, Lockers
        <5> QED
          BY Zenon, <5>3, <5>4 DEF lockVars
      <4> QED
        BY Zenon, <4>1, <4>2
    <3>2. /\ stage[o] = "checked" /\ stage'[o] \in {"epoch", "unstored", "out"}
          /\ BookLockerSet => stage'[o] = "out"
          /\ \A p \in Orders : p # o => stage'[p] = stage[p]
          /\ stage' \in [Orders -> Stages]
          /\ UNCHANGED <<phase, settling, rebooked, release, unbooking, atFault>>
      BY ZenonT(30), <2>2 DEF EnterEpoch, FundTypeOK, Stages
    <3>3. o \notin rebooked /\ o \notin release \cup unbooking
      BY Zenon, <3>2 DEF Bookkeeping, FundTypeOK
    <3>4. FundTypeOK' /\ Bookkeeping'
      BY Zenon, <3>1, <3>2, <3>3 DEF FundTypeOK, LockTypeOK, lockVars, Bookkeeping, Listed,
                              BookLockerSet, SwapLockerSet
    <3>5. SwapLocksLive'
      BY Zenon, <3>1, <3>2 DEF SwapLocksLive, LiveOrder, Listed, lockVars
    <3>6. BookLocksKept'
      BY Zenon, <3>1, <3>2 DEF BookLocksKept, Keeps, Listed, lockVars
    <3>7. HoldersLocked' /\ HoldersShareNoCoin'
      BY ZenonT(30), <3>1, <3>2, <3>3 DEF HoldersLocked, HoldersShareNoCoin, Holds, Tainted,
                              BookLockerSet, lockVars
    <3> QED
      BY Zenon, <3>4, <3>5, <3>6, <3>7
  <2> QED
    BY Zenon, <2>1, <2>2
\* The three ways out of the market that unlock one order: a missed preimage,
\* the loops of processReadyEpoch, and Unbook's second half.
<1>UnlockKeeps.
    ASSUME FundInv, UNCHANGED assetKind, NEW o \in Orders,
           MissPreimage(o) \/ UnlockThrough(o) \/ UnlockUnbooked(o)
    PROVE  FundInv'
  <2> USE <1>UnlockKeeps
  <2> USE DEF FundInv
  <2>0. unlockOrderCoins(o) /\ UNCHANGED <<phase, rebooked, atFault>>
    BY Zenon DEF MissPreimage, UnlockThrough, UnlockUnbooked
  <2>1. /\ LockTypeOK' /\ UNCHANGED lockedCoinsByOrder
        /\ lockedCoins'["swap"] = lockedCoins["swap"]
        /\ lockedCoins'["book"] \subseteq lockedCoins["book"]
    BY Zenon, <2>0, <1>BookUnlockOnly
  <2>2. /\ stage' = [stage EXCEPT ![o] = "out"]
        /\ release' \subseteq release /\ unbooking' \subseteq unbooking
        /\ o \notin release' \cup unbooking'
        /\ \A p \in release \cup unbooking : p # o => p \in release' \cup unbooking'
        /\ stage[o] = "epoch" \/ o \in release \cup unbooking
    <3>1. CASE MissPreimage(o)
      BY Zenon, <3>1 DEF MissPreimage, Bookkeeping, FundTypeOK
    <3>2. CASE UnlockThrough(o)
      BY Zenon, <3>2 DEF UnlockThrough, Bookkeeping, FundTypeOK
    <3>3. CASE UnlockUnbooked(o)
      BY Zenon, <3>3 DEF UnlockUnbooked, Bookkeeping, FundTypeOK
    <3> QED
      BY Zenon, <3>1, <3>2, <3>3
  <2>3. FundTypeOK'
    BY ZenonT(30), <2>0, <2>1, <2>2 DEF FundTypeOK, Stages
  <2>4. Bookkeeping'
    BY ZenonT(30), <2>0, <2>1, <2>2 DEF Bookkeeping, FundTypeOK, Listed, BookLockerSet, SwapLockerSet
  <2>5. /\ Holds(o) \/ o \in rebooked
        /\ \A p \in Orders : Holds(p)' => Holds(p)
        /\ \A p \in Orders : Keeps(p) => Keeps(p)' \/ p = o
    BY Zenon, <2>0, <2>2 DEF Holds, Keeps, FundTypeOK
  <2>6. ~Holds(o)'
    BY Zenon, <2>0, <2>2 DEF Holds, FundTypeOK
  <2>7. HoldersLocked' /\ HoldersShareNoCoin' /\ BookLocksKept'
    BY Zenon, <2>0, <2>5, <2>6, <1>BookReleaseOne
  <2>8. SwapLocksLive'
    BY Zenon, <2>0, <2>1 DEF SwapLocksLive, LiveOrder, Listed
  <2> QED
    BY Zenon, <2>3, <2>4, <2>7, <2>8
\* Unbook's first half and Match move orders between the stages that hold.
<1>MoveKeeps.
    ASSUME FundInv, UNCHANGED <<assetKind, lockVars, rebooked, atFault>>,
           FundTypeOK',
           \A o \in Orders : stage[o] \notin {"epoch", "booked"} =>
               stage'[o] = stage[o] /\ (o \in release' \cup unbooking' =>
                                        o \in release \cup unbooking),
           \A o \in Orders : stage[o] \in {"epoch", "booked"} =>
               stage'[o] = "booked" \/ (stage'[o] = "out" /\ o \in release' \cup unbooking')
                 \/ stage'[o] = stage[o],
           \A o \in rebooked : stage'[o] \in {"booked", "out"},
           \A o \in release' \cup unbooking' : stage'[o] = "out",
           release' \cap unbooking' = {},
           release \subseteq release', unbooking \subseteq unbooking',
           \A o \in Orders : LiveOrder(o) => LiveOrder(o)'
    PROVE  FundInv'
  <2> USE <1>MoveKeeps
  <2> USE DEF FundInv, lockVars
  <2>1. Bookkeeping'
    BY Zenon DEF Bookkeeping, FundTypeOK, Listed, BookLockerSet, SwapLockerSet
  <2>2. /\ \A o \in Orders : Holds(o)' => Holds(o)
        /\ \A o \in Orders : Keeps(o) => Keeps(o)'
    BY Zenon DEF Holds, Keeps, FundTypeOK
  <2>3. HoldersLocked' /\ HoldersShareNoCoin' /\ BookLocksKept'
    BY Zenon, <2>2, <1>BookUntouched
  <2>4. SwapLocksLive'
    BY Zenon DEF SwapLocksLive, Listed
  <2> QED
    BY ZenonT(30), <2>1, <2>3, <2>4
<1>UnbookKeeps.
    ASSUME FundInv, UNCHANGED assetKind, NEW o \in Orders, Unbook(o)
    PROVE  FundInv'
  <2> USE <1>UnbookKeeps
  <2>1. FundTypeOK'
    BY ZenonT(30) DEF FundInv, FundTypeOK, Unbook, LockTypeOK, lockVars, Stages
  <2>2. \A p \in Orders : LiveOrder(p) => LiveOrder(p)'
    BY Zenon DEF LiveOrder, Unbook
  <2>3. /\ \A p \in Orders : stage[p] \notin {"epoch", "booked"} =>
              stage'[p] = stage[p] /\ (p \in release' \cup unbooking' =>
                                       p \in release \cup unbooking)
        /\ \A p \in Orders : stage[p] \in {"epoch", "booked"} =>
              stage'[p] = "booked" \/ (stage'[p] = "out" /\ p \in release' \cup unbooking')
                \/ stage'[p] = stage[p]
    BY ZenonT(30) DEF FundInv, FundTypeOK, Unbook
  <2>4. /\ \A p \in rebooked : stage'[p] \in {"booked", "out"}
        /\ \A p \in release' \cup unbooking' : stage'[p] = "out"
        /\ release' \cap unbooking' = {}
        /\ release \subseteq release' /\ unbooking \subseteq unbooking'
        /\ UNCHANGED <<assetKind, lockVars, rebooked, atFault>>
    BY ZenonT(30) DEF FundInv, FundTypeOK, Bookkeeping, Unbook
  <2> QED
    BY Zenon, <2>1, <2>2, <2>3, <2>4, <1>MoveKeeps
\* The matching of an epoch.
<1>MatchKeeps.
    ASSUME FundInv, UNCHANGED assetKind, NEW mk \in Markets, MatchOrders(mk)
    PROVE  FundInv'
  <2> USE <1>MatchKeeps
  <2> USE DEF FundInv
  <2> DEFINE Eligible == {o \in Orders : stage[o] \in {"epoch", "booked"} /\ MarketOf[o] = mk}
             Outcomes == {"filled", "failed", "booked", "partial", "canceled"}
             Moved(E, res) ==
               /\ stage' = [o \in Orders |->
                               IF o \notin E THEN stage[o]
                               ELSE IF Through(res[o]) THEN "out" ELSE "booked"]
               /\ phase' = [o \in Orders |->
                               IF o \in E /\ Matched(res[o])
                               THEN [phase[o] EXCEPT ![NextMatch(o)] = "due"]
                               ELSE phase[o]]
               /\ release' = release \cup {o \in E : Through(res[o])}
               /\ \A o \in E : Matched(res[o]) => CanMatch(o)
  <2>0. UNCHANGED <<assetKind, lockVars, rebooked, atFault, unbooking>>
    BY ZenonT(30) DEF MatchOrders
  <2>1. \E E \in SUBSET Eligible : \E res \in [E -> Outcomes] : Moved(E, res)
    BY ZenonT(30) DEF MatchOrders
  <2>2. PICK E \in SUBSET Eligible : \E res \in [E -> Outcomes] : Moved(E, res)
    BY Zenon, <2>1
  <2>3. PICK res \in [E -> Outcomes] : Moved(E, res)
    BY Zenon, <2>2
  <2>4. phase' \in [Orders -> [MatchNos -> Phases]]
    BY ZenonT(30), <2>3 DEF FundTypeOK, Phases
  <2>5. FundTypeOK'
    BY Zenon, <2>0, <2>2, <2>3, <2>4 DEF FundTypeOK, LockTypeOK, lockVars, Stages
  <2>6. ASSUME NEW o \in Orders, LiveOrder(o)
        PROVE  LiveOrder(o)'
    <3>1. PICK i \in MatchNos : phase[o][i] \in {"live", "confirmed", "reported"}
      BY Zenon, <2>6 DEF LiveOrder
    <3>2. CanMatch(o) => NextMatch(o) # i
      BY Zenon, <3>1 DEF CanMatch, NextMatch
    <3>3. phase'[o][i] = phase[o][i]
      BY ZenonT(30), <2>3, <3>2 DEF FundTypeOK
    <3> QED
      BY Zenon, <3>1, <3>3 DEF LiveOrder
  <2>7. /\ \A o \in Orders : stage[o] \notin {"epoch", "booked"} =>
              stage'[o] = stage[o] /\ (o \in release' \cup unbooking' =>
                                       o \in release \cup unbooking)
        /\ \A o \in Orders : stage[o] \in {"epoch", "booked"} =>
              stage'[o] = "booked" \/ (stage'[o] = "out" /\ o \in release' \cup unbooking')
                \/ stage'[o] = stage[o]
    BY ZenonT(30), <2>0, <2>2, <2>3
  <2>8. /\ \A o \in rebooked : stage'[o] \in {"booked", "out"}
        /\ \A o \in release' \cup unbooking' : stage'[o] = "out"
        /\ release' \cap unbooking' = {}
        /\ release \subseteq release' /\ unbooking \subseteq unbooking'
    BY ZenonT(30), <2>0, <2>2, <2>3 DEF FundTypeOK, Bookkeeping
  <2> QED
    BY ZenonT(30), <2>0, <2>5, <2>6, <2>7, <2>8, <1>MoveKeeps
\* Negotiate locks in the swap locker what becomes live.
<1>NegotiateKeeps.
    ASSUME FundInv, UNCHANGED assetKind, NEW mk \in Markets, Negotiate(mk)
    PROVE  FundInv'
  <2> USE <1>NegotiateKeeps
  <2> USE CoinsOfAssumption DEF FundInv
  <2>0. /\ UNCHANGED <<stage, rebooked, release, unbooking, atFault>>
        /\ phase' \in [Orders -> [MatchNos -> Phases]]
    BY Zenon DEF Negotiate, FundTypeOK, Phases
  <2>1. \A o \in Orders : LiveOrder(o) => LiveOrder(o)'
    BY Zenon DEF Negotiate, FundTypeOK, LiveOrder
  <2>2. \A o \in MatchesDue(mk) : o \in Orders /\ LiveOrder(o)'
    BY Zenon DEF Negotiate, FundTypeOK, LiveOrder, MatchesDue
  <2> DEFINE Locks(A) ==
           /\ lockedCoins'["book"] = lockedCoins["book"]
           /\ lockedCoins'["swap"] \subseteq
                 lockedCoins["swap"] \cup UNION {CoinsOf[o] : o \in A}
           /\ SwapLockerSet \/ lockedCoins'["swap"] = lockedCoins["swap"]
           /\ \A o \in Orders : Listed("book", o)' = Listed("book", o)
           /\ \A o \in Orders : Listed("swap", o)' = IF o \in A THEN CoinsOf[o]
                                                                ELSE Listed("swap", o)
           /\ LockTypeOK'
  <2>3. \E A \in SUBSET MatchesDue(mk) : Locks(A)
    <3>1. CASE ~SwapLockerSet
      <4>1. UNCHANGED lockVars
        BY Zenon, <3>1 DEF Negotiate, swapLockOrders
      <4>2. Locks({})
        BY Zenon, <4>1 DEF lockVars, Listed, FundTypeOK, LockTypeOK
      <4> HIDE DEF Locks
      <4> QED
        BY ZenonT(30), <4>2
    <3>2. CASE SwapLockerSet
      <4>1. PICK A \in Accepted("swap", {o \in MatchesDue(mk) : CoinsOf[o] # {}}) : Take("swap", A)
        BY ZenonT(30), <3>2 DEF Negotiate, swapLockOrders, LockOrdersCoins
      <4>2. A \in SUBSET MatchesDue(mk) /\ A \in SUBSET Orders
        BY Zenon, <2>2, <4>1 DEF Accepted
      <4>3. /\ lockedCoins'["book"] = lockedCoins["book"]
            /\ lockedCoins'["swap"] = lockedCoins["swap"] \cup UNION {CoinsOf[o] : o \in A}
            /\ lockedCoins' \in [Lockers -> SUBSET Coins]
        BY <4>1, <4>2 DEF Take, FundTypeOK, LockTypeOK, Lockers
      <4>4. /\ \A o \in Orders : Listed("book", o)' = Listed("book", o)
            /\ \A o \in Orders : Listed("swap", o)' = IF o \in A THEN CoinsOf[o]
                                                                 ELSE Listed("swap", o)
            /\ lockedCoinsByOrder' \in [Lockers -> [Orders -> SUBSET Coins]]
        BY Zenon, <4>1, <4>2 DEF Take, FundTypeOK, LockTypeOK, Lockers, Listed
      <4> QED
        BY ZenonT(30), <3>2, <4>2, <4>3, <4>4 DEF LockTypeOK
    <3> QED
      BY Zenon, <3>1, <3>2
  <2>4. PICK A \in SUBSET MatchesDue(mk) : Locks(A)
    BY ZenonT(30), <2>3
  <2>5. FundTypeOK'
    BY ZenonT(30), <2>0, <2>4 DEF FundTypeOK
  <2>6. Bookkeeping'
    <3>1. \A l \in Lockers, o \in Orders : Listed(l, o)' \subseteq CoinsOf[o]
      BY ZenonT(30), <2>4 DEF Bookkeeping, Lockers
    <3> QED
      BY Zenon, <2>0, <2>4, <3>1 DEF Bookkeeping, FundTypeOK, BookLockerSet, SwapLockerSet
  <2>7. /\ \A o \in Orders : (Holds(o)' <=> Holds(o)) /\ (Keeps(o)' <=> Keeps(o))
        /\ \A c : Tainted(c)' <=> Tainted(c)
    BY ZenonT(30), <2>0 DEF Holds, Keeps, Tainted
  <2>8. HoldersLocked' /\ HoldersShareNoCoin'
    BY ZenonT(30), <2>4, <2>7 DEF HoldersLocked, HoldersShareNoCoin, BookLockerSet
  <2>9. BookLocksKept'
    BY ZenonT(30), <2>4, <2>7 DEF BookLocksKept
  <2>10. SwapLocksLive'
    <3> SUFFICES ASSUME NEW c \in lockedCoins'["swap"]
                 PROVE  \E o \in Orders : c \in Listed("swap", o)' /\ LiveOrder(o)'
      BY ZenonT(30) DEF SwapLocksLive
    <3>1. CASE \E o \in A : c \in CoinsOf[o]
      BY ZenonT(30), <2>2, <2>4, <3>1
    <3>2. CASE c \in lockedCoins["swap"] /\ ~\E o \in A : c \in CoinsOf[o]
      <4>1. PICK o \in Orders : c \in Listed("swap", o) /\ LiveOrder(o)
        BY Zenon, <3>2 DEF SwapLocksLive
      <4>2. c \in CoinsOf[o]
        BY Zenon, <4>1 DEF Bookkeeping, Lockers
      <4> QED
        BY Zenon, <2>1, <2>4, <3>2, <4>1, <4>2
    <3> QED
      BY Zenon, <2>4, <3>1, <3>2
  <2> QED
    BY Zenon, <2>5, <2>6, <2>8, <2>9, <2>10
\* purgeBook unlocks all it takes off the book.
<1>PurgeKeeps.
    ASSUME FundInv, UNCHANGED assetKind, NEW mk \in Markets, PurgeBook(mk)
    PROVE  FundInv'
  <2> USE <1>PurgeKeeps
  <2> USE DEF FundInv
  <2> DEFINE S == {o \in Orders : MarketOf[o] = mk /\ stage[o] = "booked"}
  <2>0. /\ stage' = [o \in Orders |-> IF o \in S THEN "out" ELSE stage[o]]
        /\ UNCHANGED <<phase, rebooked, release, unbooking, atFault>>
        /\ IF BookLockerSet THEN UnlockOrdersCoins("book", S) ELSE UNCHANGED lockVars
    BY Zenon DEF PurgeBook
  <2>1. S \in SUBSET Orders /\ \A o \in S : stage[o] = "booked"
    BY Zenon
  <2> HIDE DEF S
  <2>2. /\ LockTypeOK' /\ UNCHANGED lockedCoinsByOrder
        /\ lockedCoins'["swap"] = lockedCoins["swap"]
        /\ lockedCoins'["book"] =
             lockedCoins["book"] \ UNION {Listed("book", p) : p \in S}
    <3>1. CASE BookLockerSet
      BY Zenon, <2>0, <3>1 DEF UnlockOrdersCoins, FundTypeOK, LockTypeOK, Lockers, Listed
    <3>2. CASE ~BookLockerSet
      <4>1. lockedCoins["book"] = {}
        BY ZenonT(30), <3>2 DEF Bookkeeping
      <4> QED
        BY Zenon, <2>0, <3>2, <4>1 DEF lockVars, FundTypeOK, LockTypeOK
    <3> QED
      BY Zenon, <3>1, <3>2
  <2>3. FundTypeOK'
    <3>1. stage' \in [Orders -> Stages]
      BY ZenonT(30), <2>0 DEF FundTypeOK, Stages
    <3> QED
      BY ZenonT(30), <2>0, <2>2, <3>1 DEF FundTypeOK
  <2>4. Bookkeeping'
    BY ZenonT(30), <2>0, <2>1, <2>2 DEF Bookkeeping, FundTypeOK, Listed, BookLockerSet, SwapLockerSet
  <2>5. /\ \A p \in S : Holds(p) \/ p \in rebooked
        /\ \A p \in S : ~Holds(p)'
        /\ \A o \in Orders : Holds(o)' => Holds(o)
        /\ \A o \in Orders : Keeps(o) => Keeps(o)' \/ o \in S
    BY ZenonT(30), <2>0, <2>1 DEF Holds, Keeps, Bookkeeping, FundTypeOK
  <2>6. HoldersLocked' /\ HoldersShareNoCoin' /\ BookLocksKept'
    BY Zenon, <2>0, <2>1, <2>2, <2>5, <1>BookRelease
  <2>7. SwapLocksLive'
    BY Zenon, <2>0, <2>2 DEF SwapLocksLive, LiveOrder, Listed
  <2> QED
    BY Zenon, <2>3, <2>4, <2>6, <2>7
\* The Swapper's unlocks: a confirmed swap, a deleted match.
<1>SwapUnlockKeeps.
    ASSUME FundInv, UNCHANGED assetKind, NEW o \in Orders, NEW i \in MatchNos,
           ConfirmSwap(o, i) \/ DeleteMatch(o, i)
    PROVE  FundInv'
  <2> USE <1>SwapUnlockKeeps
  <2> USE DEF FundInv
  <2> DEFINE S == {o}
  <2>0. /\ swapUnlockOrder(o)
        /\ UNCHANGED <<stage, rebooked, release, unbooking, atFault>>
        /\ phase' \in [Orders -> [MatchNos -> Phases]]
    <3>1. ConfirmSwap(o, i) => swapUnlockOrder(o)
                              /\ UNCHANGED <<stage, rebooked, release, unbooking, atFault>>
      BY Zenon DEF ConfirmSwap
    <3>2. DeleteMatch(o, i) => swapUnlockOrder(o)
                              /\ UNCHANGED <<stage, rebooked, release, unbooking, atFault>>
      BY Zenon DEF DeleteMatch
    <3>3. phase' \in [Orders -> [MatchNos -> Phases]]
      BY DEF ConfirmSwap, DeleteMatch, SetPhase, FundTypeOK, Phases
    <3> QED BY Zenon, <3>1, <3>2, <3>3
  <2>1. /\ LockTypeOK' /\ UNCHANGED lockedCoinsByOrder
        /\ lockedCoins'["book"] = lockedCoins["book"]
        /\ lockedCoins'["swap"] = lockedCoins["swap"] \ Listed("swap", o)
    BY <2>0 DEF swapUnlockOrder, UnlockOrderCoins, lockVars, FundTypeOK, LockTypeOK,
                Lockers, Bookkeeping, Listed
  <2>2. \A p \in Orders : LiveOrder(p) => LiveOrder(p)' \/ p \in S
    BY Zenon DEF ConfirmSwap, DeleteMatch, SetPhase, LiveOrder, FundTypeOK
  <2>3. S \in SUBSET Orders /\ UNION {Listed("swap", p) : p \in S} = Listed("swap", o)
    BY Zenon
  <2> HIDE DEF S
  <2>4. lockedCoins'["swap"] = lockedCoins["swap"] \ UNION {Listed("swap", p) : p \in S}
    BY Zenon, <2>1, <2>3
  <2>5. SwapLocksLive'
    BY ZenonT(30), <2>1, <2>2, <2>3, <2>4, <1>SwapRelease
  <2>6. FundTypeOK' /\ Bookkeeping'
    BY Zenon, <2>0, <2>1 DEF FundTypeOK, Bookkeeping, Listed, BookLockerSet, SwapLockerSet
  <2>7. \A p \in Orders : (Holds(p)' <=> Holds(p)) /\ (Keeps(p)' <=> Keeps(p))
    BY ZenonT(30), <2>0 DEF Holds, Keeps
  <2>8. HoldersLocked' /\ HoldersShareNoCoin' /\ BookLocksKept'
    BY Zenon, <2>0, <2>1, <2>7, <1>BookUntouched
  <2> QED
    BY Zenon, <2>5, <2>6, <2>8
\* SwapDone: only the report of a fault unlocks, whatever the order's stage,
\* and it puts the order into atFault.
<1>ReportKeeps.
    ASSUME FundInv, UNCHANGED assetKind, NEW o \in Orders, NEW i \in MatchNos,
           ReportRedeem(o, i) \/ \E fault \in BOOLEAN : ReportFail(o, i, fault)
    PROVE  FundInv'
  <2> USE <1>ReportKeeps
  <2> USE DEF FundInv
  <2>0. /\ UNCHANGED <<rebooked, release, unbooking>>
        /\ phase' \in [Orders -> [MatchNos -> Phases]]
        /\ \A p \in Orders : LiveOrder(p) => LiveOrder(p)'
    <3>1. /\ UNCHANGED <<rebooked, release, unbooking>>
          /\ \/ phase' = [phase EXCEPT ![o][i] = "reported"]
             \/ phase[o][i] = "deleted" /\ phase' = [phase EXCEPT ![o][i] = "done"]
      BY ZenonT(30) DEF ReportRedeem, ReportFail, SetPhase
    <3>2. phase' \in [Orders -> [MatchNos -> Phases]]
      BY <3>1 DEF FundTypeOK, Phases
    <3>3. \A p \in Orders : LiveOrder(p) => LiveOrder(p)'
      BY <3>1 DEF FundTypeOK, LiveOrder
    <3> QED
      BY Zenon, <3>1, <3>2, <3>3
  <2>1. \/ UNCHANGED <<lockVars, stage>> /\ atFault' \in {atFault, atFault \cup {o}}
        \/ /\ unlockOrderCoins(o) /\ atFault' = atFault \cup {o}
           /\ stage' = [stage EXCEPT ![o] = IF @ = "booked" THEN "out" ELSE @]
    <3>1. CASE ReportRedeem(o, i)
      BY Zenon, <3>1 DEF ReportRedeem, SwapDone
    <3>2. ASSUME NEW fault \in BOOLEAN, ReportFail(o, i, fault)
          PROVE  \/ UNCHANGED <<lockVars, stage>> /\ atFault' \in {atFault, atFault \cup {o}}
                 \/ /\ unlockOrderCoins(o) /\ atFault' = atFault \cup {o}
                    /\ stage' = [stage EXCEPT ![o] = IF @ = "booked" THEN "out" ELSE @]
      BY Zenon, <3>2 DEF ReportFail, SwapDone
    <3> QED
      BY Zenon, <3>1, <3>2
  <2>2. CASE UNCHANGED <<lockVars, stage>> /\ atFault' \in {atFault, atFault \cup {o}}
    <3>1. FundTypeOK' /\ Bookkeeping'
      BY Zenon, <2>0, <2>2 DEF FundTypeOK, LockTypeOK, lockVars, Bookkeeping, Listed,
                        BookLockerSet, SwapLockerSet
    <3>2. \A p \in Orders : (Holds(p)' <=> Holds(p)) /\ (Keeps(p)' <=> Keeps(p))
      BY Zenon, <2>0, <2>2 DEF Holds, Keeps
    <3>3. HoldersLocked' /\ HoldersShareNoCoin' /\ BookLocksKept'
      BY ZenonT(30), <2>0, <2>2, <3>2, <1>BookUntouched DEF lockVars
    <3>4. SwapLocksLive'
      BY Zenon, <2>0, <2>2 DEF SwapLocksLive, Listed, lockVars
    <3> QED
      BY ZenonT(30), <3>1, <3>3, <3>4
  <2>3. CASE /\ unlockOrderCoins(o) /\ atFault' = atFault \cup {o}
             /\ stage' = [stage EXCEPT ![o] = IF @ = "booked" THEN "out" ELSE @]
    <3>1. /\ LockTypeOK' /\ UNCHANGED lockedCoinsByOrder
          /\ lockedCoins'["swap"] = lockedCoins["swap"]
          /\ lockedCoins'["book"] \subseteq lockedCoins["book"]
      BY ZenonT(30), <2>3, <1>BookUnlockOnly
    <3>2. FundTypeOK' /\ Bookkeeping'
      BY ZenonT(30), <2>0, <2>3, <3>1 DEF FundTypeOK, Bookkeeping, Listed, BookLockerSet,
                              SwapLockerSet, Stages
    <3>3. /\ \A p \in Orders : Holds(p)' => Holds(p)
          /\ \A p \in Orders : Keeps(p) => Keeps(p)' \/ p = o
      BY Zenon, <2>0, <2>3 DEF Holds, Keeps, FundTypeOK
    <3>4. HoldersLocked' /\ HoldersShareNoCoin' /\ BookLocksKept'
      BY ZenonT(30), <2>0, <2>3, <3>3, <1>BookReleaseOne
    <3>5. SwapLocksLive'
      BY Zenon, <2>0, <3>1 DEF SwapLocksLive, Listed
    <3> QED
      BY Zenon, <3>2, <3>4, <3>5
  <2> QED
    BY Zenon, <2>1, <2>2, <2>3
<1> SUFFICES ASSUME FundInv, [FundNext]_fundingVars PROVE FundInv'
  BY ZenonT(30)
<1>1. CASE UNCHANGED fundingVars
  <2>1. UNCHANGED <<assetKind, lockedCoins, lockedCoinsByOrder, stage, phase,
                    rebooked, release, unbooking, atFault>>
    BY Zenon, <1>1 DEF fundingVars, fundVars, lockVars
  <2>2. /\ (BookLockerSet' <=> BookLockerSet) /\ (SwapLockerSet' <=> SwapLockerSet)
        /\ \A c : Tainted(c)' <=> Tainted(c)
        /\ \A o : (Holds(o)' <=> Holds(o)) /\ (Keeps(o)' <=> Keeps(o)) /\ (LiveOrder(o)' <=> LiveOrder(o))
        /\ \A l, o : Listed(l, o)' = Listed(l, o)
    BY Zenon, <2>1 DEF BookLockerSet, SwapLockerSet, Tainted, Holds, Keeps, LiveOrder, Listed
  <2>3. FundTypeOK'
    BY Zenon, <2>1 DEF FundInv, FundTypeOK, LockTypeOK
  <2>4. Bookkeeping'
    BY Zenon, <2>1, <2>2 DEF FundInv, Bookkeeping
  <2>5. HoldersLocked'
    BY Zenon, <2>1, <2>2 DEF FundInv, HoldersLocked
  <2>6. HoldersShareNoCoin'
    BY Zenon, <2>1, <2>2 DEF FundInv, HoldersShareNoCoin
  <2>7. BookLocksKept' /\ SwapLocksLive'
    BY Zenon, <2>1, <2>2 DEF FundInv, BookLocksKept, SwapLocksLive
  <2> QED
    BY Zenon, <2>3, <2>4, <2>5, <2>6, <2>7 DEF FundInv
<1>2. CASE FundNext
  <2>0. UNCHANGED assetKind
    BY Zenon, <1>2 DEF FundNext
  <2>1. ASSUME NEW o \in Orders,
               \/ CheckCoins(o) \/ EnterEpoch(o) \/ MissPreimage(o)
               \/ DropEpochOrder(o) \/ UnlockThrough(o) \/ Unbook(o) \/ UnlockUnbooked(o)
        PROVE  FundInv'
    BY Zenon, <2>0, <2>1, <1>CheckOrDropKeeps, <1>EnterKeeps, <1>UnlockKeeps, <1>UnbookKeeps
  <2>2. ASSUME NEW mk \in Markets, MatchOrders(mk) \/ Negotiate(mk) \/ PurgeBook(mk)
        PROVE  FundInv'
    BY Zenon, <2>0, <2>2, <1>MatchKeeps, <1>NegotiateKeeps, <1>PurgeKeeps
  <2>3. ASSUME NEW o \in Orders, NEW i \in MatchNos,
               \/ ConfirmSwap(o, i) \/ ReportRedeem(o, i) \/ DeleteMatch(o, i)
               \/ \E fault \in BOOLEAN : ReportFail(o, i, fault)
        PROVE  FundInv'
    BY Zenon, <2>0, <2>3, <1>SwapUnlockKeeps, <1>ReportKeeps
  <2> QED
    BY Zenon, <1>2, <2>1, <2>2, <2>3 DEF FundNext
<1> QED
  BY Zenon, <1>1, <1>2

\* Locks serve their purpose, for any orders, coins, markets and matches:
\* whatever the market loops and the Swapper's callbacks do in between, two
\* waiting orders never share a coin of a UTXO asset, but for the coins that
\* SwapDone's unlock set free and the orders NewMarket booked unlocked.
THEOREM NoCoinFundsTwo == FundSpec => []WaitingOrdersShareNoCoin
<1>1. FundInv => WaitingOrdersShareNoCoin
  <2> SUFFICES ASSUME FundInv, NEW o \in Orders, NEW p \in Orders, BookLockerSet,
                      o # p, Conflict(o, p),
                      stage[o] \in {"epoch", "booked"}, stage[p] \in {"epoch", "booked"},
                      {o, p} \cap rebooked = {}
               PROVE  \E x \in atFault : CoinsOf[x] \cap CoinsOf[o] \cap CoinsOf[p] # {}
    BY Zenon DEF WaitingOrdersShareNoCoin
  <2>1. Holds(o) /\ Holds(p)
    BY Zenon DEF Holds
  <2>2. PICK c \in CoinsOf[o] \cap CoinsOf[p] : TRUE
    BY Zenon DEF Conflict
  <2>3. Tainted(c)
    BY Zenon, <2>1, <2>2 DEF FundInv, HoldersShareNoCoin
  <2> QED
    BY Zenon, <2>2, <2>3 DEF Tainted
<1> QED
  BY <1>1, InitFunds, StepFunds, PTL DEF FundSpec

\* No lock outlives its use, in either locker: every way an order or a match
\* takes through Market and Swapper ends in the unlock call that covers it.
THEOREM NoLockLeaks == FundSpec => []NoLeakedLock
<1>1. FundInv => NoLeakedLock
  <2> SUFFICES ASSUME FundInv PROVE NoLeakedLock
    BY Zenon
  <2>1. NoLeakedBookLock
    BY Zenon DEF FundInv, BookLocksKept, Bookkeeping, Lockers, Keeps, NoLeakedBookLock
  <2>2. NoLeakedSwapLock
    BY Zenon DEF FundInv, SwapLocksLive, Bookkeeping, Lockers, LiveOrder, NoLeakedSwapLock
  <2> QED
    BY Zenon, <2>1, <2>2 DEF NoLeakedLock
<1> QED
  BY <1>1, InitFunds, StepFunds, PTL DEF FundSpec

-----------------------------------------------------------------------------
(* The epoch pump *)

Places == {<<>>} \cup {<<e>> : e \in Epochs}

PumpTypeOK ==
    /\ q \in Seq(Epochs) /\ head \in Places /\ ready \in Places
    /\ halt \in BOOLEAN /\ haltSent \in BOOLEAN /\ closed \in BOOLEAN /\ drained \in BOOLEAN
    /\ tokens \in Nat
    /\ collected \subseteq Epochs /\ taken \subseteq Epochs

\* One token for every queued epoch, and the halt's own; what is delivered is
\* prepared.
TokensMatchQueue ==
    /\ ~closed /\ haltSent => tokens = Len(q) + 1
    /\ ~closed /\ ~haltSent => tokens = Len(q)
    /\ haltSent => halt
    /\ closed => halt /\ q = <<>> /\ head = <<>>
    /\ drained => closed /\ ready = <<>>
    /\ \A e \in Epochs : ready = <<e>> => e \in collected

PumpInv == PumpTypeOK /\ TokensMatchQueue

-----------------------------------------------------------------------------
(* Sequences.                                                              *)

\* A place of the pipeline is a sequence of epochs.
LEMMA PlaceIsSeq == \A p \in Places : p \in Seq(Epochs)
<1>1. <<>> \in Seq(Epochs)
  OBVIOUS
<1>2. \A e \in Epochs : <<e>> \in Seq(Epochs)
  OBVIOUS
<1> QED
  BY ZenonT(30), <1>1, <1>2 DEF Places

-----------------------------------------------------------------------------
(* The inductive invariant.                                                *)

\* A pump that has just been made satisfies the invariant.
LEMMA PumpInitInv == PumpInit => PumpInv
<1> SUFFICES ASSUME PumpInit PROVE PumpInv
  BY Zenon
<1>1. <<>> \in Seq(Epochs) /\ <<>> \in Places /\ Len(<<>>) = 0
  BY DEF Places
<1>2. PumpTypeOK
  BY ZenonT(30), <1>1 DEF PumpInit, PumpTypeOK
<1>3. TokensMatchQueue
  BY Zenon, <1>1 DEF PumpInit, TokensMatchQueue
<1> QED
  BY Zenon, <1>2, <1>3 DEF PumpInv

\* What is under way is a sequence of epochs.
LEMMA InFlightType == PumpTypeOK => InFlight \in Seq(Epochs) /\ Enqueued \subseteq Epochs
<1> SUFFICES ASSUME PumpTypeOK PROVE InFlight \in Seq(Epochs) /\ Enqueued \subseteq Epochs
  BY Zenon
<1>1. ready \in Seq(Epochs) /\ head \in Seq(Epochs) /\ q \in Seq(Epochs)
  BY Zenon, PlaceIsSeq DEF PumpTypeOK
<1>2. ready \o head \in Seq(Epochs)
  BY <1>1
<1>3. InFlight \in Seq(Epochs)
  BY <1>1, <1>2 DEF InFlight
<1>4. \A i \in 1..Len(InFlight) : InFlight[i] \in Epochs
  BY <1>3
<1> QED
  BY Zenon, <1>3, <1>4 DEF Enqueued, PumpTypeOK

\* Every step of the pump and its users preserves the invariant.
LEMMA PumpStepInv == PumpInv /\ [PumpNext]_pumpVars => PumpInv'
<1> SUFFICES ASSUME PumpInv, [PumpNext]_pumpVars PROVE PumpInv'
  BY Zenon
<1> USE DEF PumpInv
<1>0. Len(q) \in Nat
  BY DEF PumpTypeOK
<1>1. ASSUME NEW e \in Epochs, Insert(e) PROVE PumpInv'
  <2>1. q' \in Seq(Epochs) /\ Len(q') = Len(q) + 1
    BY <1>1 DEF Insert, PumpTypeOK
  <2>2. PumpTypeOK'
    BY <1>1, <2>1 DEF Insert, PumpTypeOK
  <2>3. TokensMatchQueue'
    BY Zenon, <1>1, <1>0, <2>1 DEF Insert, PumpTypeOK, TokensMatchQueue
  <2> QED
    BY Zenon, <2>2, <2>3
<1>2. ASSUME NEW e \in Enqueued, Collect(e) PROVE PumpInv'
  BY Zenon, <1>2, InFlightType DEF Collect, PumpTypeOK, TokensMatchQueue
<1>3. CASE Halt
  BY Zenon, <1>3 DEF Halt, PumpTypeOK, TokensMatchQueue
<1>4. CASE HaltToken
  BY <1>4, <1>0 DEF HaltToken, PumpTypeOK, TokensMatchQueue
<1>5. CASE next
  <2>1. CASE q = <<>>
    <3>1. Len(q) = 0
      BY Zenon, <2>1
    <3>2. haltSent
      BY <1>5, <3>1 DEF next, PumpTypeOK, TokensMatchQueue
    <3> QED
      BY <1>5, <2>1, <3>1, <3>2 DEF next, PumpTypeOK, TokensMatchQueue
  <2>2. CASE q # <<>>
    <3>1. Head(q) \in Epochs /\ Tail(q) \in Seq(Epochs) /\ Len(Tail(q)) = Len(q) - 1
      BY <2>2 DEF PumpTypeOK
    <3>2. q' = Tail(q) /\ head' = <<Head(q)>> /\ tokens' = tokens - 1 /\ tokens > 0
      BY Zenon, <1>5, <2>2 DEF next
    <3>3. head' \in Places
      BY Zenon, <3>1, <3>2 DEF Places
    <3>4. PumpTypeOK'
      BY <1>5, <2>2, <3>1, <3>2, <3>3 DEF next, PumpTypeOK
    <3>5. UNCHANGED <<halt, haltSent, ready, closed, collected, drained>> /\ ~closed
      BY Zenon, <1>5, <2>2 DEF next
    <3>6. (haltSent => tokens' = Len(q') + 1) /\ (~haltSent => tokens' = Len(q'))
      BY <1>0, <3>1, <3>2, <3>5 DEF TokensMatchQueue
    <3>7. TokensMatchQueue'
      BY Zenon, <3>5, <3>6 DEF TokensMatchQueue
    <3> QED
      BY Zenon, <3>4, <3>7
  <2> QED
    BY Zenon, <2>1, <2>2
<1>6. CASE Deliver
  <2>1. <<>> \in Places
    BY Zenon DEF Places
  <2> QED
    BY <1>6, <2>1 DEF Deliver, PumpTypeOK, TokensMatchQueue
<1>7. CASE Receive
  <2>1. ready' = <<>> /\ <<>> \in Places
    BY Zenon, <1>7 DEF Places, Receive
  <2>2. PICK e \in Epochs : ready = <<e>>
    BY Zenon, <1>7 DEF Receive, PumpTypeOK, Places
  <2>3. taken' \subseteq Epochs
    BY Zenon, <1>7, <2>2 DEF Receive, PumpTypeOK
  <2> QED
    BY <1>7, <2>1, <2>3 DEF Receive, PumpTypeOK, TokensMatchQueue
<1>8. CASE Drained
  BY Zenon, <1>8 DEF Drained, PumpTypeOK, TokensMatchQueue
<1>9. CASE newEpochPump
  BY ZenonT(30), <1>9 DEF newEpochPump, PumpTypeOK, TokensMatchQueue, Places
<1>10. CASE UNCHANGED pumpVars
  BY Zenon, <1>10 DEF pumpVars, PumpTypeOK, TokensMatchQueue
<1> QED
  BY ZenonT(30), <1>1, <1>2, <1>3, <1>4, <1>5, <1>6, <1>7, <1>8, <1>9, <1>10 DEF PumpNext

-----------------------------------------------------------------------------
(* The refinement.                                                         *)

\* The epoch pump (epump.go) implements the epoch queue: in order, each when it
\* is prepared, none accepted after the halt and none left behind at the close.
THEOREM PumpImplementsQueue == PumpSpec => ImplementsQueue
\* Appending at the back of the last of three parts is appending to the whole.
<1>AppendToWhole.
  ASSUME NEW S, NEW s \in Seq(S), NEW t \in Seq(S), NEW u \in Seq(S), NEW e \in S
  PROVE  s \o t \o Append(u, e) = Append(s \o t \o u, e)
  <2> USE <1>AppendToWhole
  <2>1. \A x, y \in Seq(S) : x \o Append(y, e) = Append(x \o y, e)
    <3> SUFFICES ASSUME NEW x \in Seq(S), NEW y \in Seq(S)
                 PROVE  x \o Append(y, e) = Append(x \o y, e)
      BY Zenon
    <3>1. Append(y, e) \in Seq(S) /\ x \o y \in Seq(S)
      OBVIOUS
    <3>2. x \o Append(y, e) \in Seq(S) /\ Append(x \o y, e) \in Seq(S)
      BY <3>1
    <3>3. Len(x \o Append(y, e)) = Len(Append(x \o y, e))
      BY <3>1
    <3>4. \A i \in 1 .. Len(x \o Append(y, e)) :
             (x \o Append(y, e))[i] = Append(x \o y, e)[i]
      BY <3>1
    <3> QED
      BY <3>2, <3>3, <3>4
  <2>2. s \o t \in Seq(S)
    OBVIOUS
  <2> QED
    BY Zenon, <2>1, <2>2
\* A sequence is its head followed by its tail.
<1>HeadThenTail.
  ASSUME NEW S, NEW s \in Seq(S), s # <<>>
  PROVE  /\ Head(s) \in S /\ Tail(s) \in Seq(S) /\ Len(Tail(s)) = Len(s) - 1
         /\ <<Head(s)>> \o Tail(s) = s
  <2> USE <1>HeadThenTail
  <2>1. Head(s) \in S /\ Tail(s) \in Seq(S) /\ Len(Tail(s)) = Len(s) - 1
    OBVIOUS
  <2>2. <<Head(s)>> \in Seq(S) /\ Len(<<Head(s)>>) = 1
    BY <2>1
  <2>3. /\ <<Head(s)>> \o Tail(s) \in Seq(S)
        /\ Len(<<Head(s)>> \o Tail(s)) = Len(s)
    BY <2>1, <2>2
  <2>4. ASSUME NEW i \in 1..Len(s) PROVE (<<Head(s)>> \o Tail(s))[i] = s[i]
    BY <2>1, <2>2
  <2> QED
    BY <2>1, <2>3, <2>4
\* What is put in front of a sequence is its head.
<1>FrontIsHead.
  ASSUME NEW S, NEW e \in S, NEW s \in Seq(S)
  PROVE  /\ <<e>> \o s # <<>>
         /\ Head(<<e>> \o s) = e
         /\ Tail(<<e>> \o s) = s
  <2> USE <1>FrontIsHead
  <2>1. <<e>> \in Seq(S) /\ Len(<<e>>) = 1
    OBVIOUS
  <2>2. /\ <<e>> \o s \in Seq(S) /\ Len(<<e>> \o s) = 1 + Len(s)
        /\ \A i \in 1..(1 + Len(s)) : (<<e>> \o s)[i] = IF i <= 1 THEN <<e>>[i] ELSE s[i - 1]
    BY <2>1
  <2>3. Len(s) \in Nat
    OBVIOUS
  <2>4. <<e>> \o s # <<>>
    BY <2>2, <2>3
  <2>5. Head(<<e>> \o s) = e
    BY <2>2, <2>3, <2>4
  <2>6. /\ Tail(<<e>> \o s) \in Seq(S) /\ Len(Tail(<<e>> \o s)) = Len(s)
        /\ \A i \in 1..Len(s) : Tail(<<e>> \o s)[i] = (<<e>> \o s)[i + 1]
    BY <2>2, <2>3, <2>4
  <2>7. \A i \in 1..Len(s) : Tail(<<e>> \o s)[i] = s[i]
    BY <2>2, <2>3, <2>6
  <2> QED
    BY <2>4, <2>5, <2>6, <2>7
\* Every step of the pump is a step of the queue, or leaves it as it is.
<1>PumpStepRefines.
  PumpInv /\ PumpInv' /\ [PumpNext]_pumpVars => [Queue!QueueNext]_(Queue!queueVars)
  <2> SUFFICES ASSUME PumpInv, PumpInv', [PumpNext]_pumpVars
               PROVE  [Queue!QueueNext]_(Queue!queueVars)
    BY Zenon
  <2>0. ready \in Seq(Epochs) /\ head \in Seq(Epochs) /\ q \in Seq(Epochs)
    BY Zenon, PlaceIsSeq DEF PumpInv, PumpTypeOK
  <2>1. ASSUME NEW e \in Epochs, Insert(e) PROVE Queue!QueueNext
    <3>1. InFlight' = Append(InFlight, e)
      <4>1. q' = Append(q, e) /\ ready' = ready /\ head' = head
        BY Zenon, <2>1 DEF Insert
      <4>2. ready \o head \o Append(q, e) = Append(ready \o head \o q, e)
        BY <2>0, <1>AppendToWhole
      <4> QED BY Zenon, <4>1, <4>2 DEF InFlight
    <3> QED
      BY ZenonT(30), <2>1, <3>1 DEF Insert, Queue!QueueNext, Queue!Accept
  <2>2. ASSUME NEW e \in Enqueued, Collect(e) PROVE Queue!QueueNext
    <3>1. e \in Epochs
      BY Zenon, InFlightType DEF PumpInv
    <3>2. InFlight' = InFlight
      BY Zenon, <2>2 DEF Collect, InFlight
    <3> QED
      BY Zenon, <2>2, <3>1, <3>2 DEF Collect, Queue!QueueNext, Queue!Prepare
  <2>3. CASE Halt
    BY Zenon, <2>3 DEF Halt, InFlight, Queue!QueueNext, Queue!Stop
  <2>4. CASE HaltToken
    BY Zenon, <2>4 DEF HaltToken, InFlight, Queue!queueVars
  <2>5. CASE next
    <3>1. InFlight' = InFlight
      <4>1. CASE q = <<>>
        BY ZenonT(30), <2>5, <4>1 DEF next, InFlight
      <4>2. CASE q # <<>>
        <5>1. head = <<>> /\ head' = <<Head(q)>> /\ q' = Tail(q) /\ ready' = ready
          BY Zenon, <2>5, <4>2 DEF next
        <5>2. <<Head(q)>> \o Tail(q) = q /\ Head(q) \in Epochs /\ Tail(q) \in Seq(Epochs)
          BY Zenon, <2>0, <4>2, <1>HeadThenTail
        <5>3. <<Head(q)>> \in Seq(Epochs)
          BY <5>2
        <5>4. (ready \o <<Head(q)>>) \o Tail(q) = ready \o q
          BY <2>0, <5>2, <5>3
        <5>5. (ready \o <<>>) \o q = ready \o q
          BY <2>0
        <5> QED
          BY ZenonT(30), <5>1, <5>4, <5>5 DEF InFlight
      <4> QED
        BY Zenon, <4>1, <4>2
    <3> QED
      BY Zenon, <2>5, <3>1 DEF next, Queue!queueVars
  <2>6. CASE Deliver
    <3>1. ready = <<>> /\ ready' = head /\ head' = <<>> /\ q' = q
      BY Zenon, <2>6 DEF Deliver
    <3>2. <<>> \o head = head /\ head \o <<>> = head
      BY <2>0
    <3>3. InFlight' = InFlight
      BY Zenon, <3>1, <3>2 DEF InFlight
    <3> QED
      BY Zenon, <2>6, <3>3 DEF Deliver, Queue!queueVars
  <2>7. CASE Receive
    <3>1. PICK e \in Epochs : ready = <<e>>
      BY Zenon, <2>7 DEF Receive, PumpInv, PumpTypeOK, Places
    <3>2. <<e>> \in Seq(Epochs) /\ head \o q \in Seq(Epochs)
      BY <2>0, <3>1
    <3>3. InFlight = <<e>> \o (head \o q)
      BY <2>0, <3>1, <3>2 DEF InFlight
    <3>4. InFlight # <<>> /\ Head(InFlight) = e /\ Tail(InFlight) = head \o q
      BY ZenonT(30), <3>2, <3>3, <1>FrontIsHead
    <3>5. InFlight' = head \o q
      <4>1. <<>> \o head = head
        BY <2>0
      <4> QED
        BY Zenon, <2>7, <4>1 DEF Receive, InFlight
    <3>6. e \in collected
      BY Zenon, <3>1 DEF PumpInv, TokensMatchQueue
    <3> QED
      BY ZenonT(30), <2>7, <3>1, <3>4, <3>5, <3>6 DEF Receive, Queue!QueueNext, Queue!Release
  <2>8. CASE Drained
    <3>1. InFlight = <<>> /\ InFlight' = InFlight
      <4>1. ready = <<>> /\ head = <<>> /\ q = <<>>
        BY Zenon, <2>8 DEF Drained, PumpInv, TokensMatchQueue
      <4> QED
        BY <2>8, <4>1, <2>0 DEF Drained, InFlight
    <3> QED
      BY Zenon, <2>8, <3>1 DEF Drained, Queue!QueueNext, Queue!Finish, PumpInv, TokensMatchQueue
  <2>9. CASE newEpochPump
    <3>1. ready = <<>> /\ head = <<>> /\ q = <<>>
      BY Zenon, <2>9 DEF newEpochPump, PumpInv, TokensMatchQueue
    <3>2. InFlight' = InFlight
      BY Zenon, <2>9, <3>1 DEF newEpochPump, InFlight
    <3> QED
      BY Zenon, <2>9, <3>2 DEF newEpochPump, Queue!QueueNext, Queue!Reopen
  <2>10. CASE UNCHANGED pumpVars
    BY Zenon, <2>10 DEF pumpVars, InFlight, Queue!queueVars
  <2> QED
    BY ZenonT(30), <2>1, <2>2, <2>3, <2>4, <2>5, <2>6, <2>7, <2>8, <2>9, <2>10 DEF PumpNext
<1>1. PumpInit => Queue!QueueInit
  BY DEF PumpInit, Queue!QueueInit, InFlight
<1>2. PumpSpec => []PumpInv
  BY PumpInitInv, PumpStepInv, PTL DEF PumpSpec
<1> QED
  BY <1>1, <1>2, <1>PumpStepRefines, PTL DEF PumpSpec, ImplementsQueue, Queue!QueueSpec

-----------------------------------------------------------------------------
(* The market *)

LifeTypeOK ==
    /\ startEpochIdx \in Nat \ {0} /\ nextEpoch \in Nat \ {0}
    /\ activeEpochIdx \in Nat /\ suspendEpochIdx \in Int /\ promised \in Int
    /\ now \in Nat
    /\ request # <<>> => request[1].t \in Nat

\* Where the loop is in the sequence of epochs.
EpochsAdvance ==
    /\ Looping => \/ activeEpochIdx = 0 /\ nextEpoch = startEpochIdx
                  \/ activeEpochIdx # 0 /\ nextEpoch = activeEpochIdx + 1
    /\ pc \in {"feeds", "down"} => activeEpochIdx = 0

\* A schedule made in this run is still to come.
ScheduleAhead ==
    Looping /\ ~ctxDone /\ promised >= 0 =>
        suspendEpochIdx = promised /\ nextEpoch - 1 <= promised

LifeInv == LifeTypeOK /\ EpochsAdvance /\ ScheduleAhead

-----------------------------------------------------------------------------
(* Epoch arithmetic.                                                       *)

\* The epoch of an instant is not below that of an earlier epoch's start.
LEMMA EpochOfTime ==
  ASSUME NEW t \in Nat, NEW k \in Nat, NEW d \in Nat \ {0}, k * d <= t
  PROVE  t \div d \in Nat /\ k <= t \div d
<1> DEFINE n == t \div d
<1>1. n \in Int /\ t = d * n + (t % d) /\ t % d \in 0..(d - 1)
  OBVIOUS
<1>2. n >= 0
  <2>1. SUFFICES ASSUME n <= -1 PROVE FALSE
    BY <1>1
  <2>2. d * n <= -d
    BY <1>1, <2>1
  <2> QED
    BY <1>1, <2>2
<1>3. k <= n
  <2>1. SUFFICES ASSUME n + 1 <= k PROVE FALSE
    BY <1>1
  <2>2. d * (n + 1) <= d * k
    BY <1>1, <2>1
  <2>3. d * (n + 1) = d * n + d
    BY <1>1
  <2> QED
    BY <1>1, <2>2, <2>3
<1> QED
  BY <1>1, <1>2, <1>3

-----------------------------------------------------------------------------
(* The inductive invariant.                                                *)

\* What the invariant speaks of.
SchedVars == <<now, startEpochIdx, activeEpochIdx, suspendEpochIdx, pc, ctxDone, nextEpoch,
               request, promised>>

\* A scheduled suspend (Market.Suspend) is never overtaken by cycleEpoch: while
\* the loop runs, the active epoch is at most the final epoch announced.
THEOREM SuspendNeverOvertaken == Spec => []NeverPastFinalEpoch
\* Market.Suspend never answers with an epoch before the soonest possible one.
<1>FinalNotBeforeSoonest.
  ASSUME LifeTypeOK, NEW t \in Nat
  PROVE  LET soonest == IF activeEpochIdx = 0 THEN startEpochIdx - 1 ELSE activeEpochIdx
         IN  finalEpochIdx(t) \in Nat /\ soonest <= finalEpochIdx(t)
  <2> USE <1>FinalNotBeforeSoonest
  <2> DEFINE soonest == IF activeEpochIdx = 0 THEN startEpochIdx - 1 ELSE activeEpochIdx
  <2>1. soonest \in Nat
    BY DEF LifeTypeOK
  <2>2. CASE t < epochEnd(soonest)
    BY <2>1, <2>2 DEF finalEpochIdx
  <2>3. CASE ~(t < epochEnd(soonest))
    <3>1. (soonest + 1) * Dur <= t
      BY <2>1, <2>3, MarketAssumption DEF epochEnd
    <3>2. t \div Dur \in Nat /\ soonest + 1 <= t \div Dur
      BY <2>1, <3>1, EpochOfTime, MarketAssumption
    <3>3. finalEpochIdx(t) = IF t % Dur = 0 THEN t \div Dur - 1 ELSE t \div Dur
      BY Zenon, <2>3 DEF finalEpochIdx
    <3> QED
      BY <2>1, <3>2, <3>3
  <2> QED
    BY Zenon, <2>2, <2>3
<1>LifeInitInv. Init => LifeInv
    BY MarketAssumption DEF Init, LifeInv, LifeTypeOK, EpochsAdvance, ScheduleAhead, Looping, None
<1>SchedUnchanged. LifeInv /\ UNCHANGED SchedVars => LifeInv'
    BY DEF SchedVars, LifeInv, LifeTypeOK, EpochsAdvance, ScheduleAhead, Looping
\* Steps that move pc and nothing else the invariant speaks of.
<1>GotoInv.
  ASSUME LifeInv, NEW place, Goto(place), UNCHANGED <<now, lifeVars, request, promised>>,
         \/ place \in {"top", "select"} /\ Looping
         \/ place = "stopping"
         \/ place = "down" /\ pc = "feeds"
  PROVE  LifeInv'
  <2> USE <1>GotoInv
  <2>1. UNCHANGED <<now, startEpochIdx, activeEpochIdx, suspendEpochIdx, ctxDone, nextEpoch,
                    request, promised>> /\ pc' = place
    BY Zenon DEF Goto, lifeVars
  <2> QED
    BY Zenon, <2>1 DEF LifeInv, LifeTypeOK, EpochsAdvance, ScheduleAhead, Looping
\* Closing an epoch: the schedule is met exactly when it is reached.
<1>CycleInv.
  ASSUME LifeInv, Looping, NEW then \in {"top", "topped"}, cycleEpoch(then)
  PROVE  LifeInv'
  <2> USE <1>CycleInv
  <2>0. UNCHANGED <<now, request, promised>> /\ pc' = then
    BY Zenon DEF cycleEpoch, adminVars
  <2>1. CASE current # 0 /\ halt
    <3>1. UNCHANGED <<startEpochIdx, activeEpochIdx, suspendEpochIdx, ctxDone, nextEpoch>>
      BY Zenon, <2>1 DEF cycleEpoch, lifeVars
    <3> QED
      BY ZenonT(30), <2>0, <3>1 DEF LifeInv, LifeTypeOK, EpochsAdvance, ScheduleAhead, Looping
  <2>2. CASE ~(current # 0 /\ halt) /\ Suspends
    <3>1. UNCHANGED <<startEpochIdx, activeEpochIdx, suspendEpochIdx, nextEpoch>> /\ ctxDone'
      BY Zenon, <2>2 DEF cycleEpoch, lifeVars
    <3> QED
      BY Zenon, <2>0, <3>1 DEF LifeInv, LifeTypeOK, EpochsAdvance, ScheduleAhead, Looping
  <2>3. CASE ~(current # 0 /\ halt) /\ ~Suspends
    <3>1. /\ UNCHANGED <<startEpochIdx, suspendEpochIdx, ctxDone>>
          /\ nextEpoch' = nextEpoch + 1 /\ activeEpochIdx' = nextEpoch
          /\ suspendEpochIdx # nextEpoch - 1
      BY Zenon, <2>3 DEF cycleEpoch, Suspends
    <3> QED
      BY <2>0, <3>1 DEF LifeInv, LifeTypeOK, EpochsAdvance, ScheduleAhead, Looping
  <2> QED
    BY ZenonT(30), <2>1, <2>2, <2>3
\* Every step of the market preserves the invariant.
<1>LifeStepInv. LifeInv /\ [Next]_vars => LifeInv'
  <2> SUFFICES ASSUME LifeInv, [Next]_vars PROVE LifeInv'
    BY Zenon
  <2>1. CASE TopStops \/ SelectDone
    BY ZenonT(30), <2>1, <1>GotoInv DEF TopStops, SelectDone, adminVars
  <2>2. CASE TopIdle
    <3>1. UNCHANGED <<now, lifeVars, request, promised>> /\ Looping
      BY Zenon, <2>2 DEF TopIdle, adminVars, Looping
    <3>2. Goto("stopping") \/ Goto("select")
      BY Zenon, <2>2 DEF TopIdle
    <3> QED
      BY ZenonT(30), <3>1, <3>2, <1>GotoInv
  <2>3. CASE TopCycles
    BY Zenon, <2>3, <1>CycleInv DEF TopCycles, Looping
  <2>4. CASE SelectCycles
    BY Zenon, <2>4, <1>CycleInv DEF SelectCycles, Looping
  <2>5. CASE SelectOrder
    <3>1. UNCHANGED <<now, lifeVars, request, promised>> /\ Looping /\ Goto("top")
      BY Zenon, <2>5 DEF SelectOrder, adminVars, Looping
    <3> QED
      BY Zenon, <3>1, <1>GotoInv
  <2>6. CASE SelectFails
    BY Zenon, <2>6, <1>GotoInv DEF SelectFails
  <2>7. CASE RunReturns
    BY Zenon, <2>7, <1>GotoInv DEF RunReturns, adminVars
  <2>8. CASE FlagStopped
    <3>1. /\ pc' = "flagged" /\ ctxDone'
          /\ UNCHANGED <<now, startEpochIdx, activeEpochIdx, suspendEpochIdx, nextEpoch, request, promised>>
      BY Zenon, <2>8 DEF FlagStopped, lifeVars, adminVars
    <3> QED
      BY Zenon, <3>1 DEF LifeInv, LifeTypeOK, EpochsAdvance, ScheduleAhead, Looping
  <2>9. CASE SignalSuspend
    <3>1. /\ pc' = "feeds" /\ activeEpochIdx' = 0
          /\ UNCHANGED <<now, startEpochIdx, suspendEpochIdx, nextEpoch, request, promised>>
      BY Zenon, <2>9 DEF SignalSuspend, Goto, adminVars
    <3> QED
      BY Zenon, <3>1 DEF LifeInv, LifeTypeOK, EpochsAdvance, ScheduleAhead, Looping
  <2>10. CASE DrainRouter \/ PumpStep \/ TakeEpoch \/ processReadyEpoch \/ StorageFails
    BY Zenon, <2>10, <1>SchedUnchanged DEF DrainRouter, PumpStep, TakeEpoch, processReadyEpoch, StorageFails,
       SchedVars, MarketVars, lifeVars, loopVars, adminVars
  <2>11. ASSUME NEW e \in Epochs, prepEpoch(e) PROVE LifeInv'
    BY Zenon, <2>11, <1>SchedUnchanged DEF prepEpoch, SchedVars, MarketVars, lifeVars, loopVars, adminVars
  <2>12. ASSUME NEW o \in MarketOrders, SubmitOrderAsync(o) \/ processCancelOrderWhileSuspended(o) PROVE LifeInv'
    BY Zenon, <2>12, <1>SchedUnchanged
       DEF SubmitOrderAsync, processCancelOrderWhileSuspended, SchedVars, lifeVars, loopVars, adminVars
  <2>13. CASE SuspendMarket
    <3>1. request # <<>> /\ request' = <<>> /\ UNCHANGED <<now, pc, ctxDone, nextEpoch>>
      BY Zenon, <2>13 DEF SuspendMarket, loopVars
    <3>2. CASE pc = "down" \/ shutdown
      <4>1. UNCHANGED <<startEpochIdx, activeEpochIdx, suspendEpochIdx, promised>>
        BY Zenon, <2>13, <3>2 DEF SuspendMarket, lifeVars
      <4> QED
        BY Zenon, <3>1, <4>1 DEF LifeInv, LifeTypeOK, EpochsAdvance, ScheduleAhead, Looping
    <3>3. CASE ~(pc = "down" \/ shutdown)
      <4> DEFINE f == finalEpochIdx(request[1].t)
      <4>1. /\ suspendEpochIdx' = f /\ promised' = IF Looping THEN f ELSE Late
            /\ UNCHANGED <<startEpochIdx, activeEpochIdx>>
        BY Zenon, <2>13, <3>3 DEF SuspendMarket
      <4>2. request[1].t \in Nat
        BY Zenon, <3>1 DEF LifeInv, LifeTypeOK
      <4>3. /\ f \in Nat
            /\ (IF activeEpochIdx = 0 THEN startEpochIdx - 1 ELSE activeEpochIdx) <= f
        BY Zenon, <4>2, <1>FinalNotBeforeSoonest DEF LifeInv
      <4> HIDE DEF f
      <4>4. LifeTypeOK' /\ EpochsAdvance'
        BY <3>1, <4>1, <4>3 DEF LifeInv, LifeTypeOK, EpochsAdvance, Looping, Late
      <4>5. ScheduleAhead'
        BY <3>1, <4>1, <4>3 DEF LifeInv, LifeTypeOK, EpochsAdvance, ScheduleAhead, Looping, Late
      <4> QED
        BY Zenon, <4>4, <4>5 DEF LifeInv
    <3> QED
      BY Zenon, <3>2, <3>3
  <2>14. CASE Tick
    <3>1. now' = now + 1 /\ UNCHANGED <<startEpochIdx, activeEpochIdx, suspendEpochIdx, pc, ctxDone,
                                        nextEpoch, request, promised>>
      BY Zenon, <2>14 DEF Tick, lifeVars, loopVars, adminVars
    <3> QED
      BY <3>1 DEF LifeInv, LifeTypeOK, EpochsAdvance, ScheduleAhead, Looping
  <2>15. ASSUME NEW t \in 0..MaxTime, NEW p \in BOOLEAN, apiSuspend(t, p) PROVE LifeInv'
    <3>1. /\ request' = <<[t |-> t, persist |-> p]>>
          /\ UNCHANGED <<now, startEpochIdx, activeEpochIdx, suspendEpochIdx, pc, ctxDone, nextEpoch, promised>>
      BY Zenon, <2>15 DEF apiSuspend, lifeVars, loopVars
    <3>2. request'[1].t = t /\ t \in Nat
      BY <3>1, MarketAssumption
    <3> QED
      BY Zenon, <3>1, <3>2 DEF LifeInv, LifeTypeOK, EpochsAdvance, ScheduleAhead, Looping
  <2>16. ASSUME NEW t \in 0..MaxTime, ResumeMarket(t) PROVE LifeInv'
    <3>1. /\ startEpochIdx' = ResumeEpoch(t) /\ nextEpoch' = ResumeEpoch(t) /\ pc = "down" /\ pc' = "top"
          /\ promised' \in {Late, None}
          /\ UNCHANGED <<now, activeEpochIdx, suspendEpochIdx, request>>
      BY Zenon, <2>16 DEF ResumeMarket
    <3>2. now \div Dur \in Nat /\ t \div Dur \in Nat
      BY EpochOfTime, MarketAssumption DEF LifeInv, LifeTypeOK
    <3>3. ResumeEpoch(t) \in Nat \ {0}
      BY <3>2 DEF ResumeEpoch, Max2
    <3> QED
      BY <3>1, <3>3 DEF LifeInv, LifeTypeOK, EpochsAdvance, ScheduleAhead, Looping, Late, None
  <2>17. CASE Shutdown
    <3>1. ctxDone' /\ UNCHANGED <<now, startEpochIdx, activeEpochIdx, suspendEpochIdx, pc, nextEpoch,
                                  request, promised>>
      BY Zenon, <2>17 DEF Shutdown, lifeVars
    <3> QED
      BY Zenon, <3>1 DEF LifeInv, LifeTypeOK, EpochsAdvance, ScheduleAhead, Looping
  <2>18. CASE UNCHANGED vars
    BY Zenon, <2>18, <1>SchedUnchanged DEF vars, SchedVars, lifeVars, loopVars, adminVars
  <2> QED
    BY Zenon, <2>1, <2>2, <2>3, <2>4, <2>5, <2>6, <2>7, <2>8, <2>9, <2>10, <2>11, <2>12, <2>13, <2>14, <2>15,
       <2>16, <2>17, <2>18 DEF Next, System, RunLoop, Stopping
<1>1. LifeInv => NeverPastFinalEpoch
  BY DEF LifeInv, LifeTypeOK, EpochsAdvance, ScheduleAhead, NeverPastFinalEpoch
<1> QED
  BY <1>1, <1>LifeInitInv, <1>LifeStepInv, PTL DEF Spec

-----------------------------------------------------------------------------
(* The market at rest.                                                     *)

RestInv ==
    /\ PumpInv
    /\ now \in 0..MaxTime /\ nextEpoch \in Nat \ {0}
    /\ current \in Nat /\ current * Dur <= now
    /\ drained => busy = <<>>
    /\ pc \in {"feeds", "down"} => drained

\* A market that has just been made is at rest.
LEMMA RestInitInv == Init => RestInv
<1> SUFFICES ASSUME Init PROVE RestInv
  BY Zenon
<1>1. PumpInv
  BY Zenon, PumpInitInv DEF Init
<1> QED
  BY <1>1, MarketAssumption DEF Init, RestInv

\* The market uses the pump only in the ways the pump's own specification has.
LEMMA MarketUsesPump == RestInv /\ [Next]_vars => [PumpNext]_pumpVars
\* The epoch that cycleEpoch closes is one the pump may take.
<1>CurrentIsEpoch. RestInv /\ current # 0 => current \in Epochs
  <2> SUFFICES ASSUME RestInv, current # 0 PROVE current \in Epochs
    BY Zenon
  <2>1. current <= current * Dur
    BY MarketAssumption DEF RestInv
  <2>2. current \in 1..MaxTime /\ current * Dur <= MaxTime
    BY <2>1, MarketAssumption DEF RestInv
  <2> QED
    BY Zenon, <2>2, EpochsCoverTime
<1> SUFFICES ASSUME RestInv, [Next]_vars PROVE [PumpNext]_pumpVars
  BY Zenon
<1>1. ASSUME NEW then, cycleEpoch(then) PROVE [PumpNext]_pumpVars
  <2>1. CASE current = 0 \/ halt
    BY Zenon, <1>1, <2>1 DEF cycleEpoch
  <2>2. CASE ~(current = 0 \/ halt)
    BY Zenon, <1>1, <2>2, <1>CurrentIsEpoch DEF cycleEpoch, PumpNext
  <2> QED
    BY Zenon, <2>1, <2>2
<1>2. CASE RunLoop
  BY ZenonT(30), <1>1, <1>2 DEF RunLoop, TopStops, TopCycles, TopIdle, SelectDone, SelectCycles, SelectOrder, SelectFails
<1>3. CASE Stopping
  BY Zenon, <1>3 DEF Stopping, DrainRouter, FlagStopped, SignalSuspend, RunReturns
<1>4. ASSUME NEW e \in Epochs, prepEpoch(e) PROVE [PumpNext]_pumpVars
  BY Zenon, <1>4 DEF prepEpoch, PumpNext
<1>5. CASE PumpStep \/ TakeEpoch
  BY Zenon, <1>5 DEF PumpStep, TakeEpoch, PumpNext
<1>6. CASE processReadyEpoch \/ SuspendMarket \/ Tick \/ Shutdown \/ StorageFails
  BY Zenon, <1>6 DEF processReadyEpoch, SuspendMarket, Tick, Shutdown, StorageFails
<1>7. ASSUME NEW o \in MarketOrders, SubmitOrderAsync(o) \/ processCancelOrderWhileSuspended(o)
      PROVE [PumpNext]_pumpVars
  BY Zenon, <1>7 DEF SubmitOrderAsync, processCancelOrderWhileSuspended
<1>8. ASSUME NEW t \in 0..MaxTime, NEW p \in BOOLEAN, apiSuspend(t, p) PROVE [PumpNext]_pumpVars
  BY Zenon, <1>8 DEF apiSuspend
<1>9. ASSUME NEW t \in 0..MaxTime, ResumeMarket(t) PROVE [PumpNext]_pumpVars
  BY Zenon, <1>9 DEF ResumeMarket, PumpNext
<1>10. CASE UNCHANGED vars
  BY Zenon, <1>10 DEF vars
<1> QED
  BY ZenonT(30), <1>2, <1>3, <1>4, <1>5, <1>6, <1>7, <1>8, <1>9, <1>10 DEF Next, System

\* Every step preserves the invariant.  What a step may not do is start an
\* epoch on a drained pump, or let a stopped market run with the old pump.
LEMMA RestStepInv == RestInv /\ [Next]_vars => RestInv'
<1> SUFFICES ASSUME RestInv, [Next]_vars PROVE RestInv'
  BY Zenon
<1>0. PumpInv'
  BY Zenon, MarketUsesPump, PumpStepInv DEF RestInv
<1> DEFINE Rest == <<now, nextEpoch, current, drained, busy, pc>>
<1>1. ASSUME UNCHANGED Rest PROVE RestInv'
  BY Zenon, <1>0, <1>1 DEF RestInv
<1>2. ASSUME NEW place, Goto(place), UNCHANGED <<now, drained, busy>>,
             place \in {"top", "select", "stopping"} \/ (place = "feeds" /\ drained) \/ (place = "down" /\ pc = "feeds")
      PROVE  RestInv'
  BY Zenon, <1>0, <1>2 DEF RestInv, Goto
<1>3. ASSUME NEW then \in {"top", "topped"}, Due, cycleEpoch(then) PROVE RestInv'
  <2>1. UNCHANGED <<now, busy, drained>> /\ pc' = then
    <3>1. UNCHANGED drained
      BY Zenon, <1>3 DEF cycleEpoch, pumpVars, Insert
    <3> QED
      BY Zenon, <1>3, <3>1 DEF cycleEpoch
  <2>2. \/ UNCHANGED <<current, nextEpoch>>
        \/ current' = 0 /\ UNCHANGED nextEpoch
        \/ current' = nextEpoch /\ nextEpoch' = nextEpoch + 1
    BY Zenon, <1>3 DEF cycleEpoch
  <2>3. nextEpoch * Dur <= now /\ 0 * Dur <= now
    BY <1>3, MarketAssumption DEF Due, RestInv
  <2>4. current' \in Nat /\ current' * Dur <= now /\ nextEpoch' \in Nat \ {0}
    BY <2>2, <2>3 DEF RestInv
  <2> QED
    BY Zenon, <1>0, <2>1, <2>4 DEF RestInv
<1>4. CASE RunLoop
  <2>1. CASE TopStops \/ SelectDone \/ SelectFails \/ SelectOrder
    BY ZenonT(30), <1>2, <2>1 DEF TopStops, SelectDone, SelectFails, SelectOrder, orderVars, pumpVars
  <2>2. CASE TopIdle
    <3>1. UNCHANGED <<now, drained, busy>> /\ (Goto("stopping") \/ Goto("select"))
      BY ZenonT(30), <2>2 DEF TopIdle, orderVars, pumpVars
    <3> QED
      BY ZenonT(30), <1>2, <3>1
  <2>3. CASE TopCycles \/ SelectCycles
    BY ZenonT(30), <1>3, <2>3 DEF TopCycles, SelectCycles
  <2> QED
    BY ZenonT(30), <1>4, <2>1, <2>2, <2>3 DEF RunLoop
<1>5. CASE Stopping
  <2>1. CASE SignalSuspend \/ RunReturns
    BY ZenonT(30), <1>2, <2>1 DEF SignalSuspend, RunReturns, orderVars, pumpVars
  <2>2. CASE FlagStopped
    BY ZenonT(30), <1>0, <2>2 DEF FlagStopped, RestInv, orderVars, pumpVars
  <2>3. CASE DrainRouter
    BY ZenonT(30), <1>1, <2>3 DEF DrainRouter, loopVars, pumpVars
  <2> QED
    BY ZenonT(30), <1>5, <2>1, <2>2, <2>3 DEF Stopping
<1>6. ASSUME NEW e \in Epochs, prepEpoch(e) PROVE RestInv'
  BY ZenonT(30), <1>1, <1>6 DEF prepEpoch, Collect, MarketVars, loopVars
<1>7. CASE PumpStep
  BY ZenonT(30), <1>1, <1>7 DEF PumpStep, Halt, HaltToken, next, Deliver, MarketVars, loopVars
<1>8. CASE TakeEpoch
  <2>1. UNCHANGED <<now, nextEpoch, current, pc>> /\ busy = <<>>
    BY Zenon, <1>8 DEF TakeEpoch, MarketVars, loopVars
  <2>2. CASE Receive /\ busy' = ready
    <3>1. ~drained /\ UNCHANGED drained
      BY Zenon, <2>2 DEF Receive, RestInv, PumpInv, TokensMatchQueue
    <3> QED
      BY Zenon, <1>0, <2>1, <3>1 DEF RestInv
  <2>3. CASE Drained /\ UNCHANGED busy
    BY Zenon, <1>0, <2>1, <2>3 DEF Drained, RestInv
  <2> QED
    BY ZenonT(30), <1>8, <2>2, <2>3 DEF TakeEpoch
<1>9. CASE processReadyEpoch
  <2>1. busy' = <<>> /\ UNCHANGED <<now, nextEpoch, current, pc, drained>>
    BY ZenonT(30), <1>9 DEF processReadyEpoch, loopVars, pumpVars
  <2> QED
    BY ZenonT(30), <1>0, <2>1 DEF RestInv
<1>10. CASE SuspendMarket \/ Shutdown \/ StorageFails
  BY Zenon, <1>1, <1>10 DEF SuspendMarket, Shutdown, StorageFails, loopVars, orderVars, pumpVars
<1>11. CASE Tick
  <2>1. now' = now + 1 /\ now' <= MaxTime /\ UNCHANGED <<nextEpoch, current, drained, busy, pc>>
    BY <1>11, MarketAssumption DEF Tick, loopVars, orderVars, pumpVars, RestInv
  <2>2. current * Dur \in Nat
    BY MarketAssumption DEF RestInv
  <2> QED
    BY <1>0, <2>1, <2>2 DEF RestInv
<1>12. ASSUME NEW o \in MarketOrders, SubmitOrderAsync(o) \/ processCancelOrderWhileSuspended(o) PROVE RestInv'
  BY ZenonT(30), <1>1, <1>12 DEF SubmitOrderAsync, processCancelOrderWhileSuspended, loopVars, pumpVars
<1>13. ASSUME NEW t \in 0..MaxTime, NEW p \in BOOLEAN, apiSuspend(t, p) PROVE RestInv'
  BY Zenon, <1>1, <1>13 DEF apiSuspend, loopVars, orderVars, pumpVars
<1>14. ASSUME NEW t \in 0..MaxTime, ResumeMarket(t) PROVE RestInv'
  <2>1. /\ pc' = "top" /\ current' = 0 /\ nextEpoch' = ResumeEpoch(t) /\ ~drained'
        /\ UNCHANGED <<now, busy>>
    BY Zenon, <1>14 DEF ResumeMarket, newEpochPump, orderVars
  <2>2. now \div Dur \in Nat /\ t \div Dur \in Nat
    BY EpochOfTime, MarketAssumption DEF RestInv
  <2>3. nextEpoch' \in Nat \ {0}
    BY <2>1, <2>2 DEF ResumeEpoch, Max2
  <2> QED
    BY <1>0, <2>1, <2>3, MarketAssumption DEF RestInv
<1>15. CASE UNCHANGED vars
  BY Zenon, <1>1, <1>15 DEF vars, loopVars, orderVars, pumpVars
<1> QED
  BY ZenonT(30), <1>4, <1>5, <1>6, <1>7, <1>8, <1>9, <1>10, <1>11, <1>12, <1>13, <1>14, <1>15 DEF Next, System

\* The book of a stopped market is at rest: after the suspend signal and the
\* purge of Run's shutdown no order is added to it until the market runs again.
THEOREM StoppedBookAtRest == Spec => BookAtRestWhenSuspended
<1>1. RestInv /\ [Next]_vars => [(pc \in {"feeds", "down"}) => (book' \subseteq book)]_vars
  <2> SUFFICES ASSUME RestInv, Next, pc \in {"feeds", "down"} PROVE book' \subseteq book
    BY Zenon
  <2>1. busy = <<>> /\ pc \notin {"top", "topped", "select", "stopping", "flagged"}
    BY Zenon DEF RestInv
  <2>2. CASE RunLoop
    BY ZenonT(30), <2>1, <2>2 DEF RunLoop, TopStops, TopCycles, TopIdle, SelectDone, SelectCycles, SelectOrder, SelectFails
  <2>3. CASE Stopping
    BY Zenon, <2>1, <2>3 DEF Stopping, DrainRouter, FlagStopped, SignalSuspend, RunReturns, orderVars
  <2>4. CASE processReadyEpoch
    BY Zenon, <2>1, <2>4 DEF processReadyEpoch
  <2>5. CASE PumpStep \/ TakeEpoch \/ SuspendMarket \/ Tick \/ Shutdown \/ StorageFails
    BY Zenon, <2>5 DEF PumpStep, TakeEpoch, SuspendMarket, Tick, Shutdown, StorageFails, MarketVars, orderVars
  <2>6. ASSUME NEW e \in Epochs, prepEpoch(e) PROVE book' = book
    BY Zenon, <2>6 DEF prepEpoch, MarketVars
  <2>7. ASSUME NEW o \in MarketOrders, SubmitOrderAsync(o) \/ processCancelOrderWhileSuspended(o)
        PROVE book' \subseteq book
    BY Zenon, <2>7 DEF SubmitOrderAsync, processCancelOrderWhileSuspended
  <2>8. ASSUME NEW t \in 0..MaxTime, NEW p \in BOOLEAN, apiSuspend(t, p) PROVE book' = book
    BY Zenon, <2>8 DEF apiSuspend, orderVars
  <2>9. ASSUME NEW t \in 0..MaxTime, ResumeMarket(t) PROVE book' = book
    BY Zenon, <2>9 DEF ResumeMarket, orderVars
  <2> QED
    BY ZenonT(30), <2>2, <2>3, <2>4, <2>5, <2>6, <2>7, <2>8, <2>9 DEF Next, System
<1> QED
  BY <1>1, RestInitInv, RestStepInv, PTL DEF Spec, BookAtRestWhenSuspended

\* The pump inside the market is the epoch queue: whatever the market, its
\* operator and its clients do, closed epochs are processed in order and a stop
\* loses none of them.
THEOREM MarketPumpIsQueue == Spec => ImplementsQueue
<1>1. Init => PumpInit
  BY Zenon DEF Init
<1>2. Spec => PumpSpec
  BY <1>1, RestInitInv, RestStepInv, MarketUsesPump, PTL DEF Spec, PumpSpec
<1> QED
  BY Zenon, <1>2, PumpImplementsQueue
=============================================================================
