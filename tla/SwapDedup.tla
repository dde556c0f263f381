------------------------------ MODULE SwapDedup ------------------------------
(***************************************************************************)
(* The Swapper's maps of contracts and secret hashes in use: processInit   *)
(* refuses a contract, or a maker's secret hash, that another match has    *)
(* registered; deleteMatch removes a match's entries; restoreActiveSwaps   *)
(* registers the stored contracts again.                                   *)
(*                                                                         *)
(* A coin waiter registers its contract before its last checks and before  *)
(* it looks whether the match is still tracked.                            *)
(***************************************************************************)
EXTENDS Naturals

CONSTANTS Matches, Contracts, Hashes, NoMatch,
          HashOf,      \* the secret hash in each contract
          MaxCrashes   \* bound: server restarts

ASSUME DedupAssumption ==
    /\ HashOf \in [Contracts -> Hashes]
    /\ NoMatch \notin Matches
    /\ MaxCrashes \in Nat

Sides == {"maker", "taker"}

\* One side's contract in one match.
Entries == [match : Matches, side : Sides, contract : Contracts]

VARIABLES
    life,               \* a match is "new", "tracked", "deleted" (its row is
                        \* still active) or "over"
    activeCoinIDs,      \* contract -> match or NoMatch
    matchCoinIDs,       \* match -> contracts
    activeSecretHashes, \* hash -> match or NoMatch
    matchSecretHashes,  \* match -> hashes
    searching,          \* entries whose coin waiter looks for the transaction
    registered,         \* entries whose coin waiter has registered them
    stored,             \* entries saved in the match's row
    swaps,              \* entries recorded in the match's swapStatus
    crashes,
    revived             \* history: matches deleted, then loaded by a restart

mapVars == <<activeCoinIDs, matchCoinIDs, activeSecretHashes, matchSecretHashes>>
dedupVars == <<life, mapVars, searching, registered, stored, swaps, crashes, revived>>

DedupInit ==
    /\ life = [m \in Matches |-> "new"]
    /\ activeCoinIDs = [c \in Contracts |-> NoMatch]
    /\ matchCoinIDs = [m \in Matches |-> {}]
    /\ activeSecretHashes = [h \in Hashes |-> NoMatch]
    /\ matchSecretHashes = [m \in Matches |-> {}]
    /\ searching = {} /\ registered = {} /\ stored = {} /\ swaps = {}
    /\ crashes = 0 /\ revived = {}

addMatch(m) ==
    /\ life[m] = "new"
    /\ life' = [life EXCEPT ![m] = "tracked"]
    /\ UNCHANGED <<mapVars, searching, registered, stored, swaps, crashes, revived>>

-----------------------------------------------------------------------------
(* handleInit and processInit.                                             *)

SameSide(x, y) == x.match = y.match /\ x.side = y.side

\* The search flag admits one coin waiter for each side of a match.
handleInit(e) ==
    /\ life[e.match] = "tracked"
    /\ \A x \in searching \cup registered : ~SameSide(x, e)
    /\ searching' = searching \cup {e}
    /\ UNCHANGED <<life, mapVars, registered, stored, swaps, crashes, revived>>

InUse(map, x, m) == map[x] \notin {NoMatch, m}

\* Mutant of Refused: secret hashes are compared, contracts are not.
RefusedHash(e) ==
    e.side = "maker" /\ InUse(activeSecretHashes, HashOf[e.contract], e.match)

Refused(e) ==
    \/ InUse(activeCoinIDs, e.contract, e.match)
    \/ e.side = "maker" /\ InUse(activeSecretHashes, HashOf[e.contract], e.match)

\* The transaction is not found in time, an early check fails, or the entry
\* is Refused.
giveUp(e) ==
    /\ e \in searching
    /\ searching' = searching \ {e}
    /\ UNCHANGED <<life, mapVars, registered, stored, swaps, crashes, revived>>

\* Check and registration, under activeCoinsMtx.
register(e) ==
    /\ e \in searching
    /\ ~Refused(e)
    /\ IF e.side = "maker"
       THEN /\ matchSecretHashes' = [matchSecretHashes EXCEPT
                   ![e.match] = IF activeSecretHashes[HashOf[e.contract]] = NoMatch
                                THEN @ \cup {HashOf[e.contract]} ELSE @]
            /\ activeSecretHashes' =
                   [activeSecretHashes EXCEPT ![HashOf[e.contract]] = e.match]
       ELSE UNCHANGED <<matchSecretHashes, activeSecretHashes>>
    /\ matchCoinIDs' = [matchCoinIDs EXCEPT
           ![e.match] = IF activeCoinIDs[e.contract] = NoMatch
                        THEN @ \cup {e.contract} ELSE @]
    /\ activeCoinIDs' = [activeCoinIDs EXCEPT ![e.contract] = e.match]
    /\ searching' = searching \ {e}
    /\ registered' = registered \cup {e}
    /\ UNCHANGED <<life, stored, swaps, crashes, revived>>

\* A later check fails: the waiter ends, its entries stay in the maps.
reject(e) ==
    /\ e \in registered
    /\ registered' = registered \ {e}
    /\ UNCHANGED <<life, mapVars, searching, stored, swaps, crashes, revived>>

\* The row cannot be written: the waiter is tried again from its search.
storeError(e) ==
    /\ e \in registered
    /\ registered' = registered \ {e}
    /\ searching' = searching \cup {e}
    /\ UNCHANGED <<life, mapVars, stored, swaps, crashes, revived>>

Replace(S, e) == {x \in S : ~SameSide(x, e)} \cup {e}

\* SaveContractA and SaveContractB overwrite the side's contract.
SaveContract(e) ==
    /\ e \in registered \ stored
    /\ stored' = Replace(stored, e)
    /\ UNCHANGED <<life, mapVars, searching, registered, swaps, crashes, revived>>

Live(m) == life[m] = "tracked"

\* The swapStatus is set only if the match is still tracked.
update(e) ==
    /\ e \in registered \cap stored
    /\ registered' = registered \ {e}
    /\ swaps' = IF Live(e.match) THEN Replace(swaps, e) ELSE swaps
    /\ UNCHANGED <<life, mapVars, searching, stored, crashes, revived>>

-----------------------------------------------------------------------------
Released(map, list, m) ==
    [x \in DOMAIN map |-> IF x \in list[m] THEN NoMatch ELSE map[x]]

\* A match is deleted with its row already inactive (completed, or failed
\* by processInit), or checkInaction deletes it and calls failMatch after.
deleteMatch(m, next) ==
    /\ life[m] = "tracked"
    /\ life' = [life EXCEPT ![m] = next]
    /\ activeCoinIDs' = Released(activeCoinIDs, matchCoinIDs, m)
    /\ matchCoinIDs' = [matchCoinIDs EXCEPT ![m] = {}]
    /\ activeSecretHashes' = Released(activeSecretHashes, matchSecretHashes, m)
    /\ matchSecretHashes' = [matchSecretHashes EXCEPT ![m] = {}]
    /\ swaps' = {x \in swaps : x.match # m}
    /\ UNCHANGED <<searching, registered, stored, crashes, revived>>

\* failMatch: SetMatchInactive.
failMatch(m) ==
    /\ life[m] = "deleted"
    /\ life' = [life EXCEPT ![m] = "over"]
    /\ UNCHANGED <<mapVars, searching, registered, stored, swaps, crashes, revived>>

\* restoreActiveSwaps loads every row still active; of two rows with the
\* same contract or hash the later one read owns the entry.
Active(m) == life[m] \in {"tracked", "deleted"}

Rows == {x \in stored : Active(x.match)}

Users(c) == {m \in Matches : \E x \in Rows : x.match = m /\ x.contract = c}

Makers(h) == {m \in Matches : \E x \in Rows :
                 x.match = m /\ x.side = "maker" /\ HashOf[x.contract] = h}

Owner(S) == IF S = {} THEN {NoMatch} ELSE S

Restart ==
    /\ crashes < MaxCrashes
    /\ crashes' = crashes + 1
    /\ life' = [m \in Matches |-> IF Active(m) THEN "tracked" ELSE life[m]]
    /\ revived' = revived \cup {m \in Matches : life[m] = "deleted"}
    /\ swaps' = Rows
    /\ searching' = {} /\ registered' = {}
    /\ \E f \in [Contracts -> Matches \cup {NoMatch}] :
          /\ \A c \in Contracts : f[c] \in Owner(Users(c))
          /\ activeCoinIDs' = f
    /\ matchCoinIDs' = [m \in Matches |-> {c \in Contracts : m \in Users(c)}]
    /\ \E f \in [Hashes -> Matches \cup {NoMatch}] :
          /\ \A h \in Hashes : f[h] \in Owner(Makers(h))
          /\ activeSecretHashes' = f
    /\ matchSecretHashes' = [m \in Matches |-> {h \in Hashes : m \in Makers(h)}]
    /\ UNCHANGED stored

-----------------------------------------------------------------------------
MatchStep(m) ==
    \/ addMatch(m)
    \/ deleteMatch(m, "deleted")
    \/ deleteMatch(m, "over")
    \/ failMatch(m)

WaiterStep(e) ==
    \/ handleInit(e) \/ giveUp(e) \/ register(e)
    \/ reject(e) \/ storeError(e) \/ SaveContract(e) \/ update(e)

DedupNext ==
    \/ \E m \in Matches : MatchStep(m)
    \/ \E e \in Entries : WaiterStep(e)
    \/ Restart

DedupSpec == DedupInit /\ [][DedupNext]_dedupVars

-----------------------------------------------------------------------------
(* Properties. *)

TypeOK ==
    /\ life \in [Matches -> {"new", "tracked", "deleted", "over"}]
    /\ activeCoinIDs \in [Contracts -> Matches \cup {NoMatch}]
    /\ matchCoinIDs \in [Matches -> SUBSET Contracts]
    /\ activeSecretHashes \in [Hashes -> Matches \cup {NoMatch}]
    /\ matchSecretHashes \in [Matches -> SUBSET Hashes]
    /\ searching \subseteq Entries /\ registered \subseteq Entries
    /\ stored \subseteq Entries /\ swaps \subseteq Entries
    /\ crashes \in 0..MaxCrashes
    /\ revived \subseteq Matches

\* activeCoinIDs "prevents the same on-chain contract from being used in
\* multiple matches simultaneously" (the Swapper's field comment).
OneMatchPerContract ==
    \A x, y \in swaps : x.contract = y.contract => x.match = y.match

\* activeSecretHashes "prevents a maker from reusing the same secret hash
\* across multiple matches" (the Swapper's field comment).
OneMatchPerSecret ==
    \A x, y \in swaps :
        /\ x.side = "maker" /\ y.side = "maker"
        /\ HashOf[x.contract] = HashOf[y.contract]
        => x.match = y.match

\* As long as no restart has loaded a match that checkInaction had deleted,
\* no two tracked matches have the same contract, and no two makers' contracts
\* the same secret hash (processInit, deleteMatch and restoreActiveSwaps
\* together).
NothingServesTwo == revived = {} => OneMatchPerContract /\ OneMatchPerSecret

-----------------------------------------------------------------------------
(* The inductive invariant behind NothingServesTwo.                        *)

\* The reverse lists name entries the match owns, so that deleteMatch
\* removes no other match's entry.
ListsNameOwned ==
    /\ \A m \in Matches : \A c \in matchCoinIDs[m] : activeCoinIDs[c] = m
    /\ \A m \in Matches : \A h \in matchSecretHashes[m] : activeSecretHashes[h] = m

Owns(e) ==
    /\ activeCoinIDs[e.contract] = e.match
    /\ e.side = "maker" => activeSecretHashes[HashOf[e.contract]] = e.match

\* What a tracked match has registered, stored or accepted it owns.
TrackedOwn ==
    \A e \in registered \cup stored \cup swaps : Live(e.match) => Owns(e)

SwapsAreTracked == \A e \in swaps : Live(e.match)

NewHaveNoEntry ==
    \A e \in searching \cup registered \cup stored : life[e.match] # "new"

DedupInv ==
    /\ TypeOK
    /\ SwapsAreTracked
    /\ NewHaveNoEntry
    /\ revived = {} => ListsNameOwned /\ TrackedOwn

=============================================================================
