------------------------------ MODULE AuthFacts ------------------------------
(***************************************************************************)
(* What the proofs about the AuthManager rest on: the lists of outcomes    *)
(* and the table they are loaded from, the invariants, and what each       *)
(* operation makes of the cached lists and of the clientInfo.              *)
(*                                                                         *)
(* The lists: a list holds the outcomes of its class that have fewer than  *)
(* Limit newer ones.  Adding an outcome to such a list, and dropping its   *)
(* oldest when it is full, gives the list of the longer history            *)
(* (AddIsLatest); pruning the table of what was dropped changes no list    *)
(* (PruneKeepsLatest).                                                     *)
(***************************************************************************)
EXTENDS AuthManager, FiniteSetTheorems, TLAPS

Outcome == [id : Nat \ {0}, class : Classes, bad : BOOLEAN]
History == {s \in SUBSET Outcome : IsFiniteSet(s)}

-----------------------------------------------------------------------------
(* The outcome lists *)

\* A list that is not empty has an oldest entry.
LEMMA OldestExists ==
  ASSUME NEW s \in History, s # {}
  PROVE  oldest(s) \in s /\ \A p \in s : oldest(s).id <= p.id
<1> DEFINE older(o) == {p \in s : p.id < o.id}
           sets == {older(o) : o \in s}
<1>1. IsFiniteSet(s) /\ s \subseteq Outcome
  BY Zenon DEF History
<1>2. \A o \in s : o.id \in Nat
  BY Zenon, <1>1 DEF Outcome
<1>3. sets \subseteq FiniteSubsetsOf(s) /\ sets # {}
  <2>1. \A o \in s : older(o) \in SUBSET s
    BY Zenon
  <2>2. \A o \in s : older(o) \in FiniteSubsetsOf(s)
    BY <1>1, <2>1, FS_FiniteSubsetsOfFinite, Zenon
  <2> QED BY <2>2, Zenon
<1>4. PICK l \in sets : \A m \in sets : ~(<<m, l>> \in StrictSubsetOrdering(s))
  <2> HIDE DEF sets
  <2> QED BY <1>3, FS_StrictSubsetOrderingWellFounded, WFMin, Zenon
<1>5. PICK o \in s : l = older(o)
  BY Zenon, <1>4
<1>6. \A p \in s : o.id <= p.id
  <2> SUFFICES ASSUME NEW p \in s, ~(o.id <= p.id) PROVE FALSE
    BY Zenon
  <2>1. p \in older(o) /\ p \notin older(p)
    BY <1>2
  <2>2. older(p) \subseteq older(o)
    BY <1>2
  <2>3. <<older(p), older(o)>> \in StrictSubsetOrdering(s)
    <3>1. older(p) \in SUBSET s /\ older(o) \in SUBSET s
      BY Zenon
    <3> HIDE DEF older
    <3> QED BY Zenon, <2>1, <2>2, <3>1 DEF StrictSubsetOrdering
  <2>4. older(p) \in sets
    BY Zenon
  <2> QED BY Zenon, <1>4, <1>5, <2>3, <2>4
<1> QED BY <1>6, Zenon DEF oldest

latest(s, c) == loadUserOutcomes(s)[c]

\* The list of a class that loadUserOutcomes returns.
LEMMA LatestDef ==
  ASSUME NEW s, NEW c \in Classes
  PROVE  latest(s, c) = {o \in s : o.class = c /\ Cardinality(newer(s, o)) < Limit[c]}
BY Zenon DEF latest, loadUserOutcomes

\* What is newer than an outcome is finite, and less for a newer outcome.
LEMMA NewerShrinks ==
  ASSUME NEW s \in History, NEW p \in s
  PROVE  /\ newer(s, p) \in History
         /\ Cardinality(newer(s, p)) \in Nat
         /\ \A q \in newer(s, p) : /\ newer(s, q) \subseteq newer(s, p)
                                   /\ Cardinality(newer(s, q)) \in Nat
                                   /\ Cardinality(newer(s, q)) <= Cardinality(newer(s, p))
<1>1. IsFiniteSet(s) /\ s \subseteq Outcome
  BY Zenon DEF History
<1>2. \A o \in s : o.id \in Nat
  BY Zenon, <1>1 DEF Outcome
<1>3. \A o \in s : newer(s, o) \in SUBSET s
  BY Zenon DEF newer
<1>4. \A o \in s : IsFiniteSet(newer(s, o)) /\ Cardinality(newer(s, o)) \in Nat
  BY <1>1, <1>3, FS_Subset, FS_CardinalityType, Zenon
<1>5. \A q \in newer(s, p) : newer(s, q) \subseteq newer(s, p)
  BY <1>2 DEF newer
<1>6. \A q \in newer(s, p) : Cardinality(newer(s, q)) <= Cardinality(newer(s, p))
  BY <1>3, <1>4, <1>5, FS_Subset, Zenon
<1> QED BY <1>1, <1>3, <1>4, <1>5, <1>6, Zenon DEF History

\* Everything newer than one of the latest outcomes is one of them, and there
\* are at most as many as the limit.
LEMMA LatestIsClosed ==
  ASSUME NEW s \in History, NEW c \in Classes,
         \A p, q \in s : p.id = q.id => p = q
  PROVE  /\ latest(s, c) \in History
         /\ latest(s, c) \subseteq s
         /\ \A p \in latest(s, c) : newer(s, p) \subseteq latest(s, c)
         /\ Cardinality(latest(s, c)) \in Nat
         /\ Cardinality(latest(s, c)) <= Limit[c]
<1> DEFINE T == latest(s, c)
<1>1. IsFiniteSet(s) /\ s \subseteq Outcome
  BY Zenon DEF History
<1>2. \A o \in s : o.id \in Nat
  BY Zenon, <1>1 DEF Outcome
<1>3. Limit[c] \in Nat \ {0}
  BY Zenon, AuthAssumption
<1>4. T \in SUBSET s
  BY LatestDef
<1>5. IsFiniteSet(T) /\ Cardinality(T) \in Nat /\ T \in History
  BY Zenon, <1>1, <1>4, FS_Subset, FS_CardinalityType DEF History
<1>6. \A p \in T : newer(s, p) \subseteq T
  <2> SUFFICES ASSUME NEW p \in T, NEW q \in newer(s, p) PROVE q \in T
    BY Zenon
  <2>1. p \in s /\ p.class = c /\ Cardinality(newer(s, p)) < Limit[c]
    BY LatestDef
  <2>2. q \in s /\ q.class = c
    BY Zenon, <2>1 DEF newer
  <2>3. Cardinality(newer(s, q)) <= Cardinality(newer(s, p)) /\ Cardinality(newer(s, q)) \in Nat
        /\ Cardinality(newer(s, p)) \in Nat
    BY Zenon, <2>1, NewerShrinks
  <2>4. Cardinality(newer(s, q)) < Limit[c]
    BY <1>3, <2>1, <2>3
  <2> QED BY <2>2, <2>4, LatestDef
<1>7. Cardinality(T) <= Limit[c]
  <2>1. CASE T = {}
    BY <1>3, <2>1, FS_EmptySet
  <2>2. CASE T # {}
    <3> DEFINE m == oldest(T)
    <3>1. m \in T /\ \A p \in T : m.id <= p.id
      BY Zenon, <1>5, <2>2, OldestExists
    <3>2. m \in s /\ m.class = c /\ Cardinality(newer(s, m)) < Limit[c]
      BY <3>1, LatestDef
    <3>3. T \ {m} \subseteq newer(s, m)
      <4> SUFFICES ASSUME NEW p \in T, p # m PROVE p \in newer(s, m)
        BY Zenon
      <4>1. p \in s /\ p.class = c
        BY LatestDef
      <4>2. p.id # m.id /\ m.id <= p.id /\ p.id \in Nat /\ m.id \in Nat
        BY Zenon, <1>2, <3>1, <3>2, <4>1
      <4> HIDE DEF m, T
      <4> QED BY <3>2, <4>1, <4>2 DEF newer
    <3>4. IsFiniteSet(newer(s, m)) /\ Cardinality(newer(s, m)) \in Nat
      BY Zenon, <3>2, NewerShrinks DEF History
    <3>5. Cardinality(T \ {m}) <= Cardinality(newer(s, m))
      BY <3>3, <3>4, FS_Subset, Zenon
    <3>6. Cardinality(T \ {m}) = Cardinality(T) - 1
      BY <1>5, <3>1, FS_RemoveElement, Zenon
    <3> HIDE DEF m, T
    <3> QED BY <1>3, <1>5, <3>2, <3>4, <3>5, <3>6
  <2> QED BY Zenon, <2>1, <2>2
<1> QED BY Zenon, <1>4, <1>5, <1>6, <1>7

\* The outcome that is added is newer than all others of the table.
Appends(s, o) == /\ s \in History /\ o \in Outcome
                 /\ \A p, q \in s : p.id = q.id => p = q
                 /\ \A p \in s : p.id < o.id

\* An outcome is newer than all of its class, and makes the others older by one.
LEMMA AppendAges ==
  ASSUME NEW s, NEW o, Appends(s, o)
  PROVE  /\ o.class \in Classes /\ o \notin s
         /\ \A p \in s : p.class # o.class => newer(s \cup {o}, p) = newer(s, p)
         /\ \A p \in s : p.class = o.class =>
              Cardinality(newer(s \cup {o}, p)) = Cardinality(newer(s, p)) + 1
         /\ Cardinality(newer(s \cup {o}, o)) = 0
<1>1. \A p \in s : p.id \in Nat
  BY Zenon DEF Appends, History, Outcome
<1>2. o.id \in Nat /\ o.class \in Classes
  BY Zenon DEF Appends, Outcome
<1>3. \A p \in s : p.id < o.id
  BY Zenon DEF Appends
<1>4. o \notin s
  BY <1>1, <1>2, <1>3
<1>5. \A p \in s : p.class # o.class => newer(s \cup {o}, p) = newer(s, p)
  BY Zenon DEF newer
<1>6. \A p \in s : p.class = o.class => newer(s \cup {o}, p) = newer(s, p) \cup {o}
  BY Zenon, <1>1, <1>2, <1>3 DEF newer
<1>7. newer(s \cup {o}, o) = {}
  BY <1>1, <1>2, <1>3 DEF newer
<1>8. ASSUME NEW p \in s, p.class = o.class
      PROVE  Cardinality(newer(s \cup {o}, p)) = Cardinality(newer(s, p)) + 1
  <2>1. IsFiniteSet(newer(s, p))
    BY Zenon, NewerShrinks DEF Appends, History
  <2>2. o \notin newer(s, p)
    BY Zenon, <1>4 DEF newer
  <2> QED BY <1>6, <1>8, <2>1, <2>2, FS_AddElement, Zenon
<1> QED BY <1>2, <1>4, <1>5, <1>7, <1>8, FS_EmptySet, Zenon

\* latest.add: the list of the latest outcomes with an outcome added is the
\* list of the latest outcomes of the table with the outcome stored.
LEMMA AddIsLatest ==
  ASSUME NEW s, NEW o, Appends(s, o)
  PROVE  latest(s \cup {o}, o.class) = add(latest(s, o.class), o)
<1> DEFINE c == o.class
           T == latest(s, c)
           S == s \cup {o}
<1>1. c \in Classes /\ o \notin s /\ Cardinality(newer(S, o)) = 0
      /\ \A p \in s : p.class = c => Cardinality(newer(S, p)) = Cardinality(newer(s, p)) + 1
  BY Zenon, AppendAges
<1>2. Limit[c] \in Nat \ {0}
  BY Zenon, <1>1, AuthAssumption
<1>3. s \in History /\ o.id \in Nat /\ (\A p, q \in s : p.id = q.id => p = q)
      /\ \A p \in s : p.id < o.id /\ p.id \in Nat /\ Cardinality(newer(s, p)) \in Nat
  <2>1. s \in History /\ o.id \in Nat /\ (\A p, q \in s : p.id = q.id => p = q)
        /\ \A p \in s : p.id < o.id /\ p.id \in Nat
    BY Zenon DEF Appends, History, Outcome
  <2> QED BY Zenon, <2>1, NewerShrinks
<1>4. /\ T \in History /\ T \subseteq s /\ Cardinality(T) \in Nat /\ Cardinality(T) <= Limit[c]
      /\ \A p \in T : newer(s, p) \subseteq T
  BY Zenon, <1>1, <1>3, LatestIsClosed
<1>5. IsFiniteSet(T)
  BY Zenon, <1>4 DEF History
<1>6. latest(S, c) = {o} \cup {p \in s : p.class = c /\ Cardinality(newer(s, p)) + 1 < Limit[c]}
  <2>1. latest(S, c) = {p \in S : p.class = c /\ Cardinality(newer(S, p)) < Limit[c]}
    BY <1>1, LatestDef
  <2>2. o \in S /\ o.class = c /\ Cardinality(newer(S, o)) < Limit[c]
    BY <1>1, <1>2
  <2>3. \A p \in s : p.class = c =>
          (Cardinality(newer(S, p)) < Limit[c] <=> Cardinality(newer(s, p)) + 1 < Limit[c])
    BY Zenon, <1>1
  <2> HIDE DEF T, c
  <2> QED BY <2>1, <2>2, <2>3, ZenonT(30)
<1>7. T = {p \in s : p.class = c /\ Cardinality(newer(s, p)) < Limit[c]}
  BY Zenon, <1>1, LatestDef
<1>8. adds(T, o)
  BY <1>3, <1>4 DEF adds
<1> HIDE DEF T, S, c
<1>ids. \A p \in T : p.id \in Nat
  BY <1>3, <1>4, Zenon
<1>9. ASSUME NEW p \in T PROVE p \notin newer(s, p)
  BY <1>ids DEF newer
<1>10. CASE ~full(T, o)
  <2>1. Cardinality(T) < Limit[c]
    BY <1>2, <1>4, <1>10 DEF full, c
  <2>2. ASSUME NEW p \in T PROVE Cardinality(newer(s, p)) + 1 < Limit[c]
    <3>1. newer(s, p) \in SUBSET (T \ {p})
      BY Zenon, <1>4, <1>9
    <3>2. IsFiniteSet(T \ {p}) /\ Cardinality(T \ {p}) = Cardinality(T) - 1
      BY Zenon, <1>5, FS_RemoveElement
    <3>3. Cardinality(newer(s, p)) <= Cardinality(T \ {p})
      BY <3>1, <3>2, FS_Subset, Zenon
    <3>4. Cardinality(newer(s, p)) \in Nat
      BY Zenon, <1>3, <1>4
    <3> QED BY <1>2, <1>4, <2>1, <3>2, <3>3, <3>4
  <2>3. latest(S, c) = T \cup {o}
    BY <1>2, <1>3, <1>6, <1>7, <2>2
  <2> QED BY <1>8, <1>10, <2>3 DEF add, c, T, S
<1>11. CASE full(T, o)
  <2> DEFINE m == oldest(T)
  <2>1. Cardinality(T) = Limit[c]
    BY Zenon, <1>11 DEF full, c
  <2>2. T # {}
    BY <1>2, <2>1, FS_EmptySet
  <2>3. m \in T /\ \A p \in T : m.id <= p.id
    BY <1>4, <2>2, OldestExists
  <2> HIDE DEF m
  <2>4. IsFiniteSet(T \ {m}) /\ Cardinality(T \ {m}) = Limit[c] - 1
    BY <1>5, <2>1, <2>3, FS_RemoveElement, Zenon
  <2>5. Cardinality(newer(s, m)) >= Limit[c] - 1
    <3>1. T \ {m} \in SUBSET newer(s, m)
      <4> SUFFICES ASSUME NEW p \in T, p # m PROVE p \in newer(s, m)
        BY Zenon
      <4>1. p \in s /\ m \in s /\ p.class = m.class
        BY <1>7, <2>3
      <4>2. p.id # m.id
        BY Zenon, <1>3, <4>1
      <4>3. p.id > m.id
        BY <1>ids, <2>3, <4>2
      <4> QED BY Zenon, <4>1, <4>3 DEF newer
    <3>2. IsFiniteSet(newer(s, m)) /\ Cardinality(newer(s, m)) \in Nat
      BY <1>3, <1>4, <2>3, NewerShrinks DEF History
    <3>3. Cardinality(T \ {m}) <= Cardinality(newer(s, m))
      BY <3>1, <3>2, FS_Subset, Zenon
    <3> QED BY <1>2, <2>4, <3>2, <3>3
  <2>6. ASSUME NEW p \in T, p # m PROVE Cardinality(newer(s, p)) + 1 < Limit[c]
    <3>1. m \notin newer(s, p)
      BY <1>ids, <2>3 DEF newer
    <3>2. newer(s, p) \in SUBSET ((T \ {m}) \ {p})
      BY <1>4, <1>9, <3>1
    <3>3. IsFiniteSet((T \ {m}) \ {p}) /\ Cardinality((T \ {m}) \ {p}) = Limit[c] - 2
      BY <1>2, <2>4, <2>6, FS_RemoveElement
    <3>4. Cardinality(newer(s, p)) <= Cardinality((T \ {m}) \ {p})
      BY <3>2, <3>3, FS_Subset, Zenon
    <3>5. Cardinality(newer(s, p)) \in Nat
      BY Zenon, <1>3, <1>4
    <3> QED BY <1>2, <3>3, <3>4, <3>5
  <2>7. latest(S, c) = (T \ {m}) \cup {o}
    <3>1. \A p \in s : p.class = c /\ Cardinality(newer(s, p)) + 1 < Limit[c] => p \in T /\ p # m
      BY <1>2, <1>3, <1>7, <2>5
    <3>2. \A p \in T : p \in s /\ p.class = c
      BY Zenon, <1>7
    <3> QED BY <1>6, <2>6, <3>1, <3>2
  <2> QED BY Zenon, <1>8, <1>11, <2>7 DEF add, c, T, S, m
<1> QED BY Zenon, <1>10, <1>11

\* What a full list pops is older than all the latest outcomes.
LEMMA PoppedIsOlder ==
  ASSUME NEW s, NEW o, Appends(s, o)
  PROVE  \A p \in latest(s \cup {o}, o.class) : p.id > popped(latest(s, o.class), o)
<1> DEFINE T == latest(s, o.class)
<1>1. s \in History /\ o \in Outcome /\ (\A p, q \in s : p.id = q.id => p = q)
      /\ \A p \in s : p.id < o.id
  BY Zenon DEF Appends
<1>2. o.class \in Classes /\ o.id \in Nat \ {0}
  BY Zenon, <1>1 DEF Outcome
<1>3. T \in History /\ T \subseteq s
  BY <1>1, <1>2, LatestIsClosed
<1>4. \A p \in T : p.id \in Nat \ {0} /\ p.id < o.id
  BY Zenon, <1>1, <1>3 DEF History, Outcome
<1>5. latest(s \cup {o}, o.class) = add(T, o)
  BY Zenon, AddIsLatest
<1>6. adds(T, o)
  BY <1>2, <1>4 DEF adds
<1>7. \A p, q \in T : p.id = q.id => p = q
  BY Zenon, <1>1, <1>3
<1> HIDE DEF T
<1>8. CASE ~full(T, o)
  <2>1. popped(T, o) = 0 /\ add(T, o) = T \cup {o}
    BY Zenon, <1>6, <1>8 DEF popped, add
  <2>2. \A p \in T \cup {o} : p.id > 0
    BY <1>2, <1>4
  <2> QED BY <1>5, <2>1, <2>2 DEF T
<1>9. CASE full(T, o)
  <2> DEFINE m == oldest(T)
  <2>1. T # {}
    <3>1. Cardinality(T) = Limit[o.class] /\ Limit[o.class] # 0
      BY <1>2, <1>9, AuthAssumption DEF full
    <3> QED BY Zenon, <3>1, FS_EmptySet
  <2>2. m \in T /\ \A p \in T : m.id <= p.id
    BY Zenon, <1>3, <2>1, OldestExists
  <2>3. popped(T, o) = m.id /\ add(T, o) = (T \ {m}) \cup {o}
    BY Zenon, <1>6, <1>9 DEF popped, add
  <2> HIDE DEF m
  <2>4. \A p \in T \ {m} : p.id > m.id
    BY <1>4, <1>7, <2>2
  <2>5. o.id > m.id
    BY Zenon, <1>2, <1>4, <2>2
  <2> QED BY <1>5, <2>3, <2>4, <2>5 DEF T
<1> QED BY <1>8, <1>9

\* PruneOutcomes: the latest outcomes stay the same when those of a class up
\* to an ID below theirs are deleted.
LEMMA PruneKeepsLatest ==
  ASSUME NEW s \in History, NEW c \in Classes, NEW k \in Nat,
         \A p \in latest(s, c) : p.id > k
  PROVE  loadUserOutcomes({p \in s : p.class = c => p.id > k}) = loadUserOutcomes(s)
<1> DEFINE S == {p \in s : p.class = c => p.id > k}
<1>1. \A p \in s : p.id \in Nat
  BY Zenon DEF History, Outcome
<1>2. \A p \in S : newer(S, p) = newer(s, p)
  <2> SUFFICES ASSUME NEW p \in S, NEW q \in s, q.class = p.class, q.id > p.id
               PROVE  q.class = c => q.id > k
    BY Zenon DEF newer
  <2>1. p.id \in Nat /\ q.id \in Nat /\ (p.class = c => p.id > k)
    BY Zenon, <1>1
  <2> QED BY <2>1
<1>3. ASSUME NEW d \in Classes PROVE latest(S, d) = latest(s, d)
  <2>1. latest(S, d) = {p \in S : p.class = d /\ Cardinality(newer(S, p)) < Limit[d]}
    BY LatestDef
  <2>2. latest(s, d) = {p \in s : p.class = d /\ Cardinality(newer(s, p)) < Limit[d]}
    BY LatestDef
  <2>3. latest(s, d) \subseteq S
    <3> SUFFICES ASSUME NEW p \in latest(s, d), p.class = c PROVE p.id > k
      BY Zenon, <2>2
    <3>1. d = c
      BY Zenon, <2>2
    <3> QED BY Zenon, <3>1
  <2> HIDE DEF S
  <2>4. S \subseteq s
    BY Zenon DEF S
  <2>5. \A p : p \in latest(S, d) <=> p \in latest(s, d)
    BY <1>2, <2>1, <2>2, <2>3, <2>4, ZenonT(30)
  <2> QED BY <2>5, Zenon
<1> QED BY Zenon, <1>3 DEF latest, loadUserOutcomes

\* The cache that took an outcome is the history that has it stored, pruned or
\* not.
LEMMA CacheTakes ==
  ASSUME NEW s, NEW o, Appends(s, o)
  PROVE  LET old == loadUserOutcomes(s)[o.class]
             all == s \cup {o}
             new == [loadUserOutcomes(s) EXCEPT ![o.class] = add(old, o)]
         IN /\ new = loadUserOutcomes(all)
            /\ new = loadUserOutcomes({p \in all : p.class = o.class => p.id > popped(old, o)})
<1> DEFINE c == o.class
           all == s \cup {o}
           new == [loadUserOutcomes(s) EXCEPT ![c] = add(latest(s, c), o)]
<1>1. c \in Classes /\ (\A p \in s : p.class # c => newer(all, p) = newer(s, p))
  BY AppendAges, Zenon
<1>2. latest(all, c) = add(latest(s, c), o)
  BY Zenon, AddIsLatest
<1>3. ASSUME NEW d \in Classes, d # c PROVE latest(all, d) = latest(s, d)
  <2>1. latest(all, d) = {p \in all : p.class = d /\ Cardinality(newer(all, p)) < Limit[d]}
    BY LatestDef
  <2>2. latest(s, d) = {p \in s : p.class = d /\ Cardinality(newer(s, p)) < Limit[d]}
    BY LatestDef
  <2>3. {p \in all : p.class = d} = {p \in s : p.class = d}
    BY <1>3
  <2>4. \A p \in s : p.class = d => newer(all, p) = newer(s, p)
    BY <1>1, <1>3
  <2> HIDE DEF all, c
  <2>5. \A p : p \in latest(all, d) <=> p \in latest(s, d)
    BY <2>1, <2>2, <2>3, <2>4, ZenonT(30)
  <2> QED BY <2>5, Zenon
<1>4. new = loadUserOutcomes(all)
  <2>1. DOMAIN loadUserOutcomes(s) = Classes /\ DOMAIN loadUserOutcomes(all) = Classes
        /\ loadUserOutcomes(all) = [d \in Classes |-> latest(all, d)]
        /\ loadUserOutcomes(s) = [d \in Classes |-> latest(s, d)]
    BY Zenon DEF loadUserOutcomes, latest
  <2>2. new = [d \in Classes |-> IF d = c THEN add(latest(s, c), o) ELSE latest(s, d)]
    BY <2>1
  <2> QED BY <1>2, <1>3, <2>1, <2>2
<1>5. all \in History
  <2>1. s \in SUBSET Outcome /\ o \in Outcome /\ IsFiniteSet(s)
    BY Zenon DEF Appends, History
  <2> QED BY <2>1, FS_AddElement DEF History
<1>6. popped(latest(s, c), o) \in Nat
  <2>1. s \in History /\ \A p, q \in s : p.id = q.id => p = q
    BY Zenon DEF Appends
  <2>2. latest(s, c) \in History /\ Limit[c] # 0
    BY <1>1, <2>1, LatestIsClosed, AuthAssumption
  <2>3. CASE latest(s, c) = {}
    <3>1. Cardinality(latest(s, c)) # Limit[c]
      BY <2>2, <2>3, FS_EmptySet
    <3> QED BY <3>1 DEF popped, full
  <2>4. CASE latest(s, c) # {}
    <3>1. oldest(latest(s, c)) \in latest(s, c)
      BY <2>2, <2>4, OldestExists
    <3>2. oldest(latest(s, c)).id \in Nat
      BY <2>2, <3>1 DEF History, Outcome
    <3> QED BY <3>2 DEF popped
  <2> QED BY <2>3, <2>4
<1>7. \A p \in latest(all, c) : p.id > popped(latest(s, c), o)
  BY PoppedIsOlder, Zenon
<1>8. loadUserOutcomes({p \in all : p.class = c => p.id > popped(latest(s, c), o)}) = loadUserOutcomes(all)
  BY <1>1, <1>5, <1>6, <1>7, PruneKeepsLatest, Zenon
<1> QED BY Zenon, <1>4, <1>8 DEF latest

-----------------------------------------------------------------------------
(* Types *)

Lists == [Classes -> History]

Client == [link : Nat \ {0}, map : Nat, bonds : SUBSET Bonds, score : Int, tier : Int]
Request == [stage : {"sent", "unheard"}, link : Nat, map : Nat]

Stored == [op : {"outcome"}, stage : {"stored"}, of : Outcome]
Rated == [op : {"outcome"}, stage : {"scored"}, of : Outcome, score : Int, failed : BOOLEAN]
Connecting == [op : {"connect"}, stage : {"read", "loaded", "cached"}, same : BOOLEAN,
               bonds : SUBSET Bonds, hist : Lists \cup {NoCache}, link : Nat \ {0}, map : Nat]
Bonding == [op : {"bond"}, bond : Bonds]
Penalty == [op |-> "penalize"]

TypeOK ==
  /\ points \in History /\ nextID \in Nat \ {0}
  /\ bonds \subseteq Bonds /\ doomed \subseteq Bonds
  /\ cache \in Lists \cup {NoCache}
  /\ client \in Client \cup {Nobody}
  /\ up \in BOOLEAN
  /\ task \in {Idle, Penalty} \cup Stored \cup Rated \cup Connecting \cup Bonding
  /\ req \in Request \cup {NoRequest}
  /\ count \in [connect : Nat, request : Nat, crash : Nat]
  /\ now \in Nat

\* The serial IDs; the outcome a handler has stored is the last one.
TableInv ==
  /\ \A p, q \in points : p.id = q.id => p = q
  /\ \A p \in points : p.id < nextID
  /\ task \in Stored => task.of \in points /\ \A p \in points : p # task.of => p.id < task.of.id

\* The table as the cache knows it.
known == IF task \in Stored THEN points \ {task.of} ELSE points

\* The cache through the steps of a connection.
CacheInv ==
  /\ cache # NoCache => cache = loadUserOutcomes(known)
  /\ client # Nobody => cache # NoCache
  /\ task \in Connecting /\ ~task.same => client = Nobody
  /\ task \in Connecting /\ task.stage # "read" => task.hist = loadUserOutcomes(points)
  /\ task \in Connecting /\ task.stage = "cached" => cache # NoCache \/ (task.same /\ ~up)
  /\ task \in Connecting /\ task.same => client # Nobody \/ ~up

storedScore == integrateOutcomes(loadUserOutcomes(points))

\* The bond that is stored and not yet in the clientInfo.
pending == IF task \in Bonding THEN {task.bond} ELSE {}

\* The score and the bonds through the steps of a handler.
ReputationInv ==
  /\ \A b \in doomed : Expires[b] < now
  /\ task \in Connecting => active(task.bonds) = active(bonds)
  /\ task \in Rated /\ ~task.failed => task.score = storedScore
  /\ client # Nobody =>
       /\ client.tier = tier(client.bonds, client.score)
       /\ task \notin Stored \cup Rated /\ ~excused => client.score = storedScore
       /\ active(client.bonds \cup pending) = active(bonds)

\* Links and the maps of response handlers.
MapInv ==
  /\ req # NoRequest => req.stage = "sent" /\ req.link <= count.connect
  /\ client # Nobody => client.link <= count.connect
  /\ task \in Connecting => task.link <= count.connect
  /\ client # Nobody /\ req # NoRequest /\ client.link = req.link => client.map = req.map
  /\ task \in Connecting /\ req # NoRequest /\ task.link = req.link => task.map = req.map
  /\ task \in Connecting /\ client # Nobody /\ task.link = client.link => task.map = client.map

TimerInv == client # Nobody => timer # "running"

-----------------------------------------------------------------------------
(* What the types tell apart *)

\* The values that stand for nothing are not of the types they stand in for.
LEMMA Differ ==
  /\ NoCache \notin Lists /\ Nobody \notin Client /\ NoRequest \notin Request
  /\ Idle \notin Stored \cup Rated \cup Connecting \cup Bonding
  /\ Penalty \notin Stored \cup Rated \cup Connecting \cup Bonding
<1>1. NoCache \notin Lists
  <2> SUFFICES ASSUME NoCache \in Lists PROVE FALSE
    BY Zenon
  <2>1. "match" \in DOMAIN NoCache
    BY Zenon DEF Lists, Classes
  <2> QED BY Zenon, <2>1 DEF NoCache
<1>2. Nobody.link = 0 /\ NoRequest.stage = "none" /\ Idle.op = "idle" /\ Penalty.op = "penalize"
  BY Zenon DEF Nobody, NoRequest, Idle, Penalty
<1>3. Nobody \notin Client /\ NoRequest \notin Request
  BY Zenon, <1>2 DEF Client, Request
<1>4. \A t \in Stored \cup Rated \cup Connecting \cup Bonding : t.op \notin {"idle", "penalize"}
  BY Zenon DEF Stored, Rated, Connecting, Bonding
<1> QED BY Zenon, <1>1, <1>2, <1>3, <1>4

\* A task's op and stage tell its type.
LEMMA TaskKinds ==
  ASSUME TypeOK
  PROVE  /\ task.op = "outcome" /\ task.stage = "stored" => task \in Stored
         /\ task.op = "outcome" /\ task.stage = "scored" => task \in Rated
         /\ task.op = "connect" => task \in Connecting
         /\ task.op = "bond" => task \in Bonding
         /\ task.op = "penalize" => task = Penalty
         /\ task \in Stored => task \notin Rated \cup Connecting \cup Bonding
         /\ task \in Rated => task \notin Connecting \cup Bonding
         /\ task \in Connecting => task \notin Bonding
<1>1. task \in {Idle, Penalty} \cup Stored \cup Rated \cup Connecting \cup Bonding
  BY Zenon DEF TypeOK
<1>2. Idle.op = "idle" /\ Penalty.op = "penalize"
  BY Zenon DEF Idle, Penalty
<1>3. \A t \in Stored : t.op = "outcome" /\ t.stage = "stored"
  BY Zenon DEF Stored
<1>4. \A t \in Rated : t.op = "outcome" /\ t.stage = "scored"
  BY Zenon DEF Rated
<1>5. \A t \in Connecting : t.op = "connect"
  BY Zenon DEF Connecting
<1>6. \A t \in Bonding : t.op = "bond"
  BY Zenon DEF Bonding
<1> QED BY <1>1, <1>2, <1>3, <1>4, <1>5, <1>6

\* loadUserOutcomes returns a list for each class.
LEMMA LoadType ==
  ASSUME NEW s \in History
  PROVE  loadUserOutcomes(s) \in Lists /\ loadUserOutcomes(s) # NoCache
<1>1. IsFiniteSet(s) /\ s \subseteq Outcome
  BY Zenon DEF History
<1>2. ASSUME NEW c \in Classes PROVE latest(s, c) \in History
  <2>1. latest(s, c) \in SUBSET s
    BY LatestDef
  <2>2. IsFiniteSet(latest(s, c))
    BY <1>1, <2>1, FS_Subset, Zenon
  <2> QED BY <1>1, <2>1, <2>2 DEF History
<1>3. loadUserOutcomes(s) \in Lists
  <2>1. loadUserOutcomes(s) = [c \in Classes |-> latest(s, c)]
    BY Zenon DEF loadUserOutcomes, latest
  <2> QED BY <1>2, <2>1 DEF Lists
<1> QED BY <1>3, Differ

\* Counting the outcomes of a list gives a number.
LEMMA CountType ==
  ASSUME NEW s \in History, NEW bad \in BOOLEAN
  PROVE  Cardinality(s) \in Nat /\ howMany(s, bad) \in Nat
<1>1. IsFiniteSet(s) /\ {o \in s : o.bad = bad} \in SUBSET s
  BY Zenon DEF History
<1>2. IsFiniteSet({o \in s : o.bad = bad})
  BY <1>1, FS_Subset, Zenon
<1> QED BY <1>1, <1>2, FS_CardinalityType DEF howMany

\* The score terms are numbers.
LEMMA Products ==
  ASSUME NEW i \in Nat, NEW j \in Nat
  PROVE  i * j \in Nat
OBVIOUS

\* Credits less penalties are an integer.
LEMMA Balance ==
  ASSUME NEW i \in Nat, NEW j \in Nat, NEW k \in Nat, NEW l \in Nat
  PROVE  i - j - k - l \in Int
OBVIOUS

\* integrateOutcomes returns an integer for lists that are there.
LEMMA ScoreType ==
  ASSUME NEW os \in Lists
  PROVE  integrateOutcomes(os) \in Int
<1>1. os["match"] \in History /\ os["preimage"] \in History /\ os["order"] \in History
  BY Zenon DEF Lists, Classes
<1>2. /\ howMany(os["match"], FALSE) \in Nat /\ howMany(os["match"], TRUE) \in Nat
      /\ howMany(os["preimage"], TRUE) \in Nat
  BY <1>1, CountType, Zenon
<1>3. CancelPenalty(os["order"]) \in Nat
  BY AuthAssumption, Zenon DEF CancelPenalty
<1>4. FailScore * howMany(os["match"], TRUE) \in Nat /\ MissScore * howMany(os["preimage"], TRUE) \in Nat
  BY <1>2, Products, AuthAssumption, Zenon
<1> QED BY <1>2, <1>3, <1>4, Balance, Zenon DEF integrateOutcomes

\* The tier of a set of bonds and a score is an integer.
LEMMA TierType ==
  ASSUME NEW bs \in SUBSET Bonds, NEW score \in Int
  PROVE  tier(bs, score) \in Int
<1>1. Cardinality(bs) \in Nat
  BY AuthAssumption, FS_Subset, FS_CardinalityType, Zenon
<1>2. PenaltyThreshold \in Nat \ {0}
  BY AuthAssumption
<1>3. (-score) \div PenaltyThreshold \in Int
  BY <1>2
<1> QED BY <1>1, <1>3 DEF tier

-----------------------------------------------------------------------------
(* The steps *)

\* The table and an outcome that is stored next.
LEMMA StoredAppends ==
  ASSUME TypeOK, TableInv, task \in Stored
  PROVE  /\ Appends(known, task.of) /\ points = known \cup {task.of}
         /\ known \in History /\ task.of.class \in Classes
<1>1. task.of \in Outcome
  BY Zenon DEF Stored
<1>2. points \in SUBSET Outcome /\ IsFiniteSet(points)
  BY Zenon DEF TypeOK, History
<1>3. known = points \ {task.of} /\ task.of \in points
  BY Zenon DEF known, TableInv
<1>4. known \in History
  BY <1>2, <1>3, FS_RemoveElement DEF History
<1>5. (\A p, q \in known : p.id = q.id => p = q) /\ \A p \in known : p.id < task.of.id
  BY <1>3 DEF TableInv
<1> QED BY <1>1, <1>3, <1>4, <1>5 DEF Appends, Outcome

\* The branch of ScoreOutcome that finds a cache.
LEMMA CacheScores ==
  ASSUME TypeOK, TableInv, CacheInv, ScoreOutcome, cache # NoCache
  PROVE  /\ points' \in History /\ points' \subseteq points /\ task \in Stored /\ task' \in Rated
         /\ cache' = loadUserOutcomes(points') /\ task'.score = storedScore' /\ ~task'.failed
         /\ UNCHANGED <<nextID, bonds, client, up, timers, booked, doomed, req, count, now, excused>>
<1> DEFINE o == task.of
           old == cache[o.class]
           cut == {p \in points : p.class = o.class => p.id > popped(old, o)}
<1>1. task \in Stored
  BY TaskKinds DEF ScoreOutcome
<1>2. /\ cache' = [cache EXCEPT ![o.class] = add(old, o)]
      /\ points' = cut \/ points' = points
      /\ Scored(integrateOutcomes(cache'))
      /\ UNCHANGED <<nextID, bonds, client, up, timers, booked, doomed, req, count, now, excused>>
  BY ZenonT(30) DEF ScoreOutcome
<1>3. /\ Appends(known, o) /\ points = known \cup {o}
      /\ known \in History /\ o.class \in Classes
  BY <1>1, StoredAppends, Zenon
<1>4. cache = loadUserOutcomes(known)
  BY Zenon DEF CacheInv
<1>5. cache' = loadUserOutcomes(points) /\ cache' = loadUserOutcomes(cut)
  <2> DEFINE was == loadUserOutcomes(known)[o.class]
             new == [loadUserOutcomes(known) EXCEPT ![o.class] = add(was, o)]
  <2>1. /\ new = loadUserOutcomes(known \cup {o})
        /\ new = loadUserOutcomes({p \in known \cup {o} : p.class = o.class => p.id > popped(was, o)})
    BY <1>3, CacheTakes, Zenon
  <2>2. cache' = new /\ old = was
    BY Zenon, <1>2, <1>4
  <2>3. cut = {p \in known \cup {o} : p.class = o.class => p.id > popped(was, o)}
    BY Zenon, <1>3, <2>2
  <2> QED BY <1>3, <2>1, <2>2, <2>3, Zenon
<1>6. cache' = loadUserOutcomes(points')
  BY <1>2, <1>5, Zenon
<1>7. points' \in SUBSET points
  BY <1>2
<1>8. points' \in History
  <2>1. points \in SUBSET Outcome /\ IsFiniteSet(points)
    BY Zenon DEF TypeOK, History
  <2>2. IsFiniteSet(points')
    BY <1>7, <2>1, FS_Subset, Zenon
  <2> QED BY <1>7, <2>1, <2>2 DEF History
<1>9. integrateOutcomes(cache') \in Int /\ integrateOutcomes(cache') = storedScore'
  <2>1. loadUserOutcomes(points') \in Lists
    BY <1>8, LoadType
  <2> QED BY <1>6, <2>1, ScoreType DEF storedScore
<1>10. o \in Outcome
  BY <1>1 DEF Stored
<1>11. task' \in Rated /\ task'.score = integrateOutcomes(cache') /\ ~task'.failed
  <2> HIDE DEF o
  <2>1. task' = [op |-> "outcome", stage |-> "scored", of |-> o, score |-> integrateOutcomes(cache'), failed |-> FALSE]
    BY <1>2 DEF Scored, o
  <2> QED BY <1>9, <1>10, <2>1 DEF Rated
<1> QED BY <1>1, <1>2, <1>6, <1>7, <1>8, <1>9, <1>11, Zenon

\* The branch of ScoreOutcome that loads the history.
LEMMA LoadScores ==
  ASSUME TypeOK, ScoreOutcome, cache = NoCache
  PROVE  /\ points' = points /\ cache' = cache /\ task \in Stored /\ task' \in Rated
         /\ task'.score = storedScore /\ ~task'.failed
         /\ UNCHANGED <<nextID, bonds, client, up, timers, booked, doomed, req, count, now, excused>>
<1>1. task \in Stored
  BY TaskKinds DEF ScoreOutcome
<1>2. /\ points' = points /\ cache' = cache
      /\ Scored(integrateOutcomes(loadUserOutcomes(points)))
      /\ UNCHANGED <<nextID, bonds, client, up, timers, booked, doomed, req, count, now, excused>>
  BY ZenonT(30) DEF ScoreOutcome
<1>3. storedScore \in Int
  BY LoadType, ScoreType DEF TypeOK, storedScore
<1>4. task.of \in Outcome
  BY <1>1 DEF Stored
<1>5. task' = [op |-> "outcome", stage |-> "scored", of |-> task.of, score |-> storedScore, failed |-> FALSE]
  BY <1>2 DEF Scored, storedScore
<1>6. task' \in Rated /\ task'.score = storedScore /\ ~task'.failed
  BY <1>3, <1>4, <1>5 DEF Rated
<1> QED BY <1>1, <1>2, <1>6, Zenon

\* A clientInfo with a new score, and one with new bonds and a new score.
rescored(c, score, t) == [c EXCEPT !.score = score, !.tier = t]
rebonded(c, bs, score, t) == [c EXCEPT !.bonds = bs, !.score = score, !.tier = t]

\* The fields of a clientInfo with a new score and tier.
LEMMA Rescored ==
  ASSUME NEW c \in Client, NEW score \in Int, NEW t \in Int
  PROVE  /\ rescored(c, score, t) \in Client
         /\ rescored(c, score, t).link = c.link /\ rescored(c, score, t).map = c.map
         /\ rescored(c, score, t).bonds = c.bonds
         /\ rescored(c, score, t).score = score /\ rescored(c, score, t).tier = t
BY ZenonT(30) DEF Client, rescored

\* The fields of a clientInfo with new bonds, score and tier.
LEMMA Rebonded ==
  ASSUME NEW c \in Client, NEW bs \in SUBSET Bonds, NEW score \in Int, NEW t \in Int
  PROVE  /\ rebonded(c, bs, score, t) \in Client
         /\ rebonded(c, bs, score, t).link = c.link /\ rebonded(c, bs, score, t).map = c.map
         /\ rebonded(c, bs, score, t).bonds = bs
         /\ rebonded(c, bs, score, t).score = score /\ rebonded(c, bs, score, t).tier = t
BY ZenonT(30) DEF Client, rebonded

\* What ApplyScore does to the clientInfo.
LEMMA ScoreApplied ==
  ASSUME TypeOK, ApplyScore
  PROVE  /\ task \in Rated /\ task' \in {Idle, Penalty}
         /\ \/ client' = client /\ excused' = TRUE
            \/ client = Nobody /\ client' = client
            \/ /\ client \in Client /\ client' \in Client /\ client'.link = client.link
               /\ client'.map = client.map /\ client'.bonds = client.bonds
               /\ client'.score = task.score /\ client'.tier = tier(client.bonds, task.score)
               /\ excused' = task.failed
         /\ booked' = booked \/ (booked' = FALSE /\ task' = Penalty) \/ ~booked
         /\ UNCHANGED <<points, nextID, bonds, cache, up, timers, doomed, req, count, now>>
<1>1. task \in Rated
  BY TaskKinds DEF ApplyScore
<1>2. UNCHANGED <<points, nextID, bonds, cache, up, timers, doomed, req, count, now>>
  BY Zenon DEF ApplyScore
<1>3. CASE client = Nobody /\ task' = Idle /\ UNCHANGED <<client, booked, excused>>
  BY <1>1, <1>2, <1>3, Zenon
<1>4. CASE task' = Idle /\ excused' = TRUE /\ UNCHANGED <<client, booked>>
  BY <1>1, <1>2, <1>4, Zenon
<1>5. ASSUME client # Nobody, excused' = task.failed,
             client' = [client EXCEPT !.score = task.score, !.tier = tier(client.bonds, task.score)],
             NEW sunk, booked' = (booked /\ ~sunk), task' = IF sunk THEN Penalty ELSE Idle
      PROVE  /\ task' \in {Idle, Penalty}
             /\ client \in Client /\ client' \in Client /\ client'.link = client.link
             /\ client'.map = client.map /\ client'.bonds = client.bonds
             /\ client'.score = task.score /\ client'.tier = tier(client.bonds, task.score)
             /\ booked' = booked \/ (booked' = FALSE /\ task' = Penalty) \/ ~booked
  <2>1. client \in Client
    BY <1>5 DEF TypeOK
  <2>2. task.score \in Int /\ client.bonds \in SUBSET Bonds
    BY <1>1, <2>1 DEF Rated, Client
  <2>3. tier(client.bonds, task.score) \in Int
    BY <2>2, TierType
  <2>4. /\ client' \in Client /\ client'.link = client.link /\ client'.map = client.map
        /\ client'.bonds = client.bonds
        /\ client'.score = task.score /\ client'.tier = tier(client.bonds, task.score)
    <3>1. client' = rescored(client, task.score, tier(client.bonds, task.score))
      BY <1>5, Zenon DEF rescored
    <3> QED BY <2>1, <2>2, <2>3, <3>1, Rescored, ZenonT(90)
  <2>5. task' \in {Idle, Penalty}
    BY <1>5, Zenon
  <2>6. booked' = booked \/ (booked' = FALSE /\ task' = Penalty) \/ ~booked
    BY <1>5, Zenon
  <2> QED BY <2>1, <2>4, <2>5, <2>6, Zenon
<1>6. CASE /\ client # Nobody /\ ~SkipsTier(task)
           /\ client' = [client EXCEPT !.score = task.score, !.tier = tier(client.bonds, task.score)]
           /\ excused' = task.failed
           /\ LET sunk == task.of.bad /\ client'.tier # client.tier /\ client'.tier < 1
              IN /\ booked' = (booked /\ ~sunk)
                 /\ task' = IF sunk THEN Penalty ELSE Idle
  BY <1>1, <1>2, <1>5, <1>6, ZenonT(30)
<1> QED BY <1>3, <1>4, <1>6, ZenonT(30) DEF ApplyScore, Penalty

\* What Forgive does: the table loses violations, cache and clientInfo follow.
LEMMA Forgiven ==
  ASSUME TypeOK, Forgive
  PROVE  /\ task = Idle /\ excused' = FALSE
         /\ points' \in History /\ points' \subseteq points
         /\ cache = NoCache => cache' = NoCache
         /\ cache # NoCache => cache' = loadUserOutcomes(points')
         /\ client = Nobody => client' = Nobody
         /\ client # Nobody =>
              /\ client' \in Client /\ client'.link = client.link /\ client'.map = client.map
              /\ client'.bonds = client.bonds /\ client'.score = storedScore'
              /\ client'.tier = tier(client.bonds, client'.score)
         /\ UNCHANGED <<nextID, bonds, up, task, timers, booked, doomed, req, count, now>>
<1>1. /\ task = Idle /\ excused' = FALSE
      /\ points' \in {points, {p \in points : ~p.bad}}
      /\ cache' = (IF cache = NoCache THEN NoCache ELSE loadUserOutcomes(points'))
      /\ client' = (IF client = Nobody THEN Nobody
                    ELSE [client EXCEPT !.score = storedScore', !.tier = tier(client.bonds, storedScore')])
      /\ UNCHANGED <<nextID, bonds, up, task, timers, booked, doomed, req, count, now>>
  BY ZenonT(30) DEF Forgive, storedScore
<1>2. points' \in SUBSET points
  BY Zenon, <1>1
<1>3. points' \in History
  <2>1. points \in SUBSET Outcome /\ IsFiniteSet(points)
    BY Zenon DEF TypeOK, History
  <2>2. IsFiniteSet(points')
    BY <1>2, <2>1, FS_Subset, Zenon
  <2> QED BY Zenon, <1>2, <2>1, <2>2 DEF History
<1>4. storedScore' \in Int
  BY Zenon, <1>3, LoadType, ScoreType DEF storedScore
<1>5. ASSUME client # Nobody
      PROVE  /\ client' \in Client /\ client'.link = client.link /\ client'.map = client.map
             /\ client'.bonds = client.bonds /\ client'.score = storedScore'
             /\ client'.tier = tier(client.bonds, client'.score)
  <2>1. client \in Client
    BY Zenon, <1>5 DEF TypeOK
  <2>2. client.bonds \in SUBSET Bonds
    BY Zenon, <2>1 DEF Client
  <2>3. tier(client.bonds, storedScore') \in Int
    BY Zenon, <1>4, <2>2, TierType
  <2>4. client' = rescored(client, storedScore', tier(client.bonds, storedScore'))
    BY <1>1, <1>5, Zenon DEF rescored
  <2>5. /\ client' \in Client /\ client'.link = client.link /\ client'.map = client.map
        /\ client'.bonds = client.bonds /\ client'.score = storedScore'
        /\ client'.tier = tier(client.bonds, storedScore')
    BY <1>4, <2>1, <2>3, <2>4, Rescored, ZenonT(90)
  <2> QED BY Zenon, <2>5
<1> QED BY <1>1, <1>2, <1>3, <1>5, ZenonT(30)

\* What Rerated does, with the cache of a connected user.
LEMMA ReratedClient ==
  ASSUME TypeOK, CacheInv, client # Nobody, NEW bs \in SUBSET Bonds, Rerated(bs)
  PROVE  /\ client' \in Client /\ client'.link = client.link /\ client'.map = client.map
         /\ client'.bonds = bs /\ client'.score = integrateOutcomes(loadUserOutcomes(known))
         /\ client'.tier = tier(bs, client'.score)
<1>1. client \in Client
  BY Zenon DEF TypeOK
<1> DEFINE score == integrateOutcomes(cache)
<1>2. score \in Int
  <2>1. cache \in Lists
    BY Zenon DEF TypeOK, CacheInv
  <2> QED BY Zenon, <2>1, ScoreType
<1>3. tier(bs, score) \in Int
  BY Zenon, <1>2, TierType
<1>4. client' = rebonded(client, bs, score, tier(bs, score))
  BY Zenon DEF Rerated, rebonded
<1> HIDE DEF score
<1>5. /\ client' \in Client /\ client'.link = client.link /\ client'.map = client.map
      /\ client'.bonds = bs /\ client'.score = score /\ client'.tier = tier(bs, score)
  <2> DEFINE t == tier(bs, score)
  <2>1. t \in Int /\ client' = rebonded(client, bs, score, t)
    BY Zenon, <1>3, <1>4
  <2> HIDE DEF t
  <2>2. /\ client' \in Client /\ client'.link = client.link /\ client'.map = client.map
        /\ client'.bonds = bs /\ client'.score = score /\ client'.tier = t
    BY <1>1, <1>2, <2>1, Rebonded, SMTT(30)
  <2> QED BY Zenon, <2>2 DEF t
<1>6. cache = loadUserOutcomes(known)
  BY Zenon DEF CacheInv
<1> QED BY Zenon, <1>5, <1>6 DEF score

\* The task of a connection that goes on.
advanced(t, stage, hist) == [t EXCEPT !.stage = stage, !.hist = hist]

\* The fields of a connection's task that goes on.
LEMMA Advanced ==
  ASSUME NEW t \in Connecting, NEW stage \in {"loaded", "cached"}, NEW hist \in Lists \cup {NoCache}
  PROVE  /\ advanced(t, stage, hist) \in Connecting
         /\ advanced(t, stage, hist).stage = stage /\ advanced(t, stage, hist).hist = hist
         /\ advanced(t, stage, hist).same = t.same /\ advanced(t, stage, hist).bonds = t.bonds
         /\ advanced(t, stage, hist).link = t.link /\ advanced(t, stage, hist).map = t.map
BY ZenonT(30) DEF Connecting, advanced

\* What ConnectLoads leaves to the rest of handleConnect.
LEMMA Loaded ==
  ASSUME TypeOK, ConnectLoads
  PROVE  /\ task \in Connecting /\ task' \in Connecting
         /\ task'.stage = "loaded" /\ task'.hist = loadUserOutcomes(points)
         /\ task'.same = task.same /\ task'.bonds = task.bonds
         /\ task'.link = task.link /\ task'.map = task.map
         /\ UNCHANGED <<points, nextID, bonds, cache, client, up, timers, booked, doomed, req, count, now, excused>>
<1>1. task \in Connecting /\ task' = advanced(task, "loaded", loadUserOutcomes(points))
  BY Zenon, TaskKinds DEF ConnectLoads, advanced
<1>2. loadUserOutcomes(points) \in Lists \cup {NoCache}
  BY Zenon, LoadType DEF TypeOK
<1>3. UNCHANGED <<points, nextID, bonds, cache, client, up, timers, booked, doomed, req, count, now, excused>>
  BY Zenon DEF ConnectLoads
<1> QED BY <1>1, <1>2, <1>3, Advanced

\* What ConnectCaches puts in the cache: the lists of the table as it is.
LEMMA Cached ==
  ASSUME TypeOK, CacheInv, ConnectCaches
  PROVE  /\ task \in Connecting /\ task' \in Connecting
         /\ task'.stage = "cached" /\ task'.hist = loadUserOutcomes(points)
         /\ task'.same = task.same /\ task'.bonds = task.bonds
         /\ task'.link = task.link /\ task'.map = task.map
         /\ cache' = loadUserOutcomes(points)
         /\ UNCHANGED <<points, nextID, bonds, client, up, timers, booked, doomed, req, count, now, excused>>
<1>1. task \in Connecting /\ task.stage = "loaded" /\ cache' = task.hist /\ task' = [task EXCEPT !.stage = "cached"]
      /\ UNCHANGED <<points, nextID, bonds, client, up, timers, booked, doomed, req, count, now, excused>>
  BY TaskKinds DEF ConnectCaches
<1>2. task.hist = loadUserOutcomes(points)
  BY <1>1 DEF CacheInv
<1>3. task' \in Connecting
      /\ task'.stage = "cached" /\ task'.hist = task.hist
      /\ task'.same = task.same /\ task'.bonds = task.bonds
      /\ task'.link = task.link /\ task'.map = task.map
  BY <1>1, ZenonT(30) DEF Connecting
<1> QED BY Zenon, <1>1, <1>2, <1>3

\* The task a connection starts with.
LEMMA ConnectStarts ==
  ASSUME TypeOK, NEW same \in BOOLEAN, handleConnect(same)
  PROVE  /\ task' \in Connecting /\ task'.stage = "read" /\ task'.same = same
         /\ task'.bonds = active(bonds)
         /\ task'.link = (IF same THEN client.link ELSE count.connect + 1)
         /\ task'.map = (IF client # Nobody THEN client.map ELSE count.connect + 1)
         /\ count' \in [connect : Nat, request : Nat, crash : Nat]
         /\ count'.connect = count.connect + 1
         /\ task = Idle /\ (same => client # Nobody /\ up) /\ (~same => client = Nobody \/ Overlap)
         /\ UNCHANGED <<points, nextID, bonds, cache, client, up, timers, booked, doomed, req, now, excused>>
<1> DEFINE link == IF same THEN client.link ELSE count.connect + 1
           map == IF client # Nobody THEN client.map ELSE count.connect + 1
<1>1. /\ task = Idle /\ (same => client # Nobody /\ up) /\ (~same => client = Nobody \/ Overlap)
      /\ count' = [count EXCEPT !.connect = @ + 1]
      /\ task' = [op |-> "connect", stage |-> "read", same |-> same, bonds |-> active(bonds), hist |-> NoCache,
                  link |-> link, map |-> map]
      /\ UNCHANGED <<points, nextID, bonds, cache, client, up, timers, booked, doomed, req, now, excused>>
  BY ZenonT(30) DEF handleConnect
<1>2. count.connect \in Nat /\ count' \in [connect : Nat, request : Nat, crash : Nat]
      /\ count'.connect = count.connect + 1
  BY <1>1 DEF TypeOK
<1>3. client # Nobody => client.link \in Nat \ {0} /\ client.map \in Nat
  BY Zenon DEF TypeOK, Client
<1>4. link \in Nat \ {0} /\ map \in Nat
  BY <1>1, <1>2, <1>3
<1>5. active(bonds) \in SUBSET Bonds
  BY DEF TypeOK, active
<1> HIDE DEF link, map
<1>6. task' \in Connecting /\ task'.stage = "read" /\ task'.same = same
      /\ task'.bonds = active(bonds) /\ task'.link = link /\ task'.map = map
  BY <1>1, <1>4, <1>5, ZenonT(30) DEF Connecting
<1> QED BY <1>1, <1>2, <1>6, Zenon DEF link, map

\* The clientInfo a connection ends with.
LEMMA ClientAdded ==
  ASSUME TypeOK, CacheInv, addClient
  PROVE  /\ client' \in Client /\ client'.link = task.link /\ client'.map = task.map
         /\ client'.bonds = task.bonds /\ client'.score = storedScore
         /\ client'.tier = tier(client'.bonds, client'.score)
         /\ up' = TRUE /\ timer' = "none" /\ task' = Idle /\ excused' = FALSE
         /\ task \in Connecting /\ task.stage = "cached" /\ (task.same => up)
         /\ UNCHANGED <<points, nextID, bonds, cache, stray, firing, booked, doomed, req, count, now>>
<1>1. /\ task \in Connecting /\ task.stage = "cached" /\ (task.same => up)
      /\ up' = TRUE /\ timer' = "none" /\ task' = Idle /\ excused' = FALSE
      /\ UNCHANGED <<points, nextID, bonds, cache, stray, firing, booked, doomed, req, count, now>>
  BY TaskKinds DEF addClient
<1>2. task.hist = loadUserOutcomes(points)
  BY Zenon, <1>1 DEF CacheInv
<1>3. storedScore \in Int
  BY LoadType, ScoreType DEF TypeOK, storedScore
<1>4. task.link \in Nat \ {0} /\ task.map \in Nat /\ task.bonds \in SUBSET Bonds
  BY Zenon, <1>1 DEF Connecting
<1>5. tier(task.bonds, storedScore) \in Int
  BY <1>3, <1>4, TierType
<1>6. client' = [link |-> task.link, map |-> task.map, bonds |-> task.bonds,
                 score |-> storedScore, tier |-> tier(task.bonds, storedScore)]
  BY <1>2, Zenon DEF addClient, storedScore
<1>7. /\ client' \in Client /\ client'.link = task.link /\ client'.map = task.map
      /\ client'.bonds = task.bonds /\ client'.score = storedScore
      /\ client'.tier = tier(task.bonds, storedScore)
  BY <1>3, <1>4, <1>5, <1>6 DEF Client
<1> QED BY <1>1, <1>7

=============================================================================
