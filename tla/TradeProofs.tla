---------------------------- MODULE TradeProofs -----------------------------
(***************************************************************************)
(* The steps of one client that leave the contracts alone, the invariant   *)
(* of the whole, and the theorems about Trade: for any number of crashes   *)
(* and lost connections, whichever sides fund from an account, as long as  *)
(* one audit of a contract runs at a time (~SecondAudits) and a wallet     *)
(* answers when a search is begun (~WalletDown). Without the first,        *)
(* auditContract may run twice and what the second one finds be applied to *)
(* a match that moved on; without the second, a search for the maker's     *)
(* redemption may be lost, and a taker not be paid in time.                *)
(***************************************************************************)
EXTENDS TradeSwaps

USE DEF NewlyMatched, MakerSwapCast, TakerSwapCast, MakerRedeemed, MatchComplete, MatchConfirmed

KeepsMatch == \A s \in Sides : Alike(s, mem[s], mem'[s])

KeepsStage == \A s \in Sides : /\ vol'[s].stage = vol[s].stage
                               /\ vol'[s].swapErr = vol[s].swapErr /\ vol'[s].refundErr = vol[s].refundErr

KeepsChain == \A s \in Sides : chain'[s].step = chain[s].step /\ chain'[s].lock = chain[s].lock

\* Audits of a contract that is relayed.
AuditsTold == /\ vol'["taker"].audits # {} =>
                   /\ T.status = 0 /\ srv.status = 1 /\ audit("taker") \notin net'
                   /\ vol'["taker"].audits # {"msg", "res"}
              /\ vol'["maker"].audits # {} => srv.status >= 2

\* A taker who leaves a match or revokes it.
TakerLeaves ==
  /\ T.own /\ ~tracked'["taker"] /\ Owed => srv.status <= 1 /\ ~srv.active
  /\ vol["taker"].stage \in {"swap", "swapped"} /\ (T'.revoked \/ ~tracked'["taker"]) => ~srv.active

\* A step that changes no status, no contract and no stage keeps the invariant,
\* if its requests, audits and revocations are about what has happened.
LEMMA QuietStep ==
  ASSUME IInv, TypeOK', SameInv', KeepsMatch, KeepsStage, KeepsChain, clock' = clock, srv' = srv, net' \subseteq net,
         \A s \in Sides : Honest(s, req'[s]), \A s \in Sides : ~link'[s] => audit(s) \notin net',
         AuditsTold, TakerLeaves
  PROVE  IInv'
<1>1. OwnInv'
  BY DEF IInv, OwnInv, KeepsMatch, KeepsStage, KeepsChain, Alike, Honest, Spent
<1>2. RelayInv'
  <2>1. /\ T'.status = T.status /\ T'.own = T.own /\ M'.status = M.status /\ M'.own = M.own
        /\ chain'["maker"].lock = chain["maker"].lock /\ chain'["taker"].step = chain["taker"].step
        /\ vol'["maker"].stage = vol["maker"].stage
    BY Zenon, TheSides DEF KeepsMatch, KeepsStage, KeepsChain, Alike, M, T
  <2> QED BY Zenon, <2>1 DEF IInv, RelayInv, AuditsTold
<1>3. LinkInv'
  BY Zenon DEF IInv, LinkInv
<1>4. SpendInv'
  <2>1. /\ T'.status = T.status /\ T'.redeem = T.redeem /\ T'.secret = T.secret /\ M'.status = M.status /\ M'.redeem = M.redeem
        /\ \A s \in Sides : mem'[s].refund = mem[s].refund
    BY Zenon, TheSides DEF KeepsMatch, Alike, M, T
  <2>2. /\ chain'["maker"].step = chain["maker"].step /\ chain'["taker"].step = chain["taker"].step
        /\ \A s \in Sides : Spent(s)' <=> Spent(s)
    BY Zenon, TheSides DEF KeepsChain, Spent
  <2>3. vol'["maker"].stage = vol["maker"].stage /\ vol'["taker"].stage = vol["taker"].stage
    BY Zenon, TheSides DEF KeepsStage
  <2>4. /\ req'["maker"].redeem # "none" => chain["taker"].step = "redeemed"
        /\ req'["taker"].redeem # "none" => chain["maker"].step = "redeemed"
    BY Zenon, TheSides DEF Honest
  <2>5. MakerRedeemKnown' => chain'["taker"].step = "redeemed"
    BY Zenon, <2>1, <2>2, <2>3, <2>4 DEF IInv, SpendInv, MakerRedeemKnown
  <2>6. TakerRedeemKnown' => chain'["maker"].step = "redeemed"
    BY Zenon, <2>1, <2>2, <2>3, <2>4 DEF IInv, SpendInv, TakerRedeemKnown
  <2> QED BY <2>1, <2>2, <2>5, <2>6, TheSides DEF IInv, SpendInv, KeepsStage, KeepsChain
<1>5. ChainInv'
  BY ZenonT(30), TheSides DEF IInv, ChainInv, KeepsMatch, KeepsStage, KeepsChain, Alike, T
<1>6. TakerInv'
  <2>1. T'.own = T.own /\ (Owed' <=> Owed)
    BY Zenon, TheSides DEF KeepsMatch, KeepsChain, Alike, T, Owed
  <2>2. vol'["taker"].stage = vol["taker"].stage /\ vol'["taker"].swapErr = vol["taker"].swapErr
    BY Zenon, TheSides DEF KeepsStage
  <2> QED BY Zenon, <2>1, <2>2 DEF IInv, TakerInv, TakerLeaves
<1> QED BY Zenon, <1>1, <1>2, <1>3, <1>4, <1>5, <1>6 DEF IInv

\* A match that is updated in memory, and in the row when more than a flag changes.
LEMMA Updated ==
  ASSUME TypeOK, SameInv, NEW s \in Sides, NEW m \in Match, mem' = [mem EXCEPT ![s] = m],
         \/ dbm' = [dbm EXCEPT ![s] = m]
         \/ dbm' = dbm /\ Alike(s, mem[s], m)
  PROVE  /\ mem' \in [Sides -> Match] /\ dbm' \in [Sides -> Match] /\ SameInv'
         /\ mem'[s] = m /\ \A t \in Sides : t # s => mem'[t] = mem[t]
<1>1. mem' \in [Sides -> Match] /\ mem'[s] = m /\ \A t \in Sides : t # s => mem'[t] = mem[t]
  BY Zenon DEF TypeOK
<1>2. dbm \in [Sides -> Match]
  BY Zenon DEF TypeOK
<1>3. CASE dbm' = [dbm EXCEPT ![s] = m]
  BY ZenonT(30), <1>1, <1>2, <1>3 DEF SameInv, Alike
<1>4. CASE dbm' = dbm /\ Alike(s, mem[s], m)
  BY <1>1, <1>2, <1>4 DEF SameInv, Alike
<1> QED BY Zenon, <1>1, <1>3, <1>4

\* A match replaced by one like it leaves the matches alike.
LEMMA AlikeKept ==
  ASSUME NEW s \in Sides, mem \in [Sides -> Match], NEW m \in Match, Alike(s, mem[s], m),
         mem'[s] = m, \A t \in Sides : t # s => mem'[t] = mem[t]
  PROVE  KeepsMatch
BY Zenon DEF KeepsMatch, Alike

\* A taker that neither leaves nor revokes its match now did not do so rashly.
LEMMA StillLeaves ==
  ASSUME IInv, tracked' = tracked,
         (T'.revoked => T.revoked) \/ vol["taker"].stage \notin {"swap", "swapped"} \/ ~srv.active
  PROVE  TakerLeaves
BY Zenon DEF IInv, TakerInv, TakerLeaves

\* Audits that were started before are of contracts the server relayed.
LEMMA StillTold ==
  ASSUME IInv, \A s \in Sides : vol'[s].audits \subseteq vol[s].audits, net' \subseteq net
  PROVE  AuditsTold
<1>1. vol["taker"].audits \subseteq {"msg", "res"}
  BY Zenon, TheSides DEF IInv, TypeOK, Vol
<1> QED BY Zenon, <1>1, TheSides DEF IInv, RelayInv, AuditsTold

\* A step that takes messages or requests away, and changes nothing else.
LEMMA NothingChanged ==
  ASSUME IInv, UNCHANGED <<mem, dbm, vol, tracked, srv, chain, clock>>, net' \subseteq net, link' \in [Sides -> BOOLEAN],
         req' \in [Sides -> Pair], \A t \in Sides : Honest(t, req'[t]), \A t \in Sides : ~link'[t] => audit(t) \notin net'
  PROVE  IInv'
<1>1. TypeOK' /\ SameInv' /\ KeepsMatch /\ KeepsStage /\ KeepsChain
  BY Zenon DEF IInv, TypeOK, SameInv, KeepsMatch, KeepsStage, KeepsChain, Alike
<1>2. TakerLeaves /\ AuditsTold
  BY Zenon, StillLeaves, StillTold DEF T
<1> QED BY Zenon, <1>1, <1>2, QuietStep

\* The steps in which a client compares its match with the server.
LEMMA ResolveSteps ==
  IInv =>
    /\ \A s \in Sides : handleRevokeMatch(s) => IInv'
    /\ ~SecondAudits => \A s \in Sides : Reconnect(s) => IInv'
    /\ ~SecondAudits => \A s \in Sides, kind \in {"init", "redeem"} : Answered(s, kind) => IInv'
\* A match that is revoked in memory, and perhaps in the row.
<1>RevokedStep.
  ASSUME IInv, NEW s \in Sides, NEW v \in BOOLEAN, mem' = [mem EXCEPT ![s] = [mem[s] EXCEPT !.revoked = v]],
         dbm' = dbm \/ dbm' = [dbm EXCEPT ![s] = [mem[s] EXCEPT !.revoked = v]],
         ~v \/ s = "maker" \/ vol[s].stage \notin {"swap", "swapped"} \/ ~srv.active,
         UNCHANGED <<vol, tracked, srv, chain, clock>>, net' \subseteq net, link' \in [Sides -> BOOLEAN],
         req' \in [Sides -> Pair], \A t \in Sides : Honest(t, req'[t]), \A t \in Sides : ~link'[t] => audit(t) \notin net'
  PROVE  IInv'
  <2> USE <1>RevokedStep
  <2> DEFINE m == [mem[s] EXCEPT !.revoked = v]
  <2>1. mem[s] \in Match /\ TypeOK /\ SameInv
    BY Zenon DEF IInv, TypeOK
  <2>2. m \in Match /\ Alike(s, mem[s], m) /\ m.revoked = v
    BY Zenon, <2>1, Revoked
  <2> HIDE DEF m
  <2>3. /\ mem' \in [Sides -> Match] /\ dbm' \in [Sides -> Match] /\ SameInv'
        /\ mem'[s] = m /\ \A t \in Sides : t # s => mem'[t] = mem[t]
    BY <2>1, <2>2, Updated, ZenonT(30) DEF m
  <2>4. KeepsMatch
    BY Zenon, <2>1, <2>2, <2>3, AlikeKept DEF TypeOK
  <2>5. TypeOK' /\ KeepsStage /\ KeepsChain
    BY Zenon, <2>1, <2>3 DEF TypeOK, KeepsStage, KeepsChain
  <2>6. TakerLeaves
    BY Zenon, <2>2, <2>3, StillLeaves, TheSides DEF T
  <2>7. AuditsTold
    BY Zenon, StillTold
  <2> QED BY Zenon, <2>3, <2>4, <2>5, <2>6, <2>7, QuietStep
<1>HandleRevokeStep. ASSUME IInv, NEW s \in Sides, handleRevokeMatch(s) PROVE IInv'
  <2> USE <1>HandleRevokeStep
  <2>1. /\ revoke(s) \in net /\ net' \subseteq net /\ UNCHANGED <<vol, tracked, link, req, srv, chain, clock>>
        /\ \/ /\ mem' = [mem EXCEPT ![s] = [mem[s] EXCEPT !.revoked = TRUE]]
              /\ dbm' = [dbm EXCEPT ![s] = [mem[s] EXCEPT !.revoked = TRUE]]
           \/ UNCHANGED <<mem, dbm>>
    BY Zenon DEF handleRevokeMatch, revoke
  <2>2. ~srv.active
    BY Zenon, <2>1 DEF IInv, LinkInv
  <2>3. link' \in [Sides -> BOOLEAN] /\ req' \in [Sides -> Pair] /\ \A t \in Sides : Honest(t, req'[t])
    BY Zenon, <2>1, AllHonest DEF IInv, TypeOK
  <2>4. \A t \in Sides : ~link'[t] => audit(t) \notin net'
    BY Zenon, <2>1, StillLinked
  <2>5. CASE UNCHANGED <<mem, dbm>>
    BY Zenon, <2>1, <2>3, <2>4, <2>5, NothingChanged
  <2>6. CASE mem' # mem \/ dbm' # dbm
    BY <2>1, <2>2, <2>3, <2>4, <2>6, <1>RevokedStep, ZenonT(30)
  <2> QED BY Zenon, <2>5, <2>6
\* A client that updates its match and may find its connection again.
<1>LinkedStep.
  ASSUME IInv, NEW s \in Sides, NEW n \in Match, mem' = [mem EXCEPT ![s] = n], dbm' = [dbm EXCEPT ![s] = n],
         vol' \in [Sides -> Vol], \A o \in Sides : o # s => vol'[o] = vol[o],
         req' \in [Sides -> Pair], \A o \in Sides : o # s => req'[o] = req[o],
         link' \in [Sides -> BOOLEAN], \A o \in Sides : link[o] => link'[o],
         UNCHANGED <<tracked, srv, chain, clock, net>>,
         s = "maker" => MakerFine(n, vol'[s], req'[s]),
         s = "taker" => TakerFine(n, vol'[s], req'[s], tracked[s])
  PROVE  IInv'
  <2> USE <1>LinkedStep
  <2>1. mem \in [Sides -> Match] /\ dbm \in [Sides -> Match]
    BY Zenon DEF IInv, TypeOK
  <2>2. /\ mem' \in [Sides -> Match] /\ dbm' \in [Sides -> Match] /\ mem'[s] = n /\ dbm'[s] = n
        /\ \A o \in Sides : o # s => mem'[o] = mem[o] /\ dbm'[o] = dbm[o]
    BY Zenon, <2>1
  <2>3. Others(s) /\ Alike(s, mem'[s], dbm'[s])
    BY Zenon, <2>2 DEF Others, Alike
  <2>4. TypeOK'
    BY Zenon, <2>2 DEF IInv, TypeOK
  <2>5. \A o \in Sides : ~link'[o] => audit(o) \notin net'
    BY Zenon DEF IInv, LinkInv
  <2> QED BY ZenonT(30), <2>2, <2>3, <2>4, <2>5, ClientActs
\* A taker the resolvers give up on is owed nothing.
<1>GivenUp.
  ASSUME IInv, T.own, srv.status # T.status, ~HasResolver(T.status)
  PROVE  ~Owed
  <2> USE <1>GivenUp
  <2>1. TakerFine(T, vol["taker"], req["taker"], tracked["taker"])
    BY Zenon, TakerIsFine DEF TakerPart
  <2>2. T.status \in 2..5 /\ srv.status \in 1..4
    BY <2>1, Ranges, TheSides DEF TakerFine, T
  <2>3. /\ T.status = 2 => srv.status = 4
        /\ T.status = 3 => srv.status = 1
    BY <2>2 DEF HasResolver
  <2>4. /\ srv.status = 4 => chain["maker"].step = "redeemed"
        /\ T.status = 4 => chain["maker"].step = "redeemed"
        /\ T.status = 5 => ~Owed
        /\ T.status = 3 => srv.status >= 2
    BY <2>1, KeepsRelays DEF TakerFine, IInv, RelayInv
  <2> QED BY <2>2, <2>3, <2>4 DEF Owed
\* What a client learns from the server's status of the match.
<1>ResolveStep.
  ASSUME IInv, ~SecondAudits, NEW s \in Sides, resolveConflict(s), UNCHANGED <<tracked, net, srv, chain, clock>>,
         link' \in [Sides -> BOOLEAN], \A o \in Sides : link[o] => link'[o],
         req' \in [Sides -> Pair], \A o \in Sides : Honest(o, req'[o]), \A o \in Sides : o # s => req'[o] = req[o],
         s = "taker" => T.own \/ audit("taker") \notin net
  PROVE  IInv'
  <2> USE <1>ResolveStep
  <2> DEFINE gone == srv.status < 4 /\ ~srv.active
             v == mem[s].revoked \/ gone
             c == Conflict(s)
             errs == vol[s].swapErr \/ ~HasResolver(mem[s].status)
             runs == IF ResolverAudits(s) THEN vol[s].audits \union {"res"} ELSE vol[s].audits
  <2>1. MakerFine(M, vol["maker"], req["maker"]) /\ TakerFine(T, vol["taker"], req["taker"], tracked["taker"])
    BY ZenonT(30), MakerIsFine, TakerIsFine DEF MakerPart, TakerPart
  <2>2. \/ mem' = [mem EXCEPT ![s] = [mem[s] EXCEPT !.revoked = v]] /\ UNCHANGED <<dbm, vol>>
        \/ /\ srv.status # mem[s].status
           /\ mem' = [mem EXCEPT ![s] = c] /\ dbm' = [dbm EXCEPT ![s] = c]
           /\ vol' = [vol EXCEPT ![s].swapErr = @ \/ ~HasResolver(mem[s].status),
                                ![s].audits = IF ResolverAudits(s) THEN @ \union {"res"} ELSE @]
    <3>1. mem[s] \in Match /\ v \in BOOLEAN
      BY Zenon, Ranges DEF Match
    <3>2. [mem[s] EXCEPT !.revoked = v].status = mem[s].status
      BY <3>1, ZenonT(30) DEF Match
    <3> QED BY <3>2, ZenonT(30) DEF resolveConflict
  <2>3. CASE mem' = [mem EXCEPT ![s] = [mem[s] EXCEPT !.revoked = v]] /\ UNCHANGED <<dbm, vol>>
    <3>1. v \in BOOLEAN
      BY ZenonT(30), Ranges DEF Match
    <3>2. ~v \/ s = "maker" \/ vol[s].stage \notin {"swap", "swapped"} \/ ~srv.active
      BY ZenonT(30), <2>1 DEF TakerFine, T, Sides
    <3>3. \A o \in Sides : ~link'[o] => audit(o) \notin net'
      BY Zenon DEF IInv, LinkInv
    <3> HIDE DEF v
    <3> QED BY <2>3, <3>1, <3>2, <3>3, <1>RevokedStep, ZenonT(30)
  <2>4. CASE /\ srv.status # mem[s].status
             /\ mem' = [mem EXCEPT ![s] = c] /\ dbm' = [dbm EXCEPT ![s] = c]
             /\ vol' = [vol EXCEPT ![s].swapErr = @ \/ ~HasResolver(mem[s].status),
                                ![s].audits = IF ResolverAudits(s) THEN @ \union {"res"} ELSE @]
    <3>1. /\ c \in Match /\ c.own = mem[s].own /\ c.redeem = mem[s].redeem /\ c.refund = mem[s].refund
          /\ \/ c.status = mem[s].status /\ c.secret = mem[s].secret
             \/ s = "taker" /\ mem[s].status = 2 /\ srv.status = 3 /\ c.status = 3 /\ c.secret
             \/ s = "maker" /\ mem[s].status = 3 /\ srv.status = 4 /\ c.status = 4
      BY ConflictMatch, Zenon
    <3>2. errs \in BOOLEAN /\ runs \in SUBSET {"msg", "res"}
      BY Zenon, Ranges DEF Vol
    <3>3. runs = vol[s].audits \/ (runs = {"res"} /\ vol[s].audits = {} /\ mem[s].status = swapCast(other(s)) - 1
                                    /\ srv.status = swapCast(other(s)))
      BY Zenon DEF ResolverAudits
    <3>4. errs => vol[s].swapErr \/ ~HasResolver(mem[s].status)
      BY Zenon
    <3> HIDE DEF c, errs, runs
    <3>5. /\ vol' \in [Sides -> Vol] /\ \A o \in Sides : o # s => vol'[o] = vol[o]
          /\ vol'[s].audits = runs /\ vol'[s].swapErr = errs
          /\ vol'[s].stage = vol[s].stage /\ vol'[s].refundErr = vol[s].refundErr
      <4> DEFINE e == ~HasResolver(mem[s].status)
                 A == ResolverAudits(s)
      <4>1. TypeOK /\ e \in BOOLEAN /\ A \in BOOLEAN
        BY Zenon DEF IInv, HasResolver, ResolverAudits
      <4>2. vol' = [vol EXCEPT ![s].swapErr = @ \/ e, ![s].audits = IF A THEN @ \union {"res"} ELSE @]
        BY <2>4, Zenon
      <4>3. errs = (vol[s].swapErr \/ e) /\ runs = IF A THEN vol[s].audits \union {"res"} ELSE vol[s].audits
        BY Zenon DEF errs, runs
      <4> HIDE DEF e, A
      <4>4. /\ vol' \in [Sides -> Vol] /\ \A o \in Sides : o # s => vol'[o] = vol[o]
            /\ vol'[s].stage = vol[s].stage /\ vol'[s].refundErr = vol[s].refundErr
            /\ vol'[s].audits = IF A THEN vol[s].audits \union {"res"} ELSE vol[s].audits
            /\ vol'[s].swapErr = (vol[s].swapErr \/ e)
        <5>1. vol \in [Sides -> Vol]
          BY Zenon, <4>1 DEF TypeOK
        <5> QED BY <4>1, <4>2, <5>1, ZenonT(120) DEF Vol
      <4> QED BY <4>3, <4>4, Zenon
    <3>6. s = "maker" => MakerFine(c, vol'[s], req'[s])
      <4> SUFFICES ASSUME s = "maker" PROVE MakerFine(c, vol'[s], req'[s])
        BY Zenon
      <4>1. MakerFine(mem[s], vol[s], req[s]) /\ swapCast(other(s)) = 2
        BY Zenon, <2>1 DEF M, swapCast, other
      <4>2. (req'[s].init # "none" => mem[s].own) /\ (req'[s].redeem # "none" => chain["taker"].step = "redeemed")
        BY Zenon, TheSides DEF Honest
      <4>3. \/ c.status = mem[s].status
            \/ mem[s].status = 3 /\ srv.status = 4 /\ c.status = 4
        BY Zenon, <3>1
      <4>4. vol'[s].audits # {} => vol[s].audits # {} \/ srv.status = 2
        BY Zenon, <3>3, <3>5, <4>1
      <4> QED BY <3>1, <3>5, <4>1, <4>2, <4>3, <4>4 DEF MakerFine
    <3>7. s = "taker" => TakerFine(c, vol'[s], req'[s], tracked[s])
      <4> SUFFICES ASSUME s = "taker" PROVE TakerFine(c, vol'[s], req'[s], tracked[s])
        BY Zenon
      <4>1. TakerFine(mem[s], vol[s], req[s], tracked[s]) /\ swapCast(other(s)) = 1
        BY Zenon, <2>1 DEF T, swapCast, other
      <4>2. (req'[s].init # "none" => mem[s].own) /\ (req'[s].redeem # "none" => chain["maker"].step = "redeemed")
        BY Zenon, TheSides DEF Honest
      <4>3. \/ c.status = mem[s].status /\ c.secret = mem[s].secret
            \/ mem[s].status = 2 /\ srv.status = 3 /\ c.status = 3 /\ c.secret
        BY Zenon, <3>1
      <4>4. vol[s].stage \notin {"swap", "swapped"}
        BY <2>4, <4>1, Ranges DEF TakerFine
      <4>5. vol'[s].swapErr /\ mem[s].own => ~Owed
        BY ZenonT(30), <2>4, <3>4, <3>5, <4>1, <1>GivenUp DEF TakerFine, T
      <4>6. vol'[s].audits # {} => /\ mem[s].status = 0 /\ srv.status = 1 /\ vol'[s].audits # {"msg", "res"}
                                   /\ audit("taker") \notin net
        <5>1. CASE runs = vol[s].audits
          BY <3>5, <4>1, <5>1 DEF TakerFine
        <5>2. CASE runs = {"res"} /\ mem[s].status = 0 /\ srv.status = 1
          <6>1. ~mem[s].own
            BY <4>1, <5>2 DEF TakerFine
          <6> QED BY <3>5, <5>2, <6>1 DEF T
        <5> QED BY <3>3, <4>1, <5>1, <5>2
      <4>7. srv.status = 3 => chain["taker"].step = "redeemed"
        BY KeepsRelays
      <4>8. vol'[s].stage = vol[s].stage /\ vol'[s].refundErr = vol[s].refundErr
        BY ZenonT(30), <3>5
      <4>9. c.own = mem[s].own /\ c.redeem = mem[s].redeem /\ c.refund = mem[s].refund
        BY ZenonT(30), <3>1
      <4> QED BY <4>1, <4>2, <4>3, <4>4, <4>5, <4>6, <4>7, <4>8, <4>9 DEF TakerFine
    <3> QED BY <2>4, <3>1, <3>5, <3>6, <3>7, <1>LinkedStep, ZenonT(30)
  <2> QED BY ZenonT(30), <2>2, <2>3, <2>4
\* A client that takes an answer into its match.
<1>SignedStep.
  ASSUME IInv, NEW s \in Sides, NEW n \in Match, Alike(s, mem[s], n), n.revoked = mem[s].revoked,
         mem' = [mem EXCEPT ![s] = n], dbm' = [dbm EXCEPT ![s] = n],
         req' \in [Sides -> Pair], \A o \in Sides : Honest(o, req'[o]),
         UNCHANGED <<vol, tracked, link, net, srv, chain, clock>>
  PROVE  IInv'
  <2> USE <1>SignedStep
  <2>1. TypeOK /\ SameInv /\ mem \in [Sides -> Match]
    BY Zenon DEF IInv, TypeOK
  <2>2. /\ mem' \in [Sides -> Match] /\ dbm' \in [Sides -> Match] /\ SameInv'
        /\ mem'[s] = n /\ \A t \in Sides : t # s => mem'[t] = mem[t]
    BY <2>1, Updated, ZenonT(30)
  <2>3. KeepsMatch
    BY ZenonT(30), <2>1, <2>2, AlikeKept
  <2>4. TypeOK' /\ KeepsStage /\ KeepsChain
    BY ZenonT(30), <2>1, <2>2 DEF TypeOK, KeepsStage, KeepsChain
  <2>5. TakerLeaves
    BY ZenonT(30), <2>2, StillLeaves, TheSides DEF T
  <2>6. AuditsTold /\ \A o \in Sides : ~link'[o] => audit(o) \notin net'
    BY ZenonT(30), StillTold, StillLinked
  <2> QED BY ZenonT(30), <2>2, <2>3, <2>4, <2>5, <2>6, QuietStep
\* Whoever waits for an answer has its swap recorded.
<1>AskerOwns.
  ASSUME IInv, NEW s \in Sides, NEW kind \in {"init", "redeem"}, req[s][kind] # "none"
  PROVE  mem[s].own /\ vol[s].stage \notin {"swap", "swapped"} /\ (kind = "redeem" => chain[other(s)].step = "redeemed")
  <2> USE <1>AskerOwns
  <2>1. /\ req[s].init # "none" => mem[s].own
        /\ req[s].redeem # "none" => chain[other(s)].step = "redeemed"
    BY ZenonT(30), AllHonest DEF Honest
  <2>2. kind = "redeem" => srv.status >= 2 /\ chain["taker"].step = "redeemed"
    BY ZenonT(30), <2>1, TheSides DEF Sides, IInv, ChainInv, RelayInv
  <2>3. srv.status >= 2 => mem["maker"].own /\ mem["taker"].own
    BY Ranges DEF IInv, RelayInv, M, T
  <2>4. mem[s].own
    BY ZenonT(30), <2>1, <2>2, <2>3 DEF Sides
  <2>5. mem[s].status \in 0..5 /\ swapCast(s) \in 1..2
    BY Ranges DEF swapCast
  <2>6. vol[s].stage \notin {"swap", "swapped"}
    BY <2>4, <2>5 DEF IInv, OwnInv
  <2> QED BY ZenonT(30), <2>1, <2>4, <2>6
<1>AnsweredStep.
  ASSUME IInv, ~SecondAudits, NEW s \in Sides, NEW kind \in {"init", "redeem"}, Answered(s, kind)
  PROVE  IInv'
  <2> USE <1>AnsweredStep
  <2>1. /\ req[s][kind] # "none" /\ req' = [req EXCEPT ![s][kind] = "none"]
        /\ UNCHANGED <<tracked, link, net, srv, chain, clock>>
    BY ZenonT(30) DEF Answered
  <2>2. mem[s].own /\ vol[s].stage \notin {"swap", "swapped"} /\ (kind = "redeem" => chain[other(s)].step = "redeemed")
    BY ZenonT(30), <2>1, <1>AskerOwns
  <2>3. "none" \in Answers
    BY Zenon DEF Answers
  <2>4. req' \in [Sides -> Pair] /\ \A o \in Sides : Honest(o, req'[o])
    BY <2>1, <2>3, Replied, ZenonT(30)
  <2>5. \A o \in Sides : o # s => req'[o] = req[o]
    BY <2>1, ZenonT(30) DEF IInv, TypeOK
  <2>6. link' \in [Sides -> BOOLEAN] /\ \A o \in Sides : ~link'[o] => audit(o) \notin net'
    BY ZenonT(30), <2>1, StillLinked DEF IInv, TypeOK
  <2>7. CASE resolveConflict(s)
    <3>1. \A o \in Sides : link[o] => link'[o]
      BY ZenonT(30), <2>1
    <3>2. s = "taker" => T.own
      BY ZenonT(30), <2>2 DEF T
    <3> QED BY <2>1, <2>4, <2>5, <2>6, <2>7, <3>1, <3>2, <1>ResolveStep, ZenonT(30)
  <2>8. CASE UNCHANGED <<mem, dbm, vol>>
    BY <2>1, <2>4, <2>6, <2>8, NothingChanged, ZenonT(30)
  <2>9. CASE /\ mem' = [mem EXCEPT ![s] = [mem[s] EXCEPT !.revoked = TRUE]]
             /\ dbm' = [dbm EXCEPT ![s] = [mem[s] EXCEPT !.revoked = TRUE]] /\ vol' = vol
    BY <2>1, <2>2, <2>4, <2>6, <2>9, <1>RevokedStep, ZenonT(30)
  <2>10. CASE /\ kind = "init" /\ mem' = [mem EXCEPT ![s] = [mem[s] EXCEPT !.initSig = TRUE]]
              /\ dbm' = [dbm EXCEPT ![s] = [mem[s] EXCEPT !.initSig = TRUE]] /\ vol' = vol
    <3> DEFINE n == [mem[s] EXCEPT !.initSig = TRUE]
    <3>1. n \in Match /\ Alike(s, mem[s], n) /\ n.revoked = mem[s].revoked
      BY Ranges, InitSigned, ZenonT(30)
    <3> HIDE DEF n
    <3>2. mem' = [mem EXCEPT ![s] = n] /\ dbm' = [dbm EXCEPT ![s] = n]
      BY <2>10, Zenon DEF n
    <3> QED BY <2>1, <2>4, <2>10, <3>1, <3>2, <1>SignedStep, ZenonT(30)
  <2>11. ASSUME NEW final \in {4, 5}, kind = "redeem", vol' = vol,
                mem' = [mem EXCEPT ![s] = [mem[s] EXCEPT !.redeemSig = TRUE, !.status = IF s = "maker" /\ @ < 4 THEN final ELSE @]],
                dbm' = [dbm EXCEPT ![s] = [mem[s] EXCEPT !.redeemSig = TRUE, !.status = IF s = "maker" /\ @ < 4 THEN final ELSE @]]
         PROVE  IInv'
    <3> DEFINE st == IF s = "maker" /\ mem[s].status < 4 THEN final ELSE mem[s].status
               n == [mem[s] EXCEPT !.redeemSig = TRUE, !.status = st]
    <3>1. mem[s] \in Match /\ st \in 0..5
      BY Ranges
    <3>2. mem' = [mem EXCEPT ![s] = n] /\ dbm' = [dbm EXCEPT ![s] = n]
      <4>1. [mem[s] EXCEPT !.redeemSig = TRUE, !.status = IF s = "maker" /\ @ < 4 THEN final ELSE @] = n
        BY ZenonT(30), <3>1 DEF Match
      <4> QED BY <2>11, <4>1, Zenon
    <3>3. (st = mem[s].status) \/ (s = "maker" /\ st \in {4, 5})
      BY ZenonT(30)
    <3> HIDE DEF st
    <3>4. /\ n \in Match /\ n.status = st /\ n.own = mem[s].own /\ n.redeem = mem[s].redeem /\ n.refund = mem[s].refund
          /\ n.secret = mem[s].secret /\ n.revoked = mem[s].revoked
      BY <3>1, RedeemSigned, ZenonT(30)
    <3> HIDE DEF n
    <3>5. CASE st = mem[s].status
      <4>1. Alike(s, mem[s], n)
        BY ZenonT(30), <3>4, <3>5 DEF Alike
      <4> QED BY <2>1, <2>4, <2>11, <3>2, <3>4, <4>1, <1>SignedStep, ZenonT(30)
    <3>6. CASE s = "maker" /\ st \in {4, 5}
      <4>1. MakerFine(mem[s], vol[s], req[s])
        BY Zenon, <3>6, MakerIsFine DEF MakerPart, M
      <4>2. chain["taker"].step = "redeemed" /\ srv.status >= 2
        BY Zenon, <2>2, <2>11, <3>6, TheSides DEF IInv, RelayInv
      <4>3. (req'[s].init # "none" => mem[s].own) /\ (req'[s].redeem # "none" => chain["taker"].step = "redeemed")
        BY ZenonT(30), <2>4, <3>6, TheSides DEF Honest
      <4>4. MakerFine(n, vol'[s], req'[s])
        <5>1. st >= 1 /\ st # 0 /\ srv.status >= 1
          BY <3>6, <4>2, Ranges
        <5>2. mem[s].own
          BY Zenon, <4>1, <5>1 DEF MakerFine
        <5>3. vol'[s] = vol[s] /\ vol[s].stage \notin {"swap", "swapped"}
          BY <2>2, <2>11, <3>6, <4>1, <5>2 DEF MakerFine
        <5> QED BY ZenonT(30), <3>4, <4>1, <4>2, <4>3, <5>1, <5>2, <5>3 DEF MakerFine
      <4>5. vol' \in [Sides -> Vol] /\ s # "taker"
        BY ZenonT(30), <2>11, <3>6 DEF IInv, TypeOK
      <4> QED BY <2>1, <2>4, <2>5, <2>11, <3>2, <3>4, <4>4, <4>5, StoredStep, ZenonT(30)
    <3> QED BY ZenonT(30), <3>3, <3>5, <3>6
  <2> QED BY <2>7, <2>8, <2>9, <2>10, <2>11, ZenonT(30) DEF Answered
<1>ReconnectStep. ASSUME IInv, ~SecondAudits, NEW s \in Sides, Reconnect(s) PROVE IInv'
  <2> USE <1>ReconnectStep
  <2>1. /\ ~link[s] /\ link' = [link EXCEPT ![s] = TRUE] /\ UNCHANGED <<tracked, req, net, srv, chain, clock>>
        /\ \/ /\ ~srv.active /\ mem' = [mem EXCEPT ![s] = [mem[s] EXCEPT !.revoked = TRUE]]
              /\ dbm' = [dbm EXCEPT ![s] = [mem[s] EXCEPT !.revoked = TRUE]] /\ UNCHANGED vol
           \/ resolveConflict(s)
           \/ UNCHANGED <<mem, dbm, vol>>
    BY ZenonT(30) DEF Reconnect
  <2>2. link' \in [Sides -> BOOLEAN] /\ \A o \in Sides : link[o] => link'[o]
    BY ZenonT(30), <2>1 DEF IInv, TypeOK
  <2>3. req' \in [Sides -> Pair] /\ (\A o \in Sides : Honest(o, req'[o])) /\ \A o \in Sides : o # s => req'[o] = req[o]
    BY ZenonT(30), <2>1, AllHonest DEF IInv, TypeOK
  <2>4. \A o \in Sides : ~link'[o] => audit(o) \notin net'
    BY ZenonT(30), <2>1, <2>2 DEF IInv, LinkInv
  <2>5. net' \subseteq net
    BY Zenon, <2>1
  <2>6. CASE /\ ~srv.active /\ mem' = [mem EXCEPT ![s] = [mem[s] EXCEPT !.revoked = TRUE]]
             /\ dbm' = [dbm EXCEPT ![s] = [mem[s] EXCEPT !.revoked = TRUE]] /\ UNCHANGED vol
    BY <2>1, <2>2, <2>3, <2>4, <2>5, <2>6, <1>RevokedStep, ZenonT(30)
  <2>7. CASE resolveConflict(s)
    <3>1. s = "taker" => audit("taker") \notin net
      BY Zenon, <2>1 DEF IInv, LinkInv
    <3> QED BY <2>1, <2>2, <2>3, <2>7, <3>1, <1>ResolveStep, ZenonT(30)
  <2>8. CASE UNCHANGED <<mem, dbm, vol>>
    BY <2>1, <2>2, <2>3, <2>4, <2>5, <2>8, NothingChanged, ZenonT(30)
  <2> QED BY ZenonT(30), <2>1, <2>6, <2>7, <2>8
<1> QED BY <1>HandleRevokeStep, <1>AnsweredStep, <1>ReconnectStep, Zenon

\* auditContract ends.
LEMMA AuditContractStep ==
  ASSUME IInv, NEW s \in Sides, NEW asker \in {"msg", "res"}, auditContract(s, asker)
  PROVE  IInv'
\* The audits that run, with one ended.
<1>AuditEnded.
  ASSUME TypeOK, vol' = [vol EXCEPT ![s].audits = @ \ {asker}]
  PROVE  /\ vol' \in [Sides -> Vol] /\ \A o \in Sides : o # s => vol'[o] = vol[o]
         /\ vol'[s].audits = vol[s].audits \ {asker}
         /\ vol'[s].stage = vol[s].stage /\ vol'[s].swapErr = vol[s].swapErr /\ vol'[s].refundErr = vol[s].refundErr
  <2> USE <1>AuditEnded
  <2>1. vol \in [Sides -> Vol] /\ vol[s].audits \ {asker} \in SUBSET {"msg", "res"}
    BY Zenon DEF TypeOK, Vol
  <2> QED BY <2>1, ZenonT(30) DEF Vol
<1> DEFINE n == [mem[s] EXCEPT !.status = swapCast(other(s))]
<1>1. MakerFine(M, vol["maker"], req["maker"]) /\ TakerFine(T, vol["taker"], req["taker"], tracked["taker"])
  BY Zenon, MakerIsFine, TakerIsFine DEF MakerPart, TakerPart
<1>2. /\ asker \in vol[s].audits /\ vol' = [vol EXCEPT ![s].audits = @ \ {asker}]
      /\ UNCHANGED <<tracked, link, req, net, srv, chain, clock>>
  BY ZenonT(30) DEF auditContract
<1>3. chain[other(s)].lock >= lockTime(other(s))
  <2>1. CASE s = "maker"
    <3>1. chain["taker"].step # "none"
      BY Zenon, <1>1, <1>2, <2>1, Ranges DEF MakerFine, TakerFine
    <3> QED BY <2>1, <3>1, TheSides DEF IInv, ChainInv, lockTime
  <2>2. CASE s = "taker"
    <3>1. srv.status = 1
      BY Zenon, <1>1, <1>2, <2>2 DEF TakerFine
    <3> QED BY <2>2, <3>1, TheSides DEF IInv, RelayInv, lockTime
  <2> QED BY Zenon, <2>1, <2>2 DEF Sides
<1>4. mem' = [mem EXCEPT ![s] = n] /\ dbm' = [dbm EXCEPT ![s] = n]
  BY <1>3, ZenonT(30) DEF auditContract
<1>5. /\ n \in Match /\ n.own = mem[s].own /\ n.status = swapCast(other(s)) /\ n.redeem = mem[s].redeem
      /\ n.refund = mem[s].refund /\ n.secret = mem[s].secret /\ n.revoked = mem[s].revoked
  <2>1. mem[s] \in Match /\ swapCast(other(s)) \in 0..5
    BY Ranges DEF swapCast
  <2> QED BY <2>1, StatusSet, ZenonT(30)
<1> HIDE DEF n
<1>6. /\ vol' \in [Sides -> Vol] /\ \A o \in Sides : o # s => vol'[o] = vol[o]
      /\ vol'[s].audits = vol[s].audits \ {asker}
      /\ vol'[s].stage = vol[s].stage /\ vol'[s].swapErr = vol[s].swapErr /\ vol'[s].refundErr = vol[s].refundErr
  BY <1>2, <1>AuditEnded, ZenonT(30) DEF IInv
<1>7. s = "maker" => MakerFine(n, vol'[s], req[s])
  <2> SUFFICES ASSUME s = "maker" PROVE MakerFine(n, vol'[s], req[s])
    BY Zenon
  <2>1. MakerFine(mem[s], vol[s], req[s]) /\ swapCast(other(s)) = 2 /\ srv.status \in 0..4
    BY Zenon, <1>1, Ranges DEF M, swapCast, other
  <2>2. srv.status >= 2 /\ mem[s].own
    BY <1>2, <2>1 DEF MakerFine
  <2>3. mem[s].status # 0
    BY <2>1, <2>2 DEF MakerFine
  <2> QED BY <1>5, <1>6, <2>1, <2>2, <2>3 DEF MakerFine
<1>8. s = "taker" => TakerFine(n, vol'[s], req[s], tracked[s])
  <2> SUFFICES ASSUME s = "taker" PROVE TakerFine(n, vol'[s], req[s], tracked[s])
    BY Zenon
  <2>1. TakerFine(mem[s], vol[s], req[s], tracked[s]) /\ swapCast(other(s)) = 1
    BY Zenon, <1>1 DEF T, swapCast, other
  <2>2. mem[s].status = 0 /\ srv.status = 1 /\ audit("taker") \notin net /\ vol'[s].audits = {}
    <3>1. vol[s].audits \subseteq {"msg", "res"}
      BY Zenon, Ranges DEF Vol
    <3> QED BY <1>2, <1>6, <2>1, <3>1 DEF TakerFine
  <2>3. ~mem[s].own /\ vol[s].stage \notin {"swap", "swapped", "refund", "refunded"} /\ ~mem[s].secret
    BY <2>1, <2>2 DEF TakerFine
  <2> QED BY <1>5, <1>6, <2>1, <2>2, <2>3 DEF TakerFine
<1>9. req' \in [Sides -> Pair]
  BY Zenon, <1>2 DEF IInv, TypeOK
<1> QED BY <1>2, <1>4, <1>5, <1>6, <1>7, <1>8, <1>9, StoredStep, ZenonT(30)

\* The requests a client sends are about what it has done.
LEMMA Sent ==
  ASSUME TypeOK, NEW s \in Sides, NEW kind \in {"init", "redeem"}
  PROVE  /\ sendAsync(s, kind) \in [Sides -> Pair]
         /\ \A t \in Sides : t # s => sendAsync(s, kind)[t] = req[t]
         /\ sendAsync(s, kind)[s].init # "none" => req[s].init # "none" \/ kind = "init"
         /\ sendAsync(s, kind)[s].redeem # "none" => req[s].redeem # "none" \/ kind = "redeem"
<1>1. req \in [Sides -> Pair]
  BY Zenon DEF TypeOK
<1>2. CASE kind = "init"
  BY ZenonT(30), <1>1, <1>2 DEF sendAsync, Pair, Answers
<1>3. CASE kind = "redeem"
  BY ZenonT(30), <1>1, <1>3 DEF sendAsync, Pair, Answers
<1> QED BY Zenon, <1>2, <1>3

\* What a wallet is called for is so.
Called(s, d) ==
  /\ d = "swap" => /\ mem[s].status = swapCast(s) - 1 /\ ~vol[s].swapErr
                   /\ ~mem[s].revoked /\ (s = "taker" => clock < 1)
  /\ d = "redeem" => mem[s].status = redeemed(s) - 1 /\ (s = "maker" => clock < chain["taker"].lock)
  /\ d = "refund" => mem[s].own /\ clock >= chain[s].lock

\* The tick of a client.
LEMMA TickSteps ==
  \A s \in Sides : IInv /\ tick(s) => IInv'
\* What a tick calls the wallet for.
<1>Decided.
  ASSUME IInv, NEW s \in Sides
  PROVE  /\ Decision(s) = "swap" => isSwappable(s)
         /\ Decision(s) = "redeem" => isRedeemable(s)
         /\ Decision(s) = "refund" => isRefundable(s)
         /\ Decision(s) = "confirmRedeem" => mem[s].redeem
         /\ Decision(s) = "confirmRefund" => mem[s].refund
  BY <1>Decided, Zenon DEF Decision, shouldConfirmRedemption
<1>CalledFor.
  ASSUME IInv, NEW s \in Sides, NEW d \in {"swap", "redeem", "refund"}, Decision(s) = d
  PROVE  Called(s, d)
  <2> USE <1>CalledFor
  <2>1. clock \in 0..2 /\ chain["taker"].lock \in 0..2
    BY Zenon, TheSides DEF IInv, TypeOK, Contract
  <2>2. CASE d = "swap"
    BY <2>1, <2>2, <1>Decided DEF isSwappable, MaySwap, SwapTooLate, lockTime, swapCast, Called, Sides
  <2>3. CASE d = "redeem"
    BY <2>1, <2>3, <1>Decided DEF isRedeemable, redeemed, Expired, Called, Sides
  <2>4. CASE d = "refund"
    BY Zenon, <2>4, <1>Decided DEF isRefundable, Expired, Called
  <2> QED BY Zenon, <2>2, <2>3, <2>4
\* A client that does no more to its match than go on to another stage.
<1>MakerStaged.
  ASSUME NEW m, NEW v, NEW r, NEW n, NEW w, NEW q, MakerFine(m, v, r), Alike("maker", m, n),
         w.refundErr = v.refundErr, w.audits = v.audits,
         q.init # "none" => m.own, q.redeem # "none" => chain["taker"].step = "redeemed",
         w.stage \in {"swap", "swapped"} => m.status = 0, w.stage = "swapped" => chain["maker"].step # "none",
         w.stage \in {"refund", "refunded"} => m.own, w.stage = "refund" => clock >= chain["maker"].lock,
         w.stage = "refunded" => chain["maker"].step = "refunded",
         w.stage = "redeem" => srv.status >= 2 /\ (chain["taker"].step = "locked" => clock <= 1),
         w.stage = "redeemed" => chain["taker"].step = "redeemed"
  PROVE  MakerFine(n, w, q)
  BY <1>MakerStaged, Zenon DEF MakerFine, Alike
<1>Resent.
  ASSUME IInv, NEW s \in Sides, req' = resendPendingRequests(s)
  PROVE  req' \in [Sides -> Pair] /\ \A t \in Sides : Honest(t, req'[t])
  <2> USE <1>Resent
  <2>1. TypeOK /\ req \in [Sides -> Pair]
    BY Zenon DEF IInv, TypeOK
  <2>2. CASE req' = req
    BY Zenon, <2>1, <2>2, AllHonest
  <2>3. CASE req' = sendAsync(s, "init") /\ mem[s].own
    <3>1. \A t \in Sides : t # s => req'[t] = req[t]
      BY <2>1, <2>3, Sent
    <3>2. req' \in [Sides -> Pair] /\ (req'[s].redeem # "none" => req[s].redeem # "none")
      BY Zenon, <2>1, <2>3, Sent
    <3> QED BY Zenon, <2>3, <3>1, <3>2, AllHonest DEF Honest
  <2>4. CASE req' = sendAsync(s, "redeem") /\ mem[s].redeem
    <3>1. \A t \in Sides : t # s => req'[t] = req[t]
      BY <2>1, <2>4, Sent
    <3>2. req' \in [Sides -> Pair] /\ (req'[s].init # "none" => req[s].init # "none")
      BY Zenon, <2>1, <2>4, Sent
    <3> QED BY Zenon, <2>4, <3>1, <3>2, AllHonest DEF Honest
  <2> QED BY Zenon, <2>2, <2>3, <2>4 DEF resendPendingRequests
\* What a client sends again is about what it has done.
<1>ResentOthers.
  ASSUME IInv, NEW s \in Sides, req' = resendPendingRequests(s)
  PROVE  \A o \in Sides : o # s => req'[o] = req[o]
  <2> USE <1>ResentOthers
  <2>1. \A kind \in {"init", "redeem"}, o \in Sides : o # s => sendAsync(s, kind)[o] = req[o]
    BY Zenon, Sent DEF IInv
  <2>2. req' = req \/ \E kind \in {"init", "redeem"} : req' = sendAsync(s, kind)
    BY Zenon DEF resendPendingRequests
  <2> QED BY Zenon, <2>1, <2>2
<1>CallsStep. ASSUME IInv, NEW s \in Sides, tickCalls(s) PROVE IInv'
  <2> USE <1>CallsStep
  <2>1. PICK d \in {"swap", "redeem", "refund"} :
          /\ Decision(s) = d /\ vol[s].stage = "idle" /\ tracked[s] /\ req' = resendPendingRequests(s)
          /\ vol' = [vol EXCEPT ![s].stage = d] /\ mem' = [mem EXCEPT ![s] = Flagged(s)]
          /\ UNCHANGED <<dbm, tracked, link, net, srv, chain, clock>>
    BY ZenonT(30) DEF tickCalls, Checked
  <2>2. TypeOK /\ SameInv /\ d \in Stages
    BY Zenon DEF IInv, Stages
  <2>3. Called(s, d)
    BY Zenon, <2>1, <1>CalledFor
  <2>4. Flagged(s) \in Match /\ Alike(s, mem[s], Flagged(s)) /\ (d = "swap" => ~Flagged(s).revoked)
    <3>1. d = "swap" => isSwappable(s)
      BY Zenon, <2>1, <1>Decided
    <3>2. d = "swap" => ~shouldRevoke(s) /\ ~mem[s].revoked
      BY <3>1 DEF isSwappable, MaySwap, shouldRevoke, NewlyMatched, TakerSwapCast
    <3> QED BY <2>2, <3>2, FlaggedMatch, ZenonT(30)
  <2>5. /\ mem' \in [Sides -> Match] /\ mem'[s] = Flagged(s) /\ \A o \in Sides : o # s => mem'[o] = mem[o]
        /\ Alike(s, mem'[s], dbm'[s])
    BY Zenon, <2>1, <2>2, <2>4 DEF TypeOK, SameInv, Alike
  <2>6. /\ vol' \in [Sides -> Vol] /\ \A o \in Sides : o # s => vol'[o] = vol[o]
        /\ vol'[s].stage = d /\ vol'[s].swapErr = vol[s].swapErr /\ vol'[s].refundErr = vol[s].refundErr
        /\ vol'[s].audits = vol[s].audits
    BY <2>1, <2>2, Staged
  <2>7. /\ req' \in [Sides -> Pair] /\ \A t \in Sides : Honest(t, req'[t])
        /\ \A o \in Sides : o # s => req'[o] = req[o]
    BY Zenon, <2>1, <1>Resent, <1>ResentOthers
  <2>8. TypeOK' /\ Others(s) /\ \A o \in Sides : ~link'[o] => audit(o) \notin net'
    BY Zenon, <2>1, <2>2, <2>5, <2>6, <2>7, StillLinked DEF TypeOK, Others
  <2>9. CASE s = "maker"
    <3>1. MakerFine(mem[s], vol[s], req[s])
      BY Zenon, <2>9, MakerIsFine DEF MakerPart, M
    <3>2. d = "redeem" => srv.status >= 2 /\ (chain["taker"].step = "locked" => clock <= 1)
      <4>1. d = "redeem" => mem[s].status = 2 /\ clock < chain["taker"].lock
        BY <2>3, <2>9 DEF Called, redeemed
      <4>2. chain["taker"].step # "none" => chain["taker"].lock = 1
        BY Zenon DEF IInv, ChainInv
      <4>3. clock \in 0..2
        BY Zenon, <2>2 DEF TypeOK
      <4> QED BY <3>1, <4>1, <4>2, <4>3 DEF MakerFine
    <3>3. MakerFine(mem'[s], vol'[s], req'[s])
      <4>1. Alike("maker", mem[s], mem'[s])
        BY Zenon, <2>4, <2>5, <2>9
      <4>2. (d = "swap" => mem[s].status = 0) /\ (d = "refund" => mem[s].own /\ clock >= chain["maker"].lock)
        BY <2>3, <2>9 DEF Called, swapCast
      <4>3. (req'[s].init # "none" => mem[s].own) /\ (req'[s].redeem # "none" => chain["taker"].step = "redeemed")
        BY Zenon, <2>5, <2>7, <2>9, TheSides DEF Honest
      <4> QED BY <2>6, <3>1, <3>2, <4>1, <4>2, <4>3, <1>MakerStaged
    <3> QED BY Zenon, <2>1, <2>5, <2>8, <2>9, <3>3, ClientActs
  <2>10. CASE s = "taker"
    <3>1. TakerFine(mem[s], vol[s], req[s], tracked[s])
      BY Zenon, <2>10, TakerIsFine DEF TakerPart, T
    <3>2. TakerFine(mem'[s], vol'[s], req'[s], tracked'[s])
      <4>1. Alike("taker", mem[s], mem'[s]) /\ tracked'[s] = tracked[s] /\ tracked[s]
        BY <2>1, <2>4, <2>5, <2>10, Zenon
      <4>2. /\ d = "swap" => mem[s].status = 1 /\ ~vol[s].swapErr /\ ~mem'[s].revoked /\ clock <= 1
            /\ d = "redeem" => mem[s].status = 3
            /\ d = "refund" => mem[s].own /\ clock >= chain["taker"].lock
        <5>1. clock \in 0..2
          BY Zenon, <2>2 DEF TypeOK
        <5> QED BY <2>3, <2>4, <2>5, <2>10, <5>1 DEF Called, swapCast, redeemed
      <4>3. d = "redeem" => chain["taker"].step = "redeemed"
        BY Zenon, <3>1, <4>2 DEF TakerFine
      <4>4. (req'[s].init # "none" => mem[s].own) /\ (req'[s].redeem # "none" => chain["maker"].step = "redeemed")
        BY Zenon, <2>5, <2>7, <2>10, TheSides DEF Honest
      <4>5. /\ vol'[s].stage \notin {"swapped", "redeemed", "refunded"}
            /\ vol'[s].stage = "swap" => d = "swap"
            /\ vol'[s].stage = "redeem" => d = "redeem"
            /\ vol'[s].stage = "refund" => d = "refund"
        BY Zenon, <2>6
      <4>6. vol'[s].swapErr = vol[s].swapErr /\ vol'[s].refundErr = vol[s].refundErr /\ vol'[s].audits = vol[s].audits
        BY Zenon, <2>6
      <4> QED BY <3>1, <4>1, <4>2, <4>3, <4>4, <4>5, <4>6, SMTT(30) DEF TakerFine, Alike
    <3> QED BY Zenon, <2>1, <2>5, <2>8, <2>10, <3>2, ClientActs
  <2> QED BY Zenon, <2>9, <2>10 DEF Sides
\* A tick that flags the match and does no more.
<1>FlagStep.
  ASSUME IInv, NEW s \in Sides, vol[s].stage = "idle", mem' = [mem EXCEPT ![s] = Flagged(s)], req' = resendPendingRequests(s),
         vol' \in [Sides -> Vol], KeepsStage, \A t \in Sides : vol'[t].audits = vol[t].audits,
         UNCHANGED <<dbm, tracked, link, net, srv, chain, clock>>
  PROVE  IInv'
  <2> USE <1>FlagStep
  <2>1. Flagged(s) \in Match /\ Alike(s, mem[s], Flagged(s))
    <3>1. mem[s] \in Match /\ (mem[s].revoked \/ shouldRevoke(s)) \in BOOLEAN
      BY Zenon DEF IInv, TypeOK
    <3> QED BY <3>1, Revoked, Zenon DEF Flagged
  <2>2. /\ mem' \in [Sides -> Match] /\ SameInv'
        /\ mem'[s] = Flagged(s) /\ \A t \in Sides : t # s => mem'[t] = mem[t]
    BY <2>1, Updated, ZenonT(30) DEF IInv
  <2>3. KeepsMatch
    BY Zenon, <2>1, <2>2, AlikeKept DEF IInv, TypeOK
  <2>4. req' \in [Sides -> Pair] /\ \A t \in Sides : Honest(t, req'[t])
    BY Zenon, <1>Resent
  <2>5. TypeOK'
    BY Zenon, <2>2, <2>4 DEF IInv, TypeOK
  <2>6. TakerLeaves
    BY Zenon, <2>2, StillLeaves, TheSides DEF T
  <2>7. AuditsTold /\ \A t \in Sides : ~link'[t] => audit(t) \notin net'
    BY Zenon, StillTold, StillLinked
  <2>8. KeepsChain
    BY Zenon DEF KeepsChain
  <2> QED BY Zenon, <2>2, <2>3, <2>4, <2>5, <2>6, <2>7, <2>8, QuietStep
<1>ConfirmsStep. ASSUME IInv, NEW s \in Sides, tickConfirms(s) PROVE IInv'
  <2> USE <1>ConfirmsStep
  <2>1. PICK d \in {"confirmRedeem", "confirmRefund"} :
          /\ Decision(s) = d /\ vol[s].stage = "idle" /\ req' = resendPendingRequests(s)
          /\ \/ /\ mem' = [mem EXCEPT ![s] = [Flagged(s) EXCEPT !.status = 5]]
                /\ dbm' = [dbm EXCEPT ![s] = [Flagged(s) EXCEPT !.status = 5]]
             \/ mem' = [mem EXCEPT ![s] = Flagged(s)] /\ dbm' = dbm
          /\ UNCHANGED <<vol, tracked, link, net, srv, chain, clock>>
    BY ZenonT(30) DEF tickConfirms, Checked
  <2>2. TypeOK /\ SameInv
    BY Zenon DEF IInv
  <2>3. CASE mem' = [mem EXCEPT ![s] = Flagged(s)] /\ dbm' = dbm
    <3>1. vol' \in [Sides -> Vol] /\ KeepsStage /\ \A t \in Sides : vol'[t].audits = vol[t].audits
      BY Zenon, <2>1, <2>2 DEF TypeOK, KeepsStage
    <3> QED BY <2>1, <2>3, <3>1, <1>FlagStep, ZenonT(30)
  <2>4. CASE /\ mem' = [mem EXCEPT ![s] = [Flagged(s) EXCEPT !.status = 5]]
             /\ dbm' = [dbm EXCEPT ![s] = [Flagged(s) EXCEPT !.status = 5]]
    <3> DEFINE n == [Flagged(s) EXCEPT !.status = 5]
    <3>1. /\ n \in Match /\ n.status = 5 /\ n.own = mem[s].own /\ n.redeem = mem[s].redeem /\ n.refund = mem[s].refund
          /\ s = "taker" => n.secret = mem[s].secret
      <4>1. /\ Flagged(s) \in Match /\ Flagged(s).own = mem[s].own /\ Flagged(s).redeem = mem[s].redeem
            /\ Flagged(s).refund = mem[s].refund /\ (s = "taker" => Flagged(s).secret = mem[s].secret)
        BY Zenon, <2>2, FlaggedMatch DEF Alike
      <4>2. 5 \in 0..5
        OBVIOUS
      <4> QED BY <4>1, <4>2, StatusSet, ZenonT(30)
    <3> HIDE DEF n
    <3>2. /\ mem' \in [Sides -> Match] /\ dbm' \in [Sides -> Match] /\ mem'[s] = n /\ dbm'[s] = n
          /\ \A o \in Sides : o # s => mem'[o] = mem[o] /\ dbm'[o] = dbm[o]
      BY Zenon, <2>2, <2>4, <3>1 DEF TypeOK, n
    <3>3. /\ req' \in [Sides -> Pair] /\ \A t \in Sides : Honest(t, req'[t])
          /\ \A o \in Sides : o # s => req'[o] = req[o]
      BY Zenon, <2>1, <1>Resent, <1>ResentOthers
    <3>4. TypeOK' /\ Others(s) /\ (\A o \in Sides : ~link'[o] => audit(o) \notin net') /\ Alike(s, mem'[s], dbm'[s])
      BY Zenon, <2>1, <2>2, <3>2, <3>3, StillLinked DEF TypeOK, Others, Alike
    <3>5. mem[s].redeem \/ mem[s].refund
      BY Zenon, <2>1, <1>Decided
    <3>6. /\ mem'[s].status = 5 /\ mem'[s].own = mem[s].own /\ mem'[s].redeem = mem[s].redeem
          /\ mem'[s].refund = mem[s].refund /\ (s = "taker" => mem'[s].secret = mem[s].secret)
          /\ vol'[s] = vol[s] /\ tracked'[s] = tracked[s] /\ vol[s].stage = "idle"
      BY Zenon, <2>1, <3>1, <3>2
    <3>7. CASE s = "maker"
      <4>1. MakerFine(mem[s], vol[s], req[s])
        BY Zenon, <3>7, MakerIsFine DEF MakerPart, M
      <4>2. (req'[s].init # "none" => mem[s].own) /\ (req'[s].redeem # "none" => chain["taker"].step = "redeemed")
        BY Zenon, <3>3, <3>7, TheSides DEF Honest
      <4>3. mem[s].own /\ (chain["taker"].step = "redeemed" \/ Spent("maker"))
        <5>1. chain["taker"].step = "redeemed" => mem[s].own
          <6>1. srv.status \in 0..4 /\ (chain["taker"].step = "redeemed" => srv.status >= 2)
            BY ZenonT(30), <2>2 DEF IInv, TypeOK, RelayInv
          <6> QED BY <4>1, <6>1 DEF MakerFine
        <5> QED BY Zenon, <3>5, <4>1, <5>1 DEF MakerFine, Spent
      <4>4. MakerFine(mem'[s], vol'[s], req'[s])
        BY <3>6, <4>1, <4>2, <4>3 DEF MakerFine
      <4> QED BY Zenon, <2>1, <3>4, <3>7, <4>4, ClientActs
    <3>8. CASE s = "taker"
      <4>1. TakerFine(mem[s], vol[s], req[s], tracked[s])
        BY Zenon, <3>8, TakerIsFine DEF TakerPart, T
      <4>2. (req'[s].init # "none" => mem[s].own) /\ (req'[s].redeem # "none" => chain["maker"].step = "redeemed")
        BY Zenon, <3>3, <3>8, TheSides DEF Honest
      <4>3. mem[s].own /\ ~Owed
        <5>1. chain["maker"].step = "redeemed" => Spent("taker")
          BY Zenon DEF IInv, ChainInv, Spent
        <5> QED BY Zenon, <3>5, <4>1, <5>1 DEF TakerFine, Spent, Owed
      <4>4. TakerFine(mem'[s], vol'[s], req'[s], tracked'[s])
        BY <3>6, <3>8, <4>1, <4>2, <4>3 DEF TakerFine
      <4> QED BY Zenon, <2>1, <3>4, <3>8, <4>4, ClientActs
    <3> QED BY Zenon, <3>7, <3>8 DEF Sides
  <2> QED BY Zenon, <2>1, <2>3, <2>4
<1>RecoversStep. ASSUME IInv, NEW s \in Sides, tickRecovers(s) PROVE IInv'
  <2> USE <1>RecoversStep
  <2> DEFINE m == [mem[s] EXCEPT !.status = swapCast(s), !.own = TRUE]
             n == [m EXCEPT !.revoked = TRUE]
  <2>1. /\ tracked[s] /\ vol[s].stage = "idle" /\ Initialized(s)
        /\ dbm' = [dbm EXCEPT ![s] = m] /\ mem' = [mem EXCEPT ![s] = n] /\ req' = resendPendingRequests(s)
        /\ UNCHANGED <<vol, tracked, link, net, srv, chain, clock>>
    BY ZenonT(30) DEF tickRecovers
  <2>2. /\ m \in Match /\ m.own /\ m.status = swapCast(s) /\ m.redeem = mem[s].redeem /\ m.refund = mem[s].refund
        /\ m.secret = mem[s].secret
    <3>1. mem[s] \in Match /\ swapCast(s) \in 0..5
      BY Ranges DEF swapCast
    <3> QED BY <3>1, RecoverSet, ZenonT(30)
  <2> HIDE DEF m
  <2>3. n \in Match /\ Alike(s, m, n)
    BY <2>2, Revoked, Zenon
  <2> HIDE DEF n
  <2>4. /\ mem' \in [Sides -> Match] /\ dbm' \in [Sides -> Match] /\ mem'[s] = n /\ dbm'[s] = m
        /\ \A o \in Sides : o # s => mem'[o] = mem[o] /\ dbm'[o] = dbm[o]
    BY <2>1, <2>2, <2>3, ZenonT(30) DEF IInv, TypeOK
  <2>5. /\ req' \in [Sides -> Pair] /\ \A t \in Sides : Honest(t, req'[t])
        /\ \A o \in Sides : o # s => req'[o] = req[o]
    BY Zenon, <2>1, <1>Resent, <1>ResentOthers
  <2>6. Others(s) /\ Alike(s, mem'[s], dbm'[s]) /\ \A o \in Sides : ~link'[o] => audit(o) \notin net'
    BY Zenon, <2>1, <2>3, <2>4, <2>5, StillLinked DEF Others, Alike
  <2>7. TypeOK'
    BY Zenon, <2>1, <2>4, <2>5 DEF IInv, TypeOK
  <2>8. /\ n.own /\ n.status = swapCast(s) /\ n.redeem = mem[s].redeem /\ n.refund = mem[s].refund
        /\ s = "taker" => n.secret = mem[s].secret
    BY Zenon, <2>2, <2>3 DEF Alike
  <2>9. ~vol[s].swapErr /\ chain[s].step # "none" /\ mem[s].status = swapCast(s) - 1
    <3>1. ~vol[s].swapErr /\ chain[s].step # "none"
      BY Zenon, <2>1 DEF Initialized, MaySwap
    <3>2. mem[s].status = IF s = "maker" THEN 0 ELSE 1
      BY Zenon, <2>1 DEF Initialized, MaySwap
    <3>3. mem[s].status = swapCast(s) - 1
      BY <3>2 DEF swapCast
    <3> QED BY Zenon, <3>1, <3>3
  <2>10. s = "maker" => MakerFine(n, vol[s], req'[s])
    <3> SUFFICES ASSUME s = "maker" PROVE MakerFine(n, vol[s], req'[s])
      BY Zenon
    <3>1. MakerFine(mem[s], vol[s], req[s]) /\ swapCast(s) = 1
      BY Zenon, MakerIsFine DEF MakerPart, M, swapCast
    <3>2. (req'[s].init # "none" => mem[s].own) /\ (req'[s].redeem # "none" => chain["taker"].step = "redeemed")
      BY Zenon, <2>5, TheSides DEF Honest
    <3>3. vol[s].stage = "idle" /\ mem[s].status = 0
      BY <2>1, <2>9, <3>1
    <3> QED BY <2>8, <2>9, <3>1, <3>2, <3>3 DEF MakerFine
  <2>11. s = "taker" => TakerFine(n, vol[s], req'[s], tracked[s])
    <3> SUFFICES ASSUME s = "taker" PROVE TakerFine(n, vol[s], req'[s], tracked[s])
      BY Zenon
    <3>1. TakerFine(mem[s], vol[s], req[s], tracked[s]) /\ swapCast(s) = 2
      BY Zenon, TakerIsFine DEF TakerPart, T, swapCast
    <3>2. (req'[s].init # "none" => mem[s].own) /\ (req'[s].redeem # "none" => chain["maker"].step = "redeemed")
      BY Zenon, <2>5, TheSides DEF Honest
    <3>3. tracked[s] /\ vol[s].stage = "idle" /\ mem[s].status = 1
      BY <2>1, <2>9, <3>1
    <3> QED BY <2>8, <2>9, <3>1, <3>2, <3>3 DEF TakerFine
  <2> QED BY <2>1, <2>4, <2>6, <2>7, <2>10, <2>11, ClientActs, ZenonT(30)
<1>SearchesStep. ASSUME IInv, NEW s \in Sides, tickSearches(s) PROVE IInv'
  <2> USE <1>SearchesStep
  <2>1. /\ vol[s].stage = "idle" /\ mem' = [mem EXCEPT ![s] = Flagged(s)] /\ req' = resendPendingRequests(s)
        /\ UNCHANGED <<dbm, tracked, link, net, srv, chain, clock>>
    BY Zenon DEF tickSearches, Checked
  <2>2. PICK lost \in BOOLEAN : vol' = [vol EXCEPT ![s].search = TRUE, ![s].lost = lost]
    BY ZenonT(30) DEF tickSearches
  <2>3. vol \in [Sides -> Vol]
    BY Zenon DEF IInv, TypeOK
  <2>4. vol' \in [Sides -> Vol] /\ KeepsStage /\ \A t \in Sides : vol'[t].audits = vol[t].audits
    BY <2>2, <2>3, ZenonT(30) DEF Vol, KeepsStage
  <2> QED BY <2>1, <2>4, <1>FlagStep, ZenonT(30)
<1>RestsStep. ASSUME IInv, NEW s \in Sides, tickRests(s) PROVE IInv'
  <2> USE <1>RestsStep
  <2>1. /\ vol[s].stage = "idle" /\ mem' = [mem EXCEPT ![s] = Flagged(s)] /\ req' = resendPendingRequests(s)
        /\ UNCHANGED <<dbm, vol, tracked, link, net, srv, chain, clock>>
    BY Zenon DEF tickRests, Checked
  <2>2. vol' \in [Sides -> Vol] /\ KeepsStage /\ \A t \in Sides : vol'[t].audits = vol[t].audits
    BY Zenon, <2>1 DEF IInv, TypeOK, KeepsStage
  <2> QED BY <2>1, <2>2, <1>FlagStep, ZenonT(30)
<1> QED BY <1>CallsStep, <1>SearchesStep, <1>ConfirmsStep, <1>RestsStep, <1>RecoversStep, Zenon DEF tick

\* The steps that record what a client or its counterparty has done.
LEMMA RecordSteps ==
  IInv =>
    /\ \A s \in Sides : SwapRecorded(s) \/ RedeemRecorded(s) \/ RefundRecorded(s) => IInv'
    /\ SearchEnds \/ handleRedemption => IInv'
\* The requests of a client, with one more sent.
<1>SentBy.
  ASSUME IInv, NEW s \in Sides, NEW kind \in {"init", "redeem"}, req' = sendAsync(s, kind)
  PROVE  /\ req' \in [Sides -> Pair] /\ \A o \in Sides : o # s => req'[o] = req[o]
         /\ req'[s].init # "none" => req[s].init # "none" \/ kind = "init"
         /\ req'[s].redeem # "none" => req[s].redeem # "none" \/ kind = "redeem"
  BY <1>SentBy, Sent, Zenon DEF IInv
<1>SwapRecordedStep. ASSUME IInv, NEW s \in Sides, SwapRecorded(s) PROVE IInv'
  <2> USE <1>SwapRecordedStep
  <2> DEFINE n == [mem[s] EXCEPT !.own = TRUE, !.status = swapCast(s)]
  <2>1. /\ vol[s].stage = "swapped" /\ mem' = [mem EXCEPT ![s] = n] /\ dbm' = [dbm EXCEPT ![s] = n]
        /\ vol' = [vol EXCEPT ![s].stage = "idle"] /\ req' = sendAsync(s, "init")
        /\ UNCHANGED <<tracked, link, net, srv, chain, clock>>
    BY ZenonT(30) DEF SwapRecorded
  <2>2. /\ n \in Match /\ n.own /\ n.status = swapCast(s) /\ n.redeem = mem[s].redeem /\ n.refund = mem[s].refund
        /\ n.secret = mem[s].secret /\ n.revoked = mem[s].revoked
    <3>1. mem[s] \in Match /\ swapCast(s) \in 0..5
      BY Ranges DEF swapCast
    <3> QED BY <3>1, SwapSet, ZenonT(30)
  <2> HIDE DEF n
  <2>3. /\ vol' \in [Sides -> Vol] /\ \A o \in Sides : o # s => vol'[o] = vol[o]
        /\ vol'[s].stage = "idle" /\ vol'[s].swapErr = vol[s].swapErr /\ vol'[s].refundErr = vol[s].refundErr
        /\ vol'[s].audits = vol[s].audits
    BY <2>1, Staged, ZenonT(60) DEF IInv, Stages
  <2>4. /\ req' \in [Sides -> Pair] /\ \A o \in Sides : o # s => req'[o] = req[o]
        /\ req'[s].redeem # "none" => req[s].redeem # "none"
    BY Zenon, <2>1, <1>SentBy
  <2>5. s = "maker" => MakerFine(n, vol'[s], req'[s])
    <3> SUFFICES ASSUME s = "maker" PROVE MakerFine(n, vol'[s], req'[s])
      BY Zenon
    <3>1. MakerFine(mem[s], vol[s], req[s]) /\ swapCast(s) = 1
      BY Zenon, MakerIsFine DEF MakerPart, M, swapCast
    <3> QED BY <2>1, <2>2, <2>3, <2>4, <3>1 DEF MakerFine
  <2>6. s = "taker" => TakerFine(n, vol'[s], req'[s], tracked[s])
    <3> SUFFICES ASSUME s = "taker" PROVE TakerFine(n, vol'[s], req'[s], tracked[s])
      BY Zenon
    <3>1. TakerFine(mem[s], vol[s], req[s], tracked[s]) /\ swapCast(s) = 2
      BY Zenon, TakerIsFine DEF TakerPart, T, swapCast
    <3>2. vol[s].stage = "swapped" /\ srv.status \in 0..4
      BY Zenon, <2>1, Ranges
    <3> QED BY <2>2, <2>3, <2>4, <3>1, <3>2 DEF TakerFine
  <2> QED BY <2>1, <2>2, <2>3, <2>4, <2>5, <2>6, StoredStep, ZenonT(30)
<1>RedeemRecordedStep. ASSUME IInv, NEW s \in Sides, RedeemRecorded(s) PROVE IInv'
  <2> USE <1>RedeemRecordedStep
  <2> DEFINE n == [mem[s] EXCEPT !.redeem = TRUE, !.status = redeemed(s)]
  <2>1. /\ vol[s].stage = "redeemed" /\ mem' = [mem EXCEPT ![s] = n] /\ dbm' = [dbm EXCEPT ![s] = n]
        /\ vol' = [vol EXCEPT ![s].stage = "idle"] /\ (req' = req \/ req' = sendAsync(s, "redeem"))
        /\ UNCHANGED <<tracked, link, net, srv, chain, clock>>
    BY ZenonT(30) DEF RedeemRecorded
  <2>2. /\ n \in Match /\ n.own = mem[s].own /\ n.status = redeemed(s) /\ n.redeem /\ n.refund = mem[s].refund
        /\ n.secret = mem[s].secret /\ n.revoked = mem[s].revoked
    <3>1. mem[s] \in Match /\ redeemed(s) \in 0..5
      BY Ranges DEF redeemed
    <3> QED BY <3>1, RedeemSet, ZenonT(30)
  <2> HIDE DEF n
  <2>3. /\ vol' \in [Sides -> Vol] /\ \A o \in Sides : o # s => vol'[o] = vol[o]
        /\ vol'[s].stage = "idle" /\ vol'[s].swapErr = vol[s].swapErr /\ vol'[s].refundErr = vol[s].refundErr
        /\ vol'[s].audits = vol[s].audits
    BY <2>1, Staged, ZenonT(60) DEF IInv, Stages
  <2>4. /\ req' \in [Sides -> Pair] /\ \A o \in Sides : o # s => req'[o] = req[o]
        /\ req'[s].init # "none" => req[s].init # "none"
    <3>1. req \in [Sides -> Pair]
      BY Zenon DEF IInv, TypeOK
    <3> QED BY Zenon, <2>1, <3>1, <1>SentBy
  <2>5. /\ chain["taker"].step = "redeemed" => srv.status >= 2
        /\ chain["maker"].step = "redeemed" => chain["taker"].step = "redeemed"
        /\ srv.status \in 0..4
    BY Zenon, Ranges DEF IInv, RelayInv, ChainInv
  <2>6. s = "maker" => MakerFine(n, vol'[s], req'[s])
    <3> SUFFICES ASSUME s = "maker" PROVE MakerFine(n, vol'[s], req'[s])
      BY Zenon
    <3>1. MakerFine(mem[s], vol[s], req[s]) /\ redeemed(s) = 3
      BY Zenon, MakerIsFine DEF MakerPart, M, redeemed
    <3>2. chain["taker"].step = "redeemed" /\ mem[s].own
      BY <2>1, <2>5, <3>1 DEF MakerFine
    <3> QED BY <2>2, <2>3, <2>4, <2>5, <3>1, <3>2 DEF MakerFine
  <2>7. s = "taker" => TakerFine(n, vol'[s], req'[s], tracked[s])
    <3> SUFFICES ASSUME s = "taker" PROVE TakerFine(n, vol'[s], req'[s], tracked[s])
      BY Zenon
    <3>1. TakerFine(mem[s], vol[s], req[s], tracked[s]) /\ redeemed(s) = 4
      BY Zenon, TakerIsFine DEF TakerPart, T, redeemed
    <3>2. chain["maker"].step = "redeemed" /\ chain["taker"].step = "redeemed" /\ mem[s].own /\ ~Owed
      BY Zenon, <2>1, <2>5, <3>1 DEF TakerFine, Owed
    <3> QED BY <2>2, <2>3, <2>4, <2>5, <3>1, <3>2 DEF TakerFine
  <2> QED BY <2>1, <2>2, <2>3, <2>4, <2>6, <2>7, StoredStep, ZenonT(30)
<1>RefundRecordedStep. ASSUME IInv, NEW s \in Sides, RefundRecorded(s) PROVE IInv'
  <2> USE <1>RefundRecordedStep
  <2> DEFINE n == [mem[s] EXCEPT !.refund = TRUE, !.revoked = TRUE]
  <2>1. /\ vol[s].stage = "refunded" /\ mem' = [mem EXCEPT ![s] = n] /\ dbm' = [dbm EXCEPT ![s] = n]
        /\ vol' = [vol EXCEPT ![s].stage = "idle", ![s].search = FALSE]
        /\ UNCHANGED <<tracked, link, req, net, srv, chain, clock>>
    BY ZenonT(30) DEF RefundRecorded
  <2>2. /\ n \in Match /\ n.own = mem[s].own /\ n.status = mem[s].status /\ n.redeem = mem[s].redeem /\ n.refund
        /\ n.secret = mem[s].secret
    BY Ranges, RefundSet, ZenonT(30)
  <2> HIDE DEF n
  <2>3. /\ vol' \in [Sides -> Vol] /\ \A o \in Sides : o # s => vol'[o] = vol[o]
        /\ vol'[s].stage = "idle" /\ vol'[s].swapErr = vol[s].swapErr /\ vol'[s].refundErr = vol[s].refundErr
        /\ vol'[s].audits = vol[s].audits
    <3>1. vol \in [Sides -> Vol]
      BY Zenon DEF IInv, TypeOK
    <3> QED BY <2>1, <3>1, ZenonT(30) DEF Vol, Stages
  <2>4. req' \in [Sides -> Pair] /\ req' = req
    BY Zenon, <2>1 DEF IInv, TypeOK
  <2>5. s = "maker" => MakerFine(n, vol'[s], req'[s])
    <3> SUFFICES ASSUME s = "maker" PROVE MakerFine(n, vol'[s], req'[s])
      BY Zenon
    <3>1. MakerFine(mem[s], vol[s], req[s])
      BY Zenon, MakerIsFine DEF MakerPart, M
    <3> QED BY Zenon, <2>1, <2>2, <2>3, <2>4, <3>1 DEF MakerFine
  <2>6. s = "taker" => TakerFine(n, vol'[s], req'[s], tracked[s])
    <3> SUFFICES ASSUME s = "taker" PROVE TakerFine(n, vol'[s], req'[s], tracked[s])
      BY Zenon
    <3>1. TakerFine(mem[s], vol[s], req[s], tracked[s])
      BY Zenon, TakerIsFine DEF TakerPart, T
    <3> QED BY <2>1, <2>2, <2>3, <2>4, <3>1 DEF TakerFine
  <2> QED BY <2>1, <2>2, <2>3, <2>4, <2>5, <2>6, StoredStep, ZenonT(30)
\* The taker's match with the maker's secret.
<1>SecretFine.
  ASSUME IInv, NEW m, TakerFine(T, vol["taker"], req["taker"], tracked["taker"]), T.own, chain["taker"].step = "redeemed",
         m.status = 3, m.own = T.own, m.secret, m.redeem = T.redeem, m.refund = T.refund,
         NEW v, v.stage = vol["taker"].stage, v.swapErr = vol["taker"].swapErr, v.refundErr = vol["taker"].refundErr,
         v.audits = vol["taker"].audits
  PROVE  TakerFine(m, v, req["taker"], tracked["taker"])
  <2> USE <1>SecretFine
  <2>1. T.status \in 0..5
    BY Zenon, Ranges, TheSides DEF T
  <2>2. T.status >= 2 /\ T.status # 0 /\ T.status # 1
    BY <2>1 DEF TakerFine
  <2>3. vol["taker"].stage \notin {"swap", "swapped"} /\ audit("taker") \notin net /\ vol["taker"].audits = {}
    BY Zenon, <2>2 DEF TakerFine
  <2> QED BY <2>2, <2>3 DEF TakerFine
<1>SearchEndsStep. ASSUME IInv, SearchEnds PROVE IInv'
  <2> USE <1>SearchEndsStep
  <2> DEFINE n == [mem["taker"] EXCEPT !.status = 3, !.secret = TRUE, !.revoked = TRUE]
  <2>1. /\ vol' = [vol EXCEPT !["taker"].search = FALSE] /\ UNCHANGED <<tracked, link, req, net, srv, chain, clock>>
        /\ \/ /\ chain["taker"].step = "redeemed" /\ mem["taker"].status = 2
              /\ mem' = [mem EXCEPT !["taker"] = n] /\ dbm' = [dbm EXCEPT !["taker"] = n]
           \/ UNCHANGED <<mem, dbm>>
    BY ZenonT(30) DEF SearchEnds
  <2>2. vol \in [Sides -> Vol] /\ "taker" \in Sides
    BY Zenon, TheSides DEF IInv, TypeOK
  <2>3. /\ vol' \in [Sides -> Vol] /\ \A o \in Sides : o # "taker" => vol'[o] = vol[o]
        /\ \A o \in Sides : /\ vol'[o].stage = vol[o].stage /\ vol'[o].swapErr = vol[o].swapErr
                            /\ vol'[o].refundErr = vol[o].refundErr /\ vol'[o].audits = vol[o].audits
    BY <2>1, <2>2, ZenonT(30) DEF Vol
  <2>4. CASE UNCHANGED <<mem, dbm>>
    <3>1. TypeOK' /\ SameInv' /\ KeepsMatch
      BY Zenon, <2>1, <2>3, <2>4 DEF IInv, TypeOK, SameInv, KeepsMatch, Alike
    <3>2. KeepsStage /\ KeepsChain
      BY Zenon, <2>1, <2>3 DEF KeepsStage, KeepsChain
    <3>3. TakerLeaves
      BY Zenon, <2>1, <2>4, StillLeaves DEF T
    <3>4. AuditsTold /\ \A o \in Sides : ~link'[o] => audit(o) \notin net'
      BY Zenon, <2>1, <2>3, StillTold, StillLinked
    <3>5. \A o \in Sides : Honest(o, req'[o])
      BY Zenon, <2>1, AllHonest
    <3> QED BY Zenon, <2>1, <3>1, <3>2, <3>3, <3>4, <3>5, QuietStep
  <2>5. CASE /\ chain["taker"].step = "redeemed" /\ mem["taker"].status = 2
             /\ mem' = [mem EXCEPT !["taker"] = n] /\ dbm' = [dbm EXCEPT !["taker"] = n]
    <3>1. /\ n \in Match /\ n.own = T.own /\ n.status = 3 /\ n.redeem = T.redeem /\ n.refund = T.refund /\ n.secret
      BY Ranges, SecretSet, TheSides, ZenonT(30) DEF T
    <3> HIDE DEF n
    <3>2. TakerFine(T, vol["taker"], req["taker"], tracked["taker"]) /\ T.own
      BY <2>5, TakerIsFine DEF TakerPart, TakerFine, T
    <3>3. TakerFine(n, vol'["taker"], req["taker"], tracked["taker"])
      BY <2>2, <2>3, <2>5, <3>1, <3>2, <1>SecretFine, ZenonT(30)
    <3>4. req' \in [Sides -> Pair]
      BY Zenon, <2>1 DEF IInv, TypeOK
    <3> QED BY <2>1, <2>2, <2>3, <2>5, <3>1, <3>3, <3>4, StoredStep, ZenonT(30)
  <2> QED BY Zenon, <2>1, <2>4, <2>5
<1>HandleRedemptionStep. ASSUME IInv, handleRedemption PROVE IInv'
  <2> USE <1>HandleRedemptionStep
  <2> DEFINE n == withSecret([mem["taker"] EXCEPT !.redemptionSig = TRUE])
  <2>1. /\ redemption \in net /\ net' = net \ {redemption} /\ UNCHANGED <<vol, tracked, link, srv, chain, clock>>
        /\ \/ /\ mem["taker"].status >= 2 /\ req' = req
              /\ mem' = [mem EXCEPT !["taker"] = n] /\ dbm' = [dbm EXCEPT !["taker"] = n]
           \/ UNCHANGED <<mem, dbm>> /\ (req' = req \/ (dbm["taker"].redeem /\ req' = sendAsync("taker", "redeem")))
    BY ZenonT(30) DEF handleRedemption, redemption
  <2>2. net' \subseteq net /\ link' \in [Sides -> BOOLEAN] /\ \A o \in Sides : ~link'[o] => audit(o) \notin net'
    BY Zenon, <2>1, StillLinked DEF IInv, TypeOK
  <2>3. CASE UNCHANGED <<mem, dbm>> /\ req' = req
    <3>1. req' \in [Sides -> Pair] /\ \A o \in Sides : Honest(o, req'[o])
      BY Zenon, <2>3, AllHonest DEF IInv, TypeOK
    <3> QED BY <2>1, <2>2, <2>3, <3>1, NothingChanged, ZenonT(30)
  <2>4. CASE UNCHANGED <<mem, dbm>> /\ dbm["taker"].redeem /\ req' = sendAsync("taker", "redeem")
    <3>1. mem["taker"].redeem
      BY Zenon, <2>4, TheSides DEF IInv, SameInv, Alike
    <3>2. chain[other("taker")].step = "redeemed"
      BY Zenon, <3>1, AllHonest, TheSides
    <3>3. /\ req' \in [Sides -> Pair] /\ \A o \in Sides : o # "taker" => req'[o] = req[o]
          /\ req'["taker"].init # "none" => req["taker"].init # "none"
      BY Zenon, <2>4, <1>SentBy, TheSides
    <3>4. \A o \in Sides : Honest(o, req'[o])
      BY Zenon, <3>2, <3>3, AllHonest DEF Honest
    <3> QED BY <2>1, <2>2, <2>4, <3>3, <3>4, NothingChanged, ZenonT(30)
  <2>5. CASE /\ mem["taker"].status >= 2 /\ req' = req
             /\ mem' = [mem EXCEPT !["taker"] = n] /\ dbm' = [dbm EXCEPT !["taker"] = n]
    <3>1. /\ n \in Match /\ n.own = T.own /\ n.status = 3 /\ n.redeem = T.redeem /\ n.refund = T.refund /\ n.secret
      BY Ranges, ToldSet, TheSides, ZenonT(30) DEF T
    <3> HIDE DEF n
    <3>2. chain["taker"].step = "redeemed"
      BY Zenon, <2>1 DEF IInv, SpendInv, MakerRedeemKnown
    <3>3. TakerFine(T, vol["taker"], req["taker"], tracked["taker"]) /\ T.own
      BY Zenon, <2>5, TakerIsFine DEF TakerPart, TakerFine, T
    <3>4. TakerFine(n, vol["taker"], req["taker"], tracked["taker"])
      BY <3>1, <3>2, <3>3, <1>SecretFine, ZenonT(30)
    <3>5. req' \in [Sides -> Pair] /\ vol' \in [Sides -> Vol]
      BY Zenon, <2>1, <2>5 DEF IInv, TypeOK
    <3> QED BY <2>1, <2>2, <2>5, <3>1, <3>4, <3>5, StoredStep, TheSides, ZenonT(30)
  <2> QED BY Zenon, <2>1, <2>3, <2>4, <2>5
<1> QED BY <1>SwapRecordedStep, <1>RedeemRecordedStep, <1>RefundRecordedStep, <1>SearchEndsStep, <1>HandleRedemptionStep, Zenon

\* A spend is mined.
LEMMA MineStep == ASSUME IInv, NEW c \in Sides, Mine(c) PROVE IInv'
<1>1. /\ UNCHANGED <<mem, dbm, vol, tracked, link, req, net, srv, clock>>
      /\ chain' = [chain EXCEPT ![c].mined = TRUE]
  BY Zenon DEF Mine
<1>2. chain \in [Sides -> Contract]
  BY Zenon DEF IInv, TypeOK
<1>3. chain' \in [Sides -> Contract] /\ KeepsChain
  BY <1>1, <1>2, ZenonT(30) DEF Contract, KeepsChain
<1>4. KeepsMatch /\ KeepsStage /\ SameInv' /\ TypeOK'
  BY Zenon, <1>1, <1>3 DEF KeepsMatch, KeepsStage, Alike, IInv, SameInv, TypeOK
<1>5. TakerLeaves /\ AuditsTold /\ \A t \in Sides : ~link'[t] => audit(t) \notin net'
  BY Zenon, <1>1, StillLeaves, StillTold, StillLinked DEF T
<1> QED BY Zenon, <1>1, <1>3, <1>4, <1>5, AllHonest, QuietStep

\* checkTrades drops a trade without an active match.
LEMMA RetireStep == ASSUME IInv, NEW s \in Sides, Retire(s) PROVE IInv'
<1>1. /\ tracked[s] /\ ~MatchIsActive(s, mem[s]) /\ tracked' = [tracked EXCEPT ![s] = FALSE]
      /\ UNCHANGED <<mem, dbm, vol, link, req, net, srv, chain, clock>>
  BY Zenon DEF Retire
<1>2. KeepsMatch /\ KeepsStage /\ SameInv' /\ TypeOK' /\ KeepsChain
  BY Zenon, <1>1 DEF KeepsMatch, KeepsStage, KeepsChain, Alike, IInv, SameInv, TypeOK
<1>3. AuditsTold /\ \A t \in Sides : ~link'[t] => audit(t) \notin net'
  BY Zenon, <1>1, StillTold, StillLinked
<1>4. CASE s = "maker"
  <2>1. tracked'["taker"] = tracked["taker"] /\ T' = T
    BY Zenon, <1>1, <1>4, TheSides DEF IInv, TypeOK, T
  <2>2. TakerLeaves
    BY Zenon, <2>1 DEF IInv, TakerInv, TakerLeaves
  <2> QED BY Zenon, <1>1, <1>2, <1>3, <2>2, AllHonest, QuietStep
<1>5. CASE s = "taker"
  <2>1. T.status = 5 \/ T.status = 4 \/ (T.revoked /\ T.status \in {0, 1})
    BY Zenon, <1>1, <1>5 DEF MatchIsActive, T
  <2>2. TakerFine(T, vol["taker"], req["taker"], tracked["taker"]) /\ T.status \in 0..5
    BY Zenon, TakerIsFine, Ranges, TheSides DEF TakerPart, T
  <2>3. T.own => T.status >= 2
    BY Zenon, <2>2 DEF TakerFine
  <2>4. T.own => T.status \in {4, 5}
    BY <2>1, <2>2, <2>3
  <2>5. T.own => ~Owed
    BY Zenon, <2>2, <2>4 DEF TakerFine, Owed
  <2>6. vol["taker"].stage \in {"swap", "swapped"} => ~srv.active
    <3>1. T.status = 1 => T.revoked
      BY <2>1
    <3> QED BY Zenon, <2>2, <3>1 DEF TakerFine
  <2>7. TakerLeaves
    BY Zenon, <2>5, <2>6 DEF TakerLeaves
  <2> QED BY Zenon, <1>1, <1>2, <1>3, <2>7, AllHonest, QuietStep
<1> QED BY Zenon, <1>4, <1>5 DEF Sides

\* processAuditMsg, as long as one audit runs at a time.
LEMMA HandleAuditStep == ASSUME IInv, ~SecondAudits, NEW s \in Sides, handleAudit(s) PROVE IInv'
<1>1. /\ audit(s) \in net /\ net' = net \ {audit(s)}
      /\ UNCHANGED <<mem, dbm, tracked, link, req, srv, chain, clock>>
      /\ vol' = vol \/ (vol[s].audits = {} /\ vol' = [vol EXCEPT ![s].audits = @ \union {"msg"}])
  BY ZenonT(30) DEF handleAudit, audit
<1>2. vol \in [Sides -> Vol]
  BY Zenon DEF IInv, TypeOK
<1>3. /\ vol' \in [Sides -> Vol] /\ KeepsStage
      /\ \A t \in Sides : vol'[t].audits = vol[t].audits \/ (t = s /\ vol'[t].audits = {"msg"})
  <2>1. CASE vol' = vol
    BY Zenon, <1>2, <2>1 DEF KeepsStage
  <2>2. CASE vol[s].audits = {} /\ vol' = [vol EXCEPT ![s].audits = @ \union {"msg"}]
    BY ZenonT(30), <1>2, <2>2 DEF Vol, KeepsStage
  <2> QED BY Zenon, <1>1, <2>1, <2>2
<1>4. KeepsMatch /\ SameInv' /\ TypeOK' /\ KeepsChain
  BY Zenon, <1>1, <1>3 DEF KeepsMatch, KeepsChain, Alike, IInv, SameInv, TypeOK
<1>5. TakerLeaves /\ \A t \in Sides : ~link'[t] => audit(t) \notin net'
  BY Zenon, <1>1, StillLeaves, StillLinked DEF T
<1>6. AuditsTold
  <2>1. vol["taker"].audits \subseteq {"msg", "res"}
    BY Zenon, <1>2, TheSides DEF Vol
  <2>2. s = "taker" => T.status = 0 /\ srv.status = 1
    BY Zenon, <1>1 DEF IInv, RelayInv
  <2>3. s = "maker" => srv.status >= 2
    BY Zenon, <1>1 DEF IInv, RelayInv
  <2>4. net' \subseteq net /\ audit(s) \notin net'
    BY Zenon, <1>1
  <2>5. RelayInv
    BY Zenon DEF IInv
  <2>6. CASE s = "taker"
    <3>1. vol["taker"].audits # {"msg", "res"} /\ {"msg"} # {"msg", "res"}
      <4>1. vol["taker"].audits # {"msg", "res"}
        BY Zenon, <2>5 DEF RelayInv
      <4>2. {"msg"} # {"msg", "res"}
        OBVIOUS
      <4> QED BY Zenon, <4>1, <4>2
    <3>2. vol'["taker"].audits \in {vol["taker"].audits, {"msg"}} /\ vol'["maker"].audits = vol["maker"].audits
      BY Zenon, <1>3, <2>6, TheSides
    <3>3. vol["maker"].audits # {} => srv.status >= 2
      BY Zenon, <2>5 DEF RelayInv
    <3> QED BY Zenon, <2>2, <2>4, <2>6, <3>1, <3>2, <3>3 DEF AuditsTold
  <2>7. CASE s = "maker"
    BY ZenonT(30), <1>3, <2>3, <2>4, <2>5, <2>7, TheSides DEF RelayInv, AuditsTold
  <2> QED BY Zenon, <2>6, <2>7 DEF Sides
<1> QED BY Zenon, <1>1, <1>3, <1>4, <1>5, <1>6, AllHonest, QuietStep

\* A client loses its connection.
LEMMA DisconnectStep == ASSUME IInv, NEW s \in Sides, Disconnect(s) PROVE IInv'
<1>1. /\ link' = [link EXCEPT ![s] = FALSE] /\ net' = net \ Requests(s) /\ req' = [req EXCEPT ![s] = Unsent]
      /\ UNCHANGED <<mem, dbm, vol, tracked, srv, chain, clock>>
  BY Zenon DEF Disconnect
<1>2. link \in [Sides -> BOOLEAN] /\ req \in [Sides -> Pair] /\ Unsent \in Pair
  BY Zenon DEF IInv, TypeOK, Unsent, Pair, Answers
<1>3. link' \in [Sides -> BOOLEAN] /\ req' \in [Sides -> Pair] /\ \A t \in Sides : Honest(t, req'[t])
  BY Zenon, <1>1, <1>2, AllHonest DEF Honest, Unsent
<1>4. audit(s) \notin net'
  BY Zenon, <1>1 DEF audit, Requests
<1>5. \A t \in Sides : ~link'[t] => audit(t) \notin net'
  BY Zenon, <1>1, <1>2, <1>4 DEF IInv, LinkInv
<1> QED BY Zenon, <1>1, <1>3, <1>5, NothingChanged

\* A step of a client.
LEMMA ClientStep == ASSUME IInv, ~SecondAudits, NEW s \in Sides, Client(s) PROVE IInv'
<1>1. CASE tick(s)
  BY <1>1, TickSteps, Zenon DEF tick
<1>2. CASE walletCalls(s)
  BY <1>2, WalletStep, RecordSteps, Zenon DEF walletCalls
<1>3. CASE handlers(s)
  BY <1>3, HandleAuditStep, ResolveSteps, AuditContractStep, Zenon DEF handlers
<1>4. CASE Retire(s) \/ Reconnect(s)
  BY <1>4, RetireStep, ResolveSteps, Zenon
<1>5. CASE SearchEnds \/ handleRedemption
  BY <1>5, RecordSteps, Zenon
<1> QED BY <1>1, <1>2, <1>3, <1>4, <1>5, Zenon DEF Client

\* Every step keeps the invariant.
LEMMA StepInv == ASSUME IInv, NoneLost, ~SecondAudits, [Next]_vars PROVE IInv'
<1>1. ASSUME NEW s \in Sides, Client(s) \/ Disconnect(s) \/ Crash(s) PROVE IInv'
  BY <1>1, ClientStep, DisconnectStep, CrashStep, Zenon
<1>2. CASE Server
  BY <1>2, ServerSteps, Zenon DEF Server
<1>3. CASE ServerRevokes \/ Chains \/ Tick
  BY <1>3, ServerSteps, MineStep, TickStep, Zenon DEF Chains
<1>4. CASE UNCHANGED vars
  <2>1. UNCHANGED <<mem, dbm, vol, tracked, srv, chain, clock>> /\ net' = net /\ link' = link /\ req' = req
    BY Zenon, <1>4 DEF vars
  <2>2. /\ net' \subseteq net /\ link' \in [Sides -> BOOLEAN] /\ req' \in [Sides -> Pair]
        /\ \A t \in Sides : Honest(t, req'[t])
        /\ \A t \in Sides : ~link'[t] => audit(t) \notin net'
    BY Zenon, <2>1, AllHonest, StillLinked DEF IInv, TypeOK
  <2> QED BY <2>1, <2>2, NothingChanged, ZenonT(30)
<1> QED BY <1>1, <1>2, <1>3, <1>4, Zenon DEF Next

Inv == IInv /\ NoneLost

\* The inductive invariant of the two clients, for any number of faults and any kinds
\* of assets, with one audit at a time and wallets that are up when a search begins.
THEOREM TradeInvariant == ASSUME ~SecondAudits, ~WalletDown PROVE Spec => []Inv
<1>1. Init => Inv
  BY InitInv DEF Inv, NoneLost, Init, Idle
<1>2. Inv /\ [Next]_vars => Inv'
  BY StepInv, LostStep, Zenon DEF Inv
<1> QED BY <1>1, <1>2, PTL DEF Spec

\* Whenever a client dies, loadDBTrades takes up the match of a recorded contract that
\* is still locked (RecordedIsActive).
THEOREM RecordedIsRestored == ASSUME ~SecondAudits, ~WalletDown PROVE Spec => []RecordedIsActive
<1>1. Inv => RecordedIsActive
  BY RecordedActs, Zenon DEF Inv
<1> QED BY <1>1, TradeInvariant, PTL

\* When both lock times have passed and nobody is busy, no recorded contract of a
\* tracked trade is still locked (NoneLeftWaiting).
THEOREM NobodyWaitsForEver == ASSUME ~SecondAudits, ~WalletDown PROVE Spec => []NoneLeftWaiting
<1>1. IInv => NoneLeftWaiting
  <2> SUFFICES ASSUME IInv, clock = 2, \A s \in Sides : ~Busy(s),
                      NEW s \in Sides, tracked[s], chain[s].step # "none", dbm[s].own
               PROVE  Spent(s)
    BY Zenon DEF NoneLeftWaiting, lockTime
  <2>1. mem[s].own /\ chain[s] \in Contract
    BY Zenon DEF IInv, TypeOK, SameInv, Alike
  <2>2. chain[s].step # "locked"
    BY <2>1, LockedIsBusy, Zenon
  <2> QED BY Zenon, <2>1, <2>2 DEF Contract, Spent
<1>2. Inv => NoneLeftWaiting
  BY <1>1, Zenon DEF Inv
<1> QED BY <1>2, TradeInvariant, PTL

\* A taker whose contract was redeemed is paid by the time the maker's lock time has
\* passed (TakerIsPaid).
THEOREM TakersArePaid == ASSUME ~SecondAudits, ~WalletDown PROVE Spec => []TakerIsPaid
<1>1. Inv => TakerIsPaid
  BY Zenon DEF Inv, IInv, ChainInv, TakerIsPaid, lockTime
<1> QED BY <1>1, TradeInvariant, PTL

\* The two clients, their server and their wallets implement an atomic swap.
THEOREM ClientsSwapAtomically == ASSUME ~SecondAudits, ~WalletDown PROVE Spec => ImplementsAtomicSwap
<1>1. Init => Swaps!Init
  BY TheSides DEF Init, Swaps!Init, NoContract
<1>2. Inv /\ [Next]_vars => [Swaps!Next]_(Swaps!swaps)
  BY StepIsAtomic, Zenon DEF Inv, Atomic
<1> QED BY <1>1, <1>2, TradeInvariant, PTL DEF Spec, ImplementsAtomicSwap, Swaps!AtomicSpec

\* An atomic swap cheats nobody, whatever the order of its steps.
THEOREM AtomicSwapCheatsNobody == Swaps!AtomicSpec => []Swaps!NobodyCheated
<1>1. Swaps!Init => Swaps!NobodyCheated
  BY Zenon DEF Swaps!Init, Swaps!NobodyCheated
<1>2. Swaps!NobodyCheated /\ [Swaps!Next]_(Swaps!swaps) => Swaps!NobodyCheated'
  BY Zenon DEF Swaps!NobodyCheated, Swaps!Next, Swaps!swaps, Swaps!FundMaker, Swaps!FundTaker,
         Swaps!MakerRedeems, Swaps!TakerRedeems, Swaps!MakerRefunds, Swaps!TakerRefunds
<1> QED BY <1>1, <1>2, PTL DEF Swaps!AtomicSpec

\* So the clients cheat nobody: no maker has both contracts, and no taker has the
\* maker's without having paid.
THEOREM ClientsCheatNobody == ASSUME ~SecondAudits, ~WalletDown PROVE Spec => []Swaps!NobodyCheated
BY ClientsSwapAtomically, AtomicSwapCheatsNobody, PTL DEF ImplementsAtomicSwap

\* A client funds one contract of a match (SwapsOnce). A maker that funds from an
\* account is left out: the secret it would ask the contract with is only in memory.
THEOREM OneContractEach ==
  ASSUME ~SecondAudits, ~WalletDown, "maker" \notin AccountSides
  PROVE  Spec => SwapsOnce
<1>1. Init => OnceInv
  BY DEF Init, OnceInv, NoContract, Idle
<1>2. Inv /\ OnceInv /\ [Next]_vars => OnceInv'
  BY OnceStep, Zenon DEF Inv
<1>3. OnceInv => [\A s \in Sides : (vol[s].stage = "swap" /\ vol'[s].stage = "swapped")
                                     => chain[s].step = "none"]_vars
  BY Zenon DEF OnceInv
<1> QED BY <1>1, <1>2, <1>3, TradeInvariant, PTL DEF Spec, SwapsOnce
====
