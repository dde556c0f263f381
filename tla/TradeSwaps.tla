----------------------------- MODULE TradeSwaps -----------------------------
(***************************************************************************)
(* The steps of Trade that change the contracts, time, a restart, and the  *)
(* server, each of which keeps the invariant of TradeFacts; and two        *)
(* results that rest on them: every step is one of an atomic swap or       *)
(* leaves the contracts alone (StepIsAtomic), and, if the maker does not   *)
(* fund from an account, a side without a contract is the only one that is *)
(* about to fund one (OnceInv).                                            *)
(*                                                                         *)
(* The hard steps are the refund and the tick of the clock. The maker's    *)
(* refund finds the taker's contract not redeemed, since at the maker's    *)
(* lock time a taker whose contract is redeemed has been paid; that clock  *)
(* is reached only after the taker's search for the maker's redemption had *)
(* its time, which NoneLost says it used.                                  *)
(***************************************************************************)
EXTENDS TradeFacts

USE DEF NewlyMatched, MakerSwapCast, TakerSwapCast, MakerRedeemed, MatchComplete, MatchConfirmed

\* What the invariants say of the contracts and the server alone.
Shared ==
  /\ srv.status >= 1 => chain["maker"].lock = 2
  /\ audit("maker") \in net \/ chain["taker"].step = "redeemed" => srv.status >= 2
  /\ srv.status >= 3 \/ redemption \in net => chain["taker"].step = "redeemed"
  /\ srv.status >= 4 => chain["maker"].step = "redeemed"
  /\ chain["maker"].step = "refunded" => chain["taker"].step # "redeemed"
  /\ chain["maker"].step = "redeemed" => chain["taker"].step = "redeemed"
  /\ chain["taker"].step # "none" => chain["taker"].lock = 1
  /\ \A s \in Sides : chain[s].step = "refunded" => clock >= chain[s].lock
  /\ clock = 2 /\ chain["taker"].step = "redeemed" => chain["maker"].step = "redeemed"

\* The invariant says of the server and the contracts what Shared says.
LEMMA SharedHolds == IInv => Shared
<1> SUFFICES ASSUME IInv PROVE Shared
  BY Zenon
<1>1. RelayInv /\ SpendInv /\ ChainInv
  BY Zenon DEF IInv
<1> QED BY Zenon, <1>1 DEF RelayInv, SpendInv, ChainInv, MakerRedeemKnown, TakerRedeemKnown, Shared

\* The parts make up the invariant again.
LEMMA PartsSuffice ==
  ASSUME TypeOK', SameInv', LinkInv', Shared', MakerPart', TakerPart'
  PROVE  IInv'
<1>1. \A s \in Sides : s = "maker" \/ s = "taker"
  BY Zenon DEF Sides
<1>2. OwnInv'
  BY <1>1 DEF OwnInv, MakerPart, TakerPart, MakerFine, TakerFine, M, T, swapCast
<1>3. RelayInv'
  BY Zenon DEF RelayInv, MakerPart, TakerPart, MakerFine, TakerFine, Shared
<1>4. SpendInv'
  <2>1. MakerRedeemKnown' => chain'["taker"].step = "redeemed"
    BY Zenon DEF MakerRedeemKnown, MakerPart, TakerPart, MakerFine, TakerFine, Shared
  <2>2. TakerRedeemKnown' => chain'["maker"].step = "redeemed"
    BY Zenon DEF TakerRedeemKnown, TakerPart, TakerFine, Shared
  <2>3. \A s \in Sides : (mem[s].refund \/ vol[s].stage = "refunded")' => chain'[s].step = "refunded"
    BY Zenon, <1>1 DEF MakerPart, TakerPart, MakerFine, TakerFine, M, T
  <2>4. \A s \in Sides : vol'[s].refundErr => Spent(s)'
    BY Zenon, <1>1 DEF MakerPart, TakerPart, MakerFine, TakerFine
  <2>5. /\ M'.status = 5 => chain'["taker"].step = "redeemed" \/ Spent("maker")'
        /\ T'.status = 5 => chain'["maker"].step = "redeemed" \/ chain'["taker"].step = "refunded"
        /\ T'.secret => T'.status >= 3
    BY Zenon DEF MakerPart, TakerPart, MakerFine, TakerFine, Owed
  <2> QED BY Zenon, <2>1, <2>2, <2>3, <2>4, <2>5 DEF SpendInv
<1>5. ChainInv'
  BY Zenon, <1>1 DEF ChainInv, MakerPart, TakerPart, MakerFine, TakerFine, Shared
<1>6. TakerInv'
  BY Zenon DEF TakerInv, TakerPart, TakerFine
<1> QED BY Zenon, <1>2, <1>3, <1>4, <1>5, <1>6 DEF IInv

\* A wallet call that funds or spends a contract.
LEMMA WalletStep ==
  \A s \in Sides : IInv /\ (Swap(s) \/ Redeem(s) \/ Refund(s)) => IInv'
\* A wallet call that came to nothing.
<1>IdleStep.
  ASSUME IInv, NEW s \in Sides, UNCHANGED <<mem, dbm, tracked, link, req, net, srv, chain, clock>>,
         vol' \in [Sides -> Vol], \A o \in Sides : o # s => vol'[o] = vol[o],
         vol'[s].stage = "idle", vol'[s].swapErr = vol[s].swapErr, vol'[s].audits = vol[s].audits,
         vol'[s].refundErr => vol[s].refundErr \/ Spent(s)
  PROVE  IInv'
  <2> USE <1>IdleStep
  <2>1. TypeOK' /\ Others(s) /\ Alike(s, mem'[s], dbm'[s]) /\ \A o \in Sides : ~link'[o] => audit(o) \notin net'
    BY Zenon, StillLinked DEF IInv, TypeOK, Others, SameInv, Alike
  <2>2. s = "maker" => MakerFine(mem'[s], vol'[s], req'[s])
    <3> SUFFICES ASSUME s = "maker" PROVE MakerFine(mem[s], vol'[s], req[s])
      BY Zenon
    <3>1. MakerFine(mem[s], vol[s], req[s])
      BY Zenon, MakerIsFine DEF MakerPart, M
    <3> QED BY Zenon, <3>1 DEF MakerFine
  <2>3. s = "taker" => TakerFine(mem'[s], vol'[s], req'[s], tracked'[s])
    <3> SUFFICES ASSUME s = "taker" PROVE TakerFine(mem[s], vol'[s], req[s], tracked[s])
      BY Zenon
    <3>1. TakerFine(mem[s], vol[s], req[s], tracked[s])
      BY Zenon, TakerIsFine DEF TakerPart, T
    <3> QED BY Zenon, <3>1 DEF TakerFine
  <2> QED BY Zenon, <2>1, <2>2, <2>3, ClientActs
<1>SwapStep. ASSUME IInv, NEW s \in Sides, Swap(s) PROVE IInv'
  <2> USE <1>SwapStep
  <2>1. MakerFine(M, vol["maker"], req["maker"]) /\ TakerFine(T, vol["taker"], req["taker"], tracked["taker"]) /\ Shared
    BY Zenon, MakerIsFine, TakerIsFine, SharedHolds DEF MakerPart, TakerPart
  <2>2. vol[s].stage = "swap" /\ UNCHANGED <<dbm, tracked, link, req, net, srv, clock>>
    BY SwapEnds, ZenonT(30)
  <2>3. mem' \in [Sides -> Match] /\ vol' \in [Sides -> Vol] /\ chain' \in [Sides -> Contract]
    BY SwapEnds, ZenonT(30)
  <2>4. \A o \in Sides : o # s => mem'[o] = mem[o] /\ vol'[o] = vol[o] /\ chain'[o] = chain[o]
    BY SwapEnds, ZenonT(30)
  <2>5. Alike(s, mem[s], mem'[s]) /\ mem'[s].revoked = mem[s].revoked
    BY SwapEnds, ZenonT(30)
  <2>6. /\ vol'[s].stage \in {"idle", "swapped"}
        /\ vol'[s].refundErr = vol[s].refundErr /\ vol'[s].audits = vol[s].audits
        /\ vol'[s].stage = "swapped" => chain'[s].step = "locked" /\ vol'[s].swapErr = vol[s].swapErr
    BY SwapEnds, ZenonT(30)
  <2>7. \/ chain'[s] = chain[s]
        \/ chain'[s].step = "locked" /\ (s = "taker" => chain'[s].lock = 1)
    BY SwapEnds, ZenonT(30)
  <2>8. TypeOK' /\ SameInv' /\ LinkInv'
    BY <2>2, <2>3, <2>4, <2>5 DEF IInv, TypeOK, SameInv, Alike, LinkInv
  <2>9. srv.status \in 0..4 /\ \A o \in Sides : mem[o].status \in 0..5 /\ chain[o] \in Contract
    BY Zenon, Ranges DEF IInv, TypeOK
  <2>10. CASE s = "maker"
    <3>1. M.status = 0 /\ ~M.own /\ srv.status = 0 /\ ~Spent("maker")
      BY <2>1, <2>2, <2>9, <2>10 DEF MakerFine
    <3>2. T.status = 0 /\ chain["taker"].step = "none"
      BY <2>1, <2>9, <3>1, TheSides DEF TakerFine, T
    <3>3. chain["maker"].step \in {"none", "locked"} /\ chain'["maker"].step \in {"none", "locked"}
      BY Zenon, <2>7, <2>9, <2>10, <3>1, TheSides DEF Contract, Spent
    <3>4. T' = T /\ vol'["taker"] = vol["taker"] /\ chain'["taker"] = chain["taker"] /\ tracked' = tracked
      BY Zenon, <2>2, <2>4, <2>10, TheSides DEF T
    <3>5. /\ M'.status = M.status /\ M'.own = M.own /\ M'.redeem = M.redeem /\ M'.refund = M.refund
      BY Zenon, <2>5, <2>10 DEF M, Alike
    <3>6. Shared'
      BY <2>1, <2>2, <3>1, <3>2, <3>3, <3>4 DEF Shared, Sides
    <3>7. MakerPart'
      BY ZenonT(30), <2>1, <2>2, <2>6, <2>10, <3>1, <3>2, <3>3, <3>4, <3>5 DEF MakerPart, MakerFine, Spent
    <3>8. TakerPart'
      <4>1. srv' = srv /\ clock' = clock /\ net' = net /\ req' = req
        BY Zenon, <2>2
      <4>2. ~(srv.status >= 1) /\ ~(srv.status >= 2) /\ ~(srv.status = 1) /\ srv.status <= 1
        BY <3>1
      <4>3. chain'["maker"].step # "redeemed" /\ chain["maker"].step # "redeemed"
        BY Zenon, <3>3
      <4> QED BY ZenonT(30), <2>1, <3>2, <3>4, <4>1, <4>2, <4>3 DEF TakerPart, TakerFine, Spent, Owed
    <3> QED BY Zenon, <2>8, <3>6, <3>7, <3>8, PartsSuffice
  <2>11. CASE s = "taker"
    <3>1. /\ T.status = 1 /\ ~T.own /\ ~Spent("taker") /\ clock <= 1 /\ ~vol["taker"].swapErr /\ srv.status = 1
          /\ T.revoked \/ ~tracked["taker"] => ~srv.active
      BY <2>1, <2>2, <2>9, <2>11, TheSides DEF TakerFine
    <3>2. chain["taker"].step \in {"none", "locked"} /\ chain'["taker"].step \in {"none", "locked"}
          /\ (chain["taker"].step # "none" => chain'["taker"].step # "none")
      BY Zenon, <2>7, <2>9, <2>11, <3>1, TheSides DEF Contract, Spent
    <3>3. M' = M /\ vol'["maker"] = vol["maker"] /\ chain'["maker"] = chain["maker"] /\ tracked' = tracked
      BY Zenon, <2>2, <2>4, <2>11, TheSides DEF M
    <3>4. /\ T'.status = T.status /\ T'.own = T.own /\ T'.redeem = T.redeem /\ T'.refund = T.refund /\ T'.secret = T.secret
          /\ T'.revoked = T.revoked
      BY Zenon, <2>5, <2>11 DEF T, Alike
    <3>5. chain'["taker"].step # "none" => chain'["taker"].lock = 1
      BY Zenon, <2>1, <2>7, <2>11 DEF Shared
    <3>6. Shared'
      BY Zenon, <2>1, <2>2, <3>1, <3>2, <3>3, <3>5 DEF Shared, Sides
    <3>7. MakerPart'
      BY Zenon, <2>1, <2>2, <3>1, <3>2, <3>3 DEF MakerPart, MakerFine, Spent
    <3>8. Owed' <=> Owed
      BY Zenon, <3>2, <3>3 DEF Owed
    <3>9. TakerPart'
      <4>1. srv' = srv /\ clock' = clock /\ net' = net /\ req' = req /\ vol["taker"].stage = "swap"
        BY Zenon, <2>2, <2>11
      <4>2. /\ vol'["taker"].stage \in {"idle", "swapped"}
            /\ vol'["taker"].refundErr = vol["taker"].refundErr /\ vol'["taker"].audits = vol["taker"].audits
            /\ vol'["taker"].stage = "swapped" => chain'["taker"].step = "locked" /\ ~vol'["taker"].swapErr
        BY Zenon, <2>6, <2>11, <3>1
      <4>3. /\ T.status >= 1 /\ ~(T.status >= 2) /\ ~(T.status >= 3) /\ T.status \notin {0, 3, 4, 5}
            /\ srv.status >= 1 /\ ~(srv.status >= 2)
        BY <3>1
      <4> QED BY ZenonT(30), <2>1, <3>1, <3>2, <3>3, <3>4, <3>8, <4>1, <4>2, <4>3 DEF TakerPart, TakerFine, Spent
    <3> QED BY Zenon, <2>8, <3>6, <3>7, <3>9, PartsSuffice
  <2> QED BY Zenon, <2>10, <2>11 DEF Sides
<1>RedeemStep. ASSUME IInv, NEW s \in Sides, Redeem(s) PROVE IInv'
  <2> USE <1>RedeemStep
  <2>1. /\ vol[s].stage = "redeem" /\ UNCHANGED <<mem, dbm, tracked, link, req, net, srv, clock>>
        /\ \/ /\ chain[other(s)].step = "locked" /\ chain' = [chain EXCEPT ![other(s)].step = "redeemed"]
              /\ vol' = [vol EXCEPT ![s].stage = "redeemed"]
           \/ vol' = [vol EXCEPT ![s].stage = "idle"] /\ UNCHANGED chain
    BY ZenonT(30) DEF Redeem
  <2>2. CASE vol' = [vol EXCEPT ![s].stage = "idle"] /\ UNCHANGED chain
    <3>1. /\ vol' \in [Sides -> Vol] /\ \A o \in Sides : o # s => vol'[o] = vol[o]
          /\ vol'[s].stage = "idle" /\ vol'[s].swapErr = vol[s].swapErr /\ vol'[s].refundErr = vol[s].refundErr
          /\ vol'[s].audits = vol[s].audits
      BY <2>2, Staged, ZenonT(30) DEF IInv, Stages
    <3> QED BY <2>1, <2>2, <3>1, <1>IdleStep, ZenonT(30)
  <2>3. CASE /\ chain[other(s)].step = "locked" /\ chain' = [chain EXCEPT ![other(s)].step = "redeemed"]
             /\ vol' = [vol EXCEPT ![s].stage = "redeemed"]
    <3>1. MakerFine(M, vol["maker"], req["maker"]) /\ TakerFine(T, vol["taker"], req["taker"], tracked["taker"]) /\ Shared
      BY Zenon, MakerIsFine, TakerIsFine, SharedHolds DEF MakerPart, TakerPart
    <3>2. /\ vol' \in [Sides -> Vol] /\ \A o \in Sides : o # s => vol'[o] = vol[o]
          /\ vol'[s].stage = "redeemed" /\ vol'[s].swapErr = vol[s].swapErr /\ vol'[s].refundErr = vol[s].refundErr
          /\ vol'[s].audits = vol[s].audits
      BY <2>3, Staged, ZenonT(30) DEF IInv, Stages
    <3>3. /\ chain' \in [Sides -> Contract] /\ chain'[s] = chain[s]
          /\ chain'[other(s)].step = "redeemed" /\ chain'[other(s)].lock = chain[other(s)].lock
      <4>1. chain \in [Sides -> Contract] /\ other(s) \in Sides /\ other(s) # s
        BY Zenon DEF IInv, TypeOK, other, Sides
      <4> QED BY <2>3, <4>1, ZenonT(30) DEF Contract
    <3>4. TypeOK' /\ SameInv' /\ LinkInv'
      BY Zenon, <2>1, <3>2, <3>3 DEF IInv, TypeOK, SameInv, Alike, LinkInv
    <3>5. srv.status \in 0..4 /\ clock \in 0..2 /\ \A o \in Sides : chain[o].lock \in 0..2 /\ chain[o] \in Contract
      BY Zenon, Ranges DEF IInv, TypeOK
    <3>6. M' = M /\ T' = T /\ req' = req /\ tracked' = tracked /\ srv' = srv /\ net' = net /\ clock' = clock
      BY Zenon, <2>1 DEF M, T
    <3>7. CASE s = "maker"
      <4>1. chain["taker"].step = "locked" /\ chain'["taker"].step = "redeemed" /\ chain'["taker"].lock = chain["taker"].lock
        BY Zenon, <2>3, <3>3, <3>7, TheSides
      <4>2. chain'["maker"] = chain["maker"] /\ vol'["taker"] = vol["taker"] /\ vol["maker"].stage = "redeem"
        BY Zenon, <2>1, <3>2, <3>3, <3>7, TheSides
      <4>3. /\ vol'["maker"].stage = "redeemed" /\ vol'["maker"].refundErr = vol["maker"].refundErr
            /\ vol'["maker"].audits = vol["maker"].audits
        BY Zenon, <3>2, <3>7
      <4>4. clock <= 1 /\ srv.status >= 2 /\ T.own /\ M.own
        BY Zenon, <3>1, <3>5, <4>1, <4>2 DEF MakerFine, TakerFine
      <4>5. chain["maker"].step # "refunded" /\ chain["maker"].step # "redeemed" /\ clock # 2
        BY <3>1, <3>5, <4>1, <4>4, TheSides DEF Shared
      <4>6. Shared'
        BY Zenon, <3>1, <3>5, <3>6, <4>1, <4>2, <4>4, <4>5 DEF Shared, Sides
      <4>7. MakerPart'
        BY Zenon, <3>1, <3>6, <4>1, <4>2, <4>3, <4>4 DEF MakerPart, MakerFine, Spent
      <4>8. TakerPart'
        <5>1. srv.status >= 2 /\ ~(srv.status <= 1) /\ T.own
          BY <3>5, <4>4
        <5> QED BY ZenonT(30), <3>1, <3>6, <4>1, <4>2, <4>5, <5>1 DEF TakerPart, TakerFine, Spent, Owed
      <4> QED BY Zenon, <3>4, <4>6, <4>7, <4>8, PartsSuffice
    <3>8. CASE s = "taker"
      <4>1. chain["maker"].step = "locked" /\ chain'["maker"].step = "redeemed" /\ chain'["maker"].lock = chain["maker"].lock
        BY Zenon, <2>3, <3>3, <3>8, TheSides
      <4>2. chain'["taker"] = chain["taker"] /\ vol'["maker"] = vol["maker"] /\ vol["taker"].stage = "redeem"
        BY Zenon, <2>1, <3>2, <3>3, <3>8, TheSides
      <4>3. /\ vol'["taker"].stage = "redeemed" /\ vol'["taker"].refundErr = vol["taker"].refundErr
            /\ vol'["taker"].audits = vol["taker"].audits /\ vol'["taker"].swapErr = vol["taker"].swapErr
        BY Zenon, <3>2, <3>8
      <4>4. chain["taker"].step = "redeemed" /\ srv.status >= 2 /\ T.own /\ M.own
        BY Zenon, <3>1, <3>5, <4>2 DEF MakerFine, TakerFine, Shared
      <4>5. Shared'
        BY Zenon, <3>1, <3>5, <3>6, <4>1, <4>2, <4>4 DEF Shared, Sides
      <4>6. MakerPart'
        BY Zenon, <3>1, <3>6, <4>1, <4>2, <4>4 DEF MakerPart, MakerFine, Spent
      <4>7. TakerPart'
        BY Zenon, <3>1, <3>6, <4>1, <4>2, <4>3, <4>4 DEF TakerPart, TakerFine, Spent, Owed
      <4> QED BY Zenon, <3>4, <4>5, <4>6, <4>7, PartsSuffice
    <3> QED BY Zenon, <3>7, <3>8 DEF Sides
  <2> QED BY Zenon, <2>1, <2>2, <2>3
<1>RefundStep. ASSUME IInv, NEW s \in Sides, Refund(s) PROVE IInv'
  <2> USE <1>RefundStep
  <2> DEFINE m == [mem[s] EXCEPT !.status = IF s = "maker" THEN MatchConfirmed ELSE @]
  <2>1. /\ vol[s].stage = "refund" /\ UNCHANGED <<tracked, link, req, net, srv, clock>>
        /\ \/ /\ chain[s].step = "locked" /\ chain' = [chain EXCEPT ![s].step = "refunded"]
              /\ vol' = [vol EXCEPT ![s].stage = "refunded"] /\ UNCHANGED <<mem, dbm>>
           \/ /\ vol' = [vol EXCEPT ![s].stage = "idle", ![s].search = @ \/ s = "taker"]
              /\ UNCHANGED <<mem, dbm, chain>>
           \/ /\ Spent(s) /\ chain' = chain
              /\ vol' = [vol EXCEPT ![s].stage = "idle", ![s].refundErr = TRUE, ![s].search = @ \/ s = "taker"]
              /\ mem' = [mem EXCEPT ![s] = m] /\ dbm' = IF s = "maker" THEN [dbm EXCEPT ![s] = m] ELSE dbm
           \/ vol' = [vol EXCEPT ![s].stage = "idle"] /\ UNCHANGED <<mem, dbm, chain>>
    BY ZenonT(30) DEF Refund
  <2>2. vol \in [Sides -> Vol] /\ mem \in [Sides -> Match] /\ mem[s] \in Match /\ mem[s].status \in 0..5
    BY Zenon, Ranges DEF IInv, TypeOK
  <2>3. MakerFine(M, vol["maker"], req["maker"]) /\ TakerFine(T, vol["taker"], req["taker"], tracked["taker"]) /\ Shared
    BY Zenon, MakerIsFine, TakerIsFine, SharedHolds DEF MakerPart, TakerPart
  <2>4. CASE vol' = [vol EXCEPT ![s].stage = "idle"] /\ UNCHANGED <<mem, dbm, chain>>
    <3>1. /\ vol' \in [Sides -> Vol] /\ \A o \in Sides : o # s => vol'[o] = vol[o]
          /\ vol'[s].stage = "idle" /\ vol'[s].swapErr = vol[s].swapErr /\ vol'[s].refundErr = vol[s].refundErr
          /\ vol'[s].audits = vol[s].audits
      BY <2>4, Staged, ZenonT(30) DEF IInv, Stages
    <3> QED BY <2>1, <2>4, <3>1, <1>IdleStep, ZenonT(30)
  <2>5. CASE /\ vol' = [vol EXCEPT ![s].stage = "idle", ![s].search = @ \/ s = "taker"] /\ UNCHANGED <<mem, dbm, chain>>
    <3>1. /\ vol' \in [Sides -> Vol] /\ \A o \in Sides : o # s => vol'[o] = vol[o]
          /\ vol'[s].stage = "idle" /\ vol'[s].swapErr = vol[s].swapErr /\ vol'[s].refundErr = vol[s].refundErr
          /\ vol'[s].audits = vol[s].audits
      BY <2>2, <2>5, ZenonT(120) DEF Vol, Stages
    <3> QED BY <2>1, <2>5, <3>1, <1>IdleStep, ZenonT(30)
  <2>6. CASE /\ Spent(s) /\ chain' = chain
             /\ vol' = [vol EXCEPT ![s].stage = "idle", ![s].refundErr = TRUE, ![s].search = @ \/ s = "taker"]
             /\ mem' = [mem EXCEPT ![s] = m] /\ dbm' = IF s = "maker" THEN [dbm EXCEPT ![s] = m] ELSE dbm
    <3>1. /\ vol' \in [Sides -> Vol] /\ \A o \in Sides : o # s => vol'[o] = vol[o]
          /\ vol'[s].stage = "idle" /\ vol'[s].swapErr = vol[s].swapErr /\ vol'[s].audits = vol[s].audits
      BY <2>2, <2>6, ZenonT(120) DEF Vol, Stages
    <3>2. CASE s = "taker"
      <4>1. m = mem[s]
        BY Zenon, <2>2, <3>2 DEF Match
      <4>2. mem' = mem /\ dbm' = dbm
        BY Zenon, <2>2, <2>6, <3>2, <4>1
      <4> QED BY <2>1, <2>6, <3>1, <4>2, <1>IdleStep, ZenonT(30)
    <3>3. CASE s = "maker"
      <4>1. /\ m \in Match /\ m.status = 5 /\ m.own = mem[s].own /\ m.secret = mem[s].secret /\ m.redeem = mem[s].redeem
            /\ m.refund = mem[s].refund
        <5> DEFINE r == [mem[s] EXCEPT !.status = 5]
        <5>1. m = r /\ 5 \in 0..5
          BY <2>2, <3>3 DEF Match
        <5>2. /\ r \in Match /\ r.status = 5 /\ r.own = mem[s].own /\ r.secret = mem[s].secret /\ r.redeem = mem[s].redeem
              /\ r.refund = mem[s].refund
          BY <2>2, <5>1, StatusSet, ZenonT(30)
        <5> HIDE DEF r, m
        <5> QED BY <5>1, <5>2, Zenon
      <4> HIDE DEF m
      <4>2. mem' = [mem EXCEPT ![s] = m] /\ dbm' = [dbm EXCEPT ![s] = m]
        BY <2>6, <3>3, Zenon
      <4>3. MakerFine(mem[s], vol[s], req[s]) /\ mem[s].own /\ Spent("maker")
        BY Zenon, <2>1, <2>3, <2>6, <3>3 DEF MakerFine, M
      <4>4. MakerFine(m, vol'[s], req'[s])
        BY <2>1, <3>1, <4>1, <4>3 DEF MakerFine
      <4>5. req' \in [Sides -> Pair] /\ s # "taker" /\ (\A o \in Sides : o # s => req'[o] = req[o]) /\ net' \subseteq net
        BY Zenon, <2>1, <3>3 DEF IInv, TypeOK
      <4>6. UNCHANGED <<tracked, link, srv, chain, clock>>
        BY <2>1, <2>6, Zenon
      <4> QED BY <3>1, <4>1, <4>2, <4>4, <4>5, <4>6, StoredStep, ZenonT(30)
    <3> QED BY Zenon, <3>2, <3>3 DEF Sides
  <2>7. CASE /\ chain[s].step = "locked" /\ chain' = [chain EXCEPT ![s].step = "refunded"]
             /\ vol' = [vol EXCEPT ![s].stage = "refunded"] /\ UNCHANGED <<mem, dbm>>
    <3>1. /\ vol' \in [Sides -> Vol] /\ \A o \in Sides : o # s => vol'[o] = vol[o]
          /\ vol'[s].stage = "refunded" /\ vol'[s].swapErr = vol[s].swapErr /\ vol'[s].refundErr = vol[s].refundErr
          /\ vol'[s].audits = vol[s].audits
      BY <2>7, Staged, ZenonT(30) DEF IInv, Stages
    <3>2. /\ chain' \in [Sides -> Contract] /\ \A o \in Sides : o # s => chain'[o] = chain[o]
          /\ chain'[s].step = "refunded" /\ chain'[s].lock = chain[s].lock
      <4>1. chain \in [Sides -> Contract]
        BY Zenon DEF IInv, TypeOK
      <4> QED BY <2>7, <4>1, ZenonT(30) DEF Contract
    <3>3. TypeOK' /\ SameInv' /\ LinkInv'
      BY <2>1, <2>7, <3>1, <3>2 DEF IInv, TypeOK, SameInv, Alike, LinkInv
    <3>4. srv.status \in 0..4 /\ clock \in 0..2
      BY Zenon, Ranges
    <3>5. M' = M /\ T' = T /\ req' = req /\ tracked' = tracked /\ srv' = srv /\ net' = net /\ clock' = clock
      BY ZenonT(30), <2>1, <2>7 DEF M, T
    <3>6. CASE s = "maker"
      <4>1. chain["maker"].step = "locked" /\ chain'["maker"].step = "refunded" /\ chain'["maker"].lock = chain["maker"].lock
        BY Zenon, <2>7, <3>2, <3>6
      <4>2. chain'["taker"] = chain["taker"] /\ vol'["taker"] = vol["taker"] /\ vol["maker"].stage = "refund"
        BY Zenon, <2>1, <3>1, <3>2, <3>6, TheSides
      <4>3. /\ vol'["maker"].stage = "refunded" /\ vol'["maker"].refundErr = vol["maker"].refundErr
            /\ vol'["maker"].audits = vol["maker"].audits
        BY Zenon, <3>1, <3>6
      <4>4. M.own /\ clock >= chain["maker"].lock
        BY Zenon, <2>3, <4>2 DEF MakerFine
      <4>5. chain["taker"].step # "redeemed"
        BY <2>3, <3>4, <4>1, <4>4 DEF Shared
      <4>6. Shared'
        BY ZenonT(30), <2>3, <3>4, <3>5, <4>1, <4>2, <4>4, <4>5 DEF Shared, Sides
      <4>7. MakerPart'
        BY ZenonT(30), <2>3, <3>5, <4>1, <4>2, <4>3, <4>4 DEF MakerPart, MakerFine, Spent
      <4>8. TakerPart'
        <5>1. Owed' <=> Owed
          BY Zenon, <4>1, <4>2 DEF Owed
        <5>2. ~(chain["maker"].step = "redeemed")
          BY Zenon, <4>1
        <5> QED BY ZenonT(30), <2>3, <3>5, <4>2, <5>1, <5>2 DEF TakerPart, TakerFine, Spent
      <4> QED BY Zenon, <3>3, <4>6, <4>7, <4>8, PartsSuffice
    <3>7. CASE s = "taker"
      <4>1. chain["taker"].step = "locked" /\ chain'["taker"].step = "refunded" /\ chain'["taker"].lock = chain["taker"].lock
        BY Zenon, <2>7, <3>2, <3>7
      <4>2. chain'["maker"] = chain["maker"] /\ vol'["maker"] = vol["maker"] /\ vol["taker"].stage = "refund"
        BY ZenonT(30), <2>1, <3>1, <3>2, <3>7, TheSides
      <4>3. /\ vol'["taker"].stage = "refunded" /\ vol'["taker"].refundErr = vol["taker"].refundErr
            /\ vol'["taker"].audits = vol["taker"].audits /\ vol'["taker"].swapErr = vol["taker"].swapErr
        BY Zenon, <3>1, <3>7
      <4>4. T.own /\ clock >= chain["taker"].lock /\ chain["maker"].step # "redeemed"
        BY Zenon, <2>3, <4>1, <4>2 DEF TakerFine, Shared
      <4>5. Shared'
        BY ZenonT(30), <2>3, <3>4, <3>5, <4>1, <4>2, <4>4 DEF Shared, Sides
      <4>6. MakerPart'
        BY <2>3, <3>5, <4>1, <4>2 DEF MakerPart, MakerFine, Spent
      <4>7. TakerPart'
        <5>1. TakerFine(T, vol["taker"], req["taker"], tracked["taker"])
          BY Zenon, <2>3
        <5> QED BY ZenonT(30), <3>5, <4>1, <4>2, <4>3, <4>4, <5>1 DEF TakerPart, TakerFine, Spent, Owed
      <4> QED BY Zenon, <3>3, <4>5, <4>6, <4>7, PartsSuffice
    <3> QED BY Zenon, <3>6, <3>7 DEF Sides
  <2> QED BY <2>1, <2>4, <2>5, <2>6, <2>7, ZenonT(30)
<1> QED BY <1>SwapStep, <1>RedeemStep, <1>RefundStep, Zenon

\* A client dies and comes back with what its database has.
LEMMA CrashStep == ASSUME IInv, NEW s \in Sides, Crash(s) PROVE IInv'
<1> DEFINE e == dbm[s].status < swapCast(s) /\ chain[s].step # "none" /\ s \notin AccountSides
           w == [Idle EXCEPT !.swapErr = e]
<1>1. /\ mem' = [mem EXCEPT ![s] = dbm[s]] /\ tracked' = [tracked EXCEPT ![s] = MatchIsActive(s, dbm[s])]
      /\ vol' = [vol EXCEPT ![s] = w] /\ link' = [link EXCEPT ![s] = FALSE]
      /\ net' = net \ Requests(s) /\ req' = [req EXCEPT ![s] = Unsent]
      /\ UNCHANGED <<dbm, srv, chain, clock>>
  BY ZenonT(30) DEF Crash
<1>2. w \in Vol /\ w.stage = "idle" /\ ~w.refundErr /\ w.audits = {} /\ (w.swapErr => dbm[s].status < swapCast(s))
  BY ZenonT(30) DEF Idle, Vol, Stages
<1> HIDE DEF w
<1>3. MatchIsActive(s, dbm[s]) \in BOOLEAN /\ Unsent \in Pair /\ Unsent.init = "none" /\ Unsent.redeem = "none"
  BY Zenon DEF MatchIsActive, Unsent, Pair, Answers
<1>4. dbm[s] \in Match /\ Alike(s, mem[s], dbm[s])
  BY Zenon DEF IInv, TypeOK, SameInv
<1>5. /\ mem' \in [Sides -> Match] /\ mem'[s] = dbm[s] /\ \A o \in Sides : o # s => mem'[o] = mem[o]
  BY Zenon, <1>1, <1>4 DEF IInv, TypeOK
<1>6. /\ vol' \in [Sides -> Vol] /\ vol'[s] = w /\ \A o \in Sides : o # s => vol'[o] = vol[o]
  BY Zenon, <1>1, <1>2 DEF IInv, TypeOK
<1>7. /\ tracked' \in [Sides -> BOOLEAN] /\ (tracked'[s] <=> MatchIsActive(s, dbm[s]))
      /\ \A o \in Sides : o # s => tracked'[o] = tracked[o]
  BY <1>1, <1>3, ZenonT(30) DEF IInv, TypeOK
<1>8. /\ link' \in [Sides -> BOOLEAN] /\ \A o \in Sides : ~link'[o] => o = s \/ ~link[o]
  BY Zenon, <1>1 DEF IInv, TypeOK
<1>9. /\ req' \in [Sides -> Pair] /\ req'[s].init = "none" /\ req'[s].redeem = "none"
      /\ \A o \in Sides : o # s => req'[o] = req[o]
  BY Zenon, <1>1, <1>3 DEF IInv, TypeOK
<1>10. net' \subseteq net /\ audit(s) \notin net'
  BY Zenon, <1>1 DEF audit, Requests
<1>11. \A o \in Sides : ~link'[o] => audit(o) \notin net'
  BY Zenon, <1>8, <1>10 DEF IInv, LinkInv
<1>12. TypeOK' /\ Others(s) /\ Alike(s, mem'[s], dbm'[s])
  BY Zenon, <1>1, <1>5, <1>6, <1>7, <1>8, <1>9, <1>10 DEF IInv, TypeOK, Others, Alike
<1>13. s = "maker" => MakerFine(mem'[s], vol'[s], req'[s])
  <2> SUFFICES ASSUME s = "maker" PROVE MakerFine(mem'[s], vol'[s], req'[s])
    BY Zenon
  <2>1. MakerFine(mem[s], vol[s], req[s])
    BY Zenon, MakerIsFine DEF MakerPart, M
  <2>2. vol'[s].stage = "idle" /\ ~vol'[s].refundErr /\ vol'[s].audits = {}
    BY Zenon, <1>2, <1>6
  <2> QED BY Zenon, <1>4, <1>5, <1>9, <2>1, <2>2 DEF MakerFine, Alike
<1>14. s = "taker" => TakerFine(mem'[s], vol'[s], req'[s], tracked'[s])
  <2> SUFFICES ASSUME s = "taker" PROVE TakerFine(mem'[s], vol'[s], req'[s], tracked'[s])
    BY Zenon
  <2>1. TakerFine(mem[s], vol[s], req[s], tracked[s]) /\ swapCast(s) = 2 /\ mem[s].status \in 0..5
    BY Zenon, TakerIsFine, Ranges DEF TakerPart, T, swapCast
  <2>2. /\ vol'[s].stage = "idle" /\ ~vol'[s].refundErr /\ vol'[s].audits = {}
        /\ vol'[s].swapErr => mem[s].status < 2
    BY Zenon, <1>2, <1>4, <1>6, <2>1 DEF Alike
  <2>3. /\ mem'[s].status = mem[s].status /\ mem'[s].own = mem[s].own /\ mem'[s].redeem = mem[s].redeem
        /\ mem'[s].refund = mem[s].refund /\ mem'[s].secret = mem[s].secret
    BY Zenon, <1>4, <1>5 DEF Alike
  <2>4. mem[s].own /\ ~tracked'[s] => ~Owed
    <3>1. mem[s].own /\ ~tracked'[s] => mem[s].status \in {4, 5}
      BY <1>4, <1>7, <2>1 DEF MatchIsActive, Alike, TakerFine
    <3> QED BY Zenon, <2>1, <3>1 DEF TakerFine, Owed
  <2>5. vol'[s].swapErr => ~mem[s].own
    BY <2>1, <2>2 DEF TakerFine
  <2> QED BY Zenon, <1>9, <2>1, <2>2, <2>3, <2>4, <2>5 DEF TakerFine
<1> QED BY Zenon, <1>1, <1>10, <1>11, <1>12, <1>13, <1>14, ClientActs

\* Time passes; from the taker's lock time to the maker's, only when nobody is busy.
LEMMA TickStep == ASSUME IInv, NoneLost, Tick PROVE IInv'
\* A taker whose contract is redeemed does not rest before it is paid.
<1>TakerIsBusy.
  ASSUME chain["taker"].step = "redeemed", chain["maker"].step # "redeemed"
  PROVE  Busy("taker")
  <2> USE <1>TakerIsBusy
  <2>1. MakerFine(M, vol["maker"], req["maker"]) /\ TakerFine(T, vol["taker"], req["taker"], tracked["taker"]) /\ Shared
    BY Zenon, MakerIsFine, TakerIsFine, SharedHolds DEF MakerPart, TakerPart
  <2>2. srv.status \in 0..4 /\ T.status \in 0..5 /\ chain["maker"] \in Contract
    BY Zenon, Ranges, TheSides DEF IInv, TypeOK, T
  <2>3. srv.status >= 2 /\ T.own /\ M.own /\ chain["maker"].step = "locked" /\ Owed
    BY Zenon, <2>1, <2>2 DEF MakerFine, TakerFine, Shared, Contract, Owed
  <2>4. T.status \in {2, 3} /\ tracked["taker"] /\ ~vol["taker"].swapErr /\ ~T.refund /\ (T.status = 2 => ~T.secret)
    BY <2>1, <2>2, <2>3 DEF TakerFine, Owed
  <2>5. MatchIsActive("taker", mem["taker"]) /\ ~isSwappable("taker")
    BY <2>4 DEF MatchIsActive, isSwappable, MaySwap, T
  <2>6. CASE T.status = 3
    <3>1. isRedeemable("taker")
      BY Zenon, <2>4, <2>6 DEF isRedeemable, MayRedeem, T
    <3>2. Decision("taker") = "redeem"
      BY <2>5, <3>1, Zenon DEF Decision
    <3> QED BY <2>3, <2>4, <2>5, <3>2, TheSides, Zenon DEF Busy
  <2>7. CASE T.status = 2
    <3>1. ~isRedeemable("taker")
      BY <2>7 DEF isRedeemable, T
    <3>2. CASE vol["taker"].search
      BY <3>2, TheSides, Zenon DEF Busy, NoneLost
    <3>3. CASE ~vol["taker"].search
      <4>1. shouldBeginFindRedemption("taker", mem["taker"].revoked \/ shouldRevoke("taker"))
        BY <2>3, <2>4, <2>7, <3>3, Zenon DEF shouldBeginFindRedemption, T, Spent
      <4>2. Decision("taker") \in {"refund", "search"}
        BY <2>5, <3>1, <4>1, Zenon DEF Decision
      <4> QED BY <2>4, <2>5, <4>2, Zenon DEF Busy
    <3> QED BY Zenon, <3>2, <3>3
  <2> QED BY Zenon, <2>4, <2>6, <2>7
<1>1. /\ UNCHANGED <<mem, dbm, vol, tracked, link, req, net, srv, chain>> /\ clock < 2 /\ clock' = clock + 1
      /\ clock = 1 => \A s \in Sides : ~Busy(s)
  BY Zenon DEF Tick, lockTime
<1>2. MakerFine(M, vol["maker"], req["maker"]) /\ TakerFine(T, vol["taker"], req["taker"], tracked["taker"]) /\ Shared
  BY Zenon, MakerIsFine, TakerIsFine, SharedHolds DEF MakerPart, TakerPart
<1>3. clock \in 0..1 /\ clock' \in 0..2
  BY <1>1, Ranges
<1>4. \A s \in Sides : chain[s].lock \in 0..2
  BY Zenon, Ranges
<1>5. clock = 1 => vol["taker"].stage # "swap" /\ ~(vol["maker"].stage = "redeem" /\ chain["taker"].step = "locked")
  BY Zenon, <1>1, TheSides DEF Busy
<1>6. clock = 1 /\ chain["taker"].step = "redeemed" => chain["maker"].step = "redeemed"
  BY Zenon, <1>1, TheSides, <1>TakerIsBusy
<1>7. TypeOK' /\ SameInv' /\ LinkInv'
  BY Zenon, <1>1, <1>3 DEF IInv, TypeOK, SameInv, Alike, LinkInv
<1>8. Shared'
  BY <1>1, <1>2, <1>3, <1>4, <1>6, TheSides DEF Shared, Sides
<1>9. M' = M /\ T' = T /\ vol' = vol /\ req' = req /\ tracked' = tracked /\ srv' = srv /\ net' = net /\ chain' = chain
  BY Zenon, <1>1 DEF M, T
<1>10. MakerPart'
  <2>1. clock' >= chain["maker"].lock \/ ~(clock >= chain["maker"].lock)
    BY <1>1, <1>3, <1>4, TheSides
  <2>2. vol["maker"].stage = "redeem" /\ chain["taker"].step = "locked" => clock' <= 1
    BY <1>1, <1>3, <1>5
  <2> QED BY ZenonT(30), <1>2, <1>9, <2>1, <2>2 DEF MakerPart, MakerFine, Spent
<1>11. TakerPart'
  <2>1. clock' >= chain["taker"].lock \/ ~(clock >= chain["taker"].lock)
    BY <1>1, <1>3, <1>4, TheSides
  <2>2. vol["taker"].stage = "swap" => clock' <= 1
    BY <1>1, <1>3, <1>5
  <2> QED BY ZenonT(30), <1>2, <1>9, <2>1, <2>2 DEF TakerPart, TakerFine, Spent, Owed
<1> QED BY Zenon, <1>7, <1>8, <1>10, <1>11, PartsSuffice

\* Only three of the wallet calls change a contract's step.
LEMMA ChainKept ==
  ASSUME TypeOK, [Next]_vars, ~(\E s \in Sides : Swap(s) \/ Redeem(s) \/ Refund(s))
  PROVE  \A t \in Sides : chain'[t].step = chain[t].step
<1>1. CASE chain' = chain
  BY Zenon, <1>1
<1>2. ASSUME NEW c \in Sides, Mine(c) PROVE \A t \in Sides : chain'[t].step = chain[t].step
  <2>1. chain' = [chain EXCEPT ![c].mined = TRUE] /\ chain \in [Sides -> Contract]
    BY Zenon, <1>2 DEF Mine, TypeOK
  <2> QED BY <2>1, ZenonT(30) DEF Contract
<1>3. ASSUME NEW s \in Sides, Client(s) PROVE chain' = chain
  <2>1. CASE tick(s)
    BY <2>1, ZenonT(30) DEF tick, tickCalls, tickSearches, tickConfirms, tickRests, tickRecovers
  <2>2. CASE walletCalls(s)
    BY <2>2, ZenonT(30) DEF walletCalls, SwapRecorded, RedeemRecorded, RefundRecorded
  <2>3. CASE handlers(s)
    BY <2>3, ZenonT(30) DEF handlers, handleAudit, handleRevokeMatch, auditContract, Answered
  <2> QED BY <1>3, <2>1, <2>2, <2>3, ZenonT(30) DEF Client, Retire, Reconnect, SearchEnds, handleRedemption
<1>4. ASSUME NEW s \in Sides, Disconnect(s) \/ Crash(s) PROVE chain' = chain
  BY <1>4, Zenon DEF Disconnect, Crash
<1>5. CASE Server \/ ServerRevokes \/ Tick \/ UNCHANGED vars
  BY <1>1, <1>5, ZenonT(30) DEF Server, ServerHandles, ServerRevokes, Tick, vars
<1> QED BY <1>1, <1>2, <1>3, <1>4, <1>5, Zenon DEF Next, Chains

Atomic == [Swaps!Next]_(Swaps!swaps)

\* Every step is one of an atomic swap, or leaves the contracts alone.
LEMMA StepIsAtomic == ASSUME IInv, [Next]_vars PROVE Atomic
<1>SwapIsAtomic. ASSUME NEW s \in Sides, Swap(s) PROVE Atomic
  <2> USE <1>SwapIsAtomic
  <2>1. MakerFine(M, vol["maker"], req["maker"]) /\ TakerFine(T, vol["taker"], req["taker"], tracked["taker"]) /\ Shared
    BY Zenon, MakerIsFine, TakerIsFine, SharedHolds DEF MakerPart, TakerPart
  <2>2. vol[s].stage = "swap"
    BY SwapEnds, ZenonT(30)
  <2>3. \A o \in Sides : o # s => chain'[o] = chain[o]
    BY SwapEnds, ZenonT(30)
  <2>4. chain'[s] = chain[s] \/ chain'[s].step = "locked"
    BY SwapEnds, ZenonT(30)
  <2>5. srv.status \in 0..4 /\ clock \in 0..2 /\ \A o \in Sides : mem[o].status \in 0..5 /\ chain[o] \in Contract
    BY Zenon, Ranges DEF IInv, TypeOK
  <2>6. CASE s = "maker"
    <3>1. chain["maker"].step \in {"none", "locked"}
      BY <2>1, <2>2, <2>5, <2>6, TheSides DEF MakerFine, Contract, Spent
    <3>2. chain'["taker"].step = chain["taker"].step
      BY Zenon, <2>3, <2>6, TheSides
    <3> QED BY <2>4, <2>6, <3>1, <3>2, Zenon DEF Atomic, Swaps!Next, Swaps!swaps, Swaps!FundMaker
  <2>7. CASE s = "taker"
    <3>1. T.status = 1 /\ clock <= 1 /\ srv.status = 1 /\ ~T.own
      BY <2>1, <2>2, <2>5, <2>7, TheSides DEF TakerFine
    <3>2. chain["taker"].step \in {"none", "locked"}
      BY Zenon, <2>1, <2>5, <3>1, TheSides DEF TakerFine, Contract, Spent
    <3>3. chain["maker"].step \in {"none", "locked", "redeemed", "refunded"}
      BY Zenon, <2>5, TheSides DEF Contract
    <3>4. chain["maker"].step # "none" /\ chain["maker"].step # "redeemed" /\ chain["maker"].step # "refunded"
      BY <2>1, <2>5, <3>1, <3>2, TheSides DEF MakerFine, Shared
    <3>5. chain'["maker"].step = chain["maker"].step
      BY Zenon, <2>3, <2>7, TheSides
    <3> QED BY <2>4, <2>7, <3>2, <3>3, <3>4, <3>5, Zenon DEF Atomic, Swaps!Next, Swaps!swaps, Swaps!FundTaker
  <2> QED BY Zenon, <2>6, <2>7 DEF Sides
<1>RedeemIsAtomic. ASSUME NEW s \in Sides, Redeem(s) PROVE Atomic
  <2> USE <1>RedeemIsAtomic
  <2>1. /\ vol[s].stage = "redeem"
        /\ \/ chain[other(s)].step = "locked" /\ chain' = [chain EXCEPT ![other(s)].step = "redeemed"]
           \/ UNCHANGED chain
    BY ZenonT(30) DEF Redeem
  <2>2. CASE UNCHANGED chain
    BY <2>2, Zenon DEF Atomic, Swaps!swaps
  <2>3. CASE chain[other(s)].step = "locked" /\ chain' = [chain EXCEPT ![other(s)].step = "redeemed"]
    <3>1. MakerFine(M, vol["maker"], req["maker"]) /\ TakerFine(T, vol["taker"], req["taker"], tracked["taker"]) /\ Shared
      BY Zenon, MakerIsFine, TakerIsFine, SharedHolds DEF MakerPart, TakerPart
    <3>2. chain \in [Sides -> Contract] /\ other(s) \in Sides /\ other(s) # s
      BY Zenon DEF IInv, TypeOK, other, Sides
    <3>3. chain'[s].step = chain[s].step /\ chain'[other(s)].step = "redeemed"
      BY <2>3, <3>2, ZenonT(30) DEF Contract
    <3>4. srv.status \in 0..4 /\ clock \in 0..2 /\ \A o \in Sides : chain[o] \in Contract
      BY Zenon, Ranges DEF IInv, TypeOK
    <3>5. CASE s = "maker"
      <4>1. chain["taker"].step = "locked" /\ chain'["taker"].step = "redeemed" /\ chain'["maker"].step = chain["maker"].step
        BY Zenon, <2>3, <3>3, <3>5, TheSides
      <4>2. clock <= 1 /\ srv.status >= 2 /\ M.own
        BY <2>1, <3>1, <3>4, <3>5, <4>1 DEF MakerFine
      <4>3. chain["maker"].step = "locked"
        BY <3>1, <3>4, <4>1, <4>2, TheSides DEF MakerFine, Shared, Contract
      <4> QED BY <4>1, <4>3, Zenon DEF Atomic, Swaps!Next, Swaps!MakerRedeems
    <3>6. CASE s = "taker"
      <4>1. chain["maker"].step = "locked" /\ chain'["maker"].step = "redeemed" /\ chain'["taker"].step = chain["taker"].step
        BY ZenonT(30), <2>3, <3>3, <3>6, TheSides
      <4>2. chain["taker"].step = "redeemed"
        BY Zenon, <2>1, <3>1, <3>6 DEF TakerFine
      <4> QED BY <4>1, <4>2, Zenon DEF Atomic, Swaps!Next, Swaps!TakerRedeems
    <3> QED BY Zenon, <3>5, <3>6 DEF Sides
  <2> QED BY Zenon, <2>1, <2>2, <2>3
<1>RefundIsAtomic. ASSUME NEW s \in Sides, Refund(s) PROVE Atomic
  <2> USE <1>RefundIsAtomic
  <2>1. /\ vol[s].stage = "refund"
        /\ \/ chain[s].step = "locked" /\ chain' = [chain EXCEPT ![s].step = "refunded"]
           \/ UNCHANGED chain
    BY ZenonT(30) DEF Refund
  <2>2. CASE UNCHANGED chain
    BY <2>2, Zenon DEF Atomic, Swaps!swaps
  <2>3. CASE chain[s].step = "locked" /\ chain' = [chain EXCEPT ![s].step = "refunded"]
    <3>1. MakerFine(M, vol["maker"], req["maker"]) /\ Shared
      BY Zenon, MakerIsFine, SharedHolds DEF MakerPart
    <3>2. chain \in [Sides -> Contract] /\ clock \in 0..2 /\ srv.status \in 0..4
      BY Zenon, Ranges DEF IInv, TypeOK
    <3>3. chain'[s].step = "refunded" /\ \A o \in Sides : o # s => chain'[o] = chain[o]
      BY <2>3, <3>2, ZenonT(30) DEF Contract
    <3>4. CASE s = "maker"
      <4>1. chain["maker"].step = "locked" /\ chain'["maker"].step = "refunded" /\ chain'["taker"] = chain["taker"]
        BY ZenonT(30), <2>3, <3>3, <3>4, TheSides
      <4>2. clock >= chain["maker"].lock
        BY Zenon, <2>1, <3>1, <3>4 DEF MakerFine
      <4>3. chain["taker"].step # "redeemed"
        BY <3>1, <3>2, <4>1, <4>2 DEF Shared
      <4> QED BY <4>1, <4>3, Zenon DEF Atomic, Swaps!Next, Swaps!MakerRefunds
    <3>5. CASE s = "taker"
      <4>1. chain["taker"].step = "locked" /\ chain'["taker"].step = "refunded" /\ chain'["maker"] = chain["maker"]
        BY Zenon, <2>3, <3>3, <3>5, TheSides
      <4> QED BY <4>1, Zenon DEF Atomic, Swaps!Next, Swaps!TakerRefunds
    <3> QED BY Zenon, <3>4, <3>5 DEF Sides
  <2> QED BY Zenon, <2>1, <2>2, <2>3
<1>1. CASE \E s \in Sides : Swap(s) \/ Redeem(s) \/ Refund(s)
  BY <1>1, <1>SwapIsAtomic, <1>RedeemIsAtomic, <1>RefundIsAtomic, Zenon
<1>2. CASE ~(\E s \in Sides : Swap(s) \/ Redeem(s) \/ Refund(s))
  <2>1. \A t \in Sides : chain'[t].step = chain[t].step
    BY <1>2, ChainKept, Zenon DEF IInv
  <2> QED BY <2>1, TheSides, Zenon DEF Atomic, Swaps!swaps
<1> QED BY Zenon, <1>1, <1>2

\* Whoever has funded a contract without a record of it does not fund
\* another, unless the contract can be asked.
OnceInv ==
  \A s \in Sides :
    /\ chain[s].step # "none" /\ ~mem[s].own => vol[s].swapErr \/ vol[s].stage = "swapped" \/ s \in AccountSides
    /\ vol[s].stage = "swap" => chain[s].step = "none"

\* Every step keeps OnceInv.
LEMMA OnceStep ==
  ASSUME IInv, OnceInv, ~WalletDown, "maker" \notin AccountSides, [Next]_vars
  PROVE  OnceInv'
<1>OnceKept.
  ASSUME Frame, OwnKept, \A t \in Sides : chain'[t].step = "none" <=> chain[t].step = "none"
  PROVE  OnceInv'
  BY <1>OnceKept, Zenon DEF OnceInv, Frame, OwnKept
<1>SpendKeepsChain.
  ASSUME TypeOK, NEW s \in Sides, Redeem(s) \/ Refund(s)
  PROVE  \A t \in Sides : chain'[t].step = "none" <=> chain[t].step = "none"
  <2> USE <1>SpendKeepsChain
  <2>1. chain \in [Sides -> Contract] /\ other(s) \in Sides
    BY Zenon DEF TypeOK, other, Sides
  <2>2. \/ chain' = chain
        \/ \E c \in {s, other(s)}, e \in {"redeemed", "refunded"} :
             chain[c].step = "locked" /\ chain' = [chain EXCEPT ![c].step = e]
    BY ZenonT(30) DEF Redeem, Refund
  <2>3. ASSUME NEW c \in Sides, NEW e \in {"redeemed", "refunded"}, chain[c].step = "locked",
               chain' = [chain EXCEPT ![c].step = e]
        PROVE  \A t \in Sides : chain'[t].step = "none" <=> chain[t].step = "none"
    <3>1. chain'[c].step = e /\ \A t \in Sides : t # c => chain'[t] = chain[t]
      BY <2>1, <2>3, ZenonT(30) DEF Contract
    <3> QED BY Zenon, <2>3, <3>1
  <2> QED BY <2>1, <2>2, <2>3, Zenon
<1>OnceCalls.
  ASSUME NEW s \in Sides, tickCalls(s)
  PROVE  OnceInv'
  <2> USE <1>OnceCalls
  <2>1. PICK d \in {"swap", "redeem", "refund"} : Checked(s, d) /\ vol' = [vol EXCEPT ![s].stage = d]
    BY Zenon DEF tickCalls
  <2>2. chain' = chain /\ OwnKept
    BY OwnStep, Zenon DEF tickCalls, tick, Client
  <2>3. TypeOK /\ d \in Stages /\ d # "swapped"
    BY Zenon DEF IInv, Stages
  <2>4. /\ \A o \in Sides : o # s => vol'[o] = vol[o]
        /\ vol'[s].stage = d /\ vol'[s].swapErr = vol[s].swapErr
    BY <2>1, <2>3, Staged, ZenonT(30)
  <2>5. vol[s].stage = "idle"
    BY <2>1, Zenon DEF Checked
  <2>6. d = "swap" => chain[s].step = "none"
    <3> SUFFICES ASSUME d = "swap", chain[s].step # "none" PROVE FALSE
      BY Zenon
    <3>1. MaySwap(s) /\ ~Initialized(s)
      BY Zenon, <2>1 DEF Checked, Decision, isSwappable
    <3>2. ~vol[s].swapErr /\ ~mem[s].own
      BY <3>1, Ranges DEF MaySwap, IInv, OwnInv, swapCast, Sides
    <3>3. s \in AccountSides
      BY <2>5, <3>2, Zenon DEF OnceInv
    <3>4. s = "taker"
      BY Zenon, <3>3 DEF Sides
    <3>5. chain[s].lock = lockTime(s)
      BY Zenon, <3>4 DEF IInv, ChainInv, lockTime
    <3> QED BY <3>1, <3>3, <3>4, <3>5, Zenon DEF Initialized
  <2> QED BY <2>2, <2>4, <2>5, <2>6, Zenon DEF OnceInv, OwnKept
<1>OnceSwap. ASSUME NEW s \in Sides, Swap(s) PROVE OnceInv'
  <2> USE <1>OnceSwap
  <2>1. /\ vol[s].stage = "swap"
        /\ \/ chain' = [chain EXCEPT ![s] = Funded(contractLock(s))] /\ vol' = [vol EXCEPT ![s].stage = "swapped"]
           \/ chain' = chain /\ vol' = [vol EXCEPT ![s].stage = "idle"]
           \/ /\ \E e \in BOOLEAN : vol' = [vol EXCEPT ![s].stage = "idle", ![s].swapErr = e]
              /\ \/ chain' = chain
                 \/ s \in AccountSides /\ chain' = [chain EXCEPT ![s] = Funded(contractLock(s))]
    BY Zenon DEF Swap
  <2>2. TypeOK /\ vol \in [Sides -> Vol] /\ chain[s].step = "none" /\ OwnKept
    BY Zenon, <2>1, OwnStep DEF IInv, TypeOK, OnceInv, walletCalls, Client
  <2>3. \A o \in Sides : o # s => vol'[o] = vol[o] /\ chain'[o] = chain[o]
    BY SwapEnds, ZenonT(30)
  <2>4. vol'[s].stage # "swap"
    BY SwapEnds, ZenonT(30)
  <2>5. chain'[s].step = "none" \/ vol'[s].stage = "swapped" \/ s \in AccountSides
    <3>1. CASE vol' = [vol EXCEPT ![s].stage = "swapped"]
      BY <2>2, <3>1, Staged, ZenonT(30) DEF Stages
    <3> QED BY <2>1, <2>2, <3>1, Zenon
  <2> QED BY <2>2, <2>3, <2>4, <2>5, Zenon DEF OnceInv, OwnKept
<1>OnceRecorded. ASSUME NEW s \in Sides, SwapRecorded(s) PROVE OnceInv'
  <2> USE <1>OnceRecorded
  <2> DEFINE n == [mem[s] EXCEPT !.own = TRUE, !.status = swapCast(s)]
  <2>1. mem' = [mem EXCEPT ![s] = n] /\ vol' = [vol EXCEPT ![s].stage = "idle"] /\ chain' = chain
    BY Zenon DEF SwapRecorded
  <2>2. TypeOK /\ mem \in [Sides -> Match] /\ mem[s] \in Match /\ swapCast(s) \in 0..5 /\ "idle" \in Stages
    BY DEF IInv, TypeOK, swapCast, Stages
  <2>3. n \in Match /\ n.own
    BY <2>2, SwapSet, Zenon
  <2> HIDE DEF n
  <2>4. mem'[s].own /\ \A o \in Sides : o # s => mem'[o] = mem[o]
    BY <2>1, <2>2, <2>3, Put, Zenon
  <2>5. vol'[s].stage = "idle" /\ \A o \in Sides : o # s => vol'[o] = vol[o]
    BY <2>1, <2>2, Staged, Zenon
  <2> QED BY <2>1, <2>4, <2>5, ZenonT(30) DEF OnceInv
<1>OnceCrash. ASSUME NEW s \in Sides, Crash(s) PROVE OnceInv'
  <2> USE <1>OnceCrash
  <2> DEFINE e == dbm[s].status < swapCast(s) /\ chain[s].step # "none" /\ s \notin AccountSides
             v == [Idle EXCEPT !.swapErr = e]
  <2>1. vol' = [vol EXCEPT ![s] = v] /\ mem' = [mem EXCEPT ![s] = dbm[s]] /\ chain' = chain
    BY Zenon DEF Crash
  <2>2. vol \in [Sides -> Vol] /\ mem \in [Sides -> Match] /\ dbm[s] \in Match
    BY Zenon DEF IInv, TypeOK
  <2>3. mem'[s] = dbm[s] /\ vol'[s] = v /\ \A o \in Sides : o # s => vol'[o] = vol[o] /\ mem'[o] = mem[o]
    <3> HIDE DEF v
    <3> QED BY <2>1, <2>2, Zenon
  <2>4. ~dbm[s].own => dbm[s].status < swapCast(s)
    BY Ranges DEF IInv, OwnInv, SameInv, Alike, swapCast
  <2>5. v.stage = "idle" /\ (v.swapErr <=> e)
    BY Zenon DEF Idle
  <2> HIDE DEF v
  <2> QED BY <2>1, <2>3, <2>4, <2>5, ZenonT(30) DEF OnceInv
<1>1. TypeOK
  BY Zenon DEF IInv
<1>2. CASE \E s \in Sides : Crash(s) \/ Swap(s) \/ SwapRecorded(s) \/ tickCalls(s)
  BY <1>2, <1>OnceCrash, <1>OnceSwap, <1>OnceRecorded, <1>OnceCalls, Zenon
<1>3. CASE \E s \in Sides : Redeem(s) \/ Refund(s)
  BY <1>1, <1>3, FrameStep, <1>SpendKeepsChain, OwnStep, <1>OnceKept, Zenon DEF walletCalls, Client
<1>4. CASE ~(\E s \in Sides : \/ Crash(s) \/ Swap(s) \/ SwapRecorded(s) \/ tickCalls(s) \/ Redeem(s) \/ Refund(s))
  <2>1. \A t \in Sides : chain'[t].step = chain[t].step
    BY <1>1, <1>4, ChainKept, Zenon
  <2>2. ASSUME NEW s \in Sides, Client(s) PROVE Frame /\ OwnKept
    <3>1. CASE tick(s) \/ walletCalls(s)
      BY <1>1, <1>4, <2>2, <3>1, FrameStep, OwnStep, Zenon DEF tick, walletCalls
    <3> QED BY <1>1, <2>2, <3>1, FrameStep, OwnStep, Zenon DEF Client
  <2>3. CASE (\E s \in Sides : Disconnect(s)) \/ Server \/ ServerRevokes \/ Chains \/ Tick \/ UNCHANGED vars
    BY <2>1, <2>3, OtherFrame, OwnStep, <1>OnceKept, Zenon
  <2> QED BY <1>4, <2>1, <2>2, <2>3, <1>OnceKept, Zenon DEF Next
<1> QED BY <1>2, <1>3, <1>4, Zenon

\* A recorded contract that is locked belongs to an active match.
LEMMA RecordedActs == IInv => RecordedIsActive
<1> SUFFICES ASSUME IInv, NEW s \in Sides, chain[s].step = "locked", dbm[s].own,
                    chain[other(s)].step # "redeemed"
             PROVE  MatchIsActive(s, dbm[s])
  BY Zenon DEF RecordedIsActive
<1>1. MakerFine(M, vol["maker"], req["maker"]) /\ TakerFine(T, vol["taker"], req["taker"], tracked["taker"])
  BY Zenon, MakerIsFine, TakerIsFine DEF MakerPart, TakerPart
<1>2. mem[s].own /\ dbm[s].status = mem[s].status /\ mem[s].status \in 0..5
  BY Zenon, Ranges DEF IInv, SameInv, Alike
<1>3. mem[s].status \in swapCast(s)..3
  <2>1. CASE s = "maker"
    BY <1>1, <1>2, <2>1, TheSides DEF MakerFine, M, Spent, swapCast
  <2>2. CASE s = "taker"
    BY <1>1, <1>2, <2>2, TheSides DEF TakerFine, T, Owed, swapCast
  <2> QED BY Zenon, <2>1, <2>2 DEF Sides
<1> QED BY <1>2, <1>3 DEF MatchIsActive, swapCast, Sides

\* A contract that is locked when all lock times have passed is refunded.
LEMMA LockedIsBusy ==
  ASSUME IInv, clock = 2, NEW s \in Sides, tracked[s], mem[s].own, chain[s].step = "locked"
  PROVE  Busy(s)
<1>1. MakerFine(M, vol["maker"], req["maker"]) /\ TakerFine(T, vol["taker"], req["taker"], tracked["taker"]) /\ Shared
  BY Zenon, MakerIsFine, TakerIsFine, SharedHolds DEF MakerPart, TakerPart
<1>2. mem[s].status \in 0..5 /\ ~Spent(s) /\ \A c \in Sides : Expired(c)
  BY Ranges DEF Spent, Expired
<1>3. /\ ~vol[s].refundErr /\ ~mem[s].refund
      /\ IF s = "maker" THEN mem[s].status \in {1, 2} ELSE mem[s].status = 2
  <2>1. CASE s = "maker"
    <3>1. chain["taker"].step # "redeemed" /\ chain["maker"].step # "refunded"
      BY Zenon, <1>1, <2>1 DEF Shared
    <3>2. mem[s].status >= 1 /\ mem[s].status \notin {3, 4} /\ mem[s].status # 5 /\ ~vol[s].refundErr /\ ~mem[s].refund
      BY Zenon, <1>1, <1>2, <2>1, <3>1 DEF MakerFine, M
    <3> QED BY <1>2, <2>1, <3>2
  <2>2. CASE s = "taker"
    <3>1. chain["maker"].step # "redeemed" /\ chain["taker"].step # "redeemed" /\ Owed
      BY Zenon, <1>1, <2>2 DEF Shared, Owed
    <3>2. mem[s].status >= 2 /\ mem[s].status \notin {3, 4} /\ mem[s].status # 5 /\ ~vol[s].refundErr /\ ~mem[s].refund
      BY Zenon, <1>1, <1>2, <2>2, <3>1 DEF TakerFine, T
    <3> QED BY <1>2, <2>2, <3>2, TheSides
  <2> QED BY Zenon, <2>1, <2>2 DEF Sides
<1>4. MatchIsActive(s, mem[s]) /\ ~isSwappable(s)
  BY <1>3 DEF MatchIsActive, isSwappable, MaySwap, Sides
<1>5. ~isRedeemable(s) /\ isRefundable(s)
  BY <1>2, <1>3, TheSides DEF isRedeemable, isRefundable, Sides
<1>6. Decision(s) = "refund"
  BY <1>4, <1>5, Zenon DEF Decision
<1> QED BY <1>4, <1>6, Zenon DEF Busy

\* The requests under way are about what was done.
LEMMA AllHonest ==
  ASSUME IInv
  PROVE  \A s \in Sides : /\ Honest(s, req[s])
                          /\ mem[s].redeem => chain[other(s)].step = "redeemed"
<1>1. \A s \in Sides : req[s].init # "none" => mem[s].own
  BY Zenon DEF IInv, OwnInv
<1>2. /\ req["maker"].redeem # "none" \/ M.redeem => chain["taker"].step = "redeemed"
      /\ req["taker"].redeem # "none" \/ T.redeem => chain["maker"].step = "redeemed"
  BY Zenon DEF IInv, SpendInv, MakerRedeemKnown, TakerRedeemKnown
<1> QED BY Zenon, <1>1, <1>2, TheSides DEF Honest, M, T, Sides

\* The server revokes or refuses, and its status stays.
LEMMA KeepsRelays ==
  ASSUME IInv
  PROVE  /\ srv.status >= 1 => M.own /\ chain["maker"].lock = 2
         /\ srv.status >= 2 => T.own
         /\ srv.status >= 3 => chain["taker"].step = "redeemed"
         /\ srv.status >= 4 => chain["maker"].step = "redeemed"
         /\ audit("taker") \in net => T.status = 0 /\ srv.status = 1 /\ vol["taker"].audits = {}
         /\ audit("maker") \in net => srv.status >= 2
         /\ redemption \in net => chain["taker"].step = "redeemed"
         /\ \A s \in Sides : revoke(s) \in net => ~srv.active
         /\ \A s \in Sides : audit(s) \in net => link[s]
BY Zenon DEF IInv, RelayInv, SpendInv, LinkInv, MakerRedeemKnown, TakerRedeemKnown

\* A request that is answered, or whose answer is taken.
LEMMA Replied ==
  ASSUME IInv, NEW s \in Sides, NEW kind \in {"init", "redeem"}, NEW a \in Answers, req[s][kind] # "none",
         req' = [req EXCEPT ![s][kind] = a]
  PROVE  req' \in [Sides -> Pair] /\ \A t \in Sides : Honest(t, req'[t])
<1>1. req \in [Sides -> Pair]
  BY Zenon DEF IInv, TypeOK
<1>2. req' \in [Sides -> Pair] /\ \A t \in Sides : t # s => req'[t] = req[t]
  BY Zenon, <1>1 DEF Pair
<1>3. \A k \in {"init", "redeem"} : req'[s][k] # "none" => req[s][k] # "none"
  BY Zenon, <1>1 DEF Pair
<1>4. \A t \in Sides : /\ req'[t].init # "none" => req[t].init # "none"
                       /\ req'[t].redeem # "none" => req[t].redeem # "none"
  BY Zenon, <1>2, <1>3
<1> QED BY Zenon, <1>2, <1>4, AllHonest DEF Honest

\* What the server may relay and answer.
Relays ==
  /\ srv'.status >= srv.status /\ (srv'.active => srv.active)
  /\ srv'.status >= 1 => M.own /\ chain["maker"].lock = 2
  /\ srv'.status >= 2 => T.own
  /\ srv'.status >= 3 => chain["taker"].step = "redeemed"
  /\ srv'.status >= 4 => chain["maker"].step = "redeemed"
  /\ audit("taker") \in net' => T.status = 0 /\ srv'.status = 1 /\ vol["taker"].audits = {}
  /\ audit("maker") \in net' => srv'.status >= 2
  /\ redemption \in net' => chain["taker"].step = "redeemed"
  /\ \A s \in Sides : revoke(s) \in net' => ~srv'.active
  /\ \A s \in Sides : audit(s) \in net' => link[s]

\* The steps of the server.
LEMMA ServerSteps ==
  IInv =>
    /\ ServerRevokes => IInv'
    /\ \A s \in Sides, kind \in {"init", "redeem"} : ServerHandles(s, kind) => IInv'
<1>RelaysStep.
  ASSUME IInv, UNCHANGED <<mem, dbm, vol, tracked, link, chain, clock>>, net' \subseteq Message,
         srv' \in [status : 0..4, active : BOOLEAN], req' \in [Sides -> Pair],
         \A s \in Sides : Honest(s, req'[s]), Relays, srv'.status = srv.status \/ srv.active
  PROVE  IInv'
  <2> USE <1>RelaysStep
  <2>1. TypeOK' /\ SameInv'
    BY Zenon DEF IInv, TypeOK, SameInv, Alike
  <2>2. OwnInv'
    BY Zenon DEF IInv, OwnInv, Honest, Spent
  <2>3. RelayInv'
    <3>1. srv.status \in 0..4 /\ srv'.status \in 0..4
      BY Zenon DEF IInv, TypeOK
    <3>2. T.status = 0 => ~T.own
      BY TheSides DEF IInv, OwnInv, T, swapCast
    <3>3. vol["taker"].audits # {} => T.status = 0 /\ srv'.status = 1
      BY <3>1, <3>2 DEF IInv, RelayInv, Relays
    <3>4. M' = M /\ T' = T
      BY Zenon DEF M, T
    <3> QED BY <3>1, <3>3, <3>4 DEF IInv, RelayInv, Relays
  <2>4. LinkInv'
    BY Zenon DEF LinkInv, Relays
  <2>5. SpendInv'
    <3>1. /\ req'["maker"].redeem # "none" => chain["taker"].step = "redeemed"
          /\ req'["taker"].redeem # "none" => chain["maker"].step = "redeemed"
      BY Zenon, TheSides DEF Honest
    <3>2. MakerRedeemKnown' => chain["taker"].step = "redeemed"
      BY Zenon, <3>1 DEF IInv, SpendInv, MakerRedeemKnown, Relays, M, T
    <3>3. TakerRedeemKnown' => chain["maker"].step = "redeemed"
      BY Zenon, <3>1 DEF IInv, SpendInv, TakerRedeemKnown, Relays, M, T
    <3> QED BY Zenon, <3>2, <3>3 DEF IInv, SpendInv, M, T, Spent
  <2>6. ChainInv' /\ TakerInv'
    BY ZenonT(30) DEF IInv, ChainInv, TakerInv, Relays, T, Owed
  <2> QED BY Zenon, <2>1, <2>2, <2>3, <2>4, <2>5, <2>6 DEF IInv
<1>Messages.
  /\ \A s \in Sides : audit(s) \in Message /\ revoke(s) \in Message
  /\ redemption \in Message
  /\ \A s, t \in Sides : audit(s) # revoke(t) /\ audit(s) # redemption /\ revoke(s) # redemption
  /\ \A s, t \in Sides : audit(s) = audit(t) => s = t
  BY Zenon DEF Message, audit, revoke, redemption, Sides
<1>Revokes.
  ASSUME IInv, net' = Asked({[to |-> t, kind |-> "revoke"] : t \in Sides})
  PROVE  /\ net' \subseteq Message
         /\ \A s \in Sides : audit(s) \in net' <=> audit(s) \in net
         /\ redemption \in net' <=> redemption \in net
  <2> USE <1>Revokes
  <2>1. net \subseteq Message
    BY Zenon DEF IInv, TypeOK
  <2>2. net \subseteq net' /\ \A r \in net' : r \in net \/ \E t \in Sides : r = revoke(t)
    BY Zenon DEF Asked, revoke
  <2> QED BY Zenon, <2>1, <2>2, <1>Messages
<1>ServerRevokesStep. ASSUME IInv, ServerRevokes PROVE IInv'
  <2> USE <1>ServerRevokesStep
  <2>1. /\ srv' = [srv EXCEPT !.active = FALSE] /\ net' = Asked({[to |-> s, kind |-> "revoke"] : s \in Sides})
        /\ UNCHANGED <<mem, dbm, vol, tracked, link, req, chain, clock>>
    BY Zenon DEF ServerRevokes
  <2>2. srv' \in [status : 0..4, active : BOOLEAN] /\ srv'.status = srv.status /\ ~srv'.active /\ req' \in [Sides -> Pair]
    BY <2>1, ZenonT(30) DEF IInv, TypeOK
  <2>3. srv.status \in 0..4
    BY Zenon DEF IInv, TypeOK
  <2>4. Relays
    BY <2>1, <2>2, <2>3, KeepsRelays, <1>Revokes, TheSides DEF Relays
  <2> QED BY Zenon, <2>1, <2>2, <2>4, <1>Revokes, AllHonest, <1>RelaysStep
\* What a request of a client says is so.
<1>Asks.
  ASSUME IInv, NEW s \in Sides
  PROVE  /\ req[s].init = "sent" => mem[s].own
         /\ req[s].redeem = "sent" => chain[other(s)].step = "redeemed"
  BY <1>Asks, Zenon, AllHonest DEF Honest
<1>ServerHandlesStep.
  ASSUME IInv, NEW s \in Sides, NEW kind \in {"init", "redeem"}, ServerHandles(s, kind)
  PROVE  IInv'
  <2> USE <1>ServerHandlesStep
  <2> DEFINE after == IF kind = "init" THEN swapCast(s) ELSE redeemed(s)
             relay == [to |-> other(s), kind |-> IF kind = "init" THEN "audit" ELSE "redemption"]
  <2>1. /\ req[s][kind] = "sent" /\ UNCHANGED <<mem, dbm, vol, tracked, link, chain, clock>>
        /\ \E a \in Answers : req' = [req EXCEPT ![s][kind] = a]
    BY Zenon DEF ServerHandles, Answers
  <2>2. \/ UNCHANGED <<srv, net>>
        \/ /\ srv' = [srv EXCEPT !.active = FALSE]
           /\ net' = Asked({[to |-> t, kind |-> "revoke"] : t \in Sides})
        \/ /\ srv.active /\ srv.status = after - 1
           /\ kind = "init" => chain[s].lock = lockTime(s)
           /\ srv' = [status |-> after, active |-> after # MatchComplete]
           /\ net' = net \/ (after # MatchComplete /\ net' = Asked({relay}))
    BY ZenonT(30) DEF ServerHandles
  <2>3. req' \in [Sides -> Pair] /\ \A t \in Sides : Honest(t, req'[t])
    BY <2>1, Replied, ZenonT(30)
  <2>4. srv \in [status : 0..4, active : BOOLEAN] /\ net \subseteq Message
    BY Zenon DEF IInv, TypeOK
  <2>5. CASE UNCHANGED <<srv, net>>
    <3>1. Relays
      BY <2>4, <2>5, KeepsRelays DEF Relays
    <3> QED BY <2>1, <2>3, <2>4, <2>5, <3>1, <1>RelaysStep, ZenonT(30)
  <2>6. CASE srv' = [srv EXCEPT !.active = FALSE] /\ net' = Asked({[to |-> t, kind |-> "revoke"] : t \in Sides})
    <3>1. srv' \in [status : 0..4, active : BOOLEAN] /\ srv'.status = srv.status /\ ~srv'.active
      BY <2>4, <2>6, Zenon
    <3>2. Relays
      BY <2>4, <2>6, <3>1, KeepsRelays, <1>Revokes, TheSides DEF Relays
    <3> QED BY <2>1, <2>3, <2>6, <3>1, <3>2, <1>Revokes, <1>RelaysStep, ZenonT(30)
  <2>7. CASE /\ srv.active /\ srv.status = after - 1
             /\ kind = "init" => chain[s].lock = lockTime(s)
             /\ srv' = [status |-> after, active |-> after # MatchComplete]
             /\ net' = net \/ (after # MatchComplete /\ net' = Asked({relay}))
    <3>1. after \in 1..4 /\ after # 0
      BY DEF swapCast, redeemed, Sides
    <3>2. srv' \in [status : 0..4, active : BOOLEAN] /\ srv'.status = after /\ srv.status = after - 1
      BY <2>7, <3>1
    <3>3. net \subseteq net' /\ net' \subseteq net \cup {relay} /\ (relay \in net' /\ relay \notin net => after # 4 /\ link[other(s)])
      BY Zenon, <2>7 DEF Asked
    <3>4. \/ s = "maker" /\ kind = "init" /\ after = 1 /\ relay = audit("taker") /\ M.own /\ chain["maker"].lock = 2
          \/ s = "taker" /\ kind = "init" /\ after = 2 /\ relay = audit("maker") /\ T.own
          \/ s = "maker" /\ kind = "redeem" /\ after = 3 /\ relay = redemption /\ chain["taker"].step = "redeemed"
          \/ s = "taker" /\ kind = "redeem" /\ after = 4 /\ chain["maker"].step = "redeemed"
      BY <2>1, <2>7, <1>Asks DEF swapCast, redeemed, lockTime, other, Sides, audit, redemption, M, T
    <3> HIDE DEF after, relay
    <3>5. T.own => T.status >= 1
      <4>1. T.status \in 0..5
        BY TheSides, Zenon DEF IInv, TypeOK, Match, T
      <4>2. T.own => T.status >= swapCast("taker")
        BY TheSides, Zenon DEF IInv, OwnInv, T
      <4> QED BY <4>1, <4>2 DEF swapCast
    <3>6. srv.status = 0 => T.status = 0 /\ vol["taker"].audits = {}
      <4>1. T.status \in 0..5
        BY TheSides, Zenon DEF IInv, TypeOK, Match, T
      <4>2. (T.status >= 1 => srv.status >= 1) /\ (vol["taker"].audits # {} => srv.status = 1)
        BY Zenon DEF IInv, RelayInv
      <4> QED BY <4>1, <4>2
    <3>7. Relays
      <4>1. /\ srv'.status >= srv.status /\ (srv'.active => srv.active)
            /\ srv'.status >= 1 => M.own /\ chain["maker"].lock = 2
            /\ srv'.status >= 2 => T.own
            /\ srv'.status >= 3 => chain["taker"].step = "redeemed"
            /\ srv'.status >= 4 => chain["maker"].step = "redeemed"
        <5>1. srv'.active => srv.active
          BY <2>7, Zenon
        <5> QED BY <3>1, <3>2, <3>4, <5>1, KeepsRelays
      <4>2. /\ audit("taker") \in net' => T.status = 0 /\ srv'.status = 1 /\ vol["taker"].audits = {}
            /\ audit("maker") \in net' => srv'.status >= 2
            /\ redemption \in net' => chain["taker"].step = "redeemed"
        <5>1. audit("taker") \in net' => audit("taker") \in net \/ after = 1
          BY <3>3, <3>4, <1>Messages, TheSides, Zenon
        <5>5. /\ audit("maker") \in net' => audit("maker") \in net \/ after = 2
              /\ redemption \in net' => redemption \in net \/ chain["taker"].step = "redeemed"
          BY <3>3, <3>4, <1>Messages, TheSides, Zenon
        <5>2. audit("taker") \in net => T.status = 0 /\ srv.status = 1 /\ ~T.own /\ vol["taker"].audits = {}
          BY <3>5, KeepsRelays
        <5>3. (audit("maker") \in net => srv.status >= 2) /\ (redemption \in net => chain["taker"].step = "redeemed")
          BY KeepsRelays, Zenon
        <5>4. after = 2 => T.own
          BY <3>4
        <5>6. audit("taker") \in net' => T.status = 0 /\ srv'.status = 1 /\ vol["taker"].audits = {}
          BY <3>1, <3>2, <3>6, <5>1, <5>2, <5>4
        <5>7. audit("maker") \in net' => srv'.status >= 2
          BY <3>1, <3>2, <5>3, <5>5
        <5> QED BY Zenon, <5>3, <5>5, <5>6, <5>7
      <4>3. \A t \in Sides : revoke(t) \in net' => ~srv'.active
        BY <2>7, <3>3, <3>4, KeepsRelays, <1>Messages, TheSides, Zenon
      <4>4. \A t \in Sides : audit(t) \in net' => link[t]
        BY <3>3, <3>4, KeepsRelays, <1>Messages, TheSides, Zenon
      <4> QED BY <4>1, <4>2, <4>3, <4>4, Zenon DEF Relays
    <3>8. net' \subseteq Message
      BY <2>4, <3>3, <3>4, <1>Messages, TheSides
    <3> QED BY <2>1, <2>3, <2>7, <3>2, <3>7, <3>8, <1>RelaysStep, ZenonT(30)
  <2> QED BY Zenon, <2>2, <2>5, <2>6, <2>7
<1> QED BY <1>ServerRevokesStep, <1>ServerHandlesStep, Zenon
====
