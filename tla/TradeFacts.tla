----------------------------- MODULE TradeFacts -----------------------------
(***************************************************************************)
(* The inductive invariant of the two clients of a match (Trade), and what *)
(* every step of theirs leaves alone.                                      *)
(*                                                                         *)
(* What one wants to know of the clients, that a taker whose contract is   *)
(* redeemed is paid and that nobody is left waiting, is not inductive: it  *)
(* holds because each party acts only on what the other has done, and      *)
(* because a client's record, its requests and the server's messages all   *)
(* come after the transaction they tell of. IInv says this. OwnInv ties    *)
(* the record of a side's swap to its contract, RelayInv the server's      *)
(* knowledge and its messages to the records of both, SpendInv everything  *)
(* that tells of a redeem or a refund to the contract spent, and ChainInv  *)
(* the contracts to the lock times. SameInv says that the row in the       *)
(* database has of a match what memory has, so that a restart loses        *)
(* nothing of it; TakerInv that a taker who is owed the maker's contract   *)
(* still works on the match.                                               *)
(*                                                                         *)
(* MakerFine and TakerFine are what IInv says of one client. A step of a   *)
(* client that leaves the contracts alone is shown to keep those only      *)
(* (ClientActs), so that the other client, the server and the contracts    *)
(* need not be looked at again.                                            *)
(*                                                                         *)
(* FrameStep and OwnStep, for the proof that a client funds one contract,  *)
(* say which steps touch the stage of a wallet call and that none forgets  *)
(* a contract.                                                             *)
(***************************************************************************)
EXTENDS Trade, TLAPS

USE DEF NewlyMatched, MakerSwapCast, TakerSwapCast, MakerRedeemed, MatchComplete, MatchConfirmed

Match == [status : 0..5, own : BOOLEAN, secret : BOOLEAN, initSig : BOOLEAN, redeemSig : BOOLEAN,
          redemptionSig : BOOLEAN, redeem : BOOLEAN, refund : BOOLEAN, revoked : BOOLEAN]

Stages == {"idle", "swap", "swapped", "redeem", "redeemed", "refund", "refunded"}

Vol == [stage : Stages, swapErr : BOOLEAN, refundErr : BOOLEAN, search : BOOLEAN, lost : BOOLEAN,
        audits : SUBSET {"msg", "res"}]

Answers == {"none", "sent", "ok", "sequence", "unknown", "refused"}

Pair == [init : Answers, redeem : Answers]

Message == [to : Sides, kind : {"audit", "redemption", "revoke"}]

Contract == [step : {"none", "locked", "redeemed", "refunded"}, lock : 0..2, mined : BOOLEAN]

TypeOK ==
  /\ mem \in [Sides -> Match] /\ dbm \in [Sides -> Match] /\ vol \in [Sides -> Vol]
  /\ tracked \in [Sides -> BOOLEAN] /\ link \in [Sides -> BOOLEAN]
  /\ req \in [Sides -> Pair]
  /\ net \subseteq Message
  /\ srv \in [status : 0..4, active : BOOLEAN]
  /\ chain \in [Sides -> Contract]
  /\ clock \in 0..2

\* What of a match the invariants are about; the maker's secret is not.
Alike(s, m, n) == /\ n.status = m.status /\ n.own = m.own
                  /\ n.redeem = m.redeem /\ n.refund = m.refund
                  /\ s = "taker" => n.secret = m.secret

\* The row has what the trade in memory has.
SameInv == \A s \in Sides : Alike(s, mem[s], dbm[s])

\* A side's swap, from the wallet's call to its record and its spend.
OwnInv ==
  \A s \in Sides :
    /\ mem[s].own <=> mem[s].status >= swapCast(s)
    /\ mem[s].own => chain[s].step # "none"
    /\ vol[s].stage \in {"swap", "swapped"} => mem[s].status = swapCast(s) - 1
    /\ vol[s].stage = "swapped" => chain[s].step # "none"
    /\ Spent(s) => mem[s].own
    /\ vol[s].stage \in {"refund", "refunded"} => mem[s].own
    /\ req[s].init # "none" => mem[s].own

M == mem["maker"]

T == mem["taker"]

audit(s) == [to |-> s, kind |-> "audit"]

redemption == [to |-> "taker", kind |-> "redemption"]

revoke(s) == [to |-> s, kind |-> "revoke"]

\* What the server and through it the counterparty know of a swap.
RelayInv ==
  /\ srv.status >= 1 => M.own /\ chain["maker"].lock = 2
  /\ srv.status >= 2 => T.own
  /\ T.status >= 1 => srv.status >= 1
  /\ audit("taker") \in net \/ vol["taker"].audits # {} => T.status = 0 /\ srv.status = 1
  /\ audit("taker") \in net => vol["taker"].audits = {}
  /\ vol["taker"].audits # {"msg", "res"}
  /\ audit("maker") \in net \/ vol["maker"].audits # {} => srv.status >= 2
  /\ M.status \in 2..4 \/ vol["maker"].stage = "redeem" \/ chain["taker"].step = "redeemed"
       => srv.status >= 2

LinkInv ==
  \A s \in Sides :
    /\ ~link[s] => audit(s) \notin net
    /\ revoke(s) \in net => ~srv.active

\* Whatever tells of a redeem comes after it.
MakerRedeemKnown ==
  \/ M.redeem \/ vol["maker"].stage = "redeemed" \/ M.status \in {3, 4}
  \/ req["maker"].redeem # "none" \/ srv.status >= 3 \/ redemption \in net
  \/ T.status \in {3, 4} \/ vol["taker"].stage \in {"redeem", "redeemed"} \/ T.secret

TakerRedeemKnown ==
  \/ T.redeem \/ vol["taker"].stage = "redeemed" \/ T.status = 4
  \/ req["taker"].redeem # "none" \/ srv.status >= 4

SpendInv ==
  /\ MakerRedeemKnown => chain["taker"].step = "redeemed"
  /\ TakerRedeemKnown => chain["maker"].step = "redeemed"
  /\ M.status = 5 => chain["taker"].step = "redeemed" \/ Spent("maker")
  /\ T.status = 5 => chain["maker"].step = "redeemed" \/ chain["taker"].step = "refunded"
  /\ \A s \in Sides : mem[s].refund \/ vol[s].stage = "refunded" => chain[s].step = "refunded"
  /\ \A s \in Sides : vol[s].refundErr => Spent(s)
  /\ T.secret => T.status >= 3

\* The contracts and the lock times.
ChainInv ==
  /\ chain["maker"].step = "refunded" => chain["taker"].step # "redeemed"
  /\ chain["maker"].step = "redeemed" => chain["taker"].step = "redeemed"
  /\ chain["taker"].step # "none" => T.status >= 1 /\ chain["taker"].lock = 1
  /\ \A s \in Sides : chain[s].step = "refunded" \/ vol[s].stage = "refund" => clock >= chain[s].lock
  /\ vol["taker"].stage = "swap" => clock <= 1
  /\ vol["maker"].stage = "redeem" /\ chain["taker"].step = "locked" => clock <= 1
  /\ clock = 2 /\ chain["taker"].step = "redeemed" => chain["maker"].step = "redeemed"

\* A taker who is owed the maker's contract works on the match.
Owed == chain["maker"].step # "redeemed" /\ chain["taker"].step # "refunded"

TakerInv ==
  /\ T.own /\ ~tracked["taker"] /\ Owed => srv.status <= 1 /\ ~srv.active
  /\ vol["taker"].stage \in {"swap", "swapped"} =>
       /\ ~vol["taker"].swapErr
       /\ T.revoked \/ ~tracked["taker"] => ~srv.active
  /\ vol["taker"].swapErr /\ T.own => ~Owed

IInv == /\ TypeOK /\ SameInv /\ OwnInv /\ RelayInv /\ LinkInv
        /\ SpendInv /\ ChainInv /\ TakerInv

\* A match that was just made satisfies the invariant.
LEMMA InitInv == Init => IInv
<1> SUFFICES ASSUME Init PROVE IInv
  BY Zenon
<1>1. TypeOK
  BY DEF Init, TypeOK, Match, Vol, Stages, Answers, Pair, Message, Contract, NewMatch, Idle, NoContract
<1>2. \A s \in Sides : mem[s] = NewMatch /\ dbm[s] = NewMatch /\ vol[s] = Idle /\ chain[s] = NoContract
        /\ req[s].init = "none" /\ req[s].redeem = "none" /\ tracked[s] /\ link[s]
  BY Zenon DEF Init
<1>3. net = {} /\ srv.status = 0 /\ srv.active
  BY Zenon DEF Init
<1>4. /\ NewMatch.status = 0 /\ ~NewMatch.own /\ ~NewMatch.secret /\ ~NewMatch.redeem /\ ~NewMatch.refund
      /\ Idle.stage = "idle" /\ ~Idle.swapErr /\ ~Idle.refundErr /\ Idle.audits = {}
      /\ NoContract.step = "none"
  BY Zenon DEF NewMatch, Idle, NoContract
<1>5. "maker" \in Sides /\ "taker" \in Sides
  BY Zenon DEF Sides
<1>6. SameInv
  BY Zenon, <1>2 DEF SameInv, Alike
<1>7. OwnInv
  BY <1>2, <1>4 DEF OwnInv, swapCast, Spent
<1>8. RelayInv /\ LinkInv
  BY <1>2, <1>3, <1>4, <1>5 DEF RelayInv, LinkInv, M, T
<1>9. SpendInv /\ ChainInv /\ TakerInv
  BY <1>2, <1>3, <1>4, <1>5 DEF SpendInv, ChainInv, TakerInv, M, T, MakerRedeemKnown, TakerRedeemKnown, Owed
<1> QED BY Zenon, <1>1, <1>6, <1>7, <1>8, <1>9 DEF IInv

\* There are two sides, each the other of the other.
LEMMA TheSides == "maker" \in Sides /\ "taker" \in Sides /\ other("maker") = "taker" /\ other("taker") = "maker"
BY Zenon DEF Sides, other

MakerFine(n, v, r) ==
  /\ n.own <=> n.status >= 1
  /\ n.own => chain["maker"].step # "none"
  /\ v.stage \in {"swap", "swapped"} => n.status = 0
  /\ v.stage = "swapped" => chain["maker"].step # "none"
  /\ Spent("maker") => n.own
  /\ v.stage \in {"refund", "refunded"} => n.own
  /\ r.init # "none" => n.own
  /\ srv.status >= 1 => n.own
  /\ v.audits # {} => srv.status >= 2
  /\ n.status \in 2..4 \/ v.stage = "redeem" => srv.status >= 2
  /\ n.redeem \/ v.stage = "redeemed" \/ n.status \in {3, 4} \/ r.redeem # "none"
       => chain["taker"].step = "redeemed"
  /\ n.status = 5 => chain["taker"].step = "redeemed" \/ Spent("maker")
  /\ n.refund \/ v.stage = "refunded" => chain["maker"].step = "refunded"
  /\ v.refundErr => Spent("maker")
  /\ v.stage = "refund" => clock >= chain["maker"].lock
  /\ v.stage = "redeem" /\ chain["taker"].step = "locked" => clock <= 1

TakerFine(n, v, r, tracks) ==
  /\ n.own <=> n.status >= 2
  /\ n.own => chain["taker"].step # "none"
  /\ v.stage \in {"swap", "swapped"} => n.status = 1
  /\ v.stage = "swapped" => chain["taker"].step # "none"
  /\ Spent("taker") => n.own
  /\ v.stage \in {"refund", "refunded"} => n.own
  /\ r.init # "none" => n.own
  /\ srv.status >= 2 => n.own
  /\ n.status >= 1 => srv.status >= 1
  /\ audit("taker") \in net \/ v.audits # {} => n.status = 0 /\ srv.status = 1
  /\ v.audits # {} => v.audits # {"msg", "res"} /\ audit("taker") \notin net
  /\ n.status \in {3, 4} \/ v.stage \in {"redeem", "redeemed"} \/ n.secret => chain["taker"].step = "redeemed"
  /\ n.redeem \/ v.stage = "redeemed" \/ n.status = 4 \/ r.redeem # "none" => chain["maker"].step = "redeemed"
  /\ n.status = 5 => ~Owed
  /\ n.refund \/ v.stage = "refunded" => chain["taker"].step = "refunded"
  /\ v.refundErr => Spent("taker")
  /\ n.secret => n.status >= 3
  /\ chain["taker"].step # "none" => n.status >= 1
  /\ v.stage = "refund" => clock >= chain["taker"].lock
  /\ v.stage = "swap" => clock <= 1
  /\ n.own /\ ~tracks /\ Owed => srv.status <= 1 /\ ~srv.active
  /\ v.stage \in {"swap", "swapped"} => ~v.swapErr /\ (n.revoked \/ ~tracks => ~srv.active)
  /\ v.swapErr /\ n.own => ~Owed

MakerPart == MakerFine(M, vol["maker"], req["maker"])

TakerPart == TakerFine(T, vol["taker"], req["taker"], tracked["taker"])

\* The invariant says of the maker what MakerFine says.
LEMMA MakerIsFine == IInv => MakerPart
<1> SUFFICES ASSUME IInv PROVE MakerPart
  BY Zenon
<1>1. OwnInv /\ RelayInv /\ SpendInv /\ ChainInv
  BY Zenon DEF IInv
<1>2. /\ M.own <=> M.status >= 1
      /\ M.own => chain["maker"].step # "none"
      /\ vol["maker"].stage \in {"swap", "swapped"} => M.status = 0
      /\ vol["maker"].stage = "swapped" => chain["maker"].step # "none"
      /\ Spent("maker") => M.own
      /\ vol["maker"].stage \in {"refund", "refunded"} => M.own
      /\ req["maker"].init # "none" => M.own
  BY <1>1, TheSides DEF OwnInv, swapCast, M
<1>3. /\ srv.status >= 1 => M.own
      /\ vol["maker"].audits # {} => srv.status >= 2
      /\ M.status \in 2..4 \/ vol["maker"].stage = "redeem" => srv.status >= 2
  BY ZenonT(30), <1>1 DEF RelayInv
<1>4. /\ M.redeem \/ vol["maker"].stage = "redeemed" \/ M.status \in {3, 4} \/ req["maker"].redeem # "none"
           => chain["taker"].step = "redeemed"
      /\ M.status = 5 => chain["taker"].step = "redeemed" \/ Spent("maker")
      /\ M.refund \/ vol["maker"].stage = "refunded" => chain["maker"].step = "refunded"
      /\ vol["maker"].refundErr => Spent("maker")
  BY ZenonT(30), <1>1, TheSides DEF SpendInv, MakerRedeemKnown, M
<1>5. /\ vol["maker"].stage = "refund" => clock >= chain["maker"].lock
      /\ vol["maker"].stage = "redeem" /\ chain["taker"].step = "locked" => clock <= 1
  BY ZenonT(30), <1>1, TheSides DEF ChainInv
<1> QED BY Zenon, <1>2, <1>3, <1>4, <1>5 DEF MakerPart, MakerFine

\* The invariant says of the taker what TakerFine says.
LEMMA TakerIsFine == IInv => TakerPart
<1> SUFFICES ASSUME IInv PROVE TakerPart
  BY Zenon
<1>1. OwnInv /\ RelayInv /\ SpendInv /\ ChainInv /\ TakerInv
  BY Zenon DEF IInv
<1>2. /\ T.own <=> T.status >= 2
      /\ T.own => chain["taker"].step # "none"
      /\ vol["taker"].stage \in {"swap", "swapped"} => T.status = 1
      /\ vol["taker"].stage = "swapped" => chain["taker"].step # "none"
      /\ Spent("taker") => T.own
      /\ vol["taker"].stage \in {"refund", "refunded"} => T.own
      /\ req["taker"].init # "none" => T.own
  BY <1>1, TheSides DEF OwnInv, swapCast, T
<1>3. /\ srv.status >= 2 => T.own
      /\ T.status >= 1 => srv.status >= 1
      /\ audit("taker") \in net \/ vol["taker"].audits # {} => T.status = 0 /\ srv.status = 1
      /\ vol["taker"].audits # {} => vol["taker"].audits # {"msg", "res"} /\ audit("taker") \notin net
  BY ZenonT(30), <1>1 DEF RelayInv
<1>4. /\ T.status \in {3, 4} \/ vol["taker"].stage \in {"redeem", "redeemed"} \/ T.secret => chain["taker"].step = "redeemed"
      /\ T.redeem \/ vol["taker"].stage = "redeemed" \/ T.status = 4 \/ req["taker"].redeem # "none"
           => chain["maker"].step = "redeemed"
      /\ T.status = 5 => ~Owed
      /\ T.refund \/ vol["taker"].stage = "refunded" => chain["taker"].step = "refunded"
      /\ vol["taker"].refundErr => Spent("taker")
      /\ T.secret => T.status >= 3
  BY ZenonT(30), <1>1, TheSides DEF SpendInv, MakerRedeemKnown, TakerRedeemKnown, Owed, T
<1>5. /\ chain["taker"].step # "none" => T.status >= 1
      /\ vol["taker"].stage = "refund" => clock >= chain["taker"].lock
      /\ vol["taker"].stage = "swap" => clock <= 1
  BY ZenonT(30), <1>1, TheSides DEF ChainInv
<1>6. /\ T.own /\ ~tracked["taker"] /\ Owed => srv.status <= 1 /\ ~srv.active
      /\ vol["taker"].stage \in {"swap", "swapped"} =>
           ~vol["taker"].swapErr /\ (T.revoked \/ ~tracked["taker"] => ~srv.active)
      /\ vol["taker"].swapErr /\ T.own => ~Owed
  BY Zenon, <1>1 DEF TakerInv
<1> QED BY <1>2, <1>3, <1>4, <1>5, <1>6, ZenonT(30) DEF TakerPart, TakerFine

\* A function of the sides with one value replaced.
LEMMA Put ==
  ASSUME NEW S, NEW f \in [Sides -> S], NEW s \in Sides, NEW v \in S
  PROVE  /\ [f EXCEPT ![s] = v] \in [Sides -> S] /\ [f EXCEPT ![s] = v][s] = v
         /\ \A t \in Sides : t # s => [f EXCEPT ![s] = v][t] = f[t]
BY Zenon

\* The ranges of what the steps below count.
LEMMA Ranges ==
  ASSUME IInv
  PROVE  /\ srv.status \in 0..4 /\ clock \in 0..2
         /\ \A s \in Sides : /\ mem[s] \in Match /\ mem[s].status \in 0..5 /\ vol[s] \in Vol
                             /\ chain[s].lock \in 0..2 /\ req[s] \in Pair
BY Zenon DEF IInv, TypeOK, Match, Contract

\* The stage of a client's wallet calls.
LEMMA Staged ==
  ASSUME TypeOK, NEW s \in Sides, NEW d \in Stages
  PROVE  LET f == [vol EXCEPT ![s].stage = d]
         IN  /\ f \in [Sides -> Vol] /\ \A o \in Sides : o # s => f[o] = vol[o]
             /\ f[s].stage = d /\ f[s].swapErr = vol[s].swapErr /\ f[s].refundErr = vol[s].refundErr
             /\ f[s].audits = vol[s].audits /\ f[s].search = vol[s].search /\ f[s].lost = vol[s].lost
<1>1. vol \in [Sides -> Vol]
  BY Zenon DEF TypeOK
<1> QED BY Zenon, <1>1 DEF Vol

\* A match that is revoked.
LEMMA Revoked ==
  ASSUME NEW s \in Sides, NEW m \in Match, NEW v \in BOOLEAN
  PROVE  [m EXCEPT !.revoked = v] \in Match /\ Alike(s, m, [m EXCEPT !.revoked = v]) /\ [m EXCEPT !.revoked = v].revoked = v
BY Zenon DEF Match, Alike

\* The match a tick leaves behind.
LEMMA FlaggedMatch ==
  ASSUME TypeOK, NEW s \in Sides
  PROVE  Flagged(s) \in Match /\ Alike(s, mem[s], Flagged(s)) /\ Flagged(s).revoked = (mem[s].revoked \/ shouldRevoke(s))
<1>1. mem[s] \in Match /\ (mem[s].revoked \/ shouldRevoke(s)) \in BOOLEAN
  BY Zenon DEF TypeOK
<1> QED BY <1>1, Revoked, Zenon DEF Flagged

\* A match whose status alone is set.
LEMMA StatusSet ==
  ASSUME NEW m \in Match, NEW n \in 0..5
  PROVE  LET r == [m EXCEPT !.status = n]
         IN  /\ r \in Match /\ r.status = n /\ r.own = m.own /\ r.secret = m.secret /\ r.redeem = m.redeem
             /\ r.refund = m.refund /\ r.revoked = m.revoked
BY Zenon DEF Match

\* A match with its swap, its redeem or its refund recorded.
LEMMA SwapSet ==
  ASSUME NEW m \in Match, NEW st \in 0..5
  PROVE  LET r == [m EXCEPT !.own = TRUE, !.status = st]
         IN  /\ r \in Match /\ r.status = st /\ r.own /\ r.secret = m.secret /\ r.redeem = m.redeem
             /\ r.refund = m.refund /\ r.revoked = m.revoked
BY ZenonT(30) DEF Match

\* A match whose redeem is recorded.
LEMMA RedeemSet ==
  ASSUME NEW m \in Match, NEW st \in 0..5
  PROVE  LET r == [m EXCEPT !.redeem = TRUE, !.status = st]
         IN  /\ r \in Match /\ r.status = st /\ r.own = m.own /\ r.secret = m.secret /\ r.redeem
             /\ r.refund = m.refund /\ r.revoked = m.revoked
BY ZenonT(30) DEF Match

\* A match whose refund is recorded.
LEMMA RefundSet ==
  ASSUME NEW m \in Match
  PROVE  LET r == [m EXCEPT !.refund = TRUE, !.revoked = TRUE]
         IN  /\ r \in Match /\ r.status = m.status /\ r.own = m.own /\ r.secret = m.secret /\ r.redeem = m.redeem
             /\ r.refund /\ r.revoked
BY ZenonT(30) DEF Match

\* A match whose swap was found on the chain.
LEMMA RecoverSet ==
  ASSUME NEW m \in Match, NEW st \in 0..5
  PROVE  LET r == [m EXCEPT !.status = st, !.own = TRUE]
         IN  /\ r \in Match /\ r.status = st /\ r.own /\ r.secret = m.secret /\ r.redeem = m.redeem
             /\ r.refund = m.refund
BY ZenonT(30) DEF Match

\* A match whose secret was found on the chain.
LEMMA SecretSet ==
  ASSUME NEW m \in Match
  PROVE  LET r == [m EXCEPT !.status = 3, !.secret = TRUE, !.revoked = TRUE]
         IN  /\ r \in Match /\ r.status = 3 /\ r.own = m.own /\ r.secret /\ r.redeem = m.redeem
             /\ r.refund = m.refund
<1>1. 3 \in 0..5
  OBVIOUS
<1> QED BY <1>1, ZenonT(30) DEF Match

\* A match whose secret the server relayed.
LEMMA ToldSet ==
  ASSUME NEW m \in Match
  PROVE  LET r == withSecret([m EXCEPT !.redemptionSig = TRUE])
         IN  /\ r \in Match /\ r.status = 3 /\ r.own = m.own /\ r.secret /\ r.redeem = m.redeem
             /\ r.refund = m.refund
<1>1. 3 \in 0..5
  OBVIOUS
<1> QED BY <1>1, ZenonT(30) DEF Match, withSecret

\* A match whose init was acknowledged.
LEMMA InitSigned ==
  ASSUME NEW s \in Sides, NEW m \in Match
  PROVE  LET r == [m EXCEPT !.initSig = TRUE]
         IN  r \in Match /\ Alike(s, m, r) /\ r.revoked = m.revoked
BY ZenonT(30) DEF Match, Alike

\* A match whose redeem was acknowledged.
LEMMA RedeemSigned ==
  ASSUME NEW s \in Sides, NEW m \in Match, NEW st \in 0..5
  PROVE  LET r == [m EXCEPT !.redeemSig = TRUE, !.status = st]
         IN  /\ r \in Match /\ r.status = st /\ r.own = m.own /\ r.redeem = m.redeem /\ r.refund = m.refund
             /\ r.secret = m.secret /\ r.revoked = m.revoked
BY ZenonT(30) DEF Match

\* What a resolver makes of a match.
LEMMA ConflictIs ==
  ASSUME NEW s \in Sides
  PROVE  \/ Conflict(s) = mem[s]
         \/ \E v \in BOOLEAN : Conflict(s) = [mem[s] EXCEPT !.revoked = v]
         \/ s = "taker" /\ mem[s].status = 2 /\ srv.status = 3 /\ Conflict(s) = withSecret(mem[s])
         \/ s = "maker" /\ mem[s].status = 3 /\ srv.status = 4 /\ Conflict(s) = [mem[s] EXCEPT !.status = 4]
<1> DEFINE m == mem[s]
           at(ours, servers) == m.status = ours /\ srv.status = servers
<1>1. s = "maker" \/ s = "taker"
  BY Zenon DEF Sides
<1>2. CASE at(0, 1)
  <2>1. Conflict(s) = IF s = "maker" THEN [m EXCEPT !.revoked = TRUE] ELSE m
    BY <1>2 DEF Conflict
  <2> QED BY <2>1, Zenon
<1>3. CASE at(1, 2)
  <2>1. Conflict(s) = IF s = "taker" THEN [m EXCEPT !.revoked = TRUE] ELSE m
    BY <1>3 DEF Conflict
  <2> QED BY <2>1, Zenon
<1>4. CASE at(1, 0)
  <2>1. Conflict(s) = [m EXCEPT !.revoked = s # "maker" \/ m.initSig]
    BY <1>4 DEF Conflict
  <2> QED BY <2>1, Zenon
<1>5. CASE at(2, 1)
  <2>1. Conflict(s) = [m EXCEPT !.revoked = s # "taker" \/ m.initSig]
    BY <1>5 DEF Conflict
  <2> QED BY <2>1, Zenon
<1>6. CASE at(2, 3)
  <2>1. Conflict(s) = IF s = "maker" THEN [m EXCEPT !.revoked = TRUE] ELSE withSecret(m)
    BY <1>6 DEF Conflict
  <2> QED BY <1>1, <1>6, <2>1, Zenon
<1>7. CASE at(3, 2)
  <2>1. Conflict(s) = [m EXCEPT !.revoked = s # "maker" \/ m.redeemSig]
    BY <1>7 DEF Conflict
  <2> QED BY <2>1, Zenon
<1>8. CASE at(3, 4)
  <2>1. Conflict(s) = IF s = "taker" THEN [m EXCEPT !.revoked = TRUE] ELSE [m EXCEPT !.status = 4]
    BY <1>8 DEF Conflict
  <2> QED BY <1>1, <1>8, <2>1, Zenon
<1>9. CASE at(4, 3) \/ at(5, 3)
  <2>1. Conflict(s) = IF s = "maker" THEN m ELSE [m EXCEPT !.revoked = s # "taker" \/ m.redeemSig]
    BY <1>9 DEF Conflict
  <2> QED BY <2>1, Zenon
<1>10. CASE ~(at(0, 1) \/ at(1, 0) \/ at(1, 2) \/ at(2, 1) \/ at(2, 3) \/ at(3, 2) \/ at(3, 4) \/ at(4, 3) \/ at(5, 3))
  <2>1. Conflict(s) = [m EXCEPT !.revoked = TRUE]
    BY ZenonT(30), <1>10 DEF Conflict
  <2> QED BY <2>1, Zenon
<1> QED BY <1>2, <1>3, <1>4, <1>5, <1>6, <1>7, <1>8, <1>9, <1>10, Zenon

\* What any resolver may change of a match.
LEMMA ConflictMatch ==
  ASSUME IInv, NEW s \in Sides
  PROVE  LET c == Conflict(s) m == mem[s]
         IN  /\ c \in Match /\ c.own = m.own /\ c.redeem = m.redeem /\ c.refund = m.refund
             /\ \/ c.status = m.status /\ c.secret = m.secret
                \/ s = "taker" /\ m.status = 2 /\ srv.status = 3 /\ c.status = 3 /\ c.secret
                \/ s = "maker" /\ m.status = 3 /\ srv.status = 4 /\ c.status = 4
<1>1. mem[s] \in Match /\ 3 \in 0..5 /\ 4 \in 0..5
  BY Ranges
<1>2. CASE Conflict(s) = mem[s]
  BY <1>1, <1>2, Zenon
<1>3. ASSUME NEW v \in BOOLEAN, Conflict(s) = [mem[s] EXCEPT !.revoked = v]
      PROVE  /\ Conflict(s) \in Match /\ Conflict(s).own = mem[s].own /\ Conflict(s).redeem = mem[s].redeem
             /\ Conflict(s).refund = mem[s].refund /\ Conflict(s).status = mem[s].status
             /\ Conflict(s).secret = mem[s].secret
  BY <1>1, <1>3, ZenonT(30) DEF Match
<1>4. CASE s = "taker" /\ mem[s].status = 2 /\ srv.status = 3 /\ Conflict(s) = withSecret(mem[s])
  BY <1>1, <1>4, ZenonT(30) DEF Match, withSecret
<1>5. CASE s = "maker" /\ mem[s].status = 3 /\ srv.status = 4 /\ Conflict(s) = [mem[s] EXCEPT !.status = 4]
  BY <1>1, <1>5, ZenonT(30) DEF Match
<1> QED BY <1>2, <1>3, <1>4, <1>5, ConflictIs, Zenon

\* Requests of a client about what it has done.
Honest(s, r) == /\ r.init # "none" => mem[s].own
                /\ r.redeem # "none" => chain[other(s)].step = "redeemed"

Others(s) == \A o \in Sides : o # s => /\ mem'[o] = mem[o] /\ dbm'[o] = dbm[o] /\ vol'[o] = vol[o]
                                       /\ req'[o] = req[o] /\ tracked'[o] = tracked[o]

\* A step of the maker alone.
LEMMA MakerActs ==
  ASSUME IInv, TypeOK', SameInv', UNCHANGED <<srv, chain, clock>>, net' \subseteq net,
         \A p \in Sides : ~link'[p] => audit(p) \notin net',
         T' = T, vol'["taker"] = vol["taker"], req'["taker"] = req["taker"], tracked'["taker"] = tracked["taker"],
         MakerFine(M', vol'["maker"], req'["maker"])
  PROVE  IInv'
<1>1. OwnInv'
  <2>1. \A p \in Sides : p = "maker" \/ p = "taker"
    BY Zenon DEF Sides
  <2> QED BY <2>1 DEF IInv, OwnInv, MakerFine, M, T, swapCast, Spent
<1>2. RelayInv'
  BY Zenon DEF IInv, RelayInv, MakerFine
<1>3. LinkInv'
  BY Zenon DEF IInv, LinkInv
<1>4. SpendInv'
  <2>1. MakerRedeemKnown' => chain["taker"].step = "redeemed"
    BY ZenonT(30) DEF IInv, SpendInv, MakerFine, MakerRedeemKnown
  <2>2. TakerRedeemKnown' => chain["maker"].step = "redeemed"
    BY ZenonT(30) DEF IInv, SpendInv, TakerRedeemKnown
  <2>3. \A p \in Sides : p = "maker" \/ p = "taker"
    BY Zenon DEF Sides
  <2> QED BY <2>1, <2>2, <2>3 DEF IInv, SpendInv, MakerFine, M, T, Spent
<1>5. ChainInv'
  <2>1. \A p \in Sides : p = "maker" \/ p = "taker"
    BY Zenon DEF Sides
  <2> QED BY <2>1 DEF IInv, ChainInv, MakerFine
<1>6. TakerInv'
  BY Zenon DEF IInv, TakerInv, Owed
<1> QED BY ZenonT(30), <1>1, <1>2, <1>3, <1>4, <1>5, <1>6 DEF IInv

\* A step of the taker alone.
LEMMA TakerActs ==
  ASSUME IInv, TypeOK', SameInv', UNCHANGED <<srv, chain, clock>>, net' \subseteq net,
         \A p \in Sides : ~link'[p] => audit(p) \notin net',
         M' = M, vol'["maker"] = vol["maker"], req'["maker"] = req["maker"],
         TakerFine(T', vol'["taker"], req'["taker"], tracked'["taker"])
  PROVE  IInv'
<1>1. OwnInv'
  <2>1. \A p \in Sides : p = "maker" \/ p = "taker"
    BY Zenon DEF Sides
  <2> QED BY <2>1 DEF IInv, OwnInv, TakerFine, M, T, swapCast, Spent
<1>2. RelayInv'
  BY ZenonT(30) DEF IInv, RelayInv, TakerFine
<1>3. LinkInv'
  BY Zenon DEF IInv, LinkInv
<1>4. SpendInv'
  <2>1. MakerRedeemKnown' => chain["taker"].step = "redeemed"
    BY ZenonT(30) DEF IInv, SpendInv, TakerFine, MakerRedeemKnown
  <2>2. TakerRedeemKnown' => chain["maker"].step = "redeemed"
    BY ZenonT(30) DEF IInv, SpendInv, TakerFine, TakerRedeemKnown
  <2>3. \A p \in Sides : p = "maker" \/ p = "taker"
    BY Zenon DEF Sides
  <2>4. TypeOK
    BY Zenon DEF IInv
  <2>5. chain["maker"].step = "redeemed" \/ chain["taker"].step = "refunded" <=> ~Owed
    BY Zenon DEF Owed
  <2> QED BY <2>1, <2>2, <2>3, <2>5 DEF IInv, SpendInv, TakerFine, M, T, Spent
<1>5. ChainInv'
  <2>1. \A p \in Sides : p = "maker" \/ p = "taker"
    BY Zenon DEF Sides
  <2> QED BY <2>1 DEF IInv, ChainInv, TakerFine
<1>6. TakerInv'
  BY ZenonT(30) DEF TakerInv, TakerFine, Owed
<1> QED BY ZenonT(30), <1>1, <1>2, <1>3, <1>4, <1>5, <1>6 DEF IInv

\* A step of one client that leaves the contracts alone keeps the invariant, if its
\* side is as MakerFine or TakerFine says afterwards.
LEMMA ClientActs ==
  ASSUME IInv, NEW s \in Sides, TypeOK', Alike(s, mem'[s], dbm'[s]), Others(s), UNCHANGED <<srv, chain, clock>>,
         net' \subseteq net, \A o \in Sides : ~link'[o] => audit(o) \notin net',
         s = "maker" => MakerFine(mem'[s], vol'[s], req'[s]),
         s = "taker" => TakerFine(mem'[s], vol'[s], req'[s], tracked'[s])
  PROVE  IInv'
<1>1. SameInv'
  BY DEF IInv, SameInv, Others, Alike
<1>2. CASE s = "maker"
  BY Zenon, <1>1, <1>2, MakerActs, TheSides DEF Others, M, T
<1>3. CASE s = "taker"
  BY ZenonT(30), <1>1, <1>3, TakerActs, TheSides DEF Others, M, T
<1> QED BY ZenonT(30), <1>2, <1>3 DEF Sides

\* A client without a connection still has no audit request coming.
LEMMA StillLinked ==
  ASSUME IInv, link' = link, net' \subseteq net
  PROVE  \A s \in Sides : ~link'[s] => audit(s) \notin net'
BY Zenon DEF IInv, LinkInv

\* A client that updates its match in memory and in its database.
LEMMA StoredStep ==
  ASSUME IInv, NEW s \in Sides, NEW n \in Match, mem' = [mem EXCEPT ![s] = n], dbm' = [dbm EXCEPT ![s] = n],
         vol' \in [Sides -> Vol], \A o \in Sides : o # s => vol'[o] = vol[o],
         req' \in [Sides -> Pair], \A o \in Sides : o # s => req'[o] = req[o],
         UNCHANGED <<tracked, link, srv, chain, clock>>, net' \subseteq net,
         s = "maker" => MakerFine(n, vol'[s], req'[s]),
         s = "taker" => TakerFine(n, vol'[s], req'[s], tracked[s])
  PROVE  IInv'
<1>1. mem \in [Sides -> Match] /\ dbm \in [Sides -> Match] /\ net \subseteq Message
  BY Zenon DEF IInv, TypeOK
<1>2. /\ mem' \in [Sides -> Match] /\ dbm' \in [Sides -> Match] /\ mem'[s] = n /\ dbm'[s] = n
      /\ \A o \in Sides : o # s => mem'[o] = mem[o] /\ dbm'[o] = dbm[o]
  BY Zenon, <1>1
<1>3. Others(s) /\ Alike(s, mem'[s], dbm'[s])
  BY Zenon, <1>2 DEF Others, Alike
<1>4. TypeOK'
  BY Zenon, <1>1, <1>2 DEF IInv, TypeOK
<1>5. \A o \in Sides : ~link'[o] => audit(o) \notin net'
  BY Zenon, StillLinked
<1> QED BY Zenon, <1>2, <1>3, <1>4, <1>5, ClientActs

\* What a call of Swap leaves in memory, and on the chain.
LEMMA SwapEnds ==
  ASSUME IInv, NEW s \in Sides, Swap(s)
  PROVE  /\ vol[s].stage = "swap" /\ UNCHANGED <<dbm, tracked, link, req, net, srv, clock>>
         /\ mem' \in [Sides -> Match] /\ vol' \in [Sides -> Vol] /\ chain' \in [Sides -> Contract]
         /\ \A o \in Sides : o # s => mem'[o] = mem[o] /\ vol'[o] = vol[o] /\ chain'[o] = chain[o]
         /\ Alike(s, mem[s], mem'[s]) /\ mem'[s].revoked = mem[s].revoked
         /\ vol'[s].stage \in {"idle", "swapped"}
         /\ vol'[s].refundErr = vol[s].refundErr /\ vol'[s].audits = vol[s].audits
         /\ vol'[s].stage = "swapped" => chain'[s].step = "locked" /\ vol'[s].swapErr = vol[s].swapErr
         /\ \/ chain'[s] = chain[s]
            \/ chain'[s].step = "locked" /\ (s = "taker" => chain'[s].lock = 1)
<1> DEFINE k == Funded(contractLock(s))
           q == mem[s].secret \/ s = "maker"
<1>1. /\ vol[s].stage = "swap" /\ UNCHANGED <<dbm, tracked, link, req, net, srv, clock>>
      /\ mem' = [mem EXCEPT ![s].secret = q]
      /\ chain' = chain \/ chain' = [chain EXCEPT ![s] = k]
      /\ \/ vol' = [vol EXCEPT ![s].stage = "swapped"] /\ chain' = [chain EXCEPT ![s] = k]
         \/ vol' = [vol EXCEPT ![s].stage = "idle"]
         \/ \E e \in BOOLEAN : vol' = [vol EXCEPT ![s].stage = "idle", ![s].swapErr = e]
  BY ZenonT(30) DEF Swap
<1>2. k \in Contract /\ k.step = "locked" /\ (s = "taker" => k.lock = 1)
  BY DEF Funded, contractLock, lockTime, Contract
<1>3. mem \in [Sides -> Match] /\ vol \in [Sides -> Vol] /\ chain \in [Sides -> Contract]
  BY Zenon DEF IInv, TypeOK
<1>4. q \in BOOLEAN /\ (s = "taker" => q = mem[s].secret)
  BY <1>3, Zenon DEF Match
<1> HIDE DEF k, q
<1>5. /\ chain' \in [Sides -> Contract] /\ \A o \in Sides : o # s => chain'[o] = chain[o]
      /\ chain'[s] = chain[s] \/ chain'[s] = k
      /\ chain' = [chain EXCEPT ![s] = k] => chain'[s] = k
  BY <1>1, <1>2, <1>3, ZenonT(30)
<1>6. /\ mem' \in [Sides -> Match] /\ \A o \in Sides : o # s => mem'[o] = mem[o]
      /\ Alike(s, mem[s], mem'[s]) /\ mem'[s].revoked = mem[s].revoked
  <2> DEFINE n == [mem[s] EXCEPT !.secret = q]
  <2>1. mem' = [mem EXCEPT ![s] = n]
    BY <1>1, Zenon
  <2>2. n \in Match /\ Alike(s, mem[s], n) /\ n.revoked = mem[s].revoked
    BY <1>3, <1>4, ZenonT(30) DEF Match, Alike
  <2> HIDE DEF n
  <2> QED BY <1>3, <2>1, <2>2, Put, Zenon
<1>7. CASE vol' = [vol EXCEPT ![s].stage = "swapped"] /\ chain' = [chain EXCEPT ![s] = k]
  <2>1. /\ vol' \in [Sides -> Vol] /\ \A o \in Sides : o # s => vol'[o] = vol[o]
        /\ vol'[s].stage = "swapped" /\ vol'[s].swapErr = vol[s].swapErr
        /\ vol'[s].refundErr = vol[s].refundErr /\ vol'[s].audits = vol[s].audits
    BY <1>7, Staged, ZenonT(30) DEF IInv, Stages
  <2> QED BY Zenon, <1>1, <1>2, <1>5, <1>6, <1>7, <2>1
<1>8. CASE vol' = [vol EXCEPT ![s].stage = "idle"]
  <2>1. /\ vol' \in [Sides -> Vol] /\ \A o \in Sides : o # s => vol'[o] = vol[o] /\ vol'[s].stage = "idle"
        /\ vol'[s].refundErr = vol[s].refundErr /\ vol'[s].audits = vol[s].audits
    BY <1>8, Staged, ZenonT(30) DEF IInv, Stages
  <2>2. vol'[s].stage = "idle"
    BY Zenon, <1>3, <1>8 DEF Vol
  <2> QED BY Zenon, <1>1, <1>2, <1>5, <1>6, <2>1, <2>2
<1>9. ASSUME NEW e \in BOOLEAN, vol' = [vol EXCEPT ![s].stage = "idle", ![s].swapErr = e]
      PROVE  /\ vol' \in [Sides -> Vol] /\ \A o \in Sides : o # s => vol'[o] = vol[o]
             /\ vol'[s].stage = "idle" /\ vol'[s].refundErr = vol[s].refundErr /\ vol'[s].audits = vol[s].audits
  BY <1>3, <1>9, ZenonT(60) DEF Vol, Stages
<1> QED BY Zenon, <1>1, <1>2, <1>5, <1>6, <1>7, <1>8, <1>9

\* No search of a wallet that is down.
NoneLost == \A s \in Sides : ~vol[s].lost

Frame == \A t \in Sides : /\ vol'[t].lost => vol[t].lost
                          /\ vol[t].swapErr => vol'[t].swapErr
                          /\ vol[t].stage = "swapped" => vol'[t].stage = "swapped"
                          /\ vol'[t].stage = "swap" => vol[t].stage = "swap"

\* Most steps of a client.
LEMMA FrameStep ==
  TypeOK =>
    /\ ~WalletDown => \A s \in Sides : tickSearches(s) \/ tickConfirms(s) \/ tickRests(s) \/ tickRecovers(s) => Frame
    /\ \A s \in Sides : Redeem(s) \/ RedeemRecorded(s) \/ Refund(s) \/ RefundRecorded(s) => Frame
    /\ \A s \in Sides : handlers(s) \/ Retire(s) \/ Reconnect(s) \/ SearchEnds \/ handleRedemption => Frame
\* A client goes on from stage d to stage e.
<1>StageFrame.
  ASSUME TypeOK, NEW s \in Sides, NEW d \in Stages \ {"swap"}, vol[s].stage # "swapped",
         vol' = [vol EXCEPT ![s].stage = d]
  PROVE  Frame
  <2> USE <1>StageFrame
  <2>1. d \in Stages /\ d # "swap"
    BY Zenon
  <2>2. /\ \A o \in Sides : o # s => vol'[o] = vol[o]
        /\ vol'[s].stage = d /\ vol'[s].swapErr = vol[s].swapErr /\ vol'[s].lost = vol[s].lost
    BY <2>1, Staged, ZenonT(30)
  <2> QED BY <2>1, <2>2, Zenon DEF Frame
<1>TickFrame.
  ASSUME TypeOK, ~WalletDown, NEW s \in Sides, tickSearches(s) \/ tickConfirms(s) \/ tickRests(s) \/ tickRecovers(s)
  PROVE  Frame
  <2> USE <1>TickFrame
  <2>1. CASE tickSearches(s)
    <3>1. vol' = [vol EXCEPT ![s].search = TRUE, ![s].lost = FALSE]
      BY <2>1, Zenon DEF tickSearches
    <3>2. vol \in [Sides -> Vol]
      BY Zenon DEF TypeOK
    <3> QED BY <3>1, <3>2, ZenonT(30) DEF Vol, Frame
  <2>2. CASE tickConfirms(s) \/ tickRests(s) \/ tickRecovers(s)
    BY <2>2, Zenon DEF tickConfirms, tickRests, tickRecovers, Frame
  <2> QED BY Zenon, <2>1, <2>2
<1>WalletFrame.
  ASSUME TypeOK, NEW s \in Sides, Redeem(s) \/ RedeemRecorded(s) \/ Refund(s) \/ RefundRecorded(s)
  PROVE  Frame
  <2> USE <1>WalletFrame
  <2>1. vol \in [Sides -> Vol]
    BY Zenon DEF TypeOK
  <2>2. CASE Redeem(s) \/ RedeemRecorded(s)
    <3>1. \E d \in Stages \ {"swap"} : vol[s].stage # "swapped" /\ vol' = [vol EXCEPT ![s].stage = d]
      BY <2>2, Zenon DEF Redeem, RedeemRecorded, Stages
    <3> QED BY <3>1, <1>StageFrame, Zenon
  <2>3. CASE RefundRecorded(s)
    <3>1. vol[s].stage = "refunded" /\ vol' = [vol EXCEPT ![s].stage = "idle", ![s].search = FALSE]
      BY <2>3, Zenon DEF RefundRecorded
    <3> QED BY <2>1, <3>1, ZenonT(30) DEF Vol, Frame
  <2>4. CASE Refund(s)
    <3>1. /\ vol[s].stage = "refund"
          /\ \/ vol' = [vol EXCEPT ![s].stage = "refunded"] \/ vol' = [vol EXCEPT ![s].stage = "idle"]
             \/ vol' = [vol EXCEPT ![s].stage = "idle", ![s].search = @ \/ s = "taker"]
             \/ vol' = [vol EXCEPT ![s].stage = "idle", ![s].refundErr = TRUE, ![s].search = @ \/ s = "taker"]
      BY <2>4, Zenon DEF Refund
    <3>2. CASE vol' = [vol EXCEPT ![s].stage = "refunded"] \/ vol' = [vol EXCEPT ![s].stage = "idle"]
      BY <3>1, <3>2, <1>StageFrame, Zenon DEF Stages
    <3>3. CASE vol' = [vol EXCEPT ![s].stage = "idle", ![s].search = @ \/ s = "taker"]
      <4>1. \A o \in Sides : o # s => vol'[o] = vol[o]
        BY <2>1, <3>3, Zenon
      <4>2. vol'[s].stage = "idle" /\ vol'[s].swapErr = vol[s].swapErr /\ vol'[s].lost = vol[s].lost
        BY <2>1, <3>3, ZenonT(30) DEF Vol
      <4> QED BY <3>1, <4>1, <4>2, Zenon DEF Frame
    <3>4. CASE vol' = [vol EXCEPT ![s].stage = "idle", ![s].refundErr = TRUE, ![s].search = @ \/ s = "taker"]
      <4>1. \A o \in Sides : o # s => vol'[o] = vol[o]
        BY <2>1, <3>4, Zenon
      <4>2. vol'[s].stage = "idle" /\ vol'[s].swapErr = vol[s].swapErr /\ vol'[s].lost = vol[s].lost
        BY <2>1, <3>4, ZenonT(30) DEF Vol
      <4> QED BY <3>1, <4>1, <4>2, Zenon DEF Frame
    <3> QED BY Zenon, <3>1, <3>2, <3>3, <3>4
  <2> QED BY Zenon, <2>2, <2>3, <2>4
<1>ResolveFrame.
  ASSUME TypeOK, NEW s \in Sides, resolveConflict(s)
  PROVE  Frame
  <2> USE <1>ResolveFrame
  <2>1. \/ vol' = vol
        \/ vol' = [vol EXCEPT ![s].swapErr = @ \/ ~HasResolver(mem[s].status),
                              ![s].audits = IF ResolverAudits(s) THEN @ \union {"res"} ELSE @]
    BY Zenon DEF resolveConflict
  <2>2. vol \in [Sides -> Vol]
    BY Zenon DEF TypeOK
  <2>3. CASE vol' = vol
    BY <2>3, Zenon DEF Frame
  <2>4. CASE vol' = [vol EXCEPT ![s].swapErr = @ \/ ~HasResolver(mem[s].status),
                               ![s].audits = IF ResolverAudits(s) THEN @ \union {"res"} ELSE @]
    BY <2>2, <2>4, ZenonT(30) DEF Vol, Frame
  <2> QED BY Zenon, <2>1, <2>3, <2>4
<1>HandlerFrame.
  ASSUME TypeOK, NEW s \in Sides, handlers(s) \/ Retire(s) \/ Reconnect(s) \/ SearchEnds \/ handleRedemption
  PROVE  Frame
  <2> USE <1>HandlerFrame
  <2>1. vol \in [Sides -> Vol]
    BY Zenon DEF TypeOK
  <2>2. \/ vol' = vol \/ resolveConflict(s)
        \/ vol' = [vol EXCEPT ![s].audits = @ \union {"msg"}]
        \/ \E a : vol' = [vol EXCEPT ![s].audits = @ \ {a}]
        \/ vol' = [vol EXCEPT !["taker"].search = FALSE]
    BY ZenonT(30) DEF handlers, handleAudit, handleRevokeMatch, auditContract, Answered, Retire, Reconnect, SearchEnds,
                      handleRedemption
  <2>3. CASE vol' = vol \/ resolveConflict(s)
    BY <2>3, <1>ResolveFrame, Zenon DEF Frame
  <2>4. CASE vol' = [vol EXCEPT ![s].audits = @ \union {"msg"}]
    BY <2>1, <2>4, ZenonT(30) DEF Vol, Frame
  <2>5. ASSUME NEW a, vol' = [vol EXCEPT ![s].audits = @ \ {a}]
        PROVE  Frame
    BY <2>1, <2>5, ZenonT(30) DEF Vol, Frame
  <2>6. CASE vol' = [vol EXCEPT !["taker"].search = FALSE]
    BY <2>1, <2>6, ZenonT(30) DEF Vol, Frame
  <2> QED BY <2>2, <2>3, <2>4, <2>5, <2>6, Zenon
<1> QED BY <1>TickFrame, <1>WalletFrame, <1>HandlerFrame, Zenon

\* What is not done by a client.
LEMMA OtherFrame ==
  ASSUME (\E s \in Sides : Disconnect(s)) \/ Server \/ ServerRevokes \/ Chains \/ Tick \/ UNCHANGED vars
  PROVE  Frame
<1>1. vol' = vol
  BY ZenonT(30) DEF Disconnect, Server, ServerHandles, ServerRevokes, Chains, Mine, Tick, vars
<1> QED BY <1>1, Zenon DEF Frame

\* A search is not lost while the wallets are up.
LEMMA LostStep == ASSUME IInv, NoneLost, ~WalletDown, [Next]_vars PROVE NoneLost'
<1>1. TypeOK /\ vol \in [Sides -> Vol]
  BY Zenon DEF IInv, TypeOK
<1>2. CASE Frame
  BY <1>2, Zenon DEF Frame, NoneLost
<1>0. ASSUME NEW s \in Sides, NEW d \in Stages, vol' = [vol EXCEPT ![s].stage = d] PROVE NoneLost'
  <2>1. (\A o \in Sides : o # s => vol'[o] = vol[o]) /\ vol'[s].lost = vol[s].lost
    BY <1>0, <1>1, Staged, Zenon
  <2> QED BY <2>1, Zenon DEF NoneLost
<1>3. ASSUME NEW s \in Sides, tickCalls(s) \/ SwapRecorded(s) PROVE NoneLost'
  <2>1. \E d \in Stages : vol' = [vol EXCEPT ![s].stage = d]
    BY <1>3, Zenon DEF tickCalls, SwapRecorded, Stages
  <2> QED BY <1>0, <2>1, Zenon
<1>4. ASSUME NEW s \in Sides, Swap(s) PROVE NoneLost'
  <2>1. \/ \E d \in Stages : vol' = [vol EXCEPT ![s].stage = d]
        \/ \E e \in BOOLEAN : vol' = [vol EXCEPT ![s].stage = "idle", ![s].swapErr = e]
    BY <1>4, Zenon DEF Swap, Stages
  <2>2. ASSUME NEW e \in BOOLEAN, vol' = [vol EXCEPT ![s].stage = "idle", ![s].swapErr = e]
        PROVE  NoneLost'
    <3>1. \A t \in Sides : vol'[t].lost = vol[t].lost
      BY <1>1, <2>2, ZenonT(30) DEF Vol
    <3> QED BY <3>1, Zenon DEF NoneLost
  <2> QED BY <1>0, <2>1, <2>2, Zenon
<1>5. ASSUME NEW s \in Sides, Crash(s) PROVE NoneLost'
  <2>1. vol' = [vol EXCEPT ![s] = [Idle EXCEPT !.swapErr = /\ dbm[s].status < swapCast(s)
                                                          /\ chain[s].step # "none"
                                                          /\ s \notin AccountSides]]
    BY <1>5, Zenon DEF Crash
  <2>2. \A t \in Sides : vol'[t].lost => vol[t].lost
    BY <1>1, <2>1, ZenonT(30) DEF Idle
  <2> QED BY <2>2, Zenon DEF NoneLost
<1>6. ASSUME NEW s \in Sides, Client(s) PROVE NoneLost'
  <2>1. CASE tick(s)
    BY <1>1, <1>2, <1>3, <2>1, FrameStep, Zenon DEF tick
  <2>2. CASE walletCalls(s)
    BY <1>1, <1>2, <1>3, <1>4, <2>2, FrameStep, Zenon DEF walletCalls
  <2>3. CASE handlers(s) \/ Retire(s) \/ Reconnect(s) \/ SearchEnds \/ handleRedemption
    BY <1>1, <1>2, <2>3, FrameStep, Zenon
  <2> QED BY <1>6, <2>1, <2>2, <2>3, Zenon DEF Client
<1> QED BY <1>2, <1>5, <1>6, OtherFrame, Zenon DEF Next

OwnKept == \A t \in Sides : mem[t].own => mem'[t].own

\* A step of the system.
LEMMA OwnStep ==
  IInv =>
    /\ \A s \in Sides : Client(s) => OwnKept
    /\ (\E s \in Sides : Disconnect(s) \/ Crash(s)) \/ Server \/ ServerRevokes \/ Chains \/ Tick \/ UNCHANGED vars => OwnKept
<1>OwnPut.
  ASSUME TypeOK, NEW s \in Sides, NEW n \in Match, mem[s].own => n.own, mem' = [mem EXCEPT ![s] = n]
  PROVE  OwnKept
  <2> USE <1>OwnPut
  <2>1. mem \in [Sides -> Match]
    BY Zenon DEF TypeOK
  <2>2. mem'[s] = n /\ \A t \in Sides : t # s => mem'[t] = mem[t]
    BY <2>1, Put, Zenon
  <2> QED BY <2>2, Zenon DEF OwnKept
<1>OwnRevoked.
  ASSUME TypeOK, NEW s \in Sides, mem' = [mem EXCEPT ![s] = [mem[s] EXCEPT !.revoked = TRUE]]
  PROVE  OwnKept
  <2> USE <1>OwnRevoked
  <2> DEFINE n == [mem[s] EXCEPT !.revoked = TRUE]
  <2>1. mem[s] \in Match /\ TRUE \in BOOLEAN
    BY Zenon DEF TypeOK
  <2>2. n \in Match /\ n.own = mem[s].own
    BY <2>1, Revoked, Zenon DEF Alike
  <2>3. mem' = [mem EXCEPT ![s] = n]
    BY Zenon
  <2> HIDE DEF n
  <2> QED BY <2>2, <2>3, <1>OwnPut, Zenon
<1>OwnStatus.
  ASSUME TypeOK, NEW s \in Sides, NEW st \in 0..5, mem' = [mem EXCEPT ![s] = [mem[s] EXCEPT !.status = st]]
  PROVE  OwnKept
  <2> USE <1>OwnStatus
  <2> DEFINE n == [mem[s] EXCEPT !.status = st]
  <2>1. mem[s] \in Match
    BY Zenon DEF TypeOK
  <2>2. n \in Match /\ n.own = mem[s].own
    BY <2>1, StatusSet, Zenon
  <2>3. mem' = [mem EXCEPT ![s] = n]
    BY Zenon
  <2> HIDE DEF n
  <2> QED BY <2>2, <2>3, <1>OwnPut, Zenon
<1>OwnTick. ASSUME IInv, NEW s \in Sides, tick(s) PROVE OwnKept
  <2> USE <1>OwnTick
  <2>1. TypeOK /\ mem[s] \in Match /\ TRUE \in BOOLEAN /\ 5 \in 0..5 /\ swapCast(s) \in 0..5
    BY DEF IInv, TypeOK, swapCast
  <2>2. Flagged(s) \in Match /\ Flagged(s).own = mem[s].own
    BY <2>1, FlaggedMatch, Zenon DEF Alike
  <2>3. CASE mem' = [mem EXCEPT ![s] = Flagged(s)]
    BY <2>1, <2>2, <2>3, <1>OwnPut, Zenon
  <2>4. CASE mem' = [mem EXCEPT ![s] = [Flagged(s) EXCEPT !.status = 5]]
    <3> DEFINE f == Flagged(s)
               n == [f EXCEPT !.status = 5]
    <3>1. n \in Match /\ n.own = mem[s].own
      BY <2>1, <2>2, StatusSet, Zenon
    <3>2. mem' = [mem EXCEPT ![s] = n]
      BY <2>4, Zenon
    <3> HIDE DEF n
    <3> QED BY <2>1, <3>1, <3>2, <1>OwnPut, Zenon
  <2>5. CASE mem' = [mem EXCEPT ![s] = [[mem[s] EXCEPT !.status = swapCast(s), !.own = TRUE] EXCEPT !.revoked = TRUE]]
    <3> DEFINE m == [mem[s] EXCEPT !.status = swapCast(s), !.own = TRUE]
               n == [m EXCEPT !.revoked = TRUE]
    <3>1. m \in Match /\ m.own
      BY <2>1, RecoverSet, Zenon
    <3>2. n \in Match /\ n.own
      <4> HIDE DEF m
      <4>1. n \in Match /\ Alike(s, m, n)
        BY <2>1, <3>1, Revoked, Zenon
      <4> QED BY <3>1, <4>1, Zenon DEF Alike
    <3>3. mem' = [mem EXCEPT ![s] = n]
      BY <2>5, Zenon
    <3> HIDE DEF n
    <3> QED BY <2>1, <3>2, <3>3, <1>OwnPut, Zenon
  <2> QED BY <2>3, <2>4, <2>5, ZenonT(30) DEF tick, tickCalls, tickSearches, tickConfirms, tickRests, tickRecovers
<1>OwnWallet. ASSUME IInv, NEW s \in Sides, walletCalls(s) PROVE OwnKept
  <2> USE <1>OwnWallet
  <2>1. TypeOK /\ mem[s] \in Match /\ mem[s].status \in 0..5 /\ swapCast(s) \in 0..5 /\ redeemed(s) \in 0..5 /\ 5 \in 0..5
    BY Ranges DEF IInv, TypeOK, swapCast, redeemed
  <2>2. CASE Swap(s)
    BY <2>2, SwapEnds, Zenon DEF OwnKept, Alike
  <2>3. CASE SwapRecorded(s)
    <3> DEFINE n == [mem[s] EXCEPT !.own = TRUE, !.status = swapCast(s)]
    <3>1. n \in Match /\ n.own
      BY <2>1, SwapSet, Zenon
    <3>2. mem' = [mem EXCEPT ![s] = n]
      BY <2>3, Zenon DEF SwapRecorded
    <3> HIDE DEF n
    <3> QED BY <2>1, <3>1, <3>2, <1>OwnPut, Zenon
  <2>4. CASE RedeemRecorded(s)
    <3> DEFINE n == [mem[s] EXCEPT !.redeem = TRUE, !.status = redeemed(s)]
    <3>1. n \in Match /\ n.own = mem[s].own
      BY <2>1, RedeemSet, Zenon
    <3>2. mem' = [mem EXCEPT ![s] = n]
      BY <2>4, Zenon DEF RedeemRecorded
    <3> HIDE DEF n
    <3> QED BY <2>1, <3>1, <3>2, <1>OwnPut, Zenon
  <2>5. CASE RefundRecorded(s)
    <3> DEFINE n == [mem[s] EXCEPT !.refund = TRUE, !.revoked = TRUE]
    <3>1. n \in Match /\ n.own = mem[s].own
      BY <2>1, RefundSet, Zenon
    <3>2. mem' = [mem EXCEPT ![s] = n]
      BY <2>5, Zenon DEF RefundRecorded
    <3> HIDE DEF n
    <3> QED BY <2>1, <3>1, <3>2, <1>OwnPut, Zenon
  <2>6. CASE Refund(s)
    <3> DEFINE st == IF s = "maker" THEN 5 ELSE mem[s].status
    <3>1. st \in 0..5
      BY Zenon, <2>1
    <3>2. mem' = mem \/ mem' = [mem EXCEPT ![s] = [mem[s] EXCEPT !.status = st]]
      BY <2>6, Zenon DEF Refund
    <3> HIDE DEF st
    <3> QED BY <2>1, <3>1, <3>2, <1>OwnStatus, Zenon DEF OwnKept
  <2>7. CASE Redeem(s)
    BY <2>7, Zenon DEF Redeem, OwnKept
  <2> QED BY <2>2, <2>3, <2>4, <2>5, <2>6, <2>7, Zenon DEF walletCalls
<1>OwnResolve. ASSUME IInv, NEW s \in Sides, resolveConflict(s) PROVE OwnKept
  <2> USE <1>OwnResolve
  <2> DEFINE v == mem[s].revoked \/ (srv.status < MatchComplete /\ ~srv.active)
             n == [mem[s] EXCEPT !.revoked = v]
  <2>1. TypeOK /\ mem[s] \in Match /\ v \in BOOLEAN
    BY Zenon DEF IInv, TypeOK
  <2>2. mem' = [mem EXCEPT ![s] = n] \/ mem' = [mem EXCEPT ![s] = Conflict(s)]
    BY Zenon DEF resolveConflict
  <2> HIDE DEF v
  <2>3. n \in Match /\ n.own = mem[s].own
    BY <2>1, Revoked, Zenon DEF Alike
  <2>4. Conflict(s) \in Match /\ Conflict(s).own = mem[s].own
    BY ConflictMatch, Zenon
  <2> HIDE DEF n
  <2> QED BY <2>1, <2>2, <2>3, <2>4, <1>OwnPut, Zenon
<1>OwnHandler.
  ASSUME IInv, NEW s \in Sides, handlers(s) \/ Retire(s) \/ Reconnect(s) \/ SearchEnds \/ handleRedemption
  PROVE  OwnKept
  <2> USE <1>OwnHandler
  <2>1. TypeOK /\ \A o \in Sides : mem[o] \in Match /\ mem[o].status \in 0..5
    BY Zenon, Ranges DEF IInv, TypeOK
  <2>2. "taker" \in Sides /\ 4 \in 0..5 /\ 5 \in 0..5 /\ swapCast(other(s)) \in 0..5
    BY DEF Sides, swapCast
  <2>3. CASE mem' = mem \/ resolveConflict(s)
    BY <2>3, <1>OwnResolve, Zenon DEF OwnKept
  <2>4. CASE mem' = [mem EXCEPT ![s] = [mem[s] EXCEPT !.revoked = TRUE]]
    BY <2>1, <2>4, <1>OwnRevoked, Zenon
  <2>5. CASE \E asker \in {"msg", "res"} : auditContract(s, asker)
    BY <2>1, <2>2, <2>3, <2>4, <2>5, <1>OwnStatus, Zenon DEF auditContract
  <2>6. CASE SearchEnds
    <3> DEFINE n == [mem["taker"] EXCEPT !.status = 3, !.secret = TRUE, !.revoked = TRUE]
    <3>1. n \in Match /\ n.own = mem["taker"].own
      BY <2>1, <2>2, SecretSet, Zenon
    <3>2. mem' = [mem EXCEPT !["taker"] = n] \/ mem' = mem
      BY <2>6, Zenon DEF SearchEnds
    <3> HIDE DEF n
    <3> QED BY <2>1, <2>2, <2>3, <3>1, <3>2, <1>OwnPut, Zenon
  <2>7. CASE handleRedemption
    <3> DEFINE n == withSecret([mem["taker"] EXCEPT !.redemptionSig = TRUE])
    <3>1. n \in Match /\ n.own = mem["taker"].own
      BY <2>1, <2>2, ToldSet, Zenon
    <3>2. mem' = [mem EXCEPT !["taker"] = n] \/ mem' = mem
      BY <2>7, Zenon DEF handleRedemption
    <3> HIDE DEF n
    <3> QED BY <2>1, <2>2, <2>3, <3>1, <3>2, <1>OwnPut, Zenon
  <2>8. ASSUME NEW kind \in {"init", "redeem"}, Answered(s, kind) PROVE OwnKept
    <3>1. \/ mem' = mem \/ resolveConflict(s)
          \/ mem' = [mem EXCEPT ![s] = [mem[s] EXCEPT !.revoked = TRUE]]
          \/ mem' = [mem EXCEPT ![s] = [mem[s] EXCEPT !.initSig = TRUE]]
          \/ \E final \in {4, 5} : mem' = [mem EXCEPT ![s] = [mem[s] EXCEPT !.redeemSig = TRUE, !.status =
                                             IF s = "maker" /\ @ < 4 THEN final ELSE @]]
      BY <2>8, ZenonT(30) DEF Answered
    <3>2. CASE mem' = [mem EXCEPT ![s] = [mem[s] EXCEPT !.initSig = TRUE]]
      <4> DEFINE n == [mem[s] EXCEPT !.initSig = TRUE]
      <4>1. n \in Match /\ n.own = mem[s].own
        BY <2>1, InitSigned, Zenon DEF Alike
      <4>2. mem' = [mem EXCEPT ![s] = n]
        BY <3>2, Zenon
      <4> HIDE DEF n
      <4> QED BY <2>1, <4>1, <4>2, <1>OwnPut, Zenon
    <3>3. ASSUME NEW final \in {4, 5},
                 mem' = [mem EXCEPT ![s] = [mem[s] EXCEPT !.redeemSig = TRUE, !.status =
                                             IF s = "maker" /\ @ < 4 THEN final ELSE @]]
          PROVE  OwnKept
      <4> DEFINE st == IF s = "maker" /\ mem[s].status < 4 THEN final ELSE mem[s].status
                 n == [mem[s] EXCEPT !.redeemSig = TRUE, !.status = st]
      <4>1. st \in 0..5
        BY Zenon, <2>1, <2>2
      <4>2. mem' = [mem EXCEPT ![s] = n]
        BY <2>1, <3>3, ZenonT(30) DEF Match
      <4> HIDE DEF st
      <4>3. n \in Match /\ n.own = mem[s].own
        BY <2>1, <4>1, RedeemSigned, Zenon
      <4> HIDE DEF n
      <4> QED BY <2>1, <4>2, <4>3, <1>OwnPut, Zenon
    <3> QED BY <2>3, <2>4, <3>1, <3>2, <3>3, Zenon
  <2>9. CASE handleAudit(s) \/ handleRevokeMatch(s) \/ Retire(s) \/ Reconnect(s)
    BY <2>3, <2>4, <2>9, Zenon DEF handleAudit, handleRevokeMatch, Retire, Reconnect
  <2> QED BY <2>5, <2>6, <2>7, <2>8, <2>9, Zenon DEF handlers
<1>ClientOwns. ASSUME IInv, NEW s \in Sides, Client(s) PROVE OwnKept
  BY <1>ClientOwns, <1>OwnTick, <1>OwnWallet, <1>OwnHandler, Zenon DEF Client
<1>OthersOwn.
  ASSUME IInv, (\E s \in Sides : Disconnect(s) \/ Crash(s)) \/ Server \/ ServerRevokes \/ Chains \/ Tick \/ UNCHANGED vars
  PROVE  OwnKept
  <2> USE <1>OthersOwn
  <2>1. CASE mem' = mem
    BY <2>1, Zenon DEF OwnKept
  <2>2. ASSUME NEW s \in Sides, Crash(s) PROVE OwnKept
    <3>1. TypeOK /\ dbm[s] \in Match /\ dbm[s].own = mem[s].own
      BY Zenon DEF IInv, TypeOK, SameInv, Alike
    <3>2. mem' = [mem EXCEPT ![s] = dbm[s]]
      BY <2>2, Zenon DEF Crash
    <3> QED BY <3>1, <3>2, <1>OwnPut, Zenon
  <2> QED BY <2>1, <2>2, ZenonT(30) DEF Disconnect, Server, ServerHandles, ServerRevokes, Chains, Mine, Tick, vars
<1> QED BY <1>ClientOwns, <1>OthersOwn, Zenon
====
