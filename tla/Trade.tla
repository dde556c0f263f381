------------------------------- MODULE Trade -------------------------------
(***************************************************************************)
(* One match seen by the two clients that settle it: the trackedTrade of   *)
(* the maker and of the taker (client/core/trade.go), the resolution of    *)
(* status conflicts (client/core/status.go), the handlers of the server's  *)
(* requests and the recovery after a restart (client/core/core.go).        *)
(*                                                                         *)
(* A tick decides under the read lock what the match needs, then acts; the *)
(* trade's lock is released around the wallet's Swap, Redeem and Refund,   *)
(* so requests, revocations, search results and even the retirement of the *)
(* trade come between the decision, the broadcast and the record of it.    *)
(* Each of the three is a step here (field stage).  A match lives in       *)
(* memory (mem) and in the client's database (dbm); a crash falls back to  *)
(* the latter.  Connections break and take the requests in flight along.   *)
(*                                                                         *)
(* The server is the relay the clients see: its status of the match, and   *)
(* whether it still works on it.  When it gives up is its own affair       *)
(* (module Swapper) and may be at any time here.  The chains hold one      *)
(* contract per side, locked until a lock time; a spend of it counts once  *)
(* it is broadcast, and no second one is taken; the clock counts the lock  *)
(* times that have passed.  The match starts with the addresses exchanged  *)
(* and its order executed, so that nothing but the match keeps the trade   *)
(* among the active ones.                                                  *)
(***************************************************************************)
EXTENDS Integers

CONSTANTS AccountSides,  \* sides whose funding asset can tell of an init (eth)
          MaxFaults,     \* bound: restarts, broken connections and failed calls
                         \* of the wallet, taken together
          SecondAudits,  \* may an audit be started while another one runs?
          WalletDown     \* may a search find its wallet disconnected?

Sides == {"maker", "taker"}

ASSUME TradeAssumption == /\ AccountSides \subseteq Sides
                          /\ MaxFaults \in Nat
                          /\ SecondAudits \in BOOLEAN
                          /\ WalletDown \in BOOLEAN

VARIABLES mem,      \* the match as each client's trackedTrade has it
          dbm,      \* the match as each client's database has it
          vol,      \* what a client keeps in memory only
          tracked,  \* is the trade among the client's active trades?
          link,     \* is the client connected and authenticated?
          req,      \* each side's init and redeem request, or its answer
          net,      \* requests of the server on their way to the clients
          srv,      \* the server's status of the match, and is it active?
          chain,    \* the contract each side funded
          clock,    \* lock times passed: the taker's is 1, the maker's 2
          faults    \* how many there were

vars == <<mem, dbm, vol, tracked, link, req, net, srv, chain, clock, faults>>

NewlyMatched   == 0
MakerSwapCast  == 1
TakerSwapCast  == 2
MakerRedeemed  == 3
MatchComplete  == 4
MatchConfirmed == 5

other(s) == IF s = "maker" THEN "taker" ELSE "maker"

\* Mutant: one lock time for both.
lockTimeShared(s) == 1

\* lockTimeMaker and lockTimeTaker.
lockTime(s) == IF s = "maker" THEN 2 ELSE 1

\* The status a side's own swap and redeem bring the match to.
swapCast(s) == IF s = "maker" THEN MakerSwapCast ELSE TakerSwapCast
redeemed(s) == IF s = "maker" THEN MakerRedeemed ELSE MatchComplete

NewMatch == [status |-> NewlyMatched,
             own |-> FALSE,            \* ContractData and the swap coin
             secret |-> FALSE,         \* the secret (taker: and MakerRedeem)
             initSig |-> FALSE,
             redeemSig |-> FALSE,
             redemptionSig |-> FALSE,
             redeem |-> FALSE,         \* own redeem coin
             refund |-> FALSE,         \* RefundCoin
             revoked |-> FALSE]        \* ServerRevoked or SelfRevoked

Idle == [stage |-> "idle",             \* of the tick and its wallet call
         swapErr |-> FALSE,
         refundErr |-> FALSE,
         search |-> FALSE,             \* cancelRedemptionSearch # nil
         lost |-> FALSE,               \* ... but there is no search
         audits |-> {}]                \* audits running, by who asked

NoContract == [step |-> "none", lock |-> 0, mined |-> FALSE]

Init == /\ mem = [s \in Sides |-> NewMatch]
        /\ dbm = [s \in Sides |-> NewMatch]
        /\ vol = [s \in Sides |-> Idle]
        /\ tracked = [s \in Sides |-> TRUE]
        /\ link = [s \in Sides |-> TRUE]
        /\ req = [s \in Sides |-> [init |-> "none", redeem |-> "none"]]
        /\ net = {}
        /\ srv = [status |-> NewlyMatched, active |-> TRUE]
        /\ chain = [s \in Sides |-> NoContract]
        /\ clock = 0
        /\ faults = 0

-----------------------------------------------------------------------------
(* What the wallets report of the chain.                                   *)

Spent(c) == chain[c].step \in {"redeemed", "refunded"}
Expired(c) == clock >= chain[c].lock

\* The contract a successful call of Swap puts on the chain.
Funded(lock) == [step |-> "locked", lock |-> lock, mined |-> FALSE]

\* A spend that was broadcast is mined.
Mine(c) == /\ Spent(c) /\ ~chain[c].mined
           /\ chain' = [chain EXCEPT ![c].mined = TRUE]
           /\ UNCHANGED <<mem, dbm, vol, tracked, link, req, net, srv, clock,
                          faults>>

-----------------------------------------------------------------------------
(* Which matches are active, and what a tick finds to do.                  *)

\* Mutant: a taker whose swap is cast is thought to have nothing left to do.
MatchIsActiveUpToMaker(s, m) ==
  /\ m.status # MatchConfirmed
  /\ ~(m.status = MatchComplete /\ ~m.initSig)
  /\ m.revoked => /\ m.status # NewlyMatched
                  /\ ~(m.status \in {MakerSwapCast, TakerSwapCast} /\ s = "taker")

MatchIsActive(s, m) ==
  /\ m.status # MatchConfirmed
  /\ ~(m.status = MatchComplete /\ ~m.initSig)
  /\ m.revoked => /\ m.status # NewlyMatched
                  /\ ~(m.status = MakerSwapCast /\ s = "taker")

\* The guards shared by the ways to find a match (not) swappable.
MaySwap(s) == /\ ~vol[s].swapErr /\ ~mem[s].revoked
              /\ mem[s].status = IF s = "maker" THEN NewlyMatched
                                                ELSE MakerSwapCast

\* Mutant: the contract is never asked.
InitializedUnasked(s) == FALSE

\* checkInitialized: an account asset's contract holds a swap whose
\* transaction the client lost track of; it needs the secret hash to ask.
Initialized(s) == /\ MaySwap(s)
                  /\ s \in AccountSides
                  /\ s = "maker" => mem[s].secret
                  /\ chain[s].step # "none"
                  /\ chain[s].lock = lockTime(s)

\* The maker's contract is no longer worth the taker's swap.
SwapTooLate == \/ Spent("maker")
               \/ Expired("maker")
               \/ clock >= lockTime("taker")

isSwappable(s) == /\ MaySwap(s)
                  /\ ~Initialized(s)
                  /\ s = "taker" => ~SwapTooLate
                  /\ link[s]

MayRedeem(s) == ~vol[s].swapErr /\ ~mem[s].refund

\* Mutant: a revoked match is not redeemed.
isRedeemableUnrevoked(s) ==
  /\ MayRedeem(s) /\ ~mem[s].revoked
  /\ IF s = "maker"
     THEN mem[s].status = TakerSwapCast /\ ~Spent("taker") /\ ~Expired("taker")
     ELSE mem[s].status = MakerRedeemed

isRedeemable(s) ==
  /\ MayRedeem(s)
  /\ IF s = "maker"
     THEN mem[s].status = TakerSwapCast /\ ~Spent("taker") /\ ~Expired("taker")
     ELSE mem[s].status = MakerRedeemed

\* The checks of isSwappable and isRedeemable that revoke the match.
shouldRevoke(s) ==
  \/ Initialized(s)
  \/ s = "taker" /\ MaySwap(s) /\ ~Initialized(s) /\ SwapTooLate
  \/ /\ s = "maker" /\ MayRedeem(s) /\ ~mem[s].revoked
     /\ mem[s].status = TakerSwapCast
     /\ Spent("taker") \/ Expired("taker")

\* Mutant: off by one, the taker's swap is not refunded.
isRefundableMaker(s) == /\ ~vol[s].refundErr /\ ~mem[s].refund
                        /\ mem[s].own
                        /\ mem[s].status < TakerSwapCast
                        /\ Expired(s)

isRefundable(s) == /\ ~vol[s].refundErr /\ ~mem[s].refund
                   /\ mem[s].own
                   /\ mem[s].status < MakerRedeemed
                   /\ Expired(s)

shouldBeginFindRedemption(s, revoked) ==
  /\ s = "taker"
  /\ mem[s].own /\ ~mem[s].secret /\ ~mem[s].refund
  /\ ~vol[s].search
  /\ revoked \/ Spent(s)

shouldConfirmRedemption(s) == mem[s].redeem /\ mem[s].status >= redeemed(s)

\* What checkMatch decides, in its order of preference.
Decision(s) ==
  IF isSwappable(s) THEN "swap"
  ELSE IF isRedeemable(s) THEN "redeem"
  ELSE IF isRefundable(s) THEN "refund"
  ELSE IF shouldBeginFindRedemption(s, mem[s].revoked \/ shouldRevoke(s))
       THEN "search"
  ELSE IF shouldConfirmRedemption(s) THEN "confirmRedeem"
  ELSE IF mem[s].refund THEN "confirmRefund"
  ELSE "none"

-----------------------------------------------------------------------------
(* The tick.                                                               *)

\* sendInitAsync and sendRedeemAsync: one request of a kind at a time, and
\* only over a connection.
sendAsync(s, kind) == IF link[s] /\ req[s][kind] = "none"
                      THEN [req EXCEPT ![s][kind] = "sent"]
                      ELSE req

resendPendingRequests(s) ==
  LET m == mem[s]
  IN  IF vol[s].swapErr \/ m.revoked THEN req
      ELSE IF m.own /\ m.status = swapCast(s) /\ ~m.initSig
           THEN sendAsync(s, "init")
      ELSE IF m.redeem /\ m.status >= redeemed(s) /\ ~m.redeemSig
           THEN sendAsync(s, "redeem")
      ELSE req

\* The check phase of a tick that reaches decision d.
Checked(s, d) == /\ tracked[s]
                 /\ vol[s].stage = "idle"
                 /\ MatchIsActive(s, mem[s])
                 /\ ~Initialized(s)
                 /\ Decision(s) = d
                 /\ req' = resendPendingRequests(s)

\* The match after the tick flagged it: the flag is not stored.
Flagged(s) == [mem[s] EXCEPT !.revoked = @ \/ shouldRevoke(s)]

tickCalls(s) ==
  \E d \in {"swap", "redeem", "refund"} :
    /\ Checked(s, d)
    /\ vol' = [vol EXCEPT ![s].stage = d]
    /\ mem' = [mem EXCEPT ![s] = Flagged(s)]
    /\ UNCHANGED <<dbm, tracked, link, net, srv, chain, clock, faults>>

\* findMakersRedemption notes the search before it looks whether the wallet
\* is connected; without the wallet there is none.
tickSearches(s) ==
  /\ Checked(s, "search")
  /\ \E lost \in BOOLEAN :
       /\ lost => WalletDown /\ faults < MaxFaults
       /\ faults' = IF lost THEN faults + 1 ELSE faults
       /\ vol' = [vol EXCEPT ![s].search = TRUE, ![s].lost = lost]
  /\ mem' = [mem EXCEPT ![s] = Flagged(s)]
  /\ UNCHANGED <<dbm, tracked, link, net, srv, chain, clock>>

\* confirmTx: the spend is mined.  A redeem also waits for the server's
\* acknowledgement unless the match is revoked.
Confirmed(s, d) ==
  IF d = "confirmRefund"
  THEN chain[s].mined
  ELSE chain[other(s)].mined /\ (mem[s].redeemSig \/ mem[s].revoked)

tickConfirms(s) ==
  \E d \in {"confirmRedeem", "confirmRefund"} :
    /\ Checked(s, d)
    /\ LET m == IF Confirmed(s, d)
                THEN [Flagged(s) EXCEPT !.status = MatchConfirmed]
                ELSE Flagged(s)
       IN  /\ mem' = [mem EXCEPT ![s] = m]
           /\ dbm' = IF Confirmed(s, d) THEN [dbm EXCEPT ![s] = m] ELSE dbm
    /\ UNCHANGED <<vol, tracked, link, net, srv, chain, clock, faults>>

tickRests(s) ==
  /\ Checked(s, "none")
  /\ mem' = [mem EXCEPT ![s] = Flagged(s)]
  /\ UNCHANGED <<dbm, vol, tracked, link, net, srv, chain, clock, faults>>

\* The swap is found initialized: note the contract, store it, and revoke.
\* What the rest of the check finds then, the next tick finds as well.
tickRecovers(s) ==
  /\ tracked[s] /\ vol[s].stage = "idle"
  /\ MatchIsActive(s, mem[s])
  /\ Initialized(s)
  /\ LET m == [mem[s] EXCEPT !.status = swapCast(s), !.own = TRUE]
     IN  /\ dbm' = [dbm EXCEPT ![s] = m]
         /\ mem' = [mem EXCEPT ![s] = [m EXCEPT !.revoked = TRUE]]
  /\ req' = resendPendingRequests(s)
  /\ UNCHANGED <<vol, tracked, link, net, srv, chain, clock, faults>>

-----------------------------------------------------------------------------
(* The wallet calls of a tick, made without the trade's lock.              *)

\* The lock time of the contract about to be sent: the maker's is chosen
\* together with the secret, when there is none yet.
contractLock(s) == IF s = "maker" /\ ~mem[s].secret THEN lockTime("maker")
                                                    ELSE lockTime("taker")

\* swapMatchGroup up to the broadcast.  Nothing is checked again but the
\* connection; the secret is in memory only until the swap is recorded.
Swap(s) ==
  /\ vol[s].stage = "swap"
  /\ mem' = [mem EXCEPT ![s].secret = @ \/ s = "maker"]
  /\ \/ /\ link[s]
        /\ chain' = [chain EXCEPT ![s] = Funded(contractLock(s))]
        /\ vol' = [vol EXCEPT ![s].stage = "swapped"]
        /\ UNCHANGED faults
     \/ /\ ~link[s]
        /\ vol' = [vol EXCEPT ![s].stage = "idle"]
        /\ UNCHANGED <<chain, faults>>
     \/ /\ link[s] /\ faults < MaxFaults       \* an error of the wallet
        /\ faults' = faults + 1
        /\ \E givenUp \in BOOLEAN :
             vol' = [vol EXCEPT ![s].stage = "idle", ![s].swapErr = givenUp]
        /\ \/ UNCHANGED chain
           \/ /\ s \in AccountSides             \* that came too late
              /\ chain' = [chain EXCEPT ![s] = Funded(contractLock(s))]
  /\ UNCHANGED <<dbm, tracked, link, req, net, srv, clock>>

\* swapMatchGroup with the receipt: store the swap, then tell the server.
SwapRecorded(s) ==
  /\ vol[s].stage = "swapped"
  /\ LET m == [mem[s] EXCEPT !.own = TRUE, !.status = swapCast(s)]
     IN  mem' = [mem EXCEPT ![s] = m] /\ dbm' = [dbm EXCEPT ![s] = m]
  /\ vol' = [vol EXCEPT ![s].stage = "idle"]
  /\ req' = sendAsync(s, "init")
  /\ UNCHANGED <<tracked, link, net, srv, chain, clock, faults>>

\* redeemMatchGroup.  An error only delays the next attempt.
Redeem(s) ==
  /\ vol[s].stage = "redeem"
  /\ IF chain[other(s)].step = "locked"
     THEN /\ chain' = [chain EXCEPT ![other(s)].step = "redeemed"]
          /\ vol' = [vol EXCEPT ![s].stage = "redeemed"]
     ELSE /\ vol' = [vol EXCEPT ![s].stage = "idle"]
          /\ UNCHANGED chain
  /\ UNCHANGED <<mem, dbm, tracked, link, req, net, srv, clock, faults>>

RedeemRecorded(s) ==
  /\ vol[s].stage = "redeemed"
  /\ LET m == [mem[s] EXCEPT !.redeem = TRUE, !.status = redeemed(s)]
     IN  mem' = [mem EXCEPT ![s] = m] /\ dbm' = [dbm EXCEPT ![s] = m]
  /\ vol' = [vol EXCEPT ![s].stage = "idle"]
  /\ req' = IF mem[s].redeemSig THEN req ELSE sendAsync(s, "redeem")
  /\ UNCHANGED <<tracked, link, net, srv, chain, clock, faults>>

\* The statuses at which refundMatches refunds.
refundValid(s) == /\ ~mem[s].refund
                  /\ \/ s = "maker" /\ mem[s].status = MakerSwapCast
                     \/ s = "maker" /\ mem[s].status = TakerSwapCast
                                    /\ ~mem[s].redeem
                     \/ s = "taker" /\ mem[s].status = TakerSwapCast

\* refundMatches up to the broadcast.  A contract that is spent already ends
\* the maker's match and starts the taker's search for the secret; after any
\* other error the taker searches too, and the refund is tried again.
Refund(s) ==
  /\ vol[s].stage = "refund"
  /\ \/ /\ refundValid(s) /\ chain[s].step = "locked"
        /\ chain' = [chain EXCEPT ![s].step = "refunded"]
        /\ vol' = [vol EXCEPT ![s].stage = "refunded"]
        /\ UNCHANGED <<mem, dbm, faults>>
     \/ /\ refundValid(s) /\ faults < MaxFaults
        /\ faults' = faults + 1
        /\ vol' = [vol EXCEPT ![s].stage = "idle",
                              ![s].search = @ \/ s = "taker"]
        /\ UNCHANGED <<mem, dbm, chain>>
     \/ /\ refundValid(s) /\ Spent(s)
        /\ vol' = [vol EXCEPT ![s].stage = "idle", ![s].refundErr = TRUE,
                              ![s].search = @ \/ s = "taker"]
        /\ LET m == [mem[s] EXCEPT !.status =
                       IF s = "maker" THEN MatchConfirmed ELSE @]
           IN  /\ mem' = [mem EXCEPT ![s] = m]
               /\ dbm' = IF s = "maker" THEN [dbm EXCEPT ![s] = m] ELSE dbm
        /\ UNCHANGED <<chain, faults>>
     \/ /\ ~refundValid(s)
        /\ vol' = [vol EXCEPT ![s].stage = "idle"]
        /\ UNCHANGED <<mem, dbm, chain, faults>>
  /\ UNCHANGED <<tracked, link, req, net, srv, clock>>

RefundRecorded(s) ==
  /\ vol[s].stage = "refunded"
  /\ LET m == [mem[s] EXCEPT !.refund = TRUE, !.revoked = TRUE]
     IN  mem' = [mem EXCEPT ![s] = m] /\ dbm' = [dbm EXCEPT ![s] = m]
  /\ vol' = [vol EXCEPT ![s].stage = "idle", ![s].search = FALSE]
  /\ UNCHANGED <<tracked, link, req, net, srv, chain, clock, faults>>

\* findMakersRedemption ends: with the secret, applied if the match still
\* waits for it, or with an error because the contract was refunded.
SearchEnds ==
  /\ vol["taker"].search /\ ~vol["taker"].lost
  /\ \/ /\ chain["taker"].step = "redeemed"
        /\ LET m == [mem["taker"] EXCEPT !.status = MakerRedeemed,
                        !.secret = TRUE, !.revoked = TRUE]
           IN  IF mem["taker"].status = TakerSwapCast
               THEN /\ mem' = [mem EXCEPT !["taker"] = m]
                    /\ dbm' = [dbm EXCEPT !["taker"] = m]
               ELSE UNCHANGED <<mem, dbm>>
     \/ /\ chain["taker"].step = "refunded"
        /\ UNCHANGED <<mem, dbm>>
  /\ vol' = [vol EXCEPT !["taker"].search = FALSE]
  /\ UNCHANGED <<tracked, link, req, net, srv, chain, clock, faults>>

-----------------------------------------------------------------------------
(* What the server asks of a client.                                       *)

Requests(s) == {[to |-> s, kind |-> k] : k \in {"audit", "redemption", "revoke"}}

\* processAuditMsg starts an audit; the request for a trade that is no longer
\* active is refused.
handleAudit(s) ==
  /\ [to |-> s, kind |-> "audit"] \in net
  /\ net' = net \ {[to |-> s, kind |-> "audit"]}
  /\ vol' = IF tracked[s] /\ (SecondAudits \/ vol[s].audits = {})
            THEN [vol EXCEPT ![s].audits = @ \union {"msg"}]
            ELSE vol
  /\ UNCHANGED <<mem, dbm, tracked, link, req, srv, chain, clock, faults>>

\* auditContract ends, whenever the wallet has found the counterparty's
\* contract.  It sets the status whatever the status has become.  A contract
\* that fails the audit ends the match if status resolution asked for it.
auditContract(s, asker) ==
  /\ asker \in vol[s].audits
  /\ vol' = [vol EXCEPT ![s].audits = @ \ {asker}]
  /\ IF chain[other(s)].lock >= lockTime(other(s))
     THEN LET m == [mem[s] EXCEPT !.status = swapCast(other(s))]
          IN  mem' = [mem EXCEPT ![s] = m] /\ dbm' = [dbm EXCEPT ![s] = m]
     ELSE IF asker = "res"
     THEN LET m == [mem[s] EXCEPT !.revoked = TRUE]
          IN  mem' = [mem EXCEPT ![s] = m] /\ dbm' = [dbm EXCEPT ![s] = m]
     ELSE UNCHANGED <<mem, dbm>>
  /\ UNCHANGED <<tracked, link, req, net, srv, chain, clock, faults>>

\* processMakersRedemption.
withSecret(m) == [m EXCEPT !.status = MakerRedeemed, !.secret = TRUE]

\* handleRedemptionRoute: the taker takes the secret unless the match cannot
\* be waiting for it; a taker that has retired the trade reports its redeem.
handleRedemption ==
  /\ [to |-> "taker", kind |-> "redemption"] \in net
  /\ net' = net \ {[to |-> "taker", kind |-> "redemption"]}
  /\ LET m == mem["taker"]
         takes == /\ tracked["taker"]
                  /\ m.status >= TakerSwapCast
                  /\ m.status > TakerSwapCast => ~m.redemptionSig
         next == withSecret([m EXCEPT !.redemptionSig = TRUE])
     IN  /\ mem' = IF takes THEN [mem EXCEPT !["taker"] = next] ELSE mem
         /\ dbm' = IF takes THEN [dbm EXCEPT !["taker"] = next] ELSE dbm
         /\ req' = IF ~tracked["taker"] /\ dbm["taker"].redeem
                   THEN sendAsync("taker", "redeem") ELSE req
  /\ UNCHANGED <<vol, tracked, link, srv, chain, clock, faults>>

\* revokeMatch.
handleRevokeMatch(s) ==
  /\ [to |-> s, kind |-> "revoke"] \in net
  /\ net' = net \ {[to |-> s, kind |-> "revoke"]}
  /\ LET m == [mem[s] EXCEPT !.revoked = TRUE]
     IN  IF tracked[s]
         THEN mem' = [mem EXCEPT ![s] = m] /\ dbm' = [dbm EXCEPT ![s] = m]
         ELSE UNCHANGED <<mem, dbm>>
  /\ UNCHANGED <<vol, tracked, link, req, srv, chain, clock, faults>>

\* checkTrades: a trade without an active match is dropped, even while a
\* wallet call of its tick is under way.
Retire(s) == /\ tracked[s]
             /\ ~MatchIsActive(s, mem[s])
             /\ tracked' = [tracked EXCEPT ![s] = FALSE]
             /\ UNCHANGED <<mem, dbm, vol, link, req, net, srv, chain, clock,
                            faults>>

-----------------------------------------------------------------------------
(* The conflict resolvers of status.go, by our status and the server's.    *)

\* The audit a resolver starts.
ResolverAudits(s) ==
  /\ ~mem[s].revoked /\ srv.active
  /\ mem[s].status = swapCast(other(s)) - 1 /\ srv.status = swapCast(other(s))
  /\ SecondAudits \/ vol[s].audits = {}

\* The match after a resolver that found nothing to repair.
Conflict(s) ==
  LET m == mem[s]
      at(ours, servers) == m.status = ours /\ srv.status = servers
      mine(kind) == IF kind = "init" THEN m.initSig ELSE m.redeemSig
      \* The server lacks what side t reported: t sends it again unless it
      \* was acknowledged; the other side cannot repair this.
      lacks(t, kind) == [m EXCEPT !.revoked = s # t \/ mine(kind)]
      \* The server has more than side t told us, and we are not side t.
      more(t, known) == IF s = t THEN [m EXCEPT !.revoked = TRUE] ELSE known
  IN  CASE at(0, 1) -> more("maker", m)
        [] at(1, 0) -> lacks("maker", "init")
        [] at(1, 2) -> more("taker", m)
        [] at(2, 1) -> lacks("taker", "init")
        [] at(2, 3) -> more("maker", withSecret(m))
        [] at(3, 2) -> lacks("maker", "redeem")
        [] at(3, 4) -> more("taker", [m EXCEPT !.status = MatchComplete])
        [] at(4, 3) \/ at(5, 3) ->
             IF s = "maker" THEN m ELSE lacks("taker", "redeem")
        [] OTHER -> [m EXCEPT !.revoked = TRUE]

\* Is there a resolver for the two statuses?
HasResolver(ours) ==
  <<ours, srv.status>> \in {<<0, 1>>, <<1, 0>>, <<1, 2>>, <<2, 1>>, <<2, 3>>,
                            <<3, 2>>, <<3, 4>>, <<4, 3>>, <<5, 3>>}

\* resolveConflictWithServerData.  A revocation by the server is noted in
\* memory, and nothing else is done then.
resolveConflict(s) ==
  LET gone == srv.status < MatchComplete /\ ~srv.active
      m == [mem[s] EXCEPT !.revoked = @ \/ gone]
  IN  IF srv.status = m.status \/ m.revoked
      THEN mem' = [mem EXCEPT ![s] = m] /\ UNCHANGED <<dbm, vol>>
      ELSE /\ mem' = [mem EXCEPT ![s] = Conflict(s)]
           /\ dbm' = [dbm EXCEPT ![s] = Conflict(s)]
           /\ vol' = [vol EXCEPT
                ![s].swapErr = @ \/ ~HasResolver(mem[s].status),
                ![s].audits = IF ResolverAudits(s) THEN @ \union {"res"} ELSE @]

\* authDEX after a connection broke: compareServerMatches, then resolution.
Reconnect(s) ==
  /\ ~link[s]
  /\ link' = [link EXCEPT ![s] = TRUE]
  /\ LET m == [mem[s] EXCEPT !.revoked = TRUE]
         missing == /\ ~srv.active /\ MatchIsActive(s, mem[s])
                    /\ ~mem[s].revoked /\ mem[s].status < MatchComplete
     IN  \/ /\ tracked[s] /\ missing
            /\ mem' = [mem EXCEPT ![s] = m]
            /\ dbm' = [dbm EXCEPT ![s] = m]
            /\ UNCHANGED vol
         \/ /\ tracked[s] /\ srv.active /\ srv.status # mem[s].status
            /\ resolveConflict(s)
         \/ /\ tracked[s] => ~missing
            /\ tracked[s] /\ srv.active => srv.status = mem[s].status
            /\ UNCHANGED <<mem, dbm, vol>>
  /\ UNCHANGED <<tracked, req, net, srv, chain, clock, faults>>

-----------------------------------------------------------------------------
(* The server, as the clients see it.                                      *)

\* Requests reach the clients that are connected.
Asked(msgs) == net \union {r \in msgs : link[r.to]}

\* An init or redeem request: refused for a match the server has dropped or
\* that is not at the step before it, an init also for its lock time.
ServerHandles(s, kind) ==
  LET after == IF kind = "init" THEN swapCast(s) ELSE redeemed(s)
      answer(a) == req' = [req EXCEPT ![s][kind] = a]
      relay == [to |-> other(s),
                kind |-> IF kind = "init" THEN "audit" ELSE "redemption"]
  IN  /\ req[s][kind] = "sent"
      /\ \/ ~srv.active /\ answer("unknown") /\ UNCHANGED <<srv, net>>
         \/ /\ srv.active /\ srv.status # after - 1
            /\ answer("sequence") /\ UNCHANGED <<srv, net>>
         \/ /\ srv.active /\ srv.status = after - 1
            /\ kind = "init" /\ chain[s].lock < lockTime(s)
            /\ answer("refused") /\ UNCHANGED <<srv, net>>
         \/ /\ srv.active /\ srv.status = after - 1
            /\ kind = "init" /\ chain[s].lock = lockTime(s) /\ Expired(s)
            /\ answer("refused")
            /\ srv' = [srv EXCEPT !.active = FALSE]
            /\ net' = Asked({[to |-> t, kind |-> "revoke"] : t \in Sides})
         \/ /\ srv.active /\ srv.status = after - 1
            /\ kind = "init" => chain[s].lock = lockTime(s) /\ ~Expired(s)
            /\ answer("ok")
            /\ srv' = [status |-> after, active |-> after # MatchComplete]
            /\ net' = IF after = MatchComplete THEN net ELSE Asked({relay})
      /\ UNCHANGED <<mem, dbm, vol, tracked, link, chain, clock, faults>>

\* The server revokes the match (Swapper's inaction checks).
ServerRevokes ==
  /\ srv.active
  /\ srv' = [srv EXCEPT !.active = FALSE]
  /\ net' = Asked({[to |-> s, kind |-> "revoke"] : s \in Sides})
  /\ UNCHANGED <<mem, dbm, vol, tracked, link, req, chain, clock, faults>>

\* The goroutine of sendInitAsync or sendRedeemAsync gets its answer.
Answered(s, kind) ==
  /\ req[s][kind] \in {"ok", "sequence", "unknown", "refused"}
  /\ req' = [req EXCEPT ![s][kind] = "none"]
  /\ \/ /\ req[s][kind] = "ok"
        /\ \E final \in {MatchComplete, MatchConfirmed} :
             /\ final = MatchConfirmed => chain[other(s)].mined
             /\ LET m == IF kind = "init"
                         THEN [mem[s] EXCEPT !.initSig = TRUE]
                         ELSE [mem[s] EXCEPT !.redeemSig = TRUE, !.status =
                                IF s = "maker" /\ @ < MatchComplete
                                THEN final ELSE @]
                IN  /\ mem' = [mem EXCEPT ![s] = m]
                    /\ dbm' = [dbm EXCEPT ![s] = m]
        /\ UNCHANGED vol
     \/ req[s][kind] = "sequence" /\ resolveConflict(s)
     \/ /\ req[s][kind] = "unknown"
        /\ LET m == [mem[s] EXCEPT !.revoked = TRUE]
           IN  mem' = [mem EXCEPT ![s] = m] /\ dbm' = [dbm EXCEPT ![s] = m]
        /\ UNCHANGED vol
     \/ req[s][kind] = "refused" /\ UNCHANGED <<mem, dbm, vol>>
  /\ UNCHANGED <<tracked, link, net, srv, chain, clock, faults>>

-----------------------------------------------------------------------------
(* Faults and time.                                                        *)

Unsent == [init |-> "none", redeem |-> "none"]

Disconnect(s) ==
  /\ link[s] /\ faults < MaxFaults
  /\ faults' = faults + 1
  /\ link' = [link EXCEPT ![s] = FALSE]
  /\ net' = net \ Requests(s)
  /\ req' = [req EXCEPT ![s] = Unsent]
  /\ UNCHANGED <<mem, dbm, vol, tracked, srv, chain, clock>>

\* The client dies and comes back: loadDBTrades takes the active matches,
\* resumeTrade blocks a swap whose funding coins are gone (an account asset
\* has none to miss).
Crash(s) ==
  /\ faults < MaxFaults
  /\ faults' = faults + 1
  /\ mem' = [mem EXCEPT ![s] = dbm[s]]
  /\ tracked' = [tracked EXCEPT ![s] = MatchIsActive(s, dbm[s])]
  /\ vol' = [vol EXCEPT ![s] =
              [Idle EXCEPT !.swapErr = /\ dbm[s].status < swapCast(s)
                                       /\ chain[s].step # "none"
                                       /\ s \notin AccountSides]]
  /\ link' = [link EXCEPT ![s] = FALSE]
  /\ net' = net \ Requests(s)
  /\ req' = [req EXCEPT ![s] = Unsent]
  /\ UNCHANGED <<dbm, srv, chain, clock>>

\* A client, its wallet or its chain is about to get something done.  (The
\* search for the spender of a contract that was refunded, and a redeem of
\* one that is spent, are tried again and again in vain.)
Busy(s) == \/ vol[s].stage \notin {"idle", "redeem"}
           \/ vol[s].stage = "redeem" /\ chain[other(s)].step = "locked"
           \/ vol[s].audits # {}
           \/ vol[s].search /\ ~vol[s].lost /\ chain[s].step = "redeemed"
           \/ Spent(s) /\ ~chain[s].mined
           \/ ~link[s]
           \/ net \intersect Requests(s) # {}
           \/ \E kind \in {"init", "redeem"} : req[s][kind] # "none"
           \/ /\ tracked[s] /\ MatchIsActive(s, mem[s])
              /\ \/ Initialized(s) \/ shouldRevoke(s)
                 \/ Decision(s) \in {"swap", "refund"}
                 \/ Decision(s) = "redeem" /\ chain[other(s)].step = "locked"
                 \/ Decision(s) = "search" /\ chain[s].step = "redeemed"
                 \/ \E d \in {"confirmRedeem", "confirmRefund"} :
                      Decision(s) = d /\ Confirmed(s, d)
                 \/ resendPendingRequests(s) # req

\* The taker's lock time passes at any moment.  From there to the maker's it
\* is hours: whatever was about to happen has happened by then.
Tick == /\ clock < lockTime("maker")
        /\ clock = lockTime("taker") => \A s \in Sides : ~Busy(s)
        /\ clock' = clock + 1
        /\ UNCHANGED <<mem, dbm, vol, tracked, link, req, net, srv, chain,
                       faults>>

tick(s) == \/ tickCalls(s) \/ tickSearches(s) \/ tickConfirms(s)
           \/ tickRests(s) \/ tickRecovers(s)

walletCalls(s) == \/ Swap(s) \/ SwapRecorded(s)
                  \/ Redeem(s) \/ RedeemRecorded(s)
                  \/ Refund(s) \/ RefundRecorded(s)

handlers(s) == \/ handleAudit(s)
               \/ handleRevokeMatch(s)
               \/ \E asker \in {"msg", "res"} : auditContract(s, asker)
               \/ \E kind \in {"init", "redeem"} : Answered(s, kind)

Client(s) == \/ tick(s) \/ walletCalls(s) \/ handlers(s)
             \/ Retire(s) \/ Reconnect(s)
             \/ s = "taker" /\ (SearchEnds \/ handleRedemption)

Server == \E s \in Sides, kind \in {"init", "redeem"} : ServerHandles(s, kind)

Chains == \E s \in Sides : Mine(s)

Next == \/ \E s \in Sides : Client(s) \/ Disconnect(s) \/ Crash(s)
        \/ Server \/ ServerRevokes \/ Chains \/ Tick

Spec == Init /\ [][Next]_vars
-----------------------------------------------------------------------------
(* What the clients promise.                                               *)

Swaps == INSTANCE AtomicSwap WITH makerSwap <- chain["maker"].step,
                                  takerSwap <- chain["taker"].step

\* What the two clients do to the contracts is an atomic swap (AtomicSwap):
\* whatever requests are lost, whenever the server gives up and wherever one
\* of them restarts, the taker never funds a contract against one that is
\* spent, and neither side ends up with both contracts.  The maker refunds
\* only a contract whose secret is not out (isRefundable, refundMatches), the
\* taker looks the secret up on the chain (findMakersRedemption) when nobody
\* tells it.
ImplementsAtomicSwap == Swaps!AtomicSpec

\* A client funds one contract of a match, not two: a Swap whose outcome was
\* lost by an error or a restart is found again (checkInitialized) or is not
\* repeated (resumeTrade).  This is with one audit at a time, and not for a
\* maker that funds from an account: resumeTrade has no coins to miss there,
\* and the secret hash checkInitialized would ask for died with the client.
SwapsOnce ==
  [][\A s \in Sides : (vol[s].stage = "swap" /\ vol'[s].stage = "swapped")
                        => chain[s].step = "none"]_vars

\* A restart can always work on a contract that was recorded: while it is
\* locked, the match in the database is one loadDBTrades takes up again,
\* unless the client was paid by the counterparty's contract.
RecordedIsActive ==
  \A s \in Sides : (chain[s].step = "locked" /\ dbm[s].own)
                     => \/ MatchIsActive(s, dbm[s])
                        \/ chain[other(s)].step = "redeemed"

\* Nobody waits for ever: when both lock times have passed and no client, no
\* request and no transaction is under way, every recorded contract of a
\* trade that is still tracked has been redeemed or refunded.
NoneLeftWaiting ==
  (clock = lockTime("maker") /\ \A s \in Sides : ~Busy(s))
    => \A s \in Sides : (tracked[s] /\ chain[s].step # "none" /\ dbm[s].own)
                         => Spent(s)

\* The taker is paid: when the maker has redeemed the taker's contract, then
\* by the time nothing is under way any more the taker has redeemed the
\* maker's.  The secret comes with the server's request, with the resolution
\* of a status conflict, or from the chain (findMakersRedemption).
TakerIsPaid ==
  /\ clock = lockTime("maker") /\ \A s \in Sides : ~Busy(s)
  /\ tracked["taker"] /\ dbm["taker"].own /\ chain["taker"].step = "redeemed"
  => chain["maker"].step = "redeemed"

\* MatchIsActive's comment: matches that make it to MakerRedeemed or
\* MatchComplete stay active until the redeem is confirmed.
UnconfirmedIsActive ==
  \A s \in Sides : /\ mem[s].redeem
                    /\ mem[s].status \in {MakerRedeemed, MatchComplete}
                    /\ ~chain[other(s)].mined
                    => MatchIsActive(s, mem[s])
=============================================================================
