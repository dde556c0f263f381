------------------------------- MODULE Matcher -------------------------------
(***************************************************************************)
(* The matching of an epoch's orders against the book                      *)
(* (server/matcher/match.go), and what it reports to the market: the       *)
(* matches, the slices that sort the orders by their fate, from which      *)
(* storage, coin locks and the order feed are updated, and the amounts     *)
(* filled.                                                                 *)
(*                                                                         *)
(* The pseudorandom shuffle of the queue is any order of the queue: the    *)
(* order that is taken next is chosen when it is taken.  Amounts are in    *)
(* units of the base asset; rates are in units of 1/RateFactor quote per   *)
(* base, with the truncating conversions of dex/calc.  Statistics of the   *)
(* cycle are left out.                                                     *)
(***************************************************************************)
EXTENDS Integers, Sequences, FiniteSets, FiniteSetsExt, SequencesExt

CONSTANTS LotSize, RateFactor,
          Rates, Quantities,  \* of limit orders, in base units
          SellQuantities,     \* of market sells, in base units
          Budgets,            \* of market buys, in quote units
          MaxOrders,          \* bound: orders taken in all
          MaxEpochs           \* bound: match cycles

ASSUME MatcherAssumption == /\ LotSize \in Nat \ {0} /\ RateFactor \in Nat \ {0}
                            /\ Rates \subseteq Nat \ {0}
                            /\ Quantities \cup SellQuantities \subseteq Nat /\ Budgets \subseteq Nat

VARIABLES
  orders,   \* orders taken so far; the index breaks ties of time, as the ID does
  book,     \* orders on the book
  cur,      \* the order being matched: 0 or the last of orders
  left,     \* amtRemaining of the loop that matches cur
  filled,   \* FillAmt of each order
  matches,  \* the trade matches: taker, maker, amount
  epoch,    \* number of the match cycle
  first,    \* first order of the epoch
  start,    \* the book as the epoch found it
  out       \* what Match returns: one set per slice

vars == <<orders, book, cur, left, filled, matches, epoch, first, start, out>>

Slices == {"passed", "failed", "doneOK", "partial", "booked", "nomatched", "unbooked",
           "CancelsExecuted", "CancelsFailed", "TradesFailed", "TradesBooked",
           "TradesPartial", "TradesCanceled", "TradesCompleted"}

Limits == [kind : {"limit"}, sell : BOOLEAN, rate : Rates, qty : Quantities, standing : {TRUE},
           time : {2 * epoch, 2 * epoch + 1}]
            \cup [kind : {"limit"}, sell : BOOLEAN, rate : Rates, qty : Quantities, standing : {FALSE}]
Markets == [kind : {"market"}, sell : {TRUE}, rate : {0}, qty : SellQuantities]
             \cup [kind : {"market"}, sell : {FALSE}, qty : Budgets]
Cancels == [kind : {"cancel"}, target : 1 .. MaxOrders]

Init ==
  /\ orders = <<>> /\ book = {} /\ cur = 0 /\ left = 0 /\ filled = <<>> /\ matches = <<>>
  /\ epoch = 1 /\ first = 1 /\ start = {}
  /\ out = [s \in Slices |-> {}]

-----------------------------------------------------------------------------

BaseToQuote(rate, base) == (base * rate) \div RateFactor
QuoteToBase(rate, quote) == (quote * RateFactor) \div rate

Remaining(i) == orders[i].qty - filled[i]
marketBuy(o) == o.kind = "market" /\ ~o.sell

orderLotSizeOK(o) == o.kind = "cancel" \/ marketBuy(o) \/ o.qty % LotSize = 0

\* Orders go into the slices named.
Into(o, i, ss) == [s \in Slices |-> IF s \in ss THEN o[s] \cup {i} ELSE o[s]]

\* LessByPriceThenTime of sells, GreaterByPriceThenTime of buys.
Better(i, j) ==
  LET a == orders[i]  b == orders[j]
  IN \/ (IF a.sell THEN a.rate < b.rate ELSE a.rate > b.rate)
     \/ a.rate = b.rate /\ a.time < b.time
     \/ a.rate = b.rate /\ a.time = b.time /\ i < j

Side(sell) == {i \in book : orders[i].sell = sell}

\* Mutant of Best: among equal rates the order inserted first, not the oldest.
BestInserted(sell) ==
  CHOOSE i \in Side(sell) : \A j \in Side(sell) :
    \/ i = j \/ (orders[i].rate = orders[j].rate /\ i < j)
    \/ (orders[i].rate # orders[j].rate /\ Better(i, j))

Best(sell) == CHOOSE i \in Side(sell) : \A j \in Side(sell) : j = i \/ Better(i, j)

\* Mutant of rateMatch: equal rates do not match.
rateMatchStrict(o, rate) == IF o.sell THEN o.rate < rate ELSE rate < o.rate

\* A market sell is a limit order without a minimum rate (a rate of 0).
rateMatch(o, rate) == IF o.sell THEN o.rate <= rate ELSE rate <= o.rate

\* What the order can still take at the rate of the best order.
baseLeft(o, rate) == IF marketBuy(o) THEN QuoteToBase(rate, left) ELSE left

\* The loop of matchLimitOrder and matchMarketBuyOrder goes on.
Matchable ==
  /\ left > 0
  /\ Side(~orders[cur].sell) # {}
  /\ LET o == orders[cur]
         rate == orders[Best(~o.sell)].rate
     IN IF marketBuy(o) THEN baseLeft(o, rate) >= LotSize ELSE rateMatch(o, rate)

\* Mutant of matchAmount: a market buy is not rounded down to lots.
matchAmountOdd(o, best) ==
  LET able == baseLeft(o, orders[best].rate)
  IN IF able < Remaining(best) THEN able ELSE Remaining(best)

\* The match with the best order: all of it, or what is left, in whole lots.
matchAmount(o, best) ==
  LET able == baseLeft(o, orders[best].rate)
  IN IF able >= Remaining(best) THEN Remaining(best)
     ELSE IF marketBuy(o) THEN able - (able % LotSize) ELSE able

\* A market sell is matched as a copy, so that its own fill stays as it was.
FillsTaker(o) == ~(o.kind = "market" /\ o.sell)

\* Mutant of tallyMaker: a matched maker stays in nomatched.
tallyMakerKeeps(o, best, rest) ==
  IF rest = 0
  THEN Into([o EXCEPT !.TradesPartial = @ \ {best}], best, {"unbooked", "TradesCompleted"})
  ELSE Into(o, best, {"TradesPartial"})

\* tallyMakers, for one maker.
tallyMaker(o, best, rest) ==
  LET n == [o EXCEPT !.nomatched = @ \ {best}]
  IN IF rest = 0
     THEN Into([n EXCEPT !.TradesPartial = @ \ {best}], best, {"unbooked", "TradesCompleted"})
     ELSE Into(n, best, {"TradesPartial"})

-----------------------------------------------------------------------------

\* The next order of the queue.
Take(o) ==
  /\ cur = 0 /\ Len(orders) < MaxOrders
  /\ orders' = Append(orders, o)
  /\ filled' = Append(filled, 0)
  /\ LET i == Len(orders) + 1
     IN \/ /\ ~orderLotSizeOK(o)
           /\ out' = Into(out, i, {"failed", "TradesFailed"})
           /\ UNCHANGED <<book, cur, left>>
        \/ /\ o.kind = "cancel" /\ o.target \notin book
           /\ out' = Into(out, i, {"failed", "CancelsFailed", "nomatched"})
           /\ UNCHANGED <<book, cur, left>>
        \/ /\ o.kind = "cancel" /\ o.target \in book
           /\ book' = book \ {o.target}
           /\ out' = Into(Into(out, i, {"passed", "doneOK", "CancelsExecuted"}),
                          o.target, {"unbooked", "TradesCanceled"})
           /\ UNCHANGED <<cur, left>>
        \/ /\ o.kind # "cancel" /\ orderLotSizeOK(o)
           /\ cur' = i /\ left' = o.qty
           /\ UNCHANGED <<book, out>>
  /\ UNCHANGED <<matches, epoch, first, start>>

\* One round of the matching loop.
Match ==
  /\ cur # 0 /\ Matchable
  /\ LET o == orders[cur]
         best == Best(~o.sell)
         amt == matchAmount(o, best)
         paid == IF marketBuy(o) THEN BaseToQuote(orders[best].rate, amt) ELSE amt
     IN /\ book' = IF amt = Remaining(best) THEN book \ {best} ELSE book
        /\ left' = left - paid
        /\ filled' = [filled EXCEPT ![best] = @ + amt,
                                    ![cur] = IF FillsTaker(o) THEN @ + paid ELSE @]
        /\ matches' = Append(matches, [taker |-> cur, maker |-> best, amt |-> amt])
        /\ out' = tallyMaker(out, best, Remaining(best) - amt)
  /\ UNCHANGED <<orders, cur, epoch, first, start>>

MatchedBy(i) == {k \in DOMAIN matches : matches[k].taker = i}

Stands(i) == orders[i].kind = "limit" /\ orders[i].standing

\* The slices of a trade once it is matched: those that neither matched nor
\* stand have failed, the others are booked or completed.
SlicesOf(i) ==
  IF MatchedBy(i) = {} /\ ~Stands(i) THEN {"failed", "TradesFailed", "nomatched"}
  ELSE {"passed"}
         \cup (IF MatchedBy(i) = {} THEN {"nomatched"} ELSE {})
         \cup (IF orders[i].kind = "limit" /\ Remaining(i) > 0 /\ filled[i] > 0
               THEN {"partial"} ELSE {})
         \cup (IF Stands(i) /\ Remaining(i) > 0 THEN {"booked", "TradesBooked"}
               ELSE {"doneOK", "TradesCompleted"})

Done ==
  /\ cur # 0 /\ ~Matchable
  /\ out' = Into(out, cur, SlicesOf(cur))
  /\ book' = IF "booked" \in SlicesOf(cur) THEN book \cup {cur} ELSE book
  /\ cur' = 0 /\ left' = 0
  /\ UNCHANGED <<orders, filled, matches, epoch, first, start>>

\* The next match cycle.
NextEpoch ==
  /\ cur = 0 /\ epoch < MaxEpochs /\ first <= Len(orders)
  /\ epoch' = epoch + 1
  /\ first' = Len(orders) + 1
  /\ start' = book
  /\ out' = [s \in Slices |-> {}]
  /\ UNCHANGED <<orders, book, cur, left, filled, matches>>

Next ==
  \/ \E o \in Limits \cup Markets \cup Cancels : Take(o)
  \/ Match \/ Done \/ NextEpoch

Spec == Init /\ [][Next]_vars

-----------------------------------------------------------------------------
(* Properties *)

\* The book is never crossed once an order is done with: the best buy is below
\* the best sell, so that no match that was possible has been missed.
NotCrossed ==
  cur = 0 /\ Side(TRUE) # {} /\ Side(FALSE) # {}
    => orders[Best(FALSE)].rate < orders[Best(TRUE)].rate

\* Price and time priority: an order is matched only when no order of its side
\* that is on the book is better.
BestIsMatched ==
  [][\A k \in DOMAIN matches' \ DOMAIN matches :
       LET m == matches'[k].maker
       IN \A j \in Side(orders[m].sell) : j = m \/ Better(m, j)]_vars

\* "this maker and taker may only be matched once" (the ID of a match is made of
\* its orders, its quantity and its rate, so that a second match of the two
\* could not be told from the first).
MatchedOnce ==
  \A k, n \in DOMAIN matches :
    k # n => <<matches[k].taker, matches[k].maker>> # <<matches[n].taker, matches[n].maker>>

\* What the matches say that an order gave: in quote units for a market buy.
FillOf(i) ==
  LET amount(k) == IF matches[k].maker = i THEN matches[k].amt
                   ELSE IF matches[k].taker # i THEN 0
                   ELSE IF marketBuy(orders[i])
                        THEN BaseToQuote(orders[matches[k].maker].rate, matches[k].amt)
                        ELSE matches[k].amt
  IN MapThenSumSet(amount, DOMAIN matches)

Trades == {i \in DOMAIN orders : orders[i].kind # "cancel"}

\* Every trade is filled by what its matches say, as maker and as taker, in
\* whole lots and for no more than its quantity, and two orders match once.
\* Market sells are excused: their fill is not kept (see TakersAreFilled).
FillsAddUp ==
  /\ MatchedOnce
  /\ \A i \in Trades : /\ FillsTaker(orders[i]) => filled[i] = FillOf(i)
                       /\ FillOf(i) <= orders[i].qty
  /\ \A k \in DOMAIN matches : matches[k].amt > 0 /\ matches[k].amt % LotSize = 0

\* "all status updates also update the filled amount": the fill of an order
\* that Match returns is what it was matched for.  A market sell keeps the
\* fill it came with.
TakersAreFilled == \A i \in Trades : filled[i] = FillOf(i)

Queue == first .. Len(orders)
Disjoint(s, t) == out[s] \cap out[t] = {}

\* The slices sort the queue as their comments say: every order passed or
\* failed, those that passed are on the book or done, a failed trade is in no
\* other slice of updates, a canceled one has not completed.
SlicesAreDisjoint ==
    /\ out["passed"] \cup out["failed"] = Queue /\ Disjoint("passed", "failed")
    /\ out["booked"] \cup out["doneOK"] = out["passed"] /\ Disjoint("booked", "doneOK")
    /\ out["partial"] \subseteq out["passed"]
    /\ \A s \in {"TradesBooked", "TradesPartial", "TradesCanceled", "TradesCompleted"} :
         Disjoint("TradesFailed", s)
    /\ Disjoint("TradesCanceled", "TradesCompleted")

\* What the slices say is what happened to the book: booked orders came,
\* unbooked orders went, and the orders partially filled while on the book are
\* those in TradesPartial or gone.
SlicesTellTheBook ==
    /\ book = (start \cup out["booked"]) \ out["unbooked"]
    /\ out["unbooked"] \subseteq start \cup out["booked"]
    /\ \A i \in book : i \in out["TradesPartial"] <=>
         \E k \in DOMAIN matches : matches[k].maker = i /\ matches[k].taker >= first

\* nomatched are the orders that matched nothing in this epoch, as taker or,
\* once booked, as maker (orders of a bad lot size apart).
NomatchedDidNotMatch ==
    \A i \in Queue : i \in out["nomatched"] <=>
      /\ i \notin out["CancelsExecuted"]
      /\ orderLotSizeOK(orders[i])
      /\ \A k \in DOMAIN matches : i \notin {matches[k].taker, matches[k].maker}

\* Between two orders of the queue, what Match has put into its result slices
\* is what happened to the orders and to the book.  The market replays the
\* slices to storage, to the coin lockers and to the order feed without a look
\* at the book.
SlicesTellTheStory ==
  cur = 0 => SlicesAreDisjoint /\ SlicesTellTheBook /\ NomatchedDidNotMatch

=============================================================================
