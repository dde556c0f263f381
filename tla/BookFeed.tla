------------------------------ MODULE BookFeed ------------------------------
(***************************************************************************)
(* From the match cycle to the trader's screen: how the result of an epoch *)
(* reaches storage, the book router and the order book of one client.      *)
(*                                                                         *)
(* Three writers touch the same orders.  processReadyEpoch matches under   *)
(* bookMtx, then stores the outcome order by order, then queues the notes  *)
(* for the subscribers (server/market/market.go).  Unbook, SwapDone of a   *)
(* failed swap and UnbookUserOrders take an order off the book at any      *)
(* moment, revoke it in storage and send their note past the queue.  The   *)
(* router (server/market/bookrouter.go) keeps a copy of the book, numbers  *)
(* the changes and answers subscriptions from another goroutine.  The      *)
(* client (client/core/bookie.go, client/orderbook) seeds its book with    *)
(* the snapshot and applies the notes.                                     *)
(*                                                                         *)
(* An order is what is left of it: Lots when submitted, less after a       *)
(* partial fill.  Rates and sides are left out: no guard here reads them.  *)
(* So are the notes that change no book: epoch orders, match proofs and    *)
(* epoch reports.                                                          *)
(***************************************************************************)
EXTENDS Integers, FiniteSets, Sequences, SequencesExt

CONSTANTS Orders,      \* standing limit orders of the market
          Lots,        \* size of every order
          MaxEpochs,   \* bound: epochs matched
          MaxMishaps   \* bound: orders taken off the book outside matching
                       \* and connections the client loses, together

ASSUME FeedAssumption == /\ Lots \in Nat \ {0}
                         /\ MaxEpochs \in Nat
                         /\ MaxMishaps \in Nat

VARIABLES
  db,        \* status of each order in the order tables
  book,      \* orders on the market's book
  rem,       \* lots left of each order, as the shared LimitOrder says
  queue,     \* orders of the epochs not matched yet
  epochs,    \* epochs matched so far
  proc,      \* processReadyEpoch: stage, storage updates left, outcome
  off,       \* orders taken off the book by Unbook, revoke and note pending
  notes,     \* notifyChan: signals for the order feeds
  lost,      \* orders whose epoch was abandoned half stored
  rbook,     \* the router's copy: lots of each order, or Absent
  seq,       \* the router's sequence counter
  hand,      \* the router's note between the book change and the send
  subscribed,\* the client's link is among the subscribers
  snap,      \* the 'orderbook' reply under way on the server
  resp,      \* the reply on its way to the client
  wire,      \* notes on their way to the client
  phase,     \* the client: "off", "asking", "synced", "resub"
  cmap,      \* the client's orders map
  cbin,      \* the client's rate bins: the copies of each order
  cseq,      \* the client's last sequence number
  losses     \* connections lost so far

serverVars == <<db, book, rem, queue, epochs, proc, off, notes, lost>>
routerVars == <<rbook, seq, hand, subscribed, snap, resp, wire>>
clientVars == <<phase, cmap, cbin, cseq, losses>>
vars == <<serverVars, routerVars, clientVars>>

Active == {"epoch", "booked"}
Archived == {"executed", "canceled", "revoked"}

Absent == -1
Idle == [stage |-> "idle", todo |-> <<>>, booked |-> {}, partial |-> {}, unbooked |-> {}]
NoNote == [kind |-> "none"]
NoReply == [stage |-> "none"]

Signal(kind, S) == SetToSeq({[kind |-> kind, o |-> o] : o \in S})

Init == /\ db = [o \in Orders |-> "none"]
        /\ book = {} /\ rem = [o \in Orders |-> Lots]
        /\ queue = {} /\ epochs = 0 /\ proc = Idle
        /\ off = {} /\ notes = <<>> /\ lost = {}
        /\ rbook = [o \in Orders |-> Absent] /\ seq = 0 /\ hand = NoNote
        /\ subscribed = FALSE /\ snap = NoReply /\ resp = <<>> /\ wire = <<>>
        /\ phase = "off" /\ cmap = {} /\ cbin = [o \in Orders |-> <<>>]
        /\ cseq = 0 /\ losses = 0

-----------------------------------------------------------------------------
(* The market *)

\* processOrder stores the order with epoch status.
processOrder(o) ==
  /\ db[o] = "none"
  /\ db' = [db EXCEPT ![o] = "epoch"]
  /\ queue' = queue \cup {o}
  /\ UNCHANGED <<book, rem, epochs, proc, off, notes, lost, routerVars, clientVars>>

\* The match cycle, under bookMtx.  Of the queued orders some go on the book
\* and the others are done.  Of the orders on the book, the new ones included,
\* some are partly filled, some filled, some canceled; one may be partly filled
\* and then canceled.
Match(booked, partial, filled, canceled) ==
  LET done == queue \ booked
      makers == book \cup booked
  IN /\ proc.stage = "idle" /\ epochs < MaxEpochs
     /\ booked \subseteq queue
     /\ partial \subseteq {o \in makers : rem[o] > 1}
     /\ filled \subseteq makers \ partial
     /\ canceled \subseteq makers \ filled
     /\ epochs' = epochs + 1
     /\ queue' = {}
     /\ book' = makers \ (filled \cup canceled)
     /\ rem' = [o \in Orders |-> CASE o \in partial -> rem[o] - 1
                                   [] o \in filled -> 0
                                   [] OTHER -> rem[o]]
     /\ proc' = [stage |-> "store",
                 todo |-> Signal("booked", booked) \o Signal("executed", filled \cup done)
                            \o Signal("canceled", canceled),
                 booked |-> booked, partial |-> partial, unbooked |-> filled \cup canceled]
     /\ UNCHANGED <<db, off, notes, lost, routerVars, clientVars>>

\* Mutant of updateFails: archived orders are updated like active ones.
updateNeverFails(o, status) == FALSE

\* updateOrderStatusByID: an archived order does not become active again.
updateFails(o, status) == db[o] \in Archived /\ status \in Active

\* One storage update of processReadyEpoch.  A failed one ends the epoch's
\* processing at once: nothing is announced and no swap is negotiated.
StoreUpdate ==
  /\ proc.stage = "store" /\ proc.todo # <<>>
  /\ LET u == Head(proc.todo)
     IN IF updateFails(u.o, u.kind)
        THEN /\ proc' = Idle
             /\ lost' = lost \cup proc.booked \cup proc.partial \cup proc.unbooked
             /\ UNCHANGED db
        ELSE /\ db' = [db EXCEPT ![u.o] = u.kind]
             /\ proc' = [proc EXCEPT !.todo = Tail(@)]
             /\ UNCHANGED lost
  /\ UNCHANGED <<book, rem, queue, epochs, off, notes, routerVars, clientVars>>

\* Mutant of epochNotes: orders are unbooked before they are updated.
epochNotesSwapped(p) == Signal("book", p.booked) \o Signal("unbook", p.unbooked)
                          \o Signal("update", p.partial)

\* The notes of an epoch, in the order the subscribers rely on.
epochNotes(p) == Signal("book", p.booked) \o Signal("update", p.partial)
                   \o Signal("unbook", p.unbooked)

\* Everything stored: queue the notes, then negotiate the matches.
Publish ==
  /\ proc.stage = "store" /\ proc.todo = <<>>
  /\ notes' = notes \o epochNotes(proc)
  /\ proc' = Idle
  /\ UNCHANGED <<db, book, rem, queue, epochs, off, lost, routerVars, clientVars>>

\* What the bound counts.
mishaps == losses + Cardinality({o \in Orders : db[o] = "revoked"} \cup {r[1] : r \in off})

\* Unbook, SwapDone of a failed swap, UnbookUserOrders: off the book first.
Unbook(o) ==
  /\ o \in book
  /\ mishaps < MaxMishaps
  /\ book' = book \ {o}
  /\ off' = off \cup {<<o, "revoke">>}
  /\ UNCHANGED <<db, rem, queue, epochs, proc, notes, lost, routerVars, clientVars>>

\* unbookedOrder: the order is revoked in storage; its note is next.
RevokeOrder(o) ==
  /\ <<o, "revoke">> \in off
  /\ db' = [db EXCEPT ![o] = "revoked"]
  /\ off' = (off \ {<<o, "revoke">>}) \cup {<<o, "feed">>}
  /\ UNCHANGED <<book, rem, queue, epochs, proc, notes, lost, routerVars, clientVars>>

-----------------------------------------------------------------------------
(* The book router *)

\* runBook: the router's book changes first.  Quantities are read from the
\* shared order now, not when the signal was queued.
routed(n) == CASE n.kind \in {"book", "update"} -> [rbook EXCEPT ![n.o] = rem[n.o]]
               [] n.kind = "unbook" -> [rbook EXCEPT ![n.o] = Absent]

RouterTakes(n) ==
  /\ hand = NoNote
  /\ rbook' = routed(n)
  /\ hand' = [kind |-> n.kind, o |-> n.o, qty |-> rem[n.o]]
  /\ UNCHANGED <<seq, subscribed, snap, resp, wire, clientVars>>

\* A signal of notifyChan.
RouteQueued ==
  /\ notes # <<>>
  /\ RouterTakes(Head(notes))
  /\ notes' = Tail(notes)
  /\ UNCHANGED <<db, book, rem, queue, epochs, proc, off, lost>>

\* The signal unbookedOrder sends to the feeds directly.
RouteUnbook(o) ==
  /\ <<o, "feed">> \in off
  /\ RouterTakes([kind |-> "unbook", o |-> o])
  /\ off' = off \ {<<o, "feed">>}
  /\ UNCHANGED <<db, book, rem, queue, epochs, proc, notes, lost>>

\* nextSeq and sendNote.
SendNote ==
  /\ hand # NoNote
  /\ seq' = seq + 1
  /\ wire' = IF subscribed
             THEN Append(wire, [kind |-> hand.kind, o |-> hand.o, qty |-> hand.qty,
                                seq |-> seq + 1])
             ELSE wire
  /\ hand' = NoNote
  /\ UNCHANGED <<rbook, subscribed, snap, resp, serverVars, clientVars>>

\* handleOrderBook: the link is subscribed before the book is copied.
handleOrderBook ==
  /\ phase = "asking" \/ phase = "resub"
  /\ ~subscribed /\ snap = NoReply /\ resp = <<>>
  /\ subscribed' = TRUE
  /\ snap' = [stage |-> "copy"]
  /\ UNCHANGED <<rbook, seq, hand, resp, wire, serverVars, clientVars>>

\* msgOrderBook: the orders are copied under the book's lock ...
CopyOrders ==
  /\ snap.stage = "copy"
  /\ snap' = [stage |-> "reply", orders |-> rbook]
  /\ UNCHANGED <<rbook, seq, hand, subscribed, resp, wire, serverVars, clientVars>>

\* ... and the sequence number is read after the lock is released.
SendBook ==
  /\ snap.stage = "reply"
  /\ resp' = <<[orders |-> snap.orders, seq |-> seq]>>
  /\ snap' = NoReply
  /\ UNCHANGED <<rbook, seq, hand, subscribed, wire, serverVars, clientVars>>

-----------------------------------------------------------------------------
(* The client *)

\* syncBook: booksMtx is held from here until the book is synced, so that the
\* note handlers wait for it.
syncBook ==
  /\ phase = "off"
  /\ phase' = "asking"
  /\ UNCHANGED <<serverVars, routerVars, cmap, cbin, cseq, losses>>

\* OrderBook.Reset, from Sync on the first subscription and from resubMkt
\* after a reconnect.
Reset ==
  /\ resp # <<>>
  /\ LET s == resp[1]
     IN /\ cseq' = s.seq
        /\ cmap' = {o \in Orders : s.orders[o] # Absent}
        /\ cbin' = [o \in Orders |-> IF s.orders[o] = Absent THEN <<>>
                                     ELSE <<s.orders[o]>>]
  /\ phase' = "synced"
  /\ resp' = <<>>
  /\ UNCHANGED <<rbook, seq, hand, subscribed, snap, wire, serverVars, losses>>

\* OrderBook.book, updateRemaining and unbook: setSeq, the orders map, the
\* bin.  A copy of an order is added without looking for another; the first
\* copy is the one updated or removed.
applied(n) ==
  CASE n.kind = "book" -> <<cmap \cup {n.o}, [cbin EXCEPT ![n.o] = Append(@, n.qty)]>>
    [] n.kind = "update" /\ n.o \in cmap /\ cbin[n.o] # <<>>
         -> <<cmap, [cbin EXCEPT ![n.o][1] = n.qty]>>
    [] n.kind = "unbook" /\ n.o \in cmap /\ cbin[n.o] # <<>>
         -> <<cmap \ {n.o}, [cbin EXCEPT ![n.o] = Tail(@)]>>
    [] OTHER -> <<cmap, cbin>>

setSeq(n) == IF n > cseq THEN n ELSE cseq

\* Mutant of HandleNote: notes do not wait for the snapshot.
HandleNoteUnlocked ==
  /\ phase # "off" /\ wire # <<>>
  /\ LET n == Head(wire)
     IN /\ cmap' = applied(n)[1] /\ cbin' = applied(n)[2]
        /\ cseq' = setSeq(n.seq)
  /\ wire' = Tail(wire)
  /\ UNCHANGED <<rbook, seq, hand, subscribed, snap, resp, serverVars, phase, losses>>

\* A note reaches its handler: the bookie exists and booksMtx is free.
HandleNote ==
  /\ phase \in {"synced", "resub"} /\ wire # <<>>
  /\ LET n == Head(wire)
     IN /\ cmap' = applied(n)[1] /\ cbin' = applied(n)[2]
        /\ cseq' = setSeq(n.seq)
  /\ wire' = Tail(wire)
  /\ UNCHANGED <<rbook, seq, hand, subscribed, snap, resp, serverVars, phase, losses>>

\* The connection drops; handleReconnect subscribes again.
Reconnect ==
  /\ phase = "synced" /\ mishaps < MaxMishaps
  /\ losses' = losses + 1
  /\ phase' = "resub"
  /\ subscribed' = FALSE /\ wire' = <<>>
  /\ UNCHANGED <<rbook, seq, hand, snap, resp, serverVars, cmap, cbin, cseq>>

-----------------------------------------------------------------------------
MatchCycle == \E b \in SUBSET queue, p, f, c \in SUBSET (book \cup queue) : Match(b, p, f, c)

Next == \/ \E o \in Orders : \/ processOrder(o) \/ Unbook(o) \/ RevokeOrder(o)
                             \/ RouteUnbook(o)
        \/ MatchCycle \/ StoreUpdate \/ Publish
        \/ RouteQueued \/ SendNote \/ handleOrderBook \/ CopyOrders \/ SendBook
        \/ syncBook \/ Reset \/ HandleNote \/ Reconnect

Spec == Init /\ [][Next]_vars

-----------------------------------------------------------------------------
(* Properties *)

\* No epoch is being processed and no order is being taken off the book.
MarketAtRest == proc = Idle /\ off = {}

\* Storage and book agree whenever the market is at rest: exactly the orders
\* on the book have booked status, however the updates of processReadyEpoch
\* and the revocations of Unbook interleave.  Orders of an epoch abandoned
\* half stored are excepted.
StorageMatchesBook ==
  MarketAtRest => \A o \in Orders \ lost : db[o] = "booked" <=> o \in book

\* Nothing is queued for the router or in its hands.
RouterAtRest == MarketAtRest /\ notes = <<>> /\ hand = NoNote

\* Once the signals are through, the router's copy holds every order of the
\* market's book with the lots it has left, and nothing that matching took
\* off the book.  Only a revoked order may remain in the copy: its direct
\* unbook signal may overtake the epoch's signals.
RouterCopiesBook ==
  RouterAtRest => \A o \in Orders \ lost :
                    /\ o \in book => rbook[o] = rem[o]
                    /\ rbook[o] # Absent => o \in book \/ db[o] = "revoked"

\* The client has subscribed once, and everything sent to it was handled.
ClientAtRest == RouterAtRest /\ phase = "synced" /\ losses = 0 /\ wire = <<>>

\* A client that subscribes at any moment, between the router's book change
\* and its note included, ends up with the router's orders, quantities and
\* sequence number: no note is lost between the copy of the book and the
\* first note handled.  Only a revoked order, or one of an abandoned epoch,
\* may be missing: the router inserts an order it is told to update, the
\* client does not.
ClientFollowsRouter ==
  ClientAtRest => /\ cseq = seq
                  /\ \A o \in cmap : cbin[o] # <<>> /\ cbin[o][1] = rbook[o]
                  /\ \A o \in Orders \ lost :
                       rbook[o] # Absent => o \in cmap \/ db[o] = "revoked"

\* An epoch whose storage works is processed to the end: processReadyEpoch
\* announces the outcome and negotiates the matches.
EpochIsFinished == lost = {}

\* The client's bins hold one copy of each of its orders and nothing else.
OneCopyPerOrder ==
  ClientAtRest => \A o \in Orders : Len(cbin[o]) = IF o \in cmap THEN 1 ELSE 0

=============================================================================
