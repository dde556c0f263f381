------------------------------ MODULE EpochPump ------------------------------
(***************************************************************************)
(* server/market/epump.go: the pump between a Market's epoch cycle and its *)
(* epoch processing.  Four kinds of goroutine meet here: the Market's main *)
(* loop (Insert), one preimage collector per epoch (closes rq.ready), the  *)
(* pump's own loop (next), and one that waits for the context (halt).  The *)
(* only link between queue and loop is newQ, on which every Insert and the *)
(* halt send one token from a goroutine of their own, so tokens arrive in  *)
(* any order and say nothing about which epoch they stand for.             *)
(***************************************************************************)
EXTENDS Integers, Sequences

CONSTANT Epochs   \* the epochs a Market may close; a number is an epoch index

ASSUME EpochsAssumption == Epochs \subseteq Nat

VARIABLES q,          \* epochPump.q
          halt,       \* epochPump.halt
          haltSent,   \* the halt goroutine has sent its token
          tokens,     \* tokens sent on newQ, waiting or buffered
          head,       \* the epoch next has popped and is waiting for, or <<>>
          ready,      \* the buffer (one place) of the ready channel
          closed,     \* the ready channel is closed: pump.Run has returned
          collected,  \* epochs whose readyEpoch.ready is closed
          taken,      \* epochs the consumer has received
          drained     \* the consumer has seen the closed channel

pumpVars == <<q, halt, haltSent, tokens, head, ready, closed, collected, taken,
              drained>>

PumpInit ==
    /\ q = <<>> /\ head = <<>> /\ ready = <<>>
    /\ halt = FALSE /\ haltSent = FALSE /\ closed = FALSE /\ drained = FALSE
    /\ tokens = 0
    /\ collected = {} /\ taken = {}

-----------------------------------------------------------------------------
\* Mutant of Insert: the epoch is queued, but next is not woken for it.
InsertSilent(e) ==
    /\ ~halt
    /\ q' = Append(q, e)
    /\ UNCHANGED <<tokens, halt, haltSent, head, ready, closed, collected, taken, drained>>

\* Insert returns nil, and nothing changes, when halt is set: see the caller.
Insert(e) ==
    /\ ~halt
    /\ q' = Append(q, e)
    /\ tokens' = tokens + 1
    /\ UNCHANGED <<halt, haltSent, head, ready, closed, collected, taken, drained>>

\* The collector of an enqueued epoch is done: every order of the epoch has a
\* preimage or is a miss (RequestWithTimeout answers or expires).
Collect(e) ==
    /\ e \notin collected
    /\ collected' = collected \cup {e}
    /\ UNCHANGED <<q, halt, haltSent, tokens, head, ready, closed, taken, drained>>

\* The goroutine on ctx.Done: the flag under the lock, the token after it.
Halt ==
    /\ ~halt
    /\ halt' = TRUE
    /\ UNCHANGED <<q, haltSent, tokens, head, ready, closed, collected, taken, drained>>

\* Mutant of HaltToken: the halt wakes nobody.
HaltTokenLost ==
    /\ halt /\ ~haltSent
    /\ haltSent' = TRUE
    /\ UNCHANGED <<q, halt, tokens, head, ready, closed, collected, taken, drained>>

HaltToken ==
    /\ halt /\ ~haltSent
    /\ haltSent' = TRUE
    /\ tokens' = tokens + 1
    /\ UNCHANGED <<q, halt, head, ready, closed, collected, taken, drained>>

\* next, up to the return of its channel: one token, then popFront.  An empty
\* queue means "pump halted": Run returns and closes ready.
next ==
    /\ ~closed /\ head = <<>> /\ tokens > 0
    /\ tokens' = tokens - 1
    /\ IF q = <<>>
       THEN closed' = TRUE /\ UNCHANGED <<q, head>>
       ELSE /\ head' = <<Head(q)>> /\ q' = Tail(q)
            /\ UNCHANGED closed
    /\ UNCHANGED <<halt, haltSent, ready, collected, taken, drained>>

\* Mutant of Deliver: the pump does not wait for the preimages.
DeliverUnready ==
    /\ head # <<>> /\ ready = <<>>
    /\ ready' = head
    /\ head' = <<>>
    /\ UNCHANGED <<q, halt, haltSent, tokens, closed, collected, taken, drained>>

\* The head's goroutine passes it on when it is ready, Run puts it in ready.
Deliver ==
    /\ head # <<>> /\ head[1] \in collected /\ ready = <<>>
    /\ ready' = head
    /\ head' = <<>>
    /\ UNCHANGED <<q, halt, haltSent, tokens, closed, collected, taken, drained>>

\* The consumer (the processing loop of Market.Run) receives an epoch ...
Receive ==
    /\ ready # <<>>
    /\ taken' = taken \cup {ready[1]}
    /\ ready' = <<>>
    /\ UNCHANGED <<q, halt, haltSent, tokens, head, closed, collected, drained>>

\* ... or finds the channel closed and empty.
Drained ==
    /\ closed /\ ready = <<>> /\ ~drained
    /\ drained' = TRUE
    /\ UNCHANGED <<q, halt, haltSent, tokens, head, ready, closed, collected, taken>>

\* The next Run of the Market makes a new pump (newEpochPump).
newEpochPump ==
    /\ drained
    /\ halt' = FALSE /\ haltSent' = FALSE /\ closed' = FALSE /\ drained' = FALSE
    /\ q' = <<>> /\ head' = <<>> /\ ready' = <<>> /\ tokens' = 0
    /\ UNCHANGED <<collected, taken>>

-----------------------------------------------------------------------------
(* The pump on its own: epochs are closed in any number and order, and the *)
(* context may be cancelled at any time.                                   *)

InFlight == ready \o head \o q   \* oldest first

Enqueued == {InFlight[i] : i \in 1..Len(InFlight)} \cup taken

PumpNext ==
    \/ \E e \in Epochs : Insert(e)
    \/ \E e \in Enqueued : Collect(e)
    \/ Halt \/ HaltToken \/ next \/ Deliver \/ Receive \/ Drained
    \/ newEpochPump

PumpSpec == PumpInit /\ [][PumpNext]_pumpVars

-----------------------------------------------------------------------------
Queue == INSTANCE EpochQueue WITH
    waiting <- InFlight, gone <- taken, prepared <- collected,
    halted <- halt, over <- drained

\* The pump with its goroutines, channels and signals implements EpochQueue:
\* epochs come out in the order they went in and only when their preimages are
\* collected (next, popFront), a halted pump accepts none (Insert), and it
\* closes its channel only when every accepted epoch has come out (Run).
ImplementsQueue == Queue!QueueSpec

=============================================================================
