----------------------------- MODULE EpochQueue -----------------------------
(***************************************************************************)
(* What the epoch pump promises its Market, without goroutines, channels   *)
(* or signals: closed epochs leave in the order they were accepted, each   *)
(* once its preimages are collected; after the halt nothing is accepted,   *)
(* and the queue is closed only when everything accepted has left.         *)
(***************************************************************************)
EXTENDS Sequences

CONSTANT Epochs   \* epochs that may be enqueued

VARIABLES waiting,    \* accepted epochs that have not left, oldest first
          gone,       \* epochs that have left
          prepared,   \* epochs whose preimage collection is complete
          halted,     \* no epoch is accepted any more
          over        \* the consumer's loop has ended

queueVars == <<waiting, gone, prepared, halted, over>>

QueueInit ==
    waiting = <<>> /\ gone = {} /\ prepared = {} /\ ~halted /\ ~over

Accept(e) ==
    /\ ~halted
    /\ waiting' = Append(waiting, e)
    /\ UNCHANGED <<gone, prepared, halted, over>>

Prepare(e) ==
    /\ prepared' = prepared \cup {e}
    /\ UNCHANGED <<waiting, gone, halted, over>>

Release ==
    /\ waiting # <<>> /\ Head(waiting) \in prepared
    /\ gone' = gone \cup {Head(waiting)}
    /\ waiting' = Tail(waiting)
    /\ UNCHANGED <<prepared, halted, over>>

Stop == ~halted /\ halted' = TRUE /\ UNCHANGED <<waiting, gone, prepared, over>>

Finish ==
    /\ halted /\ waiting = <<>> /\ ~over
    /\ over' = TRUE
    /\ UNCHANGED <<waiting, gone, prepared, halted>>

\* A market that is resumed starts with a fresh queue.
Reopen ==
    /\ over
    /\ halted' = FALSE /\ over' = FALSE
    /\ UNCHANGED <<waiting, gone, prepared>>

QueueNext ==
    \/ \E e \in Epochs : Accept(e) \/ Prepare(e)
    \/ Release \/ Stop \/ Finish \/ Reopen

QueueSpec == QueueInit /\ [][QueueNext]_queueVars

=============================================================================
