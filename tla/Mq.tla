--------------------------------- MODULE Mq ---------------------------------
(***************************************************************************)
(* One message_queue of skynet_mq.c: the ring buffer that Dispatch takes   *)
(* for a sequence, and the overload alarm.  Any thread pushes; the worker  *)
(* that holds the queue pops, and after a message reads (and clears) the   *)
(* overload.  Each action is one critical section of the queue's spinlock, *)
(* except skynet_mq_overload, which takes no lock.                         *)
(***************************************************************************)
EXTENDS Integers, Sequences

CONSTANTS
  Message,      \* what a service may be sent
  Junk,         \* what a slot holds that was never written
  None,         \* a pop that found nothing
  DEFAULT_QUEUE_SIZE,   \* 64 in the source
  MQ_OVERLOAD,  \* 1024 in the source
  MaxCap        \* bound on cap; the source stops when memory does

ASSUME CapAssumption == DEFAULT_QUEUE_SIZE \in Nat \ {0} /\ MaxCap \in Nat
ASSUME OverloadAssumption == MQ_OVERLOAD \in Nat \ {0}

VARIABLES
  cap, head, tail,
  buf,          \* q->queue, cap slots
  overload, overload_threshold,
  reading,      \* the holder has a message and has not yet read overload
  popped,       \* what the last pop returned
  reported      \* history: last overload reported since the queue was empty

vars == <<cap, head, tail, buf, overload, overload_threshold, reading, popped, reported>>

-----------------------------------------------------------------------------
(* ++ on head and tail. *)
Advance(i) == IF i + 1 >= cap THEN 0 ELSE i + 1

skynet_mq_length == IF head <= tail THEN tail - head ELSE tail + cap - head

(* Mutant: the messages are copied as they lie. *)
ExpandedInPlace(b) ==
  [i \in 0 .. 2 * cap - 1 |-> IF i < cap THEN b[i] ELSE Junk]

(* expand_queue copies the full ring in order to the start of a larger one.*)
Expanded(b) ==
  [i \in 0 .. 2 * cap - 1 |-> IF i < cap THEN b[(head + i) % cap] ELSE Junk]

expand_queue(b) ==
  /\ buf' = Expanded(b)
  /\ head' = 0
  /\ tail' = cap
  /\ cap' = 2 * cap

skynet_mq_push(m) ==
  LET b == [buf EXCEPT ![tail] = m]
      t == Advance(tail)
  IN  /\ IF head = t THEN 2 * cap <= MaxCap /\ expand_queue(b)
         ELSE buf' = b /\ tail' = t /\ UNCHANGED <<head, cap>>
      /\ UNCHANGED <<overload, overload_threshold, reading, popped, reported>>

(* The loop that doubles the threshold until length does not exceed it:    *)
(* after[k] is the threshold after k rounds.                               *)
Doubled(threshold, length) ==
  LET after[k \in 0 .. length] ==
        IF k = 0 THEN threshold
        ELSE LET t == after[k - 1] IN IF length > t THEN 2 * t ELSE t
  IN  after[length]

(* Mutant: the threshold stays, so every pop of a long queue reports.      *)
skynet_mq_pop_constant ==
  /\ ~reading
  /\ head # tail
  /\ popped' = buf[head]
  /\ head' = Advance(head)
  /\ LET length == IF tail - head' < 0 THEN tail - head' + cap ELSE tail - head'
     IN  overload' = IF length > overload_threshold THEN length ELSE overload
  /\ reading' = TRUE
  /\ UNCHANGED <<cap, tail, buf, overload_threshold, reported>>

skynet_mq_pop ==
  /\ ~reading
  /\ IF head # tail
     THEN LET h == Advance(head)
              length == IF tail - h < 0 THEN tail - h + cap ELSE tail - h
          IN  /\ popped' = buf[head]
              /\ head' = h
              /\ IF length > overload_threshold
                 THEN /\ overload' = length
                      /\ overload_threshold' = Doubled(overload_threshold, length)
                 ELSE UNCHANGED <<overload, overload_threshold>>
              /\ reading' = TRUE
              /\ UNCHANGED reported
     ELSE /\ popped' = None
          /\ overload_threshold' = MQ_OVERLOAD
          /\ reported' = 0
          /\ UNCHANGED <<head, overload, reading>>
  /\ UNCHANGED <<cap, tail, buf>>

(* skynet_context_message_dispatch logs "May overload" if it is not 0. *)
skynet_mq_overload ==
  /\ reading
  /\ reading' = FALSE
  /\ overload' = 0
  /\ reported' = IF overload # 0 THEN overload ELSE reported
  /\ UNCHANGED <<cap, head, tail, buf, overload_threshold, popped>>

-----------------------------------------------------------------------------
(* skynet_mq_create *)
Init ==
  /\ cap = DEFAULT_QUEUE_SIZE
  /\ head = 0
  /\ tail = 0
  /\ buf = [i \in 0 .. DEFAULT_QUEUE_SIZE - 1 |-> Junk]
  /\ overload = 0
  /\ overload_threshold = MQ_OVERLOAD
  /\ reading = FALSE
  /\ popped = None
  /\ reported = 0

Next == (\E m \in Message : skynet_mq_push(m)) \/ skynet_mq_pop \/ skynet_mq_overload

Spec == Init /\ [][Next]_vars

-----------------------------------------------------------------------------
(* Indices stay inside the buffer, whatever its capacity. *)
TypeOK ==
  /\ cap \in Nat \ {0}
  /\ head \in 0 .. cap - 1
  /\ tail \in 0 .. cap - 1
  /\ buf \in [0 .. cap - 1 -> Message \cup {Junk}]
  /\ overload \in Nat
  /\ overload_threshold \in Nat \ {0}
  /\ reading \in BOOLEAN
  /\ popped \in Message \cup {Junk, None}
  /\ reported \in Nat

(* The messages between head and tail, around the end of the buffer. *)
Ith(i) == IF head + i - 1 < cap THEN head + i - 1 ELSE head + i - 1 - cap
Contents == [i \in 1 .. skynet_mq_length |-> buf[Ith(i)]]

(* The ring buffer is a queue: nothing is lost, overwritten, duplicated or *)
(* reordered, also when it wraps around or is copied into a larger one.    *)
F == INSTANCE Fifo WITH queue <- Contents
ImplementsFifo == F!Spec

(* No report storm: between two reports the queue was empty, or it has     *)
(* grown beyond what the last one said.                                    *)
ReportsGrow ==
  [][reported' \notin {0, reported} => reported' > reported]_vars
=============================================================================
