-------------------------------- MODULE Fifo --------------------------------
(***************************************************************************)
(* What a message_queue promises to the kernel: an unbounded first-in      *)
(* first-out queue, from which a pop takes the oldest message.             *)
(***************************************************************************)
EXTENDS Sequences

CONSTANTS
  Message,      \* what a service may be sent
  None          \* a pop that found nothing

VARIABLES
  queue,        \* the messages that wait
  popped        \* what the last pop returned

Push(m) == queue' = Append(queue, m) /\ UNCHANGED popped

Pop ==
  IF queue = <<>> THEN popped' = None /\ UNCHANGED queue
  ELSE popped' = Head(queue) /\ queue' = Tail(queue)

Init == queue = <<>> /\ popped = None
Next == (\E m \in Message : Push(m)) \/ Pop
Spec == Init /\ [][Next]_<<queue, popped>>
=============================================================================
