------------------------------- MODULE Alarm -------------------------------
(***************************************************************************)
(* What skynet_timeout promises, without the timer wheel: an alarm waits   *)
(* for a number of ticks and goes off in exactly the tick in which its     *)
(* wait is over; time does not go on while an alarm is due.                *)
(***************************************************************************)
EXTENDS Naturals

CONSTANTS
  Event,        \* (handle, session) pairs an alarm may be set for
  Timeout       \* numbers of ticks to wait for

VARIABLE pending    \* the alarms that are set: [event, wait]

Set(e, n) ==
  /\ \A a \in pending : a.event # e
  /\ pending' = pending \cup {[event |-> e, wait |-> n]}

Tick ==
  /\ \A a \in pending : a.wait > 0
  /\ pending' = {[a EXCEPT !.wait = @ - 1] : a \in pending}

GoOff ==
  \E a \in pending : a.wait = 0 /\ pending' = pending \ {a}

Init == pending = {}
Next == (\E e \in Event, n \in Timeout : Set(e, n)) \/ Tick \/ GoOff
Spec == Init /\ [][Next]_pending
=============================================================================
