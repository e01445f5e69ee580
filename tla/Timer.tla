------------------------------- MODULE Timer -------------------------------
(***************************************************************************)
(* The timer wheel of skynet_timer.c.  The next ticks have a list each     *)
(* (near); later ones share the lists of four coarser levels, and          *)
(* timer_shift moves a list one level down when its first tick is reached. *)
(* T->time is an unsigned integer that wraps around.                       *)
(*                                                                         *)
(* Services add timers from the worker threads.  A step is one critical    *)
(* section of the wheel's spinlock, or one iteration of dispatch_list,     *)
(* which runs without it.                                                  *)
(***************************************************************************)
EXTENDS Integers, Sequences, SequencesExt

CONSTANTS
  Event,        \* (handle, session) of a timer; one is used for one timer at a time
  NearShift,    \* TIME_NEAR_SHIFT, 8 in the source
  LevelShift,   \* TIME_LEVEL_SHIFT, 6 in the source
  MaxDiff       \* bound: centiseconds that pass between two skynet_updatetime

ASSUME ShiftAssumption == NearShift \in Nat \ {0} /\ LevelShift \in Nat \ {0}
ASSUME DiffAssumption == MaxDiff \in Nat \ {0}

(* The width of T->time (uint32_t), and the timeouts an int can hold. *)
Width == NearShift + 4 * LevelShift
Timeout == 1 .. 2 ^ (Width - 1) - 1

VARIABLES
  time,         \* T->time
  list,         \* the lists of timer nodes: near is level -1, t[i] is level i
  current,      \* the nodes dispatch_list has still to send
  todo,         \* timer_update calls left in skynet_updatetime
  pc,           \* the timer thread: before timer_shift or after it
  order         \* history: events of the pending timers, oldest first

vars == <<time, list, current, todo, pc, order>>

Node == [event : Event, expire : 0 .. 2 ^ Width - 1]
Slot == ({-1} \X (0 .. 2 ^ NearShift - 1)) \cup ((0 .. 3) \X (0 .. 2 ^ LevelShift - 1))

-----------------------------------------------------------------------------
(* add_node: the finest level on which expire and now share their block.   *)
Block(x, level) == x \div 2 ^ (NearShift + (level + 1) * LevelShift)
Index(x, level) == (x \div 2 ^ (NearShift + level * LevelShift)) % 2 ^ LevelShift

NodeSlot(expire, now) ==
  IF expire \div 2 ^ NearShift = now \div 2 ^ NearShift
  THEN <<-1, expire % 2 ^ NearShift>>
  ELSE LET same == {i \in 0 .. 2 : Block(expire, i) = Block(now, i)}
           i == IF same = {} THEN 3 ELSE CHOOSE k \in same : \A j \in same : k <= j
       IN  <<i, Index(expire, i)>>

(* Mutant: link puts the node at the head of the list. *)
add_node_at_head(lists, now, node) ==
  [lists EXCEPT ![NodeSlot(node.expire, now)] = <<node>> \o @]

add_node(lists, now, node) ==
  [lists EXCEPT ![NodeSlot(node.expire, now)] = Append(@, node)]

(* move_list takes a list apart and adds its nodes again, in their order.  *)
move_list(lists, now, slot) ==
  FoldLeft(LAMBDA ls, node : add_node(ls, now, node), [lists EXCEPT ![slot] = <<>>],
           lists[slot])

(* Mutant: the wrap around of T->time is not treated. *)
ShiftedWithoutWrap(now) ==
  {<<i, Index(now, i)>> : i \in {j \in 0 .. 3 : /\ now % 2 ^ (NearShift + j * LevelShift) = 0
                                               /\ Index(now, j) # 0}}

(* The list, if any, that timer_shift moves when T->time becomes now: the  *)
(* first level whose index is not 0, reached while all finer bits are 0.   *)
Shifted(now) ==
  IF now = 0 THEN {<<3, 0>>}
  ELSE {<<i, Index(now, i)>> : i \in {j \in 0 .. 3 :
                                 /\ now % 2 ^ (NearShift + j * LevelShift) = 0
                                 /\ Index(now, j) # 0}}

timer_shift(lists, now) ==
  IF Shifted(now) = {} THEN lists
  ELSE move_list(lists, now, CHOOSE s \in Shifted(now) : TRUE)

NearNow(now) == <<-1, now % 2 ^ NearShift>>

-----------------------------------------------------------------------------
(* skynet_timeout with a positive time; timer_add holds the lock.  A time  *)
(* of 0 or less is sent at once and never enters the wheel.                *)
skynet_timeout(e, n) ==
  /\ \A i \in 1 .. Len(order) : order[i] # e
  /\ list' = add_node(list, time, [event |-> e, expire |-> (n + time) % 2 ^ Width])
  /\ order' = Append(order, e)
  /\ UNCHANGED <<time, current, todo, pc>>

(* The monotonic clock has moved on. *)
skynet_updatetime(diff) ==
  /\ todo = 0
  /\ todo' = diff
  /\ UNCHANGED <<time, list, current, pc, order>>

(* timer_execute found nodes: it unlinks them and unlocks to send them.    *)
Take(lists, now, where) ==
  /\ current' = lists[NearNow(now)]
  /\ list' = [lists EXCEPT ![NearNow(now)] = <<>>]
  /\ time' = now
  /\ pc' = where

(* The first critical section of timer_update: what is left of this tick,  *)
(* otherwise the shift and the first look at the new tick's list.          *)
timer_update ==
  LET now == (time + 1) % 2 ^ Width
      shifted == timer_shift(list, now)
  IN  /\ todo > 0 /\ pc = "before" /\ current = <<>>
      /\ IF list[NearNow(time)] # <<>>
         THEN Take(list, time, "before") /\ UNCHANGED todo
         ELSE IF shifted[NearNow(now)] # <<>>
         THEN Take(shifted, now, "after") /\ UNCHANGED todo
         ELSE /\ time' = now
              /\ list' = shifted
              /\ todo' = todo - 1
              /\ UNCHANGED <<current, pc>>
      /\ UNCHANGED order

(* timer_execute after the shift, locked again: nodes that were added      *)
(* meanwhile, or the end of this timer_update.                             *)
timer_execute ==
  /\ pc = "after" /\ current = <<>>
  /\ IF list[NearNow(time)] # <<>>
     THEN Take(list, time, "after") /\ UNCHANGED todo
     ELSE pc' = "before" /\ todo' = todo - 1 /\ UNCHANGED <<time, list, current>>
  /\ UNCHANGED order

(* dispatch_list pushes one response to the service. *)
dispatch_list ==
  /\ current # <<>>
  /\ current' = Tail(current)
  /\ order' = SelectSeq(order, LAMBDA e : e # Head(current).event)
  /\ UNCHANGED <<time, list, todo, pc>>

-----------------------------------------------------------------------------
Init ==
  /\ time = 0
  /\ list = [s \in Slot |-> <<>>]
  /\ current = <<>>
  /\ todo = 0
  /\ pc = "before"
  /\ order = <<>>

TimerThread ==
  \/ \E diff \in 1 .. MaxDiff : skynet_updatetime(diff)
  \/ timer_update
  \/ timer_execute
  \/ dispatch_list

Next == TimerThread \/ \E e \in Event, n \in Timeout : skynet_timeout(e, n)

Spec == Init /\ [][Next]_vars

(* thread_timer loops forever, and the clock advances. *)
FairSpec == Spec /\ WF_vars(TimerThread)

-----------------------------------------------------------------------------
Nodes == {list[s][i] : <<s, i>> \in {si \in Slot \X (1 .. Len(order)) :
                                       si[2] <= Len(list[si[1]])}}
          \cup {current[i] : i \in 1 .. Len(current)}

(* Time stays within its width and lists hold timer nodes. *)
TypeOK ==
  /\ time \in 0 .. 2 ^ Width - 1
  /\ \A s \in Slot : list[s] \in Seq(Node)
  /\ current \in Seq(Node)
  /\ todo \in 0 .. MaxDiff
  /\ pc \in {"before", "after"}
  /\ order \in Seq(Event)

(* The wheel is an alarm clock: seen through the time each node has still  *)
(* to wait, modulo the width of T->time, a tick shortens every wait by one *)
(* and is taken only when nothing is due.  So no timer is early or late,   *)
(* and none is lost on its way down the levels or when T->time wraps.      *)
A == INSTANCE Alarm WITH
       pending <- {[event |-> n.event, wait |-> (n.expire - time) % 2 ^ Width] : n \in Nodes}
ImplementsAlarm == A!Spec

(* Timers of the same tick go off in the order in which they were added,   *)
(* whichever levels they came from: a service that sets two timers for the *)
(* same moment sees the first one first.                                   *)
FiresInOrder ==
  [][\A i \in 1 .. Len(order) :
       (/\ Len(order') < Len(order)
        /\ \E n \in Nodes : n.event = order[i] /\ n.expire = Head(current).expire)
       => \E j \in 1 .. i : order[j] = Head(current).event]_vars

(* Every timer goes off, if the timer thread keeps running. *)
EveryTimerFires ==
  \A e \in Event :
    (\E i \in 1 .. Len(order) : order[i] = e) ~> (\A i \in 1 .. Len(order) : order[i] # e)
=============================================================================
