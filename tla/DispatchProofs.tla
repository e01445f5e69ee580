--------------------------- MODULE DispatchProofs ---------------------------
(***************************************************************************)
(* The actor kernel, for every number of worker and outside threads, every *)
(* set of handles and every boot sequence: a service is executed by one    *)
(* thread at a time, its queue is in one place, memory outlives its use    *)
(* (except by a launcher whose service is retired before it returns), and  *)
(* a message has at most one fate.                                         *)
(*                                                                         *)
(* None of the four is inductive.  Together with the parts below they      *)
(* follow from one inductive invariant, KernelInv: what the program        *)
(* counter of a thread says about what it holds, where a queue is, what a  *)
(* reference count counts, and where the messages of an id are.            *)
(***************************************************************************)
EXTENDS Dispatch, FiniteSetTheorems, SequenceTheorems, TLAPS

Elems(s) == {s[i] : i \in 1 .. Len(s)}
Distinct(s) == \A i, j \in 1 .. Len(s) : s[i] = s[j] => i = j

(* TypeOK without left, the number of messages a turn may still dispatch:  *)
(* no safety property depends on it.                                       *)
Types ==
  /\ registered \subseteq Handle
  /\ ref \in [Handle -> Nat]
  /\ ctx \in [Handle -> {"none", "alive", "freed"}]
  /\ inited \in [Handle -> BOOLEAN]
  /\ mem \in [Handle -> {"none", "alive", "freed"}]
  /\ queue \in [Handle -> Seq(Message)]
  /\ in_global \in [Handle -> BOOLEAN]
  /\ release \in [Handle -> BOOLEAN]
  /\ gq \in Seq(Handle)
  /\ pc \in [Worker -> WorkerPC]
  /\ q \in [Worker -> Handle \cup {Nil}]
  /\ cur \in [Worker -> Handle \cup {Nil}]
  /\ lpc \in [Thread -> LaunchPC]
  /\ lh \in [Thread -> Handle \cup {Nil}]
  /\ inst \in [Thread -> Handle \cup {Nil}]
  /\ sub \in [Thread -> Call]
  /\ nsent \in 0 .. MaxSend
  /\ delivered \subseteq 1 .. MaxSend
  /\ dropped \subseteq 1 .. MaxSend

(* What the program counters of a thread say about the queue x and the     *)
(* context c in its hands.  Only a callback launches services.             *)
InHand(p, x, c) ==
  /\ p \in {"fetch", "sleep"} => x = Nil
  /\ p \in {"grab", "mqrelease", "drop", "pushback"} => x # Nil
  /\ c = Nil <=> p \in {"fetch", "sleep", "grab", "mqrelease", "drop"}
  /\ p \in {"pop0", "length", "callback", "pop", "next"} => x = c

Control ==
  /\ \A w \in Worker : InHand(pc[w], q[w], cur[w])
  /\ \A t \in Thread :
       /\ lpc[t] \in {"none", "return"} <=> lh[t] = Nil
       /\ lpc[t] # "return" <=> inst[t] = Nil
       /\ lpc[t] # "none" => t \in Worker /\ pc[t] = "callback"

(* The places a queue can be in, other than the global queue. *)
InHands(h) ==
  \/ \E w \in Worker : q[w] = h
  \/ \E w \in Worker : pc[w] = "pushback" /\ cur[w] = h
  \/ \E t \in Thread : lh[t] = h

(* No queue is in two places, and the flags say whether it is in one.      *)
Alone ==
  /\ Distinct(gq)
  /\ \A w, v \in Worker : q[w] = q[v] /\ q[w] # Nil => w = v
  /\ \A t, u \in Thread : lh[t] = lh[u] /\ lh[t] # Nil => t = u
  /\ \A w \in Worker, t \in Thread : q[w] # Nil => q[w] # lh[t]
  /\ \A w \in Worker : pc[w] = "pushback" =>
       /\ \A v \in Worker : cur[w] # q[v]
       /\ \A v \in Worker : pc[v] = "pushback" /\ cur[v] = cur[w] => v = w
       /\ \A t \in Thread : cur[w] # lh[t]
  /\ \A h \in Elems(gq) : ~InHands(h)

Placed(h) == h \in Elems(gq) \/ InHands(h)

Found ==
  \A h \in Handle :
    /\ Placed(h) <=> mem[h] = "alive" /\ (in_global[h] \/ release[h])
    /\ mem[h] = "alive" /\ queue[h] # <<>> => in_global[h] \/ release[h]

(* The references to a context: its slot in the handle table, the calls    *)
(* that have grabbed it, the workers that dispatch to it, the init that    *)
(* runs in it.                                                             *)
Grabs(h) == {t \in Thread : sub[t].op \in {"push", "release"} /\ sub[t].h = h}
Users(h) == {w \in Worker : cur[w] = h}
Creators(h) == {t \in Thread : lpc[t] = "init" /\ lh[t] = h}

References(h) ==
  (IF h \in registered THEN 1 ELSE 0)
    + Cardinality(Grabs(h)) + Cardinality(Users(h)) + Cardinality(Creators(h))

(* The threads that dropped the last one and go on to mark the queue. *)
Marks(h) == {t \in Thread : sub[t].op = "mark" /\ sub[t].h = h}

(* A reference count counts references.  A context is there while there is *)
(* a reference or while the thread that dropped the last one marks its     *)
(* queue; that happens once.                                               *)
Counted ==
  \A h \in Handle :
    /\ ref[h] = References(h)
    /\ ctx[h] = "alive" <=> ref[h] > 0 \/ Marks(h) # {}
    /\ Marks(h) # {} => ref[h] = 0
    /\ \A t, u \in Marks(h) : t = u

(* The life of a context and of its queue. *)
Lives ==
  /\ \A h \in Handle :
       /\ ctx[h] = "none" <=> mem[h] = "none"
       /\ ctx[h] = "alive" => mem[h] = "alive"
       /\ release[h] <=> ctx[h] = "freed"
       /\ mem[h] = "none" => ~in_global[h]
  /\ \A w \in Worker : pc[w] = "drop" => release[q[w]]
  /\ \A t \in Thread : lpc[t] = "drop" => release[lh[t]]

(* A service that can be found and is not being launched has been          *)
(* initialised, and so has one that is dispatched to.                      *)
Ready ==
  /\ \A h \in registered :
       inited[h] \/ \E t \in Thread :
                      lh[t] = h /\ lpc[t] \in {"init", "setinit", "failretire"}
  /\ \A w \in Worker : cur[w] # Nil => inited[cur[w]]

(* The messages of an id: one at most that is not an error, and none once  *)
(* the message has met its fate.                                           *)
Same(m, n) == m.id = n.id /\ ~m.error /\ ~n.error

Fates ==
  /\ delivered \cap dropped = {}
  /\ \A i \in delivered \cup dropped : i <= nsent /\ ~Pending(i)
  /\ \A h \in Handle : \A k \in 1 .. Len(queue[h]) :
       /\ queue[h][k].id <= nsent
       /\ queue[h][k].error => queue[h][k].id \in dropped
  /\ \A t \in Thread : sub[t].op = "push" =>
       /\ sub[t].msg.id <= nsent
       /\ sub[t].msg.error => sub[t].msg.id \in dropped
  /\ \A g, h \in Handle : \A k \in 1 .. Len(queue[g]), l \in 1 .. Len(queue[h]) :
       Same(queue[g][k], queue[h][l]) => g = h /\ k = l
  /\ \A t, u \in Thread :
       sub[t].op = "push" /\ sub[u].op = "push" /\ Same(sub[t].msg, sub[u].msg) => t = u
  /\ \A t \in Thread, h \in Handle : \A k \in 1 .. Len(queue[h]) :
       sub[t].op = "push" => ~Same(sub[t].msg, queue[h][k])

KernelInv ==
  Types /\ Control /\ Alone /\ Found /\ Counted /\ Lives /\ Ready /\ Fates

-----------------------------------------------------------------------------
(* Sequences without repetition. *)
LEMMA AppendElems ==
  ASSUME NEW S, NEW s \in Seq(S), NEW m \in S
  PROVE  /\ Append(s, m) \in Seq(S)
         /\ Elems(Append(s, m)) = Elems(s) \cup {m}
         /\ Distinct(s) /\ m \notin Elems(s) => Distinct(Append(s, m))
<1>1. /\ Len(s) \in Nat
      /\ Append(s, m) \in Seq(S) /\ Len(Append(s, m)) = Len(s) + 1
      /\ \A i \in 1 .. Len(s) : Append(s, m)[i] = s[i]
      /\ Append(s, m)[Len(s) + 1] = m
  BY AppendProperties, LenProperties
<1> HIDE DEF Elems
<1>2. Elems(Append(s, m)) = Elems(s) \cup {m}
  BY <1>1 DEF Elems
<1>3. ASSUME Distinct(s), m \notin Elems(s) PROVE Distinct(Append(s, m))
  BY <1>1, <1>3 DEF Elems, Distinct
<1> QED BY <1>1, <1>2, <1>3

LEMMA TailElems ==
  ASSUME NEW S, NEW s \in Seq(S), s # <<>>
  PROVE  /\ Tail(s) \in Seq(S)
         /\ Head(s) \in S /\ Head(s) \in Elems(s)
         /\ Elems(s) = Elems(Tail(s)) \cup {Head(s)}
         /\ Distinct(s) => Distinct(Tail(s)) /\ Head(s) \notin Elems(Tail(s))
<1>1. /\ Len(s) \in Nat /\ Len(s) > 0 /\ Head(s) = s[1] /\ s[1] \in S
      /\ Tail(s) \in Seq(S) /\ Len(Tail(s)) = Len(s) - 1
      /\ \A i \in 1 .. Len(Tail(s)) : Tail(s)[i] = s[i + 1]
  BY HeadTailProperties, LenProperties, EmptySeq, ElementOfSeq
<1>2. Elems(s) = Elems(Tail(s)) \cup {Head(s)}
  <2>1. ASSUME NEW i \in 1 .. Len(s) PROVE s[i] \in Elems(Tail(s)) \cup {Head(s)}
    <3>1. i = 1 \/ (i - 1 \in 1 .. Len(Tail(s)) /\ s[i] = Tail(s)[i - 1])
      BY <1>1
    <3> QED BY <1>1, <3>1 DEF Elems
  <2>2. ASSUME NEW i \in 1 .. Len(Tail(s)) PROVE Tail(s)[i] \in Elems(s)
    BY <1>1 DEF Elems
  <2>3. Head(s) \in Elems(s)
    BY <1>1 DEF Elems
  <2> QED BY <2>1, <2>2, <2>3 DEF Elems
<1>3. ASSUME Distinct(s) PROVE Distinct(Tail(s)) /\ Head(s) \notin Elems(Tail(s))
  <2>1. Distinct(Tail(s))
    BY <1>1, <1>3 DEF Distinct
  <2>2. \A i \in 1 .. Len(Tail(s)) : Tail(s)[i] # Head(s)
    BY <1>1, <1>3 DEF Distinct
  <2> QED BY <2>1, <2>2 DEF Elems
<1> QED BY <1>1, <1>2, <1>3 DEF Elems

-----------------------------------------------------------------------------
LEMMA InitInv == Init => KernelInv
<1> SUFFICES ASSUME Init PROVE KernelInv
  OBVIOUS
<1> USE HandleAssumption, ThreadAssumption, BootAssumption, SendAssumption
<1>1. Booted \subseteq Handle /\ Elems(gq) = Booted
  BY ElementOfSeq DEF Booted, Elems, Init
<1>2. Types
  BY <1>1 DEF Init, Types, WorkerPC, LaunchPC, Call
<1>3. Control
  BY DEF Init, Control, InHand, Thread
<1>4. \A h \in Handle : ~InHands(h)
  BY DEF Init, InHands
<1>5. Alone
  BY <1>1, <1>4 DEF Init, Alone, Distinct
<1>6. Found
  BY <1>1, <1>4 DEF Init, Found, Placed
<1>7. Counted
  <2>1. \A h \in Handle : /\ Grabs(h) = {} /\ Users(h) = {} /\ Creators(h) = {}
                          /\ Marks(h) = {}
    <3>1. \A t \in Thread : sub[t].op = "none" /\ lpc[t] = "none"
      BY DEF Init, NoCall
    <3>2. \A h \in Handle, w \in Worker : cur[w] # h
      BY DEF Init
    <3>3. \A h \in Handle : Grabs(h) = {} /\ Creators(h) = {} /\ Marks(h) = {}
      BY <3>1 DEF Grabs, Creators, Marks
    <3> QED BY <3>2, <3>3 DEF Users
  <2>2. \A h \in Handle : ref[h] = References(h)
    <3>1. ASSUME NEW h \in Handle
          PROVE  References(h) = IF h \in registered THEN 1 ELSE 0
      <4>1. /\ Cardinality(Grabs(h)) = 0 /\ Cardinality(Users(h)) = 0
            /\ Cardinality(Creators(h)) = 0
        BY <2>1, FS_EmptySet
      <4> QED BY ONLY <4>1 DEF References
    <3> QED BY <3>1 DEF Init
  <2> QED BY <2>1, <2>2 DEF Counted, Init
<1>8. Lives
  BY <1>1 DEF Init, Lives
<1>9. Ready
  BY <1>1 DEF Init, Ready
<1>10. Fates
  BY DEF Init, Fates, Pending, NoCall
<1> QED BY <1>2, <1>3, <1>5, <1>6, <1>7, <1>8, <1>9, <1>10 DEF KernelInv

-----------------------------------------------------------------------------
LEMMA Calls ==
  ASSUME Types, NEW t \in Thread
  PROVE  /\ sub[t].op = "push" => sub[t].h \in Handle /\ sub[t].msg \in Message
         /\ sub[t].op \in {"release", "mark"} => sub[t].h \in Handle
         /\ sub[t].op \in {"none", "push", "release", "mark"}
         /\ sub[t] = NoCall <=> sub[t].op = "none"
BY DEF Types, Call, NoCall

LEMMA Cards ==
  ASSUME NEW A \in SUBSET Thread
  PROVE  /\ IsFiniteSet(A) /\ Cardinality(A) \in Nat
         /\ Cardinality(A) = 0 <=> A = {}
         /\ \A t \in Thread \ A : Cardinality(A \cup {t}) = Cardinality(A) + 1
         /\ \A t \in A : Cardinality(A \ {t}) = Cardinality(A) - 1
<1>1. IsFiniteSet(A)
  BY ThreadAssumption, FS_Subset
<1> QED BY <1>1, FS_CardinalityType, FS_EmptySet, FS_AddElement, FS_RemoveElement

(* What a count says about the references it counts. *)
LEMMA CountFacts ==
  ASSUME Types, Counted, NEW h \in Handle
  PROVE  /\ ref[h] \in Nat
         /\ \/ h \in registered \/ Grabs(h) # {} \/ Users(h) # {} \/ Creators(h) # {}
            => ref[h] > 0 /\ ctx[h] = "alive" /\ Marks(h) = {}
         /\ ref[h] > 0 => \/ h \in registered \/ Grabs(h) # {} \/ Users(h) # {}
                          \/ Creators(h) # {}
<1>1. Grabs(h) \subseteq Thread /\ Users(h) \subseteq Thread /\ Creators(h) \subseteq Thread
  BY DEF Grabs, Users, Creators, Thread
<1>2. /\ Cardinality(Grabs(h)) \in Nat /\ (Cardinality(Grabs(h)) = 0 <=> Grabs(h) = {})
      /\ Cardinality(Users(h)) \in Nat /\ (Cardinality(Users(h)) = 0 <=> Users(h) = {})
      /\ Cardinality(Creators(h)) \in Nat
      /\ Cardinality(Creators(h)) = 0 <=> Creators(h) = {}
  BY <1>1, Cards
<1> QED BY <1>2 DEF Counted, References

(* Who drops a reference holds one. *)
LEMMA DecRefTypes ==
  ASSUME Types, Counted, NEW t \in Thread, NEW h \in Handle, ref[h] > 0, DecRef(t, h)
  PROVE  ref' \in [Handle -> Nat] /\ sub' \in [Thread -> Call]
<1>1. ref[h] - 1 \in Nat
  BY DEF Types
<1> QED BY <1>1 DEF DecRef, Types, Call

LEMMA GrabTypes ==
  ASSUME Types, NEW t \in Thread, NEW h, NEW m \in Message, skynet_handle_grab(t, h, m)
  PROVE  ref' \in [Handle -> Nat] /\ sub' \in [Thread -> Call]
<1>1. h \in registered => h \in Handle /\ [op |-> "push", h |-> h, msg |-> m] \in Call
  BY DEF Types, Call
<1>2. CASE h \in registered
  <2>1. ref' = [ref EXCEPT ![h] = @ + 1]
        /\ sub' = [sub EXCEPT ![t] = [op |-> "push", h |-> h, msg |-> m]]
    BY <1>2 DEF skynet_handle_grab
  <2> QED BY <1>1, <1>2, <2>1 DEF Types
<1>3. CASE h \notin registered
  BY <1>3 DEF skynet_handle_grab, Types
<1> QED BY <1>2, <1>3

LEMMA TypesStep ==
  ASSUME KernelInv, Next
  PROVE  Types'
<1>1. Types /\ Control /\ Counted
  BY DEF KernelInv
<1> USE <1>1, HandleAssumption, ThreadAssumption, SendAssumption
<1> USE DEF ctxvars, mqvars, wvars, lvars, hist
<1>2. ASSUME NEW t \in Thread, skynet_mq_push(t) PROVE Types'
  <2>1. sub[t].h \in Handle /\ sub[t].msg \in Message
    BY <1>2, Calls DEF skynet_mq_push
  <2>2. queue' \in [Handle -> Seq(Message)] /\ gq' \in Seq(Handle)
    BY <1>2, <2>1 DEF skynet_mq_push, Types
  <2>3. sub' \in [Thread -> Call]
    BY <1>2, <2>1 DEF skynet_mq_push, Types, Call
  <2> QED BY <1>2, <2>1, <2>2, <2>3 DEF skynet_mq_push, Types
<1>3. ASSUME NEW t \in Thread, skynet_context_release(t) PROVE Types'
  <2>1. sub[t].h \in Handle /\ t \in Grabs(sub[t].h)
    BY <1>3, Calls DEF skynet_context_release, Grabs
  <2>2. ref' \in [Handle -> Nat] /\ sub' \in [Thread -> Call]
    BY <1>3, <2>1, CountFacts, DecRefTypes DEF skynet_context_release
  <2> QED BY <1>3, <2>2 DEF skynet_context_release, Types
<1>4. ASSUME NEW t \in Thread, delete_context(t) PROVE Types'
  <2>1. sub[t].h \in Handle
    BY <1>4, Calls DEF delete_context
  <2>2. gq' \in Seq(Handle) /\ sub' \in [Thread -> Call]
    BY <1>4, <2>1 DEF delete_context, Types, Call
  <2> QED BY <1>4, <2>1, <2>2 DEF delete_context, Types
<1>5. ASSUME NEW t \in Thread, SetInit(t) PROVE Types'
  BY <1>5 DEF SetInit, Types, LaunchPC
<1>6. ASSUME NEW t \in Thread, Enqueue(t) PROVE Types'
  <2>1. lh[t] \in Handle
    BY <1>6 DEF Enqueue, Control, Types
  <2> QED BY <1>6, <2>1 DEF Enqueue, LaunchDone, Types, LaunchPC
<1>7. ASSUME NEW t \in Thread, FailRetire(t) PROVE Types'
  <2>1. lh[t] \in Handle
    BY <1>7 DEF FailRetire, Control, Types
  <2>2. lpc' \in [Thread -> LaunchPC]
    BY <1>7 DEF FailRetire, Types, LaunchPC
  <2>3. sub' \in [Thread -> Call] /\ registered' \subseteq Handle
    <3>1. CASE lh[t] \in registered
      <4>1. [op |-> "release", h |-> lh[t]] \in Call
        BY <2>1 DEF Call
      <4>2. /\ registered' = registered \ {lh[t]}
            /\ sub' = [sub EXCEPT ![t] = [op |-> "release", h |-> lh[t]]]
        BY <1>7, <3>1 DEF FailRetire
      <4> QED BY <4>1, <4>2 DEF Types
    <3>2. CASE lh[t] \notin registered
      BY <1>7, <3>2 DEF FailRetire, Types
    <3> QED BY <3>1, <3>2
  <2> QED BY <1>7, <2>2, <2>3 DEF FailRetire, Types
<1>8. ASSUME NEW t \in Thread, FailMqRelease(t) PROVE Types'
  <2>1. lh[t] \in Handle
    BY <1>8 DEF FailMqRelease, Control, Types
  <2>2. CASE release[lh[t]]
    BY <1>8, <2>1, <2>2 DEF FailMqRelease, LaunchDone, Types, LaunchPC
  <2>3. CASE ~(release[lh[t]])
    <3>1. gq' = Append(gq, lh[t]) /\ LaunchDone(t)
      BY <1>8, <2>3 DEF FailMqRelease
    <3>2. gq' \in Seq(Handle)
      BY <2>1, <3>1 DEF Types
    <3> QED BY <1>8, <3>1, <3>2 DEF FailMqRelease, LaunchDone, Types, LaunchPC
  <2> QED BY <2>2, <2>3
<1>9. ASSUME NEW t \in Thread, drop_message(t) PROVE Types'
  <2> DEFINE h == Dropping(t)
             m == Head(queue[h])
  <2>1. h \in Handle
    BY <1>9 DEF drop_message, InDrop, Dropping, Control, InHand, Types
  <2>2. m \in Message /\ Tail(queue[h]) \in Seq(Message)
    BY <1>9, <2>1, TailElems DEF drop_message, Types
  <2>3. [id |-> m.id, src |-> h, error |-> TRUE] \in Message /\ m.id \in 1 .. MaxSend
    BY <2>1, <2>2 DEF Message
  <2>4. ref' \in [Handle -> Nat] /\ sub' \in [Thread -> Call]
    BY <1>9, <2>3, GrabTypes DEF drop_message
  <2> QED BY <1>9, <2>2, <2>3, <2>4 DEF drop_message, Types
<1>10. ASSUME NEW t \in Thread, _release(t) PROVE Types'
  BY <1>10 DEF _release, LaunchDone, Types, LaunchPC, WorkerPC
<1>11. ASSUME NEW t \in Thread, NEW h \in Handle, skynet_send(t, h) PROVE Types'
  <2>1. Source(t) \in Handle \cup {Nil} /\ nsent + 1 \in 1 .. MaxSend
    BY <1>11 DEF skynet_send, Source, Types
  <2>2. [id |-> nsent + 1, src |-> Source(t), error |-> FALSE] \in Message
    BY <2>1 DEF Message
  <2>3. ref' \in [Handle -> Nat] /\ sub' \in [Thread -> Call]
    BY <1>11, <2>2, GrabTypes DEF skynet_send
  <2> QED BY <1>11, <2>1, <2>3 DEF skynet_send, Types
<1>12. ASSUME NEW t \in Thread, NEW h \in Handle, skynet_handle_retire(t, h) PROVE Types'
  BY <1>12 DEF skynet_handle_retire, Types, Call
<1>13. ASSUME NEW t \in Thread, NEW h \in Handle, skynet_context_new(t, h) PROVE Types'
  BY <1>13 DEF skynet_context_new, Types, LaunchPC
<1>14. ASSUME NEW t \in Thread, NEW ok \in BOOLEAN, InitReturns(t, ok) PROVE Types'
  <2>1. lh[t] \in Handle /\ t \in Creators(lh[t])
    BY <1>14 DEF InitReturns, Control, Types, Creators
  <2>2. ref' \in [Handle -> Nat] /\ sub' \in [Thread -> Call]
    BY <1>14, <2>1, CountFacts, DecRefTypes DEF InitReturns
  <2> QED BY <1>14, <2>2 DEF InitReturns, Types, LaunchPC
<1>15. ASSUME NEW w \in Worker, Fetch(w) PROVE Types'
  <2>1. gq # <<>> => Head(gq) \in Handle /\ Tail(gq) \in Seq(Handle)
    BY TailElems DEF Types
  <2> QED BY <1>15, <2>1 DEF Fetch, Goto, Types, WorkerPC
<1>16. ASSUME NEW w \in Worker, Wake(w) PROVE Types'
  BY <1>16 DEF Wake, Goto, Types, WorkerPC
<1>17. ASSUME NEW w \in Worker, Grab(w) PROVE Types'
  <2>1. q[w] \in Handle
    BY <1>17 DEF Grab, At, Control, InHand, Types
  <2>2. CASE q[w] \in registered
    <3>1. /\ ref' = [ref EXCEPT ![q[w]] = @ + 1] /\ cur' = [cur EXCEPT ![w] = q[w]]
          /\ Goto(w, "pop0")
      BY <1>17, <2>2 DEF Grab
    <3> QED BY <1>17, <2>1, <3>1 DEF Grab, Goto, Types, WorkerPC
  <2>3. CASE ~(q[w] \in registered)
    BY <1>17, <2>1, <2>3 DEF Grab, Goto, Types, WorkerPC
  <2> QED BY <2>2, <2>3
<1>18. ASSUME NEW w \in Worker, skynet_mq_release(w) PROVE Types'
  <2>1. q[w] \in Handle
    BY <1>18 DEF skynet_mq_release, At, Control, InHand, Types
  <2>2. CASE release[q[w]]
    BY <1>18, <2>1, <2>2 DEF skynet_mq_release, Goto, Types, WorkerPC
  <2>3. CASE ~(release[q[w]])
    <3>1. gq' = Append(gq, q[w]) /\ q' = [q EXCEPT ![w] = Nil] /\ Goto(w, "fetch")
      BY <1>18, <2>3 DEF skynet_mq_release
    <3>2. gq' \in Seq(Handle)
      BY <2>1, <3>1 DEF Types
    <3> QED BY <1>18, <3>1, <3>2 DEF skynet_mq_release, Goto, Types, WorkerPC
  <2> QED BY <2>2, <2>3
<1>19. ASSUME NEW w \in Worker, skynet_mq_pop(w) PROVE Types'
  <2>1. q[w] \in Handle
    BY <1>19 DEF skynet_mq_pop, At, Control, InHand, Types
  <2>2. CASE queue[q[w]] = <<>>
    BY <1>19, <2>1, <2>2 DEF skynet_mq_pop, Goto, Types, WorkerPC
  <2>3. CASE queue[q[w]] # <<>>
    <3>1. Head(queue[q[w]]) \in Message /\ Tail(queue[q[w]]) \in Seq(Message)
      BY <2>1, <2>3, TailElems DEF Types
    <3>2. Head(queue[q[w]]).id \in 1 .. MaxSend
      BY <3>1 DEF Message
    <3>3. /\ queue' = [queue EXCEPT ![q[w]] = Tail(@)]
          /\ delivered' \subseteq delivered \cup {Head(queue[q[w]]).id}
          /\ pc' \in [Worker -> WorkerPC]
      BY <1>19, <2>3 DEF skynet_mq_pop, Goto, Types, WorkerPC
    <3> QED BY <1>19, <2>3, <3>1, <3>2, <3>3 DEF skynet_mq_pop, Types
  <2> QED BY <2>2, <2>3
<1>20. ASSUME NEW w \in Worker, skynet_mq_length(w) PROVE Types'
  BY <1>20 DEF skynet_mq_length, Goto, Types, WorkerPC
<1>21. ASSUME NEW w \in Worker, CallbackReturns(w) PROVE Types'
  BY <1>21 DEF CallbackReturns, Goto, Types, WorkerPC
<1>22. ASSUME NEW w \in Worker, NextQueue(w) PROVE Types'
  <2>1. gq # <<>> => Head(gq) \in Handle /\ Tail(gq) \in Seq(Handle)
    BY TailElems DEF Types
  <2> QED BY <1>22, <2>1 DEF NextQueue, Goto, Types, WorkerPC
<1>23. ASSUME NEW w \in Worker, PushBack(w) PROVE Types'
  <2>1. cur[w] \in Handle
    BY <1>23 DEF PushBack, At, Control, InHand, Types
  <2> QED BY <1>23, <2>1 DEF PushBack, Goto, Types, WorkerPC
<1>24. ASSUME NEW w \in Worker, ReleaseCurrent(w) PROVE Types'
  <2>1. cur[w] \in Handle /\ w \in Users(cur[w]) /\ w \in Thread
    BY <1>24 DEF ReleaseCurrent, At, Control, InHand, Types, Users, Thread
  <2>2. ref' \in [Handle -> Nat] /\ sub' \in [Thread -> Call]
    BY <1>24, <2>1, CountFacts, DecRefTypes DEF ReleaseCurrent
  <2> QED BY <1>24, <2>2 DEF ReleaseCurrent, Goto, Types, WorkerPC
<1>25. ASSUME NEW t \in Thread, Publish(t) PROVE Types'
  <2>1. lh[t] \in Handle
    BY <1>25 DEF Publish, Control, Types
  <2> QED BY <1>25, <2>1 DEF Publish, Types, LaunchPC
<1>26. ASSUME NEW t \in Thread, LaunchReturns(t) PROVE Types'
  BY <1>26 DEF LaunchReturns, Types, LaunchPC
<1> QED
  BY <1>2, <1>3, <1>4, <1>5, <1>6, <1>7, <1>8, <1>9, <1>10, <1>11, <1>12, <1>13,
     <1>14, <1>15, <1>16, <1>17, <1>18, <1>19, <1>20, <1>21, <1>22, <1>23, <1>24, <1>25, <1>26
     DEF Next, KernelStep, ServiceStep, InitEnds, WorkerStep
LEMMA ControlWorker ==
  ASSUME Types, Control, NEW w \in Worker, lpc[w] = "none",
         NEW p, NEW x, NEW c, InHand(p, x, c),
         pc' = [pc EXCEPT ![w] = p], q' = [q EXCEPT ![w] = x],
         cur' = [cur EXCEPT ![w] = c], UNCHANGED lvars
  PROVE  Control'
<1>1. \A v \in Worker : /\ pc'[v] = (IF v = w THEN p ELSE pc[v])
                        /\ q'[v] = (IF v = w THEN x ELSE q[v])
                        /\ cur'[v] = (IF v = w THEN c ELSE cur[v])
  BY DEF Types
<1>2. \A v \in Worker : InHand(pc'[v], q'[v], cur'[v])
  BY <1>1 DEF Control
<1> QED BY <1>1, <1>2 DEF Control, lvars

LEMMA ControlStep ==
  ASSUME KernelInv, Next
  PROVE  Control'
<1>1. Types /\ Control
  BY DEF KernelInv
<1> USE <1>1, HandleAssumption
<1> USE DEF ctxvars, mqvars, wvars, lvars, hist
<1>2. ASSUME NEW t \in Thread,
             \/ skynet_mq_push(t) \/ skynet_context_release(t)
             \/ delete_context(t) \/ drop_message(t)
      PROVE  Control'
  BY <1>2 DEF skynet_mq_push, skynet_context_release, delete_context, drop_message, Control
<1>3. ASSUME NEW t \in Thread, SetInit(t) PROVE Control'
  BY <1>3 DEF SetInit, Control, Types
<1>4. ASSUME NEW t \in Thread, Enqueue(t) PROVE Control'
  BY <1>4 DEF Enqueue, LaunchDone, Control, Types
<1>5. ASSUME NEW t \in Thread, FailRetire(t) PROVE Control'
  BY <1>5 DEF FailRetire, Control, Types
<1>6. ASSUME NEW t \in Thread, FailMqRelease(t) PROVE Control'
  BY <1>6 DEF FailMqRelease, LaunchDone, Control, Types
<1>7. ASSUME NEW t \in Thread, _release(t) PROVE Control'
  <2>1. CASE lpc[t] = "drop"
    BY <1>7, <2>1 DEF _release, LaunchDone, Control, Types
  <2>2. CASE lpc[t] # "drop"
    <3>1. t \in Worker /\ pc[t] = "drop" /\ lpc[t] = "none"
      BY <1>7, <2>2 DEF _release, InDrop, Control
    <3>2. /\ pc' = [pc EXCEPT ![t] = "fetch"] /\ q' = [q EXCEPT ![t] = Nil]
          /\ cur' = [cur EXCEPT ![t] = Nil] /\ UNCHANGED lvars
      BY <1>7, <2>2, <3>1 DEF _release, Types, Control, InHand
    <3> QED BY <3>1, <3>2, ControlWorker DEF InHand
  <2> QED BY <2>1, <2>2
<1>8. ASSUME NEW t \in Thread, NEW h \in Handle,
             \/ skynet_send(t, h) \/ skynet_handle_retire(t, h)
      PROVE  Control'
  BY <1>8 DEF skynet_send, skynet_handle_retire, Control
<1>9. ASSUME NEW t \in Thread, NEW h \in Handle, skynet_context_new(t, h) PROVE Control'
  BY <1>9 DEF skynet_context_new, Running, Control, Types
<1>10. ASSUME NEW t \in Thread, NEW ok \in BOOLEAN, InitReturns(t, ok) PROVE Control'
  BY <1>10 DEF InitReturns, Control, Types
<1>11. ASSUME NEW w \in Worker, Fetch(w) PROVE Control'
  <2>1. gq # <<>> => Head(gq) \in Handle
    BY TailElems DEF Types
  <2>2. CASE gq = <<>>
    <3>1. InHand("sleep", q[w], cur[w]) /\ lpc[w] = "none"
      BY <1>11, <2>2, <2>1 DEF Fetch, At, Control, Types, InHand
    <3>2. /\ pc' = [pc EXCEPT ![w] = "sleep"] /\ q' = [q EXCEPT ![w] = q[w]]
          /\ cur' = [cur EXCEPT ![w] = cur[w]] /\ UNCHANGED lvars
      BY <1>11, <2>2 DEF Fetch, Goto, Types
    <3> QED BY <3>1, <3>2, ControlWorker
  <2>3. CASE ~(gq = <<>>)
    <3>1. InHand("grab", Head(gq), cur[w]) /\ lpc[w] = "none"
      BY <1>11, <2>3, <2>1 DEF Fetch, At, Control, Types, InHand
    <3>2. /\ pc' = [pc EXCEPT ![w] = "grab"] /\ q' = [q EXCEPT ![w] = Head(gq)]
          /\ cur' = [cur EXCEPT ![w] = cur[w]] /\ UNCHANGED lvars
      BY <1>11, <2>3 DEF Fetch, Goto, Types
    <3> QED BY <3>1, <3>2, ControlWorker
  <2> QED BY <2>2, <2>3
<1>12. ASSUME NEW w \in Worker, Wake(w) PROVE Control'
  <2>1. InHand("fetch", q[w], cur[w]) /\ lpc[w] = "none"
    BY <1>12 DEF Wake, At, Control, Types, InHand
  <2>2. /\ pc' = [pc EXCEPT ![w] = "fetch"] /\ q' = [q EXCEPT ![w] = q[w]]
        /\ cur' = [cur EXCEPT ![w] = cur[w]] /\ UNCHANGED lvars
    BY <1>12 DEF Wake, Goto, Types
  <2> QED BY <2>1, <2>2, ControlWorker
<1>13. ASSUME NEW w \in Worker, Grab(w) PROVE Control'
  <2>2. CASE q[w] \in registered
    <3>1. InHand("pop0", q[w], q[w]) /\ lpc[w] = "none"
      BY <1>13, <2>2 DEF Grab, At, Control, Types, InHand
    <3>2. /\ pc' = [pc EXCEPT ![w] = "pop0"] /\ q' = [q EXCEPT ![w] = q[w]]
          /\ cur' = [cur EXCEPT ![w] = q[w]] /\ UNCHANGED lvars
      BY <1>13, <2>2 DEF Grab, Goto, Types
    <3> QED BY <3>1, <3>2, ControlWorker
  <2>3. CASE ~(q[w] \in registered)
    <3>1. InHand("mqrelease", q[w], cur[w]) /\ lpc[w] = "none"
      BY <1>13, <2>3 DEF Grab, At, Control, Types, InHand
    <3>2. /\ pc' = [pc EXCEPT ![w] = "mqrelease"] /\ q' = [q EXCEPT ![w] = q[w]]
          /\ cur' = [cur EXCEPT ![w] = cur[w]] /\ UNCHANGED lvars
      BY <1>13, <2>3 DEF Grab, Goto, Types
    <3> QED BY <3>1, <3>2, ControlWorker
  <2> QED BY <2>2, <2>3
<1>14. ASSUME NEW w \in Worker, skynet_mq_release(w) PROVE Control'
  <2>2. CASE release[q[w]]
    <3>1. InHand("drop", q[w], cur[w]) /\ lpc[w] = "none"
      BY <1>14, <2>2 DEF skynet_mq_release, At, Control, Types, InHand
    <3>2. /\ pc' = [pc EXCEPT ![w] = "drop"] /\ q' = [q EXCEPT ![w] = q[w]]
          /\ cur' = [cur EXCEPT ![w] = cur[w]] /\ UNCHANGED lvars
      BY <1>14, <2>2 DEF skynet_mq_release, Goto, Types
    <3> QED BY <3>1, <3>2, ControlWorker
  <2>3. CASE ~(release[q[w]])
    <3>1. InHand("fetch", Nil, cur[w]) /\ lpc[w] = "none"
      BY <1>14, <2>3 DEF skynet_mq_release, At, Control, Types, InHand
    <3>2. /\ pc' = [pc EXCEPT ![w] = "fetch"] /\ q' = [q EXCEPT ![w] = Nil]
          /\ cur' = [cur EXCEPT ![w] = cur[w]] /\ UNCHANGED lvars
      BY <1>14, <2>3 DEF skynet_mq_release, Goto, Types
    <3> QED BY <3>1, <3>2, ControlWorker
  <2> QED BY <2>2, <2>3
<1>15. ASSUME NEW w \in Worker, skynet_mq_pop(w) PROVE Control'
  <2>1. CASE queue[q[w]] = <<>>
    <3>1. InHand("release", Nil, cur[w]) /\ lpc[w] = "none"
      BY <1>15 DEF skynet_mq_pop, At, Control, InHand
    <3>2. /\ pc' = [pc EXCEPT ![w] = "release"] /\ q' = [q EXCEPT ![w] = Nil]
          /\ cur' = [cur EXCEPT ![w] = cur[w]] /\ UNCHANGED lvars
      BY <1>15, <2>1 DEF skynet_mq_pop, Goto, Types
    <3> QED BY <3>1, <3>2, ControlWorker
  <2>2. CASE queue[q[w]] # <<>>
    <3>1. PICK p \in {"length", "callback"} : Goto(w, p)
      BY <1>15, <2>2 DEF skynet_mq_pop
    <3>2. InHand(p, q[w], cur[w]) /\ lpc[w] = "none"
      BY <1>15 DEF skynet_mq_pop, At, Control, InHand
    <3>3. /\ pc' = [pc EXCEPT ![w] = p] /\ q' = [q EXCEPT ![w] = q[w]]
          /\ cur' = [cur EXCEPT ![w] = cur[w]] /\ UNCHANGED lvars
      BY <1>15, <2>2, <3>1 DEF skynet_mq_pop, Goto, Types
    <3> QED BY <3>2, <3>3, ControlWorker
  <2> QED BY <2>1, <2>2
<1>16. ASSUME NEW w \in Worker, skynet_mq_length(w) PROVE Control'
  <2>1. InHand("callback", q[w], cur[w]) /\ lpc[w] = "none"
    BY <1>16 DEF skynet_mq_length, At, Control, Types, InHand
  <2>2. /\ pc' = [pc EXCEPT ![w] = "callback"] /\ q' = [q EXCEPT ![w] = q[w]]
        /\ cur' = [cur EXCEPT ![w] = cur[w]] /\ UNCHANGED lvars
    BY <1>16 DEF skynet_mq_length, Goto, Types
  <2> QED BY <2>1, <2>2, ControlWorker
<1>17. ASSUME NEW w \in Worker, CallbackReturns(w) PROVE Control'
  <2>1. PICK p \in {"pop", "next"} : Goto(w, p)
    <3>1. Goto(w, IF left[w] > 1 THEN "pop" ELSE "next")
      BY <1>17 DEF CallbackReturns
    <3> QED BY <3>1
  <2>2. InHand(p, q[w], cur[w]) /\ lpc[w] = "none"
    BY <1>17 DEF CallbackReturns, At, Control, InHand
  <2>3. /\ pc' = [pc EXCEPT ![w] = p] /\ q' = [q EXCEPT ![w] = q[w]]
        /\ cur' = [cur EXCEPT ![w] = cur[w]] /\ UNCHANGED lvars
    BY <1>17, <2>1 DEF CallbackReturns, Goto, Types
  <2> QED BY <2>2, <2>3, ControlWorker
<1>18. ASSUME NEW w \in Worker, NextQueue(w) PROVE Control'
  <2>1. gq # <<>> => Head(gq) \in Handle
    BY TailElems DEF Types
  <2>2. CASE gq = <<>>
    <3>1. InHand("release", q[w], cur[w]) /\ lpc[w] = "none"
      BY <1>18, <2>2, <2>1 DEF NextQueue, At, Control, Types, InHand
    <3>2. /\ pc' = [pc EXCEPT ![w] = "release"] /\ q' = [q EXCEPT ![w] = q[w]]
          /\ cur' = [cur EXCEPT ![w] = cur[w]] /\ UNCHANGED lvars
      BY <1>18, <2>2 DEF NextQueue, Goto, Types
    <3> QED BY <3>1, <3>2, ControlWorker
  <2>3. CASE ~(gq = <<>>)
    <3>1. InHand("pushback", Head(gq), cur[w]) /\ lpc[w] = "none"
      BY <1>18, <2>3, <2>1 DEF NextQueue, At, Control, Types, InHand
    <3>2. /\ pc' = [pc EXCEPT ![w] = "pushback"] /\ q' = [q EXCEPT ![w] = Head(gq)]
          /\ cur' = [cur EXCEPT ![w] = cur[w]] /\ UNCHANGED lvars
      BY <1>18, <2>3 DEF NextQueue, Goto, Types
    <3> QED BY <3>1, <3>2, ControlWorker
  <2> QED BY <2>2, <2>3
<1>19. ASSUME NEW w \in Worker, PushBack(w) PROVE Control'
  <2>1. InHand("release", q[w], cur[w]) /\ lpc[w] = "none"
    BY <1>19 DEF PushBack, At, Control, Types, InHand
  <2>2. /\ pc' = [pc EXCEPT ![w] = "release"] /\ q' = [q EXCEPT ![w] = q[w]]
        /\ cur' = [cur EXCEPT ![w] = cur[w]] /\ UNCHANGED lvars
    BY <1>19 DEF PushBack, Goto, Types
  <2> QED BY <2>1, <2>2, ControlWorker
<1>20. ASSUME NEW w \in Worker, ReleaseCurrent(w) PROVE Control'
  <2>2. CASE q[w] = Nil
    <3>1. InHand("fetch", q[w], Nil) /\ lpc[w] = "none"
      BY <1>20, <2>2 DEF ReleaseCurrent, At, Control, Types, InHand
    <3>2. /\ pc' = [pc EXCEPT ![w] = "fetch"] /\ q' = [q EXCEPT ![w] = q[w]]
          /\ cur' = [cur EXCEPT ![w] = Nil] /\ UNCHANGED lvars
      BY <1>20, <2>2 DEF ReleaseCurrent, Goto, Types
    <3> QED BY <3>1, <3>2, ControlWorker
  <2>3. CASE ~(q[w] = Nil)
    <3>1. InHand("grab", q[w], Nil) /\ lpc[w] = "none"
      BY <1>20, <2>3 DEF ReleaseCurrent, At, Control, Types, InHand
    <3>2. /\ pc' = [pc EXCEPT ![w] = "grab"] /\ q' = [q EXCEPT ![w] = q[w]]
          /\ cur' = [cur EXCEPT ![w] = Nil] /\ UNCHANGED lvars
      BY <1>20, <2>3 DEF ReleaseCurrent, Goto, Types
    <3> QED BY <3>1, <3>2, ControlWorker
  <2> QED BY <2>2, <2>3
<1>21. ASSUME NEW t \in Thread, Publish(t) PROVE Control'
  BY <1>21 DEF Publish, Control, Types
<1>22. ASSUME NEW t \in Thread, LaunchReturns(t) PROVE Control'
  BY <1>22 DEF LaunchReturns, Control, Types
<1> QED
  BY <1>2, <1>3, <1>4, <1>5, <1>6, <1>7, <1>8, <1>9, <1>10, <1>11, <1>12,
     <1>13, <1>14, <1>15, <1>16, <1>17, <1>18, <1>19, <1>20, <1>21, <1>22
     DEF Next, KernelStep, ServiceStep, InitEnds, WorkerStep

(* A thread that works on a context or marks its queue finds both there.   *)
LEMMA CallLives ==
  ASSUME Types, Counted, Lives, NEW t \in Thread, sub[t].op \in {"push", "release", "mark"}
  PROVE  /\ sub[t].h \in Handle
         /\ ctx[sub[t].h] = "alive" /\ mem[sub[t].h] = "alive" /\ ~release[sub[t].h]
         /\ sub[t].op \in {"push", "release"} => t \in Grabs(sub[t].h)
<1>1. sub[t].h \in Handle
  BY Calls
<1>2. sub[t].op \in {"push", "release"} => t \in Grabs(sub[t].h)
  BY DEF Grabs
<1>3. ctx[sub[t].h] = "alive"
  BY <1>1, <1>2, CountFacts DEF Counted, Marks
<1> QED BY <1>1, <1>2, <1>3 DEF Lives

(* A queue that was nowhere enters the global queue. *)
LEMMA AloneAppend ==
  ASSUME Types, Alone, NEW h \in Handle, h \notin Elems(gq), ~InHands(h),
         gq' = Append(gq, h), UNCHANGED <<pc, q, cur, lh>>
  PROVE  Alone'
<1>1. Distinct(gq') /\ Elems(gq') = Elems(gq) \cup {h}
  BY AppendElems DEF Types, Alone
<1> QED BY <1>1 DEF Alone, InHands

(* No queue changes its place. *)
LEMMA AloneFrame ==
  ASSUME Types, Alone, NEW w \in Worker, pc[w] # "pushback", pc'[w] # "pushback",
         \A v \in Worker \ {w} : pc'[v] = pc[v] /\ cur'[v] = cur[v],
         UNCHANGED <<gq, q, lh>>
  PROVE  Alone'
<1>1. \A v \in Worker : pc'[v] = "pushback" => /\ pc[v] = "pushback" /\ cur'[v] = cur[v]
  OBVIOUS
<1>2. \A h \in Elems(gq) : ~InHands(h)'
  BY <1>1 DEF Alone, InHands
<1> QED BY <1>1, <1>2 DEF Alone

(* A launched queue enters the global queue. *)
LEMMA AloneLaunched ==
  ASSUME Types, Control, Alone, NEW t \in Thread, lh[t] \in Handle, Nil \notin Handle,
         gq' = Append(gq, lh[t]), lh' = [lh EXCEPT ![t] = Nil], UNCHANGED <<pc, q, cur>>
  PROVE  Alone'
<1>1. lh[t] \notin Elems(gq)
  BY DEF Alone, InHands
<1>2. Distinct(gq') /\ Elems(gq') = Elems(gq) \cup {lh[t]}
  BY <1>1, AppendElems DEF Types, Alone
<1>3. \A u \in Thread : lh'[u] = IF u = t THEN Nil ELSE lh[u]
  BY DEF Types
<1>4. ASSUME NEW h \in Handle, h = lh[t] PROVE ~InHands(h)'
  BY <1>3, <1>4 DEF Alone, InHands
<1>5. Nil \notin Elems(gq)
  BY DEF Types, Elems
<1>6. \A h \in Elems(gq) : ~InHands(h)'
  BY <1>3, <1>5 DEF Alone, InHands
<1>7. \A w \in Worker : pc[w] = "pushback" => \A u \in Thread : cur[w] # lh'[u]
  BY <1>3 DEF Alone, Control, InHand
<1> QED BY <1>2, <1>3, <1>4, <1>6, <1>7 DEF Alone

(* A queue leaves the hands of a worker. *)
LEMMA AloneGone ==
  ASSUME Types, Control, Alone, NEW w \in Worker, pc[w] # "pushback",
         NEW p, p # "pushback",
         Nil \notin Handle,
         pc' = [pc EXCEPT ![w] = p], q' = [q EXCEPT ![w] = Nil], UNCHANGED <<gq, cur, lh>>
  PROVE  Alone'
<1>1. \A v \in Worker : pc'[v] = "pushback" => pc[v] = "pushback" /\ v # w
  BY DEF Types
<1>2. Nil \notin Elems(gq)
  BY DEF Types, Elems
<1>3. \A h \in Elems(gq) : ~InHands(h)'
  BY <1>1, <1>2 DEF Alone, InHands, Types
<1>4. \A v \in Worker : q'[v] = IF v = w THEN Nil ELSE q[v]
  BY DEF Types
<1>5. \A v \in Worker : pc[v] = "pushback" => cur[v] # Nil
  BY DEF Control, InHand
<1> QED BY <1>1, <1>3, <1>4, <1>5 DEF Alone

LEMMA AloneStep ==
  ASSUME KernelInv, Next
  PROVE  Alone'
<1>1. Types /\ Control /\ Alone /\ Found /\ Counted /\ Lives
  BY DEF KernelInv
<1> USE <1>1, HandleAssumption
<1> USE DEF ctxvars, mqvars, wvars, lvars, hist
<1>2. ASSUME NEW t \in Thread, skynet_mq_push(t) PROVE Alone'
  <2> DEFINE h == sub[t].h
  <2>1. h \in Handle /\ mem[h] = "alive" /\ ~release[h]
    BY <1>2, CallLives DEF skynet_mq_push
  <2>2. CASE in_global[h]
    BY <1>2, <2>2 DEF skynet_mq_push, Alone, InHands
  <2>3. CASE ~in_global[h]
    <3>1. h \notin Elems(gq) /\ ~InHands(h)
      BY <2>1, <2>3 DEF Found, Placed
    <3> QED BY <1>2, <2>1, <2>3, <3>1, AloneAppend DEF skynet_mq_push
  <2> QED BY <2>2, <2>3
<1>3. ASSUME NEW t \in Thread,
             \/ skynet_context_release(t) \/ SetInit(t) \/ FailRetire(t)
             \/ drop_message(t)
      PROVE  Alone'
  BY <1>3 DEF skynet_context_release, SetInit, FailRetire, drop_message, Alone, InHands
<1>4. ASSUME NEW t \in Thread, delete_context(t) PROVE Alone'
  <2> DEFINE h == sub[t].h
  <2>1. h \in Handle /\ mem[h] = "alive" /\ ~release[h]
    BY <1>4, CallLives DEF delete_context
  <2>2. CASE in_global[h]
    BY <1>4, <2>2 DEF delete_context, Alone, InHands
  <2>3. CASE ~in_global[h]
    <3>1. h \notin Elems(gq) /\ ~InHands(h)
      BY <2>1, <2>3 DEF Found, Placed
    <3> QED BY <1>4, <2>1, <2>3, <3>1, AloneAppend DEF delete_context
  <2> QED BY <2>2, <2>3
<1>5. ASSUME NEW t \in Thread, Enqueue(t) PROVE Alone'
  <2>1. /\ gq' = Append(gq, lh[t]) /\ lh' = [lh EXCEPT ![t] = Nil]
        /\ UNCHANGED <<pc, q, cur>>
    BY <1>5 DEF Enqueue, LaunchDone
  <2>2. lh[t] \in Handle
    BY <1>5 DEF Enqueue, Control, Types
  <2> QED BY <2>1, <2>2, AloneLaunched
<1>6. ASSUME NEW t \in Thread, FailMqRelease(t) PROVE Alone'
  <2>1. lh[t] \in Handle
    BY <1>6 DEF FailMqRelease, Control, Types
  <2>2. CASE release[lh[t]]
    BY <1>6, <2>2 DEF FailMqRelease, Alone, InHands
  <2>3. CASE ~release[lh[t]]
    <3>1. /\ gq' = Append(gq, lh[t]) /\ lh' = [lh EXCEPT ![t] = Nil]
          /\ UNCHANGED <<pc, q, cur>>
      BY <1>6, <2>3 DEF FailMqRelease, LaunchDone
    <3> QED BY <2>1, <3>1, AloneLaunched
  <2> QED BY <2>2, <2>3
<1>7. ASSUME NEW t \in Thread, _release(t) PROVE Alone'
  <2>1. CASE lpc[t] = "drop"
    <3>1. lh' = [lh EXCEPT ![t] = Nil] /\ UNCHANGED <<gq, pc, q, cur>>
      BY <1>7, <2>1 DEF _release, LaunchDone
    <3>2. Nil \notin Elems(gq)
      BY DEF Types, Elems
    <3>3. \A u \in Thread : lh'[u] = IF u = t THEN Nil ELSE lh[u]
      BY <3>1 DEF Types
    <3>4. \A v \in Worker : pc[v] = "pushback" => cur[v] # Nil
      BY DEF Control, InHand
    <3>5. \A h \in Elems(gq) : ~InHands(h)'
      BY <3>1, <3>2, <3>3 DEF Alone, InHands
    <3> QED BY <3>1, <3>3, <3>4, <3>5 DEF Alone
  <2>2. CASE lpc[t] # "drop"
    <3>1. t \in Worker /\ pc[t] = "drop"
      BY <1>7, <2>2 DEF _release, InDrop
    <3>2. /\ pc' = [pc EXCEPT ![t] = "fetch"] /\ q' = [q EXCEPT ![t] = Nil]
          /\ UNCHANGED <<gq, cur, lh>>
      BY <1>7, <2>2 DEF _release
    <3> QED BY <3>1, <3>2, AloneGone
  <2> QED BY <2>1, <2>2
<1>8. ASSUME NEW t \in Thread, NEW h \in Handle,
             \/ skynet_send(t, h) \/ skynet_handle_retire(t, h)
      PROVE  Alone'
  BY <1>8 DEF skynet_send, skynet_handle_retire, Alone, InHands
<1>9. ASSUME NEW t \in Thread, NEW h \in Handle, skynet_context_new(t, h) PROVE Alone'
  <2>1. h \notin Elems(gq) /\ ~InHands(h)
    BY <1>9 DEF skynet_context_new, Lives, Found, Placed
  <2>2. lh' = [lh EXCEPT ![t] = h] /\ UNCHANGED <<gq, pc, q, cur>>
    BY <1>9 DEF skynet_context_new
  <2> QED BY <2>1, <2>2 DEF Alone, InHands, Types
<1>10. ASSUME NEW t \in Thread, NEW ok \in BOOLEAN, InitReturns(t, ok) PROVE Alone'
  BY <1>10 DEF InitReturns, Alone, InHands
<1>11. ASSUME NEW w \in Worker, Fetch(w) PROVE Alone'
  <2>1. CASE gq = <<>>
    <3>1. pc[w] # "pushback" /\ pc'[w] # "pushback"
      BY <1>11, <2>1 DEF Fetch, At, Goto, Types
    <3>2. /\ \A v \in Worker \ {w} : pc'[v] = pc[v] /\ cur'[v] = cur[v]
          /\ UNCHANGED <<gq, q, lh>>
      BY <1>11, <2>1 DEF Fetch, Goto, Types
    <3> QED BY <3>1, <3>2, AloneFrame
  <2>2. CASE gq # <<>>
    <3>1. /\ q[w] = Nil /\ pc[w] = "fetch" /\ q' = [q EXCEPT ![w] = Head(gq)]
          /\ gq' = Tail(gq) /\ pc' = [pc EXCEPT ![w] = "grab"] /\ UNCHANGED <<cur, lh>>
      BY <1>11, <2>2 DEF Fetch, At, Goto, Control, InHand
    <3>2. /\ Head(gq) \in Handle /\ Elems(gq) = Elems(gq') \cup {Head(gq)}
          /\ Distinct(gq') /\ Head(gq) \notin Elems(gq')
      BY <2>2, <3>1, TailElems DEF Types, Alone
    <3>3. ~InHands(Head(gq))
      BY <3>2 DEF Alone
    <3>4. \A v \in Worker : pc'[v] = "pushback" => pc[v] = "pushback" /\ v # w
      BY <3>1 DEF Types
    <3> QED BY <3>1, <3>2, <3>3, <3>4 DEF Alone, InHands, Types
  <2> QED BY <2>1, <2>2
<1>12. ASSUME NEW w \in Worker,
             \/ Wake(w) \/ Grab(w) \/ skynet_mq_length(w)
      PROVE  Alone'
  <2>1. pc[w] # "pushback" /\ pc'[w] # "pushback"
    BY <1>12 DEF Wake, Grab, skynet_mq_length, At, Goto, Types
  <2>2. /\ \A v \in Worker \ {w} : pc'[v] = pc[v] /\ cur'[v] = cur[v]
        /\ UNCHANGED <<gq, q, lh>>
    BY <1>12 DEF Wake, Grab, skynet_mq_length, Goto, Types
  <2> QED BY <2>1, <2>2, AloneFrame
<1>13. ASSUME NEW w \in Worker, skynet_mq_release(w) PROVE Alone'
  <2>1. q[w] \in Handle
    BY <1>13 DEF skynet_mq_release, At, Control, InHand, Types
  <2>2. CASE release[q[w]]
    <3>1. pc[w] # "pushback" /\ pc'[w] # "pushback"
      BY <1>13, <2>2 DEF skynet_mq_release, At, Goto, Types
    <3>2. /\ \A v \in Worker \ {w} : pc'[v] = pc[v] /\ cur'[v] = cur[v]
          /\ UNCHANGED <<gq, q, lh>>
      BY <1>13, <2>2 DEF skynet_mq_release, Goto, Types
    <3> QED BY <3>1, <3>2, AloneFrame
  <2>3. CASE ~release[q[w]]
    <3>1. /\ gq' = Append(gq, q[w]) /\ q' = [q EXCEPT ![w] = Nil] /\ pc[w] = "mqrelease"
          /\ pc' = [pc EXCEPT ![w] = "fetch"] /\ UNCHANGED <<cur, lh>>
      BY <1>13, <2>3 DEF skynet_mq_release, At, Goto
    <3>2. q[w] \notin Elems(gq)
      BY DEF Alone, InHands
    <3>3. Distinct(gq') /\ Elems(gq') = Elems(gq) \cup {q[w]}
      BY <2>1, <3>1, <3>2, AppendElems DEF Types, Alone
    <3>4. \A v \in Worker : pc'[v] = "pushback" => pc[v] = "pushback" /\ v # w
      BY <3>1 DEF Types
    <3>5. \A v \in Worker : q'[v] = IF v = w THEN Nil ELSE q[v]
      BY <3>1 DEF Types
    <3>6. ASSUME NEW h \in Handle, h = q[w] PROVE ~InHands(h)'
      BY <3>1, <3>4, <3>5, <3>6 DEF Alone, InHands
    <3>7. ASSUME NEW h \in Elems(gq) PROVE ~InHands(h)'
      <4>1. h \in Handle /\ ~InHands(h)
        BY <3>7, ElementOfSeq DEF Alone, Types, Elems
      <4> QED BY <3>1, <3>4, <3>5, <4>1 DEF InHands
    <3>8. \A v \in Worker : pc[v] = "pushback" => cur[v] # Nil
      BY DEF Control, InHand
    <3>9. \A h \in Elems(gq') : ~InHands(h)'
      BY <2>1, <3>3, <3>6, <3>7
    <3> QED BY <3>1, <3>3, <3>4, <3>5, <3>8, <3>9 DEF Alone
  <2> QED BY <2>2, <2>3
<1>14. ASSUME NEW w \in Worker, skynet_mq_pop(w) PROVE Alone'
  <2>1. pc[w] # "pushback" /\ pc'[w] # "pushback"
    BY <1>14 DEF skynet_mq_pop, At, Goto, Types
  <2>2. CASE queue[q[w]] = <<>>
    <3>1. /\ pc' = [pc EXCEPT ![w] = "release"] /\ q' = [q EXCEPT ![w] = Nil]
          /\ UNCHANGED <<gq, cur, lh>>
      BY <1>14, <2>2 DEF skynet_mq_pop, Goto
    <3> QED BY <2>1, <3>1, AloneGone
  <2>3. CASE queue[q[w]] # <<>>
    <3>1. /\ \A v \in Worker \ {w} : pc'[v] = pc[v] /\ cur'[v] = cur[v]
          /\ UNCHANGED <<gq, q, lh>>
      BY <1>14, <2>3 DEF skynet_mq_pop, Goto, Types
    <3> QED BY <2>1, <3>1, AloneFrame
  <2> QED BY <2>2, <2>3
<1>15. ASSUME NEW w \in Worker, CallbackReturns(w) PROVE Alone'
  <2>1. pc[w] # "pushback" /\ pc'[w] # "pushback"
    BY <1>15 DEF CallbackReturns, At, Goto, Types
  <2>2. /\ \A v \in Worker \ {w} : pc'[v] = pc[v] /\ cur'[v] = cur[v]
        /\ UNCHANGED <<gq, q, lh>>
    BY <1>15 DEF CallbackReturns, Goto, Types
  <2> QED BY <2>1, <2>2, AloneFrame
<1>16. ASSUME NEW w \in Worker, NextQueue(w) PROVE Alone'
  <2>1. CASE gq = <<>>
    <3>1. pc[w] # "pushback" /\ pc'[w] # "pushback"
      BY <1>16, <2>1 DEF NextQueue, At, Goto, Types
    <3>2. /\ \A v \in Worker \ {w} : pc'[v] = pc[v] /\ cur'[v] = cur[v]
          /\ UNCHANGED <<gq, q, lh>>
      BY <1>16, <2>1 DEF NextQueue, Goto, Types
    <3> QED BY <3>1, <3>2, AloneFrame
  <2>2. CASE gq # <<>>
    <3>1. /\ q[w] = cur[w] /\ cur[w] # Nil /\ pc[w] = "next"
          /\ q' = [q EXCEPT ![w] = Head(gq)]
          /\ gq' = Tail(gq) /\ pc' = [pc EXCEPT ![w] = "pushback"] /\ UNCHANGED <<cur, lh>>
      BY <1>16, <2>2 DEF NextQueue, At, Goto, Control, InHand
    <3>2. /\ Head(gq) \in Handle /\ Elems(gq) = Elems(gq') \cup {Head(gq)}
          /\ Distinct(gq') /\ Head(gq) \notin Elems(gq')
      BY <2>2, <3>1, TailElems DEF Types, Alone
    <3>3. ~InHands(Head(gq))
      BY <3>2 DEF Alone
    <3>4. \A v \in Worker : pc'[v] = "pushback" => pc[v] = "pushback" \/ v = w
      BY <3>1 DEF Types
    <3>5. \A v \in Worker : q'[v] = IF v = w THEN Head(gq) ELSE q[v]
      BY <3>1 DEF Types
    <3>6. \A h \in Elems(gq') : ~InHands(h)'
      BY <3>1, <3>2, <3>4, <3>5 DEF Alone, InHands
    <3>7. /\ \A u, v \in Worker : q'[u] = q'[v] /\ q'[u] # Nil => u = v
          /\ \A v \in Worker, t \in Thread : q'[v] # Nil => q'[v] # lh'[t]
      BY <3>1, <3>2, <3>3, <3>5 DEF Alone, InHands
    <3>8. ASSUME NEW u \in Worker, pc'[u] = "pushback"
          PROVE  /\ \A v \in Worker : cur'[u] # q'[v]
                 /\ \A v \in Worker : pc'[v] = "pushback" /\ cur'[v] = cur'[u] => v = u
                 /\ \A t \in Thread : cur'[u] # lh'[t]
      BY <3>1, <3>2, <3>3, <3>4, <3>5, <3>8 DEF Alone, InHands
    <3> QED BY <3>1, <3>2, <3>6, <3>7, <3>8 DEF Alone
  <2> QED BY <2>1, <2>2
<1>17. ASSUME NEW w \in Worker, PushBack(w) PROVE Alone'
  <2>1. /\ gq' = Append(gq, cur[w]) /\ pc[w] = "pushback"
        /\ pc' = [pc EXCEPT ![w] = "release"] /\ UNCHANGED <<q, cur, lh>>
    BY <1>17 DEF PushBack, At, Goto
  <2>2. cur[w] \in Handle
    BY <2>1 DEF Control, InHand, Types
  <2>3. cur[w] \notin Elems(gq)
    BY <2>1 DEF Alone, InHands
  <2>4. Distinct(gq') /\ Elems(gq') = Elems(gq) \cup {cur[w]}
    BY <2>1, <2>2, <2>3, AppendElems DEF Types, Alone
  <2>5. \A v \in Worker : pc'[v] = "pushback" => pc[v] = "pushback" /\ v # w
    BY <2>1 DEF Types
  <2>6. ~InHands(cur[w])' /\ \A h \in Elems(gq) : ~InHands(h)'
    BY <2>1, <2>5 DEF Alone, InHands
  <2> QED BY <2>1, <2>4, <2>5, <2>6 DEF Alone
<1>18. ASSUME NEW w \in Worker, ReleaseCurrent(w) PROVE Alone'
  <2>1. pc[w] # "pushback" /\ pc'[w] # "pushback"
    BY <1>18 DEF ReleaseCurrent, At, Goto, Types
  <2>2. /\ \A v \in Worker \ {w} : pc'[v] = pc[v] /\ cur'[v] = cur[v]
        /\ UNCHANGED <<gq, q, lh>>
    BY <1>18 DEF ReleaseCurrent, Goto, Types
  <2> QED BY <2>1, <2>2, AloneFrame
<1>19. ASSUME NEW t \in Thread, Publish(t) PROVE Alone'
  <2>1. /\ gq' = Append(gq, lh[t]) /\ lh' = [lh EXCEPT ![t] = Nil]
        /\ UNCHANGED <<pc, q, cur>>
    BY <1>19 DEF Publish
  <2>2. lh[t] \in Handle
    BY <1>19 DEF Publish, Control, Types
  <2> QED BY <2>1, <2>2, AloneLaunched
<1>20. ASSUME NEW t \in Thread, LaunchReturns(t) PROVE Alone'
  BY <1>20 DEF LaunchReturns, Alone, InHands
<1> QED
  BY <1>2, <1>3, <1>4, <1>5, <1>6, <1>7, <1>8, <1>9, <1>10, <1>11, <1>12,
     <1>13, <1>14, <1>15, <1>16, <1>17, <1>18, <1>19, <1>20
     DEF Next, KernelStep, ServiceStep, InitEnds, WorkerStep

LEMMA PlacedFrame ==
  ASSUME NEW w \in Worker, pc[w] # "pushback", pc'[w] # "pushback",
         \A v \in Worker \ {w} : pc'[v] = pc[v] /\ cur'[v] = cur[v],
         UNCHANGED <<gq, q, lh>>, NEW g \in Handle
  PROVE  Placed(g)' <=> Placed(g)
<1>1. \A v \in Worker : (pc'[v] = "pushback" /\ cur'[v] = g)
                          <=> (pc[v] = "pushback" /\ cur[v] = g)
  OBVIOUS
<1> QED BY <1>1 DEF Placed, InHands

(* A queue moves between the global queue and the hands of a worker. *)
LEMMA PlacedTaken ==
  ASSUME Types, gq # <<>>, NEW w \in Worker, NEW p,
         q' = [q EXCEPT ![w] = Head(gq)], gq' = Tail(gq),
         pc' = [pc EXCEPT ![w] = p], UNCHANGED <<cur, lh>>,
         pc[w] # "pushback",
         (q[w] = Nil /\ p # "pushback") \/ (q[w] = cur[w] /\ p = "pushback"),
         NEW g \in Handle, Nil \notin Handle
  PROVE  Placed(g)' <=> Placed(g)
<1>1. Elems(gq) = Elems(gq') \cup {Head(gq)}
  BY TailElems DEF Types
<1>2. \A v \in Worker : /\ q'[v] = (IF v = w THEN Head(gq) ELSE q[v])
                        /\ pc'[v] = (IF v = w THEN p ELSE pc[v])
  BY DEF Types
<1> QED BY <1>1, <1>2 DEF Placed, InHands

LEMMA PlacedGiven ==
  ASSUME Types, NEW w \in Worker, q[w] \in Handle, NEW p, p # "pushback",
         gq' = Append(gq, q[w]), q' = [q EXCEPT ![w] = Nil],
         pc' = [pc EXCEPT ![w] = p], pc[w] # "pushback", UNCHANGED <<cur, lh>>,
         NEW g \in Handle, Nil \notin Handle
  PROVE  Placed(g)' <=> Placed(g)
<1>1. Elems(gq') = Elems(gq) \cup {q[w]}
  BY AppendElems DEF Types
<1>2. \A v \in Worker : /\ q'[v] = (IF v = w THEN Nil ELSE q[v])
                        /\ pc'[v] = (IF v = w THEN p ELSE pc[v])
  BY DEF Types
<1> QED BY <1>1, <1>2 DEF Placed, InHands

LEMMA PlacedLaunched ==
  ASSUME Types, NEW t \in Thread, lh[t] \in Handle,
         gq' = Append(gq, lh[t]), lh' = [lh EXCEPT ![t] = Nil],
         UNCHANGED <<pc, q, cur>>, NEW g \in Handle, Nil \notin Handle
  PROVE  Placed(g)' <=> Placed(g)
<1>1. Elems(gq') = Elems(gq) \cup {lh[t]}
  BY AppendElems DEF Types
<1>2. \A u \in Thread : lh'[u] = (IF u = t THEN Nil ELSE lh[u])
  BY DEF Types
<1> QED BY <1>1, <1>2 DEF Placed, InHands

LEMMA PlacedGone ==
  ASSUME Types, Alone, NEW w \in Worker, q[w] \in Handle, NEW p, p # "pushback",
         q' = [q EXCEPT ![w] = Nil], pc' = [pc EXCEPT ![w] = p], pc[w] # "pushback",
         UNCHANGED <<gq, cur, lh>>, NEW g \in Handle, Nil \notin Handle
  PROVE  Placed(g)' <=> Placed(g) /\ g # q[w]
<1>1. \A v \in Worker : /\ q'[v] = (IF v = w THEN Nil ELSE q[v])
                        /\ pc'[v] = (IF v = w THEN p ELSE pc[v])
  BY DEF Types
<1>2. CASE g = q[w]
  BY <1>1, <1>2 DEF Placed, InHands, Alone
<1>3. CASE g # q[w]
  BY <1>1, <1>3 DEF Placed, InHands
<1> QED BY <1>2, <1>3

LEMMA FoundStep ==
  ASSUME KernelInv, Next
  PROVE  Found'
<1>1. Types /\ Control /\ Alone /\ Found /\ Counted /\ Lives
  BY DEF KernelInv
<1> USE <1>1, HandleAssumption
<1> USE DEF ctxvars, mqvars, wvars, lvars, hist
<1>2. ASSUME NEW t \in Thread, skynet_mq_push(t) PROVE Found'
  <2> DEFINE h == sub[t].h
  <2>1. h \in Handle /\ mem[h] = "alive"
    BY <1>2, CallLives DEF skynet_mq_push
  <2>2. Elems(gq') = IF in_global[h] THEN Elems(gq) ELSE Elems(gq) \cup {h}
    <3>1. gq \in Seq(Handle)
      BY DEF Types
    <3>2. Elems(Append(gq, h)) = Elems(gq) \cup {h}
      BY <2>1, <3>1, AppendElems
    <3>3. gq' = IF in_global[h] THEN gq ELSE Append(gq, h)
      BY <1>2 DEF skynet_mq_push
    <3> QED BY <3>2, <3>3
  <2>3. \A g \in Handle : Placed(g)' <=> Placed(g) \/ g = h
    BY <1>2, <2>1, <2>2 DEF skynet_mq_push, Found, Placed, InHands
  <2> QED BY <1>2, <2>1, <2>3 DEF skynet_mq_push, Found, Types
<1>3. ASSUME NEW t \in Thread,
             \/ skynet_context_release(t) \/ SetInit(t) \/ FailRetire(t)
      PROVE  Found'
  BY <1>3 DEF skynet_context_release, SetInit, FailRetire, Found, Placed, InHands
<1>4. ASSUME NEW t \in Thread, delete_context(t) PROVE Found'
  <2> DEFINE h == sub[t].h
  <2>1. h \in Handle /\ mem[h] = "alive"
    BY <1>4, CallLives DEF delete_context
  <2>2. Elems(gq') = IF in_global[h] THEN Elems(gq) ELSE Elems(gq) \cup {h}
    <3>1. gq \in Seq(Handle)
      BY DEF Types
    <3>2. Elems(Append(gq, h)) = Elems(gq) \cup {h}
      BY <2>1, <3>1, AppendElems
    <3>3. gq' = IF in_global[h] THEN gq ELSE Append(gq, h)
      BY <1>4 DEF delete_context
    <3> QED BY <3>2, <3>3
  <2>3. \A g \in Handle : Placed(g)' <=> Placed(g) \/ g = h
    BY <1>4, <2>1, <2>2 DEF delete_context, Found, Placed, InHands
  <2> QED BY <1>4, <2>1, <2>3 DEF delete_context, Found, Types
<1>5. ASSUME NEW t \in Thread, Enqueue(t) PROVE Found'
  <2>1. /\ gq' = Append(gq, lh[t]) /\ lh' = [lh EXCEPT ![t] = Nil]
        /\ UNCHANGED <<pc, q, cur>>
    BY <1>5 DEF Enqueue, LaunchDone
  <2>2. lh[t] \in Handle
    BY <1>5 DEF Enqueue, Control, Types
  <2>3. \A g \in Handle : Placed(g)' <=> Placed(g)
    BY <2>1, <2>2, PlacedLaunched
  <2> QED BY <1>5, <2>3 DEF Enqueue, Found
<1>6. ASSUME NEW t \in Thread, FailMqRelease(t) PROVE Found'
  <2>1. lh[t] \in Handle
    BY <1>6 DEF FailMqRelease, Control, Types
  <2>2. CASE release[lh[t]]
    BY <1>6, <2>2 DEF FailMqRelease, Found, Placed, InHands
  <2>3. CASE ~release[lh[t]]
    <3>1. /\ gq' = Append(gq, lh[t]) /\ lh' = [lh EXCEPT ![t] = Nil]
          /\ UNCHANGED <<pc, q, cur>>
      BY <1>6, <2>3 DEF FailMqRelease, LaunchDone
    <3>2. \A g \in Handle : Placed(g)' <=> Placed(g)
      BY <2>1, <3>1, PlacedLaunched
    <3> QED BY <1>6, <3>2 DEF FailMqRelease, Found
  <2> QED BY <2>2, <2>3
<1>7. ASSUME NEW t \in Thread, drop_message(t) PROVE Found'
  <2> DEFINE h == Dropping(t)
  <2>1. h \in Handle /\ Placed(h)
    BY <1>7 DEF drop_message, InDrop, Dropping, Control, InHand, Types, Placed, InHands
  <2>2. \A g \in Handle : Placed(g)' <=> Placed(g)
    BY <1>7 DEF drop_message, Placed, InHands
  <2>3. \A g \in Handle \ {h} : queue'[g] = queue[g]
    BY <1>7, <2>1 DEF drop_message, Types
  <2> QED BY <1>7, <2>1, <2>2, <2>3 DEF drop_message, Found
<1>8. ASSUME NEW t \in Thread, _release(t) PROVE Found'
  <2> DEFINE h == Dropping(t)
  <2>1. h \in Handle
    BY <1>8 DEF _release, InDrop, Dropping, Control, InHand, Types
  <2>2. \A g \in Handle : Placed(g)' <=> Placed(g) /\ g # h
    <3>1. CASE lpc[t] = "drop"
      <4>1. /\ h = lh[t] /\ lh' = [lh EXCEPT ![t] = Nil]
            /\ UNCHANGED <<gq, pc, q, cur>>
        BY <1>8, <3>1 DEF _release, LaunchDone, Dropping
      <4>2. \A u \in Thread : lh'[u] = (IF u = t THEN Nil ELSE lh[u])
        BY <4>1 DEF Types
      <4>3. ASSUME NEW g \in Handle, g = h PROVE ~Placed(g)'
        BY <2>1, <4>1, <4>2, <4>3 DEF Placed, InHands, Alone
      <4>4. ASSUME NEW g \in Handle, g # h PROVE Placed(g)' <=> Placed(g)
        BY <2>1, <4>1, <4>2, <4>4 DEF Placed, InHands
      <4> QED BY <4>3, <4>4
    <3>2. CASE lpc[t] # "drop"
      <4>1. t \in Worker /\ pc[t] = "drop" /\ h = q[t]
        BY <1>8, <3>2 DEF _release, InDrop, Dropping
      <4>2. /\ pc' = [pc EXCEPT ![t] = "fetch"] /\ q' = [q EXCEPT ![t] = Nil]
            /\ UNCHANGED <<gq, cur, lh>>
        BY <1>8, <3>2 DEF _release
      <4> QED BY <2>1, <4>1, <4>2, PlacedGone
    <3> QED BY <3>1, <3>2
  <2> QED BY <1>8, <2>1, <2>2 DEF _release, Found, Types
<1>9. ASSUME NEW t \in Thread, NEW h \in Handle,
             \/ skynet_send(t, h) \/ skynet_handle_retire(t, h)
      PROVE  Found'
  BY <1>9 DEF skynet_send, skynet_handle_retire, Found, Placed, InHands
<1>10. ASSUME NEW t \in Thread, NEW h \in Handle, skynet_context_new(t, h) PROVE Found'
  <2>1. ~Placed(h) /\ mem[h] = "none" /\ lh[t] = Nil
    BY <1>10 DEF skynet_context_new, Lives, Found, Control
  <2>2. lh' = [lh EXCEPT ![t] = h] /\ UNCHANGED <<gq, pc, q, cur>>
    BY <1>10 DEF skynet_context_new
  <2>3. \A u \in Thread : lh'[u] = (IF u = t THEN h ELSE lh[u])
    BY <2>2 DEF Types
  <2>4. \A g \in Handle : Placed(g)' <=> Placed(g) \/ g = h
    BY <2>1, <2>2, <2>3 DEF Placed, InHands
  <2> QED BY <1>10, <2>1, <2>4 DEF skynet_context_new, Found, Types
<1>11. ASSUME NEW t \in Thread, NEW ok \in BOOLEAN, InitReturns(t, ok) PROVE Found'
  BY <1>11 DEF InitReturns, Found, Placed, InHands
<1>12. ASSUME NEW w \in Worker, Fetch(w) PROVE Found'
  <2>2. CASE gq = <<>>
    <3>1. pc[w] # "pushback" /\ pc'[w] # "pushback"
      BY <1>12, <2>2 DEF Fetch, At, Goto, Types
    <3>2. /\ \A v \in Worker \ {w} : pc'[v] = pc[v] /\ cur'[v] = cur[v]
          /\ UNCHANGED <<gq, q, lh>>
      BY <1>12, <2>2 DEF Fetch, Goto, Types
    <3>3. \A g \in Handle : Placed(g)' <=> Placed(g)
      BY <3>1, <3>2, PlacedFrame
    <3> QED BY <1>12, <3>3 DEF Fetch, Found
  <2>3. CASE ~(gq = <<>>)
    <3>1. /\ q[w] = Nil /\ pc[w] = "fetch" /\ q' = [q EXCEPT ![w] = Head(gq)]
          /\ gq' = Tail(gq) /\ pc' = [pc EXCEPT ![w] = "grab"] /\ UNCHANGED <<cur, lh>>
      BY <1>12, <2>3 DEF Fetch, At, Goto, Control, InHand
    <3>2. \A g \in Handle : Placed(g)' <=> Placed(g)
      BY <2>3, <3>1, PlacedTaken
    <3> QED BY <1>12, <3>2 DEF Fetch, Found
  <2> QED BY <2>2, <2>3
<1>13. ASSUME NEW w \in Worker,
             \/ Wake(w) \/ Grab(w) \/ skynet_mq_length(w)
      PROVE  Found'
  <2>1. pc[w] # "pushback" /\ pc'[w] # "pushback"
    BY <1>13 DEF Wake, Grab, skynet_mq_length, At, Goto, Types
  <2>2. /\ \A v \in Worker \ {w} : pc'[v] = pc[v] /\ cur'[v] = cur[v]
        /\ UNCHANGED <<gq, q, lh>>
    BY <1>13 DEF Wake, Grab, skynet_mq_length, Goto, Types
  <2>3. \A g \in Handle : Placed(g)' <=> Placed(g)
    BY <2>1, <2>2, PlacedFrame
  <2> QED BY <1>13, <2>3 DEF Wake, Grab, skynet_mq_length, Found
<1>14. ASSUME NEW w \in Worker, skynet_mq_release(w) PROVE Found'
  <2>1. q[w] \in Handle
    BY <1>14 DEF skynet_mq_release, At, Control, InHand, Types
  <2>2. CASE release[q[w]]
    <3>1. pc[w] # "pushback" /\ pc'[w] # "pushback"
      BY <1>14, <2>2 DEF skynet_mq_release, At, Goto, Types
    <3>2. /\ \A v \in Worker \ {w} : pc'[v] = pc[v] /\ cur'[v] = cur[v]
          /\ UNCHANGED <<gq, q, lh>>
      BY <1>14, <2>2 DEF skynet_mq_release, Goto, Types
    <3>3. \A g \in Handle : Placed(g)' <=> Placed(g)
      BY <3>1, <3>2, PlacedFrame
    <3> QED BY <1>14, <3>3 DEF skynet_mq_release, Found
  <2>3. CASE ~(release[q[w]])
    <3>1. /\ gq' = Append(gq, q[w]) /\ q' = [q EXCEPT ![w] = Nil] /\ pc[w] = "mqrelease"
          /\ pc' = [pc EXCEPT ![w] = "fetch"] /\ UNCHANGED <<cur, lh>>
      BY <1>14, <2>3 DEF skynet_mq_release, At, Goto
    <3>2. \A g \in Handle : Placed(g)' <=> Placed(g)
      BY <2>1, <3>1, PlacedGiven
    <3> QED BY <1>14, <3>2 DEF skynet_mq_release, Found
  <2> QED BY <2>2, <2>3
<1>15. ASSUME NEW w \in Worker, skynet_mq_pop(w) PROVE Found'
  <2>1. q[w] \in Handle /\ cur[w] = q[w] /\ pc[w] # "pushback"
    BY <1>15 DEF skynet_mq_pop, At, Control, InHand, Types
  <2>2. CASE queue[q[w]] = <<>>
    <3>1. /\ q' = [q EXCEPT ![w] = Nil] /\ pc' = [pc EXCEPT ![w] = "release"]
          /\ UNCHANGED <<gq, cur, lh>>
      BY <1>15, <2>2 DEF skynet_mq_pop, Goto
    <3>2. \A g \in Handle : Placed(g)' <=> Placed(g) /\ g # q[w]
      BY <2>1, <3>1, PlacedGone
    <3>3. ~release[q[w]]
      BY <2>1, CountFacts DEF Users, Lives
    <3> QED BY <1>15, <2>1, <2>2, <3>2, <3>3 DEF skynet_mq_pop, Found, Types
  <2>3. CASE ~(queue[q[w]] = <<>>)
    <3>1. /\ \A v \in Worker \ {w} : pc'[v] = pc[v] /\ cur'[v] = cur[v]
          /\ UNCHANGED <<gq, q, lh>> 
      BY <1>15, <2>3 DEF skynet_mq_pop, Goto, Types
    <3>2. pc'[w] # "pushback"
      BY <1>15, <2>3 DEF skynet_mq_pop, Goto, Types
    <3>3. \A g \in Handle : Placed(g)' <=> Placed(g)
      BY <2>1, <3>1, <3>2, PlacedFrame
    <3>4. \A g \in Handle \ {q[w]} : queue'[g] = queue[g]
      BY <1>15, <2>1, <2>3 DEF skynet_mq_pop, Types
    <3>5. Placed(q[w])
      BY DEF Placed, InHands
    <3> QED BY <1>15, <2>1, <2>3, <3>3, <3>4, <3>5 DEF skynet_mq_pop, Found
  <2> QED BY <2>2, <2>3
<1>16. ASSUME NEW w \in Worker, CallbackReturns(w) PROVE Found'
  <2>1. pc[w] # "pushback" /\ pc'[w] # "pushback"
    BY <1>16 DEF CallbackReturns, At, Goto, Types
  <2>2. /\ \A v \in Worker \ {w} : pc'[v] = pc[v] /\ cur'[v] = cur[v]
        /\ UNCHANGED <<gq, q, lh>>
    BY <1>16 DEF CallbackReturns, Goto, Types
  <2>3. \A g \in Handle : Placed(g)' <=> Placed(g)
    BY <2>1, <2>2, PlacedFrame
  <2> QED BY <1>16, <2>3 DEF CallbackReturns, Found
<1>17. ASSUME NEW w \in Worker, NextQueue(w) PROVE Found'
  <2>2. CASE gq = <<>>
    <3>1. pc[w] # "pushback" /\ pc'[w] # "pushback"
      BY <1>17, <2>2 DEF NextQueue, At, Goto, Types
    <3>2. /\ \A v \in Worker \ {w} : pc'[v] = pc[v] /\ cur'[v] = cur[v]
          /\ UNCHANGED <<gq, q, lh>>
      BY <1>17, <2>2 DEF NextQueue, Goto, Types
    <3>3. \A g \in Handle : Placed(g)' <=> Placed(g)
      BY <3>1, <3>2, PlacedFrame
    <3> QED BY <1>17, <3>3 DEF NextQueue, Found
  <2>3. CASE ~(gq = <<>>)
    <3>1. /\ q[w] = cur[w] /\ pc[w] = "next" /\ q' = [q EXCEPT ![w] = Head(gq)]
          /\ gq' = Tail(gq) /\ pc' = [pc EXCEPT ![w] = "pushback"] /\ UNCHANGED <<cur, lh>>
      BY <1>17, <2>3 DEF NextQueue, At, Goto, Control, InHand
    <3>2. \A g \in Handle : Placed(g)' <=> Placed(g)
      BY <2>3, <3>1, PlacedTaken
    <3> QED BY <1>17, <3>2 DEF NextQueue, Found
  <2> QED BY <2>2, <2>3
<1>18. ASSUME NEW w \in Worker, PushBack(w) PROVE Found'
  <2>1. /\ gq' = Append(gq, cur[w]) /\ pc[w] = "pushback"
        /\ pc' = [pc EXCEPT ![w] = "release"] /\ UNCHANGED <<q, cur, lh>>
    BY <1>18 DEF PushBack, At, Goto
  <2>2. cur[w] \in Handle
    BY <2>1 DEF Control, InHand, Types
  <2>3. Elems(gq') = Elems(gq) \cup {cur[w]}
    BY <2>1, <2>2, AppendElems DEF Types
  <2>4. \A v \in Worker : pc'[v] = (IF v = w THEN "release" ELSE pc[v])
    BY <2>1 DEF Types
  <2>5. \A g \in Handle : Placed(g)' <=> Placed(g)
    BY <2>1, <2>3, <2>4 DEF Placed, InHands
  <2> QED BY <1>18, <2>5 DEF PushBack, Found
<1>19. ASSUME NEW w \in Worker, ReleaseCurrent(w) PROVE Found'
  <2>1. pc[w] # "pushback" /\ pc'[w] # "pushback"
    BY <1>19 DEF ReleaseCurrent, At, Goto, Types
  <2>2. /\ \A v \in Worker \ {w} : pc'[v] = pc[v] /\ cur'[v] = cur[v]
        /\ UNCHANGED <<gq, q, lh>>
    BY <1>19 DEF ReleaseCurrent, Goto, Types
  <2>3. \A g \in Handle : Placed(g)' <=> Placed(g)
    BY <2>1, <2>2, PlacedFrame
  <2> QED BY <1>19, <2>3 DEF ReleaseCurrent, Found
<1>20. ASSUME NEW t \in Thread, Publish(t) PROVE Found'
  <2>1. /\ gq' = Append(gq, lh[t]) /\ lh' = [lh EXCEPT ![t] = Nil]
        /\ UNCHANGED <<pc, q, cur>>
    BY <1>20 DEF Publish
  <2>2. lh[t] \in Handle
    BY <1>20 DEF Publish, Control, Types
  <2>3. \A g \in Handle : Placed(g)' <=> Placed(g)
    BY <2>1, <2>2, PlacedLaunched
  <2> QED BY <1>20, <2>3 DEF Publish, Found
<1>21. ASSUME NEW t \in Thread, LaunchReturns(t) PROVE Found'
  BY <1>21 DEF LaunchReturns, Found, Placed, InHands
<1> QED
  BY <1>2, <1>3, <1>4, <1>5, <1>6, <1>7, <1>8, <1>9, <1>10, <1>11, <1>12,
     <1>13, <1>14, <1>15, <1>16, <1>17, <1>18, <1>19, <1>20, <1>21
     DEF Next, KernelStep, ServiceStep, InitEnds, WorkerStep

LEMMA SubChange ==
  ASSUME Types, NEW t \in Thread, NEW c, sub' = [sub EXCEPT ![t] = c], NEW g \in Handle
  PROVE  /\ Grabs(g)' = IF c.op \in {"push", "release"} /\ c.h = g
                        THEN Grabs(g) \cup {t} ELSE Grabs(g) \ {t}
         /\ Marks(g)' = IF c.op = "mark" /\ c.h = g
                        THEN Marks(g) \cup {t} ELSE Marks(g) \ {t}
<1>1. \A u \in Thread : sub'[u] = IF u = t THEN c ELSE sub[u]
  BY DEF Types
<1> QED BY <1>1 DEF Grabs, Marks

LEMMA DecRefSub ==
  ASSUME Types, NEW t \in Thread, NEW h \in Handle, DecRef(t, h), NEW g \in Handle
  PROVE  /\ Grabs(g)' = Grabs(g) \ {t}
         /\ Marks(g)' = IF ref[h] = 1 /\ g = h THEN Marks(g) \cup {t} ELSE Marks(g) \ {t}
<1>1. PICK c \in {NoCall, [op |-> "mark", h |-> h]} :
        /\ c = IF ref[h] = 1 THEN [op |-> "mark", h |-> h] ELSE NoCall
        /\ sub' = [sub EXCEPT ![t] = c]
  BY DEF DecRef
<1>2. c.op = (IF ref[h] = 1 THEN "mark" ELSE "none") /\ (ref[h] = 1 => c.h = h)
  BY <1>1 DEF NoCall
<1>3. /\ Grabs(g)' = IF c.op \in {"push", "release"} /\ c.h = g
                     THEN Grabs(g) \cup {t} ELSE Grabs(g) \ {t}
      /\ Marks(g)' = IF c.op = "mark" /\ c.h = g
                     THEN Marks(g) \cup {t} ELSE Marks(g) \ {t}
  <2>1. sub' = [sub EXCEPT ![t] = c]
    BY <1>1
  <2> QED BY ONLY <2>1, Types, t \in Thread, g \in Handle, SubChange
<1> QED BY <1>2, <1>3

(* The calls of a thread. *)
LEMMA CallOf ==
  ASSUME Types, NEW t \in Thread, NEW g \in Handle
  PROVE  /\ t \in Grabs(g) <=> sub[t].op \in {"push", "release"} /\ sub[t].h = g
         /\ t \in Marks(g) <=> sub[t].op = "mark" /\ sub[t].h = g
         /\ sub[t] = NoCall => t \notin Grabs(g) /\ t \notin Marks(g)
         /\ Grabs(g) \in SUBSET Thread /\ Users(g) \in SUBSET Thread
         /\ Creators(g) \in SUBSET Thread
BY DEF Grabs, Marks, Users, Creators, NoCall, Thread

LEMMA CountedFrame ==
  ASSUME Counted, UNCHANGED <<registered, ref, ctx>>,
         \A g \in Handle : /\ Grabs(g)' = Grabs(g) /\ Users(g)' = Users(g)
                           /\ Creators(g)' = Creators(g) /\ Marks(g)' = Marks(g)
  PROVE  Counted'
<1>1. \A g \in Handle : References(g)' = References(g)
  BY DEF References
<1> QED BY <1>1 DEF Counted

(* A reference more, to a context that is found in the handle table. *)
LEMMA CountedGain ==
  ASSUME Types, Counted, NEW h \in registered, ref' = [ref EXCEPT ![h] = @ + 1],
         UNCHANGED <<registered, ctx>>,
         \A g \in Handle : Marks(g)' = Marks(g),
         \A g \in Handle \ {h} : References(g)' = References(g),
         References(h)' = References(h) + 1
  PROVE  Counted'
<1>1. h \in Handle /\ ref[h] > 0 /\ ctx[h] = "alive" /\ Marks(h) = {}
  BY CountFacts DEF Types
<1> QED BY <1>1 DEF Counted, Types

(* A reference less; the last one leaves a mark. *)
LEMMA CountedDrop ==
  ASSUME Types, Counted, NEW t \in Thread, NEW h \in Handle, ref[h] > 0, DecRef(t, h),
         \A g \in Handle : t \notin Marks(g),
         UNCHANGED <<registered, ctx>>,
         \A g \in Handle \ {h} : References(g)' = References(g),
         References(h)' = References(h) - 1
  PROVE  Counted'
<1>1. ctx[h] = "alive" /\ Marks(h) = {} /\ ref[h] \in Nat
  <2>1. ref[h] \in Nat /\ (Marks(h) # {} => ref[h] = 0)
    BY DEF Counted, Types
  <2>2. Marks(h) = {}
    BY <2>1
  <2> QED BY <2>1, <2>2 DEF Counted
<1>2. ASSUME NEW g \in Handle
      PROVE  Marks(g)' = IF g = h /\ ref[h] = 1 THEN {t} ELSE Marks(g)
  <2>1. Marks(g)' = IF ref[h] = 1 /\ g = h THEN Marks(g) \cup {t} ELSE Marks(g) \ {t}
    BY DecRefSub
  <2>2. t \notin Marks(g)
    OBVIOUS
  <2> QED BY <1>1, <2>1, <2>2
<1>3. ref' = [ref EXCEPT ![h] = @ - 1]
  BY DEF DecRef
<1>4. ASSUME NEW g \in Handle \ {h}
      PROVE  ref'[g] = ref[g] /\ Marks(g)' = Marks(g) /\ ctx'[g] = ctx[g]
  BY <1>2, <1>3, <1>4 DEF Types
<1>5. ref'[h] = ref[h] - 1 /\ ctx'[h] = "alive"
  BY <1>1, <1>3 DEF Types
<1>6. /\ ref'[h] > 0 => Marks(h)' = {}
      /\ ref'[h] = 0 => Marks(h)' = {t}
  BY <1>1, <1>2, <1>5
<1> QED BY <1>1, <1>4, <1>5, <1>6 DEF Counted

LEMMA ReferencesChange ==
  ASSUME Types, NEW h \in Handle, NEW t \in Thread, UNCHANGED registered,
         Grabs(h) \in SUBSET Thread, Users(h) \in SUBSET Thread,
         Creators(h) \in SUBSET Thread
  PROVE  /\ /\ Grabs(h)' = Grabs(h) \cup {t} /\ t \notin Grabs(h)
            /\ Users(h)' = Users(h) /\ Creators(h)' = Creators(h)
            => References(h)' = References(h) + 1
         /\ /\ Users(h)' = Users(h) \cup {t} /\ t \notin Users(h)
            /\ Grabs(h)' = Grabs(h) /\ Creators(h)' = Creators(h)
            => References(h)' = References(h) + 1
         /\ /\ Grabs(h)' = Grabs(h) \ {t} /\ t \in Grabs(h)
            /\ Users(h)' = Users(h) /\ Creators(h)' = Creators(h)
            => References(h)' = References(h) - 1
         /\ /\ Users(h)' = Users(h) \ {t} /\ t \in Users(h)
            /\ Grabs(h)' = Grabs(h) /\ Creators(h)' = Creators(h)
            => References(h)' = References(h) - 1
         /\ /\ Creators(h)' = Creators(h) \ {t} /\ t \in Creators(h)
            /\ Grabs(h)' = Grabs(h) /\ Users(h)' = Users(h)
            => References(h)' = References(h) - 1
<1>1. PICK n \in Nat : n = IF h \in registered THEN 1 ELSE 0
  OBVIOUS
<1>2. /\ References(h) = n + Cardinality(Grabs(h)) + Cardinality(Users(h))
                           + Cardinality(Creators(h))
      /\ References(h)' = n + Cardinality(Grabs(h)') + Cardinality(Users(h)')
                            + Cardinality(Creators(h)')
  BY <1>1 DEF References
<1>3. /\ Cardinality(Grabs(h)) \in Nat /\ Cardinality(Users(h)) \in Nat
      /\ Cardinality(Creators(h)) \in Nat
      /\ t \notin Grabs(h) => Cardinality(Grabs(h) \cup {t}) = Cardinality(Grabs(h)) + 1
      /\ t \notin Users(h) => Cardinality(Users(h) \cup {t}) = Cardinality(Users(h)) + 1
      /\ t \in Grabs(h) => Cardinality(Grabs(h) \ {t}) = Cardinality(Grabs(h)) - 1
      /\ t \in Users(h) => Cardinality(Users(h) \ {t}) = Cardinality(Users(h)) - 1
      /\ t \in Creators(h) => Cardinality(Creators(h) \ {t}) = Cardinality(Creators(h)) - 1
  BY Cards
<1>4. ASSUME Grabs(h)' = Grabs(h) \cup {t}, t \notin Grabs(h),
             Users(h)' = Users(h), Creators(h)' = Creators(h)
      PROVE  References(h)' = References(h) + 1
  <2>1. Cardinality(Grabs(h)') = Cardinality(Grabs(h)) + 1
    BY <1>3, <1>4
  <2> QED BY <1>2, <1>3, <1>4, <2>1
<1>5. ASSUME Users(h)' = Users(h) \cup {t}, t \notin Users(h),
             Grabs(h)' = Grabs(h), Creators(h)' = Creators(h)
      PROVE  References(h)' = References(h) + 1
  <2>1. Cardinality(Users(h)') = Cardinality(Users(h)) + 1
    BY <1>3, <1>5
  <2> QED BY <1>2, <1>3, <1>5, <2>1
<1>6. ASSUME Grabs(h)' = Grabs(h) \ {t}, t \in Grabs(h),
             Users(h)' = Users(h), Creators(h)' = Creators(h)
      PROVE  References(h)' = References(h) - 1
  <2>1. Cardinality(Grabs(h)') = Cardinality(Grabs(h)) - 1
    BY <1>3, <1>6
  <2> QED BY <1>2, <1>3, <1>6, <2>1
<1>7. ASSUME Users(h)' = Users(h) \ {t}, t \in Users(h),
             Grabs(h)' = Grabs(h), Creators(h)' = Creators(h)
      PROVE  References(h)' = References(h) - 1
  <2>1. Cardinality(Users(h)') = Cardinality(Users(h)) - 1
    BY <1>3, <1>7
  <2> QED BY <1>2, <1>3, <1>7, <2>1
<1>8. ASSUME Creators(h)' = Creators(h) \ {t}, t \in Creators(h),
             Grabs(h)' = Grabs(h), Users(h)' = Users(h)
      PROVE  References(h)' = References(h) - 1
  <2>1. Cardinality(Creators(h)') = Cardinality(Creators(h)) - 1
    BY <1>3, <1>8
  <2> QED BY <1>2, <1>3, <1>8, <2>1
<1> QED BY <1>4, <1>5, <1>6, <1>7, <1>8

(* skynet_handle_grab counts the reference of the call it begins. *)
LEMMA CountedGrab ==
  ASSUME Types, Counted, NEW t \in Thread, sub[t] = NoCall, NEW h, NEW m,
         skynet_handle_grab(t, h, m), UNCHANGED <<registered, ctx, cur, lpc, lh>>
  PROVE  Counted'
<1>1. \A g \in Handle : Users(g)' = Users(g) /\ Creators(g)' = Creators(g)
  BY DEF Users, Creators
<1>2. CASE h \notin registered
  <2>1. UNCHANGED <<ref, sub>>
    BY <1>2 DEF skynet_handle_grab
  <2> QED BY <1>1, <2>1, CountedFrame DEF Grabs, Marks
<1>3. CASE h \in registered
  <2> DEFINE c == [op |-> "push", h |-> h, msg |-> m]
  <2>1. ref' = [ref EXCEPT ![h] = @ + 1] /\ sub' = [sub EXCEPT ![t] = c] /\ h \in Handle
    BY <1>3 DEF skynet_handle_grab, Types
  <2>2. c.op = "push" /\ c.h = h
    OBVIOUS
  <2> HIDE DEF c
  <2>3. \A g \in Handle : /\ t \notin Grabs(g) /\ t \notin Marks(g)
                          /\ Grabs(g) \in SUBSET Thread /\ Users(g) \in SUBSET Thread
                          /\ Creators(g) \in SUBSET Thread
    BY CallOf
  <2>4. ASSUME NEW g \in Handle
        PROVE  /\ Marks(g)' = Marks(g)
               /\ Grabs(g)' = IF g = h THEN Grabs(g) \cup {t} ELSE Grabs(g)
    <3>1. /\ Grabs(g)' = IF c.op \in {"push", "release"} /\ c.h = g
                         THEN Grabs(g) \cup {t} ELSE Grabs(g) \ {t}
          /\ Marks(g)' = IF c.op = "mark" /\ c.h = g
                         THEN Marks(g) \cup {t} ELSE Marks(g) \ {t}
      BY <2>1, SubChange
    <3> QED BY <2>2, <2>3, <3>1
  <2>5. \A g \in Handle \ {h} : References(g)' = References(g)
    BY <1>1, <2>4 DEF References
  <2>6. References(h)' = References(h) + 1
    BY <1>1, <2>1, <2>3, <2>4, ReferencesChange
  <2> QED BY <1>3, <2>1, <2>4, <2>5, <2>6, CountedGain
<1> QED BY <1>2, <1>3

(* The slot of the handle table becomes the reference of the call. *)
LEMMA CountedRetire ==
  ASSUME Types, Counted, NEW t \in Thread, sub[t] = NoCall,
         NEW h \in Handle, h \in registered, registered' = registered \ {h},
         sub' = [sub EXCEPT ![t] = [op |-> "release", h |-> h]],
         UNCHANGED <<ref, ctx, cur>>,
         \A g \in Handle : Creators(g)' = Creators(g)
  PROVE  Counted'
<1> DEFINE c == [op |-> "release", h |-> h]
<1>1. c.op = "release" /\ c.h = h /\ sub' = [sub EXCEPT ![t] = c]
  OBVIOUS
<1> HIDE DEF c
<1>2. \A g \in Handle : /\ t \notin Grabs(g) /\ t \notin Marks(g)
                        /\ Grabs(g) \in SUBSET Thread /\ Users(g) \in SUBSET Thread
                        /\ Creators(g) \in SUBSET Thread
  BY CallOf
<1>3. ASSUME NEW g \in Handle
      PROVE  /\ Marks(g)' = Marks(g) /\ Users(g)' = Users(g)
             /\ Grabs(g)' = IF g = h THEN Grabs(g) \cup {t} ELSE Grabs(g)
  <2>1. /\ Grabs(g)' = IF c.op \in {"push", "release"} /\ c.h = g
                       THEN Grabs(g) \cup {t} ELSE Grabs(g) \ {t}
        /\ Marks(g)' = IF c.op = "mark" /\ c.h = g
                       THEN Marks(g) \cup {t} ELSE Marks(g) \ {t}
    BY <1>1, SubChange
  <2> QED BY <1>1, <1>2, <2>1 DEF Users
<1>4. \A g \in Handle \ {h} : References(g)' = References(g)
  BY <1>3 DEF References
<1>5. References(h)' = References(h)
  <2>1. /\ Cardinality(Grabs(h) \cup {t}) = Cardinality(Grabs(h)) + 1
        /\ Cardinality(Grabs(h)) \in Nat /\ Cardinality(Users(h)) \in Nat
        /\ Cardinality(Creators(h)) \in Nat
    BY <1>2, Cards
  <2>2. /\ References(h)' = 0 + Cardinality(Grabs(h) \cup {t}) + Cardinality(Users(h))
                              + Cardinality(Creators(h))
        /\ References(h) = 1 + Cardinality(Grabs(h)) + Cardinality(Users(h))
                             + Cardinality(Creators(h))
    BY <1>3 DEF References
  <2> QED BY <2>1, <2>2
<1> QED BY <1>3, <1>4, <1>5 DEF Counted

LEMMA CountedStep ==
  ASSUME KernelInv, Next
  PROVE  Counted'
<1>1. Types /\ Control /\ Counted /\ Lives
  BY DEF KernelInv
<1> USE <1>1, HandleAssumption
<1> USE DEF ctxvars, mqvars, wvars, lvars, hist
<1>2. ASSUME NEW t \in Thread, skynet_mq_push(t) PROVE Counted'
  <2> DEFINE c == [op |-> "release", h |-> sub[t].h]
  <2>1. c.op = "release" /\ c.h = sub[t].h /\ sub' = [sub EXCEPT ![t] = c]
    BY <1>2 DEF skynet_mq_push
  <2> HIDE DEF c
  <2>2. ASSUME NEW g \in Handle PROVE Grabs(g)' = Grabs(g) /\ Marks(g)' = Marks(g)
    <3>1. /\ Grabs(g)' = IF c.op \in {"push", "release"} /\ c.h = g
                         THEN Grabs(g) \cup {t} ELSE Grabs(g) \ {t}
          /\ Marks(g)' = IF c.op = "mark" /\ c.h = g
                         THEN Marks(g) \cup {t} ELSE Marks(g) \ {t}
      BY <2>1, SubChange
    <3>2. (t \in Grabs(g) <=> sub[t].h = g) /\ t \notin Marks(g)
      BY <1>2, CallOf DEF skynet_mq_push
    <3> QED BY <2>1, <3>1, <3>2
  <2> QED BY <1>2, <2>2, CountedFrame DEF skynet_mq_push, Users, Creators
<1>3. ASSUME NEW t \in Thread, skynet_context_release(t) PROVE Counted'
  <2>0. PICK h \in Handle : h = sub[t].h
    BY <1>3, Calls DEF skynet_context_release
  <2>1. t \in Grabs(h) /\ ref[h] > 0
    BY <1>3, <2>0, CallLives, CountFacts DEF skynet_context_release
  <2>2. \A g \in Handle : /\ t \notin Marks(g) /\ (g # h => t \notin Grabs(g))
                          /\ Grabs(g) \in SUBSET Thread /\ Users(g) \in SUBSET Thread
                          /\ Creators(g) \in SUBSET Thread
    BY <1>3, <2>0, CallOf DEF skynet_context_release
  <2>3. \A g \in Handle : Users(g)' = Users(g) /\ Creators(g)' = Creators(g)
    BY <1>3 DEF skynet_context_release, Users, Creators
  <2>4. \A g \in Handle : Grabs(g)' = Grabs(g) \ {t}
    BY <1>3, <2>0, DecRefSub DEF skynet_context_release
  <2>5. ASSUME NEW g \in Handle \ {h} PROVE References(g)' = References(g)
    <3>1. Grabs(g)' = Grabs(g)
      BY <2>2, <2>4
    <3>2. registered' = registered
      BY <1>3 DEF skynet_context_release
    <3> QED BY <2>3, <3>1, <3>2 DEF References
  <2>6. References(h)' = References(h) - 1
    BY <1>3, <2>1, <2>2, <2>3, <2>4, ReferencesChange DEF skynet_context_release
  <2> QED BY <1>3, <2>0, <2>1, <2>2, <2>5, <2>6, CountedDrop DEF skynet_context_release
<1>4. ASSUME NEW t \in Thread, delete_context(t) PROVE Counted'
  <2>0. PICK h \in Handle : h = sub[t].h
    BY <1>4, Calls DEF delete_context
  <2>1. t \in Marks(h) /\ NoCall.op = "none"
    BY <1>4, <2>0, CallOf DEF delete_context, NoCall
  <2>2. ASSUME NEW g \in Handle
        PROVE  Grabs(g)' = Grabs(g) /\ Marks(g)' = Marks(g) \ {t}
    <3>1. /\ Grabs(g)' = IF NoCall.op \in {"push", "release"} /\ NoCall.h = g
                         THEN Grabs(g) \cup {t} ELSE Grabs(g) \ {t}
          /\ Marks(g)' = IF NoCall.op = "mark" /\ NoCall.h = g
                         THEN Marks(g) \cup {t} ELSE Marks(g) \ {t}
      BY <1>4, SubChange DEF delete_context
    <3>2. t \notin Grabs(g)
      BY <1>4, CallOf DEF delete_context
    <3> QED BY <2>1, <3>1, <3>2
  <2>3. \A g \in Handle : References(g)' = References(g)
    BY <1>4, <2>2 DEF delete_context, References, Users, Creators
  <2>4. Marks(h)' = {} /\ \A g \in Handle \ {h} : Marks(g)' = Marks(g)
    <3>1. \A u \in Marks(h) : u = t
      BY <2>1 DEF Counted
    <3>2. \A g \in Handle \ {h} : t \notin Marks(g)
      BY <1>4, <2>0, CallOf DEF delete_context
    <3> QED BY <2>2, <3>1, <3>2
  <2>5. /\ ctx'[h] = "freed" /\ ref' = ref /\ ref[h] = 0
        /\ \A g \in Handle \ {h} : ctx'[g] = ctx[g]
    BY <1>4, <2>0, <2>1 DEF delete_context, Types, Counted
  <2> QED BY <2>3, <2>4, <2>5 DEF Counted
<1>5. ASSUME NEW t \in Thread,
             \/ SetInit(t) \/ Enqueue(t) \/ FailMqRelease(t)
      PROVE  Counted'
  <2>1. \A g \in Handle : Creators(g)' = Creators(g)
    BY <1>5 DEF SetInit, Enqueue, FailMqRelease, LaunchDone, Creators, Types
  <2> QED BY <1>5, <2>1, CountedFrame DEF SetInit, Enqueue, FailMqRelease, Grabs, Users, Marks
<1>6. ASSUME NEW t \in Thread, FailRetire(t) PROVE Counted'
  <2>1. \A g \in Handle : Creators(g)' = Creators(g)
    BY <1>6 DEF FailRetire, Creators, Types
  <2>2. CASE lh[t] \in registered
    <3>1. lh[t] \in Handle /\ registered' = registered \ {lh[t]} /\ sub[t] = NoCall
      BY <1>6, <2>2 DEF FailRetire, Types
    <3> QED BY <1>6, <2>1, <2>2, <3>1, CountedRetire DEF FailRetire
  <2>3. CASE lh[t] \notin registered
    BY <1>6, <2>1, <2>3, CountedFrame DEF FailRetire, Grabs, Users, Marks
  <2> QED BY <2>2, <2>3
<1>7. ASSUME NEW t \in Thread, drop_message(t) PROVE Counted'
  BY <1>7, CountedGrab DEF drop_message, InDrop
<1>8. ASSUME NEW t \in Thread, _release(t) PROVE Counted'
  <2>1. \A g \in Handle : Creators(g)' = Creators(g)
    BY <1>8 DEF _release, LaunchDone, Creators, Types
  <2> QED BY <1>8, <2>1, CountedFrame DEF _release, LaunchDone, Grabs, Users, Marks
<1>9. ASSUME NEW t \in Thread, NEW h \in Handle, skynet_send(t, h) PROVE Counted'
  BY <1>9, CountedGrab DEF skynet_send, Running
<1>10. ASSUME NEW t \in Thread, NEW h \in Handle, skynet_handle_retire(t, h) PROVE Counted'
  <2>1. sub[t] = NoCall /\ \A g \in Handle : Creators(g)' = Creators(g)
    BY <1>10 DEF skynet_handle_retire, Running, Creators
  <2> QED BY <1>10, <2>1, CountedRetire DEF skynet_handle_retire
<1>11. ASSUME NEW t \in Thread, NEW h \in Handle, skynet_context_new(t, h) PROVE Counted'
  <2>1. /\ ref[h] = 0 /\ h \notin registered
        /\ Grabs(h) = {} /\ Users(h) = {} /\ Creators(h) = {} /\ Marks(h) = {}
    BY <1>11, CountFacts DEF skynet_context_new, Counted
  <2>2. /\ lpc[t] = "none" /\ lpc' = [lpc EXCEPT ![t] = "init"]
        /\ lh' = [lh EXCEPT ![t] = h] /\ UNCHANGED <<sub, cur>>
    BY <1>11 DEF skynet_context_new
  <2>3. \A g \in Handle : /\ Grabs(g)' = Grabs(g) /\ Users(g)' = Users(g)
                          /\ Marks(g)' = Marks(g)
    BY <2>2 DEF Grabs, Users, Marks
  <2>4. \A g \in Handle : Creators(g)' = IF g = h THEN Creators(g) \cup {t} ELSE Creators(g)
    BY <2>2 DEF Creators, Types
  <2>5. ASSUME NEW g \in Handle \ {h}
        PROVE /\ References(g)' = References(g)
              /\ ref'[g] = ref[g] /\ ctx'[g] = ctx[g]
    BY <1>11, <2>3, <2>4, <2>5 DEF skynet_context_new, References, Types
  <2>6. References(h)' = 2
    <3>1. Cardinality({t}) = 1 /\ Cardinality({}) = 0
      BY FS_Singleton, FS_EmptySet
    <3>2. Grabs(h)' = {} /\ Users(h)' = {} /\ Creators(h)' = {t} /\ h \in registered'
      BY <1>11, <2>1, <2>3, <2>4 DEF skynet_context_new
    <3>3. References(h)' = 1 + 0 + 0 + 1
      BY <3>1, <3>2 DEF References
    <3> QED BY <3>3
  <2>7. ref'[h] = 2 /\ ctx'[h] = "alive"
    BY <1>11 DEF skynet_context_new, Types
  <2> QED BY <2>1, <2>3, <2>5, <2>6, <2>7 DEF Counted
<1>12. ASSUME NEW t \in Thread, NEW ok \in BOOLEAN, InitReturns(t, ok) PROVE Counted'
  <2>0. PICK h \in Handle : h = lh[t]
    BY <1>12 DEF InitReturns, Control, Types
  <2>1. t \in Creators(h) /\ ref[h] > 0 /\ sub[t] = NoCall
    BY <1>12, <2>0, CountFacts DEF InitReturns, Creators
  <2>2. \A g \in Handle : /\ t \notin Marks(g) /\ t \notin Grabs(g)
                          /\ Grabs(g) \in SUBSET Thread /\ Users(g) \in SUBSET Thread
                          /\ Creators(g) \in SUBSET Thread
    BY <2>1, CallOf
  <2>3. ASSUME NEW g \in Handle PROVE Users(g)' = Users(g) /\ Grabs(g)' = Grabs(g)
    <3>1. Grabs(g)' = Grabs(g) \ {t}
      BY <1>12, <2>0, DecRefSub DEF InitReturns
    <3> QED BY <1>12, <2>2, <3>1 DEF InitReturns, Users
  <2>4. lpc'[t] # "init" /\ \A u \in Thread \ {t} : lpc'[u] = lpc[u]
    BY <1>12 DEF InitReturns, Types
  <2>5. \A g \in Handle : Creators(g)' = Creators(g) \ {t}
    BY <1>12, <2>4 DEF InitReturns, Creators
  <2>6. \A g \in Handle \ {h} : References(g)' = References(g)
    <3>1. \A g \in Handle \ {h} : t \notin Creators(g)
      BY <2>0 DEF Creators
    <3> QED BY <1>12, <2>3, <2>5, <3>1 DEF InitReturns, References
  <2>7. References(h)' = References(h) - 1
    BY <1>12, <2>1, <2>2, <2>3, <2>5, ReferencesChange DEF InitReturns
  <2> QED BY <1>12, <2>0, <2>1, <2>2, <2>6, <2>7, CountedDrop DEF InitReturns
<1>13. ASSUME NEW w \in Worker,
             \/ Fetch(w) \/ Wake(w) \/ skynet_mq_release(w)
             \/ skynet_mq_pop(w) \/ skynet_mq_length(w)
             \/ CallbackReturns(w) \/ NextQueue(w) \/ PushBack(w)
      PROVE  Counted'
  BY <1>13, CountedFrame
     DEF Fetch, Wake, skynet_mq_release, skynet_mq_pop, skynet_mq_length,
         CallbackReturns, NextQueue, PushBack, Grabs, Users, Creators, Marks
<1>14. ASSUME NEW w \in Worker, Grab(w) PROVE Counted'
  <2>0. PICK h \in Handle : h = q[w]
    BY <1>14 DEF Grab, At, Control, InHand, Types
  <2>1. w \in Thread /\ w \notin Users(h) /\ cur[w] = Nil
    BY <1>14 DEF Grab, At, Control, InHand, Users, Thread
  <2>2. \A g \in Handle : /\ Grabs(g) \in SUBSET Thread /\ Users(g) \in SUBSET Thread
                          /\ Creators(g) \in SUBSET Thread
    BY <2>1, CallOf
  <2>3. \A g \in Handle : /\ Grabs(g)' = Grabs(g) /\ Marks(g)' = Marks(g)
                          /\ Creators(g)' = Creators(g)
    BY <1>14 DEF Grab, Grabs, Marks, Creators
  <2>4. CASE h \notin registered
    BY <1>14, <2>0, <2>3, <2>4, CountedFrame DEF Grab, Users
  <2>5. CASE h \in registered
    <3>1. cur' = [cur EXCEPT ![w] = h] /\ ref' = [ref EXCEPT ![h] = @ + 1]
      BY <1>14, <2>0, <2>5 DEF Grab
    <3>2. \A g \in Handle : Users(g)' = IF g = h THEN Users(g) \cup {w} ELSE Users(g)
      BY <2>1, <3>1 DEF Users, Types
    <3>3. \A g \in Handle \ {h} : References(g)' = References(g)
      BY <1>14, <2>3, <3>2 DEF Grab, References
    <3>4. References(h)' = References(h) + 1
      BY <1>14, <2>1, <2>2, <2>3, <3>2, ReferencesChange DEF Grab
    <3> QED BY <1>14, <2>3, <2>5, <3>1, <3>3, <3>4, CountedGain DEF Grab
  <2> QED BY <2>4, <2>5
<1>15. ASSUME NEW w \in Worker, ReleaseCurrent(w) PROVE Counted'
  <2>0. PICK h \in Handle : h = cur[w]
    BY <1>15 DEF ReleaseCurrent, At, Control, InHand, Types
  <2>1. w \in Users(h) /\ ref[h] > 0 /\ sub[w] = NoCall /\ w \in Thread
    BY <1>15, <2>0, CountFacts DEF ReleaseCurrent, At, Users, Thread
  <2>2. \A g \in Handle : /\ w \notin Marks(g) /\ w \notin Grabs(g)
                          /\ Grabs(g) \in SUBSET Thread /\ Users(g) \in SUBSET Thread
                          /\ Creators(g) \in SUBSET Thread
    BY <2>1, CallOf
  <2>3. ASSUME NEW g \in Handle PROVE Creators(g)' = Creators(g) /\ Grabs(g)' = Grabs(g)
    <3>1. Grabs(g)' = Grabs(g) \ {w}
      BY <1>15, <2>0, <2>1, DecRefSub DEF ReleaseCurrent
    <3> QED BY <1>15, <2>2, <3>1 DEF ReleaseCurrent, Creators
  <2>4. \A g \in Handle : Users(g)' = Users(g) \ {w}
    BY <1>15 DEF ReleaseCurrent, Users, Types
  <2>5. \A g \in Handle \ {h} : References(g)' = References(g)
    <3>1. \A g \in Handle \ {h} : w \notin Users(g)
      BY <2>0 DEF Users
    <3> QED BY <1>15, <2>3, <2>4, <3>1 DEF ReleaseCurrent, References
  <2>6. References(h)' = References(h) - 1
    BY <1>15, <2>1, <2>2, <2>3, <2>4, ReferencesChange DEF ReleaseCurrent
  <2> QED BY <1>15, <2>0, <2>1, <2>2, <2>5, <2>6, CountedDrop DEF ReleaseCurrent
<1>16. ASSUME NEW t \in Thread, Publish(t) PROVE Counted'
  <2>1. \A g \in Handle : Creators(g)' = Creators(g)
    BY <1>16 DEF Publish, Creators, Types
  <2> QED BY <1>16, <2>1, CountedFrame DEF Publish, Grabs, Users, Marks
<1>17. ASSUME NEW t \in Thread, LaunchReturns(t) PROVE Counted'
  <2>1. \A g \in Handle : Creators(g)' = Creators(g)
    BY <1>17 DEF LaunchReturns, Creators, Types
  <2> QED BY <1>17, <2>1, CountedFrame DEF LaunchReturns, Grabs, Users, Marks
<1> QED
  BY <1>2, <1>3, <1>4, <1>5, <1>6, <1>7, <1>8, <1>9, <1>10, <1>11, <1>12,
     <1>13, <1>14, <1>15, <1>16, <1>17
     DEF Next, KernelStep, ServiceStep, InitEnds, WorkerStep

LEMMA LivesStep ==
  ASSUME KernelInv, Next
  PROVE  Lives'
<1>1. Types /\ Control /\ Counted /\ Lives
  BY DEF KernelInv
<1> USE <1>1, HandleAssumption
<1> USE DEF ctxvars, mqvars, wvars, lvars, hist
<1>2. ASSUME NEW t \in Thread, skynet_mq_push(t) PROVE Lives'
  <2>1. sub[t].h \in Handle /\ mem[sub[t].h] = "alive"
    BY <1>2, CallLives DEF skynet_mq_push
  <2> QED BY <1>2, <2>1 DEF skynet_mq_push, Lives, Types
<1>3. ASSUME NEW t \in Thread,
             \/ skynet_context_release(t) \/ drop_message(t)
      PROVE  Lives'
  BY <1>3 DEF skynet_context_release, drop_message, Lives
<1>4. ASSUME NEW t \in Thread, delete_context(t) PROVE Lives'
  <2>1. sub[t].h \in Handle /\ mem[sub[t].h] = "alive"
    BY <1>4, CallLives DEF delete_context
  <2>2. \A h \in Handle : /\ release'[h] <=> (h = sub[t].h \/ release[h])
                          /\ ctx'[h] = (IF h = sub[t].h THEN "freed" ELSE ctx[h])
    BY <1>4 DEF delete_context, Types
  <2>3. \A w \in Worker : pc[w] = "drop" => q[w] \in Handle
    BY DEF Control, InHand, Types
  <2>4. \A u \in Thread : lpc[u] = "drop" => lh[u] \in Handle
    BY DEF Control, Types
  <2> QED BY <1>4, <2>1, <2>2, <2>3, <2>4 DEF delete_context, Lives
<1>5. ASSUME NEW t \in Thread,
             \/ SetInit(t) \/ FailRetire(t)
      PROVE  Lives'
  BY <1>5 DEF SetInit, FailRetire, Lives, Types
<1>6. ASSUME NEW t \in Thread, Enqueue(t) PROVE Lives'
  BY <1>6 DEF Enqueue, LaunchDone, Lives, Types
<1>7. ASSUME NEW t \in Thread, FailMqRelease(t) PROVE Lives'
  BY <1>7 DEF FailMqRelease, LaunchDone, Lives, Types
<1>8. ASSUME NEW t \in Thread, _release(t) PROVE Lives'
  <2> DEFINE h == Dropping(t)
  <2>1. h \in Handle /\ release[h]
    BY <1>8 DEF _release, InDrop, Dropping, Control, InHand, Types, Lives
  <2>2. \A g \in Handle : /\ mem'[g] = (IF g = h THEN "freed" ELSE mem[g])
                          /\ in_global'[g] <=> (g # h /\ in_global[g])
    BY <1>8 DEF _release, Types
  <2>3. ctx[h] = "freed" /\ UNCHANGED <<ctx, release>>
    BY <1>8, <2>1 DEF _release, Lives
  <2>4. \A w \in Worker : pc'[w] = "drop" => pc[w] = "drop" /\ q'[w] = q[w]
    BY <1>8 DEF _release, Types
  <2>5. \A u \in Thread : lpc'[u] = "drop" => lpc[u] = "drop" /\ lh'[u] = lh[u]
    BY <1>8 DEF _release, LaunchDone, Types
  <2> HIDE DEF h
  <2> QED BY <2>1, <2>2, <2>3, <2>4, <2>5 DEF Lives
<1>9. ASSUME NEW t \in Thread, NEW h \in Handle,
             \/ skynet_send(t, h) \/ skynet_handle_retire(t, h)
      PROVE  Lives'
  BY <1>9 DEF skynet_send, skynet_handle_retire, Lives
<1>10. ASSUME NEW t \in Thread, NEW h \in Handle, skynet_context_new(t, h) PROVE Lives'
  <2>1. mem[h] = "none" /\ ~release[h]
    BY <1>10 DEF skynet_context_new, Lives
  <2> QED BY <1>10, <2>1 DEF skynet_context_new, Lives, Types
<1>11. ASSUME NEW t \in Thread, NEW ok \in BOOLEAN, InitReturns(t, ok) PROVE Lives'
  BY <1>11 DEF InitReturns, Lives, Types
<1>12. ASSUME NEW w \in Worker, Fetch(w) PROVE Lives'
  BY <1>12 DEF Fetch, At, Goto, Lives, Types
<1>13. ASSUME NEW w \in Worker, Wake(w) PROVE Lives'
  BY <1>13 DEF Wake, At, Goto, Lives, Types
<1>14. ASSUME NEW w \in Worker, Grab(w) PROVE Lives'
  BY <1>14 DEF Grab, At, Goto, Lives, Types
<1>15. ASSUME NEW w \in Worker, skynet_mq_release(w) PROVE Lives'
  BY <1>15 DEF skynet_mq_release, At, Goto, Lives, Types
<1>16. ASSUME NEW w \in Worker, skynet_mq_pop(w) PROVE Lives'
  <2>1. \A g \in Handle : in_global'[g] => in_global[g]
    BY <1>16 DEF skynet_mq_pop, Types
  <2>2. \A v \in Worker : pc'[v] = "drop" => pc[v] = "drop" /\ q'[v] = q[v]
    BY <1>16 DEF skynet_mq_pop, At, Goto, Types
  <2> QED BY <1>16, <2>1, <2>2 DEF skynet_mq_pop, Lives
<1>17. ASSUME NEW w \in Worker, skynet_mq_length(w) PROVE Lives'
  BY <1>17 DEF skynet_mq_length, At, Goto, Lives, Types
<1>18. ASSUME NEW w \in Worker, CallbackReturns(w) PROVE Lives'
  <2>1. \A v \in Worker : pc'[v] = "drop" => pc[v] = "drop"
    BY <1>18 DEF CallbackReturns, Goto, Types
  <2> QED BY <1>18, <2>1 DEF CallbackReturns, Lives
<1>19. ASSUME NEW w \in Worker, NextQueue(w) PROVE Lives'
  BY <1>19 DEF NextQueue, At, Goto, Lives, Types
<1>20. ASSUME NEW w \in Worker, PushBack(w) PROVE Lives'
  BY <1>20 DEF PushBack, At, Goto, Lives, Types
<1>21. ASSUME NEW w \in Worker, ReleaseCurrent(w) PROVE Lives'
  <2>1. \A v \in Worker : pc'[v] = "drop" => pc[v] = "drop"
    BY <1>21 DEF ReleaseCurrent, Goto, Types
  <2> QED BY <1>21, <2>1 DEF ReleaseCurrent, Lives
<1>22. ASSUME NEW t \in Thread, Publish(t) PROVE Lives'
  BY <1>22 DEF Publish, Lives, Types
<1>23. ASSUME NEW t \in Thread, LaunchReturns(t) PROVE Lives'
  BY <1>23 DEF LaunchReturns, Lives, Types
<1> QED
  BY <1>2, <1>3, <1>4, <1>5, <1>6, <1>7, <1>8, <1>9, <1>10, <1>11, <1>12,
     <1>13, <1>14, <1>15, <1>16, <1>17, <1>18, <1>19, <1>20, <1>21, <1>22, <1>23
     DEF Next, KernelStep, ServiceStep, InitEnds, WorkerStep

LEMMA ReadyStep ==
  ASSUME KernelInv, Next
  PROVE  Ready'
<1>1. Types /\ Control /\ Alone /\ Counted /\ Lives /\ Ready
  BY DEF KernelInv
<1> USE <1>1, HandleAssumption
<1> USE DEF ctxvars, mqvars, wvars, lvars, hist
<1>2. ASSUME NEW t \in Thread,
             \/ skynet_mq_push(t) \/ skynet_context_release(t)
             \/ delete_context(t) \/ drop_message(t)
      PROVE  Ready'
  BY <1>2 DEF skynet_mq_push, skynet_context_release, delete_context, drop_message, Ready
<1>3. ASSUME NEW t \in Thread, SetInit(t) PROVE Ready'
  <2>1. \A h \in Handle : inited'[h] = (h = lh[t] \/ inited[h])
    BY <1>3 DEF SetInit, Types, Control
  <2>2. \A u \in Thread \ {t} : lpc'[u] = lpc[u]
    BY <1>3 DEF SetInit, Types
  <2> QED BY <1>3, <2>1, <2>2 DEF SetInit, Ready, Types
<1>4. ASSUME NEW t \in Thread, Enqueue(t) PROVE Ready'
  BY <1>4 DEF Enqueue, LaunchDone, Ready, Types
<1>5. ASSUME NEW t \in Thread, FailRetire(t) PROVE Ready'
  <2>1. \A u \in Thread \ {t} : lpc'[u] = lpc[u]
    BY <1>5 DEF FailRetire, Types
  <2>2. registered' = registered \ {lh[t]}
    BY <1>5 DEF FailRetire
  <2> QED BY <1>5, <2>1, <2>2 DEF FailRetire, Ready
<1>6. ASSUME NEW t \in Thread, FailMqRelease(t) PROVE Ready'
  <2>1. \A u \in Thread : lpc[u] \in {"init", "setinit", "failretire"} =>
                            lpc'[u] = lpc[u] /\ lh'[u] = lh[u]
    BY <1>6 DEF FailMqRelease, LaunchDone, InDrop, Types
  <2> QED BY <1>6, <2>1 DEF FailMqRelease, Ready
<1>7. ASSUME NEW t \in Thread, _release(t) PROVE Ready'
  <2>1. \A u \in Thread : lpc[u] \in {"init", "setinit", "failretire"} =>
                            lpc'[u] = lpc[u] /\ lh'[u] = lh[u]
    BY <1>7 DEF _release, LaunchDone, InDrop, Types
  <2> QED BY <1>7, <2>1 DEF _release, Ready
<1>8. ASSUME NEW t \in Thread, NEW h \in Handle, skynet_send(t, h) PROVE Ready'
  BY <1>8 DEF skynet_send, Ready
<1>9. ASSUME NEW t \in Thread, NEW h \in Handle, skynet_handle_retire(t, h) PROVE Ready'
  BY <1>9 DEF skynet_handle_retire, Ready
<1>10. ASSUME NEW t \in Thread, NEW h \in Handle, skynet_context_new(t, h) PROVE Ready'
  <2>1. \A u \in Thread : /\ lpc'[u] = (IF u = t THEN "init" ELSE lpc[u])
                          /\ lh'[u] = (IF u = t THEN h ELSE lh[u])
    BY <1>10 DEF skynet_context_new, Types
  <2>2. lpc[t] = "none" /\ registered' = registered \cup {h} /\ UNCHANGED <<inited, cur>>
    BY <1>10 DEF skynet_context_new
  <2> QED BY <2>1, <2>2 DEF Ready
<1>11. ASSUME NEW t \in Thread, NEW ok \in BOOLEAN, InitReturns(t, ok) PROVE Ready'
  <2>0. PICK h \in Handle : h = lh[t]
    BY <1>11 DEF InitReturns, Control, Types
  <2>1. /\ \A u \in Thread \ {t} : lpc'[u] = lpc[u]
        /\ lpc'[t] \in {"failretire", "enqueue", "setinit"}
        /\ lpc'[t] = "enqueue" => ref[h] = 1
    BY <1>11, <2>0 DEF InitReturns, Types
  <2>2. ref[h] = 1 => h \notin registered
    <3>1. /\ Grabs(h) \in SUBSET Thread /\ Users(h) \in SUBSET Thread
          /\ Creators(h) \in SUBSET Thread /\ Creators(h) # {}
      BY <1>11, <2>0, CallOf DEF InitReturns, Creators
    <3>2. /\ Cardinality(Grabs(h)) \in Nat /\ Cardinality(Users(h)) \in Nat
          /\ Cardinality(Creators(h)) \in Nat /\ Cardinality(Creators(h)) # 0
      BY <3>1, Cards
    <3> QED BY <3>2 DEF Counted, References
  <2> QED BY <1>11, <2>0, <2>1, <2>2 DEF InitReturns, Ready
<1>12. ASSUME NEW w \in Worker,
             \/ Fetch(w) \/ Wake(w) \/ skynet_mq_release(w)
             \/ skynet_mq_pop(w) \/ skynet_mq_length(w)
             \/ CallbackReturns(w) \/ NextQueue(w) \/ PushBack(w)
      PROVE  Ready'
  BY <1>12 DEF Fetch, Wake, skynet_mq_release, skynet_mq_pop, skynet_mq_length,
               CallbackReturns, NextQueue, PushBack, Ready
<1>13. ASSUME NEW w \in Worker, Grab(w) PROVE Ready'
  <2>1. CASE q[w] \notin registered
    BY <1>13, <2>1 DEF Grab, Ready
  <2>2. CASE q[w] \in registered
    <3>1. q[w] # Nil /\ cur' = [cur EXCEPT ![w] = q[w]]
      BY <1>13, <2>2 DEF Grab, At, Control, InHand
    <3>2. inited[q[w]]
      BY <2>2, <3>1 DEF Ready, Alone
    <3> QED BY <1>13, <3>1, <3>2 DEF Grab, Ready, Types
  <2> QED BY <2>1, <2>2
<1>14. ASSUME NEW w \in Worker, ReleaseCurrent(w) PROVE Ready'
  BY <1>14 DEF ReleaseCurrent, Ready, Types
<1>15. ASSUME NEW t \in Thread, Publish(t) PROVE Ready'
  BY <1>15 DEF Publish, Ready, Types
<1>16. ASSUME NEW t \in Thread, LaunchReturns(t) PROVE Ready'
  <2>1. \A u \in Thread : lpc[u] \in {"init", "setinit", "failretire"} =>
                            lpc'[u] = lpc[u] /\ lh'[u] = lh[u]
    BY <1>16 DEF LaunchReturns, Types
  <2> QED BY <1>16, <2>1 DEF LaunchReturns, Ready
<1> QED
  BY <1>2, <1>3, <1>4, <1>5, <1>6, <1>7, <1>8, <1>9, <1>10, <1>11, <1>12,
     <1>13, <1>14, <1>15, <1>16
     DEF Next, KernelStep, ServiceStep, InitEnds, WorkerStep

LEMMA Queued ==
  ASSUME Types, NEW h \in Handle, NEW k \in 1 .. Len(queue[h])
  PROVE  queue[h][k] \in Message /\ queue[h][k].id \in Nat
<1>1. queue[h] \in Seq(Message)
  BY DEF Types
<1>2. queue[h][k] \in Message
  BY <1>1, ElementOfSeq
<1> QED BY <1>2, SendAssumption DEF Message

(* No message is sent, moved or dispatched. *)
LEMMA FatesFrame ==
  ASSUME Types, Fates, UNCHANGED <<queue, delivered, dropped>>,
         nsent' \in Nat, nsent' >= nsent,
         \A u \in Thread : sub'[u].op = "push" => sub'[u] = sub[u]
  PROVE  Fates'
<1>1. \A i \in delivered \cup dropped : i \in Nat /\ nsent \in Nat
  BY SendAssumption DEF Types
<1>2. \A i \in delivered \cup dropped : i <= nsent' /\ ~Pending(i)'
  BY <1>1 DEF Fates, Pending
<1>3. ASSUME NEW h \in Handle, NEW k \in 1 .. Len(queue[h]) PROVE queue[h][k].id \in Nat
  BY Queued
<1>4. \A t \in Thread : sub[t].op = "push" => sub[t].msg.id \in Nat
  BY Calls, SendAssumption DEF Message
<1>5. \A h \in Handle : \A k \in 1 .. Len(queue[h]) : queue[h][k].id <= nsent'
  BY <1>1, <1>3, SendAssumption DEF Fates, Types
<1>6. \A t \in Thread : sub'[t].op = "push" => sub'[t].msg.id <= nsent'
  BY <1>4, SendAssumption DEF Fates, Types
<1> QED BY <1>2, <1>5, <1>6 DEF Fates

(* A sent message has a new id. *)
LEMMA FatesSend ==
  ASSUME Types, Fates, UNCHANGED <<queue, delivered, dropped>>,
         nsent' = nsent + 1, NEW t \in Thread, NEW m \in Message,
         m.id = nsent + 1, ~m.error,
         \A u \in Thread \ {t} : sub'[u] = sub[u],
         sub'[t].op = "push", sub'[t].msg = m
  PROVE  Fates'
<1>1. nsent \in Nat
  BY SendAssumption DEF Types
<1>2. \A h \in Handle : \A k \in 1 .. Len(queue[h]) :
        queue[h][k].id \in Nat /\ queue[h][k].id <= nsent
  BY Queued DEF Fates
<1>3. \A u \in Thread : sub[u].op = "push" => sub[u].msg.id \in Nat /\ sub[u].msg.id <= nsent
  BY Calls, SendAssumption DEF Message, Fates
<1>4. \A i \in delivered \cup dropped : i \in Nat /\ i <= nsent
  BY SendAssumption DEF Types, Fates
<1>5. \A i \in delivered \cup dropped : ~Pending(i)'
  BY <1>1, <1>4 DEF Fates, Pending
<1>6. \A u \in Thread : sub'[u].op = "push" =>
        /\ sub'[u].msg.id <= nsent'
        /\ sub'[u].msg.error => sub'[u].msg.id \in dropped'
  BY <1>1, <1>3 DEF Fates
<1>7. \A h \in Handle : \A k \in 1 .. Len(queue[h]) : queue[h][k].id <= nsent'
  BY <1>1, <1>2
<1>8. \A u, v \in Thread :
        sub'[u].op = "push" /\ sub'[v].op = "push" /\ Same(sub'[u].msg, sub'[v].msg) => u = v
  BY <1>1, <1>3 DEF Fates, Same
<1>9. \A u \in Thread, h \in Handle : \A k \in 1 .. Len(queue[h]) :
        sub'[u].op = "push" => ~Same(sub'[u].msg, queue[h][k])
  BY <1>1, <1>2 DEF Fates, Same
<1> QED BY <1>1, <1>4, <1>5, <1>6, <1>7, <1>8, <1>9 DEF Fates

(* The message of a call enters a queue. *)
LEMMA FatesPush ==
  ASSUME Types, Fates, UNCHANGED <<nsent, delivered, dropped>>,
         NEW t \in Thread, NEW h \in Handle, sub[t].op = "push",
         queue' = [queue EXCEPT ![h] = Append(@, sub[t].msg)],
         \A u \in Thread \ {t} : sub'[u] = sub[u],
         sub'[t].op # "push"
  PROVE  Fates'
<1> DEFINE m == sub[t].msg
           n == Len(queue[h])
<1>1. m \in Message
  BY Calls
<1>2. queue[h] \in Seq(Message) /\ n \in Nat
  BY DEF Types
<1>3. /\ Len(queue'[h]) = n + 1
      /\ \A k \in 1 .. n + 1 : queue'[h][k] = IF k <= n THEN queue[h][k] ELSE m
  BY <1>1, <1>2, AppendProperties DEF Types
<1>4. \A g \in Handle \ {h} : queue'[g] = queue[g]
  BY DEF Types
<1> HIDE DEF m, n
<1>5. \A g \in Handle : \A k \in 1 .. Len(queue'[g]) :
        \/ k \in 1 .. Len(queue[g]) /\ queue'[g][k] = queue[g][k]
        \/ g = h /\ k = n + 1 /\ queue'[g][k] = m
  BY <1>2, <1>3, <1>4 DEF n
<1>6. \A u \in Thread : sub'[u].op = "push" => u # t /\ sub'[u] = sub[u]
  OBVIOUS
<1>7. \A i \in delivered \cup dropped : ~Pending(i)'
  BY <1>5, <1>6 DEF Fates, Pending, m
<1>8. \A g \in Handle : \A k \in 1 .. Len(queue'[g]) :
        /\ queue'[g][k].id <= nsent
        /\ queue'[g][k].error => queue'[g][k].id \in dropped
  BY <1>5 DEF Fates, m
<1>9. ASSUME NEW f \in Handle, NEW g \in Handle,
             NEW k \in 1 .. Len(queue'[f]), NEW l \in 1 .. Len(queue'[g]),
             Same(queue'[f][k], queue'[g][l])
      PROVE  f = g /\ k = l
  <2>1. \A b \in Handle : \A j \in 1 .. Len(queue[b]) :
          ~Same(m, queue[b][j]) /\ ~Same(queue[b][j], m)
    BY DEF Fates, m, Same
  <2> QED BY <1>5, <1>9, <2>1 DEF Fates
<1>10. ASSUME NEW u \in Thread, NEW g \in Handle, NEW k \in 1 .. Len(queue'[g]),
              sub'[u].op = "push"
       PROVE  ~Same(sub'[u].msg, queue'[g][k])
  BY <1>5, <1>6, <1>10 DEF Fates, m, Same
<1>11. \A u \in Thread : sub'[u].op = "push" =>
         /\ sub'[u].msg.id <= nsent
         /\ sub'[u].msg.error => sub'[u].msg.id \in dropped
  BY <1>6 DEF Fates
<1>12. \A u, v \in Thread :
         sub'[u].op = "push" /\ sub'[v].op = "push" /\ Same(sub'[u].msg, sub'[v].msg) => u = v
  BY <1>6 DEF Fates
<1> QED BY <1>7, <1>8, <1>9, <1>10, <1>11, <1>12 DEF Fates

(* The head of a queue is taken from it and has met its fate: what is left *)
(* are the other messages, and perhaps an error that reports it.           *)
LEMMA FatesTake ==
  ASSUME Types, Fates, NEW h \in Handle, queue[h] # <<>>,
         NEW m \in Message, m = Head(queue[h]), UNCHANGED nsent,
         queue' = [queue EXCEPT ![h] = Tail(@)],
         \/ m.error /\ UNCHANGED <<delivered, dropped>>
         \/ ~m.error /\ delivered' = delivered \cup {m.id} /\ UNCHANGED dropped
         \/ ~m.error /\ dropped' = dropped \cup {m.id} /\ UNCHANGED delivered,
         \A u \in Thread : sub'[u].op = "push" =>
           \/ sub'[u] = sub[u]
           \/ sub'[u].msg.error /\ sub'[u].msg.id = m.id /\ m.id \in dropped'
  PROVE  Fates'
<1>1. /\ queue[h] \in Seq(Message) /\ Len(queue[h]) \in Nat /\ Len(queue[h]) > 0
      /\ \A g \in Handle : Len(queue[g]) \in Nat
  BY EmptySeq DEF Types
<1>2. PICK n \in Nat : n = Len(queue[h])
  BY <1>1
<1>3. m = queue[h][1] /\ 1 \in 1 .. n
  BY <1>1, <1>2, HeadTailProperties
<1>4. /\ Len(queue'[h]) = n - 1
      /\ \A k \in 1 .. n - 1 : queue'[h][k] = queue[h][k + 1]
  BY <1>1, <1>2, HeadTailProperties DEF Types
<1>5. \A g \in Handle \ {h} : queue'[g] = queue[g]
  BY DEF Types
<1>6. ASSUME NEW g \in Handle, NEW k \in 1 .. Len(queue'[g])
      PROVE  \E j \in 1 .. Len(queue[g]) :
               /\ queue'[g][k] = queue[g][j]
               /\ j = IF g = h THEN k + 1 ELSE k
               /\ k \in Nat /\ (g = h => j # 1)
  <2>1. CASE g = h
    <3>1. k \in 1 .. n - 1 /\ k + 1 \in 1 .. n
      BY <1>2, <1>4, <2>1
    <3> QED BY <1>2, <1>4, <2>1, <3>1
  <2>2. CASE g # h
    BY <1>1, <1>5, <2>2
  <2> QED BY <2>1, <2>2
<1>7. /\ m.id <= nsent
      /\ m.error => m.id \in dropped
      /\ ~m.error => m.id \notin delivered /\ m.id \notin dropped
  BY <1>2, <1>3 DEF Fates, Pending
<1>8. /\ delivered \subseteq delivered' /\ dropped \subseteq dropped'
      /\ \A i \in delivered' \cup dropped' :
           i \in delivered \cup dropped \/ (i = m.id /\ ~m.error)
      /\ delivered' \cap dropped' = {}
  BY <1>7 DEF Fates
<1>9. ASSUME ~m.error, NEW g \in Handle, NEW k \in 1 .. Len(queue'[g])
      PROVE  ~Same(queue'[g][k], m)
  <2>1. PICK j \in 1 .. Len(queue[g]) : queue'[g][k] = queue[g][j] /\ (g = h => j # 1)
    BY <1>6
  <2> QED BY <1>2, <1>3, <2>1 DEF Fates
<1>10. ASSUME ~m.error, NEW u \in Thread, sub'[u].op = "push"
       PROVE  ~Same(sub'[u].msg, m)
  BY <1>2, <1>3, <1>10 DEF Fates, Same
<1>11. ASSUME NEW i \in delivered \cup dropped PROVE ~Pending(i)'
  <2>1. \A g \in Handle : \A k \in 1 .. Len(queue'[g]) :
          ~(queue'[g][k].id = i /\ ~queue'[g][k].error)
    <3>1. ~Pending(i)
      BY DEF Fates
    <3>2. \A g \in Handle : \A j \in 1 .. Len(queue[g]) :
            ~(queue[g][j].id = i /\ ~queue[g][j].error)
      BY <3>1 DEF Pending
    <3> QED BY <1>6, <3>2
  <2>2. \A u \in Thread : ~(sub'[u].op = "push" /\ sub'[u].msg.id = i /\ ~sub'[u].msg.error)
    BY DEF Fates, Pending
  <2> QED BY <2>1, <2>2 DEF Pending
<1>12. ~m.error => ~Pending(m.id)'
  BY <1>9, <1>10 DEF Pending, Same
<1>13. \A i \in delivered' \cup dropped' : i <= nsent /\ ~Pending(i)'
  BY <1>7, <1>8, <1>11, <1>12 DEF Fates
<1>14. ASSUME NEW g \in Handle, NEW k \in 1 .. Len(queue'[g])
       PROVE  /\ queue'[g][k].id <= nsent
              /\ queue'[g][k].error => queue'[g][k].id \in dropped'
  <2>1. PICK j \in 1 .. Len(queue[g]) : queue'[g][k] = queue[g][j]
    BY <1>6
  <2> QED BY <1>8, <2>1 DEF Fates
<1>15. ASSUME NEW u \in Thread, sub'[u].op = "push"
       PROVE  /\ sub'[u].msg.id <= nsent
              /\ sub'[u].msg.error => sub'[u].msg.id \in dropped'
  BY <1>7, <1>8, <1>15 DEF Fates
<1>16. ASSUME NEW f \in Handle, NEW g \in Handle,
              NEW k \in 1 .. Len(queue'[f]), NEW l \in 1 .. Len(queue'[g]),
              Same(queue'[f][k], queue'[g][l])
       PROVE  f = g /\ k = l
  <2>1. PICK i \in 1 .. Len(queue[f]) : /\ queue'[f][k] = queue[f][i] /\ k \in Nat
                                        /\ i = IF f = h THEN k + 1 ELSE k
    BY <1>6
  <2>2. PICK j \in 1 .. Len(queue[g]) : /\ queue'[g][l] = queue[g][j] /\ l \in Nat
                                        /\ j = IF g = h THEN l + 1 ELSE l
    BY <1>6
  <2>3. f = g /\ i = j
    BY <1>16, <2>1, <2>2 DEF Fates
  <2> QED BY <2>1, <2>2, <2>3
<1>17. \A u, v \in Thread :
         sub'[u].op = "push" /\ sub'[v].op = "push" /\ Same(sub'[u].msg, sub'[v].msg) => u = v
  BY DEF Fates, Same
<1>18. ASSUME NEW u \in Thread, NEW g \in Handle, NEW k \in 1 .. Len(queue'[g]),
              sub'[u].op = "push"
       PROVE  ~Same(sub'[u].msg, queue'[g][k])
  <2>1. PICK j \in 1 .. Len(queue[g]) : queue'[g][k] = queue[g][j]
    BY <1>6
  <2> QED BY <1>18, <2>1 DEF Fates, Same
<1>19. \A g \in Handle : \A k \in 1 .. Len(queue'[g]) :
         /\ queue'[g][k].id <= nsent'
         /\ queue'[g][k].error => queue'[g][k].id \in dropped'
  BY <1>14
<1>20. \A u \in Thread : sub'[u].op = "push" =>
         /\ sub'[u].msg.id <= nsent'
         /\ sub'[u].msg.error => sub'[u].msg.id \in dropped'
  BY <1>15
<1>21. \A f, g \in Handle : \A k \in 1 .. Len(queue'[f]), l \in 1 .. Len(queue'[g]) :
         Same(queue'[f][k], queue'[g][l]) => f = g /\ k = l
  BY <1>16
<1>22. \A u \in Thread, g \in Handle : \A k \in 1 .. Len(queue'[g]) :
         sub'[u].op = "push" => ~Same(sub'[u].msg, queue'[g][k])
  BY <1>18
<1> HIDE DEF Same
<1> QED BY <1>8, <1>13, <1>17, <1>19, <1>20, <1>21, <1>22 DEF Fates

LEMMA FatesStep ==
  ASSUME KernelInv, Next
  PROVE  Fates'
<1>1. Types /\ Control /\ Alone /\ Counted /\ Fates
  BY DEF KernelInv
<1> USE <1>1, HandleAssumption, ThreadAssumption, SendAssumption
<1> USE DEF ctxvars, mqvars, wvars, lvars, hist
<1>2. ASSUME NEW t \in Thread, skynet_mq_push(t) PROVE Fates'
  <2>1. sub[t].op = "push" /\ sub[t].h \in Handle
    BY <1>2, Calls DEF skynet_mq_push
  <2>2. PICK g \in Handle : g = sub[t].h
    BY <2>1
  <2>3. queue' = [queue EXCEPT ![g] = Append(@, sub[t].msg)]
    BY <1>2, <2>2 DEF skynet_mq_push
  <2>4. \A u \in Thread \ {t} : sub'[u] = sub[u]
    BY <1>2 DEF skynet_mq_push, Types
  <2>5. sub'[t].op # "push"
    BY <1>2 DEF skynet_mq_push, Types
  <2> QED BY <1>2, <2>1, <2>3, <2>4, <2>5, FatesPush DEF skynet_mq_push
<1>3. ASSUME NEW t \in Thread, skynet_context_release(t) PROVE Fates'
  <2>1. \A u \in Thread : sub'[u].op = "push" => sub'[u] = sub[u]
    BY <1>3 DEF skynet_context_release, DecRef, NoCall, Types
  <2> QED BY <1>3, <2>1, FatesFrame DEF skynet_context_release, Types
<1>4. ASSUME NEW t \in Thread, delete_context(t) PROVE Fates'
  <2>1. \A u \in Thread : sub'[u].op = "push" => sub'[u] = sub[u]
    BY <1>4 DEF delete_context, NoCall, Types
  <2> QED BY <1>4, <2>1, FatesFrame DEF delete_context, Types
<1>5. ASSUME NEW t \in Thread, SetInit(t) PROVE Fates'
  BY <1>5, FatesFrame DEF SetInit, LaunchDone, Types
<1>6. ASSUME NEW t \in Thread, Enqueue(t) PROVE Fates'
  BY <1>6, FatesFrame DEF Enqueue, LaunchDone, Types
<1>7. ASSUME NEW t \in Thread, FailRetire(t) PROVE Fates'
  <2>1. \A u \in Thread : sub'[u].op = "push" => sub'[u] = sub[u]
    BY <1>7 DEF FailRetire, Types
  <2> QED BY <1>7, <2>1, FatesFrame DEF FailRetire, Types
<1>8. ASSUME NEW t \in Thread, FailMqRelease(t) PROVE Fates'
  BY <1>8, FatesFrame DEF FailMqRelease, LaunchDone, Types
<1>9. ASSUME NEW t \in Thread, drop_message(t) PROVE Fates'
  <2>1. PICK g \in Handle : g = Dropping(t) /\ queue[g] # <<>>
    BY <1>9 DEF drop_message, InDrop, Dropping, Control, InHand, Types
  <2>2. queue[g] \in Seq(Message)
    BY DEF Types
  <2>3. PICK m \in Message : m = Head(queue[g])
    BY <2>1, <2>2, HeadTailProperties
  <2>4. /\ queue' = [queue EXCEPT ![g] = Tail(@)]
        /\ dropped' = dropped \cup {m.id} /\ UNCHANGED <<nsent, delivered>>
        /\ skynet_handle_grab(t, m.src, [id |-> m.id, src |-> g, error |-> TRUE])
    BY <1>9, <2>1, <2>3 DEF drop_message
  <2>5. m.error => m.id \in dropped
    <3>1. m = queue[g][1] /\ 1 \in 1 .. Len(queue[g])
      BY <2>1, <2>2, <2>3, HeadTailProperties, EmptySeq, LenProperties
    <3> QED BY <3>1 DEF Fates
  <2>6. ASSUME NEW u \in Thread, sub'[u].op = "push"
        PROVE  \/ sub'[u] = sub[u]
               \/ sub'[u].msg.error /\ sub'[u].msg.id = m.id /\ m.id \in dropped'
    <3>1. CASE m.src \in registered
      <4>1. sub' = [sub EXCEPT ![t] = [op |-> "push", h |-> m.src,
                                       msg |-> [id |-> m.id, src |-> g, error |-> TRUE]]]
        BY <2>4, <3>1 DEF skynet_handle_grab
      <4> QED BY <2>4, <4>1 DEF Types
    <3>2. CASE m.src \notin registered
      BY <2>4, <3>2 DEF skynet_handle_grab
    <3> QED BY <3>1, <3>2
  <2>7. m.error \in BOOLEAN
    BY DEF Message
  <2>8. \/ m.error /\ UNCHANGED <<delivered, dropped>>
        \/ ~m.error /\ dropped' = dropped \cup {m.id} /\ UNCHANGED delivered
    BY <2>4, <2>5, <2>7
  <2> QED BY <2>1, <2>3, <2>4, <2>6, <2>8, FatesTake
<1>10. ASSUME NEW t \in Thread, _release(t) PROVE Fates'
  BY <1>10, FatesFrame DEF _release, LaunchDone, Types
<1>11. ASSUME NEW t \in Thread, NEW h \in Handle, skynet_send(t, h) PROVE Fates'
  <2>1. CASE h \notin registered
    <3>1. UNCHANGED <<queue, delivered, dropped, sub>> /\ nsent' = nsent + 1
      BY <1>11, <2>1 DEF skynet_send, skynet_handle_grab
    <3> QED BY <3>1, FatesFrame DEF Types
  <2>2. CASE h \in registered
    <3>1. [id |-> nsent + 1, src |-> Source(t), error |-> FALSE] \in Message
      BY <1>11 DEF skynet_send, Message, Types, Source
    <3>2. PICK m \in Message : m = [id |-> nsent + 1, src |-> Source(t), error |-> FALSE]
      BY <3>1
    <3>3. /\ sub' = [sub EXCEPT ![t] = [op |-> "push", h |-> h, msg |-> m]]
          /\ UNCHANGED <<queue, delivered, dropped>> /\ nsent' = nsent + 1
      BY <1>11, <2>2, <3>2 DEF skynet_send, skynet_handle_grab
    <3>4. /\ \A u \in Thread \ {t} : sub'[u] = sub[u]
          /\ sub'[t].op = "push" /\ sub'[t].msg = m
      BY <3>3 DEF Types
    <3>5. m.id = nsent + 1 /\ ~m.error
      BY <3>2
    <3> QED BY <3>3, <3>4, <3>5, FatesSend
  <2> QED BY <2>1, <2>2
<1>12. ASSUME NEW t \in Thread, NEW h \in Handle, skynet_handle_retire(t, h) PROVE Fates'
  <2>1. \A u \in Thread : sub'[u].op = "push" => sub'[u] = sub[u]
    BY <1>12 DEF skynet_handle_retire, Types
  <2> QED BY <1>12, <2>1, FatesFrame DEF skynet_handle_retire, Types
<1>13. ASSUME NEW t \in Thread, NEW h \in Handle, skynet_context_new(t, h) PROVE Fates'
  BY <1>13, FatesFrame DEF skynet_context_new, LaunchDone, Types
<1>14. ASSUME NEW t \in Thread, NEW ok \in BOOLEAN, InitReturns(t, ok) PROVE Fates'
  <2>1. \A u \in Thread : sub'[u].op = "push" => sub'[u] = sub[u]
    BY <1>14 DEF InitReturns, DecRef, NoCall, Types
  <2> QED BY <1>14, <2>1, FatesFrame DEF InitReturns, Types
<1>15. ASSUME NEW w \in Worker, Fetch(w) PROVE Fates'
  BY <1>15, FatesFrame DEF Fetch, LaunchDone, Types
<1>16. ASSUME NEW w \in Worker, Wake(w) PROVE Fates'
  BY <1>16, FatesFrame DEF Wake, LaunchDone, Types
<1>17. ASSUME NEW w \in Worker, Grab(w) PROVE Fates'
  BY <1>17, FatesFrame DEF Grab, LaunchDone, Types
<1>18. ASSUME NEW w \in Worker, skynet_mq_release(w) PROVE Fates'
  BY <1>18, FatesFrame DEF skynet_mq_release, LaunchDone, Types
<1>19. ASSUME NEW w \in Worker, skynet_mq_pop(w) PROVE Fates'
  <2>1. CASE queue[q[w]] = <<>>
    <3>1. UNCHANGED <<queue, delivered, dropped, sub, nsent>>
      BY <1>19, <2>1 DEF skynet_mq_pop
    <3> QED BY <3>1, FatesFrame DEF Types
  <2>2. CASE queue[q[w]] # <<>>
    <3>1. PICK g \in Handle : g = q[w]
      BY <1>19 DEF skynet_mq_pop, At, Control, InHand, Types
    <3>2. queue[g] \in Seq(Message) /\ queue[g] # <<>>
      BY <2>2, <3>1 DEF Types
    <3>3. PICK m \in Message : m = Head(queue[g])
      BY <3>2, HeadTailProperties
    <3>4. /\ queue' = [queue EXCEPT ![g] = Tail(@)]
          /\ delivered' = delivered \cup (IF m.error THEN {} ELSE {m.id})
          /\ UNCHANGED <<sub, nsent, dropped>>
      BY <1>19, <2>2, <3>1, <3>3 DEF skynet_mq_pop
    <3>5. \/ m.error /\ UNCHANGED <<delivered, dropped>>
          \/ ~m.error /\ delivered' = delivered \cup {m.id} /\ UNCHANGED dropped
      BY <3>4
    <3> QED BY <3>2, <3>3, <3>4, <3>5, FatesTake
  <2> QED BY <2>1, <2>2
<1>20. ASSUME NEW w \in Worker, skynet_mq_length(w) PROVE Fates'
  BY <1>20, FatesFrame DEF skynet_mq_length, LaunchDone, Types
<1>21. ASSUME NEW w \in Worker, CallbackReturns(w) PROVE Fates'
  BY <1>21, FatesFrame DEF CallbackReturns, LaunchDone, Types
<1>22. ASSUME NEW w \in Worker, NextQueue(w) PROVE Fates'
  BY <1>22, FatesFrame DEF NextQueue, LaunchDone, Types
<1>23. ASSUME NEW w \in Worker, PushBack(w) PROVE Fates'
  BY <1>23, FatesFrame DEF PushBack, LaunchDone, Types
<1>24. ASSUME NEW w \in Worker, ReleaseCurrent(w) PROVE Fates'
  <2>1. \A u \in Thread : sub'[u].op = "push" => sub'[u] = sub[u]
    BY <1>24 DEF ReleaseCurrent, DecRef, NoCall, Types, Thread
  <2> QED BY <1>24, <2>1, FatesFrame DEF ReleaseCurrent, Types
<1>25. ASSUME NEW t \in Thread, Publish(t) PROVE Fates'
  BY <1>25, FatesFrame DEF Publish, Types
<1>26. ASSUME NEW t \in Thread, LaunchReturns(t) PROVE Fates'
  BY <1>26, FatesFrame DEF LaunchReturns, Types
<1> QED
  BY <1>2, <1>3, <1>4, <1>5, <1>6, <1>7, <1>8, <1>9, <1>10, <1>11, <1>12,
     <1>13, <1>14, <1>15, <1>16, <1>17, <1>18, <1>19, <1>20, <1>21, <1>22,
     <1>23, <1>24, <1>25, <1>26
     DEF Next, KernelStep, ServiceStep, InitEnds, WorkerStep

-----------------------------------------------------------------------------
LEMMA NextInv == KernelInv /\ [Next]_vars => KernelInv'
<1> SUFFICES ASSUME KernelInv, [Next]_vars PROVE KernelInv'
  OBVIOUS
<1>1. CASE Next
  BY <1>1, TypesStep, ControlStep, AloneStep, FoundStep, CountedStep, LivesStep,
     ReadyStep, FatesStep DEF KernelInv
<1>2. CASE UNCHANGED vars
  <2>1. Types' /\ Control' /\ Lives' /\ Ready'
    BY <1>2 DEF vars, KernelInv, Types, Control, Lives, Ready
  <2>2. Alone' /\ Found' /\ Fates'
    BY <1>2 DEF vars, KernelInv, Alone, Found, Placed, InHands, Fates, Pending
  <2>3. Counted'
    <3>1. ASSUME NEW h \in Handle
          PROVE  /\ Grabs(h)' = Grabs(h) /\ Users(h)' = Users(h)
                 /\ Creators(h)' = Creators(h) /\ Marks(h)' = Marks(h)
      BY <1>2 DEF vars, Grabs, Users, Creators, Marks
    <3>2. ASSUME NEW h \in Handle PROVE References(h)' = References(h)
      BY <1>2, <3>1 DEF vars, References
    <3> QED BY <1>2, <3>1, <3>2 DEF vars, KernelInv, Counted
  <2> QED BY <2>1, <2>2, <2>3 DEF KernelInv
<1> QED BY <1>1, <1>2

(* The inductive invariant of the kernel holds in every state that any     *)
(* interleaving of its threads reaches.                                    *)
THEOREM KernelInvariant == Spec => []KernelInv
<1>1. Init => KernelInv
  BY InitInv
<1>2. KernelInv /\ [Next]_vars => KernelInv'
  BY NextInv
<1> QED BY <1>1, <1>2, PTL DEF Spec

(* Whoever executes the code of a service has its queue in hand. *)
LEMMA ExecutesHolds ==
  ASSUME Types, Control, NEW t \in Thread
  PROVE  /\ Executes(t) \subseteq Holds(t)
         /\ Holds(t) \subseteq Handle
         /\ \A h \in Holds(t) : InHands(h)
<1>1. ASSUME t \in Worker PROVE InHand(pc[t], q[t], cur[t]) /\ q[t] \in Handle \cup {Nil}
  BY <1>1 DEF Control, Types
<1>2. lpc[t] \notin {"none", "return"} => lh[t] \in Handle
  BY DEF Control, Types
<1>3. Executes(t) \subseteq Holds(t)
  BY <1>1, <1>2, HandleAssumption DEF Executes, Holds, InHand
<1>4. ASSUME t \in Worker, pc[t] = "pushback" PROVE cur[t] \in Handle
  BY <1>1, <1>4 DEF InHand, Types
<1>5. Holds(t) \subseteq Handle
  BY <1>1, <1>2, <1>4 DEF Holds
<1>6. \A h \in Holds(t) : InHands(h)
  BY <1>1, <1>2 DEF Holds, InHands
<1> QED BY <1>3, <1>5, <1>6

(* No two threads hold the same queue. *)
LEMMA HoldsDisjoint ==
  ASSUME Types, Control, Alone, NEW t \in Thread, NEW u \in Thread, t # u
  PROVE  Holds(t) \cap Holds(u) = {}
<1> SUFFICES ASSUME NEW h \in Holds(t), h \in Holds(u) PROVE FALSE
  OBVIOUS
<1>1. h \in Handle /\ h # Nil
  BY ExecutesHolds, HandleAssumption
<1>2. \/ t \in Worker /\ q[t] = h
      \/ t \in Worker /\ pc[t] = "pushback" /\ cur[t] = h
      \/ lh[t] = h
  BY DEF Holds
<1>3. \/ u \in Worker /\ q[u] = h
      \/ u \in Worker /\ pc[u] = "pushback" /\ cur[u] = h
      \/ lh[u] = h
  BY DEF Holds
<1> QED BY <1>1, <1>2, <1>3 DEF Alone

(* The callback of a service runs on one thread at a time, never while its *)
(* init still runs on the launching thread, and only after init succeeded  *)
(* (dispatch_message, skynet_context_new), for any number of threads and   *)
(* services.                                                               *)
THEOREM MutualExclusionAlways == Spec => []MutualExclusion
<1>1. KernelInv => MutualExclusion
  <2> SUFFICES ASSUME KernelInv PROVE MutualExclusion
    OBVIOUS
  <2>1. Types /\ Control /\ Alone /\ Ready
    BY DEF KernelInv
  <2>2. ASSUME NEW t \in Thread, NEW u \in Thread, t # u
        PROVE  Executes(t) \cap Executes(u) = {}
    BY <2>1, <2>2, ExecutesHolds, HoldsDisjoint
  <2>3. ASSUME NEW w \in Worker, pc[w] \in {"length", "callback"} PROVE inited[cur[w]]
    BY <2>1, <2>3 DEF Control, InHand, Ready
  <2> QED BY <2>2, <2>3 DEF MutualExclusion
<1> QED BY <1>1, KernelInvariant, PTL

(* A queue is linked into the global queue once, or held by one thread,    *)
(* never both (skynet_globalmq_push and _pop); a queue that has messages   *)
(* is in one of these places.                                              *)
THEOREM QueueInOnePlaceAlways == Spec => []QueueInOnePlace
<1>1. KernelInv => QueueInOnePlace
  <2> SUFFICES ASSUME KernelInv PROVE QueueInOnePlace
    OBVIOUS
  <2>1. Types /\ Control /\ Alone /\ Found
    BY DEF KernelInv
  <2>2. \A i, j \in 1 .. Len(gq) : gq[i] = gq[j] => i = j
    BY <2>1 DEF Alone, Distinct
  <2>3. ASSUME NEW t \in Thread, NEW u \in Thread, t # u
        PROVE  Holds(t) \cap Holds(u) = {}
    BY <2>1, <2>3, HoldsDisjoint
  <2>4. ASSUME NEW t \in Thread, NEW i \in 1 .. Len(gq) PROVE gq[i] \notin Holds(t)
    BY <2>1, ExecutesHolds DEF Alone, Elems
  <2>5. ASSUME NEW h \in Handle, mem[h] = "alive", queue[h] # <<>>
        PROVE  \/ \E i \in 1 .. Len(gq) : gq[i] = h
               \/ \E t \in Thread : h \in Holds(t)
    <3>1. h \in Elems(gq) \/ InHands(h)
      BY <2>1, <2>5 DEF Found, Placed
    <3>2. InHands(h) => \E t \in Thread : h \in Holds(t)
      BY <2>1, HandleAssumption DEF InHands, Holds, Control, Thread
    <3> QED BY <3>1, <3>2 DEF Elems
  <2> QED BY <2>2, <2>3, <2>4, <2>5 DEF QueueInOnePlace
<1> QED BY <1>1, KernelInvariant, PTL

(* Queues and contexts outlive every use that holds a reference, and a     *)
(* queue is marked for release once, by the thread that dropped the last   *)
(* reference, when no push to it is in progress (skynet_context_release,   *)
(* delete_context, skynet_mq_release).  The launcher of a service uses it  *)
(* without a reference from the release in skynet_context_new to the       *)
(* return of cmd_launch: then the context is there only while its handle   *)
(* is registered.                                                          *)
THEOREM NoUseAfterFreeAlways == Spec => []NoUseAfterFree
<1>1. KernelInv => NoUseAfterFree
  <2> SUFFICES ASSUME KernelInv PROVE NoUseAfterFree
    OBVIOUS
  <2>1. Types /\ Control /\ Alone /\ Found /\ Counted /\ Lives
    BY DEF KernelInv
  <2>2. ASSUME NEW i \in 1 .. Len(gq) PROVE mem[gq[i]] = "alive"
    <3>1. gq[i] \in Handle /\ gq[i] \in Elems(gq)
      BY <2>1, ElementOfSeq DEF Types, Elems
    <3> QED BY <2>1, <3>1 DEF Found, Placed
  <2>3. ASSUME NEW t \in Thread, NEW h \in Holds(t) PROVE mem[h] = "alive"
    <3>1. h \in Handle /\ InHands(h)
      BY <2>1, ExecutesHolds
    <3> QED BY <2>1, <3>1 DEF Found, Placed
  <2>4. ASSUME NEW t \in Thread, sub[t].op \in {"push", "release", "mark"}
        PROVE  ctx[sub[t].h] = "alive" /\ mem[sub[t].h] = "alive"
    <3>1. PICK h \in Handle : h = sub[t].h
      BY <2>1, <2>4, Calls
    <3>2. Grabs(h) # {} \/ Marks(h) # {}
      BY <2>4, <3>1 DEF Grabs, Marks
    <3>3. ctx[h] = "alive"
      BY <2>1, <3>2, CountFacts DEF Counted
    <3> QED BY <2>1, <3>1, <3>3 DEF Lives
  <2>5. ASSUME NEW t \in Thread, lpc[t] = "init" PROVE ctx[lh[t]] = "alive"
    <3>1. PICK h \in Handle : h = lh[t]
      BY <2>1, <2>5 DEF Control, Types
    <3>2. Creators(h) # {}
      BY <2>5, <3>1 DEF Creators
    <3> QED BY <2>1, <3>1, <3>2, CountFacts
  <2>6. ASSUME NEW t \in Thread, sub[t].op = "mark"
        PROVE  /\ ~release[sub[t].h]
               /\ sub[t].h \notin registered
               /\ \A u \in Thread : sub[u].op = "push" => sub[u].h # sub[t].h
    <3>1. PICK h \in Handle : h = sub[t].h
      BY <2>1, <2>6, Calls
    <3>2. Marks(h) # {} /\ ref[h] = 0 /\ ctx[h] = "alive"
      BY <2>1, <2>6, <3>1 DEF Marks, Counted
    <3>3. h \notin registered /\ Grabs(h) = {}
      BY <2>1, <3>2, CountFacts
    <3>4. ~release[h]
      BY <2>1, <3>2 DEF Lives
    <3> QED BY <3>1, <3>3, <3>4 DEF Grabs
  <2>7. ASSUME NEW w \in Worker, cur[w] # Nil PROVE ctx[cur[w]] = "alive"
    <3>1. PICK h \in Handle : h = cur[w]
      BY <2>1, <2>7 DEF Types
    <3>2. Users(h) # {}
      BY <3>1 DEF Users
    <3> QED BY <2>1, <3>1, <3>2, CountFacts
  <2>8. ASSUME NEW t \in Thread, NEW h \in Unreferenced(t), h \in registered
        PROVE  ctx[h] = "alive"
    BY <2>1, <2>8, CountFacts DEF Types
  <2> QED BY <2>2, <2>3, <2>4, <2>5, <2>6, <2>7, <2>8 DEF NoUseAfterFree
<1> QED BY <1>1, KernelInvariant, PTL

(* A message is dispatched at most once, and never both dispatched and     *)
(* reported to its sender as lost with the queue (skynet_mq_pop,           *)
(* _drop_queue); once it has met its fate no copy of it is left.           *)
THEOREM ExactlyOnceAlways == Spec => []ExactlyOnce
<1>1. KernelInv => ExactlyOnce
  BY DEF KernelInv, Fates, ExactlyOnce
<1> QED BY <1>1, KernelInvariant, PTL

=============================================================================
