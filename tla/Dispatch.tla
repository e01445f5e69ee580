----------------------------- MODULE Dispatch -----------------------------
(***************************************************************************)
(* The actor kernel: message queues (skynet_mq.c), the handle table        *)
(* (skynet_handle.c), contexts and their dispatch (skynet_server.c) and    *)
(* the worker threads (skynet_start.c).                                    *)
(*                                                                         *)
(* A step is one critical section (a spinlock, the rwlock of the handle    *)
(* table) or one atomic operation on a reference count: between two steps  *)
(* of a thread every other thread may run.  Worker threads run the         *)
(* callbacks of services; a callback may send, kill and launch.  Outside   *)
(* threads (timer, socket) only send.  The ring buffer inside a queue is a *)
(* sequence here.                                                          *)
(***************************************************************************)
EXTENDS Naturals, Integers, Sequences, FiniteSets

CONSTANTS
  Worker,       \* worker threads
  Outside,      \* the timer and socket threads
  Handle,       \* service handles; a handle is used for one service
  Boot,         \* sequence of the services launched before the workers start
  Weight,       \* weight[] of start(): Worker -> -1 .. 3
  MaxSend,      \* bound on the number of messages services and threads send
  Nil           \* no handle, no queue; a message source of 0

Thread == Worker \cup Outside

ASSUME ThreadAssumption == IsFiniteSet(Thread) /\ Worker \cap Outside = {}
ASSUME HandleAssumption == IsFiniteSet(Handle) /\ Nil \notin Handle
ASSUME BootAssumption ==
  /\ Boot \in Seq(Handle)
  /\ \A i, j \in 1 .. Len(Boot) : Boot[i] = Boot[j] => i = j
ASSUME WeightAssumption == Weight \in [Worker -> -1 .. 3]
ASSUME SendAssumption == MaxSend \in Nat

VARIABLES
  registered,   \* handles found in H->slot
  ref,          \* ctx->ref
  ctx,          \* the context's memory: "none", "alive" or "freed"
  inited,       \* ctx->init
  mem,          \* the queue's memory: "none", "alive" or "freed"
  queue,        \* the messages of a message_queue
  in_global,    \* q->in_global
  release,      \* q->release
  gq,           \* the global queue Q
  pc,           \* worker: where it is in thread_worker/message_dispatch
  q,            \* worker: the queue it holds, or Nil
  cur,          \* worker: the context it grabbed, or Nil
  left,         \* worker: n - i of the dispatch loop
  lpc,          \* thread: where it is in skynet_context_new, "none" outside
  lh,           \* thread: the handle whose queue its launch holds, or Nil
  inst,         \* thread: the context its launch is about to return, or Nil
  sub,          \* thread: the kernel call it is inside of
  nsent,        \* messages sent so far, the source of message ids
  delivered,    \* history: ids of messages given to a callback
  dropped       \* history: ids of messages dropped with their queue

ctxvars == <<registered, ref, ctx, inited>>
mqvars == <<mem, queue, in_global, release>>
wvars == <<pc, q, cur, left>>
lvars == <<lpc, lh, inst>>
hist == <<nsent, delivered, dropped>>
vars == <<registered, ref, ctx, inited, mem, queue, in_global, release, gq,
          pc, q, cur, left, lpc, lh, inst, sub, nsent, delivered, dropped>>

Message == [id : 1 .. MaxSend, src : Handle \cup {Nil}, error : BOOLEAN]
NoCall == [op |-> "none"]
Call == {NoCall} \cup [op : {"push"}, h : Handle, msg : Message]
                 \cup [op : {"release", "mark"}, h : Handle]
WorkerPC == {"fetch", "sleep", "grab", "mqrelease", "drop", "pop0", "length",
             "callback", "pop", "next", "pushback", "release"}
LaunchPC == {"none", "init", "setinit", "publish", "return", "enqueue", "failretire",
             "failmq", "drop"}

-----------------------------------------------------------------------------
(* Mutant: the reference is not counted. *)
skynet_handle_grab_uncounted(t, h, msg) ==
  IF h \in registered
  THEN /\ sub' = [sub EXCEPT ![t] = [op |-> "push", h |-> h, msg |-> msg]]
       /\ UNCHANGED ref
  ELSE UNCHANGED <<ref, sub>>

(* skynet_handle_grab, as the first half of skynet_context_push: a message *)
(* to an unregistered handle is freed and the sender sees -1.              *)
skynet_handle_grab(t, h, msg) ==
  IF h \in registered
  THEN /\ ref' = [ref EXCEPT ![h] = @ + 1]
       /\ sub' = [sub EXCEPT ![t] = [op |-> "push", h |-> h, msg |-> msg]]
  ELSE UNCHANGED <<ref, sub>>

(* ATOM_FDEC of skynet_context_release: the last reference goes on to      *)
(* delete_context.                                                         *)
DecRef(t, h) ==
  /\ ref' = [ref EXCEPT ![h] = @ - 1]
  /\ sub' = [sub EXCEPT ![t] =
       IF ref[h] = 1 THEN [op |-> "mark", h |-> h] ELSE NoCall]

(* Service code runs: in a callback, or in the init of a launched module.  *)
Running(t) ==
  /\ sub[t] = NoCall
  /\ \/ t \in Worker /\ pc[t] = "callback" /\ lpc[t] = "none"
     \/ lpc[t] = "init"

Source(t) == IF lpc[t] = "init" THEN lh[t] ELSE IF t \in Worker THEN cur[t] ELSE Nil

skynet_send(t, h) ==
  /\ Running(t) \/ (t \in Outside /\ sub[t] = NoCall)
  /\ nsent < MaxSend
  /\ nsent' = nsent + 1
  /\ skynet_handle_grab(t, h, [id |-> nsent + 1, src |-> Source(t), error |-> FALSE])
  /\ UNCHANGED <<registered, ctx, inited, mqvars, gq, wvars, lvars, delivered, dropped>>

(* Mutant: the queue enters the global queue whether it is there or not. *)
skynet_mq_push_always(t) ==
  /\ sub[t].op = "push"
  /\ LET h == sub[t].h
     IN  /\ queue' = [queue EXCEPT ![h] = Append(@, sub[t].msg)]
         /\ gq' = Append(gq, h)
         /\ in_global' = [in_global EXCEPT ![h] = TRUE]
         /\ sub' = [sub EXCEPT ![t] = [op |-> "release", h |-> h]]
  /\ UNCHANGED <<ctxvars, mem, release, wvars, lvars, hist>>

skynet_mq_push(t) ==
  /\ sub[t].op = "push"
  /\ LET h == sub[t].h
     IN  /\ queue' = [queue EXCEPT ![h] = Append(@, sub[t].msg)]
         /\ gq' = IF in_global[h] THEN gq ELSE Append(gq, h)
         /\ in_global' = [in_global EXCEPT ![h] = TRUE]
         /\ sub' = [sub EXCEPT ![t] = [op |-> "release", h |-> h]]
  /\ UNCHANGED <<ctxvars, mem, release, wvars, lvars, hist>>

skynet_context_release(t) ==
  /\ sub[t].op = "release"
  /\ DecRef(t, sub[t].h)
  /\ UNCHANGED <<registered, ctx, inited, mqvars, gq, wvars, lvars, hist>>

(* Mutant: an idle queue is marked but handed to no worker. *)
delete_context_quietly(t) ==
  /\ sub[t].op = "mark"
  /\ release' = [release EXCEPT ![sub[t].h] = TRUE]
  /\ ctx' = [ctx EXCEPT ![sub[t].h] = "freed"]
  /\ sub' = [sub EXCEPT ![t] = NoCall]
  /\ UNCHANGED <<registered, ref, inited, mem, queue, in_global, gq, wvars, lvars, hist>>

(* skynet_mq_mark_release, and the context's memory is freed. *)
delete_context(t) ==
  /\ sub[t].op = "mark"
  /\ LET h == sub[t].h
     IN  /\ release' = [release EXCEPT ![h] = TRUE]
         /\ gq' = IF in_global[h] THEN gq ELSE Append(gq, h)
         /\ ctx' = [ctx EXCEPT ![h] = "freed"]
  /\ sub' = [sub EXCEPT ![t] = NoCall]
  /\ UNCHANGED <<registered, ref, inited, mem, queue, in_global, wvars, lvars, hist>>

(* cmd_exit, cmd_kill, and each round of skynet_handle_retireall. *)
skynet_handle_retire(t, h) ==
  /\ Running(t)
  /\ h \in registered
  /\ registered' = registered \ {h}
  /\ sub' = [sub EXCEPT ![t] = [op |-> "release", h |-> h]]
  /\ UNCHANGED <<ref, ctx, inited, mqvars, gq, wvars, lvars, hist>>
-----------------------------------------------------------------------------
(* skynet_context_new (cmd_launch): register, create the queue with        *)
(* in_global set so that no push can hand it to a worker, run init, then   *)
(* drop the creation reference and only now enter the global queue.        *)
skynet_context_new(t, h) ==
  /\ Running(t) /\ lpc[t] = "none"
  /\ ctx[h] = "none"
  /\ registered' = registered \cup {h}
  /\ ref' = [ref EXCEPT ![h] = 2]
  /\ ctx' = [ctx EXCEPT ![h] = "alive"]
  /\ mem' = [mem EXCEPT ![h] = "alive"]
  /\ in_global' = [in_global EXCEPT ![h] = TRUE]
  /\ lpc' = [lpc EXCEPT ![t] = "init"]
  /\ lh' = [lh EXCEPT ![t] = h]
  /\ UNCHANGED <<inited, queue, release, gq, wvars, inst, sub, hist>>

(* init returned 0 (TRUE) or an error.  A kill during init leaves the      *)
(* creation reference as the last one: then ret is NULL.                   *)
InitReturns(t, ok) ==
  /\ lpc[t] = "init" /\ sub[t] = NoCall
  /\ DecRef(t, lh[t])
  /\ lpc' = [lpc EXCEPT ![t] = IF ~ok THEN "failretire"
                               ELSE IF ref[lh[t]] = 1 THEN "enqueue" ELSE "setinit"]
  /\ UNCHANGED <<registered, ctx, inited, mqvars, gq, wvars, lh, inst, hist>>

(* ctx->init = true, after the launcher gave its own reference back. *)
SetInit(t) ==
  /\ lpc[t] = "setinit"
  /\ inited' = [inited EXCEPT ![lh[t]] = TRUE]
  /\ lpc' = [lpc EXCEPT ![t] = "publish"]
  /\ UNCHANGED <<registered, ref, ctx, mqvars, gq, wvars, lh, inst, sub, hist>>

LaunchDone(t) ==
  /\ lpc' = [lpc EXCEPT ![t] = "none"]
  /\ lh' = [lh EXCEPT ![t] = Nil]
  /\ UNCHANGED inst

(* skynet_globalmq_push: the launch gives the queue away.  A launch whose  *)
(* ret is NULL is over; one that succeeded goes on with the context.       *)
Enqueue(t) ==
  /\ lpc[t] = "enqueue" /\ sub[t] = NoCall
  /\ gq' = Append(gq, lh[t])
  /\ LaunchDone(t)
  /\ UNCHANGED <<ctxvars, mqvars, wvars, sub, hist>>

Publish(t) ==
  /\ lpc[t] = "publish"
  /\ gq' = Append(gq, lh[t])
  /\ lpc' = [lpc EXCEPT ![t] = "return"]
  /\ lh' = [lh EXCEPT ![t] = Nil]
  /\ inst' = [inst EXCEPT ![t] = lh[t]]
  /\ UNCHANGED <<ctxvars, mqvars, wvars, sub, hist>>

(* skynet_error(ret, ..), and cmd_launch reads inst->handle.               *)
LaunchReturns(t) ==
  /\ lpc[t] = "return"
  /\ lpc' = [lpc EXCEPT ![t] = "none"]
  /\ inst' = [inst EXCEPT ![t] = Nil]
  /\ UNCHANGED <<ctxvars, mqvars, gq, wvars, lh, sub, hist>>

FailRetire(t) ==
  /\ lpc[t] = "failretire" /\ sub[t] = NoCall
  /\ lpc' = [lpc EXCEPT ![t] = "failmq"]
  /\ IF lh[t] \in registered
     THEN /\ registered' = registered \ {lh[t]}
          /\ sub' = [sub EXCEPT ![t] = [op |-> "release", h |-> lh[t]]]
     ELSE UNCHANGED <<registered, sub>>
  /\ UNCHANGED <<ref, ctx, inited, mqvars, gq, wvars, lh, inst, hist>>

(* skynet_mq_release of a failed launch. *)
FailMqRelease(t) ==
  /\ lpc[t] = "failmq" /\ sub[t] = NoCall
  /\ IF release[lh[t]]
     THEN lpc' = [lpc EXCEPT ![t] = "drop"] /\ UNCHANGED <<gq, lh, inst>>
     ELSE gq' = Append(gq, lh[t]) /\ LaunchDone(t)
  /\ UNCHANGED <<ctxvars, mqvars, wvars, sub, hist>>

-----------------------------------------------------------------------------
(* _drop_queue: every message left is reported to its source as an error;  *)
(* then the queue is freed.                                                *)
Dropping(t) == IF lpc[t] = "drop" THEN lh[t] ELSE q[t]

InDrop(t) == /\ sub[t] = NoCall
             /\ lpc[t] = "drop" \/ (t \in Worker /\ pc[t] = "drop")

drop_message(t) ==
  /\ InDrop(t)
  /\ LET h == Dropping(t)
         m == Head(queue[h])
     IN  /\ queue[h] # <<>>
         /\ queue' = [queue EXCEPT ![h] = Tail(@)]
         /\ dropped' = dropped \cup {m.id}
         /\ skynet_handle_grab(t, m.src, [id |-> m.id, src |-> h, error |-> TRUE])
  /\ UNCHANGED <<registered, ctx, inited, mem, in_global, release, gq, wvars, lvars,
                 nsent, delivered>>

_release(t) ==
  /\ InDrop(t)
  /\ LET h == Dropping(t)
     IN  /\ queue[h] = <<>>
         /\ in_global' = [in_global EXCEPT ![h] = FALSE]
         /\ mem' = [mem EXCEPT ![h] = "freed"]
  /\ IF lpc[t] = "drop" THEN LaunchDone(t) /\ UNCHANGED wvars
     ELSE /\ pc' = [pc EXCEPT ![t] = "fetch"]
          /\ q' = [q EXCEPT ![t] = Nil]
          /\ UNCHANGED <<cur, left, lvars>>
  /\ UNCHANGED <<ctxvars, queue, release, gq, sub, hist>>

-----------------------------------------------------------------------------
(* thread_worker and skynet_context_message_dispatch.                      *)
At(w, where) == pc[w] = where /\ sub[w] = NoCall /\ lpc[w] = "none"
Goto(w, where) == pc' = [pc EXCEPT ![w] = where]

(* skynet_globalmq_pop with no queue in hand; a worker that finds nothing  *)
(* waits on the condition variable.                                        *)
Fetch(w) ==
  /\ At(w, "fetch")
  /\ IF gq = <<>> THEN Goto(w, "sleep") /\ UNCHANGED <<q, gq>>
     ELSE /\ q' = [q EXCEPT ![w] = Head(gq)]
          /\ gq' = Tail(gq)
          /\ Goto(w, "grab")
  /\ UNCHANGED <<ctxvars, mqvars, cur, left, lvars, sub, hist>>

(* wakeup(): the timer thread signals every 2.5ms while a worker sleeps. *)
Wake(w) ==
  /\ At(w, "sleep")
  /\ Goto(w, "fetch")
  /\ UNCHANGED <<ctxvars, mqvars, gq, q, cur, left, lvars, sub, hist>>

Grab(w) ==
  /\ At(w, "grab")
  /\ IF q[w] \in registered
     THEN /\ ref' = [ref EXCEPT ![q[w]] = @ + 1]
          /\ cur' = [cur EXCEPT ![w] = q[w]]
          /\ left' = [left EXCEPT ![w] = 1]
          /\ Goto(w, "pop0")
     ELSE Goto(w, "mqrelease") /\ UNCHANGED <<ref, cur, left>>
  /\ UNCHANGED <<registered, ctx, inited, mqvars, gq, q, lvars, sub, hist>>

skynet_mq_release(w) ==
  /\ At(w, "mqrelease")
  /\ IF release[q[w]]
     THEN Goto(w, "drop") /\ UNCHANGED <<gq, q>>
     ELSE /\ gq' = Append(gq, q[w])
          /\ q' = [q EXCEPT ![w] = Nil]
          /\ Goto(w, "fetch")
  /\ UNCHANGED <<ctxvars, mqvars, cur, left, lvars, sub, hist>>

(* Mutants: in_global stays set when the queue is empty; head stays put. *)
skynet_mq_pop_stays_global(w) ==
  /\ At(w, "pop0") \/ At(w, "pop")
  /\ IF queue[q[w]] = <<>>
     THEN /\ q' = [q EXCEPT ![w] = Nil]
          /\ Goto(w, "release")
          /\ UNCHANGED <<queue, delivered>>
     ELSE /\ queue' = [queue EXCEPT ![q[w]] = Tail(@)]
          /\ delivered' = delivered \cup
               (IF Head(queue[q[w]]).error THEN {} ELSE {Head(queue[q[w]]).id})
          /\ Goto(w, IF pc[w] = "pop0" /\ Weight[w] >= 0 THEN "length" ELSE "callback")
          /\ UNCHANGED q
  /\ UNCHANGED <<ctxvars, mem, in_global, release, gq, cur, left, lvars, sub, nsent, dropped>>

skynet_mq_pop_keeps_head(w) ==
  /\ At(w, "pop0") \/ At(w, "pop")
  /\ queue[q[w]] # <<>>
  /\ delivered' = delivered \cup {Head(queue[q[w]]).id}
  /\ Goto(w, "callback")
  /\ UNCHANGED <<ctxvars, mqvars, gq, q, cur, left, lvars, sub, nsent, dropped>>

(* An empty queue leaves the worker's hands: in_global becomes 0. *)
skynet_mq_pop(w) ==
  /\ At(w, "pop0") \/ At(w, "pop")
  /\ IF queue[q[w]] = <<>>
     THEN /\ in_global' = [in_global EXCEPT ![q[w]] = FALSE]
          /\ q' = [q EXCEPT ![w] = Nil]
          /\ Goto(w, "release")
          /\ UNCHANGED <<queue, delivered>>
     ELSE /\ queue' = [queue EXCEPT ![q[w]] = Tail(@)]
          /\ delivered' = delivered \cup
               (IF Head(queue[q[w]]).error THEN {} ELSE {Head(queue[q[w]]).id})
          /\ Goto(w, IF pc[w] = "pop0" /\ Weight[w] >= 0 THEN "length" ELSE "callback")
          /\ UNCHANGED <<in_global, q>>
  /\ UNCHANGED <<ctxvars, mem, release, gq, cur, left, lvars, sub, nsent, dropped>>

skynet_mq_length(w) ==
  /\ At(w, "length")
  /\ left' = [left EXCEPT ![w] = Len(queue[q[w]]) \div (2 ^ Weight[w])]
  /\ Goto(w, "callback")
  /\ UNCHANGED <<ctxvars, mqvars, gq, q, cur, lvars, sub, hist>>

(* dispatch_message returns; the loop goes on while i < n. *)
CallbackReturns(w) ==
  /\ At(w, "callback")
  /\ left' = [left EXCEPT ![w] = @ - 1]
  /\ Goto(w, IF left[w] > 1 THEN "pop" ELSE "next")
  /\ UNCHANGED <<ctxvars, mqvars, gq, q, cur, lvars, sub, hist>>

(* nq = skynet_globalmq_pop(): q is pushed back only if there is another   *)
(* queue to serve, otherwise the worker keeps it.                          *)
NextQueue(w) ==
  /\ At(w, "next")
  /\ IF gq = <<>> THEN Goto(w, "release") /\ UNCHANGED <<q, gq>>
     ELSE /\ q' = [q EXCEPT ![w] = Head(gq)]
          /\ gq' = Tail(gq)
          /\ Goto(w, "pushback")
  /\ UNCHANGED <<ctxvars, mqvars, cur, left, lvars, sub, hist>>

(* Mutant: the wrong one of the two queues is pushed back. *)
PushBackNext(w) ==
  /\ At(w, "pushback")
  /\ gq' = Append(gq, q[w])
  /\ Goto(w, "release")
  /\ UNCHANGED <<ctxvars, mqvars, q, cur, left, lvars, sub, hist>>

PushBack(w) ==
  /\ At(w, "pushback")
  /\ gq' = Append(gq, cur[w])
  /\ Goto(w, "release")
  /\ UNCHANGED <<ctxvars, mqvars, q, cur, left, lvars, sub, hist>>

ReleaseCurrent(w) ==
  /\ At(w, "release")
  /\ DecRef(w, cur[w])
  /\ cur' = [cur EXCEPT ![w] = Nil]
  /\ Goto(w, IF q[w] = Nil THEN "fetch" ELSE "grab")
  /\ UNCHANGED <<registered, ctx, inited, mqvars, gq, q, left, lvars, hist>>

-----------------------------------------------------------------------------
Booted == {Boot[i] : i \in 1 .. Len(Boot)}

Init ==
  /\ registered = Booted
  /\ ref = [h \in Handle |-> IF h \in Booted THEN 1 ELSE 0]
  /\ ctx = [h \in Handle |-> IF h \in Booted THEN "alive" ELSE "none"]
  /\ inited = [h \in Handle |-> h \in Booted]
  /\ mem = ctx
  /\ queue = [h \in Handle |-> <<>>]
  /\ in_global = [h \in Handle |-> h \in Booted]
  /\ release = [h \in Handle |-> FALSE]
  /\ gq = Boot
  /\ pc = [w \in Worker |-> "fetch"]
  /\ q = [w \in Worker |-> Nil]
  /\ cur = [w \in Worker |-> Nil]
  /\ left = [w \in Worker |-> 0]
  /\ lpc = [t \in Thread |-> "none"]
  /\ lh = [t \in Thread |-> Nil]
  /\ inst = [t \in Thread |-> Nil]
  /\ sub = [t \in Thread |-> NoCall]
  /\ nsent = 0 /\ delivered = {} /\ dropped = {}

(* What a thread does by itself: finish the kernel call it is in. *)
KernelStep(t) ==
  \/ skynet_mq_push(t) \/ skynet_context_release(t) \/ delete_context(t)
  \/ SetInit(t) \/ Publish(t) \/ LaunchReturns(t) \/ Enqueue(t) \/ FailRetire(t) \/ FailMqRelease(t)
  \/ drop_message(t) \/ _release(t)

WorkerStep(w) ==
  \/ Fetch(w) \/ Wake(w) \/ Grab(w) \/ skynet_mq_release(w) \/ skynet_mq_pop(w)
  \/ skynet_mq_length(w) \/ CallbackReturns(w) \/ NextQueue(w) \/ PushBack(w)
  \/ ReleaseCurrent(w)

(* What the code of a service, or the timer and socket threads, decide. *)
ServiceStep(t) ==
  \E h \in Handle :
    skynet_send(t, h) \/ skynet_handle_retire(t, h) \/ skynet_context_new(t, h)

InitEnds(t) == InitReturns(t, TRUE) \/ InitReturns(t, FALSE)

Next ==
  \/ \E t \in Thread : KernelStep(t) \/ ServiceStep(t) \/ InitEnds(t)
  \/ \E w \in Worker : WorkerStep(w)

Spec == Init /\ [][Next]_vars

(* Every thread keeps running, callbacks and init functions return (the    *)
(* monitor thread only reports the ones that do not), and the timer wakes  *)
(* sleeping workers.  Nothing is assumed about what services decide to do. *)
Fairness ==
  /\ \A t \in Thread : WF_vars(KernelStep(t)) /\ WF_vars(InitEnds(t))
  /\ \A w \in Worker : WF_vars(WorkerStep(w))

FairSpec == Spec /\ Fairness
-----------------------------------------------------------------------------
(* Kernel state keeps its types; a reference count is never negative. *)
TypeOK ==
  /\ registered \subseteq Handle
  /\ ref \in [Handle -> Nat]
  /\ ctx \in [Handle -> {"none", "alive", "freed"}]
  /\ inited \in [Handle -> BOOLEAN]
  /\ mem \in [Handle -> {"none", "alive", "freed"}]
  /\ queue \in [Handle -> Seq(Message)]
  /\ in_global \in [Handle -> BOOLEAN]
  /\ release \in [Handle -> BOOLEAN]
  /\ gq \in Seq(Handle)
  /\ pc \in [Worker -> WorkerPC]
  /\ q \in [Worker -> Handle \cup {Nil}]
  /\ cur \in [Worker -> Handle \cup {Nil}]
  /\ left \in [Worker -> Int]
  /\ lpc \in [Thread -> LaunchPC]
  /\ lh \in [Thread -> Handle \cup {Nil}]
  /\ inst \in [Thread -> Handle \cup {Nil}]
  /\ sub \in [Thread -> Call]
  /\ nsent \in 0 .. MaxSend
  /\ delivered \subseteq 1 .. MaxSend
  /\ dropped \subseteq 1 .. MaxSend

(* The services whose code thread t is executing. *)
Executes(t) ==
  (IF t \in Worker /\ pc[t] \in {"length", "callback"} THEN {cur[t]} ELSE {})
    \cup (IF lpc[t] = "init" THEN {lh[t]} ELSE {})

(* The queues in the hands of thread t: no other thread may find them.     *)
Holds(t) ==
  (IF t \in Worker /\ q[t] # Nil THEN {q[t]} ELSE {})
    \cup (IF t \in Worker /\ pc[t] = "pushback" THEN {cur[t]} ELSE {})
    \cup (IF lpc[t] \notin {"none", "return"} THEN {lh[t]} ELSE {})

(* A service is an actor: its callback is never executed by two worker     *)
(* threads at once, nor while its init still runs on the launching thread, *)
(* nor before init has succeeded, whoever sent to it meanwhile             *)
(* (assert(ctx->init) in dispatch_message).                                *)
MutualExclusion ==
  /\ \A t, u \in Thread : t # u => Executes(t) \cap Executes(u) = {}
  /\ \A w \in Worker : pc[w] \in {"length", "callback"} => inited[cur[w]]

(* The property behind it: a queue is in one place only, once in the       *)
(* global queue or in the hands of one thread (the assert on queue->next   *)
(* in skynet_globalmq_push); and a queue with messages is in one of them,  *)
(* so that some worker will serve it.                                      *)
QueueInOnePlace ==
  /\ \A i, j \in 1 .. Len(gq) : gq[i] = gq[j] => i = j
  /\ \A t, u \in Thread : t # u => Holds(t) \cap Holds(u) = {}
  /\ \A t \in Thread, i \in 1 .. Len(gq) : gq[i] \notin Holds(t)
  /\ \A h \in Handle :
       mem[h] = "alive" /\ queue[h] # <<>>
         => \/ \E i \in 1 .. Len(gq) : gq[i] = h
            \/ \E t \in Thread : h \in Holds(t)

(* The context a launch goes on working with after it has given its own    *)
(* reference back: it sets ctx->init, logs with ret, and cmd_launch reads  *)
(* inst->handle.                                                           *)
Unreferenced(t) ==
  IF lpc[t] \in {"setinit", "publish"} THEN {lh[t]}
  ELSE IF lpc[t] = "return" THEN {inst[t]} ELSE {}

(* Memory outlives its use, with one exception.  A queue in the global     *)
(* queue or in hand, a context being pushed to, released, dispatched or    *)
(* initialised, still exists; a queue is marked for release once           *)
(* (assert(q->release == 0)), and when nobody can push to it any more.     *)
(* The exception: between skynet_context_release in skynet_context_new and *)
(* the return of cmd_launch the launcher uses the context without a        *)
(* reference.  It is there as long as its handle is registered; a service  *)
(* retired in this window (its own exit, or a kill) may already be freed   *)
(* when the launcher writes ctx->init or reads inst->handle.               *)
NoUseAfterFree ==
  /\ \A i \in 1 .. Len(gq) : mem[gq[i]] = "alive"
  /\ \A t \in Thread :
       /\ \A h \in Holds(t) : mem[h] = "alive"
       /\ sub[t].op \in {"push", "release", "mark"} =>
            ctx[sub[t].h] = "alive" /\ mem[sub[t].h] = "alive"
       /\ lpc[t] = "init" => ctx[lh[t]] = "alive"
       /\ \A h \in Unreferenced(t) : h \in registered => ctx[h] = "alive"
       /\ sub[t].op = "mark" =>
            /\ ~release[sub[t].h]
            /\ sub[t].h \notin registered
            /\ \A u \in Thread : sub[u].op = "push" => sub[u].h # sub[t].h
  /\ \A w \in Worker : cur[w] # Nil => ctx[cur[w]] = "alive"

Pending(i) ==
  \/ \E h \in Handle : \E k \in 1 .. Len(queue[h]) :
       queue[h][k].id = i /\ ~queue[h][k].error
  \/ \E t \in Thread : sub[t].op = "push" /\ sub[t].msg.id = i /\ ~sub[t].msg.error

(* Every message accepted by skynet_send is eventually given to the        *)
(* service's callback or dropped with its queue and reported.              *)
Delivery ==
  \A i \in 1 .. MaxSend : Pending(i) ~> i \in delivered \cup dropped

(* A killed or failed service gives its memory back: its context, and then *)
(* its queue, are freed.                                                   *)
Reclaimed ==
  \A h \in Handle :
    (mem[h] = "alive" /\ h \notin registered) ~> (mem[h] = "freed" /\ ctx[h] = "freed")

(* At most one fate per message: it is not dispatched twice, and not both  *)
(* dispatched and reported as lost.                                        *)
ExactlyOnce ==
  /\ delivered \cap dropped = {}
  /\ \A i \in delivered \cup dropped : ~Pending(i)
=============================================================================
