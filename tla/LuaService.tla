----------------------------- MODULE LuaService -----------------------------
(***************************************************************************)
(* The coroutines of one Lua service: the scheduler of lualib/skynet.lua   *)
(* and the critical section of skynet.queue on top of it.                  *)
(*                                                                         *)
(* A message resumes one coroutine.  When it yields, dispatch_wakeup       *)
(* resumes those that were woken, then those whose calls failed, and       *)
(* dispatch_message at last those that were forked, before the next        *)
(* message is taken.  The code of the service is arbitrary: between two    *)
(* yields a coroutine calls, sleeps, waits, wakes, forks, enters and       *)
(* leaves the queue, returns or fails as it likes.                         *)
(*                                                                         *)
(* A coroutine that has ended goes back to the pool and is used again,     *)
(* under the same identity.  A session id is used again once nothing       *)
(* refers to it (the source counts on and on).                             *)
(***************************************************************************)
EXTENDS Naturals, Sequences, FiniteSets, SequencesExt

CONSTANTS
  Co,        \* coroutines
  Session,   \* session ids: bounds the calls and timers under way
  Service,   \* the services that are called
  Nil,       \* nil
  Break,     \* the mark "BREAK" of an interrupted session
  Noop       \* the empty function that suspend forks

ASSUME LuaAssumption ==
  /\ Session \subseteq Nat /\ IsFiniteSet(Session)
  /\ Nil \notin Co \cup Session \cup Service
  /\ Break \notin Co \cup {Nil} /\ Noop \notin Co

VARIABLES
  session_id_coroutine,   \* session -> coroutine, Break or Nil
  sleep_session,          \* token -> session; the token is the coroutine
  watching_session,       \* session -> service that is called
  wakeup_queue, error_queue, fork_queue,
  state,      \* coroutine -> what it is doing
  on,         \* coroutine -> the session it is suspended for
  running,    \* running_thread, while it runs
  phase,      \* where dispatch_message is
  due,        \* session -> what is still to come for it
  dead,       \* services that have exited
  current_thread, ref, thread_queue,   \* skynet.queue
  level       \* coroutine -> its calls of the queue function

tables == <<session_id_coroutine, sleep_session, watching_session>>
queue == <<current_thread, ref, thread_queue, level>>
world == <<due, dead>>
vars == <<tables, wakeup_queue, error_queue, fork_queue, state, on, running,
          phase, world, queue>>

-----------------------------------------------------------------------------
(* Resuming a coroutine. *)

Run(c) ==
  /\ running' = c
  /\ phase' = "run"

(* Coroutine c is resumed, with the tables changed to sic by the caller:   *)
(* first it clears its own entries, as yield_call, sleep and wait do.  In  *)
(* the queue function it is now its turn: current_thread = c, ref = 1.     *)
Resume(c, sic) ==
  /\ Run(c)
  /\ state' = [state EXCEPT ![c] = "run"]
  /\ on' = [on EXCEPT ![c] = Nil]
  /\ sleep_session' = [sleep_session EXCEPT ![c] = Nil]
  /\ watching_session' = [watching_session EXCEPT ![on[c]] = Nil]
  /\ session_id_coroutine' =
       IF state[c] \in {"wait", "queue"} THEN [sic EXCEPT ![on[c]] = Nil] ELSE sic
  /\ IF state[c] = "queue"
       THEN /\ current_thread' = c
            /\ ref' = ref + 1
            /\ level' = [level EXCEPT ![c] = 1]
            /\ UNCHANGED thread_queue
       ELSE UNCHANGED queue

-----------------------------------------------------------------------------
(* dispatch_message: one message, then the forks. *)

Idle == phase = "message"

(* A request: co_create takes a coroutine, from the pool if there is one. *)
Request(c) ==
  /\ Idle
  /\ state[c] = "pool"
  /\ Run(c)
  /\ state' = [state EXCEPT ![c] = "run"]
  /\ UNCHANGED <<tables, wakeup_queue, error_queue, fork_queue, on, world, queue>>

(* A response, of a service or of the timer. *)
Response(s) ==
  /\ Idle
  /\ due[s] \in {"answer", "timeout"}
  /\ due' = [due EXCEPT ![s] = "nothing"]
  /\ IF session_id_coroutine[s] = Break
       THEN /\ session_id_coroutine' = [session_id_coroutine EXCEPT ![s] = Nil]
            /\ UNCHANGED <<sleep_session, watching_session, state, on, running, phase, queue>>
       ELSE Resume(session_id_coroutine[s], [session_id_coroutine EXCEPT ![s] = Nil])
  /\ UNCHANGED <<wakeup_queue, error_queue, fork_queue, dead>>

(* Mutant: the session is queued whether it is watched or not. *)
error_dispatch_unwatched(failed) ==
  /\ \E q \in SetToSeqs(failed) : error_queue' = error_queue \o q
  /\ phase' = "drain"
  /\ UNCHANGED <<tables, wakeup_queue, fork_queue, state, on, running, dead, queue>>

(* _error_dispatch queues the sessions that are still watched; it runs in  *)
(* a coroutine of its own, which ends.                                     *)
error_dispatch(failed) ==
  /\ \E q \in SetToSeqs({s \in failed : watching_session[s] # Nil}) :
       error_queue' = error_queue \o q
  /\ phase' = "drain"
  /\ UNCHANGED <<tables, wakeup_queue, fork_queue, state, on, running, dead, queue>>

(* An error for one session: the handler has failed, or its service exits. *)
ErrorMessage(s) ==
  /\ Idle
  /\ due[s] \in {"answer", "error"}
  /\ due' = [due EXCEPT ![s] = "nothing"]
  /\ error_dispatch({s})

(* A service that called this one is down: an error for session 0, before  *)
(* or after the errors for its sessions; answers no longer come.           *)
ErrorAll(v) ==
  LET calls == {s \in Session : watching_session[s] = v} IN
  /\ Idle
  /\ v \in dead
  /\ due' = [s \in Session |-> IF s \in calls THEN "error" ELSE due[s]]
  /\ error_dispatch(calls)

(* A called service exits (outside this service). *)
Down(v) ==
  /\ v \notin dead
  /\ dead' = dead \cup {v}
  /\ UNCHANGED <<tables, wakeup_queue, error_queue, fork_queue, state, on, running,
                 phase, due, queue>>

(* dispatch_wakeup, and dispatch_error_queue when nobody is left to wake. *)
dispatch_wakeup ==
  /\ phase = "drain"
  /\ wakeup_queue # <<>>
  /\ wakeup_queue' = Tail(wakeup_queue)
  /\ LET s == sleep_session[Head(wakeup_queue)] IN
       IF s = Nil
         THEN UNCHANGED <<tables, state, on, running, phase, queue>>
         ELSE Resume(session_id_coroutine[s], [session_id_coroutine EXCEPT ![s] = Break])
  /\ UNCHANGED <<error_queue, fork_queue, world>>

dispatch_error_queue ==
  /\ phase = "drain"
  /\ wakeup_queue = <<>>
  /\ IF error_queue = <<>>
       THEN /\ phase' = "fork"
            /\ UNCHANGED <<tables, error_queue, state, on, running, queue>>
       ELSE LET s == Head(error_queue) IN
            /\ error_queue' = Tail(error_queue)
            /\ Resume(session_id_coroutine[s], [session_id_coroutine EXCEPT ![s] = Nil])
  /\ UNCHANGED <<wakeup_queue, fork_queue, world>>

(* The loop over fork_queue. *)
dispatch_fork ==
  /\ phase = "fork"
  /\ IF fork_queue = <<>>
       THEN phase' = "message" /\ UNCHANGED <<fork_queue, state, running>>
       ELSE /\ fork_queue' = Tail(fork_queue)
            /\ IF Head(fork_queue) = Noop
                 THEN phase' = "drain" /\ UNCHANGED <<state, running>>
                 ELSE /\ Run(Head(fork_queue))
                      /\ state' = [state EXCEPT ![Head(fork_queue)] = "run"]
  /\ UNCHANGED <<tables, wakeup_queue, error_queue, on, world, queue>>

-----------------------------------------------------------------------------
(* What a running coroutine does. *)

Running(c) == phase = "run" /\ running = c

Free(s) ==
  /\ due[s] = "nothing"
  /\ session_id_coroutine[s] = Nil
  /\ \A c \in Co : on[c] # s /\ sleep_session[c] # s
  /\ \A i \in DOMAIN error_queue : error_queue[i] # s

Fresh(s) == Free(s) /\ \A t \in Session : Free(t) => s <= t

(* Yield "SUSPEND" for session s, in what is named by how. *)
Suspend(c, s, how) ==
  /\ state' = [state EXCEPT ![c] = how]
  /\ on' = [on EXCEPT ![c] = s]
  /\ session_id_coroutine' = [session_id_coroutine EXCEPT ![s] = c]
  /\ phase' = "drain"
  /\ running' = Nil
  /\ UNCHANGED <<wakeup_queue, error_queue, fork_queue, dead>>

call(c, v) ==
  /\ Running(c)
  /\ v \notin dead
  /\ \E s \in Session :
       /\ Fresh(s)
       /\ due' = [due EXCEPT ![s] = "answer"]
       /\ watching_session' = [watching_session EXCEPT ![s] = v]
       /\ Suspend(c, s, "call")
  /\ UNCHANGED <<sleep_session, queue>>

(* suspend_sleep; the token is the coroutine. *)
suspend_sleep(c, s, how) ==
  /\ sleep_session' = [sleep_session EXCEPT ![c] = s]
  /\ Suspend(c, s, how)
  /\ UNCHANGED watching_session

sleep(c) ==
  /\ Running(c)
  /\ \E s \in Session :
       /\ Fresh(s)
       /\ due' = [due EXCEPT ![s] = "timeout"]
       /\ suspend_sleep(c, s, "sleep")
  /\ UNCHANGED queue

(* Outside the queue only: who waits inside it for others to come in waits *)
(* for ever.                                                               *)
wait(c) ==
  /\ Running(c)
  /\ level[c] = 0
  /\ \E s \in Session : Fresh(s) /\ suspend_sleep(c, s, "wait")
  /\ UNCHANGED <<due, queue>>

(* wakeup: the users in this repository forget the token as they wake it,  *)
(* so it is woken once; nobody but the queue has the tokens of the queue.  *)
wakeup(c, d) ==
  /\ Running(c)
  /\ state[d] \in {"sleep", "wait"}
  /\ \A i \in DOMAIN wakeup_queue : wakeup_queue[i] # d
  /\ wakeup_queue' = Append(wakeup_queue, d)
  /\ UNCHANGED <<tables, error_queue, fork_queue, state, on, running, phase, world, queue>>

fork(c, d) ==
  /\ Running(c)
  /\ state[d] = "pool"
  /\ state' = [state EXCEPT ![d] = "forked"]
  /\ fork_queue' = Append(fork_queue, d)
  /\ UNCHANGED <<tables, wakeup_queue, error_queue, on, running, phase, world, queue>>

(* The coroutine's function returns. *)
co_return(c) ==
  /\ Running(c)
  /\ level[c] = 0
  /\ state' = [state EXCEPT ![c] = "pool"]
  /\ phase' = "drain"
  /\ running' = Nil
  /\ UNCHANGED <<tables, wakeup_queue, error_queue, fork_queue, on, world, queue>>

(* Mutant: no empty function is forked. *)
suspend_failed_silent(c) ==
  /\ Running(c)
  /\ level[c] = 0
  /\ state' = [state EXCEPT ![c] = "pool"]
  /\ phase' = "fork"
  /\ running' = Nil
  /\ UNCHANGED <<tables, wakeup_queue, error_queue, fork_queue, on, world, queue>>

(* It fails: suspend forks an empty function, closes the coroutine and     *)
(* raises the error, which ends the chain of resumptions.                  *)
suspend_failed(c) ==
  /\ Running(c)
  /\ level[c] = 0
  /\ state' = [state EXCEPT ![c] = "pool"]
  /\ fork_queue' = Append(fork_queue, Noop)
  /\ phase' = "fork"
  /\ running' = Nil
  /\ UNCHANGED <<tables, wakeup_queue, error_queue, on, world, queue>>

-----------------------------------------------------------------------------
(* skynet.queue *)

(* The queue function is called, at most twice within itself. *)
queue_enter(c) ==
  /\ Running(c)
  /\ level[c] < 2
  /\ IF current_thread \notin {Nil, c}
       THEN /\ thread_queue' = Append(thread_queue, c)
            /\ \E s \in Session : Fresh(s) /\ suspend_sleep(c, s, "queue")
            /\ UNCHANGED <<due, current_thread, ref, level>>
       ELSE /\ current_thread' = c
            /\ ref' = ref + 1
            /\ level' = [level EXCEPT ![c] = @ + 1]
            /\ UNCHANGED <<tables, wakeup_queue, error_queue, fork_queue, state, on,
                           running, phase, world, thread_queue>>

(* Mutant: the next in line is woken, but anybody may enter before it. *)
queue_leave_opens(c) ==
  /\ Running(c)
  /\ level[c] > 0
  /\ level' = [level EXCEPT ![c] = @ - 1]
  /\ ref' = ref - 1
  /\ IF ref > 1 \/ thread_queue = <<>>
       THEN UNCHANGED <<thread_queue, wakeup_queue>>
       ELSE /\ thread_queue' = Tail(thread_queue)
            /\ wakeup_queue' = Append(wakeup_queue, Head(thread_queue))
  /\ current_thread' = IF ref > 1 THEN current_thread ELSE Nil
  /\ UNCHANGED <<tables, error_queue, fork_queue, state, on, running, phase, world>>

(* Mutant: the next in line is not woken. *)
queue_leave_silent(c) ==
  /\ Running(c)
  /\ level[c] > 0
  /\ level' = [level EXCEPT ![c] = @ - 1]
  /\ ref' = ref - 1
  /\ IF ref > 1
       THEN UNCHANGED <<current_thread, thread_queue>>
       ELSE IF thread_queue = <<>>
         THEN current_thread' = Nil /\ UNCHANGED thread_queue
         ELSE /\ current_thread' = Head(thread_queue)
              /\ thread_queue' = Tail(thread_queue)
  /\ UNCHANGED <<tables, wakeup_queue, error_queue, fork_queue, state, on, running,
                 phase, world>>

(* xpcall_ret: f has returned or failed. *)
queue_leave(c) ==
  /\ Running(c)
  /\ level[c] > 0
  /\ level' = [level EXCEPT ![c] = @ - 1]
  /\ ref' = ref - 1
  /\ IF ref > 1
       THEN UNCHANGED <<current_thread, thread_queue, wakeup_queue>>
       ELSE IF thread_queue = <<>>
         THEN current_thread' = Nil /\ UNCHANGED <<thread_queue, wakeup_queue>>
         ELSE /\ current_thread' = Head(thread_queue)
              /\ thread_queue' = Tail(thread_queue)
              /\ wakeup_queue' = IF sleep_session[Head(thread_queue)] = Nil THEN wakeup_queue
                                 ELSE Append(wakeup_queue, Head(thread_queue))
  /\ UNCHANGED <<tables, error_queue, fork_queue, state, on, running, phase, world>>

-----------------------------------------------------------------------------
Init ==
  /\ session_id_coroutine = [s \in Session |-> Nil]
  /\ sleep_session = [c \in Co |-> Nil]
  /\ watching_session = [s \in Session |-> Nil]
  /\ wakeup_queue = <<>> /\ error_queue = <<>> /\ fork_queue = <<>>
  /\ state = [c \in Co |-> "pool"]
  /\ on = [c \in Co |-> Nil]
  /\ running = Nil
  /\ phase = "message"
  /\ due = [s \in Session |-> "nothing"]
  /\ dead = {}
  /\ current_thread = Nil /\ ref = 0 /\ thread_queue = <<>>
  /\ level = [c \in Co |-> 0]

Yields(c) ==
  \/ sleep(c) \/ wait(c) \/ co_return(c) \/ suspend_failed(c) \/ queue_enter(c)
  \/ \E v \in Service : call(c, v)

Code(c) ==
  \/ Yields(c) \/ queue_leave(c)
  \/ \E d \in Co : wakeup(c, d) \/ fork(c, d)

Scheduler == dispatch_wakeup \/ dispatch_error_queue \/ dispatch_fork

Deliver(s) == Response(s) \/ ErrorMessage(s)

Next ==
  \/ Scheduler
  \/ \E c \in Co : Request(c) \/ Code(c)
  \/ \E s \in Session : Deliver(s)
  \/ \E v \in Service : ErrorAll(v) \/ Down(v)

Spec == Init /\ [][Next]_vars

(* What the service's code has to grant the queue: a coroutine that runs   *)
(* yields in the end, and the function it runs in the critical section     *)
(* returns, at either level.  The kernel delivers every response, however  *)
(* many requests come between.                                             *)
Gives == \E c \in Co : Code(c) /\ phase' # "run"
Leaves(n) == \E c \in Co : level[c] = n /\ queue_leave(c)

FairSpec ==
  /\ Spec
  /\ WF_vars(Scheduler)
  /\ SF_vars(Gives)
  /\ SF_vars(Leaves(1)) /\ SF_vars(Leaves(2))
  /\ \A s \in Session : SF_vars(Deliver(s))

-----------------------------------------------------------------------------
(* A coroutine is resumed by what it is suspended for, and by nothing      *)
(* else: a session leads to the coroutine that is suspended for it, so     *)
(* that no response, error, timer or wake-up reaches a later suspension of *)
(* a coroutine, whoever used the coroutine before.  A session that is      *)
(* marked BREAK is the one of a timer that is still to come and will clear *)
(* it, so that sessions do not pile up (dispatch_wakeup, suspend_sleep,    *)
(* raw_dispatch_message).                                                  *)
SessionsMatch ==
  /\ \A s \in Session : session_id_coroutine[s] \in Co =>
       on[session_id_coroutine[s]] = s
  /\ \A c \in Co : on[c] # Nil => session_id_coroutine[on[c]] = c
  /\ \A c \in Co : sleep_session[c] \in {Nil, on[c]}
  /\ \A i \in DOMAIN error_queue : session_id_coroutine[error_queue[i]] \in Co
  /\ \A s \in Session : session_id_coroutine[s] = Break => due[s] = "timeout"

(* Nobody who was woken, failed or forked is forgotten: all three queues   *)
(* are empty when the next message is taken, even if a coroutine failed in *)
(* between.                                                                *)
Drained ==
  phase = "message" => wakeup_queue = <<>> /\ error_queue = <<>> /\ fork_queue = <<>>

(* The critical section: whoever is in it holds it alone, ref counts how   *)
(* often it has entered, and a coroutine in line that is woken finds       *)
(* ref = 0, as the assert in queue.lua demands.                            *)
Exclusive ==
  /\ \A c \in Co : level[c] > 0 => current_thread = c /\ ref = level[c]
  /\ \A i \in DOMAIN wakeup_queue :
       state[wakeup_queue[i]] = "queue" => ref = 0 /\ current_thread = wakeup_queue[i]
  /\ current_thread = Nil => thread_queue = <<>>

(* A coroutine that stands in line gets the critical section in the end,   *)
(* though others that hold it call, sleep and fail in it.  The coroutines  *)
(* are interchangeable, so it is enough to follow one of them.             *)
QueueServed ==
  LET c == CHOOSE c \in Co : TRUE IN state[c] = "queue" ~> level[c] > 0
=============================================================================
