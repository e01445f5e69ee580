-------------------------- MODULE LuaServiceProofs --------------------------
(***************************************************************************)
(* The coroutine scheduler of a Lua service, for every set of coroutines   *)
(* and sessions and whatever the code of the service does: a session leads *)
(* to the coroutine that is suspended for it, nobody who is to be resumed  *)
(* is forgotten before the next message, and the critical section of       *)
(* skynet.queue is held by one coroutine.                                  *)
(*                                                                         *)
(* The three need each other.  That no session is answered twice rests on  *)
(* the queues being empty between messages; that a coroutine in line is    *)
(* woken into an empty critical section rests on its being woken only once *)
(* and by nothing but the queue.                                           *)
(***************************************************************************)
EXTENDS LuaService, FiniteSetTheorems, SequenceTheorems, TLAPS

Elems(s) == {s[i] : i \in 1 .. Len(s)}
Distinct(s) == \A i, j \in 1 .. Len(s) : s[i] = s[j] => i = j

Suspended == {"call", "sleep", "wait", "queue"}
Asleep == {"sleep", "wait", "queue"}

Types ==
  /\ session_id_coroutine \in [Session -> Co \cup {Nil, Break}]
  /\ sleep_session \in [Co -> Session \cup {Nil}]
  /\ watching_session \in [Session -> Service \cup {Nil}]
  /\ wakeup_queue \in Seq(Co) /\ error_queue \in Seq(Session)
  /\ fork_queue \in Seq(Co \cup {Noop})
  /\ state \in [Co -> Suspended \cup {"pool", "run", "forked"}]
  /\ on \in [Co -> Session \cup {Nil}]
  /\ running \in Co \cup {Nil}
  /\ phase \in {"message", "run", "drain", "fork"}
  /\ due \in [Session -> {"nothing", "answer", "timeout", "error"}]
  /\ current_thread \in Co \cup {Nil}
  /\ ref \in 0 .. 2
  /\ thread_queue \in Seq(Co)
  /\ level \in [Co -> 0 .. 2]

(* One coroutine runs, and only while a message is dispatched. *)
OneRuns == \A c \in Co : state[c] = "run" <=> phase = "run" /\ running = c

(* The tables tell what every coroutine is suspended for. *)
Tables ==
  /\ \A c \in Co : on[c] # Nil <=> state[c] \in Suspended
  /\ \A c \in Co : on[c] # Nil => session_id_coroutine[on[c]] = c
  /\ \A s \in Session : session_id_coroutine[s] \in Co => on[session_id_coroutine[s]] = s
  /\ \A c \in Co : sleep_session[c] = IF state[c] \in Asleep THEN on[c] ELSE Nil

(* What is still to come for a session, and for which kind of suspension.  *)
(* A session is watched during its call.                                   *)
Expected ==
  /\ \A s \in Session : watching_session[s] # Nil =>
       /\ session_id_coroutine[s] \in Co
       /\ state[session_id_coroutine[s]] = "call"
  /\ \A s \in Session : due[s] = "answer" => watching_session[s] # Nil
  /\ \A s \in Session : due[s] = "timeout" =>
       \/ session_id_coroutine[s] = Break
       \/ session_id_coroutine[s] \in Co /\ state[session_id_coroutine[s]] = "sleep"
  /\ \A s \in Session : session_id_coroutine[s] = Break => due[s] = "timeout"
  /\ \A c \in Co : state[c] = "sleep" => due[on[c]] = "timeout"

(* The three queues: who is in one is there once, and in the state in      *)
(* which it was put there.                                                 *)
Queued ==
  /\ Distinct(wakeup_queue) /\ Distinct(error_queue)
  /\ \A c \in Elems(wakeup_queue) : state[c] \in Asleep
  /\ \A s \in Elems(error_queue) :
       watching_session[s] # Nil /\ due[s] \in {"nothing", "error"}
  /\ \A i \in 1 .. Len(fork_queue) : fork_queue[i] \in Co =>
       /\ state[fork_queue[i]] = "forked"
       /\ \A j \in 1 .. Len(fork_queue) : fork_queue[j] = fork_queue[i] => i = j

(* Whatever has been left in the queues is still to be dispatched. *)
Drains ==
  /\ phase = "message" => fork_queue = <<>>
  /\ phase \in {"message", "fork"} =>
       \/ wakeup_queue = <<>> /\ error_queue = <<>>
       \/ Noop \in Elems(fork_queue)

(* The critical section is free, or somebody is in it, or the next in line *)
(* has been woken and is not yet in.                                       *)
Section ==
  /\ current_thread = Nil => ref = 0 /\ thread_queue = <<>>
  /\ current_thread # Nil => ref = level[current_thread]
  /\ \A c \in Co : level[c] > 0 => current_thread = c
  /\ Distinct(thread_queue)
  /\ \A c \in Co : state[c] = "queue" <=>
       \/ c \in Elems(thread_queue)
       \/ c = current_thread /\ ref = 0
  /\ current_thread \notin Elems(thread_queue)
  /\ \A c \in Elems(wakeup_queue) : state[c] = "queue" => c = current_thread

LuaInv ==
  /\ Types /\ OneRuns /\ Tables /\ Expected /\ Queued /\ Drains /\ Section
-----------------------------------------------------------------------------
(* Sequences without repetition. *)
LEMMA AppendElems ==
  ASSUME NEW S, NEW s \in Seq(S), NEW m \in S
  PROVE  /\ Append(s, m) \in Seq(S)
         /\ Elems(Append(s, m)) = Elems(s) \cup {m}
         /\ Distinct(s) /\ m \notin Elems(s) => Distinct(Append(s, m))
<1>1. /\ Len(s) \in Nat
      /\ Append(s, m) \in Seq(S) /\ Len(Append(s, m)) = Len(s) + 1
      /\ \A i \in 1 .. Len(s) : Append(s, m)[i] = s[i]
      /\ Append(s, m)[Len(s) + 1] = m
  BY AppendProperties, LenProperties
<1>2. Elems(Append(s, m)) = Elems(s) \cup {m}
  BY <1>1 DEF Elems
<1>3. ASSUME Distinct(s), m \notin Elems(s) PROVE Distinct(Append(s, m))
  BY <1>1, <1>3 DEF Elems, Distinct
<1> QED BY <1>1, <1>2, <1>3

LEMMA TailElems ==
  ASSUME NEW S, NEW s \in Seq(S), s # <<>>
  PROVE  /\ Tail(s) \in Seq(S)
         /\ Head(s) \in S /\ Head(s) \in Elems(s)
         /\ Elems(Tail(s)) \subseteq Elems(s)
         /\ Elems(s) = Elems(Tail(s)) \cup {Head(s)}
         /\ Distinct(s) => Distinct(Tail(s)) /\ Head(s) \notin Elems(Tail(s))
<1>1. /\ Len(s) \in Nat /\ Len(s) > 0 /\ Head(s) = s[1] /\ s[1] \in S
      /\ Tail(s) \in Seq(S) /\ Len(Tail(s)) = Len(s) - 1
      /\ \A i \in 1 .. Len(Tail(s)) : Tail(s)[i] = s[i + 1]
  BY HeadTailProperties, LenProperties, EmptySeq, ElementOfSeq
<1>2. ASSUME NEW i \in 1 .. Len(s) PROVE s[i] \in Elems(Tail(s)) \cup {Head(s)}
  <2>1. i = 1 \/ (i - 1 \in 1 .. Len(Tail(s)) /\ s[i] = Tail(s)[i - 1])
    BY <1>1
  <2> QED BY <1>1, <2>1 DEF Elems
<1>3. ASSUME NEW i \in 1 .. Len(Tail(s)) PROVE Tail(s)[i] \in Elems(s)
  BY <1>1 DEF Elems
<1>4. Elems(s) = Elems(Tail(s)) \cup {Head(s)}
  <2>1. Head(s) \in Elems(s)
    BY <1>1 DEF Elems
  <2> QED BY <1>2, <1>3, <2>1 DEF Elems
<1>5. ASSUME Distinct(s) PROVE Distinct(Tail(s)) /\ Head(s) \notin Elems(Tail(s))
  <2>1. Distinct(Tail(s))
    BY <1>1, <1>5 DEF Distinct
  <2>2. \A i \in 1 .. Len(Tail(s)) : Tail(s)[i] # Head(s)
    BY <1>1, <1>5 DEF Distinct
  <2> QED BY <2>1, <2>2 DEF Elems
<1> QED BY <1>1, <1>4, <1>5 DEF Elems

LEMMA ElemsIn ==
  ASSUME NEW S, NEW s \in Seq(S)
  PROVE  Elems(s) \subseteq S
BY ElementOfSeq DEF Elems

LEMMA EmptyElems == Elems(<<>>) = {} /\ Distinct(<<>>)
BY DEF Elems, Distinct

LEMMA InitInv == Init => LuaInv
<1> SUFFICES ASSUME Init PROVE LuaInv
  OBVIOUS
<1> USE LuaAssumption
<1>1. Types /\ OneRuns
  BY DEF Init, Types, OneRuns, Suspended
<1>2. Tables /\ Expected
  BY DEF Init, Tables, Expected, Suspended, Asleep
<1>3. Queued /\ Drains
  BY EmptyElems DEF Init, Queued, Drains
<1>4. Section
  BY EmptyElems DEF Init, Section
<1> QED BY <1>1, <1>2, <1>3, <1>4 DEF LuaInv

-----------------------------------------------------------------------------
(* What Resume does to a coroutine that is suspended for session s; y is   *)
(* what is left in the table.                                              *)
Resumes(c, s, y) ==
  /\ running' = c /\ phase' = "run"
  /\ state' = [state EXCEPT ![c] = "run"]
  /\ on' = [on EXCEPT ![c] = Nil]
  /\ sleep_session' = [sleep_session EXCEPT ![c] = Nil]
  /\ watching_session' = [watching_session EXCEPT ![s] = Nil]
  /\ session_id_coroutine' = [session_id_coroutine EXCEPT ![s] = y]
  /\ state[c] # "queue" => UNCHANGED queue
  /\ state[c] = "queue" =>
       /\ current_thread' = c /\ ref' = ref + 1
       /\ level' = [level EXCEPT ![c] = 1] /\ UNCHANGED thread_queue

LEMMA ResumeEffect ==
  ASSUME Types, NEW c \in Co, NEW s \in Session, on[c] = s, NEW x,
         Resume(c, [session_id_coroutine EXCEPT ![s] = x])
  PROVE  /\ state[c] \in {"wait", "queue"} => Resumes(c, s, Nil)
         /\ state[c] \notin {"wait", "queue"} => Resumes(c, s, x)
<1>1. [[session_id_coroutine EXCEPT ![s] = x] EXCEPT ![s] = Nil] =
        [session_id_coroutine EXCEPT ![s] = Nil]
  BY DEF Types
<1> QED BY <1>1 DEF Resume, Resumes, Run

(* Who is resumed is forgotten by the tables and by the queues. *)
LEMMA ResumeInv ==
  ASSUME LuaInv, NEW c \in Co, NEW s \in Session, on[c] = s, NEW y \in {Nil, Break},
         Resumes(c, s, y), phase # "run",
         due' \in [Session -> {"nothing", "answer", "timeout", "error"}],
         \A t \in Session \ {s} : due'[t] = due[t],
         y = Break <=> due'[s] = "timeout", due'[s] # "answer",
         UNCHANGED fork_queue,
         wakeup_queue' \in Seq(Co), Distinct(wakeup_queue'),
         Elems(wakeup_queue') \subseteq Elems(wakeup_queue) \ {c},
         error_queue' \in Seq(Session), Distinct(error_queue'),
         Elems(error_queue') \subseteq Elems(error_queue) \ {s},
         state[c] = "queue" => c = current_thread
  PROVE  LuaInv'
<1>1. Types /\ OneRuns /\ Tables /\ Expected /\ Queued /\ Drains /\ Section
  BY DEF LuaInv
<1> USE <1>1, LuaAssumption
<1>2. state[c] \in Suspended /\ state[c] \notin {"pool", "run", "forked"}
      /\ session_id_coroutine[s] = c
  BY DEF Tables, Suspended
<1>3. /\ \A d \in Co : state'[d] = IF d = c THEN "run" ELSE state[d]
      /\ \A d \in Co : on'[d] = IF d = c THEN Nil ELSE on[d]
      /\ \A d \in Co : sleep_session'[d] = IF d = c THEN Nil ELSE sleep_session[d]
      /\ \A t \in Session : watching_session'[t] = IF t = s THEN Nil ELSE watching_session[t]
      /\ \A t \in Session :
           session_id_coroutine'[t] = IF t = s THEN y ELSE session_id_coroutine[t]
  BY DEF Resumes, Types
<1>4. state[c] = "queue" => ref = 0 /\ ref' = 1
  BY DEF Section, Types, Resumes
<1>5. Types'
  <2>1. /\ session_id_coroutine' \in [Session -> Co \cup {Nil, Break}]
        /\ sleep_session' \in [Co -> Session \cup {Nil}]
        /\ watching_session' \in [Session -> Service \cup {Nil}]
        /\ state' \in [Co -> Suspended \cup {"pool", "run", "forked"}]
        /\ on' \in [Co -> Session \cup {Nil}]
        /\ running' \in Co \cup {Nil} /\ phase' = "run"
    BY DEF Resumes, Types
  <2>2. /\ current_thread' \in Co \cup {Nil} /\ ref' \in 0 .. 2
        /\ thread_queue' \in Seq(Co) /\ level' \in [Co -> 0 .. 2]
    <3>1. CASE state[c] = "queue"
      <4>1. /\ current_thread' = c /\ UNCHANGED thread_queue
            /\ level' = [level EXCEPT ![c] = 1]
        BY <3>1 DEF Resumes
      <4>2. level \in [Co -> 0 .. 2] /\ 1 \in 0 .. 2
        BY DEF Types
      <4> QED BY <1>4, <3>1, <4>1, <4>2 DEF Types
    <3>2. CASE state[c] # "queue"
      BY <3>2 DEF Resumes, Types, queue
    <3> QED BY <3>1, <3>2
  <2> QED BY <2>1, <2>2 DEF Types
<1>6. OneRuns'
  BY <1>3 DEF OneRuns, Resumes
<1>7. Tables'
  <2>1. ASSUME NEW d \in Co, d # c
        PROVE  /\ on'[d] # Nil <=> state'[d] \in Suspended
               /\ on'[d] # Nil => session_id_coroutine'[on'[d]] = d
               /\ sleep_session'[d] = IF state'[d] \in Asleep THEN on'[d] ELSE Nil
    <3>1. on[d] # Nil => on[d] \in Session \ {s}
      BY <1>2, <2>1 DEF Tables, Types
    <3>2. /\ state'[d] = state[d] /\ on'[d] = on[d] /\ sleep_session'[d] = sleep_session[d]
          /\ on[d] # Nil => session_id_coroutine'[on[d]] = session_id_coroutine[on[d]]
      BY <1>3, <2>1, <3>1
    <3> QED BY <3>2 DEF Tables
  <2>2. on'[c] = Nil /\ state'[c] \notin Suspended /\ sleep_session'[c] = Nil
    BY <1>3 DEF Suspended
  <2>3. ASSUME NEW t \in Session, session_id_coroutine'[t] \in Co
        PROVE  on'[session_id_coroutine'[t]] = t
    <3>1. t # s /\ session_id_coroutine'[t] = session_id_coroutine[t]
      BY <1>3, <2>3
    <3>2. session_id_coroutine[t] # c
      BY <3>1 DEF Tables
    <3> QED BY <1>3, <2>3, <3>1, <3>2 DEF Tables
  <2>4. state'[c] \notin Asleep
    BY <1>3 DEF Asleep
  <2> QED BY <2>1, <2>2, <2>3, <2>4 DEF Tables
<1>8. Expected'
  <2>1. \A t \in Session \ {s} : session_id_coroutine[t] # c
    BY DEF Tables
  <2>2. ASSUME NEW d \in Co, state'[d] = "sleep" PROVE due'[on'[d]] = "timeout"
    <3>1. d # c /\ state[d] = "sleep" /\ on'[d] = on[d] /\ on[d] \in Session \ {s}
      BY <1>2, <1>3, <2>2 DEF Tables, Types, Suspended
    <3> QED BY <3>1 DEF Expected
  <2> QED BY <1>3, <2>1, <2>2 DEF Expected
<1>9. Queued'
  <2>1. \A i \in 1 .. Len(fork_queue) : fork_queue[i] # c
    BY <1>2 DEF Queued
  <2>2. \A d \in Elems(wakeup_queue') : state'[d] \in Asleep
    <3>1. \A d \in Elems(wakeup_queue') : d \in Co
      BY ElementOfSeq DEF Elems
    <3> QED BY <1>3, <3>1 DEF Queued
  <2>3. \A t \in Elems(error_queue') :
          watching_session'[t] # Nil /\ due'[t] \in {"nothing", "error"}
    <3>1. \A t \in Elems(error_queue') : t \in Session
      BY ElementOfSeq DEF Elems
    <3> QED BY <1>3, <3>1 DEF Queued
  <2> QED BY <1>3, <2>1, <2>2, <2>3 DEF Queued
<1>10. Drains'
  BY DEF Drains, Resumes
<1>11. Section'
  <2>0. \A d \in Elems(wakeup_queue') : d \in Elems(wakeup_queue) /\ d \in Co /\ d # c
    BY ElemsIn
  <2>1. CASE state[c] = "queue"
    <3>1. /\ current_thread' = c /\ current_thread = c /\ ref = 0 /\ ref' = 1
          /\ thread_queue' = thread_queue
          /\ \A d \in Co : level'[d] = IF d = c THEN 1 ELSE level[d]
      BY <1>4, <2>1 DEF Resumes, Types
    <3>2. ASSUME NEW d \in Co PROVE level[d] = 0
      <4>1. level[d] \in 0 .. 2 /\ level[c] = 0
        BY <3>1 DEF Section, Types
      <4> QED BY <3>1, <4>1 DEF Section
    <3>3. \A d \in Co : state'[d] = "queue" <=>
            d \in Elems(thread_queue) \/ (d = c /\ ref' = 0)
      BY <1>3, <3>1 DEF Section
    <3>4. \A d \in Elems(wakeup_queue') : state'[d] = "queue" => d = c
      BY <1>3, <2>0, <3>1 DEF Section
    <3>5. Distinct(thread_queue) /\ c \notin Elems(thread_queue)
      BY <3>1 DEF Section
    <3>6. \A d \in Co : level'[d] > 0 => d = c
      BY <3>1, <3>2
    <3> QED BY <3>1, <3>3, <3>4, <3>5, <3>6 DEF Section
  <2>2. CASE state[c] # "queue"
    <3>1. UNCHANGED queue
      BY <2>2 DEF Resumes
    <3>2. \A d \in Co : state'[d] = "queue" <=> state[d] = "queue"
      BY <1>3, <2>2
    <3>3. \A d \in Elems(wakeup_queue') : state'[d] = "queue" => d = current_thread
      BY <2>0, <3>2 DEF Section
    <3> QED BY <3>1, <3>2, <3>3 DEF Section, queue
  <2> QED BY <2>1, <2>2
<1> QED BY <1>5, <1>6, <1>7, <1>8, <1>9, <1>10, <1>11 DEF LuaInv

(* A running coroutine yields for a session that nothing refers to. *)
LEMMA SuspendInv ==
  ASSUME LuaInv, NEW c \in Co, NEW s \in Session, NEW how \in Suspended,
         Running(c), Free(s), Suspend(c, s, how),
         how \in Asleep => sleep_session' = [sleep_session EXCEPT ![c] = s],
         how \notin Asleep => UNCHANGED sleep_session,
         how # "call" => UNCHANGED watching_session,
         how = "call" => \E v \in Service :
                           watching_session' = [watching_session EXCEPT ![s] = v],
         how = "call" => due' = [due EXCEPT ![s] = "answer"],
         how = "sleep" => due' = [due EXCEPT ![s] = "timeout"],
         how \in {"wait", "queue"} => UNCHANGED due,
         UNCHANGED <<current_thread, ref, level>>,
         how # "queue" => UNCHANGED thread_queue,
         how = "queue" => /\ thread_queue' = Append(thread_queue, c)
                          /\ current_thread \notin {Nil, c}
  PROVE  LuaInv'
<1>1. Types /\ OneRuns /\ Tables /\ Expected /\ Queued /\ Drains /\ Section
  BY DEF LuaInv
<1> USE <1>1, LuaAssumption
<1>2. state[c] = "run" /\ on[c] = Nil /\ sleep_session[c] = Nil
  BY DEF Running, OneRuns, Tables, Suspended, Asleep
<1>3. /\ \A d \in Co : state'[d] = IF d = c THEN how ELSE state[d]
      /\ \A d \in Co : on'[d] = IF d = c THEN s ELSE on[d]
      /\ \A t \in Session :
           session_id_coroutine'[t] = IF t = s THEN c ELSE session_id_coroutine[t]
      /\ phase' = "drain" /\ running' = Nil
      /\ UNCHANGED <<wakeup_queue, error_queue, fork_queue>>
  BY DEF Suspend, Types
<1>4. /\ due[s] = "nothing" /\ session_id_coroutine[s] = Nil
      /\ \A d \in Co : on[d] # s
      /\ watching_session[s] = Nil
  BY DEF Free, Expected
<1>5. /\ \A d \in Co : sleep_session'[d] =
           IF d = c /\ how \in Asleep THEN s ELSE sleep_session[d]
      /\ \A t \in Session \ {s} : watching_session'[t] = watching_session[t]
      /\ watching_session'[s] # Nil <=> how = "call"
      /\ \A t \in Session \ {s} : due'[t] = due[t]
      /\ due'[s] = IF how = "call" THEN "answer" ELSE
                   IF how = "sleep" THEN "timeout" ELSE "nothing"
  BY <1>4 DEF Types, Suspended
<1>6. Types'
  <2>1. /\ session_id_coroutine' \in [Session -> Co \cup {Nil, Break}]
        /\ state' \in [Co -> Suspended \cup {"pool", "run", "forked"}]
        /\ on' \in [Co -> Session \cup {Nil}]
    BY DEF Suspend, Types
  <2>2. /\ sleep_session' \in [Co -> Session \cup {Nil}]
        /\ watching_session' \in [Session -> Service \cup {Nil}]
    <3>1. sleep_session' \in [Co -> Session \cup {Nil}]
      <4>1. CASE how \in Asleep
        BY <4>1 DEF Types
      <4>2. CASE how \notin Asleep
        BY <4>2 DEF Types
      <4> QED BY <4>1, <4>2
    <3>2. watching_session' \in [Session -> Service \cup {Nil}]
      <4>1. CASE how = "call"
        BY <4>1 DEF Types
      <4>2. CASE how # "call"
        BY <4>2 DEF Types
      <4> QED BY <4>1, <4>2
    <3> QED BY <3>1, <3>2
  <2>3. due' \in [Session -> {"nothing", "answer", "timeout", "error"}]
    BY DEF Types, Suspended
  <2>4. thread_queue' \in Seq(Co)
    <3>1. thread_queue \in Seq(Co) /\ Append(thread_queue, c) \in Seq(Co)
      BY DEF Types
    <3> QED BY <3>1
  <2> QED BY <1>3, <2>1, <2>2, <2>3, <2>4 DEF Types
<1>7. OneRuns'
  BY <1>2, <1>3 DEF OneRuns, Running, Suspended
<1>8. Tables'
  <2>1. ASSUME NEW d \in Co, d # c
        PROVE  /\ on'[d] # Nil <=> state'[d] \in Suspended
               /\ on'[d] # Nil => session_id_coroutine'[on'[d]] = d
               /\ sleep_session'[d] = IF state'[d] \in Asleep THEN on'[d] ELSE Nil
    <3>1. on[d] # Nil => on[d] \in Session \ {s}
      BY <1>4, <2>1 DEF Types
    <3>2. /\ state'[d] = state[d] /\ on'[d] = on[d] /\ sleep_session'[d] = sleep_session[d]
          /\ on[d] # Nil => session_id_coroutine'[on[d]] = session_id_coroutine[on[d]]
      BY <1>3, <1>5, <2>1, <3>1
    <3> QED BY <3>2 DEF Tables
  <2>2. /\ on'[c] = s /\ s # Nil /\ state'[c] = how /\ session_id_coroutine'[s] = c
        /\ sleep_session'[c] = IF how \in Asleep THEN s ELSE Nil
    BY <1>2, <1>3, <1>5
  <2>3. ASSUME NEW t \in Session, session_id_coroutine'[t] \in Co
        PROVE  on'[session_id_coroutine'[t]] = t
    <3>1. CASE t = s
      BY <1>3, <3>1
    <3>2. CASE t # s
      <4>1. session_id_coroutine'[t] = session_id_coroutine[t]
        BY <1>3, <3>2
      <4>2. session_id_coroutine[t] # c
        BY <1>2, <4>1 DEF Tables
      <4> QED BY <1>3, <2>3, <4>1, <4>2 DEF Tables
    <3> QED BY <3>1, <3>2
  <2> QED BY <2>1, <2>2, <2>3 DEF Tables
<1>9. Expected'
  <2>1. \A t \in Session : session_id_coroutine[t] # c
    BY <1>2 DEF Tables
  <2>2. ASSUME NEW d \in Co, state'[d] = "sleep" PROVE due'[on'[d]] = "timeout"
    <3>1. CASE d = c
      BY <1>3, <1>5, <2>2, <3>1
    <3>2. CASE d # c
      <4>1. state[d] = "sleep" /\ on'[d] = on[d] /\ on[d] \in Session \ {s}
        BY <1>3, <1>4, <2>2, <3>2 DEF Tables, Types, Suspended
      <4>2. due[on[d]] = "timeout"
        BY <4>1 DEF Expected
      <4> QED BY <1>5, <4>1, <4>2
    <3> QED BY <3>1, <3>2
  <2> QED BY <1>3, <1>4, <1>5, <2>1, <2>2 DEF Expected
<1>10. Queued'
  <2>1. \A i \in 1 .. Len(fork_queue) : fork_queue[i] # c
    BY <1>2 DEF Queued
  <2>2. \A d \in Elems(wakeup_queue) : d \in Co /\ d # c
    <3>1. \A d \in Elems(wakeup_queue) : d \in Co
      BY ElementOfSeq DEF Elems, Types
    <3> QED BY <1>2, <3>1 DEF Queued, Asleep
  <2>3. \A t \in Elems(error_queue) : t \in Session /\ t # s
    <3>1. \A t \in Elems(error_queue) : t \in Session
      BY ElementOfSeq DEF Elems, Types
    <3> QED BY <1>4, <3>1 DEF Queued
  <2>4. \A d \in Elems(wakeup_queue) : state'[d] \in Asleep
    BY <1>3, <2>2 DEF Queued
  <2>5. \A t \in Elems(error_queue) :
          watching_session'[t] # Nil /\ due'[t] \in {"nothing", "error"}
    BY <1>5, <2>3 DEF Queued
  <2> QED BY <1>3, <2>1, <2>4, <2>5 DEF Queued
<1>11. Drains'
  BY <1>3 DEF Drains
<1>12. Section'
  <2>1. c \notin Elems(thread_queue) /\ ~(c = current_thread /\ ref = 0)
    BY <1>2 DEF Section
  <2>2. \A d \in Elems(wakeup_queue) : d \in Co /\ d # c
    <3>1. \A d \in Elems(wakeup_queue) : d \in Co
      BY ElementOfSeq DEF Elems, Types
    <3> QED BY <1>2, <3>1 DEF Queued, Asleep
  <2>3. CASE how # "queue"
    BY <1>3, <2>1, <2>2, <2>3 DEF Section
  <2>4. CASE how = "queue"
    <3>1. /\ Distinct(thread_queue') /\ Elems(thread_queue') = Elems(thread_queue) \cup {c}
          /\ current_thread \notin {Nil, c}
      <4>1. thread_queue \in Seq(Co) /\ thread_queue' = Append(thread_queue, c)
        BY <2>4 DEF Types
      <4>2. Distinct(thread_queue) /\ current_thread \notin {Nil, c}
        BY <2>4 DEF Section
      <4> QED BY <2>1, <4>1, <4>2, AppendElems
    <3> QED BY <1>3, <2>1, <2>2, <2>4, <3>1 DEF Section
  <2> QED BY <2>3, <2>4
<1> QED BY <1>6, <1>7, <1>8, <1>9, <1>10, <1>11, <1>12 DEF LuaInv

-----------------------------------------------------------------------------
(* The steps of the scheduler. *)
LEMMA NoQueues ==
  ASSUME LuaInv, Idle
  PROVE  wakeup_queue = <<>> /\ error_queue = <<>> /\ fork_queue = <<>>
BY EmptyElems DEF LuaInv, Drains, Idle

LEMMA WakeupInv ==
  ASSUME LuaInv, dispatch_wakeup
  PROVE  LuaInv'
<1>1. Types /\ OneRuns /\ Tables /\ Expected /\ Queued /\ Drains /\ Section
  BY DEF LuaInv
<1> USE <1>1, LuaAssumption
<1>2. wakeup_queue \in Seq(Co) /\ wakeup_queue # <<>> /\ Distinct(wakeup_queue)
  BY DEF dispatch_wakeup, Types, Queued
<1>3. PICK c \in Co : c = Head(wakeup_queue)
  BY <1>2, TailElems
<1>4. /\ wakeup_queue' \in Seq(Co) /\ Distinct(wakeup_queue') /\ c \in Elems(wakeup_queue)
      /\ Elems(wakeup_queue') \subseteq Elems(wakeup_queue) \ {c}
  BY <1>2, <1>3, TailElems DEF dispatch_wakeup
<1>5. state[c] \in Asleep /\ sleep_session[c] = on[c] /\ on[c] \in Session
  BY <1>4 DEF Queued, Tables, Types, Asleep, Suspended
<1>6. PICK s \in Session : s = on[c]
  BY <1>5
<1>7. session_id_coroutine[s] = c /\ s # Nil
  BY <1>6 DEF Tables
<1>8. /\ phase = "drain" /\ UNCHANGED <<error_queue, fork_queue, world>>
      /\ Resume(c, [session_id_coroutine EXCEPT ![s] = Break])
  BY <1>3, <1>5, <1>6, <1>7 DEF dispatch_wakeup
<1>9. /\ state[c] = "sleep" => Resumes(c, s, Break)
      /\ state[c] # "sleep" => Resumes(c, s, Nil)
  BY <1>5, <1>6, <1>8, ResumeEffect DEF Asleep
<1>10. /\ due[s] = "timeout" <=> state[c] = "sleep"
       /\ due[s] # "answer" /\ watching_session[s] = Nil
  BY <1>5, <1>6, <1>7 DEF Expected, Asleep
<1>11. /\ error_queue' \in Seq(Session) /\ Distinct(error_queue')
       /\ Elems(error_queue') \subseteq Elems(error_queue) \ {s}
  BY <1>8, <1>10 DEF Queued, Types
<1>12. state[c] = "queue" => c = current_thread
  BY <1>4 DEF Section
<1>13. due' = due /\ due' \in [Session -> {"nothing", "answer", "timeout", "error"}]
  BY <1>8 DEF world, Types
<1>14. /\ phase # "run" /\ UNCHANGED fork_queue
       /\ due'[s] = "timeout" <=> state[c] = "sleep"
       /\ due'[s] # "answer" /\ \A t \in Session \ {s} : due'[t] = due[t]
  BY <1>8, <1>10, <1>13
<1>15. CASE state[c] = "sleep"
  BY <1>4, <1>6, <1>9, <1>11, <1>12, <1>13, <1>14, <1>15, ResumeInv
<1>16. CASE state[c] # "sleep"
  BY <1>4, <1>6, <1>9, <1>11, <1>12, <1>13, <1>14, <1>16, ResumeInv
<1> QED BY <1>15, <1>16

LEMMA ErrorQueueInv ==
  ASSUME LuaInv, dispatch_error_queue
  PROVE  LuaInv'
<1>1. Types /\ OneRuns /\ Tables /\ Expected /\ Queued /\ Drains /\ Section
  BY DEF LuaInv
<1> USE <1>1, LuaAssumption
<1>2. CASE error_queue = <<>>
  <2>1. /\ phase' = "fork" /\ wakeup_queue = <<>>
        /\ UNCHANGED <<tables, wakeup_queue, error_queue, fork_queue, state, on, running,
                       world, queue>>
    BY <1>2 DEF dispatch_error_queue
  <2>2. phase = "drain"
    BY DEF dispatch_error_queue
  <2> USE <2>1, <2>2 DEF tables, world, queue
  <2>3. Types' /\ OneRuns' /\ Drains'
    BY <1>2 DEF Types, OneRuns, Drains
  <2>4. Tables' /\ Expected' /\ Queued' /\ Section'
    BY DEF Tables, Expected, Queued, Section
  <2> QED BY <2>3, <2>4 DEF LuaInv
<1>3. CASE error_queue # <<>>
  <2>1. error_queue \in Seq(Session) /\ Distinct(error_queue)
    BY DEF Types, Queued
  <2>2. PICK s \in Session : s = Head(error_queue)
    BY <1>3, <2>1, TailElems
  <2>3. /\ error_queue' = Tail(error_queue) /\ wakeup_queue = <<>>
        /\ phase = "drain" /\ UNCHANGED <<wakeup_queue, fork_queue, world>>
        /\ Resume(session_id_coroutine[s], [session_id_coroutine EXCEPT ![s] = Nil])
    BY <1>3, <2>2 DEF dispatch_error_queue
  <2>4. /\ error_queue' \in Seq(Session) /\ Distinct(error_queue') /\ s \in Elems(error_queue)
        /\ Elems(error_queue') \subseteq Elems(error_queue) \ {s}
    BY <1>3, <2>1, <2>2, <2>3, TailElems
  <2>5. watching_session[s] # Nil /\ due[s] \in {"nothing", "error"}
    BY <2>4 DEF Queued
  <2>6. PICK c \in Co : c = session_id_coroutine[s] /\ state[c] = "call" /\ on[c] = s
    BY <2>5 DEF Expected, Tables
  <2>7. Resumes(c, s, Nil)
    BY <2>3, <2>6, ResumeEffect
  <2>8. due' = due /\ due' \in [Session -> {"nothing", "answer", "timeout", "error"}]
    BY <2>3 DEF world, Types
  <2>9. /\ wakeup_queue' \in Seq(Co) /\ Distinct(wakeup_queue')
        /\ Elems(wakeup_queue') \subseteq Elems(wakeup_queue) \ {c}
    BY <2>3, EmptyElems DEF Types
  <2> QED BY <2>3, <2>4, <2>5, <2>6, <2>7, <2>8, <2>9, ResumeInv
<1> QED BY <1>2, <1>3

LEMMA ForkInv ==
  ASSUME LuaInv, dispatch_fork
  PROVE  LuaInv'
<1>1. Types /\ OneRuns /\ Tables /\ Expected /\ Queued /\ Drains /\ Section
  BY DEF LuaInv
<1> USE <1>1, LuaAssumption
<1>2. /\ phase = "fork"
      /\ UNCHANGED <<tables, wakeup_queue, error_queue, on, world, queue>>
  BY DEF dispatch_fork
<1> USE DEF tables, world, queue
<1>3. CASE fork_queue = <<>>
  <2>1. phase' = "message" /\ UNCHANGED <<fork_queue, state, running>>
    BY <1>3 DEF dispatch_fork
  <2>2. Types' /\ OneRuns' /\ Drains'
    BY <1>2, <1>3, <2>1, EmptyElems DEF Types, OneRuns, Drains
  <2>3. Tables' /\ Expected' /\ Queued' /\ Section'
    BY <1>2, <2>1 DEF Tables, Expected, Queued, Section
  <2> QED BY <2>2, <2>3 DEF LuaInv
<1>4. CASE fork_queue # <<>>
  <2>1. fork_queue \in Seq(Co \cup {Noop}) /\ fork_queue' = Tail(fork_queue)
    BY <1>4 DEF dispatch_fork, Types
  <2>2. /\ Len(fork_queue) \in Nat /\ Len(fork_queue) > 0 /\ Head(fork_queue) = fork_queue[1]
        /\ fork_queue' \in Seq(Co \cup {Noop}) /\ Len(fork_queue') = Len(fork_queue) - 1
        /\ \A i \in 1 .. Len(fork_queue') : fork_queue'[i] = fork_queue[i + 1]
    BY <1>4, <2>1, HeadTailProperties, EmptySeq, LenProperties
  <2>3. ASSUME NEW i \in 1 .. Len(fork_queue'), fork_queue'[i] \in Co
        PROVE  /\ state[fork_queue'[i]] = "forked" /\ fork_queue'[i] # Head(fork_queue)
               /\ \A j \in 1 .. Len(fork_queue') : fork_queue'[j] = fork_queue'[i] => i = j
    <3>1. i + 1 \in 1 .. Len(fork_queue) /\ fork_queue[i + 1] \in Co
          /\ fork_queue'[i] = fork_queue[i + 1] /\ 1 \in 1 .. Len(fork_queue) /\ i + 1 # 1
      BY <2>2, <2>3
    <3>2. \A j \in 1 .. Len(fork_queue') : fork_queue'[j] = fork_queue'[i] => i = j
      <4> TAKE j \in 1 .. Len(fork_queue')
      <4>1. j + 1 \in 1 .. Len(fork_queue) /\ fork_queue'[j] = fork_queue[j + 1]
        BY <2>2
      <4> QED BY <2>2, <3>1, <4>1 DEF Queued
    <3> QED BY <2>2, <3>1, <3>2 DEF Queued
  <2>4. CASE Head(fork_queue) = Noop
    <3>1. phase' = "drain" /\ UNCHANGED <<state, running>>
      BY <1>4, <2>4 DEF dispatch_fork
    <3>2. Types' /\ OneRuns' /\ Drains'
      BY <1>2, <2>2, <3>1 DEF Types, OneRuns, Drains
    <3>3. Tables' /\ Expected' /\ Section'
      BY <1>2, <3>1 DEF Tables, Expected, Section
    <3>4. Queued'
      BY <1>2, <2>3, <3>1 DEF Queued
    <3> QED BY <3>2, <3>3, <3>4 DEF LuaInv
  <2>5. CASE Head(fork_queue) # Noop
    <3>1. PICK c \in Co : c = Head(fork_queue)
      BY <2>1, <2>5, <1>4, TailElems
    <3>2. running' = c /\ phase' = "run" /\ state' = [state EXCEPT ![c] = "run"]
      BY <1>4, <2>5, <3>1 DEF dispatch_fork, Run
    <3>3. state[c] = "forked" /\ \A d \in Co : state'[d] = IF d = c THEN "run" ELSE state[d]
      <4>1. 1 \in 1 .. Len(fork_queue) /\ c = fork_queue[1]
        BY <2>2, <3>1
      <4> QED BY <3>2, <4>1 DEF Queued, Types
    <3>4. Types'
      BY <1>2, <2>2, <3>2 DEF Types
    <3>5. OneRuns' /\ Drains'
      BY <1>2, <3>2, <3>3 DEF OneRuns, Drains
    <3>6. Tables'
      BY <1>2, <3>3 DEF Tables, Suspended, Asleep
    <3>7. Expected' /\ Section'
      <4>1. Expected'
        BY <1>2, <3>3 DEF Expected
      <4>2. Section'
        <5>1. \A d \in Elems(wakeup_queue) : d \in Co
          BY ElemsIn DEF Types
        <5> QED BY <1>2, <3>3, <5>1 DEF Section
      <4> QED BY <4>1, <4>2
    <3>8. Queued'
      <4>1. \A d \in Elems(wakeup_queue) : d \in Co /\ state[d] \in Asleep
        BY ElemsIn DEF Types, Queued
      <4>2. \A d \in Elems(wakeup_queue) : state'[d] \in Asleep
        BY <3>3, <4>1 DEF Asleep
      <4>3. \A i \in 1 .. Len(fork_queue') : fork_queue'[i] \in Co =>
              /\ state'[fork_queue'[i]] = "forked"
              /\ \A j \in 1 .. Len(fork_queue') : fork_queue'[j] = fork_queue'[i] => i = j
        BY <2>3, <3>1, <3>3
      <4> QED BY <1>2, <4>2, <4>3 DEF Queued
    <3> QED BY <3>4, <3>5, <3>6, <3>7, <3>8 DEF LuaInv
  <2> QED BY <2>4, <2>5
<1> QED BY <1>3, <1>4

(* The messages. *)
LEMMA RequestInv ==
  ASSUME LuaInv, NEW c \in Co, Request(c)
  PROVE  LuaInv'
<1>1. Types /\ OneRuns /\ Tables /\ Expected /\ Queued /\ Drains /\ Section
  BY DEF LuaInv
<1> USE <1>1, LuaAssumption
<1>2. /\ running' = c /\ phase' = "run" /\ phase = "message" /\ state[c] = "pool"
      /\ state' = [state EXCEPT ![c] = "run"]
      /\ UNCHANGED <<tables, wakeup_queue, error_queue, fork_queue, on, world, queue>>
  BY DEF Request, Run, Idle
<1>3. wakeup_queue = <<>> /\ error_queue = <<>> /\ fork_queue = <<>>
  BY NoQueues DEF Request
<1>4. \A d \in Co : state'[d] = IF d = c THEN "run" ELSE state[d]
  BY <1>2 DEF Types
<1> USE DEF tables, world, queue
<1>5. Types' /\ OneRuns' /\ Drains'
  BY <1>2, <1>4 DEF Types, OneRuns, Drains
<1>6. Tables'
  BY <1>2, <1>4 DEF Tables, Suspended, Asleep
<1>7. Expected' /\ Section'
  BY <1>2, <1>3, <1>4, EmptyElems DEF Expected, Section
<1>8. Queued'
  BY <1>2, <1>3, EmptyElems DEF Queued
<1> QED BY <1>5, <1>6, <1>7, <1>8 DEF LuaInv

LEMMA ResponseInv ==
  ASSUME LuaInv, NEW s \in Session, Response(s)
  PROVE  LuaInv'
<1>1. Types /\ OneRuns /\ Tables /\ Expected /\ Queued /\ Drains /\ Section
  BY DEF LuaInv
<1> USE <1>1, LuaAssumption
<1>2. /\ phase = "message" /\ due[s] \in {"answer", "timeout"}
      /\ due' = [due EXCEPT ![s] = "nothing"]
      /\ UNCHANGED <<wakeup_queue, error_queue, fork_queue>>
  BY DEF Response, Idle
<1>3. wakeup_queue = <<>> /\ error_queue = <<>> /\ fork_queue = <<>>
  BY NoQueues DEF Response
<1>4. /\ due' \in [Session -> {"nothing", "answer", "timeout", "error"}]
      /\ due'[s] = "nothing" /\ \A t \in Session \ {s} : due'[t] = due[t]
  BY <1>2 DEF Types
<1>5. CASE session_id_coroutine[s] = Break
  <2>1. /\ session_id_coroutine' = [session_id_coroutine EXCEPT ![s] = Nil]
        /\ UNCHANGED <<sleep_session, watching_session, state, on, running, phase, queue>>
    BY <1>5 DEF Response
  <2>2. \A t \in Session :
          session_id_coroutine'[t] = IF t = s THEN Nil ELSE session_id_coroutine[t]
    BY <2>1 DEF Types
  <2>3. \A c \in Co : on[c] # s
    BY <1>5 DEF Tables
  <2> USE DEF queue
  <2>4. Types' /\ OneRuns' /\ Drains'
    BY <1>2, <1>4, <2>1 DEF Types, OneRuns, Drains
  <2>5. Tables'
    <3>1. \A c \in Co : on[c] # Nil => on[c] \in Session \ {s}
      BY <2>3 DEF Types
    <3> QED BY <2>1, <2>2, <3>1 DEF Tables
  <2>6. Expected'
    <3>1. \A c \in Co : state[c] = "sleep" => on[c] \in Session \ {s}
      BY <2>3 DEF Types, Tables, Suspended
    <3>2. ASSUME NEW c \in Co, state[c] = "sleep" PROVE due'[on[c]] = "timeout"
      <4>1. on[c] \in Session \ {s} /\ due[on[c]] = "timeout"
        BY <3>1, <3>2 DEF Expected
      <4> QED BY <1>4, <4>1
    <3> QED BY <1>4, <1>5, <2>1, <2>2, <3>2 DEF Expected
  <2>7. Queued' /\ Section'
    BY <1>2, <1>3, <2>1, EmptyElems DEF Queued, Section
  <2> QED BY <2>4, <2>5, <2>6, <2>7 DEF LuaInv
<1>6. CASE session_id_coroutine[s] # Break
  <2>1. PICK c \in Co : /\ c = session_id_coroutine[s] /\ on[c] = s
                        /\ state[c] \in {"call", "sleep"}
    BY <1>2, <1>6 DEF Expected, Tables
  <2>2. Resume(c, [session_id_coroutine EXCEPT ![s] = Nil])
    BY <1>6, <2>1 DEF Response
  <2>3. Resumes(c, s, Nil)
    BY <2>1, <2>2, ResumeEffect
  <2>4. /\ wakeup_queue' \in Seq(Co) /\ Distinct(wakeup_queue')
        /\ Elems(wakeup_queue') \subseteq Elems(wakeup_queue) \ {c}
        /\ error_queue' \in Seq(Session) /\ Distinct(error_queue')
        /\ Elems(error_queue') \subseteq Elems(error_queue) \ {s}
    BY <1>2, <1>3, EmptyElems DEF Types
  <2> QED BY <1>2, <1>4, <2>1, <2>3, <2>4, ResumeInv
<1> QED BY <1>5, <1>6

(* The sessions of an error message are queued once each. *)
LEMMA ErrorInv ==
  ASSUME LuaInv, NEW failed \in SUBSET Session, Idle, error_dispatch(failed),
         due' \in [Session -> {"nothing", "answer", "timeout", "error"}],
         \A s \in Session \ failed : due'[s] = due[s],
         \A s \in failed : /\ due[s] # "timeout"
                           /\ due'[s] \in {"nothing", "error"}
  PROVE  LuaInv'
<1>1. Types /\ OneRuns /\ Tables /\ Expected /\ Queued /\ Drains /\ Section
  BY DEF LuaInv
<1> USE <1>1, LuaAssumption
<1>2. wakeup_queue = <<>> /\ error_queue = <<>> /\ fork_queue = <<>> /\ phase = "message"
  BY NoQueues DEF Idle
<1>3. /\ phase' = "drain"
      /\ UNCHANGED <<tables, wakeup_queue, fork_queue, state, on, running, dead, queue>>
  BY DEF error_dispatch
<1>4. PICK watched \in SUBSET Session :
        watched = {s \in failed : watching_session[s] # Nil}
  OBVIOUS
<1>5. PICK f \in SetToSeqs(watched) : error_queue' = error_queue \o f
  BY <1>4 DEF error_dispatch
<1>6. Cardinality(watched) \in Nat
  BY <1>4, FS_Subset, FS_CardinalityType
<1>7. PICK n \in Nat : n = Cardinality(watched)
  BY <1>6
<1>8. f \in [1 .. n -> watched] /\ \A i, j \in 1 .. n : i # j => f[i] # f[j]
  BY <1>5, <1>7 DEF SetToSeqs
<1>9. f \in Seq(watched) /\ Len(f) = n /\ f \in Seq(Session)
  BY <1>4, <1>8, SeqDef, LenProperties
<1>10. error_queue' = f
  BY <1>2, <1>5, <1>9
<1>11. Distinct(error_queue') /\ Elems(error_queue') \subseteq watched
  BY <1>8, <1>9, <1>10, ElemsIn DEF Distinct
<1> HIDE DEF error_dispatch, SetToSeqs
<1> USE DEF tables, queue
<1>12. Types' /\ OneRuns' /\ Drains'
  BY <1>2, <1>3, <1>9, <1>10 DEF Types, OneRuns, Drains
<1>13. Tables' /\ Section'
  BY <1>3 DEF Tables, Section
<1>14. Expected'
  <2>1. ASSUME NEW c \in Co, state[c] = "sleep" PROVE due'[on[c]] = "timeout"
    <3>1. on[c] \in Session /\ due[on[c]] = "timeout"
      BY <2>1 DEF Expected, Tables, Types, Suspended
    <3> QED BY <3>1
  <2>2. ASSUME NEW s \in Session
        PROVE  /\ due'[s] = "timeout" => due[s] = "timeout"
               /\ due[s] = "timeout" => due'[s] = "timeout"
               /\ due'[s] = "answer" => due[s] = "answer"
    <3>1. CASE s \in failed
      <4>1. due[s] # "timeout" /\ due'[s] \in {"nothing", "error"}
        BY <3>1
      <4> QED BY <4>1
    <3>2. CASE s \notin failed
      BY <3>2
    <3> QED BY <3>1, <3>2
  <2> QED BY <1>3, <2>1, <2>2 DEF Expected
<1>15. Queued'
  <2>1. \A s \in Elems(error_queue') :
          watching_session'[s] # Nil /\ due'[s] \in {"nothing", "error"}
    BY <1>3, <1>4, <1>11
  <2> QED BY <1>2, <1>3, <1>11, <2>1 DEF Queued
<1> QED BY <1>12, <1>13, <1>14, <1>15 DEF LuaInv

LEMMA ErrorMessageInv ==
  ASSUME LuaInv, NEW s \in Session, ErrorMessage(s)
  PROVE  LuaInv'
<1>1. /\ due[s] \in {"answer", "error"} /\ due' = [due EXCEPT ![s] = "nothing"]
      /\ Idle /\ error_dispatch({s}) /\ {s} \in SUBSET Session
  BY DEF ErrorMessage
<1>2. due \in [Session -> {"nothing", "answer", "timeout", "error"}]
  BY DEF LuaInv, Types
<1>3. /\ due' \in [Session -> {"nothing", "answer", "timeout", "error"}]
      /\ due'[s] = "nothing" /\ \A t \in Session \ {s} : due'[t] = due[t]
  BY <1>1, <1>2
<1> QED BY <1>1, <1>3, ErrorInv

LEMMA ErrorAllInv ==
  ASSUME LuaInv, NEW v \in Service, ErrorAll(v)
  PROVE  LuaInv'
<1>1. PICK calls \in SUBSET Session : calls = {s \in Session : watching_session[s] = v}
  OBVIOUS
<1>2. /\ due' = [s \in Session |-> IF s \in calls THEN "error" ELSE due[s]]
      /\ Idle /\ error_dispatch(calls)
  BY <1>1 DEF ErrorAll
<1>3. /\ due \in [Session -> {"nothing", "answer", "timeout", "error"}]
      /\ Expected
  BY DEF LuaInv, Types
<1>4. due' \in [Session -> {"nothing", "answer", "timeout", "error"}]
  BY <1>2, <1>3
<1>5. ASSUME NEW s \in calls PROVE due[s] # "timeout" /\ due'[s] \in {"nothing", "error"}
  <2>1. watching_session[s] # Nil
    BY <1>1, LuaAssumption
  <2>2. session_id_coroutine[s] \in Co /\ state[session_id_coroutine[s]] = "call"
    BY <1>3, <2>1 DEF Expected
  <2> QED BY <1>2, <1>3, <2>2, LuaAssumption DEF Expected
<1>6. \A s \in Session \ calls : due'[s] = due[s]
  BY <1>2
<1> QED BY <1>2, <1>4, <1>5, <1>6, ErrorInv

(* What a running coroutine does.  It is in no queue and waits for nothing. *)
LEMMA RunningFacts ==
  ASSUME LuaInv, NEW c \in Co, Running(c)
  PROVE  /\ state[c] = "run" /\ on[c] = Nil /\ sleep_session[c] = Nil
         /\ \A s \in Session : session_id_coroutine[s] # c
         /\ c \notin Elems(wakeup_queue) /\ c \notin Elems(thread_queue)
         /\ ~(c = current_thread /\ ref = 0)
         /\ \A i \in 1 .. Len(fork_queue) : fork_queue[i] # c
<1>1. Types /\ OneRuns /\ Tables /\ Expected /\ Queued /\ Drains /\ Section
  BY DEF LuaInv
<1> USE <1>1, LuaAssumption
<1>2. state[c] = "run"
  BY DEF Running, OneRuns
<1>3. on[c] = Nil /\ sleep_session[c] = Nil
  BY <1>2 DEF Tables, Suspended, Asleep
<1>4. \A s \in Session : session_id_coroutine[s] # c
  BY <1>3 DEF Tables
<1>5. c \notin Elems(wakeup_queue) /\ \A i \in 1 .. Len(fork_queue) : fork_queue[i] # c
  BY <1>2 DEF Queued, Asleep
<1>6. c \notin Elems(thread_queue) /\ ~(c = current_thread /\ ref = 0)
  BY <1>2 DEF Section
<1> QED BY <1>2, <1>3, <1>4, <1>5, <1>6

LEMMA CallInv ==
  ASSUME LuaInv, NEW c \in Co, NEW v \in Service, call(c, v)
  PROVE  LuaInv'
<1>1. PICK s \in Session :
        /\ Free(s) /\ Suspend(c, s, "call")
        /\ due' = [due EXCEPT ![s] = "answer"]
        /\ watching_session' = [watching_session EXCEPT ![s] = v]
  BY DEF call, Fresh
<1>2. "call" \in Suspended /\ "call" \notin Asleep
  BY DEF Suspended, Asleep
<1>3. Running(c) /\ UNCHANGED <<sleep_session, current_thread, ref, thread_queue, level>>
  BY DEF call, queue
<1> QED BY <1>1, <1>2, <1>3, SuspendInv

LEMMA SleepInv ==
  ASSUME LuaInv, NEW c \in Co, sleep(c) \/ wait(c)
  PROVE  LuaInv'
<1>1. "sleep" \in Suspended /\ "sleep" \in Asleep /\ "wait" \in Suspended /\ "wait" \in Asleep
  BY DEF Suspended, Asleep
<1>2. CASE sleep(c)
  <2>1. PICK s \in Session : /\ Free(s) /\ suspend_sleep(c, s, "sleep")
                             /\ due' = [due EXCEPT ![s] = "timeout"]
    BY <1>2 DEF sleep, Fresh
  <2>2. Running(c) /\ UNCHANGED <<current_thread, ref, thread_queue, level>>
    BY <1>2 DEF sleep, queue
  <2> QED BY <1>1, <2>1, <2>2, SuspendInv DEF suspend_sleep
<1>3. CASE wait(c)
  <2>1. PICK s \in Session : Free(s) /\ suspend_sleep(c, s, "wait")
    BY <1>3 DEF wait, Fresh
  <2>2. Running(c) /\ UNCHANGED <<due, current_thread, ref, thread_queue, level>>
    BY <1>3 DEF wait, queue
  <2> QED BY <1>1, <2>1, <2>2, SuspendInv DEF suspend_sleep
<1> QED BY <1>2, <1>3

LEMMA EndInv ==
  ASSUME LuaInv, NEW c \in Co, co_return(c) \/ suspend_failed(c)
  PROVE  LuaInv'
<1>1. Types /\ OneRuns /\ Tables /\ Expected /\ Queued /\ Drains /\ Section
  BY DEF LuaInv
<1> USE <1>1, LuaAssumption
<1>2. /\ Running(c) /\ level[c] = 0 /\ running' = Nil
      /\ state' = [state EXCEPT ![c] = "pool"]
      /\ UNCHANGED <<tables, wakeup_queue, error_queue, on, world, queue>>
  BY DEF co_return, suspend_failed
<1>3. \A d \in Co : state'[d] = IF d = c THEN "pool" ELSE state[d]
  BY <1>2 DEF Types
<1>4. PICK k \in Nat : k = Len(fork_queue)
  BY DEF Types
<1>5. \/ phase' = "drain" /\ fork_queue' = fork_queue
      \/ phase' = "fork" /\ fork_queue' = Append(fork_queue, Noop)
  BY DEF co_return, suspend_failed
<1>6. fork_queue \in Seq(Co \cup {Noop}) /\ Noop \in Co \cup {Noop}
  BY DEF Types
<1>7. fork_queue' \in Seq(Co \cup {Noop}) /\ (phase' = "fork" => Noop \in Elems(fork_queue'))
  <2>1. /\ Append(fork_queue, Noop) \in Seq(Co \cup {Noop})
        /\ Noop \in Elems(Append(fork_queue, Noop))
    BY <1>6, AppendElems
  <2> QED BY <1>5, <1>6, <2>1
<1>8. \A i \in 1 .. Len(fork_queue') : fork_queue'[i] \in Co =>
        i \in 1 .. k /\ fork_queue'[i] = fork_queue[i]
  <2>1. CASE fork_queue' = fork_queue
    BY <1>4, <2>1
  <2>2. CASE fork_queue' = Append(fork_queue, Noop)
    BY <1>4, <1>6, <2>2, AppendProperties
  <2> QED BY <1>5, <2>1, <2>2
<1> USE DEF tables, world, queue
<1>9. Types' /\ OneRuns' /\ Drains'
  <2>1. Types'
    BY <1>2, <1>5, <1>7 DEF Types
  <2>2. OneRuns'
    BY <1>2, <1>3, <1>5 DEF OneRuns, Running
  <2>3. Drains'
    BY <1>5, <1>7 DEF Drains
  <2> QED BY <2>1, <2>2, <2>3
<1>10. Tables'
  BY <1>2, <1>3, RunningFacts DEF Tables, Suspended, Asleep
<1>11. Expected'
  BY <1>2, <1>3, RunningFacts DEF Expected
<1>12. \A d \in Elems(wakeup_queue) : d \in Co /\ d # c
  BY <1>2, RunningFacts, ElemsIn DEF Types
<1>13. Section'
  <2>1. \A d \in Co : state'[d] = "queue" <=> state[d] = "queue"
    BY <1>2, <1>3, RunningFacts
  <2> QED BY <1>2, <1>12, <2>1 DEF Section
<1>14. Queued'
  <2>1. \A d \in Elems(wakeup_queue) : state'[d] \in Asleep
    BY <1>3, <1>12 DEF Queued
  <2>2. ASSUME NEW i \in 1 .. Len(fork_queue'), fork_queue'[i] \in Co
        PROVE  /\ state'[fork_queue'[i]] = "forked"
               /\ \A j \in 1 .. Len(fork_queue') : fork_queue'[j] = fork_queue'[i] => i = j
    BY <1>2, <1>3, <1>4, <1>8, <2>2, RunningFacts DEF Queued
  <2> QED BY <1>2, <2>1, <2>2 DEF Queued
<1> QED BY <1>9, <1>10, <1>11, <1>13, <1>14 DEF LuaInv

LEMMA WakeInv ==
  ASSUME LuaInv, NEW c \in Co, NEW d \in Co, wakeup(c, d)
  PROVE  LuaInv'
<1>1. Types /\ OneRuns /\ Tables /\ Expected /\ Queued /\ Drains /\ Section
  BY DEF LuaInv
<1> USE <1>1, LuaAssumption
<1>2. /\ Running(c) /\ state[d] \in {"sleep", "wait"}
      /\ wakeup_queue' = Append(wakeup_queue, d)
      /\ UNCHANGED <<tables, error_queue, fork_queue, state, on, running, phase, world, queue>>
  BY DEF wakeup
<1>3. wakeup_queue \in Seq(Co) /\ DOMAIN wakeup_queue = 1 .. Len(wakeup_queue)
  BY LenProperties DEF Types
<1>4. d \notin Elems(wakeup_queue)
  BY <1>3 DEF wakeup, Elems
<1>5. /\ wakeup_queue' \in Seq(Co) /\ Distinct(wakeup_queue')
      /\ Elems(wakeup_queue') = Elems(wakeup_queue) \cup {d}
  BY <1>2, <1>3, <1>4, AppendElems DEF Queued
<1> USE DEF tables, world, queue
<1>6. Types' /\ OneRuns' /\ Drains'
  BY <1>2, <1>5 DEF Types, OneRuns, Drains, Running
<1>7. Tables' /\ Expected'
  BY <1>2 DEF Tables, Expected
<1>8. Queued' /\ Section'
  BY <1>2, <1>5 DEF Queued, Section, Asleep
<1> QED BY <1>6, <1>7, <1>8 DEF LuaInv

LEMMA ForkedInv ==
  ASSUME LuaInv, NEW c \in Co, NEW d \in Co, fork(c, d)
  PROVE  LuaInv'
<1>1. Types /\ OneRuns /\ Tables /\ Expected /\ Queued /\ Drains /\ Section
  BY DEF LuaInv
<1> USE <1>1, LuaAssumption
<1>2. /\ Running(c) /\ state[d] = "pool" /\ state' = [state EXCEPT ![d] = "forked"]
      /\ fork_queue' = Append(fork_queue, d)
      /\ UNCHANGED <<tables, wakeup_queue, error_queue, on, running, phase, world, queue>>
  BY DEF fork
<1>3. \A e \in Co : state'[e] = IF e = d THEN "forked" ELSE state[e]
  BY <1>2 DEF Types
<1>4. PICK k \in Nat : k = Len(fork_queue)
  BY DEF Types
<1>5. /\ fork_queue' \in Seq(Co \cup {Noop}) /\ Len(fork_queue') = k + 1
      /\ \A i \in 1 .. k + 1 : fork_queue'[i] = IF i <= k THEN fork_queue[i] ELSE d
  BY <1>2, <1>4, AppendProperties DEF Types
<1>6. \A i \in 1 .. k : fork_queue[i] # d
  BY <1>2, <1>4 DEF Queued
<1> USE DEF tables, world, queue
<1>7. Types' /\ Drains'
  BY <1>2, <1>5 DEF Types, Drains, Running
<1>8. OneRuns'
  BY <1>2, <1>3 DEF OneRuns
<1>9. Tables'
  BY <1>2, <1>3 DEF Tables, Suspended, Asleep
<1>10. Expected'
  BY <1>2, <1>3 DEF Expected
<1>11. \A e \in Elems(wakeup_queue) : e \in Co /\ e # d
  BY <1>2, ElemsIn DEF Queued, Types, Asleep
<1>12. Section'
  <2>1. \A e \in Co : state'[e] = "queue" <=> state[e] = "queue"
    BY <1>2, <1>3
  <2> QED BY <1>2, <1>11, <2>1 DEF Section
<1>13. Queued'
  <2>1. \A e \in Elems(wakeup_queue) : state'[e] \in Asleep
    BY <1>3, <1>11 DEF Queued
  <2>2. ASSUME NEW i \in 1 .. Len(fork_queue'), fork_queue'[i] \in Co
        PROVE  /\ state'[fork_queue'[i]] = "forked"
               /\ \A j \in 1 .. Len(fork_queue') : fork_queue'[j] = fork_queue'[i] => i = j
    <3>1. \A j \in 1 .. Len(fork_queue') :
            \/ j \in 1 .. k /\ fork_queue'[j] = fork_queue[j]
            \/ j = k + 1 /\ fork_queue'[j] = d
      BY <1>5
    <3> QED BY <1>3, <1>4, <1>6, <2>2, <3>1 DEF Queued
  <2> QED BY <1>2, <2>1, <2>2 DEF Queued
<1> QED BY <1>7, <1>8, <1>9, <1>10, <1>12, <1>13 DEF LuaInv

(* The critical section. *)
LEMMA EnterInv ==
  ASSUME LuaInv, NEW c \in Co, queue_enter(c)
  PROVE  LuaInv'
<1>1. Types /\ OneRuns /\ Tables /\ Expected /\ Queued /\ Drains /\ Section
  BY DEF LuaInv
<1> USE <1>1, LuaAssumption
<1>2. Running(c) /\ level[c] < 2
  BY DEF queue_enter
<1>3. CASE current_thread \notin {Nil, c}
  <2>1. PICK s \in Session : Free(s) /\ suspend_sleep(c, s, "queue")
    BY <1>3 DEF queue_enter, Fresh
  <2>2. /\ thread_queue' = Append(thread_queue, c)
        /\ UNCHANGED <<due, current_thread, ref, level>>
    BY <1>3 DEF queue_enter
  <2>3. "queue" \in Suspended /\ "queue" \in Asleep
    BY DEF Suspended, Asleep
  <2> QED BY <1>2, <1>3, <2>1, <2>2, <2>3, SuspendInv DEF suspend_sleep
<1>4. CASE current_thread \in {Nil, c}
  <2>1. /\ current_thread' = c /\ ref' = ref + 1 /\ level' = [level EXCEPT ![c] = @ + 1]
        /\ UNCHANGED <<tables, wakeup_queue, error_queue, fork_queue, state, on,
                       running, phase, world, thread_queue>>
    BY <1>4 DEF queue_enter
  <2>2. /\ level[c] \in 0 .. 2 /\ ref = level[c]
        /\ \A d \in Co : level'[d] = IF d = c THEN level[c] + 1 ELSE level[d]
        /\ \A d \in Co \ {c} : level[d] = 0
    <3>1. level \in [Co -> 0 .. 2]
      BY DEF Types
    <3>2. ref = level[c] /\ \A d \in Co \ {c} : level[d] = 0
      BY <1>4, <3>1 DEF Section
    <3> QED BY <2>1, <3>1, <3>2
  <2>3. ref' \in 1 .. 2 /\ level' \in [Co -> 0 .. 2]
    BY <1>2, <2>1, <2>2 DEF Types
  <2> USE DEF tables, world
  <2>4. Types'
    BY <2>1, <2>3 DEF Types
  <2>5. OneRuns' /\ Drains' /\ Tables' /\ Expected' /\ Queued'
    BY <2>1 DEF OneRuns, Drains, Tables, Expected, Queued
  <2>6. Section'
    <3>1. c \notin Elems(thread_queue) /\ state[c] = "run"
      BY <1>2, RunningFacts
    <3>2. \A d \in Co : state[d] = "queue" => d \in Elems(thread_queue)
      BY <1>4, <1>2, RunningFacts DEF Section
    <3>3. \A d \in Elems(wakeup_queue) : state[d] # "queue"
      BY <1>4, <1>2, RunningFacts, ElemsIn DEF Section, Types
    <3>4. \A d \in Co : d \in Elems(thread_queue) => state[d] = "queue"
      BY DEF Section
    <3>5. Distinct(thread_queue)
      BY DEF Section
    <3>6. ref' # 0 /\ ref' = level'[c] /\ \A d \in Co : level'[d] > 0 => d = c
      BY <2>1, <2>2, <2>3
    <3> QED BY <2>1, <3>1, <3>2, <3>3, <3>4, <3>5, <3>6 DEF Section
  <2> QED BY <2>4, <2>5, <2>6 DEF LuaInv
<1> QED BY <1>3, <1>4

LEMMA LeaveInv ==
  ASSUME LuaInv, NEW c \in Co, queue_leave(c)
  PROVE  LuaInv'
<1>1. Types /\ OneRuns /\ Tables /\ Expected /\ Queued /\ Drains /\ Section
  BY DEF LuaInv
<1> USE <1>1, LuaAssumption
<1>2. /\ Running(c) /\ level[c] > 0
      /\ level' = [level EXCEPT ![c] = @ - 1] /\ ref' = ref - 1
      /\ UNCHANGED <<tables, error_queue, fork_queue, state, on, running, phase, world>>
  BY DEF queue_leave
<1>3. /\ current_thread = c /\ ref = level[c] /\ ref \in 1 .. 2
      /\ \A d \in Co : level'[d] = IF d = c THEN ref - 1 ELSE 0
      /\ level' \in [Co -> 0 .. 2]
  <2>1. level \in [Co -> 0 .. 2]
    BY DEF Types
  <2>2. current_thread = c /\ ref = level[c] /\ \A d \in Co \ {c} : level[d] = 0
    BY <1>2, <2>1 DEF Section
  <2> QED BY <1>2, <2>1, <2>2
<1>4. /\ state[c] = "run" /\ c \notin Elems(thread_queue)
      /\ \A d \in Co : state[d] = "queue" <=> d \in Elems(thread_queue)
      /\ \A d \in Elems(wakeup_queue) : d \in Co /\ state[d] # "queue"
  <2>1. state[c] = "run" /\ c \notin Elems(thread_queue)
    BY <1>2, RunningFacts
  <2>2. \A d \in Co : state[d] = "queue" <=> d \in Elems(thread_queue)
    BY <1>3 DEF Section
  <2>3. \A d \in Elems(wakeup_queue) : d \in Co
    BY ElemsIn DEF Types
  <2> QED BY <1>3, <2>1, <2>2, <2>3 DEF Section
<1> USE DEF tables, world
<1>5. CASE ref > 1
  <2>1. UNCHANGED <<current_thread, thread_queue, wakeup_queue>>
    BY <1>5 DEF queue_leave
  <2>2. Types'
    BY <1>2, <1>3, <1>5, <2>1 DEF Types
  <2>3. OneRuns' /\ Drains' /\ Tables' /\ Expected' /\ Queued'
    BY <1>2, <2>1 DEF OneRuns, Drains, Tables, Expected, Queued
  <2>4. Section'
    <3>1. ref' # 0 /\ ref' = level'[c] /\ \A d \in Co : level'[d] > 0 => d = c
      BY <1>2, <1>3, <1>5
    <3>2. Distinct(thread_queue)
      BY DEF Section
    <3> QED BY <1>2, <1>3, <1>4, <2>1, <3>1, <3>2 DEF Section
  <2> QED BY <2>2, <2>3, <2>4 DEF LuaInv
<1>6. CASE ref = 1 /\ thread_queue = <<>>
  <2>1. current_thread' = Nil /\ UNCHANGED <<thread_queue, wakeup_queue>>
    BY <1>6 DEF queue_leave
  <2>2. ref' = 0 /\ \A d \in Co : level'[d] = 0
    BY <1>2, <1>3, <1>6
  <2>3. Types'
    BY <1>2, <1>3, <2>1, <2>2 DEF Types
  <2>4. OneRuns' /\ Drains' /\ Tables' /\ Expected' /\ Queued'
    BY <1>2, <2>1 DEF OneRuns, Drains, Tables, Expected, Queued
  <2>5. Section'
    BY <1>2, <1>4, <1>6, <2>1, <2>2, EmptyElems DEF Section
  <2> QED BY <2>3, <2>4, <2>5 DEF LuaInv
<1>7. CASE ref = 1 /\ thread_queue # <<>>
  <2>1. thread_queue \in Seq(Co) /\ Distinct(thread_queue)
    BY DEF Types, Section
  <2>2. PICK d \in Co : d = Head(thread_queue)
    BY <1>7, <2>1, TailElems
  <2>3. state[d] = "queue" /\ d \in Elems(thread_queue) /\ d # c /\ d # Nil
    BY <1>4, <1>7, <2>1, <2>2, TailElems
  <2>4. sleep_session[d] # Nil
    BY <2>3 DEF Tables, Suspended, Asleep
  <2>5. /\ current_thread' = d /\ thread_queue' = Tail(thread_queue)
        /\ wakeup_queue' = Append(wakeup_queue, d)
    BY <1>7, <2>2, <2>4 DEF queue_leave
  <2>6. /\ thread_queue' \in Seq(Co) /\ Distinct(thread_queue')
        /\ d \notin Elems(thread_queue')
        /\ Elems(thread_queue) = Elems(thread_queue') \cup {d}
    BY <1>7, <2>1, <2>2, <2>5, TailElems
  <2>7. d \notin Elems(wakeup_queue)
    BY <1>4, <2>3
  <2>8. /\ wakeup_queue' \in Seq(Co) /\ Distinct(wakeup_queue')
        /\ Elems(wakeup_queue') = Elems(wakeup_queue) \cup {d}
    <3>1. wakeup_queue \in Seq(Co) /\ Distinct(wakeup_queue)
      BY DEF Types, Queued
    <3> QED BY <2>5, <2>7, <3>1, AppendElems
  <2>9. ref' = 0 /\ \A e \in Co : level'[e] = 0
    BY <1>2, <1>3, <1>7
  <2>10. Types'
    BY <1>2, <1>3, <2>5, <2>6, <2>8, <2>9 DEF Types
  <2>11. OneRuns' /\ Drains' /\ Tables' /\ Expected'
    BY <1>2 DEF OneRuns, Drains, Running, Tables, Expected
  <2>12. Queued'
    BY <1>2, <2>3, <2>8 DEF Queued, Asleep
  <2>13. Section'
    BY <1>2, <1>4, <2>3, <2>5, <2>6, <2>8, <2>9 DEF Section
  <2> QED BY <2>10, <2>11, <2>12, <2>13 DEF LuaInv
<1> QED BY <1>3, <1>5, <1>6, <1>7

-----------------------------------------------------------------------------
LEMMA NextInv == LuaInv /\ [Next]_vars => LuaInv'
<1> SUFFICES ASSUME LuaInv, [Next]_vars PROVE LuaInv'
  OBVIOUS
<1>1. CASE Scheduler
  BY <1>1, WakeupInv, ErrorQueueInv, ForkInv DEF Scheduler
<1>2. ASSUME NEW c \in Co, Request(c) \/ Code(c) PROVE LuaInv'
  BY <1>2, RequestInv, CallInv, SleepInv, EndInv, WakeInv, ForkedInv, EnterInv, LeaveInv
     DEF Code, Yields
<1>3. ASSUME NEW s \in Session, Deliver(s) PROVE LuaInv'
  BY <1>3, ResponseInv, ErrorMessageInv DEF Deliver
<1>4. ASSUME NEW v \in Service, ErrorAll(v) PROVE LuaInv'
  BY <1>4, ErrorAllInv
<1>5. CASE UNCHANGED vars \/ \E v \in Service : Down(v)
  <2>1. UNCHANGED <<session_id_coroutine, sleep_session, watching_session, wakeup_queue,
                    error_queue, fork_queue, state, on, running, phase, due,
                    current_thread, ref, thread_queue, level>>
    BY <1>5 DEF vars, Down, tables, world, queue
  <2>2. Types' /\ OneRuns' /\ Drains'
    BY <2>1 DEF LuaInv, Types, OneRuns, Drains
  <2>3. Tables' /\ Expected'
    BY <2>1 DEF LuaInv, Tables, Expected
  <2>4. Queued' /\ Section'
    BY <2>1 DEF LuaInv, Queued, Section
  <2> QED BY <2>2, <2>3, <2>4 DEF LuaInv
<1> QED BY <1>1, <1>2, <1>3, <1>4, <1>5 DEF Next

(* The inductive invariant of the scheduler holds whatever messages come   *)
(* and whatever the code of the service does.                              *)
THEOREM LuaInvariant == Spec => []LuaInv
<1>1. Init => LuaInv
  BY InitInv
<1>2. LuaInv /\ [Next]_vars => LuaInv'
  BY NextInv
<1> QED BY <1>1, <1>2, PTL DEF Spec

(* A response, an error, a timer or a wake-up resumes the coroutine that   *)
(* is suspended for its session and no later suspension, and a session     *)
(* marked BREAK is cleared by a timer still to come (suspend_sleep,        *)
(* dispatch_wakeup, raw_dispatch_message), for any number of coroutines.   *)
THEOREM SessionsMatchAlways == Spec => []SessionsMatch
<1>1. LuaInv => SessionsMatch
  <2> SUFFICES ASSUME LuaInv PROVE SessionsMatch
    OBVIOUS
  <2>1. Types /\ Tables /\ Expected /\ Queued
    BY DEF LuaInv
  <2>2. ASSUME NEW i \in DOMAIN error_queue
        PROVE  session_id_coroutine[error_queue[i]] \in Co
    <3>1. i \in 1 .. Len(error_queue) /\ error_queue[i] \in Session
      BY <2>1, LenProperties, ElementOfSeq DEF Types
    <3>2. watching_session[error_queue[i]] # Nil
      BY <2>1, <3>1 DEF Queued, Elems
    <3> QED BY <2>1, <3>1, <3>2 DEF Expected
  <2>3. \A c \in Co : sleep_session[c] \in {Nil, on[c]}
    BY <2>1 DEF Tables
  <2> QED BY <2>1, <2>2, <2>3 DEF SessionsMatch, Tables, Expected
<1> QED BY <1>1, LuaInvariant, PTL

(* No coroutine that was woken, failed or forked is still in a queue when  *)
(* the next message is taken, even if an error cut the dispatch short      *)
(* (dispatch_wakeup, dispatch_error_queue, suspend).                       *)
THEOREM DrainedAlways == Spec => []Drained
<1>1. LuaInv => Drained
  BY EmptyElems DEF LuaInv, Drains, Drained
<1> QED BY <1>1, LuaInvariant, PTL

(* The critical section of skynet.queue is held by one coroutine, however  *)
(* often it enters again, and the next in line is woken into an empty one: *)
(* the assertion ref == 0 of queue.lua never fails.                        *)
THEOREM ExclusiveAlways == Spec => []Exclusive
<1>1. LuaInv => Exclusive
  <2> SUFFICES ASSUME LuaInv PROVE Exclusive
    OBVIOUS
  <2>1. Types /\ Queued /\ Section
    BY DEF LuaInv
  <2>2. ASSUME NEW c \in Co, level[c] > 0 PROVE current_thread = c /\ ref = level[c]
    BY <2>1, <2>2, LuaAssumption DEF Section
  <2>3. ASSUME NEW i \in DOMAIN wakeup_queue, state[wakeup_queue[i]] = "queue"
        PROVE  ref = 0 /\ current_thread = wakeup_queue[i]
    <3>1. wakeup_queue[i] \in Elems(wakeup_queue) /\ wakeup_queue[i] \in Co
      BY <2>1, LenProperties, ElementOfSeq DEF Types, Elems
    <3>2. current_thread = wakeup_queue[i]
      BY <2>1, <2>3, <3>1 DEF Section
    <3> QED BY <2>1, <2>3, <3>1, <3>2 DEF Section
  <2> QED BY <2>1, <2>2, <2>3 DEF Exclusive, Section
<1> QED BY <1>1, LuaInvariant, PTL

=============================================================================
