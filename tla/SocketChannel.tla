---------------------------- MODULE SocketChannel ----------------------------
(***************************************************************************)
(* The channel of redisd to redis: lualib/skynet/socketchannel.lua in      *)
(* order mode over lualib/skynet/socket.lua, as redis.lua and redisd.lua   *)
(* use it (no auth, no backup, never closed by the service itself).  The   *)
(* connect of redis.connect is the one that the first request makes.       *)
(*                                                                         *)
(* Coroutines of the service write their requests to one socket and wait   *)
(* for the answers; the dispatch thread D reads the answers and hands them *)
(* out in the order of the requests.  Whoever finds the socket gone opens  *)
(* another one, tells D to stop and starts a new D.                        *)
(*                                                                         *)
(* A coroutine runs alone until it yields; then those it has woken run,    *)
(* then what it has forked, before the next message (module LuaService).   *)
(***************************************************************************)
EXTENDS Naturals, Sequences, FiniteSets, SequencesExt

CONSTANTS
  Co,           \* coroutines that make requests
  D,            \* the dispatch thread
  Close,        \* the close signal (true, false)
  Failed,       \* the result socket_error
  Nil,
  MaxConn,      \* connections: bounds how often one breaks
  MaxRequest,   \* bounds the requests
  MaxPart       \* bounds the parts of answers in the mailbox

ASSUME ChannelAssumption ==
  /\ D \notin Co /\ Close \notin Co /\ Nil \notin Co \cup {D}
  /\ Nil \notin Nat /\ Failed \notin Nat \cup {Nil}
  /\ MaxConn \in Nat \ {0} /\ MaxRequest \in Nat /\ MaxPart \in Nat

Fd == 1..MaxConn

VARIABLES
  sock,            \* __sock: the fd, or 0 for false
  request,         \* __request and __thread: coroutines and close signals
  wait_response,   \* __wait_response is set
  connecting,      \* __connecting: who connects, then those who wait for it
  result,          \* __result and __result_data
  dispatch_thread, \* "none" (nil), or what D is at; "dead": ended by an error,
                   \* "lost": suspended on a socket that is not in socket_pool
  popped,          \* the coroutine whose answer D reads
  pc,              \* what each coroutine is at
  fd,              \* the socket it opens or closes; for D: it reads
  ticket,          \* the number of the request each makes; made: how many so far
  made,
  running, wakeup_queue,   \* skynet.lua
  connected,       \* socket.lua: s.connected
  buffer,          \* s.buffer: whole answers not yet read
  link, wire, mailbox      \* socket thread and redis

channel == <<sock, request, wait_response, connecting, result>>
dispatcher == <<dispatch_thread, popped>>
callers == <<pc, ticket, made>>
sockets == <<connected, buffer>>
network == <<link, wire>>
vars == <<channel, dispatcher, callers, fd, running, wakeup_queue, sockets, network,
          mailbox>>

-----------------------------------------------------------------------------
(* Who sleeps, and for what. *)
Asleep(x) ==
  IF x = D THEN dispatch_thread \in {"pop", "read"}
           ELSE pc[x] \in {"connwait", "open", "wait", "closing"}

(* s.co: the coroutine that is suspended on socket f; a reader goes before *)
(* the one that closes, which waits for the reader (s.closing).            *)
OnSocket(f) ==
  LET cs == {c \in Co : pc[c] \in {"open", "closing"} /\ fd[c] = f} IN
  IF dispatch_thread = "read" /\ fd[D] = f THEN {D} ELSE cs

(* Between two messages. *)
Quiet == running = Nil /\ wakeup_queue = <<>> /\ dispatch_thread # "forked"

Stop(c, at) ==
  /\ pc' = [pc EXCEPT ![c] = at]
  /\ running' = Nil

Go(c, at) ==
  /\ pc' = [pc EXCEPT ![c] = at]
  /\ UNCHANGED running

(* push_response of x: wakes D if it waits for requests. *)
push_response(x) ==
  /\ request' = Append(request, x)
  /\ wait_response' = FALSE
  /\ wakeup_queue' = IF wait_response THEN Append(wakeup_queue, D) ELSE wakeup_queue

(* The coroutines of s in their order; the close signals are ignored. *)
Waiters(s) ==
  LET upto[n \in 0..Len(s)] ==
        IF n = 0 THEN <<>>
        ELSE IF s[n] = Close THEN upto[n - 1] ELSE Append(upto[n - 1], s[n])
  IN  upto[Len(s)]

(* wakeup_all, after those in told have been given their error, too, and   *)
(* those in woken have been woken.                                         *)
wakeup_all(woken, told) ==
  LET cs == told \o Waiters(request) IN
  /\ request' = <<>>
  /\ result' = [c \in Co |-> IF c \in ToSet(cs) THEN Failed ELSE result[c]]
  /\ wakeup_queue' = wakeup_queue \o woken \o cs

-----------------------------------------------------------------------------
(* channel:request *)

(* A command of redisd asks redis for something. *)
Request(c) ==
  /\ Quiet
  /\ pc[c] = "idle"
  /\ made < MaxRequest
  /\ made' = made + 1
  /\ ticket' = [ticket EXCEPT ![c] = made']
  /\ pc' = [pc EXCEPT ![c] = "request"]
  /\ running' = c
  /\ UNCHANGED <<channel, dispatcher, fd, wakeup_queue, sockets, network, mailbox>>

(* check_connection: TRUE if the channel can be used; a socket that the    *)
(* peer has closed is given up.                                            *)
Usable == sock # 0 /\ connected[sock]

check_connection(c) ==
  /\ running = c
  /\ pc[c] \in {"request", "recheck"}
  /\ Usable
  /\ Go(c, "write")
  /\ UNCHANGED <<channel, dispatcher, ticket, made, fd, wakeup_queue, sockets, network,
                 mailbox>>

(* block_connect: another coroutine connects already, ... *)
wait_connect(c) ==
  /\ running = c
  /\ pc[c] = "request"
  /\ ~Usable
  /\ connecting # <<>>
  /\ sock' = 0
  /\ connecting' = Append(connecting, c)
  /\ Stop(c, "connwait")
  /\ UNCHANGED <<request, wait_response, result, dispatcher, ticket, made, fd,
                 wakeup_queue, sockets, network, mailbox>>

(* Mutant: connects even if another coroutine does. *)
connect_once_again(c) ==
  /\ running = c
  /\ pc[c] = "request"
  /\ ~Usable
  /\ sock' = 0
  /\ connecting' = Append(connecting, c)
  /\ \E f \in Fd :
       /\ link[f] = "none" /\ \A g \in 1..(f - 1) : link[g] # "none"
       /\ link' = [link EXCEPT ![f] = "connecting"]
       /\ fd' = [fd EXCEPT ![c] = f]
  /\ Stop(c, "open")
  /\ UNCHANGED <<request, wait_response, result, dispatcher, ticket, made,
                 wakeup_queue, sockets, wire, mailbox>>

(* ... or this one opens a socket. *)
connect_once(c) ==
  /\ running = c
  /\ pc[c] = "request"
  /\ ~Usable
  /\ connecting = <<>>
  /\ sock' = 0
  /\ connecting' = <<c>>
  /\ \E f \in Fd :
       /\ link[f] = "none" /\ \A g \in 1..(f - 1) : link[g] # "none"
       /\ link' = [link EXCEPT ![f] = "connecting"]
       /\ fd' = [fd EXCEPT ![c] = f]
  /\ Stop(c, "open")
  /\ UNCHANGED <<request, wait_response, result, dispatcher, ticket, made,
                 wakeup_queue, sockets, wire, mailbox>>

(* socket.open has returned.  A dispatch thread that is still there gets   *)
(* the close signal.                                                       *)
opened(c) ==
  /\ running = c
  /\ pc[c] = "open"
  /\ connected[fd[c]]
  /\ IF dispatch_thread = "none"
       THEN Go(c, "start") /\ UNCHANGED <<request, wait_response, wakeup_queue>>
       ELSE Stop(c, "yield") /\ push_response(Close)
  /\ UNCHANGED <<sock, connecting, result, dispatcher, ticket, made, fd, sockets,
                 network, mailbox>>

(* Mutant: those who waited are forgotten. *)
end_connect_alone ==
  /\ connecting' = <<>>
  /\ UNCHANGED wakeup_queue

(* The end of block_connect wakes those who waited. *)
end_connect ==
  /\ wakeup_queue' = wakeup_queue \o Tail(connecting)
  /\ connecting' = <<>>

not_opened(c) ==
  /\ running = c
  /\ pc[c] = "open"
  /\ ~connected[fd[c]]
  /\ end_connect
  /\ Go(c, "recheck")
  /\ UNCHANGED <<sock, request, wait_response, result, dispatcher, ticket, made, fd,
                 sockets, network, mailbox>>

(* The loop of skynet.yield ends when the dispatch thread has ended. *)
yield_done(c) ==
  /\ Quiet
  /\ pc[c] = "yield"
  /\ dispatch_thread = "none"
  /\ running' = c
  /\ pc' = [pc EXCEPT ![c] = "start"]
  /\ UNCHANGED <<channel, dispatcher, ticket, made, fd, wakeup_queue, sockets, network,
                 mailbox>>

start_dispatch(c) ==
  /\ running = c
  /\ pc[c] = "start"
  /\ sock' = fd[c]
  /\ dispatch_thread' = "forked"
  /\ end_connect
  /\ Go(c, "recheck")
  /\ UNCHANGED <<request, wait_response, result, popped, ticket, made, fd, sockets,
                 network, mailbox>>

(* The second check fails: error(socket_error). *)
connect_failed(c) ==
  /\ running = c
  /\ pc[c] = "recheck"
  /\ ~Usable
  /\ sock' = 0
  /\ Stop(c, "idle")
  /\ UNCHANGED <<request, wait_response, connecting, result, dispatcher, ticket, made,
                 fd, wakeup_queue, sockets, network, mailbox>>

(* socket.write is done, also to a socket that the peer has closed. *)
write(c) ==
  /\ running = c
  /\ pc[c] = "write"
  /\ link[sock] # "down"
  /\ wire' = [wire EXCEPT ![sock] = IF link[sock] = "up" THEN Append(@, ticket[c]) ELSE @]
  /\ push_response(c)
  /\ Stop(c, "wait")
  /\ UNCHANGED <<sock, connecting, result, dispatcher, ticket, made, fd, sockets, link,
                 mailbox>>

(* sock_err: the socket has failed, and the service has not heard of it    *)
(* yet; socket.close waits for that.                                       *)
sock_err(c) ==
  /\ running = c
  /\ pc[c] = "write"
  /\ link[sock] = "down"
  /\ fd' = [fd EXCEPT ![c] = sock]
  /\ sock' = 0
  /\ Stop(c, "closing")
  /\ UNCHANGED <<request, wait_response, connecting, result, dispatcher, ticket, made,
                 wakeup_queue, sockets, network, mailbox>>

(* socket.close ends: the socket is out of socket_pool, so nobody will     *)
(* wake a reader that has suspended on it again.                           *)
sock_err_closed(c) ==
  /\ running = c
  /\ pc[c] = "closing"
  /\ connected' = [connected EXCEPT ![fd[c]] = FALSE]
  /\ dispatch_thread' = IF dispatch_thread = "read" /\ fd[D] = fd[c] THEN "lost"
                                                                    ELSE dispatch_thread
  /\ wakeup_all(<<>>, <<>>)
  /\ Stop(c, "idle")
  /\ UNCHANGED <<sock, wait_response, connecting, popped, ticket, made, fd, buffer,
                 network, mailbox>>

(* wait_for_response returns.  The command of redisd is done, or goes on   *)
(* with another request at once.                                           *)
answered(c) ==
  /\ running = c
  /\ pc[c] = "wait"
  /\ result' = [result EXCEPT ![c] = Nil]
  /\ \/ Stop(c, "idle") /\ UNCHANGED <<ticket, made>>
     \/ /\ result[c] # Failed
        /\ made < MaxRequest
        /\ made' = made + 1
        /\ ticket' = [ticket EXCEPT ![c] = made']
        /\ Go(c, "request")
  /\ UNCHANGED <<sock, request, wait_response, connecting, dispatcher, fd, wakeup_queue,
                 sockets, network, mailbox>>

-----------------------------------------------------------------------------
(* dispatch_by_order, in D *)

(* The forked function runs.  dispatch_function takes __sock[1] outside    *)
(* the pcall: if __sock is false by now, D ends with an error and          *)
(* __dispatch_thread stays set.                                            *)
dispatch_function ==
  /\ running = Nil
  /\ wakeup_queue = <<>>
  /\ dispatch_thread = "forked"
  /\ IF sock = 0 THEN dispatch_thread' = "dead" /\ UNCHANGED running
                 ELSE dispatch_thread' = "loop" /\ running' = D
  /\ UNCHANGED <<channel, popped, callers, fd, wakeup_queue, sockets, network, mailbox>>

(* The thread ends: __dispatch_thread = nil. *)
End ==
  /\ dispatch_thread' = "none"
  /\ running' = Nil

dispatch_end ==
  /\ running = D
  /\ dispatch_thread = "loop"
  /\ sock = 0
  /\ End
  /\ UNCHANGED <<channel, popped, callers, fd, wakeup_queue, sockets, network, mailbox>>

Popping ==
  /\ running = D
  /\ dispatch_thread = "pop" \/ (dispatch_thread = "loop" /\ sock # 0)

pop_wait ==
  /\ Popping
  /\ request = <<>>
  /\ wait_response' = TRUE
  /\ dispatch_thread' = "pop"
  /\ running' = Nil
  /\ UNCHANGED <<sock, request, connecting, result, popped, callers, fd, wakeup_queue,
                 sockets, network, mailbox>>

(* The close signal. *)
pop_close ==
  /\ Popping
  /\ request # <<>>
  /\ Head(request) = Close
  /\ wakeup_all(<<>>, <<>>)
  /\ End
  /\ UNCHANGED <<sock, wait_response, connecting, popped, callers, fd, sockets, network,
                 mailbox>>

pop_response ==
  /\ Popping
  /\ request # <<>>
  /\ Head(request) # Close
  /\ popped' = Head(request)
  /\ request' = Tail(request)
  /\ dispatch_thread' = "get"
  /\ UNCHANGED <<sock, wait_response, connecting, result, callers, fd, running,
                 wakeup_queue, sockets, network, mailbox>>

(* Mutant: only the request whose answer was read is told. *)
give_up_one(closers) ==
  /\ sock' = 0
  /\ result' = [result EXCEPT ![popped] = Failed]
  /\ \E q \in SetToSeqs(closers) : wakeup_queue' = wakeup_queue \o q \o <<popped>>
  /\ UNCHANGED request
  /\ End

(* The socket is gone before the answer is read, or while it is read. *)
give_up(closers) ==
  /\ sock' = 0
  /\ \E q \in SetToSeqs(closers) : wakeup_all(q, <<popped>>)
  /\ End

get_closed ==
  /\ running = D
  /\ dispatch_thread = "get"
  /\ sock = 0
  /\ give_up({})
  /\ UNCHANGED <<wait_response, connecting, popped, callers, fd, sockets, network, mailbox>>

(* get_response: the answer is there, ... *)
Answer(f, closers) ==
  /\ buffer' = [buffer EXCEPT ![f] = Tail(@)]
  /\ result' = [result EXCEPT ![popped] = Head(buffer[f])]
  /\ \E q \in SetToSeqs(closers) : wakeup_queue' = wakeup_queue \o q \o <<popped>>
  /\ dispatch_thread' = "loop"

get_response ==
  /\ running = D
  /\ dispatch_thread = "get"
  /\ sock # 0
  /\ IF buffer[sock] # <<>>
       THEN Answer(sock, {}) /\ UNCHANGED <<fd, running>>
       ELSE /\ connected[sock]
            /\ dispatch_thread' = "read"
            /\ fd' = [fd EXCEPT ![D] = sock]
            /\ running' = Nil
            /\ UNCHANGED <<buffer, result, wakeup_queue>>
  /\ UNCHANGED <<sock, request, wait_response, connecting, popped, callers, connected,
                 network, mailbox>>

(* ... comes, or the socket is closed instead.  At the end of suspend D    *)
(* wakes the one that waits in socket.close.                               *)
Closers == {c \in Co : pc[c] = "closing" /\ fd[c] = fd[D]}

read_response ==
  /\ running = D
  /\ dispatch_thread = "read"
  /\ connected[fd[D]]
  /\ buffer[fd[D]] # <<>>
  /\ Answer(fd[D], Closers)
  /\ UNCHANGED <<sock, request, wait_response, connecting, popped, callers, fd, running,
                 connected, network, mailbox>>

(* Only a part of the answer has come (the first line, a bulk, an element  *)
(* of an array): D suspends again in the next read or readline.            *)
read_part ==
  /\ running = D
  /\ dispatch_thread = "read"
  /\ connected[fd[D]]
  /\ buffer[fd[D]] = <<>>
  /\ \E q \in SetToSeqs(Closers) : wakeup_queue' = wakeup_queue \o q
  /\ running' = Nil
  /\ UNCHANGED <<channel, dispatcher, callers, fd, sockets, network, mailbox>>

read_closed ==
  /\ running = D
  /\ dispatch_thread = "read"
  /\ ~connected[fd[D]]
  /\ give_up(Closers)
  /\ UNCHANGED <<wait_response, connecting, popped, callers, fd, sockets, network, mailbox>>

-----------------------------------------------------------------------------
(* The scheduler and the socket messages. *)

dispatch_wakeup ==
  /\ running = Nil
  /\ wakeup_queue # <<>>
  /\ wakeup_queue' = Tail(wakeup_queue)
  /\ LET x == Head(wakeup_queue) IN
     /\ running' = IF Asleep(x) THEN x ELSE Nil
     /\ pc' = IF x \in Co /\ pc[x] = "connwait" THEN [pc EXCEPT ![x] = "recheck"] ELSE pc
  /\ UNCHANGED <<channel, dispatcher, ticket, made, fd, sockets, network, mailbox>>

(* Data wakes the one who reads (read_required), the rest whoever is there. *)
Wake(m) ==
  LET woken == IF m.type = "data" THEN OnSocket(m.fd) \cap {D} ELSE OnSocket(m.fd) IN
  \E q \in SetToSeqs(woken) : wakeup_queue' = q

(* socket_message, by type: data, connect, close (with autoclose_cb), error. *)
socket_message ==
  /\ Quiet
  /\ mailbox # <<>>
  /\ mailbox' = Tail(mailbox)
  /\ LET m == Head(mailbox) IN
     /\ connected' = [connected EXCEPT ![m.fd] =
                        CASE m.type = "connect" -> TRUE
                          [] m.type = "data" -> @
                          [] OTHER -> FALSE]
     /\ buffer' = [buffer EXCEPT ![m.fd] = @ \o m.answers]
     /\ sock' = IF m.type = "close" /\ wait_response /\ sock = m.fd THEN 0 ELSE sock
     /\ Wake(m)
  /\ UNCHANGED <<request, wait_response, connecting, result, dispatcher, callers, fd,
                 running, network>>

-----------------------------------------------------------------------------
(* The socket thread and redis: a connection comes up or not, redis        *)
(* answers in order, a message of the socket thread completes one answer,  *)
(* or several, or brings one more part of the next one that a read or a    *)
(* readline waits for, and a connection ends (close) or fails (error) as   *)
(* long as there is another one to be opened.                              *)

Post(f, type, ts) ==
  mailbox' = Append(mailbox, [type |-> type, fd |-> f, answers |-> ts])

Becomes(f, from, to) ==
  /\ link[f] \in from
  /\ link' = [link EXCEPT ![f] = to]

Environment(f) ==
  /\ \/ /\ Becomes(f, {"connecting"}, "up")
        /\ Post(f, "connect", <<>>)
        /\ UNCHANGED wire
     \/ /\ link[f] = "up"
        /\ \E n \in 1..Len(wire[f]) :
             /\ Post(f, "data", SubSeq(wire[f], 1, n))
             /\ wire' = [wire EXCEPT ![f] = SubSeq(@, n + 1, Len(@))]
        /\ UNCHANGED link
  /\ UNCHANGED <<channel, dispatcher, callers, fd, running, wakeup_queue, sockets>>

Part(f) ==
  /\ link[f] = "up"
  /\ wire[f] # <<>>
  /\ Cardinality({i \in 1..Len(mailbox) :
                    mailbox[i].type = "data" /\ mailbox[i].answers = <<>>}) < MaxPart
  /\ Post(f, "data", <<>>)
  /\ UNCHANGED <<channel, dispatcher, callers, fd, running, wakeup_queue, sockets, network>>

Break(f) ==
  /\ f < MaxConn
  /\ \/ Becomes(f, {"up"}, "eof") /\ Post(f, "close", <<>>)
     \/ Becomes(f, {"connecting", "up", "eof"}, "down") /\ Post(f, "error", <<>>)
  /\ UNCHANGED <<channel, dispatcher, callers, fd, running, wakeup_queue, sockets, wire>>

-----------------------------------------------------------------------------
Init ==
  /\ sock = 0 /\ request = <<>> /\ wait_response = FALSE /\ connecting = <<>>
  /\ result = [c \in Co |-> Nil]
  /\ dispatch_thread = "none" /\ popped = Nil
  /\ pc = [c \in Co |-> "idle"] /\ ticket = [c \in Co |-> 0] /\ made = 0
  /\ fd = [x \in Co \cup {D} |-> 0]
  /\ running = Nil /\ wakeup_queue = <<>>
  /\ connected = [f \in Fd |-> FALSE] /\ buffer = [f \in Fd |-> <<>>]
  /\ link = [f \in Fd |-> "none"] /\ wire = [f \in Fd |-> <<>>] /\ mailbox = <<>>

Caller(c) ==
  \/ check_connection(c) \/ wait_connect(c) \/ connect_once(c) \/ opened(c)
  \/ not_opened(c) \/ start_dispatch(c) \/ connect_failed(c) \/ write(c) \/ sock_err(c)
  \/ sock_err_closed(c) \/ answered(c)

Dispatcher ==
  \/ dispatch_function \/ dispatch_end \/ pop_wait \/ pop_close \/ pop_response
  \/ get_closed \/ get_response \/ read_response \/ read_part \/ read_closed

Next ==
  \/ \E c \in Co : Request(c) \/ Caller(c) \/ yield_done(c)
  \/ Dispatcher \/ dispatch_wakeup \/ socket_message
  \/ \E f \in Fd : Environment(f) \/ Part(f) \/ Break(f)

Spec == Init /\ [][Next]_vars

(* What runs goes on, messages and timers are delivered however many       *)
(* requests come in between; redis answers, in so many parts as it likes.  *)
(* Nothing has to break.                                                   *)
FairSpec ==
  /\ Spec
  /\ WF_vars((\E c \in Co : Caller(c)) \/ Dispatcher \/ dispatch_wakeup)
  /\ SF_vars(socket_message)
  /\ \A c \in Co : SF_vars(yield_done(c))
  /\ \A f \in Fd : WF_vars(Environment(f))

-----------------------------------------------------------------------------
(* Every answer goes to the request it is for: a coroutine that has a      *)
(* result has the answer to its own latest request, and the answer that D  *)
(* reads next is the one its coroutine waits for.  Answers on their way    *)
(* when a connection breaks are never taken for those of the next one      *)
(* (dispatch_by_order, wakeup_all, connect_once).                          *)
Aligned ==
  /\ \A c \in Co : result[c] \in {Nil, Failed, ticket[c]}
  /\ dispatch_thread = "read" /\ connected[fd[D]] /\ buffer[fd[D]] # <<>> =>
       Head(buffer[fd[D]]) = ticket[popped]

(* The asserts of _connect_once (not self.__sock), socket.close (not       *)
(* s.closing) and suspend (not s.co): nobody connects while a socket is in *)
(* use, at most one coroutine is suspended on a socket and at most one     *)
(* more closes it, and D reads the socket of the channel or none.          *)
SocketsShared ==
  /\ \A c \in Co : pc[c] \in {"open", "yield", "start"} => sock = 0
  /\ \A f \in Fd : Cardinality({c \in Co : pc[c] \in {"open", "closing"} /\ fd[c] = f}) <= 1
  /\ dispatch_thread = "read" => sock \in {0, fd[D]}

(* "channel support auto reconnect , and capture socket error in           *)
(* request/response transaction" (socketchannel.lua:5): every request ends *)
(* with an answer or an error.                                             *)
RequestEnds == \A c \in Co : pc[c] # "idle" ~> pc[c] = "idle"

(* Every request ends, with an answer or an error, as long as the dispatch *)
(* thread has neither died in dispatch_function nor been left suspended on *)
(* a socket that socket.close took out of socket_pool, the two ways in     *)
(* which it can fail.  Breaks, reconnects, closers, answers in parts and   *)
(* requests in between do not make one wait for ever.                      *)
EndsOrDead ==
  \A c \in Co : pc[c] # "idle" ~> pc[c] = "idle" \/ dispatch_thread \in {"dead", "lost"}
=============================================================================
