# skynet-aoi in TLA+

skynet-aoi is an area-of-interest (AOI) game server built on the skynet actor
framework. Players connect through a gate, log in, and walk over a map; the AOI
service tells every client which players and monsters come into, move within
and leave its view. This directory models the parts of the repository that
carry that logic: the kernel that runs the actors, the timer wheel, the
coroutines of a Lua service, the life of a client connection and of a user's
session, the connection to redis, the AOI engine in C and the AOI service in
Lua that uses it.

    tlasany M.tla                        parse a module
    tlc -workers 2 -config X.cfg M       model-check module M
    tlapm M.tla                          check the proofs of module M

`PROJECT.json` lists the components, the runs (module, cfg, properties), the
source lines behind every definition (`map`), one mutant for every property,
the findings, the hazards of the code and the theorems.

Paths below are relative to `src/`; `skynet-src/` stands for
`skynet/skynet-src/`.

## 1. The system

### 1.1 Parts, state and operations

| part | source | state | operations |
|---|---|---|---|
| message queues | `skynet-src/skynet_mq.c` | per service a ring buffer, `in_global`, `release`, overload alarm; the global queue | create, push, pop, mark_release, release, global push and pop |
| handles and contexts | `skynet_handle.c`, `skynet_server.c` | handle table, `ctx->ref`, `ctx->init` | context_new, grab, release, retire, send, dispatch |
| threads | `skynet_start.c` | worker weights, number of sleepers | worker, timer, socket and monitor loops |
| timer | `skynet_timer.c` | `T->time`, near lists, four levels | timeout, updatetime (shift, execute) |
| socket server | `socket_server.c`, `skynet_socket.c` | per socket a type, write lists, `closing`, `sending`; the control pipe | accept, start, read, write, close, shutdown, poll |
| gate | `skynet/service/gate.lua`, `skynet/lualib/snax/gateserver.lua` | two tables called `connection`, `client_number` | open, data, close, error; accept, forward, kick |
| watchdog, login server, agent | `gameserver/service/{watchdog,logind,agent}.lua`, `snax/loginserver.lua` | sessions, agents, secrets, who is online | login, kick, logout, start, disconnect, heartbeat |
| Lua scheduler, critical section | `skynet/lualib/skynet.lua`, `skynet/lualib/skynet/queue.lua` | sessions and their coroutines, three queues of coroutines to resume; the holder of a queue and its line | dispatch, call, sleep, wait, wakeup, fork; enter, leave |
| redis client | `skynet/lualib/skynet/{socketchannel,socket}.lua`, `gameserver/service/redisd.lua` | a socket, the requests that wait for answers, who connects | request, connect, dispatch, close |
| AOI engine | `skynet/service-src/service_caoi.c` | map of reference counted objects, list of hot pairs | aoi_update, aoi_message |
| AOI service | `gameserver/service/aoi.lua` | `OBJ`, `playerview`, `monsterview`, `need_update` | enter, leave, aoicallback, message_update |
| monsters | `gameserver/service/monster.lua` | a position | random walk, enter |

Around them, and not modelled, are vendored libraries (Lua, jemalloc, lpeg,
cjson), framework services the game does not use (cluster, multicast, harbor),
an OpenResty front end that forwards bytes and a pygame client. Section 7 gives the reason for each.

### 1.2 How they interact

    client --TCP--> socket thread --mailbox--> gate --send--> watchdog --call--> agent
                        ^  control pipe          |  (after forward: packets go to the agent)
                        +------------------------+
    client --TCP--> logind --login, kick--> watchdog --logout--> logind
    logind, agent --call--> redisd --TCP--> redis
    agent, monster --enter/leave--> aoi.lua --"update", "message"--> caoi (C)
                                    aoi.lua <------"aoicallback"----- caoi
    aoi.lua --addaoiobj, delaoiobj, updateaoiobj, updateaoilist--> agent --> client

* Services share no memory. Every arrow is a message in the mailbox of one
  service; mailboxes are FIFO and lossless while the service lives.
* A service handles one message at a time, but a Lua handler yields in
  `skynet.call`, `newservice` and `sleep`, and other messages are handled
  meanwhile. `aoi.lua` and the gate never yield inside a handler.
* Below the services everything is threads: workers take queues from the global
  queue, the timer and socket threads push, and launching, killing and sending
  race for reference counts and queue flags.
* The socket thread learns what services want through a pipe and decides
  against whatever the socket has become by then.

### 1.3 What is hard, and what makes it correct

* **Kernel.** A service must never run on two threads at once, a queue must be
  in exactly one place, a message must have one fate, and memory must not be
  used after it is freed, while services are launched, killed and sent to from
  all sides.
* **Ring buffer.** It wraps around and expands; it must stay a FIFO queue.
* **Timer wheel.** Timers move down four levels and `T->time` wraps around
  2^32; every timer must fire in exactly its tick.
* **Connections.** The peer, the gate, a failed write and a socket error close
  a socket in any order; the gate's bookkeeping must come out even.
* **Lua services.** A coroutine waits for a response, an error, a timer or a
  wake-up; two of them may come, and coroutines are reused. It must be resumed
  once, by what it waits for now. Nobody may be forgotten in a queue when
  another coroutine fails.
* **Sessions.** Login server, watchdog, gate and agent call each other in
  circles and yield in between, while packets, closes and further logins come
  in. They must agree on who is online, and every login and agent must end.
* **Redis.** Answers are matched with requests by order alone, over connections
  that break at any time.
* **AOI engine.** Reference counts are kept by hand across two lists. Callbacks
  must be sound (in range, present), complete and not repeated.
* **AOI service.** View tables are kept on both sides of every pair, and are
  written by moves, departures and callbacks that arrive late. They must agree,
  and no client may go on showing a player that is gone.

`PROJECT.json` lists these hazards one by one, at the line where each bites,
with the properties that would catch it.

## 2. Modules

| module | models | builds on |
|---|---|---|
| `Caoi` | the AOI engine | |
| `IdMap` | the engine's hash table, which `Caoi` takes for a function | |
| `CaoiHistory` | `Caoi` with history variables for promises over several calls | `Caoi` |
| `Aoi` | the AOI service; the engine is an arbitrary source of callbacks | |
| `Scene` | service and engine joined by their mailboxes | extends `Aoi`, instantiates `Caoi` |
| `Dispatch` | queues, handles, contexts, workers | |
| `Mq` | one queue's ring buffer and overload alarm | instantiates `Fifo` |
| `Fifo` | abstract: what a queue promises | |
| `Timer` | the timer wheel and the timer thread | instantiates `Alarm` |
| `Alarm` | abstract: what `skynet_timeout` promises | |
| `Sockets` | the life of an accepted TCP socket in the socket thread | |
| `Gate` | the gate and its callers, on top of `Sockets` | extends `Sockets` |
| `Session` | login server, watchdog, agents, and of gate and map what a session needs | |
| `LuaService` | coroutines of a Lua service and `skynet.queue` | |
| `SocketChannel` | redisd's connection to redis | |
| `CaoiProofs`, `SceneProofs` | theorems on the engine; on the AOI service and the two together | `CaoiHistory`; `Scene` (with `Aoi`) and the results of `CaoiProofs` |
| `DispatchProofs` | theorems on the kernel | `Dispatch` |
| `ContainerProofs` | theorems on the two containers that double when full | `IdMap`, `Mq` |
| `LuaServiceProofs`, `SocketChannelProofs`, `GateProofs`, `SessionProofs` | theorems on Lua services, the redis channel, connections and sessions | `LuaService`; `SocketChannel`; `Gate`; `Session` |
| `MC_*` | positions, weights, symmetry for TLC | |

Definitions carry the names of the functions they model (`aoi_update`,
`skynet_mq_push`, `close_socket`, `CMD_forward` for `CMD.forward`). Operators
introduced by "Mutant:" are plausible wrong versions of the definition that
follows them; no specification uses them. They document what each property
would catch.

### 2.1 Caoi, CaoiHistory

`object[id]` is the `struct object` under an id (its mode as a set of bits) or
`Nil`; `hot` is the pair list; `called` is what the last `aoi_message` called
back. The service has one thread, so `aoi_update` (with its mode string),
`aoi_drop` (an update with mode `d`) and `aoi_message` (flush_pair over all hot
pairs, set_push over all objects, four gen_pair_list calls) are one step each.
Positions are integer vectors: callers send integers, floats only hold them.
Ids stand for pointers, which is sound because the map holds an object exactly
as long as its count is positive (`RefCounted` also covers the pairs). That the
id map, with its open addressing, is a function of ids is shown in `IdMap`.

`CaoiHistory` adds `told` (pairs called back since either object's version last
changed) and `drifted` (objects that have since moved by less than half a radius,
which `is_near` deliberately ignores).

`IdMap` is `struct map`: slots with an id, an object or none, and the next slot
of a chain. `map_query` and `map_drop` are its two operations; insertion, the
eviction of an entry from a slot that is another id's main position, the search
for a free slot and `rehash` are operators. The loops that follow a chain and
the loop of `rehash` are recursive functions of the round. `map_insert` calls
itself, and calls `rehash`, which calls `map_insert`; the model unfolds these
calls as deep as they go (`Body` is the function's body, its calls are
parameters): an entry that made way is inserted without another one making way,
and a table that has grown has room. A deeper call has no value, so TLC would
stop at one, and the proofs show that there is none. The specification is called
`MapSpec`, so that `ContainerProofs` can extend `IdMap` and `Mq` together.
`made` counts the objects that exist by id, whatever the table says.

### 2.2 Aoi, Scene

A flag of a view table is `in`, `out` or `none` (true, false, nil). `enter` and
`leave` of players and monsters, `aoicallback` and the timer's `message_update`
are actions. Each runs inside `luaqueue` without yielding, so each is one step,
including everything sent on the way (`sent`, `out`). A Lua error ends a command
half way: `enter_monster_fails` keeps the assignments made so far, for any order
in which `pairs` may visit the table.

A player's tempid is the user's id, and each login of a user has an agent and a
client of its own. `agent` is the field of the object in `OBJ`, set by every
`enter`; notices go to that agent. `shown` is what the client of each agent
displays after the notices it got. `leave` takes the player off the map
whichever agent calls it (`agent.lua:144`) and tells that player nothing, so the
client of another login keeps its display; the leaving agent's own client is
gone by then (`agent.lua:142`). `stale` is a history variable: the part of a
client's display that dates from before another agent of the same user entered
or left.

In `Aoi` a callback for any player and any other object may arrive at any time.
`Scene` replaces that by the engine of `Caoi` behind two FIFO mailboxes, with
the coordinate scaling of `enter` (`floor(x / 10)`) and the mode letters of
agents and monsters; `ImplementsAoi` shows that this implements `Aoi`.

### 2.3 Dispatch, Mq, Fifo

A step of `Dispatch` is one critical section or one atomic operation on a
reference count. `pc` is where a worker is in
`skynet_context_message_dispatch`, `lpc` where a thread is in
`skynet_context_new`, and `sub` the kernel call it is in: a push after the grab,
a release, the deletion that follows. Callbacks choose freely to send, to kill
any service and to launch one; init functions may fail. A launch that succeeded
goes on without a reference: `SetInit`, `Publish` and `LaunchReturns` are the
write of `ctx->init`, the push of the queue and the log line with the read of
`inst->handle` in `cmd_launch`. `Mq` opens up the queue
that `Dispatch` takes for a sequence, together with the overload alarm.

### 2.4 Timer, Alarm

`list` maps a slot (level, index) to its nodes. `timer_update` is
`timer_execute`, `timer_shift`, `timer_execute`, as in the code; the lock is
given up while `dispatch_list` sends, so `skynet_timeout` interleaves there. The
width of `T->time` follows from the shifts. The refinement mapping to `Alarm` is
`wait = (expire - time) mod 2^width`.

### 2.5 Sockets, Gate

`sock[fd]` is `s->type`, `unsent` whether the write lists or the direct-write
buffer hold anything, and `sending` the writes still in the control pipe.
`Poll` has one action for each outcome of a poll on a socket (accepted, data,
end of input, error, hang-up, written, write failed); `ctrl_cmd` handles one
request of the pipe. A socket is read only once it is started. Socket ids are not
reused (the source draws them from a 31-bit counter).

`Gate` adds the two `connection` tables (`connection` of gateserver.lua and
`forward` for that of gate.lua), `client_number` and one action for each
`MSG.*` and `CMD.*`. Events and commands wait in one mailbox, in order. Its
callers are the watchdog and the agents: `SOCKET_open`, `SOCKET_data` (accepted
or rejected), `agent_start`, `close_agent` (a closed or failed socket, a missing
heartbeat, a second login) and the agent's writes, which go on until it exits.

### 2.6 Session

One mailbox for each of login server, watchdog, gate, map and agent. A handler
runs to its next yield as one step, and goes on when the answer comes: `accept`,
`login_handler_kicked`, `login_handler_done`; `CMD_kick`, `CMD_kick_logged_out`,
`close_agent_kicked`; `SOCKET_data`, `SOCKET_data_launched`; the parts of the
agent's `CMD.start` and `CMD.disconnect`. Who called is part of the message, so
that the answer finds its way (`Answer`). A secret is known by its subid: a
login packet made with an older one has a wrong token. Handlers that fail (no
secret, no connection to forward, no position) stop where the source does. So do
the agent's calls of redisd (`loadid`, `loaduser`, `saveuser`): redisd raises
when redis cannot be asked, nothing in the agent catches it, and a request may
also never end (section 4). Both leave the handler where it is: `CMD.start` in
`"failed"`, `CMD.disconnect` in `"unsaved"`, with its agent still there.
Users do four kinds of things, counted by `MaxActivity`: they log in, send a
packet, lose the connection, fall silent.

### 2.7 LuaService

`phase` is where `dispatch_message` is: taking a message, running a coroutine,
draining `wakeup_queue` and `error_queue`, running forks. The tables have the
names of the source. The service's code is arbitrary: a running coroutine may
call, sleep, wait, wake one that sleeps or waits, fork, enter or leave the
critical section, return or fail. `Resume` includes what the resumed function
does first (clearing its session, and in `skynet.queue` taking over the
section). `due` is what the outside still owes a session: an answer, a timeout,
an error.

### 2.8 SocketChannel

The callers of `channel:request` and the dispatch thread `D` with the scheduler
of `LuaService` cut down to what they use: one runs until it yields, then those
it has woken, then the fork, then the next message. `link` and `wire` are the
socket thread and redis (external): a connection comes up or fails, answers in
order, ends or breaks. Answers are the numbers of the requests they are for,
which the code cannot see. `redis.lua` reads an answer with several reads (a
line, a bulk, the elements of an array), each of which may suspend. A part of an
answer makes a difference only to a D that waits for it: `Part` is the data that
lets one of these reads return and the next one suspend (`read_part`); parts
that are there before D comes to them are taken with the answer. Only data that
completes an answer fills `buffer`. `"dead"` and `"lost"` are the two states of D
that section 4 is about. redisd uses no auth, backup, session mode, overload
notice or `close`, so these branches are left out, and so is the pause of a
socket with a buffer over its limit.

## 3. Runs

| run | instance | what it shows |
|---|---|---|
| `caoi` | 2 objects, 4 positions, all mode strings, 3 versions | callbacks are sound, complete and not repeated (`CallbackSound`, `NoMissedArrival`, `CallbackOnce`); no dangling pointer, no leak (`RefCounted`), one pair per two objects (`OneHotPair`) |
| `id_map` | 9 ids, a table of 4 slots that grows | `LookupExact`: an object is found under its id and nowhere else; `ChainsLead`: the assert of `map_insert` |
| `aoi_views` | 2 players with 2 agents each, 1 monster, 3 positions, arbitrary callbacks, unbounded | `WatchedExist`, `PlayersAgree`, `MonstersAgree`, `NoGhostPlayers`, the parts of the inductive invariant of section 5.1 that are about behaviour |
| `scene` | 2 players and 1 monster on the engine's radius, 4 commands, fair | `ImplementsAoi`, `EngineInSync`, `EventuallyFreed` |
| `dispatch` | 2 workers (weights -1 and 0), an outside thread, 2 services, 2 messages, fair | `MutualExclusion`, `QueueInOnePlace`, `NoUseAfterFree`, `ExactlyOnce`, `Delivery`, `Reclaimed` |
| `mq_ring` | capacity 2 to 8, 2 messages | `ImplementsFifo`, `ReportsGrow` |
| `timer_wheel` | 5-bit clock, 2 timers, every timeout, fair | `ImplementsAlarm`, `FiresInOrder`, `EveryTimerFires` |
| `gate` | 2 sockets, 1 place, 2 packets, errors or writes, fair | `ClosedOnce`, `CountBalances`, `PlaceReturned` |
| `session` | 1 user, 2 connections, 4 activities, fair | `NeverAlreadyOnline`, `OnlineHasSecret`, `MapHasAgent`, `LoginEnds`, `AgentExits` |
| `lua_service` | 3 coroutines, 3 sessions, 1 called service, fair | `SessionsMatch`, `Drained`, `Exclusive`, `QueueServed` |
| `redis_channel` | 2 coroutines, 3 connections, 4 requests, answers in parts, fair | `Aligned`, `SocketsShared`, `EndsOrDead` |
| `redis_reconnect` | 2 coroutines, 3 connections, 3 requests, fair | `RequestEnds` is violated: section 4 |

Several modules also state a type invariant, `TypeOK`, for the proofs or for a
reader of the state; it is not a property of a run.

### Bounds, and why they are enough

* Every property of the engine and the service relates at most two objects. Two
  objects therefore show it; a third one is there where a step of a bystander
  can disturb it: reference counts (several pairs per object, in `scene`) and
  the monster between two players. Positions are chosen on every side of every comparison,
  with the radii of the source: below half a radius, between, exactly on it
  along an axis and across two, beyond it.
* `MaxVersion` bounds how often an object counts as moved. Versions are only
  compared for equality; two or three distinguish "old", "newer" and "newest".
* `IdMap`: nine ids fill a table of 4, then one of 8, and make it grow to 16.
  They are chosen so that at both sizes some share a main position, in chains of
  two to five, and others are alone and find their slot taken by such a chain.
  `ContainerProofs` removes the bound.
* `Aoi` needs no bound; `aoi_views` treats players and agents as symmetric, since
  they are only compared for equality. `MaxCommands` in `Scene` bounds enters and leaves; four
  let an object leave and come back while pairs with it are hot. What happens between
  positions out of view is left to `aoi_views`, which has no such bound.
* `Dispatch`: two workers are the smallest number that race. One service runs
  from the start, the other is launched and killed meanwhile; `MaxSend` bounds
  the messages, and two suffice for a push that races with the pop of another
  one. Handles are used once. The safety properties also hold with a third
  service (checked once, too large for the regular run).
* `Mq`: from 2 slots the ring expands twice, at every position of head and tail,
  and wraps before, between and after. `ContainerProofs` removes the bound.
* `Timer`: `NearShift` = `LevelShift` = 1 give a clock of 5 bits with the four
  levels of the source. TLC runs it through every time of day and wrap around
  with every timeout; the code treats all levels alike. `MaxDiff` is how far the
  catch-up loop may lag.
* `Gate`: one or two sockets for one place make one connection be refused.
  `MaxActivity` counts packets, errors and writes of a behaviour: two allow a
  login and a write that stays in the buffer, fails or is overtaken by a close
  (the ends of input, hang-ups and kicks that follow are not counted), three
  also a second write through the pipe. Nothing else in the model needs a bound.
  With three the safety properties hold on 6.4 million states as well.

* `Session`: one user is enough, since no state is shared between users but the
  two counters. Two connections are the smallest number with a second login on
  another one; four activities let a user log in, send the login packet, log in
  again and send it again, or lose the connection, at every point in between.
* `LuaService`: one coroutine holds the critical section while two stand in
  line, or one runs while the sessions of two others are answered, broken and
  woken. Session ids are taken again when nothing refers to them, so nothing
  bounds the length of a behaviour. `skynet.queue` is nested at most twice.
* `SocketChannel`: two coroutines write and connect against each other. The last
  of the three connections does not break, so that liveness is not lost to the
  bound; two of them break one after the other, which reaches a reconnection
  during a reconnection. `MaxPart` bounds the parts of answers in the mailbox at
  one time, not how many there are; `redis_reconnect` sets it to 0, so that its
  behaviour is the failure of `dispatch_function`. The safety properties also
  hold with three coroutines on two connections (390,991 states).

Deadlock is checked everywhere except in the runs of `Gate`, `Session` and
`SocketChannel`, where every client may have gone and every bounded activity may
be used up: nothing is left to do then.

### Fairness, and why the code justifies it

* `Scene`: weak fairness of both services' mailboxes (a queue with messages is
  served: `Delivery` below) and of the 0.1 s timer that `message_update`
  re-arms each time. None for agents and monsters.
* `Dispatch`: weak fairness of every thread's next step; callbacks and init
  functions return (the monitor thread reports those that do not); a sleeping
  worker is woken, since the timer thread signals the condition as it ticks.
  Nothing is assumed of what services decide to do.
* `Timer`: the timer thread loops for ever.
* `Gate`: weak fairness of the socket thread's pipe, which it reads before any
  event; of the gate's mailbox; and of a pending write, which the peer takes or
  TCP gives up on. None for packets, peers, the watchdog or agents.

* `Session`: weak fairness of one condition, that some mailbox with messages is
  served, the launcher answers, or a call of redisd comes to its end, which may
  be an error or no answer at all. No such step can repeat without the users
  doing something, so it is enough for all of them. None for users.
* `LuaService`: weak fairness of the scheduler, which the kernel calls for every
  message. Strong fairness of what the service's own code has to grant: a
  coroutine that runs yields in the end, and a function in the critical section
  returns; and of each response, which requests in between cannot hold up.
* `SocketChannel`: what runs goes on; messages and the zero-length timer of
  `skynet.yield` are delivered (strongly, since requests come in between); redis
  completes its answers, in however many parts. Nothing has to break.

## 4. Findings

**A lost connection can end the redis client for good** (`redis_reconnect`).
`socketchannel.lua:5` promises reconnection and that socket errors are caught in
the request. The forked dispatch thread evaluates `dispatch_function(self)`
before the `pcall` it is an argument of, and that indexes `__sock[1]`
(lines 218, 324). If the new connection is lost before the thread runs, it fails
there and `__dispatch_thread` stays set; from then on every connect loops in
`while self.__dispatch_thread do skynet.yield() end`. In the shortest behaviours
the connection breaks while the connecting coroutine waits for the old dispatch
thread, or the first write on the new one fails at once.

Observed while modelling, and in the models as the code has it, but without a
run of their own:

* `socket.lua:54-58, 295`: the comment says that `socket.close` waits for the last
  operation on the buffer. It waits for one `suspend`: D, resumed with a part of
  an answer, wakes the coroutine in `socket.close` and suspends again for the
  next part; the closer then takes the socket out of `socket_pool`. The message
  on the failure of the socket finds nothing there, D is never resumed
  (`"lost"`), the request it reads for never ends, and every connect loops as
  above. It takes a write that fails while a part of an answer and the failure
  are still in the mailbox. `EndsOrDead` shows that on the instance of its run a
  request can hang in no third way, and `StaysDown` (section 5.9) that no later
  connect repairs either of the two.
* `aoi.lua:346`: `enter` gives monsters a `playerview` as well, so `leave` of a
  player never clears its entry in `monsterview` (the branch at line 349 is
  dead). The monster's next move indexes the missing player (line 70) and fails,
  and the players that still see the monster are not told
  (`enter_monster_fails`); line 53 says they are. `MonstersAgree` is one-sided
  for that reason.
* `gateserver.lua:85-99`: a refused connection is not counted when it opens and
  is subtracted when it closes, so each refusal makes room for one client more
  than `maxclient`. `CountBalances` states what the counter really holds.
* `gateserver.lua:111`: `MSG.error` makes gate.lua forget the connection but
  leaves gateserver's entry `true`; the next packet already in the mailbox
  indexes nil (`gate.lua:21`).
* `socket_server.c:1016, 1146`: a close that finds a write in the pipe behind it
  waits for it, and `send_socket` throws the write away because the socket is
  closing; no event is left that would close the descriptor.
* `watchdog.lua:121`: `SOCKET.data` enters the session and then waits for the new
  agent. A kick that is handled meanwhile clears the session and finds no agent,
  so the connection is not closed; the agent then starts and serves the earlier
  login (`logind.lua:38`: "kick the old user") for as long as its client sends
  packets. In the same way an agent launched after its connection has closed is
  never disconnected. Two login packets on one connection create two agents, of which
  the first is forgotten.
* `agent.lua:154`: `CMD.disconnect` saves the user without `pcall`. If redis
  cannot be asked the call raises and `skynet.exit` is not reached: the agent is
  off the map and without a connection but stays in memory, and its heartbeat,
  which `runfork` would end, asks for one more close. `AgentExits` makes this one
  exception.
* `watchdog.lua:59`: a client that disconnects before it has logged in has no
  agent, so nobody kicks it; its half-closed socket keeps its descriptor.
* `aoi.lua:287`: only the watcher is told on a callback, the flag is set on both
  sides: if one of the two moves between the callbacks for (p, q) and (q, p),
  one client is not told until the next departure.
* `skynet_server.c:164-170` and `496`: after the creation reference is released
  the launching thread still writes `ctx->init`, logs with `ret` and reads
  `inst->handle`; a service retired in between may be freed. `NoUseAfterFree`
  makes this one exception: it says of the launcher only that the context is
  there while its handle is registered.
* `service_caoi.c:397`: an object that approaches in steps of less than half a
  radius never counts as moved, so it can come into range without a callback;
  `NoMissedArrival` excludes such objects.
* `agent.lua:144`: leave goes by the user's id, so the leave of an old agent
  takes the player of a new one off the map until his next move. Nobody tells
  the new client: it keeps the players it shows, and as its view table is gone
  it does not hear when they go. Likewise a late move of the old agent draws the
  notices to that agent. `NoGhostPlayers` makes exactly this exception.

## 5. Proofs

Every proof below holds for all values of the constants that satisfy the named
assumptions: any number of objects, threads, services, sockets, users or
coroutines, and any bound on what they do. Each rests on one inductive
invariant, which TLC checked on the instance of the run (and larger ones where
the text says so) before it was proved; the exception is `MapInv` of 5.2, which
quantifies over rank functions TLC cannot enumerate. A proof has a lemma for each action of
`Next`, or for each group of actions that change the same tables.

| theorems | module | properties of runs they state |
|---|---|---|
| view tables (5.1) | `SceneProofs` | `WatchedExist`, `PlayersAgree`, `MonstersAgree`, `NoGhostPlayers` |
| ring buffer and id map (5.2) | `ContainerProofs` | `ImplementsFifo`, `ReportsGrow`, `LookupExact`, `ChainsLead` |
| engine (5.3) | `CaoiProofs` | `RefCounted`, `OneHotPair`, `CallbackSound`, `NoMissedArrival`, `CallbackOnce` |
| service and engine (5.4) | `SceneProofs` | `ImplementsAoi`, `EngineInSync` |
| kernel (5.5) | `DispatchProofs` | `MutualExclusion`, `QueueInOnePlace`, `NoUseAfterFree`, `ExactlyOnce` |
| Lua scheduler (5.6) | `LuaServiceProofs` | `SessionsMatch`, `Drained`, `Exclusive` |
| connections (5.7) | `GateProofs` | `ClosedOnce`, `CountBalances` |
| sessions (5.8) | `SessionProofs` | `NeverAlreadyOnline`, `OnlineHasSecret`, `MapHasAgent` |
| redis channel (5.9) | `SocketChannelProofs` | `Aligned`, `SocketsShared` |

### 5.1 The view tables (`SceneProofs`, first part)

For any sets of players and monsters, any positions, any radius, and callbacks
in any order and arbitrarily late, `Invariance` proves `Spec => []Inv` with

    Inv == TypeOK /\ ViewsShaped /\ WatchedExist
                  /\ PlayersAgree /\ MonstersAgree /\ NoGhostPlayers

and `TypeCorrect`, `WatchedExistAlways`, `PlayersAgreeAlways`,
`MonstersAgreeAlways` and `NoGhostPlayersAlways` follow. No conjunct is
inductive alone. A departing player clears only the tables its own view names,
so that nobody else still names it (`WatchedExist`) needs the two sides to agree
(`PlayersAgree`), which needs every entry to have a mirror entry to write
(`ViewsShaped`). A client is told to remove an object only through such an
entry, so `NoGhostPlayers` needs all of them; it also says that what a client
shows is kept up to date only while its agent is the one in `OBJ`. The proof has one lemma for each
action, and `NearNotFar` for the one arithmetic fact: the in-range and
out-of-reach tests exclude each other. Assumptions: players and monsters are
disjoint, positions are integer vectors, the radius is positive, `Nil` is none
of these. `aoi_views` checks the last four conjuncts by enumeration.

`MonstersAgree` is one-sided because the converse is false: section 4.

### 5.2 The ring buffer and the id map (`ContainerProofs`)

`RingImplementsFifo` proves `Spec => ImplementsFifo` for every initial capacity,
every set of messages and any number of expansions. The invariant is `RingOK`
(head and tail within the capacity, the buffer a function on its slots); the
mapping reads `Contents` off the ring from head to tail. Push, push with
expansion and pop are shown, position by position, to be Append and Tail of
`Contents`; everything else leaves it alone.

`ReportsAlwaysGrow` proves `Spec => ReportsGrow` for every `MQ_OVERLOAD`, with
the invariant `AlarmInv`: a length waits to be reported only while the holder of
the queue has a message in hand, it is more than the last report, and the
threshold has passed both. `DoubledReaches` is about the loop that doubles the
threshold: it ends within `length` rounds, at a threshold `length` does not
exceed.

For the id map, `MapInvAlways` proves `MapSpec => []MapInv`, for any finite set
of ids and any initial size:

    MapInv == Good(map) /\ made \in [Id -> Nat]
              /\ \A id \in Id : made[id] = IF id \in Objects(map) THEN 1 ELSE 0

`LookupExactAlways` and `ChainsLeadAlways` follow. `Good` says that the slots
above `lastfree` are taken and that some function `r`, the place of an entry on
its chain, makes the chains `Linked`: no id has two slots, the main position of
every entry holds an entry that belongs there and is the first of its chain
(`Rooted`), a link leads to a later entry of the same chain (`Leads`) and passes
none by (`Joined`). Places grow along a chain but need not be consecutive, so
taking an entry off a chain changes no other place. `Rooted` is why an eviction
starts a chain that is empty, and why the entry that made way never makes
another one do so.

`LinkFill`, `LinkEvict` and `LinkChain` show that the three branches of
`map_insert` keep the chains linked, as facts about functions on slots;
`FilledGood`, `EvictedGood` and `ChainedGood` carry them over to tables.
`WalkEnds` is the one argument behind `Lookup` and `Before`: a loop that only
climbs a chain ends within as many rounds as the table has slots, by the
pigeonhole principle. `TwiceHasRoom` uses the same principle to show that
`rehash` never runs out of slots, `RehashGood` that it keeps exactly the
objects. The size of the table is any positive number in these proofs: that it
is a power of two only matters for `mainposition` being a mask in the source.

### 5.3 The engine (`CaoiProofs`)

`EngineInvariant` proves `Spec => []CInv` with

    CInv == TypeOK /\ DropAlone /\ EndsHold /\ RefCounted /\ OneHotPair

`RefCounted` counts pairs, and the code adds one reference per pair it makes, so
it needs to know that the pair is a new one: `OneHotPair`. That holds because an
object that has moved has outdated its old pairs, and `flush_pair` forgets those
first: `EndsHold` (an end of a hot pair that still has the pair's version plays
the role it had then and has not moved). `EndsHold` in turn needs the object,
with its version, not to be freed and made anew while a pair points to it:
`RefCounted`. `DropAlone` says that `MODE_DROP` stands alone, so a departed
object takes part in nothing. `CallbackSoundAlways` follows: `flush_pair` need
not look at the roles again, since a pair with current versions has them.

`HistoryInvariant` adds `ToldSettled` (a pair that was called back, and whose
objects have not moved since, has no valid hot pair) for `CallbackOnceAlways`
and `NoMissedArrivalAlways`; `HistoryWatches` shows that the history variables
only watch. Assumptions: finitely many ids, integer positions, a positive
radius, `Nil` is neither an id nor an object.

### 5.4 Service and engine (`SceneProofs`, second part)

`SceneInvariant` proves `SSpec => []SInv` for the two services and their
mailboxes (487,301 states of the instance of `scene` satisfy it), with

    SInv == Mailboxes /\ E!CInv /\ PlayersWatch /\ Synced

`E` is `CaoiProofs` instantiated with what aoi.lua sends: scaled positions, two
mode strings. Its lemmas on `aoi_update`, `aoi_drop` and `aoi_message` are used
as they are, once its assumptions are shown to hold there (`Assumptions`).
`Mailboxes` says that the texts and callbacks that wait are well formed,
`PlayersWatch` that only players hold the watcher bit. `Synced` is about each
player: the last waiting text about him tells the truth; if no text about him
waits, the engine holds what the map holds; and of one that left the map it
holds at most a dropped object, while a further `aoi_message`, which frees it
(`MessageFrees`), is in the mailbox or due at the next tick.

From it follow `EngineInSyncAlways`; `SceneImplementsAoi`, the refinement
(each callback read from the mailbox is one that `Aoi` allows; the steps of the
engine change nothing of the service); `SceneRunsEngine`, the refinement in the
other direction, `SSpec => C!Spec`; and `SceneViews`, which carries the results
of 5.1 over to the composition. Assumptions besides those of 5.1 and 5.3: there
is a position.

### 5.5 The kernel (`DispatchProofs`)

`KernelInvariant` proves `Spec => []KernelInv` for every number of workers,
other threads and handles, every weight and every set of services started at
boot:

    KernelInv == Types /\ Control /\ Alone /\ Found
                       /\ Counted /\ Lives /\ Ready /\ Fates

None of the four properties is inductive. `Control` says what a thread has in
its hands at each program counter; `Alone` that no queue is in two places;
`Found` that it is in one place exactly while `in_global` or `release` says so,
which is what `skynet_mq_push`, `skynet_mq_mark_release` and the worker's
push-back go by. `Counted` equates a reference count with the references there
are (handle table, calls that grabbed, workers that dispatch, the init that
runs) and says that one thread only goes on to mark the queue; `Lives` and
`Ready` tie the flags to the life of context, queue and init; `Fates` says where
the messages of an id are. `NoUseAfterFree` follows for every use that holds a
reference; for the launcher of a service, which holds none from
`skynet_server.c:164` on, the handle table's reference takes its place, and with
it the guarantee ends when the service is retired. `Types` is `TypeOK` without `left`, whose range is
written with powers of two.

### 5.6 The Lua scheduler (`LuaServiceProofs`)

`LuaInvariant` proves `Spec => []LuaInv`:

    LuaInv == Types /\ OneRuns /\ Tables /\ Expected /\ Queued /\ Drains /\ Section

`Tables` relates the session tables to what each coroutine is suspended for;
`Expected` says what is still to come for a session, so that a `BREAK` entry
always has its timer; `Queued` that who stands in a queue stands there once and
in the state in which it was put there, so that the resume finds it so; `Drains`
that whatever a failed coroutine left in the queues has the empty fork that
`suspend` adds coming behind it; `Section` the handing over of the
critical section, in which the next holder is entered before it runs. The
properties are about single tables; the invariant relates all of them, because
one wake-up changes four. Assumptions: finitely many sessions (they are numbers
of 31 bits), distinct names.

### 5.7 Connections (`GateProofs`)

`GateInvariant` proves `Spec => []GInv` for any number of sockets, any
`maxclient` and any activity:

    GInv == Types /\ Accepted /\ Closed /\ Closing /\ CountBalances

An accepted socket has its open in the mailbox or has been answered
(`Accepted`); one that has ended has its close behind it, once, or it was
handled (`Closed`). `Closing` came out of the failed attempt without it:
`send_buffer` closes a socket without raising an event, which is right only
because a socket with `closing` set is not read any more, so that its close was
raised when it stopped being read. `client_number` follows from closes being
handled once per socket and not before its open.

### 5.8 Sessions (`SessionProofs`)

`SessionInvariant` proves `Spec => []SInv` for any users, connections and
activity (TLC: 85,619 states of the run's instance, 188,392 with two users):

    SInv == Types /\ Boxes /\ Logins /\ Entered /\ Stops /\ Leaves

The handlers of four services wait for each other, so what a handler knows when
it goes on must have been carried by the messages. `Boxes` says that every
message in every mailbox is true while it waits (`Fine`). `Logins` says that a
login under way is borne by exactly one message of one mailbox (`Bears`,
`OneEach`) and what holds meanwhile: the user is locked, and from the moment
`logout` was handled he is offline, so `login` does not find him online.
`Entered` says that who is in a table belongs to that connection or user.
`Stops` and `Leaves` are about the order of messages: the gate closes the
connection before the agent is told, so no packet follows the disconnect; an
enter precedes the leave of the same agent; and once the leave was answered no
enter of that agent is left, so the map never has a player whose agent exited or
stays because the save failed.
Assumption: the handles of the four services are distinct and no agent's.

### 5.9 The redis channel (`SocketChannelProofs`)

`InvAlways` proves `Spec => []Inv` for any number of coroutines, connections and
requests (TLC: 443,735 states of the run's instance, 390,991 with three
coroutines on two connections):

    Inv == Types /\ Scheduled /\ Connects /\ Requests
                 /\ Reading /\ Closes /\ Network /\ Ordered

`AlignedAlways` follows from `Ordered`: of the socket that is read, the answers
in the buffer, in the messages of the mailbox and on the wire, in that order,
are those to the first requests that wait, one by one; on a connection that is
up, to all of them. An answer therefore never meets the wrong request as long as
nobody empties the list of those who wait while D goes on reading. One who may
is a coroutine in `sock_err`, which waits in `socket.close`, perhaps while
another one opens the next socket. `Closes` is the reason that it comes in time:
what wakes it (the end of its socket, or D, which anything about that socket
wakes) lies in the mailbox before everything about the next socket, so it has
told everyone before that socket is used; and if D has suspended again by then,
D is lost and reads nothing any more. `Requests` says that those who wait are asleep and
have no result yet, `Reading` that D reads the channel's socket or one that is
given up, `Connects` that one coroutine opens a socket while the channel has
none and that this socket has said nothing yet, `Network` in which order the
messages about a socket come. `SocketsSharedAlways` states the asserts of the
source, `WakesSleepers` that each wakeup finds its coroutine asleep and comes
once, `StaysDown` that D, once dead or lost, remains so and the channel without
a socket.

`Ordered` counts answers along the mailbox with offsets (`InOrderBy`), so that a
step changes them at one end only; the order lemmas (`OrderAnswer`, `OrderRead`,
`OrderPost`, `OrderAppend`) are about arbitrary mailboxes. `SetInduction` gives
induction over the naturals as a statement about a set (an inductive set of
naturals is all of them, by the pigeonhole principle of the library), which is
what `WaitersFacts` needs for the loop of `wakeup_all`. Assumptions: the
coroutines, D, the close signal and the special results are distinct, and there
is a connection to open.

### 5.10 Only model-checked

* **Liveness** (`EventuallyFreed`, `Delivery`, `Reclaimed`, `EveryTimerFires`,
  `PlaceReturned`, `LoginEnds`, `AgentExits`, `QueueServed`, `EndsOrDead`): the
  prover handles no fairness.
* **`ImplementsAlarm`, `FiresInOrder`** of `Timer`: they rest on the arithmetic
  of the wheel's indices, quotients and remainders by powers of two, for which
  the provers have no rules.

## 6. Plan

In this order:

1. *Done:* AOI engine with its id map, AOI service and their composition;
   kernel; ring buffer; timer wheel; sockets and gate; sessions; Lua scheduler
   and critical section; redis channel; theorems for all of them but the timer
   (section 5).
2. **Actor**: an abstract specification of the kernel (each service a mailbox
   and at most one running handler), refined by `Dispatch`; the quit path of
   the threads.
3. Outgoing connections in `Sockets`, under `SocketChannel`.

## 7. Not modelled, and why

* **Most of the repository's lines.** They are vendored: Lua, jemalloc, lpeg,
  cjson, msgpack and protocol libraries. The models cover the game's services and
  the parts of skynet they stand on, a small share of all lines.
* **Handshake of the login server:** arithmetic on keys; `accept` begins when the
  client has passed it or not.
* **`request`, `killthread`, `exit` and response closures of the Lua
  scheduler:** the game's services do not use the first two; `exit` is the last
  thing an agent does and is the end of its mailbox in `Session`. A
  `skynet.timeout` is a fork that begins with a sleep.
* **Session mode, auth, backup hosts and overload of the socket channel:** not
  used by redisd.
* **Launcher, boot scripts, datacenter:** run once before the first client.
* **Float rounding and `aoi_release` of the engine:** coordinates are integers
  in practice; `aoi_release` runs when the process ends.
* **Names, harbor, monitor, log and stat commands of the kernel:** the game runs
  one node, and the monitor only prints.
* **UDP, outgoing connections, pause, priorities of the two send lists, the
  listening socket's own life:** not used by the path of a client. The listening
  socket is opened once; no service closes it.
* **Packet cutting (`netpack`), msgpack, cryptography, redis itself, web page,
  OpenResty front end, clients:** conversions and I/O whose results the models
  take as inputs (a packet arrives; a token is right or wrong).
* **aoitest, aoiagent, mapagent:** load generators and a sink.
* **`CMD.close` of aoi.lua:** calls the result of `skynet.timeout`, which is
  nil; no service sends it.
