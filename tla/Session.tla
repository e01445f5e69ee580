------------------------------ MODULE Session ------------------------------
(***************************************************************************)
(* A user's session: the login server (logind.lua on loginserver.lua)      *)
(* checks who is online and has the watchdog kick an earlier login; the    *)
(* watchdog hands out secrets, accepts the login packet of a game          *)
(* connection, launches its agent and takes it down again; the agent       *)
(* starts, puts its user on the map and leaves it.                         *)
(*                                                                         *)
(* Every service has one mailbox, handled in order.  A handler runs to its *)
(* next yield (call, newservice) as one step; what it is waiting for then  *)
(* is a message on its way or a program counter, and other messages are    *)
(* handled meanwhile.  The gate is here as far as the session needs it;    *)
(* module Gate has the rest.                                               *)
(***************************************************************************)
EXTENDS Naturals, Sequences

CONSTANTS
  User, Fd,     \* user ids; game connections, all of them accepted
  logind, watchdog, gate, aoi,   \* the handles of the services
  Nil,          \* nil
  MaxActivity   \* bound on logins, packets, closes and missing heartbeats

Service == {logind, watchdog, gate, aoi}

ASSUME SessionAssumption ==
  /\ MaxActivity \in Nat
  /\ Nil \notin User \cup Nat
  /\ Service \cap Nat = {}
  /\ logind \notin {watchdog, gate, aoi} /\ watchdog \notin {gate, aoi} /\ gate # aoi

Agent == 1 .. MaxActivity     \* agents, in the order of their launch

VARIABLES
  login,        \* coroutines of accept: a sequence of [user, pc, subid]
  user_login,   \* loginserver.lua: users whose login is in progress
  user_online,  \* logind.lua: the subid of a user, 0 for nil
  subid, user_secret,    \* watchdog.lua; a secret is known by its subid
  session_map,  \* watchdog.lua: the user of a connection
  agent,        \* watchdog.lua: the agent of a connection
  connection,   \* gateserver.lua: is the connection true?
  forward,      \* gate.lua: who gets the packets of a connection
  born,         \* the login packets that got an agent: [fd, user, subid]
  start, stop,  \* where an agent is in CMD.start and CMD.disconnect
  POS,          \* agents that have a position
  onmap,        \* aoi.lua: the agent of a user's OBJ entry
  box,          \* mailboxes
  activity      \* logins, packets, closes and missing heartbeats so far

lvars == <<login, user_login, user_online>>
wvars == <<subid, user_secret, session_map, agent, born>>
gvars == <<connection, forward>>
avars == <<start, stop, POS>>
vars == <<lvars, wvars, gvars, avars, onmap, box, activity>>

(* Mailboxes b with message m sent to a service, or to an agent, which     *)
(* gets it unless it has exited.                                           *)
Send(b, to, m) ==
  IF to \in Agent /\ stop[to] = "exited" THEN b
  ELSE [b EXCEPT ![to] = Append(@, m)]

Head1(service, name) ==
  /\ box[service] # <<>>
  /\ Head(box[service])[1] = name

Msg(service) == Head(box[service])
Rest(service) == [box EXCEPT ![service] = Tail(@)]

(* The users' doings are bounded. *)
Active ==
  /\ activity < MaxActivity
  /\ activity' = activity + 1

-----------------------------------------------------------------------------
(* The login server. *)

(* Mutant: the lock is not looked at. *)
accept_unlocked(u) ==
  LET k == Len(login) + 1
      pc == IF user_online[u] # 0 THEN "kick" ELSE "login" IN
  /\ Active
  /\ login' = Append(login, [user |-> u, pc |-> pc, subid |-> 0])
  /\ user_login' = user_login \cup {u}
  /\ box' = Send(box, watchdog, <<pc, u, k>>)
  /\ UNCHANGED <<user_online, wvars, gvars, avars, onmap>>

(* A client has passed auth_handler.  One login of a user at a time: the   *)
(* others are answered 406.                                                *)
accept(u) ==
  LET k == Len(login) + 1
      pc == IF u \in user_login THEN "406"
            ELSE IF user_online[u] # 0 THEN "kick" ELSE "login" IN
  /\ Active
  /\ login' = Append(login, [user |-> u, pc |-> pc, subid |-> 0])
  /\ user_login' = user_login \cup {u}
  /\ box' = IF pc = "406" THEN box ELSE Send(box, watchdog, <<pc, u, k>>)
  /\ UNCHANGED <<user_online, wvars, gvars, avars, onmap>>

(* The call of kick has returned.  A user who is still online is an error, *)
(* answered 403.                                                           *)
login_handler_kicked ==
  /\ Head1(logind, "kicked")
  /\ LET k == Msg(logind)[2]
         u == login[k].user
     IN IF user_online[u] # 0
          THEN /\ login' = [login EXCEPT ![k].pc = "403"]
               /\ user_login' = user_login \ {u}
               /\ box' = Rest(logind)
          ELSE /\ login' = [login EXCEPT ![k].pc = "login"]
               /\ box' = Send(Rest(logind), watchdog, <<"login", u, k>>)
               /\ UNCHANGED user_login
  /\ UNCHANGED <<user_online, wvars, gvars, avars, onmap, activity>>

(* Mutant: the lock is kept. *)
login_handler_done_locked ==
  /\ Head1(logind, "subid")
  /\ LET k == Msg(logind)[2]
         s == Msg(logind)[3]
         u == login[k].user
     IN /\ login' = [login EXCEPT ![k].pc = "200", ![k].subid = s]
        /\ user_online' = [user_online EXCEPT ![u] = s]
  /\ box' = Rest(logind)
  /\ UNCHANGED <<user_login, wvars, gvars, avars, onmap, activity>>

(* The call of login has returned; 200 with the subid. *)
login_handler_done ==
  /\ Head1(logind, "subid")
  /\ LET k == Msg(logind)[2]
         s == Msg(logind)[3]
         u == login[k].user
     IN /\ login' = [login EXCEPT ![k].pc = "200", ![k].subid = s]
        /\ user_login' = user_login \ {u}
        /\ user_online' = [user_online EXCEPT ![u] = s]
  /\ box' = Rest(logind)
  /\ UNCHANGED <<wvars, gvars, avars, onmap, activity>>

CMD_logout ==
  /\ Head1(logind, "logout")
  /\ LET u == Msg(logind)[2] IN
       /\ user_online' = [user_online EXCEPT ![u] = 0]
       /\ box' = Send(Rest(logind), watchdog, <<"logged_out", u, Msg(logind)[3]>>)
  /\ UNCHANGED <<login, user_login, wvars, gvars, avars, onmap, activity>>

-----------------------------------------------------------------------------
(* The watchdog. *)

(* Mutant: the secret is kept under the subid before. *)
CMD_login_stale ==
  /\ Head1(watchdog, "login")
  /\ LET u == Msg(watchdog)[2] IN
       /\ subid' = subid + 1
       /\ user_secret' = [user_secret EXCEPT ![u] = subid]
       /\ box' = Send(Rest(watchdog), logind, <<"subid", Msg(watchdog)[3], subid + 1>>)
  /\ UNCHANGED <<lvars, session_map, agent, born, gvars, avars, onmap, activity>>

CMD_login ==
  /\ Head1(watchdog, "login")
  /\ LET u == Msg(watchdog)[2] IN
       /\ subid' = subid + 1
       /\ user_secret' = [user_secret EXCEPT ![u] = subid + 1]
       /\ box' = Send(Rest(watchdog), logind, <<"subid", Msg(watchdog)[3], subid + 1>>)
  /\ UNCHANGED <<lvars, session_map, agent, born, gvars, avars, onmap, activity>>

(* The end of a handler that closed an agent: the caller gets its answer.  *)
(* Callers are a login (kick), an agent (close) and nobody: socket         *)
(* messages and the heartbeat's close are sends.                           *)
Answer(b, caller) ==
  CASE caller[1] = "kick"  -> Send(b, logind, <<"kicked", caller[2]>>)
    [] caller[1] = "agent" -> Send(b, caller[2], <<"closed">>)
    [] OTHER -> b

(* Mutant: the agent is told before the gate has let go of the client. *)
close_agent_at_once(fd, caller) ==
  /\ session_map' = [session_map EXCEPT ![fd] = Nil]
  /\ agent' = [agent EXCEPT ![fd] = Nil]
  /\ box' = IF agent[fd] = Nil
              THEN Answer(Rest(watchdog), caller)
              ELSE Send(Send(Rest(watchdog), agent[fd], <<"disconnect">>),
                        gate, <<"kick", fd, Nil, caller>>)

(* Runs to the call of the gate's kick, if the connection has an agent. *)
close_agent(fd, caller) ==
  /\ session_map' = [session_map EXCEPT ![fd] = Nil]
  /\ agent' = [agent EXCEPT ![fd] = Nil]
  /\ box' = IF agent[fd] = Nil
              THEN Answer(Rest(watchdog), caller)
              ELSE Send(Rest(watchdog), gate, <<"kick", fd, agent[fd], caller>>)

(* The call of the gate's kick has returned. *)
close_agent_kicked ==
  /\ Head1(watchdog, "gate_kicked")
  /\ LET a == Msg(watchdog)[2]
         b == IF a = Nil THEN Rest(watchdog)
              ELSE Send(Rest(watchdog), a, <<"disconnect">>)
     IN box' = Answer(b, Msg(watchdog)[3])
  /\ UNCHANGED <<lvars, wvars, gvars, avars, onmap, activity>>

CMD_kick ==
  /\ Head1(watchdog, "kick")
  /\ box' = Send(Rest(watchdog), logind,
                 <<"logout", Msg(watchdog)[2], Msg(watchdog)[3]>>)
  /\ UNCHANGED <<lvars, wvars, gvars, avars, onmap, activity>>

(* The call of logout has returned.  get_fd_by_userid returns some         *)
(* connection of the user.                                                 *)
CMD_kick_logged_out ==
  /\ Head1(watchdog, "logged_out")
  /\ LET u == Msg(watchdog)[2]
         caller == <<"kick", Msg(watchdog)[3]>>
         fds == {fd \in Fd : session_map[fd] = u}
     IN /\ user_secret' = [user_secret EXCEPT ![u] = 0]
        /\ IF fds = {}
             THEN box' = Answer(Rest(watchdog), caller) /\ UNCHANGED <<session_map, agent>>
             ELSE \E fd \in fds : close_agent(fd, caller)
  /\ UNCHANGED <<lvars, subid, born, gvars, avars, onmap, activity>>

(* SOCKET.close and SOCKET.error from the gate, CMD.close from an agent. *)
SOCKET_close ==
  /\ Head1(watchdog, "close")
  /\ close_agent(Msg(watchdog)[2], Msg(watchdog)[3])
  /\ UNCHANGED <<lvars, subid, user_secret, born, gvars, avars, onmap, activity>>

(* The packet of a client that logged in as login k.  Without a secret the *)
(* handler fails; with another login's secret the connection is kicked;    *)
(* else a new agent is launched, which yields.                             *)
SOCKET_data ==
  /\ Head1(watchdog, "data")
  /\ LET fd == Msg(watchdog)[2]
         k == Msg(watchdog)[3]
         u == login[k].user
     IN IF user_secret[u] \notin {0, login[k].subid}
          THEN /\ box' = Send(Rest(watchdog), gate, <<"kick", fd, Nil, <<"nobody">> >>)
               /\ UNCHANGED <<session_map, born, start>>
          ELSE /\ box' = Rest(watchdog)
               /\ IF user_secret[u] = 0
                    THEN UNCHANGED <<session_map, born, start>>
                    ELSE /\ session_map' = [session_map EXCEPT ![fd] = u]
                         /\ born' = Append(born, [fd |-> fd, user |-> u,
                                                  subid |-> login[k].subid])
                         /\ start' = [start EXCEPT ![Len(born) + 1] = "launched"]
  /\ UNCHANGED <<lvars, subid, user_secret, agent, gvars, stop, POS, onmap, activity>>

(* newservice has returned; the agent is entered and called.  CMD.start is *)
(* the first message the agent handles; it runs to its call of loadid.     *)
(* Nothing happens here when start returns or fails.                       *)
SOCKET_data_launched(a) ==
  /\ start[a] = "launched"
  /\ start' = [start EXCEPT ![a] = "loadid"]
  /\ agent' = [agent EXCEPT ![born[a].fd] = a]
  /\ UNCHANGED <<lvars, subid, user_secret, session_map, born, gvars, stop, POS,
                 onmap, box, activity>>

-----------------------------------------------------------------------------
(* The gate. *)

CMD_gate_kick ==
  /\ Head1(gate, "kick")
  /\ connection' = [connection EXCEPT ![Msg(gate)[2]] = FALSE]
  /\ box' = Send(Rest(gate), watchdog, <<"gate_kicked", Msg(gate)[3], Msg(gate)[4]>>)
  /\ UNCHANGED <<lvars, wvars, forward, avars, onmap, activity>>

(* The assert on the entry of the connection fails if it has closed. *)
CMD_forward ==
  /\ Head1(gate, "forward")
  /\ LET fd == Msg(gate)[2]
         a == Msg(gate)[3]
     IN IF forward[fd] = Nil
          THEN box' = Send(Rest(gate), a, <<"not_forwarded">>) /\ UNCHANGED forward
          ELSE /\ box' = Send(Rest(gate), a, <<"forwarded">>)
               /\ forward' = [forward EXCEPT ![fd] = a]
  /\ UNCHANGED <<lvars, wvars, connection, avars, onmap, activity>>

(* A packet of a client: to the watchdog, the login packet of a client     *)
(* that got 200; to its agent, a move.                                     *)
message(fd) ==
  /\ connection[fd]
  /\ Active
  /\ \/ /\ forward[fd] = watchdog
        /\ \E k \in DOMAIN login :
             /\ login[k].pc = "200"
             /\ box' = Send(box, watchdog, <<"data", fd, k>>)
     \/ /\ forward[fd] \in Agent
        /\ box' = Send(box, forward[fd], <<"move">>)
  /\ UNCHANGED <<lvars, wvars, gvars, avars, onmap>>

(* The socket closes or fails, of itself or because of a kick. *)
disconnect(fd) ==
  /\ forward[fd] # Nil
  /\ Active
  /\ forward' = [forward EXCEPT ![fd] = Nil]
  /\ connection' = [connection EXCEPT ![fd] = FALSE]
  /\ box' = Send(box, watchdog, <<"close", fd, <<"nobody">> >>)
  /\ UNCHANGED <<lvars, wvars, avars, onmap>>

-----------------------------------------------------------------------------
(* Agents. *)

(* The calls of redisd in CMD.start and CMD.disconnect are not protected:  *)
(* when redis cannot be asked they raise, and the handler ends there.  A   *)
(* request that never ends (module SocketChannel) stops it there as well;  *)
(* "failed" and "unsaved" stand for both.                                  *)

(* redisd has answered loadid, or not. *)
CMD_start_loadid(a) ==
  /\ start[a] = "loadid" /\ stop[a] # "exited"
  /\ \/ /\ start' = [start EXCEPT ![a] = "forward"]
        /\ box' = Send(box, gate, <<"forward", born[a].fd, a>>)
     \/ /\ start' = [start EXCEPT ![a] = "failed"]
        /\ UNCHANGED box
  /\ UNCHANGED <<lvars, wvars, gvars, stop, POS, onmap, activity>>

CMD_start_forwarded(a) ==
  /\ \/ Head1(a, "forwarded") /\ start' = [start EXCEPT ![a] = "load"]
     \/ Head1(a, "not_forwarded") /\ start' = [start EXCEPT ![a] = "failed"]
  /\ box' = Rest(a)
  /\ UNCHANGED <<lvars, wvars, gvars, stop, POS, onmap, activity>>

(* usermodel:load has returned, and the handlers and the heartbeat are     *)
(* there, or it has failed.                                                *)
CMD_start_load(a) ==
  /\ start[a] = "load" /\ stop[a] # "exited"
  /\ \E s \in {"beating", "failed"} : start' = [start EXCEPT ![a] = s]
  /\ UNCHANGED <<lvars, wvars, gvars, stop, POS, onmap, box, activity>>

Up(a) == start[a] \in {"beating", "up"}

(* No packet for 60 seconds: the loop asks for the end and stops. *)
heartbeat(a) ==
  /\ start[a] = "beating" /\ stop[a] # "exited"
  /\ Active
  /\ start' = [start EXCEPT ![a] = "up"]
  /\ box' = Send(box, watchdog, <<"close", born[a].fd, <<"nobody">> >>)
  /\ UNCHANGED <<lvars, wvars, gvars, stop, POS, onmap>>

(* mainscene.move, once the handlers are there. *)
move(a) ==
  /\ Head1(a, "move")
  /\ IF Up(a)
       THEN /\ POS' = POS \cup {a}
            /\ box' = Send(Rest(a), aoi, <<"enter", born[a].user, a>>)
       ELSE box' = Rest(a) /\ UNCHANGED POS
  /\ UNCHANGED <<lvars, wvars, gvars, start, stop, onmap, activity>>

CMD_disconnect(a) ==
  /\ Head1(a, "disconnect")
  /\ stop' = [stop EXCEPT ![a] = "close"]
  /\ box' = Send(Rest(a), watchdog, <<"close", born[a].fd, <<"agent", a>> >>)
  /\ UNCHANGED <<lvars, wvars, gvars, start, POS, onmap, activity>>

(* The watchdog has answered; the leave carries the position, if any. *)
CMD_disconnect_closed(a) ==
  /\ Head1(a, "closed")
  /\ stop' = [stop EXCEPT ![a] = "leave"]
  /\ box' = Send(Rest(a), aoi, <<"leave", born[a].user, a, a \in POS>>)
  /\ UNCHANGED <<lvars, wvars, gvars, start, POS, onmap, activity>>

(* Mutant: a user that was never loaded is saved, which fails. *)
CMD_disconnect_left_saves(a) ==
  /\ Head1(a, "left")
  /\ stop' = [stop EXCEPT ![a] = IF Up(a) THEN "save" ELSE "unsaved"]
  /\ box' = Rest(a)
  /\ UNCHANGED <<lvars, wvars, gvars, start, POS, onmap, activity>>

(* The map has answered; a user that was loaded is saved. *)
CMD_disconnect_left(a) ==
  /\ Head1(a, "left")
  /\ IF Up(a)
       THEN stop' = [stop EXCEPT ![a] = "save"] /\ box' = Rest(a)
       ELSE stop' = [stop EXCEPT ![a] = "exited"] /\ box' = [box EXCEPT ![a] = <<>>]
  /\ UNCHANGED <<lvars, wvars, gvars, start, POS, onmap, activity>>

(* redisd has answered saveuser, and skynet.exit drops what is in the      *)
(* mailbox; or it has not, and the agent stays, its heartbeat with it.     *)
CMD_disconnect_saved(a) ==
  /\ stop[a] = "save"
  /\ \/ /\ stop' = [stop EXCEPT ![a] = "exited"]
        /\ box' = [box EXCEPT ![a] = <<>>]
     \/ /\ stop' = [stop EXCEPT ![a] = "unsaved"]
        /\ UNCHANGED box
  /\ UNCHANGED <<lvars, wvars, gvars, start, POS, onmap, activity>>

-----------------------------------------------------------------------------
(* The map: aoi.lua, of which module Aoi has the views. *)

CMD_enter ==
  /\ Head1(aoi, "enter")
  /\ onmap' = [onmap EXCEPT ![Msg(aoi)[2]] = Msg(aoi)[3]]
  /\ box' = Rest(aoi)
  /\ UNCHANGED <<lvars, wvars, gvars, avars, activity>>

(* A leave without a position fails before it changes anything. *)
CMD_leave ==
  /\ Head1(aoi, "leave")
  /\ onmap' = IF Msg(aoi)[4] THEN [onmap EXCEPT ![Msg(aoi)[2]] = Nil] ELSE onmap
  /\ box' = Send(Rest(aoi), Msg(aoi)[3], <<"left">>)
  /\ UNCHANGED <<lvars, wvars, gvars, avars, activity>>

-----------------------------------------------------------------------------
Init ==
  /\ login = <<>> /\ user_login = {}
  /\ user_online = [u \in User |-> 0]
  /\ subid = 0
  /\ user_secret = [u \in User |-> 0]
  /\ session_map = [fd \in Fd |-> Nil]
  /\ agent = [fd \in Fd |-> Nil]
  /\ connection = [fd \in Fd |-> TRUE]
  /\ forward = [fd \in Fd |-> watchdog]
  /\ born = <<>>
  /\ start = [a \in Agent |-> "none"]
  /\ stop = [a \in Agent |-> "no"]
  /\ POS = {}
  /\ onmap = [u \in User |-> Nil]
  /\ box = [s \in Service \cup Agent |-> <<>>]
  /\ activity = 0

Logind == login_handler_kicked \/ login_handler_done \/ CMD_logout

Watchdog ==
  \/ CMD_login \/ CMD_kick \/ CMD_kick_logged_out \/ close_agent_kicked
  \/ SOCKET_close \/ SOCKET_data

AgentStep(a) ==
  \/ CMD_start_forwarded(a) \/ move(a)
  \/ CMD_disconnect(a) \/ CMD_disconnect_closed(a) \/ CMD_disconnect_left(a)

(* Answers of the launcher and of redisd, or their absence. *)
Answered(a) ==
  \/ SOCKET_data_launched(a) \/ CMD_start_loadid(a) \/ CMD_start_load(a)
  \/ CMD_disconnect_saved(a)

Serve ==
  \/ Logind \/ Watchdog \/ CMD_gate_kick \/ CMD_forward \/ CMD_enter \/ CMD_leave
  \/ \E a \in Agent : AgentStep(a) \/ Answered(a)

Next ==
  \/ Serve
  \/ \E u \in User : accept(u)
  \/ \E fd \in Fd : message(fd) \/ disconnect(fd)
  \/ \E a \in Agent : heartbeat(a)

Spec == Init /\ [][Next]_vars

(* Mailboxes are served and the launcher answers; redisd answers or does   *)
(* not, and nothing is asked of clients.  One condition for all is enough: *)
(* every such step brings some handler nearer to its end.                  *)
FairSpec == Spec /\ WF_vars(Serve)

-----------------------------------------------------------------------------
(* Kicking a user ends the login before it: "user is already online" is    *)
(* never the answer to a login, whatever other logins, packets and closes  *)
(* are handled while login_handler and CMD.kick wait for each other.       *)
NeverAlreadyOnline == \A k \in DOMAIN login : login[k].pc # "403"

(* Unless a login is in progress, login server and watchdog agree: a user  *)
(* is online exactly if a secret is kept, and it is the one of that login. *)
OnlineHasSecret ==
  \A u \in User \ user_login : user_secret[u] = user_online[u]

(* A user on the map has an agent that is still there and will take him    *)
(* off: no packet that is still under way puts a player back on the map    *)
(* after the leave of his agent (CMD.disconnect), neither when the agent   *)
(* has exited nor when it stays because usermodel:save failed.             *)
MapHasAgent ==
  \A u \in User : onmap[u] # Nil => stop[onmap[u]] \notin {"exited", "unsaved"}

(* logind calls kick, which calls logout of logind and the gate; still     *)
(* every login ends, and gives its lock back.                              *)
LoginEnds == \A u \in User : u \in user_login ~> u \notin user_login

(* The agent that the watchdog disconnects calls the watchdog, the map and *)
(* redisd in turn, also when it is still starting or its start has failed; *)
(* it exits in the end.  The one exception is the save of a user that was  *)
(* loaded: CMD.disconnect calls usermodel:save without pcall, so when that *)
(* fails skynet.exit is not reached and the agent stays.                   *)
AgentExits ==
  \A a \in Agent :
    stop[a] = "close" ~> stop[a] = "exited" \/ (stop[a] = "unsaved" /\ Up(a))
=============================================================================
