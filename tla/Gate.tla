-------------------------------- MODULE Gate --------------------------------
(***************************************************************************)
(* The gate service (gate.lua on gateserver.lua) between the socket thread *)
(* and the watchdog: it admits at most maxclient connections, hands a      *)
(* client's packets to the watchdog until an agent asks for them, and      *)
(* forgets the client when its socket closes or fails.  Two tables         *)
(* describe a client: connection of gateserver.lua, and connection of      *)
(* gate.lua (here "forward": who gets its packets).                        *)
(*                                                                         *)
(* Nothing in the handlers of the gate yields, so each runs as one step.   *)
(* The calls of the watchdog and of agents wait in the gate's mailbox      *)
(* among the messages of the socket thread.                                *)
(***************************************************************************)
EXTENDS Sockets

CONSTANT maxclient   \* conf.maxclient
ASSUME GateAssumption == maxclient \in Nat

VARIABLES
  connection,     \* gateserver.lua: "true" connected, "false" close read, "nil"
  forward,        \* gate.lua: "nil", or who gets the packets of the fd
  client_number,  \* gateserver.lua
  calls,          \* what the watchdog and agents have yet to do, per fd
  agent,          \* watchdog.lua: has the fd an entry in agent?
  running,        \* an agent serves the fd and may write to it
  admitted, refused,   \* history: the answers of MSG.open
  over                 \* history: the sockets whose MSG.close was handled

gvars == <<connection, forward, client_number, calls, agent, running,
           admitted, refused, over>>
vars == <<kvars, gvars>>

Call == {"open", "login", "start"}

Ask(request, fd) == pipe' = Append(pipe, <<request, fd>>)

Begin(call, fd) == calls' = [calls EXCEPT ![fd][call] = @ + 1]

Take(call, fd) ==
  /\ calls[fd][call] > 0
  /\ calls' = [calls EXCEPT ![fd][call] = @ - 1]

close_fd(fd) == forward' = [forward EXCEPT ![fd] = "nil"]

Dispatch(event, fd) ==
  /\ inbox # <<>>
  /\ Head(inbox) = <<event, fd>>
  /\ inbox' = Tail(inbox)
  /\ UNCHANGED <<sock, closing, unsent, activity>>

-----------------------------------------------------------------------------
(* Socket messages. *)

(* A refused connection is shut down, and its close is counted later. *)
MSG_open(fd) ==
  /\ Dispatch("open", fd)
  /\ IF client_number >= maxclient
       THEN /\ Ask("shutdown", fd)
            /\ refused' = refused \cup {fd}
            /\ UNCHANGED <<connection, forward, client_number, calls, admitted>>
       ELSE /\ connection' = [connection EXCEPT ![fd] = "true"]
            /\ client_number' = client_number + 1
            /\ forward' = [forward EXCEPT ![fd] = "watchdog"]
            /\ Begin("open", fd)
            /\ admitted' = admitted \cup {fd}
            /\ UNCHANGED <<pipe, refused>>
  /\ UNCHANGED <<agent, running, over>>

(* The packet goes to the agent, or to the watchdog, which starts a login; *)
(* or it is dropped, if the fd is not connected.  When gate.lua has        *)
(* forgotten the fd, handler.message fails on the nil entry.               *)
MSG_data(fd) ==
  /\ Dispatch("data", fd)
  /\ IF connection[fd] = "true" /\ forward[fd] = "watchdog"
       THEN Begin("login", fd)
       ELSE UNCHANGED calls
  /\ UNCHANGED <<pipe, connection, forward, client_number, agent, running,
                 admitted, refused, over>>

MSG_close(fd) ==
  /\ Dispatch("close", fd)
  /\ client_number' = client_number - 1
  /\ connection' = [connection EXCEPT ![fd] = IF @ = "true" THEN "false" ELSE @]
  /\ close_fd(fd)
  /\ over' = over \cup {fd}
  /\ UNCHANGED <<pipe, calls, agent, running, admitted, refused>>

(* Mutant: the error gives the client's place back, too. *)
MSG_error_counts(fd) ==
  /\ Dispatch("error", fd)
  /\ Ask("shutdown", fd)
  /\ close_fd(fd)
  /\ client_number' = client_number - 1
  /\ UNCHANGED <<connection, calls, agent, running, admitted, refused, over>>

MSG_error(fd) ==
  /\ Dispatch("error", fd)
  /\ Ask("shutdown", fd)
  /\ close_fd(fd)
  /\ UNCHANGED <<connection, client_number, calls, agent, running,
                 admitted, refused, over>>

-----------------------------------------------------------------------------
(* Commands. *)

openclient(fd) ==
  IF connection[fd] = "true" THEN Ask("start", fd) ELSE UNCHANGED pipe

(* Without an entry the assert fails, here and in CMD.forward. *)
CMD_accept(fd) ==
  /\ Dispatch("accept", fd)
  /\ IF forward[fd] = "nil"
       THEN UNCHANGED <<pipe, forward>>
       ELSE forward' = [forward EXCEPT ![fd] = "watchdog"] /\ openclient(fd)
  /\ UNCHANGED <<connection, client_number, calls, agent, running,
                 admitted, refused, over>>

(* The agent that calls is up once forward returns; if the assert fails,   *)
(* so does the start of the agent.                                         *)
CMD_forward(fd) ==
  /\ Dispatch("forward", fd)
  /\ IF forward[fd] = "nil"
       THEN UNCHANGED <<pipe, forward, running>>
       ELSE /\ forward' = [forward EXCEPT ![fd] = "agent"]
            /\ openclient(fd)
            /\ running' = [running EXCEPT ![fd] = TRUE]
  /\ UNCHANGED <<connection, client_number, calls, agent, admitted, refused, over>>

(* closeclient: gate.lua keeps its entry until the socket closes. *)
CMD_kick(fd) ==
  /\ Dispatch("kick", fd)
  /\ connection' = [connection EXCEPT ![fd] = "nil"]
  /\ IF connection[fd] # "nil" THEN Ask("close", fd) ELSE UNCHANGED pipe
  /\ UNCHANGED <<forward, client_number, calls, agent, running,
                 admitted, refused, over>>

-----------------------------------------------------------------------------
(* The watchdog and the agent, as far as they use the gate. *)

(* SOCKET.open calls accept. *)
SOCKET_open(fd) ==
  /\ Take("open", fd)
  /\ Raise("accept", fd)
  /\ UNCHANGED <<sock, closing, unsent, pipe, activity, connection, forward,
                 client_number, agent, running, admitted, refused, over>>

(* SOCKET.data: the token is right, an agent is created and started. *)
SOCKET_data(fd) ==
  /\ calls[fd]["login"] > 0
  /\ calls' = [calls EXCEPT ![fd]["login"] = @ - 1, ![fd]["start"] = @ + 1]
  /\ agent' = [agent EXCEPT ![fd] = TRUE]
  /\ UNCHANGED <<kvars, connection, forward, client_number, running,
                 admitted, refused, over>>

(* SOCKET.data: a malformed packet or a wrong token. *)
SOCKET_data_rejected(fd) ==
  /\ Take("login", fd)
  /\ Raise("kick", fd)
  /\ UNCHANGED <<sock, closing, unsent, pipe, activity, connection, forward,
                 client_number, agent, running, admitted, refused, over>>

(* The new agent has loaded its user and calls forward. *)
agent_start(fd) ==
  /\ Take("start", fd)
  /\ Raise("forward", fd)
  /\ UNCHANGED <<sock, closing, unsent, pipe, activity, connection, forward,
                 client_number, agent, running, admitted, refused, over>>

(* SOCKET.close, SOCKET.error, CMD.close (no heartbeat) and CMD.kick (the  *)
(* user logs in again) when the fd has an agent.                           *)
close_agent(fd) ==
  /\ agent[fd]
  /\ agent' = [agent EXCEPT ![fd] = FALSE]
  /\ Raise("kick", fd)
  /\ UNCHANGED <<sock, closing, unsent, pipe, activity, connection, forward,
                 client_number, calls, running, admitted, refused, over>>

(* The agent's disconnect has run. *)
AgentExit(fd) ==
  /\ running[fd] /\ ~agent[fd]
  /\ running' = [running EXCEPT ![fd] = FALSE]
  /\ UNCHANGED <<kvars, connection, forward, client_number, calls, agent,
                 admitted, refused, over>>

(* The agent writes to its client, kicked or not. *)
send_package(fd) == running[fd] /\ socket_server_send(fd) /\ UNCHANGED gvars

-----------------------------------------------------------------------------
Init ==
  /\ KInit
  /\ connection = [fd \in Fd |-> "nil"]
  /\ forward = [fd \in Fd |-> "nil"]
  /\ client_number = 0
  /\ calls = [fd \in Fd |-> [call \in Call |-> 0]]
  /\ agent = [fd \in Fd |-> FALSE]
  /\ running = [fd \in Fd |-> FALSE]
  /\ admitted = {} /\ refused = {} /\ over = {}

SocketThread == (ctrl_cmd \/ \E fd \in Fd : Poll(fd)) /\ UNCHANGED gvars

Handle(fd) ==
  \/ MSG_open(fd) \/ MSG_data(fd) \/ MSG_close(fd) \/ MSG_error(fd)
  \/ CMD_accept(fd) \/ CMD_forward(fd) \/ CMD_kick(fd)

Caller(fd) ==
  \/ SOCKET_open(fd) \/ SOCKET_data(fd) \/ SOCKET_data_rejected(fd) \/ agent_start(fd)
  \/ close_agent(fd) \/ AgentExit(fd) \/ send_package(fd)

Next ==
  \/ SocketThread
  \/ \E fd \in Fd : Handle(fd) \/ Caller(fd)

Spec == Init /\ [][Next]_vars

(* The socket thread reads its pipe; workers deliver the gate's mailbox; a *)
(* write that waits is taken by the peer or fails (TCP gives up in time).  *)
Fairness ==
  /\ WF_vars(ctrl_cmd /\ UNCHANGED gvars)
  /\ WF_vars(\E fd \in Fd : Handle(fd))
  /\ \A fd \in Fd : WF_vars((send_buffer(fd) \/ close_write(fd)) /\ UNCHANGED gvars)

FairSpec == Spec /\ Fairness

-----------------------------------------------------------------------------
(* Variables keep their types; client_number, which refused connections    *)
(* can drive below zero, stays within maxclient.                           *)
TypeOK ==
  /\ KTypeOK
  /\ connection \in [Fd -> {"true", "false", "nil"}]
  /\ forward \in [Fd -> {"nil", "watchdog", "agent"}]
  /\ client_number \in -Cardinality(Fd) .. maxclient
  /\ calls \in [Fd -> [Call -> Nat]]
  /\ agent \in [Fd -> BOOLEAN] /\ running \in [Fd -> BOOLEAN]
  /\ admitted \subseteq Fd /\ refused \subseteq Fd /\ over \subseteq Fd

(* A socket that is closed for reading or gone has raised SOCKET_CLOSE     *)
(* exactly once, handled or still in the mailbox, and no other socket has, *)
(* whichever of the peer, the gate and a failed write closed it, in        *)
(* whatever order (close_socket, forward_message_tcp, close_write).  Once  *)
(* MSG.close is handled the gate has no entry for the fd and makes none    *)
(* again, though an agent may still be starting and ask to be forwarded    *)
(* its packets.                                                            *)
ClosedOnce ==
  \A fd \in Fd :
    /\ Cardinality({i \in DOMAIN inbox : inbox[i] = <<"close", fd>>})
         + (IF fd \in over THEN 1 ELSE 0)
       = IF sock[fd] \in {"HALFCLOSE_READ", "INVALID"} THEN 1 ELSE 0
    /\ fd \in over => forward[fd] = "nil"

(* What client_number counts: the admitted clients whose close is not yet  *)
(* handled, less the refused ones whose close is: kicks, errors and half   *)
(* closes neither lose a place nor give one back twice.                    *)
CountBalances ==
  client_number = Cardinality(admitted \ over) - Cardinality(refused \cap over)

(* A client whose close or shutdown is asked for gives its place back:     *)
(* MSG.close is handled for it in the end.                                 *)
PlaceReturned ==
  \A fd \in Fd :
    (\E i \in DOMAIN pipe : pipe[i] \in {<<"close", fd>>, <<"shutdown", fd>>})
      ~> (fd \in over)
=============================================================================
