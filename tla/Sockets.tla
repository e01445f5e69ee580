------------------------------ MODULE Sockets ------------------------------
(***************************************************************************)
(* The life of an accepted TCP socket in socket_server.c: the socket       *)
(* thread polls the control pipe and the network, and posts SOCKET_ACCEPT, *)
(* SOCKET_DATA, SOCKET_CLOSE and SOCKET_ERR to the mailbox of the service  *)
(* that listens.  Services on other threads start, close, shut down and    *)
(* write to a socket through the pipe, so what they ask for is decided     *)
(* against whatever has become of the socket by then.                      *)
(*                                                                         *)
(* The send lists and the direct-write buffer are abstracted to "unsent"   *)
(* (is there anything in them?) and s->sending to the number of writes     *)
(* still in the pipe.  Socket ids are never reused.                        *)
(***************************************************************************)
EXTENDS Integers, Sequences, FiniteSets

CONSTANTS
  Fd,           \* socket ids
  MaxActivity   \* bound on the packets, socket errors and writes of a behaviour

ASSUME SocketsAssumption == IsFiniteSet(Fd) /\ MaxActivity \in Nat

VARIABLES
  sock,         \* s->type; "none" is the reserve before accept
  closing,      \* s->closing
  unsent,       \* the write lists or dw_buffer hold data
  pipe,         \* the control pipe: <<command, fd>>
  inbox,        \* the mailbox of the gate: <<event, fd>>
  activity      \* packets, errors and writes so far

kvars == <<sock, closing, unsent, pipe, inbox, activity>>

SocketType == {"none", "PACCEPT", "CONNECTED", "HALFCLOSE_READ",
               "HALFCLOSE_WRITE", "INVALID"}
Live == {"PACCEPT", "CONNECTED", "HALFCLOSE_READ", "HALFCLOSE_WRITE"}
Request == {"start", "close", "shutdown", "send"}
Event == {"open", "data", "close", "error"}
Command == {"accept", "forward", "kick"}   \* of other services to the gate

(* The low 16 bits of s->sending: writes sent through the pipe. *)
sending(fd) == Len(SelectSeq(pipe, LAMBDA c : c = <<"send", fd>>))

nomore_sending_data(fd) ==
  \/ ~unsent[fd] /\ sending(fd) = 0
  \/ sock[fd] = "HALFCLOSE_WRITE"

Raise(event, fd) == inbox' = Append(inbox, <<event, fd>>)

Busy == activity < MaxActivity /\ activity' = activity + 1

(* Close the descriptor and free the write lists. *)
force_close(fd) ==
  /\ sock' = [sock EXCEPT ![fd] = "INVALID"]
  /\ unsent' = [unsent EXCEPT ![fd] = FALSE]
  /\ UNCHANGED closing

close_read(fd) ==
  /\ sock' = [sock EXCEPT ![fd] = "HALFCLOSE_READ"]
  /\ UNCHANGED unsent

-----------------------------------------------------------------------------
(* The network side of socket_server_poll. *)

report_accept(fd) ==
  /\ sock[fd] = "none"
  /\ sock' = [sock EXCEPT ![fd] = "PACCEPT"]
  /\ Raise("open", fd)
  /\ UNCHANGED <<closing, unsent, pipe, activity>>

(* A packet is read.  What a socket closed for reading still receives is   *)
(* discarded and changes nothing.                                          *)
Receive(fd) ==
  /\ sock[fd] \in {"CONNECTED", "HALFCLOSE_WRITE"}
  /\ Busy
  /\ Raise("data", fd)
  /\ UNCHANGED <<sock, closing, unsent, pipe>>

(* Mutant: the end of a socket that failed writing is not reported. *)
ReceiveEndSilent(fd) ==
  /\ sock[fd] \in {"CONNECTED", "HALFCLOSE_WRITE"}
  /\ IF sock[fd] = "HALFCLOSE_WRITE"
       THEN force_close(fd) /\ UNCHANGED inbox
       ELSE close_read(fd) /\ Raise("close", fd) /\ UNCHANGED closing
  /\ UNCHANGED <<pipe, activity>>

(* The peer has closed its side: read returns 0. *)
ReceiveEnd(fd) ==
  /\ sock[fd] \in {"CONNECTED", "HALFCLOSE_WRITE"}
  /\ IF sock[fd] = "HALFCLOSE_WRITE"
       THEN force_close(fd)
       ELSE close_read(fd) /\ UNCHANGED closing
  /\ Raise("close", fd)
  /\ UNCHANGED <<pipe, activity>>

(* The rare case: the read event was collected before the pipe closed the  *)
(* socket for reading.                                                     *)
ReceiveEndLate(fd) ==
  /\ sock[fd] = "HALFCLOSE_READ"
  /\ closing[fd]
  /\ nomore_sending_data(fd)
  /\ force_close(fd)
  /\ UNCHANGED <<pipe, inbox, activity>>

(* read fails, or epoll reports EPOLLERR: the socket stays as it is.  (A   *)
(* socket that is not read can still report EPOLLERR.)                     *)
report_error(fd) ==
  /\ sock[fd] \in Live
  /\ Busy
  /\ Raise("error", fd)
  /\ UNCHANGED <<sock, closing, unsent, pipe>>

(* epoll reports EPOLLHUP. *)
Hangup(fd) ==
  /\ sock[fd] \in Live
  /\ force_close(fd)
  /\ IF sock[fd] = "HALFCLOSE_READ" THEN UNCHANGED inbox ELSE Raise("close", fd)
  /\ UNCHANGED <<pipe, activity>>

(* The lists are written out; a closing socket is closed then. *)
send_buffer(fd) ==
  /\ sock[fd] \in {"CONNECTED", "HALFCLOSE_READ"}
  /\ unsent[fd]
  /\ IF closing[fd]
       THEN force_close(fd)
       ELSE unsent' = [unsent EXCEPT ![fd] = FALSE] /\ UNCHANGED <<sock, closing>>
  /\ UNCHANGED <<pipe, inbox, activity>>

(* Writing fails. *)
close_write(fd) ==
  /\ sock[fd] \in {"CONNECTED", "HALFCLOSE_READ"}
  /\ unsent[fd]
  /\ IF sock[fd] = "HALFCLOSE_READ"
       THEN force_close(fd) /\ UNCHANGED inbox
       ELSE /\ sock' = [sock EXCEPT ![fd] = "HALFCLOSE_WRITE"]
            /\ Raise("error", fd)
            /\ UNCHANGED <<closing, unsent>>
  /\ UNCHANGED <<pipe, activity>>

-----------------------------------------------------------------------------
(* The commands of the pipe, decided when the socket thread reads them.    *)

resume_socket(fd) ==
  IF sock[fd] \in {"INVALID", "HALFCLOSE_READ"}
    THEN Raise("error", fd) /\ UNCHANGED <<sock, closing, unsent>>
    ELSE /\ sock' = [sock EXCEPT ![fd] = IF @ = "PACCEPT" THEN "CONNECTED" ELSE @]
         /\ UNCHANGED <<closing, unsent, inbox>>

(* Mutant: SOCKET_CLOSE is raised again for a socket its peer has closed. *)
close_socket_twice(fd, request) ==
  IF sock[fd] = "INVALID"
    THEN UNCHANGED <<sock, closing, unsent, inbox>>
    ELSE IF request = "shutdown" \/ nomore_sending_data(fd)
           THEN force_close(fd) /\ Raise("close", fd)
           ELSE /\ closing' = [closing EXCEPT ![fd] = TRUE]
                /\ IF sock[fd] = "HALFCLOSE_READ"
                     THEN UNCHANGED <<sock, unsent, inbox>>
                     ELSE close_read(fd) /\ Raise("close", fd)

(* Shut down at once, or when nothing is left to send; otherwise keep the  *)
(* socket closing until its lists are written.                             *)
close_socket(fd, request) ==
  IF sock[fd] = "INVALID"
    THEN UNCHANGED <<sock, closing, unsent, inbox>>
    ELSE IF request = "shutdown" \/ nomore_sending_data(fd)
           THEN /\ force_close(fd)
                /\ IF sock[fd] = "HALFCLOSE_READ"
                     THEN UNCHANGED inbox
                     ELSE Raise("close", fd)
           ELSE /\ closing' = [closing EXCEPT ![fd] = TRUE]
                /\ IF sock[fd] = "HALFCLOSE_READ"
                     THEN UNCHANGED <<sock, unsent, inbox>>
                     ELSE close_read(fd) /\ Raise("close", fd)

(* A write for a closing or half-closed socket is freed. *)
send_socket(fd) ==
  /\ unsent' = [unsent EXCEPT ![fd] =
                  @ \/ (sock[fd] \in {"CONNECTED", "HALFCLOSE_READ"} /\ ~closing[fd])]
  /\ UNCHANGED <<sock, closing, inbox>>

ctrl_cmd ==
  /\ pipe # <<>>
  /\ pipe' = Tail(pipe)
  /\ LET request == Head(pipe)[1]
         fd == Head(pipe)[2]
     IN  CASE request = "start" -> resume_socket(fd)
           [] request = "send" -> send_socket(fd)
           [] OTHER -> close_socket(fd, request)
  /\ UNCHANGED activity

-----------------------------------------------------------------------------
(* socket_server_send, on the thread of the writing service. *)

can_direct_write(fd) == sock[fd] = "CONNECTED" /\ nomore_sending_data(fd)

(* The write goes out directly, wholly or in part, or through the pipe. *)
socket_server_send(fd) ==
  /\ sock[fd] \in Live /\ ~closing[fd]
  /\ Busy
  /\ IF can_direct_write(fd)
       THEN /\ \E left \in BOOLEAN : unsent' = [unsent EXCEPT ![fd] = left]
            /\ UNCHANGED pipe
       ELSE pipe' = Append(pipe, <<"send", fd>>) /\ UNCHANGED unsent
  /\ UNCHANGED <<sock, closing, inbox>>

KInit ==
  /\ sock = [fd \in Fd |-> "none"]
  /\ closing = [fd \in Fd |-> FALSE]
  /\ unsent = [fd \in Fd |-> FALSE]
  /\ pipe = <<>> /\ inbox = <<>>
  /\ activity = 0

(* One round of the socket thread on a socket's events. *)
Poll(fd) ==
  \/ report_accept(fd) \/ Receive(fd) \/ ReceiveEnd(fd) \/ ReceiveEndLate(fd)
  \/ report_error(fd) \/ Hangup(fd) \/ send_buffer(fd) \/ close_write(fd)

KTypeOK ==
  /\ sock \in [Fd -> SocketType]
  /\ closing \in [Fd -> BOOLEAN]
  /\ unsent \in [Fd -> BOOLEAN]
  /\ pipe \in Seq(Request \X Fd)
  /\ inbox \in Seq((Event \cup Command) \X Fd)
  /\ activity \in 0..MaxActivity
=============================================================================
