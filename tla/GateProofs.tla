----------------------------- MODULE GateProofs -----------------------------
(***************************************************************************)
(* The gate counts its clients right, and every socket that ends raises    *)
(* exactly one SOCKET_CLOSE, for any number of sockets, any maxclient, and *)
(* whichever of the peer, a failed write, a kick and a shutdown ends it.   *)
(***************************************************************************)
EXTENDS Gate, FiniteSetTheorems, SequenceTheorems, TLAPS

(* Where an event stands in a mailbox. *)
Has(s, e) == \E i \in 1 .. Len(s) : s[i] = e
Once(s, e) == \A i, j \in 1 .. Len(s) : s[i] = e /\ s[j] = e => i = j
Before(s, e, f) == \A i, j \in 1 .. Len(s) : s[i] = e /\ s[j] = f => i < j

Ended == {"HALFCLOSE_READ", "INVALID"}
Mail == (Event \cup Command) \X Fd

Types ==
  /\ sock \in [Fd -> SocketType]
  /\ pipe \in Seq(Request \X Fd)
  /\ inbox \in Seq(Mail)
  /\ connection \in [Fd -> {"true", "false", "nil"}]
  /\ forward \in [Fd -> {"nil", "watchdog", "agent"}]
  /\ client_number \in Int
  /\ admitted \subseteq Fd /\ refused \subseteq Fd /\ over \subseteq Fd

(* An accepted socket has its open in the mailbox or was answered.         *)
(* Whoever names a socket, in the mailbox, the pipe or the gate's tables,  *)
(* has seen it accepted.                                                   *)
Accepted ==
  /\ admitted \cap refused = {}
  /\ \A fd \in Fd :
       /\ Once(inbox, <<"open", fd>>)
       /\ Has(inbox, <<"open", fd>>)
            <=> sock[fd] # "none" /\ fd \notin admitted \cup refused
       /\ fd \in admitted \cup refused => sock[fd] # "none"
       /\ Has(inbox, <<"error", fd>>) => sock[fd] # "none"
       /\ connection[fd] # "nil" => fd \in admitted
  /\ \A k \in 1 .. Len(pipe) : sock[pipe[k][2]] # "none"

(* A socket that has ended has its close in the mailbox, behind its open,  *)
(* or it was handled; then the gate has forgotten it.                      *)
Closed ==
  \A fd \in Fd :
    /\ Once(inbox, <<"close", fd>>)
    /\ Before(inbox, <<"open", fd>>, <<"close", fd>>)
    /\ Has(inbox, <<"close", fd>>) <=> sock[fd] \in Ended /\ fd \notin over
    /\ fd \in over => /\ sock[fd] \in Ended
                      /\ fd \in admitted \cup refused
                      /\ forward[fd] = "nil"

(* A socket that closes once its lists are written is not read any more:   *)
(* its close was raised then, and send_buffer need not raise another.      *)
Closing ==
  /\ closing \in [Fd -> BOOLEAN]
  /\ \A fd \in Fd : closing[fd] => sock[fd] \in Ended

(* The inductive invariant: the count follows from closes being handled    *)
(* once per socket and not before its open.                                *)
GInv == Types /\ Accepted /\ Closed /\ Closing /\ CountBalances

-----------------------------------------------------------------------------
(* Mailboxes. *)

LEMMA AppendHas ==
  ASSUME NEW S, NEW s \in Seq(S), NEW x \in S, NEW e
  PROVE  Has(Append(s, x), e) <=> Has(s, e) \/ e = x
BY DEF Has

LEMMA AppendOnce ==
  ASSUME NEW S, NEW s \in Seq(S), NEW x \in S, NEW e, Once(s, e), x = e => ~Has(s, e)
  PROVE  Once(Append(s, x), e)
BY DEF Has, Once

LEMMA AppendBefore ==
  ASSUME NEW S, NEW s \in Seq(S), NEW x \in S, NEW e, NEW f, e # f,
         Before(s, e, f), x = e => ~Has(s, f)
  PROVE  Before(Append(s, x), e, f)
BY DEF Has, Before

LEMMA TailIndex ==
  ASSUME NEW S, NEW s \in Seq(S), s # <<>>
  PROVE  /\ Len(s) \in Nat \ {0} /\ Head(s) = s[1]
         /\ Tail(s) \in Seq(S) /\ Len(Tail(s)) = Len(s) - 1
         /\ \A i \in 1 .. Len(s) - 1 : Tail(s)[i] = s[i + 1]
OBVIOUS

LEMMA TailHas ==
  ASSUME NEW S, NEW s \in Seq(S), s # <<>>, NEW e
  PROVE  /\ Has(s, e) <=> e = Head(s) \/ Has(Tail(s), e)
         /\ Once(s, e) /\ e = Head(s) => ~Has(Tail(s), e)
         /\ Once(s, e) => Once(Tail(s), e)
<1>1. /\ Len(s) \in Nat \ {0} /\ Head(s) = s[1]
      /\ Len(Tail(s)) = Len(s) - 1
      /\ \A i \in 1 .. Len(s) - 1 : Tail(s)[i] = s[i + 1]
  BY TailIndex
<1>2. Has(Tail(s), e) <=> \E i \in 2 .. Len(s) : s[i] = e
  <2>1. ASSUME NEW i \in 1 .. Len(s) - 1, Tail(s)[i] = e
        PROVE  \E j \in 2 .. Len(s) : s[j] = e
    <3>1. i + 1 \in 2 .. Len(s) /\ s[i + 1] = e
      BY <1>1, <2>1
    <3> QED BY <3>1
  <2>2. ASSUME NEW j \in 2 .. Len(s), s[j] = e
        PROVE  \E i \in 1 .. Len(s) - 1 : Tail(s)[i] = e
    <3>1. j - 1 \in 1 .. Len(s) - 1 /\ (j - 1) + 1 = j
      BY <1>1
    <3>2. Tail(s)[j - 1] = e
      BY <1>1, <2>2, <3>1
    <3> QED BY <3>1, <3>2
  <2> QED BY <1>1, <2>1, <2>2 DEF Has
<1>3. Has(s, e) <=> e = Head(s) \/ Has(Tail(s), e)
  <2>1. \A i \in 1 .. Len(s) : i = 1 \/ i \in 2 .. Len(s)
    BY <1>1
  <2>2. 1 \in 1 .. Len(s) /\ \A i \in 2 .. Len(s) : i \in 1 .. Len(s)
    BY <1>1
  <2> QED BY <1>1, <1>2, <2>1, <2>2 DEF Has
<1>4. Once(s, e) /\ e = Head(s) => ~Has(Tail(s), e)
  BY <1>1, <1>2 DEF Once
<1>5. Once(s, e) => Once(Tail(s), e)
  <2> SUFFICES ASSUME Once(s, e), NEW i \in 1 .. Len(s) - 1, NEW j \in 1 .. Len(s) - 1,
                      Tail(s)[i] = e, Tail(s)[j] = e
               PROVE  i = j
    BY <1>1 DEF Once
  <2>1. /\ i + 1 \in 1 .. Len(s) /\ s[i + 1] = e
        /\ j + 1 \in 1 .. Len(s) /\ s[j + 1] = e
    BY <1>1
  <2>2. i + 1 = j + 1
    BY <2>1 DEF Once
  <2> QED BY <2>2
<1> QED BY <1>3, <1>4, <1>5

LEMMA TailBefore ==
  ASSUME NEW S, NEW s \in Seq(S), s # <<>>, NEW e, NEW f, Before(s, e, f)
  PROVE  /\ Before(Tail(s), e, f)
         /\ Head(s) = f => ~Has(s, e)
<1>1. /\ Len(s) \in Nat \ {0} /\ Head(s) = s[1]
      /\ Len(Tail(s)) = Len(s) - 1
      /\ \A i \in 1 .. Len(s) - 1 : Tail(s)[i] = s[i + 1]
  BY TailIndex
<1>2. Before(Tail(s), e, f)
  <2> SUFFICES ASSUME NEW i \in 1 .. Len(s) - 1, NEW j \in 1 .. Len(s) - 1,
                      Tail(s)[i] = e, Tail(s)[j] = f
               PROVE  i < j
    BY <1>1 DEF Before
  <2>1. /\ i + 1 \in 1 .. Len(s) /\ s[i + 1] = e
        /\ j + 1 \in 1 .. Len(s) /\ s[j + 1] = f
    BY <1>1
  <2>2. i + 1 < j + 1
    BY <2>1 DEF Before
  <2> QED BY <2>2
<1>3. Head(s) = f => ~Has(s, e)
  <2> SUFFICES ASSUME Head(s) = f, NEW i \in 1 .. Len(s), s[i] = e PROVE FALSE
    BY DEF Has
  <2>1. 1 \in 1 .. Len(s) /\ s[1] = f
    BY <1>1
  <2>2. i < 1
    BY <2>1 DEF Before
  <2> QED BY <2>2
<1> QED BY <1>2, <1>3

-----------------------------------------------------------------------------
(* Kinds of steps. *)

gate == <<connection, forward, client_number, admitted, refused, over>>

(* The pipe only names accepted sockets. *)
PipeOK(p) == p \in Seq(Request \X Fd) /\ \A k \in 1 .. Len(p) : sock[p[k][2]] # "none"

LEMMA PipeKinds ==
  ASSUME GInv, NEW fd \in Fd, NEW r \in Request
  PROVE  /\ PipeOK(pipe)
         /\ pipe # <<>> => /\ PipeOK(Tail(pipe))
                           /\ Head(pipe) \in Request \X Fd
                           /\ sock[Head(pipe)[2]] # "none"
         /\ sock[fd] # "none" => PipeOK(Append(pipe, <<r, fd>>))
<1>1. PipeOK(pipe) /\ pipe \in Seq(Request \X Fd)
  BY DEF GInv, Types, Accepted, PipeOK
<1>2. pipe # <<>> => /\ PipeOK(Tail(pipe))
                     /\ Head(pipe) \in Request \X Fd
                     /\ sock[Head(pipe)[2]] # "none"
  <2> SUFFICES ASSUME pipe # <<>>
               PROVE  /\ PipeOK(Tail(pipe))
                      /\ Head(pipe) \in Request \X Fd
                      /\ sock[Head(pipe)[2]] # "none"
    OBVIOUS
  <2>1. /\ Len(pipe) \in Nat \ {0} /\ Head(pipe) = pipe[1]
        /\ Tail(pipe) \in Seq(Request \X Fd) /\ Len(Tail(pipe)) = Len(pipe) - 1
        /\ \A i \in 1 .. Len(pipe) - 1 : Tail(pipe)[i] = pipe[i + 1]
    BY <1>1, TailIndex
  <2>2. 1 \in 1 .. Len(pipe) /\ \A i \in 1 .. Len(pipe) - 1 : i + 1 \in 1 .. Len(pipe)
    BY <2>1
  <2>3. pipe[1] \in Request \X Fd
    BY <1>1, <2>2
  <2> QED BY <1>1, <2>1, <2>2, <2>3 DEF PipeOK
<1>3. sock[fd] # "none" => PipeOK(Append(pipe, <<r, fd>>))
  <2> SUFFICES ASSUME sock[fd] # "none", NEW k \in 1 .. Len(pipe) + 1
               PROVE  sock[Append(pipe, <<r, fd>>)[k][2]] # "none"
    BY <1>1 DEF PipeOK
  <2>1. CASE k = Len(pipe) + 1
    BY <1>1, <2>1
  <2>2. CASE k \in 1 .. Len(pipe)
    <3>1. Append(pipe, <<r, fd>>)[k] = pipe[k]
      BY <1>1, <2>2
    <3> QED BY <1>1, <2>2, <3>1 DEF PipeOK
  <2> QED BY <1>1, <2>1, <2>2
<1> QED BY <1>1, <1>2, <1>3

(* The socket thread changes the state of a socket and raises nothing. *)
LEMMA QuietStep ==
  ASSUME GInv, UNCHANGED gate, inbox' = inbox, PipeOK(pipe'),
         NEW fd \in Fd, NEW t \in SocketType \ {"none"},
         sock' = [sock EXCEPT ![fd] = t], sock[fd] # "none",
         t \in Ended <=> sock[fd] \in Ended,
         closing' = closing \/ (closing' = [closing EXCEPT ![fd] = TRUE] /\ t \in Ended)
  PROVE  GInv'
<1>1. \A g \in Fd : sock'[g] = IF g = fd THEN t ELSE sock[g]
  BY DEF GInv, Types
<1>2. Types'
  BY DEF GInv, Types, gate, PipeOK
<1>3. /\ \A g \in Fd : sock'[g] = "none" <=> sock[g] = "none"
      /\ \A g \in Fd : sock'[g] \in Ended <=> sock[g] \in Ended
  BY <1>1
<1>4. \A k \in 1 .. Len(pipe') : sock'[pipe'[k][2]] # "none"
  <2> TAKE k \in 1 .. Len(pipe')
  <2>1. pipe'[k] \in Request \X Fd /\ sock[pipe'[k][2]] # "none"
    BY DEF PipeOK
  <2> QED BY <1>3, <2>1
<1>5. Accepted'
  BY <1>3, <1>4 DEF GInv, Accepted, gate
<1>6. Closed'
  BY <1>3 DEF GInv, Closed, gate
<1>7. CountBalances'
  BY DEF GInv, CountBalances, gate
<1>8. Closing'
  BY <1>1 DEF GInv, Closing
<1> QED BY <1>2, <1>5, <1>6, <1>7, <1>8 DEF GInv

(* The socket thread changes the state of a socket and raises an event:    *)
(* the open of a new one, the close of one that ends, or another.          *)
LEMMA RaiseStep ==
  ASSUME GInv, UNCHANGED gate, PipeOK(pipe'),
         NEW fd \in Fd, NEW t \in SocketType \ {"none"}, NEW ev \in Event,
         sock' = [sock EXCEPT ![fd] = t],
         inbox' = Append(inbox, <<ev, fd>>),
         ev = "open" <=> sock[fd] = "none",
         ev = "close" <=> sock[fd] \notin Ended /\ t \in Ended,
         sock[fd] \in Ended => t \in Ended,
         closing' = closing \/ (closing' = [closing EXCEPT ![fd] = TRUE] /\ t \in Ended)
  PROVE  GInv'
<1>1. \A g \in Fd : sock'[g] = IF g = fd THEN t ELSE sock[g]
  BY DEF GInv, Types
<1>2. inbox \in Seq(Mail) /\ <<ev, fd>> \in Mail
  BY DEF GInv, Types, Mail
<1>3. inbox' \in Seq(Mail)
  BY <1>2, AppendProperties
<1>4. Types'
  BY <1>3 DEF GInv, Types, gate, PipeOK
<1>5. \A e : Has(inbox', e) <=> Has(inbox, e) \/ e = <<ev, fd>>
  BY <1>2, AppendHas
<1>6. \A k \in 1 .. Len(pipe') : sock'[pipe'[k][2]] # "none"
  <2> TAKE k \in 1 .. Len(pipe')
  <2>1. pipe'[k] \in Request \X Fd /\ sock[pipe'[k][2]] # "none"
    BY DEF PipeOK
  <2> QED BY <1>1, <2>1
<1>7. Accepted'
  <2> SUFFICES ASSUME NEW g \in Fd
               PROVE  /\ Once(inbox', <<"open", g>>)
                      /\ Has(inbox', <<"open", g>>)
                           <=> sock'[g] # "none" /\ g \notin admitted \cup refused
                      /\ g \in admitted \cup refused => sock'[g] # "none"
                      /\ Has(inbox', <<"error", g>>) => sock'[g] # "none"
                      /\ connection[g] # "nil" => g \in admitted
    BY <1>6 DEF GInv, Accepted, gate
  <2>1. /\ Once(inbox, <<"open", g>>)
        /\ Has(inbox, <<"open", g>>)
             <=> sock[g] # "none" /\ g \notin admitted \cup refused
        /\ g \in admitted \cup refused => sock[g] # "none"
        /\ Has(inbox, <<"error", g>>) => sock[g] # "none"
        /\ connection[g] # "nil" => g \in admitted
    BY DEF GInv, Accepted
  <2>2. <<ev, fd>> = <<"open", g>> => ~Has(inbox, <<"open", g>>)
    BY <2>1
  <2>3. Once(inbox', <<"open", g>>)
    BY <1>2, <2>1, <2>2, AppendOnce
  <2>4. Has(inbox', <<"open", g>>) <=> Has(inbox, <<"open", g>>) \/ (ev = "open" /\ g = fd)
    BY <1>5
  <2>5. Has(inbox', <<"error", g>>) => Has(inbox, <<"error", g>>) \/ g = fd
    BY <1>5
  <2> QED BY <1>1, <2>1, <2>3, <2>4, <2>5
<1>8. Closed'
  <2> SUFFICES ASSUME NEW g \in Fd
               PROVE  /\ Once(inbox', <<"close", g>>)
                      /\ Before(inbox', <<"open", g>>, <<"close", g>>)
                      /\ Has(inbox', <<"close", g>>) <=> sock'[g] \in Ended /\ g \notin over
                      /\ g \in over => /\ sock'[g] \in Ended
                                       /\ g \in admitted \cup refused
                                       /\ forward[g] = "nil"
    BY DEF Closed, gate
  <2>1. /\ Once(inbox, <<"close", g>>)
        /\ Before(inbox, <<"open", g>>, <<"close", g>>)
        /\ Has(inbox, <<"close", g>>) <=> sock[g] \in Ended /\ g \notin over
        /\ g \in over => /\ sock[g] \in Ended
                         /\ g \in admitted \cup refused
                         /\ forward[g] = "nil"
    BY DEF GInv, Closed
  <2>2. <<ev, fd>> = <<"close", g>> => ~Has(inbox, <<"close", g>>)
    BY <2>1
  <2>3. Once(inbox', <<"close", g>>)
    BY <1>2, <2>1, <2>2, AppendOnce
  <2>4. <<ev, fd>> = <<"open", g>> => ~Has(inbox, <<"close", g>>)
    BY <2>1 DEF Ended
  <2>5. Before(inbox', <<"open", g>>, <<"close", g>>)
    BY <1>2, <2>1, <2>4, AppendBefore
  <2>6. Has(inbox', <<"close", g>>) <=> Has(inbox, <<"close", g>>) \/ (ev = "close" /\ g = fd)
    BY <1>5
  <2> QED BY <1>1, <2>1, <2>3, <2>5, <2>6
<1>9. CountBalances'
  BY DEF GInv, CountBalances, gate
<1>10. Closing'
  BY <1>1 DEF GInv, Closing
<1> QED BY <1>4, <1>7, <1>8, <1>9, <1>10 DEF GInv

(* Another service calls the gate, or writes to a socket. *)
LEMMA CallStep ==
  ASSUME GInv, UNCHANGED gate, UNCHANGED <<sock, closing>>, PipeOK(pipe'),
         \/ inbox' = inbox
         \/ \E c \in Command, fd \in Fd : inbox' = Append(inbox, <<c, fd>>)
  PROVE  GInv'
<1>1. CASE inbox' = inbox
  BY <1>1 DEF GInv, Types, Accepted, Closed, Closing, CountBalances, gate, PipeOK
<1>2. ASSUME NEW c \in Command, NEW fd \in Fd, inbox' = Append(inbox, <<c, fd>>)
      PROVE  GInv'
  <2>1. inbox \in Seq(Mail) /\ <<c, fd>> \in Mail
    BY DEF GInv, Types, Mail
  <2>2. inbox' \in Seq(Mail)
    BY <1>2, <2>1, AppendProperties
  <2>3. Types'
    BY <2>2 DEF GInv, Types, gate, PipeOK
  <2>4. \A e \in Event, g \in Fd :
          /\ Has(inbox', <<e, g>>) <=> Has(inbox, <<e, g>>)
          /\ Once(inbox, <<e, g>>) => Once(inbox', <<e, g>>)
    BY <1>2, <2>1, AppendHas, AppendOnce DEF Event, Command
  <2>5. \A g \in Fd : Before(inbox, <<"open", g>>, <<"close", g>>)
                        => Before(inbox', <<"open", g>>, <<"close", g>>)
    BY <1>2, <2>1, AppendBefore DEF Command
  <2>6. Accepted'
    BY <2>4 DEF GInv, Accepted, gate, Event, PipeOK
  <2>7. Closed'
    BY <2>4, <2>5 DEF GInv, Closed, gate, Event
  <2>8. CountBalances'
    BY DEF GInv, CountBalances, gate
  <2>9. Closing'
    BY DEF GInv, Closing
  <2> QED BY <2>3, <2>6, <2>7, <2>8, <2>9 DEF GInv
<1> QED BY <1>1, <1>2

(* The gate takes the first message of its mailbox. *)
LEMMA Taken ==
  ASSUME GInv, NEW ev \in Event \cup Command, NEW fd \in Fd, Dispatch(ev, fd)
  PROVE  /\ inbox' \in Seq(Mail) /\ sock' = sock /\ Closing'
         /\ Has(inbox, <<ev, fd>>)
         /\ \A e, g : <<e, g>> # <<ev, fd>> => (Has(inbox', <<e, g>>) <=> Has(inbox, <<e, g>>))
         /\ \A e, g : Once(inbox, <<e, g>>) => Once(inbox', <<e, g>>)
         /\ Once(inbox, <<ev, fd>>) => ~Has(inbox', <<ev, fd>>)
         /\ \A g : Before(inbox, <<"open", g>>, <<"close", g>>)
                     => Before(inbox', <<"open", g>>, <<"close", g>>)
         /\ \A e, g : Has(inbox', <<e, g>>) => Has(inbox, <<e, g>>)
<1>1. inbox \in Seq(Mail) /\ inbox # <<>> /\ Head(inbox) = <<ev, fd>>
      /\ inbox' = Tail(inbox) /\ sock' = sock
  BY DEF GInv, Types, Dispatch
<1>2. inbox' \in Seq(Mail)
  BY <1>1
<1>3. \A x : /\ Has(inbox, x) <=> x = <<ev, fd>> \/ Has(inbox', x)
             /\ Once(inbox, x) /\ x = <<ev, fd>> => ~Has(inbox', x)
             /\ Once(inbox, x) => Once(inbox', x)
  <2> TAKE x
  <2>1. Has(inbox, x) <=> x = Head(inbox) \/ Has(Tail(inbox), x)
    BY <1>1, TailHas
  <2>2. Once(inbox, x) /\ x = Head(inbox) => ~Has(Tail(inbox), x)
    BY <1>1, TailHas
  <2>3. Once(inbox, x) => Once(Tail(inbox), x)
    BY <1>1, TailHas
  <2> QED BY <1>1, <2>1, <2>2, <2>3
<1>4. \A g : Before(inbox, <<"open", g>>, <<"close", g>>)
               => Before(inbox', <<"open", g>>, <<"close", g>>)
  BY <1>1, TailBefore
<1>5. Closing'
  BY DEF GInv, Closing, Dispatch
<1> QED BY <1>1, <1>2, <1>3, <1>4, <1>5

(* Handlers that neither admit a client nor see its socket close: they may *)
(* forget a client, but never enter one.                                   *)
LEMMA HandleStep ==
  ASSUME GInv, NEW ev \in (Event \cup Command) \ {"open", "close"}, NEW fd \in Fd,
         Dispatch(ev, fd), PipeOK(pipe'),
         UNCHANGED <<client_number, admitted, refused, over>>,
         connection' \in [Fd -> {"true", "false", "nil"}],
         forward' \in [Fd -> {"nil", "watchdog", "agent"}],
         \A g \in Fd : connection[g] = "nil" => connection'[g] = "nil",
         \A g \in Fd : forward[g] = "nil" => forward'[g] = "nil"
  PROVE  GInv'
<1>1. /\ inbox' \in Seq(Mail) /\ sock' = sock
      /\ \A g : Has(inbox', <<"open", g>>) <=> Has(inbox, <<"open", g>>)
      /\ \A g : Has(inbox', <<"close", g>>) <=> Has(inbox, <<"close", g>>)
      /\ \A g : Has(inbox', <<"error", g>>) => Has(inbox, <<"error", g>>)
      /\ \A g : Once(inbox, <<"open", g>>) => Once(inbox', <<"open", g>>)
      /\ \A g : Once(inbox, <<"close", g>>) => Once(inbox', <<"close", g>>)
      /\ \A g : Before(inbox, <<"open", g>>, <<"close", g>>)
                  => Before(inbox', <<"open", g>>, <<"close", g>>)
  BY Taken
<1>2. Types'
  BY <1>1 DEF GInv, Types, PipeOK
<1>3. Accepted'
  BY <1>1 DEF GInv, Accepted, PipeOK
<1>4. Closed'
  BY <1>1 DEF GInv, Closed
<1>5. CountBalances'
  BY DEF GInv, CountBalances
<1>6. Closing'
  BY Taken
<1> QED BY <1>2, <1>3, <1>4, <1>5, <1>6 DEF GInv

LEMMA OpenInv ==
  ASSUME GInv, NEW fd \in Fd, MSG_open(fd)
  PROVE  GInv'
<1>1. Dispatch("open", fd) /\ over' = over
  BY DEF MSG_open
<1>2. "open" \in Event \cup Command
  BY DEF Event
<1>3. /\ inbox' \in Seq(Mail) /\ sock' = sock
      /\ Has(inbox, <<"open", fd>>)
      /\ Once(inbox, <<"open", fd>>) => ~Has(inbox', <<"open", fd>>)
      /\ \A g : g # fd => (Has(inbox', <<"open", g>>) <=> Has(inbox, <<"open", g>>))
      /\ \A g : Has(inbox', <<"close", g>>) <=> Has(inbox, <<"close", g>>)
      /\ \A g : Has(inbox', <<"error", g>>) => Has(inbox, <<"error", g>>)
      /\ \A g : Once(inbox, <<"open", g>>) => Once(inbox', <<"open", g>>)
      /\ \A g : Once(inbox, <<"close", g>>) => Once(inbox', <<"close", g>>)
      /\ \A g : Before(inbox, <<"open", g>>, <<"close", g>>)
                  => Before(inbox', <<"open", g>>, <<"close", g>>)
  BY <1>1, <1>2, Taken
<1>4. ~Has(inbox', <<"open", fd>>) /\ sock[fd] # "none" /\ fd \notin admitted \cup refused
  BY <1>3 DEF GInv, Accepted
<1>5. fd \notin over
  BY <1>4 DEF GInv, Closed
<1>6. ASSUME PipeOK(pipe'),
             \/ admitted' = admitted \cup {fd} /\ refused' = refused
             \/ admitted' = admitted /\ refused' = refused \cup {fd},
             connection' \in [Fd -> {"true", "false", "nil"}],
             forward' \in [Fd -> {"nil", "watchdog", "agent"}],
             \A g \in Fd : g # fd => connection'[g] = connection[g] /\ forward'[g] = forward[g],
             connection'[fd] # "nil" => fd \in admitted',
             client_number' \in Int, CountBalances'
      PROVE  GInv'
  <2>1. Types'
    BY <1>1, <1>3, <1>6 DEF GInv, Types, PipeOK
  <2>2. Accepted'
    <3>1. (admitted \cap refused = {})' /\ (\A k \in 1 .. Len(pipe) : sock[pipe[k][2]] # "none")'
      BY <1>3, <1>4, <1>6 DEF GInv, Accepted, PipeOK
    <3>2. ASSUME NEW g \in Fd
          PROVE  /\ Once(inbox', <<"open", g>>)
                 /\ Has(inbox', <<"open", g>>)
                      <=> sock[g] # "none" /\ g \notin admitted' \cup refused'
                 /\ g \in admitted' \cup refused' => sock[g] # "none"
                 /\ Has(inbox', <<"error", g>>) => sock[g] # "none"
                 /\ connection'[g] # "nil" => g \in admitted'
      <4>1. CASE g = fd
        BY <1>3, <1>4, <1>6, <4>1 DEF GInv, Accepted
      <4>2. CASE g # fd
        BY <1>3, <1>6, <4>2 DEF GInv, Accepted
      <4> QED BY <4>1, <4>2
    <3> QED BY <1>3, <3>1, <3>2 DEF Accepted
  <2>3. Closed'
    BY <1>1, <1>3, <1>5, <1>6 DEF GInv, Closed
  <2>4. Closing'
    BY <1>1, <1>2, Taken
  <2> QED BY <1>6, <2>1, <2>2, <2>3, <2>4 DEF GInv
<1>7. /\ IsFiniteSet(admitted \ over) /\ Cardinality(admitted \ over) \in Nat
      /\ IsFiniteSet(refused \cap over) /\ Cardinality(refused \cap over) \in Nat
  BY SocketsAssumption, FS_Subset, FS_CardinalityType DEF GInv, Types
<1>8. CASE client_number >= maxclient
  <2>1. /\ pipe' = Append(pipe, <<"shutdown", fd>>)
        /\ refused' = refused \cup {fd} /\ admitted' = admitted
        /\ UNCHANGED <<connection, forward, client_number>>
    BY <1>8 DEF MSG_open, Ask
  <2>2. PipeOK(pipe')
    BY <1>4, <2>1, PipeKinds DEF Request
  <2>3. refused' \cap over' = refused \cap over
    BY <1>1, <1>5, <2>1
  <2>4. CountBalances'
    BY <1>1, <2>1, <2>3 DEF GInv, CountBalances
  <2> QED BY <1>4, <1>6, <2>1, <2>2, <2>4 DEF GInv, Types, Accepted
<1>9. CASE ~(client_number >= maxclient)
  <2>1. /\ connection' = [connection EXCEPT ![fd] = "true"]
        /\ client_number' = client_number + 1
        /\ forward' = [forward EXCEPT ![fd] = "watchdog"]
        /\ admitted' = admitted \cup {fd} /\ refused' = refused
        /\ pipe' = pipe
    BY <1>9 DEF MSG_open
  <2>2. PipeOK(pipe')
    BY <2>1, PipeKinds DEF Request
  <2>3. admitted' \ over' = (admitted \ over) \cup {fd} /\ fd \notin admitted \ over
    BY <1>1, <1>4, <1>5, <2>1
  <2>4. Cardinality(admitted' \ over') = Cardinality(admitted \ over) + 1
    BY <1>7, <2>3, FS_AddElement
  <2>5. client_number = Cardinality(admitted \ over) - Cardinality(refused \cap over)
    BY DEF GInv, CountBalances
  <2>6. client_number' = Cardinality(admitted' \ over') - Cardinality(refused \cap over)
    BY <1>7, <2>1, <2>4, <2>5
  <2>7. CountBalances'
    BY <1>1, <2>1, <2>6 DEF CountBalances
  <2>8. client_number' \in Int
    BY <2>1 DEF GInv, Types
  <2> QED BY <1>6, <2>1, <2>2, <2>7, <2>8 DEF GInv, Types
<1> QED BY <1>8, <1>9

LEMMA CloseInv ==
  ASSUME GInv, NEW fd \in Fd, MSG_close(fd)
  PROVE  GInv'
<1>1. /\ Dispatch("close", fd)
      /\ client_number' = client_number - 1
      /\ connection' = [connection EXCEPT ![fd] = IF @ = "true" THEN "false" ELSE @]
      /\ forward' = [forward EXCEPT ![fd] = "nil"]
      /\ over' = over \cup {fd}
      /\ UNCHANGED <<pipe, admitted, refused>>
  BY DEF MSG_close, close_fd
<1>2. "close" \in Event \cup Command
  BY DEF Event
<1>3. /\ inbox' \in Seq(Mail) /\ sock' = sock
      /\ Has(inbox, <<"close", fd>>)
      /\ Once(inbox, <<"close", fd>>) => ~Has(inbox', <<"close", fd>>)
      /\ \A g : g # fd => (Has(inbox', <<"close", g>>) <=> Has(inbox, <<"close", g>>))
      /\ \A g : Has(inbox', <<"open", g>>) <=> Has(inbox, <<"open", g>>)
      /\ \A g : Has(inbox', <<"error", g>>) => Has(inbox, <<"error", g>>)
      /\ \A g : Once(inbox, <<"open", g>>) => Once(inbox', <<"open", g>>)
      /\ \A g : Once(inbox, <<"close", g>>) => Once(inbox', <<"close", g>>)
      /\ \A g : Before(inbox, <<"open", g>>, <<"close", g>>)
                  => Before(inbox', <<"open", g>>, <<"close", g>>)
  BY <1>1, <1>2, Taken
<1>4. ~Has(inbox', <<"close", fd>>) /\ sock[fd] \in Ended /\ fd \notin over
  BY <1>3 DEF GInv, Closed
<1>5. ~Has(inbox, <<"open", fd>>)
  BY <1>1, TailBefore DEF GInv, Types, Closed, Dispatch
<1>6. fd \in admitted \cup refused
  BY <1>4, <1>5 DEF GInv, Accepted, Ended
<1>7. Types'
  BY <1>1, <1>3 DEF GInv, Types
<1>8. /\ connection'[fd] # "nil" => connection[fd] # "nil"
      /\ forward'[fd] = "nil"
      /\ \A g \in Fd : g # fd => connection'[g] = connection[g] /\ forward'[g] = forward[g]
  BY <1>1 DEF GInv, Types
<1>9. Accepted'
  BY <1>1, <1>3, <1>8 DEF GInv, Accepted
<1>10. Closed'
  <2> SUFFICES ASSUME NEW g \in Fd
               PROVE  /\ Once(inbox', <<"close", g>>)
                      /\ Before(inbox', <<"open", g>>, <<"close", g>>)
                      /\ Has(inbox', <<"close", g>>) <=> sock[g] \in Ended /\ g \notin over'
                      /\ g \in over' => /\ sock[g] \in Ended
                                        /\ g \in admitted \cup refused
                                        /\ forward'[g] = "nil"
    BY <1>1, <1>3 DEF Closed
  <2>1. CASE g = fd
    BY <1>1, <1>3, <1>4, <1>6, <1>8, <2>1 DEF GInv, Closed
  <2>2. CASE g # fd
    BY <1>1, <1>3, <1>8, <2>2 DEF GInv, Closed
  <2> QED BY <2>1, <2>2
<1>11. CountBalances'
  <2>1. /\ IsFiniteSet(admitted \ over) /\ Cardinality(admitted \ over) \in Nat
        /\ IsFiniteSet(refused \cap over) /\ Cardinality(refused \cap over) \in Nat
    BY SocketsAssumption, FS_Subset, FS_CardinalityType DEF GInv, Types
  <2>2. client_number = Cardinality(admitted \ over) - Cardinality(refused \cap over)
    BY DEF GInv, CountBalances
  <2>0. client_number' = client_number - 1
    BY <1>1
  <2>3. CASE fd \in admitted
    <3>1. fd \notin refused
      BY <2>3 DEF GInv, Accepted
    <3>2. /\ admitted \ over' = (admitted \ over) \ {fd} /\ fd \in admitted \ over
          /\ refused \cap over' = refused \cap over
      BY <1>1, <1>4, <2>3, <3>1
    <3>3. Cardinality(admitted \ over') = Cardinality(admitted \ over) - 1
      BY <2>1, <3>2, FS_RemoveElement
    <3>4. client_number' = Cardinality(admitted \ over') - Cardinality(refused \cap over')
      <4>1. Cardinality(refused \cap over') = Cardinality(refused \cap over)
        BY <3>2
      <4> QED BY <2>0, <2>1, <2>2, <3>3, <4>1
    <3> QED BY <1>1, <3>4 DEF CountBalances
  <2>4. CASE fd \in refused
    <3>1. fd \notin admitted
      BY <2>4 DEF GInv, Accepted
    <3>2. /\ admitted \ over' = admitted \ over
          /\ refused \cap over' = (refused \cap over) \cup {fd}
          /\ fd \notin refused \cap over
      BY <1>1, <1>4, <2>4, <3>1
    <3>3. Cardinality(refused \cap over') = Cardinality(refused \cap over) + 1
      BY <2>1, <3>2, FS_AddElement
    <3>4. client_number' = Cardinality(admitted \ over') - Cardinality(refused \cap over')
      <4>1. Cardinality(admitted \ over') = Cardinality(admitted \ over)
        BY <3>2
      <4> QED BY <2>0, <2>1, <2>2, <3>3, <4>1
    <3> QED BY <1>1, <3>4 DEF CountBalances
  <2> QED BY <1>6, <2>3, <2>4
<1>12. Closing'
  BY <1>1, <1>2, Taken
<1> QED BY <1>7, <1>9, <1>10, <1>11, <1>12 DEF GInv

-----------------------------------------------------------------------------
(* The socket thread. *)

LEMMA PollInv ==
  ASSUME GInv, NEW fd \in Fd, Poll(fd), UNCHANGED gvars
  PROVE  GInv'
<1>1. UNCHANGED gate
  BY DEF gvars, gate
<1>2. sock \in [Fd -> SocketType] /\ sock[fd] \in SocketType
  BY DEF GInv, Types
<1>3. pipe' = pipe /\ PipeOK(pipe')
  <2>1. pipe' = pipe
    BY DEF Poll, report_accept, Receive, ReceiveEnd, ReceiveEndLate, report_error,
       Hangup, send_buffer, close_write
  <2> QED BY <2>1, PipeKinds DEF Request
<1>4. ASSUME UNCHANGED sock
      PROVE  sock' = [sock EXCEPT ![fd] = sock[fd]]
  BY <1>2, <1>4
<1>5. CASE report_accept(fd)
  BY <1>1, <1>3, <1>5, RaiseStep
     DEF report_accept, Raise, Event, SocketType, Ended
<1>6. CASE Receive(fd)
  BY <1>1, <1>2, <1>3, <1>4, <1>6, RaiseStep DEF Receive, Raise, Event, Ended
<1>7. CASE ReceiveEnd(fd)
  <2>1. CASE sock[fd] = "HALFCLOSE_WRITE"
    BY <1>1, <1>3, <1>7, <2>1, RaiseStep
       DEF ReceiveEnd, force_close, Raise, Event, SocketType, Ended
  <2>2. CASE sock[fd] # "HALFCLOSE_WRITE"
    BY <1>1, <1>3, <1>7, <2>2, RaiseStep
       DEF ReceiveEnd, close_read, Raise, Event, SocketType, Ended
  <2> QED BY <2>1, <2>2
<1>8. CASE ReceiveEndLate(fd)
  BY <1>1, <1>3, <1>8, QuietStep DEF ReceiveEndLate, force_close, SocketType, Ended
<1>9. CASE report_error(fd)
  BY <1>1, <1>2, <1>3, <1>4, <1>9, RaiseStep DEF report_error, Raise, Event, Live
<1>10. CASE Hangup(fd)
  <2>1. CASE sock[fd] = "HALFCLOSE_READ"
    BY <1>1, <1>3, <1>10, <2>1, QuietStep DEF Hangup, force_close, SocketType, Ended
  <2>2. CASE sock[fd] # "HALFCLOSE_READ"
    BY <1>1, <1>3, <1>10, <2>2, RaiseStep
       DEF Hangup, force_close, Raise, Event, SocketType, Ended, Live
  <2> QED BY <2>1, <2>2
<1>11. CASE send_buffer(fd)
  <2>1. CASE closing[fd]
    <3>1. sock[fd] = "HALFCLOSE_READ"
      BY <1>11, <2>1 DEF send_buffer, GInv, Closing, Ended
    <3> QED BY <1>1, <1>3, <1>11, <2>1, <3>1, QuietStep
            DEF send_buffer, force_close, SocketType, Ended
  <2>2. CASE ~closing[fd]
    BY <1>1, <1>2, <1>3, <1>4, <1>11, <2>2, QuietStep DEF send_buffer
  <2> QED BY <2>1, <2>2
<1>12. CASE close_write(fd)
  <2>1. CASE sock[fd] = "HALFCLOSE_READ"
    BY <1>1, <1>3, <1>12, <2>1, QuietStep DEF close_write, force_close, SocketType, Ended
  <2>2. CASE sock[fd] # "HALFCLOSE_READ"
    BY <1>1, <1>3, <1>12, <2>2, RaiseStep
       DEF close_write, Raise, Event, SocketType, Ended
  <2> QED BY <2>1, <2>2
<1> QED BY <1>5, <1>6, <1>7, <1>8, <1>9, <1>10, <1>11, <1>12 DEF Poll

(* ctrl_cmd decides a request against the state the socket has by then. *)
LEMMA CtrlInv ==
  ASSUME GInv, ctrl_cmd, UNCHANGED gvars
  PROVE  GInv'
<1>1. UNCHANGED gate
  BY DEF gvars, gate
<1>2. pipe # <<>> /\ pipe' = Tail(pipe)
  BY DEF ctrl_cmd
<1> DEFINE request == Head(pipe)[1]
           fd == Head(pipe)[2]
<1>3. PipeOK(pipe') /\ request \in Request /\ fd \in Fd /\ sock[fd] # "none"
  <2>1. PipeOK(Tail(pipe)) /\ Head(pipe) \in Request \X Fd /\ sock[Head(pipe)[2]] # "none"
    <3>1. CASE Fd = {}
      <4>1. Head(pipe) \in Request \X Fd
        BY <1>2 DEF GInv, Types
      <4> QED BY <3>1, <4>1
    <3>2. CASE Fd # {}
      BY <1>2, <3>2, PipeKinds DEF Request
    <3> QED BY <3>1, <3>2
  <2> QED BY <1>2, <2>1
<1>4. /\ request = "start" => resume_socket(fd)
      /\ request = "send" => send_socket(fd)
      /\ request \notin {"start", "send"} => close_socket(fd, request)
  BY DEF ctrl_cmd
<1> HIDE DEF request, fd
<1>5. sock \in [Fd -> SocketType] /\ sock[fd] \in SocketType
  BY <1>3 DEF GInv, Types
<1>6. ASSUME UNCHANGED sock
      PROVE  sock' = [sock EXCEPT ![fd] = sock[fd]]
  BY <1>5, <1>6
<1>7. CASE request = "start"
  <2>1. resume_socket(fd)
    BY <1>4, <1>7
  <2>2. CASE sock[fd] \in Ended
    BY <1>1, <1>3, <1>5, <1>6, <2>1, <2>2, RaiseStep DEF resume_socket, Raise, Event, Ended
  <2>3. CASE sock[fd] \notin Ended
    <3> DEFINE t == IF sock[fd] = "PACCEPT" THEN "CONNECTED" ELSE sock[fd]
    <3>1. sock' = [sock EXCEPT ![fd] = t] /\ UNCHANGED <<closing, inbox>>
      BY <2>1, <2>3 DEF resume_socket, Ended
    <3>2. t \in SocketType \ {"none"} /\ t \notin Ended
      BY <1>3, <1>5, <2>3 DEF SocketType, Ended
    <3> HIDE DEF t
    <3> QED BY <1>1, <1>3, <2>3, <3>1, <3>2, QuietStep
  <2> QED BY <2>2, <2>3
<1>8. CASE request = "send"
  <2>1. send_socket(fd)
    BY <1>4, <1>8
  <2> QED BY <1>1, <1>3, <1>5, <1>6, <2>1, QuietStep DEF send_socket
<1>9. CASE request \notin {"start", "send"}
  <2>1. close_socket(fd, request)
    BY <1>4, <1>9
  <2>2. CASE sock[fd] = "INVALID"
    BY <1>1, <1>3, <1>5, <1>6, <2>1, <2>2, QuietStep DEF close_socket
  <2>3. CASE sock[fd] # "INVALID" /\ (request = "shutdown" \/ nomore_sending_data(fd))
    <3>1. force_close(fd)
      BY <2>1, <2>3 DEF close_socket
    <3>2. CASE sock[fd] = "HALFCLOSE_READ"
      <4>1. inbox' = inbox
        BY <2>1, <2>3, <3>2 DEF close_socket
      <4> QED BY <1>1, <1>3, <3>1, <3>2, <4>1, QuietStep DEF force_close, SocketType, Ended
    <3>3. CASE sock[fd] # "HALFCLOSE_READ"
      <4>1. inbox' = Append(inbox, <<"close", fd>>)
        BY <2>1, <2>3, <3>3 DEF close_socket, Raise
      <4> QED BY <1>1, <1>3, <2>3, <3>1, <3>3, <4>1, RaiseStep
              DEF force_close, Event, SocketType, Ended
    <3> QED BY <3>2, <3>3
  <2>4. CASE sock[fd] # "INVALID" /\ ~(request = "shutdown" \/ nomore_sending_data(fd))
    <3>1. closing' = [closing EXCEPT ![fd] = TRUE]
      BY <2>1, <2>4 DEF close_socket
    <3>2. CASE sock[fd] = "HALFCLOSE_READ"
      <4>1. UNCHANGED <<sock, inbox>>
        BY <2>1, <2>4, <3>2 DEF close_socket
      <4> QED BY <1>1, <1>3, <1>5, <1>6, <3>1, <3>2, <4>1, QuietStep DEF Ended
    <3>3. CASE sock[fd] # "HALFCLOSE_READ"
      <4>1. /\ inbox' = Append(inbox, <<"close", fd>>)
            /\ sock' = [sock EXCEPT ![fd] = "HALFCLOSE_READ"]
        BY <2>1, <2>4, <3>3 DEF close_socket, close_read, Raise
      <4> QED BY <1>1, <1>3, <2>4, <3>1, <3>3, <4>1, RaiseStep
              DEF Event, SocketType, Ended
    <3> QED BY <3>2, <3>3
  <2> QED BY <2>2, <2>3, <2>4
<1> QED BY <1>7, <1>8, <1>9

-----------------------------------------------------------------------------
(* The gate and those that call it. *)

LEMMA HandleInv ==
  ASSUME GInv, NEW fd \in Fd, Handle(fd)
  PROVE  GInv'
<1>1. /\ connection \in [Fd -> {"true", "false", "nil"}]
      /\ forward \in [Fd -> {"nil", "watchdog", "agent"}]
  BY DEF GInv, Types
<1>2. PipeOK(pipe) /\ \A r \in Request : sock[fd] # "none" => PipeOK(Append(pipe, <<r, fd>>))
  BY PipeKinds DEF Request
<1>3. connection[fd] # "nil" => sock[fd] # "none"
  BY DEF GInv, Accepted
<1>4. openclient(fd) => PipeOK(pipe')
  BY <1>2, <1>3 DEF openclient, Ask, Request
<1>5. CASE MSG_open(fd)
  BY <1>5, OpenInv
<1>6. CASE MSG_close(fd)
  BY <1>6, CloseInv
<1>7. CASE MSG_data(fd)
  BY <1>1, <1>2, <1>7, HandleStep DEF MSG_data, Event
<1>8. CASE MSG_error(fd)
  <2>1. Dispatch("error", fd) /\ "error" \in Event \cup Command
    BY <1>8 DEF MSG_error, Event
  <2>2. sock[fd] # "none"
    BY <2>1, Taken DEF GInv, Accepted
  <2>3. PipeOK(pipe')
    BY <1>2, <1>8, <2>2 DEF MSG_error, Ask, Request
  <2> QED BY <1>1, <1>8, <2>1, <2>3, HandleStep DEF MSG_error, close_fd
<1>9. CASE CMD_accept(fd)
  <2>1. /\ Dispatch("accept", fd) /\ "accept" \in Event \cup Command
        /\ UNCHANGED <<connection, client_number, admitted, refused, over>>
    BY <1>9 DEF CMD_accept, Command
  <2>2. CASE forward[fd] = "nil"
    BY <1>1, <1>2, <1>9, <2>1, <2>2, HandleStep DEF CMD_accept
  <2>3. CASE forward[fd] # "nil"
    <3>1. forward' = [forward EXCEPT ![fd] = "watchdog"] /\ PipeOK(pipe')
      BY <1>4, <1>9, <2>3 DEF CMD_accept
    <3> QED BY <1>1, <2>1, <2>3, <3>1, HandleStep
  <2> QED BY <2>2, <2>3
<1>10. CASE CMD_forward(fd)
  <2>1. /\ Dispatch("forward", fd) /\ "forward" \in Event \cup Command
        /\ UNCHANGED <<connection, client_number, admitted, refused, over>>
    BY <1>10 DEF CMD_forward, Command
  <2>2. CASE forward[fd] = "nil"
    BY <1>1, <1>2, <1>10, <2>1, <2>2, HandleStep DEF CMD_forward
  <2>3. CASE forward[fd] # "nil"
    <3>1. forward' = [forward EXCEPT ![fd] = "agent"] /\ PipeOK(pipe')
      BY <1>4, <1>10, <2>3 DEF CMD_forward
    <3> QED BY <1>1, <2>1, <2>3, <3>1, HandleStep
  <2> QED BY <2>2, <2>3
<1>11. CASE CMD_kick(fd)
  <2>1. /\ Dispatch("kick", fd) /\ "kick" \in Event \cup Command
        /\ connection' = [connection EXCEPT ![fd] = "nil"]
        /\ UNCHANGED <<forward, client_number, admitted, refused, over>>
    BY <1>11 DEF CMD_kick, Command
  <2>2. PipeOK(pipe')
    BY <1>2, <1>3, <1>11 DEF CMD_kick, Ask, Request
  <2> QED BY <1>1, <2>1, <2>2, HandleStep
<1> QED BY <1>5, <1>6, <1>7, <1>8, <1>9, <1>10, <1>11 DEF Handle

LEMMA CallerInv ==
  ASSUME GInv, NEW fd \in Fd, Caller(fd)
  PROVE  GInv'
<1>1. UNCHANGED gate /\ UNCHANGED <<sock, closing>>
  BY DEF Caller, SOCKET_open, SOCKET_data, SOCKET_data_rejected, agent_start,
     close_agent, AgentExit, send_package, socket_server_send, kvars, gvars, gate
<1>2. PipeOK(pipe')
  <2>1. PipeOK(pipe) /\ (sock[fd] # "none" => PipeOK(Append(pipe, <<"send", fd>>)))
    BY PipeKinds DEF Request
  <2>2. CASE send_package(fd)
    <3>1. sock[fd] # "none"
      BY <2>2 DEF send_package, socket_server_send, Live
    <3>2. pipe' = pipe \/ pipe' = Append(pipe, <<"send", fd>>)
      BY <2>2 DEF send_package, socket_server_send
    <3> QED BY <2>1, <3>1, <3>2
  <2>3. CASE ~send_package(fd)
    <3>1. pipe' = pipe
      BY <2>3 DEF Caller, SOCKET_open, SOCKET_data, SOCKET_data_rejected, agent_start,
         close_agent, AgentExit, kvars
    <3> QED BY <2>1, <3>1
  <2> QED BY <2>2, <2>3
<1>3. \/ inbox' = inbox
      \/ \E c \in Command : inbox' = Append(inbox, <<c, fd>>)
  BY DEF Caller, SOCKET_open, SOCKET_data, SOCKET_data_rejected, agent_start,
     close_agent, AgentExit, send_package, socket_server_send, kvars, Raise, Command
<1> QED BY <1>1, <1>2, <1>3, CallStep

LEMMA InitGInv == Init => GInv
<1> SUFFICES ASSUME Init PROVE GInv
  OBVIOUS
<1>1. Types
  BY DEF Init, KInit, Types, SocketType
<1>2. Len(inbox) = 0 /\ Len(pipe) = 0
  BY DEF Init, KInit
<1>3. Accepted
  BY <1>2 DEF Init, KInit, Accepted, Has, Once
<1>4. Closed /\ Closing
  BY <1>2 DEF Init, KInit, Closed, Closing, Has, Once, Before, Ended
<1>5. CountBalances
  <2>1. admitted \ over = {} /\ refused \cap over = {} /\ client_number = 0
    BY DEF Init
  <2> QED BY <2>1, FS_EmptySet DEF CountBalances
<1> QED BY <1>1, <1>3, <1>4, <1>5 DEF GInv

LEMMA NextGInv == GInv /\ [Next]_vars => GInv'
<1> SUFFICES ASSUME GInv, [Next]_vars PROVE GInv'
  OBVIOUS
<1>1. CASE SocketThread
  BY <1>1, CtrlInv, PollInv DEF SocketThread
<1>2. ASSUME NEW fd \in Fd, Handle(fd) PROVE GInv'
  BY <1>2, HandleInv
<1>3. ASSUME NEW fd \in Fd, Caller(fd) PROVE GInv'
  BY <1>3, CallerInv
<1>4. CASE UNCHANGED vars
  BY <1>4 DEF vars, kvars, gvars, GInv, Types, Accepted, Closed, Closing, CountBalances
<1> QED BY <1>1, <1>2, <1>3, <1>4 DEF Next

(* The inductive invariant of the gate and the socket thread. *)
THEOREM GateInvariant == Spec => []GInv
BY InitGInv, NextGInv, PTL DEF Spec

(* A socket raises SOCKET_CLOSE exactly once, when it ends; once the gate  *)
(* has handled it, it has no entry for the socket and makes none again.    *)
THEOREM ClosedOnceAlways == Spec => []ClosedOnce
<1>1. ASSUME GInv PROVE ClosedOnce
  <2> SUFFICES ASSUME NEW fd \in Fd
               PROVE  /\ Cardinality({i \in DOMAIN inbox : inbox[i] = <<"close", fd>>})
                           + (IF fd \in over THEN 1 ELSE 0)
                         = IF sock[fd] \in Ended THEN 1 ELSE 0
                      /\ fd \in over => forward[fd] = "nil"
    BY DEF ClosedOnce, Ended
  <2> DEFINE At == {i \in DOMAIN inbox : inbox[i] = <<"close", fd>>}
  <2>1. DOMAIN inbox = 1 .. Len(inbox)
    BY <1>1 DEF GInv, Types
  <2>2. /\ Once(inbox, <<"close", fd>>)
        /\ Has(inbox, <<"close", fd>>) <=> sock[fd] \in Ended /\ fd \notin over
        /\ fd \in over => sock[fd] \in Ended /\ forward[fd] = "nil"
    BY <1>1 DEF GInv, Closed
  <2>3. CASE Has(inbox, <<"close", fd>>)
    <3>1. \E i : At = {i}
      BY <2>1, <2>2, <2>3 DEF Has, Once
    <3>2. Cardinality(At) = 1
      BY <3>1, FS_Singleton
    <3> HIDE DEF At
    <3>3. Cardinality(At) + (IF fd \in over THEN 1 ELSE 0)
            = IF sock[fd] \in Ended THEN 1 ELSE 0
      BY <2>2, <2>3, <3>2
    <3> QED BY <2>2, <3>3 DEF At
  <2>4. CASE ~Has(inbox, <<"close", fd>>)
    <3>1. At = {}
      BY <2>1, <2>4 DEF Has
    <3>2. Cardinality(At) = 0
      BY <3>1, FS_EmptySet
    <3> HIDE DEF At
    <3>3. Cardinality(At) + (IF fd \in over THEN 1 ELSE 0)
            = IF sock[fd] \in Ended THEN 1 ELSE 0
      BY <2>2, <2>4, <3>2
    <3> QED BY <2>2, <3>3 DEF At
  <2> QED BY <2>3, <2>4
<1>2. GInv => ClosedOnce
  BY <1>1
<1> QED BY <1>2, GateInvariant, PTL

(* client_number is the number of admitted clients whose close is still to *)
(* be handled, less the refused ones whose close was handled.              *)
THEOREM CountBalancesAlways == Spec => []CountBalances
<1>1. GInv => CountBalances
  BY DEF GInv
<1> QED BY <1>1, GateInvariant, PTL
=============================================================================
