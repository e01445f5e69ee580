--------------------------- MODULE SessionProofs ---------------------------
(***************************************************************************)
(* Logins and sessions, for any users, connections and bounds: a kicked    *)
(* user is offline when his login goes on, login server and watchdog agree *)
(* on who is online, and nobody stays on the map without his agent.        *)
(***************************************************************************)
EXTENDS Session, SequenceTheorems, TLAPS

(* Where a message stands in a mailbox. *)
Has(s, e) == \E i \in 1 .. Len(s) : s[i] = e
Before(s, e, f) == \A i, j \in 1 .. Len(s) : s[i] = e /\ s[j] = f => i < j

Known(a) == a \in Agent /\ a <= Len(born)

-----------------------------------------------------------------------------
(* What a message says stays true while it waits.  Fine(s, m) is its shape *)
(* and what it says of agents: who calls the watchdog back has begun to    *)
(* disconnect, who is disconnected has lost his connection.                *)

CallerFine(c) ==
  \/ c = <<"nobody">>
  \/ \E a \in Agent : c = <<"agent", a>> /\ stop[a] # "no"

IsKick(c) == \E k \in Nat : c = <<"kick", k>>

FineAtLogind(m) ==
  \/ \E k \in Nat : m = <<"kicked", k>>
  \/ \E k, n \in Nat : m = <<"subid", k, n>>
  \/ \E u \in User, k \in Nat : m = <<"logout", u, k>>

FineAtWatchdog(m) ==
  \/ \E u \in User, k \in Nat, t \in {"kick", "login", "logged_out"} : m = <<t, u, k>>
  \/ \E a, c :
       /\ m = <<"gate_kicked", a, c>>
       /\ a # Nil => Known(a) /\ ~connection[born[a].fd]
       /\ CallerFine(c) \/ IsKick(c)
  \/ \E fd \in Fd : \E c : m = <<"close", fd, c>> /\ CallerFine(c)
  \/ \E fd \in Fd, k \in DOMAIN login : m = <<"data", fd, k>>

FineAtGate(m) ==
  \/ \E fd \in Fd : \E a, c :
       /\ m = <<"kick", fd, a, c>>
       /\ a # Nil => Known(a) /\ born[a].fd = fd
       /\ CallerFine(c) \/ IsKick(c)
  \/ \E a \in Agent : Known(a) /\ m = <<"forward", born[a].fd, a>>

FineAtAoi(m) ==
  \/ \E a \in POS : Known(a) /\ m = <<"enter", born[a].user, a>>
  \/ \E a \in Agent, f \in BOOLEAN :
       Known(a) /\ m = <<"leave", born[a].user, a, f>> /\ stop[a] # "no"

FineAtAgent(a, m) ==
  \/ m \in {<<"forwarded">>, <<"not_forwarded">>, <<"move">>} /\ Known(a)
  \/ m = <<"disconnect">> /\ Known(a) /\ ~connection[born[a].fd]
  \/ m \in {<<"closed">>, <<"left">>} /\ stop[a] # "no"

Fine(s, m) ==
  /\ s = logind => FineAtLogind(m)
  /\ s = watchdog => FineAtWatchdog(m)
  /\ s = gate => FineAtGate(m)
  /\ s = aoi => FineAtAoi(m)
  /\ s \in Agent => FineAtAgent(s, m)

PC == {"406", "kick", "login", "403", "200"}
LoginRecord == [user : User, pc : PC, subid : Nat]

Types ==
  /\ login \in Seq(LoginRecord)
  /\ user_login \subseteq User
  /\ user_online \in [User -> Nat] /\ user_secret \in [User -> Nat] /\ subid \in Nat
  /\ session_map \in [Fd -> User \cup {Nil}]
  /\ agent \in [Fd -> Agent \cup {Nil}]
  /\ connection \in [Fd -> BOOLEAN]
  /\ forward \in [Fd -> Agent \cup {Nil, watchdog}]
  /\ born \in Seq([fd : Fd, user : User, subid : Nat])
  /\ start \in [Agent -> {"none", "launched", "loadid", "forward", "failed",
                          "load", "beating", "up"}]
  /\ stop \in [Agent -> {"no", "close", "leave", "save", "exited", "unsaved"}]
  /\ POS \subseteq Agent
  /\ onmap \in [User -> Agent \cup {Nil}]

(* Mailboxes are sequences of messages, and these are fine. *)
All == Service \cup Agent
IsBox(b) == \E M : b \in [All -> Seq(M)]

Boxes ==
  /\ IsBox(box)
  /\ \A s \in All : \A m : Has(box[s], m) => Fine(s, m)

-----------------------------------------------------------------------------
(* Logins.  A login under way is carried by one message, which goes from   *)
(* service to service: Bears(s, m, k) if m in the mailbox of s carries     *)
(* login k.                                                                *)

Bears(s, m, k) ==
  \/ s = logind /\ m[1] \in {"kicked", "subid"} /\ m[2] = k
  \/ s = logind /\ m[1] = "logout" /\ m[3] = k
  \/ /\ s = watchdog
     /\ \/ m[1] \in {"kick", "login", "logged_out"} /\ m[3] = k
        \/ m[1] = "gate_kicked" /\ m[3] = <<"kick", k>>
  \/ s = gate /\ m[1] = "kick" /\ m[4] = <<"kick", k>>

(* What holds while m carries login k: its user is locked; he is offline   *)
(* once logout was handled; his secret is the one that was handed out.     *)
Holds(s, m, k, lg, ul, online, secret) ==
  /\ k \in 1 .. Len(lg)
  /\ lg[k].user \in ul
  /\ m[1] \in {"logout", "login", "logged_out"} => m[2] = lg[k].user
  /\ s = watchdog /\ m[1] = "kick" => m[2] = lg[k].user
  /\ s = gate \/ m[1] \in {"logged_out", "gate_kicked", "kicked"}
       => online[lg[k].user] = 0
  /\ m[1] = "subid" => secret[lg[k].user] = m[3]

Carried(b, lg, ul, online, secret) ==
  \A s \in Service : \A i \in 1 .. Len(b[s]) : \A k :
    Bears(s, b[s][i], k) => Holds(s, b[s][i], k, lg, ul, online, secret)

(* A user has at most one login under way. *)
OneEach(b, lg) ==
  \A s, t \in Service : \A i \in 1 .. Len(b[s]), j \in 1 .. Len(b[t]) : \A k, n :
    Bears(s, b[s][i], k) /\ Bears(t, b[t][j], n) /\ lg[k].user = lg[n].user
      => s = t /\ i = j

(* No login of user u is under way. *)
Free(b, lg, u) ==
  \A s \in Service : \A i \in 1 .. Len(b[s]) : \A k :
    Bears(s, b[s][i], k) => lg[k].user # u

Logins ==
  /\ Carried(box, login, user_login, user_online, user_secret)
  /\ OneEach(box, login)
  /\ OnlineHasSecret
  /\ NeverAlreadyOnline

-----------------------------------------------------------------------------
(* Agents. *)

(* Who is entered somewhere belongs to that connection or user. *)
Entered ==
  /\ \A a \in Agent : start[a] # "none" => Known(a)
  /\ \A fd \in Fd : agent[fd] # Nil => Known(agent[fd]) /\ born[agent[fd]].fd = fd
  /\ \A fd \in Fd : forward[fd] \in Agent => Known(forward[fd]) /\ born[forward[fd]].fd = fd
  /\ \A u \in User : onmap[u] # Nil =>
       Known(onmap[u]) /\ born[onmap[u]].user = u /\ onmap[u] \in POS

(* No packet follows the disconnect, as the connection was closed first.   *)
Stops ==
  \A a \in Agent :
    /\ stop[a] # "no" => /\ Known(a)
                         /\ ~connection[born[a].fd]
                         /\ ~Has(box[a], <<"move">>)
    /\ Before(box[a], <<"move">>, <<"disconnect">>)

(* An agent whose leave was answered is off the map for good. *)
Gone(a) == Has(box[a], <<"left">>) \/ stop[a] \in {"save", "exited", "unsaved"}

Leaves ==
  \A a \in Agent :
    /\ Known(a) => \A f \in BOOLEAN :
         Before(box[aoi], <<"enter", born[a].user, a>>, <<"leave", born[a].user, a, f>>)
    /\ Known(a) /\ Has(box[aoi], <<"leave", born[a].user, a, FALSE>>) => a \notin POS
    /\ Gone(a) => /\ stop[a] # "no"
                  /\ ~Has(box[aoi], <<"enter", born[a].user, a>>)
                  /\ onmap[born[a].user] # a

(* The inductive invariant. *)
SInv == Types /\ Boxes /\ Logins /\ Entered /\ Stops /\ Leaves

-----------------------------------------------------------------------------
(* Mail(b, c, P): the mailboxes c are those of b with some of the first    *)
(* messages handled or dropped, and messages of P added; <<t, m>> in P is  *)
(* m sent to t.                                                            *)
Mail(b, c, P) ==
  /\ IsBox(c)
  /\ \A t \in All : \E d \in 0 .. Len(b[t]) :
       /\ Len(b[t]) <= Len(c[t]) + d
       /\ \A i \in 1 .. Len(c[t]) :
            \/ i + d <= Len(b[t]) /\ c[t][i] = b[t][i + d]
            \/ i + d > Len(b[t]) /\ <<t, c[t][i]>> \in P

(* Mailboxes can be counted. *)
LEMMA BoxLen ==
  ASSUME NEW b, IsBox(b), NEW t \in All
  PROVE  Len(b[t]) \in Nat
BY DEF IsBox

(* Services are not agents (SessionAssumption). *)
LEMMA ServicesApart ==
  /\ Service \cap Agent = {} /\ Service \subseteq All /\ Agent \subseteq All
  /\ Nil \notin Agent /\ Agent \subseteq Nat
BY SessionAssumption DEF Agent, All

(* Nothing happened. *)
LEMMA SameMail ==
  ASSUME NEW b, IsBox(b)
  PROVE  Mail(b, b, {})
<1> SUFFICES ASSUME NEW t \in All
             PROVE  \E d \in 0 .. Len(b[t]) :
                      /\ Len(b[t]) <= Len(b[t]) + d
                      /\ \A i \in 1 .. Len(b[t]) :
                           \/ i + d <= Len(b[t]) /\ b[t][i] = b[t][i + d]
                           \/ i + d > Len(b[t]) /\ <<t, b[t][i]>> \in {}
  BY DEF Mail
<1>1. Len(b[t]) \in Nat
  BY BoxLen
<1> WITNESS 0 \in 0 .. Len(b[t])
<1> QED
  BY <1>1

(* Rest takes the first message of one service or agent. *)
LEMMA RestFacts ==
  ASSUME IsBox(box), NEW s \in All, box[s] # <<>>
  PROVE  /\ IsBox(Rest(s))
         /\ \A t \in All \ {s} : Rest(s)[t] = box[t]
         /\ Len(Rest(s)[s]) = Len(box[s]) - 1 /\ Len(box[s]) > 0
         /\ \A i \in 1 .. Len(Rest(s)[s]) : Rest(s)[s][i] = box[s][i + 1]
         /\ Msg(s) = box[s][1]
<1>1. PICK M : box \in [All -> Seq(M)]
  BY DEF IsBox
<1>2. /\ Tail(box[s]) \in Seq(M) /\ Len(Tail(box[s])) = Len(box[s]) - 1
      /\ \A i \in 1 .. Len(Tail(box[s])) : Tail(box[s])[i] = box[s][i + 1]
      /\ Len(box[s]) \in Nat /\ Len(box[s]) > 0 /\ Head(box[s]) = box[s][1]
  BY <1>1
<1>3. Rest(s) \in [All -> Seq(M)] /\ Rest(s)[s] = Tail(box[s])
  BY <1>1, <1>2 DEF Rest
<1>4. \A t \in All \ {s} : Rest(s)[t] = box[t]
  BY <1>1 DEF Rest
<1> QED
  BY <1>2, <1>3, <1>4 DEF IsBox, Msg

LEMMA RestMail ==
  ASSUME IsBox(box), NEW s \in All, box[s] # <<>>
  PROVE  Mail(box, Rest(s), {})
<1> DEFINE c == Rest(s)
<1>1. /\ IsBox(c) /\ Len(c[s]) = Len(box[s]) - 1
      /\ \A t \in All \ {s} : c[t] = box[t]
      /\ \A i \in 1 .. Len(c[s]) : c[s][i] = box[s][i + 1]
      /\ Len(box[s]) > 0
  BY RestFacts
<1> HIDE DEF c
<1> SUFFICES ASSUME NEW t \in All
             PROVE  \E d \in 0 .. Len(box[t]) :
                      /\ Len(box[t]) <= Len(c[t]) + d
                      /\ \A i \in 1 .. Len(c[t]) :
                           \/ i + d <= Len(box[t]) /\ c[t][i] = box[t][i + d]
                           \/ i + d > Len(box[t]) /\ <<t, c[t][i]>> \in {}
  BY <1>1 DEF Mail, c
<1>2. Len(box[t]) \in Nat /\ Len(c[t]) \in Nat
  BY BoxLen, <1>1
<1>3. CASE t = s
  <2> 1 \in 0 .. Len(box[t])
    BY <1>1, <1>2, <1>3
  <2> WITNESS 1 \in 0 .. Len(box[t])
  <2> QED
    BY <1>1, <1>2, <1>3
<1>4. CASE t # s
  <2> WITNESS 0 \in 0 .. Len(box[t])
  <2> QED
    BY <1>1, <1>2, <1>4
<1> QED
  BY <1>3, <1>4

(* skynet.exit: the mailbox of one agent is dropped. *)
LEMMA DropMail ==
  ASSUME IsBox(box), NEW a \in All
  PROVE  Mail(box, [box EXCEPT ![a] = <<>>], {})
<1> DEFINE c == [box EXCEPT ![a] = <<>>]
<1>1. PICK M : box \in [All -> Seq(M)]
  BY DEF IsBox
<1>2. c \in [All -> Seq(M)] /\ c[a] = <<>> /\ \A t \in All \ {a} : c[t] = box[t]
  BY <1>1
<1> HIDE DEF c
<1> SUFFICES ASSUME NEW t \in All
             PROVE  \E d \in 0 .. Len(box[t]) :
                      /\ Len(box[t]) <= Len(c[t]) + d
                      /\ \A i \in 1 .. Len(c[t]) :
                           \/ i + d <= Len(box[t]) /\ c[t][i] = box[t][i + d]
                           \/ i + d > Len(box[t]) /\ <<t, c[t][i]>> \in {}
  BY <1>2 DEF Mail, IsBox, c
<1>3. Len(box[t]) \in Nat /\ Len(c[t]) \in Nat
  BY <1>1, <1>2
<1>4. CASE t = a
  <2>1. Len(c[t]) = 0
    BY <1>2, <1>4
  <2> WITNESS Len(box[t]) \in 0 .. Len(box[t])
  <2> QED
    BY <1>3, <2>1
<1>5. CASE t # a
  <2> WITNESS 0 \in 0 .. Len(box[t])
  <2> QED
    BY <1>2, <1>3, <1>5
<1> QED
  BY <1>4, <1>5

(* Send adds a message at the end of one mailbox, or is lost on an agent   *)
(* that has exited.                                                        *)
LEMMA SendFacts ==
  ASSUME NEW b, IsBox(b), NEW to \in All, NEW m
  PROVE  /\ IsBox(Send(b, to, m))
         /\ \A t \in All \ {to} : Send(b, to, m)[t] = b[t]
         /\ \/ Send(b, to, m)[to] = b[to]
            \/ /\ Len(Send(b, to, m)[to]) = Len(b[to]) + 1
               /\ Send(b, to, m)[to][Len(b[to]) + 1] = m
               /\ \A i \in 1 .. Len(b[to]) : Send(b, to, m)[to][i] = b[to][i]
<1>1. PICK M : b \in [All -> Seq(M)]
  BY DEF IsBox
<1> DEFINE c == [b EXCEPT ![to] = Append(@, m)]
           N == M \cup {m}
<1>2. \A t \in All : b[t] \in Seq(N)
  BY <1>1
<1>3. /\ Append(b[to], m) \in Seq(N) /\ Len(Append(b[to], m)) = Len(b[to]) + 1
      /\ Append(b[to], m)[Len(b[to]) + 1] = m
      /\ \A i \in 1 .. Len(b[to]) : Append(b[to], m)[i] = b[to][i]
  BY <1>2, AppendProperties
<1>4. c \in [All -> Seq(N)] /\ c[to] = Append(b[to], m) /\ \A t \in All \ {to} : c[t] = b[t]
  BY <1>1, <1>2, <1>3
<1>5. IsBox(c)
  BY <1>4 DEF IsBox
<1> HIDE DEF c, N
<1>6. CASE Send(b, to, m) = b
  BY <1>6
<1>7. CASE Send(b, to, m) = c
  BY <1>3, <1>4, <1>5, <1>7
<1>8. Send(b, to, m) = b \/ Send(b, to, m) = c
  BY DEF Send, c
<1> QED
  BY <1>6, <1>7, <1>8

LEMMA SendMail ==
  ASSUME NEW b, IsBox(b), NEW c, NEW P, Mail(b, c, P), NEW to \in All, NEW m
  PROVE  Mail(b, Send(c, to, m), P \cup {<<to, m>>})
<1> DEFINE e == Send(c, to, m)
           Q == P \cup {<<to, m>>}
<1>1. /\ IsBox(e) /\ IsBox(c) /\ \A t \in All \ {to} : e[t] = c[t]
      /\ \/ e[to] = c[to]
         \/ /\ Len(e[to]) = Len(c[to]) + 1 /\ e[to][Len(c[to]) + 1] = m
            /\ \A i \in 1 .. Len(c[to]) : e[to][i] = c[to][i]
  BY SendFacts DEF Mail
<1> HIDE DEF e
<1> SUFFICES ASSUME NEW t \in All
             PROVE  \E d \in 0 .. Len(b[t]) :
                      /\ Len(b[t]) <= Len(e[t]) + d
                      /\ \A i \in 1 .. Len(e[t]) :
                           \/ i + d <= Len(b[t]) /\ e[t][i] = b[t][i + d]
                           \/ i + d > Len(b[t]) /\ <<t, e[t][i]>> \in Q
  BY <1>1 DEF Mail, e
<1>2. Len(b[t]) \in Nat /\ Len(c[t]) \in Nat /\ Len(e[t]) \in Nat
  BY BoxLen, <1>1
<1>3. PICK d \in 0 .. Len(b[t]) :
        /\ Len(b[t]) <= Len(c[t]) + d
        /\ \A i \in 1 .. Len(c[t]) :
             \/ i + d <= Len(b[t]) /\ c[t][i] = b[t][i + d]
             \/ i + d > Len(b[t]) /\ <<t, c[t][i]>> \in P
  BY DEF Mail
<1>4. CASE e[t] = c[t]
  BY <1>3, <1>4
<1>5. CASE e[t] # c[t]
  <2>1. /\ t = to /\ Len(e[t]) = Len(c[t]) + 1 /\ e[t][Len(c[t]) + 1] = m
        /\ \A i \in 1 .. Len(c[t]) : e[t][i] = c[t][i]
    BY <1>1, <1>5
  <2> WITNESS d \in 0 .. Len(b[t])
  <2>2. Len(b[t]) <= Len(e[t]) + d
    BY <1>2, <1>3, <2>1
  <2>3. ASSUME NEW i \in 1 .. Len(e[t])
        PROVE  \/ i + d <= Len(b[t]) /\ e[t][i] = b[t][i + d]
               \/ i + d > Len(b[t]) /\ <<t, e[t][i]>> \in Q
    <3>1. CASE i \in 1 .. Len(c[t])
      BY <1>3, <2>1, <3>1
    <3>2. CASE i = Len(c[t]) + 1
      BY <1>2, <1>3, <2>1, <3>2
    <3> QED
      BY <1>2, <2>1, <3>1, <3>2
  <2> QED
    BY <2>2, <2>3
<1> QED
  BY <1>4, <1>5

(* What mail keeps: the messages are old ones or new ones, in order. *)
LEMMA MailHas ==
  ASSUME NEW b, IsBox(b), NEW c, NEW P, Mail(b, c, P), NEW t \in All, NEW e, Has(c[t], e)
  PROVE  Has(b[t], e) \/ <<t, e>> \in P
<1>1. PICK i \in 1 .. Len(c[t]) : c[t][i] = e
  BY DEF Has
<1>2. PICK d \in 0 .. Len(b[t]) :
        \/ i + d <= Len(b[t]) /\ c[t][i] = b[t][i + d]
        \/ i + d > Len(b[t]) /\ <<t, c[t][i]>> \in P
  BY DEF Mail
<1>3. Len(b[t]) \in Nat /\ Len(c[t]) \in Nat
  BY BoxLen DEF Mail
<1>4. CASE i + d <= Len(b[t]) /\ c[t][i] = b[t][i + d]
  <2>1. i + d \in 1 .. Len(b[t])
    BY <1>3, <1>4
  <2> QED
    BY <1>1, <1>4, <2>1 DEF Has
<1> QED
  BY <1>1, <1>2, <1>4

LEMMA MailBefore ==
  ASSUME NEW b, IsBox(b), NEW c, NEW P, Mail(b, c, P), NEW t \in All, NEW e, NEW f,
         Before(b[t], e, f), e # f,
         <<t, e>> \in P => ~Has(b[t], f) /\ <<t, f>> \notin P
  PROVE  Before(c[t], e, f)
<1> SUFFICES ASSUME NEW i \in 1 .. Len(c[t]), NEW j \in 1 .. Len(c[t]),
                    c[t][i] = e, c[t][j] = f
             PROVE  i < j
  BY DEF Before
<1>1. PICK d \in 0 .. Len(b[t]) :
        \A n \in 1 .. Len(c[t]) :
          \/ n + d <= Len(b[t]) /\ c[t][n] = b[t][n + d]
          \/ n + d > Len(b[t]) /\ <<t, c[t][n]>> \in P
  BY DEF Mail
<1>2. Len(b[t]) \in Nat /\ Len(c[t]) \in Nat
  BY BoxLen DEF Mail
<1>3. Has(c[t], f)
  BY DEF Has
<1>4. <<t, e>> \notin P
  BY <1>3, MailHas
<1>5. i + d <= Len(b[t]) /\ b[t][i + d] = e
  BY <1>1, <1>4
<1>6. i + d \in 1 .. Len(b[t])
  BY <1>2, <1>5
<1>7. CASE j + d <= Len(b[t]) /\ b[t][j + d] = f
  <2>1. j + d \in 1 .. Len(b[t])
    BY <1>2, <1>7
  <2>2. i + d < j + d
    BY <1>5, <1>6, <1>7, <2>1 DEF Before
  <2> QED
    BY <1>2, <2>2
<1>8. CASE j + d > Len(b[t])
  BY <1>2, <1>5, <1>8
<1> QED
  BY <1>1, <1>7, <1>8

(* The first message. *)
LEMMA HeadFacts ==
  ASSUME IsBox(box), NEW s \in All, NEW name, Head1(s, name)
  PROVE  /\ box[s] # <<>> /\ 1 \in 1 .. Len(box[s]) /\ Msg(s) = box[s][1]
         /\ Has(box[s], Msg(s)) /\ Msg(s)[1] = name
<1>1. box[s] # <<>> /\ Msg(s)[1] = name
  BY DEF Head1, Msg
<1>2. Len(box[s]) > 0 /\ Msg(s) = box[s][1] /\ Len(box[s]) \in Nat
  BY <1>1, RestFacts, BoxLen
<1> QED
  BY <1>1, <1>2 DEF Has

(* What is said of agents and connections stays true. *)
Grows ==
  /\ \A a : Known(a) => Known(a)' /\ born'[a] = born[a]
  /\ \A fd \in Fd : connection'[fd] => connection[fd]
  /\ \A a \in Agent : stop[a] # "no" => stop'[a] # "no"
  /\ POS \subseteq POS'
  /\ DOMAIN login \subseteq DOMAIN login'

LEMMA KnownFd ==
  ASSUME Types, NEW a, Known(a)
  PROVE  a \in Agent /\ a \in DOMAIN born /\ born[a].fd \in Fd /\ born[a].user \in User
<1>1. a \in Agent /\ a \in 1 .. Len(born)
  BY ServicesApart DEF Known, Agent, Types
<1>2. born[a] \in [fd : Fd, user : User, subid : Nat]
  BY <1>1, ElementOfSeq DEF Types
<1> QED
  BY <1>1, <1>2 DEF Types

LEMMA FineStable ==
  ASSUME Types, Grows, NEW s, NEW m, Fine(s, m)
  PROVE  Fine(s, m)'
<1>1. \A a : Known(a) => a \in Agent /\ born[a].fd \in Fd
  BY KnownFd
<1>2. \A c : CallerFine(c) => CallerFine(c)'
  BY DEF CallerFine, Grows
<1>3. \A a : Known(a) /\ ~connection[born[a].fd] => Known(a)' /\ ~connection'[born'[a].fd]
  BY <1>1 DEF Grows
<1>4. ASSUME s = logind PROVE FineAtLogind(m)'
  BY <1>4 DEF Fine, FineAtLogind
<1>5. ASSUME s = watchdog PROVE FineAtWatchdog(m)'
  <2>1. FineAtWatchdog(m)
    BY <1>5 DEF Fine
  <2>2. CASE \E u \in User, k \in Nat, t \in {"kick", "login", "logged_out"} : m = <<t, u, k>>
    BY <2>2 DEF FineAtWatchdog
  <2>3. CASE \E a, c :
               /\ m = <<"gate_kicked", a, c>>
               /\ a # Nil => Known(a) /\ ~connection[born[a].fd]
               /\ CallerFine(c) \/ IsKick(c)
    <3>1. PICK a, c :
               /\ m = <<"gate_kicked", a, c>>
               /\ a # Nil => Known(a) /\ ~connection[born[a].fd]
               /\ CallerFine(c) \/ IsKick(c)
      BY <2>3
    <3>2. /\ a # Nil => Known(a)' /\ ~connection'[born'[a].fd]
          /\ CallerFine(c)' \/ IsKick(c)
      BY <1>2, <1>3, <3>1
    <3> QED
      BY <3>1, <3>2 DEF FineAtWatchdog, IsKick
  <2>4. CASE \E fd \in Fd : \E c : m = <<"close", fd, c>> /\ CallerFine(c)
    BY <1>2, <2>4 DEF FineAtWatchdog
  <2>5. CASE \E fd \in Fd, k \in DOMAIN login : m = <<"data", fd, k>>
    BY <2>5 DEF FineAtWatchdog, Grows
  <2> QED
    BY <2>1, <2>2, <2>3, <2>4, <2>5 DEF FineAtWatchdog
<1>6. ASSUME s = gate PROVE FineAtGate(m)'
  <2>1. FineAtGate(m)
    BY <1>6 DEF Fine
  <2>2. CASE \E fd \in Fd : \E a, c :
               /\ m = <<"kick", fd, a, c>>
               /\ a # Nil => Known(a) /\ born[a].fd = fd
               /\ CallerFine(c) \/ IsKick(c)
    <3>0. PICK fd \in Fd : \E a, c :
               /\ m = <<"kick", fd, a, c>>
               /\ a # Nil => Known(a) /\ born[a].fd = fd
               /\ CallerFine(c) \/ IsKick(c)
      BY <2>2
    <3>1. PICK a, c :
               /\ m = <<"kick", fd, a, c>>
               /\ a # Nil => Known(a) /\ born[a].fd = fd
               /\ CallerFine(c) \/ IsKick(c)
      BY <3>0
    <3>2. /\ a # Nil => Known(a)' /\ born'[a].fd = fd
          /\ CallerFine(c)' \/ IsKick(c)
      BY <1>2, <3>1 DEF Grows
    <3> QED
      BY <3>1, <3>2 DEF FineAtGate, IsKick
  <2>3. CASE \E a \in Agent : Known(a) /\ m = <<"forward", born[a].fd, a>>
    BY <2>3 DEF FineAtGate, Grows
  <2> QED
    BY <2>1, <2>2, <2>3 DEF FineAtGate
<1>7. ASSUME s = aoi PROVE FineAtAoi(m)'
  <2>1. FineAtAoi(m)
    BY <1>7 DEF Fine
  <2>2. CASE \E a \in POS : Known(a) /\ m = <<"enter", born[a].user, a>>
    BY <2>2 DEF FineAtAoi, Grows
  <2>3. CASE \E a \in Agent, f \in BOOLEAN :
               Known(a) /\ m = <<"leave", born[a].user, a, f>> /\ stop[a] # "no"
    BY <2>3 DEF FineAtAoi, Grows
  <2> QED
    BY <2>1, <2>2, <2>3 DEF FineAtAoi
<1>8. ASSUME s \in Agent PROVE FineAtAgent(s, m)'
  BY <1>3, <1>8 DEF Fine, FineAtAgent, Grows
<1> QED
  BY <1>4, <1>5, <1>6, <1>7, <1>8 DEF Fine

LEMMA BoxesStep ==
  ASSUME Types, Grows, Boxes, NEW P, Mail(box, box', P),
         \A p \in P : Fine(p[1], p[2])'
  PROVE  Boxes'
<1>1. IsBox(box) /\ IsBox(box')
  BY DEF Boxes, Mail
<1>2. IsBox(box)'
  BY <1>1 DEF IsBox, All, Service, Agent
<1> SUFFICES ASSUME NEW s \in All, NEW m, Has(box'[s], m)
             PROVE  Fine(s, m)'
  BY <1>2 DEF Boxes, All, Service, Agent, Has
<1>3. Has(box[s], m) \/ <<s, m>> \in P
  BY <1>1, MailHas
<1>4. CASE Has(box[s], m)
  BY <1>4, FineStable DEF Boxes
<1>5. CASE <<s, m>> \in P
  <2>1. Fine(<<s, m>>[1], <<s, m>>[2])'
    BY <1>5
  <2> QED
    BY <2>1
<1> QED
  BY <1>3, <1>4, <1>5

-----------------------------------------------------------------------------
(* Logins and mailboxes. *)

(* Mail that bears no login. *)
LEMMA QuietMail ==
  ASSUME NEW b, IsBox(b), NEW c, NEW P, Mail(b, c, P),
         \A p \in P : \A k : ~Bears(p[1], p[2], k),
         NEW lg, NEW ul, NEW online, NEW secret
  PROVE  /\ Carried(b, lg, ul, online, secret) => Carried(c, lg, ul, online, secret)
         /\ OneEach(b, lg) => OneEach(c, lg)
         /\ \A u : Free(b, lg, u) => Free(c, lg, u)
<1>0. \A t, m, k : <<t, m>> \in P => ~Bears(t, m, k)
  <2> SUFFICES ASSUME NEW t, NEW m, NEW k, <<t, m>> \in P PROVE ~Bears(t, m, k)
    OBVIOUS
  <2>1. ~Bears(<<t, m>>[1], <<t, m>>[2], k)
    OBVIOUS
  <2> QED
    BY <2>1
<1>1. \A t \in All : Len(b[t]) \in Nat /\ Len(c[t]) \in Nat
  BY BoxLen DEF Mail
<1>2. \A t \in Service : \E d \in Nat : \A i \in 1 .. Len(c[t]) : \A k :
        Bears(t, c[t][i], k) => i + d \in 1 .. Len(b[t]) /\ c[t][i] = b[t][i + d]
  <2> SUFFICES ASSUME NEW t \in Service
               PROVE  \E d \in Nat : \A i \in 1 .. Len(c[t]) : \A k :
                        Bears(t, c[t][i], k) =>
                          i + d \in 1 .. Len(b[t]) /\ c[t][i] = b[t][i + d]
    OBVIOUS
  <2>1. t \in All
    BY ServicesApart
  <2>2. PICK d \in 0 .. Len(b[t]) : \A i \in 1 .. Len(c[t]) :
          \/ i + d <= Len(b[t]) /\ c[t][i] = b[t][i + d]
          \/ i + d > Len(b[t]) /\ <<t, c[t][i]>> \in P
    BY <2>1 DEF Mail
  <2> d \in Nat
    OBVIOUS
  <2> WITNESS d \in Nat
  <2> TAKE i \in 1 .. Len(c[t])
  <2> TAKE k
  <2> HAVE Bears(t, c[t][i], k)
  <2>3. i + d <= Len(b[t]) /\ c[t][i] = b[t][i + d]
    BY <1>0, <2>2
  <2> QED
    BY <1>1, <2>1, <2>3
<1>3. Carried(b, lg, ul, online, secret) => Carried(c, lg, ul, online, secret)
  BY <1>2 DEF Carried
<1>4. ASSUME NEW u, Free(b, lg, u)
      PROVE  Free(c, lg, u)
  BY <1>2, <1>4 DEF Free
<1>5. ASSUME OneEach(b, lg)
      PROVE  OneEach(c, lg)
  <2> SUFFICES ASSUME NEW s \in Service, NEW t \in Service,
                      NEW i \in 1 .. Len(c[s]), NEW j \in 1 .. Len(c[t]), NEW k, NEW n,
                      Bears(s, c[s][i], k), Bears(t, c[t][j], n), lg[k].user = lg[n].user
               PROVE  s = t /\ i = j
    BY DEF OneEach
  <2>1. PICK d \in Nat : \A x \in 1 .. Len(c[s]) : \A y :
          Bears(s, c[s][x], y) => x + d \in 1 .. Len(b[s]) /\ c[s][x] = b[s][x + d]
    BY <1>2
  <2>2. PICK f \in Nat : \A x \in 1 .. Len(c[t]) : \A y :
          Bears(t, c[t][x], y) => x + f \in 1 .. Len(b[t]) /\ c[t][x] = b[t][x + f]
    BY <1>2
  <2>3. i + d \in 1 .. Len(b[s]) /\ Bears(s, b[s][i + d], k)
    BY <2>1
  <2>4. s = t
    <3>1. j + f \in 1 .. Len(b[t]) /\ Bears(t, b[t][j + f], n)
      BY <2>2
    <3> QED
      BY <1>5, <2>3, <3>1 DEF OneEach
  <2>5. j + d \in 1 .. Len(b[s]) /\ Bears(s, b[s][j + d], n)
    BY <2>1, <2>4
  <2>6. i + d = j + d
    BY <1>5, <2>3, <2>5 DEF OneEach
  <2>7. i \in Nat /\ j \in Nat
    BY <1>1, ServicesApart
  <2> QED
    BY <2>4, <2>6, <2>7
<1> QED
  BY <1>3, <1>4, <1>5

(* A service takes the message that bears a login: then its user is free.  *)
LEMMA TakeLogin ==
  ASSUME IsBox(box), NEW s \in Service, box[s] # <<>>, NEW lg, OneEach(box, lg),
         NEW k, Bears(s, Msg(s), k)
  PROVE  Free(Rest(s), lg, lg[k].user)
<1> DEFINE c == Rest(s)
<1>0. s \in All
  BY ServicesApart
<1>1. /\ IsBox(c) /\ Len(c[s]) = Len(box[s]) - 1 /\ Len(box[s]) > 0
      /\ \A t \in All \ {s} : c[t] = box[t]
      /\ \A i \in 1 .. Len(c[s]) : c[s][i] = box[s][i + 1]
      /\ Msg(s) = box[s][1]
  BY <1>0, RestFacts
<1> HIDE DEF c
<1> SUFFICES ASSUME NEW t \in Service, NEW i \in 1 .. Len(c[t]), NEW n,
                    Bears(t, c[t][i], n), lg[n].user = lg[k].user
             PROVE  FALSE
  BY DEF Free, c
<1>2. Len(box[s]) \in Nat /\ Len(c[s]) \in Nat
  BY <1>0, <1>1, BoxLen
<1>3. 1 \in 1 .. Len(box[s]) /\ Bears(s, box[s][1], k)
  BY <1>1, <1>2
<1>4. CASE t = s
  <2>1. i + 1 \in 1 .. Len(box[s]) /\ Bears(s, box[s][i + 1], n)
    BY <1>1, <1>2, <1>4
  <2>2. 1 = i + 1
    BY <1>3, <2>1 DEF OneEach
  <2> QED
    BY <1>2, <1>4, <2>2
<1>5. CASE t # s
  <2>1. c[t] = box[t]
    BY <1>1, <1>5, ServicesApart
  <2> QED
    BY <1>3, <1>5, <2>1 DEF OneEach
<1> QED
  BY <1>4, <1>5

(* A message that bears a login of a free user is sent. *)
LEMMA SendLogin ==
  ASSUME NEW b, IsBox(b), NEW to \in Service, NEW m, NEW k,
         \A n : Bears(to, m, n) => n = k,
         NEW lg, NEW ul, NEW online, NEW secret,
         Carried(b, lg, ul, online, secret), OneEach(b, lg), Free(b, lg, lg[k].user),
         Holds(to, m, k, lg, ul, online, secret)
  PROVE  /\ Carried(Send(b, to, m), lg, ul, online, secret)
         /\ OneEach(Send(b, to, m), lg)
<1> DEFINE c == Send(b, to, m)
<1>0. to \in All
  BY ServicesApart
<1>1. /\ IsBox(c) /\ \A t \in All \ {to} : c[t] = b[t]
      /\ \/ c[to] = b[to]
         \/ /\ Len(c[to]) = Len(b[to]) + 1 /\ c[to][Len(b[to]) + 1] = m
            /\ \A i \in 1 .. Len(b[to]) : c[to][i] = b[to][i]
  BY <1>0, SendFacts
<1> HIDE DEF c
<1>2. Len(b[to]) \in Nat
  BY <1>0, BoxLen
<1>3. \A t \in Service : \A i \in 1 .. Len(c[t]) :
        \/ i \in 1 .. Len(b[t]) /\ c[t][i] = b[t][i]
        \/ t = to /\ i = Len(b[to]) + 1 /\ c[t][i] = m
  <2> SUFFICES ASSUME NEW t \in Service, NEW i \in 1 .. Len(c[t])
               PROVE  \/ i \in 1 .. Len(b[t]) /\ c[t][i] = b[t][i]
                      \/ t = to /\ i = Len(b[to]) + 1 /\ c[t][i] = m
    OBVIOUS
  <2>1. t # to => c[t] = b[t]
    BY <1>1, ServicesApart
  <2> QED
    BY <1>1, <1>2, <2>1
<1>4. Carried(c, lg, ul, online, secret)
  <2> SUFFICES ASSUME NEW t \in Service, NEW i \in 1 .. Len(c[t]), NEW n, Bears(t, c[t][i], n)
               PROVE  Holds(t, c[t][i], n, lg, ul, online, secret)
    BY DEF Carried
  <2> QED
    BY <1>3 DEF Carried
<1>5. OneEach(c, lg)
  <2> SUFFICES ASSUME NEW s \in Service, NEW t \in Service,
                      NEW i \in 1 .. Len(c[s]), NEW j \in 1 .. Len(c[t]), NEW x, NEW y,
                      Bears(s, c[s][i], x), Bears(t, c[t][j], y), lg[x].user = lg[y].user
               PROVE  s = t /\ i = j
    BY DEF OneEach
  <2>1. CASE s = to /\ i = Len(b[to]) + 1 /\ c[s][i] = m
    <3>1. lg[y].user = lg[k].user
      BY <2>1
    <3>2. ~(j \in 1 .. Len(b[t]) /\ c[t][j] = b[t][j])
      BY <3>1 DEF Free
    <3> QED
      BY <1>3, <2>1, <3>2
  <2>2. CASE t = to /\ j = Len(b[to]) + 1 /\ c[t][j] = m
    <3>1. lg[x].user = lg[k].user
      BY <2>2
    <3>2. ~(i \in 1 .. Len(b[s]) /\ c[s][i] = b[s][i])
      BY <3>1 DEF Free
    <3> QED
      BY <1>3, <2>2, <3>2
  <2>3. CASE /\ i \in 1 .. Len(b[s]) /\ c[s][i] = b[s][i]
             /\ j \in 1 .. Len(b[t]) /\ c[t][j] = b[t][j]
    BY <2>3 DEF OneEach
  <2> QED
    BY <1>3, <2>1, <2>2, <2>3
<1> QED
  BY <1>4, <1>5 DEF c

LEMMA SameUsers ==
  ASSUME NEW b, NEW lg, NEW l2, OneEach(b, lg),
         \A s \in Service : \A i \in 1 .. Len(b[s]) : \A k :
           Bears(s, b[s][i], k) => l2[k].user = lg[k].user
  PROVE  OneEach(b, l2)
<1>1. ASSUME NEW s \in Service, NEW t \in Service,
             NEW i \in 1 .. Len(b[s]), NEW j \in 1 .. Len(b[t]), NEW x, NEW y,
             Bears(s, b[s][i], x), Bears(t, b[t][j], y), l2[x].user = l2[y].user
      PROVE  s = t /\ i = j
  <2>1. lg[x].user = lg[y].user
    BY <1>1
  <2> QED
    BY <1>1, <2>1 DEF OneEach
<1>2. \A s, t \in Service : \A i \in 1 .. Len(b[s]), j \in 1 .. Len(b[t]) : \A k, n :
        Bears(s, b[s][i], k) /\ Bears(t, b[t][j], n) /\ l2[k].user = l2[n].user
          => s = t /\ i = j
  BY <1>1
<1> QED
  BY <1>2, Zenon DEF OneEach

(* What is kept of one free user changes. *)
OnlyUser(u, lg, ul, online, secret, l2, u2, o2, s2) ==
  /\ Len(lg) \in Nat /\ Len(l2) \in Nat /\ Len(lg) <= Len(l2)
  /\ \A k \in 1 .. Len(lg) : l2[k].user = lg[k].user
  /\ ul \subseteq u2 \cup {u}
  /\ \A v : v \in ul /\ v # u => o2[v] = online[v] /\ s2[v] = secret[v]

LEMMA FreeChange ==
  ASSUME NEW b, NEW u,
         NEW lg, NEW ul, NEW online, NEW secret, Carried(b, lg, ul, online, secret),
         NEW l2, NEW u2, NEW o2, NEW s2, Free(b, lg, u),
         OnlyUser(u, lg, ul, online, secret, l2, u2, o2, s2)
  PROVE  /\ Carried(b, l2, u2, o2, s2)
         /\ OneEach(b, lg) => OneEach(b, l2)
         /\ \A v : Free(b, lg, v) => Free(b, l2, v)
<1>1. \A s \in Service : \A i \in 1 .. Len(b[s]) : \A k :
        Bears(s, b[s][i], k) =>
          /\ Holds(s, b[s][i], k, lg, ul, online, secret) /\ lg[k].user # u
          /\ k \in 1 .. Len(lg) /\ l2[k].user = lg[k].user
          /\ lg[k].user \in ul
  BY DEF Carried, Free, Holds, OnlyUser
<1>2. Carried(b, l2, u2, o2, s2)
  <2> SUFFICES ASSUME NEW s \in Service, NEW i \in 1 .. Len(b[s]), NEW k, Bears(s, b[s][i], k)
               PROVE  Holds(s, b[s][i], k, l2, u2, o2, s2)
    BY DEF Carried
  <2>1. /\ Holds(s, b[s][i], k, lg, ul, online, secret) /\ lg[k].user # u
        /\ k \in 1 .. Len(lg) /\ l2[k].user = lg[k].user /\ lg[k].user \in ul
    BY <1>1
  <2>2. k \in 1 .. Len(l2) /\ l2[k].user \in u2
    BY <2>1 DEF OnlyUser
  <2>3. o2[l2[k].user] = online[lg[k].user] /\ s2[l2[k].user] = secret[lg[k].user]
    BY <2>1 DEF OnlyUser
  <2> QED
    BY <2>1, <2>2, <2>3 DEF Holds
<1>3. OneEach(b, lg) => OneEach(b, l2)
  BY <1>1, SameUsers
<1>4. \A v : Free(b, lg, v) => Free(b, l2, v)
  <2> SUFFICES ASSUME NEW v, Free(b, lg, v), NEW s \in Service, NEW i \in 1 .. Len(b[s]),
                      NEW k, Bears(s, b[s][i], k)
               PROVE  l2[k].user # v
    BY DEF Free
  <2> QED
    BY <1>1 DEF Free
<1> QED
  BY <1>2, <1>3, <1>4

-----------------------------------------------------------------------------
(* Steps of the login protocol. *)

(* Steps that bear no login and leave the books alone. *)
LEMMA LoginsQuiet ==
  ASSUME Boxes, Logins, NEW P, Mail(box, box', P),
         \A p \in P : \A k : ~Bears(p[1], p[2], k),
         UNCHANGED <<lvars, user_secret>>
  PROVE  Logins'
<1>1. IsBox(box)
  BY DEF Boxes
<1>2. /\ Carried(box, login, user_login, user_online, user_secret)
      /\ OneEach(box, login)
  BY DEF Logins
<1>3. /\ Carried(box', login, user_login, user_online, user_secret)
      /\ OneEach(box', login)
  BY <1>1, <1>2, QuietMail
<1>4. /\ Carried(box, login, user_login, user_online, user_secret)'
      /\ OneEach(box, login)'
  BY <1>3 DEF lvars
<1>5. OnlineHasSecret' /\ NeverAlreadyOnline'
  BY DEF Logins, OnlineHasSecret, NeverAlreadyOnline, lvars
<1> QED
  BY <1>4, <1>5 DEF Logins

(* The login that the first message of a service bears. *)
LEMMA HeadLogin ==
  ASSUME Boxes, Logins, NEW s \in Service, NEW name, Head1(s, name), NEW k,
         Bears(s, Msg(s), k)
  PROVE  /\ Fine(s, Msg(s))
         /\ Holds(s, Msg(s), k, login, user_login, user_online, user_secret)
         /\ IsBox(Rest(s)) /\ Mail(box, Rest(s), {})
         /\ Carried(Rest(s), login, user_login, user_online, user_secret)
         /\ OneEach(Rest(s), login)
         /\ Free(Rest(s), login, login[k].user)
<1>1. IsBox(box) /\ s \in All
  BY ServicesApart DEF Boxes
<1>2. /\ box[s] # <<>> /\ 1 \in 1 .. Len(box[s]) /\ Msg(s) = box[s][1]
      /\ Has(box[s], Msg(s))
  BY <1>1, HeadFacts
<1>3. Fine(s, Msg(s))
  BY <1>1, <1>2 DEF Boxes
<1>4. /\ Carried(box, login, user_login, user_online, user_secret) /\ OneEach(box, login)
  BY DEF Logins
<1>5. Holds(s, Msg(s), k, login, user_login, user_online, user_secret)
  BY <1>2, <1>4 DEF Carried
<1>6. Mail(box, Rest(s), {}) /\ IsBox(Rest(s))
  BY <1>1, <1>2, RestMail, RestFacts
<1>7. /\ Carried(Rest(s), login, user_login, user_online, user_secret)
      /\ OneEach(Rest(s), login)
  BY <1>1, <1>4, <1>6, QuietMail
<1>8. Free(Rest(s), login, login[k].user)
  BY <1>1, <1>2, <1>4, TakeLogin
<1> QED
  BY <1>3, <1>5, <1>6, <1>7, <1>8

(* The login protocol's steps, seen from the mailboxes: the message that   *)
(* bore login k was taken from c; it is free, or sent on.                  *)
LEMMA LoginsAfter ==
  ASSUME NEW c, IsBox(c), NEW k, NEW u, login'[k].user = u,
         Carried(c, login, user_login, user_online, user_secret), OneEach(c, login),
         Free(c, login, u),
         OnlyUser(u, login, user_login, user_online, user_secret,
                  login', user_login', user_online', user_secret'),
         \/ box' = c
         \/ \E to \in Service : \E m :
              /\ box' = Send(c, to, m)
              /\ \A n : Bears(to, m, n) => n = k
              /\ Holds(to, m, k, login', user_login', user_online', user_secret')
  PROVE  /\ Carried(box', login', user_login', user_online', user_secret')
         /\ OneEach(box', login')
<1>1. /\ Carried(c, login', user_login', user_online', user_secret')
      /\ OneEach(c, login') /\ Free(c, login', u)
  BY FreeChange
<1>2. CASE box' = c
  BY <1>1, <1>2
<1>3. ASSUME NEW to \in Service, NEW m, box' = Send(c, to, m),
             \A n : Bears(to, m, n) => n = k,
             Holds(to, m, k, login', user_login', user_online', user_secret')
      PROVE  /\ Carried(box', login', user_login', user_online', user_secret')
             /\ OneEach(box', login')
  BY <1>1, <1>3, SendLogin
<1> QED
  BY <1>2, <1>3

LEMMA AppendAny ==
  ASSUME NEW S, NEW s \in Seq(S), NEW e
  PROVE  /\ Append(s, e) \in Seq(S \cup {e}) /\ Len(s) \in Nat
         /\ Len(Append(s, e)) = Len(s) + 1 /\ Append(s, e)[Len(s) + 1] = e
         /\ \A i \in 1 .. Len(s) : Append(s, e)[i] = s[i]
         /\ DOMAIN Append(s, e) = 1 .. Len(s) + 1
<1> DEFINE T == S \cup {e}
<1>1. s \in Seq(T) /\ e \in T
  OBVIOUS
<1>2. Append(s, e) \in Seq(T)
  BY <1>1, AppendProperties
<1>3. /\ Len(Append(s, e)) = Len(s) + 1 /\ Append(s, e)[Len(s) + 1] = e
      /\ \A i \in 1 .. Len(s) : Append(s, e)[i] = s[i]
  BY <1>1, AppendProperties
<1> QED
  BY <1>2, <1>3

(* Messages and the logins they bear. *)
LEMMA BearsWhat ==
  ASSUME NEW u, NEW k, NEW n, NEW f, NEW a
  PROVE  /\ Bears(watchdog, <<"kick", u, k>>, n) <=> n = k
         /\ Bears(watchdog, <<"login", u, k>>, n) <=> n = k
         /\ Bears(watchdog, <<"logged_out", u, k>>, n) <=> n = k
         /\ Bears(logind, <<"kicked", k>>, n) <=> n = k
         /\ Bears(logind, <<"subid", k, u>>, n) <=> n = k
         /\ Bears(logind, <<"logout", u, k>>, n) <=> n = k
         /\ Bears(watchdog, <<"gate_kicked", a, <<"kick", k>> >>, n) <=> n = k
         /\ Bears(gate, <<"kick", f, a, <<"kick", k>> >>, n) <=> n = k
BY SessionAssumption DEF Bears

LEMMA LoginTypes ==
  ASSUME Types
  PROVE  /\ login \in Seq(LoginRecord) /\ Len(login) \in Nat /\ DOMAIN login = 1 .. Len(login)
         /\ \A k \in 1 .. Len(login) :
              /\ login[k] \in LoginRecord
              /\ login[k].user \in User /\ login[k].subid \in Nat
<1>1. login \in Seq(LoginRecord)
  BY DEF Types
<1>2. \A k \in 1 .. Len(login) : login[k] \in LoginRecord
  BY <1>1, ElementOfSeq
<1> QED
  BY <1>1, <1>2 DEF LoginRecord

(* A login gets an answer, and perhaps its subid. *)
LEMMA SetField ==
  ASSUME NEW r \in LoginRecord, NEW p \in PC, NEW s \in Nat
  PROVE  /\ [r EXCEPT !.pc = p] \in LoginRecord
         /\ [r EXCEPT !.pc = p].user = r.user /\ [r EXCEPT !.pc = p].pc = p
         /\ [r EXCEPT !.subid = s] \in LoginRecord
         /\ [r EXCEPT !.subid = s].user = r.user /\ [r EXCEPT !.subid = s].pc = r.pc
BY DEF LoginRecord

Sets(l, l2, k, p) ==
  /\ l2 \in Seq(LoginRecord) /\ Len(l2) = Len(l) /\ DOMAIN l2 = 1 .. Len(l)
  /\ \A n \in 1 .. Len(l) : /\ l2[n].user = l[n].user
                            /\ l2[n].pc = IF n = k THEN p ELSE l[n].pc

LEMMA SetRecord ==
  ASSUME NEW l \in Seq(LoginRecord), NEW k \in 1 .. Len(l), NEW r \in LoginRecord,
         r.user = l[k].user
  PROVE  Sets(l, [l EXCEPT ![k] = r], k, r.pc)
<1> DEFINE l2 == [l EXCEPT ![k] = r]
<1>1. /\ l2 \in Seq(LoginRecord) /\ Len(l2) = Len(l)
      /\ \A n \in 1 .. Len(l) : l2[n] = IF n = k THEN r ELSE l[n]
  BY ExceptSeq
<1> HIDE DEF l2
<1>2. Sets(l, l2, k, r.pc)
  BY <1>1 DEF Sets
<1> QED
  BY <1>2 DEF l2

LEMMA SetPc ==
  ASSUME NEW l \in Seq(LoginRecord), NEW k \in 1 .. Len(l), NEW p \in PC
  PROVE  Sets(l, [l EXCEPT ![k].pc = p], k, p)
<1> DEFINE r == [l[k] EXCEPT !.pc = p]
<1>1. l[k] \in LoginRecord
  BY ElementOfSeq
<1>2. r \in LoginRecord /\ r.user = l[k].user /\ r.pc = p
  BY <1>1, SetField
<1>3. [l EXCEPT ![k].pc = p] = [l EXCEPT ![k] = r]
  OBVIOUS
<1> HIDE DEF r
<1>4. Sets(l, [l EXCEPT ![k] = r], k, r.pc)
  BY <1>2, SetRecord
<1> QED
  BY <1>2, <1>3, <1>4, Zenon

LEMMA SetPcSubid ==
  ASSUME NEW l \in Seq(LoginRecord), NEW k \in 1 .. Len(l), NEW p \in PC, NEW s \in Nat
  PROVE  Sets(l, [l EXCEPT ![k].pc = p, ![k].subid = s], k, p)
<1> DEFINE q == [l[k] EXCEPT !.pc = p]
           r == [q EXCEPT !.subid = s]
<1>1. l[k] \in LoginRecord
  BY ElementOfSeq
<1>2. q \in LoginRecord /\ q.user = l[k].user /\ q.pc = p
  BY <1>1, SetField
<1>3. r \in LoginRecord /\ r.user = q.user /\ r.pc = q.pc
  <2> HIDE DEF q
  <2> QED
    BY <1>2, SetField
<1>4. [l EXCEPT ![k].pc = p, ![k].subid = s] = [l EXCEPT ![k] = r]
  OBVIOUS
<1> HIDE DEF q, r
<1>5. Sets(l, [l EXCEPT ![k] = r], k, r.pc)
  BY <1>2, <1>3, SetRecord
<1> QED
  BY <1>2, <1>3, <1>4, <1>5, Zenon

LEMMA LoginsAccept ==
  ASSUME Types, Boxes, Logins, NEW u \in User, accept(u)
  PROVE  Logins'
<1> DEFINE k == Len(login) + 1
           pc == IF u \in user_login THEN "406"
                 ELSE IF user_online[u] # 0 THEN "kick" ELSE "login"
           r == [user |-> u, pc |-> pc, subid |-> 0]
           m == <<pc, u, k>>
<1>1. /\ Len(login') = k /\ login'[k] = r /\ \A n \in 1 .. Len(login) : login'[n] = login[n]
      /\ Len(login) \in Nat /\ DOMAIN login' = 1 .. k
  <2>2. login' = Append(login, r)
    BY DEF accept
  <2> QED
    BY <2>2, AppendAny DEF Types
<1>2. r.user = u /\ r.pc = pc /\ pc # "403"
  OBVIOUS
<1>3. /\ user_login' = user_login \cup {u} /\ user_online' = user_online
      /\ user_secret' = user_secret
      /\ box' = IF pc = "406" THEN box ELSE Send(box, watchdog, m)
      /\ pc \in {"406", "kick", "login"} /\ (pc = "406" => u \in user_login)
      /\ (pc # "406" => u \notin user_login)
  BY DEF accept, wvars
<1> HIDE DEF pc, r
<1>4. /\ IsBox(box) /\ Carried(box, login, user_login, user_online, user_secret)
      /\ OneEach(box, login) /\ OnlineHasSecret /\ NeverAlreadyOnline
  BY DEF Boxes, Logins
<1>5. \A v : v \notin user_login => Free(box, login, v)
  BY <1>4 DEF Carried, Free, Holds
<1>6. \A v : OnlyUser(v, login, user_login, user_online, user_secret,
                      login', user_login', user_online', user_secret')
  BY <1>1, <1>3 DEF OnlyUser
<1>7. /\ Carried(box', login', user_login', user_online', user_secret')
      /\ OneEach(box', login')
  <2>1. CASE pc = "406"
    <3>1. Free(box, login, Nil)
      BY <1>5, SessionAssumption DEF Types
    <3> QED
      BY <1>3, <1>4, <1>6, <2>1, <3>1, FreeChange
  <2>2. CASE pc # "406"
    <3>1. Free(box, login, u) /\ box' = Send(box, watchdog, m) /\ watchdog \in Service
      BY <1>3, <1>5, <2>2 DEF Service
    <3>2. \A n : Bears(watchdog, m, n) => n = k
      <4>1. m[1] \in {"kick", "login", "logged_out"} /\ m[3] = k
        BY <1>3, <2>2
      <4> QED
        BY <4>1, SessionAssumption DEF Bears
    <3>3. Holds(watchdog, m, k, login', user_login', user_online', user_secret')
      <4>1. /\ m[1] \in {"kick", "login"} /\ m[2] = u /\ k \in 1 .. Len(login')
            /\ login'[k].user = u /\ u \in user_login' /\ watchdog # gate
        BY <1>1, <1>2, <1>3, <2>2, SessionAssumption
      <4> QED
        BY <4>1 DEF Holds
    <3>4. login'[k].user = u
      BY <1>1, <1>2
    <3> QED
      BY <1>4, <1>6, <3>1, <3>2, <3>3, <3>4, LoginsAfter
  <2> QED
    BY <2>1, <2>2
<1>8. NeverAlreadyOnline'
  <2>1. \A n \in 1 .. Len(login) : login[n].pc # "403"
    BY <1>4, LoginTypes DEF NeverAlreadyOnline
  <2> QED
    BY <1>1, <1>2, <2>1 DEF NeverAlreadyOnline
<1>9. OnlineHasSecret'
  BY <1>3, <1>4 DEF OnlineHasSecret
<1> QED
  BY <1>7, <1>8, <1>9 DEF Logins

LEMMA LoginsKicked ==
  ASSUME Types, Boxes, Logins, login_handler_kicked
  PROVE  /\ Logins'
         /\ \E k \in 1 .. Len(login) :
              /\ Sets(login, login', k, "login") /\ user_login' = user_login
              /\ box' = Send(Rest(logind), watchdog, <<"login", login[k].user, k>>)
<1> DEFINE k == Msg(logind)[2]
           u == login[k].user
           m == <<"login", u, k>>
           c == Rest(logind)
<1>0. /\ Head1(logind, "kicked") /\ logind \in Service /\ watchdog \in Service
      /\ UNCHANGED <<user_online, user_secret>>
  BY DEF login_handler_kicked, Service, wvars
<1>1. Bears(logind, Msg(logind), k) /\ Msg(logind)[1] = "kicked"
  BY <1>0 DEF Head1, Msg, Bears
<1>2. /\ Holds(logind, Msg(logind), k, login, user_login, user_online, user_secret)
      /\ IsBox(c) /\ Carried(c, login, user_login, user_online, user_secret)
      /\ OneEach(c, login) /\ Free(c, login, u)
  BY <1>0, <1>1, HeadLogin
<1>3. k \in 1 .. Len(login) /\ u \in user_login /\ user_online[u] = 0
  BY <1>1, <1>2 DEF Holds
<1>4. /\ login' = [login EXCEPT ![k].pc = "login"] /\ user_login' = user_login
      /\ box' = Send(c, watchdog, m)
  BY <1>3 DEF login_handler_kicked
<1> HIDE DEF k, c
<1>a. Sets(login, login', k, "login")
  <2>1. "login" \in PC /\ login \in Seq(LoginRecord)
    BY LoginTypes DEF PC
  <2> QED
    BY <1>3, <1>4, <2>1, SetPc, Zenon
<1>5. /\ Len(login') = Len(login) /\ DOMAIN login' = DOMAIN login
      /\ \A n \in 1 .. Len(login) : login'[n].user = login[n].user
      /\ \A n \in 1 .. Len(login) : login'[n].pc = IF n = k THEN "login" ELSE login[n].pc
  BY <1>a, LoginTypes DEF Sets
<1>6. OnlyUser(u, login, user_login, user_online, user_secret,
               login', user_login', user_online', user_secret')
  BY <1>0, <1>4, <1>5, LoginTypes DEF OnlyUser
<1>7. \A n : Bears(watchdog, m, n) => n = k
  BY SessionAssumption DEF Bears
<1>8. Holds(watchdog, m, k, login', user_login', user_online', user_secret')
  <2>1. /\ m[1] = "login" /\ m[2] = u /\ k \in 1 .. Len(login')
        /\ login'[k].user = u /\ u \in user_login' /\ watchdog # gate
    BY <1>3, <1>4, <1>5, SessionAssumption
  <2> QED
    BY <2>1 DEF Holds
<1>9. /\ Carried(box', login', user_login', user_online', user_secret')
      /\ OneEach(box', login')
  <2>1. login'[k].user = u
    BY <1>3, <1>5
  <2> QED
    BY <1>0, <1>2, <1>4, <1>6, <1>7, <1>8, <2>1, LoginsAfter
<1>10. NeverAlreadyOnline'
  BY <1>5, LoginTypes DEF NeverAlreadyOnline, Logins
<1>11. OnlineHasSecret'
  BY <1>0, <1>4 DEF OnlineHasSecret, Logins
<1> QED
  BY <1>3, <1>4, <1>a, <1>9, <1>10, <1>11 DEF Logins, c

LEMMA LoginsDone ==
  ASSUME Types, Boxes, Logins, login_handler_done
  PROVE  /\ Logins'
         /\ Mail(box, box', {})
         /\ \E k \in 1 .. Len(login), s \in Nat :
              /\ Sets(login, login', k, "200")
              /\ user_online' = [user_online EXCEPT ![login[k].user] = s]
<1> DEFINE k == Msg(logind)[2]
           s == Msg(logind)[3]
           u == login[k].user
           c == Rest(logind)
<1>0. /\ Head1(logind, "subid") /\ logind \in Service
      /\ login' = [login EXCEPT ![k].pc = "200", ![k].subid = s]
      /\ user_online' = [user_online EXCEPT ![u] = s]
      /\ user_login' = user_login \ {u}
      /\ box' = c /\ user_secret' = user_secret
  BY DEF login_handler_done, Service, wvars
<1>1. Bears(logind, Msg(logind), k) /\ Msg(logind)[1] = "subid"
  BY <1>0 DEF Head1, Msg, Bears
<1>2. /\ Holds(logind, Msg(logind), k, login, user_login, user_online, user_secret)
      /\ IsBox(c) /\ Carried(c, login, user_login, user_online, user_secret)
      /\ OneEach(c, login) /\ Free(c, login, u) /\ Mail(box, c, {})
      /\ Fine(logind, Msg(logind))
  BY <1>0, <1>1, HeadLogin
<1>3. k \in 1 .. Len(login) /\ u \in user_login /\ user_secret[u] = s
  BY <1>1, <1>2 DEF Holds
<1>4. s \in Nat
  BY <1>1, <1>2 DEF Fine, FineAtLogind
<1> HIDE DEF k, c, s
<1>a. Sets(login, login', k, "200")
  <2>1. "200" \in PC /\ login \in Seq(LoginRecord)
    BY LoginTypes DEF PC
  <2> QED
    BY <1>0, <1>3, <1>4, <2>1, SetPcSubid, Zenon
<1>5. /\ Len(login') = Len(login) /\ DOMAIN login' = DOMAIN login
      /\ \A n \in 1 .. Len(login) : login'[n].user = login[n].user
      /\ \A n \in 1 .. Len(login) : login'[n].pc = IF n = k THEN "200" ELSE login[n].pc
  BY <1>a, LoginTypes DEF Sets
<1>6. OnlyUser(u, login, user_login, user_online, user_secret,
               login', user_login', user_online', user_secret')
  BY <1>0, <1>5, LoginTypes DEF OnlyUser, Types
<1>9. /\ Carried(box', login', user_login', user_online', user_secret')
      /\ OneEach(box', login')
  <2>1. login'[k].user = u
    BY <1>3, <1>5
  <2> QED
    BY <1>0, <1>2, <1>6, <2>1, LoginsAfter
<1>10. NeverAlreadyOnline'
  BY <1>5, LoginTypes DEF NeverAlreadyOnline, Logins
<1>11. OnlineHasSecret'
  BY <1>0, <1>3 DEF OnlineHasSecret, Logins, Types
<1> QED
  BY <1>0, <1>2, <1>3, <1>4, <1>a, <1>9, <1>10, <1>11 DEF Logins

(* The books are changed for the user of login k only, who is locked; the  *)
(* login goes on in message m.                                             *)
LEMMA LoginsSent ==
  ASSUME Types, Logins, NEW c, IsBox(c), NEW k \in 1 .. Len(login),
         login[k].user \in user_login,
         Carried(c, login, user_login, user_online, user_secret), OneEach(c, login),
         Free(c, login, login[k].user),
         UNCHANGED <<login, user_login>>,
         \A v : v # login[k].user =>
                  user_online'[v] = user_online[v] /\ user_secret'[v] = user_secret[v],
         NEW to \in Service, NEW m, box' = Send(c, to, m),
         \A n : Bears(to, m, n) => n = k,
         Holds(to, m, k, login, user_login, user_online', user_secret')
  PROVE  Logins'
<1>1. OnlyUser(login[k].user, login, user_login, user_online, user_secret,
               login', user_login', user_online', user_secret')
  BY LoginTypes DEF OnlyUser
<1>2. Holds(to, m, k, login', user_login', user_online', user_secret')
  OBVIOUS
<1>3. /\ Carried(box', login', user_login', user_online', user_secret')
      /\ OneEach(box', login')
  BY <1>1, <1>2, LoginsAfter
<1>4. NeverAlreadyOnline'
  BY DEF NeverAlreadyOnline, Logins
<1>5. OnlineHasSecret'
  BY DEF OnlineHasSecret, Logins
<1> QED
  BY <1>3, <1>4, <1>5 DEF Logins

LEMMA LoginsLogout ==
  ASSUME Types, Boxes, Logins, CMD_logout
  PROVE  /\ Logins'
         /\ \E k \in Nat, u \in User :
              /\ user_online' = [user_online EXCEPT ![u] = 0]
              /\ box' = Send(Rest(logind), watchdog, <<"logged_out", u, k>>)
<1> DEFINE k == Msg(logind)[3]
           u == Msg(logind)[2]
           m == <<"logged_out", u, k>>
           c == Rest(logind)
<1>0. /\ Head1(logind, "logout") /\ logind \in Service /\ watchdog \in Service
      /\ UNCHANGED <<login, user_login, user_secret>>
      /\ user_online' = [user_online EXCEPT ![u] = 0]
      /\ box' = Send(c, watchdog, m)
  BY DEF CMD_logout, Service, wvars
<1>1. Bears(logind, Msg(logind), k) /\ Msg(logind)[1] = "logout"
  BY <1>0 DEF Head1, Msg, Bears
<1>2. /\ Holds(logind, Msg(logind), k, login, user_login, user_online, user_secret)
      /\ IsBox(c) /\ Carried(c, login, user_login, user_online, user_secret)
      /\ OneEach(c, login) /\ Free(c, login, login[k].user)
  BY <1>0, <1>1, HeadLogin
<1>3. k \in 1 .. Len(login) /\ login[k].user \in user_login /\ u = login[k].user
  BY <1>1, <1>2 DEF Holds
<1> HIDE DEF k, u, c
<1>4. \A n : Bears(watchdog, m, n) => n = k
  BY SessionAssumption DEF Bears
<1>5. /\ u \in User /\ user_online'[u] = 0 /\ k \in Nat
      /\ \A v : v # u => user_online'[v] = user_online[v]
  BY <1>0, <1>3, LoginTypes DEF Types
<1>6. Holds(watchdog, m, k, login, user_login, user_online', user_secret')
  <2>1. m[1] = "logged_out" /\ m[2] = u
    OBVIOUS
  <2> QED
    BY <1>3, <1>5, <2>1 DEF Holds
<1>7. Logins'
  BY <1>0, <1>2, <1>3, <1>4, <1>5, <1>6, LoginsSent
<1> QED
  BY <1>0, <1>5, <1>7 DEF c

LEMMA LoginsLogin ==
  ASSUME Types, Boxes, Logins, CMD_login
  PROVE  /\ Logins'
         /\ \E k \in Nat, u \in User :
              /\ user_secret' = [user_secret EXCEPT ![u] = subid + 1]
              /\ box' = Send(Rest(watchdog), logind, <<"subid", k, subid + 1>>)
<1> DEFINE k == Msg(watchdog)[3]
           u == Msg(watchdog)[2]
           m == <<"subid", k, subid + 1>>
           c == Rest(watchdog)
<1>0. /\ Head1(watchdog, "login") /\ logind \in Service /\ watchdog \in Service
      /\ UNCHANGED <<login, user_login, user_online>>
      /\ user_secret' = [user_secret EXCEPT ![u] = subid + 1]
      /\ box' = Send(c, logind, m)
  BY DEF CMD_login, Service, lvars
<1>1. Bears(watchdog, Msg(watchdog), k) /\ Msg(watchdog)[1] = "login"
  BY <1>0 DEF Head1, Msg, Bears
<1>2. /\ Holds(watchdog, Msg(watchdog), k, login, user_login, user_online, user_secret)
      /\ IsBox(c) /\ Carried(c, login, user_login, user_online, user_secret)
      /\ OneEach(c, login) /\ Free(c, login, login[k].user)
  BY <1>0, <1>1, HeadLogin
<1>3. k \in 1 .. Len(login) /\ login[k].user \in user_login /\ u = login[k].user
  BY <1>1, <1>2 DEF Holds
<1> HIDE DEF k, u, c
<1>4. \A n : Bears(logind, m, n) => n = k
  BY SessionAssumption DEF Bears
<1>5. /\ u \in User /\ user_secret'[u] = subid + 1 /\ k \in Nat
      /\ \A v : v # u => user_secret'[v] = user_secret[v]
  BY <1>0, <1>3, LoginTypes DEF Types
<1>6. Holds(logind, m, k, login, user_login, user_online', user_secret')
  <2>1. m[1] = "subid" /\ m[3] = subid + 1 /\ logind # watchdog /\ logind # gate
    BY SessionAssumption
  <2> QED
    BY <1>3, <1>5, <2>1 DEF Holds
<1>7. Logins'
  BY <1>0, <1>2, <1>3, <1>4, <1>5, <1>6, LoginsSent
<1> QED
  BY <1>0, <1>5, <1>7 DEF c

LEMMA LoginsKick ==
  ASSUME Types, Boxes, Logins, CMD_kick
  PROVE  /\ Logins'
         /\ \E k \in Nat, u \in User :
              box' = Send(Rest(watchdog), logind, <<"logout", u, k>>)
<1> DEFINE k == Msg(watchdog)[3]
           u == Msg(watchdog)[2]
           m == <<"logout", u, k>>
           c == Rest(watchdog)
<1>0. /\ Head1(watchdog, "kick") /\ logind \in Service /\ watchdog \in Service
      /\ UNCHANGED <<login, user_login, user_online, user_secret>>
      /\ box' = Send(c, logind, m)
  BY DEF CMD_kick, Service, lvars, wvars
<1>1. Bears(watchdog, Msg(watchdog), k) /\ Msg(watchdog)[1] = "kick"
  BY <1>0 DEF Head1, Msg, Bears
<1>2. /\ Holds(watchdog, Msg(watchdog), k, login, user_login, user_online, user_secret)
      /\ IsBox(c) /\ Carried(c, login, user_login, user_online, user_secret)
      /\ OneEach(c, login) /\ Free(c, login, login[k].user)
  BY <1>0, <1>1, HeadLogin
<1>3. k \in 1 .. Len(login) /\ login[k].user \in user_login /\ u = login[k].user
  BY <1>1, <1>2 DEF Holds
<1> HIDE DEF k, u, c
<1>4. \A n : Bears(logind, m, n) => n = k
  BY SessionAssumption DEF Bears
<1>5. u \in User /\ k \in Nat
  BY <1>3, LoginTypes DEF Types
<1>6. Holds(logind, m, k, login, user_login, user_online', user_secret')
  <2>1. m[1] = "logout" /\ m[2] = u /\ logind # watchdog /\ logind # gate
    BY SessionAssumption
  <2> QED
    BY <1>3, <1>5, <2>1 DEF Holds
<1>7. Logins'
  BY <1>0, <1>2, <1>3, <1>4, <1>6, LoginsSent
<1> QED
  BY <1>0, <1>5, <1>7 DEF c

LEMMA LoginsLoggedOut ==
  ASSUME Types, Boxes, Logins, CMD_kick_logged_out
  PROVE  /\ Logins'
         /\ \E u \in User : user_secret' = [user_secret EXCEPT ![u] = 0]
         /\ \E k \in Nat :
              \/ /\ box' = Send(Rest(watchdog), logind, <<"kicked", k>>)
                 /\ UNCHANGED <<session_map, agent>>
              \/ \E fd \in Fd :
                   /\ \/ box' = Send(Rest(watchdog), logind, <<"kicked", k>>)
                      \/ /\ agent[fd] # Nil
                         /\ box' = Send(Rest(watchdog), gate,
                                        <<"kick", fd, agent[fd], <<"kick", k>> >>)
                   /\ session_map' = [session_map EXCEPT ![fd] = Nil]
                   /\ agent' = [agent EXCEPT ![fd] = Nil]
<1> DEFINE k == Msg(watchdog)[3]
           u == Msg(watchdog)[2]
           c == Rest(watchdog)
           done == <<"kicked", k>>
           kick(fd) == <<"kick", fd, agent[fd], <<"kick", k>> >>
<1>0. /\ Head1(watchdog, "logged_out") /\ Service = {logind, watchdog, gate, aoi}
      /\ UNCHANGED <<login, user_login, user_online>>
      /\ user_secret' = [user_secret EXCEPT ![u] = 0]
  BY DEF CMD_kick_logged_out, Service, lvars
<1>1. Bears(watchdog, Msg(watchdog), k) /\ Msg(watchdog)[1] = "logged_out"
  BY <1>0 DEF Head1, Msg, Bears
<1>2. /\ Holds(watchdog, Msg(watchdog), k, login, user_login, user_online, user_secret)
      /\ IsBox(c) /\ Carried(c, login, user_login, user_online, user_secret)
      /\ OneEach(c, login) /\ Free(c, login, login[k].user)
  BY <1>0, <1>1, HeadLogin
<1>3. /\ k \in 1 .. Len(login) /\ login[k].user \in user_login /\ u = login[k].user
      /\ user_online[u] = 0
  BY <1>1, <1>2 DEF Holds
<1>4. \/ box' = Send(c, logind, done) /\ UNCHANGED <<session_map, agent>>
      \/ \E fd \in Fd :
           /\ \/ box' = Send(c, logind, done)
              \/ agent[fd] # Nil /\ box' = Send(c, gate, kick(fd))
           /\ session_map' = [session_map EXCEPT ![fd] = Nil]
           /\ agent' = [agent EXCEPT ![fd] = Nil]
  <2>1. Answer(c, <<"kick", k>>) = Send(c, logind, done)
    BY DEF Answer
  <2>2. CASE {fd \in Fd : session_map[fd] = u} = {}
    BY <2>1, <2>2 DEF CMD_kick_logged_out
  <2>3. CASE {fd \in Fd : session_map[fd] = u} # {}
    <3>1. PICK fd \in Fd : close_agent(fd, <<"kick", k>>)
      BY <2>3 DEF CMD_kick_logged_out
    <3> QED
      BY <2>1, <3>1 DEF close_agent
  <2> QED
    BY <2>2, <2>3
<1> HIDE DEF k, u, c
<1>5. /\ logind \in Service /\ gate \in Service
      /\ \A v : v # login[k].user =>
                user_online'[v] = user_online[v] /\ user_secret'[v] = user_secret[v]
  BY <1>0, <1>3 DEF Types
<1>6. u \in User /\ k \in Nat
  BY <1>3, LoginTypes
<1>7. ASSUME box' = Send(c, logind, done) PROVE Logins'
  <2>1. \A n : Bears(logind, done, n) => n = k
    BY SessionAssumption DEF Bears
  <2>2. Holds(logind, done, k, login, user_login, user_online', user_secret')
    <3>1. done[1] = "kicked" /\ logind # watchdog
      BY SessionAssumption
    <3> QED
      BY <1>0, <1>3, <3>1 DEF Holds
  <2>3. UNCHANGED <<login, user_login>>
    BY <1>0
  <2> HIDE DEF done
  <2> QED
    BY <1>2, <1>3, <1>5, <1>7, <2>1, <2>2, <2>3, LoginsSent
<1>8. ASSUME NEW fd, box' = Send(c, gate, kick(fd)) PROVE Logins'
  <2>1. \A n : Bears(gate, kick(fd), n) => n = k
    BY SessionAssumption DEF Bears
  <2>2. Holds(gate, kick(fd), k, login, user_login, user_online', user_secret')
    <3>1. kick(fd)[1] = "kick" /\ gate # watchdog
      BY SessionAssumption
    <3> QED
      BY <1>0, <1>3, <3>1 DEF Holds
  <2> QED
    BY <1>0, <1>2, <1>3, <1>5, <1>8, <2>1, <2>2, LoginsSent
<1>9. Logins'
  BY <1>4, <1>7, <1>8
<1> QED
  BY <1>0, <1>4, <1>6, <1>9 DEF c

(* An answer that bears a login goes to the login server. *)
LEMMA LoginsGateKick ==
  ASSUME Types, Boxes, Logins, CMD_gate_kick
  PROVE  Logins'
<1> DEFINE x == Msg(gate)[4]
           m == <<"gate_kicked", Msg(gate)[3], x>>
           c == Rest(gate)
<1>0. /\ Head1(gate, "kick") /\ Service = {logind, watchdog, gate, aoi}
      /\ UNCHANGED <<login, user_login, user_online, user_secret>>
      /\ box' = Send(c, watchdog, m)
  BY DEF CMD_gate_kick, Service, lvars, wvars
<1>1. CASE \E k : x = <<"kick", k>>
  <2>1. PICK k : x = <<"kick", k>>
    BY <1>1
  <2>2. Bears(gate, Msg(gate), k) /\ Msg(gate)[1] = "kick"
    BY <1>0, <2>1 DEF Head1, Msg, Bears
  <2>3. /\ Holds(gate, Msg(gate), k, login, user_login, user_online, user_secret)
        /\ IsBox(c) /\ Carried(c, login, user_login, user_online, user_secret)
        /\ OneEach(c, login) /\ Free(c, login, login[k].user)
    BY <1>0, <2>2, HeadLogin
  <2>4. /\ k \in 1 .. Len(login) /\ login[k].user \in user_login
        /\ user_online[login[k].user] = 0
    BY <2>2, <2>3 DEF Holds
  <2> HIDE DEF x, c
  <2>5. \A n : Bears(watchdog, m, n) => n = k
    BY <2>1, SessionAssumption DEF Bears
  <2>6. Holds(watchdog, m, k, login, user_login, user_online', user_secret')
    <3>1. m[1] = "gate_kicked"
      OBVIOUS
    <3> QED
      BY <1>0, <2>4, <3>1 DEF Holds
  <2> QED
    BY <1>0, <2>3, <2>4, <2>5, <2>6, LoginsSent
<1>2. CASE ~\E k : x = <<"kick", k>>
  <2>1. IsBox(box) /\ gate \in All /\ watchdog \in All /\ box[gate] # <<>>
    BY <1>0 DEF Boxes, All, Head1
  <2>2. Mail(box, c, {})
    BY <2>1, RestMail
  <2>3. Mail(box, box', {} \cup {<<watchdog, m>>})
    BY <1>0, <2>1, <2>2, SendMail
  <2>4. \A n : ~Bears(watchdog, m, n)
    BY <1>2, SessionAssumption DEF Bears
  <2>5. \A p \in {} \cup {<<watchdog, m>>} : \A n : ~Bears(p[1], p[2], n)
    BY <2>4
  <2> QED
    BY <1>0, <2>3, <2>5, LoginsQuiet DEF lvars
<1> QED
  BY <1>1, <1>2

(* The callers of close_agent: a login, an agent or nobody. *)
LEMMA AnswerWhat ==
  ASSUME NEW b, NEW x
  PROVE  /\ \A k : x = <<"kick", k>> => Answer(b, x) = Send(b, logind, <<"kicked", k>>)
         /\ \A a : x = <<"agent", a>> => Answer(b, x) = Send(b, a, <<"closed">>)
         /\ x = <<"nobody">> => Answer(b, x) = b
<1>1. ASSUME NEW k, x = <<"kick", k>> PROVE Answer(b, x) = Send(b, logind, <<"kicked", k>>)
  <2>1. x[1] = "kick" /\ x[2] = k
    BY <1>1
  <2> QED
    BY <2>1 DEF Answer
<1>2. ASSUME NEW a, x = <<"agent", a>> PROVE Answer(b, x) = Send(b, a, <<"closed">>)
  <2>1. x[1] = "agent" /\ x[2] = a
    BY <1>2
  <2> QED
    BY <2>1 DEF Answer
<1>3. ASSUME x = <<"nobody">> PROVE Answer(b, x) = b
  <2>1. x[1] = "nobody"
    BY <1>3
  <2> QED
    BY <2>1 DEF Answer
<1> QED
  BY <1>1, <1>2, <1>3

LEMMA LoginsAgentKicked ==
  ASSUME Types, Boxes, Logins, close_agent_kicked
  PROVE  Logins'
<1> DEFINE a == Msg(watchdog)[2]
           x == Msg(watchdog)[3]
           c == Rest(watchdog)
           b == IF a = Nil THEN c ELSE Send(c, a, <<"disconnect">>)
<1>0. /\ Head1(watchdog, "gate_kicked") /\ Service = {logind, watchdog, gate, aoi}
      /\ UNCHANGED <<login, user_login, user_online, user_secret>>
      /\ box' = Answer(b, x)
  BY DEF close_agent_kicked, Service, lvars, wvars
<1>1. /\ IsBox(box) /\ watchdog \in All /\ logind \in All /\ box[watchdog] # <<>>
      /\ Msg(watchdog)[1] = "gate_kicked" /\ Has(box[watchdog], Msg(watchdog))
  <2>1. IsBox(box) /\ watchdog \in All /\ logind \in All
    BY <1>0 DEF Boxes, All
  <2> QED
    BY <1>0, <2>1, HeadFacts
<1>2. FineAtWatchdog(Msg(watchdog))
  BY <1>1 DEF Boxes, Fine
<1>3. (a # Nil => Known(a)) /\ (CallerFine(x) \/ IsKick(x))
  BY <1>1, <1>2 DEF FineAtWatchdog
<1>4. a # Nil => a \in Agent /\ a \in All /\ a \notin Service
  BY <1>3, ServicesApart DEF Known
<1>5. Mail(box, c, {}) /\ IsBox(c)
  BY <1>1, RestMail, RestFacts
<1>6. CASE IsKick(x)
  <2>1. PICK k : x = <<"kick", k>>
    BY <1>6 DEF IsKick
  <2>2. Bears(watchdog, Msg(watchdog), k)
    BY <1>0, <1>1, <2>1 DEF Bears
  <2>3. /\ Holds(watchdog, Msg(watchdog), k, login, user_login, user_online, user_secret)
        /\ Carried(c, login, user_login, user_online, user_secret)
        /\ OneEach(c, login) /\ Free(c, login, login[k].user)
    BY <1>0, <2>2, HeadLogin
  <2>4. /\ k \in 1 .. Len(login) /\ login[k].user \in user_login
        /\ user_online[login[k].user] = 0
    BY <1>1, <2>3 DEF Holds
  <2>5. /\ IsBox(b) /\ Carried(b, login, user_login, user_online, user_secret)
        /\ OneEach(b, login) /\ Free(b, login, login[k].user)
    <3>1. CASE a = Nil
      BY <1>5, <2>3, <3>1
    <3>2. CASE a # Nil
      <4>1. Mail(c, c, {}) /\ b = Send(c, a, <<"disconnect">>)
        BY <1>5, <3>2, SameMail
      <4>2. Mail(c, b, {} \cup {<<a, <<"disconnect">> >>})
        BY <1>4, <1>5, <3>2, <4>1, SendMail
      <4>3. \A n : ~Bears(a, <<"disconnect">>, n)
        BY <1>4, <3>2 DEF Bears, Service
      <4>4. \A p \in {} \cup {<<a, <<"disconnect">> >>} : \A n : ~Bears(p[1], p[2], n)
        BY <4>3
      <4>5. IsBox(b)
        BY <4>2 DEF Mail
      <4> HIDE DEF b
      <4> QED
        BY <1>5, <2>3, <4>2, <4>4, <4>5, QuietMail
    <3> QED
      BY <3>1, <3>2
  <2>6. box' = Send(b, logind, <<"kicked", k>>)
    BY <1>0, <2>1, AnswerWhat
  <2> HIDE DEF b
  <2> DEFINE m == <<"kicked", k>>
  <2>7. \A n : Bears(logind, m, n) => n = k
    BY SessionAssumption DEF Bears
  <2>8. Holds(logind, m, k, login, user_login, user_online', user_secret')
    <3>1. m[1] = "kicked" /\ logind # watchdog
      BY SessionAssumption
    <3> QED
      BY <1>0, <2>4, <3>1 DEF Holds
  <2> QED
    BY <1>0, <2>4, <2>5, <2>6, <2>7, <2>8, LoginsSent
<1>7. CASE ~IsKick(x)
  <2>1. PICK P : Mail(box, b, P) /\ \A p \in P : \A n : ~Bears(p[1], p[2], n)
    <3>1. CASE a = Nil
      BY <1>5, <3>1
    <3>2. CASE a # Nil
      <4>1. Mail(box, b, {} \cup {<<a, <<"disconnect">> >>})
        BY <1>1, <1>4, <1>5, <3>2, SendMail
      <4>2. \A n : ~Bears(a, <<"disconnect">>, n)
        BY <1>4, <3>2 DEF Bears, Service
      <4>3. \A p \in {} \cup {<<a, <<"disconnect">> >>} : \A n : ~Bears(p[1], p[2], n)
        BY <4>2
      <4> QED
        BY <4>1, <4>3
    <3> QED
      BY <3>1, <3>2
  <2> HIDE DEF b
  <2>2. CASE x = <<"nobody">>
    <3>1. box' = b
      BY <1>0, <2>2, AnswerWhat
    <3> QED
      BY <1>0, <2>1, <3>1, LoginsQuiet DEF lvars
  <2>3. ASSUME NEW e \in Agent, x = <<"agent", e>>
        PROVE  Logins'
    <3>1. box' = Send(b, e, <<"closed">>) /\ e \in All /\ e \notin Service
      BY <1>0, <2>3, AnswerWhat, ServicesApart
    <3>2. Mail(box, box', P \cup {<<e, <<"closed">> >>})
      BY <1>1, <2>1, <3>1, SendMail
    <3>3. \A n : ~Bears(e, <<"closed">>, n)
      BY <3>1 DEF Bears, Service
    <3>4. \A p \in P \cup {<<e, <<"closed">> >>} : \A n : ~Bears(p[1], p[2], n)
      BY <2>1, <3>3
    <3> QED
      BY <1>0, <3>2, <3>4, LoginsQuiet DEF lvars
  <2> QED
    BY <1>3, <1>7, <2>2, <2>3 DEF CallerFine
<1> QED
  BY <1>6, <1>7

-----------------------------------------------------------------------------
(* Agents, their connections and the map. *)

LEMMA EnteredStep ==
  ASSUME Entered, Grows,
         \A a \in Agent : start'[a] # "none" => start[a] # "none" \/ Known(a)',
         \A fd \in Fd : agent'[fd] # Nil =>
            \/ agent'[fd] = agent[fd]
            \/ agent'[fd] \in Agent /\ agent'[fd] <= Len(born') /\ born'[agent'[fd]].fd = fd,
         \A fd \in Fd : forward'[fd] \in Agent =>
            \/ forward'[fd] = forward[fd]
            \/ forward'[fd] <= Len(born') /\ born'[forward'[fd]].fd = fd,
         \A u \in User : onmap'[u] # Nil =>
            \/ onmap'[u] = onmap[u]
            \/ /\ onmap'[u] \in Agent /\ onmap'[u] <= Len(born')
               /\ born'[onmap'[u]].user = u /\ onmap'[u] \in POS'
  PROVE  Entered'
<1>1. \A a : Known(a) => a \in Agent /\ a <= Len(born') /\ born'[a] = born[a]
  BY DEF Grows, Known, Agent
<1>2. \A a \in Agent : start'[a] # "none" => Known(a)'
  BY DEF Entered, Grows
<1>3. \A fd \in Fd : agent'[fd] # Nil =>
        agent'[fd] \in Agent /\ agent'[fd] <= Len(born') /\ born'[agent'[fd]].fd = fd
  BY <1>1 DEF Entered
<1>4. \A fd \in Fd : forward'[fd] \in Agent =>
        forward'[fd] <= Len(born') /\ born'[forward'[fd]].fd = fd
  BY <1>1 DEF Entered
<1>5. \A u \in User : onmap'[u] # Nil =>
        /\ onmap'[u] \in Agent /\ onmap'[u] <= Len(born')
        /\ born'[onmap'[u]].user = u /\ onmap'[u] \in POS'
  BY <1>1 DEF Entered, Grows
<1> QED
  BY <1>2, <1>3, <1>4, <1>5 DEF Entered, Known, Agent

LEMMA StopsStep ==
  ASSUME Types, Boxes, Stops, Grows, NEW P, Mail(box, box', P),
         \A a \in Agent : <<a, <<"move">> >> \in P =>
            /\ stop'[a] = "no" /\ ~Has(box[a], <<"disconnect">>)
            /\ <<a, <<"disconnect">> >> \notin P,
         \A a \in Agent : stop'[a] # "no" =>
            \/ stop[a] # "no"
            \/ Known(a) /\ ~connection[born[a].fd] /\ ~Has(box[a], <<"move">>)
  PROVE  Stops'
<1>1. ASSUME NEW a \in Agent
      PROVE  /\ stop'[a] # "no" => /\ Known(a)'
                                   /\ ~connection'[born'[a].fd]
                                   /\ ~Has(box'[a], <<"move">>)
             /\ Before(box'[a], <<"move">>, <<"disconnect">>)
  <2>0. IsBox(box) /\ a \in All
    BY ServicesApart DEF Boxes
  <2>1. ASSUME stop'[a] # "no"
        PROVE  Known(a)' /\ ~connection'[born'[a].fd] /\ ~Has(box'[a], <<"move">>)
    <3>1. Known(a) /\ ~connection[born[a].fd] /\ ~Has(box[a], <<"move">>)
      BY <2>1 DEF Stops
    <3>2. ~Has(box'[a], <<"move">>)
      BY <2>0, <2>1, <3>1, MailHas
    <3>3. Known(a)' /\ ~connection'[born'[a].fd]
      BY <3>1, KnownFd DEF Grows
    <3> QED
      BY <3>2, <3>3
  <2>2. Before(box'[a], <<"move">>, <<"disconnect">>)
    <3>1. Before(box[a], <<"move">>, <<"disconnect">>) /\ <<"move">> # <<"disconnect">>
      BY DEF Stops
    <3> QED
      BY <2>0, <3>1, MailBefore
  <2> QED
    BY <2>1, <2>2
<1> QED
  BY <1>1 DEF Stops, Agent

(* What the messages to the map say. *)
LEMMA AtAoi ==
  ASSUME Boxes, NEW u, NEW a
  PROVE  /\ Has(box[aoi], <<"enter", u, a>>) => Known(a) /\ a \in POS /\ u = born[a].user
         /\ \A f : Has(box[aoi], <<"leave", u, a, f>>) =>
              Known(a) /\ stop[a] # "no" /\ u = born[a].user /\ f \in BOOLEAN
<1>0. aoi \in All
  BY DEF All, Service
<1>1. ASSUME Has(box[aoi], <<"enter", u, a>>)
      PROVE  Known(a) /\ a \in POS /\ u = born[a].user
  <2>1. FineAtAoi(<<"enter", u, a>>)
    BY <1>0, <1>1 DEF Boxes, Fine
  <2> QED
    BY <2>1 DEF FineAtAoi
<1>2. ASSUME NEW f, Has(box[aoi], <<"leave", u, a, f>>)
      PROVE  Known(a) /\ stop[a] # "no" /\ u = born[a].user /\ f \in BOOLEAN
  <2>1. FineAtAoi(<<"leave", u, a, f>>)
    BY <1>0, <1>2 DEF Boxes, Fine
  <2> QED
    BY <2>1 DEF FineAtAoi
<1> QED
  BY <1>1, <1>2

LEMMA LeavesStep ==
  ASSUME Types, Boxes, Stops, Leaves, Grows, NEW P, Mail(box, box', P),
         \A a, u : <<aoi, <<"enter", u, a>> >> \in P =>
            /\ stop[a] = "no" /\ stop'[a] = "no"
            /\ \A f : <<aoi, <<"leave", u, a, f>> >> \notin P,
         \A a, u : <<aoi, <<"leave", u, a, FALSE>> >> \in P => a \notin POS',
         \A a \in POS' \ POS : stop[a] = "no",
         \A u \in User : onmap'[u] # Nil =>
            onmap'[u] = onmap[u] \/ Has(box[aoi], <<"enter", u, onmap'[u]>>),
         \A a \in Agent : Gone(a)' =>
            \/ Gone(a)
            \/ /\ stop[a] # "no" /\ ~Has(box'[aoi], <<"enter", born[a].user, a>>)
               /\ onmap'[born[a].user] # a
  PROVE  Leaves'
<1>0. IsBox(box) /\ aoi \in All
  BY DEF Boxes, All, Service
<1>1. ASSUME NEW a \in Agent, Known(a)', NEW f \in BOOLEAN
      PROVE  Before(box'[aoi], <<"enter", born'[a].user, a>>, <<"leave", born'[a].user, a, f>>)
  <2> DEFINE e == <<"enter", born'[a].user, a>>
             l == <<"leave", born'[a].user, a, f>>
  <2>1. Before(box[aoi], e, l)
    <3>1. CASE Known(a)
      BY <3>1 DEF Leaves, Grows
    <3>2. CASE ~Known(a)
      <4>1. ~Has(box[aoi], e)
        BY <3>2, AtAoi
      <4> QED
        BY <4>1 DEF Before, Has
    <3> QED
      BY <3>1, <3>2
  <2>2. e # l
    OBVIOUS
  <2>3. <<aoi, e>> \in P => ~Has(box[aoi], l) /\ <<aoi, l>> \notin P
    BY AtAoi
  <2> HIDE DEF e, l
  <2> QED
    BY <1>0, <2>1, <2>2, <2>3, MailBefore DEF e, l
<1>2. ASSUME NEW a \in Agent, Has(box'[aoi], <<"leave", born'[a].user, a, FALSE>>)
      PROVE  a \notin POS'
  <2>1. CASE <<aoi, <<"leave", born'[a].user, a, FALSE>> >> \in P
    BY <2>1
  <2>2. CASE Has(box[aoi], <<"leave", born'[a].user, a, FALSE>>)
    <3>1. Known(a) /\ stop[a] # "no" /\ born'[a].user = born[a].user
      BY <2>2, AtAoi
    <3>2. a \notin POS
      BY <2>2, <3>1 DEF Leaves
    <3> QED
      BY <3>1, <3>2
  <2>3. \/ Has(box[aoi], <<"leave", born'[a].user, a, FALSE>>)
        \/ <<aoi, <<"leave", born'[a].user, a, FALSE>> >> \in P
    BY <1>0, <1>2, MailHas
  <2> QED
    BY <2>1, <2>2, <2>3
<1>3. ASSUME NEW a \in Agent, Gone(a)'
      PROVE  /\ stop'[a] # "no"
             /\ ~Has(box'[aoi], <<"enter", born'[a].user, a>>)
             /\ onmap'[born'[a].user] # a
  <2>1. CASE Gone(a)
    <3>1. /\ stop[a] # "no" /\ ~Has(box[aoi], <<"enter", born[a].user, a>>)
          /\ onmap[born[a].user] # a
      BY <2>1 DEF Leaves
    <3>2. Known(a) /\ born'[a] = born[a] /\ stop'[a] # "no"
      BY <3>1 DEF Stops, Grows
    <3>3. ~Has(box'[aoi], <<"enter", born[a].user, a>>)
      BY <1>0, <3>1, MailHas
    <3>4. born[a].user \in User /\ a # Nil
      BY <3>2, KnownFd, ServicesApart
    <3>5. onmap'[born[a].user] # a
      BY <3>1, <3>4
    <3> QED
      BY <3>2, <3>3, <3>5
  <2>2. CASE /\ stop[a] # "no" /\ ~Has(box'[aoi], <<"enter", born[a].user, a>>)
             /\ onmap'[born[a].user] # a
    BY <2>2 DEF Stops, Grows
  <2> QED
    BY <1>3, <2>1, <2>2
<1> QED
  BY <1>1, <1>2, <1>3 DEF Leaves, Agent, Gone, Known

(* Most steps say nothing new about who is on the map. *)
LEMMA QuietAgents ==
  ASSUME Types, Boxes, Stops, Leaves, Grows, NEW P, Mail(box, box', P),
         UNCHANGED <<stop, POS, onmap>>,
         \A p \in P : p[1] # aoi /\ p[2] \notin {<<"move">>, <<"left">>}
  PROVE  Stops' /\ Leaves'
<1>0. IsBox(box) /\ Agent \subseteq All
  BY ServicesApart DEF Boxes
<1>1. \A t, m : <<t, m>> \in P => t # aoi /\ m # <<"move">> /\ m # <<"left">>
  <2> SUFFICES ASSUME NEW t, NEW m, <<t, m>> \in P
               PROVE  t # aoi /\ m # <<"move">> /\ m # <<"left">>
    OBVIOUS
  <2>1. <<t, m>>[1] # aoi /\ <<t, m>>[2] \notin {<<"move">>, <<"left">>}
    OBVIOUS
  <2> QED
    BY <2>1
<1>2. \A a \in Agent : Gone(a)' => Gone(a)
  BY <1>0, <1>1, MailHas DEF Gone
<1>3. Stops'
  <2>1. \A a : <<a, <<"move">> >> \notin P
    BY <1>1
  <2> QED
    BY <2>1, StopsStep
<1>4. Leaves'
  <2>1. \A m : <<aoi, m>> \notin P
    BY <1>1
  <2> QED
    BY <1>2, <2>1, LeavesStep
<1> QED
  BY <1>3, <1>4

-----------------------------------------------------------------------------
(* One step per action.  First what they share. *)

LEMMA FineIs ==
  ASSUME NEW m
  PROVE  /\ Fine(logind, m) <=> FineAtLogind(m)
         /\ Fine(watchdog, m) <=> FineAtWatchdog(m)
         /\ Fine(gate, m) <=> FineAtGate(m)
         /\ Fine(aoi, m) <=> FineAtAoi(m)
         /\ \A a \in Agent : Fine(a, m) <=> FineAtAgent(a, m)
         /\ Fine(logind, m)' <=> FineAtLogind(m)'
         /\ Fine(watchdog, m)' <=> FineAtWatchdog(m)'
         /\ Fine(gate, m)' <=> FineAtGate(m)'
         /\ Fine(aoi, m)' <=> FineAtAoi(m)'
         /\ \A a \in Agent : Fine(a, m)' <=> FineAtAgent(a, m)'
<1>1. logind \notin Agent /\ watchdog \notin Agent /\ gate \notin Agent /\ aoi \notin Agent
  BY ServicesApart DEF Service
<1> QED
  BY <1>1, SessionAssumption DEF Fine, Agent

LEMMA HandlesAll == logind \in All /\ watchdog \in All /\ gate \in All /\ aoi \in All
BY DEF All, Service

LEMMA TakeSend ==
  ASSUME IsBox(box), NEW s \in All, box[s] # <<>>, NEW to \in All, NEW m
  PROVE  Mail(box, Send(Rest(s), to, m), {<<to, m>>})
<1>1. Mail(box, Send(Rest(s), to, m), {} \cup {<<to, m>>})
  BY RestMail, SendMail
<1>2. {} \cup {<<to, m>>} = {<<to, m>>}
  OBVIOUS
<1> QED
  BY <1>1, <1>2

LEMMA JustSend ==
  ASSUME IsBox(box), NEW to \in All, NEW m
  PROVE  Mail(box, Send(box, to, m), {<<to, m>>})
<1>1. Mail(box, Send(box, to, m), {} \cup {<<to, m>>})
  BY SameMail, SendMail
<1>2. {} \cup {<<to, m>>} = {<<to, m>>}
  OBVIOUS
<1> QED
  BY <1>1, <1>2

(* The first message of a service or agent says what Fine says. *)
LEMMA Reads ==
  ASSUME SInv, NEW s \in All, NEW name, Head1(s, name)
  PROVE  /\ IsBox(box) /\ box[s] # <<>> /\ Has(box[s], Msg(s)) /\ Msg(s)[1] = name
         /\ Fine(s, Msg(s)) /\ Mail(box, Rest(s), {})
<1>1. IsBox(box)
  BY DEF SInv, Boxes
<1>2. box[s] # <<>> /\ Has(box[s], Msg(s)) /\ Msg(s)[1] = name
  BY <1>1, HeadFacts
<1> QED
  BY <1>1, <1>2, RestMail DEF SInv, Boxes

LEMMA QuietStep ==
  ASSUME SInv, Types', Logins', Entered', Grows, NEW P, Mail(box, box', P),
         UNCHANGED <<stop, POS, onmap>>,
         \A p \in P : /\ p[1] # aoi /\ p[2] \notin {<<"move">>, <<"left">>}
                      /\ Fine(p[1], p[2])'
  PROVE  SInv'
<1>1. Boxes'
  BY BoxesStep DEF SInv
<1>2. Stops' /\ Leaves'
  BY QuietAgents DEF SInv
<1> QED
  BY <1>1, <1>2 DEF SInv

LEMMA SilentStep ==
  ASSUME SInv, Types', Logins', Entered', Grows, Mail(box, box', {}),
         UNCHANGED <<stop, POS, onmap>>
  PROVE  SInv'
BY QuietStep

LEMMA OneSent ==
  ASSUME SInv, Types', Logins', Entered', Grows, NEW to, NEW m,
         Mail(box, box', {<<to, m>>}), UNCHANGED <<stop, POS, onmap>>,
         to # aoi, m \notin {<<"move">>, <<"left">>}, Fine(to, m)'
  PROVE  SInv'
<1>1. \A p \in {<<to, m>>} : /\ p[1] # aoi /\ p[2] \notin {<<"move">>, <<"left">>}
                             /\ Fine(p[1], p[2])'
  OBVIOUS
<1> QED
  BY <1>1, QuietStep

(* Steps of the login server and of the watchdog that leave agents alone.  *)
LEMMA SameGrows ==
  ASSUME UNCHANGED <<born, connection, stop, POS>>, DOMAIN login \subseteq DOMAIN login'
  PROVE  Grows
BY DEF Grows, Known, Agent

LEMMA SameEntered ==
  ASSUME Entered, UNCHANGED <<born, start, agent, forward, onmap, POS>>
  PROVE  Entered'
BY DEF Entered, Known, Agent

LEMMA AcceptStep ==
  ASSUME SInv, NEW u \in User, accept(u)
  PROVE  SInv'
<1>0. Types /\ Boxes /\ Logins /\ Entered /\ IsBox(box)
  BY DEF SInv, Boxes
<1>1. PICK pc \in {"406", "kick", "login"}, k \in Nat :
        /\ k = Len(login) + 1
        /\ login' = Append(login, [user |-> u, pc |-> pc, subid |-> 0])
        /\ box' = IF pc = "406" THEN box ELSE Send(box, watchdog, <<pc, u, k>>)
  <2> DEFINE pc0 == IF u \in user_login THEN "406"
                    ELSE IF user_online[u] # 0 THEN "kick" ELSE "login"
             k0 == Len(login) + 1
  <2>1. pc0 \in {"406", "kick", "login"} /\ k0 \in Nat
    BY <1>0, LoginTypes
  <2>2. /\ k0 = Len(login) + 1
        /\ login' = Append(login, [user |-> u, pc |-> pc0, subid |-> 0])
        /\ box' = IF pc0 = "406" THEN box ELSE Send(box, watchdog, <<pc0, u, k0>>)
    BY DEF accept
  <2> HIDE DEF pc0, k0
  <2> QED
    BY <2>1, <2>2
<1>2. /\ user_login' = user_login \cup {u}
      /\ UNCHANGED <<user_online, wvars, gvars, avars, onmap>>
  BY DEF accept
<1>3. login' \in Seq(LoginRecord) /\ DOMAIN login \subseteq DOMAIN login'
  <2>1. [user |-> u, pc |-> pc, subid |-> 0] \in LoginRecord
    BY DEF LoginRecord, PC
  <2>2. login' \in Seq(LoginRecord) /\ Len(login') = Len(login) + 1
    BY <1>0, <1>1, <2>1, LoginTypes, AppendProperties
  <2> QED
    BY <1>0, <2>2, LoginTypes
<1>4. Types'
  BY <1>0, <1>2, <1>3 DEF Types, wvars, gvars, avars, Agent, LoginRecord
<1>5. Logins'
  BY <1>0, LoginsAccept
<1>6. Grows /\ Entered'
  BY <1>0, <1>2, <1>3, SameGrows, SameEntered DEF wvars, gvars, avars
<1>7. UNCHANGED <<stop, POS, onmap>>
  BY <1>2 DEF avars
<1>8. CASE pc = "406"
  BY <1>0, <1>1, <1>4, <1>5, <1>6, <1>7, <1>8, SameMail, SilentStep
<1>9. CASE pc # "406"
  <2>1. Mail(box, box', {<<watchdog, <<pc, u, k>> >>})
    BY <1>0, <1>1, <1>9, HandlesAll, JustSend
  <2>2. FineAtWatchdog(<<pc, u, k>>)'
    BY <1>9 DEF FineAtWatchdog
  <2>3. Fine(watchdog, <<pc, u, k>>)' /\ watchdog # aoi
    BY <2>2, FineIs, SessionAssumption
  <2>4. <<pc, u, k>> \notin {<<"move">>, <<"left">>}
    OBVIOUS
  <2> QED
    BY <1>4, <1>5, <1>6, <1>7, <2>1, <2>3, <2>4, OneSent
<1> QED
  BY <1>8, <1>9

LEMMA LogindStep ==
  ASSUME SInv, Logind
  PROVE  SInv'
<1>0. Types /\ Boxes /\ Logins /\ Entered /\ IsBox(box)
  BY DEF SInv, Boxes
<1>1. /\ UNCHANGED <<wvars, gvars, avars, onmap>> /\ box[logind] # <<>>
      /\ UNCHANGED <<stop, POS, onmap>>
  BY DEF Logind, login_handler_kicked, login_handler_done, CMD_logout, Head1, avars
<1>2. Entered'
  BY <1>0, <1>1, SameEntered DEF wvars, gvars, avars
<1>3. ASSUME DOMAIN login \subseteq DOMAIN login', login' \in Seq(LoginRecord),
             user_login' \subseteq User, user_online' \in [User -> Nat]
      PROVE  Grows /\ Types'
  <2>1. Grows
    BY <1>1, <1>3, SameGrows DEF wvars, gvars, avars
  <2> QED
    BY <1>0, <1>1, <1>3, <2>1 DEF Types, wvars, gvars, avars, Agent, LoginRecord
<1>4. CASE login_handler_kicked
  <2>1. Logins'
    BY <1>0, <1>4, LoginsKicked
  <2>2. PICK k \in 1 .. Len(login) :
          /\ Sets(login, login', k, "login") /\ user_login' = user_login
          /\ box' = Send(Rest(logind), watchdog, <<"login", login[k].user, k>>)
    BY <1>0, <1>4, LoginsKicked
  <2>3. PICK u \in User : u = login[k].user
    BY <1>0, LoginTypes
  <2>4. Mail(box, box', {<<watchdog, <<"login", u, k>> >>})
    BY <1>0, <1>1, <2>2, <2>3, HandlesAll, TakeSend
  <2>5. Fine(watchdog, <<"login", u, k>>)' /\ watchdog # aoi
    <3>1. k \in Nat
      BY <1>0, LoginTypes
    <3>2. FineAtWatchdog(<<"login", u, k>>)'
      BY <3>1 DEF FineAtWatchdog
    <3> QED
      BY <3>2, FineIs, SessionAssumption
  <2>6. <<"login", u, k>> \notin {<<"move">>, <<"left">>}
    OBVIOUS
  <2>7. Grows /\ Types'
    <3>1. DOMAIN login \subseteq DOMAIN login' /\ login' \in Seq(LoginRecord)
      BY <1>0, <2>2, LoginTypes DEF Sets
    <3>2. user_login' \subseteq User /\ user_online' \in [User -> Nat]
      BY <1>0, <1>4, <2>2 DEF login_handler_kicked, Types
    <3> QED
      BY <1>3, <3>1, <3>2
  <2> QED
    BY <1>1, <1>2, <2>1, <2>4, <2>5, <2>6, <2>7, OneSent
<1>5. CASE login_handler_done
  <2>1. Logins' /\ Mail(box, box', {})
    BY <1>0, <1>5, LoginsDone
  <2>2. PICK k \in 1 .. Len(login), s \in Nat :
          /\ Sets(login, login', k, "200")
          /\ user_online' = [user_online EXCEPT ![login[k].user] = s]
    BY <1>0, <1>5, LoginsDone
  <2>3. Grows /\ Types'
    <3>1. DOMAIN login \subseteq DOMAIN login' /\ login' \in Seq(LoginRecord)
      BY <1>0, <2>2, LoginTypes DEF Sets
    <3>2. user_login' \subseteq User
      BY <1>0, <1>5 DEF login_handler_done, Types
    <3>3. user_online' \in [User -> Nat]
      BY <1>0, <2>2 DEF Types
    <3> QED
      BY <1>3, <3>1, <3>2, <3>3
  <2> QED
    BY <1>1, <1>2, <2>1, <2>3, SilentStep
<1>6. CASE CMD_logout
  <2>1. Logins'
    BY <1>0, <1>6, LoginsLogout
  <2>2. PICK k \in Nat, u \in User :
          /\ user_online' = [user_online EXCEPT ![u] = 0]
          /\ box' = Send(Rest(logind), watchdog, <<"logged_out", u, k>>)
    BY <1>0, <1>6, LoginsLogout
  <2>3. Mail(box, box', {<<watchdog, <<"logged_out", u, k>> >>})
    BY <1>0, <1>1, <2>2, HandlesAll, TakeSend
  <2>4. Fine(watchdog, <<"logged_out", u, k>>)' /\ watchdog # aoi
    <3>1. FineAtWatchdog(<<"logged_out", u, k>>)'
      BY DEF FineAtWatchdog
    <3> QED
      BY <3>1, FineIs, SessionAssumption
  <2>5. <<"logged_out", u, k>> \notin {<<"move">>, <<"left">>}
    OBVIOUS
  <2>6. Grows /\ Types'
    <3>1. UNCHANGED <<login, user_login>>
      BY <1>6 DEF CMD_logout
    <3>2. user_online' \in [User -> Nat]
      BY <1>0, <2>2 DEF Types
    <3> QED
      BY <1>0, <1>3, <3>1, <3>2 DEF Types
  <2> QED
    BY <1>1, <1>2, <2>1, <2>3, <2>4, <2>5, <2>6, OneSent
<1> QED
  BY <1>4, <1>5, <1>6 DEF Logind

(* The watchdog. *)
LEMMA WatchdogLoginStep ==
  ASSUME SInv, CMD_login \/ CMD_kick
  PROVE  SInv'
<1>0. Types /\ Boxes /\ Logins /\ Entered /\ IsBox(box)
  BY DEF SInv, Boxes
<1>1. /\ UNCHANGED <<lvars, session_map, agent, born, gvars, avars, onmap>>
      /\ box[watchdog] # <<>> /\ UNCHANGED <<stop, POS, onmap>>
  BY DEF CMD_login, CMD_kick, Head1, avars, wvars
<1>2. Entered' /\ Grows
  BY <1>0, <1>1, SameEntered, SameGrows DEF lvars, gvars, avars
<1>3. CASE CMD_login
  <2>1. PICK k \in Nat, u \in User :
          /\ user_secret' = [user_secret EXCEPT ![u] = subid + 1]
          /\ box' = Send(Rest(watchdog), logind, <<"subid", k, subid + 1>>)
    BY <1>0, <1>3, LoginsLogin
  <2>2. PICK s \in Nat : s = subid + 1
    BY <1>0 DEF Types
  <2>3. Mail(box, box', {<<logind, <<"subid", k, s>> >>})
    BY <1>0, <1>1, <2>1, <2>2, HandlesAll, TakeSend
  <2>4. Fine(logind, <<"subid", k, s>>)' /\ logind # aoi
    <3>1. FineAtLogind(<<"subid", k, s>>)'
      BY DEF FineAtLogind
    <3> QED
      BY <3>1, FineIs, SessionAssumption
  <2>5. <<"subid", k, s>> \notin {<<"move">>, <<"left">>}
    OBVIOUS
  <2>6. user_secret' \in [User -> Nat] /\ subid' \in Nat
    BY <1>0, <1>3, <2>1, <2>2 DEF Types, CMD_login
  <2>7. Types'
    BY <1>0, <1>1, <2>6 DEF Types, lvars, gvars, avars, Agent, LoginRecord
  <2>8. Logins'
    BY <1>0, <1>3, LoginsLogin
  <2> QED
    BY <1>1, <1>2, <2>3, <2>4, <2>5, <2>7, <2>8, OneSent
<1>4. CASE CMD_kick
  <2>1. PICK k \in Nat, u \in User : box' = Send(Rest(watchdog), logind, <<"logout", u, k>>)
    BY <1>0, <1>4, LoginsKick
  <2>2. Mail(box, box', {<<logind, <<"logout", u, k>> >>})
    BY <1>0, <1>1, <2>1, HandlesAll, TakeSend
  <2>3. Fine(logind, <<"logout", u, k>>)' /\ logind # aoi
    <3>1. FineAtLogind(<<"logout", u, k>>)'
      BY DEF FineAtLogind
    <3> QED
      BY <3>1, FineIs, SessionAssumption
  <2>4. <<"logout", u, k>> \notin {<<"move">>, <<"left">>}
    OBVIOUS
  <2>5. Types'
    BY <1>0, <1>4 DEF CMD_kick, Types, lvars, wvars, gvars, avars, Agent, LoginRecord
  <2>6. Logins'
    BY <1>0, <1>4, LoginsKick
  <2> QED
    BY <1>1, <1>2, <2>2, <2>3, <2>4, <2>5, <2>6, OneSent
<1> QED
  BY <1>3, <1>4

(* A connection is taken out of the watchdog's books. *)
LEMMA LetGo ==
  ASSUME SInv, UNCHANGED <<lvars, subid, born, gvars, avars, onmap>>,
         user_secret' \in [User -> Nat],
         \/ UNCHANGED <<session_map, agent>>
         \/ \E fd \in Fd : /\ session_map' = [session_map EXCEPT ![fd] = Nil]
                           /\ agent' = [agent EXCEPT ![fd] = Nil]
  PROVE  Types' /\ Entered' /\ Grows /\ UNCHANGED <<stop, POS, onmap>>
<1>0. Types /\ Entered
  BY DEF SInv
<1>1. session_map' \in [Fd -> User \cup {Nil}] /\ agent' \in [Fd -> Agent \cup {Nil}]
  BY <1>0 DEF Types
<1>2. Types'
  BY <1>0, <1>1 DEF Types, lvars, gvars, avars, Agent, LoginRecord
<1>3. Grows
  BY SameGrows DEF lvars, gvars, avars
<1>4. \A fd \in Fd : agent'[fd] # Nil => agent'[fd] = agent[fd]
  BY <1>0 DEF Types
<1>5. Entered'
  BY <1>0, <1>3, <1>4, EnteredStep DEF gvars, avars
<1> QED
  BY <1>2, <1>3, <1>5 DEF avars

LEMMA LoggedOutStep ==
  ASSUME SInv, CMD_kick_logged_out
  PROVE  SInv'
<1>0. Types /\ Boxes /\ Logins /\ Entered /\ IsBox(box)
  BY DEF SInv, Boxes
<1>1. /\ UNCHANGED <<lvars, subid, born, gvars, avars, onmap>> /\ box[watchdog] # <<>>
  BY DEF CMD_kick_logged_out, Head1
<1>2. user_secret' \in [User -> Nat] /\ Logins'
  <2>1. Logins' /\ \E u \in User : user_secret' = [user_secret EXCEPT ![u] = 0]
    BY <1>0, LoginsLoggedOut
  <2> QED
    BY <1>0, <2>1 DEF Types
<1>3. PICK k \in Nat :
        \/ /\ box' = Send(Rest(watchdog), logind, <<"kicked", k>>)
           /\ UNCHANGED <<session_map, agent>>
        \/ \E fd \in Fd :
             /\ \/ box' = Send(Rest(watchdog), logind, <<"kicked", k>>)
                \/ /\ agent[fd] # Nil
                   /\ box' = Send(Rest(watchdog), gate,
                                  <<"kick", fd, agent[fd], <<"kick", k>> >>)
             /\ session_map' = [session_map EXCEPT ![fd] = Nil]
             /\ agent' = [agent EXCEPT ![fd] = Nil]
  BY <1>0, LoginsLoggedOut
<1>4. Types' /\ Entered' /\ Grows /\ UNCHANGED <<stop, POS, onmap>>
  BY <1>1, <1>2, <1>3, LetGo
<1>5. CASE box' = Send(Rest(watchdog), logind, <<"kicked", k>>)
  <2>1. Mail(box, box', {<<logind, <<"kicked", k>> >>})
    BY <1>0, <1>1, <1>5, HandlesAll, TakeSend
  <2>2. Fine(logind, <<"kicked", k>>)' /\ logind # aoi
    <3>1. FineAtLogind(<<"kicked", k>>)'
      BY DEF FineAtLogind
    <3> QED
      BY <3>1, FineIs, SessionAssumption
  <2>3. <<"kicked", k>> \notin {<<"move">>, <<"left">>}
    OBVIOUS
  <2> QED
    BY <1>2, <1>4, <2>1, <2>2, <2>3, OneSent
<1>6. ASSUME NEW fd \in Fd, NEW a, a = agent[fd], a # Nil,
             box' = Send(Rest(watchdog), gate, <<"kick", fd, a, <<"kick", k>> >>)
      PROVE  SInv'
  <2> DEFINE m == <<"kick", fd, a, <<"kick", k>> >>
  <2>1. Mail(box, box', {<<gate, m>>})
    BY <1>0, <1>1, <1>6, HandlesAll, TakeSend
  <2>2. Fine(gate, m)' /\ gate # aoi
    <3>1. Known(a) /\ born[a].fd = fd
      BY <1>0, <1>6 DEF Entered
    <3>2. Known(a)' /\ born'[a].fd = fd
      BY <1>4, <3>1 DEF Grows
    <3>3. FineAtGate(m)'
      BY <3>2 DEF FineAtGate, IsKick
    <3> QED
      BY <3>3, FineIs, SessionAssumption
  <2>3. m \notin {<<"move">>, <<"left">>}
    OBVIOUS
  <2> HIDE DEF m
  <2> QED
    BY <1>2, <1>4, <2>1, <2>2, <2>3, OneSent
<1> QED
  BY <1>3, <1>5, <1>6

LEMMA SocketCloseStep ==
  ASSUME SInv, SOCKET_close
  PROVE  SInv'
<1>0. Types /\ Boxes /\ Logins /\ Entered /\ IsBox(box)
  BY DEF SInv, Boxes
<1>1. /\ Head1(watchdog, "close")
      /\ UNCHANGED <<lvars, subid, user_secret, born, gvars, avars, onmap>>
  BY DEF SOCKET_close
<1>2. /\ box[watchdog] # <<>> /\ Msg(watchdog)[1] = "close" /\ Fine(watchdog, Msg(watchdog))
      /\ Mail(box, Rest(watchdog), {})
  BY <1>1, HandlesAll, Reads
<1>2a. PICK fd \in Fd : \E x : Msg(watchdog) = <<"close", fd, x>> /\ CallerFine(x)
  BY <1>2, FineIs DEF FineAtWatchdog
<1>3. PICK x : Msg(watchdog) = <<"close", fd, x>> /\ CallerFine(x)
  BY <1>2a
<1>4. close_agent(fd, x)
  BY <1>3 DEF SOCKET_close
<1>5. /\ user_secret' \in [User -> Nat] /\ UNCHANGED <<lvars, user_secret>>
      /\ session_map' = [session_map EXCEPT ![fd] = Nil]
      /\ agent' = [agent EXCEPT ![fd] = Nil]
  BY <1>0, <1>1, <1>4 DEF close_agent, Types
<1>6. Types' /\ Entered' /\ Grows /\ UNCHANGED <<stop, POS, onmap>>
  BY <1>1, <1>5, LetGo
<1>7. ASSUME NEW to \in All, NEW m, box' = Send(Rest(watchdog), to, m),
             to # aoi, m \notin {<<"move">>, <<"left">>}, Fine(to, m)',
             \A n : ~Bears(to, m, n)
      PROVE  SInv'
  <2>1. Mail(box, box', {<<to, m>>})
    BY <1>0, <1>2, <1>7, HandlesAll, TakeSend
  <2>2. \A p \in {<<to, m>>} : \A n : ~Bears(p[1], p[2], n)
    BY <1>7
  <2>3. Logins'
    BY <1>0, <1>5, <2>1, <2>2, LoginsQuiet
  <2> QED
    BY <1>6, <1>7, <2>1, <2>3, OneSent
<1>8. CASE agent[fd] = Nil
  <2>1. box' = Answer(Rest(watchdog), x)
    BY <1>4, <1>8 DEF close_agent
  <2>2. CASE x = <<"nobody">>
    <3>1. box' = Rest(watchdog)
      BY <2>1, <2>2, AnswerWhat
    <3>2. Mail(box, box', {})
      BY <1>2, <3>1
    <3>3. Logins'
      BY <1>0, <1>5, <3>2, LoginsQuiet
    <3> QED
      BY <1>6, <3>2, <3>3, SilentStep
  <2>3. ASSUME NEW e \in Agent, x = <<"agent", e>>, stop[e] # "no"
        PROVE  SInv'
    <3>1. box' = Send(Rest(watchdog), e, <<"closed">>) /\ e \in All /\ e \notin Service
      BY <2>1, <2>3, AnswerWhat, ServicesApart
    <3>2. FineAtAgent(e, <<"closed">>)'
      BY <1>6, <2>3 DEF FineAtAgent
    <3>3. Fine(e, <<"closed">>)' /\ e # aoi
      BY <3>1, <3>2, FineIs DEF Service
    <3>4. \A n : ~Bears(e, <<"closed">>, n)
      BY <3>1 DEF Bears, Service
    <3>5. <<"closed">> \notin {<<"move">>, <<"left">>}
      OBVIOUS
    <3> QED
      BY <1>7, <3>1, <3>3, <3>4, <3>5
  <2> QED
    BY <1>3, <2>2, <2>3 DEF CallerFine
<1>9. CASE agent[fd] # Nil
  <2>1. PICK a : a = agent[fd] /\ a # Nil
    BY <1>9
  <2> DEFINE m == <<"kick", fd, a, x>>
  <2>2. box' = Send(Rest(watchdog), gate, m)
    BY <1>4, <1>9, <2>1 DEF close_agent
  <2>3. Fine(gate, m)' /\ gate # aoi
    <3>1. Known(a) /\ born[a].fd = fd
      BY <1>0, <2>1 DEF Entered
    <3>2. Known(a)' /\ born'[a].fd = fd /\ CallerFine(x)'
      BY <1>3, <1>6, <3>1 DEF Grows, CallerFine
    <3>3. FineAtGate(m)'
      BY <3>2 DEF FineAtGate
    <3> QED
      BY <3>3, FineIs, SessionAssumption
  <2>4. m \notin {<<"move">>, <<"left">>}
    OBVIOUS
  <2>5. \A n : ~Bears(gate, m, n)
    <3>1. \A n : x # <<"kick", n>>
      BY <1>3 DEF CallerFine
    <3> QED
      BY <3>1, SessionAssumption DEF Bears
  <2> HIDE DEF m
  <2> QED
    BY <1>7, <2>2, <2>3, <2>4, <2>5, HandlesAll
<1> QED
  BY <1>8, <1>9

LEMMA AgentKickedStep ==
  ASSUME SInv, close_agent_kicked
  PROVE  SInv'
<1>0. Types /\ Boxes /\ Logins /\ Entered /\ IsBox(box)
  BY DEF SInv, Boxes
<1>1. /\ Head1(watchdog, "gate_kicked")
      /\ UNCHANGED <<lvars, wvars, gvars, avars, onmap>>
  BY DEF close_agent_kicked
<1>2. /\ Msg(watchdog)[1] = "gate_kicked" /\ Fine(watchdog, Msg(watchdog))
      /\ Mail(box, Rest(watchdog), {})
  BY <1>1, HandlesAll, Reads
<1>3. PICK a, x : /\ Msg(watchdog) = <<"gate_kicked", a, x>>
                  /\ a # Nil => Known(a) /\ ~connection[born[a].fd]
                  /\ CallerFine(x) \/ IsKick(x)
  BY <1>2, FineIs DEF FineAtWatchdog
<1> DEFINE b == IF a = Nil THEN Rest(watchdog) ELSE Send(Rest(watchdog), a, <<"disconnect">>)
<1>4. box' = Answer(b, x)
  BY <1>3 DEF close_agent_kicked
<1>5. /\ Types' /\ Entered' /\ Grows /\ Logins' /\ UNCHANGED <<stop, POS, onmap>>
  <2>1. Types'
    BY <1>0, <1>1 DEF Types, lvars, wvars, gvars, avars, Agent, LoginRecord
  <2> QED
    BY <1>0, <1>1, <2>1, SameEntered, SameGrows, LoginsAgentKicked DEF lvars, wvars, gvars, avars
<1> DEFINE OK(P) == \A p \in P : /\ p[1] # aoi /\ p[2] \notin {<<"move">>, <<"left">>}
                                 /\ Fine(p[1], p[2])'
<1>6. PICK P : Mail(box, b, P) /\ OK(P)
  <2>1. CASE a = Nil
    BY <1>2, <2>1
  <2>2. CASE a # Nil
    <3>1. Known(a) /\ a \in Agent /\ a \in All /\ a # aoi /\ ~connection[born[a].fd]
      BY <1>3, <2>2, ServicesApart DEF Known, Service
    <3>2. Mail(box, b, {} \cup {<<a, <<"disconnect">> >>})
      BY <1>0, <1>2, <2>2, <3>1, SendMail
    <3>3. Known(a)' /\ ~connection'[born'[a].fd]
      BY <1>0, <1>5, <3>1, KnownFd DEF Grows
    <3>4. FineAtAgent(a, <<"disconnect">>)'
      BY <3>3 DEF FineAtAgent
    <3>5. Fine(a, <<"disconnect">>)'
      BY <3>1, <3>4, FineIs
    <3>6. OK({} \cup {<<a, <<"disconnect">> >>})
      BY <3>1, <3>5
    <3> QED
      BY <3>2, <3>6
  <2> QED
    BY <2>1, <2>2
<1> HIDE DEF b
<1>7. ASSUME NEW to \in All, NEW m, box' = Send(b, to, m), to # aoi,
             m \notin {<<"move">>, <<"left">>}, Fine(to, m)'
      PROVE  SInv'
  <2>1. Mail(box, box', P \cup {<<to, m>>})
    BY <1>0, <1>6, <1>7, SendMail
  <2>2. OK(P \cup {<<to, m>>})
    BY <1>6, <1>7
  <2> QED
    BY <1>5, <2>1, <2>2, QuietStep
<1>8. CASE x = <<"nobody">>
  <2>1. Mail(box, box', P)
    BY <1>4, <1>6, <1>8, AnswerWhat
  <2> QED
    BY <1>5, <1>6, <2>1, QuietStep
<1>9. ASSUME NEW e \in Agent, x = <<"agent", e>>, stop[e] # "no"
      PROVE  SInv'
  <2>1. box' = Send(b, e, <<"closed">>) /\ e \in All /\ e \notin Service
    BY <1>4, <1>9, AnswerWhat, ServicesApart
  <2>2. FineAtAgent(e, <<"closed">>)'
    BY <1>5, <1>9 DEF FineAtAgent
  <2>3. Fine(e, <<"closed">>)' /\ e # aoi
    BY <2>1, <2>2, FineIs DEF Service
  <2>4. <<"closed">> \notin {<<"move">>, <<"left">>}
    OBVIOUS
  <2> QED
    BY <1>7, <2>1, <2>3, <2>4
<1>10. ASSUME NEW k \in Nat, x = <<"kick", k>>
       PROVE  SInv'
  <2>1. box' = Send(b, logind, <<"kicked", k>>)
    BY <1>4, <1>10, AnswerWhat
  <2>2. FineAtLogind(<<"kicked", k>>)'
    BY DEF FineAtLogind
  <2>3. Fine(logind, <<"kicked", k>>)' /\ logind # aoi
    BY <2>2, FineIs, SessionAssumption
  <2>4. <<"kicked", k>> \notin {<<"move">>, <<"left">>}
    OBVIOUS
  <2> QED
    BY <1>7, <2>1, <2>3, <2>4, HandlesAll
<1> QED
  BY <1>3, <1>8, <1>9, <1>10 DEF CallerFine, IsKick

(* Steps that send what bears no login and leave the books alone. *)
LEMMA PlainStep ==
  ASSUME SInv, Types', Entered', Grows, UNCHANGED <<lvars, user_secret, stop, POS, onmap>>,
         \/ Mail(box, box', {})
         \/ \E to, m : /\ Mail(box, box', {<<to, m>>}) /\ Fine(to, m)'
                       /\ to # aoi /\ m \notin {<<"move">>, <<"left">>}
                       /\ \A n : ~Bears(to, m, n)
  PROVE  SInv'
<1>0. Boxes /\ Logins
  BY DEF SInv
<1>1. CASE Mail(box, box', {})
  <2>1. Logins'
    BY <1>0, <1>1, LoginsQuiet
  <2> QED
    BY <1>1, <2>1, SilentStep
<1>2. ASSUME NEW to, NEW m, Mail(box, box', {<<to, m>>}), Fine(to, m)',
             to # aoi, m \notin {<<"move">>, <<"left">>}, \A n : ~Bears(to, m, n)
      PROVE  SInv'
  <2>1. \A p \in {<<to, m>>} : \A n : ~Bears(p[1], p[2], n)
    BY <1>2
  <2>2. Logins'
    BY <1>0, <1>2, <2>1, LoginsQuiet
  <2> QED
    BY <1>2, <2>2, OneSent
<1> QED
  BY <1>1, <1>2

LEMMA BornTypes ==
  ASSUME Types
  PROVE  /\ born \in Seq([fd : Fd, user : User, subid : Nat]) /\ Len(born) \in Nat
         /\ DOMAIN born = 1 .. Len(born)
BY DEF Types

LEMMA SocketDataStep ==
  ASSUME SInv, SOCKET_data
  PROVE  SInv'
<1>0. Types /\ Boxes /\ Logins /\ Entered /\ IsBox(box)
  BY DEF SInv, Boxes
<1>1. /\ Head1(watchdog, "data")
      /\ UNCHANGED <<lvars, subid, user_secret, agent, gvars, stop, POS, onmap>>
  BY DEF SOCKET_data
<1>2. /\ Msg(watchdog)[1] = "data" /\ Fine(watchdog, Msg(watchdog))
      /\ Mail(box, Rest(watchdog), {}) /\ box[watchdog] # <<>>
  BY <1>1, HandlesAll, Reads
<1>3. PICK fd \in Fd, k \in DOMAIN login : Msg(watchdog) = <<"data", fd, k>>
  BY <1>2, FineIs DEF FineAtWatchdog
<1> DEFINE u == login[k].user
           r == [fd |-> fd, user |-> u, subid |-> login[k].subid]
<1>4. u \in User /\ login[k].subid \in Nat
  BY <1>0, <1>3, LoginTypes
<1>5. CASE user_secret[u] \notin {0, login[k].subid}
  <2>1. /\ box' = Send(Rest(watchdog), gate, <<"kick", fd, Nil, <<"nobody">> >>)
        /\ UNCHANGED <<session_map, born, start>>
    BY <1>3, <1>5 DEF SOCKET_data
  <2>2. Types'
    BY <1>0, <1>1, <2>1 DEF Types, lvars, gvars, Agent, LoginRecord
  <2>3. Entered' /\ Grows
    BY <1>0, <1>1, <2>1, SameEntered, SameGrows DEF lvars, gvars
  <2> DEFINE m == <<"kick", fd, Nil, <<"nobody">> >>
  <2>4. Mail(box, box', {<<gate, m>>})
    BY <1>0, <1>2, <2>1, HandlesAll, TakeSend
  <2>5. FineAtGate(m)'
    BY DEF FineAtGate, CallerFine
  <2>6. Fine(gate, m)' /\ gate # aoi
    BY <2>5, FineIs, SessionAssumption
  <2>7. m \notin {<<"move">>, <<"left">>} /\ \A n : ~Bears(gate, m, n)
    BY SessionAssumption DEF Bears
  <2> HIDE DEF m
  <2> QED
    BY <1>1, <2>2, <2>3, <2>4, <2>6, <2>7, PlainStep
<1>6. CASE user_secret[u] = 0
  <2>1. box' = Rest(watchdog) /\ UNCHANGED <<session_map, born, start>>
    BY <1>3, <1>6 DEF SOCKET_data
  <2>2. Types'
    BY <1>0, <1>1, <2>1 DEF Types, lvars, gvars, Agent, LoginRecord
  <2>3. Entered' /\ Grows
    BY <1>0, <1>1, <2>1, SameEntered, SameGrows DEF lvars, gvars
  <2> QED
    BY <1>1, <1>2, <2>1, <2>2, <2>3, PlainStep
<1>7. CASE user_secret[u] = login[k].subid /\ user_secret[u] # 0
  <2>1. /\ box' = Rest(watchdog) /\ born' = Append(born, r)
        /\ session_map' = [session_map EXCEPT ![fd] = u]
        /\ start' = [start EXCEPT ![Len(born) + 1] = "launched"]
    BY <1>3, <1>7 DEF SOCKET_data
  <2>2. r \in [fd : Fd, user : User, subid : Nat]
    BY <1>4
  <2> HIDE DEF r
  <2>3. /\ born' \in Seq([fd : Fd, user : User, subid : Nat]) /\ Len(born') = Len(born) + 1
        /\ \A i \in 1 .. Len(born) : born'[i] = born[i]
    BY <1>0, <2>1, <2>2, BornTypes, AppendProperties
  <2>4. /\ session_map' \in [Fd -> User \cup {Nil}]
        /\ start' \in [Agent -> {"none", "launched", "loadid", "forward", "failed",
                                 "load", "beating", "up"}]
        /\ \A a \in Agent : start'[a] # "none" => start[a] # "none" \/ a = Len(born) + 1
    BY <1>0, <1>4, <2>1 DEF Types
  <2>5. Types'
    BY <1>0, <1>1, <2>3, <2>4 DEF Types, lvars, gvars, Agent, LoginRecord
  <2>6. \A a : Known(a) => Known(a)' /\ born'[a] = born[a]
    BY <1>0, <2>3, BornTypes, ServicesApart DEF Known, Agent
  <2>7. Grows
    BY <1>1, <2>6 DEF Grows, lvars, gvars
  <2>8. Entered'
    <3>1. \A a \in Agent : start'[a] # "none" => start[a] # "none" \/ Known(a)'
      BY <1>0, <2>3, <2>4, BornTypes DEF Known, Agent
    <3> QED
      BY <1>0, <1>1, <2>7, <3>1, EnteredStep DEF gvars
  <2> QED
    BY <1>1, <1>2, <2>1, <2>5, <2>7, <2>8, PlainStep
<1> QED
  BY <1>5, <1>6, <1>7

(* The gate. *)
LEMMA GateKickStep ==
  ASSUME SInv, CMD_gate_kick
  PROVE  SInv'
<1>0. Types /\ Boxes /\ Logins /\ Entered /\ IsBox(box)
  BY DEF SInv, Boxes
<1>1. /\ Head1(gate, "kick") /\ UNCHANGED <<lvars, wvars, forward, avars, onmap>>
  BY DEF CMD_gate_kick
<1>2. /\ Msg(gate)[1] = "kick" /\ Fine(gate, Msg(gate)) /\ box[gate] # <<>>
  BY <1>1, HandlesAll, Reads
<1>2a. PICK fd \in Fd : \E a, x : /\ Msg(gate) = <<"kick", fd, a, x>>
                                  /\ a # Nil => Known(a) /\ born[a].fd = fd
                                  /\ CallerFine(x) \/ IsKick(x)
  BY <1>2, FineIs DEF FineAtGate
<1>3. PICK a, x : /\ Msg(gate) = <<"kick", fd, a, x>>
                  /\ a # Nil => Known(a) /\ born[a].fd = fd
                  /\ CallerFine(x) \/ IsKick(x)
  BY <1>2a
<1>4. /\ connection' = [connection EXCEPT ![fd] = FALSE]
      /\ box' = Send(Rest(gate), watchdog, <<"gate_kicked", a, x>>)
  BY <1>3 DEF CMD_gate_kick
<1>5. /\ connection' \in [Fd -> BOOLEAN] /\ ~connection'[fd]
      /\ \A f \in Fd : connection'[f] => connection[f]
  BY <1>0, <1>4 DEF Types
<1>6. Types'
  BY <1>0, <1>1, <1>5 DEF Types, lvars, wvars, avars, Agent, LoginRecord
<1>7. Grows
  BY <1>1, <1>5 DEF Grows, Known, lvars, wvars, avars
<1>8. Entered' /\ UNCHANGED <<stop, POS, onmap>>
  BY <1>0, <1>1, SameEntered DEF wvars, avars
<1>9. Logins'
  BY <1>0, LoginsGateKick
<1> DEFINE m == <<"gate_kicked", a, x>>
<1>10. Mail(box, box', {<<watchdog, m>>})
  BY <1>0, <1>2, <1>4, HandlesAll, TakeSend
<1>11. Fine(watchdog, m)' /\ watchdog # aoi
  <2>1. a # Nil => Known(a)' /\ ~connection'[born'[a].fd]
    BY <1>3, <1>5, <1>7 DEF Grows
  <2>2. CallerFine(x)' \/ IsKick(x)
    BY <1>3, <1>7 DEF Grows, CallerFine
  <2>3. FineAtWatchdog(m)'
    BY <2>1, <2>2 DEF FineAtWatchdog, IsKick
  <2> QED
    BY <2>3, FineIs, SessionAssumption
<1>12. m \notin {<<"move">>, <<"left">>}
  OBVIOUS
<1> HIDE DEF m
<1> QED
  BY <1>6, <1>7, <1>8, <1>9, <1>10, <1>11, <1>12, OneSent

LEMMA ForwardStep ==
  ASSUME SInv, CMD_forward
  PROVE  SInv'
<1>0. Types /\ Boxes /\ Logins /\ Entered /\ IsBox(box)
  BY DEF SInv, Boxes
<1>1. /\ Head1(gate, "forward") /\ UNCHANGED <<lvars, wvars, connection, avars, onmap>>
  BY DEF CMD_forward
<1>2. /\ Msg(gate)[1] = "forward" /\ Fine(gate, Msg(gate)) /\ box[gate] # <<>>
  BY <1>1, HandlesAll, Reads
<1>3. PICK a \in Agent : Known(a) /\ Msg(gate) = <<"forward", born[a].fd, a>>
  BY <1>2, FineIs DEF FineAtGate
<1>4. PICK fd \in Fd : fd = born[a].fd
  BY <1>0, <1>3, KnownFd
<1>5. \/ box' = Send(Rest(gate), a, <<"not_forwarded">>) /\ UNCHANGED forward
      \/ /\ box' = Send(Rest(gate), a, <<"forwarded">>)
         /\ forward' = [forward EXCEPT ![fd] = a]
  BY <1>3, <1>4 DEF CMD_forward
<1>6. /\ forward' \in [Fd -> Agent \cup {Nil, watchdog}]
      /\ \A f \in Fd : forward'[f] = forward[f] \/ (f = fd /\ forward'[f] = a)
  BY <1>0, <1>5 DEF Types
<1>7. Types'
  BY <1>0, <1>1, <1>6 DEF Types, lvars, wvars, avars, Agent, LoginRecord
<1>8. Grows
  BY <1>1, SameGrows DEF lvars, wvars, avars
<1>9. Entered'
  <2>1. a <= Len(born') /\ born'[a].fd = fd
    BY <1>1, <1>3, <1>4 DEF Known, wvars
  <2> QED
    BY <1>0, <1>1, <1>6, <1>8, <2>1, EnteredStep DEF wvars, avars
<1>10. ASSUME NEW m \in {<<"forwarded">>, <<"not_forwarded">>}, box' = Send(Rest(gate), a, m)
       PROVE  SInv'
  <2>1. a \in All /\ a \notin Service
    BY ServicesApart
  <2>2. Mail(box, box', {<<a, m>>})
    BY <1>0, <1>2, <1>10, <2>1, HandlesAll, TakeSend
  <2>3. FineAtAgent(a, m)'
    BY <1>3, <1>8 DEF FineAtAgent, Grows
  <2>4. Fine(a, m)' /\ a # aoi
    BY <2>1, <2>3, FineIs DEF Service
  <2>5. m \notin {<<"move">>, <<"left">>} /\ \A n : ~Bears(a, m, n)
    BY <2>1 DEF Bears, Service
  <2> QED
    BY <1>1, <1>7, <1>8, <1>9, <2>2, <2>4, <2>5, PlainStep DEF wvars, avars
<1> QED
  BY <1>5, <1>10

LEMMA DisconnectStep ==
  ASSUME SInv, NEW fd \in Fd, disconnect(fd)
  PROVE  SInv'
<1>0. Types /\ Boxes /\ Logins /\ Entered /\ IsBox(box)
  BY DEF SInv, Boxes
<1>1. /\ UNCHANGED <<lvars, wvars, avars, onmap>>
      /\ forward' = [forward EXCEPT ![fd] = Nil]
      /\ connection' = [connection EXCEPT ![fd] = FALSE]
      /\ box' = Send(box, watchdog, <<"close", fd, <<"nobody">> >>)
  BY DEF disconnect
<1>2. /\ connection' \in [Fd -> BOOLEAN]
      /\ \A f \in Fd : connection'[f] => connection[f]
      /\ forward' \in [Fd -> Agent \cup {Nil, watchdog}]
      /\ \A f \in Fd : forward'[f] = forward[f] \/ forward'[f] = Nil
  BY <1>0, <1>1 DEF Types
<1>3. Types'
  BY <1>0, <1>1, <1>2 DEF Types, lvars, wvars, avars, Agent, LoginRecord
<1>4. Grows
  BY <1>1, <1>2 DEF Grows, Known, lvars, wvars, avars
<1>5. Entered'
  BY <1>0, <1>1, <1>2, <1>4, ServicesApart, EnteredStep DEF wvars, avars
<1> DEFINE m == <<"close", fd, <<"nobody">> >>
<1>6. Mail(box, box', {<<watchdog, m>>})
  BY <1>0, <1>1, HandlesAll, JustSend
<1>7. FineAtWatchdog(m)'
  BY DEF FineAtWatchdog, CallerFine
<1>8. Fine(watchdog, m)' /\ watchdog # aoi
  BY <1>7, FineIs, SessionAssumption
<1>9. m \notin {<<"move">>, <<"left">>} /\ \A n : ~Bears(watchdog, m, n)
  BY SessionAssumption DEF Bears
<1> HIDE DEF m
<1> QED
  BY <1>1, <1>3, <1>4, <1>5, <1>6, <1>8, <1>9, PlainStep DEF wvars, avars

(* Agents that start. *)
Starts == {"none", "launched", "loadid", "forward", "failed", "load", "beating", "up"}

LEMMA StartStep ==
  ASSUME SInv, UNCHANGED <<lvars, subid, user_secret, session_map, born, gvars,
                           stop, POS, onmap>>,
         NEW a \in Agent, Known(a), NEW s \in Starts, start' = [start EXCEPT ![a] = s],
         agent' \in {agent, [agent EXCEPT ![born[a].fd] = a]},
         \/ Mail(box, box', {})
         \/ \E to, m : /\ Mail(box, box', {<<to, m>>}) /\ Fine(to, m)'
                       /\ to # aoi /\ m \notin {<<"move">>, <<"left">>}
                       /\ \A n : ~Bears(to, m, n)
  PROVE  SInv'
<1>0. Types /\ Entered
  BY DEF SInv
<1>1. Grows
  BY SameGrows DEF lvars, gvars
<1>2. born[a].fd \in Fd
  BY <1>0, KnownFd
<1>3. /\ start' \in [Agent -> Starts] /\ agent' \in [Fd -> Agent \cup {Nil}]
      /\ \A e \in Agent : start'[e] # "none" => start[e] # "none" \/ e = a
      /\ \A fd \in Fd : agent'[fd] = agent[fd] \/ (agent'[fd] = a /\ fd = born[a].fd)
  BY <1>0, <1>2 DEF Types, Starts
<1>4. Types'
  BY <1>0, <1>3 DEF Types, lvars, gvars, Agent, LoginRecord, Starts
<1>5. Known(a)' /\ a <= Len(born') /\ born'[a] = born[a]
  BY DEF Known
<1>6. Entered'
  BY <1>0, <1>1, <1>3, <1>5, EnteredStep DEF gvars
<1> QED
  BY <1>1, <1>4, <1>6, PlainStep

LEMMA AnsweredStep ==
  ASSUME SInv, NEW a \in Agent,
         SOCKET_data_launched(a) \/ CMD_start_loadid(a) \/ CMD_start_load(a)
  PROVE  SInv'
<1>0. Types /\ Boxes /\ Entered /\ IsBox(box)
  BY DEF SInv, Boxes
<1>1. Known(a) /\ UNCHANGED <<lvars, subid, user_secret, session_map, born, gvars,
                              stop, POS, onmap>>
  BY <1>0 DEF SOCKET_data_launched, CMD_start_loadid, CMD_start_load, Entered, wvars
<1>2. CASE SOCKET_data_launched(a)
  <2>1. /\ box' = box /\ start' = [start EXCEPT ![a] = "loadid"] /\ "loadid" \in Starts
        /\ agent' = [agent EXCEPT ![born[a].fd] = a]
    BY <1>2 DEF SOCKET_data_launched, Starts
  <2>2. Mail(box, box', {})
    BY <1>0, <2>1, SameMail
  <2> QED
    BY <1>1, <2>1, <2>2, StartStep
<1>3. CASE CMD_start_loadid(a)
  <2>1. PICK fd \in Fd : fd = born[a].fd
    BY <1>0, <1>1, KnownFd
  <2> DEFINE m == <<"forward", fd, a>>
  <2>2. /\ agent' = agent /\ "forward" \in Starts /\ "failed" \in Starts
        /\ \/ box' = Send(box, gate, m) /\ start' = [start EXCEPT ![a] = "forward"]
           \/ box' = box /\ start' = [start EXCEPT ![a] = "failed"]
    BY <1>3, <2>1 DEF CMD_start_loadid, Starts, wvars
  <2>3. /\ Mail(box, Send(box, gate, m), {<<gate, m>>})
        /\ Mail(box, box, {})
    BY <1>0, HandlesAll, JustSend, SameMail
  <2>4. FineAtGate(m)'
    <3>1. Known(a)' /\ born'[a].fd = fd
      BY <1>1, <2>1 DEF Known
    <3> QED
      BY <3>1 DEF FineAtGate, Agent
  <2>5. Fine(gate, m)' /\ gate # aoi
    BY <2>4, FineIs, SessionAssumption
  <2>6. m \notin {<<"move">>, <<"left">>} /\ \A n : ~Bears(gate, m, n)
    BY SessionAssumption DEF Bears
  <2> HIDE DEF m
  <2> QED
    BY <1>1, <2>2, <2>3, <2>5, <2>6, StartStep
<1>4. CASE CMD_start_load(a)
  <2>1. /\ box' = box /\ agent' = agent
        /\ \E s \in Starts : start' = [start EXCEPT ![a] = s]
    BY <1>4 DEF CMD_start_load, Starts, wvars
  <2>2. Mail(box, box', {})
    BY <1>0, <2>1, SameMail
  <2> QED
    BY <1>1, <2>1, <2>2, StartStep
<1> QED
  BY <1>2, <1>3, <1>4

LEMMA HeartbeatStep ==
  ASSUME SInv, NEW a \in Agent, heartbeat(a)
  PROVE  SInv'
<1>0. Types /\ Boxes /\ Entered /\ IsBox(box)
  BY DEF SInv, Boxes
<1>1. Known(a) /\ UNCHANGED <<lvars, subid, user_secret, session_map, born, gvars,
                              stop, POS, onmap>>
  BY <1>0 DEF heartbeat, Entered, wvars
<1>2. PICK fd \in Fd : fd = born[a].fd
  BY <1>0, <1>1, KnownFd
<1> DEFINE m == <<"close", fd, <<"nobody">> >>
<1>3. /\ box' = Send(box, watchdog, m) /\ start' = [start EXCEPT ![a] = "up"]
      /\ "up" \in Starts /\ agent' = agent
  BY <1>2 DEF heartbeat, Starts, wvars
<1>4. Mail(box, box', {<<watchdog, m>>})
  BY <1>0, <1>3, HandlesAll, JustSend
<1>5. FineAtWatchdog(m)'
  BY DEF FineAtWatchdog, CallerFine
<1>6. Fine(watchdog, m)' /\ watchdog # aoi
  BY <1>5, FineIs, SessionAssumption
<1>7. m \notin {<<"move">>, <<"left">>} /\ \A n : ~Bears(watchdog, m, n)
  BY SessionAssumption DEF Bears
<1> HIDE DEF m
<1> QED
  BY <1>1, <1>3, <1>4, <1>6, <1>7, StartStep

LEMMA ForwardedStep ==
  ASSUME SInv, NEW a \in Agent, CMD_start_forwarded(a)
  PROVE  SInv'
<1>0. Types /\ Boxes /\ Entered /\ IsBox(box) /\ a \in All
  BY ServicesApart DEF SInv, Boxes
<1>1. /\ UNCHANGED <<lvars, wvars, gvars, stop, POS, onmap>> /\ box' = Rest(a)
      /\ \/ Head1(a, "forwarded") /\ start' = [start EXCEPT ![a] = "load"]
         \/ Head1(a, "not_forwarded") /\ start' = [start EXCEPT ![a] = "failed"]
  BY DEF CMD_start_forwarded
<1>2. /\ Mail(box, box', {}) /\ Fine(a, Msg(a))
      /\ Msg(a)[1] \in {"forwarded", "not_forwarded"}
  BY <1>0, <1>1, Reads
<1>3. Known(a)
  BY <1>2, FineIs DEF FineAtAgent
<1>4. PICK s \in Starts : start' = [start EXCEPT ![a] = s]
  BY <1>1 DEF Starts
<1> QED
  BY <1>1, <1>2, <1>3, <1>4, StartStep DEF wvars

(* A packet of a client. *)
LEMMA MessageStep ==
  ASSUME SInv, NEW fd \in Fd, message(fd)
  PROVE  SInv'
<1>0. /\ Types /\ Boxes /\ Logins /\ Entered /\ Stops /\ Leaves /\ IsBox(box)
      /\ connection[fd]
  BY DEF SInv, Boxes, message
<1>1. UNCHANGED <<lvars, wvars, gvars, avars, onmap>>
  BY DEF message
<1>2. Types'
  BY <1>0, <1>1 DEF Types, lvars, wvars, gvars, avars, Agent, LoginRecord
<1>3. Grows /\ Entered' /\ UNCHANGED <<lvars, user_secret, stop, POS, onmap>>
  BY <1>0, <1>1, SameGrows, SameEntered DEF lvars, wvars, gvars, avars
<1>4. ASSUME NEW k \in DOMAIN login, box' = Send(box, watchdog, <<"data", fd, k>>)
      PROVE  SInv'
  <2> DEFINE m == <<"data", fd, k>>
  <2>1. Mail(box, box', {<<watchdog, m>>})
    BY <1>0, <1>4, HandlesAll, JustSend
  <2>2. FineAtWatchdog(m)'
    BY <1>3 DEF FineAtWatchdog, Grows
  <2>3. Fine(watchdog, m)' /\ watchdog # aoi
    BY <2>2, FineIs, SessionAssumption
  <2>4. m \notin {<<"move">>, <<"left">>} /\ \A n : ~Bears(watchdog, m, n)
    BY SessionAssumption DEF Bears
  <2> HIDE DEF m
  <2> QED
    BY <1>2, <1>3, <2>1, <2>3, <2>4, PlainStep
<1>5. ASSUME NEW a \in Agent, a = forward[fd], box' = Send(box, a, <<"move">>)
      PROVE  SInv'
  <2>0. a \in All /\ a \notin Service /\ a # aoi
    BY ServicesApart DEF Service
  <2> DEFINE P == {<<a, <<"move">> >>}
  <2>1. Mail(box, box', P)
    BY <1>0, <1>5, <2>0, JustSend
  <2>2. Known(a) /\ connection[born[a].fd]
    BY <1>0, <1>5 DEF Entered
  <2>3. stop[a] = "no" /\ stop'[a] = "no"
    BY <1>0, <1>3, <2>2 DEF Stops
  <2>4. ~Has(box[a], <<"disconnect">>)
    <3>1. ~FineAtAgent(a, <<"disconnect">>)
      BY <2>2 DEF FineAtAgent
    <3> QED
      BY <1>0, <2>0, <3>1, FineIs DEF Boxes
  <2>5. \A t, m : <<t, m>> \in P => t = a /\ m = <<"move">>
    OBVIOUS
  <2>6. \A p \in P : Fine(p[1], p[2])' /\ \A n : ~Bears(p[1], p[2], n)
    <3>1. FineAtAgent(a, <<"move">>)'
      BY <1>3, <2>2 DEF FineAtAgent, Grows
    <3>2. Fine(a, <<"move">>)' /\ \A n : ~Bears(a, <<"move">>, n)
      BY <2>0, <3>1, FineIs DEF Bears, Service
    <3> QED
      BY <3>2
  <2> HIDE DEF P
  <2>7. Boxes'
    BY <1>0, <1>3, <2>1, <2>6, BoxesStep
  <2>8. Logins'
    BY <1>0, <1>3, <2>1, <2>6, LoginsQuiet
  <2>9. Stops'
    <3>1. \A e \in Agent : <<e, <<"move">> >> \in P =>
            /\ stop'[e] = "no" /\ ~Has(box[e], <<"disconnect">>)
            /\ <<e, <<"disconnect">> >> \notin P
      BY <2>3, <2>4, <2>5
    <3> QED
      BY <1>0, <1>3, <2>1, <3>1, StopsStep
  <2>10. Leaves'
    <3>1. \A m : <<aoi, m>> \notin P
      BY <2>0, <2>5
    <3>2. \A e \in Agent : Gone(e)' => Gone(e)
      <4> SUFFICES ASSUME NEW e \in Agent, Has(box'[e], <<"left">>) PROVE Has(box[e], <<"left">>)
        BY <1>3 DEF Gone
      <4>1. <<e, <<"left">> >> \notin P /\ e \in All
        BY <2>5, ServicesApart
      <4> QED
        BY <1>0, <2>1, <4>1, MailHas
    <3> QED
      BY <1>0, <1>3, <2>1, <3>1, <3>2, LeavesStep
  <2> QED
    BY <1>2, <1>3, <2>7, <2>8, <2>9, <2>10 DEF SInv
<1> QED
  BY <1>4, <1>5 DEF message

(* The agent moves: its enter is sent before any leave of it. *)
LEMMA MoveStep ==
  ASSUME SInv, NEW a \in Agent, move(a)
  PROVE  SInv'
<1>0. /\ Types /\ Boxes /\ Logins /\ Entered /\ Stops /\ Leaves /\ IsBox(box)
      /\ a \in All /\ a \notin Service
  BY ServicesApart DEF SInv, Boxes
<1>1. Head1(a, "move") /\ UNCHANGED <<lvars, wvars, gvars, start, stop, onmap>>
  BY DEF move
<1>2. /\ box[a] # <<>> /\ Has(box[a], Msg(a)) /\ Fine(a, Msg(a)) /\ Msg(a)[1] = "move"
      /\ Mail(box, Rest(a), {})
  BY <1>0, <1>1, Reads
<1>3. Msg(a) = <<"move">> /\ Known(a)
  BY <1>2, FineIs DEF FineAtAgent
<1>4. stop[a] = "no" /\ stop'[a] = "no"
  BY <1>0, <1>1, <1>2, <1>3 DEF Stops
<1>5. CASE ~Up(a)
  <2>1. Mail(box, box', {}) /\ POS' = POS
    BY <1>2, <1>5 DEF move
  <2>2. Types'
    BY <1>0, <1>1, <2>1 DEF Types, lvars, wvars, gvars, Agent, LoginRecord
  <2>3. Grows /\ Entered'
    BY <1>0, <1>1, <2>1, SameGrows, SameEntered DEF lvars, wvars, gvars
  <2> QED
    BY <1>1, <2>1, <2>2, <2>3, PlainStep DEF wvars
<1>6. CASE Up(a)
  <2>1. PICK u \in User : u = born[a].user
    BY <1>0, <1>3, KnownFd
  <2> DEFINE m == <<"enter", u, a>>
             P == {<<aoi, m>>}
  <2>2. POS' = POS \cup {a} /\ box' = Send(Rest(a), aoi, m)
    BY <1>6, <2>1 DEF move
  <2>3. Mail(box, box', P)
    BY <1>0, <1>2, <2>2, HandlesAll, TakeSend
  <2>4. Types'
    BY <1>0, <1>1, <2>2 DEF Types, lvars, wvars, gvars, Agent, LoginRecord
  <2>5. Grows
    BY <1>1, <2>2 DEF Grows, Known, lvars, wvars, gvars
  <2>6. Entered'
    BY <1>0, <1>1, <2>5, EnteredStep DEF wvars, gvars
  <2>7. \A t, e : <<t, e>> \in P => t = aoi /\ e = m
    OBVIOUS
  <2>8. \A p \in P : Fine(p[1], p[2])' /\ \A n : ~Bears(p[1], p[2], n)
    <3>1. Known(a)' /\ born'[a].user = u /\ a \in POS'
      BY <1>1, <1>3, <2>1, <2>2 DEF Known, wvars
    <3>2. FineAtAoi(m)'
      BY <3>1 DEF FineAtAoi
    <3>3. Fine(aoi, m)' /\ \A n : ~Bears(aoi, m, n)
      BY <3>2, FineIs, SessionAssumption DEF Bears
    <3> QED
      BY <3>3
  <2> HIDE DEF P
  <2>9. Boxes'
    BY <1>0, <2>3, <2>5, <2>8, BoxesStep
  <2>10. Logins'
    BY <1>0, <1>1, <2>3, <2>8, LoginsQuiet DEF wvars
  <2>11. \A e \in Agent : \A x : <<e, x>> \notin P
    BY <2>7, ServicesApart DEF Service
  <2>12. Stops'
    BY <1>0, <1>1, <2>3, <2>5, <2>11, StopsStep
  <2>13. Leaves'
    <3>1. \A e, v : <<aoi, <<"enter", v, e>> >> \in P =>
            /\ stop[e] = "no" /\ stop'[e] = "no"
            /\ \A f : <<aoi, <<"leave", v, e, f>> >> \notin P
      <4> SUFFICES ASSUME NEW e, NEW v, <<aoi, <<"enter", v, e>> >> \in P
                   PROVE  /\ stop[e] = "no" /\ stop'[e] = "no"
                          /\ \A f : <<aoi, <<"leave", v, e, f>> >> \notin P
        OBVIOUS
      <4>1. <<"enter", v, e>> = m
        BY <2>7
      <4>2. e = a
        BY <4>1
      <4>3. \A f : <<"leave", v, e, f>> # m
        OBVIOUS
      <4> QED
        BY <1>4, <2>7, <4>2, <4>3
    <3>2. \A e, v : <<aoi, <<"leave", v, e, FALSE>> >> \notin P
      <4>1. \A e, v : <<"leave", v, e, FALSE>> # m
        OBVIOUS
      <4> QED
        BY <2>7, <4>1
    <3>3. \A e \in POS' \ POS : stop[e] = "no"
      BY <1>4, <2>2
    <3>4. \A e \in Agent : Gone(e)' => Gone(e)
      <4> SUFFICES ASSUME NEW e \in Agent, Has(box'[e], <<"left">>) PROVE Has(box[e], <<"left">>)
        BY <1>1 DEF Gone
      <4> QED
        BY <1>0, <2>3, <2>11, ServicesApart, MailHas
    <3> QED
      BY <1>0, <1>1, <2>3, <2>5, <3>1, <3>2, <3>3, <3>4, LeavesStep
  <2> QED
    BY <2>4, <2>6, <2>9, <2>10, <2>12, <2>13 DEF SInv
<1> QED
  BY <1>5, <1>6

(* The agent is told to disconnect: no packet for it is left. *)
LEMMA AgentDisconnectStep ==
  ASSUME SInv, NEW a \in Agent, CMD_disconnect(a)
  PROVE  SInv'
<1>0. /\ Types /\ Boxes /\ Logins /\ Entered /\ Stops /\ Leaves /\ IsBox(box)
      /\ a \in All /\ a \notin Service
  BY ServicesApart DEF SInv, Boxes
<1>1. /\ Head1(a, "disconnect") /\ UNCHANGED <<lvars, wvars, gvars, start, POS, onmap>>
      /\ stop' = [stop EXCEPT ![a] = "close"]
  BY DEF CMD_disconnect
<1>2. /\ box[a] # <<>> /\ Fine(a, Msg(a)) /\ Msg(a)[1] = "disconnect"
      /\ 1 \in 1 .. Len(box[a]) /\ Msg(a) = box[a][1]
  BY <1>0, <1>1, Reads, HeadFacts
<1>3. Msg(a) = <<"disconnect">> /\ Known(a) /\ ~connection[born[a].fd]
  BY <1>2, FineIs DEF FineAtAgent
<1>4. ~Has(box[a], <<"move">>)
  <2> SUFFICES ASSUME NEW i \in 1 .. Len(box[a]), box[a][i] = <<"move">> PROVE FALSE
    BY DEF Has
  <2>1. i < 1
    BY <1>0, <1>2, <1>3 DEF Stops, Before
  <2>2. Len(box[a]) \in Nat
    BY <1>0, BoxLen
  <2> QED
    BY <2>1, <2>2
<1>5. PICK fd \in Fd : fd = born[a].fd
  BY <1>0, <1>3, KnownFd
<1> DEFINE m == <<"close", fd, <<"agent", a>> >>
           P == {<<watchdog, m>>}
<1>6. Mail(box, box', P)
  <2>1. box' = Send(Rest(a), watchdog, m)
    BY <1>5 DEF CMD_disconnect
  <2> QED
    BY <1>0, <1>2, <2>1, HandlesAll, TakeSend
<1>7. /\ stop' \in [Agent -> {"no", "close", "leave", "save", "exited", "unsaved"}]
      /\ stop'[a] = "close" /\ \A e \in Agent \ {a} : stop'[e] = stop[e]
  BY <1>0, <1>1 DEF Types
<1>8. Types'
  BY <1>0, <1>1, <1>7 DEF Types, lvars, wvars, gvars, Agent, LoginRecord
<1>9. Grows
  <2>1. \A e \in Agent : stop[e] # "no" => stop'[e] # "no"
    BY <1>7
  <2> QED
    BY <1>1, <2>1 DEF Grows, Known, lvars, wvars, gvars
<1>10. Entered'
  BY <1>0, <1>1, SameEntered DEF wvars, gvars
<1>11. \A t, e : <<t, e>> \in P => t = watchdog /\ e = m
  OBVIOUS
<1>12. \A p \in P : Fine(p[1], p[2])' /\ \A n : ~Bears(p[1], p[2], n)
  <2>1. FineAtWatchdog(m)'
    <3>1. CallerFine(<<"agent", a>>)'
      BY <1>7 DEF CallerFine, Agent
    <3> QED
      BY <3>1 DEF FineAtWatchdog
  <2>2. Fine(watchdog, m)' /\ \A n : ~Bears(watchdog, m, n)
    BY <2>1, FineIs, SessionAssumption DEF Bears
  <2> QED
    BY <2>2
<1> HIDE DEF P
<1>13. Boxes'
  BY <1>0, <1>6, <1>9, <1>12, BoxesStep
<1>14. Logins'
  BY <1>0, <1>1, <1>6, <1>12, LoginsQuiet DEF wvars
<1>15. watchdog # aoi /\ \A e \in Agent : \A x : <<e, x>> \notin P
  BY <1>11, ServicesApart, SessionAssumption DEF Service
<1>16. Stops'
  <2>1. \A e \in Agent : stop'[e] # "no" =>
          \/ stop[e] # "no"
          \/ Known(e) /\ ~connection[born[e].fd] /\ ~Has(box[e], <<"move">>)
    BY <1>3, <1>4, <1>7
  <2> QED
    BY <1>0, <1>6, <1>9, <1>15, <2>1, StopsStep
<1>17. Leaves'
  <2>1. \A x : <<aoi, x>> \notin P
    BY <1>11, <1>15
  <2>2. \A e \in Agent : Gone(e)' => Gone(e)
    <3> SUFFICES ASSUME NEW e \in Agent, Gone(e)' PROVE Gone(e)
      OBVIOUS
    <3>1. Has(box'[e], <<"left">>) => Has(box[e], <<"left">>)
      BY <1>0, <1>6, <1>15, ServicesApart, MailHas
    <3>2. stop'[e] \in {"save", "exited", "unsaved"} => stop[e] \in {"save", "exited", "unsaved"}
      BY <1>7
    <3> QED
      BY <3>1, <3>2 DEF Gone
  <2> QED
    BY <1>0, <1>1, <1>6, <1>9, <2>1, <2>2, LeavesStep
<1> QED
  BY <1>8, <1>10, <1>13, <1>14, <1>16, <1>17 DEF SInv

(* The rest of CMD.disconnect: an agent that has begun to stop goes on;    *)
(* all it sends is a leave.                                                *)
Parting(a, P) ==
  \A p \in P : \E f \in BOOLEAN :
    p = <<aoi, <<"leave", born[a].user, a, f>> >> /\ (f = FALSE => a \notin POS)

LEMMA GoesOn ==
  ASSUME SInv, NEW a \in Agent, stop[a] # "no",
         NEW s \in {"leave", "save", "exited", "unsaved"},
         stop' = [stop EXCEPT ![a] = s], s # "leave" => Gone(a),
         UNCHANGED <<lvars, wvars, gvars, start, POS, onmap>>,
         NEW P, Mail(box, box', P), Parting(a, P)
  PROVE  SInv'
<1>0. /\ Types /\ Boxes /\ Logins /\ Entered /\ Stops /\ Leaves /\ IsBox(box)
      /\ Known(a)
  BY DEF SInv, Boxes, Stops
<1>1. /\ stop' \in [Agent -> {"no", "close", "leave", "save", "exited", "unsaved"}]
      /\ stop'[a] = s /\ \A e \in Agent \ {a} : stop'[e] = stop[e]
      /\ \A e \in Agent : stop[e] # "no" <=> stop'[e] # "no"
  BY <1>0 DEF Types
<1>2. Types'
  BY <1>0, <1>1 DEF Types, lvars, wvars, gvars, Agent, LoginRecord
<1>3. Grows
  BY <1>1 DEF Grows, Known, lvars, wvars, gvars
<1>4. Entered'
  BY <1>0, SameEntered DEF wvars, gvars
<1>5. PICK u \in User : u = born[a].user
  BY <1>0, KnownFd
<1>6. \A t, e : <<t, e>> \in P =>
        t = aoi /\ \E f \in BOOLEAN : e = <<"leave", u, a, f>> /\ (f = FALSE => a \notin POS)
  <2> SUFFICES ASSUME NEW t, NEW e, <<t, e>> \in P
               PROVE  t = aoi /\ \E f \in BOOLEAN :
                        e = <<"leave", u, a, f>> /\ (f = FALSE => a \notin POS)
    OBVIOUS
  <2>1. PICK f \in BOOLEAN : /\ <<t, e>> = <<aoi, <<"leave", u, a, f>> >>
                             /\ f = FALSE => a \notin POS
    BY <1>5 DEF Parting
  <2>2. t = aoi /\ e = <<"leave", u, a, f>>
    BY <2>1
  <2> QED
    BY <2>1, <2>2
<1>7. \A p \in P : Fine(p[1], p[2])' /\ \A n : ~Bears(p[1], p[2], n)
  <2> SUFFICES ASSUME NEW p \in P
               PROVE  Fine(p[1], p[2])' /\ \A n : ~Bears(p[1], p[2], n)
    OBVIOUS
  <2>1. PICK f \in BOOLEAN : p = <<aoi, <<"leave", u, a, f>> >>
    BY <1>5 DEF Parting
  <2> DEFINE m == <<"leave", u, a, f>>
  <2>2. Known(a)' /\ born'[a].user = u /\ stop'[a] # "no"
    BY <1>0, <1>1, <1>5 DEF Known, wvars
  <2>3. FineAtAoi(m)'
    BY <2>2 DEF FineAtAoi, Agent
  <2>4. Fine(aoi, m)' /\ \A n : ~Bears(aoi, m, n)
    BY <2>3, FineIs, SessionAssumption DEF Bears
  <2>5. p[1] = aoi /\ p[2] = m
    BY <2>1
  <2> HIDE DEF m
  <2> QED
    BY <2>4, <2>5
<1>8. Boxes'
  BY <1>0, <1>3, <1>7, BoxesStep
<1>9. Logins'
  BY <1>0, <1>7, LoginsQuiet DEF wvars
<1>10. \A e \in Agent : \A x : <<e, x>> \notin P
  BY <1>6, ServicesApart DEF Service
<1>11. Stops'
  BY <1>0, <1>1, <1>3, <1>10, StopsStep
<1>12. Leaves'
  <2>1. \A e, v : <<aoi, <<"enter", v, e>> >> \notin P
    <3>1. \A e, v, f : <<"enter", v, e>> # <<"leave", u, a, f>>
      OBVIOUS
    <3> QED
      BY <1>6, <3>1
  <2>2. \A e, v : <<aoi, <<"leave", v, e, FALSE>> >> \in P => e \notin POS'
    <3> SUFFICES ASSUME NEW e, NEW v, <<aoi, <<"leave", v, e, FALSE>> >> \in P
                 PROVE  e \notin POS'
      OBVIOUS
    <3>1. PICK f \in BOOLEAN : /\ <<"leave", v, e, FALSE>> = <<"leave", u, a, f>>
                               /\ f = FALSE => a \notin POS
      BY <1>6
    <3>2. e = a /\ f = FALSE
      BY <3>1
    <3> QED
      BY <3>1, <3>2
  <2>3. \A e \in Agent : Gone(e)' => Gone(e)
    <3> SUFFICES ASSUME NEW e \in Agent, Gone(e)' PROVE Gone(e)
      OBVIOUS
    <3>1. Has(box'[e], <<"left">>) => Has(box[e], <<"left">>)
      BY <1>0, <1>10, ServicesApart, MailHas
    <3>2. stop'[e] \in {"save", "exited", "unsaved"} => Gone(e)
      BY <1>1 DEF Gone
    <3> QED
      BY <3>1, <3>2 DEF Gone
  <2> QED
    BY <1>0, <1>3, <2>1, <2>2, <2>3, LeavesStep
<1> QED
  BY <1>2, <1>4, <1>8, <1>9, <1>11, <1>12 DEF SInv

LEMMA AgentEndsStep ==
  ASSUME SInv, NEW a \in Agent,
         CMD_disconnect_closed(a) \/ CMD_disconnect_left(a) \/ CMD_disconnect_saved(a)
  PROVE  SInv'
<1>0. Types /\ Boxes /\ Stops /\ Leaves /\ IsBox(box) /\ a \in All
  BY ServicesApart DEF SInv, Boxes
<1>1. UNCHANGED <<lvars, wvars, gvars, start, POS, onmap>>
  BY DEF CMD_disconnect_closed, CMD_disconnect_left, CMD_disconnect_saved
<1>2. CASE CMD_disconnect_closed(a)
  <2>1. Head1(a, "closed")
    BY <1>2 DEF CMD_disconnect_closed
  <2>2. box[a] # <<>> /\ Fine(a, Msg(a)) /\ Msg(a)[1] = "closed"
    BY <1>0, <2>1, Reads
  <2>3. stop[a] # "no"
    BY <2>2, FineIs DEF FineAtAgent
  <2> DEFINE m == <<"leave", born[a].user, a, a \in POS>>
  <2>4. box' = Send(Rest(a), aoi, m) /\ stop' = [stop EXCEPT ![a] = "leave"]
    BY <1>2 DEF CMD_disconnect_closed
  <2>5. Mail(box, box', {<<aoi, m>>})
    BY <1>0, <2>2, <2>4, HandlesAll, TakeSend
  <2>6. \E f \in BOOLEAN : m = <<"leave", born[a].user, a, f>> /\ (f = FALSE => a \notin POS)
    <3> (a \in POS) \in BOOLEAN
      OBVIOUS
    <3> WITNESS (a \in POS) \in BOOLEAN
    <3> QED
      OBVIOUS
  <2> HIDE DEF m
  <2>7. Parting(a, {<<aoi, m>>})
    BY <2>6 DEF Parting
  <2>8. "leave" \in {"leave", "save", "exited", "unsaved"}
    OBVIOUS
  <2> QED
    BY <1>1, <2>3, <2>4, <2>5, <2>7, <2>8, GoesOn
<1>3. CASE CMD_disconnect_left(a)
  <2>1. Head1(a, "left")
    BY <1>3 DEF CMD_disconnect_left
  <2>2. /\ box[a] # <<>> /\ Fine(a, Msg(a)) /\ Msg(a)[1] = "left" /\ Has(box[a], Msg(a))
        /\ Mail(box, Rest(a), {})
    BY <1>0, <2>1, Reads
  <2>3. stop[a] # "no" /\ Msg(a) = <<"left">>
    BY <2>2, FineIs DEF FineAtAgent
  <2>4. Gone(a)
    BY <2>2, <2>3 DEF Gone
  <2>5. PICK s \in {"save", "exited"} : stop' = [stop EXCEPT ![a] = s]
    BY <1>3 DEF CMD_disconnect_left
  <2>6. Mail(box, box', {})
    BY <1>0, <1>3, <2>2, DropMail DEF CMD_disconnect_left
  <2>7. Parting(a, {})
    BY DEF Parting
  <2> QED
    BY <1>1, <2>3, <2>4, <2>5, <2>6, <2>7, GoesOn
<1>4. CASE CMD_disconnect_saved(a)
  <2>1. PICK s \in {"exited", "unsaved"} : stop[a] = "save" /\ stop' = [stop EXCEPT ![a] = s]
    BY <1>4 DEF CMD_disconnect_saved
  <2>2. Gone(a) /\ stop[a] # "no"
    BY <2>1 DEF Gone
  <2>3. Mail(box, box', {})
    BY <1>0, <1>4, DropMail, SameMail DEF CMD_disconnect_saved
  <2>4. Parting(a, {}) /\ s \in {"leave", "save", "exited", "unsaved"}
    BY DEF Parting
  <2> QED
    BY <1>1, <2>1, <2>2, <2>3, <2>4, GoesOn
<1> QED
  BY <1>2, <1>3, <1>4

(* The map. *)
LEMMA EnterStep ==
  ASSUME SInv, CMD_enter
  PROVE  SInv'
<1>0. Types /\ Boxes /\ Logins /\ Entered /\ Stops /\ Leaves /\ IsBox(box)
  BY DEF SInv, Boxes
<1>1. Head1(aoi, "enter") /\ UNCHANGED <<lvars, wvars, gvars, avars>> /\ box' = Rest(aoi)
  BY DEF CMD_enter
<1>2. /\ Fine(aoi, Msg(aoi)) /\ Msg(aoi)[1] = "enter" /\ Has(box[aoi], Msg(aoi))
      /\ Mail(box, box', {})
  BY <1>1, HandlesAll, Reads
<1>3. PICK a \in POS : Known(a) /\ Msg(aoi) = <<"enter", born[a].user, a>>
  BY <1>2, FineIs DEF FineAtAoi
<1>4. PICK u \in User : u = born[a].user
  BY <1>0, <1>3, KnownFd
<1>5. a \in Agent /\ onmap' = [onmap EXCEPT ![u] = a]
  BY <1>0, <1>3, <1>4 DEF CMD_enter, Types
<1>6. /\ onmap' \in [User -> Agent \cup {Nil}]
      /\ \A v \in User : onmap'[v] = onmap[v] \/ (v = u /\ onmap'[v] = a)
  BY <1>0, <1>5 DEF Types
<1>7. Types'
  BY <1>0, <1>1, <1>6 DEF Types, lvars, wvars, gvars, avars, Agent, LoginRecord
<1>8. Grows /\ UNCHANGED <<lvars, user_secret, stop, POS>>
  BY <1>1, SameGrows DEF lvars, wvars, gvars, avars
<1>9. Entered'
  <2>1. a \in Agent /\ a <= Len(born') /\ born'[a].user = u /\ a \in POS'
    BY <1>1, <1>3, <1>4, <1>5 DEF Known, wvars, avars
  <2> QED
    BY <1>0, <1>1, <1>6, <1>8, <2>1, EnteredStep DEF wvars, gvars, avars
<1>10. Boxes'
  BY <1>0, <1>2, <1>8, BoxesStep
<1>11. Logins'
  BY <1>0, <1>2, <1>8, LoginsQuiet
<1>12. Stops'
  BY <1>0, <1>2, <1>8, StopsStep
<1>13. Leaves'
  <2>1. \A v \in User : onmap'[v] # Nil =>
          onmap'[v] = onmap[v] \/ Has(box[aoi], <<"enter", v, onmap'[v]>>)
    BY <1>2, <1>3, <1>4, <1>6
  <2>2. \A e \in Agent : Gone(e)' => Gone(e)
    <3> SUFFICES ASSUME NEW e \in Agent, Has(box'[e], <<"left">>) PROVE Has(box[e], <<"left">>)
      BY <1>8 DEF Gone
    <3> QED
      BY <1>0, <1>2, ServicesApart, MailHas
  <2> QED
    BY <1>0, <1>2, <1>8, <2>1, <2>2, LeavesStep
<1> QED
  BY <1>7, <1>9, <1>10, <1>11, <1>12, <1>13 DEF SInv

LEMMA LeaveStep ==
  ASSUME SInv, CMD_leave
  PROVE  SInv'
<1>0. Types /\ Boxes /\ Logins /\ Entered /\ Stops /\ Leaves /\ IsBox(box)
  BY DEF SInv, Boxes
<1>1. Head1(aoi, "leave") /\ UNCHANGED <<lvars, wvars, gvars, avars>>
  BY DEF CMD_leave
<1>2. /\ Fine(aoi, Msg(aoi)) /\ Msg(aoi)[1] = "leave" /\ Has(box[aoi], Msg(aoi))
      /\ box[aoi] # <<>>
  BY <1>1, HandlesAll, Reads
<1>3. PICK a \in Agent, f \in BOOLEAN :
        Known(a) /\ Msg(aoi) = <<"leave", born[a].user, a, f>> /\ stop[a] # "no"
  BY <1>2, FineIs DEF FineAtAoi
<1>4. PICK u \in User : u = born[a].user
  BY <1>0, <1>3, KnownFd
<1>5. /\ onmap' = IF f THEN [onmap EXCEPT ![u] = Nil] ELSE onmap
      /\ box' = Send(Rest(aoi), a, <<"left">>)
  BY <1>3, <1>4 DEF CMD_leave
<1>6. /\ onmap' \in [User -> Agent \cup {Nil}]
      /\ \A v \in User : onmap'[v] # Nil => onmap'[v] = onmap[v]
      /\ f => onmap'[u] = Nil
      /\ ~f => onmap' = onmap
  BY <1>0, <1>5 DEF Types
<1>7. Types'
  BY <1>0, <1>1, <1>6 DEF Types, lvars, wvars, gvars, avars, Agent, LoginRecord
<1>8. Grows /\ UNCHANGED <<lvars, user_secret, stop, POS>>
  BY <1>1, SameGrows DEF lvars, wvars, gvars, avars
<1>9. Entered'
  BY <1>0, <1>1, <1>6, <1>8, EnteredStep DEF wvars, gvars, avars
<1>10. a \in All /\ a \notin Service /\ a # aoi /\ a # Nil
  BY ServicesApart DEF Service
<1> DEFINE P == {<<a, <<"left">> >>}
           e == <<"enter", u, a>>
<1>11. Mail(box, box', P)
  BY <1>0, <1>2, <1>5, <1>10, HandlesAll, TakeSend
<1>12. \A t, m : <<t, m>> \in P => t = a /\ m = <<"left">>
  OBVIOUS
<1>13. \A p \in P : Fine(p[1], p[2])' /\ \A n : ~Bears(p[1], p[2], n)
  <2>1. FineAtAgent(a, <<"left">>)'
    BY <1>3, <1>8 DEF FineAtAgent
  <2>2. Fine(a, <<"left">>)' /\ \A n : ~Bears(a, <<"left">>, n)
    BY <1>10, <2>1, FineIs DEF Bears, Service
  <2> QED
    BY <2>2
<1> HIDE DEF P
<1>14. Boxes'
  BY <1>0, <1>8, <1>11, <1>13, BoxesStep
<1>15. Logins'
  BY <1>0, <1>8, <1>11, <1>13, LoginsQuiet
<1>16. Stops'
  <2>1. \A x : <<x, <<"move">> >> \notin P
    BY <1>12
  <2> QED
    BY <1>0, <1>8, <1>11, <2>1, StopsStep
<1>17. ~Has(box[aoi], e)
  <2> SUFFICES ASSUME NEW i \in 1 .. Len(box[aoi]), box[aoi][i] = e PROVE FALSE
    BY DEF Has
  <2>1. 1 \in 1 .. Len(box[aoi]) /\ box[aoi][1] = <<"leave", u, a, f>> /\ Len(box[aoi]) \in Nat
    BY <1>0, <1>1, <1>3, <1>4, HandlesAll, HeadFacts, BoxLen
  <2>2. Before(box[aoi], e, <<"leave", u, a, f>>)
    BY <1>0, <1>3, <1>4 DEF Leaves
  <2>3. i < 1
    BY <2>1, <2>2 DEF Before
  <2> QED
    BY <2>1, <2>3
<1>18. ~Has(box'[aoi], e)
  BY <1>0, <1>10, <1>11, <1>12, <1>17, HandlesAll, MailHas
<1>19. onmap'[u] # a
  <2>1. CASE f
    BY <1>6, <1>10, <2>1
  <2>2. CASE ~f
    <3>1. Has(box[aoi], <<"leave", born[a].user, a, FALSE>>)
      <4>1. f = FALSE
        BY <2>2
      <4> QED
        BY <1>2, <1>3, <4>1
    <3>2. a \notin POS
      BY <1>0, <1>3, <3>1 DEF Leaves
    <3> QED
      BY <1>0, <1>6, <1>10, <2>2, <3>2 DEF Entered
  <2> QED
    BY <2>1, <2>2
<1>20. Leaves'
  <2>1. \A m : <<aoi, m>> \notin P
    BY <1>10, <1>12
  <2>2. \A x \in Agent : Gone(x)' =>
          \/ Gone(x)
          \/ /\ stop[x] # "no" /\ ~Has(box'[aoi], <<"enter", born[x].user, x>>)
             /\ onmap'[born[x].user] # x
    <3> SUFFICES ASSUME NEW x \in Agent, Gone(x)', x # a PROVE Gone(x)
      BY <1>3, <1>4, <1>18, <1>19
    <3>1. Has(box'[x], <<"left">>) => Has(box[x], <<"left">>)
      <4>1. <<x, <<"left">> >> \notin P /\ x \in All
        BY <1>12, ServicesApart
      <4> QED
        BY <1>0, <1>11, <4>1, MailHas
    <3> QED
      BY <1>8, <3>1 DEF Gone
  <2> QED
    BY <1>0, <1>6, <1>8, <1>11, <2>1, <2>2, LeavesStep
<1> QED
  BY <1>7, <1>9, <1>14, <1>15, <1>16, <1>20 DEF SInv

-----------------------------------------------------------------------------
LEMMA InitSInv ==
  ASSUME Init
  PROVE  SInv
<1>1. box = [s \in All |-> <<>>]
  BY DEF Init, All
<1>2. \A s \in All : Len(box[s]) = 0
  BY <1>1
<1>3. IsBox(box)
  <2>1. box \in [All -> Seq({})]
    BY <1>1
  <2> QED
    BY <2>1 DEF IsBox
<1>4. \A s \in All : \A m : ~Has(box[s], m)
  BY <1>2 DEF Has
<1>5. Types
  BY DEF Init, Types
<1>6. Boxes
  BY <1>3, <1>4 DEF Boxes
<1>7. Logins
  <2>1. \A s \in Service : Len(box[s]) = 0
    BY <1>2, ServicesApart
  <2>2. Carried(box, login, user_login, user_online, user_secret)
    BY <2>1 DEF Carried
  <2>3. OneEach(box, login)
    BY <2>1 DEF OneEach
  <2> QED
    BY <2>2, <2>3 DEF Logins, OnlineHasSecret, NeverAlreadyOnline, Init
<1>8. Entered
  BY ServicesApart, SessionAssumption DEF Entered, Init, Service
<1>9. Stops
  BY <1>2, ServicesApart DEF Stops, Init, Before
<1>10. Leaves
  <2>1. aoi \in All /\ Agent \subseteq All
    BY HandlesAll, ServicesApart
  <2>2. \A a \in Agent : ~Gone(a)
    BY <1>4, <2>1 DEF Gone, Init
  <2>3. \A e, f : Before(box[aoi], e, f)
    BY <1>2, <2>1 DEF Before
  <2> QED
    BY <1>4, <2>1, <2>2, <2>3 DEF Leaves
<1> QED
  BY <1>5, <1>6, <1>7, <1>8, <1>9, <1>10 DEF SInv

LEMMA NextSInv ==
  ASSUME SInv, [Next]_vars
  PROVE  SInv'
<1>1. ASSUME Serve PROVE SInv'
  <2>1. CASE Logind
    BY <2>1, LogindStep
  <2>2. CASE Watchdog
    BY <2>2, WatchdogLoginStep, LoggedOutStep, AgentKickedStep, SocketCloseStep,
       SocketDataStep DEF Watchdog
  <2>3. CASE CMD_gate_kick \/ CMD_forward \/ CMD_enter \/ CMD_leave
    BY <2>3, GateKickStep, ForwardStep, EnterStep, LeaveStep
  <2>4. ASSUME NEW a \in Agent, AgentStep(a) PROVE SInv'
    BY <2>4, ForwardedStep, MoveStep, AgentDisconnectStep, AgentEndsStep DEF AgentStep
  <2>5. ASSUME NEW a \in Agent, Answered(a) PROVE SInv'
    BY <2>5, AnsweredStep, AgentEndsStep DEF Answered
  <2> QED
    BY <1>1, <2>1, <2>2, <2>3, <2>4, <2>5 DEF Serve
<1>2. ASSUME NEW u \in User, accept(u) PROVE SInv'
  BY <1>2, AcceptStep
<1>3. ASSUME NEW fd \in Fd, message(fd) \/ disconnect(fd) PROVE SInv'
  BY <1>3, MessageStep, DisconnectStep
<1>4. ASSUME NEW a \in Agent, heartbeat(a) PROVE SInv'
  BY <1>4, HeartbeatStep
<1>5. CASE UNCHANGED vars
  <2>0. Types /\ Boxes /\ Entered
    BY DEF SInv
  <2>1. UNCHANGED <<lvars, wvars, gvars, avars, onmap, box>>
    BY <1>5 DEF vars
  <2>2. Types'
    BY <2>0, <2>1 DEF Types, lvars, wvars, gvars, avars, Agent, LoginRecord
  <2>3. Entered' /\ Grows /\ UNCHANGED <<lvars, user_secret, stop, POS, onmap>>
    BY <2>0, <2>1, SameEntered, SameGrows DEF lvars, wvars, gvars, avars
  <2>4. Mail(box, box', {})
    BY <2>0, <2>1, SameMail DEF Boxes
  <2> QED
    BY <2>2, <2>3, <2>4, PlainStep
<1> QED
  BY <1>1, <1>2, <1>3, <1>4, <1>5 DEF Next

(* The inductive invariant holds: every login under way is borne by one    *)
(* message of one mailbox, and what that message stands for is true of the *)
(* books of login server and watchdog (loginserver.lua, logind.lua,        *)
(* watchdog.lua); what messages say of agents is true when they are        *)
(* handled (agent.lua, gate.lua, aoi.lua).                                 *)
THEOREM SessionInvariant == Spec => []SInv
<1>1. Init => SInv
  BY InitSInv
<1>2. SInv /\ [Next]_vars => SInv'
  BY NextSInv
<1> QED
  BY <1>1, <1>2, PTL DEF Spec

(* login_handler never finds a user online whom it has had kicked          *)
(* (logind.lua: "user %s is already online").                              *)
THEOREM NeverAlreadyOnlineAlways == Spec => []NeverAlreadyOnline
<1>1. SInv => NeverAlreadyOnline
  BY DEF SInv, Logins
<1> QED
  BY <1>1, SessionInvariant, PTL

(* Between logins, user_online of logind.lua and user_secret of            *)
(* watchdog.lua are about the same login.                                  *)
THEOREM OnlineHasSecretAlways == Spec => []OnlineHasSecret
<1>1. SInv => OnlineHasSecret
  BY DEF SInv, Logins
<1> QED
  BY <1>1, SessionInvariant, PTL

(* CMD.disconnect of agent.lua takes the user off the map for good: an     *)
(* agent that has exited, or has failed to save its user and stays, is not *)
(* in OBJ of aoi.lua.                                                      *)
THEOREM MapHasAgentAlways == Spec => []MapHasAgent
<1>1. ASSUME SInv PROVE MapHasAgent
  <2> SUFFICES ASSUME NEW u \in User, onmap[u] # Nil,
                      stop[onmap[u]] \in {"exited", "unsaved"}
               PROVE  FALSE
    BY DEF MapHasAgent
  <2>1. onmap[u] \in Agent /\ born[onmap[u]].user = u
    BY <1>1 DEF SInv, Entered, Known
  <2>2. Gone(onmap[u])
    BY DEF Gone
  <2> QED
    BY <1>1, <2>1, <2>2 DEF SInv, Leaves
<1> QED
  BY <1>1, SessionInvariant, PTL
=============================================================================
