------------------------ MODULE SocketChannelProofs ------------------------
(***************************************************************************)
(* The channel to redis, for any number of coroutines, connections and     *)
(* requests: every answer goes to the request it is for, and the sockets   *)
(* are shared as the asserts of the source demand.                         *)
(*                                                                         *)
(* The argument.  The answers of the channel's socket that are still on    *)
(* their way (in the buffer, in the mailbox, on the wire, in that order)   *)
(* are those of the first requests that wait, one by one (InOrder).  That  *)
(* lasts as long as nobody empties the list of those who wait while D goes *)
(* on reading.  The one who may is a coroutine in socket.close; it is      *)
(* woken by the failure of its socket, which lies in the mailbox before    *)
(* anything of the socket that replaces it, so it is done before the next  *)
(* dispatch thread starts (Closes).  Or D wakes it between two parts of an *)
(* answer: then D never reads again.                                       *)
(***************************************************************************)
EXTENDS SocketChannel, FiniteSetTheorems, SequenceTheorems, TLAPS

In(x, s) == \E i \in 1..Len(s) : s[i] = x
Distinct(s) == \A i, j \in 1..Len(s) : s[i] = s[j] => i = j

-----------------------------------------------------------------------------
(* Sequences. *)

LEMMA InAppend ==
  ASSUME NEW S, NEW s \in Seq(S), NEW x \in S
  PROVE  /\ Append(s, x) \in Seq(S)
         /\ \A y : In(y, Append(s, x)) <=> In(y, s) \/ y = x
         /\ Distinct(s) /\ ~In(x, s) => Distinct(Append(s, x))
<1>1. Append(s, x) \in Seq(S) /\ Len(Append(s, x)) = Len(s) + 1
  OBVIOUS
<1>2. /\ \A i \in 1..Len(s) : Append(s, x)[i] = s[i]
      /\ Append(s, x)[Len(s) + 1] = x
  OBVIOUS
<1>3. Len(s) \in Nat
  OBVIOUS
<1>4. ASSUME NEW y PROVE In(y, Append(s, x)) <=> In(y, s) \/ y = x
  BY <1>1, <1>2, <1>3 DEF In
<1>5. ASSUME Distinct(s), ~In(x, s) PROVE Distinct(Append(s, x))
  BY <1>1, <1>2, <1>3, <1>5 DEF In, Distinct
<1> QED BY <1>1, <1>4, <1>5

LEMMA InConcat ==
  ASSUME NEW S, NEW s \in Seq(S), NEW t \in Seq(S)
  PROVE  /\ s \o t \in Seq(S)
         /\ \A y : In(y, s \o t) <=> In(y, s) \/ In(y, t)
         /\ Distinct(s) /\ Distinct(t) /\ (\A y : ~(In(y, s) /\ In(y, t)))
              => Distinct(s \o t)
<1>1. s \o t \in Seq(S) /\ Len(s \o t) = Len(s) + Len(t)
  OBVIOUS
<1>2. \A i \in 1..(Len(s) + Len(t)) :
        (s \o t)[i] = IF i <= Len(s) THEN s[i] ELSE t[i - Len(s)]
  OBVIOUS
<1>3. Len(s) \in Nat /\ Len(t) \in Nat
  OBVIOUS
<1>4. ASSUME NEW y PROVE In(y, s \o t) <=> In(y, s) \/ In(y, t)
  <2>1. ASSUME In(y, s \o t) PROVE In(y, s) \/ In(y, t)
    BY <2>1, <1>1, <1>2, <1>3 DEF In
  <2>2. ASSUME In(y, s) PROVE In(y, s \o t)
    BY <2>2, <1>1, <1>2, <1>3 DEF In
  <2>3. ASSUME In(y, t) PROVE In(y, s \o t)
    <3>1. PICK i \in 1..Len(t) : t[i] = y
      BY <2>3 DEF In
    <3>2. Len(s) + i \in 1..(Len(s) + Len(t)) /\ (s \o t)[Len(s) + i] = y
      BY <3>1, <1>2, <1>3
    <3> QED BY <3>2, <1>1 DEF In
  <2> QED BY <2>1, <2>2, <2>3
<1>5. ASSUME Distinct(s), Distinct(t), \A y : ~(In(y, s) /\ In(y, t))
      PROVE  Distinct(s \o t)
  <2>1. SUFFICES ASSUME NEW i \in 1..(Len(s) + Len(t)), NEW j \in 1..(Len(s) + Len(t)),
                        (s \o t)[i] = (s \o t)[j]
                 PROVE  i = j
    BY <1>1 DEF Distinct
  <2>2. CASE i <= Len(s) /\ j <= Len(s)
    BY <2>1, <2>2, <1>2, <1>3, <1>5 DEF Distinct
  <2>3. CASE i > Len(s) /\ j > Len(s)
    BY <2>1, <2>3, <1>2, <1>3, <1>5 DEF Distinct
  <2>4. CASE i <= Len(s) /\ j > Len(s)
    <3>1. In(s[i], s) /\ In(t[j - Len(s)], t) /\ s[i] = t[j - Len(s)]
      BY <2>1, <2>4, <1>2, <1>3 DEF In
    <3> QED BY <3>1, <1>5
  <2>5. CASE i > Len(s) /\ j <= Len(s)
    <3>1. In(s[j], s) /\ In(t[i - Len(s)], t) /\ s[j] = t[i - Len(s)]
      BY <2>1, <2>5, <1>2, <1>3 DEF In
    <3> QED BY <3>1, <1>5
  <2> QED BY <2>2, <2>3, <2>4, <2>5, <1>3
<1> QED BY <1>1, <1>4, <1>5

LEMMA InTail ==
  ASSUME NEW S, NEW s \in Seq(S), s # <<>>
  PROVE  /\ Tail(s) \in Seq(S) /\ Head(s) \in S
         /\ \A y : In(y, s) <=> y = Head(s) \/ In(y, Tail(s))
         /\ Distinct(s) => Distinct(Tail(s)) /\ ~In(Head(s), Tail(s))
<1>1. /\ Tail(s) \in Seq(S) /\ Head(s) \in S /\ Len(s) \in Nat \ {0}
      /\ Len(Tail(s)) = Len(s) - 1
      /\ Head(s) = s[1]
      /\ \A i \in 1..(Len(s) - 1) : Tail(s)[i] = s[i + 1]
  OBVIOUS
<1>2. ASSUME NEW y PROVE In(y, s) <=> y = Head(s) \/ In(y, Tail(s))
  <2>1. ASSUME In(y, s), y # Head(s) PROVE In(y, Tail(s))
    <3>1. PICK i \in 1..Len(s) : s[i] = y
      BY <2>1 DEF In
    <3>2. i - 1 \in 1..(Len(s) - 1) /\ Tail(s)[i - 1] = y
      BY <3>1, <2>1, <1>1
    <3> QED BY <3>2, <1>1 DEF In
  <2>2. ASSUME In(y, Tail(s)) PROVE In(y, s)
    BY <2>2, <1>1 DEF In
  <2>3. In(Head(s), s)
    BY <1>1 DEF In
  <2> QED BY <2>1, <2>2, <2>3
<1>3. ASSUME Distinct(s) PROVE Distinct(Tail(s)) /\ ~In(Head(s), Tail(s))
  BY <1>1, <1>3 DEF Distinct, In
<1> QED BY <1>1, <1>2, <1>3

LEMMA InOne ==
  ASSUME NEW x
  PROVE  /\ \A y : ~In(y, <<>>) /\ Distinct(<<>>)
         /\ \A y : In(y, <<x>>) <=> y = x
         /\ Distinct(<<x>>)
BY DEF In, Distinct

-----------------------------------------------------------------------------
(* Induction: a set of naturals with 0 that is closed under the successor  *)
(* has them all, or x + 1 would map its part up to the first gap one-to-   *)
(* one into that part without 0.                                           *)
LEMMA SetInduction ==
  ASSUME NEW S \in SUBSET Nat, 0 \in S, \A n \in S : n + 1 \in S
  PROVE  S = Nat
<1>1. SUFFICES ASSUME NEW n \in Nat, n \notin S PROVE FALSE
  OBVIOUS
<1> DEFINE A == S \cap 0..n
           B == A \ {0}
           next == [x \in A |-> x + 1]
<1>2. IsFiniteSet(A)
  <2>1. IsFiniteSet(0..n)
    BY FS_Interval
  <2> QED BY <2>1, FS_Subset
<1>3. 0 \in A
  OBVIOUS
<1>4. IsFiniteSet(B) /\ Cardinality(B) = Cardinality(A) - 1
  BY <1>2, <1>3, FS_RemoveElement
<1>5. next \in [A -> B]
  <2>1. ASSUME NEW x \in A PROVE x + 1 \in B
    <3>1. x \in S /\ x \in 0..n /\ x # n
      BY <1>1
    <3> QED BY <3>1
  <2> QED BY <2>1
<1>6. Cardinality(A) \in Nat /\ Cardinality(B) \in Nat
  BY <1>2, <1>4, FS_CardinalityType
<1>7. \E x, y \in A : x # y /\ next[x] = next[y]
  <2> HIDE DEF A, B, next
  <2> QED BY <1>2, <1>4, <1>5, <1>6, FS_PigeonHole
<1> QED BY <1>7

(* The loop of wakeup_all over the first n entries. *)
Step(g, s, k) ==
  IF k = 0 THEN <<>> ELSE IF s[k] = Close THEN g[k - 1] ELSE Append(g[k - 1], s[k])
Scan(g, s, n) == g = [k \in 0..n |-> Step(g, s, k)]

LEMMA ScanExists ==
  ASSUME NEW s
  PROVE  \A n \in Nat : \E g : Scan(g, s, n)
<1> DEFINE S == {n \in Nat : \E g : Scan(g, s, n)}
<1>1. 0 \in S
  <2>1. Scan([k \in 0..0 |-> <<>>], s, 0)
    BY DEF Scan, Step
  <2> QED BY <2>1
<1>2. ASSUME NEW n \in S PROVE n + 1 \in S
  <2>1. PICK g : Scan(g, s, n)
    OBVIOUS
  <2> DEFINE h == [k \in 0..(n + 1) |-> IF k = n + 1 THEN Step(g, s, n + 1) ELSE g[k]]
  <2>2. n \in Nat
    OBVIOUS
  <2>3. \A k \in 0..n : g[k] = Step(g, s, k)
    BY <2>1 DEF Scan
  <2>4. ASSUME NEW k \in 0..(n + 1) PROVE h[k] = Step(h, s, k)
    <3>1. k # 0 => k - 1 \in 0..n /\ h[k - 1] = g[k - 1]
      BY <2>2
    <3>2. Step(h, s, k) = Step(g, s, k)
      BY <3>1 DEF Step
    <3> QED BY <3>2, <2>2, <2>3
  <2>5. Scan(h, s, n + 1)
    <3>1. h = [k \in 0..(n + 1) |-> h[k]]
      OBVIOUS
    <3> HIDE DEF h
    <3> QED BY <2>4, <3>1 DEF Scan
  <2> QED BY <2>2, <2>5
<1>3. S = Nat
  <2>1. S \in SUBSET Nat
    OBVIOUS
  <2> HIDE DEF S
  <2> QED BY <2>1, <1>1, <1>2, SetInduction
<1> QED BY <1>3
(* Waiters(s) has the coroutines of s and no close signal, each once if s  *)
(* has each once.                                                          *)
LEMMA WaitersFacts ==
  ASSUME NEW s \in Seq(Co \cup {Close})
  PROVE  /\ Waiters(s) \in Seq(Co)
         /\ \A c : In(c, Waiters(s)) <=> In(c, s) /\ c # Close
         /\ Distinct(s) => Distinct(Waiters(s))
<1>1. Len(s) \in Nat
  OBVIOUS
<1>2. PICK f : f = [k \in 0..Len(s) |-> IF k = 0 THEN <<>> ELSE
                       IF s[k] = Close THEN f[k - 1] ELSE Append(f[k - 1], s[k])]
               /\ Waiters(s) = f[Len(s)]
  <2>1. PICK g : Scan(g, s, Len(s))
    BY <1>1, ScanExists
  <2> DEFINE P(f) == f = [n \in 0..Len(s) |-> IF n = 0 THEN <<>> ELSE
                       IF s[n] = Close THEN f[n - 1] ELSE Append(f[n - 1], s[n])]
             w == CHOOSE f : P(f)
  <2>2. P(g)
    BY <2>1 DEF Scan, Step
  <2>3. P(w)
    <3> HIDE DEF P
    <3> QED BY <2>2
  <2>4. Waiters(s) = w[Len(s)]
    BY Zenon DEF Waiters
  <2> QED BY <2>3, <2>4
<1> DEFINE Good(k) ==
      /\ f[k] \in Seq(Co)
      /\ \A c : In(c, f[k]) <=> c # Close /\ \E i \in 1..k : s[i] = c
      /\ Distinct(s) => Distinct(f[k])
    S == {k \in Nat : k <= Len(s) => Good(k)}
<1>3. 0 \in S
  <2>1. f[0] = <<>>
    BY <1>1, <1>2
  <2>2. \A c : ~In(c, <<>>) /\ Distinct(<<>>)
    BY InOne
  <2>3. <<>> \in Seq(Co) /\ 1..0 = {}
    OBVIOUS
  <2>4. Good(0)
    BY <2>1, <2>2, <2>3
  <2> QED BY <2>4
<1>4. ASSUME NEW k \in S PROVE k + 1 \in S
  <2>1. k \in Nat
    OBVIOUS
  <2>2. SUFFICES ASSUME k + 1 <= Len(s) PROVE Good(k + 1)
    BY <2>1
  <2>3. Good(k) /\ s[k + 1] \in Co \cup {Close}
    BY <1>1, <2>1, <2>2
  <2>4. f[k + 1] = IF s[k + 1] = Close THEN f[k] ELSE Append(f[k], s[k + 1])
    <3>1. k + 1 \in 0..Len(s) /\ k + 1 # 0 /\ (k + 1) - 1 = k
      BY <1>1, <2>1, <2>2
    <3> HIDE DEF S, Good
    <3> QED BY <1>2, <3>1
  <2>5. \A c : (\E i \in 1..(k + 1) : s[i] = c) <=> (\E i \in 1..k : s[i] = c) \/ c = s[k + 1]
    BY <2>1
  <2>6. CASE s[k + 1] = Close
    BY <2>3, <2>4, <2>5, <2>6
  <2>7. CASE s[k + 1] # Close
    <3>1. f[k] \in Seq(Co) /\ s[k + 1] \in Co
      BY <2>3, <2>7
    <3>2. /\ Append(f[k], s[k + 1]) \in Seq(Co)
          /\ \A y : In(y, Append(f[k], s[k + 1])) <=> In(y, f[k]) \/ y = s[k + 1]
          /\ Distinct(f[k]) /\ ~In(s[k + 1], f[k]) => Distinct(Append(f[k], s[k + 1]))
      BY <3>1, InAppend
    <3>3. Distinct(s) => ~(\E i \in 1..k : s[i] = s[k + 1])
      BY <1>1, <2>1, <2>2 DEF Distinct
    <3> QED BY <2>3, <2>4, <2>5, <2>7, <3>2, <3>3
  <2> QED BY <2>6, <2>7
<1>5. S = Nat
  <2>1. S \in SUBSET Nat
    OBVIOUS
  <2> HIDE DEF S
  <2> QED BY <2>1, <1>3, <1>4, SetInduction
<1>6. Good(Len(s))
  <2>1. Len(s) \in S
    BY <1>1, <1>5
  <2> HIDE DEF Good
  <2> QED BY <1>1, <2>1
<1> QED BY <1>2, <1>6 DEF In

-----------------------------------------------------------------------------
(* The mailbox of the service. *)

Message == [type : {"connect", "data", "close", "error"}, fd : Fd, answers : Seq(Nat)]

Some(mb, f) == \E i \in 1..Len(mb) : mb[i].fd = f
Connect(mb, f) == \E i \in 1..Len(mb) : mb[i].fd = f /\ mb[i].type = "connect"
Ended(mb, f) == \E i \in 1..Len(mb) : mb[i].fd = f /\ mb[i].type \in {"close", "error"}
NoAnswers(mb, f) == \A i \in 1..Len(mb) : mb[i].fd = f => mb[i].answers = <<>>
DataAnswers(mb) == \A i \in 1..Len(mb) : mb[i].answers # <<>> => mb[i].type = "data"

(* The first message about a socket that comes up says so. *)
ConnectFirst(mb) ==
  \A i \in 1..Len(mb) : mb[i].type = "connect" => \A j \in 1..(i - 1) : mb[j].fd # mb[i].fd

(* The end of f lies before all about g. *)
Ahead(mb, f, g) ==
  \E i \in 1..Len(mb) : /\ mb[i].fd = f /\ mb[i].type \in {"close", "error"}
                         /\ \A j \in 1..i : mb[j].fd # g

LEMMA MailTypes ==
  ASSUME NEW mb \in Seq(Message)
  PROVE  /\ Len(mb) \in Nat
         /\ \A k \in 1..Len(mb) : /\ mb[k] \in Message /\ mb[k].fd \in Fd
                                   /\ mb[k].answers \in Seq(Nat)
<1>1. Len(mb) \in Nat /\ \A k \in 1..Len(mb) : mb[k] \in Message
  OBVIOUS
<1>2. \A m \in Message : m.fd \in Fd /\ m.answers \in Seq(Nat)
  BY DEF Message
<1> QED BY <1>1, <1>2

LEMMA MailAppend ==
  ASSUME NEW mb \in Seq(Message), NEW m \in Message
  PROVE  /\ Append(mb, m) \in Seq(Message)
         /\ \A f : Some(Append(mb, m), f) <=> Some(mb, f) \/ m.fd = f
         /\ \A f : Connect(Append(mb, m), f) <=>
                     Connect(mb, f) \/ (m.fd = f /\ m.type = "connect")
         /\ \A f : Ended(Append(mb, m), f) <=>
                     Ended(mb, f) \/ (m.fd = f /\ m.type \in {"close", "error"})
         /\ \A f : NoAnswers(Append(mb, m), f) <=>
                     NoAnswers(mb, f) /\ (m.fd = f => m.answers = <<>>)
         /\ DataAnswers(mb) /\ (m.answers # <<>> => m.type = "data")
              => DataAnswers(Append(mb, m))
         /\ ConnectFirst(mb) /\ (m.type = "connect" => ~Some(mb, m.fd))
              => ConnectFirst(Append(mb, m))
         /\ \A f, g : Ahead(mb, f, g) => Ahead(Append(mb, m), f, g)
<1> DEFINE n == Append(mb, m)
<1>1. /\ n \in Seq(Message) /\ Len(n) = Len(mb) + 1 /\ Len(mb) \in Nat
      /\ \A i \in 1..Len(mb) : n[i] = mb[i]
      /\ n[Len(mb) + 1] = m
  OBVIOUS
<1>2. \A i \in 1..Len(n) : i \in 1..Len(mb) \/ i = Len(mb) + 1
  BY <1>1
<1>3. 1..Len(mb) \subseteq 1..Len(n) /\ Len(mb) + 1 \in 1..Len(n)
  BY <1>1
<1> HIDE DEF n
<1>4. \A f : Some(n, f) <=> Some(mb, f) \/ m.fd = f
  BY <1>1, <1>2, <1>3 DEF Some
<1>5. \A f : Connect(n, f) <=> Connect(mb, f) \/ (m.fd = f /\ m.type = "connect")
  BY <1>1, <1>2, <1>3 DEF Connect
<1>6. \A f : Ended(n, f) <=> Ended(mb, f) \/ (m.fd = f /\ m.type \in {"close", "error"})
  BY <1>1, <1>2, <1>3 DEF Ended
<1>7. \A f : NoAnswers(n, f) <=> NoAnswers(mb, f) /\ (m.fd = f => m.answers = <<>>)
  BY <1>1, <1>2, <1>3 DEF NoAnswers
<1>8. ASSUME DataAnswers(mb), m.answers # <<>> => m.type = "data"
      PROVE  DataAnswers(n)
  BY <1>1, <1>2, <1>3, <1>8 DEF DataAnswers
<1>9. ASSUME ConnectFirst(mb), m.type = "connect" => ~Some(mb, m.fd)
      PROVE  ConnectFirst(n)
  <2>1. SUFFICES ASSUME NEW i \in 1..Len(n), n[i].type = "connect", NEW j \in 1..(i - 1)
                 PROVE  n[j].fd # n[i].fd
    BY DEF ConnectFirst
  <2>2. j \in 1..Len(mb) /\ n[j] = mb[j]
    BY <1>1
  <2>3. CASE i \in 1..Len(mb)
    BY <1>1, <1>9, <2>1, <2>2, <2>3 DEF ConnectFirst
  <2>4. CASE i = Len(mb) + 1
    BY <1>1, <1>9, <2>1, <2>2, <2>4 DEF Some
  <2> QED BY <1>2, <2>3, <2>4
<1>10. ASSUME NEW f, NEW g, Ahead(mb, f, g) PROVE Ahead(n, f, g)
  <2>1. PICK i \in 1..Len(mb) : /\ mb[i].fd = f /\ mb[i].type \in {"close", "error"}
                                /\ \A j \in 1..i : mb[j].fd # g
    BY <1>10 DEF Ahead
  <2>2. i \in 1..Len(n) /\ n[i].fd = f /\ n[i].type \in {"close", "error"}
    BY <1>1, <1>3, <2>1
  <2>3. \A j \in 1..i : n[j].fd # g
    BY <1>1, <2>1
  <2> QED BY <2>2, <2>3 DEF Ahead
<1> QED BY <1>1, <1>4, <1>5, <1>6, <1>7, <1>8, <1>9, <1>10 DEF n

LEMMA MailTail ==
  ASSUME NEW mb \in Seq(Message), mb # <<>>
  PROVE  /\ Tail(mb) \in Seq(Message) /\ Head(mb) \in Message
         /\ \A f : Some(mb, f) <=> Head(mb).fd = f \/ Some(Tail(mb), f)
         /\ \A f : Connect(mb, f) <=>
                     (Head(mb).fd = f /\ Head(mb).type = "connect") \/ Connect(Tail(mb), f)
         /\ \A f : Ended(mb, f) <=>
                     \/ Head(mb).fd = f /\ Head(mb).type \in {"close", "error"}
                     \/ Ended(Tail(mb), f)
         /\ \A f : NoAnswers(mb, f) =>
                     NoAnswers(Tail(mb), f) /\ (Head(mb).fd = f => Head(mb).answers = <<>>)
         /\ DataAnswers(mb) =>
              /\ DataAnswers(Tail(mb))
              /\ Head(mb).answers # <<>> => Head(mb).type = "data"
         /\ ConnectFirst(mb) => ConnectFirst(Tail(mb)) /\ ~Connect(Tail(mb), Head(mb).fd)
         /\ \A f, g : Ahead(mb, f, g) =>
                        /\ Head(mb).fd # g
                        /\ Head(mb).fd # f \/ Head(mb).type = "data" => Ahead(Tail(mb), f, g)
<1> DEFINE n == Tail(mb)
           m == Head(mb)
<1>1. /\ n \in Seq(Message) /\ m \in Message /\ Len(mb) \in Nat \ {0}
      /\ Len(n) = Len(mb) - 1
      /\ m = mb[1]
      /\ \A i \in 1..Len(n) : n[i] = mb[i + 1]
  OBVIOUS
<1>2. \A i \in 1..Len(mb) : i = 1 \/ (i - 1 \in 1..Len(n) /\ mb[i] = n[i - 1])
  BY <1>1
<1>3. /\ \A i \in 1..Len(n) : i + 1 \in 1..Len(mb)
      /\ 1 \in 1..Len(mb)
  BY <1>1
<1> HIDE DEF n, m
<1>4. \A f : Some(mb, f) <=> m.fd = f \/ Some(n, f)
  BY <1>1, <1>2, <1>3 DEF Some
<1>5. \A f : Connect(mb, f) <=> (m.fd = f /\ m.type = "connect") \/ Connect(n, f)
  BY <1>1, <1>2, <1>3 DEF Connect
<1>6. \A f : Ended(mb, f) <=> (m.fd = f /\ m.type \in {"close", "error"}) \/ Ended(n, f)
  BY <1>1, <1>2, <1>3 DEF Ended
<1>7. \A f : NoAnswers(mb, f) => NoAnswers(n, f) /\ (m.fd = f => m.answers = <<>>)
  BY <1>1, <1>2, <1>3 DEF NoAnswers
<1>8. ASSUME DataAnswers(mb)
      PROVE  DataAnswers(n) /\ (m.answers # <<>> => m.type = "data")
  BY <1>1, <1>2, <1>3, <1>8 DEF DataAnswers
<1>9. ASSUME ConnectFirst(mb)
      PROVE  ConnectFirst(n) /\ ~Connect(n, m.fd)
  <2>1. ASSUME NEW i \in 1..Len(n), n[i].type = "connect"
        PROVE  n[i].fd # m.fd /\ \A j \in 1..(i - 1) : n[j].fd # n[i].fd
    <3>1. i + 1 \in 1..Len(mb) /\ mb[i + 1] = n[i]
      BY <1>1, <1>3
    <3>2. \A j \in 1..i : mb[j].fd # n[i].fd
      <4>1. \A j \in 1..((i + 1) - 1) : mb[j].fd # mb[i + 1].fd
        BY <1>9, <2>1, <3>1 DEF ConnectFirst
      <4>2. (i + 1) - 1 = i
        OBVIOUS
      <4> QED BY <4>1, <4>2, <3>1
    <3>3. n[i].fd # m.fd
      BY <1>1, <3>2
    <3>4. ASSUME NEW j \in 1..(i - 1) PROVE n[j].fd # n[i].fd
      BY <1>1, <3>2
    <3> QED BY <3>3, <3>4
  <2> QED BY <2>1 DEF ConnectFirst, Connect
<1>10. ASSUME NEW f, NEW g, Ahead(mb, f, g)
       PROVE  m.fd # g /\ (m.fd # f \/ m.type = "data" => Ahead(n, f, g))
  <2>1. PICK i \in 1..Len(mb) : /\ mb[i].fd = f /\ mb[i].type \in {"close", "error"}
                                /\ \A j \in 1..i : mb[j].fd # g
    BY <1>10 DEF Ahead
  <2>2. m.fd # g
    BY <1>1, <2>1
  <2>3. ASSUME m.fd # f \/ m.type = "data" PROVE Ahead(n, f, g)
    <3>1. /\ i # 1 /\ i - 1 \in 1..Len(n)
          /\ n[i - 1].fd = f /\ n[i - 1].type \in {"close", "error"}
      BY <1>1, <1>2, <2>1, <2>3
    <3>2. ASSUME NEW j \in 1..(i - 1) PROVE n[j].fd # g
      <4>1. j \in 1..Len(n) /\ j + 1 \in 1..i
        BY <1>1, <3>1
      <4> QED BY <1>1, <4>1, <2>1
    <3> QED BY <3>1, <3>2 DEF Ahead
  <2> QED BY <2>2, <2>3
<1> QED BY <1>1, <1>4, <1>5, <1>6, <1>7, <1>8, <1>9, <1>10 DEF n, m

LEMMA MailAhead ==
  ASSUME NEW mb \in Seq(Message), NEW f, NEW g
  PROVE  /\ Ended(mb, f) /\ ~Some(mb, g) => Ahead(mb, f, g)
         /\ Ahead(mb, f, g) => Ended(mb, f)
         /\ Ended(mb, f) => Some(mb, f)
         /\ Connect(mb, f) => Some(mb, f)
         /\ ~Some(mb, f) => NoAnswers(mb, f)
<1>1. Len(mb) \in Nat
  OBVIOUS
<1> QED BY <1>1 DEF Some, Ahead, Ended, Connect, NoAnswers

-----------------------------------------------------------------------------
(* The order of the answers of a socket f.  mb: the mailbox, buf: its      *)
(* buffer, wr: its wire, p: those who wait for an answer, tk: the tickets  *)
(* of their requests.                                                      *)

(* The answers in s are those to the requests of p from position n + 1 on. *)
Match(s, n, p, tk) ==
  \A i \in 1..Len(s) : n + i <= Len(p) /\ p[n + i] \in Co /\ s[i] = tk[p[n + i]]

(* off[k] answers of f lie before the k-th message. *)
Taken(m, f) == IF m.fd = f THEN Len(m.answers) ELSE 0
Offsets(off, mb, f, n) ==
  /\ off \in [1..(Len(mb) + 1) -> Nat]
  /\ off[1] = n
  /\ \A k \in 1..Len(mb) : off[k + 1] = off[k] + Taken(mb[k], f)
  /\ \A j, k \in 1..(Len(mb) + 1) : j <= k => off[j] <= off[k]

(* The answers on their way are those to the first requests that wait; to  *)
(* all of them if full.                                                    *)
InOrderBy(off, f, mb, buf, wr, p, tk, full) ==
  /\ Offsets(off, mb, f, Len(buf))
  /\ Match(buf, 0, p, tk)
  /\ \A k \in 1..Len(mb) : mb[k].fd = f => Match(mb[k].answers, off[k], p, tk)
  /\ Match(wr, off[Len(mb) + 1], p, tk)
  /\ full => off[Len(mb) + 1] + Len(wr) = Len(p)

InOrder(f, mb, buf, wr, p, tk, full) ==
  \E off : InOrderBy(off, f, mb, buf, wr, p, tk, full)

(* What the lemmas are about. *)
Traffic(f, mb, buf, wr, p, tk) ==
  /\ f \in Fd /\ mb \in Seq(Message) /\ buf \in Seq(Nat) /\ wr \in Seq(Nat)
  /\ p \in Seq(Co \cup {Close}) /\ tk \in [Co -> Nat]

(* Nothing on its way, nobody waits. *)
LEMMA OrderStart ==
  ASSUME NEW f, NEW mb, NEW tk, NEW full, Traffic(f, mb, <<>>, <<>>, <<>>, tk),
         NoAnswers(mb, f)
  PROVE  InOrder(f, mb, <<>>, <<>>, <<>>, tk, full)
<1> DEFINE off == [k \in 1..(Len(mb) + 1) |-> 0]
<1>1. Len(mb) \in Nat
  BY DEF Traffic
<1>2. \A k \in 1..Len(mb) : mb[k].fd = f => mb[k].answers = <<>>
  BY DEF NoAnswers
<1>3. Offsets(off, mb, f, Len(<<>>))
  BY <1>1, <1>2 DEF Offsets, Taken
<1>4. \A n, p : Match(<<>>, n, p, tk)
  BY DEF Match
<1>5. off[Len(mb) + 1] + Len(<<>>) = Len(<<>>)
  BY <1>1
<1>6. InOrderBy(off, f, mb, <<>>, <<>>, <<>>, tk, full)
  <2> HIDE DEF off
  <2> QED BY <1>2, <1>3, <1>4, <1>5 DEF InOrderBy
<1> QED BY <1>6 DEF InOrder

(* The tickets of others do not matter, and full may be given up. *)
LEMMA OrderTickets ==
  ASSUME NEW f, NEW mb, NEW buf, NEW wr, NEW p, NEW tk, NEW tl, NEW full, NEW fuller,
         Traffic(f, mb, buf, wr, p, tk), InOrder(f, mb, buf, wr, p, tk, full),
         \A c \in Co : In(c, p) => tl[c] = tk[c],
         fuller => full
  PROVE  InOrder(f, mb, buf, wr, p, tl, fuller)
<1>1. PICK off : InOrderBy(off, f, mb, buf, wr, p, tk, full)
  BY DEF InOrder
<1>2. ASSUME NEW s \in Seq(Nat), NEW n \in Nat, Match(s, n, p, tk)
      PROVE  Match(s, n, p, tl)
  <2>1. ASSUME NEW i \in 1..Len(s)
        PROVE  n + i <= Len(p) /\ p[n + i] \in Co /\ s[i] = tl[p[n + i]]
    <3>1. n + i <= Len(p) /\ p[n + i] \in Co /\ s[i] = tk[p[n + i]]
      BY <1>2 DEF Match
    <3>2. Len(s) \in Nat /\ Len(p) \in Nat
      BY DEF Traffic
    <3>3. n + i \in 1..Len(p)
      BY <3>1, <3>2
    <3>4. In(p[n + i], p)
      BY <3>3 DEF In
    <3> QED BY <3>1, <3>4
  <2> QED BY <2>1 DEF Match
<1>3. Len(mb) \in Nat /\ \A k \in 1..Len(mb) : mb[k].answers \in Seq(Nat)
  BY MailTypes DEF Traffic
<1>4. /\ \A k \in 1..Len(mb) : off[k] \in Nat
      /\ off[Len(mb) + 1] \in Nat
  <2>1. off \in [1..(Len(mb) + 1) -> Nat]
    BY <1>1 DEF InOrderBy, Offsets
  <2>2. Len(mb) \in Nat
    BY <1>3
  <2>3. Len(mb) + 1 \in 1..(Len(mb) + 1) /\ \A k \in 1..Len(mb) : k \in 1..(Len(mb) + 1)
    BY <2>2
  <2> QED BY <2>1, <2>3
<1>5. Match(buf, 0, p, tl) /\ Match(wr, off[Len(mb) + 1], p, tl)
  BY <1>1, <1>2, <1>4 DEF InOrderBy, Traffic
<1>6. \A k \in 1..Len(mb) : mb[k].fd = f => Match(mb[k].answers, off[k], p, tl)
  BY <1>1, <1>2, <1>3, <1>4 DEF InOrderBy
<1>7. InOrderBy(off, f, mb, buf, wr, p, tl, fuller)
  BY <1>1, <1>5, <1>6 DEF InOrderBy
<1> QED BY <1>7 DEF InOrder

(* Somebody else waits, too: x, the answer to whom is on the wire or never *)
(* comes.                                                                  *)
LEMMA OrderAppend ==
  ASSUME NEW f, NEW mb, NEW buf, NEW wr, NEW p, NEW tk, NEW full, NEW fuller,
         NEW x \in Co \cup {Close}, NEW sent \in BOOLEAN,
         Traffic(f, mb, buf, wr, p, tk), InOrder(f, mb, buf, wr, p, tk, full),
         sent => full /\ x \in Co, fuller => sent
  PROVE  InOrder(f, mb, buf, IF sent THEN Append(wr, tk[x]) ELSE wr, Append(p, x), tk, fuller)
<1>1. PICK off : InOrderBy(off, f, mb, buf, wr, p, tk, full)
  BY DEF InOrder
<1> DEFINE q == Append(p, x)
           w == IF sent THEN Append(wr, tk[x]) ELSE wr
<1>2. /\ Len(p) \in Nat /\ Len(q) = Len(p) + 1 /\ q[Len(p) + 1] = x
      /\ \A i \in 1..Len(p) : q[i] = p[i]
  BY DEF Traffic
<1>3. ASSUME NEW s \in Seq(Nat), NEW n \in Nat, Match(s, n, p, tk)
      PROVE  Match(s, n, q, tk)
  <2>1. ASSUME NEW i \in 1..Len(s)
        PROVE  n + i <= Len(q) /\ q[n + i] \in Co /\ s[i] = tk[q[n + i]]
    <3>1. n + i <= Len(p) /\ p[n + i] \in Co /\ s[i] = tk[p[n + i]]
      BY <1>3 DEF Match
    <3>2. Len(s) \in Nat
      OBVIOUS
    <3>3. n + i \in 1..Len(p)
      BY <3>1, <3>2, <1>2
    <3> HIDE DEF q
    <3> QED BY <3>1, <3>3, <1>2
  <2> HIDE DEF q
  <2> QED BY <2>1 DEF Match
<1>4. Len(mb) \in Nat /\ \A k \in 1..Len(mb) : mb[k].answers \in Seq(Nat)
  BY MailTypes DEF Traffic
<1>5. /\ \A k \in 1..Len(mb) : off[k] \in Nat
      /\ off[Len(mb) + 1] \in Nat
  <2> HIDE DEF q, w
  <2>1. off \in [1..(Len(mb) + 1) -> Nat]
    BY <1>1 DEF InOrderBy, Offsets
  <2> QED BY <1>4, <2>1
<1> HIDE DEF q
<1>6. Match(buf, 0, q, tk) /\ Match(wr, off[Len(mb) + 1], q, tk)
  BY <1>1, <1>3, <1>5 DEF InOrderBy, Traffic
<1>7. \A k \in 1..Len(mb) : mb[k].fd = f => Match(mb[k].answers, off[k], q, tk)
  BY <1>1, <1>3, <1>4, <1>5 DEF InOrderBy
<1>8. /\ Match(w, off[Len(mb) + 1], q, tk)
      /\ sent => off[Len(mb) + 1] + Len(w) = Len(q)
  <2>1. CASE ~sent
    BY <2>1, <1>6
  <2>2. CASE sent
    <3>1. off[Len(mb) + 1] + Len(wr) = Len(p) /\ x \in Co
      BY <1>1, <2>2 DEF InOrderBy
    <3>2. /\ wr \in Seq(Nat) /\ Len(wr) \in Nat /\ tk[x] \in Nat
          /\ Len(w) = Len(wr) + 1
          /\ \A i \in 1..Len(wr) : w[i] = wr[i]
          /\ w[Len(wr) + 1] = tk[x]
      BY <2>2, <3>1 DEF Traffic
    <3> HIDE DEF w
    <3>3. ASSUME NEW i \in 1..Len(w)
          PROVE  /\ off[Len(mb) + 1] + i <= Len(q) /\ q[off[Len(mb) + 1] + i] \in Co
                 /\ w[i] = tk[q[off[Len(mb) + 1] + i]]
      <4>1. CASE i \in 1..Len(wr)
        BY <4>1, <1>6, <3>2 DEF Match
      <4>2. CASE i = Len(wr) + 1
        BY <4>2, <3>1, <3>2, <1>2, <1>5
      <4> QED BY <4>1, <4>2, <3>2
    <3> QED BY <3>1, <3>2, <3>3, <1>2, <1>5 DEF Match
  <2> QED BY <2>1, <2>2
<1> HIDE DEF w
<1>9. InOrderBy(off, f, mb, buf, w, q, tk, fuller)
  BY <1>1, <1>6, <1>7, <1>8 DEF InOrderBy
<1>10. InOrder(f, mb, buf, w, q, tk, fuller)
  BY <1>9 DEF InOrder
<1> QED BY <1>10 DEF w, q

(* D takes the first answer of the buffer for the first who waits. *)
LEMMA OrderAnswer ==
  ASSUME NEW f, NEW mb, NEW buf, NEW wr, NEW p, NEW tk, NEW full,
         Traffic(f, mb, buf, wr, p, tk), InOrder(f, mb, buf, wr, p, tk, full), buf # <<>>
  PROVE  /\ p # <<>> /\ p[1] \in Co /\ Head(buf) = tk[p[1]]
         /\ InOrder(f, mb, Tail(buf), wr, Tail(p), tk, full)
<1>1. PICK off : InOrderBy(off, f, mb, buf, wr, p, tk, full)
  BY DEF InOrder
<1> DEFINE b == Tail(buf)
           q == Tail(p)
           o == [k \in 1..(Len(mb) + 1) |-> off[k] - 1]
<1>2. /\ b \in Seq(Nat) /\ Len(buf) \in Nat \ {0} /\ Len(b) = Len(buf) - 1
      /\ Head(buf) = buf[1]
      /\ \A i \in 1..Len(b) : b[i] = buf[i + 1]
  BY DEF Traffic
<1>3. /\ Len(p) \in Nat /\ p # <<>> /\ p[1] \in Co /\ Head(buf) = tk[p[1]]
  <2>1. Len(p) \in Nat
    BY DEF Traffic
  <2>2. Match(buf, 0, p, tk)
    BY <1>1 DEF InOrderBy
  <2>3. 1 \in 1..Len(buf) /\ 0 + 1 = 1
    BY <1>2
  <2>4. 1 <= Len(p) /\ p[1] \in Co /\ buf[1] = tk[p[1]]
    <3> HIDE DEF b, q, o
    <3> QED BY <2>2, <2>3 DEF Match
  <2>5. Len(<<>>) = 0
    OBVIOUS
  <2> QED BY <2>1, <2>4, <2>5, <1>2
<1>4. /\ Len(q) = Len(p) - 1
      /\ \A i \in 1..Len(q) : q[i] = p[i + 1]
  BY <1>3 DEF Traffic
<1>5. Len(mb) \in Nat /\ \A k \in 1..Len(mb) : mb[k].answers \in Seq(Nat)
  BY MailTypes DEF Traffic
<1>6. /\ off \in [1..(Len(mb) + 1) -> Nat]
      /\ \A j, k \in 1..(Len(mb) + 1) : j <= k => off[j] <= off[k]
      /\ \A k \in 1..(Len(mb) + 1) : off[k] >= Len(buf)
  <2> HIDE DEF b, q, o
  <2>1. /\ off \in [1..(Len(mb) + 1) -> Nat] /\ off[1] = Len(buf)
        /\ \A j, k \in 1..(Len(mb) + 1) : j <= k => off[j] <= off[k]
    BY <1>1 DEF InOrderBy, Offsets
  <2>2. ASSUME NEW k \in 1..(Len(mb) + 1) PROVE off[k] >= Len(buf)
    <3>1. 1 \in 1..(Len(mb) + 1) /\ 1 <= k /\ off[k] \in Nat
      BY <1>5, <2>1
    <3>2. off[1] <= off[k]
      BY <3>1, <2>1
    <3> QED BY <3>1, <3>2, <2>1, <1>2
  <2> QED BY <2>1, <2>2
<1> HIDE DEF b, q
<1>7. /\ \A k \in 1..(Len(mb) + 1) : o[k] = off[k] - 1 /\ o[k] \in Nat /\ o[k] >= Len(b)
      /\ o \in [1..(Len(mb) + 1) -> Nat]
  <2>1. ASSUME NEW k \in 1..(Len(mb) + 1)
        PROVE  off[k] - 1 \in Nat /\ off[k] - 1 >= Len(b)
    <3>1. off[k] \in Nat /\ off[k] >= Len(buf)
      BY <1>6
    <3> QED BY <3>1, <1>2
  <2> QED BY <2>1
<1>8. Offsets(o, mb, f, Len(b))
  <2>1. off[1] = Len(buf) /\ 1 \in 1..(Len(mb) + 1)
    BY <1>1, <1>5 DEF InOrderBy, Offsets
  <2>2. o[1] = Len(b)
    BY <2>1, <1>2, <1>7
  <2>3. ASSUME NEW k \in 1..Len(mb) PROVE o[k + 1] = o[k] + Taken(mb[k], f)
    <3>1. off[k + 1] = off[k] + Taken(mb[k], f)
      BY <1>1 DEF InOrderBy, Offsets
    <3>2. k \in 1..(Len(mb) + 1) /\ k + 1 \in 1..(Len(mb) + 1)
      BY <1>5
    <3>3. Taken(mb[k], f) \in Nat
      BY <1>5 DEF Taken
    <3>4. off[k] \in Nat /\ o[k] = off[k] - 1 /\ o[k + 1] = off[k + 1] - 1
      BY <3>2, <1>6, <1>7
    <3> HIDE DEF o
    <3> QED BY <3>1, <3>3, <3>4
  <2>4. ASSUME NEW j \in 1..(Len(mb) + 1), NEW k \in 1..(Len(mb) + 1), j <= k
        PROVE  o[j] <= o[k]
    <3>1. off[j] <= off[k] /\ off[j] \in Nat /\ off[k] \in Nat
      <4> HIDE DEF o
      <4> QED BY <2>4, <1>6
    <3>2. o[j] = off[j] - 1 /\ o[k] = off[k] - 1
      BY <1>7
    <3> HIDE DEF o
    <3> QED BY <3>1, <3>2
  <2> HIDE DEF o
  <2> QED BY <2>2, <2>3, <2>4, <1>7 DEF Offsets
<1> HIDE DEF o
<1>9. ASSUME NEW s \in Seq(Nat), NEW n \in Nat, n > 0, Match(s, n, p, tk)
      PROVE  Match(s, n - 1, q, tk)
  <2>1. ASSUME NEW i \in 1..Len(s)
        PROVE  (n - 1) + i <= Len(q) /\ q[(n - 1) + i] \in Co /\ s[i] = tk[q[(n - 1) + i]]
    <3>1. n + i <= Len(p) /\ p[n + i] \in Co /\ s[i] = tk[p[n + i]]
      BY <1>9 DEF Match
    <3>2. (n - 1) + i \in 1..Len(q) /\ ((n - 1) + i) + 1 = n + i
      BY <3>1, <1>3, <1>4, <1>9
    <3>3. q[(n - 1) + i] = p[n + i]
      BY <3>2, <1>4
    <3> QED BY <3>1, <3>2, <3>3
  <2> QED BY <2>1 DEF Match
<1>10. Match(b, 0, q, tk)
  <2>1. ASSUME NEW i \in 1..Len(b)
        PROVE  0 + i <= Len(q) /\ q[0 + i] \in Co /\ b[i] = tk[q[0 + i]]
    <3>1. i + 1 \in 1..Len(buf) /\ 0 + (i + 1) = i + 1 /\ b[i] = buf[i + 1]
      BY <1>2
    <3>2. i + 1 <= Len(p) /\ p[i + 1] \in Co /\ buf[i + 1] = tk[p[i + 1]]
      <4>1. Match(buf, 0, p, tk)
        BY <1>1 DEF InOrderBy
      <4> QED BY <4>1, <3>1 DEF Match
    <3>3. i \in 1..Len(q) /\ 0 + i = i
      BY <3>2, <1>3, <1>4
    <3> QED BY <3>1, <3>2, <3>3, <1>4
  <2> QED BY <2>1 DEF Match
<1>11. ASSUME NEW k \in 1..(Len(mb) + 1) PROVE off[k] \in Nat /\ off[k] > 0
  <2>1. off[k] \in Nat /\ off[k] >= Len(buf)
    BY <1>6
  <2> QED BY <2>1, <1>2
<1>12. ASSUME NEW k \in 1..Len(mb), mb[k].fd = f PROVE Match(mb[k].answers, o[k], q, tk)
  <2>1. Match(mb[k].answers, off[k], p, tk)
    BY <1>1, <1>12 DEF InOrderBy
  <2>2. k \in 1..(Len(mb) + 1)
    BY <1>5
  <2> QED BY <2>1, <2>2, <1>5, <1>7, <1>9, <1>11
<1>13. Match(wr, o[Len(mb) + 1], q, tk)
  <2>1. Match(wr, off[Len(mb) + 1], p, tk)
    BY <1>1 DEF InOrderBy
  <2>2. Len(mb) + 1 \in 1..(Len(mb) + 1) /\ wr \in Seq(Nat)
    BY <1>5 DEF Traffic
  <2> QED BY <2>1, <2>2, <1>7, <1>9, <1>11
<1>14. full => o[Len(mb) + 1] + Len(wr) = Len(q)
  <2>1. full => off[Len(mb) + 1] + Len(wr) = Len(p)
    BY <1>1 DEF InOrderBy
  <2>2. Len(mb) + 1 \in 1..(Len(mb) + 1) /\ Len(wr) \in Nat
    BY <1>5 DEF Traffic
  <2>3. off[Len(mb) + 1] \in Nat /\ o[Len(mb) + 1] = off[Len(mb) + 1] - 1
    BY <2>2, <1>7, <1>11
  <2>4. Len(p) \in Nat /\ Len(q) = Len(p) - 1
    BY <1>3, <1>4
  <2>5. Len(wr) \in Nat
    BY <2>2
  <2> QED BY <2>1, <2>3, <2>4, <2>5
<1>15. InOrderBy(o, f, mb, b, wr, q, tk, full)
  BY <1>8, <1>10, <1>12, <1>13, <1>14 DEF InOrderBy
<1>16. InOrder(f, mb, b, wr, q, tk, full)
  BY <1>15 DEF InOrder
<1> QED BY <1>3, <1>16 DEF b, q

(* The first message is read: if it is about f its answers go to the       *)
(* buffer.                                                                 *)
LEMMA OrderRead ==
  ASSUME NEW f, NEW mb, NEW buf, NEW wr, NEW p, NEW tk, NEW full,
         Traffic(f, mb, buf, wr, p, tk), InOrder(f, mb, buf, wr, p, tk, full), mb # <<>>
  PROVE  InOrder(f, Tail(mb), IF Head(mb).fd = f THEN buf \o Head(mb).answers ELSE buf, wr,
                 p, tk, full)
<1>1. PICK off : InOrderBy(off, f, mb, buf, wr, p, tk, full)
  BY DEF InOrder
<1> DEFINE n == Tail(mb)
           m == Head(mb)
           b == IF m.fd = f THEN buf \o m.answers ELSE buf
           o == [k \in 1..(Len(n) + 1) |-> off[k + 1]]
<1>2. /\ Len(mb) \in Nat \ {0} /\ Len(n) = Len(mb) - 1 /\ m = mb[1]
      /\ \A k \in 1..Len(n) : n[k] = mb[k + 1]
  BY DEF Traffic
<1>3. m.answers \in Seq(Nat) /\ Len(m.answers) \in Nat /\ buf \in Seq(Nat) /\ Len(buf) \in Nat
  <2>1. 1 \in 1..Len(mb)
    BY <1>2
  <2>2. m.answers \in Seq(Nat)
    BY <1>2, <2>1, MailTypes DEF Traffic
  <2> QED BY <2>2 DEF Traffic
<1>4. off \in [1..(Len(mb) + 1) -> Nat] /\ off[1] = Len(buf)
  <2> HIDE DEF b, o
  <2> QED BY <1>1 DEF InOrderBy, Offsets
<1>5. Taken(m, f) \in Nat /\ Len(b) = Len(buf) + Taken(m, f)
  BY <1>3 DEF Taken
<1>6. off[2] = Len(b) /\ 1 \in 1..Len(mb)
  <2> HIDE DEF b, o
  <2>1. 1 \in 1..Len(mb) /\ 1 + 1 = 2
    BY <1>2
  <2>2. off[1 + 1] = off[1] + Taken(mb[1], f)
    BY <1>1, <2>1 DEF InOrderBy, Offsets
  <2> QED BY <2>1, <2>2, <1>2, <1>4, <1>5
<1> HIDE DEF n, m, b
<1>7. /\ o \in [1..(Len(n) + 1) -> Nat]
      /\ \A k \in 1..(Len(n) + 1) : o[k] = off[k + 1]
      /\ Len(n) \in Nat
  BY <1>2, <1>4
<1> HIDE DEF o
<1>8. \A k \in 1..Len(n) : o[k + 1] = o[k] + Taken(n[k], f)
  <2>1. SUFFICES ASSUME NEW k \in 1..Len(n) PROVE o[k + 1] = o[k] + Taken(n[k], f)
    OBVIOUS
  <2>2. k + 1 \in 1..Len(mb) /\ k \in 1..(Len(n) + 1) /\ k + 1 \in 1..(Len(n) + 1)
    BY <1>2
  <2>3. off[(k + 1) + 1] = off[k + 1] + Taken(mb[k + 1], f)
    BY <1>1, <2>2 DEF InOrderBy, Offsets
  <2> QED BY <2>2, <2>3, <1>2, <1>7
<1>9. Offsets(o, n, f, Len(b))
  <2>1. o[1] = Len(b)
    BY <1>6, <1>7
  <2>2. ASSUME NEW j \in 1..(Len(n) + 1), NEW k \in 1..(Len(n) + 1), j <= k
        PROVE  o[j] <= o[k]
    <3>1. j + 1 \in 1..(Len(mb) + 1) /\ k + 1 \in 1..(Len(mb) + 1) /\ j + 1 <= k + 1
      BY <1>2, <2>2
    <3>2. off[j + 1] <= off[k + 1]
      BY <3>1, <1>1 DEF InOrderBy, Offsets
    <3> QED BY <3>2, <1>7
  <2> QED BY <2>1, <2>2, <1>7, <1>8 DEF Offsets
<1>10. Match(b, 0, p, tk)
  <2>1. Match(buf, 0, p, tk)
    BY <1>1 DEF InOrderBy
  <2>2. CASE m.fd # f
    BY <2>1, <2>2 DEF b
  <2>3. CASE m.fd = f
    <3>1. Match(m.answers, Len(buf), p, tk)
      BY <1>1, <1>2, <1>4, <1>6, <2>3 DEF InOrderBy
    <3>2. /\ Len(b) = Len(buf) + Len(m.answers)
          /\ \A i \in 1..Len(b) :
               b[i] = IF i <= Len(buf) THEN buf[i] ELSE m.answers[i - Len(buf)]
      BY <2>3, <1>3 DEF b
    <3>3. ASSUME NEW i \in 1..Len(b)
          PROVE  0 + i <= Len(p) /\ p[0 + i] \in Co /\ b[i] = tk[p[0 + i]]
      <4>1. CASE i <= Len(buf)
        <5>1. i \in 1..Len(buf)
          BY <4>1, <1>3
        <5> QED BY <4>1, <5>1, <3>2, <2>1 DEF Match
      <4>2. CASE i > Len(buf)
        <5>1. /\ i - Len(buf) \in 1..Len(m.answers) /\ Len(buf) + (i - Len(buf)) = i
              /\ ~(i <= Len(buf)) /\ 0 + i = i
          BY <4>2, <3>2, <1>3
        <5>2. /\ Len(buf) + (i - Len(buf)) <= Len(p) /\ p[Len(buf) + (i - Len(buf))] \in Co
              /\ m.answers[i - Len(buf)] = tk[p[Len(buf) + (i - Len(buf))]]
          BY <5>1, <3>1 DEF Match
        <5>3. b[i] = m.answers[i - Len(buf)]
          BY <5>1, <3>2
        <5> QED BY <5>1, <5>2, <5>3
      <4> QED BY <4>1, <4>2, <1>3, <3>2
    <3> QED BY <3>3 DEF Match
  <2> QED BY <2>2, <2>3
<1>11. ASSUME NEW k \in 1..Len(n), n[k].fd = f PROVE Match(n[k].answers, o[k], p, tk)
  <2>1. k + 1 \in 1..Len(mb) /\ k \in 1..(Len(n) + 1) /\ n[k] = mb[k + 1]
    BY <1>2
  <2>2. Match(mb[k + 1].answers, off[k + 1], p, tk)
    BY <2>1, <1>1, <1>11 DEF InOrderBy
  <2> QED BY <2>1, <2>2, <1>7
<1>12. o[Len(n) + 1] = off[Len(mb) + 1]
  BY <1>2, <1>7
<1>13. InOrderBy(o, f, n, b, wr, p, tk, full)
  BY <1>1, <1>9, <1>10, <1>11, <1>12 DEF InOrderBy
<1>14. InOrder(f, n, b, wr, p, tk, full)
  BY <1>13 DEF InOrder
<1> QED BY <1>14 DEF n, b, m

(* Another message is posted; what it brings of f is taken from the wire.  *)
LEMMA OrderPost ==
  ASSUME NEW f, NEW mb, NEW buf, NEW wr, NEW p, NEW tk, NEW full, NEW m \in Message,
         NEW n \in 0..Len(wr), NEW fuller,
         Traffic(f, mb, buf, wr, p, tk), InOrder(f, mb, buf, wr, p, tk, full),
         m.fd = f => m.answers = SubSeq(wr, 1, n),
         m.fd # f => n = 0,
         fuller => full
  PROVE  InOrder(f, Append(mb, m), buf, SubSeq(wr, n + 1, Len(wr)), p, tk, fuller)
<1>1. PICK off : InOrderBy(off, f, mb, buf, wr, p, tk, full)
  BY DEF InOrder
<1> DEFINE L == Len(mb)
           l == Append(mb, m)
           w == SubSeq(wr, n + 1, Len(wr))
           o == [k \in 1..(L + 2) |-> IF k = L + 2 THEN off[L + 1] + n ELSE off[k]]
<1>2. /\ L \in Nat /\ Len(l) = L + 1 /\ l[L + 1] = m
      /\ \A k \in 1..L : l[k] = mb[k]
  BY DEF Traffic
<1>3. /\ wr \in Seq(Nat) /\ Len(wr) \in Nat /\ n \in Nat /\ n <= Len(wr)
      /\ Len(w) = Len(wr) - n
      /\ \A i \in 1..Len(w) : w[i] = wr[n + i]
  <2>1. wr \in Seq(Nat) /\ Len(wr) \in Nat
    BY DEF Traffic
  <2>2. n \in Nat /\ n <= Len(wr)
    BY <2>1
  <2>3. Len(w) = Len(wr) - n
    BY <2>1, <2>2
  <2>4. ASSUME NEW i \in 1..Len(w) PROVE w[i] = wr[n + i]
    <3>1. i \in 1..(Len(wr) - n)
      BY <2>3
    <3> QED BY <3>1, <2>1, <2>2
  <2> QED BY <2>1, <2>2, <2>3, <2>4
<1>4. /\ off \in [1..(L + 1) -> Nat] /\ off[1] = Len(buf)
      /\ \A k \in 1..L : off[k + 1] = off[k] + Taken(mb[k], f)
      /\ \A j, k \in 1..(L + 1) : j <= k => off[j] <= off[k]
  <2> HIDE DEF o
  <2> QED BY <1>1 DEF InOrderBy, Offsets
<1> HIDE DEF l, w, L
<1>5. L + 1 \in 1..(L + 1) /\ off[L + 1] \in Nat
  BY <1>2, <1>4
<1>6. /\ o \in [1..(L + 2) -> Nat] /\ o[L + 2] = off[L + 1] + n
      /\ \A k \in 1..(L + 1) : o[k] = off[k]
  BY <1>2, <1>3, <1>4, <1>5
<1> HIDE DEF o
<1>7. Taken(m, f) = n
  <2>1. CASE m.fd = f
    <3>1. Len(SubSeq(wr, 1, n)) = n
      BY <1>3
    <3> QED BY <3>1, <2>1 DEF Taken
  <2>2. CASE m.fd # f
    BY <2>2 DEF Taken
  <2> QED BY <2>1, <2>2
<1>8. Offsets(o, l, f, Len(buf))
  <2>1. Len(l) + 1 = L + 2 /\ 1 \in 1..(L + 1)
    BY <1>2
  <2>2. ASSUME NEW k \in 1..Len(l) PROVE o[k + 1] = o[k] + Taken(l[k], f)
    <3>1. CASE k \in 1..L
      <4>1. k + 1 \in 1..(L + 1) /\ k \in 1..(L + 1)
        BY <3>1, <1>2
      <4> QED BY <4>1, <3>1, <1>2, <1>4, <1>6
    <3>2. CASE k = L + 1
      <4>1. k + 1 = L + 2 /\ l[k] = m /\ o[k] = off[L + 1]
        BY <3>2, <1>2, <1>5, <1>6
      <4> QED BY <4>1, <1>6, <1>7
    <3> QED BY <3>1, <3>2, <1>2
  <2>3. ASSUME NEW j \in 1..(L + 2), NEW k \in 1..(L + 2), j <= k
        PROVE  o[j] <= o[k]
    <3>1. CASE k \in 1..(L + 1)
      <4>1. j \in 1..(L + 1)
        BY <2>3, <3>1, <1>2
      <4> QED BY <4>1, <3>1, <2>3, <1>4, <1>6
    <3>2. CASE k = L + 2 /\ j \in 1..(L + 1)
      <4>1. off[j] <= off[L + 1] /\ off[j] \in Nat
        BY <3>2, <1>2, <1>4, <1>5
      <4> QED BY <4>1, <3>2, <1>3, <1>5, <1>6
    <3>3. CASE k = L + 2 /\ j = L + 2
      BY <3>3, <1>6, <1>2
    <3> QED BY <3>1, <3>2, <3>3, <1>2
  <2>4. o[1] = Len(buf)
    BY <2>1, <1>4, <1>6
  <2> QED BY <2>1, <2>2, <2>3, <2>4, <1>6 DEF Offsets
<1>9. Match(wr, off[L + 1], p, tk)
  BY <1>1 DEF InOrderBy, L
<1>10. Match(w, o[L + 2], p, tk)
  <2>1. ASSUME NEW i \in 1..Len(w)
        PROVE  o[L + 2] + i <= Len(p) /\ p[o[L + 2] + i] \in Co /\ w[i] = tk[p[o[L + 2] + i]]
    <3>1. n + i \in 1..Len(wr) /\ off[L + 1] + (n + i) = o[L + 2] + i
      <4>1. i \in 1..(Len(wr) - n) /\ o[L + 2] = off[L + 1] + n
        BY <1>3, <1>6
      <4>2. Len(wr) \in Nat /\ n \in Nat /\ n <= Len(wr) /\ off[L + 1] \in Nat
        BY <1>3, <1>5
      <4> QED BY <4>1, <4>2
    <3>2. /\ off[L + 1] + (n + i) <= Len(p) /\ p[off[L + 1] + (n + i)] \in Co
          /\ wr[n + i] = tk[p[off[L + 1] + (n + i)]]
      BY <3>1, <1>9 DEF Match
    <3> QED BY <3>1, <3>2, <1>3
  <2> QED BY <2>1 DEF Match
<1>11. ASSUME NEW k \in 1..Len(l), l[k].fd = f PROVE Match(l[k].answers, o[k], p, tk)
  <2>1. CASE k \in 1..L
    <3>1. mb[k].fd = f /\ l[k] = mb[k] /\ o[k] = off[k]
      BY <2>1, <1>2, <1>6, <1>11
    <3>2. Match(mb[k].answers, off[k], p, tk)
      BY <3>1, <2>1, <1>1 DEF InOrderBy, L
    <3> QED BY <3>1, <3>2
  <2>2. CASE k = L + 1
    <3>1. l[k] = m /\ m.answers = SubSeq(wr, 1, n) /\ o[k] = off[L + 1]
      BY <2>2, <1>2, <1>5, <1>6, <1>11
    <3>2. /\ Len(m.answers) = n
          /\ \A i \in 1..n : m.answers[i] = wr[i]
      <4>1. SubSeq(wr, 1, n) \in Seq(Nat) /\ Len(SubSeq(wr, 1, n)) = n
        BY <1>3
      <4>2. ASSUME NEW i \in 1..n PROVE SubSeq(wr, 1, n)[i] = wr[i]
        <5>1. i \in 1..((n - 1) + 1) /\ (1 + i) - 1 = i
          BY <1>3
        <5> QED BY <5>1, <1>3
      <4> QED BY <4>1, <4>2, <3>1
    <3>3. ASSUME NEW i \in 1..n
          PROVE  /\ off[L + 1] + i <= Len(p) /\ p[off[L + 1] + i] \in Co
                 /\ m.answers[i] = tk[p[off[L + 1] + i]]
      <4>1. i \in 1..Len(wr)
        BY <1>3
      <4> QED BY <4>1, <3>2, <1>9 DEF Match
    <3> QED BY <3>1, <3>2, <3>3 DEF Match
  <2> QED BY <2>1, <2>2, <1>2
<1>12. fuller => o[L + 2] + Len(w) = Len(p)
  <2>1. full => off[L + 1] + Len(wr) = Len(p)
    BY <1>1 DEF InOrderBy, L
  <2> QED BY <2>1, <1>3, <1>5, <1>6
<1>13. Len(l) + 1 = L + 2 /\ Match(buf, 0, p, tk)
  BY <1>1, <1>2 DEF InOrderBy
<1>14. InOrderBy(o, f, l, buf, w, p, tk, fuller)
  BY <1>8, <1>10, <1>11, <1>12, <1>13 DEF InOrderBy
<1>15. InOrder(f, l, buf, w, p, tk, fuller)
  BY <1>14 DEF InOrder
<1> QED BY <1>15 DEF l, w

-----------------------------------------------------------------------------
(* The inductive invariant. *)

Types ==
  /\ sock \in 0..MaxConn /\ request \in Seq(Co \cup {Close})
  /\ wait_response \in BOOLEAN /\ connecting \in Seq(Co)
  /\ result \in [Co -> Nat \cup {Nil, Failed}]
  /\ dispatch_thread \in {"none", "forked", "loop", "pop", "get", "read", "dead", "lost"}
  /\ popped \in Co \cup {Nil}
  /\ pc \in [Co -> {"idle", "request", "recheck", "write", "connwait", "open", "yield",
                    "start", "wait", "closing"}]
  /\ ticket \in [Co -> Nat] /\ made \in Nat
  /\ fd \in [Co \cup {D} -> 0..MaxConn]
  /\ running \in Co \cup {D, Nil} /\ wakeup_queue \in Seq(Co \cup {D})
  /\ connected \in [Fd -> BOOLEAN] /\ buffer \in [Fd -> Seq(Nat)]
  /\ link \in [Fd -> {"none", "connecting", "up", "eof", "down"}]
  /\ wire \in [Fd -> Seq(Nat)] /\ mailbox \in Seq(Message)

Woken(x) == running = x \/ In(x, wakeup_queue)

Opening(c) == pc[c] \in {"open", "yield", "start"}

Closing(c) == pc[c] = "closing"

(* Those who wait for an answer, first the one whose answer D reads. *)
Pend == IF dispatch_thread \in {"get", "read"} THEN <<popped>> \o request ELSE request

(* The service knows that socket f has come up. *)
Settled(f) == link[f] \in {"up", "eof", "down"} /\ ~Connect(mailbox, f)

Silent(f) == wire[f] = <<>> /\ buffer[f] = <<>> /\ NoAnswers(mailbox, f)

(* Whoever is woken is asleep, and is woken once. *)
Scheduled ==
  /\ \A c \in Co : pc[c] \in {"request", "recheck", "write", "start"} => running = c
  /\ \A c \in Co : running = c =>
       pc[c] \in {"request", "recheck", "write", "open", "start", "wait", "closing"}
  /\ \A c \in Co : In(c, wakeup_queue) =>
       pc[c] \in {"connwait", "open", "wait", "closing"} /\ running # c
  /\ In(D, wakeup_queue) => dispatch_thread \in {"pop", "read"} /\ running # D
  /\ dispatch_thread \in {"loop", "get"} => running = D
  /\ running = D => dispatch_thread \in {"loop", "get", "pop", "read"}
  /\ Distinct(wakeup_queue)
  /\ wait_response <=> dispatch_thread = "pop" /\ ~Woken(D)
  /\ wait_response => request = <<>>

(* One coroutine opens a socket, while the channel has none. *)
Connects ==
  /\ \A c \in Co : Opening(c) <=> connecting # <<>> /\ Head(connecting) = c
  /\ connecting # <<>> => \A c \in Co : In(c, Tail(connecting)) =>
       pc[c] = "connwait" /\ ~In(c, wakeup_queue)
  /\ Distinct(connecting)
  /\ \A c \in Co : Opening(c) =>
       sock = 0 /\ fd[c] \in Fd /\ link[fd[c]] # "none" /\ Silent(fd[c])
  /\ \A c \in Co : pc[c] \in {"yield", "start"} => Settled(fd[c])
  /\ \A c \in Co : pc[c] = "start" => dispatch_thread = "none"
  /\ \A c \in Co : pc[c] = "write" => sock # 0 /\ connected[sock]

(* Those who wait for an answer are asleep and have none. *)
Requests ==
  /\ dispatch_thread \in {"get", "read"} => popped \in Co
  /\ Distinct(Pend)
  /\ \A c \in Co : In(c, Pend) => pc[c] = "wait" /\ result[c] = Nil /\ ~Woken(c)
  /\ In(Close, request) => \E c \in Co : pc[c] = "yield"
  /\ dispatch_thread = "none" \/ (dispatch_thread = "loop" /\ sock = 0) =>
       request = <<>> \/ \E c \in Co : Closing(c)
  /\ \A c \in Co : result[c] \in {Nil, Failed, ticket[c]}
  /\ \A c \in Co : result[c] # Nil => pc[c] = "wait" /\ Woken(c)

(* D reads the socket of the channel, or one that is given up. *)
Reading ==
  /\ sock # 0 => dispatch_thread \notin {"none", "dead", "lost"} /\ Settled(sock)
  /\ dispatch_thread = "read" =>
       /\ fd[D] \in Fd /\ sock \in {0, fd[D]} /\ Settled(fd[D])
       /\ sock = 0 => ~connected[fd[D]] \/ \E c \in Co : Closing(c)

(* The one in socket.close is woken before the next socket can be used. *)
ClosesFirst(c) ==
  /\ sock = 0 /\ fd[c] \in Fd /\ link[fd[c]] # "none"
  /\ \A d \in Co : Closing(d) => d = c
  /\ \A d \in Co : pc[d] \notin {"yield", "start"}
  /\ \A d \in Co : pc[d] = "open" => fd[d] # fd[c] /\ ~connected[fd[d]] /\ ~Woken(d)
  /\ dispatch_thread = "read" => fd[D] = fd[c] /\ ~(Woken(c) /\ Woken(D))
  /\ \/ Woken(c)
     \/ dispatch_thread = "read" /\ Woken(D)
     \/ /\ Ended(mailbox, fd[c])
        /\ \A d \in Co : pc[d] = "open" => Ahead(mailbox, fd[c], fd[d])

Closes == \A c \in Co : Closing(c) => ClosesFirst(c)

Network ==
  /\ \A f \in Fd : link[f] \in {"none", "connecting"} =>
       ~Some(mailbox, f) /\ wire[f] = <<>> /\ buffer[f] = <<>> /\ ~connected[f]
  /\ ConnectFirst(mailbox) /\ DataAnswers(mailbox)
  /\ \A f \in Fd : connected[f] => ~Connect(mailbox, f)
  /\ \A f \in Fd : link[f] \in {"eof", "down"} /\ ~Ended(mailbox, f) =>
       ~connected[f] /\ ~Connect(mailbox, f)

Read(f) == sock = f \/ (dispatch_thread = "read" /\ fd[D] = f)

Full(f) == sock = f /\ link[f] = "up"

Ordered ==
  \A f \in Fd : Read(f) =>
    InOrder(f, mailbox, buffer[f], wire[f], Pend, ticket, Full(f))

Inv ==
  /\ Types /\ Scheduled /\ Connects /\ Requests /\ Reading /\ Closes /\ Network /\ Ordered

-----------------------------------------------------------------------------
LEMMA InitInv == Init => Inv
<1> SUFFICES ASSUME Init PROVE Inv
  OBVIOUS
<1>0. \A y : ~In(y, <<>>) /\ Distinct(<<>>)
  BY InOne
<1>1. Types
  <2>1. 0 \in 0..MaxConn
    BY ChannelAssumption
  <2>2. <<>> \in Seq(Co \cup {Close}) /\ <<>> \in Seq(Co) /\ <<>> \in Seq(Co \cup {D})
        /\ <<>> \in Seq(Nat) /\ <<>> \in Seq(Message)
    OBVIOUS
  <2>3. /\ result \in [Co -> Nat \cup {Nil, Failed}] /\ popped \in Co \cup {Nil}
        /\ pc \in [Co -> {"idle", "request", "recheck", "write", "connwait", "open", "yield",
                          "start", "wait", "closing"}]
        /\ ticket \in [Co -> Nat] /\ made \in Nat
        /\ running \in Co \cup {D, Nil}
    BY DEF Init
  <2>4. fd \in [Co \cup {D} -> 0..MaxConn]
    BY <2>1 DEF Init
  <2>5. /\ connected \in [Fd -> BOOLEAN] /\ buffer \in [Fd -> Seq(Nat)]
        /\ link \in [Fd -> {"none", "connecting", "up", "eof", "down"}]
        /\ wire \in [Fd -> Seq(Nat)] /\ mailbox \in Seq(Message)
    BY <2>2 DEF Init
  <2>6. wait_response \in BOOLEAN
    BY DEF Init
  <2> QED BY <2>1, <2>2, <2>3, <2>4, <2>5, <2>6 DEF Init, Types
<1>2. Scheduled
  BY <1>0, ChannelAssumption DEF Init, Scheduled, Woken
<1>3. Connects
  BY <1>0, ChannelAssumption DEF Init, Connects, Opening
<1>4. Requests
  BY <1>0, ChannelAssumption DEF Init, Requests, Pend
<1>5. Reading
  BY DEF Init, Reading
<1>6. Closes
  BY DEF Init, Closes, Closing
<1>7. Network
  BY DEF Init, Network, Some, Connect, Ended, ConnectFirst, DataAnswers
<1>8. Ordered
  BY DEF Init, Ordered, Read, Fd
<1> QED BY <1>1, <1>2, <1>3, <1>4, <1>5, <1>6, <1>7, <1>8 DEF Inv

(* Nothing of the network changes. *)
LEMMA NetworkKept ==
  ASSUME Network, UNCHANGED <<connected, buffer, link, wire, mailbox>>
  PROVE  Network'
BY DEF Network

LEMMA PendFacts ==
  ASSUME Types, Requests
  PROVE  /\ Pend \in Seq(Co \cup {Close})
         /\ \A x : In(x, Pend) <=>
              (dispatch_thread \in {"get", "read"} /\ x = popped) \/ In(x, request)
         /\ dispatch_thread \in {"get", "read"} =>
              /\ Distinct(request) /\ ~In(popped, request) /\ popped \in Co
              /\ Pend # <<>> /\ Pend[1] = popped /\ Tail(Pend) = request
         /\ dispatch_thread \notin {"get", "read"} => Distinct(request) /\ Pend = request
<1>1. CASE dispatch_thread \in {"get", "read"}
  <2>1. popped \in Co /\ Pend = <<popped>> \o request /\ request \in Seq(Co \cup {Close})
    BY <1>1 DEF Types, Requests, Pend
  <2>2. <<popped>> \in Seq(Co \cup {Close}) /\ \A y : In(y, <<popped>>) <=> y = popped
    BY <2>1, InOne
  <2>3. /\ Pend \in Seq(Co \cup {Close})
        /\ \A y : In(y, Pend) <=> y = popped \/ In(y, request)
    BY <2>1, <2>2, InConcat
  <2>4. Pend # <<>> /\ Head(Pend) = popped /\ Pend[1] = popped /\ Tail(Pend) = request
    BY <2>1
  <2>5. Distinct(Pend)
    BY DEF Requests
  <2>6. Distinct(request) /\ ~In(popped, request)
    BY <2>3, <2>4, <2>5, InTail
  <2> QED BY <1>1, <2>1, <2>3, <2>4, <2>6
<1>2. CASE dispatch_thread \notin {"get", "read"}
  BY <1>2 DEF Pend, Types, Requests
<1> QED BY <1>1, <1>2

(* Nothing of the order changes. *)
LEMMA OrderKept ==
  ASSUME Inv, UNCHANGED <<wire, buffer, mailbox>>, Pend' = Pend,
         \A c \in Co : In(c, Pend) => ticket'[c] = ticket[c],
         \A f \in Fd : Read(f)' => Read(f),
         \A f \in Fd : Full(f)' => Full(f)
  PROVE  Ordered'
<1>1. SUFFICES ASSUME NEW f \in Fd, Read(f)'
               PROVE  InOrder(f, mailbox', buffer'[f], wire'[f], Pend', ticket', Full(f)')
  BY DEF Ordered
<1>2. InOrder(f, mailbox, buffer[f], wire[f], Pend, ticket, Full(f))
  BY <1>1 DEF Inv, Ordered
<1>3. Traffic(f, mailbox, buffer[f], wire[f], Pend, ticket)
  BY PendFacts DEF Inv, Types, Traffic
<1>4. Full(f)' => Full(f)
  OBVIOUS
<1>5. InOrder(f, mailbox, buffer[f], wire[f], Pend, ticket', Full(f)')
  <2> HIDE DEF Full
  <2> QED BY <1>2, <1>3, <1>4, OrderTickets
<1> QED BY <1>5

-----------------------------------------------------------------------------
(* The steps of the callers. *)

LEMMA RequestInv ==
  ASSUME Inv, NEW c \in Co, Request(c)
  PROVE  Inv'
<1>1. Types /\ Scheduled /\ Connects /\ Requests /\ Reading /\ Closes /\ Network /\ Ordered
  BY DEF Inv
<1>2. /\ running = Nil /\ wakeup_queue = <<>> /\ pc[c] = "idle"
      /\ made' = made + 1 /\ ticket' = [ticket EXCEPT ![c] = made + 1]
      /\ pc' = [pc EXCEPT ![c] = "request"] /\ running' = c
      /\ UNCHANGED <<sock, request, wait_response, connecting, result, dispatch_thread, popped,
                      fd, wakeup_queue, connected, buffer, link, wire, mailbox>>
  BY DEF Request, Quiet, channel, dispatcher, sockets, network
<1>3. \A x : ~In(x, wakeup_queue)
  BY <1>2, InOne
<1>4. Pend' = Pend
  BY <1>2 DEF Pend
<1>5. /\ D # Nil /\ \A x \in Co : x # D /\ x # Nil
  BY ChannelAssumption
<1>6. \A x \in Co : pc'[x] = IF x = c THEN "request" ELSE pc[x]
  BY <1>1, <1>2 DEF Types
<1>7. \A x \in Co : x # c => ticket'[x] = ticket[x]
  BY <1>1, <1>2 DEF Types
<1>8. result[c] = Nil
  BY <1>1, <1>2 DEF Requests
<1>9. \A x \in Co : In(x, Pend) => x # c
  BY <1>1, <1>2 DEF Requests
<1>10. Types'
  BY <1>1, <1>2, <1>3, <1>4, <1>5, <1>6, <1>7, <1>8, <1>9 DEF Types
<1>11. Scheduled'
  BY <1>1, <1>2, <1>3, <1>4, <1>5, <1>6, <1>7, <1>8, <1>9 DEF Scheduled, Woken
<1>12. Connects'
  BY <1>1, <1>2, <1>3, <1>4, <1>5, <1>6, <1>7, <1>8, <1>9 DEF Connects, Opening, Settled, Silent, Scheduled
<1>13. Requests'
  BY <1>1, <1>2, <1>3, <1>4, <1>5, <1>6, <1>7, <1>8, <1>9 DEF Requests, Woken, Closing, Scheduled
<1>14. Reading'
  BY <1>1, <1>2, <1>3, <1>4, <1>5, <1>6, <1>7, <1>8, <1>9 DEF Reading, Settled, Woken, Closing, Scheduled
<1>15. Closes'
  BY <1>1, <1>2, <1>3, <1>4, <1>5, <1>6, <1>7, <1>8, <1>9 DEF Closes, ClosesFirst, Closing, Woken, Opening, Connects
<1>16. Network'
  BY <1>1, <1>2, NetworkKept
<1>17. Ordered'
  BY <1>1, <1>2, <1>4, <1>7, <1>9, OrderKept DEF Inv, Read, Full, Requests
<1> QED BY <1>10, <1>11, <1>12, <1>13, <1>14, <1>15, <1>16, <1>17 DEF Inv

LEMMA CheckInv ==
  ASSUME Inv, NEW c \in Co, check_connection(c)
  PROVE  Inv'
<1>1. Types /\ Scheduled /\ Connects /\ Requests /\ Reading /\ Closes /\ Network /\ Ordered
  BY DEF Inv
<1>2. /\ running = c /\ pc[c] \in {"request", "recheck"} /\ sock # 0 /\ connected[sock]
      /\ pc' = [pc EXCEPT ![c] = "write"]
      /\ UNCHANGED <<sock, request, wait_response, connecting, result, dispatch_thread, popped,
                      ticket, made, fd, running, wakeup_queue, connected, buffer, link, wire, mailbox>>
  BY DEF check_connection, Go, Usable, channel, dispatcher, sockets, network
<1>3. Pend' = Pend
  BY <1>2 DEF Pend
<1>4. Types'
  BY <1>1, <1>2, <1>3 DEF Types
<1>5. Scheduled'
  BY <1>1, <1>2, <1>3 DEF Scheduled, Woken
<1>6. Connects'
  BY <1>1, <1>2, <1>3 DEF Connects, Opening, Settled, Silent, Scheduled
<1>7. Requests'
  BY <1>1, <1>2, <1>3 DEF Requests, Woken, Closing, Scheduled
<1>8. Reading'
  BY <1>1, <1>2, <1>3 DEF Reading, Settled, Woken, Closing, Scheduled
<1>9. Closes'
  BY <1>1, <1>2, <1>3 DEF Closes, ClosesFirst, Closing, Woken, Opening, Connects
<1>10. Network'
  BY <1>1, <1>2, NetworkKept
<1>11. Ordered'
  BY <1>1, <1>2, <1>3, OrderKept DEF Inv, Read, Full, Requests
<1> QED BY <1>4, <1>5, <1>6, <1>7, <1>8, <1>9, <1>10, <1>11 DEF Inv

LEMMA WaitConnectInv ==
  ASSUME Inv, NEW c \in Co, wait_connect(c)
  PROVE  Inv'
<1>1. Types /\ Scheduled /\ Connects /\ Requests /\ Reading /\ Closes /\ Network /\ Ordered
  BY DEF Inv
<1>2. /\ running = c /\ pc[c] = "request" /\ (sock = 0 \/ ~connected[sock])
      /\ connecting # <<>> /\ connecting' = Append(connecting, c) /\ sock' = 0
      /\ pc' = [pc EXCEPT ![c] = "connwait"] /\ running' = Nil
      /\ UNCHANGED <<request, wait_response, result, dispatch_thread, popped,
                      ticket, made, fd, wakeup_queue, connected, buffer, link, wire, mailbox>>
  BY DEF wait_connect, Stop, Usable, dispatcher, sockets, network
<1>3. /\ D # Nil /\ \A x \in Co : x # D /\ x # Nil
  BY ChannelAssumption
<1>4. Pend' = Pend
  BY <1>2 DEF Pend
<1>5. ~In(c, connecting)
  <2>1. connecting \in Seq(Co)
    BY <1>1 DEF Types
  <2> QED BY <1>1, <1>2, <2>1, InTail DEF Connects, Opening
<1>6. /\ connecting' \in Seq(Co) /\ Distinct(connecting') /\ connecting' # <<>>
      /\ Head(connecting') = Head(connecting)
      /\ \A x : In(x, Tail(connecting')) <=> In(x, Tail(connecting)) \/ x = c
  <2>1. connecting \in Seq(Co) /\ Tail(connecting) \in Seq(Co) /\ Distinct(connecting)
    BY <1>1, <1>2 DEF Types, Connects
  <2>2. connecting' \in Seq(Co) /\ Distinct(connecting')
    BY <1>2, <1>5, <2>1, InAppend
  <2>3. /\ connecting' # <<>> /\ Head(connecting') = Head(connecting)
        /\ Tail(connecting') = Append(Tail(connecting), c)
    BY <1>2, <2>1
  <2>4. \A x : In(x, Append(Tail(connecting), c)) <=> In(x, Tail(connecting)) \/ x = c
    BY <2>1, InAppend
  <2> QED BY <2>2, <2>3, <2>4
<1>7. \A x \in Co : pc'[x] = IF x = c THEN "connwait" ELSE pc[x]
  BY <1>1, <1>2 DEF Types
<1>8. 0 \in 0..MaxConn /\ 0 \notin Fd
  BY ChannelAssumption DEF Fd
<1>9. Types'
  BY <1>1, <1>2, <1>3, <1>4, <1>5, <1>6, <1>7, <1>8 DEF Types
<1>10. Scheduled'
  BY <1>1, <1>2, <1>3, <1>4, <1>5, <1>6, <1>7, <1>8 DEF Scheduled, Woken
<1>11. Connects'
  BY <1>1, <1>2, <1>3, <1>4, <1>5, <1>6, <1>7, <1>8 DEF Connects, Opening, Settled, Silent, Scheduled
<1>12. Requests'
  BY <1>1, <1>2, <1>3, <1>4, <1>5, <1>6, <1>7, <1>8 DEF Requests, Woken, Closing, Scheduled
<1>13. Reading'
  BY <1>1, <1>2, <1>3, <1>4, <1>5, <1>6, <1>7, <1>8 DEF Reading, Settled, Woken, Closing, Scheduled
<1>14. Closes'
  BY <1>1, <1>2, <1>3, <1>4, <1>5, <1>6, <1>7, <1>8 DEF Closes, ClosesFirst, Closing, Woken, Opening, Connects
<1>15. Network'
  BY <1>1, <1>2, NetworkKept
<1>16. Ordered'
  BY <1>1, <1>2, <1>4, <1>8, OrderKept DEF Inv, Read, Full, Requests
<1> QED BY <1>9, <1>10, <1>11, <1>12, <1>13, <1>14, <1>15, <1>16 DEF Inv

LEMMA ConnectOnceInv ==
  ASSUME Inv, NEW c \in Co, connect_once(c)
  PROVE  Inv'
<1>1. Types /\ Scheduled /\ Connects /\ Requests /\ Reading /\ Closes /\ Network /\ Ordered
  BY DEF Inv
<1>2. PICK f \in Fd :
      /\ running = c /\ pc[c] = "request" /\ (sock = 0 \/ ~connected[sock])
      /\ connecting = <<>> /\ connecting' = <<c>> /\ sock' = 0
      /\ link[f] = "none" /\ link' = [link EXCEPT ![f] = "connecting"]
      /\ fd' = [fd EXCEPT ![c] = f]
      /\ pc' = [pc EXCEPT ![c] = "open"] /\ running' = Nil
      /\ UNCHANGED <<request, wait_response, result, dispatch_thread, popped,
                      ticket, made, wakeup_queue, connected, buffer, wire, mailbox>>
  BY DEF connect_once, Stop, Usable, dispatcher, sockets
<1>3. /\ D # Nil /\ \A x \in Co : x # D /\ x # Nil
  BY ChannelAssumption
<1>4. Pend' = Pend
  BY <1>2 DEF Pend
<1>5. \A x \in Co : pc'[x] = IF x = c THEN "open" ELSE pc[x]
  BY <1>1, <1>2 DEF Types
<1>6. 0 \in 0..MaxConn /\ 0 \notin Fd /\ Fd \subseteq 0..MaxConn
  BY ChannelAssumption DEF Fd
<1>7. \A x \in Co : ~Opening(x)
  BY <1>1, <1>2 DEF Connects
<1>8. /\ connecting' \in Seq(Co) /\ connecting' # <<>> /\ Head(connecting') = c /\ Distinct(connecting')
      /\ \A x : ~In(x, Tail(connecting'))
  <2>1. connecting' \in Seq(Co) /\ connecting' # <<>> /\ Head(connecting') = c /\ Tail(connecting') = <<>>
    BY <1>2
  <2> QED BY <1>2, <2>1, InOne
<1>9. /\ fd'[D] = fd[D] /\ fd'[c] = f
      /\ \A x \in Co : x # c => fd'[x] = fd[x]
  BY <1>1, <1>2, <1>3 DEF Types
<1>10. /\ link'[f] = "connecting"
       /\ \A g \in Fd : g # f => link'[g] = link[g]
  BY <1>1, <1>2 DEF Types
<1>11. ~Some(mailbox, f) /\ ~connected[f] /\ Silent(f)
  BY <1>1, <1>2, MailAhead DEF Types, Network, Silent
<1>12. \A g : Ended(mailbox, g) => Ahead(mailbox, g, f)
  BY <1>1, <1>11, MailAhead DEF Types
<1>13. Types'
  BY <1>1, <1>2, <1>3, <1>4, <1>5, <1>6, <1>7, <1>8, <1>9, <1>10, <1>11, <1>12 DEF Types
<1>14. Scheduled'
  BY <1>1, <1>2, <1>3, <1>4, <1>5, <1>6, <1>7, <1>8, <1>9, <1>10, <1>11, <1>12 DEF Scheduled, Woken
<1>15. Connects'
  BY <1>1, <1>2, <1>3, <1>4, <1>5, <1>6, <1>7, <1>8, <1>9, <1>10, <1>11, <1>12 DEF Connects, Opening, Settled, Silent, Scheduled
<1>16. Requests'
  BY <1>1, <1>2, <1>3, <1>4, <1>5, <1>6, <1>7, <1>8, <1>9, <1>10, <1>11, <1>12 DEF Requests, Woken, Closing, Scheduled
<1>17. Reading'
  BY <1>1, <1>2, <1>3, <1>4, <1>5, <1>6, <1>7, <1>8, <1>9, <1>10, <1>11, <1>12 DEF Reading, Settled, Woken, Closing, Scheduled
<1>18. Closes'
  <2>1. SUFFICES ASSUME NEW x \in Co, Closing(x)' PROVE ClosesFirst(x)'
    BY DEF Closes
  <2>2. x # c /\ Closing(x) /\ ClosesFirst(x)
    BY <1>1, <1>5, <2>1 DEF Closes, Closing
  <2>3. fd[x] \in Fd /\ fd'[x] = fd[x] /\ fd[x] # f /\ link'[fd[x]] # "none"
    BY <1>2, <1>9, <1>10, <2>2 DEF ClosesFirst
  <2>4. ~In(c, wakeup_queue) /\ running' # c
    BY <1>1, <1>2, <1>3 DEF Scheduled
  <2>5. \A d \in Co : pc'[d] = "open" => d = c
    BY <1>5, <1>7 DEF Opening
  <2>6. \A d \in Co : Closing(d)' => d = x
    BY <1>5, <2>2 DEF Closing, ClosesFirst
  <2>7. \A d \in Co : pc'[d] \notin {"yield", "start"}
    BY <1>5, <1>7 DEF Opening
  <2>8. Woken(x) => Woken(x)'
    BY <1>2, <2>2 DEF Woken
  <2>9. Woken(D) => Woken(D)'
    BY <1>2, <1>3 DEF Woken
  <2>10. (Woken(x)' => Woken(x)) /\ (Woken(D)' => Woken(D))
    BY <1>2, <1>3 DEF Woken
  <2>11. ~Woken(c)'
    BY <2>4, <1>2 DEF Woken
  <2> QED BY <1>2, <1>9, <1>11, <1>12, <2>2, <2>3, <2>5, <2>6, <2>7, <2>8, <2>9, <2>10, <2>11
          DEF ClosesFirst
<1>19. Network'
  BY <1>1, <1>2, <1>10, <1>11 DEF Network
<1>20. Ordered'
  BY <1>1, <1>2, <1>4, <1>6, <1>9, OrderKept DEF Inv, Read, Full, Requests
<1> QED BY <1>13, <1>14, <1>15, <1>16, <1>17, <1>18, <1>19, <1>20 DEF Inv

LEMMA PushFacts ==
  ASSUME Inv, NEW x \in Co \cup {Close}, push_response(x), ~In(x, Pend),
         UNCHANGED <<dispatch_thread, popped>>
  PROVE  /\ request' \in Seq(Co \cup {Close}) /\ request' # <<>>
         /\ \A y : In(y, request') <=> In(y, request) \/ y = x
         /\ Pend' = Append(Pend, x) /\ Distinct(Pend')
         /\ \A y : In(y, Pend') <=> In(y, Pend) \/ y = x
         /\ wakeup_queue' \in Seq(Co \cup {D}) /\ Distinct(wakeup_queue')
         /\ \A y : In(y, wakeup_queue') <=> In(y, wakeup_queue) \/ (wait_response /\ y = D)
         /\ wait_response' = FALSE
<1>1. Types /\ Requests /\ Scheduled
  BY DEF Inv
<1>2. request' = Append(request, x) /\ wait_response' = FALSE
  BY DEF push_response
<1>3. /\ request' \in Seq(Co \cup {Close}) /\ request' # <<>>
      /\ \A y : In(y, request') <=> In(y, request) \/ y = x
  <2>1. request \in Seq(Co \cup {Close})
    BY <1>1 DEF Types
  <2>2. request' # <<>>
    BY <1>2, <2>1
  <2> QED BY <1>2, <2>1, <2>2, InAppend
<1>4. Pend \in Seq(Co \cup {Close}) /\ Distinct(Pend)
  BY <1>1, PendFacts DEF Requests
<1>5. Pend' = Append(Pend, x)
  <2>1. CASE dispatch_thread \in {"get", "read"}
    <3>1. popped \in Co /\ request \in Seq(Co \cup {Close})
      BY <1>1, <2>1 DEF Types, Requests
    <3>2. <<popped>> \o Append(request, x) = Append(<<popped>> \o request, x)
      BY <3>1
    <3> QED BY <2>1, <3>2, <1>2 DEF Pend
  <2>2. CASE dispatch_thread \notin {"get", "read"}
    BY <2>2, <1>2 DEF Pend
  <2> QED BY <2>1, <2>2
<1>6. Distinct(Pend') /\ \A y : In(y, Pend') <=> In(y, Pend) \/ y = x
  BY <1>4, <1>5, InAppend
<1>7. wakeup_queue \in Seq(Co \cup {D}) /\ Distinct(wakeup_queue)
      /\ (wait_response => ~In(D, wakeup_queue))
  BY <1>1 DEF Types, Scheduled, Woken
<1>8. CASE wait_response
  <2>1. wakeup_queue' = Append(wakeup_queue, D)
    BY <1>8 DEF push_response
  <2> QED BY <1>2, <1>3, <1>5, <1>6, <1>7, <1>8, <2>1, InAppend
<1>9. CASE ~wait_response
  <2>1. wakeup_queue' = wakeup_queue
    BY <1>9 DEF push_response
  <2> QED BY <1>2, <1>3, <1>5, <1>6, <1>7, <1>9, <2>1
<1> QED BY <1>8, <1>9

LEMMA OpenedStartInv ==
  ASSUME Inv, NEW c \in Co, opened(c), dispatch_thread = "none"
  PROVE  Inv'
<1>1. Types /\ Scheduled /\ Connects /\ Requests /\ Reading /\ Closes /\ Network /\ Ordered
  BY DEF Inv
<1>2. /\ running = c /\ pc[c] = "open" /\ connected[fd[c]]
      /\ pc' = [pc EXCEPT ![c] = "start"]
      /\ UNCHANGED <<sock, request, wait_response, connecting, result, dispatch_thread, popped,
                      ticket, made, fd, running, wakeup_queue, connected, buffer, link, wire, mailbox>>
  BY DEF opened, Go, dispatcher, sockets, network
<1>3. /\ D # Nil /\ \A x \in Co : x # D /\ x # Nil
  BY ChannelAssumption
<1>4. Pend' = Pend
  BY <1>2 DEF Pend
<1>5. \A x \in Co : pc'[x] = IF x = c THEN "start" ELSE pc[x]
  BY <1>1, <1>2 DEF Types
<1>6. Settled(fd[c]) /\ \A x \in Co : ~Closing(x)
  <2>1. fd[c] \in Fd /\ link[fd[c]] \in {"none", "connecting", "up", "eof", "down"}
    BY <1>1, <1>2 DEF Types, Connects, Opening
  <2>2. Settled(fd[c])
    BY <1>1, <1>2, <2>1 DEF Network, Settled
  <2> QED BY <1>1, <1>2, <2>2 DEF Closes, ClosesFirst
<1>7. Types'
  BY <1>1, <1>2, <1>3, <1>4, <1>5, <1>6 DEF Types
<1>8. Scheduled'
  BY <1>1, <1>2, <1>3, <1>4, <1>5, <1>6 DEF Scheduled, Woken
<1>9. Connects'
  BY <1>1, <1>2, <1>3, <1>4, <1>5, <1>6 DEF Connects, Opening, Settled, Silent, Scheduled
<1>10. Requests'
  BY <1>1, <1>2, <1>3, <1>4, <1>5, <1>6 DEF Requests, Woken, Closing, Scheduled
<1>11. Reading'
  BY <1>1, <1>2, <1>3, <1>4, <1>5, <1>6 DEF Reading, Settled, Woken, Closing, Scheduled
<1>12. Closes'
  BY <1>1, <1>2, <1>3, <1>4, <1>5, <1>6 DEF Closes, ClosesFirst, Closing, Woken, Opening, Connects
<1>13. Network'
  BY <1>1, <1>2, NetworkKept
<1>14. Ordered'
  BY <1>1, <1>2, <1>4, OrderKept DEF Inv, Read, Full, Requests
<1> QED BY <1>7, <1>8, <1>9, <1>10, <1>11, <1>12, <1>13, <1>14 DEF Inv

LEMMA OpenedYieldInv ==
  ASSUME Inv, NEW c \in Co, opened(c), dispatch_thread # "none"
  PROVE  Inv'
<1>1. Types /\ Scheduled /\ Connects /\ Requests /\ Reading /\ Closes /\ Network /\ Ordered
  BY DEF Inv
<1>2. /\ running = c /\ pc[c] = "open" /\ connected[fd[c]] /\ push_response(Close)
      /\ pc' = [pc EXCEPT ![c] = "yield"] /\ running' = Nil
      /\ UNCHANGED <<sock, connecting, result, dispatch_thread, popped,
                      ticket, made, fd, connected, buffer, link, wire, mailbox>>
  BY DEF opened, Stop, dispatcher, sockets, network
<1>3. /\ D # Nil /\ \A x \in Co : x # D /\ x # Nil
  BY ChannelAssumption
<1>4. \A x \in Co : pc'[x] = IF x = c THEN "yield" ELSE pc[x]
  BY <1>1, <1>2 DEF Types
<1>5. Settled(fd[c]) /\ \A x \in Co : ~Closing(x)
  <2>1. fd[c] \in Fd /\ link[fd[c]] \in {"none", "connecting", "up", "eof", "down"}
    BY <1>1, <1>2 DEF Types, Connects, Opening
  <2>2. Settled(fd[c])
    BY <1>1, <1>2, <2>1 DEF Network, Settled
  <2> QED BY <1>1, <1>2, <2>2 DEF Closes, ClosesFirst
<1>6. ~In(Close, Pend)
  <2>1. \A x \in Co : pc[x] # "yield"
    BY <1>1, <1>2 DEF Connects, Opening
  <2> QED BY <1>1, <2>1, PendFacts, ChannelAssumption DEF Requests
<1>7. /\ request' \in Seq(Co \cup {Close}) /\ request' # <<>>
      /\ \A y : In(y, request') <=> In(y, request) \/ y = Close
      /\ Pend' = Append(Pend, Close) /\ Distinct(Pend')
      /\ \A y : In(y, Pend') <=> In(y, Pend) \/ y = Close
      /\ wakeup_queue' \in Seq(Co \cup {D}) /\ Distinct(wakeup_queue')
      /\ \A y : In(y, wakeup_queue') <=> In(y, wakeup_queue) \/ (wait_response /\ y = D)
      /\ wait_response' = FALSE
  BY <1>2, <1>6, PushFacts
<1>8. Close \notin Co
  BY ChannelAssumption
<1>9. Types'
  BY <1>1, <1>2, <1>3, <1>4, <1>5, <1>6, <1>7, <1>8 DEF Types
<1>10. Scheduled'
  BY <1>1, <1>2, <1>3, <1>4, <1>5, <1>6, <1>7, <1>8 DEF Scheduled, Woken
<1>11. Connects'
  BY <1>1, <1>2, <1>3, <1>4, <1>5, <1>6, <1>7, <1>8 DEF Connects, Opening, Settled, Silent, Scheduled
<1>12. Requests'
  BY <1>1, <1>2, <1>3, <1>4, <1>5, <1>6, <1>7, <1>8 DEF Requests, Woken, Closing, Scheduled
<1>13. Reading'
  BY <1>1, <1>2, <1>3, <1>4, <1>5, <1>6, <1>7, <1>8 DEF Reading, Settled, Woken, Closing, Scheduled
<1>14. Closes'
  BY <1>1, <1>2, <1>3, <1>4, <1>5, <1>6, <1>7, <1>8 DEF Closes, ClosesFirst, Closing, Woken, Opening, Connects
<1>15. Network'
  BY <1>1, <1>2, NetworkKept
<1>16. Ordered'
  <2>1. SUFFICES ASSUME NEW f \in Fd, Read(f)'
                 PROVE  InOrder(f, mailbox', buffer'[f], wire'[f], Pend', ticket', Full(f)')
    BY DEF Ordered
  <2>2. InOrder(f, mailbox, buffer[f], wire[f], Pend, ticket, Full(f))
    BY <1>1, <1>2, <2>1 DEF Ordered, Read
  <2>3. Traffic(f, mailbox, buffer[f], wire[f], Pend, ticket)
    BY <1>1, PendFacts DEF Types, Traffic
  <2>4. ~Full(f)'
    BY <1>1, <1>2, ChannelAssumption DEF Full, Connects, Opening, Fd
  <2>5. InOrder(f, mailbox, buffer[f], wire[f], Append(Pend, Close), ticket, Full(f)')
    <3>1. PICK sent \in BOOLEAN : ~sent
      OBVIOUS
    <3> HIDE DEF Full, Pend
    <3> QED BY <2>2, <2>3, <2>4, <3>1, OrderAppend
  <2> QED BY <1>2, <1>7, <2>5
<1> QED BY <1>9, <1>10, <1>11, <1>12, <1>13, <1>14, <1>15, <1>16 DEF Inv

LEMMA EndConnectFacts ==
  ASSUME Inv, NEW c \in Co, Opening(c), end_connect
  PROVE  /\ connecting' = <<>> /\ connecting # <<>> /\ Head(connecting) = c
         /\ wakeup_queue' \in Seq(Co \cup {D}) /\ Distinct(wakeup_queue')
         /\ \A y : In(y, wakeup_queue') <=> In(y, wakeup_queue) \/ In(y, Tail(connecting))
         /\ \A y : In(y, Tail(connecting)) =>
              y \in Co /\ pc[y] = "connwait" /\ ~In(y, wakeup_queue)
         /\ \A x \in Co : Opening(x) => x = c
<1>1. Types /\ Scheduled /\ Connects
  BY DEF Inv
<1>2. connecting' = <<>> /\ wakeup_queue' = wakeup_queue \o Tail(connecting)
  BY DEF end_connect
<1>3. connecting \in Seq(Co) /\ connecting # <<>> /\ Head(connecting) = c
  BY <1>1 DEF Types, Connects
<1>4. Tail(connecting) \in Seq(Co) /\ Distinct(Tail(connecting))
  BY <1>1, <1>3, InTail DEF Connects
<1>5. wakeup_queue \in Seq(Co \cup {D}) /\ Tail(connecting) \in Seq(Co \cup {D})
      /\ Distinct(wakeup_queue)
  BY <1>1, <1>4 DEF Types, Scheduled
<1>6. \A y : In(y, Tail(connecting)) => y \in Co /\ pc[y] = "connwait" /\ ~In(y, wakeup_queue)
  <2>1. \A y : In(y, Tail(connecting)) => y \in Co
    BY <1>4 DEF In
  <2> QED BY <1>1, <1>3, <2>1 DEF Connects
<1>7. \A x \in Co : Opening(x) => x = c
  BY <1>1, <1>3 DEF Connects
<1>8. /\ wakeup_queue' \in Seq(Co \cup {D}) /\ Distinct(wakeup_queue')
      /\ \A y : In(y, wakeup_queue') <=> In(y, wakeup_queue) \/ In(y, Tail(connecting))
  BY <1>2, <1>4, <1>5, <1>6, InConcat
<1> QED BY <1>2, <1>3, <1>6, <1>7, <1>8

LEMMA NotOpenedInv ==
  ASSUME Inv, NEW c \in Co, not_opened(c)
  PROVE  Inv'
<1>1. Types /\ Scheduled /\ Connects /\ Requests /\ Reading /\ Closes /\ Network /\ Ordered
  BY DEF Inv
<1>2. /\ running = c /\ pc[c] = "open" /\ ~connected[fd[c]] /\ end_connect
      /\ pc' = [pc EXCEPT ![c] = "recheck"]
      /\ UNCHANGED <<sock, request, wait_response, result, dispatch_thread, popped,
                      ticket, made, fd, running, connected, buffer, link, wire, mailbox>>
  BY DEF not_opened, Go, dispatcher, sockets, network
<1>3. /\ D # Nil /\ \A x \in Co : x # D /\ x # Nil
  BY ChannelAssumption
<1>4. Pend' = Pend
  BY <1>2 DEF Pend
<1>5. \A x \in Co : pc'[x] = IF x = c THEN "recheck" ELSE pc[x]
  BY <1>1, <1>2 DEF Types
<1>6. /\ connecting' = <<>> /\ connecting # <<>> /\ Head(connecting) = c
      /\ wakeup_queue' \in Seq(Co \cup {D}) /\ Distinct(wakeup_queue')
      /\ \A y : In(y, wakeup_queue') <=> In(y, wakeup_queue) \/ In(y, Tail(connecting))
      /\ \A y : In(y, Tail(connecting)) =>
           y \in Co /\ pc[y] = "connwait" /\ ~In(y, wakeup_queue)
      /\ \A x \in Co : Opening(x) => x = c
  BY <1>2, EndConnectFacts DEF Opening
<1>7. \A y : ~In(y, <<>>) /\ Distinct(<<>>)
  BY InOne
<1>8. <<>> \in Seq(Co)
  OBVIOUS
<1>9. Types'
  BY <1>1, <1>2, <1>3, <1>4, <1>5, <1>6, <1>7, <1>8 DEF Types
<1>10. Scheduled'
  BY <1>1, <1>2, <1>3, <1>4, <1>5, <1>6, <1>7, <1>8 DEF Scheduled, Woken
<1>11. Connects'
  BY <1>1, <1>2, <1>3, <1>4, <1>5, <1>6, <1>7, <1>8 DEF Connects, Opening, Settled, Silent, Scheduled
<1>12. Requests'
  BY <1>1, <1>2, <1>3, <1>4, <1>5, <1>6, <1>7, <1>8 DEF Requests, Woken, Closing, Scheduled
<1>13. Reading'
  BY <1>1, <1>2, <1>3, <1>4, <1>5, <1>6, <1>7, <1>8 DEF Reading, Settled, Woken, Closing, Scheduled
<1>14. Closes'
  BY <1>1, <1>2, <1>3, <1>4, <1>5, <1>6, <1>7, <1>8 DEF Closes, ClosesFirst, Closing, Woken, Opening, Connects
<1>15. Network'
  BY <1>1, <1>2, NetworkKept
<1>16. Ordered'
  BY <1>1, <1>2, <1>4, OrderKept DEF Inv, Read, Full, Requests
<1> QED BY <1>9, <1>10, <1>11, <1>12, <1>13, <1>14, <1>15, <1>16 DEF Inv

LEMMA YieldDoneInv ==
  ASSUME Inv, NEW c \in Co, yield_done(c)
  PROVE  Inv'
<1>1. Types /\ Scheduled /\ Connects /\ Requests /\ Reading /\ Closes /\ Network /\ Ordered
  BY DEF Inv
<1>2. /\ running = Nil /\ wakeup_queue = <<>> /\ pc[c] = "yield" /\ dispatch_thread = "none"
      /\ pc' = [pc EXCEPT ![c] = "start"] /\ running' = c
      /\ UNCHANGED <<sock, request, wait_response, connecting, result, dispatch_thread, popped,
                      ticket, made, fd, wakeup_queue, connected, buffer, link, wire, mailbox>>
  BY DEF yield_done, Quiet, channel, dispatcher, sockets, network
<1>3. /\ D # Nil /\ \A x \in Co : x # D /\ x # Nil
  BY ChannelAssumption
<1>4. Pend' = Pend
  BY <1>2 DEF Pend
<1>5. \A x \in Co : pc'[x] = IF x = c THEN "start" ELSE pc[x]
  BY <1>1, <1>2 DEF Types
<1>6. \A x : ~In(x, wakeup_queue)
  BY <1>2, InOne
<1>7. \A x \in Co : ~Closing(x)
  BY <1>1, <1>2 DEF Closes, ClosesFirst
<1>8. request = <<>> /\ ~In(Close, request)
  <2>1. request = <<>>
    BY <1>1, <1>2, <1>7 DEF Requests
  <2>2. ~In(Close, <<>>)
    BY InOne
  <2> QED BY <2>1, <2>2
<1>9. Types'
  BY <1>1, <1>2, <1>3, <1>4, <1>5, <1>6, <1>7, <1>8 DEF Types
<1>10. Scheduled'
  BY <1>1, <1>2, <1>3, <1>4, <1>5, <1>6, <1>7, <1>8 DEF Scheduled, Woken
<1>11. Connects'
  BY <1>1, <1>2, <1>3, <1>4, <1>5, <1>6, <1>7, <1>8 DEF Connects, Opening, Settled, Silent, Scheduled
<1>12. Requests'
  BY <1>1, <1>2, <1>3, <1>4, <1>5, <1>6, <1>7, <1>8 DEF Requests, Woken, Closing, Scheduled
<1>13. Reading'
  BY <1>1, <1>2, <1>3, <1>4, <1>5, <1>6, <1>7, <1>8 DEF Reading, Settled, Woken, Closing, Scheduled
<1>14. Closes'
  BY <1>1, <1>2, <1>3, <1>4, <1>5, <1>6, <1>7, <1>8 DEF Closes, ClosesFirst, Closing, Woken, Opening, Connects
<1>15. Network'
  BY <1>1, <1>2, NetworkKept
<1>16. Ordered'
  BY <1>1, <1>2, <1>4, OrderKept DEF Inv, Read, Full, Requests
<1> QED BY <1>9, <1>10, <1>11, <1>12, <1>13, <1>14, <1>15, <1>16 DEF Inv

LEMMA ConnectFailedInv ==
  ASSUME Inv, NEW c \in Co, connect_failed(c)
  PROVE  Inv'
<1>1. Types /\ Scheduled /\ Connects /\ Requests /\ Reading /\ Closes /\ Network /\ Ordered
  BY DEF Inv
<1>2. /\ running = c /\ pc[c] = "recheck" /\ (sock = 0 \/ ~connected[sock])
      /\ sock' = 0 /\ pc' = [pc EXCEPT ![c] = "idle"] /\ running' = Nil
      /\ UNCHANGED <<request, wait_response, connecting, result, dispatch_thread, popped,
                      ticket, made, fd, wakeup_queue, connected, buffer, link, wire, mailbox>>
  BY DEF connect_failed, Stop, Usable, dispatcher, sockets, network
<1>3. /\ D # Nil /\ \A x \in Co : x # D /\ x # Nil
  BY ChannelAssumption
<1>4. Pend' = Pend
  BY <1>2 DEF Pend
<1>5. \A x \in Co : pc'[x] = IF x = c THEN "idle" ELSE pc[x]
  BY <1>1, <1>2 DEF Types
<1>6. 0 \in 0..MaxConn /\ 0 \notin Fd /\ Fd \subseteq 0..MaxConn
  BY ChannelAssumption DEF Fd
<1>7. Types'
  BY <1>1, <1>2, <1>3, <1>4, <1>5, <1>6 DEF Types
<1>8. Scheduled'
  BY <1>1, <1>2, <1>3, <1>4, <1>5, <1>6 DEF Scheduled, Woken
<1>9. Connects'
  BY <1>1, <1>2, <1>3, <1>4, <1>5, <1>6 DEF Connects, Opening, Settled, Silent, Scheduled
<1>10. Requests'
  BY <1>1, <1>2, <1>3, <1>4, <1>5, <1>6 DEF Requests, Woken, Closing, Scheduled
<1>11. Reading'
  BY <1>1, <1>2, <1>3, <1>4, <1>5, <1>6 DEF Reading, Settled, Woken, Closing, Scheduled
<1>12. Closes'
  BY <1>1, <1>2, <1>3, <1>4, <1>5, <1>6 DEF Closes, ClosesFirst, Closing, Woken, Opening, Connects
<1>13. Network'
  BY <1>1, <1>2, NetworkKept
<1>14. Ordered'
  BY <1>1, <1>2, <1>4, <1>6, OrderKept DEF Inv, Read, Full, Requests
<1> QED BY <1>7, <1>8, <1>9, <1>10, <1>11, <1>12, <1>13, <1>14 DEF Inv

LEMMA StartDispatchInv ==
  ASSUME Inv, NEW c \in Co, start_dispatch(c)
  PROVE  Inv'
<1>1. Types /\ Scheduled /\ Connects /\ Requests /\ Reading /\ Closes /\ Network /\ Ordered
  BY DEF Inv
<1>2. /\ running = c /\ pc[c] = "start" /\ sock' = fd[c] /\ dispatch_thread' = "forked" /\ end_connect
      /\ pc' = [pc EXCEPT ![c] = "recheck"]
      /\ UNCHANGED <<request, wait_response, result, popped,
                      ticket, made, fd, running, connected, buffer, link, wire, mailbox>>
  BY DEF start_dispatch, Go, dispatcher, sockets, network
<1>3. /\ D # Nil /\ \A x \in Co : x # D /\ x # Nil
  BY ChannelAssumption
<1>4. \A x \in Co : pc'[x] = IF x = c THEN "recheck" ELSE pc[x]
  BY <1>1, <1>2 DEF Types
<1>5. /\ connecting' = <<>> /\ connecting # <<>> /\ Head(connecting) = c
      /\ wakeup_queue' \in Seq(Co \cup {D}) /\ Distinct(wakeup_queue')
      /\ \A y : In(y, wakeup_queue') <=> In(y, wakeup_queue) \/ In(y, Tail(connecting))
      /\ \A y : In(y, Tail(connecting)) =>
           y \in Co /\ pc[y] = "connwait" /\ ~In(y, wakeup_queue)
      /\ \A x \in Co : Opening(x) => x = c
  BY <1>2, EndConnectFacts DEF Opening
<1>6. \A y : ~In(y, <<>>) /\ Distinct(<<>>)
  BY InOne
<1>7. <<>> \in Seq(Co)
  OBVIOUS
<1>8. 0 \in 0..MaxConn /\ 0 \notin Fd /\ Fd \subseteq 0..MaxConn
  BY ChannelAssumption DEF Fd
<1>9. \A x \in Co : ~Closing(x)
  BY <1>1, <1>2 DEF Closes, ClosesFirst
<1>10. /\ dispatch_thread = "none" /\ fd[c] \in Fd /\ Settled(fd[c]) /\ Silent(fd[c]) /\ sock = 0
  BY <1>1, <1>2 DEF Connects, Opening
<1>11. request = <<>> /\ Pend' = <<>> /\ Pend = <<>>
  BY <1>1, <1>2, <1>9, <1>10 DEF Requests, Pend
<1>12. Types'
  BY <1>1, <1>2, <1>3, <1>4, <1>5, <1>6, <1>7, <1>8, <1>9, <1>10, <1>11 DEF Types
<1>13. Scheduled'
  BY <1>1, <1>2, <1>3, <1>4, <1>5, <1>6, <1>7, <1>8, <1>9, <1>10, <1>11 DEF Scheduled, Woken
<1>14. Connects'
  BY <1>1, <1>2, <1>3, <1>4, <1>5, <1>6, <1>7, <1>8, <1>9, <1>10, <1>11 DEF Connects, Opening, Settled, Silent, Scheduled
<1>15. Requests'
  BY <1>1, <1>2, <1>3, <1>4, <1>5, <1>6, <1>7, <1>8, <1>9, <1>10, <1>11 DEF Requests, Woken, Closing, Scheduled
<1>16. Reading'
  BY <1>1, <1>2, <1>3, <1>4, <1>5, <1>6, <1>7, <1>8, <1>9, <1>10, <1>11 DEF Reading, Settled, Woken, Closing, Scheduled
<1>17. Closes'
  BY <1>1, <1>2, <1>3, <1>4, <1>5, <1>6, <1>7, <1>8, <1>9, <1>10, <1>11 DEF Closes, ClosesFirst, Closing, Woken, Opening, Connects
<1>18. Network'
  BY <1>1, <1>2, NetworkKept
<1>19. Ordered'
  <2>1. SUFFICES ASSUME NEW f \in Fd, Read(f)'
                 PROVE  InOrder(f, mailbox', buffer'[f], wire'[f], Pend', ticket', Full(f)')
    BY DEF Ordered
  <2>2. f = fd[c]
    BY <1>2, <2>1 DEF Read
  <2>3. buffer[f] = <<>> /\ wire[f] = <<>> /\ NoAnswers(mailbox, f)
    BY <1>10, <2>2 DEF Silent
  <2>4. Traffic(f, mailbox, <<>>, <<>>, <<>>, ticket)
    BY <1>1 DEF Types, Traffic
  <2>5. InOrder(f, mailbox, <<>>, <<>>, <<>>, ticket, Full(f)')
    <3> HIDE DEF Full
    <3> QED BY <2>3, <2>4, OrderStart
  <2> QED BY <1>2, <1>11, <2>3, <2>5
<1> QED BY <1>12, <1>13, <1>14, <1>15, <1>16, <1>17, <1>18, <1>19 DEF Inv

LEMMA SockErrInv ==
  ASSUME Inv, NEW c \in Co, sock_err(c)
  PROVE  Inv'
<1>1. Types /\ Scheduled /\ Connects /\ Requests /\ Reading /\ Closes /\ Network /\ Ordered
  BY DEF Inv
<1>2. /\ running = c /\ pc[c] = "write" /\ link[sock] = "down"
      /\ fd' = [fd EXCEPT ![c] = sock]
      /\ sock' = 0 /\ pc' = [pc EXCEPT ![c] = "closing"] /\ running' = Nil
      /\ UNCHANGED <<request, wait_response, connecting, result, dispatch_thread, popped,
                      ticket, made, wakeup_queue, connected, buffer, link, wire, mailbox>>
  BY DEF sock_err, Stop, dispatcher, sockets, network
<1>3. /\ D # Nil /\ \A x \in Co : x # D /\ x # Nil
  BY ChannelAssumption
<1>4. Pend' = Pend
  BY <1>2 DEF Pend
<1>5. \A x \in Co : pc'[x] = IF x = c THEN "closing" ELSE pc[x]
  BY <1>1, <1>2 DEF Types
<1>6. 0 \in 0..MaxConn /\ 0 \notin Fd /\ Fd \subseteq 0..MaxConn
  BY ChannelAssumption DEF Fd
<1>7. sock \in Fd /\ connected[sock]
  BY <1>1, <1>2 DEF Types, Connects, Fd
<1>8. \A x \in Co : ~Opening(x) /\ ~Closing(x)
  BY <1>1, <1>6, <1>7 DEF Connects, Closes, ClosesFirst
<1>9. /\ fd'[D] = fd[D] /\ fd'[c] = sock
      /\ \A x \in Co : x # c => fd'[x] = fd[x]
  BY <1>1, <1>2, <1>3 DEF Types
<1>10. Ended(mailbox, sock)
  BY <1>1, <1>2, <1>7 DEF Types, Network
<1>11. ~Woken(c)' /\ Closing(c)'
  BY <1>1, <1>2, <1>3, <1>5 DEF Scheduled, Woken, Closing
<1>12. Types'
  BY <1>1, <1>2, <1>3, <1>4, <1>5, <1>6, <1>7, <1>8, <1>9, <1>10, <1>11 DEF Types
<1>13. Scheduled'
  BY <1>1, <1>2, <1>3, <1>4, <1>5, <1>6, <1>7, <1>8, <1>9, <1>10, <1>11 DEF Scheduled, Woken
<1>14. Connects'
  BY <1>1, <1>2, <1>3, <1>4, <1>5, <1>6, <1>7, <1>8, <1>9, <1>10, <1>11 DEF Connects, Opening, Settled, Silent, Scheduled
<1>15. Requests'
  BY <1>1, <1>2, <1>3, <1>4, <1>5, <1>6, <1>7, <1>8, <1>9, <1>10, <1>11 DEF Requests, Woken, Closing, Scheduled
<1>16. Reading'
  BY <1>1, <1>2, <1>3, <1>4, <1>5, <1>6, <1>7, <1>8, <1>9, <1>10, <1>11 DEF Reading, Settled, Woken, Closing, Scheduled
<1>17. Closes'
  <2>1. SUFFICES ASSUME NEW x \in Co, Closing(x)' PROVE ClosesFirst(x)'
    BY DEF Closes
  <2>2. x = c
    BY <1>5, <1>8, <2>1 DEF Closing
  <2>3. \A d \in Co : pc'[d] \notin {"open", "yield", "start"} /\ (Closing(d)' => d = c)
    BY <1>5, <1>8 DEF Opening, Closing
  <2>4. dispatch_thread = "read" => fd[D] = sock
    BY <1>1, <1>6, <1>7 DEF Reading
  <2> QED BY <1>2, <1>7, <1>9, <1>10, <1>11, <2>2, <2>3, <2>4 DEF ClosesFirst
<1>18. Network'
  BY <1>1, <1>2, NetworkKept
<1>19. Ordered'
  BY <1>1, <1>2, <1>4, <1>6, <1>9, OrderKept DEF Inv, Read, Full, Requests
<1> QED BY <1>12, <1>13, <1>14, <1>15, <1>16, <1>17, <1>18, <1>19 DEF Inv

LEMMA AnsweredInv ==
  ASSUME Inv, NEW c \in Co, answered(c)
  PROVE  Inv'
<1>1. Types /\ Scheduled /\ Connects /\ Requests /\ Reading /\ Closes /\ Network /\ Ordered
  BY DEF Inv
<1>2. /\ running = c /\ pc[c] = "wait" /\ result' = [result EXCEPT ![c] = Nil]
      /\ \/ /\ pc' = [pc EXCEPT ![c] = "idle"] /\ running' = Nil /\ UNCHANGED <<ticket, made>>
         \/ /\ pc' = [pc EXCEPT ![c] = "request"] /\ running' = c
            /\ made' = made + 1 /\ ticket' = [ticket EXCEPT ![c] = made + 1]
      /\ UNCHANGED <<sock, request, wait_response, connecting, dispatch_thread, popped,
                      fd, wakeup_queue, connected, buffer, link, wire, mailbox>>
  BY DEF answered, Stop, Go, dispatcher, sockets, network
<1>3. /\ D # Nil /\ \A x \in Co : x # D /\ x # Nil
  BY ChannelAssumption
<1>4. Pend' = Pend
  BY <1>2 DEF Pend
<1>5. /\ pc'[c] \in {"idle", "request"} /\ (pc'[c] = "request" => running' = c)
      /\ pc'[c] = "idle" => running' = Nil
      /\ \A x \in Co : x # c => pc'[x] = pc[x]
  BY <1>1, <1>2 DEF Types
<1>6. /\ result'[c] = Nil /\ \A x \in Co : x # c => ticket'[x] = ticket[x] /\ result'[x] = result[x]
  BY <1>1, <1>2 DEF Types
<1>7. \A x \in Co : In(x, Pend) => x # c
  BY <1>1, <1>2 DEF Requests, Woken
<1>8. running' \in {c, Nil}
  BY <1>2
<1>9. Types'
  <2>1. ticket' \in [Co -> Nat] /\ made' \in Nat
    <3>1. ticket \in [Co -> Nat] /\ made \in Nat
      BY <1>1 DEF Types
    <3>2. \/ ticket' = ticket /\ made' = made
          \/ made' = made + 1 /\ ticket' = [ticket EXCEPT ![c] = made + 1]
      BY <1>2
    <3> QED BY <3>1, <3>2
  <2>2. result' \in [Co -> Nat \cup {Nil, Failed}]
    BY <1>1, <1>2 DEF Types
  <2>3. pc' \in [Co -> {"idle", "request", "recheck", "write", "connwait", "open", "yield",
                        "start", "wait", "closing"}]
    BY <1>1, <1>2 DEF Types
  <2> QED BY <1>1, <1>2, <1>8, <2>1, <2>2, <2>3 DEF Types
<1>10. Scheduled'
  BY <1>1, <1>2, <1>3, <1>4, <1>5, <1>6, <1>7, <1>8 DEF Scheduled, Woken
<1>11. Connects'
  BY <1>1, <1>2, <1>3, <1>4, <1>5, <1>6, <1>7, <1>8 DEF Connects, Opening, Settled, Silent, Scheduled
<1>12. Requests'
  BY <1>1, <1>2, <1>3, <1>4, <1>5, <1>6, <1>7, <1>8 DEF Requests, Woken, Closing, Scheduled
<1>13. Reading'
  BY <1>1, <1>2, <1>3, <1>4, <1>5, <1>6, <1>7, <1>8 DEF Reading, Settled, Woken, Closing, Scheduled
<1>14. Closes'
  BY <1>1, <1>2, <1>3, <1>4, <1>5, <1>6, <1>7, <1>8 DEF Closes, ClosesFirst, Closing, Woken, Opening, Connects
<1>15. Network'
  BY <1>1, <1>2, NetworkKept
<1>16. Ordered'
  BY <1>1, <1>2, <1>4, <1>6, <1>7, OrderKept DEF Inv, Read, Full, Requests
<1> QED BY <1>9, <1>10, <1>11, <1>12, <1>13, <1>14, <1>15, <1>16 DEF Inv

LEMMA WriteInv ==
  ASSUME Inv, NEW c \in Co, write(c)
  PROVE  Inv'
<1>1. Types /\ Scheduled /\ Connects /\ Requests /\ Reading /\ Closes /\ Network /\ Ordered
  BY DEF Inv
<1>2. /\ running = c /\ pc[c] = "write" /\ push_response(c)
      /\ wire' = [wire EXCEPT ![sock] = IF link[sock] = "up" THEN Append(@, ticket[c]) ELSE @]
      /\ pc' = [pc EXCEPT ![c] = "wait"] /\ running' = Nil
      /\ UNCHANGED <<sock, connecting, result, dispatch_thread, popped,
                      ticket, made, fd, connected, buffer, link, mailbox>>
  BY DEF write, Stop, dispatcher, sockets
<1>3. /\ D # Nil /\ \A x \in Co : x # D /\ x # Nil
  BY ChannelAssumption
<1>4. \A x \in Co : pc'[x] = IF x = c THEN "wait" ELSE pc[x]
  BY <1>1, <1>2 DEF Types
<1>5. 0 \in 0..MaxConn /\ 0 \notin Fd /\ Fd \subseteq 0..MaxConn
  BY ChannelAssumption DEF Fd
<1>6. sock \in Fd /\ connected[sock] /\ Settled(sock)
  BY <1>1, <1>2 DEF Types, Connects, Fd, Reading
<1>7. ~In(c, Pend) /\ result[c] = Nil
  BY <1>1, <1>2 DEF Requests
<1>8. /\ request' \in Seq(Co \cup {Close}) /\ request' # <<>>
      /\ \A y : In(y, request') <=> In(y, request) \/ y = c
      /\ Pend' = Append(Pend, c) /\ Distinct(Pend')
      /\ \A y : In(y, Pend') <=> In(y, Pend) \/ y = c
      /\ wakeup_queue' \in Seq(Co \cup {D}) /\ Distinct(wakeup_queue')
      /\ \A y : In(y, wakeup_queue') <=> In(y, wakeup_queue) \/ (wait_response /\ y = D)
      /\ wait_response' = FALSE
  BY <1>2, <1>7, PushFacts
<1>9. \A x \in Co : ~Opening(x) /\ ~Closing(x)
  BY <1>1, <1>5, <1>6 DEF Connects, Closes, ClosesFirst
<1>10. /\ wire' \in [Fd -> Seq(Nat)]
       /\ wire'[sock] = (IF link[sock] = "up" THEN Append(wire[sock], ticket[c]) ELSE wire[sock])
       /\ \A f \in Fd : f # sock => wire'[f] = wire[f]
  BY <1>1, <1>2, <1>6 DEF Types
<1>11. Close \notin Co
  BY ChannelAssumption
<1>12. Types'
  BY <1>1, <1>2, <1>3, <1>4, <1>5, <1>6, <1>7, <1>8, <1>9, <1>10, <1>11 DEF Types
<1>13. Scheduled'
  BY <1>1, <1>2, <1>3, <1>4, <1>5, <1>6, <1>7, <1>8, <1>9, <1>10, <1>11 DEF Scheduled, Woken
<1>14. Connects'
  BY <1>1, <1>2, <1>3, <1>4, <1>5, <1>6, <1>7, <1>8, <1>9, <1>10, <1>11 DEF Connects, Opening, Settled, Silent, Scheduled
<1>15. Requests'
  <2>1. ~In(Close, request')
    BY <1>1, <1>8, <1>9, <1>11 DEF Requests, Opening
  <2>2. dispatch_thread # "none" /\ sock # 0
    BY <1>1, <1>5, <1>6 DEF Reading
  <2>3. \A x \in Co : In(x, Pend') => pc'[x] = "wait" /\ result'[x] = Nil /\ ~Woken(x)'
    BY <1>1, <1>2, <1>3, <1>4, <1>7, <1>8 DEF Requests, Woken, Scheduled
  <2>4. \A x \in Co : result'[x] # Nil => pc'[x] = "wait" /\ Woken(x)'
    BY <1>1, <1>2, <1>3, <1>4, <1>7, <1>8 DEF Requests, Woken
  <2> QED BY <1>1, <1>2, <1>8, <2>1, <2>2, <2>3, <2>4 DEF Requests
<1>16. Reading'
  BY <1>1, <1>2, <1>3, <1>4, <1>5, <1>6, <1>7, <1>8, <1>9, <1>10, <1>11 DEF Reading, Settled, Woken, Closing, Scheduled
<1>17. Closes'
  BY <1>1, <1>2, <1>3, <1>4, <1>5, <1>6, <1>7, <1>8, <1>9, <1>10, <1>11 DEF Closes, ClosesFirst, Closing, Woken, Opening, Connects
<1>18. Network'
  BY <1>1, <1>2, <1>6, <1>10 DEF Network, Settled
<1>19. Ordered'
  <2>1. SUFFICES ASSUME NEW f \in Fd, Read(f)'
                 PROVE  InOrder(f, mailbox', buffer'[f], wire'[f], Pend', ticket', Full(f)')
    BY DEF Ordered
  <2>2. f = sock /\ Read(f)
    BY <1>1, <1>2, <1>5, <1>6, <2>1 DEF Read, Reading
  <2>3. InOrder(f, mailbox, buffer[f], wire[f], Pend, ticket, Full(f))
    BY <1>1, <2>2 DEF Ordered
  <2>4. Traffic(f, mailbox, buffer[f], wire[f], Pend, ticket)
    BY <1>1, PendFacts DEF Types, Traffic
  <2>5. PICK sent \in BOOLEAN : sent <=> link[f] = "up"
    <3>1. (link[f] = "up") \in BOOLEAN
      OBVIOUS
    <3> QED BY <3>1
  <2>6. (sent => Full(f)) /\ (Full(f)' => sent)
    BY <1>2, <2>2, <2>5 DEF Full
  <2>7. InOrder(f, mailbox, buffer[f], IF sent THEN Append(wire[f], ticket[c]) ELSE wire[f],
                Append(Pend, c), ticket, Full(f)')
    <3> HIDE DEF Full, Pend
    <3> QED BY <2>3, <2>4, <2>6, OrderAppend
  <2>8. wire'[f] = IF sent THEN Append(wire[f], ticket[c]) ELSE wire[f]
    BY <1>10, <2>2, <2>5
  <2> QED BY <1>2, <1>8, <2>7, <2>8
<1> QED BY <1>12, <1>13, <1>14, <1>15, <1>16, <1>17, <1>18, <1>19 DEF Inv

(* wakeup_all: everyone who waits has the error and is woken once. *)
LEMMA WakeAllFacts ==
  ASSUME Inv, NEW woken \in Seq(Co), NEW told \in Seq(Co), wakeup_all(woken, told),
         Distinct(woken), Distinct(told),
         \A y : In(y, woken) => ~In(y, wakeup_queue) /\ ~In(y, told) /\ ~In(y, request),
         \A y : In(y, told) => ~In(y, wakeup_queue) /\ ~In(y, request)
  PROVE  /\ request' = <<>>
         /\ result' \in [Co -> Nat \cup {Nil, Failed}]
         /\ \A x \in Co : result'[x] = IF In(x, told) \/ In(x, request) THEN Failed ELSE result[x]
         /\ wakeup_queue' \in Seq(Co \cup {D}) /\ Distinct(wakeup_queue')
         /\ \A y : In(y, wakeup_queue') <=>
              \/ In(y, wakeup_queue) \/ In(y, woken) \/ In(y, told)
              \/ In(y, request) /\ y # Close
<1>1. Types /\ Scheduled /\ Requests
  BY DEF Inv
<1>2. request \in Seq(Co \cup {Close}) /\ Distinct(request)
  BY <1>1, PendFacts DEF Types
<1> DEFINE W == Waiters(request)
           cs == told \o W
<1>3. /\ W \in Seq(Co) /\ Distinct(W)
      /\ \A y : In(y, W) <=> In(y, request) /\ y # Close
  BY <1>2, WaitersFacts
<1>4. /\ request' = <<>>
      /\ result' = [c \in Co |-> IF c \in ToSet(cs) THEN Failed ELSE result[c]]
      /\ wakeup_queue' = wakeup_queue \o woken \o cs
  BY DEF wakeup_all
<1> HIDE DEF W
<1>5. /\ cs \in Seq(Co) /\ Distinct(cs)
      /\ \A y : In(y, cs) <=> In(y, told) \/ In(y, W)
  BY <1>3, InConcat
<1> HIDE DEF cs
<1>6. \A y : y \in ToSet(cs) <=> In(y, cs)
  BY <1>5 DEF ToSet, In
<1>7. /\ result' \in [Co -> Nat \cup {Nil, Failed}]
      /\ \A x \in Co : result'[x] = IF In(x, told) \/ In(x, request) THEN Failed ELSE result[x]
  BY <1>1, <1>3, <1>4, <1>5, <1>6, ChannelAssumption DEF Types
<1>8. wakeup_queue \in Seq(Co \cup {D}) /\ Distinct(wakeup_queue)
      /\ woken \in Seq(Co \cup {D}) /\ cs \in Seq(Co \cup {D})
  BY <1>1, <1>5 DEF Types, Scheduled
<1>9. \A y : In(y, W) => ~In(y, wakeup_queue)
  <2>1. \A y : In(y, W) => y \in Co
    BY <1>3 DEF In
  <2> QED BY <1>1, <1>3, <2>1, PendFacts DEF Requests, Woken
<1>10. /\ wakeup_queue \o woken \in Seq(Co \cup {D}) /\ Distinct(wakeup_queue \o woken)
       /\ \A y : In(y, wakeup_queue \o woken) <=> In(y, wakeup_queue) \/ In(y, woken)
  BY <1>8, InConcat
<1>11. /\ wakeup_queue' \in Seq(Co \cup {D}) /\ Distinct(wakeup_queue')
       /\ \A y : In(y, wakeup_queue') <=> In(y, wakeup_queue) \/ In(y, woken) \/ In(y, cs)
  <2> DEFINE q == wakeup_queue \o woken
  <2>1. q \in Seq(Co \cup {D}) /\ Distinct(q) /\ cs \in Seq(Co \cup {D}) /\ Distinct(cs)
    BY <1>5, <1>8, <1>10
  <2>2. \A y : ~(In(y, q) /\ In(y, cs))
    BY <1>3, <1>5, <1>9, <1>10
  <2>3. wakeup_queue' = q \o cs /\ \A y : In(y, q) <=> In(y, wakeup_queue) \/ In(y, woken)
    BY <1>4, <1>10
  <2> HIDE DEF q
  <2> QED BY <2>1, <2>2, <2>3, InConcat
<1> QED BY <1>3, <1>4, <1>5, <1>7, <1>11

LEMMA SockErrClosedInv ==
  ASSUME Inv, NEW c \in Co, sock_err_closed(c)
  PROVE  Inv'
<1>1. Types /\ Scheduled /\ Connects /\ Requests /\ Reading /\ Closes /\ Network /\ Ordered
  BY DEF Inv
<1>2. /\ running = c /\ pc[c] = "closing" /\ wakeup_all(<<>>, <<>>)
      /\ connected' = [connected EXCEPT ![fd[c]] = FALSE]
      /\ dispatch_thread' = IF dispatch_thread = "read" /\ fd[D] = fd[c] THEN "lost"
                                                                        ELSE dispatch_thread
      /\ pc' = [pc EXCEPT ![c] = "idle"] /\ running' = Nil
      /\ UNCHANGED <<sock, wait_response, connecting, popped,
                      ticket, made, fd, buffer, link, wire, mailbox>>
  BY DEF sock_err_closed, Stop, network
<1>3. /\ D # Nil /\ \A x \in Co : x # D /\ x # Nil
  BY ChannelAssumption
<1>4. \A x \in Co : pc'[x] = IF x = c THEN "idle" ELSE pc[x]
  BY <1>1, <1>2 DEF Types
<1>5. 0 \in 0..MaxConn /\ 0 \notin Fd /\ Fd \subseteq 0..MaxConn
  BY ChannelAssumption DEF Fd
<1>6. \A y : ~In(y, <<>>) /\ Distinct(<<>>)
  BY InOne
<1>7. /\ sock = 0 /\ fd[c] \in Fd /\ dispatch_thread \notin {"get", "loop"}
      /\ dispatch_thread = "read" => fd[D] = fd[c] /\ ~Woken(D)
      /\ dispatch_thread' = IF dispatch_thread = "read" THEN "lost" ELSE dispatch_thread
      /\ \A x \in Co : Closing(x) => x = c
  BY <1>1, <1>2, <1>3 DEF Closes, ClosesFirst, Closing, Woken, Scheduled
<1>8. /\ request' = <<>>
      /\ result' \in [Co -> Nat \cup {Nil, Failed}]
      /\ \A x \in Co : result'[x] = IF In(x, request) THEN Failed ELSE result[x]
      /\ wakeup_queue' \in Seq(Co \cup {D}) /\ Distinct(wakeup_queue')
      /\ \A y : In(y, wakeup_queue') <=>
           In(y, wakeup_queue) \/ (In(y, request) /\ y # Close)
  <2>1. <<>> \in Seq(Co)
    OBVIOUS
  <2> QED BY <1>2, <1>6, <2>1, WakeAllFacts
<1>9. Pend' = <<>>
  BY <1>2, <1>7, <1>8 DEF Pend
<1>10. \A x \in Co : In(x, request) => pc[x] = "wait" /\ result[x] = Nil
  BY <1>1, PendFacts DEF Requests
<1>11. /\ connected' \in [Fd -> BOOLEAN]
       /\ \A f \in Fd : connected'[f] => connected[f]
  BY <1>1, <1>2, <1>7 DEF Types
<1>12. Close \notin Co /\ <<>> \in Seq(Co \cup {Close})
  BY ChannelAssumption
<1>13. \A y : In(y, request) => y \in Co \cup {Close}
  BY <1>1 DEF Types, In
<1>14. Types'
  BY <1>1, <1>2, <1>3, <1>4, <1>5, <1>6, <1>7, <1>8, <1>9, <1>10, <1>11, <1>12, <1>13 DEF Types
<1>15. Scheduled'
  BY <1>1, <1>2, <1>3, <1>4, <1>5, <1>6, <1>7, <1>8, <1>9, <1>10, <1>11, <1>12, <1>13 DEF Scheduled, Woken
<1>16. Connects'
  BY <1>1, <1>2, <1>3, <1>4, <1>5, <1>6, <1>7, <1>8, <1>9, <1>10, <1>11, <1>12, <1>13 DEF Connects, Opening, Settled, Silent, Scheduled
<1>17. Requests'
  BY <1>1, <1>2, <1>3, <1>4, <1>5, <1>6, <1>7, <1>8, <1>9, <1>10, <1>11, <1>12, <1>13 DEF Requests, Woken, Closing, Scheduled
<1>18. Reading'
  BY <1>1, <1>2, <1>3, <1>4, <1>5, <1>6, <1>7, <1>8, <1>9, <1>10, <1>11, <1>12, <1>13 DEF Reading, Settled, Woken, Closing, Scheduled
<1>19. Closes'
  BY <1>1, <1>2, <1>3, <1>4, <1>5, <1>6, <1>7, <1>8, <1>9, <1>10, <1>11, <1>12, <1>13 DEF Closes, ClosesFirst, Closing, Woken, Opening, Connects
<1>20. Network'
  BY <1>1, <1>2, <1>11 DEF Network
<1>21. Ordered'
  BY <1>2, <1>5, <1>7 DEF Ordered, Read
<1> QED BY <1>14, <1>15, <1>16, <1>17, <1>18, <1>19, <1>20, <1>21 DEF Inv

-----------------------------------------------------------------------------
(* The steps of D. *)

LEMMA DispatchDeadInv ==
  ASSUME Inv, dispatch_function, sock = 0
  PROVE  Inv'
<1>1. Types /\ Scheduled /\ Connects /\ Requests /\ Reading /\ Closes /\ Network /\ Ordered
  BY DEF Inv
<1>2. /\ running = Nil /\ wakeup_queue = <<>> /\ dispatch_thread = "forked"
      /\ dispatch_thread' = "dead" /\ UNCHANGED running
      /\ UNCHANGED <<sock, request, wait_response, connecting, result, popped, pc, ticket, made, fd,
                      wakeup_queue, connected, buffer, link, wire, mailbox>>
  BY DEF dispatch_function, channel, callers, sockets, network
<1>3. /\ D # Nil /\ \A x \in Co : x # D /\ x # Nil
  BY ChannelAssumption
<1>4. Pend' = Pend
  BY <1>2 DEF Pend
<1>5. \A x : ~In(x, wakeup_queue)
  BY <1>2, InOne
<1>6. Types'
  BY <1>1, <1>2, <1>3, <1>4, <1>5 DEF Types
<1>7. Scheduled'
  BY <1>1, <1>2, <1>3, <1>4, <1>5 DEF Scheduled, Woken
<1>8. Connects'
  BY <1>1, <1>2, <1>3, <1>4, <1>5 DEF Connects, Opening, Settled, Silent, Scheduled
<1>9. Requests'
  BY <1>1, <1>2, <1>3, <1>4, <1>5 DEF Requests, Woken, Closing, Scheduled
<1>10. Reading'
  BY <1>1, <1>2, <1>3, <1>4, <1>5 DEF Reading, Settled, Woken, Closing, Scheduled
<1>11. Closes'
  BY <1>1, <1>2, <1>3, <1>4, <1>5 DEF Closes, ClosesFirst, Closing, Woken, Opening, Connects
<1>12. Network'
  BY <1>1, <1>2, NetworkKept
<1>13. Ordered'
  BY <1>1, <1>2, <1>4, OrderKept DEF Inv, Read, Full, Requests
<1> QED BY <1>6, <1>7, <1>8, <1>9, <1>10, <1>11, <1>12, <1>13 DEF Inv

LEMMA DispatchFunctionInv ==
  ASSUME Inv, dispatch_function, sock # 0
  PROVE  Inv'
<1>1. Types /\ Scheduled /\ Connects /\ Requests /\ Reading /\ Closes /\ Network /\ Ordered
  BY DEF Inv
<1>2. /\ running = Nil /\ wakeup_queue = <<>> /\ dispatch_thread = "forked"
      /\ dispatch_thread' = "loop" /\ running' = D
      /\ UNCHANGED <<sock, request, wait_response, connecting, result, popped, pc, ticket, made, fd,
                      wakeup_queue, connected, buffer, link, wire, mailbox>>
  BY DEF dispatch_function, channel, callers, sockets, network
<1>3. /\ D # Nil /\ \A x \in Co : x # D /\ x # Nil
  BY ChannelAssumption
<1>4. Pend' = Pend
  BY <1>2 DEF Pend
<1>5. \A x : ~In(x, wakeup_queue)
  BY <1>2, InOne
<1>6. Types'
  BY <1>1, <1>2, <1>3, <1>4, <1>5 DEF Types
<1>7. Scheduled'
  BY <1>1, <1>2, <1>3, <1>4, <1>5 DEF Scheduled, Woken
<1>8. Connects'
  BY <1>1, <1>2, <1>3, <1>4, <1>5 DEF Connects, Opening, Settled, Silent, Scheduled
<1>9. Requests'
  BY <1>1, <1>2, <1>3, <1>4, <1>5 DEF Requests, Woken, Closing, Scheduled
<1>10. Reading'
  BY <1>1, <1>2, <1>3, <1>4, <1>5 DEF Reading, Settled, Woken, Closing, Scheduled
<1>11. Closes'
  BY <1>1, <1>2, <1>3, <1>4, <1>5 DEF Closes, ClosesFirst, Closing, Woken, Opening, Connects
<1>12. Network'
  BY <1>1, <1>2, NetworkKept
<1>13. Ordered'
  BY <1>1, <1>2, <1>4, OrderKept DEF Inv, Read, Full, Requests
<1> QED BY <1>6, <1>7, <1>8, <1>9, <1>10, <1>11, <1>12, <1>13 DEF Inv

LEMMA DispatchEndInv ==
  ASSUME Inv, dispatch_end
  PROVE  Inv'
<1>1. Types /\ Scheduled /\ Connects /\ Requests /\ Reading /\ Closes /\ Network /\ Ordered
  BY DEF Inv
<1>2. /\ running = D /\ dispatch_thread = "loop" /\ sock = 0
      /\ dispatch_thread' = "none" /\ running' = Nil
      /\ UNCHANGED <<sock, request, wait_response, connecting, result, popped, pc, ticket, made, fd,
                      wakeup_queue, connected, buffer, link, wire, mailbox>>
  BY DEF dispatch_end, End, channel, callers, sockets, network
<1>3. /\ D # Nil /\ \A x \in Co : x # D /\ x # Nil
  BY ChannelAssumption
<1>4. Pend' = Pend
  BY <1>2 DEF Pend
<1>5. Types'
  BY <1>1, <1>2, <1>3, <1>4 DEF Types
<1>6. Scheduled'
  BY <1>1, <1>2, <1>3, <1>4 DEF Scheduled, Woken
<1>7. Connects'
  BY <1>1, <1>2, <1>3, <1>4 DEF Connects, Opening, Settled, Silent, Scheduled
<1>8. Requests'
  BY <1>1, <1>2, <1>3, <1>4 DEF Requests, Woken, Closing, Scheduled
<1>9. Reading'
  BY <1>1, <1>2, <1>3, <1>4 DEF Reading, Settled, Woken, Closing, Scheduled
<1>10. Closes'
  BY <1>1, <1>2, <1>3, <1>4 DEF Closes, ClosesFirst, Closing, Woken, Opening, Connects
<1>11. Network'
  BY <1>1, <1>2, NetworkKept
<1>12. Ordered'
  BY <1>1, <1>2, <1>4, OrderKept DEF Inv, Read, Full, Requests
<1> QED BY <1>5, <1>6, <1>7, <1>8, <1>9, <1>10, <1>11, <1>12 DEF Inv

LEMMA PopWaitInv ==
  ASSUME Inv, pop_wait
  PROVE  Inv'
<1>1. Types /\ Scheduled /\ Connects /\ Requests /\ Reading /\ Closes /\ Network /\ Ordered
  BY DEF Inv
<1>2. /\ running = D /\ (dispatch_thread = "pop" \/ (dispatch_thread = "loop" /\ sock # 0)) /\ request = <<>>
      /\ wait_response' = TRUE /\ dispatch_thread' = "pop" /\ running' = Nil
      /\ UNCHANGED <<sock, request, connecting, result, popped, pc, ticket, made, fd,
                      wakeup_queue, connected, buffer, link, wire, mailbox>>
  BY DEF pop_wait, Popping, channel, callers, sockets, network
<1>3. /\ D # Nil /\ \A x \in Co : x # D /\ x # Nil
  BY ChannelAssumption
<1>4. Pend' = Pend
  BY <1>2 DEF Pend
<1>5. Types'
  BY <1>1, <1>2, <1>3, <1>4 DEF Types
<1>6. Scheduled'
  BY <1>1, <1>2, <1>3, <1>4 DEF Scheduled, Woken
<1>7. Connects'
  BY <1>1, <1>2, <1>3, <1>4 DEF Connects, Opening, Settled, Silent, Scheduled
<1>8. Requests'
  BY <1>1, <1>2, <1>3, <1>4 DEF Requests, Woken, Closing, Scheduled
<1>9. Reading'
  BY <1>1, <1>2, <1>3, <1>4 DEF Reading, Settled, Woken, Closing, Scheduled
<1>10. Closes'
  BY <1>1, <1>2, <1>3, <1>4 DEF Closes, ClosesFirst, Closing, Woken, Opening, Connects
<1>11. Network'
  BY <1>1, <1>2, NetworkKept
<1>12. Ordered'
  BY <1>1, <1>2, <1>4, OrderKept DEF Inv, Read, Full, Requests
<1> QED BY <1>5, <1>6, <1>7, <1>8, <1>9, <1>10, <1>11, <1>12 DEF Inv

LEMMA PopResponseInv ==
  ASSUME Inv, pop_response
  PROVE  Inv'
<1>1. Types /\ Scheduled /\ Connects /\ Requests /\ Reading /\ Closes /\ Network /\ Ordered
  BY DEF Inv
<1>2. /\ running = D /\ (dispatch_thread = "pop" \/ (dispatch_thread = "loop" /\ sock # 0))
      /\ request # <<>> /\ Head(request) # Close
      /\ popped' = Head(request) /\ request' = Tail(request) /\ dispatch_thread' = "get"
      /\ UNCHANGED <<sock, wait_response, connecting, result, pc, ticket, made, fd, running,
                      wakeup_queue, connected, buffer, link, wire, mailbox>>
  BY DEF pop_response, Popping, channel, callers, sockets, network
<1>3. /\ D # Nil /\ \A x \in Co : x # D /\ x # Nil
  BY ChannelAssumption
<1>4. /\ request \in Seq(Co \cup {Close}) /\ Head(request) \in Co /\ Tail(request) \in Seq(Co \cup {Close})
      /\ \A y : In(y, Tail(request)) => In(y, request)
  <2>1. request \in Seq(Co \cup {Close})
    BY <1>1 DEF Types
  <2> QED BY <1>2, <2>1, InTail
<1>5. Pend' = Pend
  <2>1. <<Head(request)>> \o Tail(request) = request
    BY <1>2, <1>4
  <2> QED BY <1>2, <2>1 DEF Pend
<1>6. Types'
  BY <1>1, <1>2, <1>3, <1>4, <1>5 DEF Types
<1>7. Scheduled'
  BY <1>1, <1>2, <1>3, <1>4, <1>5 DEF Scheduled, Woken
<1>8. Connects'
  BY <1>1, <1>2, <1>3, <1>4, <1>5 DEF Connects, Opening, Settled, Silent, Scheduled
<1>9. Requests'
  BY <1>1, <1>2, <1>3, <1>4, <1>5 DEF Requests, Woken, Closing, Scheduled
<1>10. Reading'
  BY <1>1, <1>2, <1>3, <1>4, <1>5 DEF Reading, Settled, Woken, Closing, Scheduled
<1>11. Closes'
  BY <1>1, <1>2, <1>3, <1>4, <1>5 DEF Closes, ClosesFirst, Closing, Woken, Opening, Connects
<1>12. Network'
  BY <1>1, <1>2, NetworkKept
<1>13. Ordered'
  BY <1>1, <1>2, <1>5, OrderKept DEF Inv, Read, Full, Requests
<1> QED BY <1>6, <1>7, <1>8, <1>9, <1>10, <1>11, <1>12, <1>13 DEF Inv

LEMMA PopCloseInv ==
  ASSUME Inv, pop_close
  PROVE  Inv'
<1>1. Types /\ Scheduled /\ Connects /\ Requests /\ Reading /\ Closes /\ Network /\ Ordered
  BY DEF Inv
<1>2. /\ running = D /\ (dispatch_thread = "pop" \/ (dispatch_thread = "loop" /\ sock # 0))
      /\ request # <<>> /\ Head(request) = Close /\ wakeup_all(<<>>, <<>>)
      /\ dispatch_thread' = "none" /\ running' = Nil
      /\ UNCHANGED <<sock, wait_response, connecting, popped, pc, ticket, made, fd,
                      connected, buffer, link, wire, mailbox>>
  BY DEF pop_close, Popping, End, channel, callers, sockets, network
<1>3. /\ D # Nil /\ \A x \in Co : x # D /\ x # Nil
  BY ChannelAssumption
<1>4. \A y : ~In(y, <<>>) /\ Distinct(<<>>)
  BY InOne
<1>5. In(Close, request) /\ sock = 0 /\ dispatch_thread = "pop"
  <2>1. In(Close, request)
    BY <1>1, <1>2, InTail DEF Types
  <2> QED BY <1>1, <1>2, <2>1 DEF Requests, Connects, Opening
<1>6. /\ request' = <<>>
      /\ result' \in [Co -> Nat \cup {Nil, Failed}]
      /\ \A x \in Co : result'[x] = IF In(x, request) THEN Failed ELSE result[x]
      /\ wakeup_queue' \in Seq(Co \cup {D}) /\ Distinct(wakeup_queue')
      /\ \A y : In(y, wakeup_queue') <=>
           In(y, wakeup_queue) \/ (In(y, request) /\ y # Close)
  <2>1. <<>> \in Seq(Co)
    OBVIOUS
  <2> QED BY <1>2, <1>4, <2>1, WakeAllFacts
<1>7. Pend' = <<>> /\ Pend = request
  BY <1>2, <1>5, <1>6 DEF Pend
<1>8. \A x \in Co : In(x, request) => pc[x] = "wait" /\ result[x] = Nil
  BY <1>1, <1>7 DEF Requests
<1>9. \A y : In(y, request) => y \in Co \cup {Close}
  BY <1>1 DEF Types, In
<1>10. Close \notin Co /\ <<>> \in Seq(Co \cup {Close}) /\ 0 \notin Fd
  BY ChannelAssumption DEF Fd
<1>11. Types'
  BY <1>1, <1>2, <1>3, <1>4, <1>5, <1>6, <1>7, <1>8, <1>9, <1>10 DEF Types
<1>12. Scheduled'
  BY <1>1, <1>2, <1>3, <1>4, <1>5, <1>6, <1>7, <1>8, <1>9, <1>10 DEF Scheduled, Woken
<1>13. Connects'
  BY <1>1, <1>2, <1>3, <1>4, <1>5, <1>6, <1>7, <1>8, <1>9, <1>10 DEF Connects, Opening, Settled, Silent, Scheduled
<1>14. Requests'
  BY <1>1, <1>2, <1>3, <1>4, <1>5, <1>6, <1>7, <1>8, <1>9, <1>10 DEF Requests, Woken, Closing, Scheduled
<1>15. Reading'
  BY <1>1, <1>2, <1>3, <1>4, <1>5, <1>6, <1>7, <1>8, <1>9, <1>10 DEF Reading, Settled, Woken, Closing, Scheduled
<1>16. Closes'
  BY <1>1, <1>2, <1>3, <1>4, <1>5, <1>6, <1>7, <1>8, <1>9, <1>10 DEF Closes, ClosesFirst, Closing, Woken, Opening, Connects
<1>17. Network'
  BY <1>1, <1>2, NetworkKept
<1>18. Ordered'
  BY <1>2, <1>5, <1>10 DEF Ordered, Read
<1> QED BY <1>11, <1>12, <1>13, <1>14, <1>15, <1>16, <1>17, <1>18 DEF Inv

(* At most one is woken by a socket, or by the reader of a socket. *)
LEMMA OneInOrder ==
  ASSUME NEW S, NEW T \in SUBSET S, \A x, y \in T : x = y, NEW q \in SetToSeqs(T)
  PROVE  q \in Seq(S) /\ Distinct(q) /\ \A y : In(y, q) <=> y \in T
<1>1. CASE T = {}
  <2>1. Cardinality(T) = 0
    BY <1>1, FS_EmptySet
  <2>2. q \in [1..0 -> T]
    BY <2>1 DEF SetToSeqs
  <2>3. q = <<>>
    BY <2>2
  <2>4. <<>> \in Seq(S)
    OBVIOUS
  <2>5. Distinct(<<>>) /\ \A y : ~In(y, <<>>)
    BY InOne
  <2> QED BY <1>1, <2>3, <2>4, <2>5
<1>2. CASE T # {}
  <2>1. PICK x \in T : T = {x}
    BY <1>2
  <2>2. Cardinality(T) = 1
    BY <2>1, FS_Singleton
  <2>3. q \in [1..1 -> T]
    BY <2>2 DEF SetToSeqs
  <2>4. q = [i \in 1..1 |-> x]
    BY <2>1, <2>3
  <2>5. q = <<x>> /\ <<x>> \in Seq(S)
    BY <2>4
  <2> QED BY <2>1, <2>5, InOne
<1> QED BY <1>1, <1>2

LEMMA GetClosedInv ==
  ASSUME Inv, get_closed
  PROVE  Inv'
<1>1. Types /\ Scheduled /\ Connects /\ Requests /\ Reading /\ Closes /\ Network /\ Ordered
  BY DEF Inv
<1>2. /\ running = D /\ dispatch_thread = "get" /\ sock = 0 /\ sock' = 0
      /\ dispatch_thread' = "none" /\ running' = Nil
      /\ UNCHANGED <<wait_response, connecting, popped, pc, ticket, made, fd,
                      connected, buffer, link, wire, mailbox>>
  BY DEF get_closed, give_up, End, callers, sockets, network
<1>3. /\ D # Nil /\ \A x \in Co : x # D /\ x # Nil
  BY ChannelAssumption
<1>4. \A y : ~In(y, <<>>) /\ Distinct(<<>>)
  BY InOne
<1>5. 0 \in 0..MaxConn /\ 0 \notin Fd /\ Fd \subseteq 0..MaxConn
  BY ChannelAssumption DEF Fd
<1>6. Close \notin Co /\ <<>> \in Seq(Co \cup {Close})
  BY ChannelAssumption
<1>7. /\ popped \in Co /\ pc[popped] = "wait" /\ result[popped] = Nil /\ ~Woken(popped)
      /\ ~In(popped, request) /\ Distinct(request)
      /\ \A x \in Co : In(x, request) => pc[x] = "wait" /\ result[x] = Nil /\ ~Woken(x)
      /\ \A y : In(y, request) => y \in Co \cup {Close}
  <2>1. \A y : In(y, request) => y \in Co \cup {Close}
    BY <1>1 DEF Types, In
  <2> QED BY <1>1, <1>2, <2>1, PendFacts DEF Requests
<1>8. <<popped>> \in Seq(Co) /\ Distinct(<<popped>>) /\ \A y : In(y, <<popped>>) <=> y = popped
  BY <1>7, InOne
<1>9. /\ request' = <<>>
      /\ result' \in [Co -> Nat \cup {Nil, Failed}]
      /\ \A x \in Co : result'[x] = IF x = popped \/ In(x, request) THEN Failed ELSE result[x]
      /\ wakeup_queue' \in Seq(Co \cup {D}) /\ Distinct(wakeup_queue')
      /\ \A y : In(y, wakeup_queue') <=>
           In(y, wakeup_queue) \/ y = popped \/ (In(y, request) /\ y # Close)
  <2>1. PICK q \in SetToSeqs({}) : wakeup_all(q, <<popped>>)
    BY DEF get_closed, give_up
  <2>2. q \in Seq(Co) /\ Distinct(q) /\ \A y : ~In(y, q)
    BY OneInOrder
  <2>3. \A y : In(y, <<popped>>) => ~In(y, wakeup_queue) /\ ~In(y, request)
    BY <1>7, <1>8 DEF Woken
  <2> QED BY <1>8, <2>1, <2>2, <2>3, WakeAllFacts
<1>10. Pend' = <<>>
  BY <1>2, <1>9 DEF Pend
<1>11. Types'
  BY <1>1, <1>2, <1>3, <1>4, <1>5, <1>6, <1>7, <1>8, <1>9, <1>10 DEF Types
<1>12. Scheduled'
  BY <1>1, <1>2, <1>3, <1>4, <1>5, <1>6, <1>7, <1>8, <1>9, <1>10 DEF Scheduled, Woken
<1>13. Connects'
  BY <1>1, <1>2, <1>3, <1>4, <1>5, <1>6, <1>7, <1>8, <1>9, <1>10 DEF Connects, Opening, Settled, Silent, Scheduled
<1>14. Requests'
  BY <1>1, <1>2, <1>3, <1>4, <1>5, <1>6, <1>7, <1>8, <1>9, <1>10 DEF Requests, Woken, Closing, Scheduled
<1>15. Reading'
  BY <1>1, <1>2, <1>3, <1>4, <1>5, <1>6, <1>7, <1>8, <1>9, <1>10 DEF Reading, Settled, Woken, Closing, Scheduled
<1>16. Closes'
  BY <1>1, <1>2, <1>3, <1>4, <1>5, <1>6, <1>7, <1>8, <1>9, <1>10 DEF Closes, ClosesFirst, Closing, Woken, Opening, Connects
<1>17. Network'
  BY <1>1, <1>2, NetworkKept
<1>18. Ordered'
  BY <1>2, <1>5 DEF Ordered, Read
<1> QED BY <1>11, <1>12, <1>13, <1>14, <1>15, <1>16, <1>17, <1>18 DEF Inv

LEMMA ReadClosedInv ==
  ASSUME Inv, read_closed
  PROVE  Inv'
<1>1. Types /\ Scheduled /\ Connects /\ Requests /\ Reading /\ Closes /\ Network /\ Ordered
  BY DEF Inv
<1>2. /\ running = D /\ dispatch_thread = "read" /\ ~connected[fd[D]] /\ sock' = 0
      /\ dispatch_thread' = "none" /\ running' = Nil
      /\ UNCHANGED <<wait_response, connecting, popped, pc, ticket, made, fd,
                      connected, buffer, link, wire, mailbox>>
  BY DEF read_closed, give_up, End, callers, sockets, network
<1>3. /\ D # Nil /\ \A x \in Co : x # D /\ x # Nil
  BY ChannelAssumption
<1>4. \A y : ~In(y, <<>>) /\ Distinct(<<>>)
  BY InOne
<1>5. 0 \in 0..MaxConn /\ 0 \notin Fd /\ Fd \subseteq 0..MaxConn
  BY ChannelAssumption DEF Fd
<1>6. Close \notin Co /\ <<>> \in Seq(Co \cup {Close})
  BY ChannelAssumption
<1>7. /\ popped \in Co /\ pc[popped] = "wait" /\ result[popped] = Nil /\ ~Woken(popped)
      /\ ~In(popped, request) /\ Distinct(request)
      /\ \A x \in Co : In(x, request) => pc[x] = "wait" /\ result[x] = Nil /\ ~Woken(x)
      /\ \A y : In(y, request) => y \in Co \cup {Close}
  <2>1. \A y : In(y, request) => y \in Co \cup {Close}
    BY <1>1 DEF Types, In
  <2> QED BY <1>1, <1>2, <2>1, PendFacts DEF Requests
<1>8. <<popped>> \in Seq(Co) /\ Distinct(<<popped>>) /\ \A y : In(y, <<popped>>) <=> y = popped
  BY <1>7, InOne
<1>9. /\ \A x, y \in Closers : x = y
      /\ Closers \in SUBSET Co
      /\ \A x \in Co : x \in Closers <=> Closing(x)
      /\ \A x \in Closers : ~Woken(x) /\ x # popped /\ ~In(x, request)
  <2>1. \A x \in Co : x \in Closers <=> Closing(x)
    BY <1>1, <1>2 DEF Closers, Closing, Closes, ClosesFirst
  <2>2. \A x \in Closers : x \in Co /\ pc[x] = "closing"
    BY DEF Closers
  <2>3. \A x, y \in Closers : x = y
    BY <1>1, <2>1, <2>2 DEF Closes, ClosesFirst
  <2>4. \A x \in Closers : ~Woken(x)
    BY <1>1, <1>2, <2>1, <2>2 DEF Closes, ClosesFirst, Woken
  <2> QED BY <1>7, <2>1, <2>2, <2>3, <2>4
<1>10. /\ request' = <<>>
       /\ result' \in [Co -> Nat \cup {Nil, Failed}]
       /\ \A x \in Co : result'[x] = IF x = popped \/ In(x, request) THEN Failed ELSE result[x]
       /\ wakeup_queue' \in Seq(Co \cup {D}) /\ Distinct(wakeup_queue')
       /\ \A y : In(y, wakeup_queue') <=>
            In(y, wakeup_queue) \/ (y \in Co /\ Closing(y)) \/ y = popped \/ (In(y, request) /\ y # Close)
  <2>1. PICK q \in SetToSeqs(Closers) : wakeup_all(q, <<popped>>)
    BY DEF read_closed, give_up
  <2>2. q \in Seq(Co) /\ Distinct(q) /\ \A y : In(y, q) <=> y \in Closers
    BY <1>9, OneInOrder
  <2>3. \A y : In(y, <<popped>>) => ~In(y, wakeup_queue) /\ ~In(y, request)
    BY <1>7, <1>8 DEF Woken
  <2>4. \A y : In(y, q) => ~In(y, wakeup_queue) /\ ~In(y, <<popped>>) /\ ~In(y, request)
    BY <1>8, <1>9, <2>2 DEF Woken
  <2>5. \A y : In(y, q) <=> y \in Co /\ Closing(y)
    BY <1>9, <2>2
  <2> QED BY <1>8, <2>1, <2>2, <2>3, <2>4, <2>5, WakeAllFacts
<1>11. Pend' = <<>>
  BY <1>2, <1>10 DEF Pend
<1>12. Types'
  BY <1>1, <1>2, <1>3, <1>4, <1>5, <1>6, <1>7, <1>10, <1>11 DEF Types, Closing
<1>13. Scheduled'
  BY <1>1, <1>2, <1>3, <1>4, <1>5, <1>6, <1>7, <1>10, <1>11 DEF Scheduled, Woken, Closing
<1>14. Connects'
  BY <1>1, <1>2, <1>3, <1>4, <1>5, <1>6, <1>7, <1>10, <1>11 DEF Connects, Opening, Settled, Silent, Scheduled, Closing
<1>15. Requests'
  BY <1>1, <1>2, <1>3, <1>4, <1>5, <1>6, <1>7, <1>10, <1>11 DEF Requests, Woken, Closing, Scheduled
<1>16. Reading'
  BY <1>1, <1>2, <1>3, <1>4, <1>5, <1>6, <1>7, <1>10, <1>11 DEF Reading, Settled, Woken, Closing, Scheduled
<1>17. Closes'
  BY <1>1, <1>2, <1>3, <1>4, <1>5, <1>6, <1>7, <1>10, <1>11 DEF Closes, ClosesFirst, Closing, Woken, Opening, Connects
<1>18. Network'
  BY <1>1, <1>2, NetworkKept
<1>19. Ordered'
  BY <1>2, <1>5 DEF Ordered, Read
<1> QED BY <1>12, <1>13, <1>14, <1>15, <1>16, <1>17, <1>18, <1>19 DEF Inv

(* An answer is handed out: it is the one to the request of popped. *)
LEMMA AnswerFacts ==
  ASSUME Inv, NEW f \in Fd, Read(f), dispatch_thread \in {"get", "read"}, buffer[f] # <<>>,
         NEW C \in SUBSET Co, \A x, y \in C : x = y,
         \A x \in C : ~Woken(x) /\ pc[x] = "closing",
         Answer(f, C), request' = request
  PROVE  /\ buffer' \in [Fd -> Seq(Nat)] /\ buffer'[f] = Tail(buffer[f])
         /\ \A g \in Fd : g # f => buffer'[g] = buffer[g]
         /\ popped \in Co /\ pc[popped] = "wait" /\ ~Woken(popped)
         /\ result' \in [Co -> Nat \cup {Nil, Failed}]
         /\ result'[popped] = ticket[popped]
         /\ \A x \in Co : x # popped => result'[x] = result[x]
         /\ dispatch_thread' = "loop"
         /\ Pend' = request /\ Distinct(request) /\ ~In(popped, request)
         /\ \A x : In(x, request) => In(x, Pend)
         /\ wakeup_queue' \in Seq(Co \cup {D}) /\ Distinct(wakeup_queue')
         /\ \A y : In(y, wakeup_queue') <=> In(y, wakeup_queue) \/ y \in C \/ y = popped
         /\ InOrder(f, mailbox, Tail(buffer[f]), wire[f], request, ticket, Full(f))
<1>1. Types /\ Scheduled /\ Requests /\ Ordered
  BY DEF Inv
<1>2. /\ Pend \in Seq(Co \cup {Close}) /\ popped \in Co /\ Pend[1] = popped
      /\ Tail(Pend) = request /\ Distinct(request) /\ ~In(popped, request)
      /\ \A x : In(x, request) => In(x, Pend)
      /\ In(popped, Pend)
  BY <1>1, PendFacts
<1>3. pc[popped] = "wait" /\ ~Woken(popped)
  BY <1>1, <1>2 DEF Requests
<1>4. /\ Head(buffer[f]) = ticket[popped]
      /\ InOrder(f, mailbox, Tail(buffer[f]), wire[f], request, ticket, Full(f))
  <2>1. InOrder(f, mailbox, buffer[f], wire[f], Pend, ticket, Full(f))
    BY <1>1 DEF Ordered
  <2>2. Traffic(f, mailbox, buffer[f], wire[f], Pend, ticket)
    BY <1>1, <1>2 DEF Types, Traffic
  <2>3. /\ Pend # <<>> /\ Pend[1] \in Co /\ Head(buffer[f]) = ticket[Pend[1]]
        /\ InOrder(f, mailbox, Tail(buffer[f]), wire[f], Tail(Pend), ticket, Full(f))
    <3> HIDE DEF Full, Pend
    <3> QED BY <2>1, <2>2, OrderAnswer
  <2> QED BY <1>2, <2>3
<1>5. /\ buffer' = [buffer EXCEPT ![f] = Tail(buffer[f])]
      /\ result' = [result EXCEPT ![popped] = ticket[popped]]
      /\ dispatch_thread' = "loop"
  BY <1>4 DEF Answer
<1>6. buffer[f] \in Seq(Nat) /\ Tail(buffer[f]) \in Seq(Nat)
  BY <1>1 DEF Types
<1>7. /\ buffer' \in [Fd -> Seq(Nat)] /\ buffer'[f] = Tail(buffer[f])
      /\ \A g \in Fd : g # f => buffer'[g] = buffer[g]
  BY <1>1, <1>5, <1>6 DEF Types
<1>8. /\ result' \in [Co -> Nat \cup {Nil, Failed}]
      /\ result'[popped] = ticket[popped]
      /\ \A x \in Co : x # popped => result'[x] = result[x]
  BY <1>1, <1>2, <1>5 DEF Types
<1>9. Pend' = request
  BY <1>5 DEF Pend
<1>10. PICK q \in SetToSeqs(C) : wakeup_queue' = wakeup_queue \o q \o <<popped>>
  BY DEF Answer
<1>11. q \in Seq(Co \cup {D}) /\ Distinct(q) /\ \A y : In(y, q) <=> y \in C
  <2>1. C \in SUBSET (Co \cup {D})
    OBVIOUS
  <2> QED BY <2>1, OneInOrder
<1>12. /\ <<popped>> \in Seq(Co \cup {D}) /\ Distinct(<<popped>>)
       /\ \A y : In(y, <<popped>>) <=> y = popped
  BY <1>2, InOne
<1>13. wakeup_queue \in Seq(Co \cup {D}) /\ Distinct(wakeup_queue)
  BY <1>1 DEF Types, Scheduled
<1> DEFINE r == wakeup_queue \o q
<1>14. /\ r \in Seq(Co \cup {D}) /\ Distinct(r)
       /\ \A y : In(y, r) <=> In(y, wakeup_queue) \/ y \in C
  <2>1. \A y : ~(In(y, wakeup_queue) /\ In(y, q))
    BY <1>11 DEF Woken
  <2> QED BY <1>11, <1>13, <2>1, InConcat
<1>15. /\ wakeup_queue' \in Seq(Co \cup {D}) /\ Distinct(wakeup_queue')
       /\ \A y : In(y, wakeup_queue') <=> In(y, wakeup_queue) \/ y \in C \/ y = popped
  <2>1. wakeup_queue' = r \o <<popped>>
    BY <1>10
  <2> HIDE DEF r
  <2>2. \A y : ~(In(y, r) /\ In(y, <<popped>>))
    BY <1>3, <1>12, <1>14 DEF Woken
  <2>3. /\ r \o <<popped>> \in Seq(Co \cup {D})
        /\ \A y : In(y, r \o <<popped>>) <=> In(y, r) \/ In(y, <<popped>>)
        /\ Distinct(r \o <<popped>>)
    BY <1>12, <1>14, <2>2, InConcat
  <2> QED BY <1>12, <1>14, <2>1, <2>3
<1> QED BY <1>2, <1>3, <1>4, <1>5, <1>7, <1>8, <1>9, <1>15

LEMMA GetAnswerInv ==
  ASSUME Inv, get_response, buffer[sock] # <<>>
  PROVE  Inv'
<1>1. Types /\ Scheduled /\ Connects /\ Requests /\ Reading /\ Closes /\ Network /\ Ordered
  BY DEF Inv
<1>2. /\ running = D /\ dispatch_thread = "get" /\ sock # 0 /\ Answer(sock, {})
      /\ UNCHANGED <<sock, request, wait_response, connecting, popped, pc, ticket, made, fd, running,
                      connected, link, wire, mailbox>>
  BY DEF get_response, callers, sockets, network
<1>3. /\ D # Nil /\ \A x \in Co : x # D /\ x # Nil
  BY ChannelAssumption
<1>4. 0 \in 0..MaxConn /\ 0 \notin Fd /\ Fd \subseteq 0..MaxConn
  BY ChannelAssumption DEF Fd
<1>5. sock \in Fd /\ Settled(sock)
  BY <1>1, <1>2 DEF Types, Fd, Reading
<1>6. /\ buffer' \in [Fd -> Seq(Nat)] /\ buffer'[sock] = Tail(buffer[sock])
      /\ \A g \in Fd : g # sock => buffer'[g] = buffer[g]
      /\ popped \in Co /\ pc[popped] = "wait" /\ ~Woken(popped)
      /\ result' \in [Co -> Nat \cup {Nil, Failed}]
      /\ result'[popped] = ticket[popped]
      /\ \A x \in Co : x # popped => result'[x] = result[x]
      /\ dispatch_thread' = "loop"
      /\ Pend' = request /\ Distinct(request) /\ ~In(popped, request)
      /\ \A x : In(x, request) => In(x, Pend)
      /\ wakeup_queue' \in Seq(Co \cup {D}) /\ Distinct(wakeup_queue')
      /\ \A y : In(y, wakeup_queue') <=> In(y, wakeup_queue) \/ y = popped
      /\ InOrder(sock, mailbox, Tail(buffer[sock]), wire[sock], request, ticket, Full(sock))
  <2>1. Read(sock)
    BY DEF Read
  <2> QED BY <1>2, <1>5, <2>1, AnswerFacts
<1>7. \A x \in Co : ~Opening(x) /\ ~Closing(x)
  BY <1>1, <1>4, <1>5 DEF Connects, Closes, ClosesFirst
<1>8. Types'
  BY <1>1, <1>2, <1>3, <1>4, <1>5, <1>6, <1>7 DEF Types
<1>9. Scheduled'
  BY <1>1, <1>2, <1>3, <1>4, <1>5, <1>6, <1>7 DEF Scheduled, Woken
<1>10. Connects'
  BY <1>1, <1>2, <1>3, <1>4, <1>5, <1>6, <1>7 DEF Connects, Opening, Settled, Silent, Scheduled
<1>11. Requests'
  BY <1>1, <1>2, <1>3, <1>4, <1>5, <1>6, <1>7 DEF Requests, Woken, Closing, Scheduled
<1>12. Reading'
  BY <1>1, <1>2, <1>3, <1>4, <1>5, <1>6, <1>7 DEF Reading, Settled, Woken, Closing, Scheduled
<1>13. Closes'
  BY <1>1, <1>2, <1>3, <1>4, <1>5, <1>6, <1>7 DEF Closes, ClosesFirst, Closing, Woken, Opening, Connects
<1>14. Network'
  BY <1>1, <1>2, <1>5, <1>6 DEF Network, Settled
<1>15. Ordered'
  <2>1. SUFFICES ASSUME NEW g \in Fd, Read(g)'
                 PROVE  InOrder(g, mailbox', buffer'[g], wire'[g], Pend', ticket', Full(g)')
    BY DEF Ordered
  <2>2. g = sock
    BY <1>1, <1>2, <1>4, <1>6, <2>1 DEF Read, Reading
  <2>3. Full(g)' <=> Full(g)
    BY <1>2 DEF Full
  <2>4. InOrder(g, mailbox, Tail(buffer[g]), wire[g], request, ticket, Full(g)')
    <3>1. InOrder(g, mailbox, Tail(buffer[g]), wire[g], request, ticket, Full(g))
      BY <1>6, <2>2
    <3> QED BY <2>3, <3>1 DEF InOrder, InOrderBy
  <2> QED BY <1>2, <1>6, <2>2, <2>4
<1> QED BY <1>8, <1>9, <1>10, <1>11, <1>12, <1>13, <1>14, <1>15 DEF Inv

LEMMA GetWaitInv ==
  ASSUME Inv, get_response, buffer[sock] = <<>>
  PROVE  Inv'
<1>1. Types /\ Scheduled /\ Connects /\ Requests /\ Reading /\ Closes /\ Network /\ Ordered
  BY DEF Inv
<1>2. /\ running = D /\ dispatch_thread = "get" /\ sock # 0 /\ connected[sock]
      /\ dispatch_thread' = "read" /\ fd' = [fd EXCEPT ![D] = sock] /\ running' = Nil
      /\ UNCHANGED <<sock, request, wait_response, connecting, result, popped, pc, ticket, made,
                      wakeup_queue, connected, buffer, link, wire, mailbox>>
  BY DEF get_response, callers, sockets, network
<1>3. /\ D # Nil /\ \A x \in Co : x # D /\ x # Nil
  BY ChannelAssumption
<1>4. Pend' = Pend
  BY <1>2 DEF Pend
<1>5. 0 \in 0..MaxConn /\ 0 \notin Fd /\ Fd \subseteq 0..MaxConn
  BY ChannelAssumption DEF Fd
<1>6. sock \in Fd /\ Settled(sock)
  BY <1>1, <1>2 DEF Types, Fd, Reading
<1>7. fd'[D] = sock /\ \A x \in Co : fd'[x] = fd[x]
  BY <1>1, <1>2, <1>3 DEF Types
<1>8. \A x \in Co : ~Opening(x) /\ ~Closing(x)
  BY <1>1, <1>5, <1>6 DEF Connects, Closes, ClosesFirst
<1>9. Types'
  BY <1>1, <1>2, <1>3, <1>4, <1>5, <1>6, <1>7, <1>8 DEF Types
<1>10. Scheduled'
  BY <1>1, <1>2, <1>3, <1>4, <1>5, <1>6, <1>7, <1>8 DEF Scheduled, Woken
<1>11. Connects'
  BY <1>1, <1>2, <1>3, <1>4, <1>5, <1>6, <1>7, <1>8 DEF Connects, Opening, Settled, Silent, Scheduled
<1>12. Requests'
  BY <1>1, <1>2, <1>3, <1>4, <1>5, <1>6, <1>7, <1>8 DEF Requests, Woken, Closing, Scheduled
<1>13. Reading'
  BY <1>1, <1>2, <1>3, <1>4, <1>5, <1>6, <1>7, <1>8 DEF Reading, Settled, Woken, Closing, Scheduled
<1>14. Closes'
  BY <1>1, <1>2, <1>3, <1>4, <1>5, <1>6, <1>7, <1>8 DEF Closes, ClosesFirst, Closing, Woken, Opening, Connects
<1>15. Network'
  BY <1>1, <1>2, NetworkKept
<1>16. Ordered'
  BY <1>1, <1>2, <1>4, <1>5, <1>6, <1>7, OrderKept DEF Inv, Read, Full, Requests
<1> QED BY <1>9, <1>10, <1>11, <1>12, <1>13, <1>14, <1>15, <1>16 DEF Inv

LEMMA ReadResponseInv ==
  ASSUME Inv, read_response
  PROVE  Inv'
<1>1. Types /\ Scheduled /\ Connects /\ Requests /\ Reading /\ Closes /\ Network /\ Ordered
  BY DEF Inv
<1>2. /\ running = D /\ dispatch_thread = "read" /\ connected[fd[D]] /\ Answer(fd[D], Closers)
      /\ buffer[fd[D]] # <<>>
      /\ UNCHANGED <<sock, request, wait_response, connecting, popped, pc, ticket, made, fd, running,
                      connected, link, wire, mailbox>>
  BY DEF read_response, callers, sockets, network
<1>3. /\ D # Nil /\ \A x \in Co : x # D /\ x # Nil
  BY ChannelAssumption
<1>4. 0 \in 0..MaxConn /\ 0 \notin Fd /\ Fd \subseteq 0..MaxConn
  BY ChannelAssumption DEF Fd
<1>5. /\ fd[D] \in Fd /\ Settled(fd[D]) /\ buffer[fd[D]] # <<>> /\ sock \in {0, fd[D]}
      /\ sock = 0 => \E c \in Co : Closing(c)
  BY <1>1, <1>2 DEF Reading, Woken
<1>6. /\ buffer' \in [Fd -> Seq(Nat)] /\ buffer'[fd[D]] = Tail(buffer[fd[D]])
      /\ \A g \in Fd : g # fd[D] => buffer'[g] = buffer[g]
      /\ popped \in Co /\ pc[popped] = "wait" /\ ~Woken(popped)
      /\ result' \in [Co -> Nat \cup {Nil, Failed}]
      /\ result'[popped] = ticket[popped]
      /\ \A x \in Co : x # popped => result'[x] = result[x]
      /\ dispatch_thread' = "loop"
      /\ Pend' = request /\ Distinct(request) /\ ~In(popped, request)
      /\ \A x : In(x, request) => In(x, Pend)
      /\ wakeup_queue' \in Seq(Co \cup {D}) /\ Distinct(wakeup_queue')
      /\ \A y : In(y, wakeup_queue') <=> In(y, wakeup_queue) \/ (y \in Co /\ Closing(y)) \/ y = popped
      /\ InOrder(fd[D], mailbox, Tail(buffer[fd[D]]), wire[fd[D]], request, ticket, Full(fd[D]))
  <2>1. Read(fd[D])
    BY <1>2 DEF Read
  <2>2. \A x \in Co : x \in Closers <=> Closing(x)
    BY <1>1, <1>2 DEF Closers, Closing, Closes, ClosesFirst
  <2>3. Closers \in SUBSET Co /\ \A x \in Closers : x \in Co /\ pc[x] = "closing"
    BY DEF Closers
  <2>4. \A x, y \in Closers : x = y
    BY <1>1, <2>2, <2>3 DEF Closes, ClosesFirst
  <2>5. \A x \in Closers : ~Woken(x)
    BY <1>1, <1>2, <2>2, <2>3 DEF Closes, ClosesFirst, Woken
  <2>6. \A y : y \in Closers <=> y \in Co /\ Closing(y)
    BY <2>2, <2>3
  <2> QED BY <1>2, <1>5, <2>1, <2>3, <2>4, <2>5, <2>6, AnswerFacts
<1>7. Types'
  BY <1>1, <1>2, <1>3, <1>4, <1>5, <1>6 DEF Types
<1>8. Scheduled'
  BY <1>1, <1>2, <1>3, <1>6 DEF Scheduled, Woken, Closing
<1>9. Connects'
  <2>1. \A x \in Co : Opening(x) => fd[x] # fd[D] /\ fd[x] \in Fd /\ Silent(fd[x])
    BY <1>1, <1>5 DEF Connects, Silent
  <2>2. \A x \in Co : Opening(x) => Silent(fd[x])'
    BY <1>2, <1>6, <2>1 DEF Silent
  <2>3. \A x \in Co : pc[x] = "connwait" => (In(x, wakeup_queue') <=> In(x, wakeup_queue))
    BY <1>6 DEF Closing
  <2>4. connecting # <<>> => \A x \in Co : In(x, Tail(connecting)) =>
          pc[x] = "connwait" /\ ~In(x, wakeup_queue)
    BY <1>1 DEF Connects
  <2>5. connecting # <<>> => \A x \in Co : In(x, Tail(connecting)) =>
          pc[x] = "connwait" /\ ~In(x, wakeup_queue')
    BY <2>3, <2>4
  <2>6. \A x \in Co : Opening(x)' <=> Opening(x)
    BY <1>2 DEF Opening
  <2>7. \A x \in Co : pc[x] # "start"
    BY <1>1, <1>2 DEF Connects
  <2> QED BY <1>1, <1>2, <2>2, <2>5, <2>6, <2>7 DEF Connects, Settled
<1>10. Requests'
  BY <1>1, <1>2, <1>3, <1>4, <1>5, <1>6 DEF Requests, Woken, Closing, Scheduled
<1>11. Reading'
  BY <1>1, <1>2, <1>3, <1>4, <1>5, <1>6 DEF Reading, Settled, Woken, Closing, Scheduled
<1>12. Closes'
  BY <1>1, <1>2, <1>3, <1>4, <1>5, <1>6 DEF Closes, ClosesFirst, Closing, Woken, Opening, Connects
<1>13. Network'
  BY <1>1, <1>2, <1>5, <1>6 DEF Network, Settled
<1>14. Ordered'
  <2>1. SUFFICES ASSUME NEW g \in Fd, Read(g)'
                 PROVE  InOrder(g, mailbox', buffer'[g], wire'[g], Pend', ticket', Full(g)')
    BY DEF Ordered
  <2>2. g = fd[D]
    BY <1>1, <1>2, <1>4, <1>5, <1>6, <2>1 DEF Read, Reading
  <2>3. Full(g)' <=> Full(g)
    BY <1>2 DEF Full
  <2>4. InOrder(g, mailbox, Tail(buffer[g]), wire[g], request, ticket, Full(g)')
    <3>1. InOrder(g, mailbox, Tail(buffer[g]), wire[g], request, ticket, Full(g))
      BY <1>5, <1>6, <2>2
    <3> QED BY <2>3, <3>1 DEF InOrder, InOrderBy
  <2> QED BY <1>2, <1>5, <1>6, <2>2, <2>4
<1> QED BY <1>7, <1>8, <1>9, <1>10, <1>11, <1>12, <1>13, <1>14 DEF Inv

(* D wakes the one in socket.close and suspends again. *)
LEMMA ReadPartInv ==
  ASSUME Inv, read_part
  PROVE  Inv'
<1>1. Types /\ Scheduled /\ Connects /\ Requests /\ Reading /\ Closes /\ Network /\ Ordered
  BY DEF Inv
<1>2. /\ running = D /\ dispatch_thread = "read" /\ connected[fd[D]]
      /\ running' = Nil
      /\ UNCHANGED <<sock, request, wait_response, connecting, result, dispatch_thread, popped,
                      pc, ticket, made, fd, connected, buffer, link, wire, mailbox>>
  BY DEF read_part, channel, dispatcher, callers, sockets, network
<1>3. /\ D # Nil /\ \A x \in Co : x # D /\ x # Nil
  BY ChannelAssumption
<1>4. Pend' = Pend
  BY <1>2 DEF Pend
<1>5. \A x \in Co : x \in Closers <=> Closing(x)
  BY <1>1, <1>2 DEF Closers, Closing, Closes, ClosesFirst
<1>6. Closers \in SUBSET (Co \cup {D}) /\ \A x \in Closers : x \in Co /\ pc[x] = "closing"
  BY DEF Closers
<1>7. \A x, y \in Closers : x = y
  BY <1>1, <1>5, <1>6 DEF Closes, ClosesFirst
<1>8. \A x \in Closers : ~Woken(x)
  BY <1>1, <1>2, <1>5, <1>6 DEF Closes, ClosesFirst, Woken
<1>9. /\ wakeup_queue' \in Seq(Co \cup {D}) /\ Distinct(wakeup_queue')
      /\ \A y : In(y, wakeup_queue') <=> In(y, wakeup_queue) \/ (y \in Co /\ Closing(y))
  <2>1. PICK q \in SetToSeqs(Closers) : wakeup_queue' = wakeup_queue \o q
    BY DEF read_part
  <2>2. q \in Seq(Co \cup {D}) /\ Distinct(q) /\ \A y : In(y, q) <=> y \in Closers
    BY <1>6, <1>7, <2>1, OneInOrder
  <2>3. wakeup_queue \in Seq(Co \cup {D}) /\ Distinct(wakeup_queue)
    BY <1>1 DEF Types, Scheduled
  <2>4. \A y : ~(In(y, wakeup_queue) /\ In(y, q))
    BY <1>8, <2>2 DEF Woken
  <2>5. /\ wakeup_queue' \in Seq(Co \cup {D}) /\ Distinct(wakeup_queue')
        /\ \A y : In(y, wakeup_queue') <=> In(y, wakeup_queue) \/ In(y, q)
    BY <2>1, <2>2, <2>3, <2>4, InConcat
  <2> QED BY <1>5, <1>6, <2>2, <2>5
<1>10. ~Woken(D)' /\ ~In(D, wakeup_queue)
  BY <1>1, <1>2, <1>3, <1>9 DEF Scheduled, Woken
<1>11. \A x \in Co : Woken(x)' <=> Woken(x) \/ Closing(x)
  BY <1>2, <1>3, <1>9 DEF Woken
<1>12. \A x \in Co : (Opening(x)' <=> Opening(x)) /\ (Closing(x)' <=> Closing(x))
  BY <1>2 DEF Opening, Closing
<1>13. Types'
  BY <1>1, <1>2, <1>9 DEF Types
<1>14. Scheduled'
  BY <1>1, <1>2, <1>3, <1>9, <1>10 DEF Scheduled, Woken, Closing
<1>15. Connects'
  <2>1. connecting # <<>> => \A x \in Co : In(x, Tail(connecting)) =>
          pc[x] = "connwait" /\ ~In(x, wakeup_queue')
    BY <1>1, <1>9 DEF Connects, Closing
  <2>2. \A x \in Co : Opening(x) => Silent(fd[x])' /\ (Settled(fd[x]) => Settled(fd[x])')
    BY <1>1, <1>2 DEF Connects, Silent, Settled
  <2> QED BY <1>1, <1>2, <1>12, <2>1, <2>2 DEF Connects, Opening
<1>16. Requests'
  BY <1>1, <1>2, <1>4, <1>11, <1>12 DEF Requests, Closing
<1>17. Reading'
  BY <1>1, <1>2, <1>12 DEF Reading, Settled
<1>18. Closes'
  BY <1>1, <1>2, <1>10, <1>11, <1>12 DEF Closes, ClosesFirst, Closing
<1>19. Network'
  BY <1>1, <1>2, NetworkKept
<1>20. Ordered'
  BY <1>1, <1>2, <1>4, OrderKept DEF Inv, Read, Full
<1> QED BY <1>13, <1>14, <1>15, <1>16, <1>17, <1>18, <1>19, <1>20 DEF Inv

-----------------------------------------------------------------------------
(* The steps of the scheduler and of the socket thread. *)

LEMMA DispatchWakeupInv ==
  ASSUME Inv, dispatch_wakeup
  PROVE  Inv'
<1>1. Types /\ Scheduled /\ Connects /\ Requests /\ Reading /\ Closes /\ Network /\ Ordered
  BY DEF Inv
<1> DEFINE x == Head(wakeup_queue)
<1>2. /\ running = Nil /\ wakeup_queue # <<>> /\ wakeup_queue' = Tail(wakeup_queue)
      /\ running' = IF Asleep(x) THEN x ELSE Nil
      /\ pc' = IF x \in Co /\ pc[x] = "connwait" THEN [pc EXCEPT ![x] = "recheck"] ELSE pc
      /\ UNCHANGED <<sock, request, wait_response, connecting, result, dispatch_thread, popped,
                      ticket, made, fd, connected, buffer, link, wire, mailbox>>
  BY DEF dispatch_wakeup, channel, dispatcher, sockets, network
<1>3. D # Nil /\ \A c \in Co : c # D /\ c # Nil
  BY ChannelAssumption
<1>4. /\ x \in Co \cup {D} /\ In(x, wakeup_queue)
      /\ wakeup_queue' \in Seq(Co \cup {D}) /\ Distinct(wakeup_queue')
      /\ \A y : In(y, wakeup_queue) <=> y = x \/ In(y, wakeup_queue')
      /\ ~In(x, wakeup_queue')
  <2>1. wakeup_queue \in Seq(Co \cup {D}) /\ Distinct(wakeup_queue)
    BY <1>1 DEF Types, Scheduled
  <2> QED BY <1>2, <2>1, InTail
<1>5. Asleep(x) /\ running' = x
  BY <1>1, <1>2, <1>3, <1>4 DEF Scheduled, Asleep
<1> HIDE DEF x
<1>6. \A c \in Co : pc'[c] = IF c = x /\ pc[c] = "connwait" THEN "recheck" ELSE pc[c]
  BY <1>1, <1>2 DEF Types
<1>7. Pend' = Pend
  BY <1>2 DEF Pend
<1>8. \A y \in Co \cup {D} : Woken(y)' <=> Woken(y)
  BY <1>2, <1>3, <1>4, <1>5 DEF Woken
<1>9. \A c \in Co : /\ Opening(c)' <=> Opening(c)
                    /\ Closing(c)' <=> Closing(c)
                    /\ pc'[c] # "recheck" => pc'[c] = pc[c]
                    /\ pc[c] # "connwait" => pc'[c] = pc[c]
  BY <1>6 DEF Opening, Closing
<1>10. Types'
  BY <1>1, <1>2, <1>4, <1>5, <1>6 DEF Types
<1>11. Scheduled'
  BY <1>1, <1>2, <1>3, <1>4, <1>5, <1>6, <1>8 DEF Scheduled, Asleep
<1>12. Connects'
  <2>1. connecting # <<>> => \A c \in Co : In(c, Tail(connecting)) =>
          pc'[c] = "connwait" /\ ~In(c, wakeup_queue')
    BY <1>1, <1>4, <1>6 DEF Connects
  <2>2. \A f \in Fd : Silent(f)' <=> Silent(f)
    BY <1>2 DEF Silent
  <2>3. \A f \in Fd : Settled(f)' <=> Settled(f)
    BY <1>2 DEF Settled
  <2> QED BY <1>1, <1>2, <1>9, <2>1, <2>2, <2>3 DEF Connects, Opening
<1>13. Requests'
  <2>1. \A c \in Co : pc[c] \in {"wait", "yield"} => pc'[c] = pc[c]
    BY <1>6
  <2> QED BY <1>1, <1>2, <1>7, <1>8, <1>9, <2>1 DEF Requests
<1>14. Reading'
  BY <1>1, <1>2, <1>8, <1>9 DEF Reading, Settled
<1>15. Closes'
  BY <1>1, <1>2, <1>8, <1>9 DEF Closes, ClosesFirst
<1>16. Network'
  BY <1>1, <1>2, NetworkKept
<1>17. Ordered'
  BY <1>1, <1>2, <1>7, OrderKept DEF Inv, Read, Full
<1> QED BY <1>10, <1>11, <1>12, <1>13, <1>14, <1>15, <1>16, <1>17 DEF Inv

(* The socket thread posts a message m about f, with the first n answers   *)
(* on its wire.                                                            *)
LEMMA PostInv ==
  ASSUME Inv, NEW f \in Fd, NEW m \in Message, NEW n \in 0..Len(wire[f]),
         m.fd = f, m.answers = SubSeq(wire[f], 1, n), n # 0 => m.type = "data",
         mailbox' = Append(mailbox, m),
         wire' = [wire EXCEPT ![f] = SubSeq(wire[f], n + 1, Len(wire[f]))],
         NEW to \in {"up", "eof", "down"}, link' = [link EXCEPT ![f] = to],
         link[f] # "none",
         m.type = "connect" <=> link[f] = "connecting" /\ to = "up",
         to = "up" => link[f] \in {"connecting", "up"},
         to # "up" => m.type \in {"close", "error"},
         UNCHANGED <<sock, request, wait_response, connecting, result, dispatch_thread, popped, pc,
                     ticket, made, fd, running, wakeup_queue, connected, buffer>>
  PROVE  Inv'
<1>1. Types /\ Scheduled /\ Connects /\ Requests /\ Reading /\ Closes /\ Network /\ Ordered
  BY DEF Inv
<1>2. mailbox \in Seq(Message) /\ wire[f] \in Seq(Nat) /\ Len(wire[f]) \in Nat /\ n \in Nat
  BY <1>1 DEF Types
<1>3. /\ mailbox' \in Seq(Message)
      /\ \A g : Some(mailbox', g) <=> Some(mailbox, g) \/ g = f
      /\ \A g : Connect(mailbox', g) <=> Connect(mailbox, g) \/ (g = f /\ m.type = "connect")
      /\ \A g : Ended(mailbox', g) <=>
                  Ended(mailbox, g) \/ (g = f /\ m.type \in {"close", "error"})
      /\ \A g : NoAnswers(mailbox', g) <=>
                  NoAnswers(mailbox, g) /\ (g = f => m.answers = <<>>)
      /\ DataAnswers(mailbox) /\ (m.answers # <<>> => m.type = "data") => DataAnswers(mailbox')
      /\ ConnectFirst(mailbox) /\ (m.type = "connect" => ~Some(mailbox, f)) => ConnectFirst(mailbox')
      /\ \A g, h : Ahead(mailbox, g, h) => Ahead(mailbox', g, h)
  BY <1>2, MailAppend
<1>4. m.answers = <<>> <=> n = 0
  <2>1. Len(SubSeq(wire[f], 1, n)) = n
    BY <1>2
  <2>2. n = 0 => SubSeq(wire[f], 1, n) = <<>>
    BY <1>2
  <2>3. Len(<<>>) = 0
    OBVIOUS
  <2> DEFINE s == SubSeq(wire[f], 1, n)
  <2>4. m.answers = s /\ Len(s) = n /\ (n = 0 => s = <<>>)
    BY <2>1, <2>2
  <2> HIDE DEF s
  <2> QED BY <2>3, <2>4
<1>5. /\ link'[f] = to /\ \A g \in Fd : g # f => link'[g] = link[g]
      /\ link' \in [Fd -> {"none", "connecting", "up", "eof", "down"}]
  BY <1>1 DEF Types
<1>6. /\ wire'[f] = SubSeq(wire[f], n + 1, Len(wire[f])) /\ wire'[f] \in Seq(Nat)
      /\ \A g \in Fd : g # f => wire'[g] = wire[g]
      /\ wire' \in [Fd -> Seq(Nat)]
  <2>1. SubSeq(wire[f], n + 1, Len(wire[f])) \in Seq(Nat)
    <3>1. \A i \in (n + 1)..Len(wire[f]) : i \in 1..Len(wire[f])
      BY <1>2
    <3>2. \A i \in (n + 1)..Len(wire[f]) : wire[f][i] \in Nat
      <4>1. \A i \in 1..Len(wire[f]) : wire[f][i] \in Nat
        BY <1>2, ElementOfSeq
      <4> QED BY <3>1, <4>1
    <3> QED BY <1>2, <3>2
  <2> QED BY <1>1, <2>1 DEF Types
<1>7. wire[f] = <<>> => wire'[f] = <<>> /\ n = 0
  <2>1. wire[f] = <<>> => n = 0
    BY <1>2
  <2> QED BY <1>6, <2>1
<1>8. \A g \in Fd : Silent(g) => Silent(g)'
  BY <1>3, <1>4, <1>6, <1>7 DEF Silent
<1>9. \A g \in Fd : Settled(g) => Settled(g)'
  BY <1>3, <1>5 DEF Settled
<1>10. \A x : Woken(x)' <=> Woken(x)
  BY DEF Woken
<1>11. \A c : (Opening(c)' <=> Opening(c)) /\ (Closing(c)' <=> Closing(c))
  BY DEF Opening, Closing
<1>12. Pend' = Pend
  BY DEF Pend
<1>13. Types'
  BY <1>1, <1>3, <1>5, <1>6 DEF Types
<1>14. Scheduled'
  BY <1>1, <1>10 DEF Scheduled
<1>15. Connects'
  <2>1. \A c \in Co : Opening(c) =>
          sock = 0 /\ fd[c] \in Fd /\ link[fd[c]] # "none" /\ Silent(fd[c])
    BY <1>1 DEF Connects
  <2>2. \A c \in Co : Opening(c) => link'[fd[c]] # "none" /\ Silent(fd[c])'
    BY <1>5, <1>8, <2>1
  <2>3. \A c \in Co : pc[c] \in {"yield", "start"} => Settled(fd[c])'
    BY <1>1, <1>9, <2>1 DEF Connects, Opening
  <2> QED BY <1>1, <1>11, <2>1, <2>2, <2>3 DEF Connects
<1>16. Requests'
  BY <1>1, <1>10, <1>11, <1>12 DEF Requests
<1>17. Reading'
  <2>1. sock # 0 => sock \in Fd
    BY <1>1 DEF Types, Fd
  <2> QED BY <1>1, <1>9, <1>10, <1>11, <2>1 DEF Reading
<1>18. Closes'
  <2>1. \A c \in Co : ClosesFirst(c) => ClosesFirst(c)'
    BY <1>3, <1>5, <1>10, <1>11 DEF ClosesFirst
  <2> QED BY <1>1, <1>11, <2>1 DEF Closes
<1>19. Network'
  <2>1. link[f] = "connecting" => ~Some(mailbox, f) /\ ~connected[f]
    BY <1>1 DEF Network
  <2>2. \A g \in Fd : link'[g] \in {"none", "connecting"} =>
          ~Some(mailbox', g) /\ wire'[g] = <<>> /\ buffer'[g] = <<>> /\ ~connected'[g]
    BY <1>1, <1>3, <1>5, <1>6 DEF Network
  <2>3. ConnectFirst(mailbox') /\ DataAnswers(mailbox')
    BY <1>1, <1>3, <1>4, <2>1 DEF Network
  <2>4. \A g \in Fd : connected'[g] => ~Connect(mailbox', g)
    BY <1>1, <1>3, <2>1 DEF Network
  <2>5. \A g \in Fd : link'[g] \in {"eof", "down"} /\ ~Ended(mailbox', g) =>
          ~connected'[g] /\ ~Connect(mailbox', g)
    BY <1>1, <1>3, <1>5 DEF Network
  <2> QED BY <2>2, <2>3, <2>4, <2>5 DEF Network
<1>20. Ordered'
  <2>1. SUFFICES ASSUME NEW g \in Fd, Read(g)'
                 PROVE  InOrder(g, mailbox', buffer'[g], wire'[g], Pend', ticket', Full(g)')
    BY DEF Ordered
  <2>2. InOrder(g, mailbox, buffer[g], wire[g], Pend, ticket, Full(g))
    BY <1>1, <2>1 DEF Ordered, Read
  <2>3. Traffic(g, mailbox, buffer[g], wire[g], Pend, ticket)
    BY <1>1, PendFacts DEF Types, Traffic
  <2>4. Full(g)' => Full(g)
    <3>1. sock = g => Settled(g)
      BY <1>1 DEF Reading, Fd
    <3> QED BY <1>5, <3>1 DEF Full, Settled
  <2>5. PICK old \in BOOLEAN : old <=> Full(g)
    OBVIOUS
  <2>6. PICK new \in BOOLEAN : new <=> Full(g)'
    OBVIOUS
  <2>7. InOrder(g, mailbox, buffer[g], wire[g], Pend, ticket, old)
    BY <2>2, <2>5 DEF InOrder, InOrderBy
  <2>8. new => old
    BY <2>4, <2>5, <2>6
  <2>9. CASE g = f
    <3>1. InOrder(f, Append(mailbox, m), buffer[f], SubSeq(wire[f], n + 1, Len(wire[f])), Pend,
                  ticket, new)
      <4> HIDE DEF Pend
      <4> QED BY <2>3, <2>7, <2>8, <2>9, OrderPost
    <3>2. InOrder(g, mailbox', buffer'[g], wire'[g], Pend', ticket', new)
      BY <1>6, <1>12, <2>9, <3>1
    <3> QED BY <2>6, <3>2 DEF InOrder, InOrderBy
  <2>10. CASE g # f
    <3>1. wire[g] \in Seq(Nat) /\ 0 \in 0..Len(wire[g])
      BY <1>1 DEF Types
    <3>2. InOrder(g, Append(mailbox, m), buffer[g], SubSeq(wire[g], 0 + 1, Len(wire[g])), Pend,
                  ticket, new)
      <4> HIDE DEF Pend
      <4> QED BY <2>3, <2>7, <2>8, <2>10, <3>1, OrderPost
    <3>3. SubSeq(wire[g], 0 + 1, Len(wire[g])) = wire[g]
      BY <3>1
    <3>4. InOrder(g, mailbox', buffer'[g], wire'[g], Pend', ticket', new)
      BY <1>6, <1>12, <2>10, <3>2, <3>3
    <3> QED BY <2>6, <3>4 DEF InOrder, InOrderBy
  <2> QED BY <2>9, <2>10
<1> QED BY <1>13, <1>14, <1>15, <1>16, <1>17, <1>18, <1>19, <1>20 DEF Inv

LEMMA EnvironmentInv ==
  ASSUME Inv, NEW f \in Fd, Environment(f) \/ Part(f) \/ Break(f)
  PROVE  Inv'
<1>1. Types
  BY DEF Inv
<1>2. UNCHANGED <<sock, request, wait_response, connecting, result, dispatch_thread, popped, pc,
               ticket, made, fd, running, wakeup_queue, connected, buffer>>
  BY DEF Environment, Part, Break, channel, dispatcher, callers, sockets
<1>3. wire[f] \in Seq(Nat) /\ wire \in [Fd -> Seq(Nat)] /\ link \in [Fd -> {"none", "connecting", "up", "eof", "down"}]
  BY <1>1 DEF Types
<1>4. /\ 0 \in 0..Len(wire[f]) /\ SubSeq(wire[f], 1, 0) = <<>>
      /\ SubSeq(wire[f], 0 + 1, Len(wire[f])) = wire[f]
      /\ wire = [wire EXCEPT ![f] = wire[f]]
  BY <1>3
<1>5. ASSUME NEW type \in {"connect", "data", "close", "error"}, NEW to \in {"up", "eof", "down"},
             link' = [link EXCEPT ![f] = to], Post(f, type, <<>>), wire' = wire,
             link[f] # "none",
             type = "connect" <=> link[f] = "connecting" /\ to = "up",
             to = "up" => link[f] \in {"connecting", "up"},
             to # "up" => type \in {"close", "error"}
      PROVE  Inv'
  <2> DEFINE m == [type |-> type, fd |-> f, answers |-> <<>>]
  <2>1. m \in Message /\ m.fd = f /\ m.type = type /\ m.answers = <<>>
    BY DEF Message
  <2>2. mailbox' = Append(mailbox, m)
    BY <1>5 DEF Post
  <2>3. wire' = [wire EXCEPT ![f] = SubSeq(wire[f], 0 + 1, Len(wire[f]))]
    BY <1>4, <1>5
  <2>4. m.answers = SubSeq(wire[f], 1, 0)
    BY <1>4, <2>1
  <2> HIDE DEF m
  <2> QED BY <1>2, <1>4, <1>5, <2>1, <2>2, <2>3, <2>4, PostInv
<1>6. ASSUME NEW n \in 1..Len(wire[f]), link[f] = "up", link' = link,
             Post(f, "data", SubSeq(wire[f], 1, n)),
             wire' = [wire EXCEPT ![f] = SubSeq(wire[f], n + 1, Len(wire[f]))]
      PROVE  Inv'
  <2> DEFINE m == [type |-> "data", fd |-> f, answers |-> SubSeq(wire[f], 1, n)]
  <2>1. n \in 0..Len(wire[f]) /\ n # 0
    BY <1>3
  <2>2. SubSeq(wire[f], 1, n) \in Seq(Nat)
    <3>1. \A i \in 1..n : wire[f][i] \in Nat
      BY <1>3, <2>1
    <3> QED BY <1>3, <3>1
  <2>3. m \in Message /\ m.fd = f /\ m.type = "data" /\ m.answers = SubSeq(wire[f], 1, n)
    BY <2>2 DEF Message
  <2>4. mailbox' = Append(mailbox, m)
    BY <1>6 DEF Post
  <2>5. link' = [link EXCEPT ![f] = "up"]
    BY <1>3, <1>6
  <2> HIDE DEF m
  <2> QED BY <1>2, <1>6, <2>1, <2>3, <2>4, <2>5, PostInv
<1>7. CASE Environment(f)
  <2>1. \/ Becomes(f, {"connecting"}, "up") /\ Post(f, "connect", <<>>) /\ wire' = wire
        \/ /\ link[f] = "up" /\ link' = link
           /\ \E n \in 1..Len(wire[f]) :
                /\ Post(f, "data", SubSeq(wire[f], 1, n))
                /\ wire' = [wire EXCEPT ![f] = SubSeq(wire[f], n + 1, Len(wire[f]))]
    BY <1>7 DEF Environment
  <2> QED BY <1>5, <1>6, <2>1 DEF Becomes
<1>8. CASE Break(f)
  <2>1. wire' = wire
    BY <1>8 DEF Break
  <2>2. \/ Becomes(f, {"up"}, "eof") /\ Post(f, "close", <<>>)
        \/ Becomes(f, {"connecting", "up", "eof"}, "down") /\ Post(f, "error", <<>>)
    BY <1>8 DEF Break
  <2> QED BY <1>5, <2>1, <2>2 DEF Becomes
<1>9. CASE Part(f)
  <2>1. link[f] = "up" /\ Post(f, "data", <<>>) /\ wire' = wire /\ link' = link
    BY <1>9 DEF Part, network
  <2>2. link' = [link EXCEPT ![f] = "up"]
    BY <1>3, <2>1
  <2> QED BY <1>5, <2>1, <2>2
<1> QED BY <1>7, <1>8, <1>9

(* At most one sleeps on a socket. *)
LEMMA OnSocketFacts ==
  ASSUME Inv, NEW f \in Fd
  PROVE  /\ OnSocket(f) \in SUBSET (Co \cup {D})
         /\ \A x, y \in OnSocket(f) : x = y
         /\ D \in OnSocket(f) <=> dispatch_thread = "read" /\ fd[D] = f
         /\ \A c \in Co : c \in OnSocket(f) =>
              pc[c] \in {"open", "closing"} /\ fd[c] = f
         /\ \A c \in Co : pc[c] \in {"open", "closing"} /\ fd[c] = f =>
              c \in OnSocket(f) \/ D \in OnSocket(f)
<1>1. Connects /\ Closes
  BY DEF Inv
<1>2. \A c \in Co : c # D
  BY ChannelAssumption
<1> DEFINE cs == {c \in Co : pc[c] \in {"open", "closing"} /\ fd[c] = f}
<1>3. OnSocket(f) = IF dispatch_thread = "read" /\ fd[D] = f THEN {D} ELSE cs
  BY DEF OnSocket
<1>4. \A x, y \in cs : x = y
  <2>1. SUFFICES ASSUME NEW x \in cs, NEW y \in cs PROVE x = y
    OBVIOUS
  <2>2. CASE pc[x] = "open" /\ pc[y] = "open"
    BY <1>1, <2>1, <2>2 DEF Connects, Opening
  <2>3. CASE Closing(x)
    BY <1>1, <2>1, <2>3 DEF Closes, ClosesFirst, Closing
  <2>4. CASE Closing(y)
    BY <1>1, <2>1, <2>4 DEF Closes, ClosesFirst, Closing
  <2> QED BY <2>1, <2>2, <2>3, <2>4 DEF Closing
<1> QED BY <1>2, <1>3, <1>4

LEMMA SocketMessageInv ==
  ASSUME Inv, socket_message
  PROVE  Inv'
<1>1. Types /\ Scheduled /\ Connects /\ Requests /\ Reading /\ Closes /\ Network /\ Ordered
  BY DEF Inv
<1> DEFINE m == Head(mailbox)
           f == m.fd
           W == IF m.type = "data" THEN OnSocket(f) \cap {D} ELSE OnSocket(f)
<1>2. /\ running = Nil /\ wakeup_queue = <<>> /\ dispatch_thread # "forked"
      /\ mailbox # <<>> /\ mailbox' = Tail(mailbox)
      /\ connected' = [connected EXCEPT ![f] = CASE m.type = "connect" -> TRUE
                                                [] m.type = "data" -> connected[f]
                                                [] OTHER -> FALSE]
      /\ buffer' = [buffer EXCEPT ![f] = buffer[f] \o m.answers]
      /\ sock' = IF m.type = "close" /\ wait_response /\ sock = f THEN 0 ELSE sock
      /\ Wake(m)
      /\ UNCHANGED <<request, wait_response, connecting, result, dispatch_thread, popped, pc,
                      ticket, made, fd, running, link, wire>>
  BY DEF socket_message, Quiet, dispatcher, callers, network
<1>3. D # Nil /\ \A c \in Co : c # D /\ c # Nil
  BY ChannelAssumption
<1>4. /\ m \in Message /\ f \in Fd /\ m.answers \in Seq(Nat)
      /\ m.type \in {"connect", "data", "close", "error"}
      /\ mailbox' \in Seq(Message)
  <2>1. mailbox \in Seq(Message)
    BY <1>1 DEF Types
  <2>2. m \in Message /\ mailbox' \in Seq(Message)
    BY <1>2, <2>1, MailTail
  <2> HIDE DEF m
  <2> QED BY <2>2 DEF Message
<1>5. /\ \A g : Some(mailbox, g) <=> f = g \/ Some(mailbox', g)
      /\ \A g : Connect(mailbox, g) <=> (f = g /\ m.type = "connect") \/ Connect(mailbox', g)
      /\ \A g : Ended(mailbox, g) <=>
                  (f = g /\ m.type \in {"close", "error"}) \/ Ended(mailbox', g)
      /\ \A g : NoAnswers(mailbox, g) =>
                  NoAnswers(mailbox', g) /\ (f = g => m.answers = <<>>)
      /\ DataAnswers(mailbox') /\ (m.answers # <<>> => m.type = "data")
      /\ ConnectFirst(mailbox') /\ ~Connect(mailbox', f)
      /\ \A g, h : Ahead(mailbox, g, h) =>
                     f # h /\ (f # g \/ m.type = "data" => Ahead(mailbox', g, h))
  <2>1. mailbox \in Seq(Message)
    BY <1>1 DEF Types
  <2>2. DataAnswers(mailbox) /\ ConnectFirst(mailbox)
    BY <1>1 DEF Network
  <2> QED BY <1>2, <2>1, <2>2, MailTail
<1>6. /\ wakeup_queue' \in Seq(Co \cup {D}) /\ Distinct(wakeup_queue')
      /\ \A y : In(y, wakeup_queue') <=> y \in W
  <2>1. PICK q \in SetToSeqs(W) : wakeup_queue' = q
    BY <1>2 DEF Wake
  <2> HIDE DEF m, f
  <2>2. OnSocket(f) \in SUBSET (Co \cup {D}) /\ \A x, y \in OnSocket(f) : x = y
    BY <1>4, OnSocketFacts
  <2>3. W \in SUBSET (Co \cup {D}) /\ \A x, y \in W : x = y
    BY <2>2
  <2> HIDE DEF W
  <2> QED BY <2>1, <2>3, OneInOrder
<1>7. /\ D \in W <=> dispatch_thread = "read" /\ fd[D] = f
      /\ \A c \in Co : c \in W => pc[c] \in {"open", "closing"} /\ fd[c] = f
      /\ \A c \in Co : pc[c] \in {"open", "closing"} /\ fd[c] = f /\ m.type # "data" =>
           c \in W \/ D \in W
      /\ \A x, y \in W : x = y
  <2> HIDE DEF m, f
  <2> QED BY <1>4, OnSocketFacts
<1>8. /\ buffer' \in [Fd -> Seq(Nat)] /\ buffer'[f] = buffer[f] \o m.answers
      /\ \A g \in Fd : g # f => buffer'[g] = buffer[g]
      /\ buffer[f] \in Seq(Nat)
  <2> HIDE DEF m, f
  <2>1. buffer[f] \in Seq(Nat) /\ buffer \in [Fd -> Seq(Nat)]
    BY <1>1, <1>4 DEF Types
  <2>2. buffer[f] \o m.answers \in Seq(Nat)
    BY <1>4, <2>1
  <2> QED BY <1>2, <1>4, <2>1, <2>2
<1>9. /\ connected' \in [Fd -> BOOLEAN]
      /\ \A g \in Fd : g # f => connected'[g] = connected[g]
      /\ m.type = "data" => connected'[f] = connected[f]
      /\ m.type \in {"close", "error"} => ~connected'[f]
  <2> HIDE DEF m, f
  <2>1. connected \in [Fd -> BOOLEAN]
    BY <1>1 DEF Types
  <2>2. CASE m.type = "connect"
    <3>1. connected' = [connected EXCEPT ![f] = TRUE]
      BY <1>2, <2>2
    <3> QED BY <1>4, <2>1, <2>2, <3>1
  <2>3. CASE m.type = "data"
    <3>1. connected' = [connected EXCEPT ![f] = connected[f]]
      BY <1>2, <2>3
    <3> QED BY <1>4, <2>1, <2>3, <3>1
  <2>4. CASE m.type \in {"close", "error"}
    <3>1. connected' = [connected EXCEPT ![f] = FALSE]
      BY <1>2, <2>4
    <3> QED BY <1>4, <2>1, <2>4, <3>1
  <2> QED BY <1>4, <2>2, <2>3, <2>4
<1> HIDE DEF m, f, W
<1>10. \A x \in Co \cup {D} : ~Woken(x) /\ (Woken(x)' <=> x \in W)
  <2>1. \A y : ~In(y, <<>>)
    BY InOne
  <2> QED BY <1>2, <1>3, <1>6, <2>1 DEF Woken
<1>11. /\ dispatch_thread \in {"none", "pop", "read", "dead", "lost"}
       /\ \A c \in Co : pc[c] \in {"idle", "connwait", "open", "yield", "wait", "closing"}
       /\ \A c \in Co : result[c] = Nil
  BY <1>1, <1>2, <1>3, <1>10 DEF Types, Scheduled, Requests
<1>12. /\ sock' \in {0, sock} /\ (dispatch_thread # "pop" => sock' = sock)
  BY <1>1, <1>2 DEF Scheduled
<1>13. \A c : (Opening(c)' <=> Opening(c)) /\ (Closing(c)' <=> Closing(c))
  BY <1>2 DEF Opening, Closing
<1>14. Pend' = Pend
  BY <1>2 DEF Pend
<1>15. \A g \in Fd : Settled(g) => Settled(g)' /\ (g = f => m.type # "connect")
  BY <1>2, <1>5 DEF Settled
<1>16. Types'
  <2>1. sock' \in 0..MaxConn
    BY <1>1, <1>12, ChannelAssumption DEF Types
  <2> QED BY <1>1, <1>2, <1>4, <1>6, <1>8, <1>9, <2>1 DEF Types
<1>17. Scheduled'
  <2>1. \A c \in Co : In(c, wakeup_queue') => pc[c] \in {"open", "closing"}
    BY <1>6, <1>7
  <2>2. In(D, wakeup_queue') => dispatch_thread = "read"
    BY <1>6, <1>7
  <2>3. wait_response <=> dispatch_thread = "pop"
    BY <1>1, <1>10 DEF Scheduled
  <2>4. Woken(D)' => dispatch_thread = "read"
    BY <1>7, <1>10
  <2> QED BY <1>1, <1>2, <1>3, <1>6, <1>11, <2>1, <2>2, <2>3, <2>4 DEF Scheduled
<1>18. Connects'
  <2>1. \A c \in Co : Opening(c) =>
          sock = 0 /\ fd[c] \in Fd /\ link[fd[c]] # "none" /\ Silent(fd[c])
    BY <1>1 DEF Connects
  <2>2. \A g \in Fd : Silent(g) => Silent(g)'
    <3>1. SUFFICES ASSUME NEW g \in Fd, Silent(g) PROVE Silent(g)'
      OBVIOUS
    <3>2. NoAnswers(mailbox', g) /\ wire'[g] = <<>>
      BY <1>2, <1>5, <3>1 DEF Silent
    <3>3. buffer'[g] = <<>>
      <4>1. CASE g # f
        BY <1>8, <3>1, <4>1 DEF Silent
      <4>2. CASE g = f
        <5>1. buffer[f] = <<>> /\ m.answers = <<>>
          BY <1>5, <3>1, <4>2 DEF Silent
        <5>2. <<>> \o <<>> = <<>>
          OBVIOUS
        <5> QED BY <1>8, <4>2, <5>1, <5>2
      <4> QED BY <4>1, <4>2
    <3> QED BY <3>2, <3>3 DEF Silent
  <2>3. \A c \in Co : Opening(c) => sock' = 0 /\ Silent(fd[c])'
    <3>1. fd' = fd
      BY <1>2
    <3> QED BY <1>12, <2>1, <2>2, <3>1 DEF Silent
  <2>4. \A c \in Co : pc[c] \in {"yield", "start"} => Settled(fd[c])'
    <3>1. fd' = fd
      BY <1>2
    <3> QED BY <1>1, <1>15, <2>1, <3>1 DEF Connects, Opening, Settled
  <2>5. connecting # <<>> => \A c \in Co : In(c, Tail(connecting)) =>
          pc[c] = "connwait" /\ ~In(c, wakeup_queue')
    BY <1>1, <1>6, <1>7 DEF Connects
  <2> QED BY <1>1, <1>2, <1>11, <1>13, <2>1, <2>3, <2>4, <2>5 DEF Connects
<1>19. Requests'
  <2>1. \A c \in Co : pc[c] = "wait" => ~Woken(c)'
    BY <1>7, <1>10
  <2>2. \A c \in Co : In(c, Pend) => pc[c] = "wait"
    BY <1>1 DEF Requests
  <2> QED BY <1>1, <1>2, <1>11, <1>13, <1>14, <2>1, <2>2 DEF Requests
<1>20. Reading'
  <2>1. sock' # 0 => dispatch_thread \notin {"none", "dead", "lost"} /\ Settled(sock)'
    <3>1. sock # 0 => dispatch_thread \notin {"none", "dead", "lost"} /\ Settled(sock) /\ sock \in Fd
      BY <1>1 DEF Reading, Types, Fd
    <3>2. sock # 0 => link'[sock] \in {"up", "eof", "down"} /\ ~Connect(mailbox', sock)
      BY <1>2, <1>5, <3>1 DEF Settled
    <3> QED BY <1>12, <3>1, <3>2 DEF Settled
  <2>2. ASSUME dispatch_thread = "read"
        PROVE  /\ fd[D] \in Fd /\ sock' \in {0, fd[D]} /\ Settled(fd[D])'
               /\ sock' = 0 => ~connected'[fd[D]] \/ \E c \in Co : Closing(c)'
    <3>1. /\ fd[D] \in Fd /\ sock \in {0, fd[D]} /\ Settled(fd[D]) /\ sock' = sock
          /\ sock = 0 => ~connected[fd[D]] \/ \E c \in Co : Closing(c)
      BY <1>1, <1>12, <2>2 DEF Reading
    <3>2. Settled(fd[D])' /\ (fd[D] = f => m.type # "connect")
      BY <1>2, <1>15, <3>1 DEF Settled
    <3>3. ~connected[fd[D]] => ~connected'[fd[D]]
      BY <1>4, <1>9, <3>1, <3>2
    <3> QED BY <1>13, <3>1, <3>2, <3>3
  <2> QED BY <1>2, <2>1, <2>2 DEF Reading
<1>21. Closes'
  <2>1. SUFFICES ASSUME NEW c \in Co, Closing(c) PROVE ClosesFirst(c)'
    BY <1>13 DEF Closes
  <2>2. ClosesFirst(c) /\ ~Woken(c) /\ ~Woken(D)
    BY <1>1, <1>10, <2>1 DEF Closes
  <2>3. Ended(mailbox, fd[c]) /\ \A d \in Co : pc[d] = "open" => Ahead(mailbox, fd[c], fd[d])
    BY <2>2 DEF ClosesFirst
  <2>4. \A d \in Co : pc[d] = "open" =>
          fd[d] # f /\ fd[d] # fd[c] /\ fd[d] \in Fd /\ ~connected[fd[d]]
    BY <1>1, <1>5, <2>2, <2>3 DEF ClosesFirst, Connects, Opening
  <2>5. \A d \in Co : pc[d] = "open" => ~connected'[fd[d]] /\ ~Woken(d)'
    BY <1>7, <1>9, <1>10, <2>4
  <2>6. dispatch_thread = "read" => fd[D] = fd[c] /\ ~(Woken(c)' /\ Woken(D)')
    <3>1. dispatch_thread = "read" => fd[D] = fd[c]
      BY <2>2 DEF ClosesFirst
    <3> QED BY <1>3, <1>7, <1>10, <3>1
  <2>7. \/ Woken(c)'
        \/ dispatch_thread = "read" /\ Woken(D)'
        \/ /\ Ended(mailbox', fd[c])
           /\ \A d \in Co : pc[d] = "open" => Ahead(mailbox', fd[c], fd[d])
    <3>1. CASE f = fd[c] /\ m.type # "data"
      BY <1>7, <1>10, <2>1, <3>1 DEF Closing
    <3>2. CASE f # fd[c] \/ m.type = "data"
      BY <1>5, <2>3, <3>2
    <3> QED BY <3>1, <3>2
  <2>8. sock' = 0 /\ fd[c] \in Fd /\ link[fd[c]] # "none"
    BY <1>12, <2>2 DEF ClosesFirst
  <2>9. /\ \A d \in Co : Closing(d) => d = c
        /\ \A d \in Co : pc[d] \notin {"yield", "start"}
    BY <2>2 DEF ClosesFirst
  <2> QED BY <1>2, <1>13, <2>4, <2>5, <2>6, <2>7, <2>8, <2>9 DEF ClosesFirst
<1>22. Network'
  <2>1. \A g \in Fd : link'[g] \in {"none", "connecting"} =>
          ~Some(mailbox', g) /\ wire'[g] = <<>> /\ buffer'[g] = <<>> /\ ~connected'[g]
    <3>1. \A g \in Fd : link[g] \in {"none", "connecting"} =>
            g # f /\ ~Some(mailbox', g) /\ wire[g] = <<>> /\ buffer[g] = <<>> /\ ~connected[g]
      BY <1>1, <1>5 DEF Network
    <3> QED BY <1>2, <1>8, <1>9, <3>1
  <2>2. \A g \in Fd : connected'[g] => ~Connect(mailbox', g)
    BY <1>1, <1>5, <1>9 DEF Network
  <2>3. \A g \in Fd : link'[g] \in {"eof", "down"} /\ ~Ended(mailbox', g) =>
          ~connected'[g] /\ ~Connect(mailbox', g)
    <3>1. SUFFICES ASSUME NEW g \in Fd, link[g] \in {"eof", "down"}, ~Ended(mailbox', g)
                   PROVE  ~connected'[g] /\ ~Connect(mailbox', g)
      BY <1>2
    <3>2. ~Ended(mailbox, g) => ~connected[g] /\ ~Connect(mailbox, g)
      BY <1>1, <3>1 DEF Network
    <3>3. CASE g # f
      BY <1>5, <1>9, <3>1, <3>2, <3>3
    <3>4. CASE g = f
      BY <1>4, <1>5, <1>9, <3>1, <3>2, <3>4
    <3> QED BY <3>3, <3>4
  <2> QED BY <1>5, <2>1, <2>2, <2>3 DEF Network
<1>23. Ordered'
  <2>1. SUFFICES ASSUME NEW g \in Fd, Read(g)'
                 PROVE  InOrder(g, mailbox', buffer'[g], wire'[g], Pend', ticket', Full(g)')
    BY DEF Ordered
  <2>2. g # 0
    BY DEF Fd
  <2>3. Read(g) /\ (Full(g)' => Full(g))
    BY <1>2, <1>12, <2>1, <2>2 DEF Read, Full
  <2>4. InOrder(g, mailbox, buffer[g], wire[g], Pend, ticket, Full(g))
    BY <1>1, <2>3 DEF Ordered
  <2>5. Traffic(g, mailbox, buffer[g], wire[g], Pend, ticket)
    BY <1>1, PendFacts DEF Types, Traffic
  <2>6. PICK old \in BOOLEAN : old <=> Full(g)
    OBVIOUS
  <2>7. PICK new \in BOOLEAN : new <=> Full(g)'
    OBVIOUS
  <2>8. InOrder(g, mailbox, buffer[g], wire[g], Pend, ticket, old)
    BY <2>4, <2>6 DEF InOrder, InOrderBy
  <2>9. new => old
    BY <2>3, <2>6, <2>7
  <2>10. InOrder(g, mailbox', buffer'[g], wire[g], Pend, ticket, old)
    <3>1. InOrder(g, Tail(mailbox),
                  IF Head(mailbox).fd = g THEN buffer[g] \o Head(mailbox).answers ELSE buffer[g],
                  wire[g], Pend, ticket, old)
      <4> HIDE DEF Pend
      <4> QED BY <1>2, <2>5, <2>8, OrderRead
    <3>2. buffer'[g] = IF f = g THEN buffer[g] \o m.answers ELSE buffer[g]
      BY <1>8
    <3> QED BY <1>2, <3>1, <3>2 DEF m, f
  <2>11. Traffic(g, mailbox', buffer'[g], wire[g], Pend, ticket)
    BY <1>4, <1>8, <2>5 DEF Traffic
  <2>12. InOrder(g, mailbox', buffer'[g], wire[g], Pend, ticket, new)
    <3> HIDE DEF Pend
    <3> QED BY <2>9, <2>10, <2>11, OrderTickets
  <2>13. InOrder(g, mailbox', buffer'[g], wire[g], Pend, ticket, Full(g)')
    BY <2>7, <2>12 DEF InOrder, InOrderBy
  <2> QED BY <1>2, <1>14, <2>13
<1> QED BY <1>16, <1>17, <1>18, <1>19, <1>20, <1>21, <1>22, <1>23 DEF Inv

LEMMA UnchangedInv ==
  ASSUME Inv, UNCHANGED vars
  PROVE  Inv'
<1>1. /\ UNCHANGED <<sock, request, wait_response, connecting, result, dispatch_thread, popped, pc,
                     ticket, made, fd, running, wakeup_queue>>
      /\ UNCHANGED <<connected, buffer, link, wire, mailbox>>
  BY DEF vars, channel, dispatcher, callers, sockets, network
<1>2. Pend' = Pend
  BY <1>1 DEF Pend
<1>3. \A x : /\ (Woken(x)' <=> Woken(x)) /\ (Opening(x)' <=> Opening(x))
            /\ (Closing(x)' <=> Closing(x)) /\ (Settled(x)' <=> Settled(x))
            /\ (Silent(x)' <=> Silent(x))
  BY <1>1 DEF Woken, Opening, Closing, Settled, Silent
<1>4. Types'
  BY <1>1 DEF Inv, Types
<1>5. Scheduled'
  BY <1>1, <1>3 DEF Inv, Scheduled
<1>6. Connects'
  BY <1>1 DEF Inv, Connects, Opening, Silent, Settled
<1>7. Requests'
  BY <1>1, <1>2, <1>3 DEF Inv, Requests
<1>8. Reading'
  BY <1>1, <1>3 DEF Inv, Reading, Settled
<1>9. Closes'
  BY <1>1, <1>3 DEF Inv, Closes, ClosesFirst
<1>10. Network'
  BY <1>1, NetworkKept DEF Inv
<1>11. Ordered'
  BY <1>1, <1>2, OrderKept DEF Read, Full
<1> QED BY <1>4, <1>5, <1>6, <1>7, <1>8, <1>9, <1>10, <1>11 DEF Inv

(* Every step keeps the invariant. *)
LEMMA NextInv ==
  ASSUME Inv, [Next]_vars
  PROVE  Inv'
<1>1. ASSUME NEW c \in Co, Caller(c) PROVE Inv'
  <2>1. CASE check_connection(c)
    BY <2>1, CheckInv
  <2>2. CASE wait_connect(c)
    BY <2>2, WaitConnectInv
  <2>3. CASE connect_once(c)
    BY <2>3, ConnectOnceInv
  <2>4. CASE opened(c)
    BY <2>4, OpenedStartInv, OpenedYieldInv
  <2>5. CASE not_opened(c)
    BY <2>5, NotOpenedInv
  <2>6. CASE start_dispatch(c)
    BY <2>6, StartDispatchInv
  <2>7. CASE connect_failed(c)
    BY <2>7, ConnectFailedInv
  <2>8. CASE write(c)
    BY <2>8, WriteInv
  <2>9. CASE sock_err(c)
    BY <2>9, SockErrInv
  <2>10. CASE sock_err_closed(c)
    BY <2>10, SockErrClosedInv
  <2>11. CASE answered(c)
    BY <2>11, AnsweredInv
  <2> QED BY <1>1, <2>1, <2>2, <2>3, <2>4, <2>5, <2>6, <2>7, <2>8, <2>9, <2>10, <2>11 DEF Caller
<1>2. ASSUME Dispatcher PROVE Inv'
  <2>1. CASE dispatch_function
    BY <2>1, DispatchDeadInv, DispatchFunctionInv
  <2>2. CASE dispatch_end
    BY <2>2, DispatchEndInv
  <2>3. CASE pop_wait
    BY <2>3, PopWaitInv
  <2>4. CASE pop_close
    BY <2>4, PopCloseInv
  <2>5. CASE pop_response
    BY <2>5, PopResponseInv
  <2>6. CASE get_closed
    BY <2>6, GetClosedInv
  <2>7. CASE get_response
    BY <2>7, GetAnswerInv, GetWaitInv
  <2>8. CASE read_response
    BY <2>8, ReadResponseInv
  <2>9. CASE read_closed
    BY <2>9, ReadClosedInv
  <2>10. CASE read_part
    BY <2>10, ReadPartInv
  <2> QED BY <1>2, <2>1, <2>2, <2>3, <2>4, <2>5, <2>6, <2>7, <2>8, <2>9, <2>10 DEF Dispatcher
<1>3. ASSUME NEW c \in Co, Request(c) PROVE Inv'
  BY <1>3, RequestInv
<1>4. ASSUME NEW c \in Co, yield_done(c) PROVE Inv'
  BY <1>4, YieldDoneInv
<1>5. CASE dispatch_wakeup
  BY <1>5, DispatchWakeupInv
<1>6. CASE socket_message
  BY <1>6, SocketMessageInv
<1>7. ASSUME NEW f \in Fd, Environment(f) \/ Part(f) \/ Break(f) PROVE Inv'
  BY <1>7, EnvironmentInv
<1>8. CASE UNCHANGED vars
  BY <1>8, UnchangedInv
<1> QED BY <1>1, <1>2, <1>3, <1>4, <1>5, <1>6, <1>7, <1>8 DEF Next

-----------------------------------------------------------------------------
(* What follows. *)

LEMMA InvAligned ==
  ASSUME Inv
  PROVE  Aligned
<1>1. Types /\ Requests /\ Reading /\ Ordered
  BY DEF Inv
<1>2. \A c \in Co : result[c] \in {Nil, Failed, ticket[c]}
  BY <1>1 DEF Requests
<1>3. ASSUME dispatch_thread = "read", buffer[fd[D]] # <<>>
      PROVE  Head(buffer[fd[D]]) = ticket[popped]
  <2>0. PICK f \in Fd : f = fd[D]
    BY <1>1, <1>3 DEF Reading
  <2>1. Read(f)
    BY <1>3, <2>0 DEF Read
  <2>2. InOrder(f, mailbox, buffer[f], wire[f], Pend, ticket, Full(f))
    BY <1>1, <2>1 DEF Ordered
  <2>3. Traffic(f, mailbox, buffer[f], wire[f], Pend, ticket)
    BY <1>1, <2>1, PendFacts DEF Types, Traffic
  <2>4. Head(buffer[f]) = ticket[Pend[1]]
    <3>1. buffer[f] # <<>>
      BY <1>3, <2>0
    <3>2. /\ Pend # <<>> /\ Pend[1] \in Co /\ Head(buffer[f]) = ticket[Pend[1]]
          /\ InOrder(f, mailbox, Tail(buffer[f]), wire[f], Tail(Pend), ticket, Full(f))
      <4> HIDE DEF Full, Pend
      <4> QED BY <2>2, <2>3, <3>1, OrderAnswer
    <3> QED BY <3>2
  <2>5. Pend[1] = popped
    BY <1>1, <1>3, PendFacts
  <2> QED BY <2>0, <2>4, <2>5
<1> QED BY <1>2, <1>3 DEF Aligned

LEMMA InvSocketsShared ==
  ASSUME Inv
  PROVE  SocketsShared
<1>1. Types /\ Connects /\ Reading /\ Closes
  BY DEF Inv
<1>2. \A c \in Co : pc[c] \in {"open", "yield", "start"} => sock = 0
  BY <1>1 DEF Connects, Opening
<1>3. ASSUME NEW f \in Fd
      PROVE  Cardinality({c \in Co : pc[c] \in {"open", "closing"} /\ fd[c] = f}) <= 1
  <2> DEFINE cs == {c \in Co : pc[c] \in {"open", "closing"} /\ fd[c] = f}
  <2>1. \A x, y \in cs : x = y
    <3>1. SUFFICES ASSUME NEW x \in cs, NEW y \in cs PROVE x = y
      OBVIOUS
    <3>2. CASE pc[x] = "open" /\ pc[y] = "open"
      BY <1>1, <3>1, <3>2 DEF Connects, Opening
    <3>3. CASE Closing(x)
      BY <1>1, <3>1, <3>3 DEF Closes, ClosesFirst, Closing
    <3>4. CASE Closing(y)
      BY <1>1, <3>1, <3>4 DEF Closes, ClosesFirst, Closing
    <3> QED BY <3>1, <3>2, <3>3, <3>4 DEF Closing
  <2> HIDE DEF cs
  <2>2. CASE cs = {}
    BY <2>2, FS_EmptySet DEF cs
  <2>3. CASE cs # {}
    <3>1. PICK x \in cs : cs = {x}
      BY <2>1, <2>3
    <3>2. Cardinality(cs) = 1
      BY <3>1, FS_Singleton
    <3> QED BY <3>2 DEF cs
  <2> QED BY <2>2, <2>3
<1>4. dispatch_thread = "read" => sock \in {0, fd[D]}
  BY <1>1 DEF Reading
<1> QED BY <1>2, <1>3, <1>4 DEF SocketsShared

(* The invariant of the channel holds for any number of coroutines,        *)
(* connections and requests (socketchannel.lua, socket.lua).               *)
THEOREM InvAlways == Spec => []Inv
<1>1. Inv /\ [Next]_vars => Inv'
  BY NextInv
<1> QED BY InitInv, <1>1, PTL DEF Spec

(* Every answer of redis goes to the request it is for: the result that a  *)
(* coroutine gets is the answer to its own request or the error of the     *)
(* socket, and so is what D reads next.  Neither a broken connection with  *)
(* answers on their way, nor a coroutine in socket.close that tells        *)
(* everyone (wakeup_all), nor a new connection shifts them against the     *)
(* requests (dispatch_by_order, pop_response, push_response).              *)
THEOREM AlignedAlways == Spec => []Aligned
BY InvAlways, InvAligned, PTL

(* The asserts of _connect_once, socket.close and suspend hold: nobody     *)
(* connects while the channel has a socket, at most one coroutine opens or *)
(* closes a socket, and D reads the socket of the channel or one that is   *)
(* given up.                                                               *)
THEOREM SocketsSharedAlways == Spec => []SocketsShared
BY InvAlways, InvSocketsShared, PTL

(* Whoever is in the wakeup queue sleeps, and is there once: skynet.wakeup *)
(* of push_response, wakeup_all, block_connect and socket.lua never wakes  *)
(* one who runs or has ended, so no wakeup is lost in dispatch_wakeup and  *)
(* none is left over for a later wait.                                     *)
THEOREM WakesSleepers ==
  Spec => [](Distinct(wakeup_queue) /\ \A x \in Co \cup {D} : In(x, wakeup_queue) => Asleep(x))
<1>1. Inv => Distinct(wakeup_queue) /\ \A x \in Co \cup {D} : In(x, wakeup_queue) => Asleep(x)
  BY ChannelAssumption DEF Inv, Scheduled, Asleep
<1> QED BY InvAlways, <1>1, PTL

(* Nothing repairs the channel: once the dispatch thread has died in       *)
(* dispatch_function, or is suspended on a socket that is not in           *)
(* socket_pool, __dispatch_thread stays set and the channel never has a    *)
(* socket again, whoever connects (connect_once waits for the thread).     *)
THEOREM StaysDown ==
  Spec => [][(dispatch_thread \in {"dead", "lost"}) =>
               dispatch_thread' = dispatch_thread /\ sock = 0 /\ sock' = 0]_vars
<1>1. ASSUME Inv, [Next]_vars, dispatch_thread \in {"dead", "lost"}
      PROVE  dispatch_thread' = dispatch_thread /\ sock = 0 /\ sock' = 0
  <2>1. Scheduled /\ Connects /\ Reading /\ D \notin Co /\ D # Nil
    BY <1>1, ChannelAssumption DEF Inv
  <2>2. sock = 0 /\ running # D
    BY <1>1, <2>1 DEF Scheduled, Reading
  <2>3. \A c \in Co : pc[c] # "start"
    BY <1>1, <2>1 DEF Connects
  <2>4. ASSUME NEW c \in Co, Caller(c) PROVE dispatch_thread' = dispatch_thread /\ sock' = 0
    BY <1>1, <2>2, <2>3, <2>4
       DEF Caller, check_connection, wait_connect, connect_once, opened, not_opened,
           start_dispatch, connect_failed, write, sock_err, sock_err_closed, answered,
           channel, dispatcher
  <2>5. ~Dispatcher
    BY <1>1, <2>2
       DEF Dispatcher, dispatch_function, dispatch_end, Popping, pop_wait, pop_close,
           pop_response, get_closed, get_response, read_response, read_part, read_closed
  <2>6. ASSUME NEW c \in Co, Request(c) \/ yield_done(c)
        PROVE  dispatch_thread' = dispatch_thread /\ sock' = 0
    BY <2>2, <2>6 DEF Request, yield_done, channel, dispatcher
  <2>7. ASSUME dispatch_wakeup \/ socket_message
        PROVE  dispatch_thread' = dispatch_thread /\ sock' = 0
    BY <2>2, <2>7 DEF dispatch_wakeup, socket_message, channel, dispatcher
  <2>8. ASSUME NEW f \in Fd, Environment(f) \/ Part(f) \/ Break(f)
        PROVE  dispatch_thread' = dispatch_thread /\ sock' = 0
    BY <2>2, <2>8 DEF Environment, Part, Break, channel, dispatcher
  <2>9. CASE UNCHANGED vars
    BY <2>2, <2>9 DEF vars, channel, dispatcher
  <2> QED BY <1>1, <2>2, <2>4, <2>5, <2>6, <2>7, <2>8, <2>9 DEF Next
<1>2. Inv /\ [Next]_vars =>
        [(dispatch_thread \in {"dead", "lost"}) =>
           dispatch_thread' = dispatch_thread /\ sock = 0 /\ sock' = 0]_vars
  BY <1>1
<1> QED BY InvAlways, <1>2, PTL DEF Spec
=============================================================================
