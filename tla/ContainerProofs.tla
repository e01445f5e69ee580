-------------------------- MODULE ContainerProofs --------------------------
(***************************************************************************)
(* The two containers that double when they are full, for every initial    *)
(* size and any number of doublings: the id map of the AOI engine          *)
(* (service_caoi.c) is a function of ids, the ring buffer of skynet_mq.c   *)
(* is a first-in first-out queue with an alarm that does not repeat itself.*)
(***************************************************************************)
EXTENDS IdMap, Mq, FiniteSetTheorems, SequenceTheorems, TLAPS

-----------------------------------------------------------------------------
(* Chains, as functions of the slots of a table of n: ids and nx give the  *)
(* fields id and next, r the place of an entry on its chain.               *)

Main(n, id) == id % n

Slots(n) == 0..(n - 1)
Taken(n, ids) == {s \in Slots(n) : ids[s] # -1}
Home(n, ids, s) == Main(n, ids[s])

Typed(n, ids, nx, r) ==
  /\ n \in Nat \ {0}
  /\ ids \in [Slots(n) -> Nat \cup {-1}]
  /\ nx \in [Slots(n) -> Slots(n) \cup {-1}]
  /\ r \in [Slots(n) -> Nat]

(* A free slot is on no chain, no id has two slots. *)
Single(n, ids, nx) ==
  /\ \A s \in Slots(n) : ids[s] = -1 => nx[s] = -1
  /\ \A s, t \in Taken(n, ids) : ids[s] = ids[t] => s = t

(* A chain begins in the main position of its entries. *)
Rooted(n, ids, r) ==
  \A s \in Taken(n, ids) :
    /\ Home(n, ids, s) \in Taken(n, ids)
    /\ Home(n, ids, Home(n, ids, s)) = Home(n, ids, s)
    /\ r[s] = 0 <=> s = Home(n, ids, s)

(* A link leads on, on the same chain. *)
Leads(n, ids, nx, r) ==
  \A s \in Taken(n, ids) :
    nx[s] # -1 => /\ nx[s] \in Taken(n, ids)
                  /\ Home(n, ids, nx[s]) = Home(n, ids, s)
                  /\ r[nx[s]] > r[s]

(* A link passes no entry by. *)
Joined(n, ids, nx, r) ==
  \A s, t \in Taken(n, ids) :
    Home(n, ids, s) = Home(n, ids, t) =>
      /\ r[s] < r[t] => nx[s] # -1 /\ r[nx[s]] <= r[t]
      /\ r[s] = r[t] => s = t

Linked(n, ids, nx, r) ==
  /\ Typed(n, ids, nx, r)
  /\ Single(n, ids, nx)
  /\ Rooted(n, ids, r)
  /\ Leads(n, ids, nx, r)
  /\ Joined(n, ids, nx, r)

LEMMA MainRange ==
  ASSUME NEW n \in Nat \ {0}, NEW id \in Nat
  PROVE  Main(n, id) \in Slots(n)
  BY DEF Main, Slots

(* Nobody's main position is s when no entry with that home is in s. *)
LEMMA NoneHome ==
  ASSUME NEW n, NEW ids, NEW r, Rooted(n, ids, r), NEW s,
         s \notin Taken(n, ids) \/ Home(n, ids, s) # s
  PROVE  \A t \in Taken(n, ids) : Home(n, ids, t) # s
  BY DEF Rooted

(* An entry has one predecessor. *)
LEMMA OneBefore ==
  ASSUME NEW n, NEW ids, NEW nx, NEW r, Linked(n, ids, nx, r),
         NEW a \in Taken(n, ids), NEW b \in Taken(n, ids), nx[a] = nx[b], nx[a] # -1
  PROVE  a = b
<1>1. Home(n, ids, a) = Home(n, ids, b) /\ r[nx[a]] > r[a] /\ r[nx[a]] > r[b]
  BY DEF Linked, Leads
<1>2. r[a] \in Nat /\ r[b] \in Nat /\ r[nx[a]] \in Nat
  BY DEF Linked, Leads, Typed, Taken
<1>3. ~(r[a] < r[b]) /\ ~(r[b] < r[a])
  BY <1>1, <1>2 DEF Linked, Joined
<1>4. r[a] = r[b]
  BY <1>2, <1>3
<1> QED BY <1>1, <1>4 DEF Linked, Joined

(* The main position of id is free. *)
LEMMA LinkFill ==
  ASSUME NEW n, NEW ids, NEW nx, NEW r, Linked(n, ids, nx, r),
         NEW id \in Nat, \A t \in Slots(n) : ids[t] # id,
         NEW s, s = Main(n, id), ids[s] = -1
  PROVE  Linked(n, [ids EXCEPT ![s] = id], nx, [r EXCEPT ![s] = 0])
<1> DEFINE ids2 == [ids EXCEPT ![s] = id]
           r2 == [r EXCEPT ![s] = 0]
<1>1. Typed(n, ids, nx, r) /\ s \in Slots(n)
  BY MainRange DEF Linked, Typed
<1>2. Typed(n, ids2, nx, r2)
  BY <1>1 DEF Typed
<1>3. /\ \A t \in Slots(n) : t # s => ids2[t] = ids[t] /\ r2[t] = r[t]
      /\ ids2[s] = id /\ r2[s] = 0
  BY <1>1 DEF Typed
<1>4. Taken(n, ids2) = Taken(n, ids) \cup {s} /\ s \notin Taken(n, ids)
  BY <1>1, <1>3 DEF Taken
<1> HIDE DEF ids2, r2
<1>5. /\ \A t \in Taken(n, ids) : Home(n, ids2, t) = Home(n, ids, t) /\ Home(n, ids, t) # s
      /\ Home(n, ids2, s) = s
  <2>1. \A t \in Taken(n, ids) : Home(n, ids, t) # s
    BY <1>4, NoneHome DEF Linked
  <2> QED BY <2>1, <1>3, <1>4 DEF Home, Taken
<1>6. nx[s] = -1 /\ \A t \in Taken(n, ids) : t \in Slots(n) /\ t # s
  BY <1>1, <1>4 DEF Linked, Single, Taken
<1>7. Single(n, ids2, nx)
  BY <1>1, <1>3, <1>4, <1>6 DEF Linked, Single, Taken
<1>8. Rooted(n, ids2, r2)
  <2>1. \A t \in Taken(n, ids) : t \in Slots(n) /\ Home(n, ids, t) \in Taken(n, ids)
    BY DEF Linked, Rooted, Taken
  <2> QED BY <2>1, <1>3, <1>4, <1>5 DEF Linked, Rooted
<1>9. Leads(n, ids2, nx, r2)
  BY <1>3, <1>4, <1>5, <1>6 DEF Linked, Leads
<1>10. Joined(n, ids2, nx, r2)
  <2> SUFFICES ASSUME NEW a \in Taken(n, ids2), NEW b \in Taken(n, ids2),
                      Home(n, ids2, a) = Home(n, ids2, b)
               PROVE  /\ r2[a] < r2[b] => nx[a] # -1 /\ r2[nx[a]] <= r2[b]
                      /\ r2[a] = r2[b] => a = b
    BY DEF Joined
  <2>1. CASE a = s \/ b = s
    <3>1. a = s /\ b = s
      BY <2>1, <1>4, <1>5
    <3> QED BY <3>1, <1>3
  <2>2. CASE a # s /\ b # s
    <3>1. a \in Taken(n, ids) /\ b \in Taken(n, ids) /\ Home(n, ids, a) = Home(n, ids, b)
      BY <2>2, <1>4, <1>5
    <3>2. r2[a] = r[a] /\ r2[b] = r[b]
      BY <3>1, <1>3, <1>6
    <3>3. nx[a] # -1 => r2[nx[a]] = r[nx[a]]
      BY <3>1, <1>3, <1>6 DEF Linked, Leads
    <3> QED BY <3>1, <3>2, <3>3 DEF Linked, Joined
  <2> QED BY <2>1, <2>2
<1> QED BY <1>2, <1>7, <1>8, <1>9, <1>10 DEF Linked, ids2, r2

(* The entry in the main position of id makes way. *)
LEMMA LinkEvict ==
  ASSUME NEW n, NEW ids, NEW nx, NEW r, Linked(n, ids, nx, r),
         NEW id \in Nat, \A t \in Slots(n) : ids[t] # id,
         NEW s, s = Main(n, id), s \in Taken(n, ids), Home(n, ids, s) # s,
         NEW last \in Taken(n, ids), nx[last] = s
  PROVE  Linked(n, [ids EXCEPT ![s] = id], [nx EXCEPT ![last] = nx[s], ![s] = -1],
                [r EXCEPT ![s] = 0])
<1> DEFINE ids2 == [ids EXCEPT ![s] = id]
           nx2 == [nx EXCEPT ![last] = nx[s], ![s] = -1]
           r2 == [r EXCEPT ![s] = 0]
           Rest == Taken(n, ids) \ {s}
<1>1. Typed(n, ids, nx, r) /\ s \in Slots(n) /\ last \in Slots(n) /\ s # -1
  BY DEF Linked, Typed, Taken, Slots
<1>2. Typed(n, ids2, nx2, r2)
  BY <1>1 DEF Typed
<1>a. r[s] > r[last] /\ Home(n, ids, last) = Home(n, ids, s) /\ last # s
  <2>1. r[s] > r[last] /\ Home(n, ids, last) = Home(n, ids, s)
    BY <1>1 DEF Linked, Leads
  <2> QED BY <2>1, <1>1 DEF Typed
<1>3. /\ \A t \in Slots(n) : t # s => ids2[t] = ids[t] /\ r2[t] = r[t]
      /\ \A t \in Slots(n) : t # s /\ t # last => nx2[t] = nx[t]
      /\ ids2[s] = id /\ r2[s] = 0 /\ nx2[s] = -1 /\ nx2[last] = nx[s]
  BY <1>1, <1>a DEF Typed
<1>4. /\ Taken(n, ids2) = Rest \cup {s}
      /\ \A t \in Rest : t \in Taken(n, ids) /\ t # s /\ t \in Slots(n)
      /\ last \in Rest
  BY <1>1, <1>3, <1>a DEF Taken
<1>b. \A t \in Slots(n) : r[t] \in Nat
  BY <1>1 DEF Typed
<1> HIDE DEF ids2, r2, nx2, Rest
<1>5. /\ \A t \in Rest : Home(n, ids2, t) = Home(n, ids, t)
      /\ \A t \in Taken(n, ids) : Home(n, ids, t) # s
      /\ Home(n, ids2, s) = s
  <2>1. \A t \in Taken(n, ids) : Home(n, ids, t) # s
    BY NoneHome DEF Linked
  <2> QED BY <2>1, <1>3, <1>4 DEF Home
<1>6. \A t \in Rest : t # last => nx[t] # s
  BY <1>1, <1>4, OneBefore
(* A link of the new chains and where it leads. *)
<1>c. \A t \in Rest : nx2[t] # -1 =>
         /\ nx2[t] \in Rest /\ Home(n, ids, nx2[t]) = Home(n, ids, t) /\ r[nx2[t]] > r[t]
  <2> SUFFICES ASSUME NEW t \in Rest, nx2[t] # -1
               PROVE  nx2[t] \in Rest /\ Home(n, ids, nx2[t]) = Home(n, ids, t) /\ r[nx2[t]] > r[t]
    OBVIOUS
  <2>1. CASE t = last
    <3>1. nx[s] \in Taken(n, ids) /\ Home(n, ids, nx[s]) = Home(n, ids, s) /\ r[nx[s]] > r[s]
      BY <2>1, <1>3 DEF Linked, Leads
    <3>2. nx[s] \in Slots(n) /\ nx[s] # s /\ r[nx[s]] > r[last]
      BY <3>1, <1>1, <1>a, <1>b DEF Taken
    <3> QED BY <2>1, <3>1, <3>2, <1>3, <1>a DEF Rest
  <2>2. CASE t # last
    <3>1. nx2[t] = nx[t] /\ nx[t] # s
      BY <2>2, <1>3, <1>4, <1>6
    <3> QED BY <3>1, <1>4 DEF Linked, Leads, Rest
  <2> QED BY <2>1, <2>2
<1>7. Single(n, ids2, nx2)
  <2>1. \A t \in Slots(n) : ids2[t] = -1 => nx2[t] = -1
    <3> SUFFICES ASSUME NEW t \in Slots(n), ids2[t] = -1 PROVE nx2[t] = -1
      OBVIOUS
    <3>1. t # s
      BY <1>3
    <3>2. ids[t] = -1 /\ t # last
      BY <3>1, <1>3 DEF Taken
    <3> QED BY <3>1, <3>2, <1>3 DEF Linked, Single
  <2>2. \A t \in Rest : ids2[t] = ids[t] /\ ids[t] # id
    BY <1>3, <1>4
  <2> QED BY <2>1, <2>2, <1>3, <1>4 DEF Linked, Single
<1>8. Rooted(n, ids2, r2)
  <2>1. \A t \in Rest : Home(n, ids, t) \in Rest
    BY <1>4, <1>5 DEF Linked, Rooted, Rest
  <2> QED BY <2>1, <1>3, <1>4, <1>5 DEF Linked, Rooted
<1>9. Leads(n, ids2, nx2, r2)
  BY <1>3, <1>4, <1>5, <1>c DEF Leads
<1>10. Joined(n, ids2, nx2, r2)
  <2> SUFFICES ASSUME NEW a \in Taken(n, ids2), NEW b \in Taken(n, ids2),
                      Home(n, ids2, a) = Home(n, ids2, b)
               PROVE  /\ r2[a] < r2[b] => nx2[a] # -1 /\ r2[nx2[a]] <= r2[b]
                      /\ r2[a] = r2[b] => a = b
    BY DEF Joined
  <2>1. CASE a = s \/ b = s
    <3>1. a = s /\ b = s
      BY <2>1, <1>4, <1>5
    <3> QED BY <3>1, <1>3
  <2>2. CASE a # s /\ b # s
    <3>1. a \in Rest /\ b \in Rest /\ Home(n, ids, a) = Home(n, ids, b)
      BY <2>2, <1>4, <1>5
    <3>2. r2[a] = r[a] /\ r2[b] = r[b] /\ (nx2[a] # -1 => r2[nx2[a]] = r[nx2[a]])
      BY <3>1, <1>3, <1>4, <1>c
    <3>3. /\ r[a] < r[b] => nx[a] # -1 /\ r[nx[a]] <= r[b]
          /\ r[a] = r[b] => a = b
      BY <3>1, <1>4 DEF Linked, Joined
    <3>4. CASE a # last
      <4>1. nx2[a] = nx[a]
        BY <3>1, <3>4, <1>3, <1>4
      <4> QED BY <4>1, <3>2, <3>3
    <3>5. CASE a = last
      <4>1. ASSUME r[a] < r[b] PROVE nx2[a] # -1 /\ r[nx2[a]] <= r[b]
        <5>1. r[s] <= r[b] /\ Home(n, ids, s) = Home(n, ids, b)
          BY <4>1, <3>1, <3>3, <3>5, <1>a
        <5>2. r[s] # r[b]
          BY <5>1, <3>1, <1>4 DEF Linked, Joined
        <5>3. r[s] < r[b]
          BY <5>1, <5>2, <3>1, <1>b, <1>1, <1>4
        <5> QED BY <5>1, <5>3, <3>1, <3>5, <1>3, <1>4 DEF Linked, Joined
      <4> QED BY <4>1, <3>2, <3>3
    <3> QED BY <3>4, <3>5
  <2> QED BY <2>1, <2>2
<1> QED BY <1>2, <1>7, <1>8, <1>9, <1>10 DEF Linked, ids2, r2, nx2

(* The places on the chains when slot f becomes the second of one. *)
Later(n, r, f) ==
  [t \in Slots(n) |-> IF t = f THEN 1 ELSE IF r[t] = 0 THEN 0 ELSE r[t] + 1]

(* A free slot takes the entry, second on the chain. *)
LEMMA LinkChain ==
  ASSUME NEW n, NEW ids, NEW nx, NEW r, Linked(n, ids, nx, r),
         NEW id \in Nat, \A t \in Slots(n) : ids[t] # id,
         NEW s, s = Main(n, id), s \in Taken(n, ids), Home(n, ids, s) = s,
         NEW f \in Slots(n), ids[f] = -1
  PROVE  Linked(n, [ids EXCEPT ![f] = id], [nx EXCEPT ![f] = nx[s], ![s] = f],
                Later(n, r, f))
<1> DEFINE ids2 == [ids EXCEPT ![f] = id]
           nx2 == [nx EXCEPT ![f] = nx[s], ![s] = f]
           r2 == [t \in Slots(n) |-> IF t = f THEN 1 ELSE IF r[t] = 0 THEN 0 ELSE r[t] + 1]
           Old == Taken(n, ids)
<1>1. Typed(n, ids, nx, r) /\ s \in Slots(n) /\ s # f /\ f # -1
  <2>1. Typed(n, ids, nx, r)
    BY DEF Linked
  <2>2. s \in Slots(n) /\ s # f
    BY DEF Taken
  <2>3. f # -1
    BY DEF Slots
  <2> QED BY <2>1, <2>2, <2>3
<1>b. \A t \in Slots(n) : r[t] \in Nat /\ r2[t] \in Nat
  BY <1>1 DEF Typed
<1>2. Typed(n, ids2, nx2, r2)
  BY <1>1, <1>b DEF Typed
<1>3. /\ \A t \in Slots(n) : t # f => ids2[t] = ids[t]
      /\ \A t \in Slots(n) : t # f => r2[t] = IF r[t] = 0 THEN 0 ELSE r[t] + 1
      /\ \A t \in Slots(n) : t # s /\ t # f => nx2[t] = nx[t]
      /\ ids2[f] = id /\ r2[f] = 1 /\ nx2[f] = nx[s] /\ nx2[s] = f
  BY <1>1 DEF Typed
<1>4. /\ Taken(n, ids2) = Old \cup {f}
      /\ \A t \in Old : t # f /\ t \in Slots(n)
      /\ f \notin Old
  BY <1>1, <1>3 DEF Taken
<1> HIDE DEF ids2, r2, nx2, Old
<1>5. /\ \A t \in Old : Home(n, ids2, t) = Home(n, ids, t)
      /\ Home(n, ids2, f) = s /\ Home(n, ids, s) = s /\ s \in Old
  BY <1>3, <1>4 DEF Home, Old
<1>6. r[s] = 0 /\ \A t \in Old : Home(n, ids, t) = s /\ t # s => r[t] > 0
  BY <1>1, <1>4, <1>5, <1>b DEF Linked, Rooted, Old
<1>d. /\ \A t \in Old : r2[t] = IF r[t] = 0 THEN 0 ELSE r[t] + 1
      /\ \A t \in Old : r[t] \in Nat
      /\ r2[f] = 1 /\ r2[s] = 0
  BY <1>3, <1>4, <1>5, <1>6, <1>b
<1>c. \A t \in Old : nx[t] # -1 =>
         /\ nx[t] \in Old /\ Home(n, ids, nx[t]) = Home(n, ids, t) /\ r[nx[t]] > r[t]
  BY DEF Linked, Leads, Old
<1>7. Single(n, ids2, nx2)
  <2>1. \A t \in Slots(n) : ids2[t] = -1 => nx2[t] = -1
    <3> SUFFICES ASSUME NEW t \in Slots(n), ids2[t] = -1 PROVE nx2[t] = -1
      OBVIOUS
    <3>1. t # f
      BY <1>3
    <3>2. ids[t] = -1 /\ t # s
      BY <3>1, <1>3 DEF Taken
    <3> QED BY <3>1, <3>2, <1>3 DEF Linked, Single
  <2>2. \A t \in Old : ids2[t] = ids[t] /\ ids[t] # id
    BY <1>3, <1>4
  <2> QED BY <2>1, <2>2, <1>3, <1>4 DEF Linked, Single, Old
<1>8. Rooted(n, ids2, r2)
  <2>1. \A t \in Old : /\ Home(n, ids, t) \in Old
                       /\ Home(n, ids, Home(n, ids, t)) = Home(n, ids, t)
                       /\ r[t] = 0 <=> t = Home(n, ids, t)
    BY DEF Linked, Rooted, Old
  <2>2. \A t \in Old : r2[t] = 0 <=> r[t] = 0
    BY <1>d
  <2> QED BY <2>1, <2>2, <1>1, <1>d, <1>4, <1>5 DEF Rooted
(* A link of the new chains and where it leads. *)
<1>e. \A t \in Taken(n, ids2) : nx2[t] # -1 =>
         /\ nx2[t] \in Taken(n, ids2) /\ Home(n, ids2, nx2[t]) = Home(n, ids2, t)
         /\ r2[nx2[t]] > r2[t]
  <2> SUFFICES ASSUME NEW t \in Taken(n, ids2), nx2[t] # -1
               PROVE  /\ nx2[t] \in Taken(n, ids2) /\ Home(n, ids2, nx2[t]) = Home(n, ids2, t)
                      /\ r2[nx2[t]] > r2[t]
    OBVIOUS
  <2>1. CASE t = f
    <3>1. nx[s] \in Old /\ Home(n, ids, nx[s]) = s /\ r[nx[s]] > r[s]
      BY <2>1, <1>3, <1>5, <1>c
    <3>2. r2[nx[s]] > 1
      BY <3>1, <1>d, <1>5, <1>6
    <3> QED BY <2>1, <3>1, <3>2, <1>3, <1>d, <1>4, <1>5
  <2>2. CASE t = s
    BY <2>2, <1>3, <1>d, <1>4, <1>5
  <2>3. CASE t # s /\ t # f
    <3>1. t \in Old /\ nx2[t] = nx[t]
      BY <2>3, <1>3, <1>4
    <3>2. nx[t] \in Old /\ Home(n, ids, nx[t]) = Home(n, ids, t) /\ r[nx[t]] > r[t]
      BY <3>1, <1>c
    <3>3. r2[nx[t]] > r2[t]
      BY <3>1, <3>2, <1>d
    <3> QED BY <3>1, <3>2, <3>3, <1>4, <1>5
  <2> QED BY <2>1, <2>2, <2>3
<1>9. Leads(n, ids2, nx2, r2)
  BY <1>e DEF Leads
<1>10. Joined(n, ids2, nx2, r2)
  <2> SUFFICES ASSUME NEW a \in Taken(n, ids2), NEW b \in Taken(n, ids2),
                      Home(n, ids2, a) = Home(n, ids2, b)
               PROVE  /\ r2[a] < r2[b] => nx2[a] # -1 /\ r2[nx2[a]] <= r2[b]
                      /\ r2[a] = r2[b] => a = b
    BY DEF Joined
  <2>0. \A x, y \in Old : Home(n, ids, x) = Home(n, ids, y) =>
          /\ r[x] < r[y] => nx[x] # -1 /\ r[nx[x]] <= r[y]
          /\ r[x] = r[y] => x = y
    BY DEF Linked, Joined, Old
  <2>1. CASE a = f /\ b = f
    BY <2>1, <1>d
  <2>2. CASE a = f /\ b # f
    <3>1. b \in Old /\ Home(n, ids, b) = s
      BY <2>2, <1>4, <1>5
    <3>2. CASE b = s
      BY <2>2, <3>2, <1>d, <1>1
    <3>3. CASE b # s
      <4>1. r[s] < r[b] /\ r2[b] = r[b] + 1 /\ r[b] > 0 /\ r[b] \in Nat
        BY <3>1, <3>3, <1>d, <1>6
      <4>2. nx[s] # -1 /\ r[nx[s]] <= r[b]
        BY <3>1, <4>1, <2>0, <1>5
      <4>3. nx[s] \in Old /\ r[nx[s]] > 0 /\ r[nx[s]] \in Nat
        BY <4>2, <1>c, <1>5, <1>6, <1>d
      <4>4. r2[nx[s]] = r[nx[s]] + 1
        BY <4>3, <1>d
      <4> QED BY <2>2, <4>1, <4>2, <4>3, <4>4, <1>3, <1>d
    <3> QED BY <3>2, <3>3
  <2>3. CASE a # f /\ b = f
    <3>1. a \in Old /\ Home(n, ids, a) = s
      BY <2>3, <1>4, <1>5
    <3>2. CASE a = s
      BY <2>3, <3>2, <1>3, <1>d, <1>1
    <3>3. CASE a # s
      <4>1. r2[a] = r[a] + 1 /\ r[a] > 0 /\ r[a] \in Nat
        BY <3>1, <3>3, <1>d, <1>6
      <4> QED BY <2>3, <4>1, <1>d
    <3> QED BY <3>2, <3>3
  <2>4. CASE a # f /\ b # f
    <3>1. a \in Old /\ b \in Old /\ Home(n, ids, a) = Home(n, ids, b)
      BY <2>4, <1>4, <1>5
    <3>2. /\ r[a] \in Nat /\ r[b] \in Nat
          /\ r2[a] = (IF r[a] = 0 THEN 0 ELSE r[a] + 1)
          /\ r2[b] = (IF r[b] = 0 THEN 0 ELSE r[b] + 1)
      BY <3>1, <1>d
    <3>3. /\ r[a] < r[b] => nx[a] # -1 /\ r[nx[a]] <= r[b]
          /\ r[a] = r[b] => a = b
      BY <3>1, <2>0
    <3>4. r2[a] = r2[b] => a = b
      BY <3>2, <3>3
    <3>5. ASSUME r2[a] < r2[b] PROVE nx2[a] # -1 /\ r2[nx2[a]] <= r2[b]
      <4>1. r[a] < r[b] /\ r2[b] > 1
        BY <3>2, <3>5
      <4>2. CASE a = s
        BY <4>1, <4>2, <1>1, <1>3, <1>d, <3>2
      <4>3. CASE a # s
        <5>1. nx2[a] = nx[a] /\ nx[a] # -1 /\ r[nx[a]] <= r[b]
          BY <4>1, <4>3, <3>1, <3>3, <1>3, <1>4
        <5>2. nx[a] \in Old /\ r[nx[a]] \in Nat
          BY <5>1, <3>1, <1>c, <1>d
        <5>3. r2[nx[a]] = (IF r[nx[a]] = 0 THEN 0 ELSE r[nx[a]] + 1)
          BY <5>2, <1>d
        <5> QED BY <5>1, <5>2, <5>3, <3>2, <4>1
      <4> QED BY <4>2, <4>3
    <3> QED BY <3>4, <3>5
  <2> QED BY <2>1, <2>2, <2>3, <2>4
<1> QED BY <1>2, <1>7, <1>8, <1>9, <1>10 DEF Linked, ids2, r2, nx2, Later

-----------------------------------------------------------------------------
(* Induction: a set of naturals with 0 and every successor is Nat.         *)
LEMMA RoundInduction ==
  ASSUME NEW S \in SUBSET Nat, 0 \in S, \A n \in S : n + 1 \in S
  PROVE  S = Nat
<1>1. SUFFICES ASSUME NEW n \in Nat, n \notin S PROVE FALSE
  OBVIOUS
<1> DEFINE A == S \cap 0..n
           B == A \ {0}
           up == [x \in A |-> x + 1]
<1>2. IsFiniteSet(A)
  <2>1. IsFiniteSet(0..n)
    BY FS_Interval
  <2> QED BY <2>1, FS_Subset
<1>3. IsFiniteSet(B) /\ Cardinality(B) = Cardinality(A) - 1
  <2>1. 0 \in A
    OBVIOUS
  <2> QED BY <2>1, <1>2, FS_RemoveElement
<1>4. up \in [A -> B]
  <2>1. ASSUME NEW x \in A PROVE x + 1 \in B
    <3>1. x \in S /\ x \in 0..n /\ x # n
      BY <1>1
    <3> QED BY <3>1
  <2> QED BY <2>1
<1>5. Cardinality(A) \in Nat /\ Cardinality(B) \in Nat
  BY <1>2, <1>3, FS_CardinalityType
<1>6. \E x, y \in A : x # y /\ up[x] = up[y]
  <2> HIDE DEF A, B, up
  <2> QED BY <1>2, <1>3, <1>4, <1>5, FS_PigeonHole
<1> QED BY <1>6

(* More than n slots of n are not all different. *)
LEMMA SlotsRunOut ==
  ASSUME NEW n \in Nat, NEW k \in Nat, n <= k, NEW f \in [0..k -> 0..(n - 1)]
  PROVE  \E i, j \in 0..k : i # j /\ f[i] = f[j]
<1>1. IsFiniteSet(0..(n - 1)) /\ Cardinality(0..(n - 1)) = n
  BY FS_Interval
<1>2. IsFiniteSet(0..k) /\ Cardinality(0..k) = k + 1
  BY FS_Interval
<1>3. Cardinality(0..(n - 1)) < Cardinality(0..k)
  BY <1>1, <1>2
<1> QED BY <1>1, <1>2, <1>3, FS_PigeonHole

-----------------------------------------------------------------------------
(* The loops that follow a chain. *)

Round(m, s, stop, g, k) ==
  IF k = 0 THEN s ELSE IF g[k - 1] \in stop THEN g[k - 1] ELSE m.slot[g[k - 1]].next
Rounds(m, s, stop, g, n) == g = [k \in 0..n |-> Round(m, s, stop, g, k)]

LEMMA RoundsExist ==
  ASSUME NEW m, NEW s, NEW stop
  PROVE  \A n \in Nat : \E g : Rounds(m, s, stop, g, n)
<1> DEFINE S == {n \in Nat : \E g : Rounds(m, s, stop, g, n)}
<1>1. 0 \in S
  <2>1. Rounds(m, s, stop, [k \in 0..0 |-> s], 0)
    BY DEF Rounds, Round
  <2> QED BY <2>1
<1>2. ASSUME NEW n \in S PROVE n + 1 \in S
  <2>1. n \in Nat
    OBVIOUS
  <2>2. PICK g : Rounds(m, s, stop, g, n)
    OBVIOUS
  <2> DEFINE h == [k \in 0..(n + 1) |-> IF k = n + 1 THEN Round(m, s, stop, g, k) ELSE g[k]]
  <2>3. \A k \in 0..n : h[k] = g[k]
    BY <2>1
  <2>4. \A k \in 0..(n + 1) : Round(m, s, stop, h, k) = Round(m, s, stop, g, k)
    <3> HIDE DEF h
    <3>1. \A k \in 0..(n + 1) : k = 0 \/ k - 1 \in 0..n
      BY <2>1
    <3> QED BY <3>1, <2>3 DEF Round
  <2>5. \A k \in 0..n : g[k] = Round(m, s, stop, g, k)
    BY <2>2 DEF Rounds
  <2>6. \A k \in 0..(n + 1) : h[k] = Round(m, s, stop, h, k)
    <3>1. \A k \in 0..(n + 1) : h[k] = Round(m, s, stop, g, k)
      BY <2>1, <2>5
    <3> HIDE DEF h
    <3> QED BY <3>1, <2>4
  <2>7. h = [k \in 0..(n + 1) |-> h[k]]
    OBVIOUS
  <2>8. Rounds(m, s, stop, h, n + 1)
    <3> HIDE DEF h
    <3> QED BY <2>6, <2>7 DEF Rounds
  <2> QED BY <2>1, <2>8
<1>3. S = Nat
  <2>1. S \in SUBSET Nat
    OBVIOUS
  <2> HIDE DEF S
  <2> QED BY <2>1, <1>1, <1>2, RoundInduction
<1> QED BY <1>3

LEMMA WalkRounds ==
  ASSUME NEW m, NEW s, NEW stop, m.size \in Nat
  PROVE  \E g : /\ g[0] = s
                /\ \A k \in 1..m.size :
                     g[k] = IF g[k - 1] \in stop THEN g[k - 1] ELSE m.slot[g[k - 1]].next
                /\ Walk(m, s, stop) = g[m.size]
<1>1. PICK g : Rounds(m, s, stop, g, m.size)
  BY RoundsExist
<1> DEFINE P(at) == at = [k \in 0..m.size |->
             IF k = 0 THEN s
             ELSE LET t == at[k - 1] IN IF t \in stop THEN t ELSE m.slot[t].next]
           w == CHOOSE at : P(at)
<1>2. P(g)
  BY <1>1 DEF Rounds, Round
<1>3. P(w)
  <2> HIDE DEF P
  <2> QED BY <1>2
<1>4. Walk(m, s, stop) = w[m.size]
  BY Zenon DEF Walk
<1>5. \A k \in 0..m.size : w[k] = IF k = 0 THEN s ELSE IF w[k - 1] \in stop THEN w[k - 1]
                                   ELSE m.slot[w[k - 1]].next
  <2> HIDE DEF w
  <2> QED BY <1>3
<1> HIDE DEF w
<1>6. /\ w[0] = s
      /\ \A k \in 1..m.size : w[k] = IF w[k - 1] \in stop THEN w[k - 1] ELSE m.slot[w[k - 1]].next
  BY <1>5
<1> QED BY <1>4, <1>6

(* A loop from s on leaves a slot of C for a later one or for a goal in G. *)
Climbing(m, s, stop, r, C, G) ==
  /\ C \subseteq Slots(m.size) /\ C \cap stop = {} /\ G \subseteq stop
  /\ s \in C \cup G
  /\ \A t \in C : /\ r[t] \in Nat
                  /\ m.slot[t].next \in C \cup G
                  /\ m.slot[t].next \in C => r[m.slot[t].next] > r[t]

(* Such a loop ends at a goal, since there are as many rounds as slots. *)
LEMMA WalkEnds ==
  ASSUME NEW m, m.size \in Nat, NEW s, NEW stop, NEW r, NEW C, NEW G,
         Climbing(m, s, stop, r, C, G)
  PROVE  Walk(m, s, stop) \in G
<1>0. /\ C \subseteq Slots(m.size) /\ C \cap stop = {} /\ G \subseteq stop
      /\ s \in C \cup G
      /\ \A t \in C : r[t] \in Nat
  BY DEF Climbing
<1> DEFINE n == m.size
           nxt(t) == m.slot[t].next
<1>1. PICK g : /\ g[0] = s
               /\ \A k \in 1..n : g[k] = IF g[k - 1] \in stop THEN g[k - 1] ELSE nxt(g[k - 1])
               /\ Walk(m, s, stop) = g[n]
  BY WalkRounds
<1>2. \A t \in C : nxt(t) \in C \cup G /\ (nxt(t) \in C => r[nxt(t)] > r[t])
  BY DEF Climbing
<1> HIDE DEF n, nxt
<1>a. n \in Nat
  BY DEF n
<1> DEFINE Climbs(k) ==
      \/ g[k] \in G
      \/ /\ g[k] \in C
         /\ \A i \in 0..k : g[i] \in C
         /\ \A i, j \in 0..k : i < j => r[g[i]] < r[g[j]]
    S == {k \in Nat : k <= n => Climbs(k)}
<1>3. 0 \in S
  BY <1>0, <1>1
<1>4. ASSUME NEW k \in S PROVE k + 1 \in S
  <2> SUFFICES ASSUME k + 1 <= n PROVE Climbs(k + 1)
    OBVIOUS
  <2>1. k \in Nat /\ k <= n /\ k + 1 \in 1..n
    BY <1>a
  <2>b. Climbs(k)
    BY <2>1
  <2>2. g[k + 1] = IF g[k] \in stop THEN g[k] ELSE nxt(g[k])
    BY <1>1, <2>1
  <2>3. CASE g[k] \in G
    BY <1>0, <2>2, <2>3
  <2>4. CASE g[k] \notin G
    <3>1. /\ g[k] \in C /\ \A i \in 0..k : g[i] \in C
          /\ \A i, j \in 0..k : i < j => r[g[i]] < r[g[j]]
      BY <2>4, <2>b
    <3>2. g[k + 1] = nxt(g[k])
      BY <1>0, <3>1, <2>2
    <3>3. CASE nxt(g[k]) \in G
      BY <3>3, <3>2
    <3>4. CASE nxt(g[k]) \notin G
      <4>1. g[k + 1] \in C /\ r[g[k + 1]] > r[g[k]]
        BY <3>1, <3>2, <3>4, <1>2
      <4>2. \A i \in 0..(k + 1) : i \in 0..k \/ i = k + 1
        BY <2>1
      <4>3. \A i \in 0..(k + 1) : g[i] \in C
        BY <3>1, <4>1, <4>2
      <4>4. ASSUME NEW i \in 0..(k + 1), NEW j \in 0..(k + 1), i < j PROVE r[g[i]] < r[g[j]]
        <5>1. i \in 0..k
          BY <2>1, <4>4
        <5>2. CASE j \in 0..k
          BY <5>1, <5>2, <4>4, <3>1
        <5>3. CASE j = k + 1
          <6>1. i = k \/ r[g[i]] < r[g[k]]
            BY <5>1, <3>1, <2>1
          <6>2. r[g[i]] \in Nat /\ r[g[k]] \in Nat /\ r[g[k + 1]] \in Nat
            BY <1>0, <5>1, <4>3, <4>2, <2>1
          <6> QED BY <6>1, <6>2, <4>1, <5>3
        <5> QED BY <5>2, <5>3, <4>2
      <4> QED BY <4>1, <4>3, <4>4
    <3> QED BY <3>3, <3>4
  <2> QED BY <2>3, <2>4
<1>5. S = Nat
  <2>1. S \in SUBSET Nat
    OBVIOUS
  <2> HIDE DEF S
  <2> QED BY <2>1, <1>3, <1>4, RoundInduction
<1>6. Climbs(n)
  <2>1. n \in S
    BY <1>a, <1>5
  <2> HIDE DEF Climbs
  <2> QED BY <1>a, <2>1
<1>7. CASE g[n] \in G
  BY <1>7, <1>1
<1>8. CASE g[n] \notin G
  <2>1. /\ \A i \in 0..n : g[i] \in C
        /\ \A i, j \in 0..n : i < j => r[g[i]] < r[g[j]]
    BY <1>6, <1>8
  <2> DEFINE f == [i \in 0..n |-> g[i]]
  <2>2. C \subseteq 0..(n - 1)
    BY <1>0 DEF Slots, n
  <2>4. f \in [0..n -> 0..(n - 1)]
    BY <2>1, <2>2
  <2>5. PICK i, j \in 0..n : i # j /\ f[i] = f[j]
    <3> HIDE DEF f
    <3>1. n <= n
      BY <1>a
    <3> QED BY <1>a, <2>4, <3>1, SlotsRunOut
  <2>6. i \in 0..n /\ j \in 0..n /\ g[i] = g[j] /\ g[i] \in C
    BY <2>1, <2>5
  <2>7. r[g[i]] \in Nat
    BY <1>0, <2>6
  <2>8. i < j \/ j < i
    BY <1>a, <2>5, <2>6
  <2> QED BY <2>1, <2>6, <2>7, <2>8
<1> QED BY <1>7, <1>8

-----------------------------------------------------------------------------
(* Tables. *)

IdsOf(m) == [s \in Slots(m.size) |-> m.slot[s].id]
NextOf(m) == [s \in Slots(m.size) |-> m.slot[s].next]
Entry(n) == [id : Nat \cup {-1}, obj : BOOLEAN, next : Slots(n) \cup {-1}]

IsTable(m) ==
  /\ m.size \in Nat \ {0}
  /\ m \in [size : Nat \ {0}, lastfree : Int, slot : [Slots(m.size) -> Entry(m.size)]]

(* Free slots are not above lastfree, and hold no object. *)
Scanned(m) ==
  /\ m.lastfree \in Slots(m.size) \cup {-1}
  /\ \A s \in Slots(m.size) :
       m.slot[s].id = -1 => s <= m.lastfree /\ ~m.slot[s].obj

Good(m) ==
  /\ IsTable(m)
  /\ Scanned(m)
  /\ \E r : Linked(m.size, IdsOf(m), NextOf(m), r)

Keys(m) == {m.slot[s].id : s \in Taken(m.size, IdsOf(m))}
Objects(m) == {m.slot[s].id : s \in {t \in Slots(m.size) : m.slot[t].obj}}

LEMMA TableFacts ==
  ASSUME NEW m, IsTable(m)
  PROVE  /\ DOMAIN m.slot = Slots(m.size)
         /\ \A s \in Slots(m.size) :
              /\ m.slot[s] \in Entry(m.size)
              /\ m.slot[s].id \in Nat \cup {-1}
              /\ m.slot[s].obj \in BOOLEAN
              /\ m.slot[s].next \in Slots(m.size) \cup {-1}
              /\ IdsOf(m)[s] = m.slot[s].id
              /\ NextOf(m)[s] = m.slot[s].next
  BY DEF IsTable, Entry, IdsOf, NextOf

LEMMA MainIs ==
  ASSUME NEW m, NEW id
  PROVE  mainposition(m, id) = Main(m.size, id)
  BY DEF mainposition, Main

(* What Lookup finds: the slot with the id, or -1 if there is none. *)
LEMMA LookupFinds ==
  ASSUME NEW m, Good(m), NEW s \in Taken(m.size, IdsOf(m))
  PROVE  Lookup(m, m.slot[s].id) = s
<1> DEFINE n == m.size
           ids == IdsOf(m)
           nx == NextOf(m)
           id == m.slot[s].id
           stop == {-1} \cup {t \in DOMAIN m.slot : m.slot[t].id = id}
           root == mainposition(m, id)
<1>1. IsTable(m)
  BY DEF Good
<1>2. PICK r : Linked(n, ids, nx, r)
  BY DEF Good
<1>3. /\ DOMAIN m.slot = Slots(n)
      /\ \A t \in Slots(n) : ids[t] = m.slot[t].id /\ nx[t] = m.slot[t].next
      /\ \A t \in Taken(n, ids) : t \in Slots(n)
  BY <1>1, TableFacts DEF Taken
<1>4. \A t \in Slots(n) : r[t] \in Nat
  BY <1>2 DEF Linked, Typed
<1> DEFINE C == {t \in Taken(n, ids) : Home(n, ids, t) = Home(n, ids, s) /\ r[t] < r[s]}
<1>5. root = Home(n, ids, s)
  BY <1>3, MainIs DEF Home
<1>6. stop = {-1, s}
  BY <1>3, <1>2 DEF Linked, Single, Taken
<1>7. m.size \in Nat
  BY <1>1 DEF IsTable
<1>8. Lookup(m, id) = Walk(m, root, stop)
  BY DEF Lookup
<1>0. s \in Taken(n, ids)
  OBVIOUS
<1> HIDE DEF n, ids, nx, id, stop, root
<1>9. root \in C \cup {s}
  <2>1. /\ root \in Taken(n, ids) /\ Home(n, ids, root) = Home(n, ids, s)
        /\ r[root] = 0 /\ (r[s] = 0 <=> s = root)
    BY <1>0, <1>2, <1>5 DEF Linked, Rooted
  <2>2. r[s] \in Nat
    BY <1>0, <1>3, <1>4
  <2> QED BY <2>1, <2>2
<1>10. ASSUME NEW t \in C
       PROVE  /\ r[t] \in Nat
              /\ m.slot[t].next \in C \cup {s}
              /\ m.slot[t].next \in C => r[m.slot[t].next] > r[t]
  <2>1. t \in Taken(n, ids) /\ m.slot[t].next = nx[t] /\ r[t] \in Nat
    BY <1>0, <1>3, <1>4
  <2>2. nx[t] # -1 /\ r[nx[t]] <= r[s]
    BY <1>0, <1>2, <2>1 DEF Linked, Joined
  <2>3. nx[t] \in Taken(n, ids) /\ Home(n, ids, nx[t]) = Home(n, ids, s) /\ r[nx[t]] > r[t]
    BY <1>2, <2>1, <2>2 DEF Linked, Leads
  <2>4. r[nx[t]] < r[s] \/ nx[t] = s
    <3>1. r[nx[t]] \in Nat /\ r[s] \in Nat
      BY <1>0, <2>3, <1>3, <1>4
    <3>2. r[nx[t]] = r[s] => nx[t] = s
      BY <1>0, <1>2, <2>3 DEF Linked, Joined
    <3> QED BY <3>1, <3>2, <2>2
  <2> QED BY <2>1, <2>3, <2>4
<1>11. C \subseteq Slots(m.size) /\ C \cap stop = {}
  <2>1. C \subseteq Slots(n) /\ s \notin C /\ -1 \notin Slots(n)
    BY <1>3, <1>4 DEF Slots
  <2> QED BY <2>1, <1>6 DEF n
<1> DEFINE G == {s}
<1>12. Walk(m, root, stop) \in G
  <2>1. G \subseteq stop
    BY <1>6
  <2> HIDE DEF C, G
  <2>2. root \in C \cup G
    BY <1>9 DEF G
  <2>3. \A t \in C : /\ r[t] \in Nat
                     /\ m.slot[t].next \in C \cup G
                     /\ m.slot[t].next \in C => r[m.slot[t].next] > r[t]
    BY <1>10 DEF G
  <2>4. Climbing(m, root, stop, r, C, G)
    BY <1>11, <2>1, <2>2, <2>3 DEF Climbing
  <2> QED BY <1>7, <2>4, WalkEnds
<1> QED BY <1>8, <1>12 DEF id

LEMMA LookupMisses ==
  ASSUME NEW m, Good(m), NEW id \in Nat, \A s \in Slots(m.size) : m.slot[s].id # id
  PROVE  Lookup(m, id) = -1
<1> DEFINE n == m.size
           ids == IdsOf(m)
           nx == NextOf(m)
           stop == {-1} \cup {t \in DOMAIN m.slot : m.slot[t].id = id}
           root == mainposition(m, id)
           C == Slots(n)
<1>1. IsTable(m) /\ n \in Nat \ {0}
  BY DEF Good, IsTable
<1>2. PICK r : Linked(n, ids, nx, r)
  BY DEF Good
<1>3. /\ DOMAIN m.slot = Slots(n)
      /\ \A t \in Slots(n) : /\ ids[t] = m.slot[t].id /\ nx[t] = m.slot[t].next
                             /\ nx[t] \in Slots(n) \cup {-1}
  BY <1>1, TableFacts
<1>4. \A t \in Slots(n) : r[t] \in Nat
  BY <1>2 DEF Linked, Typed
<1>5. root \in Slots(n)
  BY <1>1, MainIs, MainRange
<1>6. stop = {-1}
  BY <1>3
<1>8. Lookup(m, id) = Walk(m, root, stop)
  BY DEF Lookup
<1> HIDE DEF ids, nx, stop, root
<1>10. ASSUME NEW t \in C
       PROVE  /\ r[t] \in Nat
              /\ m.slot[t].next \in C \cup {-1}
              /\ m.slot[t].next \in C => r[m.slot[t].next] > r[t]
  <2>1. r[t] \in Nat /\ m.slot[t].next = nx[t] /\ nx[t] \in C \cup {-1}
    BY <1>3, <1>4
  <2>2. nx[t] # -1 => t \in Taken(n, ids)
    BY <1>2 DEF Linked, Single, Taken
  <2>3. nx[t] # -1 => r[nx[t]] > r[t]
    BY <1>2, <2>2 DEF Linked, Leads
  <2>4. -1 \notin Slots(n)
    BY <1>1 DEF Slots
  <2> QED BY <2>1, <2>3, <2>4
<1>11. C \cap stop = {}
  BY <1>1, <1>6 DEF Slots
<1> DEFINE G == {-1}
<1>12. Walk(m, root, stop) \in G
  <2>1. G \subseteq stop /\ C \subseteq Slots(m.size) /\ m.size \in Nat
    BY <1>1, <1>6
  <2>2. root \in C \cup G
    BY <1>5
  <2>3. \A t \in C : /\ r[t] \in Nat
                     /\ m.slot[t].next \in C \cup G
                     /\ m.slot[t].next \in C => r[m.slot[t].next] > r[t]
    BY <1>10
  <2> HIDE DEF C, G
  <2>4. Climbing(m, root, stop, r, C, G)
    BY <1>11, <2>1, <2>2, <2>3 DEF Climbing
  <2> QED BY <2>1, <2>4, WalkEnds
<1> QED BY <1>8, <1>12

(* The loop of map_insert finds the predecessor: the assert holds. *)
LEMMA BeforeFinds ==
  ASSUME NEW m, Good(m), NEW s \in Taken(m.size, IdsOf(m)),
         mainposition(m, m.slot[s].id) # s
  PROVE  /\ Before(m, s) \in Taken(m.size, IdsOf(m))
         /\ m.slot[Before(m, s)].next = s
<1> DEFINE n == m.size
           ids == IdsOf(m)
           nx == NextOf(m)
           stop == {t \in DOMAIN m.slot : m.slot[t].next = s}
           root == mainposition(m, m.slot[s].id)
<1>1. IsTable(m)
  BY DEF Good
<1>2. PICK r : Linked(n, ids, nx, r)
  BY DEF Good
<1>3. /\ DOMAIN m.slot = Slots(n)
      /\ \A t \in Slots(n) : ids[t] = m.slot[t].id /\ nx[t] = m.slot[t].next
      /\ \A t \in Taken(n, ids) : t \in Slots(n)
  BY <1>1, TableFacts DEF Taken
<1>4. \A t \in Slots(n) : r[t] \in Nat
  BY <1>2 DEF Linked, Typed
<1> DEFINE B == {t \in Taken(n, ids) : Home(n, ids, t) = Home(n, ids, s) /\ r[t] < r[s]}
           C == {t \in B : nx[t] # s}
           G == {t \in B : nx[t] = s}
<1>5. root = Home(n, ids, s) /\ root # s
  BY <1>3, MainIs DEF Home
<1>6. stop = {t \in Slots(n) : nx[t] = s}
  BY <1>3
<1>7. m.size \in Nat
  BY <1>1 DEF IsTable
<1>8. Before(m, s) = Walk(m, root, stop)
  BY DEF Before
<1>0. s \in Taken(n, ids)
  OBVIOUS
<1> HIDE DEF n, ids, nx, stop, root
<1>b. C \cup G = B /\ B \subseteq Slots(n)
  BY <1>3
<1>9. root \in B
  <2>1. /\ root \in Taken(n, ids) /\ Home(n, ids, root) = Home(n, ids, s)
        /\ r[root] = 0 /\ r[s] # 0
    BY <1>0, <1>2, <1>5 DEF Linked, Rooted
  <2>2. r[s] \in Nat
    BY <1>0, <1>3, <1>4
  <2> QED BY <2>1, <2>2
<1>10. ASSUME NEW t \in C
       PROVE  /\ r[t] \in Nat
              /\ m.slot[t].next \in B
              /\ m.slot[t].next \in C => r[m.slot[t].next] > r[t]
  <2>1. t \in Taken(n, ids) /\ m.slot[t].next = nx[t] /\ r[t] \in Nat /\ nx[t] # s
    BY <1>0, <1>3, <1>4
  <2>2. nx[t] # -1 /\ r[nx[t]] <= r[s]
    BY <1>0, <1>2, <2>1 DEF Linked, Joined
  <2>3. nx[t] \in Taken(n, ids) /\ Home(n, ids, nx[t]) = Home(n, ids, s) /\ r[nx[t]] > r[t]
    BY <1>2, <2>1, <2>2 DEF Linked, Leads
  <2>4. r[nx[t]] < r[s]
    <3>1. r[nx[t]] \in Nat /\ r[s] \in Nat
      BY <1>0, <2>3, <1>3, <1>4
    <3>2. r[nx[t]] # r[s]
      BY <1>0, <1>2, <2>1, <2>3 DEF Linked, Joined
    <3> QED BY <3>1, <3>2, <2>2
  <2> QED BY <2>1, <2>3, <2>4
<1>11. C \subseteq Slots(m.size) /\ C \cap stop = {} /\ G \subseteq stop
  BY <1>b, <1>6 DEF n
<1>12. Walk(m, root, stop) \in G
  <2> HIDE DEF C, G, B
  <2>1. Climbing(m, root, stop, r, C, G)
    BY <1>9, <1>10, <1>11, <1>b DEF Climbing
  <2> QED BY <1>7, <2>1, WalkEnds
<1> QED BY <1>8, <1>12, <1>3 DEF n, ids, nx

-----------------------------------------------------------------------------
(* What an insertion does to a table. *)

LEMMA HighestExists ==
  ASSUME NEW k \in Nat, NEW Z \in SUBSET (0..k), Z # {}
  PROVE  \E i \in Z : \A j \in Z : j <= i
<1> DEFINE High(X) == X = {} \/ \E i \in X : \A j \in X : j <= i
           S == {n \in Nat : \A X \in SUBSET (0..n) : High(X)}
<1>1. 0 \in S
  <2>1. ASSUME NEW X \in SUBSET (0..0), X # {} PROVE \E i \in X : \A j \in X : j <= i
    <3>1. PICK i \in X : TRUE
      BY <2>1
    <3>2. \A j \in X : j <= i
      OBVIOUS
    <3> QED BY <3>2
  <2> QED BY <2>1
<1>2. ASSUME NEW n \in S PROVE n + 1 \in S
  <2>1. n \in Nat
    OBVIOUS
  <2>2. ASSUME NEW X \in SUBSET (0..(n + 1)) PROVE High(X)
    <3>1. CASE n + 1 \in X
      BY <2>1, <3>1
    <3>2. CASE n + 1 \notin X
      <4>1. X \in SUBSET (0..n)
        BY <2>1, <3>2
      <4> HIDE DEF High
      <4> QED BY <4>1
    <3> QED BY <3>1, <3>2
  <2> HIDE DEF High
  <2> QED BY <2>1, <2>2
<1>3. S = Nat
  <2>1. S \in SUBSET Nat
    OBVIOUS
  <2> HIDE DEF S
  <2> QED BY <2>1, <1>1, <1>2, RoundInduction
<1> QED BY <1>3

Full(m) == \A s \in Slots(m.size) : m.slot[s].id # -1

LEMMA FreeSlotFacts ==
  ASSUME NEW m, Good(m)
  PROVE  \/ FreeSlot(m) = -1 /\ Full(m)
         \/ /\ FreeSlot(m) \in Slots(m.size) /\ FreeSlot(m) >= 0
            /\ m.slot[FreeSlot(m)].id = -1
            /\ \A t \in Slots(m.size) : t > FreeSlot(m) => m.slot[t].id # -1
<1> DEFINE free == {i \in 0..m.lastfree : m.slot[i].id = INVALID_ID}
<1>1. /\ m.size \in Nat \ {0} /\ m.lastfree \in Int /\ m.lastfree < m.size
      /\ \A s \in Slots(m.size) : m.slot[s].id = -1 => s <= m.lastfree
  BY DEF Good, IsTable, Scanned, Slots
<1>2. \A t \in Slots(m.size) : m.slot[t].id = -1 => t \in free
  BY <1>1 DEF Slots, INVALID_ID
<1>3. \A i \in free : i \in Slots(m.size) /\ i >= 0 /\ m.slot[i].id = -1
  BY <1>1 DEF Slots, INVALID_ID
<1>4. FreeSlot(m) = IF free = {} THEN -1 ELSE CHOOSE i \in free : \A j \in free : j <= i
  BY DEF FreeSlot
<1>5. CASE free = {}
  BY <1>2, <1>4, <1>5 DEF Full
<1>6. CASE free # {}
  <2>1. m.lastfree \in Nat /\ free \in SUBSET (0..m.lastfree)
    BY <1>1, <1>6
  <2> HIDE DEF free
  <2>2. \E i \in free : \A j \in free : j <= i
    BY <2>1, <1>6, HighestExists
  <2>3. FreeSlot(m) \in free /\ \A j \in free : j <= FreeSlot(m)
    BY <2>2, <1>4, <1>6
  <2>4. \A t \in Slots(m.size) : t > FreeSlot(m) => t \notin free
    BY <2>3, <1>3, <1>1 DEF Slots
  <2> QED BY <2>3, <2>4, <1>2, <1>3
<1> QED BY <1>5, <1>6

LEMMA KeyFacts ==
  ASSUME NEW m, Good(m)
  PROVE  /\ \A s \in Slots(m.size) : m.slot[s].id # -1 <=> s \in Taken(m.size, IdsOf(m))
         /\ \A s \in Slots(m.size) : m.slot[s].obj => m.slot[s].id # -1
         /\ \A s, t \in Slots(m.size) :
              m.slot[s].id = m.slot[t].id /\ m.slot[s].id # -1 => s = t
         /\ \A id : id \in Keys(m) <=> id # -1 /\ \E s \in Slots(m.size) : m.slot[s].id = id
         /\ \A id : id \in Objects(m) <=>
              \E s \in Slots(m.size) : m.slot[s].id = id /\ m.slot[s].obj
         /\ Objects(m) \subseteq Keys(m) /\ Keys(m) \subseteq Nat
<1>1. IsTable(m) /\ \E r : Linked(m.size, IdsOf(m), NextOf(m), r)
  BY DEF Good
<1>2. \A s \in Slots(m.size) : IdsOf(m)[s] = m.slot[s].id /\ m.slot[s].id \in Nat \cup {-1}
  BY <1>1, TableFacts
<1>3. \A s \in Slots(m.size) : m.slot[s].id # -1 <=> s \in Taken(m.size, IdsOf(m))
  BY <1>2 DEF Taken
<1>4. \A s \in Slots(m.size) : m.slot[s].obj => m.slot[s].id # -1
  BY DEF Good, Scanned
<1>5. \A s, t \in Slots(m.size) : m.slot[s].id = m.slot[t].id /\ m.slot[s].id # -1 => s = t
  BY <1>1, <1>2, <1>3 DEF Linked, Single
<1>6. \A id : id \in Keys(m) <=> id # -1 /\ \E s \in Slots(m.size) : m.slot[s].id = id
  BY <1>3 DEF Keys, Taken
<1>7. \A id : id \in Objects(m) <=>
        \E s \in Slots(m.size) : m.slot[s].id = id /\ m.slot[s].obj
  BY DEF Objects
<1>8. Objects(m) \subseteq Keys(m)
  BY <1>4, <1>6, <1>7
<1>9. Keys(m) \subseteq Nat
  BY <1>2, <1>6
<1> QED BY <1>3, <1>4, <1>5, <1>6, <1>7, <1>8, <1>9

(* Slot x of m takes an entry for id, its other slots keep id and object. *)
Takes(m, m2, x, id) ==
  /\ m2.size = m.size
  /\ x \in Slots(m.size)
  /\ m2.slot[x].id = id /\ m2.slot[x].obj
  /\ \A t \in Slots(m.size) : t # x =>
       m2.slot[t].id = m.slot[t].id /\ m2.slot[t].obj = m.slot[t].obj

LEMMA TakesKeys ==
  ASSUME NEW m, Good(m), NEW m2, Good(m2), NEW x, NEW id \in Nat, Takes(m, m2, x, id)
  PROVE  /\ Keys(m2) = (Keys(m) \ {m.slot[x].id}) \cup {id}
         /\ Objects(m2) = (Objects(m) \ {m.slot[x].id}) \cup {id}
<1>1. /\ m2.size = m.size /\ x \in Slots(m.size) /\ m2.slot[x].id = id /\ m2.slot[x].obj
      /\ \A t \in Slots(m.size) : t # x =>
           m2.slot[t].id = m.slot[t].id /\ m2.slot[t].obj = m.slot[t].obj
  BY DEF Takes
<1>2. \A t \in Slots(m.size) : t # x /\ m.slot[t].id # -1 => m.slot[t].id # m.slot[x].id
  BY <1>1, KeyFacts
<1>3. \A k : k \in Keys(m2) <=> k = id \/ (k \in Keys(m) /\ k # m.slot[x].id)
  <2> SUFFICES ASSUME NEW k PROVE k \in Keys(m2) <=> k = id \/ (k \in Keys(m) /\ k # m.slot[x].id)
    OBVIOUS
  <2>1. k \in Keys(m2) <=> k # -1 /\ \E s \in Slots(m.size) : m2.slot[s].id = k
    BY <1>1, KeyFacts
  <2>2. k \in Keys(m) <=> k # -1 /\ \E s \in Slots(m.size) : m.slot[s].id = k
    BY KeyFacts
  <2>3. id # -1
    OBVIOUS
  <2> QED BY <2>1, <2>2, <2>3, <1>1, <1>2
<1>4. \A k : k \in Objects(m2) <=> k = id \/ (k \in Objects(m) /\ k # m.slot[x].id)
  <2> SUFFICES ASSUME NEW k
               PROVE  k \in Objects(m2) <=> k = id \/ (k \in Objects(m) /\ k # m.slot[x].id)
    OBVIOUS
  <2>1. k \in Objects(m2) <=> \E s \in Slots(m.size) : m2.slot[s].id = k /\ m2.slot[s].obj
    BY <1>1, KeyFacts
  <2>2. k \in Objects(m) <=> \E s \in Slots(m.size) : m.slot[s].id = k /\ m.slot[s].obj
    BY KeyFacts
  <2>3. \A t \in Slots(m.size) : m.slot[t].obj => m.slot[t].id # -1
    BY KeyFacts
  <2> QED BY <2>1, <2>2, <2>3, <1>1, <1>2
<1> QED BY <1>3, <1>4

(* The fields of a table, one by one. *)
Fields(m, m2, x, id, nx2, r2) ==
  /\ IsTable(m2)
  /\ Takes(m, m2, x, id)
  /\ m2.lastfree \in Slots(m.size) \cup {-1}
  /\ \A t \in Slots(m.size) : t > m2.lastfree /\ t # x => m.slot[t].id # -1
  /\ nx2 = [t \in Slots(m.size) |-> nx2[t]]
  /\ \A t \in Slots(m.size) : nx2[t] = m2.slot[t].next
  /\ Linked(m.size, [IdsOf(m) EXCEPT ![x] = id], nx2, r2)

Swaps(m, m2, gone, id) ==
  /\ Good(m2) /\ m2.size = m.size
  /\ Keys(m2) = (Keys(m) \ {gone}) \cup {id}
  /\ Objects(m2) = (Objects(m) \ {gone}) \cup {id}

LEMMA GoodByFields ==
  ASSUME NEW m, Good(m), NEW m2, NEW x, NEW id, id \in Nat, NEW nx2, NEW r2,
         Fields(m, m2, x, id, nx2, r2)
  PROVE  Swaps(m, m2, m.slot[x].id, id)
<1>1. /\ m2.size = m.size /\ x \in Slots(m.size) /\ m2.slot[x].id = id /\ m2.slot[x].obj
      /\ \A t \in Slots(m.size) : t # x =>
           m2.slot[t].id = m.slot[t].id /\ m2.slot[t].obj = m.slot[t].obj
  BY DEF Takes, Fields
<1>2. NextOf(m2) = nx2
  BY <1>1 DEF NextOf, Fields
<1>3. IdsOf(m2) = [IdsOf(m) EXCEPT ![x] = id]
  BY <1>1 DEF IdsOf
<1>4. Scanned(m2)
  <2> SUFFICES ASSUME NEW t \in Slots(m.size), m2.slot[t].id = -1
               PROVE  t <= m2.lastfree /\ ~m2.slot[t].obj
    BY <1>1 DEF Scanned, Fields
  <2>1. t # x /\ m.slot[t].id = -1 /\ m2.slot[t].obj = m.slot[t].obj
    BY <1>1
  <2>2. ~m.slot[t].obj
    BY <2>1 DEF Good, Scanned
  <2>3. t \in Int /\ m2.lastfree \in Int
    BY <1>1 DEF Slots, Good, IsTable, Fields
  <2> QED BY <2>1, <2>2, <2>3 DEF Fields
<1>5. Good(m2)
  BY <1>1, <1>2, <1>3, <1>4 DEF Good, Fields
<1> QED BY <1>1, <1>5, TakesKeys DEF Fields, Swaps

(* id has an entry with an object, the other objects are as before; ids    *)
(* without an object may be forgotten.                                     *)
Inserted(m, m2, id) ==
  /\ Good(m2)
  /\ Objects(m2) = Objects(m) \cup {id}
  /\ Keys(m2) \subseteq Keys(m) \cup {id}

(* So it is without growing the table. *)
Adds(m, m2, id) == Inserted(m, m2, id) /\ m2.size = m.size

(* The main position of id holds an entry that belongs there. *)
HomeHeld(m, id) ==
  LET s == mainposition(m, id) IN
  m.slot[s].id # -1 /\ mainposition(m, m.slot[s].id) = s

(* The entry of slot s leaves the table m2, where id takes its place. *)
MadeWay(m, m2, s, id) ==
  LET old == m.slot[s].id IN
  /\ Swaps(m, m2, old, id)
  /\ old \in Nat \ Keys(m2)
  /\ HomeHeld(m2, old)
  /\ m.slot[s].obj \in BOOLEAN /\ (m.slot[s].obj <=> old \in Objects(m))
  /\ Full(m2) <=> Full(m)

(* A free main position takes the entry. *)
LEMMA FilledGood ==
  ASSUME NEW m, Good(m), NEW id \in Nat \ Keys(m), NEW s, s = mainposition(m, id),
         m.slot[s].id = -1
  PROVE  Adds(m, Put(m, s, id, TRUE, m.slot[s].next), id)
<1> DEFINE n == m.size
           m2 == Put(m, s, id, TRUE, m.slot[s].next)
<1>1. IsTable(m) /\ n \in Nat \ {0} /\ s = Main(n, id) /\ s \in Slots(n)
  BY MainIs, MainRange DEF Good, IsTable
<1>2. /\ m.slot \in [Slots(n) -> Entry(n)] /\ m.slot[s] \in Entry(n)
      /\ m \in [size : Nat \ {0}, lastfree : Int, slot : [Slots(n) -> Entry(n)]]
  BY <1>1 DEF IsTable
<1>3. /\ m2.size = n /\ m2.lastfree = m.lastfree
      /\ m2.slot = [m.slot EXCEPT ![s] = [id |-> id, obj |-> TRUE, next |-> m.slot[s].next]]
      /\ m2 = [size |-> n, lastfree |-> m.lastfree, slot |-> m2.slot]
  <2> DEFINE new == [id |-> id, obj |-> TRUE, next |-> m.slot[s].next]
  <2>1. m2 = [m EXCEPT !.slot[s] = new]
    BY DEF Put
  <2> HIDE DEF new, m2
  <2>2. /\ m2.size = n /\ m2.lastfree = m.lastfree /\ m2.slot = [m.slot EXCEPT ![s] = new]
        /\ m2 = [size |-> n, lastfree |-> m.lastfree, slot |-> m2.slot]
    BY <2>1, <1>2
  <2> QED BY <2>2 DEF new
<1> HIDE DEF m2, n
<1>4. m2.slot \in [Slots(n) -> Entry(n)]
  <2>1. [id |-> id, obj |-> TRUE, next |-> m.slot[s].next] \in Entry(n)
    BY <1>2 DEF Entry
  <2> QED BY <2>1, <1>2, <1>3
<1>5. IsTable(m2)
  BY <1>1, <1>2, <1>3, <1>4 DEF IsTable
<1>6. /\ m2.slot[s].id = id /\ m2.slot[s].obj /\ m2.slot[s].next = m.slot[s].next
      /\ \A t \in Slots(n) : t # s => m2.slot[t] = m.slot[t]
  BY <1>1, <1>2, <1>3
<1>7. Takes(m, m2, s, id)
  BY <1>1, <1>3, <1>6 DEF Takes, n
<1>8. PICK r : Linked(n, IdsOf(m), NextOf(m), r)
  BY DEF Good, n
<1>9. \A t \in Slots(n) : IdsOf(m)[t] # id /\ IdsOf(m)[t] = m.slot[t].id
  <2>1. \A t \in Slots(n) : IdsOf(m)[t] = m.slot[t].id
    BY <1>1, TableFacts DEF n
  <2>2. \A t \in Slots(n) : m.slot[t].id # id
    BY KeyFacts DEF n
  <2> QED BY <2>1, <2>2
<1>10. Linked(n, [IdsOf(m) EXCEPT ![s] = id], NextOf(m), [r EXCEPT ![s] = 0])
  BY <1>1, <1>8, <1>9, LinkFill
<1>11. /\ NextOf(m) = [t \in Slots(n) |-> NextOf(m)[t]]
       /\ \A t \in Slots(n) : NextOf(m)[t] = m2.slot[t].next
  BY <1>6 DEF NextOf, n
<1>12. /\ m2.lastfree \in Slots(n) \cup {-1}
       /\ \A t \in Slots(n) : t > m2.lastfree /\ t # s => m.slot[t].id # -1
  <2>1. \A t \in Slots(n) : t \in Int
    BY DEF Slots
  <2>2. m.lastfree \in Int
    BY <1>2
  <2> QED BY <2>1, <2>2, <1>3 DEF Good, Scanned, n
<1>13. /\ Good(m2) /\ m2.size = m.size
       /\ Keys(m2) = (Keys(m) \ {m.slot[s].id}) \cup {id}
       /\ Objects(m2) = (Objects(m) \ {m.slot[s].id}) \cup {id}
  <2> DEFINE nx2 == NextOf(m)
             r2 == [r EXCEPT ![s] = 0]
  <2> HIDE DEF nx2, r2
  <2>1. Fields(m, m2, s, id, nx2, r2)
    BY <1>5, <1>7, <1>10, <1>11, <1>12 DEF Fields, n, nx2, r2
  <2>2. id \in Nat
    OBVIOUS
  <2>3. Swaps(m, m2, m.slot[s].id, id)
    BY <2>1, <2>2, GoodByFields
  <2> QED BY <2>3 DEF Swaps
<1>14. -1 \notin Keys(m) /\ -1 \notin Objects(m)
  BY KeyFacts
<1> QED BY <1>13, <1>14 DEF m2, Inserted, Adds

(* The entry in the main position makes way: its id leaves the table. *)
LEMMA EvictedGood ==
  ASSUME NEW m, Good(m), NEW id \in Nat \ Keys(m), NEW s, s = mainposition(m, id),
         m.slot[s].id # -1, mainposition(m, m.slot[s].id) # s
  PROVE  MadeWay(m, Evicted(m, s, id, TRUE), s, id)
<1> DEFINE n == m.size
           m2 == Evicted(m, s, id, TRUE)
           old == m.slot[s].id
           last == Before(m, s)
           new == [id |-> id, obj |-> TRUE, next |-> -1]
           cut == [m.slot[last] EXCEPT !.next = m.slot[s].next]
<1>1. IsTable(m) /\ n \in Nat \ {0} /\ s = Main(n, id) /\ s \in Slots(n)
  BY MainIs, MainRange DEF Good, IsTable
<1>2. /\ m.slot \in [Slots(n) -> Entry(n)] /\ m.slot[s] \in Entry(n)
      /\ m \in [size : Nat \ {0}, lastfree : Int, slot : [Slots(n) -> Entry(n)]]
  BY <1>1 DEF IsTable
<1>a. s \in Taken(n, IdsOf(m))
  BY <1>1, KeyFacts
<1>b. last \in Taken(n, IdsOf(m)) /\ last \in Slots(n) /\ m.slot[last].next = s
  BY <1>a, BeforeFinds DEF Taken
<1>8. PICK r : Linked(n, IdsOf(m), NextOf(m), r)
  BY DEF Good
<1>c. /\ \A t \in Slots(n) : IdsOf(m)[t] = m.slot[t].id /\ NextOf(m)[t] = m.slot[t].next
      /\ Home(n, IdsOf(m), s) # s
  <2>1. \A t \in Slots(n) : IdsOf(m)[t] = m.slot[t].id /\ NextOf(m)[t] = m.slot[t].next
    BY <1>1, TableFacts
  <2> QED BY <2>1, <1>1, MainIs DEF Home
<1>d. last # s
  <2>1. r[s] > r[last]
    BY <1>8, <1>b, <1>c, <1>1 DEF Linked, Leads, Slots
  <2>2. r[s] \in Nat
    BY <1>8, <1>1 DEF Linked, Typed
  <2> QED BY <2>1, <2>2
<1>3. /\ m2.size = n /\ m2.lastfree = m.lastfree
      /\ m2.slot = [m.slot EXCEPT ![last] = cut, ![s] = new]
      /\ m2 = [size |-> n, lastfree |-> m.lastfree, slot |-> m2.slot]
  <2>1. m2 = Put([m EXCEPT !.slot[last].next = m.slot[s].next], s, id, TRUE, -1)
    BY DEF Evicted
  <2> HIDE DEF last
  <2> QED BY <2>1, <1>1, <1>2, <1>b, <1>d DEF Put, Entry
<1>4. /\ new \in Entry(n) /\ cut \in Entry(n)
      /\ cut.id = m.slot[last].id /\ cut.obj = m.slot[last].obj /\ cut.next = m.slot[s].next
  <2> HIDE DEF last
  <2>1. m.slot[last] \in Entry(n)
    BY <1>2, <1>b
  <2> QED BY <2>1, <1>2 DEF Entry
<1> HIDE DEF m2, n, last, cut
<1>5. IsTable(m2)
  <2>1. m2.slot \in [Slots(n) -> Entry(n)]
    BY <1>2, <1>3, <1>4
  <2> QED BY <2>1, <1>1, <1>2, <1>3 DEF IsTable
<1>6. /\ m2.slot[s] = new /\ m2.slot[last] = cut
      /\ \A t \in Slots(n) : t # s /\ t # last => m2.slot[t] = m.slot[t]
  BY <1>1, <1>2, <1>3, <1>b, <1>d
<1>7. Takes(m, m2, s, id)
  BY <1>1, <1>3, <1>4, <1>6 DEF Takes, n
<1>9. \A t \in Slots(n) : IdsOf(m)[t] # id
  <2>1. \A t \in Slots(n) : m.slot[t].id # id
    BY KeyFacts DEF n
  <2> QED BY <2>1, <1>c
<1> DEFINE nx2 == [NextOf(m) EXCEPT ![last] = NextOf(m)[s], ![s] = -1]
<1>10. Linked(n, [IdsOf(m) EXCEPT ![s] = id], nx2, [r EXCEPT ![s] = 0])
  BY <1>1, <1>8, <1>9, <1>a, <1>b, <1>c, LinkEvict
<1>11. /\ nx2 = [t \in Slots(n) |-> nx2[t]]
       /\ \A t \in Slots(n) : nx2[t] = m2.slot[t].next
  <2>1. NextOf(m) = [t \in Slots(n) |-> m.slot[t].next]
    BY DEF NextOf, n
  <2>2. /\ nx2 = [t \in Slots(n) |-> nx2[t]] /\ nx2[s] = -1 /\ nx2[last] = m.slot[s].next
        /\ \A t \in Slots(n) : t # s /\ t # last => nx2[t] = m.slot[t].next
    BY <2>1, <1>1, <1>b, <1>d
  <2>3. m2.slot[s].next = -1 /\ m2.slot[last].next = m.slot[s].next
    BY <1>4, <1>6
  <2> HIDE DEF nx2, new
  <2> QED BY <2>2, <2>3, <1>6
<1>12. /\ m2.lastfree \in Slots(n) \cup {-1}
       /\ \A t \in Slots(n) : t > m2.lastfree /\ t # s => m.slot[t].id # -1
  <2>1. \A t \in Slots(n) : t \in Int
    BY DEF Slots
  <2>2. m.lastfree \in Int
    BY <1>2
  <2> QED BY <2>1, <2>2, <1>3 DEF Good, Scanned, n
<1>13. /\ Good(m2) /\ m2.size = m.size
       /\ Keys(m2) = (Keys(m) \ {old}) \cup {id}
       /\ Objects(m2) = (Objects(m) \ {old}) \cup {id}
  <2> DEFINE r2 == [r EXCEPT ![s] = 0]
  <2> HIDE DEF nx2, r2
  <2>1. Fields(m, m2, s, id, nx2, r2)
    BY <1>5, <1>7, <1>10, <1>11, <1>12 DEF Fields, n, r2
  <2>2. id \in Nat
    OBVIOUS
  <2>3. Swaps(m, m2, m.slot[s].id, id)
    BY <2>1, <2>2, GoodByFields
  <2> QED BY <2>3 DEF Swaps
<1>14. old \in Nat \ Keys(m2)
  <2>1. old \in Keys(m) /\ Keys(m) \subseteq Nat
    BY <1>1, KeyFacts DEF n
  <2> QED BY <2>1, <1>13
<1>15. m.slot[s].obj \in BOOLEAN /\ (m.slot[s].obj <=> old \in Objects(m))
  <2>1. m.slot[s].obj \in BOOLEAN
    BY <1>1, TableFacts DEF n
  <2>2. m.slot[s].obj <=> old \in Objects(m)
    BY <1>1, KeyFacts DEF n
  <2> QED BY <2>1, <2>2
<1>16. /\ m2.slot[mainposition(m2, old)].id # -1
       /\ mainposition(m2, m2.slot[mainposition(m2, old)].id) = mainposition(m2, old)
  <2> DEFINE home == mainposition(m2, old)
  <2>1. home = Home(n, IdsOf(m), s)
    BY <1>1, <1>3, <1>c, MainIs DEF Home
  <2> HIDE DEF home
  <2>2. home \in Taken(n, IdsOf(m)) /\ Home(n, IdsOf(m), home) = home /\ home # s
    BY <2>1, <1>8, <1>a, <1>c DEF Linked, Rooted
  <2>3. home \in Slots(n) /\ IdsOf(m)[home] # -1
    BY <2>2 DEF Taken
  <2>4. m2.slot[home].id = m.slot[home].id
    BY <2>2, <2>3, <1>4, <1>6
  <2>5. mainposition(m2, m2.slot[home].id) = home
    BY <2>2, <2>3, <2>4, <1>3, <1>c, MainIs DEF Home
  <2> QED BY <2>3, <2>4, <2>5, <1>c DEF home
<1>17. Full(m2) <=> Full(m)
  <2>1. \A t \in Slots(n) : m2.slot[t].id = -1 <=> m.slot[t].id = -1
    BY <1>1, <1>4, <1>6
  <2> QED BY <2>1, <1>3 DEF Full, n
<1>18. HomeHeld(m2, old)
  BY <1>16 DEF HomeHeld
<1>19. Swaps(m, m2, old, id)
  BY <1>13 DEF Swaps
<1> QED BY <1>14, <1>15, <1>17, <1>18, <1>19 DEF m2, MadeWay

(* A free slot takes the entry, second on its chain. *)
LEMMA ChainedGood ==
  ASSUME NEW m, Good(m), NEW id \in Nat \ Keys(m), NEW s, s = mainposition(m, id),
         m.slot[s].id # -1, mainposition(m, m.slot[s].id) = s,
         NEW f, f = FreeSlot(m), ~Full(m)
  PROVE  Adds(m, Chained(m, s, f, id, TRUE), id)
<1> DEFINE n == m.size
           m2 == Chained(m, s, f, id, TRUE)
           new == [id |-> id, obj |-> TRUE, next |-> m.slot[s].next]
           link == [m.slot[s] EXCEPT !.next = f]
<1>1. IsTable(m) /\ n \in Nat \ {0} /\ s = Main(n, id) /\ s \in Slots(n)
  BY MainIs, MainRange DEF Good, IsTable
<1>2. /\ m.slot \in [Slots(n) -> Entry(n)] /\ m.slot[s] \in Entry(n)
      /\ m \in [size : Nat \ {0}, lastfree : Int, slot : [Slots(n) -> Entry(n)]]
  BY <1>1 DEF IsTable
<1>a. s \in Taken(n, IdsOf(m))
  BY <1>1, KeyFacts
<1>b. /\ f \in Slots(n) /\ m.slot[f].id = -1 /\ f # s
      /\ \A t \in Slots(n) : t > f => m.slot[t].id # -1
  BY FreeSlotFacts
<1>8. PICK r : Linked(n, IdsOf(m), NextOf(m), r)
  BY DEF Good
<1>c. /\ \A t \in Slots(n) : IdsOf(m)[t] = m.slot[t].id /\ NextOf(m)[t] = m.slot[t].next
      /\ Home(n, IdsOf(m), s) = s
  <2>1. \A t \in Slots(n) : IdsOf(m)[t] = m.slot[t].id /\ NextOf(m)[t] = m.slot[t].next
    BY <1>1, TableFacts
  <2> QED BY <2>1, <1>1, MainIs DEF Home
<1>3. /\ m2.size = n /\ m2.lastfree = f - 1
      /\ m2.slot = [m.slot EXCEPT ![f] = new, ![s] = link]
      /\ m2 = [size |-> n, lastfree |-> f - 1, slot |-> m2.slot]
  <2> DEFINE m1 == Put(m, f, id, TRUE, m.slot[s].next)
  <2>1. m2 = [m1 EXCEPT !.slot[s].next = f, !.lastfree = f - 1]
    BY DEF Chained
  <2>2. /\ m1.size = n /\ m1.lastfree = m.lastfree
        /\ m1.slot = [m.slot EXCEPT ![f] = new]
        /\ m1 = [size |-> n, lastfree |-> m.lastfree, slot |-> m1.slot]
    <3>1. m1 = [m EXCEPT !.slot[f] = new]
      BY DEF Put
    <3> HIDE DEF new, m1
    <3> QED BY <3>1, <1>2
  <2> HIDE DEF m1, m2, new
  <2>3. m1.slot[s] = m.slot[s]
    BY <2>2, <1>1, <1>2, <1>b
  <2>4. /\ m2.size = n /\ m2.lastfree = f - 1
        /\ m2.slot = [m1.slot EXCEPT ![s] = [m1.slot[s] EXCEPT !.next = f]]
        /\ m2 = [size |-> n, lastfree |-> f - 1, slot |-> m2.slot]
    BY <2>1, <2>2
  <2>5. m2.slot = [m.slot EXCEPT ![f] = new, ![s] = link]
    BY <2>2, <2>3, <2>4
  <2> QED BY <2>4, <2>5
<1>4. /\ new \in Entry(n) /\ link \in Entry(n)
      /\ link.id = m.slot[s].id /\ link.obj = m.slot[s].obj /\ link.next = f
  BY <1>2, <1>b DEF Entry
<1> HIDE DEF m2, n, link
<1>5. IsTable(m2)
  <2>1. m2.slot \in [Slots(n) -> Entry(n)]
    BY <1>2, <1>3, <1>4
  <2>2. f - 1 \in Int
    BY <1>b DEF Slots
  <2> QED BY <2>1, <2>2, <1>1, <1>3 DEF IsTable
<1>6. /\ m2.slot[f] = new /\ m2.slot[s] = link
      /\ \A t \in Slots(n) : t # s /\ t # f => m2.slot[t] = m.slot[t]
  BY <1>1, <1>2, <1>3, <1>b
<1>7. Takes(m, m2, f, id)
  <2>1. m2.slot[f].id = id /\ m2.slot[f].obj
    BY <1>6
  <2>2. m2.slot[s].id = m.slot[s].id /\ m2.slot[s].obj = m.slot[s].obj
    BY <1>4, <1>6
  <2>3. \A t \in Slots(n) : t # f =>
          m2.slot[t].id = m.slot[t].id /\ m2.slot[t].obj = m.slot[t].obj
    BY <2>2, <1>6
  <2> QED BY <2>1, <2>3, <1>3, <1>b DEF Takes, n
<1>9. \A t \in Slots(n) : IdsOf(m)[t] # id
  <2>1. \A t \in Slots(n) : m.slot[t].id # id
    BY KeyFacts DEF n
  <2> QED BY <2>1, <1>c
<1> DEFINE nx2 == [NextOf(m) EXCEPT ![f] = NextOf(m)[s], ![s] = f]
           r2 == Later(n, r, f)
<1>10. Linked(n, [IdsOf(m) EXCEPT ![f] = id], nx2, r2)
  <2>1. IdsOf(m)[f] = -1
    BY <1>b, <1>c
  <2> QED BY <2>1, <1>1, <1>8, <1>9, <1>a, <1>b, <1>c, LinkChain
<1>11. /\ nx2 = [t \in Slots(n) |-> nx2[t]]
       /\ \A t \in Slots(n) : nx2[t] = m2.slot[t].next
  <2>1. NextOf(m) = [t \in Slots(n) |-> m.slot[t].next]
    BY DEF NextOf, n
  <2>2. /\ nx2 = [t \in Slots(n) |-> nx2[t]] /\ nx2[s] = f /\ nx2[f] = m.slot[s].next
        /\ \A t \in Slots(n) : t # s /\ t # f => nx2[t] = m.slot[t].next
    BY <2>1, <1>1, <1>b
  <2>3. m2.slot[s].next = f /\ m2.slot[f].next = m.slot[s].next
    BY <1>4, <1>6
  <2> HIDE DEF nx2, new
  <2> QED BY <2>2, <2>3, <1>6
<1>12. /\ m2.lastfree \in Slots(n) \cup {-1}
       /\ \A t \in Slots(n) : t > m2.lastfree /\ t # f => m.slot[t].id # -1
  <2>1. \A t \in Slots(n) : t > f - 1 /\ t # f => t > f
    BY <1>b DEF Slots
  <2>2. f - 1 \in Slots(n) \cup {-1}
    BY <1>b, <1>1 DEF Slots
  <2> QED BY <2>1, <2>2, <1>3, <1>b
<1>13. /\ Good(m2) /\ m2.size = m.size
       /\ Keys(m2) = (Keys(m) \ {m.slot[f].id}) \cup {id}
       /\ Objects(m2) = (Objects(m) \ {m.slot[f].id}) \cup {id}
  <2> HIDE DEF nx2, r2
  <2>1. Fields(m, m2, f, id, nx2, r2)
    BY <1>5, <1>7, <1>10, <1>11, <1>12 DEF Fields, n
  <2>2. id \in Nat
    OBVIOUS
  <2>3. Swaps(m, m2, m.slot[f].id, id)
    BY <2>1, <2>2, GoodByFields
  <2> QED BY <2>3 DEF Swaps
<1>14. -1 \notin Keys(m) /\ -1 \notin Objects(m)
  BY KeyFacts
<1> QED BY <1>13, <1>14, <1>b DEF m2, Inserted, Adds

-----------------------------------------------------------------------------
(* map_insert and rehash. *)

(* The three branches of map_insert. *)
LEMMA FillBranch ==
  ASSUME NEW m, Good(m), NEW id \in Nat \ Keys(m), m.slot[mainposition(m, id)].id = -1
  PROVE  LET s == mainposition(m, id)
             m2 == Put(m, s, id, TRUE, m.slot[s].next)
         IN  /\ Inserted(m, m2, id) /\ m2.size = m.size
             /\ InsertGrown(m, id, TRUE) = m2
             /\ InsertAgain(m, id, TRUE) = m2
             /\ map_insert(m, id, TRUE) = m2
<1> DEFINE s == mainposition(m, id)
           m2 == Put(m, s, id, TRUE, m.slot[s].next)
<1>1. Inserted(m, m2, id) /\ m2.size = m.size
  <2> HIDE DEF s
  <2>1. s = mainposition(m, id) /\ m.slot[s].id = -1
    BY DEF s
  <2>2. Adds(m, m2, id)
    BY <2>1, FilledGood
  <2> QED BY <2>2 DEF Adds
<1>2. InsertGrown(m, id, TRUE) = m2
  BY DEF InsertGrown, Body, INVALID_ID
<1>3. InsertAgain(m, id, TRUE) = m2
  BY DEF InsertAgain, Body, INVALID_ID
<1>4. map_insert(m, id, TRUE) = m2
  BY DEF map_insert, Body, INVALID_ID
<1> QED BY <1>1, <1>2, <1>3, <1>4

LEMMA ChainBranch ==
  ASSUME NEW m, Good(m), NEW id \in Nat \ Keys(m), HomeHeld(m, id), ~Full(m)
  PROVE  LET m2 == Chained(m, mainposition(m, id), FreeSlot(m), id, TRUE)
         IN  /\ Inserted(m, m2, id) /\ m2.size = m.size
             /\ InsertMoved(m, id, TRUE) = m2
             /\ InsertGrown(m, id, TRUE) = m2
             /\ InsertAgain(m, id, TRUE) = m2
             /\ map_insert(m, id, TRUE) = m2
<1> DEFINE s == mainposition(m, id)
           f == FreeSlot(m)
           m2 == Chained(m, s, f, id, TRUE)
<1>1. m.slot[s].id # -1 /\ mainposition(m, m.slot[s].id) = s
  BY DEF HomeHeld
<1>2. f >= 0
  BY FreeSlotFacts
<1>3. Inserted(m, m2, id) /\ m2.size = m.size
  <2>1. s = mainposition(m, id) /\ f = FreeSlot(m)
    OBVIOUS
  <2> HIDE DEF s, f
  <2>2. Adds(m, Chained(m, s, f, id, TRUE), id)
    BY <1>1, <2>1, ChainedGood
  <2> QED BY <2>2 DEF Adds
<1>4. InsertMoved(m, id, TRUE) = m2
  BY <1>1, <1>2 DEF InsertMoved, Body, INVALID_ID
<1>5. InsertGrown(m, id, TRUE) = m2
  BY <1>1, <1>2 DEF InsertGrown, Body, INVALID_ID
<1>6. InsertAgain(m, id, TRUE) = m2
  BY <1>1, <1>2 DEF InsertAgain, Body, INVALID_ID
<1>7. map_insert(m, id, TRUE) = m2
  BY <1>1, <1>2 DEF map_insert, Body, INVALID_ID
<1> QED BY <1>3, <1>4, <1>5, <1>6, <1>7

(* The entry that makes way, and what is left to do for it. *)
LEMMA EvictBranch ==
  ASSUME NEW m, Good(m), NEW id \in Nat \ Keys(m), m.slot[mainposition(m, id)].id # -1,
         ~HomeHeld(m, id)
  PROVE  LET s == mainposition(m, id)
             old == m.slot[s].id
             m1 == Evicted(m, s, id, TRUE)
         IN  /\ Good(m1) /\ m1.size = m.size
             /\ old \in Nat \ Keys(m1) /\ HomeHeld(m1, old) /\ (Full(m1) <=> Full(m))
             /\ ~m.slot[s].obj => /\ Inserted(m, m1, id)
                                  /\ InsertGrown(m, id, TRUE) = m1
                                  /\ InsertAgain(m, id, TRUE) = m1
                                  /\ map_insert(m, id, TRUE) = m1
             /\ m.slot[s].obj => /\ InsertGrown(m, id, TRUE) = InsertMoved(m1, old, TRUE)
                                 /\ InsertAgain(m, id, TRUE) = InsertGrown(m1, old, TRUE)
                                 /\ map_insert(m, id, TRUE) = InsertAgain(m1, old, TRUE)
                                 /\ \A m2 : Inserted(m1, m2, old) => Inserted(m, m2, id)
<1> DEFINE s == mainposition(m, id)
           old == m.slot[s].id
           m1 == Evicted(m, s, id, TRUE)
<1>1. old # -1 /\ mainposition(m, old) # s
  BY DEF HomeHeld
<1>2. /\ Good(m1) /\ m1.size = m.size
      /\ Keys(m1) = (Keys(m) \ {old}) \cup {id}
      /\ Objects(m1) = (Objects(m) \ {old}) \cup {id}
      /\ old \in Nat \ Keys(m1)
      /\ HomeHeld(m1, old)
      /\ m.slot[s].obj \in BOOLEAN /\ (m.slot[s].obj <=> old \in Objects(m))
      /\ Full(m1) <=> Full(m)
  <2>1. s = mainposition(m, id)
    OBVIOUS
  <2> HIDE DEF s
  <2>2. MadeWay(m, m1, s, id)
    BY <1>1, <2>1, EvictedGood
  <2> QED BY <2>2 DEF MadeWay, Swaps
<1>3. CASE ~m.slot[s].obj
  <2>1. Inserted(m, m1, id)
    BY <1>2, <1>3 DEF Inserted
  <2>2. InsertGrown(m, id, TRUE) = m1
    BY <1>1, <1>3 DEF InsertGrown, Body, INVALID_ID
  <2>3. InsertAgain(m, id, TRUE) = m1
    BY <1>1, <1>3 DEF InsertAgain, Body, INVALID_ID
  <2>4. map_insert(m, id, TRUE) = m1
    BY <1>1, <1>3 DEF map_insert, Body, INVALID_ID
  <2> QED BY <1>2, <1>3, <2>1, <2>2, <2>3, <2>4
<1>4. CASE m.slot[s].obj
  <2>0. m.slot[s].obj = TRUE
    BY <1>2, <1>4
  <2>1. \A m2 : Inserted(m1, m2, old) => Inserted(m, m2, id)
    <3>1. old \in Objects(m) /\ Objects(m) \subseteq Keys(m)
      BY <1>2, <1>4, KeyFacts
    <3> HIDE DEF m1, old
    <3> QED BY <3>1, <1>2 DEF Inserted
  <2>2. InsertGrown(m, id, TRUE) = InsertMoved(m1, old, TRUE)
    BY <1>1, <2>0 DEF InsertGrown, Body, INVALID_ID
  <2>3. InsertAgain(m, id, TRUE) = InsertGrown(m1, old, TRUE)
    BY <1>1, <2>0 DEF InsertAgain, Body, INVALID_ID
  <2>4. map_insert(m, id, TRUE) = InsertAgain(m1, old, TRUE)
    BY <1>1, <2>0 DEF map_insert, Body, INVALID_ID
  <2> QED BY <1>2, <1>4, <2>1, <2>2, <2>3, <2>4
<1> QED BY <1>3, <1>4

(* A full table whose main position is held properly has to grow. *)
LEMMA GrowBranch ==
  ASSUME NEW m, Good(m), NEW id \in Nat \ Keys(m), HomeHeld(m, id), Full(m)
  PROVE  /\ InsertAgain(m, id, TRUE) = InsertGrown(rehash(m), id, TRUE)
         /\ map_insert(m, id, TRUE) = InsertAgain(rehash(m), id, TRUE)
<1> DEFINE s == mainposition(m, id)
<1>1. m.slot[s].id # -1 /\ mainposition(m, m.slot[s].id) = s
  BY DEF HomeHeld
<1>2. FreeSlot(m) = -1
  BY FreeSlotFacts DEF Full
<1>3. InsertAgain(m, id, TRUE) = InsertGrown(rehash(m), id, TRUE)
  BY <1>1, <1>2 DEF InsertAgain, Body, INVALID_ID
<1>4. map_insert(m, id, TRUE) = InsertAgain(rehash(m), id, TRUE)
  BY <1>1, <1>2 DEF map_insert, Body, INVALID_ID
<1> QED BY <1>3, <1>4

(* An insertion into a table with a free slot, also after an eviction. *)
LEMMA RoomGood ==
  ASSUME NEW m, Good(m), NEW id \in Nat \ Keys(m), ~Full(m)
  PROVE  /\ Inserted(m, InsertGrown(m, id, TRUE), id)
         /\ InsertGrown(m, id, TRUE).size = m.size
         /\ Inserted(m, InsertAgain(m, id, TRUE), id)
<1>1. CASE m.slot[mainposition(m, id)].id = -1
  BY <1>1, FillBranch
<1>2. CASE HomeHeld(m, id)
  BY <1>2, ChainBranch
<1>3. CASE m.slot[mainposition(m, id)].id # -1 /\ ~HomeHeld(m, id)
  <2> DEFINE old == m.slot[mainposition(m, id)].id
             m1 == Evicted(m, mainposition(m, id), id, TRUE)
             obj == m.slot[mainposition(m, id)].obj
  <2>1. /\ Good(m1) /\ m1.size = m.size
        /\ old \in Nat \ Keys(m1) /\ HomeHeld(m1, old) /\ ~Full(m1)
        /\ ~obj => /\ Inserted(m, m1, id)
                   /\ InsertGrown(m, id, TRUE) = m1
                   /\ InsertAgain(m, id, TRUE) = m1
        /\ obj => /\ InsertGrown(m, id, TRUE) = InsertMoved(m1, old, TRUE)
                  /\ InsertAgain(m, id, TRUE) = InsertGrown(m1, old, TRUE)
                  /\ \A m2 : Inserted(m1, m2, old) => Inserted(m, m2, id)
    BY <1>3, EvictBranch
  <2> HIDE DEF old, m1, obj
  <2>2. CASE ~obj
    BY <2>1, <2>2
  <2>3. CASE obj
    <3> DEFINE m2 == Chained(m1, mainposition(m1, old), FreeSlot(m1), old, TRUE)
    <3>1. /\ Inserted(m1, m2, old) /\ m2.size = m1.size
          /\ InsertMoved(m1, old, TRUE) = m2 /\ InsertGrown(m1, old, TRUE) = m2
      BY <2>1, ChainBranch
    <3> HIDE DEF m2
    <3> QED BY <2>1, <2>3, <3>1
  <2> QED BY <2>2, <2>3
<1> QED BY <1>1, <1>2, <1>3

(* A new table is empty. *)
LEMMA NewTable ==
  ASSUME NEW n \in Nat \ {0}
  PROVE  /\ Good(Table(n)) /\ Table(n).size = n
         /\ Keys(Table(n)) = {} /\ Objects(Table(n)) = {}
<1> DEFINE m == Table(n)
           free == [id |-> -1, obj |-> FALSE, next |-> -1]
<1>1. /\ m.size = n /\ m.lastfree = n - 1 /\ m.slot = [i \in Slots(n) |-> free]
      /\ m = [size |-> n, lastfree |-> n - 1, slot |-> m.slot]
  BY DEF Table, Slots, INVALID_ID
<1> HIDE DEF m
<1>2. IsTable(m)
  <2>1. free \in Entry(n)
    BY DEF Entry
  <2>2. m.slot \in [Slots(n) -> Entry(n)]
    BY <1>1, <2>1
  <2>3. m.size = n /\ n - 1 \in Int /\ m = [size |-> n, lastfree |-> n - 1, slot |-> m.slot]
    BY <1>1
  <2> QED BY <2>2, <2>3 DEF IsTable
<1>3. \A s \in Slots(n) : m.slot[s].id = -1 /\ m.slot[s].obj = FALSE /\ m.slot[s].next = -1
  BY <1>1
<1>4. Scanned(m)
  BY <1>1, <1>3 DEF Scanned, Slots
<1> DEFINE ids == IdsOf(m)
           nx == NextOf(m)
           r == [s \in Slots(n) |-> 0]
<1>5. /\ ids = [s \in Slots(n) |-> -1] /\ nx = [s \in Slots(n) |-> -1]
  BY <1>1, <1>3 DEF IdsOf, NextOf
<1>6. Taken(n, ids) = {}
  BY <1>5 DEF Taken
<1>7. Linked(n, ids, nx, r)
  <2>1. Typed(n, ids, nx, r)
    BY <1>5 DEF Typed
  <2>2. Single(n, ids, nx)
    BY <1>5, <1>6 DEF Single
  <2>3. Rooted(n, ids, r) /\ Leads(n, ids, nx, r) /\ Joined(n, ids, nx, r)
    BY <1>6 DEF Rooted, Leads, Joined
  <2> QED BY <2>1, <2>2, <2>3 DEF Linked
<1>8. Good(m)
  <2> HIDE DEF r
  <2> QED BY <1>1, <1>2, <1>4, <1>7 DEF Good
<1>9. Keys(m) = {} /\ Objects(m) = {}
  BY <1>1, <1>3, <1>6 DEF Keys, Objects
<1> QED BY <1>1, <1>8, <1>9 DEF m

(* A table of twice the size has room for the ids of a table. *)
LEMMA TwiceHasRoom ==
  ASSUME NEW m, Good(m), NEW b, Good(b), b.size = 2 * m.size, Keys(b) \subseteq Keys(m)
  PROVE  ~Full(b)
<1> SUFFICES ASSUME Full(b) PROVE FALSE
  OBVIOUS
<1> DEFINE n == m.size
           k == 2 * n - 1
           f == [i \in 0..k |-> CHOOSE s \in Slots(n) : m.slot[s].id = b.slot[i].id]
<1>1. n \in Nat \ {0} /\ k \in Nat /\ n <= k /\ Slots(b.size) = 0..k /\ Slots(n) = 0..(n - 1)
  BY DEF Good, IsTable, Slots
<1>2. ASSUME NEW i \in 0..k PROVE f[i] \in Slots(n) /\ m.slot[f[i]].id = b.slot[i].id
  <2>1. b.slot[i].id \in Keys(b)
    BY <1>1, KeyFacts DEF Full
  <2>2. \E s \in Slots(n) : m.slot[s].id = b.slot[i].id
    BY <2>1, KeyFacts
  <2> QED BY <2>2
<1>3. f \in [0..k -> 0..(n - 1)]
  BY <1>1, <1>2
<1>4. PICK i, j \in 0..k : i # j /\ f[i] = f[j]
  <2> HIDE DEF f, k, n
  <2> QED BY <1>1, <1>3, SlotsRunOut
<1>5. b.slot[i].id = b.slot[j].id
  <2> HIDE DEF f
  <2> QED BY <1>2, <1>4
<1> QED BY <1>1, <1>4, <1>5, KeyFacts DEF Full

(* The loop of rehash over the first n slots. *)
Refill(m, g, k) ==
  IF k = 0 THEN Table(2 * m.size)
  ELSE IF m.slot[k - 1].obj THEN InsertGrown(g[k - 1], m.slot[k - 1].id, m.slot[k - 1].obj)
                            ELSE g[k - 1]
Refills(m, g, n) == g = [k \in 0..n |-> Refill(m, g, k)]

LEMMA RefillsExist ==
  ASSUME NEW m
  PROVE  \A n \in Nat : \E g : Refills(m, g, n)
<1> DEFINE S == {n \in Nat : \E g : Refills(m, g, n)}
<1>1. 0 \in S
  <2>1. Refills(m, [k \in 0..0 |-> Table(2 * m.size)], 0)
    BY DEF Refills, Refill
  <2> QED BY <2>1
<1>2. ASSUME NEW n \in S PROVE n + 1 \in S
  <2>1. n \in Nat
    OBVIOUS
  <2>2. PICK g : Refills(m, g, n)
    OBVIOUS
  <2> DEFINE h == [k \in 0..(n + 1) |-> IF k = n + 1 THEN Refill(m, g, k) ELSE g[k]]
  <2>3. \A k \in 0..n : h[k] = g[k]
    BY <2>1
  <2>4. \A k \in 0..(n + 1) : Refill(m, h, k) = Refill(m, g, k)
    <3> HIDE DEF h
    <3>1. \A k \in 0..(n + 1) : k = 0 \/ k - 1 \in 0..n
      BY <2>1
    <3> QED BY <3>1, <2>3 DEF Refill
  <2>5. \A k \in 0..n : g[k] = Refill(m, g, k)
    BY <2>2 DEF Refills
  <2>6. \A k \in 0..(n + 1) : h[k] = Refill(m, h, k)
    <3>1. \A k \in 0..(n + 1) : h[k] = Refill(m, g, k)
      BY <2>1, <2>5
    <3> HIDE DEF h
    <3> QED BY <3>1, <2>4
  <2>7. h = [k \in 0..(n + 1) |-> h[k]]
    OBVIOUS
  <2>8. Refills(m, h, n + 1)
    <3> HIDE DEF h
    <3> QED BY <2>6, <2>7 DEF Refills
  <2> QED BY <2>1, <2>8
<1>3. S = Nat
  <2>1. S \in SUBSET Nat
    OBVIOUS
  <2> HIDE DEF S
  <2> QED BY <2>1, <1>1, <1>2, RoundInduction
<1> QED BY <1>3

LEMMA RehashRounds ==
  ASSUME NEW m, m.size \in Nat
  PROVE  \E g : /\ g[0] = Table(2 * m.size)
                /\ \A k \in 0..(m.size - 1) :
                     g[k + 1] = IF m.slot[k].obj
                                  THEN InsertGrown(g[k], m.slot[k].id, m.slot[k].obj)
                                  ELSE g[k]
                /\ rehash(m) = g[m.size]
<1>1. PICK g : Refills(m, g, m.size)
  BY RefillsExist
<1> DEFINE P(Into) == Into = [k \in 0..m.size |->
             IF k = 0 THEN Table(2 * m.size)
             ELSE LET s == m.slot[k - 1] IN
                  IF s.obj THEN InsertGrown(Into[k - 1], s.id, s.obj) ELSE Into[k - 1]]
           w == CHOOSE Into : P(Into)
<1>2. P(g)
  BY <1>1 DEF Refills, Refill
<1>3. P(w)
  <2> HIDE DEF P
  <2> QED BY <1>2
<1>4. rehash(m) = w[m.size]
  BY Zenon DEF rehash
<1>5. \A k \in 0..m.size : w[k] = Refill(m, w, k)
  <2> HIDE DEF w
  <2> QED BY <1>3 DEF Refill
<1> HIDE DEF w
<1>6. w[0] = Table(2 * m.size)
  BY <1>5 DEF Refill
<1>7. ASSUME NEW k \in 0..(m.size - 1)
      PROVE  w[k + 1] = IF m.slot[k].obj
                          THEN InsertGrown(w[k], m.slot[k].id, m.slot[k].obj) ELSE w[k]
  <2>1. k + 1 \in 0..m.size /\ k + 1 # 0 /\ k + 1 - 1 = k
    OBVIOUS
  <2>2. w[k + 1] = Refill(m, w, k + 1)
    BY <1>5, <2>1
  <2> QED BY <2>1, <2>2 DEF Refill
<1> QED BY <1>4, <1>6, <1>7

(* A table that grows keeps its objects, and no other id. *)
LEMMA RehashGood ==
  ASSUME NEW m, Good(m)
  PROVE  /\ Good(rehash(m)) /\ ~Full(rehash(m))
         /\ Keys(rehash(m)) = Objects(m) /\ Objects(rehash(m)) = Objects(m)
<1> DEFINE n == m.size
           Among(k) == {m.slot[s].id : s \in {t \in Slots(n) : t < k /\ m.slot[t].obj}}
<1>1. n \in Nat \ {0} /\ Slots(n) = 0..(n - 1) /\ IsTable(m)
  BY DEF Good, IsTable, Slots
<1>2. PICK g : /\ g[0] = Table(2 * n)
               /\ \A k \in 0..(n - 1) :
                    g[k + 1] = IF m.slot[k].obj
                                 THEN InsertGrown(g[k], m.slot[k].id, m.slot[k].obj)
                                 ELSE g[k]
               /\ rehash(m) = g[n]
  BY <1>1, RehashRounds
<1> DEFINE So(k) == /\ Good(g[k]) /\ g[k].size = 2 * n
                    /\ Keys(g[k]) = Among(k) /\ Objects(g[k]) = Among(k)
           S == {k \in Nat : k <= n => So(k)}
<1>3. \A k : Among(k) \subseteq Objects(m) /\ Objects(m) \subseteq Keys(m)
  BY KeyFacts DEF Objects
<1>4. 0 \in S
  <2>1. Among(0) = {}
    BY <1>1
  <2> DEFINE d == 2 * n
             b == g[0]
  <2>2. d \in Nat \ {0} /\ b = Table(d)
    BY <1>1, <1>2
  <2>3. So(0)
    <3> HIDE DEF Among, b, d
    <3>1. Good(b) /\ b.size = d /\ Keys(b) = {} /\ Objects(b) = {}
      BY <2>2, NewTable
    <3> QED BY <2>1, <3>1 DEF b, d
  <2> QED BY <2>3
<1>5. ASSUME NEW k \in S PROVE k + 1 \in S
  <2> SUFFICES ASSUME k + 1 <= n PROVE So(k + 1)
    OBVIOUS
  <2>1. k \in Nat /\ k \in 0..(n - 1) /\ k \in Slots(n) /\ k <= n
    BY <1>1
  <2>2. So(k)
    BY <2>1
  <2>3. g[k + 1] = IF m.slot[k].obj THEN InsertGrown(g[k], m.slot[k].id, m.slot[k].obj)
                                    ELSE g[k]
    BY <2>1, <1>2
  <2>4. \A t \in Slots(n) : t < k + 1 <=> t < k \/ t = k
    BY <2>1, <1>1
  <2>5. CASE ~m.slot[k].obj
    <3>1. Among(k + 1) = Among(k)
      BY <2>4, <2>5
    <3>2. g[k + 1] = g[k]
      BY <2>3, <2>5
    <3> HIDE DEF Among
    <3> QED BY <2>2, <3>1, <3>2
  <2>6. CASE m.slot[k].obj
    <3> DEFINE id == m.slot[k].id
    <3>1. m.slot[k].obj = TRUE
      BY <2>1, <2>6, <1>1, TableFacts
    <3>2. Among(k + 1) = Among(k) \cup {id}
      BY <2>1, <2>4, <2>6
    <3>3. id \in Nat /\ id \notin Among(k)
      <4>1. id # -1 /\ id \in Keys(m) /\ Keys(m) \subseteq Nat
        BY <2>1, <2>6, KeyFacts
      <4>2. \A t \in Slots(n) : m.slot[t].id = id => t = k
        BY <2>1, <4>1, KeyFacts
      <4> QED BY <2>1, <4>1, <4>2
    <3>4. g[k + 1] = InsertGrown(g[k], id, TRUE)
      BY <2>3, <3>1
    <3> HIDE DEF Among, id
    <3>5. ~Full(g[k])
      BY <2>2, <1>3, TwiceHasRoom
    <3>6. Inserted(g[k], g[k + 1], id) /\ g[k + 1].size = g[k].size
      <4>1. id \in Nat \ Keys(g[k])
        BY <2>2, <3>3
      <4> DEFINE b == g[k]
                 c == g[k + 1]
      <4>2. Good(b) /\ ~Full(b) /\ id \in Nat \ Keys(b) /\ c = InsertGrown(b, id, TRUE)
        BY <2>2, <3>4, <3>5, <4>1
      <4> HIDE DEF b, c
      <4>3. Inserted(b, c, id) /\ c.size = b.size
        BY <4>2, RoomGood
      <4> QED BY <4>3 DEF b, c
    <3>7. /\ Good(g[k + 1]) /\ Objects(g[k + 1]) = Among(k) \cup {id}
          /\ Keys(g[k + 1]) \subseteq Among(k) \cup {id}
      BY <2>2, <3>6 DEF Inserted
    <3>8. Objects(g[k + 1]) \subseteq Keys(g[k + 1])
      BY <3>7, KeyFacts
    <3> QED BY <2>2, <3>2, <3>6, <3>7, <3>8
  <2> QED BY <2>5, <2>6
<1>6. S = Nat
  <2>1. S \in SUBSET Nat
    OBVIOUS
  <2> HIDE DEF S
  <2> QED BY <2>1, <1>4, <1>5, RoundInduction
<1>7. So(n)
  <2>1. n \in S
    BY <1>1, <1>6
  <2> HIDE DEF So
  <2> QED BY <1>1, <2>1
<1>8. Among(n) = Objects(m)
  BY <1>1 DEF Objects
<1> HIDE DEF Among
<1>9. ~Full(g[n])
  BY <1>3, <1>7, TwiceHasRoom
<1> QED BY <1>2, <1>7, <1>8, <1>9

(* map_insert ends with an entry for id, whatever had to make way or grow. *)
LEMMA InsertGood ==
  ASSUME NEW m, Good(m), NEW id \in Nat \ Keys(m)
  PROVE  Inserted(m, map_insert(m, id, TRUE), id)
<1>1. ASSUME NEW b, Good(b), NEW i \in Nat \ Keys(b)
      PROVE  /\ Inserted(b, InsertGrown(rehash(b), i, TRUE), i)
             /\ Inserted(b, InsertAgain(rehash(b), i, TRUE), i)
  <2> DEFINE c == rehash(b)
  <2>1. Good(c) /\ ~Full(c) /\ Keys(c) = Objects(b) /\ Objects(c) = Objects(b)
    BY <1>1, RehashGood
  <2>2. Objects(b) \subseteq Keys(b)
    BY <1>1, KeyFacts
  <2> HIDE DEF c
  <2>3. Inserted(c, InsertGrown(c, i, TRUE), i) /\ Inserted(c, InsertAgain(c, i, TRUE), i)
    BY <1>1, <2>1, <2>2, RoomGood
  <2>4. \A x : Inserted(c, x, i) => Inserted(b, x, i)
    BY <2>1, <2>2 DEF Inserted
  <2> QED BY <2>3, <2>4 DEF c
<1>2. ASSUME NEW b, Good(b), NEW i \in Nat \ Keys(b), HomeHeld(b, i)
      PROVE  Inserted(b, InsertAgain(b, i, TRUE), i) /\ Inserted(b, map_insert(b, i, TRUE), i)
  <2>1. CASE Full(b)
    BY <1>1, <1>2, <2>1, GrowBranch
  <2>2. CASE ~Full(b)
    BY <1>2, <2>2, ChainBranch
  <2> QED BY <2>1, <2>2
<1>3. CASE m.slot[mainposition(m, id)].id = -1
  BY <1>3, FillBranch
<1>4. CASE HomeHeld(m, id)
  BY <1>2, <1>4
<1>5. CASE m.slot[mainposition(m, id)].id # -1 /\ ~HomeHeld(m, id)
  <2> DEFINE old == m.slot[mainposition(m, id)].id
             m1 == Evicted(m, mainposition(m, id), id, TRUE)
             obj == m.slot[mainposition(m, id)].obj
  <2>1. /\ Good(m1) /\ old \in Nat \ Keys(m1) /\ HomeHeld(m1, old)
        /\ ~obj => Inserted(m, m1, id) /\ map_insert(m, id, TRUE) = m1
        /\ obj => /\ map_insert(m, id, TRUE) = InsertAgain(m1, old, TRUE)
                  /\ \A m2 : Inserted(m1, m2, old) => Inserted(m, m2, id)
    BY <1>5, EvictBranch
  <2> HIDE DEF old, m1, obj
  <2>2. obj => Inserted(m1, InsertAgain(m1, old, TRUE), old)
    BY <2>1, <1>2
  <2> QED BY <2>1, <2>2
<1> QED BY <1>3, <1>4, <1>5

-----------------------------------------------------------------------------
(* The calls of the engine. *)

LEMMA LookupFacts ==
  ASSUME NEW m, Good(m), NEW id \in Nat
  PROVE  \/ /\ Lookup(m, id) \in Taken(m.size, IdsOf(m)) /\ Lookup(m, id) \in Slots(m.size)
            /\ Lookup(m, id) >= 0 /\ m.slot[Lookup(m, id)].id = id
            /\ id \in Keys(m) /\ (m.slot[Lookup(m, id)].obj <=> id \in Objects(m))
         \/ Lookup(m, id) = -1 /\ id \notin Keys(m)
<1>1. CASE id \in Keys(m)
  <2>1. PICK s \in Slots(m.size) : m.slot[s].id = id /\ id # -1
    BY <1>1, KeyFacts
  <2>2. s \in Taken(m.size, IdsOf(m))
    BY <2>1, KeyFacts
  <2>3. Lookup(m, id) = s
    BY <2>1, <2>2, LookupFinds
  <2>4. s >= 0
    BY DEF Slots
  <2>5. m.slot[s].obj <=> id \in Objects(m)
    BY <2>1, KeyFacts
  <2> QED BY <1>1, <2>1, <2>2, <2>3, <2>4, <2>5
<1>2. CASE id \notin Keys(m)
  <2>1. \A s \in Slots(m.size) : m.slot[s].id # id
    BY <1>2, KeyFacts
  <2> QED BY <1>2, <2>1, LookupMisses
<1> QED BY <1>1, <1>2

(* An object is made in, or dropped from, the slot of its id. *)
LEMMA FlagGood ==
  ASSUME NEW m, Good(m), NEW s \in Taken(m.size, IdsOf(m)), NEW b \in BOOLEAN
  PROVE  LET m2 == [m EXCEPT !.slot[s].obj = b]
             id == m.slot[s].id
         IN  /\ Good(m2)
             /\ Objects(m2) = IF b THEN Objects(m) \cup {id} ELSE Objects(m) \ {id}
<1> DEFINE n == m.size
           m2 == [m EXCEPT !.slot[s].obj = b]
           id == m.slot[s].id
           e == [m.slot[s] EXCEPT !.obj = b]
<1>1. IsTable(m) /\ n \in Nat \ {0} /\ s \in Slots(n)
  BY DEF Good, IsTable, Taken
<1>2. /\ m.slot \in [Slots(n) -> Entry(n)] /\ m.slot[s] \in Entry(n)
      /\ m \in [size : Nat \ {0}, lastfree : Int, slot : [Slots(n) -> Entry(n)]]
  BY <1>1 DEF IsTable
<1>3. /\ e \in Entry(n) /\ e.id = id /\ e.obj = b /\ e.next = m.slot[s].next
  BY <1>2 DEF Entry
<1>4. m2.size = n /\ m2.lastfree = m.lastfree /\ m2.slot = [m.slot EXCEPT ![s] = e]
  BY <1>2
<1>5. m2 = [size |-> n, lastfree |-> m.lastfree, slot |-> m2.slot]
  BY <1>2
<1> HIDE DEF m2, n, e
<1>6. IsTable(m2)
  <2>1. m2.slot \in [Slots(n) -> Entry(n)]
    BY <1>2, <1>3, <1>4
  <2>2. m.lastfree \in Int
    BY <1>2
  <2> QED BY <2>1, <2>2, <1>1, <1>4, <1>5 DEF IsTable
<1>7. /\ m2.slot[s] = e
      /\ \A t \in Slots(n) : t # s => m2.slot[t] = m.slot[t]
  BY <1>1, <1>2, <1>4
<1>8. \A t \in Slots(n) : m2.slot[t].id = m.slot[t].id /\ m2.slot[t].next = m.slot[t].next
  BY <1>3, <1>7
<1>9. IdsOf(m2) = IdsOf(m) /\ NextOf(m2) = NextOf(m)
  BY <1>4, <1>8 DEF IdsOf, NextOf, n
<1>10. id # -1
  BY <1>1, KeyFacts DEF n
<1>11. Scanned(m2)
  <2> SUFFICES ASSUME NEW t \in Slots(n), m2.slot[t].id = -1
               PROVE  t <= m2.lastfree /\ ~m2.slot[t].obj
    BY <1>4 DEF Scanned, Good, n
  <2>1. t # s /\ m2.slot[t] = m.slot[t]
    BY <1>7, <1>8, <1>10
  <2> QED BY <2>1, <1>4 DEF Good, Scanned, n
<1>12. Good(m2)
  BY <1>4, <1>6, <1>9, <1>11 DEF Good, n
<1>13. \A k : k \in Objects(m2) <=> IF b THEN k \in Objects(m) \/ k = id
                                        ELSE k \in Objects(m) /\ k # id
  <2> SUFFICES ASSUME NEW k
               PROVE  k \in Objects(m2) <=> IF b THEN k \in Objects(m) \/ k = id
                                                 ELSE k \in Objects(m) /\ k # id
    OBVIOUS
  <2>1. k \in Objects(m2) <=> \E t \in Slots(n) : m2.slot[t].id = k /\ m2.slot[t].obj
    BY <1>4, <1>12, KeyFacts
  <2>2. k \in Objects(m) <=> \E t \in Slots(n) : m.slot[t].id = k /\ m.slot[t].obj
    BY KeyFacts DEF n
  <2>3. \A t \in Slots(n) : m.slot[t].id = id => t = s
    BY <1>1, <1>10, KeyFacts DEF n
  <2>4. m2.slot[s].obj = b /\ \A t \in Slots(n) : t # s => m2.slot[t].obj = m.slot[t].obj
    BY <1>3, <1>7
  <2>5. CASE k = id
    <3>1. k \in Objects(m2) <=> b
      BY <2>1, <2>3, <2>4, <2>5, <1>1, <1>8
    <3> QED BY <3>1, <2>5
  <2>6. CASE k # id
    <3>1. k \in Objects(m2) <=> k \in Objects(m)
      BY <2>1, <2>2, <2>4, <2>6, <1>8
    <3> QED BY <3>1, <2>6
  <2> QED BY <2>5, <2>6
<1>14. Objects(m2) = IF b THEN Objects(m) \cup {id} ELSE Objects(m) \ {id}
  BY <1>13
<1> QED BY <1>12, <1>14 DEF m2

(* The inductive invariant: the table is in order and its objects are      *)
(* those that were made and not freed.                                     *)
MapInv ==
  /\ Good(map)
  /\ made \in [Id -> Nat]
  /\ \A id \in Id : made[id] = IF id \in Objects(map) THEN 1 ELSE 0

LEMMA MapStart == MapInit => MapInv
<1> SUFFICES ASSUME MapInit PROVE MapInv
  OBVIOUS
<1>1. map = Table(PRE_ALLOC) /\ PRE_ALLOC \in Nat \ {0} /\ made = [id \in Id |-> 0]
  BY IdMapAssumption DEF MapInit, map_new
<1>2. Good(map) /\ Objects(map) = {}
  BY <1>1, NewTable
<1> QED BY <1>1, <1>2 DEF MapInv

LEMMA QueryKeeps ==
  ASSUME MapInv, NEW id \in Id, map_query(id)
  PROVE  MapInv'
<1> DEFINE s == Lookup(map, id)
<1>0. id \in Nat
  BY IdMapAssumption
<1>1. /\ Good(map) /\ made \in [Id -> Nat]
      /\ \A i \in Id : made[i] = IF i \in Objects(map) THEN 1 ELSE 0
  BY DEF MapInv
<1>2. \/ /\ s \in Taken(map.size, IdsOf(map)) /\ s >= 0 /\ map.slot[s].id = id
         /\ map.slot[s].obj <=> id \in Objects(map)
      \/ s = -1 /\ id \notin Keys(map)
  BY <1>0, <1>1, LookupFacts
<1>3. /\ s >= 0 => /\ map' = [map EXCEPT !.slot[s].obj = TRUE]
                   /\ made' = IF map.slot[s].obj THEN made ELSE [made EXCEPT ![id] = @ + 1]
      /\ ~(s >= 0) => /\ map' = map_insert(map, id, TRUE)
                      /\ made' = [made EXCEPT ![id] = @ + 1]
  BY DEF map_query
<1> HIDE DEF s
<1>4. Good(map') /\ Objects(map') = Objects(map) \cup {id}
  <2>1. CASE s \in Taken(map.size, IdsOf(map)) /\ s >= 0 /\ map.slot[s].id = id
    <3>1. map' = [map EXCEPT !.slot[s].obj = TRUE]
      BY <2>1, <1>3
    <3> QED BY <1>1, <2>1, <3>1, FlagGood
  <2>2. CASE s = -1 /\ id \notin Keys(map)
    <3>1. map' = map_insert(map, id, TRUE)
      BY <2>2, <1>3
    <3>2. Inserted(map, map', id)
      BY <1>0, <1>1, <2>2, <3>1, InsertGood
    <3> QED BY <3>2 DEF Inserted
  <2> QED BY <2>1, <2>2, <1>2
<1>5. made' = IF id \in Objects(map) THEN made ELSE [made EXCEPT ![id] = @ + 1]
  <2>1. Objects(map) \subseteq Keys(map)
    BY <1>1, KeyFacts
  <2>2. CASE s >= 0 /\ (map.slot[s].obj <=> id \in Objects(map))
    BY <2>2, <1>3
  <2>3. CASE s = -1 /\ id \notin Keys(map)
    <3>1. ~(s >= 0) /\ id \notin Objects(map)
      BY <2>1, <2>3
    <3> QED BY <3>1, <1>3
  <2> QED BY <2>2, <2>3, <1>2
<1>6. made' \in [Id -> Nat] /\ \A i \in Id : made'[i] = IF i \in Objects(map') THEN 1 ELSE 0
  BY <1>1, <1>4, <1>5
<1> QED BY <1>4, <1>6 DEF MapInv

LEMMA DropKeeps ==
  ASSUME MapInv, NEW id \in Id, map_drop(id)
  PROVE  MapInv'
<1> DEFINE s == Lookup(map, id)
<1>0. id \in Nat
  BY IdMapAssumption
<1>1. /\ Good(map) /\ made \in [Id -> Nat]
      /\ \A i \in Id : made[i] = IF i \in Objects(map) THEN 1 ELSE 0
  BY DEF MapInv
<1>2. \/ /\ s \in Taken(map.size, IdsOf(map)) /\ s >= 0 /\ map.slot[s].id = id
      \/ s = -1 /\ id \notin Keys(map)
  BY <1>0, <1>1, LookupFacts
<1>3. /\ made[id] > 0 /\ made' = [made EXCEPT ![id] = @ - 1]
      /\ map' = IF s >= 0 THEN [map EXCEPT !.slot[s].obj = FALSE] ELSE map
  BY DEF map_drop
<1> HIDE DEF s
<1>4. id \in Objects(map) /\ made[id] = 1
  BY <1>1, <1>3
<1>5. s \in Taken(map.size, IdsOf(map)) /\ s >= 0 /\ map.slot[s].id = id
  <2>1. Objects(map) \subseteq Keys(map)
    BY <1>1, KeyFacts
  <2> QED BY <2>1, <1>2, <1>4
<1>6. Good(map') /\ Objects(map') = Objects(map) \ {id}
  <2>1. map' = [map EXCEPT !.slot[s].obj = FALSE]
    BY <1>3, <1>5
  <2> QED BY <1>1, <1>5, <2>1, FlagGood
<1>7. made' \in [Id -> Nat] /\ \A i \in Id : made'[i] = IF i \in Objects(map') THEN 1 ELSE 0
  <2>1. made'[id] = 0 /\ \A i \in Id : i # id => made'[i] = made[i]
    BY <1>1, <1>3, <1>4
  <2>2. made' \in [Id -> Nat]
    BY <1>1, <1>3, <1>4
  <2> QED BY <2>1, <2>2, <1>1, <1>6
<1> QED BY <1>6, <1>7 DEF MapInv

(* map_query and map_drop keep the table in order for any ids and any      *)
(* initial size: chains are whole, every slot above lastfree is taken, and *)
(* a slot has an object exactly if one was made for its id and not freed.  *)
THEOREM MapInvAlways == MapSpec => []MapInv
<1>1. MapInv /\ [MapNext]_mapvars => MapInv'
  <2> SUFFICES ASSUME MapInv, [MapNext]_mapvars PROVE MapInv'
    OBVIOUS
  <2>1. CASE UNCHANGED mapvars
    BY <2>1 DEF mapvars, MapInv
  <2>2. CASE MapNext
    BY <2>2, QueryKeeps, DropKeeps DEF MapNext
  <2> QED BY <2>1, <2>2
<1> QED BY <1>1, MapStart, PTL DEF MapSpec

(* The map is a function of ids: map_query makes no second object for an   *)
(* id that has one, and map_drop finds every object it is to drop, after   *)
(* any evictions by map_insert and any number of rehash calls.             *)
THEOREM LookupExactAlways == MapSpec => []LookupExact
<1>1. MapInv => LookupExact
  <2> SUFFICES ASSUME MapInv PROVE LookupExact
    OBVIOUS
  <2>1. /\ Good(map)
        /\ \A id \in Id : made[id] = IF id \in Objects(map) THEN 1 ELSE 0
    BY DEF MapInv
  <2>2. ASSUME NEW id \in Id
        PROVE  Lookup(map, id) >= 0 /\ map.slot[Lookup(map, id)].obj <=> id \in Objects(map)
    <3>1. id \in Nat
      BY IdMapAssumption
    <3>2. Objects(map) \subseteq Keys(map)
      BY <2>1, KeyFacts
    <3> QED BY <2>1, <3>1, <3>2, LookupFacts
  <2>3. ASSUME NEW s \in Occupied(map), NEW t \in Occupied(map),
               map.slot[s].id = map.slot[t].id
        PROVE  s = t
    <3>1. DOMAIN map.slot = Slots(map.size)
      BY <2>1, TableFacts DEF Good
    <3> QED BY <2>1, <2>3, <3>1, KeyFacts DEF Occupied, INVALID_ID
  <2> QED BY <2>1, <2>2, <2>3 DEF LookupExact
<1> QED BY <1>1, MapInvAlways, PTL

(* assert(last->next >= 0) in map_insert never fails: every entry, also    *)
(* one without an object, is on the chain of its main position, and a      *)
(* chain never strays into another one.                                    *)
THEOREM ChainsLeadAlways == MapSpec => []ChainsLead
<1>1. MapInv => ChainsLead
  <2> SUFFICES ASSUME MapInv, NEW s \in Occupied(map)
               PROVE  /\ Lookup(map, map.slot[s].id) = s
                      /\ map.slot[s].next >= 0 =>
                           /\ map.slot[map.slot[s].next].id # INVALID_ID
                           /\ mainposition(map, map.slot[map.slot[s].next].id)
                                = mainposition(map, map.slot[s].id)
    BY DEF ChainsLead
  <2> DEFINE n == map.size
             ids == IdsOf(map)
             next == map.slot[s].next
  <2>1. Good(map) /\ IsTable(map)
    BY DEF MapInv, Good
  <2>2. s \in Slots(n) /\ s \in Taken(n, ids)
    BY <2>1, TableFacts, KeyFacts DEF Occupied, INVALID_ID
  <2>3. Lookup(map, map.slot[s].id) = s
    BY <2>1, <2>2, LookupFinds
  <2>4. ASSUME next >= 0
        PROVE  /\ map.slot[next].id # -1
               /\ Main(n, map.slot[next].id) = Main(n, map.slot[s].id)
    <3>1. PICK r : Linked(n, ids, NextOf(map), r)
      BY <2>1 DEF Good
    <3>2. NextOf(map)[s] = next /\ next # -1
      BY <2>1, <2>2, <2>4, TableFacts
    <3>3. next \in Taken(n, ids) /\ Home(n, ids, next) = Home(n, ids, s)
      BY <2>2, <3>1, <3>2 DEF Linked, Leads
    <3>4. next \in Slots(n)
      BY <3>3 DEF Taken
    <3>5. ids[next] = map.slot[next].id /\ ids[s] = map.slot[s].id
      BY <2>1, <2>2, <3>4, TableFacts
    <3> QED BY <3>3, <3>5 DEF Home, Taken
  <2> QED BY <2>3, <2>4, MainIs DEF INVALID_ID
<1> QED BY <1>1, MapInvAlways, PTL

-----------------------------------------------------------------------------
(* The ring buffer of skynet_mq.c. *)

(* The part of TypeOK that says the ring is well formed: the inductive     *)
(* invariant of the refinement.  It leaves the overload alarm out.         *)
RingOK ==
  /\ cap \in Nat \ {0}
  /\ head \in 0 .. cap - 1
  /\ tail \in 0 .. cap - 1
  /\ buf \in [0 .. cap - 1 -> Message \cup {Junk}]

LEMMA InitRing == Init => RingOK /\ F!Init
<1> SUFFICES ASSUME Init PROVE RingOK /\ F!Init
  OBVIOUS
<1>1. RingOK
  BY CapAssumption DEF Init, RingOK
<1>2. Contents = <<>>
  BY CapAssumption DEF Init, Contents, skynet_mq_length
<1> QED BY <1>1, <1>2 DEF F!Init, Init

(* What Contents is, position by position. *)
LEMMA ContentsFacts ==
  ASSUME RingOK
  PROVE  /\ skynet_mq_length \in 0 .. cap - 1
         /\ \A i \in 1 .. skynet_mq_length : Ith(i) \in 0 .. cap - 1
         /\ Contents \in Seq(Message \cup {Junk})
         /\ Len(Contents) = skynet_mq_length
<1>1. skynet_mq_length \in 0 .. cap - 1
  BY DEF RingOK, skynet_mq_length
<1>2. \A i \in 1 .. skynet_mq_length : Ith(i) \in 0 .. cap - 1
  BY <1>1 DEF RingOK, Ith
<1>3. \A i \in 1 .. skynet_mq_length : buf[Ith(i)] \in Message \cup {Junk}
  BY <1>2 DEF RingOK
<1> QED BY <1>1, <1>2, <1>3 DEF Contents

(* Append and Tail, position by position. *)
LEMMA AppendIsFunction ==
  ASSUME NEW S, NEW s \in Seq(S), NEW m \in S
  PROVE  Append(s, m) = [i \in 1 .. Len(s) + 1 |-> IF i <= Len(s) THEN s[i] ELSE m]
<1> DEFINE r == [i \in 1 .. Len(s) + 1 |-> IF i <= Len(s) THEN s[i] ELSE m]
<1>1. Len(s) \in Nat /\ \A i \in 1 .. Len(s) : s[i] \in S
  BY ElementOfSeq
<1>2. r \in Seq(S) /\ Len(r) = Len(s) + 1
  BY <1>1
<1>3. \A i \in 1 .. Len(r) : r[i] = Append(s, m)[i]
  BY <1>1, <1>2, AppendProperties
<1> HIDE DEF r
<1>4. r = Append(s, m)
  BY <1>2, <1>3, SeqEqual, AppendProperties
<1> QED BY <1>4 DEF r

LEMMA TailIsFunction ==
  ASSUME NEW S, NEW s \in Seq(S), s # <<>>
  PROVE  Tail(s) = [i \in 1 .. Len(s) - 1 |-> s[i + 1]]
<1> DEFINE r == [i \in 1 .. Len(s) - 1 |-> s[i + 1]]
<1>1. Len(s) \in Nat /\ Len(s) > 0
  BY EmptySeq
<1>2. \A i \in 1 .. Len(s) - 1 : s[i + 1] \in S
  BY <1>1, ElementOfSeq
<1>3. r \in Seq(S) /\ Len(r) = Len(s) - 1
  BY <1>1, <1>2
<1>4. /\ Tail(s) \in Seq(S) /\ Len(Tail(s)) = Len(s) - 1
      /\ \A i \in 1 .. Len(s) - 1 : Tail(s)[i] = s[i + 1]
  BY HeadTailProperties
<1>5. \A i \in 1 .. Len(r) : r[i] = Tail(s)[i]
  BY <1>3, <1>4
<1> HIDE DEF r
<1>6. r = Tail(s)
  BY <1>3, <1>4, <1>5, SeqEqual
<1> QED BY <1>6 DEF r

LEMMA PushStep ==
  ASSUME RingOK, NEW m \in Message, skynet_mq_push(m)
  PROVE  RingOK' /\ F!Push(m)
<1> DEFINE n == skynet_mq_length
           t == Advance(tail)
<1>1. n \in 0 .. cap - 1 /\ t \in 0 .. cap - 1
  BY ContentsFacts DEF RingOK, Advance
<1>2. CASE head # t
  <2>1. /\ buf' = [buf EXCEPT ![tail] = m] /\ tail' = t
        /\ head' = head /\ cap' = cap
    BY <1>2 DEF skynet_mq_push
  <2>2. RingOK'
    BY <1>1, <2>1 DEF RingOK
  <2>3. n' = n + 1
    BY <1>2, <2>1 DEF RingOK, skynet_mq_length, Advance
  <2>4. \A i \in 1 .. n + 1 : Ith(i)' = Ith(i)
    BY <2>1 DEF Ith
  <2>5. Ith(n + 1) = tail /\ \A i \in 1 .. n : Ith(i) # tail /\ Ith(i) \in 0 .. cap - 1
    BY <1>1 DEF RingOK, Ith, skynet_mq_length
  <2>6. \A i \in 1 .. n + 1 : buf'[Ith(i)'] = IF i <= n THEN buf[Ith(i)] ELSE m
    <3> TAKE i \in 1 .. n + 1
    <3>1. i <= n => i \in 1 .. n
      BY <1>1
    <3>2. ~(i <= n) => i = n + 1
      BY <1>1
    <3> HIDE DEF n
    <3> QED BY <2>1, <2>4, <2>5, <3>1, <3>2 DEF RingOK
  <2>7. Contents' = [i \in 1 .. n + 1 |-> IF i <= n THEN buf[Ith(i)] ELSE m]
    BY <2>3, <2>6 DEF Contents
  <2>8. Contents' = Append(Contents, m)
    <3>1. \A i \in 1 .. n : buf[Ith(i)] = Contents[i]
      BY DEF Contents
    <3>2. Contents' = [i \in 1 .. Len(Contents) + 1 |->
                         IF i <= Len(Contents) THEN Contents[i] ELSE m]
      BY <1>1, <2>7, <3>1, ContentsFacts
    <3>3. Contents \in Seq(Message \cup {Junk}) /\ m \in Message \cup {Junk}
      BY ContentsFacts
    <3>4. Append(Contents, m) = [i \in 1 .. Len(Contents) + 1 |->
                                   IF i <= Len(Contents) THEN Contents[i] ELSE m]
      BY <3>3, AppendIsFunction
    <3> QED BY ONLY <3>2, <3>4
  <2> QED
    BY <2>2, <2>8 DEF F!Push, skynet_mq_push
<1>3. CASE head = t
  <2> DEFINE b == [buf EXCEPT ![tail] = m]
  <2>1. /\ buf' = [i \in 0 .. 2 * cap - 1 |-> IF i < cap THEN b[(head + i) % cap] ELSE Junk]
        /\ tail' = cap /\ head' = 0 /\ cap' = 2 * cap
    BY <1>3 DEF skynet_mq_push, expand_queue, Expanded
  <2>2. \A i \in 0 .. cap - 1 : (head + i) % cap = IF head + i < cap THEN head + i
                                                  ELSE head + i - cap
    <3> TAKE i \in 0 .. cap - 1
    <3>1. CASE head + i < cap
      BY <3>1 DEF RingOK
    <3>2. CASE ~(head + i < cap)
      <4>1. head + i - cap \in 0 .. cap - 1
        BY <3>2 DEF RingOK
      <4>2. head + i = 1 * cap + (head + i - cap)
        BY DEF RingOK
      <4> QED BY <3>2, <4>1, <4>2 DEF RingOK
    <3> QED BY <3>1, <3>2
  <2>3. \A i \in 0 .. cap - 1 : (head + i) % cap \in 0 .. cap - 1
    BY <2>2 DEF RingOK
  <2>4. b \in [0 .. cap - 1 -> Message \cup {Junk}]
    BY DEF RingOK
  <2>5. RingOK'
    <3> HIDE DEF b
    <3>1. buf' \in [0 .. 2 * cap - 1 -> Message \cup {Junk}]
      BY <2>1, <2>3, <2>4 DEF RingOK
    <3>2. cap' \in Nat \ {0} /\ head' \in 0 .. cap' - 1 /\ tail' \in 0 .. cap' - 1
      BY <2>1 DEF RingOK
    <3> QED BY <2>1, <3>1, <3>2 DEF RingOK
  <2>6. n' = cap /\ n = cap - 1
    BY <1>3, <2>1 DEF RingOK, skynet_mq_length, Advance
  <2>7. \A i \in 1 .. cap : Ith(i)' = i - 1
    BY <2>1 DEF Ith, RingOK
  <2>8. \A i \in 1 .. cap : buf'[i - 1] = IF i <= n THEN buf[Ith(i)] ELSE m
    <3> TAKE i \in 1 .. cap
    <3>1. buf'[i - 1] = b[(head + (i - 1)) % cap]
      BY <2>1 DEF RingOK
    <3>2. (head + (i - 1)) % cap = Ith(i)
      BY <2>2 DEF Ith, RingOK
    <3>3. i <= n => Ith(i) # tail /\ Ith(i) \in 0 .. cap - 1
      BY <1>3, <2>6 DEF Ith, RingOK, Advance
    <3>4. ~(i <= n) => Ith(i) = tail
      BY <1>3, <2>6 DEF Ith, RingOK, Advance
    <3> HIDE DEF n
    <3> QED BY <3>1, <3>2, <3>3, <3>4 DEF RingOK
  <2>9. Contents' = [i \in 1 .. n + 1 |-> IF i <= n THEN buf[Ith(i)] ELSE m]
    <3>1. n + 1 = cap
      BY <2>6 DEF RingOK
    <3>2. Contents' = [i \in 1 .. cap |-> buf'[i - 1]]
      BY <2>6, <2>7 DEF Contents
    <3> HIDE DEF n
    <3> QED BY <2>8, <3>1, <3>2
  <2>10. Contents' = Append(Contents, m)
    <3>1. \A i \in 1 .. n : buf[Ith(i)] = Contents[i]
      BY DEF Contents
    <3>2. Contents' = [i \in 1 .. Len(Contents) + 1 |->
                         IF i <= Len(Contents) THEN Contents[i] ELSE m]
      BY <1>1, <2>9, <3>1, ContentsFacts
    <3>3. Contents \in Seq(Message \cup {Junk}) /\ m \in Message \cup {Junk}
      BY ContentsFacts
    <3>4. Append(Contents, m) = [i \in 1 .. Len(Contents) + 1 |->
                                   IF i <= Len(Contents) THEN Contents[i] ELSE m]
      BY <3>3, AppendIsFunction
    <3> QED BY ONLY <3>2, <3>4
  <2> QED
    BY <2>5, <2>10 DEF F!Push, skynet_mq_push
<1> QED BY <1>2, <1>3

LEMMA PopStep ==
  ASSUME RingOK, skynet_mq_pop
  PROVE  RingOK' /\ F!Pop
<1> DEFINE n == skynet_mq_length
<1>1. n \in 0 .. cap - 1 /\ Advance(head) \in 0 .. cap - 1
  BY ContentsFacts DEF RingOK, Advance
<1>2. CASE head # tail
  <2>1. /\ popped' = buf[head] /\ head' = Advance(head)
        /\ buf' = buf /\ tail' = tail /\ cap' = cap
    BY <1>2 DEF skynet_mq_pop
  <2>2. RingOK'
    BY <1>1, <2>1 DEF RingOK
  <2>3. n' = n - 1 /\ n > 0
    BY <1>2, <2>1 DEF RingOK, skynet_mq_length, Advance
  <2>4. \A i \in 1 .. n - 1 : Ith(i)' = Ith(i + 1)
    BY <1>1, <2>1 DEF RingOK, Ith, skynet_mq_length, Advance
  <2>5. Contents' = [i \in 1 .. n - 1 |-> buf[Ith(i + 1)]]
    BY <2>1, <2>3, <2>4 DEF Contents
  <2>6. Contents # <<>> /\ Head(Contents) = buf[head]
    <3>1. Len(Contents) = n /\ Contents \in Seq(Message \cup {Junk})
      BY ContentsFacts
    <3>2. Contents[1] = buf[Ith(1)] /\ Ith(1) = head
      BY <1>1, <2>3 DEF Contents, Ith, RingOK
    <3> HIDE DEF n
    <3> QED BY <1>1, <2>3, <3>1, <3>2
  <2>7. Contents' = Tail(Contents)
    <3>1. \A i \in 1 .. n - 1 : buf[Ith(i + 1)] = Contents[i + 1]
      BY <1>1 DEF Contents
    <3>2. Contents' = [i \in 1 .. Len(Contents) - 1 |-> Contents[i + 1]]
      BY <1>1, <2>5, <3>1, ContentsFacts
    <3> HIDE DEF n
    <3>3. Tail(Contents) = [i \in 1 .. Len(Contents) - 1 |-> Contents[i + 1]]
      BY <2>6, ContentsFacts, TailIsFunction
    <3> QED BY ONLY <3>2, <3>3
  <2> QED BY <2>1, <2>2, <2>6, <2>7 DEF F!Pop
<1>3. CASE head = tail
  <2>1. /\ popped' = None /\ UNCHANGED <<head, tail, cap, buf>>
    BY <1>3 DEF skynet_mq_pop
  <2>2. Contents = <<>> /\ Contents' = Contents
    BY <1>3, <2>1 DEF Contents, skynet_mq_length, Ith, RingOK
  <2> QED BY <2>1, <2>2 DEF F!Pop, RingOK
<1> QED BY <1>2, <1>3

LEMMA OtherStep ==
  ASSUME RingOK, skynet_mq_overload \/ UNCHANGED vars
  PROVE  RingOK' /\ UNCHANGED <<Contents, popped>>
  BY DEF RingOK, skynet_mq_overload, vars, Contents, skynet_mq_length, Ith

(* skynet_mq.c keeps every message of a service in the order it was pushed *)
(* and delivers it once, through wrap around and expand_queue, whatever    *)
(* the initial capacity: the ring buffer implements Fifo.                  *)
THEOREM RingImplementsFifo == Spec => ImplementsFifo
<1>1. Init => RingOK /\ F!Init
  BY InitRing
<1>2. RingOK /\ [Next]_vars => RingOK' /\ [F!Next]_<<Contents, popped>>
  BY PushStep, PopStep, OtherStep DEF Next, F!Next
<1> QED BY <1>1, <1>2, PTL DEF Spec, ImplementsFifo, F!Spec

-----------------------------------------------------------------------------
(* The overload alarm. *)

Doubling(threshold, length, g, k) ==
  IF k = 0 THEN threshold ELSE IF length > g[k - 1] THEN 2 * g[k - 1] ELSE g[k - 1]
Doublings(threshold, length, g, n) == g = [k \in 0..n |-> Doubling(threshold, length, g, k)]

LEMMA DoublingsExist ==
  ASSUME NEW threshold, NEW length
  PROVE  \A n \in Nat : \E g : Doublings(threshold, length, g, n)
<1> DEFINE S == {n \in Nat : \E g : Doublings(threshold, length, g, n)}
<1>1. 0 \in S
  <2>1. Doublings(threshold, length, [k \in 0..0 |-> threshold], 0)
    BY DEF Doublings, Doubling
  <2> QED BY <2>1
<1>2. ASSUME NEW n \in S PROVE n + 1 \in S
  <2>1. n \in Nat
    OBVIOUS
  <2>2. PICK g : Doublings(threshold, length, g, n)
    OBVIOUS
  <2> DEFINE h == [k \in 0..(n + 1) |->
                     IF k = n + 1 THEN Doubling(threshold, length, g, k) ELSE g[k]]
  <2>3. \A k \in 0..n : h[k] = g[k]
    BY <2>1
  <2>4. \A k \in 0..(n + 1) : Doubling(threshold, length, h, k) = Doubling(threshold, length, g, k)
    <3> HIDE DEF h
    <3>1. \A k \in 0..(n + 1) : k = 0 \/ k - 1 \in 0..n
      BY <2>1
    <3> QED BY <3>1, <2>3 DEF Doubling
  <2>5. \A k \in 0..n : g[k] = Doubling(threshold, length, g, k)
    BY <2>2 DEF Doublings
  <2>6. \A k \in 0..(n + 1) : h[k] = Doubling(threshold, length, h, k)
    <3>1. \A k \in 0..(n + 1) : h[k] = Doubling(threshold, length, g, k)
      BY <2>1, <2>5
    <3> HIDE DEF h
    <3> QED BY <3>1, <2>4
  <2>7. h = [k \in 0..(n + 1) |-> h[k]]
    OBVIOUS
  <2>8. Doublings(threshold, length, h, n + 1)
    <3> HIDE DEF h
    <3> QED BY <2>6, <2>7 DEF Doublings
  <2> QED BY <2>1, <2>8
<1>3. S = Nat
  <2>1. S \in SUBSET Nat
    OBVIOUS
  <2> HIDE DEF S
  <2> QED BY <2>1, <1>1, <1>2, RoundInduction
<1> QED BY <1>3

(* The loop ends with a threshold that length does not exceed. *)
LEMMA DoubledReaches ==
  ASSUME NEW threshold \in Nat \ {0}, NEW length \in Nat
  PROVE  /\ Doubled(threshold, length) \in Nat \ {0}
         /\ Doubled(threshold, length) >= length
         /\ Doubled(threshold, length) >= threshold
<1>1. PICK g : Doublings(threshold, length, g, length)
  BY DoublingsExist
<1> DEFINE P(after) == after = [k \in 0 .. length |->
             IF k = 0 THEN threshold
             ELSE LET t == after[k - 1] IN IF length > t THEN 2 * t ELSE t]
           w == CHOOSE after : P(after)
<1>2. P(g)
  BY <1>1 DEF Doublings, Doubling
<1>3. P(w)
  <2> HIDE DEF P
  <2> QED BY <1>2
<1>4. Doubled(threshold, length) = w[length]
  BY Zenon DEF Doubled
<1>5. \A k \in 0..length : w[k] = Doubling(threshold, length, w, k)
  <2> HIDE DEF w
  <2> QED BY <1>3 DEF Doubling
<1> HIDE DEF w
<1> DEFINE So(k) == /\ w[k] \in Nat \ {0} /\ w[k] >= threshold
                    /\ w[k] >= length \/ w[k] >= k + 1
           S == {k \in Nat : k <= length => So(k)}
<1>6. 0 \in S
  <2>1. w[0] = threshold
    BY <1>5 DEF Doubling
  <2> QED BY <2>1
<1>7. ASSUME NEW k \in S PROVE k + 1 \in S
  <2> SUFFICES ASSUME k + 1 <= length PROVE So(k + 1)
    OBVIOUS
  <2>1. k \in Nat /\ k + 1 \in 0..length /\ k + 1 # 0 /\ k + 1 - 1 = k /\ k <= length
    OBVIOUS
  <2>2. So(k)
    BY <2>1
  <2>3. w[k + 1] = IF length > w[k] THEN 2 * w[k] ELSE w[k]
    BY <1>5, <2>1 DEF Doubling
  <2> QED BY <2>1, <2>2, <2>3
<1>8. S = Nat
  <2>1. S \in SUBSET Nat
    OBVIOUS
  <2> HIDE DEF S
  <2> QED BY <2>1, <1>6, <1>7, RoundInduction
<1>9. So(length)
  <2>1. length \in S
    BY <1>8
  <2> HIDE DEF So
  <2> QED BY <2>1
<1> QED BY <1>4, <1>9

(* A length waits to be reported only while the holder of the queue has a  *)
(* message; it is more than the last report, and the threshold has passed  *)
(* both.                                                                   *)
AlarmInv ==
  /\ RingOK
  /\ overload \in Nat /\ overload_threshold \in Nat \ {0} /\ reported \in Nat
  /\ reading \in BOOLEAN
  /\ ~reading => overload = 0
  /\ overload <= overload_threshold /\ reported <= overload_threshold
  /\ overload # 0 => reported < overload

LEMMA AlarmStart == Init => AlarmInv
<1> SUFFICES ASSUME Init PROVE AlarmInv
  OBVIOUS
<1>1. RingOK
  BY InitRing
<1>2. /\ overload = 0 /\ reported = 0 /\ overload_threshold = MQ_OVERLOAD
      /\ MQ_OVERLOAD \in Nat \ {0}
  BY OverloadAssumption DEF Init
<1>3. reading \in BOOLEAN
  BY Zenon DEF Init
<1> QED BY <1>1, <1>2, <1>3 DEF AlarmInv

LEMMA AlarmPop ==
  ASSUME AlarmInv, skynet_mq_pop
  PROVE  AlarmInv'
<1>0. RingOK'
  BY PopStep DEF AlarmInv
<1>1. /\ overload = 0 /\ ~reading /\ overload_threshold \in Nat \ {0} /\ reported \in Nat
      /\ reported <= overload_threshold
  BY DEF AlarmInv, skynet_mq_pop
<1>2. CASE head # tail
  <2> DEFINE h == Advance(head)
             length == IF tail - h < 0 THEN tail - h + cap ELSE tail - h
  <2>1. length \in Nat
    BY DEF AlarmInv, RingOK, Advance
  <2>2. /\ IF length > overload_threshold
           THEN overload' = length /\ overload_threshold' = Doubled(overload_threshold, length)
           ELSE UNCHANGED <<overload, overload_threshold>>
        /\ reading' = TRUE /\ reported' = reported
    BY <1>2 DEF skynet_mq_pop
  <2> HIDE DEF length
  <2>3. CASE length > overload_threshold
    <3>1. overload' = length /\ overload_threshold' = Doubled(overload_threshold, length)
      BY <2>2, <2>3
    <3>2. /\ overload_threshold' \in Nat \ {0} /\ overload_threshold' >= length
          /\ overload_threshold' >= overload_threshold
      BY <1>1, <2>1, <3>1, DoubledReaches
    <3> QED BY <1>0, <1>1, <2>1, <2>2, <2>3, <3>1, <3>2 DEF AlarmInv
  <2>4. CASE ~(length > overload_threshold)
    BY <1>0, <1>1, <2>2, <2>4 DEF AlarmInv
  <2> QED BY <2>3, <2>4
<1>3. CASE head = tail
  <2>1. /\ overload_threshold' = MQ_OVERLOAD /\ reported' = 0
        /\ overload' = overload /\ reading' = reading
    BY <1>3 DEF skynet_mq_pop
  <2> QED BY <1>0, <1>1, <2>1, OverloadAssumption DEF AlarmInv
<1> QED BY <1>2, <1>3

LEMMA AlarmStep == AlarmInv /\ [Next]_vars => AlarmInv'
<1> SUFFICES ASSUME AlarmInv, [Next]_vars PROVE AlarmInv'
  OBVIOUS
<1>1. ASSUME NEW m \in Message, skynet_mq_push(m) PROVE AlarmInv'
  <2>1. UNCHANGED <<overload, overload_threshold, reading, reported>>
    BY <1>1 DEF skynet_mq_push
  <2>2. RingOK'
    BY <1>1, PushStep DEF AlarmInv
  <2> QED BY <2>1, <2>2 DEF AlarmInv
<1>2. CASE skynet_mq_pop
  BY <1>2, AlarmPop
<1>3. CASE skynet_mq_overload
  <2>1. RingOK'
    BY <1>3, OtherStep DEF AlarmInv
  <2>2. overload' = 0 /\ overload_threshold' = overload_threshold
    BY <1>3 DEF skynet_mq_overload
  <2>3. reported' = reported \/ reported' = overload
    BY <1>3 DEF skynet_mq_overload
  <2>4. reading' \in BOOLEAN
    BY <1>3, Zenon DEF skynet_mq_overload
  <2>5. /\ overload \in Nat /\ overload_threshold \in Nat \ {0} /\ reported \in Nat
        /\ overload <= overload_threshold /\ reported <= overload_threshold
    BY DEF AlarmInv
  <2> QED BY <2>1, <2>2, <2>3, <2>4, <2>5 DEF AlarmInv
<1>4. CASE UNCHANGED vars
  <2>1. RingOK'
    BY <1>4, OtherStep DEF AlarmInv
  <2> QED BY <1>4, <2>1 DEF AlarmInv, vars
<1> QED BY <1>1, <1>2, <1>3, <1>4 DEF Next

(* skynet_mq_pop and skynet_mq_overload raise no report storm, whatever    *)
(* MQ_OVERLOAD is: a report says more than the one before it, unless the   *)
(* queue was empty in between.                                             *)
THEOREM ReportsAlwaysGrow == Spec => ReportsGrow
<1>1. AlarmInv /\ [Next]_vars => [reported' \notin {0, reported} => reported' > reported]_vars
  <2> SUFFICES ASSUME AlarmInv, Next, reported' \notin {0, reported}
               PROVE  reported' > reported
    OBVIOUS
  <2>1. ASSUME NEW m \in Message, skynet_mq_push(m) PROVE FALSE
    BY <2>1 DEF skynet_mq_push
  <2>2. CASE skynet_mq_pop
    BY <2>2 DEF skynet_mq_pop
  <2>3. CASE skynet_mq_overload
    <3>1. overload # 0 /\ reported' = overload
      BY <2>3 DEF skynet_mq_overload
    <3> QED BY <3>1 DEF AlarmInv
  <2> QED BY <2>1, <2>2, <2>3 DEF Next
<1> QED BY <1>1, AlarmStart, AlarmStep, PTL DEF Spec, ReportsGrow
=============================================================================
