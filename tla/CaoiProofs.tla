----------------------------- MODULE CaoiProofs -----------------------------
(***************************************************************************)
(* The AOI engine is memory safe and its callbacks are right, for any      *)
(* number of objects, any positions, mode strings and radius.              *)
(***************************************************************************)
EXTENDS CaoiHistory, FiniteSetTheorems, TLAPS

(* An end of a hot pair points to an object that is still in the map.  As  *)
(* long as the object has the version the pair was made with and has not   *)
(* left, it plays the role it had then and has not moved.                  *)
EndHolds(i, v, role) ==
  /\ i \in Live
  /\ v <= object[i].version
  /\ v = object[i].version /\ "drop" \notin object[i].mode
       => role \in object[i].mode /\ "move" \notin object[i].mode

EndsHold ==
  \A p \in hot :
    /\ p.watcher # p.marker
    /\ EndHolds(p.watcher, p.watcher_version, "watcher")
    /\ EndHolds(p.marker, p.marker_version, "marker")

(* MODE_DROP is never combined with another bit. *)
DropAlone == \A i \in Live : "drop" \in object[i].mode => object[i].mode = {"drop"}

(* The inductive invariant.  Counting references needs OneHotPair (a pair  *)
(* that is added is a new one), which needs EndsHold (an object that moved *)
(* has outdated its pairs), and that needs RefCounted (the memory of an    *)
(* object, and its version, is not reused while a pair points to it).      *)
CInv == TypeOK /\ DropAlone /\ EndsHold /\ RefCounted /\ OneHotPair

-----------------------------------------------------------------------------
(* Counting the ends of pairs. *)

LEMMA PairFinite == ASSUME NEW P \in SUBSET Pair PROVE IsFiniteSet(P)
<1> DEFINE V == 0 .. MaxVersion
           T == (Id \X Id) \X (V \X V)
           f == [p \in Pair |-> << <<p.watcher, p.marker>>,
                                   <<p.watcher_version, p.marker_version>> >>]
<1>1. IsFiniteSet(V)
  BY VersionAssumption, FS_Interval
<1>2. IsFiniteSet(Id \X Id)
  BY IdAssumption, FS_Product
<1>3. IsFiniteSet(V \X V)
  BY <1>1, FS_Product
<1>4. IsFiniteSet(T)
  BY <1>2, <1>3, FS_Product
<1>5. f \in Injection(Pair, T)
  <2>1. f \in [Pair -> T]
    BY DEF Pair
  <2>2. ASSUME NEW p \in Pair, NEW q \in Pair, f[p] = f[q]
        PROVE  p = q
    <3>1. /\ p.watcher = q.watcher /\ p.marker = q.marker
          /\ p.watcher_version = q.watcher_version
          /\ p.marker_version = q.marker_version
      BY <2>2
    <3> QED BY <3>1 DEF Pair
  <2> QED BY <2>1, <2>2 DEF Injection, IsInjective
<1>6. IsFiniteSet(Pair)
  BY <1>4, <1>5, FS_Injection
<1> QED BY <1>6, FS_Subset

LEMMA EndpointsNat ==
  ASSUME NEW P \in SUBSET Pair, NEW i
  PROVE  /\ IsFiniteSet({p \in P : p.watcher = i})
         /\ IsFiniteSet({p \in P : p.marker = i})
         /\ Cardinality({p \in P : p.watcher = i}) \in Nat
         /\ Cardinality({p \in P : p.marker = i}) \in Nat
         /\ Endpoints(P, i) \in Nat
<1>1. /\ {p \in P : p.watcher = i} \in SUBSET Pair
      /\ {p \in P : p.marker = i} \in SUBSET Pair
  OBVIOUS
<1>2. /\ IsFiniteSet({p \in P : p.watcher = i})
      /\ IsFiniteSet({p \in P : p.marker = i})
  BY <1>1, PairFinite
<1>3. /\ Cardinality({p \in P : p.watcher = i}) \in Nat
      /\ Cardinality({p \in P : p.marker = i}) \in Nat
  BY <1>2, FS_CardinalityType
<1> QED BY <1>2, <1>3 DEF Endpoints

(* No pair ends at an object whose count is zero. *)
LEMMA EndpointsZero ==
  ASSUME NEW P \in SUBSET Pair, NEW i
  PROVE  Endpoints(P, i) = 0 <=> \A p \in P : p.watcher # i /\ p.marker # i
<1> DEFINE W == {p \in P : p.watcher = i}
           M == {p \in P : p.marker = i}
<1>1. /\ IsFiniteSet(W) /\ IsFiniteSet(M)
      /\ Cardinality(W) \in Nat /\ Cardinality(M) \in Nat
  BY EndpointsNat
<1>2. /\ Cardinality(W) = 0 <=> W = {}
      /\ Cardinality(M) = 0 <=> M = {}
  BY <1>1, FS_EmptySet
<1>3. Endpoints(P, i) = Cardinality(W) + Cardinality(M)
  BY DEF Endpoints
<1>4. Endpoints(P, i) = 0 <=> W = {} /\ M = {}
  <2> HIDE DEF W, M
  <2> QED BY <1>1, <1>2, <1>3
<1>5. W = {} /\ M = {} <=> \A p \in P : p.watcher # i /\ p.marker # i
  OBVIOUS
<1> QED BY <1>4, <1>5

(* Counts of disjoint sets of pairs add up. *)
LEMMA EndpointsUnion ==
  ASSUME NEW P \in SUBSET Pair, NEW Q \in SUBSET Pair, NEW i, P \cap Q = {}
  PROVE  Endpoints(P \cup Q, i) = Endpoints(P, i) + Endpoints(Q, i)
<1> DEFINE PW == {p \in P : p.watcher = i}
           PM == {p \in P : p.marker = i}
           QW == {p \in Q : p.watcher = i}
           QM == {p \in Q : p.marker = i}
<1>1. /\ IsFiniteSet(PW) /\ IsFiniteSet(PM)
      /\ Cardinality(PW) \in Nat /\ Cardinality(PM) \in Nat
  BY EndpointsNat
<1>2. /\ IsFiniteSet(QW) /\ IsFiniteSet(QM)
      /\ Cardinality(QW) \in Nat /\ Cardinality(QM) \in Nat
  BY EndpointsNat
<1>3. /\ {p \in P \cup Q : p.watcher = i} = PW \cup QW
      /\ {p \in P \cup Q : p.marker = i} = PM \cup QM
      /\ PW \cap QW = {} /\ PM \cap QM = {}
  OBVIOUS
<1>4. Endpoints(P \cup Q, i) = Cardinality(PW \cup QW) + Cardinality(PM \cup QM)
  BY <1>3 DEF Endpoints
<1>5. /\ Endpoints(P, i) = Cardinality(PW) + Cardinality(PM)
      /\ Endpoints(Q, i) = Cardinality(QW) + Cardinality(QM)
  BY DEF Endpoints
<1> HIDE DEF PW, PM, QW, QM
<1>6. /\ Cardinality(PW \cup QW) = Cardinality(PW) + Cardinality(QW) - Cardinality(PW \cap QW)
      /\ Cardinality(PM \cup QM) = Cardinality(PM) + Cardinality(QM) - Cardinality(PM \cap QM)
  BY <1>1, <1>2, FS_Union
<1>7. Cardinality(PW \cap QW) = 0 /\ Cardinality(PM \cap QM) = 0
  BY <1>3, FS_EmptySet
<1> QED BY <1>1, <1>2, <1>4, <1>5, <1>6, <1>7

-----------------------------------------------------------------------------
(* aoi_update *)

LEMMA RolesOnly == ASSUME NEW roles \in ModeStrings PROVE roles \subseteq Roles
BY ModeAssumption DEF Roles

(* The object map_query finds or makes. *)
LEMMA QueriedObject ==
  ASSUME CInv, NEW id \in Id, NEW pos \in Pos
  PROVE  /\ map_query(id, pos) \in Object
         /\ "drop" \in map_query(id, pos).mode
              => /\ map_query(id, pos).mode = {"drop"}
                 /\ object[id] # Nil
         /\ object[id] # Nil => map_query(id, pos) = object[id]
         /\ object[id] = Nil => /\ map_query(id, pos).ref = 1
                                /\ map_query(id, pos).mode = {}
<1>1. new_object(pos) \in Object
  BY VersionAssumption DEF new_object, Object
<1>2. object[id] # Nil => object[id] \in Object /\ id \in Live
  BY DEF CInv, TypeOK, Live
<1>3. new_object(pos).mode = {} /\ new_object(pos).ref = 1
  BY DEF new_object
<1> QED BY <1>1, <1>2, <1>3 DEF map_query, CInv, DropAlone

(* What an update makes of the object: it is present; unless it counts as  *)
(* a move it keeps its version and its mode.                               *)
LEMMA UpdatedObject ==
  ASSUME CInv, NEW id \in Id, NEW roles \in ModeStrings, NEW pos \in Pos,
         aoi_update(id, roles, pos)
  PROVE  LET obj == map_query(id, pos)
         IN  /\ object' = [object EXCEPT ![id] = object'[id]]
             /\ object'[id] \in Object
             /\ "drop" \notin object'[id].mode
             /\ object'[id].mode \cap Roles = roles
             /\ object'[id].position = pos
             /\ object'[id].ref = IF "drop" \in obj.mode THEN obj.ref + 1 ELSE obj.ref
             /\ IF IsMove(id, roles, pos)
                  THEN object'[id].version = obj.version + 1 /\ "move" \in object'[id].mode
                  ELSE /\ object'[id].version = obj.version
                       /\ object'[id].mode = obj.mode
                       /\ "drop" \notin obj.mode
                       /\ object[id] # Nil
             /\ hot' = hot /\ called' = {}
<1> DEFINE obj == map_query(id, pos)
           moved == IsMove(id, roles, pos)
           ref == IF "drop" \in obj.mode THEN obj.ref + 1 ELSE obj.ref
           version == IF moved THEN obj.version + 1 ELSE obj.version
           mode == change_mode(obj.mode \ {"drop"}, roles)
                     \cup (IF moved THEN {"move"} ELSE {})
           last == IF moved THEN pos ELSE obj.last
           new == [ref |-> ref, version |-> version, mode |-> mode,
                   last |-> last, position |-> pos]
<1>1. /\ moved => obj.version < MaxVersion
      /\ object' = [object EXCEPT ![id] = new]
      /\ hot' = hot /\ called' = {}
  BY DEF aoi_update
<1>2. object'[id] = new
  BY <1>1 DEF CInv, TypeOK
<1>3. /\ obj \in Object
      /\ "drop" \in obj.mode => obj.mode = {"drop"}
      /\ object[id] = Nil => obj.mode = {}
  BY QueriedObject
<1>4. roles \subseteq Roles
  BY RolesOnly
<1> HIDE DEF obj, moved
<1>5. /\ obj.ref \in Nat \ {0} /\ obj.version \in 0 .. MaxVersion
      /\ obj.mode \subseteq ModeBits /\ obj.last \in Pos
  BY <1>3 DEF Object
<1>6. ref \in Nat \ {0} /\ version \in 0 .. MaxVersion /\ last \in Pos
  BY <1>1, <1>5, VersionAssumption
<1>7. mode \subseteq ModeBits /\ "drop" \notin mode /\ (moved => "move" \in mode)
      /\ mode \cap Roles = roles
  BY <1>4, <1>5 DEF change_mode, Roles, ModeBits
<1>8. ~moved => ~ModeChanges(obj.mode \ {"drop"}, roles)
  BY DEF moved, obj, IsMove
<1>9. ~moved => /\ "drop" \notin obj.mode
                /\ obj.mode # {}
                /\ obj.mode \cap Roles = roles
  BY <1>3, <1>8 DEF ModeChanges
<1>10. ~moved => mode = obj.mode /\ object[id] # Nil
  BY <1>3, <1>9 DEF change_mode
<1> HIDE DEF ref, version, mode, last
<1>11. new \in Object
  BY <1>6, <1>7 DEF Object
<1>12. /\ new.ref = ref /\ new.version = version /\ new.mode = mode
       /\ new.position = pos
  OBVIOUS
<1>13. object' = [object EXCEPT ![id] = object'[id]]
  BY <1>1, <1>2
<1> QED BY <1>1, <1>2, <1>7, <1>9, <1>10, <1>11, <1>12, <1>13 DEF obj, moved, ref, version

(* A step that replaces one object by a present one. *)
LEMMA UpdateInv ==
  ASSUME CInv, NEW id \in Id, NEW roles \in ModeStrings, NEW pos \in Pos,
         aoi_update(id, roles, pos)
  PROVE  CInv'
<1> DEFINE obj == map_query(id, pos)
           new == object'[id]
<1>1. /\ object' = [object EXCEPT ![id] = new]
      /\ new \in Object /\ new # Nil
      /\ "drop" \notin new.mode
      /\ new.ref = IF "drop" \in obj.mode THEN obj.ref + 1 ELSE obj.ref
      /\ IF IsMove(id, roles, pos)
           THEN new.version = obj.version + 1
           ELSE /\ new.version = obj.version
                /\ new.mode = obj.mode
                /\ "drop" \notin obj.mode
      /\ hot' = hot /\ called' = {}
  BY UpdatedObject, NilAssumption
<1>2. /\ obj \in Object
      /\ object[id] # Nil => obj = object[id]
      /\ object[id] = Nil => obj.ref = 1 /\ obj.mode = {}
  BY QueriedObject
<1>3. obj.ref \in Nat /\ obj.version \in Nat
  BY <1>2 DEF Object
<1> HIDE DEF obj, new
<1>4. \A i \in Id : i # id => object'[i] = object[i]
  BY <1>1 DEF CInv, TypeOK
<1>5. object'[id] = new
  BY DEF new
<1>6. Live' = Live \cup {id}
  BY <1>1, <1>4, <1>5 DEF Live
<1>7. TypeOK'
  BY <1>1 DEF CInv, TypeOK
<1>8. DropAlone'
  BY <1>1, <1>4, <1>5, <1>6 DEF CInv, DropAlone, Live
<1>9. ASSUME NEW i, NEW v, NEW role, v \in Nat, EndHolds(i, v, role)
      PROVE  EndHolds(i, v, role)'
  <2>1. i \in Live'
    BY <1>6, <1>9 DEF EndHolds
  <2>2. CASE i # id
    <3>1. object'[i] = object[i]
      BY <1>4, <1>9, <2>2 DEF EndHolds, Live
    <3> QED BY <1>9, <2>1, <3>1 DEF EndHolds
  <2>3. CASE i = id
    <3>1. object[id] = obj
      BY <1>2, <1>9, <2>3 DEF EndHolds, Live
    <3> QED BY <1>1, <1>3, <1>5, <1>9, <2>1, <2>3, <3>1 DEF EndHolds
  <2> QED BY <2>2, <2>3
<1>10. EndsHold'
  <2> SUFFICES ASSUME NEW p \in hot
               PROVE  /\ p.watcher # p.marker
                      /\ EndHolds(p.watcher, p.watcher_version, "watcher")'
                      /\ EndHolds(p.marker, p.marker_version, "marker")'
    BY <1>1 DEF EndsHold
  <2>1. /\ p.watcher # p.marker
        /\ EndHolds(p.watcher, p.watcher_version, "watcher")
        /\ EndHolds(p.marker, p.marker_version, "marker")
    BY DEF CInv, EndsHold
  <2>2. p.watcher_version \in Nat /\ p.marker_version \in Nat
    BY DEF CInv, TypeOK, Pair
  <2> QED BY <1>9, <2>1, <2>2
<1>11. RefCounted'
  <2> SUFFICES ASSUME NEW i \in Id
               PROVE  IF object'[i] = Nil THEN Endpoints(hot, i) = 0
                      ELSE object'[i].ref = Endpoints(hot, i)
                             + (IF "drop" \in object'[i].mode THEN 0 ELSE 1)
    BY <1>1 DEF RefCounted
  <2>1. IF object[i] = Nil THEN Endpoints(hot, i) = 0
        ELSE object[i].ref = Endpoints(hot, i)
                             + (IF "drop" \in object[i].mode THEN 0 ELSE 1)
    BY DEF CInv, RefCounted
  <2>2. Endpoints(hot, i) \in Nat
    BY EndpointsNat DEF CInv, TypeOK
  <2>3. CASE i # id
    BY <1>4, <2>1, <2>3
  <2>4. CASE i = id
    BY <1>1, <1>2, <1>3, <1>5, <2>1, <2>2, <2>4
  <2> QED BY <2>3, <2>4
<1>12. OneHotPair'
  BY <1>1 DEF CInv, OneHotPair
<1> QED BY <1>7, <1>8, <1>10, <1>11, <1>12 DEF CInv

-----------------------------------------------------------------------------
(* aoi_drop *)

LEMMA ReferencesDropped ==
  ASSUME NEW r, NEW v, NEW m, NEW l, NEW p, NEW n
  PROVE  [[ref |-> r, version |-> v, mode |-> m, last |-> l, position |-> p]
            EXCEPT !.ref = @ - n]
         = [ref |-> r - n, version |-> v, mode |-> m, last |-> l, position |-> p]
OBVIOUS

(* What a departure makes of the object: a dropped one stays; another one  *)
(* is marked, and freed if no pair points to it.                           *)
LEMMA DroppedObject ==
  ASSUME CInv, NEW id \in Id, aoi_drop(id)
  PROVE  /\ hot' = hot /\ called' = {}
         /\ object' = [object EXCEPT ![id] = object'[id]]
         /\ \/ object'[id] = object[id] /\ object[id] # Nil /\ "drop" \in object[id].mode
            \/ object'[id] = Nil /\ (object[id] # Nil => /\ object[id].ref = 1
                                                         /\ "drop" \notin object[id].mode)
            \/ /\ object[id] # Nil /\ "drop" \notin object[id].mode
               /\ object'[id] \in Object
               /\ object'[id].mode = {"drop"}
               /\ object'[id].version = object[id].version
               /\ object'[id].ref = object[id].ref - 1
<1> DEFINE any == CHOOSE p \in Pos : TRUE
           obj == map_query(id, any)
           marked == [obj EXCEPT !.mode = {"drop"}]
           new == IF "drop" \in obj.mode THEN obj ELSE drop_object(marked, 1)
<1>1. /\ object' = [object EXCEPT ![id] = new]
      /\ hot' = hot /\ called' = {}
  BY DEF aoi_drop
<1>2. object'[id] = new
  BY <1>1 DEF CInv, TypeOK
<1>3. any \in Pos
  BY PosAssumption
<1> HIDE DEF any
<1>4. /\ obj \in Object
      /\ "drop" \in obj.mode => object[id] # Nil
      /\ object[id] # Nil => obj = object[id]
      /\ object[id] = Nil => obj.ref = 1
  BY <1>3, QueriedObject
<1>5. object' = [object EXCEPT ![id] = object'[id]]
  BY <1>1, <1>2
<1> HIDE DEF obj
<1>6. CASE "drop" \in obj.mode
  BY <1>1, <1>2, <1>4, <1>5, <1>6
<1>7. CASE "drop" \notin obj.mode
  <2>1. /\ obj.ref \in Nat \ {0} /\ obj.version \in 0 .. MaxVersion
        /\ obj.last \in Pos /\ obj.position \in Pos
    BY <1>4 DEF Object
  <2>2. obj = [ref |-> obj.ref, version |-> obj.version, mode |-> obj.mode,
               last |-> obj.last, position |-> obj.position]
    BY <1>4 DEF Object
  <2>3. marked = [ref |-> obj.ref, version |-> obj.version, mode |-> {"drop"},
                  last |-> obj.last, position |-> obj.position]
    BY <2>2
  <2>4. new = IF obj.ref - 1 <= 0 THEN Nil
              ELSE [ref |-> obj.ref - 1, version |-> obj.version, mode |-> {"drop"},
                    last |-> obj.last, position |-> obj.position]
    <3> HIDE DEF marked
    <3>1. marked.ref = obj.ref
      BY <2>3
    <3>2. [marked EXCEPT !.ref = @ - 1]
            = [ref |-> obj.ref - 1, version |-> obj.version, mode |-> {"drop"},
               last |-> obj.last, position |-> obj.position]
      BY <2>3, ReferencesDropped
    <3>3. drop_object(marked, 1) = IF obj.ref - 1 <= 0 THEN Nil
                                   ELSE [marked EXCEPT !.ref = @ - 1]
      BY <3>1 DEF drop_object
    <3> QED BY <1>7, <3>2, <3>3
  <2>5. CASE obj.ref - 1 <= 0
    BY <1>1, <1>2, <1>4, <1>5, <1>7, <2>1, <2>4, <2>5
  <2>6. CASE ~(obj.ref - 1 <= 0)
    <3>1. obj.ref - 1 \in Nat \ {0} /\ obj.ref # 1
      BY <2>1, <2>6
    <3>2. object[id] # Nil /\ obj = object[id]
      BY <1>4, <3>1
    <3>3. {"drop"} \in SUBSET ModeBits
      BY DEF ModeBits
    <3>4. object'[id] = [ref |-> obj.ref - 1, version |-> obj.version,
                         mode |-> {"drop"}, last |-> obj.last,
                         position |-> obj.position]
      BY <1>2, <2>4, <2>6
    <3>5. /\ object'[id] \in Object /\ object'[id].mode = {"drop"}
          /\ object'[id].version = obj.version /\ object'[id].ref = obj.ref - 1
      BY <2>1, <3>1, <3>3, <3>4 DEF Object
    <3> QED BY <1>1, <1>5, <1>7, <3>2, <3>5
  <2> QED BY <2>5, <2>6
<1> QED BY <1>6, <1>7

LEMMA DropInv ==
  ASSUME CInv, NEW id \in Id, aoi_drop(id)
  PROVE  CInv'
<1>1. /\ hot' = hot /\ called' = {}
      /\ object' = [object EXCEPT ![id] = object'[id]]
  BY DroppedObject
<1>2. \A i \in Id : i # id => object'[i] = object[i]
  BY <1>1 DEF CInv, TypeOK
<1>3. Endpoints(hot, id) \in Nat
  BY EndpointsNat DEF CInv, TypeOK
<1>4. IF object[id] = Nil THEN Endpoints(hot, id) = 0
      ELSE object[id].ref = Endpoints(hot, id)
                            + (IF "drop" \in object[id].mode THEN 0 ELSE 1)
  BY DEF CInv, RefCounted
<1>5. CASE object'[id] = object[id]
  <2>1. object' = object
    BY <1>1, <1>5 DEF CInv, TypeOK
  <2> QED BY <1>1, <2>1 DEF CInv, TypeOK, DropAlone, EndsHold, EndHolds, Live,
             RefCounted, OneHotPair, Endpoints
<1>6. CASE object'[id] = Nil
  <2>1. Endpoints(hot, id) = 0
    BY <1>3, <1>4, <1>6, DroppedObject, NilAssumption
  <2>2. \A p \in hot : p.watcher # id /\ p.marker # id
    BY <2>1, EndpointsZero DEF CInv, TypeOK
  <2>3. Live' = Live \ {id}
    BY <1>2, <1>6 DEF Live
  <2>4. TypeOK'
    BY <1>1, <1>6 DEF CInv, TypeOK
  <2>5. DropAlone'
    BY <1>2, <2>3 DEF CInv, DropAlone, Live
  <2>6. EndsHold'
    BY <1>1, <1>2, <2>2, <2>3 DEF CInv, EndsHold, EndHolds, Live
  <2>7. RefCounted'
    BY <1>1, <1>2, <1>6, <2>1 DEF CInv, RefCounted
  <2>8. OneHotPair'
    BY <1>1 DEF CInv, OneHotPair
  <2> QED BY <2>4, <2>5, <2>6, <2>7, <2>8 DEF CInv
<1>7. CASE object'[id] # object[id] /\ object'[id] # Nil
  <2>1. /\ object[id] # Nil /\ "drop" \notin object[id].mode
        /\ object'[id] \in Object
        /\ object'[id].mode = {"drop"}
        /\ object'[id].version = object[id].version
        /\ object'[id].ref = object[id].ref - 1
    BY <1>7, DroppedObject
  <2>2. Live' = Live
    BY <1>2, <1>7, <2>1 DEF Live
  <2>3. TypeOK'
    BY <1>1, <2>1 DEF CInv, TypeOK
  <2>4. DropAlone'
    BY <1>2, <2>1, <2>2 DEF CInv, DropAlone, Live
  <2>5. EndsHold'
    <3>1. ASSUME NEW i, NEW v, NEW role, EndHolds(i, v, role)
          PROVE  EndHolds(i, v, role)'
      BY <1>2, <2>1, <2>2, <3>1 DEF EndHolds, Live
    <3> QED BY <1>1, <3>1 DEF CInv, EndsHold
  <2>6. RefCounted'
    BY <1>1, <1>2, <1>3, <1>4, <1>7, <2>1 DEF CInv, RefCounted
  <2>7. OneHotPair'
    BY <1>1 DEF CInv, OneHotPair
  <2> QED BY <2>3, <2>4, <2>5, <2>6, <2>7 DEF CInv
<1> QED BY <1>5, <1>6, <1>7

-----------------------------------------------------------------------------
(* aoi_message *)

(* gen_pair_list meets every watcher with every other marker if one of the *)
(* two has moved.                                                          *)
LEMMA GenPairs ==
  ASSUME NEW w, NEW m
  PROVE  <<w, m>> \in gen_pair_list <=>
           /\ w # m /\ w \in Live /\ m \in Live
           /\ "watcher" \in object[w].mode /\ "marker" \in object[m].mode
           /\ "move" \in object[w].mode \/ "move" \in object[m].mode
BY DEF gen_pair_list, watcher_static, watcher_move, marker_static, marker_move

LEMMA GenPairOf ==
  ASSUME NEW x \in gen_pair_list
  PROVE  x = <<x[1], x[2]>>
BY DEF gen_pair_list

(* A pair gen_pair adds is on the edge, of present objects as they are. *)
LEMMA GenHotPairs ==
  ASSUME TypeOK, NEW p \in GenHot
  PROVE  /\ p \in Pair
         /\ <<p.watcher, p.marker>> \in gen_pair_list
         /\ p.watcher_version = object[p.watcher].version
         /\ p.marker_version = object[p.marker].version
         /\ p = [watcher |-> p.watcher, marker |-> p.marker,
                 watcher_version |-> object[p.watcher].version,
                 marker_version |-> object[p.marker].version]
         /\ dist2(p.watcher, p.marker) >= AOI_RADIS2
<1>1. PICK x \in gen_pair_list :
        /\ dist2(x[1], x[2]) >= AOI_RADIS2
        /\ p = [watcher |-> x[1], marker |-> x[2],
                watcher_version |-> object[x[1]].version,
                marker_version |-> object[x[2]].version]
  BY DEF GenHot
<1>2. /\ p.watcher = x[1] /\ p.marker = x[2]
      /\ p.watcher_version = object[x[1]].version
      /\ p.marker_version = object[x[2]].version
  BY <1>1
<1>3. x = <<x[1], x[2]>>
  BY GenPairOf
<1>4. x[1] \in Live /\ x[2] \in Live
  BY <1>3, GenPairs
<1>5. object[x[1]] \in Object /\ object[x[2]] \in Object
  BY <1>4 DEF TypeOK, Live
<1>6. p \in Pair
  BY <1>1, <1>4, <1>5 DEF Pair, Object, Live
<1> QED BY <1>1, <1>2, <1>3, <1>6

(* What stays hot is not outdated, so neither end has moved. *)
LEMMA KeptPairs ==
  ASSUME CInv, NEW p \in hot, ~Outdated(p)
  PROVE  /\ p.watcher # p.marker
         /\ p.watcher \in Live /\ p.marker \in Live
         /\ "watcher" \in object[p.watcher].mode /\ "marker" \in object[p.marker].mode
         /\ "move" \notin object[p.watcher].mode
         /\ "move" \notin object[p.marker].mode
         /\ <<p.watcher, p.marker>> \notin gen_pair_list
<1>1. /\ p.watcher # p.marker
      /\ p.watcher \in Live /\ p.marker \in Live
      /\ "watcher" \in object[p.watcher].mode /\ "marker" \in object[p.marker].mode
      /\ "move" \notin object[p.watcher].mode
      /\ "move" \notin object[p.marker].mode
  BY DEF CInv, EndsHold, EndHolds, Outdated
<1> QED BY <1>1, GenPairs

LEMMA MessagePairs ==
  ASSUME CInv
  PROVE  /\ FlushDropped \subseteq hot /\ FlushDropped \subseteq Pair
         /\ hot \ FlushDropped \subseteq Pair
         /\ \A p \in hot \ FlushDropped : ~Outdated(p)
         /\ GenHot \subseteq Pair
         /\ (hot \ FlushDropped) \cap GenHot = {}
<1>1. FlushDropped \subseteq hot /\ hot \subseteq Pair
  BY DEF FlushDropped, FlushCalled, CInv, TypeOK
<1>2. \A p \in hot \ FlushDropped : ~Outdated(p)
  BY DEF FlushDropped
<1>3. GenHot \subseteq Pair
  BY GenHotPairs DEF CInv
<1>4. ASSUME NEW p \in hot \ FlushDropped, p \in GenHot
      PROVE  FALSE
  BY <1>2, <1>4, KeptPairs, GenHotPairs DEF CInv
<1> QED BY <1>1, <1>2, <1>3, <1>4

(* The references an object loses and gains. *)
LEMMA MessageCounts ==
  ASSUME CInv, NEW i \in Id
  PROVE  LET D == Endpoints(FlushDropped, i)
             K == Endpoints(hot \ FlushDropped, i)
             G == Endpoints(GenHot, i)
         IN  /\ D \in Nat /\ K \in Nat /\ G \in Nat
             /\ Endpoints(hot, i) = D + K
             /\ Endpoints((hot \ FlushDropped) \cup GenHot, i) = K + G
             /\ object[i] = Nil => K = 0 /\ G = 0
             /\ object[i] # Nil /\ "drop" \in object[i].mode => G = 0
<1> DEFINE D == Endpoints(FlushDropped, i)
           K == Endpoints(hot \ FlushDropped, i)
           G == Endpoints(GenHot, i)
<1>1. /\ FlushDropped \subseteq hot /\ FlushDropped \subseteq Pair
      /\ hot \ FlushDropped \subseteq Pair
      /\ GenHot \subseteq Pair
      /\ (hot \ FlushDropped) \cap GenHot = {}
  BY MessagePairs
<1>2. D \in Nat /\ K \in Nat /\ G \in Nat
  BY <1>1, EndpointsNat
<1>3. Endpoints((hot \ FlushDropped) \cup GenHot, i) = K + G
  BY <1>1, EndpointsUnion
<1>4. Endpoints(hot, i) = D + K
  <2>1. FlushDropped \cup (hot \ FlushDropped) = hot
    BY <1>1
  <2>2. FlushDropped \cap (hot \ FlushDropped) = {}
    OBVIOUS
  <2>3. Endpoints(FlushDropped \cup (hot \ FlushDropped), i) = D + K
    BY <1>1, <2>2, EndpointsUnion
  <2> QED BY <2>1, <2>3
<1>5. ASSUME NEW p \in GenHot
      PROVE  /\ p.watcher = i => object[i] # Nil /\ "watcher" \in object[i].mode
             /\ p.marker = i => object[i] # Nil /\ "marker" \in object[i].mode
  BY <1>5, GenHotPairs, GenPairs DEF CInv, Live
<1>6. object[i] = Nil => G = 0
  BY <1>1, <1>5, EndpointsZero
<1>7. object[i] # Nil /\ "drop" \in object[i].mode => G = 0
  <2> SUFFICES ASSUME object[i] # Nil, "drop" \in object[i].mode PROVE G = 0
    OBVIOUS
  <2>1. object[i].mode = {"drop"}
    BY DEF CInv, DropAlone, Live
  <2>2. "watcher" \notin object[i].mode /\ "marker" \notin object[i].mode
    BY <2>1
  <2> QED BY <1>1, <1>5, <2>2, EndpointsZero
<1>8. object[i] = Nil => K = 0
  <2> SUFFICES ASSUME object[i] = Nil PROVE K = 0
    OBVIOUS
  <2>1. Endpoints(hot, i) = 0
    BY DEF CInv, RefCounted
  <2> HIDE DEF D, K
  <2> QED BY <1>2, <1>4, <2>1
<1> QED BY <1>2, <1>3, <1>4, <1>6, <1>7, <1>8

LEMMA ObjectRecord ==
  ASSUME NEW obj \in Object
  PROVE  /\ obj = [ref |-> obj.ref, version |-> obj.version, mode |-> obj.mode,
                   last |-> obj.last, position |-> obj.position]
         /\ obj.ref \in Nat \ {0} /\ obj.version \in 0 .. MaxVersion
         /\ obj.mode \in SUBSET ModeBits /\ obj.last \in Pos /\ obj.position \in Pos
BY DEF Object

(* What aoi_message makes of an object: it is freed with its last          *)
(* reference; otherwise only its count and its move bit change.            *)
LEMMA MessageObject ==
  ASSUME CInv, aoi_message, NEW i \in Id
  PROVE  /\ object[i] = Nil => object'[i] = Nil
         /\ object[i] # Nil =>
              IF object[i].ref - Endpoints(FlushDropped, i) <= 0
                THEN object'[i] = Nil
                ELSE /\ object'[i] \in Object
                     /\ object'[i].ref = object[i].ref - Endpoints(FlushDropped, i)
                                         + Endpoints(GenHot, i)
                     /\ object'[i].version = object[i].version
                     /\ object'[i].position = object[i].position
                     /\ object'[i].mode = PushedMode(object[i].mode)
<1> DEFINE obj == object[i]
           D == Endpoints(FlushDropped, i)
           G == Endpoints(GenHot, i)
           left == drop_object(obj, D)
<1>1. object'[i] = IF obj = Nil THEN Nil
                   ELSE IF left = Nil THEN Nil
                        ELSE [left EXCEPT !.ref = @ + G, !.mode = PushedMode(@)]
  BY DEF aoi_message
<1>2. D \in Nat /\ G \in Nat
  BY MessageCounts
<1> SUFFICES ASSUME object[i] # Nil
             PROVE  IF obj.ref - D <= 0 THEN object'[i] = Nil
                    ELSE /\ object'[i] \in Object
                         /\ object'[i].ref = obj.ref - D + G
                         /\ object'[i].version = obj.version
                         /\ object'[i].position = obj.position
                         /\ object'[i].mode = PushedMode(obj.mode)
  BY <1>1
<1>3. obj \in Object /\ obj # Nil
  BY DEF CInv, TypeOK
<1> HIDE DEF obj, D, G
<1>4. CASE obj.ref - D <= 0
  <2>1. left = Nil
    BY <1>4 DEF drop_object
  <2> QED BY <1>1, <1>4, <2>1
<1>5. CASE ~(obj.ref - D <= 0)
  <2> DEFINE rec == [ref |-> obj.ref - D, version |-> obj.version, mode |-> obj.mode,
                     last |-> obj.last, position |-> obj.position]
             new == [ref |-> obj.ref - D + G, version |-> obj.version,
                     mode |-> PushedMode(obj.mode), last |-> obj.last,
                     position |-> obj.position]
  <2>1. /\ obj.ref \in Nat \ {0} /\ obj.version \in 0 .. MaxVersion
        /\ obj.mode \in SUBSET ModeBits /\ obj.last \in Pos /\ obj.position \in Pos
    BY <1>3, ObjectRecord
  <2>2. [obj EXCEPT !.ref = @ - D] = rec
    BY <1>3, ObjectRecord, ReferencesDropped
  <2>3. left = rec
    BY <1>5, <2>2 DEF drop_object
  <2>4. rec \in Object
    BY <1>2, <1>5, <2>1 DEF Object
  <2>5. rec # Nil
    BY <2>4, NilAssumption
  <2>6. [rec EXCEPT !.ref = @ + G, !.mode = PushedMode(@)] = new
    <3> DEFINE b == [ref |-> obj.ref - D + G, version |-> obj.version, mode |-> obj.mode,
                     last |-> obj.last, position |-> obj.position]
    <3>1. rec.ref = obj.ref - D /\ rec.mode = obj.mode
      OBVIOUS
    <3>2. [rec EXCEPT !.ref = obj.ref - D + G] = b
      OBVIOUS
    <3>3. [b EXCEPT !.mode = PushedMode(obj.mode)] = new
      OBVIOUS
    <3> HIDE DEF rec, b, new
    <3>4. [rec EXCEPT !.ref = @ + G, !.mode = PushedMode(@)]
            = [[rec EXCEPT !.ref = obj.ref - D + G] EXCEPT !.mode = PushedMode(obj.mode)]
      BY <3>1, Zenon
    <3> QED BY <3>2, <3>3, <3>4
  <2>7. object'[i] = new
    <3> HIDE DEF rec, new, left
    <3> QED BY <1>1, <1>3, <2>3, <2>5, <2>6
  <2>8. obj.ref - D + G \in Nat \ {0}
    BY <1>2, <1>5, <2>1
  <2>9. PushedMode(obj.mode) \in SUBSET ModeBits
    BY <2>1 DEF PushedMode
  <2>10. new \in Object
    BY <2>1, <2>8, <2>9 DEF Object
  <2>11. /\ new.ref = obj.ref - D + G /\ new.version = obj.version
         /\ new.position = obj.position /\ new.mode = PushedMode(obj.mode)
    OBVIOUS
  <2> HIDE DEF new
  <2> QED BY <1>5, <2>7, <2>10, <2>11
<1> QED BY <1>4, <1>5

(* An object that is there afterwards is the one that was there. *)
LEMMA MessageKeeps ==
  ASSUME CInv, aoi_message, NEW i \in Id, object'[i] # Nil
  PROVE  /\ object[i] # Nil
         /\ object'[i] \in Object
         /\ object'[i].version = object[i].version
         /\ object'[i].position = object[i].position
         /\ object'[i].mode = PushedMode(object[i].mode)
         /\ "drop" \in object'[i].mode <=> "drop" \in object[i].mode
         /\ "watcher" \in object'[i].mode <=> "watcher" \in object[i].mode
         /\ "marker" \in object'[i].mode <=> "marker" \in object[i].mode
         /\ "move" \in object'[i].mode <=>
              "move" \in object[i].mode /\ object[i].mode \cap Roles = {}
<1>1. /\ object[i] # Nil
      /\ object'[i] \in Object
      /\ object'[i].version = object[i].version
      /\ object'[i].position = object[i].position
      /\ object'[i].mode = PushedMode(object[i].mode)
  BY MessageObject
<1> QED BY <1>1 DEF PushedMode

(* Counts stay right, and an object whose count drops to zero has no pair  *)
(* left that points to it.                                                 *)
LEMMA MessageRefCounted ==
  ASSUME CInv, aoi_message, NEW i \in Id
  PROVE  /\ IF object'[i] = Nil THEN Endpoints(hot', i) = 0
            ELSE object'[i].ref = Endpoints(hot', i)
                                  + (IF "drop" \in object'[i].mode THEN 0 ELSE 1)
         /\ object'[i] = Nil => Endpoints(hot \ FlushDropped, i) = 0
<1> DEFINE D == Endpoints(FlushDropped, i)
           K == Endpoints(hot \ FlushDropped, i)
           G == Endpoints(GenHot, i)
<1>1. /\ D \in Nat /\ K \in Nat /\ G \in Nat
      /\ Endpoints(hot, i) = D + K
      /\ Endpoints((hot \ FlushDropped) \cup GenHot, i) = K + G
      /\ object[i] = Nil => K = 0 /\ G = 0
      /\ object[i] # Nil /\ "drop" \in object[i].mode => G = 0
  BY MessageCounts
<1>2. Endpoints(hot', i) = K + G
  <2>1. hot' = (hot \ FlushDropped) \cup GenHot
    BY DEF aoi_message
  <2> QED BY <1>1, <2>1
<1>3. IF object[i] = Nil THEN Endpoints(hot, i) = 0
      ELSE object[i].ref = Endpoints(hot, i)
                           + (IF "drop" \in object[i].mode THEN 0 ELSE 1)
  BY DEF CInv, RefCounted
<1>4. object[i] = Nil => object'[i] = Nil
  BY MessageObject
<1>5. object[i] # Nil =>
        IF object[i].ref - D <= 0 THEN object'[i] = Nil
        ELSE /\ object'[i] # Nil
             /\ object'[i].ref = object[i].ref - D + G
             /\ "drop" \in object'[i].mode <=> "drop" \in object[i].mode
  <2> SUFFICES ASSUME object[i] # Nil, ~(object[i].ref - D <= 0)
               PROVE  /\ object'[i] # Nil
                      /\ object'[i].ref = object[i].ref - D + G
                      /\ "drop" \in object'[i].mode <=> "drop" \in object[i].mode
    BY MessageObject
  <2>1. object'[i] \in Object /\ object'[i].ref = object[i].ref - D + G
    BY MessageObject
  <2>2. object'[i] # Nil
    BY <2>1, NilAssumption
  <2>3. "drop" \in object'[i].mode <=> "drop" \in object[i].mode
    BY <2>2, MessageKeeps
  <2> QED BY <2>1, <2>2, <2>3
<1> HIDE DEF D, K, G
<1>6. CASE object[i] = Nil
  BY <1>1, <1>2, <1>4, <1>6 DEF K
<1>7. CASE object[i] # Nil
  <2>1. object[i].ref = D + K + (IF "drop" \in object[i].mode THEN 0 ELSE 1)
    BY <1>1, <1>3, <1>7
  <2>2. CASE object[i].ref - D <= 0
    <3>1. "drop" \in object[i].mode /\ K = 0 /\ G = 0
      BY <1>1, <1>7, <2>1, <2>2
    <3> QED BY <1>2, <1>5, <1>7, <2>2, <3>1 DEF K
  <2>3. CASE ~(object[i].ref - D <= 0)
    <3>1. /\ object'[i] # Nil
          /\ object'[i].ref = object[i].ref - D + G
          /\ "drop" \in object'[i].mode <=> "drop" \in object[i].mode
      BY <1>5, <1>7, <2>3
    <3> QED BY <1>1, <1>2, <2>1, <3>1
  <2> QED BY <2>2, <2>3
<1> QED BY <1>6, <1>7

LEMMA MessageInv ==
  ASSUME CInv, aoi_message
  PROVE  CInv'
<1>1. /\ hot' = (hot \ FlushDropped) \cup GenHot
      /\ called' = {<<p.watcher, p.marker>> : p \in FlushCalled} \cup GenCalled
  BY DEF aoi_message
<1>2. /\ FlushDropped \subseteq hot
      /\ hot \ FlushDropped \subseteq Pair
      /\ \A p \in hot \ FlushDropped : ~Outdated(p)
      /\ GenHot \subseteq Pair
  BY MessagePairs
<1>3. hot' \subseteq Pair
  BY <1>1, <1>2
<1>4. called' \subseteq Id \X Id
  <2>1. ASSUME NEW p \in FlushCalled
        PROVE  <<p.watcher, p.marker>> \in Id \X Id
    BY DEF FlushCalled, CInv, TypeOK, Pair
  <2>2. ASSUME NEW x \in GenCalled
        PROVE  x \in Id \X Id
    BY GenPairOf, GenPairs DEF GenCalled, Live
  <2> QED BY <1>1, <2>1, <2>2
<1>5. object' \in [Id -> Object \cup {Nil}]
  <2>1. \A i \in Id : object'[i] \in Object \cup {Nil}
    BY MessageObject
  <2>2. object' = [i \in Id |-> object'[i]]
    BY DEF aoi_message
  <2> QED BY <2>1, <2>2
<1>6. TypeOK'
  BY <1>3, <1>4, <1>5 DEF TypeOK
<1>7. DropAlone'
  <2> SUFFICES ASSUME NEW i \in Id, object'[i] # Nil, "drop" \in object'[i].mode
               PROVE  object'[i].mode = {"drop"}
    BY DEF DropAlone, Live
  <2>1. /\ object[i] # Nil /\ "drop" \in object[i].mode
        /\ object'[i].mode = PushedMode(object[i].mode)
    BY MessageKeeps
  <2>2. object[i].mode = {"drop"}
    BY <2>1 DEF CInv, DropAlone, Live
  <2> QED BY <2>1, <2>2 DEF PushedMode, Roles
<1>8. RefCounted'
  BY MessageRefCounted DEF RefCounted
<1>9. ASSUME NEW p \in hot', NEW i \in Id, i = p.watcher \/ i = p.marker
      PROVE  object'[i] # Nil
  <2>1. Endpoints(hot', i) # 0
    BY <1>3, <1>9, EndpointsZero
  <2> QED BY <2>1, MessageRefCounted
<1>10. EndsHold'
  <2> SUFFICES ASSUME NEW p \in hot'
               PROVE  /\ p.watcher # p.marker
                      /\ EndHolds(p.watcher, p.watcher_version, "watcher")'
                      /\ EndHolds(p.marker, p.marker_version, "marker")'
    BY DEF EndsHold
  <2>1. p.watcher \in Id /\ p.marker \in Id
    BY <1>3 DEF Pair
  <2>2. object'[p.watcher] # Nil /\ object'[p.marker] # Nil
    BY <1>9, <2>1
  <2>3. /\ p.watcher # p.marker
        /\ p.watcher_version = object[p.watcher].version
        /\ p.marker_version = object[p.marker].version
        /\ "watcher" \in object[p.watcher].mode /\ "marker" \in object[p.marker].mode
    <3>1. CASE p \in GenHot
      BY <3>1, GenHotPairs, GenPairs DEF CInv
    <3>2. CASE p \in hot \ FlushDropped
      BY <1>2, <3>2, KeptPairs DEF Outdated
    <3> QED BY <1>1, <3>1, <3>2
  <2>4. ASSUME NEW i \in Id, NEW v, NEW role \in Roles, object'[i] # Nil,
               v = object[i].version, role \in object[i].mode
        PROVE  EndHolds(i, v, role)'
    <3>1. /\ object[i] # Nil
          /\ object'[i].version = object[i].version
          /\ role \in object'[i].mode /\ "move" \notin object'[i].mode
      BY <2>4, MessageKeeps DEF Roles
    <3>2. v \in Nat
      BY <2>4, <3>1 DEF CInv, TypeOK, Object
    <3> QED BY <2>4, <3>1, <3>2 DEF EndHolds, Live
  <2> QED BY <2>1, <2>2, <2>3, <2>4 DEF Roles
<1>11. OneHotPair'
  <2> SUFFICES ASSUME NEW p \in hot', NEW q \in hot',
                      p.watcher = q.watcher, p.marker = q.marker
               PROVE  p = q
    BY DEF OneHotPair
  <2>1. CASE p \in GenHot /\ q \in GenHot
    BY <2>1, GenHotPairs DEF CInv
  <2>2. CASE p \in hot \ FlushDropped /\ q \in hot \ FlushDropped
    BY <2>2 DEF CInv, OneHotPair
  <2>3. ASSUME NEW r \in GenHot, NEW s \in hot \ FlushDropped
        PROVE  r.watcher # s.watcher \/ r.marker # s.marker
    BY <1>2, <2>3, GenHotPairs, KeptPairs DEF CInv
  <2> QED BY <1>1, <2>1, <2>2, <2>3
<1> QED BY <1>6, <1>7, <1>8, <1>10, <1>11 DEF CInv

(* A present object outlives aoi_message. *)
LEMMA MessagePresent ==
  ASSUME CInv, aoi_message, NEW i \in Live, "drop" \notin object[i].mode
  PROVE  i \in Live'
<1>1. i \in Id /\ object[i] # Nil
  BY DEF Live
<1>2. /\ Endpoints(FlushDropped, i) \in Nat /\ Endpoints(hot \ FlushDropped, i) \in Nat
      /\ Endpoints(hot, i) = Endpoints(FlushDropped, i) + Endpoints(hot \ FlushDropped, i)
  BY <1>1, MessageCounts
<1>3. object[i].ref = Endpoints(hot, i) + 1
  BY <1>1 DEF CInv, RefCounted
<1>4. ~(object[i].ref - Endpoints(FlushDropped, i) <= 0)
  BY <1>2, <1>3
<1>5. object'[i] \in Object
  BY <1>1, <1>4, MessageObject
<1> QED BY <1>1, <1>5, NilAssumption DEF Live

(* A departed object does not: flush_pair forgets every pair that points   *)
(* to it, and the last one frees it.                                       *)
LEMMA MessageFrees ==
  ASSUME CInv, aoi_message, NEW i \in Live, "drop" \in object[i].mode
  PROVE  object'[i] = Nil
<1>1. i \in Id /\ object[i] # Nil
  BY DEF Live
<1>2. \A p \in hot \ FlushDropped : p.watcher # i /\ p.marker # i
  BY MessagePairs DEF Outdated
<1>3. Endpoints(hot \ FlushDropped, i) = 0
  BY <1>2, MessagePairs, EndpointsZero
<1>4. /\ Endpoints(FlushDropped, i) \in Nat
      /\ Endpoints(hot, i) = Endpoints(FlushDropped, i) + Endpoints(hot \ FlushDropped, i)
  BY <1>1, MessageCounts
<1>5. object[i].ref = Endpoints(hot, i) + 0
  BY <1>1 DEF CInv, RefCounted
<1>6. object[i].ref \in Nat
  BY <1>1 DEF CInv, TypeOK, Object
<1>7. object[i].ref - Endpoints(FlushDropped, i) <= 0
  BY <1>3, <1>4, <1>5, <1>6
<1> QED BY <1>1, <1>7, MessageObject

-----------------------------------------------------------------------------
LEMMA InitCInv == Init => CInv
<1> SUFFICES ASSUME Init PROVE CInv
  OBVIOUS
<1>1. TypeOK /\ DropAlone /\ EndsHold /\ OneHotPair
  BY DEF Init, TypeOK, DropAlone, EndsHold, OneHotPair, Live
<1>2. \A i \in Id : Endpoints(hot, i) = 0
  BY EndpointsZero DEF Init
<1> QED BY <1>1, <1>2 DEF CInv, RefCounted, Init

LEMMA NextCInv == CInv /\ [Next]_vars => CInv'
<1> SUFFICES ASSUME CInv, [Next]_vars PROVE CInv'
  OBVIOUS
<1>1. ASSUME NEW id \in Id, NEW roles \in ModeStrings, NEW pos \in Pos,
             aoi_update(id, roles, pos)
      PROVE  CInv'
  BY <1>1, UpdateInv
<1>2. ASSUME NEW id \in Id, aoi_drop(id)
      PROVE  CInv'
  BY <1>2, DropInv
<1>3. CASE aoi_message
  BY <1>3, MessageInv
<1>4. CASE UNCHANGED vars
  BY <1>4 DEF vars, CInv, TypeOK, DropAlone, EndsHold, EndHolds, Live,
     RefCounted, OneHotPair, Endpoints
<1> QED BY <1>1, <1>2, <1>3, <1>4 DEF Next

(* The inductive invariant of the engine. *)
THEOREM EngineInvariant == Spec => []CInv
BY InitCInv, NextCInv, PTL DEF Spec

(* grab_object and drop_object balance: an object is freed exactly when    *)
(* it has left and no hot pair points to it.                               *)
THEOREM RefCountedAlways == Spec => []RefCounted
<1>1. CInv => RefCounted
  BY DEF CInv
<1> QED BY <1>1, EngineInvariant, PTL

(* Two objects have at most one pair in space->hot. *)
THEOREM OneHotPairAlways == Spec => []OneHotPair
<1>1. CInv => OneHotPair
  BY DEF CInv
<1> QED BY <1>1, EngineInvariant, PTL

(* What flush_pair and gen_pair call back, although flush_pair does not    *)
(* look at the roles.                                                      *)
LEMMA MessageCalls ==
  ASSUME CInv, aoi_message, NEW c \in called'
  PROVE  /\ c[1] # c[2]
         /\ {c[1], c[2]} \subseteq Live
         /\ "watcher" \in object[c[1]].mode
         /\ "marker" \in object[c[2]].mode
         /\ dist2(c[1], c[2]) < AOI_RADIS2
<1>1. ASSUME NEW p \in FlushCalled
      PROVE  /\ p.watcher # p.marker
             /\ {p.watcher, p.marker} \subseteq Live
             /\ "watcher" \in object[p.watcher].mode
             /\ "marker" \in object[p.marker].mode
             /\ dist2(p.watcher, p.marker) < AOI_RADIS2
  BY KeptPairs DEF FlushCalled
<1>2. ASSUME NEW x \in GenCalled
      PROVE  /\ x[1] # x[2]
             /\ {x[1], x[2]} \subseteq Live
             /\ "watcher" \in object[x[1]].mode
             /\ "marker" \in object[x[2]].mode
             /\ dist2(x[1], x[2]) < AOI_RADIS2
  BY GenPairs, GenPairOf DEF GenCalled
<1>3. called' = {<<p.watcher, p.marker>> : p \in FlushCalled} \cup GenCalled
  BY DEF aoi_message
<1> QED BY <1>1, <1>2, <1>3

(* Every callback names a present watcher and another present marker that  *)
(* is inside its radius, although flush_pair does not look at the roles.   *)
THEOREM CallbackSoundAlways == Spec => CallbackSound
<1> DEFINE Sound ==
      \A c \in called' :
        /\ c[1] # c[2]
        /\ {c[1], c[2]} \subseteq Live
        /\ "watcher" \in object[c[1]].mode
        /\ "marker" \in object[c[2]].mode
        /\ dist2(c[1], c[2]) < AOI_RADIS2
<1>1. CInv /\ [Next]_vars => [Sound]_vars
  <2> SUFFICES ASSUME CInv, Next PROVE Sound
    OBVIOUS
  <2>1. ASSUME NEW id \in Id, NEW roles \in ModeStrings, NEW pos \in Pos,
               aoi_update(id, roles, pos)
        PROVE  Sound
    BY <2>1 DEF aoi_update
  <2>2. ASSUME NEW id \in Id, aoi_drop(id)
        PROVE  Sound
    BY <2>2 DEF aoi_drop
  <2>3. CASE aoi_message
    BY <2>3, MessageCalls
  <2> QED BY <2>1, <2>2, <2>3 DEF Next
<1>2. Spec => [][Next]_vars
  BY PTL DEF Spec
<1> QED BY <1>1, <1>2, EngineInvariant, PTL DEF CallbackSound

-----------------------------------------------------------------------------
(* Callbacks over several calls. *)

(* A pair that was called back since its objects moved is present, has not *)
(* moved, and is not hot any more, or only with an outdated pair.          *)
Settled(w, m) ==
  /\ w # m /\ w \in Live /\ m \in Live
  /\ "watcher" \in object[w].mode /\ "marker" \in object[m].mode
  /\ "move" \notin object[w].mode /\ "move" \notin object[m].mode
  /\ \A p \in hot : p.watcher = w /\ p.marker = m => Outdated(p)

ToldSettled == \A w, m \in Id : <<w, m>> \in told => Settled(w, m)

(* NoMissedArrival takes care of itself; CallbackOnce needs ToldSettled. *)
HInv == CInv /\ told \subseteq Id \X Id /\ ToldSettled /\ NoMissedArrival

LEMMA DistInt == ASSUME TypeOK, NEW i \in Live, NEW j \in Live
                 PROVE  dist2(i, j) \in Int /\ AOI_RADIS2 \in Int
<1>1. object[i].position \in Pos /\ object[j].position \in Pos
  BY DEF TypeOK, Live, Object
<1>2. \A p, q \in Pos : DIST2(p, q) \in Int
  <2> SUFFICES ASSUME NEW p \in Pos, NEW q \in Pos PROVE DIST2(p, q) \in Int
    OBVIOUS
  <2>1. p[1] \in Int /\ p[2] \in Int /\ p[3] \in Int
    BY PosAssumption
  <2>2. q[1] \in Int /\ q[2] \in Int /\ q[3] \in Int
    BY PosAssumption
  <2>3. \A x, y \in Int : (x - y) * (x - y) \in Int
    OBVIOUS
  <2> QED BY <2>1, <2>2, <2>3 DEF DIST2
<1>3. AOI_RADIS2 \in Int
  <2>1. \A x \in Nat : x * x \in Int
    OBVIOUS
  <2> QED BY <2>1, RadiusAssumption DEF AOI_RADIS2
<1> QED BY <1>1, <1>2, <1>3 DEF dist2

(* A change to one object leaves pairs without it settled. *)
LEMMA SettledFrame ==
  ASSUME CInv, NEW id \in Id, NEW w \in Id, NEW m \in Id, w # id, m # id,
         hot' = hot, \A i \in Id : i # id => object'[i] = object[i],
         Settled(w, m)
  PROVE  Settled(w, m)'
<1>1. object'[w] = object[w] /\ object'[m] = object[m]
  OBVIOUS
<1>2. w \in Live' /\ m \in Live'
  BY <1>1 DEF Settled, Live
<1>3. \A p \in hot' : p.watcher = w /\ p.marker = m => Outdated(p)'
  BY <1>1 DEF Settled, Outdated
<1> QED BY <1>1, <1>2, <1>3 DEF Settled

LEMMA HUpdateInv ==
  ASSUME HInv, NEW id \in Id, NEW roles \in ModeStrings, NEW pos \in Pos,
         HUpdate(id, roles, pos)
  PROVE  HInv'
<1> USE DEF HInv
<1>1. aoi_update(id, roles, pos)
  BY DEF HUpdate
<1>2. CInv'
  BY <1>1, UpdateInv
<1>3. /\ object' = [object EXCEPT ![id] = object'[id]]
      /\ object'[id] \in Object
      /\ IF IsMove(id, roles, pos)
           THEN "move" \in object'[id].mode
           ELSE /\ object'[id].version = object[id].version
                /\ object'[id].mode = object[id].mode
                /\ object[id] # Nil
      /\ hot' = hot
  BY <1>1, UpdatedObject, QueriedObject
<1>4. \A i \in Id : i # id => object'[i] = object[i]
  BY <1>3 DEF CInv, TypeOK
<1>5. id \in Live' /\ Live' = Live \cup {id}
  BY <1>3, <1>4, NilAssumption DEF Live
<1>6. told' \subseteq Id \X Id /\ told' \subseteq told
  BY DEF HUpdate, Without
<1>7. ToldSettled'
  <2> SUFFICES ASSUME NEW w \in Id, NEW m \in Id, <<w, m>> \in told'
               PROVE  Settled(w, m)'
    BY DEF ToldSettled
  <2>1. Settled(w, m)
    BY <1>6 DEF ToldSettled
  <2>2. CASE w # id /\ m # id
    BY <1>3, <1>4, <2>1, <2>2, SettledFrame
  <2>3. CASE w = id \/ m = id
    <3>1. ~IsMove(id, roles, pos)
      BY <2>3 DEF HUpdate, Without
    <3>2. \A i \in Live : /\ object'[i].version = object[i].version
                          /\ object'[i].mode = object[i].mode
      BY <1>3, <1>4, <3>1 DEF Live
    <3>3. \A p \in hot' : p.watcher = w /\ p.marker = m => Outdated(p)'
      BY <1>3, <2>1, <3>2 DEF Settled, Outdated
    <3> QED BY <1>5, <2>1, <3>2, <3>3 DEF Settled
  <2> QED BY <2>2, <2>3
<1>8. NoMissedArrival'
  <2> SUFFICES ASSUME NEW w \in Live', NEW m \in Live', w # m,
                      "watcher" \in object'[w].mode, "marker" \in object'[m].mode,
                      "move" \notin object'[w].mode \cup object'[m].mode,
                      {w, m} \cap drifted' = {},
                      dist2(w, m)' < AOI_RADIS2
               PROVE  <<w, m>> \in told'
    BY DEF NoMissedArrival, AOI_RADIS2
  <2>1. w # id /\ m # id
    BY <1>3 DEF HUpdate
  <2>2. object'[w] = object[w] /\ object'[m] = object[m]
    BY <1>4, <2>1 DEF Live
  <2>3. w \in Live /\ m \in Live /\ dist2(w, m) < AOI_RADIS2
    BY <1>5, <2>1, <2>2 DEF dist2
  <2>4. {w, m} \cap drifted = {}
    BY <2>1 DEF HUpdate
  <2>5. <<w, m>> \in told
    BY <2>2, <2>3, <2>4 DEF NoMissedArrival
  <2> QED BY <2>1, <2>5 DEF HUpdate, Without
<1> QED BY <1>2, <1>6, <1>7, <1>8

LEMMA HDropInv ==
  ASSUME HInv, NEW id \in Id, HDrop(id)
  PROVE  HInv'
<1> USE DEF HInv
<1>1. aoi_drop(id)
  BY DEF HDrop
<1>2. CInv'
  BY <1>1, DropInv
<1>3. /\ object' = [object EXCEPT ![id] = object'[id]]
      /\ hot' = hot
  BY <1>1, DroppedObject
<1>4. \A i \in Id : i # id => object'[i] = object[i]
  BY <1>3 DEF CInv, TypeOK
<1>5. object'[id] # Nil => object'[id].mode = {"drop"}
  <2>1. object[id] # Nil /\ "drop" \in object[id].mode => object[id].mode = {"drop"}
    BY DEF CInv, DropAlone, Live
  <2> QED BY <1>1, <2>1, DroppedObject
<1>6. told' \subseteq Id \X Id
  BY DEF HDrop, Without
<1>7. ToldSettled'
  BY <1>3, <1>4, SettledFrame DEF ToldSettled, HDrop, Without
<1>8. NoMissedArrival'
  <2> SUFFICES ASSUME NEW w \in Live', NEW m \in Live', w # m,
                      "watcher" \in object'[w].mode, "marker" \in object'[m].mode,
                      "move" \notin object'[w].mode \cup object'[m].mode,
                      {w, m} \cap drifted' = {},
                      dist2(w, m)' < AOI_RADIS2
               PROVE  <<w, m>> \in told'
    BY DEF NoMissedArrival, AOI_RADIS2
  <2>1. w # id /\ m # id
    BY <1>5 DEF Live
  <2>2. object'[w] = object[w] /\ object'[m] = object[m]
    BY <1>4, <2>1 DEF Live
  <2>3. w \in Live /\ m \in Live /\ dist2(w, m) < AOI_RADIS2
    BY <2>1, <2>2 DEF dist2, Live
  <2>4. {w, m} \cap drifted = {}
    BY <2>1 DEF HDrop
  <2>5. <<w, m>> \in told
    BY <2>2, <2>3, <2>4 DEF NoMissedArrival
  <2> QED BY <2>1, <2>5 DEF HDrop, Without
<1> QED BY <1>2, <1>6, <1>7, <1>8

LEMMA HMessageInv ==
  ASSUME HInv, HMessage
  PROVE  HInv'
<1> USE DEF HInv
<1>1. /\ aoi_message
      /\ told' = told \cup called'
      /\ drifted' = drifted
      /\ hot' = (hot \ FlushDropped) \cup GenHot
      /\ called' = {<<p.watcher, p.marker>> : p \in FlushCalled} \cup GenCalled
  BY DEF HMessage, aoi_message
<1>2. CInv'
  BY <1>1, MessageInv
<1>3. told' \subseteq Id \X Id
  BY <1>1, <1>2 DEF CInv, TypeOK
<1>4. /\ \A p \in hot \ FlushDropped : p \in hot /\ ~Outdated(p)
      /\ FlushCalled \subseteq FlushDropped
  BY MessagePairs DEF FlushDropped
<1>5. ASSUME NEW w \in Live, NEW m \in Live, w # m,
             "watcher" \in object[w].mode, "marker" \in object[m].mode,
             \A p \in hot \ FlushDropped : ~(p.watcher = w /\ p.marker = m),
             \A p \in GenHot : ~(p.watcher = w /\ p.marker = m)
      PROVE  Settled(w, m)'
  <2>1. "drop" \notin object[w].mode /\ "drop" \notin object[m].mode
    BY <1>5 DEF CInv, DropAlone
  <2>2. w \in Live' /\ m \in Live'
    BY <1>1, <2>1, MessagePresent
  <2>3. /\ "watcher" \in object'[w].mode /\ "move" \notin object'[w].mode
        /\ "marker" \in object'[m].mode /\ "move" \notin object'[m].mode
    BY <1>1, <1>5, <2>2, MessageKeeps DEF Live, Roles
  <2>4. \A p \in hot' : ~(p.watcher = w /\ p.marker = m)
    BY <1>1, <1>5
  <2> QED BY <1>5, <2>2, <2>3, <2>4 DEF Settled
<1>6. ToldSettled'
  <2> SUFFICES ASSUME NEW w \in Id, NEW m \in Id, <<w, m>> \in told'
               PROVE  Settled(w, m)'
    BY DEF ToldSettled
  <2>1. CASE <<w, m>> \in told
    <3>1. Settled(w, m)
      BY <2>1 DEF ToldSettled
    <3>2. <<w, m>> \notin gen_pair_list
      BY <3>1, GenPairs DEF Settled
    <3>3. \A p \in GenHot : ~(p.watcher = w /\ p.marker = m)
      BY <3>2, GenHotPairs DEF CInv
    <3> QED BY <1>4, <1>5, <3>1, <3>3 DEF Settled
  <2>2. CASE \E p \in FlushCalled : <<w, m>> = <<p.watcher, p.marker>>
    <3>1. PICK p \in FlushCalled : w = p.watcher /\ m = p.marker
      BY <2>2
    <3>2. p \in hot /\ p \in FlushDropped /\ ~Outdated(p)
      BY <1>4 DEF FlushCalled
    <3>3. \A q \in hot \ FlushDropped : ~(q.watcher = w /\ q.marker = m)
      BY <3>1, <3>2 DEF CInv, OneHotPair
    <3>4. \A q \in GenHot : ~(q.watcher = w /\ q.marker = m)
      BY <3>1, <3>2, KeptPairs, GenHotPairs DEF CInv
    <3> QED BY <1>5, <3>1, <3>2, <3>3, <3>4, KeptPairs
  <2>3. CASE <<w, m>> \in GenCalled
    <3>1. <<w, m>> \in gen_pair_list /\ dist2(w, m) < AOI_RADIS2
      BY <2>3 DEF GenCalled
    <3>2. w \in Live /\ m \in Live
      BY <3>1, GenPairs
    <3>3. \A q \in hot \ FlushDropped : ~(q.watcher = w /\ q.marker = m)
      BY <1>4, <3>1, KeptPairs
    <3>4. dist2(w, m) \in Int /\ AOI_RADIS2 \in Int
      BY <3>2, DistInt DEF CInv
    <3>5. ~(dist2(w, m) >= AOI_RADIS2)
      BY <3>1, <3>4
    <3>6. \A q \in GenHot : ~(q.watcher = w /\ q.marker = m)
      BY <3>5, GenHotPairs DEF CInv
    <3> QED BY <1>5, <3>1, <3>2, <3>3, <3>6, GenPairs
  <2> QED BY <1>1, <2>1, <2>2, <2>3
<1>7. NoMissedArrival'
  <2> SUFFICES ASSUME NEW w \in Live', NEW m \in Live', w # m,
                      "watcher" \in object'[w].mode, "marker" \in object'[m].mode,
                      "move" \notin object'[w].mode \cup object'[m].mode,
                      {w, m} \cap drifted' = {},
                      dist2(w, m)' < AOI_RADIS2
               PROVE  <<w, m>> \in told'
    BY DEF NoMissedArrival, AOI_RADIS2
  <2>1. w \in Id /\ m \in Id /\ object'[w] # Nil /\ object'[m] # Nil
    BY DEF Live
  <2>2. /\ w \in Live /\ m \in Live
        /\ "watcher" \in object[w].mode /\ "marker" \in object[m].mode
        /\ object'[w].position = object[w].position
        /\ object'[m].position = object[m].position
    BY <1>1, <2>1, MessageKeeps DEF Live
  <2>3. dist2(w, m) < AOI_RADIS2
    BY <2>2 DEF dist2
  <2>4. CASE "move" \in object[w].mode \cup object[m].mode
    <3>1. <<w, m>> \in gen_pair_list
      BY <2>2, <2>4, GenPairs
    <3>2. <<w, m>> \in GenCalled
      BY <2>3, <3>1 DEF GenCalled
    <3> QED BY <1>1, <3>2
  <2>5. CASE "move" \notin object[w].mode \cup object[m].mode
    BY <1>1, <2>2, <2>3, <2>5 DEF NoMissedArrival
  <2> QED BY <2>4, <2>5
<1> QED BY <1>2, <1>3, <1>6, <1>7

(* The history variables only watch: what holds of Spec holds of HSpec. *)
LEMMA HistoryWatches == HSpec => Spec
<1>1. HInit => Init
  BY DEF HInit
<1>2. [HNext]_hvars => [Next]_vars
  BY DEF HNext, HUpdate, HDrop, HMessage, Next, hvars, vars
<1> QED BY <1>1, <1>2, PTL DEF HSpec, Spec

LEMMA NextHInv == HInv /\ [HNext]_hvars => HInv'
<1> SUFFICES ASSUME HInv, [HNext]_hvars PROVE HInv'
  OBVIOUS
<1>1. ASSUME NEW id \in Id, NEW roles \in ModeStrings, NEW pos \in Pos,
             HUpdate(id, roles, pos)
      PROVE  HInv'
  BY <1>1, HUpdateInv
<1>2. ASSUME NEW id \in Id, HDrop(id)
      PROVE  HInv'
  BY <1>2, HDropInv
<1>3. CASE HMessage
  BY <1>3, HMessageInv
<1>4. CASE UNCHANGED hvars
  BY <1>4 DEF hvars, HInv, CInv, TypeOK, DropAlone, EndsHold, EndHolds, Live,
     RefCounted, OneHotPair, Endpoints, ToldSettled, Settled, Outdated,
     NoMissedArrival, dist2
<1> QED BY <1>1, <1>2, <1>3, <1>4 DEF HNext

(* The inductive invariant of the engine with its history. *)
THEOREM HistoryInvariant == HSpec => []HInv
<1>1. HInit => HInv
  <2>1. HInit => CInv
    BY InitCInv DEF HInit
  <2>2. HInit => told = {} /\ \A i \in Id : object[i] = Nil
    BY DEF HInit, Init
  <2> QED BY <2>1, <2>2 DEF HInv, ToldSettled, NoMissedArrival, Live
<1> QED BY <1>1, NextHInv, PTL DEF HSpec

(* No arrival is missed: once its move is consumed, every watcher has been *)
(* told of every marker inside its radius that has not drifted.            *)
THEOREM NoMissedArrivalAlways == HSpec => []NoMissedArrival
<1>1. HInv => NoMissedArrival
  BY DEF HInv
<1> QED BY <1>1, HistoryInvariant, PTL

(* A pair is called back at most once per move, by flush_pair or by        *)
(* gen_pair but never by both.                                             *)
THEOREM CallbackOnceAlways == HSpec => CallbackOnce
<1> DEFINE Once ==
      /\ called' \cap told = {}
      /\ HMessage => {<<p.watcher, p.marker>> : p \in FlushCalled} \cap GenCalled = {}
<1>1. HInv /\ [HNext]_hvars => [Once]_hvars
  <2> SUFFICES ASSUME HInv, HNext PROVE Once
    OBVIOUS
  <2> USE DEF HInv
  <2>1. {<<p.watcher, p.marker>> : p \in FlushCalled} \cap GenCalled = {}
    BY KeptPairs DEF FlushCalled, GenCalled
  <2>2. ASSUME NEW id \in Id, NEW roles \in ModeStrings, NEW pos \in Pos,
               HUpdate(id, roles, pos)
        PROVE  called' = {}
    BY <2>2 DEF HUpdate, aoi_update
  <2>3. ASSUME NEW id \in Id, HDrop(id)
        PROVE  called' = {}
    BY <2>3 DEF HDrop, aoi_drop
  <2>4. CASE HMessage
    <3>1. called' = {<<p.watcher, p.marker>> : p \in FlushCalled} \cup GenCalled
      BY <2>4 DEF HMessage, aoi_message
    <3> SUFFICES ASSUME NEW w \in Id, NEW m \in Id, <<w, m>> \in told
                 PROVE  <<w, m>> \notin called'
      BY <2>1
    <3>2. Settled(w, m)
      BY DEF ToldSettled
    <3>3. <<w, m>> \notin GenCalled
      BY <3>2, GenPairs DEF Settled, GenCalled
    <3>4. \A p \in FlushCalled : ~(p.watcher = w /\ p.marker = m)
      BY <3>2 DEF Settled, FlushCalled
    <3> QED BY <3>1, <3>3, <3>4
  <2> QED BY <2>1, <2>2, <2>3, <2>4 DEF HNext
<1>2. HSpec => [][HNext]_hvars
  BY PTL DEF HSpec
<1> QED BY <1>1, <1>2, HistoryInvariant, PTL DEF CallbackOnce

=============================================================================
