------------------------------- MODULE Caoi -------------------------------
(***************************************************************************)
(* The area-of-interest engine of skynet/service-src/service_caoi.c: a map *)
(* of reference counted objects and a list of "hot" pairs of objects that  *)
(* were last seen on the edge of each other's radius.  aoi_update reports  *)
(* a position or a departure, aoi_message (sent every 0.1s by aoi.lua)     *)
(* calls back with every watcher/marker pair that came into range.         *)
(*                                                                         *)
(* The service has one thread, so a whole call is one step.  Objects are   *)
(* known by their id: a struct object is reachable exactly while the map   *)
(* holds it, and a pair holds the pointers of two objects.                 *)
(***************************************************************************)
EXTENDS Integers, FiniteSets

CONSTANTS
  Id,           \* object ids handed out by aoi.lua
  Pos,          \* positions <<x, y, z>> an update may report
  ModeStrings,  \* role sets the letters 'w' and 'm' of an update may spell
  Radius,       \* AOI_RADIS, 40 in the source
  MaxVersion,   \* bound: how often one object's version may be incremented
  Nil           \* no object under this id in the map

ASSUME IdAssumption == IsFiniteSet(Id) /\ Nil \notin Id
ASSUME PosAssumption == Pos \subseteq Int \X Int \X Int /\ Pos # {}
ASSUME ModeAssumption == ModeStrings \subseteq SUBSET {"watcher", "marker"}
ASSUME RadiusAssumption == Radius \in Nat \ {0}
ASSUME VersionAssumption == MaxVersion \in Nat

VARIABLES
  object,       \* space->object: id -> struct object, or Nil
  hot,          \* space->hot: the pairs kept for the next aoi_message
  called        \* the (watcher, marker) pairs the last aoi_message called back

vars == <<object, hot, called>>

-----------------------------------------------------------------------------
(* Geometry.  LEAVE_AOI_RADIS is defined as AOI_RADIS2 in this repository. *)

DIST2(p, q) == (p[1] - q[1]) * (p[1] - q[1]) + (p[2] - q[2]) * (p[2] - q[2])
             + (p[3] - q[3]) * (p[3] - q[3])
AOI_RADIS2 == Radius * Radius
LEAVE_AOI_RADIS == AOI_RADIS2
is_near(p, q) == 4 * DIST2(p, q) < AOI_RADIS2

(* obj->mode is the set of its bits. *)
Roles == {"watcher", "marker"}
ModeBits == Roles \cup {"move", "drop"}

Object == [ref : Nat \ {0}, version : 0 .. MaxVersion, mode : SUBSET ModeBits,
           last : Pos, position : Pos]
Pair == [watcher : Id, marker : Id,
         watcher_version : 0 .. MaxVersion, marker_version : 0 .. MaxVersion]

(* NULL is not the address of a struct object. *)
ASSUME NilAssumption == Nil \notin Object

Live == {i \in Id : object[i] # Nil}

-----------------------------------------------------------------------------
(* last is not initialised by the code; it is only read once it was set.   *)
new_object(pos) == [ref |-> 1, version |-> 0, mode |-> {},
                    last |-> pos, position |-> pos]

map_query(id, pos) == IF object[id] = Nil THEN new_object(pos) ELSE object[id]

(* Mutant: the test for the last reference is off by one. *)
drop_object_keeps_zero(obj, n) ==
  IF obj.ref - n < 0 THEN Nil ELSE [obj EXCEPT !.ref = @ - n]

(* drop_object, n times on one object: the last reference frees it and     *)
(* takes it out of the map.                                                *)
drop_object(obj, n) ==
  IF obj.ref - n <= 0 THEN Nil ELSE [obj EXCEPT !.ref = @ - n]

ModeChanges(mode, roles) == mode = {} \/ mode \cap Roles # roles
change_mode(mode, roles) == (mode \ Roles) \cup roles

(* The update is a new object, a new mode or a move away from last. *)
IsMove(id, roles, pos) ==
  LET obj == map_query(id, pos)
  IN  ModeChanges(obj.mode \ {"drop"}, roles) \/ ~is_near(pos, obj.last)

(* Mutant: a departed object that comes back is not grabbed again. *)
aoi_update_without_grab(id, roles, pos) ==
  LET obj   == map_query(id, pos)
      moved == IsMove(id, roles, pos)
  IN  /\ moved => obj.version < MaxVersion
      /\ object' = [object EXCEPT ![id] =
           [ref      |-> obj.ref,
            version  |-> IF moved THEN obj.version + 1 ELSE obj.version,
            mode     |-> change_mode(obj.mode \ {"drop"}, roles)
                           \cup (IF moved THEN {"move"} ELSE {}),
            last     |-> IF moved THEN pos ELSE obj.last,
            position |-> pos]]
      /\ called' = {}
      /\ UNCHANGED hot

aoi_update(id, roles, pos) ==
  LET obj   == map_query(id, pos)
      moved == IsMove(id, roles, pos)
  IN  /\ moved => obj.version < MaxVersion
      /\ object' = [object EXCEPT ![id] =
           [ref      |-> IF "drop" \in obj.mode THEN obj.ref + 1 ELSE obj.ref,
            version  |-> IF moved THEN obj.version + 1 ELSE obj.version,
            mode     |-> change_mode(obj.mode \ {"drop"}, roles)
                           \cup (IF moved THEN {"move"} ELSE {}),
            last     |-> IF moved THEN pos ELSE obj.last,
            position |-> pos]]
      /\ called' = {}
      /\ UNCHANGED hot

(* aoi_update with a 'd' in its mode string: an id the map does not know   *)
(* is created and freed again.                                             *)
aoi_drop(id) ==
  LET obj == map_query(id, CHOOSE p \in Pos : TRUE)
  IN  /\ object' = [object EXCEPT ![id] =
           IF "drop" \in obj.mode THEN obj
           ELSE drop_object([obj EXCEPT !.mode = {"drop"}], 1)]
      /\ called' = {}
      /\ UNCHANGED hot
-----------------------------------------------------------------------------
(* Endpoints(P, i): how many of the watcher and marker pointers of the     *)
(* pairs of P point to object i.                                           *)
Endpoints(P, i) == Cardinality({p \in P : p.watcher = i})
                 + Cardinality({p \in P : p.marker = i})

dist2(i, j) == DIST2(object[i].position, object[j].position)

(* Mutants: flush_pair overlooks a departure, or a move. *)
OutdatedWithoutDrop(p) ==
  \/ object[p.watcher].version # p.watcher_version
  \/ object[p.marker].version # p.marker_version

OutdatedWithoutVersion(p) ==
  \/ "drop" \in object[p.watcher].mode
  \/ "drop" \in object[p.marker].mode

(* flush_pair: a pair whose objects moved or left is forgotten; the others *)
(* are called back and forgotten once they are inside the radius.          *)
Outdated(p) ==
  \/ object[p.watcher].version # p.watcher_version
  \/ object[p.marker].version # p.marker_version
  \/ "drop" \in object[p.watcher].mode
  \/ "drop" \in object[p.marker].mode

FlushCalled ==
  {p \in hot : ~Outdated(p) /\ dist2(p.watcher, p.marker) < AOI_RADIS2}

(* Mutant: a pair stays hot after its callback. *)
FlushDroppedButCalled ==
  {p \in hot : Outdated(p) \/ dist2(p.watcher, p.marker) > LEAVE_AOI_RADIS}

FlushDropped ==
  FlushCalled \cup
  {p \in hot : Outdated(p) \/ dist2(p.watcher, p.marker) > LEAVE_AOI_RADIS}

(* set_push and the three gen_pair_list calls: static watchers meet moved  *)
(* markers, moved watchers meet static and moved markers.  Dropped objects *)
(* have no role bit, so flush_pair freeing them changes nothing here.      *)
watcher_move   == {i \in Live : {"watcher", "move"} \subseteq object[i].mode}
watcher_static == {i \in Live : "watcher" \in object[i].mode} \ watcher_move
marker_move    == {i \in Live : {"marker", "move"} \subseteq object[i].mode}
marker_static  == {i \in Live : "marker" \in object[i].mode} \ marker_move

(* Mutant: static markers are not compared with moved watchers. *)
gen_pair_list_two ==
  {wm \in (watcher_static \X marker_move) \cup (watcher_move \X marker_move) :
     wm[1] # wm[2]}

gen_pair_list ==
  {wm \in (watcher_static \X marker_move) \cup (watcher_move \X marker_static)
            \cup (watcher_move \X marker_move) : wm[1] # wm[2]}

GenCalled == {wm \in gen_pair_list : dist2(wm[1], wm[2]) < AOI_RADIS2}

GenHot ==
  {[watcher |-> wm[1], marker |-> wm[2],
    watcher_version |-> object[wm[1]].version,
    marker_version |-> object[wm[2]].version] :
     wm \in {x \in gen_pair_list : /\ dist2(x[1], x[2]) >= AOI_RADIS2
                                   /\ dist2(x[1], x[2]) <= LEAVE_AOI_RADIS}}

(* set_push takes the move bit of every object it put into a set. *)
PushedMode(mode) == IF mode \cap Roles # {} THEN mode \ {"move"} ELSE mode

aoi_message ==
  /\ object' = [i \in Id |->
       IF object[i] = Nil THEN Nil
       ELSE LET left == drop_object(object[i], Endpoints(FlushDropped, i))
            IN  IF left = Nil THEN Nil
                ELSE [left EXCEPT !.ref = @ + Endpoints(GenHot, i),
                                  !.mode = PushedMode(@)]]
  /\ hot' = (hot \ FlushDropped) \cup GenHot
  /\ called' = {<<p.watcher, p.marker>> : p \in FlushCalled} \cup GenCalled
-----------------------------------------------------------------------------
(* aoi_create *)
Init ==
  /\ object = [i \in Id |-> Nil]
  /\ hot = {}
  /\ called = {}

Next ==
  \/ \E id \in Id, roles \in ModeStrings, pos \in Pos : aoi_update(id, roles, pos)
  \/ \E id \in Id : aoi_drop(id)
  \/ aoi_message

Spec == Init /\ [][Next]_vars

-----------------------------------------------------------------------------
(* Every object in the map has a positive reference count, and a dropped   *)
(* object has lost its roles (aoi_update sets mode = MODE_DROP).           *)
TypeOK ==
  /\ object \in [Id -> Object \cup {Nil}]
  /\ hot \subseteq Pair
  /\ called \subseteq Id \X Id

(* Memory safety of grab_object/drop_object: the count of an object is one *)
(* for its presence plus one for every pair end that points to it.  Hence  *)
(* no pair points to freed memory, and a departed object is kept alive     *)
(* exactly as long as a hot pair still points to it.                       *)
RefCounted ==
  \A i \in Id :
    IF object[i] = Nil THEN Endpoints(hot, i) = 0
    ELSE object[i].ref = Endpoints(hot, i)
                         + (IF "drop" \in object[i].mode THEN 0 ELSE 1)

(* gen_pair never adds a second pair for two objects that already have one *)
(* in space->hot: whatever set MODE_MOVE also changed a version, and       *)
(* flush_pair forgot the older pair first.                                 *)
OneHotPair ==
  \A p, q \in hot : p.watcher = q.watcher /\ p.marker = q.marker => p = q

(* flush_pair does not look at the roles again, yet every callback names a *)
(* present watcher and another present marker inside its radius.           *)
CallbackSound ==
  [][\A c \in called' :
       /\ c[1] # c[2]
       /\ {c[1], c[2]} \subseteq Live
       /\ "watcher" \in object[c[1]].mode
       /\ "marker" \in object[c[2]].mode
       /\ dist2(c[1], c[2]) < AOI_RADIS2]_vars
=============================================================================
