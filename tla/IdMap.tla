------------------------------- MODULE IdMap -------------------------------
(***************************************************************************)
(* The id map of the AOI engine (struct map in service_caoi.c): a table    *)
(* whose colliding entries are chained through free slots of the table     *)
(* itself.  An entry in the main position of another id makes way for that *)
(* id; map_drop leaves the id of a dropped object behind, until the entry  *)
(* has to make way or the table grows.  Module Caoi takes the map for a    *)
(* function of ids; this one shows that it is one.                         *)
(***************************************************************************)
EXTENDS Integers, FiniteSets

CONSTANTS
  Id,          \* ids of objects
  PRE_ALLOC    \* the size of a new table: a power of two, 16 in the source

ASSUME IdMapAssumption ==
  /\ Id \subseteq Nat /\ IsFiniteSet(Id)
  /\ PRE_ALLOC \in Nat \ {0} /\ \E n \in 0..30 : PRE_ALLOC = 2 ^ n

INVALID_ID == -1

VARIABLES
  map,         \* space->object: [size, lastfree, slot]
  made         \* objects allocated and not yet freed, by id

mapvars == <<map, made>>

Table(size) ==
  [size |-> size, lastfree |-> size - 1,
   slot |-> [i \in 0..(size - 1) |-> [id |-> INVALID_ID, obj |-> FALSE, next |-> -1]]]

map_new == Table(PRE_ALLOC)

mainposition(m, id) == id % m.size

-----------------------------------------------------------------------------
(* Where the loop ends that follows the chain from slot s on, up to a slot *)
(* in stop: at[k] is where it is after k rounds.                           *)
Walk(m, s, stop) ==
  LET at[k \in 0..m.size] ==
        IF k = 0 THEN s
        ELSE LET t == at[k - 1] IN IF t \in stop THEN t ELSE m.slot[t].next
  IN  at[m.size]

(* The slot that holds id, or -1. *)
Lookup(m, id) ==
  Walk(m, mainposition(m, id), {-1} \cup {t \in DOMAIN m.slot : m.slot[t].id = id})

(* The slot before s on the chain of its entry: the assert demands that    *)
(* the chain reaches s.                                                    *)
Before(m, s) ==
  Walk(m, mainposition(m, m.slot[s].id), {t \in DOMAIN m.slot : m.slot[t].next = s})

(* The free slot that lastfree comes to, or -1. *)
FreeSlot(m) ==
  LET free == {i \in 0..m.lastfree : m.slot[i].id = INVALID_ID} IN
  IF free = {} THEN -1 ELSE CHOOSE i \in free : \A j \in free : j <= i

Put(m, s, id, obj, next) == [m EXCEPT !.slot[s] = [id |-> id, obj |-> obj, next |-> next]]

(* Mutant: the chain still leads to the slot whose entry makes way. *)
EvictedLinked(m, s, id, obj) == Put(m, s, id, obj, -1)

(* The entry of slot s is taken off its chain and makes way for id. *)
Evicted(m, s, id, obj) ==
  LET last == Before(m, s) IN
  Put([m EXCEPT !.slot[last].next = m.slot[s].next], s, id, obj, -1)

(* A free slot takes the entry, second on the chain of s. *)
Chained(m, s, free, id, obj) ==
  [Put(m, free, id, obj, m.slot[s].next) EXCEPT !.slot[s].next = free, !.lastfree = free - 1]

(* The body of map_insert, with the calls it makes as parameters. *)
Body(m, id, obj, insert(_, _, _), grow(_)) ==
  LET s == mainposition(m, id)
      old == m.slot[s]
      free == FreeSlot(m)
  IN  CASE old.id = INVALID_ID -> Put(m, s, id, obj, old.next)
        [] old.id # INVALID_ID /\ mainposition(m, old.id) # s ->
             IF old.obj THEN insert(Evicted(m, s, id, obj), old.id, old.obj)
                        ELSE Evicted(m, s, id, obj)
        [] OTHER ->
             IF free >= 0 THEN Chained(m, s, free, id, obj) ELSE insert(grow(m), id, obj)

(* map_insert calls itself and rehash, which calls map_insert.  The calls  *)
(* go so deep: an entry that made way does not make another one do so, and *)
(* neither does a table that has grown have to grow again.  A deeper call  *)
(* has no result.                                                          *)
Never(m, id, obj) == CHOOSE t \in {} : TRUE
NeverGrow(m) == CHOOSE t \in {} : TRUE
InsertMoved(m, id, obj) == Body(m, id, obj, Never, NeverGrow)
InsertGrown(m, id, obj) == Body(m, id, obj, InsertMoved, NeverGrow)

(* A table of twice the size takes the objects, slot by slot; ids without  *)
(* an object are forgotten.                                                *)
rehash(m) ==
  LET Into[k \in 0..m.size] ==
        IF k = 0 THEN Table(2 * m.size)
        ELSE LET s == m.slot[k - 1] IN
             IF s.obj THEN InsertGrown(Into[k - 1], s.id, s.obj) ELSE Into[k - 1]
  IN  Into[m.size]

InsertAgain(m, id, obj) == Body(m, id, obj, InsertGrown, rehash)

map_insert(m, id, obj) == Body(m, id, obj, InsertAgain, rehash)

-----------------------------------------------------------------------------
(* map_query: an object that is not there is made, in its old slot if the  *)
(* id is still in the table.                                               *)
map_query(id) ==
  LET s == Lookup(map, id) IN
  IF s >= 0
    THEN /\ map' = [map EXCEPT !.slot[s].obj = TRUE]
         /\ made' = IF map.slot[s].obj THEN made ELSE [made EXCEPT ![id] = @ + 1]
    ELSE /\ map' = map_insert(map, id, TRUE)
         /\ made' = [made EXCEPT ![id] = @ + 1]

(* Mutant: the slot of a dropped object is free again. *)
map_drop_frees(id) ==
  /\ made[id] > 0
  /\ made' = [made EXCEPT ![id] = @ - 1]
  /\ LET s == Lookup(map, id) IN
     map' = IF s >= 0 THEN [map EXCEPT !.slot[s].obj = FALSE, !.slot[s].id = INVALID_ID]
                      ELSE map

(* map_drop, from drop_object with the last reference. *)
map_drop(id) ==
  /\ made[id] > 0
  /\ made' = [made EXCEPT ![id] = @ - 1]
  /\ LET s == Lookup(map, id) IN
     map' = IF s >= 0 THEN [map EXCEPT !.slot[s].obj = FALSE] ELSE map

MapInit == map = map_new /\ made = [id \in Id |-> 0]

MapNext == \E id \in Id : map_query(id) \/ map_drop(id)

MapSpec == MapInit /\ [][MapNext]_mapvars

-----------------------------------------------------------------------------
Occupied(m) == {s \in DOMAIN m.slot : m.slot[s].id # INVALID_ID}

(* The map is a function of ids: an object that was made and not freed is  *)
(* found under its id, and nothing else is; no id has two entries.         *)
LookupExact ==
  /\ \A id \in Id :
       made[id] = IF Lookup(map, id) >= 0 /\ map.slot[Lookup(map, id)].obj THEN 1 ELSE 0
  /\ \A s, t \in Occupied(map) : map.slot[s].id = map.slot[t].id => s = t

(* assert(last->next >= 0) in map_insert: every entry, also that of a      *)
(* dropped object, is on the chain of its main position; a chain leads to  *)
(* entries of its own main position only.                                  *)
ChainsLead ==
  \A s \in Occupied(map) :
    LET id == map.slot[s].id
        next == map.slot[s].next
    IN  /\ Lookup(map, id) = s
        /\ next >= 0 => /\ map.slot[next].id # INVALID_ID
                        /\ mainposition(map, map.slot[next].id) = mainposition(map, id)
=============================================================================
