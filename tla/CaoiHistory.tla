---------------------------- MODULE CaoiHistory ----------------------------
(***************************************************************************)
(* Caoi with two history variables, for what the engine promises over      *)
(* several calls: which pairs it has called back since they last moved.    *)
(***************************************************************************)
EXTENDS Caoi

VARIABLES
  told,         \* pairs called back since either object last moved
  drifted       \* ids whose position changed without a version change

hvars == <<object, hot, called, told, drifted>>

Without(id) == {t \in told : t[1] # id /\ t[2] # id}

HInit == Init /\ told = {} /\ drifted = {}

HUpdate(id, roles, pos) ==
  /\ aoi_update(id, roles, pos)
  /\ told' = IF IsMove(id, roles, pos) THEN Without(id) ELSE told
  /\ drifted' = IF IsMove(id, roles, pos) THEN drifted \ {id} ELSE drifted \cup {id}

HDrop(id) == aoi_drop(id) /\ told' = Without(id) /\ drifted' = drifted \ {id}

HMessage == aoi_message /\ told' = told \cup called' /\ UNCHANGED drifted

HNext ==
  \/ \E id \in Id, roles \in ModeStrings, pos \in Pos : HUpdate(id, roles, pos)
  \/ \E id \in Id : HDrop(id)
  \/ HMessage

HSpec == HInit /\ [][HNext]_hvars

(* A pair is called back at most once per move: neither flush_pair nor     *)
(* gen_pair repeats a callback while both objects keep their version, and  *)
(* one aoi_message does not call the same pair from both places.           *)
CallbackOnce ==
  [][/\ called' \cap told = {}
     /\ HMessage => {<<p.watcher, p.marker>> : p \in FlushCalled} \cap GenCalled = {}
    ]_hvars

(* No arrival is missed: once aoi_message has consumed the moves, every    *)
(* watcher has been told of every marker inside its radius, unless one of  *)
(* the two drifted (moved by less than half a radius since its last        *)
(* version), which aoi_update deliberately does not treat as a move.       *)
NoMissedArrival ==
  \A w, m \in Live :
    (/\ w # m
     /\ "watcher" \in object[w].mode /\ "marker" \in object[m].mode
     /\ "move" \notin object[w].mode \cup object[m].mode
     /\ {w, m} \cap drifted = {}
     /\ dist2(w, m) < AOI_RADIS2)
    => <<w, m>> \in told
=============================================================================
