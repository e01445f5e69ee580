-------------------------------- MODULE Aoi --------------------------------
(***************************************************************************)
(* The AOI service gameserver/service/aoi.lua: who is on the map (OBJ),    *)
(* and for every pair of objects that have met whether they are in each    *)
(* other's view.  Every command runs to its end inside luaqueue without    *)
(* yielding, so a command is one step; a Lua error ends it half way and    *)
(* keeps the assignments made so far.                                      *)
(*                                                                         *)
(* The engine (Caoi) is abstracted to its environment here: a callback for *)
(* any watcher and marker may arrive at any time, late ones included.  The *)
(* watcher is a player, since monsters register with mode "m" only.        *)
(*                                                                         *)
(* A player's tempid is the user's id, so it outlives a login.  Every      *)
(* login has an agent of its own, and the agents of two logins of one user *)
(* may overlap: enter makes its agent the one that hears of the player,    *)
(* leave takes the player off the map whichever agent calls it.            *)
(***************************************************************************)
EXTENDS Integers

CONSTANTS
  Player,       \* tempids of players (type 1)
  Monster,      \* tempids of monsters (type 2)
  Agent,        \* the agents of a user's logins, each with its client
  Pos,          \* positions <<x, y, z>> in world units
  AOI_RADIS,    \* 800 in the source
  Nil           \* Lua's nil

ASSUME IdAssumption ==
  Player \cap Monster = {} /\ Nil \notin Player \cup Monster \cup Agent
ASSUME PosAssumption == Pos \subseteq Int \X Int \X Int /\ Nil \notin Pos
ASSUME RadiusAssumption == AOI_RADIS \in Nat \ {0}

Id == Player \cup Monster

VARIABLES
  OBJ,          \* tempid -> position of the object, or Nil
  agent,        \* player -> the agent field of his object, or Nil
  playerview,   \* tempid -> (tempid -> flag), or Nil
  monsterview,  \* the same for monsters
  need_update,  \* whether message_update has something to do
  sent,         \* what the last command sent to the agents of players
  out,          \* the text the last command sent to caoi
  shown,        \* player, agent -> players its client was told to show
  stale         \* history: of those, the ones it showed when another agent of
                \* the same user entered or left, and heard nothing of since

vars == <<OBJ, agent, playerview, monsterview, need_update, sent, out, shown, stale>>

(* A flag is true, false or nil in the source. *)
Flag == {"in", "out", "none"}
NoView == [k \in Id |-> "none"]
View == [Id -> Flag]
ASSUME NilAssumption == Nil \notin View
Notice == [to : Player, op : {"add", "del", "update"}, obj : Id]
Text == {<<>>} \cup [cmd : {"update"}, id : Id, pos : Pos]
               \cup [cmd : {"drop"}, id : Id] \cup [cmd : {"message"}]

-----------------------------------------------------------------------------
DIST2(p, q) == (p[1] - q[1]) * (p[1] - q[1]) + (p[2] - q[2]) * (p[2] - q[2])
             + (p[3] - q[3]) * (p[3] - q[3])
AOI_RADIS2 == AOI_RADIS * AOI_RADIS
LEAVE_AOI_RADIS2 == AOI_RADIS2 * 4

Near(p, q) == DIST2(p, q) <= AOI_RADIS2
Far(p, q) == DIST2(p, q) > LEAVE_AOI_RADIS2

Met(view) == {k \in Id : view[k] # "none"}

(* The loops over a view table sort its entries into three lists. *)
enterlist(view, pos) == {k \in Met(view) : Near(pos, OBJ[k]) /\ view[k] = "out"}
movelist(view, pos) == {k \in Met(view) : Near(pos, OBJ[k]) /\ view[k] = "in"}
leavelist(view, pos) == {k \in Met(view) : ~Near(pos, OBJ[k]) /\ view[k] = "in"}

(* Mutant: those who lose the object from view are not told. *)
NotifyNoLeave(id, view, pos) ==
  [to : enterlist(view, pos) \cap Player, op : {"add"}, obj : {id}]
  \cup [to : movelist(view, pos) \cap Player, op : {"update"}, obj : {id}]

(* What the other players hear of an object that entered, left or moved.   *)
Notify(id, view, pos) ==
  [to : enterlist(view, pos) \cap Player, op : {"add"}, obj : {id}]
  \cup [to : leavelist(view, pos) \cap Player, op : {"del"}, obj : {id}]
  \cup [to : movelist(view, pos) \cap Player, op : {"update"}, obj : {id}]

(* updateaoilist, what a moving player hears itself. *)
OwnList(id, view, pos) ==
  [to : {id}, op : {"add"}, obj : enterlist(view, pos)]
  \cup [to : {id}, op : {"del"}, obj : leavelist(view, pos)]

(* A client adds and removes what it is told to.  Notices go to the agent  *)
(* in OBJ.  display and missed are shown and stale as the command left     *)
(* them.                                                                   *)
Told(p, op, notices) == {k \in Player : [to |-> p, op |-> op, obj |-> k] \in notices}

Tell(notices, display, missed) ==
  /\ sent' = notices
  /\ shown' = [p \in Player |-> [a \in Agent |->
       IF a = agent'[p]
       THEN (display[p][a] \cup Told(p, "add", notices)) \ Told(p, "del", notices)
       ELSE display[p][a]]]
  /\ stale' = [p \in Player |-> [a \in Agent |->
       IF a = agent'[p]
       THEN missed[p][a] \ (Told(p, "add", notices) \cup Told(p, "del", notices))
       ELSE missed[p][a]]]

Send(notices) == UNCHANGED agent /\ Tell(notices, shown, stale)

(* Agent a speaks for player p: what the clients of p's other agents show  *)
(* is no longer kept up to date.                                           *)
Overtaken(p, a) ==
  [stale EXCEPT ![p] = [b \in Agent |-> IF b = a THEN @[b] ELSE shown[p][b]]]

-----------------------------------------------------------------------------
(* updateviewplayer.  An entry changes where the loop assigns to it; the   *)
(* mirror entry is assigned in the same branches, and out of the leave     *)
(* radius in any case.                                                     *)
PlayerFlag(flag, pos, other) ==
  IF flag = "none" THEN "none" ELSE IF Near(pos, other) THEN "in" ELSE "out"

(* Mutant: the mirror entry is not set when an object enters the view. *)
MirrorWithoutEnter(flag, mirror, pos, other) ==
  CASE flag = "none" -> mirror
    [] flag = "in" /\ ~Near(pos, other) -> "out"
    [] OTHER -> IF Far(pos, other) THEN "out" ELSE mirror

Mirror(flag, mirror, pos, other) ==
  CASE flag = "none" -> mirror
    [] flag = "out" /\ Near(pos, other) -> "in"
    [] flag = "in" /\ ~Near(pos, other) -> "out"
    [] OTHER -> IF Far(pos, other) THEN "out" ELSE mirror

updateviewplayer(p, a, pos) ==
  LET view == playerview[p]
  IN  /\ playerview' = [k \in Id |->
           IF k = p THEN [i \in Id |-> PlayerFlag(view[i], pos, OBJ[i])]
           ELSE IF k \in Player /\ playerview[k] # Nil
           THEN [playerview[k] EXCEPT ![p] = Mirror(view[k], @, pos, OBJ[k])]
           ELSE playerview[k]]
      /\ monsterview' = [k \in Id |->
           IF k \in Monster /\ monsterview[k] # Nil
           THEN [monsterview[k] EXCEPT ![p] = Mirror(view[k], @, pos, OBJ[k])]
           ELSE monsterview[k]]
      /\ Tell(Notify(p, view, pos) \cup OwnList(p, view, pos), shown, Overtaken(p, a))

(* updateviewmonster over the entries in done, both sides; beyond the      *)
(* leave radius an entry is forgotten.                                     *)
MonsterFlag(flag, pos, other) ==
  IF flag = "none" \/ Far(pos, other) THEN "none"
  ELSE IF Near(pos, other) THEN "in" ELSE "out"

(* Mutant: beyond the leave radius only the monster's side is forgotten. *)
MonsterMirrorKept(flag, mirror, pos, other) ==
  CASE flag = "none" -> mirror
    [] flag = "out" /\ Near(pos, other) -> "in"
    [] flag = "in" /\ ~Near(pos, other) /\ ~Far(pos, other) -> "out"
    [] OTHER -> mirror

MonsterMirror(flag, mirror, pos, other) ==
  CASE flag = "none" -> mirror
    [] flag # "none" /\ Far(pos, other) -> "none"
    [] flag = "out" /\ Near(pos, other) -> "in"
    [] flag = "in" /\ ~Near(pos, other) /\ ~Far(pos, other) -> "out"
    [] OTHER -> mirror

UpdatedMonster(m, pos, done) ==
  [monsterview EXCEPT ![m] =
    [k \in Id |-> IF k \in done THEN MonsterFlag(@[k], pos, OBJ[k]) ELSE @[k]]]

UpdatedPlayers(m, pos, done) ==
  [k \in Id |->
    IF k \in done
    THEN [playerview[k] EXCEPT ![m] = MonsterMirror(monsterview[m][k], @, pos, OBJ[k])]
    ELSE playerview[k]]

(* Entries whose OBJ[k] the loop can read. *)
Readable(view) == {k \in Met(view) : OBJ[k] # Nil /\ playerview[k] # Nil}

(* The rest of enter, once the view was updated. *)
Entered(id, pos) ==
  /\ out' = [cmd |-> "update", id |-> id, pos |-> pos]
  /\ need_update' = TRUE

WithView(views, id) ==
  [views EXCEPT ![id] = IF @ = Nil THEN NoView ELSE @]

enter_player(p, a, pos) ==
  /\ OBJ' = [OBJ EXCEPT ![p] = pos]
  /\ agent' = [agent EXCEPT ![p] = a]
  /\ IF playerview[p] = Nil
     THEN /\ playerview' = WithView(playerview, p)
          /\ Tell({}, shown, Overtaken(p, a))
          /\ UNCHANGED monsterview
     ELSE updateviewplayer(p, a, pos)
  /\ Entered(p, pos)

(* playerview gets an entry for monsters, too. *)
enter_monster(m, pos) ==
  /\ OBJ' = [OBJ EXCEPT ![m] = pos]
  /\ IF monsterview[m] = Nil
     THEN /\ playerview' = WithView(playerview, m)
          /\ Send({})
          /\ UNCHANGED monsterview
     ELSE LET view == monsterview[m]
          IN  /\ Readable(view) = Met(view)
              /\ monsterview' = UpdatedMonster(m, pos, Met(view))
              /\ playerview' = WithView(UpdatedPlayers(m, pos, Met(view)), m)
              /\ Send(Notify(m, view, pos))
  /\ Entered(m, pos)

(* updateviewmonster indexes OBJ[k] without checking it: if k has left the *)
(* map the command fails there.  pairs() visits the entries in any order,  *)
(* so any of the readable ones may have been updated; nothing was sent to  *)
(* anyone and the engine does not hear of the move.                        *)
enter_monster_fails(m, pos) ==
  /\ monsterview[m] # Nil
  /\ Readable(monsterview[m]) # Met(monsterview[m])
  /\ OBJ' = [OBJ EXCEPT ![m] = pos]
  /\ \E done \in SUBSET Readable(monsterview[m]) :
       /\ monsterview' = UpdatedMonster(m, pos, done)
       /\ playerview' = UpdatedPlayers(m, pos, done)
  /\ Send({})
  /\ out' = <<>>
  /\ UNCHANGED need_update

-----------------------------------------------------------------------------
(* The rest of leave: the engine is told, and the next tick flushes it.    *)
(* Mutant: leave does not ask for the next tick.                           *)
LeftWithoutTick(id) ==
  /\ out' = [cmd |-> "drop", id |-> id]
  /\ UNCHANGED need_update

Left(id) ==
  /\ out' = [cmd |-> "drop", id |-> id]
  /\ need_update' = TRUE

(* leave of a player, by agent a, whose client is gone (agent.lua calls it *)
(* after the connection was closed).  The player goes whichever agent he   *)
(* has in OBJ, and nobody tells it: the client of another login keeps what *)
(* it shows.                                                               *)
Gone(p, a, notices) ==
  /\ OBJ' = [OBJ EXCEPT ![p] = Nil]
  /\ agent' = [agent EXCEPT ![p] = Nil]
  /\ Tell(notices, [shown EXCEPT ![p][a] = {}],
          [Overtaken(p, a) EXCEPT ![p][a] = {}])
  /\ Left(p)

(* Mutant: the others keep their entries of the player that left. *)
leave_player_keeps_entries(p, a) ==
  /\ playerview' = [playerview EXCEPT ![p] = Nil]
  /\ UNCHANGED monsterview
  /\ Gone(p, a, {})

(* For an entry k that has a playerview table (every monster has one) that *)
(* table is cleaned; monsterview only otherwise.                           *)
leave_player(p, a) ==
  LET met == IF playerview[p] = Nil THEN {} ELSE Met(playerview[p])
      Has(k) == k \in met /\ playerview[k] # Nil
  IN  /\ playerview' = [k \in Id |->
           IF k = p THEN Nil
           ELSE IF Has(k) THEN [playerview[k] EXCEPT ![p] = "none"] ELSE playerview[k]]
      /\ monsterview' = [k \in Id |->
           IF k \in met /\ ~Has(k) /\ monsterview[k] # Nil
           THEN [monsterview[k] EXCEPT ![p] = "none"] ELSE monsterview[k]]
      /\ Gone(p, a, [to : {k \in Player : Has(k) /\ playerview[k][p] = "in"},
                     op : {"del"}, obj : {p}])

(* leave of a monster: monsterview[k] is never set for a player k. *)
leave_monster(m) ==
  LET met == IF monsterview[m] = Nil THEN {} ELSE Met(monsterview[m])
      Has(k) == k \in met /\ playerview[k] # Nil
  IN  /\ OBJ' = [OBJ EXCEPT ![m] = Nil]
      /\ playerview' = [k \in Id |->
           IF Has(k) THEN [playerview[k] EXCEPT ![m] = "none"] ELSE playerview[k]]
      /\ monsterview' = [monsterview EXCEPT ![m] = Nil]
      /\ Send([to : {k \in Player : Has(k) /\ playerview[k][m] = "in"},
               op : {"del"}, obj : {m}])
      /\ Left(m)

-----------------------------------------------------------------------------
(* aoicallback: both sides get the flag; only the watcher is told.  A      *)
(* callback about an object that has left is ignored.                      *)
SetIn(views, a, b) ==
  [views EXCEPT ![a] = IF @ = Nil THEN [NoView EXCEPT ![b] = "in"]
                       ELSE [@ EXCEPT ![b] = "in"]]

aoicallback(w, m) ==
  /\ IF OBJ[w] = Nil \/ OBJ[m] = Nil
     THEN Send({}) /\ UNCHANGED <<playerview, monsterview>>
     ELSE /\ playerview' = IF m \in Player THEN SetIn(SetIn(playerview, w, m), m, w)
                           ELSE SetIn(playerview, w, m)
          /\ monsterview' = IF m \in Player THEN monsterview ELSE SetIn(monsterview, m, w)
          /\ Send([to : {w}, op : {"add"}, obj : {m}])
  /\ out' = <<>>
  /\ UNCHANGED <<OBJ, need_update>>

(* message_update, every 0.1s. *)
message_update ==
  /\ need_update' = FALSE
  /\ out' = IF need_update THEN [cmd |-> "message"] ELSE <<>>
  /\ Send({})
  /\ UNCHANGED <<OBJ, playerview, monsterview>>

-----------------------------------------------------------------------------
Init ==
  /\ OBJ = [k \in Id |-> Nil]
  /\ agent = [p \in Player |-> Nil]
  /\ playerview = [k \in Id |-> Nil]
  /\ monsterview = [k \in Id |-> Nil]
  /\ need_update = FALSE
  /\ sent = {}
  /\ out = <<>>
  /\ shown = [p \in Player |-> [a \in Agent |-> {}]]
  /\ stale = shown

Command ==
  \/ \E p \in Player, a \in Agent :
       leave_player(p, a) \/ \E pos \in Pos : enter_player(p, a, pos)
  \/ \E m \in Monster :
       \/ leave_monster(m)
       \/ \E pos \in Pos : enter_monster(m, pos) \/ enter_monster_fails(m, pos)

Next ==
  \/ Command
  \/ message_update
  \/ \E w \in Player : \E m \in Id \ {w} : aoicallback(w, m)

Spec == Init /\ [][Next]_vars

-----------------------------------------------------------------------------
(* Tables and messages keep their types. *)
TypeOK ==
  /\ OBJ \in [Id -> Pos \cup {Nil}]
  /\ agent \in [Player -> Agent \cup {Nil}]
  /\ playerview \in [Id -> View \cup {Nil}]
  /\ monsterview \in [Id -> View \cup {Nil}]
  /\ need_update \in BOOLEAN
  /\ sent \subseteq Notice
  /\ out \in Text
  /\ shown \in [Player -> [Agent -> SUBSET Player]]
  /\ stale \in [Player -> [Agent -> SUBSET Player]]

(* assert(OBJ[k]) in updateviewplayer, and the table accesses after it: a  *)
(* player's view only names objects that are on the map and have a view    *)
(* table of their own, so no command of a player ever fails.               *)
WatchedExist ==
  \A p \in Player : playerview[p] # Nil =>
    \A k \in Met(playerview[p]) :
      /\ OBJ[k] # Nil
      /\ IF k \in Player THEN playerview[k] # Nil ELSE monsterview[k] # Nil

(* Two players are in each other's view, out of it, or unknown to each     *)
(* other, alike on both sides, whatever order moves, departures and late   *)
(* callbacks arrive in.                                                    *)
PlayersAgree ==
  \A p, k \in Player :
    playerview[p] # Nil /\ playerview[k] # Nil => playerview[p][k] = playerview[k][p]

(* A player that knows a monster and the monster agree.  The converse does *)
(* not hold: a monster may remember a player that has left the map.        *)
MonstersAgree ==
  \A p \in Player, m \in Monster :
    playerview[p] # Nil /\ playerview[p][m] # "none"
      => monsterview[m] # Nil /\ monsterview[m][p] = playerview[p][m]

(* The shape of the tables the other properties rest on: a player has a    *)
(* view exactly while it is on the map, nothing watches itself, only       *)
(* players watch, and a departed monster is remembered by nobody.          *)
ViewsShaped ==
  /\ \A p \in Player :
       /\ OBJ[p] # Nil <=> playerview[p] # Nil
       /\ monsterview[p] = Nil
       /\ playerview[p] # Nil => playerview[p][p] = "none"
  /\ \A m \in Monster :
       /\ playerview[m] \in {Nil, NoView}
       /\ OBJ[m] = Nil => monsterview[m] = Nil
       /\ OBJ[m] # Nil => playerview[m] # Nil
       /\ monsterview[m] # Nil => \A k \in Monster : monsterview[m][k] = "none"

(* No ghosts: a client shows another player only while its agent is the    *)
(* one in OBJ and the service has the two in view of each other, so a      *)
(* departed or distant player was always taken off the screen.  The one    *)
(* exception is overlapping logins of a user: leave goes by the user's id  *)
(* (agent.lua:144), so when another agent of the user has entered or left  *)
(* since, a client may keep the players it showed then, until it hears of  *)
(* them again.                                                             *)
NoGhostPlayers ==
  \A p, k \in Player, a \in Agent :
    k \in shown[p][a] \ stale[p][a]
      => agent[p] = a /\ playerview[p] # Nil /\ playerview[p][k] = "in"
=============================================================================
