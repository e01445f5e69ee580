---------------------------- MODULE SceneProofs ----------------------------
(***************************************************************************)
(* aoi.lua alone, then aoi.lua and caoi together, for any players,         *)
(* monsters, positions and radius.  The view tables stay consistent for    *)
(* callbacks that arrive in any order and arbitrarily late; together the   *)
(* service only does what Aoi allows, the engine only what Caoi allows,    *)
(* and the two agree on the players once all texts are read.               *)
(***************************************************************************)
EXTENDS Scene, FiniteSetTheorems, SequenceTheorems, TLAPS

-----------------------------------------------------------------------------
(* The view tables of aoi.lua, under the specification of Aoi.             *)


(* The inductive invariant: none of its parts is inductive alone.  A       *)
(* departing player cleans the tables its own view names, so WatchedExist  *)
(* needs PlayersAgree, which needs the mirror entries of ViewsShaped.      *)
Inv ==
  /\ TypeOK
  /\ ViewsShaped
  /\ WatchedExist
  /\ PlayersAgree
  /\ MonstersAgree
  /\ NoGhostPlayers

-----------------------------------------------------------------------------
(* The in-range test and the out-of-reach test of the update loops exclude *)
(* each other, since LEAVE_AOI_RADIS2 is at least AOI_RADIS2.              *)
LEMMA NearNotFar ==
  ASSUME NEW p \in Pos, NEW r \in Pos, Near(p, r)
  PROVE  ~Far(p, r)
<1>1. DIST2(p, r) \in Int
  <2>1. p[1] \in Int /\ p[2] \in Int /\ p[3] \in Int
    BY PosAssumption
  <2>2. r[1] \in Int /\ r[2] \in Int /\ r[3] \in Int
    BY PosAssumption
  <2>3. \A x, y \in Int : (x - y) * (x - y) \in Int
    OBVIOUS
  <2> QED BY <2>1, <2>2, <2>3 DEF DIST2
<1>2. AOI_RADIS2 \in Nat
  <2>1. \A x \in Nat : x * x \in Nat
    OBVIOUS
  <2> QED BY <2>1, RadiusAssumption DEF AOI_RADIS2
<1> QED BY <1>1, <1>2 DEF Near, Far, LEAVE_AOI_RADIS2

(* Flags computed by the loops are flags. *)
LEMMA FlagTypes ==
  ASSUME NEW f \in Flag, NEW g \in Flag, NEW p, NEW r
  PROVE  /\ PlayerFlag(f, p, r) \in Flag
         /\ Mirror(f, g, p, r) \in Flag
         /\ MonsterFlag(f, p, r) \in Flag
         /\ MonsterMirror(f, g, p, r) \in Flag
BY DEF Flag, PlayerFlag, Mirror, MonsterFlag, MonsterMirror

(* Entries that agree before a move agree after it. *)
LEMMA MirrorAgrees ==
  ASSUME NEW f \in Flag, NEW p \in Pos, NEW r \in Pos
  PROVE  /\ Mirror(f, f, p, r) = PlayerFlag(f, p, r)
         /\ MonsterMirror(f, f, p, r) = MonsterFlag(f, p, r)
<1>1. Near(p, r) => ~Far(p, r)
  BY NearNotFar
<1>2. Mirror(f, f, p, r) = PlayerFlag(f, p, r)
  BY <1>1 DEF Flag, PlayerFlag, Mirror
<1>3. MonsterMirror(f, f, p, r) = MonsterFlag(f, p, r)
  BY <1>1 DEF Flag, MonsterFlag, MonsterMirror
<1> QED BY <1>2, <1>3

(* Notices only add and remove players at their receivers. *)
Displays == [Player -> [Agent -> SUBSET Player]]

LEMMA TellType ==
  ASSUME NEW N \in SUBSET Notice, NEW D \in Displays, NEW M \in Displays, Tell(N, D, M)
  PROVE  sent' \subseteq Notice /\ shown' \in Displays /\ stale' \in Displays
<1>1. \A q \in Player, a \in Agent : D[q][a] \subseteq Player /\ M[q][a] \subseteq Player
  BY DEF Displays
<1>2. \A q, op : Told(q, op, N) \subseteq Player
  BY DEF Told
<1>3. shown' \in Displays
  BY <1>1, <1>2 DEF Tell, Displays
<1>4. stale' \in Displays
  BY <1>1, <1>2 DEF Tell, Displays
<1> QED BY <1>3, <1>4 DEF Tell

(* What a client shows after a step, and is kept up to date, it showed     *)
(* before or its agent was told to add, and not to remove.                 *)
LEMMA TellShown ==
  ASSUME NEW N, NEW D, NEW M, Tell(N, D, M), NEW r \in Player, NEW a \in Agent,
         NEW k \in Player, k \in shown'[r][a] \ stale'[r][a]
  PROVE  \/ /\ a = agent'[r]
            /\ [to |-> r, op |-> "add", obj |-> k] \in N
            /\ [to |-> r, op |-> "del", obj |-> k] \notin N
         \/ /\ k \in D[r][a] \ M[r][a]
            /\ a = agent'[r] => [to |-> r, op |-> "del", obj |-> k] \notin N
<1>1. CASE a # agent'[r]
  <2>1. shown'[r][a] = D[r][a] /\ stale'[r][a] = M[r][a]
    BY <1>1 DEF Tell
  <2> QED BY <1>1, <2>1
<1>2. CASE a = agent'[r]
  <2>1. /\ shown'[r][a] = (D[r][a] \cup Told(r, "add", N)) \ Told(r, "del", N)
        /\ stale'[r][a] = M[r][a] \ (Told(r, "add", N) \cup Told(r, "del", N))
    BY <1>2 DEF Tell
  <2>2. k \notin Told(r, "del", N) /\ (k \in Told(r, "add", N) \/ k \in D[r][a] \ M[r][a])
    BY <2>1
  <2> QED BY <1>2, <2>2 DEF Told
<1> QED BY <1>1, <1>2

LEMMA TellNothing ==
  ASSUME NEW D \in Displays, NEW M \in Displays, Tell({}, D, M)
  PROVE  sent' = {} /\ shown' = D /\ stale' = M
<1>1. \A q \in Player, op \in {"add", "del"} : Told(q, op, {}) = {}
  BY DEF Told
<1>2. /\ shown' = [q \in Player |-> [a \in Agent |-> D[q][a]]]
      /\ stale' = [q \in Player |-> [a \in Agent |-> M[q][a]]]
  <2>1. ASSUME NEW q \in Player, NEW a \in Agent
        PROVE  /\ (D[q][a] \cup Told(q, "add", {})) \ Told(q, "del", {}) = D[q][a]
               /\ M[q][a] \ (Told(q, "add", {}) \cup Told(q, "del", {})) = M[q][a]
    BY <1>1
  <2> QED BY <2>1 DEF Tell
<1>3. /\ D = [q \in Player |-> [a \in Agent |-> D[q][a]]]
      /\ M = [q \in Player |-> [a \in Agent |-> M[q][a]]]
  BY DEF Displays
<1> QED BY <1>2, <1>3 DEF Tell

LEMMA SendNothing ==
  ASSUME TypeOK, Send({})
  PROVE  sent' = {} /\ UNCHANGED <<agent, shown, stale>>
BY TellNothing DEF Send, TypeOK, Displays

(* Another agent speaks for a player: nothing the others' clients show is  *)
(* kept up to date.                                                        *)
LEMMA OvertakenType ==
  ASSUME TypeOK, NEW p \in Player, NEW a \in Agent
  PROVE  /\ Overtaken(p, a) \in Displays
         /\ \A r \in Player, b \in Agent :
              Overtaken(p, a)[r][b] = IF r = p /\ b # a THEN shown[r][b] ELSE stale[r][b]
BY DEF TypeOK, Overtaken, Displays

LEMMA InitInv == Init => Inv
<1> SUFFICES ASSUME Init PROVE Inv
  OBVIOUS
<1>1. TypeOK
  BY DEF Init, TypeOK, Text
<1>2. ViewsShaped /\ WatchedExist /\ PlayersAgree /\ MonstersAgree
  BY IdAssumption DEF Init, ViewsShaped, WatchedExist, PlayersAgree, MonstersAgree, Id
<1>3. NoGhostPlayers
  BY DEF Init, NoGhostPlayers
<1> QED BY <1>1, <1>2, <1>3 DEF Inv

(* message_update only touches need_update and what was sent. *)
LEMMA TickInv == Inv /\ message_update => Inv'
<1> SUFFICES ASSUME Inv, message_update PROVE Inv'
  OBVIOUS
<1> USE DEF Inv
<1>1. UNCHANGED <<OBJ, agent, playerview, monsterview, shown, stale>> /\ sent' = {}
  BY SendNothing DEF message_update
<1>2. TypeOK'
  BY <1>1 DEF TypeOK, message_update, Text
<1> QED
  BY <1>1, <1>2 DEF ViewsShaped, WatchedExist, PlayersAgree, MonstersAgree, NoGhostPlayers

(* A player leaves the map. *)
LEMMA LeavePlayerInv ==
  ASSUME Inv, NEW p \in Player, NEW a \in Agent, leave_player(p, a)
  PROVE  Inv'
<1> USE DEF Inv
<1> DEFINE N == [to : {k \in Player : /\ playerview[p] # Nil /\ k \in Met(playerview[p])
                                     /\ playerview[k] # Nil /\ playerview[k][p] = "in"},
                 op : {"del"}, obj : {p}]
           D == [shown EXCEPT ![p][a] = {}]
           M == [Overtaken(p, a) EXCEPT ![p][a] = {}]
<1>20. Tell(N, D, M) /\ Left(p)
  BY DEF leave_player, Gone
<1>21. D \in Displays /\ M \in Displays
  BY OvertakenType DEF TypeOK, Displays
<1>22. /\ D[p][a] = {}
       /\ \A b \in Agent \ {a} : D[p][b] = shown[p][b] /\ M[p][b] = shown[p][b]
       /\ \A r \in Player \ {p}, b \in Agent : D[r][b] = shown[r][b] /\ M[r][b] = stale[r][b]
  <2>1. Overtaken(p, a) \in [Player -> [Agent -> SUBSET Player]]
    BY OvertakenType DEF Displays
  <2> QED BY <2>1, OvertakenType DEF TypeOK
<1>23. N \subseteq Notice
  BY DEF Notice, Id
<1>24. sent' \subseteq Notice /\ shown' \in Displays /\ stale' \in Displays
  <2> HIDE DEF N, D, M
  <2> QED BY <1>20, <1>21, <1>23, TellType
<1> HIDE DEF N, D, M
<1>2. /\ playerview'[p] = Nil /\ OBJ' = [OBJ EXCEPT ![p] = Nil]
      /\ agent' = [agent EXCEPT ![p] = Nil]
  BY DEF leave_player, Gone, Id
<1>1. TypeOK'
  <2>1. playerview' \in [Id -> View \cup {Nil}] /\ monsterview' \in [Id -> View \cup {Nil}]
    BY NilAssumption, IdAssumption DEF leave_player, TypeOK, View, Flag, Met, Id
  <2>2. need_update' \in BOOLEAN /\ out' \in Text
    BY <1>20 DEF Left, Text, Id
  <2> QED BY <1>2, <1>24, <2>1, <2>2 DEF TypeOK, Displays
<1>3. ASSUME NEW k \in Player, k # p, playerview[k] # Nil
      PROVE  /\ playerview'[k] # Nil
             /\ playerview'[k][p] = "none"
             /\ \A i \in Id \ {p} : playerview'[k][i] = playerview[k][i]
  <2>1. playerview[k] \in View /\ k \in Id /\ p \in Id
    BY <1>3 DEF TypeOK, Id
  <2>2. CASE playerview[p] # Nil /\ k \in Met(playerview[p])
    <3>1. playerview'[k] = [playerview[k] EXCEPT ![p] = "none"]
      BY <1>3, <2>1, <2>2 DEF leave_player
    <3> QED BY <3>1, <2>1, NilAssumption DEF View, Flag
  <2>3. CASE ~(playerview[p] # Nil /\ k \in Met(playerview[p]))
    <3>1. playerview'[k] = playerview[k]
      BY <1>3, <2>1, <2>3 DEF leave_player
    <3>2. playerview[k][p] = "none"
      BY <1>3, <2>1, <2>3 DEF WatchedExist, PlayersAgree, Met
    <3> QED BY <3>1, <3>2, <1>3
  <2> QED BY <2>2, <2>3
<1>4. ASSUME NEW k \in Player, k # p, playerview[k] = Nil
      PROVE  playerview'[k] = Nil
  BY <1>4 DEF leave_player, Id
<1>5. ASSUME NEW m \in Monster
      PROVE  playerview'[m] = playerview[m]
  <2>1. m \in Id /\ p \in Id /\ m # p
    BY IdAssumption DEF Id
  <2>2. [NoView EXCEPT ![p] = "none"] = NoView
    BY DEF NoView
  <2> QED BY <2>1, <2>2 DEF leave_player, ViewsShaped
<1>6. ASSUME NEW m \in Monster
      PROVE  /\ monsterview'[m] = Nil <=> monsterview[m] = Nil
             /\ monsterview[m] # Nil =>
                  \A k \in Id \ {p} : monsterview'[m][k] = monsterview[m][k]
  <2>1. m \in Id /\ p \in Id /\ monsterview[m] \in View \cup {Nil}
    BY DEF TypeOK, Id
  <2>2. \/ monsterview'[m] = monsterview[m]
        \/ monsterview[m] # Nil /\ monsterview'[m] = [monsterview[m] EXCEPT ![p] = "none"]
    BY <2>1 DEF leave_player
  <2> QED BY <2>1, <2>2, NilAssumption DEF View, Flag
<1>7. \A k \in Player : monsterview'[k] = Nil
  BY DEF leave_player, ViewsShaped, Id
<1>25. \A k \in Id : OBJ'[k] = IF k = p THEN Nil ELSE OBJ[k]
  BY <1>2 DEF TypeOK
<1>8. ViewsShaped'
  BY <1>2, <1>3, <1>4, <1>5, <1>6, <1>7, <1>25, IdAssumption DEF ViewsShaped, Id
<1>9. WatchedExist'
  BY <1>2, <1>3, <1>4, <1>6, <1>25, IdAssumption DEF WatchedExist, Id, Met
<1>10. PlayersAgree'
  BY <1>2, <1>3, <1>4 DEF PlayersAgree, Id
<1>11. MonstersAgree'
  BY <1>2, <1>3, <1>4, <1>6, IdAssumption DEF MonstersAgree, Id
<1>12. NoGhostPlayers'
  <2> SUFFICES ASSUME NEW r \in Player, NEW k \in Player, NEW b \in Agent,
                      k \in shown'[r][b] \ stale'[r][b]
               PROVE  agent'[r] = b /\ playerview'[r] # Nil /\ playerview'[r][k] = "in"
    BY DEF NoGhostPlayers
  <2>1. [to |-> r, op |-> "add", obj |-> k] \notin N
    BY DEF N
  <2>2. /\ k \in D[r][b] \ M[r][b]
        /\ b = agent'[r] => [to |-> r, op |-> "del", obj |-> k] \notin N
    BY <1>20, <2>1, TellShown
  <2>3. r # p /\ k \in shown[r][b] \ stale[r][b]
    BY <1>22, <2>2
  <2>4. agent[r] = b /\ playerview[r] # Nil /\ playerview[r][k] = "in"
    BY <2>3 DEF NoGhostPlayers
  <2>5. agent'[r] = b
    BY <1>2, <2>3, <2>4 DEF TypeOK
  <2>6. k # p
    <3> SUFFICES ASSUME k = p PROVE FALSE
      OBVIOUS
    <3>1. p \in Id /\ r \in Id /\ playerview[p] # Nil /\ playerview[p][r] = "in"
      BY <2>3, <2>4 DEF WatchedExist, PlayersAgree, Met, Id
    <3>2. [to |-> r, op |-> "del", obj |-> p] \in N
      BY <2>4, <3>1 DEF N, Met
    <3> QED BY <2>2, <2>5, <3>2
  <2> QED BY <2>3, <2>4, <2>5, <2>6, <1>3 DEF Id
<1> QED BY <1>1, <1>8, <1>9, <1>10, <1>11, <1>12

(* A monster leaves the map: MonstersAgree makes sure that every player    *)
(* that knows it is found through monsterview.                             *)
LEMMA LeaveMonsterInv ==
  ASSUME Inv, NEW m \in Monster, leave_monster(m)
  PROVE  Inv'
<1> USE DEF Inv
<1> DEFINE N == [to : {k \in Player : /\ monsterview[m] # Nil /\ k \in Met(monsterview[m])
                                     /\ playerview[k] # Nil /\ playerview[k][m] = "in"},
                 op : {"del"}, obj : {m}]
<1>20. Send(N) /\ Left(m)
  BY DEF leave_monster
<1>21. N \subseteq Notice
  BY DEF Notice, Id
<1>22. \A r, k \in Player : [to |-> r, op |-> "add", obj |-> k] \notin N
  OBVIOUS
<1> HIDE DEF N
<1>23. sent' \subseteq Notice /\ shown' \in Displays /\ stale' \in Displays /\ agent' = agent
  BY <1>20, <1>21, TellType DEF Send, TypeOK, Displays
<1>1. TypeOK'
  <2>1. playerview' \in [Id -> View \cup {Nil}] /\ monsterview' \in [Id -> View \cup {Nil}]
    BY NilAssumption, IdAssumption DEF leave_monster, TypeOK, View, Flag, Met, Id
  <2>2. need_update' \in BOOLEAN /\ out' \in Text
    BY <1>20 DEF Left, Text, Id
  <2>3. OBJ' \in [Id -> Pos \cup {Nil}]
    BY DEF leave_monster, TypeOK
  <2> QED BY <1>23, <2>1, <2>2, <2>3 DEF TypeOK, Displays
<1>2. OBJ' = [OBJ EXCEPT ![m] = Nil] /\ monsterview' = [monsterview EXCEPT ![m] = Nil]
  BY DEF leave_monster
<1>3. ASSUME NEW k \in Player, playerview[k] # Nil
      PROVE  /\ playerview'[k] # Nil
             /\ playerview'[k][m] = "none"
             /\ \A i \in Id \ {m} : playerview'[k][i] = playerview[k][i]
  <2>1. playerview[k] \in View /\ k \in Id /\ m \in Id
    BY <1>3 DEF TypeOK, Id
  <2>2. CASE monsterview[m] # Nil /\ k \in Met(monsterview[m])
    <3>1. playerview'[k] = [playerview[k] EXCEPT ![m] = "none"]
      BY <1>3, <2>1, <2>2 DEF leave_monster
    <3> QED BY <3>1, <2>1, NilAssumption DEF View, Flag
  <2>3. CASE ~(monsterview[m] # Nil /\ k \in Met(monsterview[m]))
    <3>1. playerview'[k] = playerview[k]
      BY <1>3, <2>1, <2>3 DEF leave_monster
    <3>2. playerview[k][m] = "none"
      BY <1>3, <2>1, <2>3 DEF MonstersAgree, Met
    <3> QED BY <3>1, <3>2, <1>3
  <2> QED BY <2>2, <2>3
<1>4. ASSUME NEW k \in Player, playerview[k] = Nil
      PROVE  playerview'[k] = Nil
  BY <1>4 DEF leave_monster, Id
<1>5. ASSUME NEW k \in Monster
      PROVE  playerview'[k] = playerview[k]
  BY DEF leave_monster, ViewsShaped, Met, Id
<1>25. \A k \in Id : /\ OBJ'[k] = IF k = m THEN Nil ELSE OBJ[k]
                     /\ monsterview'[k] = IF k = m THEN Nil ELSE monsterview[k]
  BY <1>2 DEF TypeOK
<1>6. ViewsShaped'
  BY <1>2, <1>3, <1>4, <1>5, <1>25, IdAssumption DEF ViewsShaped, Id
<1>7. WatchedExist'
  BY <1>2, <1>3, <1>4, <1>25, IdAssumption DEF WatchedExist, Id, Met
<1>8. PlayersAgree'
  BY <1>3, <1>4, IdAssumption DEF PlayersAgree, Id
<1>9. MonstersAgree'
  BY <1>2, <1>3, <1>4, IdAssumption DEF MonstersAgree, TypeOK, Id
<1>10. NoGhostPlayers'
  <2> SUFFICES ASSUME NEW r \in Player, NEW k \in Player, NEW b \in Agent,
                      k \in shown'[r][b] \ stale'[r][b]
               PROVE  agent'[r] = b /\ playerview'[r] # Nil /\ playerview'[r][k] = "in"
    BY DEF NoGhostPlayers
  <2>1. k \in shown[r][b] \ stale[r][b]
    BY <1>20, <1>22, TellShown DEF Send
  <2>2. k # m
    BY IdAssumption
  <2> QED BY <1>3, <1>23, <2>1, <2>2 DEF NoGhostPlayers, Id
<1> QED BY <1>1, <1>6, <1>7, <1>8, <1>9, <1>10

(* A callback, however late. *)
LEMMA CallbackInv ==
  ASSUME Inv, NEW w \in Player, NEW m \in Id \ {w}, aoicallback(w, m)
  PROVE  Inv'
<1> USE DEF Inv
<1>1. CASE OBJ[w] = Nil \/ OBJ[m] = Nil
  <2>1. /\ UNCHANGED <<OBJ, agent, playerview, monsterview, shown, stale, need_update>>
        /\ sent' = {} /\ out' = <<>>
    BY <1>1, SendNothing DEF aoicallback
  <2>2. TypeOK'
    BY <2>1 DEF TypeOK, Text
  <2> QED
    BY <2>1, <2>2 DEF ViewsShaped, WatchedExist, PlayersAgree, MonstersAgree, NoGhostPlayers
<1>2. CASE OBJ[w] # Nil /\ OBJ[m] # Nil
  <2>1. w \in Id /\ m \in Id /\ w # m /\ playerview[w] \in View /\ playerview[w] # Nil
    BY <1>2 DEF ViewsShaped, TypeOK, Id
  <2>2. NoView \in View /\ NoView # Nil
    BY NilAssumption DEF NoView, View, Flag
  <2>3. OBJ' = OBJ /\ need_update' = need_update /\ out' = <<>>
    BY DEF aoicallback
  <2>4. Send([to : {w}, op : {"add"}, obj : {m}])
    BY <1>2 DEF aoicallback
  <2>5. sent' \subseteq Notice /\ shown' \in Displays /\ stale' \in Displays /\ agent' = agent
    <3>1. [to : {w}, op : {"add"}, obj : {m}] \subseteq Notice
      BY <2>1 DEF Notice
    <3> QED BY <2>4, <3>1, TellType DEF Send, TypeOK, Displays
  <2>6. ASSUME NEW r \in Player, NEW k \in Player, NEW b \in Agent,
               k \in shown'[r][b] \ stale'[r][b]
        PROVE  k \in shown[r][b] \ stale[r][b] \/ (r = w /\ k = m /\ agent'[r] = b)
    <3> DEFINE N == [to : {w}, op : {"add"}, obj : {m}]
    <3>1. [to |-> r, op |-> "add", obj |-> k] \in N => r = w /\ k = m
      OBVIOUS
    <3>2. Tell(N, shown, stale)
      BY <2>4 DEF Send
    <3> HIDE DEF N
    <3>3. \/ /\ b = agent'[r]
             /\ [to |-> r, op |-> "add", obj |-> k] \in N
             /\ [to |-> r, op |-> "del", obj |-> k] \notin N
          \/ /\ k \in shown[r][b] \ stale[r][b]
             /\ b = agent'[r] => [to |-> r, op |-> "del", obj |-> k] \notin N
      BY <2>6, <3>2, TellShown
    <3> QED BY <3>1, <3>3
  <2>7. CASE m \in Player
    <3>1. playerview[m] \in View /\ playerview[m] # Nil
      BY <1>2, <2>7, <2>1 DEF ViewsShaped, TypeOK
    <3>2. /\ monsterview' = monsterview
          /\ playerview' = [playerview EXCEPT ![w] = [playerview[w] EXCEPT ![m] = "in"],
                                              ![m] = [playerview[m] EXCEPT ![w] = "in"]]
      BY <1>2, <2>1, <2>7, <3>1 DEF aoicallback, SetIn, TypeOK
    <3>3. /\ playerview'[w] \in View /\ playerview'[w] # Nil
          /\ playerview'[m] \in View /\ playerview'[m] # Nil
          /\ playerview'[w][m] = "in" /\ playerview'[m][w] = "in"
          /\ \A i \in Id \ {m} : playerview'[w][i] = playerview[w][i]
          /\ \A i \in Id \ {w} : playerview'[m][i] = playerview[m][i]
          /\ \A k \in Id \ {w, m} : playerview'[k] = playerview[k]
          /\ monsterview' = monsterview
      BY <2>1, <3>1, <3>2, NilAssumption DEF TypeOK, View, Flag
    <3>4. TypeOK'
      BY <2>1, <2>3, <2>5, <3>2, <3>3 DEF TypeOK, Text, Displays
    <3>5. ViewsShaped'
      BY <2>1, <2>3, <2>7, <3>1, <3>3, IdAssumption DEF ViewsShaped, Id
    <3>6. WatchedExist'
      BY <1>2, <2>1, <2>3, <2>7, <3>1, <3>3 DEF WatchedExist, Met, Id
    <3>7. PlayersAgree'
      BY <2>1, <2>7, <3>1, <3>3 DEF PlayersAgree, Id
    <3>8. MonstersAgree'
      BY <2>1, <2>7, <3>1, <3>3, IdAssumption DEF MonstersAgree, Id
    <3>9. NoGhostPlayers'
      BY <2>1, <2>5, <2>6, <2>7, <3>3 DEF NoGhostPlayers, Id
    <3> QED BY <3>4, <3>5, <3>6, <3>7, <3>8, <3>9
  <2>8. CASE m \in Monster
    <3>1. m \notin Player /\ w \notin Monster /\ monsterview[m] \in View \cup {Nil}
      BY <2>1, <2>8, IdAssumption DEF TypeOK
    <3>2. /\ playerview' = [playerview EXCEPT ![w] = [playerview[w] EXCEPT ![m] = "in"]]
          /\ monsterview' = [monsterview EXCEPT ![m] =
               IF monsterview[m] = Nil THEN [NoView EXCEPT ![w] = "in"]
               ELSE [monsterview[m] EXCEPT ![w] = "in"]]
      BY <1>2, <2>1, <3>1 DEF aoicallback, SetIn
    <3>3. /\ playerview'[w] \in View /\ playerview'[w] # Nil /\ playerview'[w][m] = "in"
          /\ \A i \in Id \ {m} : playerview'[w][i] = playerview[w][i]
          /\ \A k \in Id \ {w} : playerview'[k] = playerview[k]
      BY <2>1, <3>2, NilAssumption DEF TypeOK, View, Flag
    <3>4. /\ monsterview'[m] \in View /\ monsterview'[m] # Nil /\ monsterview'[m][w] = "in"
          /\ \A i \in Id \ {w} : monsterview'[m][i] =
               (IF monsterview[m] = Nil THEN "none" ELSE monsterview[m][i])
          /\ \A k \in Id \ {m} : monsterview'[k] = monsterview[k]
      <4>1. DOMAIN monsterview = Id
        BY DEF TypeOK
      <4>2. CASE monsterview[m] = Nil
        BY <2>1, <2>2, <3>2, <4>1, <4>2, NilAssumption DEF View, Flag, NoView
      <4>3. CASE monsterview[m] # Nil
        BY <2>1, <3>1, <3>2, <4>1, <4>3, NilAssumption DEF View, Flag
      <4> QED BY <4>2, <4>3
    <3>5. TypeOK'
      BY <2>1, <2>3, <2>5, <3>2, <3>3, <3>4 DEF TypeOK, Text, Displays
    <3>6. ViewsShaped'
      BY <1>2, <2>1, <2>3, <3>1, <3>3, <3>4, IdAssumption DEF ViewsShaped, Id
    <3>7. WatchedExist'
      BY <1>2, <2>1, <2>3, <2>8, <3>1, <3>3, <3>4 DEF WatchedExist, Met, Id
    <3>8. PlayersAgree'
      BY <2>1, <3>1, <3>3 DEF PlayersAgree, Id
    <3>9. MonstersAgree'
      BY <2>1, <2>8, <3>1, <3>3, <3>4, IdAssumption DEF MonstersAgree, Id
    <3>10. NoGhostPlayers'
      BY <2>1, <2>5, <2>6, <3>1, <3>3 DEF NoGhostPlayers, Id
    <3> QED BY <3>5, <3>6, <3>7, <3>8, <3>9, <3>10
  <2> QED BY <2>7, <2>8, <2>1 DEF Id
<1> QED BY <1>1, <1>2

(* A player enters the map or moves on it. *)
LEMMA EnterPlayerInv ==
  ASSUME Inv, NEW p \in Player, NEW a \in Agent, NEW pos \in Pos, enter_player(p, a, pos)
  PROVE  Inv'
<1> USE DEF Inv
<1>1. p \in Id /\ p \notin Monster /\ pos # Nil
  BY IdAssumption, PosAssumption DEF Id
<1>2. OBJ' = [OBJ EXCEPT ![p] = pos] /\ need_update' = TRUE /\ out' \in Text
  BY <1>1 DEF enter_player, Entered, Text
<1>5. /\ agent' = [agent EXCEPT ![p] = a] /\ agent'[p] = a
      /\ \A r \in Player \ {p} : agent'[r] = agent[r]
      /\ agent' \in [Player -> Agent \cup {Nil}]
  BY DEF enter_player, TypeOK
<1>6. shown \in Displays /\ Overtaken(p, a) \in Displays
  BY OvertakenType DEF TypeOK, Displays
<1>7. ASSUME NEW r \in Player, NEW k \in Player, NEW b \in Agent,
             k \in shown[r][b] \ Overtaken(p, a)[r][b]
      PROVE  /\ agent[r] = b /\ agent'[r] = b
             /\ playerview[r] # Nil /\ playerview[r][k] = "in"
  <2>1. (r = p => b = a) /\ k \in shown[r][b] \ stale[r][b]
    BY <1>7, OvertakenType
  <2> QED BY <1>5, <2>1 DEF NoGhostPlayers
<1>3. CASE playerview[p] = Nil
  <2>1. /\ playerview' = [playerview EXCEPT ![p] = NoView]
        /\ monsterview' = monsterview
        /\ sent' = {} /\ shown' = shown /\ stale' = Overtaken(p, a)
    <3>1. Tell({}, shown, Overtaken(p, a))
      BY <1>3 DEF enter_player
    <3>2. sent' = {} /\ shown' = shown /\ stale' = Overtaken(p, a)
      BY <1>6, <3>1, TellNothing
    <3> QED BY <1>1, <1>3, <3>2 DEF enter_player, WithView, TypeOK
  <2>2. NoView \in View /\ NoView # Nil /\ \A i \in Id : NoView[i] = "none"
    BY NilAssumption DEF NoView, View, Flag
  <2>3. /\ playerview'[p] = NoView /\ OBJ'[p] # Nil
        /\ \A k \in Id \ {p} : playerview'[k] = playerview[k] /\ OBJ'[k] = OBJ[k]
    BY <1>1, <1>2, <2>1 DEF TypeOK
  <2>4. TypeOK'
    BY <1>1, <1>2, <1>5, <1>6, <2>1, <2>2 DEF TypeOK, Displays
  <2>5. ViewsShaped'
    BY <1>1, <2>1, <2>2, <2>3, IdAssumption DEF ViewsShaped, Id
  <2>6. WatchedExist'
    BY <1>1, <2>1, <2>2, <2>3 DEF WatchedExist, Met, Id
  <2>7. PlayersAgree'
    BY <1>1, <1>3, <2>1, <2>2, <2>3 DEF PlayersAgree, WatchedExist, Met, Id, TypeOK
  <2>8. MonstersAgree'
    BY <1>1, <2>1, <2>2, <2>3 DEF MonstersAgree, Id
  <2>9. NoGhostPlayers'
    BY <1>1, <1>3, <1>7, <2>1, <2>3 DEF NoGhostPlayers, Id
  <2> QED BY <2>4, <2>5, <2>6, <2>7, <2>8, <2>9
<1>4. CASE playerview[p] # Nil
  <2> DEFINE view == playerview[p]
  <2>1. view \in View /\ updateviewplayer(p, a, pos)
    BY <1>1, <1>4 DEF enter_player, TypeOK
  <2>2. \A k \in Met(view) : OBJ[k] \in Pos /\ k # p
    BY <1>1, <1>4, <2>1 DEF WatchedExist, ViewsShaped, TypeOK, Met
  <2>3. /\ playerview'[p] \in View /\ playerview'[p] # Nil
        /\ \A i \in Id : playerview'[p][i] = PlayerFlag(view[i], pos, OBJ[i])
    <3>1. playerview'[p] = [i \in Id |-> PlayerFlag(view[i], pos, OBJ[i])]
      BY <1>1, <2>1 DEF updateviewplayer
    <3>2. \A i \in Id : PlayerFlag(view[i], pos, OBJ[i]) \in Flag
      BY <2>1, FlagTypes DEF View
    <3>3. playerview'[p] \in View
      BY <3>1, <3>2 DEF View
    <3> QED BY <3>1, <3>3, NilAssumption
  <2>4. ASSUME NEW k \in Player \ {p}, playerview[k] # Nil
        PROVE  /\ playerview'[k] \in View /\ playerview'[k] # Nil
               /\ playerview'[k][p] = PlayerFlag(view[k], pos, OBJ[k])
               /\ \A i \in Id \ {p} : playerview'[k][i] = playerview[k][i]
    <3>1. /\ k \in Id /\ k # p
          /\ playerview[k] \in View /\ view[k] \in Flag /\ playerview[k][p] = view[k]
      BY <1>1, <1>4, <2>1, <2>4 DEF TypeOK, PlayersAgree, View, Id
    <3>2. playerview'[k] = [playerview[k] EXCEPT ![p] = Mirror(view[k], view[k], pos, OBJ[k])]
      BY <2>1, <2>4, <3>1 DEF updateviewplayer, View
    <3>3. Mirror(view[k], view[k], pos, OBJ[k]) = PlayerFlag(view[k], pos, OBJ[k])
      <4>1. CASE view[k] = "none"
        BY <4>1 DEF Mirror, PlayerFlag
      <4>2. CASE view[k] # "none"
        BY <4>2, <2>2, <3>1, MirrorAgrees DEF Met
      <4> QED BY <4>1, <4>2
    <3>4. PlayerFlag(view[k], pos, OBJ[k]) \in Flag
      BY <3>1, FlagTypes
    <3> QED BY <1>1, <3>1, <3>2, <3>3, <3>4, NilAssumption DEF View
  <2>5. \A k \in Player \ {p} : playerview[k] = Nil => playerview'[k] = Nil
    BY <2>1 DEF updateviewplayer, Id
  <2>6. \A k \in Monster : playerview'[k] = playerview[k]
    BY <1>1, <2>1, IdAssumption DEF updateviewplayer, Id
  <2>7. ASSUME NEW m \in Monster
        PROVE  /\ monsterview'[m] = Nil <=> monsterview[m] = Nil
               /\ monsterview[m] # Nil =>
                    /\ monsterview'[m] \in View
                    /\ monsterview'[m][p] = Mirror(view[m], monsterview[m][p], pos, OBJ[m])
                    /\ \A i \in Id \ {p} : monsterview'[m][i] = monsterview[m][i]
    <3>1. m \in Id /\ monsterview[m] \in View \cup {Nil} /\ view[m] \in Flag
      BY <2>1 DEF TypeOK, Id, View
    <3>2. CASE monsterview[m] = Nil
      BY <2>1, <3>1, <3>2 DEF updateviewplayer
    <3>3. CASE monsterview[m] # Nil
      <4>1. monsterview'[m] =
              [monsterview[m] EXCEPT ![p] = Mirror(view[m], monsterview[m][p], pos, OBJ[m])]
        BY <2>1, <3>1, <3>3 DEF updateviewplayer
      <4>2. Mirror(view[m], monsterview[m][p], pos, OBJ[m]) \in Flag
        BY <1>1, <3>1, <3>3, FlagTypes DEF View
      <4> QED BY <1>1, <3>1, <3>3, <4>1, <4>2, NilAssumption DEF View
    <3> QED BY <3>2, <3>3
  <2>8. \A k \in Player : monsterview'[k] = Nil
    BY <2>1, IdAssumption DEF updateviewplayer, ViewsShaped, Id
  <2>9. ASSUME NEW m \in Monster, view[m] # "none"
        PROVE  monsterview'[m] # Nil /\ monsterview'[m][p] = playerview'[p][m]
    <3>1. m \in Id /\ monsterview[m] # Nil /\ monsterview[m][p] = view[m] /\ view[m] \in Flag
      BY <1>4, <2>1, <2>9 DEF MonstersAgree, Id, View
    <3>2. Mirror(view[m], view[m], pos, OBJ[m]) = PlayerFlag(view[m], pos, OBJ[m])
      BY <2>2, <2>9, <3>1, MirrorAgrees DEF Met
    <3> QED BY <2>3, <2>7, <3>1, <3>2
  <2>10. \A f, o : PlayerFlag(f, pos, o) = "none" <=> f = "none"
    BY DEF PlayerFlag
  <2>11. Tell(Notify(p, view, pos) \cup OwnList(p, view, pos), shown, Overtaken(p, a))
    BY <2>1 DEF updateviewplayer
  <2>12. Notify(p, view, pos) \cup OwnList(p, view, pos) \subseteq Notice
    BY <1>1 DEF Notify, OwnList, Notice, enterlist, leavelist, movelist, Met, Id
  <2>13. sent' \subseteq Notice /\ shown' \in Displays /\ stale' \in Displays
    BY <1>6, <2>11, <2>12, TellType
  <2>14. TypeOK'
    <3>1. playerview' \in [Id -> View \cup {Nil}]
      <4>1. DOMAIN playerview' = Id /\ playerview' = [k \in Id |-> playerview'[k]]
        BY <2>1 DEF updateviewplayer
      <4>2. \A k \in Id : playerview'[k] \in View \cup {Nil}
        BY <2>3, <2>4, <2>5, <2>6 DEF TypeOK, Id
      <4> QED BY <4>1, <4>2
    <3>2. monsterview' \in [Id -> View \cup {Nil}]
      <4>1. monsterview' = [k \in Id |-> monsterview'[k]]
        BY <2>1 DEF updateviewplayer
      <4>2. \A k \in Id : monsterview'[k] \in View \cup {Nil}
        BY <2>7, <2>8 DEF Id
      <4> QED BY <4>1, <4>2
    <3> QED BY <1>1, <1>2, <1>5, <2>13, <3>1, <3>2 DEF TypeOK, Displays
  <2>15. \A k \in Id : OBJ'[k] = Nil <=> (k # p /\ OBJ[k] = Nil)
    BY <1>1, <1>2 DEF TypeOK
  <2>16. playerview'[p][p] = "none"
    BY <1>1, <1>4, <2>3, <2>10 DEF ViewsShaped
  <2>17. ViewsShaped'
    BY <1>1, <1>4, <2>3, <2>4, <2>5, <2>6, <2>7, <2>8, <2>15, <2>16, IdAssumption
       DEF ViewsShaped, Id
  <2>18. WatchedExist'
    <3> SUFFICES ASSUME NEW r \in Player, playerview'[r] # Nil,
                        NEW k \in Met(playerview'[r])
                 PROVE  /\ OBJ'[k] # Nil
                        /\ IF k \in Player THEN playerview'[k] # Nil ELSE monsterview'[k] # Nil
      BY DEF WatchedExist
    <3>1. k \in Id /\ playerview'[r][k] # "none" /\ r \in Id
      BY DEF Met, Id
    <3>2. playerview[r] # Nil /\ playerview[r][k] # "none"
      <4>1. CASE r = p
        BY <4>1, <1>4, <2>3, <2>10, <3>1
      <4>2. CASE r # p
        <5>1. playerview[r] # Nil
          BY <4>2, <2>5
        <5>2. CASE k = p
          BY <1>1, <1>4, <5>1, <5>2, <4>2, <2>4, <2>10, <3>1 DEF PlayersAgree
        <5>3. CASE k # p
          BY <5>1, <5>3, <4>2, <2>4, <3>1
        <5> QED BY <5>2, <5>3
      <4> QED BY <4>1, <4>2
    <3>3. OBJ[k] # Nil /\ IF k \in Player THEN playerview[k] # Nil ELSE monsterview[k] # Nil
      BY <3>1, <3>2 DEF WatchedExist, Met
    <3> QED BY <2>3, <2>4, <2>7, <2>15, <3>1, <3>3 DEF Id
  <2>19. PlayersAgree'
    BY <1>1, <2>3, <2>4, <2>5 DEF PlayersAgree, Id
  <2>20. MonstersAgree'
    <3> SUFFICES ASSUME NEW r \in Player, NEW m \in Monster,
                        playerview'[r] # Nil, playerview'[r][m] # "none"
                 PROVE  monsterview'[m] # Nil /\ monsterview'[m][r] = playerview'[r][m]
      BY DEF MonstersAgree
    <3>1. CASE r = p
      BY <3>1, <2>3, <2>9, <2>10 DEF Id
    <3>2. CASE r # p
      BY <3>2, <2>4, <2>5, <2>7, IdAssumption, <1>1 DEF MonstersAgree, Id
    <3> QED BY <3>1, <3>2
  <2>21. NoGhostPlayers'
    <3> SUFFICES ASSUME NEW r \in Player, NEW k \in Player, NEW b \in Agent,
                        k \in shown'[r][b] \ stale'[r][b]
                 PROVE  agent'[r] = b /\ playerview'[r] # Nil /\ playerview'[r][k] = "in"
      BY DEF NoGhostPlayers
    <3> DEFINE N == Notify(p, view, pos) \cup OwnList(p, view, pos)
    <3>2. k \in Id /\ r \in Id
      BY DEF Id
    <3>1. /\ agent'[r] = b
          /\ \/ playerview[r] # Nil /\ playerview[r][k] = "in"
             \/ [to |-> r, op |-> "add", obj |-> k] \in N
          /\ [to |-> r, op |-> "del", obj |-> k] \notin N
      <4> HIDE DEF N
      <4>1. Tell(N, shown, Overtaken(p, a))
        BY <2>11 DEF N
      <4>2. \/ /\ b = agent'[r]
               /\ [to |-> r, op |-> "add", obj |-> k] \in N
               /\ [to |-> r, op |-> "del", obj |-> k] \notin N
            \/ /\ k \in shown[r][b] \ Overtaken(p, a)[r][b]
               /\ b = agent'[r] => [to |-> r, op |-> "del", obj |-> k] \notin N
        BY <4>1, TellShown
      <4> QED BY <1>7, <4>2
    <3>3. CASE r = p
      <4>1. \/ playerview[p][k] = "in"
            \/ k \in enterlist(view, pos)
        BY <3>1, <3>3, <2>2 DEF Notify, OwnList, enterlist
      <4>2. k \notin leavelist(view, pos)
        BY <3>1, <3>3 DEF OwnList
      <4> QED BY <1>4, <2>3, <3>1, <3>2, <3>3, <4>1, <4>2 DEF enterlist, leavelist, Met, PlayerFlag
    <3>4. CASE r # p /\ k = p
      <4>1. \/ playerview[r] # Nil /\ playerview[r][p] = "in"
            \/ r \in enterlist(view, pos)
        BY <3>1, <3>4 DEF Notify, OwnList
      <4>2. r \notin leavelist(view, pos)
        BY <3>1, <3>4 DEF Notify
      <4>3. playerview[r] # Nil /\ playerview[r][p] = view[r]
        BY <1>4, <4>1 DEF PlayersAgree, WatchedExist, enterlist
      <4>4. PlayerFlag(view[r], pos, OBJ[r]) = "in"
        BY <3>2, <4>1, <4>2, <4>3 DEF enterlist, leavelist, Met, PlayerFlag
      <4> QED BY <2>4, <3>1, <3>4, <4>3, <4>4
    <3>5. CASE r # p /\ k # p
      <4>1. playerview[r] # Nil /\ playerview[r][k] = "in"
        BY <3>1, <3>5 DEF Notify, OwnList
      <4> QED BY <2>4, <3>1, <3>2, <3>5, <4>1
    <3> QED BY <3>3, <3>4, <3>5
  <2> QED BY <2>14, <2>17, <2>18, <2>19, <2>20, <2>21
<1> QED BY <1>3, <1>4

(* The loop of updateviewmonster over some of the entries it can read: the *)
(* tables stay consistent even if the loop is cut short by an error.       *)
LEMMA MonsterViews ==
  ASSUME Inv, NEW m \in Monster, NEW pos \in Pos, monsterview[m] # Nil,
         NEW done \in SUBSET Readable(monsterview[m]),
         OBJ' = [OBJ EXCEPT ![m] = pos],
         monsterview' = UpdatedMonster(m, pos, done),
         playerview' = UpdatedPlayers(m, pos, done),
         agent' = agent,
         \A r, k \in Player, b \in Agent :
           k \in shown'[r][b] \ stale'[r][b] => k \in shown[r][b] \ stale[r][b]
  PROVE  /\ playerview' \in [Id -> View \cup {Nil}]
         /\ monsterview' \in [Id -> View \cup {Nil}]
         /\ ViewsShaped' /\ WatchedExist' /\ PlayersAgree' /\ MonstersAgree'
         /\ NoGhostPlayers'
<1> USE DEF Inv
<1> DEFINE view == monsterview[m]
<1>1. m \in Id /\ m \notin Player /\ view \in View /\ pos # Nil
  BY IdAssumption, PosAssumption DEF Id, TypeOK
<1>2. \A k \in done : /\ k \in Player /\ k \in Id /\ k # m /\ view[k] # "none"
                       /\ OBJ[k] \in Pos /\ playerview[k] \in View
  BY <1>1, IdAssumption DEF Readable, Met, ViewsShaped, TypeOK, Id
<1>3. /\ monsterview'[m] \in View /\ monsterview'[m] # Nil
      /\ \A k \in Id : monsterview'[m][k] =
           IF k \in done THEN MonsterFlag(view[k], pos, OBJ[k]) ELSE view[k]
      /\ \A k \in Id \ {m} : monsterview'[k] = monsterview[k]
  <2>1. monsterview' = [monsterview EXCEPT ![m] =
          [k \in Id |-> IF k \in done THEN MonsterFlag(view[k], pos, OBJ[k]) ELSE view[k]]]
    BY DEF UpdatedMonster
  <2>2. \A k \in Id : (IF k \in done THEN MonsterFlag(view[k], pos, OBJ[k]) ELSE view[k]) \in Flag
    BY <1>1, FlagTypes DEF View
  <2>3. monsterview'[m] =
          [k \in Id |-> IF k \in done THEN MonsterFlag(view[k], pos, OBJ[k]) ELSE view[k]]
    BY <1>1, <2>1 DEF TypeOK
  <2>4. monsterview'[m] \in View
    BY <2>2, <2>3 DEF View
  <2> QED BY <1>1, <2>1, <2>3, <2>4, NilAssumption DEF TypeOK
<1>4. ASSUME NEW k \in Id
      PROVE  IF k \in done
             THEN /\ playerview'[k] \in View /\ playerview'[k] # Nil
                  /\ playerview'[k][m] = MonsterMirror(view[k], playerview[k][m], pos, OBJ[k])
                  /\ \A i \in Id \ {m} : playerview'[k][i] = playerview[k][i]
             ELSE playerview'[k] = playerview[k]
  <2>1. CASE k \in done
    <3>1. playerview'[k] =
            [playerview[k] EXCEPT ![m] = MonsterMirror(view[k], playerview[k][m], pos, OBJ[k])]
      BY <2>1 DEF UpdatedPlayers
    <3>2. MonsterMirror(view[k], playerview[k][m], pos, OBJ[k]) \in Flag
      BY <1>1, <1>2, <2>1, FlagTypes DEF View
    <3> QED BY <1>1, <1>2, <2>1, <3>1, <3>2, NilAssumption DEF View
  <2>2. CASE k \notin done
    BY <2>2 DEF UpdatedPlayers
  <2> QED BY <2>1, <2>2
<1>5. playerview' \in [Id -> View \cup {Nil}] /\ monsterview' \in [Id -> View \cup {Nil}]
  <2>1. playerview' = [k \in Id |-> playerview'[k]]
    BY DEF UpdatedPlayers
  <2>2. \A k \in Id : playerview'[k] \in View \cup {Nil}
    BY <1>4 DEF TypeOK
  <2>3. monsterview' = [k \in Id |-> monsterview'[k]]
    BY DEF UpdatedMonster, TypeOK
  <2>4. \A k \in Id : monsterview'[k] \in View \cup {Nil}
    BY <1>3 DEF TypeOK
  <2> QED BY <2>1, <2>2, <2>3, <2>4
<1>6. /\ OBJ'[m] # Nil /\ \A k \in Id \ {m} : OBJ'[k] = OBJ[k]
      /\ OBJ[m] # Nil /\ playerview'[m] = NoView /\ playerview[m] = NoView
      /\ NoView # Nil
  BY <1>1, <1>2, <1>4, NilAssumption DEF TypeOK, ViewsShaped, NoView, View, Flag
<1>7. /\ \A k \in Player : playerview'[k] = Nil <=> playerview[k] = Nil
      /\ \A k \in Player : playerview[k] # Nil =>
           \A i \in Id \ {m} : playerview'[k][i] = playerview[k][i]
      /\ \A k \in Monster : playerview'[k] = playerview[k]
  BY <1>2, <1>4, IdAssumption, NilAssumption DEF Id
<1>8. ViewsShaped'
  BY <1>1, <1>2, <1>3, <1>6, <1>7, IdAssumption DEF ViewsShaped, Id
<1>9. WatchedExist'
  BY <1>1, <1>3, <1>6, <1>7 DEF WatchedExist, Met, Id
<1>10. PlayersAgree'
  BY <1>1, <1>7 DEF PlayersAgree, Id
<1>11. MonstersAgree'
  <2> SUFFICES ASSUME NEW r \in Player, NEW n \in Monster,
                      playerview'[r] # Nil, playerview'[r][n] # "none"
               PROVE  monsterview'[n] # Nil /\ monsterview'[n][r] = playerview'[r][n]
    BY DEF MonstersAgree
  <2>1. CASE n # m
    BY <2>1, <1>3, <1>7 DEF MonstersAgree, Id
  <2>2. CASE n = m /\ r \notin done
    BY <2>2, <1>3, <1>4 DEF MonstersAgree, Id
  <2>3. CASE n = m /\ r \in done
    <3>1. view[r] \in Flag /\ playerview[r][m] \in {view[r], "none"}
      BY <1>1, <1>2, <2>3, NilAssumption DEF MonstersAgree, View
    <3>2. MonsterMirror(view[r], playerview[r][m], pos, OBJ[r]) # "none"
      BY <1>2, <1>4, <2>3
    <3>3. MonsterMirror(view[r], playerview[r][m], pos, OBJ[r]) = MonsterFlag(view[r], pos, OBJ[r])
      BY <1>2, <2>3, <3>1, <3>2, MirrorAgrees, NearNotFar DEF MonsterMirror, MonsterFlag, Flag
    <3> QED BY <1>2, <1>3, <1>4, <2>3, <3>3
  <2> QED BY <2>1, <2>2, <2>3
<1>12. NoGhostPlayers'
  BY <1>1, <1>7 DEF NoGhostPlayers, Id
<1> QED BY <1>5, <1>8, <1>9, <1>10, <1>11, <1>12

(* A monster enters the map or moves on it. *)
LEMMA EnterMonsterInv ==
  ASSUME Inv, NEW m \in Monster, NEW pos \in Pos, enter_monster(m, pos)
  PROVE  Inv'
<1> USE DEF Inv
<1>1. m \in Id /\ m \notin Player /\ pos # Nil
  BY IdAssumption, PosAssumption DEF Id
<1>2. OBJ' = [OBJ EXCEPT ![m] = pos] /\ need_update' = TRUE /\ out' \in Text
  BY <1>1 DEF enter_monster, Entered, Text
<1>3. NoView \in View /\ NoView # Nil /\ \A i \in Id : NoView[i] = "none"
  BY NilAssumption DEF NoView, View, Flag
<1>4. CASE monsterview[m] = Nil
  <2>1. /\ playerview' = [playerview EXCEPT ![m] = NoView]
        /\ monsterview' = monsterview /\ sent' = {} /\ UNCHANGED <<agent, shown, stale>>
    <3>1. sent' = {} /\ UNCHANGED <<agent, shown, stale>>
      BY <1>4, SendNothing DEF enter_monster
    <3>2. playerview[m] \in {Nil, NoView}
      BY DEF ViewsShaped
    <3> QED BY <1>1, <1>4, <3>1, <3>2 DEF enter_monster, WithView, TypeOK
  <2>2. /\ playerview'[m] = NoView /\ OBJ'[m] # Nil
        /\ \A k \in Id \ {m} : playerview'[k] = playerview[k] /\ OBJ'[k] = OBJ[k]
    BY <1>1, <1>2, <2>1 DEF TypeOK
  <2>3. TypeOK'
    BY <1>1, <1>2, <1>3, <2>1 DEF TypeOK
  <2>4. ViewsShaped'
    BY <1>1, <1>3, <2>1, <2>2, IdAssumption DEF ViewsShaped, Id
  <2>5. WatchedExist'
    BY <1>1, <1>3, <2>1, <2>2 DEF WatchedExist, Met, Id
  <2>6. PlayersAgree' /\ MonstersAgree' /\ NoGhostPlayers'
    BY <1>1, <2>1, <2>2 DEF PlayersAgree, MonstersAgree, NoGhostPlayers, Id
  <2> QED BY <2>3, <2>4, <2>5, <2>6
<1>5. CASE monsterview[m] # Nil
  <2> DEFINE view == monsterview[m]
             done == Met(view)
  <2>1. /\ Readable(view) = done
        /\ monsterview' = UpdatedMonster(m, pos, done)
        /\ playerview' = WithView(UpdatedPlayers(m, pos, done), m)
        /\ Send(Notify(m, view, pos))
    BY <1>5 DEF enter_monster
  <2>2. playerview' = UpdatedPlayers(m, pos, done)
    <3>1. m \notin done /\ playerview[m] = NoView
      BY <1>1, <1>5 DEF ViewsShaped, Met, TypeOK
    <3>2. UpdatedPlayers(m, pos, done)[m] = NoView
      BY <1>1, <3>1 DEF UpdatedPlayers
    <3> QED BY <1>1, <1>3, <2>1, <3>2 DEF WithView, UpdatedPlayers
  <2>3. Notify(m, view, pos) \subseteq Notice
    BY <1>1 DEF Notify, Notice, enterlist, leavelist, movelist
  <2>4. sent' \subseteq Notice /\ shown' \in Displays /\ stale' \in Displays /\ agent' = agent
    BY <2>1, <2>3, TellType DEF Send, TypeOK, Displays
  <2>5. ASSUME NEW r \in Player, NEW k \in Player, NEW b \in Agent,
               k \in shown'[r][b] \ stale'[r][b]
        PROVE  k \in shown[r][b] \ stale[r][b]
    <3> DEFINE N == Notify(m, view, pos)
    <3>1. [to |-> r, op |-> "add", obj |-> k] \notin N
      BY <1>1 DEF Notify
    <3>2. Tell(N, shown, stale)
      BY <2>1 DEF Send
    <3> HIDE DEF N
    <3>3. \/ /\ b = agent'[r]
             /\ [to |-> r, op |-> "add", obj |-> k] \in N
             /\ [to |-> r, op |-> "del", obj |-> k] \notin N
          \/ /\ k \in shown[r][b] \ stale[r][b]
             /\ b = agent'[r] => [to |-> r, op |-> "del", obj |-> k] \notin N
      BY <2>5, <3>2, TellShown
    <3> QED BY <3>1, <3>3
  <2>6. done \in SUBSET Readable(view)
    BY <2>1
  <2>7. /\ playerview' \in [Id -> View \cup {Nil}] /\ monsterview' \in [Id -> View \cup {Nil}]
        /\ ViewsShaped' /\ WatchedExist' /\ PlayersAgree' /\ MonstersAgree' /\ NoGhostPlayers'
    BY <1>2, <1>5, <2>1, <2>2, <2>4, <2>5, <2>6, MonsterViews
  <2> QED BY <1>1, <1>2, <2>4, <2>7 DEF TypeOK, Displays
<1> QED BY <1>4, <1>5

(* The failing command leaves the tables consistent, too. *)
LEMMA EnterMonsterFailsInv ==
  ASSUME Inv, NEW m \in Monster, NEW pos \in Pos, enter_monster_fails(m, pos)
  PROVE  Inv'
<1> USE DEF Inv
<1>1. PICK done \in SUBSET Readable(monsterview[m]) :
        /\ monsterview' = UpdatedMonster(m, pos, done)
        /\ playerview' = UpdatedPlayers(m, pos, done)
  BY DEF enter_monster_fails
<1>2. /\ monsterview[m] # Nil /\ OBJ' = [OBJ EXCEPT ![m] = pos]
      /\ Send({}) /\ out' = <<>> /\ need_update' = need_update
  BY DEF enter_monster_fails
<1>3. UNCHANGED <<agent, shown, stale>> /\ sent' = {}
  BY <1>2, SendNothing
<1>4. /\ playerview' \in [Id -> View \cup {Nil}] /\ monsterview' \in [Id -> View \cup {Nil}]
      /\ ViewsShaped' /\ WatchedExist' /\ PlayersAgree' /\ MonstersAgree' /\ NoGhostPlayers'
  BY <1>1, <1>2, <1>3, MonsterViews
<1> QED BY <1>2, <1>3, <1>4 DEF TypeOK, Text, Id

-----------------------------------------------------------------------------
(* Every step of the service preserves the invariant. *)
LEMMA StepInv == Inv /\ [Next]_vars => Inv'
<1> SUFFICES ASSUME Inv, [Next]_vars PROVE Inv'
  OBVIOUS
<1>1. ASSUME NEW p \in Player, NEW a \in Agent, leave_player(p, a) PROVE Inv'
  BY <1>1, LeavePlayerInv
<1>2. ASSUME NEW p \in Player, NEW a \in Agent, NEW pos \in Pos, enter_player(p, a, pos)
      PROVE  Inv'
  BY <1>2, EnterPlayerInv
<1>3. ASSUME NEW m \in Monster, leave_monster(m) PROVE Inv'
  BY <1>3, LeaveMonsterInv
<1>4. ASSUME NEW m \in Monster, NEW pos \in Pos, enter_monster(m, pos) PROVE Inv'
  BY <1>4, EnterMonsterInv
<1>5. ASSUME NEW m \in Monster, NEW pos \in Pos, enter_monster_fails(m, pos) PROVE Inv'
  BY <1>5, EnterMonsterFailsInv
<1>6. CASE message_update
  BY <1>6, TickInv
<1>7. ASSUME NEW w \in Player, NEW m \in Id \ {w}, aoicallback(w, m) PROVE Inv'
  BY <1>7, CallbackInv
<1>8. CASE UNCHANGED vars
  BY <1>8 DEF vars, Inv, TypeOK, ViewsShaped, WatchedExist, PlayersAgree, MonstersAgree,
     NoGhostPlayers
<1> QED BY <1>1, <1>2, <1>3, <1>4, <1>5, <1>6, <1>7, <1>8 DEF Next, Command

(* The tables of aoi.lua keep their types and the invariant holds always. *)
THEOREM Invariance == Spec => []Inv
BY InitInv, StepInv, PTL DEF Spec

(* assert(OBJ[k]) in updateviewplayer never fails. *)
THEOREM WatchedExistAlways == Spec => []WatchedExist
<1>1. Inv => WatchedExist
  BY DEF Inv
<1> QED BY <1>1, Invariance, PTL

(* The tables and messages of aoi.lua always have their shape. *)
THEOREM TypeCorrect == Spec => []TypeOK
<1>1. Inv => TypeOK
  BY DEF Inv
<1> QED BY <1>1, Invariance, PTL

(* A player that knows a monster agrees with it on whether it is in view. *)
THEOREM MonstersAgreeAlways == Spec => []MonstersAgree
<1>1. Inv => MonstersAgree
  BY DEF Inv
<1> QED BY <1>1, Invariance, PTL

(* Two players always agree on whether they are in view of each other. *)
THEOREM PlayersAgreeAlways == Spec => []PlayersAgree
<1>1. Inv => PlayersAgree
  BY DEF Inv
<1> QED BY <1>1, Invariance, PTL

(* A client never shows a player that left or moved out of view, for any   *)
(* number of agents a user's logins overlap with, unless another agent of  *)
(* its user entered or left since it heard of that player (agent.lua:144   *)
(* leaves by the user's id).                                               *)
THEOREM NoGhostPlayersAlways == Spec => []NoGhostPlayers
<1>1. Inv => NoGhostPlayers
  BY DEF Inv
<1> QED BY <1>1, Invariance, PTL

-----------------------------------------------------------------------------
(* The service and the engine together.                                    *)


(* The engine's own results; its history variables play no part here. *)
E == INSTANCE CaoiProofs WITH
       Pos <- {Scaled(p) : p \in Pos}, Radius <- CaoiRadius,
       ModeStrings <- {{"watcher", "marker"}, {"marker"}},
       MaxVersion <- MaxCommands, told <- {}, drifted <- {}

(* Texts and callbacks that wait. *)
Update == [cmd : {"update"}, id : Id, pos : Pos]
Drop == [cmd : {"drop"}, id : Id]
Message == [cmd : {"message"}]
Texts == Update \cup Drop \cup Message
Callback == {c \in Player \X Id : c[1] # c[2]}

Mailboxes ==
  /\ OBJ \in [Id -> Pos \cup {Nil}]
  /\ need_update \in BOOLEAN
  /\ toCaoi \in Seq(Texts)
  /\ inbox \in Seq(Callback)

(* Only players hold the watcher bit, since monsters register with "m". *)
PlayersWatch ==
  \A k \in Id : object[k] # Nil /\ "watcher" \in object[k].mode => k \in Player

(* The text names the object. *)
About(t, p) == t \in Update \cup Drop /\ t.id = p

(* After the i-th waiting text another aoi_message is read. *)
FlushAfter(i) ==
  need_update \/ \E j \in DOMAIN toCaoi : i < j /\ toCaoi[j] \in Message

(* What the engine holds of a player no waiting text is about: nothing of  *)
(* one that left the map, or only until the aoi_message to come.           *)
EngineHolds(p) ==
  IF OBJ[p] = Nil
  THEN object[p] = Nil \/ ("drop" \in object[p].mode /\ FlushAfter(0))
  ELSE /\ object[p] # Nil
       /\ "drop" \notin object[p].mode
       /\ object[p].position = Scaled(OBJ[p])

(* The last waiting text about a player tells the truth. *)
LastText(i, p) ==
  /\ About(toCaoi[i], p)
  /\ \A j \in DOMAIN toCaoi : About(toCaoi[j], p) => j <= i

TextHolds(i, p) ==
  /\ toCaoi[i] \in Update => OBJ[p] = toCaoi[i].pos
  /\ toCaoi[i] \in Drop => OBJ[p] = Nil /\ FlushAfter(i)

SyncedWith(p) ==
  /\ (\A i \in DOMAIN toCaoi : ~About(toCaoi[i], p)) => EngineHolds(p)
  /\ \A i \in DOMAIN toCaoi : LastText(i, p) => TextHolds(i, p)

Synced == \A p \in Player : SyncedWith(p)

(* The inductive invariant: the engine's own invariant holds as long as    *)
(* the texts are well formed, the callbacks are well formed since the      *)
(* engine's are sound, and what is not yet in the engine is in a text.     *)
SInv == Mailboxes /\ E!CInv /\ PlayersWatch /\ Synced
-----------------------------------------------------------------------------
(* The engine's assumptions hold of what the service hands it. *)
LEMMA Assumptions ==
  /\ E!IsFiniteSet(Id) /\ Nil \notin Id
  /\ {Scaled(p) : p \in Pos} \subseteq Int \X Int \X Int
  /\ {Scaled(p) : p \in Pos} # {}
  /\ {{"watcher", "marker"}, {"marker"}} \subseteq SUBSET {"watcher", "marker"}
  /\ CaoiRadius \in Nat \ {0} /\ MaxCommands \in Nat
  /\ Nil \notin E!Object
<1>1. \A p \in Pos : Scaled(p) \in Int \X Int \X Int
  BY PosAssumption DEF Scaled
<1>2. E!Object = C!Object
  BY DEF E!Object, C!Object, E!ModeBits, C!ModeBits, E!Roles, C!Roles
<1>3. E!IsFiniteSet(Id)
  BY EngineAssumption DEF IsFiniteSet, E!IsFiniteSet
<1> QED BY <1>1, <1>2, <1>3, EngineAssumption, SceneAssumption, IdAssumption DEF Id

(* The engine's steps, seen through the module of its results. *)
LEMMA SameUpdate ==
  ASSUME NEW id, NEW roles, NEW pos
  PROVE  C!aoi_update(id, roles, pos) <=> E!aoi_update(id, roles, pos)
BY DEF C!aoi_update, E!aoi_update, C!map_query, E!map_query, C!new_object,
   E!new_object, C!IsMove, E!IsMove, C!ModeChanges, E!ModeChanges, C!Roles,
   E!Roles, C!is_near, E!is_near, C!DIST2, E!DIST2, C!AOI_RADIS2, E!AOI_RADIS2,
   C!change_mode, E!change_mode

LEMMA SameDrop ==
  ASSUME NEW id
  PROVE  C!aoi_drop(id) <=> E!aoi_drop(id)
BY DEF C!aoi_drop, E!aoi_drop, C!map_query, E!map_query, C!new_object,
   E!new_object, C!drop_object, E!drop_object

LEMMA SameMessage == C!aoi_message <=> E!aoi_message
<1>1. /\ C!LEAVE_AOI_RADIS = E!LEAVE_AOI_RADIS /\ C!AOI_RADIS2 = E!AOI_RADIS2
      /\ C!Roles = E!Roles /\ C!Live = E!Live
  BY DEF C!LEAVE_AOI_RADIS, E!LEAVE_AOI_RADIS, C!AOI_RADIS2, E!AOI_RADIS2,
     C!Roles, E!Roles, C!Live, E!Live
<1>2. \A i, j : C!dist2(i, j) = E!dist2(i, j)
  BY DEF C!dist2, E!dist2, C!DIST2, E!DIST2
<1>3. \A p : C!Outdated(p) <=> E!Outdated(p)
  BY DEF C!Outdated, E!Outdated
<1>4. C!FlushCalled = E!FlushCalled
  BY <1>1, <1>2, <1>3 DEF C!FlushCalled, E!FlushCalled
<1>5. C!FlushDropped = E!FlushDropped
  BY <1>1, <1>2, <1>3, <1>4 DEF C!FlushDropped, E!FlushDropped
<1>6. C!gen_pair_list = E!gen_pair_list
  BY <1>1 DEF C!gen_pair_list, E!gen_pair_list, C!watcher_move, E!watcher_move,
     C!watcher_static, E!watcher_static, C!marker_move, E!marker_move,
     C!marker_static, E!marker_static
<1>7. C!GenCalled = E!GenCalled
  BY <1>1, <1>2, <1>6 DEF C!GenCalled, E!GenCalled
<1>8. C!GenHot = E!GenHot
  <2>1. {x \in C!gen_pair_list : /\ C!dist2(x[1], x[2]) >= C!AOI_RADIS2
                                 /\ C!dist2(x[1], x[2]) <= C!LEAVE_AOI_RADIS}
        = {x \in E!gen_pair_list : /\ E!dist2(x[1], x[2]) >= E!AOI_RADIS2
                                   /\ E!dist2(x[1], x[2]) <= E!LEAVE_AOI_RADIS}
    BY <1>1, <1>2, <1>6
  <2> QED BY <2>1 DEF C!GenHot, E!GenHot
<1>9. \A P, i : C!Endpoints(P, i) = E!Endpoints(P, i)
  BY Zenon DEF C!Endpoints, E!Endpoints, C!Cardinality, E!Cardinality
<1>10. \A obj, n : C!drop_object(obj, n) = E!drop_object(obj, n)
  BY DEF C!drop_object, E!drop_object
<1>11. \A mode : C!PushedMode(mode) = E!PushedMode(mode)
  BY <1>1 DEF C!PushedMode, E!PushedMode
<1> QED BY <1>4, <1>5, <1>7, <1>8, <1>9, <1>10, <1>11 DEF C!aoi_message, E!aoi_message

LEMMA EngineInit == C!Init => E!CInv
<1>1. C!Init => E!Init
  BY DEF C!Init, E!Init
<1> QED BY <1>1, E!InitCInv, Assumptions

LEMMA EngineUpdate ==
  ASSUME E!CInv, NEW id \in Id, NEW pos \in Pos, C!aoi_update(id, Mode(id), Scaled(pos))
  PROVE  /\ E!CInv'
         /\ \A k \in Id : k # id => object'[k] = object[k]
         /\ object'[id] # Nil
         /\ "drop" \notin object'[id].mode
         /\ object'[id].position = Scaled(pos)
         /\ "watcher" \in object'[id].mode => id \in Player
<1>1. /\ E!aoi_update(id, Mode(id), Scaled(pos))
      /\ Mode(id) \in {{"watcher", "marker"}, {"marker"}}
      /\ Scaled(pos) \in {Scaled(p) : p \in Pos}
  BY SameUpdate DEF Mode
<1>2. E!CInv'
  BY <1>1, E!UpdateInv, Assumptions
<1>3. /\ object' = [object EXCEPT ![id] = object'[id]]
      /\ object'[id] \in E!Object
      /\ "drop" \notin object'[id].mode
      /\ object'[id].mode \cap E!Roles = Mode(id)
      /\ object'[id].position = Scaled(pos)
  BY <1>1, E!UpdatedObject, Assumptions
<1>4. object'[id] # Nil
  BY <1>3, Assumptions
<1>5. "watcher" \in object'[id].mode => id \in Player
  BY <1>3 DEF E!Roles, Mode
<1>6. \A k \in Id : k # id => object'[k] = object[k]
  BY <1>3 DEF E!CInv, E!TypeOK
<1> QED BY <1>2, <1>3, <1>4, <1>5, <1>6

LEMMA EngineDrop ==
  ASSUME E!CInv, NEW id \in Id, C!aoi_drop(id)
  PROVE  /\ E!CInv'
         /\ \A k \in Id : k # id => object'[k] = object[k]
         /\ object'[id] # Nil => object'[id].mode = {"drop"}
<1>1. E!aoi_drop(id)
  BY SameDrop
<1>2. E!CInv'
  BY <1>1, E!DropInv, Assumptions
<1>3. /\ object' = [object EXCEPT ![id] = object'[id]]
      /\ \/ object'[id] = object[id] /\ object[id] # Nil /\ "drop" \in object[id].mode
         \/ object'[id] = Nil
         \/ object'[id].mode = {"drop"}
  BY <1>1, E!DroppedObject, Assumptions
<1>4. \A k \in Id : k # id => object'[k] = object[k]
  BY <1>3 DEF E!CInv, E!TypeOK
<1>5. object[id] # Nil /\ "drop" \in object[id].mode => object[id].mode = {"drop"}
  BY DEF E!CInv, E!DropAlone, E!Live
<1> QED BY <1>2, <1>3, <1>4, <1>5

LEMMA EngineMessage ==
  ASSUME E!CInv, C!aoi_message
  PROVE  /\ E!CInv'
         /\ \A k \in Id : object[k] = Nil => object'[k] = Nil
         /\ \A k \in Id : object[k] # Nil =>
              IF "drop" \in object[k].mode THEN object'[k] = Nil
              ELSE /\ object'[k] # Nil
                   /\ object'[k].position = object[k].position
                   /\ "drop" \notin object'[k].mode
                   /\ "watcher" \in object'[k].mode <=> "watcher" \in object[k].mode
         /\ \A c \in called' :
              /\ c \in Id \X Id /\ c[1] # c[2]
              /\ object[c[1]] # Nil /\ "watcher" \in object[c[1]].mode
<1>1. E!aoi_message
  BY SameMessage
<1>2. E!CInv'
  BY <1>1, E!MessageInv, Assumptions
<1>3. \A k \in Id : object[k] = Nil => object'[k] = Nil
  BY <1>1, E!MessageObject, Assumptions
<1>4. ASSUME NEW k \in Id, object[k] # Nil, "drop" \in object[k].mode
      PROVE  object'[k] = Nil
  <2>1. k \in E!Live
    BY <1>4 DEF E!Live
  <2> QED BY <1>1, <1>4, <2>1, E!MessageFrees, Assumptions
<1>5. ASSUME NEW k \in Id, object[k] # Nil, "drop" \notin object[k].mode
      PROVE  /\ object'[k] # Nil
             /\ object'[k].position = object[k].position
             /\ "drop" \notin object'[k].mode
             /\ "watcher" \in object'[k].mode <=> "watcher" \in object[k].mode
  <2>1. k \in E!Live
    BY <1>5 DEF E!Live
  <2>2. k \in E!Live'
    BY <1>1, <1>5, <2>1, E!MessagePresent, Assumptions
  <2>3. object'[k] # Nil
    BY <2>2 DEF E!Live
  <2> QED BY <1>1, <1>5, <2>3, E!MessageKeeps, Assumptions
<1>6. ASSUME NEW c \in called'
      PROVE  /\ c \in Id \X Id /\ c[1] # c[2]
             /\ object[c[1]] # Nil /\ "watcher" \in object[c[1]].mode
  <2>1. c \in Id \X Id
    BY <1>2 DEF E!CInv, E!TypeOK
  <2>2. c[1] # c[2] /\ c[1] \in E!Live /\ "watcher" \in object[c[1]].mode
    BY <1>1, E!MessageCalls, Assumptions
  <2> QED BY <2>1, <2>2 DEF E!Live
<1> QED BY <1>2, <1>3, <1>4, <1>5, <1>6

-----------------------------------------------------------------------------
(* Texts in the mailbox of caoi. *)

LEMMA TextKinds ==
  ASSUME NEW t \in Texts
  PROVE  /\ t # <<>>
         /\ t \in Update => t \notin Drop /\ t \notin Message /\ t.cmd = "update"
                            /\ t.id \in Id /\ t.pos \in Pos
         /\ t \in Drop => t \notin Message /\ t.cmd = "drop" /\ t.id \in Id
         /\ t \in Message => t.cmd = "message"
<1>1. DOMAIN t # {}
  <2>1. "cmd" \in DOMAIN t
    BY DEF Texts, Update, Drop, Message
  <2> QED BY <2>1
<1>2. t # <<>>
  BY <1>1
<1> QED BY <1>2 DEF Texts, Update, Drop, Message

LEMMA Posted ==
  ASSUME toCaoi \in Seq(Texts), NEW t \in Texts, toCaoi' = Append(toCaoi, t)
  PROVE  /\ toCaoi' \in Seq(Texts)
         /\ Len(toCaoi) \in Nat
         /\ DOMAIN toCaoi = 1 .. Len(toCaoi)
         /\ DOMAIN toCaoi' = 1 .. Len(toCaoi) + 1
         /\ \A j \in 1 .. Len(toCaoi) : toCaoi'[j] = toCaoi[j]
         /\ toCaoi'[Len(toCaoi) + 1] = t
OBVIOUS

LEMMA Read ==
  ASSUME toCaoi \in Seq(Texts), toCaoi # <<>>, toCaoi' = Tail(toCaoi)
  PROVE  /\ toCaoi' \in Seq(Texts)
         /\ Len(toCaoi) \in Nat \ {0}
         /\ DOMAIN toCaoi = 1 .. Len(toCaoi)
         /\ DOMAIN toCaoi' = 1 .. Len(toCaoi) - 1
         /\ \A j \in 1 .. Len(toCaoi) - 1 : toCaoi'[j] = toCaoi[j + 1]
         /\ Head(toCaoi) = toCaoi[1]
OBVIOUS

(* A text about p is posted: it becomes the last one, and the truth. *)
LEMMA PostAbout ==
  ASSUME Mailboxes, NEW p \in Player, NEW t \in Texts, About(t, p),
         toCaoi' = Append(toCaoi, t),
         need_update' = TRUE,
         t \in Update => OBJ'[p] = t.pos,
         t \in Drop => OBJ'[p] = Nil
  PROVE  SyncedWith(p)'
<1> DEFINE n == Len(toCaoi) + 1
<1>1. n \in Nat /\ DOMAIN toCaoi' = 1 .. n /\ toCaoi'[n] = t
  BY Posted DEF Mailboxes
<1>2. ASSUME NEW i \in DOMAIN toCaoi', LastText(i, p)'
      PROVE  TextHolds(i, p)'
  <2>1. i = n
    <3> HIDE DEF n
    <3> QED BY <1>1, <1>2 DEF LastText
  <2> QED BY <1>1, <2>1 DEF TextHolds, FlushAfter
<1> QED BY <1>1, <1>2 DEF SyncedWith

(* A text that is not about p is posted. *)
LEMMA PostOther ==
  ASSUME Mailboxes, NEW p \in Player, SyncedWith(p), NEW t \in Texts, ~About(t, p),
         toCaoi' = Append(toCaoi, t),
         need_update => need_update' \/ t \in Message,
         OBJ'[p] = OBJ[p], object'[p] = object[p]
  PROVE  SyncedWith(p)'
<1> DEFINE n == Len(toCaoi)
<1>1. /\ n \in Nat /\ DOMAIN toCaoi = 1 .. n /\ DOMAIN toCaoi' = 1 .. n + 1
      /\ \A j \in 1 .. n : toCaoi'[j] = toCaoi[j]
      /\ toCaoi'[n + 1] = t
  BY Posted DEF Mailboxes
<1> HIDE DEF n
<1>2. ASSUME NEW i \in 0 .. n, FlushAfter(i)
      PROVE  FlushAfter(i)'
  <2>1. CASE need_update
    BY <1>1, <2>1 DEF FlushAfter
  <2>2. CASE \E j \in DOMAIN toCaoi : i < j /\ toCaoi[j] \in Message
    BY <1>1, <2>2 DEF FlushAfter
  <2> QED BY <1>2, <2>1, <2>2 DEF FlushAfter
<1>3. ASSUME \A i \in DOMAIN toCaoi' : ~About(toCaoi'[i], p)
      PROVE  EngineHolds(p)'
  <2>1. \A i \in DOMAIN toCaoi : ~About(toCaoi[i], p)
    BY <1>1, <1>3
  <2>2. EngineHolds(p)
    BY <2>1 DEF SyncedWith
  <2>3. FlushAfter(0) => FlushAfter(0)'
    BY <1>1, <1>2
  <2> QED BY <2>2, <2>3 DEF EngineHolds
<1>4. ASSUME NEW i \in DOMAIN toCaoi', LastText(i, p)'
      PROVE  TextHolds(i, p)'
  <2>1. i \in DOMAIN toCaoi /\ toCaoi'[i] = toCaoi[i]
    BY <1>1, <1>4 DEF LastText
  <2>2. LastText(i, p)
    BY <1>1, <1>4, <2>1 DEF LastText
  <2>3. TextHolds(i, p)
    BY <2>1, <2>2 DEF SyncedWith
  <2>4. FlushAfter(i) => FlushAfter(i)'
    BY <1>1, <1>2, <2>1
  <2> QED BY <2>1, <2>3, <2>4 DEF TextHolds
<1> QED BY <1>3, <1>4 DEF SyncedWith

(* Nothing about p happens in either service. *)
LEMMA Idle ==
  ASSUME NEW p \in Player, SyncedWith(p), toCaoi' = toCaoi,
         need_update' = need_update, OBJ'[p] = OBJ[p], object'[p] = object[p]
  PROVE  SyncedWith(p)'
<1>1. \A i : FlushAfter(i)' <=> FlushAfter(i)
  BY DEF FlushAfter
<1>2. EngineHolds(p) => EngineHolds(p)'
  BY <1>1 DEF EngineHolds
<1>3. \A i : LastText(i, p)' <=> LastText(i, p)
  BY DEF LastText
<1>4. \A i : TextHolds(i, p) => TextHolds(i, p)'
  BY <1>1 DEF TextHolds
<1> QED BY <1>2, <1>3, <1>4 DEF SyncedWith

(* The engine reads a text. *)
LEMMA ReadText ==
  ASSUME Mailboxes, NEW p \in Player, SyncedWith(p), toCaoi # <<>>,
         toCaoi' = Tail(toCaoi), need_update' = need_update, OBJ' = OBJ,
         IF About(Head(toCaoi), p)
         THEN /\ Head(toCaoi) \in Update =>
                   /\ object'[p] # Nil /\ "drop" \notin object'[p].mode
                   /\ object'[p].position = Scaled(Head(toCaoi).pos)
              /\ Head(toCaoi) \in Drop =>
                   object'[p] = Nil \/ "drop" \in object'[p].mode
         ELSE IF Head(toCaoi) \in Message
         THEN /\ object[p] = Nil \/ "drop" \in object[p].mode => object'[p] = Nil
              /\ object[p] # Nil /\ "drop" \notin object[p].mode =>
                   /\ object'[p] # Nil /\ "drop" \notin object'[p].mode
                   /\ object'[p].position = object[p].position
         ELSE object'[p] = object[p]
  PROVE  SyncedWith(p)'
<1> DEFINE n == Len(toCaoi)
           t == Head(toCaoi)
<1>1. /\ n \in Nat \ {0} /\ DOMAIN toCaoi = 1 .. n /\ DOMAIN toCaoi' = 1 .. n - 1
      /\ \A j \in 1 .. n - 1 : toCaoi'[j] = toCaoi[j + 1]
      /\ t = toCaoi[1]
      /\ t \in Texts
  BY Read DEF Mailboxes
<1> HIDE DEF n, t
<1>2. ASSUME NEW i \in Nat, FlushAfter(i), i > 0 \/ t \notin Message,
             NEW h \in Nat, h = IF i = 0 THEN 0 ELSE i - 1
      PROVE  FlushAfter(h)'
  <2>1. CASE need_update
    BY <2>1 DEF FlushAfter
  <2>2. CASE \E j \in DOMAIN toCaoi : i < j /\ toCaoi[j] \in Message
    <3>1. PICK j \in 1 .. n : i < j /\ toCaoi[j] \in Message
      BY <1>1, <2>2
    <3>2. j # 1
      BY <1>1, <1>2, <3>1
    <3>3. j - 1 \in DOMAIN toCaoi' /\ h < j - 1 /\ toCaoi'[j - 1] \in Message
      BY <1>1, <1>2, <3>1, <3>2
    <3> QED BY <3>3 DEF FlushAfter
  <2> QED BY <1>2, <2>1, <2>2 DEF FlushAfter
<1>3. ASSUME \A i \in DOMAIN toCaoi' : ~About(toCaoi'[i], p)
      PROVE  EngineHolds(p)'
  <2>1. \A j \in DOMAIN toCaoi : j > 1 => ~About(toCaoi[j], p)
    <3> SUFFICES ASSUME NEW j \in 2 .. n PROVE ~About(toCaoi[j], p)
      BY <1>1
    <3>1. j - 1 \in DOMAIN toCaoi' /\ toCaoi'[j - 1] = toCaoi[j]
      BY <1>1
    <3> QED BY <1>3, <3>1
  <2>2. CASE About(t, p)
    <3>1. 1 \in DOMAIN toCaoi /\ LastText(1, p)
      BY <1>1, <2>1, <2>2 DEF LastText
    <3>2. TextHolds(1, p)
      BY <3>1 DEF SyncedWith
    <3>3. CASE t \in Update
      <4>1. OBJ'[p] = t.pos /\ OBJ'[p] # Nil
        BY <1>1, <3>2, <3>3, TextKinds, PosAssumption DEF TextHolds
      <4> QED BY <2>2, <3>3, <4>1 DEF t, EngineHolds
    <3>4. CASE t \in Drop
      <4>1. OBJ'[p] = Nil /\ FlushAfter(1)
        BY <1>1, <3>2, <3>4 DEF TextHolds
      <4>2. FlushAfter(0)'
        BY <1>2, <4>1
      <4> QED BY <2>2, <3>4, <4>1, <4>2 DEF t, EngineHolds
    <3> QED BY <2>2, <3>3, <3>4 DEF About
  <2>3. CASE ~About(t, p)
    <3>1. EngineHolds(p)
      BY <1>1, <2>1, <2>3 DEF SyncedWith
    <3>2. CASE t \in Message
      BY <2>3, <3>1, <3>2 DEF EngineHolds, t
    <3>3. CASE t \notin Message
      <4>1. FlushAfter(0) => FlushAfter(0)'
        BY <1>2, <3>3
      <4> QED BY <2>3, <3>1, <3>3, <4>1 DEF EngineHolds, t
    <3> QED BY <3>2, <3>3
  <2> QED BY <2>2, <2>3
<1>4. ASSUME NEW i \in DOMAIN toCaoi', LastText(i, p)'
      PROVE  TextHolds(i, p)'
  <2>1. i \in 1 .. n - 1 /\ i + 1 \in DOMAIN toCaoi /\ toCaoi'[i] = toCaoi[i + 1]
    BY <1>1
  <2>2. LastText(i + 1, p)
    <3>1. About(toCaoi[i + 1], p)
      BY <1>4, <2>1 DEF LastText
    <3>2. ASSUME NEW j \in 1 .. n, About(toCaoi[j], p)
          PROVE  j <= i + 1
      <4>1. CASE j = 1
        BY <2>1, <4>1
      <4>2. CASE j # 1
        <5>1. j - 1 \in DOMAIN toCaoi' /\ toCaoi'[j - 1] = toCaoi[j]
          BY <1>1, <4>2
        <5>2. j - 1 <= i
          BY <1>4, <3>2, <5>1 DEF LastText
        <5> QED BY <2>1, <5>2
      <4> QED BY <4>1, <4>2
    <3> QED BY <1>1, <3>1, <3>2 DEF LastText
  <2>3. TextHolds(i + 1, p)
    BY <2>1, <2>2 DEF SyncedWith
  <2>4. FlushAfter(i + 1) => FlushAfter(i)'
    BY <1>1, <1>2, <2>1
  <2> QED BY <2>1, <2>3, <2>4 DEF TextHolds
<1> QED BY <1>3, <1>4 DEF SyncedWith

-----------------------------------------------------------------------------
(* The steps. *)

LEMMA SceneInit == SInit => SInv
<1> SUFFICES ASSUME SInit PROVE SInv
  OBVIOUS
<1>1. Mailboxes
  <2>1. <<>> \in Seq(Texts) /\ <<>> \in Seq(Callback)
    OBVIOUS
  <2>2. OBJ = [k \in Id |-> Nil] /\ need_update = FALSE /\ toCaoi = <<>> /\ inbox = <<>>
    BY DEF SInit, Init
  <2> QED BY <2>1, <2>2 DEF Mailboxes
<1>2. E!CInv
  BY EngineInit DEF SInit
<1>3. PlayersWatch /\ Synced
  BY DEF SInit, Init, C!Init, PlayersWatch, Synced, SyncedWith, EngineHolds, Id
<1> QED BY <1>1, <1>2, <1>3 DEF SInv

(* What the engine's invariant does not see leaves it alone. *)
LEMMA EngineFrame ==
  ASSUME E!CInv, PlayersWatch, UNCHANGED cvars
  PROVE  E!CInv' /\ PlayersWatch'
<1>1. UNCHANGED E!vars
  BY DEF cvars, E!vars
<1>2. E!CInv'
  BY <1>1, E!NextCInv, Assumptions
<1> QED BY <1>2 DEF PlayersWatch, cvars

(* A command posts the truth about the object it is about, or, when it     *)
(* fails, changes a monster only.                                          *)
LEMMA CommandEffect ==
  ASSUME Mailboxes, Command, ToCaoi
  PROVE  \E id \in Id, v \in Pos \cup {Nil} :
           /\ OBJ' = [OBJ EXCEPT ![id] = v]
           /\ \/ /\ need_update' = TRUE
                 /\ \E t \in Update \cup Drop :
                      /\ t.id = id
                      /\ t \in Update => v = t.pos
                      /\ t \in Drop => v = Nil
                      /\ toCaoi' = Append(toCaoi, t)
              \/ id \in Monster /\ UNCHANGED <<need_update, toCaoi>>
<1>1. ASSUME NEW id \in Id, NEW pos \in Pos, OBJ' = [OBJ EXCEPT ![id] = pos],
             Entered(id, pos)
      PROVE  \E t \in Update \cup Drop :
               /\ need_update' = TRUE
               /\ t.id = id /\ (t \in Update => pos = t.pos) /\ (t \in Drop => pos = Nil)
               /\ toCaoi' = Append(toCaoi, t)
  <2> DEFINE t == [cmd |-> "update", id |-> id, pos |-> pos]
  <2>1. t \in Update /\ t \in Texts /\ t.id = id /\ t.pos = pos
    BY DEF Update, Texts
  <2>2. out' = t /\ need_update' = TRUE
    BY <1>1 DEF Entered
  <2>3. t # <<>> /\ t \notin Drop
    BY <2>1, TextKinds
  <2>4. toCaoi' = Append(toCaoi, t)
    BY <2>2, <2>3 DEF ToCaoi
  <2> HIDE DEF t
  <2> QED BY <2>1, <2>2, <2>3, <2>4
<1>2. ASSUME NEW id \in Id, Left(id)
      PROVE  \E t \in Update \cup Drop :
               /\ need_update' = TRUE
               /\ t.id = id /\ t \notin Update
               /\ toCaoi' = Append(toCaoi, t)
  <2> DEFINE t == [cmd |-> "drop", id |-> id]
  <2>1. t \in Drop /\ t \in Texts /\ t.id = id
    BY DEF Drop, Texts
  <2>2. out' = t /\ need_update' = TRUE
    BY <1>2 DEF Left
  <2>3. t # <<>> /\ t \notin Update
    BY <2>1, TextKinds
  <2>4. toCaoi' = Append(toCaoi, t)
    BY <2>2, <2>3 DEF ToCaoi
  <2> HIDE DEF t
  <2> QED BY <2>1, <2>2, <2>3, <2>4
<1>3. ASSUME NEW p \in Player, NEW a \in Agent, leave_player(p, a)
      PROVE  OBJ' = [OBJ EXCEPT ![p] = Nil] /\ Left(p) /\ p \in Id
  BY <1>3 DEF leave_player, Gone, Id
<1>4. ASSUME NEW p \in Player, NEW a \in Agent, NEW pos \in Pos, enter_player(p, a, pos)
      PROVE  OBJ' = [OBJ EXCEPT ![p] = pos] /\ Entered(p, pos) /\ p \in Id
  BY <1>4 DEF enter_player, Id
<1>5. ASSUME NEW m \in Monster, leave_monster(m)
      PROVE  OBJ' = [OBJ EXCEPT ![m] = Nil] /\ Left(m) /\ m \in Id
  BY <1>5 DEF leave_monster, Id
<1>6. ASSUME NEW m \in Monster, NEW pos \in Pos, enter_monster(m, pos)
      PROVE  OBJ' = [OBJ EXCEPT ![m] = pos] /\ Entered(m, pos) /\ m \in Id
  BY <1>6 DEF enter_monster, Id
<1>7. ASSUME NEW m \in Monster, NEW pos \in Pos, enter_monster_fails(m, pos)
      PROVE  /\ OBJ' = [OBJ EXCEPT ![m] = pos] /\ m \in Id
             /\ UNCHANGED <<need_update, toCaoi>>
  BY <1>7 DEF enter_monster_fails, ToCaoi, Id
<1>8. CASE \E p \in Player, a \in Agent : leave_player(p, a)
  <2>1. PICK p \in Player, a \in Agent : leave_player(p, a)
    BY <1>8
  <2> QED BY <1>2, <1>3, <2>1
<1>9. CASE \E p \in Player, a \in Agent, pos \in Pos : enter_player(p, a, pos)
  <2>1. PICK p \in Player, a \in Agent, pos \in Pos : enter_player(p, a, pos)
    BY <1>9
  <2>2. OBJ' = [OBJ EXCEPT ![p] = pos] /\ p \in Id
    BY <1>4, <2>1
  <2>3. PICK t \in Update \cup Drop :
               /\ need_update' = TRUE
               /\ t.id = p /\ (t \in Update => pos = t.pos) /\ (t \in Drop => pos = Nil)
               /\ toCaoi' = Append(toCaoi, t)
    BY <1>1, <1>4, <2>1
  <2> QED BY <2>2, <2>3
<1>10. CASE \E m \in Monster : leave_monster(m)
  <2>1. PICK m \in Monster : leave_monster(m)
    BY <1>10
  <2> QED BY <1>2, <1>5, <2>1
<1>11. CASE \E m \in Monster, pos \in Pos : enter_monster(m, pos)
  <2>1. PICK m \in Monster, pos \in Pos : enter_monster(m, pos)
    BY <1>11
  <2>2. OBJ' = [OBJ EXCEPT ![m] = pos] /\ m \in Id
    BY <1>6, <2>1
  <2>3. PICK t \in Update \cup Drop :
               /\ need_update' = TRUE
               /\ t.id = m /\ (t \in Update => pos = t.pos) /\ (t \in Drop => pos = Nil)
               /\ toCaoi' = Append(toCaoi, t)
    BY <1>1, <1>6, <2>1
  <2> QED BY <2>2, <2>3
<1>12. CASE \E m \in Monster, pos \in Pos : enter_monster_fails(m, pos)
  <2>1. PICK m \in Monster, pos \in Pos : enter_monster_fails(m, pos)
    BY <1>12
  <2> QED BY <1>7, <2>1
<1> QED BY <1>8, <1>9, <1>10, <1>11, <1>12 DEF Command

LEMMA CommandInv == ASSUME SInv, AgentCommand PROVE SInv'
<1>1. /\ Mailboxes /\ E!CInv /\ PlayersWatch /\ Synced
      /\ Command /\ ToCaoi /\ UNCHANGED cvars /\ inbox' = inbox
  BY DEF SInv, AgentCommand
<1>2. E!CInv' /\ PlayersWatch'
  BY <1>1, EngineFrame
<1>3. PICK id \in Id, v \in Pos \cup {Nil} :
           /\ OBJ' = [OBJ EXCEPT ![id] = v]
           /\ \/ /\ need_update' = TRUE
                 /\ \E t \in Update \cup Drop :
                      /\ t.id = id
                      /\ t \in Update => v = t.pos
                      /\ t \in Drop => v = Nil
                      /\ toCaoi' = Append(toCaoi, t)
              \/ id \in Monster /\ UNCHANGED <<need_update, toCaoi>>
  BY <1>1, CommandEffect
<1>4. /\ OBJ' \in [Id -> Pos \cup {Nil}]
      /\ OBJ'[id] = v
      /\ \A k \in Id : k # id => OBJ'[k] = OBJ[k]
      /\ object' = object
  BY <1>1, <1>3 DEF Mailboxes, cvars
<1>5. CASE id \in Monster /\ UNCHANGED <<need_update, toCaoi>>
  <2>1. Mailboxes'
    BY <1>1, <1>4, <1>5 DEF Mailboxes
  <2>2. ASSUME NEW p \in Player
        PROVE  SyncedWith(p)'
    <3>1. p # id /\ p \in Id
      BY <1>5, IdAssumption DEF Id
    <3> QED BY <1>1, <1>4, <1>5, <3>1, Idle DEF Synced
  <2> QED BY <1>2, <2>1, <2>2 DEF SInv, Synced
<1>6. CASE /\ need_update' = TRUE
           /\ \E t \in Update \cup Drop :
                /\ t.id = id
                /\ t \in Update => v = t.pos
                /\ t \in Drop => v = Nil
                /\ toCaoi' = Append(toCaoi, t)
  <2>1. PICK t \in Update \cup Drop :
                /\ t.id = id
                /\ t \in Update => v = t.pos
                /\ t \in Drop => v = Nil
                /\ toCaoi' = Append(toCaoi, t)
    BY <1>6
  <2>2. t \in Texts
    BY DEF Texts
  <2>3. Mailboxes'
    BY <1>1, <1>4, <1>6, <2>1, <2>2 DEF Mailboxes
  <2>4. ASSUME NEW p \in Player
        PROVE  SyncedWith(p)'
    <3>1. CASE p = id
      BY <1>1, <1>4, <1>6, <2>1, <2>2, <3>1, PostAbout DEF About
    <3>2. CASE p # id
      <4>1. ~About(t, p) /\ OBJ'[p] = OBJ[p]
        BY <1>4, <2>1, <3>2 DEF About, Id
      <4> QED BY <1>1, <1>4, <1>6, <2>1, <2>2, <4>1, PostOther DEF Synced
    <3> QED BY <3>1, <3>2
  <2> QED BY <1>2, <2>3, <2>4 DEF SInv, Synced
<1> QED BY <1>3, <1>5, <1>6

LEMMA TickInvS == ASSUME SInv, Tick PROVE SInv'
<1>1. /\ Mailboxes /\ E!CInv /\ PlayersWatch /\ Synced
      /\ message_update /\ ToCaoi /\ UNCHANGED cvars /\ inbox' = inbox
  BY DEF SInv, Tick
<1>2. E!CInv' /\ PlayersWatch'
  BY <1>1, EngineFrame
<1>3. OBJ' = OBJ /\ object' = object /\ need_update' = FALSE
  BY <1>1 DEF message_update, cvars
<1>4. CASE need_update
  <2> DEFINE t == [cmd |-> "message"]
  <2>1. t \in Message /\ t \in Texts /\ out' = t
    BY <1>1, <1>4 DEF message_update, Message, Texts
  <2>2. t # <<>> /\ t \notin Update \cup Drop
    BY <2>1, TextKinds DEF Texts
  <2>3. toCaoi' = Append(toCaoi, t)
    BY <1>1, <2>1, <2>2 DEF ToCaoi
  <2> HIDE DEF t
  <2>4. Mailboxes'
    <3>1. toCaoi' \in Seq(Texts)
      BY <1>1, <2>1, <2>3, Posted DEF Mailboxes
    <3> QED BY <1>1, <1>3, <3>1 DEF Mailboxes
  <2>5. ASSUME NEW p \in Player
        PROVE  SyncedWith(p)'
    <3>1. ~About(t, p)
      BY <2>2 DEF About
    <3> QED BY <1>1, <1>3, <2>1, <2>3, <3>1, PostOther DEF Synced
  <2> QED BY <1>2, <2>4, <2>5 DEF SInv, Synced
<1>5. CASE ~need_update
  <2>1. toCaoi' = toCaoi /\ need_update' = need_update
    BY <1>1, <1>3, <1>5 DEF message_update, ToCaoi, Mailboxes
  <2>2. Mailboxes'
    BY <1>1, <1>3, <2>1 DEF Mailboxes
  <2>3. ASSUME NEW p \in Player
        PROVE  SyncedWith(p)'
    BY <1>1, <1>3, <2>1, Idle DEF Synced
  <2> QED BY <1>2, <2>2, <2>3 DEF SInv, Synced
<1> QED BY <1>4, <1>5

LEMMA AoiTextInv == ASSUME SInv, AoiText PROVE SInv'
<1>1. /\ Mailboxes /\ E!CInv /\ PlayersWatch /\ Synced
      /\ UNCHANGED cvars /\ toCaoi' = toCaoi /\ inbox # <<>> /\ inbox' = Tail(inbox)
      /\ OBJ' = OBJ /\ need_update' = need_update
  BY DEF SInv, AoiText, aoicallback
<1>2. E!CInv' /\ PlayersWatch'
  BY <1>1, EngineFrame
<1>3. Mailboxes'
  BY <1>1 DEF Mailboxes
<1>4. ASSUME NEW p \in Player
      PROVE  SyncedWith(p)'
  BY <1>1, Idle DEF Synced, cvars
<1> QED BY <1>2, <1>3, <1>4 DEF SInv, Synced

(* The callbacks of one aoi_message, in whatever order they arrive. *)
LEMMA InboxGrows ==
  ASSUME inbox \in Seq(Callback), NEW s \in SetToSeqs(called'),
         called' \subseteq Callback, inbox' = inbox \o s
  PROVE  inbox' \in Seq(Callback)
<1>1. IsFiniteSet(called')
  <2>1. called' \subseteq Id \X Id
    BY DEF Callback, Id
  <2>2. IsFiniteSet(Id \X Id)
    BY EngineAssumption, FS_Product
  <2> QED BY <2>1, <2>2, FS_Subset
<1>2. Cardinality(called') \in Nat
  BY <1>1, FS_CardinalityType
<1>3. s \in [1 .. Cardinality(called') -> called']
  BY DEF SetToSeqs
<1>4. s \in Seq(Callback)
  <2>1. s \in [1 .. Cardinality(called') -> Callback]
    BY <1>3
  <2>2. \A n \in Nat : [1 .. n -> Callback] \subseteq Seq(Callback)
    BY SeqDef
  <2> QED BY <1>2, <2>1, <2>2
<1> QED BY <1>4

LEMMA CaoiTextInv == ASSUME SInv, CaoiText PROVE SInv'
<1> DEFINE t == Head(toCaoi)
<1>1. /\ Mailboxes /\ E!CInv /\ PlayersWatch /\ Synced
      /\ toCaoi # <<>> /\ toCaoi' = Tail(toCaoi)
      /\ OBJ' = OBJ /\ need_update' = need_update
  BY DEF SInv, CaoiText, vars
<1>2. /\ t \in Texts /\ toCaoi' \in Seq(Texts)
  BY <1>1, Read DEF Mailboxes
<1>3. t \in Update \/ t \in Drop \/ t \in Message
  BY <1>2 DEF Texts
<1>4. CASE t \in Update
  <2>1. /\ t.cmd = "update" /\ t.id \in Id /\ t.pos \in Pos
        /\ t \notin Drop /\ t \notin Message
    BY <1>2, <1>4, TextKinds
  <2>2. C!aoi_update(t.id, Mode(t.id), Scaled(t.pos)) /\ inbox' = inbox
    BY <2>1 DEF CaoiText
  <2>3. /\ E!CInv'
        /\ \A k \in Id : k # t.id => object'[k] = object[k]
        /\ object'[t.id] # Nil
        /\ "drop" \notin object'[t.id].mode
        /\ object'[t.id].position = Scaled(t.pos)
        /\ "watcher" \in object'[t.id].mode => t.id \in Player
    BY <1>1, <2>1, <2>2, EngineUpdate
  <2>4. Mailboxes'
    BY <1>1, <1>2, <2>2 DEF Mailboxes
  <2>5. PlayersWatch'
    BY <1>1, <2>3 DEF PlayersWatch
  <2>6. ASSUME NEW p \in Player
        PROVE  SyncedWith(p)'
    <3>1. p \in Id /\ SyncedWith(p)
      BY <1>1 DEF Id, Synced
    <3>2. About(t, p) <=> p = t.id
      BY <1>4 DEF About
    <3> QED BY <1>1, <1>4, <2>1, <2>3, <3>1, <3>2, ReadText
  <2> QED BY <2>3, <2>4, <2>5, <2>6 DEF SInv, Synced
<1>5. CASE t \in Drop
  <2>1. t.cmd = "drop" /\ t.id \in Id /\ t \notin Update /\ t \notin Message
    BY <1>2, <1>5, TextKinds
  <2>2. C!aoi_drop(t.id) /\ inbox' = inbox
    BY <2>1 DEF CaoiText
  <2>3. /\ E!CInv'
        /\ \A k \in Id : k # t.id => object'[k] = object[k]
        /\ object'[t.id] # Nil => object'[t.id].mode = {"drop"}
    BY <1>1, <2>1, <2>2, EngineDrop
  <2>4. Mailboxes'
    BY <1>1, <1>2, <2>2 DEF Mailboxes
  <2>5. PlayersWatch'
    BY <1>1, <2>3 DEF PlayersWatch
  <2>6. ASSUME NEW p \in Player
        PROVE  SyncedWith(p)'
    <3>1. p \in Id /\ SyncedWith(p)
      BY <1>1 DEF Id, Synced
    <3>2. About(t, p) <=> p = t.id
      BY <1>5 DEF About
    <3> QED BY <1>1, <1>5, <2>1, <2>3, <3>1, <3>2, ReadText
  <2> QED BY <2>3, <2>4, <2>5, <2>6 DEF SInv, Synced
<1>6. CASE t \in Message
  <2>1. t.cmd = "message" /\ t \notin Update /\ t \notin Drop
    BY <1>2, <1>6, TextKinds
  <2>2. C!aoi_message /\ \E s \in SetToSeqs(called') : inbox' = inbox \o s
    BY <2>1 DEF CaoiText
  <2>3. /\ E!CInv'
        /\ \A k \in Id : object[k] = Nil => object'[k] = Nil
        /\ \A k \in Id : object[k] # Nil =>
             IF "drop" \in object[k].mode THEN object'[k] = Nil
             ELSE /\ object'[k] # Nil
                  /\ object'[k].position = object[k].position
                  /\ "drop" \notin object'[k].mode
                  /\ "watcher" \in object'[k].mode <=> "watcher" \in object[k].mode
        /\ \A c \in called' :
             /\ c \in Id \X Id /\ c[1] # c[2]
             /\ object[c[1]] # Nil /\ "watcher" \in object[c[1]].mode
    BY <1>1, <2>2, EngineMessage
  <2>4. called' \subseteq Callback
    BY <1>1, <2>3 DEF PlayersWatch, Callback
  <2>5. inbox' \in Seq(Callback)
    BY <1>1, <2>2, <2>4, InboxGrows DEF Mailboxes
  <2>6. Mailboxes'
    BY <1>1, <1>2, <2>5 DEF Mailboxes
  <2>7. PlayersWatch'
    BY <1>1, <2>3 DEF PlayersWatch
  <2>8. ASSUME NEW p \in Player
        PROVE  SyncedWith(p)'
    <3>1. p \in Id /\ SyncedWith(p)
      BY <1>1 DEF Id, Synced
    <3>2. ~About(t, p)
      BY <2>1 DEF About
    <3>3. /\ object[p] = Nil \/ "drop" \in object[p].mode => object'[p] = Nil
          /\ object[p] # Nil /\ "drop" \notin object[p].mode =>
               /\ object'[p] # Nil /\ "drop" \notin object'[p].mode
               /\ object'[p].position = object[p].position
      BY <2>3, <3>1
    <3> QED BY <1>1, <1>6, <2>1, <3>1, <3>2, <3>3, ReadText
  <2> QED BY <2>3, <2>6, <2>7, <2>8 DEF SInv, Synced
<1> QED BY <1>3, <1>4, <1>5, <1>6

LEMMA SceneStep == SInv /\ [SNext]_svars => SInv'
<1> SUFFICES ASSUME SInv, [SNext]_svars PROVE SInv'
  OBVIOUS
<1>1. CASE UNCHANGED svars
  <2>1. /\ Mailboxes /\ E!CInv /\ PlayersWatch /\ Synced
        /\ UNCHANGED <<OBJ, need_update, toCaoi, inbox, object>> /\ UNCHANGED cvars
    BY <1>1 DEF SInv, svars, cvars
  <2>2. E!CInv' /\ PlayersWatch'
    BY <2>1, EngineFrame
  <2>3. \A p \in Player : SyncedWith(p)'
    BY <2>1, Idle DEF Synced
  <2> QED BY <2>1, <2>2, <2>3 DEF SInv, Mailboxes, Synced
<1> QED BY <1>1, CommandInv, TickInvS, AoiTextInv, CaoiTextInv DEF SNext

(* The inductive invariant of the two services. *)
THEOREM SceneInvariant == SSpec => []SInv
BY SceneInit, SceneStep, PTL DEF SSpec

(* Once every text was read and no aoi_message is due, the engine holds    *)
(* exactly the players that are on the map, where they are: neither a      *)
(* departure nor a move is lost between aoi.lua and service_caoi.c.        *)
THEOREM EngineInSyncAlways == SSpec => []EngineInSync
<1>1. SInv => EngineInSync
  <2> SUFFICES ASSUME SInv, Settled, NEW p \in Player
               PROVE  IF OBJ[p] = Nil THEN object[p] = Nil
                      ELSE object[p] # Nil /\ object[p].position = Scaled(OBJ[p])
    BY DEF EngineInSync
  <2>1. toCaoi = <<>> /\ ~need_update
    BY DEF Settled
  <2>2. DOMAIN toCaoi = {}
    BY <2>1
  <2>3. EngineHolds(p)
    BY <2>2 DEF SInv, Synced, SyncedWith
  <2> QED BY <2>1, <2>2, <2>3 DEF EngineHolds, FlushAfter
<1> QED BY <1>1, SceneInvariant, PTL

(* Behind this engine aoi.lua does nothing but what Aoi allows: every      *)
(* callback it is handed names a player and another object, however late   *)
(* it arrives.  So what is proved of Aoi holds of the two services.        *)
THEOREM SceneImplementsAoi == SSpec => ImplementsAoi
<1>1. SInit => Init
  BY DEF SInit
<1>2. SInv /\ [SNext]_svars => [Next]_vars
  <2> SUFFICES ASSUME SInv, [SNext]_svars PROVE [Next]_vars
    OBVIOUS
  <2>1. CASE AgentCommand
    BY <2>1 DEF AgentCommand, Next
  <2>2. CASE Tick
    BY <2>2 DEF Tick, Next
  <2>3. CASE AoiText
    <3>1. Head(inbox) \in Callback
      BY <2>3 DEF SInv, Mailboxes, AoiText
    <3>2. Head(inbox)[1] \in Player /\ Head(inbox)[2] \in Id \ {Head(inbox)[1]}
      BY <3>1 DEF Callback
    <3> QED BY <2>3, <3>2 DEF AoiText, Next
  <2>4. CASE CaoiText
    BY <2>4 DEF CaoiText
  <2>5. CASE UNCHANGED svars
    BY <2>5 DEF svars, vars
  <2> QED BY <2>1, <2>2, <2>3, <2>4, <2>5 DEF SNext
<1> QED BY <1>1, <1>2, SceneInvariant, PTL DEF SSpec, ImplementsAoi, Spec

(* And the engine does nothing but what Caoi allows: aoi.lua only sends it *)
(* ids, modes and positions of the kind its results are proved for.        *)
THEOREM SceneRunsEngine == SSpec => C!Spec
<1>1. SInit => C!Init
  BY DEF SInit
<1>2. SInv /\ [SNext]_svars => [C!Next]_(C!vars)
  <2> SUFFICES ASSUME SInv, [SNext]_svars PROVE [C!Next]_(C!vars)
    OBVIOUS
  <2>1. CASE UNCHANGED cvars
    BY <2>1 DEF cvars, C!vars
  <2>2. CASE CaoiText
    <3> DEFINE t == Head(toCaoi)
    <3>1. t \in Texts
      BY <2>2, Read DEF SInv, Mailboxes, CaoiText
    <3>2. CASE t \in Update
      <4>1. /\ C!aoi_update(t.id, Mode(t.id), Scaled(t.pos))
            /\ t.id \in Id /\ t.pos \in Pos
        BY <2>2, <3>1, <3>2, TextKinds DEF CaoiText
      <4>2. Mode(t.id) \in {{"watcher", "marker"}, {"marker"}}
        BY DEF Mode
      <4> QED BY <4>1, <4>2 DEF C!Next
    <3>3. CASE t \in Drop
      BY <2>2, <3>1, <3>3, TextKinds DEF CaoiText, C!Next
    <3>4. CASE t \in Message
      BY <2>2, <3>1, <3>4, TextKinds DEF CaoiText, C!Next
    <3> QED BY <3>1, <3>2, <3>3, <3>4 DEF Texts
  <2> QED BY <2>1, <2>2 DEF SNext, AgentCommand, Tick, AoiText, svars, cvars
<1> QED BY <1>1, <1>2, SceneInvariant, PTL DEF SSpec, C!Spec

(* The views of aoi.lua with the engine behind it: no view table names     *)
(* something that is not on the map, players agree on who is in view, and  *)
(* a client shows no departed player, with the exception of overlapping    *)
(* logins that NoGhostPlayers makes.                                       *)
THEOREM SceneViews == SSpec => [](WatchedExist /\ PlayersAgree /\ NoGhostPlayers)
<1>1. SSpec => Spec
  BY SceneImplementsAoi DEF ImplementsAoi
<1> QED BY <1>1, WatchedExistAlways, PlayersAgreeAlways, NoGhostPlayersAlways, PTL
=============================================================================
