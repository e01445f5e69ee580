------------------------------- MODULE Scene -------------------------------
(***************************************************************************)
(* The AOI service and the AOI engine together: aoi.lua sends "update" and *)
(* "message" texts to caoi, caoi answers each arrival with an              *)
(* "aoicallback" text.  Both directions are the mailboxes of skynet        *)
(* services, so they are FIFO, lossless and asynchronous: a callback may   *)
(* be answered by a map that has changed since.                            *)
(***************************************************************************)
EXTENDS Aoi, Sequences, SequencesExt

CONSTANTS
  CaoiRadius,   \* AOI_RADIS of service_caoi.c: 40, that is 400 world units
  MaxCommands   \* bound on the enter and leave commands of agents and monsters

ASSUME SceneAssumption == CaoiRadius \in Nat \ {0} /\ MaxCommands \in Nat

VARIABLES
  object, hot, called,   \* the engine
  toCaoi,       \* caoi's mailbox
  inbox,        \* the callbacks in aoi's mailbox
  commands      \* commands so far

cvars == <<object, hot, called>>
svars == <<OBJ, agent, playerview, monsterview, need_update, sent, out, shown, stale,
           object, hot, called, toCaoi, inbox, commands>>

(* enter sends floor(x / 10) of its coordinates. *)
Scaled(pos) == <<pos[1] \div 10, pos[2] \div 10, pos[3] \div 10>>

(* Mutant: monsters register as watchers, too. *)
ModeAlwaysBoth(id) == {"watcher", "marker"}

(* movement.mode of agents ("wm") and monsters ("m"). *)
Mode(id) == IF id \in Player THEN {"watcher", "marker"} ELSE {"marker"}

C == INSTANCE Caoi WITH
       Pos <- {Scaled(p) : p \in Pos}, Radius <- CaoiRadius,
       ModeStrings <- {{"watcher", "marker"}, {"marker"}},
       MaxVersion <- MaxCommands

(* What the engine asks of its ids and positions. *)
ASSUME EngineAssumption ==
  IsFiniteSet(Id) /\ Pos # {} /\ Nil \notin C!Object

-----------------------------------------------------------------------------
ToCaoi == toCaoi' = IF out' = <<>> THEN toCaoi ELSE Append(toCaoi, out')

AgentCommand ==
  /\ commands < MaxCommands
  /\ commands' = commands + 1
  /\ Command
  /\ ToCaoi
  /\ UNCHANGED <<cvars, inbox>>

Tick ==
  /\ message_update
  /\ ToCaoi
  /\ UNCHANGED <<cvars, inbox, commands>>

AoiText ==
  /\ inbox # <<>>
  /\ aoicallback(Head(inbox)[1], Head(inbox)[2])
  /\ inbox' = Tail(inbox)
  /\ UNCHANGED <<cvars, toCaoi, commands>>

(* _ctrl: the engine reads one text.  The order of the callbacks of one    *)
(* aoi_message depends on hash slots and is left open.                     *)
CaoiText ==
  /\ toCaoi # <<>>
  /\ toCaoi' = Tail(toCaoi)
  /\ LET t == Head(toCaoi)
     IN  \/ /\ t.cmd = "update"
            /\ C!aoi_update(t.id, Mode(t.id), Scaled(t.pos))
            /\ UNCHANGED inbox
         \/ /\ t.cmd = "drop"
            /\ C!aoi_drop(t.id)
            /\ UNCHANGED inbox
         \/ /\ t.cmd = "message"
            /\ C!aoi_message
            /\ \E s \in SetToSeqs(called') : inbox' = inbox \o s
  /\ UNCHANGED <<vars, commands>>

SInit == Init /\ C!Init /\ toCaoi = <<>> /\ inbox = <<>> /\ commands = 0

SNext == AgentCommand \/ Tick \/ AoiText \/ CaoiText

SSpec == SInit /\ [][SNext]_svars

(* Services are scheduled and the timer keeps firing; agents and monsters  *)
(* may stop at any time.                                                   *)
SFairSpec == SSpec /\ WF_svars(Tick) /\ WF_svars(AoiText) /\ WF_svars(CaoiText)

-----------------------------------------------------------------------------
Settled == toCaoi = <<>> /\ inbox = <<>> /\ ~need_update

(* With this engine behind it, aoi.lua does nothing but what Aoi allows: a *)
(* callback only ever names a player as the watcher and two distinct       *)
(* objects, however late it arrives.                                       *)
ImplementsAoi == Spec

(* Once all texts are read the engine holds exactly the players that are   *)
(* on the map, where they are.                                             *)
EngineInSync ==
  Settled =>
    \A p \in Player :
      IF OBJ[p] = Nil THEN object[p] = Nil
      ELSE object[p] # Nil /\ object[p].position = Scaled(OBJ[p])

(* Departures are cleaned up in both services: whenever the engine holds   *)
(* an object that left the map, there is a later moment at which it holds  *)
(* none (agents pause, as MaxCommands makes them).                         *)
Departed(k) == OBJ[k] = Nil /\ object[k] # Nil
EventuallyFreed == (\E k \in Id : Departed(k)) ~> (\A k \in Id : ~Departed(k))
=============================================================================
