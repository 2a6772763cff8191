------------------------------- MODULE Waves --------------------------------
(***************************************************************************)
(* The waves of the survival mode: hta_survival_tick and rest of           *)
(* src/src/app/survival.c, with the units that players and enemies share   *)
(* (hta_game_add and hta_game_remove of src/src/game/game.c).              *)
(*                                                                         *)
(* Fighting is abstracted to who falls in it.  How many enemies a wave has *)
(* follows from its number and the players and is any number here; timers  *)
(* are over at any time.                                                   *)
(***************************************************************************)
EXTENDS Naturals, FiniteSets

CONSTANTS
    NumUnits,       \* HTA_GAME_MAX_UNITS
    MaxParty,       \* HTA_NET_MAX_PLAYERS, the players there can be
    MaxEnemies,     \* 8, the enemies alive at once
    MaxHorde        \* bound of the model: the enemies of a wave

ASSUME WavesAssumption ==
    /\ {NumUnits, MaxParty, MaxEnemies, MaxHorde} \subseteq Nat \ {0}
    /\ MaxParty + MaxEnemies <= NumUnits

VARIABLES
    phase,      \* mm_survival.phase
    queued,     \* enemies of the wave that have not come yet
    party,      \* the units of players (bound)
    horde,      \* the units of kind BOT
    alive       \* the units that live

waveVars == <<phase, queued, party, horde, alive>>

Units == 1..NumUnits
Phases == {"REST", "WAVE", "WIPE"}

WavesInit ==
    /\ phase = "REST" /\ queued = 0
    /\ party = {} /\ horde = {} /\ alive = {}

Free == Units \ (party \cup horde)
FirstFree(u) == u \in Free /\ \A v \in Free : u <= v

-----------------------------------------------------------------------------
(* Players come and go, and fall; hta_survival_event takes a slain enemy out. *)

(* Who joins a wave waits for its end. *)
Join(u) ==
    /\ Cardinality(party) < MaxParty
    /\ FirstFree(u)
    /\ party' = party \cup {u}
    /\ alive' = IF phase = "WAVE" THEN alive ELSE alive \cup {u}
    /\ UNCHANGED <<phase, queued, horde>>

Leave(u) ==
    /\ u \in party
    /\ party' = party \ {u} /\ alive' = alive \ {u}
    /\ UNCHANGED <<phase, queued, horde>>

Fall(u) ==
    /\ u \in party \cap alive
    /\ alive' = alive \ {u}
    /\ UNCHANGED <<phase, queued, party, horde>>

Slain(b) ==
    /\ b \in horde
    /\ horde' = horde \ {b} /\ alive' = alive \ {b}
    /\ UNCHANGED <<phase, queued, party>>

-----------------------------------------------------------------------------
(* hta_survival_tick.  With nobody there it does nothing. *)

Revived == party

(* The 8 s after a wipe are over. *)
Recover ==
    /\ phase = "WIPE" /\ party # {}
    /\ phase' = "REST" /\ alive' = Revived
    /\ UNCHANGED <<queued, party, horde>>

(* The wave that the tick finds or, the rest being over, begins: q enemies
   are still to come. *)
Fighting(q) ==
    /\ party # {}
    /\ \/ phase = "WAVE" /\ q = queued
       \/ phase = "REST" /\ q \in 1..MaxHorde

(* mutant: only a party that was there for the fight is defeated *)
DefeatedInFight ==
    /\ phase = "WAVE" /\ party # {} /\ party \cap alive = {} /\ horde # {}
    /\ phase' = "WIPE" /\ queued' = 0 /\ horde' = {} /\ alive' = {}
    /\ UNCHANGED party

(* mutant: the enemies of a lost wave stay on their units *)
DefeatedBodiesStay ==
    /\ \E q \in 0..MaxHorde : Fighting(q)
    /\ party \cap alive = {}
    /\ phase' = "WIPE" /\ queued' = 0 /\ alive' = {}
    /\ UNCHANGED <<party, horde>>

Defeated ==
    /\ \E q \in 0..MaxHorde : Fighting(q)
    /\ party \cap alive = {}
    /\ phase' = "WIPE" /\ queued' = 0
    /\ horde' = {} /\ alive' = {}
    /\ UNCHANGED party

Cleared ==
    /\ Fighting(0)
    /\ party \cap alive # {} /\ horde \cap alive = {}
    /\ phase' = "REST" /\ queued' = 0
    /\ horde' = {} /\ alive' = Revived
    /\ UNCHANGED party

RoomForEnemy == Cardinality(horde \cap alive) < MaxEnemies

Spawn(q) ==
    /\ Fighting(q) /\ q > 0 /\ party \cap alive # {}
    /\ RoomForEnemy
    /\ \E u \in Units :
          /\ FirstFree(u)
          /\ horde' = horde \cup {u} /\ alive' = alive \cup {u}
    /\ phase' = "WAVE" /\ queued' = q - 1
    /\ UNCHANGED party

Tick == Recover \/ Defeated \/ Cleared \/ \E q \in 1..MaxHorde : Spawn(q)

WavesNext ==
    \/ \E u \in Units : Join(u) \/ Leave(u) \/ Fall(u) \/ Slain(u)
    \/ Tick

WavesSpec == WavesInit /\ [][WavesNext]_waveVars

-----------------------------------------------------------------------------
(* Properties *)

(* Enemies are there in a wave only, all of them alive, and share no unit
   with a player. *)
WavesTypeOK ==
    /\ phase \in Phases /\ queued \in 0..MaxHorde
    /\ party \subseteq Units /\ horde \subseteq Units /\ party \cap horde = {}
    /\ horde \subseteq alive /\ alive \subseteq party \cup horde
    /\ phase # "WAVE" => horde = {} /\ queued = 0

(* What makes room, an inductive invariant (ProfilesProofs): neither side is
   more than its share of the pool. *)
WithinShares == Cardinality(party) <= MaxParty /\ Cardinality(horde) <= MaxEnemies
RoomInv == WavesTypeOK /\ WithinShares

(* Players and enemies draw on one pool of units: however many enemies have
   fought, there is a unit for the next player, and for the next enemy. *)
RoomForEveryone ==
    /\ Cardinality(party) < MaxParty => Free # {}
    /\ Cardinality(horde) < MaxEnemies => Free # {}
=============================================================================
