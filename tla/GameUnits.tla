------------------------------ MODULE GameUnits ------------------------------
(* The units of a game, hta_game.units of src/src/game/game.h: what every mode
   of play has in common. *)
EXTENDS Naturals

CONSTANT NumUnits       \* HTA_GAME_MAX_UNITS

ASSUME GameUnitsAssumption == NumUnits \in Nat \ {0}

Units == 0..NumUnits - 1
=============================================================================
