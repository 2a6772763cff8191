------------------------------- MODULE MCModes -------------------------------
(* The rules of two modes of play side by side: a host plays one of them, and the
   first state says which.  The other's variables stay as they are. *)
EXTENDS Race, TeamGame

VARIABLE plays

modesVars == <<plays, raceVars, teamVars>>

ModesInit ==
    /\ plays \in {"race", "teams"}
    /\ RaceInit /\ TeamInit
    /\ plays = "race" => mode = "CTF" /\ Present = {}

RaceStep == plays = "race" /\ RaceNext /\ UNCHANGED <<plays, teamVars>>
TeamStep == plays = "teams" /\ TeamNext /\ UNCHANGED <<plays, raceVars>>

(* Both modes' states are well formed. *)
ModesTypeOK == plays \in {"race", "teams"} /\ RaceTypeOK /\ RulesTypeOK

(* With the fairness of each. *)
ModesSpec ==
    /\ ModesInit /\ [][RaceStep \/ TeamStep]_modesVars
    /\ WF_modesVars(plays = "race" /\ TicksOn /\ UNCHANGED <<plays, teamVars>>)
    /\ WF_modesVars(plays = "teams" /\ TickStep /\ UNCHANGED <<plays, raceVars>>)
=============================================================================
