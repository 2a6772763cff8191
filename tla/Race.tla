-------------------------------- MODULE Race --------------------------------
(***************************************************************************)
(* The racing mode: the rules of src/src/game/race.c, driven by            *)
(* src/src/app/racing.c once a tick, with the units that host_net.c adds   *)
(* and removes as players come and go.                                     *)
(*                                                                         *)
(* A racer's slot is its unit's index.  Motion is abstracted to the gate a *)
(* car passes in a tick, which may be any gate or none, and to how far     *)
(* along it is towards the next one.  Times are counted in ticks.  A reset *)
(* to the recovery anchor and the wrong-way warning change neither.        *)
(* race.count only bounds loops over entries that are inactive beyond it.  *)
(***************************************************************************)
EXTENDS GameUnits, FiniteSets

CONSTANTS
    GridCount,      \* track.grid_count, at most HTA_RACE_MAX_RACERS
    GateCount, LapCount,
    HostPlays,      \* is unit 0 the host's own (me = 0), or the host headless (me = -1)?
    ReadyTime,      \* 8 s in READY with a racer on the grid
    CountdownTime,  \* 3 s
    ResultWait,     \* 30 s from the first finish
    ResultTime,     \* 8 s of RESULTS
    MaxProgress     \* bound of the model: steps told apart between two gates

ASSUME RaceAssumption ==
    /\ GridCount \in 1..NumUnits
    /\ HostPlays \in BOOLEAN
    /\ GateCount \in Nat \ {0, 1} /\ LapCount \in Nat \ {0}
    /\ {ReadyTime, CountdownTime, ResultWait, ResultTime} \subseteq Nat \ {0}
    /\ MaxProgress \in Nat

(* What a finisher scores in hta_race_position, 100000 less 100 for each place, is
   more than any sum of laps and gates: a track has at most 9 laps, 32 gates and 8
   grid places. *)
ASSUME ScoreAssumption == (MaxProgress + 1) * (LapCount * GateCount) <= 100000 - 100 * GridCount

VARIABLES
    unit,           \* the units that exist (kind LOCAL or REMOTE)
    racer,          \* hta_race.racer
    racePhase,      \* hta_race.phase
    finishedCount, finishOrderNext,
    timer,          \* ticks left of the countdown, or ticks of READY or RESULTS so far
    resultWait      \* ticks left until result_wait

raceVars == <<unit, racer, racePhase, finishedCount, finishOrderNext, timer, resultWait>>

Grid == 0..GridCount - 1
Gates == 0..GateCount - 1
RacePhases == {"READY", "COUNTDOWN", "GO", "RESULTS"}

Racers == [active : BOOLEAN, finished : BOOLEAN, lap : 1..LapCount, nextGate : Gates,
           order : 0..GridCount, progress : 0..MaxProgress]

NewRacer == [active |-> TRUE, finished |-> FALSE, lap |-> 1, nextGate |-> 1,
             order |-> 0, progress |-> 0]
NoRacer == [NewRacer EXCEPT !.active = FALSE]

Active == {i \in Grid : racer[i].active}
Driving == {i \in Active : ~racer[i].finished}

RaceInit ==
    /\ unit = IF HostPlays THEN {0} ELSE {}
    /\ racer = [i \in Grid |-> IF i \in unit THEN NewRacer ELSE NoRacer]
    /\ racePhase = "READY"
    /\ finishedCount = 0 /\ finishOrderNext = 0
    /\ timer = 0 /\ resultWait = 0

-----------------------------------------------------------------------------
(* Players come and go: hta_host_peers, hta_race_join, hta_race_leave *)

MayJoin(i) == i \in Grid /\ racePhase \in {"READY", "COUNTDOWN"} /\ ~racer[i].active

Join(i) ==
    /\ i \in Units \ unit /\ \A j \in Units : j < i => j \in unit
    /\ unit' = unit \cup {i}
    /\ IF MayJoin(i)
       THEN racer' = [racer EXCEPT ![i] = NewRacer]
       ELSE UNCHANGED racer
    /\ UNCHANGED <<racePhase, finishedCount, finishOrderNext, timer, resultWait>>

(* mutants: the place of a finisher who leaves stays counted; whoever leaves
   counts as a finisher; the entry of the leaver stays *)
CountAfterLeaveKept(i) == finishedCount
CountAfterAnyLeave(i) == finishedCount - 1
EntryAfterLeaveKept(i) == [racer EXCEPT ![i].lap = 1]

CountAfterLeave(i) ==
    IF racer[i].finished /\ finishedCount > 0 THEN finishedCount - 1 ELSE finishedCount

EntryAfterLeave(i) == [racer EXCEPT ![i].active = FALSE]

Leave(i) ==
    /\ i \in unit /\ ~(HostPlays /\ i = 0)
    /\ unit' = unit \ {i}
    /\ IF i \in Grid /\ racer[i].active
       THEN finishedCount' = CountAfterLeave(i) /\ racer' = EntryAfterLeave(i)
       ELSE UNCHANGED <<finishedCount, racer>>
    /\ UNCHANGED <<racePhase, finishOrderNext, timer, resultWait>>

-----------------------------------------------------------------------------
(* hta_race_advance, for every racer that drives *)

Advances(i, gate) == gate = racer[i].nextGate
Finishes(i, gate) == Advances(i, gate) /\ racer[i].nextGate = 0 /\ racer[i].lap = LapCount

(* mutant: all who finish in one tick are given the same place *)
PlaceShared(i, finishing) == finishOrderNext + 1

(* The tick advances the racers by slot. *)
Place(i, finishing) == finishOrderNext + Cardinality({j \in finishing : j <= i})

Advanced(i, finishing) ==
    LET e == [racer[i] EXCEPT !.nextGate = (@ + 1) % GateCount] IN
    IF i \in finishing THEN [e EXCEPT !.finished = TRUE, !.order = Place(i, finishing)]
    ELSE IF e.nextGate = 1 THEN [e EXCEPT !.lap = @ + 1]
    ELSE e

(* at[i] is the gate that racer i passes forwards, GateCount for none. *)
Drive ==
    \E at \in [Driving -> 0..GateCount], along \in [Driving -> 0..MaxProgress] :
        LET finishing == {i \in Driving : Finishes(i, at[i])} IN
        /\ racer' = [i \in Grid |->
              IF i \notin Driving THEN racer[i]
              ELSE [(IF Advances(i, at[i]) THEN Advanced(i, finishing) ELSE racer[i])
                        EXCEPT !.progress = along[i]]]
        /\ finishOrderNext' = finishOrderNext + Cardinality(finishing)
        /\ finishedCount' = finishedCount + Cardinality(finishing)
        /\ resultWait' = IF finishedCount = 0 /\ finishing # {} THEN ResultWait
                         ELSE IF resultWait > 0 THEN resultWait - 1 ELSE 0

-----------------------------------------------------------------------------
(* hta_racing_tick, by the phase it finds *)

Starts == racePhase = "READY" /\ Active # {} /\ timer + 1 >= ReadyTime

WaitForRacers ==
    /\ racePhase = "READY" /\ ~Starts
    /\ timer' = IF Active # {} THEN timer + 1 ELSE timer
    /\ UNCHANGED <<unit, racer, racePhase, finishedCount, finishOrderNext, resultWait>>

CountDown ==
    /\ Starts \/ racePhase = "COUNTDOWN"
    /\ LET left == (IF Starts THEN CountdownTime ELSE timer) - 1 IN
       IF left > 0
       THEN /\ racePhase' = "COUNTDOWN" /\ timer' = left
            /\ UNCHANGED <<racer, finishedCount, finishOrderNext, resultWait>>
       ELSE racePhase' = "GO" /\ timer' = 0 /\ Drive
    /\ UNCHANGED unit

(* mutant: the race waits for everybody *)
RaceOverForAll == Active # {} /\ finishedCount = Cardinality(Active)

RaceOver ==
    \/ Active # {} /\ finishedCount = Cardinality(Active)
    \/ finishedCount > 0 /\ resultWait <= 1

Go ==
    /\ racePhase = "GO" /\ ~RaceOver
    /\ Drive
    /\ UNCHANGED <<unit, racePhase, timer>>

(* mutant: the next race is for those who raced the last *)
RacesAgainOnly(i) == i \in unit /\ racer[i].active

RacesNext(i) == i \in unit

(* hta_racing_reset: everybody present who fits on the grid *)
Reset ==
    /\ racer' = [i \in Grid |-> IF RacesNext(i) THEN NewRacer ELSE NoRacer]
    /\ racePhase' = "READY" /\ timer' = 0 /\ resultWait' = 0
    /\ finishedCount' = 0 /\ finishOrderNext' = 0

Results ==
    /\ racePhase = "RESULTS" \/ (racePhase = "GO" /\ RaceOver)
    /\ IF timer + 1 >= ResultTime
       THEN Reset
       ELSE /\ racePhase' = "RESULTS" /\ timer' = timer + 1
            /\ resultWait' = 0
            /\ UNCHANGED <<racer, finishedCount, finishOrderNext>>
    /\ UNCHANGED unit

RaceTick == WaitForRacers \/ CountDown \/ Go \/ Results

RaceNext == RaceTick \/ \E i \in Units : Join(i) \/ Leave(i)

RaceSpec == RaceInit /\ [][RaceNext]_raceVars

-----------------------------------------------------------------------------
(* hta_race_position *)

Score(i) ==
    IF racer[i].finished
    THEN 100000 - racer[i].order * 100
    ELSE (MaxProgress + 1) * ((racer[i].lap - 1) * GateCount
                              + ((racer[i].nextGate + GateCount - 1) % GateCount))
         + racer[i].progress

(* mutant: racers level with each other share a place *)
AheadWithoutTies(j, i) == Score(j) > Score(i)

Ahead(j, i) == Score(j) > Score(i) \/ (Score(j) = Score(i) /\ j < i)
Position(i) == 1 + Cardinality({j \in Active \ {i} : Ahead(j, i)})

-----------------------------------------------------------------------------
(* Properties *)

RaceTypeOK ==
    /\ unit \subseteq Units
    /\ racer \in [Grid -> Racers]
    /\ racePhase \in RacePhases
    /\ finishedCount \in 0..GridCount /\ finishOrderNext \in 0..GridCount
    /\ timer \in 0..ReadyTime + CountdownTime + ResultTime
    /\ resultWait \in 0..ResultWait

(* What ends a race, finished_count, is the number of finishers still here,
   though they leave after the finish and others take their places. *)
FinishersCounted == finishedCount = Cardinality({i \in Active : racer[i].finished})

(* No two finishers are given one place, and none a place not yet given out. *)
PlacesUnique ==
    \A i, j \in Active : racer[i].finished /\ racer[j].finished =>
        /\ racer[i].order \in 1..finishOrderNext
        /\ racer[i].order = racer[j].order => i = j

(* Places and standings are a ranking: every racer has a position of its own, 1 to
   the number of racers, and finishers come first, in the order of their places,
   whoever left after the finish or finished in the same tick. *)
StandingsAreARanking ==
    /\ PlacesUnique
    /\ {Position(i) : i \in Active} = 1..Cardinality(Active)
    /\ \A i, j \in Active : racer[i].finished /\ Position(j) < Position(i) =>
           racer[j].finished /\ racer[j].order < racer[i].order

(* No kart without a driver, ever; before the start no driver without a kart,
   whenever in the last race the driver came. *)
KartsMatchDrivers ==
    /\ Active \subseteq unit
    /\ racePhase \in {"READY", "COUNTDOWN"} => unit \cap Grid = Active

-----------------------------------------------------------------------------
(* The session ticks.  Nobody need pass a gate: a tick of GO that neither ends the
   race nor brings result_wait nearer may change nothing.  In RacersDrive everybody
   who stays in the race passes the next gate sometime. *)

TicksOn == (racePhase = "GO" => RaceOver \/ resultWait > 0) /\ RaceTick

RaceFairness == WF_raceVars(TicksOn)

PassesNextGate(i) ==
    /\ RaceTick /\ i \in Driving /\ racePhase' = "GO" /\ racer'[i].nextGate # racer[i].nextGate
RacersDrive == \A i \in Grid : WF_raceVars(PassesNextGate(i))

RaceFairSpec == RaceSpec /\ RaceFairness
DrivenSpec == RaceFairSpec /\ RacersDrive

(* One finisher ends the race, however long the others stand still, unless it
   leaves. *)
FinishEndsRace == []<>(racePhase # "GO" \/ finishedCount = 0)

(* "Later peers spectate until the next round" (docs/RACING.md:17): a peer who
   came after GO and stays on a grid place races in the end. *)
SpectatorRaces ==
    \A i \in Grid : i \in unit /\ ~racer[i].active ~> i \notin unit \/ racer[i].active
=============================================================================
