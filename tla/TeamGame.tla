------------------------------ MODULE TeamGame ------------------------------
(***************************************************************************)
(* The team modes' rules in src/src/game/game.c, Capture the Flag and Team *)
(* Slayer, as src/src/app/session_tick.c drives them on the host: an       *)
(* update of the game unit by unit (hta_game_update), the end of a game    *)
(* and the next one (hta_game_start), then the joiners' coming, going and  *)
(* choosing (hta_host_peers).                                              *)
(*                                                                         *)
(* One vehicle with a driver's seat and a rider's.  Where units stand, how *)
(* fast the vehicle is and whose shots hit is any; who is dying has no     *)
(* health left and is noticed at the update's end.  A killer is anybody or *)
(* nobody.  The vehicle's physics and what is not a flag are left out.     *)
(***************************************************************************)
EXTENDS GameUnits, Integers, FiniteSets

CONSTANTS
    Modes,          \* of "CTF" and "SLAYER"
    MaxPlayers,     \* HTA_NET_MAX_PLAYERS: the units that peers and the host take
    Classes,        \* g->classes: joiners pick a class and a team first
    ScoreLimit,     \* g->score_limit
    Postgame,       \* HTA_POSTGAME, in ticks
    FlagReset,      \* HTA_FLAG_RESET, in ticks
    WreckTime,      \* HTA_VEHICLE_WRECK_TIME, in ticks
    HasCar,         \* is there a vehicle?
    MinScore        \* bound: team scores are not counted below -MinScore

ASSUME TeamGameAssumption ==
    /\ {Classes, HasCar} \subseteq BOOLEAN
    /\ Modes \subseteq {"CTF", "SLAYER"}
    /\ {ScoreLimit, Postgame, FlagReset, WreckTime} \subseteq Nat \ {0}
    /\ MaxPlayers \in Nat /\ MinScore \in Nat

VARIABLES
    mode,       \* g->mode
    step,       \* which part of the tick the host is in
    visit,      \* the unit a loop over the units comes to next
    kind,       \* of each unit
    team,       \* of each unit
    alive, dying,   \* the units that live, and those of them without health
    due,        \* the dead whose respawn is not above 0
    ready,      \* the joiners' units whose class is chosen (peer_ready)
    holds,      \* unit.flag
    flag,       \* both flags: where they are, who carries them, how long they lie
    ride,       \* unit.vehicle and unit.seat
    occupant,   \* of the vehicle's seats
    carActive, wreck,
    score, over, winner,
    told,       \* the GAME_OVER event is in the ring
    overTimer

units == <<kind, team, alive, dying, due, ready>>
flags == <<holds, flag>>
car == <<ride, occupant, carActive, wreck>>
game == <<score, over, winner, told, overTimer>>
teamVars == <<mode, step, visit, units, flags, car, game>>

Teams == {0, 1}
Seats == {"driver", "rider"}
NoUnit == -1
NoFlag == -1
Nobody == -1
Home == [state |-> "home", carrier |-> NoUnit, idle |-> 0]
Lying == [Home EXCEPT !.state = "dropped"]
CarriedBy(u) == [state |-> "carried", carrier |-> u, idle |-> 0]

Present == {u \in Units : kind[u] # "none"}

TeamInit ==
    /\ mode \in Modes /\ step = "frame" /\ visit = 0
    /\ \E hostPlays \in BOOLEAN :
          kind = [u \in Units |-> IF hostPlays /\ u = 0 THEN "local" ELSE "none"]
    /\ team = [u \in Units |-> 0]
    /\ alive = Present /\ dying = {} /\ due = {} /\ ready = {}
    /\ holds = [u \in Units |-> NoFlag] /\ flag = [t \in Teams |-> Home]
    /\ ride = [u \in Units |-> "foot"] /\ occupant = [s \in Seats |-> NoUnit]
    /\ carActive = HasCar /\ wreck = 0
    /\ score = [t \in Teams |-> 0] /\ over = FALSE /\ winner = Nobody
    /\ told = FALSE /\ overTimer = 0

-----------------------------------------------------------------------------
(* What several handlers call *)

(* hta_game_unseat *)
Unseat(u) ==
    /\ ride' = [ride EXCEPT ![u] = "foot"]
    /\ occupant' = [s \in Seats |-> IF occupant[s] = u THEN NoUnit ELSE occupant[s]]
    /\ UNCHANGED <<carActive, wreck>>

(* mutant: the flag stays with who is gone *)
DropNothing(u) == UNCHANGED flags

(* drop_flag *)
DropFlag(u) ==
    IF holds[u] = NoFlag THEN UNCHANGED flags
    ELSE /\ holds' = [holds EXCEPT ![u] = NoFlag]
         /\ flag' = [flag EXCEPT ![holds[u]] = Lying]

(* spawn_unit and hta_game_revive *)
Spawn(u) ==
    /\ alive' = alive \cup {u} /\ dying' = dying \ {u}
    /\ holds' = [holds EXCEPT ![u] = NoFlag] /\ UNCHANGED flag
    /\ Unseat(u)

Plus(n, d) == IF n + d < -MinScore THEN -MinScore ELSE n + d

(* Scores become s; team t has scored: is that the game? *)
Scored(s, t) ==
    /\ score' = s
    /\ IF ~over /\ s[t] >= ScoreLimit
       THEN over' = TRUE /\ winner' = t /\ told' = TRUE
       ELSE UNCHANGED <<over, winner, told>>
    /\ UNCHANGED overTimer

GoTo(next) == step' = next /\ visit' = 0 /\ UNCHANGED mode
OnFrom(u) == visit' = u + 1 /\ UNCHANGED <<mode, step>>
At(part, u) == step = part /\ visit = u /\ u \in Units

-----------------------------------------------------------------------------
(* hta_game_update: the clock, then every unit in turn *)

(* hulls_tick *)
HullsTick ==
    /\ wreck' = IF wreck > 0 THEN wreck - 1 ELSE 0
    /\ carActive' = (carActive \/ wreck = 1)
    /\ UNCHANGED <<ride, occupant>>

Leader == IF score[0] > score[1] THEN 0 ELSE IF score[1] > score[0] THEN 1 ELSE Nobody

Begin ==
    /\ step = "frame"
    /\ GoTo("units")
    /\ HullsTick
    /\ \/ UNCHANGED game
       \/ /\ ~over        \* out of time
          /\ over' = TRUE /\ winner' = Leader /\ told' = TRUE
          /\ UNCHANGED <<score, overTimer>>
    /\ UNCHANGED <<units, flags>>

(* hta_game_seat_near, seat_open and hostile_car *)
MayBoard(u, s) ==
    /\ carActive /\ ride[u] = "foot" /\ holds[u] = NoFlag
    /\ occupant[s] = NoUnit /\ (s = "rider" => occupant["driver"] # NoUnit)
    /\ \A r \in Seats : occupant[r] # NoUnit => team[occupant[r]] = team[u]

Board(u) ==
    \E s \in Seats :
        /\ MayBoard(u, s)
        /\ ride' = [ride EXCEPT ![u] = s] /\ occupant' = [occupant EXCEPT ![s] = u]
        /\ UNCHANGED <<carActive, wreck>>

GetOut(u) == ride[u] # "foot" /\ Unseat(u)

VisitDead(u) ==
    /\ At("units", u) /\ u \in Present \ alive
    /\ OnFrom(u)
    /\ \/ /\ kind[u] = "remote" /\ ~over
          /\ Spawn(u) /\ due' = due \ {u} /\ UNCHANGED <<kind, team, ready>>
       \/ /\ u \notin due \/ over \/ kind[u] # "remote"
          /\ UNCHANGED <<units, flags, car>>
    /\ UNCHANGED game

VisitAlive(u) ==
    /\ At("units", u) /\ u \in alive
    /\ OnFrom(u)
    /\ \/ UNCHANGED <<flags, car>>
       \/ ~over /\ (Board(u) \/ GetOut(u)) /\ UNCHANGED flags
       \/ kind[u] = "remote" /\ ride[u] = "foot" /\ DropFlag(u) /\ UNCHANGED car
    /\ UNCHANGED <<units, game>>

SkipNobody(u) ==
    /\ At("units", u) /\ u \notin Present
    /\ OnFrom(u) /\ UNCHANGED <<units, flags, car, game>>

(* Shots, blasts, wheels and falls: nobody is hurt after the game but by a fall. *)
Hurt(u) ==
    /\ step = "units" /\ u \in alive \ dying
    /\ ~over \/ ride[u] = "foot"
    /\ dying' = dying \cup {u}
    /\ UNCHANGED <<mode, step, visit, kind, team, alive, due, ready, flags, car, game>>

Riders == {u \in Units : ride[u] # "foot"}

(* mutant: the riders are hurt but keep their seats *)
RidersStay == UNCHANGED <<ride, occupant>>

RidersOut ==
    /\ ride' = [u \in Units |-> "foot"]
    /\ occupant' = [s \in Seats |-> NoUnit]

(* wreck: nobody rides out of that *)
Wreck ==
    /\ step = "units" /\ carActive /\ ~over
    /\ carActive' = FALSE /\ wreck' = WreckTime
    /\ dying' = dying \cup Riders /\ RidersOut
    /\ UNCHANGED <<mode, step, visit, kind, team, alive, due, ready, flags, game>>

-----------------------------------------------------------------------------
(* flags_update *)

LostWithoutDrop(t) ==
    LET c == flag[t].carrier IN
    flag[t].state = "carried" /\ (c \notin alive \/ holds[c] # t)

(* mutant: a flag left lying stays *)
LiesForEver(t) == LostWithoutDrop(t)

Returns(t) == LostWithoutDrop(t) \/ (flag[t].state = "dropped" /\ flag[t].idle + 1 >= FlagReset)

FlagsAge ==
    /\ step = "units" /\ visit = NumUnits
    /\ step' = IF mode = "CTF" /\ ~over THEN "touch" ELSE "deaths"
    /\ visit' = 0
    /\ \E outside \in SUBSET {t \in Teams : flag[t].state = "dropped"} :
          LET back == IF mode = "CTF" THEN {t \in Teams : Returns(t)} \cup outside ELSE {} IN
          /\ flag' = [t \in Teams |->
                IF t \in back THEN Home
                ELSE IF flag[t].state = "dropped" THEN [flag[t] EXCEPT !.idle = @ + 1]
                ELSE flag[t]]
          /\ holds' = [u \in Units |->
                IF \E t \in back : flag[t].carrier = u THEN NoFlag ELSE holds[u]]
    /\ UNCHANGED <<mode, units, car, game>>

Enemy(u) == 1 - team[u]

(* What a unit may touch at once: the stands are apart. *)
Reach(u) ==
    {near \in SUBSET {"theirs", "ours", "stand"} :
        ~({"theirs", "stand"} \subseteq near /\ flag[Enemy(u)].state = "home")}

(* mutant: our flag need not be home *)
ScoresAnyway(u, held, near) == held # NoFlag /\ "stand" \in near

(* Home with theirs while ours is on its stand. *)
Captures(u, held, near) ==
    LET ours == flag[team[u]].state IN
    /\ held # NoFlag /\ "stand" \in near
    /\ ours = "home" \/ (ours = "dropped" /\ "ours" \in near)

Takes(u, near) ==
    "theirs" \in near /\ flag[Enemy(u)].state # "carried" /\ holds[u] = NoFlag

Touches(u) ==
    \E near \in Reach(u) :
        LET held == IF Takes(u, near) THEN Enemy(u) ELSE holds[u]
            captures == Captures(u, held, near) IN
        /\ flag' = [t \in Teams |->
              IF captures /\ t = held THEN Home
              ELSE IF Takes(u, near) /\ t = Enemy(u) THEN CarriedBy(u)
              ELSE IF t = team[u] /\ "ours" \in near /\ flag[t].state = "dropped" THEN Home
              ELSE flag[t]]
        /\ holds' = [holds EXCEPT ![u] = IF captures THEN NoFlag ELSE held]
        /\ IF captures THEN Scored([score EXCEPT ![team[u]] = @ + 1], team[u]) ELSE UNCHANGED game

Touch(u) ==
    /\ At("touch", u)
    /\ OnFrom(u)
    /\ IF u \in alive /\ ride[u] = "foot" THEN Touches(u) ELSE UNCHANGED <<flags, game>>
    /\ UNCHANGED <<units, car>>

EndTouch ==
    /\ step = "touch" /\ visit = NumUnits
    /\ GoTo("deaths")
    /\ UNCHANGED <<units, flags, car, game>>

-----------------------------------------------------------------------------
(* die *)

(* Who is killed or betrayed by k, or by nobody there, scores for the teams. *)
ScoreOfDeath(u, k) ==
    LET blamed == k \in Present \ {u} IN
    IF mode # "SLAYER" THEN score
    ELSE IF blamed /\ team[k] # team[u] THEN [score EXCEPT ![team[k]] = @ + 1]
    ELSE IF blamed THEN [score EXCEPT ![team[k]] = Plus(@, -1)]
    ELSE [score EXCEPT ![team[u]] = Plus(@, -1)]

Die(u) ==
    /\ At("deaths", u) /\ u \in dying
    /\ OnFrom(u)
    /\ Unseat(u) /\ DropFlag(u)
    /\ alive' = alive \ {u} /\ dying' = dying \ {u} /\ due' = due \ {u}
    /\ \E k \in Units \cup {NoUnit} :
          LET s == ScoreOfDeath(u, k) IN
          IF k # NoUnit /\ mode = "SLAYER" THEN Scored(s, team[k])
          ELSE score' = s /\ UNCHANGED <<over, winner, told, overTimer>>
    /\ UNCHANGED <<kind, team, ready>>

LivesOn(u) ==
    /\ At("deaths", u) /\ u \notin dying
    /\ OnFrom(u) /\ UNCHANGED <<units, flags, car, game>>

-----------------------------------------------------------------------------
(* hta_session_tick after the update *)

(* hta_game_start; the wrecks are forgotten, not the car put back. *)
Start ==
    /\ over' = FALSE /\ winner' = Nobody /\ told' = FALSE /\ overTimer' = 0
    /\ score' = [t \in Teams |-> 0]
    /\ flag' = [t \in Teams |-> Home] /\ holds' = [u \in Units |-> NoFlag]
    /\ alive' = Present /\ dying' = {} /\ due' = {}
    /\ ride' = [u \in Units |-> "foot"] /\ occupant' = [s \in Seats |-> NoUnit]
    /\ wreck' = 0
    /\ UNCHANGED <<kind, team, ready, carActive>>

(* mutant: the wait is set for a game in Capture the Flag only *)
TimeOverOfFlags == IF told /\ mode = "CTF" THEN Postgame ELSE overTimer

(* mutant: the wait is set for as long as the game is over *)
TimeOverAnew == IF over THEN Postgame ELSE overTimer

TimeOver == IF told THEN Postgame ELSE overTimer

Session ==
    /\ step = "deaths" /\ visit = NumUnits
    /\ GoTo("peers")
    /\ IF TimeOver = 1 THEN Start
       ELSE /\ told' = FALSE /\ overTimer' = IF TimeOver > 0 THEN TimeOver - 1 ELSE 0
            /\ UNCHANGED <<units, flags, car, score, over, winner>>

-----------------------------------------------------------------------------
(* hta_host_peers, in any order of the slots *)

Smaller ==
    LET N(t) == Cardinality({u \in Present : team[u] = t}) IN
    IF N(1) < N(0) THEN 1 ELSE 0

Enter(u) ==
    /\ step = "peers" /\ Cardinality(Present) < MaxPlayers
    /\ u \notin Present /\ \A v \in Units : v < u => v \in Present
    /\ kind' = [kind EXCEPT ![u] = "remote"] /\ team' = [team EXCEPT ![u] = Smaller]
    /\ ready' = ready \ {u}
    /\ alive' = IF Classes THEN alive ELSE alive \cup {u}
    /\ due' = IF Classes THEN due \cup {u} ELSE due
    /\ UNCHANGED <<mode, step, visit, dying, flags, car, game>>

(* hta_game_remove *)
Quit(u) ==
    /\ step = "peers" /\ kind[u] = "remote"
    /\ Unseat(u) /\ DropFlag(u)
    /\ kind' = [kind EXCEPT ![u] = "none"]
    /\ alive' = alive \ {u} /\ dying' = dying \ {u} /\ due' = due \ {u}
    /\ UNCHANGED <<mode, step, visit, team, ready, game>>

Undecided(u) == Classes /\ kind[u] = "remote" /\ u \notin ready

(* Its controls come, but not its choice. *)
KeptOut(u) ==
    /\ step = "peers" /\ Undecided(u) /\ u \in due
    /\ due' = due \ {u}
    /\ UNCHANGED <<mode, step, visit, kind, team, alive, dying, ready, flags, car, game>>

(* It is ready, with the team it chose. *)
Chooses(u, t) ==
    /\ step = "peers" /\ Undecided(u)
    /\ ready' = ready \cup {u} /\ team' = [team EXCEPT ![u] = t]
    /\ due' = IF u \in alive THEN due ELSE due \cup {u}
    /\ UNCHANGED <<mode, step, visit, kind, alive, dying, flags, car, game>>

(* The character it wants is not to be had. *)
Rejected(u) ==
    /\ step = "peers" /\ Classes /\ kind[u] = "remote" /\ u \in ready
    /\ ready' = ready \ {u} /\ due' = due \ {u}
    /\ UNCHANGED <<mode, step, visit, kind, team, alive, dying, flags, car, game>>

EndPeers ==
    /\ step = "peers"
    /\ GoTo("frame")
    /\ UNCHANGED <<units, flags, car, game>>

-----------------------------------------------------------------------------
(* The host's own player, between two ticks *)

Revive(u) ==
    /\ step = "frame" /\ kind[u] = "local" /\ u \notin alive
    /\ Spawn(u)
    /\ UNCHANGED <<mode, step, visit, kind, team, due, ready, game>>

PutDown(u) ==
    /\ step = "frame" /\ kind[u] = "local" /\ holds[u] # NoFlag
    /\ DropFlag(u)
    /\ UNCHANGED <<mode, step, visit, units, car, game>>

-----------------------------------------------------------------------------
UnitStep(u) ==
    \/ VisitDead(u) \/ VisitAlive(u) \/ SkipNobody(u) \/ Touch(u) \/ Die(u) \/ LivesOn(u)

TickStep == Begin \/ FlagsAge \/ EndTouch \/ Session \/ EndPeers \/ \E u \in Units : UnitStep(u)

TeamNext ==
    \/ TickStep \/ Wreck
    \/ \E u \in Units :
          \/ Hurt(u) \/ Enter(u) \/ Quit(u) \/ KeptOut(u) \/ Rejected(u) \/ Revive(u) \/ PutDown(u)
          \/ \E t \in Teams : Chooses(u, t)

TeamSpec == TeamInit /\ [][TeamNext]_teamVars

(* The host's program runs on. *)
TeamFairSpec == TeamSpec /\ WF_teamVars(TickStep)

-----------------------------------------------------------------------------
(* Properties *)

RulesTypeOK ==
    /\ mode \in Modes /\ step \in {"frame", "units", "touch", "deaths", "peers"}
    /\ visit \in 0..NumUnits
    /\ kind \in [Units -> {"none", "local", "remote"}] /\ team \in [Units -> Teams]
    /\ dying \subseteq alive /\ alive \subseteq Present /\ due \subseteq Present \ alive
    /\ holds \in [Units -> Teams \cup {NoFlag}]
    /\ flag \in [Teams -> [state : {"home", "carried", "dropped"}, carrier : Units \cup {NoUnit},
                           idle : 0..FlagReset - 1]]
    /\ ride \in [Units -> Seats \cup {"foot"}] /\ occupant \in [Seats -> Units \cup {NoUnit}]
    /\ wreck \in 0..WreckTime /\ {carActive, over, told} \subseteq BOOLEAN
    /\ score \in [Teams -> Int] /\ \A t \in Teams : score[t] >= -MinScore
    /\ over \/ \A t \in Teams : score[t] < ScoreLimit
    /\ winner \in Teams \cup {Nobody} /\ overTimer \in 0..Postgame

(* A flag and its carrier know of each other, whoever dies, leaves, changes team
   or is put back on the field in whichever part of the tick; a carrier is alive
   and on foot. *)
CarriersAgree ==
    /\ \A t \in Teams : \A u \in Units :
          holds[u] = t <=> flag[t].state = "carried" /\ flag[t].carrier = u
    /\ \A t \in Teams : flag[t].state = "carried" => flag[t].carrier \in alive
    /\ \A u \in Units : holds[u] # NoFlag => ride[u] = "foot"

(* A seat and who sits in it know of each other, and nobody sits in a wreck. *)
SeatsAgree ==
    /\ \A s \in Seats : \A u \in Units : occupant[s] = u <=> ride[u] = s
    /\ \A u \in Units : ride[u] # "foot" => u \in alive /\ carActive

(* What the game ended with stands until the next one: the winner, and in Capture
   the Flag the score, though flags are still touched and units die in that tick. *)
ResultStands ==
    [][over /\ over' => winner' = winner /\ (mode = "CTF" => score' = score)]_teamVars

(* The end of a game is on its way to the next: an over game has its GAME_OVER
   still to be heard, or its wait running, and a game that goes on has neither. *)
EndIsTimed == over <=> told \/ overTimer > 0

(* A flag that lies somewhere is taken or goes home, and a game that is over is
   followed by the next: no part of the tick keeps the others from their turn. *)
FlagsAndGamesGoOn ==
    /\ \A t \in Teams : []<>(flag[t].state # "dropped")
    /\ []<>(~over)

=============================================================================
