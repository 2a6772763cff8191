--------------------------- MODULE TeamGameProofs ---------------------------
(***************************************************************************)
(* For any number of units, any limits and times: flags and carriers agree *)
(* (CarriersAgree), and so do seats and riders (SeatsAgree), after every   *)
(* step of TeamGame; a game that is over is followed by the next           *)
(* (EndIsTimed), and its result stands until then (ResultStands).          *)
(*                                                                         *)
(* CarriersAgree is not inductive by itself: a flag that is not carried    *)
(* must name no carrier, or its return would take a flag from a hand that  *)
(* holds another (LooseFlags), and who boards must have no seat yet.       *)
(* ResultStands needs to know what can still be touched in the tick that   *)
(* ends a game (LastTouches).                                              *)
(***************************************************************************)
EXTENDS TeamGame, TLAPS

Fields == [state : {"home", "carried", "dropped"}, carrier : Units \cup {NoUnit}, idle : Nat]

Types ==
    /\ team \in [Units -> Teams]
    /\ holds \in [Units -> Teams \cup {NoFlag}] /\ flag \in [Teams -> Fields]
    /\ ride \in [Units -> Seats \cup {"foot"}] /\ occupant \in [Seats -> Units \cup {NoUnit}]
    /\ carActive \in BOOLEAN

LooseFlags == \A t \in Teams : flag[t].state = "carried" <=> flag[t].carrier # NoUnit

FlagsInv == LooseFlags /\ CarriersAgree
IInv == Types /\ FlagsInv /\ SeatsAgree

LEMMA NobodyIsNoUnit == \A u \in Units : u # NoUnit
  BY GameUnitsAssumption DEF Units, NoUnit

LEMMA NoFlagIsNoTeam == \A t \in Teams : t # NoFlag /\ 1 - t \in Teams
  BY DEF Teams, NoFlag

-----------------------------------------------------------------------------
(* The helpers *)

LEMMA HomeIsField == Home \in Fields /\ Lying \in Fields /\ \A u \in Units : CarriedBy(u) \in Fields
  BY DEF Home, Lying, CarriedBy, Fields

(* Whoever is taken out of the vehicle, both sides know. *)
LEMMA UnseatInv ==
  ASSUME IInv, NEW u \in Units, Unseat(u)
  PROVE  /\ ride' \in [Units -> Seats \cup {"foot"}] /\ occupant' \in [Seats -> Units \cup {NoUnit}]
         /\ carActive' = carActive
         /\ \A s \in Seats : \A v \in Units : occupant'[s] = v <=> ride'[v] = s
         /\ ride'[u] = "foot" /\ \A v \in Units : v # u => ride'[v] = ride[v]
  <1>1. ride' \in [Units -> Seats \cup {"foot"}] /\ ride'[u] = "foot"
        /\ \A v \in Units : v # u => ride'[v] = ride[v]
    BY DEF IInv, Types, Unseat
  <1>2. occupant' \in [Seats -> Units \cup {NoUnit}]
        /\ \A s \in Seats : occupant'[s] = IF occupant[s] = u THEN NoUnit ELSE occupant[s]
    BY DEF IInv, Types, Unseat
  <1>3. "foot" \notin Seats
    BY DEF Seats
  <1>4. \A s \in Seats : \A v \in Units : occupant'[s] = v <=> ride'[v] = s
    BY <1>1, <1>2, <1>3, NobodyIsNoUnit DEF IInv, SeatsAgree
  <1> QED
    BY <1>1, <1>2, <1>4 DEF Unseat

(* Whoever drops what is in hand, both sides know. *)
LEMMA DropFlagInv ==
  ASSUME IInv, NEW u \in Units, DropFlag(u)
  PROVE  /\ holds' \in [Units -> Teams \cup {NoFlag}] /\ flag' \in [Teams -> Fields]
         /\ LooseFlags'
         /\ \A t \in Teams : \A v \in Units :
               holds'[v] = t <=> flag'[t].state = "carried" /\ flag'[t].carrier = v
         /\ \A t \in Teams : flag'[t].state = "carried" =>
               flag'[t] = flag[t] /\ flag'[t].carrier # u
         /\ holds'[u] = NoFlag /\ \A v \in Units : v # u => holds'[v] = holds[v]
  <1>1. CASE holds[u] = NoFlag
    <2>1. holds' = holds /\ flag' = flag
      BY <1>1 DEF DropFlag, flags
    <2>2. holds \in [Units -> Teams \cup {NoFlag}] /\ flag \in [Teams -> Fields] /\ LooseFlags
          /\ \A t \in Teams : \A v \in Units :
                holds[v] = t <=> flag[t].state = "carried" /\ flag[t].carrier = v
      BY DEF IInv, Types, FlagsInv, CarriersAgree
    <2>3. LooseFlags'
      BY <2>1, <2>2 DEF LooseFlags
    <2>4. \A t \in Teams : flag[t].state = "carried" => flag[t].carrier # u
      BY <1>1, <2>2, NoFlagIsNoTeam
    <2> QED
      BY <1>1, <2>1, <2>2, <2>3, <2>4
  <1>2. CASE holds[u] # NoFlag
    <2> DEFINE d == holds[u]
    <2>1. d \in Teams /\ flag[d].state = "carried" /\ flag[d].carrier = u
      BY <1>2 DEF IInv, Types, FlagsInv, CarriersAgree
    <2>2. holds' = [holds EXCEPT ![u] = NoFlag] /\ flag' = [flag EXCEPT ![d] = Lying]
      BY <1>2 DEF DropFlag
    <2>3. Lying.state = "dropped" /\ Lying.carrier = NoUnit
      BY DEF Lying, Home
    <2>4. holds' \in [Units -> Teams \cup {NoFlag}] /\ flag' \in [Teams -> Fields]
      BY <2>1, <2>2, HomeIsField DEF IInv, Types
    <2>5. /\ flag'[d] = Lying /\ \A t \in Teams : t # d => flag'[t] = flag[t]
          /\ holds'[u] = NoFlag /\ \A v \in Units : v # u => holds'[v] = holds[v]
      BY <2>1, <2>2 DEF IInv, Types
    <2>6. \A t \in Teams : t # d /\ flag[t].state = "carried" => flag[t].carrier # u
      BY <2>1 DEF IInv, FlagsInv, CarriersAgree
    <2>7. LooseFlags'
      BY <2>3, <2>5 DEF IInv, FlagsInv, LooseFlags
    <2>8. \A t \in Teams : \A v \in Units :
             holds'[v] = t <=> flag'[t].state = "carried" /\ flag'[t].carrier = v
      BY <2>1, <2>3, <2>5, <2>6, NoFlagIsNoTeam DEF IInv, FlagsInv, CarriersAgree
    <2> QED
      BY <2>1, <2>3, <2>4, <2>5, <2>6, <2>7, <2>8
  <1> QED
    BY <1>1, <1>2

-----------------------------------------------------------------------------
(* What comes and goes of itself *)

(* A unit that is not on the field has neither flag nor seat. *)
LEMMA DeadHoldNothing ==
  ASSUME IInv, NEW u \in Units, u \notin alive
  PROVE  /\ holds[u] = NoFlag /\ ride[u] = "foot"
         /\ \A t \in Teams : flag[t].state = "carried" => flag[t].carrier # u
  BY DEF IInv, Types, FlagsInv, CarriersAgree, SeatsAgree

(* Nothing is lost by who does not move: the sides, the flags and the seats
   stay, whoever comes to life. *)
LEMMA CalmInv ==
  ASSUME IInv, UNCHANGED <<team, holds, flag, ride, occupant>>,
         alive \subseteq alive', carActive => carActive', carActive' \in BOOLEAN
  PROVE  IInv'
  <1>1. Types'
    BY DEF IInv, Types
  <1>2. FlagsInv'
    BY DEF IInv, FlagsInv, LooseFlags, CarriersAgree
  <1>3. SeatsAgree'
    BY DEF IInv, Types, SeatsAgree
  <1> QED
    BY <1>1, <1>2, <1>3 DEF IInv

LEMMA SpawnInv ==
  ASSUME IInv, NEW u \in Units, u \notin alive, Spawn(u), team' = team
  PROVE  IInv'
  <1>1. holds' = holds /\ flag' = flag
    BY DeadHoldNothing DEF Spawn, IInv, Types
  <1>2. Unseat(u) /\ alive \subseteq alive'
    BY DEF Spawn
  <1>3. Types'
    BY <1>1, <1>2, UnseatInv DEF IInv, Types
  <1>4. FlagsInv'
    <2>1. \A v \in Units : holds[v] # NoFlag => ride'[v] = "foot"
      BY <1>2, UnseatInv DEF IInv, FlagsInv, CarriersAgree
    <2> QED
      BY <1>1, <1>2, <2>1 DEF IInv, FlagsInv, LooseFlags, CarriersAgree
  <1>5. SeatsAgree'
    BY <1>2, UnseatInv DEF IInv, SeatsAgree
  <1> QED
    BY <1>3, <1>4, <1>5 DEF IInv

(* Who is taken off the field is out of the vehicle and without a flag first. *)
LEMMA OffTheField ==
  ASSUME IInv, NEW u \in Units, Unseat(u), DropFlag(u), alive' = alive \ {u}, team' = team
  PROVE  IInv'
  <1>1. Types'
    BY UnseatInv, DropFlagInv DEF IInv, Types
  <1>2. FlagsInv'
    <2>1. \A t \in Teams : flag'[t].state = "carried" => flag'[t].carrier \in alive'
      BY DropFlagInv DEF IInv, FlagsInv, CarriersAgree
    <2>2. \A v \in Units : holds'[v] # NoFlag => ride'[v] = "foot"
      BY DropFlagInv, UnseatInv DEF IInv, FlagsInv, CarriersAgree
    <2> QED
      BY <2>1, <2>2, DropFlagInv DEF FlagsInv, CarriersAgree
  <1>3. SeatsAgree'
    <2>1. \A v \in Units : ride'[v] # "foot" => v \in alive' /\ carActive'
      BY UnseatInv DEF IInv, SeatsAgree
    <2> QED
      BY <2>1, UnseatInv DEF SeatsAgree
  <1> QED
    BY <1>1, <1>2, <1>3 DEF IInv

(* A flag put down by who stays. *)
LEMMA PutDownInv ==
  ASSUME IInv, NEW u \in Units, DropFlag(u), UNCHANGED <<team, alive, ride, occupant, carActive>>
  PROVE  IInv'
  <1>1. Types' /\ SeatsAgree'
    BY DropFlagInv DEF IInv, Types, SeatsAgree
  <1>2. FlagsInv'
    <2>1. \A t \in Teams : flag'[t].state = "carried" => flag'[t].carrier \in alive'
      BY DropFlagInv DEF IInv, FlagsInv, CarriersAgree
    <2>2. \A v \in Units : holds'[v] # NoFlag => ride'[v] = "foot"
      BY DropFlagInv DEF IInv, FlagsInv, CarriersAgree
    <2> QED
      BY <2>1, <2>2, DropFlagInv DEF FlagsInv, CarriersAgree
  <1> QED
    BY <1>1, <1>2 DEF IInv

LEMMA GetOutInv ==
  ASSUME IInv, NEW u \in Units, Unseat(u), UNCHANGED <<team, alive, holds, flag>>
  PROVE  IInv'
  <1>1. Types'
    BY UnseatInv DEF IInv, Types
  <1>2. FlagsInv'
    <2>1. \A v \in Units : holds[v] # NoFlag => ride'[v] = "foot"
      BY UnseatInv DEF IInv, FlagsInv, CarriersAgree
    <2> QED
      BY <2>1 DEF IInv, FlagsInv, LooseFlags, CarriersAgree
  <1>3. SeatsAgree'
    BY UnseatInv DEF IInv, SeatsAgree
  <1> QED
    BY <1>1, <1>2, <1>3 DEF IInv

LEMMA BoardInv ==
  ASSUME IInv, NEW u \in Units, u \in alive, Board(u), UNCHANGED <<team, alive, holds, flag>>
  PROVE  IInv'
  <1>1. PICK s \in Seats :
           /\ MayBoard(u, s)
           /\ ride' = [ride EXCEPT ![u] = s] /\ occupant' = [occupant EXCEPT ![s] = u]
           /\ UNCHANGED <<carActive, wreck>>
    BY DEF Board
  <1>2. carActive /\ ride[u] = "foot" /\ holds[u] = NoFlag /\ occupant[s] = NoUnit
    BY <1>1 DEF MayBoard
  <1>3. Types'
    BY <1>1 DEF IInv, Types
  <1>4. /\ ride'[u] = s /\ \A v \in Units : v # u => ride'[v] = ride[v]
        /\ occupant'[s] = u /\ \A r \in Seats : r # s => occupant'[r] = occupant[r]
    BY <1>1 DEF IInv, Types
  <1>5. FlagsInv'
    <2>1. \A v \in Units : holds[v] # NoFlag => ride'[v] = "foot"
      BY <1>2, <1>4 DEF IInv, FlagsInv, CarriersAgree
    <2> QED
      BY <2>1 DEF IInv, FlagsInv, LooseFlags, CarriersAgree
  <1>6. SeatsAgree'
    <2>1. "foot" \notin Seats
      BY DEF Seats
    <2>2. \A r \in Seats : \A v \in Units : occupant'[r] = v <=> ride'[v] = r
      BY <1>2, <1>4, <2>1, NobodyIsNoUnit DEF IInv, SeatsAgree
    <2> QED
      BY <1>1, <1>2, <1>4, <2>2 DEF IInv, SeatsAgree
  <1> QED
    BY <1>3, <1>5, <1>6 DEF IInv

-----------------------------------------------------------------------------
(* The flags *)

(* Only flags that lie go home by themselves: none is lost without a drop, and
   who has the other in hand keeps it. *)
LEMMA FlagsAgeInv ==
  ASSUME IInv, FlagsAge
  PROVE  IInv'
  <1>1. PICK outside \in SUBSET {t \in Teams : flag[t].state = "dropped"} :
          LET back == IF mode = "CTF" THEN {t \in Teams : Returns(t)} \cup outside ELSE {} IN
          /\ flag' = [t \in Teams |->
                IF t \in back THEN Home
                ELSE IF flag[t].state = "dropped" THEN [flag[t] EXCEPT !.idle = @ + 1]
                ELSE flag[t]]
          /\ holds' = [u \in Units |->
                IF \E t \in back : flag[t].carrier = u THEN NoFlag ELSE holds[u]]
    BY DEF FlagsAge
  <1> DEFINE back == IF mode = "CTF" THEN {t \in Teams : Returns(t)} \cup outside ELSE {}
  <1>2. \A t \in back : t \in Teams /\ flag[t].state = "dropped"
    <2>1. \A t \in Teams : ~LostWithoutDrop(t)
      BY DEF LostWithoutDrop, IInv, Types, Fields, FlagsInv, LooseFlags, CarriersAgree
    <2> QED
      BY <2>1 DEF Returns
  <1>3. holds' = holds
    <2>1. \A u \in Units : ~\E t \in back : flag[t].carrier = u
      BY <1>2, NobodyIsNoUnit DEF IInv, FlagsInv, LooseFlags
    <2> QED
      BY <1>1, <2>1 DEF IInv, Types
  <1>4. \A t \in Teams : /\ flag'[t] \in Fields
                         /\ flag[t].state = "carried" => flag'[t] = flag[t]
                         /\ flag[t].state # "carried" =>
                               flag'[t].state # "carried" /\ flag'[t].carrier = NoUnit
    <2> SUFFICES ASSUME NEW t \in Teams
                 PROVE  /\ flag'[t] \in Fields
                        /\ flag[t].state = "carried" => flag'[t] = flag[t]
                        /\ flag[t].state # "carried" =>
                              flag'[t].state # "carried" /\ flag'[t].carrier = NoUnit
      OBVIOUS
    <2>1. flag[t] \in Fields /\ (flag[t].state # "carried" => flag[t].carrier = NoUnit)
      BY DEF IInv, Types, FlagsInv, LooseFlags
    <2>2. CASE t \in back
      BY <1>1, <1>2, <2>2, HomeIsField DEF Home
    <2>3. CASE t \notin back /\ flag[t].state = "dropped"
      <3>1. flag'[t] = [flag[t] EXCEPT !.idle = @ + 1]
        BY <1>1, <2>3
      <3> QED
        BY <2>1, <2>3, <3>1 DEF Fields
    <2>4. CASE t \notin back /\ flag[t].state # "dropped"
      BY <1>1, <2>1, <2>4
    <2> QED
      BY <2>2, <2>3, <2>4
  <1>5. UNCHANGED <<team, alive, ride, occupant, carActive>>
    BY DEF FlagsAge, units, car
  <1>6. flag' = [t \in Teams |-> flag'[t]]
    BY <1>1
  <1>7. Types' /\ SeatsAgree'
    BY <1>3, <1>4, <1>5, <1>6 DEF IInv, Types, SeatsAgree
  <1>8. FlagsInv'
    BY <1>3, <1>4, <1>5 DEF IInv, FlagsInv, LooseFlags, CarriersAgree
  <1> QED
    BY <1>7, <1>8 DEF IInv

(* A touch takes, returns and captures at once. *)
LEMMA TouchesInv ==
  ASSUME IInv, NEW u \in Units, u \in alive, ride[u] = "foot", Touches(u),
         UNCHANGED <<team, alive, ride, occupant, carActive>>
  PROVE  IInv'
  <1>1. PICK near \in Reach(u) :
        LET held == IF Takes(u, near) THEN Enemy(u) ELSE holds[u]
            captures == Captures(u, held, near) IN
        /\ flag' = [t \in Teams |->
              IF captures /\ t = held THEN Home
              ELSE IF Takes(u, near) /\ t = Enemy(u) THEN CarriedBy(u)
              ELSE IF t = team[u] /\ "ours" \in near /\ flag[t].state = "dropped" THEN Home
              ELSE flag[t]]
        /\ holds' = [holds EXCEPT ![u] = IF captures THEN NoFlag ELSE held]
    BY DEF Touches
  <1> DEFINE held == IF Takes(u, near) THEN Enemy(u) ELSE holds[u]
             captures == Captures(u, held, near)
             after == IF captures THEN NoFlag ELSE held
  <1>2. Enemy(u) \in Teams /\ team[u] \in Teams /\ Enemy(u) # team[u]
    BY DEF IInv, Types, Enemy, Teams
  <1>3. /\ Takes(u, near) => flag[Enemy(u)].state # "carried" /\ holds[u] = NoFlag
        /\ captures => held # NoFlag
    BY DEF Takes, Captures
  <1>4. held \in Teams \cup {NoFlag} /\ after \in Teams \cup {NoFlag}
    BY <1>2 DEF IInv, Types
  <1>5. holds'[u] = after /\ \A v \in Units : v # u => holds'[v] = holds[v]
    BY <1>1 DEF IInv, Types
  <1>6. \A t \in Teams : flag[t].state = "carried" /\ flag[t].carrier = u <=> holds[u] = t
    BY DEF IInv, FlagsInv, CarriersAgree
  <1>7. /\ Home \in Fields /\ Home.state = "home" /\ Home.carrier = NoUnit
        /\ CarriedBy(u) \in Fields
        /\ CarriedBy(u).state = "carried" /\ CarriedBy(u).carrier = u
    BY HomeIsField DEF Home, CarriedBy
  <1>8. \A t \in Teams :
           /\ flag'[t] \in Fields
           /\ flag'[t].state = "carried" <=> flag'[t].carrier # NoUnit
           /\ flag'[t].state = "carried" /\ flag'[t].carrier = u <=> after = t
           /\ \A v \in Units \ {u} : flag'[t].state = "carried" /\ flag'[t].carrier = v
                                     <=> flag[t].state = "carried" /\ flag[t].carrier = v
    <2> SUFFICES ASSUME NEW t \in Teams
                 PROVE  /\ flag'[t] \in Fields
                        /\ flag'[t].state = "carried" <=> flag'[t].carrier # NoUnit
                        /\ flag'[t].state = "carried" /\ flag'[t].carrier = u <=> after = t
                        /\ \A v \in Units \ {u} : flag'[t].state = "carried" /\ flag'[t].carrier = v
                                     <=> flag[t].state = "carried" /\ flag[t].carrier = v
      OBVIOUS
    <2>1. flag[t] \in Fields /\ (flag[t].state = "carried" <=> flag[t].carrier # NoUnit)
      BY DEF IInv, Types, FlagsInv, LooseFlags
    <2>2. CASE captures /\ t = held
      <3>1. flag'[t] = Home /\ after # t
        BY <1>1, <2>2, NoFlagIsNoTeam
      <3>2. \A v \in Units \ {u} : ~(flag[t].state = "carried" /\ flag[t].carrier = v)
        BY <1>3, <1>6, <2>2
      <3> QED
        BY <1>7, <3>1, <3>2, NobodyIsNoUnit
    <2>3. CASE ~(captures /\ t = held) /\ Takes(u, near) /\ t = Enemy(u)
      <3>1. flag'[t] = CarriedBy(u) /\ after = t
        BY <1>1, <2>3
      <3> QED
        BY <1>3, <1>7, <2>3, <3>1, NobodyIsNoUnit
    <2>4. CASE ~(captures /\ t = held) /\ ~(Takes(u, near) /\ t = Enemy(u))
      <3>1. after = t <=> holds[u] = t
        BY <1>3, <2>4, NoFlagIsNoTeam
      <3>2. CASE t = team[u] /\ "ours" \in near /\ flag[t].state = "dropped"
        <4>1. flag'[t] = Home
          BY <1>1, <2>4, <3>2
        <4> QED
          BY <1>6, <1>7, <3>1, <3>2, <4>1
      <3>3. CASE ~(t = team[u] /\ "ours" \in near /\ flag[t].state = "dropped")
        <4>1. flag'[t] = flag[t]
          BY <1>1, <2>4, <3>3
        <4> QED
          BY <1>6, <2>1, <3>1, <4>1
      <3> QED
        BY <3>2, <3>3
    <2> QED
      BY <2>2, <2>3, <2>4
  <1>9. holds' \in [Units -> Teams \cup {NoFlag}] /\ flag' \in [Teams -> Fields]
    <2>1. flag' = [t \in Teams |-> flag'[t]]
      BY <1>1
    <2>2. holds' = [holds EXCEPT ![u] = after]
      BY <1>1
    <2> QED
      BY <1>4, <1>8, <2>1, <2>2 DEF IInv, Types
  <1>10. Types' /\ SeatsAgree'
    BY <1>9 DEF IInv, Types, SeatsAgree
  <1>11. FlagsInv'
    <2>1. LooseFlags'
      BY <1>8 DEF LooseFlags
    <2>2. \A t \in Teams : \A v \in Units :
             holds'[v] = t <=> flag'[t].state = "carried" /\ flag'[t].carrier = v
      BY <1>5, <1>8 DEF IInv, FlagsInv, CarriersAgree
    <2>3. \A t \in Teams : flag'[t].state = "carried" => flag'[t].carrier \in alive'
      <3>1. \A t \in Teams : flag'[t].state = "carried" => flag'[t].carrier \in Units
        BY <1>8 DEF Fields
      <3> QED
        BY <1>8, <3>1 DEF IInv, FlagsInv, CarriersAgree
    <2>4. \A v \in Units : holds'[v] # NoFlag => ride'[v] = "foot"
      BY <1>5 DEF IInv, FlagsInv, CarriersAgree
    <2> QED
      BY <2>1, <2>2, <2>3, <2>4 DEF FlagsInv, CarriersAgree
  <1> QED
    BY <1>10, <1>11 DEF IInv

-----------------------------------------------------------------------------
(* The steps that touch everybody *)

LEMMA InitInv == TeamInit => IInv
  <1> SUFFICES ASSUME TeamInit PROVE IInv
    OBVIOUS
  <1>1. /\ \A u \in Units : holds[u] = NoFlag /\ ride[u] = "foot"
        /\ \A t \in Teams : flag[t] = Home
        /\ \A s \in Seats : occupant[s] = NoUnit
    BY DEF TeamInit
  <1>2. Types
    BY HomeIsField, TeamGameAssumption DEF TeamInit, Types, Teams
  <1>3. Home.state = "home" /\ Home.carrier = NoUnit
    BY DEF Home
  <1>4. FlagsInv
    BY <1>1, <1>3, NoFlagIsNoTeam DEF FlagsInv, LooseFlags, CarriersAgree
  <1>5. SeatsAgree
    BY <1>1, NobodyIsNoUnit DEF SeatsAgree, Seats
  <1> QED
    BY <1>2, <1>4, <1>5 DEF IInv

(* The next game finds every flag home and every seat empty. *)
LEMMA StartInv ==
  ASSUME IInv, Start
  PROVE  IInv'
  <1>1. /\ \A u \in Units : holds'[u] = NoFlag /\ ride'[u] = "foot"
        /\ \A t \in Teams : flag'[t] = Home
        /\ \A s \in Seats : occupant'[s] = NoUnit
    BY DEF Start
  <1>2. Types'
    BY HomeIsField DEF Start, IInv, Types
  <1>3. Home.state = "home" /\ Home.carrier = NoUnit
    BY DEF Home
  <1>4. FlagsInv'
    BY <1>1, <1>3, NoFlagIsNoTeam DEF FlagsInv, LooseFlags, CarriersAgree
  <1>5. SeatsAgree'
    BY <1>1, NobodyIsNoUnit DEF SeatsAgree, Seats
  <1> QED
    BY <1>2, <1>4, <1>5 DEF IInv

(* Nobody rides in a wreck. *)
LEMMA WreckInv ==
  ASSUME IInv, Wreck
  PROVE  IInv'
  <1>1. UNCHANGED <<team, alive, holds, flag>> /\ carActive' = FALSE
    BY DEF Wreck, flags
  <1>2. /\ ride' = [u \in Units |-> "foot"]
        /\ occupant' = [s \in Seats |-> NoUnit]
    BY DEF Wreck, RidersOut
  <1>3. Types'
    BY <1>1, <1>2 DEF IInv, Types
  <1>4. FlagsInv'
    BY <1>1, <1>2 DEF IInv, FlagsInv, LooseFlags, CarriersAgree
  <1>5. SeatsAgree'
    BY <1>2, NobodyIsNoUnit DEF SeatsAgree, Seats
  <1> QED
    BY <1>3, <1>4, <1>5 DEF IInv

(* A joiner chooses its side: its flag and its seat stay with it. *)
LEMMA ChoosesInv ==
  ASSUME IInv, NEW u \in Units, NEW t \in Teams, Chooses(u, t)
  PROVE  IInv'
  BY DEF Chooses, flags, car, IInv, Types, FlagsInv, LooseFlags, CarriersAgree, SeatsAgree

LEMMA EnterInv ==
  ASSUME IInv, NEW u \in Units, Enter(u)
  PROVE  IInv'
  <1>1. Smaller \in Teams
    BY DEF Smaller, Teams
  <1>2. UNCHANGED <<holds, flag, ride, occupant, carActive>> /\ alive \subseteq alive'
    BY DEF Enter, flags, car
  <1>3. team' \in [Units -> Teams]
    BY <1>1 DEF Enter, IInv, Types
  <1> QED
    BY <1>2, <1>3 DEF IInv, Types, FlagsInv, LooseFlags, CarriersAgree, SeatsAgree

(* One step of one unit. *)
LEMMA UnitStepInv ==
  ASSUME IInv, NEW u \in Units, UnitStep(u)
  PROVE  IInv'
  <1>1. CASE VisitDead(u)
    <2>1. u \notin alive /\ team' = team
      BY <1>1 DEF VisitDead, units
    <2>2. CASE Spawn(u)
      BY <2>1, <2>2, SpawnInv
    <2>3. CASE UNCHANGED <<units, flags, car>>
      BY <2>3, CalmInv DEF units, flags, car, IInv, Types
    <2> QED
      BY <1>1, <2>2, <2>3 DEF VisitDead
  <1>2. CASE VisitAlive(u)
    <2>1. u \in alive /\ UNCHANGED <<team, alive>>
      BY <1>2 DEF VisitAlive, units
    <2>2. CASE UNCHANGED <<flags, car>>
      BY <2>1, <2>2, CalmInv DEF flags, car, IInv, Types
    <2>3. CASE (Board(u) \/ GetOut(u)) /\ UNCHANGED flags
      BY <2>1, <2>3, BoardInv, GetOutInv DEF flags, GetOut
    <2>4. CASE DropFlag(u) /\ UNCHANGED car
      BY <2>1, <2>4, PutDownInv DEF car
    <2> QED
      BY <1>2, <2>2, <2>3, <2>4 DEF VisitAlive
  <1>3. CASE SkipNobody(u)
    BY <1>3, CalmInv DEF SkipNobody, units, flags, car, IInv, Types
  <1>4. CASE Touch(u)
    <2>1. UNCHANGED <<team, alive, ride, occupant, carActive>>
      BY <1>4 DEF Touch, units, car
    <2>2. CASE u \in alive /\ ride[u] = "foot"
      BY <1>4, <2>1, <2>2, TouchesInv DEF Touch
    <2>3. CASE ~(u \in alive /\ ride[u] = "foot")
      BY <1>4, <2>1, <2>3, CalmInv DEF Touch, flags, IInv, Types
    <2> QED
      BY <2>2, <2>3
  <1>5. CASE Die(u)
    BY <1>5, OffTheField DEF Die
  <1>6. CASE LivesOn(u)
    BY <1>6, CalmInv DEF LivesOn, units, flags, car, IInv, Types
  <1> QED
    BY <1>1, <1>2, <1>3, <1>4, <1>5, <1>6 DEF UnitStep

-----------------------------------------------------------------------------
LEMMA InvariantNext == IInv /\ [TeamNext]_teamVars => IInv'
  <1> SUFFICES ASSUME IInv, [TeamNext]_teamVars PROVE IInv'
    OBVIOUS
  <1>1. CASE Begin
    BY <1>1, CalmInv DEF Begin, HullsTick, units, flags, IInv, Types
  <1>2. CASE FlagsAge
    BY <1>2, FlagsAgeInv
  <1>3. CASE EndTouch
    BY <1>3, CalmInv DEF EndTouch, units, flags, car, IInv, Types
  <1>4. CASE Session
    <2>1. CASE Start
      BY <2>1, StartInv
    <2>2. CASE UNCHANGED <<units, flags, car>>
      BY <2>2, CalmInv DEF units, flags, car, IInv, Types
    <2> QED
      BY <1>4, <2>1, <2>2 DEF Session, units, flags, car
  <1>5. CASE EndPeers
    BY <1>5, CalmInv DEF EndPeers, units, flags, car, IInv, Types
  <1>6. ASSUME NEW u \in Units, UnitStep(u) PROVE IInv'
    BY <1>6, UnitStepInv
  <1>7. CASE Wreck
    BY <1>7, WreckInv
  <1>8. ASSUME NEW u \in Units, Hurt(u) \/ KeptOut(u) \/ Rejected(u) PROVE IInv'
    BY <1>8, CalmInv DEF Hurt, KeptOut, Rejected, flags, car, IInv, Types
  <1>9. ASSUME NEW u \in Units, Enter(u) PROVE IInv'
    BY <1>9, EnterInv
  <1>10. ASSUME NEW u \in Units, Quit(u) PROVE IInv'
    BY <1>10, OffTheField DEF Quit
  <1>11. ASSUME NEW u \in Units, Revive(u) PROVE IInv'
    BY <1>11, SpawnInv DEF Revive
  <1>12. ASSUME NEW u \in Units, PutDown(u) PROVE IInv'
    BY <1>12, PutDownInv DEF PutDown, units, car
  <1>13. ASSUME NEW u \in Units, NEW t \in Teams, Chooses(u, t) PROVE IInv'
    BY <1>13, ChoosesInv
  <1>14. CASE UNCHANGED teamVars
    BY <1>14, CalmInv DEF teamVars, units, flags, car, IInv, Types
  <1> QED
    BY <1>1, <1>2, <1>3, <1>4, <1>5, <1>6, <1>7, <1>8, <1>9, <1>10, <1>11, <1>12, <1>13, <1>14
       DEF TeamNext, TickStep

LEMMA Invariant == TeamSpec => []IInv
  BY InitInv, InvariantNext, PTL DEF TeamSpec

(* A flag and its carrier know of each other, and a carrier is alive and on foot,
   whatever order the parts of a tick and the peers' coming and going take. *)
THEOREM FlagsHaveTheirCarriers == TeamSpec => []CarriersAgree
  <1>1. IInv => CarriersAgree
    BY DEF IInv, FlagsInv
  <1> QED
    BY Invariant, <1>1, PTL

(* A seat and its rider know of each other, and nobody rides in a wreck. *)
THEOREM SeatsHaveTheirRiders == TeamSpec => []SeatsAgree
  <1>1. IInv => SeatsAgree
    BY DEF IInv
  <1> QED
    BY Invariant, <1>1, PTL

-----------------------------------------------------------------------------
(* The end of a game *)

TimedInv == overTimer \in Nat /\ told \in BOOLEAN /\ over \in BOOLEAN /\ EndIsTimed

LEMMA ScoredTimed ==
  ASSUME TimedInv, NEW s, NEW t, Scored(s, t)
  PROVE  TimedInv'
  BY DEF TimedInv, EndIsTimed, Scored

(* The parts that end a game, and Session, which goes on from there. *)
LEMMA TimedStep == TimedInv /\ [TeamNext]_teamVars => TimedInv'
  <1> SUFFICES ASSUME TimedInv, [TeamNext]_teamVars PROVE TimedInv'
    OBVIOUS
  <1>1. CASE UNCHANGED game
    BY <1>1 DEF game, TimedInv, EndIsTimed
  <1>2. CASE Begin
    <2>1. (over' = TRUE /\ told' = TRUE /\ overTimer' = overTimer) \/ UNCHANGED game
      BY <1>2 DEF Begin
    <2>2. CASE over' = TRUE /\ told' = TRUE /\ overTimer' = overTimer
      BY <2>2 DEF TimedInv, EndIsTimed
    <2> QED
      BY <1>1, <2>1, <2>2
  <1>3. ASSUME NEW u \in Units, Touches(u) PROVE TimedInv'
    BY <1>1, <1>3, ScoredTimed DEF Touches
  <1>4. ASSUME NEW u \in Units, Die(u) PROVE TimedInv'
    <2>1. CASE UNCHANGED <<over, winner, told, overTimer>>
      BY <2>1 DEF TimedInv, EndIsTimed
    <2> QED
      BY <1>4, <2>1, ScoredTimed DEF Die
  <1>5. CASE Session
    <2>1. Postgame \in Nat \ {0}
      BY TeamGameAssumption
    <2>2. CASE TimeOver = 1
      <3>1. over' = FALSE /\ told' = FALSE /\ overTimer' = 0
        BY <1>5, <2>2 DEF Session, Start
      <3>2. 0 \in Nat /\ ~(0 > 0)
        OBVIOUS
      <3> QED
        BY <3>1, <3>2 DEF TimedInv, EndIsTimed
    <2>3. CASE TimeOver # 1
      <3>1. told' = FALSE /\ over' = over /\ overTimer' = IF TimeOver > 0 THEN TimeOver - 1 ELSE 0
        BY <1>5, <2>3 DEF Session
      <3>2. TimeOver \in Nat /\ (TimeOver > 0 <=> over)
        BY <2>1 DEF TimeOver, TimedInv, EndIsTimed
      <3>3. overTimer' \in Nat /\ (overTimer' > 0 <=> TimeOver > 0)
        BY <2>3, <3>1, <3>2
      <3> QED
        BY <3>1, <3>2, <3>3 DEF TimedInv, EndIsTimed
    <2> QED
      BY <2>2, <2>3
  <1>6. ASSUME NEW u \in Units, UnitStep(u) PROVE TimedInv'
    BY <1>1, <1>3, <1>4, <1>6
       DEF UnitStep, VisitDead, VisitAlive, SkipNobody, Touch, LivesOn
  <1>7. ASSUME NEW u \in Units,
               Hurt(u) \/ Enter(u) \/ Quit(u) \/ KeptOut(u) \/ Rejected(u) \/ Revive(u) \/ PutDown(u)
        PROVE  TimedInv'
    BY <1>1, <1>7 DEF Hurt, Enter, Quit, KeptOut, Rejected, Revive, PutDown
  <1>8. ASSUME NEW u \in Units, NEW t \in Teams, Chooses(u, t) PROVE TimedInv'
    BY <1>1, <1>8 DEF Chooses
  <1>9. CASE FlagsAge \/ EndTouch \/ EndPeers \/ Wreck
    BY <1>1, <1>9 DEF FlagsAge, EndTouch, EndPeers, Wreck
  <1>10. CASE UNCHANGED teamVars
    BY <1>1, <1>10 DEF teamVars
  <1> QED
    BY <1>2, <1>5, <1>6, <1>7, <1>8, <1>9, <1>10 DEF TeamNext, TickStep

(* A game that is over is on its way to the next, whenever it ended: by the clock
   before the units' turns, by a capture, or by a death after them. *)
THEOREM NextGameIsOnItsWay == TeamSpec => []EndIsTimed
  <1>1. TeamInit => TimedInv
    <2>1. 0 \in Nat /\ ~(0 > 0)
      OBVIOUS
    <2> QED
      BY <2>1 DEF TeamInit, TimedInv, EndIsTimed
  <1>2. TimedInv => EndIsTimed
    BY DEF TimedInv
  <1> QED
    BY <1>1, <1>2, TimedStep, PTL DEF TeamSpec

-----------------------------------------------------------------------------
(* Who is on the field, and how far the tick is.  The host's own player is not
   among those who wait for the host to bring them back: it does so itself. *)

Parts == {"frame", "units", "touch", "deaths", "peers"}

BodiesInv ==
    /\ mode \in Modes /\ step \in Parts /\ visit \in 0..NumUnits
    /\ kind \in [Units -> {"none", "local", "remote"}]
    /\ dying \subseteq alive /\ alive \subseteq Present /\ due \subseteq Present \ alive
    /\ \A u \in due : kind[u] = "remote"
    /\ wreck \in 0..WreckTime

LEMMA OnTheWay ==
    /\ 0 \in 0..NumUnits
    /\ \A part, u : At(part, u) /\ OnFrom(u) => visit' \in 0..NumUnits /\ UNCHANGED <<mode, step>>
  BY GameUnitsAssumption DEF At, OnFrom, Units

LEMMA BodiesStart == TeamInit => BodiesInv
  BY GameUnitsAssumption, TeamGameAssumption DEF TeamInit, BodiesInv, Parts, Present

LEMMA UnitStepBodies ==
  ASSUME BodiesInv, NEW u \in Units, UnitStep(u) PROVE BodiesInv'
  <1>1. UNCHANGED <<mode, step, kind>> /\ visit' \in 0..NumUnits /\ Present' = Present
    BY OnTheWay
       DEF UnitStep, VisitDead, VisitAlive, SkipNobody, Touch, Die, LivesOn, units, Present
  <1>2. wreck' = wreck
    BY DEF UnitStep, VisitDead, VisitAlive, SkipNobody, Touch, Die, LivesOn, Spawn, Unseat,
       Board, GetOut, car
  <1>3. CASE UNCHANGED <<alive, dying, due>>
    BY <1>1, <1>2, <1>3 DEF BodiesInv
  <1>4. CASE VisitDead(u) /\ Spawn(u) /\ due' = due \ {u}
    BY <1>1, <1>2, <1>4 DEF VisitDead, Spawn, BodiesInv
  <1>5. CASE Die(u)
    BY <1>1, <1>2, <1>5 DEF Die, BodiesInv
  <1> QED
    BY <1>3, <1>4, <1>5 DEF UnitStep, VisitDead, VisitAlive, SkipNobody, Touch, LivesOn, units

LEMMA BodiesNext == IInv /\ BodiesInv /\ [TeamNext]_teamVars => BodiesInv'
  <1> SUFFICES ASSUME IInv, BodiesInv, [TeamNext]_teamVars PROVE BodiesInv'
    OBVIOUS
  <1>0. ASSUME UNCHANGED <<mode, kind, alive, dying, due>>, step' \in Parts,
               visit' \in 0..NumUnits, wreck' \in 0..WreckTime
        PROVE  BodiesInv'
    BY <1>0 DEF BodiesInv, Present
  <1>a. /\ 0 \in 0..NumUnits /\ 0 \in 0..WreckTime /\ WreckTime \in 0..WreckTime
        /\ wreck \in 0..WreckTime /\ step \in Parts /\ visit \in 0..NumUnits
        /\ "units" \in Parts /\ "touch" \in Parts /\ "deaths" \in Parts /\ "peers" \in Parts
        /\ "frame" \in Parts
    BY OnTheWay, TeamGameAssumption DEF BodiesInv, Parts
  <1>1. CASE Begin
    <2>1. wreck' \in 0..WreckTime
      BY <1>1, <1>a, TeamGameAssumption DEF Begin, HullsTick
    <2> QED
      BY <1>0, <1>1, <1>a, <2>1 DEF Begin, GoTo, units
  <1>2. CASE FlagsAge \/ EndTouch \/ EndPeers
    BY <1>0, <1>2, <1>a DEF FlagsAge, EndTouch, EndPeers, GoTo, units, car
  <1>3. CASE Session
    <2>1. /\ step' = "peers" /\ visit' = 0 /\ mode' = mode
          /\ Start \/ UNCHANGED <<units, flags, car>>
      BY <1>3 DEF Session, GoTo, units, flags, car
    <2>2. CASE Start
      BY <1>a, <2>1, <2>2 DEF Start, BodiesInv, Present
    <2>3. CASE UNCHANGED <<units, flags, car>>
      BY <1>0, <1>a, <2>1, <2>3 DEF units, car
    <2> QED
      BY <2>1, <2>2, <2>3
  <1>4. CASE Wreck
    <2>1. Riders \subseteq alive
      BY DEF Riders, IInv, SeatsAgree
    <2>2. /\ dying' = dying \cup Riders /\ wreck' = WreckTime
          /\ UNCHANGED <<mode, step, visit, kind, alive, due>>
      BY <1>4 DEF Wreck
    <2> QED
      BY <1>a, <2>1, <2>2 DEF BodiesInv, Present
  <1>5. ASSUME NEW u \in Units, Hurt(u) PROVE BodiesInv'
    BY <1>5 DEF Hurt, car, BodiesInv, Present
  <1>6. ASSUME NEW u \in Units, Enter(u) PROVE BodiesInv'
    <2>1. /\ kind' \in [Units -> {"none", "local", "remote"}] /\ Present' = Present \cup {u}
          /\ kind'[u] = "remote" /\ \A v \in Units : v # u => kind'[v] = kind[v]
      BY <1>6 DEF Enter, BodiesInv, Present
    <2>3. due \subseteq Units
      BY DEF BodiesInv, Present
    <2>2. /\ UNCHANGED <<mode, step, visit, dying, wreck>> /\ u \notin Present
          /\ \/ alive' = alive /\ due' = due \cup {u}
             \/ alive' = alive \cup {u} /\ due' = due
      BY <1>6 DEF Enter, car
    <2> QED
      BY <2>1, <2>2, <2>3 DEF BodiesInv
  <1>7. ASSUME NEW u \in Units, Quit(u) PROVE BodiesInv'
    <2>1. kind' \in [Units -> {"none", "local", "remote"}] /\ Present' = Present \ {u}
      BY <1>7 DEF Quit, BodiesInv, Present
    <2> QED
      BY <1>7, <2>1 DEF Quit, Unseat, BodiesInv
  <1>8. ASSUME NEW u \in Units, KeptOut(u) \/ Rejected(u) PROVE BodiesInv'
    BY <1>8 DEF KeptOut, Rejected, car, BodiesInv, Present
  <1>9. ASSUME NEW u \in Units, NEW t \in Teams, Chooses(u, t) PROVE BodiesInv'
    <2>1. u \in Present /\ kind[u] = "remote"
      BY <1>9 DEF Chooses, Undecided, Present
    <2>2. /\ UNCHANGED <<mode, step, visit, kind, alive, dying, wreck>>
          /\ due' = due \/ (u \notin alive /\ due' = due \cup {u})
      BY <1>9 DEF Chooses, car
    <2> QED
      BY <2>1, <2>2 DEF BodiesInv, Present
  <1>10. ASSUME NEW u \in Units, Revive(u) PROVE BodiesInv'
    <2>1. u \in Present /\ u \notin alive /\ kind' = kind /\ due' = due
      BY <1>10 DEF Revive, Present
    <2> QED
      BY <1>10, <2>1 DEF Revive, Spawn, Unseat, BodiesInv, Present
  <1>11. ASSUME NEW u \in Units, PutDown(u) PROVE BodiesInv'
    BY <1>0, <1>11, <1>a DEF PutDown, units, car
  <1>12. CASE UNCHANGED teamVars
    BY <1>0, <1>12, <1>a DEF teamVars, units, car
  <1> QED
    BY <1>1, <1>2, <1>3, <1>4, <1>5, <1>6, <1>7, <1>8, <1>9, <1>10, <1>11, <1>12, UnitStepBodies
       DEF TeamNext, TickStep

-----------------------------------------------------------------------------
(* How long a flag lies, and what may still be touched in the tick that ends a game.
   Flags only leave their stands in Capture the Flag.  A capture that ends the game
   leaves both flags on their stands, and who takes one now has had its turn. *)

FlagTimes ==
    /\ step = "touch" => mode = "CTF"
    /\ mode # "CTF" => \A t \in Teams : flag[t].state = "home"
    /\ \A t \in Teams : flag[t].idle < FlagReset

LastTouches ==
    step = "touch" /\ over =>
        \A t \in Teams : \/ flag[t].state = "home"
                         \/ flag[t].state = "carried" /\ flag[t].carrier < visit

LEMMA NoTime == 0 < FlagReset /\ FlagReset \in Nat
  BY TeamGameAssumption

LEMMA FlagTimesStart == TeamInit => FlagTimes /\ LastTouches
  BY NoTime DEF TeamInit, FlagTimes, LastTouches, Home

LEMMA DropTimes ==
  ASSUME IInv, FlagTimes, NEW u \in Units, DropFlag(u), mode' = mode, step' = step, step # "touch"
  PROVE  FlagTimes' /\ LastTouches'
  <1>1. CASE holds[u] = NoFlag
    BY <1>1 DEF DropFlag, flags, FlagTimes, LastTouches
  <1>2. CASE holds[u] # NoFlag
    <2>1. holds[u] \in Teams /\ flag[holds[u]].state = "carried"
      BY <1>2 DEF IInv, Types, FlagsInv, CarriersAgree
    <2>2. flag' = [flag EXCEPT ![holds[u]] = Lying] /\ Lying.idle = 0
      BY <1>2 DEF DropFlag, Lying, Home
    <2> QED
      BY <2>1, <2>2, NoTime DEF IInv, Types, FlagTimes, LastTouches
  <1> QED
    BY <1>1, <1>2

LEMMA FlagsAgeTimes == ASSUME IInv, FlagTimes, FlagsAge PROVE FlagTimes' /\ LastTouches'
  <1>1. PICK outside \in SUBSET {t \in Teams : flag[t].state = "dropped"} :
          LET back == IF mode = "CTF" THEN {t \in Teams : Returns(t)} \cup outside ELSE {} IN
          flag' = [t \in Teams |->
                IF t \in back THEN Home
                ELSE IF flag[t].state = "dropped" THEN [flag[t] EXCEPT !.idle = @ + 1]
                ELSE flag[t]]
    BY DEF FlagsAge
  <1>2. /\ step' = (IF mode = "CTF" /\ ~over THEN "touch" ELSE "deaths")
        /\ mode' = mode /\ over' = over
    BY DEF FlagsAge, game
  <1>3. ASSUME NEW t \in Teams
        PROVE  flag'[t].idle < FlagReset /\ (mode # "CTF" => flag'[t].state = "home")
    <2>1. flag[t] \in Fields /\ flag[t].idle < FlagReset
      BY DEF IInv, Types, FlagTimes
    <2>2. CASE flag'[t] = Home
      BY <2>2, NoTime DEF Home
    <2>3. CASE flag'[t] = flag[t]
      BY <2>1, <2>3 DEF FlagTimes
    <2>4. CASE flag[t].state = "dropped" /\ flag'[t] = [flag[t] EXCEPT !.idle = @ + 1]
               /\ ~(mode = "CTF" /\ Returns(t))
      <3>1. mode = "CTF"
        BY <2>4 DEF FlagTimes
      <3>2. ~(flag[t].idle + 1 >= FlagReset)
        BY <2>4, <3>1 DEF Returns
      <3>3. flag'[t].idle = flag[t].idle + 1 /\ flag[t].idle \in Nat
        BY <2>1, <2>4 DEF Fields
      <3> QED
        BY <3>1, <3>2, <3>3, NoTime
    <2> QED
      BY <1>1, <2>2, <2>3, <2>4
  <1> QED
    BY <1>2, <1>3 DEF FlagTimes, LastTouches

LEMMA TouchTimes ==
  ASSUME IInv, BodiesInv, FlagTimes, LastTouches, over \in BOOLEAN, NEW u \in Units, Touch(u)
  PROVE  /\ FlagTimes' /\ LastTouches'
         /\ over => score' = score
  <1>0. /\ step = "touch" /\ step' = "touch" /\ mode' = mode /\ mode = "CTF"
        /\ visit = u /\ visit' = u + 1 /\ u \in Nat /\ Units \subseteq Nat
    BY GameUnitsAssumption DEF Touch, At, OnFrom, FlagTimes, Units
  <1>1. CASE UNCHANGED <<flags, game>>
    <2>1. UNCHANGED <<flag, over, score>>
      BY <1>1 DEF flags, game
    <2>2. \A t \in Teams : flag[t] \in Fields /\ (flag[t].state = "carried" => flag[t].carrier \in Units)
      BY NobodyIsNoUnit DEF IInv, Types, FlagsInv, LooseFlags, Fields
    <2>3. ASSUME over, NEW t \in Teams, flag[t].state = "carried" PROVE flag[t].carrier < visit'
      <3>1. flag[t].carrier < u /\ flag[t].carrier \in Nat
        BY <1>0, <2>2, <2>3 DEF LastTouches
      <3> QED
        BY <1>0, <3>1
    <2> QED
      BY <1>0, <2>1, <2>3 DEF FlagTimes, LastTouches
  <1>2. CASE Touches(u)
    <2>1. PICK near \in Reach(u) :
        LET held == IF Takes(u, near) THEN Enemy(u) ELSE holds[u]
            captures == Captures(u, held, near) IN
        /\ flag' = [t \in Teams |->
              IF captures /\ t = held THEN Home
              ELSE IF Takes(u, near) /\ t = Enemy(u) THEN CarriedBy(u)
              ELSE IF t = team[u] /\ "ours" \in near /\ flag[t].state = "dropped" THEN Home
              ELSE flag[t]]
        /\ IF captures THEN Scored([score EXCEPT ![team[u]] = @ + 1], team[u]) ELSE UNCHANGED game
      BY <1>2 DEF Touches
    <2> DEFINE held == IF Takes(u, near) THEN Enemy(u) ELSE holds[u]
               captures == Captures(u, held, near)
    <2>2. /\ team[u] \in Teams /\ Enemy(u) \in Teams /\ Enemy(u) # team[u]
          /\ Teams = {team[u], Enemy(u)}
          /\ holds[u] \in Teams \cup {NoFlag}
      BY DEF IInv, Types, Enemy, Teams
    <2>3. /\ Home.state = "home" /\ Home.idle = 0
          /\ CarriedBy(u).state = "carried" /\ CarriedBy(u).carrier = u /\ CarriedBy(u).idle = 0
      BY DEF Home, CarriedBy
    <2>4. \A t \in Teams : \/ flag'[t] = Home
                           \/ flag'[t] = CarriedBy(u)
                           \/ flag'[t] = flag[t] /\ ~(captures /\ t = held)
                              /\ ~(t = team[u] /\ "ours" \in near /\ flag[t].state = "dropped")
      BY <2>1
    <2>5. FlagTimes'
      BY <1>0, <2>3, <2>4, NoTime DEF FlagTimes
    <2>6. captures => ~over
      <3> SUFFICES ASSUME captures, over PROVE FALSE
        OBVIOUS
      <3>1. held # NoFlag /\ "stand" \in near
        BY DEF Captures
      <3>2. CASE Takes(u, near)
        <4>1. "theirs" \in near /\ flag[Enemy(u)].state # "carried"
          BY <3>2 DEF Takes
        <4>2. flag[Enemy(u)].state = "home"
          BY <1>0, <2>2, <4>1 DEF LastTouches
        <4> QED
          BY <2>1, <3>1, <4>1, <4>2 DEF Reach
      <3>3. CASE ~Takes(u, near)
        <4>1. holds[u] \in Teams
          BY <2>2, <3>1, <3>3
        <4>2. flag[holds[u]].state = "carried" /\ flag[holds[u]].carrier = u
          BY <4>1 DEF IInv, FlagsInv, CarriersAgree
        <4>3. u < u
          BY <1>0, <4>1, <4>2 DEF LastTouches
        <4> QED
          BY <1>0, <4>3
      <3> QED
        BY <3>2, <3>3
    <2>7. ~captures => over' = over /\ score' = score
      BY <2>1 DEF game
    <2>8. CASE ~captures
      <3>1. ASSUME over, NEW t \in Teams
            PROVE  \/ flag'[t].state = "home"
                   \/ flag'[t].state = "carried" /\ flag'[t].carrier < visit'
        <4>1. flag[t] \in Fields
          BY DEF IInv, Types
        <4>2. \/ flag[t].state = "home"
              \/ flag[t].state = "carried" /\ flag[t].carrier < u /\ flag[t].carrier \in Nat
          <5>1. flag[t].state = "carried" => flag[t].carrier \in Units
            BY <4>1, NobodyIsNoUnit DEF IInv, FlagsInv, LooseFlags, Fields
          <5> QED
            BY <1>0, <3>1, <5>1 DEF LastTouches
        <4> QED
          BY <1>0, <2>3, <2>4, <4>2
      <3> QED
        BY <1>0, <2>5, <2>7, <2>8, <3>1 DEF LastTouches
    <2>9. CASE captures
      <3>1. /\ held # NoFlag
            /\ flag[team[u]].state = "home" \/ (flag[team[u]].state = "dropped" /\ "ours" \in near)
        BY <2>9 DEF Captures
      <3>2. held = Enemy(u)
        <4>1. CASE ~Takes(u, near)
          <5>1. holds[u] \in Teams /\ flag[holds[u]].state = "carried"
            BY <2>2, <3>1, <4>1 DEF IInv, FlagsInv, CarriersAgree
          <5>2. holds[u] # team[u]
            BY <3>1, <5>1
          <5> QED
            BY <2>2, <4>1, <5>1, <5>2
        <4> QED
          BY <4>1
      <3>3. flag'[Enemy(u)] = Home
        BY <2>1, <2>2, <2>9, <3>2
      <3>4. flag'[team[u]].state = "home"
        BY <2>1, <2>2, <2>3, <3>1, <3>2
      <3>5. \A t \in Teams : flag'[t].state = "home"
        BY <2>2, <2>3, <3>3, <3>4
      <3> QED
        BY <2>5, <2>6, <2>9, <3>5 DEF LastTouches
    <2> QED
      BY <2>8, <2>9
  <1> QED
    BY <1>1, <1>2 DEF Touch

LEMMA TimesNext ==
  ASSUME IInv, BodiesInv, FlagTimes, LastTouches, over \in BOOLEAN, [TeamNext]_teamVars
  PROVE  FlagTimes' /\ LastTouches'
  <1>1. ASSUME UNCHANGED <<mode, flag>>, step' # "touch" PROVE FlagTimes' /\ LastTouches'
    BY <1>1 DEF FlagTimes, LastTouches
  <1>2. CASE Begin \/ EndTouch \/ EndPeers \/ Wreck
    BY <1>1, <1>2 DEF Begin, EndTouch, EndPeers, Wreck, GoTo, flags
  <1>3. CASE Session
    <2>1. step' = "peers" /\ mode' = mode /\ (Start \/ flag' = flag)
      BY <1>3 DEF Session, GoTo, flags
    <2>2. CASE Start
      BY <2>1, <2>2, NoTime DEF Start, FlagTimes, LastTouches, Home
    <2> QED
      BY <1>1, <2>1, <2>2
  <1>4. ASSUME NEW u \in Units, VisitDead(u) \/ VisitAlive(u) \/ SkipNobody(u)
        PROVE  FlagTimes' /\ LastTouches'
    <2>1. UNCHANGED <<mode, step>> /\ step = "units" /\ (flag' = flag \/ DropFlag(u))
      BY <1>4 DEF VisitDead, VisitAlive, SkipNobody, At, OnFrom, Spawn, flags
    <2> QED
      BY <1>1, <2>1, DropTimes
  <1>5. ASSUME NEW u \in Units, Die(u) \/ LivesOn(u) \/ Quit(u) \/ PutDown(u)
        PROVE  FlagTimes' /\ LastTouches'
    <2>1. UNCHANGED <<mode, step>> /\ step # "touch" /\ (flag' = flag \/ DropFlag(u))
      BY <1>5 DEF Die, LivesOn, Quit, PutDown, At, OnFrom, flags
    <2> QED
      BY <1>1, <2>1, DropTimes
  <1>6. ASSUME NEW u \in Units, Hurt(u) \/ Enter(u) \/ KeptOut(u) \/ Rejected(u) \/ Revive(u)
        PROVE  FlagTimes' /\ LastTouches'
    BY <1>1, <1>6 DEF Hurt, Enter, KeptOut, Rejected, Revive, Spawn, flags
  <1>7. ASSUME NEW u \in Units, NEW t \in Teams, Chooses(u, t) PROVE FlagTimes' /\ LastTouches'
    BY <1>1, <1>7 DEF Chooses, flags
  <1>8. CASE UNCHANGED teamVars
    BY <1>8 DEF teamVars, flags, game, FlagTimes, LastTouches
  <1> QED
    BY <1>2, <1>3, <1>4, <1>5, <1>6, <1>7, <1>8, FlagsAgeTimes, TouchTimes
       DEF TeamNext, TickStep, UnitStep

-----------------------------------------------------------------------------
(* The scores and the result *)

ScoresInv ==
    /\ over \in BOOLEAN /\ told \in BOOLEAN
    /\ score \in [Teams -> Int] /\ \A t \in Teams : score[t] >= -MinScore
    /\ over \/ \A t \in Teams : score[t] < ScoreLimit
    /\ winner \in Teams \cup {Nobody} /\ overTimer \in 0..Postgame

LEMMA NoScores ==
  ASSUME NEW s, s = [t \in Teams |-> 0]
  PROVE  /\ s \in [Teams -> Int]
         /\ \A t \in Teams : s[t] >= -MinScore /\ s[t] < ScoreLimit
         /\ 0 \in 0..Postgame
  <1>1. 0 < ScoreLimit /\ 0 >= -MinScore /\ 0 \in 0..Postgame
    BY TeamGameAssumption
  <1>2. \A t \in Teams : s[t] = 0
    OBVIOUS
  <1>3. s \in [Teams -> Int]
    OBVIOUS
  <1> QED
    BY <1>1, <1>2, <1>3

(* What a step may do to the game's result. *)
LEMMA GameSteps ==
  ASSUME [TeamNext]_teamVars
  PROVE  \/ UNCHANGED game
         \/ Begin \/ Session
         \/ \E u \in Units : Touches(u) /\ Touch(u)
         \/ \E u \in Units : Die(u)
  <1>1. ASSUME NEW u \in Units, UnitStep(u)
        PROVE  UNCHANGED game \/ (Touches(u) /\ Touch(u)) \/ Die(u)
    BY <1>1 DEF UnitStep, VisitDead, VisitAlive, SkipNobody, Touch, LivesOn
  <1>2. ASSUME NEW u \in Units,
               Hurt(u) \/ Enter(u) \/ Quit(u) \/ KeptOut(u) \/ Rejected(u) \/ Revive(u) \/ PutDown(u)
        PROVE  UNCHANGED game
    BY <1>2 DEF Hurt, Enter, Quit, KeptOut, Rejected, Revive, PutDown
  <1>3. ASSUME NEW u \in Units, NEW t \in Teams, Chooses(u, t) PROVE UNCHANGED game
    BY <1>3 DEF Chooses
  <1>4. FlagsAge \/ EndTouch \/ EndPeers \/ Wreck => UNCHANGED game
    BY DEF FlagsAge, EndTouch, EndPeers, Wreck
  <1>5. UNCHANGED teamVars => UNCHANGED game
    BY DEF teamVars
  <1> QED
    BY <1>1, <1>2, <1>3, <1>4, <1>5 DEF TeamNext, TickStep

LEMMA ScoredInv ==
  ASSUME ScoresInv, NEW s \in [Teams -> Int], NEW t \in Teams, Scored(s, t),
         \A r \in Teams : s[r] >= -MinScore /\ (r = t \/ s[r] <= score[r])
  PROVE  ScoresInv'
  <1>1. score' = s /\ overTimer' = overTimer
    BY DEF Scored
  <1>2. /\ MinScore \in Int /\ ScoreLimit \in Int
        /\ \A r \in Teams : s[r] \in Int /\ score[r] \in Int
    BY TeamGameAssumption DEF ScoresInv
  <1>3. CASE ~over /\ s[t] >= ScoreLimit
    BY <1>1, <1>3 DEF Scored, ScoresInv
  <1>4. CASE ~(~over /\ s[t] >= ScoreLimit)
    <2>1. UNCHANGED <<over, winner, told>>
      BY <1>4 DEF Scored
    <2>2. over \/ \A r \in Teams : s[r] < ScoreLimit
      BY <1>2, <1>4 DEF ScoresInv
    <2> QED
      BY <1>1, <2>1, <2>2 DEF ScoresInv
  <1> QED
    BY <1>3, <1>4

(* Only the team of the killer gains by a death, if any. *)
LEMMA DeathScores ==
  ASSUME ScoresInv, IInv, NEW u \in Units, NEW k \in Units \cup {NoUnit}
  PROVE  /\ ScoreOfDeath(u, k) \in [Teams -> Int]
         /\ \A r \in Teams : /\ ScoreOfDeath(u, k)[r] >= -MinScore
                             /\ \/ ScoreOfDeath(u, k)[r] <= score[r]
                                \/ k # NoUnit /\ r = team[k] /\ mode = "SLAYER"
  <1>1. /\ MinScore \in Nat /\ \A r \in Teams : score[r] \in Int /\ score[r] >= -MinScore
        /\ \A v \in Units : team[v] \in Teams
    BY TeamGameAssumption DEF ScoresInv, IInv, Types
  <1>2. ASSUME NEW r \in Teams
        PROVE  Plus(score[r], -1) \in Int /\ Plus(score[r], -1) >= -MinScore
               /\ Plus(score[r], -1) <= score[r]
    BY <1>1 DEF Plus
  <1>3. Present \subseteq Units /\ (k \in Present => k # NoUnit)
    BY NobodyIsNoUnit DEF Present
  <1>4. CASE mode # "SLAYER"
    BY <1>1, <1>4 DEF ScoreOfDeath, ScoresInv
  <1>5. CASE mode = "SLAYER" /\ k \in Present \ {u} /\ team[k] # team[u]
    <2>1. ScoreOfDeath(u, k) = [score EXCEPT ![team[k]] = @ + 1]
      BY <1>5 DEF ScoreOfDeath
    <2>2. team[k] \in Teams /\ k # NoUnit
      BY <1>1, <1>3, <1>5
    <2> QED
      BY <1>1, <1>5, <2>1, <2>2 DEF ScoresInv
  <1>6. CASE mode = "SLAYER" /\ k \in Present \ {u} /\ team[k] = team[u]
    <2>1. ScoreOfDeath(u, k) = [score EXCEPT ![team[k]] = Plus(@, -1)] /\ team[k] \in Teams
      BY <1>1, <1>3, <1>6 DEF ScoreOfDeath
    <2> QED
      BY <1>1, <1>2, <2>1 DEF ScoresInv
  <1>7. CASE mode = "SLAYER" /\ k \notin Present \ {u}
    <2>1. ScoreOfDeath(u, k) = [score EXCEPT ![team[u]] = Plus(@, -1)] /\ team[u] \in Teams
      BY <1>1, <1>7 DEF ScoreOfDeath
    <2> QED
      BY <1>1, <1>2, <2>1 DEF ScoresInv
  <1> QED
    BY <1>4, <1>5, <1>6, <1>7

LEMMA ScoresNext == IInv /\ BodiesInv /\ ScoresInv /\ [TeamNext]_teamVars => ScoresInv'
  <1> SUFFICES ASSUME IInv, BodiesInv, ScoresInv, [TeamNext]_teamVars PROVE ScoresInv'
    OBVIOUS
  <1>1. CASE UNCHANGED game
    BY <1>1 DEF game, ScoresInv
  <1>2. CASE Begin
    <2>1. Leader \in Teams \cup {Nobody}
      BY DEF Leader, Teams
    <2> QED
      BY <1>1, <1>2, <2>1 DEF Begin, ScoresInv
  <1>3. CASE Session
    <2>1. CASE TimeOver = 1
      <3>1. /\ over' = FALSE /\ winner' = Nobody /\ told' = FALSE /\ overTimer' = 0
            /\ score' = [t \in Teams |-> 0]
        BY <1>3, <2>1 DEF Session, Start
      <3>2. /\ score' \in [Teams -> Int]
            /\ \A t \in Teams : score'[t] >= -MinScore /\ score'[t] < ScoreLimit
            /\ 0 \in 0..Postgame
        BY <3>1, NoScores
      <3> QED
        BY <3>1, <3>2 DEF ScoresInv
    <2>2. CASE TimeOver # 1
      <3>1. /\ told' = FALSE /\ UNCHANGED <<score, over, winner>>
            /\ overTimer' = IF TimeOver > 0 THEN TimeOver - 1 ELSE 0
        BY <1>3, <2>2 DEF Session
      <3>2. overTimer' \in 0..Postgame
        BY <3>1, TeamGameAssumption DEF TimeOver, ScoresInv
      <3> QED
        BY <3>1, <3>2 DEF ScoresInv
    <2> QED
      BY <2>1, <2>2
  <1>4. ASSUME NEW u \in Units, Touches(u) PROVE ScoresInv'
    <2>1. team[u] \in Teams
      BY DEF IInv, Types
    <2> DEFINE s == [score EXCEPT ![team[u]] = @ + 1]
    <2>2. UNCHANGED game \/ Scored(s, team[u])
      BY <1>4 DEF Touches
    <2>3. s \in [Teams -> Int] /\ \A r \in Teams : s[r] >= -MinScore /\ (r = team[u] \/ s[r] <= score[r])
      BY <2>1, TeamGameAssumption DEF ScoresInv
    <2> HIDE DEF s
    <2> QED
      BY <1>1, <2>1, <2>2, <2>3, ScoredInv
  <1>5. ASSUME NEW u \in Units, Die(u) PROVE ScoresInv'
    <2>1. PICK k \in Units \cup {NoUnit} :
             IF k # NoUnit /\ mode = "SLAYER" THEN Scored(ScoreOfDeath(u, k), team[k])
             ELSE score' = ScoreOfDeath(u, k) /\ UNCHANGED <<over, winner, told, overTimer>>
      BY <1>5 DEF Die
    <2> DEFINE s == ScoreOfDeath(u, k)
    <2>2. /\ s \in [Teams -> Int]
          /\ \A r \in Teams : /\ s[r] >= -MinScore
                              /\ s[r] <= score[r] \/ (k # NoUnit /\ r = team[k] /\ mode = "SLAYER")
      BY DeathScores
    <2>3. IF k # NoUnit /\ mode = "SLAYER" THEN Scored(s, team[k])
          ELSE score' = s /\ UNCHANGED <<over, winner, told, overTimer>>
      BY <2>1
    <2>4. k # NoUnit => team[k] \in Teams
      BY DEF IInv, Types
    <2> HIDE DEF s
    <2>5. CASE k # NoUnit /\ mode = "SLAYER"
      BY <2>2, <2>3, <2>4, <2>5, ScoredInv
    <2>6. CASE ~(k # NoUnit /\ mode = "SLAYER")
      <3>1. \A r \in Teams : s[r] \in Int /\ score[r] \in Int /\ s[r] <= score[r]
        BY <2>2, <2>6 DEF ScoresInv
      <3>2. over \/ \A r \in Teams : s[r] < ScoreLimit
        BY <3>1, TeamGameAssumption DEF ScoresInv
      <3> QED
        BY <2>2, <2>3, <2>6, <3>2 DEF ScoresInv
    <2> QED
      BY <2>5, <2>6
  <1> QED
    BY <1>1, <1>2, <1>3, <1>4, <1>5, GameSteps

(* All of it together. *)
RulesInv == IInv /\ BodiesInv /\ FlagTimes /\ LastTouches /\ ScoresInv /\ TimedInv

LEMMA RulesStart == TeamInit => RulesInv
  <1> SUFFICES ASSUME TeamInit PROVE RulesInv
    OBVIOUS
  <1>1. ScoresInv
    <2>1. /\ score \in [Teams -> Int]
          /\ \A t \in Teams : score[t] >= -MinScore /\ score[t] < ScoreLimit
          /\ 0 \in 0..Postgame
      BY NoScores DEF TeamInit
    <2> QED
      BY <2>1 DEF TeamInit, ScoresInv
  <1>2. TimedInv
    <2>1. 0 \in Nat /\ ~(0 > 0)
      OBVIOUS
    <2> QED
      BY <2>1 DEF TeamInit, TimedInv, EndIsTimed
  <1> QED
    BY <1>1, <1>2, InitInv, BodiesStart, FlagTimesStart DEF RulesInv

LEMMA RulesNext == RulesInv /\ [TeamNext]_teamVars => RulesInv'
  BY InvariantNext, BodiesNext, TimesNext, ScoresNext, TimedStep DEF RulesInv, TimedInv

LEMMA RulesAlways == TeamSpec => []RulesInv
  BY RulesStart, RulesNext, PTL DEF TeamSpec

LEMMA RulesInvTypes == RulesInv => RulesTypeOK
  <1> SUFFICES ASSUME RulesInv PROVE RulesTypeOK
    OBVIOUS
  <1>1. ASSUME NEW t \in Teams
        PROVE  flag[t] \in [state : {"home", "carried", "dropped"}, carrier : Units \cup {NoUnit},
                            idle : 0..FlagReset - 1]
    <2>1. flag[t] \in Fields /\ flag[t].idle < FlagReset
      BY DEF RulesInv, IInv, Types, FlagTimes
    <2> QED
      BY <2>1, NoTime DEF Fields
  <1>2. flag \in [Teams -> [state : {"home", "carried", "dropped"}, carrier : Units \cup {NoUnit},
                            idle : 0..FlagReset - 1]]
    BY <1>1 DEF RulesInv, IInv, Types
  <1> QED
    BY <1>2 DEF RulesTypeOK, RulesInv, IInv, Types, BodiesInv, ScoresInv, Parts

(* Whatever happens in whichever part of the tick, the rules' state stays well
   formed: among other things a score that reaches the limit has ended the game,
   a flag never lies longer than its time, and who is dying is alive. *)
THEOREM RulesAreTyped == TeamSpec => []RulesTypeOK
  BY RulesAlways, RulesInvTypes, PTL

LEMMA ResultStep ==
  RulesInv /\ [TeamNext]_teamVars =>
      (over /\ over' => winner' = winner /\ (mode = "CTF" => score' = score))
  <1> SUFFICES ASSUME RulesInv, [TeamNext]_teamVars, over, over'
               PROVE  winner' = winner /\ (mode = "CTF" => score' = score)
    OBVIOUS
  <1>1. CASE UNCHANGED game
    BY <1>1 DEF game
  <1>2. CASE Begin
    BY <1>1, <1>2 DEF Begin
  <1>3. CASE Session
    BY <1>3 DEF Session, Start
  <1>4. ASSUME NEW u \in Units, Touches(u), Touch(u)
        PROVE  winner' = winner /\ (mode = "CTF" => score' = score)
    <2>1. score' = score
      BY <1>4, TouchTimes DEF RulesInv, ScoresInv
    <2>2. winner' = winner
      BY <1>1, <1>4 DEF Touches, Scored
    <2> QED
      BY <2>1, <2>2
  <1>5. ASSUME NEW u \in Units, Die(u)
        PROVE  winner' = winner /\ (mode = "CTF" => score' = score)
    BY <1>5 DEF Die, Scored, ScoreOfDeath
  <1> QED
    BY <1>1, <1>2, <1>3, <1>4, <1>5, GameSteps

(* The game's end is final until the next game: whoever is touched or dies later in
   that tick, the winner is the one announced, and no more flags are counted.  This
   is why LastTouches must hold: a capture in the same tick would count if a unit
   yet to come still carried a flag, or found one lying. *)
THEOREM TheResultStands == TeamSpec => ResultStands
  <1>1. RulesInv /\ [TeamNext]_teamVars =>
            [over /\ over' => winner' = winner /\ (mode = "CTF" => score' = score)]_teamVars
    BY ResultStep
  <1> QED
    BY <1>1, RulesAlways, PTL DEF TeamSpec, ResultStands
=============================================================================
