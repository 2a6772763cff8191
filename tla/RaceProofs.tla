----------------------------- MODULE RaceProofs -----------------------------
(***************************************************************************)
(* The races, for any number of racers, gates, laps and times: what ends a *)
(* race is the number of finishers still here (FinishersCounted), karts    *)
(* and drivers match (KartsMatchDrivers), and the standings are a ranking  *)
(* (StandingsAreARanking).                                                 *)
(*                                                                         *)
(* A place on the grid is never given twice because none can be taken      *)
(* after GO: the places given out and those who still drive are together   *)
(* no more than the grid (PlacesLeft), and before the start none is given  *)
(* (NobodyFinished).  At the end, the races beside the team games: MCModes *)
(* plays each by its own specification.                                    *)
(***************************************************************************)
EXTENDS MCModes, TeamGameProofs, FiniteSetTheorems, TLAPS

Finished == {i \in Active : racer[i].finished}

PlacesLeft == finishOrderNext + Cardinality(Driving) <= GridCount

NobodyFinished ==
    racePhase \in {"READY", "COUNTDOWN"} => finishOrderNext = 0 /\ Finished = {}

RaceInv ==
    /\ RaceTypeOK /\ FinishersCounted /\ PlacesUnique /\ KartsMatchDrivers
    /\ PlacesLeft /\ NobodyFinished

-----------------------------------------------------------------------------
(* Counting *)

LEMMA GridFinite ==
    /\ IsFiniteSet(Grid) /\ Cardinality(Grid) = GridCount /\ GridCount \in Nat
    /\ Grid \subseteq Units /\ Grid \subseteq Nat
    /\ \A S \in SUBSET Grid : /\ IsFiniteSet(S) /\ Cardinality(S) \in Nat
                              /\ Cardinality(S) <= GridCount
  <1>1. GridCount \in Nat /\ GridCount >= 1 /\ GridCount <= NumUnits /\ NumUnits \in Nat
    BY RaceAssumption, GameUnitsAssumption
  <1>2. IsFiniteSet(Grid) /\ Cardinality(Grid) = GridCount
    BY <1>1, FS_Interval DEF Grid
  <1>3. \A S \in SUBSET Grid : IsFiniteSet(S) /\ Cardinality(S) \in Nat /\ Cardinality(S) <= GridCount
    BY <1>2, FS_Subset, FS_CardinalityType
  <1> QED
    BY <1>1, <1>2, <1>3 DEF Grid, Units

(* Who stands before whom: if of any two members of S one stands before the other,
   with all that stand before it, then counting those before ranks S. *)
LEMMA Ranks ==
    ASSUME NEW S, IsFiniteSet(S), NEW before \in [S -> SUBSET S],
           \A i \in S : i \notin before[i],
           \A i, k \in S : i # k => \/ before[i] \cup {i} \subseteq before[k]
                                    \/ before[k] \cup {k} \subseteq before[i]
    PROVE  /\ \A i \in S : Cardinality(before[i]) \in Nat /\ Cardinality(before[i]) < Cardinality(S)
           /\ \A i, k \in S : before[i] \cup {i} \subseteq before[k] =>
                  Cardinality(before[i]) < Cardinality(before[k])
           /\ \A i, k \in S : i # k => Cardinality(before[i]) # Cardinality(before[k])
           /\ {1 + Cardinality(before[i]) : i \in S} = 1..Cardinality(S)
  <1> DEFINE N == Cardinality(S)
             rank == [i \in S |-> 1 + Cardinality(before[i])]
  <1>1. N \in Nat
    BY FS_CardinalityType
  <1>2. ASSUME NEW i \in S, NEW T \in SUBSET S, before[i] \cup {i} \subseteq T
        PROVE  /\ Cardinality(before[i]) \in Nat /\ Cardinality(T) \in Nat
               /\ Cardinality(before[i]) < Cardinality(T)
    <2>1. IsFiniteSet(before[i]) /\ IsFiniteSet(T)
      BY FS_Subset
    <2>2. /\ Cardinality(before[i] \cup {i}) = Cardinality(before[i]) + 1
          /\ Cardinality(before[i] \cup {i}) <= Cardinality(T)
      BY <1>2, <2>1, FS_AddElement, FS_Subset
    <2>3. Cardinality(before[i]) \in Nat /\ Cardinality(T) \in Nat
      BY <2>1, FS_CardinalityType
    <2> QED
      BY <2>2, <2>3
  <1>3. \A i \in S : Cardinality(before[i]) \in Nat /\ Cardinality(before[i]) < N
    BY <1>2
  <1>4. \A i, k \in S : before[i] \cup {i} \subseteq before[k] =>
            Cardinality(before[i]) < Cardinality(before[k])
    BY <1>2
  <1>5. \A i, k \in S : i # k => Cardinality(before[i]) # Cardinality(before[k])
    BY <1>3, <1>4
  <1>6. rank \in Injection(S, 1..N)
    <2>1. rank \in [S -> 1..N]
      BY <1>1, <1>3
    <2>2. ASSUME NEW i \in S, NEW k \in S, rank[i] = rank[k] PROVE i = k
      BY <1>3, <1>5, <2>2
    <2> QED
      BY <2>1, <2>2 DEF Injection, IsInjective
  <1>7. IsFiniteSet(1..N) /\ Cardinality(1..N) = N
    BY <1>1, FS_Interval
  <1>8. rank \in Surjection(S, 1..N)
    BY <1>6, <1>7, FS_Injection
  <1>9. {1 + Cardinality(before[i]) : i \in S} = 1..N
    <2>1. \A n \in 1..N : \E i \in S : rank[i] = n
      BY <1>8 DEF Surjection
    <2>2. \A i \in S : rank[i] \in 1..N
      BY <1>6 DEF Injection
    <2> QED
      BY <2>1, <2>2
  <1> QED
    BY <1>3, <1>4, <1>5, <1>9

-----------------------------------------------------------------------------
(* The drive of a tick *)

LEMMA NextGate ==
    \A n \in Gates : (n + 1) % GateCount \in Gates /\ ((n + 1) % GateCount = 1 => n = 0)
  <1> SUFFICES ASSUME NEW n \in Gates
               PROVE  (n + 1) % GateCount \in Gates /\ ((n + 1) % GateCount = 1 => n = 0)
    OBVIOUS
  <1>1. GateCount \in Nat /\ GateCount >= 2 /\ n \in Nat /\ n < GateCount
    BY RaceAssumption DEF Gates
  <1>2. (n + 1) % GateCount \in 0..GateCount - 1
    BY <1>1
  <1>3. n + 1 < GateCount => (n + 1) % GateCount = n + 1
    BY <1>1
  <1>4. n + 1 = GateCount => (n + 1) % GateCount = 0
    BY <1>1
  <1> QED
    BY <1>1, <1>2, <1>3, <1>4 DEF Gates

(* Those who finish in one tick are given the next places, one each. *)
LEMMA PlacesOf ==
    ASSUME NEW finishing \in SUBSET Grid, finishOrderNext \in Nat
    PROVE  /\ \A i \in finishing :
                 Place(i, finishing) \in finishOrderNext + 1..finishOrderNext + Cardinality(finishing)
           /\ \A i, k \in finishing : i # k => Place(i, finishing) # Place(k, finishing)
  <1> DEFINE before == [i \in finishing |-> {j \in finishing : j < i}]
  <1>1. IsFiniteSet(finishing) /\ finishing \subseteq Nat /\ Cardinality(finishing) \in Nat
    BY GridFinite
  <1>2. /\ before \in [finishing -> SUBSET finishing]
        /\ \A i \in finishing : i \notin before[i]
        /\ \A i, k \in finishing : i # k => \/ before[i] \cup {i} \subseteq before[k]
                                            \/ before[k] \cup {k} \subseteq before[i]
    <2>1. before \in [finishing -> SUBSET finishing]
      OBVIOUS
    <2>2. \A i \in finishing : \A j : j \in before[i] <=> j \in finishing /\ j < i
      OBVIOUS
    <2>3. \A i, k \in finishing : i < k => before[i] \cup {i} \subseteq before[k]
      <3> SUFFICES ASSUME NEW i \in finishing, NEW k \in finishing, i < k, NEW j \in before[i] \cup {i}
                   PROVE  j \in before[k]
        BY <2>1
      <3>1. j \in finishing /\ (j < i \/ j = i)
        BY <2>2
      <3>2. i \in Nat /\ j \in Nat /\ k \in Nat
        BY <1>1, <3>1
      <3> HIDE DEF before
      <3> QED
        BY <2>2, <3>1, <3>2
    <2>4. \A i, k \in finishing : i # k => i < k \/ k < i
      BY <1>1
    <2>5. \A i \in finishing : ~(i < i)
      BY <1>1
    <2> HIDE DEF before
    <2> QED
      BY <2>1, <2>2, <2>3, <2>4, <2>5
  <1>3. /\ \A i \in finishing : /\ Cardinality(before[i]) \in Nat
                                /\ Cardinality(before[i]) < Cardinality(finishing)
        /\ \A i, k \in finishing : i # k => Cardinality(before[i]) # Cardinality(before[k])
    <2> HIDE DEF before
    <2> QED
      BY <1>1, <1>2, Ranks
  <1>4. ASSUME NEW i \in finishing
        PROVE  Cardinality({j \in finishing : j <= i}) = 1 + Cardinality(before[i])
    <2>1. before[i] = {j \in finishing : j < i}
      OBVIOUS
    <2>2. \A j \in finishing : j <= i <=> j < i \/ j = i
      BY <1>1
    <2>3. {j \in finishing : j <= i} = {j \in finishing : j < i} \cup {i}
      BY <2>2
    <2>4. IsFiniteSet(before[i]) /\ i \notin before[i]
      BY <1>1, <1>2, FS_Subset
    <2>5. Cardinality(before[i] \cup {i}) = Cardinality(before[i]) + 1
      BY <2>4, FS_AddElement
    <2>6. Cardinality(before[i]) \in Nat
      BY <1>3
    <2>7. {j \in finishing : j <= i} = before[i] \cup {i}
      BY <2>1, <2>3
    <2> HIDE DEF before
    <2>8. Cardinality({j \in finishing : j <= i}) = Cardinality(before[i]) + 1
      BY ONLY <2>5, <2>7
    <2> QED
      BY <2>6, <2>8
  <1> HIDE DEF before
  <1> QED
    BY <1>1, <1>3, <1>4 DEF Place

(* What Drive makes of the racers: some of those who drive finish. *)
Drives(finishing) ==
    /\ finishing \subseteq Driving
    /\ racer' \in [Grid -> Racers]
    /\ \A i \in Grid :
          /\ racer'[i].active = racer[i].active
          /\ racer'[i].finished = (racer[i].finished \/ i \in finishing)
          /\ racer'[i].order = IF i \in finishing THEN Place(i, finishing) ELSE racer[i].order
    /\ finishOrderNext' = finishOrderNext + Cardinality(finishing)
    /\ finishedCount' = finishedCount + Cardinality(finishing)
    /\ resultWait' \in 0..ResultWait

LEMMA RacerFields ==
    ASSUME NEW r \in Racers
    PROVE  /\ r = [active |-> r.active, finished |-> r.finished, lap |-> r.lap,
                   nextGate |-> r.nextGate, order |-> r.order, progress |-> r.progress]
           /\ r.active \in BOOLEAN /\ r.finished \in BOOLEAN /\ r.lap \in 1..LapCount
           /\ r.nextGate \in Gates /\ r.order \in 0..GridCount /\ r.progress \in 0..MaxProgress
  BY DEF Racers

Alike(q, r) == q.active = r.active /\ q.finished = r.finished /\ q.order = r.order

LEMMA PassesGate ==
    ASSUME NEW r \in Racers, NEW g \in Gates
    PROVE  LET q == [r EXCEPT !.nextGate = g] IN
           q \in Racers /\ Alike(q, r) /\ q.nextGate = g /\ q.lap = r.lap
  BY DEF Racers, Alike

LEMMA NextLap ==
    ASSUME NEW r \in Racers, r.lap + 1 \in 1..LapCount
    PROVE  LET q == [r EXCEPT !.lap = @ + 1] IN q \in Racers /\ Alike(q, r)
  BY DEF Racers, Alike

LEMMA PassesFinish ==
    ASSUME NEW r \in Racers, NEW o \in 0..GridCount
    PROVE  LET q == [r EXCEPT !.finished = TRUE, !.order = o] IN
           q \in Racers /\ q.active = r.active /\ q.finished /\ q.order = o
  BY DEF Racers

LEMMA Progresses ==
    ASSUME NEW r \in Racers, NEW n \in 0..MaxProgress
    PROVE  LET q == [r EXCEPT !.progress = n] IN q \in Racers /\ Alike(q, r)
  BY DEF Racers, Alike

LEMMA DriveIs ==
    ASSUME RaceInv, Drive PROVE \E finishing \in SUBSET Grid : Drives(finishing)
  <1>1. PICK at \in [Driving -> 0..GateCount], along \in [Driving -> 0..MaxProgress] :
            LET finishing == {i \in Driving : Finishes(i, at[i])} IN
            /\ racer' = [i \in Grid |->
                  IF i \notin Driving THEN racer[i]
                  ELSE [(IF Advances(i, at[i]) THEN Advanced(i, finishing) ELSE racer[i])
                            EXCEPT !.progress = along[i]]]
            /\ finishOrderNext' = finishOrderNext + Cardinality(finishing)
            /\ finishedCount' = finishedCount + Cardinality(finishing)
            /\ resultWait' = IF finishedCount = 0 /\ finishing # {} THEN ResultWait
                             ELSE IF resultWait > 0 THEN resultWait - 1 ELSE 0
    BY DEF Drive
  <1> DEFINE F == {i \in Driving : Finishes(i, at[i])}
  <1>2. F \in SUBSET Grid /\ F \subseteq Driving /\ Driving \subseteq Grid
    BY DEF Driving, Active
  <1>3. \A i \in F : Place(i, F) \in 1..GridCount
    <2>1. Cardinality(F) <= Cardinality(Driving) /\ Cardinality(F) \in Nat /\ Cardinality(Driving) \in Nat
      BY <1>2, GridFinite, FS_Subset
    <2>2. finishOrderNext \in Nat /\ finishOrderNext + Cardinality(F) <= GridCount
      BY <2>1, GridFinite DEF RaceInv, RaceTypeOK, PlacesLeft
    <2> HIDE DEF F
    <2> QED
      BY <1>2, <2>1, <2>2, GridFinite, PlacesOf
  <1>4. ASSUME NEW i \in Grid
        PROVE  /\ racer'[i] \in Racers /\ racer'[i].active = racer[i].active
               /\ racer'[i].finished = (racer[i].finished \/ i \in F)
               /\ racer'[i].order = IF i \in F THEN Place(i, F) ELSE racer[i].order
    <2>1. racer[i] \in Racers
      BY DEF RaceInv, RaceTypeOK
    <2>2. CASE i \notin Driving
      <3>1. racer'[i] = racer[i] /\ i \notin F /\ racer[i].finished \in BOOLEAN
        BY <1>1, <2>1, <2>2, RacerFields
      <3> HIDE DEF F
      <3> QED
        BY <2>1, <3>1
    <2>3. CASE i \in Driving
      <3> DEFINE e == IF Advances(i, at[i]) THEN Advanced(i, F) ELSE racer[i]
      <3>1. racer'[i] = [e EXCEPT !.progress = along[i]] /\ along[i] \in 0..MaxProgress
        BY <1>1, <2>3
      <3>2. ~racer[i].finished
        BY <2>3 DEF Driving
      <3>3. /\ e \in Racers /\ e.active = racer[i].active /\ e.finished = (i \in F)
            /\ e.order = IF i \in F THEN Place(i, F) ELSE racer[i].order
        <4>1. CASE ~Advances(i, at[i])
          BY <2>1, <3>2, <4>1, RacerFields DEF Finishes
        <4>2. CASE Advances(i, at[i])
          <5> DEFINE g == (racer[i].nextGate + 1) % GateCount
                     q == [racer[i] EXCEPT !.nextGate = g]
          <5>1. g \in Gates /\ (g = 1 => racer[i].nextGate = 0)
            BY <2>1, NextGate, RacerFields
          <5>2. /\ q \in Racers /\ Alike(q, racer[i]) /\ q.nextGate = g /\ q.lap = racer[i].lap
            BY <2>1, <5>1, PassesGate
          <5>3. e = IF i \in F THEN [q EXCEPT !.finished = TRUE, !.order = Place(i, F)]
                    ELSE IF q.nextGate = 1 THEN [q EXCEPT !.lap = @ + 1]
                    ELSE q
            <6> HIDE DEF F
            <6> QED
              BY <4>2 DEF Advanced
          <5>4. CASE i \in F
            <6>1. Place(i, F) \in 0..GridCount
              BY <1>3, <5>4, GridFinite
            <6>2. e = [q EXCEPT !.finished = TRUE, !.order = Place(i, F)]
              BY <5>3, <5>4
            <6> HIDE DEF F, e, q
            <6>3. e \in Racers /\ e.active = q.active /\ e.finished /\ e.order = Place(i, F)
              BY <5>2, <6>1, <6>2, PassesFinish
            <6>4. e.finished \in BOOLEAN
              BY <6>3, RacerFields
            <6> QED
              BY <5>2, <5>4, <6>3, <6>4 DEF Alike
          <5>5. CASE i \notin F /\ q.nextGate = 1
            <6>1. racer[i].lap # LapCount
              BY <2>3, <4>2, <5>1, <5>2, <5>5 DEF Finishes
            <6>2. q.lap + 1 \in 1..LapCount
              BY <2>1, <5>2, <6>1, RacerFields, RaceAssumption
            <6> HIDE DEF F, e, q
            <6> QED
              BY <3>2, <5>2, <5>3, <5>5, <6>2, NextLap, RacerFields DEF Alike
          <5>6. CASE i \notin F /\ q.nextGate # 1
            <6> HIDE DEF F, e, q
            <6> QED
              BY <3>2, <5>2, <5>3, <5>6, RacerFields DEF Alike
          <5> QED
            BY <5>4, <5>5, <5>6
        <4> QED
          BY <4>1, <4>2
      <3> HIDE DEF e, F
      <3>4. racer'[i] \in Racers /\ Alike(racer'[i], e)
        BY <3>1, <3>3, Progresses
      <3> QED
        BY <3>2, <3>3, <3>4, RacerFields DEF Alike
    <2> QED
      BY <2>2, <2>3
  <1>5. racer' \in [Grid -> Racers]
    BY <1>1, <1>4
  <1>6. resultWait' \in 0..ResultWait
    BY <1>1, RaceAssumption DEF RaceInv, RaceTypeOK
  <1>7. finishOrderNext' = finishOrderNext + Cardinality(F) /\ finishedCount' = finishedCount + Cardinality(F)
    BY <1>1
  <1>8. Drives(F)
    <2> HIDE DEF F
    <2> QED
      BY <1>2, <1>4, <1>5, <1>6, <1>7 DEF Drives
  <1> QED
    BY <1>2, <1>8

(* A drive gives its places to those who finish and keeps what is true of a race. *)
LEMMA DriveInv ==
    ASSUME RaceInv, NEW finishing \in SUBSET Grid, Drives(finishing), unit' = unit,
           racePhase' = "GO", timer' \in 0..ReadyTime + CountdownTime + ResultTime
    PROVE  RaceInv'
  <1> DEFINE n == Cardinality(finishing)
  <1>0. finishOrderNext \in Nat /\ finishedCount \in Nat /\ racer \in [Grid -> Racers]
    BY GridFinite DEF RaceInv, RaceTypeOK
  <1>1. /\ Active' = Active /\ Finished' = Finished \cup finishing
        /\ Driving' = Driving \ finishing /\ Finished \cap finishing = {}
        /\ finishing \subseteq Driving
        /\ Active \subseteq Grid /\ Driving \subseteq Grid /\ Finished \subseteq Grid
    BY DEF Drives, Active, Finished, Driving
  <1>2. /\ Cardinality(Finished \cup finishing) = Cardinality(Finished) + n
        /\ Cardinality(Driving \ finishing) = Cardinality(Driving) - n
        /\ n \in Nat /\ n <= Cardinality(Driving)
        /\ Cardinality(Driving) \in Nat /\ Cardinality(Finished) \in Nat
    <2>1. IsFiniteSet(Finished) /\ IsFiniteSet(finishing) /\ IsFiniteSet(Driving)
      BY <1>1, GridFinite
    <2>2. Cardinality(Finished) \in Nat /\ n \in Nat /\ Cardinality(Driving) \in Nat
      BY <2>1, FS_CardinalityType
    <2>3. Cardinality(Finished \cup finishing) = Cardinality(Finished) + n - Cardinality({})
      BY <1>1, <2>1, FS_Union
    <2>4. Driving \cap finishing = finishing
      BY <1>1
    <2>5. Cardinality(Driving \ finishing) = Cardinality(Driving) - n
      <3>1. Cardinality(Driving \ finishing)
              = Cardinality(Driving) - Cardinality(Driving \cap finishing)
        BY <2>1, FS_Difference
      <3> QED
        BY <2>4, <3>1
    <2>6. n <= Cardinality(Driving)
      BY <1>1, <2>1, FS_Subset
    <2> QED
      BY <2>2, <2>3, <2>5, <2>6, FS_EmptySet
  <1>3. finishedCount' = Cardinality(Finished')
    BY <1>1, <1>2 DEF Drives, RaceInv, FinishersCounted, Finished
  <1>4. PlacesLeft'
    BY <1>0, <1>1, <1>2, GridFinite DEF Drives, RaceInv, PlacesLeft
  <1>5. RaceTypeOK'
    <2>1. finishedCount' \in 0..GridCount
      BY <1>1, <1>2, <1>3, GridFinite
    <2>2. finishOrderNext' \in 0..GridCount
      <3>1. Cardinality(Driving') \in Nat /\ finishOrderNext' \in Nat
        BY <1>0, <1>1, <1>2, GridFinite DEF Drives
      <3> QED
        BY <1>4, <3>1, GridFinite DEF PlacesLeft
    <2> QED
      BY <2>1, <2>2 DEF RaceInv, RaceTypeOK, Drives, RacePhases
  <1>6. PlacesUnique'
    <2>1. /\ \A i \in finishing : Place(i, finishing) \in finishOrderNext + 1..finishOrderNext + n
          /\ \A i, k \in finishing : i # k => Place(i, finishing) # Place(k, finishing)
      BY <1>0, PlacesOf
    <2>2. \A i \in Finished : racer[i].order \in 1..finishOrderNext /\ racer'[i].order = racer[i].order
      BY <1>1 DEF RaceInv, PlacesUnique, Drives, Finished
    <2>3. \A i \in finishing : racer'[i].order \in finishOrderNext + 1..finishOrderNext + n
      BY <2>1 DEF Drives
    <2>4. finishOrderNext' = finishOrderNext + n
      BY DEF Drives
    <2>5. \A i \in Finished \cup finishing : racer'[i].order \in 1..finishOrderNext'
      BY <1>0, <1>2, <2>2, <2>3, <2>4
    <2>6. ASSUME NEW i \in Finished \cup finishing, NEW k \in Finished \cup finishing,
                 racer'[i].order = racer'[k].order
          PROVE  i = k
      <3>1. CASE i \in Finished /\ k \in Finished
        BY <2>2, <2>6, <3>1 DEF RaceInv, PlacesUnique, Finished
      <3>2. CASE i \in finishing /\ k \in finishing
        BY <2>1, <2>6, <3>2 DEF Drives
      <3>3. CASE i \in Finished /\ k \in finishing
        BY <1>0, <1>2, <2>2, <2>3, <2>6, <3>3
      <3>4. CASE i \in finishing /\ k \in Finished
        BY <1>0, <1>2, <2>2, <2>3, <2>6, <3>4
      <3> QED
        BY <3>1, <3>2, <3>3, <3>4
    <2> QED
      BY <1>1, <2>5, <2>6 DEF PlacesUnique, Finished
  <1>7. KartsMatchDrivers' /\ NobodyFinished'
    BY <1>1 DEF RaceInv, KartsMatchDrivers, NobodyFinished
  <1> QED
    BY <1>3, <1>4, <1>5, <1>6, <1>7 DEF RaceInv, FinishersCounted, Finished

(* Nothing changes but the time, or the race is over. *)
LEMMA TimePasses ==
    ASSUME RaceInv, UNCHANGED <<unit, racer, finishedCount, finishOrderNext>>,
           racePhase' \in RacePhases,
           racePhase' \in {"READY", "COUNTDOWN"} => racePhase \in {"READY", "COUNTDOWN"},
           timer' \in 0..ReadyTime + CountdownTime + ResultTime,
           resultWait' \in 0..ResultWait
    PROVE  RaceInv'
  <1>1. Active' = Active /\ Driving' = Driving /\ Finished' = Finished
    BY DEF Active, Driving, Finished
  <1>2. RaceTypeOK'
    BY DEF RaceInv, RaceTypeOK
  <1>3. FinishersCounted' /\ PlacesLeft' /\ NobodyFinished' /\ KartsMatchDrivers'
    BY <1>1 DEF RaceInv, FinishersCounted, PlacesLeft, NobodyFinished, KartsMatchDrivers, Finished
  <1>4. PlacesUnique'
    BY <1>1 DEF RaceInv, PlacesUnique
  <1> QED
    BY <1>2, <1>3, <1>4 DEF RaceInv

LEMMA NewRacerType == NewRacer \in Racers /\ NoRacer \in Racers
  <1>1. 1 \in Gates /\ 1 \in 1..LapCount /\ 0 \in 0..GridCount /\ 0 \in 0..MaxProgress
    BY RaceAssumption, GridFinite DEF Gates
  <1> QED
    BY <1>1 DEF NewRacer, NoRacer, Racers

(* Those who are here stand on the grid, and nobody has finished. *)
LEMMA GridInv ==
    ASSUME unit' \subseteq Units, racePhase' = "READY",
           racer' = [i \in Grid |-> IF i \in unit' THEN NewRacer ELSE NoRacer],
           finishedCount' = 0, finishOrderNext' = 0, timer' = 0, resultWait' = 0
    PROVE  RaceInv'
  <1>1. racer' \in [Grid -> Racers]
    BY NewRacerType
  <1>2. Active' = unit' \cap Grid /\ Finished' = {} /\ Driving' \subseteq Grid
    BY DEF Active, Finished, Driving, NewRacer, NoRacer
  <1>3. RaceTypeOK'
    BY <1>1, RaceAssumption, GridFinite DEF RaceTypeOK, RacePhases
  <1>4. FinishersCounted' /\ NobodyFinished' /\ KartsMatchDrivers'
    BY <1>2, FS_EmptySet DEF FinishersCounted, NobodyFinished, KartsMatchDrivers, Finished
  <1>5. PlacesUnique'
    BY <1>2 DEF PlacesUnique, Finished
  <1>6. PlacesLeft'
    BY <1>2, GridFinite DEF PlacesLeft
  <1> QED
    BY <1>3, <1>4, <1>5, <1>6 DEF RaceInv

LEMMA JoinInv == ASSUME RaceInv, NEW i \in Units, Join(i) PROVE RaceInv'
  <1>1. /\ i \notin unit /\ unit' = unit \cup {i}
        /\ UNCHANGED <<racePhase, finishedCount, finishOrderNext, timer, resultWait>>
        /\ unit \subseteq Units /\ racer \in [Grid -> Racers] /\ Active \subseteq unit
    BY DEF Join, RaceInv, RaceTypeOK, KartsMatchDrivers
  <1>2. CASE MayJoin(i)
    <2>1. /\ i \in Grid /\ racePhase \in {"READY", "COUNTDOWN"} /\ i \notin Active
          /\ racer' = [racer EXCEPT ![i] = NewRacer]
      BY <1>2 DEF Join, MayJoin, Active
    <2>2. /\ racer' \in [Grid -> Racers] /\ racer'[i].active /\ ~racer'[i].finished
          /\ \A k \in Grid : k # i => racer'[k] = racer[k]
      BY <1>1, <2>1, NewRacerType DEF NewRacer
    <2>3. Active' = Active \cup {i} /\ Finished' = Finished /\ Driving' \subseteq Grid
      BY <2>1, <2>2 DEF Active, Finished, Driving
    <2>4. RaceTypeOK'
      BY <1>1, <2>2 DEF RaceInv, RaceTypeOK
    <2>5. FinishersCounted' /\ NobodyFinished'
      BY <1>1, <2>3 DEF RaceInv, FinishersCounted, NobodyFinished, Finished
    <2>6. KartsMatchDrivers'
      BY <1>1, <2>1, <2>3 DEF RaceInv, KartsMatchDrivers
    <2>7. PlacesLeft'
      <3>1. finishOrderNext' = 0
        BY <1>1, <2>1 DEF RaceInv, NobodyFinished
      <3> QED
        BY <2>3, <3>1, GridFinite DEF PlacesLeft
    <2>8. PlacesUnique'
      BY <1>1, <2>1, <2>2, <2>3 DEF RaceInv, PlacesUnique, Finished
    <2> QED
      BY <2>4, <2>5, <2>6, <2>7, <2>8 DEF RaceInv
  <1>3. CASE ~MayJoin(i)
    <2>1. racer' = racer /\ Active' = Active /\ Finished' = Finished /\ Driving' = Driving
      BY <1>3 DEF Join, Active, Finished, Driving
    <2>2. racePhase \in {"READY", "COUNTDOWN"} => i \notin Grid
      BY <1>1, <1>3 DEF MayJoin, Active
    <2>3. RaceTypeOK'
      BY <1>1, <2>1 DEF RaceInv, RaceTypeOK
    <2>4. FinishersCounted' /\ NobodyFinished' /\ PlacesLeft' /\ PlacesUnique'
      BY <1>1, <2>1 DEF RaceInv, FinishersCounted, NobodyFinished, PlacesLeft, PlacesUnique, Finished
    <2>5. KartsMatchDrivers'
      BY <1>1, <2>1, <2>2 DEF RaceInv, KartsMatchDrivers
    <2> QED
      BY <2>3, <2>4, <2>5 DEF RaceInv
  <1> QED
    BY <1>2, <1>3

LEMMA LeaveInv == ASSUME RaceInv, NEW i \in Units, Leave(i) PROVE RaceInv'
  <1>1. /\ unit' = unit \ {i}
        /\ UNCHANGED <<racePhase, finishOrderNext, timer, resultWait>>
        /\ unit \subseteq Units /\ racer \in [Grid -> Racers] /\ Active \subseteq unit
        /\ Active \subseteq Grid /\ Finished \subseteq Active /\ Driving \subseteq Grid
        /\ finishedCount \in Nat /\ finishedCount = Cardinality(Finished)
    BY GridFinite DEF Leave, RaceInv, RaceTypeOK, KartsMatchDrivers, Active, Finished, Driving,
       FinishersCounted
  <1>2. CASE i \in Active
    <2>1. racer' = [racer EXCEPT ![i].active = FALSE] /\ finishedCount' = CountAfterLeave(i)
      BY <1>2 DEF Leave, EntryAfterLeave, Active
    <2>2. [racer[i] EXCEPT !.active = FALSE] \in Racers
      BY <1>1, <1>2 DEF Racers
    <2>3. /\ racer' \in [Grid -> Racers] /\ ~racer'[i].active
          /\ \A k \in Grid : k # i => racer'[k] = racer[k]
      BY <1>1, <1>2, <2>1, <2>2
    <2>4. Active' = Active \ {i} /\ Finished' = Finished \ {i} /\ Driving' = Driving \ {i}
      BY <1>2, <2>3 DEF Active, Finished, Driving
    <2>5. finishedCount' = Cardinality(Finished \ {i})
      <3>1. IsFiniteSet(Finished) /\ Cardinality(Finished) \in Nat
        BY <1>1, GridFinite
      <3>2. i \in Finished <=> racer[i].finished
        BY <1>2 DEF Finished
      <3>3. i \in Finished => Cardinality(Finished) # 0
        BY <3>1, FS_EmptySet
      <3>4. Cardinality(Finished \ {i}) = IF i \in Finished THEN Cardinality(Finished) - 1
                                          ELSE Cardinality(Finished)
        BY <3>1, FS_RemoveElement
      <3> QED
        BY <1>1, <2>1, <3>1, <3>2, <3>3, <3>4 DEF CountAfterLeave
    <2>6. RaceTypeOK'
      <3>1. finishedCount' \in 0..GridCount
        BY <1>1, <2>5, GridFinite
      <3> QED
        BY <1>1, <2>3, <3>1 DEF RaceInv, RaceTypeOK
    <2>7. FinishersCounted' /\ NobodyFinished' /\ KartsMatchDrivers'
      BY <1>1, <2>4, <2>5 DEF RaceInv, FinishersCounted, NobodyFinished, KartsMatchDrivers, Finished
    <2>8. PlacesUnique'
      BY <1>1, <2>3, <2>4 DEF RaceInv, PlacesUnique
    <2>9. PlacesLeft'
      <3>1. Cardinality(Driving \ {i}) <= Cardinality(Driving)
        BY <1>1, GridFinite, FS_Subset
      <3>2. Cardinality(Driving \ {i}) \in Nat /\ Cardinality(Driving) \in Nat
        BY <1>1, GridFinite
      <3> QED
        BY <1>1, <2>4, <3>1, <3>2, GridFinite DEF RaceInv, PlacesLeft, RaceTypeOK
    <2> QED
      BY <2>6, <2>7, <2>8, <2>9 DEF RaceInv
  <1>3. CASE i \notin Active
    <2>1. UNCHANGED <<finishedCount, racer>>
      BY <1>3 DEF Leave, Active
    <2>2. Active' = Active /\ Finished' = Finished /\ Driving' = Driving
      BY <2>1 DEF Active, Finished, Driving
    <2>3. RaceTypeOK'
      BY <1>1, <2>1 DEF RaceInv, RaceTypeOK
    <2>4. FinishersCounted' /\ NobodyFinished' /\ PlacesLeft' /\ PlacesUnique'
      BY <1>1, <2>1, <2>2
         DEF RaceInv, FinishersCounted, NobodyFinished, PlacesLeft, PlacesUnique, Finished
    <2>5. KartsMatchDrivers'
      BY <1>1, <1>3, <2>2 DEF RaceInv, KartsMatchDrivers
    <2> QED
      BY <2>3, <2>4, <2>5 DEF RaceInv
  <1> QED
    BY <1>2, <1>3

LEMMA RaceTickInv == ASSUME RaceInv, RaceTick PROVE RaceInv'
  <1>0. /\ timer \in 0..ReadyTime + CountdownTime + ResultTime /\ resultWait \in 0..ResultWait
        /\ ReadyTime \in Nat \ {0} /\ CountdownTime \in Nat \ {0} /\ ResultTime \in Nat \ {0}
        /\ ResultWait \in Nat /\ unit \subseteq Units /\ racePhase \in RacePhases
    BY RaceAssumption DEF RaceInv, RaceTypeOK
  <1>1. CASE WaitForRacers
    <2>1. timer' \in 0..ReadyTime + CountdownTime + ResultTime
      BY <1>0, <1>1 DEF WaitForRacers, Starts
    <2> QED
      BY <1>0, <1>1, <2>1, TimePasses DEF WaitForRacers
  <1>2. CASE CountDown
    <2> DEFINE left == (IF Starts THEN CountdownTime ELSE timer) - 1
    <2>1. CASE left > 0
      <3>1. /\ racePhase' = "COUNTDOWN" /\ timer' = left /\ unit' = unit
            /\ UNCHANGED <<racer, finishedCount, finishOrderNext, resultWait>>
        BY <1>2, <2>1 DEF CountDown
      <3>2. racePhase \in {"READY", "COUNTDOWN"} /\ racePhase' \in RacePhases
        BY <1>2, <3>1 DEF CountDown, Starts, RacePhases
      <3>3. timer' \in 0..ReadyTime + CountdownTime + ResultTime
        BY <1>0, <2>1, <3>1
      <3> QED
        BY <1>0, <3>1, <3>2, <3>3, TimePasses
    <2>2. CASE ~(left > 0)
      <3>1. racePhase' = "GO" /\ timer' = 0 /\ Drive /\ unit' = unit
        BY <1>2, <2>2 DEF CountDown
      <3>2. timer' \in 0..ReadyTime + CountdownTime + ResultTime
        BY <1>0, <3>1
      <3> QED
        BY <3>1, <3>2, DriveIs, DriveInv
    <2> QED
      BY <2>1, <2>2
  <1>3. CASE Go
    <2>1. racePhase' = "GO" /\ Drive /\ unit' = unit /\ timer' = timer
      BY <1>3 DEF Go
    <2> QED
      BY <1>0, <2>1, DriveIs, DriveInv
  <1>4. CASE Results
    <2>1. CASE timer + 1 >= ResultTime
      BY <1>0, <1>4, <2>1, GridInv DEF Results, Reset, RacesNext
    <2>2. CASE ~(timer + 1 >= ResultTime)
      <3>1. timer' \in 0..ReadyTime + CountdownTime + ResultTime /\ resultWait' \in 0..ResultWait
            /\ racePhase' = "RESULTS"
        BY <1>0, <1>4, <2>2 DEF Results
      <3> QED
        BY <1>4, <2>2, <3>1, TimePasses DEF Results, RacePhases
    <2> QED
      BY <2>1, <2>2
  <1> QED
    BY <1>1, <1>2, <1>3, <1>4 DEF RaceTick

LEMMA RaceStart == RaceInit => RaceInv
  <1> SUFFICES ASSUME RaceInit PROVE RaceInv
    OBVIOUS
  <1>0. 0 \in Units /\ unit \subseteq Units
    BY GameUnitsAssumption DEF RaceInit, Units
  <1>1. racer \in [Grid -> Racers]
    BY NewRacerType DEF RaceInit
  <1>2. Active = unit \cap Grid /\ Finished = {} /\ Driving \subseteq Grid
    BY DEF RaceInit, Active, Finished, Driving, NewRacer, NoRacer
  <1>3. RaceTypeOK
    BY <1>0, <1>1, RaceAssumption, GridFinite DEF RaceInit, RaceTypeOK, RacePhases
  <1>4. FinishersCounted /\ NobodyFinished /\ KartsMatchDrivers
    BY <1>2, FS_EmptySet DEF RaceInit, FinishersCounted, NobodyFinished, KartsMatchDrivers, Finished
  <1>5. PlacesUnique
    BY <1>2 DEF PlacesUnique, Finished
  <1>6. PlacesLeft
    BY <1>2, GridFinite DEF RaceInit, PlacesLeft
  <1> QED
    BY <1>3, <1>4, <1>5, <1>6 DEF RaceInv

LEMMA RaceInvNext == RaceInv /\ [RaceNext]_raceVars => RaceInv'
  <1> SUFFICES ASSUME RaceInv, [RaceNext]_raceVars PROVE RaceInv'
    OBVIOUS
  <1>1. CASE UNCHANGED raceVars
    BY <1>1, TimePasses DEF raceVars, RaceInv, RaceTypeOK
  <1> QED
    BY <1>1, RaceTickInv, JoinInv, LeaveInv DEF RaceNext

LEMMA RaceInvAlways == RaceSpec => []RaceInv
  BY RaceStart, RaceInvNext, PTL DEF RaceSpec

(* What ends a race is the number of finishers still here, whoever leaves after the
   finish and whoever finishes in the same tick. *)
THEOREM FinishersAreCounted == RaceSpec => []FinishersCounted
  <1>1. RaceInv => FinishersCounted
    BY DEF RaceInv
  <1> QED
    BY <1>1, RaceInvAlways, PTL

(* No kart without a driver; before the start no driver who fits on the grid without
   a kart. *)
THEOREM KartsHaveDrivers == RaceSpec => []KartsMatchDrivers
  <1>1. RaceInv => KartsMatchDrivers
    BY DEF RaceInv
  <1> QED
    BY <1>1, RaceInvAlways, PTL

-----------------------------------------------------------------------------
(* The standings *)

LEMMA FartherScoresMore ==
    ASSUME NEW m \in Nat, NEW a \in Nat, NEW b \in Nat, a + 1 <= b, NEW n \in Nat, n < m
    PROVE  m * a \in Nat /\ m * a + n < m * b
  <1>1. PICK c \in Nat : b = a + 1 + c
    <2>1. b - (a + 1) \in Nat /\ b = a + 1 + (b - (a + 1))
      OBVIOUS
    <2> QED
      BY <2>1
  <1>2. m * (a + 1 + c) = m * a + m + m * c
    OBVIOUS
  <1>3. \A x, y \in Nat : x * y \in Nat
    OBVIOUS
  <1>4. m * a \in Nat /\ m * c \in Nat /\ m * b = m * a + m + m * c
    BY <1>1, <1>2, <1>3
  <1> QED
    BY <1>4

(* Whoever has not finished scores less than any finisher. *)
LEMMA ScoreBounds ==
    ASSUME NEW i \in Grid, racer[i] \in Racers
    PROVE  /\ Score(i) \in Int
           /\ ~racer[i].finished => Score(i) < 100000 - 100 * GridCount
           /\ racer[i].finished => Score(i) = 100000 - racer[i].order * 100
  <1> DEFINE r == racer[i]
             M == MaxProgress + 1
             G == GateCount
             p == (r.nextGate + G - 1) % G
             gates == (r.lap - 1) * G + p
  <1>1. /\ r.lap \in 1..LapCount /\ r.nextGate \in 0..G - 1 /\ r.order \in 0..GridCount
        /\ r.progress \in 0..MaxProgress /\ r.finished \in BOOLEAN
        /\ M \in Nat \ {0} /\ G \in Nat /\ G >= 2 /\ LapCount \in Nat /\ MaxProgress \in Nat
        /\ GridCount \in Nat
    BY RacerFields, RaceAssumption, GridFinite DEF Gates
  <1>2. p \in 0..G - 1
    BY <1>1
  <1> HIDE DEF p
  <1>3. \A a, b, c \in Nat : a <= b => a * c <= b * c /\ a * c \in Nat /\ c * a = a * c
    OBVIOUS
  <1>4. (r.lap - 1) * G \in Nat /\ LapCount * G \in Nat /\ (r.lap - 1) * G + G <= LapCount * G
    <2>1. r.lap - 1 \in Nat /\ r.lap \in Nat /\ r.lap <= LapCount
      BY <1>1
    <2>2. r.lap * G <= LapCount * G /\ r.lap * G \in Nat
      BY <1>1, <1>3, <2>1
    <2>3. (r.lap - 1) * G + G = r.lap * G
      BY <1>1, <2>1
    <2> QED
      BY <1>1, <1>3, <2>1, <2>2, <2>3
  <1>5. gates \in Nat /\ gates + 1 <= LapCount * G
    BY <1>1, <1>2, <1>4
  <1> HIDE DEF gates
  <1>6. M * gates \in Nat /\ M * gates + r.progress < M * (LapCount * G)
    <2>1. r.progress \in Nat /\ r.progress < M
      BY <1>1
    <2> QED
      BY <1>1, <1>4, <1>5, <2>1, FartherScoresMore
  <1>7. ~r.finished => Score(i) = M * gates + r.progress
    BY DEF Score, gates, p
  <1>8. r.finished => Score(i) = 100000 - r.order * 100
    BY DEF Score
  <1>9. M * (LapCount * G) <= 100000 - 100 * GridCount /\ M * (LapCount * G) \in Nat
    BY <1>1, <1>3, <1>4, ScoreAssumption
  <1> QED
    BY <1>1, <1>6, <1>7, <1>8, <1>9

LEMMA RankingFollows == RaceInv => StandingsAreARanking
  <1> SUFFICES ASSUME RaceInv PROVE StandingsAreARanking
    OBVIOUS
  <1> DEFINE before == [i \in Active |-> {j \in Active \ {i} : Ahead(j, i)}]
  <1>1. /\ Active \subseteq Grid /\ IsFiniteSet(Active) /\ Active \subseteq Nat
        /\ racer \in [Grid -> Racers]
        /\ \A i \in Active : Score(i) \in Int
    <2>1. Active \subseteq Grid /\ racer \in [Grid -> Racers]
      BY DEF Active, RaceInv, RaceTypeOK
    <2> QED
      BY <2>1, GridFinite, ScoreBounds
  <1>2. \A i, j \in Active : i # j => (Ahead(j, i) <=> ~Ahead(i, j))
    BY <1>1 DEF Ahead
  <1>3. \A i, j, k \in Active : Ahead(k, j) /\ Ahead(j, i) => Ahead(k, i)
    BY <1>1 DEF Ahead
  <1>4. before \in [Active -> SUBSET Active] /\ \A i \in Active : i \notin before[i]
    OBVIOUS
  <1>5. \A i, j \in Active : j \in before[i] <=> j # i /\ Ahead(j, i)
    OBVIOUS
  <1> HIDE DEF before
  <1>6. ASSUME NEW i \in Active, NEW j \in Active, i # j, Ahead(j, i)
        PROVE  before[j] \cup {j} \subseteq before[i]
    <2> SUFFICES ASSUME NEW k \in before[j] \cup {j} PROVE k \in before[i]
      OBVIOUS
    <2>1. CASE k = j
      BY <1>5, <1>6, <2>1
    <2>2. CASE k \in before[j]
      <3>1. k \in Active /\ k # j /\ Ahead(k, j)
        BY <1>4, <1>5, <2>2
      <3>2. Ahead(k, i) /\ k # i
        BY <1>2, <1>3, <1>6, <3>1
      <3> QED
        BY <1>5, <3>1, <3>2
    <2> QED
      BY <2>1, <2>2
  <1>7. \A i, j \in Active : i # j => \/ before[i] \cup {i} \subseteq before[j]
                                      \/ before[j] \cup {j} \subseteq before[i]
    BY <1>2, <1>6
  <1>8. /\ \A i \in Active : Cardinality(before[i]) \in Nat
        /\ \A i, j \in Active : before[i] \cup {i} \subseteq before[j] =>
               Cardinality(before[i]) < Cardinality(before[j])
        /\ {1 + Cardinality(before[i]) : i \in Active} = 1..Cardinality(Active)
    BY <1>1, <1>4, <1>7, Ranks
  <1>9. \A i \in Active : Position(i) = 1 + Cardinality(before[i])
    BY DEF Position, before
  <1>10. {Position(i) : i \in Active} = 1..Cardinality(Active)
    BY <1>8, <1>9
  <1>11. ASSUME NEW i \in Active, NEW j \in Active, racer[i].finished, Position(j) < Position(i)
         PROVE  racer[j].finished /\ racer[j].order < racer[i].order
    <2>1. i # j /\ ~Ahead(i, j)
      BY <1>6, <1>8, <1>9, <1>11
    <2>2. Ahead(j, i)
      BY <1>2, <2>1
    <2>3. /\ racer[i] \in Racers /\ racer[j] \in Racers /\ i \in Grid /\ j \in Grid
          /\ racer[i].order \in 0..GridCount /\ racer[j].order \in 0..GridCount
          /\ GridCount \in Nat /\ Score(j) >= Score(i)
      BY <1>1, <2>2, RacerFields, GridFinite DEF Ahead
    <2>4. Score(i) = 100000 - racer[i].order * 100
      BY <1>11, <2>3, ScoreBounds
    <2>5. racer[j].finished
      BY <2>3, <2>4, ScoreBounds
    <2>6. Score(j) = 100000 - racer[j].order * 100
      BY <2>3, <2>5, ScoreBounds
    <2>7. racer[j].order <= racer[i].order
      BY <2>3, <2>4, <2>6
    <2>8. racer[j].order # racer[i].order
      BY <1>11, <2>1, <2>5 DEF RaceInv, PlacesUnique
    <2> QED
      BY <2>3, <2>5, <2>7, <2>8
  <1> QED
    BY <1>10, <1>11 DEF StandingsAreARanking, RaceInv

(* Places and standings are a ranking, in every state of every race: no place is given
   twice, every racer has a position of its own, finishers come first. *)
THEOREM Standings == RaceSpec => []StandingsAreARanking
  BY RankingFollows, RaceInvAlways, PTL

-----------------------------------------------------------------------------
(* Both modes side by side *)

(* A host that plays one of the two modes plays it by that mode's rules. *)
THEOREM EachModeByItsRules == ModesSpec => RaceSpec /\ TeamSpec
  <1>1. ModesInit => RaceInit /\ TeamInit
    BY DEF ModesInit
  <1>2. [RaceStep \/ TeamStep]_modesVars => [RaceNext]_raceVars /\ [TeamNext]_teamVars
    BY DEF RaceStep, TeamStep, modesVars
  <1> QED
    BY <1>1, <1>2, PTL DEF ModesSpec, RaceSpec, TeamSpec

(* So what is proved of the races and of the team games holds of it, and both modes'
   states stay well formed. *)
THEOREM ModesAreTyped == ModesSpec => []ModesTypeOK
  <1> DEFINE Plays == plays \in {"race", "teams"}
  <1>1. ModesInit => Plays
    BY DEF ModesInit
  <1>2. Plays /\ [RaceStep \/ TeamStep]_modesVars => Plays'
    BY DEF RaceStep, TeamStep, modesVars
  <1>3. ModesSpec => []Plays
    <2> HIDE DEF Plays
    <2> QED
      BY <1>1, <1>2, PTL DEF ModesSpec
  <1>4. Plays /\ RaceInv /\ RulesInv => ModesTypeOK
    BY RulesInvTypes DEF ModesTypeOK, RaceInv
  <1> HIDE DEF Plays
  <1> QED
    BY <1>3, <1>4, EachModeByItsRules, RaceInvAlways, RulesAlways, PTL
=============================================================================
