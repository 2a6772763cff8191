--------------------------- MODULE ProfilesProofs ---------------------------
(***************************************************************************)
(* The survival mode, for any number of units, players, keys and enemies   *)
(* and any catalogue of goods: players and enemies always find a unit      *)
(* (over Waves, as a step of Profiles is a step of Waves or a crash), what *)
(* no save is due for is saved, and the mode keeps the promise of Account. *)
(***************************************************************************)
EXTENDS Profiles, FiniteSetTheorems, TLAPS

LEMMA UnitsFinite ==
    /\ IsFiniteSet(Units) /\ Cardinality(Units) = NumUnits
    /\ \A S \in SUBSET Units : IsFiniteSet(S) /\ Cardinality(S) \in Nat
  <1>1. NumUnits \in Nat /\ NumUnits >= 1
    BY WavesAssumption
  <1>2. IsFiniteSet(Units) /\ Cardinality(Units) = NumUnits
    BY <1>1, FS_Interval DEF Units
  <1>3. ASSUME NEW S \in SUBSET Units PROVE IsFiniteSet(S) /\ Cardinality(S) \in Nat
    BY <1>2, FS_Subset, FS_CardinalityType
  <1> QED
    BY <1>2, <1>3

-----------------------------------------------------------------------------
(* The invariant, over the steps of Waves *)

LEMMA RoomInit == WavesInit => RoomInv
  <1> SUFFICES ASSUME WavesInit PROVE RoomInv
    OBVIOUS
  <1>1. WavesTypeOK
    BY WavesAssumption DEF WavesInit, WavesTypeOK, Phases
  <1>2. WithinShares
    BY FS_EmptySet, WavesAssumption DEF WavesInit, WithinShares
  <1> QED
    BY <1>1, <1>2 DEF RoomInv

LEMMA JoinRoom == ASSUME RoomInv, NEW u \in Units, Join(u) PROVE RoomInv'
  <1>1. u \in Free /\ party' = party \cup {u} /\ horde' = horde
        /\ alive' \in {alive, alive \cup {u}} /\ phase' = phase /\ queued' = queued
    BY DEF Join, FirstFree
  <1>2. WavesTypeOK'
    BY <1>1 DEF RoomInv, WavesTypeOK, Free
  <1>3. Cardinality(party') = Cardinality(party) + 1
    BY <1>1, UnitsFinite, FS_AddElement DEF RoomInv, WavesTypeOK, Free
  <1>4. Cardinality(party) \in Nat /\ Cardinality(party) < MaxParty /\ MaxParty \in Nat
    BY UnitsFinite, WavesAssumption DEF Join, RoomInv, WavesTypeOK
  <1>5. WithinShares'
    BY <1>1, <1>3, <1>4 DEF RoomInv, WithinShares
  <1> QED
    BY <1>2, <1>5 DEF RoomInv

LEMMA FewerRoom ==
    ASSUME RoomInv, party' \subseteq party, horde' \subseteq horde, WavesTypeOK'
    PROVE  RoomInv'
  <1>1. IsFiniteSet(party) /\ IsFiniteSet(horde)
    BY UnitsFinite DEF RoomInv, WavesTypeOK
  <1>2. Cardinality(party') <= Cardinality(party) /\ Cardinality(horde') <= Cardinality(horde)
    BY <1>1, FS_Subset
  <1>3. /\ Cardinality(party) \in Nat /\ Cardinality(party') \in Nat
        /\ Cardinality(horde) \in Nat /\ Cardinality(horde') \in Nat
    BY UnitsFinite DEF RoomInv, WavesTypeOK
  <1> QED
    BY <1>2, <1>3, WavesAssumption DEF RoomInv, WithinShares

LEMMA SpawnRoom == ASSUME RoomInv, NEW q \in 1..MaxHorde, Spawn(q) PROVE RoomInv'
  <1>1. PICK u \in Units : /\ u \in Free
                           /\ horde' = horde \cup {u} /\ alive' = alive \cup {u}
    BY DEF Spawn, FirstFree
  <1>2. q - 1 \in 0..MaxHorde
    BY WavesAssumption
  <1>3. WavesTypeOK'
    BY <1>1, <1>2 DEF Spawn, RoomInv, WavesTypeOK, Free, Phases
  <1>4. horde \cap alive = horde
    BY DEF RoomInv, WavesTypeOK
  <1>5. Cardinality(horde') = Cardinality(horde) + 1
    BY <1>1, UnitsFinite, FS_AddElement DEF RoomInv, WavesTypeOK, Free
  <1>6. Cardinality(horde) \in Nat /\ Cardinality(horde) < MaxEnemies /\ MaxEnemies \in Nat
    BY <1>4, UnitsFinite, WavesAssumption DEF Spawn, RoomForEnemy, RoomInv, WavesTypeOK
  <1>7. WithinShares'
    BY <1>5, <1>6 DEF Spawn, RoomInv, WithinShares
  <1> QED
    BY <1>3, <1>7 DEF RoomInv

LEMMA RoomStep == RoomInv /\ [WavesNext]_waveVars => RoomInv'
  <1> SUFFICES ASSUME RoomInv, [WavesNext]_waveVars PROVE RoomInv'
    OBVIOUS
  <1>0. 0 \in 0..MaxHorde
    BY WavesAssumption
  <1>1. ASSUME NEW u \in Units, Join(u) PROVE RoomInv'
    BY <1>1, JoinRoom
  <1>2. ASSUME NEW u \in Units, Leave(u) PROVE RoomInv'
    <2>1. WavesTypeOK'
      BY <1>2 DEF Leave, RoomInv, WavesTypeOK
    <2> QED
      BY <1>2, <2>1, FewerRoom DEF Leave
  <1>3. ASSUME NEW u \in Units, Fall(u) PROVE RoomInv'
    <2>1. WavesTypeOK'
      BY <1>3 DEF Fall, RoomInv, WavesTypeOK
    <2> QED
      BY <1>3, <2>1, FewerRoom DEF Fall
  <1>4. ASSUME NEW b \in Units, Slain(b) PROVE RoomInv'
    <2>1. WavesTypeOK'
      BY <1>4 DEF Slain, RoomInv, WavesTypeOK
    <2> QED
      BY <1>4, <2>1, FewerRoom DEF Slain
  <1>5. CASE Recover
    <2>1. WavesTypeOK'
      BY <1>5 DEF Recover, Revived, RoomInv, WavesTypeOK, Phases
    <2> QED
      BY <1>5, <2>1, FewerRoom DEF Recover
  <1>6. CASE Defeated
    <2>1. WavesTypeOK'
      BY <1>0, <1>6 DEF Defeated, RoomInv, WavesTypeOK, Phases
    <2> QED
      BY <1>6, <2>1, FewerRoom DEF Defeated
  <1>7. CASE Cleared
    <2>1. WavesTypeOK'
      BY <1>0, <1>7 DEF Cleared, Revived, RoomInv, WavesTypeOK, Phases
    <2> QED
      BY <1>7, <2>1, FewerRoom DEF Cleared
  <1>8. ASSUME NEW q \in 1..MaxHorde, Spawn(q) PROVE RoomInv'
    BY <1>8, SpawnRoom
  <1>9. CASE UNCHANGED waveVars
    BY <1>9 DEF waveVars, RoomInv, WavesTypeOK, WithinShares
  <1> QED
    BY <1>1, <1>2, <1>3, <1>4, <1>5, <1>6, <1>7, <1>8, <1>9 DEF WavesNext, Tick

LEMMA RoomFollows == RoomInv => RoomForEveryone
  <1> SUFFICES ASSUME RoomInv PROVE RoomForEveryone
    OBVIOUS
  <1>1. IsFiniteSet(party) /\ IsFiniteSet(horde) /\ party \cap horde = {}
    BY UnitsFinite DEF RoomInv, WavesTypeOK
  <1>2. Cardinality(party \cup horde) = Cardinality(party) + Cardinality(horde) - Cardinality({})
    BY <1>1, FS_Union
  <1>3. Cardinality(party) \in Nat /\ Cardinality(horde) \in Nat
    BY UnitsFinite DEF RoomInv, WavesTypeOK
  <1>4. Cardinality(party \cup horde) = Cardinality(party) + Cardinality(horde)
    BY <1>2, <1>3, FS_EmptySet
  <1>5. Free = {} => party \cup horde = Units
    BY DEF Free, RoomInv, WavesTypeOK
  <1>6. Free = {} => Cardinality(party) + Cardinality(horde) = NumUnits
    BY <1>4, <1>5, UnitsFinite
  <1>7. Free = {} => Cardinality(party) = MaxParty /\ Cardinality(horde) = MaxEnemies
    BY <1>3, <1>6, WavesAssumption DEF RoomInv, WithinShares
  <1> QED
    BY <1>3, <1>7, WavesAssumption DEF RoomForEveryone

-----------------------------------------------------------------------------
(* The survival mode *)

(* Every step of the mode is one of its waves, or the host begins anew. *)
LEMMA StepIsOfWaves == ASSUME Next PROVE [WavesNext]_waveVars \/ WavesInit'
  <1>1. ASSUME NEW u \in Units, NEW k \in Keys, Enter(u, k) \/ EnterUnsaved(u, k)
        PROVE  [WavesNext]_waveVars
    BY <1>1 DEF Enter, EnterUnsaved, WavesNext
  <1>2. ASSUME NEW k \in Keys, Press(k) \/ StartAnew(k) PROVE [WavesNext]_waveVars
    BY <1>2 DEF Press, StartAnew
  <1>3. ASSUME NEW u \in Units, Exit(u) \/ Hear(u) \/ Request(u) PROVE [WavesNext]_waveVars
    BY <1>3 DEF Exit, Hear, Request, WavesNext
  <1>4. ASSUME NEW u \in Units, EnemySlain(u) \/ Wounded(u) \/ Mended(u) \/ Fallen(u)
        PROVE  [WavesNext]_waveVars
    BY <1>4 DEF EnemySlain, Wounded, Mended, Fallen, WavesNext
  <1>5. CASE WaveEnds \/ WaveGoesOn
    BY <1>5 DEF WaveEnds, WaveGoesOn, WavesNext, Tick
  <1>6. CASE Flush
    BY <1>6 DEF Flush
  <1>7. CASE Crash
    BY <1>7 DEF Crash, WavesInit
  <1> QED
    BY <1>1, <1>2, <1>3, <1>4, <1>5, <1>6, <1>7 DEF Next

LEMMA RoomNext == RoomInv /\ [Next]_vars => RoomInv'
  <1> SUFFICES ASSUME RoomInv, [Next]_vars PROVE RoomInv'
    OBVIOUS
  <1>1. CASE WavesInit'
    BY <1>1, FS_EmptySet, WavesAssumption
      DEF WavesInit, RoomInv, WavesTypeOK, WithinShares, Phases
  <1>2. CASE [WavesNext]_waveVars
    BY <1>2, RoomStep
  <1>3. CASE UNCHANGED vars
    BY <1>3, RoomStep DEF vars
  <1> QED
    BY <1>1, <1>2, <1>3, StepIsOfWaves

(* However many players come, enemies fight and hosts crash, there is a unit
   for the next player and for the next enemy. *)
THEOREM RoomInvariant == Spec => []RoomForEveryone
  <1>1. Init => RoomInv
    BY RoomInit DEF Init
  <1>2. RoomInv => RoomForEveryone
    BY RoomFollows
  <1> QED
    BY <1>1, <1>2, RoomNext, PTL DEF Spec

-----------------------------------------------------------------------------
(* What the catalogue does to a profile *)

LEMMA NewcomerType == Newcomer \in ProfileType
  BY ProfilesAssumption DEF Newcomer, ProfileType

LEMMA PriceType ==
    ASSUME NEW p \in ProfileType, NEW g \in Goods PROVE PriceOf(p, g) \in Nat
  <1>1. p.has[g] \in Nat /\ Cost[g] \in Nat
    BY ProfilesAssumption DEF ProfileType
  <1>2. \A a, b \in Nat : a * b \in Nat
    OBVIOUS
  <1>3. p.has[g] + 1 \in Nat
    BY <1>1
  <1>4. (p.has[g] + 1) * (p.has[g] + 1) \in Nat
    BY <1>2, <1>3
  <1>5. (p.has[g] + 1) * (p.has[g] + 1) * Cost[g] \in Nat
    BY <1>1, <1>2, <1>4
  <1> QED
    BY <1>1, <1>5 DEF PriceOf

LEMMA EquippedType == ASSUME NEW p \in ProfileType PROVE Equipped(p) \in ProfileType
  <1> DEFINE has == [g \in Goods |->
                        IF Cost[g] = 0 /\ g \notin Upgrades /\ p.has[g] = 0 THEN 1 ELSE p.has[g]]
  <1>1. p.gold \in 0..MaxGold /\ p.has \in [Goods -> 0..MaxOwned]
    BY DEF ProfileType
  <1>2. 1 \in 0..MaxOwned
    BY ProfilesAssumption
  <1>3. has \in [Goods -> 0..MaxOwned]
    BY <1>1, <1>2
  <1>4. Equipped(p) = [gold |-> p.gold, has |-> has]
    BY DEF Equipped, ProfileType
  <1> QED
    BY <1>1, <1>3, <1>4 DEF ProfileType

LEMMA RicherType ==
    ASSUME NEW p \in ProfileType
    PROVE  Richer(p) \in ProfileType /\ Richer(p).has = p.has /\ Richer(p).gold >= p.gold
  <1>1. p.gold \in 0..MaxGold /\ MaxGold \in Nat /\ Reward \in Nat
    BY ProfilesAssumption DEF ProfileType
  <1>2. Richer(p) = [gold |-> IF p.gold + Reward < MaxGold THEN p.gold + Reward ELSE MaxGold,
                     has |-> p.has]
    BY DEF Richer, ProfileType
  <1>3. (IF p.gold + Reward < MaxGold THEN p.gold + Reward ELSE MaxGold) \in p.gold..MaxGold
    BY <1>1
  <1> QED
    BY <1>1, <1>2, <1>3 DEF ProfileType

(* A deal that was possible: gold for a good, a potion for its effect, or nothing. *)
LEMMA DealType ==
    ASSUME NEW u \in Units, profile[u] \in ProfileType, NEW i \in Intents, Possible(u, i)
    PROVE  Deal(u, i) \in ProfileType
  <1> DEFINE p == profile[u]
  <1>1. i.act \in Acts /\ i.good \in Goods
    BY ProfilesAssumption
  <1>2. p.gold \in 0..MaxGold /\ p.has \in [Goods -> 0..MaxOwned] /\ p.has[i.good] \in 0..MaxOwned
        /\ MaxGold \in Nat /\ MaxOwned \in Nat
    BY <1>1, ProfilesAssumption DEF ProfileType
  <1>3. CASE i.act = "BUY"
    <2>1. PriceOf(p, i.good) \in Nat /\ PriceOf(p, i.good) <= p.gold /\ p.has[i.good] < MaxOwned
      BY <1>1, <1>3, PriceType DEF Possible, Buys
    <2>2. p.gold - PriceOf(p, i.good) \in 0..MaxGold /\ p.has[i.good] + 1 \in 0..MaxOwned
      BY <1>2, <2>1
    <2>3. Deal(u, i) = [gold |-> p.gold - PriceOf(p, i.good),
                        has |-> [p.has EXCEPT ![i.good] = @ + 1]]
      BY <1>3 DEF Deal, ProfileType
    <2>4. [p.has EXCEPT ![i.good] = @ + 1] \in [Goods -> 0..MaxOwned]
      BY <1>2, <2>2
    <2> QED
      BY <2>2, <2>3, <2>4 DEF ProfileType
  <1>4. CASE i.act = "USE"
    <2>1. p.has[i.good] - 1 \in 0..MaxOwned
      BY <1>2, <1>4 DEF Possible
    <2>2. Deal(u, i) = [gold |-> p.gold, has |-> [p.has EXCEPT ![i.good] = @ - 1]]
      BY <1>4 DEF Deal, ProfileType
    <2>3. [p.has EXCEPT ![i.good] = @ - 1] \in [Goods -> 0..MaxOwned]
      BY <1>2, <2>1
    <2> QED
      BY <1>2, <2>2, <2>3 DEF ProfileType
  <1>5. CASE i.act \notin {"BUY", "USE"}
    BY <1>1, <1>5 DEF Deal, Acts
  <1> QED
    BY <1>3, <1>4, <1>5

LEMMA SerialType == \A n \in Nat : Serial(n) \in 0..MaxSerial
  <1> SUFFICES ASSUME NEW n \in Nat PROVE Serial(n) \in 0..MaxSerial
    OBVIOUS
  <1>1. MaxSerial \in Nat /\ MaxSerial > 0
    BY ProfilesAssumption
  <1>2. CASE n # 0
    <2>1. (n - 1) % MaxSerial \in 0..MaxSerial - 1
      BY <1>1, <1>2
    <2> QED
      BY <1>1, <1>2, <2>1 DEF Serial
  <1> QED
    BY <1>1, <1>2 DEF Serial

-----------------------------------------------------------------------------
(* Who plays *)

KeysInv ==
    /\ bound \in [Units -> Keys \cup {NoKey}] /\ party = {u \in Units : bound[u] # NoKey}
    /\ \A u, v \in party : bound[u] = bound[v] => u = v

LEMMA PlayersChange ==
    ASSUME Next
    PROVE  \/ \E u \in Units, k \in Keys : Enter(u, k)
           \/ \E u \in Units : Exit(u)
           \/ Crash
           \/ UNCHANGED <<party, bound>>
  <1>1. ASSUME NEW u \in Units, NEW k \in Keys, EnterUnsaved(u, k) PROVE UNCHANGED <<party, bound>>
    BY <1>1 DEF EnterUnsaved, waveVars
  <1>2. ASSUME NEW k \in Keys, Press(k) \/ StartAnew(k) PROVE UNCHANGED <<party, bound>>
    BY <1>2 DEF Press, StartAnew, waveVars
  <1>3. ASSUME NEW u \in Units, Hear(u) \/ Request(u) PROVE UNCHANGED <<party, bound>>
    BY <1>3 DEF Hear, Request, waveVars
  <1>4. ASSUME NEW u \in Units, EnemySlain(u) \/ Wounded(u) \/ Mended(u) \/ Fallen(u)
        PROVE  UNCHANGED <<party, bound>>
    BY <1>4 DEF EnemySlain, Wounded, Mended, Fallen, Slain, Fall, waveVars
  <1>5. CASE WaveEnds \/ WaveGoesOn
    BY <1>5 DEF WaveEnds, WaveGoesOn, Cleared, Defeated, Recover, Spawn
  <1>6. CASE Flush
    BY <1>6 DEF Flush, waveVars
  <1> QED
    BY <1>1, <1>2, <1>3, <1>4, <1>5, <1>6 DEF Next

LEMMA KeysInit == Init => KeysInv
  BY DEF Init, WavesInit, KeysInv

LEMMA KeysNext == KeysInv /\ [Next]_vars => KeysInv'
  <1> SUFFICES ASSUME KeysInv, [Next]_vars PROVE KeysInv'
    OBVIOUS
  <1>1. ASSUME NEW u \in Units, NEW k \in Keys, Enter(u, k) PROVE KeysInv'
    <2>1. /\ u \in Units \ party /\ party' = party \cup {u}
          /\ bound' = [bound EXCEPT ![u] = k]
          /\ k \in Keys /\ \A v \in Units : bound[v] # k
      BY <1>1 DEF Enter, Join, FirstFree, Free, KeyFree, Playing
    <2>2. k # NoKey
      BY ProfilesAssumption
    <2> QED
      BY <2>1, <2>2 DEF KeysInv
  <1>2. ASSUME NEW u \in Units, Exit(u) PROVE KeysInv'
    <2>1. /\ party' = party \ {u} /\ bound' = [bound EXCEPT ![u] = NoKey]
      BY <1>2 DEF Exit, Leave
    <2> QED
      BY <2>1 DEF KeysInv
  <1>3. CASE Crash
    BY <1>3 DEF Crash, KeysInv
  <1>4. CASE UNCHANGED <<party, bound>>
    BY <1>4 DEF KeysInv
  <1>5. CASE UNCHANGED vars
    BY <1>4, <1>5 DEF vars, waveVars
  <1> QED
    BY <1>1, <1>2, <1>3, <1>4, <1>5, PlayersChange

(* The unit of a key that plays is the one that is bound to it. *)
LEMMA UnitOfKey ==
    ASSUME KeysInv, NEW u \in Units, bound[u] # NoKey
    PROVE  /\ u \in party /\ bound[u] \in Keys
           /\ Playing(bound[u]) /\ UnitOf(bound[u]) = u
  BY DEF KeysInv, Playing, UnitOf

LEMMA KeyOfUnit ==
    ASSUME KeysInv, NEW k \in Keys, Playing(k)
    PROVE  UnitOf(k) \in party /\ bound[UnitOf(k)] = k
  BY ProfilesAssumption DEF KeysInv, Playing, UnitOf

-----------------------------------------------------------------------------
(* Presses: what the host has seen of a stay is a press of that stay, no later than
   the one in the last control and no earlier than the last that changed anything. *)

PressTypes ==
    /\ press \in [Keys -> Presses] /\ heard \in [Units -> Presses]
    /\ seen \in [Units -> 0..MaxSerial]
    /\ acted \in [Keys -> 0..MaxPress] /\ before \in [Keys -> 0..MaxPress]

Asked ==
    /\ \A k \in Keys : press[k].count # 0 => press[k].intent \in Intents
    /\ \A u \in Units : heard[u].count # 0 => heard[u].intent \in Intents

InOrder(u) ==
    /\ heard[u].count <= press[bound[u]].count
    /\ \E n \in Nat : acted[bound[u]] <= n /\ n <= heard[u].count /\ seen[u] = Serial(n)

PressInv == PressTypes /\ Asked /\ \A u \in party : InOrder(u)

LEMMA PressInit == Init => PressInv
  <1> SUFFICES ASSUME Init PROVE PressInv
    OBVIOUS
  <1>1. NoPress \in Presses /\ NoPress.count = 0 /\ 0 \in 0..MaxSerial /\ 0 \in 0..MaxPress
    BY ProfilesAssumption DEF NoPress, Presses
  <1> QED
    BY <1>1 DEF Init, WavesInit, PressInv, PressTypes, Asked

LEMMA NothingPressed ==
    /\ NoPress \in Presses /\ NoPress.count = 0 /\ Serial(0) = 0
    /\ 0 \in 0..MaxSerial /\ 0 \in 0..MaxPress
  BY ProfilesAssumption DEF NoPress, Presses, Serial

LEMMA BooksOfPresses ==
    ASSUME PressInv
    PROVE  /\ \A k \in Keys : press[k].count \in 0..MaxPress /\ acted[k] \in 0..MaxPress
           /\ \A u \in Units : heard[u].count \in 0..MaxPress
           /\ MaxPress \in Nat
  BY ProfilesAssumption DEF PressInv, PressTypes, Presses

LEMMA EnterPresses ==
    ASSUME KeysInv, PressInv, NEW u \in Units, NEW k \in Keys, Enter(u, k) PROVE PressInv'
  <1>1. /\ u \in Units \ party /\ party' = party \cup {u} /\ party \subseteq Units
        /\ bound' = [bound EXCEPT ![u] = k] /\ \A v \in Units : bound[v] # k
        /\ seen' = [seen EXCEPT ![u] = 0] /\ heard' = [heard EXCEPT ![u] = NoPress]
        /\ acted' = [acted EXCEPT ![k] = 0] /\ press' = press /\ before' = before
    BY DEF Enter, Join, FirstFree, Free, KeyFree, Playing, SeenAtJoin, KeysInv
  <1>2. PressTypes'
    BY <1>1, NothingPressed DEF PressInv, PressTypes
  <1>3. Asked'
    BY <1>1, NothingPressed DEF PressInv, PressTypes, Asked
  <1>4. ASSUME NEW v \in party PROVE InOrder(v)'
    <2>1. v \in Units /\ v # u /\ bound[v] # k /\ bound[v] \in Keys
      BY <1>1 DEF KeysInv
    <2>2. /\ heard'[v] = heard[v] /\ bound'[v] = bound[v] /\ seen'[v] = seen[v]
          /\ acted'[bound[v]] = acted[bound[v]]
      BY <1>1, <2>1 DEF KeysInv, PressInv, PressTypes
    <2> QED
      BY <1>1, <2>2 DEF PressInv, InOrder
  <1>5. InOrder(u)'
    <2>1. heard'[u].count = 0 /\ bound'[u] = k /\ seen'[u] = Serial(0) /\ acted'[k] = 0
      BY <1>1, NothingPressed DEF KeysInv, PressInv, PressTypes
    <2>2. press'[k].count \in Nat
      BY <1>1, BooksOfPresses
    <2> QED
      BY <2>1, <2>2 DEF InOrder
  <1> QED
    BY <1>1, <1>2, <1>3, <1>4, <1>5 DEF PressInv

LEMMA ExitPresses ==
    ASSUME KeysInv, PressInv, NEW u \in Units, Exit(u) PROVE PressInv'
  <1>1. /\ party' = party \ {u} /\ party \subseteq Units
        /\ bound' = [bound EXCEPT ![u] = NoKey] /\ heard' = [heard EXCEPT ![u] = NoPress]
        /\ press' = press /\ seen' = seen /\ acted' = acted
        /\ StayEnds({bound[u]})
    BY DEF Exit, Leave, KeysInv
  <1>2. PressTypes'
    BY <1>1, NothingPressed DEF PressInv, PressTypes, StayEnds
  <1>3. Asked'
    BY <1>1, NothingPressed DEF PressInv, PressTypes, Asked
  <1>4. ASSUME NEW v \in party, v # u PROVE InOrder(v)'
    <2>1. heard'[v] = heard[v] /\ bound'[v] = bound[v]
      BY <1>1, <1>4 DEF KeysInv, PressInv, PressTypes
    <2> QED
      BY <1>1, <1>4, <2>1 DEF PressInv, InOrder
  <1> QED
    BY <1>1, <1>2, <1>3, <1>4 DEF PressInv

(* Who is heard, or not, keeps its books; presses go up. *)
LEMMA RequestPresses ==
    ASSUME KeysInv, PressInv, NEW u \in Units, Request(u) PROVE PressInv'
  <1> DEFINE k == bound[u]
             n == heard[u].count
  <1>1. /\ party' = party /\ bound' = bound /\ press' = press /\ heard' = heard /\ before' = before
        /\ seen' = [seen EXCEPT ![u] = Serial(n)] /\ seen[u] # Serial(n)
        /\ acted' \in {acted, [acted EXCEPT ![k] = n]}
        /\ k # NoKey
    BY DEF Request, Refused, Granted, TakenBack, Fresh, waveVars
  <1>2. u \in party /\ k \in Keys /\ n \in 0..MaxPress /\ n \in Nat /\ Serial(n) \in 0..MaxSerial
    BY <1>1, UnitOfKey, BooksOfPresses, SerialType
  <1>3. PressTypes'
    BY <1>1, <1>2 DEF PressInv, PressTypes
  <1>4. Asked'
    BY <1>1 DEF PressInv, Asked
  <1>5. ASSUME NEW v \in party, v # u PROVE InOrder(v)'
    <2>1. v \in Units /\ bound[v] # k /\ seen'[v] = seen[v] /\ acted'[bound[v]] = acted[bound[v]]
      BY <1>1, <1>2, <1>5 DEF KeysInv, PressInv, PressTypes
    <2> QED
      BY <1>1, <1>5, <2>1 DEF PressInv, InOrder
  <1>6. InOrder(u)'
    <2>1. PICK m \in Nat : acted[k] <= m /\ m <= n
      BY <1>2 DEF PressInv, InOrder
    <2>2. acted[k] \in Nat /\ acted[k] <= n /\ n <= press[k].count
      BY <1>2, <2>1, BooksOfPresses DEF PressInv, InOrder
    <2>3. acted'[k] <= n /\ seen'[u] = Serial(n)
      BY <1>1, <1>2, <2>2 DEF PressInv, PressTypes
    <2> QED
      BY <1>1, <1>2, <2>2, <2>3 DEF InOrder
  <1> QED
    BY <1>1, <1>3, <1>4, <1>5, <1>6 DEF PressInv

LEMMA PressPresses ==
    ASSUME KeysInv, PressInv, NEW k \in Keys, Press(k) PROVE PressInv'
  <1>1. PICK i \in Intents : press' = [press EXCEPT ![k] = [count |-> @.count + 1, intent |-> i]]
    BY DEF Press
  <1>2. /\ party' = party /\ bound' = bound /\ heard' = heard /\ seen' = seen
        /\ acted' = acted /\ before' = before /\ press[k].count < MaxPress
    BY DEF Press, waveVars
  <1>3. press[k].count \in Nat /\ press[k].count + 1 \in 0..MaxPress
    BY <1>2, BooksOfPresses
  <1>4. /\ press'[k] = [count |-> press[k].count + 1, intent |-> i] /\ press'[k] \in Presses
        /\ \A l \in Keys : l # k => press'[l] = press[l]
    BY <1>1, <1>3 DEF PressInv, PressTypes, Presses
  <1>5. PressTypes'
    BY <1>1, <1>2, <1>4 DEF PressInv, PressTypes
  <1>6. Asked'
    BY <1>2, <1>4 DEF PressInv, Asked
  <1>7. ASSUME NEW u \in party PROVE InOrder(u)'
    <2>1. bound[u] \in Keys /\ u \in Units
      BY DEF KeysInv
    <2>2. heard[u].count \in Nat /\ press[bound[u]].count \in Nat
          /\ heard[u].count <= press[bound[u]].count
      BY <2>1, BooksOfPresses DEF PressInv, InOrder
    <2>3. heard[u].count <= press'[bound[u]].count
      BY <1>3, <1>4, <2>1, <2>2
    <2> QED
      BY <1>2, <2>3 DEF PressInv, InOrder
  <1> QED
    BY <1>2, <1>5, <1>6, <1>7 DEF PressInv

LEMMA HearPresses ==
    ASSUME KeysInv, PressInv, NEW u \in Units, Hear(u) PROVE PressInv'
  <1>1. /\ party' = party /\ bound' = bound /\ press' = press /\ seen' = seen
        /\ acted' = acted /\ before' = before /\ bound[u] # NoKey
        /\ heard' = [heard EXCEPT ![u] = press[bound[u]]]
    BY DEF Hear, waveVars
  <1>2. u \in party /\ bound[u] \in Keys
    BY <1>1, UnitOfKey
  <1>3. PressTypes' /\ Asked'
    BY <1>1, <1>2 DEF PressInv, PressTypes, Asked
  <1>4. ASSUME NEW v \in party PROVE InOrder(v)'
    <2>1. CASE v = u
      <3>1. heard'[u] = press[bound[u]]
        BY <1>1 DEF PressInv, PressTypes
      <3>2. PICK n \in Nat : acted[bound[u]] <= n /\ n <= heard[u].count /\ seen[u] = Serial(n)
        BY <1>2 DEF PressInv, InOrder
      <3>3. heard[u].count <= press[bound[u]].count
            /\ heard[u].count \in Nat /\ press[bound[u]].count \in Nat
        BY <1>2, BooksOfPresses DEF PressInv, InOrder
      <3>4. n <= press[bound[u]].count
        BY <3>2, <3>3
      <3> QED
        BY <1>1, <2>1, <3>1, <3>2, <3>3, <3>4 DEF InOrder
    <2>2. CASE v # u
      <3>1. heard'[v] = heard[v]
        BY <1>1, <2>2 DEF KeysInv, PressInv, PressTypes
      <3> QED
        BY <1>1, <3>1 DEF PressInv, InOrder
    <2> QED
      BY <2>1, <2>2
  <1> QED
    BY <1>1, <1>3, <1>4 DEF PressInv

LEMMA PressNext == KeysInv /\ PressInv /\ [Next]_vars => PressInv'
  <1> SUFFICES ASSUME KeysInv, PressInv, [Next]_vars PROVE PressInv'
    OBVIOUS
  <1>0. CASE UNCHANGED <<party, bound, press, heard, seen, acted, before>>
    BY <1>0 DEF PressInv, PressTypes, Asked, InOrder
  <1>1. ASSUME NEW u \in Units, NEW k \in Keys, EnterUnsaved(u, k) PROVE PressInv'
    <2>1. /\ UNCHANGED <<party, bound, press, heard, acted, before>>
          /\ seen' = [seen EXCEPT ![u] = 0] /\ u \notin party
      BY <1>1 DEF EnterUnsaved, SeenAtJoin, FirstFree, Free, waveVars
    <2>2. \A v \in party : seen'[v] = seen[v]
      BY <2>1 DEF KeysInv, PressInv, PressTypes
    <2> QED
      BY <2>1, <2>2, NothingPressed DEF PressInv, PressTypes, Asked, InOrder
  <1>2. ASSUME NEW k \in Keys, StartAnew(k) PROVE PressInv'
    <2>1. /\ UNCHANGED <<party, bound, heard, seen, acted>>
          /\ press' = [press EXCEPT ![k] = NoPress] /\ before' = [before EXCEPT ![k] = 0]
          /\ \A u \in Units : bound[u] # k
      BY <1>2 DEF StartAnew, Playing, waveVars
    <2>2. \A u \in party : press'[bound[u]] = press[bound[u]]
      BY <2>1 DEF KeysInv, PressInv, PressTypes
    <2>3. PressTypes'
      BY <2>1, NothingPressed DEF PressInv, PressTypes
    <2>4. Asked'
      BY <2>1, NothingPressed DEF PressInv, PressTypes, Asked
    <2> QED
      BY <2>1, <2>2, <2>3, <2>4 DEF PressInv, InOrder
  <1>3. CASE Crash
    <2>1. /\ party' = {} /\ press' = press /\ acted' = acted
          /\ seen' = [u \in Units |-> 0] /\ heard' = [u \in Units |-> NoPress]
          /\ StayEnds({k \in Keys : Playing(k)})
      BY <1>3 DEF Crash
    <2>2. PressTypes'
      BY <2>1, NothingPressed DEF PressInv, PressTypes, StayEnds
    <2> QED
      BY <2>1, <2>2, NothingPressed DEF PressInv, Asked
  <1>4. ASSUME NEW u \in Units, EnemySlain(u) \/ Wounded(u) \/ Mended(u) \/ Fallen(u)
        PROVE  PressInv'
    BY <1>0, <1>4 DEF EnemySlain, Wounded, Mended, Fallen, Slain, Fall, waveVars
  <1>5. CASE WaveEnds \/ WaveGoesOn
    BY <1>0, <1>5 DEF WaveEnds, WaveGoesOn, Cleared, Defeated, Recover, Spawn
  <1>6. CASE Flush
    BY <1>0, <1>6 DEF Flush, waveVars
  <1>7. CASE UNCHANGED vars
    BY <1>0, <1>7 DEF vars, waveVars
  <1> QED
    BY <1>1, <1>2, <1>3, <1>4, <1>5, <1>6, <1>7,
       EnterPresses, ExitPresses, RequestPresses, PressPresses, HearPresses DEF Next

-----------------------------------------------------------------------------
(* Profiles, in memory and on disk *)

GoodsTypes ==
    /\ disk \in [Keys -> ProfileType] /\ profile \in [Units -> ProfileType]
    /\ dirty \subseteq Units /\ hurt \subseteq party

GoodsInv == GoodsTypes /\ CleanIsSaved

LEMMA GoodsInit == Init => GoodsInv
  BY NewcomerType DEF Init, WavesInit, GoodsInv, GoodsTypes, CleanIsSaved

(* What a save leaves on disk: the profiles of those saved, the rest as it was. *)
LEMMA WrittenOf ==
    ASSUME KeysInv, NEW profiles \in [Units -> ProfileType], disk \in [Keys -> ProfileType],
           NEW saving \in SUBSET Units, NEW failing
    PROVE  /\ Written(profiles, saving, failing) \in [Keys -> ProfileType]
           /\ \A u \in party : Written(profiles, saving, failing)[bound[u]] =
                  IF u \in saving \ failing THEN profiles[u] ELSE disk[bound[u]]
           /\ \A k \in Keys : ~Playing(k) => Written(profiles, saving, failing)[k] = disk[k]
  <1> DEFINE w == Written(profiles, saving, failing)
  <1>1. \A k \in Keys : w[k] = IF \E u \in saving \ failing : bound[u] = k
                                THEN profiles[UnitOf(k)] ELSE disk[k]
    BY DEF Written
  <1>2. ASSUME NEW k \in Keys PROVE w[k] \in ProfileType
    <2>1. CASE \E u \in saving \ failing : bound[u] = k
      <3>1. UnitOf(k) \in Units
        BY <2>1, KeyOfUnit DEF KeysInv, Playing
      <3> QED
        BY <1>1, <2>1, <3>1
    <2> QED
      BY <1>1, <2>1
  <1>3. w \in [Keys -> ProfileType]
    BY <1>2 DEF Written
  <1>4. ASSUME NEW u \in party
        PROVE  w[bound[u]] = IF u \in saving \ failing THEN profiles[u] ELSE disk[bound[u]]
    <2>1. u \in Units /\ bound[u] \in Keys /\ bound[u] # NoKey
      BY DEF KeysInv
    <2>2. UnitOf(bound[u]) = u
      BY <2>1, UnitOfKey
    <2>3. (\E v \in saving \ failing : bound[v] = bound[u]) <=> u \in saving \ failing
      BY <2>1 DEF KeysInv
    <2> QED
      BY <1>1, <2>1, <2>2, <2>3
  <1>5. ASSUME NEW k \in Keys, ~Playing(k) PROVE w[k] = disk[k]
    BY <1>1, <1>5 DEF Playing
  <1> QED
    BY <1>3, <1>4, <1>5

(* A save of those who are dirty and of those whose profiles change. *)
LEMMA SavingGoods ==
    ASSUME KeysInv, GoodsInv, NEW saving \in SUBSET Units, NEW failing,
           profile' \in [Units -> ProfileType], hurt' \subseteq party,
           dirty \subseteq saving, \A u \in party \ saving : profile'[u] = profile[u],
           disk' = Written(profile', saving, failing),
           dirty' = saving \cap (failing \cup {u \in Units : bound[u] = NoKey}),
           UNCHANGED <<party, bound>>
    PROVE  GoodsInv'
  <1>1. disk \in [Keys -> ProfileType] /\ party \subseteq Units /\ \A u \in party : bound[u] # NoKey
    BY DEF GoodsInv, GoodsTypes, KeysInv
  <1>2. /\ disk' \in [Keys -> ProfileType]
        /\ \A u \in party : disk'[bound[u]] =
              IF u \in saving \ failing THEN profile'[u] ELSE disk[bound[u]]
    <2> DEFINE w == Written(profile', saving, failing)
    <2>1. /\ w \in [Keys -> ProfileType]
          /\ \A u \in party : w[bound[u]] =
                IF u \in saving \ failing THEN profile'[u] ELSE disk[bound[u]]
      BY <1>1, WrittenOf
    <2>2. disk' = w
      OBVIOUS
    <2> QED
      BY <2>1, <2>2
  <1>3. ASSUME NEW u \in party, u \notin dirty' PROVE disk'[bound[u]] = profile'[u]
    <2>1. u \notin saving \/ u \notin failing
      BY <1>1, <1>3
    <2>2. CASE u \in saving
      BY <1>2, <2>1, <2>2
    <2>3. CASE u \notin saving
      BY <1>2, <2>3 DEF GoodsInv, CleanIsSaved
    <2> QED
      BY <2>2, <2>3
  <1> QED
    BY <1>2, <1>3 DEF GoodsInv, GoodsTypes, CleanIsSaved

LEMMA EnterGoods ==
    ASSUME KeysInv, GoodsInv, NEW u \in Units, NEW k \in Keys, Enter(u, k) PROVE GoodsInv'
  <1>1. /\ u \in Units \ party /\ party' = party \cup {u} /\ party \subseteq Units
        /\ bound' = [bound EXCEPT ![u] = k] /\ \A v \in Units : bound[v] # k
        /\ profile' = [profile EXCEPT ![u] = Equipped(disk[k])]
        /\ disk' = [disk EXCEPT ![k] = Equipped(disk[k])]
        /\ dirty' = dirty \ {u} /\ hurt' = hurt \ {u}
    BY DEF Enter, Join, FirstFree, Free, KeyFree, Playing, KeysInv
  <1>2. Equipped(disk[k]) \in ProfileType
    BY EquippedType DEF GoodsInv, GoodsTypes
  <1>3. GoodsTypes'
    BY <1>1, <1>2 DEF GoodsInv, GoodsTypes
  <1>4. ASSUME NEW v \in party' \ dirty' PROVE disk'[bound'[v]] = profile'[v]
    <2>1. CASE v = u
      BY <1>1, <2>1 DEF KeysInv, GoodsInv, GoodsTypes
    <2>2. CASE v # u
      <3>1. v \in party \ dirty /\ bound[v] # k /\ bound[v] \in Keys
        BY <1>1, <2>2 DEF KeysInv
      <3> QED
        BY <1>1, <2>2, <3>1 DEF KeysInv, GoodsInv, GoodsTypes, CleanIsSaved
    <2> QED
      BY <2>1, <2>2
  <1> QED
    BY <1>3, <1>4 DEF GoodsInv, CleanIsSaved

LEMMA ExitGoods ==
    ASSUME KeysInv, GoodsInv, NEW u \in Units, Exit(u) PROVE GoodsInv'
  <1>1. /\ u \in party /\ party' = party \ {u} /\ party \subseteq Units
        /\ bound' = [bound EXCEPT ![u] = NoKey]
        /\ profile' = [profile EXCEPT ![u] = Newcomer]
        /\ hurt' = hurt \ {u} /\ bound[u] \in Keys
        /\ \/ disk' = [disk EXCEPT ![bound[u]] = profile[u]] /\ dirty' = dirty \ {u}
           \/ disk' = disk /\ dirty' = dirty
    BY DEF Exit, Leave, KeysInv
  <1>2. GoodsTypes'
    BY <1>1, NewcomerType DEF GoodsInv, GoodsTypes
  <1>3. ASSUME NEW v \in party' \ dirty' PROVE disk'[bound'[v]] = profile'[v]
    <2>1. v \in party \ dirty /\ v # u /\ v \in Units /\ bound[v] # bound[u] /\ bound[v] \in Keys
      BY <1>1 DEF KeysInv
    <2>2. disk'[bound[v]] = disk[bound[v]]
      BY <1>1, <2>1 DEF GoodsInv, GoodsTypes
    <2>3. bound'[v] = bound[v] /\ profile'[v] = profile[v]
      BY <1>1, <2>1 DEF KeysInv, GoodsInv, GoodsTypes
    <2> QED
      BY <2>1, <2>2, <2>3 DEF GoodsInv, CleanIsSaved
  <1> QED
    BY <1>2, <1>3 DEF GoodsInv, CleanIsSaved

(* What a press that is granted asks for is a deal that was possible. *)
LEMMA GrantedDeal ==
    ASSUME KeysInv, PressInv, GoodsInv, NEW u \in Units, Request(u), Granted(u)
    PROVE  /\ heard[u].intent \in Intents /\ Possible(u, heard[u].intent)
           /\ u \in party /\ bound[u] \in Keys
           /\ profile[u] \in ProfileType /\ Deal(u, heard[u].intent) \in ProfileType
  <1>1. u \in party /\ bound[u] \in Keys
    BY UnitOfKey DEF Request
  <1>2. heard[u].count # 0
    <2>1. Serial(heard[u].count) # 0
      BY DEF Request, Fresh
    <2> QED
      BY <2>1, NothingPressed
  <1>3. heard[u].intent \in Intents
    BY <1>2 DEF PressInv, Asked
  <1>4. Possible(u, heard[u].intent) /\ profile[u] \in ProfileType
    BY DEF Granted, GoodsInv, GoodsTypes
  <1> QED
    BY <1>1, <1>3, <1>4, DealType

LEMMA RequestGoods ==
    ASSUME KeysInv, PressInv, GoodsInv, NEW u \in Units, Request(u) PROVE GoodsInv'
  <1>1. UNCHANGED <<party, bound>> /\ party \subseteq Units
    BY DEF Request, waveVars, KeysInv
  <1>2. CASE Refused(u)
    BY <1>1, <1>2 DEF Refused, GoodsInv, GoodsTypes, CleanIsSaved
  <1>3. CASE TakenBack(u)
    BY <1>1, <1>3 DEF TakenBack, HealthAfterFailedSave, GoodsInv, GoodsTypes, CleanIsSaved
  <1>4. CASE Granted(u)
    <2> DEFINE p == Deal(u, heard[u].intent)
    <2>1. /\ profile' = [profile EXCEPT ![u] = p] /\ disk' = [disk EXCEPT ![bound[u]] = p]
          /\ dirty' = dirty \ {u} /\ hurt' \subseteq hurt
      BY <1>4 DEF Granted, Heals
    <2>2. u \in party /\ bound[u] \in Keys /\ p \in ProfileType
      BY <1>4, GrantedDeal
    <2> HIDE DEF p
    <2>3. GoodsTypes'
      BY <1>1, <2>1, <2>2 DEF GoodsInv, GoodsTypes
    <2>4. ASSUME NEW v \in party \ dirty' PROVE disk'[bound[v]] = profile'[v]
      <3>1. CASE v = u
        BY <2>1, <2>2, <3>1 DEF GoodsInv, GoodsTypes
      <3>2. CASE v # u
        <4>1. v \in party \ dirty /\ bound[v] # bound[u] /\ bound[v] \in Keys /\ v \in Units
          BY <2>1, <2>2, <3>2 DEF KeysInv
        <4> QED
          BY <2>1, <3>2, <4>1 DEF GoodsInv, GoodsTypes, CleanIsSaved
      <3> QED
        BY <3>1, <3>2
    <2> QED
      BY <1>1, <2>3, <2>4 DEF GoodsInv, CleanIsSaved
  <1> QED
    BY <1>2, <1>3, <1>4 DEF Request

LEMMA EnemySlainGoods ==
    ASSUME KeysInv, GoodsInv, NEW b \in Units, EnemySlain(b) PROVE GoodsInv'
  <1>1. UNCHANGED <<party, bound, disk, hurt>> /\ party \subseteq Units
    BY DEF EnemySlain, Slain, KeysInv
  <1>2. CASE UNCHANGED <<profile, dirty>>
    BY <1>1, <1>2 DEF GoodsInv, GoodsTypes, CleanIsSaved
  <1>3. ASSUME NEW u \in party, profile' = [profile EXCEPT ![u] = Richer(@)], dirty' = dirty \cup {u}
        PROVE  GoodsInv'
    <2>1. Richer(profile[u]) \in ProfileType
      BY <1>1, RicherType DEF GoodsInv, GoodsTypes
    <2> QED
      BY <1>1, <1>3, <2>1 DEF GoodsInv, GoodsTypes, CleanIsSaved
  <1> QED
    BY <1>2, <1>3 DEF EnemySlain, DirtyAfterKill

LEMMA WaveEndsGoods == ASSUME KeysInv, GoodsInv, WaveEnds PROVE GoodsInv'
  <1> DEFINE saving == IF phase' = "REST" THEN dirty \cup party ELSE dirty
  <1>1. UNCHANGED <<party, bound>> /\ party \subseteq Units
    BY DEF WaveEnds, Cleared, Defeated, KeysInv
  <1>2. PICK failing \in Failing(saving) :
            /\ disk' = Written(profile', saving, failing)
            /\ dirty' = saving \cap (failing \cup {u \in Units : bound[u] = NoKey})
    BY DEF WaveEnds
  <1>3. profile' \in [Units -> ProfileType] /\ hurt' \subseteq party
        /\ \A u \in party \ saving : profile'[u] = profile[u]
    <2>1. CASE UNCHANGED <<profile, hurt>>
      BY <2>1 DEF GoodsInv, GoodsTypes
    <2>2. CASE /\ Cleared /\ hurt' = {}
               /\ profile' = [u \in Units |-> IF u \in party THEN Richer(profile[u]) ELSE profile[u]]
      <3>1. \A u \in Units : Richer(profile[u]) \in ProfileType
        BY RicherType DEF GoodsInv, GoodsTypes
      <3>2. party \subseteq saving
        BY <2>2 DEF Cleared
      <3> QED
        BY <2>2, <3>1, <3>2 DEF GoodsInv, GoodsTypes
    <2> QED
      BY <2>1, <2>2 DEF WaveEnds
  <1>4. saving \in SUBSET Units /\ dirty \subseteq saving
    BY <1>1 DEF GoodsInv, GoodsTypes
  <1> HIDE DEF saving
  <1> QED
    BY <1>1, <1>2, <1>3, <1>4, SavingGoods

LEMMA FlushGoods == ASSUME KeysInv, GoodsInv, Flush PROVE GoodsInv'
  <1>1. UNCHANGED <<party, bound, profile, hurt>>
    BY DEF Flush, waveVars
  <1>2. PICK failing \in Failing(dirty) :
            /\ disk' = Written(profile', dirty, failing)
            /\ dirty' = dirty \cap (failing \cup {u \in Units : bound[u] = NoKey})
    BY <1>1 DEF Flush
  <1> QED
    BY <1>1, <1>2, SavingGoods DEF GoodsInv, GoodsTypes

LEMMA GoodsNext == KeysInv /\ PressInv /\ GoodsInv /\ [Next]_vars => GoodsInv'
  <1> SUFFICES ASSUME KeysInv, PressInv, GoodsInv, [Next]_vars PROVE GoodsInv'
    OBVIOUS
  <1>0. ASSUME UNCHANGED <<party, bound, profile, disk>>, dirty \subseteq dirty',
               dirty' \subseteq Units, hurt' \subseteq party
        PROVE  GoodsInv'
    BY <1>0 DEF GoodsInv, GoodsTypes, CleanIsSaved
  <1>a. dirty \subseteq Units /\ hurt \subseteq party /\ party \subseteq Units
    BY DEF GoodsInv, GoodsTypes, KeysInv
  <1>1. ASSUME NEW u \in Units, NEW k \in Keys, EnterUnsaved(u, k) PROVE GoodsInv'
    BY <1>0, <1>1, <1>a DEF EnterUnsaved, waveVars
  <1>2. ASSUME NEW k \in Keys, Press(k) \/ StartAnew(k) PROVE GoodsInv'
    BY <1>0, <1>2, <1>a DEF Press, StartAnew, waveVars
  <1>3. ASSUME NEW u \in Units, Hear(u) PROVE GoodsInv'
    BY <1>0, <1>3, <1>a DEF Hear, waveVars
  <1>4. ASSUME NEW u \in Units, Wounded(u) \/ Mended(u) \/ Fallen(u) PROVE GoodsInv'
    BY <1>0, <1>4, <1>a DEF Wounded, Mended, Fallen, Fall, waveVars
  <1>5. CASE WaveGoesOn
    BY <1>0, <1>5, <1>a DEF WaveGoesOn, Recover, Spawn
  <1>6. CASE Crash
    BY <1>6, NewcomerType DEF Crash, GoodsInv, GoodsTypes, CleanIsSaved
  <1>7. CASE UNCHANGED vars
    BY <1>0, <1>7, <1>a DEF vars, waveVars
  <1> QED
    BY <1>1, <1>2, <1>3, <1>4, <1>5, <1>6, <1>7, EnterGoods, ExitGoods, RequestGoods,
       EnemySlainGoods, WaveEndsGoods, FlushGoods DEF Next

-----------------------------------------------------------------------------
(* The invariant of the survival mode *)

IInv == RoomInv /\ KeysInv /\ PressInv /\ GoodsInv

LEMMA IInvInit == Init => IInv
  BY RoomInit, KeysInit, PressInit, GoodsInit DEF Init, IInv

LEMMA IInvNext == IInv /\ [Next]_vars => IInv'
  BY RoomNext, KeysNext, PressNext, GoodsNext DEF IInv

LEMMA IInvAlways == Spec => []IInv
  BY IInvInit, IInvNext, PTL DEF Spec

(* The books are well formed: players are those with a key, no key plays twice, no
   gold is owed and no number leaves its range. *)
THEOREM ProfilesTypeInvariant == Spec => []ProfilesTypeOK
  <1>1. IInv => ProfilesTypeOK
    BY DEF IInv, RoomInv, KeysInv, PressInv, PressTypes, GoodsInv, GoodsTypes, ProfilesTypeOK
  <1> QED
    BY <1>1, IInvAlways, PTL

(* What is not marked dirty is on disk, whichever saves fail and whoever leaves. *)
THEOREM CleanProfilesAreSaved == Spec => []CleanIsSaved
  <1>1. IInv => CleanIsSaved
    BY DEF IInv, GoodsInv
  <1> QED
    BY <1>1, IInvAlways, PTL
(* Gold and health: who is healed by its request has paid with a potion, which is
   also gone on disk. *)
THEOREM PotionsArePaid == Spec => PotionPaid
  <1>1. ASSUME IInv, Next, NEW u \in party \cap hurt,
               seen'[u] # seen[u], bound'[u] = bound[u], u \notin hurt'
        PROVE  \E g \in Potions : disk'[bound[u]].has[g] + 1 = profile[u].has[g]
    <2>0. u \in Units /\ bound[u] # NoKey /\ seen \in [Units -> 0..MaxSerial]
      BY <1>1 DEF IInv, KeysInv, PressInv, PressTypes
    <2>1. ASSUME NEW v \in Units, NEW k \in Keys, Enter(v, k) \/ EnterUnsaved(v, k) PROVE FALSE
      <3>1. v # u /\ seen' = [seen EXCEPT ![v] = 0]
        BY <2>1 DEF Enter, EnterUnsaved, Join, FirstFree, Free, SeenAtJoin
      <3> QED
        BY <1>1, <2>0, <3>1
    <2>2. CASE Crash
      BY <1>1, <2>0, <2>2 DEF Crash
    <2>3. CASE UNCHANGED seen
      BY <1>1, <2>3
    <2>4. ASSUME NEW v \in Units, Request(v), v # u PROVE FALSE
      BY <1>1, <2>0, <2>4 DEF Request
    <2>5. CASE Request(u)
      <3>1. Granted(u) /\ heard[u].intent.act = "USE"
        BY <1>1, <2>5 DEF Request, Refused, TakenBack, HealthAfterFailedSave, Granted, Heals
      <3> DEFINE g == heard[u].intent.good
      <3>2. /\ heard[u].intent \in Intents /\ Possible(u, heard[u].intent)
            /\ bound[u] \in Keys /\ profile[u] \in ProfileType
        BY <2>0, <2>5, <3>1, <1>1, GrantedDeal DEF IInv
      <3>3. g \in Potions /\ g \in Goods /\ profile[u].has[g] \in Nat
        BY <3>1, <3>2, ProfilesAssumption DEF Possible, ProfileType
      <3>4. disk'[bound[u]] = Deal(u, heard[u].intent)
        BY <1>1, <3>1, <3>2 DEF Granted, IInv, GoodsInv, GoodsTypes
      <3>5. Deal(u, heard[u].intent).has[g] = profile[u].has[g] - 1
        BY <3>1, <3>2, <3>3 DEF Deal, ProfileType
      <3> QED
        BY <3>3, <3>4, <3>5
    <2>6. ASSUME NEW v \in Units, Exit(v) \/ Hear(v) PROVE UNCHANGED seen
      BY <2>6 DEF Exit, Hear
    <2>7. ASSUME NEW k \in Keys, Press(k) \/ StartAnew(k) PROVE UNCHANGED seen
      BY <2>7 DEF Press, StartAnew
    <2>8. ASSUME NEW v \in Units, EnemySlain(v) \/ Wounded(v) \/ Mended(v) \/ Fallen(v)
          PROVE  UNCHANGED seen
      BY <2>8 DEF EnemySlain, Wounded, Mended, Fallen
    <2>9. CASE WaveEnds \/ WaveGoesOn \/ Flush
      BY <2>3, <2>9 DEF WaveEnds, WaveGoesOn, Flush
    <2> QED
      BY <1>1, <2>1, <2>2, <2>3, <2>4, <2>5, <2>6, <2>7, <2>8, <2>9 DEF Next
  <1>2. IInv /\ [Next]_vars =>
           [\A u \in party \cap hurt :
               seen'[u] # seen[u] /\ bound'[u] = bound[u] /\ u \notin hurt' =>
                   \E g \in Potions : disk'[bound[u]].has[g] + 1 = profile[u].has[g]]_vars
    BY <1>1
  <1> QED
    BY <1>2, IInvAlways, PTL DEF Spec, PotionPaid

-----------------------------------------------------------------------------
(* The promise of module Account *)

(* What a key owns is the profile of its unit, or the saved one. *)
LEMMA OwnedNow ==
    ASSUME KeysInv
    PROVE  \A k \in Keys :
              /\ \A u \in Units : bound[u] = k => Owned(k) = profile[u]
              /\ (\A u \in Units : bound[u] # k) => Owned(k) = disk[k]
  <1>1. ASSUME NEW k \in Keys, NEW u \in Units, bound[u] = k PROVE Owned(k) = profile[u]
    BY <1>1, UnitOfKey, ProfilesAssumption DEF Owned
  <1>2. ASSUME NEW k \in Keys, \A u \in Units : bound[u] # k PROVE Owned(k) = disk[k]
    BY <1>2 DEF Owned, Playing
  <1> QED
    BY <1>1, <1>2

LEMMA OwnedAfter ==
    ASSUME KeysInv'
    PROVE  \A k \in Keys :
              /\ \A u \in Units : bound'[u] = k => Owned(k)' = profile'[u]
              /\ (\A u \in Units : bound'[u] # k) => Owned(k)' = disk'[k]
  <1>1. ASSUME NEW k \in Keys, NEW u \in Units, bound'[u] = k PROVE Owned(k)' = profile'[u]
    <2>1. Playing(k)' /\ UnitOf(k)' = u
      BY <1>1, ProfilesAssumption DEF KeysInv, Playing, UnitOf
    <2> QED
      BY <2>1 DEF Owned
  <1>2. ASSUME NEW k \in Keys, \A u \in Units : bound'[u] # k PROVE Owned(k)' = disk'[k]
    BY <1>2 DEF Owned, Playing
  <1> QED
    BY <1>1, <1>2

LEMMA OwnedType == ASSUME KeysInv, GoodsInv PROVE \A k \in Keys : Owned(k) \in ProfileType
  <1> SUFFICES ASSUME NEW k \in Keys PROVE Owned(k) \in ProfileType
    OBVIOUS
  <1>1. CASE \E u \in Units : bound[u] = k
    BY <1>1, OwnedNow DEF GoodsInv, GoodsTypes
  <1>2. CASE \A u \in Units : bound[u] # k
    BY <1>2, OwnedNow DEF GoodsInv, GoodsTypes
  <1> QED
    BY <1>1, <1>2

(* Gold is earned, or what there is is saved, or nothing changes: Advance. *)
LEMMA Advances ==
    ASSUME KeysInv, KeysInv', GoodsInv, UNCHANGED <<party, bound, acted>>,
           \A u \in party : /\ profile'[u].has = profile[u].has
                            /\ profile'[u].gold >= profile[u].gold
                            /\ disk'[bound[u]] \in {disk[bound[u]], profile'[u]},
           \A k \in Keys : ~Playing(k) => disk'[k] = disk[k]
    PROVE  Character!Advance
  <1>1. ASSUME NEW k \in Keys
        PROVE  /\ Owned(k)'.has = Owned(k).has /\ Owned(k)'.gold >= Owned(k).gold
               /\ disk'[k] \in {disk[k], Owned(k)'}
    <2>1. CASE Playing(k)
      <3>1. PICK u \in Units : bound[u] = k
        BY <2>1 DEF Playing
      <3>2. u \in party /\ bound'[u] = k
        BY <3>1, ProfilesAssumption DEF KeysInv
      <3>3. Owned(k) = profile[u] /\ Owned(k)' = profile'[u]
        BY <3>1, <3>2, OwnedNow, OwnedAfter
      <3> QED
        BY <3>1, <3>2, <3>3
    <2>2. CASE ~Playing(k)
      <3>1. \A u \in Units : bound[u] # k /\ bound'[u] # k
        BY <2>2 DEF Playing
      <3>2. Owned(k) = disk[k] /\ Owned(k)' = disk[k] /\ disk'[k] = disk[k]
        BY <2>2, <3>1, OwnedNow, OwnedAfter
      <3>3. disk[k].gold \in Nat
        BY DEF GoodsInv, GoodsTypes, ProfileType
      <3> QED
        BY <3>2, <3>3
    <2> QED
      BY <2>1, <2>2
  <1> QED
    BY <1>1 DEF Character!Advance


(* A player comes: the starters it lacks are given and saved. *)
LEMMA EnterAccount ==
    ASSUME KeysInv, KeysInv', GoodsInv, PressInv, NEW u \in Units, NEW k \in Keys, Enter(u, k)
    PROVE  Character!Enter(k)
  <1>1. /\ u \in Units \ party /\ ~Playing(k) /\ bound' = [bound EXCEPT ![u] = k]
        /\ profile' = [profile EXCEPT ![u] = Equipped(disk[k])]
        /\ disk' = [disk EXCEPT ![k] = Equipped(disk[k])]
        /\ acted' = [acted EXCEPT ![k] = 0]
    BY DEF Enter, Join, FirstFree, Free, KeyFree
  <1>2. bound'[u] = k /\ profile'[u] = Equipped(disk[k])
    BY <1>1 DEF KeysInv, GoodsInv, GoodsTypes
  <1>3. Owned(k) = disk[k] /\ Owned(k)' = Equipped(disk[k])
    BY <1>1, <1>2, OwnedNow, OwnedAfter DEF Playing
  <1>4. ASSUME NEW l \in Keys, l # k PROVE Owned(l)' = Owned(l)
    <2>1. CASE \E v \in Units : bound[v] = l
      <3>1. PICK v \in Units : bound[v] = l
        BY <2>1
      <3>2. v \in party /\ v # u
        BY <1>1, <3>1, ProfilesAssumption DEF KeysInv
      <3>3. bound'[v] = l /\ profile'[v] = profile[v]
        BY <1>1, <3>1, <3>2 DEF KeysInv, GoodsInv, GoodsTypes
      <3> QED
        BY <3>1, <3>3, OwnedNow, OwnedAfter
    <2>2. CASE \A v \in Units : bound[v] # l
      <3>1. \A v \in Units : bound'[v] # l
        BY <1>1, <1>4, <2>2 DEF KeysInv
      <3>2. disk'[l] = disk[l]
        BY <1>1, <1>4 DEF GoodsInv, GoodsTypes
      <3> QED
        BY <2>2, <3>1, <3>2, OwnedNow, OwnedAfter
    <2> QED
      BY <2>1, <2>2
  <1>5. Equipped(disk[k]) = Character!Equipped(disk[k])
    BY DEF Equipped, Character!Equipped
  <1> QED
    BY <1>1, <1>3, <1>4, <1>5 DEF Character!Enter, Character!Becomes

(* A player leaves: saved, or back to what was. *)
LEMMA ExitAccount ==
    ASSUME KeysInv, KeysInv', GoodsInv, NEW u \in Units, Exit(u)
    PROVE  Character!Advance \/ Character!FallBack
  <1>0. PICK k \in Keys : k = bound[u]
    BY DEF Exit, Leave, KeysInv
  <1>1. /\ u \in party /\ bound' = [bound EXCEPT ![u] = NoKey]
        /\ profile' = [profile EXCEPT ![u] = Newcomer] /\ acted' = acted
    BY DEF Exit, Leave, KeysInv
  <1>2. disk' = [disk EXCEPT ![k] = profile[u]] \/ disk' = disk
    BY <1>0 DEF Exit
  <1>3. \A v \in Units : bound'[v] # k
    BY <1>0, <1>1, ProfilesAssumption DEF KeysInv
  <1>4. Owned(k) = profile[u] /\ Owned(k)' = disk'[k]
    BY <1>0, <1>1, <1>3, OwnedNow, OwnedAfter DEF KeysInv
  <1>5. ASSUME NEW l \in Keys, l # k PROVE Owned(l)' = Owned(l) /\ disk'[l] = disk[l]
    <2>1. disk'[l] = disk[l]
      BY <1>1, <1>2, <1>5 DEF GoodsInv, GoodsTypes
    <2>2. CASE \E v \in Units : bound[v] = l
      <3>1. PICK v \in Units : bound[v] = l
        BY <2>2
      <3>2. v # u /\ bound'[v] = l /\ profile'[v] = profile[v]
        BY <1>0, <1>1, <1>5, <3>1 DEF KeysInv, GoodsInv, GoodsTypes
      <3> QED
        BY <2>1, <3>1, <3>2, OwnedNow, OwnedAfter
    <2>3. CASE \A v \in Units : bound[v] # l
      <3>1. \A v \in Units : bound'[v] # l
        BY <1>1, <2>3, ProfilesAssumption DEF KeysInv
      <3> QED
        BY <2>1, <2>3, <3>1, OwnedNow, OwnedAfter
    <2> QED
      BY <2>2, <2>3
  <1>6. CASE disk' = [disk EXCEPT ![k] = profile[u]]
    <2>1. \A l \in Keys : Owned(l)' = Owned(l)
      BY <1>1, <1>4, <1>5, <1>6 DEF GoodsInv, GoodsTypes
    <2>2. \A l \in Keys : Owned(l).gold \in Nat
      BY OwnedNow, OwnedType DEF ProfileType
    <2>3. \A l \in Keys : disk'[l] \in {disk[l], Owned(l)'}
      BY <1>4, <1>5
    <2> QED
      BY <1>1, <2>1, <2>2, <2>3 DEF Character!Advance
  <1>7. CASE disk' = disk
    <2>1. \A l \in Keys : Owned(l)' = IF l \in {k} THEN disk[l] ELSE Owned(l)
      BY <1>4, <1>5, <1>7
    <2>2. {k} \in SUBSET Keys
      BY <1>1
    <2> QED
      BY <1>1, <1>7, <2>1, <2>2 DEF Character!FallBack
  <1> QED
    BY <1>2, <1>6, <1>7

(* The host stops: everybody has what is on disk. *)
LEMMA CrashAccount == ASSUME KeysInv', Crash PROVE Character!FallBack
  <1>1. /\ \A k \in Keys, u \in Units : bound'[u] # k
        /\ disk' = disk /\ acted' = acted
    BY ProfilesAssumption DEF Crash
  <1>2. \A k \in Keys : Owned(k)' = disk[k]
    BY <1>1, OwnedAfter
  <1>3. [k \in Keys |-> Owned(k)]' = [k \in Keys |-> IF k \in Keys THEN disk[k] ELSE Owned(k)]
    BY <1>2
  <1> QED
    BY <1>1, <1>2 DEF Character!FallBack

(* A purchase, or a potion that is drunk, is a deal of module Account that changes
   the profile. *)
LEMMA DealIsTrade ==
    ASSUME NEW u \in Units, profile[u] \in ProfileType, NEW i \in Intents, Possible(u, i),
           i.act \in {"BUY", "USE"}
    PROVE  /\ Deal(u, i) # profile[u] /\ i.good \in Goods
           /\ \/ /\ Character!MayBuy(profile[u], i.good)
                 /\ Deal(u, i) = Character!Bought(profile[u], i.good)
              \/ /\ Character!MayUse(profile[u], i.good)
                 /\ Deal(u, i) = Character!Used(profile[u], i.good)
  <1> DEFINE a == profile[u]
             g == i.good
  <1>1. g \in Goods /\ a.has \in [Goods -> 0..MaxOwned] /\ a.has[g] \in Nat
    BY ProfilesAssumption DEF ProfileType
  <1>2. CASE i.act = "BUY"
    <2>1. PriceOf(a, g) = Character!PriceOf(g, a.has[g])
      BY DEF PriceOf, Character!PriceOf
    <2>2. Deal(u, i) = [a EXCEPT !.gold = @ - PriceOf(a, g), !.has[g] = @ + 1]
      BY <1>2 DEF Deal
    <2>3. Deal(u, i).has[g] = a.has[g] + 1
      BY <1>1, <2>2 DEF ProfileType
    <2>4. Character!MayBuy(a, g)
      BY <1>1, <1>2, <2>1 DEF Possible, Buys, Character!MayBuy
    <2>5. Deal(u, i) = Character!Bought(a, g)
      BY <2>1, <2>2 DEF Character!Bought
    <2> QED
      BY <1>1, <2>3, <2>4, <2>5
  <1>3. CASE i.act = "USE"
    <2>1. Deal(u, i) = [a EXCEPT !.has[g] = @ - 1]
      BY <1>3 DEF Deal
    <2>2. Deal(u, i).has[g] = a.has[g] - 1
      BY <1>1, <2>1 DEF ProfileType
    <2>3. Character!MayUse(a, g) /\ Deal(u, i) = Character!Used(a, g)
      BY <1>3, <2>1 DEF Possible, Character!MayUse, Character!Used
    <2> QED
      BY <1>1, <2>2, <2>3
  <1> QED
    BY <1>2, <1>3

(* A press that is granted is newer than the last one that changed the profile. *)
LEMMA NewerPress ==
    ASSUME KeysInv, PressInv, NEW u \in Units, Request(u)
    PROVE  acted[bound[u]] < heard[u].count /\ acted[bound[u]] \in Nat /\ heard[u].count \in Nat
  <1>1. u \in party /\ bound[u] \in Keys
    BY UnitOfKey DEF Request
  <1>2. PICK n \in Nat : acted[bound[u]] <= n /\ n <= heard[u].count /\ seen[u] = Serial(n)
    BY <1>1 DEF PressInv, InOrder
  <1>3. n # heard[u].count
    BY <1>2 DEF Request, Fresh
  <1>4. acted[bound[u]] \in Nat /\ heard[u].count \in Nat
    BY <1>1, BooksOfPresses
  <1> QED
    BY <1>2, <1>3, <1>4

LEMMA RequestAccount ==
    ASSUME KeysInv, KeysInv', PressInv, GoodsInv, NEW u \in Units, Request(u)
    PROVE  Character!Advance \/ \E k \in Keys : Character!Trade(k)
  <1>1. UNCHANGED <<party, bound>> /\ party \subseteq Units /\ u \in party
        /\ \A v \in Units : profile[v] \in ProfileType /\ profile[v].gold \in Nat
    BY UnitOfKey DEF Request, waveVars, KeysInv, GoodsInv, GoodsTypes, ProfileType
  <1>2. CASE Refused(u) \/ TakenBack(u)
    BY <1>1, <1>2, Advances DEF Refused, TakenBack
  <1>3. CASE Granted(u)
    <2> DEFINE i == heard[u].intent
    <2>1. PICK k \in Keys : k = bound[u]
      BY <1>3, GrantedDeal
    <2>2. PICK p \in ProfileType : p = Deal(u, i)
      BY <1>3, GrantedDeal
    <2>3. /\ profile' = [profile EXCEPT ![u] = p] /\ disk' = [disk EXCEPT ![k] = p]
          /\ acted' = IF p # profile[u] THEN [acted EXCEPT ![k] = heard[u].count] ELSE acted
      BY <1>3, <2>1, <2>2 DEF Granted
    <2>4. i \in Intents /\ i.act \in Acts /\ i.good \in Goods /\ Possible(u, i)
      BY <1>3, GrantedDeal, ProfilesAssumption
    <2>5. /\ profile'[u] = p /\ disk'[k] = p
          /\ \A v \in Units : v # u => profile'[v] = profile[v]
          /\ \A l \in Keys : l # k => disk'[l] = disk[l]
      BY <2>3 DEF GoodsInv, GoodsTypes
    <2>6. CASE i.act \notin {"BUY", "USE"}
      <3>1. p = profile[u]
        BY <2>2, <2>6 DEF Deal
      <3>2. \A v \in party : disk'[bound[v]] \in {disk[bound[v]], profile'[v]}
        <4> SUFFICES ASSUME NEW v \in party PROVE disk'[bound[v]] \in {disk[bound[v]], profile'[v]}
          OBVIOUS
        <4>1. CASE v = u
          BY <2>1, <2>5, <4>1
        <4>2. CASE v # u
          <5>1. bound[v] \in Keys /\ bound[v] # k
            BY <1>1, <2>1, <4>2 DEF KeysInv
          <5> QED
            BY <2>5, <5>1
        <4> QED
          BY <4>1, <4>2
      <3>3. \A l \in Keys : ~Playing(l) => disk'[l] = disk[l]
        BY <2>1, <2>5 DEF Playing
      <3>4. \A v \in party : profile'[v] = profile[v] /\ profile[v].gold \in Nat
        BY <1>1, <2>5, <3>1
      <3>5. acted' = acted
        BY <2>3, <3>1
      <3>6. \A v \in party : /\ profile'[v].has = profile[v].has
                             /\ profile'[v].gold >= profile[v].gold
        BY <3>4
      <3> QED
        BY <1>1, <3>2, <3>3, <3>5, <3>6, Advances
    <2>7. CASE i.act \in {"BUY", "USE"}
      <3>1. Owned(k) = profile[u] /\ Owned(k)' = p
        BY <1>1, <2>1, <2>5, OwnedNow, OwnedAfter
      <3>2. ASSUME NEW l \in Keys, l # k PROVE Owned(l)' = Owned(l)
        <4>1. CASE \E v \in Units : bound[v] = l
          <5>1. PICK v \in Units : bound[v] = l
            BY <4>1
          <5>2. v # u
            BY <2>1, <3>2, <5>1
          <5> QED
            BY <1>1, <2>5, <5>1, <5>2, OwnedNow, OwnedAfter
        <4>2. CASE \A v \in Units : bound[v] # l
          BY <1>1, <2>5, <3>2, <4>2, OwnedNow, OwnedAfter
        <4> QED
          BY <4>1, <4>2
      <3>3. /\ p # profile[u]
            /\ \E g \in Goods :
                  \/ Character!MayBuy(profile[u], g) /\ p = Character!Bought(profile[u], g)
                  \/ Character!MayUse(profile[u], g) /\ p = Character!Used(profile[u], g)
        BY <1>1, <2>2, <2>4, <2>7, DealIsTrade
      <3>4. acted' = [acted EXCEPT ![k] = heard[u].count] /\ acted[k] \in Nat
            /\ acted[k] < heard[u].count /\ heard[u].count \in Nat
        BY <2>1, <2>3, <3>3, NewerPress
      <3>5. acted'[k] = heard[u].count
        BY <3>4 DEF PressInv, PressTypes
      <3>6. Character!Becomes(k, p)
        BY <2>3, <3>1, <3>2 DEF Character!Becomes
      <3>7. Character!Trade(k)
        BY <3>1, <3>3, <3>4, <3>5, <3>6 DEF Character!Trade
      <3> QED
        BY <3>7
    <2> QED
      BY <2>6, <2>7
  <1> QED
    BY <1>2, <1>3 DEF Request

(* Gold is earned by a kill. *)
LEMMA KillAccount ==
    ASSUME KeysInv, KeysInv', GoodsInv, NEW b \in Units, EnemySlain(b) PROVE Character!Advance
  <1>1. UNCHANGED <<party, bound, disk, acted>> /\ party \subseteq Units
    BY DEF EnemySlain, Slain, KeysInv
  <1>2. \A v \in Units : /\ profile[v] \in ProfileType /\ profile[v].gold \in Nat
                         /\ Richer(profile[v]).has = profile[v].has
                         /\ Richer(profile[v]).gold >= profile[v].gold
    BY RicherType DEF GoodsInv, GoodsTypes, ProfileType
  <1>3. \/ profile' = profile
        \/ \E u \in party : profile' = [profile EXCEPT ![u] = Richer(@)]
    BY DEF EnemySlain
  <1>4. \A v \in party : /\ profile'[v].has = profile[v].has
                         /\ profile'[v].gold >= profile[v].gold
    BY <1>1, <1>2, <1>3 DEF GoodsInv, GoodsTypes
  <1> QED
    BY <1>1, <1>4, Advances

(* Gold is earned by a wave and saved, or what was earned before is saved. *)
LEMMA SaveAccount ==
    ASSUME KeysInv, KeysInv', GoodsInv, WaveEnds \/ Flush PROVE Character!Advance
  <1> DEFINE earned == [u \in Units |-> IF u \in party THEN Richer(profile[u]) ELSE profile[u]]
  <1>1. UNCHANGED <<party, bound, acted>> /\ party \subseteq Units
    BY DEF WaveEnds, Cleared, Defeated, Flush, waveVars, KeysInv
  <1>2. profile' \in {profile, earned}
    BY DEF WaveEnds, Flush
  <1>3. \A v \in Units : /\ profile[v] \in ProfileType /\ profile[v].gold \in Nat
                         /\ Richer(profile[v]) \in ProfileType
                         /\ Richer(profile[v]).has = profile[v].has
                         /\ Richer(profile[v]).gold >= profile[v].gold
    BY RicherType DEF GoodsInv, GoodsTypes, ProfileType
  <1>4. /\ profile' \in [Units -> ProfileType]
        /\ \A v \in party : /\ profile'[v].has = profile[v].has
                            /\ profile'[v].gold >= profile[v].gold
    BY <1>1, <1>2, <1>3 DEF GoodsInv, GoodsTypes
  <1>5. \E saving \in SUBSET Units : \E failing \in Failing(saving) :
            disk' = Written(profile', saving, failing)
    BY <1>1 DEF WaveEnds, Flush, GoodsInv, GoodsTypes
  <1>6. PICK saving \in SUBSET Units : \E failing \in Failing(saving) :
            disk' = Written(profile', saving, failing)
    BY <1>5
  <1>7. PICK failing \in Failing(saving) : disk' = Written(profile', saving, failing)
    BY <1>6
  <1>8. /\ \A u \in party : disk'[bound[u]] \in {disk[bound[u]], profile'[u]}
        /\ \A k \in Keys : ~Playing(k) => disk'[k] = disk[k]
    <2> DEFINE w == Written(profile', saving, failing)
    <2>1. /\ \A u \in party : w[bound[u]] =
                IF u \in saving \ failing THEN profile'[u] ELSE disk[bound[u]]
          /\ \A k \in Keys : ~Playing(k) => w[k] = disk[k]
      BY <1>4, WrittenOf DEF GoodsInv, GoodsTypes
    <2>2. disk' = w
      BY <1>7
    <2> QED
      BY <2>1, <2>2
  <1> QED
    BY <1>1, <1>4, <1>8, Advances

LEMMA AccountStep == IInv /\ IInv' /\ [Next]_vars => [Character!AccountNext]_Character!accountVars
  <1> SUFFICES ASSUME IInv, IInv', [Next]_vars PROVE Character!AccountNext
    OBVIOUS
  <1>0. KeysInv /\ KeysInv' /\ PressInv /\ GoodsInv
    BY DEF IInv
  <1>1. ASSUME UNCHANGED <<party, bound, profile, disk, acted>> PROVE Character!Advance
    <2>1. \A v \in party : profile[v].gold \in Nat
      BY <1>0 DEF KeysInv, GoodsInv, GoodsTypes, ProfileType
    <2> QED
      BY <1>0, <1>1, <2>1, Advances
  <1>2. ASSUME NEW u \in Units, NEW k \in Keys, EnterUnsaved(u, k) PROVE Character!Advance
    BY <1>1, <1>2 DEF EnterUnsaved, waveVars
  <1>3. ASSUME NEW k \in Keys, Press(k) \/ StartAnew(k) PROVE Character!Advance
    BY <1>1, <1>3 DEF Press, StartAnew, waveVars
  <1>4. ASSUME NEW u \in Units, Hear(u) PROVE Character!Advance
    BY <1>1, <1>4 DEF Hear, waveVars
  <1>5. ASSUME NEW u \in Units, Wounded(u) \/ Mended(u) \/ Fallen(u) PROVE Character!Advance
    BY <1>1, <1>5 DEF Wounded, Mended, Fallen, Fall, waveVars
  <1>6. CASE WaveGoesOn
    BY <1>1, <1>6 DEF WaveGoesOn, Recover, Spawn, Character!AccountNext
  <1>7. CASE UNCHANGED vars
    BY <1>1, <1>7 DEF vars, waveVars, Character!AccountNext
  <1> QED
    BY <1>0, <1>2, <1>3, <1>4, <1>5, <1>6, <1>7, EnterAccount, ExitAccount, CrashAccount,
       RequestAccount, KillAccount, SaveAccount DEF Next, Character!AccountNext

(* The survival mode keeps the promise of module Account: through repeated, skipped
   and stale presses, failing saves, leaving, rejoining and crashes no deal is half
   done, done twice by one press of a stay, or undone. *)
THEOREM CharactersAreKept == Spec => KeepsAccounts
  <1>1. Init => Character!AccountInit
    <2> SUFFICES ASSUME Init PROVE Character!AccountInit
      OBVIOUS
    <2>1. \A k \in Keys : Owned(k) = disk[k]
      BY KeysInit, OwnedNow, ProfilesAssumption DEF Init
    <2> QED
      BY <2>1 DEF Init, Character!AccountInit, Character!Newcomer, Newcomer
  <1> QED
    BY <1>1, IInvAlways, AccountStep, PTL DEF Spec, KeepsAccounts, Character!AccountSpec
=============================================================================
