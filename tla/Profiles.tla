------------------------------ MODULE Profiles ------------------------------
(***************************************************************************)
(* The characters of the survival mode (src/src/app/survival.c and         *)
(* progression_store.c): loaded when a player comes, changed by the shop   *)
(* requests of its controls, by kills and waves, and saved -- at once for  *)
(* a request, else every 10 s, when a wave ends and when the player leaves.*)
(* Every save may fail; the host may stop at any time.                     *)
(*                                                                         *)
(* A key is one player's identity.  Its program numbers its presses and    *)
(* sends the last one with every control; the host visits the last control *)
(* it took (host_net.c).  NetSession keeps the controls of a connection in *)
(* order, so the host only skips presses.  A profile is reduced to gold    *)
(* and goods: skills, experience, prestige and equipment are earned, kept  *)
(* and saved in the same way, by the same calls, so EQUIP and PRESTIGE     *)
(* only save.                                                              *)
(***************************************************************************)
EXTENDS Waves

CONSTANTS
    Keys, NoKey,
    Goods, Upgrades, Potions, Cost, StartGold, \* the catalogue, and 100
    Intents,        \* what a press may ask for: an act and a good
    NoIntent,       \* the act of a press that was never made
    MaxGold,        \* UINT64_MAX, where gold saturates
    MaxOwned,       \* UINT32_MAX, of one good
    MaxSerial,      \* 65535: a press is numbered 1 to MaxSerial and 1 again
    Reward,         \* gold of an enemy, and of a wave
    SavesFail,      \* can a save fail?
    MaxPress        \* bound of the model: presses of one run of a program

Acts == {"BUY", "EQUIP", "USE", "PRESTIGE"}

ASSUME ProfilesAssumption ==
    /\ NoKey \notin Keys /\ NoIntent \notin Intents
    /\ Upgrades \subseteq Goods /\ Potions \subseteq Goods \ Upgrades
    /\ Cost \in [Goods -> Nat]
    /\ Intents \subseteq [act : Acts, good : Goods]
    /\ {StartGold, MaxGold, Reward, MaxPress} \subseteq Nat /\ StartGold <= MaxGold
    /\ {MaxOwned, MaxSerial} \subseteq Nat \ {0} /\ SavesFail \in BOOLEAN

VARIABLES
    press,      \* of each key's program: how many presses it made and the last one
    disk,       \* the saved profiles; a missing file is a newcomer's
    bound,      \* the key of the player of each unit
    profile, dirty,
    seen,       \* request_seen
    heard,      \* the press in the control that the unit's peer sent last
    hurt,       \* units whose health is not full
    acted,      \* history: the last press that changed the profile in this stay
    before      \* history: the last one of the same program in an earlier stay

vars == <<waveVars, press, disk, bound, profile, dirty, seen, heard, hurt, acted, before>>

NoPress == [count |-> 0, intent |-> NoIntent]
Presses == [count : 0..MaxPress, intent : Intents \cup {NoIntent}]
ProfileType == [gold : 0..MaxGold, has : [Goods -> 0..MaxOwned]]
Newcomer == [gold |-> StartGold, has |-> [g \in Goods |-> 0]]

Init ==
    /\ WavesInit
    /\ press = [k \in Keys |-> NoPress]
    /\ disk = [k \in Keys |-> Newcomer]
    /\ bound = [u \in Units |-> NoKey]
    /\ profile = [u \in Units |-> Newcomer] /\ dirty = {}
    /\ seen = [u \in Units |-> 0] /\ heard = [u \in Units |-> NoPress]
    /\ hurt = {}
    /\ acted = [k \in Keys |-> 0] /\ before = [k \in Keys |-> 0]

Playing(k) == \E u \in Units : bound[u] = k
UnitOf(k) == CHOOSE u \in Units : bound[u] = k

-----------------------------------------------------------------------------
(* save and hta_survival_flush: of the units in saving, those in failing
   cannot be written. *)

Failing(saving) == IF SavesFail THEN SUBSET saving ELSE {{}}

Written(profiles, saving, failing) ==
    [k \in Keys |-> IF \E u \in saving \ failing : bound[u] = k
                    THEN profiles[UnitOf(k)] ELSE disk[k]]

Flush ==
    /\ \E failing \in Failing(dirty) :
          /\ disk' = Written(profile, dirty, failing)
          /\ dirty' = dirty \cap (failing \cup {u \in Units : bound[u] = NoKey})
    /\ UNCHANGED <<waveVars, press, bound, profile, seen, heard, hurt, acted, before>>

-----------------------------------------------------------------------------
(* hta_survival_join and hta_survival_leave.  Nobody reads the profile of a
   unit that is not bound: it is a newcomer's here. *)

Equipped(p) ==
    [p EXCEPT !.has = [g \in Goods |->
        IF Cost[g] = 0 /\ g \notin Upgrades /\ @[g] = 0 THEN 1 ELSE @[g]]]

(* mutant: the key may play twice *)
AnyKey(k) == k \in Keys

KeyFree(k) == k \in Keys /\ ~Playing(k)

(* mutant: the numbers of the unit's last player still count *)
SeenAtJoinKept(u) == seen

SeenAtJoin(u) == [seen EXCEPT ![u] = 0]

Enter(u, k) ==
    /\ KeyFree(k) /\ Join(u)
    /\ bound' = [bound EXCEPT ![u] = k]
    /\ profile' = [profile EXCEPT ![u] = Equipped(disk[k])]
    /\ disk' = [disk EXCEPT ![k] = Equipped(disk[k])]
    /\ dirty' = dirty \ {u}
    /\ seen' = SeenAtJoin(u) /\ heard' = [heard EXCEPT ![u] = NoPress]
    /\ hurt' = hurt \ {u}
    /\ acted' = [acted EXCEPT ![k] = 0]
    /\ UNCHANGED <<press, before>>

(* A profile that cannot be saved is not played with: host_net.c takes the
   unit away again. *)
EnterUnsaved(u, k) ==
    /\ SavesFail
    /\ KeyFree(k) /\ FirstFree(u) /\ Cardinality(party) < MaxParty
    /\ dirty' = dirty \cup {u} /\ seen' = SeenAtJoin(u)
    /\ UNCHANGED <<waveVars, press, disk, bound, profile, heard, hurt, acted, before>>

StayEnds(ks) ==
    before' = [k \in Keys |-> IF k \in ks /\ acted[k] > before[k] THEN acted[k] ELSE before[k]]

Exit(u) ==
    /\ Leave(u)
    /\ bound' = [bound EXCEPT ![u] = NoKey]
    /\ profile' = [profile EXCEPT ![u] = Newcomer]
    /\ \/ disk' = [disk EXCEPT ![bound[u]] = profile[u]] /\ dirty' = dirty \ {u}
       \/ SavesFail /\ UNCHANGED <<disk, dirty>>
    /\ heard' = [heard EXCEPT ![u] = NoPress] /\ hurt' = hurt \ {u}
    /\ StayEnds({bound[u]})
    /\ UNCHANGED <<press, seen, acted>>

(* The host's process ends and another begins. *)
Crash ==
    /\ phase' = "REST" /\ queued' = 0 /\ party' = {} /\ horde' = {} /\ alive' = {}
    /\ bound' = [u \in Units |-> NoKey]
    /\ profile' = [u \in Units |-> Newcomer] /\ dirty' = {}
    /\ seen' = [u \in Units |-> 0] /\ heard' = [u \in Units |-> NoPress] /\ hurt' = {}
    /\ StayEnds({k \in Keys : Playing(k)})
    /\ UNCHANGED <<press, disk, acted>>

-----------------------------------------------------------------------------
(* The player's program *)

Press(k) ==
    /\ press[k].count < MaxPress /\ Playing(k)
    /\ \E i \in Intents : press' = [press EXCEPT ![k] = [count |-> @.count + 1, intent |-> i]]
    /\ UNCHANGED <<waveVars, disk, bound, profile, dirty, seen, heard, hurt, acted, before>>

(* It connects again with its numbers, or is started anew. *)
StartAnew(k) ==
    /\ ~Playing(k) /\ press[k] # NoPress
    /\ press' = [press EXCEPT ![k] = NoPress]
    /\ before' = [before EXCEPT ![k] = 0]
    /\ UNCHANGED <<waveVars, disk, bound, profile, dirty, seen, heard, hurt, acted>>

Hear(u) ==
    /\ bound[u] # NoKey
    /\ heard' = [heard EXCEPT ![u] = press[bound[u]]]
    /\ UNCHANGED <<waveVars, press, disk, bound, profile, dirty, seen, hurt, acted, before>>

-----------------------------------------------------------------------------
(* hta_survival_request *)

Serial(count) == IF count = 0 THEN 0 ELSE 1 + ((count - 1) % MaxSerial)

(* From one number to another, in 16 bits *)
Ahead(serial, last) == (serial + MaxSerial + 1 - last) % (MaxSerial + 1)

(* mutant: the number seen last is not told from a new one *)
FreshOrRepeated(serial, last) == serial # 0 /\ Ahead(serial, last) < (MaxSerial + 1) \div 2

Fresh(serial, last) ==
    serial # 0 /\ serial # last /\ Ahead(serial, last) < (MaxSerial + 1) \div 2

PriceOf(p, g) ==
    IF g \in Upgrades THEN (p.has[g] + 1) * (p.has[g] + 1) * Cost[g] ELSE Cost[g]

(* can_shop and the checks of a purchase.  Whether the player stands at the
   counter, or has the level for PRESTIGE, is not known: Away. *)
Buys(u, g) ==
    /\ phase = "REST"
    /\ g \notin Upgrades \cup Potions => profile[u].has[g] = 0
    /\ PriceOf(profile[u], g) <= profile[u].gold
    /\ profile[u].has[g] < MaxOwned

Possible(u, i) ==
    CASE i.act = "BUY" -> Buys(u, i.good)
      [] i.act = "PRESTIGE" -> phase = "REST"
      [] i.act = "EQUIP" -> i.good \notin Upgrades \cup Potions /\ profile[u].has[i.good] > 0
      [] i.act = "USE" -> i.good \in Potions /\ profile[u].has[i.good] > 0 /\ u \in hurt

Deal(u, i) ==
    CASE i.act = "BUY" ->
            [profile[u] EXCEPT !.gold = @ - PriceOf(profile[u], i.good), !.has[i.good] = @ + 1]
      [] i.act = "USE" -> [profile[u] EXCEPT !.has[i.good] = @ - 1]
      [] OTHER -> profile[u]

Heals(u, i) == IF i.act = "USE" THEN hurt \ {u} ELSE hurt

(* mutant: the healing is not taken back *)
HealthAfterFailedSaveKept(u, i) == Heals(u, i)

HealthAfterFailedSave(u, i) == hurt

Away(i) == i.act \in {"BUY", "PRESTIGE"}

Refused(u) ==
    LET i == heard[u].intent IN
    /\ ~Possible(u, i) \/ u \notin alive \/ Away(i)
    /\ UNCHANGED <<disk, profile, dirty, hurt, acted>>

Granted(u) ==
    LET i == heard[u].intent  k == bound[u]  p == Deal(u, i) IN
    /\ Possible(u, i) /\ u \in alive
    /\ profile' = [profile EXCEPT ![u] = p] /\ disk' = [disk EXCEPT ![k] = p]
    /\ dirty' = dirty \ {u}
    /\ hurt' = Heals(u, i)
    /\ acted' = IF p # profile[u] THEN [acted EXCEPT ![k] = heard[u].count] ELSE acted

(* It could not be saved: nothing has happened, but for the number. *)
TakenBack(u) ==
    LET i == heard[u].intent IN
    /\ SavesFail /\ Possible(u, i) /\ u \in alive
    /\ hurt' = HealthAfterFailedSave(u, i)
    /\ dirty' = dirty \cup {u}
    /\ UNCHANGED <<disk, profile, acted>>

Request(u) ==
    /\ bound[u] # NoKey
    /\ Fresh(Serial(heard[u].count), seen[u])
    /\ seen' = [seen EXCEPT ![u] = Serial(heard[u].count)]
    /\ Refused(u) \/ Granted(u) \/ TakenBack(u)
    /\ UNCHANGED <<waveVars, press, bound, heard, before>>

-----------------------------------------------------------------------------
(* The fight and the waves *)

Richer(p) == [p EXCEPT !.gold = IF @ + Reward < MaxGold THEN @ + Reward ELSE MaxGold]

(* mutant: gold that no save is told of *)
DirtyAfterKillKept(u) == dirty

DirtyAfterKill(u) == dirty \cup {u}

(* hta_survival_event: the gold goes to the player who slew it, if one did. *)
EnemySlain(b) ==
    /\ Slain(b)
    /\ \/ \E u \in party : profile' = [profile EXCEPT ![u] = Richer(@)] /\ dirty' = DirtyAfterKill(u)
       \/ UNCHANGED <<profile, dirty>>
    /\ UNCHANGED <<press, disk, bound, seen, heard, hurt, acted, before>>

(* Only potions tell whose health is full. *)
Wounded(u) ==
    /\ Potions # {}
    /\ u \in party \cap alive /\ hurt' = hurt \cup {u}
    /\ UNCHANGED <<waveVars, press, disk, bound, profile, dirty, seen, heard, acted, before>>

(* hta_survival_cast, of a healing spell *)
Mended(u) ==
    /\ u \in hurt \cap alive /\ hurt' = hurt \ {u}
    /\ dirty' = dirty \cup {u}
    /\ UNCHANGED <<waveVars, press, disk, bound, profile, seen, heard, acted, before>>

Fallen(u) ==
    /\ Fall(u)
    /\ UNCHANGED <<press, disk, bound, profile, dirty, seen, heard, hurt, acted, before>>

(* rest: rewards for a wave that was cleared, then a flush *)
WaveEnds ==
    /\ \/ Cleared /\ profile' = [u \in Units |-> IF u \in party THEN Richer(profile[u]) ELSE profile[u]]
                  /\ hurt' = {}
       \/ Defeated /\ UNCHANGED <<profile, hurt>>
    /\ LET saving == IF phase' = "REST" THEN dirty \cup party ELSE dirty IN
       \E failing \in Failing(saving) :
          /\ disk' = Written(profile', saving, failing)
          /\ dirty' = saving \cap (failing \cup {u \in Units : bound[u] = NoKey})
    /\ UNCHANGED <<press, bound, seen, heard, acted, before>>

WaveGoesOn ==
    /\ \/ Recover /\ hurt' = {}
       \/ (\E q \in 1..MaxHorde : Spawn(q)) /\ UNCHANGED hurt
    /\ UNCHANGED <<press, disk, bound, profile, dirty, seen, heard, acted, before>>

Next ==
    \/ \E u \in Units, k \in Keys : Enter(u, k) \/ EnterUnsaved(u, k)
    \/ \E k \in Keys : Press(k) \/ StartAnew(k)
    \/ \E u \in Units : Exit(u) \/ Hear(u) \/ Request(u)
    \/ \E u \in Units : EnemySlain(u) \/ Wounded(u) \/ Mended(u) \/ Fallen(u)
    \/ WaveEnds \/ WaveGoesOn \/ Flush \/ Crash

Spec == Init /\ [][Next]_vars

-----------------------------------------------------------------------------
(* Properties *)

(* The players are those with a key, and no key has two units. *)
ProfilesTypeOK ==
    /\ WavesTypeOK
    /\ press \in [Keys -> Presses] /\ heard \in [Units -> Presses]
    /\ bound \in [Units -> Keys \cup {NoKey}] /\ party = {u \in Units : bound[u] # NoKey}
    /\ \A u, v \in party : bound[u] = bound[v] => u = v
    /\ disk \in [Keys -> ProfileType] /\ profile \in [Units -> ProfileType]
    /\ dirty \subseteq Units /\ hurt \subseteq party
    /\ seen \in [Units -> 0..MaxSerial]
    /\ acted \in [Keys -> 0..MaxPress] /\ before \in [Keys -> 0..MaxPress]

Owned(k) == IF Playing(k) THEN profile[UnitOf(k)] ELSE disk[k]

Character == INSTANCE Account WITH
    Players <- Keys, account <- [k \in Keys |-> Owned(k)], safe <- disk

(* The survival mode keeps the promise of module Account: through repeated and
   skipped controls, failing saves, leaving, rejoining and crashes no purchase is
   half done, done twice by one press of a stay, or undone. *)
KeepsAccounts == Character!AccountSpec

(* What no save is due for is saved: the flush every 10 s goes by dirty alone,
   so gold earned unmarked would be lost in a crash however late. *)
CleanIsSaved == \A u \in party \ dirty : disk[bound[u]] = profile[u]

(* A request that heals has taken its potion, on disk; one whose save fails
   gives back the health too, or the potion could be drunk again. *)
PotionPaid ==
    [][\A u \in party \cap hurt :
          seen'[u] # seen[u] /\ bound'[u] = bound[u] /\ u \notin hurt' =>
              \E g \in Potions : disk'[bound[u]].has[g] + 1 = profile[u].has[g]]_vars

(* "Repeated/stale request counters cannot buy twice"
   (docs/gatebound/DESIGN.md:90-91): no press of a program that acted in one stay
   acts again in a later one. *)
RepeatsBuyOnce == \A k \in Keys : acted[k] # 0 => acted[k] > before[k]

(* The program repeats its last press in every control and the host's visits
   come every tick, which also moves the waves on; in a wave somebody falls in
   the end. *)
Heard(k) == \E u \in Units : bound[u] = k /\ Hear(u)
Answered(k) == \E u \in Units : bound[u] = k /\ Request(u)
SomebodyFalls == phase = "WAVE" /\ \E u \in Units : Fallen(u) \/ EnemySlain(u)

Fairness ==
    /\ \A k \in Keys : SF_vars(Heard(k)) /\ WF_vars(Answered(k))
    /\ WF_vars(WaveEnds \/ WaveGoesOn) /\ WF_vars(SomebodyFalls)
FairSpec == Spec /\ Fairness

Unanswered(k) ==
    Playing(k) /\ press[k].count # 0 /\ seen[UnitOf(k)] # Serial(press[k].count)

(* The last press of a player who stays is answered, whatever the unit's last
   player, or an earlier run of its own program, had pressed before. *)
PressAnswered == \A k \in Keys : Unanswered(k) ~> ~Unanswered(k)

(* No player stays dead: not who fell, not who joined in a wave, not who finds
   a wave that all its players have left. *)
DeadReturn ==
    \A k \in Keys : Playing(k) /\ UnitOf(k) \notin alive ~> ~Playing(k) \/ UnitOf(k) \in alive
=============================================================================
