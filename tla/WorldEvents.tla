---------------------------- MODULE WorldEvents -----------------------------
(***************************************************************************)
(* World entities on the host, src/src/engine/world_entities.c: buttons,   *)
(* triggers, relays, movers and teleports, the links and bindings between  *)
(* them, and the bounded queue their events go through.                    *)
(*                                                                         *)
(* One tick of hta_session_tick is: the players' presses; the restart of a *)
(* match that is over; the triggers, sensed for every actor; the script    *)
(* phase; hta_went_step, which dispatches at most Budget events, first in  *)
(* first out, and then moves the movers.  An event dispatched may emit     *)
(* events of its target: `emit` reads the bindings' conditions and queues  *)
(* what follows one push at a time, charged to the cascade of the root     *)
(* event it all comes from.                                                *)
(*                                                                         *)
(* Left out: what a step hands to the game and the mixer besides teleports *)
(* (damage, sounds) and the calls it hands to the scripts.  A script may   *)
(* ask for one input a tick.                                               *)
(***************************************************************************)
EXTENDS Naturals, Sequences, FiniteSets, SequencesExt

CONSTANTS
    Kinds,          \* Kinds[i]: what entity i is, for the runtime indices i
    Links,          \* Links[i]: its links in authored order, [event, input, target]
    Bindings,       \* Bindings[i]: its bindings in canonical order, [event, needs, actions]:
                    \* needs is a set of <<relay, active>> and <<mover, phase>>,
                    \* actions a sequence of [input, target]
    Actors, NoActor,
    Requests,       \* [input, target] a script may ask for
    QueueSize,      \* HTA_WENT_QUEUE
    Budget,         \* HTA_WENT_BUDGET
    CascadeCount,   \* HTA_WENT_CASCADES, "more slots than the queue can hold events"
    CascadeBudget,  \* HTA_WENT_CASCADE_BUDGET
    MaxChain,       \* HTA_WDEF_MAX_CHAIN
    Generations,    \* what a 16-bit generation counts to before it starts at 1 again
    Travel          \* steps a mover takes from one end to the other

Entities == DOMAIN Kinds
Of(kind) == {i \in Entities : Kinds[i] = kind}
Relays == Of("relay")
Movers == Of("mover")
Buttons == Of("interactable")
Triggers == Of("trigger")
Pads == Of("teleport")

Phases == {"closed", "opening", "open", "closing"}
Events == {"used", "entered", "fired", "deactivated", "opened", "closed"}

Accepts(kind) ==
    CASE kind = "relay"        -> {"activate", "deactivate"}
      [] kind = "interactable" -> {"use"}
      [] kind = "mover"        -> {"open", "close", "toggle"}
      [] kind = "teleport"     -> {"teleport"}
      [] OTHER                 -> {}

(* What the loader lets through: an input its target accepts. *)
Orders == {o \in [input : {"activate", "deactivate", "use", "open", "close", "toggle", "teleport"},
                  target : Entities] : o.input \in Accepts(Kinds[o.target])}

ASSUME WorldAssumption ==
    /\ Entities \subseteq Nat /\ IsFiniteSet(Entities)
    /\ Actors \subseteq Nat /\ IsFiniteSet(Actors) /\ NoActor \notin Actors
    /\ Requests \subseteq Orders
    /\ Links \in [Entities -> Seq([event : Events, input : {o.input : o \in Orders}, target : Entities])]
    /\ \A i \in Entities : \A k \in DOMAIN Links[i] :
          [input |-> Links[i][k].input, target |-> Links[i][k].target] \in Orders
    /\ Bindings \in [Entities -> Seq([event : Events,
                                      needs : SUBSET ((Relays \X BOOLEAN) \cup (Movers \X Phases)),
                                      actions : Seq(Orders)])]

ASSUME LimitsAssumption ==
    /\ QueueSize \in Nat \ {0} /\ Budget \in Nat \ {0} /\ CascadeBudget \in Nat /\ MaxChain \in Nat
    /\ CascadeCount \in Nat /\ CascadeCount > QueueSize
    /\ Generations \in Nat \ {0} /\ Travel \in Nat \ {0}

VARIABLES
    generation, \* of every entity: they move on together
    active,     \* a relay's last word
    phase,      \* a mover's HTA_MOVER_*
    travelled,  \* a mover's t, in steps of its way
    inside,     \* <<actor, trigger>>: who stands where
    cooling,    \* interactables between two uses
    queue,      \* the events waiting, oldest first
    cascade,    \* per slot: events queued of one root, binding actions charged to it
    next,       \* casc_next
    current,    \* casc_cur: the cascade of the event being dispatched
    root,       \* the cascade that the present emit has opened
    todo,       \* what the present emit has still to queue
    part,       \* the part of the tick
    budget,     \* events this step may still dispatch
    rest,       \* what the part's loop has still to come to
    teleports   \* where this step sends an actor

world == <<active, phase, travelled, inside, cooling>>
queued == <<queue, cascade, next, root>>
tickVars == <<part, budget, rest>>
vars == <<generation, world, queued, current, todo, tickVars, teleports>>

Slots == 0..CascadeCount - 1
None == CascadeCount
Parts == {"press", "sense", "script", "dispatch", "move"}

Live(n) == [live |-> n, ops |-> 0]

Init ==
    /\ generation = 1
    /\ active = [i \in Relays |-> FALSE]
    /\ phase = [i \in Movers |-> "closed"]
    /\ travelled = [i \in Movers |-> 0]
    /\ inside = {} /\ cooling = {}
    /\ queue = <<>> /\ todo = <<>>
    /\ cascade = [c \in Slots |-> Live(0)]
    /\ next = 0 /\ current = None /\ root = None
    /\ part = "press" /\ budget = 0 /\ rest = {}
    /\ teleports = [a \in Actors |-> NoActor]

(* No event is being emitted or dispatched: the tick may go on. *)
Quiet == todo = <<>> /\ current = None

-----------------------------------------------------------------------------
(* emit *)

Push(order, actor, depth, bound) ==
    [input |-> order.input, target |-> order.target, actor |-> actor, depth |-> depth, bound |-> bound]

Holds(needs) ==
    \A n \in needs : IF n[1] \in Relays THEN active[n[1]] = n[2] ELSE phase[n[1]] = n[2]

FromLinks(i, event, actor, depth) ==
    FlattenSeq([k \in DOMAIN Links[i] |->
                   IF Links[i][k].event = event THEN <<Push(Links[i][k], actor, depth, FALSE)>> ELSE <<>>])

FromBindings(i, event, actor, depth) ==
    LET told(b) == IF b.event = event /\ Holds(b.needs) THEN b.actions ELSE <<>>
        actions == FlattenSeq([k \in DOMAIN Bindings[i] |-> told(Bindings[i][k])])
    IN  [k \in DOMAIN actions |-> Push(actions[k], actor, depth, TRUE)]

Emit(i, event, actor, depth) ==
    todo' = FromLinks(i, event, actor, depth) \o FromBindings(i, event, actor, depth)

(* cascade_of: the first slot from casc_next on without a live event, None behind
   them all. *)
Distance(c) ==
    IF c = None THEN CascadeCount ELSE IF c >= next THEN c - next ELSE CascadeCount + c - next

(* mutant: a slot is free when the round robin comes to it *)
NextSlot(c) == c = next

FreeSlot(c) ==
    /\ c # None => cascade[c].live = 0
    /\ \A d \in Slots : Distance(d) < Distance(c) => cascade[d].live # 0

(* The cascade a push is charged to: of the event in dispatch, of this emit, or new. *)
Charged(c, opened) ==
    IF current # None THEN ~opened /\ c = current
    ELSE IF root # None THEN ~opened /\ c = root
    ELSE FreeSlot(c) /\ opened = (c # None)

Opened(c, opened) == IF opened THEN [cascade EXCEPT ![c] = Live(0)] ELSE cascade

(* A binding's action, whether it fits or not, is charged to its root. *)
Spent(c, p, table) ==
    IF p.bound /\ c # None THEN [table EXCEPT ![c].ops = @ + 1] ELSE table

(* A push that fits: one more event of its cascade. *)
Tracked(c, p, table) ==
    IF c # None THEN [Spent(c, p, table) EXCEPT ![c].live = @ + 1] ELSE table

(* mutant: only a full queue stops a binding *)
NeverOver(c, p, table) == FALSE

OverBudget(c, p, table) == p.bound /\ c # None /\ table[c].ops >= CascadeBudget

EventOf(p, c) ==
    [input |-> p.input, target |-> p.target, actor |-> p.actor, depth |-> p.depth,
     bound |-> p.bound, cascade |-> c, generation |-> generation]

(* mutant: the ring's last place is taken twice *)
RoomForOneMore == Len(queue) <= QueueSize

HasRoom == Len(queue) < QueueSize


Queue(p, c, table) ==
    IF HasRoom
    THEN queue' = Append(queue, EventOf(p, c)) /\ cascade' = Tracked(c, p, table)
    ELSE queue' = queue /\ cascade' = Spent(c, p, table)

PushNext ==
    /\ todo # <<>>
    /\ \E c \in Slots \cup {None}, opened \in BOOLEAN :
          /\ Charged(c, opened)
          /\ LET table == Opened(c, opened)
             IN  IF OverBudget(c, Head(todo), table) THEN queue' = queue /\ cascade' = table
                 ELSE Queue(Head(todo), c, table)
          /\ next' = IF opened THEN (c + 1) % CascadeCount ELSE next
          /\ root' = IF current # None \/ Len(todo) = 1 THEN None ELSE c
    /\ todo' = Tail(todo)
    /\ UNCHANGED <<generation, world, current, tickVars, teleports>>

-----------------------------------------------------------------------------
(* The tick up to hta_went_step *)

(* hta_went_use, past the reach test *)
UseOf(i, actor, depth) ==
    /\ i \notin cooling
    /\ cooling' = cooling \cup {i}
    /\ Emit(i, "used", actor, depth)
    /\ UNCHANGED <<active, phase, travelled, inside>>

Press(i, actor) ==
    /\ part = "press" /\ Quiet
    /\ UseOf(i, actor, 1)
    /\ UNCHANGED <<generation, queued, current, tickVars, teleports>>

EndPress ==
    /\ part = "press" /\ Quiet
    /\ part' = "sense" /\ rest' = Actors \X Triggers
    /\ UNCHANGED <<generation, world, queued, current, todo, budget, teleports>>

(* mutant: a new round starts with the old one's events *)
KeptQueue == UNCHANGED <<queue, cascade>>

EmptiedQueue == queue' = <<>> /\ cascade' = [c \in Slots |-> Live(0)]

(* hta_went_reset: the match is over and starts anew. *)
Restart ==
    /\ part = "press" /\ Quiet
    /\ generation' = IF generation < Generations THEN generation + 1 ELSE 1
    /\ active' = [i \in Relays |-> FALSE]
    /\ phase' = [i \in Movers |-> "closed"]
    /\ travelled' = [i \in Movers |-> 0]
    /\ inside' = {} /\ cooling' = {}
    /\ EmptiedQueue
    /\ teleports' = [a \in Actors |-> NoActor]
    /\ part' = "sense" /\ rest' = Actors \X Triggers
    /\ UNCHANGED <<next, root, current, todo, budget>>

(* The loops go by actor, then by entity. *)
First(x) == x \in rest /\ \A y \in rest : x[1] < y[1] \/ (x[1] = y[1] /\ x[2] <= y[2])

(* hta_went_sense of one actor at one trigger *)
Sense(x) ==
    /\ part = "sense" /\ Quiet /\ First(x)
    /\ rest' = rest \ {x}
    /\ \/ /\ x \notin inside
          /\ inside' = inside \cup {x}
          /\ Emit(x[2], "entered", x[1], 1)
       \/ x \in inside /\ UNCHANGED <<inside, todo>>
       \/ inside' = inside \ {x} /\ UNCHANGED todo
    /\ UNCHANGED <<generation, active, phase, travelled, cooling, queued, current, part, budget, teleports>>

EndSense ==
    /\ part = "sense" /\ Quiet /\ rest = {}
    /\ part' = "script"
    /\ UNCHANGED <<generation, world, queued, current, todo, budget, rest, teleports>>

(* hta_went_send *)
Script ==
    /\ part = "script" /\ Quiet
    /\ todo' = <<>> \/ \E order \in Requests, a \in Actors \cup {NoActor} :
          todo' = <<Push(order, a, 0, FALSE)>>
    /\ part' = "dispatch" /\ budget' = Budget
    /\ teleports' = [a \in Actors |-> NoActor]
    /\ UNCHANGED <<generation, world, queued, current, rest>>

-----------------------------------------------------------------------------
(* hta_went_step *)

Stale(e) == e.generation # generation
TooDeep(e) == e.depth > MaxChain

Dropped(e) ==
    /\ Stale(e) \/ TooDeep(e)
    /\ UNCHANGED <<world, todo, teleports>>

Deeper(e) == e.depth + 1

RelayTold(e) ==
    /\ e.target \in Relays
    /\ active' = [active EXCEPT ![e.target] = e.input = "activate"]
    /\ Emit(e.target, IF e.input = "activate" THEN "fired" ELSE "deactivated", e.actor, Deeper(e))
    /\ UNCHANGED <<phase, travelled, inside, cooling, teleports>>

Opens(e) == e.input = "open" \/ (e.input = "toggle" /\ phase[e.target] \in {"closed", "closing"})

(* mutant: a mover told to open starts to open, wherever it is *)
OnItsWay(e) == IF Opens(e) THEN "opening" ELSE "closing"

(* mover_input: a mover already at the end of its way arrives at once. *)
ToldPhase(e) ==
    IF Opens(e) THEN IF travelled[e.target] = Travel THEN "open" ELSE "opening"
    ELSE IF travelled[e.target] = 0 THEN "closed" ELSE "closing"

Arrived(i, where, depth) ==
    IF where = "open" THEN Emit(i, "opened", NoActor, depth)
    ELSE IF where = "closed" THEN Emit(i, "closed", NoActor, depth)
    ELSE UNCHANGED todo

MoverTold(e) ==
    /\ e.target \in Movers
    /\ phase' = [phase EXCEPT ![e.target] = ToldPhase(e)]
    /\ IF ToldPhase(e) # phase[e.target] THEN Arrived(e.target, ToldPhase(e), Deeper(e))
       ELSE UNCHANGED todo
    /\ UNCHANGED <<active, travelled, inside, cooling, teleports>>

ButtonTold(e) ==
    /\ e.target \in Buttons
    /\ IF e.target \in cooling THEN UNCHANGED <<world, todo>>
       ELSE UseOf(e.target, e.actor, Deeper(e))
    /\ UNCHANGED teleports

(* One teleport of an actor a step, the first. *)
PadTold(e) ==
    /\ e.target \in Pads
    /\ teleports' = IF e.actor # NoActor /\ teleports[e.actor] = NoActor
                    THEN [teleports EXCEPT ![e.actor] = e.target] ELSE teleports
    /\ UNCHANGED <<world, todo>>

Dispatch ==
    /\ part = "dispatch" /\ Quiet
    /\ queue # <<>> /\ budget > 0
    /\ queue' = Tail(queue)
    /\ budget' = budget - 1
    /\ LET e == Head(queue) IN
          /\ current' = e.cascade
          /\ \/ Dropped(e)
             \/ /\ ~Stale(e) /\ ~TooDeep(e)
                /\ RelayTold(e) \/ MoverTold(e) \/ ButtonTold(e) \/ PadTold(e)
    /\ UNCHANGED <<generation, cascade, next, root, part, rest>>

(* The event has been dispatched and what it emits is queued. *)
Dispatched ==
    /\ todo = <<>> /\ current # None
    /\ cascade' = [cascade EXCEPT ![current].live = IF @ > 0 THEN @ - 1 ELSE @]
    /\ current' = None
    /\ UNCHANGED <<generation, world, queue, next, root, todo, tickVars, teleports>>

(* The queue is empty or the budget spent: what is left waits for the next
   step.  Some interactables cool down, then the movers move in turn. *)
EndDispatch ==
    /\ part = "dispatch" /\ Quiet
    /\ queue = <<>> \/ budget = 0
    /\ part' = "move" /\ budget' = 0 /\ rest' = {0} \X Movers
    /\ \E cool \in SUBSET cooling : cooling' = cool
    /\ UNCHANGED <<generation, active, phase, travelled, inside, queued, current, todo, teleports>>

Moved(i, at, there) ==
    /\ travelled' = [travelled EXCEPT ![i] = at]
    /\ phase' = [phase EXCEPT ![i] = there]
    /\ IF there # phase[i] THEN Arrived(i, there, 1) ELSE UNCHANGED todo

Move(i) ==
    /\ part = "move" /\ Quiet /\ First(<<0, i>>)
    /\ rest' = rest \ {<<0, i>>}
    /\ \/ phase[i] = "opening"
          /\ Moved(i, travelled[i] + 1, IF travelled[i] + 1 = Travel THEN "open" ELSE "opening")
       \/ phase[i] = "closing"
          /\ Moved(i, travelled[i] - 1, IF travelled[i] - 1 = 0 THEN "closed" ELSE "closing")
       \/ phase[i] \in {"open", "closed"} /\ UNCHANGED <<travelled, phase, todo>>
    /\ UNCHANGED <<generation, active, inside, cooling, queued, current, part, budget, teleports>>

EndMove ==
    /\ part = "move" /\ Quiet /\ rest = {}
    /\ part' = "press"
    /\ UNCHANGED <<generation, world, queued, current, todo, budget, rest, teleports>>

Tick ==
    \/ PushNext \/ EndPress \/ EndSense \/ Script
    \/ Dispatch \/ Dispatched \/ EndDispatch \/ EndMove
    \/ \E x \in Actors \X Triggers : Sense(x)
    \/ \E i \in Movers : Move(i)

Next == Tick \/ Restart \/ \E i \in Buttons, a \in Actors : Press(i, a)

Spec == Init /\ [][Next]_vars

(* The host ticks on. *)
FairSpec == Spec /\ WF_vars(Tick)

-----------------------------------------------------------------------------
(* Properties *)

Pushes == {p \in [input : {o.input : o \in Orders}, target : Entities, actor : Actors \cup {NoActor},
                   depth : Nat, bound : BOOLEAN] :
              [input |-> p.input, target |-> p.target] \in Orders}

(* An event that waits is a push with its cascade and its entity's generation. *)
Queued(e) ==
    /\ [input |-> e.input, target |-> e.target, actor |-> e.actor, depth |-> e.depth, bound |-> e.bound] \in Pushes
    /\ e.cascade \in Slots \cup {None} /\ e.generation \in 1..Generations

WorldTypeOK ==
    /\ generation \in 1..Generations
    /\ active \in [Relays -> BOOLEAN]
    /\ phase \in [Movers -> Phases]
    /\ travelled \in [Movers -> 0..Travel]
    /\ inside \subseteq Actors \X Triggers /\ cooling \subseteq Buttons
    /\ cascade \in [Slots -> [live : Nat, ops : Nat]]
    /\ Len(queue) <= QueueSize /\ \A k \in DOMAIN queue : Queued(queue[k])
    /\ \A k \in DOMAIN todo : todo[k] \in Pushes
    /\ next \in Slots /\ current \in Slots \cup {None} /\ root \in Slots \cup {None}
    /\ part \in Parts /\ budget \in 0..Budget
    /\ teleports \in [Actors -> Pads \cup {NoActor}]

Waiting(c) == {k \in DOMAIN queue : queue[k].cascade = c}

(* "more slots than the queue can hold events": a cascade's count is that of its
   events, the one in dispatch included, so no slot is opened anew while an event
   of its root is about. *)
CascadesCounted ==
    \A c \in Slots :
        cascade[c].live = Cardinality(Waiting(c)) + (IF c = current THEN 1 ELSE 0)

(* "Never full: more slots than the queue can hold events": whenever a new root
   may come, there is a slot for it. *)
NeverFull == current = None => \E c \in Slots : cascade[c].live = 0

(* A storm of bindings takes no more of the queue than one cascade's budget: what
   the bindings of one root have waiting was all charged to it, and within it. *)
StormBounded ==
    \A c \in Slots :
        /\ Cardinality({k \in Waiting(c) : queue[k].bound}) <= cascade[c].ops
        /\ cascade[c].ops <= CascadeBudget

(* "an event queued before a restart can never act on the next round's
   entities": none outlives its round, not even past the wrap of a generation. *)
RoundsDoNotMix == \A k \in DOMAIN queue : queue[k].generation = generation

(* A mover is at rest where it says it is, told or not, and is on its way
   nowhere but in between: else it would never arrive, or arrive twice. *)
RestsAtItsEnds ==
    \A i \in Movers :
        /\ phase[i] = "open" => travelled[i] = Travel
        /\ phase[i] = "closed" => travelled[i] = 0
        /\ phase[i] = "opening" => travelled[i] < Travel
        /\ phase[i] = "closing" => travelled[i] > 0

=============================================================================
