---------------------------- MODULE MCWorldEvents ---------------------------
(* A small world: a button fires a relay, whose bindings toggle a door and fire the
   relay again; deactivated, the relay presses the button; the door closes itself;
   a trigger teleports; a script may ask.  Its links have no cycle, which the
   loader would refuse: the loops are the bindings'. *)
EXTENDS WorldEvents

button == 0
relay == 1
door == 2
pad == 3
zone == 4
p1 == 7

Order(input, target) == [input |-> input, target |-> target]
On(event, input, target) == [event |-> event, input |-> input, target |-> target]
Bind(event, needs, actions) == [event |-> event, needs |-> needs, actions |-> actions]

MCKinds == [i \in {button, relay, door, zone, pad} |->
    CASE i = button -> "interactable" [] i = relay -> "relay" [] i = door -> "mover"
      [] i = zone -> "trigger" [] i = pad -> "teleport"]

MCLinks == [i \in DOMAIN MCKinds |->
    IF i = button THEN <<On("used", "activate", relay)>>
    ELSE IF i = zone THEN <<On("entered", "teleport", pad)>>
    ELSE <<>>]

MCBindings == [i \in DOMAIN MCKinds |->
    IF i = relay THEN <<Bind("fired", {<<relay, TRUE>>}, <<Order("toggle", door), Order("activate", relay)>>),
                        Bind("deactivated", {}, <<Order("use", button)>>)>>
    ELSE IF i = door THEN <<Bind("opened", {}, <<Order("close", door)>>)>>
    ELSE <<>>]

MCActors == {p1}
MCRequests == {Order("deactivate", relay), Order("open", door)}
=============================================================================
