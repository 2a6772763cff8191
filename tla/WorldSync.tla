------------------------------ MODULE WorldSync ------------------------------
(***************************************************************************)
(* The world's replicated state, from the host to one joiner: when         *)
(* hta_net_server_world_state sends it (src/src/net/session.c), which      *)
(* packets the joiner takes, how hta_net_wstate_apply and hta_went_apply   *)
(* lay them over a mover the joiner moves by itself in between             *)
(* (src/src/game/net_world_state.c, src/src/engine/world_entities.c).      *)
(*                                                                         *)
(* One mover and one relay's flag.  The network loses, repeats and         *)
(* reorders; a packet is under way for at most MaxDelay host ticks.  Ticks *)
(* are ages, counted back from the host's tick, and what is older than any *)
(* packet under way is Old.                                                *)
(***************************************************************************)
EXTENDS Naturals, FiniteSets

CONSTANTS
    Repeats,        \* HTA_NET_WSTATE_REPEATS
    MovingTicks,    \* HTA_NET_WSTATE_MOVING_TICKS
    KeyframeTicks,  \* HTA_NET_WSTATE_KEYFRAME_TICKS
    MaxDelay,       \* bound: host ticks a packet may be under way
    Way,            \* steps of the mover's way
    RelayOrders,    \* bound: what the relay may be told, of activate and deactivate
    Drift           \* steps the joiner's mover may be off without being put right

ASSUME SyncAssumption ==
    /\ Repeats \in Nat /\ MovingTicks \in Nat \ {0} /\ KeyframeTicks \in Nat \ {0}
    /\ MaxDelay \in Nat /\ Way \in Nat \ {0} /\ Drift \in Nat
    /\ RelayOrders \subseteq BOOLEAN

VARIABLES
    host,       \* the host's: the mover's phase and way, the relay's flag
    sent,       \* ws_sent, or Nothing
    repeat,     \* ws_repeat
    since,      \* ticks since ws_last_tick, KeyframeTicks for any more
    force,      \* ws_force
    peer,       \* the joiner's slot: "none", of this connection "own", of its last one "stale"
    net,        \* packets under way: [age, state], what they were sent for and are worth
    connected,  \* the joiner's
    last,       \* age of the joiner's last_world_state_tick
    copy,       \* the joiner's world
    seen,       \* seen_spatial: a state was applied since it connected
    heard       \* the joiner has taken a packet sent since the host's last change

server == <<sent, repeat, since, force>>
client == <<connected, last, copy, seen>>
syncVars == <<host, server, peer, net, client, heard>>

Phases == {"closed", "opening", "open", "closing"}
States == [phase : Phases, t : 0..Way, flag : BOOLEAN]
Nothing == [phase |-> "none"]
Old == MaxDelay + 1
Closed == [phase |-> "closed", t |-> 0, flag |-> FALSE]

SyncInit ==
    /\ host = Closed
    /\ sent = Nothing /\ repeat = 0 /\ since = 0 /\ force = FALSE
    /\ peer = "none" /\ net = {}
    /\ connected = FALSE /\ last = Old /\ copy = Closed /\ seen = FALSE
    /\ heard = FALSE

-----------------------------------------------------------------------------
(* The mover, on either side, in hta_went_step *)

(* mutant: a mover under way goes on past its end *)
Overshot(s) ==
    CASE s.phase = "opening" -> [s EXCEPT !.t = @ + 1, !.phase = IF s.t >= Way THEN "open" ELSE @]
      [] s.phase = "closing" /\ s.t <= 1 -> [s EXCEPT !.t = 0, !.phase = "closed"]
      [] s.phase = "closing" /\ s.t > 1 -> [s EXCEPT !.t = @ - 1]
      [] OTHER -> s

MovedOn(s) ==
    CASE s.phase = "opening" /\ s.t + 1 >= Way -> [phase |-> "open", t |-> Way, flag |-> s.flag]
      [] s.phase = "opening" /\ s.t + 1 < Way -> [s EXCEPT !.t = @ + 1]
      [] s.phase = "closing" /\ s.t <= 1 -> [phase |-> "closed", t |-> 0, flag |-> s.flag]
      [] s.phase = "closing" /\ s.t > 1 -> [s EXCEPT !.t = @ - 1]
      [] OTHER -> s

-----------------------------------------------------------------------------
(* The host *)

(* ws_compare: do the two differ in what they say, or only in how far movers got? *)
Discrete(a, b) == a.phase # b.phase \/ a.flag # b.flag

(* What was sent before a change is worth nothing to who has to hear of it. *)
Outdated == {[p EXCEPT !.current = FALSE] : p \in net}

Becomes(new) ==
    /\ host' = new
    /\ IF Discrete(new, host) THEN net' = Outdated /\ heard' = FALSE ELSE UNCHANGED <<net, heard>>
    /\ UNCHANGED <<server, peer, client>>

ToldOpen == [host EXCEPT !.phase = IF host.t = Way THEN "open" ELSE "opening"]
ToldClose == [host EXCEPT !.phase = IF host.t = 0 THEN "closed" ELSE "closing"]

Told ==
    \E new \in {ToldOpen, ToldClose} \cup {[host EXCEPT !.flag = f] : f \in RelayOrders} : Becomes(new)

(* hta_went_reset: a new game begins, and the joiners hear of it by the next state. *)
Restart == Becomes(Closed)

HostMoves ==
    /\ host.phase \in {"opening", "closing"}
    /\ Becomes(MovedOn(host))

News == sent = Nothing \/ Discrete(host, sent)

(* mutant: the change itself is one of its repeats *)
OneLess == IF News THEN Repeats ELSE repeat

(* What ws_repeat counts before the tick's packet is taken off it. *)
Upcoming == IF News THEN Repeats + 1 ELSE repeat

(* mutant: what is sent only when something happens is enough *)
OnChange(age) == News \/ force \/ Upcoming > 0 \/ (host.t # sent.t /\ age >= MovingTicks)

(* Whether the state goes out in the tick `age` after it last did. *)
Due(age) ==
    News \/ force \/ Upcoming > 0 \/ (host.t # sent.t /\ age >= MovingTicks) \/ age >= KeyframeTicks

Aged == {[p EXCEPT !.age = @ + 1] : p \in {q \in net : q.age < MaxDelay}}

(* A server tick: hta_net_server_world_state runs once in it. *)
HostTick ==
    /\ last' = IF last < Old THEN last + 1 ELSE Old
    /\ IF Due(since + 1)
       THEN /\ repeat' = IF Upcoming > 0 THEN Upcoming - 1 ELSE 0
            /\ force' = FALSE /\ sent' = host /\ since' = 0
            /\ net' = IF peer = "none" THEN Aged
                      ELSE Aged \cup {[age |-> 0, state |-> host, news |-> News, current |-> TRUE]}
       ELSE /\ repeat' = Upcoming /\ since' = IF since < KeyframeTicks THEN since + 1 ELSE since
            /\ net' = Aged
            /\ UNCHANGED <<force, sent>>
    /\ UNCHANGED <<host, peer, connected, copy, seen, heard>>

(* A HELLO finds a free slot. *)
Join ==
    /\ peer = "none" /\ ~connected
    /\ peer' = "own" /\ force' = TRUE
    /\ UNCHANGED <<host, sent, repeat, since, net, client, heard>>

(* The host has not heard of the peer for ten seconds. *)
Drop ==
    /\ peer # "none"
    /\ peer' = "none"
    /\ net' = {[p EXCEPT !.news = FALSE] : p \in net}
    /\ UNCHANGED <<host, server, client, heard>>

-----------------------------------------------------------------------------
(* The joiner *)

(* Its HELLO is answered: a WELCOME may be late, and asked for again. *)
Welcomed ==
    /\ peer = "own" /\ ~connected
    /\ connected' = TRUE
    /\ UNCHANGED <<host, server, peer, net, last, copy, seen, heard>>

(* The joiner has not heard of the host for ten seconds: it forgets the connection
   and takes another nonce, which its old slot does not answer. *)
Lost ==
    /\ connected
    /\ connected' = FALSE /\ last' = Old /\ seen' = FALSE /\ heard' = FALSE
    /\ peer' = IF peer = "own" THEN "stale" ELSE peer
    /\ UNCHANGED <<host, server, net, copy>>

(* mutant: the last packet to arrive is the one to believe *)
AnyAge(p) == TRUE

Newer(p) == p.age < last

Between(a, b) == IF a > b THEN a - b ELSE b - a

(* hta_went_apply: a mover moves on by itself unless it is too far off or at rest. *)
Laid(s) ==
    [s EXCEPT !.t = IF seen /\ Between(copy.t, s.t) <= Drift /\ s.phase \in {"opening", "closing"}
                    THEN copy.t ELSE s.t]

(* A frame takes a packet in and applies it; it may come again, or never.  One that
   is overtaken within the frame is as good as lost. *)
Receive(p) ==
    /\ connected /\ Newer(p)
    /\ last' = p.age /\ copy' = Laid(p.state) /\ seen' = TRUE
    /\ heard' = (heard \/ p.current)
    /\ UNCHANGED <<host, server, peer, net, connected>>

JoinerMoves ==
    /\ copy.phase \in {"opening", "closing"}
    /\ copy' = MovedOn(copy)
    /\ UNCHANGED <<host, server, peer, net, connected, last, seen, heard>>

-----------------------------------------------------------------------------
Received == \E p \in net : Receive(p)

SyncNext ==
    \/ Told \/ Restart \/ HostMoves \/ HostTick \/ Join \/ Drop
    \/ Welcomed \/ Lost \/ Received \/ JoinerMoves

SyncSpec == SyncInit /\ [][SyncNext]_syncVars

(* Both programs run on, and the network does not lose every packet. *)
SyncFairSpec ==
    /\ SyncSpec
    /\ WF_syncVars(HostTick) /\ WF_syncVars(HostMoves) /\ WF_syncVars(JoinerMoves)
    /\ SF_syncVars(Received)

-----------------------------------------------------------------------------
(* Properties *)

SyncTypeOK ==
    /\ host \in States /\ copy \in States
    /\ sent \in States \cup {Nothing}
    /\ repeat \in 0..Repeats /\ since \in 0..KeyframeTicks
    /\ {force, connected, seen, heard} \subseteq BOOLEAN
    /\ peer \in {"none", "own", "stale"} /\ last \in 0..Old
    /\ net \subseteq [age : 0..MaxDelay, state : States, news : BOOLEAN, current : BOOLEAN]

(* "A joiner takes the state": once a packet sent since the host's last change has
   come, no older one that comes after it and no move of the joiner's own undoes
   what it said. *)
AgreesOnceHeard ==
    connected /\ heard =>
        /\ copy.flag = host.flag
        /\ \/ copy.phase = host.phase
           \/ host.phase = "opening" /\ copy.phase = "open"
           \/ host.phase = "closing" /\ copy.phase = "closed"
        /\ host.phase \in {"open", "closed"} => copy.t = host.t

(* "On a change, then REPEATS more times": as many packets in a row as that may be
   lost, whatever else the host sends or does in between. *)
ChangesRepeated ==
    \A p \in net : p.news =>
        \A age \in 0..p.age : p.age - age <= Repeats => \E q \in net : q.age = age

(* When the host's world has come to rest, a joiner that stays sees what the host
   sees, for good, however many packets of the last change were lost. *)
Converges ==
    <>[][FALSE]_host /\ <>[](connected /\ peer = "own") => <>[](copy = host)
=============================================================================
