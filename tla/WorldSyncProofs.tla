-------------------------- MODULE WorldSyncProofs ---------------------------
(***************************************************************************)
(* Proofs about the world's state on its way to a joiner, for any delay,   *)
(* way, drift and repeats: what a packet sent since the host's last change *)
(* has said is not undone, neither by older packets nor by the joiner's    *)
(* own moving of its mover; and a change is sent as often as it is owed.   *)
(***************************************************************************)
EXTENDS WorldSync, TLAPS

(* A mover at rest is at an end. *)
AtRest(s) == (s.phase = "open" => s.t = Way) /\ (s.phase = "closed" => s.t = 0)

Packets == [age : Nat, state : States, news : BOOLEAN, current : BOOLEAN]

(* What is known of a packet under way: it shows the world as it was, at rest where
   it was at rest, and as it still is if the packet is current. *)
NetOK ==
    /\ net \subseteq Packets
    /\ \A p \in net : AtRest(p.state)
    /\ \A p \in net : p.current => ~Discrete(p.state, host)

(* What is sent after a current packet is current. *)
InOrder == \A p, q \in net : p.current /\ q.age < p.age => q.current

(* What the joiner may still take, once it has heard of the host's last change. *)
OnlyCurrent == heard => \A p \in net : p.age < last => p.current

(* Its own copy then: the host's, or where the joiner's mover has got to by itself. *)
Agrees ==
    /\ copy.flag = host.flag
    /\ \/ copy.phase = host.phase
       \/ host.phase = "opening" /\ copy.phase = "open"
       \/ host.phase = "closing" /\ copy.phase = "closed"
    /\ host.phase \in {"open", "closed"} => copy.t = host.t

IInv ==
    /\ host \in States /\ AtRest(host) /\ copy \in States
    /\ last \in Nat /\ heard \in BOOLEAN
    /\ NetOK /\ InOrder /\ OnlyCurrent
    /\ heard => Agrees

(* A step of a mover keeps it a mover at rest only at an end, touches no flag, and
   leaves one at rest alone. *)
LEMMA MovedType ==
    ASSUME NEW s \in States, AtRest(s)
    PROVE  /\ MovedOn(s) \in States /\ AtRest(MovedOn(s)) /\ MovedOn(s).flag = s.flag
           /\ \/ MovedOn(s).phase = s.phase
              \/ s.phase = "opening" /\ MovedOn(s).phase = "open"
              \/ s.phase = "closing" /\ MovedOn(s).phase = "closed"
           /\ s.phase \in {"open", "closed"} => MovedOn(s) = s
  <1> USE SyncAssumption
  <1>0. /\ s.t \in 0..Way /\ s.phase \in Phases /\ s.flag \in BOOLEAN
        /\ s = [phase |-> s.phase, t |-> s.t, flag |-> s.flag]
    BY DEF States
  <1>1. CASE s.phase = "opening" /\ s.t + 1 >= Way
    <2>1. MovedOn(s) = [phase |-> "open", t |-> Way, flag |-> s.flag]
      BY <1>0, <1>1 DEF MovedOn
    <2> QED
      BY <1>0, <1>1, <2>1 DEF States, Phases, AtRest
  <1>2. CASE s.phase = "opening" /\ s.t + 1 < Way
    <2>1. MovedOn(s) = [phase |-> s.phase, t |-> s.t + 1, flag |-> s.flag]
      BY <1>0, <1>2 DEF MovedOn
    <2> QED
      BY <1>0, <1>2, <2>1 DEF States, Phases, AtRest
  <1>3. CASE s.phase = "closing" /\ s.t <= 1
    <2>1. MovedOn(s) = [phase |-> "closed", t |-> 0, flag |-> s.flag]
      BY <1>0, <1>3 DEF MovedOn
    <2> QED
      BY <1>0, <1>3, <2>1 DEF States, Phases, AtRest
  <1>4. CASE s.phase = "closing" /\ s.t > 1
    <2>1. MovedOn(s) = [phase |-> s.phase, t |-> s.t - 1, flag |-> s.flag]
      BY <1>0, <1>4 DEF MovedOn
    <2> QED
      BY <1>0, <1>4, <2>1 DEF States, Phases, AtRest
  <1>5. CASE s.phase \in {"open", "closed"}
    <2>1. MovedOn(s) = s
      BY <1>5 DEF MovedOn
    <2> QED
      BY <1>5, <2>1
  <1>6. (s.phase = "opening" => s.t + 1 >= Way \/ s.t + 1 < Way)
        /\ (s.phase = "closing" => s.t <= 1 \/ s.t > 1)
    BY <1>0
  <1> QED
    BY <1>0, <1>1, <1>2, <1>3, <1>4, <1>5, <1>6 DEF Phases

(* What the host's world becomes keeps the invariant: a change makes what is under
   way worth nothing. *)
LEMMA BecomesInv ==
    ASSUME IInv, NEW new \in States, AtRest(new), Becomes(new)
    PROVE  IInv'
  <1>1. host' = new /\ copy' = copy /\ last' = last
    BY DEF Becomes, client
  <1>2. CASE Discrete(new, host)
    <2>1. net' = Outdated /\ heard' = FALSE
      BY <1>2 DEF Becomes
    <2>2. \A p \in Outdated : p \in Packets /\ AtRest(p.state) /\ p.current = FALSE
      BY DEF Outdated, IInv, NetOK, Packets
    <2> QED
      BY <1>1, <2>1, <2>2, Zenon DEF IInv, NetOK, InOrder, OnlyCurrent, AtRest
  <1>3. CASE ~Discrete(new, host)
    <2>1. net' = net /\ heard' = heard
      BY <1>3 DEF Becomes
    <2>2. new.phase = host.phase /\ new.flag = host.flag
      BY <1>3 DEF Discrete
    <2>3. new.phase \in {"open", "closed"} => new.t = host.t
      BY <2>2 DEF IInv, AtRest
    <2>4. NetOK' /\ InOrder' /\ OnlyCurrent'
      BY <1>1, <2>1, <2>2 DEF IInv, NetOK, InOrder, OnlyCurrent, Discrete
    <2>5. Agrees' \/ ~heard'
      BY <1>1, <2>1, <2>2, <2>3 DEF IInv, Agrees
    <2> QED
      BY <1>1, <2>1, <2>4, <2>5 DEF IInv, AtRest
  <1> QED
    BY <1>2, <1>3

LEMMA ToldInv == IInv /\ Told => IInv'
  <1> SUFFICES ASSUME IInv, Told PROVE IInv'
    OBVIOUS
  <1> USE SyncAssumption
  <1>0. /\ host.t \in 0..Way /\ host.phase \in Phases /\ host.flag \in BOOLEAN
        /\ host \in States /\ AtRest(host)
    BY DEF IInv, States
  <1>1. ToldOpen \in States /\ AtRest(ToldOpen)
    BY <1>0 DEF ToldOpen, States, Phases, AtRest
  <1>2. ToldClose \in States /\ AtRest(ToldClose)
    BY <1>0 DEF ToldClose, States, Phases, AtRest
  <1>3. \A f \in RelayOrders : [host EXCEPT !.flag = f] \in States /\ AtRest([host EXCEPT !.flag = f])
    BY <1>0 DEF States, AtRest, SyncAssumption
  <1> QED
    BY <1>1, <1>2, <1>3, BecomesInv DEF Told

LEMMA ClosedTyped == Closed \in States /\ AtRest(Closed)
  BY SyncAssumption DEF Closed, States, Phases, AtRest

LEMMA RestartInv == IInv /\ Restart => IInv'
  BY ClosedTyped, BecomesInv DEF Restart

LEMMA HostMovesInv == IInv /\ HostMoves => IInv'
  <1> SUFFICES ASSUME IInv, HostMoves PROVE IInv'
    OBVIOUS
  <1>1. MovedOn(host) \in States /\ AtRest(MovedOn(host))
    BY MovedType DEF IInv
  <1> QED
    BY <1>1, BecomesInv DEF HostMoves

(* A tick: what is under way is a tick older, and what is sent is current. *)
LEMMA TickInv == IInv /\ HostTick => IInv'
  <1> SUFFICES ASSUME IInv, HostTick PROVE IInv'
    OBVIOUS
  <1> USE SyncAssumption
  <1> DEFINE new == [age |-> 0, state |-> host, news |-> News, current |-> TRUE]
  <1>1. host' = host /\ copy' = copy /\ heard' = heard
    BY DEF HostTick
  <1>2. last \in Nat /\ (last' = last + 1 \/ (last >= Old /\ last' = Old))
    <2>1. last' = IF last < Old THEN last + 1 ELSE Old
      BY DEF HostTick
    <2> QED
      BY <2>1 DEF IInv, Old
  <1>3. net' = Aged \/ net' = Aged \cup {new}
    BY Zenon DEF HostTick
  <1>4. ASSUME NEW p \in Aged
        PROVE \E q \in net : /\ q.age < MaxDelay /\ p.age = q.age + 1 /\ p.state = q.state
                             /\ p.current = q.current /\ p \in Packets
    BY DEF Aged, IInv, NetOK, Packets
  <1>5. new \in Packets /\ new.age = 0 /\ new.current = TRUE /\ new.state = host
    BY DEF IInv, Packets, News, Discrete
  <1>6. NetOK'
    <2>1. ASSUME NEW p \in net' PROVE p \in Packets /\ AtRest(p.state) /\ (p.current => ~Discrete(p.state, host))
      <3>1. CASE p \in Aged
        BY <1>4, <3>1 DEF IInv, NetOK
      <3>2. CASE p = new
        BY <1>5, <3>2 DEF IInv, Discrete
      <3> QED
        BY <1>3, <3>1, <3>2
    <2> QED
      BY <1>1, <2>1 DEF NetOK, AtRest, Discrete
  <1>7. InOrder'
    <2>1. ASSUME NEW p \in net', NEW q \in net', p.current, q.age < p.age PROVE q.current
      <3>1. CASE q = new
        BY <1>5, <3>1
      <3>2. CASE q \in Aged /\ p = new
        <4>1. q.age \in Nat
          BY <1>4, <3>2 DEF Packets
        <4> QED
          BY <1>5, <2>1, <3>2, <4>1
      <3>3. CASE q \in Aged /\ p \in Aged
        <4>1. PICK q0 \in net : q.age = q0.age + 1 /\ q.current = q0.current
          BY <1>4, <3>3
        <4>2. PICK p0 \in net : p.age = p0.age + 1 /\ p.current = p0.current
          BY <1>4, <3>3
        <4>3. q0.age \in Nat /\ p0.age \in Nat
          BY DEF IInv, NetOK, Packets
        <4> QED
          BY <2>1, <4>1, <4>2, <4>3 DEF IInv, InOrder
      <3> QED
        BY <1>3, <3>1, <3>2, <3>3
    <2> QED
      BY <2>1 DEF InOrder
  <1>8. OnlyCurrent'
    <2>1. ASSUME heard, NEW p \in net', p.age < last' PROVE p.current
      <3>1. CASE p = new
        BY <1>5, <3>1
      <3>2. CASE p \in Aged
        <4>1. PICK q \in net : q.age < MaxDelay /\ p.age = q.age + 1 /\ p.current = q.current
          BY <1>4, <3>2
        <4>2. q.age \in Nat
          BY DEF IInv, NetOK, Packets
        <4>3. q.age < last
          BY <1>2, <2>1, <4>1, <4>2 DEF Old
        <4> QED
          BY <2>1, <4>1, <4>3 DEF IInv, OnlyCurrent
      <3> QED
        BY <1>3, <3>1, <3>2
    <2> QED
      BY <1>1, <2>1 DEF OnlyCurrent
  <1>9. last' \in Nat
    BY <1>2 DEF Old
  <1> QED
    BY <1>1, <1>6, <1>7, <1>8, <1>9 DEF IInv, AtRest, Agrees

(* A packet taken: it is current, or what was known before it is not undone. *)
LEMMA ReceiveInv == IInv /\ Received => IInv'
  <1> SUFFICES ASSUME IInv, NEW p \in net, Receive(p) PROVE IInv'
    BY DEF Received
  <1> USE SyncAssumption
  <1>1. /\ host' = host /\ net' = net /\ last' = p.age /\ copy' = Laid(p.state)
        /\ heard' = (heard \/ p.current) /\ p.age < last
    BY DEF Receive, Newer
  <1>2. /\ p \in Packets /\ AtRest(p.state) /\ (p.current => ~Discrete(p.state, host))
        /\ p.state \in States /\ p.age \in Nat /\ p.current \in BOOLEAN
    BY DEF IInv, NetOK, Packets
  <1>3. /\ Laid(p.state) \in States
        /\ Laid(p.state).phase = p.state.phase /\ Laid(p.state).flag = p.state.flag
        /\ p.state.phase \in {"open", "closed"} => Laid(p.state).t = p.state.t
    <2>1. p.state.t \in 0..Way /\ copy.t \in 0..Way
      BY <1>2 DEF IInv, States
    <2> QED
      BY <1>2, <2>1 DEF Laid, States
  <1>4. heard' => p.current
    BY <1>1 DEF IInv, OnlyCurrent
  <1>5. heard' => Agrees'
    BY <1>1, <1>2, <1>3, <1>4 DEF IInv, Agrees, AtRest, Discrete
  <1>6. OnlyCurrent'
    BY <1>1, <1>4 DEF IInv, OnlyCurrent, InOrder
  <1>7. NetOK' /\ InOrder'
    BY <1>1 DEF IInv, NetOK, InOrder, Discrete
  <1> QED
    BY <1>1, <1>2, <1>3, <1>5, <1>6, <1>7 DEF IInv, AtRest

LEMMA JoinerMovesInv == IInv /\ JoinerMoves => IInv'
  <1> SUFFICES ASSUME IInv, JoinerMoves PROVE IInv'
    OBVIOUS
  <1>0. copy \in States /\ copy.phase \in {"opening", "closing"} /\ AtRest(copy) /\ host \in States
    BY DEF IInv, JoinerMoves, AtRest
  <1>1. /\ host' = host /\ copy' = MovedOn(copy) /\ last' = last /\ heard' = heard /\ net' = net
    BY DEF JoinerMoves
  <1>2. /\ MovedOn(copy) \in States /\ MovedOn(copy).flag = copy.flag
        /\ \/ MovedOn(copy).phase = copy.phase
           \/ copy.phase = "opening" /\ MovedOn(copy).phase = "open"
           \/ copy.phase = "closing" /\ MovedOn(copy).phase = "closed"
    BY <1>0, MovedType
  <1>3. NetOK' /\ InOrder' /\ OnlyCurrent'
    BY <1>1 DEF IInv, NetOK, InOrder, OnlyCurrent, Discrete
  <1>4. ASSUME heard PROVE Agrees'
    <2>1. Agrees /\ copy.phase = host.phase
      BY <1>0, <1>4 DEF IInv, Agrees
    <2> QED
      BY <1>0, <1>1, <1>2, <2>1 DEF Agrees
  <1> QED
    BY <1>1, <1>2, <1>3, <1>4 DEF IInv, AtRest

(* The peer is dropped: only what a packet was sent for is forgotten. *)
LEMMA DropInv == IInv /\ Drop => IInv'
  <1> SUFFICES ASSUME IInv, Drop PROVE IInv'
    OBVIOUS
  <1>1. host' = host /\ copy' = copy /\ last' = last /\ heard' = heard
    BY DEF Drop, client
  <1>2. net' = {[p EXCEPT !.news = FALSE] : p \in net}
    BY DEF Drop
  <1>3. \A p \in net' : \E q \in net : /\ p.age = q.age /\ p.state = q.state
                                       /\ p.current = q.current /\ p \in Packets
    BY <1>2 DEF IInv, NetOK, Packets
  <1>4. NetOK'
    BY <1>1, <1>3 DEF IInv, NetOK, AtRest, Discrete
  <1>5. InOrder'
    BY <1>3 DEF IInv, InOrder
  <1>6. OnlyCurrent'
    BY <1>1, <1>3 DEF IInv, OnlyCurrent
  <1> QED
    BY <1>1, <1>4, <1>5, <1>6 DEF IInv, AtRest, Agrees

LEMMA RestInv == IInv /\ (Join \/ Welcomed \/ Lost \/ UNCHANGED syncVars) => IInv'
  <1> SUFFICES ASSUME IInv, Join \/ Welcomed \/ Lost \/ UNCHANGED syncVars PROVE IInv'
    OBVIOUS
  <1>1. host' = host /\ copy' = copy /\ net' = net
    BY DEF Join, Welcomed, Lost, syncVars, client, server
  <1>2. (heard' = FALSE /\ last' = Old) \/ (heard' = heard /\ last' = last)
    BY DEF Join, Welcomed, Lost, syncVars, client, server
  <1>3. NetOK' /\ InOrder'
    BY <1>1 DEF IInv, NetOK, InOrder, Discrete
  <1>4. OnlyCurrent'
    BY <1>1, <1>2 DEF IInv, OnlyCurrent
  <1>5. heard' => Agrees'
    BY <1>1, <1>2 DEF IInv, Agrees
  <1>6. last' \in Nat
    <2>1. Old \in Nat
      BY SyncAssumption DEF SyncAssumption, Old
    <2> QED
      BY <1>2, <2>1 DEF IInv
  <1>7. heard' \in BOOLEAN
    BY <1>2 DEF IInv
  <1> QED
    BY <1>1, <1>3, <1>4, <1>5, <1>6, <1>7 DEF IInv, AtRest

LEMMA SyncInitInv == SyncInit => IInv
  <1> SUFFICES ASSUME SyncInit PROVE IInv
    OBVIOUS
  <1>1. Closed \in States /\ AtRest(Closed)
    BY ClosedTyped
  <1>2. Old \in Nat
    BY SyncAssumption DEF Old
  <1> QED
    BY <1>1, <1>2 DEF SyncInit, IInv, NetOK, InOrder, OnlyCurrent

(* Once a packet sent since the host's last change has been taken, the joiner's
   world says what the host's does, whatever comes late or moves by itself
   (client_packet's newer-tick test, hta_went_apply's resting movers). *)
THEOREM NoLatePacketUndoes == SyncSpec => []AgreesOnceHeard
  <1>1. SyncInit => IInv
    BY SyncInitInv
  <1>2. IInv /\ [SyncNext]_syncVars => IInv'
    BY ToldInv, RestartInv, HostMovesInv, TickInv, DropInv, ReceiveInv, JoinerMovesInv, RestInv
       DEF SyncNext
  <1>3. IInv => AgreesOnceHeard
    BY DEF IInv, Agrees, AgreesOnceHeard
  <1> QED
    BY <1>1, <1>2, <1>3, PTL DEF SyncSpec

-----------------------------------------------------------------------------
(* How often a change is sent: a packet of news has as many repeats behind it, or
   still to come, as the host owes it, and a peer to go to. *)
Owed ==
    \A p \in net : p.news =>
        /\ peer # "none"
        /\ p.age + repeat >= Repeats
        /\ \A age \in 0..p.age : p.age - age <= Repeats => \E q \in net : q.age = age

SyncInv == IInv /\ SyncTypeOK /\ Owed

AllPackets == [age : 0..MaxDelay, state : States, news : BOOLEAN, current : BOOLEAN]

(* A change of the host's world makes what is under way worth nothing, but takes no
   packet and no repeat back. *)
LEMMA BecomesTyped ==
    ASSUME SyncInv, NEW new \in States, Becomes(new)
    PROVE  SyncTypeOK' /\ Owed'
  <1>1. /\ host' = new /\ UNCHANGED <<server, peer, client>>
        /\ (net' = Outdated /\ heard' = FALSE) \/ (net' = net /\ heard' = heard)
    BY DEF Becomes
  <1>2. net \subseteq AllPackets
    BY DEF SyncInv, SyncTypeOK, AllPackets
  <1>3. \A p \in Outdated : \E q \in net : p.age = q.age /\ p.news = q.news /\ p \in AllPackets
    <2> SUFFICES ASSUME NEW q \in net
                 PROVE  LET p == [q EXCEPT !.current = FALSE]
                        IN  p.age = q.age /\ p.news = q.news /\ p \in AllPackets
      BY DEF Outdated
    <2> QED
      BY <1>2 DEF AllPackets
  <1>4. \A q \in net : \E p \in Outdated : p.age = q.age
    <2> SUFFICES ASSUME NEW q \in net PROVE \E p \in Outdated : p.age = q.age
      OBVIOUS
    <2>1. [q EXCEPT !.current = FALSE].age = q.age
      BY <1>2 DEF AllPackets
    <2> QED
      BY <2>1 DEF Outdated
  <1>5. net' \subseteq AllPackets
    BY <1>1, <1>2, <1>3
  <1>6. SyncTypeOK'
    BY <1>1, <1>5 DEF SyncInv, SyncTypeOK, AllPackets, server, client
  <1>7. Owed'
    <2>1. peer' = peer /\ repeat' = repeat
      BY <1>1 DEF server
    <2>2. CASE net' = Outdated
      BY <1>3, <1>4, <2>1, <2>2 DEF SyncInv, Owed
    <2>3. CASE net' = net
      BY <2>1, <2>3 DEF SyncInv, Owed
    <2> QED
      BY <1>1, <2>2, <2>3
  <1> QED
    BY <1>6, <1>7

(* What a tick sends: a packet whenever there is news or a repeat is owed. *)
SentNow == [age |-> 0, state |-> host, news |-> News, current |-> TRUE]

LEMMA TickOwes ==
    ASSUME SyncInv, HostTick
    PROVE  /\ repeat' \in 0..Repeats /\ since' \in 0..KeyframeTicks
           /\ sent' \in States \cup {Nothing} /\ force' \in BOOLEAN
           /\ repeat' >= repeat - 1 /\ (News => repeat' = Repeats)
           /\ \/ repeat = 0 /\ ~News /\ net' = Aged
              \/ net' = IF peer = "none" THEN Aged ELSE Aged \cup {SentNow}
  <1> USE SyncAssumption
  <1>1. /\ repeat \in 0..Repeats /\ since \in 0..KeyframeTicks /\ host \in States
        /\ sent \in States \cup {Nothing} /\ force \in BOOLEAN
    BY DEF SyncInv, SyncTypeOK
  <1>2. Upcoming = (IF News THEN Repeats + 1 ELSE repeat)
    BY DEF Upcoming
  <1>3. CASE Due(since + 1)
    <2>1. /\ repeat' = (IF Upcoming > 0 THEN Upcoming - 1 ELSE 0)
          /\ force' = FALSE /\ sent' = host /\ since' = 0
          /\ net' = IF peer = "none" THEN Aged ELSE Aged \cup {SentNow}
      BY <1>3, Zenon DEF HostTick, SentNow
    <2>2. /\ repeat' \in 0..Repeats /\ since' \in 0..KeyframeTicks /\ repeat' >= repeat - 1
          /\ (News => repeat' = Repeats)
      BY <1>1, <1>2, <2>1
    <2> QED
      BY <1>1, <2>1, <2>2
  <1>4. CASE ~Due(since + 1)
    <2>1. /\ repeat' = Upcoming /\ since' = (IF since < KeyframeTicks THEN since + 1 ELSE since)
          /\ net' = Aged /\ force' = force /\ sent' = sent
      BY <1>4, Zenon DEF HostTick
    <2>2. ~News /\ ~(Upcoming > 0)
      BY <1>4 DEF Due
    <2>3. repeat = 0 /\ repeat' = 0 /\ since' \in 0..KeyframeTicks
      BY <1>1, <1>2, <2>1, <2>2
    <2> QED
      BY <1>1, <2>1, <2>2, <2>3
  <1> QED
    BY <1>3, <1>4

LEMMA TickTyped ==
    ASSUME SyncInv, HostTick
    PROVE  SyncTypeOK' /\ Owed'
  <1> USE SyncAssumption
  <1>1. /\ host' = host /\ copy' = copy /\ heard' = heard /\ peer' = peer
        /\ connected' = connected /\ seen' = seen /\ last' \in 0..Old
    <2>1. last' = IF last < Old THEN last + 1 ELSE Old
      BY DEF HostTick
    <2>2. last \in 0..Old /\ Old \in Nat
      BY DEF SyncInv, SyncTypeOK, Old
    <2> QED
      BY <2>1, <2>2 DEF HostTick
  <1>2. /\ repeat \in Nat /\ repeat' \in 0..Repeats /\ since' \in 0..KeyframeTicks
        /\ sent' \in States \cup {Nothing} /\ force' \in BOOLEAN
        /\ repeat' >= repeat - 1 /\ (News => repeat' = Repeats)
        /\ \/ repeat = 0 /\ ~News /\ net' = Aged
           \/ net' = IF peer = "none" THEN Aged ELSE Aged \cup {SentNow}
    BY TickOwes DEF SyncInv, SyncTypeOK
  <1>3. net \subseteq AllPackets /\ host \in States
    BY DEF SyncInv, SyncTypeOK, AllPackets
  <1>4. \A p \in Aged : \E q \in net :
            q.age < MaxDelay /\ p.age = q.age + 1 /\ p.news = q.news /\ p \in AllPackets
    <2> SUFFICES ASSUME NEW q \in net, q.age < MaxDelay
                 PROVE  LET p == [q EXCEPT !.age = @ + 1]
                        IN  p.age = q.age + 1 /\ p.news = q.news /\ p \in AllPackets
      BY DEF Aged
    <2> QED
      BY <1>3 DEF AllPackets
  <1>5. ASSUME NEW q \in net, q.age < MaxDelay PROVE \E p \in Aged : p.age = q.age + 1
    <2>1. [q EXCEPT !.age = @ + 1].age = q.age + 1
      BY <1>3 DEF AllPackets
    <2> QED
      BY <1>5, <2>1 DEF Aged
  <1>6. SentNow \in AllPackets /\ SentNow.age = 0 /\ SentNow.news = News
    BY <1>3 DEF AllPackets, News, Discrete, SentNow
  <1>7. net' \subseteq AllPackets
    BY <1>2, <1>4, <1>6
  <1>8. SyncTypeOK'
    BY <1>1, <1>2, <1>3, <1>7 DEF SyncInv, SyncTypeOK, AllPackets
  <1>9. ASSUME NEW p \in net', p.news
        PROVE  /\ peer # "none" /\ p.age + repeat' >= Repeats
               /\ \A age \in 0..p.age : p.age - age <= Repeats => \E q \in net' : q.age = age
    <2>1. CASE p \in Aged
      <3>1. PICK q \in net : q.age < MaxDelay /\ p.age = q.age + 1 /\ q.news
        BY <1>4, <1>9, <2>1
      <3>2. /\ peer # "none" /\ q.age + repeat >= Repeats
            /\ \A age \in 0..q.age : q.age - age <= Repeats => \E r \in net : r.age = age
        BY <3>1 DEF SyncInv, Owed
      <3>3. q.age \in Nat /\ repeat' \in Nat
        BY <1>2, <1>3 DEF AllPackets
      <3>4. p.age + repeat' >= Repeats
        BY <1>2, <3>1, <3>2, <3>3
      <3>5. ASSUME NEW age \in 0..p.age, p.age - age <= Repeats
            PROVE  \E r \in net' : r.age = age
        <4>1. CASE age = 0
          <5>1. repeat # 0
            BY <1>2, <3>1, <3>2, <3>3, <3>5, <4>1
          <5>2. SentNow \in net'
            BY <1>2, <3>2, <5>1
          <5> QED
            BY <1>6, <4>1, <5>2
        <4>2. CASE age # 0
          <5> DEFINE before == age - 1
          <5>1. before \in 0..q.age /\ q.age - before <= Repeats /\ age = before + 1
            BY <3>1, <3>3, <3>5, <4>2
          <5> HIDE DEF before
          <5>2. PICK r \in net : r.age = before
            BY <3>2, <5>1
          <5>3. r.age < MaxDelay
            BY <3>1, <3>3, <5>1, <5>2
          <5>4. PICK s \in Aged : s.age = before + 1
            BY <1>5, <5>2, <5>3
          <5>5. s \in net'
            BY <1>2
          <5> QED
            BY <5>1, <5>4, <5>5
        <4> QED
          BY <4>1, <4>2
      <3> QED
        BY <3>2, <3>4, <3>5
    <2>2. CASE p \notin Aged
      <3>1. p = SentNow /\ peer # "none"
        BY <1>2, <1>9, <2>2
      <3>2. p.age = 0 /\ repeat' = Repeats
        BY <1>2, <1>6, <1>9, <3>1
      <3>3. \A age \in 0..p.age : p.age = age
        BY <3>2
      <3> QED
        BY <1>9, <3>1, <3>2, <3>3
    <2> QED
      BY <2>1, <2>2
  <1>10. Owed'
    BY <1>1, <1>9 DEF Owed
  <1> QED
    BY <1>8, <1>10

(* Nobody is there to send to, and no packet is news any more. *)
LEMMA DropTyped ==
    ASSUME SyncInv, Drop
    PROVE  SyncTypeOK' /\ Owed'
  <1>1. /\ peer' = "none" /\ UNCHANGED <<host, server, client, heard>>
        /\ net' = {[p EXCEPT !.news = FALSE] : p \in net}
    BY DEF Drop
  <1>2. net \subseteq AllPackets
    BY DEF SyncInv, SyncTypeOK, AllPackets
  <1>3. \A p \in net' : p \in AllPackets /\ p.news = FALSE
    BY <1>1, <1>2 DEF AllPackets
  <1> QED
    BY <1>1, <1>3 DEF SyncInv, SyncTypeOK, AllPackets, Owed, server, client

LEMMA SyncInvStep == SyncInv /\ [SyncNext]_syncVars => SyncInv'
  <1> SUFFICES ASSUME SyncInv, [SyncNext]_syncVars PROVE SyncTypeOK' /\ Owed'
    BY ToldInv, RestartInv, HostMovesInv, TickInv, DropInv, ReceiveInv, JoinerMovesInv, RestInv
       DEF SyncInv, SyncNext
  <1> USE SyncAssumption
  <1>1. CASE Told
    <2>0. host.t \in 0..Way /\ host.phase \in Phases /\ host.flag \in BOOLEAN /\ host \in States
      BY DEF SyncInv, SyncTypeOK, States
    <2>1. ToldOpen \in States /\ ToldClose \in States
      BY <2>0 DEF ToldOpen, ToldClose, States, Phases
    <2>2. \A f \in RelayOrders : [host EXCEPT !.flag = f] \in States
      BY <2>0 DEF States
    <2> QED
      BY <1>1, <2>1, <2>2, BecomesTyped DEF Told
  <1>2. CASE HostMoves
    <2>1. MovedOn(host) \in States
      BY MovedType DEF SyncInv, IInv
    <2> QED
      BY <1>2, <2>1, BecomesTyped DEF HostMoves
  <1>3. CASE HostTick
    BY <1>3, TickTyped
  <1>4. CASE Drop
    BY <1>4, DropTyped
  <1>5. CASE Join
    <2>1. \A p \in net : ~p.news
      BY <1>5 DEF Join, SyncInv, Owed
    <2> QED
      BY <1>5, <2>1 DEF Join, SyncInv, SyncTypeOK, Owed, client
  <1>6. CASE Welcomed \/ Lost \/ UNCHANGED syncVars
    <2>1. /\ UNCHANGED <<host, server, net, copy>> /\ peer' \in {"none", "own", "stale"}
          /\ (peer # "none" => peer' # "none")
          /\ last' \in 0..Old /\ connected' \in BOOLEAN /\ seen' \in BOOLEAN /\ heard' \in BOOLEAN
      <3>1. /\ peer \in {"none", "own", "stale"} /\ last \in 0..Old /\ Old \in Nat
            /\ connected \in BOOLEAN /\ seen \in BOOLEAN /\ heard \in BOOLEAN
        BY DEF SyncInv, SyncTypeOK, Old
      <3>2. CASE Welcomed
        BY <3>1, <3>2 DEF Welcomed
      <3>3. CASE Lost
        <4>1. /\ connected' = FALSE /\ last' = Old /\ seen' = FALSE /\ heard' = FALSE
              /\ peer' = IF peer = "own" THEN "stale" ELSE peer
              /\ UNCHANGED <<host, server, net, copy>>
          BY <3>3 DEF Lost
        <4>2. Old \in 0..Old
          BY <3>1
        <4> QED
          BY <3>1, <4>1, <4>2
      <3>4. CASE UNCHANGED syncVars
        BY <3>1, <3>4 DEF syncVars, client
      <3> QED
        BY <1>6, <3>2, <3>3, <3>4
    <2> QED
      BY <2>1 DEF SyncInv, SyncTypeOK, Owed, server
  <1>7. CASE Received
    <2>1. PICK p \in net : Receive(p)
      BY <1>7 DEF Received
    <2>2. p.age \in 0..MaxDelay
      BY DEF SyncInv, SyncTypeOK
    <2>3. copy' \in States /\ heard' \in BOOLEAN
      BY <1>7, ReceiveInv DEF SyncInv, IInv
    <2>4. UNCHANGED <<host, server, peer, net, connected>> /\ last' = p.age /\ seen' = TRUE
      BY <2>1 DEF Receive
    <2> QED
      BY <2>2, <2>3, <2>4 DEF SyncInv, SyncTypeOK, Owed, server, Old
  <1>8. CASE JoinerMoves
    <2>1. copy' \in States
      BY <1>8, JoinerMovesInv DEF SyncInv, IInv
    <2> QED
      BY <1>8, <2>1 DEF JoinerMoves, SyncInv, SyncTypeOK, Owed, server
  <1>9. CASE Restart
    BY <1>9, ClosedTyped, BecomesTyped DEF Restart
  <1> QED
    BY <1>1, <1>2, <1>3, <1>4, <1>5, <1>6, <1>7, <1>8, <1>9 DEF SyncNext

LEMMA SyncInvariant == SyncSpec => []SyncInv
  <1>1. SyncInit => SyncInv
    <2> SUFFICES ASSUME SyncInit PROVE SyncInv
      OBVIOUS
    <2>1. /\ Closed \in States /\ Old \in 0..Old /\ 0 \in 0..Repeats
          /\ 0 \in 0..KeyframeTicks /\ KeyframeTicks \in 0..KeyframeTicks
      BY SyncAssumption DEF Closed, States, Phases, Old
    <2>2. SyncTypeOK /\ Owed
      BY <2>1, Zenon DEF SyncInit, SyncTypeOK, Owed
    <2> QED
      BY <2>2, SyncInitInv DEF SyncInv
  <1> QED
    BY <1>1, SyncInvStep, PTL DEF SyncSpec

(* Nothing under way, sent or shown is out of its range: the repeats owed and the
   ticks since the last packet never pass the code's limits. *)
THEOREM SyncTypes == SyncSpec => []SyncTypeOK
  <1>1. SyncInv => SyncTypeOK
    BY DEF SyncInv
  <1> QED
    BY <1>1, SyncInvariant, PTL

(* "On a change, then REPEATS more times": behind every packet that brought a
   change one went out in each of the ticks that followed, up to Repeats, whatever
   changed again in between (the ws_repeat count of hta_net_server_world_state). *)
THEOREM RepeatsFollow == SyncSpec => []ChangesRepeated
  <1>1. SyncInv => ChangesRepeated
    BY DEF SyncInv, Owed, ChangesRepeated
  <1> QED
    BY <1>1, SyncInvariant, PTL
=============================================================================
