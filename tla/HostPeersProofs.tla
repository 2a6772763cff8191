-------------------------- MODULE HostPeersProofs --------------------------
(***************************************************************************)
(* The host's tick around the session, for any number of sockets, slots    *)
(* and units.                                                              *)
(*                                                                         *)
(* BodiesAreThePeers needs no more than that a slot's unit exists          *)
(* (UnitsInv) and what the loop over the slots has done so far             *)
(* (VisitedInv).  HostHasOneBody also needs to know that the host's own    *)
(* client and its slot never disagree for longer than from the client's    *)
(* timeout to the pump's: the slot is silent as long as its client         *)
(* (OwnInv).                                                               *)
(***************************************************************************)
EXTENDS HostPeers, NetSessionProofs

UnitsInv ==
    /\ \A u \in Units : body[u] = Me <=> HostsOwn(u)
    /\ \A i \in Slots : peerUnit[i] # NoUnit => body[peerUnit[i]] # NoToken
    /\ NoSharedUnit /\ NoGhosts

(* What is so of the slots the loop has visited in this tick. *)
Visited(i) == phase = "frame" \/ (phase = "peers" /\ i < visit)
VisitedInv ==
    \A i \in Slots : Visited(i) =>
        /\ peerUnit[i] # NoUnit => i \in Active
        /\ NumUnits >= MaxPlayers /\ ~HasOwn /\ i \in Active => peerUnit[i] # NoUnit
        /\ i \in Active /\ peer[i].addr = hostSocket => peerUnit[i] = me

(* The host's own client and its slot. *)
Quiet == client[hostSocket].quiet
OwnInv ==
    HasOwn =>
        /\ \A m \in toServer : m.from = hostSocket =>
              /\ phase \in {"own", "drain"}
              /\ m.type = "HELLO" /\ m.nonce = client[hostSocket].nonce
              /\ Connected(hostSocket) => Quiet = 0
        /\ \A i \in Own(hostSocket) :
              /\ Connected(hostSocket) => Quiet <= peer[i].age
              /\ \/ peer[i].nonce = client[hostSocket].nonce
                 \/ peer[i].age = Silence /\ phase \in {"own", "drain", "silence"}

HostInv ==
    /\ MatchTypeOK /\ UnitsInv /\ VisitedInv /\ OwnInv
    /\ phase = "own" => HasOwn

-----------------------------------------------------------------------------
(* What the steps of the match are to the session *)

matchStep == [MatchNext]_<<vars, matchVars>>

LEMMA UnitsFacts ==
    /\ me \in Units /\ NoUnit \notin Units /\ \A u \in Units : u \in Nat /\ u >= 1
    /\ Me # NoToken /\ Me \notin Tokens /\ NoToken \notin Tokens
    /\ Slots \subseteq Nat /\ \A i \in Slots : 1 <= i /\ i <= MaxPlayers
    /\ MaxPlayers \in Nat /\ 1 \in Slots
  BY HostAssumption, PlayersAssumption, NamesAssumption DEF Units, NoUnit, me, Slots

(* Every step is the session's, but for a peer whose profile cannot be had. *)
LEMMA MatchSteps ==
  ASSUME matchStep, hostSocket \in Clients \cup {NoAddr}, hostSocket # NoAddr \/ phase # "own"
  PROVE  [Next]_vars \/ (phase = "peers" /\ Refused(visit))
  <1>1. CASE Frame
    BY <1>1 DEF Frame, OthersStep, Others, Next
  <1>2. CASE OwnClient
    BY <1>2 DEF OwnClient, ToOwn, Next
  <1>3. CASE Drain
    BY <1>3 DEF Drain, Next
  <1>4. CASE DropSilent
    BY <1>4 DEF DropSilent, Next
  <1>5. CASE Visit
    BY <1>5 DEF Visit, Gone, OwnPeer, NoRoom, Added, Drives
  <1>6. CASE EndFrame \/ EndOwnClient \/ EndDrain \/ EndSilence
    BY <1>6 DEF EndFrame, EndOwnClient, EndDrain, EndSilence
  <1>7. CASE UNCHANGED <<vars, matchVars>>
    BY <1>7
  <1> QED
    BY <1>1, <1>2, <1>3, <1>4, <1>5, <1>6, <1>7 DEF matchStep, MatchNext

LEMMA RefusedType == ASSUME TypeOK, NEW i \in Slots, Refused(i) PROVE TypeOK'
  <1> DEFINE p == [peer[i] EXCEPT !.active = FALSE]
  <1>1. p \in Peers /\ ~p.active
    BY DEF TypeOK, Peers
  <1>2. SlotChange(i, p)
    BY <1>1 DEF SlotChange, Refused
  <1>3. UNCHANGED <<info, tick, taken, client, toServer, toClient>>
    BY DEF Refused
  <1>4. taken' \in [Clients -> Seq(Nat)] /\ toClient' \subseteq ToClient /\ toServer' \subseteq toServer
    BY <1>3 DEF TypeOK
  <1> QED
    BY <1>1, <1>2, <1>3, <1>4, HostStepType

(* The slots' units and the bodies change by a visit alone. *)
LEMMA OnlyVisits ==
  ASSUME matchStep
  PROVE  UNCHANGED hostSocket /\ (UNCHANGED <<peerUnit, body>> \/ Visit)
  BY DEF matchStep, MatchNext, Frame, EndFrame, OwnClient, EndOwnClient, Drain, EndDrain,
     DropSilent, EndSilence, Visit, matchVars

LEMMA VisitTypes ==
  ASSUME MatchTypeOK, Visit
  PROVE  /\ visit' \in Slots /\ phase' \in Phases
         /\ peerUnit' \in [Slots -> Units \cup {NoUnit}]
         /\ body' \in [Units -> Tokens \cup {NoToken, Me}]
  <1>0. visit \in Slots /\ phase = "peers"
    BY DEF MatchTypeOK, Visit
  <1>1. visit' \in Slots /\ phase' \in Phases
    BY <1>0, PlayersAssumption DEF Visit, Onward, Slots, Phases
  <1>2. CASE Gone(visit)
    BY <1>0, <1>1, <1>2 DEF Gone, Removed, MatchTypeOK
  <1>3. CASE OwnPeer(visit)
    BY <1>0, <1>1, <1>3, UnitsFacts DEF OwnPeer, MatchTypeOK
  <1>4. CASE Added(visit)
    <2>1. peer[visit].token \in Tokens
      BY <1>0, <1>4 DEF Added, Remote, MatchTypeOK, TypeOK, Active
    <2> QED
      BY <1>0, <1>1, <1>4, <2>1 DEF Added, MatchTypeOK
  <1>5. CASE UNCHANGED <<peerUnit, body>>
    BY <1>1, <1>5 DEF MatchTypeOK
  <1> QED
    BY <1>2, <1>3, <1>4, <1>5 DEF Visit, NoRoom, Refused, Drives

LEMMA TypesNext == ASSUME MatchTypeOK, phase = "own" => HasOwn, matchStep PROVE MatchTypeOK'
  <1>1. TypeOK'
    BY MatchSteps, TypeStep, RefusedType, HostAssumption DEF MatchTypeOK, HasOwn
  <1>2. hostSocket' \in HostSockets
    BY OnlyVisits DEF MatchTypeOK
  <1>3. CASE Visit
    BY <1>1, <1>2, <1>3, VisitTypes DEF MatchTypeOK
  <1>4. CASE ~Visit
    <2>1. UNCHANGED <<peerUnit, body>>
      BY <1>4, OnlyVisits
    <2>2. phase' \in Phases /\ visit' \in Slots
      BY <1>4, UnitsFacts DEF MatchTypeOK, Phases, matchStep, MatchNext, Frame, EndFrame, OwnClient,
         EndOwnClient, Drain, EndDrain, DropSilent, EndSilence, matchVars
    <2> QED
      BY <1>1, <1>2, <2>1, <2>2 DEF MatchTypeOK
  <1> QED
    BY <1>3, <1>4

-----------------------------------------------------------------------------
(* Units and slots *)

LEMMA GoneUnits == ASSUME MatchTypeOK, UnitsInv, NEW i \in Slots, Gone(i), hostSocket' = hostSocket
                   PROVE  UnitsInv'
  <1>1. /\ peerUnit' \in [Slots -> Units \cup {NoUnit}] /\ peerUnit'[i] = NoUnit
        /\ \A j \in Slots : j # i => peerUnit'[j] = peerUnit[j]
    BY DEF Gone, MatchTypeOK
  <1>2. HasOwn' = HasOwn /\ \A u : HostsOwn(u)' = HostsOwn(u)
    BY DEF HasOwn, HostsOwn
  <1>3. CASE peerUnit[i] \in Units /\ ~HostsOwn(peerUnit[i])
    <2>1. /\ body'[peerUnit[i]] = NoToken
          /\ \A u \in Units : u # peerUnit[i] => body'[u] = body[u]
      BY <1>3 DEF Gone, Removed, MatchTypeOK
    <2>2. \A j \in Slots : j # i => peerUnit[j] # peerUnit[i]
      BY <1>3, UnitsFacts DEF UnitsInv, NoSharedUnit
    <2>3. \A u \in Units : (body[u] = Me <=> HostsOwn(u))'
      BY <1>2, <1>3, <2>1, UnitsFacts DEF UnitsInv
    <2>4. \A j \in Slots : peerUnit'[j] # NoUnit => body'[peerUnit'[j]] # NoToken
      BY <1>1, <2>1, <2>2 DEF UnitsInv, MatchTypeOK
    <2>5. NoSharedUnit'
      BY <1>1, <1>2 DEF UnitsInv, NoSharedUnit
    <2>6. NoGhosts'
      BY <1>1, <1>2, <2>1, UnitsFacts DEF UnitsInv, NoGhosts
    <2> QED
      BY <2>3, <2>4, <2>5, <2>6 DEF UnitsInv
  <1>4. CASE ~(peerUnit[i] \in Units /\ ~HostsOwn(peerUnit[i]))
    <2>1. body' = body
      BY <1>4 DEF Gone, Removed
    <2>2. peerUnit[i] = NoUnit \/ HasOwn
      BY <1>4 DEF MatchTypeOK, HostsOwn
    <2>3. NoSharedUnit'
      BY <1>1, <1>2 DEF UnitsInv, NoSharedUnit
    <2>4. NoGhosts'
      BY <1>1, <1>2, <2>1, <2>2, UnitsFacts DEF UnitsInv, NoGhosts
    <2> QED
      BY <1>1, <1>2, <2>1, <2>3, <2>4 DEF UnitsInv
  <1> QED
    BY <1>3, <1>4

LEMMA OwnPeerUnits ==
  ASSUME MatchTypeOK, UnitsInv, NEW i \in Slots, OwnPeer(i), hostSocket' = hostSocket
  PROVE  UnitsInv'
  <1>1. /\ HasOwn /\ body' = body
        /\ peerUnit'[i] = me /\ \A j \in Slots : j # i => peerUnit'[j] = peerUnit[j]
    BY DEF OwnPeer, IsOwn, MatchTypeOK
  <1>2. HasOwn' = HasOwn /\ \A u : HostsOwn(u)' = HostsOwn(u)
    BY DEF HasOwn, HostsOwn
  <1>3. body[me] # NoToken
    BY <1>1, UnitsFacts DEF UnitsInv, HostsOwn
  <1>4. NoSharedUnit'
    BY <1>1, <1>2 DEF UnitsInv, NoSharedUnit, HostsOwn
  <1> QED
    BY <1>1, <1>2, <1>3, <1>4 DEF UnitsInv, NoGhosts

LEMMA AddedUnits ==
  ASSUME MatchTypeOK, UnitsInv, NEW i \in Slots, Added(i), hostSocket' = hostSocket
  PROVE  UnitsInv'
  <1>1. PICK u \in Units : /\ FirstFreeUnit(u)
                           /\ peerUnit' = [peerUnit EXCEPT ![i] = u]
                           /\ body' = [body EXCEPT ![u] = peer[i].token]
    BY DEF Added
  <1>2. peer[i].token \in Tokens
    BY DEF Added, Remote, MatchTypeOK, TypeOK, Active
  <1>3. /\ peerUnit'[i] = u /\ body'[u] = peer[i].token /\ peerUnit[i] = NoUnit /\ body[u] = NoToken
        /\ \A j \in Slots : j # i => peerUnit'[j] = peerUnit[j]
        /\ \A v \in Units : v # u => body'[v] = body[v]
    BY <1>1 DEF Added, MatchTypeOK, FirstFreeUnit
  <1>4. \A j \in Slots : peerUnit[j] # u
    BY <1>3, UnitsFacts DEF UnitsInv
  <1>5. HasOwn' = HasOwn /\ \A v : HostsOwn(v)' = HostsOwn(v)
    BY DEF HasOwn, HostsOwn
  <1>6. \A v \in Units : (body[v] = Me <=> HostsOwn(v))'
    BY <1>2, <1>3, <1>5, UnitsFacts DEF UnitsInv
  <1>7. \A j \in Slots : peerUnit'[j] # NoUnit => body'[peerUnit'[j]] # NoToken
    <2> SUFFICES ASSUME NEW j \in Slots, peerUnit'[j] # NoUnit PROVE body'[peerUnit'[j]] # NoToken
      OBVIOUS
    <2>1. CASE j = i
      BY <1>2, <1>3, <2>1, UnitsFacts
    <2>2. CASE j # i
      BY <1>3, <1>4, <2>2 DEF UnitsInv, MatchTypeOK
    <2> QED
      BY <2>1, <2>2
  <1>8. NoSharedUnit'
    BY <1>3, <1>4, <1>5 DEF UnitsInv, NoSharedUnit
  <1>9. NoGhosts'
    <2> SUFFICES ASSUME ~HasOwn, NEW v \in Units, body'[v] \in Tokens
                 PROVE  \E j \in Slots : peerUnit'[j] = v
      BY <1>5 DEF NoGhosts
    <2>1. CASE v = u
      BY <1>3, <2>1
    <2>2. CASE v # u
      <3>1. PICK j \in Slots : peerUnit[j] = v
        BY <1>3, <2>2 DEF UnitsInv, NoGhosts
      <3> QED
        BY <1>3, <3>1, UnitsFacts
    <2> QED
      BY <2>1, <2>2
  <1> QED
    BY <1>6, <1>7, <1>8, <1>9 DEF UnitsInv

LEMMA UnitsNext == ASSUME MatchTypeOK, UnitsInv, matchStep PROVE UnitsInv'
  <1>1. hostSocket' = hostSocket /\ (UNCHANGED <<peerUnit, body>> \/ Visit)
    BY OnlyVisits
  <1>2. CASE UNCHANGED <<peerUnit, body>>
    BY <1>1, <1>2 DEF UnitsInv, NoSharedUnit, NoGhosts, HostsOwn, HasOwn
  <1>3. CASE Visit
    BY <1>1, <1>2, <1>3, GoneUnits, OwnPeerUnits, AddedUnits
       DEF Visit, NoRoom, Refused, Drives, MatchTypeOK
  <1> QED
    BY <1>1, <1>2, <1>3

(* With a unit for every peer and no player of its own, a headless host always has
   one free for a slot that has none: the units in use are other slots'. *)
LEMMA RoomForAll ==
  ASSUME MatchTypeOK, UnitsInv, NumUnits >= MaxPlayers, ~HasOwn, NEW i \in Slots, peerUnit[i] = NoUnit
  PROVE  \E u \in Units : body[u] = NoToken
  <1> SUFFICES ASSUME \A u \in Units : body[u] # NoToken PROVE FALSE
    OBVIOUS
  <1>1. \A u \in Units : \E j \in Slots \ {i} : peerUnit[j] = u
    <2> SUFFICES ASSUME NEW u \in Units PROVE \E j \in Slots \ {i} : peerUnit[j] = u
      OBVIOUS
    <2>1. body[u] \in Tokens
      BY DEF MatchTypeOK, UnitsInv, HostsOwn
    <2>2. PICK j \in Slots : peerUnit[j] = u
      BY <2>1 DEF UnitsInv, NoGhosts
    <2> QED
      BY <2>2, UnitsFacts
  <1>2. IsFiniteSet(Slots) /\ Cardinality(Slots) = MaxPlayers
    BY PlayersAssumption, FS_Interval DEF Slots
  <1>3. IsFiniteSet(Slots \ {i}) /\ Cardinality(Slots \ {i}) = MaxPlayers - 1
    BY <1>2, FS_RemoveElement
  <1>4. IsFiniteSet(Units) /\ Cardinality(Units) = NumUnits
    BY HostAssumption, FS_Interval DEF Units
  <1> DEFINE slotOf == [u \in Units |-> CHOOSE j \in Slots \ {i} : peerUnit[j] = u]
  <1>5. \A u \in Units : slotOf[u] \in Slots \ {i} /\ peerUnit[slotOf[u]] = u
    BY <1>1
  <1>6. slotOf \in [Units -> Slots \ {i}]
    BY <1>5
  <1> HIDE DEF slotOf
  <1>7. Cardinality(Slots \ {i}) < Cardinality(Units)
    BY <1>2, <1>3, <1>4, PlayersAssumption, HostAssumption
  <1>8. \E u, v \in Units : u # v /\ slotOf[u] = slotOf[v]
    BY <1>3, <1>4, <1>6, <1>7, FS_PigeonHole
  <1> QED
    BY <1>5, <1>8

-----------------------------------------------------------------------------
(* The loop over the slots *)

(* Between two ticks nobody's slot changes but for its age. *)
LEMMA FrameKeepsSlots ==
  ASSUME MatchTypeOK, Frame
  PROVE  \/ Elapse /\ UNCHANGED toServer
         \/ /\ UNCHANGED peer /\ (HasOwn => client'[hostSocket] = client[hostSocket])
            /\ \A m \in toServer' : m \in toServer \/ m.from # hostSocket
  <1>0. HasOwn => hostSocket \in Clients
    BY HostAssumption DEF HasOwn, MatchTypeOK
  <1>1. ASSUME NEW c \in Others, SendHello(c) \/ Close(c) \/ ClientTimeout(c)
        PROVE  /\ UNCHANGED peer /\ (HasOwn => client'[hostSocket] = client[hostSocket])
               /\ \A m \in toServer' : m \in toServer \/ m.from # hostSocket
    <2>1. c # hostSocket /\ client \in [Clients -> ClientStates]
      BY DEF Others, MatchTypeOK, TypeOK
    <2>2. UNCHANGED peer
      BY <1>1 DEF SendHello, Close, ClientTimeout, serverVars
    <2>3. \A m \in toServer' : m \in toServer \/ m.from = c
      BY <1>1 DEF SendHello, Close, ClientTimeout
    <2>4. HasOwn => client'[hostSocket] = client[hostSocket]
      <3>1. client' = client \/ \E r : client' = [client EXCEPT ![c] = r]
        <4>1. CASE SendHello(c)
          BY <4>1 DEF SendHello
        <4>2. CASE ClientTimeout(c)
          BY <4>2 DEF ClientTimeout
        <4>3. CASE Close(c)
          <5>1. client' = [client EXCEPT ![c].mode = "closed",
                                         ![c].sequence = IF Connected(c) THEN @ + 1 ELSE @]
            BY <4>3 DEF Close
          <5>2. client' = [client EXCEPT ![c] = client'[c]]
            BY <2>1, <5>1
          <5> QED
            BY <5>2
        <4> QED
          BY <1>1, <4>1, <4>2, <4>3
      <3> QED
        BY <1>0, <2>1, <3>1
    <2> QED
      BY <2>1, <2>2, <2>3, <2>4
  <1>2. ASSUME NEW m \in toClient \ ToOwn, ClientPacket(m)
        PROVE  UNCHANGED <<peer, toServer>> /\ (HasOwn => client'[hostSocket] = client[hostSocket])
    <2>1. m.to # hostSocket
      BY DEF ToOwn
    <2>2. client' = [client EXCEPT ![m.to] = client'[m.to]]
      BY <1>2 DEF ClientPacket, Rejected, Welcomed, Ponged, Snapped, Ignored, MatchTypeOK, TypeOK
    <2> QED
      BY <1>0, <1>2, <2>1, <2>2 DEF ClientPacket, serverVars, MatchTypeOK, TypeOK
  <1>3. CASE Lose
    BY <1>3 DEF Lose, serverVars
  <1>4. CASE Elapse
    BY <1>4 DEF Elapse
  <1> QED
    BY <1>1, <1>2, <1>3, <1>4 DEF Frame, OthersStep

LEMMA ElapseKeepsSlots ==
  ASSUME TypeOK, Elapse, NEW i \in Slots
  PROVE  /\ peer'[i].active = peer[i].active /\ peer'[i].addr = peer[i].addr
         /\ peer'[i].nonce = peer[i].nonce
         /\ peer'[i].age = IF peer[i].active THEN Older(peer[i].age) ELSE peer[i].age
  BY DEF Elapse, TypeOK, Peers

(* In the loop over the slots the host knows its own client's slot. *)
LEMMA OwnIsKnown ==
  ASSUME MatchTypeOK, OwnInv, phase = "peers", NEW i \in Active, peer[i].addr = hostSocket
  PROVE  HasOwn /\ IsOwn(i)
  <1>1. HasOwn
    BY NamesAssumption DEF MatchTypeOK, TypeOK, HasOwn
  <1> QED
    BY <1>1 DEF OwnInv, Own, IsOwn

LEMMA VisitedNext ==
  ASSUME MatchTypeOK, UnitsInv, VisitedInv, OwnInv, matchStep
  PROVE  VisitedInv'
  <1>0. hostSocket' = hostSocket /\ HasOwn' = HasOwn
    BY OnlyVisits DEF HasOwn
  <1>1. CASE Frame
    <2>1. ASSUME NEW i \in Slots
          PROVE  peer'[i].active = peer[i].active /\ peer'[i].addr = peer[i].addr
      BY <1>1, FrameKeepsSlots, ElapseKeepsSlots DEF MatchTypeOK
    <2> QED
      BY <1>0, <1>1, <2>1 DEF Frame, matchVars, VisitedInv, Visited, Active
  <1>2. CASE EndFrame \/ OwnClient \/ EndOwnClient \/ Drain \/ EndDrain \/ DropSilent
    <2>1. phase' \notin {"frame", "peers"}
      BY <1>2 DEF EndFrame, OwnClient, EndOwnClient, Drain, EndDrain, DropSilent, matchVars
    <2> QED
      BY <2>1 DEF VisitedInv, Visited
  <1>3. CASE EndSilence
    <2>1. phase' = "peers" /\ visit' = 1
      BY <1>3 DEF EndSilence
    <2> QED
      BY <2>1, UnitsFacts DEF VisitedInv, Visited
  <1>4. CASE Visit
    <2>1. phase = "peers" /\ visit \in Slots
      BY <1>4 DEF Visit, MatchTypeOK
    <2>2. ASSUME NEW i \in Slots, i # visit
          PROVE  peerUnit'[i] = peerUnit[i] /\ peer'[i] = peer[i]
      BY <1>4, <2>1, <2>2
         DEF Visit, Gone, OwnPeer, NoRoom, Added, Refused, Drives, vars, MatchTypeOK, TypeOK
    <2>3. ASSUME NEW i \in Slots, Visited(i)' PROVE i = visit \/ Visited(i)
      BY <1>4, <2>1, <2>3, UnitsFacts DEF Visit, Onward, Visited
    <2>4. /\ peerUnit'[visit] # NoUnit => visit \in Active'
          /\ NumUnits >= MaxPlayers /\ ~HasOwn /\ visit \in Active' => peerUnit'[visit] # NoUnit
          /\ visit \in Active' /\ peer'[visit].addr = hostSocket => peerUnit'[visit] = me
      <3>1. CASE Gone(visit)
        BY <2>1, <3>1 DEF Gone, vars, Active, MatchTypeOK
      <3>2. CASE OwnPeer(visit)
        BY <2>1, <3>2, UnitsFacts DEF OwnPeer, vars, Active, MatchTypeOK, me, NoUnit
      <3>3. CASE Refused(visit)
        BY <2>1, <3>3 DEF Refused, Active, MatchTypeOK, TypeOK, Peers
      <3>4. CASE NoRoom(visit) \/ Added(visit) \/ Drives(visit)
        <4>1. /\ peer[visit].active /\ ~IsOwn(visit) /\ peer' = peer
              /\ visit \in Active /\ visit \in Active'
          BY <2>1, <3>4 DEF NoRoom, Added, Drives, Remote, vars, Active
        <4>2. peer[visit].addr # hostSocket
          BY <2>1, <4>1, OwnIsKnown
        <4>3. NumUnits >= MaxPlayers /\ ~HasOwn => peerUnit'[visit] # NoUnit
          <5>1. CASE NoRoom(visit)
            BY <2>1, <5>1, RoomForAll DEF NoRoom
          <5>2. CASE Added(visit)
            BY <2>1, <5>2, UnitsFacts DEF Added, MatchTypeOK
          <5>3. CASE Drives(visit)
            BY <5>3 DEF Drives
          <5> QED
            BY <3>4, <5>1, <5>2, <5>3
        <4> QED
          BY <4>1, <4>2, <4>3
      <3> QED
        BY <1>4, <3>1, <3>2, <3>3, <3>4 DEF Visit
    <2> QED
      BY <1>0, <2>2, <2>3, <2>4 DEF VisitedInv, Active
  <1>5. CASE UNCHANGED <<vars, matchVars>>
    BY <1>5 DEF vars, matchVars, VisitedInv, Visited, Active, HasOwn
  <1> QED
    BY <1>1, <1>2, <1>3, <1>4, <1>5 DEF matchStep, MatchNext

-----------------------------------------------------------------------------
(* The host's own client and its slot *)

HelloIsFresh(m) ==
    /\ phase \in {"own", "drain"}
    /\ m.type = "HELLO" /\ m.nonce = client[hostSocket].nonce
    /\ Connected(hostSocket) => Quiet = 0

Follows(i) ==
    /\ Connected(hostSocket) => Quiet <= peer[i].age
    /\ \/ peer[i].nonce = client[hostSocket].nonce
       \/ peer[i].age = Silence /\ phase \in {"own", "drain", "silence"}

OwnFollows ==
    /\ \A m \in toServer : m.from = hostSocket => HelloIsFresh(m)
    /\ \A i \in Own(hostSocket) : Follows(i)

LEMMA OwnInvIs == OwnInv <=> (HasOwn => OwnFollows)
  BY DEF OwnInv, OwnFollows, HelloIsFresh, Follows

LEMMA Ages ==
  ASSUME MatchTypeOK, HasOwn
  PROVE  /\ hostSocket \in Clients /\ client[hostSocket] \in ClientStates
         /\ Quiet \in Nat /\ Quiet <= Silence /\ Silence \in Nat /\ Silence > 0
         /\ \A i \in Slots : peer[i] \in Peers /\ peer[i].age \in Nat /\ peer[i].age <= Silence
  BY HostAssumption, BoundsAssumption DEF HasOwn, MatchTypeOK, TypeOK, Peers, ClientStates, Quiet

(* Nothing of the own client's is in flight between two ticks, and its silence and
   its slot's grow together. *)
LEMMA FrameOwn ==
  ASSUME MatchTypeOK, HasOwn, OwnFollows, Frame PROVE OwnFollows'
  <1>1. phase = "frame" /\ phase' = "frame" /\ hostSocket' = hostSocket
    BY DEF Frame, matchVars
  <1>2. \A m \in toServer : m.from # hostSocket
    BY <1>1 DEF OwnFollows, HelloIsFresh
  <1>3. \A i \in Own(hostSocket) :
          /\ peer[i].nonce = client[hostSocket].nonce
          /\ Connected(hostSocket) => Quiet <= peer[i].age
    BY <1>1 DEF OwnFollows, Follows
  <1>4. CASE Elapse /\ UNCHANGED toServer
    <2>1. /\ client'[hostSocket].mode = client[hostSocket].mode
          /\ client'[hostSocket].nonce = client[hostSocket].nonce
          /\ Connected(hostSocket) => Quiet' = Older(Quiet)
      BY <1>1, <1>4, Ages DEF Elapse, ClientStates, Quiet
    <2>2. ASSUME NEW i \in Own(hostSocket)' PROVE Follows(i)'
      <3>1. i \in Own(hostSocket) /\ i \in Slots
        BY <1>1, <1>4, <2>2, ElapseKeepsSlots DEF Own, Active, MatchTypeOK
      <3>2. peer'[i].nonce = peer[i].nonce /\ peer'[i].age = Older(peer[i].age)
        BY <1>4, <3>1, ElapseKeepsSlots DEF Own, Active, MatchTypeOK
      <3>3. Connected(hostSocket) => Older(Quiet) <= Older(peer[i].age)
        BY <1>3, <3>1, Ages DEF Older
      <3> QED
        BY <1>1, <1>3, <2>1, <3>1, <3>2, <3>3 DEF Follows, Connected
    <2> QED
      BY <1>1, <1>2, <1>4, <2>2 DEF OwnFollows
  <1>5. CASE /\ UNCHANGED peer /\ client'[hostSocket] = client[hostSocket]
             /\ \A m \in toServer' : m \in toServer \/ m.from # hostSocket
    BY <1>1, <1>2, <1>3, <1>5 DEF OwnFollows, Own, Active, Follows, Connected, Quiet
  <1> QED
    BY <1>4, <1>5, FrameKeepsSlots

(* The client's part of the tick: a greeting is of its present nonce, and its nonce
   changes only after a silence as long as its slot's. *)
LEMMA OwnClientOwn ==
  ASSUME MatchTypeOK, HasOwn, OwnFollows, OwnClient PROVE OwnFollows'
  <1>1. phase = "own" /\ phase' = "own" /\ hostSocket' = hostSocket
    BY DEF OwnClient, matchVars
  <1>2. peer' = peer
    BY DEF OwnClient, SendHello, ClientTimeout, ClientPacket, serverVars
  <1>3. Own(hostSocket)' = Own(hostSocket) /\ Own(hostSocket) \subseteq Slots
    BY <1>1, <1>2 DEF Own, Active
  <1>4. CASE SendHello(hostSocket)
    <2>1. /\ client' = client /\ ~Connected(hostSocket)
          /\ \A m \in toServer' : m \in toServer
                \/ (m.type = "HELLO" /\ m.nonce = client[hostSocket].nonce)
      BY <1>4 DEF SendHello, Connected
    <2> QED
      BY <1>1, <1>2, <1>3, <2>1 DEF OwnFollows, HelloIsFresh, Follows, Connected, Quiet
  <1>5. CASE ClientTimeout(hostSocket)
    <2>1. Connected(hostSocket) /\ Quiet = Silence /\ toServer' = toServer
      BY <1>5 DEF ClientTimeout, Quiet
    <2>2. \A m \in toServer : m.from # hostSocket
      BY <2>1, Ages DEF OwnFollows, HelloIsFresh
    <2>3. PICK n : client' = [client EXCEPT ![hostSocket] =
                                [NewClient(n) EXCEPT !.sequence = client[hostSocket].sequence]]
      BY <1>5 DEF ClientTimeout
    <2>4. client'[hostSocket].mode = "greeting"
      BY <2>3, Ages DEF MatchTypeOK, TypeOK, NewClient
    <2>5. \A i \in Own(hostSocket) : peer[i].age = Silence
      BY <1>3, <2>1, Ages DEF OwnFollows, Follows
    <2> QED
      BY <1>1, <1>2, <1>3, <2>1, <2>2, <2>4, <2>5 DEF OwnFollows, Follows, Connected
  <1>6. ASSUME NEW m \in ToOwn, ClientPacket(m) PROVE OwnFollows'
    <2>1. m.to = hostSocket /\ toServer' = toServer
      BY <1>6 DEF ToOwn, ClientPacket
    <2>2. /\ client'[hostSocket].nonce = client[hostSocket].nonce
          /\ \/ client'[hostSocket].quiet = 0
             \/ /\ client'[hostSocket].mode = client[hostSocket].mode
                /\ client'[hostSocket].quiet = client[hostSocket].quiet
      <3>1. client \in [Clients -> ClientStates] /\ hostSocket \in Clients
        BY Ages DEF MatchTypeOK, TypeOK
      <3>2. CASE Rejected(hostSocket, m)
        BY <3>1, <3>2 DEF Rejected, ClientStates
      <3>3. CASE Welcomed(hostSocket, m)
        BY <3>1, <3>3 DEF Welcomed, ClientStates
      <3>4. CASE Ponged(hostSocket, m)
        BY <3>1, <3>4 DEF Ponged, ClientStates
      <3>5. CASE Snapped(hostSocket, m)
        BY <3>1, <3>5 DEF Snapped, ClientStates
      <3>6. CASE Ignored(hostSocket, m)
        BY <3>1, <3>6 DEF Ignored, ClientStates
      <3> QED
        BY <1>6, <2>1, <3>2, <3>3, <3>4, <3>5, <3>6 DEF ClientPacket
    <2>3. Connected(hostSocket)' => Quiet' = 0 \/ (Connected(hostSocket) /\ Quiet' = Quiet)
      BY <1>1, <2>2 DEF Connected, Quiet
    <2>4. \A i \in Own(hostSocket) : Connected(hostSocket)' => Quiet' <= peer[i].age
      BY <1>3, <2>3, Ages DEF OwnFollows, Follows
    <2> QED
      BY <1>1, <1>2, <1>3, <2>1, <2>2, <2>3, <2>4 DEF OwnFollows, HelloIsFresh, Follows
  <1> QED
    BY <1>4, <1>5, <1>6 DEF OwnClient

(* A packet the host takes: of the own client's there are only fresh greetings. *)
LEMMA DrainOwn == ASSUME MatchTypeOK, HasOwn, OwnFollows, Drain PROVE OwnFollows'
  <1>1. phase = "drain" /\ phase' = "drain" /\ hostSocket' = hostSocket
    BY DEF Drain, matchVars
  <1>2. PICK m \in toServer : ServerPacket(m)
    BY DEF Drain
  <1>3. client' = client /\ toServer' \subseteq toServer
    BY <1>2, ConsumeKeeps DEF ServerPacket
  <1>4. peer \in [Slots -> Peers]
    BY DEF MatchTypeOK, TypeOK
  <1>5. ASSUME UNCHANGED peer PROVE OwnFollows'
    BY <1>1, <1>3, <1>5
       DEF OwnFollows, HelloIsFresh, Follows, Connected, Quiet, Own, Active
  <1>6. ASSUME NEW j \in Slots, NEW p, peer' = [peer EXCEPT ![j] = p],
               p.active /\ p.addr = hostSocket =>
                   /\ Connected(hostSocket) => Quiet <= p.age
                   /\ p.nonce = client[hostSocket].nonce
        PROVE  OwnFollows'
    <2>1. peer'[j] = p /\ \A i \in Slots : i # j => peer'[i] = peer[i]
      BY <1>4, <1>6
    <2>2. ASSUME NEW i \in Own(hostSocket)' PROVE Follows(i)'
      <3>1. i \in Slots /\ peer'[i].active /\ peer'[i].addr = hostSocket
        BY <1>1, <2>2 DEF Own, Active
      <3>2. CASE i = j
        BY <1>1, <1>3, <1>6, <2>1, <3>1, <3>2 DEF Follows, Connected, Quiet
      <3>3. CASE i # j
        <4>1. i \in Own(hostSocket) /\ peer'[i] = peer[i]
          BY <2>1, <3>1, <3>3 DEF Own, Active
        <4> QED
          BY <1>1, <1>3, <4>1 DEF OwnFollows, Follows, Connected, Quiet
      <3> QED
        BY <3>2, <3>3
    <2> QED
      BY <1>1, <1>3, <2>2 DEF OwnFollows, HelloIsFresh, Connected, Quiet
  <1>7. ASSUME m.type = "HELLO", m.from = hostSocket
        PROVE  m.nonce = client[hostSocket].nonce /\ (Connected(hostSocket) => Quiet = 0)
    BY <1>2, <1>7 DEF OwnFollows, HelloIsFresh
  <1>8. CASE m.type = "HELLO"
    <2>1. CASE HelloRefused(m) \/ HelloFull(m) \/ HelloOfAnotherNonce(m)
      BY <1>5, <2>1 DEF HelloRefused, HelloFull, HelloOfAnotherNonce, Reject, serverVars
    <2>2. CASE HelloJoins(m)
      <3>1. PICK j \in Slots, t \in Tokens : peer' = [peer EXCEPT ![j] = NewPeer(m.from, m.nonce, t)]
        BY <2>2 DEF HelloJoins
      <3>2. /\ NewPeer(m.from, m.nonce, t).addr = m.from
            /\ NewPeer(m.from, m.nonce, t).nonce = m.nonce
            /\ NewPeer(m.from, m.nonce, t).age = 0
        BY DEF NewPeer
      <3> DEFINE p == NewPeer(m.from, m.nonce, t)
      <3> HIDE DEF p
      <3>3. p.addr = hostSocket => /\ Connected(hostSocket) => Quiet <= p.age
                                   /\ p.nonce = client[hostSocket].nonce
        BY <1>7, <1>8, <3>2 DEF p
      <3>4. peer' = [peer EXCEPT ![j] = p]
        BY <3>1 DEF p
      <3> QED
        BY <1>6, <3>3, <3>4
    <2>3. CASE HelloNoToken(m)
      <3>1. PICK j \in Slots : peer' = [peer EXCEPT ![j] = FreeSlot(m.from, m.nonce)]
        BY <2>3 DEF HelloNoToken
      <3>2. ~FreeSlot(m.from, m.nonce).active
        BY <1>2, <1>8, HelloType, FreeSlotType DEF MatchTypeOK
      <3> QED
        BY <1>6, <3>1, <3>2
    <2>4. CASE HelloAgain(m)
      <3>1. PICK j \in Own(m.from) : peer[j].nonce = m.nonce /\ peer' = [peer EXCEPT ![j].age = 0]
        BY <2>4 DEF HelloAgain
      <3> DEFINE p == [peer[j] EXCEPT !.age = 0]
      <3>2. j \in Slots /\ p.addr = m.from /\ p.nonce = m.nonce /\ p.age = 0
        BY <1>4, <3>1 DEF Own, Active, Peers
      <3>3. peer' = [peer EXCEPT ![j] = p]
        BY <3>1
      <3> HIDE DEF p
      <3>4. p.addr = hostSocket => /\ Connected(hostSocket) => Quiet <= p.age
                                   /\ p.nonce = client[hostSocket].nonce
        BY <1>7, <1>8, <3>2
      <3> QED
        BY <1>6, <3>2, <3>3, <3>4
    <2> QED
      BY <1>2, <1>8, <2>1, <2>2, <2>3, <2>4 DEF ServerPacket, Hello
  <1>9. CASE m.type # "HELLO"
    <2>1. m.from # hostSocket
      BY <1>2, <1>9 DEF OwnFollows, HelloIsFresh
    <2>2. CASE Stale(m)
      BY <1>5, <2>2 DEF Stale, serverVars
    <2>3. ASSUME NEW j \in Own(m.from), Disconnect(m, j) \/ Ping(m, j) \/ Input(m, j) \/ Control(m, j)
          PROVE  OwnFollows'
      <3>1. j \in Slots /\ peer[j].addr = m.from
        BY DEF Own, Active
      <3>2. Heard(m, j) \in Peers /\ Heard(m, j).addr = peer[j].addr
        BY <1>2, <1>9, <3>1, HeardType DEF MatchTypeOK
      <3>3. PICK p : /\ peer' = [peer EXCEPT ![j] = p]
                     /\ \/ p = [Heard(m, j) EXCEPT !.active = FALSE]
                        \/ p = Heard(m, j)
                        \/ p = [Heard(m, j) EXCEPT !.hasState = TRUE]
                        \/ p = [Heard(m, j) EXCEPT !.control = m.sequence]
        BY <2>3 DEF Disconnect, Ping, Input, Control
      <3>4. p.addr = m.from
        BY <3>1, <3>2, <3>3 DEF Peers
      <3> QED
        BY <1>6, <2>1, <3>1, <3>3, <3>4
    <2> QED
      BY <1>2, <1>9, <2>2, <2>3 DEF ServerPacket, FromPeer
  <1> QED
    BY <1>8, <1>9

LEMMA DropSilentOwn == ASSUME MatchTypeOK, HasOwn, OwnFollows, DropSilent PROVE OwnFollows'
  <1>1. /\ UNCHANGED <<phase, hostSocket, client, toServer>>
        /\ \E i \in Slots : peer' = [peer EXCEPT ![i].active = FALSE]
    BY DEF DropSilent, matchVars, PeerTimeout
  <1>2. \A i \in Slots : \/ peer'[i] = peer[i]
                         \/ ~peer'[i].active
    BY <1>1 DEF MatchTypeOK, TypeOK, Peers
  <1> QED
    BY <1>1, <1>2 DEF OwnFollows, HelloIsFresh, Follows, Connected, Quiet, Own, Active

LEMMA VisitOwn == ASSUME MatchTypeOK, HasOwn, OwnFollows, Visit PROVE OwnFollows'
  <1>1. phase = "peers" /\ visit \in Slots /\ hostSocket' = hostSocket
    BY DEF Visit, MatchTypeOK
  <1>2. /\ \A m \in toServer : m.from # hostSocket
        /\ \A i \in Own(hostSocket) :
              /\ peer[i].nonce = client[hostSocket].nonce
              /\ Connected(hostSocket) => Quiet <= peer[i].age
    BY <1>1 DEF OwnFollows, HelloIsFresh, Follows
  <1>3. /\ UNCHANGED <<client, toServer>>
        /\ peer' = peer \/ peer' = [peer EXCEPT ![visit].active = FALSE]
    BY DEF Visit, Gone, OwnPeer, NoRoom, Added, Refused, Drives, vars
  <1>4. \A i \in Slots : \/ peer'[i] = peer[i]
                         \/ ~peer'[i].active
    BY <1>3 DEF MatchTypeOK, TypeOK, Peers
  <1> QED
    BY <1>1, <1>2, <1>3, <1>4 DEF OwnFollows, Follows, Connected, Quiet, Own, Active

LEMMA OwnNext ==
  ASSUME MatchTypeOK, OwnInv, matchStep
  PROVE  OwnInv'
  <1>0. hostSocket' = hostSocket /\ HasOwn' = HasOwn
    BY OnlyVisits DEF HasOwn
  <1> SUFFICES ASSUME HasOwn, OwnFollows PROVE OwnFollows'
    BY <1>0, OwnInvIs DEF OwnInv, OwnFollows, HelloIsFresh, Follows
  <1>1. CASE EndFrame \/ EndOwnClient \/ EndDrain
    <2>1. UNCHANGED <<peer, client, toServer>>
      BY <1>1 DEF EndFrame, EndOwnClient, EndDrain, vars
    <2>2. /\ \A m \in toServer : m.from = hostSocket => phase' \in {"own", "drain"}
          /\ phase # "peers"
          /\ phase \in {"own", "drain", "silence"} => phase' \in {"own", "drain", "silence"}
      BY <1>1 DEF EndFrame, EndOwnClient, EndDrain, OwnFollows, HelloIsFresh
    <2> QED
      BY <1>0, <2>1, <2>2 DEF OwnFollows, HelloIsFresh, Follows, Connected, Quiet, Own, Active
  <1>2. CASE EndSilence
    <2>1. /\ UNCHANGED <<peer, client, toServer>> /\ phase = "silence"
          /\ \A i \in Active : peer[i].age < Silence
      BY <1>2 DEF EndSilence, vars
    <2>2. /\ \A m \in toServer : m.from # hostSocket
          /\ \A i \in Own(hostSocket) : peer[i].age # Silence
      BY <2>1, Ages DEF OwnFollows, HelloIsFresh, Own, Active
    <2> QED
      BY <1>0, <2>1, <2>2 DEF OwnFollows, HelloIsFresh, Follows, Connected, Quiet, Own, Active
  <1>3. CASE UNCHANGED <<vars, matchVars>>
    BY <1>3 DEF vars, matchVars, OwnFollows, HelloIsFresh, Follows, Connected, Quiet, Own, Active
  <1> QED
    BY <1>1, <1>2, <1>3, FrameOwn, OwnClientOwn, DrainOwn, DropSilentOwn, VisitOwn
       DEF matchStep, MatchNext

-----------------------------------------------------------------------------
(* The theorems *)

LEMMA HostStart == MatchInit => HostInv
  <1> SUFFICES ASSUME MatchInit PROVE HostInv
    OBVIOUS
  <1>1. TypeOK /\ Active = {} /\ toServer = {}
    BY InitType, EmptySlotType DEF MatchInit, Init, Active
  <1>2. MatchTypeOK
    BY <1>1, UnitsFacts DEF MatchInit, MatchTypeOK, Phases
  <1>3. UnitsInv
    BY UnitsFacts DEF MatchInit, UnitsInv, HostsOwn, NoSharedUnit, NoGhosts, NoUnit
  <1>4. VisitedInv
    BY <1>1 DEF MatchInit, VisitedInv
  <1>5. OwnInv
    BY <1>1 DEF OwnInv, Own
  <1> QED
    BY <1>2, <1>3, <1>4, <1>5 DEF HostInv, MatchInit

LEMMA HostNext == HostInv /\ matchStep => HostInv'
  <1> SUFFICES ASSUME HostInv, matchStep PROVE HostInv'
    OBVIOUS
  <1>1. (phase = "own" => HasOwn)'
    BY OnlyVisits DEF HostInv, HasOwn, matchStep, MatchNext, Frame, EndFrame, OwnClient,
       EndOwnClient, Drain, EndDrain, DropSilent, EndSilence, Visit, Onward, matchVars
  <1> QED
    BY <1>1, TypesNext, UnitsNext, VisitedNext, OwnNext DEF HostInv

LEMMA HostAlways == MatchSpec => []HostInv
  BY HostStart, HostNext, PTL DEF MatchSpec, matchStep

(* The match's tables stay well formed through every tick. *)
THEOREM MatchTypes == MatchSpec => []MatchTypeOK
  BY HostAlways, PTL DEF HostInv

(* Bodies and peers belong together after every tick, for any number of slots and
   units: none is shared or left behind, and where there is a unit for every peer of
   a headless host no peer waits for one. *)
THEOREM BodiesBelongToPeers == MatchSpec => []BodiesAreThePeers
  <1>1. HostInv => BodiesAreThePeers
    BY DEF HostInv, UnitsInv, VisitedInv, Visited, BodiesAreThePeers
  <1> QED
    BY <1>1, HostAlways, PTL

(* The host's own client never gets a second, remote body, though it may time out,
   draw another nonce and greet again while its slot is still there. *)
THEOREM OneBodyForTheHost == MatchSpec => []HostHasOneBody
  <1>1. HostInv => HostHasOneBody
    BY DEF HostInv, VisitedInv, Visited, HostHasOneBody, Active
  <1> QED
    BY <1>1, HostAlways, PTL

-----------------------------------------------------------------------------
(* The session in the match *)

SessionSafe == Unique /\ WithinCap /\ \A c \in Unfit : Outside(c)

LEMMA RefusedSafe ==
  ASSUME TypeOK, SessionSafe, NEW i \in Slots, Refused(i) PROVE SessionSafe'
  <1>1. UNCHANGED <<info, client, toClient>> /\ peer' = [peer EXCEPT ![i].active = FALSE]
    BY DEF Refused
  <1>2. \A j \in Slots : peer'[j] = peer[j] \/ ~peer'[j].active
    BY <1>1 DEF TypeOK, Peers
  <1>3. Active' \subseteq Active /\ \A j \in Active' : peer'[j] = peer[j]
    BY <1>2 DEF Active
  <1>4. Unique'
    BY <1>3 DEF SessionSafe, Unique, OneSlotPerAddress, OneUserPerIdentity, Keyed
  <1>5. WithinCap'
    <2>1. Cardinality(Active') <= Cardinality(Active) /\ Cardinality(Active') \in Nat
      BY <1>3, ActiveIsFinite, FS_Subset, FS_CardinalityType
    <2>2. Cap' = Cap /\ Cap \in Nat
      BY <1>1, PlayersAssumption DEF Cap, TypeOK
    <2> QED
      BY <2>1, <2>2, ActiveIsFinite DEF SessionSafe, WithinCap
  <1>6. ASSUME NEW c \in Unfit PROVE Outside(c)'
    BY <1>1, <1>3 DEF SessionSafe, Outside, Own, Connected
  <1> QED
    BY <1>4, <1>5, <1>6 DEF SessionSafe

LEMMA SafeNext == HostInv /\ SessionSafe /\ matchStep => SessionSafe'
  <1> SUFFICES ASSUME HostInv, SessionSafe, matchStep PROVE SessionSafe'
    OBVIOUS
  <1>1. TypeOK /\ visit \in Slots
    BY DEF HostInv, MatchTypeOK
  <1>2. [Next]_vars \/ Refused(visit)
    BY MatchSteps, HostAssumption DEF HostInv, MatchTypeOK, HasOwn
  <1>3. CASE [Next]_vars
    BY <1>1, <1>3, UniqueStep, CapStep, OutsideStep DEF SessionSafe
  <1> QED
    BY <1>1, <1>2, <1>3, RefusedSafe

(* What is proved of the session by itself holds of it in the match too, where the host
   also takes a slot from a peer whose profile cannot be had: one slot for a socket, one
   user for an identity, no more players than the limit, and the unfit stay out. *)
THEOREM TheSessionInTheMatch ==
  MatchSpec => [](OneSlotPerAddress /\ OneUserPerIdentity /\ WithinCap /\ UnfitStayOut)
  <1>1. MatchInit => SessionSafe
    <2> SUFFICES ASSUME MatchInit PROVE SessionSafe
      OBVIOUS
    <2>1. Active = {} /\ toClient = {}
      BY EmptySlotType DEF MatchInit, Init, Active
    <2>2. Unique
      BY <2>1 DEF Unique, OneSlotPerAddress, OneUserPerIdentity
    <2>3. WithinCap
      <3>1. Cap \in Nat
        BY PlayersAssumption DEF MatchInit, Init, Cap
      <3> QED
        BY <2>1, <3>1, FS_EmptySet DEF WithinCap
    <2>4. ASSUME NEW c \in Unfit PROVE Outside(c)
      <3>1. PICK n \in Nonces : client[c] = NewClient(n)
        BY IdentityAssumption DEF MatchInit, Init
      <3> QED
        BY <2>1, <3>1 DEF Outside, Own, Connected, NewClient
    <2> QED
      BY <2>2, <2>3, <2>4 DEF SessionSafe
  <1>2. SessionSafe => OneSlotPerAddress /\ OneUserPerIdentity /\ WithinCap /\ UnfitStayOut
    BY DEF SessionSafe, Unique, UnfitStayOut, Outside
  <1> QED
    BY <1>1, <1>2, HostAlways, SafeNext, PTL DEF MatchSpec, matchStep
=============================================================================
