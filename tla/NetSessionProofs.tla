-------------------------- MODULE NetSessionProofs --------------------------
(***************************************************************************)
(* NetSession for every number of sockets and slots, every choice of       *)
(* nonces and tokens, and a network that loses, reorders and repeats: who  *)
(* holds a slot, who may not, in which order controls act, and what alone  *)
(* takes a slot from its player.                                           *)
(***************************************************************************)
EXTENDS NetSession, SequenceTheorems, FiniteSetTheorems, TLAPS

LEMMA SlotsFacts == Slots \subseteq Nat /\ \A i \in Slots : i # 0
  BY PlayersAssumption DEF Slots

(* A record that replaces one slot keeps the table's type. *)
LEMMA ReplacedSlot ==
    ASSUME peer \in [Slots -> Peers], NEW i \in Slots, NEW p \in Peers,
           peer' = [peer EXCEPT ![i] = p]
    PROVE  /\ peer' \in [Slots -> Peers]
           /\ peer'[i] = p
           /\ \A j \in Slots : j # i => peer'[j] = peer[j]
  OBVIOUS

LEMMA NewPeerType ==
    ASSUME NEW c \in Clients \cup {NoAddr}, NEW n \in Nonces \cup {NoNonce},
           NEW t \in Tokens \cup {NoToken}
    PROVE  /\ NewPeer(c, n, t) \in Peers
           /\ NewPeer(c, n, t).active
           /\ NewPeer(c, n, t).addr = c
           /\ NewPeer(c, n, t).token = t
           /\ NewPeer(c, n, t).last = 0
  BY BoundsAssumption DEF NewPeer, Peers

LEMMA FreeSlotType ==
    ASSUME NEW c \in Clients \cup {NoAddr}, NEW n \in Nonces \cup {NoNonce}
    PROVE  FreeSlot(c, n) \in Peers /\ ~FreeSlot(c, n).active
  <1>1. NewPeer(c, n, NoToken) \in Peers
    BY NewPeerType
  <1> QED
    BY <1>1 DEF FreeSlot, Peers

LEMMA EmptySlotType == EmptySlot \in Peers /\ ~EmptySlot.active
  BY FreeSlotType DEF EmptySlot

LEMMA HeardType ==
    ASSUME TypeOK, NEW m \in toServer, m.type # "HELLO", NEW i \in Slots
    PROVE  /\ Heard(m, i) \in Peers
           /\ [Heard(m, i) EXCEPT !.active = FALSE] \in Peers
           /\ [Heard(m, i) EXCEPT !.hasState = TRUE] \in Peers
           /\ [Heard(m, i) EXCEPT !.control = m.sequence] \in Peers
           /\ Heard(m, i).active = peer[i].active
           /\ Heard(m, i).addr = peer[i].addr
           /\ Heard(m, i).token = peer[i].token
           /\ Heard(m, i).last = m.sequence
           /\ m.sequence \in Nat
           /\ m.from \in Clients
           /\ m.token \in Tokens
  <1>1. m.sequence \in Nat /\ m.from \in Clients /\ m.token \in Tokens
    BY DEF TypeOK, ToServer
  <1>2. peer[i] \in Peers
    BY DEF TypeOK
  <1>3. 0 \in 0..Silence
    BY BoundsAssumption
  <1>4. /\ Heard(m, i) \in Peers
        /\ Heard(m, i).active = peer[i].active
        /\ Heard(m, i).addr = peer[i].addr
        /\ Heard(m, i).token = peer[i].token
        /\ Heard(m, i).last = m.sequence
    BY <1>1, <1>2, <1>3 DEF Heard, Peers
  <1>5. /\ [Heard(m, i) EXCEPT !.active = FALSE] \in Peers
        /\ [Heard(m, i) EXCEPT !.hasState = TRUE] \in Peers
        /\ [Heard(m, i) EXCEPT !.control = m.sequence] \in Peers
    BY <1>1, <1>4 DEF Peers
  <1> QED
    BY <1>1, <1>4, <1>5

LEMMA HelloType ==
    ASSUME TypeOK, NEW m \in toServer, m.type = "HELLO"
    PROVE  m.from \in Clients /\ m.nonce \in Nonces
  BY DEF TypeOK, ToServer

-----------------------------------------------------------------------------
(* Type correctness *)

LEMMA InitType == Init => TypeOK
  <1> SUFFICES ASSUME Init PROVE TypeOK
    OBVIOUS
  <1>1. peer \in [Slots -> Peers] /\ Active = {}
    BY EmptySlotType DEF Init, Active
  <1>2. /\ client \in [Clients -> ClientStates]
        /\ \A c \in Clients : ~Connected(c)
    <2> SUFFICES ASSUME NEW c \in Clients PROVE client[c] \in ClientStates /\ ~Connected(c)
      BY DEF Init
    <2>1. PICK n \in Nonces : client[c] = NewClient(n)
      BY DEF Init
    <2> QED
      BY <2>1, BoundsAssumption DEF NewClient, ClientStates, Modes, Connected
  <1>3. taken \in [Clients -> Seq(Nat)]
    BY DEF Init
  <1> QED
    BY <1>1, <1>2, <1>3 DEF Init, TypeOK

(* What a host action on a packet may do to the table, one slot at a time. *)
SlotChange(i, p) ==
    /\ p \in Peers
    /\ p.active => p.addr \in Clients /\ p.token \in Tokens
    /\ peer' = [peer EXCEPT ![i] = p]

LEMMA SlotChangeType ==
    ASSUME TypeOK, NEW i \in Slots, NEW p, SlotChange(i, p)
    PROVE  /\ peer' \in [Slots -> Peers]
           /\ \A j \in Active' : peer'[j].addr \in Clients /\ peer'[j].token \in Tokens
  <1>1. peer' \in [Slots -> Peers] /\ peer'[i] = p /\ \A j \in Slots : j # i => peer'[j] = peer[j]
    BY DEF TypeOK, SlotChange
  <1> QED
    BY <1>1 DEF TypeOK, SlotChange, Active

LEMMA ConsumeKeeps == ASSUME NEW net, NEW m PROVE Consume(net, m) \subseteq net
  BY DEF Consume

(* A step of the host that leaves the sockets alone preserves the type when
   it changes one slot, at most, adds well-formed answers and logs numbers. *)
LEMMA HostStepType ==
    ASSUME TypeOK, UNCHANGED <<info, tick, client>>,
           toServer' \subseteq toServer,
           toClient' \subseteq ToClient,
           taken' \in [Clients -> Seq(Nat)],
           \/ UNCHANGED peer
           \/ \E i \in Slots, p \in Peers : SlotChange(i, p)
    PROVE  TypeOK'
  <1>1. /\ peer' \in [Slots -> Peers]
        /\ \A j \in Active' : peer'[j].addr \in Clients /\ peer'[j].token \in Tokens
    <2>1. CASE UNCHANGED peer
      BY <2>1 DEF TypeOK, Active
    <2>2. CASE \E i \in Slots, p \in Peers : SlotChange(i, p)
      BY <2>2, SlotChangeType
    <2> QED
      BY <2>1, <2>2
  <1>2. \A c \in Clients : Connected(c)' => client'[c].token \in Tokens
    BY DEF TypeOK, Connected
  <1> QED
    BY <1>1, <1>2 DEF TypeOK

LEMMA HelloStepType ==
    ASSUME TypeOK, NEW m \in toServer, m.type = "HELLO", Hello(m),
           UNCHANGED client, toServer' = Consume(toServer, m)
    PROVE  TypeOK'
  <1> USE HelloType, ConsumeKeeps
  <1>1. toServer' \subseteq toServer
    OBVIOUS
  <1>2. taken \in [Clients -> Seq(Nat)] /\ toClient \subseteq ToClient
    BY DEF TypeOK
  <1>r. ASSUME NEW reason \in Reasons, Reject(m, reason) PROVE TypeOK'
    <2>1. toClient' \subseteq ToClient
      BY <1>r, <1>2 DEF Reject, Reply, ToClient
    <2> QED
      BY <1>r, <1>1, <1>2, <2>1, HostStepType DEF Reject, serverVars
  <1>w. ASSUME NEW i \in Slots, NEW t \in Tokens, Welcome(m, i, t) PROVE toClient' \subseteq ToClient
    BY <1>w, <1>2 DEF Welcome, Reply, ToClient
  <1>3. CASE HelloRefused(m)
    BY <1>3, <1>r DEF HelloRefused, Refusal, Reasons
  <1>4. CASE HelloFull(m)
    BY <1>4, <1>r DEF HelloFull, Reasons
  <1>5. CASE HelloJoins(m)
    <2>1. PICK i \in Slots, t \in Tokens :
              peer' = [peer EXCEPT ![i] = NewPeer(m.from, m.nonce, t)] /\ Welcome(m, i, t)
      BY <1>5 DEF HelloJoins
    <2>2. SlotChange(i, NewPeer(m.from, m.nonce, t)) /\ NewPeer(m.from, m.nonce, t) \in Peers
      BY <2>1, NewPeerType DEF SlotChange
    <2> QED
      BY <1>1, <1>2, <1>5, <1>w, <2>1, <2>2, HostStepType DEF HelloJoins
  <1>6. CASE HelloNoToken(m)
    <2>1. PICK i \in Slots : peer' = [peer EXCEPT ![i] = FreeSlot(m.from, m.nonce)]
      BY <1>6 DEF HelloNoToken
    <2>2. FreeSlot(m.from, m.nonce) \in Peers /\ ~FreeSlot(m.from, m.nonce).active
      BY FreeSlotType
    <2>3. SlotChange(i, FreeSlot(m.from, m.nonce))
      BY <2>1, <2>2 DEF SlotChange
    <2> QED
      BY <1>1, <1>2, <1>6, <2>2, <2>3, HostStepType DEF HelloNoToken
  <1>7. CASE HelloAgain(m)
    <2>1. PICK i \in Own(m.from) : peer' = [peer EXCEPT ![i].age = 0] /\ Welcome(m, i, peer[i].token)
      BY <1>7 DEF HelloAgain
    <2>2. i \in Slots /\ i \in Active /\ peer[i] \in Peers /\ peer[i].token \in Tokens /\ peer[i].addr \in Clients
      BY DEF Own, Active, TypeOK
    <2>3. 0 \in 0..Silence
      BY BoundsAssumption
    <2>4. [peer[i] EXCEPT !.age = 0] \in Peers
      BY <2>2, <2>3 DEF Peers
    <2>5. SlotChange(i, [peer[i] EXCEPT !.age = 0])
      BY <2>1, <2>2, <2>4 DEF SlotChange, TypeOK, Peers
    <2> QED
      BY <1>1, <1>2, <1>7, <1>w, <2>1, <2>2, <2>4, <2>5, HostStepType DEF HelloAgain
  <1>8. CASE HelloOfAnotherNonce(m)
    BY <1>1, <1>2, <1>8, HostStepType DEF HelloOfAnotherNonce, serverVars
  <1> QED
    BY <1>3, <1>4, <1>5, <1>6, <1>7, <1>8 DEF Hello

LEMMA FromPeerStepType ==
    ASSUME TypeOK, NEW m \in toServer, m.type # "HELLO", FromPeer(m),
           UNCHANGED client, toServer' = Consume(toServer, m)
    PROVE  TypeOK'
  <1>1. toServer' \subseteq toServer
    BY ConsumeKeeps
  <1>2. taken \in [Clients -> Seq(Nat)] /\ toClient \subseteq ToClient /\ m.from \in Clients
    BY HeardType, SlotsFacts DEF TypeOK, ToServer
  <1>3. CASE Stale(m)
    BY <1>1, <1>2, <1>3, HostStepType DEF Stale, serverVars
  <1>4. ASSUME NEW i \in Own(m.from), UNCHANGED <<info, tick>>,
               Disconnect(m, i) \/ Ping(m, i) \/ Input(m, i) \/ Control(m, i)
        PROVE  TypeOK'
    <2>1. i \in Slots /\ i \in Active /\ peer[i].addr \in Clients /\ peer[i].token \in Tokens
      BY DEF Own, Active, TypeOK
    <2>2. ASSUME NEW p \in Peers, p.addr = peer[i].addr, p.token = peer[i].token,
                 peer' = [peer EXCEPT ![i] = p]
          PROVE  SlotChange(i, p)
      BY <2>1, <2>2 DEF SlotChange
    <2>3. CASE Disconnect(m, i)
      <3> DEFINE p == [Heard(m, i) EXCEPT !.active = FALSE]
      <3>1. p \in Peers /\ p.addr = peer[i].addr /\ p.token = peer[i].token
        BY <2>1, HeardType DEF Peers
      <3>2. SlotChange(i, p)
        BY <2>2, <2>3, <3>1 DEF Disconnect
      <3> QED
        BY <1>1, <1>2, <1>4, <2>1, <2>3, <3>1, <3>2, HostStepType DEF Disconnect
    <2>4. CASE Ping(m, i)
      <3>1. SlotChange(i, Heard(m, i)) /\ Heard(m, i) \in Peers
        BY <2>1, <2>2, <2>4, HeardType DEF Ping
      <3>2. toClient' \subseteq ToClient
        BY <1>2, <2>4 DEF Ping, Reply, ToClient
      <3> QED
        BY <1>1, <1>2, <1>4, <2>1, <2>4, <3>1, <3>2, HostStepType DEF Ping
    <2>5. CASE Input(m, i)
      <3> DEFINE p == [Heard(m, i) EXCEPT !.hasState = TRUE]
      <3>h. Heard(m, i) \in Peers /\ Heard(m, i).addr = peer[i].addr /\ Heard(m, i).token = peer[i].token
        BY <2>1, HeardType
      <3>1. p \in Peers /\ p.addr = peer[i].addr /\ p.token = peer[i].token
        BY <3>h DEF Peers
      <3>2. SlotChange(i, p)
        BY <2>2, <2>5, <3>1 DEF Input
      <3> QED
        BY <1>1, <1>2, <1>4, <2>1, <2>5, <3>1, <3>2, HostStepType DEF Input
    <2>6. CASE Control(m, i)
      <3> DEFINE p == [Heard(m, i) EXCEPT !.control = m.sequence]
      <3>h. /\ Heard(m, i) \in Peers /\ Heard(m, i).addr = peer[i].addr
            /\ Heard(m, i).token = peer[i].token /\ m.sequence \in Nat
        BY <2>1, HeardType
      <3>1. /\ p \in Peers /\ p.addr = peer[i].addr /\ p.token = peer[i].token
            /\ m.sequence \in Nat
        BY <3>h DEF Peers
      <3>2. SlotChange(i, p)
        BY <2>2, <2>6, <3>1 DEF Control
      <3>3. taken' \in [Clients -> Seq(Nat)]
        BY <1>2, <2>6, <3>1 DEF Control
      <3> QED
        BY <1>1, <1>2, <1>4, <2>1, <2>6, <3>1, <3>2, <3>3, HostStepType DEF Control
    <2> QED
      BY <1>4, <2>3, <2>4, <2>5, <2>6
  <1> QED
    BY <1>3, <1>4 DEF FromPeer

(* A step of one socket: its own record, and packets that it may send. *)
LEMMA SocketStepType ==
    ASSUME TypeOK, UNCHANGED <<peer, info, tick, taken>>,
           toServer' \subseteq ToServer, toClient' \subseteq toClient,
           NEW c \in Clients, NEW r \in ClientStates,
           r.mode = "connected" => r.token \in Tokens,
           client' = [client EXCEPT ![c] = r]
    PROVE  TypeOK'
  <1>1. client' \in [Clients -> ClientStates] /\ client'[c] = r
        /\ \A d \in Clients : d # c => client'[d] = client[d]
    BY DEF TypeOK
  <1>2. \A d \in Clients : Connected(d)' => client'[d].token \in Tokens
    BY <1>1 DEF TypeOK, Connected
  <1>3. Active' = Active
    BY DEF Active
  <1> QED
    BY <1>1, <1>2, <1>3 DEF TypeOK

LEMMA ClientPacketStepType ==
    ASSUME TypeOK, NEW m \in toClient, ClientPacket(m)
    PROVE  TypeOK'
  <1> DEFINE c == m.to
  <1>1. /\ c \in Clients /\ client[c] \in ClientStates
        /\ Connected(c) => client[c].token \in Tokens
        /\ toServer' \subseteq ToServer /\ toClient' \subseteq toClient
        /\ UNCHANGED <<peer, info, tick, taken>>
    BY ConsumeKeeps DEF ClientPacket, TypeOK, ToClient, serverVars
  <1>2. 0 \in 0..Silence
    BY BoundsAssumption
  <1>3. CASE Rejected(c, m)
    <2> DEFINE r == [client[c] EXCEPT !.reject = m.reason]
    <2>1. m.reason \in Reasons
      BY <1>3 DEF Rejected, TypeOK, ToClient
    <2>2. r \in ClientStates /\ r.mode # "connected"
      BY <1>1, <1>3, <2>1 DEF Rejected, ClientStates
    <2>3. client' = [client EXCEPT ![c] = r]
      BY <1>3 DEF Rejected
    <2> QED
      BY <1>1, <2>2, <2>3, SocketStepType
  <1>4. CASE Welcomed(c, m)
    <2> DEFINE r == [client[c] EXCEPT !.mode = "connected", !.id = m.id, !.token = m.token,
                                      !.reject = "none", !.quiet = 0]
    <2>1. m.id \in Slots /\ m.token \in Tokens
      BY <1>4 DEF Welcomed, TypeOK, ToClient
    <2>2. r \in ClientStates /\ r.token \in Tokens
      BY <1>1, <1>2, <2>1 DEF ClientStates, Modes
    <2>3. client' = [client EXCEPT ![c] = r]
      BY <1>4 DEF Welcomed
    <2> QED
      BY <1>1, <2>2, <2>3, SocketStepType
  <1>5. CASE Ponged(c, m)
    <2> DEFINE r == [client[c] EXCEPT !.quiet = 0]
    <2>1. r \in ClientStates /\ r.token = client[c].token /\ r.mode = client[c].mode
      BY <1>1, <1>2 DEF ClientStates
    <2>2. client' = [client EXCEPT ![c] = r]
      BY <1>5 DEF Ponged
    <2> QED
      BY <1>1, <2>1, <2>2, SocketStepType DEF Connected
  <1>6. CASE Snapped(c, m)
    <2> DEFINE r == IF Newer(c, m)
                    THEN [client[c] EXCEPT !.quiet = 0, !.snapshot = m.tick, !.present = m.present]
                    ELSE [client[c] EXCEPT !.quiet = 0]
    <2>1. m.tick \in Nat /\ m.present \subseteq Slots
      BY <1>6 DEF Snapped, TypeOK, ToClient
    <2>2. r \in ClientStates /\ r.token = client[c].token /\ r.mode = client[c].mode
      BY <1>1, <1>2, <2>1 DEF ClientStates
    <2>3. client' = [client EXCEPT ![c] = r]
      BY <1>6 DEF Snapped
    <2> QED
      BY <1>1, <2>2, <2>3, SocketStepType DEF Connected
  <1>7. CASE Ignored(c, m)
    <2> DEFINE r == [client[c] EXCEPT !.quiet = IF Connected(c) THEN 0 ELSE @]
    <2>1. r \in ClientStates /\ r.token = client[c].token /\ r.mode = client[c].mode
      BY <1>1, <1>2 DEF ClientStates
    <2>2. client' = [client EXCEPT ![c] = r]
      BY <1>7 DEF Ignored
    <2> QED
      BY <1>1, <2>1, <2>2, SocketStepType DEF Connected
  <1> QED
    BY <1>3, <1>4, <1>5, <1>6, <1>7 DEF ClientPacket

LEMMA TypeStep == TypeOK /\ [Next]_vars => TypeOK'
  <1> SUFFICES ASSUME TypeOK, [Next]_vars PROVE TypeOK'
    OBVIOUS
  <1> USE BoundsAssumption
  <1>1. ASSUME NEW m \in toServer, ServerPacket(m) PROVE TypeOK'
    BY <1>1, HelloStepType, FromPeerStepType DEF ServerPacket
  <1>2. ASSUME NEW i \in Slots, PeerTimeout(i) PROVE TypeOK'
    <2> DEFINE p == [peer[i] EXCEPT !.active = FALSE]
    <2>1. p \in Peers /\ ~p.active
      BY DEF TypeOK, Peers
    <2>2. SlotChange(i, p)
      BY <1>2, <2>1 DEF PeerTimeout, SlotChange
    <2>3. taken' \in [Clients -> Seq(Nat)] /\ toClient' \subseteq ToClient /\ toServer' \subseteq toServer
      BY <1>2 DEF PeerTimeout, TypeOK
    <2> QED
      BY <1>2, <2>1, <2>2, <2>3, HostStepType DEF PeerTimeout
  <1>3. CASE Snapshot
    <2>1. tick' \in Nat
      BY <1>3 DEF Snapshot, TypeOK
    <2>2. toClient' \subseteq ToClient
      <3>1. ASSUME NEW i \in Active
            PROVE  [type |-> "SNAPSHOT", to |-> peer[i].addr, tick |-> tick',
                    present |-> {j \in Active : peer[j].hasState}] \in ToClient
        BY <2>1 DEF TypeOK, Active, ToClient
      <3> QED
        BY <1>3, <3>1 DEF Snapshot, TypeOK
    <2>3. Active' = Active /\ \A c \in Clients : Connected(c)' = Connected(c)
      BY <1>3 DEF Snapshot, Active, Connected
    <2> QED
      BY <1>3, <2>1, <2>2, <2>3 DEF Snapshot, TypeOK
  <1>4. ASSUME NEW c \in Clients, SendHello(c) PROVE TypeOK'
    <2>1. toServer' \subseteq ToServer
      BY <1>4 DEF SendHello, TypeOK, ToServer, ClientStates
    <2>2. Active' = Active /\ \A d \in Clients : Connected(d)' = Connected(d)
      BY <1>4 DEF SendHello, Active, Connected, serverVars
    <2> QED
      BY <1>4, <2>1, <2>2 DEF SendHello, TypeOK, serverVars
  <1>5. ASSUME NEW c \in Clients, Close(c) PROVE TypeOK'
    <2> DEFINE q == IF Connected(c) THEN client[c].sequence + 1 ELSE client[c].sequence
               r == [client[c] EXCEPT !.mode = "closed", !.sequence = q]
    <2>0. client[c] \in ClientStates /\ q \in Nat
      BY DEF TypeOK, ClientStates
    <2>2. client' = [client EXCEPT ![c] = r]
      BY <1>5 DEF Close
    <2> HIDE DEF q
    <2>1. r \in ClientStates /\ r.mode # "connected" /\ r.sequence \in Nat
      BY <2>0 DEF ClientStates, Modes
    <2>3. client'[c].sequence \in Nat
      BY <2>1, <2>2 DEF TypeOK
    <2>4. toServer' \subseteq ToServer
      BY <1>5, <2>3 DEF Close, TypeOK, ToServer
    <2> QED
      BY <1>5, <2>1, <2>2, <2>4, SocketStepType DEF Close, serverVars
  <1>6. ASSUME NEW c \in Clients, ClientTimeout(c) PROVE TypeOK'
    <2>1. PICK n \in Nonces :
              client' = [client EXCEPT ![c] = [NewClient(n) EXCEPT !.sequence = client[c].sequence]]
      BY <1>6 DEF ClientTimeout
    <2>2. NewClient(n) \in ClientStates /\ NewClient(n).mode # "connected"
      BY DEF NewClient, ClientStates, Modes
    <2> DEFINE r == [NewClient(n) EXCEPT !.sequence = client[c].sequence]
    <2>3. r \in ClientStates /\ r.mode # "connected"
      BY <2>2 DEF TypeOK, ClientStates
    <2>4. toServer' \subseteq ToServer
      BY <1>6 DEF ClientTimeout, TypeOK
    <2> QED
      BY <1>6, <2>1, <2>3, <2>4, SocketStepType DEF ClientTimeout, serverVars
  <1>7. ASSUME NEW c \in Clients, NEW type \in Traffic \ {"SNAPSHOT"}, SendData(c, type)
        PROVE  TypeOK'
    <2> DEFINE r == [client[c] EXCEPT !.sequence = @ + 1]
    <2>0. client[c] \in ClientStates
      BY DEF TypeOK
    <2>1. /\ r \in ClientStates /\ r.sequence \in Nat
          /\ r.mode = client[c].mode /\ r.token = client[c].token
      BY <2>0 DEF ClientStates
    <2>2. client' = [client EXCEPT ![c] = r] /\ client[c].token \in Tokens
      BY <1>7 DEF SendData, TypeOK
    <2>3. client'[c].sequence \in Nat /\ type \in {"PING", "INPUT", "CONTROL", "DISCONNECT"}
      BY <2>1, <2>2 DEF TypeOK
    <2>4. toServer' \subseteq ToServer
      BY <1>7, <2>2, <2>3 DEF SendData, TypeOK, ToServer
    <2> QED
      BY <1>7, <2>1, <2>2, <2>4, SocketStepType DEF SendData, serverVars
  <1>8. ASSUME NEW m \in toClient, ClientPacket(m) PROVE TypeOK'
    BY <1>8, ClientPacketStepType
  <1>9. CASE Elapse
    <2>1. ASSUME NEW n \in 0..Silence PROVE Older(n) \in 0..Silence
      BY DEF Older
    <2>2. peer' \in [Slots -> Peers] /\ Active' = Active
          /\ \A i \in Slots : peer'[i].addr = peer[i].addr /\ peer'[i].token = peer[i].token
      <3> DEFINE p(i) == [peer[i] EXCEPT !.age = IF peer[i].active THEN Older(@) ELSE @]
      <3>1. peer' = [i \in Slots |-> p(i)]
        BY <1>9 DEF Elapse
      <3>2. ASSUME NEW i \in Slots
            PROVE  /\ p(i) \in Peers /\ p(i).active = peer[i].active
                   /\ p(i).addr = peer[i].addr /\ p(i).token = peer[i].token
        <4>1. peer[i] \in Peers
          BY DEF TypeOK
        <4> QED
          BY <2>1, <4>1 DEF Peers
      <3> HIDE DEF p
      <3>3. peer' \in [Slots -> Peers] /\ \A i \in Slots : peer'[i] = p(i)
        BY <3>1, <3>2
      <3> QED
        BY <3>2, <3>3 DEF Active
    <2>3. client' \in [Clients -> ClientStates]
          /\ \A c \in Clients : client'[c].mode = client[c].mode /\ client'[c].token = client[c].token
      <3> DEFINE r(c) == [client[c] EXCEPT !.quiet = IF Connected(c) THEN Older(@) ELSE @]
      <3>1. client' = [c \in Clients |-> r(c)]
        BY <1>9 DEF Elapse
      <3>2. ASSUME NEW c \in Clients
            PROVE  r(c) \in ClientStates /\ r(c).mode = client[c].mode /\ r(c).token = client[c].token
        <4>1. client[c] \in ClientStates
          BY DEF TypeOK
        <4> QED
          BY <2>1, <4>1 DEF ClientStates
      <3> HIDE DEF r
      <3> QED
        BY <3>1, <3>2
    <2>4. \A i \in Active' : peer'[i].addr \in Clients /\ peer'[i].token \in Tokens
      BY <2>2 DEF TypeOK, Active
    <2>5. \A c \in Clients : Connected(c)' => client'[c].token \in Tokens
      BY <2>3 DEF TypeOK, Connected
    <2> QED
      BY <1>9, <2>2, <2>3, <2>4, <2>5 DEF Elapse, TypeOK
  <1>10. CASE Lose
    <2>1. Active' = Active /\ \A c \in Clients : Connected(c)' = Connected(c)
      BY <1>10 DEF Lose, serverVars, Active, Connected
    <2> QED
      BY <1>10, <2>1 DEF Lose, serverVars, TypeOK
  <1>11. CASE UNCHANGED vars
    BY <1>11 DEF vars, TypeOK, Active, Connected
  <1> QED
    BY <1>1, <1>2, <1>3, <1>4, <1>5, <1>6, <1>7, <1>8, <1>9, <1>10, <1>11 DEF Next

(* Every table, record and packet of a reachable state is well formed: an
   occupied slot has an address and a token, a connected joiner a token. *)
THEOREM TypeInvariant == Spec => []TypeOK
  <1>1. Init => TypeOK
    BY InitType
  <1>2. TypeOK /\ [Next]_vars => TypeOK'
    BY TypeStep
  <1> QED
    BY <1>1, <1>2, PTL DEF Spec

-----------------------------------------------------------------------------
(* One slot per address, one user per identity: only a join can break them. *)

Unique == OneSlotPerAddress /\ OneUserPerIdentity

NoNewcomer ==
    \A i \in Active' : /\ i \in Active
                       /\ peer'[i].addr = peer[i].addr
                       /\ peer'[i].token = peer[i].token

Joins(m) ==
    /\ m \in toServer /\ m.type = "HELLO" /\ HelloJoins(m)
    /\ toServer' = Consume(toServer, m) /\ UNCHANGED client

(* Replacing an occupied slot's record by one of the same player, or by a
   free slot, brings no newcomer. *)
LEMMA NoNewcomerBySlot ==
    ASSUME TypeOK, NEW i \in Slots, NEW p, peer' = [peer EXCEPT ![i] = p],
           p.active => i \in Active /\ p.addr = peer[i].addr /\ p.token = peer[i].token
    PROVE  NoNewcomer
  BY DEF NoNewcomer, Active, TypeOK

LEMMA OnlyJoinsBring ==
    ASSUME TypeOK, [Next]_vars
    PROVE  NoNewcomer \/ \E m \in toServer : Joins(m)
  <1>s. ASSUME UNCHANGED peer PROVE NoNewcomer
    BY <1>s DEF NoNewcomer, Active
  <1>1. ASSUME NEW m \in toServer, m.type = "HELLO", ServerPacket(m) PROVE NoNewcomer \/ Joins(m)
    <2>1. CASE HelloRefused(m) \/ HelloFull(m) \/ HelloOfAnotherNonce(m)
      BY <1>s, <2>1 DEF HelloRefused, HelloFull, HelloOfAnotherNonce, Reject, serverVars
    <2>2. CASE HelloJoins(m)
      BY <1>1, <2>2 DEF Joins, ServerPacket
    <2>3. CASE HelloNoToken(m)
      <3>1. PICK i \in Slots : peer' = [peer EXCEPT ![i] = FreeSlot(m.from, m.nonce)]
        BY <2>3 DEF HelloNoToken
      <3>2. ~FreeSlot(m.from, m.nonce).active
        BY <1>1, HelloType, FreeSlotType
      <3> QED
        BY <3>1, <3>2, NoNewcomerBySlot
    <2>4. CASE HelloAgain(m)
      <3>1. PICK i \in Own(m.from) : peer' = [peer EXCEPT ![i].age = 0]
        BY <2>4 DEF HelloAgain
      <3> DEFINE p == [peer[i] EXCEPT !.age = 0]
      <3>2. i \in Slots /\ i \in Active /\ p.addr = peer[i].addr /\ p.token = peer[i].token
        BY DEF Own, Active, TypeOK, Peers
      <3> QED
        BY <3>1, <3>2, NoNewcomerBySlot
    <2> QED
      BY <1>1, <2>1, <2>2, <2>3, <2>4 DEF ServerPacket, Hello
  <1>2. ASSUME NEW m \in toServer, m.type # "HELLO", ServerPacket(m) PROVE NoNewcomer
    <2>1. CASE Stale(m)
      BY <1>s, <2>1 DEF Stale, serverVars
    <2>2. ASSUME NEW i \in Own(m.from), Disconnect(m, i) \/ Ping(m, i) \/ Input(m, i) \/ Control(m, i)
          PROVE  NoNewcomer
      <3>1. i \in Slots /\ i \in Active
        BY DEF Own, Active
      <3>2. /\ Heard(m, i) \in Peers
            /\ Heard(m, i).addr = peer[i].addr /\ Heard(m, i).token = peer[i].token
        BY <1>2, <3>1, HeardType
      <3>3. PICK p : /\ peer' = [peer EXCEPT ![i] = p]
                     /\ \/ p = [Heard(m, i) EXCEPT !.active = FALSE]
                        \/ p = Heard(m, i)
                        \/ p = [Heard(m, i) EXCEPT !.hasState = TRUE]
                        \/ p = [Heard(m, i) EXCEPT !.control = m.sequence]
        BY <2>2 DEF Disconnect, Ping, Input, Control
      <3>4. p.addr = peer[i].addr /\ p.token = peer[i].token
        BY <3>2, <3>3 DEF Peers
      <3> QED
        BY <3>1, <3>3, <3>4, NoNewcomerBySlot
    <2> QED
      BY <1>2, <2>1, <2>2 DEF ServerPacket, FromPeer
  <1>3. ASSUME NEW i \in Slots, PeerTimeout(i) PROVE NoNewcomer
    <2> DEFINE p == [peer[i] EXCEPT !.active = FALSE]
    <2>1. ~p.active
      BY DEF TypeOK, Peers
    <2> QED
      BY <1>3, <2>1, NoNewcomerBySlot DEF PeerTimeout
  <1>4. CASE Elapse
    <2>1. \A i \in Slots : peer'[i].active = peer[i].active /\ peer'[i].addr = peer[i].addr
                           /\ peer'[i].token = peer[i].token
      BY <1>4 DEF Elapse, TypeOK, Peers
    <2> QED
      BY <2>1 DEF NoNewcomer, Active
  <1>5. CASE UNCHANGED peer
    BY <1>5, <1>s
  <1> QED
    BY <1>1, <1>2, <1>3, <1>4, <1>5
    DEF Next, vars, Snapshot, SendHello, Close, ClientTimeout, SendData, ClientPacket, Lose, serverVars

LEMMA UniqueStep == TypeOK /\ Unique /\ [Next]_vars => Unique'
  <1> SUFFICES ASSUME TypeOK, Unique, [Next]_vars PROVE Unique'
    OBVIOUS
  <1>1. CASE NoNewcomer
    BY <1>1 DEF Unique, OneSlotPerAddress, OneUserPerIdentity, NoNewcomer, Keyed
  <1>2. ASSUME NEW m \in toServer, Joins(m) PROVE Unique'
    <2>1. PICK i \in Slots, t \in Tokens :
              Newcomer(m, i) /\ peer' = [peer EXCEPT ![i] = NewPeer(m.from, m.nonce, t)]
      BY <1>2 DEF Joins, HelloJoins
    <2>2. /\ peer'[i].addr = m.from
          /\ \A j \in Active' : j = i \/ (j \in Active /\ peer'[j] = peer[j])
      BY <1>2, <2>1, NewPeerType, HelloType DEF TypeOK, Active, Joins
    <2>3. \A j \in Active : peer[j].addr # m.from
      BY <2>1 DEF Newcomer, Own
    <2>4. \A j \in Active : Keyed(m.from) => Identity[peer[j].addr] # Identity[m.from]
      BY <2>1, <2>3 DEF Newcomer, Refusal, IdentityInUse, Own
    <2>5. OneSlotPerAddress'
      BY <2>2, <2>3 DEF Unique, OneSlotPerAddress
    <2>6. OneUserPerIdentity'
      BY <2>2, <2>4 DEF Unique, OneUserPerIdentity, Keyed
    <2> QED
      BY <2>5, <2>6 DEF Unique
  <1> QED
    BY <1>1, <1>2, OnlyJoinsBring

LEMMA UniqueAlways == Spec => [](TypeOK /\ Unique)
  <1>1. Init => TypeOK /\ Unique
    <2>1. Init => Active = {}
      BY EmptySlotType DEF Init, Active
    <2> QED
      BY <2>1, InitType DEF Unique, OneSlotPerAddress, OneUserPerIdentity
  <1>2. TypeOK /\ Unique /\ [Next]_vars => (TypeOK /\ Unique)'
    BY TypeStep, UniqueStep
  <1> QED
    BY <1>1, <1>2, PTL DEF Spec

(* However HELLOs are repeated, reordered or late, one socket never holds two
   slots: find_peer's first match is the only one. *)
THEOREM SlotPerAddress == Spec => []OneSlotPerAddress
  BY UniqueAlways, PTL DEF Unique

(* No two active peers ever play with the same nonzero identity key. *)
THEOREM UserPerIdentity == Spec => []OneUserPerIdentity
  BY UniqueAlways, PTL DEF Unique

-----------------------------------------------------------------------------
(* Who may come in *)

LEMMA InfoStays == [Next]_vars => UNCHANGED info
  BY DEF Next, vars, ServerPacket, Hello, HelloRefused, HelloFull, HelloJoins, HelloNoToken,
      HelloAgain, HelloOfAnotherNonce, Reject, FromPeer, Stale, PeerTimeout, Snapshot, SendHello,
      Close, ClientTimeout, SendData, ClientPacket, Elapse, Lose, serverVars

LEMMA ActiveIsFinite == IsFiniteSet(Active) /\ Cardinality(Active) \in Nat
  <1>1. IsFiniteSet(Slots)
    BY PlayersAssumption, FS_Interval DEF Slots
  <1> QED
    BY <1>1, FS_Subset, FS_CardinalityType DEF Active

LEMMA CapStep == TypeOK /\ WithinCap /\ [Next]_vars => WithinCap'
  <1> SUFFICES ASSUME TypeOK, WithinCap, [Next]_vars PROVE WithinCap'
    OBVIOUS
  <1>1. Cap' = Cap /\ Cap \in Nat
    BY InfoStays, PlayersAssumption DEF Cap, TypeOK
  <1>2. CASE NoNewcomer
    <2>1. Active' \subseteq Active
      BY <1>2 DEF NoNewcomer
    <2>2. Cardinality(Active') <= Cardinality(Active) /\ Cardinality(Active') \in Nat
      BY <2>1, ActiveIsFinite, FS_Subset, FS_CardinalityType
    <2> QED
      BY <1>1, <2>2, ActiveIsFinite DEF WithinCap
  <1>3. ASSUME NEW m \in toServer, Joins(m) PROVE WithinCap'
    <2>1. PICK i \in Slots, t \in Tokens :
              Newcomer(m, i) /\ peer' = [peer EXCEPT ![i] = NewPeer(m.from, m.nonce, t)]
      BY <1>3 DEF Joins, HelloJoins
    <2>2. Active' \subseteq Active \cup {i} /\ i \notin Active
      BY <2>1 DEF Active, TypeOK, Newcomer, FirstFree
    <2>3. IsFiniteSet(Active \cup {i}) /\ Cardinality(Active \cup {i}) = Cardinality(Active) + 1
      BY <2>2, ActiveIsFinite, FS_AddElement
    <2>4. Cardinality(Active') <= Cardinality(Active) + 1 /\ Cardinality(Active') \in Nat
      BY <2>2, <2>3, FS_Subset, FS_CardinalityType
    <2>5. Cardinality(Active) < Cap
      BY <2>1 DEF Newcomer
    <2> QED
      BY <1>1, <2>4, <2>5, ActiveIsFinite DEF WithinCap
  <1> QED
    BY <1>2, <1>3, OnlyJoinsBring

(* However joins, failed tokens, timeouts and rejoins follow each other, there
   are never more players than the host's limit. *)
THEOREM PlayerLimit == Spec => []WithinCap
  <1>1. Init => WithinCap
    <2> SUFFICES ASSUME Init PROVE WithinCap
      OBVIOUS
    <2>1. Active = {} /\ Cap \in Nat
      BY EmptySlotType, PlayersAssumption DEF Init, Active, Cap
    <2> QED
      BY <2>1, FS_EmptySet DEF WithinCap
  <1>2. TypeOK /\ WithinCap /\ [Next]_vars => WithinCap'
    BY CapStep
  <1> QED
    BY <1>1, <1>2, TypeInvariant, PTL DEF Spec

(* What keeps an unfit joiner out: no slot, no connection, and no WELCOME that
   could still make one. *)
Outside(c) ==
    /\ Own(c) = {} /\ ~Connected(c)
    /\ \A m \in toClient : m.type = "WELCOME" => m.to # c

LEMMA WelcomesAreFit ==
    ASSUME TypeOK, [Next]_vars, NEW w \in toClient', w \notin toClient, w.type = "WELCOME"
    PROVE  w.to \notin Unfit
  <1>1. ASSUME NEW m \in toServer, m.type = "HELLO", ServerPacket(m) PROVE w.to \notin Unfit
    <2>1. CASE HelloJoins(m) \/ HelloAgain(m)
      <3>1. Refusal(m.from) = "none"
        BY <2>1 DEF HelloJoins, HelloAgain, Newcomer
      <3>2. w.to = m.from
        BY <2>1 DEF HelloJoins, HelloAgain, Welcome, Reply
      <3> QED
        BY <3>1, <3>2 DEF Refusal
    <2>2. CASE HelloRefused(m) \/ HelloFull(m)
      BY <2>2 DEF HelloRefused, HelloFull, Reject, Reply
    <2>3. CASE HelloNoToken(m) \/ HelloOfAnotherNonce(m)
      BY <2>3 DEF HelloNoToken, HelloOfAnotherNonce
    <2> QED
      BY <1>1, <2>1, <2>2, <2>3 DEF ServerPacket, Hello
  <1>2. ASSUME NEW m \in toServer, m.type # "HELLO", ServerPacket(m) PROVE FALSE
    BY <1>2 DEF ServerPacket, FromPeer, Stale, Disconnect, Ping, Input, Control, Reply
  <1>3. CASE Snapshot
    BY <1>3 DEF Snapshot
  <1>4. ASSUME NEW m \in toClient, ClientPacket(m) PROVE FALSE
    BY <1>4, ConsumeKeeps DEF ClientPacket
  <1> QED
    BY <1>1, <1>2, <1>3, <1>4
    DEF Next, vars, PeerTimeout, SendHello, Close, ClientTimeout, SendData, Elapse, Lose

LEMMA OnlyWelcomeConnects ==
    ASSUME TypeOK, [Next]_vars, NEW c \in Clients, Connected(c)', ~Connected(c)
    PROVE  \E m \in toClient : m.type = "WELCOME" /\ m.to = c
  <1>0. client \in [Clients -> ClientStates]
    BY DEF TypeOK
  <1>1. ASSUME NEW m \in toClient, ClientPacket(m) PROVE m.type = "WELCOME" /\ m.to = c
    <2>1. m.to \in Clients
      BY DEF TypeOK, ToClient
    <2>2. ASSUME Rejected(m.to, m) \/ Ponged(m.to, m) \/ Snapped(m.to, m) \/ Ignored(m.to, m)
          PROVE  client'[c].mode = client[c].mode
      BY <1>0, <2>1, <2>2 DEF Rejected, Ponged, Snapped, Ignored, ClientStates
    <2>3. CASE Welcomed(m.to, m)
      BY <1>0, <2>1, <2>3 DEF Welcomed, ClientStates, Connected
    <2> QED
      BY <1>1, <2>2, <2>3 DEF ClientPacket, Connected
  <1>2. ASSUME NEW d \in Clients, NEW type \in Traffic \ {"SNAPSHOT"},
               SendHello(d) \/ Close(d) \/ ClientTimeout(d) \/ SendData(d, type)
        PROVE  FALSE
    BY <1>0, <1>2 DEF SendHello, Close, ClientTimeout, SendData, Connected, ClientStates, NewClient
  <1>3. CASE Elapse
    BY <1>0, <1>3 DEF Elapse, Connected, ClientStates
  <1>4. ASSUME NEW d \in Clients, SendHello(d) \/ Close(d) \/ ClientTimeout(d) PROVE FALSE
    BY <1>0, <1>4 DEF SendHello, Close, ClientTimeout, Connected, ClientStates, NewClient
  <1>5. CASE UNCHANGED client
    BY <1>5 DEF Connected
  <1> QED
    BY <1>1, <1>2, <1>3, <1>4, <1>5
    DEF Next, vars, ServerPacket, PeerTimeout, Snapshot, Lose

LEMMA OutsideStep ==
    ASSUME TypeOK, NEW c \in Unfit, Outside(c), [Next]_vars
    PROVE  Outside(c)'
  <1>0. c \in Clients
    BY IdentityAssumption
  <1>1. Own(c)' = {}
    <2>1. CASE NoNewcomer
      BY <2>1 DEF NoNewcomer, Outside, Own
    <2>2. ASSUME NEW m \in toServer, Joins(m) PROVE Own(c)' = {}
      <3>1. PICK i \in Slots, t \in Tokens :
                Newcomer(m, i) /\ peer' = [peer EXCEPT ![i] = NewPeer(m.from, m.nonce, t)]
        BY <2>2 DEF Joins, HelloJoins
      <3>2. m.from # c
        BY <3>1 DEF Newcomer, Refusal
      <3>3. peer'[i].addr = m.from
        BY <3>1 DEF TypeOK, NewPeer
      <3>4. \A j \in Active' : j = i \/ (j \in Active /\ peer'[j] = peer[j])
        BY <3>1 DEF TypeOK, Active
      <3> QED
        BY <3>2, <3>3, <3>4 DEF Outside, Own
    <2> QED
      BY <2>1, <2>2, OnlyJoinsBring
  <1>2. ~Connected(c)'
    BY <1>0, OnlyWelcomeConnects DEF Outside
  <1>3. \A m \in toClient' : m.type = "WELCOME" => m.to # c
    BY WelcomesAreFit DEF Outside
  <1> QED
    BY <1>1, <1>2, <1>3 DEF Outside

(* An unfit joiner, whose indices mean other things, never has a slot and is
   never told it has one, by no late or repeated packet either. *)
THEOREM UnfitKeptOut == Spec => []UnfitStayOut
  <1> DEFINE AllOutside == \A c \in Unfit : Outside(c)
  <1>1. Init => AllOutside
    <2> SUFFICES ASSUME Init, NEW c \in Unfit PROVE Outside(c)
      OBVIOUS
    <2>1. Own(c) = {} /\ toClient = {}
      BY EmptySlotType DEF Init, Own, Active
    <2>2. PICK n \in Nonces : client[c] = NewClient(n)
      BY IdentityAssumption DEF Init
    <2> QED
      BY <2>1, <2>2 DEF Outside, Connected, NewClient
  <1>2. TypeOK /\ AllOutside /\ [Next]_vars => AllOutside'
    BY OutsideStep
  <1>3. AllOutside => UnfitStayOut
    BY DEF Outside, UnfitStayOut
  <1> QED
    BY <1>1, <1>2, <1>3, TypeInvariant, PTL DEF Spec

-----------------------------------------------------------------------------
(* Controls act in order, across reconnects too *)

(* Steps that take no control and move no number: late, refused or lost
   packets, silences, answers. *)
SameNumbers ==
    /\ taken' = taken
    /\ toServer' \subseteq toServer \cup {m \in ToServer : m.type = "HELLO"}
    /\ \A c \in Clients : client'[c].sequence = client[c].sequence

LEMMA NumberedShrinks ==
    ASSUME SameNumbers, NEW c PROVE Numbered(c)' \subseteq Numbered(c)
  BY DEF SameNumbers, Numbered

LEMMA FrameOrder ==
    ASSUME TypeOK, OrderInv, SameNumbers, NoNewcomer,
           \A i \in Active' : peer'[i].last = peer[i].last
    PROVE  OrderInv'
  <1>1. ControlsInOrder'
    BY DEF OrderInv, ControlsInOrder, SameNumbers
  <1>2. NumbersGrow'
    BY NumberedShrinks DEF OrderInv, NumbersGrow, SameNumbers
  <1>3. TakenIsOld'
    BY NumberedShrinks DEF OrderInv, TakenIsOld, SameNumbers, NoNewcomer
  <1> QED
    BY <1>1, <1>2, <1>3 DEF OrderInv

LEMMA JoinOrder ==
    ASSUME TypeOK, OrderInv, NEW m \in toServer, Joins(m)
    PROVE  OrderInv'
  <1>1. PICK i \in Slots, t \in Tokens :
            FreshToken(t) /\ peer' = [peer EXCEPT ![i] = NewPeer(m.from, m.nonce, t)]
    BY DEF Joins, HelloJoins
  <1>2. /\ peer'[i].addr = m.from /\ peer'[i].token = t
        /\ \A j \in Active' : j = i \/ (j \in Active /\ peer'[j] = peer[j])
    BY <1>1, NewPeerType, HelloType DEF TypeOK, Active, Joins
  <1>3. SameNumbers
    BY ConsumeKeeps DEF Joins, HelloJoins, SameNumbers
  <1>4. \A n \in Numbered(m.from) : n.token # t
    BY <1>1 DEF FreshToken, Numbered
  <1>5. ControlsInOrder'
    BY <1>3 DEF OrderInv, ControlsInOrder, SameNumbers
  <1>6. NumbersGrow'
    BY <1>3, NumberedShrinks DEF OrderInv, NumbersGrow, SameNumbers
  <1>7. TakenIsOld'
    <2> SUFFICES ASSUME NEW j \in Active', NEW k \in DOMAIN taken'[peer'[j].addr],
                        ~(taken'[peer'[j].addr][k] <= peer'[j].last)
                 PROVE  \A n \in Numbered(peer[j].addr)' :
                            n.token = peer'[j].token => taken'[peer'[j].addr][k] < n.sequence
      BY DEF TakenIsOld
    <2>1. CASE j = i
      <3>1. Numbered(peer[i].addr)' \subseteq Numbered(m.from)
        BY <1>2, <1>3 DEF Numbered, SameNumbers
      <3> QED
        BY <1>2, <1>4, <2>1, <3>1
    <2>2. CASE j # i
      <3>1. j \in Active /\ peer'[j] = peer[j] /\ taken' = taken
        BY <1>2, <1>3, <2>2 DEF SameNumbers
      <3>2. Numbered(peer[j].addr)' \subseteq Numbered(peer[j].addr)
        BY <1>3, <3>1 DEF Numbered, SameNumbers
      <3> QED
        BY <3>1, <3>2 DEF OrderInv, TakenIsOld
    <2> QED
      BY <2>1, <2>2
  <1> QED
    BY <1>5, <1>6, <1>7 DEF OrderInv

(* A number above all of a growing sequence goes on it. *)
LEMMA GrowsByAppend ==
    ASSUME NEW s \in Seq(Nat), NEW n \in Nat,
           \A k \in DOMAIN s : s[k] < n,
           \A j, k \in DOMAIN s : j < k => s[j] < s[k]
    PROVE  /\ \A k \in DOMAIN Append(s, n) : Append(s, n)[k] <= n
           /\ \A j, k \in DOMAIN Append(s, n) : j < k => Append(s, n)[j] < Append(s, n)[k]
  <1>1. /\ Len(s) \in Nat /\ DOMAIN s = 1..Len(s) /\ DOMAIN Append(s, n) = 1..Len(s) + 1
        /\ Append(s, n)[Len(s) + 1] = n /\ \A k \in 1..Len(s) : Append(s, n)[k] = s[k] /\ s[k] \in Nat
    OBVIOUS
  <1> DEFINE t == Append(s, n)
  <1> HIDE DEF t
  <1>2. \A k \in DOMAIN t : k \in DOMAIN s \/ k = Len(s) + 1
    BY <1>1 DEF t
  <1>3. \A k \in DOMAIN t : t[k] <= n
    BY <1>1, <1>2 DEF t
  <1>4. ASSUME NEW j \in DOMAIN t, NEW k \in DOMAIN t, j < k PROVE t[j] < t[k]
    <2>1. j \in DOMAIN s /\ t[j] = s[j]
      BY <1>1, <1>4 DEF t
    <2>2. CASE k = Len(s) + 1
      BY <1>1, <2>1, <2>2 DEF t
    <2>3. CASE k \in DOMAIN s
      BY <1>1, <1>4, <2>1, <2>3 DEF t
    <2> QED
      BY <1>2, <2>2, <2>3
  <1> QED
    BY <1>3, <1>4 DEF t

(* The heart of it: a packet that passes both checks is newer than all that
   was taken from its socket. *)
LEMMA AcceptedIsNewer ==
    ASSUME TypeOK, OrderInv, NEW m \in toServer, m.type # "HELLO", NEW i \in Own(m.from),
           Authentic(m, i), m.sequence > peer[i].last
    PROVE  \A k \in DOMAIN taken[m.from] : taken[m.from][k] < m.sequence
  <1> SUFFICES ASSUME NEW k \in DOMAIN taken[m.from] PROVE taken[m.from][k] < m.sequence
    OBVIOUS
  <1>1. /\ i \in Active /\ peer[i].addr = m.from /\ m.token = peer[i].token
        /\ m \in Numbered(m.from) /\ m.from \in Clients /\ m.sequence \in Nat /\ i \in Slots
    BY HeardType DEF Own, Active, Authentic, Numbered, TypeOK, ToServer
  <1>2. peer[i].last \in Nat /\ taken[m.from] \in Seq(Nat)
    BY <1>1 DEF TypeOK, Peers
  <1>3. taken[m.from][k] \in Nat
    BY <1>2
  <1>4. taken[m.from][k] <= peer[i].last \/ taken[m.from][k] < m.sequence
    BY <1>1 DEF OrderInv, TakenIsOld
  <1> QED
    BY <1>1, <1>2, <1>3, <1>4

LEMMA FromPeerOrder ==
    ASSUME TypeOK, OneSlotPerAddress, OrderInv, NEW m \in toServer, m.type # "HELLO", FromPeer(m),
           UNCHANGED client, toServer' = Consume(toServer, m), NoNewcomer
    PROVE  OrderInv'
  <1>s. toServer' \subseteq toServer
    BY ConsumeKeeps
  <1>n. \A c : Numbered(c)' \subseteq Numbered(c)
    BY <1>s DEF Numbered
  <1>1. CASE Stale(m)
    BY <1>1, <1>s, FrameOrder DEF Stale, serverVars, SameNumbers
  <1>2. ASSUME NEW i \in Own(m.from), Authentic(m, i), InOrder(m, i),
               Disconnect(m, i) \/ Ping(m, i) \/ Input(m, i) \/ Control(m, i)
        PROVE  OrderInv'
    <2>1. /\ i \in Slots /\ i \in Active /\ peer[i].addr = m.from
          /\ m.from \in Clients /\ m.sequence \in Nat /\ taken[m.from] \in Seq(Nat)
      BY <1>2, HeardType DEF Own, Active, TypeOK, ToServer
    <2>o. \A j \in Active : j # i => peer[j].addr # m.from
      BY <2>1 DEF OneSlotPerAddress
    <2>2. CASE Disconnect(m, i)
      <3>1. peer' = [peer EXCEPT ![i] = [Heard(m, i) EXCEPT !.active = FALSE]]
        BY <2>2 DEF Disconnect
      <3>2. ~peer'[i].active /\ \A j \in Active' : j # i /\ peer'[j].last = peer[j].last
        BY <2>1, <3>1, HeardType DEF TypeOK, Active, Peers
      <3> QED
        BY <1>s, <2>2, <3>2, FrameOrder DEF Disconnect, SameNumbers
    <2>3. CASE Ping(m, i) \/ Input(m, i) \/ Control(m, i)
      <3>1. m.sequence > peer[i].last
        BY <1>2, <2>3 DEF InOrder, Ping, Input, Control
      <3>2. \A k \in DOMAIN taken[m.from] : taken[m.from][k] < m.sequence
        BY <1>2, <3>1, AcceptedIsNewer
      <3>3. PICK p : /\ peer' = [peer EXCEPT ![i] = p]
                     /\ \/ p = Heard(m, i)
                        \/ p = [Heard(m, i) EXCEPT !.hasState = TRUE]
                        \/ p = [Heard(m, i) EXCEPT !.control = m.sequence]
        BY <2>3 DEF Ping, Input, Control
      <3>h. Heard(m, i) \in Peers /\ Heard(m, i).last = m.sequence
        BY <2>1, HeardType
      <3>4. p.last = m.sequence
        BY <3>3, <3>h DEF Peers
      <3>5. /\ peer'[i].last = m.sequence
            /\ \A j \in Slots : j # i => peer'[j] = peer[j]
        BY <2>1, <3>3, <3>4 DEF TypeOK
      <3>6. /\ taken' \in [Clients -> Seq(Nat)]
            /\ \A c \in Clients : c # m.from => taken'[c] = taken[c]
            /\ taken'[m.from] = taken[m.from] \/ taken'[m.from] = Append(taken[m.from], m.sequence)
        <4>1. taken \in [Clients -> Seq(Nat)]
          BY DEF TypeOK
        <4>2. taken' = taken \/ taken' = [taken EXCEPT ![m.from] = Append(@, m.sequence)]
          BY <2>3 DEF Ping, Input, Control
        <4> DEFINE longer == Append(taken[m.from], m.sequence)
        <4>3. longer \in Seq(Nat)
          BY <2>1
        <4>4. taken' = taken \/ taken' = [taken EXCEPT ![m.from] = longer]
          BY <4>2
        <4> HIDE DEF longer
        <4>5. /\ taken' \in [Clients -> Seq(Nat)]
              /\ \A c \in Clients : c # m.from => taken'[c] = taken[c]
              /\ taken'[m.from] = taken[m.from] \/ taken'[m.from] = longer
          BY <2>1, <4>1, <4>3, <4>4
        <4> QED
          BY <4>5 DEF longer
      <3>7. /\ \A k \in DOMAIN taken'[m.from] : taken'[m.from][k] <= m.sequence
            /\ \A j, k \in DOMAIN taken'[m.from] : j < k => taken'[m.from][j] < taken'[m.from][k]
        <4>1. \A j, k \in DOMAIN taken[m.from] : j < k => taken[m.from][j] < taken[m.from][k]
          BY <2>1 DEF OrderInv, ControlsInOrder
        <4>2. \A k \in DOMAIN taken[m.from] : taken[m.from][k] \in Nat
          BY <2>1
        <4>3. CASE taken'[m.from] = taken[m.from]
          BY <2>1, <3>2, <4>1, <4>2, <4>3
        <4>4. CASE taken'[m.from] = Append(taken[m.from], m.sequence)
          <5> DEFINE s == taken[m.from]
          <5>1. s \in Seq(Nat) /\ m.sequence \in Nat
            BY <2>1
          <5>2. \A k \in DOMAIN s : s[k] < m.sequence
            BY <3>2
          <5>3. \A j, k \in DOMAIN s : j < k => s[j] < s[k]
            BY <4>1
          <5> HIDE DEF s
          <5>4. /\ \A k \in DOMAIN Append(s, m.sequence) : Append(s, m.sequence)[k] <= m.sequence
                /\ \A j, k \in DOMAIN Append(s, m.sequence) :
                      j < k => Append(s, m.sequence)[j] < Append(s, m.sequence)[k]
            BY <5>1, <5>2, <5>3, GrowsByAppend
          <5> QED
            BY <4>4, <5>4 DEF s
        <4> QED
          BY <3>6, <4>3, <4>4
      <3>8. ControlsInOrder'
        BY <3>6, <3>7 DEF OrderInv, ControlsInOrder
      <3>9. NumbersGrow'
        <4> SUFFICES ASSUME NEW c \in Clients
                     PROVE  /\ \A k \in DOMAIN taken'[c] : taken'[c][k] <= client'[c].sequence
                            /\ \A n \in Numbered(c)' : n.sequence <= client'[c].sequence
          BY DEF NumbersGrow
        <4>1. \A n \in Numbered(c)' : n.sequence <= client'[c].sequence
          BY <1>n DEF OrderInv, NumbersGrow
        <4>2. CASE c # m.from
          BY <3>6, <4>1, <4>2 DEF OrderInv, NumbersGrow
        <4>3. CASE c = m.from
          <5>1. m.sequence <= client[c].sequence /\ client[c].sequence \in Nat
            BY <4>3, <2>1 DEF OrderInv, NumbersGrow, Numbered, TypeOK, ClientStates
          <5>2. \A k \in DOMAIN taken'[c] : taken'[c][k] \in Nat
            BY <3>6
          <5> QED
            BY <2>1, <3>7, <4>1, <4>3, <5>1, <5>2
        <4> QED
          BY <4>2, <4>3
      <3>10. TakenIsOld'
        <4> SUFFICES ASSUME NEW j \in Active', NEW k \in DOMAIN taken'[peer'[j].addr],
                            ~(taken'[peer'[j].addr][k] <= peer'[j].last)
                     PROVE  \A n \in Numbered(peer[j].addr)' :
                                n.token = peer'[j].token => taken'[peer'[j].addr][k] < n.sequence
          BY DEF TakenIsOld
        <4>1. CASE j = i
          BY <2>1, <3>5, <3>7, <4>1 DEF NoNewcomer
        <4>2. CASE j # i
          <5>1. j \in Active /\ j \in Slots /\ peer'[j] = peer[j] /\ peer[j].addr # m.from
            BY <2>o, <3>5, <4>2 DEF NoNewcomer, Active
          <5>2. taken'[peer[j].addr] = taken[peer[j].addr]
            BY <3>6, <5>1 DEF TypeOK
          <5> QED
            BY <1>s, <5>1, <5>2 DEF OrderInv, TakenIsOld, Numbered
        <4> QED
          BY <4>1, <4>2
      <3> QED
        BY <3>8, <3>9, <3>10 DEF OrderInv
    <2> QED
      BY <1>2, <2>2, <2>3
  <1> QED
    BY <1>1, <1>2 DEF FromPeer

(* A joiner numbers a packet higher than all it ever sent. *)
LEMMA SendOrder ==
    ASSUME TypeOK, OrderInv, UNCHANGED <<peer, taken>>, NEW c \in Clients,
           client'[c].sequence = client[c].sequence + 1,
           \A d \in Clients : d # c => client'[d].sequence = client[d].sequence,
           \A m \in toServer' : \/ m \in toServer
                                \/ m.from = c /\ m.sequence = client[c].sequence + 1
    PROVE  OrderInv'
  <1>1. client[c].sequence \in Nat /\ \A d \in Clients : taken[d] \in Seq(Nat)
    BY DEF TypeOK, ClientStates
  <1>2. ControlsInOrder'
    BY DEF OrderInv, ControlsInOrder
  <1>3. \A m \in Numbered(c) : m.sequence \in Nat
    BY DEF Numbered, TypeOK, ToServer
  <1>4. \A k \in DOMAIN taken[c] : taken[c][k] \in Nat /\ taken[c][k] <= client[c].sequence
    BY <1>1 DEF OrderInv, NumbersGrow
  <1>5. NumbersGrow'
    <2> SUFFICES ASSUME NEW d \in Clients
                 PROVE  /\ \A k \in DOMAIN taken[d] : taken[d][k] <= client'[d].sequence
                        /\ \A m \in Numbered(d)' : m.sequence <= client'[d].sequence
      BY DEF NumbersGrow
    <2>1. CASE d # c
      <3>1. Numbered(d)' \subseteq Numbered(d)
        BY <2>1 DEF Numbered
      <3> QED
        BY <2>1, <3>1 DEF OrderInv, NumbersGrow
    <2>2. CASE d = c
      <3>1. \A m \in Numbered(c)' : m \in Numbered(c) \/ m.sequence = client[c].sequence + 1
        BY DEF Numbered
      <3>2. \A m \in Numbered(c) : m.sequence <= client[c].sequence
        BY DEF OrderInv, NumbersGrow
      <3> QED
        BY <1>1, <1>3, <1>4, <2>2, <3>1, <3>2
    <2> QED
      BY <2>1, <2>2
  <1>6. TakenIsOld'
    <2> SUFFICES ASSUME NEW i \in Active, NEW k \in DOMAIN taken[peer[i].addr],
                        ~(taken[peer[i].addr][k] <= peer[i].last),
                        NEW m \in Numbered(peer[i].addr)', m.token = peer[i].token
                 PROVE  taken[peer[i].addr][k] < m.sequence
      BY DEF TakenIsOld, Active
    <2>1. CASE m \in toServer
      BY <2>1 DEF OrderInv, TakenIsOld, Numbered
    <2>2. CASE m \notin toServer
      <3>1. m.from = c /\ m.sequence = client[c].sequence + 1 /\ peer[i].addr = c
        BY <2>2 DEF Numbered
      <3> QED
        BY <1>1, <1>4, <3>1
    <2> QED
      BY <2>1, <2>2
  <1> QED
    BY <1>2, <1>5, <1>6 DEF OrderInv

(* A greeting that brings nobody takes and numbers nothing. *)
LEMMA HelloOrder ==
    ASSUME TypeOK, OrderInv, NoNewcomer, NEW m \in toServer, m.type = "HELLO",
           ServerPacket(m), ~HelloJoins(m)
    PROVE  OrderInv'
  <1>1. toServer' \subseteq toServer /\ UNCHANGED <<client, taken>>
    BY ConsumeKeeps DEF ServerPacket, Hello, HelloRefused, HelloFull, HelloNoToken,
          HelloAgain, HelloOfAnotherNonce, Reject, serverVars
  <1>2. SameNumbers
    BY <1>1 DEF SameNumbers
  <1>3. \A j \in Active' : peer'[j].last = peer[j].last
    <2>1. CASE HelloRefused(m) \/ HelloFull(m) \/ HelloOfAnotherNonce(m)
      BY <2>1 DEF HelloRefused, HelloFull, HelloOfAnotherNonce, Reject, serverVars
    <2>2. CASE HelloNoToken(m)
      <3>1. PICK i \in Slots : peer' = [peer EXCEPT ![i] = FreeSlot(m.from, m.nonce)]
        BY <2>2 DEF HelloNoToken
      <3>2. ~FreeSlot(m.from, m.nonce).active
        BY HelloType, FreeSlotType
      <3> QED
        BY <3>1, <3>2 DEF Active, TypeOK
    <2>3. CASE HelloAgain(m)
      <3>1. PICK i \in Own(m.from) : peer' = [peer EXCEPT ![i].age = 0]
        BY <2>3 DEF HelloAgain
      <3>2. i \in Slots /\ peer \in [Slots -> Peers]
        BY DEF Own, Active, TypeOK
      <3>3. \A j \in Slots : peer'[j].last = peer[j].last
        BY <3>1, <3>2 DEF Peers
      <3> QED
        BY <3>3 DEF Active
    <2> QED
      BY <2>1, <2>2, <2>3 DEF ServerPacket, Hello
  <1> QED
    BY <1>2, <1>3, FrameOrder

(* A joiner's own steps number nothing, but for SendData and Close. *)
LEMMA QuietSocketOrder ==
    ASSUME TypeOK, OrderInv, UNCHANGED serverVars,
           toServer' \subseteq toServer \cup {m \in ToServer : m.type = "HELLO"},
           \A c \in Clients : client'[c].sequence = client[c].sequence
    PROVE  OrderInv'
  BY FrameOrder DEF SameNumbers, serverVars, NoNewcomer, Active

LEMMA ClientPacketNumbers ==
    ASSUME TypeOK, NEW m \in toClient, ClientPacket(m)
    PROVE  \A c \in Clients : client'[c].sequence = client[c].sequence
  <1>1. m.to \in Clients
    BY DEF TypeOK, ToClient
  <1>2. client[m.to] \in ClientStates /\ client \in [Clients -> ClientStates]
    BY <1>1 DEF TypeOK
  <1>3. CASE Rejected(m.to, m)
    BY <1>1, <1>2, <1>3 DEF Rejected, ClientStates
  <1>4. CASE Welcomed(m.to, m)
    BY <1>1, <1>2, <1>4 DEF Welcomed, ClientStates
  <1>5. CASE Ponged(m.to, m)
    BY <1>1, <1>2, <1>5 DEF Ponged, ClientStates
  <1>6. CASE Snapped(m.to, m)
    BY <1>1, <1>2, <1>6 DEF Snapped, ClientStates
  <1>7. CASE Ignored(m.to, m)
    BY <1>1, <1>2, <1>7 DEF Ignored, ClientStates
  <1> QED
    BY <1>3, <1>4, <1>5, <1>6, <1>7 DEF ClientPacket

LEMMA OrderStep == TypeOK /\ Unique /\ OrderInv /\ [Next]_vars => OrderInv'
  <1> SUFFICES ASSUME TypeOK, Unique, OrderInv, [Next]_vars PROVE OrderInv'
    OBVIOUS
  <1>0. NoNewcomer \/ \E m \in toServer : Joins(m)
    BY OnlyJoinsBring
  <1>1. ASSUME NEW m \in toServer, Joins(m) PROVE OrderInv'
    BY <1>1, JoinOrder
  <1>2. ASSUME NoNewcomer, NEW m \in toServer, ServerPacket(m), m.type = "HELLO" PROVE OrderInv'
    <2>1. CASE HelloJoins(m)
      BY <1>2, <2>1, JoinOrder DEF ServerPacket, Joins
    <2>2. CASE ~HelloJoins(m)
      BY <1>2, <2>2, HelloOrder
    <2> QED
      BY <2>1, <2>2
  <1>3. ASSUME NoNewcomer, NEW m \in toServer, ServerPacket(m), m.type # "HELLO" PROVE OrderInv'
    BY <1>3, FromPeerOrder DEF ServerPacket, Unique
  <1>4. ASSUME NoNewcomer, NEW i \in Slots, PeerTimeout(i) PROVE OrderInv'
    <2>1. peer' = [peer EXCEPT ![i].active = FALSE] /\ peer \in [Slots -> Peers]
      BY <1>4 DEF PeerTimeout, TypeOK
    <2>2. \A j \in Active' : peer'[j].last = peer[j].last
      BY <2>1 DEF Active, Peers
    <2> QED
      BY <1>4, <2>2, FrameOrder DEF PeerTimeout, SameNumbers
  <1>5. CASE Snapshot \/ Lose \/ UNCHANGED vars
    BY <1>5, FrameOrder DEF Snapshot, Lose, vars, serverVars, SameNumbers, NoNewcomer, Active
  <1>6. ASSUME NEW c \in Clients, SendHello(c) PROVE OrderInv'
    <2>1. [type |-> "HELLO", from |-> c, nonce |-> client[c].nonce] \in ToServer
      BY DEF TypeOK, ClientStates, ToServer
    <2> QED
      BY <1>6, <2>1, QuietSocketOrder DEF SendHello
  <1>7. ASSUME NEW c \in Clients, ClientTimeout(c) PROVE OrderInv'
    <2>1. PICK n \in Nonces :
             client' = [client EXCEPT ![c] = [NewClient(n) EXCEPT !.sequence = client[c].sequence]]
      BY <1>7 DEF ClientTimeout
    <2>2. \A d \in Clients : client'[d].sequence = client[d].sequence
      BY <2>1 DEF TypeOK, NewClient
    <2> QED
      BY <1>7, <2>2, QuietSocketOrder DEF ClientTimeout
  <1>8. ASSUME NEW c \in Clients, NEW type \in Traffic \ {"SNAPSHOT"}, SendData(c, type) PROVE OrderInv'
    <2>1. client[c] \in ClientStates /\ client \in [Clients -> ClientStates]
      BY DEF TypeOK
    <2>2. client' = [client EXCEPT ![c].sequence = @ + 1]
      BY <1>8 DEF SendData
    <2>3. /\ client'[c].sequence = client[c].sequence + 1
          /\ \A d \in Clients : d # c => client'[d].sequence = client[d].sequence
      BY <2>1, <2>2 DEF ClientStates
    <2> QED
      BY <1>8, <2>3, SendOrder DEF SendData, serverVars
  <1>9. ASSUME NEW c \in Clients, Close(c) PROVE OrderInv'
    <2>1. client[c] \in ClientStates /\ client \in [Clients -> ClientStates]
      BY DEF TypeOK
    <2> DEFINE s == IF Connected(c) THEN client[c].sequence + 1 ELSE client[c].sequence
    <2>2. client' = [client EXCEPT ![c].mode = "closed", ![c].sequence = s]
      BY <1>9 DEF Close
    <2> HIDE DEF s
    <2>3. /\ client'[c].sequence = s
          /\ \A d \in Clients : d # c => client'[d].sequence = client[d].sequence
      BY <2>1, <2>2 DEF ClientStates
    <2>4. CASE Connected(c)
      <3>1. s = client[c].sequence + 1
        BY <2>4 DEF s
      <3>2. toServer' = toServer \cup {[type |-> "DISCONNECT", from |-> c, token |-> client[c].token,
                                        sequence |-> client'[c].sequence]}
        BY <1>9, <2>4 DEF Close
      <3>3. client'[c].sequence = client[c].sequence + 1
        BY <2>3, <3>1
      <3>4. \A m \in toServer' : m \in toServer \/ (m.from = c /\ m.sequence = client[c].sequence + 1)
        BY <3>2, <3>3
      <3>5. UNCHANGED <<peer, taken>>
        BY <1>9 DEF Close, serverVars
      <3> QED
        BY <2>3, <3>3, <3>4, <3>5, SendOrder
    <2>5. CASE ~Connected(c)
      <3>1. s = client[c].sequence
        BY <2>5 DEF s
      <3> QED
        BY <1>9, <2>3, <2>5, <3>1, QuietSocketOrder DEF Close
    <2> QED
      BY <2>4, <2>5
  <1>10. ASSUME NEW m \in toClient, ClientPacket(m) PROVE OrderInv'
    BY <1>10, ClientPacketNumbers, QuietSocketOrder DEF ClientPacket
  <1>11. CASE Elapse
    <2>1. peer' = [i \in Slots |-> [peer[i] EXCEPT !.age = IF peer[i].active THEN Older(@) ELSE @]]
      BY <1>11 DEF Elapse
    <2>2. \A i \in Slots : peer[i] \in Peers
      BY DEF TypeOK
    <2>3. \A i \in Slots : /\ peer'[i].active = peer[i].active /\ peer'[i].addr = peer[i].addr
                            /\ peer'[i].token = peer[i].token /\ peer'[i].last = peer[i].last
      BY <2>1, <2>2 DEF Peers
    <2>4. client' = [c \in Clients |->
             [client[c] EXCEPT !.quiet = IF Connected(c) THEN Older(@) ELSE @]]
      BY <1>11 DEF Elapse
    <2>5. \A c \in Clients : client[c] \in ClientStates
      BY DEF TypeOK
    <2>6. \A c \in Clients : client'[c].sequence = client[c].sequence
      BY <2>4, <2>5 DEF ClientStates
    <2>7. NoNewcomer /\ \A i \in Active' : peer'[i].last = peer[i].last
      BY <2>3 DEF NoNewcomer, Active
    <2> QED
      BY <1>11, <2>6, <2>7, FrameOrder DEF Elapse, SameNumbers
  <1>12. ASSUME NoNewcomer, NEW m \in toServer, ServerPacket(m) PROVE OrderInv'
    BY <1>2, <1>3, <1>12
  <1>13. CASE NoNewcomer
    BY <1>4, <1>5, <1>6, <1>7, <1>8, <1>9, <1>10, <1>11, <1>12, <1>13 DEF Next
  <1> QED
    BY <1>0, <1>1, <1>13

(* The controls the host takes from a socket carry ever higher numbers, over
   all the connections of that socket, on a network that loses, reorders and
   repeats packets without limit. *)
THEOREM ControlOrder == Spec => []ControlsInOrder
  <1>1. Init => OrderInv
    BY EmptySlotType DEF Init, OrderInv, ControlsInOrder, NumbersGrow, TakenIsOld, Numbered, Active
  <1>2. (TypeOK /\ Unique) /\ OrderInv /\ [Next]_vars => OrderInv'
    BY OrderStep
  <1>3. OrderInv => ControlsInOrder
    BY DEF OrderInv
  <1> QED
    BY <1>1, <1>2, <1>3, UniqueAlways, PTL DEF Spec

-----------------------------------------------------------------------------
(* Only a socket that is closed has said it leaves, and it is never another's. *)
LeaversAreClosed == \A m \in toServer : m.type = "DISCONNECT" => client[m.from].mode = "closed"

LEMMA ClosedForGood ==
    ASSUME TypeOK, [Next]_vars, NEW c \in Clients, client[c].mode = "closed"
    PROVE  client'[c].mode = "closed"
  <1>0. client \in [Clients -> ClientStates]
    BY DEF TypeOK
  <1>1. ASSUME NEW m \in toClient, ClientPacket(m) PROVE client'[c].mode = "closed"
    <2>1. m.to # c
      BY <1>1 DEF ClientPacket
    <2>2. client'[c] = client[c]
      BY <1>0, <1>1, <2>1 DEF ClientPacket, Rejected, Welcomed, Ponged, Snapped, Ignored
    <2> QED
      BY <2>2
  <1>2. ASSUME NEW d \in Clients, Close(d) PROVE client'[c].mode = "closed"
    <2> DEFINE s == IF Connected(d) THEN client[d].sequence + 1 ELSE client[d].sequence
    <2>1. client' = [client EXCEPT ![d].mode = "closed", ![d].sequence = s]
      BY <1>2 DEF Close
    <2> HIDE DEF s
    <2> QED
      BY <1>0, <2>1 DEF ClientStates
  <1>3. ASSUME NEW d \in Clients, NEW type, ClientTimeout(d) \/ SendData(d, type)
        PROVE  client'[c].mode = "closed"
    BY <1>0, <1>3 DEF ClientTimeout, SendData, Connected, ClientStates
  <1>4. CASE Elapse
    BY <1>0, <1>4 DEF Elapse, ClientStates
  <1>5. CASE UNCHANGED client
    BY <1>5
  <1> QED
    BY <1>1, <1>2, <1>3, <1>4, <1>5
    DEF Next, vars, ServerPacket, PeerTimeout, Snapshot, SendHello, Lose

LEMMA LeaversStep == TypeOK /\ LeaversAreClosed /\ [Next]_vars => LeaversAreClosed'
  <1> SUFFICES ASSUME TypeOK, LeaversAreClosed, [Next]_vars,
                      NEW m \in toServer', m.type = "DISCONNECT"
               PROVE  client'[m.from].mode = "closed"
    BY DEF LeaversAreClosed
  <1>1. CASE m \in toServer
    <2>1. m.from \in Clients /\ client[m.from].mode = "closed"
      BY <1>1 DEF TypeOK, ToServer, LeaversAreClosed
    <2> QED
      BY <2>1, ClosedForGood
  <1>2. ASSUME NEW c \in Clients, Close(c), m \notin toServer
        PROVE  client'[m.from].mode = "closed"
    <2>1. m.from = c
      BY <1>2 DEF Close
    <2> DEFINE s == IF Connected(c) THEN client[c].sequence + 1 ELSE client[c].sequence
    <2>2. client' = [client EXCEPT ![c].mode = "closed", ![c].sequence = s]
      BY <1>2 DEF Close
    <2> HIDE DEF s
    <2>3. client \in [Clients -> ClientStates]
      BY DEF TypeOK
    <2> QED
      BY <2>1, <2>2, <2>3 DEF ClientStates
  <1>3. ASSUME NEW c \in Clients, NEW type \in Traffic \ {"SNAPSHOT"}, SendData(c, type) PROVE m \in toServer
    <2>1. type # "DISCONNECT"
      BY BoundsAssumption
    <2> QED
      BY <1>3, <2>1 DEF SendData
  <1>4. ASSUME NEW c \in Clients, SendHello(c) \/ ClientTimeout(c) PROVE m \in toServer
    BY <1>4 DEF SendHello, ClientTimeout
  <1>5. ASSUME NEW n \in toServer, ServerPacket(n) PROVE m \in toServer
    BY <1>5, ConsumeKeeps DEF ServerPacket
  <1>6. ASSUME UNCHANGED toServer \/ Lose PROVE m \in toServer
    BY <1>6 DEF Lose
  <1> QED
    BY <1>1, <1>2, <1>3, <1>4, <1>5, <1>6
    DEF Next, vars, PeerTimeout, Snapshot, ClientPacket, Elapse

(* A HELLO takes no slot that is in use away; of a peer's packets only its
   DISCONNECT does, and only its own. *)
LEMMA SlotLost ==
    ASSUME TypeOK, LeaversAreClosed, Next, NEW i \in Active, ~peer'[i].active
    PROVE  peer[i].age = Silence \/ client[peer[i].addr].mode = "closed"
  <1>0. /\ peer \in [Slots -> Peers] /\ i \in Slots /\ peer[i].active
    BY DEF TypeOK, Active
  <1>1. ASSUME NEW m \in toServer, ServerPacket(m), m.type = "HELLO" PROVE FALSE
    <2>1. Hello(m)
      BY <1>1 DEF ServerPacket
    <2>2. CASE HelloJoins(m) \/ HelloNoToken(m)
      BY <1>0, <2>2 DEF HelloJoins, HelloNoToken, Newcomer, FirstFree
    <2>3. CASE HelloAgain(m)
      BY <1>0, <2>3 DEF HelloAgain, Peers
    <2>4. CASE HelloRefused(m) \/ HelloFull(m) \/ HelloOfAnotherNonce(m)
      BY <1>0, <2>4 DEF HelloRefused, HelloFull, HelloOfAnotherNonce, Reject, serverVars
    <2> QED
      BY <2>1, <2>2, <2>3, <2>4 DEF Hello
  <1>2. ASSUME NEW m \in toServer, ServerPacket(m), m.type # "HELLO"
        PROVE  client[peer[i].addr].mode = "closed"
    <2>1. CASE Stale(m)
      BY <1>0, <2>1 DEF Stale, serverVars
    <2>2. ASSUME NEW j \in Own(m.from),
                 Disconnect(m, j) \/ Ping(m, j) \/ Input(m, j) \/ Control(m, j)
          PROVE  client[peer[i].addr].mode = "closed"
      <3>1. j \in Slots /\ peer[j] \in Peers /\ peer[j].active /\ peer[j].addr = m.from
        BY <1>0 DEF Own, Active
      <3>3. CASE Disconnect(m, j)
        <4>1. i = j
          BY <1>0, <3>1, <3>3 DEF Disconnect
        <4> QED
          BY <3>1, <3>3, <4>1 DEF Disconnect, LeaversAreClosed
      <3> DEFINE h == Heard(m, j)
      <3>4. /\ h.active /\ [h EXCEPT !.hasState = TRUE].active
            /\ [h EXCEPT !.control = m.sequence].active
        BY <3>1 DEF Heard, Peers
      <3>5. ASSUME Ping(m, j) \/ Input(m, j) \/ Control(m, j) PROVE FALSE
        <4>1. \E g : g.active /\ peer' = [peer EXCEPT ![j] = g]
          BY <3>4, <3>5 DEF Ping, Input, Control
        <4> QED
          BY <1>0, <3>1, <4>1
      <3> QED
        BY <2>2, <3>3, <3>5
    <2> QED
      BY <1>2, <2>1, <2>2 DEF ServerPacket, FromPeer
  <1>3. ASSUME NEW j \in Slots, PeerTimeout(j) PROVE peer[i].age = Silence
    BY <1>0, <1>3 DEF PeerTimeout
  <1>4. CASE Elapse
    BY <1>0, <1>4 DEF Elapse, Peers
  <1>5. CASE UNCHANGED peer
    BY <1>0, <1>5
  <1> QED
    BY <1>1, <1>2, <1>3, <1>4, <1>5
    DEF Next, Snapshot, SendHello, Close, ClientTimeout, SendData, ClientPacket, Lose, serverVars

(* The host takes a slot only from a player whose silence is up or who has left:
   no late or repeated packet of another connection ends it. *)
THEOREM SlotsAreKept == Spec => SlotLostOnlyBySilenceOrLeave
  <1>1. Init => LeaversAreClosed
    BY DEF Init, LeaversAreClosed
  <1>2. TypeOK /\ LeaversAreClosed /\ [Next]_vars => LeaversAreClosed'
    BY LeaversStep
  <1>3. TypeOK /\ LeaversAreClosed /\ [Next]_vars =>
            [\A i \in Active : ~peer'[i].active =>
                peer[i].age = Silence \/ client[peer[i].addr].mode = "closed"]_vars
    BY SlotLost
  <1> QED
    BY <1>1, <1>2, <1>3, TypeInvariant, PTL DEF Spec, SlotLostOnlyBySilenceOrLeave
=============================================================================
