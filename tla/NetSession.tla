----------------------------- MODULE NetSession -----------------------------
(***************************************************************************)
(* The connection layer of a LAN match, src/src/net/session.c: HELLO,      *)
(* WELCOME and REJECT, session tokens, the per-peer sequence check, peer   *)
(* slots, the 10 s silence timeouts of both sides, DISCONNECT, and the     *)
(* replicated player snapshot.                                             *)
(*                                                                         *)
(* An element of Clients is one hta_net_client: one UDP socket, hence one  *)
(* address, from hta_net_client_open to hta_net_client_close.  A player    *)
(* who restarts the program is another element with the same Identity.     *)
(* The network is UDP: a packet in flight may be lost, reordered without   *)
(* limit and, when MayDuplicate, delivered again.  The rate limiter and    *)
(* the 1024-packet drain limit of the pump only lose packets, so they are  *)
(* part of the loss.  EVENT, KILL, ACK and FX are in KillFeed; the other   *)
(* replicated tables follow the SNAPSHOT rule.                             *)
(***************************************************************************)
EXTENDS Naturals, Sequences, FiniteSets

CONSTANTS
    Clients,        \* sockets that may join
    MaxPlayers,     \* HTA_NET_MAX_PLAYERS, the peer slots
    MaxInfos,       \* what info.max_players, the host's player limit, may be; 0 for none
    Identities,     \* the 16-byte identity keys, NoIdentity (all zero) included
    NoIdentity,
    Identity,       \* Identity[c]: the key c sends in HELLO
    Unfit,          \* sockets whose map or content differs from the host's
    Nonces, Tokens, \* what random_word may draw
    NoToken, NoNonce, NoAddr, \* their zero, the zeroed address of an unused slot
    Silence,        \* clock steps that make up more than 10 s of silence
    MayDuplicate,   \* does the network deliver a packet more than once?
    EntropyFails,   \* can random_word return 0 for a new token?
    Traffic,        \* the packets besides the handshake that an instance follows
    MaxSequence,    \* bound of the model: numbered packets a socket sends
    MaxTick         \* bound of the model: snapshots told apart

ASSUME PlayersAssumption == MaxPlayers \in Nat \ {0} /\ MaxInfos \subseteq Nat
ASSUME IdentityAssumption ==
    NoIdentity \in Identities /\ Identity \in [Clients -> Identities] /\ Unfit \subseteq Clients
ASSUME NamesAssumption == NoToken \notin Tokens /\ NoNonce \notin Nonces /\ NoAddr \notin Clients
ASSUME BoundsAssumption ==
    /\ Silence \in Nat \ {0} /\ MaxSequence \in Nat /\ MaxTick \in Nat
    /\ Traffic \subseteq {"PING", "INPUT", "CONTROL", "SNAPSHOT"}
    /\ MayDuplicate \in BOOLEAN /\ EntropyFails \in BOOLEAN

VARIABLES
    peer,       \* hta_net_server.peers
    info,       \* hta_net_server.info.max_players
    tick,       \* hta_net_server.tick, the number of the last snapshot
    client,     \* the hta_net_client of every socket
    toServer,   \* packets in flight to the host
    toClient,   \* packets in flight to the joiners
    taken       \* history: per socket, the sequence numbers of the CONTROLs the host took

serverVars == <<peer, info, tick, taken>>
vars == <<peer, info, tick, client, toServer, toClient, taken>>

Slots == 1..MaxPlayers
Cap == IF info # 0 /\ info < MaxPlayers THEN info ELSE MaxPlayers
Keyed(c) == Identity[c] # NoIdentity
Reasons == {"full", "unfit", "identity"}

-----------------------------------------------------------------------------
(* State *)

Peers == [active : BOOLEAN, addr : Clients \cup {NoAddr}, nonce : Nonces \cup {NoNonce},
          token : Tokens \cup {NoToken}, last : Nat,
          age : 0..Silence, hasState : BOOLEAN, control : Nat]

Modes == {"greeting", "connected", "closed"}
ClientStates == [mode : Modes, nonce : Nonces, token : Tokens \cup {NoToken},
                 id : Slots \cup {0}, sequence : Nat,
                 reject : Reasons \cup {"none"}, quiet : 0..Silence,
                 snapshot : Nat, present : SUBSET Slots]

ToServer ==
    [type : {"HELLO"}, from : Clients, nonce : Nonces]
    \cup [type : {"PING", "INPUT", "CONTROL", "DISCONNECT"}, from : Clients, token : Tokens, sequence : Nat]
ToClient ==
    [type : {"REJECT"}, to : Clients, nonce : Nonces, reason : Reasons]
    \cup [type : {"WELCOME"}, to : Clients, nonce : Nonces, id : Slots, token : Tokens]
    \cup [type : {"PONG"}, to : Clients]
    \cup [type : {"SNAPSHOT"}, to : Clients, tick : Nat, present : SUBSET Slots]

NewPeer(c, nonce, token) ==
    [active |-> TRUE, addr |-> c, nonce |-> nonce, token |-> token, last |-> 0,
     age |-> 0, hasState |-> FALSE, control |-> 0]

FreeSlot(c, nonce) == [NewPeer(c, nonce, NoToken) EXCEPT !.active = FALSE]
EmptySlot == FreeSlot(NoAddr, NoNonce)

NewClient(nonce) ==
    [mode |-> "greeting", nonce |-> nonce, token |-> NoToken, id |-> 0, sequence |-> 0,
     reject |-> "none", quiet |-> 0, snapshot |-> 0, present |-> {}]

Init ==
    /\ peer = [i \in Slots |-> EmptySlot]
    /\ info \in MaxInfos
    /\ tick = 0
    /\ client \in [Clients -> {NewClient(n) : n \in Nonces}]
    /\ toServer = {}
    /\ toClient = {}
    /\ taken = [c \in Clients |-> <<>>]

Active == {i \in Slots : peer[i].active}
Own(c) == {i \in Active : peer[i].addr = c}
FirstFree(i) == i \in Slots \ Active /\ \A j \in Slots : j < i => j \in Active

-----------------------------------------------------------------------------
(* The network *)

(* When packets may come again, every packet sent stays deliverable for ever:
   loss is then the packet that nobody takes. *)
Consume(net, m) == IF MayDuplicate THEN net ELSE net \ {m}

Lose ==
    /\ ~MayDuplicate
    /\ \/ \E m \in toServer : toServer' = toServer \ {m} /\ UNCHANGED toClient
       \/ \E m \in toClient : toClient' = toClient \ {m} /\ UNCHANGED toServer
    /\ UNCHANGED <<serverVars, client>>

(* A host packet to one socket, and every action that answers with none. *)
Reply(m) == toClient' = toClient \cup {m}

-----------------------------------------------------------------------------
(* The host: server_packet *)

(* mutant: only players already in the match count *)
IdentityPlaying(c) ==
    Keyed(c) /\ \E i \in Active \ Own(c) :
        peer[i].hasState /\ Identity[peer[i].addr] = Identity[c]

IdentityInUse(c) ==
    Keyed(c) /\ \E i \in Active \ Own(c) : Identity[peer[i].addr] = Identity[c]

Refusal(c) == IF IdentityInUse(c) THEN "identity" ELSE IF c \in Unfit THEN "unfit" ELSE "none"

Reject(m, reason) ==
    /\ Reply([type |-> "REJECT", to |-> m.from, nonce |-> m.nonce, reason |-> reason])
    /\ UNCHANGED serverVars

Welcome(m, i, token) ==
    Reply([type |-> "WELCOME", to |-> m.from, nonce |-> m.nonce, id |-> i, token |-> token])

HelloRefused(m) == Refusal(m.from) # "none" /\ Reject(m, Refusal(m.from))

HelloFull(m) ==
    /\ Refusal(m.from) = "none" /\ Own(m.from) = {}
    /\ Cardinality(Active) >= Cap
    /\ Reject(m, "full")

(* A random word that nobody holds: 32 random bits are taken never to repeat. *)
FreshToken(t) ==
    /\ t \in Tokens
    /\ \A i \in Active : peer[i].token # t
    /\ \A c \in Clients : client[c].token # t
    /\ \A m \in toServer : m.type # "HELLO" => m.token # t
    /\ \A m \in toClient : m.type = "WELCOME" => m.token # t

(* mutant: the sender's own slot is not looked up *)
NewcomerUnknown(m, i) ==
    Refusal(m.from) = "none" /\ Cardinality(Active) < Cap /\ FirstFree(i)

Newcomer(m, i) ==
    /\ Refusal(m.from) = "none" /\ Own(m.from) = {}
    /\ Cardinality(Active) < Cap
    /\ FirstFree(i)

HelloJoins(m) ==
    /\ \E i \in Slots, t \in Tokens :
          /\ Newcomer(m, i) /\ FreshToken(t)
          /\ peer' = [peer EXCEPT ![i] = NewPeer(m.from, m.nonce, t)]
          /\ Welcome(m, i, t)
    /\ UNCHANGED <<info, tick, taken>>

(* mutant: the slot stays taken *)
HelloKeepsTheSlot(m) ==
    /\ EntropyFails
    /\ \E i \in Slots :
          /\ Newcomer(m, i)
          /\ peer' = [peer EXCEPT ![i] = NewPeer(m.from, m.nonce, NoToken)]
    /\ UNCHANGED <<info, tick, taken, toClient>>

(* No entropy for a token: the slot is filled in but stays free, and nobody
   answers. *)
HelloNoToken(m) ==
    /\ EntropyFails
    /\ \E i \in Slots :
          /\ Newcomer(m, i)
          /\ peer' = [peer EXCEPT ![i] = FreeSlot(m.from, m.nonce)]
    /\ UNCHANGED <<info, tick, taken, toClient>>

(* A HELLO of a socket that has a slot: its WELCOME was lost. *)
HelloAgain(m) ==
    /\ Refusal(m.from) = "none"
    /\ \E i \in Own(m.from) :
          /\ peer[i].nonce = m.nonce
          /\ peer' = [peer EXCEPT ![i].age = 0]
          /\ Welcome(m, i, peer[i].token)
    /\ UNCHANGED <<info, tick, taken>>

(* mutants: a new greeting ends the old connection; it keeps the slot alive *)
HelloEndsTheOld(m) ==
    /\ Refusal(m.from) = "none"
    /\ \E i \in Own(m.from) : peer[i].nonce # m.nonce /\ peer' = [peer EXCEPT ![i].active = FALSE]
    /\ UNCHANGED <<info, tick, taken, toClient>>
HelloRefreshesTheOld(m) ==
    /\ Refusal(m.from) = "none"
    /\ \E i \in Own(m.from) : peer[i].nonce # m.nonce /\ peer' = [peer EXCEPT ![i].age = 0]
    /\ UNCHANGED <<info, tick, taken, toClient>>

(* ... or it gave up on the old connection before the host did. *)
HelloOfAnotherNonce(m) ==
    /\ Refusal(m.from) = "none"
    /\ \E i \in Own(m.from) : peer[i].nonce # m.nonce
    /\ UNCHANGED <<serverVars, toClient>>

Hello(m) ==
    HelloRefused(m) \/ HelloFull(m) \/ HelloJoins(m) \/ HelloNoToken(m)
        \/ HelloAgain(m) \/ HelloOfAnotherNonce(m)

(* mutant: the sender's address is proof enough *)
AuthenticByAddress(m, i) == i \in Own(m.from)

Authentic(m, i) == i \in Own(m.from) /\ m.token = peer[i].token
InOrder(m, i) == m.type = "DISCONNECT" \/ m.sequence > peer[i].last

Stale(m) ==
    /\ \A i \in Own(m.from) : ~(Authentic(m, i) /\ InOrder(m, i))
    /\ UNCHANGED <<serverVars, toClient>>

Heard(m, i) == [peer[i] EXCEPT !.last = m.sequence, !.age = 0]

Disconnect(m, i) ==
    /\ m.type = "DISCONNECT"
    /\ peer' = [peer EXCEPT ![i] = [Heard(m, i) EXCEPT !.active = FALSE]]
    /\ UNCHANGED <<taken, toClient>>

Ping(m, i) ==
    /\ m.type = "PING"
    /\ peer' = [peer EXCEPT ![i] = Heard(m, i)]
    /\ Reply([type |-> "PONG", to |-> m.from])
    /\ UNCHANGED taken

Input(m, i) ==
    /\ m.type = "INPUT"
    /\ peer' = [peer EXCEPT ![i] = [Heard(m, i) EXCEPT !.hasState = TRUE]]
    /\ UNCHANGED <<taken, toClient>>

Control(m, i) ==
    /\ m.type = "CONTROL"
    /\ peer' = [peer EXCEPT ![i] = [Heard(m, i) EXCEPT !.control = m.sequence]]
    /\ taken' = [taken EXCEPT ![m.from] = Append(@, m.sequence)]
    /\ UNCHANGED toClient

FromPeer(m) ==
    \/ Stale(m)
    \/ \E i \in Own(m.from) :
          /\ Authentic(m, i) /\ InOrder(m, i)
          /\ Disconnect(m, i) \/ Ping(m, i) \/ Input(m, i) \/ Control(m, i)
          /\ UNCHANGED <<info, tick>>

ServerPacket(m) ==
    /\ m \in toServer
    /\ IF m.type = "HELLO" THEN Hello(m) ELSE FromPeer(m)
    /\ toServer' = Consume(toServer, m)
    /\ UNCHANGED client

-----------------------------------------------------------------------------
(* The host: the rest of hta_net_server_pump *)

(* mutant: only players who sent a state time out *)
PeerTimeoutPlaying(i) ==
    /\ i \in Active /\ peer[i].age = Silence /\ peer[i].hasState
    /\ peer' = [peer EXCEPT ![i].active = FALSE]
    /\ UNCHANGED <<info, tick, taken, client, toServer, toClient>>

PeerTimeout(i) ==
    /\ i \in Active /\ peer[i].age = Silence
    /\ peer' = [peer EXCEPT ![i].active = FALSE]
    /\ UNCHANGED <<info, tick, taken, client, toServer, toClient>>

(* Every 0.05 s.  Past MaxTick snapshots stop being told apart: a joiner
   takes one more of the last number for one it has. *)
Snapshot ==
    /\ "SNAPSHOT" \in Traffic
    /\ tick' = IF tick < MaxTick THEN tick + 1 ELSE tick
    /\ toClient' = toClient \cup
          {[type |-> "SNAPSHOT", to |-> peer[i].addr, tick |-> tick',
            present |-> {j \in Active : peer[j].hasState}] : i \in Active}
    /\ UNCHANGED <<peer, info, taken, client, toServer>>

-----------------------------------------------------------------------------
(* A joiner *)

Connected(c) == client[c].mode = "connected"

SendHello(c) ==
    /\ client[c].mode = "greeting" /\ client[c].reject = "none"
    /\ toServer' = toServer \cup {[type |-> "HELLO", from |-> c, nonce |-> client[c].nonce]}
    /\ UNCHANGED <<serverVars, client, toClient>>

SendData(c, type) ==
    /\ Connected(c)
    /\ client[c].sequence < MaxSequence
    /\ client' = [client EXCEPT ![c].sequence = @ + 1]
    /\ toServer' = toServer \cup
          {[type |-> type, from |-> c, token |-> client[c].token, sequence |-> client'[c].sequence]}
    /\ UNCHANGED <<serverVars, toClient>>

Close(c) ==
    /\ client[c].mode # "closed"
    /\ client' = [client EXCEPT ![c].mode = "closed", ![c].sequence = IF Connected(c) THEN @ + 1 ELSE @]
    /\ toServer' = IF Connected(c)
          THEN toServer \cup {[type |-> "DISCONNECT", from |-> c, token |-> client[c].token,
                               sequence |-> client'[c].sequence]}
          ELSE toServer
    /\ UNCHANGED <<serverVars, toClient>>

FreshNonce(c, n) ==
    /\ n \in Nonces \ {client[c].nonce}
    /\ \A i \in Own(c) : peer[i].nonce # n
    /\ \A m \in toServer : m.type = "HELLO" /\ m.from = c => m.nonce # n
    /\ \A m \in toClient : m.type \in {"WELCOME", "REJECT"} /\ m.to = c => m.nonce # n

(* More than 10 s without a packet: forget everything, greet again as new. *)
ClientTimeout(c) ==
    /\ Connected(c) /\ client[c].quiet = Silence
    /\ \E n \in Nonces :
          /\ FreshNonce(c, n)
          /\ client' = [client EXCEPT ![c] = [NewClient(n) EXCEPT !.sequence = client[c].sequence]]
    /\ UNCHANGED <<serverVars, toServer, toClient>>

Rejected(c, m) ==
    /\ m.type = "REJECT" /\ client[c].mode = "greeting" /\ m.nonce = client[c].nonce
    /\ client' = [client EXCEPT ![c].reject = m.reason]

(* Also while connected: a second WELCOME for the nonce sets the token again. *)
Welcomed(c, m) ==
    /\ m.type = "WELCOME" /\ m.nonce = client[c].nonce
    /\ client' = [client EXCEPT ![c] =
          [@ EXCEPT !.mode = "connected", !.id = m.id, !.token = m.token, !.reject = "none", !.quiet = 0]]

Ponged(c, m) ==
    /\ m.type = "PONG" /\ Connected(c)
    /\ client' = [client EXCEPT ![c].quiet = 0]

Newer(c, m) == m.tick > client[c].snapshot

Snapped(c, m) ==
    /\ m.type = "SNAPSHOT" /\ Connected(c)
    /\ client' = [client EXCEPT ![c] =
          IF Newer(c, m)
          THEN [@ EXCEPT !.quiet = 0, !.snapshot = m.tick, !.present = m.present]
          ELSE [@ EXCEPT !.quiet = 0]]

(* Any packet from the host's address breaks the silence of a connection. *)
Ignored(c, m) ==
    /\ \/ m.type \in {"REJECT", "WELCOME"} /\ m.nonce # client[c].nonce
       \/ m.type = "REJECT" /\ Connected(c)
       \/ m.type \in {"PONG", "SNAPSHOT"} /\ ~Connected(c)
    /\ client' = [client EXCEPT ![c].quiet = IF Connected(c) THEN 0 ELSE @]

(* The pump looks at the clock before it drains: no packet saves a
   connection whose silence is already too long. *)
ClientPacket(m) ==
    /\ m \in toClient
    /\ LET c == m.to IN
          /\ client[c].mode # "closed"
          /\ Connected(c) => client[c].quiet < Silence
          /\ Rejected(c, m) \/ Welcomed(c, m) \/ Ponged(c, m) \/ Snapped(c, m) \/ Ignored(c, m)
    /\ toClient' = Consume(toClient, m)
    /\ UNCHANGED <<serverVars, toServer>>

-----------------------------------------------------------------------------
(* Time passes for everybody's silence. *)

Older(n) == IF n < Silence THEN n + 1 ELSE n

Elapse ==
    /\ peer' = [i \in Slots |-> [peer[i] EXCEPT !.age = IF peer[i].active THEN Older(@) ELSE @]]
    /\ client' = [c \in Clients |-> [client[c] EXCEPT !.quiet = IF Connected(c) THEN Older(@) ELSE @]]
    /\ UNCHANGED <<info, tick, taken, toServer, toClient>>

Next ==
    \/ \E m \in toServer : ServerPacket(m)
    \/ \E i \in Slots : PeerTimeout(i)
    \/ Snapshot
    \/ \E c \in Clients : SendHello(c) \/ Close(c) \/ ClientTimeout(c)
    \/ \E c \in Clients, type \in Traffic \ {"SNAPSHOT"} : SendData(c, type)
    \/ \E m \in toClient : ClientPacket(m)
    \/ Elapse
    \/ Lose

Spec == Init /\ [][Next]_vars

-----------------------------------------------------------------------------
(* Safety *)

TypeOK ==
    /\ peer \in [Slots -> Peers]
    /\ \A i \in Active : peer[i].addr \in Clients /\ peer[i].token \in Tokens
    /\ \A c \in Clients : Connected(c) => client[c].token \in Tokens
    /\ info \in MaxInfos /\ tick \in Nat
    /\ client \in [Clients -> ClientStates]
    /\ toServer \subseteq ToServer
    /\ toClient \subseteq ToClient
    /\ taken \in [Clients -> Seq(Nat)]

(* find_peer returns the first slot of an address and knows no other: two
   slots of one socket would leave the second one unreachable for every
   packet but the replies it is sent. *)
OneSlotPerAddress == \A i, j \in Active : peer[i].addr = peer[j].addr => i = j

(* "Refuse two simultaneous users of one key" (session.c:89): whatever the
   order of joins, silences, restarts and late HELLOs, a profile key plays
   once. *)
OneUserPerIdentity ==
    \A i, j \in Active :
        Keyed(peer[i].addr) /\ Identity[peer[i].addr] = Identity[peer[j].addr] => i = j

(* The host's player limit (info.max_players) holds through every join. *)
WithinCap == Cardinality(Active) <= Cap

(* A joiner's controls act in the order it sent them and none acts twice, not
   even across a reconnect of the same socket: the sequence check orders one
   connection, the token keeps an old connection's packets out of the next. *)
ControlsInOrder ==
    \A c \in Clients : \A j, k \in DOMAIN taken[c] : j < k => taken[c][j] < taken[c][k]

(* What makes it so, an inductive invariant (NetSessionProofs): a socket numbers
   its packets upwards over all its connections, and what the host took from it
   is older than the peer's last packet or than all that carry the peer's token. *)
Numbered(c) == {m \in toServer : m.type # "HELLO" /\ m.from = c}
NumbersGrow ==
    \A c \in Clients :
        /\ \A k \in DOMAIN taken[c] : taken[c][k] <= client[c].sequence
        /\ \A m \in Numbered(c) : m.sequence <= client[c].sequence
TakenIsOld ==
    \A i \in Active : LET c == peer[i].addr IN
        \A k \in DOMAIN taken[c] :
            \/ taken[c][k] <= peer[i].last
            \/ \A m \in Numbered(c) : m.token = peer[i].token => taken[c][k] < m.sequence
OrderInv == ControlsInOrder /\ NumbersGrow /\ TakenIsOld

(* An unfit joiner -- another map, other content, whose indices mean other
   things -- never has a slot and is never told it has one. *)
UnfitStayOut ==
    \A c \in Unfit : Own(c) = {} /\ ~Connected(c)

(* A host slot is taken from a player that was not silent only by the player
   itself: no late packet of an earlier connection ends the present one. *)
SlotLostOnlyBySilenceOrLeave ==
    [][\A i \in Active : ~peer'[i].active =>
          peer[i].age = Silence \/ client[peer[i].addr].mode = "closed"]_vars

-----------------------------------------------------------------------------
(* Liveness.  The pumps run every frame and the clock advances; a greeting is
   repeated every 0.25 s, so some copy of it, and of its answer, gets through. *)

HelloArrives(c) == \E m \in toServer : m.type = "HELLO" /\ m.from = c /\ ServerPacket(m)
AnswerArrives(c) ==
    \E m \in toClient : m.type \in {"WELCOME", "REJECT"} /\ m.to = c /\ ClientPacket(m)

(* No packet stays in flight for ever: one of an earlier connection, or
   greeting, is taken or lost. *)
LatePacketEnds(c) ==
    \E m \in toServer :
        /\ m.from = c
        /\ IF m.type = "HELLO" THEN m.nonce # client[c].nonce ELSE m.token # client[c].token
        /\ Lose \/ ServerPacket(m)
        /\ m \notin toServer'
LateAnswerEnds(c) ==
    \E m \in toClient :
        /\ m.type \in {"WELCOME", "REJECT"} /\ m.to = c /\ m.nonce # client[c].nonce
        /\ Lose \/ ClientPacket(m)
        /\ m \notin toClient'

Fairness ==
    /\ WF_vars(Elapse)
    /\ \A i \in Slots : WF_vars(PeerTimeout(i))
    /\ \A c \in Clients :
          /\ WF_vars(SendHello(c)) /\ WF_vars(ClientTimeout(c))
          /\ SF_vars(HelloArrives(c)) /\ SF_vars(AnswerArrives(c))
          /\ WF_vars(LatePacketEnds(c)) /\ WF_vars(LateAnswerEnds(c))

FairSpec == Spec /\ Fairness

(* A joiner is not left greeting for ever: the host's memory of its earlier
   connection (same address, old nonce: the HELLO is dropped unanswered) goes
   away by itself. *)
GreetingAnswered ==
    \A c \in Clients : client[c].mode = "greeting" /\ client[c].reject = "none"
        ~> client[c].mode # "greeting" \/ client[c].reject # "none"

(* Both sides' ideas of a connection may differ -- the host timed out first, a
   late WELCOME put an old token back -- but not for ever; and a player who left
   is forgotten for good, though its DISCONNECT may be lost and a HELLO of its may
   arrive after it. *)
Split(c) == Connected(c) /\ \A i \in Own(c) : peer[i].token # client[c].token
SplitHeals ==
    \A c \in Clients :
        /\ Split(c) ~> ~Split(c)
        /\ client[c].mode = "closed" ~> [](Own(c) = {})
=============================================================================
