----------------------------- MODULE HostPeers ------------------------------
(***************************************************************************)
(* The host's tick around the session: hta_net_server_pump drains the      *)
(* packets and drops the silent, then hta_host_peers                       *)
(* (src/src/app/host_net.c) gives every new peer a unit of the game, lets  *)
(* its controls drive it and takes the unit away when the peer is gone.    *)
(*                                                                         *)
(* The sessions are those of NetSession.  The host is one thread: each     *)
(* frame it pumps its own loopback client, drains what the sockets sent,   *)
(* drops the silent and visits the peer slots in order.  The other sockets *)
(* take their steps between two frames: what they send can have been sent  *)
(* before, and what the host sends is read after.                          *)
(***************************************************************************)
EXTENDS NetSession

CONSTANTS
    NumUnits,       \* HTA_GAME_MAX_UNITS
    HostSockets,    \* what may be the host's own loopback client; NoAddr: a headless host
    HostNonces,     \* the nonces it draws: no two sockets ever draw one nonce
    MayRefuse       \* can hta_survival_join fail?

Me == "me"

ASSUME HostAssumption ==
    /\ NumUnits \in Nat \ {0}
    /\ Me \notin Tokens \cup {NoToken}
    /\ HostSockets \subseteq Clients \cup {NoAddr} /\ HostNonces \subseteq Nonces
    /\ MayRefuse \in BOOLEAN

VARIABLES
    hostSocket, \* the host's own loopback client, NoAddr when it has no player
    phase,      \* where the host is: between two ticks or in a part of one
    visit,      \* the slot hta_host_peers comes to next
    peerUnit,   \* hta_session.peer_unit, NoUnit for -1
    body        \* the units that exist and whom each was made for: a peer's token, or Me

matchVars == <<hostSocket, phase, visit, peerUnit, body>>

Phases == {"frame", "own", "drain", "silence", "peers"}
Units == 1..NumUnits
NoUnit == 0
me == 1
HasOwn == hostSocket # NoAddr
HostsOwn(u) == HasOwn /\ u = me

MatchInit ==
    /\ Init
    /\ hostSocket \in HostSockets
    /\ \A c \in Clients : c = hostSocket <=> client[c].nonce \in HostNonces
    /\ phase = "frame" /\ visit = 1
    /\ peerUnit = [i \in Slots |-> NoUnit]
    /\ body = [u \in Units |-> IF HasOwn /\ u = me THEN Me ELSE NoToken]

-----------------------------------------------------------------------------
(* Between two ticks *)

ToOwn == {m \in toClient : m.to = hostSocket}
Others == Clients \ {hostSocket}

(* Numbered data only breaks the silence, which Elapse need not add to. *)
OthersStep ==
    \/ \E c \in Others : SendHello(c) \/ Close(c) \/ ClientTimeout(c)
    \/ \E m \in toClient \ ToOwn : ClientPacket(m)
    \/ Elapse
    \/ Lose

(* No two sockets draw one nonce; the loopback loses nothing. *)
Frame ==
    /\ phase = "frame"
    /\ OthersStep
    /\ \A c \in Others : client'[c].nonce \notin HostNonces
    /\ ToOwn \subseteq toClient'
    /\ UNCHANGED matchVars

EndFrame ==
    /\ phase = "frame" /\ phase' = IF HasOwn THEN "own" ELSE "drain"
    /\ UNCHANGED <<vars, hostSocket, visit, peerUnit, body>>

(* The pump of the host's own client, once a frame of the same thread. *)
OwnClient ==
    /\ phase = "own"
    /\ \/ SendHello(hostSocket)
       \/ ClientTimeout(hostSocket)
       \/ \E m \in ToOwn : ClientPacket(m)
    /\ client'[hostSocket].nonce \in HostNonces
    /\ UNCHANGED matchVars

EndOwnClient ==
    /\ phase = "own" /\ ToOwn = {}
    /\ Connected(hostSocket) => client[hostSocket].quiet < Silence
    /\ phase' = "drain"
    /\ UNCHANGED <<vars, hostSocket, visit, peerUnit, body>>

-----------------------------------------------------------------------------
(* hta_net_server_pump *)

(* A body keeps the token of the peer it was made for, so a token stays used
   as long as the body: random words do not repeat. *)
Drain ==
    /\ phase = "drain"
    /\ \E m \in toServer : ServerPacket(m)
    /\ \A i \in Slots : peer'[i].token # peer[i].token => \A u \in Units : body[u] # peer'[i].token
    /\ UNCHANGED matchVars

EndDrain ==
    /\ phase = "drain" /\ \A m \in toServer : m.from # hostSocket
    /\ phase' = "silence"
    /\ UNCHANGED <<vars, hostSocket, visit, peerUnit, body>>

DropSilent ==
    /\ phase = "silence"
    /\ \E i \in Slots : PeerTimeout(i)
    /\ UNCHANGED matchVars

EndSilence ==
    /\ phase = "silence" /\ \A i \in Active : peer[i].age < Silence
    /\ phase' = "peers" /\ visit' = 1
    /\ UNCHANGED <<vars, hostSocket, peerUnit, body>>

-----------------------------------------------------------------------------
(* hta_host_peers, one slot a step *)

(* mutant: the host knows its own client by its id alone *)
IsOwnById(i) == HasOwn /\ i = client[hostSocket].id

IsOwn(i) ==
    HasOwn /\ (i = client[hostSocket].id \/ peer[i].nonce = client[hostSocket].nonce)

(* mutant: the slot forgets its unit, the game does not *)
Forgotten(u) == body

(* hta_game_remove, of anything but the host's own unit *)
Removed(u) ==
    IF u \in Units /\ ~HostsOwn(u) THEN [body EXCEPT ![u] = NoToken] ELSE body

Gone(i) ==
    /\ ~peer[i].active
    /\ body' = Removed(peerUnit[i])
    /\ peerUnit' = [peerUnit EXCEPT ![i] = NoUnit]
    /\ UNCHANGED vars

OwnPeer(i) ==
    /\ peer[i].active /\ IsOwn(i)
    /\ peerUnit' = [peerUnit EXCEPT ![i] = me]
    /\ UNCHANGED <<vars, body>>

(* mutant: hta_game_add takes a unit without looking who is it *)
AnyUnit(u) == u \in Units /\ ~HostsOwn(u)

(* hta_game_add: the first unit that nobody is *)
FirstFreeUnit(u) == body[u] = NoToken /\ \A v \in Units : v < u => body[v] # NoToken

Remote(i) == peer[i].active /\ ~IsOwn(i)

NoRoom(i) ==
    /\ Remote(i) /\ peerUnit[i] = NoUnit
    /\ \A u \in Units : body[u] # NoToken
    /\ UNCHANGED <<vars, peerUnit, body>>

Added(i) ==
    /\ Remote(i) /\ peerUnit[i] = NoUnit
    /\ \E u \in Units :
          /\ FirstFreeUnit(u)
          /\ peerUnit' = [peerUnit EXCEPT ![i] = u]
          /\ body' = [body EXCEPT ![u] = peer[i].token]
    /\ UNCHANGED vars

(* mutant: the refused player stays a peer *)
RefusedStays(i) ==
    /\ MayRefuse
    /\ Remote(i) /\ peerUnit[i] = NoUnit /\ \E u \in Units : FirstFreeUnit(u)
    /\ UNCHANGED <<vars, peerUnit, body>>

(* Its profile cannot be loaded: the unit goes again, and the peer with it. *)
Refused(i) ==
    /\ MayRefuse
    /\ Remote(i) /\ peerUnit[i] = NoUnit /\ \E u \in Units : FirstFreeUnit(u)
    /\ peer' = [peer EXCEPT ![i].active = FALSE]
    /\ UNCHANGED <<info, tick, taken, client, toServer, toClient, peerUnit, body>>

(* A peer that has its unit: its controls go into it. *)
Drives(i) ==
    /\ Remote(i) /\ peerUnit[i] # NoUnit
    /\ UNCHANGED <<vars, peerUnit, body>>

(* mutant: the loop comes to one slot more than there are *)
OnwardTooFar ==
    IF visit <= MaxPlayers THEN visit' = visit + 1 /\ UNCHANGED phase
    ELSE visit' = 1 /\ phase' = "frame"

Onward ==
    IF visit < MaxPlayers THEN visit' = visit + 1 /\ UNCHANGED phase
    ELSE visit' = 1 /\ phase' = "frame"

Visit ==
    /\ phase = "peers"
    /\ Gone(visit) \/ OwnPeer(visit) \/ NoRoom(visit) \/ Added(visit) \/ Refused(visit) \/ Drives(visit)
    /\ Onward
    /\ UNCHANGED hostSocket

MatchNext ==
    \/ Frame \/ EndFrame \/ OwnClient \/ EndOwnClient
    \/ Drain \/ EndDrain \/ DropSilent \/ EndSilence \/ Visit

MatchSpec == MatchInit /\ [][MatchNext]_<<vars, matchVars>>

-----------------------------------------------------------------------------
(* Properties *)

MatchTypeOK ==
    /\ TypeOK
    /\ hostSocket \in HostSockets
    /\ phase \in Phases /\ visit \in Slots
    /\ peerUnit \in [Slots -> Units \cup {NoUnit}]
    /\ body \in [Units -> Tokens \cup {NoToken, Me}]

(* One unit is never driven from two slots, but the host's own, for a moment. *)
NoSharedUnit ==
    \A i, j \in Slots : peerUnit[i] = peerUnit[j] /\ i # j =>
        peerUnit[i] = NoUnit \/ HostsOwn(peerUnit[i])

(* No body stays in the game that no slot leads to: nobody would remove it.
   Where the host plays too its client may take a leaver's slot within one pump,
   and the leaver's body then stays: see UnitMadeForItsPeer. *)
NoGhosts ==
    ~HasOwn => \A u \in Units : body[u] \in Tokens => \E i \in Slots : peerUnit[i] = u

(* Bodies are the peers of the session: none is shared, none is left behind, and
   after every tick none is left to a player who is gone and, when there is one
   for every peer, no player waits for one. *)
BodiesAreThePeers ==
    /\ NoSharedUnit
    /\ NoGhosts
    /\ phase = "frame" => \A i \in Slots :
          /\ peerUnit[i] # NoUnit => i \in Active /\ body[peerUnit[i]] # NoToken
          /\ NumUnits >= MaxPlayers /\ ~HasOwn /\ i \in Active => peerUnit[i] # NoUnit

(* The host is never given a second, remote body for its own loopback client. *)
HostHasOneBody ==
    phase = "frame" => \A i \in Active : peer[i].addr = hostSocket => peerUnit[i] \in {me, NoUnit}

(* "Joiners into the game: a unit for each new peer ... and their unit removed
   when they leave" (host_net.h:9): a peer's unit was made for it. *)
UnitMadeForItsPeer ==
    phase = "frame" => \A i \in Active :
        peerUnit[i] # NoUnit /\ peer[i].addr # hostSocket => body[peerUnit[i]] = peer[i].token
=============================================================================
