------------------------------ MODULE KillFeed ------------------------------
(***************************************************************************)
(* The kill feed of one peer and its joiner (src/src/net/session.c): every *)
(* kill is kept by the host, per peer, until the joiner confirms it, and   *)
(* sent again every 0.15 s; the joiner knows the kills it took by their    *)
(* numbers and confirms a repeated one again.                              *)
(*                                                                         *)
(* The connection is NetSession's, told by its token alone: a new slot has *)
(* a new one, and a late WELCOME may put an earlier one back.  A confirm   *)
(* that the sequence check refuses is one that was lost.                   *)
(***************************************************************************)
EXTENDS Naturals, Sequences, Functions

CONSTANTS
    PendingSlots,   \* 16, the kills the host keeps for a peer
    QueueSize,      \* 32, the kills a joiner has not shown yet
    RingSize,       \* 64, the numbers it remembers
    MaxKill,        \* bound of the model: kills of the match
    MaxToken,       \* bound of the model: slots the joiner is given
    MaxTaken        \* bound of the model: the length of the history

ASSUME KillFeedAssumption ==
    /\ PendingSlots \in Nat \ {0} /\ QueueSize \in Nat \ {0} /\ RingSize \in Nat \ {0}
    /\ MaxKill \in Nat /\ MaxToken \in Nat /\ MaxTaken \in Nat

VARIABLES
    nextKill,   \* hta_net_server.next_kill_id
    token,      \* the last token drawn for the joiner
    peer,       \* the token of its active slot, NoToken for none
    pending,    \* pending_kills of the slot, NoKill for a free place
    client,     \* the token the joiner sends, NoToken when not connected
    outdated,   \* tokens up to this one were drawn for nonces it no longer uses
    queue,      \* kills
    seen,       \* seen_kills, the oldest number first
    kills,      \* KILL packets in flight
    acks,       \* ACK packets in flight: their token and number
    taken       \* history: the kills queued since the joiner last timed out

hostVars == <<nextKill, token, peer, pending>>
joinerVars == <<client, outdated, queue, seen, taken>>
netVars == <<kills, acks>>
vars == <<hostVars, joinerVars, netVars>>

NoKill == 0
NoToken == 0
Kills == 1..MaxKill
Places == 0..PendingSlots - 1

NoPending == [p \in Places |-> NoKill]

Init ==
    /\ nextKill = 0 /\ token = NoToken /\ peer = NoToken
    /\ pending = NoPending
    /\ client = NoToken /\ outdated = NoToken
    /\ queue = <<>> /\ seen = <<>> /\ taken = <<>>
    /\ kills = {} /\ acks = {}

-----------------------------------------------------------------------------
(* The connection *)

PendingOfNewPeer == NoPending

HostAccepts ==
    /\ peer = NoToken /\ token < MaxToken
    /\ token' = token + 1 /\ peer' = token'
    /\ pending' = PendingOfNewPeer
    /\ UNCHANGED <<nextKill, joinerVars, netVars>>

(* DISCONNECT or 10 s of silence *)
HostDrops ==
    /\ peer # NoToken
    /\ peer' = NoToken
    /\ UNCHANGED <<nextKill, token, pending, joinerVars, netVars>>

Welcome ==
    /\ \E t \in outdated + 1..token : t # client /\ client' = t
    /\ UNCHANGED <<hostVars, outdated, queue, seen, taken, netVars>>

JoinerTimesOut ==
    /\ client # NoToken
    /\ client' = NoToken /\ outdated' = token
    /\ queue' = <<>> /\ seen' = <<>> /\ taken' = <<>>
    /\ UNCHANGED <<hostVars, netVars>>

-----------------------------------------------------------------------------
(* The host *)

Pending == {p \in Places : pending[p] # NoKill}
FirstFreePlace(p) == p \in Places \ Pending /\ \A q \in Places : q < p => q \in Pending

(* All places taken: the first gives way. *)
PlaceForKill(p) == FirstFreePlace(p) \/ (Pending = Places /\ p = 0)

(* hta_net_server_kill; a kill nobody is there to hear of still has a number *)
ServerKill ==
    /\ nextKill < MaxKill
    /\ nextKill' = nextKill + 1
    /\ IF peer # NoToken
       THEN /\ \E p \in Places : PlaceForKill(p) /\ pending' = [pending EXCEPT ![p] = nextKill']
            /\ kills' = kills \cup {nextKill'}
       ELSE UNCHANGED <<pending, kills>>
    /\ UNCHANGED <<token, peer, joinerVars, acks>>

(* The pump, 0.15 s after the last time *)
SendAgain(p) ==
    /\ peer # NoToken /\ p \in Pending
    /\ kills' = kills \cup {pending[p]}
    /\ UNCHANGED <<hostVars, joinerVars, acks>>

Confirms(ack) == peer # NoToken /\ ack.token = peer

(* A packet that arrives may arrive once more. *)
Arrives(net, packet) == {net, net \ {packet}}

ServerAck(ack) ==
    /\ ack \in acks
    /\ pending' = IF Confirms(ack)
          THEN [p \in Places |-> IF pending[p] = ack.id THEN NoKill ELSE pending[p]]
          ELSE pending
    /\ acks' \in Arrives(acks, ack)
    /\ UNCHANGED <<nextKill, token, peer, joinerVars, kills>>

-----------------------------------------------------------------------------
(* The joiner *)

Ack(id) == acks' = acks \cup {[token |-> client, id |-> id]}

Seen(id) == id \in Range(seen)

(* mutant: one number fewer is remembered than the ring has room for *)
RememberedShort(id) == IF Len(seen) + 1 >= RingSize THEN Append(Tail(seen), id) ELSE Append(seen, id)

Remembered(id) == IF Len(seen) >= RingSize THEN Append(Tail(seen), id) ELSE Append(seen, id)

(* mutant: one kill more than the queue holds *)
RoomForOneMore == Len(queue) <= QueueSize

Room == Len(queue) < QueueSize

NewKill(id) ==
    /\ ~Seen(id) /\ Room /\ Len(taken) < MaxTaken
    /\ queue' = Append(queue, id) /\ taken' = Append(taken, id)
    /\ seen' = Remembered(id)
    /\ Ack(id)

(* mutant: a kill is confirmed once *)
RepeatedKillSilent(id) == Seen(id) /\ UNCHANGED <<queue, taken, seen, acks>>

RepeatedKill(id) ==
    /\ Seen(id)
    /\ Ack(id)
    /\ UNCHANGED <<queue, taken, seen>>

(* mutant: it is confirmed all the same *)
NoRoomForKillAcked(id) ==
    /\ ~Seen(id) /\ ~Room
    /\ Ack(id)
    /\ UNCHANGED <<queue, taken, seen>>

NoRoomForKill(id) ==
    /\ ~Seen(id) /\ ~Room
    /\ UNCHANGED <<queue, taken, seen, acks>>

ClientKill(id) ==
    /\ id \in kills /\ client # NoToken
    /\ NewKill(id) \/ RepeatedKill(id) \/ NoRoomForKill(id)
    /\ kills' \in Arrives(kills, id)
    /\ UNCHANGED <<hostVars, client, outdated>>

(* hta_net_client_pop_kill *)
PopKill ==
    /\ queue # <<>>
    /\ queue' = Tail(queue)
    /\ UNCHANGED <<hostVars, client, outdated, seen, taken, netVars>>

-----------------------------------------------------------------------------

Lose ==
    /\ \/ \E id \in kills : kills' = kills \ {id} /\ UNCHANGED acks
       \/ \E ack \in acks : acks' = acks \ {ack} /\ UNCHANGED kills
    /\ UNCHANGED <<hostVars, joinerVars>>

Next ==
    \/ HostAccepts \/ HostDrops \/ Welcome \/ JoinerTimesOut
    \/ ServerKill \/ \E p \in Places : SendAgain(p)
    \/ \E ack \in acks : ServerAck(ack)
    \/ \E id \in kills : ClientKill(id)
    \/ PopKill \/ Lose

Spec == Init /\ [][Next]_vars

-----------------------------------------------------------------------------
(* Properties *)

Joined == peer # NoToken /\ client = peer
Due == IF peer = NoToken THEN {} ELSE {pending[p] : p \in Pending}

Promise == INSTANCE Feed WITH
    Notices <- Kills, Window <- RingSize, due <- Due, taken <- taken, joined <- Joined

(* The kill feed keeps its promise to the joiner: through losses, repeats,
   reconnects of either side and full queues no kill is confirmed untaken,
   forgotten unconfirmed or, within the ring, taken twice. *)
KeepsPromise == Promise!FeedSpec

KillFeedTypeOK ==
    /\ nextKill \in Kills \cup {NoKill} /\ token \in Nat
    /\ peer \in 0..token /\ client \in 0..token /\ outdated \in 0..token
    /\ pending \in [Places -> 0..nextKill]
    /\ kills \subseteq 1..nextKill
    /\ acks \subseteq [token : 1..token, id : 1..nextKill]
    /\ Len(queue) <= QueueSize /\ Len(seen) <= RingSize
    /\ queue \in Seq(1..nextKill) /\ seen \in Seq(1..nextKill) /\ taken \in Seq(1..nextKill)

(* What makes it so: the numbers remembered are those of the last kills taken,
   and a confirm in flight of the present greeting names a kill taken. *)
RingHoldsTheLast ==
    /\ Len(seen) = IF Len(taken) < RingSize THEN Len(taken) ELSE RingSize
    /\ \A j \in DOMAIN seen : seen[j] = taken[Len(taken) - Len(seen) + j]
ConfirmsAreTrue ==
    /\ client # NoToken => client > outdated
    /\ \A ack \in acks : ack.token > outdated => ack.id \in Range(taken)
FeedInv == KillFeedTypeOK /\ RingHoldsTheLast /\ ConfirmsAreTrue

-----------------------------------------------------------------------------
(* The pumps send again what is due and the joiner's frame empties its queue;
   a packet sent again and again gets through. *)

TakesKill(id) ==
    /\ ClientKill(id)
    /\ kills' = kills \ {id}
    /\ [token |-> client, id |-> id] \in acks'
TakesConfirm(id) ==
    \E ack \in acks : ack.id = id /\ ServerAck(ack) /\ acks' = acks \ {ack}

Fairness ==
    /\ WF_vars(PopKill)
    /\ \A p \in Places : WF_vars(SendAgain(p))
    /\ \A id \in Kills : SF_vars(TakesKill(id)) /\ SF_vars(TakesConfirm(id))

FairSpec == Spec /\ Fairness

(* Once host and joiner stay together everything due is taken and the host
   stops repeating it (unless the history of the model is full before). *)
FeedGoesQuiet == <>[]Joined => <>[](Due = {}) \/ <>[](Len(taken) = MaxTaken)
=============================================================================
