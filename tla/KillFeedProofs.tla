--------------------------- MODULE KillFeedProofs ---------------------------
(***************************************************************************)
(* The kill feed implements its promise, for every size of the tables.     *)
(*                                                                         *)
(* FeedInv is the inductive invariant: the remembered numbers are the end  *)
(* of what was taken, so a number not remembered is not among the last     *)
(* RingSize; and a confirm in flight that carries a token of the joiner's  *)
(* present greeting names a kill it took since it last started anew, so    *)
(* the host, joined to it, crosses off only what was taken.                *)
(***************************************************************************)
EXTENDS KillFeed, SequenceTheorems, TLAPS

(* One more element at the end of a sequence and of a window on its end. *)
LEMMA WindowGrows ==
    ASSUME NEW S, NEW s \in Seq(S), NEW t \in Seq(S), NEW e \in S, NEW d \in Nat,
           Len(t) = Len(s) + d,
           \A j \in 1..Len(s) : s[j] = t[d + j]
    PROVE  /\ Append(s, e) \in Seq(S) /\ Len(Append(s, e)) = Len(s) + 1
           /\ Len(Append(t, e)) = Len(Append(s, e)) + d
           /\ \A j \in 1..Len(s) + 1 : Append(s, e)[j] = Append(t, e)[d + j]
  <1>1. /\ Append(s, e) \in Seq(S) /\ Len(Append(s, e)) = Len(s) + 1
        /\ \A j \in 1..Len(s) : Append(s, e)[j] = s[j]
        /\ Append(s, e)[Len(s) + 1] = e
    BY AppendProperties
  <1>2. /\ Len(Append(t, e)) = Len(t) + 1
        /\ \A j \in 1..Len(t) : Append(t, e)[j] = t[j]
        /\ Append(t, e)[Len(t) + 1] = e
    BY AppendProperties
  <1>3. Len(s) \in Nat /\ Len(t) \in Nat
    OBVIOUS
  <1>4. ASSUME NEW j \in 1..Len(s) + 1 PROVE Append(s, e)[j] = Append(t, e)[d + j]
    <2>1. CASE j = Len(s) + 1
      BY <1>1, <1>2, <1>3, <2>1
    <2>2. CASE j \in 1..Len(s)
      <3>1. d + j \in 1..Len(t)
        BY <1>3, <2>2
      <3> QED
        BY <1>1, <1>2, <2>2, <3>1
    <2> QED
      BY <1>3, <2>1, <2>2
  <1>5. Len(Append(t, e)) = Len(Append(s, e)) + d
    BY <1>1, <1>2, <1>3
  <1> QED
    BY <1>1, <1>4, <1>5

(* A kill's number, remembered, is the newest of a window on what was taken. *)
LEMMA RememberedSeq ==
    ASSUME FeedInv, NEW id \in 1..nextKill
    PROVE  /\ Remembered(id) \in Seq(1..nextKill)
           /\ Len(Remembered(id)) = IF Len(taken) + 1 < RingSize THEN Len(taken) + 1 ELSE RingSize
           /\ \A j \in 1..Len(Remembered(id)) :
                 Remembered(id)[j] = Append(taken, id)[Len(taken) + 1 - Len(Remembered(id)) + j]
  <1>1. seen \in Seq(1..nextKill) /\ taken \in Seq(1..nextKill) /\ RingSize \in Nat \ {0}
    BY KillFeedAssumption DEF FeedInv, KillFeedTypeOK
  <1>2. Len(seen) \in Nat /\ Len(taken) \in Nat /\ DOMAIN seen = 1..Len(seen)
    BY <1>1
  <1>3. /\ Len(seen) = IF Len(taken) < RingSize THEN Len(taken) ELSE RingSize
        /\ \A j \in 1..Len(seen) : seen[j] = taken[Len(taken) - Len(seen) + j]
    BY <1>2 DEF FeedInv, RingHoldsTheLast
  <1>4. CASE Len(seen) < RingSize
    <2>1. Remembered(id) = Append(seen, id) /\ Len(taken) = Len(seen) + 0
      BY <1>1, <1>2, <1>3, <1>4 DEF Remembered
    <2>2. \A j \in 1..Len(seen) : seen[j] = taken[0 + j]
      BY <1>2, <1>3, <2>1
    <2>3. /\ Append(seen, id) \in Seq(1..nextKill) /\ Len(Append(seen, id)) = Len(seen) + 1
          /\ \A j \in 1..Len(seen) + 1 : Append(seen, id)[j] = Append(taken, id)[0 + j]
      BY <1>1, <2>1, <2>2, WindowGrows
    <2> QED
      BY <1>1, <1>2, <1>4, <2>1, <2>3
  <1>5. CASE Len(seen) >= RingSize
    <2> DEFINE rest == Tail(seen)
               d == Len(taken) - (RingSize - 1)
    <2>1. Remembered(id) = Append(rest, id) /\ Len(seen) = RingSize /\ Len(taken) >= RingSize
      BY <1>1, <1>2, <1>3, <1>5 DEF Remembered
    <2>2. rest \in Seq(1..nextKill) /\ Len(rest) = RingSize - 1
          /\ \A j \in 1..RingSize - 1 : rest[j] = seen[j + 1]
      BY <1>1, <2>1
    <2>3. d \in Nat /\ Len(taken) = Len(rest) + d
      BY <1>1, <1>2, <2>1, <2>2
    <2>4. ASSUME NEW j \in 1..Len(rest) PROVE rest[j] = taken[d + j]
      <3>1. j \in 1..RingSize - 1 /\ j + 1 \in 1..Len(seen)
        BY <1>1, <2>1, <2>2
      <3>2. rest[j] = seen[j + 1] /\ seen[j + 1] = taken[Len(taken) - RingSize + (j + 1)]
        BY <1>3, <2>1, <2>2, <3>1
      <3>3. Len(taken) - RingSize + (j + 1) = d + j
        BY <1>1, <1>2, <3>1
      <3> QED
        BY <3>2, <3>3
    <2>5. /\ Append(rest, id) \in Seq(1..nextKill) /\ Len(Append(rest, id)) = Len(rest) + 1
          /\ \A j \in 1..Len(rest) + 1 : Append(rest, id)[j] = Append(taken, id)[d + j]
      <3> DEFINE S == 1..nextKill
      <3>1. rest \in Seq(S) /\ taken \in Seq(S) /\ id \in S
        BY <1>1, <2>2
      <3> HIDE DEF rest, d, S
      <3>2. /\ Append(rest, id) \in Seq(S) /\ Len(Append(rest, id)) = Len(rest) + 1
            /\ \A j \in 1..Len(rest) + 1 : Append(rest, id)[j] = Append(taken, id)[d + j]
        BY <2>3, <2>4, <3>1, WindowGrows
      <3> QED
        BY <3>2 DEF S
    <2>6. Len(Remembered(id)) = RingSize /\ Len(taken) + 1 - RingSize = d
      <3> HIDE DEF rest
      <3> QED
        BY <1>1, <1>2, <2>1, <2>2, <2>5
    <2>7. \A j \in 1..RingSize : Remembered(id)[j] = Append(taken, id)[d + j]
      <3>1. Len(rest) + 1 = RingSize
        BY <1>1, <2>2
      <3> HIDE DEF rest, d
      <3> QED
        BY <2>1, <2>5, <3>1
    <2>8. RingSize = IF Len(taken) + 1 < RingSize THEN Len(taken) + 1 ELSE RingSize
      BY <1>1, <1>2, <2>1
    <2> HIDE DEF rest, d
    <2> QED
      BY <2>1, <2>5, <2>6, <2>7, <2>8
  <1>6. Len(seen) < RingSize \/ Len(seen) >= RingSize
    BY <1>1, <1>2
  <1> QED
    BY <1>4, <1>5, <1>6

(* A number that is not remembered is none of the last RingSize taken. *)
LEMMA UnseenIsNew ==
    ASSUME FeedInv, NEW id, ~Seen(id)
    PROVE  id \notin Promise!LastTaken
  <1> SUFFICES ASSUME NEW j \in DOMAIN taken, j + RingSize > Len(taken), taken[j] = id
               PROVE  FALSE
    BY DEF Promise!LastTaken
  <1> USE KillFeedAssumption DEF FeedInv, KillFeedTypeOK, RingHoldsTheLast
  <1>1. seen \in Seq(1..nextKill) /\ taken \in Seq(1..nextKill) /\ RingSize \in Nat \ {0}
    OBVIOUS
  <1>2. j - (Len(taken) - Len(seen)) \in DOMAIN seen
    BY <1>1
  <1> QED
    BY <1>1, <1>2 DEF Seen, Range

-----------------------------------------------------------------------------
(* The invariant *)

LEMMA FeedInvInit == Init => FeedInv
  <1> SUFFICES ASSUME Init PROVE FeedInv
    OBVIOUS
  <1> USE KillFeedAssumption DEF Init, NoKill, NoToken
  <1>1. KillFeedTypeOK
    BY DEF KillFeedTypeOK, Kills, NoPending, Places
  <1>2. RingHoldsTheLast /\ ConfirmsAreTrue
    BY DEF RingHoldsTheLast, ConfirmsAreTrue
  <1> QED
    BY <1>1, <1>2 DEF FeedInv

(* A kill that arrives. *)
LEMMA ClientKillInv ==
    ASSUME FeedInv, NEW id \in kills, ClientKill(id)
    PROVE  FeedInv'
  <1> USE KillFeedAssumption
  <1>1. /\ id \in 1..nextKill /\ client \in 1..token
        /\ queue \in Seq(1..nextKill) /\ taken \in Seq(1..nextKill) /\ seen \in Seq(1..nextKill)
    BY DEF FeedInv, KillFeedTypeOK, ClientKill, NoToken
  <1>2. kills' \subseteq 1..nextKill /\ UNCHANGED <<hostVars, client, outdated>>
    BY DEF FeedInv, KillFeedTypeOK, ClientKill, Arrives
  <1>3. ASSUME Ack(id), id \in Range(taken'), Range(taken) \subseteq Range(taken')
        PROVE  /\ acks' \subseteq [token : 1..token, id : 1..nextKill]
               /\ ConfirmsAreTrue'
    BY <1>1, <1>2, <1>3 DEF Ack, FeedInv, KillFeedTypeOK, ConfirmsAreTrue
  <1>4. CASE NewKill(id)
    <2>1. /\ taken' = Append(taken, id) /\ queue' = Append(queue, id) /\ seen' = Remembered(id)
          /\ Ack(id) /\ Len(queue) < QueueSize
      BY <1>4 DEF NewKill, Room
    <2>2. /\ taken' \in Seq(1..nextKill) /\ Len(taken') = Len(taken) + 1
          /\ taken'[Len(taken) + 1] = id
          /\ \A j \in 1..Len(taken) : taken'[j] = taken[j]
      BY <1>1, <2>1, AppendProperties
    <2>3. id \in Range(taken') /\ Range(taken) \subseteq Range(taken')
      <3>1. Len(taken) \in Nat /\ DOMAIN taken = 1..Len(taken) /\ DOMAIN taken' = 1..Len(taken) + 1
        BY <1>1, <2>2
      <3> QED
        BY <2>2, <3>1 DEF Range
    <2>4. queue' \in Seq(1..nextKill) /\ Len(queue') = Len(queue) + 1
      BY <1>1, <2>1, AppendProperties
    <2>5. /\ seen' \in Seq(1..nextKill)
          /\ Len(seen') = IF Len(taken') < RingSize THEN Len(taken') ELSE RingSize
          /\ \A j \in 1..Len(seen') : seen'[j] = taken'[Len(taken') - Len(seen') + j]
      <3> HIDE DEF FeedInv
      <3>1. /\ seen' \in Seq(1..nextKill)
            /\ Len(seen') = IF Len(taken) + 1 < RingSize THEN Len(taken) + 1 ELSE RingSize
            /\ \A j \in 1..Len(seen') : seen'[j] = taken'[Len(taken) + 1 - Len(seen') + j]
        BY <1>1, <2>1, RememberedSeq, Zenon
      <3>2. Len(taken') = Len(taken) + 1
        BY <2>2
      <3>3. Len(seen') = IF Len(taken') < RingSize THEN Len(taken') ELSE RingSize
        BY <3>1, <3>2
      <3>4. ASSUME NEW j \in 1..Len(seen')
            PROVE  seen'[j] = taken'[Len(taken') - Len(seen') + j]
        <4>1. seen'[j] = taken'[Len(taken) + 1 - Len(seen') + j]
          BY <3>1, Zenon
        <4>2. Len(taken') - Len(seen') + j = Len(taken) + 1 - Len(seen') + j
          BY <3>2
        <4> QED
          BY <4>1, <4>2, Zenon
      <3> QED
        BY <3>1, <3>3, <3>4, Zenon
    <2>6. Len(queue') <= QueueSize /\ Len(seen') <= RingSize
      <3>1. Len(queue) \in Nat /\ Len(taken) \in Nat
        BY <1>1
      <3> QED
        BY <2>1, <2>2, <2>4, <2>5, <3>1
    <2>7. KillFeedTypeOK'
      BY <1>2, <1>3, <2>1, <2>2, <2>3, <2>4, <2>5, <2>6 DEF FeedInv, KillFeedTypeOK, hostVars
    <2>8. RingHoldsTheLast'
      <3>1. DOMAIN seen' = 1..Len(seen')
        BY <2>5
      <3> QED
        BY <2>5, <3>1 DEF RingHoldsTheLast
    <2> QED
      BY <1>3, <2>1, <2>3, <2>7, <2>8 DEF FeedInv
  <1>5. CASE RepeatedKill(id)
    <2>1. id \in Range(taken)
      <3>1. PICK j \in DOMAIN seen : seen[j] = id
        BY <1>5 DEF RepeatedKill, Seen, Range
      <3>2. Len(taken) - Len(seen) + j \in DOMAIN taken
        BY <1>1, <3>1 DEF FeedInv, RingHoldsTheLast
      <3> QED
        BY <3>1, <3>2 DEF FeedInv, RingHoldsTheLast, Range
    <2>2. UNCHANGED <<queue, taken, seen>> /\ Ack(id)
      BY <1>5 DEF RepeatedKill
    <2> QED
      BY <1>2, <1>3, <2>1, <2>2 DEF FeedInv, KillFeedTypeOK, RingHoldsTheLast, hostVars
  <1>6. CASE NoRoomForKill(id)
    BY <1>2, <1>6 DEF NoRoomForKill, FeedInv, KillFeedTypeOK, RingHoldsTheLast, ConfirmsAreTrue, hostVars
  <1> QED
    BY <1>4, <1>5, <1>6 DEF ClientKill

LEMMA FeedInvStep == FeedInv /\ [Next]_vars => FeedInv'
  <1> SUFFICES ASSUME FeedInv, [Next]_vars PROVE FeedInv'
    OBVIOUS
  <1> USE KillFeedAssumption DEF FeedInv, NoKill, NoToken
  <1>t. token \in Nat /\ nextKill \in Nat /\ PendingSlots \in Nat \ {0}
    BY DEF KillFeedTypeOK, Kills
  <1>r. ASSUME UNCHANGED <<seen, taken>> PROVE RingHoldsTheLast'
    BY <1>r DEF RingHoldsTheLast
  <1>c. ASSUME UNCHANGED <<client, outdated, taken>>, acks' \subseteq acks PROVE ConfirmsAreTrue'
    BY <1>c DEF ConfirmsAreTrue
  <1>1. CASE HostAccepts
    <2>1. token' = token + 1 /\ peer' = token' /\ pending' = NoPending
          /\ UNCHANGED <<nextKill, joinerVars, netVars>>
      BY <1>1 DEF HostAccepts, PendingOfNewPeer
    <2>2. pending' \in [Places -> 0..nextKill] /\ acks' \subseteq [token : 1..token', id : 1..nextKill']
      BY <1>t, <2>1 DEF KillFeedTypeOK, NoPending, netVars
    <2>3. KillFeedTypeOK'
      BY <1>t, <2>1, <2>2 DEF KillFeedTypeOK, joinerVars, netVars
    <2> QED
      BY <1>r, <1>c, <2>1, <2>3 DEF joinerVars, netVars
  <1>2. CASE HostDrops
    <2>1. KillFeedTypeOK'
      BY <1>t, <1>2 DEF HostDrops, KillFeedTypeOK, joinerVars, netVars
    <2> QED
      BY <1>r, <1>c, <1>2, <2>1 DEF HostDrops, joinerVars, netVars
  <1>3. CASE Welcome
    <2>1. PICK t \in outdated + 1..token : client' = t
      BY <1>3 DEF Welcome
    <2>2. UNCHANGED <<hostVars, outdated, queue, seen, taken, netVars>>
      BY <1>3 DEF Welcome
    <2>3. client' \in 0..token /\ client' > outdated
      BY <1>t, <2>1 DEF KillFeedTypeOK
    <2>4. KillFeedTypeOK'
      BY <2>2, <2>3 DEF KillFeedTypeOK, hostVars, netVars
    <2>5. ConfirmsAreTrue'
      BY <2>2, <2>3 DEF ConfirmsAreTrue, netVars
    <2> QED
      BY <1>r, <2>2, <2>4, <2>5
  <1>4. CASE JoinerTimesOut
    <2>1. KillFeedTypeOK'
      BY <1>t, <1>4 DEF JoinerTimesOut, KillFeedTypeOK, hostVars, netVars
    <2>2. RingHoldsTheLast' /\ ConfirmsAreTrue'
      BY <1>t, <1>4 DEF JoinerTimesOut, KillFeedTypeOK, RingHoldsTheLast, ConfirmsAreTrue, hostVars, netVars
    <2> QED
      BY <2>1, <2>2
  <1>5. CASE ServerKill
    <2>1. nextKill' = nextKill + 1 /\ nextKill' \in Kills
          /\ UNCHANGED <<token, peer, joinerVars, acks>>
      BY <1>t, <1>5 DEF ServerKill, Kills
    <2>2. /\ pending \in [Places -> 0..nextKill'] /\ kills \subseteq 1..nextKill'
          /\ acks \subseteq [token : 1..token, id : 1..nextKill']
      BY <1>t, <2>1 DEF KillFeedTypeOK
    <2>3. pending' \in [Places -> 0..nextKill'] /\ kills' \subseteq 1..nextKill'
      <3>1. CASE peer = 0
        BY <1>5, <2>2, <3>1 DEF ServerKill
      <3>2. CASE peer # 0
        <4>1. PICK p \in Places : pending' = [pending EXCEPT ![p] = nextKill']
          BY <1>5, <3>2 DEF ServerKill
        <4>2. kills' = kills \cup {nextKill'}
          BY <1>5, <3>2 DEF ServerKill
        <4> QED
          BY <1>t, <2>1, <2>2, <4>1, <4>2
      <3> QED
        BY <3>1, <3>2
    <2>4. \A s \in Seq(1..nextKill) : s \in Seq(1..nextKill')
      BY <1>t, <2>1
    <2>5. KillFeedTypeOK'
      BY <1>t, <2>1, <2>2, <2>3, <2>4 DEF KillFeedTypeOK, joinerVars
    <2> QED
      BY <1>r, <1>c, <2>1, <2>5 DEF joinerVars
  <1>6. CASE \E p \in Places : SendAgain(p)
    <2>1. PICK p \in Places : SendAgain(p)
      BY <1>6
    <2>2. pending[p] \in 1..nextKill
      BY <1>t, <2>1 DEF SendAgain, Pending, KillFeedTypeOK
    <2>3. KillFeedTypeOK'
      BY <2>1, <2>2 DEF SendAgain, KillFeedTypeOK, hostVars, joinerVars
    <2> QED
      BY <1>r, <1>c, <2>1, <2>3 DEF SendAgain, hostVars, joinerVars
  <1>7. CASE \E ack \in acks : ServerAck(ack)
    <2>1. PICK ack \in acks : ServerAck(ack)
      BY <1>7
    <2>2. pending' \in [Places -> 0..nextKill] /\ acks' \subseteq acks
      BY <1>t, <2>1 DEF ServerAck, Arrives, KillFeedTypeOK
    <2>3. KillFeedTypeOK'
      BY <2>1, <2>2 DEF ServerAck, KillFeedTypeOK, joinerVars
    <2> QED
      BY <1>r, <1>c, <2>1, <2>2, <2>3 DEF ServerAck, joinerVars
  <1>8. CASE \E id \in kills : ClientKill(id)
    BY <1>8, ClientKillInv
  <1>9. CASE PopKill
    <2>1. queue \in Seq(1..nextKill) /\ queue # <<>>
      BY <1>9 DEF PopKill, KillFeedTypeOK
    <2>2. Tail(queue) \in Seq(1..nextKill) /\ Len(Tail(queue)) = Len(queue) - 1
      BY <2>1, HeadTailProperties
    <2>3. queue' \in Seq(1..nextKill) /\ Len(queue') <= QueueSize
      BY <1>9, <2>1, <2>2 DEF PopKill, KillFeedTypeOK
    <2>4. KillFeedTypeOK'
      BY <1>9, <2>3 DEF PopKill, KillFeedTypeOK, hostVars, netVars
    <2> QED
      BY <1>r, <1>c, <1>9, <2>4 DEF PopKill, hostVars, netVars
  <1>10. CASE Lose
    <2>1. kills' \subseteq kills /\ acks' \subseteq acks /\ UNCHANGED <<hostVars, joinerVars>>
      BY <1>10 DEF Lose
    <2>2. KillFeedTypeOK'
      BY <2>1 DEF KillFeedTypeOK, hostVars, joinerVars
    <2> QED
      BY <1>r, <1>c, <2>1, <2>2 DEF joinerVars
  <1>11. CASE UNCHANGED vars
    BY <1>11 DEF KillFeedTypeOK, RingHoldsTheLast, ConfirmsAreTrue, vars, hostVars, joinerVars, netVars
  <1> QED
    BY <1>1, <1>2, <1>3, <1>4, <1>5, <1>6, <1>7, <1>8, <1>9, <1>10, <1>11 DEF Next

LEMMA FeedInvariant == Spec => []FeedInv
  BY FeedInvInit, FeedInvStep, PTL DEF Spec

(* The queue and the ring of numbers are never overrun and every number in a
   packet or a table is that of a kill. *)
THEOREM FeedTypeInvariant == Spec => []KillFeedTypeOK
  <1>1. FeedInv => KillFeedTypeOK
    BY DEF FeedInv
  <1> QED
    BY FeedInvariant, <1>1, PTL

-----------------------------------------------------------------------------
(* The refinement *)

LEMMA DueAreKills == FeedInv => Due \subseteq 1..nextKill /\ 1..nextKill \subseteq Kills
  <1> SUFFICES ASSUME FeedInv PROVE Due \subseteq 1..nextKill /\ 1..nextKill \subseteq Kills
    OBVIOUS
  <1>1. nextKill \in Nat /\ (nextKill = 0 \/ nextKill \in 1..MaxKill) /\ MaxKill \in Nat
    BY KillFeedAssumption DEF FeedInv, KillFeedTypeOK, Kills, NoKill
  <1>2. pending \in [Places -> 0..nextKill]
    BY DEF FeedInv, KillFeedTypeOK
  <1> QED
    BY <1>1, <1>2 DEF Due, Pending, NoKill, Kills

(* What the feed promises is a function of the slot and what was taken. *)
LEMMA PromiseStutters ==
    ASSUME UNCHANGED <<peer, pending, client, taken>>
    PROVE  UNCHANGED Promise!feedVars
  <1>1. Due' = Due /\ taken' = taken
    BY DEF Due, Pending
  <1>2. Joined' = Joined
    BY DEF Joined
  <1> QED
    BY <1>1, <1>2 DEF Promise!feedVars

LEMMA ServerKillPromise ==
    ASSUME FeedInv, ServerKill
    PROVE  [Promise!FeedNext]_Promise!feedVars
  <1>0. nextKill \in Nat
    BY KillFeedAssumption DEF FeedInv, KillFeedTypeOK, Kills, NoKill
  <1>1. nextKill' = nextKill + 1 /\ nextKill' \in Kills /\ UNCHANGED <<peer, client, taken>>
    BY <1>0, KillFeedAssumption DEF ServerKill, Kills, joinerVars
  <1>2. CASE peer = NoToken
    BY <1>1, <1>2, PromiseStutters DEF ServerKill
  <1>3. CASE peer # NoToken
    <2>1. PICK p \in Places : pending' = [pending EXCEPT ![p] = nextKill']
      BY <1>3 DEF ServerKill
    <2>2. pending \in [Places -> 0..nextKill]
      BY DEF FeedInv, KillFeedTypeOK
    <2>3. nextKill' \notin Due
      BY <1>0, <1>1, DueAreKills
    <2>4. nextKill' \in Due' /\ Due' \subseteq Due \cup {nextKill'}
      BY <1>0, <1>1, <1>3, <2>1, <2>2 DEF Due, Pending, NoKill
    <2>5. \E given \in SUBSET Due : Due' = (Due \ given) \cup {nextKill'}
      <3>1. Due' = (Due \ (Due \ Due')) \cup {nextKill'}
        BY <2>4
      <3> QED
        BY <3>1
    <2>6. Joined' = Joined
      BY <1>1 DEF Joined
    <2>7. Promise!Announce(nextKill')
      BY <1>1, <2>3, <2>5, <2>6 DEF Promise!Announce
    <2> QED
      BY <1>1, <2>7 DEF Promise!FeedNext
  <1> QED
    BY <1>2, <1>3

LEMMA ServerAckPromise ==
    ASSUME FeedInv, NEW ack \in acks, ServerAck(ack)
    PROVE  [Promise!FeedNext]_Promise!feedVars
  <1>1. UNCHANGED <<peer, client, taken>>
    BY DEF ServerAck, joinerVars
  <1>2. CASE ~Confirms(ack)
    BY <1>1, <1>2, PromiseStutters DEF ServerAck
  <1>3. CASE Confirms(ack)
    <2>1. pending' = [p \in Places |-> IF pending[p] = ack.id THEN NoKill ELSE pending[p]]
      BY <1>3 DEF ServerAck
    <2>2. ack.id # NoKill /\ pending \in [Places -> 0..nextKill]
      BY DEF FeedInv, KillFeedTypeOK, NoKill
    <2>3. Due' = Due \ {ack.id}
      BY <1>1, <1>3, <2>1, <2>2 DEF Due, Pending, Confirms
    <2>4. Joined' = Joined
      BY <1>1 DEF Joined
    <2>5. Joined => ack.id \in Range(taken)
      BY <1>3 DEF Joined, Confirms, FeedInv, ConfirmsAreTrue
    <2>6. CASE ack.id \in Due
      <3>1. Promise!Confirm(ack.id)
        BY <1>1, <2>3, <2>4, <2>5, <2>6 DEF Promise!Confirm, Promise!Range, Range
      <3> QED
        BY <2>6, <3>1, DueAreKills DEF Promise!FeedNext
    <2>7. CASE ack.id \notin Due
      <3>1. Due' = Due
        BY <2>3, <2>7
      <3> QED
        BY <1>1, <2>4, <3>1 DEF Promise!feedVars
    <2> QED
      BY <2>6, <2>7
  <1> QED
    BY <1>2, <1>3

LEMMA ClientKillPromise ==
    ASSUME FeedInv, NEW id \in kills, ClientKill(id)
    PROVE  [Promise!FeedNext]_Promise!feedVars
  <1>1. UNCHANGED <<peer, pending, client>>
    BY DEF ClientKill, hostVars
  <1>2. CASE NewKill(id)
    <2>1. id \notin Promise!LastTaken
      BY <1>2, UnseenIsNew DEF NewKill
    <2>2. Due' = Due /\ taken' = Append(taken, id)
      BY <1>1, <1>2 DEF NewKill, Due, Pending
    <2>3. Joined' = Joined
      BY <1>1 DEF Joined
    <2>4. Promise!Take(id)
      BY <2>1, <2>2, <2>3 DEF Promise!Take
    <2>5. id \in Kills
      BY DueAreKills DEF FeedInv, KillFeedTypeOK
    <2> QED
      BY <2>4, <2>5 DEF Promise!FeedNext
  <1>3. CASE RepeatedKill(id) \/ NoRoomForKill(id)
    <2>1. taken' = taken
      BY <1>3 DEF RepeatedKill, NoRoomForKill
    <2> QED
      BY <1>1, <2>1, PromiseStutters
  <1> QED
    BY <1>2, <1>3 DEF ClientKill

LEMMA PromiseStep == FeedInv /\ [Next]_vars => [Promise!FeedNext]_Promise!feedVars
  <1> SUFFICES ASSUME FeedInv, [Next]_vars PROVE [Promise!FeedNext]_Promise!feedVars
    OBVIOUS
  <1>1. CASE HostAccepts
    <2>1. peer = NoToken /\ token \in Nat /\ client \in 0..token /\ peer' = token + 1
          /\ pending' = NoPending /\ UNCHANGED <<client, taken>>
      BY <1>1 DEF HostAccepts, PendingOfNewPeer, joinerVars, FeedInv, KillFeedTypeOK
    <2>2. Due = {} /\ Due' = {}
      BY <2>1 DEF Due, Pending, NoPending
    <2>3. Joined' = Joined
      BY <2>1 DEF Joined, NoToken
    <2> QED
      BY <2>1, <2>2, <2>3 DEF Promise!feedVars
  <1>2. CASE HostDrops
    <2>1. Due' = {} /\ taken' = taken
      BY <1>2 DEF HostDrops, joinerVars, Due
    <2>2. Joined' = FALSE
      BY <1>2 DEF HostDrops, Joined
    <2>3. Promise!HostForgets
      BY <2>1, <2>2 DEF Promise!HostForgets
    <2> QED
      BY <2>3 DEF Promise!FeedNext
  <1>3. CASE Welcome
    <2>1. Due' = Due /\ taken' = taken
      BY <1>3 DEF Welcome, hostVars, Due, Pending
    <2>2. Joined' \in BOOLEAN
      BY DEF Joined
    <2>3. Promise!Rejoin
      BY <2>1, <2>2 DEF Promise!Rejoin
    <2> QED
      BY <2>3 DEF Promise!FeedNext
  <1>4. CASE JoinerTimesOut
    <2>1. Due' = Due /\ taken' = <<>>
      BY <1>4 DEF JoinerTimesOut, hostVars, Due, Pending
    <2>2. Joined' = FALSE
      BY <1>4 DEF JoinerTimesOut, Joined
    <2>3. Promise!ReaderForgets
      BY <2>1, <2>2 DEF Promise!ReaderForgets
    <2> QED
      BY <2>3 DEF Promise!FeedNext
  <1>5. CASE ServerKill
    BY <1>5, ServerKillPromise
  <1>6. CASE \E p \in Places : SendAgain(p)
    BY <1>6, PromiseStutters DEF SendAgain, hostVars, joinerVars
  <1>7. CASE \E ack \in acks : ServerAck(ack)
    BY <1>7, ServerAckPromise
  <1>8. CASE \E id \in kills : ClientKill(id)
    BY <1>8, ClientKillPromise
  <1>9. CASE PopKill
    BY <1>9, PromiseStutters DEF PopKill, hostVars
  <1>10. CASE Lose
    BY <1>10, PromiseStutters DEF Lose, hostVars, joinerVars
  <1>11. CASE UNCHANGED vars
    BY <1>11, PromiseStutters DEF vars, hostVars, joinerVars
  <1> QED
    BY <1>1, <1>2, <1>3, <1>4, <1>5, <1>6, <1>7, <1>8, <1>9, <1>10, <1>11 DEF Next

(* The kill feed of session.c keeps its promise to the joiner. *)
THEOREM Implementation == Spec => KeepsPromise
  <1>1. Init => Promise!FeedInit
    BY DEF Init, Promise!FeedInit, Due, Joined
  <1> QED
    BY <1>1, FeedInvariant, PromiseStep, PTL DEF Spec, KeepsPromise, Promise!FeedSpec
=============================================================================
