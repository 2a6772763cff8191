-------------------------- MODULE WorldEventsProofs -------------------------
(***************************************************************************)
(* Proofs about the host's world events, for any world of links and        *)
(* bindings and any limits: the cascades' counts, the slot that is always  *)
(* free, the rounds that do not mix, the storms that keep to their budget, *)
(* the movers that rest at their ends, and the types.                      *)
(*                                                                         *)
(* But for the types, nothing here depends on what an emit queues, only on *)
(* its being queued one push at a time.  The types follow it: an emit's    *)
(* pushes are the pushes of each link and binding, one after the other.    *)
(***************************************************************************)
EXTENDS WorldEvents, FiniteSetTheorems, FunctionTheorems, WellFoundedInduction, TLAPS

(* Where the members of T stand in the sequence q. *)
Where(q, T) == {k \in DOMAIN q : q[k] \in T}

LEMMA WhereFinite ==
    ASSUME NEW S, NEW q \in Seq(S), NEW T
    PROVE  IsFiniteSet(Where(q, T)) /\ Cardinality(Where(q, T)) \in Nat
  <1>1. IsFiniteSet(1..Len(q))
    BY FS_Interval
  <1>2. Where(q, T) \in SUBSET (1..Len(q))
    BY DEF Where
  <1> QED
    BY <1>1, <1>2, FS_Subset, FS_CardinalityType

(* One member more, if the event is one. *)
LEMMA WhereAfterAppend ==
    ASSUME NEW S, NEW q \in Seq(S), NEW e, NEW T
    PROVE  Cardinality(Where(Append(q, e), T)) =
               Cardinality(Where(q, T)) + (IF e \in T THEN 1 ELSE 0)
  <1>1. DOMAIN Append(q, e) = 1..Len(q) + 1 /\ DOMAIN q = 1..Len(q) /\ Len(q) \in Nat
    OBVIOUS
  <1>2. \A k \in 1..Len(q) : Append(q, e)[k] = q[k]
    OBVIOUS
  <1>3. Append(q, e)[Len(q) + 1] = e
    OBVIOUS
  <1>4. CASE e \in T
    <2>1. Where(Append(q, e), T) = Where(q, T) \cup {Len(q) + 1}
      <3> DEFINE r == Append(q, e)
                 n == Len(q)
      <3>1. DOMAIN r = 1..n + 1 /\ DOMAIN q = 1..n /\ n \in Nat
        BY <1>1
      <3>2. (\A k \in 1..n : r[k] = q[k]) /\ r[n + 1] \in T
        BY <1>2, <1>3, <1>4
      <3> HIDE DEF r, n
      <3>3. \A k \in 1..n + 1 : k \in 1..n \/ k = n + 1
        BY <3>1
      <3>4. 1..n \subseteq 1..n + 1 /\ n + 1 \in 1..n + 1
        BY <3>1
      <3>5. Where(r, T) = Where(q, T) \cup {n + 1}
        BY <3>1, <3>2, <3>3, <3>4 DEF Where
      <3> QED
        BY <3>5 DEF r, n
    <2>2. Len(q) + 1 \notin Where(q, T)
      BY <1>1 DEF Where
    <2>3. /\ IsFiniteSet(Where(q, T))
          /\ Cardinality(Where(q, T)) \in Nat
      BY WhereFinite, FS_CardinalityType
    <2>4. Cardinality(Where(q, T) \cup {Len(q) + 1}) = Cardinality(Where(q, T)) + 1
      BY <2>2, <2>3, FS_AddElement
    <2> QED
      BY <1>4, <2>1, <2>4
  <1>5. CASE e \notin T
    <2>1. Where(Append(q, e), T) = Where(q, T)
      BY <1>1, <1>2, <1>3, <1>5 DEF Where
    <2> QED
      BY <1>5, <2>1, WhereFinite
  <1> QED
    BY <1>4, <1>5

(* One member less, if the head is one. *)
LEMMA WhereAfterTail ==
    ASSUME NEW S, NEW q \in Seq(S), q # <<>>, NEW T
    PROVE  Cardinality(Where(q, T)) =
               Cardinality(Where(Tail(q), T)) + (IF Head(q) \in T THEN 1 ELSE 0)
  <1> DEFINE rest1 == Where(q, T) \ {1}
             f == [k \in Where(Tail(q), T) |-> k + 1]
  <1>1. /\ Tail(q) \in Seq(S) /\ DOMAIN q = 1..Len(q) /\ Len(q) \in Nat \ {0}
        /\ DOMAIN Tail(q) = 1..Len(q) - 1
        /\ \A k \in 1..Len(q) - 1 : Tail(q)[k] = q[k + 1]
        /\ Head(q) = q[1]
    OBVIOUS
  <1>2. f \in Bijection(Where(Tail(q), T), rest1)
    <2>1. f \in [Where(Tail(q), T) -> rest1]
      BY <1>1 DEF Where
    <2>2. \A k, l \in Where(Tail(q), T) : f[k] = f[l] => k = l
      BY <1>1 DEF Where
    <2>3. \A l \in rest1 : l - 1 \in Where(Tail(q), T) /\ f[l - 1] = l
      BY <1>1 DEF Where
    <2> QED
      BY <2>1, <2>2, <2>3 DEF Bijection, Injection, Surjection, IsInjective
  <1>3. /\ IsFiniteSet(Where(q, T)) /\ Cardinality(Where(q, T)) \in Nat
        /\ IsFiniteSet(Where(Tail(q), T)) /\ Cardinality(Where(Tail(q), T)) \in Nat
    BY <1>1, WhereFinite
  <1>4. Cardinality(rest1) = Cardinality(Where(Tail(q), T))
    <2>1. ExistsBijection(Where(Tail(q), T), rest1)
      BY <1>2 DEF ExistsBijection
    <2> HIDE DEF rest1
    <2> QED
      BY <2>1, <1>3, FS_Bijection
  <1>5. Cardinality(rest1) =
            IF 1 \in Where(q, T) THEN Cardinality(Where(q, T)) - 1 ELSE Cardinality(Where(q, T))
    BY <1>3, FS_RemoveElement
  <1>6. 1 \in Where(q, T) <=> Head(q) \in T
    BY <1>1 DEF Where
  <1> HIDE DEF rest1
  <1> QED
    BY <1>3, <1>4, <1>5, <1>6

(* Where the events of cascade c stand in the queue q. *)
Places(q, c) == {k \in DOMAIN q : q[k].cascade = c}

(* Where those of the events that c charges stand that came of a binding. *)
BoundPlaces(q, c) == {k \in DOMAIN q : q[k].cascade = c /\ q[k].bound}

LEMMA PlacesFinite ==
    ASSUME NEW S, NEW q \in Seq(S), NEW c
    PROVE  /\ IsFiniteSet(Places(q, c)) /\ Cardinality(Places(q, c)) \in Nat
           /\ IsFiniteSet(BoundPlaces(q, c)) /\ Cardinality(BoundPlaces(q, c)) \in Nat
           /\ Cardinality(BoundPlaces(q, c)) <= Cardinality(Places(q, c))
  <1>1. IsFiniteSet(1..Len(q))
    BY FS_Interval
  <1>2. Places(q, c) \in SUBSET (1..Len(q)) /\ BoundPlaces(q, c) \in SUBSET Places(q, c)
    BY DEF Places, BoundPlaces
  <1>3. IsFiniteSet(Places(q, c))
    BY <1>1, <1>2, FS_Subset
  <1> QED
    BY <1>2, <1>3, FS_Subset, FS_CardinalityType

(* One event more of its own cascade, and of no other. *)
LEMMA PlacesAfterAppend ==
    ASSUME NEW S, NEW q \in Seq(S), NEW e, NEW c
    PROVE  /\ Cardinality(Places(Append(q, e), c)) =
                  Cardinality(Places(q, c)) + (IF e.cascade = c THEN 1 ELSE 0)
           /\ Cardinality(BoundPlaces(Append(q, e), c)) =
                  Cardinality(BoundPlaces(q, c)) + (IF e.cascade = c /\ e.bound THEN 1 ELSE 0)
  <1> DEFINE all == {d \in S \cup {e} : d.cascade = c}
             bnd == {d \in S \cup {e} : d.cascade = c /\ d.bound}
             r == Append(q, e)
  <1>1. r \in Seq(S \cup {e}) /\ \A k \in DOMAIN r : r[k] \in S \cup {e}
    OBVIOUS
  <1>2. \A k \in DOMAIN q : q[k] \in S \cup {e}
    OBVIOUS
  <1>3. Places(r, c) = Where(r, all) /\ BoundPlaces(r, c) = Where(r, bnd)
    <2> HIDE DEF r
    <2> QED
      BY <1>1 DEF Places, BoundPlaces, Where
  <1>4. Places(q, c) = Where(q, all) /\ BoundPlaces(q, c) = Where(q, bnd)
    BY <1>2 DEF Places, BoundPlaces, Where
  <1>5. /\ Cardinality(Where(r, all)) = Cardinality(Where(q, all)) + (IF e \in all THEN 1 ELSE 0)
        /\ Cardinality(Where(r, bnd)) = Cardinality(Where(q, bnd)) + (IF e \in bnd THEN 1 ELSE 0)
    <2> HIDE DEF all, bnd
    <2> QED
      BY WhereAfterAppend
  <1>6. (e \in all <=> e.cascade = c) /\ (e \in bnd <=> e.cascade = c /\ e.bound)
    OBVIOUS
  <1> HIDE DEF all, bnd, r
  <1>7. /\ Cardinality(Places(r, c)) = Cardinality(Places(q, c)) + (IF e.cascade = c THEN 1 ELSE 0)
        /\ Cardinality(BoundPlaces(r, c)) =
              Cardinality(BoundPlaces(q, c)) + (IF e.cascade = c /\ e.bound THEN 1 ELSE 0)
    BY <1>3, <1>4, <1>5, <1>6
  <1> QED
    BY <1>7 DEF r

(* One event less of the head's cascade, and of no other. *)
LEMMA PlacesAfterTail ==
    ASSUME NEW S, NEW q \in Seq(S), q # <<>>, NEW c
    PROVE  /\ Cardinality(Places(q, c)) =
                  Cardinality(Places(Tail(q), c)) + (IF Head(q).cascade = c THEN 1 ELSE 0)
           /\ Cardinality(BoundPlaces(q, c)) =
                  Cardinality(BoundPlaces(Tail(q), c))
                      + (IF Head(q).cascade = c /\ Head(q).bound THEN 1 ELSE 0)
  <1> DEFINE all == {d \in S : d.cascade = c}
             bnd == {d \in S : d.cascade = c /\ d.bound}
             r == Tail(q)
             h == Head(q)
  <1>1. h \in S /\ r \in Seq(S) /\ \A k \in DOMAIN r : r[k] \in S
    OBVIOUS
  <1>2. \A k \in DOMAIN q : q[k] \in S
    OBVIOUS
  <1>3. /\ Cardinality(Where(q, all)) = Cardinality(Where(r, all)) + (IF h \in all THEN 1 ELSE 0)
        /\ Cardinality(Where(q, bnd)) = Cardinality(Where(r, bnd)) + (IF h \in bnd THEN 1 ELSE 0)
    <2> HIDE DEF all, bnd
    <2> QED
      BY WhereAfterTail
  <1>4. (h \in all <=> h.cascade = c) /\ (h \in bnd <=> h.cascade = c /\ h.bound)
    <2> HIDE DEF h
    <2> QED
      BY <1>1
  <1> HIDE DEF r, h
  <1>5. Places(r, c) = Where(r, all) /\ BoundPlaces(r, c) = Where(r, bnd)
    BY <1>1 DEF Places, BoundPlaces, Where
  <1>6. Places(q, c) = Where(q, all) /\ BoundPlaces(q, c) = Where(q, bnd)
    BY <1>2 DEF Places, BoundPlaces, Where
  <1> HIDE DEF all, bnd
  <1>7. /\ Cardinality(Places(q, c)) = Cardinality(Places(r, c)) + (IF h.cascade = c THEN 1 ELSE 0)
        /\ Cardinality(BoundPlaces(q, c)) =
              Cardinality(BoundPlaces(r, c)) + (IF h.cascade = c /\ h.bound THEN 1 ELSE 0)
    BY <1>3, <1>4, <1>5, <1>6
  <1> QED
    BY <1>7 DEF r, h

-----------------------------------------------------------------------------
(* The queue is a sequence of events of slots, of this round; a slot's count is a
   number. *)
QueueOK ==
    /\ \E S : queue \in Seq(S)
    /\ Len(queue) <= QueueSize
    /\ \A k \in DOMAIN queue : queue[k].cascade \in Slots
    /\ cascade \in [Slots -> [live : Nat, ops : Nat]]
    /\ current \in Slots \cup {None}

CountInv == QueueOK /\ CascadesCounted /\ RoundsDoNotMix

(* CascadesCounted, said of Places. *)
Counts(q, table, cur) ==
    \A c \in Slots : table[c].live = Cardinality(Places(q, c)) + (IF c = cur THEN 1 ELSE 0)

LEMMA CountsIsCascadesCounted ==
    /\ CascadesCounted <=> Counts(queue, cascade, current)
    /\ CascadesCounted' <=> Counts(queue', cascade', current')
  BY DEF CascadesCounted, Counts, Waiting, Places

LEMMA NoneIsNoSlot == None \notin Slots
  BY LimitsAssumption DEF None, Slots

LEMMA CountInvInit == Init => CountInv
  <1> SUFFICES ASSUME Init PROVE CountInv
    OBVIOUS
  <1>1. queue \in Seq({}) /\ Len(queue) = 0 /\ DOMAIN queue = {}
    BY DEF Init
  <1>2. cascade = [c \in Slots |-> [live |-> 0, ops |-> 0]] /\ current = None
    BY DEF Init, Live
  <1>3. \A c \in Slots : Places(queue, c) = {}
    BY <1>1 DEF Places
  <1>4. QueueOK
    BY <1>1, <1>2, LimitsAssumption DEF QueueOK
  <1>5. Counts(queue, cascade, current)
    BY <1>2, <1>3, NoneIsNoSlot, FS_EmptySet DEF Counts
  <1>6. RoundsDoNotMix
    BY <1>1 DEF RoundsDoNotMix
  <1> QED
    BY <1>4, <1>5, <1>6, CountsIsCascadesCounted DEF CountInv

(* With more slots than the queue has places, the roots of what is queued cannot
   take them all. *)
LEMMA SomeSlotFree == CountInv => NeverFull
  <1> SUFFICES ASSUME CountInv, current = None, \A c \in Slots : cascade[c].live # 0 PROVE FALSE
    BY DEF NeverFull
  <1>1. PICK S : queue \in Seq(S)
    BY DEF CountInv, QueueOK
  <1>2. DOMAIN queue = 1..Len(queue) /\ Len(queue) \in Nat /\ Len(queue) <= QueueSize
    BY <1>1 DEF CountInv, QueueOK
  <1> DEFINE f == [k \in 1..Len(queue) |-> queue[k].cascade]
  <1>3. \A c \in Slots : \E k \in 1..Len(queue) : f[k] = c
    <2> SUFFICES ASSUME NEW c \in Slots PROVE \E k \in 1..Len(queue) : f[k] = c
      OBVIOUS
    <2>1. Cardinality(Places(queue, c)) # 0
      BY NoneIsNoSlot, CountsIsCascadesCounted, <1>1, PlacesFinite DEF CountInv, Counts
    <2>2. Places(queue, c) # {}
      BY <2>1, FS_EmptySet
    <2> QED
      BY <1>2, <2>2 DEF Places
  <1>4. f \in Surjection(1..Len(queue), Slots)
    BY <1>2, <1>3 DEF CountInv, QueueOK, Surjection
  <1>5. Cardinality(Slots) <= Cardinality(1..Len(queue))
    <2> DEFINE places == 1..Len(queue)
    <2>1. f \in Surjection(places, Slots) /\ IsFiniteSet(places)
      BY <1>2, <1>4, FS_Interval
    <2> HIDE DEF places, f
    <2>2. Cardinality(Slots) <= Cardinality(places)
      BY <2>1, FS_Surjection
    <2> QED
      BY <2>2 DEF places
  <1>6. Cardinality(Slots) = CascadeCount
    <2>1. /\ CascadeCount \in Int /\ CascadeCount - 1 \in Int
          /\ ~(0 > CascadeCount - 1) /\ CascadeCount - 1 - 0 + 1 = CascadeCount
      <3>1. CascadeCount \in Nat /\ CascadeCount > QueueSize /\ QueueSize \in Nat
        BY LimitsAssumption
      <3> QED
        BY <3>1
    <2>2. Cardinality(0..CascadeCount - 1) =
              IF 0 > CascadeCount - 1 THEN 0 ELSE CascadeCount - 1 - 0 + 1
      BY <2>1, FS_Interval
    <2> QED
      BY <2>1, <2>2 DEF Slots
  <1>7. Cardinality(1..Len(queue)) = Len(queue)
    <2>1. Cardinality(1..Len(queue)) = IF 1 > Len(queue) THEN 0 ELSE Len(queue) - 1 + 1
      BY <1>2, FS_Interval
    <2> QED
      BY <1>2, <2>1
  <1> QED
    BY <1>2, <1>5, <1>6, <1>7, LimitsAssumption

(* A push is always charged to a slot; to one that it opens only when no event is
   charged to it. *)
LEMMA ChargedSlot ==
    ASSUME CountInv, next \in Slots, NEW c \in Slots \cup {None}, NEW opened \in BOOLEAN,
           Charged(c, opened)
    PROVE  c \in Slots /\ (opened => current = None /\ cascade[c].live = 0)
  <1> USE LimitsAssumption
  <1>1. CASE current # None \/ root # None
    BY <1>1 DEF Charged, CountInv, QueueOK
  <1>2. CASE current = None /\ root = None
    <2>1. PICK d \in Slots : cascade[d].live = 0
      BY <1>2, SomeSlotFree DEF NeverFull
    <2>2. Distance(d) < Distance(None)
      BY NoneIsNoSlot DEF Distance, Slots, None
    <2>3. FreeSlot(c)
      BY <1>2 DEF Charged
    <2>4. c # None
      BY <2>1, <2>2, <2>3 DEF FreeSlot
    <2> QED
      BY <1>2, <2>3, <2>4 DEF FreeSlot
  <1> QED
    BY <1>1, <1>2

(* A push: what fits is the last of its cascade, and counted; a slot is opened
   only when no event of its last root is about. *)
LEMMA PushStep == CountInv /\ next \in Slots /\ PushNext => CountInv'
  <1> SUFFICES ASSUME CountInv, next \in Slots, PushNext PROVE CountInv'
    OBVIOUS
  <1> USE LimitsAssumption
  <1> DEFINE p == Head(todo)
  <1>1. PICK S : queue \in Seq(S)
    BY DEF CountInv, QueueOK
  <1>2. PICK c \in Slots \cup {None}, opened \in BOOLEAN :
            /\ Charged(c, opened)
            /\ LET table == Opened(c, opened)
               IN  IF OverBudget(c, p, table) THEN queue' = queue /\ cascade' = table
                   ELSE Queue(p, c, table)
    BY DEF PushNext
  <1>3. UNCHANGED <<current, generation>>
    BY DEF PushNext
  <1>4. c \in Slots
    BY <1>2, ChargedSlot
  <1> DEFINE table == Opened(c, opened)
  <1>5. /\ table \in [Slots -> [live : Nat, ops : Nat]]
        /\ \A d \in Slots : table[d].live = cascade[d].live
    <2>1. CASE opened
      <3>1. cascade[c].live = 0
        BY <1>2, <1>4, <2>1, NoneIsNoSlot DEF Charged, FreeSlot
      <3> QED
        BY <1>4, <2>1, <3>1 DEF Opened, Live, CountInv, QueueOK
    <2>2. CASE ~opened
      BY <2>2 DEF Opened, CountInv, QueueOK
    <2> QED
      BY <2>1, <2>2
  <1>6. /\ Spent(c, p, table) \in [Slots -> [live : Nat, ops : Nat]]
        /\ \A d \in Slots : Spent(c, p, table)[d].live = cascade[d].live
    <2> HIDE DEF table, p
    <2> QED
      BY <1>4, <1>5 DEF Spent
  <1>7. CASE HasRoom /\ ~OverBudget(c, p, table)
    <2>1. queue' = Append(queue, EventOf(p, c)) /\ cascade' = Tracked(c, p, table)
      BY <1>2, <1>7 DEF Queue
    <2> DEFINE event == EventOf(p, c)
               spent == Spent(c, p, table)
    <2>2. event.cascade = c /\ event.generation = generation
      BY DEF EventOf
    <2>3. /\ cascade' \in [Slots -> [live : Nat, ops : Nat]]
          /\ \A d \in Slots : cascade'[d].live = cascade[d].live + (IF d = c THEN 1 ELSE 0)
      <3>1. cascade' = [spent EXCEPT ![c].live = @ + 1]
        BY <1>4, <2>1, NoneIsNoSlot DEF Tracked
      <3> HIDE DEF spent
      <3> QED
        BY <1>4, <1>6, <3>1 DEF spent
    <2> HIDE DEF event
    <2>4. /\ queue \in Seq(S \cup {event}) /\ queue' \in Seq(S \cup {event})
          /\ Len(queue') = Len(queue) + 1 /\ DOMAIN queue' = 1..Len(queue) + 1
          /\ DOMAIN queue = 1..Len(queue) /\ Len(queue) \in Nat
          /\ \A k \in 1..Len(queue) : queue'[k] = queue[k]
          /\ queue'[Len(queue) + 1] = event
      <3>1. queue' = Append(queue, event)
        BY <2>1 DEF event
      <3> QED
        BY <1>1, <3>1
    <2>5. QueueOK'
      <3>1. \E T : queue' \in Seq(T)
        BY <2>4
      <3>2. \A k \in DOMAIN queue' : queue'[k].cascade \in Slots
        BY <1>4, <2>2, <2>4 DEF CountInv, QueueOK
      <3>3. Len(queue') <= QueueSize /\ current' \in Slots \cup {None}
        BY <1>3, <1>7, <2>4 DEF CountInv, QueueOK, HasRoom
      <3> QED
        BY <2>3, <3>1, <3>2, <3>3 DEF QueueOK, Slots, None
    <2>6. Counts(queue', cascade', current')
      <3> SUFFICES ASSUME NEW d \in Slots
                   PROVE  cascade'[d].live = Cardinality(Places(queue', d)) + (IF d = current' THEN 1 ELSE 0)
        BY DEF Counts
      <3>1. Cardinality(Places(queue', d)) = Cardinality(Places(queue, d)) + (IF d = c THEN 1 ELSE 0)
        <4>1. queue' = Append(queue, event)
          BY <2>1 DEF event
        <4> QED
          BY <1>1, <2>2, <4>1, PlacesAfterAppend
      <3>2. cascade[d].live = Cardinality(Places(queue, d)) + (IF d = current THEN 1 ELSE 0)
        BY CountsIsCascadesCounted DEF CountInv, Counts
      <3>3. Cardinality(Places(queue, d)) \in Nat
        BY <1>1, PlacesFinite
      <3> QED
        BY <1>3, <2>3, <3>1, <3>2, <3>3
    <2>7. RoundsDoNotMix'
      BY <1>3, <2>2, <2>4 DEF CountInv, RoundsDoNotMix
    <2> QED
      BY <2>5, <2>6, <2>7, CountsIsCascadesCounted DEF CountInv
  <1>8. CASE ~(HasRoom /\ ~OverBudget(c, p, table))
    <2>1. queue' = queue /\ (cascade' = table \/ cascade' = Spent(c, p, table))
      BY <1>2, <1>8 DEF Queue
    <2>2. /\ cascade' \in [Slots -> [live : Nat, ops : Nat]]
          /\ \A d \in Slots : cascade'[d].live = cascade[d].live
      BY <1>5, <1>6, <2>1
    <2>3. QueueOK'
      BY <1>3, <2>1, <2>2 DEF CountInv, QueueOK, Slots, None
    <2>4. Counts(queue', cascade', current')
      BY <1>3, <2>1, <2>2, CountsIsCascadesCounted DEF CountInv, Counts
    <2>5. RoundsDoNotMix'
      BY <1>3, <2>1 DEF CountInv, RoundsDoNotMix
    <2> QED
      BY <2>3, <2>4, <2>5, CountsIsCascadesCounted DEF CountInv
  <1> QED
    BY <1>7, <1>8

(* The oldest event leaves the queue and its cascade counts it still, as the one
   in dispatch. *)
LEMMA DispatchStep == CountInv /\ Dispatch => CountInv'
  <1> SUFFICES ASSUME CountInv, Dispatch PROVE CountInv'
    OBVIOUS
  <1>1. PICK S : queue \in Seq(S)
    BY DEF CountInv, QueueOK
  <1>2. /\ queue # <<>> /\ queue' = Tail(queue)
        /\ current = None /\ current' = Head(queue).cascade
        /\ UNCHANGED <<cascade, generation>>
    BY DEF Dispatch, Quiet
  <1>3. /\ queue' \in Seq(S) /\ Len(queue) \in Nat \ {0} /\ Len(queue') = Len(queue) - 1
        /\ DOMAIN queue = 1..Len(queue) /\ DOMAIN queue' = 1..Len(queue) - 1
        /\ \A k \in DOMAIN queue' : queue'[k] = queue[k + 1]
        /\ Head(queue) = queue[1]
    BY <1>1, <1>2
  <1>4. QueueOK'
    <2>1. current' \in Slots
      BY <1>2, <1>3 DEF CountInv, QueueOK
    <2>2. \A k \in DOMAIN queue' : queue'[k].cascade \in Slots
      BY <1>3 DEF CountInv, QueueOK
    <2>3. Len(queue') <= QueueSize
      BY <1>3, LimitsAssumption DEF CountInv, QueueOK
    <2> QED
      BY <1>2, <1>3, <2>1, <2>2, <2>3 DEF CountInv, QueueOK, Slots, None
  <1>5. Counts(queue', cascade', current')
    <2> SUFFICES ASSUME NEW d \in Slots
                 PROVE  cascade'[d].live = Cardinality(Places(queue', d)) + (IF d = current' THEN 1 ELSE 0)
      BY DEF Counts
    <2>1. Cardinality(Places(queue, d)) =
              Cardinality(Places(queue', d)) + (IF Head(queue).cascade = d THEN 1 ELSE 0)
      BY <1>1, <1>2, PlacesAfterTail
    <2>2. cascade[d].live = Cardinality(Places(queue, d)) + (IF d = current THEN 1 ELSE 0)
      BY CountsIsCascadesCounted DEF CountInv, Counts
    <2>3. Cardinality(Places(queue, d)) \in Nat
      BY <1>1, PlacesFinite
    <2> QED
      BY <1>2, <2>1, <2>2, <2>3, NoneIsNoSlot
  <1>6. RoundsDoNotMix'
    BY <1>2, <1>3 DEF CountInv, RoundsDoNotMix
  <1> QED
    BY <1>4, <1>5, <1>6, CountsIsCascadesCounted DEF CountInv

LEMMA DispatchedStep == CountInv /\ Dispatched => CountInv'
  <1> SUFFICES ASSUME CountInv, Dispatched PROVE CountInv'
    OBVIOUS
  <1>1. PICK S : queue \in Seq(S)
    BY DEF CountInv, QueueOK
  <1>2. /\ current \in Slots /\ current' = None /\ UNCHANGED <<queue, generation>>
        /\ cascade' = [cascade EXCEPT ![current].live = IF @ > 0 THEN @ - 1 ELSE @]
    BY DEF Dispatched, CountInv, QueueOK
  <1>3. \A d \in Slots : /\ cascade[d].live = Cardinality(Places(queue, d)) + (IF d = current THEN 1 ELSE 0)
                         /\ Cardinality(Places(queue, d)) \in Nat
    BY <1>1, PlacesFinite, CountsIsCascadesCounted DEF CountInv, Counts
  <1>4. /\ cascade' \in [Slots -> [live : Nat, ops : Nat]]
        /\ \A d \in Slots : cascade'[d].live = Cardinality(Places(queue, d))
    BY <1>2, <1>3 DEF CountInv, QueueOK
  <1>5. QueueOK'
    BY <1>2, <1>4 DEF CountInv, QueueOK, Slots, None
  <1>6. Counts(queue', cascade', current')
    BY <1>2, <1>4, <1>3, NoneIsNoSlot DEF Counts
  <1> QED
    BY <1>2, <1>5, <1>6, CountsIsCascadesCounted DEF CountInv, RoundsDoNotMix

(* The new round finds no event of the old one, and every slot free. *)
LEMMA RestartStep == CountInv /\ Restart => CountInv'
  <1> SUFFICES ASSUME CountInv, Restart PROVE CountInv'
    OBVIOUS
  <1>1. /\ queue' \in Seq({}) /\ Len(queue') = 0 /\ DOMAIN queue' = {}
        /\ cascade' = [c \in Slots |-> [live |-> 0, ops |-> 0]]
        /\ current = None /\ current' = None
    BY DEF Restart, EmptiedQueue, Live, Quiet
  <1>2. \A c \in Slots : Places(queue', c) = {}
    BY <1>1 DEF Places
  <1>3. QueueOK'
    BY <1>1, LimitsAssumption DEF QueueOK, Slots, None
  <1>4. Counts(queue', cascade', current')
    <2>1. \A c \in Slots : cascade'[c].live = 0 /\ c # current'
      BY <1>1, NoneIsNoSlot
    <2> QED
      BY <1>2, <2>1, FS_EmptySet DEF Counts
  <1>5. RoundsDoNotMix'
    BY <1>1 DEF RoundsDoNotMix
  <1> QED
    BY <1>3, <1>4, <1>5, CountsIsCascadesCounted DEF CountInv

LEMMA NextStep == next \in Slots /\ [Next]_vars => next' \in Slots
  <1> SUFFICES ASSUME next \in Slots, [Next]_vars PROVE next' \in Slots
    OBVIOUS
  <1>1. CASE PushNext
    <2>1. PICK c \in Slots \cup {None}, opened \in BOOLEAN :
              /\ Charged(c, opened)
              /\ next' = IF opened THEN (c + 1) % CascadeCount ELSE next
      BY <1>1 DEF PushNext
    <2>2. CASE opened
      <3>1. c \in Slots
        BY <2>1, <2>2 DEF Charged
      <3> QED
        BY <2>1, <2>2, <3>1, LimitsAssumption DEF Slots
    <2> QED
      BY <2>1, <2>2 DEF Slots
  <1>2. CASE UNCHANGED next
    BY <1>2 DEF Slots
  <1>3. CASE Dispatch \/ Dispatched \/ Restart \/ EndPress \/ EndSense \/ Script \/ EndDispatch \/ EndMove
             \/ UNCHANGED vars
    BY <1>2, <1>3 DEF Dispatch, Dispatched, Restart, EndPress, EndSense, Script, EndDispatch, EndMove,
                      vars, queued
  <1>4. CASE \E x \in Actors \X Triggers : Sense(x)
    BY <1>2, <1>4 DEF Sense, queued
  <1>5. CASE \E i \in Movers : Move(i)
    BY <1>2, <1>5 DEF Move, queued
  <1>6. CASE \E i \in Buttons, a \in Actors : Press(i, a)
    BY <1>2, <1>6 DEF Press, queued
  <1> QED
    BY <1>1, <1>3, <1>4, <1>5, <1>6 DEF Next, Tick

LEMMA CountInvStep == CountInv /\ next \in Slots /\ [Next]_vars => CountInv'
  <1> SUFFICES ASSUME CountInv, next \in Slots, [Next]_vars PROVE CountInv'
    OBVIOUS
  <1>1. CASE UNCHANGED <<queue, cascade, current, generation>>
    <2>1. QueueOK'
      BY <1>1 DEF CountInv, QueueOK, Slots, None
    <2>2. Counts(queue', cascade', current')
      BY <1>1, CountsIsCascadesCounted DEF CountInv
    <2>3. RoundsDoNotMix'
      BY <1>1 DEF CountInv, RoundsDoNotMix
    <2> QED
      BY <2>1, <2>2, <2>3, CountsIsCascadesCounted DEF CountInv
  <1>2. CASE PushNext
    BY <1>2, PushStep
  <1>3. CASE Dispatch
    BY <1>3, DispatchStep
  <1>4. CASE Dispatched
    BY <1>4, DispatchedStep
  <1>5. CASE Restart
    BY <1>5, RestartStep
  <1>6. CASE EndPress \/ EndSense \/ Script \/ EndDispatch \/ EndMove \/ UNCHANGED vars
    BY <1>1, <1>6 DEF EndPress, EndSense, Script, EndDispatch, EndMove, vars, queued
  <1>7. CASE \E x \in Actors \X Triggers : Sense(x)
    BY <1>1, <1>7 DEF Sense, queued
  <1>8. CASE \E i \in Movers : Move(i)
    BY <1>1, <1>8 DEF Move, queued
  <1>9. CASE \E i \in Buttons, a \in Actors : Press(i, a)
    BY <1>1, <1>9 DEF Press, queued
  <1> QED
    BY <1>2, <1>3, <1>4, <1>5, <1>6, <1>7, <1>8, <1>9 DEF Next, Tick

LEMMA CountInvariant == Spec => []CountInv
  <1>1. Init => CountInv /\ next \in Slots
    BY CountInvInit, LimitsAssumption DEF Init, Slots
  <1>2. CountInv /\ next \in Slots /\ [Next]_vars => CountInv' /\ next' \in Slots
    BY CountInvStep, NextStep
  <1>3. (next \in Slots)' <=> next' \in Slots
    BY DEF Slots
  <1> QED
    BY <1>1, <1>2, <1>3, PTL DEF Spec

(* Whatever a world links and binds, a slot's count is that of its root's events:
   none is opened anew, its budget reset, while one of them is about. *)
THEOREM Cascades == Spec => []CascadesCounted
  BY CountInvariant, PTL DEF CountInv

(* No event is dispatched in a round it was not queued in. *)
THEOREM RoundsApart == Spec => []RoundsDoNotMix
  BY CountInvariant, PTL DEF CountInv

(* "Never full": a push of a new root always finds a slot to open. *)
THEOREM TableNeverFull == Spec => []NeverFull
  BY CountInvariant, SomeSlotFree, PTL

-----------------------------------------------------------------------------
(* A mover is told, or moves on; nothing else disturbs it. *)
RestInv ==
    /\ phase \in [Movers -> Phases]
    /\ travelled \in [Movers -> 0..Travel]
    /\ RestsAtItsEnds

LEMMA MoveRests == ASSUME NEW i \in Movers, RestInv, Move(i) PROVE RestInv'
  <1> USE LimitsAssumption
  <1>1. CASE UNCHANGED <<phase, travelled>>
    BY <1>1 DEF RestInv, RestsAtItsEnds, Movers, Of, Entities, Phases
  <1>2. ASSUME phase[i] = "opening",
               Moved(i, travelled[i] + 1, IF travelled[i] + 1 = Travel THEN "open" ELSE "opening")
        PROVE  RestInv'
    <2>1. travelled[i] + 1 \in 0..Travel
      BY <1>2 DEF RestInv, RestsAtItsEnds
    <2> QED
      BY <1>2, <2>1 DEF RestInv, RestsAtItsEnds, Moved, Movers, Of, Entities, Phases
  <1>3. ASSUME phase[i] = "closing",
               Moved(i, travelled[i] - 1, IF travelled[i] - 1 = 0 THEN "closed" ELSE "closing")
        PROVE  RestInv'
    <2>1. travelled[i] - 1 \in 0..Travel
      BY <1>3 DEF RestInv, RestsAtItsEnds
    <2> QED
      BY <1>3, <2>1 DEF RestInv, RestsAtItsEnds, Moved, Movers, Of, Entities, Phases
  <1> QED
    BY <1>1, <1>2, <1>3 DEF Move

LEMMA ToldRests == ASSUME NEW e, RestInv, MoverTold(e) PROVE RestInv'
  <1>1. /\ e.target \in Movers /\ travelled' = travelled
        /\ phase' = [phase EXCEPT ![e.target] = ToldPhase(e)]
    BY DEF MoverTold
  <1>2. /\ ToldPhase(e) \in {"closed", "opening", "open", "closing"}
        /\ ToldPhase(e) = "open" => travelled[e.target] = Travel
        /\ ToldPhase(e) = "closed" => travelled[e.target] = 0
        /\ ToldPhase(e) = "opening" => travelled[e.target] < Travel
        /\ ToldPhase(e) = "closing" => travelled[e.target] > 0
    BY <1>1, LimitsAssumption DEF ToldPhase, RestInv, Phases
  <1> HIDE DEF ToldPhase
  <1> QED
    BY <1>1, <1>2 DEF RestInv, RestsAtItsEnds, Movers, Of, Entities, Phases

LEMMA RestInvStep == RestInv /\ [Next]_vars => RestInv'
  <1> SUFFICES ASSUME RestInv, [Next]_vars PROVE RestInv'
    OBVIOUS
  <1>1. CASE UNCHANGED <<phase, travelled>>
    BY <1>1 DEF RestInv, RestsAtItsEnds, Movers, Of, Entities, Phases
  <1>2. CASE Restart
    BY <1>2, LimitsAssumption DEF Restart, RestInv, RestsAtItsEnds, Movers, Of, Entities, Phases
  <1>3. CASE \E i \in Movers : Move(i)
    BY <1>3, MoveRests
  <1>4. CASE Dispatch
    <2> DEFINE e == Head(queue)
    <2>1. Dropped(e) \/ RelayTold(e) \/ MoverTold(e) \/ ButtonTold(e) \/ PadTold(e)
      BY <1>4 DEF Dispatch
    <2>2. CASE MoverTold(e)
      BY <2>2, ToldRests
    <2>3. CASE Dropped(e) \/ RelayTold(e) \/ ButtonTold(e) \/ PadTold(e)
      BY <1>1, <2>3 DEF Dropped, RelayTold, ButtonTold, UseOf, PadTold, world
    <2> QED
      BY <2>1, <2>2, <2>3
  <1>5. CASE PushNext \/ EndPress \/ EndSense \/ Script \/ Dispatched \/ EndDispatch \/ EndMove
             \/ UNCHANGED vars
    BY <1>1, <1>5
       DEF PushNext, EndPress, EndSense, Script, Dispatched, EndDispatch, EndMove, vars, world
  <1>6. CASE \E x \in Actors \X Triggers : Sense(x)
    BY <1>1, <1>6 DEF Sense
  <1>7. CASE \E i \in Buttons, a \in Actors : Press(i, a)
    BY <1>1, <1>7 DEF Press, UseOf
  <1> QED
    BY <1>2, <1>3, <1>4, <1>5, <1>6, <1>7 DEF Next, Tick

(* Told or not, in whatever order, a mover never rests but at an end of its way,
   and never starts a way it has behind it. *)
THEOREM MoversRest == Spec => []RestsAtItsEnds
  <1>1. Init => RestInv
    BY LimitsAssumption DEF Init, RestInv, RestsAtItsEnds, Movers, Of, Entities, Phases
  <1>2. RestInv /\ [Next]_vars => RestInv'
    BY RestInvStep
  <1>3. RestInv => RestsAtItsEnds
    BY DEF RestInv
  <1> QED
    BY <1>1, <1>2, <1>3, PTL DEF Spec

-----------------------------------------------------------------------------
(* StormBounded, said of BoundPlaces. *)
Charges(q, table) ==
    \A c \in Slots :
        /\ Cardinality(BoundPlaces(q, c)) <= table[c].ops
        /\ table[c].ops <= CascadeBudget

StormInv == CountInv /\ next \in Slots /\ StormBounded

LEMMA ChargesIsStormBounded ==
    /\ StormBounded <=> Charges(queue, cascade)
    /\ StormBounded' <=> Charges(queue', cascade')
  <1>1. \A c : {k \in Waiting(c) : queue[k].bound} = BoundPlaces(queue, c)
    BY DEF Waiting, BoundPlaces
  <1>2. \A c : {k \in Waiting(c)' : queue'[k].bound} = BoundPlaces(queue', c)
    BY DEF Waiting, BoundPlaces
  <1> QED
    BY <1>1, <1>2 DEF StormBounded, Charges

(* A slot opens with a budget of its own, and has nothing waiting; a binding's push
   is charged before it is queued, and only within the budget. *)
LEMMA StormPush == StormInv /\ PushNext => StormBounded'
  <1> SUFFICES ASSUME StormInv, PushNext PROVE Charges(queue', cascade')
    BY ChargesIsStormBounded
  <1> USE LimitsAssumption
  <1> DEFINE p == Head(todo)
  <1>1. PICK S : queue \in Seq(S)
    BY DEF StormInv, CountInv, QueueOK
  <1>2. PICK c \in Slots \cup {None}, opened \in BOOLEAN :
            /\ Charged(c, opened)
            /\ LET table == Opened(c, opened)
               IN  IF OverBudget(c, p, table) THEN queue' = queue /\ cascade' = table
                   ELSE Queue(p, c, table)
    BY DEF PushNext
  <1>3. /\ c \in Slots /\ c # None
        /\ opened => current = None /\ cascade[c].live = 0
    BY <1>2, ChargedSlot, NoneIsNoSlot DEF StormInv
  <1>4. cascade \in [Slots -> [live : Nat, ops : Nat]]
    BY DEF StormInv, CountInv, QueueOK
  <1>5. \A d \in Slots : /\ Cardinality(BoundPlaces(queue, d)) \in Nat
                         /\ Cardinality(BoundPlaces(queue, d)) <= Cardinality(Places(queue, d))
                         /\ Cardinality(Places(queue, d)) \in Nat
    BY <1>1, PlacesFinite
  <1> DEFINE table == Opened(c, opened)
  <1>6. table \in [Slots -> [live : Nat, ops : Nat]] /\ Charges(queue, table)
    <2>1. CASE opened
      <3>1. Cardinality(BoundPlaces(queue, c)) = 0
        <4>1. Cardinality(Places(queue, c)) = 0
          BY <1>3, <1>5, <2>1, NoneIsNoSlot, CountsIsCascadesCounted DEF StormInv, CountInv, Counts
        <4> QED
          BY <1>3, <1>5, <4>1
      <3>2. /\ table \in [Slots -> [live : Nat, ops : Nat]] /\ table[c].ops = 0
            /\ \A d \in Slots : d # c => table[d].ops = cascade[d].ops
        BY <1>3, <1>4, <2>1 DEF Opened, Live
      <3> HIDE DEF table
      <3> QED
        BY <3>1, <3>2, ChargesIsStormBounded DEF Charges, StormInv
    <2>2. CASE ~opened
      BY <1>4, <2>2, ChargesIsStormBounded DEF Opened, StormInv
    <2> QED
      BY <2>1, <2>2
  <1> HIDE DEF table, p
  <1>7. CASE OverBudget(c, p, table)
    BY <1>2, <1>6, <1>7 DEF table
  <1>8. CASE ~OverBudget(c, p, table)
    <2> DEFINE spent == Spent(c, p, table)
    <2>1. /\ spent \in [Slots -> [live : Nat, ops : Nat]]
          /\ \A d \in Slots : spent[d].ops = table[d].ops + (IF d = c /\ p.bound THEN 1 ELSE 0)
      BY <1>3, <1>6 DEF Spent
    <2>2. \A d \in Slots : spent[d].ops <= CascadeBudget
      <3> SUFFICES ASSUME NEW d \in Slots PROVE spent[d].ops <= CascadeBudget
        OBVIOUS
      <3>1. table[d].ops \in Nat /\ table[d].ops <= CascadeBudget
        BY <1>6 DEF Charges
      <3>2. d = c /\ p.bound => ~(table[d].ops >= CascadeBudget)
        BY <1>3, <1>8 DEF OverBudget
      <3>3. spent[d].ops = table[d].ops + (IF d = c /\ p.bound THEN 1 ELSE 0)
        BY <2>1
      <3> HIDE DEF spent
      <3> QED
        BY <3>1, <3>2, <3>3
    <2>3. CASE HasRoom
      <3> DEFINE event == EventOf(p, c)
      <3>1. event.cascade = c /\ (event.bound <=> p.bound)
        BY DEF EventOf
      <3>2. queue' = Append(queue, event) /\ cascade' = [spent EXCEPT ![c].live = @ + 1]
        BY <1>2, <1>3, <1>8, <2>3 DEF Queue, Tracked, table
      <3> HIDE DEF spent, event
      <3>3. \A d \in Slots : cascade'[d].ops = spent[d].ops
        BY <1>3, <2>1, <3>2
      <3> SUFFICES ASSUME NEW d \in Slots
                   PROVE  Cardinality(BoundPlaces(queue', d)) <= cascade'[d].ops /\ cascade'[d].ops <= CascadeBudget
        BY DEF Charges
      <3>4. Cardinality(BoundPlaces(queue', d)) =
                Cardinality(BoundPlaces(queue, d)) + (IF event.cascade = d /\ event.bound THEN 1 ELSE 0)
        BY <1>1, <3>2, PlacesAfterAppend
      <3>5. Cardinality(BoundPlaces(queue, d)) <= table[d].ops /\ table[d].ops \in Nat
        BY <1>6 DEF Charges
      <3>6. (event.cascade = d /\ event.bound) <=> (d = c /\ p.bound)
        BY <3>1
      <3>7. spent[d].ops = table[d].ops + (IF d = c /\ p.bound THEN 1 ELSE 0)
        BY <2>1
      <3>8. Cardinality(BoundPlaces(queue', d)) <= spent[d].ops
        BY <1>5, <3>4, <3>5, <3>6, <3>7
      <3> QED
        BY <2>2, <3>3, <3>8
    <2>4. CASE ~HasRoom
      <3>1. queue' = queue /\ cascade' = spent
        BY <1>2, <1>8, <2>4 DEF Queue, table
      <3> HIDE DEF spent
      <3> SUFFICES ASSUME NEW d \in Slots
                   PROVE  Cardinality(BoundPlaces(queue, d)) <= spent[d].ops
        BY <2>2, <3>1 DEF Charges
      <3>2. Cardinality(BoundPlaces(queue, d)) <= table[d].ops /\ table[d].ops \in Nat
        BY <1>6 DEF Charges
      <3>3. spent[d].ops = table[d].ops + (IF d = c /\ p.bound THEN 1 ELSE 0)
        BY <2>1
      <3> QED
        BY <1>5, <3>2, <3>3
    <2> QED
      BY <2>3, <2>4
  <1> QED
    BY <1>7, <1>8

LEMMA StormInit == Init => StormInv
  <1> SUFFICES ASSUME Init PROVE StormInv
    OBVIOUS
  <1>1. queue = <<>> /\ cascade = [c \in Slots |-> [live |-> 0, ops |-> 0]] /\ next \in Slots
    BY LimitsAssumption DEF Init, Live, Slots
  <1>2. \A c : BoundPlaces(queue, c) = {}
    BY <1>1 DEF BoundPlaces
  <1>3. StormBounded
    BY <1>1, <1>2, FS_EmptySet, LimitsAssumption, ChargesIsStormBounded DEF Charges
  <1> QED
    BY <1>1, <1>3, CountInvInit DEF StormInv

LEMMA StormStep == StormInv /\ [Next]_vars => StormBounded'
  <1> SUFFICES ASSUME StormInv, [Next]_vars PROVE StormBounded'
    OBVIOUS
  <1>1. CASE UNCHANGED <<queue, cascade>>
    BY <1>1, ChargesIsStormBounded DEF StormInv
  <1>2. CASE PushNext
    BY <1>2, StormPush
  <1>3. CASE Dispatch
    <2>1. PICK S : queue \in Seq(S)
      BY DEF StormInv, CountInv, QueueOK
    <2>2. queue # <<>> /\ queue' = Tail(queue) /\ cascade' = cascade
      BY <1>3 DEF Dispatch
    <2> SUFFICES ASSUME NEW c \in Slots
                 PROVE  Cardinality(BoundPlaces(queue', c)) <= cascade[c].ops /\ cascade[c].ops <= CascadeBudget
      BY <2>2, ChargesIsStormBounded DEF Charges
    <2>3. Cardinality(BoundPlaces(queue, c)) =
              Cardinality(BoundPlaces(queue', c)) + (IF Head(queue).cascade = c /\ Head(queue).bound THEN 1 ELSE 0)
      BY <2>1, <2>2, PlacesAfterTail
    <2>4. Cardinality(BoundPlaces(queue, c)) \in Nat /\ Cardinality(BoundPlaces(queue', c)) \in Nat
      <3>1. queue' \in Seq(S)
        BY <2>1, <2>2
      <3> QED
        BY <2>1, <3>1, PlacesFinite
    <2>5. /\ Cardinality(BoundPlaces(queue, c)) <= cascade[c].ops
          /\ cascade[c].ops <= CascadeBudget /\ cascade[c].ops \in Nat
      BY ChargesIsStormBounded DEF StormInv, CountInv, QueueOK, Charges
    <2> QED
      BY <2>3, <2>4, <2>5
  <1>4. CASE Dispatched
    <2>1. queue' = queue /\ \A c \in Slots : cascade'[c].ops = cascade[c].ops
      BY <1>4 DEF Dispatched, StormInv, CountInv, QueueOK
    <2> QED
      BY <2>1, ChargesIsStormBounded DEF StormInv, Charges
  <1>5. CASE Restart
    <2>1. queue' = <<>> /\ cascade' = [c \in Slots |-> [live |-> 0, ops |-> 0]]
      BY <1>5 DEF Restart, EmptiedQueue, Live
    <2>2. \A c : BoundPlaces(queue', c) = {}
      BY <2>1 DEF BoundPlaces
    <2>3. \A c \in Slots : cascade'[c].ops = 0
      BY <2>1
    <2>4. Charges(queue', cascade')
      BY <2>2, <2>3, FS_EmptySet, LimitsAssumption DEF Charges
    <2> QED
      BY <2>4, ChargesIsStormBounded
  <1>6. CASE EndPress \/ EndSense \/ Script \/ EndDispatch \/ EndMove \/ UNCHANGED vars
    BY <1>1, <1>6 DEF EndPress, EndSense, Script, EndDispatch, EndMove, vars, queued
  <1>7. CASE \E x \in Actors \X Triggers : Sense(x)
    BY <1>1, <1>7 DEF Sense, queued
  <1>8. CASE \E i \in Movers : Move(i)
    BY <1>1, <1>8 DEF Move, queued
  <1>9. CASE \E i \in Buttons, a \in Actors : Press(i, a)
    BY <1>1, <1>9 DEF Press, queued
  <1> QED
    BY <1>2, <1>3, <1>4, <1>5, <1>6, <1>7, <1>8, <1>9 DEF Next, Tick

(* However a world's bindings loop, what the bindings of one root have waiting was
   charged to it, and never more than one cascade's budget: a storm leaves the rest
   of the queue to the others. *)
THEOREM StormsAreBounded == Spec => []StormBounded
  <1>1. Init => StormInv
    BY StormInit
  <1>2. StormInv /\ [Next]_vars => StormInv'
    <2>1. (next \in Slots)' <=> next' \in Slots
      BY DEF Slots
    <2> QED
      BY <2>1, StormStep, CountInvStep, NextStep DEF StormInv
  <1>3. StormInv => StormBounded
    BY DEF StormInv
  <1> QED
    BY <1>1, <1>2, <1>3, PTL DEF Spec

-----------------------------------------------------------------------------
(* Induction, as a set that is closed under counting up. *)
LEMMA CountUp ==
    ASSUME NEW T, 0 \in T, \A n \in Nat : n \in T => n + 1 \in T
    PROVE  \A n \in Nat : n \in T
  <1> DEFINE B == Nat \ T
             R == OpToRel(<, Nat)
  <1> SUFFICES ASSUME B # {} PROVE FALSE
    OBVIOUS
  <1>1. IsWellFoundedOn(R, Nat) /\ B \subseteq Nat
    BY NatLessThanWellFounded
  <1>2. \E x \in B : \A y \in B : <<y, x>> \notin R
    <2> HIDE DEF R, B
    <2> QED
      BY <1>1, WFMin
  <1>3. PICK x \in B : \A y \in B : <<y, x>> \notin R
    BY <1>2
  <1>4. \A y \in Nat : y < x => <<y, x>> \in R
    BY DEF OpToRel
  <1> HIDE DEF R
  <1>5. x # 0 /\ x - 1 \in Nat /\ x - 1 < x /\ x - 1 + 1 = x
    OBVIOUS
  <1>6. x - 1 \in T
    BY <1>3, <1>4, <1>5
  <1> QED
    BY <1>5, <1>6

(* What FlattenSeq counts on: its sum of the first i sequences is defined. *)
LEMMA Flattened ==
    ASSUME NEW S, NEW seqs \in Seq(Seq(S))
    PROVE  FlattenSeq(seqs) \in Seq(S)
  <1> DEFINE n == Len(seqs)
             Sum(g, i) == IF i = 1 THEN seqs[i] ELSE g[i-1] \o seqs[i]
             Sums(g, m) == g = [i \in 1..m |-> Sum(g, i)]
             sums == CHOOSE g : Sums(g, n)
  <1>1. n \in Nat /\ \A i \in 1..n : seqs[i] \in Seq(S)
    OBVIOUS
  <1>2. CASE n = 0
    <2>1. seqs = <<>>
      BY <1>2
    <2>2. FlattenSeq(seqs) = seqs
      BY <1>2 DEF FlattenSeq
    <2>3. <<>> \in Seq(S)
      OBVIOUS
    <2> QED
      BY <2>1, <2>2, <2>3, Zenon
  <1>4. ASSUME NEW g, NEW m, Sums(g, m), NEW i \in 1..m PROVE g[i] = Sum(g, i)
    <2> HIDE DEF Sum
    <2>1. [l \in 1..m |-> Sum(g, l)][i] = Sum(g, i)
      OBVIOUS
    <2> QED
      BY <1>4, <2>1, Zenon
  <1>3. CASE n # 0
    <2>1. FlattenSeq(seqs) = sums[n]
      BY <1>3 DEF FlattenSeq
    <2>2. Sums(sums, n)
      <3> DEFINE T == {m \in Nat : \E g : Sums(g, m)}
      <3>1. 0 \in T
        <4> DEFINE g == [i \in 1..0 |-> 0]
        <4>1. Sums(g, 0)
          OBVIOUS
        <4> QED
          BY <4>1
      <3>2. ASSUME NEW m \in Nat, m \in T PROVE m + 1 \in T
        <4>1. PICK g : Sums(g, m)
          BY <3>2
        <4> DEFINE h == [i \in 1..m + 1 |-> IF i <= m THEN g[i] ELSE Sum(g, i)]
                   k == [i \in 1..m + 1 |-> Sum(h, i)]
        <4>2. ASSUME NEW i \in 1..m + 1 PROVE h[i] = k[i]
          <5>1. CASE i <= m
            <6>0. i \in 1..m
              BY <5>1
            <6>1. g[i] = Sum(g, i)
              BY <1>4, <4>1, <6>0
            <6>2. i # 1 => h[i-1] = g[i-1]
              BY <5>1
            <6> QED
              BY <5>1, <6>1, <6>2
          <5>2. CASE i = m + 1
            <6>2. i # 1 => h[i-1] = g[i-1]
              BY <5>2
            <6> QED
              BY <5>2, <6>2
          <5> QED
            BY <5>1, <5>2
        <4>3. h = k
          BY <4>2
        <4>4. Sums(h, m + 1)
          <5> HIDE DEF h
          <5> QED
            BY <4>3
        <4> HIDE DEF h, k, Sums
        <4> QED
          BY <4>4
      <3> HIDE DEF T, Sums
      <3>3. \A m \in Nat : m \in T
        BY <3>1, <3>2, CountUp
      <3>4. \E g : Sums(g, n)
        BY <1>1, <3>3 DEF T
      <3> QED
        BY <3>4
    <2> DEFINE T == {i \in Nat : i \in 1..n => sums[i] \in Seq(S)}
    <2> HIDE DEF sums
    <2>3. 0 \in T
      OBVIOUS
    <2>4. ASSUME NEW i \in Nat, i \in T PROVE i + 1 \in T
      <3> SUFFICES ASSUME i + 1 \in 1..n PROVE sums[i + 1] \in Seq(S)
        OBVIOUS
      <3> DEFINE j == i + 1
      <3>3. j \in 1..n /\ j - 1 = i
        OBVIOUS
      <3>1. sums[j] = Sum(sums, j)
        <4> HIDE DEF Sum, Sums, j, n
        <4> QED
          BY <1>4, <2>2, <3>3
      <3>2. i + 1 # 1 => sums[i] \in Seq(S)
        BY <1>1, <2>4
      <3> HIDE DEF j
      <3> QED
        BY <1>1, <3>1, <3>2, <3>3 DEF j
    <2> HIDE DEF T
    <2>5. n \in T
      BY <1>1, <2>3, <2>4, CountUp
    <2> QED
      BY <1>1, <1>3, <2>1, <2>5 DEF T
  <1> QED
    BY <1>2, <1>3

(* What an emit queues are inputs their targets accept, of an actor there is. *)
LEMMA PushTyped ==
    ASSUME NEW order, [input |-> order.input, target |-> order.target] \in Orders,
           NEW actor \in Actors \cup {NoActor}, NEW depth \in Nat, NEW bound \in BOOLEAN
    PROVE  Push(order, actor, depth, bound) \in Pushes
  <1> DEFINE o == [input |-> order.input, target |-> order.target]
             p == Push(order, actor, depth, bound)
  <1>1. o.input \in {q.input : q \in Orders} /\ o.target \in Entities
    BY DEF Orders
  <1>2. /\ p.input = o.input /\ p.target = o.target
        /\ p \in [input : {q.input : q \in Orders}, target : Entities, actor : Actors \cup {NoActor},
                  depth : Nat, bound : BOOLEAN]
    BY <1>1 DEF Push
  <1> QED
    BY <1>2 DEF Pushes

LEMMA EmitTyped ==
    ASSUME NEW i \in Entities, NEW event, NEW actor \in Actors \cup {NoActor}, NEW depth \in Nat,
           Emit(i, event, actor, depth)
    PROVE  todo' \in Seq(Pushes)
  <1>1. FromLinks(i, event, actor, depth) \in Seq(Pushes)
    <2> DEFINE told(k) == IF Links[i][k].event = event
                          THEN <<Push(Links[i][k], actor, depth, FALSE)>> ELSE <<>>
               each == [k \in DOMAIN Links[i] |-> told(k)]
    <2>1. \E T : Links[i] \in Seq(T)
      BY WorldAssumption
    <2>2. ASSUME NEW k \in DOMAIN Links[i] PROVE told(k) \in Seq(Pushes)
      <3>1. [input |-> Links[i][k].input, target |-> Links[i][k].target] \in Orders
        BY WorldAssumption
      <3> DEFINE l == Links[i][k]
                 b == FALSE
      <3> HIDE DEF l
      <3>2. b \in BOOLEAN
        OBVIOUS
      <3>3. [input |-> l.input, target |-> l.target] \in Orders
        BY <3>1 DEF l
      <3> HIDE DEF b
      <3>4. Push(l, actor, depth, b) \in Pushes
        BY <3>2, <3>3, PushTyped
      <3> DEFINE p == Push(l, actor, depth, b)
      <3>5. told(k) = IF l.event = event THEN <<p>> ELSE <<>>
        BY Zenon DEF l, b
      <3> HIDE DEF p, told
      <3>6. p \in Pushes
        BY <3>4 DEF p
      <3> QED
        BY <3>5, <3>6
    <2> HIDE DEF told
    <2>3. each \in Seq(Seq(Pushes))
      BY <2>1, <2>2
    <2> HIDE DEF each
    <2>4. FlattenSeq(each) \in Seq(Pushes)
      BY <2>3, Flattened
    <2> QED
      BY <2>4 DEF FromLinks, each, told
  <1>2. FromBindings(i, event, actor, depth) \in Seq(Pushes)
    <2> DEFINE told(b) == IF b.event = event /\ Holds(b.needs) THEN b.actions ELSE <<>>
               each == [k \in DOMAIN Bindings[i] |-> told(Bindings[i][k])]
               actions == FlattenSeq(each)
    <2>1. \E T : Bindings[i] \in Seq(T)
      BY WorldAssumption
    <2>2. ASSUME NEW k \in DOMAIN Bindings[i] PROVE told(Bindings[i][k]) \in Seq(Orders)
      <3> DEFINE needs == SUBSET ((Relays \X BOOLEAN) \cup (Movers \X Phases))
      <3>1. Bindings[i] \in Seq([event : Events, needs : needs, actions : Seq(Orders)])
        BY WorldAssumption
      <3> DEFINE bs == Bindings[i]
                 B == [event : Events, needs : needs, actions : Seq(Orders)]
      <3> HIDE DEF needs
      <3>2. bs[k] \in B
        <4> HIDE DEF B
        <4>1. bs \in Seq(B)
          BY <3>1 DEF B
        <4> QED
          BY <4>1
      <3>3. Bindings[i][k].actions \in Seq(Orders)
        BY <3>2
      <3> QED
        BY <3>3
    <2> HIDE DEF told
    <2>3. each \in Seq(Seq(Orders))
      BY <2>1, <2>2
    <2> HIDE DEF each
    <2>4. actions \in Seq(Orders)
      BY <2>3, Flattened
    <2> HIDE DEF actions
    <2>5. \A k \in DOMAIN actions : Push(actions[k], actor, depth, TRUE) \in Pushes
      <3> SUFFICES ASSUME NEW k \in DOMAIN actions PROVE Push(actions[k], actor, depth, TRUE) \in Pushes
        OBVIOUS
      <3>1. actions[k] \in Orders
        BY <2>4
      <3>2. [input |-> actions[k].input, target |-> actions[k].target] = actions[k]
        BY <3>1 DEF Orders
      <3> QED
        BY <3>1, <3>2, PushTyped
    <2>6. [k \in DOMAIN actions |-> Push(actions[k], actor, depth, TRUE)] \in Seq(Pushes)
      <3> DEFINE push(order) == Push(order, actor, depth, TRUE)
      <3>1. \A k \in DOMAIN actions : push(actions[k]) \in Pushes
        BY <2>5
      <3> HIDE DEF push
      <3>2. [k \in DOMAIN actions |-> push(actions[k])] \in Seq(Pushes)
        BY <2>4, <3>1
      <3> QED
        BY <3>2 DEF push
    <2> QED
      BY <2>6 DEF FromBindings, actions, each, told
  <1> QED
    BY <1>1, <1>2 DEF Emit

(* What is queued and what is about to be, and the rest of the world. *)
TypesInv ==
    /\ generation \in 1..Generations
    /\ active \in [Relays -> BOOLEAN]
    /\ inside \subseteq Actors \X Triggers /\ cooling \subseteq Buttons
    /\ \A k \in DOMAIN queue : Queued(queue[k])
    /\ todo \in Seq(Pushes)
    /\ root \in Slots \cup {None}
    /\ part \in Parts /\ budget \in 0..Budget
    /\ teleports \in [Actors -> Pads \cup {NoActor}]

WorldInv == StormInv /\ RestInv /\ TypesInv

(* The event that is dispatched, field by field. *)
LEMMA QueuedFields ==
    ASSUME NEW e, Queued(e)
    PROVE  /\ e.target \in Entities /\ e.actor \in Actors \cup {NoActor}
           /\ e.depth \in Nat /\ Deeper(e) \in Nat
  <1> DEFINE p == [input |-> e.input, target |-> e.target, actor |-> e.actor, depth |-> e.depth, bound |-> e.bound]
  <1>1. p.target = e.target /\ p.actor = e.actor /\ p.depth = e.depth
    OBVIOUS
  <1>2. p \in Pushes
    BY DEF Queued
  <1> HIDE DEF p
  <1>3. e.target \in Entities /\ e.actor \in Actors \cup {NoActor} /\ e.depth \in Nat
    BY <1>1, <1>2 DEF Pushes
  <1> QED
    BY <1>3 DEF Deeper

LEMMA EventQueued ==
    ASSUME TypesInv, NEW p \in Pushes, NEW c \in Slots \cup {None}
    PROVE  Queued(EventOf(p, c))
  <1> DEFINE e == EventOf(p, c)
  <1>1. e.cascade = c /\ e.generation = generation
    BY DEF EventOf
  <1>2. [input |-> e.input, target |-> e.target, actor |-> e.actor, depth |-> e.depth, bound |-> e.bound] = p
    <2> DEFINE Inputs == {o.input : o \in Orders}
    <2> HIDE DEF Inputs
    <2>1. p \in [input : Inputs, target : Entities, actor : Actors \cup {NoActor}, depth : Nat, bound : BOOLEAN]
      BY DEF Pushes, Inputs
    <2>2. p = [input |-> p.input, target |-> p.target, actor |-> p.actor, depth |-> p.depth, bound |-> p.bound]
      BY <2>1
    <2> QED
      BY <2>2, Zenon DEF EventOf
  <1>3. generation \in 1..Generations
    BY DEF TypesInv
  <1> HIDE DEF e
  <1> QED
    BY <1>1, <1>2, <1>3 DEF Queued, e

(* What a told entity leaves: its emit's pushes, and nothing of a kind it is not. *)
LEMMA ToldTyped ==
    ASSUME TypesInv, RestInv, NEW e, Queued(e), todo = <<>>,
           Dropped(e) \/ RelayTold(e) \/ MoverTold(e) \/ ButtonTold(e) \/ PadTold(e)
    PROVE  /\ todo' \in Seq(Pushes)
           /\ active' \in [Relays -> BOOLEAN]
           /\ inside' \subseteq Actors \X Triggers /\ cooling' \subseteq Buttons
           /\ teleports' \in [Actors -> Pads \cup {NoActor}]
  <1>1. /\ e.target \in Entities /\ e.actor \in Actors \cup {NoActor}
        /\ Deeper(e) \in Nat /\ NoActor \in Actors \cup {NoActor}
    BY QueuedFields
  <1>2. /\ todo \in Seq(Pushes)
        /\ active \in [Relays -> BOOLEAN]
        /\ inside \subseteq Actors \X Triggers /\ cooling \subseteq Buttons
        /\ teleports \in [Actors -> Pads \cup {NoActor}]
    BY DEF TypesInv
  <1>3. CASE Dropped(e)
    BY <1>2, <1>3 DEF Dropped, world
  <1>4. CASE RelayTold(e)
    <2>1. todo' \in Seq(Pushes)
      BY <1>1, <1>4, EmitTyped DEF RelayTold
    <2>2. active' = [active EXCEPT ![e.target] = e.input = "activate"]
          /\ UNCHANGED <<inside, cooling, teleports>>
      BY <1>4 DEF RelayTold
    <2>3. active' \in [Relays -> BOOLEAN]
      <3> DEFINE on == e.input = "activate"
      <3>1. on \in BOOLEAN
        OBVIOUS
      <3>2. active' = [active EXCEPT ![e.target] = on]
        BY <2>2
      <3> HIDE DEF on
      <3> QED
        BY <1>2, <3>1, <3>2
    <2> QED
      BY <1>2, <2>1, <2>2, <2>3
  <1>5. CASE MoverTold(e)
    <2>1. todo' = todo \/ Arrived(e.target, ToldPhase(e), Deeper(e))
      BY <1>5 DEF MoverTold
    <2>2. todo' \in Seq(Pushes)
      BY <1>1, <1>2, <2>1, EmitTyped DEF Arrived
    <2> QED
      BY <1>2, <1>5, <2>2 DEF MoverTold
  <1>6. CASE ButtonTold(e)
    <2>1. CASE e.target \in cooling
      BY <1>2, <1>6, <2>1 DEF ButtonTold, world
    <2>2. CASE e.target \notin cooling
      <3>1. UseOf(e.target, e.actor, Deeper(e)) /\ e.target \in Buttons /\ teleports' = teleports
        BY <1>6, <2>2 DEF ButtonTold
      <3>2. todo' \in Seq(Pushes)
        BY <1>1, <3>1, EmitTyped DEF UseOf
      <3> QED
        BY <1>2, <3>1, <3>2 DEF UseOf
    <2> QED
      BY <2>1, <2>2
  <1>7. CASE PadTold(e)
    BY <1>1, <1>2, <1>7 DEF PadTold, world
  <1> QED
    BY <1>3, <1>4, <1>5, <1>6, <1>7

LEMMA TypesStep == WorldInv /\ [Next]_vars => TypesInv'
  <1> SUFFICES ASSUME WorldInv, [Next]_vars PROVE TypesInv'
    OBVIOUS
  <1> USE LimitsAssumption
  <1>0. TypesInv /\ RestInv /\ (\E S : queue \in Seq(S)) /\ NoActor \in Actors \cup {NoActor}
    BY DEF WorldInv, StormInv, CountInv, QueueOK
  <1>1. CASE PushNext
    <2> DEFINE p == Head(todo)
    <2>1. p \in Pushes /\ todo' \in Seq(Pushes)
      BY <1>0, <1>1 DEF PushNext, TypesInv
    <2>2. PICK c \in Slots \cup {None}, opened \in BOOLEAN :
              /\ LET table == Opened(c, opened)
                 IN  IF OverBudget(c, p, table) THEN queue' = queue /\ cascade' = table
                     ELSE Queue(p, c, table)
              /\ root' = IF current # None \/ Len(todo) = 1 THEN None ELSE c
      BY <1>1 DEF PushNext
    <2> HIDE DEF p
    <2>3. queue' = queue \/ queue' = Append(queue, EventOf(p, c))
      BY <2>2 DEF Queue
    <2>4. \A k \in DOMAIN queue' : Queued(queue'[k])
      <3>1. CASE queue' = queue
        BY <1>0, <3>1 DEF TypesInv
      <3>2. CASE queue' = Append(queue, EventOf(p, c))
        <4> DEFINE e == EventOf(p, c)
        <4>1. Queued(e)
          BY <1>0, <2>1, EventQueued
        <4> HIDE DEF e
        <4>2. queue' = Append(queue, e)
          BY <3>2 DEF e
        <4>3. PICK S : queue \in Seq(S)
          BY <1>0
        <4>4. \A k \in DOMAIN queue' : queue'[k] = e \/ (k \in DOMAIN queue /\ queue'[k] = queue[k])
          BY <4>2, <4>3
        <4> QED
          BY <1>0, <4>1, <4>4 DEF TypesInv
      <3> QED
        BY <2>3, <3>1, <3>2
    <2>6. root' \in Slots \cup {None}
      BY <2>2
    <2>7. UNCHANGED <<generation, active, inside, cooling, part, budget, teleports>>
      BY <1>1 DEF PushNext, world, tickVars
    <2> QED
      BY <1>0, <2>1, <2>4, <2>6, <2>7 DEF TypesInv
  <1>2. CASE Dispatch
    <2> DEFINE e == Head(queue)
    <2>1. PICK S : queue \in Seq(S)
      BY <1>0
    <2>2. /\ queue # <<>> /\ queue' = Tail(queue) /\ todo = <<>> /\ budget > 0 /\ budget' = budget - 1
          /\ UNCHANGED <<generation, root, part>>
          /\ Dropped(e) \/ RelayTold(e) \/ MoverTold(e) \/ ButtonTold(e) \/ PadTold(e)
      BY <1>2 DEF Dispatch, Quiet
    <2>3. /\ e = queue[1] /\ 1 \in DOMAIN queue
          /\ \A k \in DOMAIN queue' : k + 1 \in DOMAIN queue /\ queue'[k] = queue[k + 1]
      BY <2>1, <2>2
    <2> HIDE DEF e
    <2>4. Queued(e) /\ \A k \in DOMAIN queue' : Queued(queue'[k])
      BY <1>0, <2>3 DEF TypesInv
    <2>5. /\ todo' \in Seq(Pushes)
          /\ active' \in [Relays -> BOOLEAN]
          /\ inside' \subseteq Actors \X Triggers /\ cooling' \subseteq Buttons
          /\ teleports' \in [Actors -> Pads \cup {NoActor}]
      BY <1>0, <2>2, <2>4, ToldTyped
    <2>6. budget' \in 0..Budget
      BY <1>0, <2>2 DEF TypesInv
    <2> QED
      BY <1>0, <2>2, <2>4, <2>5, <2>6 DEF TypesInv
  <1>3. CASE Dispatched
    BY <1>0, <1>3 DEF Dispatched, TypesInv, world, tickVars
  <1>4. CASE Restart
    <2>1. queue' = <<>> /\ todo' = todo /\ UNCHANGED <<root, budget>>
      BY <1>4 DEF Restart, EmptiedQueue
    <2>2. generation' \in 1..Generations
      BY <1>0, <1>4 DEF Restart, TypesInv
    <2>3. /\ active' \in [Relays -> BOOLEAN] /\ inside' = {} /\ cooling' = {}
          /\ part' \in Parts /\ teleports' \in [Actors -> Pads \cup {NoActor}]
      BY <1>4 DEF Restart, Parts
    <2> QED
      BY <1>0, <2>1, <2>2, <2>3 DEF TypesInv
  <1>5. CASE EndPress \/ EndSense \/ EndMove \/ UNCHANGED vars
    BY <1>0, <1>5 DEF EndPress, EndSense, EndMove, TypesInv, vars, world, queued, tickVars, Parts
  <1>6. CASE Script
    <2>1. todo' \in Seq(Pushes)
      <3>1. CASE todo' = <<>>
        BY <3>1
      <3>2. ASSUME NEW order \in Requests, NEW a \in Actors \cup {NoActor},
                   todo' = <<Push(order, a, 0, FALSE)>>
            PROVE  todo' \in Seq(Pushes)
        <4>1. order \in Orders
          BY WorldAssumption
        <4>2. [input |-> order.input, target |-> order.target] \in Orders
          BY <4>1 DEF Orders
        <4> DEFINE b == FALSE
                   p == Push(order, a, 0, b)
        <4>3. b \in BOOLEAN
          OBVIOUS
        <4> HIDE DEF b
        <4>4. p \in Pushes
          BY <4>2, <4>3, PushTyped
        <4>5. todo' = <<p>>
          BY <3>2, Zenon DEF b
        <4> HIDE DEF p
        <4> QED
          BY <4>4, <4>5
      <3> QED
        BY <1>6, <3>1, <3>2 DEF Script
    <2>2. part' \in Parts /\ budget' \in 0..Budget /\ teleports' \in [Actors -> Pads \cup {NoActor}]
      BY <1>6 DEF Script, Parts
    <2> QED
      BY <1>0, <1>6, <2>1, <2>2 DEF Script, TypesInv, world, queued
  <1>7. CASE EndDispatch
    BY <1>0, <1>7 DEF EndDispatch, TypesInv, queued, Parts
  <1>8. ASSUME NEW x \in Actors \X Triggers, Sense(x) PROVE TypesInv'
    <2>1. /\ inside' \subseteq Actors \X Triggers
          /\ todo' = todo \/ Emit(x[2], "entered", x[1], 1)
      BY <1>0, <1>8 DEF Sense, TypesInv
    <2>2. x[2] \in Entities /\ x[1] \in Actors \cup {NoActor}
      BY DEF Triggers, Of
    <2>3. todo' \in Seq(Pushes)
      BY <1>0, <2>1, <2>2, EmitTyped DEF TypesInv
    <2> QED
      BY <1>0, <1>8, <2>1, <2>3 DEF Sense, TypesInv, queued
  <1>9. ASSUME NEW i \in Movers, Move(i) PROVE TypesInv'
    <2>1. i \in Entities
      BY DEF Movers, Of
    <2>2. todo' = todo \/ \E there : Arrived(i, there, 1)
      BY <1>9 DEF Move, Moved
    <2>3. todo' \in Seq(Pushes)
      BY <1>0, <2>1, <2>2, EmitTyped DEF Arrived, TypesInv
    <2> QED
      BY <1>0, <1>9, <2>3 DEF Move, TypesInv, queued
  <1>10. ASSUME NEW i \in Buttons, NEW a \in Actors, Press(i, a) PROVE TypesInv'
    <2>1. i \in Entities /\ a \in Actors \cup {NoActor} /\ UseOf(i, a, 1)
      BY <1>10 DEF Buttons, Of, Press
    <2>2. todo' \in Seq(Pushes)
      BY <2>1, EmitTyped DEF UseOf
    <2> QED
      BY <1>0, <1>10, <2>1, <2>2 DEF Press, UseOf, TypesInv, queued, tickVars
  <1> QED
    BY <1>1, <1>2, <1>3, <1>4, <1>5, <1>6, <1>7, <1>8, <1>9, <1>10 DEF Next, Tick

(* What waits and what is about to be queued are pushes the loader let through:
   whatever is linked and bound, an event's target is an entity that accepts its
   input. *)
THEOREM WorldTypes == Spec => []WorldTypeOK
  <1>1. Init => WorldInv
    <2> SUFFICES ASSUME Init PROVE WorldInv
      OBVIOUS
    <2>1. StormInv
      BY StormInit
    <2>2. RestInv
      BY LimitsAssumption DEF Init, RestInv, RestsAtItsEnds, Movers, Of, Entities, Phases
    <2>3. TypesInv
      BY LimitsAssumption DEF Init, TypesInv, Parts
    <2> QED
      BY <2>1, <2>2, <2>3 DEF WorldInv
  <1>2. WorldInv /\ [Next]_vars => WorldInv'
    <2>1. (next \in Slots)' <=> next' \in Slots
      BY DEF Slots
    <2> QED
      BY <2>1, StormStep, CountInvStep, NextStep, RestInvStep, TypesStep DEF WorldInv, StormInv
  <1>3. WorldInv => WorldTypeOK
    BY DEF WorldInv, StormInv, CountInv, QueueOK, RestInv, TypesInv, WorldTypeOK
  <1> QED
    BY <1>1, <1>2, <1>3, PTL DEF Spec
=============================================================================
