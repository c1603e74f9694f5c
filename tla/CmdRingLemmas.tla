---------------------------- MODULE CmdRingLemmas ----------------------------
(***************************************************************************)
(* Facts about the ring of Cmd_queue for every number of entries, for the  *)
(* modules that use it: cursor arithmetic, what create() and the pair of   *)
(* work_done() and destruct() keep, and the sequences that refinements of  *)
(* the ring speak of.                                                      *)
(***************************************************************************)
EXTENDS CmdRing, TLAPS, SequenceTheorems

LEMMA NoSlotIsNoSlot == NoSlot \notin Slots
  BY EntriesAssumption DEF Slots, NoSlot

\* wrap_around(i + 1) is the next slot, back to 0 after the last one.
LEMMA WrapAroundNext ==
  ASSUME NEW i \in Slots
  PROVE  /\ WrapAround(i + 1) = IF i = Entries - 1 THEN 0 ELSE i + 1
         /\ WrapAround(i + 1) \in Slots
  BY EntriesAssumption DEF WrapAround, Slots

\* The distance between two cursors is a slot number.
LEMMA DistanceType ==
  ASSUME NEW a \in Slots, NEW b \in Slots
  PROVE  /\ Distance(a, b) \in Slots /\ Distance(a, b) \in Int
         /\ ~(Distance(a, b) < Distance(a, b))
  BY EntriesAssumption DEF Distance, Slots

\* Seen from a, cursors at the same distance are the same cursor.
LEMMA DistanceInjective ==
  ASSUME NEW a \in Slots, NEW b \in Slots, NEW c \in Slots,
         Distance(a, b) = Distance(a, c)
  PROVE  b = c
  BY EntriesAssumption DEF Distance, Slots

\* Advancing the far cursor adds one, unless it runs into the near one.
LEMMA DistanceAdvanceFar ==
  ASSUME NEW a \in Slots, NEW b \in Slots, WrapAround(b + 1) # a
  PROVE  Distance(a, WrapAround(b + 1)) = Distance(a, b) + 1
  BY WrapAroundNext, EntriesAssumption DEF Distance, Slots

\* Advancing the near cursor takes one off every distance but its own.
LEMMA DistanceAdvanceNear ==
  ASSUME NEW a \in Slots, NEW b \in Slots, a # b
  PROVE  Distance(WrapAround(a + 1), b) = Distance(a, b) - 1
  BY WrapAroundNext, EntriesAssumption DEF Distance, Slots

\* A slot the near cursor leaves behind is last in the ring.
LEMMA DistanceLeftBehind ==
  ASSUME NEW a \in Slots
  PROVE  Distance(WrapAround(a + 1), a) = Entries - 1
  BY WrapAroundNext, EntriesAssumption DEF Distance, Slots

-----------------------------------------------------------------------------
\* The ring starts sound.
LEMMA EmptyRingOK == RingOK(EmptyQueue)
<1>1. 0 \in Slots
  BY EntriesAssumption DEF Slots
<1>2. EmptyQueue \in Queues
  BY <1>1 DEF EmptyQueue, Queues
<1>3. \A s \in Slots : ~(Distance(0, s) < Distance(0, 0))
  BY EntriesAssumption DEF Slots, Distance
<1> QED
  BY <1>2, <1>3 DEF RingOK, EmptyQueue

\* create() on a ring with a free slot does not throw and keeps it sound.
LEMMA CreatedOK ==
  ASSUME NEW q, RingOK(q), CanCreate(q)
  PROVE  ~CreateThrows(q) /\ RingOK(Created(q))
<1> DEFINE d == q.destruct
           c == q.create
           p == Created(q)
<1>1. /\ q \in Queues /\ d \in Slots /\ c \in Slots /\ q.working = d
      /\ q.enqueued = {s \in Slots : Distance(d, s) < Distance(d, c)}
  BY DEF RingOK, Queues
<1>2. WrapAround(c + 1) # d /\ WrapAround(c + 1) \in Slots
  BY <1>1, WrapAroundNext DEF CanCreate, IsFull
<1>3. p \in Queues /\ p.create = WrapAround(c + 1) /\ p.destruct = d
      /\ p.working = d /\ p.enqueued = q.enqueued \cup {c}
  BY <1>1, <1>2 DEF Queues, Created
<1>4. c \notin q.enqueued
  <2>1. ~(Distance(d, c) < Distance(d, c))
    BY <1>1, DistanceType
  <2> QED
    BY <1>1, <2>1
<1>5. Distance(d, p.create) = Distance(d, c) + 1
  BY <1>1, <1>2, <1>3, DistanceAdvanceFar
<1>6. ASSUME NEW s \in Slots
      PROVE  (s \in p.enqueued) <=> (Distance(d, s) < Distance(d, p.create))
  <2>1. Distance(d, s) \in Int /\ Distance(d, c) \in Int
    BY <1>1, DistanceType
  <2>2. Distance(d, s) = Distance(d, c) <=> s = c
    BY <1>1, DistanceInjective
  <2>3. s \in q.enqueued <=> Distance(d, s) < Distance(d, c)
    BY <1>1
  <2> HIDE DEF d, c, p
  <2> QED
    BY <1>3, <1>5, <2>1, <2>2, <2>3
<1>7. p.enqueued \subseteq Slots
  BY <1>3 DEF Queues
<1> HIDE DEF p
<1>8. RingOK(p)
  BY <1>3, <1>6, <1>7 DEF RingOK
<1> QED
  BY <1>4, <1>8 DEF CreateThrows, p

\* create() leaves the working entry alone, unless there was none.
LEMMA CreatedWorking ==
  ASSUME NEW q, RingOK(q), CanCreate(q)
  PROVE  /\ q.create \in Slots
         /\ Working(Created(q)) = IF Working(q) = NoSlot THEN q.create
                                                       ELSE Working(q)
<1> DEFINE p == Created(q)
<1>1. q \in Queues /\ q.working = q.destruct /\ q.create \in Slots
  BY DEF RingOK, Queues
<1>2. WrapAround(q.create + 1) # q.working
  BY <1>1 DEF CanCreate, IsFull
<1>3. p.create = WrapAround(q.create + 1) /\ p.working = q.working
  BY <1>1 DEF Created, Queues
<1>4. q.working # NoSlot
  BY <1>1, EntriesAssumption DEF Queues, Slots, NoSlot
<1> HIDE DEF p
<1>5. Working(p) = IF Working(q) = NoSlot THEN q.create ELSE Working(q)
  BY <1>2, <1>3, <1>4 DEF Working
<1> QED
  BY <1>1, <1>5 DEF p

\* work_done() and destruct() of the working entry do not throw and keep the
\* ring sound.
LEMMA RetiredOK ==
  ASSUME NEW q, NEW s \in Slots, RingOK(q), WorkDoneAllowed(q, s)
  PROVE  /\ DestructAllowed(WorkDone(q), s)
         /\ RingOK(Destructed(WorkDone(q), s))
<1> DEFINE d == q.destruct
           c == q.create
           w == WorkDone(q)
           p == Destructed(w, s)
<1>1. /\ q \in Queues /\ d \in Slots /\ c \in Slots /\ q.working = d
      /\ q.enqueued = {t \in Slots : Distance(d, t) < Distance(d, c)}
  BY DEF RingOK, Queues
<1>2. s = d /\ d # c
  BY <1>1, EntriesAssumption DEF WorkDoneAllowed, Working, Slots, NoSlot
<1>3. WrapAround(d + 1) \in Slots /\ WrapAround(d + 1) # d
  BY <1>1, WrapAroundNext, EntriesAssumption DEF Slots
<1>4. /\ w \in Queues /\ w.create = c /\ w.destruct = d
      /\ w.working = WrapAround(d + 1) /\ w.enqueued = q.enqueued
  BY <1>1, <1>3 DEF WorkDone, Queues
<1>5. DestructAllowed(w, s)
  <2>1. Distance(d, d) < Distance(d, c)
    BY <1>1, <1>2, EntriesAssumption DEF Distance, Slots
  <2>2. s \in q.enqueued
    BY <1>1, <1>2, <2>1
  <2> QED
    BY <1>2, <1>3, <1>4, <2>2 DEF DestructAllowed
<1>6. /\ p \in Queues /\ p.create = c /\ p.destruct = WrapAround(d + 1)
      /\ p.working = WrapAround(d + 1) /\ p.enqueued = q.enqueued \ {d}
  <2> HIDE DEF w
  <2> QED
    BY <1>2, <1>3, <1>4 DEF Destructed, Queues
<1>7. ASSUME NEW t \in Slots
      PROVE  (t \in p.enqueued) <=> (Distance(p.destruct, t) < Distance(p.destruct, c))
  <2>1. t \in q.enqueued <=> Distance(d, t) < Distance(d, c)
    BY <1>1
  <2>2. Distance(d, t) \in Int /\ Distance(d, c) \in Slots
    BY <1>1, DistanceType
  <2>3. Distance(p.destruct, c) = Distance(d, c) - 1
    BY <1>1, <1>2, <1>6, DistanceAdvanceNear
  <2>4. CASE t = d
    <3>1. Distance(p.destruct, t) = Entries - 1
      BY <1>1, <1>6, <2>4, DistanceLeftBehind
    <3> HIDE DEF d, c, p
    <3> QED
      BY <1>6, <2>2, <2>3, <2>4, <3>1, EntriesAssumption DEF Slots
  <2>5. CASE t # d
    <3>1. Distance(p.destruct, t) = Distance(d, t) - 1
      BY <1>1, <1>6, <2>5, DistanceAdvanceNear
    <3> HIDE DEF d, c, p
    <3> QED
      BY <1>6, <2>1, <2>2, <2>3, <2>5, <3>1 DEF Slots
  <2> QED
    BY <2>4, <2>5
<1>8. p.enqueued \subseteq Slots
  BY <1>6 DEF Queues
<1> HIDE DEF p, w
<1>9. RingOK(p)
  BY <1>6, <1>7, <1>8 DEF RingOK
<1> QED
  BY <1>5, <1>9 DEF p, w
-----------------------------------------------------------------------------
\* wrap_around() on the sum of a cursor and a number of slots.
LEMMA WrapAroundSum ==
  ASSUME NEW a \in Slots, NEW i \in 0 .. Entries
  PROVE  /\ WrapAround(a + i) = IF a + i < Entries THEN a + i ELSE a + i - Entries
         /\ WrapAround(a + i) \in Slots
  BY EntriesAssumption DEF WrapAround, Slots

\* Going on from the next slot.
LEMMA WrapAroundStep ==
  ASSUME NEW a \in Slots, NEW i \in 0 .. Entries - 1
  PROVE  WrapAround(WrapAround(a + 1) + i) = WrapAround(a + (i + 1))
  BY WrapAroundNext, WrapAroundSum, EntriesAssumption DEF Slots

\* The slots between two cursors, by their distance from the first.
LEMMA SlotAtDistance ==
  ASSUME NEW a \in Slots, NEW b \in Slots
  PROVE  /\ WrapAround(a + Distance(a, b)) = b
         /\ \A i \in 0 .. Entries - 1 : Distance(a, WrapAround(a + i)) = i
<1>1. Distance(a, b) \in 0 .. Entries
  BY EntriesAssumption DEF Slots, Distance
<1>2. WrapAround(a + Distance(a, b)) = b
  <2> DEFINE i == Distance(a, b)
  <2>1. i = IF a <= b THEN b - a ELSE b + Entries - a
    BY DEF Distance
  <2> HIDE DEF i
  <2>2. WrapAround(a + i) = IF a + i < Entries THEN a + i ELSE a + i - Entries
    BY <1>1, WrapAroundSum DEF i
  <2> QED
    BY <2>1, <2>2, EntriesAssumption DEF Slots, i
<1>3. ASSUME NEW i \in 0 .. Entries - 1 PROVE Distance(a, WrapAround(a + i)) = i
  BY WrapAroundSum, EntriesAssumption DEF Slots, Distance
<1> QED
  BY <1>2, <1>3

-----------------------------------------------------------------------------
(* Sequences given by their elements.                                      *)

LEMMA SeqOfElements ==
  ASSUME NEW S, NEW n \in Nat, NEW e \in [1 .. n -> S]
  PROVE  e \in Seq(S) /\ Len(e) = n
<1>1. e \in Seq(S)
  BY SeqDef
<1>2. Len(e) \in Nat /\ DOMAIN e = 1 .. Len(e)
  BY <1>1, LenProperties
<1>3. 1 .. n = 1 .. Len(e)
  BY <1>2
<1>4. Len(e) = n
  <2>1. CASE Len(e) < n
    <3>1. n \in 1 .. n /\ n \notin 1 .. Len(e)
      BY <1>2, <2>1
    <3> QED
      BY <1>3, <3>1
  <2>2. CASE n < Len(e)
    <3>1. Len(e) \notin 1 .. n /\ Len(e) \in 1 .. Len(e)
      BY <1>2, <2>2
    <3> QED
      BY <1>3, <3>1
  <2> QED
    BY <1>2, <2>1, <2>2
<1> QED
  BY <1>1, <1>4

LEMMA EmptyElements ==
  ASSUME NEW S, NEW e \in [1 .. 0 -> S]
  PROVE  e = <<>>
<1>1. e \in Seq(S) /\ Len(e) = 0
  BY SeqOfElements
<1> QED
  BY <1>1, EmptySeq

LEMMA AppendElements ==
  ASSUME NEW S, NEW n \in Nat, NEW e \in [1 .. n -> S], NEW x,
         NEW f \in [1 .. n + 1 -> S], \A i \in 1 .. n : f[i] = e[i], f[n + 1] = x
  PROVE  f = Append(e, x)
<1>1. e \in Seq(S) /\ Len(e) = n /\ f \in Seq(S) /\ Len(f) = n + 1
  BY SeqOfElements, n + 1 \in Nat
<1>2. x \in S
  OBVIOUS
<1>3. /\ Append(e, x) \in Seq(S) /\ Len(Append(e, x)) = n + 1
      /\ \A i \in 1 .. n + 1 : Append(e, x)[i] = IF i <= n THEN e[i] ELSE x
  BY <1>1, <1>2, AppendProperties
<1>4. \A i \in 1 .. n + 1 : f[i] = Append(e, x)[i]
  BY <1>3
<1> QED
  BY <1>1, <1>3, <1>4, SeqEqual

LEMMA TailElements ==
  ASSUME NEW S, NEW n \in Nat, NEW e \in [1 .. n + 1 -> S],
         NEW f \in [1 .. n -> S], \A i \in 1 .. n : f[i] = e[i + 1]
  PROVE  e # <<>> /\ f = Tail(e) /\ Head(e) = e[1]
<1>1. e \in Seq(S) /\ Len(e) = n + 1 /\ f \in Seq(S) /\ Len(f) = n
  BY SeqOfElements, n + 1 \in Nat
<1>2. e # <<>>
  BY <1>1, EmptySeq
<1>3. /\ Tail(e) \in Seq(S) /\ Len(Tail(e)) = n
      /\ \A i \in 1 .. n : Tail(e)[i] = e[i + 1]
  BY <1>1, <1>2, HeadTailProperties
<1>4. f = Tail(e)
  BY <1>1, <1>3, SeqEqual
<1>5. Head(e) = e[1]
  OBVIOUS
<1> QED
  BY <1>2, <1>4, <1>5

-----------------------------------------------------------------------------
(* The slots in use as a sequence.                                         *)

\* The slots from cursor a up to cursor b, oldest first.
Between(a, b) == [i \in 1 .. Distance(a, b) |-> WrapAround(a + i - 1)]

LEMMA BetweenIs ==
  ASSUME NEW a \in Slots, NEW b \in Slots
  PROVE  /\ Distance(a, b) \in Nat
         /\ Between(a, b) \in [1 .. Distance(a, b) -> Slots]
         /\ \A i \in 1 .. Distance(a, b) : /\ Between(a, b)[i] = WrapAround(a + (i - 1))
                                           /\ Distance(a, Between(a, b)[i]) = i - 1
<1>1. Distance(a, b) \in Nat /\ Distance(a, b) <= Entries - 1
  BY EntriesAssumption DEF Slots, Distance
<1>2. ASSUME NEW i \in 1 .. Distance(a, b)
      PROVE  /\ a + i - 1 = a + (i - 1) /\ i - 1 \in 0 .. Entries - 1
             /\ WrapAround(a + (i - 1)) \in Slots
             /\ Distance(a, WrapAround(a + (i - 1))) = i - 1
  <2>1. i - 1 \in 0 .. Entries - 1 /\ i - 1 \in 0 .. Entries /\ a + i - 1 = a + (i - 1)
    BY <1>1, EntriesAssumption DEF Slots
  <2> QED
    BY <2>1, WrapAroundSum, SlotAtDistance
<1> QED
  BY <1>1, <1>2 DEF Between

LEMMA BetweenEmpty ==
  ASSUME NEW a \in Slots
  PROVE  Between(a, a) = <<>>
<1>1. Distance(a, a) = 0
  BY EntriesAssumption DEF Distance, Slots
<1> QED
  BY <1>1, BetweenIs, EmptyElements

LEMMA BetweenCreate ==
  ASSUME NEW a \in Slots, NEW b \in Slots, WrapAround(b + 1) # a
  PROVE  Between(a, WrapAround(b + 1)) = Append(Between(a, b), b)
<1> DEFINE n == Distance(a, b)
           e == Between(a, b)
           f == Between(a, WrapAround(b + 1))
<1>1. /\ WrapAround(b + 1) \in Slots /\ Distance(a, WrapAround(b + 1)) = n + 1
      /\ WrapAround(a + n) = b
  BY WrapAroundNext, DistanceAdvanceFar, SlotAtDistance
<1>2. n \in Nat /\ e \in [1 .. n -> Slots] /\ f \in [1 .. n + 1 -> Slots]
  BY <1>1, BetweenIs
<1>3. \A i \in 1 .. n : e[i] = WrapAround(a + (i - 1))
  BY BetweenIs
<1>4. \A i \in 1 .. n + 1 : f[i] = WrapAround(a + (i - 1))
  BY <1>1, BetweenIs
<1> HIDE DEF n, e, f
<1>5. f[n + 1] = b
  <2>1. n + 1 \in 1 .. n + 1 /\ n + 1 - 1 = n
    BY <1>2
  <2>2. ASSUME NEW i \in 1 .. n + 1, i - 1 = n PROVE f[i] = b
    BY <1>1, <1>4, <2>2
  <2>3. PICK i \in 1 .. n + 1 : i = n + 1
    BY <2>1
  <2>4. i - 1 = n
    BY <1>2, <2>3
  <2> QED
    BY <2>2, <2>3, <2>4
<1>6. \A i \in 1 .. n : f[i] = e[i]
  BY <1>2, <1>3, <1>4
<1>7. f = Append(e, b)
  BY <1>2, <1>5, <1>6, AppendElements
<1> QED
  BY <1>7 DEF e, f

LEMMA BetweenRetire ==
  ASSUME NEW a \in Slots, NEW b \in Slots, a # b
  PROVE  /\ Between(a, b) # <<>> /\ Head(Between(a, b)) = a
         /\ Between(WrapAround(a + 1), b) = Tail(Between(a, b))
<1> DEFINE c == WrapAround(a + 1)
           n == Distance(c, b)
           e == Between(a, b)
           f == Between(c, b)
<1>1. c \in Slots /\ n = Distance(a, b) - 1 /\ Distance(a, b) \in Int
  BY WrapAroundNext, DistanceAdvanceNear, DistanceType
<1>2. n \in Nat /\ e \in [1 .. n + 1 -> Slots] /\ f \in [1 .. n -> Slots] /\ n <= Entries - 1
  <2>1. n \in Slots /\ f \in [1 .. n -> Slots]
    BY <1>1, BetweenIs, DistanceType
  <2> HIDE DEF n, f
  <2>2. n \in Nat /\ n <= Entries - 1 /\ Distance(a, b) = n + 1
    BY <1>1, <2>1, EntriesAssumption DEF Slots
  <2>3. e \in [1 .. Distance(a, b) -> Slots]
    BY BetweenIs
  <2> QED
    BY <2>1, <2>2, <2>3
<1>3. \A i \in 1 .. n + 1 : e[i] = WrapAround(a + (i - 1))
  <2>1. Distance(a, b) = n + 1
    <3> HIDE DEF n
    <3> QED
      BY <1>1, <1>2
  <2> QED
    BY <2>1, BetweenIs
<1>4. \A i \in 1 .. n : f[i] = WrapAround(c + (i - 1))
  BY <1>1, BetweenIs
<1>5. ASSUME NEW i \in 1 .. n PROVE f[i] = e[i + 1]
  <2>1. i - 1 \in 0 .. Entries - 1 /\ i + 1 \in 1 .. n + 1 /\ i - 1 + 1 = i /\ i + 1 - 1 = i
    BY <1>2, EntriesAssumption
  <2>2. WrapAround(c + (i - 1)) = WrapAround(a + i)
    BY <2>1, WrapAroundStep
  <2> HIDE DEF c, n, e, f
  <2>3. e[i + 1] = WrapAround(a + i)
    BY <1>3, <2>1
  <2> QED
    BY <1>4, <2>2, <2>3
<1>6. e[1] = a
  <2>1. WrapAround(a + 0) = a
    BY EntriesAssumption DEF WrapAround, Slots
  <2> HIDE DEF c, n, e, f
  <2>2. 1 \in 1 .. n + 1 /\ 1 - 1 = 0
    BY <1>2
  <2> QED
    BY <1>3, <2>1, <2>2
<1> HIDE DEF c, n, e, f
<1>7. e # <<>> /\ f = Tail(e) /\ Head(e) = e[1]
  BY <1>2, <1>5, TailElements
<1> QED
  BY <1>6, <1>7 DEF c, e, f
=============================================================================
