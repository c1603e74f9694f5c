--------------------------- MODULE CmdQueueProofs ---------------------------
(***************************************************************************)
(* The ring invariants of CmdQueue, and that the ring implements CmdFifo,  *)
(* for every number of entries.                                            *)
(***************************************************************************)
EXTENDS CmdQueue, CmdRingLemmas

\* The inductive invariant: cursors and flags determine each other, the done
\* part of the ring is at most the slot being retired, and nothing was thrown.
RingInv == TypeOK /\ FlagsMatchCursors /\ CursorsInOrder /\ NoFault

-----------------------------------------------------------------------------
LEMMA InitRingInv == Init => RingInv
<1> SUFFICES ASSUME Init PROVE RingInv
  OBVIOUS
<1>1. /\ ring.create = 0 /\ ring.working = 0 /\ ring.destruct = 0
      /\ ring.enqueued = {} /\ retiring = NoSlot /\ fault = ""
  BY DEF Init, EmptyQueue
<1>2. 0 \in Slots
  BY EntriesAssumption DEF Slots
<1>3. TypeOK
  BY <1>1, <1>2 DEF TypeOK, Queues, Init, EmptyQueue
<1>4. FlagsMatchCursors
  <2>1. \A s \in Slots : ~(Distance(0, s) < Distance(0, 0))
    BY EntriesAssumption DEF Slots, Distance
  <2> QED
    BY <1>1, <2>1 DEF FlagsMatchCursors
<1>5. CursorsInOrder
  <2>1. Distance(0, 0) <= Distance(0, 0)
    BY DEF Distance
  <2> QED
    BY <1>1, <2>1 DEF CursorsInOrder
<1> QED
  BY <1>1, <1>3, <1>4, <1>5 DEF RingInv, NoFault

\* create() keeps the ring consistent, and cannot throw.
LEMMA CreateKeepsRingInv == RingInv /\ Create => RingInv'
<1> SUFFICES ASSUME RingInv, Create PROVE RingInv'
  OBVIOUS
<1> DEFINE d == ring.destruct
           c == ring.create
<1>1. /\ ring \in Queues /\ d \in Slots /\ c \in Slots /\ ring.working \in Slots
      /\ retiring \in Slots \cup {NoSlot} /\ fault = ""
  BY DEF RingInv, TypeOK, Queues, NoFault
<1>2. WrapAround(c + 1) # d /\ WrapAround(c + 1) \in Slots
  BY <1>1, WrapAroundNext DEF Create, CanCreate, IsFull
<1>3. c \notin ring.enqueued
  <2>1. ~(Distance(d, c) < Distance(d, c))
    BY <1>1, DistanceType
  <2>2. ring.enqueued = {s \in Slots : Distance(d, s) < Distance(d, c)}
    BY DEF RingInv, FlagsMatchCursors
  <2> QED
    BY <2>1, <2>2
<1>4. /\ ring' = [ring EXCEPT !.create = WrapAround(c + 1),
                              !.enqueued = @ \cup {c}]
      /\ fault' = "" /\ retiring' = retiring
  BY <1>1, <1>3 DEF Create, Created, CreateThrows
<1>5. /\ ring'.create = WrapAround(c + 1) /\ ring'.destruct = d
      /\ ring'.working = ring.working
      /\ ring'.enqueued = ring.enqueued \cup {c}
  BY <1>1, <1>4 DEF Queues
<1>6. Distance(d, ring'.create) = Distance(d, c) + 1
  BY <1>1, <1>2, <1>5, DistanceAdvanceFar
<1>7. TypeOK'
  BY <1>1, <1>2, <1>4 DEF TypeOK, Queues
<1>8. FlagsMatchCursors'
  <2>1. ASSUME NEW s \in Slots
        PROVE  (s \in ring'.enqueued)
                 <=> (Distance(d, s) < Distance(d, ring'.create))
    <3>1. /\ Distance(d, s) \in Int /\ Distance(d, c) \in Int
      BY <1>1, DistanceType
    <3>2. Distance(d, s) = Distance(d, c) <=> s = c
      BY <1>1, DistanceInjective
    <3>3. s \in ring.enqueued <=> Distance(d, s) < Distance(d, c)
      BY <1>1 DEF RingInv, FlagsMatchCursors
    <3> HIDE DEF d, c
    <3> QED
      BY <1>5, <1>6, <3>1, <3>2, <3>3
  <2>2. ring'.enqueued \subseteq Slots
    BY <1>1, <1>5 DEF Queues
  <2> QED
    BY <1>5, <2>1, <2>2 DEF FlagsMatchCursors
<1>9. CursorsInOrder'
  <2>1. Distance(d, c) \in Int /\ Distance(d, ring.working) \in Int
    BY <1>1, DistanceType
  <2>2. Distance(d, ring.working) <= Distance(d, c)
    BY DEF RingInv, CursorsInOrder
  <2>3. Distance(d, ring.working) <= Distance(d, ring'.create)
    <3> HIDE DEF d, c
    <3> QED
      BY <1>6, <2>1, <2>2
  <2> QED
    BY <1>4, <1>5, <2>3 DEF RingInv, CursorsInOrder
<1> QED
  BY <1>4, <1>7, <1>8, <1>9 DEF RingInv, NoFault

\* cmd_work_done() moves the head from the working to the retiring part.
LEMMA WorkDoneKeepsRingInv ==
  ASSUME NEW s \in Slots, RingInv, CmdWorkDone(s)
  PROVE  RingInv'
<1> DEFINE w == ring.working
<1>1. /\ ring \in Queues /\ w \in Slots /\ ring.create \in Slots
      /\ ring.destruct = w /\ retiring = NoSlot
      /\ s = w /\ w # ring.create
  <2>1. ring \in Queues /\ w \in Slots /\ ring.create \in Slots
    BY DEF RingInv, TypeOK, Queues
  <2>2. retiring = NoSlot /\ ring.destruct = w
    BY DEF RingInv, CursorsInOrder, CmdWorkDone
  <2>3. s # NoSlot
    BY EntriesAssumption DEF Slots, NoSlot
  <2>4. s = w /\ w # ring.create
    BY <2>3 DEF CmdWorkDone, WorkDoneAllowed, Working
  <2> QED
    BY <2>1, <2>2, <2>4
<1>2. /\ ring' = [ring EXCEPT !.working = WrapAround(w + 1)]
      /\ retiring' = s /\ fault' = fault
  BY DEF CmdWorkDone, WorkDone
<1>3. /\ ring'.create = ring.create /\ ring'.destruct = ring.destruct
      /\ ring'.working = WrapAround(w + 1)
      /\ ring'.enqueued = ring.enqueued
      /\ WrapAround(w + 1) \in Slots
  BY <1>1, <1>2, WrapAroundNext DEF Queues
<1>4. TypeOK'
  BY <1>1, <1>2, <1>3 DEF RingInv, TypeOK, Queues
<1>5. FlagsMatchCursors'
  BY <1>3 DEF RingInv, FlagsMatchCursors
<1>6. CursorsInOrder'
  <2>1. Distance(w, WrapAround(w + 1)) <= Distance(w, ring.create)
    BY <1>1, WrapAroundNext, EntriesAssumption DEF Distance, Slots
  <2> QED
    BY <1>1, <1>2, <1>3, <2>1 DEF CursorsInOrder, Slots, NoSlot
<1> QED
  BY <1>2, <1>4, <1>5, <1>6 DEF RingInv, NoFault

\* cmd_destruct() frees the slot at the destruct cursor, and cannot throw.
LEMMA DestructKeepsRingInv ==
  ASSUME NEW s \in Slots, RingInv, CmdDestruct(s)
  PROVE  RingInv'
<1> DEFINE d == ring.destruct
           c == ring.create
<1>1. /\ ring \in Queues /\ d \in Slots /\ c \in Slots /\ retiring = s /\ s = d
      /\ ring.working = WrapAround(d + 1) /\ ring.working \in Slots
  <2>1. ring \in Queues /\ d \in Slots /\ c \in Slots /\ ring.working \in Slots
    BY DEF RingInv, TypeOK, Queues
  <2>2. retiring = s
    BY DEF CmdDestruct
  <2>3. s # NoSlot
    BY EntriesAssumption DEF Slots, NoSlot
  <2> QED
    BY <2>1, <2>2, <2>3 DEF RingInv, CursorsInOrder
<1>2. d # ring.working
  BY <1>1, WrapAroundNext, EntriesAssumption DEF Slots
<1>3. d # c
  <2>1. Distance(d, ring.working) >= 1
    BY <1>1, <1>2, EntriesAssumption DEF Distance, Slots
  <2>2. Distance(d, ring.working) <= Distance(d, c)
    BY DEF RingInv, CursorsInOrder
  <2>3. Distance(d, d) = 0
    BY <1>1, EntriesAssumption DEF Distance, Slots
  <2>4. Distance(d, ring.working) \in Int /\ Distance(d, c) \in Int
    BY <1>1, DistanceType
  <2> HIDE DEF d, c
  <2> QED
    BY <2>1, <2>2, <2>3, <2>4
<1>4. DestructAllowed(ring, s)
  <2>1. Distance(d, d) < Distance(d, c)
    BY <1>1, <1>3, EntriesAssumption DEF Distance, Slots
  <2> QED
    BY <1>1, <1>2, <2>1 DEF RingInv, FlagsMatchCursors, DestructAllowed
<1>5. /\ ring' = [ring EXCEPT !.destruct = WrapAround(d + 1),
                              !.enqueued = @ \ {s}]
      /\ retiring' = NoSlot /\ fault' = fault
  BY <1>4 DEF CmdDestruct, Destructed
<1>6. /\ ring'.create = c /\ ring'.working = ring.working
      /\ ring'.destruct = WrapAround(d + 1) /\ WrapAround(d + 1) \in Slots
      /\ ring'.enqueued = ring.enqueued \ {d}
  BY <1>1, <1>5, WrapAroundNext DEF Queues
<1>7. TypeOK'
  BY <1>1, <1>5, <1>6 DEF RingInv, TypeOK, Queues
<1>8. FlagsMatchCursors'
  <2>1. ASSUME NEW t \in Slots
        PROVE  (t \in ring'.enqueued)
                 <=> (Distance(ring'.destruct, t) < Distance(ring'.destruct, c))
    <3>1. t \in ring.enqueued <=> Distance(d, t) < Distance(d, c)
      BY <1>1 DEF RingInv, FlagsMatchCursors
    <3>2. Distance(d, t) \in Int /\ Distance(d, c) \in Slots
      BY <1>1, DistanceType
    <3>3. Distance(ring'.destruct, c) = Distance(d, c) - 1
      BY <1>1, <1>3, <1>6, DistanceAdvanceNear
    <3>4. CASE t = d
      <4>1. Distance(ring'.destruct, t) = Entries - 1
        BY <1>1, <1>6, <3>4, DistanceLeftBehind
      <4> HIDE DEF d, c
      <4> QED
        BY <1>6, <3>2, <3>3, <3>4, <4>1, EntriesAssumption DEF Slots
    <3>5. CASE t # d
      <4>1. Distance(ring'.destruct, t) = Distance(d, t) - 1
        BY <1>1, <1>6, <3>5, DistanceAdvanceNear
      <4> HIDE DEF d, c
      <4> QED
        BY <1>6, <3>1, <3>2, <3>3, <3>5, <4>1 DEF Slots
    <3> QED
      BY <3>4, <3>5
  <2>2. ring'.enqueued \subseteq Slots
    BY <1>1, <1>6 DEF Queues
  <2> QED
    BY <1>6, <2>1, <2>2 DEF FlagsMatchCursors
<1>9. CursorsInOrder'
  <2>1. ring'.destruct = ring'.working
    BY <1>1, <1>6
  <2>2. Distance(ring'.destruct, ring'.working) = 0
    BY <1>6, <2>1, EntriesAssumption DEF Distance, Slots
  <2>3. Distance(ring'.destruct, ring'.create) >= 0
    BY <1>1, <1>6, DistanceType, EntriesAssumption DEF Slots
  <2> QED
    BY <1>5, <2>1, <2>2, <2>3 DEF CursorsInOrder
<1> QED
  BY <1>5, <1>7, <1>8, <1>9 DEF RingInv, NoFault

-----------------------------------------------------------------------------
\* The ring of Cmd_queue is consistent in every reachable state, whatever its
\* size: types, flags against cursors, cursor order, and no internal throw.
THEOREM RingInvariant == Spec => []RingInv
<1>1. Init => RingInv
  BY InitRingInv
<1>2. RingInv /\ [Next]_vars => RingInv'
  <2> SUFFICES ASSUME RingInv, [Next]_vars PROVE RingInv'
    OBVIOUS
  <2>1. CASE Create
    BY <2>1, CreateKeepsRingInv
  <2>2. ASSUME NEW s \in Slots, CmdWorkDone(s) PROVE RingInv'
    BY <2>2, WorkDoneKeepsRingInv
  <2>3. ASSUME NEW s \in Slots, CmdDestruct(s) PROVE RingInv'
    BY <2>3, DestructKeepsRingInv
  <2>4. CASE UNCHANGED vars
    BY <2>4 DEF vars, RingInv, TypeOK, FlagsMatchCursors, CursorsInOrder, NoFault
  <2> QED
    BY <2>1, <2>2, <2>3, <2>4 DEF Next
<1> QED
  BY <1>1, <1>2, PTL DEF Spec

\* Type correctness of the queue.
THEOREM TypeCorrect == Spec => []TypeOK
<1>1. RingInv => TypeOK
  BY DEF RingInv
<1> QED
  BY <1>1, RingInvariant, PTL

\* create() never meets a slot that was not destroyed, and destruct() never
\* overtakes working (the two internal checks of Cmd_queue never fire).
THEOREM NeverFaults == Spec => []NoFault
<1>1. RingInv => NoFault
  BY DEF RingInv
<1> QED
  BY <1>1, RingInvariant, PTL

\* A slot is flagged `enqueued' exactly while it lies between destruct and
\* create.
THEOREM FlagsAlwaysMatch == Spec => []FlagsMatchCursors
<1>1. RingInv => FlagsMatchCursors
  BY DEF RingInv
<1> QED
  BY <1>1, RingInvariant, PTL

\* The destruct and working cursors keep their order around the ring.
THEOREM CursorsAlwaysOrdered == Spec => []CursorsInOrder
<1>1. RingInv => CursorsInOrder
  BY DEF RingInv
<1> QED
  BY <1>1, RingInvariant, PTL
-----------------------------------------------------------------------------
(* The ring implements CmdFifo.                                            *)

LEMMA QueuedIsBetween ==
  /\ Queued = Between(ring.working, ring.create)
  /\ Queued' = Between(ring'.working, ring'.create)
  BY DEF Queued, Between

LEMMA CreateEnqueues ==
  ASSUME RingInv, Create
  PROVE  Fifo!Enqueue(ring.create)
<1> DEFINE w == ring.working
           c == ring.create
           d == ring.destruct
<1>1. w \in Slots /\ c \in Slots /\ d \in Slots /\ ring \in Queues
  BY DEF RingInv, TypeOK, Queues
<1>2. ring'.working = w /\ ring'.create = WrapAround(c + 1) /\ retiring' = retiring
  BY <1>1 DEF Create, Created, Queues
<1>3. WrapAround(c + 1) # d /\ WrapAround(c + 1) \in Slots
  BY <1>1, WrapAroundNext DEF Create, CanCreate, IsFull
<1>4. /\ Distance(d, c) \in Int /\ Distance(d, c) + 1 <= Entries - 1
      /\ Distance(d, c) + 1 = Distance(d, WrapAround(c + 1))
  <2>1. Distance(d, WrapAround(c + 1)) \in Slots /\ Distance(d, c) \in Int
    BY <1>1, <1>3, DistanceType
  <2>2. Distance(d, WrapAround(c + 1)) = Distance(d, c) + 1
    BY <1>1, <1>3, DistanceAdvanceFar
  <2> HIDE DEF c, d
  <2> QED
    BY <2>1, <2>2, EntriesAssumption DEF Slots
<1>5. /\ retiring = NoSlot => w = d
      /\ retiring # NoSlot => retiring = d /\ w = WrapAround(d + 1) /\ c # d
                              /\ Distance(w, c) = Distance(d, c) - 1
  <2>1. CASE retiring = NoSlot
    BY <2>1 DEF RingInv, CursorsInOrder
  <2>2. CASE retiring # NoSlot
    <3>1. retiring = d /\ w = WrapAround(d + 1) /\ Distance(d, w) <= Distance(d, c)
      BY <2>2 DEF RingInv, CursorsInOrder
    <3>2. Distance(d, w) > Distance(d, d) /\ Distance(d, d) = 0
      BY <1>1, <3>1, WrapAroundNext, EntriesAssumption DEF Distance, Slots
    <3>3. c # d
      BY <1>1, <3>1, <3>2, DistanceType
    <3>4. Distance(w, c) = Distance(d, c) - 1
      BY <1>1, <3>1, <3>3, DistanceAdvanceNear
    <3> QED
      BY <2>2, <3>1, <3>3, <3>4
  <2> QED
    BY <2>1, <2>2
<1>6. /\ Queued \in [1 .. Distance(w, c) -> Slots] /\ Distance(w, c) \in Nat
      /\ \A i \in 1 .. Distance(w, c) : Distance(w, Queued[i]) = i - 1
      /\ Len(Queued) = Distance(w, c)
  BY <1>1, BetweenIs, QueuedIsBetween, SeqOfElements
<1>7. WrapAround(c + 1) # w
  <2>1. CASE retiring = NoSlot
    BY <1>3, <1>5, <2>1
  <2>2. CASE retiring # NoSlot
    BY <1>1, <1>5, <2>2, WrapAroundNext, EntriesAssumption DEF Slots
  <2> QED
    BY <2>1, <2>2
<1>8. c \notin Fifo!InUse
  <2>1. \A i \in DOMAIN Queued : Queued[i] # c
    <3> HIDE DEF c, w
    <3> QED
      BY <1>6
  <2>2. retiring # NoSlot => retiring # c
    BY <1>5
  <2> QED
    BY <2>1, <2>2 DEF Fifo!InUse
<1>9. Len(Queued) + (IF retiring = NoSlot THEN 0 ELSE 1) < Entries - 1
  <2> HIDE DEF c, d, w
  <2> QED
    BY <1>4, <1>5, <1>6, EntriesAssumption
<1>10. Queued' = Append(Queued, c)
  BY <1>1, <1>2, <1>7, BetweenCreate, QueuedIsBetween
<1> QED
  BY <1>2, <1>8, <1>9, <1>10 DEF Fifo!Enqueue

LEMMA WorkDoneLeaves ==
  ASSUME NEW s \in Slots, RingInv, CmdWorkDone(s)
  PROVE  Fifo!Leave
<1>1. /\ ring \in Queues /\ ring.working \in Slots /\ ring.create \in Slots
      /\ retiring = NoSlot /\ s = ring.working /\ s # ring.create
  BY NoSlotIsNoSlot DEF RingInv, TypeOK, Queues, CmdWorkDone, WorkDoneAllowed, Working
<1>2. /\ ring'.working = WrapAround(ring.working + 1) /\ ring'.create = ring.create
      /\ retiring' = s
  BY <1>1 DEF CmdWorkDone, WorkDone, Queues
<1> QED
  BY <1>1, <1>2, BetweenRetire, QueuedIsBetween DEF Fifo!Leave

LEMMA DestructFrees ==
  ASSUME NEW s \in Slots, RingInv, CmdDestruct(s)
  PROVE  Fifo!Free
<1>1. ring'.working = ring.working /\ ring'.create = ring.create
  BY DEF CmdDestruct, Destructed, RingInv, TypeOK, Queues
<1> QED
  BY <1>1, QueuedIsBetween, NoSlotIsNoSlot DEF CmdDestruct, Fifo!Free

\* Cmd_queue implements a first-in first-out queue of Entries - 1 commands: a
\* step of create(), work_done() or destruct() enqueues, leaves or frees, in
\* the order of creation and never a slot in use.
THEOREM RingIsFifo == Spec => ImplementsFifo
<1>1. Init => Fifo!Init
  <2> SUFFICES ASSUME Init PROVE Fifo!Init
    OBVIOUS
  <2>0. 0 \in Slots
    BY EntriesAssumption DEF Slots
  <2>1. ring.working = 0 /\ ring.create = 0 /\ retiring = NoSlot /\ 0 \in Slots
    BY <2>0 DEF Init, EmptyQueue
  <2> QED
    BY <2>1, BetweenEmpty, QueuedIsBetween DEF Fifo!Init
<1>2. RingInv /\ [Next]_vars => [Fifo!Next]_<<Queued, retiring>>
  <2> SUFFICES ASSUME RingInv, [Next]_vars PROVE [Fifo!Next]_<<Queued, retiring>>
    OBVIOUS
  <2>1. CASE Create
    <3>1. ring.create \in Slots
      BY DEF RingInv, TypeOK, Queues
    <3> QED
      BY <2>1, <3>1, CreateEnqueues DEF Fifo!Next
  <2>2. ASSUME NEW s \in Slots, CmdWorkDone(s) PROVE Fifo!Next
    BY <2>2, WorkDoneLeaves DEF Fifo!Next
  <2>3. ASSUME NEW s \in Slots, CmdDestruct(s) PROVE Fifo!Next
    BY <2>3, DestructFrees DEF Fifo!Next
  <2>4. CASE UNCHANGED vars
    BY <2>4, QueuedIsBetween DEF vars
  <2> QED
    BY <2>1, <2>2, <2>3, <2>4 DEF Next
<1> QED
  BY <1>1, <1>2, RingInvariant, PTL DEF Spec, ImplementsFifo, Fifo!Spec
=============================================================================
