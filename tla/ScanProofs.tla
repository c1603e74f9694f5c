----------------------------- MODULE ScanProofs -----------------------------
(***************************************************************************)
(* Safety of Scan for every bus.                                           *)
(*                                                                         *)
(* ScanInv is inductive.  That the service is offered once and only when   *)
(* all have reported follows from the count being the number of devices    *)
(* that have not; that no device reports twice, from Control: where the    *)
(* errand and the thread of a device can be at the same time.              *)
(***************************************************************************)
EXTENDS Scan, FiniteSetTheorems, TLAPS

Discovering == server.pc \in {"discovery", "dead"}

\* A thread that may have scheduled its errand.
Scheduled(d) == thread[d] \in {"trigger", "end", "over"}

Control ==
  /\ ~Discovering => unscanned = {}
  /\ \A d \in unscanned : thread[d] = "none"
  /\ server.pc = "join" => /\ server.dev \in Children
                           /\ Scheduled(server.dev)
                           /\ server.dev \notin joined \cup errands
  /\ \A d \in errands : Scheduled(d) /\ d \notin joined
  /\ \A d \in joined : thread[d] = "over"
  /\ \A d \in partitions : d \in joined /\ ~Failed(d)
  /\ \A d \in Children : irq[d] = "server" => d \in joined
  /\ \A d \in cmd : thread[d] \in {"bind", "powerUp"}

ScanInv == TypeOK /\ Control /\ CountsUnreported /\ OfferedWhenReported

-----------------------------------------------------------------------------
LEMMA UnreportedCount ==
  /\ IsFiniteSet(Unreported)
  /\ Cardinality(Unreported) \in Nat
  /\ Cardinality(Unreported) <= Cardinality(Children)
  /\ Cardinality(Children) \in Nat
  /\ Cardinality(Unreported) = 0 <=> Unreported = {}
<1>1. Unreported \in SUBSET Children
  BY DEF Unreported, Started
<1>2. IsFiniteSet(Children)
  BY ScanAssumption
<1> QED
  BY <1>1, <1>2, FS_Subset, FS_CardinalityType, FS_EmptySet

\* A device that reports leaves the count.
LEMMA ReportCounts ==
  ASSUME NEW d \in Unreported, Unreported' = Unreported \ {d}
  PROVE  Cardinality(Unreported') = Cardinality(Unreported) - 1
  BY UnreportedCount, FS_RemoveElement

\* A step that keeps the devices that have not reported, the count, where the
\* server is with the discovery, and the service, keeps the two properties.
LEMMA CountKept ==
  ASSUME CountsUnreported, OfferedWhenReported,
         Unreported' = Unreported, Discovering' = Discovering,
         unscanned' = unscanned, devices_in_scan' = devices_in_scan,
         offered' = offered
  PROVE  CountsUnreported' /\ OfferedWhenReported'
  BY DEF CountsUnreported, OfferedWhenReported, Discovering

\* The bounds of the types follow from the count.
LEMMA CountBounds ==
  ASSUME CountsUnreported
  PROVE  devices_in_scan \in 0 .. Cardinality(Children) + 1
  BY UnreportedCount DEF CountsUnreported

LEMMA InitInv == Init => ScanInv
<1> SUFFICES ASSUME Init PROVE ScanInv
  OBVIOUS
<1>1. Unreported = {}
  BY DEF Init, Unreported, Started
<1>2. CountsUnreported /\ OfferedWhenReported
  BY <1>1, UnreportedCount DEF Init, CountsUnreported, OfferedWhenReported
<1>3. TypeOK
  BY <1>2, CountBounds DEF Init, TypeOK, Media, ThreadSteps
<1>4. Control
  BY DEF Init, Control, Discovering
<1> QED
  BY <1>2, <1>3, <1>4 DEF ScanInv

-----------------------------------------------------------------------------
\* A step of an initialization thread changes where the thread is, the receiver
\* of its interrupt, its Cmd, its wakeup object or its errand.
LEMMA ThreadCounts ==
  ASSUME ScanInv, NEW d \in Children, NEW from, NEW to,
         Goes(d, from, to), from # "none", to # "none"
  PROVE  CountsUnreported' /\ OfferedWhenReported'
<1>1. Started' = Started
  BY DEF ScanInv, TypeOK, Goes, Started
<1>2. Unreported' = Unreported
  BY <1>1 DEF Goes, Unreported, Reported, Failed
<1> QED
  BY <1>2, CountKept DEF ScanInv, Goes, Discovering

LEMMA ThreadKeepsInv ==
  ASSUME ScanInv, NEW d \in Children, InitThread(d)
  PROVE  ScanInv'
<1>1. CountsUnreported' /\ OfferedWhenReported'
  BY ThreadCounts
  DEF InitThread, BindIrq, PowerUp, DetachIrq, RegisterWakeup, ScheduleErrand,
      TriggerWakeup, ThreadEnds
<1> USE DEF ScanInv, TypeOK, Control, Scheduled, Goes, Discovering, Failed, ThreadSteps
<1>2. CASE BindIrq(d)
  BY <1>1, <1>2 DEF BindIrq
<1>3. CASE PowerUp(d)
  BY <1>1, <1>3 DEF PowerUp
<1>4. CASE DetachIrq(d)
  BY <1>1, <1>4 DEF DetachIrq
<1>5. CASE RegisterWakeup(d)
  BY <1>1, <1>5 DEF RegisterWakeup
<1>6. CASE ScheduleErrand(d)
  BY <1>1, <1>6 DEF ScheduleErrand
<1>7. CASE TriggerWakeup(d)
  BY <1>1, <1>7 DEF TriggerWakeup, Triggered
<1>8. CASE ThreadEnds(d)
  BY <1>1, <1>8 DEF ThreadEnds
<1> QED
  BY <1>2, <1>3, <1>4, <1>5, <1>6, <1>7, <1>8 DEF InitThread

-----------------------------------------------------------------------------
\* The steps of the server that no device reports in.
LEMMA QuietServerKeepsInv ==
  ASSUME ScanInv, NEW d \in Children,
         \/ ScanAlien(d) \/ AddDiskThrows(d)
         \/ Wakeup(d) \/ RunErrand(d)
  PROVE  ScanInv'
<1> USE DEF ScanInv
<1>1. /\ Unreported' = Unreported /\ Discovering' = Discovering
      /\ devices_in_scan' = devices_in_scan /\ offered' = offered
  BY DEF ScanAlien, AddDiskThrows, Wakeup, RunErrand, ServerAt,
         Unreported, Started, Reported, Failed, Discovering
<1>2. CASE unscanned' = unscanned
  <2>1. CountsUnreported' /\ OfferedWhenReported'
    BY <1>1, <1>2, CountKept
  <2> USE DEF TypeOK, Control, Scheduled, Discovering, Failed, ServerAt
  <2>2. CASE AddDiskThrows(d)
    BY <2>1, <2>2 DEF AddDiskThrows
  <2>3. CASE Wakeup(d)
    BY <2>1, <2>3 DEF Wakeup
  <2>4. CASE RunErrand(d)
    BY <2>1, <2>4 DEF RunErrand
  <2>5. CASE ScanAlien(d)
    BY <1>2, <2>5 DEF ScanAlien
  <2> QED
    BY <2>2, <2>3, <2>4, <2>5
<1>3. CASE ScanAlien(d)
  <2>1. CountsUnreported' /\ OfferedWhenReported'
    BY <1>1, <1>3 DEF ScanAlien, CountsUnreported, OfferedWhenReported, Discovering
  <2> QED
    BY <1>3, <2>1 DEF ScanAlien, TypeOK, Control, Scheduled, Discovering, Failed
<1> QED
  BY <1>2, <1>3 DEF AddDiskThrows, Wakeup, RunErrand

LEMMA BlockKeepsInv ==
  ASSUME ScanInv, Block
  PROVE  ScanInv'
<1>1. Unreported' = Unreported
  BY DEF Block, Unreported, Started, Reported, Failed
<1>2. CountsUnreported' /\ OfferedWhenReported'
  BY <1>1, CountKept DEF ScanInv, Block, ServerAt, Discovering
<1> QED
  BY <1>2 DEF ScanInv, TypeOK, Control, Block, ServerAt, Scheduled, Discovering,
              Failed

\* A new device is counted.
LEMMA AddDiskKeepsInv ==
  ASSUME ScanInv, NEW d \in Children, AddDisk(d)
  PROVE  ScanInv'
<1> USE DEF ScanInv
<1>1. d \notin Unreported /\ Unreported' = Unreported \cup {d}
  BY DEF AddDisk, TypeOK, Control, Unreported, Started, Reported, Failed
<1>2. Cardinality(Unreported') = Cardinality(Unreported) + 1
  BY <1>1, UnreportedCount, FS_AddElement
<1>3. CountsUnreported'
  BY <1>2, UnreportedCount DEF AddDisk, CountDevice, CountsUnreported
<1>4. OfferedWhenReported'
  BY DEF AddDisk, OfferedWhenReported
<1>5. devices_in_scan' \in 0 .. Cardinality(Children) + 1
  <2>1. Cardinality(Unreported') <= Cardinality(Children)
    <3>1. Unreported' \in SUBSET Children
      BY DEF Unreported, Started
    <3> QED
      BY <3>1, FS_Subset, ScanAssumption
  <2> QED
    BY <1>2, <1>3, <2>1, UnreportedCount DEF CountsUnreported, AddDisk
<1>6. TypeOK'
  BY <1>5 DEF AddDisk, TypeOK, ThreadSteps
<1>7. Control'
  BY DEF AddDisk, TypeOK, Control, Scheduled, Discovering, Failed
<1> QED
  BY <1>3, <1>4, <1>6, <1>7

\* The end of the discovery loop leaves the count, and offers the service if no
\* device is left to report.
LEMMA DiscoveryEndsKeepsInv ==
  ASSUME ScanInv, DiscoveryEnds
  PROVE  ScanInv'
<1> USE DEF ScanInv
<1>1. Unreported' = Unreported
  BY DEF DiscoveryEnds, Unreported, Started, Reported, Failed
<1>2. CountsUnreported'
  BY <1>1, UnreportedCount
  DEF DiscoveryEnds, DeviceScanFinished, ServerAt, CountsUnreported
<1>3. offered' \in 0 .. 1 /\ OfferedWhenReported'
  BY <1>1, UnreportedCount
  DEF DiscoveryEnds, DeviceScanFinished, LastOne, ServerAt, CountsUnreported,
      OfferedWhenReported, TypeOK
<1>4. devices_in_scan' \in 0 .. Cardinality(Children) + 1
  BY <1>1, <1>2, UnreportedCount DEF CountsUnreported, DiscoveryEnds, ServerAt
<1>5. TypeOK'
  BY <1>3, <1>4 DEF DiscoveryEnds, ServerAt, TypeOK
<1>6. Control'
  BY DEF DiscoveryEnds, ServerAt, Control, Scheduled, Discovering, Failed
<1> QED
  BY <1>2, <1>3, <1>5, <1>6

\* A device that is joined has not reported yet: it failed, or its partitions
\* are read first.
LEMMA JoinKeepsInv ==
  ASSUME ScanInv, JoinThread
  PROVE  ScanInv'
<1> USE DEF ScanInv
<1>1. Unreported' = Unreported
  BY DEF JoinThread, Control, TypeOK, Unreported, Started, Reported, Failed
<1>2. CountsUnreported' /\ OfferedWhenReported'
  BY <1>1, CountKept DEF JoinThread, ServerAt, Discovering
<1>3. TypeOK'
  BY DEF JoinThread, ServerAt, TypeOK, Control
<1>4. Control'
  BY DEF JoinThread, Joinable, ServerAt, Control, TypeOK, Scheduled, Discovering, Failed
<1> QED
  BY <1>2, <1>3, <1>4

\* A device that reports was the last one exactly if the count was 1.
LEMMA PartitionsReadKeepsInv ==
  ASSUME ScanInv, NEW d \in Children, PartitionsRead(d)
  PROVE  ScanInv'
<1> USE DEF ScanInv
<1>1. d \in Unreported /\ Unreported' = Unreported \ {d}
  BY DEF PartitionsRead, Control, TypeOK, Unreported, Started, Reported, Failed
<1>2. Cardinality(Unreported') = Cardinality(Unreported) - 1
  BY <1>1, ReportCounts
<1>3. CountsUnreported'
  BY <1>2, UnreportedCount
  DEF PartitionsRead, DeviceScanFinished, ServerAt, CountsUnreported
<1>4. Unreported' = {} <=> Cardinality(Unreported) = 1
  BY <1>1, <1>2, UnreportedCount, FS_RemoveElement, FS_EmptySet
<1>5. offered' \in 0 .. 1 /\ OfferedWhenReported'
  BY <1>1, <1>4, UnreportedCount
  DEF PartitionsRead, DeviceScanFinished, LastOne, ServerAt, CountsUnreported,
      OfferedWhenReported, TypeOK, Control, Discovering
<1>6. devices_in_scan' \in 0 .. Cardinality(Children) + 1
  BY <1>1, <1>2, <1>3, UnreportedCount, FS_EmptySet
  DEF CountsUnreported, PartitionsRead, ServerAt
<1>7. TypeOK'
  BY <1>5, <1>6 DEF PartitionsRead, ServerAt, TypeOK
<1>8. Control'
  BY DEF PartitionsRead, ServerAt, Control, Scheduled, Discovering, Failed
<1> QED
  BY <1>3, <1>5, <1>7, <1>8

LEMMA StutterKeepsInv ==
  ASSUME ScanInv, UNCHANGED vars
  PROVE  ScanInv'
<1>1. Unreported' = Unreported
  BY DEF vars, Unreported, Started, Reported, Failed
<1> QED
  BY <1>1 DEF vars, ScanInv, TypeOK, Control, Scheduled, Discovering, Failed,
              CountsUnreported, OfferedWhenReported

LEMMA StepInv == ScanInv /\ [Next]_vars => ScanInv'
<1> SUFFICES ASSUME ScanInv, [Next]_vars PROVE ScanInv'
  OBVIOUS
<1>1. CASE Server
  BY <1>1, QuietServerKeepsInv, BlockKeepsInv, AddDiskKeepsInv,
     DiscoveryEndsKeepsInv, JoinKeepsInv, PartitionsReadKeepsInv DEF Server
<1>2. CASE \E d \in Children : InitThread(d)
  BY <1>2, ThreadKeepsInv
<1>3. CASE UNCHANGED vars
  BY <1>3, StutterKeepsInv
<1> QED
  BY <1>1, <1>2, <1>3 DEF Next

\* The start of the driver never leaves ScanInv.
THEOREM ScanInvariant == Spec => []ScanInv
  BY InitInv, StepInv, PTL DEF Spec

-----------------------------------------------------------------------------
\* Type correctness on every bus; among it, the service is offered at most once
\* and devices_in_scan never wraps around.
THEOREM TypeCorrect == Spec => []TypeOK
  BY ScanInvariant, PTL DEF ScanInv

\* devices_in_scan is the number of devices that have not reported.
THEOREM CountIsRight == Spec => []CountsUnreported
  BY ScanInvariant, PTL DEF ScanInv

\* The service is offered exactly when the whole bus has reported.
THEOREM OfferedInTime == Spec => []OfferedWhenReported
  BY ScanInvariant, PTL DEF ScanInv

\* The server takes an interrupt from a finished thread with an empty queue.
THEOREM HandOverIsClean == Spec => []HandedOverClean
<1>1. ScanInv => HandedOverClean
  BY DEF ScanInv, Control, HandedOverClean
<1> QED
  BY <1>1, ScanInvariant, PTL
=============================================================================
