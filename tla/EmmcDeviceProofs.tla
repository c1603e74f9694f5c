-------------------------- MODULE EmmcDeviceProofs --------------------------
(***************************************************************************)
(* Safety of EmmcDevice for every number of queue entries, every set of    *)
(* requests and every driver.  The inductive invariant is built in layers: *)
(*                                                                         *)
(*   DeviceInv  the ring is sound, and where the server goes on with the   *)
(*              head or with its own slot, there is one                    *)
(*   HeadInv    and nothing but the head is in progress                    *)
(*   Typed      the values of the variables                                *)
(*   ServerInv  what the head is at each point of the server, what waits   *)
(*              behind it, and that somebody goes on with it               *)
(*   Sent       a head the server leaves although it is ready is stranded  *)
(*   Resets     the resets the driver gave up waiting for disturb nobody   *)
(*   HwInv      the controller and the head: which interrupt status each   *)
(*              phase of a command has, and whether its data was moved     *)
(*   CardInv    the card and the head: transfer state and write cache      *)
(*   PromiseInv and NoneReady: what the refinement of BlockDevice needs    *)
(*                                                                         *)
(* DeviceInv and Typed need nothing of the client; the other layers need a *)
(* client that flushes an idle device only.  Base is HeadInv with Typed,   *)
(* RuntimeInv Base with ServerInv, Resets and HwInv.                       *)
(***************************************************************************)
EXTENDS EmmcDevice, CmdRingLemmas

ServerHasHead == srv.pc \in {"submit", "callback"} => Working(q) \in Slots
FlushHasSlot == srv.pc \in {"flSubmit", "flReceive"} => srv.slot \in Slots

DeviceInv == RingSound /\ srv \in Servers /\ ServerHasHead /\ FlushHasSlot

-----------------------------------------------------------------------------
LEMMA WorkingIsSlot ==
  ASSUME NEW r, RingOK(r)
  PROVE  Working(r) \in Slots \cup {NoSlot}
  BY DEF RingOK, Queues, Working

LEMMA LoopIsServer == Loop \in Servers /\ Loop.pc = "loop"
  BY DeviceAssumption DEF Loop, Servers

\* cmd_queue_kick() ends in the loop or, with a head, in the polling.
LEMMA KickedServer ==
  ASSUME NEW r, NEW c, NEW ctx \in {"inout_data", "handle_irq"},
         NEW s \in Slots \cup {NoSlot}, RingOK(r)
  PROVE  /\ Kicked(r, c, ctx, s) \in Servers
         /\ Kicked(r, c, ctx, s).pc \in {"loop", "submit"}
         /\ Kicked(r, c, ctx, s).pc = "submit" => Working(r) \in Slots
<1>1. CASE KickNeeded(r, c)
  <2>1. Working(r) \in Slots
    BY <1>1, WorkingIsSlot DEF KickNeeded
  <2>2. Kicked(r, c, ctx, s) = [pc |-> "submit", ctx |-> ctx, slot |-> s, polls |-> 0]
    BY <1>1 DEF Kicked, Loop
  <2> QED
    BY <2>1, <2>2, DeviceAssumption DEF Servers
<1>2. CASE ~KickNeeded(r, c)
  BY <1>2, LoopIsServer DEF Kicked
<1> QED
  BY <1>1, <1>2

\* Retiring the head keeps the ring sound.
LEMMA RetireSound ==
  ASSUME NEW s \in Slots, RingSound, WorkDoneAllowed(q, s), Retire(s)
  PROVE  RingSound'
<1>1. RingOK(Destructed(WorkDone(q), s))
  BY RetiredOK DEF RingSound
<1> QED
  BY <1>1 DEF Retire, RingSound

\* Back in the loop only the ring matters.
LEMMA LoopKeepsDeviceInv ==
  ASSUME RingSound', srv' = Loop
  PROVE  DeviceInv'
  BY LoopIsServer DEF DeviceInv, ServerHasHead, FlushHasSlot

LEMMA FlushEndsKeepsDeviceInv ==
  ASSUME NEW c, NEW result, DeviceInv, srv.slot \in Slots, FlushEnds(c, result)
  PROVE  DeviceInv'
<1>1. CASE WorkDoneAllowed(q, srv.slot)
  BY <1>1, RetireSound, LoopKeepsDeviceInv DEF FlushEnds, DeviceInv
<1>2. CASE ~WorkDoneAllowed(q, srv.slot)
  BY <1>2, LoopKeepsDeviceInv DEF FlushEnds, DeviceInv, RingSound
<1> QED
  BY <1>1, <1>2

-----------------------------------------------------------------------------
LEMMA InitDeviceInv == Init => DeviceInv
  BY EmptyRingOK, LoopIsServer
  DEF Init, DeviceInv, RingSound, ServerHasHead, FlushHasSlot

LEMMA InoutDataKeepsDeviceInv ==
  ASSUME DeviceInv, NEW r, NEW read, NEW blocks, InoutData(r, read, blocks)
  PROVE  DeviceInv'
<1>1. /\ RingOK(q) /\ CanCreate(q) /\ q' = Created(q)
      /\ srv.pc \in {"loop", "callback"}
  BY DEF DeviceInv, RingSound, InoutData
<1>2. RingSound' /\ RingOK(Created(q)) /\ q.create \in Slots
  BY <1>1, CreatedOK, CreatedWorking DEF RingSound
<1>3. CASE srv.pc = "callback"
  <2>1. srv' = srv /\ Working(q) \in Slots
    BY <1>3 DEF InoutData, DeviceInv, ServerHasHead
  <2>2. Working(q') = Working(q)
    BY <1>1, <2>1, CreatedWorking, NoSlotIsNoSlot
  <2> QED
    BY <1>2, <1>3, <2>1, <2>2 DEF DeviceInv, ServerHasHead, FlushHasSlot
<1>4. CASE srv.pc = "loop"
  <2>1. srv' = Kicked(Created(q), cmds', "inout_data", q.create)
    BY <1>4 DEF InoutData
  <2> QED
    BY <1>1, <1>2, <2>1, KickedServer DEF DeviceInv, ServerHasHead, FlushHasSlot
<1> QED
  BY <1>1, <1>3, <1>4

\* The Cmd of an oversized request is retired again, or left behind the head.
LEMMA OversizedKeepsDeviceInv ==
  ASSUME DeviceInv, NEW r, InoutDataOversized(r)
  PROVE  DeviceInv'
<1> DEFINE queue == Created(q)
<1>1. /\ RingOK(q) /\ CanCreate(q) /\ srv \in Servers
      /\ srv.pc \in {"loop", "callback"}
  BY DEF DeviceInv, RingSound, InoutDataOversized
<1>2. RingOK(queue) /\ q.create \in Slots
  BY <1>1, CreatedOK, CreatedWorking
<1>3. /\ Working(q) = NoSlot => Working(queue) = q.create
      /\ Working(q) # NoSlot => Working(queue) = Working(q)
  BY <1>1, CreatedWorking
<1>4. CASE WorkDoneAllowed(queue, q.create)
  <2>1. q' = Destructed(WorkDone(queue), q.create) /\ srv' = srv
    BY <1>4 DEF InoutDataOversized
  <2>2. RingSound'
    BY <1>2, <1>4, <2>1, RetiredOK DEF RingSound
  <2>3. Working(q) = NoSlot
    <3>1. Working(q) # q.create
      BY <1>2, NoSlotIsNoSlot DEF Working
    <3> QED
      BY <1>3, <1>4, <3>1 DEF WorkDoneAllowed
  <2>4. srv.pc = "loop"
    BY <1>1, <2>3, NoSlotIsNoSlot DEF DeviceInv, ServerHasHead
  <2> QED
    BY <1>1, <2>1, <2>2, <2>4 DEF DeviceInv, ServerHasHead, FlushHasSlot
<1>5. CASE ~WorkDoneAllowed(queue, q.create)
  <2>1. q' = queue /\ srv' \in {srv, Loop}
    BY <1>5 DEF InoutDataOversized
  <2>2. RingSound'
    BY <1>2, <2>1 DEF RingSound
  <2>3. Working(q') = Working(q)
    BY <1>3, <1>5, <2>1 DEF WorkDoneAllowed
  <2>4. CASE srv' = srv
    BY <1>1, <2>2, <2>3, <2>4 DEF DeviceInv, ServerHasHead, FlushHasSlot
  <2>5. CASE srv' = Loop
    BY <2>2, <2>5, LoopKeepsDeviceInv
  <2> QED
    BY <2>1, <2>4, <2>5
<1> QED
  BY <1>4, <1>5

LEMMA HandleIrqKeepsDeviceInv ==
  ASSUME DeviceInv, HandleIrqMessage
  PROVE  DeviceInv'
<1>1. q' = q /\ RingSound' /\ RingOK(q) /\ srv.pc = "loop"
  BY DEF HandleIrqMessage, DeviceInv, RingSound
<1>2. \/ srv' = srv
      \/ srv' = Kicked(q, cmds', "handle_irq", NoSlot)
      \/ srv' = [Loop EXCEPT !.pc = "callback"] /\ Working(q) # NoSlot
  BY DEF HandleIrqMessage
<1>3. CASE srv' = srv
  BY <1>1, <1>3 DEF DeviceInv, ServerHasHead, FlushHasSlot
<1>4. CASE srv' = Kicked(q, cmds', "handle_irq", NoSlot)
  BY <1>1, <1>4, KickedServer DEF DeviceInv, ServerHasHead, FlushHasSlot
<1>5. CASE srv' = [Loop EXCEPT !.pc = "callback"] /\ Working(q) # NoSlot
  <2>1. srv' \in Servers /\ srv'.pc = "callback"
    BY <1>5, LoopIsServer DEF Servers
  <2> QED
    BY <1>1, <1>5, <2>1, WorkingIsSlot DEF DeviceInv, ServerHasHead, FlushHasSlot
<1> QED
  BY <1>2, <1>3, <1>4, <1>5

LEMMA CallbackReturnsKeepsDeviceInv ==
  ASSUME DeviceInv, CallbackReturns
  PROVE  DeviceInv'
<1>1. Working(q) \in Slots
  BY DEF CallbackReturns, DeviceInv, ServerHasHead
<1>2. RingSound'
  BY <1>1, RetireSound DEF CallbackReturns, DeviceInv, WorkDoneAllowed
<1>3. RingOK(q') /\ srv' = Kicked(q', cmds', "handle_irq", NoSlot)
  BY <1>2 DEF RingSound, CallbackReturns
<1> QED
  BY <1>2, <1>3, KickedServer DEF DeviceInv, ServerHasHead, FlushHasSlot

LEMMA FlushKeepsDeviceInv ==
  ASSUME DeviceInv, Flush
  PROVE  DeviceInv'
<1>1. CASE HasCache
  <2>1. CanCreate(q) /\ q' = Created(q) /\ RingOK(q)
        /\ srv' = [Loop EXCEPT !.pc = "flSubmit", !.slot = q.create]
    BY <1>1 DEF Flush, DeviceInv, RingSound
  <2>2. RingSound' /\ q.create \in Slots
    BY <2>1, CreatedOK, CreatedWorking DEF RingSound
  <2>3. srv' = [pc |-> "flSubmit", ctx |-> "none", slot |-> q.create, polls |-> 0]
    BY <2>1 DEF Loop
  <2>4. srv' \in Servers /\ srv'.pc = "flSubmit" /\ srv'.slot = q.create
    BY <2>2, <2>3, DeviceAssumption DEF Servers
  <2> QED
    BY <2>2, <2>4 DEF DeviceInv, ServerHasHead, FlushHasSlot
<1>2. CASE ~HasCache
  BY <1>2 DEF Flush, DeviceInv, RingSound, ServerHasHead, FlushHasSlot
<1> QED
  BY <1>1, <1>2

\* The end of CMD6 or CMD13 ends the flush or polls once more.
LEMMA FlushFinishedCases ==
  ASSUME NEW c, NEW resp, DeviceInv, FlushFinished(c, resp)
  PROVE  \/ \E result : FlushEnds(c, result)
         \/ \E n \in 0 .. MaxPolls - 1 : PollStatus(c, n)
<1>1. CASE IsError(c)
  BY <1>1 DEF FlushFinished
<1>2. CASE ~IsError(c) /\ c.cmd = "CMD6"
  BY <1>2, DeviceAssumption DEF FlushFinished
<1>3. CASE ~IsError(c) /\ c.cmd # "CMD6"
  <2>1. CASE resp = "busy" /\ srv.polls + 1 < MaxPolls
    BY <1>3, <2>1, DeviceAssumption DEF FlushFinished, DeviceInv, Servers
  <2>2. CASE ~(resp = "busy" /\ srv.polls + 1 < MaxPolls)
    BY <1>3, <2>2 DEF FlushFinished
  <2> QED
    BY <2>1, <2>2
<1> QED
  BY <1>1, <1>2, <1>3

LEMMA FlushReceiveKeepsDeviceInv ==
  ASSUME NEW inTime \in BOOLEAN, DeviceInv, FlushReceive(inTime)
  PROVE  DeviceInv'
<1>1. srv.pc = "flReceive" /\ srv.slot \in Slots
  BY DEF FlushReceive, DeviceInv, FlushHasSlot
<1> DEFINE c == HandleIrqCmd(cmds[srv.slot], hw, hw.is, inTime).cmd
<1>2. CASE UNCHANGED <<q, srv>>
  BY <1>1, <1>2 DEF DeviceInv, RingSound, ServerHasHead, FlushHasSlot
<1>3. CASE FlushFinished(c, hw.resp)
  <2> HIDE DEF c
  <2>1. ASSUME NEW result, FlushEnds(c, result) PROVE DeviceInv'
    BY <1>1, <2>1, FlushEndsKeepsDeviceInv
  <2>2. ASSUME NEW n \in 0 .. MaxPolls - 1, PollStatus(c, n) PROVE DeviceInv'
    <3>1. q' = q /\ srv' = [srv EXCEPT !.pc = "flSubmit", !.polls = n]
      BY <2>2 DEF PollStatus
    <3>2. srv' \in Servers /\ srv'.pc = "flSubmit" /\ srv'.slot = srv.slot
      BY <3>1 DEF DeviceInv, Servers
    <3> QED
      BY <1>1, <3>1, <3>2 DEF DeviceInv, RingSound, ServerHasHead, FlushHasSlot
  <2> QED
    BY <1>3, <2>1, <2>2, FlushFinishedCases
<1> QED
  BY <1>2, <1>3 DEF FlushReceive

-----------------------------------------------------------------------------
LEMMA NextKeepsDeviceInv == DeviceInv /\ [Next]_vars => DeviceInv'
<1> SUFFICES ASSUME DeviceInv, [Next]_vars PROVE DeviceInv'
  OBVIOUS
<1>1. ASSUME NEW r, NEW read, NEW blocks, InoutData(r, read, blocks)
      PROVE  DeviceInv'
  BY <1>1, InoutDataKeepsDeviceInv
<1>2. CASE Flush
  BY <1>2, FlushKeepsDeviceInv
<1>3. CASE Submit
  BY <1>3, LoopKeepsDeviceInv DEF Submit, DeviceInv, RingSound
<1>4. CASE SubmitFailsInout
  <2>1. CASE WorkDoneAllowed(q, srv.slot)
    <3>1. srv.slot \in Slots
      BY <1>4, <2>1 DEF SubmitFailsInout, DeviceInv, ServerHasHead, WorkDoneAllowed
    <3> QED
      BY <1>4, <2>1, <3>1, RetireSound, LoopKeepsDeviceInv
      DEF SubmitFailsInout, DeviceInv
  <2>2. CASE ~WorkDoneAllowed(q, srv.slot)
    BY <1>4, <2>2, LoopKeepsDeviceInv DEF SubmitFailsInout, DeviceInv, RingSound
  <2> QED
    BY <2>1, <2>2
<1>5. CASE SubmitFailsIrq
  BY <1>5, LoopKeepsDeviceInv DEF SubmitFailsIrq, DeviceInv, RingSound
<1>6. CASE HandleIrqMessage
  BY <1>6, HandleIrqKeepsDeviceInv
<1>7. CASE CallbackReturns
  BY <1>7, CallbackReturnsKeepsDeviceInv
<1>8. CASE FlushSubmit
  <2>1. q' = q /\ srv' = [srv EXCEPT !.pc = "flReceive"] /\ srv.slot \in Slots
    BY <1>8 DEF FlushSubmit, DeviceInv, FlushHasSlot
  <2>2. srv' \in Servers /\ srv'.pc = "flReceive" /\ srv'.slot = srv.slot
    BY <2>1 DEF DeviceInv, Servers
  <2> QED
    BY <2>1, <2>2 DEF DeviceInv, RingSound, ServerHasHead, FlushHasSlot
<1>9. ASSUME NEW inTime \in BOOLEAN, FlushReceive(inTime)
      PROVE  DeviceInv'
  BY <1>9, FlushReceiveKeepsDeviceInv
<1>10. CASE FlushTimeout
  BY <1>10, FlushEndsKeepsDeviceInv DEF FlushTimeout, DeviceInv, FlushHasSlot
<1>11. CASE UNCHANGED deviceVars
  BY <1>11 DEF deviceVars, DeviceInv, RingSound, ServerHasHead, FlushHasSlot
<1>12. CASE UNCHANGED vars
  BY <1>11, <1>12 DEF vars, deviceVars
<1>13. ASSUME NEW r, InoutDataOversized(r) PROVE DeviceInv'
  BY <1>13, OversizedKeepsDeviceInv
<1>14. CASE HandleIrqThrows
  BY <1>14 DEF HandleIrqThrows, DeviceInv, RingSound, ServerHasHead, FlushHasSlot
<1> QED
  BY <1>1, <1>2, <1>3, <1>4, <1>5, <1>6, <1>7, <1>8, <1>9, <1>10, <1>11, <1>12, <1>13,
     <1>14
  DEF Next, Client, Server, Host

\* In every reachable state the ring is sound and the server, wherever it is in
\* cmd_submit_on_avail(), handle_irq_inout() or flush(), has the Cmd it goes on
\* with.
THEOREM DeviceInvariant == Spec => []DeviceInv
<1>1. Init => DeviceInv
  BY InitDeviceInv
<1>2. DeviceInv /\ [Next]_vars => DeviceInv'
  BY NextKeepsDeviceInv
<1> QED
  BY <1>1, <1>2, PTL DEF Spec

\* Whatever the client does and whatever is thrown, the queue of the device
\* stays a sound ring: its internal checks on create() and destruct() never
\* fire, for any number of entries.
THEOREM RingAlwaysSound == Spec => []RingSound
<1>1. DeviceInv => RingSound
  BY DEF DeviceInv
<1> QED
  BY <1>1, DeviceInvariant, PTL

-----------------------------------------------------------------------------
\* With a client that flushes an idle device only: flush() works on the head,
\* and nothing but the head is in progress.
FlushIsHead == srv.pc \in {"flSubmit", "flReceive"} => srv.slot = Working(q)

HeadInv ==
  /\ DeviceInv /\ FlushIsHead
  /\ drv \in Drivers /\ DOMAIN cmds = Slots
  /\ OnlyHeadInProgress

\* The first command of a request waits to be submitted (ADMA2 drivers).
LEMMA FreshStatusField ==
  ASSUME NEW r, NEW read, NEW blocks
  PROVE  "status" \in DOMAIN InitInout(CreatedCmd, 0, blocks, r, read)
<1>1. "status" \in DOMAIN InvalidCmd
  BY DEF InvalidCmd
<1>2. "status" \in DOMAIN CreatedCmd
  BY <1>1 DEF CreatedCmd
<1> QED
  BY <1>2 DEF InitInout

LEMMA DataCommandReady ==
  ASSUME NEW c, "status" \in DOMAIN c, NEW command, NEW nblk, NEW auto23
  PROVE  /\ ReinitInoutData(c, command, nblk, auto23).status = "Ready_for_submit"
         /\ "status" \in DOMAIN ReinitInoutData(c, command, nblk, auto23)
  BY DEF ReinitInoutData

LEMMA OpenTransferReady ==
  ASSUME NEW c, "status" \in DOMAIN c, NEW k, NEW nblk, NEW auto23
  PROVE  OpenTransfer(k, c, nblk, auto23).status = "Ready_for_submit"
<1> DEFINE d == ReinitInoutData(c, ReadWriteMultiple(c), nblk, auto23)
<1>1. d.status = "Ready_for_submit" /\ "status" \in DOMAIN d
  BY DataCommandReady
<1>2. OpenTransfer(k, c, nblk, auto23)
        = IF k.hasCmd23 THEN d ELSE [d EXCEPT !.cmd12 = TRUE]
  BY DEF OpenTransfer, d
<1> HIDE DEF d
<1>3. [d EXCEPT !.cmd12 = TRUE].status = d.status
  BY <1>1
<1> QED
  BY <1>1, <1>2, <1>3

LEMMA SetBlockCountReady ==
  ASSUME NEW c, "status" \in DOMAIN c, NEW k
  PROVE  SetBlockCountAdma2(k, c).status = "Ready_for_submit"
<1> DEFINE n == NumSectors(c.blocks)
           d == [c EXCEPT !.nblk = n]
<1>1. CASE ~k.hasCmd23 \/ k.autoCmd23
  BY <1>1, OpenTransferReady DEF SetBlockCountAdma2
<1>2. CASE ~(~k.hasCmd23 \/ k.autoCmd23)
  <2>1. SetBlockCountAdma2(k, c) = ReinitInoutNodata(d, "CMD23", BlockCountArg(n))
    BY <1>2 DEF SetBlockCountAdma2
  <2>2. "status" \in DOMAIN d
    OBVIOUS
  <2> HIDE DEF d, n
  <2> QED
    BY <2>1, <2>2 DEF ReinitInoutNodata
<1> QED
  BY <1>1, <1>2

LEMMA FirstCommandReady ==
  ASSUME NEW k \in Drivers, NEW r, NEW read, NEW blocks
  PROVE  FirstCommand(k, InitInout(CreatedCmd, 0, blocks, r, read)).status
           = "Ready_for_submit"
<1>1. k.adma2
  BY DeviceAssumption
<1> QED
  BY <1>1, FreshStatusField, SetBlockCountReady DEF FirstCommand

\* Without a working entry nothing is in progress.
LEMMA IdleNothingInProgress ==
  ASSUME OnlyHeadInProgress, Working(q) = NoSlot, NEW s \in Slots
  PROVE  ~IsProgress(cmds[s])
  BY NoSlotIsNoSlot DEF OnlyHeadInProgress

\* A change of one command, which is in progress only if it is the head.
LEMMA OneCommandChanges ==
  ASSUME NEW s \in Slots, NEW c, DOMAIN cmds = Slots, OnlyHeadInProgress,
         cmds' = [cmds EXCEPT ![s] = c],
         IsProgress(c) => s = Working(q'),
         Working(q') = Working(q) \/ Working(q) = NoSlot
  PROVE  OnlyHeadInProgress' /\ DOMAIN cmds' = Slots
<1>1. cmds'[s] = c /\ \A t \in Slots \ {s} : cmds'[t] = cmds[t]
  OBVIOUS
<1>2. ASSUME NEW t \in Slots, IsProgress(cmds'[t]) PROVE t = Working(q')
  <2>1. CASE t = s
    BY <1>1, <1>2, <2>1
  <2>2. CASE t # s
    <3>1. IsProgress(cmds[t])
      BY <1>1, <1>2, <2>2
    <3> QED
      BY <3>1, IdleNothingInProgress DEF OnlyHeadInProgress
  <2> QED
    BY <2>1, <2>2
<1> QED
  BY <1>2 DEF OnlyHeadInProgress

\* After the head is retired nothing is in progress.
LEMMA RetireLeavesNothing ==
  ASSUME NEW s \in Slots, DOMAIN cmds = Slots, OnlyHeadInProgress,
         s = Working(q), Retire(s)
  PROVE  OnlyHeadInProgress' /\ DOMAIN cmds' = Slots
<1>1. cmds' = [cmds EXCEPT ![s] = InvalidCmd]
  BY DEF Retire
<1>2. \A t \in Slots : ~IsProgress(cmds'[t])
  <2>1. ~IsProgress(InvalidCmd)
    BY DEF IsProgress, InvalidCmd, ProgressStatus
  <2> QED
    BY <1>1, <2>1 DEF OnlyHeadInProgress
<1> QED
  BY <1>1, <1>2 DEF OnlyHeadInProgress

LEMMA FlushEndsKeepsHead ==
  ASSUME NEW c, NEW result, HeadInv, srv.slot \in Slots,
         srv.slot = Working(q), FlushEnds(c, result)
  PROVE  OnlyHeadInProgress' /\ DOMAIN cmds' = Slots /\ srv' = Loop
<1>1. Retire(srv.slot) /\ srv' = Loop
  BY DEF FlushEnds, WorkDoneAllowed
<1> QED
  BY <1>1, RetireLeavesNothing DEF HeadInv

-----------------------------------------------------------------------------
LEMMA InitHeadInv == Init => HeadInv
<1> SUFFICES ASSUME Init PROVE HeadInv
  OBVIOUS
<1>1. DeviceInv /\ FlushIsHead /\ drv \in Drivers
  BY InitDeviceInv, LoopIsServer DEF Init, FlushIsHead
<1>2. DOMAIN cmds = Slots /\ \A s \in Slots : cmds[s] = InvalidCmd
  BY DEF Init
<1>3. OnlyHeadInProgress
  BY <1>2 DEF OnlyHeadInProgress, IsProgress, InvalidCmd, ProgressStatus
<1> QED
  BY <1>1, <1>2, <1>3 DEF HeadInv

LEMMA InoutDataKeepsHeadInv ==
  ASSUME HeadInv, DeviceInv', NEW r, NEW read, NEW blocks,
         InoutData(r, read, blocks)
  PROVE  HeadInv'
<1> DEFINE c == FirstCommand(drv, InitInout(CreatedCmd, 0, blocks, r, read))
<1>1. /\ RingOK(q) /\ CanCreate(q) /\ q' = Created(q) /\ drv' = drv
      /\ cmds' = [cmds EXCEPT ![q.create] = c]
      /\ srv.pc \in {"loop", "callback"}
  BY DEF InoutData, HeadInv, DeviceInv, RingSound
<1>2. ~IsProgress(c)
  <2>1. c.status = "Ready_for_submit"
    BY FirstCommandReady DEF HeadInv
  <2> HIDE DEF c
  <2> QED
    BY <2>1 DEF IsProgress, ProgressStatus
<1> HIDE DEF c
<1>3. OnlyHeadInProgress' /\ DOMAIN cmds' = Slots
  BY <1>1, <1>2, CreatedWorking, OneCommandChanges DEF HeadInv
<1>4. FlushIsHead'
  <2>1. CASE srv.pc = "callback"
    BY <2>1 DEF InoutData, FlushIsHead
  <2>2. CASE srv.pc = "loop"
    <3>1. srv' = Kicked(Created(q), cmds', "inout_data", q.create)
      BY <2>2 DEF InoutData
    <3>2. RingOK(Created(q)) /\ q.create \in Slots
      BY <1>1, CreatedOK, CreatedWorking
    <3> QED
      BY <3>1, <3>2, KickedServer DEF FlushIsHead
  <2> QED
    BY <1>1, <2>1, <2>2
<1> QED
  BY <1>1, <1>3, <1>4 DEF HeadInv

LEMMA OversizedKeepsHeadInv ==
  ASSUME HeadInv, DeviceInv', NEW r, InoutDataOversized(r)
  PROVE  HeadInv'
<1> DEFINE queue == Created(q)
<1>1. /\ RingOK(q) /\ CanCreate(q) /\ drv' = drv
      /\ srv.pc \in {"loop", "callback"} /\ srv' \in {srv, Loop}
  BY DEF InoutDataOversized, HeadInv, DeviceInv, RingSound
<1>2. FlushIsHead'
  BY <1>1, LoopIsServer DEF FlushIsHead
<1>3. /\ q.create \in Slots
      /\ Working(queue) = IF Working(q) = NoSlot THEN q.create ELSE Working(q)
  BY <1>1, CreatedWorking
<1>4. CASE WorkDoneAllowed(queue, q.create)
  <2>1. Working(q) = NoSlot
    <3>1. Working(q) # q.create
      BY <1>3, NoSlotIsNoSlot DEF Working
    <3> QED
      BY <1>3, <1>4, <3>1 DEF WorkDoneAllowed
  <2>2. cmds' = [cmds EXCEPT ![q.create] = InvalidCmd]
    BY <1>4 DEF InoutDataOversized
  <2>3. ~IsProgress(InvalidCmd)
    BY DEF IsProgress, InvalidCmd, ProgressStatus
  <2>4. OnlyHeadInProgress' /\ DOMAIN cmds' = Slots
    BY <1>3, <2>1, <2>2, <2>3, OneCommandChanges DEF HeadInv
  <2> QED
    BY <1>1, <1>2, <2>4 DEF HeadInv
<1>5. CASE ~WorkDoneAllowed(queue, q.create)
  <2> DEFINE left == [CreatedCmd EXCEPT !.cb = r]
  <2>1. q' = queue /\ cmds' = [cmds EXCEPT ![q.create] = left]
    BY <1>5 DEF InoutDataOversized
  <2>2. ~IsProgress(left)
    BY DEF CreatedCmd, InvalidCmd, IsProgress, ProgressStatus
  <2>3. Working(q') = Working(q)
    BY <1>3, <1>5, <2>1 DEF WorkDoneAllowed
  <2> HIDE DEF left
  <2>4. OnlyHeadInProgress' /\ DOMAIN cmds' = Slots
    BY <1>3, <2>1, <2>2, <2>3, OneCommandChanges DEF HeadInv
  <2> QED
    BY <1>1, <1>2, <2>4 DEF HeadInv
<1> QED
  BY <1>4, <1>5

LEMMA SubmitKeepsHeadInv ==
  ASSUME HeadInv, DeviceInv', Submit
  PROVE  HeadInv'
<1> DEFINE s == Working(q)
           c == [cmds[s] EXCEPT !.status = "Progress_cmd"]
<1>1. /\ s \in Slots /\ q' = q /\ drv' = drv /\ srv' = Loop
      /\ cmds' = [cmds EXCEPT ![s] = c]
  BY DEF Submit, HeadInv, DeviceInv, ServerHasHead
<1> HIDE DEF c
<1>2. OnlyHeadInProgress' /\ DOMAIN cmds' = Slots
  BY <1>1, OneCommandChanges DEF HeadInv
<1> QED
  BY <1>1, <1>2, LoopIsServer DEF HeadInv, FlushIsHead

LEMMA SubmitFailsInoutKeepsHeadInv ==
  ASSUME HeadInv, DeviceInv', SubmitFailsInout
  PROVE  HeadInv'
<1>1. srv' = Loop /\ drv' = drv /\ Working(q) \in Slots
  BY DEF SubmitFailsInout, HeadInv, DeviceInv, ServerHasHead
<1>2. CASE WorkDoneAllowed(q, srv.slot)
  <2>1. Retire(srv.slot) /\ srv.slot = Working(q)
    BY <1>2 DEF SubmitFailsInout, WorkDoneAllowed
  <2>2. OnlyHeadInProgress' /\ DOMAIN cmds' = Slots
    BY <1>1, <2>1, RetireLeavesNothing DEF HeadInv
  <2> QED
    BY <1>1, <2>2, LoopIsServer DEF HeadInv, FlushIsHead
<1>3. CASE ~WorkDoneAllowed(q, srv.slot)
  <2>1. q' = q /\ cmds' = cmds
    BY <1>3 DEF SubmitFailsInout
  <2> QED
    BY <1>1, <2>1, LoopIsServer DEF HeadInv, FlushIsHead, OnlyHeadInProgress
<1> QED
  BY <1>2, <1>3

LEMMA HandleIrqKeepsHeadInv ==
  ASSUME HeadInv, DeviceInv', HandleIrqMessage
  PROVE  HeadInv'
<1>1. q' = q /\ drv' = drv /\ srv.pc = "loop" /\ RingOK(q)
  BY DEF HandleIrqMessage, HeadInv, DeviceInv, RingSound
<1>2. FlushIsHead'
  <2>1. \/ srv' = srv
        \/ srv' = Kicked(q, cmds', "handle_irq", NoSlot)
        \/ srv' = [Loop EXCEPT !.pc = "callback"]
    BY DEF HandleIrqMessage
  <2>2. CASE srv' = Kicked(q, cmds', "handle_irq", NoSlot)
    BY <1>1, <2>2, KickedServer DEF FlushIsHead
  <2>3. CASE srv' = [Loop EXCEPT !.pc = "callback"]
    <3>1. srv'.pc = "callback"
      BY <2>3 DEF Loop
    <3> QED
      BY <3>1 DEF FlushIsHead
  <2>4. CASE srv' = srv
    BY <1>1, <2>4 DEF FlushIsHead
  <2> QED
    BY <2>1, <2>2, <2>3, <2>4
<1>3. CASE Working(q) = NoSlot
  <2>1. cmds' = cmds
    BY <1>3 DEF HandleIrqMessage
  <2> QED
    BY <1>1, <1>2, <2>1 DEF HeadInv, OnlyHeadInProgress
<1>4. CASE Working(q) # NoSlot
  <2>1. Working(q) \in Slots
    BY <1>1, <1>4, WorkingIsSlot
  <2>2. PICK c : cmds' = [cmds EXCEPT ![Working(q)] = c]
    BY <1>4 DEF HandleIrqMessage
  <2>3. OnlyHeadInProgress' /\ DOMAIN cmds' = Slots
    BY <1>1, <2>1, <2>2, OneCommandChanges DEF HeadInv
  <2> QED
    BY <1>1, <1>2, <2>3 DEF HeadInv
<1> QED
  BY <1>3, <1>4

LEMMA CallbackReturnsKeepsHeadInv ==
  ASSUME HeadInv, DeviceInv', CallbackReturns
  PROVE  HeadInv'
<1>1. Working(q) \in Slots /\ Retire(Working(q)) /\ drv' = drv
      /\ srv' = Kicked(q', cmds', "handle_irq", NoSlot) /\ RingOK(q')
  BY DEF CallbackReturns, HeadInv, DeviceInv, ServerHasHead, RingSound
<1>2. OnlyHeadInProgress' /\ DOMAIN cmds' = Slots
  BY <1>1, RetireLeavesNothing DEF HeadInv
<1>3. FlushIsHead'
  BY <1>1, KickedServer DEF FlushIsHead
<1> QED
  BY <1>1, <1>2, <1>3 DEF HeadInv

LEMMA FlushKeepsHeadInv ==
  ASSUME FlushWhen # "any", HeadInv, DeviceInv', Flush
  PROVE  HeadInv'
<1>1. CASE HasCache
  <2> DEFINE c == InitArg(CreatedCmd, "CMD6", 0)
  <2>1. /\ RingOK(q) /\ CanCreate(q) /\ q' = Created(q) /\ drv' = drv
        /\ cmds' = [cmds EXCEPT ![q.create] = c]
        /\ srv' = [Loop EXCEPT !.pc = "flSubmit", !.slot = q.create]
        /\ Working(q) = NoSlot
    BY <1>1 DEF Flush, HeadInv, DeviceInv, RingSound, Allowed, Idle
  <2>2. q.create \in Slots /\ Working(q') = q.create
    BY <2>1, CreatedWorking
  <2> HIDE DEF c
  <2>3. OnlyHeadInProgress' /\ DOMAIN cmds' = Slots
    BY <2>1, <2>2, OneCommandChanges DEF HeadInv
  <2>4. srv'.slot = q.create
    BY <2>1 DEF Loop
  <2> QED
    BY <2>1, <2>2, <2>3, <2>4 DEF HeadInv, FlushIsHead
<1>2. CASE ~HasCache
  BY <1>2 DEF Flush, HeadInv, FlushIsHead, OnlyHeadInProgress
<1> QED
  BY <1>1, <1>2

LEMMA FlushSubmitKeepsHeadInv ==
  ASSUME HeadInv, DeviceInv', FlushSubmit
  PROVE  HeadInv'
<1> DEFINE c == [cmds[srv.slot] EXCEPT !.status = "Progress_cmd"]
<1>1. /\ srv.slot \in Slots /\ srv.slot = Working(q) /\ q' = q /\ drv' = drv
      /\ cmds' = [cmds EXCEPT ![srv.slot] = c]
      /\ srv' = [srv EXCEPT !.pc = "flReceive"]
  BY DEF FlushSubmit, HeadInv, DeviceInv, FlushHasSlot, FlushIsHead
<1> HIDE DEF c
<1>2. OnlyHeadInProgress' /\ DOMAIN cmds' = Slots
  BY <1>1, OneCommandChanges DEF HeadInv
<1>3. srv'.slot = srv.slot
  BY <1>1 DEF HeadInv, DeviceInv, Servers
<1> QED
  BY <1>1, <1>2, <1>3 DEF HeadInv, FlushIsHead

LEMMA FlushReceiveKeepsHeadInv ==
  ASSUME NEW inTime \in BOOLEAN, HeadInv, DeviceInv', FlushReceive(inTime)
  PROVE  HeadInv'
<1> DEFINE r == HandleIrqCmd(cmds[srv.slot], hw, hw.is, inTime)
<1>1. srv.slot \in Slots /\ srv.slot = Working(q) /\ drv' = drv
  BY DEF FlushReceive, HeadInv, DeviceInv, FlushHasSlot, FlushIsHead
<1>2. CASE /\ cmds' = [cmds EXCEPT ![srv.slot] = r.cmd]
           /\ UNCHANGED <<q, srv>>
  <2> HIDE DEF r
  <2>1. OnlyHeadInProgress' /\ DOMAIN cmds' = Slots
    BY <1>1, <1>2, OneCommandChanges DEF HeadInv
  <2> QED
    BY <1>1, <1>2, <2>1 DEF HeadInv, FlushIsHead
<1>3. CASE FlushFinished(r.cmd, hw.resp)
  <2> HIDE DEF r
  <2>1. ASSUME NEW result, FlushEnds(r.cmd, result) PROVE HeadInv'
    BY <1>1, <2>1, FlushEndsKeepsHead, LoopIsServer DEF HeadInv, FlushIsHead
  <2>2. ASSUME NEW n \in 0 .. MaxPolls - 1, PollStatus(r.cmd, n) PROVE HeadInv'
    <3> DEFINE c == InitArg(r.cmd, "CMD13", 0)
    <3>1. /\ q' = q /\ cmds' = [cmds EXCEPT ![srv.slot] = c]
          /\ srv' = [srv EXCEPT !.pc = "flSubmit", !.polls = n]
      BY <2>2 DEF PollStatus
    <3> HIDE DEF c
    <3>2. OnlyHeadInProgress' /\ DOMAIN cmds' = Slots
      BY <1>1, <3>1, OneCommandChanges DEF HeadInv
    <3>3. srv'.slot = srv.slot
      BY <3>1 DEF HeadInv, DeviceInv, Servers
    <3> QED
      BY <1>1, <3>1, <3>2, <3>3 DEF HeadInv, FlushIsHead
  <2>3. DeviceInv
    BY DEF HeadInv
  <2> QED
    BY <1>3, <2>1, <2>2, <2>3, FlushFinishedCases
<1> QED
  BY <1>2, <1>3 DEF FlushReceive

-----------------------------------------------------------------------------
LEMMA NextKeepsHeadInv ==
  ASSUME FlushWhen # "any", HeadInv, [Next]_vars
  PROVE  HeadInv'
<1>1. DeviceInv'
  BY NextKeepsDeviceInv DEF HeadInv
<1>2. ASSUME NEW r, NEW read, NEW blocks, InoutData(r, read, blocks)
      PROVE  HeadInv'
  BY <1>1, <1>2, InoutDataKeepsHeadInv
<1>3. CASE Flush
  BY <1>1, <1>3, FlushKeepsHeadInv
<1>4. CASE Submit
  BY <1>1, <1>4, SubmitKeepsHeadInv
<1>5. CASE SubmitFailsInout
  BY <1>1, <1>5, SubmitFailsInoutKeepsHeadInv
<1>6. CASE SubmitFailsIrq
  BY <1>1, <1>6, LoopIsServer
  DEF SubmitFailsIrq, HeadInv, FlushIsHead, OnlyHeadInProgress
<1>7. CASE HandleIrqMessage
  BY <1>1, <1>7, HandleIrqKeepsHeadInv
<1>8. CASE CallbackReturns
  BY <1>1, <1>8, CallbackReturnsKeepsHeadInv
<1>9. CASE FlushSubmit
  BY <1>1, <1>9, FlushSubmitKeepsHeadInv
<1>10. ASSUME NEW inTime \in BOOLEAN, FlushReceive(inTime)
      PROVE  HeadInv'
  BY <1>1, <1>10, FlushReceiveKeepsHeadInv
<1>11. CASE FlushTimeout
  <2>1. srv.slot \in Slots /\ srv.slot = Working(q) /\ drv' = drv
        /\ FlushEnds(cmds[srv.slot], "einval")
    BY <1>11 DEF FlushTimeout, HeadInv, DeviceInv, FlushHasSlot, FlushIsHead
  <2> QED
    BY <1>1, <2>1, FlushEndsKeepsHead, LoopIsServer DEF HeadInv, FlushIsHead
<1>12. CASE UNCHANGED deviceVars
  BY <1>1, <1>12 DEF deviceVars, HeadInv, FlushIsHead, OnlyHeadInProgress
<1>13. CASE UNCHANGED vars
  BY <1>12, <1>13 DEF vars, deviceVars
<1>14. ASSUME NEW r, InoutDataOversized(r) PROVE HeadInv'
  BY <1>1, <1>14, OversizedKeepsHeadInv
<1>15. CASE HandleIrqThrows
  <2>1. /\ RingOK(q) /\ Working(q) # NoSlot /\ q' = q /\ drv' = drv /\ srv' = srv
        /\ \E c : cmds' = [cmds EXCEPT ![Working(q)] = c]
    BY <1>15 DEF HandleIrqThrows, HeadInv, DeviceInv, RingSound, Idle
  <2>2. OnlyHeadInProgress' /\ DOMAIN cmds' = Slots
    BY <2>1, WorkingIsSlot, OneCommandChanges DEF HeadInv
  <2> QED
    BY <1>1, <2>1, <2>2 DEF HeadInv, FlushIsHead
<1> QED
  BY <1>15, <1>14, <1>2, <1>3, <1>4, <1>5, <1>6, <1>7, <1>8, <1>9, <1>10, <1>11, <1>12, <1>13
  DEF Next, Client, Server, Host

\* As long as flush() is called on an idle device, the command at the
\* controller is always the working entry of the queue, so that the interrupt
\* handler works on the command whose interrupt it is.
THEOREM HeadAlwaysInProgress ==
  ASSUME FlushWhen # "any"
  PROVE  Spec => []OnlyHeadInProgress
<1>1. Init => HeadInv
  BY InitHeadInv
<1>2. HeadInv /\ [Next]_vars => HeadInv'
  BY NextKeepsHeadInv
<1>3. HeadInv => OnlyHeadInProgress
  BY DEF HeadInv
<1> QED
  BY <1>1, <1>2, <1>3, PTL DEF Spec

-----------------------------------------------------------------------------
(* What the operators of InoutCmd make of a Cmd.                           *)

CmdFields == DOMAIN InvalidCmd
IsCmd(c) == DOMAIN c = CmdFields /\ CmdTypeOK(c)

LEMMA CmdFieldsAre ==
  CmdFields = {"status", "status12", "cmd", "arg", "nblk", "hasData", "auto23", "cmd12",
               "inout", "read", "sector", "done", "blocks", "cb"}
  BY DEF CmdFields, InvalidCmd

LEMMA InvalidCmdIs ==
  /\ IsCmd(InvalidCmd) /\ IsCmd(CreatedCmd)
  /\ InvalidCmd.status = "Error" /\ CreatedCmd.status = "Uninitialized"
  /\ ~InvalidCmd.inout /\ ~CreatedCmd.inout
  /\ InvalidCmd.cb = NoReq /\ CreatedCmd.cb = NoReq
  BY DEF IsCmd, CmdFields, CmdTypeOK, InvalidCmd, CreatedCmd, MmcCommands, Status, ErrorStatus

LEMMA InitArgIs ==
  ASSUME NEW c, IsCmd(c), NEW command \in MmcCommands, NEW arg
  PROVE  /\ IsCmd(InitArg(c, command, arg))
         /\ InitArg(c, command, arg).cmd = command
         /\ InitArg(c, command, arg).status = "Ready_for_submit"
         /\ InitArg(c, command, arg).cb = c.cb
         /\ ~InitArg(c, command, arg).hasData /\ ~InitArg(c, command, arg).auto23
         /\ ~InitArg(c, command, arg).cmd12 /\ ~InitArg(c, command, arg).inout
  BY CmdFieldsAre DEF IsCmd, CmdTypeOK, InitArg, Status, ErrorStatus

LEMMA InitInoutIs ==
  ASSUME NEW r \in Reqs, NEW read, NEW blocks,
         NEW c, c = InitInout(CreatedCmd, 0, blocks, r, read)
  PROVE  /\ IsCmd(c) /\ c.cb = r /\ c.inout
         /\ ~c.hasData /\ ~c.auto23 /\ ~c.cmd12 /\ c.status = "Uninitialized"
  BY InvalidCmdIs, CmdFieldsAre DEF IsCmd, CmdTypeOK, InitInout, MmcCommands

LEMMA NodataIs ==
  ASSUME NEW c, IsCmd(c), NEW command \in MmcCommands, NEW arg,
         NEW d, d = ReinitInoutNodata(c, command, arg)
  PROVE  /\ IsCmd(d) /\ d.cmd = command /\ d.status = "Ready_for_submit"
         /\ ~d.hasData /\ (d.auto23 <=> c.auto23) /\ (d.cmd12 <=> c.cmd12)
         /\ (d.inout <=> c.inout) /\ d.cb = c.cb /\ d.status12 = c.status12 /\ d.nblk = c.nblk
  BY CmdFieldsAre DEF IsCmd, CmdTypeOK, ReinitInoutNodata, Status, ErrorStatus

LEMMA DataIs ==
  ASSUME NEW c, IsCmd(c), NEW command \in MmcCommands, NEW nblk, NEW auto23,
         NEW d, d = ReinitInoutData(c, command, nblk, auto23)
  PROVE  /\ IsCmd(d) /\ d.cmd = command /\ d.status = "Ready_for_submit"
         /\ d.hasData /\ (d.auto23 <=> auto23) /\ (d.cmd12 <=> c.cmd12)
         /\ (d.inout <=> c.inout) /\ d.cb = c.cb /\ d.status12 = c.status12
  BY CmdFieldsAre DEF IsCmd, CmdTypeOK, ReinitInoutData, Status, ErrorStatus

-----------------------------------------------------------------------------
(* The commands of a request, and of flush().                              *)

Ready(c) == c.status = "Ready_for_submit"

\* The transfer itself; CMD12 is due after it on a card without CMD23.
DataCmd(k, c) ==
  /\ c.hasData /\ c.cmd \in MultipleBlock
  /\ c.cmd12 <=> ~k.hasCmd23
  /\ c.auto23 => k.hasCmd23

CountCmd(c) == c.cmd = "CMD23" /\ ~c.hasData /\ ~c.auto23 /\ ~c.cmd12
StopCmd(c) == c.cmd \in StopTransmission /\ ~c.hasData /\ ~c.auto23 /\ ~c.cmd12

OfRequest(k, c) ==
  c.inout /\ c.cb \in Reqs /\ (DataCmd(k, c) \/ CountCmd(c) \/ StopCmd(c))

\* A transfer whose count a CMD23 of its own has announced.
NeedsCount(k, c) == OfRequest(k, c) /\ c.hasData /\ ~c.auto23 /\ ~c.cmd12

FlushCmd(c) ==
  /\ ~c.inout /\ ~c.hasData /\ ~c.auto23 /\ c.cb = NoReq
  /\ c.cmd \in {"CMD6", "CMD13"}

LEMMA OpenTransferIs ==
  ASSUME NEW c, IsCmd(c), c.inout, c.cb \in Reqs, ~c.cmd12, NEW nblk,
         NEW auto23 \in BOOLEAN, auto23 => drv.hasCmd23,
         NEW d, d = OpenTransfer(drv, c, nblk, auto23)
  PROVE  /\ IsCmd(d) /\ Ready(d) /\ OfRequest(drv, d) /\ DataCmd(drv, d)
         /\ d.cb = c.cb /\ (d.auto23 <=> auto23)
<1> DEFINE e == ReinitInoutData(c, ReadWriteMultiple(c), nblk, auto23)
<1>1. ReadWriteMultiple(c) \in MultipleBlock /\ ReadWriteMultiple(c) \in MmcCommands
  BY DEF ReadWriteMultiple, MultipleBlock, MmcCommands
<1>9. e = ReinitInoutData(c, ReadWriteMultiple(c), nblk, auto23)
  OBVIOUS
<1>3. d = IF drv.hasCmd23 THEN e ELSE [e EXCEPT !.cmd12 = TRUE]
  BY DEF OpenTransfer
<1> HIDE DEF e
<1>2. /\ IsCmd(e) /\ e.cmd \in MultipleBlock /\ e.status = "Ready_for_submit"
      /\ e.hasData /\ (e.auto23 <=> auto23) /\ (e.cmd12 <=> c.cmd12)
      /\ (e.inout <=> c.inout) /\ e.cb = c.cb
  BY <1>9, <1>1, DataIs
<1>4. CASE drv.hasCmd23
  BY <1>2, <1>3, <1>4 DEF Ready, OfRequest, DataCmd, IsCmd, CmdTypeOK
<1>5. CASE ~drv.hasCmd23
  <2>1. d = [e EXCEPT !.cmd12 = TRUE]
    BY <1>3, <1>5
  <2>2. /\ IsCmd(d) /\ d.cmd = e.cmd /\ d.status = e.status /\ (d.hasData <=> e.hasData)
        /\ (d.auto23 <=> e.auto23) /\ d.cmd12 /\ (d.inout <=> e.inout) /\ d.cb = e.cb
    BY <1>2, <2>1, CmdFieldsAre DEF IsCmd, CmdTypeOK
  <2> QED
    BY <1>2, <1>5, <2>2 DEF Ready, OfRequest, DataCmd
<1> QED
  BY <1>4, <1>5

LEMMA FirstCommandIs ==
  ASSUME drv \in Drivers, NEW r \in Reqs, NEW read, NEW blocks,
         NEW c, c = FirstCommand(drv, InitInout(CreatedCmd, 0, blocks, r, read))
  PROVE  /\ IsCmd(c) /\ Ready(c) /\ OfRequest(drv, c) /\ c.cb = r
         /\ ~NeedsCount(drv, c) /\ ~StopCmd(c)
<1> DEFINE b == InitInout(CreatedCmd, 0, blocks, r, read)
           n == NumSectors(b.blocks)
<1>1. /\ IsCmd(b) /\ b.cb = r /\ b.inout
      /\ ~b.hasData /\ ~b.auto23 /\ ~b.cmd12
  BY InitInoutIs
<1>2. drv.adma2 /\ drv.hasCmd23 \in BOOLEAN /\ drv.autoCmd23 \in BOOLEAN
  BY DeviceAssumption DEF Traits
<1>3. c = SetBlockCountAdma2(drv, b)
  BY <1>2 DEF FirstCommand
<1> HIDE DEF b
<1>4. CASE ~drv.hasCmd23 \/ drv.autoCmd23
  <2> DEFINE auto == drv.hasCmd23 /\ drv.autoCmd23
  <2>1. c = OpenTransfer(drv, b, n, auto)
    BY <1>3, <1>4 DEF SetBlockCountAdma2
  <2>2. auto \in BOOLEAN /\ (auto => drv.hasCmd23) /\ (auto <=> drv.hasCmd23)
    BY <1>2, <1>4
  <2> HIDE DEF auto, n
  <2>3. /\ IsCmd(c) /\ Ready(c) /\ OfRequest(drv, c) /\ DataCmd(drv, c)
        /\ c.cb = b.cb /\ (c.auto23 <=> auto)
    BY <1>1, <2>1, <2>2, OpenTransferIs
  <2> QED
    BY <1>1, <2>2, <2>3 DEF NeedsCount, StopCmd, DataCmd
<1>5. CASE ~(~drv.hasCmd23 \/ drv.autoCmd23)
  <2> DEFINE e == [b EXCEPT !.nblk = n]
  <2>1. c = ReinitInoutNodata(e, "CMD23", BlockCountArg(n))
    BY <1>3, <1>5 DEF SetBlockCountAdma2
  <2> HIDE DEF n
  <2>2. /\ IsCmd(e) /\ e.cb = b.cb /\ (e.inout <=> b.inout)
        /\ (e.auto23 <=> b.auto23) /\ (e.cmd12 <=> b.cmd12)
    BY <1>1, CmdFieldsAre DEF IsCmd, CmdTypeOK
  <2> HIDE DEF e
  <2>3. "CMD23" \in MmcCommands
    BY DEF MmcCommands
  <2>4. /\ IsCmd(c) /\ c.cmd = "CMD23" /\ c.status = "Ready_for_submit"
        /\ ~c.hasData /\ (c.auto23 <=> e.auto23) /\ (c.cmd12 <=> e.cmd12)
        /\ (c.inout <=> e.inout) /\ c.cb = e.cb
    BY <2>1, <2>2, <2>3, NodataIs
  <2>5. /\ Ready(c) /\ CountCmd(c) /\ OfRequest(drv, c) /\ ~NeedsCount(drv, c)
        /\ ~StopCmd(c) /\ c.cb = r
    BY <1>1, <2>2, <2>4 DEF Ready, CountCmd, OfRequest, NeedsCount, StopCmd, StopTransmission
  <2> QED
    BY <2>4, <2>5
<1> QED
  BY <1>4, <1>5

LEMMA StatusIs ==
  ASSUME NEW c, IsCmd(c), ~IsProgress(c)
  PROVE  IsError(c) <=> c.status # "Success"
  BY DEF IsCmd, CmdTypeOK, IsError, IsProgress, Status, ErrorStatus, ProgressStatus

\* What handle_irq_inout() goes on with, or answers.
LEMMA HandleIrqInoutMore ==
  ASSUME NEW c, IsCmd(c), OfRequest(drv, c), ~IsProgress(c), drv \in Drivers,
         NEW w, w = HandleIrqInout(drv, c), w.reply = "none"
  PROVE  /\ IsCmd(w.cmd) /\ OfRequest(drv, w.cmd) /\ Ready(w.cmd) /\ w.cmd.cb = c.cb
         /\ \/ DataCmd(drv, c) /\ c.cmd12 /\ StopCmd(w.cmd) /\ w.cmd.status12 = c.status
            \/ CountCmd(c) /\ c.status = "Success" /\ DataCmd(drv, w.cmd)
<1>1. AutoCmd12 = FALSE /\ drv.adma2
  BY DeviceAssumption DEF AutoCmd12
<1>2. CASE c.cmd12
  <2> DEFINE e == [c EXCEPT !.cmd12 = FALSE, !.status12 = c.status]
             stop == IF c.read THEN "CMD12rd" ELSE "CMD12wr"
  <2>1. w.cmd = ReinitInoutNodata(e, stop, 0)
    BY <1>1, <1>2 DEF HandleIrqInout, More
  <2>2. /\ IsCmd(e) /\ e.cb = c.cb /\ (e.inout <=> c.inout) /\ (e.auto23 <=> c.auto23)
        /\ ~e.cmd12 /\ e.status12 = c.status
    BY CmdFieldsAre DEF IsCmd, CmdTypeOK
  <2>3. stop \in StopTransmission /\ stop \in MmcCommands
    BY DEF StopTransmission, MmcCommands
  <2> HIDE DEF e, stop
  <2>4. /\ IsCmd(w.cmd) /\ w.cmd.cmd = stop /\ w.cmd.status = "Ready_for_submit"
        /\ ~w.cmd.hasData /\ (w.cmd.auto23 <=> e.auto23) /\ (w.cmd.cmd12 <=> e.cmd12)
        /\ (w.cmd.inout <=> e.inout) /\ w.cmd.cb = e.cb /\ w.cmd.status12 = e.status12
    BY <2>1, <2>2, <2>3, NodataIs
  <2>5. DataCmd(drv, c) /\ ~c.auto23
    BY <1>2 DEF OfRequest, DataCmd, CountCmd, StopCmd
  <2> QED
    BY <1>2, <2>2, <2>3, <2>4, <2>5 DEF OfRequest, StopCmd, Ready
<1>3. CASE ~c.cmd12
  <2> DEFINE d == IF c.cmd \in StopTransmission THEN [c EXCEPT !.status = c.status12] ELSE c
  <2>1. w = IF IsError(d) THEN Done(d, "eio") ELSE HandleIrqInoutAdma2(drv, d)
    BY <1>1, <1>3 DEF HandleIrqInout
  <2> HIDE DEF d
  <2>2. ~IsError(d) /\ d.cmd = "CMD23" /\ w.cmd = OpenTransfer(drv, d, d.nblk, FALSE)
    <3>1. Done(d, "eio").reply # "none" /\ Done(d, "ok").reply # "none"
      BY DEF Done
    <3>2. ~IsError(d) /\ w = HandleIrqInoutAdma2(drv, d)
      BY <2>1, <3>1
    <3>3. d.cmd = "CMD23" /\ w = More(OpenTransfer(drv, d, d.nblk, FALSE))
      BY <3>1, <3>2 DEF HandleIrqInoutAdma2
    <3> QED
      BY <3>2, <3>3 DEF More
  <2>3. d = c
    <3>1. c.cmd \in StopTransmission => d.cmd = c.cmd
      BY DEF d, IsCmd
    <3> QED
      BY <2>2, <3>1 DEF d, StopTransmission
  <2>4. CountCmd(c) /\ c.inout /\ c.cb \in Reqs
    BY <2>2, <2>3 DEF OfRequest, CountCmd, DataCmd, StopCmd, MultipleBlock, StopTransmission
  <2>5. c.status = "Success"
    BY <2>2, <2>3, StatusIs
  <2>6. w.cmd = OpenTransfer(drv, c, c.nblk, FALSE)
    BY <2>2, <2>3
  <2>7. /\ IsCmd(w.cmd) /\ Ready(w.cmd) /\ OfRequest(drv, w.cmd) /\ DataCmd(drv, w.cmd)
        /\ w.cmd.cb = c.cb
    <3>1. FALSE \in BOOLEAN /\ ~c.cmd12
      BY <1>3
    <3> QED
      BY <2>4, <2>6, <3>1, OpenTransferIs, ZenonT(30)
  <2> QED
    BY <2>4, <2>5, <2>7
<1> QED
  BY <1>2, <1>3

LEMMA HandleIrqInoutDone ==
  ASSUME NEW c, IsCmd(c), OfRequest(drv, c), ~IsProgress(c), drv \in Drivers,
         StopCmd(c) => c.status12 \notin ProgressStatus,
         NEW w, w = HandleIrqInout(drv, c), w.reply # "none"
  PROVE  /\ IsCmd(w.cmd) /\ OfRequest(drv, w.cmd) /\ ~IsProgress(w.cmd) /\ w.cmd.cb = c.cb
         /\ w.reply \in {"ok", "eio"}
         /\ \/ StopCmd(c) /\ StopCmd(w.cmd) /\ w.cmd.status12 = c.status12
               /\ w.cmd.status = c.status12
               /\ (w.reply = "ok" <=> c.status12 = "Success")
            \/ DataCmd(drv, c) /\ w.cmd = c /\ (w.reply = "ok" <=> c.status = "Success")
            \/ CountCmd(c) /\ w.cmd = c /\ w.reply = "eio"
<1>1. AutoCmd12 = FALSE /\ drv.adma2
  BY DeviceAssumption DEF AutoCmd12
<1>2. ~c.cmd12
  BY <1>1 DEF HandleIrqInout, More
<1> DEFINE d == IF c.cmd \in StopTransmission THEN [c EXCEPT !.status = c.status12] ELSE c
<1>3. w = IF IsError(d) THEN Done(d, "eio") ELSE HandleIrqInoutAdma2(drv, d)
  BY <1>1, <1>2 DEF HandleIrqInout
<1>4. /\ IsCmd(d) /\ d.cmd = c.cmd /\ (d.hasData <=> c.hasData) /\ (d.auto23 <=> c.auto23)
      /\ (d.cmd12 <=> c.cmd12) /\ (d.inout <=> c.inout) /\ d.cb = c.cb /\ d.status12 = c.status12
      /\ d.status = IF c.cmd \in StopTransmission THEN c.status12 ELSE c.status
  BY CmdFieldsAre DEF IsCmd, CmdTypeOK
<1>5. c.cmd \notin StopTransmission => d = c
  OBVIOUS
<1> HIDE DEF d
<1>6. StopCmd(c) <=> c.cmd \in StopTransmission
  BY DEF OfRequest, StopCmd, DataCmd, CountCmd, MultipleBlock, StopTransmission
<1>7. ~IsProgress(d)
  BY <1>4, <1>6 DEF IsProgress
<1>8. IsError(d) <=> d.status # "Success"
  BY <1>4, <1>7, StatusIs
<1>9. w.cmd = d /\ w.reply \in {"ok", "eio"} /\ (w.reply = "eio" <=> IsError(d))
      /\ (w.reply = "ok" => d.cmd # "CMD23")
  BY <1>3 DEF Done, More, HandleIrqInoutAdma2
<1>10. OfRequest(drv, d)
  BY <1>4 DEF OfRequest, DataCmd, CountCmd, StopCmd
<1>11. CASE StopCmd(c)
  BY <1>4, <1>6, <1>7, <1>8, <1>9, <1>10, <1>11 DEF StopCmd
<1>12. CASE DataCmd(drv, c)
  BY <1>4, <1>5, <1>6, <1>7, <1>8, <1>9, <1>10, <1>12 DEF DataCmd, StopCmd
<1>13. CASE CountCmd(c)
  BY <1>4, <1>5, <1>6, <1>7, <1>8, <1>9, <1>10, <1>13 DEF CountCmd, StopTransmission
<1> QED
  BY <1>11, <1>12, <1>13 DEF OfRequest

-----------------------------------------------------------------------------
(* Type correctness.                                                       *)

HwFields == {"cihb", "cmd", "hasData", "write", "auto23", "req", "dat", "datReq", "is",
             "signal", "resets", "resp"}
HwTyped(h) ==
  /\ DOMAIN h = HwFields
  /\ h.cmd \in MmcCommands /\ h.is \subseteq StatusBits /\ h.signal \subseteq StatusBits
  /\ h.resets \subseteq Lines /\ h.dat \in {"idle", "data", "busy", "stuck"} /\ h.resp \in {"ready", "busy", "switch_error"}

CardStates == [xfer : {"tran", "counted", "bounded", "open", "aborted"},
               cache : {"clean", "dirty", "flushing", "refused"}]
IrqStates == [masked : BOOLEAN, msg : BOOLEAN]

CmdsTyped ==
  /\ DOMAIN cmds = Slots /\ cmds = [s \in Slots |-> cmds[s]]
  /\ \A s \in Slots : IsCmd(cmds[s])

RequestSets == unmapped \subseteq Reqs /\ stranded \subseteq Reqs \cup {NoReq}

Typed ==
  /\ CmdsTyped /\ HwTyped(hw)
  /\ drv \in Drivers /\ RequestSets
  /\ answer \in [Reqs -> {"none", "ok", "eio"}]
  /\ flushed \in {"none", "ok", "einval"}
  /\ card \in CardStates /\ irq \in IrqStates

LEMMA TypedGivesTypeOK == DeviceInv /\ Typed => TypeOK
  BY DEF DeviceInv, RingSound, RingOK, Typed, CmdsTyped, IsCmd, HwTyped, TypeOK, HostTypeOK,
         CardStates, IrqStates, RequestSets

\* The Cmd of another status: it stays the same command of the same request.
SameCommand(c, d) ==
  /\ d.cmd = c.cmd /\ d.cb = c.cb /\ d.status12 = c.status12
  /\ (d.hasData <=> c.hasData) /\ (d.auto23 <=> c.auto23) /\ (d.cmd12 <=> c.cmd12)
  /\ (d.inout <=> c.inout)

LEMMA NewStatus ==
  ASSUME NEW c, IsCmd(c), NEW status \in Status, NEW d, d = [c EXCEPT !.status = status]
  PROVE  IsCmd(d) /\ SameCommand(c, d) /\ d.status = status
  BY CmdFieldsAre DEF IsCmd, CmdTypeOK, SameCommand

LEMMA SameIsSame ==
  ASSUME NEW c
  PROVE  SameCommand(c, c)
  BY DEF SameCommand

LEMMA HwKept ==
  ASSUME NEW h, HwTyped(h), NEW s, NEW line \in Lines, NEW inTime \in BOOLEAN
  PROVE  /\ HwTyped([h EXCEPT !.is = @ \ s])
         /\ HwTyped(ResetLine([h EXCEPT !.is = @ \ s], line, inTime))
<1> DEFINE g == [h EXCEPT !.is = @ \ s]
<1>1. HwTyped(g)
  BY DEF HwTyped, HwFields
<1> HIDE DEF g
<1>2. HwTyped(LineReset(g, line)) /\ HwTyped([g EXCEPT !.resets = @ \cup {line}])
  BY <1>1 DEF LineReset, HwTyped, HwFields
<1> QED
  BY <1>1, <1>2 DEF g, ResetLine

LEMMA HandleIrqCmdTyped ==
  ASSUME NEW c, IsCmd(c), NEW h, HwTyped(h), NEW is, NEW inTime \in BOOLEAN,
         NEW r, r = HandleIrqCmd(c, h, is, inTime)
  PROVE  IsCmd(r.cmd) /\ SameCommand(c, r.cmd) /\ HwTyped(r.hw)
<1>1. {"Cmd_timeout", "Cmd_error", "Progress_data", "Success"} \subseteq Status
  BY DEF Status, ErrorStatus, ProgressStatus
<1>2. CASE "ctoe" \in is
  BY <1>1, <1>2, NewStatus, HwKept DEF Lines, HandleIrqCmd
<1>3. CASE "ctoe" \notin is /\ "cerr" \in is
  BY <1>1, <1>3, NewStatus, HwKept DEF Lines, HandleIrqCmd
<1>4. CASE "ctoe" \notin is /\ "cerr" \notin is /\ "ac12e" \in is
  BY <1>1, <1>4, NewStatus, HwKept DEF Lines, HandleIrqCmd
<1>5. CASE is \cap {"ctoe", "cerr", "ac12e"} = {} /\ "cc" \in is
  <2>1. (IF c.hasData THEN "Progress_data" ELSE "Success") \in Status
    BY <1>1
  <2> QED
    BY <1>5, <2>1, NewStatus, HwKept DEF Lines, HandleIrqCmd
<1>6. CASE is \cap {"ctoe", "cerr", "ac12e", "cc"} = {}
  BY <1>6, SameIsSame DEF HandleIrqCmd
<1> QED
  BY <1>2, <1>3, <1>4, <1>5, <1>6

LEMMA HandleIrqDataTyped ==
  ASSUME NEW c, IsCmd(c), NEW h, HwTyped(h), NEW is, NEW inTime \in BOOLEAN,
         NEW r, r = HandleIrqData(c, h, is, inTime)
  PROVE  IsCmd(r.cmd) /\ SameCommand(c, r.cmd) /\ HwTyped(r.hw)
<1>1. {"Data_error", "Success"} \subseteq Status
  BY DEF Status, ErrorStatus
<1>2. CASE "derr" \in is
  BY <1>1, <1>2, NewStatus, HwKept DEF Lines, HandleIrqData
<1>3. CASE "derr" \notin is /\ "tc" \in is
  BY <1>1, <1>3, NewStatus, HwKept DEF Lines, HandleIrqData
<1>4. CASE is \cap {"derr", "tc"} = {}
  BY <1>4, SameIsSame DEF HandleIrqData
<1> QED
  BY <1>2, <1>3, <1>4

LEMMA SameTransitive ==
  ASSUME NEW c, NEW d, NEW e, SameCommand(c, d), SameCommand(d, e)
  PROVE  SameCommand(c, e)
  BY DEF SameCommand

LEMMA HandleIrqTyped ==
  ASSUME NEW c, IsCmd(c), NEW h, HwTyped(h), NEW inTime \in BOOLEAN,
         NEW r, r = HandleIrq(c, h, inTime)
  PROVE  IsCmd(r.cmd) /\ SameCommand(c, r.cmd) /\ HwTyped(r.hw)
<1> DEFINE first == IF c.status = "Progress_cmd" THEN HandleIrqCmd(c, h, h.is, inTime)
                                                 ELSE [cmd |-> c, hw |-> h]
<1>1. r = IF first.cmd.status = "Progress_data"
          THEN HandleIrqData(first.cmd, first.hw, h.is, inTime) ELSE first
  BY DEF HandleIrq
<1>2. IsCmd(first.cmd) /\ SameCommand(c, first.cmd) /\ HwTyped(first.hw)
  BY HandleIrqCmdTyped, SameIsSame
<1> HIDE DEF first
<1>3. CASE first.cmd.status = "Progress_data"
  <2>1. r = HandleIrqData(first.cmd, first.hw, h.is, inTime)
    BY <1>1, <1>3
  <2> QED
    BY <1>2, <2>1, HandleIrqDataTyped, SameTransitive
<1>4. CASE first.cmd.status # "Progress_data"
  BY <1>1, <1>2, <1>4
<1> QED
  BY <1>3, <1>4

LEMMA OpenTransferTyped ==
  ASSUME NEW k, NEW c, IsCmd(c), NEW nblk, NEW auto23,
         NEW d, d = OpenTransfer(k, c, nblk, auto23)
  PROVE  IsCmd(d)
<1> DEFINE e == ReinitInoutData(c, ReadWriteMultiple(c), nblk, auto23)
<1>1. ReadWriteMultiple(c) \in MmcCommands
  BY DEF ReadWriteMultiple, MmcCommands
<1>2. IsCmd(e)
  BY <1>1, DataIs
<1>3. d = IF k.hasCmd23 THEN e ELSE [e EXCEPT !.cmd12 = TRUE]
  BY DEF OpenTransfer
<1> HIDE DEF e
<1>4. IsCmd([e EXCEPT !.cmd12 = TRUE])
  BY <1>2, CmdFieldsAre DEF IsCmd, CmdTypeOK
<1> QED
  BY <1>2, <1>3, <1>4

LEMMA HandleIrqInoutTyped ==
  ASSUME NEW c, IsCmd(c), drv \in Drivers, NEW w, w = HandleIrqInout(drv, c)
  PROVE  IsCmd(w.cmd) /\ w.reply \in {"none", "ok", "eio"}
<1>1. AutoCmd12 = FALSE /\ drv.adma2
  BY DeviceAssumption DEF AutoCmd12
<1>2. CASE c.cmd12
  <2> DEFINE e == [c EXCEPT !.cmd12 = FALSE, !.status12 = c.status]
             stop == IF c.read THEN "CMD12rd" ELSE "CMD12wr"
  <2>1. w = More(ReinitInoutNodata(e, stop, 0))
    BY <1>1, <1>2 DEF HandleIrqInout
  <2>2. IsCmd(e) /\ stop \in MmcCommands
    BY CmdFieldsAre DEF IsCmd, CmdTypeOK, MmcCommands
  <2> HIDE DEF e, stop
  <2>3. IsCmd(ReinitInoutNodata(e, stop, 0))
    BY <2>2, NodataIs
  <2> QED
    BY <2>1, <2>3 DEF More
<1>3. CASE ~c.cmd12
  <2> DEFINE d == IF c.cmd \in StopTransmission THEN [c EXCEPT !.status = c.status12] ELSE c
  <2>1. w = IF IsError(d) THEN Done(d, "eio") ELSE HandleIrqInoutAdma2(drv, d)
    BY <1>1, <1>3 DEF HandleIrqInout
  <2>2. IsCmd(d)
    BY CmdFieldsAre DEF IsCmd, CmdTypeOK
  <2> HIDE DEF d
  <2>3. IsCmd(OpenTransfer(drv, d, d.nblk, FALSE))
    BY <2>2, OpenTransferTyped
  <2>4. \/ w = Done(d, "eio") \/ w = Done(d, "ok")
        \/ w = More(OpenTransfer(drv, d, d.nblk, FALSE))
    BY <2>1 DEF HandleIrqInoutAdma2
  <2> HIDE DEF d
  <2>5. CASE w = Done(d, "eio") \/ w = Done(d, "ok")
    <3>1. w.cmd = d /\ w.reply \in {"ok", "eio"}
      BY <2>5 DEF Done
    <3> QED
      BY <2>2, <3>1
  <2>6. CASE w = More(OpenTransfer(drv, d, d.nblk, FALSE))
    <3>1. w.cmd = OpenTransfer(drv, d, d.nblk, FALSE) /\ w.reply = "none"
      BY <2>6 DEF More
    <3> QED
      BY <2>3, <3>1
  <2> QED
    BY <2>4, <2>5, <2>6
<1> QED
  BY <1>2, <1>3

LEMMA OneCmdTyped ==
  ASSUME CmdsTyped, NEW s \in Slots, NEW c, IsCmd(c), cmds' = [cmds EXCEPT ![s] = c]
  PROVE  CmdsTyped' /\ cmds'[s] = c /\ \A t \in Slots \ {s} : cmds'[t] = cmds[t]
  BY DEF CmdsTyped

LEMMA UnmaskedTyped ==
  ASSUME NEW i \in IrqStates
  PROVE  Unmasked(i) \in IrqStates /\ Unmasked([i EXCEPT !.msg = FALSE]) \in IrqStates
         /\ [i EXCEPT !.msg = FALSE] \in IrqStates
  BY DEF IrqStates, Unmasked

LEMMA SubmittedTyped ==
  ASSUME NEW h, HwTyped(h), NEW c, IsCmd(c)
  PROVE  HwTyped(Submitted(h, c))
<1>1. SignalEnable(c) \subseteq StatusBits
  BY DEF SignalEnable, StatusBits
<1> QED
  BY <1>1 DEF HwTyped, HwFields, Submitted, IsCmd, CmdTypeOK

LEMMA InitTyped == Init => Typed
<1> SUFFICES ASSUME Init PROVE Typed
  OBVIOUS
<1>1. CmdsTyped
  BY InvalidCmdIs DEF Init, CmdsTyped
<1>2. HwTyped(hw) /\ card \in CardStates /\ irq \in IrqStates
  BY DEF Init, HostInit, HwTyped, HwFields, CardStates, IrqStates, MmcCommands, StatusBits
<1> QED
  BY <1>1, <1>2 DEF Init, Typed, RequestSets

LEMMA RetireTyped ==
  ASSUME Typed, NEW s \in Slots, Retire(s)
  PROVE  CmdsTyped' /\ RequestSets'
<1>1. CmdsTyped'
  BY OneCmdTyped, InvalidCmdIs DEF Retire, Typed
<1> QED
  BY <1>1 DEF Retire, Typed, RequestSets

LEMMA InoutDataTyped ==
  ASSUME DeviceInv, Typed, NEW r \in Reqs, NEW read, NEW blocks, InoutData(r, read, blocks)
  PROVE  Typed'
<1> DEFINE c == FirstCommand(drv, InitInout(CreatedCmd, 0, blocks, r, read))
<1>1. q.create \in Slots /\ cmds' = [cmds EXCEPT ![q.create] = c]
  BY DEF InoutData, DeviceInv, RingSound, RingOK, Queues
<1>2. IsCmd(c)
  BY FirstCommandIs DEF Typed
<1> HIDE DEF c
<1>3. CmdsTyped'
  BY <1>1, <1>2, OneCmdTyped DEF Typed
<1>4. answer' \in [Reqs -> {"none", "ok", "eio"}] /\ RequestSets'
  <2>1. answer' = answer \/ answer' = [answer EXCEPT ![r] = "none"]
    BY DEF InoutData
  <2>2. unmapped' = unmapped \ {r} \/ unmapped' = unmapped \cup {r}
    BY DEF InoutData
  <2>3. stranded' = stranded
    BY DEF InoutData
  <2> QED
    BY <2>1, <2>2, <2>3 DEF RequestSets, Typed, RequestSets
<1>5. UNCHANGED <<drv, flushed, hw, card, irq>>
  BY DEF InoutData
<1> QED
  BY <1>3, <1>4, <1>5 DEF Typed

LEMMA OversizedTyped ==
  ASSUME DeviceInv, Typed, NEW r \in Reqs, InoutDataOversized(r)
  PROVE  Typed'
<1> DEFINE left == [CreatedCmd EXCEPT !.cb = r]
<1>1. q.create \in Slots /\ UNCHANGED <<drv, unmapped, stranded, answer, flushed, hostVars>>
      /\ \/ cmds' = [cmds EXCEPT ![q.create] = InvalidCmd]
         \/ cmds' = [cmds EXCEPT ![q.create] = left]
  BY DEF InoutDataOversized, DeviceInv, RingSound, RingOK, Queues
<1>2. IsCmd(left)
  BY InvalidCmdIs, CmdFieldsAre DEF IsCmd, CmdTypeOK
<1> HIDE DEF left
<1>3. CmdsTyped'
  BY <1>1, <1>2, InvalidCmdIs, OneCmdTyped DEF Typed
<1> QED
  BY <1>1, <1>3 DEF Typed, RequestSets, hostVars

LEMMA SubmitTyped ==
  ASSUME DeviceInv, Typed, Submit
  PROVE  Typed'
<1> DEFINE s == Working(q)
           c == [cmds[s] EXCEPT !.status = "Progress_cmd"]
<1>1. /\ s \in Slots /\ IsCmd(cmds[s]) /\ cmds' = [cmds EXCEPT ![s] = c]
      /\ hw' = Submitted(hw, cmds[s]) /\ irq' = Unmasked(irq)
      /\ UNCHANGED <<drv, unmapped, stranded, flushed, card>>
      /\ answer' \in {answer, [answer EXCEPT ![cmds[srv.slot].cb] = "none"]}
  BY DEF Submit, DeviceInv, ServerHasHead, Typed, CmdsTyped
<1>2. IsCmd(c)
  BY <1>1, NewStatus DEF Status, ProgressStatus
<1> HIDE DEF c, s
<1>3. CmdsTyped' /\ HwTyped(hw')
  BY <1>1, <1>2, OneCmdTyped, SubmittedTyped DEF Typed
<1>4. irq' \in IrqStates
  BY <1>1, UnmaskedTyped DEF Typed
<1>5. answer' \in [Reqs -> {"none", "ok", "eio"}]
  BY <1>1 DEF Typed
<1> QED
  BY <1>1, <1>3, <1>4, <1>5 DEF Typed, RequestSets

LEMMA SubmitFailsInoutTyped ==
  ASSUME DeviceInv, Typed, SubmitFailsInout
  PROVE  Typed'
<1>1. UNCHANGED <<drv, answer, flushed, hostVars>>
  BY DEF SubmitFailsInout
<1>2. CASE WorkDoneAllowed(q, srv.slot)
  <2>1. srv.slot \in Slots /\ Retire(srv.slot)
    BY <1>2 DEF SubmitFailsInout, DeviceInv, ServerHasHead, WorkDoneAllowed
  <2> QED
    BY <1>1, <2>1, RetireTyped DEF RequestSets, Typed, hostVars
<1>3. CASE ~WorkDoneAllowed(q, srv.slot)
  BY <1>1, <1>3 DEF SubmitFailsInout, Typed, RequestSets, CmdsTyped, hostVars
<1> QED
  BY <1>2, <1>3

LEMMA HandleIrqMessageTyped ==
  ASSUME DeviceInv, Typed, HandleIrqMessage
  PROVE  Typed'
<1> DEFINE s == Working(q)
           r == HandleIrq(cmds[s], hw, TRUE)
           work == HandleIrqInout(drv, r.cmd)
<1>1. UNCHANGED <<drv, unmapped, stranded, flushed, card>>
  BY DEF HandleIrqMessage
<1>2. CASE s = NoSlot
  <2>1. irq' = [irq EXCEPT !.msg = FALSE] /\ UNCHANGED <<cmds, answer, hw>>
    BY <1>2 DEF HandleIrqMessage
  <2>2. irq' \in IrqStates
    BY <2>1, UnmaskedTyped DEF RequestSets, Typed
  <2> QED
    BY <1>1, <2>1, <2>2 DEF RequestSets, Typed, CmdsTyped
<1>3. CASE s # NoSlot
  <2>1. s \in Slots
    BY <1>3, WorkingIsSlot DEF DeviceInv, RingSound
  <2>2. IsCmd(cmds[s]) /\ HwTyped(hw) /\ drv \in Drivers
    BY <2>1 DEF RequestSets, Typed, CmdsTyped
  <2>3. IsCmd(r.cmd) /\ HwTyped(r.hw)
    BY <2>2, HandleIrqTyped
  <2>4. /\ hw' = r.hw
        /\ \/ irq' = Unmasked([irq EXCEPT !.msg = FALSE])
           \/ irq' = [irq EXCEPT !.msg = FALSE]
        /\ \/ cmds' = [cmds EXCEPT ![s] = r.cmd]
           \/ cmds' = [cmds EXCEPT ![s] = work.cmd]
        /\ answer' = answer \/ answer' = [answer EXCEPT ![r.cmd.cb] = work.reply]
    BY <1>3 DEF HandleIrqMessage
  <2> HIDE DEF r, s
  <2>5. IsCmd(work.cmd) /\ work.reply \in {"none", "ok", "eio"}
    BY <2>2, <2>3, HandleIrqInoutTyped
  <2> HIDE DEF work
  <2>6. CmdsTyped'
    BY <2>1, <2>3, <2>4, <2>5, OneCmdTyped DEF RequestSets, Typed
  <2>7. irq' \in IrqStates
    BY <2>4, UnmaskedTyped DEF RequestSets, Typed
  <2>8. answer' \in [Reqs -> {"none", "ok", "eio"}]
    BY <2>4, <2>5 DEF RequestSets, Typed
  <2> QED
    BY <1>1, <2>3, <2>4, <2>6, <2>7, <2>8 DEF RequestSets, Typed
<1> QED
  BY <1>2, <1>3

LEMMA SubmitFailsIrqTyped ==
  ASSUME DeviceInv, Typed, SubmitFailsIrq
  PROVE  Typed'
<1>1. Working(q) \in Slots /\ stranded' = stranded \cup {cmds[Working(q)].cb}
      /\ UNCHANGED <<drv, cmds, unmapped, answer, flushed, hostVars>>
  BY DEF SubmitFailsIrq, DeviceInv, ServerHasHead
<1>2. cmds[Working(q)].cb \in Reqs \cup {NoReq}
  BY <1>1 DEF Typed, CmdsTyped, IsCmd, CmdTypeOK
<1>3. RequestSets'
  BY <1>1, <1>2 DEF Typed, RequestSets
<1> QED
  BY <1>1, <1>3 DEF Typed, CmdsTyped, hostVars

LEMMA HandleIrqThrowsTyped ==
  ASSUME DeviceInv, Typed, HandleIrqThrows
  PROVE  Typed'
<1> DEFINE s == Working(q)
           r == HandleIrq(cmds[s], hw, FALSE)
<1>1. /\ s \in Slots /\ cmds' = [cmds EXCEPT ![s] = r.cmd] /\ hw' = r.hw
      /\ stranded' = stranded \cup {cmds[s].cb} /\ irq' = [irq EXCEPT !.msg = FALSE]
      /\ UNCHANGED <<drv, unmapped, answer, flushed, card>>
  BY WorkingIsSlot DEF HandleIrqThrows, DeviceInv, RingSound, Idle
<1>2. IsCmd(cmds[s]) /\ HwTyped(hw)
  BY <1>1 DEF Typed, CmdsTyped
<1>3. IsCmd(r.cmd) /\ HwTyped(r.hw)
  BY <1>2, HandleIrqTyped
<1> HIDE DEF r, s
<1>4. CmdsTyped' /\ HwTyped(hw')
  BY <1>1, <1>3, OneCmdTyped DEF Typed
<1>5. RequestSets' /\ irq' \in IrqStates
  BY <1>1, <1>2, UnmaskedTyped DEF Typed, RequestSets, IsCmd, CmdTypeOK
<1> QED
  BY <1>1, <1>4, <1>5 DEF Typed

LEMMA FlushTyped ==
  ASSUME DeviceInv, Typed, Flush
  PROVE  Typed'
<1>1. UNCHANGED <<drv, unmapped, stranded, answer, hostVars>> /\ flushed' \in {"none", "ok", "einval"}
  BY DEF Flush
<1>2. CmdsTyped'
  <2> DEFINE c == InitArg(CreatedCmd, "CMD6", 0)
  <2>1. q.create \in Slots /\ (cmds' = cmds \/ cmds' = [cmds EXCEPT ![q.create] = c])
    BY DEF Flush, DeviceInv, RingSound, RingOK, Queues
  <2>2. IsCmd(c)
    BY InvalidCmdIs, InitArgIs DEF MmcCommands
  <2> HIDE DEF c
  <2> QED
    BY <2>1, <2>2, OneCmdTyped DEF RequestSets, Typed, CmdsTyped
<1> QED
  BY <1>1, <1>2 DEF Typed, RequestSets, hostVars

LEMMA FlushSubmitTyped ==
  ASSUME DeviceInv, Typed, FlushSubmit
  PROVE  Typed'
<1> DEFINE s == srv.slot
           c == [cmds[s] EXCEPT !.status = "Progress_cmd"]
<1>1. /\ s \in Slots /\ IsCmd(cmds[s]) /\ cmds' = [cmds EXCEPT ![s] = c]
      /\ hw' = Submitted(hw, cmds[s]) /\ irq' = Unmasked(irq)
      /\ UNCHANGED <<drv, unmapped, stranded, answer, flushed, card>>
  BY DEF FlushSubmit, DeviceInv, FlushHasSlot, Typed, CmdsTyped
<1>2. IsCmd(c)
  BY <1>1, NewStatus DEF Status, ProgressStatus
<1> HIDE DEF c, s
<1>3. CmdsTyped' /\ HwTyped(hw')
  BY <1>1, <1>2, OneCmdTyped, SubmittedTyped DEF Typed
<1>4. irq' \in IrqStates
  BY <1>1, UnmaskedTyped DEF Typed
<1> QED
  BY <1>1, <1>3, <1>4 DEF Typed, RequestSets

LEMMA FlushEndsTyped ==
  ASSUME DeviceInv, Typed, srv.slot \in Slots, NEW c, IsCmd(c),
         NEW result \in {"ok", "einval"}, FlushEnds(c, result)
  PROVE  CmdsTyped' /\ RequestSets' /\ flushed' \in {"none", "ok", "einval"}
<1>1. CASE WorkDoneAllowed(q, srv.slot)
  BY <1>1, RetireTyped DEF FlushEnds
<1>2. CASE ~WorkDoneAllowed(q, srv.slot)
  BY <1>2, OneCmdTyped DEF FlushEnds, Typed, RequestSets
<1> QED
  BY <1>1, <1>2

\* The end of CMD6 or CMD13 ends the flush or polls once more.
LEMMA FlushFinishedThen ==
  ASSUME DeviceInv, NEW c, NEW resp, FlushFinished(c, resp)
  PROVE  \/ IsError(c) /\ FlushEnds(c, "einval")
         \/ ~IsError(c) /\ c.cmd # "CMD6" /\ FlushEnds(c, "ok")
         \/ ~IsError(c) /\ \E n \in 0 .. MaxPolls - 1 : PollStatus(c, n)
<1>1. CASE IsError(c)
  BY <1>1 DEF FlushFinished
<1>2. CASE ~IsError(c) /\ c.cmd = "CMD6"
  BY <1>2, DeviceAssumption DEF FlushFinished
<1>3. CASE ~IsError(c) /\ c.cmd # "CMD6"
  <2>1. CASE resp = "busy" /\ srv.polls + 1 < MaxPolls
    BY <1>3, <2>1, DeviceAssumption DEF FlushFinished, DeviceInv, Servers
  <2>2. CASE ~(resp = "busy" /\ srv.polls + 1 < MaxPolls)
    BY <1>3, <2>2 DEF FlushFinished
  <2> QED
    BY <2>1, <2>2
<1> QED
  BY <1>1, <1>2, <1>3

LEMMA FlushReceiveTyped ==
  ASSUME NEW inTime \in BOOLEAN, DeviceInv, Typed, FlushReceive(inTime)
  PROVE  Typed'
<1> DEFINE r == HandleIrqCmd(cmds[srv.slot], hw, hw.is, inTime)
<1>1. /\ srv.slot \in Slots /\ IsCmd(cmds[srv.slot]) /\ HwTyped(hw)
      /\ UNCHANGED <<drv, answer, card>> /\ hw' = r.hw
      /\ \/ irq' = Unmasked([irq EXCEPT !.msg = FALSE])
         \/ irq' = [irq EXCEPT !.msg = FALSE]
      /\ \/ /\ cmds' = [cmds EXCEPT ![srv.slot] = r.cmd]
            /\ UNCHANGED <<unmapped, stranded, flushed>>
         \/ FlushFinished(r.cmd, hw.resp)
  BY DEF FlushReceive, DeviceInv, FlushHasSlot, Typed, CmdsTyped
<1>2. IsCmd(r.cmd) /\ HwTyped(r.hw)
  BY <1>1, HandleIrqCmdTyped
<1> HIDE DEF r
<1>3. irq' \in IrqStates
  BY <1>1, UnmaskedTyped DEF Typed
<1>4. CmdsTyped' /\ RequestSets' /\ flushed' \in {"none", "ok", "einval"}
  <2>1. CASE cmds' = [cmds EXCEPT ![srv.slot] = r.cmd] /\ UNCHANGED <<unmapped, stranded, flushed>>
    BY <1>1, <1>2, <2>1, OneCmdTyped DEF RequestSets, Typed
  <2>2. ASSUME NEW result \in {"ok", "einval"}, FlushEnds(r.cmd, result)
        PROVE  CmdsTyped' /\ RequestSets' /\ flushed' \in {"none", "ok", "einval"}
    BY <1>1, <1>2, <2>2, FlushEndsTyped
  <2>3. ASSUME NEW n \in 0 .. MaxPolls - 1, PollStatus(r.cmd, n)
        PROVE  CmdsTyped' /\ RequestSets' /\ flushed' \in {"none", "ok", "einval"}
    <3> DEFINE c == InitArg(r.cmd, "CMD13", 0)
    <3>1. cmds' = [cmds EXCEPT ![srv.slot] = c] /\ UNCHANGED <<unmapped, stranded, flushed>>
      BY <2>3 DEF PollStatus
    <3>2. IsCmd(c)
      BY <1>2, InitArgIs DEF MmcCommands
    <3> HIDE DEF c
    <3> QED
      BY <1>1, <3>1, <3>2, OneCmdTyped DEF Typed, RequestSets
  <2> QED
    BY <1>1, <2>1, <2>2, <2>3, FlushFinishedThen
<1> QED
  BY <1>1, <1>2, <1>3, <1>4 DEF Typed

LEMMA FlushTimeoutTyped ==
  ASSUME DeviceInv, Typed, FlushTimeout
  PROVE  Typed'
<1>1. /\ srv.slot \in Slots /\ IsCmd(cmds[srv.slot]) /\ UNCHANGED <<drv, answer, hostVars>>
      /\ FlushEnds(cmds[srv.slot], "einval")
  BY DEF FlushTimeout, DeviceInv, FlushHasSlot, Typed, CmdsTyped
<1>2. CmdsTyped' /\ RequestSets' /\ flushed' \in {"none", "ok", "einval"}
  BY <1>1, FlushEndsTyped
<1> QED
  BY <1>1, <1>2 DEF Typed, hostVars

LEMMA CardAcceptsTyped ==
  ASSUME card \in CardStates, NEW cache \in {"clean", "dirty", "flushing", "refused"}
  PROVE  CardAccepts(cache) \in CardStates
  BY DEF CardAccepts, CardStates

LEMMA HostTyped ==
  ASSUME Typed, HostNext
  PROVE  HwTyped(hw') /\ card' \in CardStates /\ irq' \in IrqStates
<1>1. /\ HwTyped(hw) /\ card \in CardStates /\ irq \in IrqStates
      /\ card.cache \in {"clean", "dirty", "flushing", "refused"}
  BY DEF Typed, CardStates
<1>2. HwTyped(CommandOver(hw))
  BY <1>1 DEF HwTyped, HwFields, CommandOver, MmcCommands
<1> DEFINE h == CommandOver(hw)
<1> HIDE DEF h
<1>3. CASE CommandResponds
  <2>1. card' \in CardStates /\ irq' \in IrqStates
    BY <1>1, <1>3, CardAcceptsTyped DEF CommandResponds
  <2> DEFINE dat == IF hw.hasData THEN "data"
                    ELSE IF hw.cmd \in RspCheckBusy THEN "busy" ELSE h.dat
             req == IF hw.hasData THEN hw.req ELSE h.datReq
             resp == IF hw.cmd # "CMD13" THEN h.resp
                     ELSE IF card.cache = "refused" THEN "switch_error"
                     ELSE IF hw.dat = "busy" THEN "busy" ELSE "ready"
  <2>2. hw' = [h EXCEPT !.cihb = FALSE, !.is = @ \cup {"cc"}, !.dat = dat,
                        !.datReq = req, !.resp = resp]
    BY <1>3 DEF CommandResponds, h
  <2>4. dat \in {"idle", "data", "busy", "stuck"} /\ resp \in {"ready", "busy", "switch_error"}
    BY <1>2 DEF HwTyped, h
  <2>5. HwTyped(h)
    BY <1>2 DEF h
  <2> HIDE DEF dat, req, resp
  <2>3. HwTyped(hw')
    BY <2>2, <2>4, <2>5 DEF HwTyped, HwFields, StatusBits
  <2> QED
    BY <2>1, <2>3
<1>4. CASE CommandFails
  <2>1. \E e \in {"ctoe", "cerr"} : hw' = [h EXCEPT !.is = @ \cup {e}]
    BY <1>4 DEF CommandFails, h
  <2>2. HwTyped(hw')
    BY <1>2, <2>1 DEF HwTyped, HwFields, StatusBits, h
  <2>3. card' \in CardStates
    <3>1. [card EXCEPT !.xfer = IF hw.cmd \in StopTransmission
                                  THEN "aborted" ELSE "tran"] \in CardStates
      BY <1>1 DEF CardStates
    <3> QED
      BY <1>1, <1>4, <3>1, CardAcceptsTyped DEF CommandFails
  <2> QED
    BY <1>1, <1>4, <2>2, <2>3 DEF CommandFails
<1>5. CASE AutoCommandFails
  <2>1. hw' = [h EXCEPT !.is = @ \cup {"ac12e"}]
    BY <1>5 DEF AutoCommandFails, h
  <2>2. HwTyped(hw')
    BY <1>2, <2>1 DEF HwTyped, HwFields, StatusBits, h
  <2> QED
    BY <1>1, <1>5, <2>2 DEF AutoCommandFails
<1>6. CASE DataCompletes
  <2>1. HwTyped(hw')
    BY <1>1, <1>6 DEF DataCompletes, HwTyped, HwFields, StatusBits
  <2> QED
    BY <1>1, <1>6, <2>1 DEF DataCompletes, CardStates
<1>7. CASE DataFails
  <2>1. HwTyped(hw')
    BY <1>1, <1>7 DEF DataFails, HwTyped, HwFields, StatusBits
  <2> QED
    BY <1>1, <1>7, <2>1 DEF DataFails, CardStates
<1>8. CASE BusyEnds
  <2>1. HwTyped(hw')
    BY <1>1, <1>8 DEF BusyEnds, HwTyped, HwFields, StatusBits
  <2> QED
    BY <1>1, <1>8, <2>1 DEF BusyEnds, CardStates
<1>9. CASE DeliverIrq
  BY <1>1, <1>9 DEF DeliverIrq, IrqStates
<1>10. CASE LineResetEnds
  <2>1. PICK line \in hw.resets :
          hw' = [LineReset(hw, line) EXCEPT !.resets = @ \ {line}]
    BY <1>10 DEF LineResetEnds
  <2>2. HwTyped(LineReset(hw, line))
    BY <1>1 DEF LineReset, HwTyped, HwFields
  <2> DEFINE g == LineReset(hw, line)
  <2> HIDE DEF g
  <2>3. HwTyped(hw')
    BY <2>1, <2>2 DEF g, HwTyped, HwFields
  <2> QED
    BY <1>1, <1>10, <2>3 DEF LineResetEnds
<1> QED
  BY <1>3, <1>4, <1>5, <1>6, <1>7, <1>8, <1>9, <1>10 DEF HostNext, CommandPhaseEnds, DataPhaseEnds

LEMMA NextKeepsTyped == DeviceInv /\ Typed /\ [Next]_vars => Typed'
<1> SUFFICES ASSUME DeviceInv, Typed, [Next]_vars PROVE Typed'
  OBVIOUS
<1>1. ASSUME NEW r \in Reqs, NEW read, NEW blocks, InoutData(r, read, blocks) PROVE Typed'
  BY <1>1, InoutDataTyped
<1>2. ASSUME NEW r \in Reqs, InoutDataOversized(r) PROVE Typed'
  BY <1>2, OversizedTyped
<1>3. CASE Flush
  BY <1>3, FlushTyped
<1>4. CASE Submit
  BY <1>4, SubmitTyped
<1>5. CASE SubmitFailsInout
  BY <1>5, SubmitFailsInoutTyped
<1>6. CASE SubmitFailsIrq
  BY <1>6, SubmitFailsIrqTyped
<1>7. CASE HandleIrqMessage
  BY <1>7, HandleIrqMessageTyped
<1>8. CASE CallbackReturns
  <2>1. /\ Working(q) \in Slots /\ Retire(Working(q))
        /\ UNCHANGED <<drv, answer, flushed, hostVars>>
    BY <1>8 DEF CallbackReturns, DeviceInv, ServerHasHead
  <2> QED
    BY <2>1, RetireTyped DEF Typed, hostVars
<1>9. CASE FlushSubmit
  BY <1>9, FlushSubmitTyped
<1>10. ASSUME NEW inTime \in BOOLEAN, FlushReceive(inTime)
      PROVE  Typed'
  BY <1>10, FlushReceiveTyped
<1>11. CASE FlushTimeout
  BY <1>11, FlushTimeoutTyped
<1>12. CASE Host
  BY <1>12, HostTyped DEF Host, deviceVars, Typed, RequestSets, CmdsTyped
<1>13. CASE UNCHANGED vars
  BY <1>13 DEF vars, hostVars, Typed, RequestSets, CmdsTyped
<1>14. CASE HandleIrqThrows
  BY <1>14, HandleIrqThrowsTyped
<1> QED
  BY <1>14, <1>1, <1>2, <1>3, <1>4, <1>5, <1>6, <1>7, <1>8, <1>9, <1>10, <1>11, <1>12, <1>13
  DEF Next, Client, Server

\* The variables keep their types, for any number of queue entries and
\* requests, every driver and every behaviour of the client.
THEOREM DeviceTypeCorrect == Spec => []TypeOK
<1>1. Init => DeviceInv /\ Typed
  BY InitDeviceInv, InitTyped
<1>2. (DeviceInv /\ Typed) /\ [Next]_vars => (DeviceInv /\ Typed)'
  BY NextKeepsDeviceInv, NextKeepsTyped
<1>3. DeviceInv /\ Typed => TypeOK
  BY TypedGivesTypeOK
<1> QED
  BY <1>1, <1>2, <1>3, PTL DEF Spec

-----------------------------------------------------------------------------
(* What the actions do to the head of the queue and to those who wait      *)
(* behind it.                                                              *)

HeadCmd == IF Working(q) = NoSlot THEN InvalidCmd ELSE cmds[Working(q)]
Waiting == q.enqueued \ {Working(q)}

Base == HeadInv /\ Typed

LEMMA BaseIs ==
  ASSUME Base
  PROVE  /\ DeviceInv /\ Typed /\ RingOK(q) /\ CmdsTyped /\ drv \in Drivers
         /\ Working(q) \in Slots \cup {NoSlot} /\ q.create \in Slots
         /\ HwTyped(hw) /\ srv \in Servers
  BY WorkingIsSlot DEF Base, HeadInv, DeviceInv, RingSound, Typed, RingOK, Queues

LEMMA OccupiedIs ==
  ASSUME NEW r, RingOK(r)
  PROVE  /\ r.enqueued \subseteq Slots
         /\ Working(r) = NoSlot => r.enqueued = {}
         /\ Working(r) # NoSlot => Working(r) \in r.enqueued
         /\ CanCreate(r) => r.create \notin r.enqueued
<1>1. /\ r \in Queues /\ r.working = r.destruct /\ r.working \in Slots /\ r.create \in Slots
      /\ r.enqueued = {s \in Slots : Distance(r.destruct, s) < Distance(r.destruct, r.create)}
  BY DEF RingOK, Queues
<1>2. CanCreate(r) => r.create \notin r.enqueued
  BY CreatedOK DEF CreateThrows
<1>3. ASSUME r.working = r.create PROVE r.enqueued = {}
  <2>1. \A s \in Slots : ~(Distance(r.destruct, s) < Distance(r.destruct, r.destruct))
    BY <1>1, EntriesAssumption DEF Distance, Slots
  <2> QED
    BY <1>1, <1>3, <2>1
<1>4. ASSUME r.working # r.create PROVE r.working \in r.enqueued
  <2>1. Distance(r.destruct, r.destruct) < Distance(r.destruct, r.create)
    BY <1>1, <1>4, EntriesAssumption DEF Distance, Slots
  <2> QED
    BY <1>1, <2>1
<1>5. r.working # NoSlot
  BY <1>1, NoSlotIsNoSlot
<1> QED
  BY <1>1, <1>2, <1>3, <1>4, <1>5 DEF Working

LEMMA HeadIsTyped ==
  ASSUME Base
  PROVE  /\ IsCmd(HeadCmd) /\ (Idle => HeadCmd = InvalidCmd /\ Waiting = {})
         /\ \A s \in Slots : IsProgress(cmds[s]) => s = Working(q) /\ IsProgress(HeadCmd)
         /\ Waiting \subseteq Slots
         /\ ~Idle => Working(q) \in Slots /\ HeadCmd = cmds[Working(q)]
<1>1. ~IsProgress(InvalidCmd)
  BY DEF IsProgress, InvalidCmd, ProgressStatus
<1>2. Waiting \subseteq Slots /\ (Idle => Waiting = {})
  BY BaseIs, OccupiedIs DEF Waiting, Idle
<1> QED
  BY <1>1, <1>2, BaseIs, InvalidCmdIs, NoSlotIsNoSlot
  DEF HeadCmd, Idle, CmdsTyped, Base, HeadInv, OnlyHeadInProgress

LEMMA HeadChanges ==
  ASSUME Base, Working(q) \in Slots, q' = q, NEW c, cmds' = [cmds EXCEPT ![Working(q)] = c]
  PROVE  /\ HeadCmd' = c /\ Waiting' = Waiting /\ ~Idle'
         /\ \A t \in Waiting : cmds'[t] = cmds[t]
<1>1. Working(q) # NoSlot /\ DOMAIN cmds = Slots
  BY NoSlotIsNoSlot, BaseIs DEF CmdsTyped
<1>2. cmds'[Working(q)] = c
  BY <1>1
<1>3. \A t \in Waiting : cmds'[t] = cmds[t]
  BY BaseIs, OccupiedIs DEF Waiting, CmdsTyped
<1> QED
  BY <1>1, <1>2, <1>3 DEF HeadCmd, Waiting, Idle

LEMMA CreateIdle ==
  ASSUME Base, Idle, CanCreate(q), q' = Created(q), NEW c, cmds' = [cmds EXCEPT ![q.create] = c]
  PROVE  /\ HeadCmd' = c /\ Waiting' = {} /\ ~Idle' /\ Working(q') = q.create
         /\ q'.create = WrapAround(q.create + 1)
<1>1. RingOK(q) /\ q.create \in Slots /\ DOMAIN cmds = Slots /\ q.enqueued = {}
  BY BaseIs, OccupiedIs DEF Idle, CmdsTyped
<1>2. Working(q') = q.create /\ q.create # NoSlot
  BY <1>1, CreatedWorking, NoSlotIsNoSlot DEF Idle
<1>3. q'.enqueued = {q.create} /\ q'.create = WrapAround(q.create + 1)
  BY <1>1 DEF Created, RingOK, Queues
<1> QED
  BY <1>1, <1>2, <1>3 DEF HeadCmd, Waiting, Idle

LEMMA CreateBehind ==
  ASSUME Base, ~Idle, CanCreate(q), q' = Created(q), NEW c, cmds' = [cmds EXCEPT ![q.create] = c]
  PROVE  /\ HeadCmd' = HeadCmd /\ Waiting' = Waiting \cup {q.create} /\ ~Idle'
         /\ q.create \notin q.enqueued /\ cmds'[q.create] = c
         /\ \A t \in q.enqueued : cmds'[t] = cmds[t]
         /\ Working(q') = Working(q) /\ q'.create = WrapAround(q.create + 1)
<1>1. /\ RingOK(q) /\ q.create \in Slots /\ DOMAIN cmds = Slots /\ q.enqueued \subseteq Slots
      /\ Working(q) \in q.enqueued /\ q.create \notin q.enqueued
  BY BaseIs, OccupiedIs DEF Idle, CmdsTyped
<1>2. Working(q') = Working(q)
  BY <1>1, CreatedWorking DEF Idle
<1>3. q'.enqueued = q.enqueued \cup {q.create} /\ q'.create = WrapAround(q.create + 1)
  BY <1>1 DEF Created, RingOK, Queues
<1> QED
  BY <1>1, <1>2, <1>3 DEF HeadCmd, Waiting, Idle

LEMMA RetireHead ==
  ASSUME Base, Base', Working(q) \in Slots, Retire(Working(q))
  PROVE  /\ q'.enqueued = Waiting /\ \A t \in Waiting : cmds'[t] = cmds[t]
         /\ \/ Idle' /\ HeadCmd' = InvalidCmd /\ Waiting' = {}
            \/ /\ ~Idle' /\ Working(q') \in Waiting /\ HeadCmd' = cmds[Working(q')]
               /\ Waiting' = Waiting \ {Working(q')}
         /\ WrapAround(Working(q) + 1) = q.create => Idle'
         /\ q'.create = q.create
<1>1. /\ RingOK(q) /\ RingOK(q') /\ DOMAIN cmds = Slots /\ q.enqueued \subseteq Slots
      /\ Working(q) = q.working
  <2>1. RingOK(q)'
    BY BaseIs, PTL DEF Base, HeadInv, DeviceInv, RingSound
  <2> QED
    BY <2>1, BaseIs, OccupiedIs, NoSlotIsNoSlot DEF CmdsTyped, Working
<1>2. /\ q'.enqueued = Waiting /\ q'.working = WrapAround(q.working + 1) /\ q'.create = q.create
  BY <1>1 DEF Retire, Destructed, WorkDone, RingOK, Queues, Waiting
<1>3. \A t \in Waiting : cmds'[t] = cmds[t]
  BY <1>1 DEF Retire, Waiting
<1>4. /\ Working(q') = NoSlot => q'.enqueued = {}
      /\ Working(q') # NoSlot => Working(q') \in q'.enqueued
  BY <1>1, OccupiedIs
<1>5. WrapAround(Working(q) + 1) = q.create => Idle'
  BY <1>1, <1>2 DEF Idle, Working
<1> QED
  BY <1>2, <1>3, <1>4, <1>5 DEF HeadCmd, Idle, Waiting

LEMMA QueueKept ==
  ASSUME UNCHANGED <<q, cmds>>
  PROVE  HeadCmd' = HeadCmd /\ Waiting' = Waiting /\ (Idle' <=> Idle)
  BY DEF HeadCmd, Waiting, Idle

-----------------------------------------------------------------------------
(* The server and the queue: what the head is at each point of the server, *)
(* what waits behind it, and that somebody will go on with it.  All of it  *)
(* is for a client that flushes an idle device only.                       *)

InFlush == srv.pc \in {"flSubmit", "flReceive"}

\* A request that has not begun, and the Cmd an exception has left behind.
Fresh(k, c) == Ready(c) /\ OfRequest(k, c) /\ ~NeedsCount(k, c) /\ ~StopCmd(c)
Abandoned(c) == ~c.inout /\ ~Ready(c) /\ ~IsProgress(c)

AtHead ==
  /\ srv.pc = "submit" => Ready(HeadCmd) /\ OfRequest(drv, HeadCmd)
  /\ srv.pc = "callback" => OfRequest(drv, HeadCmd) /\ ~IsProgress(HeadCmd)
  /\ srv.pc = "flSubmit" => Ready(HeadCmd)
  /\ srv.pc = "flReceive" => HeadCmd.status = "Progress_cmd"
  /\ InFlush => FlushCmd(HeadCmd)
  /\ ~InFlush => OfRequest(drv, HeadCmd) \/ ((Idle \/ escaped) /\ Abandoned(HeadCmd))
  /\ OfRequest(drv, HeadCmd) /\ StopCmd(HeadCmd) => HeadCmd.status12 \notin ProgressStatus

\* Whose exceptions would retire the slot srv.slot: nothing came after it.
Newest ==
  InFlush \/ (srv.pc = "submit" /\ srv.ctx = "inout_data")
    => srv.slot \in Slots /\ WrapAround(srv.slot + 1) = q.create

WaitersReady ==
  \A s \in Waiting : Fresh(drv, cmds[s]) \/ (escaped /\ Abandoned(cmds[s]))

Unique ==
  \A s, t \in q.enqueued : s # t => cmds[s].cb # cmds[t].cb \/ cmds[s].cb = NoReq

Armed == srv.pc = "loop" /\ IsProgress(HeadCmd) => ~irq.masked \/ irq.msg

SubmittedOrStranded ==
  srv.pc = "loop" /\ ~Idle /\ ~escaped => IsProgress(HeadCmd) \/ HeadCmd.cb \in stranded

ServerInv ==
  AtHead /\ Newest /\ WaitersReady /\ Unique /\ Armed /\ SubmittedOrStranded

-----------------------------------------------------------------------------
LEMMA InvalidIsAbandoned ==
  Abandoned(InvalidCmd) /\ ~IsProgress(InvalidCmd) /\ ~OfRequest(drv, InvalidCmd)
  BY InvalidCmdIs DEF Abandoned, Ready, IsProgress, ProgressStatus, OfRequest

LEMMA ReadyNoProgress ==
  ASSUME NEW c, Ready(c)
  PROVE  ~IsProgress(c)
  BY DEF Ready, IsProgress, ProgressStatus

LEMMA QueueHeadChanges ==
  ASSUME Base, WaitersReady, Unique, ~Idle, q' = q, drv' = drv, escaped' = escaped,
         NEW c, c.cb = HeadCmd.cb, cmds' = [cmds EXCEPT ![Working(q)] = c]
  PROVE  WaitersReady' /\ Unique'
<1>1. Working(q) \in Slots /\ HeadCmd = cmds[Working(q)] /\ DOMAIN cmds = Slots
  BY BaseIs, HeadIsTyped DEF CmdsTyped
<1>2. Waiting' = Waiting /\ \A t \in Waiting : cmds'[t] = cmds[t]
  BY <1>1, HeadChanges
<1>3. \A t \in Slots : cmds'[t].cb = cmds[t].cb
  BY <1>1
<1>4. q.enqueued \subseteq Slots
  BY BaseIs, OccupiedIs
<1>5. WaitersReady'
  BY <1>2 DEF WaitersReady
<1>6. Unique'
  BY <1>3, <1>4 DEF Unique
<1> QED
  BY <1>5, <1>6

LEMMA QueueCreates ==
  ASSUME Base, WaitersReady, Unique, CanCreate(q), q' = Created(q), drv' = drv,
         escaped => escaped', NEW c, cmds' = [cmds EXCEPT ![q.create] = c],
         c.cb \notin InRing, ~Idle => Fresh(drv, c) \/ (escaped' /\ Abandoned(c))
  PROVE  WaitersReady' /\ Unique'
<1>1. RingOK(q) /\ q.create \in Slots /\ DOMAIN cmds = Slots
  BY BaseIs DEF CmdsTyped
<1>2. q.enqueued \subseteq Slots /\ q.create \notin q.enqueued
  BY <1>1, OccupiedIs
<1>3. q'.enqueued = q.enqueued \cup {q.create}
  BY <1>1 DEF Created, RingOK, Queues
<1>4. cmds'[q.create] = c /\ \A t \in q.enqueued : cmds'[t] = cmds[t]
  BY <1>1, <1>2
<1>5. \A t \in q.enqueued : cmds[t].cb # c.cb \/ c.cb = NoReq
  BY <1>2 DEF InRing, Occupied
<1>6. Unique'
  BY <1>3, <1>4, <1>5 DEF Unique
<1>7. WaitersReady'
  <2>1. CASE Idle
    BY <2>1, CreateIdle DEF WaitersReady
  <2>2. CASE ~Idle
    <3>1. Waiting' = Waiting \cup {q.create} /\ Waiting \subseteq q.enqueued
      BY <2>2, CreateBehind DEF Waiting
    <3>2. \A t \in Waiting' : Fresh(drv, cmds'[t]) \/ (escaped' /\ Abandoned(cmds'[t]))
      BY <1>4, <2>2, <3>1 DEF WaitersReady
    <3> QED
      BY <3>2 DEF WaitersReady
  <2> QED
    BY <2>1, <2>2
<1> QED
  BY <1>6, <1>7

LEMMA QueueRetires ==
  ASSUME Base, Base', WaitersReady, Unique, ~Idle, Retire(Working(q)), drv' = drv,
         escaped' = escaped
  PROVE  /\ WaitersReady' /\ Unique'
         /\ \/ Idle' /\ HeadCmd' = InvalidCmd
            \/ /\ ~Idle' /\ Working(q') \in Waiting /\ HeadCmd' = cmds[Working(q')]
               /\ Fresh(drv, HeadCmd') \/ (escaped /\ Abandoned(HeadCmd'))
         /\ WrapAround(Working(q) + 1) = q.create => Idle'
<1>1. Working(q) \in Slots /\ Waiting \subseteq q.enqueued
  BY HeadIsTyped DEF Waiting
<1>2. /\ q'.enqueued = Waiting /\ \A t \in Waiting : cmds'[t] = cmds[t]
      /\ \/ Idle' /\ HeadCmd' = InvalidCmd /\ Waiting' = {}
         \/ /\ ~Idle' /\ Working(q') \in Waiting /\ HeadCmd' = cmds[Working(q')]
            /\ Waiting' = Waiting \ {Working(q')}
      /\ WrapAround(Working(q) + 1) = q.create => Idle'
  BY <1>1, RetireHead
<1>3. WaitersReady'
  BY <1>2 DEF WaitersReady
<1>4. Unique'
  BY <1>1, <1>2 DEF Unique
<1> QED
  BY <1>2, <1>3, <1>4 DEF WaitersReady

LEMMA QueueUnchanged ==
  ASSUME WaitersReady, Unique, UNCHANGED <<drv, q, cmds>>, escaped => escaped'
  PROVE  WaitersReady' /\ Unique'
  BY DEF WaitersReady, Unique, Waiting

\* cmd_queue_kick() with a head that is ready, or abandoned, or without one.
LEMMA KickedIs ==
  ASSUME NEW r, NEW cs, NEW ctx, NEW slot,
         NEW h, h = IF Working(r) = NoSlot THEN InvalidCmd ELSE cs[Working(r)]
  PROVE  /\ Ready(h) => Kicked(r, cs, ctx, slot)
                          = [Loop EXCEPT !.pc = "submit", !.ctx = ctx, !.slot = slot]
         /\ ~Ready(h) => Kicked(r, cs, ctx, slot) = Loop
<1>1. ~Ready(InvalidCmd)
  BY InvalidCmdIs DEF Ready
<1> QED
  BY <1>1 DEF Ready, Kicked, KickNeeded

LEMMA SubmitIsServer ==
  ASSUME NEW ctx, NEW slot, NEW v, v = [Loop EXCEPT !.pc = "submit", !.ctx = ctx, !.slot = slot]
  PROVE  v.pc = "submit" /\ v.ctx = ctx /\ v.slot = slot
  BY DEF Loop

LEMMA InitServerInv == Init => ServerInv
<1> SUFFICES ASSUME Init PROVE ServerInv
  OBVIOUS
<1>1. q.enqueued = {} /\ Working(q) = NoSlot /\ HeadCmd = InvalidCmd /\ srv.pc = "loop"
  BY DEF Init, EmptyQueue, Working, HeadCmd, Loop
<1>2. AtHead
  BY <1>1, InvalidIsAbandoned DEF AtHead, InFlush, Idle
<1>3. Newest /\ WaitersReady /\ Unique
  BY <1>1 DEF Newest, InFlush, WaitersReady, Waiting, Unique
<1>4. Armed /\ SubmittedOrStranded
  BY <1>1, InvalidIsAbandoned DEF Armed, SubmittedOrStranded, Idle
<1> QED
  BY <1>2, <1>3, <1>4 DEF ServerInv

\* A new request becomes the head of an idle queue, and is kicked; or it waits.
LEMMA InoutDataView ==
  ASSUME Base, NEW r \in Reqs, NEW read, NEW blocks, InoutData(r, read, blocks)
  PROVE  \E c :
    /\ IsCmd(c) /\ Fresh(drv, c) /\ c.cb = r /\ r \notin InRing
    /\ CanCreate(q) /\ q' = Created(q) /\ cmds' = [cmds EXCEPT ![q.create] = c]
    /\ \/ Idle /\ HeadCmd' = c
       \/ ~Idle /\ HeadCmd' = HeadCmd
    /\ ~Idle'
    /\ \/ srv.pc = "callback" /\ srv' = srv
       \/ srv.pc = "loop" /\ srv' = Kicked(q', cmds', "inout_data", q.create)
<1> DEFINE c == FirstCommand(drv, InitInout(CreatedCmd, 0, blocks, r, read))
<1>1. /\ CanCreate(q) /\ q' = Created(q) /\ cmds' = [cmds EXCEPT ![q.create] = c]
      /\ r \notin InRing
      /\ \/ srv.pc = "callback" /\ srv' = srv
         \/ srv.pc = "loop" /\ srv' = Kicked(q', cmds', "inout_data", q.create)
  BY DEF InoutData
<1>2. IsCmd(c) /\ Fresh(drv, c) /\ c.cb = r
  BY BaseIs, FirstCommandIs DEF Fresh
<1> HIDE DEF c
<1>3. CASE Idle
  <2>1. HeadCmd' = c /\ ~Idle'
    BY <1>1, <1>3, CreateIdle
  <2> QED
    BY <1>1, <1>2, <1>3, <2>1
<1>4. CASE ~Idle
  <2>1. HeadCmd' = HeadCmd /\ ~Idle'
    BY <1>1, <1>4, CreateBehind
  <2> QED
    BY <1>1, <1>2, <1>4, <2>1
<1> QED
  BY <1>3, <1>4

LEMMA InoutDataServer ==
  ASSUME Base, Base', ServerInv, NEW r \in Reqs, NEW read, NEW blocks,
         InoutData(r, read, blocks)
  PROVE  ServerInv'
<1>1. PICK c :
        /\ IsCmd(c) /\ Fresh(drv, c) /\ c.cb = r /\ r \notin InRing
        /\ CanCreate(q) /\ q' = Created(q) /\ cmds' = [cmds EXCEPT ![q.create] = c]
        /\ \/ Idle /\ HeadCmd' = c
           \/ ~Idle /\ HeadCmd' = HeadCmd
        /\ ~Idle'
        /\ \/ srv.pc = "callback" /\ srv' = srv
           \/ srv.pc = "loop" /\ srv' = Kicked(q', cmds', "inout_data", q.create)
  BY InoutDataView
<1>2. UNCHANGED <<drv, stranded, escaped, hw, card, irq>>
  BY DEF InoutData
<1>3. WaitersReady' /\ Unique'
  <2>1. /\ drv' = drv /\ (escaped => escaped') /\ c.cb \notin InRing
        /\ Fresh(drv, c) \/ (escaped' /\ Abandoned(c))
        /\ WaitersReady /\ Unique
    BY <1>1, <1>2 DEF ServerInv
  <2>2. CanCreate(q) /\ q' = Created(q) /\ cmds' = [cmds EXCEPT ![q.create] = c]
    BY <1>1
  <2> QED
    BY <2>1, <2>2, QueueCreates
<1>4. q.create \in Slots /\ q'.create = WrapAround(q.create + 1)
  BY <1>1, BaseIs, CreateIdle, CreateBehind
<1>6. OfRequest(drv, HeadCmd') /\ StopCmd(HeadCmd') => HeadCmd'.status12 \notin ProgressStatus
  BY <1>1 DEF ServerInv, AtHead, Fresh
<1>7. CASE srv.pc = "callback" /\ srv' = srv
  <2>1. ~Idle /\ HeadCmd' = HeadCmd
    <3>1. ~OfRequest(drv, InvalidCmd)
      BY InvalidIsAbandoned
    <3> QED
      BY <1>1, <1>7, <3>1, HeadIsTyped DEF ServerInv, AtHead
  <2> QED
    BY <1>1, <1>2, <1>3, <1>6, <1>7, <2>1
    DEF ServerInv, AtHead, Newest, InFlush, Armed, SubmittedOrStranded
<1>8. CASE srv.pc = "loop" /\ srv' = Kicked(q', cmds', "inout_data", q.create)
  <2>0. /\ Ready(HeadCmd') => srv' = [Loop EXCEPT !.pc = "submit", !.ctx = "inout_data",
                                                   !.slot = q.create]
        /\ ~Ready(HeadCmd') => srv' = Loop
    <3>1. HeadCmd' = IF Working(q') = NoSlot THEN InvalidCmd ELSE cmds'[Working(q')]
      BY DEF HeadCmd
    <3> QED
      BY <1>8, <3>1, InvalidCmdIs DEF Kicked, KickNeeded, Ready
  <2>1. CASE Ready(HeadCmd')
    <3>1. srv'.pc = "submit" /\ srv'.slot = q.create
      <4>1. srv' = [Loop EXCEPT !.pc = "submit", !.ctx = "inout_data", !.slot = q.create]
        BY <2>0, <2>1
      <4> QED
        BY <4>1 DEF Loop
    <3>2. OfRequest(drv, HeadCmd')
      BY <1>1, <1>8, <2>1 DEF Fresh, ServerInv, AtHead, InFlush, Abandoned
    <3> QED
      BY <1>2, <1>3, <1>4, <1>6, <2>1, <3>1, <3>2
      DEF ServerInv, AtHead, Newest, InFlush, Armed, SubmittedOrStranded
  <2>2. CASE ~Ready(HeadCmd')
    <3>1. srv' = Loop /\ srv'.pc = "loop"
      BY <2>0, <2>2, LoopIsServer
    <3>2. ~Idle /\ HeadCmd' = HeadCmd
      BY <1>1, <2>2 DEF Fresh
    <3> QED
      BY <1>1, <1>2, <1>3, <1>6, <1>8, <3>1, <3>2
      DEF ServerInv, AtHead, Newest, InFlush, Armed, SubmittedOrStranded
  <2> QED
    BY <2>1, <2>2
<1> QED
  BY <1>1, <1>7, <1>8

LEMMA OversizedView ==
  ASSUME Base, Base', NEW r \in Reqs, InoutDataOversized(r)
  PROVE  \/ /\ Idle /\ Idle' /\ HeadCmd' = HeadCmd /\ q'.enqueued = {}
            /\ UNCHANGED <<srv, escaped>>
         \/ /\ ~Idle /\ ~Idle' /\ HeadCmd' = HeadCmd /\ escaped'
            /\ CanCreate(q) /\ q' = Created(q) /\ r \notin InRing
            /\ cmds' = [cmds EXCEPT ![q.create] = [CreatedCmd EXCEPT !.cb = r]]
            /\ srv' \in {srv, Loop}
<1> DEFINE queue == Created(q)
<1>1. RingOK(q) /\ q.create \in Slots /\ CanCreate(q) /\ q.create # NoSlot
  BY BaseIs, NoSlotIsNoSlot DEF InoutDataOversized
<1>2. Working(queue) = IF Working(q) = NoSlot THEN q.create ELSE Working(q)
  BY <1>1, CreatedWorking
<1>3. Working(q) # q.create
  BY <1>1 DEF Working
<1>4. CASE WorkDoneAllowed(queue, q.create)
  <2>1. Idle /\ q' = Destructed(WorkDone(queue), q.create) /\ UNCHANGED <<srv, escaped>>
    BY <1>2, <1>3, <1>4 DEF InoutDataOversized, WorkDoneAllowed, Idle
  <2>2. q'.working = q'.create
    <3>1. q.working = q.create
      BY <1>1, <1>3, <2>1, NoSlotIsNoSlot DEF Idle, Working, RingOK, Queues
    <3> QED
      BY <1>1, <2>1, <3>1 DEF Destructed, WorkDone, Created, RingOK, Queues
  <2>3. Idle' /\ RingOK(q')
    <3>1. RingOK(q)'
      BY BaseIs, PTL DEF Base, HeadInv, DeviceInv, RingSound
    <3> QED
      BY <2>2, <3>1 DEF Idle, Working
  <2>4. q'.enqueued = {} /\ HeadCmd' = HeadCmd
    BY <2>1, <2>3, OccupiedIs DEF Idle, HeadCmd
  <2> QED
    BY <2>1, <2>3, <2>4
<1>5. CASE ~WorkDoneAllowed(queue, q.create)
  <2>1. /\ ~Idle /\ q' = Created(q) /\ escaped' /\ srv' \in {srv, Loop} /\ r \notin InRing
        /\ cmds' = [cmds EXCEPT ![q.create] = [CreatedCmd EXCEPT !.cb = r]]
    BY <1>2, <1>5 DEF InoutDataOversized, WorkDoneAllowed, Idle
  <2> QED
    BY <1>1, <2>1, CreateBehind
<1> QED
  BY <1>4, <1>5

LEMMA OversizedServer ==
  ASSUME Base, Base', ServerInv, NEW r \in Reqs, InoutDataOversized(r)
  PROVE  ServerInv'
<1>1. UNCHANGED <<drv, unmapped, stranded, hw, card, irq>> /\ srv.pc \in {"loop", "callback"}
  BY DEF InoutDataOversized, hostVars
<1>2. CASE /\ Idle /\ Idle' /\ HeadCmd' = HeadCmd /\ q'.enqueued = {}
           /\ UNCHANGED <<srv, escaped>>
  <2>1. WaitersReady' /\ Unique'
    BY <1>2 DEF WaitersReady, Waiting, Unique
  <2> QED
    BY <1>1, <1>2, <2>1
    DEF ServerInv, AtHead, Newest, InFlush, Armed, SubmittedOrStranded
<1>3. CASE /\ ~Idle /\ ~Idle' /\ HeadCmd' = HeadCmd /\ escaped'
           /\ CanCreate(q) /\ q' = Created(q) /\ r \notin InRing
           /\ cmds' = [cmds EXCEPT ![q.create] = [CreatedCmd EXCEPT !.cb = r]]
           /\ srv' \in {srv, Loop}
  <2> DEFINE left == [CreatedCmd EXCEPT !.cb = r]
  <2>1. left.cb = r /\ Abandoned(left)
    BY InvalidCmdIs, CmdFieldsAre
    DEF Abandoned, Ready, IsProgress, ProgressStatus, CreatedCmd, InvalidCmd
  <2>2. cmds' = [cmds EXCEPT ![q.create] = left]
    BY <1>3
  <2> HIDE DEF left
  <2>3. WaitersReady' /\ Unique'
    BY <1>1, <1>3, <2>1, <2>2, QueueCreates DEF ServerInv
  <2>4. srv'.pc \in {"loop", "callback"} /\ (srv'.pc = "callback" => srv.pc = "callback")
    BY <1>1, <1>3, LoopIsServer
  <2> QED
    BY <1>1, <1>3, <2>3, <2>4
    DEF ServerInv, AtHead, Newest, InFlush, Armed, SubmittedOrStranded
<1> QED
  BY <1>2, <1>3, OversizedView

LEMMA SubmitView ==
  ASSUME Base, AtHead, Submit, NEW d, d = [HeadCmd EXCEPT !.status = "Progress_cmd"]
  PROVE  /\ ~Idle /\ Working(q) \in Slots /\ q' = q /\ cmds' = [cmds EXCEPT ![Working(q)] = d]
         /\ HeadCmd' = d /\ Waiting' = Waiting /\ ~Idle'
         /\ IsCmd(d) /\ SameCommand(HeadCmd, d) /\ d.status = "Progress_cmd"
         /\ Ready(HeadCmd) /\ OfRequest(drv, HeadCmd) /\ OfRequest(drv, d)
         /\ hw' = Submitted(hw, HeadCmd) /\ srv' = Loop
<1>1. ~Idle /\ Working(q) \in Slots /\ HeadCmd = cmds[Working(q)] /\ IsCmd(HeadCmd)
  BY NoSlotIsNoSlot, HeadIsTyped DEF Submit, Base, HeadInv, DeviceInv, ServerHasHead, Idle
<1>2. q' = q /\ cmds' = [cmds EXCEPT ![Working(q)] = d] /\ hw' = Submitted(hw, HeadCmd)
      /\ srv' = Loop
  BY <1>1 DEF Submit
<1>3. HeadCmd' = d /\ Waiting' = Waiting /\ ~Idle'
  BY <1>1, <1>2, HeadChanges
<1>4. IsCmd(d) /\ SameCommand(HeadCmd, d) /\ d.status = "Progress_cmd"
  BY <1>1, NewStatus DEF Status, ProgressStatus
<1>5. Ready(HeadCmd) /\ OfRequest(drv, HeadCmd)
  BY DEF AtHead, Submit
<1>6. OfRequest(drv, d)
  BY <1>4, <1>5 DEF OfRequest, SameCommand, DataCmd, CountCmd, StopCmd
<1> QED
  BY <1>1, <1>2, <1>3, <1>4, <1>5, <1>6

LEMMA SameKind ==
  ASSUME NEW c, NEW d, SameCommand(c, d), NEW k
  PROVE  /\ OfRequest(k, c) <=> OfRequest(k, d)
         /\ NeedsCount(k, c) <=> NeedsCount(k, d)
         /\ DataCmd(k, c) <=> DataCmd(k, d)
         /\ CountCmd(c) <=> CountCmd(d)
         /\ StopCmd(c) <=> StopCmd(d)
         /\ FlushCmd(c) <=> FlushCmd(d)
         /\ d.status12 = c.status12 /\ d.cb = c.cb /\ d.cmd = c.cmd
  BY DEF OfRequest, NeedsCount, SameCommand, DataCmd, CountCmd, StopCmd, FlushCmd

LEMMA SubmitServer ==
  ASSUME Base, Base', ServerInv, Submit
  PROVE  ServerInv'
<1> DEFINE d == [HeadCmd EXCEPT !.status = "Progress_cmd"]
<1>0. d = [HeadCmd EXCEPT !.status = "Progress_cmd"] /\ AtHead
  BY DEF ServerInv
<1> HIDE DEF d
<1>1. /\ ~Idle /\ q' = q /\ cmds' = [cmds EXCEPT ![Working(q)] = d]
      /\ HeadCmd' = d /\ ~Idle'
      /\ SameCommand(HeadCmd, d) /\ d.status = "Progress_cmd"
      /\ OfRequest(drv, d) /\ srv' = Loop
  BY <1>0, SubmitView
<1>2. UNCHANGED <<drv, unmapped, stranded, escaped>> /\ irq' = Unmasked(irq) /\ irq \in IrqStates
  BY DEF Submit, Base, Typed
<1>3. d.cb = HeadCmd.cb /\ (StopCmd(d) <=> StopCmd(HeadCmd)) /\ d.status12 = HeadCmd.status12
      /\ (OfRequest(drv, HeadCmd) <=> OfRequest(drv, d))
  BY <1>1, SameKind
<1>4. WaitersReady' /\ Unique'
  BY <1>1, <1>2, <1>3, QueueHeadChanges DEF ServerInv
<1>5. srv'.pc = "loop" /\ IsProgress(d) /\ ~irq'.masked
  BY <1>1, <1>2, LoopIsServer DEF IsProgress, ProgressStatus, Unmasked, IrqStates
<1> QED
  BY <1>1, <1>2, <1>3, <1>4, <1>5
  DEF ServerInv, AtHead, Newest, InFlush, Armed, SubmittedOrStranded

\* The head, having been retired, leaves the next one ready, or nothing.
LEMMA RetiredServer ==
  ASSUME Base, Base', ServerInv, ~Idle, Retire(Working(q)), UNCHANGED <<drv, escaped>>,
         srv'.pc = "loop", WrapAround(Working(q) + 1) = q.create
  PROVE  ServerInv' /\ Idle' /\ HeadCmd' = InvalidCmd
<1>1. WaitersReady' /\ Unique' /\ Idle'
  BY QueueRetires DEF ServerInv
<1>2. HeadCmd' = InvalidCmd
  BY <1>1 DEF HeadCmd, Idle
<1> QED
  BY <1>1, <1>2, InvalidIsAbandoned
  DEF ServerInv, AtHead, Newest, InFlush, Armed, SubmittedOrStranded

LEMMA SubmitFailsInoutServer ==
  ASSUME Base, Base', ServerInv, SubmitFailsInout
  PROVE  ServerInv'
<1>1. /\ ~Idle /\ srv' = Loop /\ srv'.pc = "loop" /\ srv.pc = "submit"
      /\ srv.ctx = "inout_data" /\ UNCHANGED <<drv, hw, irq>>
  BY NoSlotIsNoSlot, LoopIsServer
  DEF SubmitFailsInout, Base, HeadInv, DeviceInv, ServerHasHead, Idle, hostVars
<1>2. CASE WorkDoneAllowed(q, srv.slot)
  <2>1. srv.slot = Working(q) /\ Retire(Working(q)) /\ UNCHANGED escaped
    BY <1>2 DEF SubmitFailsInout, WorkDoneAllowed
  <2>2. WrapAround(Working(q) + 1) = q.create
    BY <1>1, <2>1 DEF ServerInv, Newest
  <2> QED
    BY <1>1, <2>1, <2>2, RetiredServer
<1>3. CASE ~WorkDoneAllowed(q, srv.slot)
  <2>1. escaped' /\ UNCHANGED <<q, cmds, unmapped, stranded>>
    BY <1>3 DEF SubmitFailsInout
  <2>2. HeadCmd' = HeadCmd /\ WaitersReady' /\ Unique'
    BY <1>1, <2>1, QueueKept, QueueUnchanged DEF ServerInv
  <2>3. Ready(HeadCmd) /\ OfRequest(drv, HeadCmd) /\ ~IsProgress(HeadCmd)
    BY <1>1, ReadyNoProgress DEF ServerInv, AtHead
  <2> QED
    BY <1>1, <2>1, <2>2, <2>3
    DEF ServerInv, AtHead, Newest, InFlush, Armed, SubmittedOrStranded
<1> QED
  BY <1>2, <1>3

LEMMA SubmitFailsIrqServer ==
  ASSUME Base, Base', ServerInv, SubmitFailsIrq
  PROVE  ServerInv'
<1>1. /\ ~Idle /\ srv' = Loop /\ srv'.pc = "loop" /\ srv.pc = "submit"
      /\ UNCHANGED <<drv, q, cmds, escaped>> /\ stranded' = stranded \cup {HeadCmd.cb}
  BY NoSlotIsNoSlot, LoopIsServer, HeadIsTyped
  DEF SubmitFailsIrq, Base, HeadInv, DeviceInv, ServerHasHead, Idle
<1>2. HeadCmd' = HeadCmd /\ WaitersReady' /\ Unique'
  BY <1>1, QueueKept, QueueUnchanged DEF ServerInv
<1>3. Ready(HeadCmd) /\ OfRequest(drv, HeadCmd) /\ ~IsProgress(HeadCmd)
  BY <1>1, ReadyNoProgress DEF ServerInv, AtHead
<1> QED
  BY <1>1, <1>2, <1>3
  DEF ServerInv, AtHead, Newest, InFlush, Armed, SubmittedOrStranded

LEMMA HandleIrqSame ==
  ASSUME NEW c, ~IsProgress(c), NEW h, NEW inTime \in BOOLEAN, NEW r, r = HandleIrq(c, h, inTime)
  PROVE  r.cmd = c /\ r.hw = h
<1>1. HandleIrq(c, h, inTime) = [cmd |-> c, hw |-> h]
  BY DEF HandleIrq, IsProgress, ProgressStatus
<1> QED
  BY <1>1

\* The message of the interrupt finds an idle queue, or a Cmd an exception has
\* left behind, or a command of a request; which goes on, or is answered.
LEMMA IrqView ==
  ASSUME Base, AtHead, HandleIrqMessage,
         NEW r, r = HandleIrq(HeadCmd, hw, TRUE),
         NEW w, w = HandleIrqInout(drv, r.cmd)
  PROVE  /\ UNCHANGED <<drv, q, unmapped, stranded, flushed, escaped, card, moved>>
         /\ srv.pc = "loop" /\ irq.msg /\ ~InFlush
         /\ \/ /\ UNCHANGED <<cmds, answer, hw>> /\ srv' \in {srv, Loop}
               /\ irq' = [irq EXCEPT !.msg = FALSE]
               /\ Idle \/ escaped
               /\ ~IsProgress(HeadCmd) /\ Abandoned(HeadCmd)
            \/ /\ ~Idle /\ Working(q) \in Slots /\ OfRequest(drv, HeadCmd)
               /\ IsCmd(r.cmd) /\ SameCommand(HeadCmd, r.cmd) /\ OfRequest(drv, r.cmd)
               /\ hw' = r.hw
               /\ \/ /\ IsProgress(r.cmd)
                     /\ cmds' = [cmds EXCEPT ![Working(q)] = r.cmd] /\ HeadCmd' = r.cmd
                     /\ irq' = Unmasked([irq EXCEPT !.msg = FALSE])
                     /\ UNCHANGED <<srv, answer>>
                  \/ /\ ~IsProgress(r.cmd) /\ w.reply = "none"
                     /\ cmds' = [cmds EXCEPT ![Working(q)] = w.cmd] /\ HeadCmd' = w.cmd
                     /\ irq' = [irq EXCEPT !.msg = FALSE] /\ UNCHANGED answer
                     /\ Ready(w.cmd) => srv'.pc = "submit" /\ srv'.ctx = "handle_irq"
                  \/ /\ ~IsProgress(r.cmd) /\ w.reply # "none"
                     /\ cmds' = [cmds EXCEPT ![Working(q)] = w.cmd] /\ HeadCmd' = w.cmd
                     /\ irq' = [irq EXCEPT !.msg = FALSE]
                     /\ srv'.pc = "callback"
                     /\ answer' = [answer EXCEPT ![HeadCmd.cb] = w.reply]
<1>1. /\ UNCHANGED <<drv, q, unmapped, stranded, flushed, escaped, card, moved>>
      /\ srv.pc = "loop" /\ irq.msg /\ ~InFlush
  BY DEF HandleIrqMessage, InFlush
<1>2. CASE Idle
  <2>1. HeadCmd = InvalidCmd /\ ~IsProgress(InvalidCmd) /\ Abandoned(InvalidCmd)
    BY <1>2, HeadIsTyped, InvalidIsAbandoned
  <2>2. UNCHANGED <<cmds, srv, answer, hw>> /\ irq' = [irq EXCEPT !.msg = FALSE]
    BY <1>2 DEF HandleIrqMessage, Idle
  <2> QED
    BY <1>1, <1>2, <2>1, <2>2
<1>3. CASE ~Idle
  <2>1. Working(q) \in Slots /\ HeadCmd = cmds[Working(q)] /\ IsCmd(HeadCmd) /\ HwTyped(hw)
        /\ Working(q) # NoSlot
    BY <1>3, BaseIs, HeadIsTyped DEF Idle
  <2>2. IsCmd(r.cmd) /\ SameCommand(HeadCmd, r.cmd)
    BY <2>1, HandleIrqTyped
  <2>3. CASE OfRequest(drv, HeadCmd)
    <3>1. OfRequest(drv, r.cmd) /\ r.cmd.inout /\ r.cmd.cb = HeadCmd.cb
      BY <2>2, <2>3, SameKind DEF OfRequest
    <3>2. CASE IsProgress(r.cmd)
      <4>1. /\ cmds' = [cmds EXCEPT ![Working(q)] = r.cmd] /\ hw' = r.hw
            /\ irq' = Unmasked([irq EXCEPT !.msg = FALSE]) /\ UNCHANGED <<srv, answer>>
        BY <2>1, <3>2 DEF HandleIrqMessage
      <4>2. HeadCmd' = r.cmd
        BY <1>1, <2>1, <4>1, HeadChanges
      <4> QED
        BY <1>1, <1>3, <2>1, <2>2, <2>3, <3>1, <3>2, <4>1, <4>2
    <3>3. CASE ~IsProgress(r.cmd) /\ w.reply = "none"
      <4>1. /\ cmds' = [cmds EXCEPT ![Working(q)] = w.cmd] /\ hw' = r.hw
            /\ irq' = [irq EXCEPT !.msg = FALSE] /\ UNCHANGED answer
            /\ srv' = Kicked(q, cmds', "handle_irq", NoSlot)
        BY <2>1, <3>1, <3>3 DEF HandleIrqMessage
      <4>2. HeadCmd' = w.cmd /\ cmds'[Working(q)] = w.cmd
        BY <1>1, <2>1, <4>1, HeadChanges, BaseIs DEF CmdsTyped
      <4>3. Ready(w.cmd) => srv' = [Loop EXCEPT !.pc = "submit", !.ctx = "handle_irq",
                                                !.slot = NoSlot]
        BY <2>1, <4>1, <4>2 DEF Kicked, KickNeeded, Ready
      <4>4. Ready(w.cmd) => srv'.pc = "submit" /\ srv'.ctx = "handle_irq"
        BY <4>3 DEF Loop
      <4> QED
        BY <1>1, <1>3, <2>1, <2>2, <2>3, <3>1, <3>3, <4>1, <4>2, <4>4
    <3>4. CASE ~IsProgress(r.cmd) /\ w.reply # "none"
      <4>1. /\ cmds' = [cmds EXCEPT ![Working(q)] = w.cmd] /\ hw' = r.hw
            /\ irq' = [irq EXCEPT !.msg = FALSE]
            /\ srv' = [Loop EXCEPT !.pc = "callback"]
            /\ answer' = [answer EXCEPT ![HeadCmd.cb] = w.reply]
        BY <2>1, <3>1, <3>4 DEF HandleIrqMessage
      <4>2. HeadCmd' = w.cmd
        BY <1>1, <2>1, <4>1, HeadChanges
      <4>3. srv'.pc = "callback"
        BY <4>1 DEF Loop
      <4> QED
        BY <1>1, <1>3, <2>1, <2>2, <2>3, <3>1, <3>4, <4>1, <4>2, <4>3
    <3> QED
      BY <3>2, <3>3, <3>4
  <2>4. CASE ~OfRequest(drv, HeadCmd)
    <3>1. Abandoned(HeadCmd) /\ escaped
      BY <1>1, <1>3, <2>4 DEF AtHead
    <3>2. r.cmd = HeadCmd /\ r.hw = hw /\ ~IsProgress(r.cmd) /\ ~r.cmd.inout
      <4>0. ~IsProgress(HeadCmd)
        BY <3>1 DEF Abandoned
      <4>1. r.cmd = HeadCmd /\ r.hw = hw
        BY <4>0 DEF HandleIrq, IsProgress, ProgressStatus
      <4> QED
        BY <3>1, <4>1, Zenon DEF Abandoned
    <3>3. /\ cmds' = [cmds EXCEPT ![Working(q)] = HeadCmd] /\ UNCHANGED <<answer, hw>>
          /\ irq' = [irq EXCEPT !.msg = FALSE]
          /\ srv' = Kicked(q, cmds', "handle_irq", NoSlot)
      BY <2>1, <3>2 DEF HandleIrqMessage
    <3>4. cmds' = cmds
      BY <2>1, <3>3, BaseIs DEF CmdsTyped, Base, HeadInv
    <3>5. srv' = Loop
      BY <2>1, <3>1, <3>3, <3>4 DEF Kicked, KickNeeded, Abandoned, Ready
    <3> QED
      BY <1>1, <3>1, <3>2, <3>3, <3>4, <3>5
  <2> QED
    BY <2>3, <2>4
<1> QED
  BY <1>2, <1>3

LEMMA HandleIrqMessageServer ==
  ASSUME Base, Base', ServerInv, HandleIrqMessage
  PROVE  ServerInv'
<1> DEFINE r == HandleIrq(HeadCmd, hw, TRUE)
           w == HandleIrqInout(drv, r.cmd)
<1>0. AtHead /\ r = HandleIrq(HeadCmd, hw, TRUE) /\ w = HandleIrqInout(drv, r.cmd)
  BY DEF ServerInv
<1> HIDE DEF r, w
<1>1. /\ UNCHANGED <<drv, q, unmapped, stranded, flushed, escaped, card, moved>>
      /\ srv.pc = "loop" /\ ~InFlush
  BY <1>0, IrqView
<1>2. CASE /\ UNCHANGED <<cmds, answer, hw>> /\ srv' \in {srv, Loop}
           /\ Idle \/ escaped
           /\ ~IsProgress(HeadCmd) /\ Abandoned(HeadCmd)
  <2>1. HeadCmd' = HeadCmd /\ WaitersReady' /\ Unique' /\ (Idle' <=> Idle)
    BY <1>1, <1>2, QueueKept, QueueUnchanged DEF ServerInv
  <2>2. srv'.pc = "loop"
    BY <1>1, <1>2, LoopIsServer
  <2> QED
    BY <1>0, <1>1, <1>2, <2>1, <2>2
    DEF ServerInv, AtHead, Newest, InFlush, Armed, SubmittedOrStranded
<1>3. CASE /\ ~Idle /\ OfRequest(drv, HeadCmd)
           /\ SameCommand(HeadCmd, r.cmd) /\ OfRequest(drv, r.cmd) /\ IsProgress(r.cmd)
           /\ cmds' = [cmds EXCEPT ![Working(q)] = r.cmd] /\ HeadCmd' = r.cmd
           /\ irq' = Unmasked([irq EXCEPT !.msg = FALSE])
           /\ UNCHANGED <<srv, answer>>
  <2>1. r.cmd.cb = HeadCmd.cb /\ (StopCmd(r.cmd) <=> StopCmd(HeadCmd))
        /\ r.cmd.status12 = HeadCmd.status12
    BY <1>3, SameKind
  <2>2. WaitersReady' /\ Unique'
    BY <1>1, <1>3, <2>1, QueueHeadChanges DEF ServerInv
  <2>3. ~irq'.masked
    BY <1>3 DEF Unmasked, Base, Typed, IrqStates
  <2> QED
    BY <1>0, <1>1, <1>3, <2>1, <2>2, <2>3
    DEF ServerInv, AtHead, Newest, InFlush, Armed, SubmittedOrStranded
<1>4. CASE /\ ~Idle /\ OfRequest(drv, HeadCmd) /\ IsCmd(r.cmd)
           /\ SameCommand(HeadCmd, r.cmd) /\ OfRequest(drv, r.cmd)
           /\ ~IsProgress(r.cmd) /\ w.reply = "none"
           /\ cmds' = [cmds EXCEPT ![Working(q)] = w.cmd] /\ HeadCmd' = w.cmd
           /\ Ready(w.cmd) => srv'.pc = "submit" /\ srv'.ctx = "handle_irq"
  <2>1. /\ OfRequest(drv, w.cmd) /\ Ready(w.cmd) /\ w.cmd.cb = r.cmd.cb
        /\ \/ StopCmd(w.cmd) /\ w.cmd.status12 = r.cmd.status
           \/ DataCmd(drv, w.cmd)
    BY <1>0, <1>4, BaseIs, HandleIrqInoutMore
  <2>2. w.cmd.cb = HeadCmd.cb
    BY <1>4, <2>1, SameKind
  <2>3. WaitersReady' /\ Unique'
    BY <1>1, <1>4, <2>2, QueueHeadChanges DEF ServerInv
  <2>4. StopCmd(w.cmd) => w.cmd.status12 \notin ProgressStatus
    BY <1>4, <2>1 DEF DataCmd, StopCmd, IsProgress
  <2> QED
    BY <1>1, <1>4, <2>1, <2>3, <2>4
    DEF ServerInv, AtHead, Newest, InFlush, Armed, SubmittedOrStranded
<1>5. CASE /\ ~Idle /\ OfRequest(drv, HeadCmd) /\ IsCmd(r.cmd)
           /\ SameCommand(HeadCmd, r.cmd) /\ OfRequest(drv, r.cmd)
           /\ ~IsProgress(r.cmd) /\ w.reply # "none"
           /\ cmds' = [cmds EXCEPT ![Working(q)] = w.cmd] /\ HeadCmd' = w.cmd
           /\ srv'.pc = "callback"
  <2>0. StopCmd(r.cmd) => r.cmd.status12 \notin ProgressStatus
    <3>1. (StopCmd(r.cmd) <=> StopCmd(HeadCmd)) /\ r.cmd.status12 = HeadCmd.status12
      BY <1>5, SameKind
    <3> QED
      BY <1>0, <1>5, <3>1 DEF AtHead
  <2>1. /\ OfRequest(drv, w.cmd) /\ ~IsProgress(w.cmd) /\ w.cmd.cb = r.cmd.cb
        /\ \/ StopCmd(r.cmd) /\ w.cmd.status12 = r.cmd.status12
           \/ w.cmd = r.cmd
    BY <1>0, <1>5, <2>0, BaseIs, HandleIrqInoutDone
  <2>2. w.cmd.cb = HeadCmd.cb
    BY <1>5, <2>1, SameKind
  <2>3. WaitersReady' /\ Unique'
    BY <1>1, <1>5, <2>2, QueueHeadChanges DEF ServerInv
  <2>4. StopCmd(w.cmd) => w.cmd.status12 \notin ProgressStatus
    BY <2>0, <2>1
  <2> QED
    BY <1>1, <1>5, <2>1, <2>3, <2>4
    DEF ServerInv, AtHead, Newest, InFlush, Armed, SubmittedOrStranded
<1> QED
  BY <1>0, <1>2, <1>3, <1>4, <1>5, IrqView, ZenonT(30)

LEMMA CallbackReturnsServer ==
  ASSUME Base, Base', ServerInv, CallbackReturns
  PROVE  ServerInv'
<1>1. /\ ~Idle /\ Working(q) \in Slots /\ Retire(Working(q))
      /\ srv' = Kicked(q', cmds', "handle_irq", NoSlot) /\ UNCHANGED <<drv, escaped>>
  BY NoSlotIsNoSlot DEF CallbackReturns, Base, HeadInv, DeviceInv, ServerHasHead, Idle
<1>2. /\ WaitersReady' /\ Unique'
      /\ \/ Idle' /\ HeadCmd' = InvalidCmd
         \/ ~Idle' /\ (Fresh(drv, HeadCmd') \/ (escaped /\ Abandoned(HeadCmd')))
  BY <1>1, QueueRetires DEF ServerInv
<1>3. HeadCmd' = IF Working(q') = NoSlot THEN InvalidCmd ELSE cmds'[Working(q')]
  BY DEF HeadCmd
<1>4. CASE Ready(HeadCmd')
  <2>1. srv' = [Loop EXCEPT !.pc = "submit", !.ctx = "handle_irq", !.slot = NoSlot]
    BY <1>1, <1>3, <1>4, InvalidCmdIs DEF Kicked, KickNeeded, Ready
  <2>2. srv'.pc = "submit" /\ srv'.ctx = "handle_irq"
    BY <2>1 DEF Loop
  <2>3. Fresh(drv, HeadCmd')
    BY <1>2, <1>4, InvalidIsAbandoned DEF Abandoned
  <2> QED
    BY <1>1, <1>2, <1>4, <2>2, <2>3
    DEF ServerInv, AtHead, Newest, InFlush, Armed, SubmittedOrStranded, Fresh
<1>5. CASE ~Ready(HeadCmd')
  <2>1. srv' = Loop /\ srv'.pc = "loop"
    BY <1>1, <1>3, <1>5, LoopIsServer DEF Kicked, KickNeeded, Ready
  <2>2. Abandoned(HeadCmd') /\ (Idle' \/ escaped)
    BY <1>2, <1>5, InvalidIsAbandoned DEF Fresh
  <2> QED
    BY <1>1, <1>2, <2>1, <2>2
    DEF ServerInv, AtHead, Newest, InFlush, Armed, SubmittedOrStranded, Abandoned, OfRequest
<1> QED
  BY <1>4, <1>5

\* A line reset that takes too long leaves the head as an error behind.
LEMMA IrqThrowsView ==
  ASSUME Base, AtHead, HandleIrqThrows, NEW r, r = HandleIrq(HeadCmd, hw, FALSE)
  PROVE  /\ UNCHANGED <<drv, q, srv, unmapped, answer, flushed, escaped, card, moved>>
         /\ srv.pc = "loop" /\ irq.msg /\ ~InFlush
         /\ ~Idle /\ Working(q) \in Slots /\ OfRequest(drv, HeadCmd)
         /\ IsCmd(HeadCmd) /\ IsProgress(HeadCmd) /\ IsError(r.cmd) /\ ~IsProgress(r.cmd)
         /\ IsCmd(r.cmd) /\ SameCommand(HeadCmd, r.cmd) /\ OfRequest(drv, r.cmd)
         /\ cmds' = [cmds EXCEPT ![Working(q)] = r.cmd] /\ hw' = r.hw
         /\ HeadCmd' = r.cmd /\ ~Idle' /\ Waiting' = Waiting
         /\ \A t \in Waiting : cmds'[t] = cmds[t]
         /\ stranded' = stranded \cup {HeadCmd.cb} /\ irq' = [irq EXCEPT !.msg = FALSE]
<1>1. /\ UNCHANGED <<drv, q, srv, unmapped, answer, flushed, escaped, card, moved>>
      /\ srv.pc = "loop" /\ irq.msg /\ ~InFlush /\ ~Idle
  BY DEF HandleIrqThrows, InFlush
<1>2. Working(q) \in Slots /\ HeadCmd = cmds[Working(q)] /\ IsCmd(HeadCmd) /\ HwTyped(hw)
  BY <1>1, BaseIs, HeadIsTyped
<1>3. /\ IsProgress(HeadCmd) /\ IsError(r.cmd)
      /\ cmds' = [cmds EXCEPT ![Working(q)] = r.cmd] /\ hw' = r.hw
      /\ stranded' = stranded \cup {HeadCmd.cb} /\ irq' = [irq EXCEPT !.msg = FALSE]
  BY <1>2 DEF HandleIrqThrows
<1>4. IsCmd(r.cmd) /\ SameCommand(HeadCmd, r.cmd)
  BY <1>2, HandleIrqTyped
<1>5. OfRequest(drv, HeadCmd)
  BY <1>1, <1>3 DEF AtHead, Abandoned
<1>6. OfRequest(drv, r.cmd)
  BY <1>4, <1>5, SameKind
<1>7. ~IsProgress(r.cmd)
  BY <1>3 DEF IsError, IsProgress, ErrorStatus, ProgressStatus
<1>8. HeadCmd' = r.cmd /\ ~Idle' /\ Waiting' = Waiting /\ \A t \in Waiting : cmds'[t] = cmds[t]
  BY <1>1, <1>2, <1>3, HeadChanges
<1> QED
  BY <1>1, <1>2, <1>3, <1>4, <1>5, <1>6, <1>7, <1>8

LEMMA HandleIrqThrowsServer ==
  ASSUME Base, Base', ServerInv, HandleIrqThrows
  PROVE  ServerInv'
<1> DEFINE r == HandleIrq(HeadCmd, hw, FALSE)
<1>0. AtHead /\ r = HandleIrq(HeadCmd, hw, FALSE)
  BY DEF ServerInv
<1> HIDE DEF r
<1>1. /\ UNCHANGED <<drv, q, srv, escaped>> /\ srv.pc = "loop" /\ ~InFlush /\ ~Idle
      /\ OfRequest(drv, r.cmd) /\ SameCommand(HeadCmd, r.cmd) /\ ~IsProgress(r.cmd)
      /\ cmds' = [cmds EXCEPT ![Working(q)] = r.cmd] /\ HeadCmd' = r.cmd
      /\ stranded' = stranded \cup {HeadCmd.cb} /\ OfRequest(drv, HeadCmd)
  BY <1>0, IrqThrowsView
<1>2. r.cmd.cb = HeadCmd.cb /\ (StopCmd(r.cmd) <=> StopCmd(HeadCmd))
      /\ r.cmd.status12 = HeadCmd.status12
  BY <1>1, SameKind
<1>3. WaitersReady' /\ Unique'
  BY <1>1, <1>2, QueueHeadChanges DEF ServerInv
<1> QED
  BY <1>0, <1>1, <1>2, <1>3
  DEF ServerInv, AtHead, Newest, InFlush, Armed, SubmittedOrStranded

LEMMA FlushCommands ==
  ASSUME NEW c, IsCmd(c), c.cb = NoReq, NEW command \in {"CMD6", "CMD13"},
         NEW d, d = InitArg(c, command, 0)
  PROVE  IsCmd(d) /\ FlushCmd(d) /\ Ready(d) /\ ~OfRequest(drv, d) /\ d.cb = NoReq
         /\ d.cmd = command
<1>1. command \in MmcCommands
  BY DEF MmcCommands
<1> QED
  BY <1>1, InitArgIs DEF FlushCmd, Ready, OfRequest

\* flush() begins on an idle queue with a CMD6 of its own.
LEMMA FlushView ==
  ASSUME FlushWhen # "any", Base, Flush, HasCache
  PROVE  \E c :
    /\ Idle /\ CanCreate(q) /\ q' = Created(q) /\ cmds' = [cmds EXCEPT ![q.create] = c]
    /\ HeadCmd' = c /\ ~Idle'
    /\ FlushCmd(c) /\ Ready(c) /\ ~OfRequest(drv, c) /\ c.cb = NoReq /\ c.cmd = "CMD6"
    /\ srv'.pc = "flSubmit" /\ srv'.slot = q.create
    /\ UNCHANGED <<drv, unmapped, stranded, answer, escaped, hostVars>> /\ flushed' = "none"
<1> DEFINE c == InitArg(CreatedCmd, "CMD6", 0)
<1>1. /\ Idle /\ CanCreate(q) /\ q' = Created(q) /\ cmds' = [cmds EXCEPT ![q.create] = c]
      /\ srv' = [Loop EXCEPT !.pc = "flSubmit", !.slot = q.create] /\ flushed' = "none"
      /\ UNCHANGED <<drv, unmapped, stranded, answer, escaped, hostVars>>
  BY DEF Flush, Allowed
<1>2. FlushCmd(c) /\ Ready(c) /\ ~OfRequest(drv, c) /\ c.cb = NoReq /\ c.cmd = "CMD6"
  BY InvalidCmdIs, FlushCommands
<1> HIDE DEF c
<1>3. HeadCmd' = c /\ ~Idle'
  BY <1>1, CreateIdle
<1>4. srv'.pc = "flSubmit" /\ srv'.slot = q.create
  BY <1>1 DEF Loop
<1> QED
  BY <1>1, <1>2, <1>3, <1>4

LEMMA FlushServer ==
  ASSUME FlushWhen # "any", Base, Base', ServerInv, Flush
  PROVE  ServerInv'
<1>1. CASE HasCache
  <2>1. PICK c :
          /\ Idle /\ CanCreate(q) /\ q' = Created(q) /\ cmds' = [cmds EXCEPT ![q.create] = c]
          /\ HeadCmd' = c /\ ~Idle'
          /\ FlushCmd(c) /\ Ready(c) /\ ~OfRequest(drv, c) /\ c.cb = NoReq
          /\ srv'.pc = "flSubmit" /\ srv'.slot = q.create
          /\ UNCHANGED <<drv, unmapped, stranded, answer, escaped, hostVars>>
    BY <1>1, FlushView
  <2>2. c.cb \notin InRing
    BY <2>1 DEF InRing
  <2>3. WaitersReady' /\ Unique'
    BY <2>1, <2>2, QueueCreates DEF ServerInv
  <2>4. q.create \in Slots /\ q'.create = WrapAround(q.create + 1)
    BY <2>1, BaseIs, CreateIdle
  <2> QED
    BY <2>1, <2>3, <2>4
    DEF ServerInv, AtHead, Newest, InFlush, Armed, SubmittedOrStranded
<1>2. CASE ~HasCache
  <2>1. UNCHANGED <<q, cmds, srv, drv, unmapped, stranded, answer, escaped, hostVars>>
    BY <1>2 DEF Flush
  <2>2. HeadCmd' = HeadCmd /\ WaitersReady' /\ Unique' /\ (Idle' <=> Idle)
    BY <2>1, QueueKept, QueueUnchanged DEF ServerInv
  <2> QED
    BY <2>1, <2>2
    DEF ServerInv, AtHead, Newest, InFlush, Armed, SubmittedOrStranded, hostVars
<1> QED
  BY <1>1, <1>2

LEMMA FlushIsAtHead ==
  ASSUME Base, ServerInv, InFlush
  PROVE  /\ ~Idle /\ Working(q) \in Slots /\ srv.slot = Working(q)
         /\ HeadCmd = cmds[srv.slot] /\ IsCmd(HeadCmd) /\ FlushCmd(HeadCmd)
         /\ WrapAround(Working(q) + 1) = q.create
<1>1. srv.slot = Working(q) /\ srv.slot \in Slots /\ WrapAround(srv.slot + 1) = q.create
  BY DEF ServerInv, Newest, Base, HeadInv, FlushIsHead, InFlush
<1>2. ~Idle
  BY <1>1, NoSlotIsNoSlot DEF Idle
<1> QED
  BY <1>1, <1>2, HeadIsTyped DEF ServerInv, AtHead

LEMMA FlushSubmitView ==
  ASSUME Base, ServerInv, FlushSubmit, NEW d, d = [HeadCmd EXCEPT !.status = "Progress_cmd"]
  PROVE  /\ ~Idle /\ Working(q) \in Slots /\ q' = q /\ cmds' = [cmds EXCEPT ![Working(q)] = d]
         /\ HeadCmd' = d /\ Waiting' = Waiting /\ ~Idle'
         /\ IsCmd(d) /\ SameCommand(HeadCmd, d) /\ d.status = "Progress_cmd"
         /\ Ready(HeadCmd) /\ FlushCmd(HeadCmd) /\ FlushCmd(d)
         /\ hw' = Submitted(hw, HeadCmd) /\ srv'.pc = "flReceive" /\ srv'.slot = srv.slot
<1>1. /\ ~Idle /\ Working(q) \in Slots /\ srv.slot = Working(q)
      /\ HeadCmd = cmds[srv.slot] /\ IsCmd(HeadCmd) /\ FlushCmd(HeadCmd)
  BY FlushIsAtHead DEF FlushSubmit, InFlush
<1>2. q' = q /\ cmds' = [cmds EXCEPT ![Working(q)] = d] /\ hw' = Submitted(hw, HeadCmd)
      /\ srv' = [srv EXCEPT !.pc = "flReceive"]
  BY <1>1 DEF FlushSubmit
<1>3. HeadCmd' = d /\ Waiting' = Waiting /\ ~Idle'
  BY <1>1, <1>2, HeadChanges
<1>4. IsCmd(d) /\ SameCommand(HeadCmd, d) /\ d.status = "Progress_cmd"
  BY <1>1, NewStatus DEF Status, ProgressStatus
<1>5. Ready(HeadCmd)
  BY DEF ServerInv, AtHead, FlushSubmit
<1>6. FlushCmd(d)
  BY <1>1, <1>4, SameKind
<1>7. srv'.pc = "flReceive" /\ srv'.slot = srv.slot
  BY <1>2, BaseIs DEF Servers
<1> QED
  BY <1>1, <1>2, <1>3, <1>4, <1>5, <1>6, <1>7

LEMMA FlushSubmitServer ==
  ASSUME Base, Base', ServerInv, FlushSubmit
  PROVE  ServerInv'
<1> DEFINE d == [HeadCmd EXCEPT !.status = "Progress_cmd"]
<1>0. d = [HeadCmd EXCEPT !.status = "Progress_cmd"]
  OBVIOUS
<1> HIDE DEF d
<1>1. /\ ~Idle /\ q' = q /\ cmds' = [cmds EXCEPT ![Working(q)] = d] /\ HeadCmd' = d /\ ~Idle'
      /\ SameCommand(HeadCmd, d) /\ d.status = "Progress_cmd" /\ FlushCmd(d)
      /\ srv'.pc = "flReceive" /\ srv'.slot = srv.slot
  BY <1>0, FlushSubmitView
<1>2. UNCHANGED <<drv, unmapped, stranded, escaped>> /\ srv.pc = "flSubmit"
  BY DEF FlushSubmit
<1>3. WaitersReady' /\ Unique'
  BY <1>1, <1>2, QueueHeadChanges, SameKind DEF ServerInv
<1>4. ~OfRequest(drv, d)
  BY <1>1 DEF FlushCmd, OfRequest
<1> QED
  BY <1>1, <1>2, <1>3, <1>4
  DEF ServerInv, AtHead, Newest, InFlush, Armed, SubmittedOrStranded

LEMMA FlushEndsServer ==
  ASSUME Base, Base', ServerInv, InFlush, NEW c, NEW result, FlushEnds(c, result), drv' = drv
  PROVE  ServerInv' /\ Idle' /\ HeadCmd' = InvalidCmd /\ srv'.pc = "loop"
<1>1. ~Idle /\ srv.slot = Working(q) /\ WrapAround(Working(q) + 1) = q.create
  BY FlushIsAtHead
<1>2. srv'.pc = "loop" /\ Retire(Working(q)) /\ UNCHANGED escaped
  BY <1>1, LoopIsServer DEF FlushEnds, WorkDoneAllowed
<1> QED
  BY <1>1, <1>2, RetiredServer

LEMMA FlushReceiveView ==
  ASSUME NEW inTime \in BOOLEAN, Base, ServerInv, FlushReceive(inTime),
         NEW r, r = HandleIrqCmd(HeadCmd, hw, hw.is, inTime)
  PROVE  /\ InFlush /\ ~Idle /\ Working(q) \in Slots /\ srv.slot = Working(q)
         /\ irq.msg /\ HeadCmd.status = "Progress_cmd"
         /\ FlushCmd(HeadCmd) /\ FlushCmd(r.cmd) /\ IsCmd(r.cmd) /\ SameCommand(HeadCmd, r.cmd)
         /\ hw' = r.hw /\ UNCHANGED <<drv, answer, card, moved>>
         /\ \/ /\ IsProgress(r.cmd) /\ q' = q /\ cmds' = [cmds EXCEPT ![Working(q)] = r.cmd]
               /\ HeadCmd' = r.cmd /\ ~Idle'
               /\ irq' = Unmasked([irq EXCEPT !.msg = FALSE])
               /\ UNCHANGED <<srv, unmapped, stranded, flushed, escaped>>
            \/ /\ ~IsProgress(r.cmd) /\ irq' = [irq EXCEPT !.msg = FALSE]
               /\ \/ IsError(r.cmd) /\ FlushEnds(r.cmd, "einval")
                  \/ ~IsError(r.cmd) /\ r.cmd.cmd # "CMD6" /\ FlushEnds(r.cmd, "ok")
                  \/ ~IsError(r.cmd) /\ \E n \in 0 .. MaxPolls - 1 : PollStatus(r.cmd, n)
<1>1. /\ InFlush /\ ~Idle /\ Working(q) \in Slots /\ srv.slot = Working(q)
      /\ HeadCmd = cmds[srv.slot] /\ IsCmd(HeadCmd) /\ FlushCmd(HeadCmd)
  BY FlushIsAtHead DEF FlushReceive, InFlush
<1>2. IsCmd(r.cmd) /\ SameCommand(HeadCmd, r.cmd) /\ FlushCmd(r.cmd)
  <2>1. HwTyped(hw)
    BY BaseIs
  <2>2. IsCmd(r.cmd) /\ SameCommand(HeadCmd, r.cmd)
    BY <1>1, <2>1, HandleIrqCmdTyped
  <2> QED
    BY <1>1, <2>2, SameKind
<1>3. HeadCmd.status = "Progress_cmd" /\ irq.msg
  BY DEF FlushReceive, ServerInv, AtHead
<1>4. /\ hw' = r.hw /\ UNCHANGED <<drv, answer, card, moved>>
      /\ \/ /\ IsProgress(r.cmd) /\ q' = q /\ cmds' = [cmds EXCEPT ![Working(q)] = r.cmd]
            /\ irq' = Unmasked([irq EXCEPT !.msg = FALSE])
            /\ UNCHANGED <<srv, unmapped, stranded, flushed, escaped>>
         \/ /\ ~IsProgress(r.cmd) /\ irq' = [irq EXCEPT !.msg = FALSE]
            /\ FlushFinished(r.cmd, hw.resp)
  BY <1>1 DEF FlushReceive
<1>5. CASE IsProgress(r.cmd)
  <2>1. HeadCmd' = r.cmd /\ ~Idle'
    BY <1>1, <1>4, <1>5, HeadChanges
  <2> QED
    BY <1>1, <1>2, <1>3, <1>4, <1>5, <2>1
<1>6. CASE ~IsProgress(r.cmd)
  <2>1. \/ IsError(r.cmd) /\ FlushEnds(r.cmd, "einval")
        \/ ~IsError(r.cmd) /\ r.cmd.cmd # "CMD6" /\ FlushEnds(r.cmd, "ok")
        \/ ~IsError(r.cmd) /\ \E n \in 0 .. MaxPolls - 1 : PollStatus(r.cmd, n)
    BY <1>4, <1>6, BaseIs, FlushFinishedThen
  <2> QED
    BY <1>1, <1>2, <1>3, <1>4, <1>6, <2>1
<1> QED
  BY <1>5, <1>6

\* The next CMD13 of the flush.
LEMMA PollView ==
  ASSUME Base, ServerInv, InFlush, NEW c, IsCmd(c), FlushCmd(c),
         NEW n \in 0 .. MaxPolls - 1, PollStatus(c, n), NEW d, d = InitArg(c, "CMD13", 0)
  PROVE  /\ q' = q /\ cmds' = [cmds EXCEPT ![Working(q)] = d] /\ HeadCmd' = d /\ ~Idle'
         /\ FlushCmd(d) /\ Ready(d) /\ ~OfRequest(drv, d) /\ d.cb = NoReq /\ d.cmd = "CMD13"
         /\ srv'.pc = "flSubmit" /\ srv'.slot = srv.slot
         /\ UNCHANGED <<unmapped, stranded, flushed, escaped>>
<1>1. Working(q) \in Slots /\ srv.slot = Working(q)
  BY FlushIsAtHead
<1>2. q' = q /\ cmds' = [cmds EXCEPT ![Working(q)] = d]
      /\ srv' = [srv EXCEPT !.pc = "flSubmit", !.polls = n]
      /\ UNCHANGED <<unmapped, stranded, flushed, escaped>>
  BY <1>1 DEF PollStatus
<1>3. HeadCmd' = d /\ ~Idle'
  BY <1>1, <1>2, HeadChanges
<1>4. FlushCmd(d) /\ Ready(d) /\ ~OfRequest(drv, d) /\ d.cb = NoReq /\ d.cmd = "CMD13"
  <2>1. c.cb = NoReq
    BY DEF FlushCmd
  <2> QED
    BY <2>1, FlushCommands
<1>5. srv'.pc = "flSubmit" /\ srv'.slot = srv.slot
  BY <1>2, BaseIs DEF Servers
<1> QED
  BY <1>2, <1>3, <1>4, <1>5

LEMMA FlushReceiveServer ==
  ASSUME NEW inTime \in BOOLEAN, Base, Base', ServerInv, FlushReceive(inTime)
  PROVE  ServerInv'
<1> DEFINE r == HandleIrqCmd(HeadCmd, hw, hw.is, inTime)
<1>0. r = HandleIrqCmd(HeadCmd, hw, hw.is, inTime)
  OBVIOUS
<1> HIDE DEF r
<1>1. /\ InFlush /\ ~Idle /\ Working(q) \in Slots /\ FlushCmd(HeadCmd) /\ FlushCmd(r.cmd)
      /\ IsCmd(r.cmd) /\ SameCommand(HeadCmd, r.cmd) /\ drv' = drv
      /\ HeadCmd.status = "Progress_cmd"
  BY <1>0, FlushReceiveView
<1>2. CASE /\ IsProgress(r.cmd) /\ q' = q /\ cmds' = [cmds EXCEPT ![Working(q)] = r.cmd]
           /\ HeadCmd' = r.cmd /\ ~Idle' /\ UNCHANGED <<srv, unmapped, stranded, flushed, escaped>>
  <2>1. WaitersReady' /\ Unique'
    BY <1>1, <1>2, QueueHeadChanges, SameKind DEF ServerInv
  <2>2. ~OfRequest(drv, r.cmd)
    BY <1>1 DEF FlushCmd, OfRequest
  <2>3. r.cmd.status = "Progress_cmd"
    <3>1. ~HeadCmd.hasData
      BY <1>1 DEF FlushCmd
    <3>2. r.cmd = HeadCmd \/ r.cmd.status \in {"Cmd_timeout", "Cmd_error", "Success"}
      <4>1. \E s \in {"Cmd_timeout", "Cmd_error", "Success"} :
               r.cmd = [HeadCmd EXCEPT !.status = s] \/ r.cmd = HeadCmd
        BY <1>0, <3>1 DEF HandleIrqCmd
      <4> QED
        BY <4>1, HeadIsTyped, CmdFieldsAre DEF IsCmd
    <3> QED
      BY <1>1, <1>2, <3>2 DEF IsProgress, ProgressStatus
  <2>4. srv.pc = "flReceive"
    BY DEF FlushReceive
  <2> QED
    BY <1>1, <1>2, <2>1, <2>2, <2>3, <2>4
    DEF ServerInv, AtHead, Newest, InFlush, Armed, SubmittedOrStranded
<1>3. ASSUME NEW result, FlushEnds(r.cmd, result) PROVE ServerInv'
  BY <1>1, <1>3, FlushEndsServer
<1>4. ASSUME NEW n \in 0 .. MaxPolls - 1, PollStatus(r.cmd, n) PROVE ServerInv'
  <2> DEFINE d == InitArg(r.cmd, "CMD13", 0)
  <2>0. d = InitArg(r.cmd, "CMD13", 0)
    OBVIOUS
  <2> HIDE DEF d
  <2>1. /\ q' = q /\ cmds' = [cmds EXCEPT ![Working(q)] = d] /\ HeadCmd' = d /\ ~Idle'
        /\ FlushCmd(d) /\ Ready(d) /\ ~OfRequest(drv, d) /\ d.cb = NoReq
        /\ srv'.pc = "flSubmit" /\ srv'.slot = srv.slot
        /\ UNCHANGED <<unmapped, stranded, flushed, escaped>>
    BY <1>1, <1>4, <2>0, PollView
  <2>2. d.cb = HeadCmd.cb
    BY <1>1, <2>1 DEF FlushCmd
  <2>3. WaitersReady' /\ Unique'
    BY <1>1, <2>1, <2>2, QueueHeadChanges DEF ServerInv
  <2> QED
    BY <1>1, <2>1, <2>3
    DEF ServerInv, AtHead, Newest, InFlush, Armed, SubmittedOrStranded
<1> QED
  BY <1>0, <1>2, <1>3, <1>4, FlushReceiveView

LEMMA FlushTimeoutServer ==
  ASSUME Base, Base', ServerInv, FlushTimeout
  PROVE  ServerInv'
<1>1. InFlush /\ FlushEnds(cmds[srv.slot], "einval") /\ drv' = drv
  BY DEF FlushTimeout, InFlush
<1> QED
  BY <1>1, FlushEndsServer

LEMMA HostServer ==
  ASSUME Base, Base', ServerInv, Host
  PROVE  ServerInv'
<1>1. UNCHANGED <<drv, q, cmds, srv, unmapped, stranded, escaped>>
  BY DEF Host, deviceVars
<1>2. HeadCmd' = HeadCmd /\ WaitersReady' /\ Unique' /\ (Idle' <=> Idle)
  BY <1>1, QueueKept, QueueUnchanged DEF ServerInv
<1>3. irq' = irq \/ irq' = [masked |-> TRUE, msg |-> TRUE]
  BY DEF Host, HostNext, CommandPhaseEnds, CommandResponds, CommandFails, AutoCommandFails,
         DataPhaseEnds, DataCompletes, DataFails, BusyEnds, LineResetEnds, DeliverIrq
<1>4. Armed'
  BY <1>1, <1>2, <1>3 DEF ServerInv, Armed
<1> QED
  BY <1>1, <1>2, <1>4
  DEF ServerInv, AtHead, Newest, InFlush, SubmittedOrStranded

LEMMA NextKeepsServerInv ==
  ASSUME FlushWhen # "any", Base, Base', ServerInv, [Next]_vars
  PROVE  ServerInv'
<1>1. ASSUME NEW r \in Reqs, NEW read, NEW blocks, InoutData(r, read, blocks)
      PROVE  ServerInv'
  BY <1>1, InoutDataServer
<1>2. ASSUME NEW r \in Reqs, InoutDataOversized(r) PROVE ServerInv'
  BY <1>2, OversizedServer
<1>3. CASE Flush
  BY <1>3, FlushServer
<1>4. CASE Submit
  BY <1>4, SubmitServer
<1>5. CASE SubmitFailsInout
  BY <1>5, SubmitFailsInoutServer
<1>6. CASE SubmitFailsIrq
  BY <1>6, SubmitFailsIrqServer
<1>7. CASE HandleIrqMessage
  BY <1>7, HandleIrqMessageServer
<1>8. CASE CallbackReturns
  BY <1>8, CallbackReturnsServer
<1>9. CASE FlushSubmit
  BY <1>9, FlushSubmitServer
<1>10. ASSUME NEW inTime \in BOOLEAN, FlushReceive(inTime)
      PROVE  ServerInv'
  BY <1>10, FlushReceiveServer
<1>11. CASE FlushTimeout
  BY <1>11, FlushTimeoutServer
<1>12. CASE Host
  BY <1>12, HostServer
<1>13. CASE UNCHANGED vars
  <2>1. UNCHANGED <<drv, q, cmds, srv, unmapped, stranded, escaped, irq>>
    BY <1>13 DEF vars, hostVars
  <2>2. HeadCmd' = HeadCmd /\ WaitersReady' /\ Unique' /\ (Idle' <=> Idle)
    BY <2>1, QueueKept, QueueUnchanged DEF ServerInv
  <2> QED
    BY <2>1, <2>2 DEF ServerInv, AtHead, Newest, InFlush, Armed, SubmittedOrStranded
<1>14. CASE HandleIrqThrows
  BY <1>14, HandleIrqThrowsServer
<1> QED
  BY <1>14, <1>1, <1>2, <1>3, <1>4, <1>5, <1>6, <1>7, <1>8, <1>9, <1>10, <1>11, <1>12, <1>13
  DEF Next, Client, Server

-----------------------------------------------------------------------------
(* A head the server does not submit, although it is ready, has been       *)
(* stranded by an exception in handle_irq().                               *)

SentOrStranded ==
  srv.pc \in {"loop", "callback"} /\ Ready(HeadCmd) => HeadCmd.cb \in stranded

\* CMD12 gives its Cmd the status of the transfer before it.
StopOfStranded ==
  OfRequest(drv, HeadCmd) /\ StopCmd(HeadCmd) /\ HeadCmd.status12 = "Ready_for_submit"
    => HeadCmd.cb \in stranded

\* inout_data() submits its own request, or a stranded head.
SubmitsOwn ==
  srv.pc = "submit" /\ srv.ctx = "inout_data"
    => srv.slot = Working(q) \/ HeadCmd.cb \in stranded

Sent == SentOrStranded /\ StopOfStranded /\ SubmitsOwn

LEMMA InitSent == Init => Sent
<1> SUFFICES ASSUME Init PROVE Sent
  OBVIOUS
<1>1. HeadCmd = InvalidCmd /\ srv.pc = "loop"
  BY DEF Init, EmptyQueue, Working, HeadCmd, Loop
<1>2. ~Ready(InvalidCmd) /\ ~OfRequest(drv, InvalidCmd)
  BY InvalidIsAbandoned DEF Abandoned
<1> QED
  BY <1>1, <1>2 DEF Sent, SentOrStranded, StopOfStranded, SubmitsOwn

\* Where the server is back in its loop and no request is at the head.
LEMMA NothingToSend ==
  ASSUME srv'.pc \in {"loop", "callback", "flSubmit", "flReceive"},
         ~OfRequest(drv', HeadCmd'),
         srv'.pc \in {"loop", "callback"} => ~Ready(HeadCmd')
  PROVE  Sent'
  BY DEF Sent, SentOrStranded, StopOfStranded, SubmitsOwn

LEMMA InoutDataSent ==
  ASSUME Base, Base', ServerInv, Sent, NEW r \in Reqs, NEW read, NEW blocks,
         InoutData(r, read, blocks)
  PROVE  Sent'
<1>1. PICK c :
        /\ IsCmd(c) /\ Fresh(drv, c) /\ CanCreate(q) /\ q' = Created(q)
        /\ \/ Idle /\ HeadCmd' = c
           \/ ~Idle /\ HeadCmd' = HeadCmd
        /\ ~Idle'
        /\ \/ srv.pc = "callback" /\ srv' = srv
           \/ srv.pc = "loop" /\ srv' = Kicked(q', cmds', "inout_data", q.create)
  BY InoutDataView
<1>2. UNCHANGED <<drv, stranded>>
  BY DEF InoutData
<1>3. StopOfStranded'
  BY <1>1, <1>2 DEF Sent, StopOfStranded, Fresh
<1>4. CASE srv.pc = "callback" /\ srv' = srv
  <2>1. ~Idle
    BY <1>4, BaseIs, NoSlotIsNoSlot DEF Base, HeadInv, DeviceInv, ServerHasHead, Idle
  <2> QED
    BY <1>1, <1>2, <1>3, <1>4, <2>1 DEF Sent, SentOrStranded, SubmitsOwn
<1>5. CASE srv.pc = "loop" /\ srv' = Kicked(q', cmds', "inout_data", q.create)
  <2>1. HeadCmd' = IF Working(q') = NoSlot THEN InvalidCmd ELSE cmds'[Working(q')]
    BY DEF HeadCmd
  <2>2. CASE Ready(HeadCmd')
    <3>1. srv' = [Loop EXCEPT !.pc = "submit", !.ctx = "inout_data", !.slot = q.create]
      BY <1>5, <2>1, <2>2, InvalidCmdIs DEF Kicked, KickNeeded, Ready
    <3>2. srv'.pc = "submit" /\ srv'.slot = q.create
      BY <3>1 DEF Loop
    <3>3. Idle => Working(q') = q.create
      BY <1>1, BaseIs, CreatedWorking DEF Idle
    <3>4. ~Idle => HeadCmd'.cb \in stranded
      BY <1>1, <1>5, <2>2 DEF Sent, SentOrStranded
    <3> QED
      BY <1>2, <1>3, <3>2, <3>3, <3>4 DEF Sent, SentOrStranded, SubmitsOwn
  <2>3. CASE ~Ready(HeadCmd')
    <3>1. srv'.pc = "loop"
      BY <1>5, <2>1, <2>3, LoopIsServer DEF Kicked, KickNeeded, Ready
    <3> QED
      BY <1>3, <2>3, <3>1 DEF Sent, SentOrStranded, SubmitsOwn
  <2> QED
    BY <2>2, <2>3
<1> QED
  BY <1>1, <1>4, <1>5

LEMMA OversizedSent ==
  ASSUME Base, Base', ServerInv, Sent, NEW r \in Reqs, InoutDataOversized(r)
  PROVE  Sent'
<1>1. UNCHANGED <<drv, stranded>> /\ srv.pc \in {"loop", "callback"}
  BY DEF InoutDataOversized
<1>2. HeadCmd' = HeadCmd /\ srv' \in {srv, Loop}
  BY OversizedView
<1>3. srv'.pc \in {"loop", "callback"}
  BY <1>1, <1>2, LoopIsServer
<1> QED
  BY <1>1, <1>2, <1>3 DEF Sent, SentOrStranded, StopOfStranded, SubmitsOwn

LEMMA SubmitSent ==
  ASSUME Base, Base', ServerInv, Sent, Submit
  PROVE  Sent'
<1> DEFINE d == [HeadCmd EXCEPT !.status = "Progress_cmd"]
<1>0. d = [HeadCmd EXCEPT !.status = "Progress_cmd"] /\ AtHead
  BY DEF ServerInv
<1> HIDE DEF d
<1>1. HeadCmd' = d /\ SameCommand(HeadCmd, d) /\ d.status = "Progress_cmd" /\ srv' = Loop
  BY <1>0, SubmitView
<1>2. UNCHANGED <<drv, stranded>>
  BY DEF Submit
<1>3. d.cb = HeadCmd.cb /\ (StopCmd(d) <=> StopCmd(HeadCmd)) /\ d.status12 = HeadCmd.status12
      /\ (OfRequest(drv, HeadCmd) <=> OfRequest(drv, d))
  BY <1>1, SameKind
<1>4. ~Ready(d) /\ srv'.pc = "loop"
  BY <1>1, LoopIsServer DEF Ready
<1> QED
  BY <1>1, <1>2, <1>3, <1>4 DEF Sent, SentOrStranded, StopOfStranded, SubmitsOwn

LEMMA SubmitFailsInoutSent ==
  ASSUME Base, Base', ServerInv, Sent, SubmitFailsInout
  PROVE  Sent'
<1>1. /\ ~Idle /\ srv'.pc = "loop" /\ srv.pc = "submit" /\ srv.ctx = "inout_data" /\ drv' = drv
  BY NoSlotIsNoSlot, LoopIsServer
  DEF SubmitFailsInout, Base, HeadInv, DeviceInv, ServerHasHead, Idle
<1>2. CASE WorkDoneAllowed(q, srv.slot)
  <2>1. srv.slot = Working(q) /\ Retire(Working(q)) /\ UNCHANGED escaped
    BY <1>2 DEF SubmitFailsInout, WorkDoneAllowed
  <2>2. WrapAround(Working(q) + 1) = q.create
    BY <1>1, <2>1 DEF ServerInv, Newest
  <2>3. HeadCmd' = InvalidCmd
    BY <1>1, <2>1, <2>2, RetiredServer
  <2>4. ~Ready(InvalidCmd) /\ ~OfRequest(drv, InvalidCmd)
    BY InvalidIsAbandoned DEF Abandoned
  <2> QED
    BY <1>1, <2>3, <2>4, NothingToSend
<1>3. CASE ~WorkDoneAllowed(q, srv.slot)
  <2>1. UNCHANGED <<q, cmds, stranded>>
    BY <1>3 DEF SubmitFailsInout
  <2>2. HeadCmd' = HeadCmd
    BY <2>1, QueueKept
  <2>3. srv.slot # Working(q)
    BY <1>3 DEF WorkDoneAllowed
  <2> QED
    BY <1>1, <2>1, <2>2, <2>3 DEF Sent, SentOrStranded, StopOfStranded, SubmitsOwn
<1> QED
  BY <1>2, <1>3

LEMMA SubmitFailsIrqSent ==
  ASSUME Base, Base', ServerInv, Sent, SubmitFailsIrq
  PROVE  Sent'
<1>1. /\ ~Idle /\ srv'.pc = "loop" /\ UNCHANGED <<drv, q, cmds>>
      /\ stranded' = stranded \cup {HeadCmd.cb}
  BY NoSlotIsNoSlot, LoopIsServer, HeadIsTyped
  DEF SubmitFailsIrq, Base, HeadInv, DeviceInv, ServerHasHead, Idle
<1>2. HeadCmd' = HeadCmd
  BY <1>1, QueueKept
<1> QED
  BY <1>1, <1>2 DEF Sent, SentOrStranded, StopOfStranded, SubmitsOwn

\* An interrupt never makes a command ready.
LEMMA HandleIrqReady ==
  ASSUME NEW c, IsCmd(c), NEW h, HwTyped(h), NEW inTime \in BOOLEAN,
         NEW r, r = HandleIrq(c, h, inTime), Ready(r.cmd)
  PROVE  Ready(c)
<1>1. CASE ~IsProgress(c)
  <2>1. r.cmd = c
    BY <1>1, HandleIrqSame
  <2> QED
    BY <2>1
<1>2. CASE IsProgress(c)
  <2> DEFINE first == IF c.status = "Progress_cmd" THEN HandleIrqCmd(c, h, h.is, inTime)
                                                   ELSE [cmd |-> c, hw |-> h]
  <2>1. r = IF first.cmd.status = "Progress_data"
            THEN HandleIrqData(first.cmd, first.hw, h.is, inTime) ELSE first
    BY DEF HandleIrq
  <2>2. IsCmd(first.cmd) /\ first.cmd.status # "Ready_for_submit"
    <3>1. CASE c.status = "Progress_cmd"
      <4>1. first.cmd = HandleIrqCmd(c, h, h.is, inTime).cmd /\ IsCmd(first.cmd)
        BY <3>1, HandleIrqCmdTyped
      <4>2. \E s \in {"Cmd_timeout", "Cmd_error", "Progress_data", "Success", "Progress_cmd"} :
              HandleIrqCmd(c, h, h.is, inTime).cmd \in {c, [c EXCEPT !.status = s]}
        BY DEF HandleIrqCmd
      <4> HIDE DEF first
      <4> QED
        BY <3>1, <4>1, <4>2, CmdFieldsAre DEF IsCmd
    <3>2. CASE c.status = "Progress_data"
      BY <3>2
    <3> QED
      BY <1>2, <3>1, <3>2 DEF IsProgress, ProgressStatus
  <2> HIDE DEF first
  <2>3. CASE first.cmd.status = "Progress_data"
    <3> DEFINE d == first.cmd
    <3>1. r.cmd = HandleIrqData(d, first.hw, h.is, inTime).cmd /\ IsCmd(d)
          /\ d.status = "Progress_data"
      BY <2>1, <2>2, <2>3
    <3> HIDE DEF d
    <3>2. \E s \in {"Data_error", "Success"} :
            HandleIrqData(d, first.hw, h.is, inTime).cmd \in {d, [d EXCEPT !.status = s]}
      BY DEF HandleIrqData
    <3>3. r.cmd.status \in {"Progress_data", "Data_error", "Success"}
      BY <3>1, <3>2, CmdFieldsAre DEF IsCmd
    <3> QED
      BY <3>3 DEF Ready
  <2>4. CASE first.cmd.status # "Progress_data"
    BY <2>1, <2>2, <2>4 DEF Ready
  <2> QED
    BY <2>3, <2>4
<1> QED
  BY <1>1, <1>2

LEMMA HandleIrqMessageSent ==
  ASSUME Base, Base', ServerInv, Sent, HandleIrqMessage
  PROVE  Sent'
<1> DEFINE r == HandleIrq(HeadCmd, hw, TRUE)
           w == HandleIrqInout(drv, r.cmd)
<1>0. AtHead /\ r = HandleIrq(HeadCmd, hw, TRUE) /\ w = HandleIrqInout(drv, r.cmd)
  BY DEF ServerInv
<1> HIDE DEF r, w
<1>1. UNCHANGED <<drv, q, stranded>> /\ srv.pc = "loop"
  BY <1>0, IrqView
<1>2. CASE /\ UNCHANGED cmds /\ srv' \in {srv, Loop}
           /\ Abandoned(HeadCmd)
  <2>1. HeadCmd' = HeadCmd
    BY <1>1, <1>2, QueueKept
  <2>2. srv'.pc = "loop"
    BY <1>1, <1>2, LoopIsServer
  <2>3. ~Ready(HeadCmd) /\ ~OfRequest(drv, HeadCmd)
    BY <1>2 DEF Abandoned, OfRequest
  <2> QED
    BY <1>1, <2>1, <2>2, <2>3, NothingToSend
<1>3. CASE /\ SameCommand(HeadCmd, r.cmd) /\ IsProgress(r.cmd) /\ HeadCmd' = r.cmd
           /\ UNCHANGED <<srv, answer>>
  <2>1. r.cmd.cb = HeadCmd.cb /\ (StopCmd(r.cmd) <=> StopCmd(HeadCmd))
        /\ r.cmd.status12 = HeadCmd.status12
        /\ (OfRequest(drv, HeadCmd) <=> OfRequest(drv, r.cmd))
    BY <1>3, SameKind
  <2>2. ~Ready(r.cmd)
    BY <1>3 DEF Ready, IsProgress, ProgressStatus
  <2> QED
    BY <1>1, <1>3, <2>1, <2>2 DEF Sent, SentOrStranded, StopOfStranded, SubmitsOwn
<1>4. CASE /\ ~Idle /\ IsCmd(r.cmd)
           /\ SameCommand(HeadCmd, r.cmd) /\ OfRequest(drv, r.cmd) /\ ~IsProgress(r.cmd)
           /\ \/ /\ w.reply = "none" /\ HeadCmd' = w.cmd
                 /\ Ready(w.cmd) => srv'.pc = "submit" /\ srv'.ctx = "handle_irq"
              \/ w.reply # "none" /\ HeadCmd' = w.cmd /\ srv'.pc = "callback"
  <2>1. Ready(r.cmd) => HeadCmd.cb \in stranded
    <3>1. IsCmd(HeadCmd) /\ HwTyped(hw)
      BY <1>4, BaseIs, HeadIsTyped
    <3>2. Ready(r.cmd) => Ready(HeadCmd)
      BY <1>0, <3>1, HandleIrqReady
    <3> QED
      BY <1>1, <3>2 DEF Sent, SentOrStranded
  <2>2. r.cmd.cb = HeadCmd.cb /\ (StopCmd(r.cmd) <=> StopCmd(HeadCmd))
        /\ r.cmd.status12 = HeadCmd.status12
        /\ (OfRequest(drv, HeadCmd) <=> OfRequest(drv, r.cmd))
    BY <1>4, SameKind
  <2>3. CASE w.reply = "none"
    <3>1. /\ Ready(w.cmd) /\ w.cmd.cb = r.cmd.cb
          /\ \/ StopCmd(w.cmd) /\ w.cmd.status12 = r.cmd.status
             \/ DataCmd(drv, w.cmd)
      BY <1>0, <1>4, <2>3, BaseIs, HandleIrqInoutMore
    <3>2. StopCmd(w.cmd) => w.cmd.status12 = r.cmd.status
      BY <3>1 DEF DataCmd, StopCmd
    <3>3. srv'.pc = "submit" /\ srv'.ctx = "handle_irq" /\ HeadCmd' = w.cmd
      BY <1>4, <2>3, <3>1
    <3> QED
      BY <1>1, <2>1, <2>2, <3>1, <3>2, <3>3
      DEF Sent, SentOrStranded, StopOfStranded, SubmitsOwn, Ready
  <2>4. CASE w.reply # "none"
    <3>0. StopCmd(r.cmd) => r.cmd.status12 \notin ProgressStatus
      BY <1>0, <1>4, <2>2 DEF AtHead
    <3>1. /\ w.cmd.cb = r.cmd.cb
          /\ \/ /\ StopCmd(r.cmd) /\ w.cmd.status12 = r.cmd.status12
                /\ w.cmd.status = r.cmd.status12
             \/ w.cmd = r.cmd
      BY <1>0, <1>4, <2>4, <3>0, BaseIs, HandleIrqInoutDone
    <3>2. srv'.pc = "callback" /\ HeadCmd' = w.cmd
      BY <1>4, <2>4
    <3>3. StopCmd(r.cmd) /\ r.cmd.status12 = "Ready_for_submit" => HeadCmd.cb \in stranded
      BY <1>4, <2>2 DEF Sent, StopOfStranded
    <3> QED
      BY <1>1, <1>4, <2>1, <2>2, <3>1, <3>2, <3>3
      DEF Sent, SentOrStranded, StopOfStranded, SubmitsOwn, Ready
  <2> QED
    BY <2>3, <2>4
<1> QED
  BY <1>0, <1>2, <1>3, <1>4, IrqView, ZenonT(30)

LEMMA HandleIrqThrowsSent ==
  ASSUME Base, Base', ServerInv, Sent, HandleIrqThrows
  PROVE  Sent'
<1> DEFINE r == HandleIrq(HeadCmd, hw, FALSE)
<1>0. AtHead /\ r = HandleIrq(HeadCmd, hw, FALSE)
  BY DEF ServerInv
<1> HIDE DEF r
<1>1. /\ UNCHANGED <<drv, srv>> /\ srv.pc = "loop" /\ SameCommand(HeadCmd, r.cmd)
      /\ HeadCmd' = r.cmd /\ stranded' = stranded \cup {HeadCmd.cb}
  BY <1>0, IrqThrowsView
<1>2. r.cmd.cb = HeadCmd.cb
  BY <1>1, SameKind
<1> QED
  BY <1>1, <1>2 DEF Sent, SentOrStranded, StopOfStranded, SubmitsOwn

LEMMA CallbackReturnsSent ==
  ASSUME Base, Base', ServerInv, Sent, CallbackReturns
  PROVE  Sent'
<1>1. /\ ~Idle /\ Working(q) \in Slots /\ Retire(Working(q))
      /\ srv' = Kicked(q', cmds', "handle_irq", NoSlot) /\ UNCHANGED <<drv, escaped>>
  BY NoSlotIsNoSlot DEF CallbackReturns, Base, HeadInv, DeviceInv, ServerHasHead, Idle
<1>2. HeadCmd' = InvalidCmd \/ Fresh(drv, HeadCmd') \/ Abandoned(HeadCmd')
  BY <1>1, QueueRetires DEF ServerInv
<1>3. HeadCmd' = IF Working(q') = NoSlot THEN InvalidCmd ELSE cmds'[Working(q')]
  BY DEF HeadCmd
<1>4. CASE Ready(HeadCmd')
  <2>1. srv' = [Loop EXCEPT !.pc = "submit", !.ctx = "handle_irq", !.slot = NoSlot]
    BY <1>1, <1>3, <1>4, InvalidCmdIs DEF Kicked, KickNeeded, Ready
  <2>2. srv'.pc = "submit" /\ srv'.ctx = "handle_irq"
    BY <2>1 DEF Loop
  <2>3. Fresh(drv, HeadCmd')
    BY <1>2, <1>4, InvalidIsAbandoned DEF Abandoned
  <2> QED
    BY <1>1, <2>2, <2>3 DEF Sent, SentOrStranded, StopOfStranded, SubmitsOwn, Fresh
<1>5. CASE ~Ready(HeadCmd')
  <2>1. srv'.pc = "loop"
    BY <1>1, <1>3, <1>5, LoopIsServer DEF Kicked, KickNeeded, Ready
  <2>2. ~OfRequest(drv, HeadCmd')
    BY <1>2, <1>5, InvalidIsAbandoned DEF Fresh, Abandoned, OfRequest
  <2> QED
    BY <1>1, <1>5, <2>1, <2>2, NothingToSend
<1> QED
  BY <1>4, <1>5

\* While flush() runs, no request is at the head.
LEMMA FlushSent ==
  ASSUME FlushWhen # "any", Base, Base', ServerInv, Sent, Flush
  PROVE  Sent'
<1>1. CASE HasCache
  <2>1. PICK c : HeadCmd' = c /\ ~OfRequest(drv, c) /\ srv'.pc = "flSubmit" /\ drv' = drv
    BY <1>1, FlushView
  <2> QED
    BY <2>1, NothingToSend
<1>2. CASE ~HasCache
  <2>1. UNCHANGED <<q, cmds, srv, drv, stranded>>
    BY <1>2 DEF Flush
  <2>2. HeadCmd' = HeadCmd
    BY <2>1, QueueKept
  <2> QED
    BY <2>1, <2>2 DEF Sent, SentOrStranded, StopOfStranded, SubmitsOwn
<1> QED
  BY <1>1, <1>2

LEMMA FlushSubmitSent ==
  ASSUME Base, Base', ServerInv, FlushSubmit
  PROVE  Sent'
<1> DEFINE d == [HeadCmd EXCEPT !.status = "Progress_cmd"]
<1>0. d = [HeadCmd EXCEPT !.status = "Progress_cmd"]
  OBVIOUS
<1> HIDE DEF d
<1>1. HeadCmd' = d /\ FlushCmd(d) /\ srv'.pc = "flReceive"
  BY <1>0, FlushSubmitView
<1>2. ~OfRequest(drv', d)
  BY <1>1 DEF FlushCmd, OfRequest
<1> QED
  BY <1>1, <1>2, NothingToSend

LEMMA FlushEndsSent ==
  ASSUME Base, Base', ServerInv, InFlush, NEW c, NEW result, FlushEnds(c, result), drv' = drv
  PROVE  Sent'
<1>1. HeadCmd' = InvalidCmd /\ srv'.pc = "loop"
  BY FlushEndsServer
<1>2. ~Ready(InvalidCmd) /\ ~OfRequest(drv', InvalidCmd)
  BY InvalidIsAbandoned DEF Abandoned
<1> QED
  BY <1>1, <1>2, NothingToSend

LEMMA FlushReceiveSent ==
  ASSUME NEW inTime \in BOOLEAN, Base, Base', ServerInv, FlushReceive(inTime)
  PROVE  Sent'
<1> DEFINE r == HandleIrqCmd(HeadCmd, hw, hw.is, inTime)
<1>0. r = HandleIrqCmd(HeadCmd, hw, hw.is, inTime)
  OBVIOUS
<1> HIDE DEF r
<1>1. InFlush /\ FlushCmd(r.cmd) /\ IsCmd(r.cmd) /\ drv' = drv
  BY <1>0, FlushReceiveView
<1>2. CASE HeadCmd' = r.cmd /\ srv' = srv
  <2>1. ~OfRequest(drv, r.cmd) /\ srv'.pc \in {"flSubmit", "flReceive"}
    BY <1>1, <1>2 DEF FlushCmd, OfRequest, InFlush
  <2> QED
    BY <1>1, <1>2, <2>1, NothingToSend
<1>3. ASSUME NEW result, FlushEnds(r.cmd, result) PROVE Sent'
  BY <1>1, <1>3, FlushEndsSent
<1>4. ASSUME NEW n \in 0 .. MaxPolls - 1, PollStatus(r.cmd, n) PROVE Sent'
  <2> DEFINE d == InitArg(r.cmd, "CMD13", 0)
  <2>0. d = InitArg(r.cmd, "CMD13", 0)
    OBVIOUS
  <2> HIDE DEF d
  <2>1. HeadCmd' = d /\ ~OfRequest(drv, d) /\ srv'.pc = "flSubmit"
    BY <1>1, <1>4, <2>0, PollView
  <2> QED
    BY <1>1, <2>1, NothingToSend
<1> QED
  BY <1>0, <1>2, <1>3, <1>4, FlushReceiveView

LEMMA FlushTimeoutSent ==
  ASSUME Base, Base', ServerInv, FlushTimeout
  PROVE  Sent'
<1>1. InFlush /\ FlushEnds(cmds[srv.slot], "einval") /\ drv' = drv
  BY DEF FlushTimeout, InFlush
<1> QED
  BY <1>1, FlushEndsSent

LEMMA NextKeepsSent ==
  ASSUME FlushWhen # "any", Base, Base', ServerInv, Sent, [Next]_vars
  PROVE  Sent'
<1>1. ASSUME NEW r \in Reqs, NEW read, NEW blocks, InoutData(r, read, blocks)
      PROVE  Sent'
  BY <1>1, InoutDataSent
<1>2. ASSUME NEW r \in Reqs, InoutDataOversized(r) PROVE Sent'
  BY <1>2, OversizedSent
<1>3. CASE Flush
  BY <1>3, FlushSent
<1>4. CASE Submit
  BY <1>4, SubmitSent
<1>5. CASE SubmitFailsInout
  BY <1>5, SubmitFailsInoutSent
<1>6. CASE SubmitFailsIrq
  BY <1>6, SubmitFailsIrqSent
<1>7. CASE HandleIrqMessage
  BY <1>7, HandleIrqMessageSent
<1>8. CASE HandleIrqThrows
  BY <1>8, HandleIrqThrowsSent
<1>9. CASE CallbackReturns
  BY <1>9, CallbackReturnsSent
<1>10. CASE FlushSubmit
  BY <1>10, FlushSubmitSent
<1>11. ASSUME NEW inTime \in BOOLEAN, FlushReceive(inTime)
       PROVE  Sent'
  BY <1>11, FlushReceiveSent
<1>12. CASE FlushTimeout
  BY <1>12, FlushTimeoutSent
<1>13. CASE UNCHANGED <<drv, q, cmds, srv, stranded>>
  <2>1. HeadCmd' = HeadCmd
    BY <1>13, QueueKept
  <2> QED
    BY <1>13, <2>1 DEF Sent, SentOrStranded, StopOfStranded, SubmitsOwn
<1> QED
  BY <1>1, <1>2, <1>3, <1>4, <1>5, <1>6, <1>7, <1>8, <1>9, <1>10, <1>11, <1>12, <1>13
  DEF Next, Client, Server, Host, deviceVars, vars

LEMMA InterruptIsArmed ==
  Base /\ ServerInv => InterruptArmed
  BY HeadIsTyped DEF ServerInv, Armed, InterruptArmed

LEMMA SentGives ==
  Base /\ ServerInv /\ Sent => HeadIsSubmitted
<1> SUFFICES ASSUME Base, ServerInv, Sent PROVE HeadIsSubmitted
  OBVIOUS
<1>1. ~Idle => HeadCmd = cmds[Working(q)]
  BY HeadIsTyped
<1>2. KickNeeded(q, cmds) => ~Idle /\ Ready(cmds[Working(q)])
  BY DEF KickNeeded, Idle, Ready
<1>3. srv.pc = "callback" =>
        ~KickNeeded(q, cmds) \/ cmds[Working(q)].cb \in stranded
  BY <1>1, <1>2 DEF Sent, SentOrStranded
<1>4. srv.pc = "loop" /\ ~Idle /\ ~escaped =>
        IsProgress(cmds[Working(q)]) \/ cmds[Working(q)].cb \in stranded
  BY <1>1 DEF ServerInv, SubmittedOrStranded
<1> QED
  BY <1>3, <1>4 DEF HeadIsSubmitted

LEMMA InitBase == Init => Base /\ ServerInv
  BY InitHeadInv, InitTyped, InitServerInv DEF Base

LEMMA NextKeepsBase ==
  ASSUME FlushWhen # "any", Base, [Next]_vars
  PROVE  Base'
<1>1. HeadInv' /\ DeviceInv /\ Typed
  BY NextKeepsHeadInv, BaseIs DEF Base
<1> QED
  BY <1>1, NextKeepsTyped DEF Base

LEMMA ServerInvariant ==
  ASSUME FlushWhen # "any"
  PROVE  Spec => [](Base /\ ServerInv /\ Sent)
<1>1. Init => Base /\ ServerInv /\ Sent
  BY InitBase, InitSent
<1>2. (Base /\ ServerInv /\ Sent) /\ [Next]_vars => (Base /\ ServerInv /\ Sent)'
  BY NextKeepsBase, NextKeepsServerInv, NextKeepsSent
<1> QED
  BY <1>1, <1>2, PTL DEF Spec

\* No accepted request is left behind: whenever the server is back in its loop
\* and the queue is not empty, its head is at the controller, for any number
\* of entries and requests; or the head is one that handle_irq() has stranded:
\* with an exception of its submission, or of the reset of a line that takes
\* too long after an error (HandleIrqThrows).  And a request issued from a
\* callback finds no head that its kick would submit, but for a stranded one.
\* (The head is found ready or finished by every other path into the loop, which
\* therefore kicks it: ServerInv and Sent.)
THEOREM HeadAlwaysSubmitted ==
  ASSUME FlushWhen # "any"
  PROVE  Spec => []HeadIsSubmitted
<1>1. Spec => [](Base /\ ServerInv /\ Sent)
  BY ServerInvariant
<1>2. Base /\ ServerInv /\ Sent => HeadIsSubmitted
  BY SentGives
<1> QED
  BY <1>1, <1>2, PTL

\* No interrupt is lost: a server that waits for the end of a command has the
\* interrupt unmasked, or its message waits already.
THEOREM InterruptAlwaysArmed ==
  ASSUME FlushWhen # "any"
  PROVE  Spec => []InterruptArmed
<1>1. Spec => [](Base /\ ServerInv /\ Sent)
  BY ServerInvariant
<1>2. Base /\ ServerInv /\ Sent => InterruptArmed
  BY InterruptIsArmed
<1> QED
  BY <1>1, <1>2, PTL

-----------------------------------------------------------------------------
(* The controller and the head: which interrupt status each phase of the   *)
(* head's command has, and whether its data has been moved.                *)

CmdErrors == {"ctoe", "cerr", "ac12e"}

\* The command is being sent.  ("tc" is the end of an earlier busy phase.)
Sending(c, h, m) ==
  /\ c.status = "Progress_cmd"
  /\ h.cmd = c.cmd /\ h.req = c.cb
  /\ (h.hasData <=> c.hasData) /\ (h.auto23 <=> c.auto23)
  /\ h.is \subseteq {"tc"}
  /\ c.hasData => h.is = {} /\ h.dat = "idle" /\ c.cb \notin m

\* A command without data has come to its end.
Answered(c, h) ==
  /\ c.status = "Progress_cmd"
  /\ h.is \cap {"cc", "ctoe", "cerr"} # {} /\ h.is \cap {"ac12e", "derr"} = {}

\* A command with data has failed, or its data moves, has moved or has failed.
Moving(c, h, m) ==
  \/ /\ h.is \cap CmdErrors # {} /\ ("ac12e" \in h.is => c.auto23)
     /\ c.status = "Progress_cmd" /\ h.dat = "idle" /\ c.cb \notin m
  \/ /\ h.is \cap CmdErrors = {}
     /\ c.status = "Progress_cmd" => "cc" \in h.is
     /\ \/ /\ h.dat = "data" /\ h.datReq = c.cb /\ h.is \cap {"tc", "derr"} = {}
           /\ c.cb \notin m
        \/ h.dat = "idle" /\ "tc" \in h.is /\ "derr" \notin h.is /\ c.cb \in m
        \/ h.dat = "stuck" /\ "derr" \in h.is /\ "tc" \notin h.is /\ c.cb \notin m

Working1(c, h, m) ==
  /\ h.signal = SignalEnable(c)
  /\ h.cmd # "none" \/ h.is \cap CmdErrors # {} => h.cihb
  /\ h.cmd # "none" => Sending(c, h, m)
  /\ h.cmd = "none" /\ ~c.hasData => Answered(c, h)
  /\ h.cmd = "none" /\ c.hasData => Moving(c, h, m)

\* A flush() that gave up may have left its command with the controller.
LeftOver(h) == h.cmd \in {"none", "CMD6", "CMD13"} /\ ~h.hasData /\ ~h.auto23

Phase(c, h, m) ==
  /\ IsProgress(c) => Working1(c, h, m)
  /\ ~IsProgress(c) => LeftOver(h)
  /\ h.cmd = "none" => ~h.hasData /\ ~h.auto23
  /\ h.dat = "data" => IsProgress(c) /\ c.hasData /\ h.cmd = "none"

\* What a Cmd sends: a command of a request or one of flush().
Sendable(k, c) == OfRequest(k, c) \/ FlushCmd(c)

LEMMA SendableIs ==
  ASSUME NEW k, NEW c, Sendable(k, c)
  PROVE  /\ c.cmd # "none" /\ (c.auto23 => c.hasData)
         /\ c.hasData => c.cmd \notin StopTransmission
  BY DEF Sendable, OfRequest, FlushCmd, DataCmd, CountCmd, StopCmd, MultipleBlock,
         StopTransmission

LEMMA PhaseIdle ==
  ASSUME NEW c, NEW h, NEW m, Phase(c, h, m), ~IsProgress(c),
         NEW d, ~IsProgress(d), NEW n
  PROVE  Phase(d, h, n)
  BY DEF Phase

LEMMA PhaseSubmitted ==
  ASSUME NEW k, NEW c, NEW h, NEW m, HwTyped(h), Sendable(k, c),
         Phase(c, h, m), ~IsProgress(c), Available(h, c), c.hasData => c.cb \notin m,
         NEW d, SameCommand(c, d), d.status = "Progress_cmd",
         NEW g, g = Submitted(h, c)
  PROVE  Phase(d, g, m)
<1>1. /\ g.cmd = c.cmd /\ g.req = c.cb /\ (g.hasData <=> c.hasData) /\ (g.auto23 <=> c.auto23)
      /\ g.is = {} /\ g.signal = SignalEnable(c) /\ g.dat = h.dat /\ g.cihb
  BY DEF Submitted, HwTyped, HwFields
<1>2. SignalEnable(d) = SignalEnable(c)
  <2>1. (d.hasData <=> c.hasData) /\ (d.auto23 <=> c.auto23)
    BY DEF SameCommand
  <2> QED
    BY <2>1 DEF SignalEnable
<1>3. c.cmd # "none" /\ (c.hasData => h.dat = "idle") /\ h.dat # "data"
  BY SendableIs DEF Available, Phase
<1>4. Sending(d, g, m)
  BY <1>1, <1>3 DEF Sending, SameCommand
<1>5. IsProgress(d)
  BY DEF IsProgress, ProgressStatus
<1> QED
  BY <1>1, <1>2, <1>3, <1>4, <1>5 DEF Phase, Working1

\* The controller changes nothing but the status bits and the lines.
Acked(h, ack) == [h EXCEPT !.is = @ \ ack]

\* The driver has not waited for the reset.
ResetLate(h, line) == [h EXCEPT !.resets = @ \cup {line}]

LEMMA AckedIs ==
  ASSUME NEW h, HwTyped(h), NEW ack, NEW e, e = Acked(h, ack)
  PROVE  /\ HwTyped(e) /\ e.cmd = h.cmd /\ (e.hasData <=> h.hasData)
         /\ (e.auto23 <=> h.auto23) /\ e.datReq = h.datReq /\ e.req = h.req
         /\ e.signal = h.signal /\ e.dat = h.dat /\ e.is = h.is \ ack
         /\ e.resets = h.resets /\ (e.cihb <=> h.cihb)
  BY DEF HwTyped, HwFields, Acked

LEMMA ResetLateHw ==
  ASSUME NEW h, HwTyped(h), NEW line, NEW g, g = ResetLate(h, line)
  PROVE  /\ g.cmd = h.cmd /\ (g.hasData <=> h.hasData) /\ (g.auto23 <=> h.auto23)
         /\ g.datReq = h.datReq /\ g.req = h.req /\ g.signal = h.signal
         /\ g.is = h.is /\ g.dat = h.dat
         /\ g.resets = h.resets \cup {line} /\ (g.cihb <=> h.cihb)
  BY DEF ResetLate, HwTyped, HwFields

LEMMA LineResetHw ==
  ASSUME NEW h, HwTyped(h), NEW line \in Lines, NEW g, g = LineReset(h, line)
  PROVE  /\ g.cmd = h.cmd /\ (g.hasData <=> h.hasData) /\ (g.auto23 <=> h.auto23)
         /\ g.datReq = h.datReq /\ g.req = h.req /\ g.signal = h.signal
         /\ g.is \subseteq h.is /\ g.resets = h.resets
         /\ g.dat = IF line = "dat" THEN "idle" ELSE h.dat
<1>1. CASE line = "cmd"
  BY <1>1 DEF LineReset, HwTyped, HwFields
<1>2. CASE line = "dat"
  BY <1>2 DEF LineReset, HwTyped, HwFields
<1> QED
  BY <1>1, <1>2 DEF Lines

\* After an error: its status acknowledged, the line reset or not.
Recovered(h, ack, line) == LineReset(Acked(h, ack), line)
NotRecovered(h, ack, line) == ResetLate(Acked(h, ack), line)

\* What the end of an error path leaves of the controller.
SameButReset(h, g, ack) ==
  /\ g.cmd = h.cmd /\ (g.hasData <=> h.hasData) /\ (g.auto23 <=> h.auto23)
  /\ g.datReq = h.datReq /\ g.req = h.req /\ g.signal = h.signal
  /\ g.is \subseteq h.is \ ack

LEMMA RecoveredHw ==
  ASSUME NEW h, HwTyped(h), NEW ack, NEW line \in Lines, NEW g, g = Recovered(h, ack, line)
  PROVE  /\ SameButReset(h, g, ack) /\ g.resets = h.resets
         /\ line = "cmd" => g.dat = h.dat
         /\ line = "dat" => g.dat = "idle"
<1> DEFINE e == Acked(h, ack)
<1>1. /\ HwTyped(e) /\ e.cmd = h.cmd /\ (e.hasData <=> h.hasData)
      /\ (e.auto23 <=> h.auto23) /\ e.datReq = h.datReq /\ e.req = h.req
      /\ e.signal = h.signal /\ e.dat = h.dat /\ e.is = h.is \ ack
      /\ e.resets = h.resets
  BY AckedIs
<1>2. g = LineReset(e, line)
  BY DEF Recovered
<1> HIDE DEF e
<1>3. /\ g.cmd = e.cmd /\ (g.hasData <=> e.hasData) /\ (g.auto23 <=> e.auto23)
      /\ g.datReq = e.datReq /\ g.req = e.req /\ g.signal = e.signal
      /\ g.is \subseteq e.is /\ g.resets = e.resets
      /\ g.dat = IF line = "dat" THEN "idle" ELSE e.dat
  BY <1>1, <1>2, LineResetHw
<1> QED
  BY <1>1, <1>3 DEF SameButReset

LEMMA CmdRecoveredHw ==
  ASSUME NEW h, HwTyped(h), NEW ack, NEW g, g = Recovered(h, ack, "cmd")
  PROVE  SameButReset(h, g, ack) /\ g.resets = h.resets /\ g.dat = h.dat
<1> DEFINE line == "cmd"
<1>1. line \in Lines /\ line = "cmd" /\ g = Recovered(h, ack, line)
  BY DEF Lines
<1> HIDE DEF line
<1> QED
  BY <1>1, RecoveredHw

LEMMA DatRecoveredHw ==
  ASSUME NEW h, HwTyped(h), NEW ack, NEW g, g = Recovered(h, ack, "dat")
  PROVE  SameButReset(h, g, ack) /\ g.resets = h.resets /\ g.dat = "idle"
<1> DEFINE line == "dat"
<1>1. line \in Lines /\ line = "dat" /\ g = Recovered(h, ack, line)
  BY DEF Lines
<1> HIDE DEF line
<1> QED
  BY <1>1, RecoveredHw

LEMMA NotRecoveredHw ==
  ASSUME NEW h, HwTyped(h), NEW ack, NEW line, NEW g, g = NotRecovered(h, ack, line)
  PROVE  /\ SameButReset(h, g, ack) /\ g.resets = h.resets \cup {line}
         /\ g.dat = h.dat /\ (g.cihb <=> h.cihb)
<1> DEFINE e == Acked(h, ack)
<1>1. /\ HwTyped(e) /\ e.cmd = h.cmd /\ (e.hasData <=> h.hasData)
      /\ (e.auto23 <=> h.auto23) /\ e.datReq = h.datReq /\ e.req = h.req
      /\ e.signal = h.signal /\ e.dat = h.dat /\ e.is = h.is \ ack
      /\ e.resets = h.resets /\ (e.cihb <=> h.cihb)
  BY AckedIs
<1>2. g = ResetLate(e, line)
  BY DEF NotRecovered
<1> HIDE DEF e
<1>3. /\ g.cmd = e.cmd /\ (g.hasData <=> e.hasData) /\ (g.auto23 <=> e.auto23)
      /\ g.datReq = e.datReq /\ g.req = e.req /\ g.signal = e.signal
      /\ g.is = e.is /\ g.dat = e.dat
      /\ g.resets = e.resets \cup {line} /\ (g.cihb <=> e.cihb)
  BY <1>1, <1>2, ResetLateHw
<1> QED
  BY <1>1, <1>3 DEF SameButReset

LEMMA HandleIrqCmdHw ==
  ASSUME NEW c, IsCmd(c), NEW h, HwTyped(h), NEW inTime \in BOOLEAN,
         NEW r, r = HandleIrqCmd(c, h, h.is, inTime)
  PROVE  /\ r.hw.cmd = h.cmd /\ (r.hw.hasData <=> h.hasData) /\ (r.hw.auto23 <=> h.auto23)
         /\ r.hw.dat = h.dat /\ r.hw.datReq = h.datReq /\ r.hw.req = h.req
         /\ r.hw.signal = h.signal
         /\ r.cmd.status = IF "ctoe" \in h.is THEN "Cmd_timeout"
                           ELSE IF "cerr" \in h.is \/ "ac12e" \in h.is THEN "Cmd_error"
                           ELSE IF "cc" \in h.is
                             THEN IF c.hasData THEN "Progress_data" ELSE "Success"
                           ELSE c.status
         /\ h.is \cap {"ctoe", "cerr", "ac12e"} = {} => r.hw.is = h.is \ {"cc"}
         /\ h.is \cap {"ctoe", "cerr", "ac12e"} = {} \/ inTime => r.hw.resets = h.resets
         /\ r.hw.resets \subseteq h.resets \cup {"cmd"}
         /\ h.is \cap {"ctoe", "cerr", "ac12e"} = {} \/ ~inTime => (r.hw.cihb <=> h.cihb)
         /\ h.is \cap {"ctoe", "cerr", "ac12e", "cc"} = {} => r.cmd = c /\ r.hw = h
<1>1. CASE "ctoe" \in h.is
  <2> DEFINE ack == {"ctoe", "cc"}
  <2>1. /\ inTime => r.hw = Recovered(h, ack, "cmd")
        /\ ~inTime => r.hw = NotRecovered(h, ack, "cmd")
    BY <1>1 DEF HandleIrqCmd, ResetLine, Recovered, NotRecovered, ResetLate, Acked
  <2>2. r.cmd = [c EXCEPT !.status = "Cmd_timeout"]
    BY <1>1 DEF HandleIrqCmd
  <2> HIDE DEF ack
  <2>3. r.cmd.status = "Cmd_timeout"
    BY <2>2, CmdFieldsAre DEF IsCmd
  <2>4. inTime => SameButReset(h, r.hw, ack) /\ r.hw.resets = h.resets /\ r.hw.dat = h.dat
    <3> SUFFICES ASSUME inTime
                 PROVE  SameButReset(h, r.hw, ack) /\ r.hw.resets = h.resets /\ r.hw.dat = h.dat
      OBVIOUS
    <3> DEFINE g == r.hw
    <3>1. g = Recovered(h, ack, "cmd")
      BY <2>1
    <3> HIDE DEF g
    <3>2. SameButReset(h, g, ack) /\ g.resets = h.resets /\ g.dat = h.dat
      BY <3>1, CmdRecoveredHw
    <3> QED
      BY <3>2 DEF g
  <2>5. ~inTime => /\ SameButReset(h, r.hw, ack) /\ r.hw.resets = h.resets \cup {"cmd"}
                   /\ r.hw.dat = h.dat /\ (r.hw.cihb <=> h.cihb)
    BY <2>1, NotRecoveredHw
  <2> QED
    BY <1>1, <2>3, <2>4, <2>5 DEF SameButReset
<1>2. CASE "ctoe" \notin h.is /\ "cerr" \in h.is
  <2> DEFINE ack == {"cerr"}
  <2>1. /\ inTime => r.hw = Recovered(h, ack, "cmd")
        /\ ~inTime => r.hw = NotRecovered(h, ack, "cmd")
    BY <1>2 DEF HandleIrqCmd, ResetLine, Recovered, NotRecovered, ResetLate, Acked
  <2>2. r.cmd = [c EXCEPT !.status = "Cmd_error"]
    BY <1>2 DEF HandleIrqCmd
  <2> HIDE DEF ack
  <2>3. r.cmd.status = "Cmd_error"
    BY <2>2, CmdFieldsAre DEF IsCmd
  <2>4. inTime => SameButReset(h, r.hw, ack) /\ r.hw.resets = h.resets /\ r.hw.dat = h.dat
    <3> SUFFICES ASSUME inTime
                 PROVE  SameButReset(h, r.hw, ack) /\ r.hw.resets = h.resets /\ r.hw.dat = h.dat
      OBVIOUS
    <3> DEFINE g == r.hw
    <3>1. g = Recovered(h, ack, "cmd")
      BY <2>1
    <3> HIDE DEF g
    <3>2. SameButReset(h, g, ack) /\ g.resets = h.resets /\ g.dat = h.dat
      BY <3>1, CmdRecoveredHw
    <3> QED
      BY <3>2 DEF g
  <2>5. ~inTime => /\ SameButReset(h, r.hw, ack) /\ r.hw.resets = h.resets \cup {"cmd"}
                   /\ r.hw.dat = h.dat /\ (r.hw.cihb <=> h.cihb)
    BY <2>1, NotRecoveredHw
  <2> QED
    BY <1>2, <2>3, <2>4, <2>5 DEF SameButReset
<1>3. CASE "ctoe" \notin h.is /\ "cerr" \notin h.is /\ "ac12e" \in h.is
  <2> DEFINE ack == {}
  <2>1. /\ inTime => r.hw = Recovered(h, ack, "cmd")
        /\ ~inTime => r.hw = NotRecovered(h, ack, "cmd")
    BY <1>3 DEF HandleIrqCmd, ResetLine, Recovered, NotRecovered, ResetLate, Acked
  <2>2. r.cmd = [c EXCEPT !.status = "Cmd_error"]
    BY <1>3 DEF HandleIrqCmd
  <2> HIDE DEF ack
  <2>3. r.cmd.status = "Cmd_error"
    BY <2>2, CmdFieldsAre DEF IsCmd
  <2>4. inTime => SameButReset(h, r.hw, ack) /\ r.hw.resets = h.resets /\ r.hw.dat = h.dat
    <3> SUFFICES ASSUME inTime
                 PROVE  SameButReset(h, r.hw, ack) /\ r.hw.resets = h.resets /\ r.hw.dat = h.dat
      OBVIOUS
    <3> DEFINE g == r.hw
    <3>1. g = Recovered(h, ack, "cmd")
      BY <2>1
    <3> HIDE DEF g
    <3>2. SameButReset(h, g, ack) /\ g.resets = h.resets /\ g.dat = h.dat
      BY <3>1, CmdRecoveredHw
    <3> QED
      BY <3>2 DEF g
  <2>5. ~inTime => /\ SameButReset(h, r.hw, ack) /\ r.hw.resets = h.resets \cup {"cmd"}
                   /\ r.hw.dat = h.dat /\ (r.hw.cihb <=> h.cihb)
    BY <2>1, NotRecoveredHw
  <2> QED
    BY <1>3, <2>3, <2>4, <2>5 DEF SameButReset
<1>4. CASE h.is \cap {"ctoe", "cerr", "ac12e"} = {} /\ "cc" \in h.is
  <2> DEFINE status == IF c.hasData THEN "Progress_data" ELSE "Success"
  <2>1. r.hw = [h EXCEPT !.is = @ \ {"cc"}] /\ r.cmd = [c EXCEPT !.status = status]
    BY <1>4 DEF HandleIrqCmd
  <2>2. r.cmd.status = status
    BY <2>1, CmdFieldsAre DEF IsCmd
  <2>3. /\ r.hw.cmd = h.cmd /\ (r.hw.hasData <=> h.hasData) /\ (r.hw.auto23 <=> h.auto23)
        /\ r.hw.dat = h.dat /\ r.hw.datReq = h.datReq /\ r.hw.req = h.req
        /\ r.hw.signal = h.signal /\ r.hw.is = h.is \ {"cc"} /\ r.hw.resets = h.resets
        /\ (r.hw.cihb <=> h.cihb)
    BY <2>1 DEF HwTyped, HwFields
  <2> QED
    BY <1>4, <2>2, <2>3
<1>5. CASE h.is \cap {"ctoe", "cerr", "ac12e", "cc"} = {}
  <2>1. r.hw = h /\ r.cmd = c
    BY <1>5 DEF HandleIrqCmd
  <2>2. h.is \ {"cc"} = h.is
    BY <1>5
  <2> QED
    BY <1>5, <2>1, <2>2
<1> QED
  BY <1>1, <1>2, <1>3, <1>4, <1>5

LEMMA HandleIrqDataHw ==
  ASSUME NEW c, IsCmd(c), NEW h, HwTyped(h), NEW is, NEW inTime \in BOOLEAN,
         NEW r, r = HandleIrqData(c, h, is, inTime)
  PROVE  /\ r.hw.cmd = h.cmd /\ (r.hw.hasData <=> h.hasData) /\ (r.hw.auto23 <=> h.auto23)
         /\ r.hw.signal = h.signal
         /\ "derr" \in is =>
              /\ r.cmd.status = "Data_error"
              /\ r.hw.dat = IF inTime THEN "idle" ELSE h.dat
              /\ r.hw.is \subseteq h.is \ {"derr"}
         /\ "derr" \notin is => r.hw.dat = h.dat
         /\ "derr" \notin is \/ inTime => r.hw.resets = h.resets
         /\ r.hw.resets \subseteq h.resets \cup {"dat"}
         /\ "derr" \notin is /\ "tc" \in is => r.cmd.status = "Success"
         /\ is \cap {"derr", "tc"} = {} => r.cmd = c /\ r.hw = h
<1>1. CASE "derr" \in is
  <2> DEFINE ack == {"derr"}
  <2>1. /\ inTime => r.hw = Recovered(h, ack, "dat")
        /\ ~inTime => r.hw = NotRecovered(h, ack, "dat")
    BY <1>1 DEF HandleIrqData, ResetLine, Recovered, NotRecovered, ResetLate, Acked
  <2>2. r.cmd = [c EXCEPT !.status = "Data_error"]
    BY <1>1 DEF HandleIrqData
  <2> HIDE DEF ack
  <2>3. r.cmd.status = "Data_error"
    BY <2>2, CmdFieldsAre DEF IsCmd
  <2>4. inTime => SameButReset(h, r.hw, ack) /\ r.hw.resets = h.resets /\ r.hw.dat = "idle"
    BY <2>1, DatRecoveredHw
  <2>5. ~inTime => /\ SameButReset(h, r.hw, ack) /\ r.hw.resets = h.resets \cup {"dat"}
                   /\ r.hw.dat = h.dat
    BY <2>1, NotRecoveredHw
  <2> QED
    BY <1>1, <2>3, <2>4, <2>5 DEF SameButReset, ack
<1>2. CASE "derr" \notin is /\ "tc" \in is
  <2>1. r.hw = [h EXCEPT !.is = @ \ {"tc"}] /\ r.cmd = [c EXCEPT !.status = "Success"]
    BY <1>2 DEF HandleIrqData
  <2> QED
    BY <1>2, <2>1, CmdFieldsAre DEF HwTyped, HwFields, IsCmd
<1>3. CASE is \cap {"derr", "tc"} = {}
  <2>1. r.hw = h /\ r.cmd = c
    BY <1>3 DEF HandleIrqData
  <2> QED
    BY <1>3, <2>1
<1> QED
  BY <1>1, <1>2, <1>3

\* Sdhci::handle_irq_cmd() for a command without data ends it, once it has been
\* answered, and not before.
LEMMA IrqWithoutData ==
  ASSUME NEW c, IsCmd(c), NEW h, HwTyped(h), NEW m, Phase(c, h, m),
         c.status = "Progress_cmd", ~c.hasData, NEW inTime \in BOOLEAN,
         NEW r, r = HandleIrqCmd(c, h, h.is, inTime)
  PROVE  /\ IsProgress(r.cmd) => r.cmd = c /\ r.hw = h
         /\ ~IsProgress(r.cmd) => Phase(r.cmd, r.hw, m)
         /\ ~IsProgress(r.cmd) /\ ~IsError(r.cmd) => "cc" \in h.is /\ h.cmd = "none"
         /\ r.cmd.status # "Progress_data"
<1>1. IsProgress(c) /\ Working1(c, h, m) /\ h.dat # "data"
  BY DEF IsProgress, ProgressStatus, Phase
<1>2. CASE h.cmd # "none"
  <2>1. h.is \subseteq {"tc"}
    BY <1>1, <1>2 DEF Working1, Sending
  <2>2. r.cmd = c /\ r.hw = h
    BY <2>1, HandleIrqCmdHw
  <2> QED
    BY <1>1, <2>2
<1>3. CASE h.cmd = "none"
  <2>1. h.is \cap {"cc", "ctoe", "cerr"} # {} /\ h.is \cap {"ac12e", "derr"} = {}
    BY <1>1, <1>3 DEF Working1, Answered
  <2>2. /\ r.hw.cmd = h.cmd /\ (r.hw.hasData <=> h.hasData) /\ (r.hw.auto23 <=> h.auto23)
        /\ r.hw.dat = h.dat
        /\ r.cmd.status = IF "ctoe" \in h.is THEN "Cmd_timeout"
                          ELSE IF "cerr" \in h.is \/ "ac12e" \in h.is THEN "Cmd_error"
                          ELSE IF "cc" \in h.is
                             THEN IF c.hasData THEN "Progress_data" ELSE "Success"
                          ELSE c.status
    BY HandleIrqCmdHw
  <2>3. r.cmd.status \in {"Cmd_timeout", "Cmd_error", "Success"}
        /\ (r.cmd.status = "Success" => "cc" \in h.is)
    BY <2>1, <2>2
  <2>4. ~IsProgress(r.cmd) /\ (~IsError(r.cmd) => r.cmd.status = "Success")
    BY <2>3 DEF IsProgress, ProgressStatus, IsError, ErrorStatus
  <2>5. ~h.hasData /\ ~h.auto23
    BY <1>3 DEF Phase
  <2>6. Phase(r.cmd, r.hw, m)
    BY <1>1, <1>3, <2>2, <2>4, <2>5 DEF Phase, LeftOver
  <2> QED
    BY <1>3, <2>3, <2>4, <2>6
<1> QED
  BY <1>2, <1>3

\* Sdhci::handle_irq() leaves a command in a phase again, and ends a data
\* command well exactly if its data has been moved.
LEMMA IrqPhase ==
  ASSUME NEW c, IsCmd(c), NEW h, HwTyped(h), NEW m, Phase(c, h, m), IsProgress(c),
         NEW inTime \in BOOLEAN,
         NEW r, r = HandleIrq(c, h, inTime)
  PROVE  /\ Phase(r.cmd, r.hw, m)
         /\ c.hasData /\ ~IsProgress(r.cmd) => (r.cmd.status = "Success" <=> c.cb \in m)
         /\ ~c.hasData /\ ~IsProgress(r.cmd) /\ ~IsError(r.cmd)
              => "cc" \in h.is /\ h.cmd = "none"
<1>1. Working1(c, h, m) /\ c.status \in {"Progress_cmd", "Progress_data"}
  BY DEF IsProgress, ProgressStatus, Phase
<1>2. CASE ~c.hasData
  <2>1. c.status = "Progress_cmd"
    BY <1>1, <1>2 DEF Working1, Sending, Answered
  <2> DEFINE first == HandleIrqCmd(c, h, h.is, inTime)
  <2>2. /\ IsProgress(first.cmd) => first.cmd = c /\ first.hw = h
        /\ ~IsProgress(first.cmd) => Phase(first.cmd, first.hw, m)
        /\ ~IsProgress(first.cmd) /\ ~IsError(first.cmd) => "cc" \in h.is /\ h.cmd = "none"
        /\ first.cmd.status # "Progress_data"
    BY <1>2, <2>1, IrqWithoutData
  <2>3. r = first
    BY <2>1, <2>2 DEF HandleIrq
  <2> HIDE DEF first
  <2> QED
    BY <1>2, <2>2, <2>3
<1>3. CASE c.hasData /\ h.cmd # "none"
  <2>1. c.status = "Progress_cmd" /\ h.is = {}
    BY <1>1, <1>3 DEF Working1, Sending
  <2>2. HandleIrqCmd(c, h, h.is, inTime) = [cmd |-> c, hw |-> h]
    BY <2>1 DEF HandleIrqCmd
  <2>3. r.cmd = c /\ r.hw = h
    BY <2>1, <2>2 DEF HandleIrq
  <2> QED
    BY <1>3, <2>3
<1>4. CASE c.hasData /\ h.cmd = "none"
  <2>1. Moving(c, h, m) /\ ~h.hasData /\ ~h.auto23 /\ h.signal = SignalEnable(c)
    BY <1>1, <1>4 DEF Working1, Phase
  <2>2. CASE h.is \cap CmdErrors # {} /\ c.status = "Progress_cmd" /\ h.dat = "idle"
             /\ c.cb \notin m
    <3> DEFINE first == HandleIrqCmd(c, h, h.is, inTime)
    <3>1. /\ first.hw.cmd = h.cmd /\ (first.hw.hasData <=> h.hasData)
          /\ (first.hw.auto23 <=> h.auto23) /\ first.hw.dat = h.dat
          /\ first.cmd.status = IF "ctoe" \in h.is THEN "Cmd_timeout"
                           ELSE IF "cerr" \in h.is \/ "ac12e" \in h.is THEN "Cmd_error"
                           ELSE IF "cc" \in h.is
                             THEN IF c.hasData THEN "Progress_data" ELSE "Success"
                           ELSE c.status
      BY HandleIrqCmdHw
    <3>2. first.cmd.status \in {"Cmd_timeout", "Cmd_error"}
      BY <2>2, <3>1 DEF CmdErrors
    <3>3. r = first
      BY <2>2, <3>2 DEF HandleIrq
    <3> HIDE DEF first
    <3>4. ~IsProgress(first.cmd)
      BY <3>2 DEF IsProgress, ProgressStatus
    <3>5. Phase(first.cmd, first.hw, m)
      BY <1>4, <2>1, <2>2, <3>1, <3>4 DEF Phase, LeftOver
    <3> QED
      BY <1>4, <2>2, <3>2, <3>3, <3>5
  <2>3. CASE /\ h.is \cap CmdErrors = {}
             /\ c.status = "Progress_cmd" => "cc" \in h.is
             /\ \/ /\ h.dat = "data" /\ h.datReq = c.cb /\ h.is \cap {"tc", "derr"} = {}
                   /\ c.cb \notin m
                \/ h.dat = "idle" /\ "tc" \in h.is /\ "derr" \notin h.is /\ c.cb \in m
                \/ h.dat = "stuck" /\ "derr" \in h.is /\ "tc" \notin h.is /\ c.cb \notin m
    <3> DEFINE first == IF c.status = "Progress_cmd" THEN HandleIrqCmd(c, h, h.is, inTime)
                                                     ELSE [cmd |-> c, hw |-> h]
    <3>1. /\ IsCmd(first.cmd) /\ SameCommand(c, first.cmd) /\ HwTyped(first.hw)
          /\ first.hw.cmd = h.cmd /\ (first.hw.hasData <=> h.hasData)
          /\ (first.hw.auto23 <=> h.auto23) /\ first.hw.dat = h.dat
          /\ first.hw.datReq = h.datReq /\ first.hw.signal = h.signal
          /\ first.hw.is \ {"cc"} = h.is \ {"cc"} /\ first.cmd.status = "Progress_data"
          /\ first.hw.resets = h.resets
      <4>1. CASE c.status = "Progress_cmd"
        <5>1. first = HandleIrqCmd(c, h, h.is, inTime)
          BY <4>1
        <5>2. "cc" \in h.is /\ h.is \cap {"ctoe", "cerr", "ac12e"} = {}
          BY <2>3, <4>1 DEF CmdErrors
        <5> HIDE DEF first
        <5>3. IsCmd(first.cmd) /\ SameCommand(c, first.cmd) /\ HwTyped(first.hw)
          BY <5>1, HandleIrqCmdTyped
        <5>4. /\ first.hw.cmd = h.cmd /\ (first.hw.hasData <=> h.hasData)
              /\ (first.hw.auto23 <=> h.auto23) /\ first.hw.dat = h.dat
              /\ first.hw.datReq = h.datReq /\ first.hw.signal = h.signal
              /\ first.hw.is = h.is \ {"cc"} /\ first.cmd.status = "Progress_data"
              /\ first.hw.resets = h.resets
          BY <1>4, <5>1, <5>2, HandleIrqCmdHw
        <5> QED
          BY <5>3, <5>4
      <4>2. CASE c.status # "Progress_cmd"
        <5>1. c.status = "Progress_data" /\ first = [cmd |-> c, hw |-> h]
          BY <1>1, <4>2
        <5> QED
          BY <5>1, SameIsSame
      <4> QED
        BY <4>1, <4>2
    <3>2. r = HandleIrqData(first.cmd, first.hw, h.is, inTime)
      BY <3>1 DEF HandleIrq
    <3> HIDE DEF first
    <3>3. /\ r.hw.cmd = h.cmd /\ (r.hw.hasData <=> h.hasData) /\ (r.hw.auto23 <=> h.auto23)
          /\ "derr" \in h.is => r.cmd.status = "Data_error"
          /\ "derr" \in h.is => r.hw.dat = IF inTime THEN "idle" ELSE first.hw.dat
          /\ "derr" \notin h.is => r.hw.dat = h.dat
          /\ "derr" \notin h.is /\ "tc" \in h.is => r.cmd.status = "Success"
          /\ h.is \cap {"derr", "tc"} = {} => r.cmd = first.cmd /\ r.hw = first.hw
      BY <3>1, <3>2, HandleIrqDataHw
    <3>4. CASE h.is \cap {"derr", "tc"} # {}
      <4>1. r.cmd.status \in {"Data_error", "Success"} /\ r.hw.dat \in {"idle", "stuck"}
            /\ (r.cmd.status = "Success" <=> c.cb \in m)
        BY <2>3, <3>1, <3>3, <3>4
      <4>2. ~IsProgress(r.cmd)
        BY <4>1 DEF IsProgress, ProgressStatus
      <4>3. Phase(r.cmd, r.hw, m)
        BY <1>4, <2>1, <3>3, <4>1, <4>2 DEF Phase, LeftOver
      <4> QED
        BY <1>4, <4>1, <4>3
    <3>5. CASE h.is \cap {"derr", "tc"} = {}
      <4>1. r.cmd = first.cmd /\ r.hw = first.hw /\ IsProgress(first.cmd)
        BY <3>1, <3>3, <3>5 DEF IsProgress, ProgressStatus
      <4>2. /\ (first.cmd.hasData <=> c.hasData) /\ first.cmd.cb = c.cb
            /\ SignalEnable(first.cmd) = SignalEnable(c)
        BY <3>1 DEF SameCommand, SignalEnable
      <4>3. h.dat = "data" /\ h.datReq = c.cb /\ c.cb \notin m
        BY <2>3, <3>5
      <4>4. first.hw.is \cap CmdErrors = {} /\ first.hw.is \cap {"tc", "derr"} = {}
        BY <2>3, <3>1, <3>5 DEF CmdErrors
      <4>5. Moving(first.cmd, first.hw, m)
        BY <3>1, <4>2, <4>3, <4>4 DEF Moving
      <4>6. Phase(first.cmd, first.hw, m)
        BY <1>4, <2>1, <3>1, <4>1, <4>2, <4>4, <4>5 DEF Phase, Working1
      <4> QED
        BY <4>1, <4>6
    <3> QED
      BY <3>4, <3>5
  <2> QED
    BY <2>1, <2>2, <2>3 DEF Moving
<1> QED
  BY <1>2, <1>3, <1>4

LEMMA CommandOverIs ==
  ASSUME NEW h, HwTyped(h)
  PROVE  /\ HwTyped(CommandOver(h)) /\ CommandOver(h).cmd = "none"
         /\ ~CommandOver(h).hasData /\ ~CommandOver(h).auto23
         /\ CommandOver(h).is = h.is /\ CommandOver(h).signal = h.signal
         /\ CommandOver(h).resets = h.resets /\ (CommandOver(h).cihb <=> h.cihb)
         /\ CommandOver(h).dat = h.dat /\ CommandOver(h).datReq = h.datReq
  BY DEF HwTyped, HwFields, CommandOver, MmcCommands

EndReset(h, line) == [LineReset(h, line) EXCEPT !.resets = @ \ {line}]

LEMMA EndedReset ==
  ASSUME NEW h, HwTyped(h), NEW line \in h.resets, NEW g, g = EndReset(h, line)
  PROVE  /\ HwTyped(g) /\ g.cmd = h.cmd
         /\ (g.hasData <=> h.hasData) /\ (g.auto23 <=> h.auto23)
         /\ g.dat = IF line = "dat" THEN "idle" ELSE h.dat
         /\ g.signal = h.signal /\ g.is \subseteq h.is /\ g.resets = h.resets \ {line}
         /\ line = "dat" => (g.cihb <=> h.cihb)
<1>1. CASE line = "cmd"
  <2>1. g = [h EXCEPT !.cihb = FALSE, !.is = @ \ {"cc"}, !.resets = @ \ {line}]
    BY <1>1 DEF EndReset, LineReset
  <2>2. /\ g.cmd = h.cmd /\ (g.hasData <=> h.hasData) /\ (g.auto23 <=> h.auto23)
        /\ g.dat = h.dat /\ g.signal = h.signal /\ g.is = h.is \ {"cc"}
        /\ g.resets = h.resets \ {line} /\ g.resp = h.resp /\ DOMAIN g = HwFields
    BY <2>1 DEF HwTyped, HwFields
  <2> QED
    BY <1>1, <2>2 DEF HwTyped
<1>2. CASE line = "dat"
  <2>1. g = [h EXCEPT !.dat = "idle", !.is = @ \ {"tc"}, !.resets = @ \ {line}]
    BY <1>2 DEF EndReset, LineReset
  <2>2. /\ g.cmd = h.cmd /\ (g.hasData <=> h.hasData) /\ (g.auto23 <=> h.auto23)
        /\ g.dat = "idle" /\ g.signal = h.signal /\ g.is = h.is \ {"tc"}
        /\ g.resets = h.resets \ {line} /\ g.resp = h.resp /\ DOMAIN g = HwFields
        /\ (g.cihb <=> h.cihb)
    BY <2>1 DEF HwTyped, HwFields
  <2> QED
    BY <1>2, <2>2 DEF HwTyped
<1> QED
  BY <1>1, <1>2 DEF HwTyped, Lines

\* What the controller and the card do by themselves keeps the phase.
LEMMA HostPhase ==
  ASSUME HwTyped(hw), NEW c, Phase(c, hw, moved), IsProgress(c) => Sendable(drv, c),
         hw.resets # {} => ~IsProgress(c), HostNext
  PROVE  Phase(c, hw', moved')
<1> DEFINE h == CommandOver(hw)
<1>0. /\ HwTyped(h) /\ h.cmd = "none" /\ ~h.hasData /\ ~h.auto23
      /\ (h.cihb <=> hw.cihb) /\ h.is = hw.is /\ h.signal = hw.signal /\ h.dat = hw.dat /\ h.datReq = hw.datReq
  BY CommandOverIs
<1> HIDE DEF h
<1>1. CASE CommandResponds
  <2> DEFINE dat == IF hw.hasData THEN "data"
                    ELSE IF hw.cmd \in RspCheckBusy THEN "busy" ELSE h.dat
             req == IF hw.hasData THEN hw.req ELSE h.datReq
             resp == IF hw.cmd # "CMD13" THEN h.resp
                     ELSE IF card.cache = "refused" THEN "switch_error"
                     ELSE IF hw.dat = "busy" THEN "busy" ELSE "ready"
  <2>1. hw' = [h EXCEPT !.cihb = FALSE, !.is = @ \cup {"cc"}, !.dat = dat,
                        !.datReq = req, !.resp = resp]
        /\ hw.cmd # "none" /\ moved' = moved
    BY <1>1 DEF CommandResponds, h
  <2>2. (hw.hasData => dat = "data" /\ req = hw.req) /\ (~hw.hasData => dat \in {"busy", hw.dat})
    BY <1>0
  <2> HIDE DEF dat, req, resp
  <2>3. /\ hw'.cmd = "none" /\ ~hw'.hasData /\ ~hw'.auto23 /\ hw'.is = hw.is \cup {"cc"}
        /\ hw'.signal = hw.signal /\ hw'.dat = dat /\ hw'.datReq = req
    BY <1>0, <2>1 DEF HwTyped, HwFields
  <2>4. CASE ~IsProgress(c)
    BY <2>1, <2>2, <2>3, <2>4 DEF Phase, LeftOver
  <2>5. CASE IsProgress(c)
    <3>1. Sending(c, hw, moved) /\ hw.signal = SignalEnable(c) /\ hw.dat # "data"
      BY <2>1, <2>5 DEF Phase, Working1
    <3>2. CASE c.hasData
      <4>1. hw'.is = {"cc"} /\ hw'.dat = "data" /\ hw'.datReq = c.cb /\ c.cb \notin moved
        BY <2>2, <2>3, <3>1, <3>2 DEF Sending
      <4>2. Moving(c, hw', moved')
        BY <2>1, <4>1 DEF Moving, CmdErrors
      <4> QED
        BY <2>3, <2>5, <3>1, <3>2, <4>1, <4>2 DEF Phase, Working1, CmdErrors
    <3>3. CASE ~c.hasData
      <4>1. hw'.is \subseteq {"tc", "cc"} /\ "cc" \in hw'.is /\ hw'.dat # "data"
        BY <2>2, <2>3, <3>1, <3>3 DEF Sending
      <4>2. Answered(c, hw')
        BY <3>1, <4>1 DEF Answered, Sending
      <4> QED
        BY <2>3, <2>5, <3>1, <3>3, <4>1, <4>2 DEF Phase, Working1, CmdErrors
    <3> QED
      BY <3>2, <3>3
  <2> QED
    BY <2>4, <2>5
<1>2. ASSUME NEW e \in CmdErrors, hw.cmd # "none", e = "ac12e" => hw.auto23,
             hw' = [h EXCEPT !.is = @ \cup {e}], moved' = moved
      PROVE  Phase(c, hw', moved')
  <2>1. /\ hw'.cmd = "none" /\ ~hw'.hasData /\ ~hw'.auto23 /\ hw'.is = hw.is \cup {e}
        /\ hw'.signal = hw.signal /\ hw'.dat = hw.dat /\ (hw'.cihb <=> hw.cihb)
    BY <1>0, <1>2 DEF HwTyped, HwFields
  <2>2. CASE ~IsProgress(c)
    BY <1>2, <2>1, <2>2 DEF Phase, LeftOver
  <2>3. CASE IsProgress(c)
    <3>1. Sending(c, hw, moved) /\ hw.signal = SignalEnable(c) /\ hw.dat # "data" /\ hw.cihb
      BY <1>2, <2>3 DEF Phase, Working1
    <3>2. e = "ac12e" => c.auto23 /\ c.hasData
      BY <1>2, <2>3, <3>1, SendableIs DEF Sending
    <3>3. CASE c.hasData
      <4>1. Moving(c, hw', moved')
        BY <1>2, <2>1, <3>1, <3>2, <3>3 DEF Moving, Sending
      <4> QED
        BY <2>1, <2>3, <3>1, <3>3, <4>1 DEF Phase, Working1
    <3>4. CASE ~c.hasData
      <4>1. Answered(c, hw')
        BY <1>2, <2>1, <3>1, <3>2, <3>4 DEF Answered, Sending, CmdErrors
      <4> QED
        BY <2>1, <2>3, <3>1, <3>4, <4>1 DEF Phase, Working1
    <3> QED
      BY <3>3, <3>4
  <2> QED
    BY <2>2, <2>3
<1>3. CASE CommandFails
  <2>1. PICK e \in {"ctoe", "cerr"} : hw' = [h EXCEPT !.is = @ \cup {e}]
    BY <1>3 DEF CommandFails, h
  <2>2. hw.cmd # "none" /\ moved' = moved
    BY <1>3 DEF CommandFails
  <2> QED
    BY <1>2, <2>1, <2>2 DEF CmdErrors
<1>4. CASE AutoCommandFails
  <2>1. hw' = [h EXCEPT !.is = @ \cup {"ac12e"}] /\ hw.cmd # "none" /\ hw.auto23
        /\ moved' = moved
    BY <1>4 DEF AutoCommandFails, h
  <2> QED
    BY <1>2, <2>1 DEF CmdErrors
<1>5. CASE DataCompletes
  <2>1. hw' = [hw EXCEPT !.dat = "idle", !.datReq = NoReq, !.write = FALSE, !.is = @ \cup {"tc"}]
        /\ hw.dat = "data" /\ moved' = moved \cup {hw.datReq}
    BY <1>5 DEF DataCompletes
  <2>2. /\ hw'.cmd = hw.cmd /\ (hw'.hasData <=> hw.hasData) /\ (hw'.auto23 <=> hw.auto23)
        /\ hw'.is = hw.is \cup {"tc"} /\ hw'.signal = hw.signal /\ hw'.dat = "idle"
        /\ (hw'.cihb <=> hw.cihb)
    BY <2>1 DEF HwTyped, HwFields
  <2>3. IsProgress(c) /\ c.hasData /\ hw.cmd = "none" /\ Moving(c, hw, moved)
        /\ hw.signal = SignalEnable(c)
    BY <2>1 DEF Phase, Working1
  <2>4. /\ hw.is \cap CmdErrors = {}
        /\ c.status = "Progress_cmd" => "cc" \in hw.is
        /\ hw.datReq = c.cb /\ hw.is \cap {"tc", "derr"} = {}
    BY <2>1, <2>3 DEF Moving
  <2>5. Moving(c, hw', moved')
    BY <2>1, <2>2, <2>4 DEF Moving, CmdErrors
  <2>6. hw'.is \cap CmdErrors = {}
    BY <2>2, <2>4 DEF CmdErrors
  <2> QED
    BY <2>2, <2>3, <2>5, <2>6 DEF Phase, Working1
<1>6. CASE DataFails
  <2>1. hw' = [hw EXCEPT !.dat = "stuck", !.datReq = NoReq, !.write = FALSE, !.is = @ \cup {"derr"}]
        /\ hw.dat = "data" /\ moved' = moved
    BY <1>6 DEF DataFails
  <2>2. /\ hw'.cmd = hw.cmd /\ (hw'.hasData <=> hw.hasData) /\ (hw'.auto23 <=> hw.auto23)
        /\ hw'.is = hw.is \cup {"derr"} /\ hw'.signal = hw.signal /\ hw'.dat = "stuck"
        /\ (hw'.cihb <=> hw.cihb)
    BY <2>1 DEF HwTyped, HwFields
  <2>3. IsProgress(c) /\ c.hasData /\ hw.cmd = "none" /\ Moving(c, hw, moved)
        /\ hw.signal = SignalEnable(c)
    BY <2>1 DEF Phase, Working1
  <2>4. /\ hw.is \cap CmdErrors = {}
        /\ c.status = "Progress_cmd" => "cc" \in hw.is
        /\ c.cb \notin moved /\ "tc" \notin hw.is
    BY <2>1, <2>3 DEF Moving
  <2>5. Moving(c, hw', moved')
    BY <2>1, <2>2, <2>4 DEF Moving, CmdErrors
  <2>6. hw'.is \cap CmdErrors = {}
    BY <2>2, <2>4 DEF CmdErrors
  <2> QED
    BY <2>2, <2>3, <2>5, <2>6 DEF Phase, Working1
<1>7. CASE BusyEnds
  <2>1. hw' = [hw EXCEPT !.dat = "idle", !.is = @ \cup {"tc"}] /\ hw.dat = "busy" /\ moved' = moved
    BY <1>7 DEF BusyEnds
  <2>2. /\ hw'.cmd = hw.cmd /\ (hw'.hasData <=> hw.hasData) /\ (hw'.auto23 <=> hw.auto23)
        /\ hw'.is = hw.is \cup {"tc"} /\ hw'.signal = hw.signal /\ hw'.dat = "idle"
        /\ (hw'.cihb <=> hw.cihb)
        /\ hw'.req = hw.req
    BY <2>1 DEF HwTyped, HwFields
  <2>3. CASE ~IsProgress(c)
    BY <2>2, <2>3 DEF Phase, LeftOver
  <2>4. CASE IsProgress(c) /\ hw.cmd # "none"
    <3>1. Sending(c, hw', moved')
      BY <2>1, <2>2, <2>4 DEF Phase, Working1, Sending
    <3> QED
      BY <2>2, <2>4, <3>1 DEF Phase, Working1
  <2>5. CASE IsProgress(c) /\ hw.cmd = "none"
    <3>0. hw'.is \cap CmdErrors = hw.is \cap CmdErrors
      BY <2>2 DEF CmdErrors
    <3>1. ~c.hasData
      BY <2>1, <2>5 DEF Phase, Working1, Moving
    <3>2. Answered(c, hw')
      BY <2>2, <2>5, <3>1 DEF Phase, Working1, Answered
    <3> QED
      BY <2>2, <2>5, <3>0, <3>1, <3>2 DEF Phase, Working1
  <2> QED
    BY <2>3, <2>4, <2>5
<1>8. CASE DeliverIrq
  BY <1>8 DEF DeliverIrq
<1>9. CASE LineResetEnds
  <2>1. PICK line \in hw.resets : hw' = EndReset(hw, line) /\ moved' = moved
    BY <1>9 DEF LineResetEnds, EndReset
  <2> DEFINE g == EndReset(hw, line)
  <2>2. /\ g.cmd = hw.cmd /\ (g.hasData <=> hw.hasData) /\ (g.auto23 <=> hw.auto23)
        /\ g.dat \in {"idle", hw.dat}
    BY EndedReset
  <2>3. hw' = g /\ ~IsProgress(c) /\ moved' = moved
    BY <2>1
  <2> HIDE DEF g
  <2> QED
    BY <2>2, <2>3 DEF Phase, LeftOver
<1> QED
  BY <1>1, <1>3, <1>4, <1>5, <1>6, <1>7, <1>8, <1>9 DEF HostNext, CommandPhaseEnds, DataPhaseEnds

LEMMA PhaseCompletes ==
  ASSUME NEW c, NEW h, NEW m, Phase(c, h, m), IsProgress(c)
  PROVE  h.cmd # "none" \/ h.dat = "data" \/ h.is \cap h.signal # {}
<1>1. CASE h.cmd = "none" /\ ~c.hasData
  BY <1>1 DEF Phase, Working1, Answered, SignalEnable
<1>2. CASE h.cmd = "none" /\ c.hasData
  BY <1>2 DEF Phase, Working1, Moving, CmdErrors, SignalEnable
<1> QED
  BY <1>1, <1>2

-----------------------------------------------------------------------------
(* What is known of the data of the head's request, by its command, and of *)
(* those who wait.                                                         *)

Known(k, c, m) ==
  OfRequest(k, c) =>
    /\ CountCmd(c) => c.cb \notin m
    /\ StopCmd(c) => (c.status12 = "Success" <=> c.cb \in m)
    /\ DataCmd(k, c) /\ ~IsProgress(c) => (c.status = "Success" <=> c.cb \in m)

WaitersUnmoved == \A s \in Waiting : OfRequest(drv, cmds[s]) => cmds[s].cb \notin moved

HwInv == Phase(HeadCmd, hw, moved) /\ Known(drv, HeadCmd, moved) /\ WaitersUnmoved

-----------------------------------------------------------------------------
(* The resets the driver gave up waiting for: the CMD line is inhibited    *)
(* until the reset ends, so that nothing is sent; a reset of the DAT line  *)
(* leaves a head with a data error, which nobody kicks.                    *)

Resets ==
  /\ "cmd" \in hw.resets => hw.cihb /\ hw.cmd = "none" /\ ~IsProgress(HeadCmd)
  /\ "dat" \in hw.resets => /\ srv.pc = "loop" /\ ~irq.msg
                            /\ HeadCmd.status = "Data_error"
                            /\ hw.cmd = "none" /\ hw.dat = "stuck" /\ ~IrqLine

LEMMA DataErrorIs ==
  ASSUME NEW c, c.status = "Data_error"
  PROVE  ~Ready(c) /\ ~IsProgress(c) /\ c # InvalidCmd
  BY DEF Ready, IsProgress, ProgressStatus, InvalidCmd

LEMMA NoResets ==
  ASSUME Base, Resets
  PROVE  /\ srv.pc # "loop" \/ irq.msg \/ Idle => "dat" \notin hw.resets
         /\ hw.resets # {} => ~IsProgress(HeadCmd) /\ hw.cmd = "none"
         /\ "dat" \notin hw.resets /\ "cmd" \notin hw.resets => hw.resets = {}
<1>1. Idle => HeadCmd.status # "Data_error"
  BY HeadIsTyped, DataErrorIs
<1>2. hw.resets \subseteq {"cmd", "dat"}
  BY BaseIs DEF HwTyped, Lines
<1>3. "dat" \in hw.resets => ~IsProgress(HeadCmd)
  BY DataErrorIs DEF Resets
<1> QED
  BY <1>1, <1>2, <1>3 DEF Resets

LEMMA ResetsEmpty ==
  ASSUME hw'.resets = {}
  PROVE  Resets'
  BY DEF Resets

\* The controller is left alone, and no DAT line is being reset.
LEMMA ResetsKept ==
  ASSUME Resets, hw' = hw, "dat" \notin hw.resets, IsProgress(HeadCmd') => IsProgress(HeadCmd)
  PROVE  Resets'
  BY DEF Resets

LEMMA ResetsUntouched ==
  ASSUME Resets, UNCHANGED <<hw, irq>>, HeadCmd' = HeadCmd, srv.pc = "loop" => srv'.pc = "loop"
  PROVE  Resets'
  BY DEF Resets, IrqLine

LEMMA SubmittedResets ==
  ASSUME Base, Resets, srv.pc # "loop", NEW c, Available(hw, c), hw' = Submitted(hw, c)
  PROVE  Resets'
<1>1. hw.resets = {}
  BY NoResets DEF Resets, Available
<1>2. hw'.resets = {}
  BY <1>1, BaseIs DEF Submitted, HwTyped, HwFields
<1> QED
  BY <1>2, ResetsEmpty

LEMMA RetiredResets ==
  ASSUME Base, Base', ServerInv, Resets, srv.pc # "loop", ~Idle, Retire(Working(q)), hw' = hw,
         UNCHANGED <<drv, escaped>>
  PROVE  Resets'
<1>1. ~IsProgress(HeadCmd')
  BY QueueRetires, InvalidIsAbandoned, ReadyNoProgress DEF ServerInv, Fresh, Abandoned
<1> QED
  BY <1>1, NoResets, ResetsKept

\* Sdhci::handle_irq() of a command in progress.
LEMMA IrqResets ==
  ASSUME NEW c, IsCmd(c), NEW h, HwTyped(h), NEW m, Phase(c, h, m), IsProgress(c),
         h.resets = {}, NEW inTime \in BOOLEAN, NEW r, r = HandleIrq(c, h, inTime)
  PROVE  /\ inTime => r.hw.resets = {}
         /\ "cmd" \in r.hw.resets => r.hw.cihb /\ r.hw.cmd = "none" /\ ~IsProgress(r.cmd)
         /\ "dat" \in r.hw.resets => /\ r.cmd.status = "Data_error"
                                     /\ r.hw.cmd = "none" /\ r.hw.dat = "stuck"
                                     /\ r.hw.is \cap r.hw.signal = {}
<1>1. Working1(c, h, m) /\ c.status \in {"Progress_cmd", "Progress_data"}
  BY DEF IsProgress, ProgressStatus, Phase
<1>2. ASSUME NEW d, IsCmd(d), NEW g, HwTyped(g), r = HandleIrqData(d, g, h.is, inTime),
             c.hasData, h.cmd = "none", h.is \cap CmdErrors = {},
             g.cmd = h.cmd, g.dat = h.dat, g.signal = h.signal, g.is \subseteq h.is,
             g.resets = {}
      PROVE  /\ inTime => r.hw.resets = {}
             /\ "cmd" \notin r.hw.resets
             /\ "dat" \in r.hw.resets => /\ r.cmd.status = "Data_error"
                                         /\ r.hw.cmd = "none" /\ r.hw.dat = "stuck"
                                         /\ r.hw.is \cap r.hw.signal = {}
  <2>1. /\ r.hw.cmd = g.cmd /\ r.hw.signal = g.signal
        /\ "derr" \in h.is =>
             /\ r.cmd.status = "Data_error"
             /\ r.hw.dat = IF inTime THEN "idle" ELSE g.dat
             /\ r.hw.is \subseteq g.is \ {"derr"}
        /\ "derr" \notin h.is \/ inTime => r.hw.resets = g.resets
        /\ r.hw.resets \subseteq g.resets \cup {"dat"}
    BY <1>2, HandleIrqDataHw
  <2>2. CASE "derr" \notin h.is \/ inTime
    BY <1>2, <2>1, <2>2
  <2>3. CASE "derr" \in h.is /\ ~inTime
    <3>1. h.dat = "stuck" /\ "tc" \notin h.is
      BY <1>1, <1>2, <2>3 DEF Working1, Moving
    <3>2. r.hw.is \subseteq {"cc"}
      BY <1>2, <2>1, <2>3, <3>1 DEF HwTyped, StatusBits, CmdErrors
    <3>3. "cc" \notin r.hw.signal
      BY <1>1, <1>2, <2>1 DEF Working1, SignalEnable
    <3> QED
      BY <1>2, <2>1, <2>3, <3>1, <3>2, <3>3
  <2> QED
    BY <2>2, <2>3
<1>3. CASE c.status = "Progress_data"
  <2>1. r = HandleIrqData(c, h, h.is, inTime)
    BY <1>3 DEF HandleIrq
  <2>2. h.cmd = "none" /\ c.hasData /\ h.is \cap CmdErrors = {}
    BY <1>1, <1>3 DEF Working1, Sending, Answered, Moving
  <2> QED
    BY <1>2, <2>1, <2>2
<1>4. CASE c.status = "Progress_cmd"
  <2> DEFINE first == HandleIrqCmd(c, h, h.is, inTime)
  <2>0. r = IF first.cmd.status = "Progress_data"
            THEN HandleIrqData(first.cmd, first.hw, h.is, inTime) ELSE first
    BY <1>4 DEF HandleIrq
  <2>1. /\ first.hw.cmd = h.cmd /\ first.hw.dat = h.dat /\ first.hw.signal = h.signal
        /\ first.cmd.status = IF "ctoe" \in h.is THEN "Cmd_timeout"
                              ELSE IF "cerr" \in h.is \/ "ac12e" \in h.is THEN "Cmd_error"
                              ELSE IF "cc" \in h.is
                                THEN IF c.hasData THEN "Progress_data" ELSE "Success"
                              ELSE c.status
        /\ h.is \cap {"ctoe", "cerr", "ac12e"} = {} => first.hw.is = h.is \ {"cc"}
        /\ h.is \cap {"ctoe", "cerr", "ac12e"} = {} \/ inTime => first.hw.resets = h.resets
        /\ first.hw.resets \subseteq h.resets \cup {"cmd"}
        /\ h.is \cap {"ctoe", "cerr", "ac12e"} = {} \/ ~inTime => (first.hw.cihb <=> h.cihb)
    BY HandleIrqCmdHw
  <2>2. IsCmd(first.cmd) /\ HwTyped(first.hw)
    BY HandleIrqCmdTyped
  <2> HIDE DEF first
  <2>3. CASE h.is \cap CmdErrors # {}
    <3>1. h.cihb /\ h.cmd = "none"
      BY <1>1, <2>3 DEF Working1, Sending, CmdErrors
    <3>2. first.cmd.status \in {"Cmd_timeout", "Cmd_error"} /\ r = first
      BY <2>0, <2>1, <2>3 DEF CmdErrors
    <3>3. ~IsProgress(r.cmd)
      BY <3>2 DEF IsProgress, ProgressStatus
    <3> QED
      BY <2>1, <3>1, <3>2, <3>3
  <2>4. CASE h.is \cap CmdErrors = {} /\ first.cmd.status # "Progress_data"
    BY <2>0, <2>1, <2>4 DEF CmdErrors
  <2>5. CASE h.is \cap CmdErrors = {} /\ first.cmd.status = "Progress_data"
    <3>1. c.hasData /\ "cc" \in h.is
      BY <1>4, <2>1, <2>5 DEF CmdErrors
    <3>2. h.cmd = "none"
      BY <1>1, <3>1 DEF Working1, Sending
    <3>3. r = HandleIrqData(first.cmd, first.hw, h.is, inTime)
      BY <2>0, <2>5
    <3>4. first.hw.resets = {} /\ first.hw.is \subseteq h.is
      BY <2>1, <2>5 DEF CmdErrors
    <3> QED
      BY <1>2, <2>1, <2>2, <2>5, <3>1, <3>2, <3>3, <3>4
  <2> QED
    BY <2>3, <2>4, <2>5
<1> QED
  BY <1>1, <1>3, <1>4

LEMMA InitResets == Init => Resets
  BY DEF Init, HostInit, Resets

LEMMA InoutDataResets ==
  ASSUME Base, ServerInv, Resets, NEW r \in Reqs, NEW read, NEW blocks,
         InoutData(r, read, blocks)
  PROVE  Resets'
<1>1. PICK c :
        /\ IsCmd(c) /\ Fresh(drv, c) /\ c.cb = r /\ r \notin InRing
        /\ CanCreate(q) /\ q' = Created(q) /\ cmds' = [cmds EXCEPT ![q.create] = c]
        /\ \/ Idle /\ HeadCmd' = c
           \/ ~Idle /\ HeadCmd' = HeadCmd
        /\ ~Idle'
        /\ \/ srv.pc = "callback" /\ srv' = srv
           \/ srv.pc = "loop" /\ srv' = Kicked(q', cmds', "inout_data", q.create)
  BY InoutDataView
<1>2. UNCHANGED <<hw, irq>>
  BY DEF InoutData
<1>3. CASE Idle /\ HeadCmd' = c
  BY <1>1, <1>2, <1>3, NoResets, ResetsKept, ReadyNoProgress DEF Fresh
<1>4. CASE HeadCmd' = HeadCmd /\ "dat" \notin hw.resets
  BY <1>2, <1>4, ResetsKept
<1>5. CASE HeadCmd' = HeadCmd /\ "dat" \in hw.resets
  <2>1. srv.pc = "loop" /\ ~Ready(HeadCmd')
    BY <1>5, DataErrorIs DEF Resets
  <2>2. HeadCmd' = IF Working(q') = NoSlot THEN InvalidCmd ELSE cmds'[Working(q')]
    BY DEF HeadCmd
  <2>3. srv' = Loop
    BY <1>1, <2>1, <2>2, InvalidCmdIs DEF Kicked, KickNeeded, Ready
  <2> QED
    BY <1>2, <1>5, <2>3, LoopIsServer, ResetsUntouched
<1> QED
  BY <1>1, <1>3, <1>4, <1>5

LEMMA OversizedResets ==
  ASSUME Base, Base', Resets, NEW r \in Reqs, InoutDataOversized(r)
  PROVE  Resets'
<1>1. UNCHANGED <<hw, irq>> /\ srv' \in {srv, Loop}
  BY DEF InoutDataOversized, hostVars
<1>2. HeadCmd' = HeadCmd
  BY OversizedView
<1> QED
  BY <1>1, <1>2, LoopIsServer, ResetsUntouched

LEMMA HandleIrqResets ==
  ASSUME Base, ServerInv, HwInv, Resets, HandleIrqMessage
  PROVE  Resets'
<1> DEFINE inTime == TRUE
           r == HandleIrq(HeadCmd, hw, inTime)
           w == HandleIrqInout(drv, r.cmd)
<1>0. AtHead /\ r = HandleIrq(HeadCmd, hw, TRUE) /\ w = HandleIrqInout(drv, r.cmd)
      /\ inTime \in BOOLEAN /\ inTime /\ r = HandleIrq(HeadCmd, hw, inTime)
  BY DEF ServerInv
<1> HIDE DEF inTime, r, w
<1>1. "dat" \notin hw.resets
  BY NoResets DEF HandleIrqMessage
<1>2. CASE UNCHANGED <<cmds, hw>>
  <2>1. HeadCmd' = HeadCmd
    BY <1>2, QueueKept DEF HandleIrqMessage
  <2> QED
    BY <1>1, <1>2, <2>1, ResetsKept
<1>3. CASE IsProgress(HeadCmd) /\ hw' = r.hw
  <2>1. IsCmd(HeadCmd) /\ HwTyped(hw) /\ Phase(HeadCmd, hw, moved) /\ hw.resets = {}
    BY <1>3, BaseIs, HeadIsTyped, NoResets DEF HwInv
  <2>2. inTime => r.hw.resets = {}
    BY <1>0, <1>3, <2>1, IrqResets
  <2> QED
    BY <1>0, <1>3, <2>2, ResetsEmpty
<1>4. CASE /\ ~IsProgress(HeadCmd) /\ hw' = r.hw
           /\ OfRequest(drv, HeadCmd) /\ IsCmd(r.cmd) /\ SameCommand(HeadCmd, r.cmd)
           /\ OfRequest(drv, r.cmd)
           /\ \/ IsProgress(r.cmd)
              \/ ~IsProgress(r.cmd) /\ w.reply = "none" /\ HeadCmd' = w.cmd
              \/ ~IsProgress(r.cmd) /\ w.reply # "none" /\ HeadCmd' = w.cmd
  <2>1. r.cmd = HeadCmd /\ r.hw = hw
    <3>1. ~IsProgress(HeadCmd) /\ r = HandleIrq(HeadCmd, hw, inTime)
      BY <1>0, <1>4
    <3> QED
      BY <3>1 DEF HandleIrq, IsProgress, ProgressStatus
  <2>2. ~IsProgress(w.cmd)
    <3>1. CASE w.reply = "none"
      <4>1. Ready(w.cmd)
        BY <1>0, <1>4, <2>1, <3>1, BaseIs, HandleIrqInoutMore
      <4> QED
        BY <4>1, ReadyNoProgress
    <3>2. CASE w.reply # "none"
      <4>1. StopCmd(r.cmd) => r.cmd.status12 \notin ProgressStatus
        BY <1>0, <1>4, <2>1 DEF AtHead
      <4> QED
        BY <1>0, <1>4, <2>1, <3>2, <4>1, BaseIs, HandleIrqInoutDone
    <3> QED
      BY <3>1, <3>2
  <2> QED
    BY <1>1, <1>4, <2>1, <2>2, ResetsKept
<1> QED
  BY <1>0, <1>2, <1>3, <1>4, IrqView

LEMMA HandleIrqThrowsResets ==
  ASSUME Base, ServerInv, HwInv, Resets, HandleIrqThrows
  PROVE  Resets'
<1> DEFINE inTime == FALSE
           r == HandleIrq(HeadCmd, hw, inTime)
<1>0. AtHead /\ r = HandleIrq(HeadCmd, hw, FALSE) /\ inTime \in BOOLEAN
      /\ r = HandleIrq(HeadCmd, hw, inTime)
  BY DEF ServerInv
<1> HIDE DEF inTime, r
<1>1. /\ srv' = srv /\ srv.pc = "loop" /\ irq.msg /\ IsCmd(HeadCmd) /\ IsProgress(HeadCmd)
      /\ hw' = r.hw /\ HeadCmd' = r.cmd /\ irq' = [irq EXCEPT !.msg = FALSE]
  BY <1>0, IrqThrowsView
<1>2. HwTyped(hw) /\ Phase(HeadCmd, hw, moved) /\ hw.resets = {}
  BY <1>1, BaseIs, NoResets DEF HwInv
<1>3. /\ "cmd" \in r.hw.resets => r.hw.cihb /\ r.hw.cmd = "none" /\ ~IsProgress(r.cmd)
      /\ "dat" \in r.hw.resets => /\ r.cmd.status = "Data_error"
                                  /\ r.hw.cmd = "none" /\ r.hw.dat = "stuck"
                                  /\ r.hw.is \cap r.hw.signal = {}
  BY <1>0, <1>1, <1>2, IrqResets
<1>4. ~irq'.msg
  BY <1>1, BaseIs DEF Typed, IrqStates
<1> QED
  BY <1>1, <1>3, <1>4 DEF Resets, IrqLine

LEMMA FlushResets ==
  ASSUME FlushWhen # "any", Base, Resets, Flush
  PROVE  Resets'
<1>1. CASE HasCache
  <2>1. PICK c : Idle /\ HeadCmd' = c /\ Ready(c) /\ UNCHANGED hostVars
    BY <1>1, FlushView
  <2> QED
    BY <2>1, NoResets, ResetsKept, ReadyNoProgress DEF hostVars
<1>2. CASE ~HasCache
  BY <1>2, ResetsUntouched, QueueKept DEF Flush, hostVars
<1> QED
  BY <1>1, <1>2

LEMMA FlushReceiveResets ==
  ASSUME NEW inTime \in BOOLEAN, Base, Base', ServerInv, HwInv, Resets, FlushReceive(inTime)
  PROVE  Resets'
<1> DEFINE r == HandleIrqCmd(HeadCmd, hw, hw.is, inTime)
<1>0. r = HandleIrqCmd(HeadCmd, hw, hw.is, inTime)
  OBVIOUS
<1> HIDE DEF r
<1>1. /\ InFlush /\ ~Idle /\ srv.slot = Working(q) /\ FlushCmd(HeadCmd) /\ FlushCmd(r.cmd)
      /\ HeadCmd.status = "Progress_cmd" /\ hw' = r.hw /\ UNCHANGED <<drv, moved>>
      /\ IsCmd(r.cmd)
  BY <1>0, FlushReceiveView
<1>2. IsProgress(HeadCmd) /\ IsCmd(HeadCmd) /\ HwTyped(hw) /\ Phase(HeadCmd, hw, moved)
      /\ ~HeadCmd.hasData /\ hw.resets = {}
  BY <1>1, BaseIs, HeadIsTyped, NoResets DEF HwInv, FlushCmd, IsProgress, ProgressStatus
<1>3. /\ r.hw.cmd = hw.cmd
      /\ hw.is \cap {"ctoe", "cerr", "ac12e"} = {} \/ inTime => r.hw.resets = hw.resets
      /\ r.hw.resets \subseteq hw.resets \cup {"cmd"}
      /\ hw.is \cap {"ctoe", "cerr", "ac12e"} = {} \/ ~inTime => (r.hw.cihb <=> hw.cihb)
  BY <1>0, <1>2, HandleIrqCmdHw
<1>4. CASE hw.is \cap {"ctoe", "cerr", "ac12e"} = {} \/ inTime
  BY <1>1, <1>2, <1>3, <1>4, ResetsEmpty
<1>5. CASE hw.is \cap {"ctoe", "cerr", "ac12e"} # {} /\ ~inTime
  <2>1. hw.cihb /\ hw.cmd = "none"
    BY <1>2, <1>5 DEF Phase, Working1, Sending, CmdErrors
  <2>2. ~IsProgress(HeadCmd') => Resets'
    BY <1>1, <1>2, <1>3, <1>5, <2>1 DEF Resets
  <2>3. IsProgress(r.cmd) => r.hw = hw
    BY <1>0, <1>1, <1>2, IrqWithoutData
  <2>4. ASSUME NEW result, FlushEnds(r.cmd, result) PROVE Resets'
    <3>1. HeadCmd' = InvalidCmd
      BY <1>1, <2>4, FlushEndsServer
    <3> QED
      BY <2>2, <3>1, InvalidIsAbandoned
  <2>5. ASSUME NEW n \in 0 .. MaxPolls - 1, PollStatus(r.cmd, n) PROVE Resets'
    <3> DEFINE d == InitArg(r.cmd, "CMD13", 0)
    <3>0. d = InitArg(r.cmd, "CMD13", 0)
      OBVIOUS
    <3> HIDE DEF d
    <3>1. HeadCmd' = d /\ Ready(d)
      BY <1>1, <2>5, <3>0, PollView
    <3> QED
      BY <2>2, <3>1, ReadyNoProgress
  <2>6. CASE IsProgress(r.cmd)
    BY <1>1, <1>2, <2>3, <2>6, ResetsEmpty
  <2> QED
    BY <1>0, <2>4, <2>5, <2>6, FlushReceiveView
<1> QED
  BY <1>4, <1>5

LEMMA HostResets ==
  ASSUME Base, HwInv, Resets, Host
  PROVE  Resets'
<1>1. UNCHANGED <<q, cmds, srv>> /\ HostNext
  BY DEF Host, deviceVars
<1>2. HeadCmd' = HeadCmd /\ HwTyped(hw)
  BY <1>1, QueueKept, BaseIs
<1>3. CASE LineResetEnds
  <2>1. PICK line \in hw.resets : hw' = EndReset(hw, line) /\ irq' = irq
    BY <1>3 DEF LineResetEnds, EndReset
  <2> DEFINE g == EndReset(hw, line)
  <2>2. /\ g.cmd = hw.cmd /\ g.dat = IF line = "dat" THEN "idle" ELSE hw.dat
        /\ g.signal = hw.signal /\ g.is \subseteq hw.is /\ g.resets = hw.resets \ {line}
        /\ line = "dat" => (g.cihb <=> hw.cihb)
    BY <1>2, EndedReset
  <2>3. hw' = g /\ line \in {"cmd", "dat"}
    BY <1>2, <2>1 DEF HwTyped, Lines
  <2> HIDE DEF g
  <2>4. CASE line = "cmd"
    BY <1>1, <1>2, <2>1, <2>2, <2>3, <2>4 DEF Resets, IrqLine
  <2>5. CASE line = "dat"
    BY <1>1, <1>2, <2>1, <2>2, <2>3, <2>5 DEF Resets
  <2> QED
    BY <2>3, <2>4, <2>5
<1>4. CASE DeliverIrq
  <2>1. hw' = hw /\ IrqLine
    BY <1>4 DEF DeliverIrq
  <2> QED
    BY <1>2, <2>1, ResetsKept DEF Resets
<1>5. CASE CommandPhaseEnds
  <2>0. hw.cmd # "none"
    BY <1>5 DEF CommandPhaseEnds, CommandResponds, CommandFails, AutoCommandFails
  <2>1. hw.resets = {}
    BY <2>0, NoResets
  <2> DEFINE h == CommandOver(hw)
  <2>2. HwTyped(h) /\ h.resets = {}
    BY <1>2, <2>1, CommandOverIs
  <2>3. hw'.resets = h.resets
    <3>1. CASE CommandResponds
      <4>1. PICK dat, req, resp, is : hw' = [h EXCEPT !.cihb = FALSE, !.is = is, !.dat = dat,
                                                     !.datReq = req, !.resp = resp]
        BY <3>1 DEF CommandResponds
      <4> HIDE DEF h
      <4> QED
        BY <2>2, <4>1 DEF HwTyped, HwFields
    <3>2. CASE CommandFails \/ AutoCommandFails
      <4>1. PICK is : hw' = [h EXCEPT !.is = is]
        BY <3>2 DEF CommandFails, AutoCommandFails
      <4> HIDE DEF h
      <4> QED
        BY <2>2, <4>1 DEF HwTyped, HwFields
    <3> QED
      BY <1>5, <3>1, <3>2 DEF CommandPhaseEnds
  <2> HIDE DEF h
  <2> QED
    BY <2>2, <2>3, ResetsEmpty
<1>6. CASE DataPhaseEnds
  <2>1. hw.dat = "data"
    BY <1>6 DEF DataPhaseEnds, DataCompletes, DataFails
  <2>2. hw.resets = {}
    BY <2>1, NoResets DEF HwInv, Phase
  <2>3. hw'.resets = hw.resets
    BY <1>2, <1>6 DEF DataPhaseEnds, DataCompletes, DataFails, HwTyped, HwFields
  <2> QED
    BY <2>2, <2>3, ResetsEmpty
<1>7. CASE BusyEnds
  <2>1. hw' = [hw EXCEPT !.dat = "idle", !.is = @ \cup {"tc"}] /\ hw.dat = "busy"
    BY <1>7 DEF BusyEnds
  <2>2. hw'.resets = hw.resets /\ (hw'.cihb <=> hw.cihb) /\ hw'.cmd = hw.cmd
    BY <1>2, <2>1 DEF HwTyped, HwFields
  <2> QED
    BY <1>2, <2>1, <2>2 DEF Resets
<1> QED
  BY <1>1, <1>3, <1>4, <1>5, <1>6, <1>7 DEF HostNext

LEMMA NextKeepsResets ==
  ASSUME FlushWhen # "any", Base, Base', ServerInv, HwInv, Resets, [Next]_vars
  PROVE  Resets'
<1>1. ASSUME NEW r \in Reqs, NEW read, NEW blocks, InoutData(r, read, blocks)
      PROVE  Resets'
  BY <1>1, InoutDataResets
<1>2. ASSUME NEW r \in Reqs, InoutDataOversized(r) PROVE Resets'
  BY <1>2, OversizedResets
<1>3. CASE Flush
  BY <1>3, FlushResets
<1>4. CASE Submit
  <2>1. AtHead
    BY DEF ServerInv
  <2>2. Working(q) \in Slots /\ ~Idle /\ HeadCmd = cmds[Working(q)]
    BY <1>4, HeadIsTyped, NoSlotIsNoSlot DEF Submit, Base, HeadInv, DeviceInv, ServerHasHead, Idle
  <2>3. srv.pc # "loop" /\ Available(hw, HeadCmd) /\ hw' = Submitted(hw, HeadCmd)
    BY <1>4, <2>2 DEF Submit
  <2> QED
    BY <2>3, SubmittedResets
<1>5. CASE SubmitFailsInout
  <2>1. /\ ~Idle /\ srv.pc = "submit" /\ UNCHANGED <<drv, hw>>
    BY <1>5, NoSlotIsNoSlot
    DEF SubmitFailsInout, Base, HeadInv, DeviceInv, ServerHasHead, Idle, hostVars
  <2>2. CASE WorkDoneAllowed(q, srv.slot)
    <3>1. Retire(Working(q)) /\ UNCHANGED escaped
      BY <1>5, <2>2 DEF SubmitFailsInout, WorkDoneAllowed
    <3> QED
      BY <2>1, <3>1, RetiredResets
  <2>3. CASE ~WorkDoneAllowed(q, srv.slot)
    <3>1. HeadCmd' = HeadCmd
      BY <1>5, <2>3, QueueKept DEF SubmitFailsInout
    <3> QED
      BY <2>1, <3>1, NoResets, ResetsKept
  <2> QED
    BY <2>2, <2>3
<1>6. CASE SubmitFailsIrq
  <2>1. HeadCmd' = HeadCmd /\ hw' = hw /\ srv.pc = "submit"
    BY <1>6, QueueKept DEF SubmitFailsIrq, hostVars
  <2> QED
    BY <2>1, NoResets, ResetsKept
<1>7. CASE HandleIrqMessage
  BY <1>7, HandleIrqResets
<1>8. CASE HandleIrqThrows
  BY <1>8, HandleIrqThrowsResets
<1>9. CASE CallbackReturns
  <2>1. /\ ~Idle /\ Retire(Working(q)) /\ UNCHANGED <<drv, escaped, hw>>
        /\ srv.pc = "callback"
    BY <1>9, NoSlotIsNoSlot
    DEF CallbackReturns, Base, HeadInv, DeviceInv, ServerHasHead, Idle, hostVars
  <2> QED
    BY <2>1, RetiredResets
<1>10. CASE FlushSubmit
  <2>1. srv.pc # "loop" /\ Available(hw, HeadCmd) /\ hw' = Submitted(hw, HeadCmd)
    BY <1>10, FlushIsAtHead DEF FlushSubmit, InFlush
  <2> QED
    BY <2>1, SubmittedResets
<1>11. ASSUME NEW inTime \in BOOLEAN, FlushReceive(inTime)
      PROVE  Resets'
  BY <1>11, FlushReceiveResets
<1>12. CASE FlushTimeout
  <2>1. InFlush /\ FlushEnds(cmds[srv.slot], "einval") /\ UNCHANGED <<drv, hw>>
        /\ srv.pc = "flReceive"
    BY <1>12 DEF FlushTimeout, InFlush, hostVars
  <2>2. HeadCmd' = InvalidCmd
    BY <2>1, FlushEndsServer
  <2> QED
    BY <2>1, <2>2, NoResets, ResetsKept, InvalidIsAbandoned
<1>13. CASE Host
  BY <1>13, HostResets
<1>14. CASE UNCHANGED vars
  BY <1>14, ResetsUntouched, QueueKept DEF vars, hostVars
<1> QED
  BY <1>1, <1>2, <1>3, <1>4, <1>5, <1>6, <1>7, <1>8, <1>9, <1>10, <1>11, <1>12, <1>13, <1>14
  DEF Next, Client, Server

-----------------------------------------------------------------------------
(* Each step keeps the phase of the head.                                  *)

LEMMA InitHwInv == Init => HwInv
<1> SUFFICES ASSUME Init PROVE HwInv
  OBVIOUS
<1>1. q.enqueued = {} /\ HeadCmd = InvalidCmd
  BY DEF Init, EmptyQueue, Working, HeadCmd
<1>2. /\ hw.cmd = "none" /\ ~hw.hasData /\ ~hw.auto23 /\ hw.dat = "idle"
  BY DEF Init, HostInit
<1> QED
  BY <1>1, <1>2, InvalidIsAbandoned DEF HwInv, Phase, LeftOver, Known, WaitersUnmoved, Waiting

LEMMA ProgressIsSendable ==
  ASSUME ServerInv, IsProgress(HeadCmd)
  PROVE  Sendable(drv, HeadCmd)
  BY DEF ServerInv, AtHead, Abandoned, Sendable

LEMMA FreshIsKnown ==
  ASSUME NEW k, NEW c, NEW m, Fresh(k, c), c.cb \notin m
  PROVE  Known(k, c, m)
  BY DEF Fresh, Known, Ready

LEMMA PhaseOfOther ==
  ASSUME NEW c, NEW h, NEW m, NEW n, Phase(c, h, m), c.cb \in m <=> c.cb \in n
  PROVE  Phase(c, h, n)
  BY DEF Phase, Working1, Sending, Moving

LEMMA HwUntouched ==
  ASSUME HwInv, UNCHANGED <<drv, q, cmds, hw, moved>>
  PROVE  HwInv'
<1>1. HeadCmd' = HeadCmd /\ Waiting' = Waiting
  BY QueueKept
<1> QED
  BY <1>1 DEF HwInv, WaitersUnmoved

\* The head is retired, and was not, or is no longer, in progress.
LEMMA RetiredHw ==
  ASSUME Base, Base', ServerInv, WaitersUnmoved, ~Idle, Retire(Working(q)),
         UNCHANGED <<drv, escaped, moved>>, NEW c, Phase(c, hw', moved), ~IsProgress(c)
  PROVE  HwInv'
<1>1. Working(q) \in Slots
  BY HeadIsTyped
<1>2. /\ \A t \in Waiting : cmds'[t] = cmds[t]
      /\ \/ Idle' /\ HeadCmd' = InvalidCmd /\ Waiting' = {}
         \/ Waiting' = Waiting \ {Working(q')}
  BY <1>1, RetireHead
<1>3. WaitersUnmoved'
  BY <1>2 DEF WaitersUnmoved
<1>4. CASE HeadCmd' = InvalidCmd
  BY <1>3, <1>4, PhaseIdle, InvalidIsAbandoned DEF HwInv, Known
<1>5. CASE /\ ~Idle' /\ Working(q') \in Waiting /\ HeadCmd' = cmds[Working(q')]
           /\ Fresh(drv, HeadCmd') \/ (escaped /\ Abandoned(HeadCmd'))
  <2>1. CASE Fresh(drv, HeadCmd')
    <3>1. ~IsProgress(HeadCmd') /\ HeadCmd'.cb \notin moved
      BY <1>5, <2>1, ReadyNoProgress DEF Fresh, WaitersUnmoved
    <3>2. Known(drv, HeadCmd', moved)
      BY <2>1, <3>1, FreshIsKnown
    <3>3. Phase(HeadCmd', hw', moved)
      BY <3>1, PhaseIdle
    <3> QED
      BY <1>3, <3>2, <3>3 DEF HwInv
  <2>2. CASE Abandoned(HeadCmd')
    <3>1. Phase(HeadCmd', hw', moved)
      BY <2>2, PhaseIdle DEF Abandoned
    <3> QED
      BY <1>3, <2>2, <3>1 DEF HwInv, Known, OfRequest, Abandoned
  <2> QED
    BY <1>5, <2>1, <2>2
<1> QED
  BY <1>4, <1>5, QueueRetires DEF ServerInv

LEMMA InoutDataHw ==
  ASSUME Base, Base', ServerInv, HwInv, NEW r \in Reqs, NEW read, NEW blocks,
         InoutData(r, read, blocks)
  PROVE  HwInv'
<1>1. PICK c :
        /\ IsCmd(c) /\ Fresh(drv, c) /\ c.cb = r /\ r \notin InRing
        /\ CanCreate(q) /\ q' = Created(q) /\ cmds' = [cmds EXCEPT ![q.create] = c]
        /\ \/ Idle /\ HeadCmd' = c
           \/ ~Idle /\ HeadCmd' = HeadCmd
        /\ ~Idle'
  BY InoutDataView
<1>2. UNCHANGED <<drv, hw>> /\ moved' = moved \ {r}
  BY DEF InoutData
<1>3. CASE Idle /\ HeadCmd' = c
  <2>1. HeadCmd = InvalidCmd /\ Waiting' = {}
    BY <1>1, <1>3, HeadIsTyped, CreateIdle
  <2>2. Known(drv, c, moved')
    BY <1>1, <1>2, FreshIsKnown
  <2>3. Phase(c, hw, moved')
    <3>1. ~IsProgress(InvalidCmd) /\ ~IsProgress(c)
      BY <1>1, ReadyNoProgress, InvalidIsAbandoned DEF Fresh
    <3>2. Phase(InvalidCmd, hw, moved)
      BY <2>1 DEF HwInv
    <3> QED
      BY <3>1, <3>2, PhaseIdle
  <2> QED
    BY <1>2, <1>3, <2>1, <2>2, <2>3 DEF HwInv, WaitersUnmoved
<1>4. CASE ~Idle /\ HeadCmd' = HeadCmd
  <2>1. HeadCmd.cb # r
    <3>1. Working(q) \in q.enqueued /\ HeadCmd = cmds[Working(q)] /\ q.enqueued \subseteq Slots
      BY <1>4, BaseIs, OccupiedIs, HeadIsTyped DEF Idle
    <3>2. r # NoReq
      BY DeviceAssumption
    <3> QED
      BY <1>1, <3>1, <3>2 DEF InRing, Occupied
  <2>2. Phase(HeadCmd, hw, moved')
    BY <1>2, <2>1, PhaseOfOther DEF HwInv
  <2>3. Known(drv, HeadCmd, moved')
    BY <1>2, <2>1 DEF HwInv, Known
  <2>4. Waiting' = Waiting \cup {q.create} /\ cmds'[q.create] = c
        /\ \A t \in q.enqueued : cmds'[t] = cmds[t]
    BY <1>1, <1>4, CreateBehind
  <2>5. WaitersUnmoved'
    BY <1>1, <1>2, <2>4 DEF HwInv, WaitersUnmoved, Waiting
  <2> QED
    BY <1>2, <1>4, <2>2, <2>3, <2>5 DEF HwInv
<1> QED
  BY <1>1, <1>3, <1>4

LEMMA OversizedHw ==
  ASSUME Base, Base', HwInv, NEW r \in Reqs, InoutDataOversized(r)
  PROVE  HwInv'
<1>1. UNCHANGED <<drv, hw, moved>>
  BY DEF InoutDataOversized, hostVars
<1>2. HeadCmd' = HeadCmd
  BY OversizedView
<1>3. WaitersUnmoved'
  <2>1. CASE q'.enqueued = {}
    BY <2>1 DEF WaitersUnmoved, Waiting
  <2>2. CASE /\ ~Idle /\ CanCreate(q) /\ q' = Created(q)
             /\ cmds' = [cmds EXCEPT ![q.create] = [CreatedCmd EXCEPT !.cb = r]]
    <3> DEFINE left == [CreatedCmd EXCEPT !.cb = r]
    <3>1. cmds' = [cmds EXCEPT ![q.create] = left] /\ ~left.inout
      BY <2>2, InvalidCmdIs DEF CreatedCmd, InvalidCmd
    <3> HIDE DEF left
    <3>2. Waiting' = Waiting \cup {q.create} /\ cmds'[q.create] = left
          /\ \A t \in q.enqueued : cmds'[t] = cmds[t]
      BY <2>2, <3>1, CreateBehind
    <3> QED
      BY <1>1, <3>1, <3>2 DEF HwInv, WaitersUnmoved, Waiting, OfRequest
  <2> QED
    BY <2>1, <2>2, OversizedView
<1> QED
  BY <1>1, <1>2, <1>3 DEF HwInv

LEMMA HeadHw ==
  ASSUME Base, HwInv, ~Idle, q' = q, UNCHANGED <<drv, moved>>, NEW c,
         cmds' = [cmds EXCEPT ![Working(q)] = c]
  PROVE  WaitersUnmoved' /\ HeadCmd' = c
<1>1. HeadCmd' = c /\ Waiting' = Waiting /\ \A t \in Waiting : cmds'[t] = cmds[t]
  BY HeadIsTyped, HeadChanges
<1> QED
  BY <1>1 DEF HwInv, WaitersUnmoved

LEMMA SubmitHw ==
  ASSUME Base, ServerInv, HwInv, Submit
  PROVE  HwInv'
<1> DEFINE d == [HeadCmd EXCEPT !.status = "Progress_cmd"]
<1>0. d = [HeadCmd EXCEPT !.status = "Progress_cmd"] /\ AtHead
  BY DEF ServerInv
<1> HIDE DEF d
<1>1. /\ ~Idle /\ q' = q /\ cmds' = [cmds EXCEPT ![Working(q)] = d] /\ Working(q) \in Slots
      /\ HeadCmd' = d /\ SameCommand(HeadCmd, d) /\ d.status = "Progress_cmd"
      /\ Ready(HeadCmd) /\ OfRequest(drv, HeadCmd) /\ OfRequest(drv, d)
      /\ hw' = Submitted(hw, HeadCmd)
  BY <1>0, SubmitView
<1>2. UNCHANGED <<drv, moved>> /\ Available(hw, HeadCmd)
  BY <1>1, HeadIsTyped DEF Submit
<1>3. WaitersUnmoved'
  BY <1>1, <1>2, HeadHw
<1>4. ~IsProgress(HeadCmd) /\ IsProgress(d)
  BY <1>1, ReadyNoProgress DEF IsProgress, ProgressStatus
<1>5. HeadCmd.hasData => HeadCmd.cb \notin moved
  BY <1>1, <1>4 DEF HwInv, Known, OfRequest, CountCmd, StopCmd, Ready
<1>6. Phase(d, hw', moved)
  <2>1. HwTyped(hw) /\ Sendable(drv, HeadCmd) /\ Phase(HeadCmd, hw, moved)
    BY <1>1, BaseIs DEF Sendable, HwInv
  <2> QED
    BY <1>1, <1>2, <1>4, <1>5, <2>1, PhaseSubmitted
<1>7. Known(drv, d, moved)
  BY <1>1, <1>4, SameKind DEF HwInv, Known
<1> QED
  BY <1>1, <1>2, <1>3, <1>6, <1>7 DEF HwInv

LEMMA FlushSubmitHw ==
  ASSUME Base, ServerInv, HwInv, FlushSubmit
  PROVE  HwInv'
<1> DEFINE d == [HeadCmd EXCEPT !.status = "Progress_cmd"]
<1>0. d = [HeadCmd EXCEPT !.status = "Progress_cmd"]
  OBVIOUS
<1> HIDE DEF d
<1>1. /\ ~Idle /\ q' = q /\ cmds' = [cmds EXCEPT ![Working(q)] = d]
      /\ HeadCmd' = d /\ SameCommand(HeadCmd, d) /\ d.status = "Progress_cmd"
      /\ Ready(HeadCmd) /\ FlushCmd(HeadCmd) /\ FlushCmd(d)
      /\ hw' = Submitted(hw, HeadCmd)
  BY <1>0, FlushSubmitView
<1>2. UNCHANGED <<drv, moved>> /\ Available(hw, HeadCmd)
  BY FlushIsAtHead DEF FlushSubmit, InFlush
<1>3. WaitersUnmoved'
  BY <1>1, <1>2, HeadHw
<1>4. ~IsProgress(HeadCmd) /\ ~HeadCmd.hasData
  BY <1>1, ReadyNoProgress DEF FlushCmd
<1>5. Phase(d, hw', moved)
  <2>1. HwTyped(hw) /\ Sendable(drv, HeadCmd) /\ Phase(HeadCmd, hw, moved)
    BY <1>1, BaseIs DEF Sendable, HwInv
  <2> QED
    BY <1>1, <1>2, <1>4, <2>1, PhaseSubmitted
<1>6. Known(drv, d, moved)
  BY <1>1 DEF Known, OfRequest, FlushCmd
<1> QED
  BY <1>1, <1>2, <1>3, <1>5, <1>6 DEF HwInv

LEMMA FlushHw ==
  ASSUME FlushWhen # "any", Base, HwInv, Flush
  PROVE  HwInv'
<1>1. CASE HasCache
  <2>1. PICK c :
          /\ Idle /\ CanCreate(q) /\ q' = Created(q) /\ cmds' = [cmds EXCEPT ![q.create] = c]
          /\ HeadCmd' = c /\ Ready(c) /\ ~OfRequest(drv, c)
          /\ UNCHANGED <<drv, unmapped, stranded, answer, escaped, hostVars>>
    BY <1>1, FlushView
  <2>2. Waiting' = {} /\ HeadCmd = InvalidCmd
    BY <2>1, HeadIsTyped, CreateIdle
  <2>3. Phase(c, hw, moved)
    BY <2>1, <2>2, PhaseIdle, ReadyNoProgress, InvalidIsAbandoned DEF HwInv
  <2> QED
    BY <2>1, <2>2, <2>3 DEF HwInv, WaitersUnmoved, Known, hostVars
<1>2. CASE ~HasCache
  BY <1>2, HwUntouched DEF Flush, hostVars
<1> QED
  BY <1>1, <1>2

LEMMA FlushEndsHw ==
  ASSUME Base, Base', ServerInv, HwInv, InFlush, NEW c, NEW result, FlushEnds(c, result),
         UNCHANGED <<drv, moved>>, NEW d, Phase(d, hw', moved), ~IsProgress(d)
  PROVE  HwInv'
<1>1. ~Idle /\ srv.slot = Working(q)
  BY FlushIsAtHead
<1>2. Retire(Working(q)) /\ UNCHANGED escaped
  BY <1>1 DEF FlushEnds, WorkDoneAllowed
<1> QED
  BY <1>1, <1>2, RetiredHw DEF HwInv

LEMMA FlushReceiveHw ==
  ASSUME NEW inTime \in BOOLEAN, Base, Base', ServerInv, HwInv, FlushReceive(inTime)
  PROVE  HwInv'
<1> DEFINE r == HandleIrqCmd(HeadCmd, hw, hw.is, inTime)
<1>0. r = HandleIrqCmd(HeadCmd, hw, hw.is, inTime)
  OBVIOUS
<1> HIDE DEF r
<1>1. /\ InFlush /\ ~Idle /\ FlushCmd(HeadCmd) /\ FlushCmd(r.cmd)
      /\ HeadCmd.status = "Progress_cmd" /\ hw' = r.hw /\ UNCHANGED <<drv, moved>>
      /\ IsCmd(r.cmd)
  BY <1>0, FlushReceiveView
<1>2. /\ IsProgress(r.cmd) => r.cmd = HeadCmd /\ r.hw = hw
      /\ ~IsProgress(r.cmd) => Phase(r.cmd, r.hw, moved)
  <2>1. IsCmd(HeadCmd) /\ HwTyped(hw) /\ Phase(HeadCmd, hw, moved) /\ ~HeadCmd.hasData
    BY <1>1, BaseIs, HeadIsTyped DEF HwInv, FlushCmd
  <2> QED
    BY <1>0, <1>1, <2>1, IrqWithoutData
<1>3. CASE /\ IsProgress(r.cmd) /\ q' = q /\ cmds' = [cmds EXCEPT ![Working(q)] = r.cmd]
  BY <1>1, <1>2, <1>3, HeadHw DEF HwInv
<1>4. ASSUME NEW result, ~IsProgress(r.cmd), FlushEnds(r.cmd, result) PROVE HwInv'
  BY <1>1, <1>2, <1>4, FlushEndsHw
<1>5. ASSUME NEW n \in 0 .. MaxPolls - 1, ~IsProgress(r.cmd), PollStatus(r.cmd, n) PROVE HwInv'
  <2> DEFINE d == InitArg(r.cmd, "CMD13", 0)
  <2>0. d = InitArg(r.cmd, "CMD13", 0)
    OBVIOUS
  <2> HIDE DEF d
  <2>1. /\ q' = q /\ cmds' = [cmds EXCEPT ![Working(q)] = d] /\ HeadCmd' = d
        /\ Ready(d) /\ ~OfRequest(drv, d)
    BY <1>1, <1>5, <2>0, PollView
  <2>2. WaitersUnmoved'
    BY <1>1, <2>1, HeadHw
  <2>3. Phase(d, hw', moved)
    BY <1>1, <1>2, <1>5, <2>1, PhaseIdle, ReadyNoProgress
  <2> QED
    BY <1>1, <2>1, <2>2, <2>3 DEF HwInv, Known
<1> QED
  BY <1>0, <1>3, <1>4, <1>5, FlushReceiveView

LEMMA FlushTimeoutHw ==
  ASSUME Base, Base', ServerInv, HwInv, FlushTimeout
  PROVE  HwInv'
<1>1. InFlush /\ FlushEnds(cmds[srv.slot], "einval") /\ UNCHANGED <<drv, hw, moved>>
      /\ srv.pc = "flReceive"
  BY DEF FlushTimeout, InFlush, hostVars
<1>2. FlushCmd(HeadCmd) /\ HeadCmd.status = "Progress_cmd"
  BY <1>1 DEF ServerInv, AtHead
<1>3. IsProgress(HeadCmd) /\ ~HeadCmd.hasData /\ HeadCmd.cmd \in {"CMD6", "CMD13"}
      /\ ~HeadCmd.auto23
  BY <1>2 DEF IsProgress, ProgressStatus, FlushCmd
<1>4. LeftOver(hw) /\ hw.dat # "data"
  BY <1>3 DEF HwInv, Phase, Working1, Sending, LeftOver
<1>5. Phase(InvalidCmd, hw, moved) /\ ~IsProgress(InvalidCmd)
  BY <1>4, InvalidIsAbandoned DEF Phase, LeftOver
<1> QED
  BY <1>1, <1>5, FlushEndsHw

LEMMA HandleIrqHw ==
  ASSUME Base, Base', ServerInv, HwInv, HandleIrqMessage
  PROVE  /\ HwInv'
         /\ \A x \in Reqs : answer'[x] # answer[x] /\ answer'[x] # "none"
                              => ((answer'[x] = "ok") = (x \in moved))
<1> DEFINE r == HandleIrq(HeadCmd, hw, TRUE)
           w == HandleIrqInout(drv, r.cmd)
<1>0. AtHead /\ r = HandleIrq(HeadCmd, hw, TRUE) /\ w = HandleIrqInout(drv, r.cmd)
      /\ HwTyped(hw) /\ IsCmd(HeadCmd) /\ drv \in Drivers
      /\ answer \in [Reqs -> {"none", "ok", "eio"}]
  BY BaseIs, HeadIsTyped DEF ServerInv, Typed
<1> HIDE DEF r, w
<1>1. UNCHANGED <<drv, q, moved>>
  BY DEF HandleIrqMessage
<1>2. CASE UNCHANGED <<cmds, answer, hw>>
  BY <1>1, <1>2, HwUntouched
<1>3. ASSUME ~Idle, OfRequest(drv, HeadCmd), IsCmd(r.cmd), SameCommand(HeadCmd, r.cmd),
             OfRequest(drv, r.cmd)
      PROVE  /\ Phase(r.cmd, r.hw, moved)
             /\ Known(drv, r.cmd, moved)
  <2>1. CASE IsProgress(HeadCmd)
    <3>1. Phase(r.cmd, r.hw, moved)
          /\ (HeadCmd.hasData /\ ~IsProgress(r.cmd)
               => (r.cmd.status = "Success" <=> HeadCmd.cb \in moved))
      BY <1>0, <2>1, IrqPhase DEF HwInv
    <3>2. DataCmd(drv, r.cmd) => HeadCmd.hasData
      BY <1>3 DEF SameCommand, DataCmd
    <3>3. Known(drv, HeadCmd, moved)
      BY DEF HwInv
    <3> QED
      BY <1>3, <3>1, <3>2, <3>3, SameKind DEF Known
  <2>2. CASE ~IsProgress(HeadCmd)
    <3>1. HandleIrq(HeadCmd, hw, TRUE) = [cmd |-> HeadCmd, hw |-> hw]
      BY <2>2 DEF HandleIrq, IsProgress, ProgressStatus
    <3>2. r = [cmd |-> HeadCmd, hw |-> hw]
      BY <1>0, <3>1, Zenon
    <3>3. r.cmd = HeadCmd /\ r.hw = hw
      BY <3>2
    <3> QED
      BY <3>3 DEF HwInv
  <2> QED
    BY <2>1, <2>2
<1>4. CASE /\ ~Idle /\ OfRequest(drv, HeadCmd) /\ IsCmd(r.cmd)
           /\ SameCommand(HeadCmd, r.cmd) /\ OfRequest(drv, r.cmd) /\ hw' = r.hw
           /\ cmds' = [cmds EXCEPT ![Working(q)] = r.cmd]
           /\ UNCHANGED answer
  <2>1. WaitersUnmoved' /\ HeadCmd' = r.cmd
    BY <1>1, <1>4, HeadHw
  <2> QED
    BY <1>1, <1>3, <1>4, <2>1 DEF HwInv
<1>5. CASE /\ ~Idle /\ OfRequest(drv, HeadCmd) /\ IsCmd(r.cmd)
           /\ SameCommand(HeadCmd, r.cmd) /\ OfRequest(drv, r.cmd) /\ hw' = r.hw
           /\ ~IsProgress(r.cmd) /\ w.reply = "none"
           /\ cmds' = [cmds EXCEPT ![Working(q)] = w.cmd]
           /\ UNCHANGED answer
  <2>1. /\ OfRequest(drv, w.cmd) /\ Ready(w.cmd) /\ w.cmd.cb = r.cmd.cb
        /\ \/ DataCmd(drv, r.cmd) /\ StopCmd(w.cmd) /\ w.cmd.status12 = r.cmd.status
           \/ CountCmd(r.cmd) /\ DataCmd(drv, w.cmd)
    BY <1>0, <1>5, HandleIrqInoutMore
  <2>2. WaitersUnmoved' /\ HeadCmd' = w.cmd
    BY <1>1, <1>5, HeadHw
  <2>3. Phase(r.cmd, r.hw, moved) /\ Known(drv, r.cmd, moved)
    BY <1>3, <1>5
  <2>4. Phase(w.cmd, hw', moved)
    BY <1>5, <2>1, <2>3, PhaseIdle, ReadyNoProgress
  <2>5. Known(drv, w.cmd, moved)
    <3>1. CASE DataCmd(drv, r.cmd) /\ StopCmd(w.cmd) /\ w.cmd.status12 = r.cmd.status
      BY <1>5, <2>1, <2>3, <3>1 DEF Known, DataCmd, StopCmd, CountCmd, StopTransmission
    <3>2. CASE CountCmd(r.cmd) /\ DataCmd(drv, w.cmd)
      BY <1>5, <2>1, <2>3, <3>2 DEF Known, DataCmd, StopCmd, CountCmd, Ready
    <3> QED
      BY <2>1, <3>1, <3>2
  <2> QED
    BY <1>1, <1>5, <2>2, <2>4, <2>5 DEF HwInv
<1>6. CASE /\ ~Idle /\ OfRequest(drv, HeadCmd) /\ IsCmd(r.cmd)
           /\ SameCommand(HeadCmd, r.cmd) /\ OfRequest(drv, r.cmd) /\ hw' = r.hw
           /\ ~IsProgress(r.cmd) /\ w.reply # "none"
           /\ cmds' = [cmds EXCEPT ![Working(q)] = w.cmd]
           /\ answer' = [answer EXCEPT ![HeadCmd.cb] = w.reply]
  <2>0. (StopCmd(r.cmd) => r.cmd.status12 \notin ProgressStatus) /\ r.cmd.cb = HeadCmd.cb
    <3>1. (StopCmd(r.cmd) <=> StopCmd(HeadCmd)) /\ r.cmd.status12 = HeadCmd.status12
          /\ r.cmd.cb = HeadCmd.cb
      BY <1>6, SameKind
    <3> QED
      BY <1>0, <1>6, <3>1 DEF AtHead
  <2>1. /\ OfRequest(drv, w.cmd) /\ ~IsProgress(w.cmd) /\ w.cmd.cb = r.cmd.cb
        /\ w.reply \in {"ok", "eio"}
        /\ \/ StopCmd(r.cmd) /\ StopCmd(w.cmd) /\ w.cmd.status12 = r.cmd.status12
               /\ (w.reply = "ok" <=> r.cmd.status12 = "Success")
           \/ DataCmd(drv, r.cmd) /\ w.cmd = r.cmd /\ (w.reply = "ok" <=> r.cmd.status = "Success")
           \/ CountCmd(r.cmd) /\ w.cmd = r.cmd /\ w.reply = "eio"
    <3>1. /\ IsCmd(r.cmd) /\ OfRequest(drv, r.cmd) /\ ~IsProgress(r.cmd) /\ drv \in Drivers
          /\ StopCmd(r.cmd) => r.cmd.status12 \notin ProgressStatus
          /\ w = HandleIrqInout(drv, r.cmd) /\ w.reply # "none"
      BY <1>0, <1>6, <2>0
    <3> QED
      BY <3>1, HandleIrqInoutDone
  <2>2. WaitersUnmoved' /\ HeadCmd' = w.cmd
    BY <1>1, <1>6, HeadHw
  <2>3. Phase(r.cmd, r.hw, moved) /\ Known(drv, r.cmd, moved)
    BY <1>3, <1>6
  <2>4. Phase(w.cmd, hw', moved)
    BY <1>6, <2>1, <2>3, PhaseIdle
  <2>5. Known(drv, w.cmd, moved)
    BY <1>6, <2>1, <2>3 DEF Known, DataCmd, StopCmd, CountCmd, StopTransmission
  <2>6. w.reply = "ok" <=> HeadCmd.cb \in moved
    BY <1>6, <2>0, <2>1, <2>3 DEF Known
  <2>7. \A x \in Reqs : answer'[x] # answer[x] => x = HeadCmd.cb /\ answer'[x] = w.reply
    BY <1>0, <1>6
  <2> QED
    BY <1>1, <1>6, <2>2, <2>4, <2>5, <2>6, <2>7 DEF HwInv
<1> QED
  BY <1>0, <1>2, <1>4, <1>5, <1>6, IrqView

LEMMA HandleIrqThrowsHw ==
  ASSUME Base, Base', ServerInv, HwInv, HandleIrqThrows
  PROVE  HwInv'
<1> DEFINE inTime == FALSE
           r == HandleIrq(HeadCmd, hw, inTime)
<1>0. AtHead /\ r = HandleIrq(HeadCmd, hw, FALSE) /\ inTime \in BOOLEAN
      /\ r = HandleIrq(HeadCmd, hw, inTime) /\ HwTyped(hw)
  BY BaseIs DEF ServerInv
<1> HIDE DEF inTime, r
<1>1. /\ UNCHANGED <<drv, q, moved>> /\ ~Idle /\ OfRequest(drv, HeadCmd)
      /\ IsCmd(HeadCmd) /\ IsProgress(HeadCmd) /\ ~IsProgress(r.cmd)
      /\ IsCmd(r.cmd) /\ SameCommand(HeadCmd, r.cmd) /\ OfRequest(drv, r.cmd)
      /\ cmds' = [cmds EXCEPT ![Working(q)] = r.cmd] /\ hw' = r.hw
  BY <1>0, IrqThrowsView
<1>2. Phase(r.cmd, r.hw, moved)
      /\ (HeadCmd.hasData /\ ~IsProgress(r.cmd)
           => (r.cmd.status = "Success" <=> HeadCmd.cb \in moved))
  BY <1>0, <1>1, IrqPhase DEF HwInv
<1>3. Known(drv, r.cmd, moved)
  <2>1. DataCmd(drv, r.cmd) => HeadCmd.hasData
    BY <1>1 DEF SameCommand, DataCmd
  <2>2. Known(drv, HeadCmd, moved)
    BY DEF HwInv
  <2> QED
    BY <1>1, <1>2, <2>1, <2>2, SameKind DEF Known
<1>4. WaitersUnmoved' /\ HeadCmd' = r.cmd
  BY <1>1, HeadHw
<1> QED
  BY <1>1, <1>2, <1>3, <1>4 DEF HwInv

LEMMA SubmitFailsInoutHw ==
  ASSUME Base, Base', ServerInv, HwInv, SubmitFailsInout
  PROVE  HwInv'
<1>1. /\ ~Idle /\ srv.pc = "submit" /\ UNCHANGED <<drv, hw, moved>>
  BY NoSlotIsNoSlot
  DEF SubmitFailsInout, Base, HeadInv, DeviceInv, ServerHasHead, Idle, hostVars
<1>2. CASE WorkDoneAllowed(q, srv.slot)
  <2>1. Retire(Working(q)) /\ UNCHANGED escaped
    BY <1>2 DEF SubmitFailsInout, WorkDoneAllowed
  <2>2. ~IsProgress(HeadCmd) /\ Phase(HeadCmd, hw', moved) /\ WaitersUnmoved
    BY <1>1, ReadyNoProgress DEF ServerInv, AtHead, HwInv
  <2> QED
    BY <1>1, <2>1, <2>2, RetiredHw
<1>3. CASE ~WorkDoneAllowed(q, srv.slot)
  BY <1>1, <1>3, HwUntouched DEF SubmitFailsInout
<1> QED
  BY <1>2, <1>3

LEMMA CallbackReturnsHw ==
  ASSUME Base, Base', ServerInv, HwInv, CallbackReturns
  PROVE  HwInv'
<1>1. /\ ~Idle /\ Retire(Working(q)) /\ UNCHANGED <<drv, escaped, hw, moved>>
      /\ srv.pc = "callback"
  BY NoSlotIsNoSlot
  DEF CallbackReturns, Base, HeadInv, DeviceInv, ServerHasHead, Idle, hostVars
<1>2. ~IsProgress(HeadCmd) /\ Phase(HeadCmd, hw', moved) /\ WaitersUnmoved
  BY <1>1 DEF ServerInv, AtHead, HwInv
<1> QED
  BY <1>1, <1>2, RetiredHw

\* What is on the DAT lines is the data of the head, and of nobody who waits.
LEMMA HostHw ==
  ASSUME Base, Base', ServerInv, HwInv, Resets, Host
  PROVE  HwInv'
<1>1. UNCHANGED <<drv, q, cmds>> /\ HostNext
  BY DEF Host, deviceVars
<1>2. HeadCmd' = HeadCmd /\ Waiting' = Waiting
  BY <1>1, QueueKept
<1>3. Phase(HeadCmd, hw', moved')
  <2>1. HwTyped(hw) /\ Phase(HeadCmd, hw, moved) /\ (IsProgress(HeadCmd) => Sendable(drv, HeadCmd))
    BY BaseIs, ProgressIsSendable DEF HwInv
  <2> QED
    BY <1>1, <2>1, NoResets, HostPhase
<1>4. CASE moved' = moved
  BY <1>1, <1>2, <1>3, <1>4 DEF HwInv, WaitersUnmoved
<1>5. CASE moved' = moved \cup {hw.datReq} /\ hw.dat = "data"
  <2>1. IsProgress(HeadCmd) /\ HeadCmd.hasData /\ hw.datReq = HeadCmd.cb
    BY <1>5 DEF HwInv, Phase, Working1, Moving
  <2>2. Known(drv, HeadCmd, moved')
    BY <2>1 DEF Known, CountCmd, StopCmd
  <2>3. ASSUME NEW s \in Waiting, OfRequest(drv, cmds[s]) PROVE cmds[s].cb \notin moved'
    <3>1. Working(q) \in q.enqueued /\ HeadCmd = cmds[Working(q)] /\ s \in q.enqueued
          /\ s # Working(q)
      BY <2>1, <2>3, BaseIs, OccupiedIs, InvalidIsAbandoned DEF HeadCmd, Waiting
    <3>2. cmds[s].cb # NoReq
      BY <2>3, DeviceAssumption DEF OfRequest
    <3>3. cmds[s].cb # HeadCmd.cb
      BY <3>1, <3>2 DEF ServerInv, Unique
    <3> QED
      BY <1>5, <2>1, <2>3, <3>3 DEF HwInv, WaitersUnmoved
  <2> QED
    BY <1>1, <1>2, <1>3, <2>2, <2>3 DEF HwInv, WaitersUnmoved
<1>6. moved' = moved \/ (moved' = moved \cup {hw.datReq} /\ hw.dat = "data")
  BY <1>1 DEF HostNext, CommandPhaseEnds, CommandResponds, CommandFails, AutoCommandFails,
              DataPhaseEnds, DataCompletes, DataFails, BusyEnds, DeliverIrq, LineResetEnds
<1> QED
  BY <1>4, <1>5, <1>6

LEMMA NextKeepsHwInv ==
  ASSUME FlushWhen # "any", Base, Base', ServerInv, HwInv, Resets, [Next]_vars
  PROVE  HwInv'
<1>1. ASSUME NEW r \in Reqs, NEW read, NEW blocks, InoutData(r, read, blocks)
      PROVE  HwInv'
  BY <1>1, InoutDataHw
<1>2. ASSUME NEW r \in Reqs, InoutDataOversized(r) PROVE HwInv'
  BY <1>2, OversizedHw
<1>3. CASE Flush
  BY <1>3, FlushHw
<1>4. CASE Submit
  BY <1>4, SubmitHw
<1>5. CASE SubmitFailsInout
  BY <1>5, SubmitFailsInoutHw
<1>6. CASE SubmitFailsIrq
  BY <1>6, HwUntouched DEF SubmitFailsIrq, hostVars
<1>7. CASE HandleIrqMessage
  BY <1>7, HandleIrqHw
<1>8. CASE CallbackReturns
  BY <1>8, CallbackReturnsHw
<1>9. CASE FlushSubmit
  BY <1>9, FlushSubmitHw
<1>10. ASSUME NEW inTime \in BOOLEAN, FlushReceive(inTime)
      PROVE  HwInv'
  BY <1>10, FlushReceiveHw
<1>11. CASE FlushTimeout
  BY <1>11, FlushTimeoutHw
<1>12. CASE Host
  BY <1>12, HostHw
<1>13. CASE UNCHANGED vars
  BY <1>13, HwUntouched DEF vars, hostVars
<1>14. CASE HandleIrqThrows
  BY <1>14, HandleIrqThrowsHw
<1> QED
  BY <1>1, <1>2, <1>3, <1>4, <1>5, <1>6, <1>7, <1>8, <1>9, <1>10, <1>11, <1>12, <1>13, <1>14
  DEF Next, Client, Server

\* An answer other than "none" is given by handle_irq_inout() only.
LEMMA AnswersByIrq ==
  ASSUME FlushWhen # "any", Base, Base', ServerInv, HwInv, [Next]_vars,
         NEW x \in Reqs, answer'[x] # answer[x], answer'[x] # "none"
  PROVE  (answer'[x] = "ok") = (x \in moved)
<1>0. answer \in [Reqs -> {"none", "ok", "eio"}]
  BY BaseIs DEF Typed
<1>1. ASSUME NEW r \in Reqs, NEW read, NEW blocks, InoutData(r, read, blocks)
      PROVE  FALSE
  BY <1>0, <1>1 DEF InoutData
<1>2. CASE Submit
  BY <1>0, <1>2 DEF Submit
<1>3. CASE HandleIrqMessage
  BY <1>3, HandleIrqHw
<1> QED
  BY <1>1, <1>2, <1>3
  DEF Next, Client, Server, InoutDataOversized, Flush, SubmitFailsInout, SubmitFailsIrq,
      HandleIrqThrows, CallbackReturns, FlushSubmit, FlushReceive, FlushTimeout, Host, deviceVars, vars

RuntimeInv == Base /\ ServerInv /\ HwInv /\ Resets

LEMMA RuntimeInvariant ==
  ASSUME FlushWhen # "any"
  PROVE  Spec => []RuntimeInv
<1>1. Init => RuntimeInv
  BY InitBase, InitHwInv, InitResets DEF RuntimeInv
<1>2. RuntimeInv /\ [Next]_vars => RuntimeInv'
  BY NextKeepsBase, NextKeepsServerInv, NextKeepsHwInv, NextKeepsResets DEF RuntimeInv
<1> QED
  BY <1>1, <1>2, PTL DEF Spec

\* The command in progress can still end: the controller is at it, or has left
\* an interrupt status that is enabled as a signal and not cleared by anything
\* else.  (HwInv ties the interrupt status to the phase the head has reached.)
THEOREM CompletionAlwaysPending ==
  ASSUME FlushWhen # "any"
  PROVE  Spec => []CompletionPending
<1>1. ASSUME RuntimeInv PROVE CompletionPending
  BY <1>1, HeadIsTyped, PhaseCompletes DEF RuntimeInv, HwInv, CompletionPending, IrqLine
<1> QED
  BY <1>1, RuntimeInvariant, PTL

\* Success is answered exactly for the transfers that took place, for any
\* number of requests, in any order, with any errors of controller and card:
\* handle_irq() never takes the end of another command for the end of the
\* transfer, and never answers a request by the result of CMD12.
THEOREM AnswersAlwaysMatch ==
  ASSUME FlushWhen # "any"
  PROVE  Spec => AnswersMatchTransfers
<1>1. ASSUME RuntimeInv, RuntimeInv', [Next]_vars
      PROVE  [\A r \in Reqs : answer'[r] # answer[r] /\ answer'[r] # "none" =>
                (answer'[r] = "ok") = (r \in moved)]_vars
  BY <1>1, AnswersByIrq DEF RuntimeInv
<1> QED
  BY <1>1, RuntimeInvariant, PTL DEF Spec, AnswersMatchTransfers

-----------------------------------------------------------------------------
(* The card and the head: what the transfer state and the write cache of   *)
(* the card are at each phase of the head's command.                       *)

\* A transfer whose count was announced finds the card told of it.
CountedAt(k, c, h, xfer) ==
  /\ NeedsCount(k, c) /\ Ready(c) => xfer = "counted" /\ h.cmd = "none"
  /\ NeedsCount(k, c) /\ IsProgress(c) /\ h.cmd # "none" => xfer = "counted"
  /\ CountCmd(c) /\ IsProgress(c) /\ "cc" \in h.is => xfer = "counted"
  /\ OfRequest(k, c) /\ CountCmd(c) => c.status # "Success"

\* An open-ended transfer of the card is the head's, and CMD12 is next, unless
\* the exception of a late reset has kept handle_irq_inout() from it.
OpenAt(k, c, h, pc, xfer) ==
  xfer = "open" =>
    /\ OfRequest(k, c)
    /\ \/ c.cmd12 /\ IsProgress(c) /\ h.cmd = "none"
       \/ c.cmd12 /\ ~IsProgress(c) /\ ~Ready(c) /\ pc = "loop"
       \/ StopCmd(c) /\ (pc = "submit" \/ (IsProgress(c) /\ h.cmd # "none"))

\* Past the CMD6 of flush() the cache holds nothing the card was not told of.
CacheAt(c, h, pc, cache) ==
  /\ pc \in {"flSubmit", "flReceive"} /\ c.cmd = "CMD13" => cache # "dirty"
  /\ pc = "flReceive" /\ c.cmd = "CMD6" /\ "cc" \in h.is => cache # "dirty"

CardInv ==
  /\ CountedAt(drv, HeadCmd, hw, card.xfer)
  /\ OpenAt(drv, HeadCmd, hw, srv.pc, card.xfer)
  /\ CacheAt(HeadCmd, hw, srv.pc, card.cache)
  /\ card.cache = "dirty" => HasCache

LEMMA InitCardInv == Init => CardInv
<1> SUFFICES ASSUME Init PROVE CardInv
  OBVIOUS
<1>1. HeadCmd = InvalidCmd /\ card.xfer = "tran" /\ card.cache = "clean" /\ hw.is = {}
  BY DEF Init, EmptyQueue, Working, HeadCmd, HostInit
<1>2. ~InvalidCmd.inout /\ ~Ready(InvalidCmd) /\ ~IsProgress(InvalidCmd)
  BY InvalidIsAbandoned DEF Abandoned
<1> QED
  BY <1>1, <1>2 DEF CardInv, CountedAt, OpenAt, CacheAt, OfRequest, NeedsCount

\* A head that has not begun asks nothing of the card.
Calm(k, c) ==
  \/ Ready(c) /\ ~NeedsCount(k, c)
  \/ ~OfRequest(k, c) /\ ~IsProgress(c)

LEMMA CalmIs ==
  ASSUME NEW k, NEW c, Calm(k, c), NEW h, NEW x, NEW pc, NEW cache,
         x # "open", pc \notin {"flSubmit", "flReceive"}
  PROVE  CountedAt(k, c, h, x) /\ OpenAt(k, c, h, pc, x) /\ CacheAt(c, h, pc, cache)
<1>1. Ready(c) => ~IsProgress(c) /\ c.status # "Success"
  BY ReadyNoProgress DEF Ready
<1> QED
  BY <1>1 DEF Calm, CountedAt, OpenAt, CacheAt, NeedsCount

LEMMA KickedPc ==
  ASSUME NEW r, NEW cs, NEW ctx, NEW slot
  PROVE  Kicked(r, cs, ctx, slot).pc \in {"loop", "submit"}
<1>1. Loop.pc = "loop" /\ [Loop EXCEPT !.pc = "submit", !.ctx = ctx, !.slot = slot].pc = "submit"
  BY DEF Loop
<1> QED
  BY <1>1 DEF Kicked

LEMMA CardUntouched ==
  ASSUME CardInv, HeadCmd' = HeadCmd, UNCHANGED <<drv, hw, card>>,
         \/ srv'.pc = srv.pc
         \/ /\ ~InFlush' /\ srv.pc # "submit"
            /\ srv.pc = "loop" => srv'.pc = "loop" \/ Ready(HeadCmd)
  PROVE  CardInv'
  BY ReadyNoProgress DEF CardInv, OpenAt, CacheAt, InFlush

LEMMA NewHeadCard ==
  ASSUME CardInv, UNCHANGED <<drv, card>>, card.xfer # "open", ~InFlush',
         Calm(drv, HeadCmd')
  PROVE  CardInv'
  BY CalmIs DEF CardInv, InFlush

\* The head is retired; the one that follows has not begun.
LEMMA RetiredCard ==
  ASSUME Base, Base', ServerInv, CardInv, ~Idle, Retire(Working(q)),
         UNCHANGED <<drv, escaped, card>>, ~InFlush', card.xfer # "open"
  PROVE  CardInv'
<1>1. Calm(drv, HeadCmd')
  BY QueueRetires, InvalidIsAbandoned
  DEF ServerInv, Calm, Fresh, Abandoned, OfRequest
<1> QED
  BY <1>1, NewHeadCard

LEMMA IdleNotOpen ==
  ASSUME Base, CardInv, Idle
  PROVE  card.xfer # "open"
  BY HeadIsTyped, InvalidIsAbandoned DEF CardInv, OpenAt, Abandoned, OfRequest

LEMMA FlushNotOpen ==
  ASSUME Base, ServerInv, CardInv, InFlush
  PROVE  card.xfer # "open"
  BY FlushIsAtHead DEF CardInv, OpenAt, FlushCmd, OfRequest

LEMMA InoutDataCard ==
  ASSUME Base, Base', CardInv, NEW r \in Reqs, NEW read, NEW blocks,
         InoutData(r, read, blocks)
  PROVE  CardInv'
<1>1. PICK c :
        /\ Fresh(drv, c)
        /\ \/ Idle /\ HeadCmd' = c
           \/ ~Idle /\ HeadCmd' = HeadCmd
        /\ \/ srv.pc = "callback" /\ srv' = srv
           \/ srv.pc = "loop" /\ srv' = Kicked(q', cmds', "inout_data", q.create)
  BY InoutDataView
<1>2. UNCHANGED <<drv, hw, card>> /\ ~InFlush' /\ srv.pc # "submit"
  BY <1>1, KickedPc DEF InoutData, InFlush
<1>3. CASE Idle /\ HeadCmd' = c
  BY <1>1, <1>2, <1>3, IdleNotOpen, NewHeadCard DEF Fresh, Calm
<1>4. CASE ~Idle /\ HeadCmd' = HeadCmd
  <2>1. srv'.pc = srv.pc \/ srv'.pc = "loop" \/ Ready(HeadCmd')
    <3>1. HeadCmd' = IF Working(q') = NoSlot THEN InvalidCmd ELSE cmds'[Working(q')]
      BY DEF HeadCmd
    <3> QED
      BY <1>1, <3>1, LoopIsServer DEF Kicked, KickNeeded, Ready
  <2> QED
    BY <1>1, <1>2, <1>4, <2>1, CardUntouched
<1> QED
  BY <1>1, <1>3, <1>4

LEMMA OversizedCard ==
  ASSUME Base, Base', CardInv, NEW r \in Reqs, InoutDataOversized(r)
  PROVE  CardInv'
<1>1. /\ HeadCmd' = HeadCmd /\ UNCHANGED <<drv, hw, card>>
      /\ srv' \in {srv, Loop} /\ srv.pc \in {"loop", "callback"}
  BY OversizedView DEF InoutDataOversized, hostVars
<1> QED
  BY <1>1, LoopIsServer, CardUntouched DEF InFlush

LEMMA SubmitCard ==
  ASSUME Base, ServerInv, CardInv, Submit
  PROVE  /\ CardInv'
         /\ card.xfer = "open" => hw'.cmd \in StopTransmission
<1> DEFINE d == [HeadCmd EXCEPT !.status = "Progress_cmd"]
<1>0. d = [HeadCmd EXCEPT !.status = "Progress_cmd"] /\ AtHead
  BY DEF ServerInv
<1> HIDE DEF d
<1>1. /\ HeadCmd' = d /\ SameCommand(HeadCmd, d) /\ d.status = "Progress_cmd"
      /\ Ready(HeadCmd) /\ OfRequest(drv, HeadCmd) /\ OfRequest(drv, d)
      /\ hw' = Submitted(hw, HeadCmd) /\ srv' = Loop
  BY <1>0, SubmitView
<1>2. UNCHANGED <<drv, card>> /\ srv'.pc = "loop"
  BY <1>1, LoopIsServer DEF Submit
<1>3. hw'.is = {} /\ hw'.cmd = HeadCmd.cmd /\ d.cmd = HeadCmd.cmd
  BY <1>1, BaseIs DEF Submitted, HwTyped, HwFields, SameCommand
<1>4. (NeedsCount(drv, d) <=> NeedsCount(drv, HeadCmd)) /\ (StopCmd(d) <=> StopCmd(HeadCmd))
  BY <1>1, SameKind
<1>5. ~IsProgress(HeadCmd) /\ IsProgress(d)
  BY <1>1, ReadyNoProgress DEF IsProgress, ProgressStatus
<1>6. card.xfer = "open" => StopCmd(HeadCmd)
  BY <1>1, <1>5 DEF CardInv, OpenAt
<1>7. CountedAt(drv, d, hw', card.xfer)
  BY <1>1, <1>3, <1>4 DEF CardInv, CountedAt, Ready
<1>8. OpenAt(drv, d, hw', srv'.pc, card.xfer)
  BY <1>1, <1>3, <1>4, <1>5, <1>6 DEF OpenAt, StopCmd, StopTransmission
<1> QED
  BY <1>1, <1>2, <1>3, <1>6, <1>7, <1>8 DEF CardInv, CacheAt, StopCmd

LEMMA SubmitFailsCard ==
  ASSUME Base, Base', ServerInv, CardInv, SubmitFailsInout \/ SubmitFailsIrq
  PROVE  CardInv'
<1>1. /\ ~Idle /\ srv.pc = "submit" /\ srv' = Loop /\ srv'.pc = "loop"
      /\ UNCHANGED <<drv, hw, card>> /\ SubmitThrows(HeadCmd)
  BY NoSlotIsNoSlot, LoopIsServer, HeadIsTyped
  DEF SubmitFailsInout, SubmitFailsIrq, Base, HeadInv, DeviceInv, ServerHasHead, Idle, hostVars
<1>2. Ready(HeadCmd) /\ ~IsProgress(HeadCmd) /\ HeadCmd.hasData
  BY <1>1, ReadyNoProgress DEF ServerInv, AtHead, SubmitThrows, Ready
<1>3. card.xfer # "open" /\ ~InFlush'
  BY <1>1, <1>2 DEF CardInv, OpenAt, StopCmd, InFlush
<1>4. CASE Retire(Working(q)) /\ UNCHANGED escaped
  BY <1>1, <1>3, <1>4, RetiredCard
<1>5. CASE UNCHANGED <<q, cmds>>
  BY <1>1, <1>3, <1>5, QueueKept DEF CardInv, OpenAt, CacheAt, InFlush
<1> QED
  BY <1>4, <1>5 DEF SubmitFailsInout, SubmitFailsIrq, WorkDoneAllowed

LEMMA CallbackReturnsCard ==
  ASSUME Base, Base', ServerInv, CardInv, CallbackReturns
  PROVE  CardInv'
<1>1. /\ ~Idle /\ Retire(Working(q)) /\ UNCHANGED <<drv, escaped, card>>
      /\ srv.pc = "callback" /\ ~InFlush'
  BY NoSlotIsNoSlot, KickedPc
  DEF CallbackReturns, Base, HeadInv, DeviceInv, ServerHasHead, Idle, hostVars, InFlush
<1>2. card.xfer # "open"
  BY <1>1 DEF ServerInv, AtHead, CardInv, OpenAt
<1> QED
  BY <1>1, <1>2, RetiredCard

-----------------------------------------------------------------------------
LEMMA FlushCard ==
  ASSUME FlushWhen # "any", Base, CardInv, Flush
  PROVE  CardInv'
<1>1. CASE HasCache
  <2>1. PICK c :
          /\ Idle /\ HeadCmd' = c /\ FlushCmd(c) /\ Ready(c) /\ ~OfRequest(drv, c)
          /\ c.cmd = "CMD6" /\ srv'.pc = "flSubmit"
          /\ UNCHANGED <<drv, unmapped, stranded, answer, escaped, hostVars>>
    BY <1>1, FlushView
  <2>2. card.xfer # "open" /\ ~IsProgress(c)
    BY <2>1, IdleNotOpen, ReadyNoProgress
  <2> QED
    BY <2>1, <2>2 DEF CardInv, CountedAt, OpenAt, CacheAt, NeedsCount, hostVars
<1>2. CASE ~HasCache
  <2>1. HeadCmd' = HeadCmd
    BY <1>2, QueueKept DEF Flush
  <2> QED
    BY <1>2, <2>1, CardUntouched DEF Flush, hostVars
<1> QED
  BY <1>1, <1>2

LEMMA FlushSubmitCard ==
  ASSUME Base, ServerInv, CardInv, FlushSubmit
  PROVE  CardInv' /\ card.xfer # "open"
<1> DEFINE d == [HeadCmd EXCEPT !.status = "Progress_cmd"]
<1>0. d = [HeadCmd EXCEPT !.status = "Progress_cmd"]
  OBVIOUS
<1> HIDE DEF d
<1>1. /\ HeadCmd' = d /\ SameCommand(HeadCmd, d) /\ d.status = "Progress_cmd"
      /\ FlushCmd(d) /\ hw' = Submitted(hw, HeadCmd) /\ srv'.pc = "flReceive"
  BY <1>0, FlushSubmitView
<1>2. UNCHANGED <<drv, card>> /\ srv.pc = "flSubmit" /\ InFlush
  BY DEF FlushSubmit, InFlush
<1>3. hw'.is = {} /\ d.cmd = HeadCmd.cmd
  BY <1>1, BaseIs DEF Submitted, HwTyped, HwFields, SameCommand
<1>4. card.xfer # "open"
  BY <1>2, FlushNotOpen
<1> QED
  BY <1>1, <1>2, <1>3, <1>4
  DEF CardInv, CountedAt, OpenAt, CacheAt, NeedsCount, OfRequest, FlushCmd, Ready

LEMMA FlushEndsCard ==
  ASSUME Base, Base', ServerInv, CardInv, InFlush, NEW c, NEW result, FlushEnds(c, result),
         UNCHANGED <<drv, card>>
  PROVE  CardInv' /\ flushed' = result
<1>1. ~Idle /\ srv.slot = Working(q) /\ srv' = Loop
  BY FlushIsAtHead DEF FlushEnds
<1>2. Retire(Working(q)) /\ UNCHANGED escaped /\ flushed' = result
  BY <1>1 DEF FlushEnds, WorkDoneAllowed
<1>3. ~InFlush' /\ card.xfer # "open"
  BY <1>1, LoopIsServer, FlushNotOpen DEF InFlush
<1> QED
  BY <1>1, <1>2, <1>3, RetiredCard

\* The answer of flush() and the cache.
LEMMA FlushReceiveCard ==
  ASSUME NEW inTime \in BOOLEAN, Base, Base', ServerInv, HwInv, CardInv, FlushReceive(inTime)
  PROVE  /\ CardInv'
         /\ flushed' # flushed /\ flushed' = "ok" => card.cache # "dirty"
<1> DEFINE r == HandleIrqCmd(HeadCmd, hw, hw.is, inTime)
<1>0. r = HandleIrqCmd(HeadCmd, hw, hw.is, inTime)
  OBVIOUS
<1> HIDE DEF r
<1>1. /\ InFlush /\ HeadCmd.status = "Progress_cmd"
      /\ FlushCmd(HeadCmd) /\ FlushCmd(r.cmd) /\ IsCmd(r.cmd) /\ SameCommand(HeadCmd, r.cmd)
      /\ hw' = r.hw /\ UNCHANGED <<drv, card>>
  BY <1>0, FlushReceiveView
<1>2. srv.pc = "flReceive" /\ r.cmd.cmd = HeadCmd.cmd /\ card.xfer # "open"
  BY <1>1, FlushNotOpen DEF FlushReceive, SameCommand
<1>3. /\ IsProgress(r.cmd) => r.cmd = HeadCmd /\ r.hw = hw
      /\ ~IsProgress(r.cmd) /\ ~IsError(r.cmd) => "cc" \in hw.is
  <2>1. IsCmd(HeadCmd) /\ HwTyped(hw) /\ Phase(HeadCmd, hw, moved) /\ ~HeadCmd.hasData
    BY <1>1, BaseIs, HeadIsTyped DEF HwInv, FlushCmd
  <2> QED
    BY <1>0, <1>1, <2>1, IrqWithoutData
<1>4. CASE IsProgress(r.cmd) /\ HeadCmd' = r.cmd /\ UNCHANGED <<srv, flushed>>
  BY <1>1, <1>3, <1>4, CardUntouched
<1>5. CASE ~IsProgress(r.cmd) /\ IsError(r.cmd) /\ FlushEnds(r.cmd, "einval")
  BY <1>1, <1>5, FlushEndsCard
<1>6. CASE ~IsProgress(r.cmd) /\ ~IsError(r.cmd) /\ r.cmd.cmd # "CMD6" /\ FlushEnds(r.cmd, "ok")
  <2>1. HeadCmd.cmd = "CMD13"
    BY <1>1, <1>2, <1>6 DEF FlushCmd
  <2>2. card.cache # "dirty"
    BY <1>2, <2>1 DEF CardInv, CacheAt
  <2> QED
    BY <1>1, <1>6, <2>2, FlushEndsCard
<1>7. ASSUME NEW n \in 0 .. MaxPolls - 1, ~IsProgress(r.cmd), ~IsError(r.cmd),
             PollStatus(r.cmd, n)
      PROVE  /\ CardInv'
             /\ flushed' = flushed
  <2> DEFINE d == InitArg(r.cmd, "CMD13", 0)
  <2>0. d = InitArg(r.cmd, "CMD13", 0)
    OBVIOUS
  <2> HIDE DEF d
  <2>1. /\ HeadCmd' = d /\ FlushCmd(d) /\ Ready(d) /\ ~OfRequest(drv, d)
        /\ srv'.pc = "flSubmit" /\ flushed' = flushed
    BY <1>1, <1>7, <2>0, PollView
  <2>2. card.cache # "dirty"
    BY <1>1, <1>2, <1>3, <1>7 DEF CardInv, CacheAt, FlushCmd
  <2>3. ~IsProgress(d)
    BY <2>1, ReadyNoProgress
  <2> QED
    BY <1>1, <1>2, <2>1, <2>2, <2>3 DEF CardInv, CountedAt, OpenAt, CacheAt, NeedsCount
<1> QED
  BY <1>0, <1>4, <1>5, <1>6, <1>7, FlushReceiveView

LEMMA FlushTimeoutCard ==
  ASSUME Base, Base', ServerInv, CardInv, FlushTimeout
  PROVE  CardInv' /\ flushed' = "einval"
<1>1. InFlush /\ FlushEnds(cmds[srv.slot], "einval") /\ UNCHANGED <<drv, card>>
  BY DEF FlushTimeout, InFlush, hostVars
<1> QED
  BY <1>1, FlushEndsCard

\* handle_irq_inout() for a count that was announced to the card.
LEMMA CountGoesOn ==
  ASSUME NEW c, IsCmd(c), CountCmd(c), c.status = "Success", drv \in Drivers,
         NEW w, w = HandleIrqInout(drv, c)
  PROVE  w.reply = "none"
<1>1. drv.adma2 /\ ~c.cmd12 /\ ~IsError(c) /\ c.cmd = "CMD23" /\ c.cmd \notin StopTransmission
  BY DeviceAssumption DEF CountCmd, IsError, ErrorStatus, StopTransmission
<1>2. w = HandleIrqInoutAdma2(drv, c)
  BY <1>1 DEF HandleIrqInout
<1> QED
  BY <1>1, <1>2 DEF HandleIrqInoutAdma2, More

\* handle_irq() on a command that waits for the controller keeps waiting.
LEMMA IrqWaits ==
  ASSUME NEW c, IsCmd(c), NEW h, HwTyped(h), NEW m, Phase(c, h, m), IsProgress(c),
         h.cmd # "none", NEW inTime \in BOOLEAN,
         NEW r, r = HandleIrq(c, h, inTime)
  PROVE  r.cmd = c /\ r.hw = h
<1>1. Sending(c, h, m)
  BY DEF Phase, Working1
<1>2. c.status = "Progress_cmd" /\ h.is \cap {"ctoe", "cerr", "ac12e", "cc"} = {}
  BY <1>1 DEF Sending
<1> DEFINE s == HandleIrqCmd(c, h, h.is, inTime)
<1>3. s = HandleIrqCmd(c, h, h.is, inTime)
  OBVIOUS
<1> HIDE DEF s
<1>4. s.cmd = c /\ s.hw = h
  BY <1>2, <1>3, HandleIrqCmdHw
<1>5. r = s
  BY <1>2, <1>3, <1>4 DEF HandleIrq
<1> QED
  BY <1>4, <1>5

LEMMA IrqCommandKept ==
  ASSUME NEW c, IsCmd(c), NEW h, HwTyped(h), NEW inTime \in BOOLEAN,
         NEW r, r = HandleIrq(c, h, inTime)
  PROVE  r.hw.cmd = h.cmd
<1> DEFINE s == IF c.status = "Progress_cmd" THEN HandleIrqCmd(c, h, h.is, inTime)
                ELSE [cmd |-> c, hw |-> h]
<1>1. s = IF c.status = "Progress_cmd" THEN HandleIrqCmd(c, h, h.is, inTime)
          ELSE [cmd |-> c, hw |-> h]
  OBVIOUS
<1>2. r = IF s.cmd.status = "Progress_data" THEN HandleIrqData(s.cmd, s.hw, h.is, inTime) ELSE s
  BY DEF HandleIrq
<1> HIDE DEF s
<1>3. s.hw.cmd = h.cmd /\ IsCmd(s.cmd) /\ HwTyped(s.hw)
  <2>1. CASE c.status = "Progress_cmd"
    <3>1. s = HandleIrqCmd(c, h, h.is, inTime)
      BY <1>1, <2>1
    <3>2. s.hw.cmd = h.cmd
      BY <3>1, HandleIrqCmdHw
    <3>3. IsCmd(s.cmd) /\ HwTyped(s.hw)
      BY <3>1, HandleIrqCmdTyped
    <3> QED
      BY <3>2, <3>3
  <2>2. CASE c.status # "Progress_cmd"
    BY <1>1, <2>2
  <2> QED
    BY <2>1, <2>2
<1>4. CASE s.cmd.status = "Progress_data"
  <2>1. r = HandleIrqData(s.cmd, s.hw, h.is, inTime)
    BY <1>2, <1>4
  <2> QED
    BY <1>3, <2>1, HandleIrqDataHw
<1>5. CASE s.cmd.status # "Progress_data"
  BY <1>2, <1>3, <1>5
<1> QED
  BY <1>4, <1>5

\* Handled by the driver, a command ends in one of these.
LEMMA IrqStatus ==
  ASSUME NEW c, IsCmd(c), NEW h, HwTyped(h), IsProgress(c), NEW inTime \in BOOLEAN,
         NEW r, r = HandleIrq(c, h, inTime)
  PROVE  r.cmd.status \in {"Success", "Cmd_timeout", "Cmd_error", "Data_error"}
                            \cup ProgressStatus
<1> DEFINE s == IF c.status = "Progress_cmd" THEN HandleIrqCmd(c, h, h.is, inTime)
                ELSE [cmd |-> c, hw |-> h]
<1>1. s = IF c.status = "Progress_cmd" THEN HandleIrqCmd(c, h, h.is, inTime)
          ELSE [cmd |-> c, hw |-> h]
  OBVIOUS
<1>2. r = IF s.cmd.status = "Progress_data" THEN HandleIrqData(s.cmd, s.hw, h.is, inTime) ELSE s
  BY DEF HandleIrq
<1> HIDE DEF s
<1>3. /\ s.cmd.status \in {"Success", "Cmd_timeout", "Cmd_error"} \cup ProgressStatus
      /\ IsCmd(s.cmd) /\ HwTyped(s.hw)
  <2>1. CASE c.status = "Progress_cmd"
    <3>1. s = HandleIrqCmd(c, h, h.is, inTime)
      BY <1>1, <2>1
    <3>2. s.cmd.status \in {"Success", "Cmd_timeout", "Cmd_error"} \cup ProgressStatus
      BY <2>1, <3>1, HandleIrqCmdHw DEF ProgressStatus
    <3>3. IsCmd(s.cmd) /\ HwTyped(s.hw)
      BY <3>1, HandleIrqCmdTyped
    <3> QED
      BY <3>2, <3>3
  <2>2. CASE c.status # "Progress_cmd"
    BY <1>1, <2>2 DEF IsProgress
  <2> QED
    BY <2>1, <2>2
<1>4. CASE s.cmd.status = "Progress_data"
  <2>1. r = HandleIrqData(s.cmd, s.hw, h.is, inTime)
    BY <1>2, <1>4
  <2>2. r.cmd.status \in {"Data_error", "Success"} \/ r.cmd = s.cmd
    BY <1>3, <2>1, HandleIrqDataHw
  <2> QED
    BY <1>3, <2>2
<1>5. CASE s.cmd.status # "Progress_data"
  BY <1>2, <1>3, <1>5
<1> QED
  BY <1>4, <1>5

LEMMA HandleIrqCard ==
  ASSUME Base, Base', ServerInv, HwInv, CardInv, HandleIrqMessage
  PROVE  CardInv' /\ hw'.cmd = hw.cmd
<1> DEFINE inTime == TRUE
           r == HandleIrq(HeadCmd, hw, inTime)
           w == HandleIrqInout(drv, r.cmd)
<1>0. AtHead /\ r = HandleIrq(HeadCmd, hw, inTime) /\ w = HandleIrqInout(drv, r.cmd)
      /\ HwTyped(hw) /\ IsCmd(HeadCmd) /\ drv \in Drivers /\ inTime \in BOOLEAN
  BY BaseIs, HeadIsTyped DEF ServerInv
<1>7. r = HandleIrq(HeadCmd, hw, TRUE)
  OBVIOUS
<1> HIDE DEF inTime, r, w
<1>1. UNCHANGED <<drv, q, card>> /\ srv.pc = "loop"
  BY DEF HandleIrqMessage
<1>2. CASE UNCHANGED <<cmds, hw>> /\ srv' \in {srv, Loop}
  BY <1>1, <1>2, QueueKept, LoopIsServer, CardUntouched
<1>3. ASSUME OfRequest(drv, HeadCmd), IsCmd(r.cmd), SameCommand(HeadCmd, r.cmd),
             OfRequest(drv, r.cmd)
      PROVE  /\ r.hw.cmd = hw.cmd
             /\ ~IsProgress(HeadCmd) => r.cmd = HeadCmd /\ r.hw = hw
             /\ hw.cmd # "none" /\ IsProgress(HeadCmd) => r.cmd = HeadCmd /\ r.hw = hw
             /\ card.xfer = "open" => r.cmd.cmd12 \/ (IsProgress(HeadCmd) /\ r.cmd = HeadCmd)
             /\ CountCmd(r.cmd) /\ r.cmd.status = "Success"
                  => card.xfer = "counted" /\ hw.cmd = "none"
  <2>1. r.hw.cmd = hw.cmd
    BY <1>0, IrqCommandKept
  <2>2. ASSUME ~IsProgress(HeadCmd) PROVE r.cmd = HeadCmd /\ r.hw = hw
    BY <1>0, <2>2, HandleIrqSame
  <2>3. ASSUME hw.cmd # "none", IsProgress(HeadCmd) PROVE r.cmd = HeadCmd /\ r.hw = hw
    <3>1. Phase(HeadCmd, hw, moved)
      BY DEF HwInv
    <3> QED
      BY <1>0, <2>3, <3>1, IrqWaits
  <2>4. ASSUME card.xfer = "open"
        PROVE  r.cmd.cmd12 \/ (IsProgress(HeadCmd) /\ r.cmd = HeadCmd)
    BY <1>1, <1>3, <2>3, <2>4 DEF CardInv, OpenAt, SameCommand
  <2>5. ASSUME CountCmd(r.cmd), r.cmd.status = "Success"
        PROVE  card.xfer = "counted" /\ hw.cmd = "none"
    <3>1. CountCmd(HeadCmd) /\ ~HeadCmd.hasData
      BY <1>3, <2>5, SameKind DEF CountCmd
    <3>2. IsProgress(HeadCmd)
      BY <1>3, <2>2, <2>5, <3>1 DEF CardInv, CountedAt
    <3>3. ~IsProgress(r.cmd) /\ ~IsError(r.cmd)
      BY <2>5 DEF IsProgress, IsError, ProgressStatus, ErrorStatus
    <3>4. "cc" \in hw.is /\ hw.cmd = "none"
      BY <1>0, <3>1, <3>2, <3>3, IrqPhase DEF HwInv
    <3> QED
      BY <3>1, <3>2, <3>4 DEF CardInv, CountedAt
  <2> QED
    BY <2>1, <2>2, <2>3, <2>4, <2>5
<1>4. CASE /\ OfRequest(drv, HeadCmd) /\ IsCmd(r.cmd)
           /\ SameCommand(HeadCmd, r.cmd) /\ OfRequest(drv, r.cmd) /\ hw' = r.hw
           /\ IsProgress(r.cmd) /\ HeadCmd' = r.cmd /\ UNCHANGED srv
  <2>1. IsProgress(HeadCmd)
    BY <1>3, <1>4
  <2>2. ~Ready(r.cmd) /\ r.cmd.status # "Success"
    BY <1>4 DEF Ready, IsProgress, ProgressStatus
  <2>3. CountCmd(r.cmd) => r.cmd = HeadCmd /\ r.hw = hw
    <3>1. ASSUME CountCmd(r.cmd), hw.cmd = "none" PROVE r.cmd = HeadCmd /\ r.hw = hw
      <4>1. ~HeadCmd.hasData /\ HeadCmd.status = "Progress_cmd"
        BY <1>4, <2>1, <3>1, SameKind DEF CountCmd, HwInv, Phase, Working1, Answered
      <4>2. r = HandleIrqCmd(HeadCmd, hw, hw.is, inTime)
        <5> DEFINE s == HandleIrqCmd(HeadCmd, hw, hw.is, inTime)
        <5>1. s = HandleIrqCmd(HeadCmd, hw, hw.is, inTime)
          OBVIOUS
        <5> HIDE DEF s
        <5>2. Phase(HeadCmd, hw, moved)
          BY DEF HwInv
        <5>3. s.cmd.status # "Progress_data"
          BY <1>0, <4>1, <5>1, <5>2, IrqWithoutData
        <5> QED
          BY <1>0, <4>1, <5>1, <5>3 DEF HandleIrq
      <4>3. Phase(HeadCmd, hw, moved)
        BY DEF HwInv
      <4> QED
        BY <1>0, <1>4, <4>1, <4>2, <4>3, IrqWithoutData
    <3> QED
      BY <1>3, <1>4, <2>1, <3>1
  <2>4. NeedsCount(drv, r.cmd) <=> NeedsCount(drv, HeadCmd)
    BY <1>4, SameKind
  <2>5. CountedAt(drv, r.cmd, r.hw, card.xfer)
    BY <1>3, <1>4, <2>1, <2>2, <2>3, <2>4 DEF CardInv, CountedAt
  <2>6. OpenAt(drv, r.cmd, r.hw, srv.pc, card.xfer)
    BY <1>1, <1>3, <1>4, <2>1 DEF CardInv, OpenAt, SameCommand
  <2> QED
    BY <1>1, <1>3, <1>4, <2>5, <2>6 DEF CardInv, CacheAt
<1>5. CASE /\ OfRequest(drv, HeadCmd) /\ IsCmd(r.cmd)
           /\ SameCommand(HeadCmd, r.cmd) /\ OfRequest(drv, r.cmd) /\ hw' = r.hw
           /\ ~IsProgress(r.cmd) /\ w.reply = "none" /\ HeadCmd' = w.cmd
           /\ (Ready(w.cmd) => srv'.pc = "submit")
  <2>1. /\ OfRequest(drv, w.cmd) /\ Ready(w.cmd)
        /\ \/ DataCmd(drv, r.cmd) /\ r.cmd.cmd12 /\ StopCmd(w.cmd)
           \/ CountCmd(r.cmd) /\ r.cmd.status = "Success" /\ DataCmd(drv, w.cmd)
    BY <1>0, <1>5, HandleIrqInoutMore
  <2>2. ~IsProgress(w.cmd) /\ w.cmd.status # "Success" /\ srv'.pc = "submit"
    BY <1>5, <2>1, ReadyNoProgress DEF Ready
  <2>3. CASE StopCmd(w.cmd)
    BY <1>1, <1>3, <1>5, <2>1, <2>2, <2>3
    DEF CardInv, CountedAt, OpenAt, CacheAt, NeedsCount, StopCmd
  <2>4. CASE CountCmd(r.cmd) /\ r.cmd.status = "Success" /\ DataCmd(drv, w.cmd)
    <3>1. card.xfer = "counted" /\ hw'.cmd = "none"
      BY <1>3, <1>5, <2>4
    <3> QED
      BY <1>1, <1>3, <1>5, <2>1, <2>2, <3>1 DEF CardInv, CountedAt, OpenAt, CacheAt
  <2> QED
    BY <2>1, <2>3, <2>4
<1>6. CASE /\ OfRequest(drv, HeadCmd) /\ IsCmd(r.cmd)
           /\ SameCommand(HeadCmd, r.cmd) /\ OfRequest(drv, r.cmd) /\ hw' = r.hw
           /\ ~IsProgress(r.cmd) /\ w.reply # "none" /\ HeadCmd' = w.cmd
           /\ srv'.pc = "callback"
  <2>0. StopCmd(r.cmd) => r.cmd.status12 \notin ProgressStatus
    <3>1. (StopCmd(r.cmd) <=> StopCmd(HeadCmd)) /\ r.cmd.status12 = HeadCmd.status12
      BY <1>6, SameKind
    <3> QED
      BY <1>0, <1>6, <3>1 DEF AtHead
  <2>1. /\ OfRequest(drv, w.cmd) /\ ~IsProgress(w.cmd)
        /\ \/ StopCmd(r.cmd) /\ StopCmd(w.cmd)
           \/ DataCmd(drv, r.cmd) /\ w.cmd = r.cmd
           \/ CountCmd(r.cmd) /\ w.cmd = r.cmd
    BY <1>0, <1>6, <2>0, HandleIrqInoutDone
  <2>2. card.xfer # "open"
    <3>1. ASSUME card.xfer = "open" PROVE FALSE
      <4>1. r.cmd.cmd12
        BY <1>3, <1>6, <3>1
      <4>2. AutoCmd12 = FALSE
        BY DEF AutoCmd12
      <4>3. w.reply = "none"
        BY <1>0, <4>1, <4>2 DEF HandleIrqInout, More
      <4> QED
        BY <1>6, <4>3
    <3> QED
      BY <3>1
  <2>3. CountedAt(drv, w.cmd, hw', card.xfer)
    <3>1. CASE StopCmd(w.cmd)
      BY <3>1 DEF CountedAt, NeedsCount, StopCmd, CountCmd, StopTransmission
    <3>2. CASE DataCmd(drv, r.cmd) /\ w.cmd = r.cmd
      <4>1. ~CountCmd(w.cmd)
        BY <3>2 DEF DataCmd, CountCmd
      <4>2. ASSUME Ready(r.cmd) PROVE r.cmd = HeadCmd /\ r.hw = hw
        <5>1. CASE IsProgress(HeadCmd)
          <6>1. r.cmd.status \in {"Success", "Cmd_timeout", "Cmd_error", "Data_error"}
                  \cup ProgressStatus
            BY <1>0, <5>1, IrqStatus
          <6> QED
            BY <4>2, <6>1 DEF Ready, ProgressStatus
        <5>2. CASE ~IsProgress(HeadCmd)
          BY <1>3, <1>6, <5>2
        <5> QED
          BY <5>1, <5>2
      <4> QED
        BY <1>6, <2>1, <3>2, <4>1, <4>2 DEF CardInv, CountedAt
    <3>3. CASE CountCmd(r.cmd) /\ w.cmd = r.cmd
      <4>1. r.cmd.status # "Success"
        BY <1>0, <1>6, <3>3, CountGoesOn
      <4>2. ~NeedsCount(drv, r.cmd)
        BY <3>3 DEF NeedsCount, CountCmd
      <4> QED
        BY <2>1, <3>3, <4>1, <4>2 DEF CountedAt
    <3> QED
      BY <2>1, <3>1, <3>2, <3>3
  <2> QED
    BY <1>1, <1>3, <1>6, <2>2, <2>3 DEF CardInv, OpenAt, CacheAt
<1>8. AtHead /\ w = HandleIrqInout(drv, r.cmd)
  BY <1>0
<1>9. \/ UNCHANGED <<cmds, hw>> /\ srv' \in {srv, Loop}
      \/ /\ OfRequest(drv, HeadCmd) /\ IsCmd(r.cmd)
         /\ SameCommand(HeadCmd, r.cmd) /\ OfRequest(drv, r.cmd) /\ hw' = r.hw
         /\ \/ IsProgress(r.cmd) /\ HeadCmd' = r.cmd /\ UNCHANGED srv
            \/ /\ ~IsProgress(r.cmd) /\ w.reply = "none" /\ HeadCmd' = w.cmd
               /\ Ready(w.cmd) => srv'.pc = "submit"
            \/ ~IsProgress(r.cmd) /\ w.reply # "none" /\ HeadCmd' = w.cmd
               /\ srv'.pc = "callback"
  BY <1>7, <1>8, IrqView
<1> QED
  BY <1>2, <1>3, <1>4, <1>5, <1>6, <1>9

\* The exception of a late reset leaves an open-ended transfer without CMD12, and
\* nothing is sent until the head is handled again.
LEMMA HandleIrqThrowsCard ==
  ASSUME Base, Base', ServerInv, HwInv, CardInv, HandleIrqThrows
  PROVE  CardInv' /\ hw'.cmd = hw.cmd
<1> DEFINE inTime == FALSE
           r == HandleIrq(HeadCmd, hw, inTime)
<1>0. AtHead /\ r = HandleIrq(HeadCmd, hw, FALSE) /\ inTime \in BOOLEAN
      /\ r = HandleIrq(HeadCmd, hw, inTime) /\ HwTyped(hw)
  BY BaseIs DEF ServerInv
<1> HIDE DEF inTime, r
<1>1. /\ UNCHANGED <<drv, srv, card>> /\ srv.pc = "loop"
      /\ IsCmd(HeadCmd) /\ IsProgress(HeadCmd) /\ IsError(r.cmd) /\ ~IsProgress(r.cmd)
      /\ SameCommand(HeadCmd, r.cmd) /\ OfRequest(drv, r.cmd)
      /\ HeadCmd' = r.cmd /\ hw' = r.hw
  BY <1>0, IrqThrowsView
<1>2. hw'.cmd = hw.cmd
  BY <1>0, <1>1, IrqCommandKept
<1>3. hw.cmd = "none"
  <2>1. ASSUME hw.cmd # "none" PROVE r.cmd = HeadCmd
    <3>1. /\ IsCmd(HeadCmd) /\ HwTyped(hw) /\ Phase(HeadCmd, hw, moved)
          /\ IsProgress(HeadCmd) /\ inTime \in BOOLEAN /\ r = HandleIrq(HeadCmd, hw, inTime)
      BY <1>0, <1>1 DEF HwInv
    <3> QED
      BY <2>1, <3>1, IrqWaits
  <2> QED
    BY <1>1, <2>1
<1>4. ~Ready(r.cmd) /\ r.cmd.status # "Success"
  <2>1. r.cmd.status \in {"Success", "Cmd_timeout", "Cmd_error", "Data_error"}
                           \cup ProgressStatus
    BY <1>0, <1>1, IrqStatus
  <2> QED
    BY <1>1, <2>1 DEF Ready, IsError, ErrorStatus, ProgressStatus
<1>5. CountedAt(drv, r.cmd, hw', card.xfer)
  BY <1>1, <1>4 DEF CountedAt
<1>6. OpenAt(drv, r.cmd, hw', "loop", card.xfer)
  BY <1>1, <1>3, <1>4 DEF CardInv, OpenAt, SameCommand
<1> QED
  BY <1>1, <1>2, <1>5, <1>6 DEF CardInv, CacheAt

LEMMA CardAcceptsIs ==
  ASSUME card \in CardStates, NEW cache, NEW d, d = CardAccepts(cache)
  PROVE  /\ d.cache = cache
         /\ d.xfer = IF hw.cmd = "CMD23" THEN "counted"
                     ELSE IF hw.cmd \in StopTransmission THEN "tran"
                     ELSE IF ~hw.hasData THEN card.xfer
                     ELSE IF hw.auto23 \/ card.xfer = "counted" \/ hw.cmd \notin MultipleBlock
                       THEN "bounded"
                     ELSE "open"
  BY DEF CardAccepts, CardStates

\* The card after it accepted the command the controller was sending.
LEMMA AcceptedCard ==
  ASSUME HwTyped(hw), card \in CardStates, NEW c, Phase(c, hw, moved), hw.cmd # "none",
         IsProgress(c) => Sendable(drv, c), NEW pc, pc = "submit" => ~IsProgress(c),
         CountedAt(drv, c, hw, card.xfer), OpenAt(drv, c, hw, pc, card.xfer),
         NEW cache, NEW d, d = CardAccepts(cache), NEW h, h.cmd = "none"
  PROVE  CountedAt(drv, c, h, d.xfer) /\ OpenAt(drv, c, h, pc, d.xfer)
<1>1. d.xfer = IF hw.cmd = "CMD23" THEN "counted"
               ELSE IF hw.cmd \in StopTransmission THEN "tran"
               ELSE IF ~hw.hasData THEN card.xfer
               ELSE IF hw.auto23 \/ card.xfer = "counted" \/ hw.cmd \notin MultipleBlock
                 THEN "bounded"
               ELSE "open"
  BY CardAcceptsIs
<1>2. CASE ~IsProgress(c)
  <2>1. hw.cmd \in {"CMD6", "CMD13"} /\ ~hw.hasData
    BY <1>2 DEF Phase, LeftOver
  <2>2. d.xfer = card.xfer
    BY <1>1, <2>1 DEF StopTransmission
  <2> QED
    BY <1>2, <2>2 DEF CountedAt, OpenAt
<1>3. CASE IsProgress(c)
  <2>1. /\ hw.cmd = c.cmd /\ (hw.hasData <=> c.hasData) /\ (hw.auto23 <=> c.auto23)
        /\ c.status = "Progress_cmd" /\ Sendable(drv, c)
    BY <1>3 DEF Phase, Working1, Sending
  <2>2. ~Ready(c) /\ c.status # "Success" /\ pc # "submit"
    BY <1>3, <2>1 DEF Ready
  <2>3. CountedAt(drv, c, h, d.xfer)
    BY <1>1, <2>1, <2>2 DEF CountedAt, CountCmd
  <2>4. CASE c.hasData
    <3>1. OfRequest(drv, c) /\ DataCmd(drv, c)
      BY <2>1, <2>4 DEF Sendable, OfRequest, FlushCmd, CountCmd, StopCmd
    <3>2. ASSUME d.xfer = "open" PROVE c.cmd12
      <4>1. ~c.auto23 /\ card.xfer # "counted"
        BY <1>1, <2>1, <2>4, <3>2
      <4>2. ~NeedsCount(drv, c)
        BY <1>3, <4>1 DEF CountedAt
      <4> QED
        BY <2>4, <3>1, <4>1, <4>2 DEF NeedsCount
    <3> QED
      BY <1>3, <2>3, <3>1, <3>2 DEF OpenAt
  <2>5. CASE ~c.hasData
    <3>1. ASSUME d.xfer = "open" PROVE FALSE
      <4>1. card.xfer = "open" /\ hw.cmd \notin StopTransmission
        BY <1>1, <2>1, <2>5, <3>1
      <4> QED
        BY <1>3, <2>1, <2>2, <4>1 DEF OpenAt, StopCmd
    <3> QED
      BY <2>3, <3>1 DEF OpenAt
  <2> QED
    BY <2>4, <2>5
<1> QED
  BY <1>2, <1>3

\* What the controller and the card do by themselves.
LEMMA HostCard ==
  ASSUME Base, ServerInv, HwInv, CardInv, Host
  PROVE  /\ CardInv'
         /\ hw'.cmd # hw.cmd => hw'.cmd = "none"
<1> DEFINE c == HeadCmd
<1>0. /\ HwTyped(hw) /\ card \in CardStates /\ Phase(c, hw, moved)
      /\ IsProgress(c) => Sendable(drv, c)
      /\ srv.pc = "submit" => ~IsProgress(c) /\ Ready(c)
      /\ InFlush => ~c.hasData
      /\ srv.pc = "flReceive" => c.status = "Progress_cmd"
      /\ CountedAt(drv, c, hw, card.xfer) /\ OpenAt(drv, c, hw, srv.pc, card.xfer)
      /\ CacheAt(c, hw, srv.pc, card.cache) /\ (card.cache = "dirty" => HasCache)
  BY BaseIs, ProgressIsSendable, ReadyNoProgress
  DEF Typed, ServerInv, AtHead, HwInv, CardInv, FlushCmd
<1>1. UNCHANGED <<drv, srv>> /\ HeadCmd' = c /\ HostNext
  BY QueueKept DEF Host, deviceVars
<1> HIDE DEF c
<1>2. ASSUME CountedAt(drv, c, hw', card'.xfer), OpenAt(drv, c, hw', srv.pc, card'.xfer),
             CacheAt(c, hw', srv.pc, card'.cache), card'.cache = "dirty" => HasCache
      PROVE  CardInv'
  BY <1>1, <1>2 DEF CardInv
<1> DEFINE h == CommandOver(hw)
<1>3. /\ HwTyped(h) /\ h.cmd = "none" /\ h.is = hw.is
  BY <1>0, CommandOverIs
<1> HIDE DEF h
<1>4. ASSUME srv.pc = "flReceive", hw.cmd # "none"
      PROVE  hw.cmd = c.cmd /\ hw.is \cap {"cc"} = {}
  <2>1. IsProgress(c)
    BY <1>0, <1>4 DEF IsProgress, ProgressStatus
  <2> QED
    BY <1>0, <1>4, <2>1 DEF Phase, Working1, Sending
<1>5. ASSUME hw.cmd # "none", hw'.cmd = "none", card' = card, hw.auto23
      PROVE  CountedAt(drv, c, hw', card.xfer) /\ OpenAt(drv, c, hw', srv.pc, card.xfer)
  <2>1. IsProgress(c) /\ c.auto23
    BY <1>0, <1>5 DEF Phase, LeftOver, Working1, Sending
  <2>2. ~NeedsCount(drv, c) /\ ~CountCmd(c) /\ ~StopCmd(c)
    BY <2>1 DEF NeedsCount, CountCmd, StopCmd
  <2>3. card.xfer # "open"
    BY <1>0, <1>5, <2>1, <2>2 DEF OpenAt
  <2> QED
    BY <2>2, <2>3 DEF CountedAt, OpenAt
<1>6. CASE CommandResponds
  <2> DEFINE dat == IF hw.hasData THEN "data"
                    ELSE IF hw.cmd \in RspCheckBusy THEN "busy" ELSE h.dat
             req == IF hw.hasData THEN hw.req ELSE h.datReq
             resp == IF hw.cmd # "CMD13" THEN h.resp
                     ELSE IF card.cache = "refused" THEN "switch_error"
                     ELSE IF hw.dat = "busy" THEN "busy" ELSE "ready"
  <2>1. hw' = [h EXCEPT !.cihb = FALSE, !.is = @ \cup {"cc"}, !.dat = dat,
                        !.datReq = req, !.resp = resp]
        /\ hw.cmd # "none"
    BY <1>6 DEF CommandResponds, h
  <2>2. PICK cache : /\ card' = CardAccepts(cache)
                     /\ cache \in IF hw.cmd = "CMD6" THEN {"flushing", "refused"}
                                                     ELSE {card.cache}
    BY <1>6 DEF CommandResponds
  <2> HIDE DEF dat, req, resp
  <2>3. hw'.cmd = "none"
    BY <1>3, <2>1 DEF HwTyped, HwFields
  <2>4. card'.cache = cache
    BY <1>0, <2>2, CardAcceptsIs
  <2>5. CountedAt(drv, c, hw', card'.xfer) /\ OpenAt(drv, c, hw', srv.pc, card'.xfer)
    BY <1>0, <2>1, <2>2, <2>3, AcceptedCard
  <2>6. CacheAt(c, hw', srv.pc, card'.cache) /\ (card'.cache = "dirty" => HasCache)
    BY <1>0, <1>4, <2>1, <2>2, <2>4 DEF CacheAt
  <2> QED
    BY <1>2, <2>3, <2>5, <2>6
<1>7. CASE CommandFails
  <2>1. PICK e \in {"ctoe", "cerr"} : hw' = [h EXCEPT !.is = @ \cup {e}]
    BY <1>7 DEF CommandFails, h
  <2>2. hw'.cmd = "none" /\ hw'.is = hw.is \cup {e} /\ hw.cmd # "none"
    BY <1>3, <1>7, <2>1 DEF HwTyped, HwFields, CommandFails
  <2>3. CASE card' = [card EXCEPT !.xfer = IF hw.cmd \in StopTransmission
                                             THEN "aborted" ELSE "tran"]
    <3>1. card'.xfer # "open" /\ card'.cache = card.cache
      BY <1>0, <2>3 DEF CardStates
    <3>2. CountedAt(drv, c, hw', card'.xfer)
      <4>1. CASE IsProgress(c)
        <5>1. hw.is \subseteq {"tc"} /\ c.status = "Progress_cmd"
          BY <1>0, <2>2, <4>1 DEF Phase, Working1, Sending
        <5>2. ~Ready(c) /\ c.status # "Success" /\ "cc" \notin hw'.is
          BY <2>2, <5>1 DEF Ready
        <5> QED
          BY <2>2, <5>2 DEF CountedAt
      <4>2. CASE ~IsProgress(c)
        BY <1>0, <2>2, <4>2 DEF CountedAt
      <4> QED
        BY <4>1, <4>2
    <3>3. OpenAt(drv, c, hw', srv.pc, card'.xfer)
      BY <3>1 DEF OpenAt
    <3>4. CacheAt(c, hw', srv.pc, card'.cache)
      BY <1>0, <2>2, <3>1 DEF CacheAt
    <3> QED
      BY <1>0, <1>2, <2>2, <3>1, <3>2, <3>3, <3>4
  <2>4. CASE card' = CardAccepts(card.cache)
    <3>1. card'.cache = card.cache
      BY <1>0, <2>4, CardAcceptsIs
    <3>2. CountedAt(drv, c, hw', card'.xfer) /\ OpenAt(drv, c, hw', srv.pc, card'.xfer)
      BY <1>0, <2>2, <2>4, AcceptedCard
    <3>3. CacheAt(c, hw', srv.pc, card'.cache)
      BY <1>0, <2>2, <3>1 DEF CacheAt
    <3> QED
      BY <1>0, <1>2, <2>2, <3>1, <3>2, <3>3
  <2> QED
    BY <1>7, <2>3, <2>4 DEF CommandFails
<1>8. CASE AutoCommandFails
  <2>1. hw' = [h EXCEPT !.is = @ \cup {"ac12e"}] /\ card' = card
    BY <1>8 DEF AutoCommandFails, h
  <2>2. /\ hw'.cmd = "none" /\ hw'.is = hw.is \cup {"ac12e"} /\ hw.cmd # "none"
        /\ hw.auto23
    BY <1>3, <1>8, <2>1 DEF HwTyped, HwFields, AutoCommandFails
  <2>3. CacheAt(c, hw', srv.pc, card'.cache)
    BY <1>0, <2>1, <2>2 DEF CacheAt
  <2> QED
    BY <1>0, <1>2, <1>5, <2>1, <2>2, <2>3
<1>9. CASE DataPhaseEnds
  <2>1. hw.dat = "data" /\ hw'.cmd = hw.cmd /\ hw'.is \cap {"cc"} = hw.is \cap {"cc"}
    <3>1. CASE DataCompletes
      <4>1. hw.dat = "data" /\ hw'.cmd = hw.cmd /\ hw'.is = hw.is \cup {"tc"}
        BY <1>0, <3>1 DEF DataCompletes, HwTyped, HwFields
      <4> QED
        BY <4>1
    <3>2. CASE DataFails
      <4>1. hw.dat = "data" /\ hw'.cmd = hw.cmd /\ hw'.is = hw.is \cup {"derr"}
        BY <1>0, <3>2 DEF DataFails, HwTyped, HwFields
      <4> QED
        BY <4>1
    <3> QED
      BY <1>9, <3>1, <3>2 DEF DataPhaseEnds
  <2>2. IsProgress(c) /\ c.hasData /\ hw.cmd = "none"
    BY <1>0, <2>1 DEF Phase
  <2>3. card'.xfer = "open" => card.xfer = "open"
    BY <1>0, <1>9 DEF DataPhaseEnds, DataCompletes, DataFails, CardStates
  <2>4. card'.cache = "dirty" => HasCache
    BY <1>0, <1>9 DEF DataPhaseEnds, DataCompletes, DataFails, CardStates
  <2>5. CountedAt(drv, c, hw', card'.xfer)
    <3>1. ~Ready(c) /\ c.status # "Success" /\ ~CountCmd(c)
      BY <2>2 DEF Ready, CountCmd, IsProgress, ProgressStatus
    <3> QED
      BY <2>1, <2>2, <3>1 DEF CountedAt
  <2>6. OpenAt(drv, c, hw', srv.pc, card'.xfer)
    BY <1>0, <2>1, <2>2, <2>3 DEF OpenAt
  <2>7. CacheAt(c, hw', srv.pc, card'.cache)
    BY <1>0, <2>2 DEF CacheAt, InFlush
  <2> QED
    BY <1>2, <2>1, <2>4, <2>5, <2>6, <2>7
<1>10. CASE BusyEnds
  <2>1. /\ hw'.cmd = hw.cmd /\ hw'.is \cap {"cc"} = hw.is \cap {"cc"}
        /\ card'.xfer = card.xfer /\ (card'.cache = "dirty" => card.cache = "dirty")
    BY <1>0, <1>10 DEF BusyEnds, HwTyped, HwFields, CardStates
  <2>2. "cc" \in hw'.is <=> "cc" \in hw.is
    BY <2>1
  <2> QED
    BY <1>0, <1>2, <2>1, <2>2 DEF CountedAt, OpenAt, CacheAt
<1>11. CASE LineResetEnds
  <2>1. PICK line \in hw.resets : hw' = EndReset(hw, line)
    BY <1>11 DEF LineResetEnds, EndReset
  <2>2. hw'.cmd = hw.cmd /\ hw'.is \subseteq hw.is /\ card' = card
    <3> DEFINE g == hw'
    <3>1. HwTyped(hw) /\ g = EndReset(hw, line)
      BY <1>0, <2>1
    <3>2. card' = card
      BY <1>11 DEF LineResetEnds
    <3> HIDE DEF g
    <3>3. g.cmd = hw.cmd /\ g.is \subseteq hw.is
      BY <3>1, EndedReset
    <3> QED
      BY <3>2, <3>3 DEF g
  <2>3. "cc" \in hw'.is => "cc" \in hw.is
    BY <2>2
  <2> QED
    BY <1>0, <1>2, <2>2, <2>3 DEF CountedAt, OpenAt, CacheAt
<1>12. CASE DeliverIrq
  BY <1>0, <1>2, <1>12 DEF DeliverIrq
<1> QED
  BY <1>1, <1>6, <1>7, <1>8, <1>9, <1>10, <1>11, <1>12 DEF HostNext, CommandPhaseEnds

LEMMA NextKeepsCardInv ==
  ASSUME FlushWhen # "any", RuntimeInv, RuntimeInv', CardInv, [Next]_vars
  PROVE  CardInv'
<1>0. Base /\ Base' /\ ServerInv /\ HwInv
  BY DEF RuntimeInv
<1>1. ASSUME NEW r \in Reqs, NEW read, NEW blocks, InoutData(r, read, blocks)
      PROVE  CardInv'
  BY <1>0, <1>1, InoutDataCard
<1>2. ASSUME NEW r \in Reqs, InoutDataOversized(r) PROVE CardInv'
  BY <1>0, <1>2, OversizedCard
<1>3. CASE Flush
  BY <1>0, <1>3, FlushCard
<1>4. CASE Submit
  BY <1>0, <1>4, SubmitCard
<1>5. CASE SubmitFailsInout \/ SubmitFailsIrq
  BY <1>0, <1>5, SubmitFailsCard
<1>6. CASE HandleIrqMessage
  BY <1>0, <1>6, HandleIrqCard
<1>7. CASE CallbackReturns
  BY <1>0, <1>7, CallbackReturnsCard
<1>8. CASE FlushSubmit
  BY <1>0, <1>8, FlushSubmitCard
<1>9. ASSUME NEW inTime \in BOOLEAN, FlushReceive(inTime)
      PROVE  CardInv'
  BY <1>0, <1>9, FlushReceiveCard
<1>10. CASE FlushTimeout
  BY <1>0, <1>10, FlushTimeoutCard
<1>11. CASE Host
  BY <1>0, <1>11, HostCard
<1>12. CASE UNCHANGED vars
  BY <1>12, CardUntouched, QueueKept DEF vars, hostVars
<1>13. CASE HandleIrqThrows
  BY <1>0, <1>13, HandleIrqThrowsCard
<1> QED
  BY <1>1, <1>2, <1>3, <1>4, <1>5, <1>6, <1>7, <1>8, <1>9, <1>10, <1>11, <1>12, <1>13
  DEF Next, Client, Server

LEMMA CardInvariant ==
  ASSUME FlushWhen # "any"
  PROVE  Spec => [](RuntimeInv /\ CardInv)
<1>1. Init => RuntimeInv /\ CardInv
  BY InitBase, InitHwInv, InitResets, InitCardInv DEF RuntimeInv
<1>2. (RuntimeInv /\ CardInv) /\ [Next]_vars => (RuntimeInv /\ CardInv)'
  <2>1. RuntimeInv /\ [Next]_vars => RuntimeInv'
    BY NextKeepsBase, NextKeepsServerInv, NextKeepsHwInv, NextKeepsResets DEF RuntimeInv
  <2> QED
    BY <2>1, NextKeepsCardInv
<1> QED
  BY <1>1, <1>2, PTL DEF Spec

\* CMD12 after an open-ended transfer: only cmd_submit() starts a command, and
\* then the head is the CMD12 that handle_irq_inout() made of the transfer.
LEMMA StopIsNext ==
  ASSUME FlushWhen # "any", RuntimeInv, RuntimeInv', CardInv, [Next]_vars,
         hw'.cmd # hw.cmd, hw'.cmd # "none", card.xfer = "open"
  PROVE  hw'.cmd \in StopTransmission
<1>0. Base /\ Base' /\ ServerInv /\ HwInv
  BY DEF RuntimeInv
<1>1. CASE Submit
  BY <1>0, <1>1, SubmitCard
<1>2. CASE FlushSubmit
  BY <1>0, <1>2, FlushSubmitCard
<1>3. CASE HandleIrqMessage
  BY <1>0, <1>3, HandleIrqCard
<1>4. CASE Host
  BY <1>0, <1>4, HostCard
<1>5. ASSUME NEW inTime \in BOOLEAN, FlushReceive(inTime)
      PROVE  FALSE
  <2> DEFINE r == HandleIrqCmd(HeadCmd, hw, hw.is, inTime)
  <2>0. r = HandleIrqCmd(HeadCmd, hw, hw.is, inTime)
    OBVIOUS
  <2> HIDE DEF r
  <2>1. hw' = r.hw
    BY <1>0, <1>5, <2>0, FlushReceiveView
  <2>2. r.hw.cmd = hw.cmd
    BY <1>0, <2>0, BaseIs, HeadIsTyped, HandleIrqCmdHw
  <2> QED
    BY <2>1, <2>2
<1>6. ASSUME NEW r \in Reqs, NEW read, NEW blocks, InoutData(r, read, blocks)
      PROVE  FALSE
  BY <1>6 DEF InoutData
<1>7. ASSUME NEW r \in Reqs, InoutDataOversized(r) PROVE FALSE
  BY <1>7 DEF InoutDataOversized, hostVars
<1>8. CASE HandleIrqThrows
  BY <1>0, <1>8, HandleIrqThrowsCard
<1> QED
  BY <1>1, <1>2, <1>3, <1>4, <1>5, <1>6, <1>7, <1>8
  DEF Next, Client, Server, Flush, SubmitFailsInout, SubmitFailsIrq, CallbackReturns,
      FlushTimeout, hostVars, vars

\* The result of flush() is set by flush() only.
LEMMA FlushResults ==
  ASSUME FlushWhen # "any", RuntimeInv, RuntimeInv', CardInv, [Next]_vars,
         flushed' # flushed, flushed' = "ok"
  PROVE  card.cache # "dirty"
<1>0. Base /\ Base' /\ ServerInv /\ HwInv
  BY DEF RuntimeInv
<1>1. CASE Flush
  BY <1>1 DEF Flush, CardInv
<1>2. ASSUME NEW inTime \in BOOLEAN, FlushReceive(inTime)
      PROVE  card.cache # "dirty"
  BY <1>0, <1>2, FlushReceiveCard
<1>3. CASE FlushTimeout
  BY <1>0, <1>3, FlushTimeoutCard
<1>4. ASSUME NEW r \in Reqs, NEW read, NEW blocks, InoutData(r, read, blocks)
      PROVE  FALSE
  BY <1>4 DEF InoutData
<1>5. ASSUME NEW r \in Reqs, InoutDataOversized(r) PROVE FALSE
  BY <1>5 DEF InoutDataOversized
<1> QED
  BY <1>1, <1>2, <1>3, <1>4, <1>5
  DEF Next, Client, Server, Submit, SubmitFailsInout, SubmitFailsIrq, HandleIrqMessage,
      HandleIrqThrows, CallbackReturns, FlushSubmit, Host, deviceVars, vars

\* On a card without CMD23, nothing but CMD12 follows a transfer: whatever
\* errors the transfer met, and whoever waits in the queue.
THEOREM StopAlwaysFollows ==
  ASSUME FlushWhen # "any"
  PROVE  Spec => StopBeforeNext
<1>1. ASSUME RuntimeInv /\ CardInv, (RuntimeInv /\ CardInv)', [Next]_vars
      PROVE  [hw'.cmd # hw.cmd /\ hw'.cmd # "none" /\ card.xfer = "open" =>
                hw'.cmd \in StopTransmission]_vars
  BY <1>1, StopIsNext
<1> QED
  BY <1>1, CardInvariant, PTL DEF Spec, StopBeforeNext

\* A flush() that reports success has told the card of every write before it,
\* for any number of polls; what was written has not come after.
THEOREM FlushAlwaysReaches ==
  ASSUME FlushWhen # "any"
  PROVE  Spec => FlushReachesCard
<1>1. ASSUME RuntimeInv /\ CardInv, (RuntimeInv /\ CardInv)', [Next]_vars
      PROVE  [flushed' # flushed /\ flushed' = "ok" => card.cache # "dirty"]_vars
  BY <1>1, FlushResults
<1> QED
  BY <1>1, CardInvariant, PTL DEF Spec, FlushReachesCard

-----------------------------------------------------------------------------
(* The requests in the slots of the ring as a sequence.                    *)

\* The requests in a part of the ring, for any contents of the slots.
Requests(cs, a, b) == [i \in 1 .. Distance(a, b) |-> cs[Between(a, b)[i]].cb]

Callbacks == Reqs \cup {NoReq}
HaveCallbacks(cs) == \A s \in Slots : cs[s].cb \in Callbacks

LEMMA RequestsTyped ==
  ASSUME NEW cs, HaveCallbacks(cs), NEW a \in Slots, NEW b \in Slots
  PROVE  /\ Distance(a, b) \in Nat
         /\ Requests(cs, a, b) \in [1 .. Distance(a, b) -> Callbacks]
         /\ Requests(cs, a, b) \in Seq(Callbacks) /\ Len(Requests(cs, a, b)) = Distance(a, b)
<1>1. Distance(a, b) \in Nat /\ Between(a, b) \in [1 .. Distance(a, b) -> Slots]
  BY BetweenIs
<1>2. Requests(cs, a, b) \in [1 .. Distance(a, b) -> Callbacks]
  BY <1>1 DEF Requests, HaveCallbacks
<1> QED
  BY <1>1, <1>2, SeqOfElements

LEMMA RequestsEmpty ==
  ASSUME NEW cs, HaveCallbacks(cs), NEW a \in Slots
  PROVE  Requests(cs, a, a) = <<>>
<1>1. Distance(a, a) = 0
  BY EntriesAssumption DEF Distance, Slots
<1>2. Requests(cs, a, a) \in [1 .. Distance(a, a) -> Callbacks]
  BY RequestsTyped
<1>3. Requests(cs, a, a) \in [1 .. 0 -> Callbacks]
  BY <1>1, <1>2
<1> QED
  BY <1>3, EmptyElements

SameCallbacks(cs, ds, a, b) ==
  \A s \in Slots : Distance(a, s) < Distance(a, b) => ds[s].cb = cs[s].cb

LEMMA RequestsSame ==
  ASSUME NEW cs, NEW ds, NEW a \in Slots, NEW b \in Slots, SameCallbacks(cs, ds, a, b)
  PROVE  Requests(ds, a, b) = Requests(cs, a, b)
<1>1. ASSUME NEW i \in 1 .. Distance(a, b)
      PROVE  ds[Between(a, b)[i]].cb = cs[Between(a, b)[i]].cb
  <2>1. /\ Between(a, b)[i] \in Slots /\ Distance(a, Between(a, b)[i]) = i - 1
        /\ Distance(a, b) \in Nat
    BY BetweenIs
  <2>2. i - 1 < Distance(a, b)
    BY <2>1
  <2> QED
    BY <2>1, <2>2 DEF SameCallbacks
<1> QED
  BY <1>1 DEF Requests

LEMMA RequestsCreate ==
  ASSUME NEW cs, HaveCallbacks(cs),
         NEW a \in Slots, NEW b \in Slots, WrapAround(b + 1) # a
  PROVE  Requests(cs, a, WrapAround(b + 1)) = Append(Requests(cs, a, b), cs[b].cb)
<1> DEFINE n == Distance(a, b)
           e == Requests(cs, a, b)
           f == Requests(cs, a, WrapAround(b + 1))
<1>1. WrapAround(b + 1) \in Slots /\ Distance(a, WrapAround(b + 1)) = n + 1
  BY WrapAroundNext, DistanceAdvanceFar
<1>2. n \in Nat /\ e \in [1 .. n -> Callbacks] /\ f \in [1 .. n + 1 -> Callbacks]
  <2>1. n \in Nat /\ e \in [1 .. n -> Callbacks]
    BY RequestsTyped
  <2>2. f \in [1 .. Distance(a, WrapAround(b + 1)) -> Callbacks]
    BY <1>1, RequestsTyped
  <2> HIDE DEF n, e, f
  <2> QED
    BY <1>1, <2>1, <2>2
<1>3. Between(a, b) \in [1 .. n -> Slots] /\ Between(a, b) \in Seq(Slots)
      /\ Len(Between(a, b)) = n
  BY <1>2, BetweenIs, SeqOfElements
<1>4. /\ \A i \in 1 .. n : Append(Between(a, b), b)[i] = Between(a, b)[i]
      /\ Append(Between(a, b), b)[n + 1] = b
  BY <1>2, <1>3, AppendProperties
<1>5. Between(a, WrapAround(b + 1)) = Append(Between(a, b), b)
  BY BetweenCreate
<1>6. /\ \A i \in 1 .. n : e[i] = cs[Between(a, b)[i]].cb
      /\ \A i \in 1 .. n + 1 : f[i] = cs[Append(Between(a, b), b)[i]].cb
  BY <1>1, <1>5 DEF Requests
<1>7. (\A i \in 1 .. n : f[i] = e[i]) /\ f[n + 1] = cs[b].cb
  <2> HIDE DEF n, e, f
  <2>1. n + 1 \in 1 .. n + 1 /\ \A i \in 1 .. n : i \in 1 .. n + 1
    BY <1>2
  <2> QED
    BY <1>4, <1>6, <2>1
<1> HIDE DEF n, e, f
<1>8. f = Append(e, cs[b].cb)
  BY <1>2, <1>7, AppendElements
<1> QED
  BY <1>8 DEF e, f

LEMMA RequestsRetire ==
  ASSUME NEW cs, HaveCallbacks(cs),
         NEW a \in Slots, NEW b \in Slots, a # b
  PROVE  /\ Requests(cs, a, b) # <<>> /\ Head(Requests(cs, a, b)) = cs[a].cb
         /\ Requests(cs, WrapAround(a + 1), b) = Tail(Requests(cs, a, b))
<1> DEFINE c == WrapAround(a + 1)
           n == Distance(c, b)
           e == Requests(cs, a, b)
           f == Requests(cs, c, b)
<1>1. c \in Slots /\ n = Distance(a, b) - 1 /\ Distance(a, b) \in Int /\ n \in Nat
  BY WrapAroundNext, DistanceAdvanceNear, DistanceType, BetweenIs
<1>2. Distance(a, b) = n + 1
  <2> HIDE DEF n
  <2> QED
    BY <1>1
<1>3. e \in [1 .. n + 1 -> Callbacks] /\ f \in [1 .. n -> Callbacks]
  <2>1. e \in [1 .. Distance(a, b) -> Callbacks]
    BY RequestsTyped
  <2>2. f \in [1 .. n -> Callbacks]
    BY <1>1, RequestsTyped
  <2> HIDE DEF n, e, f
  <2> QED
    BY <1>2, <2>1, <2>2
<1>4. Between(a, b) \in [1 .. n + 1 -> Slots] /\ Between(a, b) \in Seq(Slots)
      /\ Len(Between(a, b)) = n + 1
  <2>1. Between(a, b) \in [1 .. n + 1 -> Slots]
    BY <1>2, BetweenIs
  <2>2. n + 1 \in Nat
    BY <1>1
  <2> QED
    BY <2>1, <2>2, SeqOfElements
<1>5. /\ Between(a, b) # <<>> /\ Head(Between(a, b)) = a
      /\ Between(c, b) = Tail(Between(a, b))
  BY BetweenRetire
<1>6. Between(a, b)[1] = a /\ \A i \in 1 .. n : Between(c, b)[i] = Between(a, b)[i + 1]
  <2> HIDE DEF c, n
  <2>1. Head(Between(a, b)) = Between(a, b)[1]
    OBVIOUS
  <2>2. \A i \in 1 .. n : Tail(Between(a, b))[i] = Between(a, b)[i + 1]
    BY <1>1, <1>4, <1>5, HeadTailProperties
  <2> QED
    BY <1>5, <2>1, <2>2
<1>7. \A i \in 1 .. n : f[i] = e[i + 1]
  BY <1>1, <1>2, <1>6 DEF Requests
<1>8. e[1] = cs[a].cb
  BY <1>1, <1>2, <1>6 DEF Requests
<1> HIDE DEF c, n, e, f
<1>9. e # <<>> /\ f = Tail(e) /\ Head(e) = e[1]
  BY <1>1, <1>3, <1>7, TailElements
<1> QED
  BY <1>8, <1>9 DEF c, e, f

-----------------------------------------------------------------------------
\* Accepted, for any state of the server, the queue and the slots.
Listed(v, r, cs) ==
  IF v.pc \in {"flSubmit", "flReceive"} THEN <<>>
  ELSE Requests(cs,
         IF v.pc = "callback" THEN WrapAround(r.working + 1) ELSE r.working,
         IF v.pc = "submit" /\ v.ctx = "inout_data" THEN v.slot ELSE r.create)

LEMMA AcceptedIsListed ==
  Accepted = Listed(srv, q, cmds) /\ Accepted' = Listed(srv', q', cmds')
  BY DEF Accepted, Listed, RequestsBetween, Requests, Between

LEMMA ListedIs ==
  ASSUME NEW cs, HaveCallbacks(cs), NEW r, RingOK(r), NEW v
  PROVE  /\ v.pc \in {"flSubmit", "flReceive"} => Listed(v, r, cs) = <<>>
         /\ v.pc = "submit" /\ v.ctx = "inout_data" /\ v.slot = r.working =>
              Listed(v, r, cs) = <<>>
         /\ v.pc = "callback" =>
              Listed(v, r, cs) = Requests(cs, WrapAround(r.working + 1), r.create)
         /\ v.pc = "loop" \/ (v.pc = "submit" /\ v.ctx # "inout_data") =>
              Listed(v, r, cs) = Requests(cs, r.working, r.create)
         /\ v.pc = "loop" /\ r.working = r.create => Listed(v, r, cs) = <<>>
<1>1. r.working \in Slots
  BY DEF RingOK, Queues
<1>2. Requests(cs, r.working, r.working) = <<>>
  BY <1>1, RequestsEmpty
<1> QED
  BY <1>2 DEF Listed

-----------------------------------------------------------------------------
(* The promise to libblock-device.                                         *)

\* What the promise needs besides: every request can be submitted, and what
\* inout_data() polls for is its own request.
PromiseInv ==
  /\ RuntimeInv
  /\ ~escaped /\ unmapped = {}
  /\ srv.ctx = "inout_data" => srv.pc = "submit" /\ srv.slot = Working(q)

\* The cursors and the callbacks in the slots.
LEMMA PromiseIs ==
  ASSUME PromiseInv
  PROVE  /\ Base /\ ServerInv /\ RingOK(q)
         /\ HaveCallbacks(cmds)
         /\ q.working \in Slots /\ q.create \in Slots /\ q.working = q.destruct
         /\ Idle <=> q.working = q.create
         /\ ~Idle => Working(q) = q.working /\ q.working \in q.enqueued
         /\ q.enqueued = {s \in Slots : Distance(q.working, s) < Distance(q.working, q.create)}
<1>1. Base /\ ServerInv /\ RingOK(q) /\ CmdsTyped
  BY BaseIs DEF PromiseInv, RuntimeInv
<1>2. /\ q.working \in Slots /\ q.create \in Slots /\ q.working = q.destruct
      /\ q.enqueued = {s \in Slots : Distance(q.destruct, s) < Distance(q.destruct, q.create)}
  BY <1>1 DEF RingOK, Queues
<1>3. /\ Idle <=> q.working = q.create
      /\ ~Idle => Working(q) = q.working
  BY <1>2, NoSlotIsNoSlot DEF Idle, Working
<1>4. ~Idle => q.working \in q.enqueued
  BY <1>1, <1>3, OccupiedIs DEF Idle
<1>5. HaveCallbacks(cmds)
  BY <1>1 DEF CmdsTyped, IsCmd, CmdTypeOK, HaveCallbacks, Callbacks
<1> QED
  BY <1>1, <1>2, <1>3, <1>4, <1>5

\* The same of the next state.
LEMMA NextIs ==
  ASSUME Base'
  PROVE  RingOK(q') /\ HaveCallbacks(cmds')
<1>1. RingOK(q)'
  BY BaseIs, PTL DEF Base, HeadInv, DeviceInv, RingSound
<1>2. HaveCallbacks(cmds')
  BY DEF Base, Typed, CmdsTyped, IsCmd, CmdTypeOK, HaveCallbacks, Callbacks
<1> QED
  BY <1>1, <1>2

\* Nothing is promised or answered.
LEMMA PromiseStutters ==
  ASSUME Listed(srv', q', cmds') = Listed(srv, q, cmds), answer' = answer
  PROVE  [Promise!Next]_<<Accepted, answer>>
  BY AcceptedIsListed

\* A request is appended to those promised before.
LEMMA PromiseAccepts ==
  ASSUME NEW r \in Reqs, NEW a, NEW b,
         Listed(srv, q, cmds) = a, Listed(srv', q', cmds') = b,
         \A i \in DOMAIN a : a[i] # r, Len(a) < Entries - 1, b = Append(a, r),
         answer' = [answer EXCEPT ![r] = "none"]
  PROVE  [Promise!Next]_<<Accepted, answer>>
<1>1. Accepted = a /\ Accepted' = b
  BY AcceptedIsListed
<1>2. Promise!Accept(r)
  BY <1>1 DEF Promise!Accept, Promise!Outstanding
<1> QED
  BY <1>2 DEF Promise!Next

\* The command of the head changes, not its request.
LEMMA HeadKeepsList ==
  ASSUME PromiseInv, Base', ~Idle, q' = q, srv.pc = "loop", answer' = answer,
         NEW c, c.cb = HeadCmd.cb, cmds' = [cmds EXCEPT ![Working(q)] = c],
         srv'.pc = "loop" \/ (srv'.pc = "submit" /\ srv'.ctx # "inout_data")
  PROVE  [Promise!Next]_<<Accepted, answer>>
<1>1. /\ HaveCallbacks(cmds) /\ HaveCallbacks(cmds')
      /\ RingOK(q) /\ q.working \in Slots /\ q.create \in Slots /\ DOMAIN cmds = Slots
      /\ Working(q) = q.working /\ HeadCmd = cmds[Working(q)]
  BY PromiseIs, NextIs, HeadIsTyped, BaseIs DEF CmdsTyped
<1>2. SameCallbacks(cmds, cmds', q.working, q.create)
  BY <1>1 DEF SameCallbacks
<1>3. Requests(cmds', q.working, q.create) = Requests(cmds, q.working, q.create)
  BY <1>1, <1>2, RequestsSame
<1>4. Listed(srv, q, cmds) = Requests(cmds, q.working, q.create)
  BY <1>1, ListedIs
<1>5. Listed(srv', q, cmds') = Requests(cmds', q.working, q.create)
  BY <1>1, ListedIs
<1> QED
  BY <1>3, <1>4, <1>5, PromiseStutters

\* With every request submittable, the handlers of failed submissions are not
\* reached.
LEMMA SubmitNeverFails ==
  ASSUME PromiseInv
  PROVE  ~SubmitFailsInout /\ ~SubmitFailsIrq
<1> SUFFICES ASSUME SubmitFailsInout \/ SubmitFailsIrq PROVE FALSE
  OBVIOUS
<1>1. srv.pc = "submit" /\ SubmitThrows(cmds[Working(q)])
  BY DEF SubmitFailsInout, SubmitFailsIrq
<1>2. Working(q) # NoSlot /\ Ready(HeadCmd)
  BY <1>1, NoSlotIsNoSlot, PromiseIs
  DEF ServerInv, AtHead, Base, HeadInv, DeviceInv, ServerHasHead
<1> QED
  BY <1>1, <1>2 DEF SubmitThrows, Ready, HeadCmd, PromiseInv

\* With every request submittable, no head waits in the ring to be submitted
\* while the server is in its loop: one that a late reset stranded has an error.
NoneReady == srv.pc = "loop" => ~Ready(HeadCmd)

LEMMA KickedNoneReady ==
  ASSUME NEW ctx, NEW slot, srv' = Kicked(q', cmds', ctx, slot)
  PROVE  NoneReady'
<1>1. HeadCmd' = IF Working(q') = NoSlot THEN InvalidCmd ELSE cmds'[Working(q')]
  BY DEF HeadCmd
<1>2. [Loop EXCEPT !.pc = "submit", !.ctx = ctx, !.slot = slot].pc = "submit"
  BY DEF Loop
<1>3. ~Ready(InvalidCmd)
  BY InvalidIsAbandoned DEF Abandoned
<1> QED
  BY <1>1, <1>2, <1>3 DEF Kicked, KickNeeded, Ready, NoneReady

LEMMA HandleIrqThrowsUnready ==
  ASSUME Base, ServerInv, HandleIrqThrows
  PROVE  ~Ready(HeadCmd')
<1> DEFINE inTime == FALSE
           r == HandleIrq(HeadCmd, hw, inTime)
<1>0. AtHead /\ r = HandleIrq(HeadCmd, hw, FALSE) /\ inTime \in BOOLEAN
      /\ r = HandleIrq(HeadCmd, hw, inTime) /\ HwTyped(hw)
  BY BaseIs DEF ServerInv
<1> HIDE DEF inTime, r
<1>1. IsCmd(HeadCmd) /\ IsProgress(HeadCmd) /\ ~IsProgress(r.cmd) /\ HeadCmd' = r.cmd
  BY <1>0, IrqThrowsView
<1>2. r.cmd.status \in {"Success", "Cmd_timeout", "Cmd_error", "Data_error"}
                         \cup ProgressStatus
  BY <1>0, <1>1, IrqStatus
<1> QED
  BY <1>1, <1>2 DEF Ready, IsProgress, ProgressStatus

LEMMA HandleIrqNoneReady ==
  ASSUME Base, ServerInv, HandleIrqMessage
  PROVE  NoneReady'
<1> DEFINE r == HandleIrq(HeadCmd, hw, TRUE)
           w == HandleIrqInout(drv, r.cmd)
<1>0. AtHead /\ r = HandleIrq(HeadCmd, hw, TRUE) /\ w = HandleIrqInout(drv, r.cmd)
  BY DEF ServerInv
<1>1. drv \in Drivers
  BY BaseIs
<1> HIDE DEF r, w
<1>2. q' = q
  BY <1>0, IrqView
<1>3. CASE UNCHANGED cmds /\ Abandoned(HeadCmd)
  BY <1>2, <1>3, QueueKept DEF NoneReady, Abandoned
<1>4. CASE IsProgress(r.cmd) /\ HeadCmd' = r.cmd
  BY <1>4 DEF NoneReady, Ready, IsProgress, ProgressStatus
<1>5. CASE /\ IsCmd(r.cmd) /\ OfRequest(drv, r.cmd) /\ ~IsProgress(r.cmd)
           /\ w.reply = "none" /\ (Ready(w.cmd) => srv'.pc = "submit")
  BY <1>0, <1>1, <1>5, HandleIrqInoutMore DEF NoneReady
<1>6. CASE srv'.pc = "callback"
  BY <1>6 DEF NoneReady
<1> QED
  BY <1>0, <1>3, <1>4, <1>5, <1>6, IrqView

LEMMA NextKeepsNoneReady ==
  ASSUME FlushWhen # "any", UnmappedWhen = "never", OversizedWhen # "any",
         PromiseInv, Base', NoneReady, [Next]_vars
  PROVE  NoneReady'
<1>0. Base /\ ServerInv /\ unmapped = {}
  BY PromiseIs DEF PromiseInv
<1>1. ASSUME NEW r \in Reqs, NEW read, NEW blocks, InoutData(r, read, blocks)
      PROVE  NoneReady'
  <2>1. \/ srv.pc = "callback" /\ srv' = srv
        \/ srv' = Kicked(q', cmds', "inout_data", q.create)
    BY <1>0, <1>1, InoutDataView
  <2> QED
    BY <2>1, KickedNoneReady DEF NoneReady
<1>2. ASSUME NEW r \in Reqs, InoutDataOversized(r) PROVE NoneReady'
  <2>1. Idle
    BY <1>2 DEF InoutDataOversized, Allowed
  <2>2. HeadCmd' = HeadCmd /\ srv' = srv
    BY <1>0, <1>2, <2>1, OversizedView
  <2> QED
    BY <2>2 DEF NoneReady
<1>3. CASE Flush
  <2>1. CASE UNCHANGED <<q, cmds, srv>>
    BY <2>1, QueueKept DEF NoneReady
  <2>2. CASE srv' = [Loop EXCEPT !.pc = "flSubmit", !.slot = q.create]
    <3>1. srv'.pc = "flSubmit"
      BY <2>2 DEF Loop
    <3> QED
      BY <3>1 DEF NoneReady
  <2> QED
    BY <1>3, <2>1, <2>2 DEF Flush
<1>4. CASE Submit
  <2> DEFINE d == [HeadCmd EXCEPT !.status = "Progress_cmd"]
  <2>1. HeadCmd' = d /\ d.status = "Progress_cmd"
    BY <1>0, <1>4, SubmitView DEF ServerInv
  <2> QED
    BY <2>1 DEF NoneReady, Ready
<1>5. CASE HandleIrqMessage
  BY <1>0, <1>5, HandleIrqNoneReady
<1>6. CASE HandleIrqThrows
  BY <1>0, <1>6, HandleIrqThrowsUnready DEF NoneReady
<1>7. CASE CallbackReturns
  <2>1. srv' = Kicked(q', cmds', "handle_irq", NoSlot)
    BY <1>7 DEF CallbackReturns
  <2> QED
    BY <2>1, KickedNoneReady
<1>8. CASE FlushSubmit
  <2>1. srv'.pc = "flReceive"
    BY <1>8, <1>0, BaseIs DEF FlushSubmit, DeviceInv, Servers
  <2> QED
    BY <2>1 DEF NoneReady
<1>9. ASSUME InFlush, drv' = drv, NEW c, NEW result, FlushEnds(c, result)
      PROVE  NoneReady'
  <2>1. HeadCmd' = InvalidCmd
    BY <1>0, <1>9, FlushEndsServer
  <2> QED
    BY <2>1, InvalidIsAbandoned DEF NoneReady, Abandoned
<1>10. ASSUME NEW inTime \in BOOLEAN, FlushReceive(inTime)
       PROVE  NoneReady'
  <2> DEFINE r == HandleIrqCmd(cmds[srv.slot], hw, hw.is, inTime)
  <2>1. InFlush /\ drv' = drv /\ (UNCHANGED srv \/ FlushFinished(r.cmd, hw.resp))
    BY <1>10 DEF FlushReceive, InFlush
  <2> HIDE DEF r
  <2>2. CASE UNCHANGED srv
    BY <2>1, <2>2 DEF NoneReady, InFlush
  <2>3. ASSUME NEW result, FlushEnds(r.cmd, result) PROVE NoneReady'
    BY <1>9, <2>1, <2>3
  <2>4. ASSUME NEW n \in 0 .. MaxPolls - 1, PollStatus(r.cmd, n) PROVE NoneReady'
    <3>1. srv' = [srv EXCEPT !.pc = "flSubmit", !.polls = n]
      BY <2>4 DEF PollStatus
    <3>2. srv'.pc = "flSubmit"
      BY <1>0, <3>1, BaseIs DEF Servers
    <3> QED
      BY <3>2 DEF NoneReady
  <2>5. DeviceInv
    BY <1>0, BaseIs
  <2> QED
    BY <2>1, <2>2, <2>3, <2>4, <2>5, FlushFinishedCases
<1>11. CASE FlushTimeout
  BY <1>9, <1>11 DEF FlushTimeout, InFlush
<1>12. CASE Host \/ UNCHANGED vars
  <2>1. UNCHANGED <<q, cmds, srv>>
    BY <1>12 DEF Host, deviceVars, vars
  <2> QED
    BY <2>1, QueueKept DEF NoneReady
<1>13. ~SubmitFailsInout /\ ~SubmitFailsIrq
  BY SubmitNeverFails
<1> QED
  BY <1>1, <1>2, <1>3, <1>4, <1>5, <1>6, <1>7, <1>8, <1>10, <1>11, <1>12, <1>13
  DEF Next, Client, Server

\* A new request behind others, or from the callback of the head, is promised
\* at once; the first one of an idle device only when it has been submitted.
LEMMA InoutDataPromise ==
  ASSUME UnmappedWhen = "never", PromiseInv, NoneReady, RuntimeInv',
         NEW r \in Reqs, NEW read, NEW blocks, InoutData(r, read, blocks)
  PROVE  PromiseInv' /\ [Promise!Next]_<<Accepted, answer>>
<1>0. Base /\ Base' /\ ServerInv
  BY PromiseIs DEF RuntimeInv
<1>1. PICK c :
        /\ IsCmd(c) /\ Fresh(drv, c) /\ c.cb = r /\ r \notin InRing
        /\ CanCreate(q) /\ q' = Created(q) /\ cmds' = [cmds EXCEPT ![q.create] = c]
        /\ \/ Idle /\ HeadCmd' = c
           \/ ~Idle /\ HeadCmd' = HeadCmd
        /\ ~Idle'
        /\ \/ srv.pc = "callback" /\ srv' = srv
           \/ srv.pc = "loop" /\ srv' = Kicked(q', cmds', "inout_data", q.create)
  BY <1>0, InoutDataView
<1>2. /\ answer' = IF srv'.ctx = "inout_data" THEN answer ELSE [answer EXCEPT ![r] = "none"]
      /\ escaped' = escaped /\ unmapped' = {}
  BY DEF InoutData, PromiseInv, Allowed
<1> DEFINE w == q.working
           b == q.create
<1>3. /\ HaveCallbacks(cmds) /\ HaveCallbacks(cmds')
      /\ RingOK(q) /\ RingOK(q') /\ w \in Slots /\ b \in Slots /\ DOMAIN cmds = Slots
      /\ q.destruct = w
  BY <1>0, PromiseIs, NextIs, BaseIs DEF CmdsTyped
<1>4. q'.working = w /\ q'.create = WrapAround(b + 1) /\ WrapAround(b + 1) # w
  BY <1>1, <1>3 DEF Created, CanCreate, IsFull, RingOK, Queues
<1>5. cmds'[b].cb = r /\ \A s \in Slots : s # b => cmds'[s] = cmds[s]
  BY <1>1, <1>3
<1>6. CASE Idle /\ srv.pc = "loop"
  <2>1. srv' = [Loop EXCEPT !.pc = "submit", !.ctx = "inout_data", !.slot = b]
    <3>1. HeadCmd' = IF Working(q') = NoSlot THEN InvalidCmd ELSE cmds'[Working(q')]
      BY DEF HeadCmd
    <3>2. Ready(HeadCmd')
      BY <1>1, <1>6 DEF Fresh
    <3> QED
      BY <1>1, <1>6, <3>1, <3>2, InvalidCmdIs DEF Kicked, KickNeeded, Ready
  <2>2. srv'.pc = "submit" /\ srv'.ctx = "inout_data" /\ srv'.slot = b
    BY <2>1 DEF Loop
  <2>3. w = b /\ Working(q') = b
    BY <1>0, <1>1, <1>6, PromiseIs, CreateIdle
  <2>4. Listed(srv, q, cmds) = <<>>
    BY <1>3, <1>6, <2>3, ListedIs
  <2>5. Listed(srv', q', cmds') = <<>>
    BY <1>3, <1>4, <2>2, <2>3, ListedIs
  <2>6. [Promise!Next]_<<Accepted, answer>>
    BY <1>2, <2>2, <2>4, <2>5, PromiseStutters
  <2> QED
    BY <1>2, <2>2, <2>3, <2>6 DEF PromiseInv
<1>7. CASE ~Idle
  <2>1. /\ w \in q.enqueued /\ Working(q) = w /\ Working(q') = w /\ w # b
        /\ q.enqueued = {s \in Slots : Distance(w, s) < Distance(w, b)}
    BY <1>0, <1>1, <1>7, PromiseIs, CreateBehind
  <2>2. \/ srv.pc = "callback" /\ srv' = srv
        \/ srv.pc = "loop" /\ srv' = Loop
    <3>1. CASE srv.pc = "loop"
      <4>1. ~Ready(HeadCmd')
        BY <1>1, <1>7, <3>1 DEF NoneReady
      <4>2. HeadCmd' = IF Working(q') = NoSlot THEN InvalidCmd ELSE cmds'[Working(q')]
        BY DEF HeadCmd
      <4> QED
        BY <1>1, <3>1, <4>1, <4>2, InvalidCmdIs DEF Kicked, KickNeeded, Ready
    <3> QED
      BY <1>1, <3>1
  <2>3. srv'.ctx # "inout_data" /\ srv'.pc = srv.pc /\ srv.pc \in {"loop", "callback"}
    BY <2>2 DEF Loop, PromiseInv
  <2>4. PromiseInv'
    BY <1>2, <2>3 DEF PromiseInv
  <2>5. ASSUME NEW s \in q.enqueued PROVE s \in Slots /\ cmds[s].cb # r /\ s # b
    <3>1. q.enqueued \subseteq Slots /\ b \notin q.enqueued
      BY <1>1, <1>3, OccupiedIs
    <3>2. r # NoReq
      BY DeviceAssumption
    <3> QED
      BY <1>1, <3>1, <3>2 DEF InRing, Occupied
  <2>6. \A a \in Slots : Between(a, b) \in [1 .. Distance(a, b) -> Slots]
    BY <1>3, BetweenIs
  <2> DEFINE a == IF srv.pc = "callback" THEN WrapAround(w + 1) ELSE w
  <2>7. /\ a \in Slots /\ WrapAround(b + 1) # a
        /\ Distance(a, b) \in Nat /\ Distance(a, b) < Entries - 1
        /\ \A s \in Slots : Distance(a, s) < Distance(a, b) => s \in q.enqueued
    <3>1. /\ Distance(w, WrapAround(b + 1)) = Distance(w, b) + 1
          /\ Distance(w, WrapAround(b + 1)) \in 0 .. Entries - 1
          /\ Distance(w, b) \in 0 .. Entries - 1
      BY <1>3, <1>4, DistanceAdvanceFar, DistanceType, WrapAroundNext DEF Slots
    <3>2. Distance(w, b) < Entries - 1
      BY <3>1, EntriesAssumption
    <3>3. CASE srv.pc # "callback"
      BY <1>3, <1>4, <2>1, <3>1, <3>2, <3>3
    <3>4. CASE srv.pc = "callback"
      <4>1. a = WrapAround(w + 1) /\ a \in Slots
        BY <1>3, <3>4, WrapAroundNext
      <4>2. WrapAround(b + 1) # a
        <5> HIDE DEF a, w, b
        <5> QED
          BY <1>3, <2>1, <4>1, WrapAroundNext, EntriesAssumption DEF Slots
      <4>3. Distance(a, b) = Distance(w, b) - 1 /\ Distance(a, b) \in 0 .. Entries - 1
        BY <1>3, <2>1, <4>1, DistanceAdvanceNear, DistanceType DEF Slots
      <4>4. ASSUME NEW s \in Slots, Distance(a, s) < Distance(a, b)
            PROVE  s \in q.enqueued
        <5>1. CASE s = w
          BY <2>1, <5>1
        <5>2. CASE s # w
          <6>1. Distance(a, s) = Distance(w, s) - 1 /\ Distance(w, s) \in 0 .. Entries - 1
            BY <1>3, <4>1, <5>2, DistanceAdvanceNear, DistanceType DEF Slots
          <6>2. Distance(w, s) < Distance(w, b)
            <7> HIDE DEF a, w, b
            <7> QED
              BY <3>1, <4>3, <4>4, <6>1
          <6> QED
            BY <2>1, <6>2
        <5> QED
          BY <5>1, <5>2
      <4>5. Distance(a, b) < Entries - 1
        <5> HIDE DEF a, w, b
        <5> QED
          BY <3>1, <3>2, <4>3, EntriesAssumption
      <4> QED
        BY <4>1, <4>2, <4>3, <4>4, <4>5
    <3> QED
      BY <3>3, <3>4
  <2> HIDE DEF a
  <2>8. Requests(cmds', a, b) = Requests(cmds, a, b)
    <3>1. SameCallbacks(cmds, cmds', a, b)
      BY <1>5, <2>5, <2>7 DEF SameCallbacks
    <3> QED
      BY <1>3, <2>7, <3>1, RequestsSame
  <2>9. Requests(cmds', a, WrapAround(b + 1)) = Append(Requests(cmds, a, b), r)
    BY <1>3, <1>5, <2>7, <2>8, RequestsCreate
  <2>10. Listed(srv, q, cmds) = Requests(cmds, a, b)
    BY <1>3, <2>3, ListedIs DEF a
  <2>11. Listed(srv', q', cmds') = Requests(cmds', a, WrapAround(b + 1))
    BY <1>3, <1>4, <2>3, ListedIs DEF a
  <2>12. /\ Len(Requests(cmds, a, b)) = Distance(a, b)
         /\ DOMAIN Requests(cmds, a, b) = 1 .. Distance(a, b)
    <3>1. Requests(cmds, a, b) \in [1 .. Distance(a, b) -> Callbacks]
      BY <1>3, <2>7, RequestsTyped
    <3> QED
      BY <1>3, <2>7, <3>1, RequestsTyped
  <2>13. ASSUME NEW i \in 1 .. Distance(a, b) PROVE Requests(cmds, a, b)[i] # r
    <3>1. Between(a, b)[i] \in Slots /\ Distance(a, Between(a, b)[i]) = i - 1
      BY <1>3, <2>6, <2>7, BetweenIs
    <3>2. i - 1 < Distance(a, b)
      BY <2>7
    <3>3. Between(a, b)[i] \in q.enqueued
      BY <2>7, <3>1, <3>2
    <3> QED
      BY <2>5, <3>3 DEF Requests
  <2>14. answer' = [answer EXCEPT ![r] = "none"]
    BY <1>2, <2>3
  <2>15. [Promise!Next]_<<Accepted, answer>>
    BY <2>7, <2>9, <2>10, <2>11, <2>12, <2>13, <2>14, PromiseAccepts
  <2> QED
    BY <2>4, <2>15
<1>8. Idle => srv.pc = "loop"
  BY <1>0, <1>1, InvalidIsAbandoned, HeadIsTyped DEF ServerInv, AtHead
<1> QED
  BY <1>6, <1>7, <1>8

\* A request with a block beyond max_size() leaves an idle queue as it was.
LEMMA OversizedPromise ==
  ASSUME OversizedWhen # "any", PromiseInv, RuntimeInv', NEW r \in Reqs,
         InoutDataOversized(r)
  PROVE  PromiseInv' /\ [Promise!Next]_<<Accepted, answer>>
<1>1. /\ Base /\ Base' /\ Idle /\ UNCHANGED <<unmapped, stranded, answer>>
      /\ srv.pc \in {"loop", "callback"}
  BY PromiseIs DEF RuntimeInv, InoutDataOversized, Allowed
<1>2. Idle' /\ UNCHANGED <<srv, escaped>>
  BY <1>1, OversizedView
<1>3. srv.pc = "loop" /\ srv.ctx # "inout_data"
  BY <1>1, NoSlotIsNoSlot DEF Base, HeadInv, DeviceInv, ServerHasHead, Idle, PromiseInv
<1>4. PromiseInv'
  BY <1>1, <1>2, <1>3 DEF PromiseInv
<1>5. /\ RingOK(q) /\ RingOK(q') /\ HaveCallbacks(cmds) /\ HaveCallbacks(cmds')
      /\ q.working = q.create /\ q'.working = q'.create
  <2>1. (q.working = q.create)'
    BY <1>2, <1>4, PromiseIs, PTL
  <2> QED
    BY <1>1, <2>1, PromiseIs, NextIs
<1>6. Listed(srv, q, cmds) = <<>>
  BY <1>3, <1>5, ListedIs
<1>7. Listed(srv', q', cmds') = <<>>
  BY <1>2, <1>3, <1>5, ListedIs
<1> QED
  BY <1>1, <1>4, <1>6, <1>7, PromiseStutters

\* inout_data() returns: the request is promised and the only one.
LEMMA SubmitPromise ==
  ASSUME PromiseInv, RuntimeInv', Submit
  PROVE  PromiseInv' /\ [Promise!Next]_<<Accepted, answer>>
<1> DEFINE d == [HeadCmd EXCEPT !.status = "Progress_cmd"]
<1>0. Base /\ Base' /\ ServerInv
  BY PromiseIs DEF RuntimeInv
<1>1. /\ ~Idle /\ Working(q) \in Slots /\ q' = q /\ cmds' = [cmds EXCEPT ![Working(q)] = d]
      /\ SameCommand(HeadCmd, d) /\ OfRequest(drv, HeadCmd) /\ srv' = Loop
  BY <1>0, SubmitView DEF ServerInv
<1>2. /\ srv.pc = "submit" /\ UNCHANGED <<unmapped, stranded, escaped>>
      /\ answer' = IF srv.ctx = "inout_data" THEN [answer EXCEPT ![cmds[srv.slot].cb] = "none"]
                   ELSE answer
  BY DEF Submit
<1>3. srv'.pc = "loop" /\ srv'.ctx = "none"
  BY <1>1 DEF Loop
<1>4. PromiseInv'
  BY <1>2, <1>3 DEF PromiseInv
<1> HIDE DEF d
<1>5. d.cb = HeadCmd.cb /\ HeadCmd.cb \in Reqs
  BY <1>1 DEF SameCommand, OfRequest
<1> DEFINE w == q.working
           b == q.create
<1>6. /\ RingOK(q) /\ HaveCallbacks(cmds) /\ HaveCallbacks(cmds') /\ w \in Slots /\ b \in Slots
      /\ Working(q) = w /\ HeadCmd = cmds[w] /\ DOMAIN cmds = Slots
  BY <1>0, <1>1, PromiseIs, NextIs, HeadIsTyped, BaseIs DEF CmdsTyped
<1>7. cmds'[w] = d /\ \A s \in Slots : cmds'[s].cb = cmds[s].cb
  BY <1>1, <1>5, <1>6
<1>8. Listed(srv', q', cmds') = Requests(cmds', w, b)
  BY <1>1, <1>3, <1>6, ListedIs
<1>9. CASE srv.ctx # "inout_data"
  <2>1. SameCallbacks(cmds, cmds', w, b)
    BY <1>7 DEF SameCallbacks
  <2>2. Requests(cmds', w, b) = Requests(cmds, w, b)
    BY <1>6, <2>1, RequestsSame
  <2>3. Listed(srv, q, cmds) = Requests(cmds, w, b)
    BY <1>2, <1>6, <1>9, ListedIs
  <2> QED
    BY <1>2, <1>4, <1>8, <1>9, <2>2, <2>3, PromiseStutters
<1>10. CASE srv.ctx = "inout_data"
  <2>1. srv.slot = w /\ WrapAround(w + 1) = b
    BY <1>0, <1>2, <1>6, <1>10 DEF PromiseInv, ServerInv, Newest
  <2>2. Listed(srv, q, cmds) = <<>>
    BY <1>2, <1>6, <1>10, <2>1, ListedIs
  <2>3. WrapAround(w + 1) # w
    BY <1>6, WrapAroundNext, EntriesAssumption DEF Slots
  <2>4. Requests(cmds', w, w) = <<>>
    BY <1>6, RequestsEmpty
  <2>5. Requests(cmds', w, b) = Append(<<>>, HeadCmd.cb)
    <3>1. Requests(cmds', w, WrapAround(w + 1)) = Append(Requests(cmds', w, w), cmds'[w].cb)
      BY <1>6, <2>3, RequestsCreate
    <3> QED
      BY <1>5, <1>7, <2>1, <2>4, <3>1
  <2>6. answer' = [answer EXCEPT ![HeadCmd.cb] = "none"]
    BY <1>2, <1>6, <1>10, <2>1
  <2>7. Len(<<>>) < Entries - 1 /\ DOMAIN <<>> = {}
    BY EntriesAssumption
  <2>8. [Promise!Next]_<<Accepted, answer>>
    BY <1>5, <1>8, <2>2, <2>5, <2>6, <2>7, PromiseAccepts
  <2> QED
    BY <1>4, <2>8
<1> QED
  BY <1>9, <1>10

\* The requests behind the head, when only the slot of the head changes.
OnlySlot(cs, ds, w) == \A s \in Slots \ {w} : ds[s] = cs[s]

LEMMA BehindHead ==
  ASSUME NEW cs, NEW ds, NEW w \in Slots, NEW b \in Slots, w # b, OnlySlot(cs, ds, w)
  PROVE  Requests(ds, WrapAround(w + 1), b) = Requests(cs, WrapAround(w + 1), b)
<1> DEFINE a == WrapAround(w + 1)
<1>1. a \in Slots /\ Distance(a, w) = Entries - 1 /\ Distance(a, b) \in 0 .. Entries - 1
  BY WrapAroundNext, DistanceLeftBehind, DistanceType DEF Slots
<1> HIDE DEF a
<1>2. ASSUME NEW s \in Slots, Distance(a, s) < Distance(a, b) PROVE ds[s].cb = cs[s].cb
  <2>1. s # w
    BY <1>1, <1>2, EntriesAssumption
  <2> QED
    BY <2>1 DEF OnlySlot
<1>3. SameCallbacks(cs, ds, a, b)
  BY <1>2 DEF SameCallbacks
<1>4. Requests(ds, a, b) = Requests(cs, a, b)
  BY <1>1, <1>3, RequestsSame
<1> QED
  BY <1>4 DEF a

\* handle_irq() answers the oldest request, and no other.
LEMMA HandleIrqPromise ==
  ASSUME PromiseInv, RuntimeInv', HandleIrqMessage
  PROVE  PromiseInv' /\ [Promise!Next]_<<Accepted, answer>>
<1> DEFINE r == HandleIrq(HeadCmd, hw, TRUE)
           m == HandleIrqInout(drv, r.cmd)
           w == q.working
           b == q.create
<1>0. /\ Base /\ Base' /\ ServerInv /\ AtHead
      /\ r = HandleIrq(HeadCmd, hw, TRUE) /\ m = HandleIrqInout(drv, r.cmd) /\ drv \in Drivers
  BY PromiseIs, BaseIs DEF ServerInv, RuntimeInv
<1> HIDE DEF r, m
<1>1. /\ UNCHANGED <<drv, q, unmapped, stranded, escaped>> /\ srv.pc = "loop" /\ srv.ctx # "inout_data"
  BY <1>0, IrqView DEF PromiseInv
<1>2. CASE UNCHANGED <<cmds, answer>> /\ srv' \in {srv, Loop} /\ (Idle \/ escaped)
  <2>1. srv'.pc = "loop" /\ srv'.ctx # "inout_data"
    BY <1>1, <1>2 DEF Loop
  <2>2. PromiseInv'
    BY <1>1, <2>1 DEF PromiseInv
  <2>3. Listed(srv', q', cmds') = Listed(srv, q, cmds)
    BY <1>1, <1>2, <2>1 DEF Listed
  <2> QED
    BY <1>2, <2>2, <2>3, PromiseStutters
<1>3. CASE /\ ~Idle /\ OfRequest(drv, HeadCmd) /\ IsProgress(r.cmd) /\ SameCommand(HeadCmd, r.cmd)
           /\ cmds' = [cmds EXCEPT ![Working(q)] = r.cmd] /\ UNCHANGED <<srv, answer>>
  <2>1. PromiseInv'
    BY <1>1, <1>3 DEF PromiseInv
  <2>2. r.cmd.cb = HeadCmd.cb
    BY <1>3 DEF SameCommand
  <2> QED
    BY <1>0, <1>1, <1>3, <2>1, <2>2, HeadKeepsList
<1>4. CASE /\ ~Idle /\ OfRequest(drv, r.cmd) /\ IsCmd(r.cmd) /\ SameCommand(HeadCmd, r.cmd)
           /\ ~IsProgress(r.cmd) /\ m.reply = "none"
           /\ cmds' = [cmds EXCEPT ![Working(q)] = m.cmd] /\ UNCHANGED answer
           /\ Ready(m.cmd) => srv'.pc = "submit" /\ srv'.ctx = "handle_irq"
  <2>1. Ready(m.cmd) /\ m.cmd.cb = r.cmd.cb
    BY <1>0, <1>4, HandleIrqInoutMore
  <2>2. m.cmd.cb = HeadCmd.cb
    BY <1>4, <2>1 DEF SameCommand
  <2>3. srv'.pc = "submit" /\ srv'.ctx = "handle_irq"
    BY <1>4, <2>1
  <2>4. PromiseInv'
    BY <1>1, <2>3 DEF PromiseInv
  <2> QED
    BY <1>0, <1>1, <1>4, <2>2, <2>3, <2>4, HeadKeepsList
<1>5. CASE /\ ~Idle /\ OfRequest(drv, r.cmd) /\ IsCmd(r.cmd) /\ SameCommand(HeadCmd, r.cmd)
           /\ ~IsProgress(r.cmd) /\ m.reply # "none"
           /\ cmds' = [cmds EXCEPT ![Working(q)] = m.cmd]
           /\ srv'.pc = "callback" /\ answer' = [answer EXCEPT ![HeadCmd.cb] = m.reply]
  <2>1. srv'.ctx # "inout_data"
    <3>1. \/ srv' \in {srv, Loop, [Loop EXCEPT !.pc = "callback"]}
          \/ srv' = Kicked(q, cmds', "handle_irq", NoSlot)
      BY DEF HandleIrqMessage
    <3>2. Loop.ctx = "none" /\ [Loop EXCEPT !.pc = "callback"].ctx = "none"
      BY DEF Loop
    <3>3. Kicked(q, cmds', "handle_irq", NoSlot).ctx # "inout_data"
      BY DEF Kicked, Loop
    <3> QED
      BY <1>1, <3>1, <3>2, <3>3
  <2>2. PromiseInv'
    BY <1>1, <2>1 DEF PromiseInv
  <2>3. StopCmd(r.cmd) => r.cmd.status12 \notin ProgressStatus
    <3>1. OfRequest(drv, HeadCmd) /\ (StopCmd(r.cmd) => StopCmd(HeadCmd))
          /\ r.cmd.status12 = HeadCmd.status12
      BY <1>5, SameKind
    <3> QED
      BY <1>0, <3>1 DEF AtHead
  <2>4. m.reply \in {"ok", "eio"}
    <3>1. /\ IsCmd(r.cmd) /\ OfRequest(drv, r.cmd) /\ ~IsProgress(r.cmd) /\ drv \in Drivers
          /\ StopCmd(r.cmd) => r.cmd.status12 \notin ProgressStatus
          /\ m = HandleIrqInout(drv, r.cmd) /\ m.reply # "none"
      BY <1>0, <1>5, <2>3
    <3> QED
      BY <3>1, HandleIrqInoutDone
  <2>5. /\ RingOK(q) /\ HaveCallbacks(cmds) /\ HaveCallbacks(cmds') /\ w \in Slots /\ b \in Slots
        /\ Working(q) = w /\ HeadCmd = cmds[w] /\ DOMAIN cmds = Slots /\ w # b
    BY <1>0, <1>5, PromiseIs, NextIs, HeadIsTyped, BaseIs DEF CmdsTyped
  <2>6. /\ Requests(cmds, w, b) # <<>> /\ Head(Requests(cmds, w, b)) = HeadCmd.cb
        /\ Requests(cmds, WrapAround(w + 1), b) = Tail(Requests(cmds, w, b))
    BY <2>5, RequestsRetire
  <2>7. Requests(cmds', WrapAround(w + 1), b) = Requests(cmds, WrapAround(w + 1), b)
    <3>1. OnlySlot(cmds, cmds', w)
      BY <1>5, <2>5 DEF OnlySlot
    <3> QED
      BY <2>5, <3>1, BehindHead
  <2>8. Listed(srv, q, cmds) = Requests(cmds, w, b)
    BY <1>1, <2>5, ListedIs
  <2>9. Listed(srv', q', cmds') = Requests(cmds', WrapAround(w + 1), b)
    BY <1>1, <1>5, <2>5, ListedIs
  <2>10. Promise!Answer
    BY <1>5, <2>4, <2>6, <2>7, <2>8, <2>9, AcceptedIsListed DEF Promise!Answer
  <2> QED
    BY <2>2, <2>10 DEF Promise!Next
<1> QED
  BY <1>0, <1>2, <1>3, <1>4, <1>5, IrqView

\* A head stranded by a late reset stays in the list, unanswered.
LEMMA HandleIrqThrowsPromise ==
  ASSUME PromiseInv, RuntimeInv', HandleIrqThrows
  PROVE  PromiseInv' /\ [Promise!Next]_<<Accepted, answer>>
<1> DEFINE r == HandleIrq(HeadCmd, hw, FALSE)
<1>0. Base /\ Base' /\ AtHead /\ r = HandleIrq(HeadCmd, hw, FALSE)
  BY PromiseIs DEF ServerInv, RuntimeInv
<1> HIDE DEF r
<1>1. /\ UNCHANGED <<q, srv, unmapped, answer, escaped>> /\ srv.pc = "loop" /\ ~Idle
      /\ SameCommand(HeadCmd, r.cmd) /\ cmds' = [cmds EXCEPT ![Working(q)] = r.cmd]
  BY <1>0, IrqThrowsView
<1>2. PromiseInv'
  BY <1>1 DEF PromiseInv
<1>3. r.cmd.cb = HeadCmd.cb
  BY <1>1 DEF SameCommand
<1> QED
  BY <1>0, <1>1, <1>2, <1>3, HeadKeepsList

\* The callback returns: its request is no longer promised since the answer.
LEMMA CallbackReturnsPromise ==
  ASSUME PromiseInv, RuntimeInv', CallbackReturns
  PROVE  PromiseInv' /\ [Promise!Next]_<<Accepted, answer>>
<1> DEFINE w == q.working
           b == q.create
<1>0. Base /\ Base' /\ ServerInv
  BY PromiseIs DEF RuntimeInv
<1>1. /\ srv.pc = "callback" /\ Retire(Working(q)) /\ UNCHANGED <<answer, escaped>>
      /\ srv' = Kicked(q', cmds', "handle_irq", NoSlot)
  BY DEF CallbackReturns
<1>2. ~Idle
  BY <1>0, <1>1, NoSlotIsNoSlot DEF Base, HeadInv, DeviceInv, ServerHasHead, Idle
<1>3. /\ RingOK(q) /\ RingOK(q') /\ HaveCallbacks(cmds) /\ HaveCallbacks(cmds')
      /\ w \in Slots /\ b \in Slots /\ Working(q) = w /\ DOMAIN cmds = Slots /\ w # b
  BY <1>0, <1>2, PromiseIs, NextIs, BaseIs DEF CmdsTyped
<1>4. /\ q'.working = WrapAround(w + 1) /\ q'.create = b /\ unmapped' \subseteq unmapped
      /\ cmds' = [cmds EXCEPT ![w] = InvalidCmd]
  BY <1>1, <1>3 DEF Retire, Destructed, WorkDone, RingOK, Queues
<1>5. (srv'.pc = "loop" \/ srv'.pc = "submit") /\ srv'.ctx # "inout_data"
  BY <1>1 DEF Kicked, Loop
<1>6. PromiseInv'
  BY <1>1, <1>4, <1>5 DEF PromiseInv
<1>7. Requests(cmds', WrapAround(w + 1), b) = Requests(cmds, WrapAround(w + 1), b)
  <2>1. OnlySlot(cmds, cmds', w)
    BY <1>3, <1>4 DEF OnlySlot
  <2> QED
    BY <1>3, <2>1, BehindHead
<1>8. Listed(srv, q, cmds) = Requests(cmds, WrapAround(w + 1), b)
  BY <1>1, <1>3, ListedIs
<1>9. Listed(srv', q', cmds') = Requests(cmds', WrapAround(w + 1), b)
  BY <1>3, <1>4, <1>5, ListedIs
<1> QED
  BY <1>1, <1>6, <1>7, <1>8, <1>9, PromiseStutters

\* The commands of flush() are no requests, and it begins with an empty queue.
LEMMA FlushPromise ==
  ASSUME FlushWhen # "any", PromiseInv, RuntimeInv', Flush
  PROVE  PromiseInv' /\ [Promise!Next]_<<Accepted, answer>>
<1>0. Base /\ Idle /\ srv.pc = "loop" /\ srv.ctx # "inout_data"
      /\ UNCHANGED <<unmapped, stranded, answer, escaped>>
  BY PromiseIs DEF Flush, Allowed, PromiseInv
<1>1. CASE ~HasCache
  <2>1. UNCHANGED <<q, cmds, srv>>
    BY <1>1 DEF Flush
  <2>2. PromiseInv'
    BY <1>0, <2>1 DEF PromiseInv
  <2>3. Listed(srv', q', cmds') = Listed(srv, q, cmds)
    BY <2>1 DEF Listed
  <2> QED
    BY <1>0, <2>2, <2>3, PromiseStutters
<1>2. CASE HasCache
  <2>1. srv'.pc = "flSubmit" /\ srv'.ctx = "none"
    BY <1>2 DEF Flush, Loop
  <2>2. PromiseInv'
    BY <1>0, <2>1 DEF PromiseInv
  <2>3. RingOK(q) /\ HaveCallbacks(cmds) /\ q.working = q.create
    BY <1>0, PromiseIs
  <2>4. Listed(srv, q, cmds) = <<>>
    BY <1>0, <2>3, ListedIs
  <2>5. Listed(srv', q', cmds') = <<>>
    BY <2>1 DEF Listed
  <2> QED
    BY <1>0, <2>2, <2>4, <2>5, PromiseStutters
<1> QED
  BY <1>1, <1>2

LEMMA FlushEndsPromise ==
  ASSUME PromiseInv, RuntimeInv', InFlush, NEW c, NEW result, FlushEnds(c, result),
         drv' = drv, answer' = answer
  PROVE  PromiseInv' /\ [Promise!Next]_<<Accepted, answer>>
<1>0. Base /\ Base' /\ ServerInv
  BY PromiseIs DEF RuntimeInv
<1>1. srv' = Loop /\ Retire(srv.slot) /\ escaped' = escaped
  BY <1>0, FlushIsAtHead DEF FlushEnds, WorkDoneAllowed
<1>2. srv'.pc = "loop" /\ srv'.ctx # "inout_data" /\ unmapped' = {}
  BY <1>1 DEF Loop, Retire, PromiseInv
<1>3. PromiseInv'
  BY <1>1, <1>2 DEF PromiseInv
<1>4. Idle'
  BY <1>0, FlushEndsServer
<1>5. RingOK(q') /\ HaveCallbacks(cmds') /\ q'.working = q'.create
  <2>1. (q.working = q.create)'
    BY <1>3, <1>4, PromiseIs, PTL
  <2> QED
    BY <1>0, <2>1, NextIs
<1>6. Listed(srv, q, cmds) = <<>>
  BY DEF Listed, InFlush
<1>7. Listed(srv', q', cmds') = <<>>
  BY <1>2, <1>5, ListedIs
<1> QED
  BY <1>3, <1>6, <1>7, PromiseStutters

LEMMA FlushReceivePromise ==
  ASSUME NEW inTime \in BOOLEAN, PromiseInv, RuntimeInv', FlushReceive(inTime)
  PROVE  PromiseInv' /\ [Promise!Next]_<<Accepted, answer>>
<1> DEFINE r == HandleIrqCmd(cmds[srv.slot], hw, hw.is, inTime)
<1>1. /\ InFlush /\ UNCHANGED <<drv, answer>> /\ srv.ctx # "inout_data"
      /\ \/ UNCHANGED <<srv, unmapped, stranded, escaped>>
         \/ FlushFinished(r.cmd, hw.resp)
  BY DEF FlushReceive, InFlush, PromiseInv
<1> HIDE DEF r
<1>2. Listed(srv, q, cmds) = <<>>
  BY <1>1 DEF Listed, InFlush
<1>3. CASE UNCHANGED <<srv, unmapped, stranded, escaped>>
  <2>1. PromiseInv'
    BY <1>1, <1>3 DEF PromiseInv
  <2>2. Listed(srv', q', cmds') = <<>>
    BY <1>1, <1>3 DEF Listed, InFlush
  <2> QED
    BY <1>1, <1>2, <2>1, <2>2, PromiseStutters
<1>4. ASSUME NEW result, FlushEnds(r.cmd, result)
      PROVE  PromiseInv' /\ [Promise!Next]_<<Accepted, answer>>
  BY <1>1, <1>4, FlushEndsPromise
<1>5. ASSUME NEW n \in 0 .. MaxPolls - 1, PollStatus(r.cmd, n)
      PROVE  PromiseInv' /\ [Promise!Next]_<<Accepted, answer>>
  <2>1. srv' = [srv EXCEPT !.pc = "flSubmit", !.polls = n] /\ UNCHANGED <<unmapped, stranded, escaped>>
    BY <1>5 DEF PollStatus
  <2>2. srv'.pc = "flSubmit" /\ srv'.ctx # "inout_data"
    BY <1>1, <2>1, PromiseIs, BaseIs DEF Servers
  <2>3. PromiseInv'
    BY <2>1, <2>2 DEF PromiseInv
  <2>4. Listed(srv', q', cmds') = <<>>
    BY <2>2 DEF Listed
  <2> QED
    BY <1>1, <1>2, <2>3, <2>4, PromiseStutters
<1>6. DeviceInv
  BY PromiseIs, BaseIs
<1> QED
  BY <1>1, <1>3, <1>4, <1>5, <1>6, FlushFinishedCases

LEMMA UnlistedPromise ==
  ASSUME PromiseInv, RuntimeInv', UNCHANGED <<q, srv, unmapped, stranded, answer, escaped>>,
         cmds' = cmds
  PROVE  PromiseInv' /\ [Promise!Next]_<<Accepted, answer>>
<1>1. PromiseInv'
  BY DEF PromiseInv
<1>2. Listed(srv', q', cmds') = Listed(srv, q, cmds)
  OBVIOUS
<1> QED
  BY <1>1, <1>2, PromiseStutters

LEMMA FlushSubmitPromise ==
  ASSUME PromiseInv, RuntimeInv', FlushSubmit
  PROVE  PromiseInv' /\ [Promise!Next]_<<Accepted, answer>>
<1>1. /\ srv.pc = "flSubmit" /\ srv' = [srv EXCEPT !.pc = "flReceive"]
      /\ UNCHANGED <<unmapped, stranded, answer, escaped>>
  BY DEF FlushSubmit
<1>2. srv'.pc = "flReceive" /\ srv'.ctx # "inout_data"
  BY <1>1, PromiseIs, BaseIs DEF Servers, PromiseInv
<1>3. PromiseInv'
  BY <1>1, <1>2 DEF PromiseInv
<1>4. Listed(srv, q, cmds) = <<>> /\ Listed(srv', q', cmds') = <<>>
  BY <1>1, <1>2 DEF Listed
<1> QED
  BY <1>1, <1>3, <1>4, PromiseStutters

-----------------------------------------------------------------------------
LEMMA NextKeepsPromise ==
  ASSUME FlushWhen # "any", UnmappedWhen = "never", OversizedWhen # "any",
         PromiseInv, NoneReady, [Next]_vars
  PROVE  PromiseInv' /\ [Promise!Next]_<<Accepted, answer>>
<1>0. RuntimeInv'
  BY NextKeepsBase, NextKeepsServerInv, NextKeepsHwInv, NextKeepsResets
  DEF PromiseInv, RuntimeInv
<1>1. ASSUME NEW r \in Reqs, NEW read, NEW blocks, InoutData(r, read, blocks)
      PROVE  PromiseInv' /\ [Promise!Next]_<<Accepted, answer>>
  BY <1>0, <1>1, InoutDataPromise
<1>2. ASSUME NEW r \in Reqs, InoutDataOversized(r)
      PROVE  PromiseInv' /\ [Promise!Next]_<<Accepted, answer>>
  BY <1>0, <1>2, OversizedPromise
<1>3. CASE Flush
  BY <1>0, <1>3, FlushPromise
<1>4. CASE Submit
  BY <1>0, <1>4, SubmitPromise
<1>5. CASE HandleIrqMessage
  BY <1>0, <1>5, HandleIrqPromise
<1>6. CASE CallbackReturns
  BY <1>0, <1>6, CallbackReturnsPromise
<1>7. CASE FlushSubmit
  BY <1>0, <1>7, FlushSubmitPromise
<1>8. ASSUME NEW inTime \in BOOLEAN, FlushReceive(inTime)
      PROVE  PromiseInv' /\ [Promise!Next]_<<Accepted, answer>>
  BY <1>0, <1>8, FlushReceivePromise
<1>9. CASE FlushTimeout
  BY <1>0, <1>9, FlushEndsPromise DEF FlushTimeout, InFlush
<1>10. CASE Host \/ UNCHANGED vars
  BY <1>0, <1>10, UnlistedPromise DEF Host, deviceVars, vars
<1>11. ~SubmitFailsInout /\ ~SubmitFailsIrq
  BY SubmitNeverFails
<1>12. CASE HandleIrqThrows
  BY <1>0, <1>12, HandleIrqThrowsPromise
<1> QED
  BY <1>1, <1>2, <1>3, <1>4, <1>5, <1>6, <1>7, <1>8, <1>9, <1>10, <1>11, <1>12
  DEF Next, Client, Server

LEMMA InitPromise ==
  ASSUME Init
  PROVE  PromiseInv /\ NoneReady /\ Promise!Init
<1>1. RuntimeInv /\ RingOK(q)
  BY InitBase, InitHwInv, InitResets, EmptyRingOK DEF RuntimeInv, Init
<1>2. PromiseInv
  BY <1>1 DEF PromiseInv, Init, Loop
<1>3. srv.pc = "loop" /\ q.working = q.create /\ HaveCallbacks(cmds)
  BY <1>2, PromiseIs DEF Init, Loop, EmptyQueue
<1>4. Accepted = <<>>
  BY <1>1, <1>3, ListedIs, AcceptedIsListed
<1>5. Idle /\ HeadCmd = InvalidCmd
  BY <1>1, <1>2, <1>3, PromiseIs, HeadIsTyped
<1>6. NoneReady
  BY <1>5, InvalidIsAbandoned DEF NoneReady, Abandoned
<1> QED
  BY <1>2, <1>4, <1>6 DEF Promise!Init, Init

\* The driver keeps its promise to libblock-device, for any number of slots and
\* requests, any errors of controller and card and any timing: a request is
\* answered only if inout_data() has accepted it, once, and in the order of
\* acceptance, and at most Entries - 1 are outstanding.  The client flushes an
\* idle device, its memory can be addressed by the controller, and only to an
\* idle device it sends a block beyond max_size().  (That an answer comes at
\* all is the liveness part of the promise.)
THEOREM PromiseKept ==
  ASSUME FlushWhen # "any", UnmappedWhen = "never", OversizedWhen # "any"
  PROVE  Spec => Promise!SafeSpec
<1>1. Init => PromiseInv /\ NoneReady /\ Promise!Init
  BY InitPromise
<1>2. PromiseInv /\ NoneReady /\ [Next]_vars
        => PromiseInv' /\ NoneReady' /\ [Promise!Next]_<<Accepted, answer>>
  <2> SUFFICES ASSUME PromiseInv, NoneReady, [Next]_vars
               PROVE  PromiseInv' /\ NoneReady' /\ [Promise!Next]_<<Accepted, answer>>
    OBVIOUS
  <2>1. PromiseInv' /\ [Promise!Next]_<<Accepted, answer>>
    BY NextKeepsPromise
  <2>2. Base'
    BY <2>1 DEF PromiseInv, RuntimeInv
  <2> QED
    BY <2>1, <2>2, NextKeepsNoneReady
<1> QED
  BY <1>1, <1>2, PTL DEF Spec, Promise!SafeSpec
=============================================================================
