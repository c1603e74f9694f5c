----------------------------- MODULE EmmcDevice -----------------------------
(***************************************************************************)
(* Emmc::Device at runtime (device-impl.h) on an Sdhci driver: the requests*)
(* of libblock-device, the command queue, the interrupt handler and the    *)
(* controller of SdhciHost.                                                *)
(*                                                                         *)
(* The server is one thread.  srv.pc is where it is:                       *)
(*   "loop"      in the server loop, waiting for a client or the interrupt *)
(*   "submit"    in cmd_submit_on_avail(), polling until the head of the   *)
(*               queue can be sent; srv.ctx is who called cmd_queue_kick() *)
(*   "callback"  in cb_io of the head, called by handle_irq_inout(): the   *)
(*               client may issue requests from there                      *)
(*   "flSubmit"  in flush(), polling until its command can be sent         *)
(*   "flReceive" in flush(), in receive_irq()                              *)
(***************************************************************************)
EXTENDS CmdRing, SdhciHost

CONSTANTS
  Reqs,             \* requests of the client, by their callback
  Drivers,          \* traits of the controller and the card
  BlockLists,       \* Inout_block lists of the requests
  MaxPolls,         \* CMD13 after CMD6 in exec_mmc_switch(), 50 in the code
  UnmappedWhen,     \* "never", "idle", "any": may a request be unmapped
  OversizedWhen,    \* the same: may a request have a block beyond max_size()
  FlushWhen,        \* "never", "idle", "any": when the client flushes
  IrqLate           \* may an interrupt take longer than Timeout_irq_us

ASSUME DeviceAssumption ==
  /\ NoReq \notin Reqs
  /\ Drivers \subseteq {k \in Traits : k.adma2}
  /\ MaxPolls \in Nat \ {0}
  /\ IrqLate \in BOOLEAN
  /\ {UnmappedWhen, OversizedWhen, FlushWhen} \subseteq {"never", "idle", "any"}

VARIABLES
  drv,          \* the traits, fixed when the device is up
  q, cmds,      \* Cmd_queue: cursors and flags, and the Cmd in each slot
  srv,          \* the server thread
  unmapped,     \* requests whose memory the controller cannot address
  stranded,     \* requests whose Cmd an exception in handle_irq() left at the
                \* head, neither sent nor answered (history)
  answer,       \* last answer of each request, "none" after its acceptance
  flushed,      \* result of the last flush(), "none" while it runs
  escaped       \* an exception left inout_data() or flush()

vars == <<drv, q, cmds, srv, unmapped, stranded, answer, flushed, escaped, hostVars>>

Servers == [pc : {"loop", "submit", "callback", "flSubmit", "flReceive"},
            ctx : {"none", "inout_data", "handle_irq"},
            slot : Slots \cup {NoSlot}, polls : 0 .. MaxPolls - 1]

Loop == [pc |-> "loop", ctx |-> "none", slot |-> NoSlot, polls |-> 0]

Init ==
  /\ drv \in Drivers
  /\ q = EmptyQueue
  /\ cmds = [s \in Slots |-> InvalidCmd]
  /\ srv = Loop
  /\ unmapped = {} /\ stranded = {}
  /\ answer = [r \in Reqs |-> "none"]
  /\ flushed = "none"
  /\ escaped = FALSE
  /\ HostInit

-----------------------------------------------------------------------------
\* The requests in the ring, oldest first.
Occupied == {s \in Slots : s \in q.enqueued}
InRing == {cmds[s].cb : s \in Occupied} \ {NoReq}

Idle == Working(q) = NoSlot

Allowed(when) == when = "any" \/ (when = "idle" /\ Idle)

\* Whether Drv::cmd_queue_kick() submits the working entry.
KickNeeded(queue, c) ==
  Working(queue) # NoSlot /\ c[Working(queue)].status = "Ready_for_submit"

\* The server after cmd_queue_kick() called by ctx, up to the polling loop.
Kicked_OnlyByClient(queue, c, ctx, slot) ==
  IF KickNeeded(queue, c) /\ ctx = "inout_data"
    THEN [Loop EXCEPT !.pc = "submit", !.ctx = ctx, !.slot = slot]
    ELSE Loop
Kicked(queue, c, ctx, slot) ==
  IF KickNeeded(queue, c)
    THEN [Loop EXCEPT !.pc = "submit", !.ctx = ctx, !.slot = slot]
    ELSE Loop

\* Cmd::work_done() and Cmd::destruct() of the head.
Retire(s) ==
  /\ q' = Destructed(WorkDone(q), s)
  /\ cmds' = [cmds EXCEPT ![s] = InvalidCmd]
  /\ unmapped' = unmapped \ {cmds[s].cb}
  /\ stranded' = stranded \ {cmds[s].cb}

\* cmd_submit() checks the status; of a data command it builds the descriptor
\* list and throws on memory the controller cannot address.
SubmitThrows(c) ==
  c.status # "Ready_for_submit" \/ (c.hasData /\ c.cb \in unmapped)

\* Device::unmask_interrupt()
Unmasked_Forgotten(i) == i
Unmasked(i) == [i EXCEPT !.masked = FALSE]

\* Device::inout_data() up to the polling in cmd_queue_kick().  A full ring is
\* answered with -L4_EBUSY, without a change of state.  From a callback the kick
\* finds a head that is over (HeadIsSubmitted).  Left out is a callback that
\* issues a request for a head stranded ready by SubmitFailsIrq: the late
\* interrupt of a flush() that gave up can bring it about, and the kick would
\* submit that head once more.
InoutData(r, read, blocks) ==
  /\ srv.pc \in {"loop", "callback"}
  /\ srv.pc = "callback" => ~KickNeeded(q, cmds)
  /\ r \notin InRing
  /\ CanCreate(q)
  /\ ~CreateThrows(q)
  /\ LET s == q.create
         c == FirstCommand(drv, InitInout(CreatedCmd, 0, blocks, r, read))
     IN  /\ q' = Created(q)
         /\ cmds' = [cmds EXCEPT ![s] = c]
         /\ srv' = IF srv.pc = "callback" THEN srv
                   ELSE Kicked(Created(q), cmds', "inout_data", s)
         /\ answer' = IF srv'.ctx = "inout_data" THEN answer
                      ELSE [answer EXCEPT ![r] = "none"]
  /\ \/ unmapped' = unmapped \ {r}
     \/ Allowed(UnmappedWhen) /\ unmapped' = unmapped \cup {r}
  /\ moved' = moved \ {r}
  /\ UNCHANGED <<drv, stranded, flushed, escaped, hw, card, irq>>

\* Device::inout_data() with a block beyond max_size(): its handler retires the
\* new Cmd, which must be the head, and returns -L4_EINVAL.  If it is not, the
\* exception reaches the client, or handle_irq() when a callback passes it on.
InoutDataOversized(r) ==
  /\ srv.pc \in {"loop", "callback"}
  /\ r \notin InRing
  /\ CanCreate(q) /\ ~CreateThrows(q)
  /\ Allowed(OversizedWhen)
  /\ LET s == q.create
         queue == Created(q)
     IN  IF WorkDoneAllowed(queue, s)
           THEN /\ q' = Destructed(WorkDone(queue), s)
                /\ cmds' = [cmds EXCEPT ![s] = InvalidCmd]
                /\ UNCHANGED <<srv, escaped>>
           ELSE /\ q' = queue
                /\ cmds' = [cmds EXCEPT ![s] = [CreatedCmd EXCEPT !.cb = r]]
                /\ srv' \in {srv, Loop}
                /\ escaped' = TRUE
  /\ UNCHANGED <<drv, unmapped, stranded, answer, flushed, hostVars>>

\* The rest of Drv::cmd_submit_on_avail() and of cmd_queue_kick(): the command
\* is sent and the interrupt unmasked; inout_data() returns L4_EOK.
Submit ==
  LET s == Working(q)
      c == cmds[s]
  IN  /\ srv.pc = "submit"
      /\ Available(hw, c) /\ ~SubmitThrows(c)
      /\ cmds' = [cmds EXCEPT ![s].status = "Progress_cmd"]
      /\ hw' = Submitted(hw, c)
      /\ irq' = Unmasked(irq)
      /\ answer' = IF srv.ctx = "inout_data"
                     THEN [answer EXCEPT ![cmds[srv.slot].cb] = "none"]
                     ELSE answer
      /\ srv' = Loop
      /\ UNCHANGED <<drv, q, unmapped, stranded, flushed, escaped, card, moved>>

\* cmd_submit() throws below inout_data(): its handler retires the new Cmd,
\* which must be the head, and returns -L4_EINVAL.  As the newest and the oldest
\* Cmd it was the only one, so the kick that follows finds nothing.
SubmitFailsInout ==
  /\ srv.pc = "submit" /\ srv.ctx = "inout_data"
  /\ Available(hw, cmds[Working(q)]) /\ SubmitThrows(cmds[Working(q)])
  /\ srv' = Loop
  /\ IF WorkDoneAllowed(q, srv.slot)
       THEN Retire(srv.slot) /\ UNCHANGED escaped
       ELSE escaped' = TRUE /\ UNCHANGED <<q, cmds, unmapped, stranded>>
  /\ UNCHANGED <<drv, answer, flushed, hostVars>>

\* cmd_submit() throws below handle_irq(), which logs the exception.
SubmitFailsIrq ==
  /\ srv.pc = "submit" /\ srv.ctx = "handle_irq"
  /\ Available(hw, cmds[Working(q)]) /\ SubmitThrows(cmds[Working(q)])
  /\ srv' = Loop
  /\ stranded' = stranded \cup {cmds[Working(q)].cb}
  /\ UNCHANGED <<drv, q, cmds, unmapped, answer, flushed, escaped, hostVars>>

-----------------------------------------------------------------------------
\* Device::handle_irq() for the message of the interrupt.  The handler leaves
\* the interrupt masked unless the command goes on or another one is sent.
HandleIrqMessage ==
  /\ srv.pc = "loop" /\ irq.msg
  /\ LET s == Working(q)
         r == HandleIrq(cmds[s], hw, TRUE)
         work == HandleIrqInout(drv, r.cmd)
     IN  \/ /\ s = NoSlot
            /\ irq' = [irq EXCEPT !.msg = FALSE]
            /\ UNCHANGED <<cmds, srv, answer, hw>>
         \/ /\ s # NoSlot /\ IsProgress(r.cmd)
            /\ cmds' = [cmds EXCEPT ![s] = r.cmd] /\ hw' = r.hw
            /\ irq' = Unmasked([irq EXCEPT !.msg = FALSE])
            /\ UNCHANGED <<srv, answer>>
         \/ /\ s # NoSlot /\ ~IsProgress(r.cmd)
            /\ hw' = r.hw
            /\ irq' = [irq EXCEPT !.msg = FALSE]
            /\ IF ~r.cmd.inout
                 THEN /\ cmds' = [cmds EXCEPT ![s] = r.cmd]
                      /\ srv' = Kicked(q, cmds', "handle_irq", NoSlot)
                      /\ UNCHANGED answer
               ELSE IF work.reply = "none"
                 THEN /\ cmds' = [cmds EXCEPT ![s] = work.cmd]
                      /\ srv' = Kicked(q, cmds', "handle_irq", NoSlot)
                      /\ UNCHANGED answer
               ELSE /\ cmds' = [cmds EXCEPT ![s] = work.cmd]
                    /\ srv' = [Loop EXCEPT !.pc = "callback"]
                    /\ answer' = [answer EXCEPT ![r.cmd.cb] = work.reply]
  /\ UNCHANGED <<drv, q, unmapped, stranded, flushed, escaped, card, moved>>

\* The reset of a line after an error takes longer than the poll: its exception
\* leaves Sdhci::handle_irq(), and Device::handle_irq() just logs it.  The Cmd
\* stays at the head with its error, unanswered; the interrupt stays masked.
HandleIrqThrows ==
  /\ srv.pc = "loop" /\ irq.msg /\ ~Idle
  /\ LET s == Working(q)
         r == HandleIrq(cmds[s], hw, FALSE)
     IN  /\ IsProgress(cmds[s]) /\ IsError(r.cmd)
         /\ cmds' = [cmds EXCEPT ![s] = r.cmd] /\ hw' = r.hw
         /\ stranded' = stranded \cup {cmds[s].cb}
  /\ irq' = [irq EXCEPT !.msg = FALSE]
  /\ UNCHANGED <<drv, q, srv, unmapped, answer, flushed, escaped, card, moved>>

\* The callback returns to handle_irq_inout(): the Cmd is retired and the next
\* one kicked.
CallbackReturns ==
  /\ srv.pc = "callback"
  /\ Retire(Working(q))
  /\ srv' = Kicked(q', cmds', "handle_irq", NoSlot)
  /\ UNCHANGED <<drv, answer, flushed, escaped, hostVars>>

-----------------------------------------------------------------------------
\* Device::flush() up to the polling for its CMD6.
Flush ==
  /\ srv.pc = "loop"
  /\ Allowed(FlushWhen)
  /\ IF ~HasCache
       THEN flushed' = "ok" /\ UNCHANGED <<q, cmds, srv>>
       ELSE /\ CanCreate(q) /\ ~CreateThrows(q)
            /\ q' = Created(q)
            /\ cmds' = [cmds EXCEPT ![q.create] = InitArg(CreatedCmd, "CMD6", 0)]
            /\ srv' = [Loop EXCEPT !.pc = "flSubmit", !.slot = q.create]
            /\ flushed' = "none"
  /\ UNCHANGED <<drv, unmapped, stranded, answer, escaped, hostVars>>

\* cmd_submit_on_avail() in cmd_exec(); receive_irq() unmasks the interrupt.
FlushSubmit ==
  /\ srv.pc = "flSubmit"
  /\ Available(hw, cmds[srv.slot])
  /\ hw' = Submitted(hw, cmds[srv.slot])
  /\ cmds' = [cmds EXCEPT ![srv.slot].status = "Progress_cmd"]
  /\ irq' = Unmasked(irq)
  /\ srv' = [srv EXCEPT !.pc = "flReceive"]
  /\ UNCHANGED <<drv, q, unmapped, stranded, answer, flushed, escaped, card, moved>>

\* flush() returns: its Cmd must be the head to be retired.
FlushEnds(c, result) ==
  /\ srv' = Loop
  /\ IF WorkDoneAllowed(q, srv.slot)
       THEN Retire(srv.slot) /\ flushed' = result /\ UNCHANGED escaped
       ELSE /\ cmds' = [cmds EXCEPT ![srv.slot] = c]
            /\ escaped' = TRUE /\ UNCHANGED <<q, unmapped, stranded, flushed>>

\* Another CMD13, the polls-th one after the first.
PollStatus(c, polls) ==
  /\ srv' = [srv EXCEPT !.pc = "flSubmit", !.polls = polls]
  /\ cmds' = [cmds EXCEPT ![srv.slot] = InitArg(c, "CMD13", 0)]
  /\ UNCHANGED <<q, unmapped, stranded, flushed, escaped>>

\* What exec_mmc_switch() and flush() do with the end of CMD6 or of CMD13.
FlushFinished_Unchecked(c, resp) ==
  IF c.cmd = "CMD6" /\ ~IsError(c) THEN PollStatus(c, 0)
  ELSE IF resp = "busy" /\ srv.polls + 1 < MaxPolls
    THEN PollStatus(c, srv.polls + 1)
  ELSE FlushEnds(c, "ok")
FlushFinished(c, resp) ==
  IF IsError(c) THEN FlushEnds(c, "einval")
  ELSE IF c.cmd = "CMD6" THEN PollStatus(c, 0)
  ELSE IF resp = "busy" /\ srv.polls + 1 < MaxPolls
    THEN PollStatus(c, srv.polls + 1)
  ELSE FlushEnds(c, "ok")

\* An interrupt in Sdhci::cmd_wait_cmd_finished().  The exception of a reset that
\* takes too long reaches the handler of flush(), which ends it like an error.
FlushReceive(inTime) ==
  /\ srv.pc = "flReceive" /\ irq.msg
  /\ LET r == HandleIrqCmd(cmds[srv.slot], hw, hw.is, inTime)
     IN  /\ hw' = r.hw
         /\ IF IsProgress(r.cmd)
              THEN /\ irq' = Unmasked([irq EXCEPT !.msg = FALSE])
                   /\ cmds' = [cmds EXCEPT ![srv.slot] = r.cmd]
                   /\ UNCHANGED <<q, srv, unmapped, stranded, flushed, escaped>>
              ELSE /\ irq' = [irq EXCEPT !.msg = FALSE]
                   /\ FlushFinished(r.cmd, hw.resp)
  /\ UNCHANGED <<drv, answer, card, moved>>

\* receive_irq() throws after Timeout_irq_us without an interrupt.
FlushTimeout ==
  /\ srv.pc = "flReceive" /\ ~irq.msg
  /\ IrqLate
  /\ FlushEnds(cmds[srv.slot], "einval")
  /\ UNCHANGED <<drv, answer, hostVars>>

-----------------------------------------------------------------------------
Client ==
  \/ \E r \in Reqs, read \in BOOLEAN, blocks \in BlockLists :
       InoutData(r, read, blocks)
  \/ \E r \in Reqs : InoutDataOversized(r)
  \/ Flush

Server == \/ Submit \/ SubmitFailsInout \/ SubmitFailsIrq
          \/ HandleIrqMessage \/ HandleIrqThrows \/ CallbackReturns
          \/ FlushSubmit \/ \E inTime \in BOOLEAN : FlushReceive(inTime)

deviceVars == <<drv, q, cmds, srv, unmapped, stranded, answer, flushed, escaped>>

Host == HostNext /\ UNCHANGED deviceVars

Next == Client \/ Server \/ FlushTimeout \/ Host

\* The controller and the card end every phase and every reset they started, with
\* an error of their own if need be; the kernel delivers the interrupt; the server thread
\* runs.  Nothing is assumed of the client or of the timeout.
Fairness ==
  /\ WF_vars(CommandPhaseEnds /\ UNCHANGED deviceVars)
  /\ WF_vars(DataPhaseEnds /\ UNCHANGED deviceVars)
  /\ WF_vars(BusyEnds /\ UNCHANGED deviceVars)
  /\ WF_vars(LineResetEnds /\ UNCHANGED deviceVars)
  /\ WF_vars(DeliverIrq /\ UNCHANGED deviceVars)
  /\ WF_vars(Server)

Spec == Init /\ [][Next]_vars
FairSpec == Spec /\ Fairness

-----------------------------------------------------------------------------
(* Properties.                                                             *)

CmdTypeOK(c) ==
  /\ c.status \in Status /\ c.status12 \in Status
  /\ c.cmd \in MmcCommands
  /\ c.cb \in Reqs \cup {NoReq}

\* The values of the variables.
TypeOK ==
  /\ drv \in Drivers
  /\ q \in Queues
  /\ \A s \in Slots : CmdTypeOK(cmds[s])
  /\ srv \in Servers
  /\ unmapped \subseteq Reqs
  /\ stranded \subseteq Reqs \cup {NoReq}
  /\ answer \in [Reqs -> {"none", "ok", "eio"}]
  /\ flushed \in {"none", "ok", "einval"}
  /\ HostTypeOK

\* The queue is a sound ring between any two steps, whatever was thrown: its
\* flags and cursors agree, so create() never hands out a slot in use and
\* destruct() never overtakes work_done() (the checks of cmd.h).
RingSound == RingOK(q)

\* One command at a time is at the controller, and it is the working entry of
\* the queue (Cmd_queue::working(), which Sdhci::handle_irq() relies on to know
\* whose interrupt this is).
OnlyHeadInProgress ==
  \A s \in Slots : IsProgress(cmds[s]) => s = Working(q)

\* Between two events a non-empty queue has its head at the controller:
\* cmd_queue_kick() is called wherever the head may have changed, so that no
\* accepted request is left behind in the ring.  Excepted are requests stranded
\* by an exception that handle_irq() logs, whom nobody retires: of the submission
\* of the head (SubmitFailsIrq) and of the reset of a line after its error
\* (HandleIrqThrows).  Nothing is said of a head once an exception has left
\* inout_data() or flush().  While a callback runs its head is over, and not to be
\* submitted: a request issued from the callback does not send it again.
HeadIsSubmitted ==
  /\ srv.pc = "loop" /\ ~Idle /\ ~escaped =>
       IsProgress(cmds[Working(q)]) \/ cmds[Working(q)].cb \in stranded
  /\ srv.pc = "callback" =>
       ~KickNeeded(q, cmds) \/ cmds[Working(q)].cb \in stranded

\* No interrupt is lost: while a command is in progress and the server waits,
\* the interrupt is unmasked or its message is on the way (unmask_interrupt()
\* in handle_irq() and cmd_queue_kick()).
InterruptArmed ==
  srv.pc = "loop" /\ (\E s \in Slots : IsProgress(cmds[s]))
    => ~irq.masked \/ irq.msg

\* The command in progress can still end: the controller works on it, or the
\* interrupt status that ends it is there and enabled as a signal.  Submitting
\* a command clears the status of the one before (cmd_submit()).
CompletionPending ==
  \A s \in Slots : IsProgress(cmds[s]) =>
    \/ hw.cmd # "none" \/ hw.dat = "data"
    \/ IrqLine

\* A request is answered with success exactly if its transfer took place: the
\* end of another command or phase (the busy phase of CMD6 or CMD12, a late
\* interrupt, CMD12 after a failed transfer) is never taken for its own.
AnswersMatchTransfers ==
  [][\A r \in Reqs : answer'[r] # answer[r] /\ answer'[r] # "none" =>
       (answer'[r] = "ok") = (r \in moved)]_vars

\* The server thread always comes back to its loop: the polling loops of
\* cmd_wait_available(), which have no timeout, and the exchange of flush() end,
\* because the command before left the controller usable.
ServerReturns == srv.pc # "loop" ~> srv.pc = "loop"

\* An open-ended transfer of the card is followed by CMD12 and nothing else,
\* whether the transfer went well or not (handle_irq_inout()).
StopBeforeNext ==
  [][hw'.cmd # hw.cmd /\ hw'.cmd # "none" /\ card.xfer = "open" =>
       hw'.cmd \in StopTransmission]_vars

\* No exception leaves inout_data() or flush(): their handlers find the command
\* they retire at the head of the queue.
NoEscape == ~escaped

\* flush() reports success only for a cache the card was told to flush after
\* the last write.  (The card may have refused, or be at it still: the poll of
\* exec_mmc_switch() gives up after MaxPolls, and flush() does not look at the
\* switch error.)
FlushReachesCard ==
  [][flushed' # flushed /\ flushed' = "ok" => card.cache # "dirty"]_vars

\* The requests in the slots from a up to b, oldest first.
RequestsBetween(a, b) ==
  [i \in 1 .. Distance(a, b) |-> cmds[WrapAround(a + i - 1)].cb]

\* inout_data() promises requests accepted, answered once and in order: what is
\* in the ring, but for the request inout_data() has yet to submit and the one
\* whose callback runs.  The command of flush() is no request.
Accepted ==
  IF srv.pc \in {"flSubmit", "flReceive"} THEN <<>>
  ELSE RequestsBetween(
         IF srv.pc = "callback" THEN WrapAround(q.working + 1) ELSE q.working,
         IF srv.pc = "submit" /\ srv.ctx = "inout_data" THEN srv.slot ELSE q.create)

Promise == INSTANCE BlockDevice WITH
  Capacity <- Entries - 1, pending <- Accepted, answer <- answer

\* libblock-device's view: every accepted request is answered, exactly once, in
\* the order of acceptance (Block_device::Device::inout_data()).  An answer is not
\* promised to requests at and behind a stranded one, which is never retired: that
\* they are answered is said of runs where handle_irq() strands none for good.
ImplementsBlockDevice ==
  /\ Promise!SafeSpec
  /\ <>[](stranded = {}) => Promise!Answers
=============================================================================
