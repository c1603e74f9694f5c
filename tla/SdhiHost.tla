------------------------------- MODULE SdhiHost -------------------------------
(***************************************************************************)
(* The SDHI controller (drv_sdhi.h, drv_sdhi.cc) with one command after    *)
(* the other: class Sdhi tells the end of a command from three interrupt   *)
(* sources, SD_INFO, the end and the errors of its DMA engine, and waits   *)
(* for CBSY inside the handler.  A command is executed with cmd_exec() or  *)
(* goes on by interrupts (cmd_queue_kick() and Device::handle_irq()).      *)
(*                                                                         *)
(* Flags of SD_INFO: info0 (response end), info2 (access end), err6        *)
(* (response timeout), err0 (command error), err1 (CRC, END or buffer      *)
(* error of data), err3 (data timeout).  The driver clears them by writing *)
(* zeros, and nothing but that clears them.                                *)
(***************************************************************************)
EXTENDS FiniteSets

VARIABLES
  cmd,          \* the working command: status, kind, mode
  reg,          \* controller registers
  bus,          \* card and bus: phase; what became of the command (history)
  irq,          \* the interrupt: masked in the kernel, message to the server
  server        \* where the server is, with the SD_INFO its handler has read

vars == <<cmd, reg, bus, irq, server>>

\* Without data, without data but with the card busy after it (R1b), with data.
Kinds == {"none", "busy", "read", "write"}
HasData(c) == c.kind \in {"read", "write"}
Progress == cmd.status \in {"Progress_cmd", "Progress_data"}

Flags == {"info0", "info2", "err6", "err0", "err1", "err3"}

\* Reg_sd_info_mask::enable_ints(), of these flags, and Reg_sd_info::error().
EnableInts_NoTimeout(c) == {"info0", "info2"}
EnableInts(c) == {"info0", "info2", "err6"}
Errors == {"err0", "err1", "err3", "err6"}

\* The DMA engine is "on" by dm_start and then "done" or in "error"; DM_CM_INFO1 and
\* _INFO2 and the channels open in their masks; DMASDRW of CC_EXT_MODE.
Registers ==
  [info : SUBSET Flags, enabled : SUBSET Flags, dma : {"off", "on", "done", "error"},
   dmaEnd : SUBSET Kinds, dmaErr : SUBSET Kinds, dmaOpen : SUBSET Kinds,
   dmasdrw : BOOLEAN]

\* After Sdhi::init(): all interrupts masked.  What the bus does is CBSY.
Init ==
  /\ cmd = [status |-> "Success", kind |-> "none", mode |-> "exec"]
  /\ reg = [info |-> {}, enabled |-> {}, dma |-> "off", dmaEnd |-> {}, dmaErr |-> {},
            dmaOpen |-> {}, dmasdrw |-> FALSE]
  /\ bus = [phase |-> "idle", response |-> "none", moved |-> FALSE]
  /\ irq = [masked |-> TRUE, msg |-> FALSE]
  /\ server = [pc |-> "idle", info |-> {}]

Cbsy == bus.phase # "idle"
IrqLine ==
  \/ reg.info \cap reg.enabled # {}
  \/ (reg.dmaEnd \cup reg.dmaErr) \cap reg.dmaOpen # {}

-----------------------------------------------------------------------------
(* The driver.                                                             *)

\* Sdhi::cmd_submit() past its checks.  Flags of SD_INFO stay, those of the DMA are
\* cleared.  The registers of a transfer and SD_CMD are written when CBSY is clear
\* (Reg::write()); a poll that times out leaves the command as it was.
Prepared(r, c) ==
  IF HasData(c)
  THEN [r EXCEPT !.dmaEnd = {}, !.dmaOpen = @ \cup {c.kind}, !.dmasdrw = TRUE,
                 !.enabled = EnableInts(c)]
  ELSE [r EXCEPT !.enabled = EnableInts(c)]

Unmasked_Forgotten(i) == [i EXCEPT !.msg = FALSE]
Unmasked(i) == [masked |-> FALSE, msg |-> FALSE]

Submit ==
  /\ server.pc = "idle" /\ ~Cbsy
  /\ \E kind \in Kinds, mode \in {"exec", "kick"} :
       cmd' = [status |-> "Progress_cmd", kind |-> kind, mode |-> mode]
  /\ reg' = Prepared(reg, cmd')
  /\ bus' = [phase |-> "command", response |-> "none", moved |-> FALSE]
  /\ irq' = [irq EXCEPT !.masked = FALSE]
  /\ server' = [pc |-> "wait", info |-> {}]

\* Sdhi::handle_irq_cmd(): status and registers after it.
HandleIrqCmd_KeepFlags(c, r) ==
  IF {"info0", "err6"} \cap r.info = {} THEN [status |-> c.status, reg |-> r]
  ELSE [status |-> IF "err6" \in r.info THEN "Cmd_timeout"
                   ELSE IF Errors \cap r.info # {} THEN "Cmd_error"
                   ELSE IF HasData(c) THEN "Progress_data"
                   ELSE "Success",
        reg |-> IF HasData(c) THEN [r EXCEPT !.dma = "on"] ELSE r]
HandleIrqCmd_StartAlways(c, r) ==
  LET acked == [r EXCEPT !.info = @ \ {"info0", "err6"}] IN
  IF {"info0", "err6"} \cap r.info = {} THEN [status |-> c.status, reg |-> r]
  ELSE [status |-> IF "err6" \in r.info THEN "Cmd_timeout"
                   ELSE IF Errors \cap r.info # {} THEN "Cmd_error"
                   ELSE IF HasData(c) THEN "Progress_data" ELSE "Success",
        reg |-> IF HasData(c) THEN [acked EXCEPT !.dma = "on"] ELSE acked]
HandleIrqCmd(c, r) ==
  LET acked == [r EXCEPT !.info = @ \ {"info0", "err6"}]
      Ends(status) == [status |-> status, reg |-> acked]
  IN  IF {"info0", "err6"} \cap r.info = {} THEN [status |-> c.status, reg |-> r]
      ELSE IF "err6" \in r.info THEN Ends("Cmd_timeout")
      ELSE IF Errors \cap r.info # {} THEN Ends("Cmd_error")
      ELSE IF HasData(c)
           THEN [status |-> "Progress_data", reg |-> [acked EXCEPT !.dma = "on"]]
      ELSE Ends("Success")

\* Sdhi::handle_irq_data() up to the write of CC_EXT_MODE.  A read is done
\* whatever the interrupt was, and so is a write: its test is on a Reg_sd_info of
\* its own, which was not read from the controller.
Finishing(r) == [r EXCEPT !.enabled = @ \ {"info2"}, !.dmaEnd = {}]

\* The server takes the message.  Sdhi::handle_irq() goes on with the data in the
\* same interrupt, both handlers on the SD_INFO read first; the loops of cmd_exec()
\* read it again.  Device::handle_irq() and receive_irq() unmask the interrupt.
HandleIrq ==
  /\ server.pc = "wait" /\ irq.msg
  /\ LET isCmd == cmd.status = "Progress_cmd"
         r == IF isCmd THEN HandleIrqCmd(cmd, reg)
              ELSE [status |-> cmd.status, reg |-> reg]
         data == r.status = "Progress_data" /\ (cmd.mode = "kick" \/ ~isCmd)
         over == r.status \notin {"Progress_cmd", "Progress_data"}
     IN  /\ cmd' = [cmd EXCEPT !.status = r.status]
         /\ reg' = IF data THEN Finishing(r.reg) ELSE r.reg
         /\ irq' = IF data \/ over THEN [irq EXCEPT !.msg = FALSE] ELSE Unmasked(irq)
         /\ server' = [pc |-> IF data THEN "poll" ELSE IF over THEN "idle" ELSE "wait",
                       info |-> reg.info]
  /\ UNCHANGED bus

\* CBSY is clear: CC_EXT_MODE is written and the command has its status.
DataDone(info) == IF "err1" \in info THEN "Data_error" ELSE "Success"

FinishData ==
  /\ server.pc = "poll" /\ ~Cbsy
  /\ reg' = [reg EXCEPT !.dmasdrw = FALSE]
  /\ cmd' = [cmd EXCEPT !.status = DataDone(server.info)]
  /\ server' = [server EXCEPT !.pc = "idle"]
  /\ UNCHANGED <<bus, irq>>

\* It is not clear for 10 ms: Util::poll() throws.  Device::handle_irq() catches
\* that and leaves the interrupt masked; cmd_exec() passes it on.
PollTimeout ==
  /\ server.pc = "poll" /\ Cbsy
  /\ server' = [server EXCEPT !.pc = IF cmd.mode = "kick" THEN "stuck" ELSE "thrown"]
  /\ UNCHANGED <<cmd, reg, bus, irq>>

\* Device::receive_irq() throws when there is no interrupt for Timeout_irq_us.
ReceiveTimeout ==
  /\ server.pc = "wait" /\ cmd.mode = "exec" /\ ~irq.msg
  /\ server' = [server EXCEPT !.pc = "thrown"]
  /\ UNCHANGED <<cmd, reg, bus, irq>>

Driver == Submit \/ HandleIrq \/ FinishData \/ PollTimeout \/ ReceiveTimeout

-----------------------------------------------------------------------------
(* The controller and the card.                                            *)

\* The command is answered, damaged or not, or it is not.
Respond ==
  /\ bus.phase = "command"
  /\ \E r \in {"ok", "error", "timeout"} :
       /\ bus' = [bus EXCEPT !.response = r,
                    !.phase = IF r # "ok" \/ cmd.kind = "none" THEN "idle"
                              ELSE IF cmd.kind = "busy" THEN "busy" ELSE "data"]
       /\ reg' = [reg EXCEPT !.info = @ \cup
                    (CASE r = "ok" -> {"info0"}
                       [] r = "error" -> {"info0", "err0"}
                       [] r = "timeout" -> {"err6"})]
  /\ UNCHANGED <<cmd, irq, server>>

BusyEnds ==
  /\ bus.phase = "busy"
  /\ bus' = [bus EXCEPT !.phase = "idle"]
  /\ reg' = [reg EXCEPT !.info = @ \cup {"info2"}]
  /\ UNCHANGED <<cmd, irq, server>>

\* The DMA engine is through with its memory, or fails.
DmaEnds ==
  /\ bus.phase = "data" /\ reg.dma = "on"
  /\ \/ reg' = [reg EXCEPT !.dma = "done", !.dmaEnd = @ \cup {cmd.kind}]
     \/ reg' = [reg EXCEPT !.dma = "error", !.dmaErr = @ \cup {cmd.kind}]
  /\ UNCHANGED <<cmd, bus, irq, server>>

\* The data phase ends, well after the DMA or with an error at any time, which the
\* DMA engine may or may not wait on for ever.
DataEnds ==
  /\ bus.phase = "data"
  /\ \/ /\ reg.dma = "done"
        /\ bus' = [bus EXCEPT !.phase = "idle", !.moved = TRUE]
        /\ reg' = [reg EXCEPT !.dma = "off", !.info = @ \cup {"info2"}]
     \/ /\ bus' = [bus EXCEPT !.phase = "idle"]
        /\ \E e \in {"err1", "err3"}, end \in {{}, {"info2"}}, dma \in {"off", reg.dma} :
             reg' = [reg EXCEPT !.dma = dma, !.info = @ \cup {e} \cup end]
  /\ UNCHANGED <<cmd, irq, server>>

\* The level-triggered interrupt, masked when it is delivered.
DeliverIrq ==
  /\ IrqLine /\ ~irq.masked
  /\ irq' = [masked |-> TRUE, msg |-> TRUE]
  /\ UNCHANGED <<cmd, reg, bus, server>>

Controller == Respond \/ BusyEnds \/ DmaEnds \/ DataEnds \/ DeliverIrq

Next == Driver \/ Controller

Spec == Init /\ [][Next]_vars

\* The controller answers, its interrupt arrives, the server handles it.
FairSpec == Spec /\ WF_vars(Respond) /\ WF_vars(DeliverIrq) /\ WF_vars(HandleIrq)

-----------------------------------------------------------------------------
\* The values of the variables; a command is in progress as long as the server has
\* not come to its end.
TypeOK ==
  /\ cmd \in [status : {"Progress_cmd", "Progress_data", "Success", "Cmd_timeout",
                        "Cmd_error", "Data_error"},
              kind : Kinds, mode : {"exec", "kick"}]
  /\ reg \in Registers
  /\ bus \in [phase : {"idle", "command", "busy", "data"},
              response : {"none", "ok", "error", "timeout"}, moved : BOOLEAN]
  /\ irq \in [masked : BOOLEAN, msg : BOOLEAN]
  /\ server \in [pc : {"idle", "wait", "poll", "stuck", "thrown"}, info : SUBSET Flags]
  /\ server.pc = "idle" <=> ~Progress

\* A command goes on or has timed out by its own response, never by a flag that
\* one of the commands before it has left in SD_INFO (handle_irq_cmd()).
GoesOnByOwnResponse ==
  [][cmd.status = "Progress_cmd" =>
       /\ cmd'.status \in {"Success", "Progress_data"} => bus.response = "ok"
       /\ cmd'.status = "Cmd_timeout" => bus.response = "timeout"]_vars

\* The DMA engine is started for commands whose response was good.
DmaAfterResponse ==
  [][reg.dma # "on" /\ reg'.dma = "on" => bus.response = "ok"]_vars

\* While the server waits the interrupt is unmasked or its message is on the way,
\* however many interrupts one command has.
InterruptArmed == server.pc = "wait" => ~irq.masked \/ irq.msg

\* The command phase of each command ends, also of one the card does not answer.
CommandPhaseEnds ==
  cmd.status = "Progress_cmd" ~> (cmd.status # "Progress_cmd" \/ server.pc = "thrown")

\* "Command finished successfully" (Cmd::Success): its data has been moved.
SuccessMeansMoved ==
  cmd.status = "Success" /\ HasData(cmd) => bus.moved
=============================================================================
