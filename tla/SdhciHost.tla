------------------------------ MODULE SdhciHost ------------------------------
(***************************************************************************)
(* The SDHCI controller with the card behind it, the interrupt that reaches*)
(* the server, and the driver code that reads and writes them: class Sdhci *)
(* (drv_sdhci-impl.h) on top of class Drv (drv.h).                         *)
(*                                                                         *)
(* The driver only ever observes the controller through its interrupt      *)
(* status register, the two inhibit bits of the present state register and *)
(* the response register.  A data transfer is one phase: ADMA2 walks the   *)
(* descriptor list without interrupts of its own: no descriptor of the     *)
(* driver asks for one (adma2_set_descs_mem_region() leaves the Int bit    *)
(* clear), so the DMA interrupt without transfer complete, for which       *)
(* handle_irq_data() throws in ADMA2 mode, is taken not to happen.         *)
(*                                                                         *)
(* What the controller and the card do by themselves are the actions of    *)
(* this module; what the driver does are operators, used by the handlers   *)
(* of EmmcDevice.                                                          *)
(***************************************************************************)
EXTENDS InoutCmd

CONSTANT HasCache       \* _has_cache: the card has a cache, switched on

VARIABLES
  hw,           \* controller registers and the command it executes
  card,         \* transfer state and write cache of the card
  irq,          \* the interrupt: masked in the kernel, message to the server
  moved         \* requests whose data was moved completely (history)

hostVars == <<hw, card, irq, moved>>

\* Interrupt status bits by what the handlers tell apart: command complete,
\* transfer complete, command timeout, cmd_error(), Auto CMD error, data_error().
StatusBits == {"cc", "tc", "ctoe", "cerr", "ac12e", "derr"}

HostInit ==
  /\ hw = [cihb |-> FALSE,      \* command inhibit
           cmd |-> "none",      \* command being sent, "none" after its end
           hasData |-> FALSE, write |-> FALSE, auto23 |-> FALSE,
           req |-> NoReq,       \* whose command this is
           dat |-> "idle",      \* what keeps cdihb set, "idle" for nothing
           datReq |-> NoReq,    \* whose data is on the DAT lines
           is |-> {},           \* interrupt status
           signal |-> {},       \* interrupt signal enable
           resets |-> {},       \* line resets the driver gave up waiting for
           resp |-> "ready"]    \* R1 response: READY_FOR_DATA, SWITCH_ERROR
  /\ card = [xfer |-> "tran", cache |-> "clean"]
  /\ irq = [masked |-> TRUE, msg |-> FALSE]
  /\ moved = {}

-----------------------------------------------------------------------------
(* The driver's side.                                                      *)

\* Sdhci::cmd_wait_available(): what the polling loop waits for.
Available(h, c) ==
  LET needData == /\ c.hasData \/ c.cmd \in RspCheckBusy
                  /\ c.cmd \notin StopTransmission
  IN  ~h.cihb /\ (needData => h.dat = "idle")

\* Reg_int_signal_en::enable_ints(): no interrupt for the end of the command
\* phase when a data phase follows (Suppress_cc_ints).  The status enable bits
\* (Reg_int_status_en) are the same, with cc always on.
SignalEnable_NoData(c) == {"ctoe", "cerr"} \cup (IF c.hasData THEN {} ELSE {"cc"})
SignalEnable(c) == {"tc", "ctoe", "cerr", "derr"}
                     \cup (IF c.hasData THEN {} ELSE {"cc"})
                     \cup (IF c.auto23 THEN {"ac12e"} ELSE {})

\* Sdhci::cmd_submit() past its checks: all interrupt status is cleared, the
\* interrupts of the command are enabled and the command is sent.
Submitted_KeepStatus(h, c) ==
  [h EXCEPT !.cihb = TRUE, !.cmd = c.cmd, !.hasData = c.hasData,
            !.write = c.cmd \in WriteCommands, !.auto23 = c.auto23, !.req = c.cb,
            !.signal = SignalEnable(c)]
Submitted(h, c) ==
  [h EXCEPT !.cihb = TRUE, !.cmd = c.cmd, !.hasData = c.hasData,
            !.write = c.cmd \in WriteCommands, !.auto23 = c.auto23, !.req = c.cb,
            !.is = {}, !.signal = SignalEnable(c)]

\* What Reg_sys_ctrl::rstc and ::rstd have reset when they read zero again: the
\* CMD line and the DAT line.
Lines == {"cmd", "dat"}
LineReset(h, line) ==
  IF line = "cmd" THEN [h EXCEPT !.cihb = FALSE, !.is = @ \ {"cc"}]
                  ELSE [h EXCEPT !.dat = "idle", !.is = @ \ {"tc"}]

\* The driver starts a reset and polls for its end.  When the controller is not
\* there in time, Util::poll() throws and the reset goes on.
ResetLine(h, line, inTime) ==
  IF inTime THEN LineReset(h, line) ELSE [h EXCEPT !.resets = @ \cup {line}]

\* Sdhci::handle_irq_cmd() and ::handle_irq_data(), with the interrupt status
\* `is' read before and the reset of an error path `inTime' or not; both return
\* the Cmd and the controller after them.  The error of an automatic CMD23 is
\* not acknowledged.
HandleIrqCmd_NoReset(c, h, is, inTime) ==
  LET failed(s, ack) == [cmd |-> [c EXCEPT !.status = s],
                         hw |-> [h EXCEPT !.is = @ \ ack]]
  IN  IF "ctoe" \in is THEN failed("Cmd_timeout", {"ctoe", "cc"})
      ELSE IF "cerr" \in is THEN failed("Cmd_error", {"cerr"})
      ELSE IF "ac12e" \in is THEN failed("Cmd_error", {})
      ELSE IF "cc" \in is
        THEN [cmd |-> [c EXCEPT !.status = IF c.hasData THEN "Progress_data"
                                                        ELSE "Success"],
              hw |-> [h EXCEPT !.is = @ \ {"cc"}]]
      ELSE [cmd |-> c, hw |-> h]
HandleIrqCmd(c, h, is, inTime) ==
  LET failed(s, ack) ==
        [cmd |-> [c EXCEPT !.status = s],
         hw |-> ResetLine([h EXCEPT !.is = @ \ ack], "cmd", inTime)]
  IN  IF "ctoe" \in is THEN failed("Cmd_timeout", {"ctoe", "cc"})
      ELSE IF "cerr" \in is THEN failed("Cmd_error", {"cerr"})
      ELSE IF "ac12e" \in is THEN failed("Cmd_error", {})
      ELSE IF "cc" \in is
        THEN [cmd |-> [c EXCEPT !.status = IF c.hasData THEN "Progress_data"
                                                        ELSE "Success"],
              hw |-> [h EXCEPT !.is = @ \ {"cc"}]]
      ELSE [cmd |-> c, hw |-> h]

HandleIrqData(c, h, is, inTime) ==
  IF "derr" \in is
    THEN [cmd |-> [c EXCEPT !.status = "Data_error"],
          hw |-> ResetLine([h EXCEPT !.is = @ \ {"derr"}], "dat", inTime)]
  ELSE IF "tc" \in is
    THEN [cmd |-> [c EXCEPT !.status = "Success"],
          hw |-> [h EXCEPT !.is = @ \ {"tc"}]]
  ELSE [cmd |-> c, hw |-> h]

\* Sdhci::handle_irq() on the working command: one interrupt may end both the
\* command and the data phase.  With an error and ~inTime it throws.
HandleIrq(c, h, inTime) ==
  LET r == IF c.status = "Progress_cmd" THEN HandleIrqCmd(c, h, h.is, inTime)
                                        ELSE [cmd |-> c, hw |-> h]
  IN  IF r.cmd.status = "Progress_data"
        THEN HandleIrqData(r.cmd, r.hw, h.is, inTime) ELSE r

-----------------------------------------------------------------------------
(* The controller's and the card's side.                                   *)

\* The state of the card after it accepted the current command.  A data
\* command moves the count announced before it, or goes on until CMD12.
CardAccepts(newCache) ==
  [card EXCEPT
     !.xfer = IF hw.cmd = "CMD23" THEN "counted"
              ELSE IF hw.cmd \in StopTransmission THEN "tran"
              ELSE IF ~hw.hasData THEN @
              ELSE IF hw.auto23 \/ @ = "counted" \/ hw.cmd \notin MultipleBlock
                THEN "bounded"
              ELSE "open",
     !.cache = newCache]

\* The controller is done with the command itself.
CommandOver(h) == [h EXCEPT !.cmd = "none", !.req = NoReq, !.hasData = FALSE,
                            !.auto23 = FALSE]

\* The command phase ends: response received.  CMD6 starts flushing the cache
\* or is refused with SWITCH_ERROR; the response of CMD13 tells of both.
CommandResponds ==
  /\ hw.cmd # "none"
  /\ \E newCache \in IF hw.cmd = "CMD6" THEN {"flushing", "refused"}
                                        ELSE {card.cache} :
       card' = CardAccepts(newCache)
  /\ hw' = [CommandOver(hw) EXCEPT
       !.cihb = FALSE, !.is = @ \cup {"cc"},
       !.dat = IF hw.hasData THEN "data"
               ELSE IF hw.cmd \in RspCheckBusy THEN "busy" ELSE @,
       !.datReq = IF hw.hasData THEN hw.req ELSE @,
       !.resp = IF hw.cmd # "CMD13" THEN @
                ELSE IF card.cache = "refused" THEN "switch_error"
                ELSE IF hw.dat = "busy" THEN "busy" ELSE "ready"]
  /\ UNCHANGED <<irq, moved>>

\* The command phase fails: no response, or a damaged one, in which case the
\* card may well have accepted the command.  cihb stays set until the reset.
CommandFails ==
  /\ hw.cmd # "none"
  /\ \E e \in {"ctoe", "cerr"} :
       hw' = [CommandOver(hw) EXCEPT !.is = @ \cup {e}]
  /\ \/ card' = [card EXCEPT !.xfer = IF hw.cmd \in StopTransmission
                                        THEN "aborted" ELSE "tran"]
     \/ card' = CardAccepts(card.cache)
  /\ UNCHANGED <<irq, moved>>

\* The automatic CMD23 fails: the data command itself is not sent.
AutoCommandFails ==
  /\ hw.cmd # "none" /\ hw.auto23
  /\ hw' = [CommandOver(hw) EXCEPT !.is = @ \cup {"ac12e"}]
  /\ UNCHANGED <<card, irq, moved>>

\* The data phase ends well; a write leaves something in the card's cache.
DataCompletes ==
  /\ hw.dat = "data"
  /\ hw' = [hw EXCEPT !.dat = "idle", !.datReq = NoReq, !.write = FALSE,
                      !.is = @ \cup {"tc"}]
  /\ card' = [xfer |-> IF card.xfer = "bounded" THEN "tran" ELSE card.xfer,
              cache |-> IF hw.write /\ HasCache THEN "dirty" ELSE card.cache]
  /\ moved' = moved \cup {hw.datReq}
  /\ UNCHANGED irq

\* The data phase fails.  cdihb stays set until the reset; the card is still
\* in the middle of a counted transfer.
DataFails ==
  /\ hw.dat = "data"
  /\ hw' = [hw EXCEPT !.dat = "stuck", !.datReq = NoReq, !.write = FALSE,
                      !.is = @ \cup {"derr"}]
  /\ card' = [card EXCEPT !.xfer = IF @ = "bounded" THEN "aborted" ELSE @]
  /\ UNCHANGED <<irq, moved>>

\* The card releases DAT0 after an R1b command.  The controller reports this as
\* a transfer complete, whether or not the driver still waits for the command.
BusyEnds ==
  /\ hw.dat = "busy"
  /\ hw' = [hw EXCEPT !.dat = "idle", !.is = @ \cup {"tc"}]
  /\ card' = [card EXCEPT !.cache = IF @ = "flushing" THEN "clean" ELSE @]
  /\ UNCHANGED <<irq, moved>>

\* A reset of a line ends that the driver no longer waits for.
LineResetEnds ==
  /\ \E line \in hw.resets :
       hw' = [LineReset(hw, line) EXCEPT !.resets = @ \ {line}]
  /\ UNCHANGED <<card, irq, moved>>

\* The level-triggered line: delivered once, then masked until the driver
\* unmasks it.
IrqLine == hw.is \cap hw.signal # {}

DeliverIrq ==
  /\ IrqLine /\ ~irq.masked
  /\ irq' = [masked |-> TRUE, msg |-> TRUE]
  /\ UNCHANGED <<hw, card, moved>>

CommandPhaseEnds == CommandResponds \/ CommandFails \/ AutoCommandFails
DataPhaseEnds == DataCompletes \/ DataFails

HostNext == \/ CommandPhaseEnds \/ DataPhaseEnds \/ BusyEnds
            \/ LineResetEnds \/ DeliverIrq

HostTypeOK ==
  /\ hw.cmd \in MmcCommands /\ hw.is \subseteq StatusBits
  /\ hw.signal \subseteq StatusBits /\ hw.resets \subseteq Lines
  /\ hw.dat \in {"idle", "data", "busy", "stuck"}
  /\ hw.resp \in {"ready", "busy", "switch_error"}
  /\ card \in [xfer : {"tran", "counted", "bounded", "open", "aborted"},
               cache : {"clean", "dirty", "flushing", "refused"}]
  /\ irq \in [masked : BOOLEAN, msg : BOOLEAN]
=============================================================================
