---------------------------- MODULE SdhiHostProofs ----------------------------
(***************************************************************************)
(* Proofs about SdhiHost: whatever earlier commands have left behind in    *)
(* SD_INFO, a command goes on by its own response.  The invariant says     *)
(* what the two flags of the response stand for: handle_irq_cmd() clears   *)
(* them with the end of the command phase, so they are clear when the next *)
(* command is sent, and only its own response sets them again.             *)
(***************************************************************************)
EXTENDS SdhiHost, TLAPS

USE DEF Registers

ResponseFlags == {"info0", "err6"}

\* Without a response, or with it handled, there is no flag.
FlagsAreOfResponse ==
  /\ cmd.status # "Progress_cmd" => bus.phase # "command"
  /\ cmd.status # "Progress_cmd" \/ bus.phase = "command"
       => ResponseFlags \cap reg.info = {}
  /\ "err6" \in reg.info => bus.response = "timeout"
  /\ "info0" \in reg.info => /\ bus.response \in {"ok", "error"}
                             /\ bus.response = "error" => "err0" \in reg.info

\* The server polls for CBSY at the end of a data phase only.
PollsAfterData == server.pc = "poll" => cmd.status = "Progress_data"

SdhiInv == TypeOK /\ FlagsAreOfResponse /\ PollsAfterData /\ InterruptArmed

-----------------------------------------------------------------------------
\* handle_irq_cmd() clears the flags of the response whenever it ends the command
\* phase, and takes the response for what it was.
LEMMA CommandHandled ==
  ASSUME SdhiInv, cmd.status = "Progress_cmd"
  PROVE  LET r == HandleIrqCmd(cmd, reg) IN
         /\ r.status = "Progress_cmd" =>
              ResponseFlags \cap reg.info = {} /\ r.reg = reg
         /\ r.status # "Progress_cmd" =>
              /\ bus.phase # "command"
              /\ r.reg.info = reg.info \ ResponseFlags
         /\ r.status \in {"Progress_cmd", "Progress_data", "Success", "Cmd_timeout",
                          "Cmd_error"}
         /\ r.status \in {"Success", "Progress_data"} => bus.response = "ok"
         /\ r.status = "Cmd_timeout" => bus.response = "timeout"
         /\ r.reg.dma # reg.dma => r.reg.dma = "on" /\ bus.response = "ok"
         /\ r.reg \in Registers
<1>1. CASE ResponseFlags \cap reg.info = {}
  BY <1>1 DEF SdhiInv, TypeOK, HandleIrqCmd, ResponseFlags
<1>2. CASE "err6" \in reg.info
  BY <1>2 DEF SdhiInv, TypeOK, FlagsAreOfResponse, HandleIrqCmd, ResponseFlags
<1>3. CASE "info0" \in reg.info /\ "err6" \notin reg.info
  BY <1>3 DEF SdhiInv, TypeOK, FlagsAreOfResponse, HandleIrqCmd, ResponseFlags, Errors
<1>4. QED
  BY <1>1, <1>2, <1>3 DEF ResponseFlags

LEMMA InitOK == Init => SdhiInv
BY DEF Init, SdhiInv, TypeOK, FlagsAreOfResponse, ResponseFlags, PollsAfterData,
       InterruptArmed, Progress, Kinds, Flags

LEMMA SubmitOK == SdhiInv /\ Submit => SdhiInv'
<1> SUFFICES ASSUME SdhiInv, Submit PROVE SdhiInv'
  OBVIOUS
<1>1. reg'.info = reg.info /\ ResponseFlags \cap reg.info = {}
  BY DEF SdhiInv, TypeOK, FlagsAreOfResponse, Submit, Prepared, Progress
<1>2. TypeOK'
  <2>1. reg' \in Registers
    BY DEF SdhiInv, TypeOK, Submit, Prepared, EnableInts, Flags, HasData, Kinds
  <2>2. /\ cmd' \in [status : {"Progress_cmd"}, kind : Kinds, mode : {"exec", "kick"}]
        /\ server' = [pc |-> "wait", info |-> {}]
        /\ irq' \in [masked : BOOLEAN, msg : BOOLEAN]
        /\ bus' = [phase |-> "command", response |-> "none", moved |-> FALSE]
    <3>1. PICK kind \in Kinds, mode \in {"exec", "kick"} :
            cmd' = [status |-> "Progress_cmd", kind |-> kind, mode |-> mode]
      BY DEF Submit
    <3>2. irq' \in [masked : BOOLEAN, msg : BOOLEAN]
      BY DEF SdhiInv, TypeOK, Submit
    <3>3. QED
      BY <3>1, <3>2 DEF Submit
  <2>3. QED
    BY <2>1, <2>2 DEF TypeOK, Progress
<1>3. FlagsAreOfResponse'
  BY <1>1 DEF Submit, FlagsAreOfResponse, ResponseFlags
<1>4. PollsAfterData' /\ InterruptArmed'
  BY DEF SdhiInv, TypeOK, Submit, PollsAfterData, InterruptArmed
<1>5. QED
  BY <1>2, <1>3, <1>4 DEF SdhiInv

LEMMA HandleIrqOK == SdhiInv /\ HandleIrq => SdhiInv'
<1> SUFFICES ASSUME SdhiInv, HandleIrq PROVE SdhiInv'
  OBVIOUS
<1> DEFINE isCmd == cmd.status = "Progress_cmd"
           r == IF isCmd THEN HandleIrqCmd(cmd, reg)
                ELSE [status |-> cmd.status, reg |-> reg]
           data == r.status = "Progress_data" /\ (cmd.mode = "kick" \/ ~isCmd)
           over == r.status \notin {"Progress_cmd", "Progress_data"}
<1>1. /\ cmd' = [cmd EXCEPT !.status = r.status]
      /\ reg' = IF data THEN Finishing(r.reg) ELSE r.reg
      /\ irq' = IF data \/ over THEN [irq EXCEPT !.msg = FALSE] ELSE Unmasked(irq)
      /\ server' = [pc |-> IF data THEN "poll" ELSE IF over THEN "idle" ELSE "wait",
                    info |-> reg.info]
      /\ bus' = bus
      /\ server.pc = "wait"
  BY DEF HandleIrq
<1>2. /\ r.status \in {"Progress_cmd", "Progress_data", "Success", "Cmd_timeout",
                       "Cmd_error", "Data_error"}
      /\ r.reg \in Registers
      /\ r.status # "Progress_cmd" =>
           bus.phase # "command" /\ ResponseFlags \cap r.reg.info = {}
      /\ r.status = "Progress_cmd" => r.reg.info = reg.info
      /\ r.reg.info \subseteq reg.info
      /\ r.reg.info = reg.info \/ ResponseFlags \cap r.reg.info = {}
  <2>1. CASE isCmd
    BY <2>1, CommandHandled
  <2>2. CASE ~isCmd
    BY <2>2 DEF SdhiInv, TypeOK, FlagsAreOfResponse
  <2>3. QED
    BY <2>1, <2>2
<1> HIDE DEF r
<1>3. reg' \in Registers /\ reg'.info = r.reg.info
  BY <1>1, <1>2 DEF Finishing
<1>4. cmd'.status = r.status
  BY <1>1 DEF SdhiInv, TypeOK
<1>5. TypeOK'
  <2>1. cmd' \in [status : {"Progress_cmd", "Progress_data", "Success", "Cmd_timeout",
                            "Cmd_error", "Data_error"},
                  kind : Kinds, mode : {"exec", "kick"}]
    BY <1>1, <1>2 DEF SdhiInv, TypeOK
  <2>2. irq' \in [masked : BOOLEAN, msg : BOOLEAN]
    BY <1>1 DEF SdhiInv, TypeOK, Unmasked
  <2>3. /\ server' \in [pc : {"idle", "wait", "poll", "stuck", "thrown"},
                       info : SUBSET Flags]
        /\ (server.pc = "idle" <=> ~Progress)'
    BY <1>1, <1>2, <1>4 DEF SdhiInv, TypeOK, Progress
  <2>4. QED
    BY <1>1, <1>3, <2>1, <2>2, <2>3 DEF SdhiInv, TypeOK
<1>6. FlagsAreOfResponse'
  BY <1>1, <1>2, <1>3, <1>4 DEF SdhiInv, FlagsAreOfResponse, ResponseFlags
<1>7. PollsAfterData' /\ InterruptArmed'
  BY <1>1, <1>4 DEF PollsAfterData, InterruptArmed, Unmasked
<1>8. QED
  BY <1>5, <1>6, <1>7 DEF SdhiInv

\* The other steps of the driver leave the command or end its data phase.
LEMMA DriverOK == SdhiInv /\ (FinishData \/ PollTimeout \/ ReceiveTimeout) => SdhiInv'
<1> SUFFICES ASSUME SdhiInv, FinishData \/ PollTimeout \/ ReceiveTimeout PROVE SdhiInv'
  OBVIOUS
<1> USE DEF SdhiInv, TypeOK, FlagsAreOfResponse, PollsAfterData, InterruptArmed, Progress
<1>1. CASE FinishData
  BY <1>1, ZenonT(30) DEF FinishData, DataDone
<1>2. CASE PollTimeout
  BY <1>2 DEF PollTimeout
<1>3. CASE ReceiveTimeout
  BY <1>3 DEF ReceiveTimeout
<1>4. QED
  BY <1>1, <1>2, <1>3

LEMMA RespondOK == SdhiInv /\ Respond => SdhiInv'
<1> SUFFICES ASSUME SdhiInv, Respond PROVE SdhiInv'
  OBVIOUS
<1>1. PICK r \in {"ok", "error", "timeout"} :
        /\ bus' = [bus EXCEPT !.response = r,
                     !.phase = IF r # "ok" \/ cmd.kind = "none" THEN "idle"
                               ELSE IF cmd.kind = "busy" THEN "busy" ELSE "data"]
        /\ reg' = [reg EXCEPT !.info = @ \cup
                     (CASE r = "ok" -> {"info0"}
                        [] r = "error" -> {"info0", "err0"}
                        [] r = "timeout" -> {"err6"})]
  BY DEF Respond
<1>2. /\ bus.phase = "command" /\ UNCHANGED <<cmd, irq, server>>
      /\ cmd.status = "Progress_cmd" /\ ResponseFlags \cap reg.info = {}
  BY DEF Respond, SdhiInv, FlagsAreOfResponse
<1>3. TypeOK'
  <2>1. bus' \in [phase : {"idle", "command", "busy", "data"},
                  response : {"none", "ok", "error", "timeout"}, moved : BOOLEAN]
    BY <1>1 DEF SdhiInv, TypeOK
  <2>2. (CASE r = "ok" -> {"info0"} [] r = "error" -> {"info0", "err0"}
           [] r = "timeout" -> {"err6"}) \subseteq Flags
    BY DEF Flags
  <2>3. reg' \in Registers
    BY <1>1, <2>2 DEF SdhiInv, TypeOK
  <2>4. QED
    BY <1>2, <2>1, <2>3 DEF SdhiInv, TypeOK, Progress
<1>4. FlagsAreOfResponse'
  BY <1>1, <1>2 DEF SdhiInv, TypeOK, FlagsAreOfResponse, ResponseFlags
<1>5. PollsAfterData' /\ InterruptArmed'
  BY <1>2 DEF SdhiInv, PollsAfterData, InterruptArmed
<1>6. QED
  BY <1>3, <1>4, <1>5 DEF SdhiInv

\* No other step of the controller touches the flags of the response.
LEMMA DataPhaseOK == SdhiInv /\ (BusyEnds \/ DmaEnds \/ DataEnds) => SdhiInv'
<1> SUFFICES ASSUME SdhiInv, BusyEnds \/ DmaEnds \/ DataEnds PROVE SdhiInv'
  OBVIOUS
<1> DEFINE Adds(flags) == reg'.info = reg.info \cup flags
<1>1. /\ UNCHANGED <<cmd, irq, server>>
      /\ bus.phase # "command" /\ bus'.phase # "command"
      /\ bus'.response = bus.response
      /\ \E flags \in SUBSET {"info2", "err1", "err3"} : Adds(flags)
      /\ TypeOK'
  <2> USE DEF SdhiInv, TypeOK, Progress
  <2>1. CASE BusyEnds
    <3>1. Adds({"info2"})
      BY <2>1 DEF BusyEnds
    <3>2. QED
      BY <2>1, <3>1 DEF BusyEnds, Flags
  <2>2. CASE DmaEnds
    <3>1. Adds({})
      BY <2>2 DEF DmaEnds
    <3>2. {} \in SUBSET {"info2", "err1", "err3"}
      OBVIOUS
    <3>3. reg' \in Registers
      <4>1. {cmd.kind} \subseteq Kinds
        OBVIOUS
      <4>2. CASE reg' = [reg EXCEPT !.dma = "done", !.dmaEnd = @ \cup {cmd.kind}]
        BY <4>1, <4>2
      <4>3. CASE reg' = [reg EXCEPT !.dma = "error", !.dmaErr = @ \cup {cmd.kind}]
        BY <4>1, <4>3
      <4>4. QED
        BY <2>2, <4>2, <4>3 DEF DmaEnds
    <3>4. UNCHANGED <<cmd, bus, irq, server>> /\ bus.phase = "data"
      BY <2>2 DEF DmaEnds
    <3>5. QED
      BY <3>1, <3>2, <3>3, <3>4, ZenonT(30)
  <2>3. CASE DataEnds
    <3>1. CASE reg' = [reg EXCEPT !.dma = "off", !.info = @ \cup {"info2"}]
      <4>1. Adds({"info2"})
        BY <3>1
      <4>2. QED
        BY <2>3, <3>1, <4>1, ZenonT(30) DEF DataEnds, Flags
    <3>2. ASSUME NEW e \in {"err1", "err3"}, NEW end \in {{}, {"info2"}},
                 NEW dma \in {"off", reg.dma},
                 reg' = [reg EXCEPT !.dma = dma, !.info = @ \cup {e} \cup end]
          PROVE  /\ \E flags \in SUBSET {"info2", "err1", "err3"} : Adds(flags)
                 /\ TypeOK'
      <4>1. Adds({e} \cup end) /\ {e} \cup end \in SUBSET {"info2", "err1", "err3"}
        BY <3>2
      <4>2. reg' \in Registers
        BY <3>2 DEF Flags
      <4>3. QED
        BY <2>3, <4>1, <4>2, ZenonT(30) DEF DataEnds
    <3>3. QED
      BY <2>3, <3>1, <3>2, SMTT(30) DEF DataEnds
  <2>4. QED
    BY <2>1, <2>2, <2>3
<1>2. /\ ResponseFlags \cap reg'.info = ResponseFlags \cap reg.info
      /\ \A f \in ResponseFlags : f \in reg'.info => f \in reg.info
      /\ reg.info \subseteq reg'.info
  BY <1>1 DEF ResponseFlags
<1>3. FlagsAreOfResponse'
  BY <1>1, <1>2 DEF SdhiInv, FlagsAreOfResponse, ResponseFlags
<1>4. PollsAfterData' /\ InterruptArmed'
  BY <1>1 DEF SdhiInv, PollsAfterData, InterruptArmed
<1>5. QED
  BY <1>1, <1>3, <1>4 DEF SdhiInv

LEMMA NextOK == SdhiInv /\ [Next]_vars => SdhiInv'
<1> SUFFICES ASSUME SdhiInv, [Next]_vars PROVE SdhiInv'
  OBVIOUS
<1>1. CASE Driver
  BY <1>1, SubmitOK, HandleIrqOK, DriverOK DEF Driver
<1>2. CASE Respond \/ BusyEnds \/ DmaEnds \/ DataEnds
  BY <1>2, RespondOK, DataPhaseOK
<1>3. CASE DeliverIrq
  BY <1>3 DEF DeliverIrq, SdhiInv, TypeOK, FlagsAreOfResponse, PollsAfterData,
              InterruptArmed, Progress
<1>4. CASE UNCHANGED vars
  BY <1>4 DEF vars, SdhiInv, TypeOK, FlagsAreOfResponse, PollsAfterData,
              InterruptArmed, Progress
<1>5. QED
  BY <1>1, <1>2, <1>3, <1>4 DEF Next, Controller

THEOREM InvariantHolds == Spec => []SdhiInv
BY InitOK, NextOK, PTL DEF Spec

-----------------------------------------------------------------------------
\* The values of the variables; Progress of the command as long as the server is
\* at it (class Sdhi).
THEOREM TypeCorrect == Spec => []TypeOK
<1>1. SdhiInv => TypeOK
  BY DEF SdhiInv
<1>2. QED
  BY <1>1, InvariantHolds, PTL

\* No interrupt is lost between handle_irq() and unmask_interrupt().
THEOREM InterruptAlwaysArmed == Spec => []InterruptArmed
<1>1. SdhiInv => InterruptArmed
  BY DEF SdhiInv
<1>2. QED
  BY <1>1, InvariantHolds, PTL

\* handle_irq_cmd() ends a command phase by the response of its own command,
\* however many commands have failed before and whatever they left in SD_INFO.
THEOREM OwnResponseOnly == Spec => GoesOnByOwnResponse
<1> DEFINE Goes == cmd.status = "Progress_cmd" =>
                     /\ cmd'.status \in {"Success", "Progress_data"} => bus.response = "ok"
                     /\ cmd'.status = "Cmd_timeout" => bus.response = "timeout"
<1>1. SdhiInv /\ [Next]_vars => [Goes]_vars
  <2> SUFFICES ASSUME SdhiInv, Next, cmd.status = "Progress_cmd"
               PROVE  Goes
    OBVIOUS
  <2>1. CASE HandleIrq
    <3>1. cmd'.status = HandleIrqCmd(cmd, reg).status
      BY <2>1 DEF HandleIrq, SdhiInv, TypeOK
    <3>2. QED
      BY <3>1, CommandHandled
  <2>2. CASE ~HandleIrq
    BY <2>2 DEF Next, Driver, Controller, Submit, FinishData, PollTimeout,
        ReceiveTimeout, Respond, BusyEnds, DmaEnds, DataEnds, DeliverIrq,
        SdhiInv, TypeOK, PollsAfterData, Progress
  <2>3. QED
    BY <2>1, <2>2
<1>2. QED
  BY <1>1, InvariantHolds, PTL DEF Spec, GoesOnByOwnResponse

\* handle_irq_cmd() starts the DMA engine after a good response only.
THEOREM DmaOnlyAfterResponse == Spec => DmaAfterResponse
<1> DEFINE Starts == reg.dma # "on" /\ reg'.dma = "on" => bus.response = "ok"
<1>1. SdhiInv /\ [Next]_vars => [Starts]_vars
  <2> SUFFICES ASSUME SdhiInv, Next, reg.dma # "on", reg'.dma = "on"
               PROVE  bus.response = "ok"
    OBVIOUS
  <2>1. CASE HandleIrq
    <3>1. CASE cmd.status = "Progress_cmd"
      <4>1. reg'.dma = HandleIrqCmd(cmd, reg).reg.dma
        BY <2>1, <3>1, CommandHandled DEF HandleIrq, Finishing
      <4>2. QED
        BY <3>1, <4>1, CommandHandled
    <3>2. CASE cmd.status # "Progress_cmd"
      BY <2>1, <3>2 DEF HandleIrq, Finishing, SdhiInv, TypeOK
    <3>3. QED
      BY <3>1, <3>2
  <2>2. CASE ~HandleIrq
    BY <2>2 DEF Next, Driver, Controller, Submit, Prepared, FinishData, PollTimeout,
        ReceiveTimeout, Respond, BusyEnds, DmaEnds, DataEnds, DeliverIrq,
        SdhiInv, TypeOK
  <2>3. QED
    BY <2>1, <2>2
<1>2. QED
  BY <1>1, InvariantHolds, PTL DEF Spec, DmaAfterResponse
=============================================================================
