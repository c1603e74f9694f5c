------------------------------ MODULE InoutCmd ------------------------------
(***************************************************************************)
(* Emmc::Cmd (cmd.h) and what Device does with the Cmd of a read or write  *)
(* request (device-impl.h): which MMC commands a request becomes, and what *)
(* the end of each of them leads to.                                       *)
(*                                                                         *)
(* A command is a record of the Cmd members these decisions read.  Names   *)
(* of MMC commands stand for their encodings in mmc.h; CMD12 keeps its two *)
(* encodings (R1 after a read, R1b after a write).  A block is its number  *)
(* of sectors, and the medium address of a command is its sector.  The     *)
(* traits k of a device are what the code asks the driver and the card:    *)
(* dma_adma2(), auto_cmd23() and _has_cmd23.                               *)
(***************************************************************************)
EXTENDS BlockLists, SequencesExt

CONSTANTS
  CountMod,     \* 2^16: Arg_cmd23_set_block_count::blocks has 16 bits
  NoReq         \* cb_io = nullptr

ASSUME CountModAssumption == CountMod \in Nat \ {0}

Traits == [adma2 : BOOLEAN, autoCmd23 : BOOLEAN, hasCmd23 : BOOLEAN]

\* No driver has the controller send CMD12: Sdhci and Sdhi::auto_cmd12().
AutoCmd12 == FALSE

MmcCommands == {"none", "CMD6", "CMD12rd", "CMD12wr", "CMD13", "CMD17",
                "CMD18", "CMD23", "CMD24", "CMD25"}
StopTransmission == {"CMD12rd", "CMD12wr"}
MultipleBlock == {"CMD18", "CMD25"}
WriteCommands == {"CMD24", "CMD25"}

\* Commands with Rsp_check_busy (R1b): the card may hold DAT0 afterwards.
RspCheckBusy == {"CMD6", "CMD12wr"}

ErrorStatus == {"Uninitialized", "Ready_for_submit", "Error", "Cmd_timeout",
                "Cmd_error", "Data_error"}
ProgressStatus == {"Progress_cmd", "Progress_data"}
Status == {"Success"} \cup ProgressStatus \cup ErrorStatus

\* Cmd::error() is `status < 0', which includes a command not yet submitted.
IsError(c) == c.status \in ErrorStatus
IsProgress(c) == c.status \in ProgressStatus

\* A command nobody owns: Cmd::destruct() invalidates it.  The members that
\* are always written again before they are read have one value here.
InvalidCmd == [status |-> "Error", status12 |-> "Error", cmd |-> "none",
               arg |-> 0, nblk |-> 0, hasData |-> FALSE, auto23 |-> FALSE,
               cmd12 |-> FALSE, inout |-> FALSE, read |-> FALSE,
               sector |-> 0, done |-> 0, blocks |-> <<>>, cb |-> NoReq]

\* The slot as Cmd_queue::create() hands it out.
CreatedCmd == [InvalidCmd EXCEPT !.status = "Uninitialized"]

\* Cmd::init_arg(): a command of its own, outside of any request.
InitArg(c, command, arg) ==
  [c EXCEPT !.cmd = command, !.arg = arg, !.status = "Ready_for_submit",
            !.hasData = FALSE, !.auto23 = FALSE, !.cmd12 = FALSE,
            !.inout = FALSE, !.read = FALSE]

\* Cmd::init_inout(): the status stays Uninitialized, there is no command yet.
InitInout(c, sector, blocks, req, read) ==
  [c EXCEPT !.cmd = "none", !.hasData = FALSE, !.auto23 = FALSE,
            !.cmd12 = FALSE, !.inout = TRUE, !.read = read,
            !.sector = sector, !.done = 0, !.blocks = blocks, !.cb = req]

\* Cmd::reinit_inout_nodata() and Cmd::reinit_inout_data().
ReinitInoutNodata(c, command, arg) ==
  [c EXCEPT !.cmd = command, !.arg = arg, !.hasData = FALSE,
            !.status = "Ready_for_submit"]

ReinitInoutData(c, command, nblk, auto23) ==
  [c EXCEPT !.cmd = command, !.arg = c.sector, !.nblk = nblk,
            !.hasData = TRUE, !.auto23 = auto23,
            !.status = "Ready_for_submit"]

ReadWriteSingle(c) == IF c.read THEN "CMD17" ELSE "CMD24"
ReadWriteMultiple(c) == IF c.read THEN "CMD18" ELSE "CMD25"

\* The sectors of all blocks.
NumSectors(blocks) == SectorSums(blocks)[Len(blocks)]

-----------------------------------------------------------------------------
\* A multi-block transfer; without CMD23 it is open-ended and needs CMD12.
OpenTransfer_NoStop(k, c, nblk, auto23) ==
  ReinitInoutData(c, ReadWriteMultiple(c), nblk, auto23)
OpenTransfer(k, c, nblk, auto23) ==
  LET d == ReinitInoutData(c, ReadWriteMultiple(c), nblk, auto23)
  IN  IF k.hasCmd23 THEN d ELSE [d EXCEPT !.cmd12 = TRUE]

\* The block count announced to the card, in the 16 bits of the argument.
BlockCountArg_OneShort(n) == (n - 1) % CountMod
BlockCountArg(n) == n % CountMod

\* Device::set_block_count_adma2(): the first command of an ADMA2 request.
SetBlockCountAdma2(k, c) ==
  LET n == NumSectors(c.blocks)
  IN  IF ~k.hasCmd23 \/ k.autoCmd23
        THEN OpenTransfer(k, c, n, k.hasCmd23 /\ k.autoCmd23)
        ELSE ReinitInoutNodata([c EXCEPT !.nblk = n], "CMD23", BlockCountArg(n))

\* Outcome of handling the end of a command: the next state of the Cmd, the
\* answer its callback got ("none": the request needs another command) and
\* the number of sectors reported with it.
More(c) == [cmd |-> c, reply |-> "none", sectors |-> 0]
Done(c, reply) == [cmd |-> c, reply |-> reply, sectors |-> c.done]

\* Device::handle_irq_inout_adma2()
HandleIrqInoutAdma2(k, c) ==
  IF c.cmd # "CMD23" THEN Done(c, "ok")
  ELSE More(OpenTransfer(k, c, c.nblk, FALSE))

\* Device::transfer_block_sdma(): the next command for the first block left.
TransferBlockSdma(k, c) ==
  IF c.blocks = <<>> THEN Done(c, "ok")
  ELSE LET n == Head(c.blocks)
       IN IF n = 1 THEN More(ReinitInoutData(c, ReadWriteSingle(c), 1, FALSE))
          ELSE IF k.hasCmd23 /\ c.cmd # "CMD23"
                 THEN More(ReinitInoutNodata(c, "CMD23", BlockCountArg(n)))
          ELSE More(OpenTransfer(k, c, n, FALSE))

\* The blocks after the first one, without the empty ones in front.
NextBlocks(blocks) ==
  LET rest == Tail(blocks)
      used == {i \in DOMAIN rest : rest[i] # 0}
  IN  IF used = {} THEN <<>>
      ELSE SubSeq(rest, CHOOSE i \in used : \A j \in used : i <= j, Len(rest))

\* Device::handle_irq_inout_sdma(): CMD23 moves nothing, anything else ended
\* the transfer of the first block.
HandleIrqInoutSdma_CountCmd23(k, c) ==
  TransferBlockSdma(k, [c EXCEPT !.sector = @ + Head(c.blocks),
                                 !.done = @ + Head(c.blocks),
                                 !.blocks = NextBlocks(@)])
HandleIrqInoutSdma(k, c) ==
  IF c.status = "Success" /\ c.cmd # "CMD23"
    THEN TransferBlockSdma(k, [c EXCEPT !.sector = @ + Head(c.blocks),
                                        !.done = @ + Head(c.blocks),
                                        !.blocks = NextBlocks(@)])
    ELSE TransferBlockSdma(k, c)

\* Device::handle_irq_inout(): an open-ended transfer is first stopped, good
\* or bad, with its own status put aside; CMD12 itself decides nothing.
HandleIrqInout_KeepStatus12(k, c) ==
  IF c.cmd12 /\ ~AutoCmd12
    THEN More(ReinitInoutNodata([c EXCEPT !.cmd12 = FALSE, !.status12 = @],
                IF c.read THEN "CMD12rd" ELSE "CMD12wr", 0))
  ELSE IF IsError(c) THEN Done(c, "eio")
  ELSE IF k.adma2 THEN HandleIrqInoutAdma2(k, c) ELSE HandleIrqInoutSdma(k, c)
HandleIrqInout_KeepCmd12(k, c) ==
  IF c.cmd12 /\ ~AutoCmd12
    THEN More(ReinitInoutNodata([c EXCEPT !.status12 = c.status],
                IF c.read THEN "CMD12rd" ELSE "CMD12wr", 0))
  ELSE IF IsError(c) THEN Done(c, "eio")
  ELSE IF k.adma2 THEN HandleIrqInoutAdma2(k, c) ELSE HandleIrqInoutSdma(k, c)
HandleIrqInout(k, c) ==
  IF c.cmd12 /\ ~AutoCmd12
    THEN More(ReinitInoutNodata([c EXCEPT !.cmd12 = FALSE, !.status12 = c.status],
                IF c.read THEN "CMD12rd" ELSE "CMD12wr", 0))
  ELSE LET d == IF c.cmd \in StopTransmission
                  THEN [c EXCEPT !.status = c.status12] ELSE c
       IN  IF IsError(d) THEN Done(d, "eio")
           ELSE IF k.adma2 THEN HandleIrqInoutAdma2(k, d)
           ELSE HandleIrqInoutSdma(k, d)

\* The part of Device::inout_data() that picks the first command.
FirstCommand(k, c) ==
  IF k.adma2 THEN SetBlockCountAdma2(k, c) ELSE TransferBlockSdma(k, c).cmd
=============================================================================
