---------------------------- MODULE InoutSequence ----------------------------
(***************************************************************************)
(* One read or write request, from inout_data() to its callback: the MMC   *)
(* commands Device issues for it against a card that executes or refuses   *)
(* each of them, and the memory the controller moves for them.  The queue, *)
(* the controller registers and the interrupts are in EmmcDevice; here the *)
(* question is whether the commands move the right sectors from and to the *)
(* right memory, for every driver (ADMA2 with and without Auto CMD23,      *)
(* SDMA), with and without CMD23 support of the medium, for memory inside  *)
(* and outside the reach of the controller.                                *)
(***************************************************************************)
EXTENDS InoutCmd, DmaDesc

CONSTANTS
  Drivers,      \* the traits to check
  Hosts,        \* the drivers of DmaDesc to check
  Requests,     \* block sizes of the requests to check
  Places,       \* functions from block numbers to memory addresses
  Memory,       \* all addresses
  FirstSector   \* medium sector of the request

\* A request begins with a block it uses, and each block has a place.  The block count
\* of the controller has no more bits than that of CMD23.
ASSUME InoutSequenceAssumption ==
  /\ Drivers \subseteq Traits
  /\ Hosts \subseteq [maxSeg : Nat \ {0}, limit : Nat, maxAddr : Nat,
                      bbAddr : Nat, bbSize : Nat]
  /\ \A b \in Requests : b \in Seq(Nat) /\ b # <<>> /\ b[1] # 0
  /\ \A p \in Places : p \in Seq(Nat) /\ \A b \in Requests : Len(b) <= Len(p)
  /\ FirstSector \in Nat
  /\ MaxBlocks < CountMod

VARIABLES
  k,            \* traits of the device
  host,         \* its DMA
  request,      \* the block list of the request
  place,        \* where its blocks are in memory
  c,            \* its Cmd
  count,        \* block count the card was told by CMD23, -1 for none
  streaming,    \* the card is in an open-ended transfer
  moved,        \* sectors moved by successful data commands, in order
  mem, disk,    \* contents of memory and medium: sectors of the request, or 0
  answer        \* what the callback got: [reply, sectors]

fixed == <<k, host, request, place>>
vars == <<fixed, c, count, streaming, moved, mem, disk, answer>>

NoAnswer == [reply |-> "none", sectors |-> 0]

Sectors(n) == [i \in 1 .. n |-> FirstSector + i - 1]
Medium == FirstSector .. FirstSector + NumSectors(request) - 1

\* The memory of the request: the address of each of its sectors.
Layout == FlattenSeq([i \in DOMAIN request |-> Addresses(place[i], request[i])])

\* The blocks c.blocks refers to, with their memory.
BlocksAt(i) ==
  [j \in 1 .. Len(request) - i + 1 |-> [addr |-> place[i + j - 1], n |-> request[i + j - 1]]]
Current == Len(request) - Len(c.blocks) + 1
Blocks == BlocksAt(Current)

Init ==
  /\ k \in Drivers /\ request \in Requests
  /\ place \in {SubSeq(p, 1, Len(request)) : p \in Places}
  /\ host \in {h \in Hosts : SetupBounceBuffer(h)} /\ Admitted(host, request)
  /\ Provided(host) \/ \A i \in DOMAIN request : Accessible(host, BlocksAt(1)[i])
  /\ \E read \in BOOLEAN :
       /\ c = FirstCommand(k, InitInout(CreatedCmd, FirstSector, request, 0, read))
       /\ mem = LET none == [a \in Memory |-> 0]
                IN  IF read THEN none ELSE Put(none, Layout, Sectors(Len(Layout)))
       /\ disk = [s \in Medium |-> IF read THEN s ELSE 0]
  /\ count = -1 /\ streaming = FALSE /\ moved = <<>> /\ answer = NoAnswer

\* The command has ended with status s: handle_irq_inout() goes on from there.
Ended(s) ==
  LET r == HandleIrqInout(k, [c EXCEPT !.status = s])
  IN  /\ c' = r.cmd
      /\ answer' = [reply |-> r.reply, sectors |-> r.sectors]
      /\ UNCHANGED fixed

Pending == answer.reply = "none"

\* CMD23: the card keeps the count for the next multi-block command.
SetBlockCount ==
  /\ Pending /\ c.cmd = "CMD23"
  /\ count' = c.arg
  /\ Ended("Success")
  /\ UNCHANGED <<streaming, moved, mem, disk>>

\* The data command is prepared, or given up by an exception: out of inout_data()
\* for the first command, out of handle_irq() for any other, and then nobody answers
\* the request.
Submits == Submittable(k.adma2, host, Blocks, c.nblk)
SubmitThrows ==
  /\ Pending /\ c.hasData /\ ~Submits
  /\ answer' = [reply |-> IF count = -1 /\ c.done = 0 THEN "thrown" ELSE "lost",
                sectors |-> 0]
  /\ UNCHANGED <<fixed, c, count, streaming, moved, mem, disk>>

\* The memory of the command at hand; what moves between it and the medium.
Touched == Moves(k.adma2, host, Blocks, c.nblk)
Filled ==
  LET touched == Touched
  IN  Put(mem, touched, [i \in DOMAIN touched |-> disk[c.arg + i - 1]])
Stored(source) ==
  LET touched == Touched
  IN  Put(disk, Addresses(c.arg, Len(touched)), [i \in DOMAIN touched |-> source[touched[i]]])

\* flags.read_from_bounce_buffer: set by this or an earlier command.
BounceRead ==
  \E i \in DOMAIN request :
    /\ Bounced(host, BlocksAt(1)[i]) /\ request[i] > 0
    /\ k.adma2 \/ i <= Current

\* A data command moves nblk sectors from its argument on.
Transfer ==
  /\ Pending /\ c.hasData /\ Submits
  /\ IF c.read
     THEN /\ mem' = IF BounceRead THEN CopyOut(Filled, host, Blocks) ELSE Filled
          /\ UNCHANGED disk
     ELSE LET ready == CopyIn(k.adma2, mem, host, Blocks)
          IN  mem' = ready /\ disk' = Stored(ready)
  /\ moved' = moved \o [i \in 1 .. c.nblk |-> c.arg + i - 1]
  /\ streaming' = (c.cmd \in MultipleBlock /\ count = -1 /\ ~c.auto23)
  /\ count' = -1
  /\ Ended("Success")

\* CMD12: ends an open-ended transfer.
StopTransfer ==
  /\ Pending /\ c.cmd \in StopTransmission
  /\ streaming' = FALSE
  /\ Ended("Success")
  /\ UNCHANGED <<count, moved, mem, disk>>

\* The command or its data phase fails.  A transfer that was announced open-
\* ended may have started, and a read may have filled its memory.
CommandFails ==
  /\ Pending /\ (c.hasData => Submits)
  /\ \E s \in {"Cmd_timeout", "Cmd_error"} \cup
              (IF c.hasData THEN {"Data_error"} ELSE {}) :
       /\ streaming' = (s = "Data_error" /\ count = -1 /\ ~c.auto23
                          /\ c.cmd \in MultipleBlock)
       /\ mem' \in {mem} \cup (IF s = "Data_error" /\ c.read THEN {Filled} ELSE {})
       /\ Ended(s)
  /\ count' = -1
  /\ UNCHANGED <<moved, disk>>

Next == CommandFails \/ SubmitThrows \/ SetBlockCount \/ Transfer \/ StopTransfer

Spec == Init /\ [][Next]_vars /\ WF_vars(Next)

-----------------------------------------------------------------------------
\* While a request is on its way or after it failed, what has been moved is a
\* prefix of it: no sector is skipped, repeated or moved out of order.
MovesPrefix == moved = Sectors(Len(moved))
               /\ Len(moved) <= NumSectors(request)

\* The bytes an SDMA request reports are those of the blocks moved: all of
\* them on success, never more than moved on an error (sectors_done).
SdmaReportsMoved ==
  ~k.adma2 /\ ~Pending => /\ answer.sectors <= Len(moved)
                          /\ answer.reply = "ok" => answer.sectors = Len(moved)

\* No data command moves nothing: the blocks a request does not use are passed over.
\* The count CMD23 announces is the count of the data command after it, and
\* nothing but that data command follows a successful CMD23; a count cut to the
\* 16 bits of the argument never gets as far as its data command.
CountMatchesTransfer ==
  /\ Pending /\ c.hasData => c.nblk > 0
  /\ count # -1 => /\ c.cmd \in MultipleBlock /\ ~c.auto23
                   /\ c.nblk = count \/ ~Submits

\* A card left in an open-ended transfer gets CMD12 next, before the request is
\* answered and before any other command (inout_cmd12).
StopFollowsOpenTransfer ==
  streaming => Pending /\ c.cmd \in StopTransmission

\* Every request is answered after finitely many commands, given a bounce buffer of
\* a size the controller can move.
EventuallyAnswered ==
  host.bbSize <= MaxBlocks => <>(answer.reply \in {"ok", "eio"})

\* No memory is given for two blocks, or taken from the bounce buffer.
PlacesApart ==
  \A p \in Places, b \in Requests, h \in Hosts :
    \A i \in DOMAIN b :
      LET block == p[i] .. p[i] + b[i] - 1 IN
      /\ \A j \in DOMAIN b : i # j => block \cap (p[j] .. p[j] + b[j] - 1) = {}
      /\ block \cap (h.bbAddr .. h.bbAddr + h.bbSize - 1) = {}

\* Each sector of a request that is answered with L4_EOK has come from or gone to
\* the memory of its block, whether that was bounced or not.
DataArrives ==
  answer.reply = "ok" =>
    LET layout == Layout IN
    \A i \in DOMAIN layout :
      LET sector == FirstSector + i - 1
      IN  mem[layout[i]] = sector /\ disk[sector] = sector

\* The controller is given no address but those of the request and the bounce
\* buffer, none that it does not reach, and no memory but theirs changes.
DmaStaysInside ==
  LET own == Range(Layout)
      bounce == host.bbAddr .. host.bbAddr + host.bbSize - 1
  IN  /\ Pending /\ c.hasData /\ Submits =>
           \A a \in Range(Touched) : a \in own \cup bounce /\ a <= host.limit
      /\ \A a \in Memory \ (own \cup bounce) : mem[a] = 0

\* What the descriptors of a controller are made for: they reach what its DMA reaches,
\* and the table, which adma2_desc_mem_size() rounds up to pages, has room for a last
\* descriptor of each block that is not full.
DescriptorsSuffice ==
  \A h \in Hosts :
    /\ h.limit < h.maxAddr
    /\ h.bbSize <= MaxBlocks => h.maxSeg * DescCount(MaxSize(h)) <= TableSize(h)

\* A request that inout_data() admits is not given up for its size: max_size() and
\* max_segments() go with the descriptor table, the bounce buffer and the block
\* count of the controller, unless the bounce buffer is larger than that count.
AdmittedFits == answer.reply \in {"thrown", "lost"} => host.bbSize > MaxBlocks
=============================================================================
