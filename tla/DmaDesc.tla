------------------------------- MODULE DmaDesc -------------------------------
(***************************************************************************)
(* Where the data of a request goes in memory: the ADMA2 descriptor table  *)
(* and the bounce buffer of class Sdhci (drv_sdhci-impl.h, drv_sdhci.h,    *)
(* drv.cc), and the sizes Device admits (device.h).                        *)
(*                                                                         *)
(* Memory and sizes are in sectors.  A block is [addr, n], a driver d the  *)
(* record [maxSeg, limit, maxAddr, bbAddr, bbSize] of the number of        *)
(* segments, the highest address its DMA reaches (_dma_limit), the highest *)
(* of a descriptor (get_max_addr()), and the bounce buffer, of size 0 when *)
(* there is none.  The offset between physical and bus addresses, which is *)
(* added to each address, is left out.                                     *)
(***************************************************************************)
EXTENDS BlockLists, SequencesExt, FiniteSetsExt

CONSTANTS
  MaxBlocks,    \* Reg_blk_att::max_blocks, Reg_blk_size::max_blocks: 2^16 - 1
  MaxLength,    \* Adma2_desc_32::max_length: 64 sectors
  DescsPerPage, \* descriptors in a page: 512, or 256 with 64-bit addresses
  MinSegment    \* L4_PAGESIZE: 8 sectors

ASSUME DmaDescAssumption ==
  {MaxBlocks, MaxLength, DescsPerPage, MinSegment} \subseteq Nat \ {0}

\* Drv_base::dma_accessible() and ::provided_bounce_buffer().
Accessible_Start(d, b) == b.addr <= d.limit
Accessible(d, b) == b.addr <= d.limit /\ b.addr + b.n - 1 <= d.limit
Provided(d) == d.bbSize > 0

\* What Drv_base::setup_bounce_buffer() insists on.
SetupBounceBuffer(d) ==
  Provided(d) => /\ d.bbSize \div d.maxSeg >= MinSegment
                 /\ Accessible(d, [addr |-> d.bbAddr, n |-> d.bbSize])

\* Device::max_size(), and the check of Device::inout_data().
MaxSize(d) == (IF Provided(d) THEN d.bbSize ELSE MaxBlocks) \div d.maxSeg
Admitted(d, sizes) ==
  Len(sizes) <= d.maxSeg /\ \A i \in DOMAIN sizes : sizes[i] <= MaxSize(d)

\* Sdhci::adma2_desc_mem_size(), in descriptors.
RoundPage(n) == ((n + DescsPerPage - 1) \div DescsPerPage) * DescsPerPage
TableSize(d) == RoundPage(d.maxSeg * (MaxBlocks \div MaxLength))

-----------------------------------------------------------------------------
(* A block is bounced if the DMA does not reach all of it; bounced blocks  *)
(* lie in the buffer one behind the other.                                 *)

Bounced(d, b) == Provided(d) /\ ~Accessible(d, b)

BounceOffset_Same(d, blocks, i) == 0
BouncedSizes(d, blocks) ==
  [j \in DOMAIN blocks |-> IF Bounced(d, blocks[j]) THEN blocks[j].n ELSE 0]
BounceOffset(d, blocks, i) == SectorSums(BouncedSizes(d, blocks))[i - 1]

DmaAddr(d, blocks, i) ==
  IF Bounced(d, blocks[i]) THEN d.bbAddr + BounceOffset(d, blocks, i)
  ELSE blocks[i].addr

\* Sdhci::adma2_set_descs_mem_region() for one block.
DescCount(n) == (n + MaxLength - 1) \div MaxLength
Descs(addr, n, terminate) ==
  LET count == DescCount(n) IN
  [i \in 1 .. count |->
     [addr |-> addr + (i - 1) * MaxLength,
      length |-> Min({MaxLength, n - (i - 1) * MaxLength}),
      end |-> terminate /\ i = count]]

\* Sdhci::adma2_set_descs(): the table, and when it is given up.
Table(d, blocks) ==
  FlattenSeq([i \in DOMAIN blocks |->
                Descs(DmaAddr(d, blocks, i), blocks[i].n, i = Len(blocks))])
Describable_TableFull(d, blocks) ==
  /\ LET table == Table(d, blocks) IN
     /\ Len(table) < TableSize(d)
     /\ \A i \in DOMAIN table : table[i].addr < d.maxAddr
  /\ \A i \in DOMAIN blocks :
       Bounced(d, blocks[i]) => BounceOffset(d, blocks, i) + blocks[i].n <= d.bbSize
Describable(d, blocks) ==
  /\ LET table == Table(d, blocks) IN
     /\ Len(table) <= TableSize(d)
     /\ \A i \in DOMAIN table : table[i].addr < d.maxAddr
  /\ \A i \in DOMAIN blocks :
       Bounced(d, blocks[i]) => BounceOffset(d, blocks, i) + blocks[i].n <= d.bbSize

\* cmd_submit_prepare_dma() and cmd_submit_set_block_size_and_count() do not throw.
Submittable(adma2, d, blocks, count) ==
  count <= MaxBlocks /\ (adma2 => Describable(d, blocks))

\* The memory a data command moves, in order: what the descriptors up to the end
\* mark say, or count sectors from the DMA address, and no more than count.
Addresses(addr, n) == [j \in 1 .. n |-> addr + j - 1]
Walked(table) ==
  LET ends == {i \in DOMAIN table : table[i].end}
      walk == SubSeq(table, 1, IF ends = {} THEN Len(table) ELSE Min(ends))
  IN  FlattenSeq([i \in DOMAIN walk |-> Addresses(walk[i].addr, walk[i].length)])
Moves(adma2, d, blocks, count) ==
  IF adma2
  THEN LET walked == Walked(Table(d, blocks))
       IN  SubSeq(walked, 1, Min({count, Len(walked)}))
  ELSE Addresses(DmaAddr(d, blocks, 1), count)

\* The memcpy()s between a set of bounced blocks and their places in the buffer.
Put(mem, addrs, values) ==
  LET at == AntiFunction(addrs)
  IN  [a \in DOMAIN at \cup DOMAIN mem |->
         IF a \in DOMAIN at THEN values[at[a]] ELSE mem[a]]
Copy(mem, from, to) == Put(mem, to, [i \in DOMAIN from |-> mem[from[i]]])
AllBounced(d, blocks) == {i \in DOMAIN blocks : Bounced(d, blocks[i])}
OwnPlace(blocks, bounced) ==
  FlattenSeq([i \in DOMAIN blocks |->
    IF i \in bounced THEN Addresses(blocks[i].addr, blocks[i].n) ELSE <<>>])
BouncePlace(d, blocks, bounced) ==
  FlattenSeq([i \in DOMAIN blocks |->
    IF i \in bounced THEN Addresses(DmaAddr(d, blocks, i), blocks[i].n) ELSE <<>>])

\* Before a write: all blocks with ADMA2, the block at hand with SDMA.
CopyIn(adma2, mem, d, blocks) ==
  LET bounced == AllBounced(d, blocks) \cap (IF adma2 THEN DOMAIN blocks ELSE {1})
  IN  Copy(mem, OwnPlace(blocks, bounced), BouncePlace(d, blocks, bounced))

\* After a read, Sdhci::cmd_fetch_response(): all blocks left, in either case.
CopyOut(mem, d, blocks) ==
  LET bounced == AllBounced(d, blocks)
  IN  Copy(mem, BouncePlace(d, blocks, bounced), OwnPlace(blocks, bounced))
=============================================================================
