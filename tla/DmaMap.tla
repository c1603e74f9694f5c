------------------------------- MODULE DmaMap -------------------------------
(***************************************************************************)
(* DMA mapping of request memory by Emmc::Device (device-impl.h) for the   *)
(* disk and its partitions, with the work-around CD-202: a region that is  *)
(* mapped already is not mapped again but counted.                         *)
(*                                                                         *)
(* A region is a dataspace and an offset.  The two-level _ds_offs_map is   *)
(* one function on regions: an inner map is erased with its last entry.    *)
(* The DMA space is external.  As the work-around implies it does not      *)
(* count: one unmap releases the mapping at an address, however often it   *)
(* was mapped and whatever its length.  Blocks of the client that have     *)
(* _dma_map_all set are mapped elsewhere, with the whole dataspace.        *)
(***************************************************************************)
EXTENDS Naturals, FiniteSets, Functions

CONSTANTS
  Users,        \* block devices on one Device: the disk and its partitions
  Blocks,       \* blocks of requests a client has mapped or may map
  Regions,      \* dataspace and offset
  Addresses,
  Memories,     \* layouts of memory: the physical address of each region
  Lengths,      \* num_sectors of a block
  MaxRefcnt     \* bound of a reference count, 2^32 - 1 in the code

ASSUME DmaMapAssumption ==
  /\ Memories \subseteq [Regions -> Addresses]
  /\ Lengths \subseteq Nat \ {0}
  /\ IsFiniteSet(Blocks)
  /\ MaxRefcnt \in Nat \ {0}

VARIABLES
  memory,       \* the layout, fixed
  dmaMapAll,    \* Base_device::_dma_map_all of each user
  dsOffsMap,    \* _ds_offs_map: region to address, length, reference count
  physMap,      \* _phys_map: address to region
  dmaSpace,     \* the DMA space: mapped addresses, with their lengths
  held,         \* blocks mapped and not unmapped yet, by the client
  cut           \* addresses the DMA space mapped too short, which is an error

vars == <<memory, dmaMapAll, dsOffsMap, physMap, dmaSpace, held, cut>>

Entry == [phys : Addresses, num_sectors : Lengths, refcnt : 1 .. MaxRefcnt]

\* warned: the block was answered with "size mismatch -- ignoring!"
Hold == [user : Users, region : Regions, phys : Addresses,
         num_sectors : Lengths, warned : BOOLEAN]

EmptyMap == [x \in {} |-> {}]

Init ==
  /\ memory \in Memories
  /\ dmaMapAll \in [Users -> BOOLEAN]
  /\ dsOffsMap = EmptyMap
  /\ physMap = EmptyMap
  /\ dmaSpace = EmptyMap
  /\ held = EmptyMap
  /\ cut = {}

-----------------------------------------------------------------------------
Cached(g) == g \in DOMAIN dsOffsMap

\* f without k; f with k added, unless it is there: std::map::erase, emplace
Erased(f, k) == Restrict(f, DOMAIN f \ {k})
Emplaced(f, k, v) ==
  [x \in DOMAIN f \cup {k} |-> IF x \in DOMAIN f THEN f[x] ELSE v]
Assigned(f, k, v) == [x \in DOMAIN f \cup {k} |-> IF x = k THEN v ELSE f[x]]

\* The client keeps the address it was given.
Holds(b, u, g, p, n, w) ==
  held' = Assigned(held, b, [user |-> u, region |-> g, phys |-> p,
                        num_sectors |-> n, warned |-> w])

\* set_dma_map_all() when a client connects: its device is not in use.
SetDmaMapAll(u) ==
  /\ \A b \in DOMAIN held : held[b].user # u
  /\ dmaMapAll' = [dmaMapAll EXCEPT ![u] = ~@]
  /\ UNCHANGED <<memory, dsOffsMap, physMap, dmaSpace, held, cut>>

\* dma_map() with _dma_map_all: the dataspace is mapped as a whole, elsewhere.
DmaMapAll(b, u, g, n) ==
  /\ b \notin DOMAIN held /\ dmaMapAll[u]
  /\ Holds(b, u, g, memory[g], n, FALSE)
  /\ UNCHANGED <<memory, dmaMapAll, dsOffsMap, physMap, dmaSpace, cut>>

\* dma_map_single() of a region in the cache.  The count only reaches its bound
\* when an entry is never found again by its address.
Counted_Not(e) == e
Counted(e) == [e EXCEPT !.refcnt = @ + 1]
DmaMapCached(b, u, g, n) ==
  /\ b \notin DOMAIN held /\ ~dmaMapAll[u]
  /\ Cached(g) /\ dsOffsMap[g].refcnt < MaxRefcnt
  /\ dsOffsMap' = [dsOffsMap EXCEPT ![g] = Counted(@)]
  /\ Holds(b, u, g, dsOffsMap[g].phys, n, n # dsOffsMap[g].num_sectors)
  /\ UNCHANGED <<memory, dmaMapAll, physMap, dmaSpace, cut>>

\* dma_map_single() of a region that is not: the DMA space maps it in full.
DmaMapNew(b, u, g, n) ==
  /\ b \notin DOMAIN held /\ ~dmaMapAll[u]
  /\ ~Cached(g)
  /\ LET p == memory[g]
     IN  /\ dmaSpace' = Assigned(dmaSpace, p, n)
         /\ dsOffsMap' = Emplaced(dsOffsMap, g,
                           [phys |-> p, num_sectors |-> n, refcnt |-> 1])
         /\ physMap' = Emplaced(physMap, p, g)
         /\ Holds(b, u, g, p, n, FALSE)
         /\ cut' = cut \ {p}
  /\ UNCHANGED <<memory, dmaMapAll>>

\* dma_map_single() returns -L4_ENOMEM because the DMA space mapped less than
\* was asked for.  What it did map stays mapped.
DmaMapCut(u, g, n) ==
  /\ ~dmaMapAll[u]
  /\ ~Cached(g)
  /\ \E k \in Lengths :
       k < n /\ dmaSpace' = Assigned(dmaSpace, memory[g], k)
  /\ cut' = cut \cup {memory[g]}
  /\ UNCHANGED <<memory, dmaMapAll, dsOffsMap, physMap, held>>

-----------------------------------------------------------------------------
\* The lookups of dma_unmap_single() before it changes anything.
Found(p) == p \in DOMAIN physMap /\ physMap[p] \in DOMAIN dsOffsMap

\* A client unmaps the address it was given.
Releases(b) == held' = Erased(held, b)

DmaUnmapAll(b) ==
  /\ b \in DOMAIN held /\ dmaMapAll[held[b].user]
  /\ Releases(b)
  /\ UNCHANGED <<memory, dmaMapAll, dsOffsMap, physMap, dmaSpace, cut>>

\* dma_unmap_single() returns -L4_ENOENT.
DmaUnmapUnknown(b) ==
  /\ b \in DOMAIN held /\ ~dmaMapAll[held[b].user]
  /\ ~Found(held[b].phys)
  /\ Releases(b)
  /\ UNCHANGED <<memory, dmaMapAll, dsOffsMap, physMap, dmaSpace, cut>>

\* dma_unmap_single() of a region with other users.
Shared_KeepZero(e) == e.refcnt > 0
Shared_OffByOne(e) == e.refcnt > 2
Shared(e) == e.refcnt > 1
DmaUnmapShared(b) ==
  /\ b \in DOMAIN held /\ ~dmaMapAll[held[b].user]
  /\ Found(held[b].phys)
  /\ LET g == physMap[held[b].phys]
     IN  /\ Shared(dsOffsMap[g])
         /\ dsOffsMap' = [dsOffsMap EXCEPT ![g].refcnt = @ - 1]
  /\ Releases(b)
  /\ UNCHANGED <<memory, dmaMapAll, physMap, dmaSpace, cut>>

\* dma_unmap_single() by the last user of a region.
Forgotten_KeepPhys(p) == dsOffsMap' = Erased(dsOffsMap, physMap[p]) /\ UNCHANGED physMap
Forgotten(p) ==
  /\ dsOffsMap' = Erased(dsOffsMap, physMap[p])
  /\ physMap' = Erased(physMap, p)
DmaUnmapLast(b) ==
  /\ b \in DOMAIN held /\ ~dmaMapAll[held[b].user]
  /\ Found(held[b].phys)
  /\ LET p == held[b].phys
     IN  /\ ~Shared(dsOffsMap[physMap[p]])
         /\ Forgotten(p)
         /\ dmaSpace' = Erased(dmaSpace, p)
  /\ Releases(b)
  /\ UNCHANGED <<memory, dmaMapAll, cut>>

Map == \E b \in Blocks, u \in Users, g \in Regions, n \in Lengths :
         \/ DmaMapAll(b, u, g, n)
         \/ DmaMapCached(b, u, g, n)
         \/ DmaMapNew(b, u, g, n)

Unmap == \E b \in Blocks : \/ DmaUnmapAll(b)
                           \/ DmaUnmapUnknown(b)
                           \/ DmaUnmapShared(b)
                           \/ DmaUnmapLast(b)

Next ==
  \/ Map
  \/ Unmap
  \/ \E u \in Users, g \in Regions, n \in Lengths : DmaMapCut(u, g, n)
  \/ \E u \in Users : SetDmaMapAll(u)

Spec == Init /\ [][Next]_vars
-----------------------------------------------------------------------------
TypeOK ==
  /\ memory \in Memories
  /\ dmaMapAll \in [Users -> BOOLEAN]
  /\ DOMAIN dsOffsMap \subseteq Regions
  /\ \A g \in DOMAIN dsOffsMap : dsOffsMap[g] \in Entry
  /\ DOMAIN physMap \subseteq Addresses
  /\ \A p \in DOMAIN physMap : physMap[p] \in Regions
  /\ DOMAIN dmaSpace \subseteq Addresses
  /\ \A p \in DOMAIN dmaSpace : dmaSpace[p] \in Lengths
  /\ DOMAIN held \subseteq Blocks
  /\ \A b \in DOMAIN held : held[b] \in Hold
  /\ cut \subseteq Addresses

\* The blocks that are mapped one by one, and those of a region.
Singles == {b \in DOMAIN held : ~dmaMapAll[held[b].user]}
Holders(g) == {b \in Singles : held[b].region = g}

\* No two regions share memory.
Distinct == IsInjective(memory)

\* Every address in _phys_map leads to a region in the cache; without shared
\* memory, _phys_map is the inverse of _ds_offs_map.
MapsMirror ==
  /\ \A p \in DOMAIN physMap : /\ Cached(physMap[p])
                              /\ dsOffsMap[physMap[p]].phys = p
  /\ Distinct => \A g \in DOMAIN dsOffsMap :
                   /\ dsOffsMap[g].phys \in DOMAIN physMap
                   /\ physMap[dsOffsMap[g].phys] = g

\* The reference count of a region is the number of blocks that use it, over
\* all block devices; what is not in the cache is not in use.
RefcntIsHolders ==
  Distinct => \A g \in Regions :
    Cardinality(Holders(g)) = IF Cached(g) THEN dsOffsMap[g].refcnt ELSE 0

\* While a client has a block mapped, its address is mapped in the DMA space,
\* in the full length unless the driver warned that it ignores a mismatch.
HeldIsMapped ==
  Distinct => \A b \in Singles :
    LET h == held[b]
    IN  /\ h.phys \in DOMAIN dmaSpace
        /\ dmaSpace[h.phys] < h.num_sectors => h.warned

\* Nothing stays mapped in the DMA space after its last block was unmapped,
\* except what it mapped too short and the driver never unmaps.
OnlyHeldStaysMapped ==
  Distinct => \A p \in DOMAIN dmaSpace \ cut :
                \E b \in Singles : held[b].phys = p
=============================================================================
