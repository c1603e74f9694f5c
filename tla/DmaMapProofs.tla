---------------------------- MODULE DmaMapProofs ----------------------------
(***************************************************************************)
(* Safety of DmaMap for every client, memory and set of block devices.     *)
(*                                                                         *)
(* DmaInv is inductive.  Without shared memory an address in _phys_map, an *)
(* entry of _ds_offs_map and a mapping of the DMA space come and go        *)
(* together (Forth, Space), and a block stays with the entry that answered *)
(* it (Answers), so that the reference count is the number of blocks.      *)
(***************************************************************************)
EXTENDS DmaMap, FiniteSetTheorems, TLAPS

\* Every address leads to its entry.  This holds with shared memory too.
Back ==
  \A p \in DOMAIN physMap : /\ Cached(physMap[p])
                            /\ dsOffsMap[physMap[p]].phys = p

\* Every entry has the address of its region and is found by it.
Forth ==
  \A g \in DOMAIN dsOffsMap : /\ dsOffsMap[g].phys = memory[g]
                              /\ memory[g] \in DOMAIN physMap
                              /\ physMap[memory[g]] = g

\* A block was answered with the address of its region, and if it was not warned
\* it has the length of the entry.
Answers ==
  /\ \A b \in DOMAIN held : held[b].phys = memory[held[b].region]
  /\ \A b \in Singles : LET h == held[b]
                        IN  Cached(h.region) /\ ~h.warned =>
                              h.num_sectors = dsOffsMap[h.region].num_sectors

\* The DMA space has mapped what is in the cache, and what it cut.
Space ==
  /\ \A p \in DOMAIN physMap :
       /\ p \in DOMAIN dmaSpace \ cut
       /\ dmaSpace[p] = dsOffsMap[physMap[p]].num_sectors
  /\ DOMAIN dmaSpace \ cut \subseteq DOMAIN physMap

CacheInv == Forth /\ Answers /\ Space /\ RefcntIsHolders

DmaInv == TypeOK /\ Back /\ (Distinct => CacheInv)

-----------------------------------------------------------------------------
LEMMA HoldersFinite ==
  ASSUME TypeOK
  PROVE  \A g : IsFiniteSet(Holders(g)) /\ Cardinality(Holders(g)) \in Nat
<1> TAKE g
<1>1. Holders(g) \in SUBSET Blocks
  BY DEF TypeOK, Holders, Singles
<1> QED
  BY <1>1, DmaMapAssumption, FS_Subset, FS_CardinalityType

\* A block that is mapped by itself is one holder more of its region.
LEMMA HoldersGrow ==
  ASSUME TypeOK, NEW b \in Blocks \ DOMAIN held, NEW u \in Users, NEW g, NEW p,
         NEW n, NEW w, Holds(b, u, g, p, n, w), dmaMapAll' = dmaMapAll,
         ~dmaMapAll[u]
  PROVE  /\ Singles' = Singles \cup {b}
         /\ \A h : Cardinality(Holders(h)') =
                     Cardinality(Holders(h)) + IF h = g THEN 1 ELSE 0
<1>1. /\ DOMAIN held' = DOMAIN held \cup {b}
      /\ held'[b].user = u /\ held'[b].region = g
      /\ \A c \in DOMAIN held : held'[c] = held[c]
  BY DEF Holds, Assigned
<1>2. Singles' = Singles \cup {b}
  BY <1>1 DEF Singles
<1>3. \A h : Holders(h)' = IF h = g THEN Holders(h) \cup {b} ELSE Holders(h)
  BY <1>1, <1>2 DEF Holders, Singles
<1>4. \A h : b \notin Holders(h)
  BY DEF Holders, Singles
<1> QED
  BY <1>2, <1>3, <1>4, HoldersFinite, FS_AddElement

\* And one holder less when it is unmapped.
LEMMA HoldersShrink ==
  ASSUME TypeOK, NEW b \in Singles, Releases(b), dmaMapAll' = dmaMapAll
  PROVE  /\ Singles' = Singles \ {b}
         /\ \A h : Cardinality(Holders(h)') =
                     Cardinality(Holders(h))
                       - IF h = held[b].region THEN 1 ELSE 0
<1>1. /\ DOMAIN held' = DOMAIN held \ {b}
      /\ \A c \in DOMAIN held \ {b} : held'[c] = held[c]
  BY DEF Releases, Erased, Restrict
<1>2. Singles' = Singles \ {b}
  BY <1>1 DEF Singles
<1>3. \A h : Holders(h)' = IF h = held[b].region THEN Holders(h) \ {b} ELSE Holders(h)
  BY <1>1, <1>2 DEF Holders, Singles
<1>4. b \in Holders(held[b].region)
  BY DEF Holders
<1> QED
  BY <1>2, <1>3, <1>4, HoldersFinite, FS_RemoveElement

\* A block that is held is in the cache.
LEMMA HeldIsCached ==
  ASSUME TypeOK, Distinct, RefcntIsHolders, NEW b \in Singles
  PROVE  Cached(held[b].region)
<1>1. held[b].region \in Regions /\ b \in Holders(held[b].region)
  BY DEF TypeOK, Hold, Singles, Holders
<1>2. Cardinality(Holders(held[b].region)) # 0
  BY <1>1, HoldersFinite, FS_EmptySet
<1> QED
  BY <1>1, <1>2 DEF RefcntIsHolders

-----------------------------------------------------------------------------
LEMMA InitInv == Init => DmaInv
<1> SUFFICES ASSUME Init PROVE DmaInv
  OBVIOUS
<1>1. TypeOK /\ Back /\ Forth /\ Answers /\ Space
  BY DEF Init, EmptyMap, TypeOK, Back, Forth, Answers, Space, Singles
<1>2. \A g : Holders(g) = {}
  BY DEF Init, EmptyMap, Holders, Singles
<1>3. RefcntIsHolders
  BY <1>2, FS_EmptySet DEF Init, EmptyMap, RefcntIsHolders, Cached
<1> QED
  BY <1>1, <1>3 DEF DmaInv, CacheInv

\* Blocks of a client that maps everything do not touch the cache.
LEMMA MapAllKeepsInv ==
  ASSUME DmaInv, NEW b \in Blocks, NEW u \in Users, NEW g \in Regions,
         NEW n \in Lengths, DmaMapAll(b, u, g, n)
  PROVE  DmaInv'
<1> USE DEF DmaInv
<1>1. /\ DOMAIN held' = DOMAIN held \cup {b}
      /\ held'[b] = [user |-> u, region |-> g, phys |-> memory[g],
                     num_sectors |-> n, warned |-> FALSE]
      /\ \A c \in DOMAIN held : held'[c] = held[c]
  BY DEF DmaMapAll, Holds, Assigned
<1>2. memory[g] \in Addresses
  BY DmaMapAssumption DEF TypeOK
<1>3. TypeOK'
  <2>1. held'[b] \in Hold
    BY <1>1, <1>2 DEF Hold
  <2> QED
    BY <1>1, <2>1 DEF DmaMapAll, TypeOK
<1>4. Back'
  BY DEF DmaMapAll, Back, Cached
<1>5. Singles' = Singles /\ \A h : Holders(h)' = Holders(h)
  BY <1>1 DEF DmaMapAll, Holders, Singles
<1>6. Distinct => CacheInv'
  BY <1>1, <1>5
  DEF DmaMapAll, Distinct, CacheInv, Forth, Answers, Space, RefcntIsHolders, Cached,
      Singles
<1>7. Distinct' = Distinct
  BY DEF DmaMapAll, Distinct
<1> QED
  BY <1>3, <1>4, <1>6, <1>7

LEMMA MapCachedKeepsInv ==
  ASSUME DmaInv, NEW b \in Blocks, NEW u \in Users, NEW g \in Regions,
         NEW n \in Lengths, DmaMapCached(b, u, g, n)
  PROVE  DmaInv'
<1> USE DEF DmaInv
<1>1. /\ DOMAIN held' = DOMAIN held \cup {b}
      /\ \E w \in BOOLEAN :
           /\ held'[b] = [user |-> u, region |-> g, phys |-> dsOffsMap[g].phys,
                          num_sectors |-> n, warned |-> w]
           /\ ~w => n = dsOffsMap[g].num_sectors
      /\ \A c \in DOMAIN held : held'[c] = held[c]
  <2> DEFINE w == n # dsOffsMap[g].num_sectors
  <2>1. /\ DOMAIN held' = DOMAIN held \cup {b}
        /\ held'[b] = [user |-> u, region |-> g, phys |-> dsOffsMap[g].phys,
                       num_sectors |-> n, warned |-> w]
        /\ \A c \in DOMAIN held : held'[c] = held[c]
    BY DEF DmaMapCached, Holds, Assigned
  <2>2. w \in BOOLEAN /\ (~w => n = dsOffsMap[g].num_sectors)
    OBVIOUS
  <2> HIDE DEF w
  <2> QED
    BY <2>1, <2>2
<1>2. /\ DOMAIN dsOffsMap' = DOMAIN dsOffsMap
      /\ dsOffsMap'[g] = [dsOffsMap[g] EXCEPT !.refcnt = @ + 1]
      /\ \A h \in DOMAIN dsOffsMap : h # g => dsOffsMap'[h] = dsOffsMap[h]
  BY DEF DmaMapCached, Cached, Counted
<1>3. dsOffsMap[g] \in Entry /\ g \in DOMAIN dsOffsMap
  BY DEF DmaMapCached, TypeOK, Cached
<1>4. dsOffsMap'[g] \in Entry
  BY <1>2, <1>3, DmaMapAssumption DEF DmaMapCached, Entry
<1>5. \A h \in DOMAIN dsOffsMap :
        /\ dsOffsMap'[h].phys = dsOffsMap[h].phys
        /\ dsOffsMap'[h].num_sectors = dsOffsMap[h].num_sectors
  BY <1>2, <1>3 DEF Entry
<1>6. TypeOK'
  BY <1>1, <1>2, <1>3, <1>4 DEF DmaMapCached, TypeOK, Hold, Entry
<1>7. Back'
  BY <1>2, <1>5 DEF DmaMapCached, Back, Cached
<1>8. /\ Singles' = Singles \cup {b}
      /\ \A h : Cardinality(Holders(h)') =
                  Cardinality(Holders(h)) + IF h = g THEN 1 ELSE 0
  <2>1. b \in Blocks \ DOMAIN held /\ dmaMapAll' = dmaMapAll /\ ~dmaMapAll[u]
    BY DEF DmaMapCached
  <2>2. Holds(b, u, g, dsOffsMap[g].phys, n, n # dsOffsMap[g].num_sectors)
    BY DEF DmaMapCached
  <2> QED
    BY <2>1, <2>2, HoldersGrow
<1>9. ASSUME Distinct PROVE CacheInv'
  <2> USE <1>9 DEF CacheInv
  <2>1. Forth'
    BY <1>2, <1>5 DEF DmaMapCached, Forth
  <2>2. Answers'
    <3>1. \A c \in DOMAIN held' : held'[c].phys = memory'[held'[c].region]
      BY <1>1, <1>3 DEF DmaMapCached, Answers, Forth
    <3>2. \A c \in Singles' : Cached(held[c].region)' /\ ~held'[c].warned =>
            held'[c].num_sectors = dsOffsMap'[held'[c].region].num_sectors
      BY <1>1, <1>2, <1>3, <1>5, <1>8 DEF Answers, Cached, Singles
    <3> QED
      BY <3>1, <3>2 DEF Answers
  <2>3. Space'
    BY <1>5 DEF DmaMapCached, Space, Back, Cached
  <2>4. RefcntIsHolders'
    BY <1>2, <1>3, <1>8, HoldersFinite
    DEF DmaMapCached, RefcntIsHolders, Cached, Entry
  <2> QED
    BY <2>1, <2>2, <2>3, <2>4
<1>10. Distinct' = Distinct
  BY DEF DmaMapCached, Distinct
<1> QED
  BY <1>6, <1>7, <1>9, <1>10

\* A new entry, its address and its mapping appear together.
LEMMA MapNewKeepsInv ==
  ASSUME DmaInv, NEW b \in Blocks, NEW u \in Users, NEW g \in Regions,
         NEW n \in Lengths, DmaMapNew(b, u, g, n)
  PROVE  DmaInv'
<1> USE DEF DmaInv
<1> DEFINE p == memory[g]
           e == [phys |-> p, num_sectors |-> n, refcnt |-> 1]
<1>1. /\ DOMAIN held' = DOMAIN held \cup {b}
      /\ held'[b] = [user |-> u, region |-> g, phys |-> p,
                     num_sectors |-> n, warned |-> FALSE]
      /\ \A c \in DOMAIN held : held'[c] = held[c]
  BY DEF DmaMapNew, Holds, Assigned
<1>2. /\ g \notin DOMAIN dsOffsMap
      /\ DOMAIN dsOffsMap' = DOMAIN dsOffsMap \cup {g}
      /\ dsOffsMap'[g] = e
      /\ \A h \in DOMAIN dsOffsMap : dsOffsMap'[h] = dsOffsMap[h]
  BY DEF DmaMapNew, Cached, Emplaced
<1>3. /\ DOMAIN physMap' = DOMAIN physMap \cup {p}
      /\ p \notin DOMAIN physMap => physMap'[p] = g
      /\ \A r \in DOMAIN physMap : physMap'[r] = physMap[r]
  BY DEF DmaMapNew, Emplaced
<1>4. /\ DOMAIN dmaSpace' = DOMAIN dmaSpace \cup {p}
      /\ dmaSpace'[p] = n
      /\ \A r \in DOMAIN dmaSpace : r # p => dmaSpace'[r] = dmaSpace[r]
  BY DEF DmaMapNew, Assigned
<1>5. p \in Addresses
  BY DmaMapAssumption DEF TypeOK
<1>6. UNCHANGED <<memory, dmaMapAll>> /\ cut' = cut \ {p}
  BY DEF DmaMapNew
<1>7. TypeOK'
  <2>1. e \in Entry
    BY <1>5, DmaMapAssumption DEF Entry
  <2>2. held'[b] \in Hold
    BY <1>1, <1>5 DEF Hold
  <2>3. /\ \A h \in DOMAIN dsOffsMap' : dsOffsMap'[h] \in Entry
        /\ \A c \in DOMAIN held' : held'[c] \in Hold
    BY <1>1, <1>2, <2>1, <2>2 DEF TypeOK
  <2>4. /\ \A r \in DOMAIN physMap' : physMap'[r] \in Regions
        /\ \A r \in DOMAIN dmaSpace' : dmaSpace'[r] \in Lengths
    BY <1>3, <1>4 DEF TypeOK
  <2> QED
    BY <1>1, <1>2, <1>3, <1>4, <1>5, <1>6, <2>3, <2>4 DEF TypeOK
<1>8. Back'
  BY <1>2, <1>3 DEF Back, Cached
<1>9. /\ Singles' = Singles \cup {b}
      /\ \A h : Cardinality(Holders(h)') =
                  Cardinality(Holders(h)) + IF h = g THEN 1 ELSE 0
  <2>1. b \in Blocks \ DOMAIN held /\ ~dmaMapAll[u] /\ Holds(b, u, g, p, n, FALSE)
    BY DEF DmaMapNew
  <2> QED
    BY <1>6, <2>1, HoldersGrow, ZenonT(30)
<1>10. ASSUME Distinct PROVE CacheInv'
  <2> USE <1>10 DEF CacheInv
  <2>1. p \notin DOMAIN physMap
    <3>1. SUFFICES ASSUME p \in DOMAIN physMap PROVE FALSE
      OBVIOUS
    <3>2. physMap[p] \in DOMAIN dsOffsMap /\ memory[physMap[p]] = p
      BY <3>1 DEF Back, Forth, Cached
    <3>3. physMap[p] = g
      BY <3>2, DmaMapAssumption DEF Distinct, IsInjective, TypeOK
    <3> QED
      BY <1>2, <3>2, <3>3
  <2>2. Forth'
    BY <1>2, <1>3, <1>6, <2>1 DEF Forth
  <2>3. Answers'
    <3>1. \A c \in DOMAIN held' : held'[c].phys = memory'[held'[c].region]
      BY <1>1, <1>6 DEF Answers
    <3>2. \A c \in Singles' : Cached(held[c].region)' /\ ~held'[c].warned =>
            held'[c].num_sectors = dsOffsMap'[held'[c].region].num_sectors
      BY <1>1, <1>2, <1>9, HeldIsCached DEF Answers, Cached, Singles
    <3> QED
      BY <3>1, <3>2 DEF Answers
  <2>4. Space'
    BY <1>2, <1>3, <1>4, <1>6, <2>1 DEF Space, Back, Cached
  <2>5. RefcntIsHolders'
    BY <1>2, <1>9, HoldersFinite DEF RefcntIsHolders, Cached
  <2> QED
    BY <2>2, <2>3, <2>4, <2>5
<1>11. Distinct' = Distinct
  BY <1>6 DEF Distinct
<1> QED
  BY <1>7, <1>8, <1>10, <1>11

\* What the DMA space maps too short is not in the cache.
LEMMA MapCutKeepsInv ==
  ASSUME DmaInv, NEW u \in Users, NEW g \in Regions, NEW n \in Lengths,
         DmaMapCut(u, g, n)
  PROVE  DmaInv'
<1> USE DEF DmaInv
<1> DEFINE p == memory[g]
<1>1. /\ DOMAIN dmaSpace' = DOMAIN dmaSpace \cup {p}
      /\ dmaSpace'[p] \in Lengths
      /\ \A r \in DOMAIN dmaSpace : r # p => dmaSpace'[r] = dmaSpace[r]
  BY DEF DmaMapCut, Assigned
<1>2. p \in Addresses
  BY DmaMapAssumption DEF TypeOK
<1>3. /\ UNCHANGED <<memory, dmaMapAll, dsOffsMap, physMap, held>>
      /\ cut' = cut \cup {p}
      /\ g \notin DOMAIN dsOffsMap
  BY DEF DmaMapCut, Cached
<1>4. TypeOK'
  BY <1>1, <1>2, <1>3 DEF TypeOK
<1>5. Back'
  BY <1>3 DEF Back, Cached
<1>6. ASSUME Distinct PROVE CacheInv'
  <2> USE <1>6 DEF CacheInv
  <2>1. p \notin DOMAIN physMap
    <3>1. SUFFICES ASSUME p \in DOMAIN physMap PROVE FALSE
      OBVIOUS
    <3>2. physMap[p] \in DOMAIN dsOffsMap /\ memory[physMap[p]] = p
      BY <3>1 DEF Back, Forth, Cached
    <3>3. physMap[p] = g
      BY <3>2, DmaMapAssumption DEF Distinct, IsInjective, TypeOK
    <3> QED
      BY <1>3, <3>2, <3>3
  <2>2. Space'
    BY <1>1, <1>3, <2>1 DEF Space
  <2>3. \A h : Holders(h)' = Holders(h)
    BY <1>3 DEF Holders, Singles
  <2> QED
    BY <1>3, <2>2, <2>3 DEF Forth, Answers, RefcntIsHolders, Cached, Singles
<1> QED
  BY <1>3, <1>4, <1>5, <1>6 DEF Distinct

-----------------------------------------------------------------------------
\* Without shared memory dma_unmap_single() finds the region that was mapped.
LEMMA UnmapFinds ==
  ASSUME DmaInv, Distinct, NEW b \in Singles
  PROVE  /\ Found(held[b].phys)
         /\ physMap[held[b].phys] = held[b].region
<1>1. held[b].phys = memory[held[b].region]
  BY DEF DmaInv, CacheInv, Answers, Singles
<1>2. Cached(held[b].region)
  BY HeldIsCached DEF DmaInv, CacheInv
<1> QED
  BY <1>1, <1>2 DEF DmaInv, CacheInv, Forth, Found, Cached

LEMMA ReleasesHeld ==
  ASSUME TypeOK, NEW b \in DOMAIN held, Releases(b)
  PROVE  /\ DOMAIN held' = DOMAIN held \ {b}
         /\ \A c \in DOMAIN held' : held'[c] = held[c] /\ held'[c] \in Hold
  BY DEF Releases, Erased, Restrict, TypeOK

LEMMA UnmapAllKeepsInv ==
  ASSUME DmaInv, NEW b \in Blocks, DmaUnmapAll(b)
  PROVE  DmaInv'
<1> USE DEF DmaInv
<1>1. /\ DOMAIN held' = DOMAIN held \ {b}
      /\ \A c \in DOMAIN held' : held'[c] = held[c] /\ held'[c] \in Hold
  BY ReleasesHeld DEF DmaUnmapAll
<1>2. UNCHANGED <<memory, dmaMapAll, dsOffsMap, physMap, dmaSpace, cut>>
  BY DEF DmaUnmapAll
<1>3. Singles' = Singles /\ \A h : Holders(h)' = Holders(h)
  BY <1>1, <1>2 DEF DmaUnmapAll, Holders, Singles
<1>4. TypeOK' /\ Back'
  BY <1>1, <1>2 DEF TypeOK, Back, Cached
<1>5. Distinct => CacheInv'
  BY <1>1, <1>2, <1>3
  DEF Distinct, CacheInv, Forth, Answers, Space, RefcntIsHolders, Cached, Singles
<1> QED
  BY <1>2, <1>4, <1>5 DEF Distinct

LEMMA UnmapUnknownKeepsInv ==
  ASSUME DmaInv, NEW b \in Blocks, DmaUnmapUnknown(b)
  PROVE  DmaInv'
<1>1. /\ DOMAIN held' = DOMAIN held \ {b}
      /\ \A c \in DOMAIN held' : held'[c] = held[c] /\ held'[c] \in Hold
  BY ReleasesHeld DEF DmaInv, DmaUnmapUnknown
<1>2. UNCHANGED <<memory, dmaMapAll, dsOffsMap, physMap, dmaSpace, cut>>
  BY DEF DmaUnmapUnknown
<1>3. TypeOK' /\ Back'
  BY <1>1, <1>2 DEF DmaInv, TypeOK, Back, Cached
<1>4. ~Distinct
  BY UnmapFinds DEF DmaUnmapUnknown, Singles
<1> QED
  BY <1>2, <1>3, <1>4 DEF DmaInv, Distinct

\* The parts of the invariant that are about the blocks, when b is unmapped and
\* the entries of the regions of all others keep their length.
LEMMA ReleaseKeepsAnswers ==
  ASSUME DmaInv, Distinct, NEW b \in Singles, Releases(b),
         UNCHANGED <<memory, dmaMapAll>>,
         \A g \in DOMAIN dsOffsMap' :
           /\ g \in DOMAIN dsOffsMap
           /\ dsOffsMap'[g].num_sectors = dsOffsMap[g].num_sectors
  PROVE  Answers'
<1>1. /\ DOMAIN held' = DOMAIN held \ {b}
      /\ \A c \in DOMAIN held' : held'[c] = held[c]
  BY ReleasesHeld DEF DmaInv, Singles
<1>2. Singles' = Singles \ {b}
  BY HoldersShrink DEF DmaInv
<1> QED
  BY <1>1, <1>2 DEF DmaInv, CacheInv, Answers, Cached, Singles

LEMMA UnmapSharedKeepsInv ==
  ASSUME DmaInv, NEW b \in Blocks, DmaUnmapShared(b)
  PROVE  DmaInv'
<1> USE DEF DmaInv
<1> DEFINE g == physMap[held[b].phys]
<1>1. b \in Singles /\ Releases(b) /\ Found(held[b].phys)
  BY DEF DmaUnmapShared, Singles
<1>2. /\ DOMAIN held' = DOMAIN held \ {b}
      /\ \A c \in DOMAIN held' : held'[c] = held[c] /\ held'[c] \in Hold
  BY <1>1, ReleasesHeld DEF Singles
<1>3. UNCHANGED <<memory, dmaMapAll, physMap, dmaSpace, cut>>
  BY DEF DmaUnmapShared
<1>4. g \in DOMAIN dsOffsMap /\ dsOffsMap[g] \in Entry
  BY <1>1 DEF Found, TypeOK
<1>5. /\ DOMAIN dsOffsMap' = DOMAIN dsOffsMap
      /\ dsOffsMap'[g] = [dsOffsMap[g] EXCEPT !.refcnt = @ - 1]
      /\ \A h \in DOMAIN dsOffsMap : h # g => dsOffsMap'[h] = dsOffsMap[h]
      /\ dsOffsMap[g].refcnt > 1
  BY <1>4 DEF DmaUnmapShared, Shared
<1>6. dsOffsMap'[g] \in Entry /\ dsOffsMap'[g].refcnt = dsOffsMap[g].refcnt - 1
  BY <1>4, <1>5, DmaMapAssumption DEF Entry
<1>7. \A h \in DOMAIN dsOffsMap :
        /\ dsOffsMap'[h].phys = dsOffsMap[h].phys
        /\ dsOffsMap'[h].num_sectors = dsOffsMap[h].num_sectors
  BY <1>4, <1>5 DEF Entry
<1>8. TypeOK'
  BY <1>2, <1>3, <1>5, <1>6 DEF TypeOK
<1>9. Back'
  BY <1>3, <1>5, <1>7 DEF Back, Cached
<1>10. ASSUME Distinct PROVE CacheInv'
  <2> USE <1>10
  <2>1. g = held[b].region /\ g \in Regions
    BY <1>1, <1>4, UnmapFinds DEF TypeOK
  <2>2. Answers'
    BY <1>1, <1>3, <1>5, <1>7, ReleaseKeepsAnswers
  <2>3. Forth' /\ Space'
    BY <1>3, <1>5, <1>7 DEF CacheInv, Forth, Space, Back, Cached
  <2>4. \A h : Cardinality(Holders(h)') =
                Cardinality(Holders(h)) - IF h = g THEN 1 ELSE 0
    BY <1>1, <1>3, <2>1, HoldersShrink
  <2>5. RefcntIsHolders'
    BY <1>4, <1>5, <1>6, <2>1, <2>4, HoldersFinite
    DEF CacheInv, RefcntIsHolders, Cached, Entry
  <2> QED
    BY <2>2, <2>3, <2>5 DEF CacheInv
<1> QED
  BY <1>3, <1>8, <1>9, <1>10 DEF Distinct

\* The last block of a region takes entry, address and mapping with it.
LEMMA UnmapLastKeepsInv ==
  ASSUME DmaInv, NEW b \in Blocks, DmaUnmapLast(b)
  PROVE  DmaInv'
<1> USE DEF DmaInv
<1> DEFINE p == held[b].phys
           g == physMap[p]
<1>1. b \in Singles /\ Releases(b) /\ Found(p)
  BY DEF DmaUnmapLast, Singles
<1>2. /\ DOMAIN held' = DOMAIN held \ {b}
      /\ \A c \in DOMAIN held' : held'[c] = held[c] /\ held'[c] \in Hold
  BY <1>1, ReleasesHeld DEF Singles
<1>3. UNCHANGED <<memory, dmaMapAll, cut>>
  BY DEF DmaUnmapLast
<1>4. g \in DOMAIN dsOffsMap /\ dsOffsMap[g] \in Entry /\ dsOffsMap[g].refcnt <= 1
  BY <1>1 DEF DmaUnmapLast, Found, Shared, TypeOK, Entry
<1>5. /\ DOMAIN dsOffsMap' = DOMAIN dsOffsMap \ {g}
      /\ \A h \in DOMAIN dsOffsMap' : dsOffsMap'[h] = dsOffsMap[h]
  BY DEF DmaUnmapLast, Forgotten, Erased, Restrict
<1>6. /\ DOMAIN physMap' = DOMAIN physMap \ {p}
      /\ \A r \in DOMAIN physMap' : physMap'[r] = physMap[r]
  BY DEF DmaUnmapLast, Forgotten, Erased, Restrict
<1>7. /\ DOMAIN dmaSpace' = DOMAIN dmaSpace \ {p}
      /\ \A r \in DOMAIN dmaSpace' : dmaSpace'[r] = dmaSpace[r]
  BY DEF DmaUnmapLast, Erased, Restrict
<1>8. TypeOK'
  BY <1>2, <1>3, <1>5, <1>6, <1>7 DEF TypeOK
<1>9. \A r \in DOMAIN physMap' : physMap'[r] # g
  BY <1>1, <1>6 DEF Back, Found
<1>10. Back'
  BY <1>5, <1>6, <1>9 DEF Back, Cached
<1>11. ASSUME Distinct PROVE CacheInv'
  <2> USE <1>11
  <2>1. g = held[b].region /\ g \in Regions
    BY <1>1, <1>4, UnmapFinds DEF TypeOK
  <2>2. Answers'
    BY <1>1, <1>3, <1>5, ReleaseKeepsAnswers
  <2>3. \A h \in DOMAIN dsOffsMap' : memory[h] # p
    BY <1>5 DEF CacheInv, Forth
  <2>4. Forth'
    BY <1>3, <1>5, <1>6, <2>3 DEF CacheInv, Forth
  <2>5. Space'
    BY <1>3, <1>5, <1>6, <1>7, <1>9 DEF CacheInv, Space, Back, Cached
  <2>6. \A h : Cardinality(Holders(h)') =
                Cardinality(Holders(h)) - IF h = g THEN 1 ELSE 0
    BY <1>1, <1>3, <2>1, HoldersShrink
  <2>7. dsOffsMap[g].refcnt = 1
    BY <1>4, DmaMapAssumption DEF Entry
  <2>8. RefcntIsHolders'
    BY <1>4, <1>5, <2>1, <2>6, <2>7, HoldersFinite
    DEF CacheInv, RefcntIsHolders, Cached
  <2> QED
    BY <2>2, <2>4, <2>5, <2>8 DEF CacheInv
<1> QED
  BY <1>3, <1>8, <1>10, <1>11 DEF Distinct

\* The mode of a block device changes only while it has no block mapped.
LEMMA SetModeKeepsInv ==
  ASSUME DmaInv, NEW u \in Users, SetDmaMapAll(u)
  PROVE  DmaInv'
<1> USE DEF DmaInv
<1>1. UNCHANGED <<memory, dsOffsMap, physMap, dmaSpace, held, cut>>
  BY DEF SetDmaMapAll
<1>2. \A b \in DOMAIN held : dmaMapAll'[held[b].user] = dmaMapAll[held[b].user]
  BY DEF SetDmaMapAll, TypeOK, Hold
<1>3. Singles' = Singles /\ \A h : Holders(h)' = Holders(h)
  BY <1>1, <1>2 DEF Holders, Singles
<1>4. TypeOK'
  BY <1>1 DEF SetDmaMapAll, TypeOK
<1>5. Back'
  BY <1>1 DEF Back, Cached
<1>6. Distinct => CacheInv'
  BY <1>1, <1>3 DEF Distinct, CacheInv, Forth, Answers, Space, RefcntIsHolders, Cached
<1> QED
  BY <1>1, <1>4, <1>5, <1>6 DEF Distinct

LEMMA StutterKeepsInv ==
  ASSUME DmaInv, UNCHANGED vars
  PROVE  DmaInv'
<1>1. Singles' = Singles /\ \A h : Holders(h)' = Holders(h)
  BY DEF vars, Holders, Singles
<1> QED
  BY <1>1 DEF vars, DmaInv, TypeOK, Back, Distinct, CacheInv, Forth, Answers, Space,
              RefcntIsHolders, Cached

LEMMA StepInv == DmaInv /\ [Next]_vars => DmaInv'
<1> SUFFICES ASSUME DmaInv, [Next]_vars PROVE DmaInv'
  OBVIOUS
<1>1. CASE Map
  BY <1>1, MapAllKeepsInv, MapCachedKeepsInv, MapNewKeepsInv DEF Map
<1>2. CASE Unmap
  BY <1>2, UnmapAllKeepsInv, UnmapUnknownKeepsInv, UnmapSharedKeepsInv,
     UnmapLastKeepsInv DEF Unmap
<1>3. CASE \E u \in Users, g \in Regions, n \in Lengths : DmaMapCut(u, g, n)
  BY <1>3, MapCutKeepsInv
<1>4. CASE \E u \in Users : SetDmaMapAll(u)
  BY <1>4, SetModeKeepsInv
<1>5. CASE UNCHANGED vars
  BY <1>5, StutterKeepsInv
<1> QED
  BY <1>1, <1>2, <1>3, <1>4, <1>5 DEF Next

\* No client leaves DmaInv.
THEOREM DmaInvariant == Spec => []DmaInv
  BY InitInv, StepInv, PTL DEF Spec

-----------------------------------------------------------------------------
\* Type correctness of the mapping cache.
THEOREM TypeCorrect == Spec => []TypeOK
  BY DmaInvariant, PTL DEF DmaInv

\* The two maps of the work-around lead to each other.
THEOREM MapsAlwaysMirror == Spec => []MapsMirror
<1>1. DmaInv => MapsMirror
  BY DEF DmaInv, CacheInv, Back, Forth, MapsMirror
<1> QED
  BY <1>1, DmaInvariant, PTL

\* The reference count of a region is the number of blocks that use it.
THEOREM RefcntCounts == Spec => []RefcntIsHolders
<1>1. DmaInv => RefcntIsHolders
  BY DEF DmaInv, CacheInv, RefcntIsHolders
<1> QED
  BY <1>1, DmaInvariant, PTL

\* The memory of a request that was mapped stays mapped until it is unmapped.
THEOREM HeldStaysMapped == Spec => []HeldIsMapped
<1>1. DmaInv => HeldIsMapped
  <2> SUFFICES ASSUME DmaInv, Distinct, NEW b \in Singles
               PROVE  /\ held[b].phys \in DOMAIN dmaSpace
                      /\ dmaSpace[held[b].phys] < held[b].num_sectors
                           => held[b].warned
    BY DEF HeldIsMapped
  <2>1. held[b].phys \in DOMAIN physMap /\ physMap[held[b].phys] = held[b].region
    BY UnmapFinds DEF Found
  <2>2. /\ held[b].phys \in DOMAIN dmaSpace
        /\ dmaSpace[held[b].phys] = dsOffsMap[held[b].region].num_sectors
    BY <2>1 DEF DmaInv, CacheInv, Space
  <2>3. ~held[b].warned =>
          held[b].num_sectors = dsOffsMap[held[b].region].num_sectors
    BY HeldIsCached DEF DmaInv, CacheInv, Answers
  <2>4. dmaSpace[held[b].phys] \in Nat
    BY <2>2, DmaMapAssumption DEF DmaInv, TypeOK
  <2> QED
    BY <2>2, <2>3, <2>4
<1> QED
  BY <1>1, DmaInvariant, PTL

\* Nothing stays mapped after its last block.
THEOREM NothingStaysMapped == Spec => []OnlyHeldStaysMapped
<1>1. DmaInv => OnlyHeldStaysMapped
  <2> SUFFICES ASSUME DmaInv, Distinct, NEW p \in DOMAIN dmaSpace \ cut
               PROVE  \E b \in Singles : held[b].phys = p
    BY DEF OnlyHeldStaysMapped
  <2>1. /\ p \in DOMAIN physMap /\ physMap[p] \in DOMAIN dsOffsMap
        /\ dsOffsMap[physMap[p]].phys = p
    BY DEF DmaInv, CacheInv, Space, Back, Cached
  <2>2. physMap[p] \in Regions /\ memory[physMap[p]] = p
    BY <2>1 DEF DmaInv, CacheInv, Forth, TypeOK
  <2>3. Cardinality(Holders(physMap[p])) # 0
    BY <2>1, <2>2, DmaMapAssumption
    DEF DmaInv, CacheInv, RefcntIsHolders, Cached, TypeOK, Entry
  <2>4. PICK b \in Holders(physMap[p]) : TRUE
    BY <2>3, FS_EmptySet
  <2> QED
    BY <2>2, <2>4 DEF Holders, Singles, DmaInv, CacheInv, Answers
<1> QED
  BY <1>1, DmaInvariant, PTL
=============================================================================
