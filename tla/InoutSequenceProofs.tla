------------------------- MODULE InoutSequenceProofs -------------------------
(***************************************************************************)
(* Proofs about InoutSequence, for block lists of any length.  How far a   *)
(* request has come on the side of Device, of the card and of the medium   *)
(* is one inductive invariant, SequenceInv, and the safety properties      *)
(* about its commands follow.  Which memory the controller is given        *)
(* follows from what the parts of a FlattenSeq are: the descriptors of     *)
(* each block (TableFacts), and the addresses of each descriptor           *)
(* (WalkedFacts).  What the memory then holds follows from where in them   *)
(* each sector is (WalkedAt, StepAt), as no address is there twice: the    *)
(* second inductive invariant, DataInv.                                    *)
(***************************************************************************)
EXTENDS InoutSequence, WellFoundedInduction, SequenceTheorems, TLAPS

-----------------------------------------------------------------------------
(* The invariant.  r is a request, t the traits of the device, d its Cmd,  *)
(* n the number of sectors moved and m the count the card was told.        *)

RequestLists == {r \in Seq(Nat) : r # <<>> /\ r[1] > 0}
Cmds ==
  [status : Status, status12 : Status, cmd : MmcCommands, arg : Nat, nblk : Nat,
   hasData : BOOLEAN, auto23 : BOOLEAN, cmd12 : BOOLEAN, inout : BOOLEAN,
   read : BOOLEAN, sector : Nat, done : Nat, blocks : Seq(Nat), cb : {0}]

\* What a command ends with.
EndStatus == {"Success"} \cup ErrorStatus

\* The blocks d is at: all of them with ADMA2; with SDMA those from some used block
\* on, and the blocks before that are done.
RestOf(r, j) == SubSeq(r, j, Len(r))
AtBlock(r, d, j) ==
  /\ d.blocks = RestOf(r, j) /\ r[j] > 0
  /\ d.done = SectorSums(r)[j - 1]
Progress(t, r, d) ==
  /\ d.sector = FirstSector + d.done
  /\ t.adma2 => d.blocks = r /\ d.done = 0
  /\ ~t.adma2 => \E j \in DOMAIN r : AtBlock(r, d, j)

\* The sectors of the data command that is due.
Share(t, r, d) == IF t.adma2 THEN NumSectors(r) ELSE Head(d.blocks)

AtCmd23(t, r, d, n, m) ==
  /\ d.cmd = "CMD23" /\ ~d.hasData /\ ~d.cmd12
  /\ t.hasCmd23 /\ m = -1 /\ n = d.done
  /\ d.arg = Share(t, r, d) % CountMod
  /\ t.adma2 => d.nblk = Share(t, r, d) /\ ~t.autoCmd23
  /\ ~t.adma2 => Share(t, r, d) # 1

\* The count is announced, or given with the command, or CMD12 is due.
AtData(t, r, d, n, m) ==
  /\ d.hasData /\ d.nblk = Share(t, r, d) /\ d.arg = d.sector /\ n = d.done
  /\ \/ d.cmd = ReadWriteSingle(d) /\ ~d.cmd12 /\ m = -1
     \/ /\ d.cmd = ReadWriteMultiple(d)
        /\ t.hasCmd23 => ~d.cmd12 /\ m = IF d.auto23 THEN -1 ELSE d.nblk % CountMod
        /\ ~t.hasCmd23 => d.cmd12 /\ ~d.auto23 /\ m = -1

AtStop(t, r, d, n, m) ==
  /\ d.cmd \in StopTransmission /\ ~d.hasData /\ ~d.cmd12 /\ m = -1
  /\ d.status12 \in EndStatus
  /\ n = d.done + IF d.status12 = "Success" THEN Share(t, r, d) ELSE 0

\* The command d is on its way.
Issued(t, r, d, n, m) ==
  /\ Progress(t, r, d)
  /\ AtCmd23(t, r, d, n, m) \/ AtData(t, r, d, n, m) \/ AtStop(t, r, d, n, m)

\* The request has been answered with a, after n sectors.
Answered(t, r, a, n) ==
  /\ a.reply = "ok" => n = NumSectors(r)
  /\ ~t.adma2 => a.sectors <= n /\ (a.reply = "ok" => a.sectors = n)

\* The count of a command that was given up stays with the card.
CountLeft ==
  count # -1 =>
    /\ c.cmd \in MultipleBlock /\ ~c.auto23
    /\ c.nblk = count \/ MaxBlocks < c.nblk

SequenceInv ==
  /\ k \in Traits /\ request \in RequestLists /\ c \in Cmds
  /\ moved = Sectors(Len(moved)) /\ Len(moved) \in 0 .. NumSectors(request)
  /\ Pending => Issued(k, request, c, Len(moved), count)
  /\ ~Pending => Answered(k, request, answer, Len(moved)) /\ CountLeft
  /\ streaming => Pending /\ c.cmd \in StopTransmission

-----------------------------------------------------------------------------
(* The sums of a block list.  They are proved by minimal counterexample, as *)
(* the induction theorems take operators.                                  *)

LEMMA LeastNat ==
  ASSUME NEW S, S # {}, S \subseteq Nat
  PROVE  \E m \in S : \A x \in S : m <= x
<1> DEFINE Less == {p \in Nat \X Nat : p[1] < p[2]}
<1>1. IsWellFoundedOn(Less, Nat)
  BY NatLessThanWellFounded DEF OpToRel
<1> HIDE DEF Less
<1>2. PICK m \in S : \A x \in S : ~(<<x, m>> \in Less)
  BY <1>1, WFMin
<1>3. ASSUME NEW x \in S PROVE m <= x
  <2>1. <<x, m>> \in Nat \X Nat /\ ~(<<x, m>> \in Less)
    BY <1>2
  <2>2. ~(x < m)
    BY <2>1 DEF Less
  <2> QED
    BY <2>2
<1> QED
  BY <1>3

IsSums(f, r, n) ==
  /\ f \in [0 .. n -> Nat] /\ f[0] = 0
  /\ \A i \in 1 .. n : f[i] = f[i - 1] + r[i]

LEMMA SumsExist ==
  ASSUME NEW r \in Seq(Nat)
  PROVE  \A n \in 0 .. Len(r) : \E f : IsSums(f, r, n)
<1> DEFINE S == {n \in 0 .. Len(r) : ~\E f : IsSums(f, r, n)}
<1> SUFFICES ASSUME S # {} PROVE FALSE
  OBVIOUS
<1>1. PICK m \in S : \A x \in S : m <= x
  <2>1. S \subseteq Nat
    OBVIOUS
  <2> HIDE DEF S
  <2> QED
    BY <2>1, LeastNat
<1>2. CASE m = 0
  <2>1. IsSums([i \in 0 .. 0 |-> 0], r, 0)
    BY DEF IsSums
  <2> QED
    BY <1>2, <2>1
<1>3. CASE m # 0
  <2>1. m - 1 \in 0 .. Len(r) /\ m - 1 \notin S /\ m \in 1 .. Len(r)
    BY <1>1, <1>3
  <2>2. PICK f : IsSums(f, r, m - 1)
    BY <2>1
  <2> DEFINE g == [i \in 0 .. m |-> IF i = m THEN f[m - 1] + r[m] ELSE f[i]]
  <2>3. r[m] \in Nat /\ f[m - 1] \in Nat
    BY <2>1, <2>2 DEF IsSums
  <2>4. g \in [0 .. m -> Nat] /\ g[0] = 0
    BY <2>1, <2>2, <2>3, SMTT(30) DEF IsSums
  <2>5. ASSUME NEW i \in 1 .. m PROVE g[i] = g[i - 1] + r[i]
    <3>1. CASE i = m
      BY <2>1, <3>1
    <3>2. CASE i # m
      BY <2>1, <2>2, <3>2 DEF IsSums
    <3> QED
      BY <3>1, <3>2
  <2>6. IsSums(g, r, m)
    BY <2>4, <2>5 DEF IsSums
  <2> QED
    BY <2>6
<1> QED
  BY <1>2, <1>3

LEMMA SumsAreSums ==
  ASSUME NEW r \in Seq(Nat)
  PROVE  IsSums(SectorSums(r), r, Len(r))
<1>1. PICK f : IsSums(f, r, Len(r))
  BY SumsExist
<1> DEFINE Body(g) == [i \in 0 .. Len(r) |-> IF i = 0 THEN 0 ELSE g[i - 1] + r[i]]
<1>2. f = Body(f)
  BY <1>1 DEF IsSums
<1>3. SectorSums(r) = CHOOSE g : g = Body(g)
  BY Zenon DEF SectorSums
<1>4. SectorSums(r) = Body(SectorSums(r))
  BY <1>2, <1>3
<1> DEFINE s == SectorSums(r)
<1> HIDE DEF s
<1>5. s = Body(s)
  BY <1>4 DEF s
<1>6. DOMAIN s = 0 .. Len(r) /\ s[0] = 0
  BY <1>5
<1>7. \A i \in 1 .. Len(r) : s[i] = s[i - 1] + r[i]
  BY <1>5
<1>8. \A i \in 0 .. Len(r) : s[i] = f[i]
  <2> DEFINE S == {i \in 0 .. Len(r) : s[i] # f[i]}
  <2> SUFFICES ASSUME S # {} PROVE FALSE
    OBVIOUS
  <2>1. PICK m \in S : \A x \in S : m <= x
    <3>1. S \subseteq Nat
      OBVIOUS
    <3> HIDE DEF S
    <3> QED
      BY <3>1, LeastNat
  <2>2. m # 0
    BY <1>1, <1>6 DEF IsSums
  <2>3. m \in 1 .. Len(r) /\ m - 1 \in 0 .. Len(r) /\ m - 1 \notin S
    BY <2>1, <2>2
  <2> QED
    BY <1>1, <1>7, <2>1, <2>3 DEF IsSums
<1>9. s = f
  BY <1>1, <1>5, <1>8 DEF IsSums
<1> QED
  BY <1>1, <1>9 DEF s

\* The sum grows with the number of blocks, and only by used ones.
LEMMA SumsGrow ==
  ASSUME NEW r \in Seq(Nat), NEW i \in 0 .. Len(r), NEW j \in i .. Len(r)
  PROVE  /\ SectorSums(r)[i] <= SectorSums(r)[j]
         /\ (\A x \in i + 1 .. j : r[x] = 0) => SectorSums(r)[i] = SectorSums(r)[j]
<1> DEFINE s == SectorSums(r)
           Grown(x) == /\ s[i] <= s[x]
                       /\ (\A y \in i + 1 .. x : r[y] = 0) => s[i] = s[x]
           S == {x \in i .. Len(r) : ~Grown(x)}
<1>1. s \in [0 .. Len(r) -> Nat] /\ \A x \in 1 .. Len(r) : s[x] = s[x - 1] + r[x]
  BY SumsAreSums DEF IsSums
<1> HIDE DEF s
<1> SUFFICES ASSUME S # {} PROVE FALSE
  BY DEF s
<1>2. PICK m \in S : \A x \in S : m <= x
  <2>1. S \subseteq Nat
    OBVIOUS
  <2> HIDE DEF S
  <2> QED
    BY <2>1, LeastNat
<1>3. m # i
  <2>1. s[i] \in Nat
    BY <1>1
  <2>2. Grown(i)
    BY <2>1
  <2> HIDE DEF Grown
  <2> QED
    BY <1>2, <2>2
<1>4. m - 1 \in i .. Len(r) /\ m \in 1 .. Len(r) /\ m - 1 \notin S
  BY <1>2, <1>3
<1>5. s[m] = s[m - 1] + r[m] /\ r[m] \in Nat /\ s[m - 1] \in Nat /\ s[i] \in Nat
  <2> HIDE DEF S, Grown
  <2>1. r[m] \in Nat
    BY <1>4
  <2>2. s[m] = s[m - 1] + r[m]
    BY <1>1, <1>4
  <2>3. m - 1 \in 0 .. Len(r) /\ i \in 0 .. Len(r)
    BY <1>4
  <2>4. s[m - 1] \in Nat /\ s[i] \in Nat
    BY <1>1, <2>3
  <2> QED
    BY <2>1, <2>2, <2>4
<1>8. Grown(m - 1)
  <2> HIDE DEF Grown
  <2> QED
    BY <1>4
<1>6. s[i] <= s[m]
  BY <1>5, <1>8, SMTT(30)
<1>7. ASSUME \A y \in i + 1 .. m : r[y] = 0 PROVE s[i] = s[m]
  <2>1. r[m] = 0 /\ \A y \in i + 1 .. m - 1 : r[y] = 0
    BY <1>3, <1>7
  <2> QED
    BY <1>5, <1>8, <2>1
<1> QED
  BY <1>2, <1>6, <1>7

LEMMA NumSectorsType ==
  ASSUME NEW r \in Seq(Nat)
  PROVE  NumSectors(r) \in Nat /\ NumSectors(r) = SectorSums(r)[Len(r)]
  BY SumsAreSums DEF NumSectors, IsSums

-----------------------------------------------------------------------------
(* The blocks of a request.                                                *)

LEMMA RestFacts ==
  ASSUME NEW r \in Seq(Nat), NEW j \in DOMAIN r
  PROVE  /\ RestOf(r, j) \in Seq(Nat) /\ RestOf(r, j) # <<>>
         /\ Head(RestOf(r, j)) = r[j] /\ r[j] \in Nat
         /\ Tail(RestOf(r, j)) = RestOf(r, j + 1)
         /\ Len(RestOf(r, j + 1)) = Len(r) - j
         /\ \A i \in 1 .. Len(r) - j : RestOf(r, j + 1)[i] = r[i + j]
         /\ RestOf(r, j + 1) \in Seq(Nat)
<1>1. j \in 1 .. Len(r) /\ Len(r) \in j .. Len(r) /\ Len(r) \in Nat
  OBVIOUS
<1>2. Head(RestOf(r, j)) = r[j] /\ Tail(RestOf(r, j)) = RestOf(r, j + 1)
  BY <1>1, HeadTailOfSubSeq DEF RestOf
<1>3. \A i \in j .. Len(r) : r[i] \in Nat
  BY <1>1
<1>4. RestOf(r, j) \in Seq(Nat) /\ Len(RestOf(r, j)) = Len(r) - j + 1
  BY <1>1, <1>3, SubSeqProperties DEF RestOf
<1>5. RestOf(r, j) # <<>>
  BY <1>1, <1>4
<1>6. /\ RestOf(r, j + 1) \in Seq(Nat)
      /\ Len(RestOf(r, j + 1)) = IF j + 1 <= Len(r) THEN Len(r) - (j + 1) + 1 ELSE 0
      /\ \A i \in 1 .. Len(r) - (j + 1) + 1 : RestOf(r, j + 1)[i] = r[(j + 1) + i - 1]
  <2>1. j + 1 \in Int /\ Len(r) \in Int /\ \A i \in j + 1 .. Len(r) : r[i] \in Nat
    BY <1>1, <1>3
  <2> QED
    BY <2>1, SubSeqProperties, SMTT(30) DEF RestOf
<1>7. Len(RestOf(r, j + 1)) = Len(r) - j
  BY <1>1, <1>6, SMTT(30)
<1>8. ASSUME NEW i \in 1 .. Len(r) - j PROVE RestOf(r, j + 1)[i] = r[i + j]
  <2>1. i \in 1 .. Len(r) - (j + 1) + 1 /\ (j + 1) + i - 1 = i + j
    BY <1>1
  <2> QED
    BY <1>6, <2>1
<1>9. r[j] \in Nat
  BY <1>1, <1>3
<1> QED
  BY <1>2, <1>4, <1>5, <1>6, <1>7, <1>8, <1>9, Zenon

LEMMA RestOfRest ==
  ASSUME NEW r \in Seq(Nat), NEW a \in 1 .. Len(r), NEW f \in 1 .. Len(RestOf(r, a)),
         Len(RestOf(r, a)) = Len(r) - a + 1
  PROVE  SubSeq(RestOf(r, a), f, Len(RestOf(r, a))) = RestOf(r, (a + f) - 1)
<1> DEFINE n == Len(r)
           l == Len(RestOf(r, a))
<1>1. n \in 1 .. Len(r) /\ f \in 1 .. n - a + 1 /\ l \in 1 .. n - a + 1 /\ a + l - 1 = n
  OBVIOUS
<1> HIDE DEF n, l
<1>2. SubSeq(SubSeq(r, a, n), f, l) = SubSeq(r, a + f - 1, a + l - 1)
  BY <1>1, SubSeqOfSubSeq
<1> QED
  BY <1>1, <1>2 DEF RestOf, n, l

LEMMA Behind ==
  ASSUME NEW n \in Nat, NEW j \in 1 .. n, NEW f \in 1 .. n - j
  PROVE  j + 1 \in 1 .. n /\ n - j = n - (j + 1) + 1 /\ ((j + 1) + f) - 1 = f + j
  OBVIOUS

LEMMA BehindIndex ==
  ASSUME NEW n \in Nat, NEW j \in 1 .. n, NEW f \in 1 .. n - j,
         NEW x \in j + 1 .. (f + j) - 1
  PROVE  x - j \in 1 .. n - j /\ x - j < f /\ (x - j) + j = x
  OBVIOUS

\* Between a block and the f-th one behind it no block is used.
NoneBetween(r, j, f) == \A x \in 1 .. Len(r) - j : x < f => r[x + j] = 0

\* The first used block behind a block: what lies between them has no sectors.
LEMMA FirstUsedBlock ==
  ASSUME NEW r \in Seq(Nat), NEW j \in DOMAIN r, NEW f \in 1 .. Len(r) - j,
         r[f + j] # 0, NoneBetween(r, j, f)
  PROVE  /\ f + j \in DOMAIN r /\ r[f + j] > 0
         /\ SubSeq(RestOf(r, j + 1), f, Len(RestOf(r, j + 1))) = RestOf(r, f + j)
         /\ SectorSums(r)[(f + j) - 1] = SectorSums(r)[j]
<1>1. Len(r) \in Nat /\ j \in 1 .. Len(r) /\ DOMAIN r = 1 .. Len(r) /\ f \in Nat
  OBVIOUS
<1>5. j + 1 \in 1 .. Len(r) /\ Len(r) - j = Len(r) - (j + 1) + 1 /\ ((j + 1) + f) - 1 = f + j
  BY <1>1, Behind, Zenon
<1>2. f + j \in DOMAIN r /\ r[f + j] > 0
  <2>1. f + j \in 1 .. Len(r)
    BY <1>1
  <2>2. r[f + j] \in Nat
    BY <2>1
  <2> QED
    BY <1>1, <2>1, <2>2
<1>3. SubSeq(RestOf(r, j + 1), f, Len(RestOf(r, j + 1))) = RestOf(r, f + j)
  <2>1. Len(RestOf(r, j + 1)) = Len(r) - j
    BY RestFacts
  <2>2. j + 1 \in 1 .. Len(r) /\ f \in 1 .. Len(RestOf(r, j + 1))
        /\ Len(RestOf(r, j + 1)) = Len(r) - (j + 1) + 1
    BY <1>5, <2>1, Zenon
  <2>3. SubSeq(RestOf(r, j + 1), f, Len(RestOf(r, j + 1))) = RestOf(r, ((j + 1) + f) - 1)
    BY <2>2, RestOfRest, Zenon
  <2> QED
    BY <1>5, <2>3, Zenon
<1>4. SectorSums(r)[(f + j) - 1] = SectorSums(r)[j]
  <2>1. j \in 0 .. Len(r) /\ (f + j) - 1 \in j .. Len(r)
    BY <1>1
  <2>2. ASSUME NEW x \in j + 1 .. (f + j) - 1 PROVE r[x] = 0
    <3>1. x - j \in 1 .. Len(r) - j
      BY <1>1, BehindIndex
    <3>2. x - j < f
      BY <1>1, BehindIndex
    <3>3. (x - j) + j = x
      BY <1>1, BehindIndex
    <3>4. r[(x - j) + j] = 0
      BY <3>1, <3>2, Zenon DEF NoneBetween
    <3> QED
      BY <3>3, <3>4
  <2> QED
    BY <2>1, <2>2, SumsGrow
<1> QED
  BY <1>2, <1>3, <1>4

\* next_block(): the rest begins with the next block that is used, and the blocks
\* passed over have no sectors.
LEMMA NextBlocksFacts ==
  ASSUME NEW r \in Seq(Nat), NEW j \in DOMAIN r
  PROVE  \/ NextBlocks(RestOf(r, j)) = <<>> /\ SectorSums(r)[j] = NumSectors(r)
         \/ \E i \in DOMAIN r : /\ NextBlocks(RestOf(r, j)) = RestOf(r, i) /\ r[i] > 0
                                /\ SectorSums(r)[i - 1] = SectorSums(r)[j]
<1> DEFINE rest == Tail(RestOf(r, j))
           used == {i \in DOMAIN rest : rest[i] # 0}
           first == CHOOSE i \in used : \A x \in used : i <= x
<1>1. NextBlocks(RestOf(r, j)) = IF used = {} THEN <<>> ELSE SubSeq(rest, first, Len(rest))
  BY Zenon DEF NextBlocks
<1>2. /\ rest = RestOf(r, j + 1) /\ Len(rest) = Len(r) - j /\ rest \in Seq(Nat)
      /\ \A i \in 1 .. Len(r) - j : rest[i] = r[i + j]
  <2>1. rest = RestOf(r, j + 1)
    BY RestFacts
  <2> HIDE DEF rest
  <2> QED
    BY <2>1, RestFacts
<1> HIDE DEF rest
<1>4. DOMAIN rest = 1 .. Len(r) - j
  BY <1>2
<1>3. /\ used \subseteq 1 .. Len(r) - j /\ used \subseteq Nat
      /\ \A x \in 1 .. Len(r) - j : x \in used <=> r[x + j] # 0
  <2>1. used \subseteq 1 .. Len(r) - j
    BY <1>4
  <2>2. \A x \in 1 .. Len(r) - j : x \in used <=> rest[x] # 0
    BY <1>4
  <2>3. used \subseteq Nat
    BY <2>1
  <2> HIDE DEF used
  <2>4. ASSUME NEW x \in 1 .. Len(r) - j PROVE x \in used <=> r[x + j] # 0
    BY <1>2, <2>2, Zenon
  <2> QED
    BY <2>1, <2>3, <2>4, Zenon
<1> HIDE DEF used
<1>5. ASSUME used # {} PROVE first \in used /\ \A x \in used : first <= x
  BY <1>3, <1>5, LeastNat
<1> HIDE DEF first
<1>6. ASSUME used # {}
      PROVE  /\ first \in 1 .. Len(r) - j /\ r[first + j] # 0
             /\ NoneBetween(r, j, first)
  <2>1. first \in 1 .. Len(r) - j /\ r[first + j] # 0
    BY <1>3, <1>5, <1>6
  <2>2. ASSUME NEW x \in 1 .. Len(r) - j, x < first PROVE r[x + j] = 0
    <3>1. x \notin used
      BY <1>5, <1>6, <2>1, <2>2
    <3> QED
      BY <1>3, <3>1
  <2> QED
    BY <2>1, <2>2 DEF NoneBetween
<1>7. ASSUME used # {}
      PROVE  /\ first + j \in DOMAIN r /\ r[first + j] > 0
             /\ SubSeq(rest, first, Len(rest)) = RestOf(r, first + j)
             /\ SectorSums(r)[(first + j) - 1] = SectorSums(r)[j]
  BY <1>2, <1>6, <1>7, FirstUsedBlock
<1>8. CASE used = {}
  <2>1. ASSUME NEW y \in j + 1 .. Len(r) PROVE r[y] = 0
    <3>1. y - j \in 1 .. Len(r) - j /\ (y - j) + j = y
      OBVIOUS
    <3> QED
      BY <1>3, <1>8, <3>1
  <2>2. SectorSums(r)[j] = SectorSums(r)[Len(r)]
    <3>1. j \in 0 .. Len(r) /\ Len(r) \in j .. Len(r)
      OBVIOUS
    <3>2. (\A y \in j + 1 .. Len(r) : r[y] = 0) => SectorSums(r)[j] = SectorSums(r)[Len(r)]
      BY <3>1, SumsGrow, Zenon
    <3> QED
      BY <2>1, <3>2, Zenon
  <2> QED
    BY <1>1, <1>8, <2>2 DEF NumSectors
<1>9. CASE used # {}
  <2>1. NextBlocks(RestOf(r, j)) = RestOf(r, first + j)
    BY <1>1, <1>7, <1>9
  <2>2. first + j \in DOMAIN r
    BY <1>7, <1>9
  <2>3. r[first + j] > 0
    BY <1>7, <1>9
  <2>4. SectorSums(r)[(first + j) - 1] = SectorSums(r)[j]
    BY <1>7, <1>9
  <2>5. \E i \in DOMAIN r : /\ NextBlocks(RestOf(r, j)) = RestOf(r, i) /\ r[i] > 0
                            /\ SectorSums(r)[i - 1] = SectorSums(r)[j]
    <3> WITNESS first + j \in DOMAIN r
    <3> QED
      BY <2>1, <2>3, <2>4, Zenon
  <2> QED
    BY <2>5, Zenon
<1> QED
  BY <1>8, <1>9

\* A block has its sectors, and they are within those of the request.
LEMMA BlockInside ==
  ASSUME NEW r \in Seq(Nat), NEW j \in DOMAIN r
  PROVE  /\ SectorSums(r)[j - 1] \in Nat
         /\ SectorSums(r)[j] = SectorSums(r)[j - 1] + r[j]
         /\ SectorSums(r)[j] <= NumSectors(r)
<1>1. j \in 1 .. Len(r) /\ j - 1 \in 0 .. Len(r) /\ j \in 0 .. Len(r)
      /\ Len(r) \in j .. Len(r)
  OBVIOUS
<1> QED
  BY <1>1, SumsAreSums, SumsGrow, NumSectorsType DEF IsSums

LEMMA ShareInside ==
  ASSUME NEW t \in Traits, NEW r \in RequestLists, NEW d \in Cmds, Progress(t, r, d)
  PROVE  /\ Share(t, r, d) \in Nat /\ Share(t, r, d) > 0
         /\ d.done \in Nat /\ d.done + Share(t, r, d) <= NumSectors(r)
<1>1. r \in Seq(Nat) /\ 1 \in DOMAIN r /\ r[1] > 0
  BY DEF RequestLists
<1>2. d.done \in Nat
  BY DEF Cmds
<1>3. CASE t.adma2
  <2>1. d.done = 0 /\ Share(t, r, d) = NumSectors(r)
    BY <1>3 DEF Progress, Share
  <2>2. SectorSums(r)[1 - 1] \in Nat /\ SectorSums(r)[1] = SectorSums(r)[1 - 1] + r[1]
        /\ SectorSums(r)[1] <= NumSectors(r)
    BY <1>1, BlockInside
  <2>3. NumSectors(r) \in Nat /\ r[1] \in Nat
    BY <1>1, NumSectorsType
  <2> QED
    BY <1>1, <2>1, <2>2, <2>3
<1>4. CASE ~t.adma2
  <2>1. PICK j \in DOMAIN r : AtBlock(r, d, j)
    BY <1>4 DEF Progress
  <2>2. Share(t, r, d) = r[j] /\ r[j] \in Nat /\ r[j] > 0
    BY <1>1, <1>4, <2>1, RestFacts DEF AtBlock, Share
  <2>3. d.done + r[j] <= NumSectors(r)
    BY <1>1, <2>1, BlockInside DEF AtBlock
  <2> QED
    BY <1>2, <2>2, <2>3
<1> QED
  BY <1>3, <1>4

-----------------------------------------------------------------------------
(* The next command.                                                       *)

\* The command d became e, for the same part of the request.
SamePart(e, d) ==
  /\ e.done = d.done /\ e.sector = d.sector /\ e.blocks = d.blocks /\ e.read = d.read
  /\ e.status12 = d.status12

LEMMA Nodata ==
  ASSUME NEW d \in Cmds, NEW command \in MmcCommands, NEW arg \in Nat,
         NEW e, e = ReinitInoutNodata(d, command, arg)
  PROVE  /\ e \in Cmds /\ SamePart(e, d)
         /\ e.cmd = command /\ e.arg = arg /\ ~e.hasData
         /\ e.cmd12 = d.cmd12 /\ e.nblk = d.nblk
  BY DEF ReinitInoutNodata, Cmds, SamePart, Status, ErrorStatus

\* The command e transfers nblk sectors for the request of d.
Transfers(e, d, command, nblk, auto23) ==
  /\ e \in Cmds /\ SamePart(e, d)
  /\ e.cmd = command /\ e.arg = d.sector /\ e.hasData
  /\ e.cmd12 = d.cmd12 /\ e.nblk = nblk /\ e.auto23 = auto23

LEMMA DataCommand ==
  ASSUME NEW d \in Cmds, NEW command \in MmcCommands, NEW nblk \in Nat,
         NEW auto23 \in BOOLEAN
  PROVE  Transfers(ReinitInoutData(d, command, nblk, auto23), d, command, nblk, auto23)
<1> DEFINE e == ReinitInoutData(d, command, nblk, auto23)
<1>1. e \in Cmds /\ SamePart(e, d)
  BY DEF ReinitInoutData, Cmds, SamePart, Status, ErrorStatus
<1>2. /\ e.cmd = command /\ e.arg = d.sector /\ e.hasData
      /\ e.cmd12 = d.cmd12 /\ e.nblk = nblk /\ e.auto23 = auto23
  BY DEF ReinitInoutData, Cmds
<1> HIDE DEF e
<1>3. Transfers(e, d, command, nblk, auto23)
  BY <1>1, <1>2, Zenon DEF Transfers
<1> QED
  BY <1>3, Zenon DEF e

LEMMA ReadWrite ==
  ASSUME NEW d
  PROVE  /\ ReadWriteSingle(d) \in MmcCommands \ (MultipleBlock \cup StopTransmission)
         /\ ReadWriteMultiple(d) \in MmcCommands /\ ReadWriteMultiple(d) \in MultipleBlock
         /\ ReadWriteSingle(d) # "CMD23" /\ ReadWriteMultiple(d) # "CMD23"
         /\ ReadWriteMultiple(d) \notin StopTransmission
  BY DEF ReadWriteSingle, ReadWriteMultiple, MmcCommands, MultipleBlock, StopTransmission

TransfersMany(t, e, d, nblk, auto23) ==
  /\ e \in Cmds /\ SamePart(e, d)
  /\ e.cmd = ReadWriteMultiple(e) /\ e.arg = d.sector /\ e.hasData
  /\ e.cmd12 <=> ~t.hasCmd23
  /\ e.nblk = nblk /\ e.auto23 = auto23

LEMMA OpenTransferIs ==
  ASSUME NEW t \in Traits, NEW d \in Cmds, ~d.cmd12, NEW nblk \in Nat,
         NEW auto23 \in BOOLEAN
  PROVE  TransfersMany(t, OpenTransfer(t, d, nblk, auto23), d, nblk, auto23)
<1> DEFINE f == ReinitInoutData(d, ReadWriteMultiple(d), nblk, auto23)
           e == OpenTransfer(t, d, nblk, auto23)
<1>1. /\ f \in Cmds /\ SamePart(f, d)
      /\ f.cmd = ReadWriteMultiple(d) /\ f.arg = d.sector /\ f.hasData
      /\ f.cmd12 = d.cmd12 /\ f.nblk = nblk /\ f.auto23 = auto23
  <2>1. ReadWriteMultiple(d) \in MmcCommands
    BY ReadWrite
  <2>2. Transfers(f, d, ReadWriteMultiple(d), nblk, auto23)
    BY <2>1, DataCommand, Zenon
  <2> QED
    BY <2>2, Zenon DEF Transfers
<1>2. e = IF t.hasCmd23 THEN f ELSE [f EXCEPT !.cmd12 = TRUE]
  BY DEF OpenTransfer
<1> HIDE DEF f, e
<1>3. ReadWriteMultiple(e) = ReadWriteMultiple(d)
  BY <1>1, <1>2 DEF ReadWriteMultiple, SamePart, Cmds
<1>4. /\ e \in Cmds /\ SamePart(e, d)
      /\ e.cmd = f.cmd /\ e.arg = d.sector /\ e.hasData
      /\ e.cmd12 <=> ~t.hasCmd23
      /\ e.nblk = nblk /\ e.auto23 = f.auto23
  <2>1. CASE t.hasCmd23
    BY <1>1, <1>2, <2>1
  <2>2. CASE ~t.hasCmd23
    BY <1>1, <1>2, <2>2 DEF Cmds, SamePart
  <2> QED
    BY <2>1, <2>2
<1>5. e.cmd = ReadWriteMultiple(e) /\ e.auto23 = auto23
  BY <1>1, <1>3, <1>4, Zenon
<1>6. TransfersMany(t, e, d, nblk, auto23)
  BY <1>4, <1>5, Zenon DEF TransfersMany
<1> QED
  BY <1>6, Zenon DEF e

\* CMD23 comes with a count of 16 bits.
LEMMA CountIsNat ==
  ASSUME NEW n \in Nat
  PROVE  BlockCountArg(n) = n % CountMod /\ BlockCountArg(n) \in Nat
  BY CountModAssumption DEF BlockCountArg

\* What a command does not change.
LEMMA ProgressKept ==
  ASSUME NEW t, NEW r, NEW d, NEW e, SamePart(e, d), Progress(t, r, d)
  PROVE  Progress(t, r, e) /\ Share(t, r, e) = Share(t, r, d)
<1>1. \A j \in DOMAIN r : AtBlock(r, d, j) => AtBlock(r, e, j)
  BY DEF AtBlock, SamePart
<1> QED
  BY <1>1 DEF Progress, SamePart, Share

\* Device::transfer_block_sdma() with a block at hand.
LEMMA NextBlockIssued ==
  ASSUME NEW t \in Traits, ~t.adma2, NEW r \in RequestLists, NEW d \in Cmds,
         Progress(t, r, d), ~d.cmd12, NEW m,
         d.cmd = "CMD23" => /\ t.hasCmd23 /\ m = Share(t, r, d) % CountMod
                            /\ Share(t, r, d) # 1,
         d.cmd # "CMD23" => m = -1,
         NEW h, h = TransferBlockSdma(t, d)
  PROVE  h.reply = "none" /\ h.cmd \in Cmds /\ Issued(t, r, h.cmd, d.done, m)
<1> DEFINE n == Head(d.blocks)
<1>1. n = Share(t, r, d) /\ n \in Nat /\ n > 0
  BY ShareInside DEF Share
<1>2. d.blocks # <<>>
  <2>1. PICK j \in DOMAIN r : AtBlock(r, d, j)
    BY DEF Progress
  <2> QED
    BY <2>1, RestFacts DEF AtBlock, RequestLists
<1> HIDE DEF n
<1>3. CASE n = 1
  <2> DEFINE e == ReinitInoutData(d, ReadWriteSingle(d), 1, FALSE)
  <2>1. h = More(e)
    BY <1>2, <1>3 DEF TransferBlockSdma, n
  <2>2. /\ e \in Cmds /\ SamePart(e, d) /\ e.cmd = ReadWriteSingle(d)
        /\ e.arg = d.sector /\ e.hasData /\ e.cmd12 = d.cmd12 /\ e.nblk = 1
    <3>1. ReadWriteSingle(d) \in MmcCommands /\ 1 \in Nat
      BY ReadWrite
    <3>2. Transfers(e, d, ReadWriteSingle(d), 1, FALSE)
      BY <3>1, DataCommand, Zenon
    <3> QED
      BY <3>2, Zenon DEF Transfers
  <2> HIDE DEF e
  <2>3. Progress(t, r, e) /\ Share(t, r, e) = 1
    <3>1. Progress(t, r, e) /\ Share(t, r, e) = Share(t, r, d)
      BY <2>2, ProgressKept, Zenon
    <3> QED
      BY <1>1, <1>3, <3>1
  <2>4. m = -1
    BY <1>1, <1>3
  <2>5. e.cmd = ReadWriteSingle(e) /\ e.arg = e.sector /\ e.done = d.done
    BY <2>2 DEF ReadWriteSingle, SamePart
  <2>6. AtData(t, r, e, d.done, m)
    BY <2>2, <2>3, <2>4, <2>5 DEF AtData
  <2> QED
    BY <2>1, <2>2, <2>3, <2>6 DEF Issued, More
<1>4. CASE n # 1 /\ t.hasCmd23 /\ d.cmd # "CMD23"
  <2> DEFINE e == ReinitInoutNodata(d, "CMD23", BlockCountArg(n))
  <2>1. h = More(e)
    BY <1>2, <1>4 DEF TransferBlockSdma, n
  <2>2. /\ e \in Cmds /\ SamePart(e, d) /\ e.cmd = "CMD23"
        /\ e.arg = n % CountMod /\ ~e.hasData /\ e.cmd12 = d.cmd12
    <3>1. "CMD23" \in MmcCommands /\ BlockCountArg(n) \in Nat
      BY <1>1, CountIsNat DEF MmcCommands
    <3>2. e = ReinitInoutNodata(d, "CMD23", BlockCountArg(n))
      OBVIOUS
    <3> HIDE DEF e
    <3>3. BlockCountArg(n) = n % CountMod
      BY <1>1, CountIsNat
    <3> QED
      BY <3>1, <3>2, <3>3, Nodata
  <2> HIDE DEF e
  <2>3. Progress(t, r, e) /\ Share(t, r, e) = n
    BY <1>1, <2>2, ProgressKept
  <2>4. m = -1 /\ e.done = d.done
    BY <1>4, <2>2 DEF SamePart
  <2>5. AtCmd23(t, r, e, d.done, m)
    BY <1>4, <2>2, <2>3, <2>4 DEF AtCmd23
  <2> QED
    BY <2>1, <2>2, <2>3, <2>5 DEF Issued, More
<1>5. CASE n # 1 /\ ~(t.hasCmd23 /\ d.cmd # "CMD23")
  <2> DEFINE e == OpenTransfer(t, d, n, FALSE)
  <2>1. h = More(e)
    BY <1>2, <1>5 DEF TransferBlockSdma, n
  <2>2. /\ e \in Cmds /\ SamePart(e, d)
        /\ e.cmd = ReadWriteMultiple(e) /\ e.arg = d.sector /\ e.hasData
        /\ e.cmd12 <=> ~t.hasCmd23
        /\ e.nblk = n /\ e.auto23 = FALSE
    <3>1. TransfersMany(t, e, d, n, FALSE)
      BY <1>1, OpenTransferIs, Zenon
    <3> HIDE DEF e
    <3> QED
      BY <3>1, Zenon DEF TransfersMany
  <2> HIDE DEF e
  <2>3. Progress(t, r, e) /\ Share(t, r, e) = n
    BY <1>1, <2>2, ProgressKept
  <2>4. e.arg = e.sector /\ e.done = d.done
    BY <2>2 DEF SamePart
  <2>5. t.hasCmd23 => m = n % CountMod
    BY <1>1, <1>5
  <2>6. ~t.hasCmd23 => m = -1
    BY <1>5
  <2>7. AtData(t, r, e, d.done, m)
    BY <2>2, <2>3, <2>4, <2>5, <2>6 DEF AtData
  <2> QED
    BY <2>1, <2>2, <2>3, <2>7 DEF Issued, More
<1> QED
  BY <1>3, <1>4, <1>5

-----------------------------------------------------------------------------
(* The end of a command: handle_irq_inout().                               *)

\* What its result h amounts to, with n sectors moved and the count m at the card.
EndOf(t, r, h, n, m) ==
  /\ h.cmd \in Cmds
  /\ h.reply = "none" => Issued(t, r, h.cmd, n, m)
  /\ h.reply # "none" => Answered(t, r, h, n) /\ m = -1

LEMMA GivenUp ==
  ASSUME NEW t, NEW r, NEW d \in Cmds, NEW n \in Nat, d.done <= n
  PROVE  EndOf(t, r, Done(d, "eio"), n, -1)
  BY DEF EndOf, Done, Answered

LEMMA AllDone ==
  ASSUME NEW t, NEW r, NEW d \in Cmds, NEW n \in Nat, t.adma2 \/ d.done = n,
         n = NumSectors(r)
  PROVE  EndOf(t, r, Done(d, "ok"), n, -1)
  BY DEF EndOf, Done, Answered, Cmds

\* The end of a data command with SDMA: its block is done.
LEMMA BlockDone ==
  ASSUME NEW t \in Traits, ~t.adma2, NEW r \in RequestLists, NEW d \in Cmds,
         Progress(t, r, d), ~d.cmd12, d.cmd # "CMD23", d.status = "Success"
  PROVE  EndOf(t, r, HandleIrqInoutSdma(t, d), d.done + Share(t, r, d), -1)
<1> DEFINE n == d.done + Share(t, r, d)
           rest == NextBlocks(d.blocks)
           e == [d EXCEPT !.sector = @ + Head(d.blocks), !.done = @ + Head(d.blocks),
                          !.blocks = NextBlocks(@)]
<1>1. HandleIrqInoutSdma(t, d) = TransferBlockSdma(t, e)
  BY DEF HandleIrqInoutSdma
<1>2. Share(t, r, d) \in Nat /\ Share(t, r, d) = Head(d.blocks) /\ n \in Nat
  BY ShareInside DEF Share
<1>3. PICK j \in DOMAIN r : AtBlock(r, d, j)
  BY DEF Progress
<1>4. r \in Seq(Nat)
  BY DEF RequestLists
<1>5. \/ rest = <<>> /\ SectorSums(r)[j] = NumSectors(r)
      \/ \E i \in DOMAIN r : /\ rest = RestOf(r, i) /\ r[i] > 0
                             /\ SectorSums(r)[i - 1] = SectorSums(r)[j]
  BY <1>3, <1>4, NextBlocksFacts DEF AtBlock
<1>6. n = SectorSums(r)[j]
  <2>1. Head(d.blocks) = r[j]
    BY <1>3, <1>4, RestFacts DEF AtBlock
  <2>2. SectorSums(r)[j] = SectorSums(r)[j - 1] + r[j]
    BY <1>4, BlockInside
  <2> QED
    BY <1>2, <1>3, <2>1, <2>2 DEF AtBlock
<1>7. rest \in Seq(Nat)
  <2> HIDE DEF rest
  <2>1. \A i \in DOMAIN r : RestOf(r, i) \in Seq(Nat)
    BY <1>4, RestFacts
  <2>2. <<>> \in Seq(Nat)
    BY EmptySeq
  <2> QED
    BY <1>5, <2>1, <2>2
<1>8. d.sector \in Nat /\ d.sector = FirstSector + d.done /\ d.done \in Nat
  BY DEF Progress, Cmds
<1>9. /\ e \in Cmds /\ e.done = n /\ e.sector = d.sector + Head(d.blocks)
      /\ e.blocks = rest /\ ~e.cmd12 /\ e.cmd # "CMD23"
  <2> HIDE DEF rest
  <2>1. e = [d EXCEPT !.sector = d.sector + Head(d.blocks),
                      !.done = d.done + Head(d.blocks), !.blocks = rest]
    BY DEF Cmds, rest
  <2>2. d.sector + Head(d.blocks) \in Nat /\ d.done + Head(d.blocks) = n
    BY <1>2, <1>8
  <2> HIDE DEF e, n
  <2> QED
    BY <1>2, <1>7, <2>1, <2>2 DEF Cmds
<1>10. e.sector = FirstSector + e.done
  BY <1>2, <1>8, <1>9, InoutSequenceAssumption
<1> HIDE DEF e, n, rest
<1>11. CASE rest = <<>> /\ SectorSums(r)[j] = NumSectors(r)
  <2>1. TransferBlockSdma(t, e) = Done(e, "ok")
    BY <1>9, <1>11 DEF TransferBlockSdma
  <2>2. EndOf(t, r, Done(e, "ok"), n, -1)
    BY <1>2, <1>6, <1>9, <1>11, AllDone
  <2> QED
    BY <1>1, <2>1, <2>2 DEF n
<1>12. CASE \E i \in DOMAIN r : /\ rest = RestOf(r, i) /\ r[i] > 0
                                /\ SectorSums(r)[i - 1] = SectorSums(r)[j]
  <2>1. \E i \in DOMAIN r : AtBlock(r, e, i)
    BY <1>6, <1>9, <1>12 DEF AtBlock
  <2>2. Progress(t, r, e)
    BY <1>10, <2>1 DEF Progress
  <2> DEFINE h == TransferBlockSdma(t, e)
  <2>3. h.reply = "none" /\ h.cmd \in Cmds /\ Issued(t, r, h.cmd, e.done, -1)
    BY <1>9, <2>2, NextBlockIssued
  <2> HIDE DEF h
  <2>4. EndOf(t, r, h, n, -1)
    BY <1>9, <2>3 DEF EndOf
  <2> QED
    BY <1>1, <2>4 DEF h, n
<1> QED
  BY <1>5, <1>11, <1>12

\* The command as it ended.
LEMMA Ending ==
  ASSUME NEW d \in Cmds, NEW s \in EndStatus, NEW e, e = [d EXCEPT !.status = s]
  PROVE  /\ e \in Cmds /\ SamePart(e, d) /\ e.status = s
         /\ e.cmd = d.cmd /\ e.cmd12 = d.cmd12 /\ e.nblk = d.nblk
         /\ e.hasData = d.hasData /\ e.arg = d.arg
         /\ IsError(e) <=> s # "Success"
  BY DEF Cmds, SamePart, EndStatus, Status, ErrorStatus, IsError

\* CMD23 leads to its data command, or fails.
LEMMA Cmd23Ends ==
  ASSUME NEW t \in Traits, NEW r \in RequestLists, NEW d \in Cmds, NEW n, NEW m,
         Progress(t, r, d), AtCmd23(t, r, d, n, m), NEW s \in EndStatus
  PROVE  EndOf(t, r, HandleIrqInout(t, [d EXCEPT !.status = s]), n,
               IF s = "Success" THEN d.arg ELSE -1)
<1> DEFINE e == [d EXCEPT !.status = s]
           h == HandleIrqInout(t, e)
<1>1. /\ e \in Cmds /\ SamePart(e, d) /\ e.status = s
      /\ e.cmd = d.cmd /\ e.cmd12 = d.cmd12 /\ e.nblk = d.nblk
      /\ IsError(e) <=> s # "Success"
  BY Ending
<1> HIDE DEF e
<1>2. e.cmd = "CMD23" /\ ~e.cmd12 /\ e.cmd \notin StopTransmission /\ d.done = n /\ n \in Nat
  BY <1>1 DEF AtCmd23, StopTransmission, Cmds
<1>3. Progress(t, r, e) /\ Share(t, r, e) = Share(t, r, d)
  BY <1>1, ProgressKept
<1>4. CASE s # "Success"
  <2>1. h = Done(e, "eio")
    BY <1>1, <1>2, <1>4 DEF HandleIrqInout
  <2>2. e.done <= n
    BY <1>1, <1>2 DEF SamePart
  <2>3. EndOf(t, r, Done(e, "eio"), n, -1)
    BY <1>1, <1>2, <2>2, GivenUp
  <2> QED
    BY <1>4, <2>1, <2>3 DEF e
<1>5. CASE s = "Success" /\ t.adma2
  <2> DEFINE g == OpenTransfer(t, e, e.nblk, FALSE)
  <2>1. h = More(g)
    BY <1>1, <1>2, <1>5 DEF HandleIrqInout, HandleIrqInoutAdma2
  <2>2. e.nblk \in Nat /\ e.nblk = Share(t, r, d) /\ d.arg = e.nblk % CountMod /\ t.hasCmd23
    BY <1>1, <1>5 DEF AtCmd23, Cmds
  <2>3. TransfersMany(t, g, e, e.nblk, FALSE)
    BY <1>1, <1>2, <2>2, OpenTransferIs, Zenon
  <2> HIDE DEF g
  <2>4. Progress(t, r, g) /\ Share(t, r, g) = e.nblk
    BY <1>3, <2>2, <2>3, ProgressKept DEF TransfersMany
  <2>5. g.arg = g.sector /\ g.done = n
    BY <1>1, <1>2, <2>3 DEF TransfersMany, SamePart
  <2>6. AtData(t, r, g, n, d.arg)
    BY <2>2, <2>3, <2>4, <2>5 DEF TransfersMany, AtData
  <2>7. EndOf(t, r, More(g), n, d.arg)
    BY <2>3, <2>4, <2>6 DEF EndOf, More, Issued, TransfersMany
  <2> QED
    BY <1>5, <2>1, <2>7 DEF e
<1>6. CASE s = "Success" /\ ~t.adma2
  <2> DEFINE g == TransferBlockSdma(t, e)
  <2>1. h = g
    BY <1>1, <1>2, <1>6 DEF HandleIrqInout, HandleIrqInoutSdma
  <2>2. t.hasCmd23 /\ d.arg = Share(t, r, e) % CountMod /\ Share(t, r, e) # 1
    BY <1>3, <1>6 DEF AtCmd23
  <2>3. g.reply = "none" /\ g.cmd \in Cmds /\ Issued(t, r, g.cmd, e.done, d.arg)
    BY <1>1, <1>2, <1>3, <1>6, <2>2, NextBlockIssued
  <2> HIDE DEF g
  <2>4. e.done = n
    BY <1>1, <1>2 DEF SamePart
  <2>5. EndOf(t, r, g, n, d.arg)
    BY <2>3, <2>4 DEF EndOf
  <2> QED
    BY <1>6, <2>1, <2>5 DEF e
<1> QED
  BY <1>4, <1>5, <1>6

\* A data command leads to CMD12 if its transfer is open-ended, good or bad; else
\* to the next block, or the request is answered.
LEMMA DataEnds ==
  ASSUME NEW t \in Traits, NEW r \in RequestLists, NEW d \in Cmds, NEW n, NEW m,
         Progress(t, r, d), AtData(t, r, d, n, m), NEW s \in EndStatus
  PROVE  LET h == HandleIrqInout(t, [d EXCEPT !.status = s]) IN
         /\ EndOf(t, r, h, IF s = "Success" THEN n + d.nblk ELSE n, -1)
         /\ d.cmd12 => h.reply = "none" /\ h.cmd.cmd \in StopTransmission
<1> DEFINE e == [d EXCEPT !.status = s]
           h == HandleIrqInout(t, e)
           n2 == IF s = "Success" THEN n + d.nblk ELSE n
<1>1. /\ e \in Cmds /\ SamePart(e, d) /\ e.status = s
      /\ e.cmd = d.cmd /\ e.cmd12 = d.cmd12
      /\ IsError(e) <=> s # "Success"
  BY Ending
<1>2. /\ d.nblk \in Nat /\ n = d.done /\ n \in Nat /\ n2 \in Nat /\ n <= n2
      /\ d.nblk = Share(t, r, d)
  BY DEF AtData, Cmds
<1>3. e.cmd # "CMD23" /\ e.cmd \notin StopTransmission
  <2>1. d.cmd = ReadWriteSingle(d) \/ d.cmd = ReadWriteMultiple(d)
    BY DEF AtData
  <2> QED
    BY <1>1, <2>1, ReadWrite
<1>4. Progress(t, r, e) /\ Share(t, r, e) = d.nblk /\ e.done = n
  BY <1>1, <1>2, ProgressKept, ZenonT(30) DEF SamePart
<1>5. CASE d.cmd12
  <2> DEFINE f == [e EXCEPT !.cmd12 = FALSE, !.status12 = e.status]
             stop == IF e.read THEN "CMD12rd" ELSE "CMD12wr"
             g == ReinitInoutNodata(f, stop, 0)
  <2>1. h = More(g)
    BY <1>1, <1>5 DEF HandleIrqInout, AutoCmd12
  <2>2. /\ f \in Cmds /\ f.done = e.done /\ f.sector = e.sector /\ f.blocks = e.blocks
        /\ f.read = e.read /\ ~f.cmd12 /\ f.status12 = s
    BY <1>1 DEF Cmds
  <2>3. stop \in StopTransmission /\ stop \in MmcCommands
    BY DEF StopTransmission, MmcCommands
  <2> HIDE DEF f, stop
  <2>4. /\ g \in Cmds /\ SamePart(g, f) /\ g.cmd = stop /\ ~g.hasData /\ g.cmd12 = f.cmd12
    BY <2>2, <2>3, Nodata
  <2> HIDE DEF g
  <2>5. /\ g.done = e.done /\ g.status12 = s /\ Progress(t, r, g)
        /\ Share(t, r, g) = d.nblk /\ ~g.cmd12
    <3>1. /\ g.done = e.done /\ g.sector = e.sector /\ g.blocks = e.blocks
          /\ g.status12 = s /\ ~g.cmd12
      BY <2>2, <2>4 DEF SamePart
    <3>2. \A j \in DOMAIN r : AtBlock(r, e, j) => AtBlock(r, g, j)
      BY <3>1 DEF AtBlock
    <3> QED
      BY <1>4, <3>1, <3>2 DEF Progress, Share
  <2>6. AtStop(t, r, g, n2, -1)
    <3>1. n2 = g.done + IF g.status12 = "Success" THEN Share(t, r, g) ELSE 0
      BY <1>2, <1>4, <2>5
    <3> HIDE DEF n2
    <3> QED
      BY <2>3, <2>4, <2>5, <3>1 DEF AtStop
  <2> HIDE DEF h, n2
  <2>7. h.cmd = g /\ h.reply = "none"
    BY <2>1 DEF More
  <2>8. EndOf(t, r, h, n2, -1) /\ h.cmd.cmd \in StopTransmission
    BY <2>3, <2>4, <2>5, <2>6, <2>7 DEF EndOf, Issued
  <2> QED
    BY <2>7, <2>8 DEF h, e, n2
<1>6. CASE ~d.cmd12 /\ s # "Success"
  <2>1. h = Done(e, "eio")
    BY <1>1, <1>3, <1>6 DEF HandleIrqInout
  <2>2. EndOf(t, r, Done(e, "eio"), n, -1)
    <3> HIDE DEF e
    <3> QED
      BY <1>1, <1>2, <1>4, GivenUp
  <2> QED
    BY <1>6, <2>1, <2>2
<1>7. CASE ~d.cmd12 /\ s = "Success" /\ t.adma2
  <2>1. h = Done(e, "ok")
    BY <1>1, <1>3, <1>7 DEF HandleIrqInout, HandleIrqInoutAdma2
  <2>2. EndOf(t, r, Done(e, "ok"), n2, -1)
    <3>1. d.done = 0 /\ d.nblk = NumSectors(r)
      BY <1>2, <1>7 DEF Progress, Share
    <3>2. n2 = NumSectors(r)
      BY <1>2, <1>7, <3>1
    <3> HIDE DEF e, n2
    <3> QED
      BY <1>1, <1>2, <1>7, <3>2, AllDone
  <2> QED
    BY <1>7, <2>1, <2>2
<1>8. CASE ~d.cmd12 /\ s = "Success" /\ ~t.adma2
  <2>1. h = HandleIrqInoutSdma(t, e)
    BY <1>1, <1>3, <1>8 DEF HandleIrqInout
  <2>2. EndOf(t, r, HandleIrqInoutSdma(t, e), e.done + Share(t, r, e), -1)
    <3> HIDE DEF e
    <3> QED
      BY <1>1, <1>3, <1>4, <1>8, BlockDone
  <2>3. e.done + Share(t, r, e) = n2
    <3> HIDE DEF e
    <3> QED
      BY <1>4, <1>8
  <2> QED
    BY <1>8, <2>1, <2>2, <2>3
<1> QED
  BY <1>5, <1>6, <1>7, <1>8

\* CMD12 decides nothing: its transfer does.
LEMMA StopEnds ==
  ASSUME NEW t \in Traits, NEW r \in RequestLists, NEW d \in Cmds, NEW n, NEW m,
         Progress(t, r, d), AtStop(t, r, d, n, m), NEW s \in EndStatus
  PROVE  EndOf(t, r, HandleIrqInout(t, [d EXCEPT !.status = s]), n, -1)
<1> DEFINE f == [d EXCEPT !.status = s]
           e == [f EXCEPT !.status = f.status12]
           h == HandleIrqInout(t, f)
<1>1. /\ f \in Cmds /\ SamePart(f, d) /\ f.cmd = d.cmd /\ f.cmd12 = d.cmd12
  BY Ending
<1>2. /\ f.status12 \in EndStatus /\ f.status12 = d.status12
      /\ d.cmd \in StopTransmission /\ ~d.cmd12
  BY <1>1 DEF AtStop, SamePart
<1> HIDE DEF f
<1>3. /\ e \in Cmds /\ SamePart(e, f) /\ e.status = f.status12
      /\ e.cmd = f.cmd /\ e.cmd12 = f.cmd12
      /\ IsError(e) <=> f.status12 # "Success"
  BY <1>1, <1>2, Ending
<1> HIDE DEF e
<1>4. e.cmd # "CMD23" /\ ~e.cmd12 /\ e.done = d.done
  BY <1>1, <1>2, <1>3 DEF StopTransmission, SamePart
<1>5. Progress(t, r, e) /\ Share(t, r, e) = Share(t, r, d)
  <2>1. Progress(t, r, f) /\ Share(t, r, f) = Share(t, r, d)
    BY <1>1, ProgressKept
  <2> QED
    BY <1>3, <2>1, ProgressKept
<1>6. d.done \in Nat /\ Share(t, r, d) \in Nat
      /\ n = d.done + IF d.status12 = "Success" THEN Share(t, r, d) ELSE 0
  BY ShareInside DEF AtStop
<1>7. n \in Nat /\ d.done <= n
  BY <1>6
<1>8. h = IF IsError(e) THEN Done(e, "eio")
          ELSE IF t.adma2 THEN HandleIrqInoutAdma2(t, e) ELSE HandleIrqInoutSdma(t, e)
  BY <1>1, <1>2 DEF HandleIrqInout, e
<1>9. CASE f.status12 # "Success"
  <2>1. EndOf(t, r, Done(e, "eio"), n, -1)
    BY <1>3, <1>4, <1>7, GivenUp
  <2> QED
    BY <1>3, <1>8, <1>9, <2>1 DEF f
<1>10. CASE f.status12 = "Success" /\ t.adma2
  <2>1. h = Done(e, "ok")
    BY <1>3, <1>4, <1>8, <1>10 DEF HandleIrqInoutAdma2
  <2>2. d.done = 0 /\ Share(t, r, d) = NumSectors(r)
    BY <1>10 DEF Progress, Share
  <2>3. EndOf(t, r, Done(e, "ok"), n, -1)
    BY <1>2, <1>3, <1>6, <1>7, <1>10, <2>2, AllDone
  <2> QED
    BY <2>1, <2>3 DEF f
<1>11. CASE f.status12 = "Success" /\ ~t.adma2
  <2>1. h = HandleIrqInoutSdma(t, e)
    BY <1>3, <1>8, <1>11
  <2>2. EndOf(t, r, HandleIrqInoutSdma(t, e), e.done + Share(t, r, e), -1)
    BY <1>3, <1>4, <1>5, <1>11, BlockDone
  <2>3. e.done + Share(t, r, e) = n
    BY <1>2, <1>4, <1>5, <1>6, <1>11
  <2> QED
    BY <2>1, <2>2, <2>3 DEF f
<1> QED
  BY <1>9, <1>10, <1>11

-----------------------------------------------------------------------------
(* The specification.                                                      *)

\* inout_data() picks the first command.
LEMMA FirstCommandIssued ==
  ASSUME NEW t \in Traits, NEW r \in RequestLists, NEW read \in BOOLEAN,
         NEW h, h = FirstCommand(t, InitInout(CreatedCmd, FirstSector, r, 0, read))
  PROVE  h \in Cmds /\ Issued(t, r, h, 0, -1)
<1> DEFINE d == InitInout(CreatedCmd, FirstSector, r, 0, read)
           n == NumSectors(r)
<1>1. r \in Seq(Nat) /\ r # <<>> /\ r[1] > 0 /\ 1 \in DOMAIN r
  BY DEF RequestLists
<1>2. d \in Cmds
  BY <1>1, InoutSequenceAssumption
     DEF InitInout, CreatedCmd, InvalidCmd, Cmds, Status, ErrorStatus, MmcCommands
<1>3. /\ d.done = 0 /\ d.sector = FirstSector /\ d.blocks = r /\ d.cmd = "none"
      /\ ~d.cmd12
  BY DEF InitInout, CreatedCmd, InvalidCmd
<1> HIDE DEF d
<1>4. AtBlock(r, d, 1)
  <2>1. RestOf(r, 1) = r
    BY <1>1, SubSeqFull DEF RestOf
  <2>2. SectorSums(r)[1 - 1] = 0
    BY <1>1, SumsAreSums DEF IsSums
  <2> QED
    BY <1>1, <1>3, <2>1, <2>2 DEF AtBlock
<1>5. Progress(t, r, d)
  BY <1>1, <1>3, <1>4, InoutSequenceAssumption DEF Progress
<1>6. CASE ~t.adma2
  <2>1. h = TransferBlockSdma(t, d).cmd
    BY <1>6 DEF FirstCommand, d
  <2> DEFINE g == TransferBlockSdma(t, d)
  <2>2. g.reply = "none" /\ g.cmd \in Cmds /\ Issued(t, r, g.cmd, d.done, -1)
    BY <1>2, <1>3, <1>5, <1>6, NextBlockIssued
  <2> QED
    BY <1>3, <2>1, <2>2
<1>7. n \in Nat /\ (t.adma2 => Share(t, r, d) = n)
  BY <1>1, NumSectorsType DEF Share
<1> HIDE DEF n
<1>8. CASE t.adma2 /\ ~(~t.hasCmd23 \/ t.autoCmd23)
  <2> DEFINE f == [d EXCEPT !.nblk = n]
             g == ReinitInoutNodata(f, "CMD23", BlockCountArg(n))
  <2>1. h = g
    BY <1>3, <1>8 DEF FirstCommand, SetBlockCountAdma2, d, n
  <2>2. f \in Cmds /\ SamePart(f, d) /\ f.nblk = n /\ ~f.cmd12
    BY <1>2, <1>3, <1>7 DEF Cmds, SamePart
  <2> HIDE DEF f
  <2>3. BlockCountArg(n) = n % CountMod /\ BlockCountArg(n) \in Nat /\ "CMD23" \in MmcCommands
    BY <1>7, CountIsNat DEF MmcCommands
  <2>4. /\ g \in Cmds /\ SamePart(g, f) /\ g.cmd = "CMD23" /\ g.arg = n % CountMod
        /\ ~g.hasData /\ g.cmd12 = f.cmd12 /\ g.nblk = n
    BY <2>2, <2>3, Nodata
  <2> HIDE DEF g
  <2>5. Progress(t, r, g) /\ Share(t, r, g) = n
    <3>1. Progress(t, r, f) /\ Share(t, r, f) = n
      BY <1>5, <1>7, <1>8, <2>2, ProgressKept
    <3> QED
      BY <2>4, <3>1, ProgressKept
  <2>6. AtCmd23(t, r, g, 0, -1)
    BY <1>3, <1>8, <2>2, <2>4, <2>5 DEF AtCmd23, SamePart
  <2> QED
    BY <2>1, <2>4, <2>5, <2>6 DEF Issued
<1>9. CASE t.adma2 /\ (~t.hasCmd23 \/ t.autoCmd23)
  <2> DEFINE auto == t.hasCmd23 /\ t.autoCmd23
             g == OpenTransfer(t, d, n, auto)
  <2>1. h = g
    BY <1>3, <1>9 DEF FirstCommand, SetBlockCountAdma2, d, n
  <2>2. auto \in BOOLEAN /\ (auto <=> t.hasCmd23)
    BY <1>9 DEF Traits
  <2> HIDE DEF auto
  <2>3. TransfersMany(t, g, d, n, auto)
    BY <1>2, <1>3, <1>7, <2>2, OpenTransferIs, Zenon
  <2> HIDE DEF g
  <2>4. g.auto23 <=> t.hasCmd23
    BY <2>2, <2>3, Zenon DEF TransfersMany
  <2>5. /\ g \in Cmds /\ SamePart(g, d)
        /\ g.cmd = ReadWriteMultiple(g) /\ g.arg = d.sector /\ g.hasData
        /\ g.cmd12 <=> ~t.hasCmd23
        /\ g.nblk = n
    BY <2>3, Zenon DEF TransfersMany
  <2>6. Progress(t, r, g) /\ Share(t, r, g) = n
    BY <1>5, <1>7, <1>9, <2>5, ProgressKept
  <2>7. AtData(t, r, g, 0, -1)
    BY <1>3, <2>4, <2>5, <2>6 DEF AtData, SamePart
  <2> QED
    BY <2>1, <2>5, <2>6, <2>7 DEF Issued
<1> QED
  BY <1>6, <1>8, <1>9

LEMMA InitSequenceInv == Init => SequenceInv
<1> SUFFICES ASSUME Init PROVE SequenceInv
  OBVIOUS
<1>1. k \in Traits /\ request \in RequestLists
  BY InoutSequenceAssumption DEF Init, RequestLists
<1>2. count = -1 /\ ~streaming /\ moved = <<>> /\ Pending
  BY DEF Init, NoAnswer, Pending
<1>3. c \in Cmds /\ Issued(k, request, c, 0, -1)
  <2>1. PICK read \in BOOLEAN :
          c = FirstCommand(k, InitInout(CreatedCmd, FirstSector, request, 0, read))
    BY DEF Init
  <2> QED
    BY <1>1, <2>1, FirstCommandIssued
<1>4. moved = Sectors(Len(moved)) /\ Len(moved) = 0
  BY <1>2 DEF Sectors
<1>5. NumSectors(request) \in Nat
  BY <1>1, NumSectorsType DEF RequestLists
<1> QED
  BY <1>1, <1>2, <1>3, <1>4, <1>5 DEF SequenceInv

\* Which command is on its way.
LEMMA AtWhich ==
  ASSUME NEW t, NEW r, NEW d, NEW n, NEW m, Issued(t, r, d, n, m)
  PROVE  /\ d.cmd = "CMD23" => AtCmd23(t, r, d, n, m)
         /\ d.hasData => AtData(t, r, d, n, m)
         /\ d.cmd \in StopTransmission => AtStop(t, r, d, n, m)
<1>1. AtCmd23(t, r, d, n, m) => d.cmd = "CMD23" /\ ~d.hasData /\ d.cmd \notin StopTransmission
  BY DEF AtCmd23, StopTransmission
<1>2. AtData(t, r, d, n, m) => d.hasData /\ d.cmd # "CMD23" /\ d.cmd \notin StopTransmission
  BY ReadWrite DEF AtData
<1>3. AtStop(t, r, d, n, m)
        => d.cmd \in StopTransmission /\ ~d.hasData /\ d.cmd # "CMD23"
  BY DEF AtStop, StopTransmission
<1> QED
  BY <1>1, <1>2, <1>3 DEF Issued

LEMMA SmallMod ==
  ASSUME NEW n \in Nat, NEW m \in Nat \ {0}, n < m
  PROVE  n % m = n
  OBVIOUS

\* An announced count is that of the data command on its way, or cut to 16 bits.
LEMMA CountOfData ==
  ASSUME NEW t \in Traits, NEW r \in RequestLists, NEW d \in Cmds, NEW n, NEW m,
         Issued(t, r, d, n, m), m # -1
  PROVE  /\ d.hasData /\ d.cmd \in MultipleBlock /\ ~d.auto23
         /\ d.nblk = m \/ MaxBlocks < d.nblk
<1>1. AtData(t, r, d, n, m)
  BY DEF Issued, AtCmd23, AtStop
<1>2. d.cmd = ReadWriteMultiple(d) /\ t.hasCmd23 /\ ~d.auto23 /\ m = d.nblk % CountMod
  BY <1>1 DEF AtData, Traits, Cmds
<1>3. d.nblk \in Nat /\ (d.nblk < CountMod => d.nblk % CountMod = d.nblk)
  <2>1. d.nblk \in Nat
    BY DEF Cmds
  <2> QED
    BY <2>1, CountModAssumption, SmallMod
<1>4. d.nblk < CountMod \/ MaxBlocks < d.nblk
  BY <1>3, CountModAssumption, DmaDescAssumption, InoutSequenceAssumption
<1> QED
  BY <1>1, <1>2, <1>3, <1>4, ReadWrite DEF AtData

\* The end of a command, whatever it has moved.
LEMMA EndedKeepsInv ==
  ASSUME SequenceInv, NEW s, Ended(s),
         EndOf(k, request, HandleIrqInout(k, [c EXCEPT !.status = s]), Len(moved'), count'),
         moved' = Sectors(Len(moved')), Len(moved') \in 0 .. NumSectors(request),
         streaming' =>
           LET h == HandleIrqInout(k, [c EXCEPT !.status = s])
           IN  h.reply = "none" /\ h.cmd.cmd \in StopTransmission
  PROVE  SequenceInv'
<1> DEFINE h == HandleIrqInout(k, [c EXCEPT !.status = s])
<1>1. /\ c' = h.cmd /\ answer' = [reply |-> h.reply, sectors |-> h.sectors]
      /\ k' = k /\ request' = request
  BY DEF Ended, fixed
<1>2. EndOf(k, request, h, Len(moved'), count')
      /\ (streaming' => h.reply = "none" /\ h.cmd.cmd \in StopTransmission)
  OBVIOUS
<1> HIDE DEF h
<1>3. Pending' <=> h.reply = "none"
  BY <1>1 DEF Pending
<1>4. k' \in Traits /\ request' \in RequestLists /\ c' \in Cmds
  BY <1>1, <1>2 DEF SequenceInv, EndOf
<1>5. Pending' => Issued(k', request', c', Len(moved'), count')
  BY <1>1, <1>2, <1>3 DEF EndOf
<1>6. ~Pending' => Answered(k', request', answer', Len(moved')) /\ count' = -1
  <2>1. ~Pending' => Answered(k, request, h, Len(moved')) /\ count' = -1
    BY <1>2, <1>3 DEF EndOf
  <2>2. answer'.reply = h.reply /\ answer'.sectors = h.sectors
    BY <1>1
  <2> QED
    BY <1>1, <2>1, <2>2 DEF Answered
<1>7. streaming' => Pending' /\ c'.cmd \in StopTransmission
  BY <1>1, <1>2, <1>3
<1> QED
  BY <1>1, <1>4, <1>5, <1>6, <1>7 DEF SequenceInv, CountLeft, Sectors

LEMMA SetBlockCountKeepsInv ==
  ASSUME SequenceInv, SetBlockCount PROVE SequenceInv'
<1> DEFINE h == HandleIrqInout(k, [c EXCEPT !.status = "Success"])
<1>1. /\ Pending /\ c.cmd = "CMD23" /\ count' = c.arg /\ Ended("Success")
      /\ moved' = moved /\ streaming' = streaming
  BY DEF SetBlockCount
<1>2. /\ k \in Traits /\ request \in RequestLists /\ c \in Cmds
      /\ Progress(k, request, c) /\ AtCmd23(k, request, c, Len(moved), count)
  BY <1>1, AtWhich DEF SequenceInv, Issued
<1>3. EndOf(k, request, h, Len(moved), c.arg)
  <2>1. "Success" \in EndStatus
    BY DEF EndStatus
  <2>2. EndOf(k, request, h, Len(moved), IF "Success" = "Success" THEN c.arg ELSE -1)
    BY <1>2, <2>1, Cmd23Ends, Zenon
  <2> QED
    BY <2>2
<1>4. ~streaming
  BY <1>1 DEF SequenceInv, StopTransmission
<1> HIDE DEF h
<1> QED
  BY <1>1, <1>3, <1>4, EndedKeepsInv DEF SequenceInv, h

LEMMA SubmitThrowsKeepsInv ==
  ASSUME SequenceInv, SubmitThrows PROVE SequenceInv'
<1>1. /\ Pending /\ c.hasData
      /\ k' = k /\ request' = request /\ c' = c /\ count' = count /\ moved' = moved
      /\ streaming' = streaming
      /\ answer'.sectors = 0 /\ answer'.reply \in {"thrown", "lost"}
  BY DEF SubmitThrows, fixed
<1>2. /\ k \in Traits /\ request \in RequestLists /\ c \in Cmds
      /\ Issued(k, request, c, Len(moved), count)
      /\ AtData(k, request, c, Len(moved), count)
      /\ Len(moved) \in Nat
  BY <1>1, AtWhich DEF SequenceInv
<1>3. c.cmd \notin StopTransmission
  BY <1>2, ReadWrite DEF AtData
<1>4. ~streaming
  BY <1>3 DEF SequenceInv
<1>5. CountLeft
  BY <1>2, CountOfData DEF CountLeft
<1>6. ~Pending' /\ Answered(k', request', answer', Len(moved'))
  BY <1>1, <1>2 DEF Pending, Answered
<1> QED
  BY <1>1, <1>2, <1>4, <1>5, <1>6 DEF SequenceInv, CountLeft, Sectors

\* Without a count, neither announced nor given with the command, CMD12 is due.
LEMMA StopIsDue ==
  ASSUME NEW t \in Traits, NEW r, NEW d \in Cmds, NEW n,
         AtData(t, r, d, n, -1), d.cmd \in MultipleBlock, ~d.auto23
  PROVE  d.cmd12
<1>1. d.cmd = ReadWriteMultiple(d)
  BY ReadWrite DEF AtData
<1>2. d.cmd # ReadWriteSingle(d)
  BY ReadWrite
<1>3. t.hasCmd23 => -1 = d.nblk % CountMod
  BY <1>2 DEF AtData
<1>4. d.nblk % CountMod \in Nat
  BY CountModAssumption DEF Cmds
<1>5. ~t.hasCmd23
  BY <1>3, <1>4
<1> QED
  BY <1>2, <1>5 DEF AtData

\* A transfer of what is due goes on where the one before it has ended.
LEMMA MovedGoesOn ==
  ASSUME NEW l \in Nat, NEW n \in Nat, NEW a, a = FirstSector + l
  PROVE  /\ Sectors(l) \o [i \in 1 .. n |-> a + i - 1] = Sectors(l + n)
         /\ Len(Sectors(l + n)) = l + n
<1> DEFINE s == [i \in 1 .. n |-> a + i - 1]
<1>1. Sectors(l) \in Seq(Nat) /\ Len(Sectors(l)) = l
      /\ Sectors(l + n) \in Seq(Nat) /\ Len(Sectors(l + n)) = l + n
      /\ s \in Seq(Nat) /\ Len(s) = n
  BY InoutSequenceAssumption DEF Sectors
<1>2. Sectors(l) \o s \in Seq(Nat) /\ Len(Sectors(l) \o s) = l + n
      /\ \A i \in 1 .. l + n :
           (Sectors(l) \o s)[i] = IF i <= l THEN Sectors(l)[i] ELSE s[i - l]
  BY <1>1, ConcatProperties
<1>3. ASSUME NEW i \in 1 .. l + n PROVE (Sectors(l) \o s)[i] = Sectors(l + n)[i]
  <2>1. Sectors(l + n)[i] = FirstSector + (i - 1)
    BY DEF Sectors
  <2>2. CASE i <= l
    BY <1>2, <2>1, <2>2 DEF Sectors
  <2>3. CASE ~(i <= l)
    <3>1. i - l \in 1 .. n
      BY <2>3
    <3>2. s[i - l] = FirstSector + (i - 1)
      BY <3>1, InoutSequenceAssumption
    <3> HIDE DEF s
    <3> QED
      BY <1>2, <2>1, <2>3, <3>2
  <2> QED
    BY <2>2, <2>3
<1> HIDE DEF s
<1>4. Sectors(l) \o s = Sectors(l + n)
  BY <1>1, <1>2, <1>3, SeqEqual
<1> QED
  BY <1>1, <1>4 DEF s

LEMMA TransferKeepsInv ==
  ASSUME SequenceInv, Transfer PROVE SequenceInv'
<1> DEFINE h == HandleIrqInout(k, [c EXCEPT !.status = "Success"])
           n == Len(moved)
<1>1. /\ Pending /\ c.hasData /\ count' = -1 /\ Ended("Success")
      /\ moved' = moved \o [i \in 1 .. c.nblk |-> c.arg + i - 1]
      /\ streaming' = (c.cmd \in MultipleBlock /\ count = -1 /\ ~c.auto23)
  BY DEF Transfer
<1>2. /\ k \in Traits /\ request \in RequestLists /\ c \in Cmds
      /\ Issued(k, request, c, n, count)
  BY <1>1 DEF SequenceInv
<1>3. /\ Progress(k, request, c) /\ AtData(k, request, c, n, count)
  BY <1>1, <1>2, AtWhich DEF Issued
<1>4. /\ EndOf(k, request, h, n + c.nblk, -1)
      /\ c.cmd12 => h.reply = "none" /\ h.cmd.cmd \in StopTransmission
  <2>1. "Success" \in EndStatus
    BY DEF EndStatus
  <2>2. /\ EndOf(k, request, h, IF "Success" = "Success" THEN n + c.nblk ELSE n, -1)
        /\ c.cmd12 => h.reply = "none" /\ h.cmd.cmd \in StopTransmission
    BY <1>2, <1>3, <2>1, DataEnds, Zenon
  <2> QED
    BY <2>2
<1>5. /\ c.nblk \in Nat /\ c.arg = FirstSector + n /\ n \in Nat
      /\ n + c.nblk <= NumSectors(request) /\ NumSectors(request) \in Nat
  <2>1. /\ c.nblk = Share(k, request, c) /\ n = c.done /\ c.arg = c.sector
        /\ c.sector = FirstSector + c.done
    BY <1>3 DEF AtData, Progress
  <2>2. NumSectors(request) \in Nat
    BY <1>2, NumSectorsType DEF RequestLists
  <2> QED
    BY <1>2, <1>3, <2>1, <2>2, ShareInside
<1>6. moved = Sectors(n)
  BY DEF SequenceInv
<1>7. moved' = Sectors(n + c.nblk) /\ Len(moved') = n + c.nblk
  <2> HIDE DEF h, n
  <2>1. Sectors(n) \o [i \in 1 .. c.nblk |-> c.arg + i - 1] = Sectors(n + c.nblk)
        /\ Len(Sectors(n + c.nblk)) = n + c.nblk
    BY <1>5, MovedGoesOn
  <2> QED
    BY <1>1, <1>6, <2>1
<1>8. streaming' => c.cmd12
  <2>1. streaming' => c.cmd \in MultipleBlock /\ count = -1 /\ ~c.auto23
    BY <1>1
  <2> QED
    BY <1>2, <1>3, <2>1, StopIsDue
<1> HIDE DEF h, n
<1>9. Len(moved') \in 0 .. NumSectors(request)
  BY <1>5, <1>7
<1>10. moved' = Sectors(Len(moved'))
  BY <1>7
<1> QED
  BY <1>1, <1>4, <1>7, <1>8, <1>9, <1>10, EndedKeepsInv DEF h

LEMMA StopTransferKeepsInv ==
  ASSUME SequenceInv, StopTransfer PROVE SequenceInv'
<1> DEFINE h == HandleIrqInout(k, [c EXCEPT !.status = "Success"])
<1>1. /\ Pending /\ c.cmd \in StopTransmission /\ Ended("Success")
      /\ count' = count /\ moved' = moved /\ ~streaming'
  BY DEF StopTransfer
<1>2. /\ k \in Traits /\ request \in RequestLists /\ c \in Cmds
      /\ Progress(k, request, c) /\ AtStop(k, request, c, Len(moved), count)
  BY <1>1, AtWhich DEF SequenceInv, Issued
<1>3. count = -1 /\ "Success" \in EndStatus
  BY <1>2 DEF AtStop, EndStatus
<1>4. EndOf(k, request, h, Len(moved), -1)
  BY <1>2, <1>3, StopEnds
<1> HIDE DEF h
<1> QED
  BY <1>1, <1>3, <1>4, EndedKeepsInv DEF SequenceInv, h

LEMMA CommandFailsKeepsInv ==
  ASSUME SequenceInv, CommandFails PROVE SequenceInv'
<1>1. PICK s \in {"Cmd_timeout", "Cmd_error", "Data_error"} :
        /\ s = "Data_error" => c.hasData
        /\ streaming' = (s = "Data_error" /\ count = -1 /\ ~c.auto23
                           /\ c.cmd \in MultipleBlock)
        /\ Ended(s)
  BY DEF CommandFails
<1>2. Pending /\ count' = -1 /\ moved' = moved
  BY DEF CommandFails
<1> DEFINE h == HandleIrqInout(k, [c EXCEPT !.status = s])
           n == Len(moved)
<1>3. /\ k \in Traits /\ request \in RequestLists /\ c \in Cmds
      /\ Issued(k, request, c, n, count) /\ Progress(k, request, c)
  BY <1>2 DEF SequenceInv, Issued
<1>4. s \in EndStatus /\ s # "Success"
  BY DEF EndStatus, ErrorStatus
<1>5. /\ EndOf(k, request, h, n, -1)
      /\ c.hasData /\ c.cmd12 => h.reply = "none" /\ h.cmd.cmd \in StopTransmission
  <2>1. CASE AtCmd23(k, request, c, n, count)
    <3>1. EndOf(k, request, h, n, IF s = "Success" THEN c.arg ELSE -1)
      BY <1>3, <1>4, <2>1, Cmd23Ends, Zenon
    <3>2. ~c.hasData
      BY <2>1 DEF AtCmd23
    <3> QED
      BY <1>4, <3>1, <3>2
  <2>2. CASE AtData(k, request, c, n, count)
    <3>1. /\ EndOf(k, request, h, IF s = "Success" THEN n + c.nblk ELSE n, -1)
          /\ c.cmd12 => h.reply = "none" /\ h.cmd.cmd \in StopTransmission
      BY <1>3, <1>4, <2>2, DataEnds, Zenon
    <3> QED
      BY <1>4, <3>1
  <2>3. CASE AtStop(k, request, c, n, count)
    <3>1. EndOf(k, request, h, n, -1)
      BY <1>3, <1>4, <2>3, StopEnds, Zenon
    <3>2. ~c.hasData
      BY <2>3 DEF AtStop
    <3> QED
      BY <3>1, <3>2
  <2> QED
    BY <1>3, <2>1, <2>2, <2>3 DEF Issued
<1>6. streaming' => c.hasData /\ c.cmd12
  <2>1. streaming' => /\ c.hasData /\ c.cmd \in MultipleBlock /\ count = -1 /\ ~c.auto23
    BY <1>1
  <2>2. c.hasData => AtData(k, request, c, n, count)
    BY <1>3, AtWhich
  <2> QED
    BY <1>3, <2>1, <2>2, StopIsDue
<1> HIDE DEF h
<1> QED
  BY <1>1, <1>2, <1>5, <1>6, EndedKeepsInv DEF SequenceInv, h

LEMMA NextKeepsSequenceInv ==
  ASSUME SequenceInv, [Next]_vars PROVE SequenceInv'
<1>1. CASE UNCHANGED vars
  BY <1>1 DEF vars, fixed, SequenceInv, Pending, CountLeft, Sectors
<1> QED
  BY <1>1, CommandFailsKeepsInv, SubmitThrowsKeepsInv, SetBlockCountKeepsInv,
     TransferKeepsInv, StopTransferKeepsInv DEF Next

THEOREM SequenceInvariant == Spec => []SequenceInv
<1>1. Init => SequenceInv
  BY InitSequenceInv
<1>2. SequenceInv /\ [Next]_vars => SequenceInv'
  BY NextKeepsSequenceInv
<1> QED
  BY <1>1, <1>2, PTL DEF Spec

-----------------------------------------------------------------------------
\* Whatever fails on the way, the sectors moved are the first ones of the request,
\* each once and in order, and none beyond it.
THEOREM AlwaysMovesPrefix == Spec => []MovesPrefix
<1>1. SequenceInv => MovesPrefix
  BY DEF SequenceInv, MovesPrefix
<1> QED
  BY <1>1, SequenceInvariant, PTL

\* With SDMA the answer of handle_irq_inout_sdma() tells how many sectors have been
\* moved, and never more than that.
THEOREM SdmaAlwaysReportsMoved == Spec => []SdmaReportsMoved
<1>1. SequenceInv => SdmaReportsMoved
  BY DEF SequenceInv, SdmaReportsMoved, Answered
<1> QED
  BY <1>1, SequenceInvariant, PTL

\* The count of CMD23 is that of the data command behind it, for counts of any size.
THEOREM CountAlwaysMatches == Spec => []CountMatchesTransfer
<1>1. ASSUME SequenceInv PROVE CountMatchesTransfer
  <2>1. k \in Traits /\ request \in RequestLists /\ c \in Cmds
        /\ (Pending => Issued(k, request, c, Len(moved), count))
    BY <1>1 DEF SequenceInv
  <2>2. ASSUME Pending, c.hasData PROVE c.nblk > 0
    <3>1. AtData(k, request, c, Len(moved), count) /\ Progress(k, request, c)
      BY <2>1, <2>2, AtWhich DEF Issued
    <3> QED
      BY <2>1, <3>1, ShareInside DEF AtData
  <2>3. CountLeft
    <3>1. CASE Pending
      BY <2>1, <3>1, CountOfData DEF CountLeft
    <3>2. CASE ~Pending
      BY <1>1, <3>2 DEF SequenceInv
    <3> QED
      BY <3>1, <3>2
  <2>4. MaxBlocks < c.nblk => ~Submits
    BY <2>1, DmaDescAssumption DEF Submits, Submittable, Cmds
  <2> QED
    BY <2>2, <2>3, <2>4 DEF CountMatchesTransfer, CountLeft
<1> QED
  BY <1>1, SequenceInvariant, PTL

\* After an open-ended transfer, good or bad, the next command is CMD12, and the
\* request is not answered before (inout_cmd12).
THEOREM StopAlwaysFollowsTransfer == Spec => []StopFollowsOpenTransfer
<1>1. SequenceInv => StopFollowsOpenTransfer
  BY DEF SequenceInv, StopFollowsOpenTransfer
<1> QED
  BY <1>1, SequenceInvariant, PTL

-----------------------------------------------------------------------------
(* FlattenSeq, by the places its parts have in it.                         *)

Lengths(ss) == [i \in DOMAIN ss |-> Len(ss[i])]
Starts(ss) == SectorSums(Lengths(ss))

LEMMA LengthsType ==
  ASSUME NEW T, NEW ss \in Seq(Seq(T))
  PROVE  /\ Lengths(ss) \in Seq(Nat) /\ Len(Lengths(ss)) = Len(ss)
         /\ Starts(ss) \in [0 .. Len(ss) -> Nat] /\ Starts(ss)[0] = 0
         /\ \A i \in 1 .. Len(ss) : Starts(ss)[i] = Starts(ss)[i - 1] + Len(ss[i])
<1>1. Lengths(ss) \in Seq(Nat) /\ Len(Lengths(ss)) = Len(ss)
  BY DEF Lengths
<1>2. IsSums(Starts(ss), Lengths(ss), Len(ss))
  BY <1>1, SumsAreSums DEF Starts
<1>3. \A i \in 1 .. Len(ss) : Lengths(ss)[i] = Len(ss[i])
  BY DEF Lengths
<1> QED
  BY <1>1, <1>2, <1>3 DEF IsSums

IsFlat(f, ss, n) ==
  /\ f = [i \in 1 .. n |-> f[i]]
  /\ \A i \in 1 .. n : f[i] = IF i = 1 THEN ss[i] ELSE f[i - 1] \o ss[i]

LEMMA FlatsExist ==
  ASSUME NEW ss, NEW N \in Nat
  PROVE  \A n \in 0 .. N : \E f : IsFlat(f, ss, n)
<1> DEFINE S == {n \in 0 .. N : ~\E f : IsFlat(f, ss, n)}
<1> SUFFICES ASSUME S # {} PROVE FALSE
  OBVIOUS
<1>1. PICK m \in S : \A x \in S : m <= x
  <2>1. S \subseteq Nat
    OBVIOUS
  <2> HIDE DEF S
  <2> QED
    BY <2>1, LeastNat
<1>2. CASE m = 0
  <2>1. IsFlat([i \in 1 .. 0 |-> i], ss, 0)
    BY DEF IsFlat
  <2> QED
    BY <1>2, <2>1
<1>3. CASE m # 0
  <2>1. m - 1 \in 0 .. N /\ m - 1 \notin S /\ m \in 1 .. N
    BY <1>1, <1>3
  <2>2. PICK f : IsFlat(f, ss, m - 1)
    BY <2>1
  <2> DEFINE v == IF m = 1 THEN ss[m] ELSE f[m - 1] \o ss[m]
             g == [i \in 1 .. m |-> IF i = m THEN v ELSE f[i]]
  <2> HIDE DEF v
  <2>3. g = [i \in 1 .. m |-> g[i]]
    OBVIOUS
  <2>4. ASSUME NEW i \in 1 .. m
        PROVE  g[i] = IF i = 1 THEN ss[i] ELSE g[i - 1] \o ss[i]
    <3>1. CASE i = m /\ m = 1
      BY <3>1 DEF v
    <3>2. CASE i = m /\ m # 1
      <4>1. m - 1 \in 1 .. m /\ m - 1 # m
        BY <2>1, <3>2
      <4>2. g[m - 1] = f[m - 1] /\ g[m] = v
        BY <4>1
      <4>3. v = f[m - 1] \o ss[m]
        BY <3>2 DEF v
      <4> HIDE DEF g
      <4> QED
        BY <3>2, <4>2, <4>3
    <3>3. CASE i # m
      <4>1. i \in 1 .. m - 1 /\ (i # 1 => i - 1 \in 1 .. m /\ i - 1 # m)
        BY <2>1, <3>3
      <4>2. g[i] = f[i] /\ (i # 1 => g[i - 1] = f[i - 1])
        BY <3>3, <4>1
      <4>3. f[i] = IF i = 1 THEN ss[i] ELSE f[i - 1] \o ss[i]
        BY <2>2, <4>1 DEF IsFlat
      <4> HIDE DEF g
      <4> QED
        BY <4>2, <4>3
    <3> QED
      BY <3>1, <3>2, <3>3
  <2> HIDE DEF g
  <2>6. IsFlat(g, ss, m)
    BY <2>3, <2>4 DEF IsFlat
  <2> QED
    BY <2>6
<1> QED
  BY <1>2, <1>3

LEMMA FlattenIsFlat ==
  ASSUME NEW ss, Len(ss) \in Nat, Len(ss) # 0
  PROVE  \E f : IsFlat(f, ss, Len(ss)) /\ FlattenSeq(ss) = f[Len(ss)]
<1>1. PICK f : IsFlat(f, ss, Len(ss))
  BY FlatsExist
<1> DEFINE Body(g) == [i \in 1 .. Len(ss) |-> IF i = 1 THEN ss[i] ELSE g[i - 1] \o ss[i]]
           h == CHOOSE g : g = Body(g)
<1>2. f = Body(f)
  BY <1>1 DEF IsFlat
<1>3. h = Body(h)
  BY <1>2
<1>4. FlattenSeq(ss) = h[Len(ss)]
  BY Zenon DEF FlattenSeq
<1> HIDE DEF h
<1>5. IsFlat(h, ss, Len(ss))
  BY <1>3 DEF IsFlat
<1> QED
  BY <1>4, <1>5

\* The first n parts, flattened to s, begin where Starts says.
Laid(s, ss, n) ==
  /\ Len(s) = Starts(ss)[n]
  /\ \A i \in 1 .. n : \A j \in 1 .. Len(ss[i]) :
       Starts(ss)[i - 1] + j \in 1 .. Len(s) /\ s[Starts(ss)[i - 1] + j] = ss[i][j]
  /\ \A p \in 1 .. Len(s) : \E i \in 1 .. n : \E j \in 1 .. Len(ss[i]) :
       p = Starts(ss)[i - 1] + j

LEMMA LaidFurther ==
  ASSUME NEW T, NEW ss \in Seq(Seq(T)), NEW n \in 1 .. Len(ss),
         NEW s \in Seq(T), Laid(s, ss, n - 1)
  PROVE  Laid(s \o ss[n], ss, n)
<1> DEFINE a == Starts(ss)
           t == s \o ss[n]
           l == Len(s)
           e == Len(ss[n])
<1>1. /\ l \in Nat /\ e \in Nat /\ Len(t) = l + e /\ ss[n] \in Seq(T)
      /\ \A x \in 1 .. l : t[x] = s[x]
      /\ \A x \in 1 .. e : t[l + x] = ss[n][x]
  <2>1. ss[n] \in Seq(T)
    OBVIOUS
  <2> QED
    BY <2>1, ConcatProperties
<1>2. a[n] = a[n - 1] + e /\ a[n - 1] = l
  BY LengthsType DEF Laid
<1>3. Len(t) = a[n]
  BY <1>1, <1>2
<1>4. ASSUME NEW i \in 1 .. n, NEW j \in 1 .. Len(ss[i])
      PROVE  a[i - 1] + j \in 1 .. Len(t) /\ t[a[i - 1] + j] = ss[i][j]
  <2>1. CASE i = n
    <3>1. a[i - 1] + j = l + j /\ j \in 1 .. e
      BY <1>2, <2>1
    <3> HIDE DEF t, l, e, a
    <3> QED
      BY <1>1, <2>1, <3>1
  <2>2. CASE i # n
    <3>1. i \in 1 .. n - 1
      BY <2>2
    <3>2. a[i - 1] + j \in 1 .. l /\ s[a[i - 1] + j] = ss[i][j]
      BY <3>1, Zenon DEF Laid
    <3> HIDE DEF t, l, e, a
    <3>3. \A x \in 1 .. l : x \in 1 .. l + e
      BY <1>1
    <3> QED
      BY <1>1, <3>2, <3>3
  <2> QED
    BY <2>1, <2>2
<1>5. ASSUME NEW p \in 1 .. Len(t)
      PROVE  \E i \in 1 .. n : \E j \in 1 .. Len(ss[i]) : p = a[i - 1] + j
  <2>1. CASE p \in 1 .. l
    <3>1. PICK i \in 1 .. n - 1 : \E j \in 1 .. Len(ss[i]) : p = a[i - 1] + j
      BY <2>1 DEF Laid
    <3>2. i \in 1 .. n
      OBVIOUS
    <3> QED
      BY <3>1, <3>2
  <2>2. CASE p \notin 1 .. l
    <3>1. p - l \in 1 .. e /\ p = l + (p - l) /\ n \in 1 .. n
      BY <1>1, <2>2
    <3>2. \E j \in 1 .. Len(ss[n]) : p = a[n - 1] + j
      BY <1>2, <3>1
    <3> QED
      BY <3>1, <3>2
  <2> QED
    BY <2>1, <2>2
<1> QED
  BY <1>3, <1>4, <1>5 DEF Laid

LEMMA NoneLaid ==
  ASSUME NEW T, NEW ss \in Seq(Seq(T))
  PROVE  Laid(<<>>, ss, 0)
<1>1. Len(<<>>) = Starts(ss)[0]
  BY LengthsType
<1>2. 1 .. 0 = {} /\ 1 .. Len(<<>>) = {}
  OBVIOUS
<1> QED
  BY <1>1, <1>2 DEF Laid

LEMMA FlattenLays ==
  ASSUME NEW T, NEW ss \in Seq(Seq(T))
  PROVE  FlattenSeq(ss) \in Seq(T) /\ Laid(FlattenSeq(ss), ss, Len(ss))
<1>1. CASE ss = <<>>
  <2>1. FlattenSeq(ss) = <<>>
    BY <1>1, Zenon DEF FlattenSeq
  <2>2. Laid(<<>>, ss, 0)
    BY NoneLaid, Zenon
  <2>3. Len(ss) = 0 /\ <<>> \in Seq(T)
    BY <1>1
  <2> QED
    BY <2>1, <2>2, <2>3
<1>2. CASE ss # <<>>
  <2>1. Len(ss) \in Nat \ {0}
    BY <1>2
  <2>2. PICK f : IsFlat(f, ss, Len(ss)) /\ FlattenSeq(ss) = f[Len(ss)]
    BY <2>1, FlattenIsFlat
  <2> DEFINE Good(n) == f[n] \in Seq(T) /\ Laid(f[n], ss, n)
             S == {n \in 1 .. Len(ss) : ~Good(n)}
  <2>3. S = {}
    <3> SUFFICES ASSUME S # {} PROVE FALSE
      OBVIOUS
    <3>1. PICK m \in S : \A x \in S : m <= x
      <4>1. S \subseteq Nat
        OBVIOUS
      <4> HIDE DEF S
      <4> QED
        BY <4>1, LeastNat
    <3>2. CASE m = 1
      <4>1. 1 \in 1 .. Len(ss) /\ <<>> \in Seq(T) /\ ss[1] \in Seq(T)
        BY <3>1, <3>2
      <4>2. Laid(<<>>, ss, 1 - 1)
        BY NoneLaid
      <4>3. Laid(<<>> \o ss[1], ss, 1)
        BY <4>1, <4>2, LaidFurther
      <4>4. <<>> \o ss[1] = ss[1]
        BY <4>1, ConcatEmptySeq
      <4>5. f[1] = ss[1]
        BY <2>2, <4>1 DEF IsFlat
      <4> QED
        BY <3>1, <3>2, <4>1, <4>3, <4>4, <4>5
    <3>3. CASE m # 1
      <4>1. m \in 1 .. Len(ss) /\ m - 1 \in 1 .. Len(ss) /\ m - 1 \notin S
        BY <3>1, <3>3
      <4>2. f[m - 1] \in Seq(T) /\ Laid(f[m - 1], ss, m - 1)
        BY <4>1
      <4>3. f[m] = f[m - 1] \o ss[m]
        BY <2>2, <3>3, <4>1 DEF IsFlat
      <4>4. Laid(f[m - 1] \o ss[m], ss, m)
        BY <4>1, <4>2, LaidFurther
      <4>5. ss[m] \in Seq(T)
        BY <4>1
      <4>6. f[m - 1] \o ss[m] \in Seq(T)
        BY <4>2, <4>5, ConcatProperties
      <4> QED
        BY <3>1, <4>3, <4>4, <4>6
    <3> QED
      BY <3>2, <3>3
  <2>4. Len(ss) \in 1 .. Len(ss)
    BY <2>1
  <2> QED
    BY <2>2, <2>3, <2>4
<1> QED
  BY <1>1, <1>2

\* What is in the parts is in the whole.
LEMMA FlattenRange ==
  ASSUME NEW T, NEW ss \in Seq(Seq(T))
  PROVE  Range(FlattenSeq(ss)) = UNION {Range(ss[i]) : i \in DOMAIN ss}
<1> DEFINE s == FlattenSeq(ss)
<1>1. s \in Seq(T) /\ Laid(s, ss, Len(ss))
  BY FlattenLays
<1> HIDE DEF s
<1>2. DOMAIN s = 1 .. Len(s) /\ DOMAIN ss = 1 .. Len(ss)
      /\ \A i \in DOMAIN ss : DOMAIN ss[i] = 1 .. Len(ss[i])
  <2>1. \A i \in DOMAIN ss : ss[i] \in Seq(T)
    OBVIOUS
  <2> QED
    BY <1>1, <2>1
<1>3. ASSUME NEW p \in DOMAIN s PROVE \E i \in DOMAIN ss : s[p] \in Range(ss[i])
  <2>1. PICK i \in 1 .. Len(ss) : \E j \in 1 .. Len(ss[i]) : p = Starts(ss)[i - 1] + j
    BY <1>1, <1>2, Zenon DEF Laid
  <2>2. PICK j \in 1 .. Len(ss[i]) : p = Starts(ss)[i - 1] + j
    BY <2>1
  <2>3. s[p] = ss[i][j] /\ i \in DOMAIN ss /\ j \in DOMAIN ss[i]
    BY <1>1, <1>2, <2>2 DEF Laid
  <2> QED
    BY <2>2, <2>3 DEF Range
<1>4. ASSUME NEW i \in DOMAIN ss, NEW j \in DOMAIN ss[i] PROVE ss[i][j] \in Range(s)
  BY <1>1, <1>2 DEF Laid, Range
<1> QED
  BY <1>3, <1>4 DEF s, Range

-----------------------------------------------------------------------------
(* What sums are bounded by.                                               *)

LEMMA SumsBelow ==
  ASSUME NEW r \in Seq(Nat), NEW q \in Seq(Nat), Len(q) = Len(r),
         \A i \in 1 .. Len(r) : r[i] <= q[i]
  PROVE  \A n \in 0 .. Len(r) : SectorSums(r)[n] <= SectorSums(q)[n]
<1> DEFINE s == SectorSums(r)
           t == SectorSums(q)
           S == {n \in 0 .. Len(r) : ~(s[n] <= t[n])}
<1>1. IsSums(s, r, Len(r)) /\ IsSums(t, q, Len(r))
  BY SumsAreSums
<1> HIDE DEF s, t
<1> SUFFICES ASSUME S # {} PROVE FALSE
  BY DEF s, t
<1>2. PICK m \in S : \A x \in S : m <= x
  <2>1. S \subseteq Nat
    OBVIOUS
  <2> HIDE DEF S
  <2> QED
    BY <2>1, LeastNat
<1>3. m # 0
  BY <1>1, <1>2 DEF IsSums
<1>4. m \in 1 .. Len(r) /\ m - 1 \in 0 .. Len(r) /\ m - 1 \notin S
  BY <1>2, <1>3
<1>5. s[m - 1] <= t[m - 1] /\ r[m] <= q[m]
  BY <1>4
<1>6. /\ s[m] = s[m - 1] + r[m] /\ t[m] = t[m - 1] + q[m]
      /\ s[m - 1] \in Nat /\ t[m - 1] \in Nat /\ r[m] \in Nat /\ q[m] \in Nat
  <2> HIDE DEF S
  <2>1. r[m] \in Nat /\ q[m] \in Nat
    BY <1>4
  <2>2. s[m - 1] \in Nat /\ t[m - 1] \in Nat
    BY <1>1, <1>4 DEF IsSums
  <2>3. s[m] = s[m - 1] + r[m] /\ t[m] = t[m - 1] + q[m]
    BY <1>1, <1>4 DEF IsSums
  <2> QED
    BY <2>1, <2>2, <2>3
<1>7. s[m] <= t[m]
  <2> DEFINE u == s[m - 1]
             v == t[m - 1]
             x == r[m]
             y == q[m]
  <2>1. /\ u \in Nat /\ v \in Nat /\ x \in Nat /\ y \in Nat
        /\ u <= v /\ x <= y /\ s[m] = u + x /\ t[m] = v + y
    BY <1>5, <1>6
  <2> HIDE DEF S, u, v, x, y
  <2>2. u + x <= v + y
    BY <2>1
  <2> QED
    BY <2>1, <2>2
<1> QED
  BY <1>2, <1>7

LEMMA TimesNext ==
  ASSUME NEW n \in Int, NEW m \in Int
  PROVE  (n - 1) * m + m = n * m
  OBVIOUS

LEMMA SumsAtMost ==
  ASSUME NEW r \in Seq(Nat), NEW m \in Nat, \A i \in 1 .. Len(r) : r[i] <= m
  PROVE  \A n \in 0 .. Len(r) : SectorSums(r)[n] <= n * m
<1> DEFINE s == SectorSums(r)
           S == {n \in 0 .. Len(r) : ~(s[n] <= n * m)}
<1>1. IsSums(s, r, Len(r))
  BY SumsAreSums
<1> HIDE DEF s
<1> SUFFICES ASSUME S # {} PROVE FALSE
  BY DEF s
<1>2. PICK l \in S : \A x \in S : l <= x
  <2>1. S \subseteq Nat
    OBVIOUS
  <2> HIDE DEF S
  <2> QED
    BY <2>1, LeastNat
<1>3. l # 0
  <2>1. s[0] <= 0 * m
    BY <1>1 DEF IsSums
  <2> QED
    BY <1>2, <2>1
<1>4. l \in 1 .. Len(r) /\ l - 1 \in 0 .. Len(r) /\ l - 1 \notin S
  BY <1>2, <1>3
<1>5. s[l - 1] <= (l - 1) * m /\ r[l] <= m
  BY <1>4
<1>6. s[l] = s[l - 1] + r[l] /\ s[l - 1] \in Nat /\ r[l] \in Nat
  <2> HIDE DEF S
  <2>1. r[l] \in Nat
    BY <1>4
  <2>2. s[l] = s[l - 1] + r[l] /\ s[l - 1] \in Nat
    BY <1>1, <1>4 DEF IsSums
  <2> QED
    BY <2>1, <2>2
<1>7. (l - 1) * m + m = l * m /\ (l - 1) * m \in Int
  <2>1. l \in Int
    BY <1>4
  <2> QED
    BY <2>1, TimesNext
<1>8. s[l] <= l * m
  <2> HIDE DEF S
  <2> DEFINE a == (l - 1) * m
             b == l * m
  <2>1. s[l - 1] <= a /\ a + m = b /\ a \in Int
    BY <1>5, <1>7
  <2> HIDE DEF a, b
  <2>2. s[l] <= b
    BY <1>5, <1>6, <2>1
  <2> QED
    BY <2>2 DEF b
<1> QED
  BY <1>2, <1>8

-----------------------------------------------------------------------------
(* Descriptors.                                                            *)

DmaBlocks == [addr : Nat, n : Nat]
DmaHosts == [maxSeg : Nat \ {0}, limit : Nat, maxAddr : Nat, bbAddr : Nat, bbSize : Nat]
Descriptors == [addr : Nat, length : Nat \ {0}, end : BOOLEAN]

LEMMA Division ==
  ASSUME NEW a \in Nat, NEW b \in Nat \ {0}
  PROVE  a \div b \in Nat /\ (a \div b) * b <= a /\ a < (a \div b + 1) * b
  BY SMTT(30)

LEMMA DescCountFacts ==
  ASSUME NEW n \in Nat
  PROVE  /\ DescCount(n) \in Nat /\ n <= DescCount(n) * MaxLength
         /\ n = 0 => DescCount(n) = 0
         /\ \A i \in 1 .. DescCount(n) : (i - 1) * MaxLength \in Nat /\ (i - 1) * MaxLength < n
<1> DEFINE L == MaxLength
           q == DescCount(n)
<1>1. L \in Nat \ {0} /\ n + L - 1 \in Nat
  BY DmaDescAssumption
<1>2. q \in Nat /\ q * L <= n + L - 1 /\ n + L - 1 < (q + 1) * L
  BY <1>1, Division DEF DescCount
<1> HIDE DEF L, q
<1>3. n <= q * L
  BY <1>1, <1>2
<1>4. n = 0 => q = 0
  BY <1>1, <1>2
<1>5. ASSUME NEW i \in 1 .. q PROVE (i - 1) * L \in Nat /\ (i - 1) * L < n
  <2>1. i * L <= q * L
    BY <1>1, <1>2
  <2>2. (i - 1) * L = i * L - L /\ (i - 1) * L \in Nat
    BY <1>1, <1>2
  <2> QED
    BY <1>1, <1>2, <2>1, <2>2
<1> QED
  BY <1>2, <1>3, <1>4, <1>5 DEF L, q

LEMMA DescCountGrows ==
  ASSUME NEW m \in Nat, NEW n \in 0 .. m
  PROVE  DescCount(n) <= DescCount(m)
<1>1. MaxLength \in Nat \ {0}
  BY DmaDescAssumption
<1> QED
  BY <1>1, SMTT(30) DEF DescCount

LEMMA MinOfTwo ==
  ASSUME NEW a \in Nat, NEW b \in Nat
  PROVE  Min({a, b}) \in {a, b} /\ Min({a, b}) <= a /\ Min({a, b}) <= b
  BY DEF Min

\* The i-th descriptor of a block of n sectors.
IsDesc(e, addr, n, terminate, i) ==
  /\ e.addr = addr + (i - 1) * MaxLength
  /\ e.length <= MaxLength /\ e.addr + e.length <= addr + n
  /\ i < DescCount(n) => e.length = MaxLength
  /\ i = DescCount(n) => e.addr + e.length = addr + n
  /\ e.end <=> terminate /\ i = DescCount(n)

\* The descriptors of a block are in it, one behind the other.
LEMMA DescsFacts ==
  ASSUME NEW addr \in Nat, NEW n \in Nat, NEW terminate \in BOOLEAN
  PROVE  /\ Descs(addr, n, terminate) \in Seq(Descriptors)
         /\ Len(Descs(addr, n, terminate)) = DescCount(n)
         /\ \A i \in 1 .. DescCount(n) :
              IsDesc(Descs(addr, n, terminate)[i], addr, n, terminate, i)
<1> DEFINE q == DescCount(n)
           L == MaxLength
           D(i) == [addr |-> addr + (i - 1) * L,
                    length |-> Min({L, n - (i - 1) * L}),
                    end |-> terminate /\ i = q]
           s == Descs(addr, n, terminate)
<1>1. L \in Nat \ {0} /\ q \in Nat /\ n <= q * L
  BY DmaDescAssumption, DescCountFacts
<1>2. s = [i \in 1 .. q |-> D(i)]
  BY DEF Descs, DescCount
<1>3. ASSUME NEW i \in 1 .. q
      PROVE  /\ D(i) \in Descriptors
             /\ D(i).addr = addr + (i - 1) * L
             /\ D(i).length <= L /\ D(i).addr + D(i).length <= addr + n
             /\ i < q => D(i).length = L
             /\ i = q => D(i).addr + D(i).length = addr + n
             /\ D(i).end <=> terminate /\ i = q
  <2> DEFINE o == (i - 1) * L
             l == Min({L, n - o})
  <2>1. o \in Nat /\ o < n
    BY DescCountFacts
  <2>2. i < q => o + L < n
    <3>1. ASSUME i < q PROVE i * L < n
      <4>1. i + 1 \in 1 .. q /\ (i + 1) - 1 = i
        BY <1>1, <3>1
      <4> QED
        BY <4>1, DescCountFacts
    <3>2. o + L = i * L
      BY <1>1, TimesNext
    <3> QED
      BY <3>1, <3>2
  <2>3. i = q => n <= o + L
    BY <1>1, TimesNext
  <2> HIDE DEF o
  <2>4. l \in {L, n - o} /\ l <= L /\ l <= n - o
    <3>1. n - o \in Nat /\ L \in Nat
      BY <1>1, <2>1
    <3> QED
      BY <3>1, MinOfTwo
  <2> HIDE DEF L, q
  <2>5. l \in Nat \ {0} /\ (i < q => l = L) /\ (i = q => o + l = n)
    BY <1>1, <2>1, <2>2, <2>3, <2>4
  <2>6. D(i) = [addr |-> addr + o, length |-> l, end |-> terminate /\ i = q]
    BY DEF o
  <2> HIDE DEF D, l
  <2>7. D(i).addr = addr + o /\ D(i).length = l /\ D(i).end = (terminate /\ i = q)
    BY <2>6
  <2>8. D(i) \in Descriptors
    BY <2>1, <2>5, <2>6 DEF Descriptors
  <2>9. D(i).addr + D(i).length <= addr + n /\ (i = q => D(i).addr + D(i).length = addr + n)
    BY <2>1, <2>4, <2>5, <2>7
  <2> QED
    BY <2>4, <2>5, <2>7, <2>8, <2>9 DEF o
<1> HIDE DEF D, s, q, L
<1>4. s \in Seq(Descriptors) /\ Len(s) = q /\ \A i \in 1 .. q : s[i] = D(i)
  BY <1>1, <1>2, <1>3
<1> QED
  BY <1>3, <1>4 DEF s, q, L, IsDesc

LEMMA DescsType ==
  ASSUME NEW addr \in Nat, NEW n \in Nat, NEW terminate \in BOOLEAN
  PROVE  /\ Descs(addr, n, terminate) \in Seq(Descriptors)
         /\ Len(Descs(addr, n, terminate)) = DescCount(n)
  BY DescsFacts, Zenon

LEMMA DescAt ==
  ASSUME NEW addr \in Nat, NEW n \in Nat, NEW terminate \in BOOLEAN,
         NEW i \in 1 .. DescCount(n)
  PROVE  /\ Descs(addr, n, terminate)[i].addr = addr + (i - 1) * MaxLength
         /\ Descs(addr, n, terminate)[i].addr + Descs(addr, n, terminate)[i].length <= addr + n
<1>1. IsDesc(Descs(addr, n, terminate)[i], addr, n, terminate, i)
  BY DescsFacts, Zenon
<1> QED
  BY <1>1, Zenon DEF IsDesc

-----------------------------------------------------------------------------
(* Where the controller finds the blocks.                                  *)

Sizes(blocks) == [i \in DOMAIN blocks |-> blocks[i].n]

\* Blocks as inout_data() and setup_bounce_buffer() let them through.
Reached(d, blocks) ==
  /\ d \in DmaHosts /\ SetupBounceBuffer(d)
  /\ blocks \in Seq(DmaBlocks) /\ Admitted(d, Sizes(blocks))
  /\ Provided(d) \/ \A i \in DOMAIN blocks : Accessible(d, blocks[i])

LEMMA SizesType ==
  ASSUME NEW blocks \in Seq(DmaBlocks)
  PROVE  /\ Sizes(blocks) \in Seq(Nat) /\ Len(Sizes(blocks)) = Len(blocks)
         /\ \A i \in DOMAIN blocks : Sizes(blocks)[i] = blocks[i].n /\ blocks[i].n \in Nat
                                     /\ blocks[i].addr \in Nat
<1>1. \A i \in DOMAIN blocks : blocks[i] \in DmaBlocks
  OBVIOUS
<1>2. \A i \in DOMAIN blocks : blocks[i].n \in Nat /\ blocks[i].addr \in Nat
  BY <1>1 DEF DmaBlocks
<1> QED
  BY <1>2 DEF Sizes

LEMMA MaxSizeFacts ==
  ASSUME NEW d \in DmaHosts
  PROVE  /\ MaxSize(d) \in Nat
         /\ d.maxSeg * MaxSize(d) <= IF Provided(d) THEN d.bbSize ELSE MaxBlocks
         /\ MaxSize(d) <= IF Provided(d) THEN d.bbSize ELSE MaxBlocks
<1> DEFINE x == IF Provided(d) THEN d.bbSize ELSE MaxBlocks
           s == d.maxSeg
<1>1. x \in Nat /\ s \in Nat \ {0}
  BY DmaDescAssumption DEF DmaHosts
<1>2. MaxSize(d) = x \div s
  BY DEF MaxSize
<1> HIDE DEF x, s
<1>3. x \div s \in Nat /\ (x \div s) * s <= x
  BY <1>1, Division
<1> DEFINE m == x \div s
<1> HIDE DEF m
<1>4. m \in Nat /\ m * s <= x
  BY <1>3 DEF m
<1>5. m * s = s * m /\ m <= m * s
  BY <1>1, <1>4
<1>6. s * m <= x /\ m <= x
  BY <1>1, <1>4, <1>5
<1> QED
  BY <1>2, <1>4, <1>6 DEF m, x, s

\* What is admitted fits at once, however many blocks it is.
LEMMA AdmittedSum ==
  ASSUME NEW d \in DmaHosts, NEW sizes \in Seq(Nat), Admitted(d, sizes)
  PROVE  SectorSums(sizes)[Len(sizes)] <= IF Provided(d) THEN d.bbSize ELSE MaxBlocks
<1> DEFINE x == IF Provided(d) THEN d.bbSize ELSE MaxBlocks
           m == MaxSize(d)
           l == Len(sizes)
           s == d.maxSeg
           sum == SectorSums(sizes)[l]
<1>1. m \in Nat /\ s * m <= x /\ s \in Nat /\ l \in Nat /\ x \in Nat
  BY MaxSizeFacts, DmaDescAssumption DEF DmaHosts
<1>2. l <= s /\ \A i \in 1 .. l : sizes[i] <= m
  BY DEF Admitted
<1>3. sum <= l * m /\ sum \in Nat
  <2> HIDE DEF m
  <2>1. l \in 0 .. l
    BY <1>1
  <2> QED
    BY <1>1, <1>2, <2>1, SumsAtMost, NumSectorsType
<1> HIDE DEF x, m, l, s, sum
<1>4. l * m <= s * m
  BY <1>1, <1>2
<1>5. sum <= x
  BY <1>1, <1>3, <1>4
<1> QED
  BY <1>5 DEF x, l, sum

LEMMA BouncedFacts ==
  ASSUME NEW d \in DmaHosts, NEW blocks \in Seq(DmaBlocks)
  PROVE  /\ BouncedSizes(d, blocks) \in Seq(Nat)
         /\ Len(BouncedSizes(d, blocks)) = Len(blocks)
         /\ \A i \in 1 .. Len(blocks) : BouncedSizes(d, blocks)[i] <= Sizes(blocks)[i]
         /\ \A i \in 1 .. Len(blocks) : Bounced(d, blocks[i]) =>
              BouncedSizes(d, blocks)[i] = blocks[i].n
<1>1. \A i \in 1 .. Len(blocks) : Sizes(blocks)[i] = blocks[i].n /\ blocks[i].n \in Nat
  BY SizesType
<1> QED
  BY <1>1 DEF BouncedSizes

LEMMA OffsetFacts ==
  ASSUME NEW d \in DmaHosts, NEW blocks \in Seq(DmaBlocks), NEW i \in 1 .. Len(blocks)
  PROVE  /\ BounceOffset(d, blocks, i) \in Nat
         /\ Bounced(d, blocks[i]) =>
              BounceOffset(d, blocks, i) + blocks[i].n = SectorSums(BouncedSizes(d, blocks))[i]
<1>1. IsSums(SectorSums(BouncedSizes(d, blocks)), BouncedSizes(d, blocks), Len(blocks))
  BY BouncedFacts, SumsAreSums
<1>2. i - 1 \in 0 .. Len(blocks)
  OBVIOUS
<1> QED
  BY <1>1, <1>2, BouncedFacts DEF BounceOffset, IsSums

\* The bounce buffer holds all bounced blocks of a request.
LEMMA BounceFits ==
  ASSUME NEW d, NEW blocks, Reached(d, blocks), NEW i \in 1 .. Len(blocks),
         Bounced(d, blocks[i])
  PROVE  BounceOffset(d, blocks, i) + blocks[i].n <= d.bbSize
<1> DEFINE b == SectorSums(BouncedSizes(d, blocks))
           s == SectorSums(Sizes(blocks))
           l == Len(blocks)
<1>1. d \in DmaHosts /\ blocks \in Seq(DmaBlocks) /\ Admitted(d, Sizes(blocks)) /\ Provided(d)
  BY DEF Reached, Bounced
<1>2. l \in Nat /\ l \in i .. l /\ i \in 0 .. l /\ l \in 0 .. l
  BY <1>1
<1>3. BounceOffset(d, blocks, i) + blocks[i].n = b[i]
  BY <1>1, OffsetFacts
<1>4. b[i] <= b[l]
  BY <1>1, <1>2, BouncedFacts, SumsGrow
<1>5. b[l] <= s[l]
  BY <1>1, <1>2, BouncedFacts, SizesType, SumsBelow
<1>6. s[l] <= d.bbSize
  BY <1>1, SizesType, AdmittedSum
<1>7. b[i] \in Nat /\ b[l] \in Nat /\ s[l] \in Nat /\ d.bbSize \in Nat
  <2>1. IsSums(b, BouncedSizes(d, blocks), l)
    BY <1>1, BouncedFacts, SumsAreSums
  <2>2. IsSums(s, Sizes(blocks), l)
    BY <1>1, SizesType, SumsAreSums
  <2>3. d.bbSize \in Nat
    BY <1>1 DEF DmaHosts
  <2> QED
    BY <1>2, <2>1, <2>2, <2>3 DEF IsSums
<1> HIDE DEF b, s, l
<1> QED
  BY <1>3, <1>4, <1>5, <1>6, <1>7

\* Every sector of a block is where it was, or in the bounce buffer, and the
\* controller reaches it.
LEMMA DmaAddrFacts ==
  ASSUME NEW d, NEW blocks, Reached(d, blocks), NEW i \in 1 .. Len(blocks)
  PROVE  /\ DmaAddr(d, blocks, i) \in Nat
         /\ ~Bounced(d, blocks[i]) => DmaAddr(d, blocks, i) = blocks[i].addr
         /\ Bounced(d, blocks[i]) =>
              /\ DmaAddr(d, blocks, i) = d.bbAddr + BounceOffset(d, blocks, i)
              /\ DmaAddr(d, blocks, i) >= d.bbAddr
              /\ DmaAddr(d, blocks, i) + blocks[i].n <= d.bbAddr + d.bbSize
         /\ DmaAddr(d, blocks, i) + blocks[i].n <= d.limit + 1
<1> DEFINE a == DmaAddr(d, blocks, i)
           o == BounceOffset(d, blocks, i)
           b == blocks[i]
<1>1. d \in DmaHosts /\ blocks \in Seq(DmaBlocks)
  BY DEF Reached
<1>2. b.addr \in Nat /\ b.n \in Nat /\ o \in Nat
  <2>1. i \in DOMAIN blocks
    BY <1>1
  <2>2. b.addr \in Nat /\ b.n \in Nat
    BY <1>1, <2>1, SizesType
  <2>3. o \in Nat
    BY <1>1, OffsetFacts
  <2> QED
    BY <2>2, <2>3
<1>3. d.bbAddr \in Nat /\ d.bbSize \in Nat /\ d.limit \in Nat
  BY <1>1 DEF DmaHosts
<1>4. CASE Bounced(d, b)
  <2>1. a = d.bbAddr + o
    BY <1>4 DEF DmaAddr
  <2>2. o + b.n <= d.bbSize
    BY <1>4, BounceFits
  <2>3. d.bbAddr + d.bbSize - 1 <= d.limit
    BY <1>4 DEF Reached, Bounced, SetupBounceBuffer, Accessible
  <2> HIDE DEF a, o, b
  <2> DEFINE n == b.n
             lim == d.limit
             start == d.bbAddr
             size == d.bbSize
  <2>5. n \in Nat /\ lim \in Nat /\ start \in Nat /\ size \in Nat /\ o \in Nat
        /\ a = start + o /\ o + n <= size /\ start + size - 1 <= lim
    BY <1>2, <1>3, <2>1, <2>2, <2>3
  <2> HIDE DEF n, lim, start, size
  <2>6. a \in Nat /\ a >= start /\ a + n <= start + size /\ a + n <= lim + 1
    BY <2>5
  <2>4. a \in Nat /\ a >= d.bbAddr /\ a + b.n <= d.bbAddr + d.bbSize /\ a + b.n <= d.limit + 1
    BY <2>6 DEF n, lim, start, size
  <2> QED
    BY <1>4, <2>1, <2>4 DEF a, o, b
<1>5. CASE ~Bounced(d, b)
  <2>1. a = b.addr
    BY <1>5 DEF DmaAddr
  <2>2. Accessible(d, b)
    BY <1>1, <1>5 DEF Bounced, Reached
  <2>3. b.addr + b.n - 1 <= d.limit
    BY <2>2 DEF Accessible
  <2> HIDE DEF a, o, b
  <2>4. a \in Nat /\ a + b.n <= d.limit + 1
    BY <1>2, <1>3, <2>1, <2>3
  <2> QED
    BY <1>5, <2>1, <2>4 DEF a, b
<1> QED
  BY <1>4, <1>5

\* The descriptor of some part of block i.
DescribesPart(d, blocks, i, e) ==
  /\ e \in Descriptors
  /\ DmaAddr(d, blocks, i) <= e.addr
  /\ e.addr + e.length <= DmaAddr(d, blocks, i) + blocks[i].n

BlockDescs(d, blocks) ==
  [i \in DOMAIN blocks |-> Descs(DmaAddr(d, blocks, i), blocks[i].n, i = Len(blocks))]
DescCounts(blocks) == [i \in DOMAIN blocks |-> DescCount(blocks[i].n)]

LEMMA BlockDescsFacts ==
  ASSUME NEW d, NEW blocks, Reached(d, blocks)
  PROVE  /\ BlockDescs(d, blocks) \in Seq(Seq(Descriptors))
         /\ Len(BlockDescs(d, blocks)) = Len(blocks)
         /\ \A i \in 1 .. Len(blocks) :
              /\ BlockDescs(d, blocks)[i]
                   = Descs(DmaAddr(d, blocks, i), blocks[i].n, i = Len(blocks))
              /\ Len(BlockDescs(d, blocks)[i]) = DescCount(blocks[i].n)
              /\ \A e \in Range(BlockDescs(d, blocks)[i]) : DescribesPart(d, blocks, i, e)
         /\ Lengths(BlockDescs(d, blocks)) = DescCounts(blocks)
<1> DEFINE s == BlockDescs(d, blocks)
           l == Len(blocks)
           D(i) == Descs(DmaAddr(d, blocks, i), blocks[i].n, i = l)
<1>1. d \in DmaHosts /\ blocks \in Seq(DmaBlocks) /\ l \in Nat /\ DOMAIN blocks = 1 .. l
  BY DEF Reached
<1>2. s = [i \in 1 .. l |-> D(i)]
  BY <1>1 DEF BlockDescs
<1>3. ASSUME NEW i \in 1 .. l
      PROVE  /\ D(i) \in Seq(Descriptors) /\ Len(D(i)) = DescCount(blocks[i].n)
             /\ \A e \in Range(D(i)) : DescribesPart(d, blocks, i, e)
  <2> DEFINE a == DmaAddr(d, blocks, i)
             n == blocks[i].n
             last == i = l
             x == Descs(a, n, last)
  <2>1. a \in Nat /\ n \in Nat /\ last \in BOOLEAN
    BY <1>1, DmaAddrFacts, SizesType
  <2>6. D(i) = x
    OBVIOUS
  <2> HIDE DEF a, n, last, D
  <2>2. x \in Seq(Descriptors) /\ Len(x) = DescCount(n)
    BY <2>1, DescsType
  <2>3. ASSUME NEW j \in 1 .. Len(x) PROVE DescribesPart(d, blocks, i, x[j])
    <3>1. j \in 1 .. DescCount(n) /\ x[j] \in Descriptors
      BY <2>2
    <3>2. x[j].addr = a + (j - 1) * MaxLength /\ x[j].addr + x[j].length <= a + n
      BY <2>1, <3>1, DescAt
    <3>3. (j - 1) * MaxLength \in Nat
      BY <2>1, <3>1, DescCountFacts
    <3> DEFINE o == (j - 1) * MaxLength
    <3> HIDE DEF o, x
    <3>4. a <= a + o
      BY <2>1, <3>3 DEF o
    <3> QED
      BY <3>1, <3>2, <3>4 DEF o, DescribesPart, a, n
  <2>4. DOMAIN x = 1 .. Len(x)
    BY <2>2
  <2> HIDE DEF x
  <2>5. \A e \in Range(x) : DescribesPart(d, blocks, i, e)
    BY <2>3, <2>4 DEF Range
  <2> QED
    BY <2>2, <2>5, <2>6 DEF x, n
<1> HIDE DEF D, s
<1>4. s \in Seq(Seq(Descriptors)) /\ Len(s) = l /\ \A i \in 1 .. l : s[i] = D(i)
  BY <1>1, <1>2, <1>3
<1>5. Lengths(s) = DescCounts(blocks)
  <2>1. DOMAIN s = 1 .. l
    BY <1>1, <1>4
  <2>2. \A i \in 1 .. l : Len(s[i]) = DescCount(blocks[i].n)
    BY <1>3, <1>4
  <2> QED
    BY <1>1, <2>1, <2>2 DEF Lengths, DescCounts
<1>6. \A i \in 1 .. l : /\ Len(s[i]) = DescCount(blocks[i].n)
                        /\ \A e \in Range(s[i]) : DescribesPart(d, blocks, i, e)
  BY <1>3, <1>4
<1> QED
  BY <1>4, <1>5, <1>6 DEF s, l, D

LEMMA TableFacts ==
  ASSUME NEW d, NEW blocks, Reached(d, blocks)
  PROVE  /\ Table(d, blocks) \in Seq(Descriptors)
         /\ Len(Table(d, blocks)) = SectorSums(DescCounts(blocks))[Len(blocks)]
         /\ \A e \in Range(Table(d, blocks)) :
              \E i \in 1 .. Len(blocks) : DescribesPart(d, blocks, i, e)
<1> DEFINE s == BlockDescs(d, blocks)
           t == Table(d, blocks)
<1>1. /\ s \in Seq(Seq(Descriptors)) /\ Len(s) = Len(blocks)
      /\ Lengths(s) = DescCounts(blocks)
      /\ \A i \in 1 .. Len(blocks) : \A e \in Range(s[i]) : DescribesPart(d, blocks, i, e)
  BY BlockDescsFacts
<1>2. t = FlattenSeq(s)
  BY DEF Table, BlockDescs
<1> HIDE DEF s, t
<1>3. t \in Seq(Descriptors) /\ Laid(t, s, Len(s))
  BY <1>1, <1>2, FlattenLays
<1>4. Len(t) = SectorSums(DescCounts(blocks))[Len(blocks)]
  BY <1>1, <1>3 DEF Laid, Starts
<1>5. Range(t) = UNION {Range(s[i]) : i \in DOMAIN s} /\ DOMAIN s = 1 .. Len(blocks)
  BY <1>1, <1>2, FlattenRange
<1>6. \A e \in Range(t) : \E i \in 1 .. Len(blocks) : DescribesPart(d, blocks, i, e)
  BY <1>1, <1>5
<1> QED
  BY <1>3, <1>4, <1>6 DEF t

\* The table has room for blocks of the size admitted.
TableHolds(d) == d.maxSeg * DescCount(MaxSize(d)) <= TableSize(d)

LEMMA TableFits ==
  ASSUME NEW d, NEW blocks, Reached(d, blocks), TableHolds(d)
  PROVE  Len(Table(d, blocks)) <= TableSize(d)
<1> DEFINE q == DescCounts(blocks)
           l == Len(blocks)
           m == DescCount(MaxSize(d))
           s == d.maxSeg
<1>1. d \in DmaHosts /\ blocks \in Seq(DmaBlocks) /\ l \in Nat
  BY DEF Reached
<1>2. \A i \in 1 .. l : blocks[i].n \in 0 .. MaxSize(d)
  <2>1. ASSUME NEW i \in 1 .. l PROVE blocks[i].n \in 0 .. MaxSize(d)
    <3>1. i \in DOMAIN blocks /\ i \in DOMAIN Sizes(blocks)
      BY <1>1 DEF Sizes
    <3>2. Sizes(blocks)[i] = blocks[i].n /\ blocks[i].n \in Nat
      BY <1>1, <3>1, SizesType
    <3>3. Sizes(blocks)[i] <= MaxSize(d)
      BY <3>1 DEF Reached, Admitted
    <3> QED
      BY <1>1, <3>2, <3>3, MaxSizeFacts
  <2> QED
    BY <2>1
<1>3. ASSUME NEW i \in 1 .. l
      PROVE  DescCount(blocks[i].n) \in Nat /\ DescCount(blocks[i].n) <= m
  <2> DEFINE n == blocks[i].n
             x == MaxSize(d)
  <2>1. x \in Nat /\ n \in 0 .. x
    BY <1>1, <1>2, MaxSizeFacts
  <2> HIDE DEF n, x
  <2>2. n \in Nat
    BY <2>1
  <2>3. DescCount(n) \in Nat /\ DescCount(n) <= DescCount(x)
    BY <2>1, <2>2, DescCountFacts, DescCountGrows
  <2> QED
    BY <2>3 DEF n, x
<1>4. m \in Nat
  BY <1>1, MaxSizeFacts, DescCountFacts
<1> HIDE DEF m
<1>5. q \in Seq(Nat) /\ Len(q) = l /\ \A i \in 1 .. l : q[i] <= m
  BY <1>1, <1>3 DEF DescCounts
<1>6. l <= s /\ s \in Nat
  BY <1>1, SizesType DEF Reached, Admitted, DmaHosts
<1>7. SectorSums(q)[l] <= l * m /\ SectorSums(q)[l] \in Nat
  <2> HIDE DEF q
  <2>1. l \in 0 .. Len(q)
    BY <1>1, <1>5
  <2>2. SectorSums(q)[l] <= l * m
    BY <1>4, <1>5, <2>1, SumsAtMost
  <2> QED
    BY <1>5, <2>2, NumSectorsType
<1>8. l * m <= s * m
  <2> HIDE DEF s, l
  <2> QED
    BY <1>1, <1>4, <1>6
<1>9. Len(Table(d, blocks)) = SectorSums(q)[l]
  BY TableFacts
<1>10. s * m <= TableSize(d)
  BY DEF TableHolds, m
<1>11. TableSize(d) \in Int
  <2> DEFINE p == s * (MaxBlocks \div MaxLength)
  <2>1. MaxBlocks \div MaxLength \in Nat
    BY DmaDescAssumption, Division
  <2>2. p \in Nat
    BY <1>6, <2>1
  <2>3. p + DescsPerPage - 1 \in Nat
    BY <2>2, DmaDescAssumption
  <2>4. (p + DescsPerPage - 1) \div DescsPerPage \in Nat
    BY <2>3, DmaDescAssumption, Division
  <2>5. TableSize(d) = ((p + DescsPerPage - 1) \div DescsPerPage) * DescsPerPage
    BY DEF TableSize, RoundPage
  <2> QED
    BY <2>4, <2>5, DmaDescAssumption
<1> HIDE DEF q, l, s
<1> QED
  BY <1>1, <1>4, <1>6, <1>7, <1>8, <1>9, <1>10, <1>11

LEMMA TableReached ==
  ASSUME NEW d, NEW blocks, Reached(d, blocks), NEW e \in Range(Table(d, blocks))
  PROVE  e.addr \in Nat /\ e.length \in Nat \ {0} /\ e.addr + e.length <= d.limit + 1
<1>1. PICK i \in 1 .. Len(blocks) : DescribesPart(d, blocks, i, e)
  BY TableFacts
<1>2. d \in DmaHosts /\ blocks \in Seq(DmaBlocks)
  BY DEF Reached
<1>3. blocks[i].n \in Nat /\ d.limit \in Nat
  BY <1>2, SizesType DEF DmaHosts
<1>4. e.addr \in Nat /\ e.length \in Nat \ {0}
  BY <1>1 DEF DescribesPart, Descriptors
<1> DEFINE a == DmaAddr(d, blocks, i)
           n == blocks[i].n
<1>5. e.addr + e.length <= a + n
  BY <1>1 DEF DescribesPart
<1>6. a + n <= d.limit + 1 /\ a \in Nat
  BY DmaAddrFacts
<1> HIDE DEF a, n
<1>7. n \in Nat
  BY <1>3 DEF n
<1> QED
  BY <1>3, <1>4, <1>5, <1>6, <1>7

LEMMA AdmittedDescribable ==
  ASSUME NEW d, NEW blocks, Reached(d, blocks), TableHolds(d), d.limit < d.maxAddr
  PROVE  Describable(d, blocks)
<1>1. Len(Table(d, blocks)) <= TableSize(d)
  BY TableFits
<1>2. ASSUME NEW i \in DOMAIN Table(d, blocks) PROVE Table(d, blocks)[i].addr < d.maxAddr
  <2> DEFINE e == Table(d, blocks)[i]
  <2>1. e \in Range(Table(d, blocks))
    BY DEF Range
  <2>2. d.limit \in Nat /\ d.maxAddr \in Nat
    BY DEF Reached, DmaHosts
  <2>3. e.addr \in Nat /\ e.length \in Nat \ {0} /\ e.addr + e.length <= d.limit + 1
    BY <2>1, TableReached
  <2> HIDE DEF e
  <2>4. e.addr < d.maxAddr
    BY <2>2, <2>3
  <2> QED
    BY <2>4 DEF e
<1>3. ASSUME NEW i \in DOMAIN blocks, Bounced(d, blocks[i])
      PROVE  BounceOffset(d, blocks, i) + blocks[i].n <= d.bbSize
  <2>1. i \in 1 .. Len(blocks)
    BY DEF Reached
  <2> QED
    BY <1>3, <2>1, BounceFits
<1> QED
  BY <1>1, <1>2, <1>3 DEF Describable

-----------------------------------------------------------------------------
(* The memory of a request.                                                *)

PlaceLists == {p \in Seq(Nat) : Len(p) = Len(request)}

\* What inout_data() and setup_bounce_buffer() have let through, for all the request.
Placed ==
  /\ host \in Hosts /\ SetupBounceBuffer(host) /\ Admitted(host, request)
  /\ request \in RequestLists /\ place \in PlaceLists
  /\ Provided(host) \/ \A i \in DOMAIN request : Accessible(host, BlocksAt(1)[i])

LEMMA InitPlaced == Init => Placed
<1> SUFFICES ASSUME Init PROVE Placed
  OBVIOUS
<1>1. /\ host \in Hosts /\ SetupBounceBuffer(host) /\ Admitted(host, request)
      /\ Provided(host) \/ \A i \in DOMAIN request : Accessible(host, BlocksAt(1)[i])
  BY DEF Init
<1>2. request \in Requests /\ request \in RequestLists
  BY InoutSequenceAssumption DEF Init, RequestLists
<1>3. place \in PlaceLists
  <2>1. PICK p \in Places : place = SubSeq(p, 1, Len(request))
    BY DEF Init
  <2>2. p \in Seq(Nat) /\ Len(request) <= Len(p) /\ Len(request) \in Nat
    BY <1>2, <2>1, InoutSequenceAssumption DEF RequestLists
  <2>3. \A i \in 1 .. Len(request) : p[i] \in Nat
    BY <2>2
  <2>4. place \in Seq(Nat) /\ Len(place) = Len(request)
    BY <2>1, <2>2, <2>3, SubSeqProperties
  <2> QED
    BY <2>4 DEF PlaceLists
<1> QED
  BY <1>1, <1>2, <1>3 DEF Placed

LEMMA PlacedStays == Placed /\ [Next]_vars => Placed'
<1> SUFFICES ASSUME Placed, [Next]_vars PROVE Placed'
  OBVIOUS
<1>1. UNCHANGED fixed
  BY DEF Next, vars, CommandFails, SubmitThrows, SetBlockCount, Transfer, StopTransfer, Ended
<1>2. BlocksAt(1)' = BlocksAt(1)
  BY <1>1 DEF fixed, BlocksAt
<1> QED
  BY <1>1, <1>2 DEF fixed, Placed, PlaceLists

LEMMA HostType ==
  ASSUME Placed
  PROVE  host \in DmaHosts
  BY InoutSequenceAssumption DEF Placed, DmaHosts

LEMMA BlocksFrom ==
  ASSUME Placed, NEW j \in 1 .. Len(request)
  PROVE  /\ BlocksAt(j) \in Seq(DmaBlocks)
         /\ Len(BlocksAt(j)) = Len(request) - j + 1
         /\ \A x \in 1 .. Len(request) - j + 1 :
              /\ (j + x) - 1 \in 1 .. Len(request)
              /\ BlocksAt(j)[x] = [addr |-> place[(j + x) - 1], n |-> request[(j + x) - 1]]
<1>1. request \in Seq(Nat) /\ place \in Seq(Nat) /\ Len(place) = Len(request)
      /\ Len(request) \in Nat
  BY DEF Placed, PlaceLists, RequestLists
<1> DEFINE l == Len(request) - j + 1
           B(x) == [addr |-> place[j + x - 1], n |-> request[j + x - 1]]
<1>2. BlocksAt(j) = [x \in 1 .. l |-> B(x)]
  BY DEF BlocksAt
<1>3. l \in Nat
  BY <1>1
<1>4. ASSUME NEW x \in 1 .. l
      PROVE  /\ (j + x) - 1 \in 1 .. Len(request) /\ B(x) \in DmaBlocks
             /\ B(x) = [addr |-> place[(j + x) - 1], n |-> request[(j + x) - 1]]
  <2>1. j + x - 1 = (j + x) - 1 /\ (j + x) - 1 \in 1 .. Len(request)
    BY <1>1
  <2>2. place[(j + x) - 1] \in Nat /\ request[(j + x) - 1] \in Nat
    BY <1>1, <2>1
  <2> QED
    BY <2>1, <2>2 DEF DmaBlocks
<1> HIDE DEF B, l
<1>5. BlocksAt(j) \in Seq(DmaBlocks) /\ Len(BlocksAt(j)) = l
      /\ \A x \in 1 .. l : BlocksAt(j)[x] = B(x)
  BY <1>2, <1>3, <1>4
<1> QED
  BY <1>4, <1>5 DEF l

\* The controller gets the blocks from some on, with SDMA, or all of them.
LEMMA PlacedReached ==
  ASSUME Placed, NEW j \in 1 .. Len(request)
  PROVE  Reached(host, BlocksAt(j))
<1> DEFINE b == BlocksAt(j)
           l == Len(request) - j + 1
<1>1. host \in DmaHosts /\ SetupBounceBuffer(host) /\ Admitted(host, request)
  BY HostType DEF Placed
<1>2. request \in Seq(Nat) /\ Len(request) \in Nat
  BY DEF Placed, RequestLists
<1>3. /\ b \in Seq(DmaBlocks) /\ Len(b) = l
      /\ \A x \in 1 .. l :
           /\ (j + x) - 1 \in 1 .. Len(request)
           /\ b[x] = [addr |-> place[(j + x) - 1], n |-> request[(j + x) - 1]]
  BY BlocksFrom
<1> HIDE DEF b
<1>4. Admitted(host, Sizes(b))
  <2>1. Len(Sizes(b)) = l /\ DOMAIN b = 1 .. l /\ DOMAIN Sizes(b) = 1 .. l
    <3> HIDE DEF l
    <3>1. DOMAIN b = 1 .. l
      BY <1>3
    <3>2. Len(Sizes(b)) = l
      BY <1>3, SizesType
    <3> QED
      BY <3>1, <3>2 DEF Sizes
  <2>2. l <= Len(request)
    BY <1>2
  <2>3. Len(request) <= host.maxSeg /\ \A i \in 1 .. Len(request) : request[i] <= MaxSize(host)
    BY <1>1, <1>2 DEF Admitted
  <2>4. ASSUME NEW x \in 1 .. l PROVE Sizes(b)[x] <= MaxSize(host)
    <3>1. Sizes(b)[x] = b[x].n
      BY <1>3, <2>1, SizesType
    <3>2. b[x].n = request[(j + x) - 1] /\ (j + x) - 1 \in 1 .. Len(request)
      <4> HIDE DEF l
      <4>1. (j + x) - 1 \in 1 .. Len(request)
        BY <1>3
      <4>2. b[x] = [addr |-> place[(j + x) - 1], n |-> request[(j + x) - 1]]
        BY <1>3
      <4> QED
        BY <4>1, <4>2
    <3> QED
      BY <2>3, <3>1, <3>2
  <2>5. Len(Sizes(b)) <= host.maxSeg
    <3>1. host.maxSeg \in Nat
      BY <1>1 DEF DmaHosts
    <3> QED
      BY <1>2, <2>1, <2>2, <2>3, <3>1
  <2> QED
    BY <2>1, <2>4, <2>5 DEF Admitted
<1>5. ASSUME ~Provided(host), NEW x \in DOMAIN b PROVE Accessible(host, b[x])
  <2>1. x \in 1 .. l /\ 1 \in 1 .. Len(request) /\ Len(request) - 1 + 1 = Len(request)
    BY <1>2, <1>3
  <2>2. (j + x) - 1 \in 1 .. Len(request) /\ (1 + ((j + x) - 1)) - 1 = (j + x) - 1
    BY <1>3, <2>1
  <2>3. BlocksAt(1)[(j + x) - 1] = b[x]
    <3>1. \A y \in 1 .. Len(request) :
            BlocksAt(1)[y] = [addr |-> place[(1 + y) - 1], n |-> request[(1 + y) - 1]]
      BY <2>1, BlocksFrom
    <3>2. BlocksAt(1)[(j + x) - 1] = [addr |-> place[(1 + ((j + x) - 1)) - 1],
                                      n |-> request[(1 + ((j + x) - 1)) - 1]]
      BY <2>2, <3>1
    <3>3. b[x] = [addr |-> place[(j + x) - 1], n |-> request[(j + x) - 1]]
      BY <1>3, <2>1
    <3> QED
      BY <2>2, <3>2, <3>3
  <2>4. DOMAIN request = 1 .. Len(request)
    BY <1>2
  <2>5. Accessible(host, BlocksAt(1)[(j + x) - 1])
    BY <1>5, <2>2, <2>4 DEF Placed
  <2> QED
    BY <2>3, <2>5
<1> QED
  BY <1>1, <1>3, <1>4, <1>5 DEF Reached, b

\* Where the Cmd is: all blocks with ADMA2, those left with SDMA.
LEMMA BlocksLeft ==
  ASSUME SequenceInv, Placed, Pending
  PROVE  /\ Current \in 1 .. Len(request)
         /\ k.adma2 => Current = 1 /\ c.blocks = request
         /\ Reached(host, Blocks) /\ Len(Blocks) = Len(request) - Current + 1
         /\ c.hasData => /\ c.nblk \in Nat
                         /\ k.adma2 => c.nblk = NumSectors(request)
                         /\ ~k.adma2 => c.nblk = request[Current] /\ Blocks[1].n = c.nblk
<1>1. /\ request \in RequestLists /\ request \in Seq(Nat) /\ Len(request) \in Nat \ {0}
      /\ DOMAIN request = 1 .. Len(request) /\ k \in Traits /\ c \in Cmds
      /\ Issued(k, request, c, Len(moved), count) /\ Progress(k, request, c)
  BY DEF SequenceInv, RequestLists, Issued
<1>2. CASE k.adma2
  <2>1. c.blocks = request
    BY <1>1, <1>2 DEF Progress
  <2>2. Current = 1
    BY <1>1, <2>1 DEF Current
  <2>3. 1 \in 1 .. Len(request)
    BY <1>1
  <2>4. Reached(host, Blocks) /\ Len(Blocks) = Len(request) - Current + 1
    BY <2>2, <2>3, PlacedReached, BlocksFrom DEF Blocks
  <2>5. c.hasData => c.nblk \in Nat /\ c.nblk = NumSectors(request)
    <3>1. c.hasData => AtData(k, request, c, Len(moved), count)
      BY <1>1, AtWhich
    <3>2. c.hasData => c.nblk = Share(k, request, c)
      BY <3>1 DEF AtData
    <3>3. c.nblk \in Nat
      BY <1>1 DEF Cmds
    <3> QED
      BY <1>2, <3>2, <3>3 DEF Share
  <2> QED
    BY <1>2, <2>1, <2>2, <2>3, <2>4, <2>5
<1>3. CASE ~k.adma2
  <2>1. PICK j \in 1 .. Len(request) : c.blocks = RestOf(request, j)
    BY <1>1, <1>3 DEF Progress, AtBlock
  <2>2. Len(c.blocks) = Len(request) - j + 1 /\ Head(c.blocks) = request[j]
    <3>1. \A i \in j .. Len(request) : request[i] \in Nat
      BY <1>1
    <3>2. Len(RestOf(request, j)) = Len(request) - j + 1
      BY <1>1, <3>1, SubSeqProperties DEF RestOf
    <3>3. Head(RestOf(request, j)) = request[j]
      BY <1>1, RestFacts
    <3> QED
      BY <2>1, <3>2, <3>3
  <2>3. Current = j
    BY <1>1, <2>2 DEF Current
  <2>4. Reached(host, Blocks) /\ Len(Blocks) = Len(request) - Current + 1
    BY <2>3, PlacedReached, BlocksFrom DEF Blocks
  <2>5. Blocks[1].n = request[j]
    <3>1. 1 \in 1 .. Len(request) - j + 1 /\ (j + 1) - 1 = j
      BY <1>1
    <3>2. BlocksAt(j)[1] = [addr |-> place[(j + 1) - 1], n |-> request[(j + 1) - 1]]
      BY <3>1, BlocksFrom
    <3> QED
      BY <2>3, <3>1, <3>2 DEF Blocks
  <2>6. c.hasData => c.nblk \in Nat /\ c.nblk = request[j]
    <3>1. c.hasData => AtData(k, request, c, Len(moved), count)
      BY <1>1, AtWhich
    <3>2. c.hasData => c.nblk = Share(k, request, c)
      BY <3>1 DEF AtData
    <3>3. c.nblk \in Nat
      BY <1>1 DEF Cmds
    <3> QED
      BY <1>3, <2>2, <3>2, <3>3 DEF Share
  <2> QED
    BY <1>3, <2>3, <2>4, <2>5, <2>6
<1> QED
  BY <1>2, <1>3

LEMMA Submitted ==
  ASSUME SequenceInv, Placed, Pending, c.hasData, DescriptorsSuffice,
         host.bbSize <= MaxBlocks
  PROVE  Submits
<1>1. host \in DmaHosts /\ Reached(host, Blocks) /\ host \in Hosts
  BY HostType, BlocksLeft DEF Placed
<1>2. TableHolds(host) /\ host.limit < host.maxAddr
  BY <1>1 DEF DescriptorsSuffice, TableHolds
<1>3. Describable(host, Blocks)
  BY <1>1, <1>2, AdmittedDescribable
<1> DEFINE x == IF Provided(host) THEN host.bbSize ELSE MaxBlocks
<1>4. x <= MaxBlocks /\ x \in Nat /\ MaxBlocks \in Nat
  BY <1>1, DmaDescAssumption DEF DmaHosts
<1>5. request \in Seq(Nat) /\ Admitted(host, request) /\ Current \in 1 .. Len(request)
  BY BlocksLeft DEF Placed, RequestLists
<1>6. c.nblk <= MaxBlocks
  <2>1. CASE k.adma2
    <3>1. c.nblk = NumSectors(request) /\ c.nblk \in Nat
      BY <2>1, BlocksLeft
    <3>2. NumSectors(request) <= x
      BY <1>1, <1>5, AdmittedSum DEF NumSectors
    <3> HIDE DEF x
    <3> QED
      BY <1>4, <3>1, <3>2
  <2>2. CASE ~k.adma2
    <3>1. c.nblk = request[Current] /\ c.nblk \in Nat
      BY <2>2, BlocksLeft
    <3>2. request[Current] <= MaxSize(host)
      BY <1>5 DEF Admitted
    <3>3. MaxSize(host) <= x /\ MaxSize(host) \in Nat
      BY <1>1, MaxSizeFacts
    <3> HIDE DEF x
    <3> QED
      BY <1>4, <3>1, <3>2, <3>3
  <2> QED
    BY <2>1, <2>2
<1> QED
  BY <1>3, <1>6 DEF Submits, Submittable

LEMMA RepliesOfHandler ==
  ASSUME NEW t, NEW d
  PROVE  HandleIrqInout(t, d).reply \in {"none", "ok", "eio"}
  BY DEF HandleIrqInout, HandleIrqInoutAdma2, HandleIrqInoutSdma, TransferBlockSdma, More, Done

SizesFit ==
  /\ SequenceInv /\ Placed
  /\ AdmittedFits

LEMMA SizesFitStays ==
  ASSUME DescriptorsSuffice, SizesFit, [Next]_vars
  PROVE  SizesFit'
<1>1. SequenceInv' /\ Placed'
  BY NextKeepsSequenceInv, PlacedStays DEF SizesFit
<1>2. CASE UNCHANGED vars
  BY <1>1, <1>2 DEF vars, fixed, SizesFit, AdmittedFits
<1>3. ASSUME NEW s, Ended(s) PROVE AdmittedFits'
  <2>1. answer'.reply = HandleIrqInout(k, [c EXCEPT !.status = s]).reply
    BY <1>3 DEF Ended
  <2>2. answer'.reply \notin {"thrown", "lost"}
    BY <2>1, RepliesOfHandler
  <2> QED
    BY <2>2 DEF AdmittedFits
<1>4. CASE SubmitThrows
  <2>1. Pending /\ c.hasData /\ ~Submits /\ host' = host
    BY <1>4 DEF SubmitThrows, fixed
  <2>2. ~(host.bbSize <= MaxBlocks)
    BY <2>1, Submitted DEF SizesFit
  <2>3. host.bbSize \in Nat /\ MaxBlocks \in Nat
    BY HostType, DmaDescAssumption DEF DmaHosts, SizesFit
  <2> QED
    BY <1>1, <2>1, <2>2, <2>3 DEF SizesFit, AdmittedFits
<1> QED
  BY <1>1, <1>2, <1>3, <1>4
     DEF Next, CommandFails, SetBlockCount, Transfer, StopTransfer, SizesFit

\* What inout_data() admits by max_size() and max_segments() is never given up by
\* cmd_submit(), for any controller whose descriptors suffice for those sizes, unless
\* the bounce buffer is larger than the block count of the controller.
THEOREM AdmittedAlwaysFits ==
  ASSUME DescriptorsSuffice
  PROVE  Spec => []AdmittedFits
<1>1. Init => SizesFit
  BY InitSequenceInv, InitPlaced DEF Init, NoAnswer, SizesFit, AdmittedFits
<1>2. SizesFit /\ [Next]_vars => SizesFit'
  BY SizesFitStays
<1>3. SizesFit => AdmittedFits
  BY DEF SizesFit
<1> QED
  BY <1>1, <1>2, <1>3, PTL DEF Spec

-----------------------------------------------------------------------------
(* The addresses the controller is given.                                  *)

LEMMA AddressesFacts ==
  ASSUME NEW addr \in Nat, NEW n \in Nat
  PROVE  /\ Addresses(addr, n) \in Seq(Nat) /\ Len(Addresses(addr, n)) = n
         /\ \A j \in 1 .. n : Addresses(addr, n)[j] = (addr + j) - 1
         /\ \A a : a \in Range(Addresses(addr, n)) <=> a \in addr .. (addr + n) - 1
<1> DEFINE s == Addresses(addr, n)
<1>1. s = [j \in 1 .. n |-> addr + j - 1]
  BY DEF Addresses
<1>2. \A j \in 1 .. n : addr + j - 1 = (addr + j) - 1 /\ addr + j - 1 \in Nat
  OBVIOUS
<1>3. s \in Seq(Nat) /\ Len(s) = n /\ DOMAIN s = 1 .. n
      /\ \A j \in 1 .. n : s[j] = (addr + j) - 1
  BY <1>1, <1>2
<1> HIDE DEF s
<1>4. ASSUME NEW a \in Range(s) PROVE a \in addr .. (addr + n) - 1
  <2>1. PICK j \in 1 .. n : a = (addr + j) - 1
    BY <1>3 DEF Range
  <2> QED
    BY <2>1
<1>5. ASSUME NEW a \in addr .. (addr + n) - 1 PROVE a \in Range(s)
  <2>1. (a - addr) + 1 \in 1 .. n /\ (addr + ((a - addr) + 1)) - 1 = a
    OBVIOUS
  <2>2. s[(a - addr) + 1] = a
    BY <1>3, <2>1
  <2> QED
    BY <1>3, <2>1, <2>2 DEF Range
<1> QED
  BY <1>3, <1>4, <1>5 DEF s

\* a is an address of block i, where the controller finds it.
InBlock(d, blocks, i, a) ==
  a \in DmaAddr(d, blocks, i) .. (DmaAddr(d, blocks, i) + blocks[i].n) - 1

LEMMA SubSeqFromFirst ==
  ASSUME NEW T, NEW s \in Seq(T), NEW m \in 0 .. Len(s)
  PROVE  /\ SubSeq(s, 1, m) \in Seq(T) /\ Len(SubSeq(s, 1, m)) = m
         /\ \A i \in 1 .. m : SubSeq(s, 1, m)[i] = s[i]
         /\ Range(SubSeq(s, 1, m)) \subseteq Range(s)
<1>1. \A i \in 1 .. m : s[i] \in T /\ (1 + i) - 1 = i /\ i \in DOMAIN s
  OBVIOUS
<1>2. SubSeq(s, 1, m) = [i \in 1 .. m |-> s[i]]
  BY <1>1
<1>3. m \in Nat
  OBVIOUS
<1>4. SubSeq(s, 1, m) \in Seq(T) /\ Len(SubSeq(s, 1, m)) = m
      /\ \A i \in 1 .. m : SubSeq(s, 1, m)[i] = s[i]
  BY <1>1, <1>2, <1>3
<1> DEFINE t == SubSeq(s, 1, m)
<1> HIDE DEF t
<1>5. t \in Seq(T) /\ Len(t) = m /\ \A i \in 1 .. m : t[i] = s[i]
  BY <1>4 DEF t
<1>6. Range(t) \subseteq Range(s)
  <2>1. DOMAIN t = 1 .. m
    BY <1>5
  <2> QED
    BY <1>1, <1>5, <2>1 DEF Range
<1> QED
  BY <1>5, <1>6 DEF t

\* The descriptors up to the end mark.
LEMMA EndOfWalk ==
  ASSUME NEW table \in Seq(Descriptors)
  PROVE  LET ends == {i \in DOMAIN table : table[i].end}
         IN  (IF ends = {} THEN Len(table) ELSE Min(ends)) \in 0 .. Len(table)
<1> DEFINE ends == {i \in DOMAIN table : table[i].end}
<1>1. DOMAIN table = 1 .. Len(table) /\ Len(table) \in Nat
  OBVIOUS
<1>2. ends \subseteq 1 .. Len(table)
  BY <1>1
<1> HIDE DEF ends
<1>3. CASE ends = {}
  BY <1>1, <1>3 DEF ends
<1>4. CASE ends # {}
  <2>1. ends \subseteq Nat
    BY <1>1, <1>2
  <2>2. PICK m \in ends : \A x \in ends : m <= x
    BY <1>4, <2>1, LeastNat
  <2>3. Min(ends) \in ends
    BY <2>2 DEF Min
  <2>4. Min(ends) \in 1 .. Len(table)
    BY <1>2, <2>3
  <2> QED
    BY <1>1, <1>4, <2>4 DEF ends
<1> QED
  BY <1>3, <1>4

LEMMA WalkedFacts ==
  ASSUME NEW d, NEW blocks, Reached(d, blocks)
  PROVE  /\ Walked(Table(d, blocks)) \in Seq(Nat)
         /\ \A a \in Range(Walked(Table(d, blocks))) :
              \E i \in 1 .. Len(blocks) : InBlock(d, blocks, i, a)
<1> DEFINE table == Table(d, blocks)
           ends == {i \in DOMAIN table : table[i].end}
           m == IF ends = {} THEN Len(table) ELSE Min(ends)
           walk == SubSeq(table, 1, m)
           A(e) == Addresses(e.addr, e.length)
           s == [i \in DOMAIN walk |-> A(walk[i])]
<1>1. table \in Seq(Descriptors)
      /\ \A e \in Range(table) : \E i \in 1 .. Len(blocks) : DescribesPart(d, blocks, i, e)
  BY TableFacts
<1>2. Walked(table) = FlattenSeq(s)
  BY DEF Walked
<1> HIDE DEF table
<1>3. m \in 0 .. Len(table)
  BY <1>1, EndOfWalk
<1> HIDE DEF m
<1>4. walk \in Seq(Descriptors) /\ Len(walk) = m /\ Range(walk) \subseteq Range(table)
  BY <1>1, <1>3, SubSeqFromFirst
<1> HIDE DEF walk
<1>5. ASSUME NEW e \in Descriptors
      PROVE  A(e) \in Seq(Nat)
             /\ \A a : a \in Range(A(e)) <=> a \in e.addr .. (e.addr + e.length) - 1
  <2>1. e.addr \in Nat /\ e.length \in Nat
    BY DEF Descriptors
  <2> QED
    BY <2>1, AddressesFacts
<1> HIDE DEF A
<1>6. DOMAIN walk = 1 .. m /\ m \in Nat /\ \A i \in 1 .. m : walk[i] \in Descriptors
      /\ walk[i] \in Range(table)
  <2>1. DOMAIN walk = 1 .. m /\ m \in Nat
    BY <1>3, <1>4
  <2>2. \A i \in 1 .. m : walk[i] \in Descriptors /\ walk[i] \in Range(walk)
    BY <1>4, <2>1 DEF Range
  <2> QED
    BY <1>4, <2>1, <2>2
<1>7. s \in Seq(Seq(Nat)) /\ DOMAIN s = 1 .. m /\ \A i \in 1 .. m : s[i] = A(walk[i])
  BY <1>5, <1>6
<1> HIDE DEF s
<1>8. FlattenSeq(s) \in Seq(Nat)
  BY <1>7, FlattenLays
<1>9. Range(FlattenSeq(s)) = UNION {Range(s[i]) : i \in DOMAIN s}
  BY <1>7, FlattenRange
<1>10. ASSUME NEW a \in Range(FlattenSeq(s))
       PROVE  \E i \in 1 .. Len(blocks) : InBlock(d, blocks, i, a)
  <2>1. PICK j \in 1 .. m : a \in Range(A(walk[j]))
    BY <1>7, <1>9
  <2> DEFINE e == walk[j]
  <2>2. e \in Descriptors /\ e \in Range(table)
    BY <1>6
  <2> HIDE DEF e
  <2>3. a \in e.addr .. (e.addr + e.length) - 1
    BY <1>5, <2>1, <2>2 DEF e
  <2>4. PICK i \in 1 .. Len(blocks) : DescribesPart(d, blocks, i, e)
    BY <1>1, <2>2
  <2>5. DmaAddr(d, blocks, i) \in Nat /\ blocks[i].n \in Nat
    <3>1. blocks \in Seq(DmaBlocks)
      BY DEF Reached
    <3> QED
      BY <3>1, DmaAddrFacts, SizesType
  <2>6. e.addr \in Nat /\ e.length \in Nat
    BY <2>2 DEF Descriptors
  <2>7. DmaAddr(d, blocks, i) <= e.addr
        /\ e.addr + e.length <= DmaAddr(d, blocks, i) + blocks[i].n
    BY <2>4 DEF DescribesPart
  <2> DEFINE f == DmaAddr(d, blocks, i)
             n == blocks[i].n
             g == e.addr
             l == e.length
  <2>8. a \in g .. (g + l) - 1 /\ f \in Nat /\ n \in Nat /\ g \in Nat /\ l \in Nat
        /\ f <= g /\ g + l <= f + n
    BY <2>3, <2>5, <2>6, <2>7
  <2> HIDE DEF f, n, g, l
  <2>9. a \in f .. (f + n) - 1
    BY <2>8
  <2> QED
    BY <2>9 DEF f, n, InBlock
<1> QED
  BY <1>2, <1>8, <1>10 DEF table

\* Nothing but the blocks at hand is moved.
LEMMA MovesFacts ==
  ASSUME k.adma2 \in BOOLEAN, NEW d, NEW blocks, Reached(d, blocks), NEW n \in Nat,
         ~k.adma2 => 1 \in 1 .. Len(blocks) /\ n = blocks[1].n
  PROVE  /\ Moves(k.adma2, d, blocks, n) \in Seq(Nat)
         /\ \A a \in Range(Moves(k.adma2, d, blocks, n)) :
              \E i \in 1 .. Len(blocks) : InBlock(d, blocks, i, a)
<1>1. CASE k.adma2
  <2> DEFINE w == Walked(Table(d, blocks))
             m == Min({n, Len(w)})
  <2>1. w \in Seq(Nat)
        /\ \A a \in Range(w) : \E i \in 1 .. Len(blocks) : InBlock(d, blocks, i, a)
    BY WalkedFacts
  <2>2. Moves(k.adma2, d, blocks, n) = SubSeq(w, 1, m)
    BY <1>1, Zenon DEF Moves
  <2> HIDE DEF w
  <2>3. m \in 0 .. Len(w)
    <3>1. Len(w) \in Nat
      BY <2>1
    <3>2. Min({n, Len(w)}) \in {n, Len(w)} /\ Min({n, Len(w)}) <= Len(w)
      BY <3>1, MinOfTwo
    <3> HIDE DEF m
    <3> QED
      BY <3>1, <3>2 DEF m
  <2> HIDE DEF m
  <2>4. SubSeq(w, 1, m) \in Seq(Nat) /\ Range(SubSeq(w, 1, m)) \subseteq Range(w)
    BY <2>1, <2>3, SubSeqFromFirst
  <2> QED
    BY <2>1, <2>2, <2>4
<1>2. CASE ~k.adma2
  <2>1. DmaAddr(d, blocks, 1) \in Nat
    BY <1>2, DmaAddrFacts
  <2>2. Moves(k.adma2, d, blocks, n) = Addresses(DmaAddr(d, blocks, 1), n)
    BY <1>2, Zenon DEF Moves
  <2>3. Addresses(DmaAddr(d, blocks, 1), n) \in Seq(Nat)
    BY <2>1, AddressesFacts
  <2>4. \A a \in Range(Addresses(DmaAddr(d, blocks, 1), n)) : InBlock(d, blocks, 1, a)
    BY <1>2, <2>1, AddressesFacts DEF InBlock
  <2> QED
    BY <1>2, <2>2, <2>3, <2>4
<1> QED
  BY <1>1, <1>2

-----------------------------------------------------------------------------
(* The memory that may change.                                             *)

BounceBuffer == host.bbAddr .. host.bbAddr + host.bbSize - 1

LayoutParts == [i \in DOMAIN request |-> Addresses(place[i], request[i])]

LEMMA LayoutFacts ==
  ASSUME Placed
  PROVE  /\ LayoutParts \in Seq(Seq(Nat)) /\ Len(LayoutParts) = Len(request)
         /\ \A i \in 1 .. Len(request) : LayoutParts[i] = Addresses(place[i], request[i])
                                         /\ place[i] \in Nat /\ request[i] \in Nat
         /\ Layout = FlattenSeq(LayoutParts) /\ Layout \in Seq(Nat)
         /\ \A i \in 1 .. Len(request) :
              \A a \in place[i] .. (place[i] + request[i]) - 1 : a \in Range(Layout)
<1> DEFINE s == LayoutParts
           A(i) == Addresses(place[i], request[i])
<1>1. request \in Seq(Nat) /\ place \in Seq(Nat) /\ Len(place) = Len(request)
      /\ DOMAIN request = 1 .. Len(request) /\ Len(request) \in Nat
  BY DEF Placed, PlaceLists, RequestLists
<1>2. \A i \in 1 .. Len(request) : place[i] \in Nat /\ request[i] \in Nat
  BY <1>1
<1>3. ASSUME NEW i \in 1 .. Len(request)
      PROVE  A(i) \in Seq(Nat)
             /\ \A a : a \in Range(A(i)) <=> a \in place[i] .. (place[i] + request[i]) - 1
  BY <1>2, AddressesFacts
<1>4. s = [i \in 1 .. Len(request) |-> A(i)]
  BY <1>1 DEF LayoutParts
<1>5. Layout = FlattenSeq(s)
  BY DEF Layout, LayoutParts
<1> HIDE DEF s, A
<1>6. s \in Seq(Seq(Nat)) /\ Len(s) = Len(request) /\ DOMAIN s = 1 .. Len(request)
      /\ \A i \in 1 .. Len(request) : s[i] = A(i)
  <2> DEFINE l == Len(request)
  <2>1. l \in Nat /\ s = [i \in 1 .. l |-> A(i)] /\ \A i \in 1 .. l : A(i) \in Seq(Nat)
    BY <1>1, <1>3, <1>4
  <2> HIDE DEF l
  <2>2. s \in Seq(Seq(Nat)) /\ Len(s) = l /\ DOMAIN s = 1 .. l /\ \A i \in 1 .. l : s[i] = A(i)
    BY <2>1
  <2> QED
    BY <2>2 DEF l
<1>7. Layout \in Seq(Nat) /\ Range(Layout) = UNION {Range(s[i]) : i \in DOMAIN s}
  BY <1>5, <1>6, FlattenLays, FlattenRange
<1>8. ASSUME NEW i \in 1 .. Len(request), NEW a \in place[i] .. (place[i] + request[i]) - 1
      PROVE  a \in Range(Layout)
  <2>1. a \in Range(s[i])
    BY <1>3, <1>6
  <2> QED
    BY <1>6, <1>7, <2>1
<1> QED
  BY <1>2, <1>5, <1>6, <1>7, <1>8 DEF s, A

\* A block is in the memory of the request; where the controller finds it is there, too,
\* or in the bounce buffer.
LEMMA BlockIsOwn ==
  ASSUME Placed, NEW j \in 1 .. Len(request), NEW i \in 1 .. Len(BlocksAt(j)),
         NEW a \in BlocksAt(j)[i].addr .. (BlocksAt(j)[i].addr + BlocksAt(j)[i].n) - 1
  PROVE  a \in Range(Layout)
<1>1. i \in 1 .. Len(request) - j + 1
  BY BlocksFrom
<1> DEFINE x == (j + i) - 1
<1>2. x \in 1 .. Len(request) /\ BlocksAt(j)[i] = [addr |-> place[x], n |-> request[x]]
  BY <1>1, BlocksFrom
<1> HIDE DEF x
<1>3. a \in place[x] .. (place[x] + request[x]) - 1
  BY <1>2
<1> QED
  BY <1>2, <1>3, LayoutFacts

LEMMA InBlockInside ==
  ASSUME Placed, NEW j \in 1 .. Len(request), NEW i \in 1 .. Len(BlocksAt(j)),
         NEW a, InBlock(host, BlocksAt(j), i, a)
  PROVE  /\ Bounced(host, BlocksAt(j)[i]) => a \in BounceBuffer
         /\ ~Bounced(host, BlocksAt(j)[i]) => a \in Range(Layout)
         /\ a <= host.limit
<1> DEFINE b == BlocksAt(j)
           f == DmaAddr(host, b, i)
           n == b[i].n
           start == host.bbAddr
           size == host.bbSize
           lim == host.limit
<1>1. Reached(host, b) /\ b \in Seq(DmaBlocks) /\ host \in DmaHosts
  BY PlacedReached DEF Reached
<1>2. start \in Nat /\ size \in Nat /\ lim \in Nat
  BY <1>1 DEF DmaHosts
<1>3. n \in Nat
  BY <1>1, SizesType
<1>4. /\ f \in Nat /\ f + n <= lim + 1
      /\ ~Bounced(host, b[i]) => f = b[i].addr
      /\ Bounced(host, b[i]) => f >= start /\ f + n <= start + size
  BY <1>1, DmaAddrFacts
<1>5. a \in f .. (f + n) - 1
  BY DEF InBlock
<1>6. ASSUME ~Bounced(host, b[i]) PROVE a \in Range(Layout)
  <2>1. a \in b[i].addr .. (b[i].addr + b[i].n) - 1
    BY <1>4, <1>5, <1>6
  <2> QED
    BY <2>1, BlockIsOwn
<1>7. ASSUME Bounced(host, b[i]) PROVE a \in start .. start + size - 1
  <2>1. f >= start /\ f + n <= start + size
    BY <1>4, <1>7
  <2> HIDE DEF b, f, n, start, size
  <2> QED
    BY <1>2, <1>3, <1>4, <1>5, <2>1
<1>8. a <= lim
  <2> HIDE DEF b, f, n, lim
  <2> QED
    BY <1>2, <1>3, <1>4, <1>5
<1> QED
  BY <1>6, <1>7, <1>8 DEF BounceBuffer

LEMMA PutFacts ==
  ASSUME NEW m, NEW addrs, NEW v
  PROVE  /\ DOMAIN Put(m, addrs, v) = Range(addrs) \cup DOMAIN m
         /\ \A a \in DOMAIN m \ Range(addrs) : Put(m, addrs, v)[a] = m[a]
<1> DEFINE at == AntiFunction(addrs)
<1>1. DOMAIN at = Range(addrs)
  BY DEF AntiFunction, Inverse
<1>2. Put(m, addrs, v) = [a \in DOMAIN at \cup DOMAIN m |->
                            IF a \in DOMAIN at THEN v[at[a]] ELSE m[a]]
  BY DEF Put
<1> HIDE DEF at
<1> QED
  BY <1>1, <1>2

\* Outside of the request and the bounce buffer, m is as in the beginning.
Untouched(m) ==
  /\ Memory \subseteq DOMAIN m
  /\ \A a \in Memory \ (Range(Layout) \cup BounceBuffer) : m[a] = 0

LEMMA PutInside ==
  ASSUME NEW m, Untouched(m), NEW addrs, NEW v,
         Range(addrs) \subseteq Range(Layout) \cup BounceBuffer
  PROVE  Untouched(Put(m, addrs, v))
<1> DEFINE p == Put(m, addrs, v)
<1>1. DOMAIN p = Range(addrs) \cup DOMAIN m
      /\ \A a \in DOMAIN m \ Range(addrs) : p[a] = m[a]
  BY PutFacts
<1> HIDE DEF p
<1>2. Memory \subseteq DOMAIN m /\ Memory \subseteq DOMAIN p
  BY <1>1 DEF Untouched
<1>3. ASSUME NEW a \in Memory \ (Range(Layout) \cup BounceBuffer) PROVE p[a] = 0
  <2>1. a \in DOMAIN m \ Range(addrs)
    BY <1>2
  <2>2. m[a] = 0
    BY DEF Untouched
  <2> QED
    BY <1>1, <2>1, <2>2
<1> QED
  BY <1>2, <1>3 DEF Untouched, p

\* The places of some bounced blocks.
LEMMA BouncePlaces ==
  ASSUME Placed, NEW j \in 1 .. Len(request), NEW S,
         \A i \in 1 .. Len(BlocksAt(j)) : i \in S => Bounced(host, BlocksAt(j)[i])
  PROVE  /\ Range(OwnPlace(BlocksAt(j), S)) \subseteq Range(Layout)
         /\ Range(BouncePlace(host, BlocksAt(j), S)) \subseteq BounceBuffer
<1> DEFINE b == BlocksAt(j)
           l == Len(b)
           O(i) == Addresses(b[i].addr, b[i].n)
           B(i) == Addresses(DmaAddr(host, b, i), b[i].n)
           o == [i \in DOMAIN b |-> IF i \in S THEN O(i) ELSE <<>>]
           p == [i \in DOMAIN b |-> IF i \in S THEN B(i) ELSE <<>>]
<1>1. Reached(host, b) /\ b \in Seq(DmaBlocks) /\ DOMAIN b = 1 .. l /\ l \in Nat
  BY PlacedReached DEF Reached
<1>2. OwnPlace(b, S) = FlattenSeq(o) /\ BouncePlace(host, b, S) = FlattenSeq(p)
  BY DEF OwnPlace, BouncePlace
<1>3. ASSUME NEW i \in 1 .. l
      PROVE  /\ O(i) \in Seq(Nat) /\ Range(O(i)) \subseteq Range(Layout)
             /\ B(i) \in Seq(Nat) /\ (i \in S => Range(B(i)) \subseteq BounceBuffer)
  <2>1. b[i].addr \in Nat /\ b[i].n \in Nat /\ DmaAddr(host, b, i) \in Nat
    BY <1>1, SizesType, DmaAddrFacts
  <2>2. O(i) \in Seq(Nat)
        /\ \A a : a \in Range(O(i)) <=> a \in b[i].addr .. (b[i].addr + b[i].n) - 1
    BY <2>1, AddressesFacts
  <2>3. B(i) \in Seq(Nat) /\ \A a : a \in Range(B(i)) <=> InBlock(host, b, i, a)
    BY <2>1, AddressesFacts DEF InBlock
  <2> HIDE DEF O, B
  <2>4. Range(O(i)) \subseteq Range(Layout)
    BY <2>2, BlockIsOwn
  <2>5. ASSUME i \in S PROVE Range(B(i)) \subseteq BounceBuffer
    BY <2>3, <2>5, InBlockInside
  <2> QED
    BY <2>2, <2>3, <2>4, <2>5
<1> HIDE DEF O, B, b, l
<1>4. <<>> \in Seq(Nat) /\ Range(<<>>) = {}
  BY DEF Range
<1>5. /\ o \in Seq(Seq(Nat)) /\ DOMAIN o = 1 .. l
      /\ \A i \in 1 .. l : o[i] = IF i \in S THEN O(i) ELSE <<>>
  BY <1>1, <1>3, <1>4
<1>6. /\ p \in Seq(Seq(Nat)) /\ DOMAIN p = 1 .. l
      /\ \A i \in 1 .. l : p[i] = IF i \in S THEN B(i) ELSE <<>>
  BY <1>1, <1>3, <1>4
<1> HIDE DEF o, p
<1>7. Range(FlattenSeq(o)) = UNION {Range(o[i]) : i \in DOMAIN o}
  BY <1>5, FlattenRange
<1>8. Range(FlattenSeq(p)) = UNION {Range(p[i]) : i \in DOMAIN p}
  BY <1>6, FlattenRange
<1>9. \A i \in 1 .. l : Range(o[i]) \subseteq Range(Layout)
  BY <1>3, <1>4, <1>5
<1>10. \A i \in 1 .. l : Range(p[i]) \subseteq BounceBuffer
  BY <1>3, <1>4, <1>6
<1> QED
  BY <1>2, <1>5, <1>6, <1>7, <1>8, <1>9, <1>10 DEF b

\* What the copies and the data phase of the command at hand change.
LEMMA CommandInside ==
  ASSUME SequenceInv, Placed, Pending
  PROVE  /\ \A m : Untouched(m) => Untouched(CopyIn(k.adma2, m, host, Blocks))
                                   /\ Untouched(CopyOut(m, host, Blocks))
         /\ c.hasData => \A a \in Range(Touched) :
              a \in Range(Layout) \cup BounceBuffer /\ a <= host.limit
<1>1. Blocks = BlocksAt(Current) /\ Current \in 1 .. Len(request)
  BY BlocksLeft DEF Blocks
<1> DEFINE b == Blocks
<1>2. Reached(host, b) /\ DOMAIN b = 1 .. Len(b) /\ k.adma2 \in BOOLEAN
  BY BlocksLeft DEF Reached, SequenceInv, Traits
<1>3. ASSUME NEW S, S \subseteq AllBounced(host, b)
      PROVE  /\ Range(OwnPlace(b, S)) \subseteq Range(Layout)
             /\ Range(BouncePlace(host, b, S)) \subseteq BounceBuffer
  <2>1. \A i \in 1 .. Len(b) : i \in S => Bounced(host, b[i])
    BY <1>3 DEF AllBounced
  <2> QED
    BY <1>1, <2>1, BouncePlaces
<1>4. ASSUME NEW m, Untouched(m)
      PROVE  Untouched(CopyIn(k.adma2, m, host, b)) /\ Untouched(CopyOut(m, host, b))
  <2> DEFINE S == AllBounced(host, b) \cap (IF k.adma2 THEN DOMAIN b ELSE {1})
  <2>1. Range(BouncePlace(host, b, S)) \subseteq BounceBuffer
    BY <1>3
  <2>2. CopyIn(k.adma2, m, host, b) = Copy(m, OwnPlace(b, S), BouncePlace(host, b, S))
    BY DEF CopyIn
  <2> HIDE DEF S
  <2>3. Untouched(CopyIn(k.adma2, m, host, b))
    BY <1>4, <2>1, <2>2, PutInside DEF Copy
  <2>4. Range(OwnPlace(b, AllBounced(host, b))) \subseteq Range(Layout)
    BY <1>3
  <2>5. Untouched(CopyOut(m, host, b))
    BY <1>4, <2>4, PutInside DEF CopyOut, Copy
  <2> QED
    BY <2>3, <2>5
<1>5. ASSUME c.hasData, NEW a \in Range(Touched)
      PROVE  a \in Range(Layout) \cup BounceBuffer /\ a <= host.limit
  <2>1. c.nblk \in Nat /\ (~k.adma2 => 1 \in 1 .. Len(b) /\ c.nblk = b[1].n)
    BY <1>5, BlocksLeft DEF Placed, RequestLists
  <2>3. \A x \in Range(Moves(k.adma2, host, b, c.nblk)) :
          \E i \in 1 .. Len(b) : InBlock(host, b, i, x)
    <3>1. k.adma2 \in BOOLEAN /\ Reached(host, b) /\ c.nblk \in Nat
      BY <1>2, <2>1
    <3> HIDE DEF b
    <3> QED
      BY <2>1, <3>1, MovesFacts, Zenon
  <2>2. PICK i \in 1 .. Len(b) : InBlock(host, b, i, a)
    BY <1>5, <2>3 DEF Touched
  <2> QED
    BY <1>1, <2>2, InBlockInside
<1> QED
  BY <1>4, <1>5

MemoryInv == SequenceInv /\ Placed /\ Untouched(mem)

LEMMA InitMemoryInv == Init => MemoryInv
<1> SUFFICES ASSUME Init PROVE MemoryInv
  OBVIOUS
<1> DEFINE none == [a \in Memory |-> 0]
<1>1. mem = none \/ mem = Put(none, Layout, Sectors(Len(Layout)))
  BY DEF Init
<1>2. Untouched(none)
  BY DEF Untouched
<1> HIDE DEF none
<1>3. Untouched(Put(none, Layout, Sectors(Len(Layout))))
  BY <1>2, PutInside
<1> QED
  BY <1>1, <1>2, <1>3, InitSequenceInv, InitPlaced DEF MemoryInv

\* What is left in memory by the data phase of the command at hand.
LEMMA FilledInside ==
  ASSUME SequenceInv, Placed, Pending, c.hasData, Untouched(mem)
  PROVE  Untouched(Filled)
<1>1. Range(Touched) \subseteq Range(Layout) \cup BounceBuffer
  BY CommandInside
<1> QED
  BY <1>1, PutInside DEF Filled

LEMMA MemoryInvStays == MemoryInv /\ [Next]_vars => MemoryInv'
<1> SUFFICES ASSUME MemoryInv, [Next]_vars PROVE MemoryInv'
  OBVIOUS
<1>1. SequenceInv' /\ Placed' /\ SequenceInv /\ Placed /\ Untouched(mem)
  BY NextKeepsSequenceInv, PlacedStays DEF MemoryInv
<1>2. request' = request /\ place' = place /\ host' = host
  BY DEF Next, vars, fixed, CommandFails, SubmitThrows, SetBlockCount, Transfer,
         StopTransfer, Ended
<1>3. Layout' = Layout /\ BounceBuffer' = BounceBuffer
  BY <1>2 DEF Layout, BounceBuffer
<1>4. Untouched(mem')
  <2>1. CASE mem' = mem
    BY <1>1, <2>1
  <2>2. CASE Transfer
    <3>1. Pending /\ c.hasData
      BY <2>2 DEF Transfer
    <3>2. CASE c.read
      <4>1. mem' = IF BounceRead THEN CopyOut(Filled, host, Blocks) ELSE Filled
        BY <2>2, <3>2 DEF Transfer
      <4>2. Untouched(Filled)
        BY <1>1, <3>1, FilledInside
      <4>3. Untouched(CopyOut(Filled, host, Blocks))
        BY <1>1, <3>1, <4>2, CommandInside
      <4> QED
        BY <4>1, <4>2, <4>3
    <3>3. CASE ~c.read
      <4>1. mem' = CopyIn(k.adma2, mem, host, Blocks)
        BY <2>2, <3>3 DEF Transfer
      <4> QED
        BY <1>1, <3>1, <4>1, CommandInside
    <3> QED
      BY <3>2, <3>3
  <2>3. CASE CommandFails
    <3>1. PICK s : /\ s \in {"Cmd_timeout", "Cmd_error"} \cup
                             (IF c.hasData THEN {"Data_error"} ELSE {})
                   /\ mem' \in {mem} \cup (IF s = "Data_error" /\ c.read THEN {Filled} ELSE {})
      BY <2>3 DEF CommandFails
    <3>2. CASE mem' # mem
      <4>1. c.hasData /\ mem' = Filled
        BY <3>1, <3>2
      <4>2. Pending
        BY <2>3 DEF CommandFails
      <4> QED
        BY <1>1, <4>1, <4>2, FilledInside
    <3> QED
      BY <2>1, <3>2
  <2> QED
    BY <2>1, <2>2, <2>3 DEF Next, vars, SubmitThrows, SetBlockCount, StopTransfer
<1> QED
  BY <1>1, <1>3, <1>4 DEF MemoryInv, Untouched

\* The controller is given addresses of the request and of the bounce buffer only, all
\* of which it reaches, and nothing else in memory changes: for blocks and descriptors
\* of any size, with the bounce buffer anywhere.
THEOREM DmaAlwaysInside == Spec => []DmaStaysInside
<1>1. ASSUME MemoryInv PROVE DmaStaysInside
  BY <1>1, CommandInside DEF DmaStaysInside, MemoryInv, Untouched, BounceBuffer
<1> QED
  BY <1>1, InitMemoryInv, MemoryInvStays, PTL DEF Spec

-----------------------------------------------------------------------------
(* Where each sector is.                                                    *)

\* No value twice; no value in two places of the parts.
Injects(s) == \A p, q \in 1 .. Len(s) : s[p] = s[q] => p = q
Apart(ss) ==
  \A i, j \in 1 .. Len(ss) : \A x \in 1 .. Len(ss[i]), y \in 1 .. Len(ss[j]) :
    ss[i][x] = ss[j][y] => i = j /\ x = y

LEMMA FlattenApart ==
  ASSUME NEW ss \in Seq(Seq(Nat)), Apart(ss)
  PROVE  Injects(FlattenSeq(ss))
<1> DEFINE f == FlattenSeq(ss)
<1>1. f \in Seq(Nat) /\ Laid(f, ss, Len(ss))
  BY FlattenLays
<1> HIDE DEF f
<1>2. ASSUME NEW p \in 1 .. Len(f), NEW q \in 1 .. Len(f), f[p] = f[q] PROVE p = q
  <2>1. PICK i \in 1 .. Len(ss) : \E x \in 1 .. Len(ss[i]) : p = Starts(ss)[i - 1] + x
    BY <1>1, Zenon DEF Laid
  <2>2. PICK x \in 1 .. Len(ss[i]) : p = Starts(ss)[i - 1] + x
    BY <2>1
  <2>3. PICK j \in 1 .. Len(ss) : \E y \in 1 .. Len(ss[j]) : q = Starts(ss)[j - 1] + y
    BY <1>1, Zenon DEF Laid
  <2>4. PICK y \in 1 .. Len(ss[j]) : q = Starts(ss)[j - 1] + y
    BY <2>3
  <2>5. f[p] = ss[i][x] /\ f[q] = ss[j][y]
    BY <1>1, <2>2, <2>4 DEF Laid
  <2>6. ss[i][x] = ss[j][y]
    BY <1>2, <2>5
  <2>7. i = j /\ x = y
    BY <2>6, Zenon DEF Apart
  <2> QED
    BY <2>2, <2>4, <2>7
<1> QED
  BY <1>2 DEF f, Injects

\* A number up to the sum falls into some part.
LEMMA SumsSplit ==
  ASSUME NEW r \in Seq(Nat), NEW p \in 1 .. SectorSums(r)[Len(r)]
  PROVE  \E i \in 1 .. Len(r) : \E o \in 1 .. r[i] : p = SectorSums(r)[i - 1] + o
<1> DEFINE f == SectorSums(r)
           S == {i \in 0 .. Len(r) : p <= f[i]}
<1>1. /\ f \in [0 .. Len(r) -> Nat] /\ f[0] = 0
      /\ \A i \in 1 .. Len(r) : f[i] = f[i - 1] + r[i]
  BY SumsAreSums DEF IsSums
<1>2. p \in 1 .. f[Len(r)]
  OBVIOUS
<1> HIDE DEF f
<1>3. PICK m \in S : \A x \in S : m <= x
  <2>1. S \subseteq Nat /\ Len(r) \in S
    BY <1>1, <1>2
  <2> HIDE DEF S
  <2> QED
    BY <2>1, LeastNat
<1>4. m \in 1 .. Len(r) /\ p <= f[m] /\ f[m - 1] < p
  <2>1. m \in 1 .. Len(r) /\ p <= f[m]
    BY <1>1, <1>2, <1>3
  <2>2. m - 1 \in 0 .. Len(r) /\ m - 1 \notin S
    BY <1>3, <2>1
  <2>3. f[m - 1] \in Nat
    BY <1>1, <2>2
  <2> QED
    BY <1>2, <2>1, <2>2, <2>3
<1>5. f[m] = f[m - 1] + r[m] /\ f[m - 1] \in Nat /\ r[m] \in Nat
  <2>1. m \in 1 .. Len(r) /\ m - 1 \in 0 .. Len(r)
    BY <1>4
  <2>2. f[m - 1] \in Nat /\ f[m] = f[m - 1] + r[m]
    BY <1>1, <2>1
  <2>3. r[m] \in Nat
    BY <2>1
  <2> QED
    BY <2>2, <2>3
<1>6. p - f[m - 1] \in 1 .. r[m] /\ p = f[m - 1] + (p - f[m - 1])
  BY <1>2, <1>4, <1>5
<1> QED
  BY <1>4, <1>6 DEF f

LEMMA PutAt ==
  ASSUME NEW m, NEW addrs, Len(addrs) \in Nat, DOMAIN addrs = 1 .. Len(addrs),
         Injects(addrs), NEW v, NEW p \in 1 .. Len(addrs)
  PROVE  addrs[p] \in DOMAIN Put(m, addrs, v) /\ Put(m, addrs, v)[addrs[p]] = v[p]
<1> DEFINE at == AntiFunction(addrs)
<1>1. addrs[p] \in Range(addrs)
  BY DEF Range
<1>2. DOMAIN at = Range(addrs)
  BY DEF AntiFunction, Inverse
<1>3. at[addrs[p]] = CHOOSE q \in DOMAIN addrs : addrs[p] \in Range(addrs) => addrs[q] = addrs[p]
  BY <1>1 DEF AntiFunction, Inverse
<1>4. at[addrs[p]] = p
  BY <1>1, <1>3 DEF Injects
<1>5. Put(m, addrs, v) = [a \in DOMAIN at \cup DOMAIN m |->
                            IF a \in DOMAIN at THEN v[at[a]] ELSE m[a]]
  BY DEF Put
<1> HIDE DEF at
<1> QED
  BY <1>1, <1>2, <1>4, <1>5

\* A copy between two lists of parts goes from part to part.
Copied(m, from, to, out) ==
  \A i \in 1 .. Len(to) : \A x \in 1 .. Len(to[i]) :
    to[i][x] \in DOMAIN out /\ out[to[i][x]] = m[from[i][x]]

LEMMA CopyParts ==
  ASSUME NEW m, NEW from \in Seq(Seq(Nat)), NEW to \in Seq(Seq(Nat)), Apart(to),
         Lengths(from) = Lengths(to), Len(from) = Len(to)
  PROVE  Copied(m, from, to, Copy(m, FlattenSeq(from), FlattenSeq(to)))
<1> SUFFICES ASSUME NEW out, out = Copy(m, FlattenSeq(from), FlattenSeq(to)),
                    NEW i \in 1 .. Len(to), NEW x \in 1 .. Len(to[i])
             PROVE  to[i][x] \in DOMAIN out /\ out[to[i][x]] = m[from[i][x]]
  BY DEF Copied
<1> DEFINE f == FlattenSeq(from)
           t == FlattenSeq(to)
           p == Starts(to)[i - 1] + x
           v == [y \in DOMAIN f |-> m[f[y]]]
<1>1. /\ f \in Seq(Nat) /\ Laid(f, from, Len(from))
      /\ t \in Seq(Nat) /\ Laid(t, to, Len(to)) /\ Injects(t)
  BY FlattenLays, FlattenApart
<1>2. Copy(m, f, t) = Put(m, t, v)
  BY DEF Copy
<1>3. Starts(from) = Starts(to)
  BY DEF Starts
<1>4. Len(from[i]) = Len(to[i])
  <2>1. Lengths(from)[i] = Len(from[i]) /\ Lengths(to)[i] = Len(to[i])
    BY DEF Lengths
  <2> QED
    BY <2>1
<1> HIDE DEF f, t, v
<1>5. p \in 1 .. Len(t) /\ t[p] = to[i][x]
  BY <1>1 DEF Laid
<1>6. p \in 1 .. Len(f) /\ f[p] = from[i][x]
  BY <1>1, <1>3, <1>4 DEF Laid
<1> HIDE DEF p
<1>7. v[p] = m[from[i][x]]
  <2>1. DOMAIN f = 1 .. Len(f)
    BY <1>1
  <2> QED
    BY <1>6, <2>1 DEF v
<1>8. Len(t) \in Nat /\ DOMAIN t = 1 .. Len(t)
  BY <1>1
<1>9. t[p] \in DOMAIN Put(m, t, v) /\ Put(m, t, v)[t[p]] = v[p]
  <2>1. ASSUME NEW q \in 1 .. Len(t)
        PROVE  t[q] \in DOMAIN Put(m, t, v) /\ Put(m, t, v)[t[q]] = v[q]
    BY <1>1, <1>8, PutAt
  <2> QED
    BY <1>5, <2>1
<1> QED
  BY <1>2, <1>5, <1>7, <1>9 DEF f, t

LEMMA SumsBefore ==
  ASSUME NEW r \in Seq(Nat), NEW i \in 1 .. Len(r), NEW j \in 1 .. Len(r), i < j,
         NEW o \in 1 .. r[i], NEW u \in 1 .. r[j]
  PROVE  SectorSums(r)[i - 1] + o < SectorSums(r)[j - 1] + u
<1> DEFINE f == SectorSums(r)
<1>1. /\ f \in [0 .. Len(r) -> Nat]
      /\ \A x \in 1 .. Len(r) : f[x] = f[x - 1] + r[x]
  BY SumsAreSums DEF IsSums
<1>2. i \in 0 .. Len(r) /\ j - 1 \in i .. Len(r) /\ i - 1 \in 0 .. Len(r)
      /\ j - 1 \in 0 .. Len(r)
  OBVIOUS
<1>3. f[i] <= f[j - 1]
  BY <1>2, SumsGrow
<1> HIDE DEF f
<1>4. f[i] \in Nat /\ f[i - 1] \in Nat /\ f[j - 1] \in Nat /\ r[i] \in Nat
      /\ f[i] = f[i - 1] + r[i]
  <2>1. f[i] \in Nat /\ f[i - 1] \in Nat /\ f[j - 1] \in Nat
    BY <1>1, <1>2
  <2>2. r[i] \in Nat
    OBVIOUS
  <2>3. f[i] = f[i - 1] + r[i]
    BY <1>1
  <2> QED
    BY <2>1, <2>2, <2>3
<1>5. f[i - 1] + o < f[j - 1] + u
  <2>1. o \in Int /\ o <= r[i] /\ u \in Int /\ 1 <= u
    <3>1. r[j] \in Nat
      OBVIOUS
    <3> QED
      BY <1>4, <3>1
  <2> DEFINE a == f[i - 1]
             b == f[i]
             g == f[j - 1]
             l == r[i]
  <2>2. a \in Nat /\ b \in Nat /\ g \in Nat /\ l \in Nat /\ b = a + l /\ b <= g /\ o <= l
    BY <1>3, <1>4, <2>1
  <2> HIDE DEF a, b, g, l
  <2>3. a + o < g + u
    BY <2>1, <2>2
  <2> QED
    BY <2>3 DEF a, g
<1> QED
  BY <1>5 DEF f

\* That part is the only one.
LEMMA SumsUnique ==
  ASSUME NEW r \in Seq(Nat), NEW i \in 1 .. Len(r), NEW j \in 1 .. Len(r),
         NEW o \in 1 .. r[i], NEW u \in 1 .. r[j],
         SectorSums(r)[i - 1] + o = SectorSums(r)[j - 1] + u
  PROVE  i = j /\ o = u
<1>1. /\ SectorSums(r) \in [0 .. Len(r) -> Nat]
      /\ i - 1 \in 0 .. Len(r) /\ j - 1 \in 0 .. Len(r)
  BY SumsAreSums DEF IsSums
<1>2. SectorSums(r)[i - 1] \in Nat /\ SectorSums(r)[j - 1] \in Nat
  BY <1>1
<1>3. ~(i < j) /\ ~(j < i)
  <2>1. ~(i < j)
    <3>1. i < j => SectorSums(r)[i - 1] + o < SectorSums(r)[j - 1] + u
      BY SumsBefore
    <3> QED
      BY <1>2, <3>1
  <2>2. ~(j < i)
    <3>1. j < i => SectorSums(r)[j - 1] + u < SectorSums(r)[i - 1] + o
      BY SumsBefore
    <3> QED
      BY <1>2, <3>1
  <2> QED
    BY <2>1, <2>2
<1>4. i = j
  BY <1>3
<1> QED
  BY <1>2, <1>4

-----------------------------------------------------------------------------
(* The controller walks the blocks from the first sector to the last one.   *)

LEMMA CountsType ==
  ASSUME NEW d, NEW blocks, Reached(d, blocks)
  PROVE  /\ DescCounts(blocks) \in Seq(Nat) /\ Len(DescCounts(blocks)) = Len(blocks)
         /\ Len(blocks) \in Nat /\ DOMAIN blocks = 1 .. Len(blocks)
         /\ \A b \in 1 .. Len(blocks) : DescCounts(blocks)[b] = DescCount(blocks[b].n)
<1>1. blocks \in Seq(DmaBlocks)
  BY DEF Reached
<1>2. \A b \in 1 .. Len(blocks) : DescCount(blocks[b].n) \in Nat
  <2>1. DOMAIN blocks = 1 .. Len(blocks)
    BY <1>1
  <2>2. \A b \in 1 .. Len(blocks) : blocks[b].n \in Nat
    BY <1>1, <2>1, SizesType
  <2> QED
    BY <2>2, DescCountFacts
<1> QED
  BY <1>1, <1>2 DEF DescCounts

\* The descriptors of a block, where they are in the table.
LEMMA TableAt ==
  ASSUME NEW d, NEW blocks, Reached(d, blocks),
         NEW b \in 1 .. Len(blocks), NEW y \in 1 .. DescCount(blocks[b].n)
  PROVE  LET q == SectorSums(DescCounts(blocks))[b - 1] + y IN
         /\ q \in 1 .. Len(Table(d, blocks))
         /\ IsDesc(Table(d, blocks)[q], DmaAddr(d, blocks, b), blocks[b].n,
                   b = Len(blocks), y)
<1> DEFINE s == BlockDescs(d, blocks)
           t == Table(d, blocks)
           last == (b = Len(blocks))
<1>1. /\ s \in Seq(Seq(Descriptors)) /\ Len(s) = Len(blocks)
      /\ Lengths(s) = DescCounts(blocks)
      /\ s[b] = Descs(DmaAddr(d, blocks, b), blocks[b].n, b = Len(blocks))
      /\ Len(s[b]) = DescCount(blocks[b].n)
  BY BlockDescsFacts
<1>2. t = FlattenSeq(s)
  BY DEF Table, BlockDescs
<1>3. DmaAddr(d, blocks, b) \in Nat /\ blocks[b].n \in Nat /\ last \in BOOLEAN
  <2>1. blocks \in Seq(DmaBlocks)
    BY DEF Reached
  <2> QED
    BY <2>1, SizesType, DmaAddrFacts
<1> HIDE DEF s, t, last
<1>4. Laid(t, s, Len(s))
  BY <1>1, <1>2, FlattenLays
<1>5. /\ Starts(s)[b - 1] + y \in 1 .. Len(t) /\ t[Starts(s)[b - 1] + y] = s[b][y]
  BY <1>1, <1>4 DEF Laid
<1>6. IsDesc(Descs(DmaAddr(d, blocks, b), blocks[b].n, last)[y],
             DmaAddr(d, blocks, b), blocks[b].n, last, y)
  BY <1>3, DescsFacts, Zenon
<1>7. s[b][y] = Descs(DmaAddr(d, blocks, b), blocks[b].n, last)[y]
  BY <1>1 DEF last
<1>8. Starts(s) = SectorSums(DescCounts(blocks))
  BY <1>1 DEF Starts
<1>9. IsDesc(t[SectorSums(DescCounts(blocks))[b - 1] + y],
             DmaAddr(d, blocks, b), blocks[b].n, last, y)
  BY <1>5, <1>6, <1>7, <1>8, Zenon
<1> QED
  BY <1>5, <1>8, <1>9, Zenon DEF t, last

\* Only the last descriptor of the table can have the end mark.
LEMMA EndIsLast ==
  ASSUME NEW d, NEW blocks, Reached(d, blocks),
         NEW q \in 1 .. Len(Table(d, blocks)), Table(d, blocks)[q].end
  PROVE  q = Len(Table(d, blocks))
<1> DEFINE C == DescCounts(blocks)
           t == Table(d, blocks)
           T == SectorSums(C)
<1>1. /\ C \in Seq(Nat) /\ Len(C) = Len(blocks) /\ Len(blocks) \in Nat
      /\ \A b \in 1 .. Len(blocks) : C[b] = DescCount(blocks[b].n)
  BY CountsType
<1>2. Len(t) = T[Len(C)] /\ q \in 1 .. Len(t)
  BY <1>1, TableFacts
<1>3. PICK b \in 1 .. Len(C) : \E y \in 1 .. C[b] : q = T[b - 1] + y
  <2>1. q \in 1 .. SectorSums(C)[Len(C)]
    BY <1>2
  <2> HIDE DEF C
  <2> QED
    BY <1>1, <2>1, SumsSplit
<1>4. PICK y \in 1 .. C[b] : q = T[b - 1] + y
  BY <1>3
<1>5. IsDesc(t[q], DmaAddr(d, blocks, b), blocks[b].n, b = Len(blocks), y)
  <2>1. y \in 1 .. DescCount(blocks[b].n) /\ b \in 1 .. Len(blocks)
    BY <1>1, <1>3, <1>4
  <2> QED
    BY <1>4, <2>1, TableAt, Zenon
<1>6. b = Len(blocks) /\ y = DescCount(blocks[b].n)
  BY <1>5 DEF IsDesc
<1>7. b = Len(C) /\ y = C[b]
  BY <1>1, <1>3, <1>6
<1>8. T[b] = T[b - 1] + C[b]
  BY <1>1, SumsAreSums DEF IsSums
<1> QED
  BY <1>2, <1>4, <1>7, <1>8

\* So the controller walks all of it.
DescLengths(table) == [q \in DOMAIN table |-> table[q].length]
WalkParts(table) == [q \in DOMAIN table |-> Addresses(table[q].addr, table[q].length)]

\* The controller walks through all descriptors of the table.
WalkedByParts(table) ==
  /\ Walked(table) = FlattenSeq(WalkParts(table))
  /\ WalkParts(table) \in Seq(Seq(Nat)) /\ Len(WalkParts(table)) = Len(table)
  /\ Lengths(WalkParts(table)) = DescLengths(table)
  /\ \A q \in 1 .. Len(table) :
       /\ Len(WalkParts(table)[q]) = table[q].length
       /\ \A x \in 1 .. table[q].length : WalkParts(table)[q][x] = (table[q].addr + x) - 1

LEMMA WalksAll ==
  ASSUME NEW d, NEW blocks, Reached(d, blocks)
  PROVE  WalkedByParts(Table(d, blocks))
<1> DEFINE table == Table(d, blocks)
           ends == {q \in DOMAIN table : table[q].end}
           m == IF ends = {} THEN Len(table) ELSE Min(ends)
           walk == SubSeq(table, 1, m)
           s == WalkParts(table)
<1>1. table \in Seq(Descriptors)
  BY TableFacts
<1>2. \A q \in 1 .. Len(table) : table[q].end => q = Len(table)
  BY EndIsLast
<1>3. Walked(table) = FlattenSeq([i \in DOMAIN walk |-> Addresses(walk[i].addr, walk[i].length)])
  BY DEF Walked
<1> HIDE DEF table
<1>4. DOMAIN table = 1 .. Len(table) /\ Len(table) \in Nat
  BY <1>1
<1>5. m = Len(table)
  <2>1. ends \subseteq {Len(table)}
    BY <1>2, <1>4
  <2> HIDE DEF ends
  <2>2. CASE ends = {}
    BY <2>2
  <2>3. CASE ends = {Len(table)}
    BY <1>4, <2>3 DEF Min
  <2> QED
    BY <2>1, <2>2, <2>3
<1> HIDE DEF m
<1>6. walk = table
  BY <1>1, <1>5
<1>7. Walked(table) = FlattenSeq(s)
  BY <1>3, <1>6 DEF WalkParts
<1> HIDE DEF walk
<1>8. ASSUME NEW q \in 1 .. Len(table)
      PROVE  /\ s[q] \in Seq(Nat) /\ Len(s[q]) = table[q].length
             /\ \A x \in 1 .. table[q].length : s[q][x] = (table[q].addr + x) - 1
  <2> DEFINE e == table[q]
  <2>1. e \in Descriptors
    BY <1>1, <1>4
  <2>2. s[q] = Addresses(e.addr, e.length)
    BY <1>4 DEF WalkParts
  <2> HIDE DEF e, s
  <2>3. e.addr \in Nat /\ e.length \in Nat
    BY <2>1 DEF Descriptors
  <2>4. /\ s[q] \in Seq(Nat) /\ Len(s[q]) = e.length
        /\ \A x \in 1 .. e.length : s[q][x] = (e.addr + x) - 1
    <3> DEFINE a == Addresses(e.addr, e.length)
    <3>1. /\ a \in Seq(Nat) /\ Len(a) = e.length
          /\ \A x \in 1 .. e.length : a[x] = (e.addr + x) - 1
      BY <2>3, AddressesFacts, Zenon
    <3> HIDE DEF a
    <3>2. s[q] = a
      BY <2>2 DEF a
    <3> QED
      BY <3>1, <3>2
  <2> QED
    BY <2>4, Zenon DEF e
<1>9. DOMAIN s = 1 .. Len(table)
  BY <1>4 DEF WalkParts
<1> HIDE DEF s
<1>10. s \in Seq(Seq(Nat)) /\ Len(s) = Len(table)
  <2>1. s = [q \in 1 .. Len(table) |-> s[q]]
    BY <1>9 DEF s, WalkParts
  <2>2. s \in [1 .. Len(table) -> Seq(Nat)]
    BY <1>8, <2>1
  <2> QED
    BY <1>4, <1>9, <2>2
<1>11. Lengths(s) = DescLengths(table)
  BY <1>4, <1>8, <1>9 DEF Lengths, DescLengths
<1> QED
  BY <1>7, <1>8, <1>10, <1>11 DEF s, table, WalkedByParts

\* The sectors in the first y descriptors of a block of n sectors.
Covered(n, y) == IF y < DescCount(n) THEN y * MaxLength ELSE n

LEMMA NoneCovered ==
  ASSUME NEW n \in Nat
  PROVE  Covered(n, 0) = 0
<1>1. DescCount(n) \in Nat /\ n <= DescCount(n) * MaxLength /\ MaxLength \in Nat
  BY DescCountFacts, DmaDescAssumption
<1>2. CASE DescCount(n) = 0
  <2>1. n <= 0 * MaxLength
    BY <1>1, <1>2
  <2>2. n = 0
    BY <1>1, <2>1
  <2> QED
    BY <1>2, <2>2 DEF Covered
<1>3. CASE 0 < DescCount(n)
  BY <1>1, <1>3 DEF Covered
<1> QED
  BY <1>1, <1>2, <1>3

LEMMA DescCovers ==
  ASSUME NEW n \in Nat, NEW addr \in Nat, NEW y \in 1 .. DescCount(n), NEW last,
         NEW e \in Descriptors, IsDesc(e, addr, n, last, y)
  PROVE  /\ Covered(n, y - 1) \in Nat /\ Covered(n, y) <= n
         /\ Covered(n, y) = Covered(n, y - 1) + e.length
         /\ e.addr = addr + Covered(n, y - 1) /\ e.length \in Nat
<1>1. DescCount(n) \in Nat /\ (y - 1) * MaxLength \in Nat
  BY DescCountFacts
<1>2. Covered(n, y - 1) = (y - 1) * MaxLength
  BY <1>1 DEF Covered
<1>3. /\ e.addr = addr + (y - 1) * MaxLength /\ e.addr + e.length <= addr + n
      /\ y < DescCount(n) => e.length = MaxLength
      /\ y = DescCount(n) => e.addr + e.length = addr + n
      /\ e.length \in Nat
  BY DEF IsDesc, Descriptors
<1> DEFINE z == (y - 1) * MaxLength
           a == e.addr
           l == e.length
<1>4. z \in Nat /\ a = addr + z /\ l \in Nat /\ a + l <= addr + n
  BY <1>1, <1>3
<1>5. y < DescCount(n) => Covered(n, y) = z + MaxLength /\ l = MaxLength
  <2>1. y * MaxLength = z + MaxLength
    <3>1. MaxLength \in Int /\ y \in Int
      BY DmaDescAssumption
    <3> QED
      BY <3>1, TimesNext
  <2> QED
    BY <1>3, <2>1 DEF Covered
<1>6. y = DescCount(n) => Covered(n, y) = n /\ a + l = addr + n
  BY <1>1, <1>3 DEF Covered
<1>7. Covered(n, y - 1) = z
  BY <1>2
<1> HIDE DEF a, l, z
<1>8. Covered(n, y) = z + l
  <2>1. CASE y < DescCount(n)
    BY <1>5, <2>1
  <2>2. CASE y = DescCount(n)
    BY <1>4, <1>6, <2>2
  <2> QED
    BY <1>1, <2>1, <2>2
<1>9. z + l <= n
  BY <1>4
<1> QED
  BY <1>4, <1>7, <1>8, <1>9 DEF a, l

WalkSums(d, blocks) == SectorSums(DescLengths(Table(d, blocks)))

LEMMA WalkSumsFacts ==
  ASSUME NEW d, NEW blocks, Reached(d, blocks)
  PROVE  /\ WalkSums(d, blocks) \in [0 .. Len(Table(d, blocks)) -> Nat]
         /\ WalkSums(d, blocks)[0] = 0
         /\ \A q \in 1 .. Len(Table(d, blocks)) :
              /\ WalkSums(d, blocks)[q] = WalkSums(d, blocks)[q - 1] + Table(d, blocks)[q].length
              /\ Table(d, blocks)[q] \in Descriptors
<1> DEFINE t == Table(d, blocks)
<1>1. t \in Seq(Descriptors)
  BY TableFacts
<1> HIDE DEF t
<1>2. DOMAIN t = 1 .. Len(t) /\ Len(t) \in Nat
  BY <1>1
<1>3. ASSUME NEW q \in 1 .. Len(t) PROVE t[q] \in Descriptors /\ t[q].length \in Nat
  <2>1. t[q] \in Descriptors
    BY <1>1, <1>2
  <2> QED
    BY <2>1 DEF Descriptors
<1>4. /\ DescLengths(t) \in Seq(Nat) /\ Len(DescLengths(t)) = Len(t)
      /\ \A q \in 1 .. Len(t) : DescLengths(t)[q] = t[q].length
  BY <1>2, <1>3 DEF DescLengths
<1>5. IsSums(SectorSums(DescLengths(t)), DescLengths(t), Len(t))
  BY <1>4, SumsAreSums
<1> QED
  BY <1>3, <1>4, <1>5 DEF t, IsSums, WalkSums

\* The walk through one block.
LEMMA BlockWalk ==
  ASSUME NEW d, NEW blocks, Reached(d, blocks), NEW b \in 1 .. Len(blocks),
         NEW s \in Nat, NEW n, n = blocks[b].n,
         NEW q0 \in Nat, q0 = SectorSums(DescCounts(blocks))[b - 1],
         WalkSums(d, blocks)[q0] = s
  PROVE  \A y \in 0 .. DescCount(n) : WalkSums(d, blocks)[q0 + y] = s + Covered(n, y)
<1> DEFINE W == WalkSums(d, blocks)
           t == Table(d, blocks)
           a == DmaAddr(d, blocks, b)
           S == {y \in 0 .. DescCount(n) : ~(W[q0 + y] = s + Covered(n, y))}
<1>1. n \in Nat /\ a \in Nat /\ DescCount(n) \in Nat
  <2>1. blocks \in Seq(DmaBlocks) /\ DOMAIN blocks = 1 .. Len(blocks)
    BY DEF Reached
  <2>2. n \in Nat
    BY <2>1, SizesType
  <2>3. a \in Nat
    BY DmaAddrFacts
  <2> QED
    BY <2>2, <2>3, DescCountFacts
<1>2. \A y \in 1 .. DescCount(n) : /\ q0 + y \in 1 .. Len(t)
                                   /\ IsDesc(t[q0 + y], a, n, b = Len(blocks), y)
  BY TableAt, Zenon
<1>3. \A q \in 1 .. Len(t) : W[q] = W[q - 1] + t[q].length /\ t[q] \in Descriptors
  BY WalkSumsFacts
<1>4. W[q0] = s
  OBVIOUS
<1> SUFFICES ASSUME S # {} PROVE FALSE
  OBVIOUS
<1> HIDE DEF W, t, a
<1>5. PICK m \in S : \A x \in S : m <= x
  <2>1. S \subseteq Nat
    BY <1>1
  <2> HIDE DEF S
  <2> QED
    BY <2>1, LeastNat
<1>6. CASE m = 0
  <2>1. Covered(n, 0) = 0 /\ q0 + 0 = q0 /\ s + 0 = s
    BY <1>1, NoneCovered
  <2> QED
    BY <1>4, <1>5, <1>6, <2>1
<1>7. CASE m # 0
  <2>1. m \in 1 .. DescCount(n) /\ m - 1 \in 0 .. DescCount(n) /\ m - 1 \notin S
    BY <1>1, <1>5, <1>7
  <2>2. W[q0 + (m - 1)] = s + Covered(n, m - 1)
    BY <2>1
  <2> DEFINE q == q0 + m
             e == t[q]
             last == (b = Len(blocks))
             w == W[q - 1]
  <2>3. q \in 1 .. Len(t) /\ q - 1 = q0 + (m - 1)
    BY <1>2, <2>1
  <2>4. IsDesc(e, a, n, last, m)
    BY <1>2, <2>1, Zenon
  <2>5. w = s + Covered(n, m - 1)
    BY <2>2, <2>3
  <2> HIDE DEF q
  <2>6. e \in Descriptors /\ W[q] = w + e.length
    BY <1>3, <2>3
  <2> HIDE DEF e, last, w, S
  <2>7. /\ Covered(n, m - 1) \in Nat /\ e.length \in Nat
        /\ Covered(n, m) = Covered(n, m - 1) + e.length
    <3>1. m \in 1 .. DescCount(n) /\ n \in Nat /\ a \in Nat /\ e \in Descriptors
      BY <1>1, <2>1, <2>6
    <3> QED
      BY <2>4, <3>1, DescCovers
  <2>8. W[q] = s + Covered(n, m)
    BY <2>5, <2>6, <2>7
  <2> QED
    BY <1>5, <2>8 DEF q, S
<1> QED
  BY <1>6, <1>7

\* It comes to each block after the sectors of the blocks before.
LEMMA WalkStarts ==
  ASSUME NEW d, NEW blocks, Reached(d, blocks)
  PROVE  \A b \in 0 .. Len(blocks) :
           WalkSums(d, blocks)[SectorSums(DescCounts(blocks))[b]]
             = SectorSums(Sizes(blocks))[b]
<1> DEFINE W == WalkSums(d, blocks)
           C == DescCounts(blocks)
           T == SectorSums(C)
           F == SectorSums(Sizes(blocks))
           S == {b \in 0 .. Len(blocks) : W[T[b]] # F[b]}
<1>1. /\ C \in Seq(Nat) /\ Len(C) = Len(blocks) /\ Len(blocks) \in Nat
      /\ \A b \in 1 .. Len(blocks) : C[b] = DescCount(blocks[b].n)
  BY CountsType
<1>2. /\ Sizes(blocks) \in Seq(Nat) /\ Len(Sizes(blocks)) = Len(blocks)
      /\ \A b \in 1 .. Len(blocks) : Sizes(blocks)[b] = blocks[b].n /\ blocks[b].n \in Nat
  <2>1. blocks \in Seq(DmaBlocks) /\ DOMAIN blocks = 1 .. Len(blocks)
    BY DEF Reached
  <2> QED
    BY <2>1, SizesType
<1>3. /\ T \in [0 .. Len(blocks) -> Nat] /\ T[0] = 0
      /\ \A b \in 1 .. Len(blocks) : T[b] = T[b - 1] + C[b]
  BY <1>1, SumsAreSums DEF IsSums
<1>4. /\ F \in [0 .. Len(blocks) -> Nat] /\ F[0] = 0
      /\ \A b \in 1 .. Len(blocks) : F[b] = F[b - 1] + blocks[b].n
  BY <1>2, SumsAreSums DEF IsSums
<1>5. W[0] = 0
  BY WalkSumsFacts
<1>6. ASSUME NEW b \in 1 .. Len(blocks), W[T[b - 1]] = F[b - 1] PROVE W[T[b]] = F[b]
  <2>1. b - 1 \in 0 .. Len(blocks)
    BY <1>1
  <2>2. T[b - 1] \in Nat /\ F[b - 1] \in Nat
    BY <1>3, <1>4, <2>1
  <2> DEFINE n == blocks[b].n
  <2>3. n \in Nat
    BY <1>2
  <2>4. \A y \in 0 .. DescCount(n) : W[T[b - 1] + y] = F[b - 1] + Covered(n, y)
    BY <1>6, <2>2, BlockWalk
  <2> HIDE DEF n, W, T, F
  <2>5. DescCount(n) \in Nat /\ Covered(n, DescCount(n)) = n
    BY <2>3, DescCountFacts DEF Covered
  <2>6. W[T[b - 1] + DescCount(n)] = F[b - 1] + n
    BY <2>4, <2>5
  <2>7. T[b] = T[b - 1] + DescCount(n)
    BY <1>1, <1>3 DEF n
  <2>8. F[b] = F[b - 1] + n
    BY <1>4 DEF n
  <2> QED
    BY <2>6, <2>7, <2>8
<1> HIDE DEF W, T, F
<1>7. S = {}
  <2> SUFFICES ASSUME S # {} PROVE FALSE
    OBVIOUS
  <2>1. PICK m \in S : \A x \in S : m <= x
    <3>1. S \subseteq Nat
      BY <1>1
    <3> HIDE DEF S
    <3> QED
      BY <3>1, LeastNat
  <2>2. m # 0
    BY <1>3, <1>4, <1>5, <2>1
  <2>3. m \in 1 .. Len(blocks) /\ m - 1 \in 0 .. Len(blocks) /\ m - 1 \notin S
    BY <1>1, <2>1, <2>2
  <2>4. W[T[m - 1]] = F[m - 1]
    BY <2>3
  <2> QED
    BY <1>6, <2>1, <2>3, <2>4
<1> QED
  BY <1>7 DEF W, T, F

LEMMA WalkThrough ==
  ASSUME NEW d, NEW blocks, Reached(d, blocks), NEW b \in 1 .. Len(blocks),
         NEW s, s = SectorSums(Sizes(blocks))[b - 1], s \in Nat,
         NEW q0, q0 = SectorSums(DescCounts(blocks))[b - 1], q0 \in Nat
  PROVE  \A y \in 0 .. DescCount(blocks[b].n) :
           WalkSums(d, blocks)[q0 + y] = s + Covered(blocks[b].n, y)
<1>1. b - 1 \in 0 .. Len(blocks)
  BY CountsType
<1>2. WalkSums(d, blocks)[q0] = s
  BY <1>1, WalkStarts
<1> QED
  BY <1>2, BlockWalk

\* Each step of the walk is at the next sector of some block.
LEMMA WalkedAt ==
  ASSUME NEW d, NEW blocks, Reached(d, blocks)
  PROVE  /\ Walked(Table(d, blocks)) \in Seq(Nat)
         /\ Len(Walked(Table(d, blocks))) = SectorSums(Sizes(blocks))[Len(blocks)]
         /\ \A p \in 1 .. Len(Walked(Table(d, blocks))) :
              \E b \in 1 .. Len(blocks) : \E o \in 1 .. blocks[b].n :
                /\ p = SectorSums(Sizes(blocks))[b - 1] + o
                /\ Walked(Table(d, blocks))[p] = (DmaAddr(d, blocks, b) + o) - 1
<1> DEFINE t == Table(d, blocks)
           walked == Walked(t)
           W == WalkSums(d, blocks)
           C == DescCounts(blocks)
           T == SectorSums(C)
           F == SectorSums(Sizes(blocks))
           s == WalkParts(t)
<1>1. /\ walked = FlattenSeq(s) /\ s \in Seq(Seq(Nat))
      /\ Len(s) = Len(t) /\ Lengths(s) = DescLengths(t)
      /\ \A q \in 1 .. Len(t) :
           /\ Len(s[q]) = t[q].length
           /\ \A x \in 1 .. t[q].length : s[q][x] = (t[q].addr + x) - 1
  <2>1. WalkedByParts(t)
    BY WalksAll
  <2> HIDE DEF t
  <2> QED
    BY <2>1 DEF WalkedByParts
<1>2. /\ C \in Seq(Nat) /\ Len(C) = Len(blocks) /\ Len(blocks) \in Nat
      /\ \A b \in 1 .. Len(blocks) : C[b] = DescCount(blocks[b].n)
  BY CountsType
<1>3. Len(t) = T[Len(C)] /\ t \in Seq(Descriptors)
  BY <1>2, TableFacts
<1>4. \A b \in 0 .. Len(blocks) : W[T[b]] = F[b]
  BY WalkStarts
<1>5. Starts(s) = W
  BY <1>1 DEF Starts, WalkSums
<1>6. /\ F \in [0 .. Len(blocks) -> Nat] /\ T \in [0 .. Len(blocks) -> Nat]
      /\ \A b \in 1 .. Len(blocks) : blocks[b].n \in Nat /\ DmaAddr(d, blocks, b) \in Nat
  <2>1. blocks \in Seq(DmaBlocks) /\ DOMAIN blocks = 1 .. Len(blocks)
    BY DEF Reached
  <2>2. Sizes(blocks) \in Seq(Nat) /\ Len(Sizes(blocks)) = Len(blocks)
    BY <2>1, SizesType
  <2>3. F \in [0 .. Len(blocks) -> Nat]
    BY <2>2, SumsAreSums DEF IsSums
  <2>4. T \in [0 .. Len(blocks) -> Nat]
    BY <1>2, SumsAreSums DEF IsSums
  <2>5. \A b \in 1 .. Len(blocks) : blocks[b].n \in Nat /\ DmaAddr(d, blocks, b) \in Nat
    BY <2>1, SizesType, DmaAddrFacts
  <2> QED
    BY <2>3, <2>4, <2>5
<1>7. ASSUME NEW q \in 1 .. Len(t)
      PROVE  \E b \in 1 .. Len(blocks) : \E y \in 1 .. DescCount(blocks[b].n) :
               /\ q = T[b - 1] + y
               /\ IsDesc(t[q], DmaAddr(d, blocks, b), blocks[b].n, b = Len(blocks), y)
  <2>1. \E b \in 1 .. Len(C) : \E y \in 1 .. C[b] : q = T[b - 1] + y
    <3>1. q \in 1 .. SectorSums(C)[Len(C)]
      BY <1>3
    <3> HIDE DEF C
    <3> QED
      BY <1>2, <3>1, SumsSplit
  <2>2. PICK b \in 1 .. Len(blocks) : \E y \in 1 .. C[b] : q = T[b - 1] + y
    BY <1>2, <2>1
  <2>3. PICK y \in 1 .. DescCount(blocks[b].n) : q = T[b - 1] + y
    BY <1>2, <2>2
  <2>4. IsDesc(t[q], DmaAddr(d, blocks, b), blocks[b].n, b = Len(blocks), y)
    BY <2>3, TableAt, Zenon
  <2> QED
    BY <2>3, <2>4, Zenon
<1> HIDE DEF t
<1>8. /\ walked \in Seq(Nat) /\ Laid(walked, s, Len(s))
  BY <1>1, FlattenLays
<1>9. Len(walked) = F[Len(blocks)]
  <2>1. Len(walked) = W[T[Len(blocks)]]
    BY <1>1, <1>2, <1>3, <1>5, <1>8 DEF Laid
  <2> HIDE DEF W, T, F
  <2> QED
    BY <1>2, <1>4, <2>1
<1> HIDE DEF walked, s
<1>10. ASSUME NEW p \in 1 .. Len(walked)
       PROVE  \E b \in 1 .. Len(blocks) : \E o \in 1 .. blocks[b].n :
                p = F[b - 1] + o /\ walked[p] = (DmaAddr(d, blocks, b) + o) - 1
  <2>11. \E q \in 1 .. Len(s) : \E x \in 1 .. Len(s[q]) : p = Starts(s)[q - 1] + x
    BY <1>8, Zenon DEF Laid
  <2>1. PICK q \in 1 .. Len(t) : \E x \in 1 .. Len(s[q]) : p = Starts(s)[q - 1] + x
    BY <1>1, <2>11
  <2>2. PICK x \in 1 .. t[q].length : p = W[q - 1] + x
    BY <1>1, <1>5, <2>1
  <2>3. walked[p] = (t[q].addr + x) - 1
    <3>1. q \in 1 .. Len(s) /\ x \in 1 .. Len(s[q]) /\ p = Starts(s)[q - 1] + x
      BY <1>1, <1>5, <2>2
    <3>2. walked[p] = s[q][x]
      BY <1>8, <3>1 DEF Laid
    <3>3. s[q][x] = (t[q].addr + x) - 1
      BY <1>1
    <3> QED
      BY <3>2, <3>3
  <2>4. PICK b \in 1 .. Len(blocks) : \E y \in 1 .. DescCount(blocks[b].n) :
          /\ q = T[b - 1] + y
          /\ IsDesc(t[q], DmaAddr(d, blocks, b), blocks[b].n, b = Len(blocks), y)
    BY <1>7
  <2>5. PICK y \in 1 .. DescCount(blocks[b].n) :
          /\ q = T[b - 1] + y
          /\ IsDesc(t[q], DmaAddr(d, blocks, b), blocks[b].n, b = Len(blocks), y)
    BY <2>4
  <2> DEFINE n == blocks[b].n
             a == DmaAddr(d, blocks, b)
             e == t[q]
             v == Covered(n, y - 1)
             f == F[b - 1]
  <2>6. n \in Nat /\ a \in Nat /\ e \in Descriptors /\ b - 1 \in 0 .. Len(blocks)
        /\ f \in Nat /\ T[b - 1] \in Nat /\ W[T[b - 1]] = f
    <3>1. b - 1 \in 0 .. Len(blocks)
      BY <1>2
    <3>2. e \in Descriptors
      BY <1>3
    <3> QED
      BY <1>4, <1>6, <3>1, <3>2
  <2>7. /\ v \in Nat /\ Covered(n, y) <= n /\ Covered(n, y) = v + e.length
        /\ e.addr = a + v /\ e.length \in Nat
    <3> DEFINE last == (b = Len(blocks))
    <3>1. IsDesc(e, a, n, last, y) /\ y \in 1 .. DescCount(n)
      BY <2>5
    <3>2. n \in Nat /\ a \in Nat /\ e \in Descriptors
      BY <2>6
    <3> HIDE DEF n, a, e, last
    <3> QED
      BY <3>1, <3>2, DescCovers
  <2>8. W[q - 1] = f + v
    <3>1. \A z \in 0 .. DescCount(n) : W[T[b - 1] + z] = f + Covered(n, z)
      <4>1. f \in Nat /\ T[b - 1] \in Nat /\ W[T[b - 1]] = f
        BY <2>6
      <4> QED
        BY <4>1, WalkThrough
    <3>2. DescCount(n) \in Nat
      BY <2>6, DescCountFacts
    <3>3. y - 1 \in 0 .. DescCount(n)
      BY <2>5, <3>2
    <3> HIDE DEF W, T, f, n
    <3>4. q - 1 = T[b - 1] + (y - 1)
      BY <2>5, <2>6
    <3> QED
      BY <3>1, <3>3, <3>4
  <2>9. x \in Int /\ 1 <= x /\ x <= e.length
    BY <2>2, <2>7
  <2>10. v + x \in 1 .. n /\ p = f + (v + x) /\ walked[p] = (a + (v + x)) - 1
    <3>1. p = W[q - 1] + x /\ walked[p] = (e.addr + x) - 1
      BY <2>2, <2>3
    <3> HIDE DEF n, a, e, v, f, W
    <3>2. v + x \in 1 .. n
      BY <2>6, <2>7, <2>9
    <3>3. p = f + (v + x)
      BY <2>6, <2>7, <2>8, <2>9, <3>1
    <3>4. walked[p] = (a + (v + x)) - 1
      BY <2>6, <2>7, <2>9, <3>1
    <3> QED
      BY <3>2, <3>3, <3>4
  <2> HIDE DEF v
  <2> QED
    BY <2>10, Zenon
<1> QED
  BY <1>8, <1>9, <1>10, Zenon DEF t, walked

-----------------------------------------------------------------------------
(* The sectors of a request in memory and on the medium: the x-th of block *)
(* i, where the client has it and where the controller finds it when it    *)
(* gets the blocks from j on.                                              *)

BlockAt(i) == [addr |-> place[i], n |-> request[i]]
Relocated(i) == Bounced(host, BlockAt(i))

Address(i, x) == (place[i] + x) - 1
Dma(j, i, x) == (DmaAddr(host, BlocksAt(j), (i - j) + 1) + x) - 1
Ordinal(i, x) == SectorSums(request)[i - 1] + x
Sector(i, x) == (FirstSector + Ordinal(i, x)) - 1

\* PlacesApart, for the request at hand.
OwnApart ==
  \A i \in 1 .. Len(request) : \A x \in 1 .. request[i] :
    /\ Address(i, x) \notin BounceBuffer
    /\ \A j \in 1 .. Len(request) : \A y \in 1 .. request[j] :
         Address(i, x) = Address(j, y) => i = j /\ x = y

LEMMA InitApart ==
  ASSUME PlacesApart, Init
  PROVE  OwnApart
<1>1. request \in Requests /\ host \in Hosts /\ Placed
  BY InitPlaced DEF Init
<1>2. PICK p \in Places : place = SubSeq(p, 1, Len(request))
  BY DEF Init
<1>3. /\ p \in Seq(Nat) /\ request \in Seq(Nat) /\ Len(request) \in 0 .. Len(p)
      /\ DOMAIN request = 1 .. Len(request)
  BY <1>1, InoutSequenceAssumption DEF Placed, RequestLists
<1>4. \A i \in 1 .. Len(request) : place[i] = p[i]
  BY <1>2, <1>3, SubSeqFromFirst
<1>5. \A i \in 1 .. Len(request) : request[i] \in Nat /\ p[i] \in Nat
  BY <1>3
<1>6. host.bbAddr \in Nat /\ host.bbSize \in Nat
  BY <1>1, HostType DEF DmaHosts
<1>7. ASSUME NEW i \in 1 .. Len(request), NEW x \in 1 .. request[i]
      PROVE  Address(i, x) \in p[i] .. p[i] + request[i] - 1 /\ Address(i, x) = (p[i] + x) - 1
  BY <1>4, <1>5 DEF Address
<1>8. ASSUME NEW i \in 1 .. Len(request)
      PROVE  /\ \A j \in 1 .. Len(request) : i # j =>
                  (p[i] .. p[i] + request[i] - 1) \cap (p[j] .. p[j] + request[j] - 1) = {}
             /\ (p[i] .. p[i] + request[i] - 1) \cap BounceBuffer = {}
  BY <1>1, <1>3 DEF PlacesApart, BounceBuffer
<1>9. ASSUME NEW i \in 1 .. Len(request), NEW x \in 1 .. request[i],
             NEW j \in 1 .. Len(request), NEW y \in 1 .. request[j],
             Address(i, x) = Address(j, y)
      PROVE  i = j /\ x = y
  <2>1. Address(i, x) \in p[i] .. p[i] + request[i] - 1
        /\ Address(i, x) \in p[j] .. p[j] + request[j] - 1
    BY <1>7, <1>9
  <2>2. i = j
    BY <1>8, <2>1
  <2>3. (p[i] + x) - 1 = (p[i] + y) - 1
    BY <1>7, <1>9, <2>2
  <2> QED
    BY <1>5, <2>2, <2>3
<1>10. ASSUME NEW i \in 1 .. Len(request), NEW x \in 1 .. request[i]
       PROVE  Address(i, x) \notin BounceBuffer
  BY <1>7, <1>8
<1> QED
  BY <1>9, <1>10 DEF OwnApart

LEMMA BlockOf ==
  ASSUME Placed, NEW j \in 1 .. Len(request), NEW i \in j .. Len(request)
  PROVE  /\ (i - j) + 1 \in 1 .. Len(BlocksAt(j)) /\ BlocksAt(j)[(i - j) + 1] = BlockAt(i)
         /\ i \in 1 .. Len(request) /\ request[i] \in Nat /\ place[i] \in Nat
<1>1. Len(request) \in Nat /\ request \in Seq(Nat) /\ place \in Seq(Nat)
      /\ Len(place) = Len(request)
  BY DEF Placed, RequestLists, PlaceLists
<1>2. (i - j) + 1 \in 1 .. Len(request) - j + 1 /\ (j + ((i - j) + 1)) - 1 = i
      /\ i \in 1 .. Len(request)
  BY <1>1
<1> DEFINE b == (i - j) + 1
<1>3. BlocksAt(j)[b] = [addr |-> place[(j + b) - 1], n |-> request[(j + b) - 1]]
      /\ Len(BlocksAt(j)) = Len(request) - j + 1
  BY <1>2, BlocksFrom
<1>4. request[i] \in Nat /\ place[i] \in Nat
  BY <1>1, <1>2
<1> QED
  BY <1>2, <1>3, <1>4 DEF BlockAt

LEMMA DmaFacts ==
  ASSUME Placed, NEW j \in 1 .. Len(request), NEW i \in j .. Len(request),
         NEW x \in 1 .. request[i]
  PROVE  /\ Dma(j, i, x) \in Nat
         /\ ~Relocated(i) => Dma(j, i, x) = Address(i, x)
         /\ Relocated(i) =>
              /\ Dma(j, i, x) \in BounceBuffer
              /\ BouncedSizes(host, BlocksAt(j))[(i - j) + 1] = request[i]
              /\ Dma(j, i, x)
                   = host.bbAddr + ((SectorSums(BouncedSizes(host, BlocksAt(j)))[i - j] + x) - 1)
<1> DEFINE b == (i - j) + 1
           blocks == BlocksAt(j)
           f == DmaAddr(host, blocks, b)
           o == BounceOffset(host, blocks, b)
           n == request[i]
<1>1. b \in 1 .. Len(blocks) /\ blocks[b] = BlockAt(i) /\ n \in Nat /\ place[i] \in Nat
  BY BlockOf
<1>2. Reached(host, blocks) /\ blocks \in Seq(DmaBlocks) /\ host \in DmaHosts
  BY PlacedReached DEF Reached
<1>3. blocks[b].addr = place[i] /\ blocks[b].n = n /\ (Bounced(host, blocks[b]) <=> Relocated(i))
  BY <1>1 DEF BlockAt, Relocated
<1>4. b - 1 = i - j
  OBVIOUS
<1>5. o = SectorSums(BouncedSizes(host, blocks))[i - j]
  BY <1>4 DEF BounceOffset
<1>6. o \in Nat
  <2> HIDE DEF blocks, b
  <2> QED
    BY <1>1, <1>2, OffsetFacts
<1>7. /\ f \in Nat /\ (~Relocated(i) => f = place[i])
      /\ Relocated(i) => f = host.bbAddr + o
  <2> HIDE DEF blocks, b
  <2> QED
    BY <1>1, <1>2, <1>3, DmaAddrFacts
<1>8. Relocated(i) => BouncedSizes(host, blocks)[b] = n
  <2> HIDE DEF blocks, b
  <2> QED
    BY <1>1, <1>2, <1>3, BouncedFacts
<1>9. Dma(j, i, x) = (f + x) - 1
  BY DEF Dma
<1>10. Relocated(i) => (f + x) - 1 \in BounceBuffer
  <2> HIDE DEF f
  <2>1. (f + x) - 1 \in f .. (f + n) - 1
    BY <1>1, <1>7
  <2>2. InBlock(host, blocks, b, (f + x) - 1)
    <3>1. f = DmaAddr(host, blocks, b)
      BY DEF f
    <3> HIDE DEF blocks, b
    <3> QED
      BY <1>3, <2>1, <3>1 DEF InBlock
  <2> DEFINE a == (f + x) - 1
  <2> HIDE DEF a, b
  <2>3. Bounced(host, blocks[b]) => a \in BounceBuffer
    BY <1>1, <2>2, InBlockInside DEF a
  <2> QED
    BY <1>3, <2>3 DEF a
<1>11. host.bbAddr \in Nat
  BY <1>2 DEF DmaHosts
<1>12. ~Relocated(i) => (f + x) - 1 = Address(i, x)
  BY <1>7 DEF Address
<1>13. Relocated(i) => (f + x) - 1 = host.bbAddr + ((o + x) - 1)
  <2> HIDE DEF f, o
  <2> QED
    BY <1>6, <1>7, <1>11
<1>14. (f + x) - 1 \in Nat
  <2> HIDE DEF f
  <2> QED
    BY <1>7
<1> HIDE DEF f, o, blocks
<1> QED
  BY <1>5, <1>8, <1>9, <1>10, <1>12, <1>13, <1>14 DEF blocks

\* No number is at two places of the blocks of r.
Once(r) ==
  \A i, j \in 1 .. Len(r) : \A x \in 1 .. r[i], y \in 1 .. r[j] :
    SectorSums(r)[i - 1] + x = SectorSums(r)[j - 1] + y => i = j /\ x = y

LEMMA SumsOnce ==
  ASSUME NEW r \in Seq(Nat)
  PROVE  Once(r)
  BY SumsUnique, Zenon DEF Once

\* The controller finds no two sectors at one address.
LEMMA DmaApart ==
  ASSUME Placed, OwnApart, NEW j \in 1 .. Len(request),
         NEW i \in j .. Len(request), NEW x \in 1 .. request[i],
         NEW g \in j .. Len(request), NEW y \in 1 .. request[g],
         Dma(j, i, x) = Dma(j, g, y)
  PROVE  i = g /\ x = y
<1> DEFINE r == BouncedSizes(host, BlocksAt(j))
<1>1. i \in 1 .. Len(request) /\ (i - j) + 1 \in 1 .. Len(BlocksAt(j))
      /\ g \in 1 .. Len(request) /\ (g - j) + 1 \in 1 .. Len(BlocksAt(j))
  BY BlockOf
<1>2. Address(i, x) \notin BounceBuffer /\ Address(g, y) \notin BounceBuffer
      /\ (Address(i, x) = Address(g, y) => i = g /\ x = y)
  BY <1>1 DEF OwnApart
<1>3. /\ ~Relocated(i) => Dma(j, i, x) = Address(i, x)
      /\ Relocated(i) => /\ Dma(j, i, x) \in BounceBuffer /\ r[(i - j) + 1] = request[i]
                         /\ Dma(j, i, x) = host.bbAddr + ((SectorSums(r)[i - j] + x) - 1)
  BY DmaFacts
<1>4. /\ ~Relocated(g) => Dma(j, g, y) = Address(g, y)
      /\ Relocated(g) => /\ Dma(j, g, y) \in BounceBuffer /\ r[(g - j) + 1] = request[g]
                         /\ Dma(j, g, y) = host.bbAddr + ((SectorSums(r)[g - j] + y) - 1)
  BY DmaFacts
<1>5. r \in Seq(Nat) /\ Len(r) = Len(BlocksAt(j)) /\ host.bbAddr \in Nat
  <2>1. Reached(host, BlocksAt(j))
    BY PlacedReached
  <2> QED
    BY <2>1, BouncedFacts DEF Reached, DmaHosts
<1> HIDE DEF r
<1>6. CASE Relocated(i) /\ Relocated(g)
  <2>1. PICK a \in 1 .. Len(r) : a = (i - j) + 1
    BY <1>1, <1>5
  <2>2. PICK b \in 1 .. Len(r) : b = (g - j) + 1
    BY <1>1, <1>5
  <2>3. i - j = a - 1 /\ g - j = b - 1 /\ x \in 1 .. r[a] /\ y \in 1 .. r[b]
    BY <1>3, <1>4, <1>6, <2>1, <2>2
  <2>4. host.bbAddr + ((SectorSums(r)[a - 1] + x) - 1)
          = host.bbAddr + ((SectorSums(r)[b - 1] + y) - 1)
    BY <1>3, <1>4, <1>6, <2>3
  <2> DEFINE u == SectorSums(r)[a - 1]
             v == SectorSums(r)[b - 1]
  <2>5. u + x = v + y
    <3>1. a - 1 \in 0 .. Len(r) /\ b - 1 \in 0 .. Len(r)
      OBVIOUS
    <3>2. u \in Nat /\ v \in Nat /\ x \in Nat /\ y \in Nat /\ host.bbAddr \in Nat
      <4>1. u \in Nat /\ v \in Nat
        BY <1>5, <3>1, SumsAreSums DEF IsSums
      <4>2. x \in Nat /\ y \in Nat
        OBVIOUS
      <4> QED
        BY <1>5, <4>1, <4>2
    <3>3. host.bbAddr + ((u + x) - 1) = host.bbAddr + ((v + y) - 1)
      BY <2>4
    <3> HIDE DEF u, v
    <3> QED
      BY <3>2, <3>3
  <2>6. a = b /\ x = y
    <3>1. Once(r)
      BY <1>5, SumsOnce
    <3> QED
      BY <2>3, <2>5, <3>1, SMT DEF Once
  <2> QED
    BY <2>1, <2>2, <2>6
<1>7. CASE ~(Relocated(i) /\ Relocated(g))
  BY <1>2, <1>3, <1>4, <1>7
<1> QED
  BY <1>6, <1>7

-----------------------------------------------------------------------------
(* The copies between the blocks and the bounce buffer.                    *)

OwnParts(j, S) ==
  [b \in DOMAIN BlocksAt(j) |->
     IF b \in S THEN Addresses(BlocksAt(j)[b].addr, BlocksAt(j)[b].n) ELSE <<>>]
DmaParts(j, S) ==
  [b \in DOMAIN BlocksAt(j) |->
     IF b \in S THEN Addresses(DmaAddr(host, BlocksAt(j), b), BlocksAt(j)[b].n) ELSE <<>>]

\* Part b of s is for block b if it is in S.
HasParts(s, j, S) ==
  /\ s \in Seq(Seq(Nat)) /\ Len(s) = Len(BlocksAt(j))
  /\ \A b \in 1 .. Len(BlocksAt(j)) :
       Len(s[b]) = IF b \in S THEN request[(j + b) - 1] ELSE 0
HasOwn(s, j) ==
  \A b \in 1 .. Len(BlocksAt(j)) : \A x \in 1 .. Len(s[b]) :
    s[b][x] = Address((j + b) - 1, x)
HasDma(s, j) ==
  \A b \in 1 .. Len(BlocksAt(j)) : \A x \in 1 .. Len(s[b]) :
    s[b][x] = Dma(j, (j + b) - 1, x)

LEMMA IndexOf ==
  ASSUME Placed, NEW j \in 1 .. Len(request), NEW b \in 1 .. Len(BlocksAt(j))
  PROVE  /\ (j + b) - 1 \in j .. Len(request) /\ (((j + b) - 1) - j) + 1 = b
         /\ (j + b) - 1 \in 1 .. Len(request)
<1>1. b \in 1 .. Len(request) - j + 1 /\ Len(request) \in Nat
  BY BlocksFrom DEF Placed, RequestLists
<1> QED
  BY <1>1

LEMMA PartsFacts ==
  ASSUME Placed, NEW j \in 1 .. Len(request), NEW S
  PROVE  /\ HasParts(OwnParts(j, S), j, S) /\ HasOwn(OwnParts(j, S), j)
         /\ HasParts(DmaParts(j, S), j, S) /\ HasDma(DmaParts(j, S), j)
<1> DEFINE blocks == BlocksAt(j)
           l == Len(blocks)
           f(b) == DmaAddr(host, blocks, b)
           A(b) == Addresses(blocks[b].addr, blocks[b].n)
           D(b) == Addresses(f(b), blocks[b].n)
           o == OwnParts(j, S)
           p == DmaParts(j, S)
<1>1. DOMAIN blocks = 1 .. l /\ l \in Nat /\ Reached(host, blocks)
  BY PlacedReached, BlocksFrom DEF Reached
<1>2. o = [b \in 1 .. l |-> IF b \in S THEN A(b) ELSE <<>>]
      /\ p = [b \in 1 .. l |-> IF b \in S THEN D(b) ELSE <<>>]
  BY <1>1 DEF OwnParts, DmaParts
<1>3. ASSUME NEW b \in 1 .. l
      PROVE  LET i == (j + b) - 1 IN
             /\ blocks[b].addr = place[i] /\ blocks[b].n = request[i]
             /\ place[i] \in Nat /\ request[i] \in Nat /\ f(b) \in Nat
             /\ \A x : Address(i, x) = (blocks[b].addr + x) - 1
             /\ \A x : Dma(j, i, x) = (f(b) + x) - 1
  <2> DEFINE i == (j + b) - 1
  <2>1. i \in j .. Len(request) /\ (i - j) + 1 = b
    BY IndexOf
  <2> HIDE DEF i
  <2>2. blocks[b] = BlockAt(i) /\ place[i] \in Nat /\ request[i] \in Nat
    BY <2>1, BlockOf
  <2>3. f(b) \in Nat
    <3> HIDE DEF blocks
    <3> QED
      BY <1>1, DmaAddrFacts
  <2>4. blocks[b].addr = place[i] /\ blocks[b].n = request[i]
    BY <2>2 DEF BlockAt
  <2>5. ASSUME NEW x PROVE Dma(j, i, x) = (f(b) + x) - 1
    BY <2>1 DEF Dma
  <2>6. ASSUME NEW x PROVE Address(i, x) = (blocks[b].addr + x) - 1
    BY <2>4 DEF Address
  <2> QED
    BY <2>2, <2>3, <2>4, <2>5, <2>6 DEF i
<1> HIDE DEF blocks, f
<1>4. ASSUME NEW b \in 1 .. l
      PROVE  /\ A(b) \in Seq(Nat) /\ Len(A(b)) = request[(j + b) - 1]
             /\ \A x \in 1 .. Len(A(b)) : A(b)[x] = Address((j + b) - 1, x)
  <2> DEFINE i == (j + b) - 1
  <2>1. /\ blocks[b].addr \in Nat /\ blocks[b].n \in Nat /\ blocks[b].n = request[i]
        /\ \A x : Address(i, x) = (blocks[b].addr + x) - 1
    BY <1>3
  <2>2. /\ A(b) \in Seq(Nat) /\ Len(A(b)) = blocks[b].n
        /\ \A x \in 1 .. blocks[b].n : A(b)[x] = (blocks[b].addr + x) - 1
    BY <2>1, AddressesFacts
  <2> HIDE DEF i, A
  <2> QED
    BY <2>1, <2>2 DEF i
<1>5. ASSUME NEW b \in 1 .. l
      PROVE  /\ D(b) \in Seq(Nat) /\ Len(D(b)) = request[(j + b) - 1]
             /\ \A x \in 1 .. Len(D(b)) : D(b)[x] = Dma(j, (j + b) - 1, x)
  <2> DEFINE i == (j + b) - 1
  <2>1. /\ f(b) \in Nat /\ blocks[b].n \in Nat /\ blocks[b].n = request[i]
        /\ \A x : Dma(j, i, x) = (f(b) + x) - 1
    BY <1>3
  <2>2. /\ D(b) \in Seq(Nat) /\ Len(D(b)) = blocks[b].n
        /\ \A x \in 1 .. blocks[b].n : D(b)[x] = (f(b) + x) - 1
    BY <2>1, AddressesFacts
  <2> HIDE DEF i, D
  <2> QED
    BY <2>1, <2>2 DEF i
<1> HIDE DEF A, D, o, p
<1>6. <<>> \in Seq(Nat) /\ Len(<<>>) = 0 /\ 1 .. 0 = {}
  OBVIOUS
<1>7. HasParts(o, j, S) /\ HasOwn(o, j)
  <2>1. o \in Seq(Seq(Nat)) /\ Len(o) = l /\ \A b \in 1 .. l : o[b] = IF b \in S THEN A(b) ELSE <<>>
    <3> HIDE DEF l
    <3> QED
      BY <1>1, <1>2, <1>4, <1>6
  <2>2. ASSUME NEW b \in 1 .. l
        PROVE  /\ Len(o[b]) = IF b \in S THEN request[(j + b) - 1] ELSE 0
               /\ \A x \in 1 .. Len(o[b]) : o[b][x] = Address((j + b) - 1, x)
    <3>1. CASE b \in S
      BY <1>4, <2>1, <3>1
    <3>2. CASE b \notin S
      BY <1>6, <2>1, <3>2
    <3> QED
      BY <3>1, <3>2
  <2> QED
    BY <2>1, <2>2 DEF HasParts, HasOwn, blocks
<1>8. HasParts(p, j, S) /\ HasDma(p, j)
  <2>1. p \in Seq(Seq(Nat)) /\ Len(p) = l /\ \A b \in 1 .. l : p[b] = IF b \in S THEN D(b) ELSE <<>>
    <3> HIDE DEF l
    <3> QED
      BY <1>1, <1>2, <1>5, <1>6
  <2>2. ASSUME NEW b \in 1 .. l
        PROVE  /\ Len(p[b]) = IF b \in S THEN request[(j + b) - 1] ELSE 0
               /\ \A x \in 1 .. Len(p[b]) : p[b][x] = Dma(j, (j + b) - 1, x)
    <3>1. CASE b \in S
      BY <1>5, <2>1, <3>1
    <3>2. CASE b \notin S
      BY <1>6, <2>1, <3>2
    <3> QED
      BY <3>1, <3>2
  <2> QED
    BY <2>1, <2>2 DEF HasParts, HasDma, blocks
<1> QED
  BY <1>7, <1>8 DEF o, p

LEMMA PartsApart ==
  ASSUME Placed, OwnApart, NEW j \in 1 .. Len(request), NEW S
  PROVE  Apart(OwnParts(j, S)) /\ Apart(DmaParts(j, S))
<1> DEFINE l == Len(BlocksAt(j))
           o == OwnParts(j, S)
           p == DmaParts(j, S)
<1>1. /\ HasParts(o, j, S) /\ HasOwn(o, j) /\ HasParts(p, j, S) /\ HasDma(p, j)
      /\ Len(o) = l /\ Len(p) = l
  BY PartsFacts DEF HasParts
<1> HIDE DEF o, p
<1>2. ASSUME NEW b \in 1 .. l
      PROVE  /\ (j + b) - 1 \in j .. Len(request) /\ (j + b) - 1 \in 1 .. Len(request)
             /\ 1 .. Len(o[b]) \subseteq 1 .. request[(j + b) - 1]
             /\ 1 .. Len(p[b]) \subseteq 1 .. request[(j + b) - 1]
  <2>1. (j + b) - 1 \in j .. Len(request) /\ (j + b) - 1 \in 1 .. Len(request)
    BY IndexOf
  <2>2. 1 .. Len(o[b]) = IF b \in S THEN 1 .. request[(j + b) - 1] ELSE {}
    BY <1>1 DEF HasParts
  <2>3. 1 .. Len(p[b]) = IF b \in S THEN 1 .. request[(j + b) - 1] ELSE {}
    BY <1>1 DEF HasParts
  <2> QED
    BY <2>1, <2>2, <2>3
<1>3. ASSUME NEW a \in 1 .. l, NEW b \in 1 .. l, NEW x \in 1 .. Len(o[a]),
             NEW y \in 1 .. Len(o[b]), o[a][x] = o[b][y]
      PROVE  a = b /\ x = y
  <2> DEFINE i == (j + a) - 1
             g == (j + b) - 1
  <2>1. i \in 1 .. Len(request) /\ g \in 1 .. Len(request)
        /\ x \in 1 .. request[i] /\ y \in 1 .. request[g]
    BY <1>2
  <2>2. Address(i, x) = Address(g, y)
    BY <1>1, <1>3 DEF HasOwn
  <2> HIDE DEF i, g
  <2>3. i = g /\ x = y
    BY <2>1, <2>2 DEF OwnApart
  <2> QED
    BY <2>3 DEF i, g
<1>4. ASSUME NEW a \in 1 .. l, NEW b \in 1 .. l, NEW x \in 1 .. Len(p[a]),
             NEW y \in 1 .. Len(p[b]), p[a][x] = p[b][y]
      PROVE  a = b /\ x = y
  <2> DEFINE i == (j + a) - 1
             g == (j + b) - 1
  <2>1. i \in j .. Len(request) /\ g \in j .. Len(request)
        /\ x \in 1 .. request[i] /\ y \in 1 .. request[g]
    BY <1>2
  <2>2. Dma(j, i, x) = Dma(j, g, y)
    BY <1>1, <1>4 DEF HasDma
  <2> HIDE DEF i, g
  <2>3. i = g /\ x = y
    BY <2>1, <2>2, DmaApart
  <2> QED
    BY <2>3 DEF i, g
<1> QED
  BY <1>1, <1>3, <1>4 DEF Apart, o, p

\* m has at a what n has at b.
Has(m, a, n, b) == a \in DOMAIN m /\ m[a] = n[b]

\* The blocks S of those from j on, copied to where the controller finds them, or back.
CopiedIn(m, j, S) ==
  Copy(m, OwnPlace(BlocksAt(j), S), BouncePlace(host, BlocksAt(j), S))
CopiedOut(m, j, S) ==
  Copy(m, BouncePlace(host, BlocksAt(j), S), OwnPlace(BlocksAt(j), S))

\* A sector is copied from where the block has it to where the controller finds it,
\* or back.
LEMMA CopiesFacts ==
  ASSUME Placed, OwnApart, NEW j \in 1 .. Len(request), NEW S, NEW m,
         NEW i \in j .. Len(request), (i - j) + 1 \in S, NEW x \in 1 .. request[i]
  PROVE  /\ Has(CopiedIn(m, j, S), Dma(j, i, x), m, Address(i, x))
         /\ Has(CopiedOut(m, j, S), Address(i, x), m, Dma(j, i, x))
<1> DEFINE into == CopiedIn(m, j, S)
           out == CopiedOut(m, j, S)
           o == OwnParts(j, S)
           p == DmaParts(j, S)
           b == (i - j) + 1
<1>1. into = Copy(m, FlattenSeq(o), FlattenSeq(p)) /\ out = Copy(m, FlattenSeq(p), FlattenSeq(o))
  BY DEF CopiedIn, CopiedOut, OwnPlace, BouncePlace, OwnParts, DmaParts
<1>2. /\ HasParts(o, j, S) /\ HasOwn(o, j) /\ HasParts(p, j, S) /\ HasDma(p, j)
      /\ Apart(o) /\ Apart(p)
  BY PartsFacts, PartsApart
<1>3. b \in 1 .. Len(BlocksAt(j)) /\ (j + b) - 1 = i /\ b \in S
  BY BlockOf
<1> HIDE DEF o, p, b, into, out
<1>4. /\ o \in Seq(Seq(Nat)) /\ p \in Seq(Seq(Nat)) /\ Len(o) = Len(p) /\ b \in 1 .. Len(o)
      /\ Len(o[b]) = request[i] /\ Len(p[b]) = request[i]
      /\ DOMAIN o = 1 .. Len(o) /\ DOMAIN p = 1 .. Len(o)
      /\ \A a \in 1 .. Len(o) : Len(o[a]) = Len(p[a])
  BY <1>2, <1>3 DEF HasParts
<1>5. Lengths(o) = Lengths(p)
  BY <1>4 DEF Lengths
<1>6. o[b][x] = Address(i, x) /\ p[b][x] = Dma(j, i, x)
  BY <1>2, <1>3, <1>4 DEF HasOwn, HasDma
<1>9. /\ x \in 1 .. Len(o[b]) /\ x \in 1 .. Len(p[b]) /\ b \in 1 .. Len(p)
      /\ Len(p) = Len(o) /\ Lengths(p) = Lengths(o)
  BY <1>4, <1>5
<1>7. Copied(m, o, p, into)
  BY <1>1, <1>2, <1>4, <1>5, CopyParts
<1>8. Copied(m, p, o, out)
  BY <1>1, <1>2, <1>4, <1>5, CopyParts
<1>10. p[b][x] \in DOMAIN into /\ into[p[b][x]] = m[o[b][x]]
  BY <1>7, <1>9, Zenon DEF Copied
<1>11. o[b][x] \in DOMAIN out /\ out[o[b][x]] = m[p[b][x]]
  BY <1>8, <1>9, <1>4, Zenon DEF Copied
<1> QED
  BY <1>6, <1>10, <1>11 DEF Has, into, out

\* Other sectors are left where they are.
LEMMA CopiesKeep ==
  ASSUME Placed, OwnApart, NEW j \in 1 .. Len(request), NEW S, NEW m,
         \A b \in 1 .. Len(BlocksAt(j)) : b \in S => Bounced(host, BlocksAt(j)[b]),
         NEW i \in 1 .. Len(request), NEW x \in 1 .. request[i], Address(i, x) \in DOMAIN m
  PROVE  /\ Has(CopiedIn(m, j, S), Address(i, x), m, Address(i, x))
         /\ i < j \/ (i - j) + 1 \notin S =>
              Has(CopiedOut(m, j, S), Address(i, x), m, Address(i, x))
<1> DEFINE into == CopiedIn(m, j, S)
           out == CopiedOut(m, j, S)
           a == Address(i, x)
           own == OwnPlace(BlocksAt(j), S)
           bounce == BouncePlace(host, BlocksAt(j), S)
<1>1. a \notin BounceBuffer /\ a \in DOMAIN m
  BY DEF OwnApart
<1>2. Range(bounce) \subseteq BounceBuffer
  BY BouncePlaces
<1>3. ASSUME i < j \/ (i - j) + 1 \notin S PROVE a \notin Range(own)
  <2> DEFINE o == OwnParts(j, S)
  <2>1. own = FlattenSeq(o)
    BY DEF OwnPlace, OwnParts
  <2>2. HasParts(o, j, S) /\ HasOwn(o, j)
    BY PartsFacts
  <2>3. o \in Seq(Seq(Nat)) /\ DOMAIN o = 1 .. Len(BlocksAt(j))
    BY <2>2 DEF HasParts
  <2> HIDE DEF o
  <2>4. Range(own) = UNION {Range(o[b]) : b \in DOMAIN o}
    BY <2>1, <2>3, FlattenRange
  <2>5. SUFFICES ASSUME NEW b \in DOMAIN o, NEW y \in DOMAIN o[b], o[b][y] = a PROVE FALSE
    BY <2>4 DEF Range
  <2>6. DOMAIN o[b] = 1 .. Len(o[b])
    BY <2>3
  <2>7. b \in S /\ y \in 1 .. request[(j + b) - 1] /\ a = Address((j + b) - 1, y)
    <3>1. b \in 1 .. Len(BlocksAt(j)) /\ y \in 1 .. Len(o[b])
      BY <2>3, <2>5, <2>6
    <3>2. Len(o[b]) = IF b \in S THEN request[(j + b) - 1] ELSE 0
      BY <2>2, <3>1 DEF HasParts
    <3>3. o[b][y] = Address((j + b) - 1, y)
      BY <2>2, <3>1, Zenon DEF HasOwn
    <3>4. b \in S
      BY <3>1, <3>2
    <3> QED
      BY <2>5, <3>1, <3>2, <3>3, <3>4
  <2>8. (j + b) - 1 \in j .. Len(request) /\ (j + b) - 1 \in 1 .. Len(request)
        /\ (((j + b) - 1) - j) + 1 = b
    BY <2>3, IndexOf
  <2> DEFINE g == (j + b) - 1
  <2>9. g \in 1 .. Len(request) /\ y \in 1 .. request[g] /\ Address(i, x) = Address(g, y)
    BY <2>7, <2>8
  <2> HIDE DEF g
  <2>10. i = g
    BY <2>9 DEF OwnApart
  <2> QED
    BY <1>3, <2>7, <2>8, <2>10 DEF g
<1>6. (\E v : into = Put(m, bounce, v)) /\ (\E v : out = Put(m, own, v))
  BY DEF Copy, CopiedIn, CopiedOut
<1> HIDE DEF a, own, bounce, into, out
<1>4. a \in DOMAIN into /\ into[a] = m[a]
  <2>1. PICK v : into = Put(m, bounce, v)
    BY <1>6
  <2>2. /\ DOMAIN Put(m, bounce, v) = Range(bounce) \cup DOMAIN m
        /\ \A z \in DOMAIN m \ Range(bounce) : Put(m, bounce, v)[z] = m[z]
    BY PutFacts
  <2> QED
    BY <1>1, <1>2, <2>1, <2>2
<1>5. ASSUME i < j \/ (i - j) + 1 \notin S PROVE a \in DOMAIN out /\ out[a] = m[a]
  <2>1. PICK v : out = Put(m, own, v)
    BY <1>6
  <2>2. /\ DOMAIN Put(m, own, v) = Range(own) \cup DOMAIN m
        /\ \A z \in DOMAIN m \ Range(own) : Put(m, own, v)[z] = m[z]
    BY PutFacts
  <2> QED
    BY <1>1, <1>3, <1>5, <2>1, <2>2
<1> QED
  BY <1>4, <1>5 DEF Has, a, into, out

-----------------------------------------------------------------------------
(* Which sectors the data command at hand moves.                           *)

\* The command moves block i.
InCommand(i) == k.adma2 \/ i = Current

LEMMA OrdinalFacts ==
  ASSUME Placed, NEW i \in 1 .. Len(request), NEW x \in 1 .. request[i]
  PROVE  /\ SectorSums(request)[i - 1] \in Nat /\ SectorSums(request)[i] \in Nat
         /\ Ordinal(i, x) \in Nat /\ Ordinal(i, x) > SectorSums(request)[i - 1]
         /\ Ordinal(i, x) <= SectorSums(request)[i]
         /\ SectorSums(request)[i] = SectorSums(request)[i - 1] + request[i]
         /\ Ordinal(i, x) <= NumSectors(request) /\ NumSectors(request) \in Nat
<1> DEFINE u == SectorSums(request)[i - 1]
           v == SectorSums(request)[i]
           n == request[i]
<1>1. request \in Seq(Nat) /\ i \in DOMAIN request
  BY DEF Placed, RequestLists
<1>2. u \in Nat /\ v = u + n /\ v <= NumSectors(request) /\ n \in Nat
  BY <1>1, BlockInside
<1>3. NumSectors(request) \in Nat
  BY <1>1, NumSectorsType
<1>4. Ordinal(i, x) = u + x /\ x \in 1 .. n
  BY DEF Ordinal
<1> HIDE DEF u, v, n
<1>5. u + x \in Nat /\ u + x > u /\ u + x <= v /\ v \in Nat /\ u + x <= NumSectors(request)
  BY <1>2, <1>3, <1>4
<1> QED
  BY <1>2, <1>3, <1>4, <1>5 DEF u, v, n

LEMMA CommandAt ==
  ASSUME SequenceInv, Placed, Pending, c.hasData
  PROVE  /\ Current \in 1 .. Len(request) /\ (k.adma2 => Current = 1)
         /\ Len(moved) \in Nat /\ c.nblk \in Nat /\ c.arg = FirstSector + Len(moved)
         /\ Len(moved) = SectorSums(request)[Current - 1]
         /\ k.adma2 => c.nblk = NumSectors(request) /\ Len(moved) = 0
         /\ ~k.adma2 => c.nblk = request[Current]
<1>1. /\ request \in Seq(Nat) /\ DOMAIN request = 1 .. Len(request) /\ k \in Traits
      /\ c \in Cmds /\ Issued(k, request, c, Len(moved), count)
      /\ Progress(k, request, c) /\ Len(request) \in Nat
  BY DEF SequenceInv, RequestLists, Issued
<1>2. AtData(k, request, c, Len(moved), count)
  BY <1>1, AtWhich
<1>3. c.arg = c.sector /\ Len(moved) = c.done /\ c.sector = FirstSector + c.done /\ c.done \in Nat
  BY <1>1, <1>2 DEF AtData, Progress, Cmds
<1>4. /\ Current \in 1 .. Len(request) /\ (k.adma2 => Current = 1) /\ c.nblk \in Nat
      /\ k.adma2 => c.nblk = NumSectors(request)
      /\ ~k.adma2 => c.nblk = request[Current]
  BY BlocksLeft
<1>5. CASE k.adma2
  <2>1. c.done = 0
    BY <1>1, <1>5 DEF Progress
  <2>2. SectorSums(request)[0] = 0
    BY <1>1, SumsAreSums DEF IsSums
  <2>3. Current - 1 = 0
    BY <1>4, <1>5
  <2> QED
    BY <1>3, <1>4, <1>5, <2>1, <2>2, <2>3
<1>6. CASE ~k.adma2
  <2>1. PICK j \in 1 .. Len(request) : AtBlock(request, c, j)
    BY <1>1, <1>6 DEF Progress
  <2>2. Current = j
    <3>1. \A i \in j .. Len(request) : request[i] \in Nat
      BY <1>1
    <3>2. Len(RestOf(request, j)) = Len(request) - j + 1
      BY <1>1, <3>1, SubSeqProperties DEF RestOf
    <3>3. Len(c.blocks) = Len(request) - j + 1
      BY <2>1, <3>2 DEF AtBlock
    <3> QED
      BY <1>1, <3>3 DEF Current
  <2>3. c.done = SectorSums(request)[Current - 1]
    BY <2>1, <2>2 DEF AtBlock
  <2> QED
    BY <1>3, <1>4, <1>6, <2>3
<1> QED
  BY <1>5, <1>6

\* Where a sector is from the command: behind what has been moved, or in it, or after.
LEMMA OrdinalAt ==
  ASSUME SequenceInv, Placed, Pending, c.hasData,
         NEW i \in 1 .. Len(request), NEW x \in 1 .. request[i]
  PROVE  /\ Ordinal(i, x) <= Len(moved) => i < Current
         /\ InCommand(i) => /\ i \in Current .. Len(request)
                            /\ Ordinal(i, x) - Len(moved) \in 1 .. c.nblk
         /\ Len(moved) < Ordinal(i, x) /\ Ordinal(i, x) <= Len(moved) + c.nblk => InCommand(i)
<1> DEFINE s == SectorSums(request)
           l == Len(moved)
           n == c.nblk
           e == Ordinal(i, x)
<1>1. /\ Current \in 1 .. Len(request) /\ (k.adma2 => Current = 1)
      /\ l \in Nat /\ n \in Nat /\ l = s[Current - 1]
      /\ k.adma2 => n = NumSectors(request) /\ l = 0
      /\ ~k.adma2 => n = request[Current]
  BY CommandAt
<1>2. /\ s[i - 1] \in Nat /\ s[i] \in Nat /\ e \in Nat /\ e > s[i - 1] /\ e <= s[i]
      /\ e <= NumSectors(request) /\ NumSectors(request) \in Nat
  BY OrdinalFacts
<1>3. request \in Seq(Nat) /\ Len(request) \in Nat
  BY DEF Placed, RequestLists
<1>4. /\ s[Current] = s[Current - 1] + request[Current] /\ request[Current] \in Nat
      /\ s[Current] \in Nat
  <2>1. Current \in DOMAIN request
    BY <1>1, <1>3
  <2>2. s[Current] = s[Current - 1] + request[Current]
    BY <1>3, <2>1, BlockInside
  <2>3. request[Current] \in Nat
    BY <1>3, <2>1
  <2> HIDE DEF s
  <2> QED
    BY <1>1, <2>2, <2>3
<1>5. ASSUME Current <= i PROVE s[Current - 1] <= s[i - 1]
  <2>1. Current - 1 \in 0 .. Len(request) /\ i - 1 \in (Current - 1) .. Len(request)
    BY <1>1, <1>5
  <2> QED
    BY <1>3, <2>1, SumsGrow
<1>6. ASSUME Current < i PROVE s[Current] <= s[i - 1]
  <2>1. Current \in 0 .. Len(request) /\ i - 1 \in Current .. Len(request)
    BY <1>1, <1>6
  <2> QED
    BY <1>3, <2>1, SumsGrow
<1>7. ASSUME i < Current PROVE s[i] <= s[Current - 1]
  <2>1. i \in 0 .. Len(request) /\ Current - 1 \in i .. Len(request)
    BY <1>1, <1>7
  <2> QED
    BY <1>3, <2>1, SumsGrow
<1> HIDE DEF s, l, n, e
<1>8. ASSUME e <= l PROVE i < Current
  BY <1>1, <1>2, <1>5, <1>8
<1>9. ASSUME InCommand(i) PROVE i \in Current .. Len(request) /\ e - l \in 1 .. n
  <2>1. CASE k.adma2
    BY <1>1, <1>2, <2>1
  <2>2. CASE ~k.adma2
    <3>1. i = Current
      BY <1>9, <2>2 DEF InCommand
    <3> QED
      BY <1>1, <1>2, <1>4, <2>2, <3>1
  <2> QED
    BY <2>1, <2>2
<1>10. ASSUME l < e, e <= l + n PROVE InCommand(i)
  <2>1. CASE k.adma2
    BY <2>1 DEF InCommand
  <2>2. CASE ~k.adma2
    <3>1. ~(i < Current)
      BY <1>1, <1>2, <1>7, <1>10
    <3>2. ~(Current < i)
      BY <1>1, <1>2, <1>4, <1>6, <1>10, <2>2
    <3> QED
      BY <1>1, <3>1, <3>2 DEF InCommand
  <2> QED
    BY <2>1, <2>2
<1> QED
  BY <1>8, <1>9, <1>10 DEF l, n, e

\* Step p of the data phase, with l sectors moved before, is at a sector of the command.
StepAt(p, l, a) ==
  \E i \in Current .. Len(request) : \E x \in 1 .. request[i] :
    InCommand(i) /\ p = Ordinal(i, x) - l /\ a = Dma(Current, i, x)

LEMMA TouchedAt ==
  ASSUME SequenceInv, Placed, Pending, c.hasData
  PROVE  /\ Touched \in Seq(Nat) /\ Len(Touched) = c.nblk
         /\ \A p \in 1 .. c.nblk : StepAt(p, Len(moved), Touched[p])
<1> DEFINE n == c.nblk
           l == Len(moved)
           b == BlocksAt(Current)
<1>1. /\ Current \in 1 .. Len(request) /\ (k.adma2 => Current = 1)
      /\ l \in Nat /\ n \in Nat /\ l = SectorSums(request)[Current - 1]
      /\ k.adma2 => n = NumSectors(request) /\ l = 0
      /\ ~k.adma2 => n = request[Current]
  BY CommandAt
<1>2. Reached(host, b) /\ b \in Seq(DmaBlocks) /\ Len(b) = Len(request) - Current + 1
  BY <1>1, PlacedReached, BlocksFrom DEF Reached
<1>3. request \in Seq(Nat) /\ Len(request) \in Nat
  BY DEF Placed, RequestLists
<1>4. Touched = Moves(k.adma2, host, b, n)
  BY DEF Touched, Blocks
<1> HIDE DEF n, l
<1>5. CASE k.adma2
  <2> DEFINE w == Walked(Table(host, b))
  <2>1. Current = 1 /\ l = 0 /\ n = NumSectors(request)
    BY <1>1, <1>5
  <2>2. Sizes(b) = request /\ Len(b) = Len(request)
    <3>1. Len(b) = Len(request)
      BY <1>2, <1>3, <2>1
    <3>2. Sizes(b) \in Seq(Nat) /\ Len(Sizes(b)) = Len(request)
      <4> HIDE DEF b
      <4> QED
        BY <1>2, <3>1, SizesType
    <3>3. ASSUME NEW i \in 1 .. Len(request) PROVE Sizes(b)[i] = request[i]
      <4>1. i \in Current .. Len(request) /\ (i - Current) + 1 = i
        BY <2>1
      <4>2. b[i] = BlockAt(i)
        BY <1>1, <4>1, BlockOf
      <4>3. i \in DOMAIN b
        <5> HIDE DEF b
        <5> QED
          BY <1>2, <3>1
      <4>4. Sizes(b)[i] = b[i].n
        BY <4>3 DEF Sizes
      <4> QED
        BY <4>2, <4>4 DEF BlockAt
    <3> HIDE DEF b
    <3>4. Sizes(b) = request
      BY <1>3, <3>2, <3>3, SeqEqual
    <3> QED
      BY <3>1, <3>4
  <2>3. /\ w \in Seq(Nat) /\ Len(w) = SectorSums(request)[Len(request)]
        /\ \A p \in 1 .. Len(w) : \E i \in 1 .. Len(request) : \E x \in 1 .. b[i].n :
             p = SectorSums(request)[i - 1] + x /\ w[p] = (DmaAddr(host, b, i) + x) - 1
    <3> HIDE DEF b
    <3>1. /\ w \in Seq(Nat) /\ Len(w) = SectorSums(Sizes(b))[Len(b)]
          /\ \A p \in 1 .. Len(w) : \E i \in 1 .. Len(b) : \E x \in 1 .. b[i].n :
               p = SectorSums(Sizes(b))[i - 1] + x /\ w[p] = (DmaAddr(host, b, i) + x) - 1
      <4>1. Reached(host, b)
        BY <1>2
      <4> QED
        BY <4>1, WalkedAt
    <3> HIDE DEF w
    <3> QED
      BY <2>2, <3>1
  <2>4. Touched = SubSeq(w, 1, Min({n, Len(w)}))
    BY <1>4, <1>5 DEF Moves
  <2> HIDE DEF w
  <2>5. Len(w) = n /\ Min({n, Len(w)}) = n
    <3>1. Len(w) = n
      BY <2>1, <2>3 DEF NumSectors
    <3>2. Min({n, n}) \in {n, n}
      BY <1>1, MinOfTwo
    <3> QED
      BY <3>1, <3>2
  <2>6. Touched \in Seq(Nat) /\ Len(Touched) = n /\ \A p \in 1 .. n : Touched[p] = w[p]
    <3>1. n \in 0 .. Len(w)
      BY <1>1, <2>5
    <3>2. SubSeq(w, 1, n) \in Seq(Nat) /\ Len(SubSeq(w, 1, n)) = n
          /\ \A p \in 1 .. n : SubSeq(w, 1, n)[p] = w[p]
      BY <2>3, <3>1, SubSeqFromFirst
    <3> QED
      BY <2>4, <2>5, <3>2
  <2>7. ASSUME NEW p \in 1 .. n PROVE StepAt(p, l, Touched[p])
    <3>1. PICK i \in 1 .. Len(request) : \E x \in 1 .. b[i].n :
             p = SectorSums(request)[i - 1] + x /\ w[p] = (DmaAddr(host, b, i) + x) - 1
      BY <2>3, <2>5
    <3>2. PICK x \in 1 .. b[i].n :
             p = SectorSums(request)[i - 1] + x /\ w[p] = (DmaAddr(host, b, i) + x) - 1
      BY <3>1
    <3>3. i \in Current .. Len(request) /\ (i - Current) + 1 = i
      BY <2>1
    <3>4. b[i] = BlockAt(i)
      BY <1>1, <3>3, BlockOf
    <3>5. x \in 1 .. request[i]
      BY <3>4 DEF BlockAt
    <3>6. w[p] = Dma(Current, i, x)
      BY <3>2, <3>3 DEF Dma
    <3>7. p = Ordinal(i, x) - l
      <4>1. Ordinal(i, x) \in Nat
        BY <3>5, OrdinalFacts
      <4> QED
        BY <2>1, <3>2, <4>1 DEF Ordinal
    <3>8. InCommand(i)
      BY <1>5 DEF InCommand
    <3> QED
      BY <2>6, <3>3, <3>5, <3>6, <3>7, <3>8 DEF StepAt
  <2> QED
    BY <2>6, <2>7 DEF n, l
<1>6. CASE ~k.adma2
  <2> DEFINE f == DmaAddr(host, b, 1)
  <2>1. 1 \in 1 .. Len(b)
    BY <1>1, <1>2, <1>3
  <2>2. f \in Nat
    <3> HIDE DEF b
    <3> QED
      BY <1>2, <2>1, DmaAddrFacts
  <2>3. Touched = Addresses(f, n)
    BY <1>4, <1>6 DEF Moves
  <2>4. (Current - Current) + 1 = 1 /\ Current \in Current .. Len(request)
    BY <1>1
  <2>5. \A x : Dma(Current, Current, x) = (f + x) - 1
    BY <2>4 DEF Dma
  <2> HIDE DEF f
  <2>6. Touched \in Seq(Nat) /\ Len(Touched) = n /\ \A p \in 1 .. n : Touched[p] = (f + p) - 1
    BY <1>1, <2>2, <2>3, AddressesFacts
  <2>7. ASSUME NEW p \in 1 .. n PROVE StepAt(p, l, Touched[p])
    <3>1. p \in 1 .. request[Current]
      BY <1>1, <1>6
    <3>2. Ordinal(Current, p) = l + p
      BY <1>1 DEF Ordinal
    <3>3. p = Ordinal(Current, p) - l
      BY <1>1, <3>2
    <3>4. InCommand(Current) /\ Touched[p] = Dma(Current, Current, p)
      BY <2>5, <2>6 DEF InCommand
    <3> QED
      BY <2>4, <3>1, <3>3, <3>4 DEF StepAt
  <2> QED
    BY <2>6, <2>7 DEF n, l
<1> QED
  BY <1>5, <1>6

\* The data phase is at each sector of the command once, in order.
LEMMA TouchedInOrder ==
  ASSUME SequenceInv, Placed, OwnApart, Pending, c.hasData
  PROVE  /\ Injects(Touched)
         /\ \A i \in 1 .. Len(request) : \A x \in 1 .. request[i] :
              InCommand(i) => Touched[Ordinal(i, x) - Len(moved)] = Dma(Current, i, x)
<1> DEFINE l == Len(moved)
<1>1. /\ Touched \in Seq(Nat) /\ Len(Touched) = c.nblk /\ l \in Nat
      /\ \A p \in 1 .. c.nblk : StepAt(p, l, Touched[p])
      /\ Current \in 1 .. Len(request)
  BY TouchedAt, CommandAt
<1>2. request \in Seq(Nat) /\ Once(request)
  BY SumsOnce DEF Placed, RequestLists
<1> HIDE DEF l
<1>3. ASSUME NEW p \in 1 .. Len(Touched), NEW q \in 1 .. Len(Touched), Touched[p] = Touched[q]
      PROVE  p = q
  <2>1. StepAt(p, l, Touched[p]) /\ StepAt(q, l, Touched[q])
    BY <1>1
  <2>2. PICK i \in Current .. Len(request) : \E x \in 1 .. request[i] :
          InCommand(i) /\ p = Ordinal(i, x) - l /\ Touched[p] = Dma(Current, i, x)
    BY <2>1 DEF StepAt
  <2>3. PICK x \in 1 .. request[i] :
          InCommand(i) /\ p = Ordinal(i, x) - l /\ Touched[p] = Dma(Current, i, x)
    BY <2>2
  <2>4. PICK g \in Current .. Len(request) : \E y \in 1 .. request[g] :
          InCommand(g) /\ q = Ordinal(g, y) - l /\ Touched[q] = Dma(Current, g, y)
    BY <2>1 DEF StepAt
  <2>5. PICK y \in 1 .. request[g] :
          InCommand(g) /\ q = Ordinal(g, y) - l /\ Touched[q] = Dma(Current, g, y)
    BY <2>4
  <2>6. Dma(Current, i, x) = Dma(Current, g, y)
    BY <1>3, <2>3, <2>5
  <2>7. i = g /\ x = y
    BY <1>1, <2>6, DmaApart
  <2> QED
    BY <2>3, <2>5, <2>7
<1>4. ASSUME NEW i \in 1 .. Len(request), NEW x \in 1 .. request[i], InCommand(i)
      PROVE  Touched[Ordinal(i, x) - l] = Dma(Current, i, x)
  <2>1. Ordinal(i, x) - l \in 1 .. c.nblk /\ Ordinal(i, x) \in Nat
    BY <1>4, OrdinalAt, OrdinalFacts DEF l
  <2> DEFINE p == Ordinal(i, x) - l
  <2>2. PICK g \in Current .. Len(request) : \E y \in 1 .. request[g] :
          InCommand(g) /\ p = Ordinal(g, y) - l /\ Touched[p] = Dma(Current, g, y)
    BY <1>1, <2>1 DEF StepAt
  <2>3. PICK y \in 1 .. request[g] :
          InCommand(g) /\ p = Ordinal(g, y) - l /\ Touched[p] = Dma(Current, g, y)
    BY <2>2
  <2>4. g \in 1 .. Len(request) /\ i \in 1 .. Len(request) /\ Ordinal(g, y) \in Nat
    <3>1. g \in 1 .. Len(request)
      BY <1>1
    <3> QED
      BY <3>1, OrdinalFacts
  <2>5. Ordinal(i, x) = Ordinal(g, y)
    BY <1>1, <2>1, <2>3, <2>4
  <2>6. SectorSums(request)[i - 1] + x = SectorSums(request)[g - 1] + y
    BY <2>5 DEF Ordinal
  <2>7. i = g /\ x = y
    BY <1>2, <2>4, <2>6 DEF Once
  <2> QED
    BY <2>3, <2>7
<1> QED
  BY <1>3, <1>4 DEF Injects, l

-----------------------------------------------------------------------------
(* What the data phase and the copies leave in memory and on the medium.   *)

\* A read brings the sectors of the command to where the controller finds their
\* blocks, and no others to the memory of the request.
LEMMA FilledAt ==
  ASSUME SequenceInv, Placed, OwnApart, Pending, c.hasData,
         NEW i \in 1 .. Len(request), NEW x \in 1 .. request[i]
  PROVE  /\ InCommand(i) => Has(Filled, Dma(Current, i, x), disk, Sector(i, x))
         /\ ~InCommand(i) /\ Address(i, x) \in DOMAIN mem =>
              Has(Filled, Address(i, x), mem, Address(i, x))
<1> DEFINE t == Touched
           l == Len(moved)
           v == [p \in DOMAIN t |-> disk[c.arg + p - 1]]
<1>1. /\ t \in Seq(Nat) /\ Len(t) = c.nblk /\ DOMAIN t = 1 .. Len(t) /\ Len(t) \in Nat
      /\ \A p \in 1 .. c.nblk : StepAt(p, l, t[p])
      /\ Current \in 1 .. Len(request) /\ l \in Nat /\ c.arg = FirstSector + l
  BY TouchedAt, CommandAt
<1>2. Injects(t) /\ (InCommand(i) => t[Ordinal(i, x) - l] = Dma(Current, i, x))
  BY TouchedInOrder
<1>3. Filled = Put(mem, t, v)
  BY DEF Filled
<1>4. ASSUME InCommand(i) PROVE Has(Filled, Dma(Current, i, x), disk, Sector(i, x))
  <2> DEFINE p == Ordinal(i, x) - l
  <2>1. p \in 1 .. Len(t) /\ i \in Current .. Len(request) /\ Ordinal(i, x) \in Nat
    BY <1>1, <1>4, OrdinalAt, OrdinalFacts
  <2>2. c.arg + p - 1 = Sector(i, x)
    BY <1>1, <2>1, InoutSequenceAssumption DEF Sector
  <2>3. v[p] = disk[Sector(i, x)]
    BY <1>1, <2>1, <2>2
  <2>4. t[p] = Dma(Current, i, x)
    BY <1>2, <1>4
  <2> HIDE DEF t, v, p
  <2>5. t[p] \in DOMAIN Put(mem, t, v) /\ Put(mem, t, v)[t[p]] = v[p]
    BY <1>1, <1>2, <2>1, PutAt
  <2> QED
    BY <1>3, <2>3, <2>4, <2>5 DEF Has
<1>5. ASSUME ~InCommand(i), Address(i, x) \in DOMAIN mem
      PROVE  Has(Filled, Address(i, x), mem, Address(i, x))
  <2> DEFINE a == Address(i, x)
  <2> HIDE DEF t, v
  <2>1. a \notin Range(t)
    <3> SUFFICES ASSUME NEW p \in 1 .. c.nblk, t[p] = a PROVE FALSE
      BY <1>1 DEF Range
    <3>1. PICK g \in Current .. Len(request) : \E y \in 1 .. request[g] :
            InCommand(g) /\ p = Ordinal(g, y) - l /\ t[p] = Dma(Current, g, y)
      BY <1>1 DEF StepAt
    <3>2. PICK y \in 1 .. request[g] :
            InCommand(g) /\ p = Ordinal(g, y) - l /\ t[p] = Dma(Current, g, y)
      BY <3>1
    <3>3. g # i /\ g \in 1 .. Len(request)
      BY <1>1, <1>5, <3>2
    <3>4. CASE Relocated(g)
      <4>1. a \in BounceBuffer
        BY <1>1, <3>2, <3>4, DmaFacts
      <4> QED
        BY <4>1 DEF OwnApart
    <3>5. CASE ~Relocated(g)
      <4>1. Address(i, x) = Address(g, y)
        BY <1>1, <3>2, <3>5, DmaFacts
      <4> QED
        BY <3>3, <4>1 DEF OwnApart
    <3> QED
      BY <3>4, <3>5
  <2>2. /\ DOMAIN Put(mem, t, v) = Range(t) \cup DOMAIN mem
        /\ \A z \in DOMAIN mem \ Range(t) : Put(mem, t, v)[z] = mem[z]
    BY PutFacts
  <2> QED
    BY <1>3, <1>5, <2>1, <2>2 DEF Has
<1> QED
  BY <1>4, <1>5

\* A write takes them from there, and leaves what is on the medium before them.
LEMMA StoredAt ==
  ASSUME SequenceInv, Placed, OwnApart, Pending, c.hasData, NEW m,
         NEW i \in 1 .. Len(request), NEW x \in 1 .. request[i]
  PROVE  /\ InCommand(i) => Has(Stored(m), Sector(i, x), m, Dma(Current, i, x))
         /\ Ordinal(i, x) <= Len(moved) /\ Sector(i, x) \in DOMAIN disk =>
              Has(Stored(m), Sector(i, x), disk, Sector(i, x))
<1> DEFINE t == Touched
           l == Len(moved)
           s == Addresses(c.arg, Len(t))
           v == [p \in DOMAIN t |-> m[t[p]]]
<1>1. /\ t \in Seq(Nat) /\ Len(t) = c.nblk /\ DOMAIN t = 1 .. Len(t) /\ Len(t) \in Nat
      /\ l \in Nat /\ c.arg = FirstSector + l /\ c.arg \in Nat
  BY TouchedAt, CommandAt, InoutSequenceAssumption
<1>2. Stored(m) = Put(disk, s, v)
  BY DEF Stored
<1>3. /\ s \in Seq(Nat) /\ Len(s) = Len(t) /\ \A p \in 1 .. Len(t) : s[p] = (c.arg + p) - 1
      /\ DOMAIN s = 1 .. Len(s) /\ \A a : a \in Range(s) <=> a \in c.arg .. (c.arg + Len(t)) - 1
  <2> HIDE DEF t, s
  <2>1. /\ s \in Seq(Nat) /\ Len(s) = Len(t) /\ \A p \in 1 .. Len(t) : s[p] = (c.arg + p) - 1
        /\ \A a : a \in Range(s) <=> a \in c.arg .. (c.arg + Len(t)) - 1
    BY <1>1, AddressesFacts DEF s
  <2> QED
    BY <2>1
<1> HIDE DEF s
<1>4. Injects(s)
  <2> HIDE DEF t
  <2> QED
    BY <1>1, <1>3 DEF Injects
<1>5. Ordinal(i, x) \in Nat
  BY OrdinalFacts
<1>6. ASSUME InCommand(i) PROVE Has(Stored(m), Sector(i, x), m, Dma(Current, i, x))
  <2> DEFINE p == Ordinal(i, x) - l
  <2>1. p \in 1 .. Len(t)
    BY <1>1, <1>6, OrdinalAt
  <2>2. t[p] = Dma(Current, i, x)
    BY <1>6, TouchedInOrder
  <2>3. v[p] = m[Dma(Current, i, x)]
    BY <1>1, <2>1, <2>2
  <2>4. s[p] = Sector(i, x)
    <3>1. s[p] = (c.arg + p) - 1
      BY <1>3, <2>1
    <3>2. (c.arg + p) - 1 = (FirstSector + Ordinal(i, x)) - 1
      BY <1>1, <1>5, InoutSequenceAssumption
    <3> QED
      BY <3>1, <3>2 DEF Sector
  <2> HIDE DEF t, v, p
  <2>5. p \in 1 .. Len(s) /\ Len(s) \in Nat
    BY <1>1, <1>3, <2>1
  <2>6. s[p] \in DOMAIN Put(disk, s, v) /\ Put(disk, s, v)[s[p]] = v[p]
    BY <1>3, <1>4, <2>5, PutAt
  <2> QED
    BY <1>2, <2>3, <2>4, <2>6 DEF Has
<1>7. ASSUME Ordinal(i, x) <= l, Sector(i, x) \in DOMAIN disk
      PROVE  Has(Stored(m), Sector(i, x), disk, Sector(i, x))
  <2>1. Sector(i, x) \notin Range(s)
    <3>1. (FirstSector + Ordinal(i, x)) - 1 < FirstSector + l
      BY <1>1, <1>5, <1>7, InoutSequenceAssumption
    <3> QED
      BY <1>1, <1>3, <3>1 DEF Sector
  <2> HIDE DEF t, v
  <2>2. /\ DOMAIN Put(disk, s, v) = Range(s) \cup DOMAIN disk
        /\ \A z \in DOMAIN disk \ Range(s) : Put(disk, s, v)[z] = disk[z]
    BY PutFacts
  <2> QED
    BY <1>2, <1>7, <2>1, <2>2 DEF Has
<1> QED
  BY <1>6, <1>7 DEF l

LEMMA WhichBounced ==
  ASSUME Placed, NEW j \in 1 .. Len(request)
  PROVE  /\ \A i \in j .. Len(request) :
              (i - j) + 1 \in AllBounced(host, BlocksAt(j)) <=> Relocated(i)
         /\ \A b \in 1 .. Len(BlocksAt(j)) :
              b \in AllBounced(host, BlocksAt(j)) => Bounced(host, BlocksAt(j)[b])
<1>1. DOMAIN BlocksAt(j) = 1 .. Len(BlocksAt(j))
  BY PlacedReached DEF Reached
<1>2. ASSUME NEW i \in j .. Len(request)
      PROVE  (i - j) + 1 \in AllBounced(host, BlocksAt(j)) <=> Relocated(i)
  <2> DEFINE b == (i - j) + 1
  <2>1. b \in 1 .. Len(BlocksAt(j)) /\ BlocksAt(j)[b] = BlockAt(i)
    BY BlockOf
  <2> HIDE DEF b
  <2>2. b \in AllBounced(host, BlocksAt(j)) <=> Bounced(host, BlocksAt(j)[b])
    BY <1>1, <2>1 DEF AllBounced
  <2> QED
    BY <2>1, <2>2 DEF Relocated, b
<1>3. \A b \in 1 .. Len(BlocksAt(j)) :
        b \in AllBounced(host, BlocksAt(j)) => Bounced(host, BlocksAt(j)[b])
  BY DEF AllBounced
<1> QED
  BY <1>2, <1>3

\* After a read, the sectors of the command are in the memory of their blocks, and
\* those of the blocks before are still there.
LEMMA ReadArrives ==
  ASSUME SequenceInv, Placed, OwnApart, Pending, c.hasData,
         NEW m, m = IF BounceRead THEN CopyOut(Filled, host, Blocks) ELSE Filled,
         NEW i \in 1 .. Len(request), NEW x \in 1 .. request[i]
  PROVE  /\ InCommand(i) => Has(m, Address(i, x), disk, Sector(i, x))
         /\ i < Current /\ Address(i, x) \in DOMAIN mem => Has(m, Address(i, x), mem, Address(i, x))
<1> DEFINE S == AllBounced(host, BlocksAt(Current))
           f == Filled
           out == CopiedOut(f, Current, S)
           a == Address(i, x)
<1>1. Current \in 1 .. Len(request) /\ (k.adma2 => Current = 1)
      /\ request \in Seq(Nat) /\ Len(request) \in Nat /\ DOMAIN request = 1 .. Len(request)
  BY CommandAt DEF Placed, RequestLists
<1>2. m = IF BounceRead THEN out ELSE f
  BY DEF CopyOut, CopiedOut, Blocks
<1>3. /\ \A g \in Current .. Len(request) : (g - Current) + 1 \in S <=> Relocated(g)
      /\ \A b \in 1 .. Len(BlocksAt(Current)) : b \in S => Bounced(host, BlocksAt(Current)[b])
  BY <1>1, WhichBounced
<1> HIDE DEF S
<1>4. ASSUME a \in DOMAIN f, i < Current \/ (i - Current) + 1 \notin S
      PROVE  Has(out, a, f, a)
  <2> HIDE DEF f
  <2> QED
    BY <1>1, <1>3, <1>4, CopiesKeep
<1>5. ASSUME i \in Current .. Len(request), (i - Current) + 1 \in S
      PROVE  Has(out, a, f, Dma(Current, i, x))
  <2> HIDE DEF f
  <2> QED
    BY <1>1, <1>5, CopiesFacts
<1>6. /\ InCommand(i) => Has(f, Dma(Current, i, x), disk, Sector(i, x))
      /\ ~InCommand(i) /\ a \in DOMAIN mem => Has(f, a, mem, a)
  BY FilledAt
<1> HIDE DEF f, out
<1>7. ASSUME InCommand(i) PROVE Has(m, a, disk, Sector(i, x))
  <2>1. i \in Current .. Len(request)
    BY <1>7, OrdinalAt
  <2>2. CASE Relocated(i)
    <3>1. BounceRead
      <4>1. 1 \in 1 .. Len(request) /\ i \in 1 .. Len(request) /\ (i - 1) + 1 = i
        BY <1>1
      <4>2. BlocksAt(1)[(i - 1) + 1] = BlockAt(i)
        BY <4>1, BlockOf
      <4>3. Bounced(host, BlocksAt(1)[i])
        BY <2>2, <4>1, <4>2 DEF Relocated
      <4>4. request[i] > 0 /\ i \in DOMAIN request
        BY <1>1
      <4>5. k.adma2 \/ i <= Current
        BY <1>1, <1>7 DEF InCommand
      <4> QED
        BY <4>3, <4>4, <4>5 DEF BounceRead
    <3>2. Has(out, a, f, Dma(Current, i, x))
      BY <1>3, <1>5, <2>1, <2>2
    <3> QED
      BY <1>2, <1>6, <1>7, <3>1, <3>2 DEF Has
  <2>3. CASE ~Relocated(i)
    <3>1. Dma(Current, i, x) = a
      BY <1>1, <2>1, <2>3, DmaFacts DEF a
    <3>2. Has(f, a, disk, Sector(i, x))
      BY <1>6, <1>7, <3>1
    <3>3. (i - Current) + 1 \notin S
      BY <1>3, <2>1, <2>3
    <3>4. Has(out, a, f, a)
      BY <1>4, <3>2, <3>3 DEF Has
    <3> QED
      BY <1>2, <3>2, <3>4 DEF Has
  <2> QED
    BY <2>2, <2>3
<1>8. ASSUME i < Current, a \in DOMAIN mem PROVE Has(m, a, mem, a)
  <2>1. ~InCommand(i)
    BY <1>1, <1>8 DEF InCommand
  <2>2. Has(f, a, mem, a)
    BY <1>6, <1>8, <2>1
  <2>3. Has(out, a, f, a)
    BY <1>4, <1>8, <2>2 DEF Has
  <2> QED
    BY <1>2, <2>2, <2>3 DEF Has
<1> QED
  BY <1>7, <1>8 DEF a

\* Before a write, the sectors of the command are where the controller finds them.
LEMMA WriteReady ==
  ASSUME SequenceInv, Placed, OwnApart, Pending, c.hasData,
         NEW m, m = CopyIn(k.adma2, mem, host, Blocks),
         NEW i \in 1 .. Len(request), NEW x \in 1 .. request[i],
         Address(i, x) \in DOMAIN mem
  PROVE  /\ Has(m, Address(i, x), mem, Address(i, x))
         /\ InCommand(i) => Has(m, Dma(Current, i, x), mem, Address(i, x))
<1> DEFINE bl == BlocksAt(Current)
           S == AllBounced(host, bl) \cap (IF k.adma2 THEN DOMAIN bl ELSE {1})
           into == CopiedIn(mem, Current, S)
           a == Address(i, x)
<1>1. Current \in 1 .. Len(request) /\ (k.adma2 => Current = 1)
  BY CommandAt
<1>2. m = into
  BY DEF CopyIn, CopiedIn, Blocks
<1>3. ASSUME InCommand(i), Relocated(i)
      PROVE  i \in Current .. Len(request) /\ (i - Current) + 1 \in S
  <2>1. i \in Current .. Len(request)
    BY <1>3, OrdinalAt
  <2>2. (i - Current) + 1 \in AllBounced(host, bl)
    BY <1>1, <1>3, <2>1, WhichBounced
  <2>3. (i - Current) + 1 \in DOMAIN bl
    BY <2>2 DEF AllBounced
  <2>4. ~k.adma2 => (i - Current) + 1 = 1
    BY <1>1, <1>3 DEF InCommand
  <2> QED
    BY <2>1, <2>2, <2>3, <2>4
<1>4. \A b \in 1 .. Len(bl) : b \in S => Bounced(host, bl[b])
  BY <1>1, WhichBounced
<1> HIDE DEF S
<1>5. Has(into, a, mem, a)
  BY <1>1, <1>4, CopiesKeep
<1>7. ASSUME InCommand(i) PROVE Has(into, Dma(Current, i, x), mem, a)
  <2>1. CASE Relocated(i)
    <3>1. i \in Current .. Len(request) /\ (i - Current) + 1 \in S
      BY <1>3, <1>7, <2>1
    <3> QED
      BY <1>1, <3>1, CopiesFacts
  <2>2. CASE ~Relocated(i)
    <3>1. i \in Current .. Len(request)
      BY <1>7, OrdinalAt
    <3>2. Dma(Current, i, x) = a
      BY <1>1, <2>2, <3>1, DmaFacts
    <3> QED
      BY <1>5, <3>2
  <2> QED
    BY <2>1, <2>2
<1> QED
  BY <1>2, <1>5, <1>7

-----------------------------------------------------------------------------
(* A request stays a read or a write.                                      *)

\* e is a read if and only if d is one.
SameWay(e, d) == DOMAIN e = DOMAIN d /\ e.read = d.read

LEMMA DataKeepsWay ==
  ASSUME NEW d, "read" \in DOMAIN d, NEW command, NEW nblk, NEW auto23
  PROVE  SameWay(ReinitInoutData(d, command, nblk, auto23), d)
  BY DEF SameWay, ReinitInoutData

LEMMA NodataKeepsWay ==
  ASSUME NEW d, "read" \in DOMAIN d, NEW command, NEW arg
  PROVE  SameWay(ReinitInoutNodata(d, command, arg), d)
  BY DEF SameWay, ReinitInoutNodata

LEMMA OpenKeepsWay ==
  ASSUME NEW d, "read" \in DOMAIN d, NEW t, NEW nblk, NEW auto23
  PROVE  SameWay(OpenTransfer(t, d, nblk, auto23), d)
<1> DEFINE e == ReinitInoutData(d, ReadWriteMultiple(d), nblk, auto23)
<1>1. SameWay(e, d)
  BY DataKeepsWay
<1>2. OpenTransfer(t, d, nblk, auto23) = IF t.hasCmd23 THEN e ELSE [e EXCEPT !.cmd12 = TRUE]
  BY DEF OpenTransfer
<1> HIDE DEF e
<1> QED
  BY <1>1, <1>2 DEF SameWay

LEMMA BlockKeepsWay ==
  ASSUME NEW d, "read" \in DOMAIN d, NEW t
  PROVE  SameWay(TransferBlockSdma(t, d).cmd, d)
<1> DEFINE n == Head(d.blocks)
           e1 == ReinitInoutData(d, ReadWriteSingle(d), 1, FALSE)
           e2 == ReinitInoutNodata(d, "CMD23", BlockCountArg(n))
           e3 == OpenTransfer(t, d, n, FALSE)
<1>1. SameWay(e1, d) /\ SameWay(e2, d) /\ SameWay(e3, d) /\ SameWay(d, d)
  <2>1. SameWay(e1, d)
    BY DataKeepsWay
  <2>2. SameWay(e2, d)
    BY NodataKeepsWay
  <2>3. SameWay(e3, d)
    BY OpenKeepsWay
  <2>4. SameWay(d, d)
    BY DEF SameWay
  <2> QED
    BY <2>1, <2>2, <2>3, <2>4
<1>2. TransferBlockSdma(t, d).cmd \in {d, e1, e2, e3}
  BY DEF TransferBlockSdma, More, Done
<1> HIDE DEF e1, e2, e3
<1> QED
  BY <1>1, <1>2

\* Whatever the command d ended with.
HandledSameWay(t, d) ==
  \A s : HandleIrqInout(t, [d EXCEPT !.status = s]).cmd.read = d.read

LEMMA HandlerKeepsWay ==
  ASSUME NEW t, NEW d \in Cmds
  PROVE  HandledSameWay(t, d)
<1> SUFFICES ASSUME NEW s
             PROVE  HandleIrqInout(t, [d EXCEPT !.status = s]).cmd.read = d.read
  BY DEF HandledSameWay
<1> DEFINE f == [d EXCEPT !.status = s]
           stop == ReinitInoutNodata([f EXCEPT !.cmd12 = FALSE, !.status12 = f.status],
                                     IF f.read THEN "CMD12rd" ELSE "CMD12wr", 0)
           e == IF f.cmd \in StopTransmission THEN [f EXCEPT !.status = f.status12] ELSE f
           next == [e EXCEPT !.sector = @ + Head(e.blocks), !.done = @ + Head(e.blocks),
                             !.blocks = NextBlocks(@)]
<1>1. "read" \in DOMAIN d /\ SameWay(f, d)
  BY DEF Cmds, SameWay
<1> HIDE DEF f
<1>2. SameWay(stop, f)
  <2> DEFINE g == [f EXCEPT !.cmd12 = FALSE, !.status12 = f.status]
  <2>1. SameWay(g, f)
    BY <1>1 DEF SameWay
  <2>2. "read" \in DOMAIN g
    BY <1>1 DEF SameWay
  <2> HIDE DEF g
  <2>3. SameWay(ReinitInoutNodata(g, IF f.read THEN "CMD12rd" ELSE "CMD12wr", 0), g)
    BY <2>2, NodataKeepsWay
  <2> QED
    BY <2>1, <2>3 DEF SameWay, g
<1>3. SameWay(e, f)
  BY <1>1 DEF SameWay
<1>4. HandleIrqInout(t, f).cmd
        \in {stop, e, OpenTransfer(t, e, e.nblk, FALSE), TransferBlockSdma(t, e).cmd,
             TransferBlockSdma(t, next).cmd}
  <2> HIDE DEF stop
  <2>1. HandleIrqInout(t, f) = IF f.cmd12 /\ ~AutoCmd12 THEN More(stop)
                               ELSE IF IsError(e) THEN Done(e, "eio")
                               ELSE IF t.adma2 THEN HandleIrqInoutAdma2(t, e)
                               ELSE HandleIrqInoutSdma(t, e)
    BY DEF HandleIrqInout, stop
  <2> HIDE DEF e
  <2>2. HandleIrqInoutAdma2(t, e).cmd \in {e, OpenTransfer(t, e, e.nblk, FALSE)}
    BY DEF HandleIrqInoutAdma2, More, Done
  <2>3. HandleIrqInoutSdma(t, e) \in {TransferBlockSdma(t, e), TransferBlockSdma(t, next)}
    BY DEF HandleIrqInoutSdma
  <2> HIDE DEF next
  <2>4. More(stop).cmd = stop /\ Done(e, "eio").cmd = e
    BY DEF More, Done
  <2> QED
    BY <2>1, <2>2, <2>3, <2>4
<1> HIDE DEF stop, e
<1>5. "read" \in DOMAIN e /\ SameWay(OpenTransfer(t, e, e.nblk, FALSE), e)
      /\ SameWay(TransferBlockSdma(t, e).cmd, e)
  <2>1. "read" \in DOMAIN e
    BY <1>1, <1>3 DEF SameWay
  <2> QED
    BY <2>1, OpenKeepsWay, BlockKeepsWay
<1>6. SameWay(next, e)
  BY <1>5 DEF SameWay
<1> HIDE DEF next
<1>7. SameWay(TransferBlockSdma(t, next).cmd, next)
  <2>1. "read" \in DOMAIN next
    BY <1>5, <1>6 DEF SameWay
  <2> QED
    BY <2>1, BlockKeepsWay
<1>8. HandleIrqInout(t, f).cmd.read = d.read
  BY <1>1, <1>2, <1>3, <1>4, <1>5, <1>6, <1>7 DEF SameWay
<1> QED
  BY <1>8 DEF f

LEMMA FirstKeepsWay ==
  ASSUME NEW t, NEW d, "read" \in DOMAIN d
  PROVE  FirstCommand(t, d).read = d.read
<1> DEFINE n == NumSectors(d.blocks)
           e == [d EXCEPT !.nblk = n]
           e1 == OpenTransfer(t, d, n, t.hasCmd23 /\ t.autoCmd23)
           e2 == ReinitInoutNodata(e, "CMD23", BlockCountArg(n))
           e3 == TransferBlockSdma(t, d).cmd
<1>1. SameWay(e, d)
  BY DEF SameWay
<1>2. SameWay(e1, d) /\ SameWay(e3, d)
  BY OpenKeepsWay, BlockKeepsWay
<1>3. SameWay(e2, e)
  <2>1. "read" \in DOMAIN e
    OBVIOUS
  <2> HIDE DEF e
  <2> QED
    BY <2>1, NodataKeepsWay
<1>4. FirstCommand(t, d) \in {e1, e2, e3}
  BY DEF FirstCommand, SetBlockCountAdma2
<1> HIDE DEF e, e1, e2, e3
<1> QED
  BY <1>1, <1>2, <1>3, <1>4 DEF SameWay

-----------------------------------------------------------------------------
(* What has been moved is where it belongs, and what has not is where it   *)
(* came from.                                                              *)

Holds(m, a, v) == a \in DOMAIN m /\ m[a] = v

\* A sector that was moved is in memory and on the medium, any other where it comes from.
InPlace(i, x) ==
  /\ Ordinal(i, x) <= Len(moved) =>
       Holds(mem, Address(i, x), Sector(i, x)) /\ Holds(disk, Sector(i, x), Sector(i, x))
  /\ Pending => IF c.read THEN Holds(disk, Sector(i, x), Sector(i, x))
                ELSE Holds(mem, Address(i, x), Sector(i, x))

AllInPlace == \A i \in 1 .. Len(request) : \A x \in 1 .. request[i] : InPlace(i, x)
DataInv == SequenceInv /\ Placed /\ OwnApart /\ AllInPlace

LEMMA LayoutAt ==
  ASSUME Placed, OwnApart
  PROVE  /\ Len(Layout) \in Nat /\ DOMAIN Layout = 1 .. Len(Layout) /\ Injects(Layout)
         /\ \A i \in 1 .. Len(request) : \A x \in 1 .. request[i] :
              Ordinal(i, x) \in 1 .. Len(Layout) /\ Layout[Ordinal(i, x)] = Address(i, x)
         /\ \A p \in 1 .. Len(Layout) :
              \E i \in 1 .. Len(request) : \E x \in 1 .. request[i] : p = Ordinal(i, x)
<1> DEFINE s == LayoutParts
<1>1. /\ s \in Seq(Seq(Nat)) /\ Len(s) = Len(request) /\ Layout = FlattenSeq(s)
      /\ \A i \in 1 .. Len(request) : s[i] = Addresses(place[i], request[i])
                                      /\ place[i] \in Nat /\ request[i] \in Nat
      /\ Layout \in Seq(Nat)
  BY LayoutFacts
<1>2. request \in Seq(Nat) /\ DOMAIN request = 1 .. Len(request)
  BY DEF Placed, RequestLists
<1> HIDE DEF s
<1>3. ASSUME NEW i \in 1 .. Len(request)
      PROVE  /\ Len(s[i]) = request[i]
             /\ \A x \in 1 .. request[i] : s[i][x] = Address(i, x)
  <2>1. /\ Len(Addresses(place[i], request[i])) = request[i]
        /\ \A x \in 1 .. request[i] :
             Addresses(place[i], request[i])[x] = (place[i] + x) - 1
    BY <1>1, AddressesFacts
  <2> QED
    BY <1>1, <2>1 DEF Address
<1>4. Lengths(s) = request
  <2>1. /\ Lengths(s) \in Seq(Nat) /\ Len(Lengths(s)) = Len(request)
        /\ DOMAIN s = 1 .. Len(request)
    BY <1>1, LengthsType
  <2>2. \A i \in 1 .. Len(request) : Lengths(s)[i] = request[i]
    BY <1>3, <2>1 DEF Lengths
  <2> QED
    BY <1>2, <2>1, <2>2, SeqEqual
<1>5. Starts(s) = SectorSums(request)
  BY <1>4 DEF Starts
<1>6. Laid(Layout, s, Len(request))
  BY <1>1, FlattenLays
<1>7. Apart(s)
  <2>1. ASSUME NEW i \in 1 .. Len(s), NEW j \in 1 .. Len(s),
               NEW x \in 1 .. Len(s[i]), NEW y \in 1 .. Len(s[j]), s[i][x] = s[j][y]
        PROVE  i = j /\ x = y
    <3>1. i \in 1 .. Len(request) /\ j \in 1 .. Len(request)
          /\ x \in 1 .. request[i] /\ y \in 1 .. request[j]
      BY <1>1, <1>3
    <3>2. Address(i, x) = Address(j, y)
      BY <1>3, <2>1, <3>1
    <3> QED
      BY <3>1, <3>2 DEF OwnApart
  <2> QED
    BY <2>1 DEF Apart
<1>8. Injects(Layout)
  BY <1>1, <1>7, FlattenApart
<1>9. ASSUME NEW i \in 1 .. Len(request), NEW x \in 1 .. request[i]
      PROVE  Ordinal(i, x) \in 1 .. Len(Layout) /\ Layout[Ordinal(i, x)] = Address(i, x)
  <2>1. x \in 1 .. Len(s[i]) /\ s[i][x] = Address(i, x)
    BY <1>3
  <2>2. SectorSums(request)[i - 1] + x \in 1 .. Len(Layout)
        /\ Layout[SectorSums(request)[i - 1] + x] = s[i][x]
    BY <1>5, <1>6, <2>1 DEF Laid
  <2> QED
    BY <2>1, <2>2 DEF Ordinal
<1>10. ASSUME NEW p \in 1 .. Len(Layout)
       PROVE  \E i \in 1 .. Len(request) : \E x \in 1 .. request[i] : p = Ordinal(i, x)
  <2>1. PICK i \in 1 .. Len(request) : \E x \in 1 .. Len(s[i]) : p = Starts(s)[i - 1] + x
    BY <1>6, Zenon DEF Laid
  <2>2. PICK x \in 1 .. Len(s[i]) : p = Starts(s)[i - 1] + x
    BY <2>1
  <2>3. x \in 1 .. request[i] /\ p = Ordinal(i, x)
    BY <1>3, <1>5, <2>2 DEF Ordinal
  <2> QED
    BY <2>3
<1> QED
  BY <1>1, <1>8, <1>9, <1>10

\* In the beginning the medium has the sectors to read, or memory those to write.
LEMMA InitDataInv ==
  ASSUME PlacesApart, Init
  PROVE  DataInv
<1>1. SequenceInv /\ Placed /\ OwnApart
  BY InitSequenceInv, InitPlaced, InitApart
<1>2. PICK read \in BOOLEAN :
        /\ c = FirstCommand(k, InitInout(CreatedCmd, FirstSector, request, 0, read))
        /\ mem = LET none == [a \in Memory |-> 0]
                 IN  IF read THEN none ELSE Put(none, Layout, Sectors(Len(Layout)))
        /\ disk = [s \in Medium |-> IF read THEN s ELSE 0]
  BY DEF Init
<1>3. c.read = read
  <2> DEFINE d == InitInout(CreatedCmd, FirstSector, request, 0, read)
  <2>1. "read" \in DOMAIN d /\ d.read = read
    BY DEF InitInout, CreatedCmd, InvalidCmd
  <2> HIDE DEF d
  <2>2. FirstCommand(k, d).read = d.read
    BY <2>1, FirstKeepsWay
  <2> QED
    BY <1>2, <2>1, <2>2 DEF d
<1>4. Len(moved) = 0
  BY DEF Init
<1>5. ASSUME NEW i \in 1 .. Len(request), NEW x \in 1 .. request[i] PROVE InPlace(i, x)
  <2> DEFINE o == Ordinal(i, x)
  <2>1. o \in 1 .. Len(Layout) /\ Layout[o] = Address(i, x) /\ Len(Layout) \in Nat
        /\ DOMAIN Layout = 1 .. Len(Layout) /\ Injects(Layout)
    BY <1>1, LayoutAt
  <2>2. o <= NumSectors(request) /\ NumSectors(request) \in Nat
    BY <1>1, OrdinalFacts
  <2>3. Sector(i, x) = (FirstSector + o) - 1
    BY DEF Sector
  <2> HIDE DEF o
  <2>4. ~(o <= Len(moved))
    BY <1>4, <2>1
  <2>5. Sector(i, x) \in Medium
    BY <2>1, <2>2, <2>3, InoutSequenceAssumption DEF Medium
  <2>6. ASSUME read PROVE Holds(disk, Sector(i, x), Sector(i, x))
    BY <1>2, <2>5, <2>6 DEF Holds
  <2>7. ASSUME ~read PROVE Holds(mem, Address(i, x), Sector(i, x))
    <3> DEFINE none == [a \in Memory |-> 0]
               v == Sectors(Len(Layout))
    <3>1. mem = Put(none, Layout, v)
      BY <1>2, <2>7
    <3>2. v[o] = Sector(i, x)
      BY <2>1, <2>3, InoutSequenceAssumption DEF Sectors
    <3> HIDE DEF none, v
    <3>3. Layout[o] \in DOMAIN Put(none, Layout, v) /\ Put(none, Layout, v)[Layout[o]] = v[o]
      BY <2>1, PutAt
    <3> QED
      BY <2>1, <3>1, <3>2, <3>3 DEF Holds
  <2> QED
    BY <1>3, <2>4, <2>6, <2>7 DEF InPlace, o
<1> QED
  BY <1>1, <1>5 DEF DataInv, AllInPlace

\* No step moves a request or turns a read into a write.
LEMMA RequestStays ==
  ASSUME SequenceInv, [Next]_vars
  PROVE  /\ UNCHANGED fixed /\ c'.read = c.read /\ (Pending' => Pending)
         /\ Len(request)' = Len(request)
         /\ \A i \in 1 .. Len(request) :
              /\ request[i]' = request[i]
              /\ \A x \in 1 .. request[i] :
                   /\ Address(i, x)' = Address(i, x) /\ Ordinal(i, x)' = Ordinal(i, x)
                   /\ Sector(i, x)' = Sector(i, x)
<1>1. UNCHANGED fixed
  BY DEF Next, vars, CommandFails, SubmitThrows, SetBlockCount, Transfer, StopTransfer, Ended
<1>2. c \in Cmds
  BY DEF SequenceInv
<1>3. ASSUME NEW s, Ended(s) PROVE c'.read = c.read
  <2>1. c' = HandleIrqInout(k, [c EXCEPT !.status = s]).cmd
    BY <1>3 DEF Ended
  <2>2. HandledSameWay(k, c)
    BY <1>2, HandlerKeepsWay
  <2> QED
    BY <2>1, <2>2 DEF HandledSameWay
<1>4. CASE UNCHANGED vars
  BY <1>1, <1>4 DEF vars, fixed, Pending, Address, Ordinal, Sector
<1>5. CASE Next
  <2>1. Pending
    BY <1>5 DEF Next, CommandFails, SubmitThrows, SetBlockCount, Transfer, StopTransfer
  <2>2. c'.read = c.read
    <3>1. c' = c \/ \E s : Ended(s)
      BY <1>5 DEF Next, CommandFails, SubmitThrows, SetBlockCount, Transfer, StopTransfer
    <3> QED
      BY <1>3, <3>1
  <2> QED
    BY <1>1, <2>1, <2>2 DEF fixed, Address, Ordinal, Sector
<1> QED
  BY <1>4, <1>5

LEMMA ApartStays ==
  ASSUME Placed, OwnApart, [Next]_vars
  PROVE  OwnApart'
<1>1. UNCHANGED fixed
  BY DEF Next, vars, CommandFails, SubmitThrows, SetBlockCount, Transfer, StopTransfer, Ended
<1> QED
  BY <1>1 DEF fixed, OwnApart, Address, BounceBuffer

\* A command that moves nothing leaves every sector in its place; its data phase may
\* fill the memory that it was given.
LEMMA FailureKeepsPlace ==
  ASSUME DataInv, CommandFails, NEW i \in 1 .. Len(request), NEW x \in 1 .. request[i]
  PROVE  InPlace(i, x)'
<1>1. SequenceInv /\ Placed /\ OwnApart /\ InPlace(i, x)
  BY DEF DataInv, AllInPlace
<1>2. /\ Address(i, x)' = Address(i, x) /\ Ordinal(i, x)' = Ordinal(i, x)
      /\ Sector(i, x)' = Sector(i, x) /\ c'.read = c.read
  BY <1>1, RequestStays DEF Next
<1>3. Pending /\ moved' = moved /\ disk' = disk
  BY DEF CommandFails
<1>4. PICK s : /\ s \in {"Cmd_timeout", "Cmd_error"} \cup
                         (IF c.hasData THEN {"Data_error"} ELSE {})
               /\ mem' \in {mem} \cup (IF s = "Data_error" /\ c.read THEN {Filled} ELSE {})
  BY DEF CommandFails
<1> DEFINE a == Address(i, x)
           o == Ordinal(i, x)
           sector == Sector(i, x)
<1>5. ASSUME o <= Len(moved) PROVE Holds(mem', a, sector) /\ Holds(disk', sector, sector)
  <2>1. Holds(mem, a, sector) /\ Holds(disk, sector, sector)
    BY <1>1, <1>5 DEF InPlace
  <2>2. CASE mem' # mem
    <3>1. c.hasData /\ mem' = Filled
      BY <1>4, <2>2
    <3>2. i < Current /\ (InCommand(i) => i \in Current .. Len(request))
      BY <1>1, <1>3, <1>5, <3>1, OrdinalAt
    <3>3. ~InCommand(i)
      <4>1. Current \in 1 .. Len(request)
        BY <1>1, <1>3, <3>1, CommandAt
      <4> QED
        BY <3>2, <4>1
    <3>4. a \in DOMAIN mem
      BY <2>1 DEF Holds
    <3>5. Has(Filled, a, mem, a)
      BY <1>1, <1>3, <3>1, <3>3, <3>4, FilledAt
    <3> QED
      BY <1>3, <2>1, <3>1, <3>5 DEF Holds, Has
  <2> QED
    BY <1>3, <2>1, <2>2
<1>6. IF c.read THEN Holds(disk', sector, sector) ELSE Holds(mem', a, sector)
  BY <1>1, <1>3, <1>4 DEF InPlace
<1> QED
  BY <1>2, <1>3, <1>5, <1>6 DEF InPlace

\* A data command brings its sectors into place.
LEMMA TransferKeepsPlace ==
  ASSUME DataInv, Transfer, NEW i \in 1 .. Len(request), NEW x \in 1 .. request[i]
  PROVE  InPlace(i, x)'
<1> DEFINE a == Address(i, x)
           o == Ordinal(i, x)
           sector == Sector(i, x)
           l == Len(moved)
<1>1. SequenceInv /\ Placed /\ OwnApart /\ InPlace(i, x)
  BY DEF DataInv, AllInPlace
<1>2. /\ Address(i, x)' = Address(i, x) /\ Ordinal(i, x)' = Ordinal(i, x)
      /\ Sector(i, x)' = Sector(i, x) /\ c'.read = c.read
  BY <1>1, RequestStays DEF Next
<1>3. /\ Pending /\ c.hasData
      /\ moved' = moved \o [y \in 1 .. c.nblk |-> c.arg + y - 1]
  BY DEF Transfer
<1>4. /\ Current \in 1 .. Len(request) /\ l \in Nat /\ c.nblk \in Nat
      /\ c.arg = FirstSector + l
  BY <1>1, <1>3, CommandAt
<1>5. Len(moved') = l + c.nblk
  <2>1. moved = Sectors(l)
    BY <1>1 DEF SequenceInv
  <2>2. /\ Sectors(l) \o [y \in 1 .. c.nblk |-> c.arg + y - 1] = Sectors(l + c.nblk)
        /\ Len(Sectors(l + c.nblk)) = l + c.nblk
    <3> HIDE DEF l
    <3> QED
      BY <1>4, MovedGoesOn
  <2> HIDE DEF l
  <2> QED
    BY <1>3, <2>1, <2>2
<1>6. /\ o <= l => i < Current
      /\ InCommand(i) => i \in Current .. Len(request)
      /\ l < o /\ o <= l + c.nblk => InCommand(i)
  BY <1>1, <1>3, OrdinalAt
<1>7. o \in Nat
  BY <1>1, OrdinalFacts
<1>8. /\ o <= l => Holds(mem, a, sector) /\ Holds(disk, sector, sector)
      /\ IF c.read THEN Holds(disk, sector, sector) ELSE Holds(mem, a, sector)
  BY <1>1, <1>3 DEF InPlace
<1>9. CASE c.read
  <2> DEFINE m == IF BounceRead THEN CopyOut(Filled, host, Blocks) ELSE Filled
  <2>1. mem' = m /\ disk' = disk
    BY <1>9 DEF Transfer
  <2>2. /\ InCommand(i) => Has(m, a, disk, sector)
        /\ i < Current /\ a \in DOMAIN mem => Has(m, a, mem, a)
    BY <1>1, <1>3, ReadArrives
  <2> HIDE DEF m, a, o, sector, l
  <2>3. ASSUME o <= l + c.nblk PROVE Holds(mem', a, sector)
    <3>1. CASE o <= l
      BY <1>6, <1>8, <2>1, <2>2, <3>1 DEF Holds, Has
    <3>2. CASE l < o
      BY <1>6, <1>8, <1>9, <2>1, <2>2, <2>3, <3>2 DEF Holds, Has
    <3> QED
      BY <1>4, <1>7, <3>1, <3>2
  <2>4. Holds(disk', sector, sector)
    BY <1>8, <1>9, <2>1
  <2> QED
    BY <1>2, <1>5, <1>9, <2>3, <2>4 DEF InPlace, a, o, sector
<1>10. CASE ~c.read
  <2> DEFINE m == CopyIn(k.adma2, mem, host, Blocks)
  <2>1. mem' = m /\ disk' = Stored(m)
    BY <1>10 DEF Transfer
  <2>2. Holds(mem, a, sector) /\ a \in DOMAIN mem
    BY <1>8, <1>10 DEF Holds
  <2>3. /\ Has(m, a, mem, a)
        /\ InCommand(i) => Has(m, Dma(Current, i, x), mem, a)
    BY <1>1, <1>3, <2>2, WriteReady
  <2>4. /\ InCommand(i) => Has(Stored(m), sector, m, Dma(Current, i, x))
        /\ o <= l /\ sector \in DOMAIN disk => Has(Stored(m), sector, disk, sector)
    <3> HIDE DEF m
    <3> QED
      BY <1>1, <1>3, StoredAt
  <2> HIDE DEF m, a, o, sector, l
  <2>5. Holds(mem', a, sector)
    BY <2>1, <2>2, <2>3 DEF Holds, Has
  <2>6. ASSUME o <= l + c.nblk PROVE Holds(disk', sector, sector)
    <3>1. CASE o <= l
      BY <1>8, <2>1, <2>4, <3>1 DEF Holds, Has
    <3>2. CASE l < o
      BY <1>6, <2>1, <2>2, <2>3, <2>4, <2>6, <3>2 DEF Holds, Has
    <3> QED
      BY <1>4, <1>7, <3>1, <3>2
  <2> QED
    BY <1>2, <1>5, <1>10, <2>5, <2>6 DEF InPlace, a, o, sector
<1> QED
  BY <1>9, <1>10

LEMMA DataInvStays == DataInv /\ [Next]_vars => DataInv'
<1> SUFFICES ASSUME DataInv, [Next]_vars PROVE DataInv'
  OBVIOUS
<1>1. SequenceInv' /\ Placed' /\ OwnApart'
  BY NextKeepsSequenceInv, PlacedStays, ApartStays DEF DataInv
<1>2. /\ Len(request)' = Len(request)
      /\ \A i \in 1 .. Len(request) : request[i]' = request[i]
  BY RequestStays DEF DataInv
<1>3. ASSUME NEW i \in 1 .. Len(request), NEW x \in 1 .. request[i] PROVE InPlace(i, x)'
  <2>1. CASE CommandFails
    BY <2>1, FailureKeepsPlace
  <2>2. CASE Transfer
    BY <2>2, TransferKeepsPlace
  <2>3. CASE mem' = mem /\ disk' = disk /\ moved' = moved
    <3>1. /\ Address(i, x)' = Address(i, x) /\ Ordinal(i, x)' = Ordinal(i, x)
          /\ Sector(i, x)' = Sector(i, x) /\ c'.read = c.read /\ (Pending' => Pending)
      BY RequestStays DEF DataInv
    <3>2. InPlace(i, x)
      BY DEF DataInv, AllInPlace
    <3> QED
      BY <2>3, <3>1, <3>2 DEF InPlace
  <2> QED
    BY <2>1, <2>2, <2>3 DEF Next, vars, SubmitThrows, SetBlockCount, StopTransfer
<1>4. AllInPlace'
  BY <1>2, <1>3 DEF AllInPlace
<1> QED
  BY <1>1, <1>4 DEF DataInv

\* A request that is answered with L4_EOK has moved all its sectors: each is in the
\* memory of its block and on the medium, with ADMA2 or SDMA, bounced or not, for blocks,
\* descriptors and a bounce buffer of any size.
THEOREM DataAlwaysArrives ==
  ASSUME PlacesApart
  PROVE  Spec => []DataArrives
<1>1. Init => DataInv
  BY InitDataInv
<1>2. ASSUME DataInv PROVE DataArrives
  <2>1. SequenceInv /\ Placed /\ OwnApart
    BY <1>2 DEF DataInv
  <2>2. ASSUME answer.reply = "ok", NEW p \in DOMAIN Layout
        PROVE  mem[Layout[p]] = FirstSector + p - 1
               /\ disk[FirstSector + p - 1] = FirstSector + p - 1
    <3>1. p \in 1 .. Len(Layout)
      BY <2>1, LayoutAt
    <3>2. PICK i \in 1 .. Len(request) : \E x \in 1 .. request[i] : p = Ordinal(i, x)
      BY <2>1, <3>1, LayoutAt
    <3>3. PICK x \in 1 .. request[i] : p = Ordinal(i, x)
      BY <3>2
    <3>4. Layout[p] = Address(i, x)
      BY <2>1, <3>3, LayoutAt
    <3>5. Ordinal(i, x) <= Len(moved)
      <4>1. Len(moved) = NumSectors(request)
        BY <2>1, <2>2 DEF SequenceInv, Pending, Answered
      <4> QED
        BY <2>1, <4>1, OrdinalFacts
    <3>6. Holds(mem, Address(i, x), Sector(i, x)) /\ Holds(disk, Sector(i, x), Sector(i, x))
      BY <1>2, <3>5 DEF DataInv, AllInPlace, InPlace
    <3>7. Sector(i, x) = FirstSector + p - 1
      BY <3>1, <3>3, InoutSequenceAssumption DEF Sector
    <3> QED
      BY <3>4, <3>6, <3>7 DEF Holds
  <2> QED
    BY <2>2 DEF DataArrives
<1>3. DataInv /\ [Next]_vars => DataInv'
  BY DataInvStays
<1> QED
  BY <1>1, <1>2, <1>3, PTL DEF Spec
=============================================================================
