------------------------------ MODULE MCDmaMap ------------------------------
(***************************************************************************)
(* Instance of DmaMap: the disk and one partition, two dataspaces.         *)
(***************************************************************************)
EXTENDS DmaMap, TLC

CONSTANTS b1, b2, b3, disk, part

\* Distinct memory for each region; and one memory behind two dataspaces, as
\* when a client hands its memory to two block devices.
TwoRegions == {<<"ds1", 0>>, <<"ds2", 0>>}
NotShared == [g \in TwoRegions |-> IF g[1] = "ds1" THEN "p1" ELSE "p2"]
OneAddress == [g \in TwoRegions |-> "p1"]
AnyMemory == {NotShared, OneAddress}
TwoAddresses == {"p1", "p2"}

\* Blocks are only compared with each other, and so are block devices.
Symmetry == Permutations({b1, b2, b3}) \cup Permutations({disk, part})
=============================================================================
