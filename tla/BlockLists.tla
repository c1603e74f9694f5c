----------------------------- MODULE BlockLists -----------------------------
(***************************************************************************)
(* Block lists, as the loops of Device and of Sdhci over the blocks of a   *)
(* request see them: sequences of numbers of sectors.                      *)
(***************************************************************************)
EXTENDS Integers, Sequences

\* The sectors of the first blocks of a list, by their number.
SectorSums(blocks) ==
  LET sum[i \in 0 .. Len(blocks)] == IF i = 0 THEN 0 ELSE sum[i - 1] + blocks[i]
  IN  sum
=============================================================================
