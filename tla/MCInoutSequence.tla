--------------------------- MODULE MCInoutSequence ---------------------------
EXTENDS InoutSequence

\* Usdhc/Iproc/Bcm2711 and Sdhci Plain (ADMA2), Sdhi (SDMA); MMC and SD cards
\* with and without CMD23.
MCDrivers == {t \in Traits : t.autoCmd23 => t.adma2}

\* The DMA reaches addresses up to 20.  The bounce buffer, if there is one, starts
\* at 11 and holds what the controller moves at once, or more than that.  All
\* numbers of segments from one to three.
MCHosts ==
  {[maxSeg |-> s, limit |-> 20, maxAddr |-> 40, bbAddr |-> 11, bbSize |-> b] :
     s \in 1 .. 3, b \in {0, 7, 9}}

\* Up to three blocks, the first one not empty: one of up to 8 sectors, two of up
\* to 3, three of up to 2.
MCRequests ==
  {b \in [1 .. 1 -> 0 .. 8] \cup [1 .. 2 -> 0 .. 3] \cup [1 .. 3 -> 0 .. 2] : b[1] # 0}

\* Each block below the limit or beyond it, in this or another order; the first one
\* also across it.
MCPlaces ==
  {p \in [1 .. 3 -> {0, 4, 8, 20, 22, 26, 30}] :
     /\ p[1] \in {0, 20, 22} /\ p[2] \in {4, 26} /\ p[3] \in {0, 8, 30}
     /\ p[1] # p[3]}
MCMemory == 0 .. 33

\* Under which AdmittedFits and DataArrives are proved for all requests.
ASSUME MCInoutSequenceAssumption == DescriptorsSuffice /\ PlacesApart
=============================================================================
