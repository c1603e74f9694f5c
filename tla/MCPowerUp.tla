------------------------------ MODULE MCPowerUp ------------------------------
(***************************************************************************)
(* Instances of PowerUp.                                                   *)
(***************************************************************************)
EXTENDS PowerUp

Sd(modes, limits, s18, wide) ==
  [kind |-> "sd", modes |-> modes, limits |-> limits, s18 |-> s18, wide |-> wide,
   strobe |-> FALSE, cache |-> FALSE]
Mmc(modes, strobe, cache) ==
  [kind |-> "mmc", modes |-> modes, limits |-> {}, s18 |-> FALSE, wide |-> TRUE,
   strobe |-> strobe, cache |-> cache]

UsdhcDrv(caps) == [type |-> "Usdhc", clock |-> 396 * MHz, caps |-> caps]
BcmDrv(caps) == [type |-> "Bcm2711", clock |-> 100 * MHz, caps |-> caps]
PlainDrv == [type |-> "Plain", clock |-> 200 * MHz, caps |-> {}]
SdhiDrv == [type |-> "Sdhi", clock |-> 200 * MHz, caps |-> {}]

\* SD cards: all access modes, no SDR104, no DDR50, no UHS at all.
SdInstances ==
  {Sd(SdModes, {72, 144}, TRUE, TRUE), Sd({"sdr12", "sdr25", "sdr50"}, {72}, TRUE, TRUE),
   Sd({"sdr12", "sdr25"}, {72}, FALSE, FALSE)}
\* Cards of all speeds; a card with strobe has HS400.
MmcInstances ==
  {Mmc(MmcTypes, TRUE, TRUE), Mmc(MmcTypes, FALSE, FALSE),
   Mmc({"hs26", "hs52", "hs200"}, FALSE, TRUE), Mmc({"hs26", "hs52"}, FALSE, FALSE)}

AllCaps == {"sdr50", "sdr104", "ddr50", "tune_sdr50"}
DriverInstances ==
  {UsdhcDrv(AllCaps), UsdhcDrv({"sdr50", "ddr50"}), BcmDrv(AllCaps \ {"ddr50"}),
   PlainDrv, SdhiDrv}

\* HS400 goes through HS200: both are disabled, or HS400 alone.  Only the uSDHC
\* has the enhanced strobe.
MCBoards ==
  {b \in [drv : DriverInstances, card : SdInstances,
          disable : {{}, {"uhs_sdr104"}, {"uhs_ddr50", "uhs_sdr25"}}]
       \cup [drv : DriverInstances, card : MmcInstances,
             disable : {{}, {"hs400"}, {"hs400", "hs200"}}] :
     b.card.strobe => b.drv.type = "Usdhc"}

\* The hypotheses of the theorems about PowerUp hold of these boards.
ASSUME MCPowerUpAssumption == Hs400ThroughHs200 /\ StrobeHonoured /\ SomeModeLeft
=============================================================================
