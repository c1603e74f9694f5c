------------------------------ MODULE HostModes ------------------------------
(***************************************************************************)
(* The bus side of the controllers: clock, timing, bus width, signal       *)
(* voltage and tuning, as class Sdhci (drv_sdhci-impl.h) and class Sdhi    *)
(* (drv_sdhi.cc) program them while a card is initialized.                 *)
(*                                                                         *)
(* A driver d is the template parameter TYPE of Sdhci, or Sdhi, with the   *)
(* base clock and the capabilities of its controller; a host h is what its *)
(* registers hold.  Each operator is one method: it takes the host and     *)
(* returns it changed.  Frequencies are in Hz.                             *)
(***************************************************************************)
EXTENDS Naturals, FiniteSetsExt

KHz == 1000
MHz == 1000 * KHz

\* Mmc::Timing.
UhsTimings == {"uhs_sdr12", "uhs_sdr25", "uhs_sdr50", "uhs_sdr104", "uhs_ddr50"}
Timings == {"legacy", "hs", "mmc_ddr52", "mmc_hs200", "mmc_hs400"} \cup UhsTimings
DdrTimings == {"mmc_hs400", "mmc_ddr52", "uhs_ddr50"}

Types == {"Plain", "Usdhc", "Iproc", "Bcm2711", "Sdhi"}
SdStandard == {"Iproc", "Bcm2711"}     \* SD Host Controller Specification 3.00

\* Capabilities: sdr50_support, sdr104_support, ddr50_support, use_tuning_sdr50.
Capabilities == {"sdr50", "sdr104", "ddr50", "tune_sdr50"}

\* A clock is an l4_uint32_t: no divider needs more than its range to get it down
\* to the 25 MHz every card takes.
Drivers == [type : Types, clock : {c \in Nat \ {0} : c \div 512 <= 25 * MHz},
            caps : SUBSET Capabilities]

\* After Sdhci::init(): nothing but the reset values.
ResetHost ==
  [freq |-> 0,          \* frequency on the bus, 0 while the clock is gated
   ddr_active |-> FALSE,
   hispd |-> FALSE,     \* Reg_host_ctrl
   uhsmode |-> 0,       \* Reg_host_ctrl2
   mix |-> {},          \* Reg_mix_ctrl: ddr_en, hs400_mo, en_hs400_mo, auto_tune_en
   width |-> 1,         \* Reg_prot_ctrl::dtw, Reg_host_ctrl
   volt |-> 330,        \* Reg_vend_spec::vselect, Reg_host_ctrl2::v18
   tuned |-> "none"]    \* smp_clk_sel, tuned: the timing the clock is tuned in

BusWidths == {1, 4, 8}
SignalVoltages == {180, 330}           \* in 10 mV
UhsModes == 0 .. 5
MixBits == {"ddr_en", "hs400_mo", "en_hs400_mo", "auto_tune_en"}
Hosts ==
  [freq : Nat, ddr_active : BOOLEAN, hispd : BOOLEAN, uhsmode : UhsModes,
   mix : SUBSET MixBits, width : BusWidths, volt : SignalVoltages,
   tuned : Timings \cup {"none"}]

\* Whether the controller samples data on both edges, and strobed.
SamplesDdr(d, h) ==
  IF d.type = "Usdhc" THEN "ddr_en" \in h.mix
  ELSE d.type \in SdStandard /\ h.uhsmode \in {4, 5}
SamplesStrobed(h) == "en_hs400_mo" \in h.mix

-----------------------------------------------------------------------------
(* Clock.                                                                  *)

\* Sdhci::set_clock(), uSDHC: a power of two up to 256, then a divisor up to
\* 16, the first that do; in DDR mode the controller divides by two more.
Prescalers == {1, 2, 4, 8, 16, 32, 64, 128, 256}
UsdhcDivider_OffByOne(clock, freq, ddr) ==
  LET half == IF ddr THEN 2 ELSE 1
      pre == Min({p \in Prescalers : clock \div (16 * p * half) <= freq} \cup {256})
  IN  pre * half * Min({v \in 1 .. 16 : clock \div ((v + 1) * pre * half) <= freq}
                         \cup {16})
UsdhcDivider(clock, freq, ddr) ==
  LET half == IF ddr THEN 2 ELSE 1
      pre == Min({p \in Prescalers : clock \div (16 * p * half) <= freq} \cup {256})
  IN  pre * half * Min({v \in 1 .. 16 : clock \div (v * pre * half) <= freq}
                         \cup {16})

\* SD 3.00: 1 or the first even divisor below 2046 that does.
SdDivider(clock, freq) ==
  IF clock <= freq THEN 1
  ELSE 2 * Min({clock \div (2 * (freq + 1)) + 1, 1023})

\* Sdhi::set_clock(): the clock, or the first power of two from 2 to 512 that does.
SdhiDivider(clock, freq) ==
  IF freq >= clock THEN 1
  ELSE Min({p \in {2, 4, 8, 16, 32, 64, 128, 256, 512} : clock \div p <= freq} \cup {512})

BusFrequency(d, freq, ddr) ==
  d.clock \div (IF d.type \in SdStandard THEN SdDivider(d.clock, freq)
                ELSE IF d.type = "Sdhi" THEN SdhiDivider(d.clock, freq)
                ELSE UsdhcDivider(d.clock, freq, ddr))

\* Sdhci::reset_tuning(), ::enable_auto_tuning().
ResetTuning(d, h) ==
  IF d.type = "Usdhc" THEN [h EXCEPT !.mix = @ \ {"auto_tune_en"}, !.tuned = "none"]
  ELSE h
EnableAutoTuning(d, h) ==
  IF d.type = "Usdhc" THEN [h EXCEPT !.mix = @ \cup {"auto_tune_en"}] ELSE h

\* Sdhci::set_clock_and_timing(), the part for controllers of the SD standard.
UhsMode(timing) ==
  CASE timing \in {"mmc_hs200", "uhs_sdr104"} -> 3
    [] timing = "uhs_sdr25" -> 1
    [] timing = "uhs_sdr50" -> 2
    [] timing \in {"uhs_ddr50", "mmc_ddr52"} -> 4
    [] timing = "mmc_hs400" -> 5
    [] OTHER -> 0
SetSdTiming(d, h, timing) ==
  IF d.type \in SdStandard
  THEN [h EXCEPT !.hispd = timing \notin {"legacy", "uhs_sdr12"},
                 !.uhsmode = UhsMode(timing)]
  ELSE h

\* ... and for the uSDHC, through Reg_mix_ctrl and the strobe DLL.
SetMixCtrl(d, h, timing, strobe) ==
  IF d.type # "Usdhc" THEN h
  ELSE LET mode == IF timing = "mmc_hs400"
                   THEN {"ddr_en", "hs400_mo"}
                          \cup (IF strobe THEN {"en_hs400_mo"} ELSE {})
                   ELSE IF timing \in DdrTimings THEN {"ddr_en"} ELSE {}
           kept == IF timing = "legacy" THEN ResetTuning(d, h) ELSE h
       IN  [kept EXCEPT !.mix = (h.mix \cap {"auto_tune_en"}) \cup mode]

\* Sdhci::set_clock_and_timing().  The uSDHC keeps its timing without a clock, and
\* the SDHI has but one timing.
\* In legacy timing the mixer control read before reset_tuning() is written
\* after it: automatic tuning stays enabled.
SetClockAndTiming(d, h, freq, timing, strobe) ==
  IF freq = 0 /\ d.type \in {"Usdhc", "Sdhi"} THEN [h EXCEPT !.freq = 0]
  ELSE IF d.type = "Sdhi" THEN [h EXCEPT !.freq = BusFrequency(d, freq, FALSE)]
  ELSE LET ddr == timing \in DdrTimings
           timed == [SetSdTiming(d, h, timing) EXCEPT !.ddr_active = ddr]
       IN  IF freq = 0 THEN [timed EXCEPT !.freq = 0]
           ELSE [SetMixCtrl(d, timed, timing, strobe) EXCEPT
                   !.freq = BusFrequency(d, freq, ddr)]

\* Sdhci::set_bus_width() and ::set_voltage().
SetBusWidth(h, width) == [h EXCEPT !.width = width]
SetVoltage(d, h, volt) ==
  IF d.type \in {"Plain", "Sdhi"} THEN h ELSE [h EXCEPT !.volt = volt]

\* The signal voltage has changed to 1.8 V: power_up_sd() sets the host up.
SwitchTo18(d, h) ==
  LET gated == SetClockAndTiming(d, h, 0, "legacy", FALSE)
  IN  SetClockAndTiming(d, SetVoltage(d, gated, 180), 400 * KHz, "uhs_sdr12", FALSE)

-----------------------------------------------------------------------------
(* What the controller can do.                                             *)

\* supp_uhs_timings(): some of these timings is supported, none by the SDHI.
SuppUhsTimings(d, timings) ==
  /\ d.type # "Sdhi"
  /\ \/ timings \cap {"uhs_sdr12", "uhs_sdr25"} # {}
     \/ "uhs_sdr50" \in timings /\ "sdr50" \in d.caps
     \/ "uhs_sdr104" \in timings /\ "sdr104" \in d.caps
     \/ "uhs_ddr50" \in timings /\ "ddr50" \in d.caps

NeedsTuningSdr50(d) == "tune_sdr50" \in d.caps

\* Sdhci::supp_power_limit(): 0.72, 1.44, 2.16 and 2.88 W, never 1.80 W.
SuppPowerLimit(limit) == limit \in {72, 144, 216, 288}

\* Sdhci::cmd_submit_handle_tuning(): the sample clock is selected anew.
StartTuning(d, h) ==
  IF d.type \in {"Plain", "Sdhi"} THEN h ELSE [EnableAutoTuning(d, h) EXCEPT !.tuned = "none"]

\* Sdhi::tuning_finished() never tells of a success.
CanTune(d) == d.type # "Sdhi"

\* The controller has tuned its sample clock (smp_clk_sel, tuned).
Tuned(h, timing) == [h EXCEPT !.tuned = timing]
=============================================================================
