---------------------------- MODULE PowerUpProofs ----------------------------
(***************************************************************************)
(* Proofs about PowerUp: which command the initialization is at, and what  *)
(* controller, card and Device have agreed on by then, is an inductive     *)
(* invariant in parts, and the safety properties of PowerUp follow.        *)
(***************************************************************************)
EXTENDS PowerUp, WellFoundedInduction, TLAPS

-----------------------------------------------------------------------------
(* The commands, in groups.                                                *)

Scans == {"start", "go_idle", "if_cond", "sd_probe"}
SdUnswitched == {"sd_idle", "sd_op_cond", "sd_voltage"}
SdIdentifies == {"sd_cid", "sd_rca", "sd_csd", "sd_select", "sd_scr", "sd_status", "sd_check"}
SdChosen == {"sd_width", "sd_power", "sd_mode"}
SdStages == SdUnswitched \cup SdIdentifies \cup {"sd_choose"} \cup SdChosen \cup {"sd_tune"}

MmcIdentifies ==
  {"mmc_idle", "mmc_op_cond", "mmc_cid", "mmc_rca", "mmc_csd", "mmc_select", "mmc_ext_csd"}
MmcSettles == Settings \cup {"block_length"}
MmcEnters == {"hs400_prepare", "hs400_width", "hs400"}
MmcAttempts == {"width", "timing", "tune"} \cup MmcEnters
MmcStages == MmcIdentifies \cup MmcSettles \cup {"mmc_choose"} \cup MmcAttempts

Stages == Scans \cup SdStages \cup {"mmc_probe"} \cup MmcStages \cup {"up", "failed"}
Phases == {"command", "status", "confirm", "check"}

\* The bus is as slow as it was at the start.
Early ==
  Scans \cup {"mmc_probe"} \cup (SdStages \ {"sd_tune"}) \cup MmcIdentifies

-----------------------------------------------------------------------------
(* The invariant.                                                          *)

IsSd == card.is.kind = "sd"
SetsVoltage == drv.type \notin {"Plain", "Sdhi"}
Allowed == card.is.modes \ dev.disable

\* Driver and card are those of a board; only an SD card loses modes on the way.
OnBoard ==
  \E b \in Boards :
    drv = b.drv /\ card.is = b.card /\ (~IsSd => dev.disable = b.disable)

\* Where the thread can be with which card.
Control ==
  /\ stage \in Stages /\ phase \in Phases
  /\ phase # "command" => stage \in Switches
  /\ phase \in {"confirm", "check"} => stage \in TimingSteps
  /\ stage \in SdStages => IsSd
  /\ stage \in MmcStages => ~IsSd

\* Every loop is left in time.
Loops ==
  /\ stage \in Scans => dev.tries \in {0, 1}
  /\ stage \in SdUnswitched => dev.tries < MaxVoltTries
  /\ stage = "mmc_cid" => dev.tries < 5
  /\ stage \in {"sd_op_cond", "mmc_op_cond"} => dev.polls < MaxTries
  /\ stage \in {"sd_tune", "tune"} => dev.polls < MaxTunings
  /\ phase = "status" => dev.polls < MaxPolls

\* As long as the bus is slow the driver samples no DDR.
Slow == stage \in Early => ~SamplesDdr(drv, host) /\ host.freq <= 25 * MHz

\* An SD card sends DDR in its mode only, and is in it early only after a fault.
SdData ==
  /\ IsSd \/ stage \in Early => host.width = card.width
  /\ stage \in Scans \cup {"mmc_probe"} \cup MmcIdentifies => host.width = 1
  /\ IsSd \/ stage \in Early => ~card.ddr /\ ~card.strobed
  /\ IsSd /\ stage \in Early /\ ~dev.fault => card.mode # "ddr50"
  /\ stage \in SdChosen => dev.timing = Fastest.timing
  /\ stage = "sd_tune" => NeedsTuning(dev.timing) /\ dev.timing \in UhsTimings
  /\ dev.sf.invalid = {}
  /\ ~IsSd => dev.timing = "legacy"

\* The voltage: a controller that can switch has followed an SD card in the end.
SdVolt ==
  IsSd =>
    /\ stage \in Scans \cup SdUnswitched => ~dev.v18
    /\ card.volt = 180 \/ stage = "sd_voltage" => card.is.s18
    /\ SetsVoltage =>
         /\ dev.v18 => host.volt = 180 /\ card.volt = 180
         /\ ~dev.v18 => host.volt = 330
    /\ SetsVoltage /\ stage \in {"sd_choose", "sd_tune", "up"} \cup SdChosen =>
         host.volt = card.volt

\* An SD card that is up is in agreement, and tuned.
SdUp ==
  stage = "up" /\ IsSd =>
    /\ SamplesDdr(drv, host) <=> SendsDdr(card)
    /\ NeedsTuning(dev.timing) => host.tuned = dev.timing

\* The modes of an eMMC card: what is allowed, what is left and what has failed.
MmcModes ==
  /\ IsSd \/ stage \in Early => dev.test = {}
  /\ stage \in MmcSettles \/ (stage = "mmc_choose" /\ ~dev.fault) =>
       dev.test = {} /\ dev.restricted = Allowed
  /\ stage \in MmcSettles \cup MmcAttempts \cup {"mmc_choose"} =>
       dev.restricted \subseteq Allowed /\ dev.strobe = card.is.strobe
  /\ "hs200" \in dev.test => "hs400" \in dev.test
  /\ stage \in MmcAttempts =>
       /\ Ranks(dev.restricted) # {}
       /\ dev.test = IF stage \in MmcEnters THEN Chosen.test \ {"hs200"} ELSE Chosen.test
  /\ stage \in MmcEnters => Hs400
  /\ stage = "tune" => Chosen.type = "hs200"

\* A switch of the timing that is not refused was made.
MmcTimed ==
  /\ stage \in TimingSteps /\ phase # "command" =>
       card.refused \/ card.mode = NewTiming.hs
  /\ phase \in {"confirm", "check"} =>
       /\ ~card.refused
       /\ host.freq <= NewTiming.freq \/ host.freq <= 25 * MHz

MmcUp == stage = "up" /\ ~IsSd => DataFits

\* The rest of what holds of eMMC cards takes boards used as they are meant to be.
\* No failure costs a mode that was not tried.
MmcFailed ==
  Hs400ThroughHs200 /\ ~IsSd =>
    /\ stage \in MmcSettles \cup MmcAttempts \cup {"mmc_choose"} =>
         /\ Allowed \ dev.restricted \subseteq dev.failed
         /\ "hs400" \in dev.restricted => "hs200" \in dev.restricted
    /\ stage = "mmc_choose" => dev.test \subseteq dev.failed
    /\ stage = "up" => NoModeSkipped

\* A card that sends DDR on its way to HS400 strobes it.
StrobeFits(c) ==
  Hs400ThroughHs200 /\ StrobeHonoured /\ dev.strobe /\ Hs400 /\ c.ddr => c.strobed

\* The clock of HS200 is tuned, and stays so until HS400; or the card strobes.
MmcTuned ==
  Hs400ThroughHs200 /\ StrobeHonoured /\ ~IsSd =>
    /\ stage \in MmcEnters /\ ~dev.strobe => host.tuned = "mmc_hs200"
    /\ stage \in MmcSettles \cup MmcAttempts \cup {"mmc_choose"} => StrobeFits(card)
    /\ stage = "hs400" /\ phase \in {"confirm", "check"} /\ dev.strobe =>
         SamplesDdr(drv, host) /\ SamplesStrobed(host)
    /\ stage = "up" => TunedWhenUp

PowerUpInv ==
  /\ CardTypeOK /\ OnBoard /\ Control /\ Loops /\ Slow /\ SdData /\ SdVolt /\ SdUp
  /\ MmcModes /\ MmcTimed /\ MmcUp /\ MmcFailed /\ MmcTuned

-----------------------------------------------------------------------------
(* The clock.                                                              *)

\* The least element of a set of a few numbers.
LEMMA MinOfSome ==
  ASSUME NEW S, NEW m \in S, \A x \in S : x \in Nat, \A x \in S : m <= x
  PROVE  Min(S) = m
<1>1. \A x \in S : (\A y \in S : x <= y) => x = m
  OBVIOUS
<1>2. (CHOOSE x \in S : \A y \in S : x <= y) = m
  BY <1>1
<1> QED
  BY <1>2 DEF Min

LEMMA MinOfNats ==
  ASSUME NEW S, S # {}, S \subseteq Nat
  PROVE  Min(S) \in S /\ \A x \in S : Min(S) <= x
<1> DEFINE Less == {p \in Nat \X Nat : p[1] < p[2]}
<1>1. IsWellFoundedOn(Less, Nat)
  BY NatLessThanWellFounded DEF OpToRel
<1> HIDE DEF Less
<1>2. \E m \in S : \A x \in S : ~(<<x, m>> \in Less)
  BY <1>1, WFMin
<1>3. PICK m \in S : \A x \in S : ~(<<x, m>> \in Less)
  BY <1>2
<1>4. ASSUME NEW x \in S PROVE m <= x
  <2>1. <<x, m>> \in Nat \X Nat /\ ~(<<x, m>> \in Less)
    BY <1>3
  <2>2. ~(x < m)
    BY <2>1 DEF Less
  <2> QED
    BY <2>2
<1>5. Min(S) = m
  BY <1>4, MinOfSome
<1> QED
  BY <1>4, <1>5

\* No controller runs faster than it was told to, but for the slowest it can.
LEMMA UsdhcDividerSlows ==
  ASSUME NEW c \in Nat, c \div 512 <= 25 * MHz, NEW f \in Nat, NEW ddr \in BOOLEAN
  PROVE  /\ UsdhcDivider(c, f, ddr) \in Nat \ {0}
         /\ \/ c \div UsdhcDivider(c, f, ddr) <= f
            \/ c \div UsdhcDivider(c, f, ddr) <= 25 * MHz
<1> DEFINE half == IF ddr THEN 2 ELSE 1
           Pre == {p \in Prescalers : c \div (16 * p * half) <= f} \cup {256}
           pre == Min(Pre)
           Fits == {v \in 1 .. 16 : c \div (v * pre * half) <= f}
           Div == Fits \cup {16}
           div == Min(Div)
<1>1. half \in {1, 2}
  OBVIOUS
<1>2. pre \in Pre /\ pre \in Prescalers
  BY MinOfNats DEF Prescalers
<1>3. div \in Div /\ div \in 1 .. 16
  <2>1. Fits \subseteq 1 .. 16
    BY Zenon
  <2> HIDE DEF Fits
  <2>2. Div # {} /\ Div \subseteq 1 .. 16 /\ Div \subseteq Nat
    BY <2>1
  <2> HIDE DEF Div
  <2> QED
    BY <2>2, MinOfNats
<1>4. UsdhcDivider(c, f, ddr) = pre * half * div
  BY DEF UsdhcDivider
<1>5. pre * half * div = div * pre * half
  <2> HIDE DEF half, pre, div
  <2> QED
    BY <1>1, <1>2, <1>3 DEF Prescalers
<1> HIDE DEF half
<1>6. CASE c \div (div * pre * half) <= f
  <2> HIDE DEF pre, div
  <2> QED
    BY <1>1, <1>2, <1>3, <1>4, <1>5, <1>6 DEF Prescalers
<1>7. CASE ~(c \div (div * pre * half) <= f)
  <2>1. div = 16
    BY <1>3, <1>7
  <2> HIDE DEF div
  <2>2. ~(c \div (16 * pre * half) <= f)
    BY <2>1, <1>7
  <2>3. pre = 256
    BY <1>2, <2>2
  <2> HIDE DEF pre
  <2>4. c \div (256 * half * 16) <= 25 * MHz
    BY <1>1 DEF MHz, KHz
  <2> QED
    BY <1>1, <1>4, <2>1, <2>3, <2>4
<1> QED
  BY <1>6, <1>7

LEMMA DivGoes ==
  ASSUME NEW c \in Nat, NEW d \in Nat \ {0}
  PROVE  c \div d \in Nat /\ c < d * (c \div d + 1)
  OBVIOUS

LEMMA DivBelow ==
  ASSUME NEW c \in Nat, NEW d \in Nat \ {0}, NEW f \in Nat, c < (f + 1) * d
  PROVE  c \div d <= f
  OBVIOUS

LEMMA SdDividerSlows ==
  ASSUME NEW c \in Nat, c \div 512 <= 25 * MHz, NEW f \in Nat
  PROVE  /\ SdDivider(c, f) \in Nat \ {0}
         /\ c \div SdDivider(c, f) <= f \/ c \div SdDivider(c, f) <= 25 * MHz
<1> DEFINE S == {c \div (2 * (f + 1)) + 1, 1023}
<1>1. CASE c <= f
  BY <1>1 DEF SdDivider
<1>2. CASE ~(c <= f)
  <2>1. S \subseteq Nat \ {0}
    BY DivGoes
  <2>2. Min(S) \in S
    BY <2>1, MinOfNats
  <2>3. SdDivider(c, f) = 2 * Min(S)
    BY <1>2 DEF SdDivider
  <2>4. CASE Min(S) = 1023
    BY <2>3, <2>4 DEF MHz, KHz
  <2>5. CASE Min(S) = c \div (2 * (f + 1)) + 1
    <3> DEFINE q == c \div (2 * (f + 1))
    <3>1. q \in Nat /\ c < (2 * (f + 1)) * (q + 1)
      <4>1. 2 * (f + 1) \in Nat \ {0}
        OBVIOUS
      <4> QED
        BY <4>1, DivGoes
    <3> HIDE DEF q
    <3>2. 2 * (q + 1) \in Nat \ {0} /\ c < (f + 1) * (2 * (q + 1))
      BY <3>1
    <3>3. c \div (2 * (q + 1)) <= f
      BY <3>2, DivBelow
    <3> QED
      BY <2>3, <2>5, <3>1, <3>3 DEF q
  <2> QED
    BY <2>2, <2>4, <2>5
<1> QED
  BY <1>1, <1>2

LEMMA SdhiDividerSlows ==
  ASSUME NEW c \in Nat, c \div 512 <= 25 * MHz, NEW f \in Nat
  PROVE  /\ SdhiDivider(c, f) \in Nat \ {0}
         /\ c \div SdhiDivider(c, f) <= f \/ c \div SdhiDivider(c, f) <= 25 * MHz
<1> DEFINE S == {p \in {2, 4, 8, 16, 32, 64, 128, 256, 512} : c \div p <= f} \cup {512}
<1>1. CASE f >= c
  BY <1>1 DEF SdhiDivider
<1>2. CASE ~(f >= c)
  <2>1. Min(S) \in S
    BY MinOfNats
  <2>2. SdhiDivider(c, f) = Min(S)
    BY <1>2 DEF SdhiDivider
  <2> QED
    BY <2>1, <2>2
<1> QED
  BY <1>1, <1>2

LEMMA BusSlows ==
  ASSUME NEW d \in Drivers, NEW f \in Nat, NEW ddr \in BOOLEAN
  PROVE  /\ BusFrequency(d, f, ddr) \in Nat
         /\ BusFrequency(d, f, ddr) <= f \/ BusFrequency(d, f, ddr) <= 25 * MHz
<1>1. d.clock \in Nat /\ d.clock \div 512 <= 25 * MHz
  BY DEF Drivers
<1>2. CASE d.type \in SdStandard
  <2>1. BusFrequency(d, f, ddr) = d.clock \div SdDivider(d.clock, f)
    BY <1>2 DEF BusFrequency
  <2>2. /\ SdDivider(d.clock, f) \in Nat \ {0}
        /\ \/ d.clock \div SdDivider(d.clock, f) <= f
           \/ d.clock \div SdDivider(d.clock, f) <= 25 * MHz
    BY <1>1, SdDividerSlows
  <2>3. d.clock \div SdDivider(d.clock, f) \in Nat
    BY <1>1, <2>2, DivGoes
  <2> QED
    BY <2>1, <2>2, <2>3
<1>3. CASE d.type = "Sdhi"
  <2>1. BusFrequency(d, f, ddr) = d.clock \div SdhiDivider(d.clock, f)
    BY <1>3 DEF BusFrequency, SdStandard
  <2>2. /\ SdhiDivider(d.clock, f) \in Nat \ {0}
        /\ \/ d.clock \div SdhiDivider(d.clock, f) <= f
           \/ d.clock \div SdhiDivider(d.clock, f) <= 25 * MHz
    BY <1>1, SdhiDividerSlows
  <2>3. d.clock \div SdhiDivider(d.clock, f) \in Nat
    BY <1>1, <2>2, DivGoes
  <2> QED
    BY <2>1, <2>2, <2>3
<1>4. CASE d.type \notin SdStandard /\ d.type # "Sdhi"
  <2>1. BusFrequency(d, f, ddr) = d.clock \div UsdhcDivider(d.clock, f, ddr)
    BY <1>4 DEF BusFrequency
  <2>2. /\ UsdhcDivider(d.clock, f, ddr) \in Nat \ {0}
        /\ \/ d.clock \div UsdhcDivider(d.clock, f, ddr) <= f
           \/ d.clock \div UsdhcDivider(d.clock, f, ddr) <= 25 * MHz
    BY <1>1, UsdhcDividerSlows
  <2>3. d.clock \div UsdhcDivider(d.clock, f, ddr) \in Nat
    BY <1>1, <2>2, DivGoes
  <2> QED
    BY <2>1, <2>2, <2>3
<1> QED
  BY <1>2, <1>3, <1>4

-----------------------------------------------------------------------------
(* The bus registers.                                                      *)

MaySampleDdr(d) == d.type = "Usdhc" \/ d.type \in SdStandard

\* The timing of controllers of the SD standard is in uhsmode.
LEMMA SdTimingSet ==
  ASSUME NEW d \in Drivers, NEW h \in Hosts, NEW t \in Timings
  PROVE  /\ SetSdTiming(d, h, t) \in Hosts
         /\ SetSdTiming(d, h, t).width = h.width /\ SetSdTiming(d, h, t).volt = h.volt
         /\ SetSdTiming(d, h, t).tuned = h.tuned
         /\ d.type \in SdStandard =>
              (SetSdTiming(d, h, t).uhsmode \in {4, 5} <=> t \in DdrTimings)
<1> DEFINE fast == t \notin {"legacy", "uhs_sdr12"}
<1>1. UhsMode(t) \in UhsModes /\ (UhsMode(t) \in {4, 5} <=> t \in DdrTimings)
  BY DEF UhsMode, UhsModes, DdrTimings, Timings, UhsTimings
<1>2. fast \in BOOLEAN
  OBVIOUS
<1>3. SetSdTiming(d, h, t) =
        IF d.type \in SdStandard THEN [h EXCEPT !.hispd = fast, !.uhsmode = UhsMode(t)] ELSE h
  BY DEF SetSdTiming
<1> HIDE DEF fast
<1> QED
  BY <1>1, <1>2, <1>3 DEF Hosts

\* ... that of the uSDHC in the mixer control.
LEMMA MixCtrlSet ==
  ASSUME NEW d \in Drivers, NEW h \in Hosts, NEW t \in Timings, NEW s
  PROVE  /\ SetMixCtrl(d, h, t, s) \in Hosts
         /\ SetMixCtrl(d, h, t, s).width = h.width /\ SetMixCtrl(d, h, t, s).volt = h.volt
         /\ SetMixCtrl(d, h, t, s).uhsmode = h.uhsmode
         /\ t # "legacy" => SetMixCtrl(d, h, t, s).tuned = h.tuned
         /\ d.type = "Usdhc" =>
              /\ "ddr_en" \in SetMixCtrl(d, h, t, s).mix <=> t \in DdrTimings
              /\ t = "mmc_hs400" /\ s = TRUE => "en_hs400_mo" \in SetMixCtrl(d, h, t, s).mix
<1>1. CASE d.type # "Usdhc"
  BY <1>1 DEF SetMixCtrl, Hosts
<1>2. CASE d.type = "Usdhc"
  <2> DEFINE mode == IF t = "mmc_hs400"
                     THEN {"ddr_en", "hs400_mo"} \cup (IF s THEN {"en_hs400_mo"} ELSE {})
                     ELSE IF t \in DdrTimings THEN {"ddr_en"} ELSE {}
             kept == IF t = "legacy" THEN ResetTuning(d, h) ELSE h
             mix == (h.mix \cap {"auto_tune_en"}) \cup mode
  <2>1. SetMixCtrl(d, h, t, s) = [kept EXCEPT !.mix = mix]
    BY <1>2 DEF SetMixCtrl
  <2>2. kept \in Hosts /\ (t # "legacy" => kept = h)
         /\ kept.width = h.width /\ kept.volt = h.volt /\ kept.uhsmode = h.uhsmode
    <3>1. kept = IF t = "legacy"
                 THEN [h EXCEPT !.mix = @ \ {"auto_tune_en"}, !.tuned = "none"] ELSE h
      BY <1>2 DEF ResetTuning
    <3> HIDE DEF kept
    <3>2. h.mix \ {"auto_tune_en"} \subseteq MixBits
      BY DEF Hosts
    <3> QED
      BY <3>1, <3>2 DEF Hosts
  <2>3. /\ mix \subseteq MixBits
        /\ "ddr_en" \in mix <=> t \in DdrTimings
        /\ t = "mmc_hs400" /\ s = TRUE => "en_hs400_mo" \in mix
    BY DEF DdrTimings, MixBits
  <2> HIDE DEF mix, kept
  <2> QED
    BY <2>1, <2>2, <2>3 DEF Hosts
<1> QED
  BY <1>1, <1>2

\* set_clock_and_timing(): what callers rely on.
Clocked(d, h, n, f, t) ==
  /\ n \in Hosts /\ n.width = h.width /\ n.volt = h.volt
  /\ n.freq <= f \/ n.freq <= 25 * MHz
  /\ t # "legacy" => n.tuned = h.tuned
  /\ SamplesDdr(d, n) <=> MaySampleDdr(d) /\ t \in DdrTimings

LEMMA ClockSet ==
  ASSUME NEW d \in Drivers, NEW h \in Hosts, NEW f \in Nat \ {0}, NEW t \in Timings, NEW s
  PROVE  LET n == SetClockAndTiming(d, h, f, t, s) IN
         /\ Clocked(d, h, n, f, t)
         /\ d.type = "Usdhc" /\ t = "mmc_hs400" /\ s = TRUE => SamplesStrobed(n)
<1> DEFINE n == SetClockAndTiming(d, h, f, t, s)
<1> SUFFICES /\ Clocked(d, h, n, f, t)
             /\ d.type = "Usdhc" /\ t = "mmc_hs400" /\ s = TRUE => SamplesStrobed(n)
  OBVIOUS
<1>0. n = SetClockAndTiming(d, h, f, t, s)
  OBVIOUS
<1> HIDE DEF n
<1>1. CASE d.type = "Sdhi"
  <2>1. n = [h EXCEPT !.freq = BusFrequency(d, f, FALSE)]
    BY <1>0, <1>1 DEF SetClockAndTiming
  <2> DEFINE no == FALSE
             freq == BusFrequency(d, f, no)
  <2>2. freq \in Nat /\ (freq <= f \/ freq <= 25 * MHz)
    <3>1. no \in BOOLEAN
      OBVIOUS
    <3> HIDE DEF no
    <3> QED
      BY <3>1, BusSlows
  <2> HIDE DEF freq
  <2>3. n \in Hosts /\ n.freq = freq /\ n.width = h.width /\ n.volt = h.volt
        /\ n.tuned = h.tuned
    BY <2>1, <2>2 DEF Hosts, freq
  <2>4. ~SamplesDdr(d, n) /\ ~MaySampleDdr(d)
    BY <1>1 DEF SamplesDdr, MaySampleDdr, SdStandard
  <2> QED
    BY <1>1, <2>2, <2>3, <2>4 DEF Clocked
<1>2. CASE d.type # "Sdhi"
  <2> DEFINE ddr == t \in DdrTimings
             timing == SetSdTiming(d, h, t)
             timed == [timing EXCEPT !.ddr_active = ddr]
             mixed == SetMixCtrl(d, timed, t, s)
  <2>1. n = [mixed EXCEPT !.freq = BusFrequency(d, f, ddr)]
    BY <1>0, <1>2 DEF SetClockAndTiming
  <2>2. /\ timing \in Hosts
        /\ timing.width = h.width /\ timing.volt = h.volt /\ timing.tuned = h.tuned
        /\ d.type \in SdStandard => (timing.uhsmode \in {4, 5} <=> ddr)
    BY SdTimingSet
  <2>3. ddr \in BOOLEAN
    OBVIOUS
  <2> HIDE DEF timing, ddr
  <2>4. timed \in Hosts /\ timed.width = h.width /\ timed.volt = h.volt
        /\ timed.tuned = h.tuned /\ timed.uhsmode = timing.uhsmode
    BY <2>2, <2>3 DEF Hosts
  <2> HIDE DEF timed
  <2>5. /\ mixed \in Hosts
        /\ mixed.width = timed.width /\ mixed.volt = timed.volt
        /\ mixed.uhsmode = timed.uhsmode
        /\ t # "legacy" => mixed.tuned = timed.tuned
        /\ d.type = "Usdhc" =>
             /\ "ddr_en" \in mixed.mix <=> ddr
             /\ t = "mmc_hs400" /\ s = TRUE => "en_hs400_mo" \in mixed.mix
    BY <2>4, MixCtrlSet DEF ddr
  <2> HIDE DEF mixed
  <2>6. mixed.width = h.width /\ mixed.volt = h.volt /\ mixed.uhsmode = timing.uhsmode
    BY <2>4, <2>5 DEF Hosts
  <2> DEFINE freq == BusFrequency(d, f, ddr)
  <2>9. freq \in Nat /\ (freq <= f \/ freq <= 25 * MHz)
    BY <2>3, BusSlows
  <2>10. n = [mixed EXCEPT !.freq = freq]
    BY <2>1
  <2> HIDE DEF freq
  <2>7. n \in Hosts /\ n.freq = freq /\ n.width = mixed.width
        /\ n.volt = mixed.volt /\ n.uhsmode = mixed.uhsmode /\ n.mix = mixed.mix
        /\ n.tuned = mixed.tuned
    BY <2>9, <2>10, <2>5 DEF Hosts
  <2>8. SamplesDdr(d, n) <=> MaySampleDdr(d) /\ ddr
    BY <2>2, <2>5, <2>6, <2>7 DEF SamplesDdr, MaySampleDdr
  <2> QED
    BY <2>9, <2>4, <2>5, <2>6, <2>7, <2>8 DEF SamplesStrobed, Clocked, ddr
<1> QED
  BY <1>1, <1>2

LEMMA ClockSetPlain ==
  ASSUME NEW d \in Drivers, NEW h \in Hosts, NEW f \in Nat \ {0}, NEW t \in Timings
  PROVE  Clocked(d, h, SetClockAndTiming(d, h, f, t, FALSE), f, t)
  BY ClockSet, Zenon

\* Without a clock nothing else changes that matters.
LEMMA ClockGated ==
  ASSUME NEW d \in Drivers, NEW h \in Hosts,
         NEW n, n = SetClockAndTiming(d, h, 0, "legacy", FALSE)
  PROVE  n \in Hosts /\ n.width = h.width /\ n.volt = h.volt
<1>1. CASE d.type \in {"Usdhc", "Sdhi"}
  BY <1>1 DEF SetClockAndTiming, Hosts
<1>2. CASE d.type \notin {"Usdhc", "Sdhi"}
  <2> DEFINE timing == SetSdTiming(d, h, "legacy")
  <2>1. n = [[timing EXCEPT !.ddr_active = FALSE] EXCEPT !.freq = 0]
    <3>1. ("legacy" \in DdrTimings) = FALSE
      BY DEF DdrTimings
    <3>2. n = [[timing EXCEPT !.ddr_active = "legacy" \in DdrTimings] EXCEPT !.freq = 0]
      BY <1>2 DEF SetClockAndTiming
    <3> QED
      BY <3>1, <3>2
  <2>2. /\ timing \in Hosts
        /\ timing.width = h.width /\ timing.volt = h.volt
    BY SdTimingSet DEF Timings
  <2> HIDE DEF timing
  <2> DEFINE timed == [timing EXCEPT !.ddr_active = FALSE]
  <2>3. timed \in Hosts /\ timed.width = timing.width /\ timed.volt = timing.volt
    BY <2>2 DEF Hosts
  <2>4. n = [timed EXCEPT !.freq = 0]
    BY <2>1
  <2>6. 0 \in Nat
    OBVIOUS
  <2> HIDE DEF timed
  <2>5. n \in Hosts /\ n.width = timed.width /\ n.volt = timed.volt
    BY <2>3, <2>4, <2>6 DEF Hosts
  <2> QED
    BY <2>2, <2>3, <2>5
<1> QED
  BY <1>1, <1>2

\* power_up_sd() follows the card to 1.8 V.
LEMMA SwitchedTo18 ==
  ASSUME NEW d \in Drivers, NEW h \in Hosts, NEW n, n = SwitchTo18(d, h)
  PROVE  /\ n \in Hosts /\ n.width = h.width
         /\ n.volt = IF d.type \in {"Plain", "Sdhi"} THEN h.volt ELSE 180
         /\ n.freq <= 25 * MHz /\ ~SamplesDdr(d, n)
<1> DEFINE gated == SetClockAndTiming(d, h, 0, "legacy", FALSE)
           at18 == SetVoltage(d, gated, 180)
<1>1. gated \in Hosts /\ gated.width = h.width /\ gated.volt = h.volt
  BY ClockGated, ZenonT(30)
<1>2. n = SetClockAndTiming(d, at18, 400 * KHz, "uhs_sdr12", FALSE)
  BY DEF SwitchTo18
<1> HIDE DEF gated
<1>3. at18 \in Hosts /\ at18.width = h.width
      /\ at18.volt = IF d.type \in {"Plain", "Sdhi"} THEN h.volt ELSE 180
  BY <1>1 DEF SetVoltage, Hosts, SignalVoltages
<1> HIDE DEF at18
<1>4. "uhs_sdr12" \in Timings /\ "uhs_sdr12" \notin DdrTimings
  BY DEF Timings, UhsTimings, DdrTimings
<1>5. 400 * KHz \in Nat \ {0} /\ 25 * MHz \in Nat /\ 400 * KHz <= 25 * MHz
  BY DEF MHz, KHz
<1>6. n \in Hosts /\ n.width = at18.width /\ n.volt = at18.volt
      /\ (n.freq <= 400 * KHz \/ n.freq <= 25 * MHz) /\ ~SamplesDdr(d, n)
  <2>1. Clocked(d, at18, n, 400 * KHz, "uhs_sdr12")
    <3>1. Clocked(d, at18, SetClockAndTiming(d, at18, 400 * KHz, "uhs_sdr12", FALSE),
                  400 * KHz, "uhs_sdr12")
      BY <1>3, <1>4, <1>5, ClockSetPlain, ZenonT(60)
    <3> QED
      BY <1>2, <3>1, Zenon
  <2> QED
    BY <1>4, <2>1 DEF Clocked
<1>8. n.freq \in Nat
  BY <1>6 DEF Hosts
<1> QED
  BY <1>3, <1>5, <1>6, <1>8

LEMMA Slowed ==
  ASSUME NEW h \in Hosts, drv \in Drivers
  PROVE  /\ Slowest(h) \in Hosts /\ Slowest(h).width = 1 /\ Slowest(h).volt = h.volt
         /\ Slowest(h).freq <= 25 * MHz /\ ~SamplesDdr(drv, Slowest(h))
<1> DEFINE n == SetClockAndTiming(drv, SetBusWidth(h, 1), 400 * KHz, "legacy", FALSE)
<1>1. "legacy" \in Timings /\ "legacy" \notin DdrTimings
  BY DEF Timings, DdrTimings
<1>2. 400 * KHz \in Nat \ {0} /\ 25 * MHz \in Nat /\ 400 * KHz <= 25 * MHz
  BY DEF MHz, KHz
<1>3. SetBusWidth(h, 1) \in Hosts /\ SetBusWidth(h, 1).width = 1
      /\ SetBusWidth(h, 1).volt = h.volt
  BY DEF SetBusWidth, Hosts, BusWidths
<1>4. Clocked(drv, SetBusWidth(h, 1), n, 400 * KHz, "legacy")
  BY <1>1, <1>2, <1>3, ClockSetPlain, ZenonT(30)
<1>5. Slowest(h) = n
  BY DEF Slowest
<1> HIDE DEF n
<1>6. n.freq \in Nat
  BY <1>4 DEF Clocked, Hosts
<1> QED
  BY <1>1, <1>2, <1>3, <1>4, <1>5, <1>6 DEF Clocked

\* The sample clock does not change what is sampled.
SameBus(d, h, n) ==
  /\ n \in Hosts /\ n.width = h.width /\ n.volt = h.volt /\ n.freq = h.freq
  /\ SamplesDdr(d, n) <=> SamplesDdr(d, h)
  /\ SamplesStrobed(n) <=> SamplesStrobed(h)

LEMMA TuningReset ==
  ASSUME NEW d \in Drivers, NEW h \in Hosts
  PROVE  SameBus(d, h, ResetTuning(d, h))
<1>1. CASE d.type = "Usdhc"
  <2> DEFINE mix == h.mix \ {"auto_tune_en"}
  <2>1. mix \in SUBSET MixBits /\ ("ddr_en" \in mix <=> "ddr_en" \in h.mix)
        /\ ("en_hs400_mo" \in mix <=> "en_hs400_mo" \in h.mix)
    BY DEF Hosts
  <2>2. ResetTuning(d, h) = [h EXCEPT !.mix = mix, !.tuned = "none"]
    BY <1>1 DEF ResetTuning
  <2> HIDE DEF mix
  <2> QED
    BY <1>1, <2>1, <2>2 DEF SameBus, Hosts, SamplesDdr, SamplesStrobed
<1>2. CASE d.type # "Usdhc"
  BY <1>2 DEF ResetTuning, SameBus
<1> QED
  BY <1>1, <1>2

LEMMA AutoTuningEnabled ==
  ASSUME NEW d \in Drivers, NEW h \in Hosts
  PROVE  /\ SameBus(d, h, EnableAutoTuning(d, h))
         /\ EnableAutoTuning(d, h).tuned = h.tuned
<1>1. CASE d.type = "Usdhc"
  <2> DEFINE mix == h.mix \cup {"auto_tune_en"}
  <2>1. mix \in SUBSET MixBits /\ ("ddr_en" \in mix <=> "ddr_en" \in h.mix)
        /\ ("en_hs400_mo" \in mix <=> "en_hs400_mo" \in h.mix)
    BY DEF Hosts, MixBits
  <2>2. EnableAutoTuning(d, h) = [h EXCEPT !.mix = mix]
    BY <1>1 DEF EnableAutoTuning
  <2> HIDE DEF mix
  <2> QED
    BY <1>1, <2>1, <2>2 DEF SameBus, Hosts, SamplesDdr, SamplesStrobed
<1>2. CASE d.type # "Usdhc"
  BY <1>2 DEF EnableAutoTuning, SameBus
<1> QED
  BY <1>1, <1>2

LEMMA TunedHost ==
  ASSUME NEW d \in Drivers, NEW h \in Hosts, NEW t \in Timings \cup {"none"}
  PROVE  SameBus(d, h, Tuned(h, t)) /\ Tuned(h, t).tuned = t
  BY DEF Tuned, SameBus, Hosts, SamplesDdr, SamplesStrobed

LEMMA TuningStarted ==
  ASSUME NEW d \in Drivers, NEW h \in Hosts
  PROVE  SameBus(d, h, StartTuning(d, h))
<1>1. CASE d.type \in {"Plain", "Sdhi"}
  BY <1>1 DEF StartTuning, SameBus
<1>2. CASE d.type \notin {"Plain", "Sdhi"}
  <2>1. StartTuning(d, h) = Tuned(EnableAutoTuning(d, h), "none")
    BY <1>2 DEF StartTuning, Tuned
  <2> QED
    BY <2>1, AutoTuningEnabled, TunedHost DEF SameBus
<1> QED
  BY <1>1, <1>2

-----------------------------------------------------------------------------
(* The choice of a mode.                                                   *)

AccessModes ==
  { [mode |-> "sdr104", timing |-> "uhs_sdr104", freq |-> 208 * MHz],
    [mode |-> "ddr50", timing |-> "uhs_ddr50", freq |-> 50 * MHz],
    [mode |-> "sdr50", timing |-> "uhs_sdr50", freq |-> 100 * MHz],
    [mode |-> "sdr25", timing |-> "uhs_sdr25", freq |-> 50 * MHz],
    [mode |-> "sdr12", timing |-> "uhs_sdr12", freq |-> 25 * MHz],
    [mode |-> "sdr12", timing |-> "hs", freq |-> 25 * MHz] }

LEMMA FastestIsMode == Fastest \in AccessModes
<1> DEFINE good == {i \in 1 .. Len(Preference) : Possible(Preference[i])}
<1>1. Len(Preference) = 5
  BY DEF Preference
<1>2. \A i \in 1 .. 5 : Preference[i] \in AccessModes
  <2> TAKE i \in 1 .. 5
  <2>1. i = 1 \/ i = 2 \/ i = 3 \/ i = 4 \/ i = 5
    OBVIOUS
  <2> QED
    BY <2>1 DEF Preference, AccessModes
<1>3. CASE good = {}
  BY <1>3 DEF Fastest, HighSpeed, AccessModes
<1>4. CASE good # {}
  <2>1. good \subseteq 1 .. 5 /\ good \subseteq Nat
    BY <1>1
  <2> HIDE DEF good
  <2>2. Min(good) \in 1 .. 5
    BY <1>4, <2>1, MinOfNats
  <2>3. Fastest = Preference[Min(good)]
    BY <1>4 DEF Fastest, good
  <2> QED
    BY <1>2, <2>2, <2>3
<1> QED
  BY <1>3, <1>4

\* An access mode has a clock its card stands, and DDR where the timing has it.
LEMMA AccessMode ==
  ASSUME NEW m \in AccessModes
  PROVE  /\ m.mode \in SdModes /\ m.timing \in Timings /\ m.freq \in Nat \ {0}
         /\ m.timing \in UhsTimings \/ m.timing = "hs"
         /\ m.mode = "ddr50" <=> m.timing = "uhs_ddr50"
         /\ m.timing \in DdrTimings <=> m.timing = "uhs_ddr50"
  BY DEF AccessModes, SdModes, Timings, UhsTimings, DdrTimings, MHz, KHz

LEMMA FastestSame ==
  ASSUME drv' = drv, dev'.sf = dev.sf, dev'.disable = dev.disable, dev'.v18 = dev.v18
  PROVE  Fastest' = Fastest
<1>1. \A m : Possible(m)' = Possible(m)
  BY DEF Possible
<1> QED
  BY <1>1 DEF Fastest

\* The mode an eMMC card is tried in.
LEMMA Preferences ==
  /\ Len(MmcPreference) = 4
  /\ MmcPreference[1].type = "hs200" /\ MmcPreference[2].type = "hs52_ddr"
  /\ MmcPreference[3].type = "hs52" /\ MmcPreference[4].type = "hs26"
  BY DEF MmcPreference

LEMMA BestIs ==
  ASSUME NEW S, Ranks(S) # {}
  PROVE  \/ Best(S) = MmcPreference[1] /\ "hs200" \in S
         \/ Best(S) = MmcPreference[2] /\ "hs52_ddr" \in S /\ "hs200" \notin S
         \/ /\ Best(S) = MmcPreference[3] /\ "hs52" \in S
            /\ {"hs200", "hs52_ddr"} \cap S = {}
         \/ /\ Best(S) = MmcPreference[4] /\ "hs26" \in S
            /\ {"hs200", "hs52_ddr", "hs52"} \cap S = {}
<1>1. Ranks(S) \subseteq 1 .. 4 /\ Ranks(S) \subseteq Nat
  BY Preferences DEF Ranks
<1>2. Min(Ranks(S)) \in Ranks(S) /\ \A i \in Ranks(S) : Min(Ranks(S)) <= i
  BY <1>1, MinOfNats
<1>3. /\ 1 \in Ranks(S) <=> "hs200" \in S
      /\ 2 \in Ranks(S) <=> "hs52_ddr" \in S
      /\ 3 \in Ranks(S) <=> "hs52" \in S
      /\ 4 \in Ranks(S) <=> "hs26" \in S
  BY Preferences DEF Ranks
<1>4. Best(S) = MmcPreference[Min(Ranks(S))]
  BY DEF Best
<1> DEFINE best == Min(Ranks(S))
<1>5. best = 1 \/ best = 2 \/ best = 3 \/ best = 4
  BY <1>1, <1>2
<1> HIDE DEF best
<1>6. /\ best \in Ranks(S)
      /\ 1 \in Ranks(S) => best = 1
      /\ 2 \in Ranks(S) => best <= 2
      /\ 3 \in Ranks(S) => best <= 3
  BY <1>2, <1>5 DEF best
<1> QED
  BY <1>3, <1>4, <1>5, <1>6 DEF best

LEMMA RanksEmpty ==
  ASSUME NEW S \in SUBSET MmcTypes
  PROVE  Ranks(S) = {} <=> S \subseteq {"hs400"}
<1>1. Ranks(S) \subseteq 1 .. 4
  BY Preferences DEF Ranks
<1>2. /\ 1 \in Ranks(S) <=> "hs200" \in S
      /\ 2 \in Ranks(S) <=> "hs52_ddr" \in S
      /\ 3 \in Ranks(S) <=> "hs52" \in S
      /\ 4 \in Ranks(S) <=> "hs26" \in S
  BY Preferences DEF Ranks
<1>3. Ranks(S) = {} <=> \A i \in 1 .. 4 : i \notin Ranks(S)
  BY <1>1
<1>4. (\A i \in 1 .. 4 : i \notin Ranks(S)) <=>
        1 \notin Ranks(S) /\ 2 \notin Ranks(S) /\ 3 \notin Ranks(S) /\ 4 \notin Ranks(S)
  BY SMT
<1> QED
  BY <1>2, <1>3, <1>4 DEF MmcTypes

-----------------------------------------------------------------------------
(* The steps.                                                              *)

LEMMA MaxOfSome ==
  ASSUME NEW S, NEW m \in S, \A x \in S : x \in Nat, \A x \in S : m >= x
  PROVE  Max(S) = m
<1>1. \A x \in S : (\A y \in S : x >= y) => x = m
  OBVIOUS
<1>2. (CHOOSE x \in S : \A y \in S : x >= y) = m
  BY <1>1
<1> QED
  BY <1>2 DEF Max

\* The counters stay in their ranges.
LEMMA Counters ==
  /\ MaxTries \in Nat \ {0} /\ MaxVoltTries \in Nat \ {0}
  /\ MaxTunings \in Nat \ {0} /\ MaxPolls \in Nat \ {0}
  /\ 0 \in Tries /\ 1 \in Tries /\ 0 \in Polls
  /\ 0 .. 5 \subseteq Tries /\ 0 .. MaxVoltTries \subseteq Tries /\ Tries \subseteq Nat
  /\ 0 .. MaxTries \subseteq Polls /\ 0 .. MaxTunings \subseteq Polls
  /\ 0 .. MaxPolls \subseteq Polls /\ Polls \subseteq Nat
<1>1. /\ MaxTries \in Nat \ {0} /\ MaxVoltTries \in Nat \ {0}
      /\ MaxTunings \in Nat \ {0} /\ MaxPolls \in Nat \ {0}
  BY CardInitAssumption
<1>2. \E m \in {5, MaxVoltTries} : Max({5, MaxVoltTries}) = m /\ m >= 5 /\ m >= MaxVoltTries
  <2>1. CASE MaxVoltTries >= 5
    BY <1>1, <2>1, MaxOfSome
  <2>2. CASE ~(MaxVoltTries >= 5)
    BY <1>1, <2>2, MaxOfSome
  <2> QED
    BY <2>1, <2>2
<1>3. \E m \in {MaxTries, MaxTunings, MaxPolls} :
        /\ Max({MaxTries, MaxTunings, MaxPolls}) = m
        /\ m >= MaxTries /\ m >= MaxTunings /\ m >= MaxPolls
  <2> DEFINE S == {MaxTries, MaxTunings, MaxPolls}
  <2>1. \E m \in S : \A x \in S : m >= x
    BY <1>1
  <2>2. S \subseteq Nat
    BY <1>1
  <2> HIDE DEF S
  <2>3. \E m \in S : Max(S) = m /\ \A x \in S : m >= x
    BY <2>1, <2>2, MaxOfSome
  <2> QED
    BY <2>3 DEF S
<1> QED
  BY <1>1, <1>2, <1>3 DEF Tries, Polls

\* CMD0.
LEMMA IdleCard ==
  ASSUME CardTypeOK
  PROVE  /\ Idle(card) \in CardStates /\ Idle(card).is = card.is
         /\ Idle(card).width = 1 /\ Idle(card).volt = card.volt
         /\ ~Idle(card).ddr /\ ~Idle(card).strobed /\ ~Idle(card).refused
         /\ Idle(card).mode \in SdModes <=> card.is.kind = "sd"
         /\ Idle(card).mode # "ddr50"
  BY DEF CardTypeOK, CardStates, Idle, CardState, IdleMode, CardModes, SdModes, BusWidths

LEMMA Sampling ==
  ASSUME NEW d, NEW h, NEW c
  PROVE  SamplesDdr(d, h) \in BOOLEAN /\ SendsDdr(c) \in BOOLEAN
<1>1. SamplesDdr(d, h) \in BOOLEAN
  <2>1. CASE d.type = "Usdhc"
    BY <2>1 DEF SamplesDdr
  <2>2. CASE d.type # "Usdhc"
    BY <2>2, Zenon DEF SamplesDdr
  <2> QED
    BY <2>1, <2>2
<1>2. SendsDdr(c) \in BOOLEAN
  BY Zenon DEF SendsDdr
<1> QED
  BY <1>1, <1>2

LEMMA DataFitsIs ==
  DataFits <=> host.width = card.width /\ (SamplesDdr(drv, host) <=> SendsDdr(card))
<1>1. SamplesDdr(drv, host) \in BOOLEAN /\ SendsDdr(card) \in BOOLEAN
  BY Sampling
<1> QED
  BY <1>1 DEF DataFits

USE DEF PowerUpInv, Goto, IsSd, Scans, SdUnswitched, SdIdentifies, SdChosen, SdStages,
        MmcIdentifies, MmcSettles, Settings, MmcEnters, MmcAttempts, MmcStages, Stages,
        Early, Widths, TimingSteps, Switches, Phases

\* Steps that count, or meet a fault.
Counted ==
  /\ UNCHANGED <<drv, host, card>> /\ dev' \in DevStates
  /\ dev'.v18 = dev.v18 /\ dev'.disable = dev.disable /\ dev'.sf = dev.sf
  /\ dev'.timing = dev.timing /\ dev'.wide = dev.wide /\ dev'.restricted = dev.restricted
  /\ dev'.test = dev.test /\ dev'.strobe = dev.strobe /\ dev'.failed = dev.failed
  /\ dev.fault => dev'.fault


LEMMA StartKeeps ==
  ASSUME PowerUpInv, Start
  PROVE  PowerUpInv'
<1> DEFINE h == SetVoltage(drv, host, 330)
<1>1. h \in Hosts /\ h.volt = IF SetsVoltage THEN 330 ELSE host.volt
  BY DEF CardTypeOK, SetVoltage, SetsVoltage, Hosts, SignalVoltages
<1>2. drv \in Drivers /\ drv' = drv /\ card' = card /\ dev' = dev /\ host' = Slowest(h)
  BY DEF Start, CardTypeOK
<1> HIDE DEF h
<1>3. /\ host' \in Hosts /\ host'.width = 1 /\ host'.volt = h.volt
      /\ host'.freq <= 25 * MHz /\ ~SamplesDdr(drv, host')
  BY <1>1, <1>2, Slowed
<1>4. CardTypeOK'
  BY <1>2, <1>3 DEF CardTypeOK
<1>5. OnBoard' /\ Control' /\ Loops'
  BY <1>2 DEF Start, OnBoard, Control, Loops
<1>6. Slow'
  BY <1>2, <1>3 DEF Start, Slow
<1>7. SdData'
  BY <1>2, <1>3 DEF Start, SdData
<1>8. SdVolt'
  BY <1>1, <1>2, <1>3 DEF Start, SdVolt, SetsVoltage, CardTypeOK, DevStates
<1>9. SdUp' /\ MmcModes' /\ MmcTimed' /\ MmcUp' /\ MmcFailed' /\ MmcTuned'
  BY <1>2 DEF Start, SdUp, MmcModes, MmcTimed, MmcUp, MmcFailed, MmcTuned
<1> QED
  BY <1>4, <1>5, <1>6, <1>7, <1>8, <1>9

LEMMA GoIdleKeeps ==
  ASSUME PowerUpInv, GoIdle
  PROVE  PowerUpInv'
<1>1. CardTypeOK'
  BY IdleCard DEF GoIdle, CardTypeOK
<1>2. OnBoard' /\ Control' /\ Loops' /\ Slow'
  BY IdleCard DEF GoIdle, OnBoard, Control, Loops, Slow
<1>3. SdData' /\ SdVolt'
  BY IdleCard DEF GoIdle, CardTypeOK, SdData, SdVolt, SetsVoltage
<1>4. SdUp' /\ MmcModes' /\ MmcTimed' /\ MmcUp' /\ MmcFailed' /\ MmcTuned'
  BY DEF GoIdle, SdUp, MmcModes, MmcTimed, MmcUp, MmcFailed, MmcTuned
<1> QED
  BY <1>1, <1>2, <1>3, <1>4

LEMMA IfCondKeeps ==
  ASSUME PowerUpInv, IfCond
  PROVE  PowerUpInv'
<1>1. Counted /\ dev'.tries \in {0, 1}
  <2>1. dev' \in DevStates
    BY Counters, ZenonT(30) DEF IfCond, CardTypeOK, DevStates
  <2> QED
    BY <2>1 DEF IfCond, Counted, CardTypeOK, DevStates, Loops
<1>2. CardTypeOK' /\ OnBoard' /\ Control' /\ Loops' /\ Slow'
  BY <1>1 DEF IfCond, Counted, CardTypeOK, OnBoard, Control, Loops, Slow
<1>3. SdData' /\ SdVolt'
  BY <1>1 DEF IfCond, Counted, SdData, SdVolt, SetsVoltage
<1>4. SdUp' /\ MmcModes' /\ MmcTimed' /\ MmcUp' /\ MmcFailed' /\ MmcTuned'
  BY <1>1 DEF IfCond, Counted, SdUp, MmcModes, MmcTimed, MmcUp, MmcFailed, MmcTuned
<1> QED
  BY <1>1, <1>2, <1>3, <1>4

LEMMA ProbeKeeps ==
  ASSUME PowerUpInv, Probe
  PROVE  PowerUpInv'
<1> DEFINE fault == dev.fault \/ card.is.kind = "sd"
<1>1. dev' \in DevStates
  <2>1. \/ dev' = [dev EXCEPT !.tries = 0]
        \/ dev' = [dev EXCEPT !.fault = fault]
    BY DEF Probe
  <2>2. fault \in BOOLEAN
    OBVIOUS
  <2> HIDE DEF fault
  <2> QED
    BY <2>1, <2>2, Counters DEF CardTypeOK, DevStates
<1>2. CardTypeOK' /\ OnBoard' /\ Control' /\ Slow'
  BY <1>1 DEF Probe, CardTypeOK, DevStates, OnBoard, Control, Slow
<1>3. Loops'
  BY <1>1, Counters DEF Probe, CardTypeOK, DevStates, Control, Loops
<1>4. SdData' /\ SdVolt'
  BY <1>1 DEF Probe, SdData, SdVolt, SetsVoltage, CardTypeOK, DevStates
<1>5. SdUp' /\ MmcModes' /\ MmcTimed' /\ MmcUp' /\ MmcFailed' /\ MmcTuned'
  BY <1>1 DEF Probe, SdUp, MmcModes, MmcTimed, MmcUp, CardTypeOK, DevStates, MmcFailed, MmcTuned
<1> QED
  BY <1>1, <1>2, <1>3, <1>4, <1>5

LEMMA SdIdleKeeps ==
  ASSUME PowerUpInv, SdIdle
  PROVE  PowerUpInv'
<1>1. dev' \in DevStates
  BY Counters DEF SdIdle, CardTypeOK, DevStates
<1>2. CardTypeOK'
  BY <1>1, Slowed, IdleCard DEF SdIdle, CardTypeOK
<1>3. OnBoard' /\ Control' /\ Loops'
  BY IdleCard, Counters DEF SdIdle, CardTypeOK, DevStates, OnBoard, Control, Loops
<1>4. Slow'
  BY Slowed DEF SdIdle, CardTypeOK, Slow
<1>5. SdData'
  BY Slowed, IdleCard DEF SdIdle, CardTypeOK, DevStates, Control, SdData
<1>6. SdVolt'
  BY Slowed, IdleCard DEF SdIdle, CardTypeOK, DevStates, SdVolt, SetsVoltage
<1>7. SdUp' /\ MmcModes' /\ MmcTimed' /\ MmcUp' /\ MmcFailed' /\ MmcTuned'
  BY IdleCard
  DEF SdIdle, CardTypeOK, DevStates, Control, SdUp, MmcModes, MmcTimed, MmcUp, MmcFailed,
      MmcTuned
<1> QED
  BY <1>2, <1>3, <1>4, <1>5, <1>6, <1>7

LEMMA SdOpCondKeeps ==
  ASSUME PowerUpInv, SdOpCond
  PROVE  PowerUpInv'
<1> DEFINE fault == dev.fault \/ dev.polls + 1 = MaxTries
<1>1. dev' \in DevStates
  <2>1. \/ dev' = [dev EXCEPT !.polls = dev.polls + 1, !.fault = fault]
        \/ dev' = dev
    BY DEF SdOpCond
  <2>2. fault \in BOOLEAN
    OBVIOUS
  <2>3. dev.polls + 1 \in Polls
    BY Counters DEF SdOpCond, Loops, CardTypeOK, DevStates
  <2> HIDE DEF fault
  <2> QED
    BY <2>1, <2>2, <2>3 DEF CardTypeOK, DevStates
<1>2. Counted /\ dev'.tries = dev.tries
  BY <1>1 DEF SdOpCond, Counted, CardTypeOK, DevStates
<1>3. /\ stage = "sd_op_cond" /\ IsSd /\ phase = "command" /\ phase' = "command"
      /\ stage' \in {"sd_op_cond", "sd_voltage", "sd_cid", "failed"}
      /\ stage' = "sd_op_cond" => dev'.polls < MaxTries
      /\ stage' = "sd_voltage" => card.is.s18
  <2>1. stage = "sd_op_cond" /\ IsSd /\ phase = "command"
    BY DEF SdOpCond, Control
  <2> QED
    BY <2>1 DEF SdOpCond, CardTypeOK, DevStates
<1>4. CardTypeOK' /\ OnBoard' /\ Control' /\ Loops' /\ Slow'
  BY <1>2, <1>3 DEF Counted, CardTypeOK, OnBoard, Control, Loops, Slow
<1>5. SdData' /\ SdVolt'
  BY <1>2, <1>3 DEF Counted, SdData, SdVolt, SetsVoltage
<1>6. SdUp' /\ MmcModes' /\ MmcTimed' /\ MmcUp' /\ MmcFailed' /\ MmcTuned'
  BY <1>2, <1>3 DEF Counted, SdUp, MmcModes, MmcTimed, MmcUp, MmcFailed, MmcTuned
<1> QED
  BY <1>4, <1>5, <1>6

LEMMA SdVoltageKeeps ==
  ASSUME PowerUpInv, SdVoltage
  PROVE  PowerUpInv'
<1>1. CASE /\ host' = SwitchTo18(drv, host)
           /\ card' = [card EXCEPT !.volt = 180]
           /\ dev' = [dev EXCEPT !.v18 = TRUE]
           /\ Goto("sd_cid")
  <2>1. /\ host' \in Hosts /\ host'.width = host.width
        /\ host'.volt = IF SetsVoltage THEN 180 ELSE host.volt
        /\ host'.freq <= 25 * MHz /\ ~SamplesDdr(drv, host')
    BY <1>1, SwitchedTo18 DEF CardTypeOK, SetsVoltage
  <2>2. card' \in CardStates /\ 180 \in SignalVoltages
    BY <1>1 DEF CardTypeOK, CardStates, SignalVoltages
  <2>3. dev' \in DevStates
    BY <1>1 DEF CardTypeOK, DevStates
  <2>4. CardTypeOK' /\ OnBoard' /\ Control' /\ Loops'
    BY <1>1, <2>1, <2>2, <2>3
    DEF SdVoltage, CardTypeOK, CardStates, DevStates, OnBoard, Control, Loops
  <2>5. Slow' /\ SdData'
    BY <1>1, <2>1, <2>2 DEF SdVoltage, CardTypeOK, CardStates, DevStates, Control, Slow, SdData
  <2>6. SdVolt'
    BY <1>1, <2>1, <2>2 DEF SdVoltage, CardTypeOK, CardStates, DevStates, SdVolt, SetsVoltage
  <2>7. SdUp' /\ MmcModes' /\ MmcTimed' /\ MmcUp' /\ MmcFailed' /\ MmcTuned'
    BY <1>1, <2>2 DEF SdVoltage, CardTypeOK, CardStates, DevStates, Control, SdUp, MmcModes,
                      MmcTimed, MmcUp, MmcFailed, MmcTuned
  <2> QED
    BY <2>4, <2>5, <2>6, <2>7
<1>2. CASE /\ card' \in {card, [card EXCEPT !.volt = 180]}
           /\ dev' = [dev EXCEPT !.tries = @ + 1, !.fault = TRUE]
           /\ IF dev.tries + 1 < MaxVoltTries THEN Goto("sd_idle") ELSE Goto("sd_cid")
           /\ UNCHANGED host
  <2>2. card' \in CardStates /\ 180 \in SignalVoltages
    BY <1>2 DEF CardTypeOK, CardStates, SignalVoltages
  <2>3. dev' \in DevStates
    <3>1. dev.tries + 1 \in Tries
      BY Counters DEF SdVoltage, Loops, CardTypeOK, DevStates
    <3> QED
      BY <1>2, <3>1 DEF CardTypeOK, DevStates
  <2>4. CardTypeOK' /\ OnBoard' /\ Control'
    BY <1>2, <2>2, <2>3 DEF SdVoltage, CardTypeOK, CardStates, DevStates, OnBoard, Control
  <2>8. Loops'
    BY <1>2, <2>2, <2>3, Counters
    DEF SdVoltage, CardTypeOK, CardStates, DevStates, Control, Loops
  <2>5. Slow' /\ SdData'
    BY <1>2, <2>2 DEF SdVoltage, CardTypeOK, CardStates, DevStates, Control, Slow, SdData
  <2>6. SdVolt'
    BY <1>2, <2>2 DEF SdVoltage, CardTypeOK, CardStates, DevStates, SdVolt, SetsVoltage
  <2>7. SdUp' /\ MmcModes' /\ MmcTimed' /\ MmcUp' /\ MmcFailed' /\ MmcTuned'
    BY <1>2, <2>2 DEF SdVoltage, CardTypeOK, CardStates, DevStates, Control, SdUp, MmcModes,
                      MmcTimed, MmcUp, MmcFailed, MmcTuned
  <2> QED
    BY <2>4, <2>5, <2>6, <2>7, <2>8
<1> QED
  BY <1>1, <1>2 DEF SdVoltage

LEMMA SdIdentifyKeeps ==
  ASSUME PowerUpInv, SdIdentify
  PROVE  PowerUpInv'
<1>1. /\ stage \in SdIdentifies /\ stage' \in SdIdentifies \ {"sd_cid"}
      /\ phase' = "command" /\ UNCHANGED <<drv, host, card>>
      /\ \E w \in BOOLEAN : dev' = [dev EXCEPT !.wide = w]
  <2>1. PICK n \in 1 .. 6 :
          /\ stage = SdSteps[n] /\ stage' = SdSteps[n + 1] /\ phase' = "command"
          /\ UNCHANGED <<drv, host, card>>
          /\ dev' = [dev EXCEPT !.wide = IF stage = "sd_scr" THEN card.is.wide ELSE @]
    BY DEF SdIdentify, SdSteps
  <2>2. n = 1 \/ n = 2 \/ n = 3 \/ n = 4 \/ n = 5 \/ n = 6
    OBVIOUS
  <2>3. card.is.wide \in BOOLEAN /\ dev.wide \in BOOLEAN
    BY DEF CardTypeOK, CardStates, DevStates, Cards, SdCards, MmcCards
  <2>4. stage \in SdIdentifies /\ stage' \in SdIdentifies \ {"sd_cid"}
    BY <2>1, <2>2 DEF SdSteps
  <2> QED
    BY <2>1, <2>3, <2>4
<1>2. PICK w \in BOOLEAN : dev' = [dev EXCEPT !.wide = w]
  BY <1>1
<1>3. dev' \in DevStates
  BY <1>2 DEF CardTypeOK, DevStates
<1>4. CardTypeOK' /\ OnBoard' /\ Control' /\ Loops' /\ Slow'
  BY <1>1, <1>2, <1>3 DEF CardTypeOK, DevStates, OnBoard, Control, Loops, Slow
<1>5. SdData' /\ SdVolt'
  BY <1>1, <1>2 DEF CardTypeOK, DevStates, Control, SdData, SdVolt, SetsVoltage
<1>6. SdUp' /\ MmcModes' /\ MmcTimed' /\ MmcUp' /\ MmcFailed' /\ MmcTuned'
  BY <1>1, <1>2
  DEF CardTypeOK, DevStates, Control, SdUp, MmcModes, MmcTimed, MmcUp, MmcFailed, MmcTuned
<1> QED
  BY <1>4, <1>5, <1>6

LEMMA SdCheckKeeps ==
  ASSUME PowerUpInv, SdCheck
  PROVE  PowerUpInv'
<1> DEFINE sf == SwitchStatus(card, {})
           follow == Follow(sf)
           v18 == dev.v18 \/ follow
<1>1. /\ stage = "sd_check" /\ IsSd /\ phase = "command" /\ DataFits
      /\ stage' = "sd_choose" /\ phase' = "command" /\ drv' = drv /\ card' = card
      /\ host' = IF follow THEN SwitchTo18(drv, host) ELSE host
      /\ dev' = [dev EXCEPT !.sf = sf, !.v18 = v18]
  BY DEF SdCheck, Control
<1>2. sf \in SwitchStates /\ sf.invalid = {} /\ follow \in BOOLEAN /\ v18 \in BOOLEAN
  BY <1>1 DEF CardTypeOK, CardStates, DevStates, Cards, SdCards, MmcCards, SwitchStatus,
              SwitchStates, Follow
<1>3. follow => card.volt = 180
  BY DEF Follow, SwitchStatus, CardTypeOK, CardStates, SignalVoltages
\* The card takes 1.8 V, so that it has a mode that shows it.
<1>4. card.volt = 180 => dev.v18 \/ follow
  <2>1. card.volt = 180 => card.is.s18 /\ card.is.modes \cap UhsOnly # {}
    BY <1>1, PowerUpAssumption DEF SdVolt, OnBoard
  <2> QED
    BY <1>1, <2>1 DEF Follow, SwitchStatus
<1>5. /\ host' \in Hosts /\ host'.width = host.width
      /\ host'.volt = IF follow /\ SetsVoltage THEN 180 ELSE host.volt
      /\ host'.freq <= 25 * MHz /\ ~SamplesDdr(drv, host')
  BY <1>1, SwitchedTo18 DEF CardTypeOK, SetsVoltage, Slow
<1> HIDE DEF sf, follow, v18
<1>6. dev' \in DevStates /\ dev'.sf = sf /\ dev'.v18 = v18 /\ dev'.tries = dev.tries
      /\ dev'.disable = dev.disable /\ dev'.fault = dev.fault /\ dev'.timing = dev.timing
      /\ dev'.restricted = dev.restricted /\ dev'.test = dev.test
  BY <1>1, <1>2 DEF CardTypeOK, DevStates
<1>7. CardTypeOK' /\ OnBoard' /\ Control' /\ Loops'
  BY <1>1, <1>5, <1>6 DEF CardTypeOK, OnBoard, Control, Loops
<1>8. Slow' /\ SdData'
  BY <1>1, <1>2, <1>5, <1>6 DEF Slow, SdData
<1>9. SdVolt'
  <2>1. card.volt \in {180, 330}
    BY DEF CardTypeOK, CardStates, SignalVoltages
  <2>2. dev'.v18 <=> dev.v18 \/ follow
    BY <1>6 DEF v18
  <2>3. CASE dev'.v18
    BY <1>1, <1>3, <1>5, <2>2, <2>3 DEF SdVolt, SetsVoltage
  <2>4. CASE ~dev'.v18
    BY <1>1, <1>4, <1>5, <2>1, <2>2, <2>4 DEF SdVolt, SetsVoltage
  <2> QED
    BY <2>3, <2>4
<1>10. SdUp' /\ MmcModes' /\ MmcTimed' /\ MmcUp' /\ MmcFailed' /\ MmcTuned'
  BY <1>1, <1>6 DEF SdUp, MmcModes, MmcTimed, MmcUp, MmcFailed, MmcTuned
<1> QED
  BY <1>7, <1>8, <1>9, <1>10

LEMMA SdChooseKeeps ==
  ASSUME PowerUpInv, SdChoose
  PROVE  PowerUpInv'
<1> DEFINE timing == Fastest.timing
<1>1. timing \in Timings
  BY FastestIsMode, AccessMode
<1>2. Fastest' = Fastest
  BY FastestSame DEF SdChoose, CardTypeOK, DevStates
<1>3. /\ stage = "sd_choose" /\ IsSd /\ phase = "command"
      /\ stage' \in SdChosen /\ phase' = "command" /\ UNCHANGED <<drv, host, card>>
      /\ dev' = [dev EXCEPT !.timing = timing]
  BY DEF SdChoose, AfterWidth, Control
<1> HIDE DEF timing
<1>4. dev' \in DevStates /\ dev'.timing = timing /\ dev'.sf = dev.sf /\ dev'.v18 = dev.v18
      /\ dev'.disable = dev.disable /\ dev'.fault = dev.fault
      /\ dev'.restricted = dev.restricted /\ dev'.test = dev.test
  BY <1>1, <1>3 DEF CardTypeOK, DevStates
<1>5. CardTypeOK' /\ OnBoard' /\ Control' /\ Loops' /\ Slow'
  BY <1>3, <1>4 DEF CardTypeOK, OnBoard, Control, Loops, Slow
<1>6. SdData' /\ SdVolt'
  BY <1>2, <1>3, <1>4 DEF SdData, SdVolt, SetsVoltage, timing
<1>7. SdUp' /\ MmcModes' /\ MmcTimed' /\ MmcUp' /\ MmcFailed' /\ MmcTuned'
  BY <1>3, <1>4 DEF SdUp, MmcModes, MmcTimed, MmcUp, MmcFailed, MmcTuned
<1> QED
  BY <1>5, <1>6, <1>7

LEMMA SdWidthKeeps ==
  ASSUME PowerUpInv, SdWidth
  PROVE  PowerUpInv'
<1>1. /\ stage = "sd_width" /\ IsSd /\ phase = "command"
      /\ stage' \in SdChosen /\ phase' = "command" /\ UNCHANGED <<drv, dev>>
      /\ card' = [card EXCEPT !.width = 4] /\ host' = [host EXCEPT !.width = 4]
  BY DEF SdWidth, AfterWidth, Control, SetBusWidth
<1>2. Fastest' = Fastest
  BY <1>1, FastestSame
<1>3. /\ card' \in CardStates /\ card'.width = 4 /\ card'.is = card.is
      /\ card'.volt = card.volt /\ card'.ddr = card.ddr /\ card'.mode = card.mode
      /\ card'.strobed = card.strobed
  BY <1>1 DEF CardTypeOK, CardStates, BusWidths
<1>4. /\ host' \in Hosts /\ host'.width = 4 /\ host'.volt = host.volt
      /\ host'.freq = host.freq /\ (SamplesDdr(drv, host') <=> SamplesDdr(drv, host))
  BY <1>1 DEF CardTypeOK, Hosts, BusWidths, SamplesDdr
<1>5. CardTypeOK' /\ OnBoard' /\ Control' /\ Loops' /\ Slow'
  BY <1>1, <1>3, <1>4 DEF CardTypeOK, OnBoard, Control, Loops, Slow
<1>6. SdData' /\ SdVolt'
  BY <1>1, <1>2, <1>3, <1>4 DEF SdData, SdVolt, SetsVoltage
<1>7. SdUp' /\ MmcModes' /\ MmcTimed' /\ MmcUp' /\ MmcFailed' /\ MmcTuned'
  BY <1>1, <1>3 DEF SdUp, MmcModes, MmcTimed, MmcUp, MmcFailed, MmcTuned
<1> QED
  BY <1>5, <1>6, <1>7

LEMMA SdPowerKeeps ==
  ASSUME PowerUpInv, SdPower
  PROVE  PowerUpInv'
<1>1. /\ stage = "sd_power" /\ IsSd /\ phase = "command" /\ stage' = "sd_mode"
      /\ phase' = "command" /\ UNCHANGED <<drv, host, card, dev>>
  BY DEF SdPower, Control, SdData
<1>2. Fastest' = Fastest
  BY <1>1, FastestSame
<1>3. CardTypeOK' /\ OnBoard' /\ Control' /\ Loops' /\ Slow'
  BY <1>1 DEF CardTypeOK, OnBoard, Control, Loops, Slow
<1>4. SdData' /\ SdVolt'
  BY <1>1, <1>2 DEF SdData, SdVolt, SetsVoltage
<1>5. SdUp' /\ MmcModes' /\ MmcTimed' /\ MmcUp' /\ MmcFailed' /\ MmcTuned'
  BY <1>1 DEF SdUp, MmcModes, MmcTimed, MmcUp, MmcFailed, MmcTuned
<1> QED
  BY <1>3, <1>4, <1>5

LEMMA SdModeKeeps ==
  ASSUME PowerUpInv, SdMode
  PROVE  PowerUpInv'
<1> DEFINE set == SetClockAndTiming(drv, host, Fastest.freq, dev.timing, FALSE)
<1>1. /\ stage = "sd_mode" /\ IsSd /\ phase = "command" /\ drv' = drv /\ DataFits
      /\ dev.timing = Fastest.timing /\ 1 \notin dev.sf.invalid
  BY DEF SdMode, Control, SdData
<1>2. Fastest \in AccessModes
  BY FastestIsMode
<1>3. \/ card' = [card EXCEPT !.mode = Fastest.mode] /\ dev' = [dev EXCEPT !.polls = 0]
      \/ card' = card /\ dev' = [dev EXCEPT !.polls = 0, !.fault = TRUE]
  BY DEF SdMode, Accepts
<1>4. /\ card' \in CardStates /\ card'.is = card.is /\ card'.width = card.width
      /\ card'.volt = card.volt /\ card'.ddr = card.ddr /\ card'.strobed = card.strobed
      /\ card'.mode \in SdModes
      /\ card'.mode = Fastest.mode \/ (card'.mode = card.mode /\ dev'.fault)
  <2>1. Fastest.mode \in SdModes /\ card.mode \in SdModes
    BY <1>1, <1>2, AccessMode DEF CardTypeOK
  <2>2. dev' = [dev EXCEPT !.polls = 0, !.fault = TRUE] => dev'.fault
    BY DEF CardTypeOK, DevStates
  <2>3. /\ card' \in CardStates /\ card'.is = card.is /\ card'.width = card.width
        /\ card'.volt = card.volt /\ card'.ddr = card.ddr /\ card'.strobed = card.strobed
    BY <1>3, <2>1 DEF CardTypeOK, CardStates, CardModes
  <2>4. card'.mode = Fastest.mode \/ (card'.mode = card.mode /\ dev'.fault)
    <3>1. CASE card' = [card EXCEPT !.mode = Fastest.mode]
      BY <3>1 DEF CardTypeOK, CardStates
    <3>2. CASE card' = card /\ dev' = [dev EXCEPT !.polls = 0, !.fault = TRUE]
      BY <3>2, <2>2
    <3> QED
      BY <1>3, <3>1, <3>2
  <2> QED
    BY <2>1, <2>3, <2>4
<1>5. /\ dev' \in DevStates /\ dev'.sf = dev.sf /\ dev'.v18 = dev.v18
      /\ dev'.disable = dev.disable /\ dev'.timing = dev.timing /\ dev'.tries = dev.tries
      /\ dev'.restricted = dev.restricted /\ dev'.test = dev.test
      /\ dev'.polls = 0 /\ (dev.fault => dev'.fault)
  BY <1>3, Counters, ZenonT(30) DEF CardTypeOK, DevStates
<1>6. Clocked(drv, host, set, Fastest.freq, dev.timing)
  BY <1>1, <1>2, AccessMode, ClockSetPlain DEF CardTypeOK
<1>7. \/ /\ NeedsTuning(dev.timing) /\ host' = ResetTuning(drv, set) /\ stage' = "sd_tune"
         /\ phase' = "command"
      \/ /\ ~NeedsTuning(dev.timing) /\ host' = set /\ stage' = "up" /\ phase' = "command"
  BY <1>1 DEF SdMode
<1> HIDE DEF set
<1>8. /\ host' \in Hosts /\ host'.width = host.width /\ host'.volt = host.volt
      /\ SamplesDdr(drv, host') <=> MaySampleDdr(drv) /\ dev.timing \in DdrTimings
  BY <1>6, <1>7, TuningReset DEF Clocked, SameBus, CardTypeOK
<1>9. stage' = "up" => card'.mode # "ddr50" /\ dev.timing # "uhs_ddr50" /\ ~card'.ddr
  <2>1. card.mode # "ddr50" /\ ~card.ddr
    BY <1>1, DataFitsIs DEF SendsDdr, Slow, SdData
  <2>2. stage' = "up" => dev.timing # "uhs_ddr50"
    BY <1>7 DEF NeedsTuning
  <2>3. Fastest.mode = "ddr50" <=> dev.timing = "uhs_ddr50"
    BY <1>1, <1>2, AccessMode
  <2> QED
    BY <1>4, <2>1, <2>2, <2>3
<1>10. ~NeedsTuning(dev.timing) <=> stage' = "up"
  BY <1>7
<1>11. NeedsTuning(dev.timing) => dev.timing \in UhsTimings
  BY DEF NeedsTuning, UhsTimings
<1>12. NeedsTuning(dev.timing)' = NeedsTuning(dev.timing)
  BY <1>1, <1>5 DEF NeedsTuning
<1>13. dev.timing \in DdrTimings <=> dev.timing = "uhs_ddr50"
  BY <1>1, <1>2, AccessMode
<1>14. CardTypeOK' /\ OnBoard' /\ Control' /\ Slow'
  BY <1>1, <1>4, <1>5, <1>7, <1>8 DEF CardTypeOK, OnBoard, Control, Slow
<1>15. Loops'
  BY <1>5, <1>7, Counters DEF Loops
<1>16. SdData'
  BY <1>1, <1>4, <1>5, <1>7, <1>8, <1>11, <1>12 DEF SdData, DataFits
<1>17. SdVolt'
  BY <1>1, <1>4, <1>5, <1>7, <1>8 DEF SdVolt, SetsVoltage
<1>18. SdUp'
  BY <1>1, <1>4, <1>8, <1>9, <1>10, <1>12, <1>13 DEF SdUp, SendsDdr
<1>19. MmcModes' /\ MmcTimed' /\ MmcUp' /\ MmcFailed' /\ MmcTuned'
  BY <1>1, <1>4, <1>5, <1>7 DEF MmcModes, MmcTimed, MmcUp, MmcFailed, MmcTuned
<1> QED
  BY <1>14, <1>15, <1>16, <1>17, <1>18, <1>19

LEMMA SdTuneKeeps ==
  ASSUME PowerUpInv, SdTune
  PROVE  PowerUpInv'
<1>1. /\ stage = "sd_tune" /\ IsSd /\ phase = "command" /\ UNCHANGED <<drv, card>>
      /\ NeedsTuning(dev.timing) /\ dev.timing \in UhsTimings
      /\ host.width = card.width /\ drv \in Drivers /\ host \in Hosts
      /\ dev.timing \in Timings /\ ~card.ddr /\ ~card.strobed
  BY DEF SdTune, Control, SdData, CardTypeOK, DevStates
<1>2. CASE /\ SdCanTune
           /\ host' = EnableAutoTuning(drv, Tuned(StartTuning(drv, host), dev.timing))
           /\ Goto("up") /\ UNCHANGED dev
  <2> DEFINE tuned == Tuned(StartTuning(drv, host), dev.timing)
  <2>1. SameBus(drv, host, StartTuning(drv, host))
    BY <1>1, TuningStarted
  <2>2. SameBus(drv, StartTuning(drv, host), tuned) /\ tuned.tuned = dev.timing
    BY <1>1, <2>1, TunedHost DEF SameBus
  <2> HIDE DEF tuned
  <2>3. SameBus(drv, tuned, host') /\ host'.tuned = dev.timing
    BY <1>1, <1>2, <2>2, AutoTuningEnabled DEF SameBus, tuned
  <2>4. SameBus(drv, host, host')
    BY <2>1, <2>2, <2>3 DEF SameBus
  <2>5. SamplesDdr(drv, host) <=> SendsDdr(card)
    BY <1>2, DataFitsIs DEF SdCanTune
  <2>6. CardTypeOK' /\ OnBoard' /\ Control' /\ Loops' /\ Slow'
    BY <1>1, <1>2, <2>4 DEF SameBus, CardTypeOK, OnBoard, Control, Loops, Slow
  <2>7. SdData' /\ SdVolt'
    BY <1>1, <1>2, <2>4 DEF SameBus, SdData, SdVolt, SetsVoltage
  <2>8. SdUp'
    BY <1>1, <1>2, <2>3, <2>4, <2>5 DEF SameBus, SdUp, SendsDdr
  <2>9. MmcModes' /\ MmcTimed' /\ MmcUp' /\ MmcFailed' /\ MmcTuned'
    BY <1>1, <1>2 DEF MmcModes, MmcTimed, MmcUp, MmcFailed, MmcTuned
  <2> QED
    BY <2>6, <2>7, <2>8, <2>9
<1>3. CASE /\ dev.polls + 1 < MaxTunings
           /\ host' = StartTuning(drv, host)
           /\ dev' = [dev EXCEPT !.polls = @ + 1]
           /\ UNCHANGED <<stage, phase>>
  <2>1. SameBus(drv, host, host')
    BY <1>1, <1>3, TuningStarted
  <2>2. dev.polls + 1 \in Polls
    BY <1>3, Counters DEF CardTypeOK, DevStates
  <2>3. /\ dev' \in DevStates /\ dev'.sf = dev.sf /\ dev'.v18 = dev.v18
        /\ dev'.disable = dev.disable /\ dev'.timing = dev.timing /\ dev'.tries = dev.tries
        /\ dev'.restricted = dev.restricted /\ dev'.test = dev.test
        /\ dev'.polls = dev.polls + 1 /\ dev'.fault = dev.fault
    BY <1>3, <2>2 DEF CardTypeOK, DevStates
  <2>4. NeedsTuning(dev.timing)'
    BY <1>1, <2>3 DEF NeedsTuning
  <2>6. CardTypeOK' /\ OnBoard' /\ Control' /\ Loops' /\ Slow'
    BY <1>1, <1>3, <2>1, <2>3 DEF SameBus, CardTypeOK, OnBoard, Control, Loops, Slow
  <2>7. SdData' /\ SdVolt'
    BY <1>1, <1>3, <2>1, <2>3, <2>4 DEF SameBus, SdData, SdVolt, SetsVoltage
  <2>9. SdUp' /\ MmcModes' /\ MmcTimed' /\ MmcUp' /\ MmcFailed' /\ MmcTuned'
    BY <1>1, <1>3 DEF SdUp, MmcModes, MmcTimed, MmcUp, MmcFailed, MmcTuned
  <2> QED
    BY <2>6, <2>7, <2>9
<1>4. CASE /\ host' = SetClockAndTiming(drv, host, 400 * KHz, "legacy", FALSE)
           /\ dev' = [dev EXCEPT !.disable = Disabled(dev.timing), !.fault = TRUE,
                                 !.failed = @ \cup {dev.timing}]
           /\ Goto("sd_choose")
  <2>1. "legacy" \in Timings /\ "legacy" \notin DdrTimings
    BY DEF Timings, DdrTimings
  <2>2. 400 * KHz \in Nat \ {0} /\ 25 * MHz \in Nat /\ 400 * KHz <= 25 * MHz
    BY DEF MHz, KHz
  <2>3. Clocked(drv, host, host', 400 * KHz, "legacy")
    <3>1. Clocked(drv, host, SetClockAndTiming(drv, host, 400 * KHz, "legacy", FALSE),
                  400 * KHz, "legacy")
      BY <1>1, <2>1, <2>2, ClockSetPlain
    <3> QED
      BY <1>4, <3>1, Zenon
  <2>4. /\ host' \in Hosts /\ host'.width = host.width /\ host'.volt = host.volt
        /\ host'.freq <= 25 * MHz /\ ~SamplesDdr(drv, host')
    BY <2>1, <2>2, <2>3 DEF Clocked, Hosts
  <2>5. /\ Disabled(dev.timing) \in SUBSET ModeNames
        /\ dev.failed \cup {dev.timing} \in SUBSET ModeNames
    BY <1>1 DEF Disabled, CardTypeOK, DevStates, ModeNames
  <2>6. /\ dev' \in DevStates /\ dev'.sf = dev.sf /\ dev'.v18 = dev.v18
        /\ dev'.timing = dev.timing /\ dev'.tries = dev.tries /\ dev'.fault
        /\ dev'.restricted = dev.restricted /\ dev'.test = dev.test
    BY <1>4, <2>5 DEF CardTypeOK, DevStates
  <2>11. stage' = "sd_choose" /\ phase' = "command"
    BY <1>4
  <2>7. CardTypeOK' /\ OnBoard' /\ Control' /\ Loops' /\ Slow'
    BY <1>1, <2>11, <2>4, <2>6 DEF CardTypeOK, OnBoard, Control, Loops, Slow
  <2>8. SdData'
    BY <1>1, <2>11, <2>4, <2>6 DEF SdData
  <2>10. SdVolt'
    BY <1>1, <2>11, <2>4, <2>6 DEF SdVolt, SetsVoltage
  <2>9. SdUp' /\ MmcModes' /\ MmcTimed' /\ MmcUp' /\ MmcFailed' /\ MmcTuned'
    BY <1>1, <2>11, <2>6 DEF SdUp, MmcModes, MmcTimed, MmcUp, MmcFailed, MmcTuned
  <2> QED
    BY <2>7, <2>8, <2>9, <2>10
<1> QED
  BY <1>2, <1>3, <1>4 DEF SdTune

LEMMA SdMisreadKeeps ==
  ASSUME PowerUpInv, SdMisread
  PROVE  PowerUpInv'
<1>1. /\ stage # "start" /\ stage' = "failed" /\ phase' = "command"
      /\ UNCHANGED <<drv, host, card, dev>>
  BY DEF SdMisread, SdReads, Throw
<1>2. CardTypeOK' /\ OnBoard' /\ Control' /\ Loops' /\ Slow'
  BY <1>1 DEF CardTypeOK, OnBoard, Control, Loops, Slow
<1>3. SdData'
  BY <1>1 DEF SdData
<1>5. SdVolt'
  BY <1>1 DEF SdVolt, SetsVoltage
<1>4. SdUp' /\ MmcModes' /\ MmcTimed' /\ MmcUp' /\ MmcFailed' /\ MmcTuned'
  BY <1>1 DEF SdUp, MmcModes, MmcTimed, MmcUp, MmcFailed, MmcTuned
<1> QED
  BY <1>2, <1>3, <1>4, <1>5

LEMMA MmcProbeKeeps ==
  ASSUME PowerUpInv, MmcProbe
  PROVE  PowerUpInv'
<1> DEFINE fault == dev.fault \/ card.is.kind = "sd"
<1>1. /\ stage = "mmc_probe" /\ phase' = "command"
      /\ stage' = IF card.is.kind = "mmc" THEN "mmc_idle" ELSE "failed"
      /\ UNCHANGED <<drv, host, card>> /\ dev' = [dev EXCEPT !.fault = fault]
  BY DEF MmcProbe
<1>2. fault \in BOOLEAN /\ (dev.fault => fault)
  OBVIOUS
<1>3. card.is.kind \in {"sd", "mmc"}
  BY DEF CardTypeOK, CardStates, Cards, SdCards, MmcCards
<1> HIDE DEF fault
<1>4. Counted /\ dev'.tries = dev.tries
  BY <1>1, <1>2 DEF Counted, CardTypeOK, DevStates
<1>5. CardTypeOK' /\ OnBoard' /\ Control' /\ Loops' /\ Slow'
  BY <1>1, <1>3, <1>4 DEF Counted, CardTypeOK, OnBoard, Control, Loops, Slow
<1>6. SdData'
  BY <1>1, <1>3, <1>4 DEF Counted, SdData
<1>7. SdVolt'
  BY <1>1, <1>4 DEF Counted, SdVolt, SetsVoltage
<1>8. SdUp' /\ MmcModes' /\ MmcTimed' /\ MmcUp' /\ MmcFailed' /\ MmcTuned'
  BY <1>1, <1>4 DEF Counted, SdUp, MmcModes, MmcTimed, MmcUp, MmcFailed, MmcTuned
<1> QED
  BY <1>5, <1>6, <1>7, <1>8

LEMMA MmcIdleKeeps ==
  ASSUME PowerUpInv, MmcIdle
  PROVE  PowerUpInv'
<1>1. /\ stage = "mmc_idle" /\ ~IsSd /\ stage' = "mmc_op_cond" /\ phase' = "command"
      /\ UNCHANGED <<drv, host>> /\ card' = Idle(card) /\ dev' = [dev EXCEPT !.polls = 0]
  BY DEF MmcIdle, Control
<1>2. /\ dev' \in DevStates /\ dev'.v18 = dev.v18 /\ dev'.disable = dev.disable
      /\ dev'.sf = dev.sf /\ dev'.timing = dev.timing /\ dev'.restricted = dev.restricted
      /\ dev'.test = dev.test /\ dev'.tries = dev.tries /\ dev'.polls = 0
  BY <1>1, Counters DEF CardTypeOK, DevStates
<1>3. CardTypeOK' /\ OnBoard' /\ Control' /\ Slow'
  BY <1>1, <1>2, IdleCard DEF CardTypeOK, OnBoard, Control, Slow
<1>4. Loops'
  BY <1>1, <1>2, Counters DEF Loops
<1>5. SdData' /\ SdVolt'
  BY <1>1, <1>2, IdleCard DEF SdData, SdVolt
<1>6. SdUp' /\ MmcModes' /\ MmcTimed' /\ MmcUp' /\ MmcFailed' /\ MmcTuned'
  BY <1>1, <1>2, IdleCard DEF SdUp, MmcModes, MmcTimed, MmcUp, MmcFailed, MmcTuned
<1> QED
  BY <1>3, <1>4, <1>5, <1>6

LEMMA MmcOpCondKeeps ==
  ASSUME PowerUpInv, MmcOpCond
  PROVE  PowerUpInv'
<1> DEFINE fault == dev.fault \/ dev.polls + 1 = MaxTries
<1>1. stage = "mmc_op_cond" /\ ~IsSd /\ phase = "command"
  BY DEF MmcOpCond, Control
<1>2. dev' \in DevStates
  <2>1. \/ dev' = [dev EXCEPT !.polls = dev.polls + 1, !.fault = fault]
        \/ dev' = [dev EXCEPT !.tries = 0]
    BY DEF MmcOpCond
  <2>2. fault \in BOOLEAN
    OBVIOUS
  <2>3. dev.polls + 1 \in Polls
    <3>1. dev.polls < MaxTries /\ dev.polls \in Nat
      BY <1>1, Counters DEF Loops, CardTypeOK, DevStates
    <3> QED
      BY <3>1, Counters
  <2> HIDE DEF fault
  <2> QED
    BY <2>1, <2>2, <2>3, Counters, ZenonT(30) DEF CardTypeOK, DevStates
<1>3. Counted
  BY <1>2 DEF MmcOpCond, Counted, CardTypeOK, DevStates
<1>4. /\ phase' = "command" /\ stage' \in {"mmc_op_cond", "mmc_cid", "failed"}
      /\ stage' = "mmc_op_cond" => dev'.polls < MaxTries
      /\ stage' = "mmc_cid" => dev'.tries = 0
  BY <1>1 DEF MmcOpCond, CardTypeOK, DevStates
<1>5. CardTypeOK' /\ OnBoard' /\ Control' /\ Loops' /\ Slow'
  BY <1>1, <1>3, <1>4 DEF Counted, CardTypeOK, OnBoard, Control, Loops, Slow
<1>6. SdData' /\ SdVolt'
  BY <1>1, <1>3, <1>4 DEF Counted, SdData, SdVolt
<1>7. SdUp' /\ MmcModes' /\ MmcTimed' /\ MmcUp' /\ MmcFailed' /\ MmcTuned'
  BY <1>1, <1>3, <1>4 DEF Counted, SdUp, MmcModes, MmcTimed, MmcUp, MmcFailed, MmcTuned
<1> QED
  BY <1>5, <1>6, <1>7

LEMMA MmcCidKeeps ==
  ASSUME PowerUpInv, MmcCid
  PROVE  PowerUpInv'
<1>1. stage = "mmc_cid" /\ ~IsSd /\ phase = "command"
  BY DEF MmcCid, Control
<1>2. dev' \in DevStates
  <2>1. dev' = [dev EXCEPT !.tries = dev.tries + 1, !.fault = TRUE] \/ dev' = dev
    BY DEF MmcCid
  <2>2. dev.tries + 1 \in Tries
    <3>1. dev.tries < 5 /\ dev.tries \in Nat
      BY <1>1, Counters DEF Loops, CardTypeOK, DevStates
    <3> QED
      BY <3>1, Counters
  <2> QED
    BY <2>1, <2>2 DEF CardTypeOK, DevStates
<1>3. Counted
  BY <1>2 DEF MmcCid, Counted, CardTypeOK, DevStates
<1>4. /\ phase' = "command" /\ stage' \in {"mmc_cid", "mmc_rca", "failed"}
      /\ stage' = "mmc_cid" => dev'.tries < 5
  BY <1>1 DEF MmcCid, CardTypeOK, DevStates
<1>5. CardTypeOK' /\ OnBoard' /\ Control' /\ Loops' /\ Slow'
  BY <1>1, <1>3, <1>4 DEF Counted, CardTypeOK, OnBoard, Control, Loops, Slow
<1>6. SdData' /\ SdVolt'
  BY <1>1, <1>3, <1>4 DEF Counted, SdData, SdVolt
<1>7. SdUp' /\ MmcModes' /\ MmcTimed' /\ MmcUp' /\ MmcFailed' /\ MmcTuned'
  BY <1>1, <1>3, <1>4 DEF Counted, SdUp, MmcModes, MmcTimed, MmcUp, MmcFailed, MmcTuned
<1> QED
  BY <1>5, <1>6, <1>7

LEMMA MmcIdentifyKeeps ==
  ASSUME PowerUpInv, MmcIdentify
  PROVE  PowerUpInv'
<1>1. /\ stage \in MmcIdentifies /\ stage' \in {"mmc_csd", "mmc_select", "mmc_ext_csd"}
      /\ phase' = "command" /\ UNCHANGED <<drv, host, card, dev>>
  <2>1. PICK n \in 1 .. 3 :
          /\ stage = MmcSteps[n] /\ stage' = MmcSteps[n + 1] /\ phase' = "command"
          /\ UNCHANGED <<drv, host, card, dev>>
    BY DEF MmcIdentify, MmcSteps
  <2>2. n = 1 \/ n = 2 \/ n = 3
    OBVIOUS
  <2> QED
    BY <2>1, <2>2 DEF MmcSteps
<1>2. CardTypeOK' /\ OnBoard' /\ Control' /\ Loops' /\ Slow'
  BY <1>1 DEF CardTypeOK, OnBoard, Control, Loops, Slow
<1>3. SdData' /\ SdVolt'
  BY <1>1 DEF Control, SdData, SdVolt
<1>4. SdUp' /\ MmcModes' /\ MmcTimed' /\ MmcUp' /\ MmcFailed' /\ MmcTuned'
  BY <1>1 DEF SdUp, MmcModes, MmcTimed, MmcUp, MmcFailed, MmcTuned
<1> QED
  BY <1>2, <1>3, <1>4

LEMMA MmcExtCsdKeeps ==
  ASSUME PowerUpInv, MmcExtCsd
  PROVE  PowerUpInv'
<1>1. stage = "mmc_ext_csd" /\ ~IsSd /\ phase' = "command" /\ UNCHANGED <<drv, host, card>>
  BY DEF MmcExtCsd, Throw, Control
<1>2. CASE stage' = "failed" /\ UNCHANGED dev
  <2>1. CardTypeOK' /\ OnBoard' /\ Control' /\ Loops' /\ Slow'
    BY <1>1, <1>2 DEF CardTypeOK, OnBoard, Control, Loops, Slow
  <2>2. SdData' /\ SdVolt' /\ SdUp' /\ MmcModes' /\ MmcTimed' /\ MmcUp'
        /\ MmcFailed' /\ MmcTuned'
    BY <1>1, <1>2 DEF SdData, SdVolt, SdUp, MmcModes, MmcTimed, MmcUp, MmcFailed, MmcTuned
  <2> QED
    BY <2>1, <2>2
<1>3. CASE /\ stage' = "erase_group"
           /\ dev' = [dev EXCEPT !.restricted = card.is.modes \ dev.disable,
                                 !.strobe = card.is.strobe]
  <2>1. card.is.modes \ dev.disable \in SUBSET MmcTypes /\ card.is.strobe \in BOOLEAN
    BY <1>1 DEF CardTypeOK, CardStates, Cards, SdCards, MmcCards
  <2>2. /\ dev' \in DevStates /\ dev'.v18 = dev.v18 /\ dev'.disable = dev.disable
        /\ dev'.sf = dev.sf /\ dev'.timing = dev.timing /\ dev'.test = dev.test
        /\ dev'.restricted = Allowed /\ dev'.strobe = card.is.strobe
    BY <1>3, <2>1 DEF CardTypeOK, DevStates, Allowed
  <2>3. CardTypeOK' /\ OnBoard' /\ Control' /\ Loops' /\ Slow'
    BY <1>1, <1>3, <2>2 DEF CardTypeOK, OnBoard, Control, Loops, Slow
  <2>4. SdData' /\ SdVolt'
    BY <1>1, <1>3, <2>2 DEF SdData, SdVolt
  <2>5. SdUp' /\ MmcModes' /\ MmcTimed' /\ MmcUp'
    BY <1>1, <1>3, <2>2 DEF SdUp, MmcModes, Allowed, MmcTimed, MmcUp
  <2>6. MmcFailed'
    <3>1. Hs400ThroughHs200 /\ "hs400" \in Allowed => "hs200" \in Allowed
      BY <1>1 DEF OnBoard, Hs400ThroughHs200, Allowed
    <3> QED
      BY <1>1, <1>3, <2>2, <3>1 DEF MmcFailed, Allowed
  <2>7. MmcTuned'
    BY <1>1, <1>3 DEF MmcTuned, StrobeFits, SdData
  <2> QED
    BY <2>3, <2>4, <2>5, <2>6, <2>7
<1> QED
  BY <1>2, <1>3 DEF MmcExtCsd, Throw

LEMMA SetBlockLengthKeeps ==
  ASSUME PowerUpInv, SetBlockLength
  PROVE  PowerUpInv'
<1>1. /\ stage = "block_length" /\ ~IsSd /\ stage' = "power_off_notification"
      /\ phase' = "command" /\ UNCHANGED <<drv, host, card, dev>>
  BY DEF SetBlockLength, Control
<1>2. CardTypeOK' /\ OnBoard' /\ Control' /\ Loops' /\ Slow'
  BY <1>1 DEF CardTypeOK, OnBoard, Control, Loops, Slow
<1>3. SdData' /\ SdVolt' /\ SdUp' /\ MmcTimed' /\ MmcUp'
  BY <1>1 DEF SdData, SdVolt, SdUp, MmcTimed, MmcUp
<1>4. MmcModes'
  BY <1>1 DEF MmcModes, Allowed
<1>5. MmcFailed' /\ MmcTuned'
  BY <1>1 DEF MmcFailed, MmcTuned, StrobeFits, Hs400, Allowed
<1> QED
  BY <1>2, <1>3, <1>4, <1>5

-----------------------------------------------------------------------------
(* Switches of an eMMC card.                                               *)

LEMMA BestMode ==
  ASSUME NEW S, Ranks(S) # {}
  PROVE  /\ Best(S).freq \in Nat \ {0} /\ Best(S).timing \in Timings
         /\ Best(S).hs \in CardModes \ SdModes /\ Best(S).ddr \in BOOLEAN
         /\ Best(S).test \subseteq MmcTypes
         /\ "hs200" \in Best(S).test <=> Best(S).type = "hs200"
         /\ "hs400" \in Best(S).test <=> Best(S).type = "hs200"
<1>1. /\ "mmc_hs200" \in Timings /\ "mmc_ddr52" \in Timings /\ "hs" \in Timings
      /\ "hs200" \in CardModes \ SdModes /\ "hs" \in CardModes \ SdModes
      /\ "compat" \in CardModes \ SdModes
      /\ MmcTypes = {"hs400", "hs200", "hs52_ddr", "hs52", "hs26"}
  BY DEF Timings, CardModes, SdModes, MmcTypes
<1>2. 200 * MHz \in Nat \ {0} /\ 52 * MHz \in Nat \ {0} /\ 26 * MHz \in Nat \ {0}
  BY DEF MHz, KHz
<1>3. CASE Best(S) = MmcPreference[1]
  <2>1. /\ Best(S).freq = 200 * MHz /\ Best(S).timing = "mmc_hs200" /\ Best(S).hs = "hs200"
        /\ Best(S).type = "hs200" /\ Best(S).test = {"hs400", "hs200"}
    BY <1>3 DEF MmcPreference
  <2>2. Best(S).ddr = FALSE
    BY <1>3 DEF MmcPreference
  <2> QED
    BY <1>1, <1>2, <2>1, <2>2, ZenonT(30)
<1>4. CASE Best(S) = MmcPreference[2]
  <2>1. /\ Best(S).freq = 52 * MHz /\ Best(S).timing = "mmc_ddr52" /\ Best(S).hs = "hs"
        /\ Best(S).type = "hs52_ddr" /\ Best(S).test = {"hs52_ddr"}
    BY <1>4 DEF MmcPreference
  <2>2. Best(S).ddr = TRUE
    BY <1>4 DEF MmcPreference
  <2>3. /\ Best(S).test \subseteq MmcTypes
        /\ "hs200" \notin Best(S).test /\ "hs400" \notin Best(S).test
        /\ Best(S).type # "hs200"
    BY <1>1, <2>1
  <2>4. Best(S).freq \in Nat \ {0}
    BY <1>2, <2>1
  <2>5. Best(S).timing \in Timings /\ Best(S).hs \in CardModes \ SdModes
    BY <1>1, <2>1
  <2>6. Best(S).ddr \in BOOLEAN
    BY <2>2
  <2> QED
    BY <2>3, <2>4, <2>5, <2>6
<1>5. CASE Best(S) = MmcPreference[3]
  <2>1. /\ Best(S).freq = 52 * MHz /\ Best(S).timing = "hs" /\ Best(S).hs = "hs"
        /\ Best(S).type = "hs52" /\ Best(S).test = {"hs52"}
    BY <1>5 DEF MmcPreference
  <2>2. Best(S).ddr = FALSE
    BY <1>5 DEF MmcPreference
  <2>3. /\ Best(S).test \subseteq MmcTypes
        /\ "hs200" \notin Best(S).test /\ "hs400" \notin Best(S).test
        /\ Best(S).type # "hs200"
    BY <1>1, <2>1
  <2>4. Best(S).freq \in Nat \ {0}
    BY <1>2, <2>1
  <2>5. Best(S).timing \in Timings /\ Best(S).hs \in CardModes \ SdModes
    BY <1>1, <2>1
  <2>6. Best(S).ddr \in BOOLEAN
    BY <2>2
  <2> QED
    BY <2>3, <2>4, <2>5, <2>6
<1>6. CASE Best(S) = MmcPreference[4]
  <2>1. /\ Best(S).freq = 26 * MHz /\ Best(S).timing = "hs" /\ Best(S).hs = "compat"
        /\ Best(S).type = "hs26" /\ Best(S).test = {"hs26"}
    BY <1>6 DEF MmcPreference
  <2>2. Best(S).ddr = FALSE
    BY <1>6 DEF MmcPreference
  <2>3. /\ Best(S).test \subseteq MmcTypes
        /\ "hs200" \notin Best(S).test /\ "hs400" \notin Best(S).test
        /\ Best(S).type # "hs200"
    BY <1>1, <2>1
  <2>4. Best(S).freq \in Nat \ {0}
    BY <1>2, <2>1
  <2>5. Best(S).timing \in Timings /\ Best(S).hs \in CardModes \ SdModes
    BY <1>1, <2>1
  <2>6. Best(S).ddr \in BOOLEAN
    BY <2>2
  <2> QED
    BY <2>3, <2>4, <2>5, <2>6
<1> QED
  BY BestIs, <1>3, <1>4, <1>5, <1>6

LEMMA NewTimingIs ==
  ASSUME stage \in TimingSteps, Ranks(dev.restricted) # {}
  PROVE  /\ NewTiming.freq \in Nat \ {0} /\ NewTiming.timing \in Timings
         /\ NewTiming.hs \in CardModes \ SdModes
  BY BestMode DEF NewTiming, Chosen, Timings, CardModes, SdModes, MHz, KHz

LEMMA TimingNotLegacy ==
  ASSUME stage \in TimingSteps, Ranks(dev.restricted) # {}
  PROVE  NewTiming.timing # "legacy"
<1>1. Chosen.timing # "legacy"
  BY BestIs DEF Chosen, MmcPreference
<1> QED
  BY <1>1 DEF NewTiming

LEMMA NewTimingSame ==
  ASSUME stage' = stage, dev'.restricted = dev.restricted
  PROVE  NewTiming' = NewTiming
  BY DEF NewTiming, Chosen

\* What no step of the SWITCHes changes, and what those parts need that are about
\* SD cards and the slow bus.
Settling ==
  /\ ~IsSd /\ drv' = drv /\ host' \in Hosts
  /\ card' \in CardStates /\ card'.is = card.is /\ card'.mode \notin SdModes
  /\ dev' \in DevStates /\ dev'.disable = dev.disable /\ dev'.sf = dev.sf
  /\ dev'.timing = dev.timing /\ dev'.v18 = dev.v18
  /\ dev'.strobe = dev.strobe /\ dev'.restricted \subseteq dev.restricted
  /\ stage \in MmcStages \ MmcIdentifies
  /\ stage' \in (MmcStages \ MmcIdentifies) \cup {"up", "failed"}

LEMMA SettlingKeeps ==
  ASSUME PowerUpInv, Settling
  PROVE  CardTypeOK' /\ OnBoard' /\ Slow' /\ SdData' /\ SdVolt' /\ SdUp'
<1>1. CardTypeOK'
  BY DEF Settling, CardTypeOK
<1>2. OnBoard'
  BY DEF Settling, OnBoard
<1>3. Slow'
  BY DEF Settling, Slow
<1>4. SdData'
  BY DEF Settling, SdData
<1>5. SdVolt' /\ SdUp'
  BY DEF Settling, SdVolt, SdUp
<1> QED
  BY <1>1, <1>2, <1>3, <1>4, <1>5

\* On the way to HS400 the mode is HS200.
LEMMA Hs400First ==
  ASSUME PowerUpInv, Hs400ThroughHs200, stage \in MmcAttempts, Hs400
  PROVE  /\ Chosen.type = "hs200" /\ Chosen.hs = "hs200" /\ Chosen.ddr = FALSE
         /\ Chosen.test = {"hs400", "hs200"}
         /\ stage \in MmcEnters => dev.test = {"hs400"}
         /\ stage \notin MmcEnters => "hs200" \in dev.test
<1>1. "hs200" \in dev.restricted /\ Ranks(dev.restricted) # {}
  BY DEF Control, MmcFailed, MmcModes, Hs400
<1>2. Chosen = MmcPreference[1]
  BY <1>1, BestIs DEF Chosen
<1>3. /\ Chosen.type = "hs200" /\ Chosen.hs = "hs200"
      /\ Chosen.test = {"hs400", "hs200"}
  BY <1>2 DEF MmcPreference
<1>4. Chosen.ddr = FALSE
  BY <1>2 DEF MmcPreference
<1> QED
  BY <1>3, <1>4 DEF MmcModes

\* The attempt at a mode is over.
LEMMA NextModeKeeps ==
  ASSUME PowerUpInv, stage \in MmcAttempts, NextMode, drv' = drv, host' \in Hosts,
         card' \in CardStates, card'.is = card.is, card'.mode \notin SdModes,
         StrobeFits(card')
  PROVE  PowerUpInv'
<1> DEFINE lost == IF stage \in MmcEnters THEN {"hs400"} ELSE dev.test
<1>1. ~IsSd /\ stage' = "mmc_choose" /\ phase' = "command"
      /\ dev' = [dev EXCEPT !.fault = TRUE, !.failed = dev.failed \cup lost]
  BY DEF NextMode, Control
<1>2. dev.failed \cup lost \in SUBSET ModeNames
  <2>1. {"hs400"} \subseteq ModeNames /\ dev.test \subseteq ModeNames
    BY DEF CardTypeOK, DevStates, ModeNames, MmcTypes
  <2> QED
    BY <2>1 DEF CardTypeOK, DevStates
<1> HIDE DEF lost
<1>3. /\ dev' \in DevStates /\ dev'.v18 = dev.v18 /\ dev'.disable = dev.disable
      /\ dev'.sf = dev.sf /\ dev'.timing = dev.timing /\ dev'.test = dev.test
      /\ dev'.restricted = dev.restricted /\ dev'.strobe = dev.strobe /\ dev'.fault
      /\ dev'.failed = dev.failed \cup lost
  BY <1>1, <1>2 DEF CardTypeOK, DevStates
<1>4. Settling
  BY <1>1, <1>3 DEF Settling
<1>5. CardTypeOK' /\ OnBoard' /\ Slow' /\ SdData' /\ SdVolt' /\ SdUp'
  BY <1>4, SettlingKeeps
<1>6. Control' /\ Loops' /\ MmcTimed' /\ MmcUp'
  BY <1>1, <1>4 DEF Settling, Control, Loops, MmcTimed, MmcUp
<1>7. MmcModes'
  BY <1>1, <1>3, <1>4 DEF Settling, MmcModes, Allowed
<1>8. MmcFailed'
  <2>1. Hs400ThroughHs200 => dev.test \subseteq lost
    BY Hs400First DEF MmcModes, lost
  <2> QED
    BY <1>1, <1>3, <1>4, <2>1 DEF Settling, MmcFailed, Allowed
<1>9. MmcTuned'
  BY <1>1, <1>3 DEF MmcTuned, StrobeFits, Hs400
<1> QED
  BY <1>5, <1>6, <1>7, <1>8, <1>9

\* The card is up.
LEMMA UpKeeps ==
  ASSUME PowerUpInv, stage \in MmcAttempts, Up(dev.test), DataFits',
         Hs400ThroughHs200 => NoModeSkipped',
         Hs400ThroughHs200 /\ StrobeHonoured => TunedWhenUp',
         drv' = drv, host' \in Hosts, card' = card
  PROVE  PowerUpInv'
<1>1. ~IsSd /\ stage' = "up" /\ phase' = "command" /\ dev' = [dev EXCEPT !.test = dev.test]
  BY DEF Up, Control
<1>2. dev' = dev
  BY <1>1 DEF CardTypeOK, DevStates
<1>3. Settling
  BY <1>1, <1>2 DEF Settling, CardTypeOK
<1>4. CardTypeOK' /\ OnBoard' /\ Slow' /\ SdData' /\ SdVolt' /\ SdUp'
  BY <1>3, SettlingKeeps
<1>5. Control' /\ Loops' /\ MmcTimed' /\ MmcUp'
  BY <1>1, <1>3 DEF Settling, Control, Loops, MmcTimed, MmcUp
<1>6. MmcModes'
  BY <1>1, <1>2, <1>3 DEF Settling, MmcModes, Allowed
<1>7. MmcFailed' /\ MmcTuned'
  BY <1>1 DEF MmcFailed, MmcTuned
<1> QED
  BY <1>4, <1>5, <1>6, <1>7

\* HS400 goes on from here.
LEMMA EnterHs400Keeps ==
  ASSUME PowerUpInv, stage \in MmcAttempts \ MmcEnters, EnterHs400, Hs400, drv' = drv,
         host' \in Hosts, card' \in CardStates, card'.is = card.is, card'.mode \notin SdModes,
         StrobeFits(card'),
         Hs400ThroughHs200 => dev.strobe \/ host'.tuned = "mmc_hs200"
  PROVE  PowerUpInv'
<1> DEFINE test == dev.test \ {"hs200"}
<1>1. ~IsSd /\ stage' = "hs400_prepare" /\ phase' = "command"
      /\ dev' = [dev EXCEPT !.test = test, !.polls = 0]
  BY DEF EnterHs400, Control
<1>2. test \in SUBSET MmcTypes
  BY DEF CardTypeOK, DevStates
<1> HIDE DEF test
<1>3. /\ dev' \in DevStates /\ dev'.v18 = dev.v18 /\ dev'.disable = dev.disable
      /\ dev'.sf = dev.sf /\ dev'.timing = dev.timing /\ dev'.test = test
      /\ dev'.restricted = dev.restricted /\ dev'.strobe = dev.strobe
      /\ dev'.failed = dev.failed
  BY <1>1, <1>2, Counters DEF CardTypeOK, DevStates
<1>4. Settling
  BY <1>1, <1>3 DEF Settling
<1>5. CardTypeOK' /\ OnBoard' /\ Slow' /\ SdData' /\ SdVolt' /\ SdUp'
  BY <1>4, SettlingKeeps
<1>6. Control' /\ Loops' /\ MmcTimed' /\ MmcUp'
  BY <1>1, <1>4 DEF Settling, Control, Loops, MmcTimed, MmcUp
<1>7. MmcModes'
  <2>1. Chosen' = Chosen
    BY <1>3 DEF Chosen
  <2> QED
    BY <1>1, <1>3, <1>4, <2>1 DEF Settling, MmcModes, Allowed, Hs400, test
<1>8. MmcFailed'
  BY <1>1, <1>3, <1>4 DEF Settling, MmcFailed, Allowed
<1>9. MmcTuned'
  BY <1>1, <1>3 DEF MmcTuned, StrobeFits, Hs400
<1> QED
  BY <1>5, <1>6, <1>7, <1>8, <1>9

LEMMA SwitchedCardIs ==
  ASSUME PowerUpInv, stage \in Switches, NEW c \in {SwitchedCard, card}
  PROVE  /\ ~IsSd /\ c \in CardStates /\ c.is = card.is /\ c.mode \notin SdModes
         /\ c.refused = card.refused
         /\ stage \in TimingSteps /\ c = SwitchedCard => c.mode = NewTiming.hs
         /\ StrobeFits(c)
<1>1. ~IsSd /\ card \in CardStates /\ card.mode \notin SdModes
  BY DEF Control, CardTypeOK
<1>2. CASE c = card /\ (c # SwitchedCard \/ stage \in Settings)
  BY <1>1, <1>2 DEF MmcTuned, StrobeFits
<1>3. CASE stage \in Widths /\ c = SwitchedCard
  <2>1. \E ddr, strobed \in BOOLEAN :
          /\ c = [card EXCEPT !.width = 8, !.ddr = ddr, !.strobed = strobed]
          /\ Hs400ThroughHs200 /\ dev.strobe /\ Hs400 /\ ddr => strobed
    <3>1. CASE stage = "width"
      <4>1. c = [card EXCEPT !.width = 8, !.ddr = Chosen.ddr, !.strobed = FALSE]
        BY <1>3, <3>1 DEF SwitchedCard
      <4>2. Chosen.ddr \in BOOLEAN
        BY <3>1, BestMode DEF MmcModes, Chosen
      <4>3. Hs400ThroughHs200 /\ Hs400 => ~Chosen.ddr
        BY <3>1, Hs400First
      <4> QED
        BY <4>1, <4>2, <4>3
    <3>2. CASE stage = "hs400_width"
      <4>1. c = [card EXCEPT !.width = 8, !.ddr = TRUE, !.strobed = dev.strobe]
        BY <1>3, <3>2 DEF SwitchedCard
      <4>2. dev.strobe \in BOOLEAN
        BY DEF CardTypeOK, DevStates
      <4> QED
        BY <4>1, <4>2
    <3> QED
      BY <1>3, <3>1, <3>2
  <2> QED
    BY <1>1, <1>3, <2>1 DEF CardStates, BusWidths, StrobeFits
<1>4. CASE stage \in TimingSteps /\ c = SwitchedCard
  <2>1. NewTiming.hs \in CardModes \ SdModes
    BY <1>4, NewTimingIs DEF MmcModes
  <2>2. c = [card EXCEPT !.mode = NewTiming.hs]
    BY <1>4 DEF SwitchedCard
  <2> QED
    BY <1>1, <1>4, <2>1, <2>2 DEF CardStates, MmcTuned, StrobeFits
<1>5. CASE stage \in Settings /\ c = SwitchedCard
  BY <1>1, <1>5 DEF SwitchedCard, MmcTuned, StrobeFits
<1> QED
  BY <1>2, <1>3, <1>4, <1>5

LEMMA SwitchFailsKeeps ==
  ASSUME PowerUpInv, stage \in Switches, SwitchFails, drv' = drv, host' = host,
         card' \in CardStates, card'.is = card.is, card'.mode \notin SdModes,
         StrobeFits(card')
  PROVE  PowerUpInv'
<1>1. ~IsSd /\ host \in Hosts
  BY DEF Control, CardTypeOK
<1>2. CASE stage \in Settings
  <2>1. stage' = "failed" /\ phase' = "command" /\ dev' = [dev EXCEPT !.fault = TRUE]
    BY <1>2 DEF SwitchFails
  <2>2. Settling /\ dev'.test = dev.test
    BY <1>1, <1>2, <2>1 DEF Settling, CardTypeOK, DevStates
  <2>3. CardTypeOK' /\ OnBoard' /\ Slow' /\ SdData' /\ SdVolt' /\ SdUp'
    BY <2>2, SettlingKeeps
  <2>4. Control' /\ Loops' /\ MmcTimed' /\ MmcUp'
    BY <2>1, <2>2 DEF Settling, Control, Loops, MmcTimed, MmcUp
  <2>5. MmcModes' /\ MmcFailed' /\ MmcTuned'
    BY <2>1, <2>2 DEF Settling, MmcModes, MmcFailed, MmcTuned
  <2> QED
    BY <2>3, <2>4, <2>5
<1>3. CASE stage \notin Settings
  <2>1. NextMode /\ stage \in MmcAttempts
    BY <1>3 DEF SwitchFails
  <2> QED
    BY <1>1, <2>1, NextModeKeeps
<1> QED
  BY <1>2, <1>3

LEMMA SwitchKeeps ==
  ASSUME PowerUpInv, Switch
  PROVE  PowerUpInv'
<1>1. stage \in Switches /\ phase = "command" /\ UNCHANGED <<drv, host>> /\ host \in Hosts
  BY DEF Switch, CardTypeOK
<1>2. CASE /\ card' \in {SwitchedCard, [card EXCEPT !.refused = TRUE]}
           /\ dev' = [dev EXCEPT !.polls = 0]
           /\ phase' = "status" /\ UNCHANGED stage
  <2>1. /\ ~IsSd /\ card' \in CardStates /\ card'.is = card.is /\ card'.mode \notin SdModes
        /\ stage \in TimingSteps => card'.refused \/ card'.mode = NewTiming.hs
        /\ StrobeFits(card')
    <3>1. CASE card' = SwitchedCard
      BY <1>1, <3>1, SwitchedCardIs
    <3>2. CASE card' = [card EXCEPT !.refused = TRUE]
      BY <1>1, <3>2 DEF CardTypeOK, CardStates, Control, MmcTuned, StrobeFits
    <3> QED
      BY <1>2, <3>1, <3>2
  <2>2. /\ dev' \in DevStates /\ dev'.v18 = dev.v18 /\ dev'.disable = dev.disable
        /\ dev'.sf = dev.sf /\ dev'.timing = dev.timing /\ dev'.test = dev.test
        /\ dev'.restricted = dev.restricted /\ dev'.strobe = dev.strobe /\ dev'.polls = 0
        /\ dev'.fault = dev.fault /\ dev'.failed = dev.failed
    BY <1>2, Counters DEF CardTypeOK, DevStates
  <2>3. NewTiming' = NewTiming /\ Chosen' = Chosen
    BY <1>2, <2>2, NewTimingSame DEF Chosen
  <2>4. Settling
    BY <1>1, <1>2, <2>1, <2>2 DEF Settling
  <2>5. CardTypeOK' /\ OnBoard' /\ Slow' /\ SdData' /\ SdVolt' /\ SdUp'
    BY <2>4, SettlingKeeps
  <2>6. Control' /\ Loops' /\ MmcUp'
    BY <1>1, <1>2, <2>2, <2>4, Counters DEF Settling, Control, Loops, MmcUp
  <2>7. MmcTimed'
    BY <1>2, <2>1, <2>3 DEF MmcTimed
  <2>8. MmcModes'
    BY <1>1, <1>2, <2>1, <2>2, <2>3 DEF MmcModes, Allowed, Hs400
  <2>9. MmcFailed'
    BY <1>2, <2>2, <2>4 DEF Settling, MmcFailed, Allowed
  <2>10. MmcTuned'
    BY <1>1, <1>2, <2>1, <2>2 DEF MmcTuned, StrobeFits, Hs400
  <2> QED
    BY <2>5, <2>6, <2>7, <2>8, <2>9, <2>10
<1>3. CASE card' \in {SwitchedCard, card} /\ SwitchFails
  <2>1. card' \in CardStates /\ card'.is = card.is /\ card'.mode \notin SdModes
        /\ StrobeFits(card')
    BY <1>1, <1>3, SwitchedCardIs
  <2> QED
    BY <1>1, <1>3, <2>1, SwitchFailsKeeps
<1> QED
  BY <1>2, <1>3 DEF Switch

\* A setting: refused or not, the next one follows.
LEMMA SettingKeeps ==
  ASSUME PowerUpInv, stage \in Settings, drv' = drv, host' = host,
         card' = [card EXCEPT !.refused = FALSE], Goto(AfterSetting(stage)),
         dev' = [dev EXCEPT !.cache = @ \/ stage = "cache", !.fault = @ \/ card.refused]
  PROVE  PowerUpInv'
<1> DEFINE cache == dev.cache \/ stage = "cache"
           fault == dev.fault \/ card.refused
<1>1. ~IsSd /\ stage' \in MmcSettles \cup {"mmc_choose"} /\ phase' = "command"
  BY DEF AfterSetting, Control
<1>2. /\ card' \in CardStates /\ card'.is = card.is /\ card'.mode = card.mode
      /\ card.mode \notin SdModes /\ card'.ddr = card.ddr /\ card'.strobed = card.strobed
  BY <1>1 DEF CardTypeOK, CardStates
<1>3. dev' = [dev EXCEPT !.cache = cache, !.fault = fault]
  OBVIOUS
<1>4. cache \in BOOLEAN /\ fault \in BOOLEAN
  OBVIOUS
<1> HIDE DEF cache, fault
<1>5. /\ dev' \in DevStates /\ dev'.v18 = dev.v18 /\ dev'.disable = dev.disable
      /\ dev'.sf = dev.sf /\ dev'.timing = dev.timing /\ dev'.test = dev.test
      /\ dev'.restricted = dev.restricted /\ dev'.strobe = dev.strobe
      /\ dev'.failed = dev.failed
  BY <1>3, <1>4 DEF CardTypeOK, DevStates
<1>6. Settling
  BY <1>1, <1>2, <1>5 DEF Settling, CardTypeOK
<1>7. CardTypeOK' /\ OnBoard' /\ Slow' /\ SdData' /\ SdVolt' /\ SdUp'
  BY <1>6, SettlingKeeps
<1>8. Control' /\ Loops' /\ MmcTimed' /\ MmcUp'
  BY <1>1, <1>6 DEF Settling, Control, Loops, MmcTimed, MmcUp
<1>9. MmcModes'
  BY <1>1, <1>2, <1>5 DEF MmcModes, Allowed
<1>10. MmcFailed'
  BY <1>1, <1>5, <1>6 DEF Settling, MmcFailed, MmcModes, Allowed
<1>11. MmcTuned'
  BY <1>1, <1>2, <1>5 DEF MmcTuned, StrobeFits, Hs400
<1> QED
  BY <1>7, <1>8, <1>9, <1>10, <1>11

\* A width.
LEMMA WidthKeeps ==
  ASSUME PowerUpInv, stage \in Widths, drv' = drv, AfterWidthSwitch, host' \in Hosts,
         host'.tuned = host.tuned,
         card' = [card EXCEPT !.refused = FALSE]
  PROVE  PowerUpInv'
<1>1. /\ ~IsSd /\ card' \in CardStates /\ card'.is = card.is /\ card'.mode \notin SdModes
      /\ StrobeFits(card')
  BY DEF CardTypeOK, CardStates, Control, MmcTuned, StrobeFits
<1>2. CASE EnterHs400 /\ Hs400 /\ dev.strobe /\ stage = "width"
  BY <1>1, <1>2, EnterHs400Keeps
<1>3. CASE /\ \/ stage = "width" /\ stage' = "timing"
              \/ stage = "hs400_width" /\ stage' = "hs400"
           /\ phase' = "command" /\ dev' = dev
  <2>1. Settling
    BY <1>1, <1>3 DEF Settling, CardTypeOK
  <2>2. CardTypeOK' /\ OnBoard' /\ Slow' /\ SdData' /\ SdVolt' /\ SdUp'
    BY <2>1, SettlingKeeps
  <2>3. Control' /\ Loops' /\ MmcTimed' /\ MmcUp'
    BY <1>3, <2>1 DEF Settling, Control, Loops, MmcTimed, MmcUp
  <2>4. MmcModes'
    <3>1. Chosen' = Chosen
      BY <1>3 DEF Chosen
    <3> QED
      BY <1>1, <1>3, <3>1 DEF MmcModes, Allowed, Hs400
  <2>5. MmcFailed'
    BY <1>1, <1>3 DEF MmcFailed, Allowed
  <2>6. MmcTuned'
    BY <1>1, <1>3 DEF MmcTuned, StrobeFits, Hs400
  <2> QED
    BY <2>2, <2>3, <2>4, <2>5, <2>6
<1> QED
  BY <1>2, <1>3 DEF AfterWidthSwitch

\* A timing that was not refused: the controller follows.
LEMMA TimingKeeps ==
  ASSUME PowerUpInv, stage \in TimingSteps, phase = "status", ~card.refused, drv' = drv,
         host' = SetClockAndTiming(drv, host, NewTiming.freq, NewTiming.timing,
                                   stage = "hs400" /\ dev.strobe),
         phase' = "confirm", UNCHANGED <<stage, dev>>, card' = [card EXCEPT !.refused = FALSE]
  PROVE  PowerUpInv'
<1> DEFINE strobed == stage = "hs400" /\ dev.strobe
<1>1. /\ ~IsSd /\ card' \in CardStates /\ card'.is = card.is /\ card'.mode = card.mode
      /\ ~card'.refused /\ card.mode \notin SdModes /\ StrobeFits(card')
  BY DEF CardTypeOK, CardStates, Control, MmcTuned, StrobeFits
<1>2. NewTiming.freq \in Nat \ {0} /\ NewTiming.timing \in Timings
  BY NewTimingIs DEF MmcModes
<1>3. /\ Clocked(drv, host, host', NewTiming.freq, NewTiming.timing)
      /\ drv.type = "Usdhc" /\ NewTiming.timing = "mmc_hs400" /\ strobed = TRUE =>
           SamplesStrobed(host')
  <2>1. host' = SetClockAndTiming(drv, host, NewTiming.freq, NewTiming.timing, strobed)
    BY Zenon
  <2> HIDE DEF strobed
  <2> DEFINE set == SetClockAndTiming(drv, host, NewTiming.freq, NewTiming.timing, strobed)
  <2>2. /\ Clocked(drv, host, set, NewTiming.freq, NewTiming.timing)
        /\ drv.type = "Usdhc" /\ NewTiming.timing = "mmc_hs400" /\ strobed = TRUE =>
             SamplesStrobed(set)
    BY <1>2, ClockSet DEF CardTypeOK
  <2> QED
    BY <2>1, <2>2, Zenon
<1>4. host' \in Hosts /\ (host'.freq <= NewTiming.freq \/ host'.freq <= 25 * MHz)
  BY <1>3 DEF Clocked
<1>5. NewTiming' = NewTiming /\ Chosen' = Chosen
  BY NewTimingSame DEF Chosen
<1>6. Settling
  BY <1>1, <1>4 DEF Settling, CardTypeOK
<1>7. CardTypeOK' /\ OnBoard' /\ Slow' /\ SdData' /\ SdVolt' /\ SdUp'
  BY <1>6, SettlingKeeps
<1>8. Control' /\ Loops' /\ MmcUp'
  BY <1>6 DEF Settling, Control, Loops, MmcUp
<1>9. MmcTimed'
  BY <1>1, <1>4, <1>5 DEF MmcTimed
<1>10. MmcModes'
  BY <1>1, <1>5 DEF MmcModes, Allowed, Hs400
<1>11. MmcFailed'
  BY <1>1 DEF MmcFailed, Allowed
<1>12. host'.tuned = host.tuned
  BY <1>3, TimingNotLegacy DEF Clocked, MmcModes
<1>13. ASSUME Hs400ThroughHs200, StrobeHonoured, stage = "hs400", dev.strobe
       PROVE  SamplesDdr(drv, host') /\ SamplesStrobed(host')
  <2>1. drv.type = "Usdhc" /\ NewTiming.timing = "mmc_hs400" /\ strobed = TRUE
    BY <1>1, <1>13 DEF OnBoard, StrobeHonoured, MmcModes, NewTiming
  <2>2. "mmc_hs400" \in DdrTimings
    BY DEF DdrTimings
  <2> QED
    BY <1>3, <2>1, <2>2 DEF Clocked, MaySampleDdr
<1>14. MmcTuned'
  BY <1>1, <1>12, <1>13 DEF MmcTuned, StrobeFits, Hs400
<1> QED
  BY <1>7, <1>8, <1>9, <1>10, <1>11, <1>14

LEMMA SwitchStatusPollKeeps ==
  ASSUME PowerUpInv, SwitchStatusPoll
  PROVE  PowerUpInv'
<1>1. /\ stage \in Switches /\ phase = "status" /\ drv' = drv /\ ~IsSd /\ host \in Hosts
      /\ card \in CardStates /\ card.mode \notin SdModes
  BY DEF SwitchStatusPoll, CardTypeOK, Control
<1>2. CASE /\ ~card.refused /\ dev.polls + 1 < MaxPolls
           /\ dev' = [dev EXCEPT !.polls = @ + 1]
           /\ UNCHANGED <<host, card, stage, phase>>
  <2>1. dev.polls + 1 \in Polls
    BY <1>2, Counters DEF CardTypeOK, DevStates
  <2>2. /\ dev' \in DevStates /\ dev'.v18 = dev.v18 /\ dev'.disable = dev.disable
        /\ dev'.sf = dev.sf /\ dev'.timing = dev.timing /\ dev'.test = dev.test
        /\ dev'.restricted = dev.restricted /\ dev'.strobe = dev.strobe
        /\ dev'.polls = dev.polls + 1 /\ dev'.fault = dev.fault /\ dev'.failed = dev.failed
    BY <1>2, <2>1 DEF CardTypeOK, DevStates
  <2>3. NewTiming' = NewTiming /\ Chosen' = Chosen
    BY <1>2, <2>2, NewTimingSame DEF Chosen
  <2>4. Settling
    BY <1>1, <1>2, <2>2 DEF Settling
  <2>5. CardTypeOK' /\ OnBoard' /\ Slow' /\ SdData' /\ SdVolt' /\ SdUp'
    BY <2>4, SettlingKeeps
  <2>6. Control' /\ Loops' /\ MmcUp'
    BY <1>1, <1>2, <2>2, <2>4 DEF Settling, Control, Loops, MmcUp
  <2>7. MmcTimed'
    BY <1>1, <1>2, <2>3 DEF MmcTimed
  <2>8. MmcModes'
    BY <1>1, <1>2, <2>2, <2>3 DEF MmcModes, Allowed, Hs400
  <2>9. MmcFailed'
    BY <1>1, <1>2, <2>2 DEF MmcFailed, Allowed
  <2>10. MmcTuned'
    BY <1>1, <1>2, <2>2 DEF MmcTuned, StrobeFits, Hs400
  <2> QED
    BY <2>5, <2>6, <2>7, <2>8, <2>9, <2>10
<1>3. CASE card' = [card EXCEPT !.refused = FALSE] /\ SwitchDone(card.refused)
  <2>1. card' \in CardStates /\ card'.is = card.is /\ card'.mode \notin SdModes
        /\ StrobeFits(card')
    BY <1>1, <1>3 DEF CardStates, MmcTuned, StrobeFits
  <2>2. CASE stage \in Settings
    <3>1. /\ Goto(AfterSetting(stage)) /\ host' = host
          /\ dev' = [dev EXCEPT !.cache = @ \/ stage = "cache",
                                !.fault = @ \/ card.refused]
      BY <1>3, <2>2 DEF SwitchDone
    <3> QED
      BY <1>1, <1>3, <2>2, <3>1, SettingKeeps
  <2>3. CASE stage \in Widths
    <3>1. AfterWidthSwitch /\ host' \in {host, SetBusWidth(host, 8)}
      BY <1>3, <2>3 DEF SwitchDone
    <3>2. host' \in Hosts /\ host'.tuned = host.tuned
      BY <1>1, <3>1 DEF SetBusWidth, Hosts, BusWidths
    <3> QED
      BY <1>1, <1>3, <2>3, <3>1, <3>2, WidthKeeps
  <2>4. CASE stage \in TimingSteps /\ card.refused
    <3>1. NextMode /\ host' = host
      BY <1>3, <2>4 DEF SwitchDone
    <3> QED
      BY <1>1, <2>1, <2>4, <3>1, NextModeKeeps
  <2>5. CASE stage \in TimingSteps /\ ~card.refused
    <3>1. /\ host' = SetClockAndTiming(drv, host, NewTiming.freq, NewTiming.timing,
                                       stage = "hs400" /\ dev.strobe)
          /\ phase' = "confirm" /\ UNCHANGED <<stage, dev>>
      BY <1>3, <2>5 DEF SwitchDone
    <3> QED
      BY <1>1, <1>3, <2>5, <3>1, TimingKeeps
  <2> QED
    BY <1>1, <2>2, <2>3, <2>4, <2>5
<1>4. CASE card' = [card EXCEPT !.refused = FALSE] /\ SwitchFails /\ UNCHANGED host
  <2>1. card' \in CardStates /\ card'.is = card.is /\ card'.mode \notin SdModes
        /\ StrobeFits(card')
    BY <1>1, <1>4 DEF CardStates, MmcTuned, StrobeFits
  <2> QED
    BY <1>1, <1>4, <2>1, SwitchFailsKeeps
<1> QED
  BY <1>2, <1>3, <1>4 DEF SwitchStatusPoll

LEMMA ConfirmTimingKeeps ==
  ASSUME PowerUpInv, ConfirmTiming
  PROVE  PowerUpInv'
<1>1. /\ stage \in TimingSteps /\ phase = "confirm" /\ UNCHANGED <<drv, host, card>>
      /\ ~IsSd /\ host \in Hosts /\ card \in CardStates /\ card.mode \notin SdModes
      /\ dev \in DevStates
  BY DEF ConfirmTiming, CardTypeOK, Control
<1>2. CASE phase' = "check" /\ UNCHANGED <<stage, dev>>
  <2>1. NewTiming' = NewTiming /\ Chosen' = Chosen
    BY <1>2, NewTimingSame DEF Chosen
  <2>2. Settling
    BY <1>1, <1>2 DEF Settling
  <2>3. CardTypeOK' /\ OnBoard' /\ Slow' /\ SdData' /\ SdVolt' /\ SdUp'
    BY <2>2, SettlingKeeps
  <2>4. Control' /\ Loops' /\ MmcUp'
    BY <1>1, <1>2, <2>2 DEF Settling, Control, Loops, MmcUp
  <2>5. MmcTimed'
    BY <1>1, <1>2, <2>1 DEF MmcTimed
  <2>6. MmcModes'
    BY <1>1, <1>2, <2>1 DEF MmcModes, Allowed, Hs400
  <2>7. MmcFailed'
    BY <1>1, <1>2 DEF MmcFailed, Allowed
  <2>8. MmcTuned'
    BY <1>1, <1>2 DEF MmcTuned, StrobeFits, Hs400
  <2> QED
    BY <2>3, <2>4, <2>5, <2>6, <2>7, <2>8
<1>3. CASE NextMode
  BY <1>1, <1>3, NextModeKeeps DEF MmcTuned, StrobeFits
<1> QED
  BY <1>2, <1>3 DEF ConfirmTiming

\* The card is in the new timing, and the next step begins.
LEMMA AdvanceKeeps ==
  ASSUME PowerUpInv, stage \in TimingSteps, UNCHANGED <<drv, host, card>>,
         \/ /\ stage = "timing" /\ "hs200" \in dev.test /\ stage' = "tune"
            /\ dev' = [dev EXCEPT !.polls = 0]
         \/ stage = "hs400_prepare" /\ stage' = "hs400_width" /\ UNCHANGED dev,
         phase' = "command"
  PROVE  PowerUpInv'
<1>1. ~IsSd /\ Ranks(dev.restricted) # {}
  BY DEF Control, MmcModes
<1>2. /\ dev' \in DevStates /\ dev'.v18 = dev.v18 /\ dev'.disable = dev.disable
      /\ dev'.sf = dev.sf /\ dev'.timing = dev.timing /\ dev'.test = dev.test
      /\ dev'.restricted = dev.restricted /\ dev'.strobe = dev.strobe
      /\ dev'.failed = dev.failed
      /\ stage' = "tune" => dev'.polls = 0
  BY Counters DEF CardTypeOK, DevStates
<1>3. Chosen' = Chosen /\ ("hs200" \in Chosen.test <=> Chosen.type = "hs200")
  BY <1>1, <1>2, BestMode DEF Chosen
<1>4. Settling
  BY <1>1, <1>2 DEF Settling, CardTypeOK
<1>5. CardTypeOK' /\ OnBoard' /\ Slow' /\ SdData' /\ SdVolt' /\ SdUp'
  BY <1>4, SettlingKeeps
<1>6. Control' /\ Loops' /\ MmcTimed' /\ MmcUp'
  BY <1>2, <1>4, Counters DEF Settling, Control, Loops, MmcTimed, MmcUp
<1>7. MmcModes'
  BY <1>1, <1>2, <1>3 DEF MmcModes, Allowed, Hs400
<1>8. MmcFailed'
  BY <1>1, <1>2 DEF MmcFailed, Allowed
<1>9. MmcTuned'
  BY <1>1, <1>2 DEF MmcTuned, StrobeFits, Hs400
<1> QED
  BY <1>5, <1>6, <1>7, <1>8, <1>9

\* What is faster than the mode the card is in has failed.
LEMMA SkipsNone ==
  ASSUME PowerUpInv, stage \in MmcAttempts, Up(dev.test), UNCHANGED card, Hs400ThroughHs200,
         NEW t \in dev.test \cap dev.restricted, card.mode = TimingOf(t),
         \A u \in dev.restricted : ~(Speed(u) > Speed(t))
  PROVE  NoModeSkipped'
<1>1. ~IsSd /\ dev.restricted \subseteq Allowed /\ Allowed \ dev.restricted \subseteq dev.failed
  BY DEF Control, MmcModes, MmcFailed
<1>2. dev' = dev
  BY DEF Up, CardTypeOK, DevStates
<1>3. t \in dev.test \cap Allowed /\ \A u \in Allowed : Speed(u) > Speed(t) => u \in dev.failed
  BY <1>1
<1> QED
  BY <1>2, <1>3 DEF NoModeSkipped, Allowed

LEMMA TimingSkipsNone ==
  ASSUME PowerUpInv, stage = "timing", ~Hs400, "hs200" \notin dev.test,
         card.mode = NewTiming.hs, Up(dev.test), UNCHANGED card, Hs400ThroughHs200
  PROVE  NoModeSkipped'
<1>1. dev.restricted \subseteq MmcTypes \ {"hs400"} /\ Ranks(dev.restricted) # {}
      /\ dev.test = Chosen.test /\ card.mode = Chosen.hs
  BY DEF CardTypeOK, DevStates, MmcModes, Hs400, NewTiming
<1>2. CASE Chosen = MmcPreference[1] /\ "hs200" \in dev.restricted
  BY <1>1, <1>2 DEF MmcPreference
<1>3. CASE Chosen = MmcPreference[2] /\ "hs52_ddr" \in dev.restricted
           /\ "hs200" \notin dev.restricted
  <2>1. "hs52_ddr" \in dev.test /\ card.mode = "hs"
    BY <1>1, <1>3 DEF MmcPreference
  <2>2. \A u \in dev.restricted : ~(Speed(u) > Speed("hs52_ddr"))
    BY <1>1, <1>3 DEF Speed, MmcTypes
  <2>3. TimingOf("hs52_ddr") = "hs"
    BY DEF TimingOf
  <2> QED
    BY <1>3, <2>1, <2>2, <2>3, SkipsNone
<1>4. CASE Chosen = MmcPreference[3] /\ "hs52" \in dev.restricted
           /\ {"hs200", "hs52_ddr"} \cap dev.restricted = {}
  <2>1. "hs52" \in dev.test /\ card.mode = "hs"
    BY <1>1, <1>4 DEF MmcPreference
  <2>2. \A u \in dev.restricted : ~(Speed(u) > Speed("hs52"))
    BY <1>1, <1>4 DEF Speed, MmcTypes
  <2>3. TimingOf("hs52") = "hs"
    BY DEF TimingOf
  <2> QED
    BY <1>4, <2>1, <2>2, <2>3, SkipsNone
<1>5. CASE Chosen = MmcPreference[4] /\ "hs26" \in dev.restricted
           /\ {"hs200", "hs52_ddr", "hs52"} \cap dev.restricted = {}
  <2>1. "hs26" \in dev.test /\ card.mode = "compat"
    BY <1>1, <1>5 DEF MmcPreference
  <2>2. \A u \in dev.restricted : ~(Speed(u) > Speed("hs26"))
    BY <1>1, <1>5 DEF Speed, MmcTypes
  <2>3. TimingOf("hs26") = "compat"
    BY DEF TimingOf
  <2> QED
    BY <1>5, <2>1, <2>2, <2>3, SkipsNone
<1> QED
  BY <1>1, <1>2, <1>3, <1>4, <1>5, BestIs DEF Chosen

LEMMA Hs400SkipsNone ==
  ASSUME PowerUpInv, stage = "hs400", card.mode = "hs400", Up(dev.test), UNCHANGED card,
         Hs400ThroughHs200
  PROVE  NoModeSkipped'
<1>1. "hs400" \in dev.test \cap dev.restricted /\ dev.restricted \subseteq MmcTypes
  BY Hs400First DEF MmcModes, Hs400, CardTypeOK, DevStates
<1>2. \A u \in dev.restricted : ~(Speed(u) > Speed("hs400"))
  BY <1>1 DEF Speed, MmcTypes
<1>3. TimingOf("hs400") = "hs400"
  BY DEF TimingOf
<1> QED
  BY <1>1, <1>2, <1>3, SkipsNone

LEMMA TuneSkipsNone ==
  ASSUME PowerUpInv, stage = "tune", card.mode = "hs200", ~Hs400, Up(dev.test),
         UNCHANGED card, Hs400ThroughHs200
  PROVE  NoModeSkipped'
<1>1. Ranks(dev.restricted) # {} /\ dev.test = Chosen.test /\ Chosen.type = "hs200"
      /\ dev.restricted \subseteq MmcTypes \ {"hs400"}
  BY DEF MmcModes, Hs400, CardTypeOK, DevStates
<1>2. "hs200" \in dev.test \cap dev.restricted
  <2>1. "hs200" \in dev.test
    BY <1>1, BestMode DEF Chosen
  <2>2. Chosen = MmcPreference[1] /\ "hs200" \in dev.restricted
    BY <1>1, BestIs, Preferences DEF Chosen
  <2> QED
    BY <2>1, <2>2
<1>3. \A u \in dev.restricted : ~(Speed(u) > Speed("hs200"))
  BY <1>1 DEF Speed, MmcTypes
<1>4. TimingOf("hs200") = "hs200"
  BY DEF TimingOf
<1> QED
  BY <1>2, <1>3, <1>4, SkipsNone

LEMMA CheckTimingKeeps ==
  ASSUME PowerUpInv, CheckTiming
  PROVE  PowerUpInv'
<1>1. /\ stage \in TimingSteps /\ phase = "check" /\ UNCHANGED <<drv, host, card>>
      /\ ~IsSd /\ host \in Hosts /\ card \in CardStates /\ card.mode \notin SdModes
  BY DEF CheckTiming, CardTypeOK, Control
<1>4. StrobeFits(card)
  BY <1>1 DEF MmcTuned, StrobeFits
<1>2. CASE NextMode
  BY <1>1, <1>2, <1>4, NextModeKeeps
<1>3. CASE DataFits /\ card.mode = NewTiming.hs /\ AfterTiming
  <2>1. DataFits'
    BY <1>1, <1>3 DEF DataFits
  <2>2. CASE stage = "timing" /\ "hs200" \in dev.test
    <3>1. Goto("tune") /\ dev' = [dev EXCEPT !.polls = 0]
      BY <1>3, <2>2 DEF AfterTiming
    <3> QED
      BY <1>1, <2>2, <3>1, AdvanceKeeps
  <2>3. CASE stage = "timing" /\ "hs200" \notin dev.test
    <3>1. EnterHs400
      BY <1>3, <2>3 DEF AfterTiming
    <3>2. CASE Hs400
      <4>1. ~Hs400ThroughHs200
        BY <2>3, <3>2, Hs400First
      <4> QED
        BY <1>1, <1>4, <2>3, <3>1, <3>2, <4>1, EnterHs400Keeps
    <3>3. CASE ~Hs400
      <4>1. Up(dev.test)
        BY <3>1, <3>3 DEF EnterHs400
      <4>2. Hs400ThroughHs200 => NoModeSkipped'
        BY <1>1, <1>3, <2>3, <3>3, <4>1, TimingSkipsNone
      <4>3. TunedWhenUp'
        <5>1. card.mode \notin {"hs200", "hs400"}
          BY <1>3, <2>3, BestIs DEF MmcModes, NewTiming, Chosen, MmcPreference
        <5> QED
          BY <1>1, <4>1, <5>1 DEF Up, TunedWhenUp, CardTypeOK, DevStates, SdData
      <4> QED
        BY <1>1, <2>1, <2>3, <4>1, <4>2, <4>3, UpKeeps
    <3> QED
      BY <3>2, <3>3
  <2>4. CASE stage = "hs400_prepare"
    <3>1. Goto("hs400_width") /\ UNCHANGED dev
      BY <1>3, <2>4 DEF AfterTiming
    <3> QED
      BY <1>1, <2>4, <3>1, AdvanceKeeps
  <2>5. CASE stage = "hs400"
    <3>1. Up(dev.test)
      BY <1>3, <2>5 DEF AfterTiming
    <3>2. card.mode = "hs400"
      BY <1>3, <2>5 DEF NewTiming
    <3>3. Hs400ThroughHs200 => NoModeSkipped'
      BY <1>1, <2>5, <3>1, <3>2, Hs400SkipsNone
    <3>4. ASSUME Hs400ThroughHs200, StrobeHonoured PROVE TunedWhenUp'
      <4>1. \/ host.tuned = "mmc_hs200"
            \/ card.strobed /\ SamplesStrobed(host)
        <5>1. CASE ~dev.strobe
          BY <1>1, <2>5, <3>4, <5>1 DEF MmcTuned
        <5>2. CASE dev.strobe
          <6>1. SamplesDdr(drv, host) /\ SamplesStrobed(host) /\ Hs400
            BY <1>1, <2>5, <3>4, <5>2 DEF MmcTuned, MmcModes
          <6>2. card.ddr
            BY <1>3, <3>2, <6>1, DataFitsIs DEF SendsDdr
          <6> QED
            BY <1>4, <3>4, <5>2, <6>1, <6>2 DEF StrobeFits
        <5> QED
          BY <5>1, <5>2
      <4> QED
        BY <1>1, <3>1, <3>2, <4>1 DEF Up, TunedWhenUp, CardTypeOK, DevStates, SdData
    <3> QED
      BY <1>1, <2>1, <2>5, <3>1, <3>3, <3>4, UpKeeps
  <2> QED
    BY <1>1, <2>2, <2>3, <2>4, <2>5
<1> QED
  BY <1>2, <1>3 DEF CheckTiming

LEMMA MmcChooseKeeps ==
  ASSUME PowerUpInv, MmcChoose
  PROVE  PowerUpInv'
<1>1. /\ stage = "mmc_choose" /\ ~IsSd /\ phase = "command" /\ phase' = "command"
      /\ UNCHANGED <<drv, card>> /\ card \in CardStates /\ card.mode \notin SdModes
  BY DEF MmcChoose, Throw, CardTypeOK, Control
<1>2. CASE stage' = "failed" /\ UNCHANGED <<host, dev>>
  <2>1. Settling
    BY <1>1, <1>2 DEF Settling, CardTypeOK
  <2>2. CardTypeOK' /\ OnBoard' /\ Slow' /\ SdData' /\ SdVolt' /\ SdUp'
    BY <2>1, SettlingKeeps
  <2>3. Control' /\ Loops' /\ MmcTimed' /\ MmcUp' /\ MmcModes'
        /\ MmcFailed' /\ MmcTuned'
    BY <1>1, <1>2 DEF Control, Loops, MmcTimed, MmcUp, MmcModes, MmcFailed, MmcTuned
  <2> QED
    BY <2>2, <2>3
<1>3. CASE /\ Ranks(Remaining) # {} /\ stage' = "width"
           /\ dev' = [dev EXCEPT !.restricted = Remaining, !.test = Best(Remaining).test]
           /\ host' = SetVoltage(drv, host, 180)
  <2>1. host' \in Hosts
    BY <1>3 DEF SetVoltage, Hosts, SignalVoltages, CardTypeOK
  <2>2. /\ Remaining \subseteq dev.restricted /\ Remaining \in SUBSET MmcTypes
        /\ Best(Remaining).test \in SUBSET MmcTypes
    BY <1>3, BestMode DEF Remaining, CardTypeOK, DevStates
  <2>3. /\ dev' \in DevStates /\ dev'.v18 = dev.v18 /\ dev'.disable = dev.disable
        /\ dev'.sf = dev.sf /\ dev'.timing = dev.timing /\ dev'.strobe = dev.strobe
        /\ dev'.restricted = Remaining /\ dev'.test = Best(Remaining).test
        /\ dev'.failed = dev.failed
    BY <1>3, <2>2 DEF CardTypeOK, DevStates
  <2>4. Settling
    BY <1>1, <1>3, <2>1, <2>2, <2>3 DEF Settling
  <2>5. CardTypeOK' /\ OnBoard' /\ Slow' /\ SdData' /\ SdVolt' /\ SdUp'
    BY <2>4, SettlingKeeps
  <2>6. Control' /\ Loops' /\ MmcTimed' /\ MmcUp'
    BY <1>1, <1>3 DEF Control, Loops, MmcTimed, MmcUp
  <2>7. MmcModes'
    <3>1. Chosen' = Best(Remaining)
      BY <2>3 DEF Chosen
    <3>2. "hs200" \in Best(Remaining).test => "hs400" \in Best(Remaining).test
      BY <1>3, BestMode
    <3> QED
      BY <1>1, <1>3, <2>2, <2>3, <3>1, <3>2 DEF MmcModes, Allowed
  <2>8. MmcFailed'
    BY <1>1, <1>3, <2>3 DEF Remaining, MmcFailed, MmcModes, Allowed
  <2>9. MmcTuned'
    BY <1>1, <1>3, <2>2, <2>3 DEF MmcTuned, StrobeFits, Hs400
  <2> QED
    BY <2>5, <2>6, <2>7, <2>8, <2>9
<1> QED
  BY <1>2, <1>3 DEF MmcChoose, Throw

LEMMA MmcTuneKeeps ==
  ASSUME PowerUpInv, MmcTune
  PROVE  PowerUpInv'
<1>1. /\ stage = "tune" /\ ~IsSd /\ phase = "command" /\ UNCHANGED <<drv, card>>
      /\ card \in CardStates /\ card.mode \notin SdModes
      /\ drv \in Drivers /\ host \in Hosts /\ SameBus(drv, host, StartTuning(drv, host))
  BY TuningStarted DEF MmcTune, CardTypeOK, Control
<1>5. StrobeFits(card)
  BY <1>1 DEF MmcTuned, StrobeFits
<1>2. CASE /\ DataFits /\ card.mode = "hs200"
           /\ host' = Tuned(StartTuning(drv, host), "mmc_hs200") /\ EnterHs400
  <2>1. "mmc_hs200" \in Timings \cup {"none"}
    BY DEF Timings
  <2>2. SameBus(drv, StartTuning(drv, host), host') /\ host'.tuned = "mmc_hs200"
    BY <1>1, <1>2, <2>1, TunedHost DEF SameBus
  <2>3. host' \in Hosts /\ DataFits'
    <3>1. SameBus(drv, host, host')
      BY <1>1, <2>2 DEF SameBus
    <3>2. host'.width = card.width /\ (SamplesDdr(drv, host') <=> SendsDdr(card))
      BY <1>2, <3>1, DataFitsIs DEF SameBus
    <3>3. SamplesDdr(drv, host') \in BOOLEAN /\ SendsDdr(card) \in BOOLEAN
      BY Sampling
    <3> QED
      BY <1>1, <3>1, <3>2, <3>3 DEF SameBus, DataFits
  <2>4. CASE Hs400
    BY <1>1, <1>2, <1>5, <2>2, <2>3, <2>4, EnterHs400Keeps
  <2>5. CASE ~Hs400
    <3>1. Up(dev.test)
      BY <1>2, <2>5 DEF EnterHs400
    <3>2. Hs400ThroughHs200 => NoModeSkipped'
      BY <1>1, <1>2, <2>5, <3>1, TuneSkipsNone
    <3>3. TunedWhenUp'
      BY <1>1, <1>2, <2>2, <3>1 DEF Up, TunedWhenUp, CardTypeOK, DevStates, SdData
    <3> QED
      BY <1>1, <2>3, <3>1, <3>2, <3>3, UpKeeps
  <2> QED
    BY <2>4, <2>5
<1>3. CASE /\ dev.polls + 1 < MaxTunings
           /\ host' = StartTuning(drv, host)
           /\ dev' = [dev EXCEPT !.polls = @ + 1]
           /\ UNCHANGED <<stage, phase>>
  <2>1. dev.polls + 1 \in Polls
    BY <1>3, Counters DEF CardTypeOK, DevStates
  <2>2. /\ dev' \in DevStates /\ dev'.v18 = dev.v18 /\ dev'.disable = dev.disable
        /\ dev'.sf = dev.sf /\ dev'.timing = dev.timing /\ dev'.test = dev.test
        /\ dev'.restricted = dev.restricted /\ dev'.strobe = dev.strobe
        /\ dev'.polls = dev.polls + 1 /\ dev'.failed = dev.failed
    BY <1>3, <2>1 DEF CardTypeOK, DevStates
  <2>3. Chosen' = Chosen
    BY <2>2 DEF Chosen
  <2>4. Settling
    BY <1>1, <1>3, <2>2 DEF Settling, SameBus
  <2>5. CardTypeOK' /\ OnBoard' /\ Slow' /\ SdData' /\ SdVolt' /\ SdUp'
    BY <2>4, SettlingKeeps
  <2>6. Control' /\ Loops' /\ MmcTimed' /\ MmcUp'
    BY <1>1, <1>3, <2>2, <2>4 DEF Settling, Control, Loops, MmcTimed, MmcUp
  <2>7. MmcModes'
    BY <1>1, <1>3, <2>2, <2>3 DEF MmcModes, Allowed
  <2>8. MmcFailed'
    BY <1>1, <1>3, <2>2 DEF MmcFailed, Allowed
  <2>9. MmcTuned'
    BY <1>1, <1>3, <2>2 DEF MmcTuned, StrobeFits, Hs400
  <2> QED
    BY <2>5, <2>6, <2>7, <2>8, <2>9
<1>4. CASE host' = StartTuning(drv, host) /\ NextMode
  BY <1>1, <1>4, <1>5, NextModeKeeps DEF SameBus
<1> QED
  BY <1>2, <1>3, <1>4 DEF MmcTune

LEMMA FaultKeeps ==
  ASSUME PowerUpInv, Fault
  PROVE  PowerUpInv'
<1>1. /\ stage' = "failed" /\ phase' = "command" /\ UNCHANGED <<drv, host, card>>
      /\ dev' = [dev EXCEPT !.fault = TRUE]
  BY DEF Fault
<1>2. /\ dev' \in DevStates /\ dev'.v18 = dev.v18 /\ dev'.disable = dev.disable
      /\ dev'.sf = dev.sf /\ dev'.timing = dev.timing /\ dev'.test = dev.test
  BY <1>1 DEF CardTypeOK, DevStates
<1>3. CardTypeOK' /\ OnBoard' /\ Control' /\ Loops' /\ Slow'
  BY <1>1, <1>2 DEF CardTypeOK, OnBoard, Control, Loops, Slow
<1>4. SdData'
  BY <1>1, <1>2 DEF SdData
<1>5. SdVolt'
  BY <1>1, <1>2 DEF SdVolt, SetsVoltage
<1>6. SdUp' /\ MmcModes' /\ MmcTimed' /\ MmcUp' /\ MmcFailed' /\ MmcTuned'
  BY <1>1, <1>2 DEF SdUp, MmcModes, MmcTimed, MmcUp, MmcFailed, MmcTuned
<1> QED
  BY <1>3, <1>4, <1>5, <1>6

LEMMA StutterKeeps ==
  ASSUME PowerUpInv, UNCHANGED vars
  PROVE  PowerUpInv'
<1>1. UNCHANGED <<drv, host, card, dev, stage, phase>>
  BY DEF vars
<1>2. CardTypeOK' /\ OnBoard' /\ Control' /\ Loops' /\ Slow'
  BY <1>1 DEF CardTypeOK, OnBoard, Control, Loops, Slow
<1>3. SdData' /\ SdUp'
  <2>1. Fastest' = Fastest
    BY <1>1, FastestSame
  <2>2. NeedsTuning(dev.timing)' = NeedsTuning(dev.timing)
    BY <1>1 DEF NeedsTuning
  <2> QED
    BY <1>1, <2>1, <2>2 DEF SdData, SdUp
<1>4. SdVolt' /\ MmcTimed' /\ MmcUp'
  BY <1>1, NewTimingSame DEF SdVolt, SetsVoltage, MmcTimed, MmcUp, DataFits
<1>5. MmcModes'
  BY <1>1 DEF MmcModes, Allowed, Chosen, Hs400
<1>6. MmcFailed' /\ MmcTuned'
  BY <1>1 DEF MmcFailed, Allowed, NoModeSkipped, MmcTuned, StrobeFits, Hs400, TunedWhenUp
<1> QED
  BY <1>2, <1>3, <1>4, <1>5, <1>6

LEMMA InitMakes == Init => PowerUpInv
<1> SUFFICES ASSUME Init PROVE PowerUpInv
  OBVIOUS
<1>1. PICK b \in Boards, volt \in Voltages :
        /\ drv = b.drv /\ host = ResetHost
        /\ card = CardState(b.card, IF b.card.s18 THEN volt ELSE 330)
        /\ dev = Unknown(b.disable) /\ stage = "start" /\ phase = "command"
  BY DEF Init
<1>2. /\ b.drv \in Drivers /\ b.card \in Cards /\ b.disable \in SUBSET ModeNames
      /\ volt \in SignalVoltages
  BY PowerUpAssumption
<1>3. host \in Hosts /\ host.width = 1 /\ host.volt = 330 /\ host.freq = 0
      /\ ~SamplesDdr(drv, host)
  BY <1>1 DEF ResetHost, Hosts, BusWidths, SignalVoltages, UhsModes, MixBits, SamplesDdr
<1>4. /\ card \in CardStates /\ card.is = b.card /\ card.width = 1
      /\ ~card.ddr /\ ~card.strobed /\ card.mode # "ddr50"
      /\ card.mode \in SdModes <=> IsSd
      /\ card.volt = 180 => card.is.s18
  <2> DEFINE at == IF b.card.s18 THEN volt ELSE 330
             mode == IdleMode(b.card.kind)
  <2>1. at \in SignalVoltages /\ (at = 180 => b.card.s18)
    BY <1>2 DEF SignalVoltages
  <2>2. mode \in CardModes /\ mode # "ddr50" /\ (mode \in SdModes <=> b.card.kind = "sd")
    BY DEF IdleMode, CardModes, SdModes
  <2>3. card = [is |-> b.card, width |-> 1, ddr |-> FALSE, strobed |-> FALSE, volt |-> at,
                mode |-> mode, refused |-> FALSE]
    BY <1>1 DEF CardState
  <2>4. 1 \in BusWidths
    BY DEF BusWidths
  <2> HIDE DEF at, mode
  <2> QED
    BY <1>2, <2>1, <2>2, <2>3, <2>4 DEF CardStates
<1>5. dev \in DevStates /\ dev.tries = 0 /\ dev.polls = 0 /\ ~dev.v18
      /\ dev.disable = b.disable /\ dev.sf.invalid = {} /\ dev.test = {}
      /\ dev.timing = "legacy"
  <2>1. [modes |-> {}, limits |-> {}, invalid |-> {}] \in SwitchStates /\ "legacy" \in Timings
    BY DEF SwitchStates, Timings
  <2> QED
    BY <1>1, <1>2, <2>1, Counters DEF Unknown, DevStates
<1>6. CardTypeOK /\ OnBoard /\ Control /\ Loops
  BY <1>1, <1>2, <1>3, <1>4, <1>5 DEF CardTypeOK, OnBoard, Control, Loops
<1>7. Slow /\ SdData /\ SdVolt
  BY <1>1, <1>3, <1>4, <1>5 DEF Slow, SdData, SdVolt, SetsVoltage, MHz, KHz
<1>8. SdUp /\ MmcModes /\ MmcTimed /\ MmcUp /\ MmcFailed /\ MmcTuned
  BY <1>1, <1>5 DEF SdUp, MmcModes, MmcTimed, MmcUp, MmcFailed, MmcTuned
<1> QED
  BY <1>6, <1>7, <1>8

LEMMA NextKeeps == PowerUpInv /\ [Next]_vars => PowerUpInv'
  BY StartKeeps, GoIdleKeeps, IfCondKeeps, ProbeKeeps, SdIdleKeeps, SdOpCondKeeps,
     SdVoltageKeeps, SdIdentifyKeeps, SdCheckKeeps, SdChooseKeeps, SdWidthKeeps, SdPowerKeeps,
     SdModeKeeps, SdTuneKeeps, SdMisreadKeeps, MmcProbeKeeps, MmcIdleKeeps, MmcOpCondKeeps,
     MmcCidKeeps, MmcIdentifyKeeps, MmcExtCsdKeeps, SetBlockLengthKeeps, SwitchKeeps,
     SwitchStatusPollKeeps, ConfirmTimingKeeps, CheckTimingKeeps, MmcChooseKeeps, MmcTuneKeeps,
     FaultKeeps, StutterKeeps
  DEF Next, Scanning, PowerUpSd, PowerUpMmc

\* Whatever fails or is refused, each step of the thread hands the next one the
\* controller and the card as that one needs them.
THEOREM Inductive == Spec => []PowerUpInv
<1>1. Init => PowerUpInv
  BY InitMakes
<1>2. PowerUpInv /\ [Next]_vars => PowerUpInv'
  BY NextKeeps
<1> HIDE DEF PowerUpInv
<1> QED
  BY <1>1, <1>2, PTL DEF Spec

-----------------------------------------------------------------------------
(* What follows.                                                           *)

\* The controller, the card and what the thread of the driver knows of it stay in
\* their types: no loop of cmd_exec() and power_up() goes round once too often.
THEOREM TypeCorrect == Spec => []TypeOK
<1>1. PowerUpInv => TypeOK
  BY DEF Control, TypeOK
<1> HIDE DEF PowerUpInv
<1> QED
  BY <1>1, Inductive, PTL

\* A card that power_up_sd() or power_up_mmc() leaves in operation agrees with the
\* controller on bus width, data rate and signal voltage.
THEOREM Agree == Spec => []AgreeWhenUp
<1>1. PowerUpInv => AgreeWhenUp
  <2> SUFFICES ASSUME PowerUpInv, stage = "up"
               PROVE  DataFits /\ (IsSd /\ SetsVoltage => host.volt = card.volt)
    BY DEF AgreeWhenUp, SetsVoltage
  <2>1. DataFits
    BY DataFitsIs DEF SdData, SdUp, MmcUp
  <2> QED
    BY <2>1 DEF SdVolt
<1> HIDE DEF PowerUpInv
<1> QED
  BY <1>1, Inductive, PTL

LEMMA TimingWithinClock ==
  ASSUME stage \in TimingSteps, Ranks(dev.restricted) # {}, card.mode = NewTiming.hs
  PROVE  NewTiming.freq <= MaxFrequency(card)
<1>1. CASE stage = "timing"
  <2>1. NewTiming = Chosen
    BY <1>1 DEF NewTiming
  <2>2. \/ Chosen.freq = 200 * MHz /\ Chosen.hs = "hs200"
        \/ Chosen.freq = 52 * MHz /\ Chosen.hs = "hs"
        \/ Chosen.freq = 26 * MHz /\ Chosen.hs = "compat"
    <3>1. \/ Chosen = MmcPreference[1] \/ Chosen = MmcPreference[2]
          \/ Chosen = MmcPreference[3] \/ Chosen = MmcPreference[4]
      BY BestIs DEF Chosen
    <3> QED
      BY <3>1 DEF MmcPreference
  <2> QED
    BY <2>1, <2>2 DEF MaxFrequency, MHz, KHz
<1>2. CASE stage = "hs400_prepare"
  BY <1>2 DEF NewTiming, MaxFrequency, MHz, KHz
<1>3. CASE stage = "hs400"
  BY <1>3 DEF NewTiming, MaxFrequency, MHz, KHz
<1> QED
  BY <1>1, <1>2, <1>3

\* When EXT_CSD or a register of an SD card is read, set_clock_and_timing() has never
\* left the bus faster than the mode of the card allows.
THEOREM WithinClock == Spec => []ReadsWithinClock
<1>1. PowerUpInv => ReadsWithinClock
  <2> SUFFICES ASSUME PowerUpInv, AboutToRead PROVE host.freq <= MaxFrequency(card)
    BY DEF ReadsWithinClock
  <2>1. host.freq \in Nat /\ card.mode \in CardModes
    BY DEF CardTypeOK, Hosts, CardStates
  <2>4. MaxFrequency(card) \in Nat /\ 25 * MHz <= MaxFrequency(card)
    BY <2>1 DEF MaxFrequency, CardModes, SdModes, MHz, KHz
  <2>2. CASE host.freq <= 25 * MHz
    BY <2>1, <2>2, <2>4 DEF MHz, KHz
  <2>3. CASE ~(host.freq <= 25 * MHz)
    <3>1. stage \in TimingSteps /\ phase = "check"
      BY <2>3 DEF AboutToRead, SdReads, Slow, Control
    <3>2. card.mode = NewTiming.hs /\ host.freq <= NewTiming.freq
      BY <2>3, <3>1 DEF MmcTimed
    <3>3. NewTiming.freq <= MaxFrequency(card)
      BY <3>1, <3>2, TimingWithinClock DEF MmcModes
    <3>4. NewTiming.freq \in Nat
      BY <3>1, NewTimingIs DEF MmcModes
    <3> QED
      BY <2>1, <2>4, <3>2, <3>3, <3>4
  <2> QED
    BY <2>2, <2>3
<1> HIDE DEF PowerUpInv
<1> QED
  BY <1>1, Inductive, PTL

\* Where nobody disables HS200 alone, mmc_apply_timings() ends with the fastest mode
\* that did not fail: no failure costs a mode that was not tried.
THEOREM NoneSkipped ==
  ASSUME Hs400ThroughHs200
  PROVE  Spec => []NoModeSkipped
<1>1. PowerUpInv => NoModeSkipped
  BY DEF MmcFailed, NoModeSkipped, CardTypeOK, CardStates, Cards, SdCards, MmcCards
<1> HIDE DEF PowerUpInv
<1> QED
  BY <1>1, Inductive, PTL

\* Where the strobe of a card finds a controller that takes it, a mode that needs
\* tuning is in use only after its tuning, or by the strobe.
THEOREM TunedUp ==
  ASSUME Hs400ThroughHs200, StrobeHonoured
  PROVE  Spec => []TunedWhenUp
<1>1. PowerUpInv => TunedWhenUp
  <2> SUFFICES ASSUME PowerUpInv, stage = "up" PROVE TunedWhenUp
    BY DEF TunedWhenUp
  <2>1. CASE IsSd
    <3>1. card.mode \notin {"hs200", "hs400"}
      BY <2>1 DEF CardTypeOK, SdModes
    <3>2. NeedsTuning(dev.timing) => host.tuned = dev.timing
      BY <2>1 DEF SdUp
    <3> QED
      BY <3>1, <3>2 DEF TunedWhenUp, NeedsTuning, NeedsTuningSdr50
  <2>2. CASE ~IsSd
    BY <2>2 DEF MmcTuned
  <2> QED
    BY <2>1, <2>2
<1> HIDE DEF PowerUpInv
<1> QED
  BY <1>1, Inductive, PTL

\* Without a fault no mode is given up, and one is left to be chosen.
LEMMA FailsWithFault ==
  ASSUME SomeModeLeft, PowerUpInv, FailsOnlyOnFault, [Next]_vars
  PROVE  FailsOnlyOnFault'
<1> SUFFICES ASSUME stage' = "failed" PROVE dev'.fault
  BY DEF FailsOnlyOnFault
<1>1. dev \in DevStates
  BY DEF CardTypeOK
<1>2. CASE UNCHANGED vars
  BY <1>2 DEF vars, FailsOnlyOnFault
<1>3. CASE Fault
  BY <1>1, <1>3 DEF Fault, DevStates
<1>4. ~Scanning
  BY DEF Scanning, Start, GoIdle, IfCond
<1>5. CASE PowerUpSd
  <2>1. CASE Probe \/ SdIdle \/ SdIdentify \/ SdCheck \/ SdChoose \/ SdWidth \/ SdPower
             \/ SdMode \/ SdTune
    BY <2>1 DEF Probe, SdIdle, SdIdentify, SdSteps, SdCheck, SdChoose, SdWidth, AfterWidth,
                SdPower, SdMode, SdTune, SdData, Control
  <2>2. CASE SdOpCond \/ SdVoltage
    <3>1. CASE SdOpCond
      <4>1. stage = "sd_op_cond" /\ dev.polls < MaxTries /\ dev.polls \in Nat
        BY <1>1, <3>1, Counters DEF SdOpCond, Loops, DevStates
      <4>2. ~(dev.polls + 1 < MaxTries)
        BY <3>1, <4>1 DEF SdOpCond
      <4>3. dev.polls + 1 = MaxTries
        BY <4>1, <4>2, Counters
      <4> QED
        BY <1>1, <3>1, <4>3 DEF SdOpCond, DevStates
    <3>2. CASE SdVoltage
      BY <1>1, <3>2 DEF SdVoltage, DevStates
    <3> QED
      BY <2>2, <3>1, <3>2
  <2>3. CASE SdMisread
    BY <2>3, DataFitsIs DEF SdMisread, Throw, SdReads, SendsDdr, Slow, SdData, Control
  <2> QED
    BY <1>5, <2>1, <2>2, <2>3 DEF PowerUpSd
<1>6. CASE PowerUpMmc
  <2>1. CASE MmcIdle \/ MmcIdentify \/ SetBlockLength
    BY <2>1 DEF MmcIdle, MmcIdentify, MmcSteps, SetBlockLength
  <2>2. CASE MmcProbe \/ MmcOpCond \/ MmcCid
    <3>1. CASE MmcProbe
      <4>1. card.is.kind \in {"sd", "mmc"}
        BY DEF CardTypeOK, CardStates, Cards, SdCards, MmcCards
      <4>2. dev' = [dev EXCEPT !.fault = @ \/ card.is.kind = "sd"] /\ card.is.kind # "mmc"
        BY <3>1 DEF MmcProbe
      <4> QED
        BY <1>1, <4>1, <4>2 DEF DevStates
    <3>2. CASE MmcOpCond
      <4>1. stage = "mmc_op_cond" /\ dev.polls < MaxTries /\ dev.polls \in Nat
        BY <1>1, <3>2, Counters DEF MmcOpCond, Loops, DevStates
      <4>2. ~(dev.polls + 1 < MaxTries)
        BY <3>2, <4>1 DEF MmcOpCond
      <4>3. dev.polls + 1 = MaxTries
        BY <4>1, <4>2, Counters
      <4> QED
        BY <1>1, <3>2, <4>3 DEF MmcOpCond, DevStates
    <3>3. CASE MmcCid
      BY <1>1, <3>3 DEF MmcCid, DevStates
    <3> QED
      BY <2>2, <3>1, <3>2, <3>3
  <2>3. CASE MmcExtCsd
    BY <2>3, DataFitsIs DEF MmcExtCsd, SendsDdr, Slow, SdData, Control, CardTypeOK, SdModes
  <2>4. CASE Switch \/ SwitchStatusPoll
    <3>1. stage \in Switches
      BY <2>4 DEF Switch, SwitchStatusPoll
    <3>2. CASE SwitchFails
      BY <1>1, <3>2 DEF SwitchFails, NextMode, DevStates
    <3>3. ~SwitchDone(card.refused)
      BY <3>1 DEF SwitchDone, AfterSetting, AfterWidthSwitch, EnterHs400, Up, NextMode
    <3> QED
      BY <2>4, <3>1, <3>2, <3>3 DEF Switch, SwitchStatusPoll
  <2>5. CASE ConfirmTiming \/ CheckTiming \/ MmcTune
    BY <2>5 DEF ConfirmTiming, CheckTiming, MmcTune, AfterTiming, EnterHs400, Up, NextMode
  <2>6. CASE MmcChoose
    <3>1. stage = "mmc_choose" /\ ~IsSd /\ Ranks(Remaining) = {} /\ dev' = dev
      BY <2>6 DEF MmcChoose, Throw, Control
    <3>2. Allowed \in SUBSET MmcTypes /\ Allowed \notin SUBSET {"hs400"}
      BY <3>1 DEF OnBoard, SomeModeLeft, Allowed, CardTypeOK, CardStates, Cards, SdCards,
                  MmcCards
    <3>3. Remaining # Allowed
      BY <3>1, <3>2, RanksEmpty
    <3> QED
      BY <3>1, <3>3 DEF MmcModes, Remaining
  <2> QED
    BY <1>6, <2>1, <2>2, <2>3, <2>4, <2>5, <2>6 DEF PowerUpMmc
<1> QED
  BY <1>2, <1>3, <1>4, <1>5, <1>6 DEF Next

\* Where the user leaves the card a mode besides HS400, the initialization of a card
\* that does all it is told does not fail.
THEOREM FailsWithReason ==
  ASSUME SomeModeLeft
  PROVE  Spec => []FailsOnlyOnFault
<1>1. Init => FailsOnlyOnFault
  BY DEF Init, FailsOnlyOnFault
<1>2. PowerUpInv /\ FailsOnlyOnFault /\ [Next]_vars => FailsOnlyOnFault'
  BY FailsWithFault
<1> HIDE DEF PowerUpInv
<1> QED
  BY <1>1, <1>2, Inductive, PTL DEF Spec
=============================================================================
