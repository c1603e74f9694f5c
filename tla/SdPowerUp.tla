------------------------------ MODULE SdPowerUp ------------------------------
(***************************************************************************)
(* Device::power_up_sd() of device-impl.h: the operating conditions and    *)
(* the switch to 1.8 V, identification, and the choice of the access mode  *)
(* with its tuning.  It starts at "sd_probe" and ends at "up", "failed"    *)
(* or, when the card is none of SD, "mmc_probe".                           *)
(***************************************************************************)
EXTENDS CardInit, Sequences

\* mmc_app_cmd(ACMD41, 0) finds out whether this is an SD card.  adapt_ocr() and
\* the request for 1.8 V and XPC follow: every SDHCI controller has some UHS mode.
Probe ==
  /\ stage = "sd_probe"
  /\ \/ /\ card.is.kind = "sd"
        /\ dev' = [dev EXCEPT !.tries = 0]
        /\ Goto("sd_idle")
     \/ /\ dev' = [dev EXCEPT !.fault = @ \/ card.is.kind = "sd"]
        /\ Goto("mmc_probe")
  /\ UNCHANGED <<drv, host, card>>

Requests18 == SuppUhsTimings(drv, UhsTimings)

\* The head of the voltage loop, CMD0 and CMD8.
SdIdle ==
  /\ stage = "sd_idle"
  /\ host' = Slowest(host)
  /\ card' = Idle(card)
  /\ dev' = [dev EXCEPT !.polls = 0]
  /\ Goto("sd_op_cond")
  /\ UNCHANGED drv

\* ACMD41 until the card is not busy.  It accepts 1.8 V unless it is there.
SdOpCond ==
  /\ stage = "sd_op_cond"
  /\ \/ /\ dev' = [dev EXCEPT !.polls = @ + 1, !.fault = @ \/ dev.polls + 1 = MaxTries]
        /\ IF dev.polls + 1 < MaxTries THEN UNCHANGED <<stage, phase>> ELSE Goto("failed")
     \/ /\ IF Requests18 /\ card.is.s18 /\ card.volt = 330
           THEN Goto("sd_voltage") ELSE Goto("sd_cid")
        /\ UNCHANGED dev
  /\ UNCHANGED <<drv, host, card>>

\* CMD11 and the switch of the signal voltage, which the card acknowledges by
\* DAT0 going low and then high.  Without the first the loop starts over; the
\* card may have switched all the same.  After the last attempt the code goes on.
SdVoltage ==
  /\ stage = "sd_voltage"
  /\ UNCHANGED drv
  /\ \/ /\ host' = SwitchTo18(drv, host)
        /\ card' = [card EXCEPT !.volt = 180]
        /\ dev' = [dev EXCEPT !.v18 = TRUE]
        /\ Goto("sd_cid")
     \/ /\ card' \in {card, [card EXCEPT !.volt = 180]}
        /\ dev' = [dev EXCEPT !.tries = @ + 1, !.fault = TRUE]
        /\ IF dev.tries + 1 < MaxVoltTries THEN Goto("sd_idle") ELSE Goto("sd_cid")
        /\ UNCHANGED host

-----------------------------------------------------------------------------
(* Identification.                                                         *)

\* CMD2, CMD3, CMD9, CMD7 and, with data, ACMD51 and ACMD13, each of which ends
\* the initialization if it fails.
SdSteps == <<"sd_cid", "sd_rca", "sd_csd", "sd_select", "sd_scr", "sd_status", "sd_check">>
SdReads == {"sd_scr", "sd_status", "sd_check", "sd_power", "sd_mode"}

SdIdentify ==
  \E n \in 1 .. Len(SdSteps) - 1 :
    /\ stage = SdSteps[n]
    /\ stage \in SdReads => DataFits
    /\ dev' = [dev EXCEPT !.wide = IF stage = "sd_scr" THEN card.is.wide ELSE @]
    /\ Goto(SdSteps[n + 1])
    /\ UNCHANGED <<drv, host, card>>

\* CMD6 in check mode.  `sf' is a copy of the answer: the modes and power limits
\* of the card, at 3.3 V without those of UHS, and the groups with an invalid
\* function, none for a check of SDR12.  A card that shows a UHS mode although the
\* voltage was not switched was switched before: the host follows.
SwitchStatus(c, invalid) ==
  [modes |-> IF c.volt = 180 THEN c.is.modes ELSE c.is.modes \ UhsOnly,
   limits |-> c.is.limits, invalid |-> invalid]

Follow_Never(sf) == FALSE
Follow(sf) == ~dev.v18 /\ sf.modes \cap UhsOnly # {}

SdCheck ==
  /\ stage = "sd_check" /\ DataFits
  /\ LET sf == SwitchStatus(card, {}) IN
     /\ host' = IF Follow(sf) THEN SwitchTo18(drv, host) ELSE host
     /\ dev' = [dev EXCEPT !.sf = sf, !.v18 = @ \/ Follow(sf)]
  /\ Goto("sd_choose")
  /\ UNCHANGED <<drv, card>>

-----------------------------------------------------------------------------
(* The access mode.                                                        *)

\* The modes from the fastest to the slowest, with their timing and clock.
Preference ==
  << [mode |-> "sdr104", timing |-> "uhs_sdr104", freq |-> 208 * MHz],
     [mode |-> "ddr50", timing |-> "uhs_ddr50", freq |-> 50 * MHz],
     [mode |-> "sdr50", timing |-> "uhs_sdr50", freq |-> 100 * MHz],
     [mode |-> "sdr25", timing |-> "uhs_sdr25", freq |-> 50 * MHz],
     [mode |-> "sdr12", timing |-> "uhs_sdr12", freq |-> 25 * MHz] >>
HighSpeed == [mode |-> "sdr12", timing |-> "hs", freq |-> 25 * MHz]

Possible(m) ==
  /\ SuppUhsTimings(drv, {m.timing})
  /\ m.mode \in dev.sf.modes
  /\ m.timing \notin dev.disable
  /\ m.mode \in UhsOnly => dev.v18

Fastest ==
  LET good == {i \in 1 .. Len(Preference) : Possible(Preference[i])}
  IN  IF good = {} THEN HighSpeed ELSE Preference[Min(good)]

\* The first power limit that controller and card have, 0 for the default.
PowerLimit ==
  Max({limit \in {144, 180, 216, 288} : SuppPowerLimit(limit) /\ limit \in dev.sf.limits}
        \cup {0})

AfterWidth(timing) ==
  IF timing # "hs" /\ PowerLimit # 0 THEN "sd_power" ELSE "sd_mode"

\* The head of the loop; ACMD6 sets the bus width if the card has four bits.
SdChoose ==
  /\ stage = "sd_choose"
  /\ dev' = [dev EXCEPT !.timing = Fastest.timing]
  /\ IF dev.wide THEN Goto("sd_width") ELSE Goto(AfterWidth(Fastest.timing))
  /\ UNCHANGED <<drv, host, card>>

SdWidth_CardOnly ==
  /\ stage = "sd_width"
  /\ card' = [card EXCEPT !.width = 4]
  /\ Goto(AfterWidth(dev.timing))
  /\ UNCHANGED <<drv, host, dev>>
SdWidth ==
  /\ stage = "sd_width"
  /\ card' = [card EXCEPT !.width = 4]
  /\ host' = SetBusWidth(host, 4)
  /\ Goto(AfterWidth(dev.timing))
  /\ UNCHANGED <<drv, dev>>

\* CMD6 sets the power limit.  The checks after this command and the next look at
\* `sf', which still is the answer to the first CMD6.
SdPower ==
  /\ stage = "sd_power" /\ DataFits
  /\ IF 4 \in dev.sf.invalid THEN Goto("failed") ELSE Goto("sd_mode")
  /\ UNCHANGED <<drv, host, card, dev>>

NeedsTuning_NotDdr(timing) ==
  timing = "uhs_sdr104" \/ (timing = "uhs_sdr50" /\ NeedsTuningSdr50(drv))
NeedsTuning(timing) ==
  \/ timing \in {"uhs_sdr104", "uhs_ddr50"}
  \/ timing = "uhs_sdr50" /\ NeedsTuningSdr50(drv)

\* CMD6 sets the access mode.  A card that refuses keeps the mode it has.
Accepts(m) == [card EXCEPT !.mode = m.mode]

SdMode ==
  /\ stage = "sd_mode" /\ DataFits
  /\ \/ card' = Accepts(Fastest) /\ dev' = [dev EXCEPT !.polls = 0]
     \/ card' = card /\ dev' = [dev EXCEPT !.polls = 0, !.fault = TRUE]
  /\ LET set == SetClockAndTiming(drv, host, Fastest.freq, dev.timing, FALSE) IN
     IF 1 \in dev.sf.invalid THEN Goto("failed") /\ UNCHANGED host
     ELSE IF NeedsTuning(dev.timing)
     THEN host' = ResetTuning(drv, set) /\ Goto("sd_tune")
     ELSE host' = set /\ Goto("up")
  /\ UNCHANGED drv

\* CMD19 until the controller has tuned its clock, a timeout, or Max_loops.  Only
\* a card in a UHS mode sends the tuning block.  Without success the mode is
\* disabled and the host, but not the card, goes back to its slowest mode.
SdCanTune == CanTune(drv) /\ DataFits /\ card.mode \in UhsOnly

Disabled_Never(timing) == dev.disable
Disabled(timing) == dev.disable \cup {timing}

SdTune ==
  /\ stage = "sd_tune"
  /\ \/ /\ SdCanTune
        /\ host' = EnableAutoTuning(drv, Tuned(StartTuning(drv, host), dev.timing))
        /\ Goto("up")
        /\ UNCHANGED dev
     \/ /\ dev.polls + 1 < MaxTunings
        /\ host' = StartTuning(drv, host)
        /\ dev' = [dev EXCEPT !.polls = @ + 1]
        /\ UNCHANGED <<stage, phase>>
     \/ /\ host' = SetClockAndTiming(drv, host, 400 * KHz, "legacy", FALSE)
        /\ dev' = [dev EXCEPT !.disable = Disabled(dev.timing), !.fault = TRUE,
                              !.failed = @ \cup {dev.timing}]
        /\ Goto("sd_choose")
  /\ UNCHANGED <<drv, card>>

\* A command with data fails when the two sides disagree.
SdMisread ==
  /\ stage \in SdReads /\ ~DataFits
  /\ Throw

PowerUpSd ==
  \/ Probe \/ SdIdle \/ SdOpCond \/ SdVoltage \/ SdIdentify \/ SdCheck
  \/ SdChoose \/ SdWidth \/ SdPower \/ SdMode \/ SdTune \/ SdMisread
=============================================================================
