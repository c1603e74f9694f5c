----------------------------- MODULE MmcPowerUp -----------------------------
(***************************************************************************)
(* Device::power_up_mmc() of device-impl.h, with exec_mmc_switch(),        *)
(* mmc_set_bus_width() and mmc_set_timing(): identification, the settings  *)
(* that stay, and the choice of the timing, from HS400 down to 26 MHz,     *)
(* with tuning and with what is left to try when a mode fails.             *)
(*                                                                         *)
(* The phases of a SWITCH: "command" is CMD6, "status" the CMD13 of        *)
(* exec_mmc_switch(), "confirm" and "check" the CMD13 and the CMD8         *)
(* (EXT_CSD) of mmc_set_timing().                                          *)
(***************************************************************************)
EXTENDS CardInit, Sequences

\* CMD1: an SD card does not answer and ends the initialization.
MmcProbe ==
  /\ stage = "mmc_probe"
  /\ IF card.is.kind = "mmc" THEN Goto("mmc_idle") ELSE Goto("failed")
  /\ dev' = [dev EXCEPT !.fault = @ \/ card.is.kind = "sd"]
  /\ UNCHANGED <<drv, host, card>>

MmcIdle ==
  /\ stage = "mmc_idle"
  /\ card' = Idle(card)
  /\ dev' = [dev EXCEPT !.polls = 0]
  /\ Goto("mmc_op_cond")
  /\ UNCHANGED <<drv, host>>

\* CMD1 until the card is not busy.
MmcOpCond ==
  /\ stage = "mmc_op_cond"
  /\ \/ /\ dev' = [dev EXCEPT !.polls = @ + 1, !.fault = @ \/ dev.polls + 1 = MaxTries]
        /\ IF dev.polls + 1 < MaxTries THEN UNCHANGED <<stage, phase>> ELSE Goto("failed")
     \/ /\ dev' = [dev EXCEPT !.tries = 0]
        /\ Goto("mmc_cid")
  /\ UNCHANGED <<drv, host, card>>

\* CMD2 has five attempts, all others one.
MmcCid_OneMore ==
  /\ stage = "mmc_cid"
  /\ \/ /\ Goto("mmc_rca")
        /\ UNCHANGED dev
     \/ /\ dev' = [dev EXCEPT !.tries = @ + 1, !.fault = TRUE]
        /\ IF dev.tries < 5 THEN UNCHANGED <<stage, phase>> ELSE Goto("failed")
  /\ UNCHANGED <<drv, host, card>>
MmcCid ==
  /\ stage = "mmc_cid"
  /\ \/ /\ Goto("mmc_rca")
        /\ UNCHANGED dev
     \/ /\ dev' = [dev EXCEPT !.tries = @ + 1, !.fault = TRUE]
        /\ IF dev.tries + 1 < 5 THEN UNCHANGED <<stage, phase>> ELSE Goto("failed")
  /\ UNCHANGED <<drv, host, card>>

\* CMD3, CMD9, CMD7.
MmcSteps == <<"mmc_rca", "mmc_csd", "mmc_select", "mmc_ext_csd">>
MmcIdentify ==
  \E n \in 1 .. Len(MmcSteps) - 1 :
    /\ stage = MmcSteps[n]
    /\ Goto(MmcSteps[n + 1])
    /\ UNCHANGED <<drv, host, card, dev>>

\* CMD8 reads EXT_CSD.
MmcExtCsd ==
  /\ stage = "mmc_ext_csd"
  /\ IF DataFits
     THEN /\ dev' = [dev EXCEPT !.restricted = card.is.modes \ dev.disable,
                                !.strobe = card.is.strobe]
          /\ Goto("erase_group")
          /\ UNCHANGED <<drv, host, card>>
     ELSE Throw

\* CMD16 stands between the first SWITCH and the others.
SetBlockLength ==
  /\ stage = "block_length"
  /\ Goto("power_off_notification")
  /\ UNCHANGED <<drv, host, card, dev>>

-----------------------------------------------------------------------------
(* SWITCH.                                                                 *)

\* The settings in their order; the cache is switched on if there is one.
Settings == {"erase_group", "power_off_notification", "hpi_mgmt", "cache", "bkops"}
AfterSetting(s) ==
  CASE s = "erase_group" -> "block_length"
    [] s = "power_off_notification" -> "hpi_mgmt"
    [] s = "hpi_mgmt" -> IF card.is.cache THEN "cache" ELSE "bkops"
    [] s = "cache" -> "bkops"
    [] s = "bkops" -> "mmc_choose"

Widths == {"width", "hs400_width"}
TimingSteps == {"timing", "hs400_prepare", "hs400"}
Switches == Settings \cup Widths \cup TimingSteps

\* The modes from the fastest to the slowest: test is what is not tried again.
MmcPreference ==
  << [type |-> "hs200", freq |-> 200 * MHz, hs |-> "hs200", timing |-> "mmc_hs200",
      ddr |-> FALSE, test |-> {"hs400", "hs200"}],
     [type |-> "hs52_ddr", freq |-> 52 * MHz, hs |-> "hs", timing |-> "mmc_ddr52",
      ddr |-> TRUE, test |-> {"hs52_ddr"}],
     [type |-> "hs52", freq |-> 52 * MHz, hs |-> "hs", timing |-> "hs",
      ddr |-> FALSE, test |-> {"hs52"}],
     [type |-> "hs26", freq |-> 26 * MHz, hs |-> "compat", timing |-> "hs",
      ddr |-> FALSE, test |-> {"hs26"}] >>
Ranks(types) == {i \in 1 .. Len(MmcPreference) : MmcPreference[i].type \in types}
Best(types) == MmcPreference[Min(Ranks(types))]
Chosen == Best(dev.restricted)

Hs400 == "hs400" \in dev.restricted

\* What each step switches the card and then the host to.
NewTiming ==
  CASE stage = "timing" -> Chosen
    [] stage = "hs400_prepare" -> [freq |-> 52 * MHz, hs |-> "hs", timing |-> "hs"]
    [] stage = "hs400" -> [freq |-> 200 * MHz, hs |-> "hs400", timing |-> "mmc_hs400"]

SwitchedCard ==
  CASE stage \in Settings -> card
    [] stage = "width" -> [card EXCEPT !.width = 8, !.ddr = Chosen.ddr, !.strobed = FALSE]
    [] stage = "hs400_width" ->
         [card EXCEPT !.width = 8, !.ddr = TRUE, !.strobed = dev.strobe]
    [] stage \in TimingSteps -> [card EXCEPT !.mode = NewTiming.hs]

\* `continue' in the loop of power_up_mmc(): the attempt has failed, for all modes
\* it was for, once HS400 is on its way for HS400 alone.
NextMode ==
  /\ Goto("mmc_choose")
  /\ dev' = [dev EXCEPT !.fault = TRUE,
               !.failed = @ \cup (IF stage \in {"hs400_prepare", "hs400_width", "hs400"}
                                  THEN {"hs400"} ELSE dev.test)]

\* A SWITCH that fails ends the initialization, or the attempt at a mode.
SwitchFails ==
  IF stage \in Settings
  THEN Goto("failed") /\ dev' = [dev EXCEPT !.fault = TRUE]
  ELSE NextMode

\* The HS400 block: HS200 will be tested separately.
Up(test) == Goto("up") /\ dev' = [dev EXCEPT !.test = test]
EnterHs400_Both ==
  IF Hs400 THEN Goto("hs400_prepare") /\ dev' = [dev EXCEPT !.polls = 0]
  ELSE Up(dev.test)
EnterHs400 ==
  IF Hs400
  THEN Goto("hs400_prepare") /\ dev' = [dev EXCEPT !.test = @ \ {"hs200"}, !.polls = 0]
  ELSE Up(dev.test)

\* What follows a switch of the bus width; with enhanced strobe HS400 needs no
\* HS200 before it.
AfterWidthSwitch ==
  IF stage = "hs400_width" THEN Goto("hs400") /\ UNCHANGED dev
  ELSE IF Hs400 /\ dev.strobe THEN EnterHs400
  ELSE Goto("timing") /\ UNCHANGED dev

\* ... and a switch of the timing.
AfterTiming ==
  CASE stage = "timing" /\ "hs200" \in dev.test ->
         Goto("tune") /\ dev' = [dev EXCEPT !.polls = 0]
    [] stage = "timing" /\ "hs200" \notin dev.test -> EnterHs400
    [] stage = "hs400_prepare" -> Goto("hs400_width") /\ UNCHANGED dev
    [] stage = "hs400" -> Up(dev.test)

\* CMD6.  The card may act, refuse, or act and have its answer lost.
Switch ==
  /\ stage \in Switches /\ phase = "command"
  /\ \/ /\ card' \in {SwitchedCard, [card EXCEPT !.refused = TRUE]}
        /\ dev' = [dev EXCEPT !.polls = 0]
        /\ phase' = "status" /\ UNCHANGED stage
     \/ /\ card' \in {SwitchedCard, card}
        /\ SwitchFails
  /\ UNCHANGED <<drv, host>>

\* After the last CMD13 of exec_mmc_switch(), with the card's answer.  Settings and
\* widths a card refuses are no error: power_up_mmc() goes on with the next step.
SwitchDone(refused) ==
  CASE stage \in Settings ->
         /\ Goto(AfterSetting(stage))
         /\ dev' = [dev EXCEPT !.cache = @ \/ stage = "cache",
                               !.fault = @ \/ refused]
         /\ UNCHANGED host
    [] stage \in Widths ->
         /\ host' = IF refused THEN host ELSE SetBusWidth(host, 8)
         /\ AfterWidthSwitch
    [] stage \in TimingSteps /\ refused ->
         NextMode /\ UNCHANGED host
    [] stage \in TimingSteps /\ ~refused ->
         /\ host' = SetClockAndTiming(drv, host, NewTiming.freq, NewTiming.timing,
                                      stage = "hs400" /\ dev.strobe)
         /\ phase' = "confirm" /\ UNCHANGED <<stage, dev>>

\* CMD13 of exec_mmc_switch(), until the card is ready or for MaxPolls times.
SwitchStatusPoll ==
  /\ stage \in Switches /\ phase = "status"
  /\ \/ /\ ~card.refused /\ dev.polls + 1 < MaxPolls
        /\ dev' = [dev EXCEPT !.polls = @ + 1]
        /\ UNCHANGED <<host, card, stage, phase>>
     \/ /\ card' = [card EXCEPT !.refused = FALSE]
        /\ SwitchDone(card.refused)
     \/ /\ card' = [card EXCEPT !.refused = FALSE]
        /\ SwitchFails
        /\ UNCHANGED host
  /\ UNCHANGED drv

\* CMD13 of mmc_set_timing(), in the new timing.
ConfirmTiming ==
  /\ stage \in TimingSteps /\ phase = "confirm"
  /\ \/ phase' = "check" /\ UNCHANGED <<stage, dev>>
     \/ NextMode
  /\ UNCHANGED <<drv, host, card>>

\* CMD8 of mmc_set_timing(): the card can be read and is in the new timing.
CheckTiming ==
  /\ stage \in TimingSteps /\ phase = "check"
  /\ \/ DataFits /\ card.mode = NewTiming.hs /\ AfterTiming
     \/ NextMode
  /\ UNCHANGED <<drv, host, card>>

-----------------------------------------------------------------------------
(* The choice of the mode.                                                 *)

\* The head of the loop: the modes of the last attempt are not tried again.
Remaining == dev.restricted \ dev.test

MmcChoose ==
  /\ stage = "mmc_choose"
  /\ IF Ranks(Remaining) = {} THEN Throw
     ELSE /\ dev' = [dev EXCEPT !.restricted = Remaining, !.test = Best(Remaining).test]
          /\ host' = SetVoltage(drv, host, 180)
          /\ Goto("width")
          /\ UNCHANGED <<drv, card>>

\* CMD21, as CMD19 in power_up_sd().
MmcTune ==
  /\ stage = "tune"
  /\ \/ /\ CanTune(drv) /\ DataFits /\ card.mode = "hs200"
        /\ host' = Tuned(StartTuning(drv, host), "mmc_hs200")
        /\ EnterHs400
     \/ /\ dev.polls + 1 < MaxTunings
        /\ host' = StartTuning(drv, host)
        /\ dev' = [dev EXCEPT !.polls = @ + 1]
        /\ UNCHANGED <<stage, phase>>
     \/ /\ host' = StartTuning(drv, host)
        /\ NextMode
  /\ UNCHANGED <<drv, card>>

PowerUpMmc ==
  \/ MmcProbe \/ MmcIdle \/ MmcOpCond \/ MmcCid \/ MmcIdentify \/ MmcExtCsd
  \/ SetBlockLength \/ Switch \/ SwitchStatusPoll \/ ConfirmTiming \/ CheckTiming
  \/ MmcChoose \/ MmcTune
=============================================================================
