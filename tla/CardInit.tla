------------------------------- MODULE CardInit -------------------------------
(***************************************************************************)
(* The initialization of a card: the thread of start_device_scan() in      *)
(* device-impl.h, which resets the card, asks what it is and runs          *)
(* power_up_sd() (module SdPowerUp) or power_up_mmc() (MmcPowerUp), all of *)
(* it with cmd_exec(), one command after the other.                        *)
(*                                                                         *)
(* stage is the next command of the thread, phase the command within a     *)
(* SWITCH (exec_mmc_switch() and its callers).  One action is one command, *)
(* or the pair of mmc_app_cmd(), and the code up to the next one.          *)
(*                                                                         *)
(* The card is external.  It may fail any command, refuse any switch of    *)
(* its mode, and answers a command with data only if it and the controller *)
(* agree on the bus width and on the edges data is sampled on.             *)
(***************************************************************************)
EXTENDS HostModes

CONSTANTS
  MaxTries,     \* ACMD41 and CMD1 until the card is not busy: 100 in the code
  MaxVoltTries, \* attempts to switch the voltage of an SD card: 10
  MaxTunings,   \* Max_loops of CMD19 and CMD21: 40
  MaxPolls      \* CMD13 after a SWITCH: 50

ASSUME CardInitAssumption ==
  {MaxTries, MaxVoltTries, MaxTunings, MaxPolls} \subseteq Nat \ {0}

VARIABLES
  drv,      \* the driver, fixed
  host,     \* its bus registers
  card,     \* the card: what it is, fixed, and its mode
  dev,      \* what class Device knows
  stage, phase

vars == <<drv, host, card, dev, stage, phase>>

\* Access modes of SD cards, device types of eMMC cards at 1.8 V or above.
SdModes == {"sdr12", "sdr25", "sdr50", "sdr104", "ddr50"}
MmcTypes == {"hs26", "hs52", "hs52_ddr", "hs200", "hs400"}
UhsOnly == {"sdr50", "sdr104", "ddr50"}       \* SD modes that need 1.8 V

PowerLimits == {72, 144, 180, 216, 288}       \* in 10 mW
SdCards ==
  [kind : {"sd"}, modes : SUBSET SdModes, limits : SUBSET PowerLimits,
   s18 : BOOLEAN, wide : BOOLEAN, strobe : {FALSE}, cache : {FALSE}]
MmcCards ==
  [kind : {"mmc"}, modes : SUBSET MmcTypes, limits : {{}},
   s18 : {FALSE}, wide : {TRUE}, strobe : BOOLEAN, cache : BOOLEAN]
Cards == SdCards \cup MmcCards

\* The state of a card after CMD0; the signal voltage of an SD card stays.
IdleMode(kind) == IF kind = "sd" THEN "sdr12" ELSE "compat"
CardState(what, volt) ==
  [is |-> what, width |-> 1, ddr |-> FALSE, strobed |-> FALSE, volt |-> volt,
   mode |-> IdleMode(what.kind), refused |-> FALSE]
Idle(c) == CardState(c.is, c.volt)

\* The clock each mode allows, and whether data comes on both edges.
MaxFrequency(c) ==
  CASE c.mode = "sdr12" -> 25 * MHz
    [] c.mode = "compat" -> 26 * MHz
    [] c.mode \in {"sdr25", "ddr50"} -> 50 * MHz
    [] c.mode = "hs" -> 52 * MHz
    [] c.mode = "sdr50" -> 100 * MHz
    [] c.mode = "sdr104" -> 208 * MHz
    [] c.mode \in {"hs200", "hs400"} -> 200 * MHz
SendsDdr(c) == c.ddr \/ c.mode = "ddr50"

DataFits == host.width = card.width /\ SamplesDdr(drv, host) = SendsDdr(card)

Over == stage \in {"up", "failed"}

\* What Device knows: loop counters, v18, _device_type_disable, the copy `sf' of
\* the switch function status, has_bus_4bit; _device_type_restricted,
\* device_type_test, _enh_strobe, _has_cache; the timing chosen.  fault and
\* failed are history: a command failed, and the modes whose attempt failed.
Unknown(disable) ==
  [tries |-> 0, polls |-> 0, v18 |-> FALSE, disable |-> disable,
   sf |-> [modes |-> {}, limits |-> {}, invalid |-> {}], wide |-> FALSE,
   restricted |-> {}, test |-> {}, strobe |-> FALSE, cache |-> FALSE,
   timing |-> "legacy", fault |-> FALSE, failed |-> {}]

Goto(next) == stage' = next /\ phase' = "command"

\* The thread ends with an exception, caught in start_device_scan().
Throw == Goto("failed") /\ UNCHANGED <<drv, host, card, dev>>

\* It may do so at any command: the command fails, receive_irq() or Util::poll()
\* times out, or the card is one the driver does not handle, locked or too old.
Fault ==
  /\ ~Over
  /\ Goto("failed")
  /\ dev' = [dev EXCEPT !.fault = TRUE]
  /\ UNCHANGED <<drv, host, card>>

-----------------------------------------------------------------------------
(* start_device_scan(): host and card in their slowest mode, CMD0 and CMD8. *)

Slowest(h) ==
  SetClockAndTiming(drv, SetBusWidth(h, 1), 400 * KHz, "legacy", FALSE)

Start ==
  /\ stage = "start"
  /\ host' = Slowest(SetVoltage(drv, host, 330))
  /\ Goto("go_idle")
  /\ UNCHANGED <<drv, card, dev>>

GoIdle ==
  /\ stage = "go_idle"
  /\ card' = Idle(card)
  /\ Goto("if_cond")
  /\ UNCHANGED <<drv, host, dev>>

\* SEND_IF_COND: a timeout is as good as an answer, other errors have one retry.
IfCond ==
  /\ stage = "if_cond"
  /\ \/ /\ Goto("sd_probe")
        /\ UNCHANGED dev
     \/ /\ dev.tries = 0
        /\ dev' = [dev EXCEPT !.tries = 1, !.fault = TRUE]
        /\ Goto("go_idle")
  /\ UNCHANGED <<drv, host, card>>

Scanning == Start \/ GoIdle \/ IfCond

\* The type invariant.
CardModes == SdModes \cup {"compat", "hs", "hs200", "hs400"}
CardStates ==
  [is : Cards, width : BusWidths, ddr : BOOLEAN, strobed : BOOLEAN,
   volt : SignalVoltages, mode : CardModes, refused : BOOLEAN]
Tries == 0 .. Max({5, MaxVoltTries})
Polls == 0 .. Max({MaxTries, MaxTunings, MaxPolls})
ModeNames == UhsTimings \cup MmcTypes
SwitchStates == [modes : SUBSET SdModes, limits : SUBSET PowerLimits, invalid : SUBSET {1, 4}]
DevStates ==
  [tries : Tries, polls : Polls, v18 : BOOLEAN, disable : SUBSET ModeNames,
   sf : SwitchStates, wide : BOOLEAN, restricted : SUBSET MmcTypes,
   test : SUBSET MmcTypes, strobe : BOOLEAN, cache : BOOLEAN, timing : Timings,
   fault : BOOLEAN, failed : SUBSET ModeNames]

CardTypeOK ==
  /\ drv \in Drivers /\ host \in Hosts /\ card \in CardStates /\ dev \in DevStates
  /\ card.mode \in SdModes <=> card.is.kind = "sd"
=============================================================================
