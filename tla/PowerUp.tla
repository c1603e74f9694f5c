------------------------------- MODULE PowerUp -------------------------------
(***************************************************************************)
(* The initialization of one card as a whole: CardInit with SdPowerUp and  *)
(* MmcPowerUp, and what must hold when it has come to an end.              *)
(***************************************************************************)
EXTENDS SdPowerUp, MmcPowerUp

CONSTANTS
  Boards,       \* [drv, card, disable]: driver, card and --disable-mode options
  Voltages      \* signal voltages of an SD card when the driver starts

\* A card that takes 1.8 V is a UHS-I card: it has a mode that needs it.
ASSUME PowerUpAssumption ==
  /\ Boards \subseteq [drv : Drivers, card : Cards, disable : SUBSET ModeNames]
  /\ Voltages \subseteq SignalVoltages
  /\ \A b \in Boards : b.card.s18 => b.card.modes \cap UhsOnly # {}

Init ==
  \E b \in Boards, volt \in Voltages :
    /\ drv = b.drv
    /\ host = ResetHost
    /\ card = CardState(b.card, IF b.card.s18 THEN volt ELSE 330)
    /\ dev = Unknown(b.disable)
    /\ stage = "start" /\ phase = "command"

Next == Scanning \/ PowerUpSd \/ PowerUpMmc \/ Fault

Spec == Init /\ [][Next]_vars

\* The thread runs until it is through.
FairSpec == Spec /\ WF_vars(Next)

-----------------------------------------------------------------------------
(* How boards are meant to be used.                                        *)

\* HS400 is entered from HS200: no card has the one without the other, and nobody
\* disables HS200 alone.
Hs400ThroughHs200 ==
  \A b \in Boards :
    "hs400" \in b.card.modes \ b.disable => "hs200" \in b.card.modes \ b.disable

\* A card with enhanced strobe has a controller that makes use of it.
StrobeHonoured == \A b \in Boards : b.card.strobe => b.drv.type = "Usdhc"

\* Not every mode that can be entered directly is disabled.
SomeModeLeft ==
  \A b \in Boards : b.card.kind = "mmc" => b.card.modes \ b.disable \notin SUBSET {"hs400"}

-----------------------------------------------------------------------------
TypeOK ==
  /\ CardTypeOK
  /\ phase \in {"command", "status", "confirm", "check"}

\* A card that is up can be read: controller and card agree on the bus width and
\* on single or double data rate, and an SD card on the signal voltage, whatever
\* was refused, lost or given up on the way.
AgreeWhenUp ==
  stage = "up" =>
    /\ DataFits
    /\ card.is.kind = "sd" /\ drv.type \notin {"Plain", "Sdhi"} => host.volt = card.volt

\* The modes that need a tuned sample clock have it, from a tuning in this mode;
\* HS400 from HS200, or by the strobe of the card.
TunedWhenUp ==
  stage = "up" =>
    /\ card.mode \in {"hs200", "hs400"} =>
         \/ host.tuned = "mmc_hs200"
         \/ card.mode = "hs400" /\ card.strobed /\ SamplesStrobed(host)
    /\ \/ dev.timing \in {"uhs_sdr104", "uhs_ddr50"}
       \/ dev.timing = "uhs_sdr50" /\ "tune_sdr50" \in drv.caps
       => host.tuned = dev.timing

\* Whenever the driver is about to read data the clock on the bus is one that the
\* mode of the card allows.
AboutToRead == stage \in SdReads \cup {"mmc_ext_csd"} \/ phase = "check"
ReadsWithinClock == AboutToRead => host.freq <= MaxFrequency(card)

\* The eMMC card runs in the timing of _device_type_selected, which is the fastest
\* mode that the card has and the user allows, but for those whose attempt has
\* failed: no failure of a mode costs another one.
Speed(t) == CASE t = "hs26" -> 1 [] t = "hs52" -> 2 [] t = "hs52_ddr" -> 3
              [] t = "hs200" -> 4 [] t = "hs400" -> 5
TimingOf(t) == CASE t \in {"hs200", "hs400"} -> t
                 [] t \in {"hs52", "hs52_ddr"} -> "hs"
                 [] t = "hs26" -> "compat"
NoModeSkipped ==
  stage = "up" /\ card.is.kind = "mmc" =>
    LET allowed == card.is.modes \ dev.disable IN
    \E t \in dev.test \cap allowed :
      /\ card.mode = TimingOf(t)
      /\ \A u \in allowed : Speed(u) > Speed(t) => u \in dev.failed

\* Initialization fails only after some command has failed or was refused.
FailsOnlyOnFault == stage = "failed" => dev.fault

\* The card is in the access mode that the host runs in.  device-impl.h has the
\* check for a card that refuses: "Invalid function trying to set mode".
SdModeIsSet ==
  stage = "up" /\ card.is.kind = "sd" => card.mode = Fastest.mode

\* Initialization ends, one way or the other.
EventuallyEnds == <>Over
=============================================================================
