---------------------------- MODULE MCEmmcDevice ----------------------------
(***************************************************************************)
(* EmmcDevice on small instances.                                          *)
(***************************************************************************)
EXTENDS EmmcDevice, TLC

\* uSDHC, iProc, BCM2711: the controller sends CMD23.
AutoDrivers == {[adma2 |-> TRUE, autoCmd23 |-> TRUE, hasCmd23 |-> TRUE]}

\* Plain SDHCI: the driver sends CMD23.
PlainDrivers == {[adma2 |-> TRUE, autoCmd23 |-> FALSE, hasCmd23 |-> TRUE]}

\* Cards without CMD23, on either controller: CMD12 ends each transfer.
StopDrivers == {[adma2 |-> TRUE, autoCmd23 |-> a, hasCmd23 |-> FALSE] :
                  a \in BOOLEAN}

AllDrivers == AutoDrivers \cup PlainDrivers \cup StopDrivers

\* The two chains of commands; with Auto CMD23 there is no chain.
ChainDrivers == {[adma2 |-> TRUE, autoCmd23 |-> FALSE, hasCmd23 |-> h] :
                   h \in BOOLEAN}

TwoSectors == {<<2>>}

\* The requests are alike.
Symmetry == Permutations(Reqs)
=============================================================================
