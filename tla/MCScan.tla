------------------------------- MODULE MCScan -------------------------------
(***************************************************************************)
(* Instances of Scan: a bus with three children.                           *)
(***************************************************************************)
EXTENDS Scan
=============================================================================
