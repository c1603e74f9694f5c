------------------------------- MODULE MCSdhi -------------------------------
(***************************************************************************)
(* SdhiHost has no constants: it is checked as it is.                      *)
(***************************************************************************)
EXTENDS SdhiHost
=============================================================================
