------------------------------- MODULE MCSync -------------------------------
(***************************************************************************)
(* Sync on two market codes, a currency pair and a macro series.           *)
(***************************************************************************)
EXTENDS Sync
=============================================================================
