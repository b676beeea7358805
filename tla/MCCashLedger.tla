---------------------------- MODULE MCCashLedger ----------------------------
(* Instances of CashLedger for TLC.                                        *)
EXTENDS CashLedgerProperties, TLC

RateOne == [p \in Pockets |-> 1]
SnapSymmetry == Permutations(SnapIds)
=============================================================================
