---------------------------- MODULE MCCatalogue ----------------------------
(***************************************************************************)
(* Instances of Catalogue for TLC.                                         *)
(***************************************************************************)
EXTENDS Catalogue, TLC

MCNames == {"Default", "b"}

\* Nothing tells one type of entity from another.
MCSymmetry == Permutations(EntityTypes)
=============================================================================
