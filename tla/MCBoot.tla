------------------------------ MODULE MCBoot ------------------------------
(* Databases of older releases for TLC: one from before profiles whose         *)
(* bootstrap recorded 008 without running it, one before UTC, a current one.   *)
EXTENDS Boot

OldReleases == {<<10, 7>>, <<19, 19>>, <<28, 28>>}
=============================================================================
