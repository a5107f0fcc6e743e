---------------------------- MODULE MCVmSettings ----------------------------
(* A machine and a few calls for TLC.                                      *)
EXTENDS VmSettings, TLC

Everything == DOMAIN Operation

CallSymmetry == Permutations(Calls)

=============================================================================
