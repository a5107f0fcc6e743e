--------------------------- MODULE MCVcaService ---------------------------
(* The smallest services that show what the code's comments do not hold of.*)
EXTENDS VcaService, TLC

CONSTANTS k1, vmCommon

AllCommon == [k \in Calls |-> vmCommon]

=============================================================================
