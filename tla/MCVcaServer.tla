---------------------------- MODULE MCVcaServer ----------------------------
(* Two calls of one type, a second type that nobody calls, two workers.    *)
EXTENDS VcaServer, TLC

CONSTANTS k1, k2, test, vmCommon

AllCommon == [k \in Calls |-> vmCommon]

\* Addresses, calls of one type and workers are interchangeable.
ServerSymmetry == Permutations(Ctxs) \cup Permutations(Calls) \cup Permutations(Workers)

=============================================================================
