-------------------------- MODULE MCVmProvisioning --------------------------
(* Two workers, two machines, and requests for them.                       *)
EXTENDS VmProvisioning, Naturals, TLC

CONSTANTS n1, n2, iso, disk

Ask(op, name, of, as) == [op |-> op, name |-> name, of |-> of, as |-> as]

Several ==
    {Ask("createVMfromISO", n1, iso, "SATA"),
     Ask("createVMfromSystemdisk", n2, disk, "SATA"),
     Ask("createVMfromSystemdisk", n2, disk, "noBus"),
     Ask("createVMfromSystemdisk", n2, disk, "unlisted"),
     Ask("cloneLinkVM", n2, n1, "any"),
     Ask("cloneFullVM", n2, n1, "any"),
     Ask("deleteVM", n1, Nobody, "Full"),
     Ask("exportVM", n1, Nobody, "any"),
     Ask("importVM", n2, Nobody, "any"),
     Ask("makeFloatDisk", n1, Nobody, "VDI"),
     Ask("makeFloatDisk", n1, Nobody, "unlisted"),
     Ask("destroyFloatDiskWithoutAttach", n1, Nobody, "any")}

\* Bounds: what VirtualBox does once the server has ended is not followed, nor
\* what happens once two operations have met errors (a linked clone that fails is
\* one, with two machines), or one and a machine has overtaken a deletion; at
\* most one machine runs, and none that an error has been met with.
ErrorBound == 2
RunBound == 1
Running == {n \in Names : state[n] = "Running"}
FollowedOn ==
    /\ up
    /\ Cardinality(UNION {erred[n] : n \in Names}) < ErrorBound
    /\ overtaken = {} \/ \A n \in Names : erred[n] = {}
    /\ Cardinality(Running) <= RunBound
    /\ \A n \in Running : erred[n] = {}

WorkerSymmetry == Permutations(Workers)

=============================================================================
