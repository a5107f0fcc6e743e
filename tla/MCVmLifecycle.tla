--------------------------- MODULE MCVmLifecycle ---------------------------
(* One machine and a few workers for TLC.  The run of the liveness property *)
(* declares no symmetry; the ones that look for a violation do.             *)
EXTENDS VmLifecycle, TLC

Everything == Operations
\* shutDown, resume and restart take the steps of pause with another request.
Most == Operations \ {"shutDown", "resume", "restart"}
Power == {"startUp", "powerOff", "vmSleep"}
Restores == {"restoreSnapshot"}
Snapshots == {"startUp", "vmSleep", "takeSnapshot", "restoreSnapshot", "deleteSnapshot"}

\* No machine has the snapshot that clients name.
SnapshotlessSpec == Init /\ (\A m \in Machines : ~hasSnap[m]) /\ [][Next]_vars

WorkerSymmetry == Permutations(Workers)

=============================================================================
