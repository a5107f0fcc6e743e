---------------------------- MODULE MCThreadPool ----------------------------
(* A small pool for TLC.  The run has liveness properties, so it declares  *)
(* no symmetry.                                                            *)
EXTENDS ThreadPool, TLC

=============================================================================
