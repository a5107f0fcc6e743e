----------------------------- MODULE SessionLock -----------------------------
(***************************************************************************)
(* The lock of one machine as everybody who uses VirtualBox sees it: one   *)
(* session has it, or the process that executes the machine; others may be *)
(* linked to it as long as it lasts; it passes to nobody from whom it was  *)
(* not given back.  A session is in use from the beginning of a call to    *)
(* its end, and keeps nothing after it, neither the lock nor a link: at    *)
(* worst it is Abandoned, which ends by the machine being aborted.         *)
(* VmLifecycle, VmSettings and VmProvisioning implement it.                *)
(***************************************************************************)
CONSTANTS
    Sessions,   \* of calls
    Nobody,     \* no session
    Vm,         \* the session of the process that executes the machine
    Abandoned   \* a session that was released without unlockMachine

VARIABLES
    holder,  \* who has the lock
    linked,  \* the sessions that share it
    open     \* the sessions of calls in progress

lockVars == <<holder, linked, open>>

LockInit == holder \in {Nobody, Vm} /\ linked = {} /\ open = {}

Begins(s) ==
    /\ s \notin open
    /\ open' = open \cup {s}
    /\ UNCHANGED <<holder, linked>>

Locks(s) ==
    /\ s \in open /\ holder = Nobody
    /\ holder' = s
    /\ UNCHANGED <<linked, open>>

LinksTo(s) ==
    /\ s \in open /\ holder \in Sessions \cup {Vm}
    /\ linked' = linked \cup {s}
    /\ UNCHANGED <<holder, open>>

\* The lock ends with the session that has it, and its links with it.
Passes(to) == holder' = to /\ linked' = {}

\* unlockMachine, of a call that goes on.
Unlocks(s) ==
    /\ s \in open
    /\ IF holder = s THEN Passes(Nobody) ELSE linked' = linked \ {s} /\ UNCHANGED holder
    /\ UNCHANGED open

\* A call ends: with unlockMachine, with a session that goes out of scope, or
\* without having locked anything.
Ends(s) ==
    /\ s \in open
    /\ open' = open \ {s}
    /\ IF holder = s
       THEN Passes(Nobody) \/ Passes(Abandoned)
       ELSE linked' = linked \ {s} /\ UNCHANGED holder

\* The process of the machine takes the lock, for a call or by other means.
Launches ==
    /\ holder = Nobody
    /\ holder' = Vm
    /\ linked' \in {{}} \cup {{s} : s \in open}
    /\ UNCHANGED open

ProcessEnds == holder = Vm /\ Passes(Nobody) /\ UNCHANGED open

Reaps == holder = Abandoned /\ Passes(Nobody) /\ UNCHANGED open

LockNext ==
    \/ \E s \in Sessions : Begins(s) \/ Locks(s) \/ LinksTo(s) \/ Unlocks(s) \/ Ends(s)
    \/ Launches \/ ProcessEnds \/ Reaps

LockSpec == LockInit /\ [][LockNext]_lockVars

=============================================================================
