---------------------------- MODULE VmLifecycle ----------------------------
(***************************************************************************)
(* The power and snapshot operations of QiVCA (source/vca_core.cpp) as the *)
(* pool's workers run them, against VirtualBox.  Every operation has the   *)
(* same skeleton: find the machine by name, read its state, refuse or go   *)
(* on, lock it for a session, make one request of VirtualBox, perhaps wait *)
(* for its progress, unlock.  What differs is a record per operation.      *)
(* Several workers, the guest and VirtualBox itself act between any two    *)
(* steps: the state that was read may have changed when it is acted upon.  *)
(*                                                                         *)
(* VirtualBox is external.  Its states, what it accepts in which of them   *)
(* and what a session lock means are those of the API description the code *)
(* is written against (lib/libvbox-6.0.10/sdk/bindings/VirtualBox.xidl);   *)
(* every error becomes a COMError exception in the caller.                 *)
(***************************************************************************)
EXTENDS Naturals, FiniteSets

CONSTANTS
    Workers,    \* the workers that run these operations
    Machines,   \* the registered machines
    Unknown,    \* a name no machine has
    Offered,    \* the operations clients call in this instance
    Nobody,     \* no session, no worker
    Vm,         \* the session of the process that executes a machine
    Abandoned   \* a session that was released without unlockMachine

Operations ==
    {"startUp", "shutDown", "powerOff", "pause", "resume", "vmSleep", "restart",
     "takeSnapshot", "restoreSnapshot", "deleteSnapshot"}

ASSUME LifecycleAssumption ==
    /\ Unknown \notin Machines
    /\ Offered \subseteq Operations
    /\ Nobody # Vm /\ Nobody # Abandoned /\ Vm # Abandoned
    /\ {Nobody, Vm, Abandoned} \cap Workers = {}

VARIABLES
    \* VirtualBox
    state,     \* IMachine.state
    prior,     \* in a passing state, the state it was entered from
    writer,    \* the session that has the machine's write lock
    busyFor,   \* the worker whose progress the passing state completes
    hasSnap,   \* whether the snapshot that clients name exists
    \* the workers
    pc,        \* the next step of the operation
    op,        \* the operation called
    target,    \* the machine name it was called with
    nested,    \* restoreSnapshot is inside its call of vmSleep
    link,      \* what the worker's session has locked: see Links
    asked,     \* the requests VirtualBox has accepted for this call
    reply,     \* the value the operation returned
    up         \* the server process exists

vbox == <<state, prior, writer, busyFor, hasSnap>>
worker == <<pc, op, target, nested, link, asked, reply>>
vars == <<state, prior, writer, busyFor, hasSnap,
          pc, op, target, nested, link, asked, reply, up>>

Resting == {"PoweredOff", "Saved", "Aborted"}
\* The states in which a process executes the machine.
Online == {"Starting", "Restoring", "Running", "Paused", "Stuck", "Stopping", "Saving",
           "LiveSnapshotting", "OnlineSnapshotting",
           "DeletingSnapshotOnline", "DeletingSnapshotPaused"}
States == Resting \cup Online \cup {"Snapshotting", "RestoringSnapshot", "DeletingSnapshot"}
Requests == {"launchVMProcess", "powerButton", "powerDown", "pause", "resume", "reset",
             "saveState", "takeSnapshot", "restoreSnapshot", "deleteSnapshot"}
\* "shared" links to another session's lock; "gone" once that session ended.
Links == {"none", "write", "shared", "gone"}
Steps == {"idle", "find", "state", "lock", "request", "wait", "unlock", "answered", "threw"}

TypeOK ==
    /\ state \in [Machines -> States]
    /\ prior \in [Machines -> States]
    /\ writer \in [Machines -> Workers \cup {Nobody, Vm, Abandoned}]
    /\ busyFor \in [Machines -> Workers \cup {Nobody}]
    /\ hasSnap \in [Machines -> BOOLEAN]
    /\ pc \in [Workers -> Steps]
    /\ op \in [Workers -> Operations]
    /\ target \in [Workers -> Machines \cup {Unknown}]
    /\ nested \in [Workers -> BOOLEAN]
    /\ link \in [Workers -> Links]
    /\ asked \in [Workers -> SUBSET Requests]
    /\ reply \in [Workers -> BOOLEAN]
    /\ up \in BOOLEAN

Init ==
    /\ state \in [Machines -> {"PoweredOff", "Running"}]
    /\ prior = state
    /\ writer = [m \in Machines |-> IF state[m] \in Online THEN Vm ELSE Nobody]
    /\ busyFor = [m \in Machines |-> Nobody]
    /\ hasSnap \in [Machines -> BOOLEAN]
    /\ pc = [w \in Workers |-> "idle"]
    /\ op = [w \in Workers |-> "startUp"]
    /\ target = [w \in Workers |-> Unknown]
    /\ nested = [w \in Workers |-> FALSE]
    /\ link = [w \in Workers |-> "none"]
    /\ asked = [w \in Workers |-> {}]
    /\ reply = [w \in Workers |-> FALSE]
    /\ up = TRUE

-----------------------------------------------------------------------------
(* The operations.  "from": the states in which an operation goes on;      *)
(* "sleeps": those in which it calls vmSleep instead; "other": what it may *)
(* return in the rest (BOOLEAN where it ends without a return statement);  *)
(* "waits": whether it waits for the request's progress; "catches":        *)
(* whether it catches COMError, after which its result is unspecified.     *)

StartUp ==
    [from |-> {"PoweredOff", "Aborted", "Saved"}, sleeps |-> {}, other |-> {FALSE},
     request |-> "launchVMProcess", waits |-> TRUE, catches |-> TRUE]

ShutDown ==
    [from |-> {"Running"}, sleeps |-> {}, other |-> {FALSE},
     request |-> "powerButton", waits |-> FALSE, catches |-> FALSE]

PowerOff ==
    [from |-> States \ {"Saving", "Restoring", "Saved", "Aborted", "PoweredOff",
                        "Snapshotting", "RestoringSnapshot", "DeletingSnapshot"},
     sleeps |-> {}, other |-> BOOLEAN,
     request |-> "powerDown", waits |-> FALSE, catches |-> FALSE]

Pause ==
    [from |-> {"Running", "Starting", "Stopping"}, sleeps |-> {}, other |-> {FALSE},
     request |-> "pause", waits |-> FALSE, catches |-> FALSE]

Resume ==
    [from |-> {"Paused"}, sleeps |-> {}, other |-> {FALSE},
     request |-> "resume", waits |-> FALSE, catches |-> FALSE]

VmSleep ==
    [from |-> {"Running", "Paused"}, sleeps |-> {}, other |-> {FALSE},
     request |-> "saveState", waits |-> TRUE, catches |-> FALSE]

Restart ==
    [from |-> {"Running"}, sleeps |-> {}, other |-> {FALSE},
     request |-> "reset", waits |-> FALSE, catches |-> FALSE]

TakeSnapshot ==
    [from |-> {"Running"}, sleeps |-> {}, other |-> {FALSE},
     request |-> "takeSnapshot", waits |-> TRUE, catches |-> FALSE]

RestoreSnapshot ==
    [from |-> {"PoweredOff", "Saved"},
     sleeps |-> {"Starting", "Stopping", "Paused", "Saving", "Running"},
     other |-> {FALSE},
     request |-> "restoreSnapshot", waits |-> TRUE, catches |-> TRUE]

DeleteSnapshot ==
    [from |-> {"PoweredOff", "Running", "Saved"}, sleeps |-> {}, other |-> {FALSE},
     request |-> "deleteSnapshot", waits |-> TRUE, catches |-> FALSE]

Operation ==
    [startUp |-> StartUp, shutDown |-> ShutDown, powerOff |-> PowerOff, pause |-> Pause,
     resume |-> Resume, vmSleep |-> VmSleep, restart |-> Restart,
     takeSnapshot |-> TakeSnapshot, restoreSnapshot |-> RestoreSnapshot,
     deleteSnapshot |-> DeleteSnapshot]

\* The function the worker is in.
Doing(w) == IF nested[w] THEN VmSleep ELSE Operation[op[w]]

-----------------------------------------------------------------------------
(* Sessions and locks (external).                                          *)

\* The machine's write lock ends: sessions that shared it are closed.
LinksAfter(m) ==
    [w \in Workers |-> IF target[w] = m /\ link[w] = "shared" THEN "gone" ELSE link[w]]

\* The worker's session ends, by unlockMachine or by release of its last
\* reference; leaves is the session that has the write lock afterwards.
EndSession(w, leaves) ==
    IF link[w] = "write"
    THEN /\ writer' = [writer EXCEPT ![target[w]] = leaves]
         /\ link' = [LinksAfter(target[w]) EXCEPT ![w] = "none"]
    ELSE /\ link' = [link EXCEPT ![w] = "none"]
         /\ UNCHANGED writer

\* A COMError leaves the function: its session goes out of scope.  A function
\* that catches it ends without a result, any other leaves the call unanswered.
Throw(w) ==
    /\ EndSession(w, Abandoned)
    /\ nested' = [nested EXCEPT ![w] = FALSE]
    /\ IF Operation[op[w]].catches
       THEN /\ pc' = [pc EXCEPT ![w] = "answered"]
            /\ \E r \in BOOLEAN : reply' = [reply EXCEPT ![w] = r]
       ELSE /\ pc' = [pc EXCEPT ![w] = "threw"]
            /\ UNCHANGED reply
    /\ UNCHANGED <<state, prior, busyFor, hasSnap, op, target, asked, up>>

Answer(w, r) ==
    /\ pc' = [pc EXCEPT ![w] = "answered"]
    /\ reply' = [reply EXCEPT ![w] = r]
    /\ nested' = [nested EXCEPT ![w] = FALSE]

-----------------------------------------------------------------------------
(* The steps of a worker.                                                  *)

Call(w, x, n) ==
    /\ up /\ pc[w] \in {"idle", "answered", "threw"}
    /\ pc' = [pc EXCEPT ![w] = "find"]
    /\ op' = [op EXCEPT ![w] = x]
    /\ target' = [target EXCEPT ![w] = n]
    /\ asked' = [asked EXCEPT ![w] = {}]
    /\ reply' = [reply EXCEPT ![w] = FALSE]
    /\ UNCHANGED <<vbox, nested, link, up>>

\* findMachine raises an error for a name it does not know: the branches for a
\* null machine are never taken.
FindMachine(w) ==
    /\ up /\ pc[w] = "find"
    /\ IF target[w] \in Machines
       THEN /\ pc' = [pc EXCEPT ![w] = "state"]
            /\ UNCHANGED <<vbox, op, target, nested, link, asked, reply, up>>
       ELSE Throw(w)

\* launchVMProcess takes no lock before it.
GoOn(w) ==
    /\ state[target[w]] \in Doing(w).from
    /\ pc' = [pc EXCEPT ![w] = IF Doing(w).request = "launchVMProcess"
                               THEN "request" ELSE "lock"]
    /\ UNCHANGED <<vbox, op, target, nested, link, asked, reply, up>>

SleepInstead(w) ==
    /\ state[target[w]] \in Doing(w).sleeps
    /\ nested' = [nested EXCEPT ![w] = TRUE]
    /\ pc' = [pc EXCEPT ![w] = "find"]
    /\ UNCHANGED <<vbox, op, target, link, asked, reply, up>>

\* Mutation: the refusing branch breaks instead of returning false.
Refuse_breaks(w) ==
    /\ state[target[w]] \notin Doing(w).from \cup Doing(w).sleeps
    /\ Answer(w, TRUE)
    /\ UNCHANGED <<vbox, op, target, link, asked, up>>

Refuse(w) ==
    /\ state[target[w]] \notin Doing(w).from \cup Doing(w).sleeps
    /\ \E r \in Doing(w).other : Answer(w, r)
    /\ UNCHANGED <<vbox, op, target, link, asked, up>>

\* switch (machine->state()): the state is read once.
ReadState(w) ==
    /\ up /\ pc[w] = "state"
    /\ GoOn(w) \/ SleepInstead(w) \/ Refuse(w)

\* lockMachine(Shared): the write lock if nobody has it, else a link to it.
Lock(w) ==
    /\ up /\ pc[w] = "lock"
    /\ writer[target[w]] # Abandoned
    /\ IF writer[target[w]] = Nobody
       THEN /\ writer' = [writer EXCEPT ![target[w]] = w]
            /\ link' = [link EXCEPT ![w] = "write"]
       ELSE /\ link' = [link EXCEPT ![w] = "shared"]
            /\ UNCHANGED writer
    /\ pc' = [pc EXCEPT ![w] = "request"]
    /\ UNCHANGED <<state, prior, busyFor, hasSnap, op, target, nested, asked, reply, up>>

\* "Session already open or being opened": a process comes or goes.
LockRefused(m) ==
    \/ writer[m] = Abandoned
    \/ state[m] \in {"Starting", "Restoring", "Stopping", "Saving"}
LockFails(w) ==
    /\ up /\ pc[w] = "lock"
    /\ LockRefused(target[w])
    /\ Throw(w)

ConsoleRequests == {"powerButton", "powerDown", "pause", "resume", "reset"}

AcceptedIn ==
    [launchVMProcess |-> Resting,
     powerButton |-> {"Running"},
     powerDown |-> {"Running", "Paused", "Stuck"},
     pause |-> {"Running"},
     resume |-> {"Paused"},
     reset |-> {"Running"},
     saveState |-> {"Running", "Paused"},
     takeSnapshot |-> Resting \cup {"Running", "Paused"},
     restoreSnapshot |-> Resting,
     deleteSnapshot |-> Resting \cup {"Running", "Paused"}]

\* The state a machine goes to at once when a request is accepted in state s.
StateOn(request, s) ==
    CASE request = "launchVMProcess" -> IF s = "Saved" THEN "Restoring" ELSE "Starting"
      [] request \in {"powerButton", "reset"} -> s
      [] request = "powerDown" -> "Stopping"
      [] request = "pause" -> "Paused"
      [] request = "resume" -> "Running"
      [] request = "saveState" -> "Saving"
      [] request = "takeSnapshot" -> IF s = "Running" THEN "LiveSnapshotting"
                                     ELSE IF s = "Paused" THEN "OnlineSnapshotting"
                                     ELSE "Snapshotting"
      [] request = "restoreSnapshot" -> "RestoringSnapshot"
      [] request = "deleteSnapshot" -> IF s = "Running" THEN "DeletingSnapshotOnline"
                                       ELSE IF s = "Paused" THEN "DeletingSnapshotPaused"
                                       ELSE "DeletingSnapshot"

\* What the request needs besides the state: a session, and a snapshot to find.
Possible(w, request) ==
    LET m == target[w]
    IN  /\ state[m] \in AcceptedIn[request]
        /\ request = "launchVMProcess" => writer[m] = Nobody
        /\ request # "launchVMProcess" => link[w] \in {"write", "shared"}
        /\ request \in {"restoreSnapshot", "deleteSnapshot"} => hasSnap[m]

\* A session that locked no running machine has a null console.
NullConsole(w) ==
    /\ Doing(w).request \in ConsoleRequests
    /\ link[w] \in {"write", "shared"}
    /\ writer[target[w]] # Vm

\* A request that takes effect over time has a progress object; the code waits
\* for it or not, VirtualBox completes it all the same.
RequestAccepted(w) ==
    LET m == target[w]
        request == Doing(w).request
    IN  /\ up /\ pc[w] = "request"
        /\ ~NullConsole(w)
        /\ Possible(w, request)
        /\ state' = [state EXCEPT ![m] = StateOn(request, state[m])]
        /\ prior' = [prior EXCEPT ![m] = state[m]]
        /\ asked' = [asked EXCEPT ![w] = @ \cup {request}]
        /\ busyFor' = [busyFor EXCEPT ![m] = IF Doing(w).waits THEN w ELSE Nobody]
        /\ IF request = "launchVMProcess"
           THEN /\ writer' = [writer EXCEPT ![m] = Vm]
                /\ link' = [link EXCEPT ![w] = "shared"]
           ELSE UNCHANGED <<writer, link>>
        /\ pc' = [pc EXCEPT ![w] = IF Doing(w).waits THEN "wait" ELSE "unlock"]
        /\ UNCHANGED <<hasSnap, op, target, nested, reply, up>>

\* VirtualBox may refuse any request, and refuses one that is not possible.
RequestFails(w) ==
    /\ up /\ pc[w] = "request"
    /\ ~NullConsole(w)
    /\ Throw(w)

\* session->console()-> is called on a null pointer: the server process ends.
NullDereference(w) ==
    /\ up /\ pc[w] = "request"
    /\ NullConsole(w)
    /\ up' = FALSE
    /\ UNCHANGED <<vbox, worker>>

\* Mutation: the progress is not waited for.
Wait_notAtAll(w) ==
    /\ up /\ pc[w] = "wait"
    /\ pc' = [pc EXCEPT ![w] = "unlock"]
    /\ UNCHANGED <<vbox, op, target, nested, link, asked, reply, up>>

\* Mutation: the machine is polled until it is at rest.
Wait_forRest(w) ==
    /\ up /\ pc[w] = "wait"
    /\ state[target[w]] \in Resting
    /\ pc' = [pc EXCEPT ![w] = "unlock"]
    /\ UNCHANGED <<vbox, op, target, nested, link, asked, reply, up>>

\* waitForCompletion(-1); what the progress ended with is not looked at.
Wait(w) ==
    /\ up /\ pc[w] = "wait"
    /\ busyFor[target[w]] # w
    /\ pc' = [pc EXCEPT ![w] = "unlock"]
    /\ UNCHANGED <<vbox, op, target, nested, link, asked, reply, up>>

\* Mutation: the operation returns without unlockMachine.
Unlock_forgotten(w) ==
    /\ up /\ pc[w] = "unlock"
    /\ Answer(w, TRUE)
    /\ UNCHANGED <<vbox, op, target, link, asked, up>>

Unlock(w) ==
    /\ up /\ pc[w] = "unlock"
    /\ EndSession(w, Nobody)
    /\ Answer(w, TRUE)
    /\ UNCHANGED <<state, prior, busyFor, hasSnap, op, target, asked, up>>

\* Mutation: an error of unlockMachine is reported as a failed operation.
UnlockFails_answersFalse(w) ==
    /\ up /\ pc[w] = "unlock"
    /\ link[w] = "gone"
    /\ EndSession(w, Nobody)
    /\ Answer(w, FALSE)
    /\ UNCHANGED <<state, prior, busyFor, hasSnap, op, target, asked, up>>

\* "Session is not locked": the process that executed the machine has ended and
\* has closed the sessions linked to it, before the worker got to unlock its own.
UnlockFails(w) ==
    /\ up /\ pc[w] = "unlock"
    /\ link[w] = "gone"
    /\ Throw(w)

\* What may raise an error at the step the worker is at.
Raises(w) ==
    \/ pc[w] = "find" /\ target[w] \notin Machines
    \/ pc[w] = "lock" /\ LockRefused(target[w])
    \/ pc[w] = "request" /\ ~NullConsole(w)
    \/ pc[w] = "unlock" /\ link[w] = "gone"

\* VBox::currentError() is null where no error object was set, and the handler
\* calls errorInfo->QueryInterface() on it: the server process ends.
NullErrorInfo(w) ==
    /\ up /\ Operation[op[w]].catches
    /\ Raises(w)
    /\ up' = FALSE
    /\ UNCHANGED <<vbox, worker>>

-----------------------------------------------------------------------------
(* What VirtualBox and the guests do by themselves (external).             *)

\* The process that executes a machine ends and leaves the machine in state s.
ProcessEnds(m, s) ==
    /\ state' = [state EXCEPT ![m] = s]
    /\ prior' = [prior EXCEPT ![m] = s]
    /\ writer' = [writer EXCEPT ![m] = Nobody]
    /\ link' = LinksAfter(m)

PassesTo(m, s) ==
    /\ state' = [state EXCEPT ![m] = s]
    /\ prior' = [prior EXCEPT ![m] = s]
    /\ UNCHANGED <<writer, link>>

\* A passing state ends, by success or failure, and completes its progress.
Complete(m) ==
    /\ \/ /\ state[m] \in {"Starting", "Restoring"}
          /\ \/ PassesTo(m, "Running")
             \/ ProcessEnds(m, prior[m])
          /\ UNCHANGED hasSnap
       \/ /\ state[m] = "Stopping"
          /\ ProcessEnds(m, "PoweredOff")
          /\ UNCHANGED hasSnap
       \/ /\ state[m] = "Saving"
          /\ ProcessEnds(m, "Saved") \/ PassesTo(m, prior[m])
          /\ UNCHANGED hasSnap
       \/ /\ state[m] \in {"LiveSnapshotting", "OnlineSnapshotting", "Snapshotting"}
          /\ PassesTo(m, prior[m])
          /\ \E b \in {hasSnap[m], TRUE} : hasSnap' = [hasSnap EXCEPT ![m] = b]
       \/ /\ state[m] \in {"DeletingSnapshotOnline", "DeletingSnapshotPaused",
                           "DeletingSnapshot"}
          /\ PassesTo(m, prior[m])
          /\ \E b \in {hasSnap[m], FALSE} : hasSnap' = [hasSnap EXCEPT ![m] = b]
       \/ /\ state[m] = "RestoringSnapshot"
          /\ \E s \in {"PoweredOff", "Saved", prior[m]} : PassesTo(m, s)
          /\ UNCHANGED hasSnap
    /\ busyFor' = [busyFor EXCEPT ![m] = Nobody]
    /\ UNCHANGED <<pc, op, target, nested, asked, reply, up>>

\* The guest shuts itself down, or its execution gets stuck.
GuestActs(m) ==
    /\ state[m] = "Running"
    /\ \E s \in {"Stopping", "Stuck"} : PassesTo(m, s)
    /\ UNCHANGED <<busyFor, hasSnap, pc, op, target, nested, asked, reply, up>>

\* The process that executes a machine terminates unexpectedly.
VmCrashes(m) ==
    /\ state[m] \in Online
    /\ ProcessEnds(m, "Aborted")
    /\ busyFor' = [busyFor EXCEPT ![m] = Nobody]
    /\ UNCHANGED <<hasSnap, pc, op, target, nested, asked, reply, up>>

\* A write lock whose session went away without unlockMachine is taken back
\* and "the machine's state will eventually be set to Aborted".
Reap(m) ==
    /\ writer[m] = Abandoned
    /\ state[m] \in Resting
    /\ writer' = [writer EXCEPT ![m] = Nobody]
    /\ state' = [state EXCEPT ![m] = "Aborted"]
    /\ UNCHANGED <<prior, busyFor, hasSnap, worker, up>>

-----------------------------------------------------------------------------

WorkerStep(w) ==
    \/ FindMachine(w) \/ ReadState(w) \/ Lock(w) \/ LockFails(w)
    \/ RequestAccepted(w) \/ RequestFails(w) \/ NullDereference(w)
    \/ Wait(w) \/ Unlock(w) \/ UnlockFails(w) \/ NullErrorInfo(w)

\* Whatever happens in VirtualBox happens with or without the server.
Next ==
    \/ \E w \in Workers : WorkerStep(w)
    \/ \E w \in Workers, x \in Offered, n \in Machines \cup {Unknown} : Call(w, x, n)
    \/ \E m \in Machines : Complete(m) \/ GuestActs(m) \/ VmCrashes(m) \/ Reap(m)

Spec == Init /\ [][Next]_vars

\* Workers are threads that run, and VirtualBox ends what it has begun.
FairSpec ==
    /\ Spec
    /\ \A w \in Workers : WF_vars(WorkerStep(w))
    /\ \A m \in Machines : WF_vars(Complete(m))

-----------------------------------------------------------------------------
(* Properties.                                                             *)

\* Operations whose result is what they computed: not the two that go on after
\* a COMError without a result, nor powerOff that returns nothing when it
\* refuses (lines 226-236).
Definite == Operations \ {"startUp", "restoreSnapshot", "powerOff"}
Answered(w) == up /\ pc[w] = "answered"

\* An operation that answers true has had its request accepted by VirtualBox,
\* whatever happened to the machine between the check and the request; one that
\* answers false has changed nothing (lines 172-440, 1028-1081, 1189-1252).
TrueMeansAsked ==
    \A w \in Workers : Answered(w) /\ op[w] \in Definite /\ reply[w] =>
        asked[w] = {Operation[op[w]].request}
FalseMeansUntouched ==
    \A w \in Workers : Answered(w) /\ op[w] \in Definite /\ ~reply[w] => asked[w] = {}

\* Nobody is answered while VirtualBox still works on what was asked, where the
\* code waits for the progress (startUp, vmSleep, the snapshots).
AnsweredAfterProgress ==
    \A w \in Workers, m \in Machines : busyFor[m] = w =>
        pc[w] = "wait" /\ target[w] = m /\ asked[w] # {}

\* A session lock belongs to a worker between lockMachine and unlockMachine, on
\* the machine it works on, and never to one that has answered or thrown; a
\* machine that is executed is locked by its process alone.
LockInv ==
    /\ \A w \in Workers : link[w] # "none" =>
          pc[w] \in {"request", "wait", "unlock"} /\ target[w] \in Machines
    /\ \A w \in Workers, m \in Machines :
          writer[m] = w <=> link[w] = "write" /\ target[w] = m
    /\ \A w \in Workers : link[w] = "shared" => writer[target[w]] \notin {Nobody, Abandoned}
    /\ \A m \in Machines : writer[m] = Vm <=> state[m] \in Online

\* How far a call is agrees with what it has locked and asked for.
CallInv ==
    /\ \A w \in Workers : pc[w] \in {"state", "lock", "request", "wait", "unlock"} =>
          target[w] \in Machines
    /\ \A w \in Workers : pc[w] \in {"wait", "unlock"} =>
          link[w] # "none" /\ asked[w] = {Doing(w).request}
    /\ \A w \in Workers : pc[w] \in {"find", "state", "lock", "request"} => asked[w] = {}
    /\ \A w \in Workers : nested[w] =>
          op[w] = "restoreSnapshot"
          /\ pc[w] \in {"find", "state", "lock", "request", "wait", "unlock"}
    /\ \A m \in Machines : state[m] \in {"Starting", "Restoring"} => prior[m] \in Resting
    /\ \A m \in Machines :
          state[m] \in {"Saving", "LiveSnapshotting", "OnlineSnapshotting",
                        "DeletingSnapshotOnline", "DeletingSnapshotPaused"} =>
              prior[m] \in {"Running", "Paused"}
    /\ \A m \in Machines :
          state[m] \in {"Snapshotting", "DeletingSnapshot", "RestoringSnapshot"} =>
              prior[m] \in Resting

IInv ==
    /\ TypeOK
    /\ LockInv
    /\ CallInv
    /\ AnsweredAfterProgress
    /\ TrueMeansAsked
    /\ FalseMeansUntouched

\* What a machine's lock is to everybody, whatever the operations do: it is given
\* back or abandoned by the call that took it, and by no other.
Calling(m) ==
    {w \in Workers : target[w] = m /\ pc[w] \notin {"idle", "answered", "threw"}}
Sharing(m) == {w \in Workers : target[w] = m /\ link[w] = "shared"}
MachineLock(m) == INSTANCE SessionLock WITH
    Sessions <- Workers, holder <- writer[m], linked <- Sharing(m), open <- Calling(m)
ImplementsSessionLock ==
    /\ \A m \in Machines : MachineLock(m)!LockInit
    /\ [][\A m \in Machines :
            [MachineLock(m)!LockNext]_(MachineLock(m)!lockVars)]_vars

\* No operation waits for another: each one ends, with an answer or an exception.
CallsEnd ==
    \A w \in Workers : pc[w] = "find" ~> pc[w] \in {"answered", "threw"} \/ ~up

\* What comments of the code and the API description say of the program.

\* startUp, lines 88-93: "do not start up in these states: starting, running,
\* stopping; saving, restoring; during snapshots" (in Chinese).
StartsOnlyAtRest ==
    \A w \in Workers : pc[w] = "request" /\ Doing(w).request = "launchVMProcess" =>
        state[target[w]] \in Resting

\* restoreSnapshot, lines 1110-1112: "the machine must be powered off or saved,
\* otherwise first suspend it to disk and then restore" (in Chinese).
RestoresAfterSleeping ==
    \A w \in Workers : Answered(w) /\ op[w] = "restoreSnapshot" /\ reply[w]
                          /\ "saveState" \in asked[w] =>
        "restoreSnapshot" \in asked[w]

\* VirtualBox.xidl, lines 6160-6162: "one must always call unlockMachine to
\* release the lock on the machine, or its state will be set to Aborted".
AlwaysUnlocked == \A m \in Machines : writer[m] # Abandoned

\* VirtualBox.xidl, lines 21605-21606: "only sessions which locked the machine
\* for a VM process have a non-null console": no other console is used.
ConsoleIsThere == \A w \in Workers : pc[w] = "request" => ~NullConsole(w)

=============================================================================
