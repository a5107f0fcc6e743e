--------------------------- MODULE VmProvisioning ---------------------------
(***************************************************************************)
(* Machines that come and go: the operations of QiVCA that create, clone,  *)
(* delete, import and export machines and make and destroy disks           *)
(* (source/vca_core.cpp 450-498, 634-663, 1263-2205), called by several    *)
(* workers, over the VirtualBox objects they change: the list of           *)
(* registered machines, settings files, disk images and what is attached   *)
(* to which machine (VirtualBox.xidl, cited by line).                      *)
(*                                                                         *)
(* A machine and its settings file go by the machine's name, and so does   *)
(* the disk that is made for it or under its name (basefolder/name/name);  *)
(* registered machines are taken to have different names.  Each machine    *)
(* has one hard disk at most: more are the business of addDiskToVm.        *)
(***************************************************************************)
EXTENDS FiniteSets

CONSTANTS
    Workers,    \* threads of the pool
    Names,      \* of machines, and of the disks made for them
    Isos,       \* images of installation media
    Disks,      \* images of system disks
    Requests,   \* what clients ask for
    StopsIn,    \* the states a running machine may stop in (a bound)
    Nobody,     \* no session, or no medium
    Vm,         \* the session of the process that executes a machine
    Abandoned   \* a session that was released without unlockMachine

VARIABLES
    \* VirtualBox
    registered,  \* the names of the registered machines
    files,       \* the names with a settings file
    state,       \* IMachine.state
    lock,        \* the session that has the write lock
    uses,        \* the media attached to a machine, in its session's copy
    kept,        \* the same in the settings file
    stored,      \* the media whose storage exists
    deleting,    \* those in MediumState_Deleting
    base,        \* the medium that the disk of a linked clone depends on
    progress,    \* the IProgress that a worker waits for
    \* the workers
    pc, req, result,
    hand,        \* the name of the registered machine a worker has an object of
    media,       \* the media of the unregistered machine a worker has in hand
    up,          \* the server process exists
    \* history
    erred,       \* the operations that met an error while they made or deleted a
                 \* machine, or had it locked
    overtaken,   \* the registered machines that a call was registering while another
                 \* was deleting the files of its predecessor
    bare         \* the registered copies of a machine that had no disk

machines == <<registered, files, state, lock, uses, kept>>
images == <<stored, deleting, base>>
objects == <<hand, media>>
history == <<erred, overtaken, bare>>
vars == <<registered, files, state, lock, uses, kept, stored, deleting, base, progress,
          pc, req, result, hand, media, up, erred, overtaken, bare>>

Media == Names \cup Isos \cup Disks
HardDisks(s) == s \ Isos

\* "of" is the image or machine that a new one is made from; "as" what else the
\* branches of the code depend on: a listed OS type, with a storage bus that is
\* not listed, or is IDE, or another; the mode of deleteVM; an appliance that
\* is read with warnings; a disk format.
Creates == {"createVMfromISO", "createVMfromSystemdisk"}
Clones == {"cloneFullVM", "cloneLinkVM"}
MakesOrDeletes == Creates \cup Clones \cup {"deleteVM"}
Modes == {"Full", "HardDisksOnly", "None", "UnregisterOnly"}
AllRequests ==
    [op : {"createVMfromISO"}, name : Names, of : Isos,
        as : {"unlisted", "noBus", "IDE", "SATA"}]
    \cup [op : {"createVMfromSystemdisk"}, name : Names, of : Disks,
        as : {"unlisted", "noBus", "IDE", "SATA"}]
    \cup [op : Clones, name : Names, of : Names, as : {"any"}]
    \cup [op : {"deleteVM"}, name : Names, of : {Nobody}, as : Modes \cup {"unlisted"}]
    \cup [op : {"exportVM"}, name : Names, of : {Nobody}, as : {"any"}]
    \cup [op : {"importVM"}, name : Names, of : {Nobody}, as : {"warns", "any"}]
    \cup [op : {"makeFloatDisk"}, name : Names, of : {Nobody}, as : {"unlisted", "VDI"}]
    \cup [op : {"destroyFloatDiskWithoutAttach"}, name : Names \cup Disks, of : {Nobody},
        as : {"any"}]

Resting == {"PoweredOff", "Saved", "Aborted"}

ASSUME ProvisioningAssumption ==
    /\ StopsIn \subseteq Resting
    /\ Requests \subseteq AllRequests
    /\ Names \cap Isos = {} /\ Names \cap Disks = {} /\ Isos \cap Disks = {}
    /\ Nobody # Vm /\ Nobody # Abandoned /\ Vm # Abandoned
    /\ {Nobody, Vm, Abandoned} \cap (Workers \cup Media) = {}
    /\ Nobody \notin AllRequests

\* The steps of a call; in a waiting step a progress is under way.
Waiting == {"storage", "snapshot", "cloning", "deletingConfig", "exporting", "reading",
            "importing"}
Steps == {"begin", "create", "register", "lock", "disk", "attach", "save", "unlock",
          "lockSource", "takeSnapshot", "unlockSource", "saveTarget", "cloneTo",
          "unregister", "deleteConfig", "export", "import"} \cup Waiting

TypeOK ==
    /\ registered \subseteq Names
    /\ files \subseteq Names
    /\ state \in [Names -> Resting \cup {"Running"}]
    /\ lock \in [Names -> Workers \cup {Nobody, Vm, Abandoned}]
    /\ uses \in [Names -> SUBSET Media]
    /\ kept \in [Names -> SUBSET Media]
    /\ stored \subseteq Media
    /\ deleting \subseteq Media
    /\ base \in [Names -> Media \cup {Nobody}]
    /\ progress \in [Workers -> {"none", "running", "done", "failed"}]
    /\ pc \in [Workers -> Steps \cup {"idle", "warnings"}]
    /\ req \in [Workers -> AllRequests \cup {Nobody}]
    /\ result \in [Workers -> {"true", "false", "none"}]
    /\ hand \in [Workers -> Names \cup {Nobody}]
    /\ media \in [Workers -> SUBSET Media]
    /\ up \in BOOLEAN
    /\ erred \in [Names -> SUBSET MakesOrDeletes]
    /\ overtaken \subseteq registered
    /\ bare \subseteq registered

Init ==
    /\ registered = {} /\ files = {}
    /\ state = [n \in Names |-> "PoweredOff"]
    /\ lock = [n \in Names |-> Nobody]
    /\ uses = [n \in Names |-> {}]
    /\ kept = uses
    /\ stored = Isos \cup Disks
    /\ deleting = {}
    /\ base = [n \in Names |-> Nobody]
    /\ progress = [w \in Workers |-> "none"]
    /\ pc = [w \in Workers |-> "idle"]
    /\ req = [w \in Workers |-> Nobody]
    /\ result = [w \in Workers |-> "none"]
    /\ hand = [w \in Workers |-> Nobody]
    /\ media = [w \in Workers |-> {}]
    /\ up = TRUE
    /\ erred = [n \in Names |-> {}]
    /\ overtaken = {} /\ bare = {}

Name(w) == req[w].name
Of(w) == req[w].of

-----------------------------------------------------------------------------
(* Media and sessions (external).                                          *)

\* Attached to a registered machine, or to one that is being cloned.
Attached(m) ==
    \/ \E n \in registered : m \in uses[n]
    \/ \E w \in Workers : pc[w] \in {"cloning", "register"} /\ m \in media[w]
InUse(m) == Attached(m) \/ \E n \in stored \cap Names : base[n] = m
Usable(m) == m \in stored \ deleting
\* IVirtualBox.hardDisks
BaseMedia == HardDisks(stored \ deleting) \ {n \in Names : base[n] # Nobody}

\* The base of a disk that is not there.
Unbased(gone) == [n \in Names |-> IF n \in gone THEN Nobody ELSE base[n]]

\* The session that a worker has locked ends; leaves has the lock afterwards.
\* What it has not saved is lost.
EndSession(w, leaves) ==
    /\ lock' = [n \in Names |-> IF lock[n] = w THEN leaves ELSE lock[n]]
    /\ uses' = [n \in Names |-> IF lock[n] = w THEN kept[n] ELSE uses[n]]

Goto(w, next) ==
    /\ pc' = [pc EXCEPT ![w] = next]
    /\ UNCHANGED <<req, result, up>>

Answer(w, r) ==
    /\ pc' = [pc EXCEPT ![w] = "idle"]
    /\ req' = [req EXCEPT ![w] = Nobody]
    /\ result' = [result EXCEPT ![w] = r]
    /\ progress' = [progress EXCEPT ![w] = "none"]
    /\ hand' = [hand EXCEPT ![w] = Nobody]
    /\ media' = [media EXCEPT ![w] = {}]
    /\ UNCHANGED up

\* The call of w has met an error with the machines in S.
Met(w, S) ==
    erred' = [n \in Names |-> erred[n] \cup IF n \in S THEN {req[w].op} \cap MakesOrDeletes ELSE {}]

\* A COMError: the handler at the end of the function prints it and control
\* reaches the closing brace without a return, or nothing catches it.  Either
\* way the call has no result, and its session, if any, is released as it is.
Throw(w) ==
    /\ EndSession(w, Abandoned)
    /\ pc' = [pc EXCEPT ![w] = "idle"]
    /\ req' = [req EXCEPT ![w] = Nobody]
    /\ result' = [result EXCEPT ![w] = "none"]
    /\ progress' = [progress EXCEPT ![w] = "none"]
    /\ hand' = [hand EXCEPT ![w] = Nobody]
    /\ media' = [media EXCEPT ![w] = {}]
    /\ Met(w, {Name(w)} \cup {n \in Names : lock[n] = w})
    /\ UNCHANGED <<registered, files, state, kept, images, up, overtaken, bare>>

Starts(w, next) ==
    /\ Goto(w, next)
    /\ progress' = [progress EXCEPT ![w] = "running"]
    /\ UNCHANGED <<machines, images, objects, history>>

Finished(w) == progress[w] \in {"done", "failed"}

-----------------------------------------------------------------------------
(* The steps of a call.                                                    *)

Call(w, r) ==
    /\ up /\ pc[w] = "idle"
    /\ pc' = [pc EXCEPT ![w] = "begin"]
    /\ req' = [req EXCEPT ![w] = r]
    /\ result' = [result EXCEPT ![w] = "none"]
    /\ UNCHANGED <<machines, images, progress, objects, up, history>>

At(w, step, ops) == up /\ pc[w] = step /\ req[w].op \in ops

\* Any call of VirtualBox may raise an error, and raises one where what it needs
\* (the guards below) is missing.  What an unlisted OS type or format leads to
\* calls nothing.
Fails(w) ==
    /\ up /\ pc[w] \in Steps \ Waiting
    /\ pc[w] = "begin" /\ req[w].as = "unlisted" => req[w].op = "deleteVM"
    /\ Throw(w)

\* VBox::currentError() is null where no error object was set, and every
\* handler calls errorInfo->QueryInterface() on it: the server process ends.
\* The other three functions have no handler.
NullErrorInfo(w) ==
    /\ up /\ pc[w] \in Steps \ Waiting
    /\ req[w].op \notin {"cloneFullVM", "makeFloatDisk", "destroyFloatDiskWithoutAttach"}
    /\ pc[w] = "begin" /\ req[w].as = "unlisted" => req[w].op = "deleteVM"
    /\ up' = FALSE
    /\ UNCHANGED <<machines, images, progress, pc, req, result, objects, history>>

\* An OS type that is not listed matches nothing, and the function returns true.
CreateNothing(w) ==
    /\ At(w, "begin", Creates)
    /\ req[w].as = "unlisted"
    /\ Answer(w, "true")
    /\ UNCHANGED <<machines, images, history>>

RefuseFormat(w) ==
    /\ At(w, "begin", {"makeFloatDisk"})
    /\ req[w].as = "unlisted"
    /\ Answer(w, "false")
    /\ UNCHANGED <<machines, images, history>>

Begin(w) ==
    /\ \/ At(w, "begin", Creates) /\ req[w].as # "unlisted" /\ Goto(w, "create")
       \/ At(w, "begin", {"exportVM"}) /\ Name(w) \in registered /\ Goto(w, "export")
    /\ UNCHANGED <<machines, images, progress, objects, history>>

\* findMachine and state() of the machine to clone or to delete.
CheckState(w) ==
    \/ /\ At(w, "begin", Clones) /\ Of(w) \in registered
       /\ IF state[Of(w)] \in {"PoweredOff", "Saved"}
          THEN /\ Goto(w, IF req[w].op = "cloneLinkVM" THEN "lockSource" ELSE "create")
               /\ hand' = [hand EXCEPT ![w] = Of(w)]
               /\ UNCHANGED <<machines, images, progress, media, history>>
          ELSE /\ Answer(w, "false")
               /\ UNCHANGED <<machines, images, history>>
    \/ /\ At(w, "begin", {"deleteVM"}) /\ Name(w) \in registered
       /\ IF state[Name(w)] = "PoweredOff" /\ req[w].as # "unlisted"
          THEN /\ Goto(w, "unregister")
               /\ hand' = [hand EXCEPT ![w] = Name(w)]
               /\ UNCHANGED <<machines, images, progress, media, history>>
          ELSE /\ Answer(w, IF state[Name(w)] = "PoweredOff" THEN "true" ELSE "false")
               /\ UNCHANGED <<machines, images, history>>

\* A linked clone is made from a snapshot: lockMachine(Shared), takeSnapshot.
LockSource(w) ==
    /\ At(w, "lockSource", Clones)
    /\ hand[w] = Of(w) /\ lock[Of(w)] # Abandoned
    /\ lock' = IF lock[Of(w)] = Nobody THEN [lock EXCEPT ![Of(w)] = w] ELSE lock
    /\ Goto(w, "takeSnapshot")
    /\ UNCHANGED <<registered, files, state, uses, kept, images, progress, objects, history>>

TakeSnapshot(w) == At(w, "takeSnapshot", Clones) /\ Starts(w, "snapshot")

\* waitForCompletion(-1); the result of takeSnapshot is not looked at.
SnapshotTaken(w) ==
    /\ At(w, "snapshot", Clones) /\ Finished(w)
    /\ Goto(w, "unlockSource")
    /\ progress' = [progress EXCEPT ![w] = "none"]
    /\ UNCHANGED <<machines, images, objects, history>>

UnlockSource(w) ==
    /\ At(w, "unlockSource", Clones)
    /\ EndSession(w, Nobody)
    /\ Goto(w, "create")
    /\ UNCHANGED <<registered, files, state, kept, images, progress, objects, history>>

\* createMachine fails if the settings file exists; it does not write it.
CreateMachine(w) ==
    /\ At(w, "create", Creates \cup Clones)
    /\ Name(w) \notin files
    /\ Goto(w, IF req[w].op \in Clones THEN "saveTarget" ELSE "register")
    /\ UNCHANGED <<machines, images, progress, objects, history>>

SaveTarget(w) ==
    /\ At(w, "saveTarget", Clones)
    /\ files' = files \cup {Name(w)}
    /\ Goto(w, "cloneTo")
    /\ UNCHANGED <<registered, state, lock, uses, kept, images, progress, objects, history>>

CloneTo(w) == At(w, "cloneTo", Clones) /\ Starts(w, "cloning")

\* while (!progress->completed()): the result is looked at in the answer only.
CloneWaited(w) ==
    /\ At(w, "cloning", Clones) /\ Finished(w)
    /\ Goto(w, "register")
    /\ UNCHANGED <<machines, images, progress, objects, history>>

\* The worker has unregistered the machine and has not yet deleted its files.
Deletes(w, n) ==
    /\ pc[w] \in {"deleteConfig", "deletingConfig"} /\ Name(w) = n
    /\ ~Finished(w)

\* registerMachine saves the settings.  A clone is registered however cloneTo
\* ended, and the call is over; a created machine has no disk yet.
RegisterMachine(w) ==
    /\ At(w, "register", Creates \cup Clones)
    /\ Name(w) \notin registered
    /\ registered' = registered \cup {Name(w)}
    /\ files' = files \cup {Name(w)}
    /\ uses' = [uses EXCEPT ![Name(w)] = media[w]]
    /\ kept' = [kept EXCEPT ![Name(w)] = media[w]]
    /\ IF req[w].op \in Clones
       THEN Answer(w, IF progress[w] = "done" THEN "true" ELSE "false")
       ELSE /\ Goto(w, "lock")
            /\ hand' = [hand EXCEPT ![w] = Name(w)]
            /\ UNCHANGED <<progress, media>>
    /\ overtaken' = overtaken \cup {n \in {Name(w)} : \E v \in Workers : Deletes(v, n)}
    /\ bare' = bare \cup {n \in {Name(w)} : progress[w] = "done" /\ HardDisks(media[w]) = {}}
    /\ UNCHANGED <<state, lock, images, erred>>

LockMachine(w) ==
    /\ At(w, "lock", Creates)
    /\ hand[w] = Name(w) /\ lock[Name(w)] = Nobody
    /\ lock' = [lock EXCEPT ![Name(w)] = w]
    /\ Goto(w, IF req[w].op = "createVMfromISO" THEN "disk" ELSE "attach")
    /\ UNCHANGED <<registered, files, state, uses, kept, images, progress, objects, history>>

CreateBaseStorage(w) ==
    \/ At(w, "disk", Creates) /\ Starts(w, "storage")
    \/ At(w, "begin", {"makeFloatDisk"}) /\ req[w].as # "unlisted" /\ Starts(w, "storage")

\* Mutation: the session is not unlocked when the disk cannot be created.
StorageWaited_locked(w) ==
    \/ /\ At(w, "storage", Creates) /\ progress[w] = "done"
       /\ Goto(w, "attach")
       /\ progress' = [progress EXCEPT ![w] = "none"]
       /\ UNCHANGED <<machines, images, objects, history>>
    \/ /\ \/ At(w, "storage", Creates) /\ progress[w] = "failed"
          \/ At(w, "storage", {"makeFloatDisk"}) /\ Finished(w)
       /\ Answer(w, IF req[w].op \in Creates THEN "false" ELSE "true")
       /\ UNCHANGED <<machines, images, history>>

\* createVMfromISO looks at resultCode, unlocks and returns false, with the
\* machine registered; makeFloatDisk returns true whatever has become of it.
StorageWaited(w) ==
    \/ /\ At(w, "storage", Creates) /\ progress[w] = "done"
       /\ Goto(w, "attach")
       /\ progress' = [progress EXCEPT ![w] = "none"]
       /\ UNCHANGED <<machines, images, objects, history>>
    \/ /\ At(w, "storage", Creates) /\ progress[w] = "failed"
       /\ EndSession(w, Nobody)
       /\ Answer(w, "false")
       /\ UNCHANGED <<registered, files, state, kept, images, history>>
    \/ /\ At(w, "storage", {"makeFloatDisk"}) /\ Finished(w)
       /\ Answer(w, "true")
       /\ UNCHANGED <<machines, images, history>>

\* What the new machine boots from.
Boots(w) == IF req[w].op = "createVMfromISO" THEN {Name(w), Of(w)} ELSE {Of(w)}

\* openMedium, addStorageController, attachDevice.  With an ISO the controller
\* "IDE" is always added for the DVD, so that a disk on another "IDE" fails.
AttachDevices(w) ==
    /\ At(w, "attach", Creates)
    /\ req[w].as \in {"SATA", "IDE"}
    /\ req[w].op = "createVMfromISO" => req[w].as # "IDE"
    /\ \A m \in Boots(w) : Usable(m)
    /\ \A m \in HardDisks(Boots(w)) : ~Attached(m)
    /\ uses' = [uses EXCEPT ![Name(w)] = Boots(w)]
    /\ Goto(w, "save")
    /\ UNCHANGED <<registered, files, state, lock, kept, images, progress, objects, history>>

\* controller->name() is called on a null pointer: the server process ends.
NullController(w) ==
    /\ At(w, "attach", Creates)
    /\ req[w].as = "noBus"
    /\ up' = FALSE
    /\ UNCHANGED <<machines, images, progress, pc, req, result, objects, history>>

\* Mutation: the machine is unlocked without saveSettings.
SaveSettings_skipped(w) ==
    /\ At(w, "save", Creates)
    /\ Goto(w, "unlock")
    /\ UNCHANGED <<machines, images, progress, objects, history>>

SaveSettings(w) ==
    /\ At(w, "save", Creates)
    /\ kept' = [kept EXCEPT ![Name(w)] = uses[Name(w)]]
    /\ files' = files \cup {Name(w)}
    /\ Goto(w, "unlock")
    /\ UNCHANGED <<registered, state, lock, uses, images, progress, objects, history>>

UnlockMachine(w) ==
    /\ At(w, "unlock", Creates)
    /\ EndSession(w, Nobody)
    /\ Answer(w, "true")
    /\ UNCHANGED <<registered, files, state, kept, images, history>>

\* unregister fails if the machine is locked, and without clean-up also if it is
\* saved or has media.  It returns the media that it has detached.
Returned(mode, s) ==
    CASE mode = "Full" -> s
      [] mode = "HardDisksOnly" -> HardDisks(s)
      [] OTHER -> {}

Unregister(w) ==
    /\ At(w, "unregister", {"deleteVM"})
    /\ hand[w] = Name(w) /\ lock[Name(w)] = Nobody
    /\ req[w].as = "UnregisterOnly" => uses[Name(w)] = {} /\ state[Name(w)] # "Saved"
    /\ registered' = registered \ {Name(w)}
    /\ hand' = [v \in Workers |-> IF hand[v] = Name(w) THEN Nobody ELSE hand[v]]
    /\ media' = [media EXCEPT ![w] = Returned(req[w].as, uses[Name(w)])]
    /\ uses' = [uses EXCEPT ![Name(w)] = {}]
    /\ kept' = [kept EXCEPT ![Name(w)] = {}]
    /\ state' = [state EXCEPT ![Name(w)] = "PoweredOff"]
    /\ overtaken' = overtaken \ {Name(w)}
    /\ bare' = bare \ {Name(w)}
    /\ Goto(w, "deleteConfig")
    /\ UNCHANGED <<files, lock, images, progress, erred>>

\* Mutation: the machine is unregistered only.
DeleteConfig_forgotten(w) ==
    /\ At(w, "deleteConfig", {"deleteVM"})
    /\ Answer(w, "true")
    /\ UNCHANGED <<machines, images, history>>

DeleteConfig(w) == At(w, "deleteConfig", {"deleteVM"}) /\ Starts(w, "deletingConfig")

\* The result is not looked at.
ConfigWaited(w) ==
    /\ At(w, "deletingConfig", {"deleteVM"}) /\ Finished(w)
    /\ Answer(w, "true")
    /\ UNCHANGED <<machines, images, history>>

Export(w) == At(w, "export", {"exportVM"}) /\ Starts(w, "exporting")

ExportWaited(w) ==
    /\ At(w, "exporting", {"exportVM"}) /\ Finished(w)
    /\ Answer(w, IF progress[w] = "done" THEN "true" ELSE "false")
    /\ UNCHANGED <<machines, images, history>>

\* The loop over the warnings of interpret() never advances.
Import(w) ==
    \/ At(w, "begin", {"importVM"}) /\ Starts(w, "reading")
    \/ /\ At(w, "reading", {"importVM"}) /\ progress[w] = "done"
       /\ Goto(w, IF req[w].as = "warns" THEN "warnings" ELSE "import")
       /\ progress' = [progress EXCEPT ![w] = "none"]
       /\ UNCHANGED <<machines, images, objects, history>>
    \/ At(w, "import", {"importVM"}) /\ Starts(w, "importing")

\* machine->Release() where no machine has ever been assigned: the server
\* process ends, after a failure to read and after every import.
NullMachine(w) ==
    /\ \/ At(w, "reading", {"importVM"}) /\ progress[w] = "failed"
       \/ At(w, "importing", {"importVM"}) /\ Finished(w)
    /\ up' = FALSE
    /\ UNCHANGED <<machines, images, progress, pc, req, result, objects, history>>

\* Mutation: the file of the disk is removed, whoever uses it.
DestroyDisk_removesFile(w) ==
    /\ At(w, "begin", {"destroyFloatDiskWithoutAttach"})
    /\ stored' = stored \ {Name(w)}
    /\ base' = Unbased({Name(w)})
    /\ deleting' = deleting \ {Name(w)}
    /\ Answer(w, "true")
    /\ UNCHANGED <<machines, history>>

\* The disk is looked for among the base media; nobody waits for deleteStorage.
DestroyDisk(w) ==
    /\ At(w, "begin", {"destroyFloatDiskWithoutAttach"})
    /\ \/ Name(w) \in BaseMedia /\ ~InUse(Name(w)) /\ deleting' = deleting \cup {Name(w)}
       \/ Name(w) \notin BaseMedia /\ UNCHANGED deleting
    /\ Answer(w, "true")
    /\ UNCHANGED <<machines, stored, base, history>>

-----------------------------------------------------------------------------
(* What VirtualBox does meanwhile (external).                              *)

Ends(w, how) ==
    /\ progress[w] = "running"
    /\ progress' = [progress EXCEPT ![w] = how]
    /\ UNCHANGED <<pc, req, result, up>>

StorageCreated(w) ==
    /\ pc[w] = "storage" /\ Name(w) \notin stored
    /\ Ends(w, "done")
    /\ stored' = stored \cup {Name(w)}
    /\ UNCHANGED <<machines, deleting, base, objects, history>>

\* The clone has a disk of its own if the machine has one, and the same ISO.
MachineCloned(w) ==
    LET disks == HardDisks(uses[Of(w)])
    IN  /\ pc[w] = "cloning" /\ hand[w] = Of(w)
        /\ \A m \in uses[Of(w)] : Usable(m)
        /\ disks # {} => Name(w) \notin stored
        /\ Ends(w, "done")
        /\ media' = [media EXCEPT ![w] =
                        (uses[Of(w)] \cap Isos) \cup {n \in {Name(w)} : disks # {}}]
        /\ stored' = stored \cup media'[w]
        /\ \E d \in IF req[w].op = "cloneLinkVM" /\ disks # {} THEN disks ELSE {Nobody} :
              base' = [base EXCEPT ![Name(w)] = IF disks = {} THEN @ ELSE d]
        /\ UNCHANGED <<machines, deleting, hand, history>>

\* The media that can be closed are deleted, then the settings file; a failure
\* leaves the file and may leave media.
ConfigDeleted(w, how) ==
    /\ pc[w] = "deletingConfig"
    /\ Ends(w, how)
    /\ \E gone \in SUBSET {m \in media[w] : Usable(m) /\ ~InUse(m)} :
          /\ how = "done" => gone = {m \in media[w] : Usable(m) /\ ~InUse(m)}
          /\ stored' = stored \ gone
          /\ base' = Unbased(gone)
    /\ files' = IF how = "done" THEN files \ {Name(w)} ELSE files
    /\ Met(w, IF how = "done" THEN {} ELSE {Name(w)})
    /\ UNCHANGED <<registered, state, lock, uses, kept, deleting, objects, overtaken, bare>>

\* The machine is registered as "name.vmdk", which none of Names is, with the
\* settings file of the name.
MachineImported(w) ==
    /\ pc[w] = "importing" /\ Name(w) \notin files
    /\ Ends(w, "done")
    /\ files' = files \cup {Name(w)}
    /\ UNCHANGED <<registered, state, lock, uses, kept, images, objects, history>>

ProgressDone(w) ==
    /\ pc[w] \in {"snapshot", "exporting", "reading"}
    /\ Ends(w, "done")
    /\ UNCHANGED <<machines, images, objects, history>>

ProgressFails(w) ==
    /\ pc[w] \in Waiting \ {"deletingConfig"}
    /\ Ends(w, "failed")
    /\ Met(w, {Name(w)})
    /\ UNCHANGED <<machines, images, objects, overtaken, bare>>

Completes(w) ==
    \/ StorageCreated(w) \/ MachineCloned(w) \/ MachineImported(w) \/ ProgressDone(w)
    \/ ProgressFails(w)
    \/ \E how \in {"done", "failed"} : ConfigDeleted(w, how)

StorageDeleted(m) ==
    /\ m \in deleting
    /\ deleting' = deleting \ {m}
    /\ \/ stored' = stored \ {m} /\ base' = Unbased({m})
       \/ UNCHANGED <<stored, base>>
    /\ UNCHANGED <<machines, progress, pc, req, result, objects, up, history>>

MachineStarts(n) ==
    /\ n \in registered /\ lock[n] = Nobody /\ state[n] \in Resting
    /\ state' = [state EXCEPT ![n] = "Running"]
    /\ lock' = [lock EXCEPT ![n] = Vm]
    /\ UNCHANGED <<registered, files, uses, kept, images, progress, pc, req, result, objects,
                   up, history>>

MachineStops(n) ==
    /\ state[n] = "Running"
    /\ \E s \in StopsIn : state' = [state EXCEPT ![n] = s]
    /\ lock' = [lock EXCEPT ![n] = Nobody]
    /\ UNCHANGED <<registered, files, uses, kept, images, progress, pc, req, result, objects,
                   up, history>>

\* "the machine's state will be set to Aborted".
Reap(n) ==
    /\ lock[n] = Abandoned
    /\ lock' = [lock EXCEPT ![n] = Nobody]
    /\ state' = [state EXCEPT ![n] = "Aborted"]
    /\ UNCHANGED <<registered, files, uses, kept, images, progress, pc, req, result, objects,
                   up, history>>

-----------------------------------------------------------------------------

Step(w) ==
    \/ CreateNothing(w) \/ RefuseFormat(w) \/ Begin(w) \/ CheckState(w)
    \/ LockSource(w) \/ TakeSnapshot(w) \/ SnapshotTaken(w) \/ UnlockSource(w)
    \/ CreateMachine(w) \/ SaveTarget(w) \/ CloneTo(w) \/ CloneWaited(w)
    \/ RegisterMachine(w) \/ LockMachine(w) \/ CreateBaseStorage(w) \/ StorageWaited(w)
    \/ AttachDevices(w) \/ NullController(w) \/ SaveSettings(w) \/ UnlockMachine(w)
    \/ Unregister(w) \/ DeleteConfig(w) \/ ConfigWaited(w)
    \/ Export(w) \/ ExportWaited(w) \/ Import(w) \/ NullMachine(w) \/ DestroyDisk(w)
    \/ Fails(w) \/ NullErrorInfo(w)

Next ==
    \/ \E w \in Workers, r \in Requests : Call(w, r)
    \/ \E w \in Workers : Step(w) \/ Completes(w)
    \/ \E m \in Media : StorageDeleted(m)
    \/ \E n \in Names : MachineStarts(n) \/ MachineStops(n) \/ Reap(n)

Spec == Init /\ [][Next]_vars

-----------------------------------------------------------------------------
(* Properties.                                                             *)

Busy(w) == pc[w] # "idle"

\* Nobody is at work on the machine: no call that makes or deletes it, or makes
\* or destroys its disk, and no linked clone that has it locked.
Settled(n) ==
    /\ up
    /\ \A w \in Workers : Busy(w) => Name(w) # n /\ lock[n] # w

\* The operations in ops have met an error with the machine.
MetBy(n, ops) == \E o \in ops : o \in erred[n]

\* What is left of machines nobody is at work on (vca_core.cpp 1292-1340,
\* 1572-1628, 1731-1822, 1892-1913).  A settings file without a machine is left
\* only by a clone or a deletion that met an error; a machine without a settings
\* file only where it was registered between unregister and the end of
\* deleteConfig for its predecessor (1893-1894); a machine without a disk only by
\* a creation or a clone that met an error, or as the copy of one that had none;
\* a lost lock only by a creation or a linked clone that met an error; a
\* difference between the machine and its file by nothing.
NothingLeftOver ==
    \A n \in Names : Settled(n) =>
        /\ n \in files \ registered => MetBy(n, Clones \cup {"deleteVM"})
        /\ n \in registered \ files => n \in overtaken
        /\ n \in registered /\ HardDisks(uses[n]) = {} =>
              MetBy(n, Creates \cup Clones) \/ n \in bare
        /\ lock[n] = Abandoned => MetBy(n, Creates \cup {"cloneLinkVM"})
        /\ kept[n] = uses[n]

\* What a machine uses exists, and so does what the disk of a linked clone is
\* based on: deleteVM deletes the media of a machine, ISO images among them, and
\* destroyFloatDiskWithoutAttach any disk, but not under a machine that uses it.
AttachedExist ==
    /\ \A n \in registered : \A m \in uses[n] \cup kept[n] : Usable(m)
    /\ \A n \in stored \cap Names : base[n] # Nobody => Usable(base[n])

\* A call that makes a machine and answers true has made it: it is registered
\* with its media, which exist, and its settings are saved, unless another call is
\* deleting the files of its predecessor.
TrueMeansMade ==
    [][\A w \in Workers :
          Busy(w) /\ ~Busy(w)' /\ result'[w] = "true"
          /\ req[w].op \in Creates \cup Clones /\ req[w].as # "unlisted"
          => /\ Name(w) \in registered'
             /\ Name(w) \in files' \cup overtaken'
             /\ kept'[Name(w)] = uses'[Name(w)]
             /\ uses'[Name(w)] \subseteq stored' \ deleting'
             /\ req[w].op \in Creates => HardDisks(uses'[Name(w)]) # {}]_vars

\* How much of a machine there is: all of it, nothing, or something between; of
\* no interest once a call that makes or deletes it has met an error, and at the
\* mercy of a deletion where it has overtaken one.
Present(n) ==
    /\ n \in registered /\ n \in files
    /\ HardDisks(uses[n]) # {} \/ n \in bare
    /\ kept[n] = uses[n]
MachineStatus(n) ==
    IF erred[n] # {} THEN "unknown"
    ELSE IF n \in overtaken THEN "overtaken"
    ELSE IF Present(n) THEN "whole"
    ELSE IF n \in registered \cup files THEN "partial"
    ELSE "absent"

Makers == Creates \cup Clones \cup {"importVM"}
Kind(r) ==
    IF r.op \in Makers /\ r.as # "unlisted" THEN "makes"
    ELSE IF r.op = "deleteVM" THEN "deletes"
    ELSE "other"
Task(r) == [kind |-> Kind(r), name |-> r.name, of |-> r.of]
NoTask == [kind |-> "none", name |-> Nobody, of |-> Nobody]

statuses == [n \in Names |-> MachineStatus(n)]
tasks == [w \in Workers |-> IF req[w] = Nobody THEN NoTask ELSE Task(req[w])]

\* The calls that make and delete machines change their own machine and no
\* other, leave it as a whole or not at all, and say so.
Registry == INSTANCE MachineRegistry WITH
                Tasks <- {Task(r) : r \in Requests}, Idle <- NoTask,
                machine <- statuses, task <- tasks, answer <- result
ImplementsRegistry == Registry!RegistrySpec

\* What the lock of a machine is to everybody: a call takes it from nobody, and
\* has given it back or abandoned it when it is over.  Links are not shown.
Calling == {w \in Workers : pc[w] # "idle"}
MachineLock(n) == INSTANCE SessionLock WITH
    Sessions <- Workers, holder <- lock[n], linked <- {}, open <- Calling
ImplementsSessionLock ==
    /\ \A n \in Names : MachineLock(n)!LockInit
    /\ [][\A n \in Names : [MachineLock(n)!LockNext]_(MachineLock(n)!lockVars)]_vars

-----------------------------------------------------------------------------
(* The inductive invariant behind the theorems of VmProvisioning_proofs.   *)

\* A call that makes a machine, or that clones one.
Creator(w) == Busy(w) /\ req[w].op \in Creates
Cloner(w) == Busy(w) /\ req[w].op \in Clones

\* The steps at which a call has the write lock of a machine.
Holds(w) ==
    \/ Creator(w) /\ pc[w] \in {"disk", "storage", "attach", "save", "unlock"}
    \/ Cloner(w) /\ pc[w] \in {"takeSnapshot", "snapshot", "unlockSource"}

\* A call is at a step of its own operation.
PathInv ==
    \A w \in Workers :
        /\ pc[w] = "idle" <=> req[w] = Nobody
        /\ pc[w] \in {"lockSource", "takeSnapshot", "snapshot", "unlockSource", "saveTarget",
                     "cloneTo", "cloning"} => Cloner(w)
        /\ pc[w] \in {"lockSource", "takeSnapshot", "snapshot", "unlockSource"} =>
              req[w].op = "cloneLinkVM"
        /\ pc[w] \in {"create", "register"} => Creator(w) \/ Cloner(w)
        /\ pc[w] \in {"lock", "disk", "attach", "save", "unlock"} => Creator(w)
        /\ pc[w] = "storage" => Creator(w) \/ req[w].op = "makeFloatDisk"
        /\ pc[w] \in {"unregister", "deleteConfig", "deletingConfig"} => req[w].op = "deleteVM"
        /\ pc[w] \in {"reading", "warnings", "import", "importing"} => req[w].op = "importVM"

\* How far a call is agrees with its progress and its media.
CallInv ==
    \A w \in Workers :
        /\ pc[w] \notin Waiting /\ ~(Cloner(w) /\ pc[w] = "register") => progress[w] = "none"
        /\ progress[w] = "failed" /\ req[w].op \in MakesOrDeletes => req[w].op \in erred[Name(w)]
        /\ media[w] # {} => \/ Cloner(w) /\ pc[w] \in {"cloning", "register"}
                            \/ pc[w] \in {"deleteConfig", "deletingConfig"}
        /\ Cloner(w) /\ pc[w] = "register" => Finished(w)

\* The write lock of a machine belongs to a worker that is between lockMachine
\* and unlockMachine with the machine in hand, or to the machine's process.
LockInv ==
    /\ \A n \in Names :
          /\ lock[n] \in Workers => hand[lock[n]] = n /\ Holds(lock[n])
          /\ lock[n] # Nobody => n \in registered
          /\ lock[n] = Abandoned => MetBy(n, Creates \cup {"cloneLinkVM"})
          /\ state[n] = "Running" => lock[n] = Vm
    /\ \A w \in Workers :
          /\ Creator(w) /\ Holds(w) => lock[Name(w)] = w
          /\ pc[w] \in {"idle", "begin"} => hand[w] = Nobody
          /\ hand[w] # Nobody => hand[w] \in registered
          /\ Creator(w) => hand[w] \in {Nobody, Name(w)}

\* A machine that is being made has no media before AttachDevices, and has them
\* afterwards; no two workers are making the same.
MakingInv ==
    \A w \in Workers : Creator(w) /\ hand[w] # Nobody =>
        /\ pc[w] \in {"lock", "disk", "storage", "attach"} => uses[Name(w)] = {}
        /\ pc[w] \in {"save", "unlock"} => HardDisks(uses[Name(w)]) # {}
        /\ \A v \in Workers : Creator(v) /\ hand[v] = hand[w] => v = w
        /\ Name(w) \notin bare

\* Attachments are in the file but for a worker that is about to save them.
MediaInv ==
    /\ deleting \subseteq stored
    /\ \A n \in Names :
          /\ n \notin registered => uses[n] = {}
          /\ kept[n] \subseteq uses[n]
          /\ kept[n] # uses[n] => lock[n] \in Workers /\ pc[lock[n]] = "save"
          /\ base[n] # Nobody => n \in stored
    /\ \A w \in Workers : Cloner(w) => \A m \in media[w] : Usable(m)

\* Who will see to what is not settled yet, or what error has left it.
FilesInv ==
    \A n \in Names :
        /\ n \in registered \ overtaken => n \in files /\ \A w \in Workers : ~Deletes(w, n)
        /\ n \in files \ registered =>
              \/ MetBy(n, Clones \cup {"deleteVM"})
              \/ \E w \in Workers :
                    /\ Busy(w) /\ Name(w) = n
                    /\ \/ Cloner(w) /\ pc[w] \in {"cloneTo", "cloning", "register"}
                       \/ Deletes(w, n)
                       \/ pc[w] = "importing"
        /\ n \in registered /\ HardDisks(uses[n]) = {} =>
              \/ MetBy(n, Creates \cup Clones) \/ n \in bare
              \/ \E w \in Workers :
                    /\ Creator(w) /\ hand[w] = n
                    /\ pc[w] \in {"lock", "disk", "storage", "attach"}

IInv ==
    /\ TypeOK
    /\ PathInv
    /\ CallInv
    /\ LockInv
    /\ MakingInv
    /\ MediaInv
    /\ FilesInv
    /\ AttachedExist

=============================================================================
