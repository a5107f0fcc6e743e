----------------------------- MODULE VmSettings -----------------------------
(***************************************************************************)
(* The operations that edit the settings of a machine: the 22 functions of *)
(* vcaVmConfigure (source/vca_vmConfigure.cpp) and the two of QiVCA that   *)
(* attach and detach data disks.  All follow one pattern: check the        *)
(* arguments, find the machine, read its state, refuse or go on, lock it   *)
(* for a session, set attributes one by one, saveSettings, unlockMachine.  *)
(* What differs is a record per operation.                                 *)
(*                                                                         *)
(* A call is made once; the value of an attribute is the call that set it  *)
(* last.  Calls run in several workers.  They meet in VirtualBox, where a  *)
(* second shared lock is a link to the first session: both then edit, save *)
(* and lose the same copy of the settings (VirtualBox.xidl 6107-6207,      *)
(* 7647-7700).  One machine: calls for two of them share no state.         *)
(***************************************************************************)
EXTENDS Naturals, Sequences, FiniteSets

CONSTANTS
    Calls,      \* the calls clients make
    Offered,    \* the operations they call
    Before,     \* what an attribute was before any call
    Nobody,     \* no session
    Vm,         \* the session of the process that executes the machine
    Abandoned   \* a session that was released without unlockMachine

VARIABLES
    \* VirtualBox
    state,     \* IMachine.state
    writer,    \* the session that has the write lock
    live,      \* the attributes in that session's copy of the machine
    saved,     \* the attributes in the settings file
    \* the calls
    pc,        \* the next step
    op,        \* the operation
    todo,      \* the attributes still to set, in the code's order
    link,      \* what the call's session has locked
    result,    \* how the function ends
    up,        \* the server process exists
    \* history
    made,      \* the attributes the call has set
    kept,      \* the calls whose saveSettings succeeded
    shares,    \* the calls whose session another session was linked to
    earlier    \* the calls that had ended when the call began

vbox == <<state, writer, live, saved>>
calls == <<pc, op, todo, link, result>>
history == <<made, kept, shares, earlier>>
vars == <<state, writer, live, saved, pc, op, todo, link, result, up,
          made, kept, shares, earlier>>

Resting == {"PoweredOff", "Saved", "Aborted"}
Online == {"Starting", "Running", "Paused", "Stopping"}
\* Saving and Restoring are to these operations what Starting is, and the
\* snapshot states what Paused is.
States == Resting \cup Online

\* Adjacent setters of attributes that no other operation sets are one
\* attribute here; a slot is the one that all calls name.
Attributes ==
    {"bridgedInterface", "attachmentType", "adapterEnabled", "MACAddress", "sharedFolder",
     "vrdeEnabled", "vrdeOptions", "CPUCount", "memorySize", "accelerate3D", "display",
     "recording", "recordedScreen", "usbController", "audioDevice", "audioEnabled",
     "serialPort", "diskAttachment", "hotPluggable"}

-----------------------------------------------------------------------------
(* The operations.  "from": the states it goes on in; "other": its result  *)
(* in the rest; "locks": the lock type; "edits": the setters it may call,  *)
(* in order; "quits": what becomes of the lock where it returns false      *)
(* before it edits; "catches": which COMErrors it catches.  A null machine *)
(* or adapter, for which some return false with the session locked, does   *)
(* not occur: libvbox throws where VirtualBox cannot return the object.    *)

Edit(from, edits) ==
    [from |-> from, other |-> "false", checks |-> FALSE, locks |-> "Shared",
     edits |-> edits, quits |-> "never", catches |-> "all"]
Checked(x) == [x EXCEPT !.checks = TRUE]

SetBridge ==
    Checked(Edit(States, {<<"bridgedInterface", "attachmentType", "adapterEnabled">>}))
\* Not inside a try block.
AddBridge ==
    [Checked(Edit({"PoweredOff"}, {<<"bridgedInterface", "attachmentType", "adapterEnabled">>}))
        EXCEPT !.catches = "none"]
SetNat == Checked(Edit(States, {<<"attachmentType", "adapterEnabled">>}))
AddNat == Checked(Edit({"PoweredOff"}, {<<"attachmentType", "adapterEnabled">>}))
SetAdaptorMAC == Checked(Edit({"PoweredOff"}, {<<"adapterEnabled", "MACAddress">>}))
DisableAdaptor == Checked(Edit({"PoweredOff"}, {<<"adapterEnabled">>}))

CreateSharefolder == Edit(States, {<<"sharedFolder">>})
RemoveSharedFolder == Edit(States, {<<"sharedFolder">>})

SetSimpleRemoteDisplay == Edit({"PoweredOff"}, {<<"vrdeEnabled", "vrdeOptions">>})
\* Reads the console's server information and edits nothing.  In another state
\* than Running it breaks out of the switch and returns true; it returns false
\* without unlocking when the server is not active.
GetRdpInfo ==
    [Edit({"Running"}, {<<>>}) EXCEPT !.other = "true", !.quits = "locked"]
DisableRDP == Edit(States, {<<"vrdeEnabled">>})

ResetCpuCount == Checked(Edit({"PoweredOff"}, {<<"CPUCount">>}))
ResetMemSize == Checked(Edit({"PoweredOff"}, {<<"memorySize">>}))
ResetGraphics ==
    Checked(Edit({"PoweredOff"}, {<<"accelerate3D", "display">>, <<"display">>}))

SetRecordingScreenConfig ==
    Checked(Edit({"PoweredOff"}, {<<"recording", "recordedScreen">>, <<"recordedScreen">>}))
SwitchRecordingScreen == Checked(Edit(States \ {"Paused", "Aborted"}, {<<"recording">>}))

\* A wrong type is refused after the machine has been locked.
AddUSBController == [Edit(States, {<<"usbController">>}) EXCEPT !.quits = "unlocked"]
DelUSBController == Edit(States, {<<"usbController">>})

SetAudio == Edit(States, {<<"audioDevice">>})
SwitchAudio == Edit(States, {<<"audioEnabled">>})

AddSerialPort == Checked(Edit(States, {<<"serialPort">>}))
DelSerialPort == Checked(Edit(States, {<<"serialPort">>}))

\* Only the device calls are inside a try block, whose handler returns false
\* with the machine locked, as does a wrong controller type; but see
\* IgnoreError for the handler of addDiskToVm.
AddDiskToVm ==
    [Checked(Edit(States, {<<"diskAttachment", "hotPluggable">>}))
        EXCEPT !.locks = "Write", !.quits = "locked", !.catches = "edits"]
DetachDiskFromVm ==
    [Checked(Edit(States, {<<"diskAttachment">>})) EXCEPT !.catches = "edits"]

Operation ==
    [setBridge |-> SetBridge, addBridge |-> AddBridge, setNat |-> SetNat, addNat |-> AddNat,
     setAdaptorMAC |-> SetAdaptorMAC, disableAdaptor |-> DisableAdaptor,
     createSharefolder |-> CreateSharefolder, removeSharedFolder |-> RemoveSharedFolder,
     setSimpleRemoteDisplay |-> SetSimpleRemoteDisplay, getRdpInfo |-> GetRdpInfo,
     disableRDP |-> DisableRDP, resetCpuCount |-> ResetCpuCount,
     resetMemSize |-> ResetMemSize, resetGraphics |-> ResetGraphics,
     setRecordingScreenConfig |-> SetRecordingScreenConfig,
     switchRecordingScreen |-> SwitchRecordingScreen,
     addUSBController |-> AddUSBController, delUSBController |-> DelUSBController,
     setAudio |-> SetAudio, switchAudio |-> SwitchAudio,
     addSerialPort |-> AddSerialPort, delSerialPort |-> DelSerialPort,
     addDiskToVm |-> AddDiskToVm, detachDiskFromVm |-> DetachDiskFromVm]

Does(c) == Operation[op[c]]
EditsNothing(c) == Does(c).edits = {<<>>}
AttributesOf(s) == {s[i] : i \in DOMAIN s}

ASSUME SettingsAssumption ==
    /\ Offered \subseteq DOMAIN Operation
    /\ Nobody # Vm /\ Nobody # Abandoned /\ Vm # Abandoned
    /\ {Nobody, Vm, Abandoned, Before} \cap Calls = {}

TypeOK ==
    /\ state \in States
    /\ writer \in Calls \cup {Nobody, Vm, Abandoned}
    /\ live \in [Attributes -> Calls \cup {Before}]
    /\ saved \in [Attributes -> Calls \cup {Before}]
    /\ pc \in [Calls -> {"idle", "called", "lock", "edit", "unlock", "ended"}]
    /\ op \in [Calls -> DOMAIN Operation]
    /\ todo \in [Calls -> Seq(Attributes)]
    /\ link \in [Calls -> {"none", "write", "shared", "gone"}]
    /\ result \in [Calls -> {"true", "false", "fell", "threw"}]
    /\ up \in BOOLEAN
    /\ made \in [Calls -> SUBSET Attributes]
    /\ kept \subseteq Calls
    /\ shares \subseteq Calls
    /\ earlier \in [Calls -> SUBSET Calls]

Init ==
    /\ state \in {"PoweredOff", "Running"}
    /\ writer = IF state \in Online THEN Vm ELSE Nobody
    /\ live = [a \in Attributes |-> Before]
    /\ saved = live
    /\ pc = [c \in Calls |-> "idle"]
    /\ op = [c \in Calls |-> "getRdpInfo"]
    /\ todo = [c \in Calls |-> <<>>]
    /\ link = [c \in Calls |-> "none"]
    /\ result = [c \in Calls |-> "true"]
    /\ up = TRUE
    /\ made = [c \in Calls |-> {}]
    /\ kept = {}
    /\ shares = {}
    /\ earlier = [c \in Calls |-> {}]

-----------------------------------------------------------------------------
(* Sessions (external).                                                    *)

\* The session that has the write lock ends: what it had not saved is lost,
\* and the sessions linked to it are closed.
LinksCut == [c \in Calls |-> IF link[c] = "shared" THEN "gone" ELSE link[c]]

\* The session of a call ends, by unlockMachine or by its release; leaves is
\* the session that has the write lock afterwards.
EndSession(c, leaves) ==
    IF link[c] = "write"
    THEN /\ writer' = leaves
         /\ live' = saved
         /\ link' = [LinksCut EXCEPT ![c] = "none"]
    ELSE /\ link' = [link EXCEPT ![c] = "none"]
         /\ UNCHANGED <<writer, live>>

\* The function ends and its session, if any is left, goes out of scope.
Leave(c, r) ==
    /\ EndSession(c, Abandoned)
    /\ pc' = [pc EXCEPT ![c] = "ended"]
    /\ result' = [result EXCEPT ![c] = r]
    /\ UNCHANGED <<state, saved, op, todo, up, history>>

\* A COMError: the handler at the end of the function prints it, and control
\* reaches the closing brace without a return; or nothing catches it.
Throw(c) == Leave(c, IF Does(c).catches = "all" THEN "fell" ELSE "threw")

Linked(c) == link[c] \in {"write", "shared"}

-----------------------------------------------------------------------------
(* The steps of a call.                                                    *)

Call(c, x) ==
    /\ up /\ pc[c] = "idle"
    /\ pc' = [pc EXCEPT ![c] = "called"]
    /\ op' = [op EXCEPT ![c] = x]
    /\ earlier' = [earlier EXCEPT ![c] = {d \in Calls : pc[d] = "ended"}]
    /\ UNCHANGED <<vbox, todo, link, result, up, made, kept, shares>>

\* An argument outside its range is refused before the machine is looked up.
RefuseArgument(c) ==
    /\ up /\ pc[c] = "called"
    /\ Does(c).checks
    /\ Leave(c, "false")

\* findMachine raises an error for a name it does not know.
FindFails(c) ==
    /\ up /\ pc[c] = "called"
    /\ Throw(c)

\* switch (machine->state()): the state is read once.
GoOn(c) ==
    /\ up /\ pc[c] = "called"
    /\ state \in Does(c).from
    /\ pc' = [pc EXCEPT ![c] = "lock"]
    /\ UNCHANGED <<vbox, op, todo, link, result, up, history>>

RefuseState(c) ==
    /\ up /\ pc[c] = "called"
    /\ state \notin Does(c).from
    /\ Leave(c, Does(c).other)

\* A lock that only this session has, or, for a shared lock, a link to the
\* session that has it.
LockMachine(c) ==
    /\ up /\ pc[c] = "lock"
    /\ \/ /\ writer = Nobody
          /\ writer' = c
          /\ link' = [link EXCEPT ![c] = "write"]
          /\ UNCHANGED shares
       \/ /\ Does(c).locks = "Shared"
          /\ writer \in Calls \cup {Vm}
          /\ link' = [link EXCEPT ![c] = "shared"]
          /\ shares' = shares \cup {c} \cup ({writer} \cap Calls)
          /\ UNCHANGED writer
    /\ \E s \in Does(c).edits : todo' = [todo EXCEPT ![c] = s]
    /\ pc' = [pc EXCEPT ![c] = "edit"]
    /\ UNCHANGED <<state, live, saved, op, result, up, made, kept, earlier>>

\* "Session already open or being opened", and whatever else may go wrong.
LockFails(c) ==
    /\ up /\ pc[c] = "lock"
    /\ Throw(c)

\* addUSBController, addDiskToVm, getRdpInfo: a request that cannot be met is
\* found out when the machine is locked.
QuitLocked(c) ==
    /\ up /\ pc[c] = "edit" /\ Linked(c)
    /\ Does(c).quits = "locked" /\ made[c] = {}
    /\ todo[c] = <<>> => writer = Vm
    /\ Leave(c, "false")

\* Mutation: a wrong type is refused like a wrong controller, without unlocking.
QuitUnlocked_leaves(c) ==
    /\ up /\ pc[c] = "edit" /\ Linked(c)
    /\ Does(c).quits = "unlocked" /\ made[c] = {}
    /\ Leave(c, "false")

QuitUnlocked(c) ==
    /\ up /\ pc[c] = "edit" /\ Linked(c)
    /\ Does(c).quits = "unlocked" /\ made[c] = {}
    /\ pc' = [pc EXCEPT ![c] = "unlock"]
    /\ result' = [result EXCEPT ![c] = "false"]
    /\ UNCHANGED <<vbox, op, todo, link, up, history>>

\* Mutation: each setter is followed by its own saveSettings.
SetAttribute_saves(c) ==
    /\ up /\ pc[c] = "edit" /\ Linked(c)
    /\ todo[c] # <<>>
    /\ live' = [live EXCEPT ![Head(todo[c])] = c]
    /\ saved' = live'
    /\ made' = [made EXCEPT ![c] = @ \cup {Head(todo[c])}]
    /\ todo' = [todo EXCEPT ![c] = Tail(@)]
    /\ UNCHANGED <<state, writer, pc, op, link, result, up, kept, shares, earlier>>

\* One setter, on the copy that all linked sessions share.
SetAttribute(c) ==
    /\ up /\ pc[c] = "edit" /\ Linked(c)
    /\ todo[c] # <<>>
    /\ live' = [live EXCEPT ![Head(todo[c])] = c]
    /\ made' = [made EXCEPT ![c] = @ \cup {Head(todo[c])}]
    /\ todo' = [todo EXCEPT ![c] = Tail(@)]
    /\ UNCHANGED <<state, writer, saved, pc, op, link, result, up, kept, shares, earlier>>

\* A setter, or a getter before it, raises an error.
SetFails(c) ==
    /\ up /\ pc[c] = "edit"
    /\ todo[c] # <<>>
    /\ \/ Does(c).catches = "edits" /\ Leave(c, "false")
       \/ (Does(c).catches = "edits" => made[c] = {}) /\ Throw(c)

\* The handler of addDiskToVm returns inside "if (vboxError)": after an error of
\* another kind the function goes on, saves what there is and returns true.
IgnoreError(c) ==
    /\ up /\ pc[c] = "edit"
    /\ op[c] = "addDiskToVm" /\ todo[c] # <<>>
    /\ todo' = [todo EXCEPT ![c] = <<>>]
    /\ UNCHANGED <<vbox, pc, op, link, result, up, history>>

\* Mutation: the machine is unlocked without saveSettings.
SaveSettings_skipped(c) ==
    /\ up /\ pc[c] = "edit" /\ Linked(c)
    /\ todo[c] = <<>> /\ ~EditsNothing(c)
    /\ kept' = kept \cup {c}
    /\ pc' = [pc EXCEPT ![c] = "unlock"]
    /\ UNCHANGED <<vbox, op, todo, link, result, up, made, shares, earlier>>

\* saveSettings writes the whole copy, with what linked sessions have set.
SaveSettings(c) ==
    /\ up /\ pc[c] = "edit" /\ Linked(c)
    /\ todo[c] = <<>> /\ ~EditsNothing(c)
    /\ saved' = live
    /\ kept' = kept \cup {c}
    /\ pc' = [pc EXCEPT ![c] = "unlock"]
    /\ UNCHANGED <<state, writer, live, op, todo, link, result, up, made, shares, earlier>>

SaveFails(c) ==
    /\ up /\ pc[c] = "edit"
    /\ todo[c] = <<>>
    /\ Throw(c)

\* getRdpInfo: session->console()->VRDEServerInfo() and what it tells.  Only a
\* session linked to the machine's process has a console.
ReadInfo(c) ==
    /\ up /\ pc[c] = "edit" /\ Linked(c)
    /\ EditsNothing(c)
    /\ writer = Vm
    /\ pc' = [pc EXCEPT ![c] = "unlock"]
    /\ UNCHANGED <<vbox, op, todo, link, result, up, history>>

NullConsole(c) ==
    /\ up /\ pc[c] = "edit" /\ Linked(c)
    /\ EditsNothing(c)
    /\ writer # Vm
    /\ up' = FALSE
    /\ UNCHANGED <<vbox, calls, history>>

\* Mutation: the call answers with its session still locked.
UnlockMachine_forgotten(c) ==
    /\ up /\ pc[c] = "unlock" /\ Linked(c)
    /\ pc' = [pc EXCEPT ![c] = "ended"]
    /\ UNCHANGED <<vbox, op, todo, link, result, up, history>>

UnlockMachine(c) ==
    /\ up /\ pc[c] = "unlock" /\ Linked(c)
    /\ EndSession(c, Nobody)
    /\ pc' = [pc EXCEPT ![c] = "ended"]
    /\ UNCHANGED <<state, saved, op, todo, result, up, history>>

\* "Session is not locked": the session it was linked to has ended.
UnlockFails(c) ==
    /\ up /\ pc[c] = "unlock" /\ link[c] = "gone"
    /\ Throw(c)

\* VBox::currentError() is null where no error object was set, and every
\* handler calls errorInfo->QueryInterface() on it: the server process ends.
NullErrorInfo(c) ==
    /\ up
    /\ \/ /\ Does(c).catches = "all"
          /\ pc[c] \in {"called", "lock", "edit"} \/ (pc[c] = "unlock" /\ link[c] = "gone")
       \/ /\ Does(c).catches = "edits"
          /\ pc[c] = "edit" /\ todo[c] # <<>>
    /\ up' = FALSE
    /\ UNCHANGED <<vbox, calls, history>>

-----------------------------------------------------------------------------
(* The machine's own process, and other clients of VirtualBox (external).  *)

Launched ==
    /\ state \in Resting /\ writer = Nobody
    /\ state' = "Starting"
    /\ writer' = Vm
    /\ UNCHANGED <<live, saved, calls, up, history>>

Runs ==
    /\ state \in Online
    /\ state' \in Online \ {state, "Starting"}
    /\ UNCHANGED <<writer, live, saved, calls, up, history>>

ProcessEnds ==
    /\ state \in Online
    /\ state' \in Resting
    /\ writer' = Nobody
    /\ live' = saved
    /\ link' = LinksCut
    /\ UNCHANGED <<saved, pc, op, todo, result, up, history>>

\* "the machine's state will be set to Aborted ..., and changes made to the
\* machine settings will be lost".
Reap ==
    /\ writer = Abandoned
    /\ writer' = Nobody
    /\ state' = "Aborted"
    /\ UNCHANGED <<live, saved, calls, up, history>>

-----------------------------------------------------------------------------

Step(c) ==
    \/ RefuseArgument(c) \/ FindFails(c) \/ GoOn(c) \/ RefuseState(c)
    \/ LockMachine(c) \/ LockFails(c) \/ QuitLocked(c) \/ QuitUnlocked(c)
    \/ SetAttribute(c) \/ SetFails(c) \/ IgnoreError(c) \/ SaveSettings(c) \/ SaveFails(c)
    \/ ReadInfo(c) \/ NullConsole(c) \/ UnlockMachine(c) \/ UnlockFails(c) \/ NullErrorInfo(c)

Next ==
    \/ \E c \in Calls, x \in Offered : Call(c, x)
    \/ \E c \in Calls : Step(c)
    \/ Launched \/ Runs \/ ProcessEnds \/ Reap

Spec == Init /\ [][Next]_vars

-----------------------------------------------------------------------------
(* Properties.                                                             *)

Ended(c) == up /\ pc[c] = "ended"

\* A call that answers true has set all the attributes of its edit, and has them
\* in the file: each is there as it set it, or as a call set it that had not
\* ended when this one began; never again as it was before.  Sessions that end
\* meanwhile take back what linked sessions have set (vca_vmConfigure.cpp 48-62
\* and its likes).  Only addDiskToVm may have set less (vca_core.cpp 593-614).
TrueMeansSaved ==
    \A c \in Calls : Ended(c) /\ result[c] = "true" =>
        /\ op[c] # "addDiskToVm" => \E s \in Does(c).edits : made[c] = AttributesOf(s)
        /\ \A a \in made[c] : saved[a] \notin earlier[c] \cup {Before}

\* A call that ends before its saveSettings has succeeded, and whose session
\* was its own, leaves nothing in the file, although it may have set some of
\* its attributes: half an edit reaches the file by a linked session only.
AllOrNothing ==
    \A c \in Calls \ (kept \cup shares) : \A a \in Attributes : saved[a] # c

\* A machine stays locked by a session that is gone only through a call that
\* raised an error, or that is addDiskToVm or detachDiskFromVm and answered
\* false (vca_core.cpp 573, 606, 719): no other refusal, and no call that
\* answers true, keeps the next ones out.  getRdpInfo does not either, though it
\* returns with its session locked (vca_vmConfigure.cpp 878), as its session is
\* always linked to the machine's process then.
LockLeftByFailure ==
    writer = Abandoned =>
        \E c \in Calls :
            /\ pc[c] = "ended"
            /\ \/ result[c] \in {"fell", "threw"}
               \/ result[c] = "false" /\ Does(c).catches = "edits"

\* The sessions of the calls keep to what VirtualBox promises of a machine's lock:
\* a call that has ended has given back or abandoned what it took.
Calling == {c \in Calls : pc[c] \notin {"idle", "ended"}}
Sharing == {c \in Calls : link[c] = "shared"}
MachineLock == INSTANCE SessionLock WITH
    Sessions <- Calls, holder <- writer, linked <- Sharing, open <- Calling
ImplementsSessionLock == MachineLock!LockSpec

\* The lock of a machine belongs to one session: a call that is between
\* lockMachine and unlockMachine, or the process that executes the machine, to
\* which the others are linked.  What no session holds is as in the file.
LockInv ==
    /\ \A c \in Calls : link[c] # "none" => pc[c] \in {"edit", "unlock"}
    /\ \A c \in Calls : writer = c <=> link[c] = "write"
    /\ \A c \in Calls : link[c] = "shared" =>
          /\ writer \notin {Nobody, Abandoned}
          /\ c \in shares
          /\ writer \in Calls => writer \in shares
    /\ writer = Vm <=> state \in Online
    /\ writer \in {Nobody, Abandoned} => live = saved

\* How far a call is agrees with what it has set and kept.
CallInv ==
    /\ \A c \in Calls : pc[c] \in {"idle", "called", "lock"} => made[c] = {} /\ todo[c] = <<>>
    /\ \A c \in Calls : pc[c] \in {"idle", "called", "lock", "edit"} => c \notin kept
    /\ \A c \in Calls : pc[c] \in {"edit", "unlock"} => link[c] # "none"
    /\ \A c \in Calls : pc[c] = "unlock" /\ made[c] # {} => c \in kept
    /\ \A c \in Calls : pc[c] = "ended" /\ result[c] = "true" /\ made[c] # {} => c \in kept
    /\ \A c \in Calls : EditsNothing(c) => todo[c] = <<>> /\ made[c] = {}
    /\ \A c \in Calls : earlier[c] \subseteq {d \in Calls : pc[d] = "ended"}

\* A call that has not been refused has set some attributes of its edit and is to
\* set the others, which it has done when it leaves the setters.
OnCourse(c) ==
    pc[c] \in {"edit", "unlock", "ended"} /\ result[c] = "true" =>
        /\ op[c] # "addDiskToVm" => \E s \in Does(c).edits :
              made[c] \cup AttributesOf(todo[c]) = AttributesOf(s)
        /\ pc[c] # "edit" => todo[c] = <<>>
CourseInv == \A c \in Calls : OnCourse(c)

\* What a call has set is in the shared copy as long as its session is locked,
\* and what it has kept is there and in the file for good, as it set it or as a
\* later call did; the copy has something of a call that neither shared nor kept
\* it only while the call holds the lock.
EditInv ==
    /\ \A c \in Calls : Linked(c) \/ c \in kept =>
          \A a \in made[c] : live[a] \notin earlier[c] \cup {Before}
    /\ \A c \in kept : \A a \in made[c] : saved[a] \notin earlier[c] \cup {Before}
    /\ \A c \in Calls \ (kept \cup shares) : \A a \in Attributes :
          live[a] = c => link[c] = "write"

\* The inductive invariant behind the theorems of VmSettings_proofs.
IInv ==
    /\ TypeOK
    /\ LockInv
    /\ CallInv
    /\ CourseInv
    /\ EditInv
    /\ TrueMeansSaved
    /\ AllOrNothing
    /\ LockLeftByFailure

=============================================================================
