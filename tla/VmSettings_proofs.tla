------------------------- MODULE VmSettings_proofs -------------------------
(***************************************************************************)
(* What holds of the settings operations for every number of calls, all    *)
(* operations offered.  The inductive invariant is IInv of VmSettings: who *)
(* has the lock, what each call has set and kept, and that neither a later *)
(* save nor the end of a session brings back what a kept edit replaced.    *)
(***************************************************************************)
EXTENDS VmSettings, QueueLemmas

-----------------------------------------------------------------------------
(* The records of the operations, as far as the proofs look at them.       *)

Sound(x, r) ==
    /\ r.edits \subseteq Seq(Attributes)
    /\ r.other \in {"true", "false"}
    /\ r.quits = "locked" /\ x # "getRdpInfo" => r.catches = "edits"
    /\ x = "getRdpInfo" => r.edits = {<<>>}
    /\ x # "getRdpInfo" => r.other = "false"

LEMMA SequenceFacts ==
    ASSUME NEW a \in Attributes, NEW b \in Attributes, NEW c \in Attributes
    PROVE  /\ <<>> \in Seq(Attributes)
           /\ <<a>> \in Seq(Attributes)
           /\ <<a, b>> \in Seq(Attributes)
           /\ <<a, b, c>> \in Seq(Attributes)
  OBVIOUS

LEMMA EditFacts ==
    ASSUME NEW from, NEW edits \in SUBSET Seq(Attributes), NEW x, x # "getRdpInfo"
    PROVE  Sound(x, Edit(from, edits)) /\ Sound(x, Checked(Edit(from, edits)))
  BY DEF Sound, Edit, Checked

LEMMA OperationFacts ==
    ASSUME NEW x \in DOMAIN Operation
    PROVE  Sound(x, Operation[x])
<1>1. CASE x = "setBridge"
  <2>1. Operation[x] = SetBridge
    BY <1>1 DEF Operation
  <2>2. "bridgedInterface" \in Attributes /\ "attachmentType" \in Attributes /\ "adapterEnabled" \in Attributes
    BY DEF Attributes
  <2>3. {<<"bridgedInterface", "attachmentType", "adapterEnabled">>} \in SUBSET Seq(Attributes)
    BY <2>2, SequenceFacts
  <2>4. QED
    BY <1>1, <2>1, <2>3, EditFacts DEF SetBridge
<1>2. CASE x = "addBridge"
  <2>1. Operation[x] = AddBridge
    BY <1>2 DEF Operation
  <2>2. "bridgedInterface" \in Attributes /\ "attachmentType" \in Attributes /\ "adapterEnabled" \in Attributes
    BY DEF Attributes
  <2>3. {<<"bridgedInterface", "attachmentType", "adapterEnabled">>} \in SUBSET Seq(Attributes)
    BY <2>2, SequenceFacts
  <2>4. QED
    BY <1>2, <2>1, <2>3 DEF Sound, AddBridge, Edit, Checked
<1>3. CASE x = "setNat"
  <2>1. Operation[x] = SetNat
    BY <1>3 DEF Operation
  <2>2. "attachmentType" \in Attributes /\ "adapterEnabled" \in Attributes
    BY DEF Attributes
  <2>3. {<<"attachmentType", "adapterEnabled">>} \in SUBSET Seq(Attributes)
    BY <2>2, SequenceFacts
  <2>4. QED
    BY <1>3, <2>1, <2>3, EditFacts DEF SetNat
<1>4. CASE x = "addNat"
  <2>1. Operation[x] = AddNat
    BY <1>4 DEF Operation
  <2>2. "attachmentType" \in Attributes /\ "adapterEnabled" \in Attributes
    BY DEF Attributes
  <2>3. {<<"attachmentType", "adapterEnabled">>} \in SUBSET Seq(Attributes)
    BY <2>2, SequenceFacts
  <2>4. QED
    BY <1>4, <2>1, <2>3, EditFacts DEF AddNat
<1>5. CASE x = "setAdaptorMAC"
  <2>1. Operation[x] = SetAdaptorMAC
    BY <1>5 DEF Operation
  <2>2. "adapterEnabled" \in Attributes /\ "MACAddress" \in Attributes
    BY DEF Attributes
  <2>3. {<<"adapterEnabled", "MACAddress">>} \in SUBSET Seq(Attributes)
    BY <2>2, SequenceFacts
  <2>4. QED
    BY <1>5, <2>1, <2>3, EditFacts DEF SetAdaptorMAC
<1>6. CASE x = "disableAdaptor"
  <2>1. Operation[x] = DisableAdaptor
    BY <1>6 DEF Operation
  <2>2. "adapterEnabled" \in Attributes
    BY DEF Attributes
  <2>3. {<<"adapterEnabled">>} \in SUBSET Seq(Attributes)
    BY <2>2, SequenceFacts
  <2>4. QED
    BY <1>6, <2>1, <2>3, EditFacts DEF DisableAdaptor
<1>7. CASE x = "createSharefolder"
  <2>1. Operation[x] = CreateSharefolder
    BY <1>7 DEF Operation
  <2>2. "sharedFolder" \in Attributes
    BY DEF Attributes
  <2>3. {<<"sharedFolder">>} \in SUBSET Seq(Attributes)
    BY <2>2, SequenceFacts
  <2>4. QED
    BY <1>7, <2>1, <2>3, EditFacts DEF CreateSharefolder
<1>8. CASE x = "removeSharedFolder"
  <2>1. Operation[x] = RemoveSharedFolder
    BY <1>8 DEF Operation
  <2>2. "sharedFolder" \in Attributes
    BY DEF Attributes
  <2>3. {<<"sharedFolder">>} \in SUBSET Seq(Attributes)
    BY <2>2, SequenceFacts
  <2>4. QED
    BY <1>8, <2>1, <2>3, EditFacts DEF RemoveSharedFolder
<1>9. CASE x = "setSimpleRemoteDisplay"
  <2>1. Operation[x] = SetSimpleRemoteDisplay
    BY <1>9 DEF Operation
  <2>2. "vrdeEnabled" \in Attributes /\ "vrdeOptions" \in Attributes
    BY DEF Attributes
  <2>3. {<<"vrdeEnabled", "vrdeOptions">>} \in SUBSET Seq(Attributes)
    BY <2>2, SequenceFacts
  <2>4. QED
    BY <1>9, <2>1, <2>3, EditFacts DEF SetSimpleRemoteDisplay
<1>10. CASE x = "getRdpInfo"
  <2>1. Operation[x] = GetRdpInfo
    BY <1>10 DEF Operation
  <2>2. QED
    BY <1>10, <2>1, SequenceFacts DEF Sound, GetRdpInfo, Edit, Attributes
<1>11. CASE x = "disableRDP"
  <2>1. Operation[x] = DisableRDP
    BY <1>11 DEF Operation
  <2>2. "vrdeEnabled" \in Attributes
    BY DEF Attributes
  <2>3. {<<"vrdeEnabled">>} \in SUBSET Seq(Attributes)
    BY <2>2, SequenceFacts
  <2>4. QED
    BY <1>11, <2>1, <2>3, EditFacts DEF DisableRDP
<1>12. CASE x = "resetCpuCount"
  <2>1. Operation[x] = ResetCpuCount
    BY <1>12 DEF Operation
  <2>2. "CPUCount" \in Attributes
    BY DEF Attributes
  <2>3. {<<"CPUCount">>} \in SUBSET Seq(Attributes)
    BY <2>2, SequenceFacts
  <2>4. QED
    BY <1>12, <2>1, <2>3, EditFacts DEF ResetCpuCount
<1>13. CASE x = "resetMemSize"
  <2>1. Operation[x] = ResetMemSize
    BY <1>13 DEF Operation
  <2>2. "memorySize" \in Attributes
    BY DEF Attributes
  <2>3. {<<"memorySize">>} \in SUBSET Seq(Attributes)
    BY <2>2, SequenceFacts
  <2>4. QED
    BY <1>13, <2>1, <2>3, EditFacts DEF ResetMemSize
<1>14. CASE x = "resetGraphics"
  <2>1. Operation[x] = ResetGraphics
    BY <1>14 DEF Operation
  <2>2. "accelerate3D" \in Attributes /\ "display" \in Attributes
    BY DEF Attributes
  <2>3. {<<"accelerate3D", "display">>, <<"display">>} \in SUBSET Seq(Attributes)
    BY <2>2, SequenceFacts
  <2>4. QED
    BY <1>14, <2>1, <2>3, EditFacts DEF ResetGraphics
<1>15. CASE x = "setRecordingScreenConfig"
  <2>1. Operation[x] = SetRecordingScreenConfig
    BY <1>15 DEF Operation
  <2>2. "recording" \in Attributes /\ "recordedScreen" \in Attributes
    BY DEF Attributes
  <2>3. {<<"recording", "recordedScreen">>, <<"recordedScreen">>} \in SUBSET Seq(Attributes)
    BY <2>2, SequenceFacts
  <2>4. QED
    BY <1>15, <2>1, <2>3, EditFacts DEF SetRecordingScreenConfig
<1>16. CASE x = "switchRecordingScreen"
  <2>1. Operation[x] = SwitchRecordingScreen
    BY <1>16 DEF Operation
  <2>2. "recording" \in Attributes
    BY DEF Attributes
  <2>3. {<<"recording">>} \in SUBSET Seq(Attributes)
    BY <2>2, SequenceFacts
  <2>4. QED
    BY <1>16, <2>1, <2>3, EditFacts DEF SwitchRecordingScreen
<1>17. CASE x = "addUSBController"
  <2>1. Operation[x] = AddUSBController
    BY <1>17 DEF Operation
  <2>2. "usbController" \in Attributes
    BY DEF Attributes
  <2>3. {<<"usbController">>} \in SUBSET Seq(Attributes)
    BY <2>2, SequenceFacts
  <2>4. QED
    BY <1>17, <2>1, <2>3 DEF Sound, AddUSBController, Edit, Checked
<1>18. CASE x = "delUSBController"
  <2>1. Operation[x] = DelUSBController
    BY <1>18 DEF Operation
  <2>2. "usbController" \in Attributes
    BY DEF Attributes
  <2>3. {<<"usbController">>} \in SUBSET Seq(Attributes)
    BY <2>2, SequenceFacts
  <2>4. QED
    BY <1>18, <2>1, <2>3, EditFacts DEF DelUSBController
<1>19. CASE x = "setAudio"
  <2>1. Operation[x] = SetAudio
    BY <1>19 DEF Operation
  <2>2. "audioDevice" \in Attributes
    BY DEF Attributes
  <2>3. {<<"audioDevice">>} \in SUBSET Seq(Attributes)
    BY <2>2, SequenceFacts
  <2>4. QED
    BY <1>19, <2>1, <2>3, EditFacts DEF SetAudio
<1>20. CASE x = "switchAudio"
  <2>1. Operation[x] = SwitchAudio
    BY <1>20 DEF Operation
  <2>2. "audioEnabled" \in Attributes
    BY DEF Attributes
  <2>3. {<<"audioEnabled">>} \in SUBSET Seq(Attributes)
    BY <2>2, SequenceFacts
  <2>4. QED
    BY <1>20, <2>1, <2>3, EditFacts DEF SwitchAudio
<1>21. CASE x = "addSerialPort"
  <2>1. Operation[x] = AddSerialPort
    BY <1>21 DEF Operation
  <2>2. "serialPort" \in Attributes
    BY DEF Attributes
  <2>3. {<<"serialPort">>} \in SUBSET Seq(Attributes)
    BY <2>2, SequenceFacts
  <2>4. QED
    BY <1>21, <2>1, <2>3, EditFacts DEF AddSerialPort
<1>22. CASE x = "delSerialPort"
  <2>1. Operation[x] = DelSerialPort
    BY <1>22 DEF Operation
  <2>2. "serialPort" \in Attributes
    BY DEF Attributes
  <2>3. {<<"serialPort">>} \in SUBSET Seq(Attributes)
    BY <2>2, SequenceFacts
  <2>4. QED
    BY <1>22, <2>1, <2>3, EditFacts DEF DelSerialPort
<1>23. CASE x = "addDiskToVm"
  <2>1. Operation[x] = AddDiskToVm
    BY <1>23 DEF Operation
  <2>2. "diskAttachment" \in Attributes /\ "hotPluggable" \in Attributes
    BY DEF Attributes
  <2>3. {<<"diskAttachment", "hotPluggable">>} \in SUBSET Seq(Attributes)
    BY <2>2, SequenceFacts
  <2>4. QED
    BY <1>23, <2>1, <2>3 DEF Sound, AddDiskToVm, Edit, Checked
<1>24. CASE x = "detachDiskFromVm"
  <2>1. Operation[x] = DetachDiskFromVm
    BY <1>24 DEF Operation
  <2>2. "diskAttachment" \in Attributes
    BY DEF Attributes
  <2>3. {<<"diskAttachment">>} \in SUBSET Seq(Attributes)
    BY <2>2, SequenceFacts
  <2>4. QED
    BY <1>24, <2>1, <2>3 DEF Sound, DetachDiskFromVm, Edit, Checked
<1>25. QED
  BY <1>1, <1>2, <1>3, <1>4, <1>5, <1>6, <1>7, <1>8, <1>9, <1>10, <1>11, <1>12, <1>13, <1>14, <1>15, <1>16, <1>17, <1>18, <1>19, <1>20, <1>21, <1>22, <1>23, <1>24 DEF Operation

LEMMA DoesFacts ==
    ASSUME IInv, NEW c \in Calls
    PROVE  Sound(op[c], Does(c)) /\ op[c] \in DOMAIN Operation
<1>1. op[c] \in DOMAIN Operation
  BY DEF IInv, TypeOK
<1>2. QED
  BY <1>1, OperationFacts DEF Does

\* A call on which nothing changes stays on its course.
LEMMA StaysOnCourse ==
    ASSUME NEW c \in Calls, OnCourse(c), result'[c] = result[c], op'[c] = op[c],
           todo'[c] = todo[c], made'[c] = made[c], pc'[c] = pc[c]
    PROVE  OnCourse(c)'
  BY DEF OnCourse, Does

LEMMA NothingIsSet == AttributesOf(<<>>) = {}
  BY DEF AttributesOf

-----------------------------------------------------------------------------
(* Steps of a call.                                                        *)

LEMMA CallKeepsInv ==
    ASSUME SettingsAssumption, IInv, NEW c \in Calls, NEW x \in Offered, Call(c, x)
    PROVE  IInv'
<1> USE DEF IInv, Call, vbox
<1>1. x \in DOMAIN Operation
  BY DEF SettingsAssumption
<1>2. TypeOK'
  BY <1>1 DEF TypeOK
<1>3. link[c] = "none" /\ made[c] = {} /\ c \notin kept
  BY DEF LockInv, CallInv
<1>4. /\ pc'[c] = "called" /\ earlier'[c] = {d \in Calls : pc[d] = "ended"} /\ op'[c] = x
      /\ \A d \in Calls : d # c => /\ pc'[d] = pc[d] /\ earlier'[d] = earlier[d]
                                   /\ op'[d] = op[d]
  BY DEF TypeOK
<1>5. LockInv'
  BY <1>3, <1>4 DEF LockInv
<1>6. \A d \in Calls : pc[d] = "ended" => pc'[d] = "ended"
  BY <1>4
<1>7. \A d \in Calls : EditsNothing(d)' => todo'[d] = <<>> /\ made'[d] = {}
  BY <1>4 DEF CallInv, EditsNothing, Does
<1>8. CallInv'
  BY <1>3, <1>4, <1>6, <1>7 DEF CallInv
<1>9. EditInv'
  BY <1>3, <1>4 DEF EditInv, Linked
<1>10. TrueMeansSaved' /\ AllOrNothing'
  BY <1>4 DEF TrueMeansSaved, AllOrNothing, Ended, Does
<1>11. LockLeftByFailure'
  BY <1>4, <1>6 DEF LockLeftByFailure, Does
<1>12. CourseInv'
  <2>1. OnCourse(c)'
    BY <1>4 DEF OnCourse
  <2>2. \A d \in Calls : d # c => OnCourse(d)'
    BY <1>4, StaysOnCourse DEF CourseInv
  <2>3. QED
    BY <2>1, <2>2 DEF CourseInv
<1>13. QED
  BY <1>2, <1>5, <1>8, <1>9, <1>10, <1>11, <1>12

LEMMA GoOnKeepsInv ==
    ASSUME SettingsAssumption, IInv, NEW c \in Calls, GoOn(c)
    PROVE  IInv'
<1> USE DEF IInv, GoOn, vbox, history
<1>1. TypeOK'
  BY DEF TypeOK
<1>2. pc'[c] = "lock" /\ \A d \in Calls : d # c => pc'[d] = pc[d]
  BY DEF TypeOK
<1>3. LockInv'
  BY <1>2 DEF LockInv
<1>4. \A d \in Calls : pc[d] = "ended" => pc'[d] = "ended"
  BY <1>2
<1>5. CallInv'
  BY <1>2, <1>4 DEF CallInv, EditsNothing, Does
<1>6. EditInv' /\ AllOrNothing'
  BY DEF EditInv, AllOrNothing, Linked
<1>7. TrueMeansSaved'
  BY <1>2 DEF TrueMeansSaved, Ended, Does
<1>8. LockLeftByFailure'
  BY <1>4 DEF LockLeftByFailure, Does
<1>9. CourseInv'
  <2>1. OnCourse(c)'
    BY <1>2 DEF OnCourse
  <2>2. \A d \in Calls : d # c => OnCourse(d)'
    BY <1>2, StaysOnCourse DEF CourseInv
  <2>3. QED
    BY <2>1, <2>2 DEF CourseInv
<1>10. QED
  BY <1>1, <1>3, <1>5, <1>6, <1>7, <1>8, <1>9

LEMMA LockMachineKeepsInv ==
    ASSUME SettingsAssumption, IInv, NEW c \in Calls, LockMachine(c)
    PROVE  IInv'
<1> USE DEF IInv, LockMachine
<1>1. PICK s \in Does(c).edits : todo' = [todo EXCEPT ![c] = s]
  OBVIOUS
<1>2. s \in Seq(Attributes) /\ (EditsNothing(c) => s = <<>>)
  BY DoesFacts DEF Sound, EditsNothing
<1>3. TypeOK'
  BY <1>1, <1>2 DEF TypeOK
<1>4. /\ pc'[c] = "edit" /\ todo'[c] = s /\ link'[c] \in {"write", "shared"}
      /\ \A d \in Calls : d # c => /\ pc'[d] = pc[d] /\ todo'[d] = todo[d]
                                   /\ link'[d] = link[d]
  BY <1>1 DEF TypeOK
<1>5. link[c] = "none" /\ made[c] = {} /\ c \notin kept
  BY DEF LockInv, CallInv
<1>6. \A d \in Calls : d \notin {Nobody, Vm, Abandoned}
  BY DEF SettingsAssumption
<1>7. LockInv'
  <2>1. CASE writer = Nobody /\ writer' = c /\ link' = [link EXCEPT ![c] = "write"]
             /\ UNCHANGED shares
    <3>1. \A d \in Calls : link[d] \notin {"write", "shared"}
      BY <1>6, <2>1 DEF LockInv
    <3>2. link'[c] = "write" /\ \A d \in Calls : d # c => link'[d] \notin {"write", "shared"}
      BY <1>4, <2>1, <3>1 DEF TypeOK
    <3>3. state \notin Online
      BY <2>1 DEF LockInv, SettingsAssumption
    <3>4. QED
      BY <1>4, <1>6, <2>1, <3>2, <3>3 DEF LockInv
  <2>2. CASE /\ writer \in Calls \cup {Vm} /\ link' = [link EXCEPT ![c] = "shared"]
             /\ shares' = shares \cup {c} \cup ({writer} \cap Calls) /\ UNCHANGED writer
    <3>1. link'[c] = "shared" /\ writer # c
      BY <1>5, <2>2 DEF LockInv, TypeOK
    <3>2. writer \notin {Nobody, Abandoned}
      BY <1>6, <2>2 DEF SettingsAssumption
    <3>3. QED
      BY <1>4, <2>2, <3>1, <3>2 DEF LockInv
  <2>3. QED
    BY <2>1, <2>2
<1>8. \A d \in Calls : pc[d] = "ended" => pc'[d] = "ended"
  BY <1>4
<1>9. CallInv'
  BY <1>2, <1>4, <1>5, <1>8 DEF CallInv, EditsNothing, Does
<1>10. EditInv'
  <2>1. shares \subseteq shares'
    OBVIOUS
  <2>2. QED
    BY <1>4, <1>5, <2>1 DEF EditInv, Linked
<1>11. TrueMeansSaved' /\ AllOrNothing'
  BY <1>4 DEF TrueMeansSaved, AllOrNothing, Ended, Does
<1>12. LockLeftByFailure'
  BY <1>6, <1>8 DEF LockLeftByFailure, Does, SettingsAssumption
<1>13. CourseInv'
  <2>1. OnCourse(c)'
    <3>1. made'[c] \cup AttributesOf(todo'[c]) = AttributesOf(s)
      BY <1>4, <1>5
    <3>2. QED
      BY <1>1, <1>4, <3>1 DEF OnCourse, Does
  <2>2. \A d \in Calls : d # c => OnCourse(d)'
    BY <1>4, StaysOnCourse DEF CourseInv
  <2>3. QED
    BY <2>1, <2>2 DEF CourseInv
<1>14. QED
  BY <1>3, <1>7, <1>9, <1>10, <1>11, <1>12, <1>13

\* A session ends: the lock, the copy and the links afterwards.
LEMMA EndSessionFacts ==
    ASSUME SettingsAssumption, IInv, NEW c \in Calls,
           NEW leaves \in {Nobody, Abandoned}, EndSession(c, leaves)
    PROVE  /\ writer' \in Calls \cup {Nobody, Vm, Abandoned}
           /\ live' \in [Attributes -> Calls \cup {Before}]
           /\ link' \in [Calls -> {"none", "write", "shared", "gone"}]
           /\ link'[c] = "none"
           /\ link[c] = "write" => writer' = leaves /\ live' = saved
           /\ link[c] # "write" => writer' = writer /\ live' = live
           /\ \A d \in Calls : d # c =>
                 /\ link[d] = "write" <=> link'[d] = "write"
                 /\ link'[d] = "shared" => link[d] = "shared" /\ link[c] # "write"
                 /\ link[d] = "none" <=> link'[d] = "none"
<1> USE DEF IInv, EndSession
<1>1. CASE link[c] = "write"
  <2>1. writer = c /\ \A d \in Calls : d # c => link[d] # "write"
    BY <1>1 DEF LockInv
  <2>2. link' = [LinksCut EXCEPT ![c] = "none"] /\ writer' = leaves /\ live' = saved
    BY <1>1
  <2>3. LinksCut \in [Calls -> {"none", "write", "shared", "gone"}]
    BY DEF LinksCut, TypeOK
  <2>4. \A d \in Calls : d # c =>
            link'[d] = IF link[d] = "shared" THEN "gone" ELSE link[d]
    BY <2>2, <2>3 DEF LinksCut
  <2>5. QED
    BY <1>1, <2>1, <2>2, <2>3, <2>4 DEF TypeOK
<1>2. CASE link[c] # "write"
  BY <1>2 DEF TypeOK
<1>3. QED
  BY <1>1, <1>2

\* Who has the lock when a session has ended.
LEMMA EndSessionLocks ==
    ASSUME SettingsAssumption, IInv, NEW c \in Calls,
           NEW leaves \in {Nobody, Abandoned}, EndSession(c, leaves),
           pc' = [pc EXCEPT ![c] = "ended"], UNCHANGED <<state, saved, shares>>
    PROVE  LockInv'
<1> USE DEF IInv
<1>1. pc'[c] = "ended" /\ \A d \in Calls : d # c => pc'[d] = pc[d]
  BY DEF TypeOK
<1>2. \A d \in Calls : d \notin {Nobody, Vm, Abandoned}
  BY DEF SettingsAssumption
<1>3. CASE link[c] = "write"
  <2>1. writer = c /\ writer' = leaves /\ live' = saved /\ link'[c] = "none"
    BY <1>3, EndSessionFacts DEF LockInv
  <2>2. \A d \in Calls : link'[d] \notin {"write", "shared"}
    BY <1>3, <2>1, EndSessionFacts DEF LockInv
  <2>3. state \notin Online
    BY <1>2, <2>1 DEF LockInv
  <2>4. \A d \in Calls : link'[d] # "none" => pc'[d] \in {"edit", "unlock"}
    BY <1>1, <2>1, EndSessionFacts DEF LockInv
  <2>5. QED
    BY <1>2, <2>1, <2>2, <2>3, <2>4 DEF LockInv, SettingsAssumption
<1>4. CASE link[c] # "write"
  <2>1. writer' = writer /\ live' = live /\ link'[c] = "none" /\ writer # c
    BY <1>4, EndSessionFacts DEF LockInv
  <2>2. \A d \in Calls : d # c =>
            /\ link'[d] = "write" <=> link[d] = "write"
            /\ link'[d] = "shared" => link[d] = "shared"
            /\ link'[d] # "none" => link[d] # "none"
    BY EndSessionFacts
  <2>3. QED
    BY <1>1, <2>1, <2>2 DEF LockInv
<1>5. QED
  BY <1>3, <1>4

\* What the file and the copy have of each call when a session has ended.
LEMMA EndSessionEdits ==
    ASSUME SettingsAssumption, IInv, NEW c \in Calls,
           NEW leaves \in {Nobody, Abandoned}, EndSession(c, leaves),
           UNCHANGED <<saved, history>>
    PROVE  EditInv' /\ AllOrNothing'
<1> USE DEF IInv, history
<1>1. AllOrNothing'
  BY DEF AllOrNothing
<1>2. ASSUME NEW d \in Calls, Linked(d)' \/ d \in kept, NEW a \in made[d]
      PROVE  live'[a] \notin earlier[d] \cup {Before}
  <2>1. CASE link[c] = "write"
    <3>1. live' = saved /\ ~Linked(d)'
      BY <2>1, EndSessionFacts DEF Linked, LockInv
    <3>2. QED
      BY <1>2, <3>1 DEF EditInv
  <2>2. CASE link[c] # "write"
    <3>1. live' = live /\ (Linked(d)' => Linked(d))
      BY <2>2, EndSessionFacts DEF Linked
    <3>2. QED
      BY <1>2, <3>1 DEF EditInv
  <2>3. QED
    BY <2>1, <2>2
<1>3. ASSUME NEW d \in Calls \ (kept \cup shares), NEW a \in Attributes, live'[a] = d
      PROVE  link'[d] = "write"
  <2>1. saved[a] # d
    BY <1>3 DEF AllOrNothing
  <2>2. live' = live /\ link[c] # "write"
    BY <1>3, <2>1, EndSessionFacts
  <2>3. link[d] = "write"
    BY <1>3, <2>2 DEF EditInv
  <2>4. QED
    BY <2>2, <2>3, EndSessionFacts
<1>4. QED
  BY <1>1, <1>2, <1>3 DEF EditInv

LEMMA LeaveKeepsInv ==
    ASSUME SettingsAssumption, IInv, NEW c \in Calls, up,
           pc[c] \in {"called", "lock", "edit", "unlock"},
           NEW r \in {"true", "false", "fell", "threw"}, Leave(c, r),
           r = "true" => pc[c] = "called" /\ EditsNothing(c),
           link[c] = "write" =>
               r \in {"fell", "threw"} \/ (r = "false" /\ Does(c).catches = "edits")
    PROVE  IInv'
<1> USE DEF IInv, Leave, history
<1>1. TypeOK'
  BY EndSessionFacts DEF TypeOK
<1>2. LockInv'
  BY EndSessionLocks
<1>3. EditInv' /\ AllOrNothing'
  BY EndSessionEdits
<1>4. /\ pc'[c] = "ended" /\ result'[c] = r
      /\ \A d \in Calls : d # c => pc'[d] = pc[d] /\ result'[d] = result[d]
  BY DEF TypeOK
<1>5. CallInv'
  <2>1. \A d \in Calls : pc'[d] \in {"edit", "unlock"} => link'[d] # "none"
    BY <1>4, EndSessionFacts DEF CallInv
  <2>2. QED
    BY <1>4, <2>1 DEF CallInv, EditsNothing, Does
<1>6. TrueMeansSaved'
  <2>1. ASSUME r = "true"
        PROVE  made[c] = {} /\ todo[c] = <<>> /\ <<>> \in Does(c).edits
    BY <2>1 DEF CallInv, EditsNothing
  <2>2. QED
    BY <1>4, <2>1, NothingIsSet DEF TrueMeansSaved, Ended, Does
<1>7. LockLeftByFailure'
  <2>1. CASE writer' = writer
    BY <1>4, <2>1 DEF LockLeftByFailure, Does
  <2>2. CASE writer' # writer
    <3>1. r \in {"fell", "threw"} \/ (r = "false" /\ Does(c).catches = "edits")
      BY <2>2, EndSessionFacts
    <3>2. QED
      BY <1>4, <3>1 DEF LockLeftByFailure, Does
  <2>3. QED
    BY <2>1, <2>2
<1>8. CourseInv'
  <2>1. OnCourse(c)'
    <3>1. ASSUME r = "true"
          PROVE  made[c] = {} /\ todo[c] = <<>> /\ <<>> \in Does(c).edits
      BY <3>1 DEF CallInv, EditsNothing
    <3>2. QED
      BY <1>4, <3>1, NothingIsSet DEF OnCourse, Does
  <2>2. \A d \in Calls : d # c => OnCourse(d)'
    BY <1>4, StaysOnCourse DEF CourseInv
  <2>3. QED
    BY <2>1, <2>2 DEF CourseInv
<1>9. QED
  BY <1>1, <1>2, <1>3, <1>5, <1>6, <1>7, <1>8

LEMMA ThrowKeepsInv ==
    ASSUME SettingsAssumption, IInv, NEW c \in Calls, up,
           pc[c] \in {"called", "lock", "edit", "unlock"}, Throw(c)
    PROVE  IInv'
<1>1. Leave(c, "fell") \/ Leave(c, "threw")
  BY DEF Throw
<1>2. CASE Leave(c, "fell")
  BY <1>2, LeaveKeepsInv
<1>3. CASE Leave(c, "threw")
  BY <1>3, LeaveKeepsInv
<1>4. QED
  BY <1>1, <1>2, <1>3

LEMMA RefusalKeepsInv ==
    ASSUME SettingsAssumption, IInv, NEW c \in Calls,
           RefuseArgument(c) \/ RefuseState(c) \/ QuitLocked(c)
    PROVE  IInv'
<1>1. pc[c] = "called" => made[c] = {} /\ link[c] = "none"
  BY DEF IInv, CallInv, LockInv
<1>2. CASE RefuseArgument(c)
  BY <1>1, <1>2, LeaveKeepsInv DEF RefuseArgument
<1>3. CASE RefuseState(c)
  <2>1. Does(c).other = "false" \/ (Does(c).other = "true" /\ EditsNothing(c))
    BY DoesFacts DEF Sound, EditsNothing
  <2>2. QED
    BY <1>1, <1>3, <2>1, LeaveKeepsInv DEF RefuseState
<1>4. CASE QuitLocked(c)
  <2>1. link[c] = "write" => Does(c).catches = "edits"
    <3>1. link[c] = "write" => writer = c /\ writer # Vm
      BY DEF IInv, LockInv, SettingsAssumption
    <3>2. op[c] = "getRdpInfo" => todo[c] = <<>>
      BY DoesFacts DEF IInv, CallInv, EditsNothing, Sound
    <3>3. QED
      BY <1>4, <3>1, <3>2, DoesFacts DEF QuitLocked, Sound
  <2>2. QED
    BY <1>4, <2>1, LeaveKeepsInv DEF QuitLocked
<1>5. QED
  BY <1>2, <1>3, <1>4

LEMMA FailureKeepsInv ==
    ASSUME SettingsAssumption, IInv, NEW c \in Calls,
           FindFails(c) \/ LockFails(c) \/ SetFails(c) \/ SaveFails(c) \/ UnlockFails(c)
    PROVE  IInv'
<1>1. CASE FindFails(c)
  BY <1>1, ThrowKeepsInv DEF FindFails
<1>2. CASE LockFails(c)
  BY <1>2, ThrowKeepsInv DEF LockFails
<1>3. CASE SetFails(c)
  <2>1. CASE Does(c).catches = "edits" /\ Leave(c, "false")
    BY <1>3, <2>1, LeaveKeepsInv DEF SetFails
  <2>2. CASE Throw(c)
    BY <1>3, <2>2, ThrowKeepsInv DEF SetFails
  <2>3. QED
    BY <1>3, <2>1, <2>2 DEF SetFails
<1>4. CASE SaveFails(c)
  BY <1>4, ThrowKeepsInv DEF SaveFails
<1>5. CASE UnlockFails(c)
  BY <1>5, ThrowKeepsInv DEF UnlockFails
<1>6. QED
  BY <1>1, <1>2, <1>3, <1>4, <1>5

LEMMA QuitUnlockedKeepsInv ==
    ASSUME SettingsAssumption, IInv, NEW c \in Calls, QuitUnlocked(c)
    PROVE  IInv'
<1> USE DEF IInv, QuitUnlocked, vbox, history
<1>1. TypeOK'
  BY DEF TypeOK
<1>2. pc[c] = "edit" /\ pc'[c] = "unlock" /\ \A d \in Calls : d # c =>
          pc'[d] = pc[d] /\ result'[d] = result[d]
  BY DEF TypeOK
<1>3. LockInv'
  BY <1>2 DEF LockInv
<1>4. CallInv'
  BY <1>2 DEF CallInv, EditsNothing, Does
<1>5. EditInv' /\ AllOrNothing'
  BY DEF EditInv, AllOrNothing, Linked
<1>6. TrueMeansSaved'
  BY <1>2 DEF TrueMeansSaved, Ended, Does
<1>7. LockLeftByFailure'
  BY <1>2 DEF LockLeftByFailure, Does
<1>8. CourseInv'
  <2>1. result'[c] = "false"
    BY DEF TypeOK
  <2>2. QED
    BY <1>2, <2>1, StaysOnCourse DEF OnCourse, CourseInv
<1>9. QED
  BY <1>1, <1>3, <1>4, <1>5, <1>6, <1>7, <1>8

LEMMA SetAttributeKeepsInv ==
    ASSUME SettingsAssumption, IInv, NEW c \in Calls, SetAttribute(c)
    PROVE  IInv'
<1> USE DEF IInv, SetAttribute
<1> DEFINE a == Head(todo[c])
<1>1. todo[c] \in Seq(Attributes) /\ todo[c] # <<>>
  BY DEF TypeOK
<1>2. a \in Attributes /\ Tail(todo[c]) \in Seq(Attributes)
  BY <1>1
<1>3. TypeOK'
  BY <1>2 DEF TypeOK
<1>4. /\ live'[a] = c /\ made'[c] = made[c] \cup {a}
      /\ \A b \in Attributes : b # a => live'[b] = live[b]
      /\ \A d \in Calls : d # c => made'[d] = made[d] /\ todo'[d] = todo[d]
  BY <1>2 DEF TypeOK
<1>5. writer \notin {Nobody, Abandoned}
  BY DEF LockInv, Linked, SettingsAssumption
<1>6. LockInv'
  BY <1>5 DEF LockInv
<1>7. ~EditsNothing(c)
  BY <1>1 DEF CallInv
<1>8. CallInv'
  BY <1>4, <1>7 DEF CallInv, EditsNothing, Does
<1>9. \A d \in Calls : c \notin earlier[d] \cup {Before}
  BY DEF CallInv, SettingsAssumption
<1>10. EditInv'
  <2>1. ASSUME NEW d \in Calls, Linked(d)' \/ d \in kept', NEW b \in made'[d]
        PROVE  live'[b] \notin earlier'[d] \cup {Before}
    <3>1. CASE b = a
      BY <1>4, <1>9, <3>1
    <3>2. CASE b # a
      BY <1>4, <2>1, <3>2 DEF EditInv, Linked, TypeOK
    <3>3. QED
      BY <3>1, <3>2
  <2>2. ASSUME NEW d \in kept', NEW b \in made'[d]
        PROVE  saved'[b] \notin earlier'[d] \cup {Before}
    BY <1>4, <2>2 DEF EditInv, CallInv
  <2>3. ASSUME NEW d \in Calls \ (kept' \cup shares'), NEW b \in Attributes, live'[b] = d
        PROVE  link'[d] = "write"
    <3>1. CASE d = c
      BY <2>3, <3>1 DEF LockInv, Linked
    <3>2. CASE d # c
      BY <1>4, <2>3, <3>2 DEF EditInv
    <3>3. QED
      BY <3>1, <3>2
  <2>4. QED
    BY <2>1, <2>2, <2>3 DEF EditInv
<1>11. TrueMeansSaved'
  BY <1>4 DEF TrueMeansSaved, Ended, Does
<1>12. AllOrNothing' /\ LockLeftByFailure'
  BY DEF AllOrNothing, LockLeftByFailure, Does
<1>13. CourseInv'
  <2>1. OnCourse(c)'
    <3>1. AttributesOf(todo[c]) = AttributesOf(Tail(todo[c])) \cup {a}
      BY <1>1, PopMembers DEF Members, AttributesOf
    <3>2. made'[c] \cup AttributesOf(todo'[c]) = made[c] \cup AttributesOf(todo[c])
      BY <1>4, <3>1 DEF TypeOK
    <3>3. QED
      BY <3>2 DEF CourseInv, OnCourse, Does
  <2>2. \A d \in Calls : d # c => OnCourse(d)'
    BY <1>4, StaysOnCourse DEF CourseInv
  <2>3. QED
    BY <2>1, <2>2 DEF CourseInv
<1>14. QED
  BY <1>3, <1>6, <1>8, <1>10, <1>11, <1>12, <1>13

LEMMA IgnoreErrorKeepsInv ==
    ASSUME SettingsAssumption, IInv, NEW c \in Calls, IgnoreError(c)
    PROVE  IInv'
<1> USE DEF IInv, IgnoreError, vbox, history
<1>1. todo'[c] = <<>> /\ \A d \in Calls : d # c => todo'[d] = todo[d]
  BY DEF TypeOK
<1>2. TypeOK' /\ LockInv'
  BY DEF TypeOK, LockInv
<1>3. CallInv'
  BY <1>1 DEF CallInv, EditsNothing, Does
<1>4. CourseInv'
  BY <1>1, StaysOnCourse DEF CourseInv, OnCourse
<1>5. EditInv' /\ AllOrNothing'
  BY DEF EditInv, AllOrNothing, Linked
<1>6. TrueMeansSaved' /\ LockLeftByFailure'
  BY DEF TrueMeansSaved, LockLeftByFailure, Ended, Does
<1>7. QED
  BY <1>2, <1>3, <1>4, <1>5, <1>6

LEMMA SaveSettingsKeepsInv ==
    ASSUME SettingsAssumption, IInv, NEW c \in Calls, SaveSettings(c)
    PROVE  IInv'
<1> USE DEF IInv, SaveSettings
<1>1. TypeOK'
  BY DEF TypeOK
<1>2. pc'[c] = "unlock" /\ \A d \in Calls : d # c => pc'[d] = pc[d]
  BY DEF TypeOK
<1>3. LockInv'
  BY <1>2 DEF LockInv
<1>4. CallInv'
  BY <1>2 DEF CallInv, EditsNothing, Does
<1>5. EditInv'
  <2>1. \A d \in kept' : \A a \in made[d] : live[a] \notin earlier[d] \cup {Before}
    BY DEF EditInv, TypeOK
  <2>2. \A d \in Calls \ (kept' \cup shares) : \A a \in Attributes :
            live[a] = d => link[d] = "write"
    BY DEF EditInv
  <2>3. QED
    BY <2>1, <2>2 DEF EditInv, Linked
<1>6. AllOrNothing'
  <2>1. ASSUME NEW d \in Calls \ (kept' \cup shares), NEW a \in Attributes, live[a] = d
        PROVE  FALSE
    <3>1. d # c /\ link[d] = "write" /\ writer = d
      BY <2>1 DEF EditInv, LockInv
    <3>2. link[c] = "shared"
      BY <3>1 DEF LockInv, Linked
    <3>3. d \in shares
      BY <3>1, <3>2 DEF LockInv
    <3>4. QED
      BY <2>1, <3>3
  <2>2. QED
    BY <2>1 DEF AllOrNothing
<1>7. TrueMeansSaved'
  <2>1. ASSUME NEW d \in Calls, Ended(d)', result[d] = "true", NEW a \in made[d]
        PROVE  live[a] \notin earlier[d] \cup {Before}
    <3>1. d \in kept
      BY <1>2, <2>1 DEF CallInv, Ended
    <3>2. QED
      BY <3>1 DEF EditInv, TypeOK
  <2>2. QED
    BY <1>2, <2>1 DEF TrueMeansSaved, Ended, Does
<1>8. LockLeftByFailure'
  BY <1>2 DEF LockLeftByFailure, Does
<1>9. CourseInv'
  BY <1>2, StaysOnCourse DEF CourseInv, OnCourse, Does
<1>10. QED
  BY <1>1, <1>3, <1>4, <1>5, <1>6, <1>7, <1>8, <1>9

LEMMA ReadInfoKeepsInv ==
    ASSUME SettingsAssumption, IInv, NEW c \in Calls, ReadInfo(c) \/ NullConsole(c) \/ NullErrorInfo(c)
    PROVE  IInv'
<1> USE DEF IInv, vbox, calls, history
<1>1. CASE ReadInfo(c)
  <2> USE <1>1 DEF ReadInfo
  <2>1. TypeOK'
    BY DEF TypeOK
  <2>2. pc'[c] = "unlock" /\ \A d \in Calls : d # c => pc'[d] = pc[d]
    BY DEF TypeOK
  <2>3. LockInv' /\ CallInv'
    <3>1. made[c] = {}
      BY DEF CallInv
    <3>2. QED
      BY <2>2, <3>1 DEF LockInv, CallInv, EditsNothing, Does
  <2>4. EditInv' /\ AllOrNothing'
    BY DEF EditInv, AllOrNothing, Linked
  <2>5. TrueMeansSaved' /\ LockLeftByFailure'
    BY <2>2 DEF TrueMeansSaved, LockLeftByFailure, Ended, Does
  <2>6. CourseInv'
    BY <2>2, StaysOnCourse DEF CourseInv, OnCourse, CallInv, Does
  <2>7. QED
    BY <2>1, <2>3, <2>4, <2>5, <2>6
<1>2. CASE NullConsole(c) \/ NullErrorInfo(c)
  <2> USE <1>2 DEF NullConsole, NullErrorInfo
  <2>1. TypeOK' /\ LockInv' /\ CallInv' /\ CourseInv'
    <3>1. CourseInv'
      BY StaysOnCourse DEF CourseInv
    <3>2. TypeOK' /\ LockInv'
      BY DEF TypeOK, LockInv
    <3>3. CallInv'
      BY DEF CallInv, EditsNothing, Does
    <3>4. QED
      BY <3>1, <3>2, <3>3
  <2>2. EditInv' /\ AllOrNothing'
    BY DEF EditInv, AllOrNothing, Linked
  <2>3. TrueMeansSaved' /\ LockLeftByFailure'
    BY DEF TrueMeansSaved, LockLeftByFailure, Ended, Does
  <2>4. QED
    BY <2>1, <2>2, <2>3
<1>3. QED
  BY <1>1, <1>2

LEMMA UnlockMachineKeepsInv ==
    ASSUME SettingsAssumption, IInv, NEW c \in Calls, UnlockMachine(c)
    PROVE  IInv'
<1> USE DEF IInv, UnlockMachine, history
<1>1. TypeOK'
  BY EndSessionFacts DEF TypeOK
<1>2. LockInv'
  BY EndSessionLocks
<1>3. EditInv' /\ AllOrNothing'
  BY EndSessionEdits DEF history
<1>4. pc[c] = "unlock" /\ pc'[c] = "ended" /\ \A d \in Calls : d # c => pc'[d] = pc[d]
  BY DEF TypeOK
<1>5. CallInv'
  <2>1. \A d \in Calls : pc'[d] \in {"edit", "unlock"} => link'[d] # "none"
    BY <1>4, EndSessionFacts DEF CallInv
  <2>2. QED
    BY <1>4, <2>1 DEF CallInv, EditsNothing, Does
<1>6. TrueMeansSaved'
  <2>1. \A a \in made[c] : saved[a] \notin earlier[c] \cup {Before}
    BY <1>4 DEF CallInv, EditInv
  <2>2. ASSUME result[c] = "true", op[c] # "addDiskToVm"
        PROVE  \E s \in Does(c).edits : made[c] = AttributesOf(s)
    BY <1>4, <2>2, NothingIsSet DEF CourseInv, OnCourse
  <2>3. QED
    BY <1>4, <2>1, <2>2 DEF TrueMeansSaved, Ended, Does
<1>7. LockLeftByFailure'
  <2>1. writer' = Abandoned => writer = Abandoned
    BY EndSessionFacts DEF SettingsAssumption
  <2>2. QED
    BY <1>4, <2>1 DEF LockLeftByFailure, Does
<1>8. CourseInv'
  BY <1>4, StaysOnCourse DEF CourseInv, OnCourse, Does
<1>9. QED
  BY <1>1, <1>2, <1>3, <1>5, <1>6, <1>7, <1>8

-----------------------------------------------------------------------------
(* Steps of VirtualBox.                                                    *)

LEMMA OutsideKeepsInv ==
    ASSUME SettingsAssumption, IInv, Launched \/ Runs \/ Reap
    PROVE  IInv'
<1> USE DEF IInv, calls, history
<1>1. state' \in States /\ writer' \in {writer, Nobody, Vm}
  BY DEF Launched, Runs, Reap, States, Online, Resting
<1>2. UNCHANGED <<live, saved, pc, op, todo, link, result, up, made, kept, shares, earlier>>
  BY DEF Launched, Runs, Reap
<1>3. TypeOK'
  BY <1>1, <1>2 DEF TypeOK
<1>4. LockInv'
  <2>1. \A d \in Calls : d \notin {Nobody, Vm, Abandoned}
    BY DEF SettingsAssumption
  <2>2. CASE Launched
    BY <1>2, <2>1, <2>2 DEF Launched, LockInv, SettingsAssumption, Online
  <2>3. CASE Runs
    BY <1>2, <2>3 DEF Runs, LockInv
  <2>4. CASE Reap
    <3>1. state' \notin Online
      BY <2>4 DEF Reap, Online
    <3>2. QED
      BY <1>2, <2>1, <2>4, <3>1 DEF Reap, LockInv, SettingsAssumption
  <2>5. QED
    BY <2>2, <2>3, <2>4
<1>5. CallInv' /\ AllOrNothing'
  BY <1>2 DEF CallInv, AllOrNothing, EditsNothing, Does
<1>6. EditInv'
  BY <1>2 DEF EditInv, Linked
<1>7. TrueMeansSaved'
  BY <1>2 DEF TrueMeansSaved, Ended, Does
<1>8. LockLeftByFailure'
  BY <1>1, <1>2 DEF LockLeftByFailure, Does, SettingsAssumption
<1>9. CourseInv'
  BY <1>2, StaysOnCourse DEF CourseInv
<1>10. QED
  BY <1>3, <1>4, <1>5, <1>6, <1>7, <1>8, <1>9

LEMMA ProcessEndsKeepsInv ==
    ASSUME SettingsAssumption, IInv, ProcessEnds
    PROVE  IInv'
<1> USE DEF IInv, ProcessEnds, history
<1>1. state' \in States /\ state' \notin Online
  BY DEF States, Resting, Online
<1>2. TypeOK'
  BY <1>1 DEF TypeOK, LinksCut
<1>3. /\ writer = Vm /\ writer' = Nobody
      /\ \A d \in Calls : /\ link[d] # "write" /\ link'[d] \notin {"write", "shared"}
                          /\ link'[d] = "none" <=> link[d] = "none"
  BY DEF LockInv, LinksCut, TypeOK, SettingsAssumption
<1>4. LockInv'
  BY <1>1, <1>3 DEF LockInv, SettingsAssumption
<1>5. CallInv' /\ AllOrNothing'
  BY <1>3 DEF CallInv, AllOrNothing, EditsNothing, Does
<1>6. EditInv'
  BY <1>3 DEF EditInv, Linked, AllOrNothing
<1>7. TrueMeansSaved'
  BY DEF TrueMeansSaved, Ended, Does
<1>8. LockLeftByFailure'
  BY DEF LockLeftByFailure, SettingsAssumption
<1>9. CourseInv'
  BY StaysOnCourse DEF CourseInv
<1>10. QED
  BY <1>2, <1>4, <1>5, <1>6, <1>7, <1>8, <1>9

-----------------------------------------------------------------------------
(* The theorems.                                                           *)

LEMMA InitInv ==
    ASSUME SettingsAssumption, Init
    PROVE  IInv
<1> USE DEF Init
<1>1. TypeOK
  BY DEF TypeOK, States, Resting, Online, Operation
<1>2. LockInv
  BY DEF LockInv, SettingsAssumption, Online
<1>3. CallInv /\ EditInv /\ CourseInv
  BY DEF CallInv, EditInv, CourseInv, OnCourse, Linked, SettingsAssumption
<1>4. TrueMeansSaved /\ AllOrNothing
  BY DEF TrueMeansSaved, AllOrNothing, Ended, SettingsAssumption
<1>5. LockLeftByFailure
  BY DEF LockLeftByFailure, SettingsAssumption
<1>6. QED
  BY <1>1, <1>2, <1>3, <1>4, <1>5 DEF IInv

LEMMA StepKeepsInv ==
    ASSUME SettingsAssumption, IInv, NEW c \in Calls, Step(c)
    PROVE  IInv'
<1>1. CASE RefuseArgument(c) \/ RefuseState(c) \/ QuitLocked(c)
  BY <1>1, RefusalKeepsInv
<1>2. CASE FindFails(c) \/ LockFails(c) \/ SetFails(c) \/ SaveFails(c) \/ UnlockFails(c)
  BY <1>2, FailureKeepsInv
<1>3. CASE GoOn(c)
  BY <1>3, GoOnKeepsInv
<1>4. CASE LockMachine(c)
  BY <1>4, LockMachineKeepsInv
<1>5. CASE QuitUnlocked(c)
  BY <1>5, QuitUnlockedKeepsInv
<1>6. CASE SetAttribute(c)
  BY <1>6, SetAttributeKeepsInv
<1>7. CASE SaveSettings(c)
  BY <1>7, SaveSettingsKeepsInv
<1>8. CASE ReadInfo(c) \/ NullConsole(c) \/ NullErrorInfo(c)
  BY <1>8, ReadInfoKeepsInv
<1>9. CASE UnlockMachine(c)
  BY <1>9, UnlockMachineKeepsInv
<1>10. CASE IgnoreError(c)
  BY <1>10, IgnoreErrorKeepsInv
<1>11. QED
  BY <1>1, <1>2, <1>3, <1>4, <1>5, <1>6, <1>7, <1>8, <1>9, <1>10 DEF Step

LEMMA StutterKeepsInv ==
    ASSUME IInv, UNCHANGED vars
    PROVE  IInv'
<1> USE DEF IInv, vars
<1>1. TypeOK' /\ LockInv' /\ CallInv' /\ CourseInv'
  BY StaysOnCourse DEF TypeOK, LockInv, CallInv, CourseInv, EditsNothing, Does
<1>2. EditInv' /\ TrueMeansSaved' /\ AllOrNothing' /\ LockLeftByFailure'
  BY DEF EditInv, TrueMeansSaved, AllOrNothing, LockLeftByFailure, Linked, Ended, Does
<1>3. QED
  BY <1>1, <1>2

\* The inductive invariant: sessions, locks and edits agree with how far each
\* call has got, for every set of calls and of operations offered.
THEOREM Invariance == Spec => []IInv
<1>1. Init => IInv
  BY InitInv, SettingsAssumption
<1>2. IInv /\ [Next]_vars => IInv'
  <2> SUFFICES ASSUME IInv, [Next]_vars
               PROVE  IInv'
    OBVIOUS
  <2>1. CASE \E c \in Calls, x \in Offered : Call(c, x)
    BY <2>1, CallKeepsInv, SettingsAssumption
  <2>2. CASE \E c \in Calls : Step(c)
    BY <2>2, StepKeepsInv, SettingsAssumption
  <2>3. CASE Launched \/ Runs \/ Reap
    BY <2>3, OutsideKeepsInv, SettingsAssumption
  <2>4. CASE ProcessEnds
    BY <2>4, ProcessEndsKeepsInv, SettingsAssumption
  <2>5. CASE UNCHANGED vars
    BY <2>5, StutterKeepsInv
  <2>6. QED
    BY <2>1, <2>2, <2>3, <2>4, <2>5 DEF Next
<1>3. QED
  BY <1>1, <1>2, PTL DEF Spec

\* The types of the variables of VmSettings.
THEOREM TypeCorrectness == Spec => []TypeOK
<1>1. IInv => TypeOK
  BY DEF IInv
<1>2. QED
  BY <1>1, Invariance, PTL

\* A call that answers true has its settings in the file, and no later save or
\* end of a session brings back what they replaced.
THEOREM TrueAnswersAreSaved == Spec => []TrueMeansSaved
<1>1. IInv => TrueMeansSaved
  BY DEF IInv
<1>2. QED
  BY <1>1, Invariance, PTL

\* A call with a session of its own saves all of its edit or nothing.
THEOREM EditsAreAtomic == Spec => []AllOrNothing
<1>1. IInv => AllOrNothing
  BY DEF IInv
<1>2. QED
  BY <1>1, Invariance, PTL

\* Only an exception, or a failed disk operation, leaves the machine locked.
THEOREM LocksAreLeftByFailures == Spec => []LockLeftByFailure
<1>1. IInv => LockLeftByFailure
  BY DEF IInv
<1>2. QED
  BY <1>1, Invariance, PTL

-----------------------------------------------------------------------------
(* The sessions of the calls keep to what SessionLock promises.            *)

\* Whatever a call still has locked when it ends, it gives back or abandons.
LEMMA EndOfCall ==
    ASSUME IInv, NEW c \in Calls, NEW leaves \in {Nobody, Abandoned},
           pc[c] \notin {"idle", "ended"}, pc' = [pc EXCEPT ![c] = "ended"],
           EndSession(c, leaves)
    PROVE  MachineLock!Ends(c)
<1> USE DEF IInv, TypeOK, LockInv
<1>1. c \in Calling /\ Calling' = Calling \ {c}
  BY DEF Calling
<1>2. CASE link[c] = "write"
  <2>1. writer = c /\ writer' = leaves
    BY <1>2 DEF EndSession
  <2>2. Sharing' = {}
    BY <1>2 DEF Sharing, EndSession, LinksCut
  <2>3. QED
    BY <1>1, <2>1, <2>2 DEF MachineLock!Ends, MachineLock!Passes
<1>3. CASE link[c] # "write"
  <2>1. writer # c /\ writer' = writer
    BY <1>3 DEF EndSession
  <2>2. Sharing' = Sharing \ {c}
    BY <1>3 DEF Sharing, EndSession
  <2>3. QED
    BY <1>1, <2>1, <2>2 DEF MachineLock!Ends
<1>4. QED
  BY <1>2, <1>3

LEMMA LeaveEnds ==
    ASSUME IInv, NEW c \in Calls, pc[c] \notin {"idle", "ended"}, NEW r, Leave(c, r)
    PROVE  MachineLock!Ends(c)
  BY EndOfCall DEF Leave

\* Each step of a call is one of its session, or is not seen by the lock.
LEMMA StepKeepsToLock ==
    ASSUME IInv, NEW c \in Calls, Step(c)
    PROVE  [MachineLock!LockNext]_(MachineLock!lockVars)
<1> USE DEF IInv, TypeOK
<1>1. CASE GoOn(c) \/ QuitUnlocked(c) \/ SetAttribute(c) \/ SaveSettings(c) \/ ReadInfo(c)
           \/ NullConsole(c) \/ IgnoreError(c) \/ NullErrorInfo(c)
  <2>1. UNCHANGED <<writer, link>> /\ \A d \in Calls : pc'[d] \in {"idle", "ended"}
                                                   <=> pc[d] \in {"idle", "ended"}
    BY <1>1 DEF GoOn, QuitUnlocked, SetAttribute, SaveSettings, ReadInfo, NullConsole,
                IgnoreError, NullErrorInfo, vbox, calls
  <2>2. QED
    BY <2>1 DEF MachineLock!lockVars, Calling, Sharing
<1>2. CASE LockMachine(c)
  <2>1. c \in Calling /\ Calling' = Calling
    BY <1>2 DEF LockMachine, Calling
  <2>2. CASE writer = Nobody /\ writer' = c /\ link' = [link EXCEPT ![c] = "write"]
    <3>1. link[c] # "shared"
      BY <2>2 DEF LockInv
    <3>2. Sharing' = Sharing
      BY <2>2, <3>1 DEF Sharing
    <3>3. QED
      BY <2>1, <2>2, <3>2 DEF MachineLock!LockNext, MachineLock!Locks
  <2>3. CASE /\ writer \in Calls \cup {Vm} /\ UNCHANGED writer
             /\ link' = [link EXCEPT ![c] = "shared"]
    <3>1. Sharing' = Sharing \cup {c}
      BY <2>3 DEF Sharing
    <3>2. QED
      BY <2>1, <2>3, <3>1 DEF MachineLock!LockNext, MachineLock!LinksTo
  <2>4. QED
    BY <1>2, <2>2, <2>3 DEF LockMachine
<1>3. CASE UnlockMachine(c)
  BY <1>3, EndOfCall DEF UnlockMachine, MachineLock!LockNext
<1>4. CASE RefuseArgument(c) \/ FindFails(c) \/ RefuseState(c) \/ LockFails(c)
           \/ QuitLocked(c) \/ SetFails(c) \/ SaveFails(c) \/ UnlockFails(c)
  <2>1. pc[c] \notin {"idle", "ended"} /\ \E r : Leave(c, r)
    BY <1>4 DEF RefuseArgument, FindFails, RefuseState, LockFails, QuitLocked, SetFails,
                SaveFails, UnlockFails, Throw
  <2>2. QED
    BY <2>1, LeaveEnds DEF MachineLock!LockNext
<1>5. QED
  BY <1>1, <1>2, <1>3, <1>4 DEF Step

\* The 24 operations, however they end and whatever they share, take the lock of
\* the machine only from nobody, link only to a session that has it, and keep
\* neither when they are over.
THEOREM SettingsImplementSessionLock == Spec => ImplementsSessionLock
<1>1. Init => MachineLock!LockInit
  BY DEF Init, MachineLock!LockInit, Calling, Sharing
<1>2. IInv /\ [Next]_vars => [MachineLock!LockNext]_(MachineLock!lockVars)
  <2> SUFFICES ASSUME IInv, [Next]_vars
               PROVE  [MachineLock!LockNext]_(MachineLock!lockVars)
    OBVIOUS
  <2> USE DEF MachineLock!LockNext
  <2>1. ASSUME NEW c \in Calls, NEW x \in Offered, Call(c, x)
        PROVE  MachineLock!LockNext
    <3>1. c \notin Calling /\ Calling' = Calling \cup {c}
      BY <2>1 DEF Call, Calling, IInv, TypeOK
    <3>2. UNCHANGED <<writer, Sharing>>
      BY <2>1 DEF Call, vbox, Sharing
    <3>3. QED
      BY <3>1, <3>2 DEF MachineLock!Begins
  <2>2. CASE \E c \in Calls : Step(c)
    BY <2>2, StepKeepsToLock
  <2>3. CASE Launched
    <3>1. Sharing = {}
      BY <2>3 DEF Launched, Sharing, IInv, LockInv
    <3>2. UNCHANGED <<Calling, Sharing>>
      BY <2>3 DEF Launched, calls, Calling, Sharing
    <3>3. QED
      BY <2>3, <3>1, <3>2 DEF Launched, MachineLock!Launches
  <2>4. CASE ProcessEnds
    <3>1. writer = Vm /\ writer' = Nobody
      BY <2>4 DEF ProcessEnds, IInv, LockInv
    <3>2. Sharing' = {} /\ Calling' = Calling
      BY <2>4 DEF ProcessEnds, LinksCut, Sharing, Calling
    <3>3. QED
      BY <3>1, <3>2 DEF MachineLock!ProcessEnds, MachineLock!Passes
  <2>5. CASE Reap
    <3>1. writer = Abandoned /\ writer' = Nobody
      BY <2>5 DEF Reap
    <3>2. Sharing = {} /\ Sharing' = Sharing /\ Calling' = Calling
      BY <2>5 DEF Reap, calls, Sharing, Calling, IInv, LockInv
    <3>3. QED
      BY <3>1, <3>2 DEF MachineLock!Reaps, MachineLock!Passes
  <2>6. CASE Runs \/ UNCHANGED vars
    BY <2>6 DEF Runs, vars, calls, MachineLock!lockVars, Sharing, Calling
  <2>7. QED
    BY <2>1, <2>2, <2>3, <2>4, <2>5, <2>6 DEF Next
<1>3. QED
  BY <1>1, <1>2, Invariance, PTL DEF Spec, ImplementsSessionLock, MachineLock!LockSpec

=============================================================================
