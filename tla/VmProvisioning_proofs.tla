----------------------- MODULE VmProvisioning_proofs -----------------------
(***************************************************************************)
(* What holds of machines that come and go for every number of workers,    *)
(* machines, images and requests.  The inductive invariant is IInv of      *)
(* VmProvisioning: who has a machine's lock, who is making it, what is     *)
(* attached to it and who will see to what is not settled yet.             *)
(***************************************************************************)
EXTENDS VmProvisioning, TLAPS

USE DEF history, MetBy

-----------------------------------------------------------------------------
(* Facts about the constants.                                              *)

LEMMA RequestFacts ==
    ASSUME NEW r \in AllRequests
    PROVE  /\ r # Nobody
           /\ r.name \in Names \cup Disks
           /\ r.op # "destroyFloatDiskWithoutAttach" => r.name \in Names
           /\ r.op \in Clones => r.of \in Names
           /\ r.op = "createVMfromISO" => r.of \in Isos
           /\ r.op = "createVMfromSystemdisk" => r.of \in Disks
  BY ProvisioningAssumption DEF AllRequests, Clones

LEMMA SessionFacts ==
    /\ Nobody # Vm /\ Nobody # Abandoned /\ Vm # Abandoned
    /\ Nobody \notin Workers /\ Vm \notin Workers /\ Abandoned \notin Workers
    /\ Nobody \notin Names /\ Nobody \notin Media
    /\ Names \subseteq Media /\ Isos \subseteq Media /\ Disks \subseteq Media
    /\ Names \cap Isos = {} /\ Names \cap Disks = {} /\ Isos \cap Disks = {}
  BY ProvisioningAssumption DEF Media

\* What the requests of busy workers are about.
LEMMA BusyFacts ==
    ASSUME TypeOK, PathInv, NEW w \in Workers, pc[w] # "idle"
    PROVE  /\ req[w] \in AllRequests
           /\ Name(w) \in Names \cup Disks
           /\ req[w].op # "destroyFloatDiskWithoutAttach" => Name(w) \in Names
           /\ Creator(w) \/ Cloner(w) => Name(w) \in Names
           /\ Cloner(w) => Of(w) \in Names
           /\ req[w].op = "createVMfromISO" => Of(w) \in Isos
           /\ req[w].op = "createVMfromSystemdisk" => Of(w) \in Disks
<1>1. req[w] \in AllRequests
  BY DEF TypeOK, PathInv
<1>2. QED
  BY <1>1, RequestFacts DEF Name, Of, Creator, Cloner, Creates, Clones

LEMMA InitInv == Init => IInv
<1> SUFFICES ASSUME Init
             PROVE  IInv
  OBVIOUS
<1> USE SessionFacts DEF Init
<1>1. TypeOK
  BY DEF TypeOK, Resting, Media
<1>2. PathInv /\ CallInv
  BY DEF PathInv, CallInv, Creator, Cloner, Busy, Waiting
<1>3. LockInv /\ MakingInv
  BY DEF LockInv, MakingInv, Creator, Cloner, Busy, Holds
<1>4. MediaInv /\ AttachedExist
  BY DEF MediaInv, AttachedExist, Cloner, Busy
<1>5. FilesInv
  BY DEF FilesInv
<1>6. QED
  BY <1>1, <1>2, <1>3, <1>4, <1>5 DEF IInv

-----------------------------------------------------------------------------
(* A call begins.                                                          *)

LEMMA CallKeepsInv ==
    ASSUME IInv, NEW w \in Workers, NEW r \in Requests, Call(w, r)
    PROVE  IInv'
<1> USE DEF IInv
<1>1. r \in AllRequests /\ r # Nobody
  BY ProvisioningAssumption, RequestFacts
<1>2. /\ UNCHANGED <<registered, files, state, lock, uses, kept, stored, deleting, base,
                     progress, hand, media, up, erred, overtaken, bare>>
      /\ pc[w] = "idle" /\ pc'[w] = "begin" /\ req'[w] = r
      /\ pc' = [pc EXCEPT ![w] = "begin"]
      /\ \A v \in Workers \ {w} : pc'[v] = pc[v] /\ req'[v] = req[v]
  BY DEF Call, TypeOK, machines, images, objects
<1>3. progress[w] = "none" /\ media[w] = {} /\ hand[w] = Nobody
  BY <1>2 DEF CallInv, LockInv, Waiting, Cloner, Busy
<1>4. TypeOK'
  BY <1>1, <1>2 DEF TypeOK, Call, Steps
<1>5. PathInv'
  BY <1>1, <1>2 DEF PathInv, Creator, Cloner, Busy
<1>6. CallInv'
  BY <1>2, <1>3 DEF CallInv, Waiting, Creator, Cloner, Busy, Name, Finished
<1>7. LockInv'
  BY <1>2, <1>3 DEF LockInv, Holds, Creator, Cloner, Busy, Name
<1>8. MakingInv'
  BY <1>2, <1>3 DEF MakingInv, Creator, Busy, Name
<1>9. MediaInv'
  BY <1>2, <1>3 DEF MediaInv, Cloner, Busy, Usable
<1>10. FilesInv'
  BY <1>2, <1>3 DEF FilesInv, Creator, Cloner, Busy, Name, Deletes, Finished
<1>11. AttachedExist'
  BY <1>2 DEF AttachedExist, Usable
<1>12. QED
  BY <1>4, <1>5, <1>6, <1>7, <1>8, <1>9, <1>10, <1>11

-----------------------------------------------------------------------------
(* Steps that only take a call further.                                    *)

\* A disk was created and the call goes on.
StorageGoesOn(w) ==
    StorageWaited(w) /\ At(w, "storage", Creates) /\ progress[w] = "done"

Moves(w) ==
    \/ Begin(w) \/ TakeSnapshot(w) \/ SnapshotTaken(w) \/ CreateMachine(w) \/ CloneTo(w)
    \/ CloneWaited(w) \/ CreateBaseStorage(w) \/ StorageGoesOn(w) \/ DeleteConfig(w)
    \/ Export(w) \/ Import(w)

\* From where to where, with which progress.
Moved(w) ==
    \/ pc[w] = "begin" /\ pc'[w] = "create" /\ Creator(w) /\ progress'[w] = progress[w]
    \/ pc[w] = "begin" /\ pc'[w] = "export" /\ req[w].op = "exportVM"
       /\ progress'[w] = progress[w]
    \/ pc[w] = "takeSnapshot" /\ pc'[w] = "snapshot" /\ Cloner(w) /\ progress'[w] = "running"
    \/ pc[w] = "snapshot" /\ pc'[w] = "unlockSource" /\ Cloner(w) /\ progress'[w] = "none"
    \/ pc[w] = "create" /\ pc'[w] = "saveTarget" /\ Cloner(w) /\ progress'[w] = progress[w]
    \/ pc[w] = "create" /\ pc'[w] = "register" /\ Creator(w) /\ progress'[w] = progress[w]
    \/ pc[w] = "cloneTo" /\ pc'[w] = "cloning" /\ Cloner(w) /\ progress'[w] = "running"
    \/ pc[w] = "cloning" /\ pc'[w] = "register" /\ Cloner(w) /\ progress'[w] = progress[w]
       /\ Finished(w)
    \/ pc[w] = "disk" /\ pc'[w] = "storage" /\ Creator(w) /\ progress'[w] = "running"
    \/ pc[w] = "begin" /\ pc'[w] = "storage" /\ req[w].op = "makeFloatDisk"
       /\ progress'[w] = "running"
    \/ pc[w] = "storage" /\ pc'[w] = "attach" /\ Creator(w) /\ progress'[w] = "none"
    \/ pc[w] = "deleteConfig" /\ pc'[w] = "deletingConfig" /\ req[w].op = "deleteVM"
       /\ progress'[w] = "running"
    \/ pc[w] = "export" /\ pc'[w] = "exporting" /\ progress'[w] = "running"
       /\ req[w].op = "exportVM"
    \/ pc[w] = "begin" /\ pc'[w] = "reading" /\ req[w].op = "importVM"
       /\ progress'[w] = "running"
    \/ pc[w] = "reading" /\ pc'[w] \in {"import", "warnings"} /\ req[w].op = "importVM"
       /\ progress'[w] = "none"
    \/ pc[w] = "import" /\ pc'[w] = "importing" /\ req[w].op = "importVM"
       /\ progress'[w] = "running"

LEMMA MovesFacts ==
    ASSUME TypeOK, NEW w \in Workers, Moves(w)
    PROVE  /\ UNCHANGED <<registered, files, state, lock, uses, kept, stored, deleting, base,
                          req, result, hand, media, up, erred, overtaken, bare>>
           /\ pc' = [pc EXCEPT ![w] = pc'[w]]
           /\ progress' = [progress EXCEPT ![w] = progress'[w]]
           /\ Moved(w)
<1> USE DEF TypeOK, Goto, machines, images, objects, At, Moved, Creator, Cloner, Busy,
            Creates, Clones, Starts
<1>1. CASE Begin(w) \/ CreateMachine(w) \/ CloneWaited(w)
  BY <1>1 DEF Begin, CreateMachine, CloneWaited, Finished
<1>2. CASE TakeSnapshot(w) \/ CloneTo(w) \/ CreateBaseStorage(w) \/ DeleteConfig(w) \/ Export(w)
  BY <1>2 DEF TakeSnapshot, CloneTo, CreateBaseStorage, DeleteConfig, Export
<1>3. CASE SnapshotTaken(w) \/ StorageGoesOn(w)
  BY <1>3 DEF SnapshotTaken, StorageGoesOn, StorageWaited, Answer
<1>4. CASE Import(w)
  BY <1>4 DEF Import
<1>5. QED
  BY <1>1, <1>2, <1>3, <1>4 DEF Moves

LEMMA MovesKeepsInv ==
    ASSUME IInv, NEW w \in Workers, Moves(w)
    PROVE  IInv'
<1> USE DEF IInv
<1>1. /\ UNCHANGED <<registered, files, state, lock, uses, kept, stored, deleting, base,
                     req, result, hand, media, up, erred, overtaken, bare>>
      /\ pc' = [pc EXCEPT ![w] = pc'[w]]
      /\ progress' = [progress EXCEPT ![w] = progress'[w]]
      /\ Moved(w)
  BY MovesFacts
<1>2. \A v \in Workers \ {w} : pc'[v] = pc[v] /\ progress'[v] = progress[v]
  BY <1>1 DEF TypeOK
<1>3. pc[w] # "idle" /\ pc'[w] # "idle" /\ pc'[w] \in Steps \cup {"warnings"}
      /\ progress'[w] \in {"none", "running", "done", "failed"}
  BY <1>1 DEF Moved, Steps, Waiting, TypeOK
<1>4. pc[w] = "deleteConfig" => ~Finished(w)
  BY DEF CallInv, Finished, Waiting
<1>5. TypeOK'
  BY <1>1, <1>3 DEF TypeOK
<1>6. PathInv'
  BY <1>1, <1>2 DEF PathInv, Moved, Creator, Cloner, Busy
<1>7. CallInv'
  BY <1>1, <1>2 DEF CallInv, Moved, Creator, Cloner, Busy, Name, Finished, Waiting, Creates, Clones
<1>8. LockInv'
  BY <1>1, <1>2 DEF LockInv, Moved, Holds, Creator, Cloner, Busy, Name, Creates, Clones
<1>9. MakingInv'
  BY <1>1, <1>2 DEF MakingInv, Moved, Creator, Cloner, Busy, Name, Creates, Clones
<1>10. MediaInv'
  BY <1>1, <1>2 DEF MediaInv, Moved, Cloner, Busy, Usable
<1>11. FilesInv'
  <2>1. \A v \in Workers, n \in Names : Deletes(v, n)' <=> Deletes(v, n)
    BY <1>1, <1>2, <1>4 DEF Deletes, Moved, Finished, Name
  <2>2. \A v \in Workers, n \in Names :
           (Cloner(v) /\ pc[v] \in {"cloneTo", "cloning", "register"}) \/ pc[v] = "importing"
           => ((Cloner(v) /\ pc[v] \in {"cloneTo", "cloning", "register"}) \/ pc[v] = "importing")'
    BY <1>1, <1>2 DEF Moved, Cloner, Busy, Creator, Creates, Clones
  <2>3. \A v \in Workers :
           Creator(v) /\ pc[v] \in {"lock", "disk", "storage", "attach"}
           => (Creator(v) /\ pc[v] \in {"lock", "disk", "storage", "attach"})'
    BY <1>1, <1>2 DEF Moved, Busy, Creator, Cloner, Creates, Clones
  <2>4. \A v \in Workers : Busy(v) => Busy(v)'
    BY <1>1, <1>2, <1>3 DEF Busy
  <2>5. QED
    BY <1>1, <2>1, <2>2, <2>3, <2>4 DEF FilesInv, Name
<1>12. AttachedExist'
  BY <1>1 DEF AttachedExist, Usable
<1>13. QED
  BY <1>5, <1>6, <1>7, <1>8, <1>9, <1>10, <1>11, <1>12

-----------------------------------------------------------------------------
(* A call ends, with an answer or by an error.                             *)

\* There is something that only this call will see to.
Needed(w) ==
    \/ Cloner(w) /\ pc[w] \in {"cloneTo", "cloning", "register"}
    \/ Deletes(w, Name(w)) \/ pc[w] = "importing"
    \/ Creator(w) /\ pc[w] \in {"lock", "disk", "storage", "attach"}

Reset(w) ==
    /\ pc' = [pc EXCEPT ![w] = "idle"]
    /\ req' = [req EXCEPT ![w] = Nobody]
    /\ progress' = [progress EXCEPT ![w] = "none"]
    /\ hand' = [hand EXCEPT ![w] = Nobody]
    /\ media' = [media EXCEPT ![w] = {}]
    /\ result' \in [Workers -> {"true", "false", "none"}]

\* Errors are not forgotten.
ErrsMore ==
    /\ erred' \in [Names -> SUBSET MakesOrDeletes]
    /\ \A n \in Names : erred[n] \subseteq erred'[n]

\* The call of w is among those that have met an error with the machines in S.
LEMMA MetFacts ==
    ASSUME TypeOK, NEW w \in Workers, NEW S, Met(w, S)
    PROVE  /\ ErrsMore
           /\ \A n \in Names : n \in S /\ req[w].op \in MakesOrDeletes => req[w].op \in erred'[n]
           /\ \A n \in Names \ S : erred'[n] = erred[n]
  BY DEF Met, ErrsMore, TypeOK

\* The call ends with its session, which the lock passes from to another; it may
\* have asked for the deletion of images that are not in use.
Leaves(w, other) ==
    /\ pc[w] # "idle"
    /\ EndSession(w, other)
    /\ Reset(w)
    /\ UNCHANGED <<registered, files, state, kept, stored, base, up>>
    /\ deleting \subseteq deleting' /\ deleting' \subseteq stored
    /\ \A m \in deleting' \ deleting : ~InUse(m)
    /\ ErrsMore /\ UNCHANGED <<overtaken, bare>>
    /\ other = Abandoned => \A n \in Names : lock[n] = w => req[w].op \in erred'[n]
    /\ other = Nobody => pc[w] # "save"
    /\ Needed(w) => Name(w) \in Names /\ req[w].op \in erred'[Name(w)]

LEMMA LeavesKeepsInv ==
    ASSUME IInv, NEW w \in Workers, NEW other \in {Nobody, Abandoned}, Leaves(w, other)
    PROVE  IInv'
<1> USE SessionFacts DEF IInv
<1>1. /\ UNCHANGED <<registered, files, state, kept, stored, base, up>>
      /\ deleting' \subseteq stored
      /\ \A m \in Media : InUse(m) /\ Usable(m) => Usable(m)'
      /\ \A n \in Names : erred[n] \subseteq erred'[n]
      /\ UNCHANGED <<overtaken, bare>>
      /\ pc[w] # "idle"
  BY DEF Leaves, ErrsMore, Usable
<1>2. /\ \A v \in Workers \ {w} : /\ pc'[v] = pc[v] /\ req'[v] = req[v]
                                   /\ progress'[v] = progress[v]
                                   /\ hand'[v] = hand[v] /\ media'[v] = media[v]
      /\ pc'[w] = "idle" /\ req'[w] = Nobody /\ progress'[w] = "none"
      /\ hand'[w] = Nobody /\ media'[w] = {}
  BY DEF Leaves, Reset, TypeOK
<1>3. /\ \A n \in Names : lock[n] = w => lock'[n] = other /\ uses'[n] = kept[n]
      /\ \A n \in Names : lock[n] # w => lock'[n] = lock[n] /\ uses'[n] = uses[n]
      /\ lock' \in [Names -> Workers \cup {Nobody, Vm, Abandoned}]
      /\ uses' \in [Names -> SUBSET Media]
  BY DEF Leaves, EndSession, TypeOK
<1>4. \A n \in Names : uses'[n] \subseteq uses[n] /\ kept[n] \subseteq uses'[n]
  BY <1>3 DEF MediaInv
<1>5. TypeOK'
  BY <1>1, <1>3 DEF TypeOK, Leaves, Reset, ErrsMore
<1>6. PathInv'
  BY <1>1, <1>2 DEF PathInv, Creator, Cloner, Busy
<1>7. CallInv'
  <2>1. \A v \in Workers \ {w} : req[v].op \in MakesOrDeletes /\ pc[v] # "idle" => Name(v) \in Names
    BY BusyFacts DEF MakesOrDeletes, Creates, Clones
  <2>2. \A v \in Workers : pc[v] = "idle" => progress[v] = "none"
    BY DEF CallInv, Waiting
  <2>3. QED
    BY <1>1, <1>2, <2>1, <2>2 DEF CallInv, Creator, Cloner, Busy, Name, Finished, Waiting
<1>8. \A v \in Workers : Holds(v)' => Holds(v) /\ v # w
  BY <1>2 DEF Holds, Creator, Cloner, Busy
<1>9. \A v \in Workers \ {w} : Holds(v) => Holds(v)'
  BY <1>2 DEF Holds, Creator, Cloner, Busy
<1>10. \A v \in Workers : Creator(v)' => Creator(v) /\ v # w
  BY <1>2 DEF Creator, Busy
<1>11. LockInv'
  <2>1. \A n \in Names : (lock[n] \in Workers => hand[lock[n]] = n /\ Holds(lock[n]))'
    <3> SUFFICES ASSUME NEW n \in Names, lock'[n] \in Workers
                 PROVE  (hand[lock[n]] = n /\ Holds(lock[n]))'
      OBVIOUS
    <3>1. lock'[n] = lock[n] /\ lock[n] \in Workers \ {w}
      BY <1>3
    <3>2. hand'[lock[n]] = n /\ Holds(lock[n])'
      BY <1>2, <1>9, <3>1 DEF LockInv
    <3>3. QED
      BY <3>1, <3>2 DEF Holds, Creator, Cloner, Busy
  <2>2. \A n \in Names : /\ lock'[n] # Nobody => n \in registered'
                         /\ state'[n] = "Running" => lock'[n] = Vm
    BY <1>1, <1>3 DEF LockInv
  <2>3. \A n \in Names : lock'[n] = Abandoned => MetBy(n, Creates \cup {"cloneLinkVM"})'
    <3> SUFFICES ASSUME NEW n \in Names, lock'[n] = Abandoned
                 PROVE  MetBy(n, Creates \cup {"cloneLinkVM"})'
      OBVIOUS
    <3>1. CASE lock[n] = w
      <4>1. Holds(w)
        BY <3>1 DEF LockInv
      <4>2. req[w].op \in Creates \cup {"cloneLinkVM"}
        BY <4>1 DEF Holds, PathInv, Creator
      <4>3. QED
        BY <1>3, <3>1, <4>2 DEF Leaves
    <3>2. CASE lock[n] # w
      BY <1>1, <1>3, <3>2 DEF LockInv
    <3>3. QED
      BY <3>1, <3>2
  <2>4. \A v \in Workers : (Creator(v) /\ Holds(v))' => (lock[Name(v)] = v)'
    <3> SUFFICES ASSUME NEW v \in Workers, Creator(v)', Holds(v)'
                 PROVE  lock'[Name(v)'] = v
      BY DEF Name
    <3>1. Creator(v) /\ Holds(v) /\ v # w /\ Name(v)' = Name(v)
      BY <1>2, <1>8, <1>10 DEF Name
    <3>2. Name(v) \in Names
      BY <3>1, BusyFacts DEF Creator, Busy
    <3>3. QED
      BY <1>3, <3>1, <3>2 DEF LockInv
  <2>5. \A v \in Workers : /\ pc'[v] \in {"idle", "begin"} => hand'[v] = Nobody
                           /\ hand'[v] # Nobody => hand'[v] \in registered'
                           /\ Creator(v)' => hand'[v] \in {Nobody, Name(v)'}
    BY <1>1, <1>2, <1>10 DEF LockInv, Name
  <2>6. QED
    BY <2>1, <2>3, <2>4, <2>5, <2>2 DEF LockInv
<1>12. \A v \in Workers : Creator(v)' /\ hand'[v] # Nobody =>
          Name(v)' = Name(v) /\ Name(v) \in Names /\ hand[v] = Name(v) /\ pc'[v] = pc[v]
  BY <1>2, <1>10, BusyFacts DEF Name, LockInv, Creator, Busy
<1>13. MakingInv'
  <2> SUFFICES ASSUME NEW v \in Workers, Creator(v)', hand'[v] # Nobody
               PROVE  /\ pc'[v] \in {"lock", "disk", "storage", "attach"} => uses'[Name(v)] = {}
                      /\ pc'[v] \in {"save", "unlock"} => HardDisks(uses'[Name(v)]) # {}
                      /\ \A x \in Workers : Creator(x)' /\ hand'[x] = hand'[v] => x = v
                      /\ Name(v) \notin bare'
    BY <1>12 DEF MakingInv, HardDisks
  <2>1. Creator(v) /\ v # w /\ hand[v] = Name(v) /\ hand[v] # Nobody /\ pc'[v] = pc[v] /\ Name(v) \in Names
    BY <1>2, <1>10, <1>12
  <2>2. pc[v] \in {"save", "unlock"} => lock[Name(v)] # w
    BY <2>1 DEF LockInv, Holds
  <2>3. QED
    BY <1>1, <1>2, <1>3, <1>4, <1>10, <2>1, <2>2 DEF MakingInv
<1>14. MediaInv'
  <2>1. deleting' \subseteq stored'
    BY <1>1
  <2>2. \A n \in Names : /\ n \notin registered' => uses'[n] = {}
                         /\ kept'[n] \subseteq uses'[n]
                         /\ base'[n] # Nobody => n \in stored'
    BY <1>1, <1>4 DEF MediaInv
  <2>3. \A n \in Names : kept'[n] # uses'[n] => lock'[n] \in Workers /\ pc'[lock'[n]] = "save"
    BY <1>1, <1>2, <1>3 DEF MediaInv
  <2>4. \A v \in Workers : Cloner(v)' => \A m \in media'[v] : Usable(m)'
    <3> SUFFICES ASSUME NEW v \in Workers, Cloner(v)', NEW m \in media'[v]
                 PROVE  Usable(m)'
      OBVIOUS
    <3>1. Cloner(v) /\ v # w /\ m \in media[v] /\ m \in Media
      BY <1>2 DEF Cloner, Busy, TypeOK
    <3>2. pc[v] \in {"cloning", "register"}
      BY <3>1 DEF CallInv, PathInv, Cloner, Clones
    <3>3. InUse(m) /\ Usable(m)
      BY <3>1, <3>2 DEF InUse, Attached, MediaInv
    <3>4. QED
      BY <1>1, <3>1, <3>3
  <2>5. QED
    BY <2>1, <2>2, <2>3, <2>4 DEF MediaInv
<1>15. FilesInv'
  <2> SUFFICES ASSUME NEW n \in Names
               PROVE  /\ n \in registered' \ overtaken' =>
                            n \in files' /\ \A v \in Workers : ~Deletes(v, n)'
                      /\ n \in files' \ registered' =>
                            \/ MetBy(n, Clones \cup {"deleteVM"})'
                            \/ \E v \in Workers :
                                  /\ Busy(v)' /\ Name(v)' = n
                                  /\ \/ Cloner(v)' /\ pc'[v] \in {"cloneTo", "cloning", "register"}
                                     \/ Deletes(v, n)'
                                     \/ pc'[v] = "importing"
                      /\ n \in registered' /\ HardDisks(uses'[n]) = {} =>
                            \/ MetBy(n, Creates \cup Clones)' \/ n \in bare'
                            \/ \E v \in Workers :
                                  /\ Creator(v)' /\ hand'[v] = n
                                  /\ pc'[v] \in {"lock", "disk", "storage", "attach"}
    BY DEF FilesInv, HardDisks
  <2>1. \A ops : MetBy(n, ops) => MetBy(n, ops)'
    BY <1>1
  <2>2. \A v \in Workers : Deletes(v, n)' => Deletes(v, n)
    BY <1>2 DEF Deletes, Name, Finished
  <2>3. \A v \in Workers : v # w =>
           /\ Busy(v)' = Busy(v) /\ Name(v)' = Name(v) /\ Cloner(v)' = Cloner(v)
           /\ Creator(v)' = Creator(v) /\ Deletes(v, n)' = Deletes(v, n)
    BY <1>2 DEF Busy, Name, Cloner, Creator, Deletes, Finished
  <2>4. ASSUME n \in files \ registered, ~MetBy(n, Clones \cup {"deleteVM"})'
        PROVE  \E v \in Workers \ {w} :
                  /\ Busy(v) /\ Name(v) = n
                  /\ \/ Cloner(v) /\ pc[v] \in {"cloneTo", "cloning", "register"}
                     \/ Deletes(v, n)
                     \/ pc[v] = "importing"
    <3>1. PICK v \in Workers : /\ Busy(v) /\ Name(v) = n
                               /\ \/ Cloner(v) /\ pc[v] \in {"cloneTo", "cloning", "register"}
                                  \/ Deletes(v, n)
                                  \/ pc[v] = "importing"
      BY <2>1, <2>4 DEF FilesInv
    <3>2. ASSUME v = w
          PROVE  FALSE
      <4>1. req[w].op \in erred'[n] /\ req[w].op \in MakesOrDeletes
        BY <3>1, <3>2 DEF Leaves, Needed, ErrsMore
      <4>2. req[w].op \in Clones \cup {"deleteVM"}
        BY <3>1, <3>2, <4>1 DEF Cloner, Deletes, PathInv, MakesOrDeletes, Creates, Clones
      <4>3. QED
        BY <2>4, <4>1, <4>2
    <3>3. QED
      BY <3>1, <3>2
  <2>5. uses'[n] = uses[n] \/ lock[n] = w
    BY <1>3
  <2>6. ASSUME n \in registered, HardDisks(uses'[n]) = {}, ~MetBy(n, Creates \cup Clones)',
               n \notin bare
        PROVE  \E v \in Workers \ {w} :
                  /\ Creator(v) /\ hand[v] = n
                  /\ pc[v] \in {"lock", "disk", "storage", "attach"}
    <3>1. HardDisks(uses[n]) = {}
      <4>1. CASE lock[n] = w /\ other = Abandoned
        <5>1. Holds(w) /\ req[w].op \in erred'[n]
          BY <4>1 DEF LockInv, Leaves
        <5>2. req[w].op \in Creates \cup Clones
          BY <5>1 DEF Holds, Creator, Cloner
        <5>3. QED
          BY <2>6, <5>1, <5>2
      <4>2. CASE lock[n] = w /\ other = Nobody
        BY <1>3, <2>6, <4>2 DEF Leaves, MediaInv
      <4>3. QED
        BY <2>5, <2>6, <4>1, <4>2
    <3>2. PICK v \in Workers : /\ Creator(v) /\ hand[v] = n
                               /\ pc[v] \in {"lock", "disk", "storage", "attach"}
      BY <2>1, <2>6, <3>1 DEF FilesInv
    <3>3. Name(v) = n
      BY <3>2, SessionFacts DEF LockInv
    <3>4. ASSUME v = w
          PROVE  FALSE
      <4>1. req[w].op \in erred'[n] /\ req[w].op \in Creates
        BY <3>2, <3>3, <3>4 DEF Leaves, Needed, Creator
      <4>2. QED
        BY <2>6, <4>1
    <3>5. QED
      BY <3>2, <3>4
  <2>7. n \in registered \ overtaken => n \in files /\ \A v \in Workers : ~Deletes(v, n)
    BY DEF FilesInv
  <2>8. n \in files' \ registered' =>
            \/ MetBy(n, Clones \cup {"deleteVM"})'
            \/ \E v \in Workers :
                  /\ Busy(v)' /\ Name(v)' = n
                  /\ \/ Cloner(v)' /\ pc'[v] \in {"cloneTo", "cloning", "register"}
                     \/ Deletes(v, n)'
                     \/ pc'[v] = "importing"
    BY <1>1, <1>2, <2>3, <2>4
  <2>9. n \in registered' /\ HardDisks(uses'[n]) = {} =>
            \/ MetBy(n, Creates \cup Clones)' \/ n \in bare'
            \/ \E v \in Workers :
                  /\ Creator(v)' /\ hand'[v] = n
                  /\ pc'[v] \in {"lock", "disk", "storage", "attach"}
    BY <1>1, <1>2, <2>3, <2>6
  <2>10. QED
    BY <1>1, <2>2, <2>7, <2>8, <2>9
<1>16. AttachedExist'
  <2>1. \A n \in registered : \A m \in uses'[n] \cup kept[n] :
           m \in Media /\ InUse(m) /\ Usable(m)
    BY <1>4 DEF AttachedExist, InUse, Attached, TypeOK
  <2>2. \A n \in stored \cap Names : base[n] # Nobody =>
           base[n] \in Media /\ InUse(base[n]) /\ Usable(base[n])
    BY DEF AttachedExist, InUse, TypeOK
  <2>3. QED
    BY <1>1, <2>1, <2>2 DEF AttachedExist
<1>17. QED
  BY <1>5, <1>6, <1>7, <1>11, <1>13, <1>14, <1>15, <1>16

\* A call that holds no lock has no session to end.
LEMMA NoSession ==
    ASSUME IInv, NEW w \in Workers, ~Holds(w), UNCHANGED <<lock, uses>>
    PROVE  EndSession(w, Nobody)
<1>1. \A n \in Names : lock[n] # w
  BY DEF IInv, LockInv
<1>2. lock = [n \in Names |-> IF lock[n] = w THEN Nobody ELSE lock[n]]
  BY <1>1 DEF IInv, TypeOK
<1>3. uses = [n \in Names |-> IF lock[n] = w THEN kept[n] ELSE uses[n]]
  BY <1>1 DEF IInv, TypeOK
<1>4. QED
  BY <1>2, <1>3 DEF EndSession

\* The answers of calls that nothing waits for.
Answers(w) ==
    \/ CreateNothing(w) \/ RefuseFormat(w) \/ ConfigWaited(w) \/ ExportWaited(w)
    \/ CheckState(w) /\ pc'[w] = "idle"
    \/ StorageWaited(w) /\ At(w, "storage", {"makeFloatDisk"})

LEMMA AnswersKeepsInv ==
    ASSUME IInv, NEW w \in Workers, Answers(w)
    PROVE  IInv'
<1> USE DEF IInv
<1>1. /\ UNCHANGED <<machines, images, up, erred, overtaken, bare>>
      /\ \E r \in {"true", "false"} : Answer(w, r)
      /\ \/ pc[w] = "begin"
         \/ pc[w] = "deletingConfig" /\ Finished(w)
         \/ pc[w] = "exporting"
         \/ pc[w] = "storage" /\ req[w].op = "makeFloatDisk"
  <2>1. CASE CreateNothing(w) \/ RefuseFormat(w) \/ ConfigWaited(w) \/ ExportWaited(w)
    BY <2>1 DEF CreateNothing, RefuseFormat, ConfigWaited, ExportWaited, At, Answer
  <2>2. CASE CheckState(w) /\ pc'[w] = "idle"
    BY <2>2 DEF CheckState, At, Answer, Goto, TypeOK
  <2>3. CASE StorageWaited(w) /\ At(w, "storage", {"makeFloatDisk"})
    BY <2>3 DEF StorageWaited, At, Answer, Creates
  <2>4. QED
    BY <2>1, <2>2, <2>3 DEF Answers
<1>2. ~Holds(w)
  BY <1>1 DEF Holds, Creator, Creates
<1>3. EndSession(w, Nobody)
  BY <1>1, <1>2, NoSession DEF machines
<1>4. Reset(w)
  BY <1>1 DEF Answer, Reset, TypeOK
<1>5. ~Needed(w)
  BY <1>1 DEF Needed, Creator, Creates, Deletes
<1>6. Leaves(w, Nobody)
  BY <1>1, <1>3, <1>4, <1>5, SessionFacts
  DEF Leaves, ErrsMore, machines, images, TypeOK, MediaInv
<1>7. QED
  BY <1>6, LeavesKeepsInv

\* unlockMachine, and the answer.
LEMMA UnlockMachineKeepsInv ==
    ASSUME IInv, NEW w \in Workers,
           UnlockMachine(w) \/ (StorageWaited(w) /\ At(w, "storage", Creates) /\ progress[w] # "done")
    PROVE  IInv'
<1> USE DEF IInv
<1>1. /\ EndSession(w, Nobody)
      /\ UNCHANGED <<registered, files, state, kept, images, up, erred, overtaken, bare>>
      /\ \E r \in {"true", "false"} : Answer(w, r)
      /\ pc[w] = "unlock" \/ (pc[w] = "storage" /\ progress[w] = "failed")
  BY DEF UnlockMachine, StorageWaited, At, Answer, Creates
<1>2. Reset(w)
  BY <1>1 DEF Answer, Reset, TypeOK
<1>3. Needed(w) => Name(w) \in Names /\ req[w].op \in erred'[Name(w)]
  <2> SUFFICES ASSUME Needed(w)
               PROVE  Name(w) \in Names /\ req[w].op \in erred'[Name(w)]
    OBVIOUS
  <2>1. pc[w] = "storage" /\ Creator(w) /\ progress[w] = "failed"
    BY <1>1 DEF Needed, Deletes
  <2>2. QED
    BY <1>1, <2>1, BusyFacts DEF CallInv, Creator, MakesOrDeletes, Busy
<1>4. Leaves(w, Nobody)
  BY <1>1, <1>2, <1>3, SessionFacts DEF Leaves, ErrsMore, images, TypeOK, MediaInv
<1>5. QED
  BY <1>4, LeavesKeepsInv

LEMMA FailsKeepsInv ==
    ASSUME IInv, NEW w \in Workers, Fails(w)
    PROVE  IInv'
<1> USE DEF IInv
<1>1. pc[w] # "idle" /\ Throw(w)
  BY DEF Fails, Steps, Waiting
<1>2. Met(w, {Name(w)} \cup {n \in Names : lock[n] = w})
  BY <1>1 DEF Throw
<1>3. Reset(w)
  BY <1>1 DEF Throw, Reset, TypeOK
<1>4. \A n \in Names : lock[n] = w => req[w].op \in erred'[n]
  <2> SUFFICES ASSUME NEW n \in Names, lock[n] = w
               PROVE  req[w].op \in erred'[n]
    OBVIOUS
  <2>1. req[w].op \in MakesOrDeletes
    BY DEF LockInv, Holds, Creator, Cloner, MakesOrDeletes
  <2>2. QED
    BY <1>2, <2>1, MetFacts
<1>5. Needed(w) => Name(w) \in Names /\ req[w].op \in erred'[Name(w)]
  <2> SUFFICES ASSUME Needed(w)
               PROVE  Name(w) \in Names /\ req[w].op \in erred'[Name(w)]
    OBVIOUS
  <2>1. pc[w] # "importing"
    BY DEF Fails, Waiting
  <2>2. req[w].op \in MakesOrDeletes
    BY <2>1 DEF Needed, Deletes, PathInv, Creator, Cloner, MakesOrDeletes
  <2>3. Name(w) \in Names
    BY <1>1, <2>2, BusyFacts DEF MakesOrDeletes, Creates, Clones
  <2>4. QED
    BY <1>2, <2>2, <2>3, MetFacts
<1>6. Leaves(w, Abandoned)
  BY <1>1, <1>2, <1>3, <1>4, <1>5, MetFacts, SessionFacts DEF Leaves, Throw, images, MediaInv
<1>7. QED
  BY <1>6, LeavesKeepsInv

LEMMA DestroyDiskKeepsInv ==
    ASSUME IInv, NEW w \in Workers, DestroyDisk(w)
    PROVE  IInv'
<1> USE DEF IInv
<1>1. /\ UNCHANGED <<machines, stored, base, up, erred, overtaken, bare>>
      /\ pc[w] = "begin" /\ req[w].op = "destroyFloatDiskWithoutAttach"
      /\ Answer(w, "true")
      /\ deleting \subseteq deleting' /\ deleting' \subseteq stored
      /\ \A m \in deleting' \ deleting : ~InUse(m)
  BY DEF DestroyDisk, At, Answer, BaseMedia, HardDisks, MediaInv
<1>2. ~Holds(w)
  BY <1>1 DEF Holds
<1>3. EndSession(w, Nobody)
  BY <1>1, <1>2, NoSession DEF machines
<1>4. Reset(w)
  BY <1>1 DEF Answer, Reset, TypeOK
<1>5. ~Needed(w)
  BY <1>1 DEF Needed, Deletes
<1>6. Leaves(w, Nobody)
  BY <1>1, <1>3, <1>4, <1>5, SessionFacts DEF Leaves, ErrsMore, machines, TypeOK
<1>7. QED
  BY <1>6, LeavesKeepsInv

-----------------------------------------------------------------------------
(* Locks.                                                                  *)

\* The machine to clone or to delete is found in a state that allows it.
LEMMA CheckStateKeepsInv ==
    ASSUME IInv, NEW w \in Workers, CheckState(w), pc'[w] # "idle"
    PROVE  IInv'
<1> USE SessionFacts DEF IInv
<1>1. PICK n \in Names : /\ n \in registered
                         /\ hand' = [hand EXCEPT ![w] = n]
                         /\ \/ Cloner(w) /\ n = Of(w)
                            \/ req[w].op = "deleteVM" /\ n = Name(w)
  BY BusyFacts DEF CheckState, At, Answer, TypeOK, Cloner, Busy
<1>2. /\ UNCHANGED <<registered, files, state, lock, uses, kept, stored, deleting, base,
                     progress, req, result, media, up, erred, overtaken, bare>>
      /\ pc' = [pc EXCEPT ![w] = pc'[w]]
      /\ pc[w] = "begin"
      /\ \/ pc'[w] = "lockSource" /\ Cloner(w) /\ req[w].op = "cloneLinkVM"
         \/ pc'[w] = "create" /\ Cloner(w)
         \/ pc'[w] = "unregister" /\ req[w].op = "deleteVM"
  BY DEF CheckState, At, Answer, Goto, TypeOK, Cloner, Busy, machines, images
<1>3. /\ \A v \in Workers \ {w} : pc'[v] = pc[v] /\ hand'[v] = hand[v]
      /\ hand'[w] = n
  BY <1>1, <1>2 DEF TypeOK
<1>4. TypeOK'
  BY <1>1, <1>2 DEF TypeOK, Steps
<1>5. PathInv'
  BY <1>2, <1>3 DEF PathInv, Creator, Cloner, Busy
<1>6. CallInv'
  BY <1>2, <1>3 DEF CallInv, Creator, Cloner, Busy, Name, Finished, Waiting
<1>7. LockInv'
  BY <1>1, <1>2, <1>3 DEF LockInv, Holds, Creator, Cloner, Busy, Name, Creates, Clones
<1>8. MakingInv'
  BY <1>1, <1>2, <1>3 DEF MakingInv, Creator, Cloner, Busy, Name, Creates, Clones
<1>9. MediaInv'
  BY <1>2, <1>3 DEF MediaInv, Cloner, Busy, Usable
<1>10. FilesInv'
  BY <1>2, <1>3 DEF FilesInv, Creator, Cloner, Busy, Name, Deletes, Finished
<1>11. AttachedExist'
  BY <1>2 DEF AttachedExist, Usable
<1>12. QED
  BY <1>4, <1>5, <1>6, <1>7, <1>8, <1>9, <1>10, <1>11

\* lockMachine, of the machine to clone or of the one just registered.
LEMMA LockKeepsInv ==
    ASSUME IInv, NEW w \in Workers, LockSource(w) \/ LockMachine(w)
    PROVE  IInv'
<1> USE SessionFacts DEF IInv
<1>1. PICK n \in Names :
         /\ hand[w] = n /\ n \in registered
         /\ \/ /\ pc[w] = "lockSource" /\ pc'[w] = "takeSnapshot" /\ Cloner(w)
               /\ lock' = IF lock[n] = Nobody THEN [lock EXCEPT ![n] = w] ELSE lock
            \/ /\ pc[w] = "lock" /\ pc'[w] \in {"disk", "attach"} /\ Creator(w) /\ n = Name(w)
               /\ lock[n] = Nobody
               /\ lock' = [lock EXCEPT ![n] = w]
  <2>1. CASE LockSource(w)
    <3>1. /\ pc[w] = "lockSource" /\ Cloner(w) /\ hand[w] = Of(w)
          /\ pc'[w] = "takeSnapshot"
          /\ lock' = IF lock[Of(w)] = Nobody THEN [lock EXCEPT ![Of(w)] = w] ELSE lock
      BY <2>1 DEF LockSource, At, Goto, Cloner, Busy, TypeOK
    <3>2. Of(w) \in Names
      BY <3>1, BusyFacts
    <3>3. Of(w) \in registered
      BY <3>1, <3>2 DEF LockInv
    <3>4. QED
      BY <3>1, <3>2, <3>3
  <2>2. CASE LockMachine(w)
    <3>1. /\ pc[w] = "lock" /\ Creator(w) /\ hand[w] = Name(w)
          /\ pc'[w] \in {"disk", "attach"}
          /\ lock[Name(w)] = Nobody /\ lock' = [lock EXCEPT ![Name(w)] = w]
      BY <2>2 DEF LockMachine, At, Goto, Creator, Busy, TypeOK
    <3>2. Name(w) \in Names
      BY <3>1, BusyFacts
    <3>3. Name(w) \in registered
      BY <3>1, <3>2 DEF LockInv
    <3>4. QED
      BY <3>1, <3>2, <3>3
  <2>3. QED
    BY <2>1, <2>2
<1>2. /\ UNCHANGED <<registered, files, state, uses, kept, stored, deleting, base,
                     progress, req, result, hand, media, up, erred, overtaken, bare>>
      /\ pc' = [pc EXCEPT ![w] = pc'[w]]
  BY DEF LockSource, LockMachine, Goto, TypeOK, images, objects
<1>3. /\ \A v \in Workers \ {w} : pc'[v] = pc[v]
      /\ \A x \in Names : lock'[x] # lock[x] => lock[x] = Nobody /\ lock'[x] = w /\ x = n
      /\ lock' \in [Names -> Workers \cup {Nobody, Vm, Abandoned}]
  BY <1>1, <1>2 DEF TypeOK
<1>4. TypeOK'
  BY <1>1, <1>2, <1>3 DEF TypeOK, Steps
<1>5. PathInv'
  BY <1>1, <1>2, <1>3 DEF PathInv, Creator, Cloner, Busy
<1>6. CallInv'
  BY <1>1, <1>2, <1>3 DEF CallInv, Creator, Cloner, Busy, Name, Finished, Waiting, Creates, Clones
<1>7. /\ Holds(w)' /\ ~Holds(w)
      /\ \A v \in Workers \ {w} : Holds(v)' <=> Holds(v)
      /\ \A v \in Workers : /\ Creator(v)' <=> Creator(v)
                            /\ Cloner(v)' <=> Cloner(v)
                            /\ Name(v)' = Name(v)
  BY <1>1, <1>2, <1>3 DEF Holds, Creator, Cloner, Busy, Name, Creates, Clones
<1>8. LockInv'
  <2>1. \A x \in Names : (lock[x] \in Workers => hand[lock[x]] = x /\ Holds(lock[x]))'
    <3> SUFFICES ASSUME NEW x \in Names, lock'[x] \in Workers
                 PROVE  (hand[lock[x]] = x /\ Holds(lock[x]))'
      OBVIOUS
    <3>1. CASE lock'[x] = w
      BY <1>1, <1>2, <1>3, <1>7, <3>1 DEF LockInv, Holds, Creator, Cloner, Busy
    <3>2. CASE lock'[x] # w
      <4>1. lock'[x] = lock[x] /\ lock[x] \in Workers \ {w}
        BY <1>3, <3>2
      <4>2. hand'[lock[x]] = x /\ Holds(lock[x])'
        BY <1>2, <1>7, <4>1 DEF LockInv
      <4>3. QED
        BY <4>1, <4>2 DEF Holds, Creator, Cloner, Busy
    <3>3. QED
      BY <3>1, <3>2
  <2>2. \A x \in Names : /\ lock'[x] # Nobody => x \in registered'
                         /\ lock'[x] = Abandoned => MetBy(x, Creates \cup {"cloneLinkVM"})'
                         /\ state'[x] = "Running" => lock'[x] = Vm
    BY <1>1, <1>2, <1>3 DEF LockInv
  <2>3. \A v \in Workers : (Creator(v) /\ Holds(v))' => (lock[Name(v)] = v)'
    <3> SUFFICES ASSUME NEW v \in Workers, Creator(v)', Holds(v)'
                 PROVE  lock'[Name(v)] = v
      BY <1>7
    <3>1. Name(v) \in Names
      BY <1>7, BusyFacts DEF Creator, Busy
    <3>2. CASE v = w
      BY <1>1, <1>3, <1>7, <3>2 DEF Creator, Cloner, Creates, Clones, TypeOK
    <3>3. CASE v # w
      BY <1>3, <1>7, <3>1, <3>3 DEF LockInv
    <3>4. QED
      BY <3>2, <3>3
  <2>4. \A v \in Workers : /\ pc'[v] \in {"idle", "begin"} => hand'[v] = Nobody
                           /\ hand'[v] # Nobody => hand'[v] \in registered'
                           /\ Creator(v)' => hand'[v] \in {Nobody, Name(v)'}
    BY <1>1, <1>2, <1>3, <1>7 DEF LockInv
  <2>5. QED
    BY <2>1, <2>2, <2>3, <2>4 DEF LockInv
<1>9. MakingInv'
  BY <1>1, <1>2, <1>3, <1>7 DEF MakingInv, HardDisks, Creator, Cloner, Creates, Clones
<1>10. MediaInv'
  <2>1. \A x \in Names : kept'[x] # uses'[x] => lock'[x] \in Workers /\ pc'[lock'[x]] = "save"
    BY <1>1, <1>2, <1>3 DEF MediaInv
  <2>2. QED
    BY <1>2, <1>7, <2>1 DEF MediaInv, Usable
<1>11. FilesInv'
  BY <1>1, <1>2, <1>3, <1>7 DEF FilesInv, Creator, Cloner, Busy, Name, Deletes, Finished, HardDisks
<1>12. AttachedExist'
  BY <1>2 DEF AttachedExist, Usable
<1>13. QED
  BY <1>4, <1>5, <1>6, <1>8, <1>9, <1>10, <1>11, <1>12

\* The session of a linked clone ends, and the clone goes on.
LEMMA UnlockSourceKeepsInv ==
    ASSUME IInv, NEW w \in Workers, UnlockSource(w)
    PROVE  IInv'
<1> USE SessionFacts DEF IInv
<1>1. /\ UNCHANGED <<registered, files, state, kept, stored, deleting, base,
                     progress, req, result, hand, media, up, erred, overtaken, bare>>
      /\ pc' = [pc EXCEPT ![w] = "create"]
      /\ pc[w] = "unlockSource" /\ Cloner(w)
      /\ EndSession(w, Nobody)
  BY DEF UnlockSource, At, Goto, Cloner, Busy, images, objects
<1>2. /\ \A v \in Workers \ {w} : pc'[v] = pc[v]
      /\ pc'[w] = "create"
      /\ \A n \in Names : lock[n] = w => lock'[n] = Nobody /\ kept[n] = uses[n]
      /\ \A n \in Names : lock[n] # w => lock'[n] = lock[n]
      /\ lock' \in [Names -> Workers \cup {Nobody, Vm, Abandoned}]
      /\ uses' = uses
  <2>1. \A n \in Names : lock[n] = w => kept[n] = uses[n]
    BY <1>1 DEF MediaInv
  <2>2. uses = [n \in Names |-> IF lock[n] = w THEN kept[n] ELSE uses[n]]
    BY <2>1 DEF TypeOK
  <2>3. QED
    BY <1>1, <2>1, <2>2 DEF EndSession, TypeOK
<1>3. TypeOK'
  BY <1>1, <1>2 DEF TypeOK, Steps
<1>4. PathInv'
  BY <1>1, <1>2 DEF PathInv, Creator, Cloner, Busy
<1>5. CallInv'
  BY <1>1, <1>2 DEF CallInv, Creator, Cloner, Busy, Name, Finished, Waiting
<1>6. /\ \A v \in Workers \ {w} : Holds(v)' <=> Holds(v)
      /\ ~Holds(w)'
      /\ \A v \in Workers : /\ Creator(v)' <=> Creator(v)
                            /\ Cloner(v)' <=> Cloner(v)
                            /\ Name(v)' = Name(v)
  BY <1>1, <1>2 DEF Holds, Creator, Cloner, Busy, Name, Creates, Clones
<1>7. LockInv'
  <2>1. \A x \in Names : (lock[x] \in Workers => hand[lock[x]] = x /\ Holds(lock[x]))'
    <3> SUFFICES ASSUME NEW x \in Names, lock'[x] \in Workers
                 PROVE  (hand[lock[x]] = x /\ Holds(lock[x]))'
      OBVIOUS
    <3>1. lock'[x] = lock[x] /\ lock[x] \in Workers \ {w}
      BY <1>2
    <3>2. hand'[lock[x]] = x /\ Holds(lock[x])'
      BY <1>1, <1>6, <3>1 DEF LockInv
    <3>3. QED
      BY <3>1, <3>2 DEF Holds, Creator, Cloner, Busy
  <2>2. \A x \in Names : /\ lock'[x] # Nobody => x \in registered'
                         /\ lock'[x] = Abandoned => MetBy(x, Creates \cup {"cloneLinkVM"})'
                         /\ state'[x] = "Running" => lock'[x] = Vm
    BY <1>1, <1>2 DEF LockInv
  <2>3. \A v \in Workers : (Creator(v) /\ Holds(v))' => (lock[Name(v)] = v)'
    <3> SUFFICES ASSUME NEW v \in Workers, Creator(v)', Holds(v)'
                 PROVE  lock'[Name(v)] = v
      BY <1>6
    <3>1. Name(v) \in Names /\ v # w
      BY <1>6, BusyFacts DEF Creator, Busy
    <3>2. QED
      BY <1>2, <1>6, <3>1 DEF LockInv
  <2>4. \A v \in Workers : /\ pc'[v] \in {"idle", "begin"} => hand'[v] = Nobody
                           /\ hand'[v] # Nobody => hand'[v] \in registered'
                           /\ Creator(v)' => hand'[v] \in {Nobody, Name(v)'}
    BY <1>1, <1>2, <1>6 DEF LockInv
  <2>5. QED
    BY <2>1, <2>2, <2>3, <2>4 DEF LockInv
<1>8. MakingInv'
  BY <1>1, <1>2, <1>6 DEF MakingInv, HardDisks
<1>9. MediaInv'
  <2>1. \A x \in Names : kept'[x] # uses'[x] => lock'[x] \in Workers /\ pc'[lock'[x]] = "save"
    BY <1>1, <1>2 DEF MediaInv
  <2>2. QED
    BY <1>1, <1>2, <1>6, <2>1 DEF MediaInv, Usable
<1>10. FilesInv'
  BY <1>1, <1>2, <1>6 DEF FilesInv, Creator, Cloner, Busy, Name, Deletes, Finished, HardDisks
<1>11. AttachedExist'
  BY <1>1, <1>2 DEF AttachedExist, Usable
<1>12. QED
  BY <1>3, <1>4, <1>5, <1>7, <1>8, <1>9, <1>10, <1>11

-----------------------------------------------------------------------------
(* Machines.                                                               *)

LEMMA SaveTargetKeepsInv ==
    ASSUME IInv, NEW w \in Workers, SaveTarget(w)
    PROVE  IInv'
<1> USE DEF IInv
<1>1. /\ UNCHANGED <<registered, state, lock, uses, kept, stored, deleting, base,
                     progress, req, result, hand, media, up, erred, overtaken, bare>>
      /\ pc' = [pc EXCEPT ![w] = "cloneTo"]
      /\ pc[w] = "saveTarget" /\ Cloner(w)
      /\ files' = files \cup {Name(w)}
      /\ Name(w) \in Names
  BY BusyFacts DEF SaveTarget, At, Goto, Cloner, Busy, images, objects
<1>2. /\ \A v \in Workers \ {w} : pc'[v] = pc[v]
      /\ pc'[w] = "cloneTo"
  BY <1>1 DEF TypeOK
<1>3. TypeOK'
  BY <1>1 DEF TypeOK, Steps
<1>4. PathInv'
  BY <1>1, <1>2 DEF PathInv, Creator, Cloner, Busy
<1>5. CallInv'
  BY <1>1, <1>2 DEF CallInv, Creator, Cloner, Busy, Name, Finished, Waiting
<1>6. LockInv'
  BY <1>1, <1>2 DEF LockInv, Holds, Creator, Cloner, Busy, Name, Creates, Clones
<1>7. MakingInv'
  BY <1>1, <1>2 DEF MakingInv, Creator, Cloner, Busy, Name, Creates, Clones
<1>8. MediaInv'
  BY <1>1, <1>2 DEF MediaInv, Cloner, Busy, Usable
<1>9. FilesInv'
  <2>1. Busy(w)' /\ Name(w)' = Name(w) /\ Cloner(w)'
    BY <1>1, <1>2 DEF Busy, Name, Cloner
  <2>2. \A v \in Workers : v # w =>
           /\ Busy(v)' = Busy(v) /\ Name(v)' = Name(v) /\ Cloner(v)' = Cloner(v)
           /\ Creator(v)' = Creator(v)
           /\ \A n \in Names : Deletes(v, n)' = Deletes(v, n)
    BY <1>1, <1>2 DEF Busy, Name, Cloner, Creator, Deletes, Finished
  <2>3. \A n \in Names : ~Deletes(w, n) /\ ~Deletes(w, n)'
    BY <1>1, <1>2 DEF Deletes
  <2>4. ~Creator(w)
    BY <1>1 DEF Creator, Cloner, Creates, Clones
  <2>5. QED
    BY <1>1, <1>2, <2>1, <2>2, <2>3, <2>4 DEF FilesInv, HardDisks
<1>10. AttachedExist'
  BY <1>1 DEF AttachedExist, Usable
<1>11. QED
  BY <1>3, <1>4, <1>5, <1>6, <1>7, <1>8, <1>9, <1>10

LEMMA SaveSettingsKeepsInv ==
    ASSUME IInv, NEW w \in Workers, SaveSettings(w)
    PROVE  IInv'
<1> USE DEF IInv
<1>1. /\ UNCHANGED <<registered, state, lock, uses, stored, deleting, base,
                     progress, req, result, hand, media, up, erred, overtaken, bare>>
      /\ pc' = [pc EXCEPT ![w] = "unlock"]
      /\ pc[w] = "save" /\ Creator(w)
      /\ files' = files \cup {Name(w)}
      /\ kept' = [kept EXCEPT ![Name(w)] = uses[Name(w)]]
      /\ Name(w) \in Names
  BY BusyFacts DEF SaveSettings, At, Goto, Creator, Busy, images, objects
<1>2. /\ \A v \in Workers \ {w} : pc'[v] = pc[v]
      /\ pc'[w] = "unlock"
      /\ kept'[Name(w)] = uses[Name(w)]
      /\ \A n \in Names \ {Name(w)} : kept'[n] = kept[n]
  BY <1>1 DEF TypeOK
<1>3. lock[Name(w)] = w /\ Name(w) \in registered /\ hand[w] = Name(w)
  BY <1>1, SessionFacts DEF LockInv, Holds
<1>4. TypeOK'
  BY <1>1 DEF TypeOK, Steps
<1>5. PathInv'
  BY <1>1, <1>2 DEF PathInv, Creator, Cloner, Busy
<1>6. CallInv'
  BY <1>1, <1>2 DEF CallInv, Creator, Cloner, Busy, Name, Finished, Waiting
<1>7. LockInv'
  BY <1>1, <1>2 DEF LockInv, Holds, Creator, Cloner, Busy, Name, Creates, Clones
<1>8. MakingInv'
  BY <1>1, <1>2 DEF MakingInv, Creator, Busy, Name, HardDisks
<1>9. MediaInv'
  <2>1. \A n \in Names : kept'[n] # uses'[n] => lock'[n] \in Workers /\ pc'[lock'[n]] = "save"
    BY <1>1, <1>2, <1>3 DEF MediaInv, LockInv
  <2>2. \A n \in Names : kept'[n] \subseteq uses'[n]
    BY <1>1, <1>2 DEF MediaInv
  <2>3. QED
    BY <1>1, <1>2, <2>1, <2>2 DEF MediaInv, Cloner, Busy, Usable
<1>10. FilesInv'
  BY <1>1, <1>2, <1>3 DEF FilesInv, Creator, Cloner, Busy, Name, Deletes, Finished, HardDisks
<1>11. AttachedExist'
  BY <1>1, <1>2 DEF AttachedExist, Usable, TypeOK
<1>12. QED
  BY <1>4, <1>5, <1>6, <1>7, <1>8, <1>9, <1>10, <1>11

LEMMA AttachDevicesKeepsInv ==
    ASSUME IInv, NEW w \in Workers, AttachDevices(w)
    PROVE  IInv'
<1> USE DEF IInv
<1>1. /\ UNCHANGED <<registered, files, state, lock, kept, stored, deleting, base,
                     progress, req, result, hand, media, up, erred, overtaken, bare>>
      /\ pc' = [pc EXCEPT ![w] = "save"]
      /\ pc[w] = "attach" /\ Creator(w)
      /\ uses' = [uses EXCEPT ![Name(w)] = Boots(w)]
      /\ \A m \in Boots(w) : Usable(m)
      /\ Name(w) \in Names
  BY BusyFacts DEF AttachDevices, At, Goto, Creator, Busy, images, objects
<1>2. /\ \A v \in Workers \ {w} : pc'[v] = pc[v]
      /\ pc'[w] = "save"
      /\ uses'[Name(w)] = Boots(w)
      /\ \A n \in Names \ {Name(w)} : uses'[n] = uses[n]
  BY <1>1 DEF TypeOK
<1>3. lock[Name(w)] = w /\ Name(w) \in registered /\ hand[w] = Name(w) /\ Name(w) # Nobody
  BY <1>1, SessionFacts DEF LockInv, Holds
<1>4. uses[Name(w)] = {} /\ kept[Name(w)] = {}
  BY <1>1, <1>3 DEF MakingInv, MediaInv
<1>5. Boots(w) \subseteq Media /\ HardDisks(Boots(w)) # {}
  <2>1. CASE req[w].op = "createVMfromISO"
    <3>1. Boots(w) = {Name(w), Of(w)} /\ Of(w) \in Isos
      BY <1>1, <2>1, BusyFacts DEF Boots, Creator, Busy
    <3>2. QED
      BY <1>1, <3>1, SessionFacts DEF HardDisks
  <2>2. CASE req[w].op = "createVMfromSystemdisk"
    <3>1. Boots(w) = {Of(w)} /\ Of(w) \in Disks
      BY <1>1, <2>2, BusyFacts DEF Boots, Creator, Busy
    <3>2. QED
      BY <3>1, SessionFacts DEF HardDisks
  <2>3. QED
    BY <1>1, <2>1, <2>2 DEF Creator, Creates
<1>6. TypeOK'
  BY <1>1, <1>5 DEF TypeOK, Steps
<1>7. PathInv'
  BY <1>1, <1>2 DEF PathInv, Creator, Cloner, Busy
<1>8. CallInv'
  BY <1>1, <1>2 DEF CallInv, Creator, Cloner, Busy, Name, Finished, Waiting
<1>9. LockInv'
  BY <1>1, <1>2 DEF LockInv, Holds, Creator, Cloner, Busy, Name, Creates, Clones
<1>10. MakingInv'
  <2>1. \A v \in Workers : Creator(v)' <=> Creator(v)
    BY <1>1, <1>2 DEF Creator, Busy
  <2>2. \A v \in Workers : Creator(v) /\ hand[v] # Nobody /\ v # w =>
            Name(v) \in Names /\ Name(v) # Name(w)
    BY <1>1, <1>3, BusyFacts DEF MakingInv, LockInv, Creator, Busy
  <2>3. QED
    BY <1>1, <1>2, <1>5, <2>1, <2>2 DEF MakingInv, Name, HardDisks
<1>11. MediaInv'
  <2>1. \A n \in Names : kept'[n] # uses'[n] => lock'[n] \in Workers /\ pc'[lock'[n]] = "save"
    BY <1>1, <1>2, <1>3 DEF MediaInv
  <2>2. \A n \in Names : /\ n \notin registered' => uses'[n] = {}
                         /\ kept'[n] \subseteq uses'[n]
    BY <1>1, <1>2, <1>3, <1>4 DEF MediaInv
  <2>3. QED
    BY <1>1, <1>2, <2>1, <2>2 DEF MediaInv, Cloner, Busy, Usable
<1>12. FilesInv'
  <2>1. \A v \in Workers : /\ Busy(v)' = Busy(v) /\ Name(v)' = Name(v) /\ Cloner(v)' = Cloner(v)
                           /\ Creator(v)' = Creator(v)
                           /\ \A n \in Names : Deletes(v, n)' = Deletes(v, n)
    BY <1>1, <1>2 DEF Busy, Name, Cloner, Creator, Deletes, Finished
  <2>2. HardDisks(uses'[Name(w)]) # {}
    BY <1>2, <1>5
  <2>3. QED
    BY <1>1, <1>2, <1>3, <2>1, <2>2 DEF FilesInv, HardDisks
<1>13. AttachedExist'
  BY <1>1, <1>2, <1>4 DEF AttachedExist, Usable, TypeOK
<1>14. QED
  BY <1>6, <1>7, <1>8, <1>9, <1>10, <1>11, <1>12, <1>13

\* The server process ends: nothing else changes.
LEMMA ServerEndsKeepsInv ==
    ASSUME IInv, NEW w \in Workers, NullController(w) \/ NullMachine(w) \/ NullErrorInfo(w)
    PROVE  IInv'
<1> USE DEF IInv
<1>1. /\ UNCHANGED <<registered, files, state, lock, uses, kept, stored, deleting, base,
                     progress, pc, req, result, hand, media, erred, overtaken, bare>>
      /\ up' = FALSE
  BY DEF NullController, NullMachine, NullErrorInfo, machines, images, objects
<1>2. TypeOK' /\ PathInv' /\ CallInv'
  BY <1>1 DEF TypeOK, PathInv, CallInv, Creator, Cloner, Busy, Name, Finished, HardDisks
<1>3. LockInv' /\ MakingInv'
  BY <1>1 DEF LockInv, MakingInv, Holds, Creator, Cloner, Busy, Name, HardDisks
<1>4. MediaInv' /\ AttachedExist'
  BY <1>1 DEF MediaInv, AttachedExist, Cloner, Busy, Usable
<1>5. FilesInv'
  BY <1>1 DEF FilesInv, Creator, Cloner, Busy, Name, Deletes, Finished, HardDisks
<1>6. QED
  BY <1>2, <1>3, <1>4, <1>5

-----------------------------------------------------------------------------
(* What happens meanwhile.                                                 *)

\* The process of a machine starts or ends, and sessions that were released
\* without being unlocked are reaped.
LEMMA ProcessKeepsInv ==
    ASSUME IInv, NEW n \in Names, MachineStarts(n) \/ MachineStops(n) \/ Reap(n)
    PROVE  IInv'
<1> USE SessionFacts DEF IInv
<1>1. /\ UNCHANGED <<registered, files, uses, kept, stored, deleting, base, progress,
                     pc, req, result, hand, media, up, erred, overtaken, bare>>
      /\ \/ /\ n \in registered /\ lock[n] = Nobody
            /\ state' = [state EXCEPT ![n] = "Running"]
            /\ lock' = [lock EXCEPT ![n] = Vm]
         \/ /\ lock[n] \in {Vm, Abandoned}
            /\ \E s \in Resting : state' = [state EXCEPT ![n] = s]
            /\ lock' = [lock EXCEPT ![n] = Nobody]
  BY ProvisioningAssumption
  DEF MachineStarts, MachineStops, Reap, images, objects, LockInv, Resting
<1>2. /\ lock[n] \notin Workers /\ lock'[n] \in {Nobody, Vm}
      /\ lock'[n] = Vm => n \in registered
      /\ state'[n] = "Running" => lock'[n] = Vm
      /\ \A x \in Names \ {n} : lock'[x] = lock[x] /\ state'[x] = state[x]
  BY <1>1 DEF TypeOK, Resting
<1>3. /\ state' \in [Names -> Resting \cup {"Running"}]
      /\ lock' \in [Names -> Workers \cup {Nobody, Vm, Abandoned}]
  BY <1>1 DEF TypeOK
<1>4. TypeOK'
  BY <1>1, <1>3 DEF TypeOK
<1>5. PathInv' /\ CallInv'
  BY <1>1 DEF PathInv, CallInv, Creator, Cloner, Busy, Name, Finished, HardDisks
<1>6. \A v \in Workers : /\ Holds(v)' = Holds(v) /\ Creator(v)' = Creator(v)
                         /\ Name(v)' = Name(v)
  BY <1>1 DEF Holds, Creator, Cloner, Busy, Name
<1>7. LockInv'
  <2>1. \A x \in Names : (lock[x] \in Workers => hand[lock[x]] = x /\ Holds(lock[x]))'
    <3> SUFFICES ASSUME NEW x \in Names, lock'[x] \in Workers
                 PROVE  (hand[lock[x]] = x /\ Holds(lock[x]))'
      OBVIOUS
    <3>1. lock'[x] = lock[x] /\ lock[x] \in Workers
      BY <1>2
    <3>2. hand'[lock[x]] = x /\ Holds(lock[x])'
      BY <1>1, <1>6, <3>1 DEF LockInv
    <3>3. QED
      BY <3>1, <3>2 DEF Holds, Creator, Cloner, Busy
  <2>2. \A x \in Names : /\ lock'[x] # Nobody => x \in registered'
                         /\ lock'[x] = Abandoned => MetBy(x, Creates \cup {"cloneLinkVM"})'
                         /\ state'[x] = "Running" => lock'[x] = Vm
    BY <1>1, <1>2 DEF LockInv
  <2>3. \A v \in Workers : (Creator(v) /\ Holds(v))' => (lock[Name(v)] = v)'
    <3> SUFFICES ASSUME NEW v \in Workers, Creator(v)', Holds(v)'
                 PROVE  lock'[Name(v)] = v
      BY <1>6
    <3>1. Name(v) \in Names /\ lock[Name(v)] = v
      BY <1>6, BusyFacts DEF LockInv, Creator, Busy
    <3>2. QED
      BY <1>2, <3>1
  <2>4. \A v \in Workers : /\ pc'[v] \in {"idle", "begin"} => hand'[v] = Nobody
                           /\ hand'[v] # Nobody => hand'[v] \in registered'
                           /\ Creator(v)' => hand'[v] \in {Nobody, Name(v)'}
    BY <1>1, <1>6 DEF LockInv
  <2>5. QED
    BY <2>1, <2>2, <2>3, <2>4 DEF LockInv
<1>8. MakingInv'
  BY <1>1 DEF MakingInv, Creator, Busy, Name, HardDisks
<1>9. MediaInv'
  <2>1. \A x \in Names : kept'[x] # uses'[x] => lock'[x] \in Workers /\ pc'[lock'[x]] = "save"
    BY <1>1, <1>2 DEF MediaInv
  <2>2. QED
    BY <1>1, <2>1 DEF MediaInv, Cloner, Busy, Usable
<1>10. FilesInv'
  BY <1>1 DEF FilesInv, Creator, Cloner, Busy, Name, Deletes, Finished, HardDisks
<1>11. AttachedExist'
  BY <1>1 DEF AttachedExist, Usable
<1>12. QED
  BY <1>4, <1>5, <1>7, <1>8, <1>9, <1>10, <1>11

\* What a worker is doing is the same while VirtualBox works.
LEMMA SameCalls ==
    ASSUME UNCHANGED <<pc, req>>, NEW v \in Workers
    PROVE  /\ Holds(v)' = Holds(v) /\ Creator(v)' = Creator(v) /\ Cloner(v)' = Cloner(v)
           /\ Busy(v)' = Busy(v) /\ Name(v)' = Name(v) /\ Of(v)' = Of(v)
  BY DEF Holds, Creator, Cloner, Busy, Name, Of

\* Whatever changes the media only leaves the locks as they are.
LEMMA SameLocks ==
    ASSUME IInv, UNCHANGED <<registered, state, lock, uses, kept, pc, req, hand, bare>>,
           \A n \in Names : erred[n] \subseteq erred'[n]
    PROVE  /\ PathInv' /\ LockInv' /\ MakingInv'
  BY DEF IInv, PathInv, LockInv, MakingInv, Holds, Creator, Cloner, Busy, Name, HardDisks

\* A progress ends that nothing but its result is seen of.
LEMMA ProgressKeepsInv ==
    ASSUME IInv, NEW w \in Workers, ProgressDone(w) \/ ProgressFails(w)
    PROVE  IInv'
<1> USE DEF IInv
<1>1. /\ UNCHANGED <<registered, files, state, lock, uses, kept, stored, deleting, base,
                     pc, req, result, hand, media, up, overtaken, bare>>
      /\ pc[w] \in Waiting \ {"deletingConfig"}
      /\ progress[w] = "running"
      /\ \/ /\ progress' = [progress EXCEPT ![w] = "done"] /\ erred' = erred
            /\ pc[w] \in {"snapshot", "exporting", "reading"}
         \/ /\ progress' = [progress EXCEPT ![w] = "failed"]
            /\ Met(w, {Name(w)})
  BY DEF ProgressDone, ProgressFails, Ends, machines, images, objects, Waiting
<1>2. /\ \A v \in Workers \ {w} : progress'[v] = progress[v]
      /\ progress'[w] = "done" => pc[w] \in {"snapshot", "exporting", "reading"}
      /\ progress'[w] = "failed" /\ req[w].op \in MakesOrDeletes => req[w].op \in erred'[Name(w)]
      /\ progress'[w] \in {"done", "failed"}
      /\ ErrsMore
  <2>1. pc[w] # "idle"
    BY <1>1 DEF Waiting
  <2>2. req[w].op \in MakesOrDeletes => Name(w) \in Names
    BY <2>1, BusyFacts DEF MakesOrDeletes, Creates, Clones
  <2>3. CASE erred' = erred /\ progress' = [progress EXCEPT ![w] = "done"]
    BY <1>1, <2>3 DEF TypeOK, ErrsMore
  <2>4. CASE Met(w, {Name(w)}) /\ progress' = [progress EXCEPT ![w] = "failed"]
    BY <2>2, <2>4, MetFacts DEF TypeOK
  <2>5. QED
    BY <1>1, <2>3, <2>4
<1>3. \A n \in Names : erred[n] \subseteq erred'[n]
  BY <1>2 DEF ErrsMore
<1>4. TypeOK'
  BY <1>1, <1>2 DEF TypeOK, ErrsMore
<1>5. PathInv' /\ LockInv' /\ MakingInv'
  BY <1>1, <1>3, SameLocks
<1>6. CallInv'
  <2>1. \A v \in Workers \ {w} : progress[v] = "failed" /\ req[v].op \in MakesOrDeletes =>
            Name(v) \in Names
    BY BusyFacts DEF CallInv, Waiting, MakesOrDeletes, Creates, Clones
  <2>2. QED
    BY <1>1, <1>2, <1>3, <2>1, SameCalls DEF CallInv, Finished, Waiting
<1>7. MediaInv'
  BY <1>1 DEF MediaInv, Cloner, Busy, Usable
<1>8. FilesInv'
  <2>1. \A v \in Workers, n \in Names : Deletes(v, n)' <=> Deletes(v, n)
    BY <1>1, <1>2 DEF Deletes, Name, Finished, CallInv, Waiting
  <2>2. QED
    BY <1>1, <1>2, <1>3, <2>1, SameCalls DEF FilesInv, HardDisks
<1>9. AttachedExist'
  BY <1>1 DEF AttachedExist, Usable
<1>10. QED
  BY <1>4, <1>5, <1>6, <1>7, <1>8, <1>9

LEMMA StorageCreatedKeepsInv ==
    ASSUME IInv, NEW w \in Workers, StorageCreated(w)
    PROVE  IInv'
<1> USE DEF IInv
<1>1. /\ UNCHANGED <<registered, files, state, lock, uses, kept, deleting, base,
                     pc, req, result, hand, media, up, erred, overtaken, bare>>
      /\ pc[w] = "storage" /\ progress[w] = "running"
      /\ progress' = [progress EXCEPT ![w] = "done"]
      /\ stored' = stored \cup {Name(w)} /\ Name(w) \notin stored
  BY DEF StorageCreated, Ends, machines, objects
<1>2. /\ \A v \in Workers \ {w} : progress'[v] = progress[v]
      /\ progress'[w] = "done"
  BY <1>1 DEF TypeOK
<1>3. pc[w] # "idle" /\ Name(w) \in Names
  <2>1. req[w].op # "destroyFloatDiskWithoutAttach"
    BY <1>1 DEF PathInv, Creator, Creates
  <2>2. QED
    BY <1>1, <2>1, BusyFacts
<1>4. TypeOK'
  BY <1>1, <1>3, SessionFacts DEF TypeOK
<1>5. PathInv' /\ LockInv' /\ MakingInv'
  BY <1>1, SameLocks
<1>6. CallInv'
  BY <1>1, <1>2, SameCalls DEF CallInv, Finished, Waiting, Cloner
<1>7. base[Name(w)] = Nobody
  BY <1>1, <1>3 DEF MediaInv
<1>8. MediaInv'
  BY <1>1, SameCalls DEF MediaInv, Usable
<1>9. FilesInv'
  <2>1. \A v \in Workers, n \in Names : Deletes(v, n)' <=> Deletes(v, n)
    BY <1>1, <1>2 DEF Deletes, Name, Finished
  <2>2. QED
    BY <1>1, <1>2, <2>1, SameCalls DEF FilesInv, HardDisks
<1>10. AttachedExist'
  BY <1>1, <1>7 DEF AttachedExist, Usable
<1>11. QED
  BY <1>4, <1>5, <1>6, <1>8, <1>9, <1>10

LEMMA MachineImportedKeepsInv ==
    ASSUME IInv, NEW w \in Workers, MachineImported(w)
    PROVE  IInv'
<1> USE DEF IInv
<1>1. /\ UNCHANGED <<registered, state, lock, uses, kept, stored, deleting, base,
                     pc, req, result, hand, media, up, erred, overtaken, bare>>
      /\ pc[w] = "importing" /\ progress[w] = "running"
      /\ progress' = [progress EXCEPT ![w] = "done"]
      /\ files' = files \cup {Name(w)}
  BY DEF MachineImported, Ends, images, objects
<1>2. /\ \A v \in Workers \ {w} : progress'[v] = progress[v]
      /\ progress'[w] = "done"
  BY <1>1 DEF TypeOK
<1>3. pc[w] # "idle" /\ Name(w) \in Names
  <2>1. req[w].op # "destroyFloatDiskWithoutAttach"
    BY <1>1 DEF PathInv
  <2>2. QED
    BY <1>1, <2>1, BusyFacts
<1>4. TypeOK'
  BY <1>1, <1>3 DEF TypeOK
<1>5. PathInv' /\ LockInv' /\ MakingInv'
  BY <1>1, SameLocks
<1>6. CallInv'
  BY <1>1, <1>2, SameCalls DEF CallInv, Finished, Waiting, Cloner
<1>7. MediaInv'
  BY <1>1, SameCalls DEF MediaInv, Usable
<1>8. FilesInv'
  <2>1. \A v \in Workers, n \in Names : Deletes(v, n)' <=> Deletes(v, n)
    BY <1>1, <1>2 DEF Deletes, Name, Finished
  <2>2. Busy(w) /\ Busy(w)' /\ Name(w)' = Name(w) /\ pc'[w] = "importing"
    BY <1>1, <1>3, SameCalls DEF Busy
  <2>3. QED
    BY <1>1, <1>2, <2>1, <2>2, SameCalls DEF FilesInv, HardDisks
<1>9. AttachedExist'
  BY <1>1 DEF AttachedExist, Usable
<1>10. QED
  BY <1>4, <1>5, <1>6, <1>7, <1>8, <1>9

\* What is in use is never among the images that go.
LEMMA UseFacts ==
    ASSUME IInv
    PROVE  /\ \A n \in registered : \A m \in uses[n] \cup kept[n] :
                 m \in Media /\ InUse(m) /\ Usable(m)
           /\ \A n \in stored \cap Names : base[n] # Nobody =>
                 base[n] \in Media /\ InUse(base[n]) /\ Usable(base[n])
           /\ \A v \in Workers : Cloner(v) => \A m \in media[v] :
                 m \in Media /\ InUse(m) /\ Usable(m)
<1> USE DEF IInv
<1>1. \A n \in registered : \A m \in uses[n] \cup kept[n] :
         m \in Media /\ InUse(m) /\ Usable(m)
  BY DEF AttachedExist, InUse, Attached, TypeOK, MediaInv
<1>2. \A n \in stored \cap Names : base[n] # Nobody =>
         base[n] \in Media /\ InUse(base[n]) /\ Usable(base[n])
  BY DEF AttachedExist, InUse, TypeOK
<1>3. \A v \in Workers : Cloner(v) => \A m \in media[v] :
         m \in Media /\ InUse(m) /\ Usable(m)
  <2> SUFFICES ASSUME NEW v \in Workers, Cloner(v), NEW m \in media[v]
               PROVE  m \in Media /\ InUse(m) /\ Usable(m)
    OBVIOUS
  <2>1. pc[v] \in {"cloning", "register"}
    BY DEF CallInv, PathInv, Cloner, Clones
  <2>2. QED
    BY <2>1 DEF InUse, Attached, MediaInv, TypeOK
<1>4. QED
  BY <1>1, <1>2, <1>3

\* Images that are not in use are deleted, and nothing else becomes unusable.
LEMMA ImagesGo ==
    ASSUME IInv, NEW gone \in SUBSET Media,
           UNCHANGED <<registered, uses, kept, pc, req, lock, media>>,
           deleting' \subseteq deleting,
           \A m \in deleting : m \in deleting' => m \notin gone,
           stored' = stored \ gone,
           base' = Unbased(gone),
           \A m \in gone : ~(InUse(m) /\ Usable(m))
    PROVE  MediaInv' /\ AttachedExist'
<1> USE DEF IInv
<1>1. \A m \in Media : InUse(m) /\ Usable(m) => Usable(m)'
  BY DEF Usable
<1>2. \A n \in Names : base'[n] # Nobody => base'[n] = base[n] /\ n \in stored'
  BY DEF Unbased, MediaInv
<1>3. MediaInv'
  <2>1. deleting' \subseteq stored'
    BY DEF MediaInv
  <2>2. \A v \in Workers : Cloner(v)' => \A m \in media'[v] : Usable(m)'
    BY <1>1, UseFacts, SameCalls
  <2>3. QED
    BY <1>2, <2>1, <2>2 DEF MediaInv
<1>4. AttachedExist'
  <2>1. \A n \in stored' \cap Names : base'[n] # Nobody => base'[n] \in stored' \ deleting'
    BY <1>1, <1>2, UseFacts DEF Usable
  <2>2. \A n \in registered : \A m \in uses[n] \cup kept[n] : m \in stored' \ deleting'
    BY <1>1, UseFacts DEF Usable
  <2>3. QED
    BY <2>1, <2>2 DEF AttachedExist, Usable
<1>5. QED
  BY <1>3, <1>4

LEMMA StorageDeletedKeepsInv ==
    ASSUME IInv, NEW m \in Media, StorageDeleted(m)
    PROVE  IInv'
<1> USE DEF IInv
<1>1. /\ UNCHANGED <<registered, files, state, lock, uses, kept, progress,
                     pc, req, result, hand, media, up, erred, overtaken, bare>>
      /\ m \in deleting /\ deleting' = deleting \ {m}
      /\ \/ stored' = stored \ {m} /\ base' = Unbased({m})
         \/ stored' = stored /\ base' = base
  BY DEF StorageDeleted, machines, objects
<1>2. PICK gone \in SUBSET {m} : stored' = stored \ gone /\ base' = Unbased(gone)
  <2>1. CASE stored' = stored /\ base' = base
    <3>1. base' = Unbased({}) /\ stored' = stored \ {}
      BY <2>1 DEF Unbased, TypeOK
    <3>2. QED
      BY <3>1
  <2>2. CASE stored' = stored \ {m} /\ base' = Unbased({m})
    BY <2>2
  <2>3. QED
    BY <1>1, <2>1, <2>2
<1>3. ~Usable(m)
  BY <1>1 DEF Usable
<1>4. MediaInv' /\ AttachedExist'
  BY <1>1, <1>2, <1>3, ImagesGo
<1>5. TypeOK'
  BY <1>1, <1>2 DEF TypeOK, Unbased
<1>6. PathInv' /\ LockInv' /\ MakingInv'
  BY <1>1, SameLocks
<1>7. CallInv'
  BY <1>1 DEF CallInv, Cloner, Busy, Name, Finished, HardDisks
<1>8. FilesInv'
  BY <1>1 DEF FilesInv, Creator, Cloner, Busy, Name, Deletes, Finished, HardDisks
<1>9. QED
  BY <1>4, <1>5, <1>6, <1>7, <1>8

LEMMA ConfigDeletedKeepsInv ==
    ASSUME IInv, NEW w \in Workers, NEW how \in {"done", "failed"}, ConfigDeleted(w, how)
    PROVE  IInv'
<1> USE DEF IInv
<1>1. /\ UNCHANGED <<registered, state, lock, uses, kept, deleting,
                     pc, req, result, hand, media, up, overtaken, bare>>
      /\ pc[w] = "deletingConfig" /\ progress[w] = "running"
      /\ progress' = [progress EXCEPT ![w] = how]
      /\ files' = IF how = "done" THEN files \ {Name(w)} ELSE files
      /\ Met(w, IF how = "done" THEN {} ELSE {Name(w)})
  BY DEF ConfigDeleted, Ends, objects
<1>2. PICK gone \in SUBSET {m \in media[w] : Usable(m) /\ ~InUse(m)} :
         stored' = stored \ gone /\ base' = Unbased(gone)
  BY DEF ConfigDeleted
<1>3. gone \in SUBSET Media /\ \A m \in gone : ~InUse(m) /\ m \notin deleting
  BY DEF TypeOK, Usable
<1>4. /\ \A v \in Workers \ {w} : progress'[v] = progress[v]
      /\ progress'[w] = how
      /\ ErrsMore /\ \A n \in Names : erred[n] \subseteq erred'[n]
  BY <1>1, MetFacts DEF TypeOK, ErrsMore
<1>5. /\ pc[w] # "idle" /\ Name(w) \in Names /\ req[w].op = "deleteVM"
      /\ how = "failed" => "deleteVM" \in erred'[Name(w)]
  <2>1. pc[w] # "idle" /\ Name(w) \in Names /\ req[w].op = "deleteVM"
    BY <1>1, BusyFacts DEF PathInv
  <2>2. QED
    BY <1>1, <2>1, MetFacts DEF MakesOrDeletes
<1>6. MediaInv' /\ AttachedExist'
  BY <1>1, <1>2, <1>3, ImagesGo
<1>7. TypeOK'
  BY <1>1, <1>2, <1>3, <1>4, <1>5 DEF TypeOK, ErrsMore, Unbased
<1>8. PathInv' /\ LockInv' /\ MakingInv'
  BY <1>1, <1>4, SameLocks
<1>9. CallInv'
  <2>1. \A v \in Workers \ {w} : progress[v] = "failed" /\ req[v].op \in MakesOrDeletes =>
            Name(v) \in Names
    BY BusyFacts DEF CallInv, Waiting, MakesOrDeletes, Creates, Clones
  <2>2. QED
    BY <1>1, <1>4, <1>5, <2>1, SameCalls DEF CallInv, Finished, Waiting, Cloner, Clones
<1>10. FilesInv'
  <2>1. \A v \in Workers, n \in Names : Deletes(v, n)' => Deletes(v, n)
    BY <1>1, <1>4 DEF Deletes, Name, Finished
  <2>2. \A v \in Workers, n \in Names : Deletes(v, n) /\ n # Name(w) => Deletes(v, n)'
    BY <1>1, <1>4 DEF Deletes, Name, Finished
  <2>3. Name(w) \in registered => Name(w) \in overtaken
    BY <1>1, <1>5 DEF FilesInv, Deletes, Finished
  <2>4. Name(w) \notin files' \/ "deleteVM" \in erred'[Name(w)]
    BY <1>1, <1>5
  <2>5. \A n \in Names \ {Name(w)} : n \in files' <=> n \in files
    BY <1>1
  <2>6. \A n \in Names : n \in files' => n \in files
    BY <1>1
  <2>7. QED
    BY <1>1, <1>4, <2>1, <2>2, <2>3, <2>4, <2>5, <2>6, SameCalls DEF FilesInv, HardDisks
<1>11. QED
  BY <1>6, <1>7, <1>8, <1>9, <1>10

LEMMA MachineClonedKeepsInv ==
    ASSUME IInv, NEW w \in Workers, MachineCloned(w)
    PROVE  IInv'
<1> USE SessionFacts DEF IInv
<1>1. pc[w] = "cloning" /\ Cloner(w) /\ Name(w) \in Names /\ Of(w) \in Names
  BY BusyFacts DEF MachineCloned, PathInv
<1>2. PICK d \in HardDisks(uses[Of(w)]) \cup {Nobody} :
         base' = [base EXCEPT ![Name(w)] = IF HardDisks(uses[Of(w)]) = {} THEN @ ELSE d]
  BY DEF MachineCloned
<1> DEFINE disks == HardDisks(uses[Of(w)])
           new == (uses[Of(w)] \cap Isos) \cup {n \in {Name(w)} : disks # {}}
<1>3. /\ UNCHANGED <<registered, files, state, lock, uses, kept, deleting,
                     pc, req, result, hand, up, erred, overtaken, bare>>
      /\ progress[w] = "running"
      /\ progress' = [progress EXCEPT ![w] = "done"]
      /\ media' = [media EXCEPT ![w] = new]
      /\ stored' = stored \cup media'[w]
      /\ hand[w] = Of(w)
      /\ \A m \in uses[Of(w)] : Usable(m)
      /\ disks # {} => Name(w) \notin stored
  BY DEF MachineCloned, Ends, machines
<1>4. /\ \A v \in Workers \ {w} : progress'[v] = progress[v] /\ media'[v] = media[v]
      /\ progress'[w] = "done"
      /\ media'[w] = new
      /\ stored' = stored \cup new
  BY <1>3 DEF TypeOK
<1>5. new \subseteq Media /\ disks \subseteq Media
  BY <1>1 DEF TypeOK, HardDisks
<1>6. \A m \in stored : Usable(m) => Usable(m)'
  BY <1>3, <1>4 DEF Usable
<1>7. \A m \in new : Usable(m)'
  BY <1>3, <1>4 DEF Usable, MediaInv
<1>8. TypeOK'
  BY <1>1, <1>2, <1>3, <1>4, <1>5 DEF TypeOK
<1>9. PathInv' /\ LockInv' /\ MakingInv'
  BY <1>3, <1>4, SameLocks
<1>10. CallInv'
  BY <1>1, <1>3, <1>4, SameCalls DEF CallInv, Finished, Waiting, HardDisks
<1>11. \A n \in Names : base'[n] # Nobody =>
          n \in stored' /\ (base'[n] = base[n] \/ base'[n] \in disks)
  BY <1>1, <1>2, <1>4 DEF TypeOK, MediaInv
<1>12. MediaInv'
  <2>1. deleting' \subseteq stored'
    BY <1>3, <1>4 DEF MediaInv
  <2>2. \A v \in Workers : Cloner(v)' => \A m \in media'[v] : Usable(m)'
    <3> SUFFICES ASSUME NEW v \in Workers, Cloner(v)', NEW m \in media'[v]
                 PROVE  Usable(m)'
      OBVIOUS
    <3>1. CASE v = w
      BY <1>4, <1>7, <3>1
    <3>2. CASE v # w
      BY <1>3, <1>4, <1>6, <3>2, SameCalls DEF MediaInv, Usable
    <3>3. QED
      BY <3>1, <3>2
  <2>3. QED
    BY <1>3, <1>11, <2>1, <2>2 DEF MediaInv
<1>13. FilesInv'
  <2>1. \A v \in Workers, n \in Names : Deletes(v, n)' <=> Deletes(v, n)
    BY <1>1, <1>3, <1>4 DEF Deletes, Name, Finished
  <2>2. QED
    BY <1>3, <1>4, <2>1, SameCalls DEF FilesInv, HardDisks
<1>14. AttachedExist'
  <2>1. \A m \in stored \ deleting : m \in stored' \ deleting'
    BY <1>3, <1>4
  <2>2. \A n \in registered' : \A m \in uses'[n] \cup kept'[n] : m \in stored' \ deleting'
    BY <1>3, <2>1 DEF AttachedExist, Usable
  <2>3. \A n \in stored' \cap Names : base'[n] # Nobody => base'[n] \in stored' \ deleting'
    <3> SUFFICES ASSUME NEW n \in stored' \cap Names, base'[n] # Nobody
                 PROVE  base'[n] \in stored' \ deleting'
      OBVIOUS
    <3>1. CASE base'[n] = base[n]
      BY <2>1, <3>1 DEF AttachedExist, MediaInv, Usable
    <3>2. CASE base'[n] \in disks
      BY <1>3, <2>1, <3>2 DEF HardDisks, Usable
    <3>3. QED
      BY <1>11, <3>1, <3>2
  <2>4. QED
    BY <2>2, <2>3 DEF AttachedExist, Usable
<1>15. QED
  BY <1>8, <1>9, <1>10, <1>12, <1>13, <1>14

-----------------------------------------------------------------------------
(* Machines are registered and unregistered.                               *)

LEMMA RegisterMachineKeepsInv ==
    ASSUME IInv, NEW w \in Workers, RegisterMachine(w)
    PROVE  IInv'
<1> USE SessionFacts DEF IInv
<1> DEFINE n == Name(w)
<1>1. /\ UNCHANGED <<state, lock, stored, deleting, base, up, erred>>
      /\ pc[w] = "register" /\ (Creator(w) \/ Cloner(w))
      /\ n \notin registered
      /\ registered' = registered \cup {n}
      /\ files' = files \cup {n}
      /\ uses' = [uses EXCEPT ![n] = media[w]]
      /\ kept' = [kept EXCEPT ![n] = media[w]]
      /\ overtaken' = overtaken \cup {x \in {n} : \E v \in Workers : Deletes(v, x)}
      /\ bare' = bare \cup {x \in {n} : progress[w] = "done" /\ HardDisks(media[w]) = {}}
  BY DEF RegisterMachine, At, Goto, Answer, Creator, Cloner, Busy, images
<1>2. pc[w] = "register" /\ n \in Names
  BY <1>1, BusyFacts DEF RegisterMachine, At
<1>3. \/ /\ Cloner(w) /\ ~Creator(w)
         /\ pc' = [pc EXCEPT ![w] = "idle"] /\ req' = [req EXCEPT ![w] = Nobody]
         /\ result' \in [Workers -> {"true", "false", "none"}]
         /\ progress' = [progress EXCEPT ![w] = "none"]
         /\ hand' = [hand EXCEPT ![w] = Nobody] /\ media' = [media EXCEPT ![w] = {}]
      \/ /\ Creator(w) /\ ~Cloner(w)
         /\ pc' = [pc EXCEPT ![w] = "lock"] /\ req' = req /\ result' = result
         /\ hand' = [hand EXCEPT ![w] = n] /\ progress' = progress /\ media' = media
  BY <1>1 DEF RegisterMachine, Answer, Goto, Creator, Cloner, Creates, Clones, TypeOK
<1>4. /\ Creator(w) => progress[w] = "none" /\ media[w] = {}
      /\ \A m \in media[w] : Usable(m)
      /\ Cloner(w) => MetBy(n, Creates \cup Clones) \/ progress[w] = "done"
  <2>1. Creator(w) => progress[w] = "none" /\ media[w] = {}
    BY <1>2 DEF CallInv, Waiting, Creator, Cloner, Creates, Clones
  <2>2. Cloner(w) => MetBy(n, Creates \cup Clones) \/ progress[w] = "done"
    BY <1>2 DEF CallInv, Finished, Cloner, MakesOrDeletes
  <2>3. QED
    BY <1>1, <2>1, <2>2 DEF MediaInv
<1>5. /\ \A v \in Workers \ {w} : /\ pc'[v] = pc[v] /\ req'[v] = req[v]
                                   /\ progress'[v] = progress[v]
                                   /\ hand'[v] = hand[v] /\ media'[v] = media[v]
      /\ uses'[n] = media[w] /\ kept'[n] = media[w]
      /\ \A x \in Names \ {n} : uses'[x] = uses[x] /\ kept'[x] = kept[x]
      /\ Creator(w) => /\ pc'[w] = "lock" /\ req'[w] = req[w] /\ hand'[w] = n
                       /\ progress'[w] = progress[w] /\ media'[w] = media[w]
      /\ Cloner(w) => /\ pc'[w] = "idle" /\ req'[w] = Nobody /\ hand'[w] = Nobody
                      /\ progress'[w] = "none" /\ media'[w] = {}
  BY <1>1, <1>2, <1>3 DEF TypeOK
<1>6. lock[n] = Nobody /\ \A v \in Workers : hand[v] # n
  BY <1>1, <1>2 DEF LockInv
<1>7. TypeOK'
  BY <1>1, <1>2, <1>3 DEF TypeOK, Steps
<1>8. PathInv'
  BY <1>1, <1>5 DEF PathInv, Creator, Cloner, Busy
<1>9. CallInv'
  BY <1>1, <1>2, <1>4, <1>5 DEF CallInv, Waiting, Creator, Cloner, Busy, Name, Finished
<1>10. /\ ~Holds(w) /\ ~Holds(w)'
       /\ \A v \in Workers \ {w} : /\ Holds(v)' = Holds(v) /\ Creator(v)' = Creator(v)
                                   /\ Cloner(v)' = Cloner(v) /\ Name(v)' = Name(v)
                                   /\ Busy(v)' = Busy(v)
                                   /\ \A x \in Names : Deletes(v, x)' = Deletes(v, x)
       /\ Creator(w) => Creator(w)' /\ Name(w)' = n
       /\ Cloner(w) => ~Creator(w)'
       /\ ~Cloner(w)'
  BY <1>1, <1>2, <1>3, <1>5 DEF Holds, Creator, Cloner, Busy, Name, Deletes, Finished
<1>11. LockInv'
  <2>1. \A x \in Names : (lock[x] \in Workers => hand[lock[x]] = x /\ Holds(lock[x]))'
    <3> SUFFICES ASSUME NEW x \in Names, lock'[x] \in Workers
                 PROVE  (hand[lock[x]] = x /\ Holds(lock[x]))'
      OBVIOUS
    <3>1. lock'[x] = lock[x] /\ lock[x] \in Workers \ {w}
      BY <1>1, <1>10 DEF LockInv
    <3>2. hand'[lock[x]] = x /\ Holds(lock[x])'
      BY <1>1, <1>5, <1>10, <3>1 DEF LockInv
    <3>3. QED
      BY <3>1, <3>2 DEF Holds, Creator, Cloner, Busy
  <2>2. \A x \in Names : /\ lock'[x] # Nobody => x \in registered'
                         /\ lock'[x] = Abandoned => MetBy(x, Creates \cup {"cloneLinkVM"})'
                         /\ state'[x] = "Running" => lock'[x] = Vm
    BY <1>1 DEF LockInv
  <2>3. \A v \in Workers : (Creator(v) /\ Holds(v))' => (lock[Name(v)] = v)'
    <3> SUFFICES ASSUME NEW v \in Workers, Creator(v)', Holds(v)'
                 PROVE  (lock[Name(v)] = v)'
      OBVIOUS
    <3>1. v # w /\ lock[Name(v)] = v
      BY <1>10 DEF LockInv
    <3>2. QED
      BY <1>1, <1>5, <3>1 DEF Name
  <2>4. \A v \in Workers : /\ pc'[v] \in {"idle", "begin"} => hand'[v] = Nobody
                           /\ hand'[v] # Nobody => hand'[v] \in registered'
                           /\ Creator(v)' => hand'[v] \in {Nobody, Name(v)'}
    BY <1>1, <1>5, <1>10 DEF LockInv
  <2>5. QED
    BY <2>1, <2>2, <2>3, <2>4 DEF LockInv
<1>12. MakingInv'
  <2> SUFFICES ASSUME NEW v \in Workers, Creator(v)', hand'[v] # Nobody
               PROVE  /\ pc'[v] \in {"lock", "disk", "storage", "attach"} => uses'[Name(v)'] = {}
                      /\ pc'[v] \in {"save", "unlock"} => HardDisks(uses'[Name(v)']) # {}
                      /\ \A x \in Workers : Creator(x)' /\ hand'[x] = hand'[v] => x = v
                      /\ Name(v)' \notin bare'
    BY DEF MakingInv, HardDisks, Name
  <2>1. /\ Creator(w) => n \notin bare'
        /\ \A x \in Names \ {n} : x \in bare' => x \in bare
    BY <1>1, <1>4 DEF TypeOK
  <2>2. CASE v = w
    BY <1>1, <1>3, <1>4, <1>5, <1>6, <1>10, <2>2, <2>1 DEF Name
  <2>3. CASE v # w
    <3>1. Creator(v) /\ hand[v] = Name(v) /\ Name(v) \in Names \ {n}
      BY <1>5, <1>6, <1>10, <2>3, BusyFacts DEF LockInv, Creator, Busy
    <3>2. \A x \in Workers : Creator(x)' /\ hand'[x] = hand'[v] => x = v
      BY <1>1, <1>5, <1>6, <1>10, <2>3, <3>1 DEF MakingInv
    <3>3. QED
      BY <1>5, <1>10, <2>3, <2>1, <3>1, <3>2 DEF MakingInv
  <2>4. QED
    BY <2>2, <2>3
<1>13. MediaInv'
  <2>1. \A x \in Names : kept'[x] # uses'[x] => lock'[x] \in Workers /\ pc'[lock'[x]] = "save"
    BY <1>1, <1>2, <1>5 DEF MediaInv
  <2>2. \A x \in Names : /\ x \notin registered' => uses'[x] = {}
                         /\ kept'[x] \subseteq uses'[x]
                         /\ base'[x] # Nobody => x \in stored'
    BY <1>1, <1>5 DEF MediaInv
  <2>3. \A v \in Workers : Cloner(v)' => \A m \in media'[v] : Usable(m)'
    BY <1>1, <1>5, <1>10 DEF MediaInv, Usable
  <2>4. QED
    BY <1>1, <2>1, <2>2, <2>3 DEF MediaInv
<1>14. FilesInv'
  <2> SUFFICES ASSUME NEW x \in Names
               PROVE  /\ x \in registered' \ overtaken' =>
                            x \in files' /\ \A v \in Workers : ~Deletes(v, x)'
                      /\ x \in files' \ registered' =>
                            \/ MetBy(x, Clones \cup {"deleteVM"})'
                            \/ \E v \in Workers :
                                  /\ Busy(v)' /\ Name(v)' = x
                                  /\ \/ Cloner(v)' /\ pc'[v] \in {"cloneTo", "cloning", "register"}
                                     \/ Deletes(v, x)'
                                     \/ pc'[v] = "importing"
                      /\ x \in registered' /\ HardDisks(uses'[x]) = {} =>
                            \/ MetBy(x, Creates \cup Clones)' \/ x \in bare'
                            \/ \E v \in Workers :
                                  /\ Creator(v)' /\ hand'[v] = x
                                  /\ pc'[v] \in {"lock", "disk", "storage", "attach"}
    BY DEF FilesInv, HardDisks
  <2>1. ~Deletes(w, x)'
    BY <1>1, <1>5 DEF Deletes
  <2>2. CASE x = n
    <3>1. n \notin overtaken' => \A v \in Workers : ~Deletes(v, n)
      BY <1>1, <2>2
    <3>2. HardDisks(uses'[n]) = {} => Creator(w) \/ MetBy(n, Creates \cup Clones) \/ n \in bare'
      BY <1>1, <1>4, <1>5, <2>1, <2>2
    <3>3. QED
      BY <1>1, <1>5, <1>10, <2>1, <2>2, <3>1, <3>2
  <2>3. CASE x # n
    <3>1. x \in registered' \ overtaken' => x \in files' /\ \A v \in Workers : ~Deletes(v, x)'
      BY <1>1, <1>10, <2>1, <2>3 DEF FilesInv
    <3>2. ASSUME x \in files' \ registered', ~MetBy(x, Clones \cup {"deleteVM"})
          PROVE  \E v \in Workers :
                    /\ Busy(v)' /\ Name(v)' = x
                    /\ \/ Cloner(v)' /\ pc'[v] \in {"cloneTo", "cloning", "register"}
                       \/ Deletes(v, x)'
                       \/ pc'[v] = "importing"
      <4>1. PICK v \in Workers : /\ Busy(v) /\ Name(v) = x
                                 /\ \/ Cloner(v) /\ pc[v] \in {"cloneTo", "cloning", "register"}
                                    \/ Deletes(v, x)
                                    \/ pc[v] = "importing"
        BY <1>1, <2>3, <3>2 DEF FilesInv
      <4>2. v # w
        BY <2>3, <4>1
      <4>3. QED
        BY <1>5, <1>10, <4>1, <4>2
    <3>3. ASSUME x \in registered', HardDisks(uses'[x]) = {}, ~MetBy(x, Creates \cup Clones),
                 x \notin bare'
          PROVE  \E v \in Workers :
                    /\ Creator(v)' /\ hand'[v] = x
                    /\ pc'[v] \in {"lock", "disk", "storage", "attach"}
      <4>1. PICK v \in Workers : /\ Creator(v) /\ hand[v] = x
                                 /\ pc[v] \in {"lock", "disk", "storage", "attach"}
        BY <1>1, <1>5, <2>3, <3>3 DEF FilesInv
      <4>2. v # w
        BY <1>2, <4>1
      <4>3. QED
        BY <1>5, <1>10, <4>1, <4>2
    <3>4. QED
      BY <1>1, <3>1, <3>2, <3>3
  <2>4. QED
    BY <2>2, <2>3
<1>15. AttachedExist'
  <2>1. \A x \in registered' : \A m \in uses'[x] \cup kept'[x] : m \in stored' \ deleting'
    BY <1>1, <1>4, <1>5 DEF AttachedExist, Usable, TypeOK
  <2>2. QED
    BY <1>1, <2>1 DEF AttachedExist, Usable
<1>16. QED
  BY <1>7, <1>8, <1>9, <1>11, <1>12, <1>13, <1>14, <1>15

LEMMA UnregisterKeepsInv ==
    ASSUME IInv, NEW w \in Workers, Unregister(w)
    PROVE  IInv'
<1> USE SessionFacts DEF IInv
<1> DEFINE n == Name(w)
<1>1. /\ UNCHANGED <<files, lock, stored, deleting, base, progress, req, result, up, erred>>
      /\ pc[w] = "unregister" /\ req[w].op = "deleteVM"
      /\ hand[w] = n /\ lock[n] = Nobody
      /\ registered' = registered \ {n}
      /\ overtaken' = overtaken \ {n} /\ bare' = bare \ {n}
      /\ hand' = [v \in Workers |-> IF hand[v] = n THEN Nobody ELSE hand[v]]
      /\ media' = [media EXCEPT ![w] = Returned(req[w].as, uses[n])]
      /\ uses' = [uses EXCEPT ![n] = {}]
      /\ kept' = [kept EXCEPT ![n] = {}]
      /\ state' = [state EXCEPT ![n] = "PoweredOff"]
      /\ pc' = [pc EXCEPT ![w] = "deleteConfig"]
  BY DEF Unregister, At, Goto, images
<1>2. n \in Names /\ n \in registered /\ progress[w] = "none"
  BY <1>1, BusyFacts DEF LockInv, CallInv, Waiting
<1>3. /\ \A v \in Workers \ {w} : pc'[v] = pc[v] /\ media'[v] = media[v]
      /\ \A v \in Workers : hand'[v] = IF hand[v] = n THEN Nobody ELSE hand[v]
      /\ pc'[w] = "deleteConfig"
      /\ uses'[n] = {} /\ kept'[n] = {} /\ state'[n] = "PoweredOff"
      /\ \A x \in Names \ {n} : uses'[x] = uses[x] /\ kept'[x] = kept[x] /\ state'[x] = state[x]
  BY <1>1, <1>2 DEF TypeOK
<1>4. Returned(req[w].as, uses[n]) \subseteq Media
  BY <1>2 DEF Returned, HardDisks, TypeOK
<1>5. TypeOK'
  BY <1>1, <1>4 DEF TypeOK, Steps, Resting
<1>6. PathInv'
  BY <1>1, <1>3 DEF PathInv, Creator, Cloner, Busy
<1>7. CallInv'
  BY <1>1, <1>2, <1>3 DEF CallInv, Waiting, Creator, Cloner, Clones, Busy, Name, Finished
<1>8. \A v \in Workers : /\ Holds(v)' = Holds(v) /\ Creator(v)' = Creator(v)
                         /\ Cloner(v)' = Cloner(v) /\ Name(v)' = Name(v) /\ Busy(v)' = Busy(v)
  BY <1>1, <1>3 DEF Holds, Creator, Cloner, Creates, Clones, Busy, Name
<1>9. LockInv'
  <2>1. \A x \in Names : (lock[x] \in Workers => hand[lock[x]] = x /\ Holds(lock[x]))'
    <3> SUFFICES ASSUME NEW x \in Names, lock'[x] \in Workers
                 PROVE  (hand[lock[x]] = x /\ Holds(lock[x]))'
      OBVIOUS
    <3>1. lock'[x] = lock[x] /\ lock[x] \in Workers /\ x # n
      BY <1>1
    <3>2. hand'[lock[x]] = x /\ Holds(lock[x])'
      BY <1>3, <1>8, <3>1 DEF LockInv
    <3>3. QED
      BY <3>1, <3>2 DEF Holds, Creator, Cloner, Busy
  <2>2. \A x \in Names : /\ lock'[x] # Nobody => x \in registered'
                         /\ lock'[x] = Abandoned => MetBy(x, Creates \cup {"cloneLinkVM"})'
                         /\ state'[x] = "Running" => lock'[x] = Vm
    BY <1>1, <1>3 DEF LockInv
  <2>3. \A v \in Workers : (Creator(v) /\ Holds(v))' => (lock[Name(v)] = v)'
    BY <1>1, <1>8 DEF LockInv, Name
  <2>4. \A v \in Workers : /\ pc'[v] \in {"idle", "begin"} => hand'[v] = Nobody
                           /\ hand'[v] # Nobody => hand'[v] \in registered'
                           /\ Creator(v)' => hand'[v] \in {Nobody, Name(v)'}
    BY <1>1, <1>3, <1>8 DEF LockInv
  <2>5. QED
    BY <2>1, <2>2, <2>3, <2>4 DEF LockInv
<1>10. MakingInv'
  <2> SUFFICES ASSUME NEW v \in Workers, Creator(v)', hand'[v] # Nobody
               PROVE  /\ pc'[v] \in {"lock", "disk", "storage", "attach"} => uses'[Name(v)'] = {}
                      /\ pc'[v] \in {"save", "unlock"} => HardDisks(uses'[Name(v)']) # {}
                      /\ \A x \in Workers : Creator(x)' /\ hand'[x] = hand'[v] => x = v
                      /\ Name(v)' \notin bare'
    BY DEF MakingInv, HardDisks, Name
  <2>1. Creator(v) /\ hand'[v] = hand[v] /\ hand[v] = Name(v) /\ Name(v) # n /\ hand[v] # Nobody
    BY <1>3, <1>8 DEF LockInv
  <2>2. Name(v) \in Names /\ v # w
    BY <1>1, <2>1, BusyFacts DEF Creator, Busy
  <2>3. \A x \in Workers : Creator(x)' /\ hand'[x] = hand'[v] => x = v
    BY <1>3, <1>8, <2>1 DEF MakingInv
  <2>4. QED
    BY <1>1, <1>3, <1>8, <2>1, <2>2, <2>3 DEF MakingInv
<1>11. MediaInv'
  <2>1. \A x \in Names : kept'[x] # uses'[x] => lock'[x] \in Workers /\ pc'[lock'[x]] = "save"
    <3> SUFFICES ASSUME NEW x \in Names, kept'[x] # uses'[x]
                 PROVE  lock'[x] \in Workers /\ pc'[lock'[x]] = "save"
      OBVIOUS
    <3>1. kept[x] # uses[x]
      BY <1>3
    <3>2. lock[x] \in Workers /\ pc[lock[x]] = "save"
      BY <3>1 DEF MediaInv
    <3>3. QED
      BY <1>1, <1>3, <3>2
  <2>2. \A v \in Workers : Cloner(v)' => \A m \in media'[v] : Usable(m)'
    BY <1>1, <1>3, <1>8 DEF MediaInv, Usable, Cloner, Clones
  <2>3. QED
    BY <1>1, <1>3, <2>1, <2>2 DEF MediaInv
<1>12. FilesInv'
  <2>1. \A v \in Workers, x \in Names : v # w => Deletes(v, x)' = Deletes(v, x)
    BY <1>1, <1>3 DEF Deletes, Name, Finished
  <2>2. \A x \in Names : (Deletes(w, x)' <=> x = n) /\ ~Deletes(w, x)
    <3>1. pc'[w] = "deleteConfig" /\ ~Finished(w)' /\ Name(w)' = n
      BY <1>1, <1>2, <1>3 DEF Name, Finished
    <3>2. \A x \in Names : Deletes(w, x)' <=> x = n
      BY <3>1 DEF Deletes
    <3>3. QED
      BY <1>1, <3>2 DEF Deletes
  <2>3. \A v \in Workers : v # w \/ pc[v] \notin {"cloneTo", "cloning", "register", "importing",
                                                   "lock", "disk", "storage", "attach"}
    BY <1>1
  <2>4. Busy(w)
    BY <1>1 DEF Busy
  <2>5. QED
    BY <1>1, <1>3, <1>8, <2>1, <2>2, <2>3, <2>4 DEF FilesInv, HardDisks
<1>13. AttachedExist'
  BY <1>1, <1>3 DEF AttachedExist, Usable, TypeOK
<1>14. QED
  BY <1>5, <1>6, <1>7, <1>9, <1>10, <1>11, <1>12, <1>13

-----------------------------------------------------------------------------
(* Every step keeps the invariant.                                         *)

LEMMA StepKeepsInv ==
    ASSUME IInv, NEW w \in Workers, Step(w)
    PROVE  IInv'
<1>1. CASE Begin(w) \/ TakeSnapshot(w) \/ SnapshotTaken(w) \/ CreateMachine(w) \/ CloneTo(w)
           \/ CloneWaited(w) \/ CreateBaseStorage(w) \/ DeleteConfig(w) \/ Export(w) \/ Import(w)
  BY <1>1, MovesKeepsInv DEF Moves
<1>2. CASE StorageWaited(w)
  <2>1. \/ StorageGoesOn(w)
        \/ At(w, "storage", Creates) /\ progress[w] # "done"
        \/ At(w, "storage", {"makeFloatDisk"})
    BY <1>2 DEF StorageWaited, StorageGoesOn
  <2>2. QED
    BY <1>2, <2>1, MovesKeepsInv, UnlockMachineKeepsInv, AnswersKeepsInv DEF Moves, Answers
<1>3. CASE CheckState(w)
  BY <1>3, CheckStateKeepsInv, AnswersKeepsInv DEF Answers
<1>4. CASE CreateNothing(w) \/ RefuseFormat(w) \/ ConfigWaited(w) \/ ExportWaited(w)
  BY <1>4, AnswersKeepsInv DEF Answers
<1>5. CASE LockSource(w) \/ LockMachine(w)
  BY <1>5, LockKeepsInv
<1>6. CASE UnlockSource(w) \/ SaveTarget(w) \/ SaveSettings(w) \/ AttachDevices(w)
  BY <1>6, UnlockSourceKeepsInv, SaveTargetKeepsInv, SaveSettingsKeepsInv, AttachDevicesKeepsInv
<1>7. CASE RegisterMachine(w) \/ Unregister(w)
  BY <1>7, RegisterMachineKeepsInv, UnregisterKeepsInv
<1>8. CASE UnlockMachine(w) \/ DestroyDisk(w) \/ Fails(w)
  BY <1>8, UnlockMachineKeepsInv, DestroyDiskKeepsInv, FailsKeepsInv
<1>9. CASE NullController(w) \/ NullMachine(w) \/ NullErrorInfo(w)
  BY <1>9, ServerEndsKeepsInv
<1>10. QED
  BY <1>1, <1>2, <1>3, <1>4, <1>5, <1>6, <1>7, <1>8, <1>9 DEF Step

LEMMA CompletesKeepsInv ==
    ASSUME IInv, NEW w \in Workers, Completes(w)
    PROVE  IInv'
  BY StorageCreatedKeepsInv, MachineClonedKeepsInv, MachineImportedKeepsInv, ProgressKeepsInv,
     ConfigDeletedKeepsInv DEF Completes

LEMMA StutterKeepsInv ==
    ASSUME IInv, UNCHANGED vars
    PROVE  IInv'
<1> USE DEF IInv, vars, machines, images, objects
<1>1. TypeOK' /\ PathInv' /\ CallInv'
  BY DEF TypeOK, PathInv, CallInv, Creator, Cloner, Busy, Name, Finished, HardDisks
<1>2. LockInv' /\ MakingInv'
  BY DEF LockInv, MakingInv, Holds, Creator, Cloner, Busy, Name, HardDisks
<1>3. MediaInv' /\ AttachedExist'
  BY DEF MediaInv, AttachedExist, Cloner, Busy, Usable
<1>4. FilesInv'
  BY DEF FilesInv, Creator, Cloner, Busy, Name, Deletes, Finished, HardDisks
<1>5. QED
  BY <1>1, <1>2, <1>3, <1>4

\* The locks, the makers, the media and the files of the machines agree in every
\* state, whoever creates, clones, deletes, imports and destroys meanwhile.
THEOREM Invariance == Spec => []IInv
<1>1. IInv /\ [Next]_vars => IInv'
  <2> SUFFICES ASSUME IInv, [Next]_vars
               PROVE  IInv'
    OBVIOUS
  <2>1. CASE \E w \in Workers, r \in Requests : Call(w, r)
    BY <2>1, CallKeepsInv
  <2>2. CASE \E w \in Workers : Step(w) \/ Completes(w)
    BY <2>2, StepKeepsInv, CompletesKeepsInv
  <2>3. CASE \E m \in Media : StorageDeleted(m)
    BY <2>3, StorageDeletedKeepsInv
  <2>4. CASE \E n \in Names : MachineStarts(n) \/ MachineStops(n) \/ Reap(n)
    BY <2>4, ProcessKeepsInv
  <2>5. CASE UNCHANGED vars
    BY <2>5, StutterKeepsInv
  <2>6. QED
    BY <2>1, <2>2, <2>3, <2>4, <2>5 DEF Next
<1>2. QED
  BY <1>1, InitInv, PTL DEF Spec

\* Every variable has its type.
THEOREM TypeCorrectness == Spec => []TypeOK
<1>1. IInv => TypeOK
  BY DEF IInv
<1>2. QED
  BY <1>1, Invariance, PTL

\* What a registered machine uses exists, and so does what the disk of a linked
\* clone depends on: no deletion of a machine or of a disk takes it away.
THEOREM AttachedMediaExist == Spec => []AttachedExist
<1>1. IInv => AttachedExist
  BY DEF IInv
<1>2. QED
  BY <1>1, Invariance, PTL

\* What is left of a machine that nobody is at work on: a settings file without a
\* machine, a machine without a disk and a lost lock only after an error of the
\* kinds of call that NothingLeftOver names (a disk also where the copied machine
\* had none), a machine without a settings file only where it was registered while
\* its predecessor was being deleted, and unsaved settings never.
THEOREM NoHalfMachine == Spec => []NothingLeftOver
<1>1. ASSUME IInv
      PROVE  NothingLeftOver
  <2> SUFFICES ASSUME NEW n \in Names, Settled(n)
               PROVE  /\ n \in files \ registered => MetBy(n, Clones \cup {"deleteVM"})
                      /\ n \in registered \ files => n \in overtaken
                      /\ n \in registered /\ HardDisks(uses[n]) = {} =>
                            MetBy(n, Creates \cup Clones) \/ n \in bare
                      /\ lock[n] = Abandoned => MetBy(n, Creates \cup {"cloneLinkVM"})
                      /\ kept[n] = uses[n]
    BY DEF NothingLeftOver
  <2> USE <1>1 DEF IInv
  <2>1. \A w \in Workers : Busy(w) => Name(w) # n
    BY DEF Settled
  <2>2. /\ n \in files \ registered => MetBy(n, Clones \cup {"deleteVM"})
        /\ n \in registered \ files => n \in overtaken
    BY <2>1 DEF FilesInv
  <2>3. n \in registered /\ HardDisks(uses[n]) = {} => MetBy(n, Creates \cup Clones) \/ n \in bare
    <3> SUFFICES ASSUME n \in registered, HardDisks(uses[n]) = {},
                        ~MetBy(n, Creates \cup Clones), n \notin bare
                 PROVE  FALSE
      OBVIOUS
    <3>1. PICK w \in Workers : Creator(w) /\ hand[w] = n
      BY DEF FilesInv
    <3>2. Name(w) = n
      BY <3>1, SessionFacts DEF LockInv
    <3>3. QED
      BY <2>1, <3>1, <3>2 DEF Creator
  <2>4. lock[n] \notin Workers
    <3> SUFFICES ASSUME lock[n] \in Workers
                 PROVE  FALSE
      OBVIOUS
    <3>1. Busy(lock[n])
      BY DEF LockInv, Holds, Creator, Cloner
    <3>2. QED
      BY <3>1 DEF Settled
  <2>5. /\ kept[n] = uses[n]
        /\ lock[n] = Abandoned => MetBy(n, Creates \cup {"cloneLinkVM"})
    BY <2>4 DEF MediaInv, LockInv
  <2>6. QED
    BY <2>2, <2>3, <2>5
<1>2. QED
  BY <1>1, Invariance, PTL

-----------------------------------------------------------------------------
(* A true answer.                                                          *)

\* A call changes where it is, and nobody else's.
LEMMA OwnStep ==
    ASSUME TypeOK, NEW w \in Workers, NEW v \in Workers \ {w}, Step(v) \/ Completes(v)
    PROVE  pc'[w] = pc[w]
<1> USE DEF TypeOK, Goto, Answer, Throw, Starts
<1>1. CASE CreateNothing(v) \/ RefuseFormat(v) \/ Begin(v) \/ CheckState(v)
           \/ LockSource(v) \/ TakeSnapshot(v) \/ SnapshotTaken(v) \/ UnlockSource(v)
  BY <1>1 DEF CreateNothing, RefuseFormat, Begin, CheckState, LockSource, TakeSnapshot,
              SnapshotTaken, UnlockSource
<1>2. CASE CreateMachine(v) \/ SaveTarget(v) \/ CloneTo(v) \/ CloneWaited(v)
           \/ RegisterMachine(v) \/ LockMachine(v) \/ CreateBaseStorage(v) \/ StorageWaited(v)
  BY <1>2 DEF CreateMachine, SaveTarget, CloneTo, CloneWaited, RegisterMachine, LockMachine,
              CreateBaseStorage, StorageWaited
<1>3. CASE AttachDevices(v) \/ NullController(v) \/ SaveSettings(v) \/ UnlockMachine(v)
           \/ Unregister(v) \/ DeleteConfig(v) \/ ConfigWaited(v) \/ Export(v)
  BY <1>3 DEF AttachDevices, NullController, SaveSettings, UnlockMachine, Unregister,
              DeleteConfig, ConfigWaited, Export
<1>4. CASE ExportWaited(v) \/ Import(v) \/ NullMachine(v) \/ DestroyDisk(v) \/ Fails(v)
           \/ NullErrorInfo(v)
  BY <1>4 DEF ExportWaited, Import, NullMachine, DestroyDisk, Fails, NullErrorInfo
<1>5. CASE Completes(v)
  BY <1>5 DEF Completes, StorageCreated, MachineCloned, MachineImported, ProgressDone,
              ProgressFails, ConfigDeleted, Ends
<1>6. QED
  BY <1>1, <1>2, <1>3, <1>4, <1>5 DEF Step

\* Where true is answered for a machine that was to be made: never of an import.
LEMMA TrueSteps ==
    ASSUME IInv, NEW w \in Workers, Step(w) \/ Completes(w), Busy(w), ~Busy(w)',
           result'[w] = "true", req[w].op \in Creates \cup Clones \cup {"importVM"},
           req[w].as # "unlisted"
    PROVE  \/ UnlockMachine(w)
           \/ RegisterMachine(w) /\ Cloner(w)
<1> USE DEF IInv, TypeOK, Busy, Creates, Clones, At
<1>1. pc[w] # "idle" /\ pc'[w] = "idle"
  OBVIOUS
<1>2. ~Moves(w)
  BY <1>1, MovesFacts DEF Moved
<1>3. CASE Completes(w)
  BY <1>1, <1>3 DEF Completes, StorageCreated, MachineCloned, MachineImported, ProgressDone,
                    ProgressFails, ConfigDeleted, Ends
<1>4. CASE CreateNothing(w) \/ RefuseFormat(w) \/ ConfigWaited(w) \/ ExportWaited(w)
           \/ NullMachine(w) \/ NullController(w) \/ DestroyDisk(w) \/ Unregister(w)
           \/ NullErrorInfo(w)
  BY <1>1, <1>4 DEF CreateNothing, RefuseFormat, ConfigWaited, ExportWaited, NullMachine,
                    NullController, DestroyDisk, Unregister, NullErrorInfo
<1>5. CASE CheckState(w) \/ Fails(w)
  BY <1>1, <1>5 DEF CheckState, Fails, Throw, Answer, Goto
<1>6. CASE StorageWaited(w)
  BY <1>1, <1>6 DEF StorageWaited, Answer, Goto
<1>7. CASE LockSource(w) \/ UnlockSource(w) \/ SaveTarget(w) \/ LockMachine(w)
           \/ SaveSettings(w) \/ AttachDevices(w)
  BY <1>1, <1>7 DEF LockSource, UnlockSource, SaveTarget, LockMachine, SaveSettings,
                    AttachDevices, Goto
<1>8. CASE RegisterMachine(w)
  BY <1>1, <1>8 DEF RegisterMachine, Goto, Cloner
<1>9. QED
  BY <1>2, <1>3, <1>4, <1>5, <1>6, <1>7, <1>8 DEF Step, Moves

\* createVMfromISO, createVMfromSystemdisk, cloneFullVM and cloneLinkVM answer
\* true of a machine only when it is registered with its media, which exist, and
\* its settings are saved or another call is deleting its predecessor's files.
THEOREM TrueAnswersMakeMachines == Spec => TrueMeansMade
<1> DEFINE Made(w) == /\ Name(w) \in registered'
                      /\ Name(w) \in files' \cup overtaken'
                      /\ kept'[Name(w)] = uses'[Name(w)]
                      /\ uses'[Name(w)] \subseteq stored' \ deleting'
                      /\ req[w].op \in Creates => HardDisks(uses'[Name(w)]) # {}
           Answered(w) == /\ Busy(w) /\ ~Busy(w)' /\ result'[w] = "true"
                          /\ req[w].op \in Creates \cup Clones /\ req[w].as # "unlisted"
<1>1. ASSUME IInv, NEW w \in Workers, UnlockMachine(w)
      PROVE  Made(w)
  <2> USE <1>1, SessionFacts DEF IInv
  <2>1. /\ pc[w] = "unlock" /\ Creator(w) /\ Name(w) \in Names
        /\ UNCHANGED <<registered, files, kept, stored, deleting, erred, overtaken, bare>>
        /\ EndSession(w, Nobody)
    BY BusyFacts DEF UnlockMachine, At, Creator, Busy, images
  <2>2. /\ lock[Name(w)] = w /\ Name(w) \in registered /\ hand[w] = Name(w)
    BY <2>1 DEF LockInv, Holds
  <2>3. kept[Name(w)] = uses[Name(w)] /\ HardDisks(uses[Name(w)]) # {}
    BY <2>1, <2>2 DEF MediaInv, MakingInv
  <2>4. uses'[Name(w)] = kept[Name(w)]
    BY <2>1, <2>2 DEF EndSession
  <2>5. Name(w) \in files \cup overtaken
    BY <2>1, <2>2 DEF FilesInv
  <2>6. uses[Name(w)] \subseteq stored \ deleting
    BY <2>2 DEF AttachedExist, Usable
  <2>7. QED
    BY <2>1, <2>2, <2>3, <2>4, <2>5, <2>6 DEF HardDisks
<1>2. ASSUME IInv, NEW w \in Workers, RegisterMachine(w), Cloner(w)
      PROVE  Made(w)
  <2> USE <1>2 DEF IInv
  <2>1. Name(w) \in Names
    BY BusyFacts DEF Cloner, Busy
  <2>2. /\ Name(w) \in registered' /\ Name(w) \in files'
        /\ uses'[Name(w)] = media[w] /\ kept'[Name(w)] = media[w]
        /\ UNCHANGED <<stored, deleting>>
    BY <2>1 DEF RegisterMachine, TypeOK, images
  <2>3. media[w] \subseteq stored \ deleting
    BY DEF MediaInv, Usable
  <2>4. req[w].op \notin Creates
    BY DEF Cloner, Clones, Creates
  <2>5. QED
    BY <2>2, <2>3, <2>4
<1>3. ASSUME IInv, [Next]_vars, NEW w \in Workers, Answered(w)
      PROVE  Made(w)
  <2>1. pc[w] # "idle" /\ pc'[w] = "idle"
    BY <1>3 DEF Busy
  <2>2. Step(w) \/ Completes(w)
    <3>1. CASE \E v \in Workers, r \in Requests : Call(v, r)
      BY <1>3, <2>1, <3>1 DEF Call, IInv, TypeOK
    <3>2. CASE \E v \in Workers : Step(v) \/ Completes(v)
      BY <1>3, <2>1, <3>2, OwnStep DEF IInv
    <3>3. CASE \E m \in Media : StorageDeleted(m)
      BY <2>1, <3>3 DEF StorageDeleted
    <3>4. CASE \E n \in Names : MachineStarts(n) \/ MachineStops(n) \/ Reap(n)
      BY <2>1, <3>4 DEF MachineStarts, MachineStops, Reap
    <3>5. CASE UNCHANGED vars
      BY <2>1, <3>5 DEF vars
    <3>6. QED
      BY <1>3, <3>1, <3>2, <3>3, <3>4, <3>5 DEF Next
  <2>3. UnlockMachine(w) \/ (RegisterMachine(w) /\ Cloner(w))
    BY <1>3, <2>2, TrueSteps
  <2>4. QED
    BY <1>1, <1>2, <1>3, <2>3
<1>4. IInv /\ [Next]_vars =>
         [\A w \in Workers :
             Busy(w) /\ ~Busy(w)' /\ result'[w] = "true"
             /\ req[w].op \in Creates \cup Clones /\ req[w].as # "unlisted"
             => /\ Name(w) \in registered'
                /\ Name(w) \in files' \cup overtaken'
                /\ kept'[Name(w)] = uses'[Name(w)]
                /\ uses'[Name(w)] \subseteq stored' \ deleting'
                /\ req[w].op \in Creates => HardDisks(uses'[Name(w)]) # {}]_vars
  BY <1>3
<1>5. QED
  BY <1>4, Invariance, PTL DEF Spec, TrueMeansMade

-----------------------------------------------------------------------------
(* What clients are promised: MachineRegistry.                             *)

\* A clone has only the machine it is made from in hand, and what has got past
\* its beginning makes a machine.
CourseInv ==
    \A w \in Workers :
        /\ Cloner(w) => hand[w] \in {Nobody, Of(w)}
        /\ Creator(w) /\ pc[w] # "begin" => req[w].as # "unlisted"

\* A call that goes on keeps what it was asked, and puts nothing in its hand but
\* the machine that it makes, clones or deletes.
GoesOn(w) ==
    /\ UNCHANGED <<req, result>>
    /\ \A v \in Workers \ {w} : pc'[v] = pc[v]
    /\ \A v \in Workers \ {w} : hand'[v] \in {hand[v], Nobody}
    /\ hand'[w] \in {hand[w], Nobody} \/ (Cloner(w) /\ hand'[w] = Of(w)) \/ ~Cloner(w)
    /\ pc[w] # "idle"
    /\ Creator(w) /\ pc'[w] # "begin" => pc[w] # "begin" \/ req[w].as # "unlisted"

\* A call that is over has answered r.
IsOver(w, r) ==
    /\ pc' = [pc EXCEPT ![w] = "idle"]
    /\ req' = [req EXCEPT ![w] = Nobody]
    /\ result' = [result EXCEPT ![w] = r]
    /\ hand' \in [Workers -> Names \cup {Nobody}]
    /\ \A v \in Workers \ {w} : hand'[v] = hand[v]

LEMMA StepGoesOn ==
    ASSUME TypeOK, PathInv, NEW w \in Workers, Step(w) \/ Completes(w)
    PROVE  GoesOn(w) \/ \E r \in {"true", "false", "none"} : IsOver(w, r)
<1> USE DEF TypeOK, Goto, Answer, Throw, Starts, GoesOn, IsOver, objects, At, Creates, Clones
<1>1. CASE CreateNothing(w) \/ RefuseFormat(w) \/ CheckState(w) \/ StorageWaited(w)
  BY <1>1 DEF CreateNothing, RefuseFormat, CheckState, StorageWaited, Cloner, Creator, Busy
<1>2. CASE Begin(w) \/ LockSource(w) \/ TakeSnapshot(w) \/ SnapshotTaken(w) \/ UnlockSource(w)
           \/ CreateMachine(w) \/ SaveTarget(w) \/ CloneTo(w) \/ CloneWaited(w)
  BY <1>2 DEF Begin, LockSource, TakeSnapshot, SnapshotTaken, UnlockSource, CreateMachine,
              SaveTarget, CloneTo, CloneWaited, Creator, Cloner, Busy
<1>3. CASE RegisterMachine(w)
  BY <1>3 DEF RegisterMachine, Cloner
<1>4. CASE LockMachine(w) \/ CreateBaseStorage(w) \/ AttachDevices(w) \/ NullController(w)
           \/ SaveSettings(w) \/ DeleteConfig(w) \/ Export(w)
  BY <1>4 DEF LockMachine, CreateBaseStorage, AttachDevices, NullController, SaveSettings,
              DeleteConfig, Export, Creator, Cloner
<1>5. CASE Unregister(w)
  BY <1>5 DEF Unregister, Cloner
<1>6. CASE UnlockMachine(w) \/ ConfigWaited(w) \/ ExportWaited(w) \/ DestroyDisk(w)
  BY <1>6 DEF UnlockMachine, ConfigWaited, ExportWaited, DestroyDisk
<1>7. CASE Import(w) \/ NullMachine(w) \/ NullErrorInfo(w)
  BY <1>7 DEF Import, NullMachine, NullErrorInfo, Creator, Steps
<1>8. CASE Fails(w)
  BY <1>8 DEF Fails, Steps
<1>9. CASE Completes(w)
  BY <1>9 DEF Completes, StorageCreated, MachineCloned, MachineImported, ProgressDone,
              ProgressFails, ConfigDeleted, Ends, Waiting
<1>10. QED
  BY <1>1, <1>2, <1>3, <1>4, <1>5, <1>6, <1>7, <1>8, <1>9 DEF Step

LEMMA StepIsBusy ==
    ASSUME TypeOK, PathInv, NEW w \in Workers, Step(w) \/ Completes(w)
    PROVE  pc[w] # "idle"
<1>1. GoesOn(w) => pc[w] # "idle"
  BY DEF GoesOn
<1>2. pc'[w] = "idle" => pc[w] # "idle"
  BY DEF Step, Completes, CreateNothing, RefuseFormat, Begin, CheckState, LockSource,
         TakeSnapshot, SnapshotTaken, UnlockSource, CreateMachine, SaveTarget, CloneTo,
         CloneWaited, RegisterMachine, LockMachine, CreateBaseStorage, StorageWaited,
         AttachDevices, NullController, SaveSettings, UnlockMachine, Unregister,
         DeleteConfig, ConfigWaited, Export, ExportWaited, Import, NullMachine,
         DestroyDisk, Fails, NullErrorInfo, At, Steps, StorageCreated, MachineCloned, MachineImported,
         ProgressDone, ProgressFails, ConfigDeleted, Waiting
<1>3. QED
  BY <1>1, <1>2, StepGoesOn DEF IsOver, TypeOK

\* A clone locks no machine but the one it is made from, and a request for an
\* operating system that is not listed never gets as far as making a machine.
THEOREM Course == Spec => []CourseInv
<1>1. Init => CourseInv
  BY DEF Init, CourseInv, Creator, Cloner, Busy
<1>2. IInv /\ CourseInv /\ [Next]_vars => CourseInv'
  <2> SUFFICES ASSUME IInv, CourseInv, [Next]_vars
               PROVE  CourseInv'
    OBVIOUS
  <2> USE DEF IInv, TypeOK, CourseInv, Creator, Cloner, Busy, Of
  <2>1. ASSUME NEW w \in Workers, NEW r \in Requests, Call(w, r)
        PROVE  CourseInv'
    BY <2>1 DEF Call, objects, LockInv
  <2>2. ASSUME NEW w \in Workers, GoesOn(w)
        PROVE  CourseInv'
    BY <2>2 DEF GoesOn
  <2>3. ASSUME NEW w \in Workers, NEW r \in {"true", "false", "none"}, IsOver(w, r)
        PROVE  CourseInv'
    BY <2>3 DEF IsOver
  <2>4. ASSUME NEW m \in Media, StorageDeleted(m)
        PROVE  CourseInv'
    BY <2>4 DEF StorageDeleted, objects
  <2>5. ASSUME NEW n \in Names, MachineStarts(n) \/ MachineStops(n) \/ Reap(n)
        PROVE  CourseInv'
    BY <2>5 DEF MachineStarts, MachineStops, Reap, objects
  <2>6. CASE UNCHANGED vars
    BY <2>6 DEF vars
  <2>7. QED
    BY <2>1, <2>2, <2>3, <2>4, <2>5, <2>6, StepGoesOn DEF Next
<1>3. QED
  BY <1>1, <1>2, Invariance, PTL DEF Spec

\* Everything the status of a machine depends on stays as it is.
Untouched(n) ==
    /\ n \in registered' <=> n \in registered
    /\ n \in files' <=> n \in files
    /\ n \in overtaken' <=> n \in overtaken
    /\ n \in bare' <=> n \in bare
    /\ erred'[n] = erred[n]
    /\ uses'[n] = uses[n] /\ kept'[n] = kept[n]

\* A call that makes or deletes machines has met an error with the machine.
Lost(w, n) ==
    n \in {Name(w), Of(w)} /\ erred'[n] # {} /\ Kind(req[w]) \in {"makes", "deletes"}

\* What a step of a call does to the machines: their status stays, or nothing is
\* known any more of the machine of the call and of its source ...
Loses(w) ==
    \A n \in Names : \/ statuses'[n] = statuses[n]
                     \/ /\ n \in {Name(w), Of(w)} /\ statuses'[n] = "unknown"
                        /\ Kind(req[w]) \in {"makes", "deletes"}

\* ... or the machine of the call comes into being or goes, a little or at once ...
Advances(w) ==
    /\ Name(w) \in Names
    /\ \A n \in Names \ {Name(w)} : statuses'[n] = statuses[n]
    /\ <<statuses[Name(w)], statuses'[Name(w)]>> \in Registry!Advance(Kind(req[w]))

\* ... or it is registered while its predecessor is being deleted.
Overtaking(w) ==
    /\ Name(w) \in Names
    /\ \A n \in Names \ {Name(w)} : statuses'[n] = statuses[n]
    /\ statuses[Name(w)] \in {"absent", "partial"} /\ statuses'[Name(w)] = "overtaken"
    /\ Kind(req[w]) = "makes"
    /\ \E v \in Workers \ {w} : Busy(v) /\ req[v].op = "deleteVM" /\ Name(v) = Name(w)

LEMMA UntouchedStatus ==
    ASSUME NEW n \in Names, Untouched(n)
    PROVE  statuses'[n] = statuses[n]
  BY DEF statuses, MachineStatus, Present, Untouched, HardDisks

LEMMA LosesWhenUntouched ==
    ASSUME NEW w \in Workers, \A n \in Names : Untouched(n) \/ Lost(w, n)
    PROVE  Loses(w)
<1> SUFFICES ASSUME NEW n \in Names
             PROVE  \/ statuses'[n] = statuses[n]
                    \/ /\ n \in {Name(w), Of(w)} /\ statuses'[n] = "unknown"
                       /\ Kind(req[w]) \in {"makes", "deletes"}
  BY DEF Loses
<1>1. CASE Untouched(n)
  BY <1>1, UntouchedStatus
<1>2. CASE Lost(w, n)
  BY <1>2 DEF Lost, statuses, MachineStatus
<1>3. QED
  BY <1>1, <1>2

\* One machine has changed, and it is the call's own.
LEMMA OneChanged ==
    ASSUME NEW w \in Workers, Name(w) \in Names,
           \A n \in Names \ {Name(w)} : Untouched(n),
           \/ statuses'[Name(w)] = statuses[Name(w)]
           \/ <<statuses[Name(w)], statuses'[Name(w)]>> \in Registry!Advance(Kind(req[w]))
    PROVE  Loses(w) \/ Advances(w)
  BY UntouchedStatus DEF Loses, Advances

LEMMA KindOfCall ==
    ASSUME TypeOK, PathInv, CourseInv, NEW w \in Workers, pc[w] \notin {"idle", "begin"}
    PROVE  /\ Creator(w) \/ Cloner(w) \/ req[w].op = "importVM" => Kind(req[w]) = "makes"
           /\ req[w].op = "deleteVM" => Kind(req[w]) = "deletes"
<1>1. req[w] \in AllRequests
  BY BusyFacts
<1>2. /\ req[w].op \in Clones => req[w].as = "any"
      /\ req[w].op = "importVM" => req[w].as \in {"warns", "any"}
  BY <1>1 DEF AllRequests, Clones
<1>3. Creator(w) => req[w].as # "unlisted"
  BY DEF CourseInv
<1>4. QED
  BY <1>2, <1>3 DEF Kind, Makers, Creator, Cloner, Creates, Clones

\* An error of a call is on record of the machine it is about and of the one it is
\* making it from, if it is a call that makes or deletes machines.
LEMMA MetStatus ==
    ASSUME TypeOK, PathInv, CourseInv, NEW w \in Workers, pc[w] # "idle",
           pc[w] = "begin" /\ req[w].as = "unlisted" => req[w].op = "deleteVM",
           NEW S, Met(w, S), \A n \in Names : n \in S => n \in {Name(w), Of(w)},
           NEW n \in Names
    PROVE  erred'[n] = erred[n] \/ Lost(w, n)
<1>1. CASE n \notin S \/ req[w].op \notin MakesOrDeletes
  BY <1>1 DEF Met, TypeOK
<1>2. CASE n \in S /\ req[w].op \in MakesOrDeletes
  <2>1. erred'[n] # {}
    BY <1>2, MetFacts
  <2>2. req[w] \in AllRequests
    BY BusyFacts
  <2>3. req[w].op \in Clones => req[w].as = "any"
    BY <2>2 DEF AllRequests, Clones
  <2>4. req[w].op \in Creates => req[w].as # "unlisted"
    BY DEF CourseInv, Creator, Busy, Creates
  <2>5. Kind(req[w]) \in {"makes", "deletes"}
    BY <1>2, <2>3, <2>4 DEF Kind, Makers, MakesOrDeletes
  <2>6. QED
    BY <1>2, <2>1, <2>5 DEF Lost
<1>3. QED
  BY <1>1, <1>2

\* Steps that leave the machines alone, or meet an error with one.
LEMMA QuietStatus ==
    ASSUME IInv, CourseInv, NEW w \in Workers,
           \/ Moves(w) \/ NullController(w) \/ NullMachine(w) \/ NullErrorInfo(w)
              \/ LockSource(w) \/ LockMachine(w) \/ CheckState(w) \/ DestroyDisk(w)
           \/ Answers(w)
           \/ StorageCreated(w) \/ ProgressDone(w) \/ ProgressFails(w) \/ MachineCloned(w)
           \/ ConfigDeleted(w, "failed")
    PROVE  Loses(w)
<1>1. /\ UNCHANGED <<registered, files, uses, kept, overtaken, bare>>
      /\ erred' = erred \/ (Met(w, {Name(w)}) /\ pc[w] \in Waiting)
  <2> USE DEF Goto, Starts, machines, images, objects, Ends
  <2>1. CASE Moves(w)
    BY <2>1, MovesFacts DEF IInv
  <2>2. CASE NullController(w) \/ NullMachine(w) \/ NullErrorInfo(w) \/ LockSource(w)
             \/ LockMachine(w) \/ CheckState(w) \/ DestroyDisk(w)
    BY <2>2 DEF NullController, NullMachine, NullErrorInfo, LockSource, LockMachine, CheckState,
                DestroyDisk
  <2>3. CASE Answers(w)
    BY <2>3 DEF Answers, CreateNothing, RefuseFormat, CheckState, StorageWaited, ConfigWaited,
                ExportWaited, At, Creates
  <2>4. CASE StorageCreated(w) \/ ProgressDone(w) \/ ProgressFails(w)
    BY <2>4 DEF StorageCreated, ProgressDone, ProgressFails
  <2>5. CASE MachineCloned(w)
    BY <2>5 DEF MachineCloned
  <2>6. CASE ConfigDeleted(w, "failed")
    BY <2>6 DEF ConfigDeleted, Waiting
  <2>7. QED
    BY <2>1, <2>2, <2>3, <2>4, <2>5, <2>6
<1>2. ASSUME NEW n \in Names
      PROVE  erred'[n] = erred[n] \/ Lost(w, n)
  <2>1. CASE Met(w, {Name(w)}) /\ pc[w] \in Waiting
    BY <2>1, MetStatus DEF IInv, Waiting
  <2>2. QED
    BY <1>1, <2>1
<1>3. \A n \in Names : Untouched(n) \/ Lost(w, n)
  BY <1>1, <1>2 DEF Untouched
<1>4. QED
  BY <1>3, LosesWhenUntouched

\* A session that ends without an error has nothing to lose.
LEMMA UnlockStatus ==
    ASSUME IInv, NEW w \in Workers, pc[w] # "save", EndSession(w, Nobody),
           UNCHANGED <<registered, files, kept, erred, overtaken, bare>>
    PROVE  Loses(w)
<1>1. \A n \in Names : uses'[n] = uses[n]
  BY DEF EndSession, IInv, MediaInv
<1>2. QED
  BY <1>1, LosesWhenUntouched DEF Untouched

\* An error is met with the machine the call is about and the one it has locked.
LEMMA FailsStatus ==
    ASSUME IInv, CourseInv, NEW w \in Workers, Fails(w)
    PROVE  Loses(w)
<1> USE DEF IInv
<1>1. /\ UNCHANGED <<registered, files, kept, overtaken, bare>>
      /\ EndSession(w, Abandoned)
      /\ Met(w, {Name(w)} \cup {n \in Names : lock[n] = w})
      /\ pc[w] # "idle"
      /\ pc[w] = "begin" /\ req[w].as = "unlisted" => req[w].op = "deleteVM"
  BY DEF Fails, Throw, Steps
<1>2. ASSUME NEW n \in Names, lock[n] = w
      PROVE  n \in {Name(w), Of(w)}
  <2>1. hand[w] = n /\ n # Nobody /\ (Creator(w) \/ Cloner(w))
    BY <1>2, SessionFacts DEF LockInv, Holds
  <2>2. QED
    BY <2>1 DEF LockInv, CourseInv
<1>3. ASSUME NEW n \in Names, lock[n] # w
      PROVE  uses'[n] = uses[n]
  BY <1>1, <1>3 DEF EndSession
<1>4. ASSUME NEW n \in Names
      PROVE  Untouched(n) \/ Lost(w, n)
  <2>1. \A k \in Names : k \in {Name(w)} \cup {m \in Names : lock[m] = w} => k \in {Name(w), Of(w)}
    BY <1>2
  <2>2. erred'[n] = erred[n] \/ Lost(w, n)
    BY <1>1, <2>1, MetStatus
  <2>3. lock[n] = w => Lost(w, n)
    <3> SUFFICES ASSUME lock[n] = w
                 PROVE  Lost(w, n)
      OBVIOUS
    <3>1. (Creator(w) \/ Cloner(w)) /\ pc[w] \notin {"idle", "begin"}
      BY DEF LockInv, Holds
    <3>2. req[w].op \in MakesOrDeletes
      BY <3>1 DEF Creator, Cloner, MakesOrDeletes
    <3>3. erred'[n] # {}
      BY <1>1, <3>2, MetFacts
    <3>4. Kind(req[w]) = "makes"
      BY <3>1, KindOfCall
    <3>5. QED
      BY <1>2, <3>3, <3>4 DEF Lost
  <2>4. QED
    BY <1>1, <1>3, <2>2, <2>3 DEF Untouched
<1>5. QED
  BY <1>4, LosesWhenUntouched

\* The steps by which a machine comes into being.
LEMMA MakingStatus ==
    ASSUME IInv, CourseInv, NEW w \in Workers,
           SaveTarget(w) \/ AttachDevices(w) \/ SaveSettings(w) \/ MachineImported(w)
    PROVE  Loses(w) \/ Advances(w)
<1> USE DEF IInv
<1>1. /\ pc[w] \in {"saveTarget", "attach", "save", "importing"}
      /\ Name(w) \in Names /\ Kind(req[w]) = "makes"
  <2>1. pc[w] \in {"saveTarget", "attach", "save", "importing"}
    BY DEF SaveTarget, AttachDevices, SaveSettings, MachineImported, At
  <2>2. Creator(w) \/ Cloner(w) \/ req[w].op = "importVM"
    BY <2>1 DEF PathInv
  <2>3. QED
    BY <2>1, <2>2, KindOfCall, BusyFacts
<1> USE DEF statuses, MachineStatus, Present, HardDisks, Registry!Advance
<1>2. CASE SaveTarget(w) \/ MachineImported(w)
  <2>1. /\ UNCHANGED <<registered, uses, kept, erred, overtaken, bare>>
        /\ files' = files \cup {Name(w)}
    BY <1>2 DEF SaveTarget, MachineImported
  <2>2. \A n \in Names \ {Name(w)} : Untouched(n)
    BY <2>1 DEF Untouched
  <2>3. Name(w) \in registered \ overtaken => Name(w) \in files
    BY <1>1 DEF FilesInv
  <2>4. Name(w) \in overtaken => Name(w) \in registered
    BY DEF TypeOK
  <2>5. \/ statuses'[Name(w)] = statuses[Name(w)]
        \/ <<statuses[Name(w)], statuses'[Name(w)]>> = <<"absent", "partial">>
    BY <1>1, <2>1, <2>3, <2>4
  <2>6. QED
    BY <1>1, <2>2, <2>5, OneChanged
<1>3. CASE AttachDevices(w)
  <2>1. /\ UNCHANGED <<registered, files, kept, erred, overtaken, bare>>
        /\ uses' = [uses EXCEPT ![Name(w)] = Boots(w)]
        /\ pc[w] = "attach" /\ Creator(w) /\ hand[w] # Nobody
    <3>1. pc[w] = "attach" /\ Creator(w)
      BY <1>3 DEF AttachDevices, At, Creator, Busy
    <3>2. lock[Name(w)] = w
      BY <3>1 DEF LockInv, Holds
    <3>3. hand[w] = Name(w)
      BY <1>1, <3>2 DEF LockInv
    <3>4. QED
      BY <1>1, <1>3, <3>1, <3>3, SessionFacts DEF AttachDevices
  <2>2. \A n \in Names \ {Name(w)} : Untouched(n)
    BY <2>1 DEF Untouched, TypeOK
  <2>3. uses[Name(w)] = {} /\ kept[Name(w)] = {} /\ Name(w) \notin bare
    BY <1>1, <2>1 DEF MakingInv, MediaInv
  <2>4. uses'[Name(w)] # {}
    BY <1>1, <2>1 DEF Boots, TypeOK
  <2>5. statuses'[Name(w)] = statuses[Name(w)]
    BY <1>1, <2>1, <2>3, <2>4
  <2>6. QED
    BY <1>1, <2>2, <2>5, OneChanged
<1>4. CASE SaveSettings(w)
  <2>1. /\ UNCHANGED <<registered, uses, erred, overtaken, bare>>
        /\ kept' = [kept EXCEPT ![Name(w)] = uses[Name(w)]]
        /\ files' = files \cup {Name(w)}
        /\ pc[w] = "save" /\ Creator(w)
    BY <1>4 DEF SaveSettings, At, Creator, Busy
  <2>2. hand[w] = Name(w) /\ Name(w) \in registered
    <3>1. lock[Name(w)] = w
      BY <2>1 DEF LockInv, Holds
    <3>2. QED
      BY <1>1, <3>1, SessionFacts DEF LockInv
  <2>3. \A n \in Names \ {Name(w)} : Untouched(n)
    BY <2>1 DEF Untouched, TypeOK
  <2>4. HardDisks(uses[Name(w)]) # {}
    BY <1>1, <2>1, <2>2, SessionFacts DEF MakingInv
  <2>5. statuses'[Name(w)] \in {"unknown", "overtaken", "whole"}
    BY <1>1, <2>1, <2>2, <2>4 DEF TypeOK
  <2>6. \/ statuses'[Name(w)] = statuses[Name(w)]
        \/ <<statuses[Name(w)], statuses'[Name(w)]>> = <<"partial", "whole">>
    BY <1>1, <2>1, <2>2, <2>5
  <2>7. QED
    BY <1>1, <2>3, <2>6, OneChanged
<1>5. QED
  BY <1>2, <1>3, <1>4

\* registerMachine: a clone is there as a whole, a new machine in part, unless a
\* predecessor is being deleted.
LEMMA RegisterStatus ==
    ASSUME IInv, CourseInv, NEW w \in Workers, RegisterMachine(w)
    PROVE  /\ Loses(w) \/ Advances(w) \/ Overtaking(w)
           /\ Cloner(w) => statuses'[Name(w)] \in {"whole", "overtaken", "unknown"}
<1> USE DEF IInv
<1> DEFINE n == Name(w)
<1>1. /\ pc[w] = "register" /\ (Creator(w) \/ Cloner(w))
      /\ n \notin registered
      /\ registered' = registered \cup {n} /\ files' = files \cup {n}
      /\ uses' = [uses EXCEPT ![n] = media[w]] /\ kept' = [kept EXCEPT ![n] = media[w]]
      /\ overtaken' = overtaken \cup {x \in {n} : \E v \in Workers : Deletes(v, x)}
      /\ bare' = bare \cup {x \in {n} : progress[w] = "done" /\ HardDisks(media[w]) = {}}
      /\ erred' = erred
  BY DEF RegisterMachine, At, Creator, Cloner, Busy
<1>2. n \in Names /\ Kind(req[w]) = "makes"
  BY <1>1, BusyFacts, KindOfCall DEF Creator, Cloner, Busy
<1>3. \A x \in Names \ {n} : Untouched(x)
  BY <1>1, <1>2 DEF Untouched, TypeOK
<1>4. /\ n \in registered' /\ n \in files' /\ uses'[n] = media[w] /\ kept'[n] = media[w]
      /\ n \notin overtaken
      /\ n \in overtaken' <=> \E v \in Workers : Deletes(v, n)
      /\ progress[w] = "done" /\ HardDisks(media[w]) = {} => n \in bare'
  BY <1>1, <1>2 DEF TypeOK
<1>5. Cloner(w) => progress[w] = "done" \/ erred[n] # {}
  BY <1>1 DEF CallInv, Finished, Cloner, MakesOrDeletes
<1>6. Cloner(w) => statuses'[n] \in {"whole", "overtaken", "unknown"}
  BY <1>1, <1>2, <1>4, <1>5 DEF statuses, MachineStatus, Present, HardDisks
<1>7. statuses[n] \in {"absent", "partial", "unknown"}
      /\ (statuses[n] = "unknown" <=> statuses'[n] = "unknown")
  BY <1>1, <1>2, <1>4 DEF statuses, MachineStatus, Present
<1>8. CASE statuses'[n] = "overtaken"
  <2>1. PICK v \in Workers : Deletes(v, n)
    BY <1>2, <1>4, <1>8 DEF statuses, MachineStatus
  <2>2. v # w /\ Busy(v) /\ req[v].op = "deleteVM" /\ Name(v) = Name(w)
    BY <1>1, <2>1 DEF Deletes, Busy, PathInv
  <2>3. Overtaking(w)
    BY <1>2, <1>3, <1>7, <1>8, <2>2, UntouchedStatus DEF Overtaking
  <2>4. QED
    BY <1>6, <2>3
<1>9. CASE statuses'[n] # "overtaken"
  <2>1. statuses'[n] \in {"partial", "whole", "unknown"}
    BY <1>2, <1>4, <1>9 DEF statuses, MachineStatus
  <2>2. \/ statuses'[n] = statuses[n]
        \/ <<statuses[n], statuses'[n]>> \in Registry!Advance("makes")
    BY <1>7, <2>1 DEF Registry!Advance
  <2>3. QED
    BY <1>2, <1>3, <1>6, <2>2, OneChanged
<1>10. QED
  BY <1>8, <1>9

\* The steps by which a machine goes.
LEMMA DeletingStatus ==
    ASSUME IInv, CourseInv, NEW w \in Workers, Unregister(w) \/ ConfigDeleted(w, "done")
    PROVE  Loses(w) \/ Advances(w)
<1> USE DEF IInv
<1> DEFINE n == Name(w)
<1>1. pc[w] \in {"unregister", "deletingConfig"} /\ req[w].op = "deleteVM"
  BY DEF Unregister, ConfigDeleted, At, PathInv
<1>2. n \in Names /\ Kind(req[w]) = "deletes"
  BY <1>1, BusyFacts, KindOfCall
<1> USE DEF statuses, MachineStatus, Present, HardDisks, Registry!Advance
<1>3. CASE Unregister(w)
  <2>1. /\ n \in registered /\ registered' = registered \ {n}
        /\ uses' = [uses EXCEPT ![n] = {}] /\ kept' = [kept EXCEPT ![n] = {}]
        /\ overtaken' = overtaken \ {n} /\ bare' = bare \ {n}
        /\ UNCHANGED <<files, erred>>
    BY <1>2, <1>3, SessionFacts DEF Unregister, LockInv
  <2>2. \A x \in Names \ {n} : Untouched(x)
    BY <2>1 DEF Untouched, TypeOK
  <2>3. n \notin overtaken => n \in files
    BY <1>2, <2>1 DEF FilesInv
  <2>4. statuses[n] \in {"whole", "partial", "overtaken"} \/ statuses'[n] = statuses[n]
    BY <1>2, <2>1
  <2>5. statuses'[n] \in {"partial", "absent"} \/ statuses'[n] = statuses[n]
    BY <1>2, <2>1
  <2>6. statuses'[n] = "absent" => statuses[n] = "overtaken"
    BY <1>2, <2>1, <2>3
  <2>7. \/ statuses'[n] = statuses[n]
        \/ <<statuses[n], statuses'[n]>> \in Registry!Advance("deletes")
    BY <2>4, <2>5, <2>6
  <2>8. QED
    BY <1>2, <2>2, <2>7, OneChanged
<1>4. CASE ConfigDeleted(w, "done")
  <2>1. /\ UNCHANGED <<registered, uses, kept, overtaken, bare>>
        /\ files' = files \ {n} /\ \A x \in Names : erred'[x] = erred[x]
        /\ pc[w] = "deletingConfig" /\ progress[w] = "running"
    BY <1>4 DEF ConfigDeleted, Ends, Met
  <2>2. \A x \in Names \ {n} : Untouched(x)
    BY <2>1 DEF Untouched
  <2>3. Deletes(w, n)
    BY <2>1 DEF Deletes, Finished
  <2>4. n \in registered => n \in overtaken
    BY <1>2, <2>3 DEF FilesInv
  <2>5. \/ statuses'[n] = statuses[n]
        \/ <<statuses[n], statuses'[n]>> = <<"partial", "absent">>
    BY <1>2, <2>1, <2>4 DEF TypeOK
  <2>6. QED
    BY <1>2, <2>2, <2>5, OneChanged
<1>5. QED
  BY <1>3, <1>4

LEMMA CallStatus ==
    ASSUME IInv, CourseInv, NEW w \in Workers, Step(w) \/ Completes(w)
    PROVE  Loses(w) \/ Advances(w) \/ Overtaking(w)
<1>1. CASE UnlockMachine(w) \/ UnlockSource(w)
           \/ (StorageWaited(w) /\ At(w, "storage", Creates) /\ progress[w] # "done")
  <2>1. /\ pc[w] # "save" /\ EndSession(w, Nobody)
        /\ UNCHANGED <<registered, files, kept, erred, overtaken, bare>>
    BY <1>1 DEF UnlockMachine, UnlockSource, StorageWaited, At, Creates
  <2>2. QED
    BY <2>1, UnlockStatus
<1>2. CASE StorageWaited(w)
  <2>1. \/ StorageGoesOn(w) \/ At(w, "storage", {"makeFloatDisk"})
        \/ At(w, "storage", Creates) /\ progress[w] # "done"
    BY <1>2 DEF StorageWaited, StorageGoesOn
  <2>2. QED
    BY <1>1, <1>2, <2>1, QuietStatus DEF Moves, Answers
<1>3. CASE Completes(w)
  BY <1>3, QuietStatus, MakingStatus, DeletingStatus DEF Completes
<1>4. QED
  BY <1>1, <1>2, <1>3, QuietStatus, FailsStatus, MakingStatus, RegisterStatus, DeletingStatus
     DEF Step, Moves, Answers

\* What is there in part has somebody who is at work on it.
WorkedOn ==
    \A n \in Names : statuses[n] = "partial" => \E w \in Workers : Busy(w) /\ Name(w) = n

LEMMA PartialIsWorkedOn == IInv => WorkedOn
<1> SUFFICES ASSUME IInv, NEW n \in Names, statuses[n] = "partial"
             PROVE  \E w \in Workers : Busy(w) /\ Name(w) = n
  BY DEF WorkedOn
<1> USE SessionFacts DEF IInv
<1>1. erred[n] = {} /\ n \notin overtaken /\ ~Present(n) /\ n \in registered \cup files
  BY DEF statuses, MachineStatus
<1>2. CASE n \notin registered
  BY <1>1, <1>2 DEF FilesInv
<1>3. CASE n \in registered /\ HardDisks(uses[n]) = {} /\ n \notin bare
  <2>1. PICK w \in Workers : Creator(w) /\ hand[w] = n
    BY <1>1, <1>3 DEF FilesInv
  <2>2. QED
    BY <2>1 DEF LockInv, Creator
<1>4. CASE n \in registered /\ (HardDisks(uses[n]) # {} \/ n \in bare)
  <2>1. kept[n] # uses[n]
    BY <1>1, <1>4 DEF Present, FilesInv
  <2>2. lock[n] \in Workers /\ pc[lock[n]] = "save" /\ hand[lock[n]] = n
    BY <2>1 DEF MediaInv, LockInv
  <2>3. Creator(lock[n])
    BY <2>2 DEF PathInv
  <2>4. QED
    BY <2>2, <2>3 DEF LockInv, Creator
<1>5. QED
  BY <1>2, <1>3, <1>4

\* A machine that is unlocked after its creation is all there.
LEMMA UnlockedIsWhole ==
    ASSUME IInv, NEW w \in Workers, UnlockMachine(w)
    PROVE  statuses'[Name(w)] \in {"whole", "overtaken", "unknown"}
<1> USE SessionFacts DEF IInv
<1>1. /\ pc[w] = "unlock" /\ Creator(w) /\ Name(w) \in Names
      /\ UNCHANGED <<registered, files, kept, erred, overtaken, bare>>
      /\ EndSession(w, Nobody)
  BY BusyFacts DEF UnlockMachine, At, Creator, Busy
<1>2. lock[Name(w)] = w /\ Name(w) \in registered /\ hand[w] = Name(w)
  BY <1>1 DEF LockInv, Holds
<1>3. kept[Name(w)] = uses[Name(w)] /\ HardDisks(uses[Name(w)]) # {}
  BY <1>1, <1>2 DEF MediaInv, MakingInv
<1>4. uses'[Name(w)] = uses[Name(w)]
  BY <1>1, <1>2, <1>3 DEF EndSession
<1>5. Name(w) \in files \cup overtaken
  BY <1>1, <1>2 DEF FilesInv
<1>6. QED
  BY <1>1, <1>2, <1>3, <1>4, <1>5 DEF statuses, MachineStatus, Present, HardDisks

\* true, answered by a call that makes a machine, says that it is there.
LEMMA TrueIsWhole ==
    ASSUME IInv, CourseInv, NEW w \in Workers, Step(w) \/ Completes(w), Busy(w), ~Busy(w)',
           result'[w] = "true", Kind(req[w]) = "makes"
    PROVE  statuses'[Name(w)] \in {"whole", "overtaken", "unknown"}
<1>1. req[w].op \in Creates \cup Clones \cup {"importVM"} /\ req[w].as # "unlisted"
  BY DEF Kind, Makers
<1>2. UnlockMachine(w) \/ (RegisterMachine(w) /\ Cloner(w))
  BY <1>1, TrueSteps
<1>3. QED
  BY <1>2, UnlockedIsWhole, RegisterStatus

LEMMA StatusesFit == statuses' \in [Names -> Registry!Status]
  BY DEF statuses, MachineStatus, Registry!Status

LEMMA LosesIsErrs ==
    ASSUME NEW w \in Workers, tasks[w] = Task(req[w]), Loses(w)
    PROVE  Registry!Errs(w) \/ UNCHANGED statuses
<1>1. CASE Kind(req[w]) \in {"makes", "deletes"}
  BY <1>1, StatusesFit DEF Loses, Task, Name, Of, Registry!Errs, Registry!Only
<1>2. CASE Kind(req[w]) \notin {"makes", "deletes"}
  <2>1. \A n \in Names : statuses'[n] = statuses[n]
    BY <1>2 DEF Loses
  <2>2. QED
    BY <2>1 DEF statuses
<1>3. QED
  BY <1>1, <1>2

LEMMA OvertakingIsOvertakes ==
    ASSUME PathInv, NEW w \in Workers, tasks[w] = Task(req[w]), Overtaking(w)
    PROVE  Registry!Overtakes(w)
<1>1. tasks[w].name = Name(w) /\ tasks[w].kind = "makes"
  BY DEF Overtaking, Task, Name
<1>2. Registry!Only({Name(w)})
  BY StatusesFit DEF Overtaking, Registry!Only
<1>3. \E v \in Workers \ {w} : tasks[v].kind = "deletes" /\ tasks[v].name = Name(w)
  <2>1. PICK v \in Workers \ {w} : Busy(v) /\ req[v].op = "deleteVM" /\ Name(v) = Name(w)
    BY DEF Overtaking
  <2>2. req[v] # Nobody
    BY <2>1 DEF PathInv, Busy
  <2>3. tasks[v].kind = "deletes" /\ tasks[v].name = Name(w)
    BY <2>1, <2>2 DEF tasks, Task, Kind, Makers, Creates, Clones, Name
  <2>4. QED
    BY <2>3
<1>4. QED
  BY <1>1, <1>2, <1>3 DEF Overtaking, Registry!Overtakes

LEMMA AdvancesIsWorks ==
    ASSUME NEW w \in Workers, tasks[w] = Task(req[w]), Advances(w)
    PROVE  Registry!Works(w)
<1>1. tasks[w].name = Name(w) /\ tasks[w].kind = Kind(req[w])
  BY DEF Task, Name
<1>2. Registry!Only({Name(w)})
  BY StatusesFit DEF Advances, Registry!Only
<1>3. QED
  BY <1>1, <1>2 DEF Advances, Registry!Works

\* A step of a call is one of its task in the registry.
LEMMA CallRefines ==
    ASSUME IInv, IInv', CourseInv, NEW w \in Workers, Step(w) \/ Completes(w)
    PROVE  [Registry!RegistryNext]_(Registry!registryVars)
<1>1. WorkedOn'
  BY PartialIsWorkedOn, PTL
<1> USE DEF IInv
<1>2. Loses(w) \/ Advances(w) \/ Overtaking(w)
  BY CallStatus
<1>3. GoesOn(w) \/ \E r \in {"true", "false", "none"} : IsOver(w, r)
  BY StepGoesOn
<1>4. /\ pc[w] # "idle" /\ req[w] # Nobody
      /\ tasks[w] = Task(req[w]) /\ tasks[w] # NoTask
  <2>1. pc[w] # "idle"
    BY StepIsBusy
  <2>2. req[w] # Nobody
    BY <2>1 DEF PathInv
  <2>3. Task(req[w]) # NoTask
    BY DEF Task, NoTask, Kind, Makers
  <2>4. QED
    BY <2>1, <2>2, <2>3 DEF tasks
<1>5. CASE GoesOn(w)
  <2>1. tasks' = tasks /\ result' = result
    BY <1>5 DEF GoesOn, tasks
  <2>2. Registry!GoesOn
    BY <2>1 DEF Registry!GoesOn
  <2>3. \/ Registry!Works(w) \/ Registry!Overtakes(w) \/ Registry!Errs(w)
        \/ UNCHANGED statuses
    BY <1>2, <1>4, LosesIsErrs, AdvancesIsWorks, OvertakingIsOvertakes
  <2>4. QED
    BY <1>4, <2>2, <2>3 DEF Registry!RegistryNext
<1>6. ASSUME NEW r \in {"true", "false", "none"}, IsOver(w, r)
      PROVE  [Registry!RegistryNext]_(Registry!registryVars)
  <2>1. /\ pc'[w] = "idle" /\ req'[w] = Nobody /\ result'[w] = r
        /\ \A v \in Workers \ {w} : pc'[v] = pc[v] /\ req'[v] = req[v]
    BY <1>6 DEF IsOver, TypeOK
  <2>2. tasks' = [tasks EXCEPT ![w] = NoTask]
    BY <2>1 DEF tasks
  <2>3. r = "true" /\ tasks[w].kind = "makes" =>
           statuses'[tasks[w].name] \in {"whole", "overtaken", "unknown"}
    <3>1. Busy(w) /\ ~Busy(w)'
      BY <1>4, <2>1 DEF Busy
    <3>2. r = "true" /\ Kind(req[w]) = "makes" =>
             statuses'[Name(w)] \in {"whole", "overtaken", "unknown"}
      BY <2>1, <3>1, TrueIsWhole
    <3>3. QED
      BY <1>4, <3>2 DEF Task, Name
  <2>4. ASSUME tasks[w].name \in Names, statuses'[tasks[w].name] = "partial"
        PROVE  \E v \in Workers \ {w} : tasks[v] # NoTask /\ tasks[v].name = tasks[w].name
    <3>1. PICK v \in Workers : Busy(v)' /\ Name(v)' = tasks[w].name
      BY <1>1, <2>4 DEF WorkedOn
    <3>2. v # w /\ pc[v] # "idle" /\ req[v].name = tasks[w].name
      BY <2>1, <3>1 DEF Busy, Name
    <3>3. req[v] # Nobody
      BY <3>2 DEF PathInv
    <3>4. tasks[v] # NoTask /\ tasks[v].name = tasks[w].name
      BY <3>2, <3>3 DEF tasks, Task, NoTask, Kind, Makers
    <3>5. QED
      BY <3>2, <3>4
  <2>5. result' = [result EXCEPT ![w] = r]
    BY <1>6 DEF IsOver
  <2>6. Registry!Ends(w)
    BY <2>2, <2>3, <2>4, <2>5 DEF Registry!Ends
  <2>7. \/ Registry!Works(w) \/ Registry!Overtakes(w) \/ Registry!Errs(w)
        \/ UNCHANGED statuses
    BY <1>2, <1>4, LosesIsErrs, AdvancesIsWorks, OvertakingIsOvertakes
  <2>8. QED
    BY <1>4, <2>6, <2>7 DEF Registry!RegistryNext
<1>7. QED
  BY <1>3, <1>5, <1>6

\* A call that begins is a request to the registry.
LEMMA CallAsks ==
    ASSUME IInv, NEW w \in Workers, NEW r \in Requests, Call(w, r)
    PROVE  Registry!RegistryNext
<1> USE DEF IInv
<1>1. statuses' = statuses
  BY DEF Call, machines, statuses, MachineStatus, Present, HardDisks
<1>2. req[w] = Nobody /\ r # Nobody /\ req' = [req EXCEPT ![w] = r]
      /\ result' = [result EXCEPT ![w] = "none"]
  BY ProvisioningAssumption, RequestFacts DEF Call, PathInv
<1>3. tasks[w] = NoTask /\ tasks' = [tasks EXCEPT ![w] = Task(r)]
  BY <1>2 DEF tasks, TypeOK
<1>4. Registry!Asks(w)
  <2>1. Task(r) # NoTask
    BY DEF Task, NoTask, Kind, Makers
  <2>2. tasks'[w] = Task(r)
    BY <1>3 DEF tasks
  <2>3. QED
    BY <1>1, <1>2, <1>3, <2>1, <2>2 DEF Registry!Asks
<1>5. QED
  BY <1>4 DEF Registry!RegistryNext

\* createVMfromISO, createVMfromSystemdisk, cloneFullVM, cloneLinkVM, importVM and
\* deleteVM change the machine they name and no other, end with it there as a
\* whole or not at all unless somebody else is at work on it, a call that makes or
\* deletes has met an error with it or it was registered while its predecessor was
\* being deleted, and answer true of a machine that was to be made only when it is
\* there or one of these two has happened.
THEOREM ProvisioningImplementsRegistry == Spec => ImplementsRegistry
<1>1. Init => Registry!RegistryInit
  BY DEF Init, Registry!RegistryInit, statuses, tasks, MachineStatus, Present
<1>2. IInv /\ IInv' /\ CourseInv /\ [Next]_vars =>
         [Registry!RegistryNext]_(Registry!registryVars)
  <2> SUFFICES ASSUME IInv, IInv', CourseInv, [Next]_vars
               PROVE  [Registry!RegistryNext]_(Registry!registryVars)
    OBVIOUS
  <2> USE DEF Registry!registryVars
  <2>1. CASE \E w \in Workers, r \in Requests : Call(w, r)
    BY <2>1, CallAsks
  <2>2. CASE \E w \in Workers : Step(w) \/ Completes(w)
    BY <2>2, CallRefines
  <2>3. ASSUME UNCHANGED <<registered, files, uses, kept, req, result, erred, overtaken, bare>>
        PROVE  UNCHANGED Registry!registryVars
    BY <2>3 DEF statuses, tasks, MachineStatus, Present, HardDisks
  <2>4. CASE \E m \in Media : StorageDeleted(m)
    BY <2>3, <2>4 DEF StorageDeleted, machines
  <2>5. CASE \E n \in Names : MachineStarts(n) \/ MachineStops(n) \/ Reap(n)
    BY <2>3, <2>5 DEF MachineStarts, MachineStops, Reap
  <2>6. CASE UNCHANGED vars
    BY <2>3, <2>6 DEF vars
  <2>7. QED
    BY <2>1, <2>2, <2>4, <2>5, <2>6 DEF Next
<1>3. QED
  BY <1>1, <1>2, Invariance, Course, PTL DEF Spec, ImplementsRegistry, Registry!RegistrySpec

-----------------------------------------------------------------------------
(* The locks that calls take: SessionLock.                                 *)

\* What a step of a call does to the locks: it takes one from nobody, or lets go
\* of those it has; an abandoned one is that of a call that is over.
LEMMA StepOnLocks ==
    ASSUME IInv, NEW w \in Workers, Step(w) \/ Completes(w)
    PROVE  \/ lock' = lock
           \/ \E n \in Names : /\ lock[n] = Nobody /\ lock' = [lock EXCEPT ![n] = w]
                               /\ pc'[w] # "idle"
           \/ EndSession(w, Nobody)
           \/ EndSession(w, Abandoned) /\ pc'[w] = "idle"
<1> USE DEF IInv, TypeOK, Goto, Answer, Throw, Starts, machines, At, Creates, Clones
<1>1. CASE CreateNothing(w) \/ RefuseFormat(w) \/ Begin(w) \/ CheckState(w)
           \/ TakeSnapshot(w) \/ SnapshotTaken(w) \/ CreateMachine(w) \/ SaveTarget(w)
           \/ CloneTo(w) \/ CloneWaited(w) \/ RegisterMachine(w)
  BY <1>1 DEF CreateNothing, RefuseFormat, Begin, CheckState, TakeSnapshot, SnapshotTaken,
              CreateMachine, SaveTarget, CloneTo, CloneWaited, RegisterMachine
<1>2. CASE CreateBaseStorage(w) \/ AttachDevices(w) \/ NullController(w) \/ SaveSettings(w)
           \/ Unregister(w) \/ DeleteConfig(w) \/ ConfigWaited(w) \/ Export(w)
           \/ ExportWaited(w) \/ Import(w) \/ NullMachine(w) \/ NullErrorInfo(w)
           \/ DestroyDisk(w)
  BY <1>2 DEF CreateBaseStorage, AttachDevices, NullController, SaveSettings, Unregister,
              DeleteConfig, ConfigWaited, Export, ExportWaited, Import, NullMachine,
              NullErrorInfo, DestroyDisk
<1>3. CASE Completes(w)
  BY <1>3 DEF Completes, StorageCreated, MachineCloned, MachineImported, ProgressDone,
              ProgressFails, ConfigDeleted
<1>4. CASE LockSource(w)
  <2>1. Of(w) \in Names
    BY <1>4, BusyFacts DEF LockSource, Cloner, Busy
  <2>2. QED
    BY <1>4, <2>1 DEF LockSource
<1>5. CASE LockMachine(w)
  <2>1. Name(w) \in Names
    BY <1>5, BusyFacts DEF LockMachine, Creator, Busy
  <2>2. QED
    BY <1>5, <2>1 DEF LockMachine
<1>6. CASE UnlockSource(w) \/ UnlockMachine(w)
  BY <1>6 DEF UnlockSource, UnlockMachine
<1>7. CASE StorageWaited(w)
  BY <1>7 DEF StorageWaited
<1>8. CASE Fails(w)
  BY <1>8 DEF Fails
<1>9. QED
  BY <1>1, <1>2, <1>3, <1>4, <1>5, <1>6, <1>7, <1>8 DEF Step

\* What the lock of a machine shows of a step.
Keeps(n) == [MachineLock(n)!LockNext]_(MachineLock(n)!lockVars)

LEMMA StepKeepsToLock ==
    ASSUME IInv, IInv', NEW w \in Workers, Step(w) \/ Completes(w), NEW n \in Names
    PROVE  Keeps(n)
<1>1. w \in Calling /\ \A v \in Workers \ {w} : pc'[v] = pc[v]
  <2>1. pc[w] # "idle"
    BY StepIsBusy DEF IInv
  <2>2. \A v \in Workers \ {w} : pc'[v] = pc[v]
    BY StepGoesOn DEF IInv, TypeOK, GoesOn, IsOver
  <2>3. QED
    BY <2>1, <2>2 DEF Calling
<1>2. lock'[n] = w => pc'[w] # "idle"
  BY DEF IInv, LockInv, Holds, Creator, Cloner, Busy
<1>3. /\ lock[n] # w /\ lock'[n] # w => lock'[n] = lock[n]
      /\ lock[n] # w /\ lock'[n] = w => lock[n] = Nobody /\ pc'[w] # "idle"
      /\ lock[n] = w => \/ lock'[n] = w /\ pc'[w] # "idle"
                        \/ lock'[n] = Nobody
                        \/ lock'[n] = Abandoned /\ pc'[w] = "idle"
  BY <1>2, StepOnLocks DEF EndSession, IInv, TypeOK
<1>4. CASE pc'[w] # "idle"
  <2>1. Calling' = Calling
    BY <1>1, <1>4 DEF Calling
  <2>2. CASE lock'[n] = lock[n]
    BY <2>1, <2>2 DEF Keeps, MachineLock!lockVars
  <2>3. CASE lock[n] = Nobody /\ lock'[n] = w
    <3>1. MachineLock(n)!Locks(w)
      BY <1>1, <2>1, <2>3 DEF MachineLock!Locks
    <3>2. QED
      BY <3>1 DEF Keeps, MachineLock!LockNext
  <2>4. CASE lock[n] = w /\ lock'[n] = Nobody
    <3>1. MachineLock(n)!Unlocks(w)
      BY <1>1, <2>1, <2>4 DEF MachineLock!Unlocks, MachineLock!Passes
    <3>2. QED
      BY <3>1 DEF Keeps, MachineLock!LockNext
  <2>5. QED
    BY <1>3, <1>4, <2>2, <2>3, <2>4
<1>5. CASE pc'[w] = "idle"
  <2>1. Calling' = Calling \ {w}
    BY <1>1, <1>5 DEF Calling
  <2>2. IF lock[n] = w THEN lock'[n] \in {Nobody, Abandoned} ELSE lock'[n] = lock[n]
    BY <1>3, <1>5
  <2>3. MachineLock(n)!Ends(w)
    BY <1>1, <2>1, <2>2 DEF MachineLock!Ends, MachineLock!Passes
  <2>4. QED
    BY <2>3 DEF Keeps, MachineLock!LockNext
<1>6. QED
  BY <1>4, <1>5

\* What VirtualBox does to machine k, seen by machine n.
LEMMA OutsideKeepsToLock ==
    ASSUME IInv, NEW n \in Names, NEW k \in Names,
           MachineStarts(k) \/ MachineStops(k) \/ Reap(k)
    PROVE  Keeps(n)
<1> USE DEF IInv, TypeOK, Keeps, MachineLock!lockVars, MachineLock!LockNext, MachineLock!Passes
<1>1. Calling' = Calling
  BY DEF MachineStarts, MachineStops, Reap, Calling
<1>2. CASE k # n
  <2>1. lock'[n] = lock[n]
    BY <1>2 DEF MachineStarts, MachineStops, Reap
  <2>2. QED
    BY <1>1, <2>1
<1>3. CASE k = n /\ MachineStarts(k)
  BY <1>1, <1>3 DEF MachineStarts, MachineLock!Launches
<1>4. CASE k = n /\ MachineStops(k)
  BY <1>1, <1>4 DEF MachineStops, LockInv, MachineLock!ProcessEnds
<1>5. CASE k = n /\ Reap(k)
  BY <1>1, <1>5 DEF Reap, MachineLock!Reaps
<1>6. QED
  BY <1>2, <1>3, <1>4, <1>5

\* The calls that make, copy and delete machines take the lock of a machine only
\* from nobody, and have given it back or abandoned it when they are over, at
\* whatever step they fail.
THEOREM ProvisioningImplementsSessionLock == Spec => ImplementsSessionLock
<1>1. Init => \A n \in Names : MachineLock(n)!LockInit
  BY DEF Init, MachineLock!LockInit, Calling
<1>2. IInv /\ IInv' /\ [Next]_vars => \A n \in Names : Keeps(n)
  <2> SUFFICES ASSUME IInv, IInv', [Next]_vars, NEW n \in Names
               PROVE  Keeps(n)
    OBVIOUS
  <2>1. CASE \E w \in Workers : Step(w) \/ Completes(w)
    BY <2>1, StepKeepsToLock
  <2>2. ASSUME NEW w \in Workers, NEW r \in Requests, Call(w, r)
        PROVE  Keeps(n)
    <3>1. lock' = lock
      BY <2>2 DEF Call, machines
    <3>2. w \notin Calling /\ Calling' = Calling \cup {w}
      BY <2>2 DEF Call, Calling, IInv, TypeOK
    <3>3. MachineLock(n)!Begins(w)
      BY <3>1, <3>2 DEF MachineLock!Begins
    <3>4. QED
      BY <3>3 DEF Keeps, MachineLock!LockNext
  <2>3. CASE \E k \in Names : MachineStarts(k) \/ MachineStops(k) \/ Reap(k)
    BY <2>3, OutsideKeepsToLock
  <2>4. CASE (\E m \in Media : StorageDeleted(m)) \/ UNCHANGED vars
    <3>1. lock' = lock /\ pc' = pc
      BY <2>4 DEF StorageDeleted, machines, vars
    <3>2. QED
      BY <3>1 DEF Calling, Keeps, MachineLock!lockVars
  <2>5. QED
    BY <2>1, <2>2, <2>3, <2>4 DEF Next
<1>3. IInv /\ IInv' /\ [Next]_vars =>
         [\A n \in Names : [MachineLock(n)!LockNext]_(MachineLock(n)!lockVars)]_vars
  BY <1>2 DEF Keeps
<1>4. QED
  BY <1>1, <1>3, Invariance, PTL DEF Spec, ImplementsSessionLock

=============================================================================
