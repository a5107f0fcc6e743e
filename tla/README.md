# VirtualizationCoreApi: specifications, model checks and proofs

This directory specifies, checks and proves properties of the program in this
repository: a gRPC server that lets clients drive VirtualBox (power, snapshots,
clones, network, remote display, ...) through the C++ wrapper libvbox. The server's
own code is about 7300 lines in `protocol/`, `source/`, `include/`, `monitor/` and
`murder/`; the rest of the repository is generated (`protocol/qigrpc.*`) or vendored
(`lib/libvbox-6.0.10`, `murder/dist`, `murder/lib`).

## 1. The system

    client --gRPC--> completion queue --> Handler loop --enqueue--> ThreadPool(17)
                          ^                   |                         |
                          |                delete                   controller function
                          +---- Finish --- HandlerContext <-- status_ = 2  |
                                                          QiVCA / vcaVmConfigure / hooks
                                                                    |
                                                          libvbox (COM) --> VirtualBox

| component | source | state it keeps | operations | what is hard |
|---|---|---|---|---|
| Asynchronous server | `protocol/vca_service.cpp`, `vca_handleType.h` | one heap-allocated `HandlerContext` per open call and per armed type: `type_`, `status_`, request, responder; the tag in the loop | `RegisterRequest`, `Handler` (take an event, delete or re-arm and enqueue), the lambda (controller, `status_ = 2`, `Finish`) | raw pointers shared by a loop, 17 workers and the gRPC runtime; clients that give up; exceptions |
| Thread pool | `protocol/vca_threadpool.h` | `tasks`, `stop`, `queue_mutex`, `condition`, `workers` | constructor, `enqueue`, worker loop, destructor | wake-ups, shutdown, each task once |
| Controllers | `protocol/vca_controller.cpp` | none (a new `QiVCA` etc. per call) | 17 functions, dispatch on a method number | replies that do not say what happened; unknown methods |
| VM life cycle | `source/vca_core.cpp` 27-440, 1028-1252 | VirtualBox's machine states and session locks | list, start, shut down, power off, pause, resume, sleep, restart, snapshots | check-then-act against a shared machine, exceptions, missing returns |
| VM provisioning | `source/vca_core.cpp` 1263-2205 | registered machines, media | create from disk or ISO, full and linked clone, delete, export, import | many-step operations failing half way, media that others use, results that nobody looks at |
| Data disks | `source/vca_core.cpp` 450-728 | media, attachments | make, attach, detach, destroy | locks left held, media in use |
| VM configuration | `source/vca_vmConfigure.cpp` | settings of a machine under a session | 22 functions of one pattern: validate, find, guard on state, lock, edit, save, unlock | sessions linked to one another, half edits, early returns that keep the lock |
| Sharing hook | `murder/vca_murderHook.cpp`, `p2p_command.py` | BitTornado processes | tracker, seed, share, download | embedded Python entered from several threads |
| Monitor hook | `monitor/vca_monitorHook.cpp`, `*.py` | none | host figures as protobuf | data conversion |
| Event listener | `source/vca_event.cpp` | - | polls VirtualBox events | not started by the server |

Every request runs in one worker from beginning to end. Requests meet only in the
completion queue, in the pool and in VirtualBox, which is shared state: there is no
lock per machine in the server.

What makes each component correct:

- *server*: a context is owned by one party at a time and deleted once, after its
  answer; each type always has a listener; a request runs at most once and is answered
  after it has run; one stuck request does not stop the others;
- *pool*: each accepted task runs once; no wake-up is lost; the destructor drains and
  returns;
- *life cycle, provisioning, configuration, disks*: the value returned agrees with what
  was done to the machine; a session lock taken is released; a failure half way leaves
  nothing behind that blocks the next request;
- *controllers*: the reply says what the operation returned.

`PROJECT.json` lists every component with its status and, under `hazards`, the places
in the code where these could go wrong in a way that a test hardly reaches.

## 2. The modules

| module | models | extends / instantiates |
|---|---|---|
| `TaskPool` | what a user of the pool is promised: FIFO start, at most `PoolSize` at once, nothing accepted after the destructor has begun | - |
| `ThreadPool` | `protocol/vca_threadpool.h`, with mutex and condition variable | implements `TaskPool` (`ImplementsTaskPool`) |
| `CallService` | what a client is promised: its controller runs at most once, an answer comes after it, at most once | - |
| `VcaService` | `protocol/vca_service.cpp`: registration, completion-queue loop, lambdas, contexts | implements `CallService`; its pool behaves as `TaskPool` says (`UsesTaskPool`) |
| `VcaServer` | the service and the pool together: the service with the mutex, condition variable and threads of its pool | extends `VcaService`, instantiates `ThreadPool` on its queue; implements `VcaService` (`ImplementsService`) |
| `SessionLock` | what VirtualBox promises of the lock of one machine: one session or the machine's process has it, others may link to it while it lasts, a call keeps nothing when it is over | - |
| `VmLifecycle` | the ten power and snapshot operations of `source/vca_core.cpp` and their calls in `protocol/vca_controller.cpp` | implements `SessionLock` (`ImplementsSessionLock`) |
| `VmSettings` | the 22 functions of `source/vca_vmConfigure.cpp` and `addDiskToVm`, `detachDiskFromVm` of `source/vca_core.cpp` | implements `SessionLock` (`ImplementsSessionLock`) |
| `MachineRegistry` | what a client that makes and deletes machines is promised: a machine is there as a whole or not at all, a call changes the machine it names, true means made | - |
| `VmProvisioning` | create, clone, delete, import, export, and the disks nobody has attached: `source/vca_core.cpp` 450-498, 634-663, 1263-2205 | implements `MachineRegistry` (`ImplementsRegistry`) and `SessionLock` |
| `MCThreadPool`, `MCVcaService`, `MCVcaServer`, `MCVmLifecycle`, `MCVmSettings`, `MCVmProvisioning` | small instances for TLC, symmetry sets | the module they instantiate |
| `QueueLemmas` | facts about `Append`, `Head`, `Tail` and the set of a queue's elements | TLAPS |
| `ThreadPool_proofs`, `VcaService_proofs`, `VcaServer_proofs`, `VmLifecycle_proofs`, `VmSettings_proofs`, `VmProvisioning_proofs` | theorems and proofs | the module they are about |
| `VcaServiceRefinement_proofs` | step simulation of `CallService` and of `TaskPool` | the proofs of the component's invariant |

A definition named `X_y` is a mutation of `X`, a bug the code could plausibly have had;
no specification uses it. It documents what the properties are able to detect.

### ThreadPool

One worker of the code's loop (lines 55-84) is a value of `wpc`: *lock* (about to take
the mutex, also after a wake-up), *locked* (predicate of `condition.wait` being
evaluated), *sleep* (predicate was false), *waiting*, *run*, *exited*. `Acquire`,
`PredicateFails`, `Sleep`, `Exit`, `Take`, `Execute` are the steps of the loop;
`SpuriousWakeup` is what the C++ standard allows any wait. `Push` is the locked part of
`enqueue` (101-112) and `NotifyOne` the notification after the unlock (114): two actions,
because other threads run in between. The destructor is `RaiseStop`, `NotifyAll`,
`JoinAll`. `queue_mutex` is only recorded while a thread holds it *between* two actions;
a critical section without a wait is one action guarded by `MutexFree`. That a caller
still inside `enqueue` delays destruction (`JoinAll`) is the rule for any C++ object.

### VcaService

A context is an address in `Ctxs`; its fields are `type_`, `status_` and `call_` (the
call the runtime bound to its `ctx_`, `req_`, `responder_`). `RegisterRequest` and
`Rearm` share `Arm`: allocate, `status_ = 1`, register. `FetchRequest` / `FetchFinished` /
`FetchFailed` are `cq_->Next` and the tests of lines 249-256; `Enqueue` is 509 with the
reset of the tag (the pool has 17 workers, line 237; the comment above it still says 4); a worker goes *controller*, *status* (has returned), *finish* (has
written `status_ = 2`), and `Finish` hands the context to the runtime. The controller
functions are abstracted to what matters here: they return, throw a `COMError`, or never
return (`importVM` at `vca_core.cpp` 2107-2111 loops without advancing). The completion
queue is a set: gRPC promises no order between events of different contexts. The switch
over 17 types has the same code in each case; `Types` are the cases and `Rearm` is one action for all of
them, so that a case forgotten for one type alone would not be seen.

### VcaServer

`VcaService` takes its pool at the level of `TaskPool`: a lambda starts whenever fewer than
`PoolSize` are running. `VcaServer` puts the real pool there. The queue `tasks` is the same
variable for both; `Threads` is `ThreadPool` with the loop as its only producer and no
destructor (`pool` is a local variable of `Handler`, whose loop never ends). A step of the
server is one step of the service, of the pool, or of both: `EnqueuesLambda` is `Enqueue`
and `Push`, `TakesLambda` takes the lambda and enters the controller, `LambdaEnds` is
`Finish` or an exception together with the return of `task()`; the mutex, the condition
variable and `notify_one` are seen by the pool alone. While the loop is inside `enqueue` it
takes no other event (`OutOfEnqueue`).

### VmLifecycle

Ten operations share one skeleton: find the machine, read its state once, refuse or go
on, lock for a session, make one request, perhaps wait for its progress, unlock. The
skeleton is a set of actions (`FindMachine`, `ReadState`, `Lock`, `RequestAccepted`,
`Wait`, `Unlock`, ...); what differs per operation is a record (`StartUp`, ...,
`DeleteSnapshot`) read off its `switch`: the states it goes on in, the states in which it
calls `vmSleep` instead (restoreSnapshot), what it may return when it refuses, its
request, whether it waits, and whether it catches `COMError`. The branches for a null
machine or snapshot are never taken: `findMachine` and `findSnapshot` raise an error
instead (`libvbox` turns every failing call into an exception), which is `Throw`.

VirtualBox is external and modelled from the API description kept in
`lib/libvbox-6.0.10/sdk/bindings/VirtualBox.xidl`: machine states, which requests each
state accepts, passing states that complete or fail (`Complete`), shared and write
locks, a null `console` in a session that locked no running machine, a lock whose session
went away (`Abandoned`, then `Reap`). The guest may shut down or hang, and a VM process may
die at any time. Functions that reach their end without a `return`, and the `int data`
of startUp that is read uninitialised after an exception, are undefined behaviour in
C++: the value is a nondeterministic choice of both booleans.

Every handler of a `COMError` asks `VBox::currentError()` for its interface. The wrapper returns
null where the failing call has left no error object
(`lib/libvbox-6.0.10/lib/vboxwrap.cpp` 174-185), and no handler looks: `NullErrorInfo`, in this module and in the next two
about machines, is the end of the server process that follows.

### VmSettings

A call goes through *called* (arguments and state are still to be looked at), *lock*,
*edit*, *unlock*, *ended*. `RefuseArgument`, `FindFails`, `GoOn`, `RefuseState`,
`LockMachine`, `SetAttribute`, `SaveSettings` and the unlock are the lines of the pattern;
the records (`SetBridge`, ..., `DetachDiskFromVm`) say in which states a function goes on,
what it returns in the others, whether it locks for writing, which setters it calls in
which order, what it does where it turns back with the machine locked, and which
`COMError`s it catches. What makes these functions interact is in VirtualBox: a shared lock
of a machine that is already locked is a link to the first session (`link`, `writer`), all
linked sessions edit one copy (`live`), and `saveSettings` of any of them writes the whole
copy (`saved`); when the first session ends, links are cut and what was not saved is gone.
The value of an attribute is the call that set it last, so the properties can ask whose
edit is in the file. `getRdpInfo` on a machine that stopped after its state was read uses a
null console and ends the server (`NullConsole`).

The handler of `addDiskToVm` returns false only for an error that has the interface
`IVirtualBoxErrorInfo`; after any other error the function goes on (`IgnoreError`) to
`saveSettings` and answers true. Some functions return false, with the session locked, for a null
machine or adapter (`vca_vmConfigure.cpp` 67-74, 142-148, 236-242, 316-322, 425-429, 527-531,
703-706). Those branches are left out because they are never taken: where VirtualBox cannot return
the object, `libvbox` throws, which is `FindFails` and `SetFails`.

### SessionLock

Sessions and their locks are VirtualBox's, and each of the three modules about machines has as much of
them as its operations need: links in `VmLifecycle`, links and a shared copy of the settings in
`VmSettings`, plain locks of several machines in `VmProvisioning`. `SessionLock` is the one
description they agree with. Per machine it has the `holder` of the lock (`writer`, `lock`), the
sessions `linked` to it (`Sharing`; not shown in `VmProvisioning`, where a second shared lock changes nothing), and
the sessions `open` between the beginning and the end of a call (`Calling`, read off `pc`). `Ends` is
where the code matters: however a function is left, by an answer, a refusal, a caught or an
uncaught `COMError`, the call's lock has passed to nobody or is `Abandoned`, and its links are gone.

### VmProvisioning

A worker is at a step (`pc`) of its request (`req`: the operation, a name, what it is made
from, and what else the code branches on). The shared state is VirtualBox's: `registered`,
`files` (settings files), `state`, `lock`, `uses` (attachments in the session's copy),
`kept` (those in the file), `stored` and `deleting` (images), `base` (the disk that a linked
clone's disk depends on). What VirtualBox does asynchronously is an `IProgress` per worker
that runs until `StorageCreated`, `MachineCloned`, `ConfigDeleted`, `MachineImported` or a
failure; what the code then does with it differs per operation and is where its weaknesses
are: `createVMfromISO` looks at the result and leaves, the clones register the machine all
the same, `makeFloatDisk` and `deleteVM` answer true. `Fails` is a `COMError` at any call of
VirtualBox. `NullController` (a storage bus that is not listed) and `NullMachine` (`importVM`
releases a machine that was never assigned) end the server process; `warnings` is the loop of
`importVM` that never advances.

Three history variables say how a machine may come to be less than whole, and nothing else does.
`erred` has, for each name, the operations that make or delete machines and have met an error
while they were about it, or had it locked. `overtaken` are the registered machines
that a call registered while another was between `unregister` and the end of `deleteConfig`
for their predecessor (1893-1896): no call has met an error there, and yet the settings file
of the new machine is deleted. `bare` are the registered copies of a machine that had no disk.
`NothingLeftOver` states for each defect which of these it needs: a settings file
without a machine needs an error of a clone or a deletion; a machine without a settings file
must be `overtaken`, and errors do not excuse it; a machine without a disk needs an error of a creation or
a clone, or to be `bare`; a lock that is lost needs an error of a creation or a linked clone;
and attachments that differ from the settings file are excused by nothing.

`MachineRegistry` says the same to somebody who sees no sessions, media or progress. A machine is
*absent*, *partial*, *whole*, *overtaken*, or *unknown* once a call that makes or deletes it has met an error (`MachineStatus`, computed
from `registered`, `files`, `uses`, `kept` and the three history variables); a worker's task is the kind of its call (*makes*, *deletes*,
*other*), the machine it is about and the one it is made from (`Task`), from the call to its
result. A task moves its own machine in its own direction only, a task that ends leaves it partial only to
another task that is at work on it, and true is the answer to a task that makes a machine only when that machine is
whole, overtaken or unknown. `Overtakes` is the registration in the window of `deleteVM`: a machine
becomes *overtaken* only while a task that deletes its predecessor is under way.

## 3. What the runs check

| run | instance | shows |
|---|---|---|
| `thread_pool` | 3 workers, 2 producers, 3 tasks, fairness | `NoLostWakeup` (each queued task is matched by an awake worker or a notification still to come, although `enqueue` notifies after unlocking), `NobodySleepsThroughStop`, `TaskInOnePlace`, `DestructorDrains`, `IInv`; the pool implements `TaskPool` with its fairness (`ImplementsTaskPool`); accepted tasks run; the destructor returns; no deadlock |
| `service_assert_ok` | 1 call, cancellation | **violated**: `GPR_ASSERT(ok)` can fail |
| `service_loses_calls` | 1 call, 1 exception, fairness | **violated**: a request whose controller throws gets no second step |
| `server` | 2 calls of one of 2 types, 2 workers with mutex and condition variable, 5 addresses, cancellation, 1 exception, 1 hang | of the service: `NoUseAfterFree`, `ContextInOnePlace`, `OneListenerPerType`, `StatusTellsTheEvent`; each call is run and answered at most once, in that order (`ImplementsCallService`). Of the whole: the service and the pool agree (`ThreadsHoldTheirContexts`, `ServerInv`), each step is one of `VcaService` (`ImplementsService`), and its queue is that of `TaskPool` (`UsesTaskPool`) |
| `server_live` | 1 type, 2 calls, 2 workers, 3 addresses, 1 hang, fair threads | the loop gets the mutex and the oldest lambda is taken while a worker is left (`ImplementsFairPool`, the fairness `VcaService` takes for granted); every call is answered unless its own controller hangs (`OthersAreServed`); no controller throws in this run, an exception is the subject of `service_loses_calls` |
| `lifecycle` | 2 workers, 1 machine, an unknown name, 7 operations, fairness | answers agree with requests (`TrueMeansAsked`, `FalseMeansUntouched`), no answer before the progress is complete (`AnsweredAfterProgress`), locks and sessions agree (`IInv`) and keep to `SessionLock` (`ImplementsSessionLock`), every operation ends (`CallsEnd`) |
| `lifecycle_starts` | 2 workers, 3 operations | **violated**: check-then-act of startUp |
| `lifecycle_restores` | 1 worker, 5 operations | **violated**: restoring a running machine suspends it, and answers true |
| `lifecycle_unlocks` | 1 worker, restoreSnapshot, a machine without a snapshot | **violated**: restoring a snapshot that the machine does not have leaves it locked |
| `lifecycle_console` | 1 worker, all operations | **violated**: a null console is used when the machine stops first |
| `settings_safety` | 2 calls, all 24 operations, a machine that starts and stops | `TrueMeansSaved` (an answer true means that the call has set all its attributes, `addDiskToVm` excepted, and that they are in the file, although linked sessions end and take edits back), `AllOrNothing` (a failed call that shared its session with nobody leaves no half edit), `LockLeftByFailure` (which failures leave the machine locked), the linked sessions keep to `SessionLock` (`ImplementsSessionLock`), `IInv` |
| `provisioning` | 2 workers, 2 names, 1 ISO, 1 system disk, 12 requests, errors of one operation | `NothingLeftOver` (which errors, and which race, a half-made or half-deleted machine can come from), `AttachedExist` (no deletion takes what another machine uses), `TrueMeansMade` (an answer true of a call that makes a machine), each step is one of `MachineRegistry` (`ImplementsRegistry`) and keeps to `SessionLock` (`ImplementsSessionLock`), `IInv` |

`IInv` begins with the module's type invariant (`TypeOK`), which the three `Vm...` runs check as a part of
it and the theorems state on its own.

The runs marked **violated** state what a comment, an assertion or the API description
says and what the code does not do; `PROJECT.json` quotes the lines under `findings`.

The modules also have behaviours that no line of the repository promises the absence of,
each of them a step of the model:

- `importVM` always ends the server process, by `Release` on a null machine
  (`vca_core.cpp` 2186), or loops for ever on an appliance with a warning (2107);
- `createVMfromISO` adds a second controller named "IDE" when the disk is on IDE, which
  fails and leaves a registered machine without its disk; a failed disk does the same;
- an OS type that is not listed makes nothing and answers true;
- a clone is registered however `cloneTo` ended, and a linked clone finds its snapshot by
  a fixed name, so the second one is made from the first one's snapshot;
- between the two halves of `deleteVM` another call may create a machine of the same name,
  whose settings file is then deleted (`overtaken`);
- the handler of `addDiskToVm` returns false only inside `if (vboxError)` (`vca_core.cpp` 593-607): after
  an error without that interface it goes on to `saveSettings` and answers true, with nothing
  attached (`IgnoreError`);
- every handler calls a method on `VBox::currentError()` without looking whether it is null
  (`NullErrorInfo`), which ends the server process;
- a half edit of a call that failed is written by the `saveSettings` of a linked session;
- `addDiskToVm` and `detachDiskFromVm` leave the machine locked when they answer false;
- `addSerialPort` accepts slot 4, which VirtualBox refuses.

### Bounds, and why they are enough

- *Pool*: three workers give every role at once (one in its critical section, one
  asleep, one being woken), two producers give two notifications under way, and three
  tasks can all be queued before a worker has taken one. Tasks are given without bound: the
  name of one that has been executed stands for another (`Fresh`), as the address of a
  deleted context does in the server.
- *Server*: two calls of one type compete for one armed context, while the listener of the other
  type has to stay as it is. Calls repeat without bound, so addresses are freed and reused.
  `RoomForContext` lets a client send only while an address is left for the
  context armed in its place: it bounds the heap of the model, not the order of events.
  `MaxLost` and `MaxHung` bound contexts that are lost for good; one of each suffices for
  the first effect and keeps a worker free, which is what `OthersAreServed` assumes. Two
  workers are the one that sleeps and the one that is awake, and are enough for a worker lost to a
  controller that hangs. `server_live` has no lost call, one type and fewer addresses, so that TLC
  can check fairness without symmetry. `VcaService` by itself, with its pool at the level of
  `TaskPool`, is run only where one call is enough to show a violation: in the other runs it is
  checked with the real pool.
- *Life cycle*: one machine, since operations on different machines share nothing but
  workers; two workers, as every race here is between one operation and one other actor
  (the second worker, the guest, or VirtualBox). Calls repeat without bound. One snapshot
  name that exists or not. `Most` leaves out shutDown, resume and restart, which take the
  steps of pause with another request; `lifecycle_console` and the theorems have them. `lifecycle_unlocks`
  begins with a machine that has no snapshot and offers restoreSnapshot only
  (`SnapshotlessSpec`, `Restores`), since any error between lock and unlock would do.
- *Settings*: two calls of any of the 24 operations, each made once, on one machine: what is
  shared is the machine's session, and one call can disturb another only through it. The
  machine starts and stops without bound. Adjacent setters of attributes that no other
  operation sets count as one, and a slot is the one all calls name.
- *Provisioning*: two names are a machine and its clone; two workers repeat their requests
  without bound. `Several` has a request for each operation and each branch of it, but for
  the other modes of deleteVM (the controller passes Full only), and for a disk on IDE in
  createVMfromISO, which takes the steps of an error at `AttachDevices`, and an appliance with warnings, whose worker
  is lost and changes nothing more. `FollowedOn` ends a behaviour where
  the server process has ended, and where a second operation has met an error (`ErrorBound`; a
  failed linked clone is one, with two machines), or one operation has and a machine has overtaken a
  deletion: one error or one overtaking is what each clause of `NothingLeftOver` is about. It also lets at most
  one machine run at a time (`RunBound`), and none that an error has been met with: a running machine is one
  whose lock is taken and whose state is refused, which one machine shows. `StopsIn` lets a machine
  that runs stop in PoweredOff only; Aborted comes from abandoned sessions all the same. The
  theorems have no such bounds. Registered machines are taken to have different names, and
  one hard disk at most.
- The theorems hold without any of these bounds on workers, tasks, types, calls,
  machines, requests and media.

### Fairness

Threads are scheduled (`WF` of the steps of a worker, of the loop, of the destructor). A
mutex that is free again and again is obtained, an event in the completion queue is
returned at some time, and a call waiting for its type is matched at some time (`SF` of
`Acquire`, `Fetch`, `Match`, and of `LocksQueue` and `EnqueuesLambda` in `VcaServer`): the queues behind them do not starve one element for ever.
VirtualBox completes what it has begun (`WF` of `Complete`). Nothing is assumed of
clients, of the guest, of a controller beyond that it returns, throws or hangs, nor of
the release of abandoned locks. `CHECK_DEADLOCK FALSE` is used only where the process
may really stop (the assertion, a null pointer) or clients may wait for ever.

## 4. What is proved

Each `*_proofs` module proves `Spec => []IInv` for every value of the constants that
satisfies the named assumption, one lemma per action, then derives the properties:

- **ThreadPool_proofs**: `PoolInvariant`, `PoolTypes`, `NobodyLeftSleeping`, `PoolDrains`.
  `NobodySleepsThroughStop` is not inductive by itself: a worker might be between its
  predicate and its sleep when stop is raised. `MutexInv` rules it out: that worker holds
  the mutex, which `RaiseStop` needs. `StopInv` adds that a worker that exited saw an
  empty queue that nobody fills any more, and `Accounted` turns that into
  `DestructorDrains`.
- **VcaService_proofs**: `ServiceInvariant`, `ServiceTypes`, `ContextsAreAlive`,
  `ContextsHaveOneOwner`, `TypesStayServed`, `EventsAreToldApart`. No use after free
  needs to know that a context whose `status_` is 2 is nowhere but in its last event when
  that event is taken. That is `ContextInOnePlace` together with `StageInv` (how far a
  context is agrees with `status_`) and with `StatusTellsTheEvent` (a call is bound to
  one context, until its answer has been sent). `OneListenerPerType` needs `LoopInv`.
- **VmLifecycle_proofs**: `LifecycleInvariant`, `LifecycleTypes`, `TrueIsAsked`,
  `FalseIsUntouched`, `NoEarlyAnswer`. `LockInv` ties the worker's view of its session
  (`link`) to VirtualBox's (`writer`) and `CallInv` ties the step a call has reached to
  what it has asked for; an answer is given only in `Refuse`, where nothing has been
  asked, in `Unlock`, where the request has been accepted, or after a caught exception
  (startUp, restoreSnapshot), whose value is unspecified.

- **VmSettings_proofs**: `Invariance`, `TypeCorrectness`, `TrueAnswersAreSaved`,
  `EditsAreAtomic`, `LocksAreLeftByFailures`. That an answer true means a saved setting
  depends on what the shared copy holds: `EditInv` says whose edits are in it as long as a
  session is locked, `LockInv` that no session is left linked to one that has ended, and
  `CallInv` that a call reaches *unlock* with something set only after its `saveSettings`, and
  `CourseInv` that what it has set and what it is still to set make up its edit, but for addDiskToVm.
  A call that ended earlier may be overwritten; `earlier` keeps it from coming back.
- **VmProvisioning_proofs**: `Invariance`, `TypeCorrectness`, `AttachedMediaExist`,
  `NoHalfMachine`, `TrueAnswersMakeMachines`. `PathInv` (a worker is at a step of its own
  operation) and `CallInv` (a progress and media in hand only where the code has them) say
  what a worker may do next, and that a progress that failed is in `erred`; `LockInv` that a lock belongs to the worker that has the machine
  in hand; `MakingInv` that a machine being made is made by one worker, with no media before
  `AttachDevices`; `MediaInv` that attachments differ from the file only just before
  `SaveSettings`; `FilesInv` who is at work on whatever is not settled, or which error or race has left it. `FilesInv` with
  `MediaInv` and `LockInv` gives `NothingLeftOver`; the action property follows from `MakingInv` and
  `MediaInv` at the last step of a call.
  `ProvisioningImplementsRegistry` is the simulation of `MachineRegistry`: each step of a worker
  either advances the machine of its call in the direction of its kind, or overtakes the deletion of its
  predecessor, or loses a machine that the call has met an error with (`Advances`, `Overtaking`, `Loses`; one
  lemma per group of actions), and touches no other. `Course`
  (`CourseInv`) is what that needs beyond `IInv`: which machine a clone has in hand, and that a
  request for an unlisted system makes none. That a call may end follows from `FilesInv` in the state
  after it: whatever is partial there has another call at work on it.
- **The lock of a machine**: `LifecycleImplementsSessionLock`, `SettingsImplementSessionLock`,
  `ProvisioningImplementsSessionLock`, at the end of the three modules just named. Each step of a call is a
  step of its session or is not seen by the lock. That a call which ends may leave is what `LockInv` is
  for: a session that is not the holder has no lock to lose, a link exists only under a holder, and after the last step
  nothing is held by a worker that is no longer between lock and unlock.
- **ThreadPool_proofs**, continued: `EachTaskInOnePlace`, `NoWakeupIsLost`,
  `PoolImplementsTaskPool`. The wake-up argument counts: while anybody sleeps, the queue is
  no longer than the idle workers that are awake and the notifications to come; a push adds
  one to both sides. The counts are cardinalities, which is why the callers of `enqueue` are
  assumed finite in number. The simulation needs that a worker that runs nothing leaves room
  among the running tasks.
- **VcaServiceRefinement_proofs**: `ServiceImplementsCallService`, `ServiceUsesItsPool`. Under
  the mapping `RunOf` each step of the loop, the workers, the runtime and the clients is one
  step of `CallService` or none. The mapping is well defined because a call is bound to one
  context (`StatusTellsTheEvent`), and a call is not run again because a context is in one
  place (`ContextInOnePlace`). The second theorem says that the service respects its pool: it
  never gives the pool a context that the pool still has.
- **VcaServer_proofs**: `ServerInvariant`, `ServerTypes`, `ContextsHaveTheirThreads`,
  `ServerHasThreadPool`, `ServerImplementsService`, `ServerKeepsContextsAlive`,
  `ServerImplementsCallService`. Nothing is proved twice: the
  module instantiates `ThreadPool_proofs` on the server's variables (`T`) and extends the
  proofs of the service. Each step of the server is a step of `ThreadPool` (`PoolStep`) and of
  `VcaService` (`ServiceStep`), or is not seen there, so that the invariants of both are kept by their own lemmas.
  What has to be shown is that each side gives the other what it needs: a worker outside a
  lambda leaves room (`RoomToRun`, a count of threads), which is the guard of the service's
  `Take`; the tag that the loop enqueues is in no other place (`ContextInOnePlace`), which is
  the guard of the pool's `Push`; and the contexts being worked on are those that the threads
  have (`ThreadsHoldTheirContexts`), which couples the two. All that is proved of the service
  then holds with real threads (`ServerImplementsService`), and all that is proved of every pool holds of the one
  in the server (`ServerHasThreadPool`).

Assumptions: `ThreadPoolAssumption`, `ServiceAssumption`, `ServerAssumption`, `LifecycleAssumption`,
`SettingsAssumption`, `ProvisioningAssumption` (sets finite where they are counted, distinct
sentinels, a pool of at least one worker). TLC evaluates each of them in the runs.

Only model-checked: what is temporal (`AcceptedTaskRuns`, `DestructorReturns`,
`OthersAreServed`, `CallsEnd`, `ImplementsFairPool`, and the fairness of `TaskPool` in
`ImplementsTaskPool`, whose safety part is `PoolImplementsTaskPool`), since liveness under fairness
and `ENABLED` are outside the proof system's fragment. Every invariant, every action property and the
safety part of every refinement that a run checks and finds to hold is also a theorem.

## 5. What is not modelled

- The interior of gRPC and of VirtualBox, the COM wrapper's reference counts (the code
  calls `Release` on smart pointers that release again), text conversion and logging.
- Controllers: the dispatch of the power, snapshot, settings, disk and provisioning methods
  is part of the operations; `Test` and `HostInfo` (which read the process table and host
  figures), the default case that answers "null", and the `QiVCA` that each request leaks
  are not modelled.
- Readers: `listVMs`, `getVmInfo` and `getVmSnapshotInfo` change nothing. What they find
  inconsistent shows only in their own answer.
- The sharing hook (`murder/`) starts and kills external processes that it finds by name in
  the process table, from an embedded interpreter entered without its lock. Both the
  interpreter and the process table are outside this repository, and what can go wrong is
  inside them.
- The monitor hook, string conversion, the event thread that nothing starts, the test
  program (commented out as a whole) and generated or vendored code; `PROJECT.json` says
  why for each. By lines these are nearly the whole repository: of about 353 000 lines in
  implementation files all but some 7300 are bindings of the VirtualBox SDK and generated
  protobuf code, which have no behaviour of this program to model.
- The contents of disks, and which snapshot a clone is made from.
- The memory model: accesses to `status_` are atomic in the model. The worker writes it
  before `Finish`, and the loop reads it after the event that `Finish` posts.

## 6. Plan

1. `Controller`: dispatch for all methods with its missing defaults, replies against
   results, composed with `VcaService` so that a controller's result is what the client
   receives.
2. `VmLifecycle`, `VmSettings` and `VmProvisioning` composed over one `SessionLock`, so
   that a machine may be deleted by one request while another edits it (today an error that
   `Throw` includes).
3. More than one hard disk per machine in `VmProvisioning`, with `addDiskToVm` among its
   operations.
