# Verification of the MediaTek power HAL (windsage/power)

TLA+ models of the parts of the power HAL that decide which performance
requests are in force, the TLC configurations that check them on small
instances, and TLAPS proofs that hold for every instance. Source paths below are
relative to the repository root.

## 1. The system

A client (the framework, a game, a native service) asks the HAL to hold a
*performance lock*: a list of `(resource, value)` commands for a given duration.
The HAL gives the client a handle, arbitrates between all locks that are on, and
writes the winning value of every resource to a kernel node.

    client -> binder thread -> powerhal_api.cpp -> vWorkMsg -> mtkPowerMsgWorker
                    |  (perfLockCheckHdl: handle)                    |  power_msg
                    v                                                v
              perfservice.cpp  <---------------------------- powerd_core.cpp
              ptScnList, gRscCtlTbl                          powerdTimer, ptimer
                    |
                    v  set_func / unset_func
              kernel nodes

| Component | State it keeps | Operations | What makes it correct |
|---|---|---|---|
| Scenario table, `power/lib/powerhal/perfservice.cpp` | `ptScnList` (slots: handle, owner, priority, requests, state), `gRscCtlTbl` (current value, priority, setter, valid) | `perfLockCheckHdl`, `perfLockAcq`, `perfLockRel`, `powerRscCtrl`, `perfUserScnDisableAll`, `perfUserScnCheckAll` | the entry of a resource is the best request of the highest priority, and the node is the entry |
| ONESHOT resources, same file | the same tables, `oneshotReset`, `hasReset`, `render_pid` | the ONESHOT branches of `perfScnEnable` and `perfScnUpdate` | a mode's value gives way and comes back, for the right process |
| Resource table, `perfservice_rsccfgtbl.h` | 415 rows: range, default, comparison, functions | read by all of the above | no request is mistaken for none, the device is told of every one |
| Lock API, `power/lib/powerhal/powerhal_api.cpp` | work queue, worker thread, two mutexes | `LockAcq`, `CusLockHint`, `LockRel`, `ExitWorker`, `UserScnDisableAll` | requests of a handle keep their order, calls return |
| powerd, `power/lib/util/powerd_core.cpp` | `powerdTimer`, `powerdOnOff` | requests, timer expiry | a timed lock ends, an untimed one does not |
| Ordered timers, `ptimer.cpp`, `mi_util.cpp` | doubly linked list of expiry times | start, stop, delete, expired | the links are one list, the earliest timer comes first |
| Timer service, `power/timer` | 64 callbacks, timer thread, no mutex | add, cancel, expire | a cancelled callback does not fire, no timer is freed twice |
| Hint sessions, `power/service/Power_aidl` | `sessionHintIds`, `mPowerHintSessions`, the kernel's sessions | create, pause, resume, close, destroy, `sendHint` | ids are unique and are given back |
| Modes, boosts and hints, `Power.cpp`, `MtkPowerService.cpp` | two tables `gtCusHintTbl` | `setMode`, `setBoost`, `mtkPowerHint`, `mtkCusPowerHint` | a mode that is on holds a lock, no lock is forgotten |
| Touch and boot boost, `power/lib/powerhal/handler` | one handle each, the API switch | events, boot | a boost ends |
| Limits, `perfservice.cpp`, `utility_gpu.cpp`, `utility_vpu.cpp`, `utility_sched.cpp`, `utility_dex2oat.cpp` | what was asked of each cluster, core and unit | set and unset of each bound | floors and ceilings agree, hard limits hold, rest is restored |
| Thermal policies, `utility_thermal.cpp` | reference counts, their copy in properties, the active policy | start, stop, save, load | counts match locks and survive a restart |
| Netd boosts, `utility_netd.cpp` | tables of uids and links, the foreground uid | set, clear, foreground change | a boost ends when its locks do |
| Bluetooth game mode, `utility_consys_bt.cpp` | queue, thread, current mode, provider | enter, deliver, death | the last mode asked for is delivered |
| Smart launch, `utility_sbe_handle.cpp` and the file code of `perfservice_xmlparse.cpp` | frequency learned per package, its file, the hint's resource list | launch, end, result, uninstall, restart | what was learned survives, a launch leaves no trace in the hint |
| App list, `power_applist` | resumed activities, rows and their locks, thread hints | resume, pause, die, frame rate, mode, reload | rows and hints in force are those of what is on screen, no lock is lost |
| IPC, `powerd.cpp`, `power_ipc.cpp`, `powerc.cpp`; parsers; loaders; client wrappers | - | marshalling, parsing, dlopen | - |

What is hard here: a lock is changed by incremental updates that look only at
the entry and the slot at hand; three kinds of threads (binder, worker, powerd)
act on one table under different mutexes; the handle is given out before the
lock is acquired; clients, providers and the HAL itself die at any time; timers
race re-acquires; commands to other processes are lost and counted as done; and
several tables have a fixed size. `PROJECT.json` lists each such hazard at its
line.

## 2. Modules

| Module | Models | Established by |
|---|---|---|
| `PerfService`, `MCPerfService` | slots, BIGGEST/SMALLEST arbitration, sweeps; its small instances | runs, `PerfServiceProofs` |
| `Arbiter` | what arbitration of one resource promises (abstract) | |
| `PerfRefinement` | `PerfService` implements an `Arbiter` for each resource | run, `PerfServiceProofs` |
| `OneShot` | ONESHOT resources, mode priority | runs, `OneShotProofs` |
| `RscCfgTbl`, `RscTable` | every row of the resource table; locks on a row | run, `SetterProofs` |
| `SetterTbl`, `Setters` | what each pair of setters does to its node; locks on such a node | run, `SetterProofs` |
| `Limits` | CPU, GPU, APU, core and scheduler limits | run, `SetterProofs` |
| `ThermalPolicy`, `Netd` | setters that keep state of their own | run, `SetterProofs` |
| `BtGameMode` | the Bluetooth game mode's queue and thread | run, `ServiceProofs` |
| `LockService` | API threads, work queue, worker, powerd, timers | runs, `LockServiceProofs` |
| `TimerList` | the timer list with its pointers | run, `ServiceProofs` |
| `TimerQueue` | what a list of timers promises (abstract) | |
| `PowerTimer` | the timer service | run, `ServiceProofs` |
| `HintSession` | ADPF hint sessions | runs, `HintSessionProofs` |
| `HintHandles` | the callers inside the system that keep a lock's handle | run, `ServiceProofs` |
| `SmartLaunch` | learned launch frequencies | run, `ServiceProofs` |
| `ResumedApps`, `AppList`, `ThreadHint` | the app list service | run, `AppProofs` |
| `MCResources`, `MCServices` | the components of one run side by side | runs, `SetterProofs`, `AppProofs` |
| `LoopTheorems` | lemmas on loops and sequences that all proofs share | |

`MCResources` and `MCServices` put components that share no state into one run: a
behaviour chooses one of them (`family`) and is a behaviour of that component.
Each component keeps a specification of its own (`RscSpec`, `TSpec`, ...).

### PerfService

One variable per field of a slot (`scn_type`, `scn_state`, `pid`, `priority`,
`short_lock` for `0 < lock_duration <= USER_DURATION_MAX`, `screen_off_action`,
`lock_rsc_size`, `scn_rsc`) and of a resource entry (`curVal`, `curSetter`,
`rscPriority`, `isValid`). `node` is the value last passed to `set_func`, or the
default after `unset_func`. Every entry point holds `sMutex`, so a call is one
step; only the two sweeps and the search for a dead owner take one step per
slot, because `stat("/proc/<pid>")` is asked slot by slot and a process may die
in between. `sweep` stands for the mutex then.

`perfScnEnable(s)` and `perfScnUpdate(redo)` are the resource halves of the two
functions: the first compares the slot with the entry (`Takes`), the second
searches the whole table (`BestVal`, `BestPriority`, `BestSetter`) for the
entries in `redo`. `GivenUp(s)` and `Forced(p)` are the conditions under which
the code reaches that search on a release and on a re-acquire.

`RscModified` is the one piece of undefined behaviour: on a re-acquire the new
list is compared with a block just returned by `malloc`, so the comparison may
come out either way if the sizes agree (`MallocRepeats`).

`suspect` is a history variable: the entries that the code itself leaves behind
wrongly or on purpose, that is, those of a resource switched by CTRL_ON or
CTRL_OFF, those of a re-acquire taken for unmodified, and those that a lock of
the ruling priority held when it was re-acquired at a lower one. A later search
of the entry removes it from the set. `suspect` restricts no action.

### OneShot

The slots of `PerfService`, reduced to what the ONESHOT branches read. A lock is
marked `oneshotReset` by MODE_PRIORITY or by POWERHAL_ONESHOT_RESET at any priority
(`Request`); negative priorities are left out. A re-acquire takes the branch of a
modified list only; the other one is in `PerfService`, `RscTable` and `Setters`. The loops
over `gRscCtlTbl` and over the slots are recursive functions in table order,
because `hasReset` of a slot is carried from one resource to the next. `drifted` is a history
variable like `suspect`: resources that a re-acquire added, dropped or moved to
another priority, since the update path leaves the entry's priority alone.

### LockService

`api` is the call that holds the API's `sMutex` (one at a time), with its
progress: `check` (polling in `check_work_req`), `register` (in
`perfLockCheckHdl`), `enqueue`. `worker` is `drain` while the worker holds
`g_cond_mutex`, which it does for a whole batch. `power_msg` is one step: the
worker waits for powerd's answer, and powerd serves one request or expired timer
at a time. What locks ask for, and the fields that exempt a slot from a sweep,
are abstracted: a sweep may spare any slots. `timer` follows `powerdTimer`;
`armed` tells whether the timer is still in ptimer's list. Any armed timer may
expire at any time, which includes every order of expiry times.
`POWER_MSG_TIMER_REQ`, which would give a lock's timer another duration, is left out:
its senders `setPerfLockDuration` and `setHintDuration` have no callers.

### HintSession

The service has one binder thread (`service.cpp`,
`ABinderProcess_setThreadPoolMaxThreadCount(0)`), so each call is one step.
`kernel` is external: the session the ADPF driver has under each id.
`removePowerSession` is the manager's function together with the CLOSE message
that both its callers send. `foreign` is a history variable: the ids reached by a
call on a session already closed, since they were last given out with no other
session having them.

### Arbiter and PerfRefinement

`Arbiter` knows claims (a value with a priority) and the value given; a step
moves one claim and gives the resource what the new claims deserve. The
refinement maps a slot that `perfScnUpdate` would consider to its claim and the
kernel node to the value given. `ImplementsArbiter` is that refinement, checked
where no lock changes its priority and no resource is switched off, the two
things for which the code leaves an entry behind (`suspect`).

### RscCfgTbl and RscTable

A row is what arbitration reads of it: comparison, range, default, and whether
`unset_func` is a function of its own or `set_func` again. Rows of the same shape are one element, and each definition names a
stretch of the table. `RscTable` runs three locks on every row in turn, with the
values at and beyond the ends of its range. A lock that is on is acquired again by
either branch of `perfLockAcq`, because the list it compares with was just allocated:
`perfLockAcqRow` updates, and `perfLockAcqSameRow` runs `perfScnEnable` once more (the
return for STATE_ON is commented out). The second sets a ONESHOT value without an unset
of the one before; `kept` counts these, per value, and `RequestsReachDevice` says that
nothing else is left over. In a ranked row it gives up the lock's value without a
search; `unsearched` says that this was the ruling value and that nothing has searched
since, and then the device has no less than the best request.

### SetterTbl and Setters

`SetterTbl` gives the shape of each pair of setters: ranked or not, the key its
value is stored under (one node, the process in `render_pid`, or the argument),
and what the end of a request does. `Setters` runs two locks of two processes on
each shape, with any number of mode locks, and of locks marked by ONESHOT_RESET, that
give way and are brought back. A lock acquired again takes either branch. `render_pid` is
the global variable that `set_fpsgo_render_pid` writes before each call. Shapes
keyed by `render_tid` are in the table and not in the run: nothing switches that
variable on the way, so such a value goes to the thread named last.

`disturbed` and `strays` are history variables, and both go by what a call is *for*,
never by where it lands: they are computed from the slots, and the device only decides
when a stray has ended.

- A lock is disturbed from a call for another lock of the same key that leaves
  another value there, from its own giving way as a mode lock, or from an acquire at a
  priority the row does not hear (`Disturbs`, `Hears`); until the next `set_func` for
  it. A lock acquired again that is heard is to be set again (`DisturbedAgain`), unless
  `perfScnUpdate` passes over it: the same value for another process. So a `render_pid`
  that is not switched on any path, that of the re-acquire included, breaks `Effective`.
- A key is a stray when its lock is released or acquired again while a higher priority
  rules; when the lock is acquired again for another process; and when a list taken for
  unmodified names another key, or a lower value of a ranked row (`StrayAgain`). An
  ordinary re-acquire for the same process is none of these.

### Limits

One variable `asked` for the `..._now` variables of the setters and one, `written`,
for the nodes; `unit` says which cluster, GPU, APU, core group, PELT or dex2oat
setting the behaviour is about. `FreqToSet` is the body of `setCPUFreq`.

### ThermalPolicy, Netd, BtGameMode

`ThermalPolicy`: the list of counts, its encoding of 5 bits per character, the
properties written one by one (`save_policy_prop` is a loop of steps, so a crash
falls between them) and read back one after the other (`ItemsIn`, `LoadItems`),
and the command to the thermal core, which may be lost.
`Netd`: `Outcome` is what becomes of a command (done, lost, failed); the agent's
rules are state of their own, apart from the HAL's tables. A restart of the HAL
(`netd_reset`) is two actions, one for the uids and one for the links, which share
nothing. `BtGameMode`: the
thread's steps, and the provider's death on a binder thread between any two.

### TimerList, TimerQueue and PowerTimer

`TimerList` keeps `next` and `prev` of each node and follows `MI_DlInsert`'s binary
search turn by turn (`SearchTurn`; a search that has found its place stays there, so
it is a loop of `count` turns). `TimerQueue` forgets the list: a set of running
timers, each with the time it is due, of which only one that is due and of the
earliest second may be reported. `ImplementsQueue` is the refinement, the set being the
one the list manages. Within a second any order is allowed, because
`_comparePTIMER_` compares seconds. `PowerTimer` has one step for each access to the table that another thread
can see; its user is the delayed switch-off of `utility_ril.c`. `raced` marks the
behaviours in which a cancel meets the handler on one entry.

### HintHandles

`hlocks` are the live locks, `work` the queue of the lock API's worker. A call of
a service is one step, since both services share one binder thread; the acquire
is performed later by `Work`. `adrift` are locks whose handle their caller wrote
over or dropped. That a call finds no free slot is a choice, because other
clients have slots too.

### SmartLaunch

The list of the hint holds its entries; the gaps that removed ones leave, and its
growth beyond its capacity, are left out. Frequencies are operating points. How far a launch missed its target, the
pressure of the system and the kernel's answer are choices. A restart may find
the file as it was or, after a crash in a write, unreadable. `open` counts the
launches under way.

### ResumedApps, AppList, ThreadHint

`notifyAPPstate` is one step under `fg_mutex`: first the list of resumed
activities (`NotifyList`), then the rows of the white list and their locks
(`NotifyRows`), or the thread hints (`NotifyHints`). The frame-rate thread reads
in one step and reports in another, as it does in the code. `shown` is what is
really on screen. `astray` says that the list and the screen went apart, and has three
causes, all read off before the list changes: a frame-rate report of an activity that
is no longer shown, an activity that is back in a new process while the old one is
listed, and a list without room (`LeavesOut`).

A thread policy may leave the parameter unset (`NotSet`), and then does not compete for
it. `ReloadHints` forgets the processes of all policies: those in force lose their hint
until their application is reported again (`reloaded`). Switching the controller off is
a loop that does not hold `fg_mutex`, one step for each policy (`ControllerOff`), so
that reports fall in between; what they write then stays in the kernel while the
controller is off. Two calls of `setThreadHintControllerEnabled` at a time are left out.
`HintsFollow` compares policies of one package and thread. Packages are compared by
prefix, so two packages may be for one process; the one written last has the thread, even
if it does not set the parameter.

## 3. What is checked

| Run | Instance | Shows |
|---|---|---|
| `PerfArbitration` | 3 slots, 1 BIGGEST resource with a clamped value, priorities 2, default 3, and 7 | `TypeOK`, `Arbitration`, `NodeFollowsTable`, `FreeSlotClean` |
| `PerfLifecycle` | 2 slots, 1 SMALLEST resource, all screen-off actions, both lock types, a process that dies, both sweeps | `ScreenOffComplete`, `AlwaysValidKept`, `DeadOwnerReaped`, `ImplementsArbiter` |
| `OneShotPriority` | 3 slots, 1 resource, up to 2 locks marked oneshotReset, re-acquires | `PriorityIsBest`, `NodeHasHolder` |
| `LockProgress` | 2 slots, 3 timers, 3 handles, queue of 2 | `TimersMatchLocks`, `ReleaseHonoured`, `TimedLockEnds`, `CallReturns` |
| `LockQueue` | 2 slots, 2 clients, one mortal, queue of 3, powerd on and off, worker exit | `QueueStaysValid` |
| `HintSession` | 2 ids, 3 sessions | `TypeOK`, `SessionsApart`, `NothingLeaks` |
| `Resources` | every row with 3 locks; 3 policies in 2 properties of 1 item; 2 uids and 1 table entry; 3 links and 2 entries; every setter shape with 2 locks and 2 processes; every limit unit | `TypeOK`, `EveryRequestHeard`, `RequestsReachDevice`; `PolicyCounted`, `RestartReadsBack`, `ActiveIsApplied`; `BoostEnds`, `LinksListed`; `NoStray`, `Effective`; `LimitsConsistent`, `OverrideRules` |
| `Services` | 4 timers, a second of 4 ticks; 2 callbacks; Bluetooth queue of 3; 3 activities of 2 packages in 2 processes; 2 packages to learn; 2 modes and 2 hints | `TypeOK`; `TimersLinked`, `WeakSigFollows`; `BtSettles`; `ResumedFollows`, `RowsFollow`, `HintsFollow`; `LearnedSurvivesRestart`, `LaunchPolicyReset`; `HandlesHeld` |
| `PerfLowerPriority` | 1 slot | violates `NoBoostLeft` |
| `OneShotTwoRsc` | 2 slots, 2 resources, 1 mode | violates `ModeRestored` |
| `LockTimerTableFull` | 2 slots, 2 timers | violates `TimedLockEnds` |
| `HintSessionReusedId` | 2 ids, 3 sessions | violates `UniqueIds` |

Why the bounds are enough to be interesting. Three slots give a winner, a
runner-up and a lock that leaves: the incremental update can only go wrong when
an entry passes from one lock to another with a third still there. Two values
and three priorities give every order of two requests; priority 7 is one that
can never take effect. Resources do not influence each other in `PerfService`,
so one is enough there; `OneShotTwoRsc` has two because `hasReset` links them.
The SMALLEST and the BIGGEST rule are mirror images and the proof covers both.
`OneShotPriority` has one priority besides that of modes; priorities beyond
PRIORITY_LOWEST are left to the proof. `LockQueue`'s queue of 3 is the smallest in which an acquire may sit behind a
release that is not at the head. `LockProgress` has one timer per slot and one
for the periodic check. Two ids and three sessions let an id be used again while
its former session still exists.

In `Resources`: three locks per row for the same reason as above, and at most one
value left over by an unmodified re-acquire (`MaxRepeats`; the proof has no bound).
Policies 0, 1
and 50 use the lower and both digits of the encoding, and counts up to 2 with one
item per property make the list grow past a property, fill all of them exactly
and leave a stale one behind. One uid entry for two uids, and two link entries
for three links, make the tables overflow. Frequencies 1 to 3 with requests
below, inside and above them give every order of floor, ceiling and hard limit.
In `Services`: four timers are the fewest with which the binary search takes both
of its branches; durations 1, 3 and 5 against a second of 4 fall within one
second and into two. A Bluetooth queue of 3 has something behind what is
being replaced. The activities are one package in two processes, one of which
also runs a package whose name begins with the first one's. Three thread policies of
one package: a common one, one for the window mode, and one for the frame rate that
leaves the parameter unset. That a policy for the frame rate beats the common one needs
a fourth, which takes TLC too long, and is left to the proof. One place in the
file of learned frequencies for two packages makes it full. The work queue of
3 holds what one end of a hint puts there.

Fairness. `PerfService!FairSpec`: the thread inside a sweep goes on (weak
fairness), and the periodic check gets the mutex again and again although
clients also want it (strong fairness; powerd re-arms the check each time, and
the check is on by default, `scnCheckSupport`). `LockService!FairSpec`: the
worker, a call that is under way and each armed timer go on (weak fairness:
threads are scheduled, `select` wakes powerd when the first timer is due). No
fairness is assumed of clients.

Deadlock is checked in every run except `Resources` and `Services`, whose components
come to rest when their bounds (clock, locks, launches) are used up.

### Disagreements between the code and what it says

Each has a run whose counterexample shows it.

- *A value that outlives its lock* (`PerfLowerPriority`). `perfScnUpdate` passes
  over a resource whose table priority is higher than the lock's, even if the
  lock is the one that set it and has just been re-acquired at a lower priority.
  The entry is then never searched for that lock, and its release leaves the
  value in the node.
- *A mode that is only partly restored* (`OneShotTwoRsc`). `hasReset` is a flag
  of the lock, so after a higher lock has released two ONESHOT resources of a
  game mode, only the first is written again.
- *A timed lock that never ends* (`LockTimerTableFull`). There are as many
  timers as slots, one belongs to the periodic check, and `start_scn_timer`
  fails silently.
- *Two sessions with one id* (`HintSessionReusedId`). `removePowerSession` frees
  the id before it looks whether the session is still registered.

Met while modelling, part of the models, and without a run of their own: a
re-acquire whose list looks unmodified leaves its first value behind, and sets a
ONESHOT value twice that is unset once
(`RscModified`, `perfLockAcqSameRow`; with `MallocRepeats` the property `NoBoostLeft`
fails as well);
a mode that asks for the very value that is withdrawn is not restored, because
`curVal` is stale after an unset (`RestoreSlot`); a ONESHOT resource that a
re-acquire adds is not written (`UpdateRsc`, `drifted`); a periodic check that
fires while powerd is off is never armed again (`Expire`); after `ExitWorker` an
acquire behind a queued release polls for ever (`check_work_req`).

Likewise, of the components modelled since:

- *Boot boost* (`HintHandles!mtkPowerBootHandler`): `init` switches CusLockHint off
  (`perfservice.cpp:467`) and then starts the boot handler, which asks for the boot
  boost through CusLockHint and switches it on only when the boot has ended; unless
  somebody switches it on meanwhile, the boost is never taken.
- *Hints* (`EndHint`): a hint that ends before the worker has performed its acquire
  has no hold time and no second hint; a second hint's handle is overwritten
  without a release (the lock has a duration). `setBoost` with
  DISPLAY_UPDATE_IMMINENT and 0 takes an unlimited lock and drops its handle. A
  mode whose new lock is refused loses the old one too. Screen-off leaves a
  SUSTAINED_PERFORMANCE lock disabled; `perfUserScnRestoreAll` restores nothing,
  its loop is commented out.
- *Rows* (`RscTable`): 45 ONESHOT rows have their `set_func` as `unset_func`;
  RSC_TBL_INVALID_VALUE is inside the range of three rows.
- *Setters*: a lock released while a higher priority rules leaves its value with
  its process; a lock re-acquired for another process leaves it with the first, and with
the same value is not set for the second;
  the loops that take and bring back mode locks switch `render_pid` and never
  `render_tid`.
- *Limits*: a hard ceiling of 0 is applied as 0; where hard limits have a node of
  their own, `setCPUFreq` works with those of the last soft request; a thermal
  request for dex2oat does not bring the other one back.
- *Thermal* (`ThermalPolicy`): counts in the properties outlive a crash, their locks
  do not; when items fill the properties exactly, a stale one is read after them.
- *Netd*: a second lock for the foreground forgets the first one's application;
  uid -1 in the second channel clears all.
- *Bluetooth*: the mode taken last is remembered through the provider's death and
  not sent again.
- *Timers* (`TimerList`): within one second a later timer may be in front of an
  earlier one. `PowerTimer`: a cancel that meets the handler frees a timer twice; a
  message to rild that fails is not sent again.
- *Smart launch*: `write_file` cuts the file before it writes, and an unreadable file
  is never replaced; the list of the hint keeps a gap for each entry removed, and
  append does not look at its capacity; the pressure of one launch is used for
  another one's result.
- *App list*: a frame-rate report made after the unlock brings back an activity that
  has left; the death of one process releases the lock of a row another one still
  shows; a reload marks pattern rows as in force without a lock; packages are
  compared by prefix; a reload takes the thread hints of what is on screen away until the
  next report; re-enabling the thread hints writes nothing until the next event, and a
  report during the loop that switches them off leaves its hints in the kernel.

## 4. What is proved

The proofs hold for any number of slots, timers, clients, resources, values,
priorities, ids, sessions, policies, packages, activities and rows; only the
tables of rows and of setter shapes are those of the code. What they take from the
constants is in the named assumptions of the models (`ConstantAssumption`,
`LockServiceAssumption`, `ThermalAssumption`, ...), which TLC evaluates in the
runs: tables are finite and not empty, requests carry integers, a marker such as
`NoCmd` is not a value. Each theorem is `Spec => []Inv` for the component's own
specification, from an inductive invariant; the module says at its top which
lemma each step rests on. 36 of the runs' 40 properties are stated by a theorem; the
other four are liveness.

**Loops.** What the code does in a `for` is a recursive function in the model, and
such a function means something only if a function with that recursion exists.
`LoopTheorems` shows both that it exists (`LoopExists`, for a body that stays in a
set) and what holds after every turn (`TurnByTurn`), by looking at the first turn
for which the claim would fail: the naturals are well founded. A claim is given to
the lemma as the *set* of turns for which it holds, so no lemma takes an operator as
a parameter, which the provers could not instantiate.

**`PerfServiceProofs`.** `TypeCorrect`, `ArbitrationCorrect`, `NodeCorrect`,
`FreeSlotCorrect`, from one inductive invariant `IInv`: `TypeOK`, `FreeSlotClean`,
`NodeFollowsTable`, `Arbitration`, and `OffIsSuspect` (an entry that is not valid is
in `suspect`). `Arbitration` alone is not inductive: a new owner of a free slot must
bring no old request with it, values must be in range for the reset value to be the
worst, and an entry that is switched off is not kept up. The argument: a search
always finds a winner, since the slots are finite and the order is strict
(`RulerExists`); an entry that is searched is arbitrated (`SearchArbitrates`); a slot
that was not ruling may change or leave without a search (`LoserArbitrated`); a slot
that beats the entry rules afterwards (`TakerArbitrated`). Each action is one of
these or touches no entry.

- `StepsImplementArbiter`: every step of the table is, for each resource, a step of
  `Arbiter` or leaves it alone, as long as the entry is not in `suspect`.
- `TableImplementsArbiter`: the refinement itself, `ImplementsArbiter`, and
  `PlainLeavesNoBoost`, under `Plain`: no resource is switched on and off, a
  re-acquire is never taken for unmodified, no lock asks for a priority of its own.
  These are the three things for which the code leaves an entry behind, and
  `PerfLowerPriority` shows the third to be needed. With them `Calm` (nothing is
  suspect) is invariant.
- `ScreenOffIsComplete`, `AlwaysValidIsKept`: the action properties of the sweep. The
  first needs `SweptInv`, what the slots behind the sweep's position have in common
  while the mutex is held.

**`OneShotProofs`.** `PriorityIsTheBest` and `NodeHasItsHolder`, from `OneInv`: every
resource not in `drifted` has the priority of its best lock and, if a value is
written, that of a lock of this priority. The order of the loops matters: the proof follows
the table through disabling, unsetting and restoring resource by resource.

**`LockServiceProofs`.**

- `QueueValid` (`QueueStaysValid`) from `QInv`: no acquire sits behind a release of its
  handle, and a new lock keeps its slot until the worker gets to it; needs that handles
  in use were given out (`HandlesGiven`), the order of the messages of one handle in
  the queue (`QueueInOrder`) and of the call that is about to add one (`CallInOrder`).
- `NoStaleTimer` (`TimersUnique`): a lock has at most one timer, and an untimed one none,
  so that no timer that was started for a former holder of the slot ends its lock.
- `TimerLostOnlyWhenFull`: an action property, for the sizes the code has. A timed
  lock is enabled without a timer only in a step in which the timer table is full.
- `TimersCorrect`: `TimersMatchLocks` under `EnoughTimers`: more timers than slots,
  powerd never switched off, and no client that dies. The code has 256 of each, and
  `LockTimerTableFull` shows that equal numbers do not suffice: that is why the
  theorem asks for one more. `LockProgress` checks such an instance.

**`HintSessionProofs`.** `TypeCorrect`; `NothingLeaksForever`, inductive with `TypeOK`;
`OpenSessionsApart`, which needs `ReservedIds` (an id not in `foreign` that a session
has is marked as taken), or else `checkPowerSesssion` might give it out again.

**`SetterProofs`.**

- Resource rows: `RequestsAreHonoured`, `RequestsAreHeard`, `ArbitrationFits` for any
  number of locks on each row and either branch of a re-acquire, from `TableInv` (the
  node is the best of the requests, which are inside the row's range, or no worse while
  `unsearched`; for ONESHOT rows, sets less unsets are the locks and `kept`).
- Setters: `NothingStrays`, `LocksAreEffective` for every shape and any number of locks
  and processes, from `SetInv`. The two loops that take and bring back mode locks
  switch `render_pid` in every turn; a turn moves only the key of its own lock
  (`Moves`), and loops compose (`MovesCompose`).
- Limits: `LimitsAgree` for every interval of frequencies and number of GPU operating
  points, and `OverridesRule`, from one invariant for each kind of unit (`LimInv`).
- Thermal policies: `EncodingReadsBack` for all ids and counts up to 999;
  `ActivePolicyApplied`; `PoliciesAreCounted` and `RestartIsRight` from `ThermInv`. The
  latter needs, in the middle of `save_policy_prop`, that the properties before the one
  to be set hold their part of the list (`SaveInv`); and between calls that all of them
  do, or that the list is what they were read as (`SavedInv`), since a call that is
  refused loads and does not save. Counting needs `LeftInv`: whatever is in the
  properties while the list is empty belongs to no lock of this HAL. The reader is
  followed from the last property backwards (`SavedIsRead`), the list it builds item by
  item (`LoadedAgain`).
- Netd: `LinksAreListed`, `BoostsEnd`; a rule is accounted for by a table entry, a lock,
  or the foreground (`UidInv`).
- All of them composed: `ResourcesAreTyped`, the type invariant of the run. A step of one
  family leaves the variables of the others alone, so a behaviour of the composition is
  one of every component's own specification (`ResourcesCompose`), and what is proved of
  the component holds there. Types alone are not inductive: that a history holds keys of
  the setter needs that every lock has its key (`SetTypes` with `SetInv`), that a limit
  at a node is small needs that the hard limits it is pressed into are (`LimTypes` with
  `LimInv`), and that a policy's count stays within its digits needs `ThermInv`.

**`ServiceProofs`.** `BtModeSettles` (`BtInv`: the last of the queue is what was asked
for last, and with an empty queue the current mode is); `LearnedIsKept` (`FileInv`: a
package has at most one line in the file, with the value in memory, unless marked
unsaved); `LaunchPolicyIsReset` (`RscInv`: the hint's list is no longer than the launches
under way); `WeakSigIsFollowed` (`PtInv`: without the race, one entry is used at most,
and its timer is allocated); `HandlesAreHeld` (`HandleInv`: every lock has its holder,
is about to be released, or is adrift and timed).

The timer list: `TimersAreLinked`, from `TimerInv`: there is a sequence of the running
timers, in order to the second, whose neighbours are those of `next` and `prev`. Such a
sequence is enough, because each operation does to it what it does to the pointers:
`MI_DlInsertBefore` and `MI_DlInsertAfter` insert an element, `MI_DlDelete` removes one,
and `MI_DlStep` counts along it. The binary search keeps the place of the new timer
behind `vStart` and not behind `vEnd`, which holds at the start because the first and
the last timer are compared before; each turn that is not the last brings the two closer
(`SearchTurnNarrows`), so `count` turns are enough, and inserting at the probe where it
stops keeps the order. From the
same invariant `NoTimerOverdue` (if the first timer is not due, none was due in an
earlier second) and `TimersImplementQueue`, the refinement of `TimerQueue`, action by
action.

**`AppProofs`.** `ResumedIsFollowed` for both specifications that use the list;
`RowsAreFollowed` (`RowInv`: the number of locks is that of the rows with a handle and
of the boosts, a row in force has a handle unless it is marked bare, and the rows in
force are those that fit the list); `HintsAreFollowed` (`PolicyInv`: policies of one
package agree on its process, and unless they were read again they know it when one of
its activities is listed), where the policy that decides a thread is the first of the
most specific, and the order of frame rate and window is that of `Specificity`.

The run's `TypeOK` is `ServicesAreTyped`, in the same way as `ResourcesAreTyped`
(`ServicesCompose`). The list of resumed activities shares its variables with the rows
and the hints, so these two are not specifications of their own there: their invariants
hold where the behaviour chose them (`ComposedInv`). That the list fits its array needs
`SizeInv`: entries are added only where there is room.

Only model-checked: liveness (`DeadOwnerReaped`, `ReleaseHonoured`, `TimedLockEnds`,
`CallReturns`), which is beyond the prover.

## 5. What is not modelled

Listed with reasons in `PROJECT.json`. In short:

- socket I/O, marshalling, loaders, XML and CSV parsing, logging and dumps: no
  state that lasts, or state that is set once at start-up;
- scenarios of the power-hint table that are not locks, and with them the setter
  that ends a hint's hold time from within `perfScnEnable`: the same enable and
  disable code on other slots;
- code without callers: the scroll white list of `utility_sbe_handle.cpp`,
  `setHintDuration`, the hash tables, queues and sorts of `mi_util.cpp`;
- the older interface to the thermal core, `netd_set_block_uid`, SurfaceFlinger
  durations, cpuidle, UFS tracing and wifi events: writes that keep no state, or
  one latch;
- the thread that waits for touches, and the error handler;
- handle wrap-around after two thousand million acquires, and the reuse of a pid
  by another process.

## 6. Plan

What is left, in this order:

1. Scenarios of the power-hint table in `PerfService`, and the setter that disables
   them from within `perfScnEnable`.
2. A composition of `HintHandles` with `LockService`, so that a refused call is a
   full table and not a choice; and of `LockService` with `TimerQueue`, so that timers
   expire in the order the list gives them.
