# A TLA+ model of the resource reservation kernel

The repository is a Linux 3.x kernel tree to which a student team added CPU
*reservations* for real-time tasks: a task is given a budget C in every period
T, is charged while it runs, suspended when the budget is used up, and resumed
at the next period. Reservations are admitted by a schedulability test, placed
on one of four CPUs by a partitioning policy, and decide which CPUs are online
and how fast they run. Earlier labs left a few smaller tools in the same kernel.
Paths below are relative to `src/kernel/`.

## 1. Inventory

| Component | Where | State | Operations | What is hard |
|---|---|---|---|---|
| Budget enforcement | `rtes/kernel/reserve.c` (c_timer_callback, p_timer_callback, end_job, the timer parts of set_reserve and cancel_reserve), hooks in `kernel/sched.c` 4325-4373 and `kernel/exit.c` 915-965 | per task: flag, suspend, C, acc, two hrtimers; state, on_rq | timer callbacks, context switch, end_job, set, revise, cancel, exit | callbacks of another CPU, the gap between "suspended" and schedule(), wake-ups, timers re-armed behind a cancellation |
| Admission and placement | `reserve.c` (try_bind, sortCPU, set_reserve, cancel_reserve), `exit.c`, `kernel/fork.c` 1233 | `cpu_tasks`, `cpu_tasks_length`, `cpu_util`, `cpu_open`; per task cpu, budget, period, util | set, revise, cancel, exit, fork, write a policy | calls that fail half way and are undone; rounding; equal utilizations; a long history of calls |
| SysClock frequency | `rtes/kernel/sysclock.c`, `drivers/cpufreq/cpufreq_sysclock.c` | frequency of the CPUs, governor per CPU, count of its users | computed at each set and cancel; governor start and stop; hotplug | 32-bit arithmetic, threads, a count read outside its mutex, CPUs that come and go |
| Utilization buffer | `reserve.c` (tid_show, p_timer_callback 212-246) | ring buffer start, end, buffer_full, stamps | one sample per period, a draining read | wrap-around, exactly full, stale stamps |
| taskmon module | `rtes/modules/taskmon/taskmon.c`, and the files of a reservation in `reserve.c`, `exit.c` | sysfs objects, names, buffers, enabled flag, taskmon_timer, policy | load, unload, enable, make and remove files | objects used by timers and readers while calls free them |
| Energy accounting | `rtes/kernel/energy.c`, `__schedule`, stores of taskmon.c | acc_single_run, energy per task, total_energy and its lock | each context switch, reset of the total, tracking on and off, fork | all CPUs at once; a lock initialised on first use |
| calc system call | `rtes/kernel/calc.c` | none | + - * / on the bits of floats | unsigned exponents, shifts, cuts, a loop without end |
| ps system calls, psdev | `rtes/kernel/ps.c`, `rtes/modules/psdev/psdev.c`, `rtes/apps/rtps/rtps.c` | open count, read position, process list | open, read, close, count, list | exclusive open without a lock, a list that changes between two calls |
| cleanup module | `rtes/modules/cleanup/cleanup.c` | two replaced system calls | load, unload, exit | replaced in steps, unloading while a call is inside |
| resdev module | `rtes/modules/reserve/resdev.c` | - | - | superseded by reserve.c |
| Applications | `rtes/apps/*` | - | callers of the system calls | they are the environment of the models |
| Android application | `../taskmon/` | - | user interface | - |
| Lunar lander, boot image tools, vendored kernel | the rest | - | - | third party |

The components interact as follows. A *reserve* tool calls set_reserve about
another process. The call tests and places the task (books), brings its CPU up,
binds the task to it, starts p_timer **on the CPU of the caller**, makes the
task's files, sets the flag and then the frequency. The scheduler starts and
stops c_timer at each switch of a flagged task and charges energy to a tracked
one; c_timer_callback charges the budget and suspends the task,
p_timer_callback resumes it, clears the account and writes a utilization sample.
do_exit and cancel_reserve undo all this. psdev, ps and cleanup meet each other
at processes that come and go.

What makes each component correct:

* enforcement: no suspension is for ever and no wake-up is lost; only the
  running task is charged; a task is suspended exactly when it is out of
  budget, and then stays off the CPU until its next period;
* admission: the books agree with the reservations whatever calls fail; what is
  admitted meets its deadlines and what is turned away would not; a CPU in use
  is online;
* frequency: the tasks also meet their deadlines at the frequency chosen, and
  the CPUs run at that frequency when all of them use the governor;
* buffer: a read ends and loses no sample;
* taskmon: what a timer or a reader uses is there, and is freed once;
* energy: the total is what was charged, and only runs that happened are charged;
* calc: results are near the exact ones, and refused only out of range;
* ps, psdev, cleanup: the device is free again, lists are complete, files left
  open are reported, exits end.

The hazards are listed in `PROJECT.json`, each with its line.

## 2. Modules

| Module | Models |
|---|---|
| `Reservation` | abstract specification: what a reservation promises a task |
| `Enforcement` | budget enforcement on one CPU; implements `Reservation` |
| `EnforcementProofs` | theorems about it |
| `ReservationProofs` (extends `EnforcementProofs`) | that it implements `Reservation` |
| `Sysclock` | sysclock_compute as operators |
| `Admission` (extends `Sysclock`) | books, admission test, policies, hotplug, frequency |
| `MCAdmission` | the request sets used for model checking |
| `AdmissionProofs` | theorems about `Admission` |
| `Governor`, `GovernorProofs` | the cpufreq governor and sysclock_set_frequency, step by step |
| `UtilRing`, `UtilRingProofs` | the sample buffer of one task |
| `Files`, `FilesProofs` | life of the files and buffers of reservations, the module taskmon |
| `Energy`, `MCEnergy`, `EnergyProofs` | energy accounting; the symmetry of its tasks |
| `Calc` | the calc system call |
| `PsTools`, `PsToolsProofs` | psdev, the ps system calls, rtps and cleanup |

In several modules a constant says how much care the users of the kernel take
(`Ops`, `Inherited`, `Faults`, `AnyRevise`, `Careless`, `Inherit`, `Writers`,
`Overlap`, `Calls`). The code has races that need such care; a run states the
care under which its properties hold, and section 5 what happens without.

### Enforcement and Reservation

One CPU, the tasks bound to it, a thread `Other` for everything else on the
CPU, and a process `mgr` on another CPU that makes the calls about tasks. A
step is what runs without interference: a section with interrupts off, a section
under `s_lock`, or one access to an unlocked field. So c_timer_callback is three
steps (`CTimerFire` reads acc, `CTimerAdd` writes it back and tests it,
`CTimerSuspend` is the locked section) and p_timer_callback two (`PTimerFire`,
`PTimerResume`). set_reserve and cancel_reserve are one step per timer operation
(`SetParams`, `CancelBegin`, `MgrCancelC`, `MgrCancelP`, `MgrInitTimers`,
`MgrSetFlag`, `MgrUnbind`, and their failures). `Schedule` and `ScheduleOther`
are `__schedule` up to the switch, `FinishSwitch` what comes after it on the
stack of the new task. Note that there `prev` is the task switched in, as it is
a local variable of that task's own earlier call.

Time: acc and C count increments of c_timer (`RESERVE_INCREMENT_NS`). p_timer
may expire at any time after it was started, so nothing depends on the lengths
of periods. A task whose p_timer is on another CPU is in `RemoteP`: its
p_timer_callback is not kept out by this CPU's interrupts. The *whole* of
p_timer_callback up to `s_lock` is one step, as only acc matters to the others.

`Ops` says which calls are made. A set_reserve is a "set" for a task whose timers are
idle, a "revise" for a reserved one, and a "retry" for one without flag whose timers
an earlier, failed call (or a c_timer started behind a cancellation) has left in use.
The last two matter because `MgrInitTimers` is hrtimer_init, which clears the whole timer
(`kernel/hrtimer.c:1145`), its links in the queue of timers included, and after a
failed set_reserve nothing cancels the timer before (the test of flag at
`reserve.c:832`). A timer erased while it is enqueued or its callback runs is in
`stray` from then on, and the queue is undefined: any timer may get lost (`StrayLoses`),
and the stray one may be found and expire though it was cancelled (`StrayFound`).
A BUG_ON of hrtimer.c that stops the machine is the other outcome, and is left out as
there is no state after it. A new task has an acc out of `Inherited`: fork copies it
and set_reserve does not clear it. `wake_up_process` and the wait loops of
system calls (`WaitEnter`, `WaitEvent`, `WaitReturn`) are translated from `kernel/sched.c` and
`include/linux/wait.h`. Left out: energy accounting (module
`Energy`); `sig_sent` (the code that sends SIGEXCESS is commented out); a call about a
task that has begun to exit.

`Reservation` knows no timers, callbacks or run queue: a task is charged, is
suspended when it has used more than its limit or ends its job, does not execute
while suspended, and is replenished and then resumed. `ImplementsReservation` is
the refinement, for the tasks with both timers on their CPU: `reserved` is flag,
`suspended` is suspend, `used` is acc, and `executing` is the current task when it runs
user code. The fairness of `Reservation` is part of what is checked: a
suspended task is replenished and resumed in the end.

### Sysclock and Admission

A call is one step; callers are taken to run one after another (see section 6).
`Books` is the value a
call computes with, and the operators `Placing`, `TryBind`, `PutBack`, `Unbook`
follow the order of the code: parameters stored first, a revised task taken out
of the books before it is tried elsewhere, the old placement restored by another
`try_bind` whose result is ignored. Slots beyond the length of a row keep their
old pointers, as in the code. `Unbook` has the row that is searched and the CPU
whose length and utilization change as separate parameters, because set_reserve
takes the first from the new CPU (477) and the second from the old one (486).
The loop of a policy over the four CPUs is `Search`: four times `Turn`, in the
`Order` of the policy, and then the first closed bin it has passed. `Response` is
where the iteration of the response time test stops.

`SetRejected`, `SetUnbound`, `SetReserved` and `SetNoFiles` are the four ways
out of set_reserve after its argument checks. `Faults` says what may fail: bringing a CPU up
or down, sched_setaffinity, the energy file of a revised reservation, the files
of a new one. Of the hotplug functions and sched_setaffinity the model has the result. One
scalar `freq` stands for the frequency of all online CPUs; `Governor` shows when
they have it. C and T are in milliseconds, as the applications give them,
and the C and T of a flagged task are its budget and period. A dead task is taken
as reaped at once; the fields of a task without flag are not read before they are
assigned, so `Fork` need not know the parent. Excluded: a period of 0 and an
overflow of `C * 10000` (the applications limit both to 60,000).

`AnyRevise = FALSE` restricts revisions to those where the code's mistake about
the row has no effect: the request names the task's own
CPU, or the task is the last one in its row. With it the rest of the code is
checked under revisions.

The module ends with what the theorems assume of the requests and the
environment (section 4). They are formulas on constants; `MCAdmission` has TLC
evaluate them for the two runs, whose requests satisfy them.

### Governor

An actor (the user of a CPU's scaling_governor, or a caller of the system calls) is
a list of steps it has still to take; each is one use of shared state or one
section under `sysclock_mutex`. So START is `Inc`, which is under the mutex,
and `Compare`, which is not; sysclock_set_frequency is, for each CPU, `Look`
(the tests and sysclock_compute) and `Store` (cpufreq_set). What
sysclock_compute returns is the variable `demand`. The cores of cpufreq and of
hotplug call the governor's START and STOP and exclude each other. `Inc` has no
assignment for cpu_cur_freq = policy->cur (`cpufreq_sysclock.c:96`): the variable
is the frequency of the CPU, which that line copies and does not change.

### UtilRing

The writer and the reader of one task's buffer hold `reserve.lock`; tid_show is
one step per turn of its loop, so that its termination can be stated. Samples are
numbered; the model keeps beside each slot the number of the sample in it, and
what the read under way has printed. A read may begin in any state. One that
begins while `end` is the last slot (`AtWrap`) never ends, as `start` skips the value
the loop waits for; the writer then waits for the lock for ever. `ReadEnds` is about
all other reads, and `AllReadsEnd`, which is about all of them, is violated.

### Files

A pointer is "null", "live" or "freed". set_reserve is one step per allocation
or sysfs call, cancel_reserve and do_exit free first and remove the file then,
as the code does; p_timer_callback is a step per test and use; taskmon_init
and taskmon_exit are two steps each, as the directories and the pointer
p_timer_callback looks at do not change together. Calls about different tasks overlap,
calls about one task do not. sysfs_remove_file finds the file by its name
(`fs/sysfs/file.c:619`), and that name has been freed two lines before: `holds` is the
task whose number the memory spells, and `RemoveFile` removes that task's file,
whosever it is. The kernel is built with the allocator SLAB
(`arch/arm/configs/tegra3_android_defconfig:17`), which leaves freed memory as it is until it
is handed out again; another set_reserve may be given it (`HandedOut`), and so may any other code
("reuse"). The careful users of the run therefore do not set one reservation while another
ends. `Fork` copies name, buffer pointer and energy directory of the parent, as
copy_process clears flag only (`fork.c:1234`); only a task that has energy files does not
fork. hrtimer_cancel waits for a running callback and
sysfs_remove_file for the readers: these two waits carry the safety of the
buffer. What the samples are is `UtilRing`'s matter.

### Energy

Each task has a CPU of its own, so that any number of them are in `__schedule`.
The update of total_energy is a read and a write under a lock that has to be
taken first; the writers of the sysfs files may initialise that lock while it is
taken. Power is in microwatts, from the code's table, for two frequencies.
Four variables are history: `charged` sums the increments since the last reset of
the total, `pending` is the part of them that has been computed and not yet added,
and `ran` and `spent` are, for each process, its ticks of c_timer and what was
charged to it. `EnergyEarned` compares the last two for each process, with the
ticks taken at the highest power.

### Calc

Numbers are words of `1 + EXP_DIGIT + FRAC_DIGIT` bits, and all arithmetic wraps
at the word. The call is one step up to the search for the leading 1 (`Call`),
one for the search and what follows (`Found`), and `Searching` is a search that
goes round for ever. The reference values in the properties are exact integers.

### PsTools

Opens and closes of psdev are a step per unlocked access; reads go on at
process_cnt in a list to which processes are added; rtps counts and then lists.
The policy of a process, which both lists test at each walk, changes in `SetPolicy`.
cleanup saves and replaces two entries of the system call table one by one, and
restores them likewise; an exit reads its entry, reports, and goes on to the
original. The history variable `listed` counts how often the reads since the open
have returned each process. psdev stands for the files a process leaves open, and
`Watched` for the two tests of check_file_descriptors: the name of the process contains
the module's parameter, and the descriptor comes after the standard three
(`cleanup.c:49`, 53). A module that is unloaded under a call into it (`FreeCode`) leaves
the process in freed code: it runs on while the memory is as it was, dies of a fault, or
is lost.

## 3. Runs

| Run | Checks | Result |
|---|---|---|
| `wake` | `TypeOK`, `SleepHasWaker`, `ChargedOnCpu`, `PeriodTimerAlive`; two tasks, one with a remote p_timer, reservations set and failing half way, one with an inherited account, tasks waiting for events | holds, 171,596 states |
| `budget` | `SuspendJustified`, `OverrunSuspended`, `SuspendedStaysOff`, `SuspensionEnds`, `ImplementsReservation`; one task with a local and one with a remote p_timer, budgets 1 and 2, under fairness | holds, 76,138 states |
| `marked` | `SleepMarked`, with revisions (and the stray timers they cause), cancellations, failing cancellations, exits and waits | holds, 181,078 states |
| `cancel_asleep` | `SuspensionEnds` with cancellations | violated |
| `admission` | `TypeOK`, `BooksBalance`, `RowsExact`, `ReservedOnline`, `Schedulable`, `RejectsOnlyMisfits`, `FreqCovers`; three tasks, two CPUs, hotplug and sched_setaffinity failing | holds, 24,893 states |
| `admission_policy` | `OpensOnlyWhenNeeded`, `RowsExact`; two tasks placed by the policies on four CPUs, energy files failing | holds, 6,433 states |
| `ring` | `TypeOK`, `NoSampleLost`, `ReadEnds` | holds, 659 states |
| `files` | `TypeOK`, `SamplesInBuffer`, `FreedOnce`, `FilesOfReserved`, `ModuleOutlivesUse`; two tasks, careful users | holds, 11,258 states |
| `energy` | `TotalExact`, `EnergyEarned`; two CPUs, a writer, two frequencies | holds, 4,227,584 states |
| `governor` | `CountExact`, `FreqCurrent`; three CPUs, governors switched at once, reservations with hotplug | holds, 45,244 states |
| `calc` | `SumNear`, `ProductNear`, `RefusesOnlyRange`; all pairs of 8-bit numbers | holds, 586,496 states |
| `ps_tools` | `DeviceExact`, `ModuleHeld`, `ListedOnce`, `LeftOpenReported`, `ExitEnds`; two processes, one of them watched | holds, 80,842 states |

What they show.

* **wake, marked.** The gap between setting `suspend` and leaving the CPU
  is safe: if the period timer resumes the task in it, the state is RUNNING again
  and the task is not taken off the run queue. `SleepHasWaker` says that for
  every task off the run queue somebody is still to come; `marked` keeps the part
  of this that survives cancellations, which stop the period timer.
* **budget.** `SuspendJustified` and `OverrunSuspended` together say that a task
  is suspended exactly when it has overrun. They are about the tasks whose period
  timer is on their CPU. `SuspensionEnds` is about all tasks.
  `ImplementsReservation` puts these promises together.
* **cancel_asleep.** cancel_reserve of a suspended task stops p_timer and never
  wakes the task.
* **admission.** `Schedulable` compares try_bind, with its mixture of
  utilization bound and response time tests, with a reference definition that
  does not iterate: an instant up to the deadline by which all urgent work is
  done. `RejectsOnlyMisfits` is the converse. The periods 4, 6, 12 and the
  budgets are such that task sets pass the bound, pass only the response time
  test, or fail. Each failing path restores the books exactly. `FreqCovers` allows
  the truncation to whole MHz.
* **admission_policy.** A *new* task opens another CPU only if no open one can
  carry it, as the lab report says of WFD. `LST` is exempt: it spreads tasks over
  all CPUs.
* **ring.** Reads lose nothing the buffer can hold, unless it holds
  exactly `BUF_LENGTH` samples, and end unless they begin while `end` is the last
  slot.
* **files.** However monitoring is switched and reservations are revised,
  cancelled or end with their task, a callback that has begun finds its buffer;
  each buffer is freed once; the freed name still finds the right file; taskmon leaves
  nothing behind.
* **energy.** The lock makes the total exact, through resets and through its
  late initialisation by a single writer; the reset of
  acc_single_run at each switch keeps a run from being charged twice.
* **governor.** The comparison outside the mutex is harmless: the last CPU to
  start still sees the full count.
* **calc.** A sum of equal signs and a product are the exact values cut off; the
  error of a quotient is bounded by the bits its divisor loses; only sums out of
  range are refused.
* **ps_tools.** With one open at a time the device is always free
  again, its reads list every process once while new ones appear; replacing the
  system calls one after the other loses no report of a watched process and blocks no
  exit.

### Bounds

`AccCap` bounds acc: it is one or two above the largest budget, so the task overruns
and may do so again after a reset. Two tasks are needed for a switch between
reserved tasks. `BUF_LENGTH` is 4 and
`MaxSamples` 13: three laps. `TASK_SCHEDULING_LENGTH` is 2 or 3, the number
of tasks of the run; with 2 and three tasks, where the third one meets a full row,
the properties of `admission` hold too (17,611 states). `admission_policy` has no exits (`Mortal = {}`): releases by
cancellation reach the same books. Its two tasks fit on one CPU or not, by what one
of them asks for (the requests with 2/4 and 3/6 left to the policy and 1/6 on CPU 0
have been checked too: 76,766 states). `Ticks` is 2 instead of 10, so that the count of
taskmon_timer wraps. `MaxTicks` is 3: a task may run twice and another once.
Three CPUs are enough for two governors that start at once
while a third CPU comes or goes (four have been checked too: 1.55 million states).
In `Calc` 3 bits of exponent and 4 of fraction keep the code's relation
`EXP_DIGIT < FRAC_DIGIT`; all 65,536 pairs of operands are tried with each operation.
`Buffer` is 2, which holds both processes of the run; one is forked between
the reads of the other. `CHECK_DEADLOCK FALSE` in `marked` and `cancel_asleep`: once
all tasks have exited or sleep nothing is left to happen. The other runs never stop.

### Fairness

A callback, a context switch and a system call that have begun are finished
(weak fairness; strong for the calls, because `hrtimer_cancel` spins until the
callback it waits for is over, and a callback can begin again and again). A period timer
that is enqueued expires: strong fairness, as an expired timer stays first in
its queue and is served by the next timer interrupt, though callbacks of other
timers may come first. No fairness is assumed of the tasks, of the scheduler's choice or of
end_job. Revisions are left out of the liveness runs: each one restarts the
period (843), and revisions without end put off the resumption for ever. In
`UtilRing` the read goes on because it runs with interrupts off. In `PsTools` a
process that is inside its exit goes on (weak fairness): nothing there waits.

## 4. Theorems

The theorems hold for every value of the constants, from the assumption named in
each module and the premise in the table. A premise excludes calls or carelessness
for which TLC finds a counterexample (section 5): each call that the premises on
`Ops`, `Calls` and the `Careless` of `PsTools` exclude breaks the property, "cancel" with "set" or "retry" where it takes a second
reservation. There is one exception: "retry" without "cancel" breaks `SleepHasWaker` and
`PeriodTimerAlive`, but TLC finds no violation of `ChargedOnCpu`, `SuspendJustified`
and `OverrunSuspended` with it; their proofs rest on queues without stray timers
(`IdleInv`). The four
theorems of `FilesProofs` share one invariant and so one premise, the care
of the run `files`. Each proof has one step per action, or one for all actions that
leave the invariant's variables alone.

| Theorem | Says | Premise | Inductive invariant |
|---|---|---|---|
| **EnforcementProofs**: any tasks, budgets, placement of timers | | | |
| `TypeCorrect` | `[]TypeOK` | - | `TypeOK` |
| `NoLostWakeup` | `[]SleepHasWaker` | no "cancel", "exit", "revise", "retry" | `IdleInv`, `WakeInv` |
| `ChargedOnlyOnCpu` | `[]ChargedOnCpu` | no "cancel", "revise", "retry" | `IdleInv`, `ChargeInv` |
| `PeriodTimerNeverDies` | `[]PeriodTimerAlive` | no "cancelFails", "revise", "retry" | `IdleInv`, `PeriodInv` |
| `SuspensionsJustified` | `[]SuspendJustified` | no "cancel", "revise", "retry" | `IdleInv`, `BudgetInv` |
| `OverrunsEnforced` | `[]OverrunSuspended` | no "cancel", "revise", "retry"; `Inherited = {0}` | `IdleInv`, `BudgetInv` |
| `SuspendedOffCpu` | `[]SuspendedStaysOff` | no "wait" | `StayInv` |
| `SleepersMarked` | `[]SleepMarked` | no "cancel", or neither "set" nor "retry" | `MarkInv` |
| **ReservationProofs** | | | |
| `ImplementsReservationSafety` | `R!Spec`: each step is a step of `Reservation` or a stutter | no "cancel", "revise", "retry", "wait"; `Inherited = {0}` | `RefInv`, `BudgetInv`, `StayInv` |
| **FilesProofs**: any tasks, calls about all of them at once | | | |
| `TypeCorrect` | `[]TypeOK` | - | `TypeOK` |
| `BuffersSafe`, `NoDoubleFree`, `NoFileLeft`, `ModuleStays` | `[]SamplesInBuffer`, `[]FreedOnce`, `[]FilesOfReserved`, `[]ModuleOutlivesUse` | `Careless = {}` | `FilesInv` |
| **UtilRingProofs**: any length of the buffer, any number of samples | | | |
| `TypeCorrect` | `[]TypeOK` | - | `RingInv` |
| `ReadsLoseNothing` | `[]NoSampleLost` | `FirstStamp > 0` | `WalkInv` |
| **EnergyProofs**: any tasks, writers, ticks | | | |
| `TotalKept` | `[]TotalExact` | at most one writer | `InitializedInv`, `HeldInv` |
| `RunsChargedOnce` | `[]EnergyEarned` | `~Inherit` | `EarnedInv` |
| **AdmissionProofs**: any tasks, requests, length of the rows, policies | | | |
| `Inductive` | `[]IInv` | `Careful` | `IInv` |
| `AdmissionTypes`, `AdmissionRows`, `AdmissionBalance` | `[]TypeOK`, `[]RowsExact`, `[]BooksBalance` | `Careful` | `IInv` |
| `AdmissionOpens` | `[]OpensOnlyWhenNeeded` | `Careful` | `IInv` |
| `AdmissionOnline` | `[]ReservedOnline` | `Careful`, `NoTiny` | `IInv`, `Coarse` |
| `AdmissionRejects` | `[]RejectsOnlyMisfits` | `Careful`, `NoTiny`, `AllCPUs` | `IInv`, `Coarse` |
| `AdmissionSchedulable` | `[]Schedulable` | `Careful`, `BoundSound` | `IInv`, `AllAsked` |
| `AdmissionFrequency` | `[]FreqCovers` | `Careful`, `BoundSound`, `NoWrap`, `AllClocked` | `IInv`, `AllAsked`, `EnoughAt(freq)` |
| **GovernorProofs**: any number of CPUs | | | |
| `CountsUsers` | `[]CountExact` | - | `GovInv` |
| `FrequencyCurrent` | `[]FreqCurrent` | `~Overlap`, no "exit" | `GovInv`, `AloneInv`, `SerialInv` |
| **PsToolsProofs**: any processes | | | |
| `DeviceExclusive` | `[]DeviceExact` | no "opens", "unload" | `OpenInv`, `CountInv`, `LoadedInv`, `DeviceInv` |
| `ModuleNotUnloaded` | `[]ModuleHeld` | no "unload" | `OpenInv`, `CountInv`, `LoadedInv` |
| `OpenFilesReported` | `[]LeftOpenReported` | no "unload" | `ReportInv` |
| `ReadsExact` | `[]ListedOnce` | `Careless = {}`, `Buffer` holds all of `Procs` | `ListInv`, `ListedInv` |

Why the invariants are needed:

* `IdleInv`: a call about to initialise the timers of a task finds them idle, so that
  no timer is ever stray. It holds as long as set_reserve is only called for tasks
  without timers, that is without "revise" and "retry".
* `WakeInv`: `SleepHasWaker` speaks of tasks off the run queue, but a task is put
  there because its *state* is not RUNNING, and is woken because `suspend` is
  set. The invariant therefore holds each link of the chain: off the run queue,
  not RUNNING, suspended (or waiting with a waker), reserved, period timer to come.
* `ChargeInv`: a c_timer that is enqueued belongs to the current task, and that
  task has its flag: only then does a switch stop the timer.
* `PeriodInv`: a call that is about to set the flag has started the p_timer, and
  no call is about a task that exits.
* `BudgetInv`: for a task whose period timer is on its CPU, between the reset of
  acc and the resumption the account is 0 and no
  budget callback is under way, as both run on the same CPU; a task without
  flag has not been charged.
* `StayInv`: a suspended task is not RUNNING, so that the next schedule() takes it
  off the run queue, and until then NEED_RESCHED stands between it and its user
  code. `MarkInv`: the state of a sleeping task tells who put it to sleep, and the
  mark that belongs to the state is there. A new reservation clears the mark: as
  long as nothing is cancelled, a suspended task is reserved and is not given one.
* `RefInv`: what the abstract `Reservation` does in one step and the callbacks in
  two. The acc that c_timer_callback has read is still acc when the sum is written
  back, only reserved tasks are suspended, and a call under way is a first
  set_reserve. The abstract step is taken where acc, suspend, flag or C changes; in
  all other steps at most `executing` does.
* `FilesInv` says for each place of each call what there is: between calls, a
  reserved task owns its name, buffer and file, and any other task nothing;
  a call about a task excludes callbacks of its period timer, because it has waited
  for them; a reader only exists while the task is reserved; and whenever there is
  anything, the module is loaded. None of the four properties is inductive: each
  needs to know how far the call is. The memory at the name spells the task's own number
  until the file is removed, because no reservation is set while another ends (`Apart`).
* `RingInv`: which sample is in which slot, counted back from `end`. `WalkInv` adds how
  far `start` is behind the writer: as many slots as there are unread samples, or
  the whole buffer, and what the read under way has printed is the run of samples
  before `start`; it says nothing of a read that began while `end` was the last slot,
  which is never finished. It needs the stamps, as the code tells an unused slot by its stamp.
* `InitializedInv` and `HeldInv`: the lock is initialised before any task can be
  tracked; a task that has read the total holds the lock alone, and what it has read
  is still the total. `EarnedInv`: for a task that may be charged, the ticks in its
  run counter are its own and not yet paid for: what was spent is covered by the
  ticks of the earlier runs.
* `IInv`: of each CPU, the row, its length and its utilization are those of the tasks
  reserved on it, and these tasks are `Tested`; a bin is open exactly if its CPU is
  used. `Tested` is what makes it inductive: a revision that fails takes the task out
  of the books, tries it elsewhere, and puts it back with a try_bind whose result is
  not looked at, so it has to be known that the tests pass again. The row may have
  changed by then, as tasks of one period stand in the order in which they came;
  `Tested` is stated without it: the tasks below some period are within
  the utilization bound, and each of the others has an instant by which its work and
  the work that is no less urgent is done.
* `Coarse`: no reserved task has utilization 0. `AllAsked`: the parameters of a
  reserved task are those of one of the requests for it. `EnoughAt(freq)`: at the
  current frequency each task of each CPU has its instant.
* `GovInv`: the list of steps of an actor is an operation cut short (`ListInv`); a CPU
  has at most one governor switch or hotplug under way, and is online (`EngagedInv`);
  the count is the number of CPUs whose start has been counted and whose stop has
  not (`CountInv`). `SerialInv`: a frequency about to be stored is the one asked for
  now; a caller looks at all CPUs after it has changed the demand; and when all online
  CPUs are counted and no start has still to compare, each CPU has the
  frequency or somebody is about to look at it. This is why the comparison outside
  the mutex is harmless: the last start to compare sees the full count.
* `OpenInv`, `LoadedInv`, `DeviceInv`, `CountInv`: the use count is the number of
  processes that have the device open or are closing it; a process inside finds the
  module loaded; and at most one process is between the test of Device_Open and the
  decrement in its close. `ReportInv`: while cleanup is in place both entries are
  replaced, and a watched process that has to be reported either still has the device open
  in custom_exit or was reported. `ListInv`: no process is twice in the list and none
  leaves it while it is read.

The premises of `AdmissionProofs`, each of which some property needs, as TLC shows (section 5):
`Careful`, revisions and files as in the runs; `NoTiny`, no request for less than
1/10000 of a CPU; `AllCPUs`, requests that leave the choice of the CPU are placed by
first or next fit, because sortCPU leaves a CPU out when all are used alike;
`BoundSound`, the table of utilization bounds is sufficient for tasks that ask for
what the requests say. The last one is Liu and Layland's theorem but for the rounding
of the table and of the utilizations, by which it is false for some requests; it is
finite for given requests, and TLC evaluates it for those of the runs.
`NoWrap` says that sysclock_compute's products do not wrap, and `AllClocked` that every
task leads its thread group and no revision fails at its energy files.

How these proofs go, without induction over data: a sum over a set is the number of
its units (`SumUnits`), which turns facts on cardinalities of finite sets into facts on
sums; what would be an induction on a set or a number takes a smallest
counterexample, from the well-foundedness of the subset and number orderings.
`ResponseLimit` shows in this way that the iteration of try_bind ends within the
period exactly if some instant up to it covers its own demand. `PassedTested` and
`TestedPasses` relate the tests on a row to `Tested`, `CoveredTested` and
`CoveredUtil` the reference test `MeetsDeadlines` to both; so try_bind admits a task
exactly if `Carries` holds, which no row and no order enters (`TryBindTrial`), and
the loops of the policies need four uses of it (`SearchTrial`). The frequency:
the scale of a task is that of an instant p up to its deadline (`TaskScalePoint`),
cutting it off loses less than p of the scaled work and cutting off the frequency
less than 1 MHz, so that 2 MHz more carry the work at p (`SpeedEnough`).

`PeriodTimerNeverDies` covers cancellations and exits, `SuspendedOffCpu` these and
revisions, repeated calls and the stray timers they cause, `CountsUsers` overlapping
system calls: more than the runs of the same properties do.
The premise of `ImplementsReservationSafety` leaves out the calls the abstract
reservation has no word for: it knows no cancellation, no revision, and no sleep of
a task for its own reasons.

Only model-checked, and why:

* `SuspensionEnds`, `ReadEnds`, `ExitEnds` and the fairness of `ImplementsReservation`:
  liveness, beyond the prover;
* that the utilization bounds are sufficient (`BoundSound`): real analysis, and false
  for some requests; `RejectsOnlyMisfits` for BFD, WFD and LST, where it is false in
  general;
* the properties of `Calc`: bounds on quotients of words with powers of two
  as parameters. The provers know nothing of `2 ^ n` for a symbolic n, and what
  remains is nonlinear arithmetic the SMT solver does not decide. Calc is a
  function of its arguments, and all pairs are tried at the width of the run.

## 5. Where the code departs from its comments

One departure has a run (`cancel_asleep`) and is listed as a finding. The models
show more, each with a property that TLC violates under the constants given (the
others as in the run of the same module):

| Property | Constants | What happens |
|---|---|---|
| `RemoteSuspendJustified` | `budget` | c_timer_callback has found acc > C; before it takes `s_lock` the remote p_timer_callback resets acc: the task is suspended with a full budget, for a whole period. |
| `RunningIsCharged` | one task, `RemoteP = {}`, `Ops = {}` | A period that begins between suspension and schedule() makes `__schedule` pick the same task (prev = next), so c_timer is not started: the task runs uncharged. `include/linux/reserve.h:61`: "timer for running time". |
| `CancelStopsTimers` | one task, `Ops = {"cancel"}` | A switch-in before flag is cleared (949) starts c_timer again after 935. `reserve.c:934`: "stop timer". |
| `ExitStopsTimers` | one task, `Ops = {"exit"}` | do_exit leaves flag set; each switch-in starts c_timer again. `exit.c:916`: "stop timers when exit". |
| `InitOfIdleTimers`, `ChargedOnCpu`, `SleepHasWaker`, `PeriodTimerAlive`, `SuspendJustified`, `OverrunSuspended` | one task, `Ops = {"revise"}` | A switch-in between 834 and 837 starts c_timer again, and hrtimer_init erases the enqueued timer: hrtimer_cancel does not find it any more, and other timers of the queue may be lost with it. (The last two also because C changes and acc does not.) |
| `InitOfIdleTimers`, `SleepHasWaker`, `PeriodTimerAlive` | one task, not yet reserved, `Ops = {"set", "setFails", "retry"}` | A set_reserve that failed at its files has left p_timer enqueued; the next one finds flag = 0, does not cancel it (832), erases it and starts it again. |
| `PeriodTimerAlive` | one task, `Ops = {"cancel", "cancelFails"}` | cancel_reserve stops both timers, fails at sched_setaffinity and returns: the reservation stays, without timers (944). |
| `OverrunSuspended` | `Inherited = {0, 3}` | A child is reserved with the acc of its parent and runs over its limit until its first increment. |
| `SuspendedStaysOff` | one task, `Ops = {"wait"}` | A budget that ends inside a system call: kernel preemption keeps the task on the run queue or the wait loop overwrites its state, and it runs on with suspend = 1. |
| `RowsExact` | `Moving`, `AnyRevise = TRUE` | A task revised from CPU 0 to CPU 1 stays in row 0, and the last entry of row 0 is lost (477, 486). |
| `RowsExact` | `Moving`, `Faults = {"files"}` | A set_reserve that fails at its files leaves the task in the books, without flag, for ever. |
| `ReviseOpensOnlyWhenNeeded` | `LastOnCPU2`, `Policies = {"WFD"}` | With four equal utilizations sortCPU leaves CPU 2 out (a = 1, b = 3, twice CPU 0); a lone task on CPU 2 is moved. |
| `RejectsOnlyMisfits` | four tasks, one on each CPU, of 3 in 6 ms on CPUs 0, 1 and 3 and of 2 in 4 ms on CPU 2; `Policies = {"WFD"}` | All CPUs are used alike, so that sortCPU leaves CPU 2 out: a fifth task of 2 in 4 ms is turned away, though CPU 2 could carry it. |
| `Schedulable` | `NearTheBound` | 8285 is rounded up: 0.828498 passes the bound test and misses a deadline. `reserve.c:21`: "accurate utilization bound test". |
| `ReservedOnline` | `TinyTask` | 1 ms in 20 s is a utilization of 0; the CPU is closed and taken down. |
| `FreqCovers` | `LargeTask` | 100000 * 43000 wraps in 32 bits (`sysclock.c:100`). |
| `FreqCovers` | `Leaders` without a task | for_each_process visits thread group leaders only (`sysclock.c:58`). |
| `FreqCovers` | `Faults` with "energy" | A revision that fails at its energy files returns before the frequency is set. |
| `FreqCurrent` | `Overlap = TRUE` | The frequency is computed before cpufreq_set takes the mutex (`sysclock.c:155`): an older value may be stored last. `CountExact` still holds. |
| `FreqCurrent` | `Calls` with "exit" | do_exit does not set the frequency; nor does cpu_down of the last CPU with another governor. |
| `AllReadsEnd` | `ring` | A read that begins while end is the last slot spins for ever, with interrupts off (70). |
| `FullMeansUnread` | `BUF_LENGTH = 3`, `MaxSamples = 7` | From the second lap old stamps count as unread samples (224, 88). |
| `FullBufferShown` | the same | An exactly full buffer is read as an empty one. |
| `NoSampleLost` | the same, `FirstStamp = 0` | A sample stamped 0 looks like an unused slot. |
| `IntegerPartRight` | `Hundreds = {0, 1}` | integer_part is carried from one sample to the next (63, 83). |
| `SamplesInBuffer` | `Careless` with "short" | A period that ends before set_reserve has made the buffer writes to no memory (843). |
| `SamplesInBuffer` | "read" | A reader uses the buffer cancel_reserve has freed; the file is removed only then (981-984). |
| `FreedOnce` | "again" | A second cancel_reserve frees name and buffer again. |
| `FilesOfReserved`, `SamplesInBuffer` | "fails" | A set_reserve that fails at its buffer leaves the timer running and the file in place. |
| `FilesOfReserved`, `SamplesInBuffer` | "overlap" | A set_reserve gets the memory of a name that cancel_reserve or do_exit has freed and writes its own number there (981, `exit.c:925`): the file of the new reservation is removed and that of the old one stays, with a buffer that is gone. |
| `FilesOfReserved`, `SamplesInBuffer` | "reuse" | The same with any other user of the memory: the file stays. |
| `ModuleOutlivesUse` | "fork" | A child of a task with energy files keeps their pointer, which outlives the parent's reservation and the module (`fork.c:1234`). |
| `ModuleOutlivesUse` and the others | "unload" | taskmon unloaded under a reservation. |
| `EnergyEarned` | `Inherit = TRUE` | A child inherits the run counter of its tracked parent and is charged for it (`fork.c:1234`). |
| `TotalExact` | two `Writers` | The second one initialises the lock the scheduler holds (`taskmon.c:175`). |
| `SumNear` | without `SameSide` | Exponents are compared unsigned: 0.5 + 1.0 is 0.5. |
| (`Searching`) | - | x - x has no leading 1: the call never returns. |
| (`Refused`) | - | A division by a power of two returns EINVAL, as the fraction field is taken for the number; EINVAL (22) cannot be told from the bits of a number. 0 is taken for 1.0 * 2^-127. |
| `DeviceExact` | "opens" | Two opens at a time both succeed; the device then stays busy. |
| `ListedOnce` | `Buffer = 1` | device_read counts the processes it had no room for as read: they are never listed (`psdev.c:112`, 119). |
| `ListedOnce`, `RowsFilled` | "exit" | An exit during a listing shifts the positions, and rtps prints rows that were not written (`rtps.c:24`). |
| `ListedOnce`, `RowsFilled` | "policy" | A sched_setscheduler between two reads or between the two calls of rtps does the same to both. |
| `ModuleHeld`, `DeviceExact` | "unload" | psdev unloaded between the open and try_module_get. |
| `LeftOpenReported`, `ExitEnds` | "unload" | cleanup unloaded while a process is in custom_exit: the process goes on in freed code. |

cleanup also allocates a buffer for every exit that it does not free, with the arguments of
kmalloc swapped; neither changes what is modelled.

## 6. Not modelled, and what is left

Not modelled:

* two set_reserve calls, or one and an exit, that overlap inside try_bind: none
  holds a lock (`reserve.c:314`), and no property of the books survives, so there
  is nothing to check; Admission is "partly" modelled for this reason;
* taskmon_init that fails half way, the inside of hrtimers, cpufreq and hotplug;
* of memory that is freed and used again, what is not the name of a file: `Files` shows
  that a freed buffer is not used, not who else has it. The file attribute of an energy
  directory that a child shares with its parent is the parent's in the model;
* a sched_setaffinity that succeeds although cpu_up has failed: it returns early when
  the mask does not change (`sched.c:6112`), which needs a task that is already bound to
  exactly one CPU that is offline; in `Admission` the call fails then;
* processes that are killed by a signal: they enter do_exit without a system call, so that
  cleanup does not see them; `owed` counts those that call exit. Threads, in `PsTools`;
* get_energy_info, which reads a table (without a range test at `energy.c:189`),
  and the show functions that only format;
* resdev (obsolete), the applications, the Android application and third-party
  code: almost all of the tree is the Linux kernel itself.

What a continuation would take up: for which periods and budgets `BoundSound` holds in
spite of the rounding, which would turn the premise into a condition on the requests
that the reserve tool could test; `Calc`, once the provers have facts about powers;
and liveness.
