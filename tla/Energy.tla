-------------------------------- MODULE Energy --------------------------------
(***************************************************************************)
(* Energy accounting: the run counter acc_single_run of a task, its energy *)
(* and the system's total_energy, which the hook in __schedule             *)
(* (kernel/sched.c) updates at every switch-out of a tracked task, and the *)
(* sysfs files of rtes/modules/taskmon/taskmon.c that turn tracking on and *)
(* reset the total.                                                        *)
(*                                                                         *)
(* Every task has a CPU of its own, so that all of them may be in          *)
(* __schedule at a time.  A step is a section with interrupts off or under *)
(* total_energy_lock, or one assignment of a call made on another CPU.     *)
(***************************************************************************)
EXTENDS Integers

CONSTANTS
    Tasks,
    Writers,    \* the processes that write to the sysfs files
    Freqs,      \* the frequencies SysClock sets, in MHz
    Inherit,    \* TRUE: a task is forked also while its parent is tracked
    MaxTicks    \* bound on the c_timer ticks, for TLC

(* The power of the two frequencies the runs use, in microwatts: two       *)
(* entries of freq_to_power.  A frequency outside MIN_FREQ .. MAX_FREQ,    *)
(* such as the 0 that cpu_freq starts with, counts as no power.            *)
Power(f) == CASE f = 340 -> 100363 [] f = 1200 -> 638994 [] OTHER -> 0

ASSUME EnergyAssumption ==
    /\ Freqs \subseteq {340, 1200} /\ Freqs # {}
    /\ Inherit \in BOOLEAN
    /\ MaxTicks \in Nat

VARIABLES
    flag, tracking, energy,  \* of each task: reserve.flag, .tracking_energy, .energy
    acc_single_run,          \* of each task, in c_timer ticks
    kobj,                    \* reserve.pid_kobj of the task is not NULL
    alive,                   \* the tasks that exist
    pc,                      \* of each task: "off", "on", or where in __schedule
    inc, read,               \* of each task: increment, and the total it has read
    setter,                  \* the task set_reserve is about, and how far it is
    freq,                    \* the frequency of the CPUs
    cpu_freq,                \* the frequency seen at the last period end
    energy_tracking, total_energy,
    lock,                    \* total_energy_lock is taken
    lock_initialized,
    wpc,                     \* of each writer: where in its store function
    ticks,                   \* the c_timer ticks so far
    charged,                 \* history: the increments since the last reset, and of
    pending,                 \* them the ones that are not yet in total_energy;
    ran, spent               \* of each task: its ticks, and what was charged to it

resVars == <<flag, tracking, energy, kobj, alive>>
schedVars == <<pc, inc, read>>
lockVars == <<lock, lock_initialized, wpc, energy_tracking, total_energy>>
freqVars == <<freq, cpu_freq>>
histVars == <<charged, pending, ran, spent>>
vars == <<resVars, acc_single_run, schedVars, setter, freqVars, lockVars, ticks, histVars>>

NoCall == [at |-> "none"]

Init ==
    /\ flag = [t \in Tasks |-> FALSE] /\ tracking = [t \in Tasks |-> FALSE]
    /\ energy = [t \in Tasks |-> 0] /\ acc_single_run = [t \in Tasks |-> 0]
    /\ kobj = [t \in Tasks |-> FALSE]
    /\ alive = Tasks
    /\ pc = [t \in Tasks |-> "off"]
    /\ inc = [t \in Tasks |-> 0] /\ read = [t \in Tasks |-> 0]
    /\ setter = NoCall
    /\ freq \in Freqs /\ cpu_freq = 0
    /\ energy_tracking = FALSE /\ total_energy = 0
    /\ lock = FALSE /\ lock_initialized = FALSE
    /\ wpc = [w \in Writers |-> "idle"]
    /\ ticks = 0 /\ charged = 0 /\ pending = 0
    /\ ran = [t \in Tasks |-> 0] /\ spent = [t \in Tasks |-> 0]

-------------------------------------------------------------------------------
(* Microjoules of n ticks of 495 microseconds in one run, at p microwatts: *)
(* whole milliseconds count, and whole microjoules.                        *)
Increment(p, n) == (p * ((495 * n) \div 1000)) \div 1000

SwitchIn(t) ==
    /\ t \in alive /\ pc[t] = "off"
    /\ pc' = [pc EXCEPT ![t] = "on"]
    /\ UNCHANGED <<resVars, acc_single_run, inc, read, setter, freqVars, lockVars, ticks, histVars>>

(* c_timer_callback of the running task.                                   *)
Tick(t) ==
    /\ pc[t] = "on" /\ flag[t]
    /\ ticks < MaxTicks
    /\ acc_single_run' = [acc_single_run EXCEPT ![t] = @ + 1]
    /\ ticks' = ticks + 1 /\ ran' = [ran EXCEPT ![t] = @ + 1]
    /\ UNCHANGED <<resVars, schedVars, setter, freqVars, lockVars, charged, pending, spent>>

(* "reset acc_single_run counter", after which t leaves the CPU.           *)
ResetRunNever(t) == UNCHANGED acc_single_run
ResetRun(t) == acc_single_run' = [acc_single_run EXCEPT ![t] = 0]

(* __schedule takes a tracked task off its CPU: the run is charged to the  *)
(* task at the frequency seen at the last period end, ...                  *)
SwitchOut(t) ==
    LET i == Increment(Power(cpu_freq), acc_single_run[t])
    IN  /\ pc[t] = "on"
        /\ IF tracking[t]
           THEN /\ pc' = [pc EXCEPT ![t] = "lock"]
                /\ inc' = [inc EXCEPT ![t] = i]
                /\ energy' = [energy EXCEPT ![t] = @ + i]
                /\ charged' = charged + i /\ pending' = pending + i
                /\ spent' = [spent EXCEPT ![t] = @ + i]
                /\ UNCHANGED acc_single_run
           ELSE /\ pc' = [pc EXCEPT ![t] = "off"]
                /\ ResetRun(t)
                /\ UNCHANGED <<inc, energy, charged, pending, spent>>
        /\ UNCHANGED <<flag, tracking, kobj, alive, read, setter, freqVars, lockVars, ticks, ran>>

(* ... and under the lock to the system.                                   *)
TakeUnlocked(t) == lock' = TRUE
Take(t) == ~lock /\ lock' = TRUE

LockTotal(t) ==
    /\ pc[t] = "lock" /\ Take(t)
    /\ read' = [read EXCEPT ![t] = total_energy]
    /\ pc' = [pc EXCEPT ![t] = "add"]
    /\ UNCHANGED <<resVars, acc_single_run, inc, setter, freqVars, lock_initialized, wpc,
                   energy_tracking, total_energy, ticks, histVars>>

AddTotal(t) ==
    /\ pc[t] = "add"
    /\ total_energy' = read[t] + inc[t]
    /\ pending' = pending - inc[t]
    /\ lock' = FALSE
    /\ ResetRun(t)
    /\ pc' = [pc EXCEPT ![t] = "off"]
    /\ inc' = [inc EXCEPT ![t] = 0] /\ read' = [read EXCEPT ![t] = 0]
    /\ UNCHANGED <<resVars, setter, freqVars, lock_initialized, wpc,
                   energy_tracking, ticks, charged, ran, spent>>

(* p_timer_callback: "update cpu frequency".                               *)
PeriodEnd(t) ==
    /\ flag[t]
    /\ cpu_freq' = freq
    /\ UNCHANGED <<resVars, acc_single_run, schedVars, setter, freq, lockVars, ticks, histVars>>

-------------------------------------------------------------------------------
(***************************************************************************)
(* The calls, made one at a time from another CPU.  An assignment that     *)
(* races with the c_timer or with __schedule on the CPU of t may be        *)
(* overwritten by it.                                                      *)
(***************************************************************************)
SetBegin(t) ==
    /\ setter = NoCall /\ t \in alive
    /\ setter' = [at |-> "files", t |-> t]
    /\ \/ ResetRun(t)
       \/ pc[t] = "on" /\ flag[t] /\ UNCHANGED acc_single_run
    /\ UNCHANGED <<resVars, schedVars, freqVars, lockVars, ticks, histVars>>

(* The energy file is made when tracking is on, removed when it is off.    *)
SetFiles ==
    /\ setter.at = "files"
    /\ setter' = [setter EXCEPT !.at = "track"]
    /\ kobj' = [kobj EXCEPT ![setter.t] = energy_tracking]
    /\ UNCHANGED <<flag, tracking, energy, alive, acc_single_run, schedVars, freqVars, lockVars,
                   ticks, histVars>>

(* The task is tracked from now on if tracking is on; then the frequency   *)
(* is set.                                                                 *)
SetTracking(f) ==
    LET t == setter.t
    IN  /\ setter.at = "track"
        /\ setter' = NoCall
        /\ \/ energy' = [energy EXCEPT ![t] = 0]
           \/ pc[t] = "on" /\ tracking[t] /\ UNCHANGED energy
        /\ tracking' = [tracking EXCEPT ![t] = energy_tracking]
        /\ flag' = [flag EXCEPT ![t] = TRUE]
        /\ freq' = f
        /\ UNCHANGED <<kobj, alive, acc_single_run, schedVars, cpu_freq, lockVars, ticks, histVars>>

(* Tracking ends with the energy file.                                     *)
StopTracking(t) ==
    /\ kobj' = [kobj EXCEPT ![t] = FALSE]
    /\ tracking' = [tracking EXCEPT ![t] = @ /\ ~kobj[t]]

CancelReserve(t, f) ==
    /\ setter = NoCall /\ t \in alive
    /\ flag' = [flag EXCEPT ![t] = FALSE]
    /\ StopTracking(t)
    /\ freq' = f
    /\ UNCHANGED <<energy, alive, acc_single_run, schedVars, setter, cpu_freq, lockVars, ticks, histVars>>

(* do_exit of a task on its CPU, up to its last switch-out.                *)
Exit(t) ==
    /\ setter = NoCall /\ t \in alive /\ pc[t] = "on"
    /\ IF flag[t] THEN StopTracking(t) ELSE UNCHANGED <<kobj, tracking>>
    /\ alive' = alive \ {t}
    /\ UNCHANGED <<flag, energy, acc_single_run, schedVars, setter, freqVars, lockVars, ticks, histVars>>

(* A process in the place of a dead one: a copy of its parent's task       *)
(* structure but for the flag.                                             *)
Fork(p, t) ==
    /\ p \in alive /\ pc[p] = "on"
    /\ t \notin alive /\ pc[t] = "off"
    /\ Inherit \/ ~tracking[p]
    /\ alive' = alive \cup {t}
    /\ flag' = [flag EXCEPT ![t] = FALSE]
    /\ tracking' = [tracking EXCEPT ![t] = tracking[p]]
    /\ energy' = [energy EXCEPT ![t] = energy[p]]
    /\ kobj' = [kobj EXCEPT ![t] = kobj[p]]
    /\ acc_single_run' = [acc_single_run EXCEPT ![t] = acc_single_run[p]]
    /\ ran' = [ran EXCEPT ![t] = 0] /\ spent' = [spent EXCEPT ![t] = 0]
    /\ UNCHANGED <<schedVars, setter, freqVars, lockVars, ticks, charged, pending>>

-------------------------------------------------------------------------------
(***************************************************************************)
(* energy_tracking_store and total_energy_store: "initialize the spin lock *)
(* if necessary", then store.                                              *)
(***************************************************************************)
StoreBegin(w) ==
    /\ wpc[w] = "idle"
    /\ wpc' = [wpc EXCEPT ![w] = IF lock_initialized THEN "store" ELSE "init"]
    /\ UNCHANGED <<resVars, acc_single_run, schedVars, setter, freqVars, lock, lock_initialized,
                   energy_tracking, total_energy, ticks, histVars>>

InitLock(w) ==
    /\ wpc[w] = "init"
    /\ lock' = FALSE /\ lock_initialized' = TRUE
    /\ wpc' = [wpc EXCEPT ![w] = "store"]
    /\ UNCHANGED <<resVars, acc_single_run, schedVars, setter, freqVars, energy_tracking,
                   total_energy, ticks, histVars>>

StoreTracking(w, on) ==
    /\ wpc[w] = "store"
    /\ energy_tracking' = on
    /\ wpc' = [wpc EXCEPT ![w] = "idle"]
    /\ UNCHANGED <<resVars, acc_single_run, schedVars, setter, freqVars, lock, lock_initialized,
                   total_energy, ticks, histVars>>

(* The reset takes the lock, writes 0 and gives it back with interrupts    *)
(* off: the other CPUs see one step.                                       *)
StoreTotal(w) ==
    /\ wpc[w] = "store" /\ ~lock
    /\ total_energy' = 0
    /\ charged' = pending
    /\ wpc' = [wpc EXCEPT ![w] = "idle"]
    /\ UNCHANGED <<resVars, acc_single_run, schedVars, setter, freqVars, lock, lock_initialized,
                   energy_tracking, ticks, pending, ran, spent>>

-------------------------------------------------------------------------------
Scheduling(t) == SwitchIn(t) \/ Tick(t) \/ SwitchOut(t) \/ LockTotal(t) \/ AddTotal(t)

Calls ==
    \/ SetFiles
    \/ \E f \in Freqs : SetTracking(f)
    \/ \E t \in Tasks : SetBegin(t) \/ Exit(t) \/ PeriodEnd(t)
    \/ \E t \in Tasks, f \in Freqs : CancelReserve(t, f)
    \/ \E p, t \in Tasks : Fork(p, t)

Storing(w) ==
    \/ StoreBegin(w) \/ InitLock(w) \/ StoreTotal(w)
    \/ \E on \in BOOLEAN : StoreTracking(w, on)

Next ==
    \/ \E t \in Tasks : Scheduling(t)
    \/ Calls
    \/ \E w \in Writers : Storing(w)

Spec == Init /\ [][Next]_vars
-------------------------------------------------------------------------------
(* Types.                                                                  *)
TypeOK ==
    /\ flag \in [Tasks -> BOOLEAN] /\ tracking \in [Tasks -> BOOLEAN]
    /\ kobj \in [Tasks -> BOOLEAN] /\ alive \subseteq Tasks
    /\ energy \in [Tasks -> Nat] /\ acc_single_run \in [Tasks -> Nat]
    /\ pc \in [Tasks -> {"off", "on", "lock", "add"}]
    /\ inc \in [Tasks -> Nat] /\ read \in [Tasks -> Nat]
    /\ setter \in {NoCall} \cup [at : {"files", "track"}, t : Tasks]
    /\ freq \in Freqs /\ cpu_freq \in Freqs \cup {0}
    /\ energy_tracking \in BOOLEAN /\ total_energy \in Nat
    /\ lock \in BOOLEAN /\ lock_initialized \in BOOLEAN
    /\ wpc \in [Writers -> {"idle", "init", "store"}]
    /\ ticks \in 0 .. MaxTicks /\ charged \in Int /\ pending \in Int
    /\ ran \in [Tasks -> Nat] /\ spent \in [Tasks -> Nat]

(* total_energy, "total energy consumed by the system" (energy.c:21), is   *)
(* what was charged to tasks since the last reset, whichever CPUs are in   *)
(* __schedule at the reset and at each other's updates                     *)
(* (sched.c:4339-4343, taskmon.c:194-202): nothing is lost or added twice. *)
TotalExact == total_energy + pending = charged

(* No energy without time: what is charged to a process never exceeds what *)
(* its own ticks cost at the highest power, so no run is charged twice or  *)
(* to another process (reserve.c:111-117, sched.c:4333-4353,               *)
(* fork.c:1234).                                                           *)
EnergyEarned == \A t \in Tasks : spent[t] <= Increment(Power(1200), ran[t])
===============================================================================
