----------------------------- MODULE Enforcement -----------------------------
(***************************************************************************)
(* Budget enforcement of reserved tasks on one CPU: the budget timer       *)
(* (c_timer) and the period timer (p_timer) of rtes/kernel/reserve.c, the  *)
(* end_job, set_reserve and cancel_reserve system calls as far as they     *)
(* touch the timers, and the hooks in __schedule (kernel/sched.c) and      *)
(* do_exit (kernel/exit.c).                                                *)
(*                                                                         *)
(* Time is counted in c_timer increments (RESERVE_INCREMENT_NS): acc[t] is *)
(* the number of increments charged in this period, C[t] the largest       *)
(* number of them that is not "> reserve.C".  The p_timer may expire at    *)
(* any time after it was started.                                          *)
(*                                                                         *)
(* A step is what runs without interference: a section with interrupts     *)
(* off, a section under reserve.s_lock, or one access to an unlocked       *)
(* field.  The system calls that another process makes about a task (the   *)
(* "reserve" tool) run on another CPU: they are the process mgr.           *)
(***************************************************************************)
EXTENDS Naturals

CONSTANTS
    Tasks,      \* the tasks bound to this CPU
    Other,      \* any thread of this CPU that is no reserved task
    Budgets,    \* the budgets set_reserve is called with, in increments
    Reserved0,  \* the tasks that hold a reservation in the initial state
    RemoteP,    \* tasks whose p_timer is pinned to another CPU, the one
                \* set_reserve was called on
    Ops,        \* the calls that are made: see SetOp, CancelBegin, ...
    Inherited,  \* the acc a new task may have from its parent (fork copies it)
    AccCap      \* bound on acc, for TLC

ASSUME EnforcementAssumption ==
    /\ Other \notin Tasks
    /\ Budgets \subseteq Nat
    /\ Reserved0 \subseteq Tasks
    /\ RemoteP \subseteq Tasks
    /\ Ops \subseteq {"set", "setFails", "retry", "revise", "cancel", "cancelFails",
                      "exit", "wait"}
    /\ Inherited \subseteq Nat /\ 0 \in Inherited
    /\ AccCap \in Nat

VARIABLES
    flag,     \* reserve.flag
    suspend,  \* reserve.suspend
    state,    \* task_struct.state: RUNNING, INTERRUPTIBLE, UNINTERRUPTIBLE, DEAD
    onrq,     \* task_struct.on_rq
    need,     \* _TIF_NEED_RESCHED of the task
    C,        \* reserve.C in increments
    acc,      \* reserve.acc in increments
    ctimer,   \* c_timer is enqueued
    ccb,      \* how far c_timer_callback has come
    cread,    \* the value of acc that c_timer_callback has read
    ptimer,   \* p_timer is enqueued
    pcb,      \* how far p_timer_callback has come
    kpc,      \* what the task does: user code, or which call it is in
    waker,    \* somebody else (a sleep timer, a lock) will wake the task
    curr,     \* rq->curr of this CPU
    arm,      \* curr was switched in, "enable c timer" is still to come
    mgr,      \* the process that calls set_reserve and cancel_reserve
    stray     \* timers that hrtimer_init has erased while they were in use

vars == <<flag, suspend, state, onrq, need, C, acc, ctimer, ccb, cread,
          ptimer, pcb, kpc, waker, curr, arm, mgr, stray>>

taskVars == <<flag, kpc, waker>>
schedVars == <<curr, arm>>
cVars == <<ctimer, ccb, cread>>
pVars == <<ptimer, pcb>>
runVars == <<state, onrq, need, suspend>>

Idle == [pc |-> "idle", op |-> "none", t |-> Other]
MgrCalls == [pc : {"cancelC", "cancelP", "init", "setFlag", "unbind"},
             op : {"set", "revise", "cancel"}, t : Tasks]

(* Types; acc stays a natural number, whoever resets it.                   *)
TypeOK ==
    /\ flag \in [Tasks -> BOOLEAN]
    /\ suspend \in [Tasks -> BOOLEAN]
    /\ state \in [Tasks -> {"RUNNING", "INTERRUPTIBLE", "UNINTERRUPTIBLE", "DEAD"}]
    /\ onrq \in [Tasks -> BOOLEAN]
    /\ need \in [Tasks -> BOOLEAN]
    /\ C \in [Tasks -> Nat]
    /\ acc \in [Tasks -> Nat]
    /\ ctimer \in [Tasks -> BOOLEAN]
    /\ ccb \in [Tasks -> {"none", "add", "lock"}]
    /\ cread \in [Tasks -> Nat]
    /\ ptimer \in [Tasks -> BOOLEAN]
    /\ pcb \in [Tasks -> {"none", "lock"}]
    /\ kpc \in [Tasks -> {"user", "endjob", "wait", "exitC", "exitP", "dead"}]
    /\ waker \in [Tasks -> BOOLEAN]
    /\ curr \in Tasks \cup {Other}
    /\ arm \in BOOLEAN
    /\ mgr \in {Idle} \cup MgrCalls
    /\ stray \subseteq {"c", "p"} \X Tasks

(* Reservations in place at the start have a running period timer, as      *)
(* set_reserve leaves them; no task is on the CPU yet.  A task that is not *)
(* reserved has the acc of the task it was forked from: copy_process       *)
(* clears flag only, and set_reserve never clears acc.                     *)
Init ==
    /\ flag = [t \in Tasks |-> t \in Reserved0]
    /\ suspend = [t \in Tasks |-> FALSE]
    /\ state = [t \in Tasks |-> "RUNNING"]
    /\ onrq = [t \in Tasks |-> TRUE]
    /\ need = [t \in Tasks |-> FALSE]
    /\ C \in [Tasks -> Budgets]
    /\ acc \in [Tasks -> Inherited] /\ \A t \in Reserved0 : acc[t] = 0
    /\ ctimer = [t \in Tasks |-> FALSE]
    /\ ccb = [t \in Tasks |-> "none"]
    /\ cread = [t \in Tasks |-> 0]
    /\ ptimer = [t \in Tasks |-> t \in Reserved0]
    /\ pcb = [t \in Tasks |-> "none"]
    /\ kpc = [t \in Tasks |-> "user"]
    /\ waker = [t \in Tasks |-> FALSE]
    /\ curr = Other
    /\ arm = FALSE
    /\ mgr = Idle
    /\ stray = {}

-----------------------------------------------------------------------------
(* Timer callbacks.                                                        *)

(* No timer callback is running on this CPU: they run in the timer         *)
(* interrupt, one at a time, and nothing else runs on the CPU meanwhile.   *)
IrqFree == \A t \in Tasks : ccb[t] = "none" /\ (t \notin RemoteP => pcb[t] = "none")

(* c_timer expires; the callback reads the accumulator it will increment.  *)
CTimerFire(t) ==
    /\ ctimer[t] /\ IrqFree
    /\ acc[t] < AccCap
    /\ ctimer' = [ctimer EXCEPT ![t] = FALSE]
    /\ ccb' = [ccb EXCEPT ![t] = "add"]
    /\ cread' = [cread EXCEPT ![t] = acc[t]]
    /\ UNCHANGED <<taskVars, schedVars, pVars, runVars, C, acc, mgr, stray>>

(* "test for time limit": n increments exceed the budget of t.             *)
OutOfBudgetEarly(n, t) == n >= C[t]
OutOfBudget(n, t) == n > C[t]

(* It writes the sum back and tests it against the limit: within the       *)
(* budget the timer restarts, else the task is to be suspended.            *)
CTimerAdd(t) ==
    /\ ccb[t] = "add"
    /\ acc' = [acc EXCEPT ![t] = cread[t] + 1]
    /\ IF OutOfBudget(cread[t] + 1, t)
       THEN ccb' = [ccb EXCEPT ![t] = "lock"] /\ UNCHANGED ctimer
       ELSE /\ ccb' = [ccb EXCEPT ![t] = "none"]
            /\ ctimer' = [ctimer EXCEPT ![t] = TRUE]
    /\ UNCHANGED <<taskVars, schedVars, pVars, runVars, C, cread, mgr, stray>>

(* The task loses the CPU: it sleeps from the next schedule() on, and is   *)
(* marked as suspended.                                                    *)
SuspendNoResched(t) ==
    /\ state' = [state EXCEPT ![t] = "UNINTERRUPTIBLE"]
    /\ suspend' = [suspend EXCEPT ![t] = TRUE]
    /\ UNCHANGED need
SuspendUnmarked(t) ==
    /\ state' = [state EXCEPT ![t] = "UNINTERRUPTIBLE"]
    /\ need' = [need EXCEPT ![t] = TRUE]
    /\ UNCHANGED suspend
SuspendTask(t) ==
    /\ state' = [state EXCEPT ![t] = "UNINTERRUPTIBLE"]
    /\ need' = [need EXCEPT ![t] = TRUE]
    /\ suspend' = [suspend EXCEPT ![t] = TRUE]

(* Under s_lock: suspend the task unless it is suspended already.  The     *)
(* timer is not restarted.                                                 *)
CTimerSuspend(t) ==
    /\ ccb[t] = "lock"
    /\ ccb' = [ccb EXCEPT ![t] = "none"]
    /\ IF suspend[t]
       THEN UNCHANGED <<state, need, suspend>>
       ELSE SuspendTask(t)
    /\ UNCHANGED <<taskVars, schedVars, pVars, onrq, C, acc, ctimer, cread, mgr, stray>>

(* "reset accumulator".                                                    *)
ResetAccNever(t) == UNCHANGED acc
ResetAccBySubtraction(t) == acc' = [acc EXCEPT ![t] = @ - C[t]]
ResetAcc(t) == acc' = [acc EXCEPT ![t] = 0]

(* p_timer expires: a new period starts and the accumulator is cleared.    *)
(* A p_timer of another CPU does not wait for this CPU's interrupts.       *)
PTimerFire(t) ==
    /\ ptimer[t]
    /\ t \notin RemoteP => IrqFree
    /\ ptimer' = [ptimer EXCEPT ![t] = FALSE]
    /\ pcb' = [pcb EXCEPT ![t] = "lock"]
    /\ ResetAcc(t)
    /\ UNCHANGED <<taskVars, schedVars, cVars, runVars, C, mgr, stray>>

(* wake_up_process: a task that is not RUNNING becomes runnable.           *)
WakeUp(t) ==
    IF state[t] \in {"INTERRUPTIBLE", "UNINTERRUPTIBLE"}
    THEN /\ state' = [state EXCEPT ![t] = "RUNNING"]
         /\ onrq' = [onrq EXCEPT ![t] = TRUE]
    ELSE UNCHANGED <<state, onrq>>

(* HRTIMER_RESTART: the p_timer is enqueued for the next period.           *)
RestartNever(t) == UNCHANGED ptimer
RestartPTimer(t) == ptimer' = [ptimer EXCEPT ![t] = TRUE]

(* Under s_lock: resume a suspended task; then the timer restarts.         *)
PTimerResume(t) ==
    /\ pcb[t] = "lock"
    /\ pcb' = [pcb EXCEPT ![t] = "none"]
    /\ RestartPTimer(t)
    /\ IF suspend[t]
       THEN WakeUp(t) /\ suspend' = [suspend EXCEPT ![t] = FALSE]
       ELSE UNCHANGED <<state, onrq, suspend>>
    /\ UNCHANGED <<taskVars, schedVars, cVars, need, C, acc, mgr, stray>>

-----------------------------------------------------------------------------
(* The scheduler.                                                          *)

(* "disable c timer before swap out", if the task is reserved.  (A stray   *)
(* timer may stay in the queue: StrayFound.)                               *)
SwapOutTimerKept(t, next) == UNCHANGED ctimer
SwapOutTimer(t, next) ==
    ctimer' = [ctimer EXCEPT ![t] = @ /\ (next = t \/ ~flag[t])]

(* __schedule with prev = t: t leaves the run queue if it is not RUNNING,  *)
(* except when it is preempted in kernel mode (preemptActive).  If another *)
(* thread is picked, the c_timer of t is cancelled.                        *)
Schedule(t, next, preemptActive) ==
    /\ curr = t /\ ~arm /\ IrqFree
    /\ preemptActive => kpc[t] # "user"
    /\ LET sleeps == state[t] # "RUNNING" /\ ~preemptActive
       IN  /\ next = t => ~sleeps
           /\ onrq' = [onrq EXCEPT ![t] = ~sleeps]
    /\ next \in Tasks => onrq[next]
    /\ curr' = next
    /\ arm' = (next \in Tasks \ {t})
    /\ need' = [need EXCEPT ![t] = FALSE]
    /\ SwapOutTimer(t, next)
    /\ kpc' = [kpc EXCEPT ![t] = IF @ = "endjob" /\ ~preemptActive THEN "user" ELSE @]
    /\ UNCHANGED <<flag, waker, pVars, ccb, cread, state, suspend, C, acc, mgr, stray>>

(* __schedule called by a thread that is no reserved task.                 *)
ScheduleOther(next) ==
    /\ curr = Other /\ IrqFree /\ onrq[next]
    /\ curr' = next /\ arm' = TRUE
    /\ UNCHANGED <<taskVars, cVars, pVars, runVars, C, acc, mgr, stray>>

(* The rest of __schedule, on the stack of the task switched in: its       *)
(* c_timer is started if it is reserved.                                   *)
FinishSwitch(t) ==
    /\ curr = t /\ arm /\ IrqFree
    /\ arm' = FALSE
    /\ ctimer' = [ctimer EXCEPT ![t] = @ \/ flag[t]]
    /\ UNCHANGED <<taskVars, curr, ccb, cread, pVars, runVars, C, acc, mgr, stray>>

-----------------------------------------------------------------------------
(* What the running task does.                                             *)

(* t executes user code; a pending reschedule is served before it goes on. *)
InUser(t) == curr = t /\ ~arm /\ IrqFree /\ kpc[t] = "user" /\ ~need[t]

(* end_job marks the running task.                                         *)
EndJobUnmarked(t) ==
    state' = [state EXCEPT ![t] = "UNINTERRUPTIBLE"] /\ UNCHANGED suspend
EndJobSuspend(t) ==
    /\ state' = [state EXCEPT ![t] = "UNINTERRUPTIBLE"]
    /\ suspend' = [suspend EXCEPT ![t] = TRUE]

(* end_job up to its call of schedule(), which is a Schedule step.         *)
EndJob(t) ==
    /\ InUser(t) /\ flag[t]
    /\ kpc' = [kpc EXCEPT ![t] = "endjob"]
    /\ IF suspend[t]
       THEN UNCHANGED <<state, suspend>>
       ELSE EndJobSuspend(t)
    /\ UNCHANGED <<schedVars, cVars, pVars, flag, waker, onrq, need, C, acc, mgr, stray>>

(* A call that sleeps until somebody else's event: the kernel's wait loop  *)
(* sets the state and calls schedule(), again until the event has come.    *)
WaitEnter(t) ==
    /\ "wait" \in Ops
    /\ \/ InUser(t) /\ waker' = [waker EXCEPT ![t] = TRUE]
       \/ /\ curr = t /\ ~arm /\ IrqFree
          /\ kpc[t] = "wait" /\ waker[t] /\ state[t] = "RUNNING"
          /\ UNCHANGED waker
    /\ kpc' = [kpc EXCEPT ![t] = "wait"]
    /\ state' = [state EXCEPT ![t] = "INTERRUPTIBLE"]
    /\ UNCHANGED <<schedVars, cVars, pVars, flag, onrq, need, suspend, C, acc, mgr, stray>>

(* The event the task waits for.                                           *)
WaitEvent(t) ==
    /\ waker[t]
    /\ waker' = [waker EXCEPT ![t] = FALSE]
    /\ WakeUp(t)
    /\ UNCHANGED <<flag, kpc, schedVars, cVars, pVars, need, suspend, C, acc, mgr, stray>>

(* The wait is over and the call returns.                                  *)
WaitReturn(t) ==
    /\ curr = t /\ ~arm /\ IrqFree /\ kpc[t] = "wait" /\ ~waker[t]
    /\ kpc' = [kpc EXCEPT ![t] = "user"]
    /\ UNCHANGED <<flag, waker, schedVars, cVars, pVars, runVars, C, acc, mgr, stray>>

(* do_exit: stop the c_timer, ...                                          *)
ExitStopC(t) ==
    /\ "exit" \in Ops
    /\ InUser(t) /\ flag[t]
    /\ mgr = Idle
    /\ ctimer' = [ctimer EXCEPT ![t] = FALSE]
    /\ kpc' = [kpc EXCEPT ![t] = "exitC"]
    /\ UNCHANGED <<flag, waker, schedVars, pVars, ccb, cread, runVars, C, acc, mgr, stray>>

(* ... then the p_timer, after a running callback; flag stays set, ...     *)
ExitStopP(t) ==
    /\ curr = t /\ ~arm /\ IrqFree /\ kpc[t] = "exitC" /\ pcb[t] = "none"
    /\ ptimer' = [ptimer EXCEPT ![t] = FALSE]
    /\ kpc' = [kpc EXCEPT ![t] = "exitP"]
    /\ UNCHANGED <<flag, waker, schedVars, cVars, pcb, runVars, C, acc, mgr, stray>>

(* ... and the task leaves the CPU for good: the last schedule() of        *)
(* do_exit in state TASK_DEAD.                                             *)
ExitDead(t) ==
    /\ curr = t /\ ~arm /\ IrqFree /\ kpc[t] = "exitP"
    /\ kpc' = [kpc EXCEPT ![t] = "dead"]
    /\ state' = [state EXCEPT ![t] = "DEAD"]
    /\ onrq' = [onrq EXCEPT ![t] = FALSE]
    /\ ctimer' = [ctimer EXCEPT ![t] = FALSE]
    /\ need' = [need EXCEPT ![t] = FALSE]
    /\ curr' = Other
    /\ UNCHANGED <<flag, waker, arm, pVars, ccb, cread, suspend, C, acc, mgr, stray>>

-----------------------------------------------------------------------------
(* set_reserve and cancel_reserve, called by another process.              *)

Exiting(t) == kpc[t] \in {"exitC", "exitP", "dead"}

(* A timer of t is enqueued or its callback runs.                          *)
CTimerInUse(t) == ctimer[t] \/ ccb[t] # "none"
PTimerInUse(t) == ptimer[t] \/ pcb[t] # "none"
TimersIdle(t) == ~CTimerInUse(t) /\ ~PTimerInUse(t)

(* What a set_reserve is to t: a change of its reservation, a first one,   *)
(* or another try after one that has left a timer behind.                  *)
SetOp(t) == IF flag[t] THEN "revise" ELSE IF TimersIdle(t) THEN "set" ELSE "retry"

(* set_reserve, once admission has succeeded: suspend is cleared when the  *)
(* task was not reserved; the new limit is stored, acc is left alone.      *)
SetParams(t, c) ==
    /\ mgr = Idle /\ ~Exiting(t)
    /\ SetOp(t) \in Ops
    /\ C' = [C EXCEPT ![t] = c]
    /\ suspend' = [suspend EXCEPT ![t] = @ /\ flag[t]]
    /\ mgr' = IF flag[t] THEN [pc |-> "cancelC", op |-> "revise", t |-> t]
                         ELSE [pc |-> "init", op |-> "set", t |-> t]
    /\ UNCHANGED <<taskVars, schedVars, cVars, pVars, state, onrq, need, acc, stray>>

(* cancel_reserve of a reserved task begins by stopping the timers.        *)
CancelBegin(t) ==
    /\ mgr = Idle /\ ~Exiting(t)
    /\ "cancel" \in Ops /\ flag[t]
    /\ mgr' = [pc |-> "cancelC", op |-> "cancel", t |-> t]
    /\ UNCHANGED <<taskVars, schedVars, cVars, pVars, runVars, C, acc, stray>>

(* The call under way, about to do pc.                                     *)
MgrAt(pc) == [pc |-> pc, op |-> mgr.op, t |-> mgr.t]

(* hrtimer_cancel(c_timer) waits for a running callback.                   *)
MgrCancelC ==
    /\ mgr.pc = "cancelC" /\ ccb[mgr.t] = "none"
    /\ ctimer' = [ctimer EXCEPT ![mgr.t] = FALSE]
    /\ mgr' = MgrAt("cancelP")
    /\ UNCHANGED <<taskVars, schedVars, pVars, ccb, cread, runVars, C, acc, stray>>

(* hrtimer_cancel(p_timer).                                                *)
MgrCancelP ==
    /\ mgr.pc = "cancelP" /\ pcb[mgr.t] = "none"
    /\ ptimer' = [ptimer EXCEPT ![mgr.t] = FALSE]
    /\ mgr' = MgrAt(IF mgr.op = "cancel" THEN "unbind" ELSE "init")
    /\ UNCHANGED <<taskVars, schedVars, cVars, pcb, runVars, C, acc, stray>>

(* hrtimer_init of both timers, then the p_timer starts.  hrtimer_init     *)
(* erases the timer, its links in the queue included: one that is enqueued *)
(* or whose callback runs is stray from now on.                            *)
MgrInitTimers ==
    /\ mgr.pc = "init"
    /\ stray' = stray \cup (IF CTimerInUse(mgr.t) THEN {<<"c", mgr.t>>} ELSE {})
                     \cup (IF PTimerInUse(mgr.t) THEN {<<"p", mgr.t>>} ELSE {})
    /\ ptimer' = [ptimer EXCEPT ![mgr.t] = TRUE]
    /\ mgr' = MgrAt("setFlag")
    /\ UNCHANGED <<taskVars, schedVars, cVars, pcb, runVars, C, acc>>

(* The reservation takes effect.                                           *)
MgrSetFlag ==
    /\ mgr.pc = "setFlag"
    /\ flag' = [flag EXCEPT ![mgr.t] = TRUE]
    /\ mgr' = Idle
    /\ UNCHANGED <<kpc, waker, schedVars, cVars, pVars, runVars, C, acc, stray>>

(* set_reserve returns an error because a sysfs object could not be made:  *)
(* the timers stay as they are and flag is not set.                        *)
MgrSetFails ==
    /\ "setFails" \in Ops
    /\ mgr.pc = "setFlag"
    /\ mgr' = Idle
    /\ UNCHANGED <<taskVars, schedVars, cVars, pVars, runVars, C, acc, stray>>

(* cancel_reserve after sched_setaffinity has succeeded.                   *)
MgrUnbind ==
    /\ mgr.pc = "unbind"
    /\ flag' = [flag EXCEPT ![mgr.t] = FALSE]
    /\ mgr' = Idle
    /\ UNCHANGED <<kpc, waker, schedVars, cVars, pVars, runVars, C, acc, stray>>

(* It returns EINVAL when sched_setaffinity fails: the task stays reserved *)
(* and both timers stay stopped.                                           *)
MgrUnbindFails ==
    /\ "cancelFails" \in Ops
    /\ mgr.pc = "unbind"
    /\ mgr' = Idle
    /\ UNCHANGED <<taskVars, schedVars, cVars, pVars, runVars, C, acc, stray>>

(* A queue with an erased node in it is undefined: hrtimer_start links the *)
(* node a second time, walks of the queue miss what hangs below it, and    *)
(* hrtimer_cancel of a timer in state 0 removes nothing.  So any timer may *)
(* be lost, ...                                                            *)
StrayLoses(t) ==
    /\ stray # {}
    /\ \/ ctimer' = [ctimer EXCEPT ![t] = FALSE] /\ UNCHANGED ptimer
       \/ ptimer' = [ptimer EXCEPT ![t] = FALSE] /\ UNCHANGED ctimer
    /\ UNCHANGED <<taskVars, schedVars, ccb, cread, pcb, runVars, C, acc, mgr, stray>>

(* ... and a stray timer may be found in the queue and expire, whoever has *)
(* cancelled it.                                                           *)
StrayFound(t) ==
    /\ \/ /\ <<"c", t>> \in stray
          /\ ctimer' = [ctimer EXCEPT ![t] = TRUE] /\ UNCHANGED ptimer
       \/ /\ <<"p", t>> \in stray
          /\ ptimer' = [ptimer EXCEPT ![t] = TRUE] /\ UNCHANGED ctimer
    /\ UNCHANGED <<taskVars, schedVars, ccb, cread, pcb, runVars, C, acc, mgr, stray>>

-----------------------------------------------------------------------------
Callbacks(t) ==
    CTimerFire(t) \/ CTimerAdd(t) \/ CTimerSuspend(t) \/ PTimerFire(t) \/ PTimerResume(t)

Scheduling(t) ==
    \/ \E next \in Tasks \cup {Other}, pa \in BOOLEAN : Schedule(t, next, pa)
    \/ ScheduleOther(t)
    \/ FinishSwitch(t)

TaskSteps(t) ==
    \/ EndJob(t) \/ WaitEnter(t) \/ WaitEvent(t) \/ WaitReturn(t)
    \/ ExitStopC(t) \/ ExitStopP(t) \/ ExitDead(t)

MgrSteps ==
    \/ MgrCancelC \/ MgrCancelP \/ MgrInitTimers
    \/ MgrSetFlag \/ MgrSetFails \/ MgrUnbind \/ MgrUnbindFails

Next ==
    \/ \E t \in Tasks : Callbacks(t) \/ Scheduling(t) \/ TaskSteps(t)
    \/ \E t \in Tasks : CancelBegin(t) \/ \E c \in Budgets : SetParams(t, c)
    \/ \E t \in Tasks : StrayLoses(t) \/ StrayFound(t)
    \/ MgrSteps

(* Callbacks that have begun end, a started p_timer expires (strongly: an  *)
(* expired timer is served by the next timer interrupt), a switch and a    *)
(* system call that have begun are finished.                               *)
Fairness ==
    /\ \A t \in Tasks :
          /\ WF_vars(CTimerAdd(t) \/ CTimerSuspend(t))
          /\ SF_vars(PTimerFire(t)) /\ WF_vars(PTimerResume(t))
          /\ WF_vars(FinishSwitch(t))
    /\ SF_vars(MgrSteps)

Spec == Init /\ [][Next]_vars
FairSpec == Spec /\ Fairness

-----------------------------------------------------------------------------
(* Properties.                                                             *)

(* The period timer of t will run PTimerResume: it is enqueued, its        *)
(* callback is under way, or the revision that stopped it restarts it.     *)
PeriodComes(t) ==
    \/ ptimer[t] \/ pcb[t] = "lock"
    \/ mgr.pc = "init" /\ mgr.op = "revise" /\ mgr.t = t

(* No lost wake-up: a task that has left the run queue is suspended with   *)
(* its period timer still to come, or sleeps for an event of its own that  *)
(* is still to come.  The windows are those between "suspend = 1" and      *)
(* schedule() in end_job and between the c_timer interrupt and schedule(). *)
SleepHasWaker ==
    \A t \in Tasks : ~onrq[t] => (suspend[t] /\ PeriodComes(t)) \/ waker[t]

(* A task that is off the run queue is marked: whoever put it there is the *)
(* reserve (suspend) or an event of its own; exited tasks aside.           *)
SleepMarked ==
    \A t \in Tasks : ~onrq[t] => suspend[t] \/ waker[t] \/ kpc[t] = "dead"

(* The period timer of a reservation never dies: except while a call that  *)
(* stops it is under way and after do_exit, it is enqueued or its callback *)
(* is about to enqueue it.                                                 *)
PeriodTimerAlive ==
    \A t \in Tasks :
       flag[t] /\ kpc[t] \notin {"exitP", "dead"} =>
          \/ PeriodComes(t)
          \/ mgr.pc = "unbind" /\ mgr.t = t

(* A task is charged only while it has the CPU: c_timer is never enqueued  *)
(* or running for a task that is switched out ("disable c timer before     *)
(* swap out", sched.c:4327).                                               *)
ChargedOnCpu == \A t \in Tasks : ctimer[t] \/ ccb[t] # "none" => curr = t

(* reserve.h:51, "0 for not suspended, 1 for suspended": a suspended task  *)
(* does not execute user code; in particular end_job returns only after    *)
(* the next period has begun.                                              *)
SuspendedStaysOff == \A t \in Tasks : suspend[t] => ~InUser(t)

(* The tasks whose period timer is on their own CPU.                       *)
Local == Tasks \ RemoteP

(* When c_timer_callback suspends a task "due to out of budget"            *)
(* (reserve.c:147) the task is out of budget in the period that runs.      *)
JustifiedFor(S) == \A t \in S : ccb[t] = "lock" => acc[t] > C[t]

SuspendJustified == JustifiedFor(Local)

(* The same for the tasks whose period timer is on another CPU.            *)
RemoteSuspendJustified == JustifiedFor(RemoteP)

(* Budget exhaustion is enforced: a task charged more than its limit is    *)
(* suspended as soon as its callbacks are done (reserve.c:128-152).        *)
OverrunSuspended ==
    \A t \in Local :
       flag[t] /\ acc[t] > C[t] => ccb[t] # "none" \/ suspend[t]

(* reserve.h:61, c_timer is the "timer for running time": a reserved task  *)
(* that executes user code within its budget is being charged.             *)
RunningIsCharged ==
    \A t \in Tasks : flag[t] /\ InUser(t) /\ ~suspend[t] => ctimer[t]

(* reserve.c:934, "stop timer": after cancel_reserve the c_timer of the    *)
(* task is stopped.                                                        *)
CancelStopsTimers == \A t \in Tasks : ~flag[t] /\ mgr = Idle => ~ctimer[t]

(* exit.c:916, "stop timers when exit": both stay stopped until the task   *)
(* is gone.                                                                *)
ExitStopsTimers == \A t \in Tasks : kpc[t] = "exitP" => ~ctimer[t] /\ ~ptimer[t]

(* hrtimer_init is applied to idle timers only, which is what the          *)
(* cancellations "if already reserved" (reserve.c:833) are for.            *)
InitOfIdleTimers == mgr.pc = "init" => TimersIdle(mgr.t)

(* "resume suspended task" (reserve.c:266): every suspension ends.         *)
SuspensionEnds == \A t \in Tasks : suspend[t] ~> ~suspend[t]

(* What the timers, the scheduler hooks and the calls do together is a     *)
(* reservation in the sense of module Reservation: a task of this CPU is   *)
(* suspended only for an overrun or by its own end_job, executes nothing   *)
(* until its next period, and goes on then with a full budget              *)
(* (reserve.c:104-283, 1001-1018; sched.c:4327-4372).                      *)
R == INSTANCE Reservation WITH
        Tasks <- Local,
        reserved <- [t \in Local |-> flag[t]],
        suspended <- [t \in Local |-> suspend[t]],
        used <- [t \in Local |-> acc[t]],
        limit <- [t \in Local |-> C[t]],
        executing <- {t \in Local : InUser(t)}

ImplementsReservation == R!FairSpec
=============================================================================
