-------------------------- MODULE EnforcementProofs --------------------------
(***************************************************************************)
(* Proofs about budget enforcement, for any number of tasks on the CPU,    *)
(* any budgets and any placement of the period timers.                     *)
(***************************************************************************)
EXTENDS Enforcement, TLAPS

(* TypeOK is inductive: every handler leaves every field of the reserve,   *)
(* of the task and of the CPU in its range.                                *)
LEMMA TypeInit == Init => TypeOK
<1> SUFFICES ASSUME Init PROVE TypeOK
  OBVIOUS
<1>1. C \in [Tasks -> Nat]
  BY EnforcementAssumption DEF Init
<1>2. mgr \in {Idle} \cup MgrCalls
  BY DEF Init
<1>3. flag \in [Tasks -> BOOLEAN] /\ ptimer \in [Tasks -> BOOLEAN]
  <2>1. [t \in Tasks |-> t \in Reserved0] \in [Tasks -> BOOLEAN]
    OBVIOUS
  <2> QED
    BY <2>1 DEF Init
<1>4. /\ suspend \in [Tasks -> BOOLEAN] /\ onrq \in [Tasks -> BOOLEAN]
      /\ need \in [Tasks -> BOOLEAN] /\ ctimer \in [Tasks -> BOOLEAN]
      /\ waker \in [Tasks -> BOOLEAN] /\ arm \in BOOLEAN
  BY DEF Init
<1>5. /\ ccb \in [Tasks -> {"none", "add", "lock"}]
      /\ pcb \in [Tasks -> {"none", "lock"}]
      /\ kpc \in [Tasks -> {"user", "endjob", "wait", "exitC", "exitP", "dead"}]
      /\ state \in [Tasks -> {"RUNNING", "INTERRUPTIBLE", "UNINTERRUPTIBLE", "DEAD"}]
  BY DEF Init
<1>6. acc \in [Tasks -> Nat] /\ cread \in [Tasks -> Nat] /\ curr \in Tasks \cup {Other}
  BY EnforcementAssumption DEF Init
<1>7. stray \subseteq {"c", "p"} \X Tasks
  BY DEF Init
<1> QED
  BY <1>1, <1>2, <1>3, <1>4, <1>5, <1>6, <1>7 DEF TypeOK

LEMMA TypeNext == TypeOK /\ [Next]_vars => TypeOK'
<1> SUFFICES ASSUME TypeOK, [Next]_vars PROVE TypeOK'
  OBVIOUS
<1> USE EnforcementAssumption DEF TypeOK, taskVars, schedVars, cVars, pVars, runVars
<1>1. ASSUME NEW t \in Tasks, Callbacks(t) PROVE TypeOK'
  <2>1. CASE CTimerFire(t)
    BY <2>1 DEF CTimerFire
  <2>2. CASE CTimerAdd(t)
    <3>1. acc' \in [Tasks -> Nat]
      BY <2>2 DEF CTimerAdd
    <3>2. ccb' \in [Tasks -> {"none", "add", "lock"}] /\ ctimer' \in [Tasks -> BOOLEAN]
      BY <2>2 DEF CTimerAdd
    <3> QED
      BY <2>2, <3>1, <3>2 DEF CTimerAdd
  <2>3. CASE CTimerSuspend(t)
    BY <2>3 DEF CTimerSuspend, SuspendTask
  <2>4. CASE PTimerFire(t)
    BY <2>4 DEF PTimerFire, ResetAcc
  <2>5. CASE PTimerResume(t)
    BY <2>5 DEF PTimerResume, RestartPTimer, WakeUp
  <2> QED
    BY ONLY <1>1, <2>1, <2>2, <2>3, <2>4, <2>5 DEF Callbacks
<1>2. ASSUME NEW t \in Tasks, Scheduling(t) PROVE TypeOK'
  <2>1. ASSUME NEW next \in Tasks \cup {Other}, NEW pa \in BOOLEAN, Schedule(t, next, pa)
        PROVE  TypeOK'
    BY <2>1 DEF Schedule, SwapOutTimer
  <2>2. CASE ScheduleOther(t)
    BY <2>2 DEF ScheduleOther
  <2>3. CASE FinishSwitch(t)
    BY <2>3 DEF FinishSwitch
  <2> QED
    BY <1>2, <2>1, <2>2, <2>3 DEF Scheduling
<1>3. ASSUME NEW t \in Tasks, TaskSteps(t) PROVE TypeOK'
  <2>1. CASE EndJob(t)
    BY <2>1 DEF EndJob, EndJobSuspend
  <2>2. CASE WaitEnter(t)
    BY <2>2 DEF WaitEnter
  <2>3. CASE WaitEvent(t)
    BY <2>3 DEF WaitEvent, WakeUp
  <2>4. CASE WaitReturn(t)
    BY <2>4 DEF WaitReturn
  <2>5. CASE ExitStopC(t)
    BY <2>5 DEF ExitStopC
  <2>6. CASE ExitStopP(t)
    BY <2>6 DEF ExitStopP
  <2>7. CASE ExitDead(t)
    BY <2>7 DEF ExitDead
  <2> QED
    BY ONLY <1>3, <2>1, <2>2, <2>3, <2>4, <2>5, <2>6, <2>7 DEF TaskSteps
<1>4. ASSUME NEW t \in Tasks, CancelBegin(t) PROVE TypeOK'
  BY <1>4 DEF CancelBegin, MgrCalls
<1>5. ASSUME NEW t \in Tasks, NEW c \in Budgets, SetParams(t, c) PROVE TypeOK'
  BY <1>5 DEF SetParams, MgrCalls
<1>6. CASE MgrSteps
  <2> USE DEF MgrCalls, Idle, MgrAt
  <2>1. CASE MgrCancelC
    BY <2>1 DEF MgrCancelC
  <2>2. CASE MgrCancelP
    BY <2>2 DEF MgrCancelP
  <2>3. CASE MgrInitTimers
    <3>1. mgr \in MgrCalls
      BY <2>3 DEF MgrInitTimers
    <3>2. ctimer' \in [Tasks -> BOOLEAN] /\ ptimer' \in [Tasks -> BOOLEAN]
      BY <2>3, <3>1 DEF MgrInitTimers
    <3>3. mgr' \in MgrCalls
      BY <2>3, <3>1 DEF MgrInitTimers
    <3>4. stray' \subseteq {"c", "p"} \X Tasks
      BY <2>3, <3>1 DEF MgrInitTimers
    <3> QED
      BY <2>3, <3>2, <3>3, <3>4 DEF MgrInitTimers
  <2>4. CASE MgrSetFlag
    BY <2>4 DEF MgrSetFlag
  <2>5. CASE MgrSetFails
    BY <2>5 DEF MgrSetFails
  <2>6. CASE MgrUnbind
    BY <2>6 DEF MgrUnbind
  <2>7. CASE MgrUnbindFails
    BY <2>7 DEF MgrUnbindFails
  <2> QED
    BY <1>6, <2>1, <2>2, <2>3, <2>4, <2>5, <2>6, <2>7 DEF MgrSteps
<1>7. ASSUME NEW t \in Tasks, StrayLoses(t) PROVE TypeOK'
  BY <1>7 DEF StrayLoses
<1>8. ASSUME NEW t \in Tasks, StrayFound(t) PROVE TypeOK'
  BY <1>8 DEF StrayFound
<1>9. CASE UNCHANGED vars
  BY <1>9 DEF vars
<1> QED
  BY <1>1, <1>2, <1>3, <1>4, <1>5, <1>6, <1>7, <1>8, <1>9 DEF Next

(* In every behaviour the state has its type.                              *)
THEOREM TypeCorrect == Spec => []TypeOK
  BY TypeInit, TypeNext, PTL DEF Spec

-----------------------------------------------------------------------------
(* When the timer queues stay sound: if no reservation is revised and none *)
(* is tried again after a failure, set_reserve is for a task whose timers  *)
(* are idle, and until it has set flag nobody starts them, so hrtimer_init *)
(* erases no timer in use.                                                 *)
IdleInv ==
    /\ stray = {}
    /\ mgr.op # "revise"
    /\ mgr.pc \in {"cancelC", "cancelP", "unbind"} => mgr.op = "cancel"
    /\ mgr.pc = "init" => ~flag[mgr.t] /\ TimersIdle(mgr.t)

LEMMA IdleInit == Init => IdleInv
  BY DEF Init, IdleInv, Idle

LEMMA IdleNext ==
  ASSUME "revise" \notin Ops, "retry" \notin Ops
  PROVE  TypeOK /\ IdleInv /\ [Next]_vars => IdleInv'
<1> SUFFICES ASSUME TypeOK, IdleInv, [Next]_vars PROVE IdleInv'
  OBVIOUS
<1> USE DEF TypeOK, IdleInv, TimersIdle, CTimerInUse, PTimerInUse, Idle, MgrCalls, MgrAt,
           taskVars, schedVars, cVars, pVars, runVars
<1>1. ASSUME NEW t \in Tasks, Callbacks(t) PROVE IdleInv'
  <2>1. CASE CTimerFire(t)
    BY <2>1 DEF CTimerFire
  <2>2. CASE CTimerAdd(t)
    BY <2>2 DEF CTimerAdd
  <2>3. CASE CTimerSuspend(t)
    BY <2>3 DEF CTimerSuspend, SuspendTask
  <2>4. CASE PTimerFire(t)
    BY <2>4 DEF PTimerFire, ResetAcc
  <2>5. CASE PTimerResume(t)
    BY <2>5 DEF PTimerResume, RestartPTimer, WakeUp
  <2> QED
    BY ONLY <1>1, <2>1, <2>2, <2>3, <2>4, <2>5 DEF Callbacks
<1>2. ASSUME NEW t \in Tasks, Scheduling(t) PROVE IdleInv'
  <2>1. ASSUME NEW next \in Tasks \cup {Other}, NEW pa \in BOOLEAN, Schedule(t, next, pa)
        PROVE  IdleInv'
    BY <2>1 DEF Schedule, SwapOutTimer
  <2>2. CASE ScheduleOther(t)
    BY <2>2 DEF ScheduleOther
  <2>3. CASE FinishSwitch(t)
    BY <2>3 DEF FinishSwitch
  <2> QED
    BY ONLY <1>2, <2>1, <2>2, <2>3 DEF Scheduling
<1>3. ASSUME NEW t \in Tasks, TaskSteps(t) PROVE IdleInv'
  <2>1. CASE EndJob(t)
    BY <2>1 DEF EndJob, EndJobSuspend, InUser
  <2>2. CASE WaitEnter(t)
    BY <2>2 DEF WaitEnter, InUser
  <2>3. CASE WaitEvent(t)
    BY <2>3 DEF WaitEvent, WakeUp
  <2>4. CASE WaitReturn(t)
    BY <2>4 DEF WaitReturn
  <2>5. CASE ExitStopC(t)
    BY <2>5 DEF ExitStopC, InUser
  <2>6. CASE ExitStopP(t)
    BY <2>6 DEF ExitStopP
  <2>7. CASE ExitDead(t)
    BY <2>7 DEF ExitDead
  <2> QED
    BY ONLY <1>3, <2>1, <2>2, <2>3, <2>4, <2>5, <2>6, <2>7 DEF TaskSteps
<1>4. ASSUME NEW t \in Tasks, CancelBegin(t) PROVE IdleInv'
  BY <1>4 DEF CancelBegin
<1>5. ASSUME NEW t \in Tasks, NEW c \in Budgets, SetParams(t, c) PROVE IdleInv'
  BY <1>5 DEF SetParams, SetOp
<1>6. CASE MgrSteps
  <2>1. CASE MgrCancelC
    BY <2>1 DEF MgrCancelC
  <2>2. CASE MgrCancelP
    BY <2>2 DEF MgrCancelP
  <2>3. CASE MgrInitTimers
    BY <2>3 DEF MgrInitTimers
  <2>4. CASE MgrSetFlag
    BY <2>4 DEF MgrSetFlag
  <2>5. CASE MgrSetFails
    BY <2>5 DEF MgrSetFails
  <2>6. CASE MgrUnbind
    BY <2>6 DEF MgrUnbind
  <2>7. CASE MgrUnbindFails
    BY <2>7 DEF MgrUnbindFails
  <2> QED
    BY <1>6, <2>1, <2>2, <2>3, <2>4, <2>5, <2>6, <2>7 DEF MgrSteps
<1>7. ASSUME NEW t \in Tasks, StrayLoses(t) PROVE IdleInv'
  BY <1>7 DEF StrayLoses
<1>8. ASSUME NEW t \in Tasks, StrayFound(t) PROVE IdleInv'
  BY <1>8 DEF StrayFound
<1>9. CASE UNCHANGED vars
  BY <1>9 DEF vars
<1> QED
  BY <1>1, <1>2, <1>3, <1>4, <1>5, <1>6, <1>7, <1>8, <1>9 DEF Next

-----------------------------------------------------------------------------
(* What keeps a sleeping task wakeable.  state, suspend and flag move      *)
(* together only through the sections under s_lock and the scheduler, so   *)
(* each link of the chain  asleep -> not RUNNING -> suspended -> reserved  *)
(* -> period timer to come  is a conjunct of its own.                      *)
SleepChain(t) ==
    /\ ~onrq[t] => state[t] # "RUNNING"
    /\ state[t] = "UNINTERRUPTIBLE" => suspend[t]
    /\ state[t] = "INTERRUPTIBLE" => waker[t]
    /\ state[t] # "DEAD"
    /\ suspend[t] => flag[t]
    /\ ctimer[t] \/ ccb[t] # "none" => flag[t]
    /\ flag[t] => PeriodComes(t)
    /\ ~Exiting(t)

(* The call under way never cancels, and has started the period timer      *)
(* before it sets the flag.                                                *)
MgrNeverCancels ==
    /\ mgr.op # "cancel" /\ mgr.pc # "unbind"
    /\ mgr.pc \in {"cancelC", "cancelP"} => mgr.op = "revise"
    /\ mgr.pc = "setFlag" => ptimer[mgr.t] \/ pcb[mgr.t] = "lock"

WakeInv == MgrNeverCancels /\ \A t \in Tasks : SleepChain(t)

LEMMA WakeInit == Init => WakeInv
  BY EnforcementAssumption
     DEF Init, WakeInv, SleepChain, MgrNeverCancels, PeriodComes, Exiting, Idle

LEMMA WakeNext ==
  ASSUME "cancel" \notin Ops, "exit" \notin Ops
  PROVE  TypeOK /\ IdleInv /\ WakeInv /\ [Next]_vars => WakeInv'
<1> SUFFICES ASSUME TypeOK, IdleInv, WakeInv, [Next]_vars PROVE WakeInv'
  OBVIOUS
<1> USE DEF IdleInv, TimersIdle, CTimerInUse, PTimerInUse
<1> USE DEF TypeOK, WakeInv, SleepChain, MgrNeverCancels, PeriodComes, Exiting, Idle, MgrCalls, MgrAt,
           taskVars, schedVars, cVars, pVars, runVars
<1>1. ASSUME NEW t \in Tasks, Callbacks(t) PROVE WakeInv'
  <2>1. CASE CTimerFire(t)
    BY <2>1 DEF CTimerFire
  <2>2. CASE CTimerAdd(t)
    BY <2>2 DEF CTimerAdd
  <2>3. CASE CTimerSuspend(t)
    BY <2>3 DEF CTimerSuspend, SuspendTask
  <2>4. CASE PTimerFire(t)
    BY <2>4 DEF PTimerFire, ResetAcc
  <2>5. CASE PTimerResume(t)
    BY <2>5 DEF PTimerResume, RestartPTimer, WakeUp
  <2> QED
    BY ONLY <1>1, <2>1, <2>2, <2>3, <2>4, <2>5 DEF Callbacks
<1>2. ASSUME NEW t \in Tasks, Scheduling(t) PROVE WakeInv'
  <2>1. ASSUME NEW next \in Tasks \cup {Other}, NEW pa \in BOOLEAN, Schedule(t, next, pa)
        PROVE  WakeInv'
    BY <2>1 DEF Schedule, SwapOutTimer
  <2>2. CASE ScheduleOther(t)
    BY <2>2 DEF ScheduleOther
  <2>3. CASE FinishSwitch(t)
    BY <2>3 DEF FinishSwitch
  <2> QED
    BY ONLY <1>2, <2>1, <2>2, <2>3 DEF Scheduling
<1>3. ASSUME NEW t \in Tasks, TaskSteps(t) PROVE WakeInv'
  <2>1. CASE EndJob(t)
    BY <2>1 DEF EndJob, EndJobSuspend, InUser
  <2>2. CASE WaitEnter(t)
    BY <2>2 DEF WaitEnter, InUser
  <2>3. CASE WaitEvent(t)
    BY <2>3 DEF WaitEvent, WakeUp
  <2>4. CASE WaitReturn(t)
    BY <2>4 DEF WaitReturn
  <2>5. CASE ExitStopC(t)
    BY <2>5 DEF ExitStopC, InUser
  <2>6. CASE ExitStopP(t)
    BY <2>6 DEF ExitStopP
  <2>7. CASE ExitDead(t)
    BY <2>7 DEF ExitDead
  <2> QED
    BY ONLY <1>3, <2>1, <2>2, <2>3, <2>4, <2>5, <2>6, <2>7 DEF TaskSteps
<1>4. ASSUME NEW t \in Tasks, CancelBegin(t) PROVE WakeInv'
  BY <1>4 DEF CancelBegin
<1>5. ASSUME NEW t \in Tasks, NEW c \in Budgets, SetParams(t, c) PROVE WakeInv'
  BY <1>5 DEF SetParams
<1>6. CASE MgrSteps
  <2>1. CASE MgrCancelC
    BY <2>1 DEF MgrCancelC
  <2>2. CASE MgrCancelP
    BY <2>2 DEF MgrCancelP
  <2>3. CASE MgrInitTimers
    BY <2>3 DEF MgrInitTimers
  <2>4. CASE MgrSetFlag
    BY <2>4 DEF MgrSetFlag
  <2>5. CASE MgrSetFails
    BY <2>5 DEF MgrSetFails
  <2>6. CASE MgrUnbind
    BY <2>6 DEF MgrUnbind
  <2>7. CASE MgrUnbindFails
    BY <2>7 DEF MgrUnbindFails
  <2> QED
    BY <1>6, <2>1, <2>2, <2>3, <2>4, <2>5, <2>6, <2>7 DEF MgrSteps
<1>7. ASSUME NEW t \in Tasks, StrayLoses(t) PROVE WakeInv'
  BY <1>7 DEF StrayLoses
<1>8. ASSUME NEW t \in Tasks, StrayFound(t) PROVE WakeInv'
  BY <1>8 DEF StrayFound
<1>9. CASE UNCHANGED vars
  BY <1>9 DEF vars
<1> QED
  BY <1>1, <1>2, <1>3, <1>4, <1>5, <1>6, <1>7, <1>8, <1>9 DEF Next

(* No wake-up is lost, whatever the interleaving of end_job, the timers on *)
(* two CPUs, the scheduler and calls that reserve tasks and may fail, as   *)
(* long as no reservation is revised, retried or cancelled and no reserved *)
(* task exits.                                                             *)
THEOREM NoLostWakeup ==
  ASSUME "cancel" \notin Ops, "exit" \notin Ops, "revise" \notin Ops, "retry" \notin Ops
  PROVE  Spec => []SleepHasWaker
<1>1. TypeOK /\ WakeInv => SleepHasWaker
  BY DEF TypeOK, WakeInv, SleepChain, SleepHasWaker
<1> QED
  BY TypeInit, TypeNext, IdleInit, IdleNext, WakeInit, WakeNext, <1>1, PTL DEF Spec

-----------------------------------------------------------------------------
(* A running budget timer belongs to a reserved task on the CPU: the hook  *)
(* in __schedule cancels it for reserved tasks only, so the flag is part   *)
(* of the invariant.                                                       *)
ChargeInv ==
    /\ mgr.op # "cancel" /\ mgr.pc # "unbind"
    /\ \A t \in Tasks : ctimer[t] \/ ccb[t] # "none" => curr = t /\ flag[t]

LEMMA ChargeInit == Init => ChargeInv
  BY DEF Init, ChargeInv, Idle

LEMMA ChargeNext ==
  ASSUME "cancel" \notin Ops
  PROVE  TypeOK /\ IdleInv /\ ChargeInv /\ [Next]_vars => ChargeInv'
<1> SUFFICES ASSUME TypeOK, IdleInv, ChargeInv, [Next]_vars PROVE ChargeInv'
  OBVIOUS
<1> USE DEF IdleInv, TimersIdle, CTimerInUse, PTimerInUse
<1> USE DEF TypeOK, ChargeInv, IrqFree, Idle, MgrCalls, MgrAt,
           taskVars, schedVars, cVars, pVars, runVars
<1>1. ASSUME NEW t \in Tasks, Callbacks(t) PROVE ChargeInv'
  <2>1. CASE CTimerFire(t)
    BY <2>1 DEF CTimerFire
  <2>2. CASE CTimerAdd(t)
    BY <2>2 DEF CTimerAdd
  <2>3. CASE CTimerSuspend(t)
    BY <2>3 DEF CTimerSuspend, SuspendTask
  <2>4. CASE PTimerFire(t)
    BY <2>4 DEF PTimerFire, ResetAcc
  <2>5. CASE PTimerResume(t)
    BY <2>5 DEF PTimerResume, RestartPTimer, WakeUp
  <2> QED
    BY ONLY <1>1, <2>1, <2>2, <2>3, <2>4, <2>5 DEF Callbacks
<1>2. ASSUME NEW t \in Tasks, Scheduling(t) PROVE ChargeInv'
  <2>1. ASSUME NEW next \in Tasks \cup {Other}, NEW pa \in BOOLEAN, Schedule(t, next, pa)
        PROVE  ChargeInv'
    BY <2>1 DEF Schedule, SwapOutTimer
  <2>2. CASE ScheduleOther(t)
    BY <2>2, EnforcementAssumption DEF ScheduleOther
  <2>3. CASE FinishSwitch(t)
    BY <2>3 DEF FinishSwitch
  <2> QED
    BY ONLY <1>2, <2>1, <2>2, <2>3 DEF Scheduling
<1>3. ASSUME NEW t \in Tasks, TaskSteps(t) PROVE ChargeInv'
  <2>1. CASE EndJob(t)
    BY <2>1 DEF EndJob, EndJobSuspend, InUser
  <2>2. CASE WaitEnter(t)
    BY <2>2 DEF WaitEnter, InUser
  <2>3. CASE WaitEvent(t)
    BY <2>3 DEF WaitEvent, WakeUp
  <2>4. CASE WaitReturn(t)
    BY <2>4 DEF WaitReturn
  <2>5. CASE ExitStopC(t)
    BY <2>5 DEF ExitStopC, InUser
  <2>6. CASE ExitStopP(t)
    BY <2>6 DEF ExitStopP
  <2>7. CASE ExitDead(t)
    BY <2>7 DEF ExitDead
  <2> QED
    BY ONLY <1>3, <2>1, <2>2, <2>3, <2>4, <2>5, <2>6, <2>7 DEF TaskSteps
<1>4. ASSUME NEW t \in Tasks, CancelBegin(t) PROVE ChargeInv'
  BY <1>4 DEF CancelBegin
<1>5. ASSUME NEW t \in Tasks, NEW c \in Budgets, SetParams(t, c) PROVE ChargeInv'
  BY <1>5 DEF SetParams
<1>6. CASE MgrSteps
  <2>1. CASE MgrCancelC
    BY <2>1 DEF MgrCancelC
  <2>2. CASE MgrCancelP
    BY <2>2 DEF MgrCancelP
  <2>3. CASE MgrInitTimers
    BY <2>3 DEF MgrInitTimers
  <2>4. CASE MgrSetFlag
    BY <2>4 DEF MgrSetFlag
  <2>5. CASE MgrSetFails
    BY <2>5 DEF MgrSetFails
  <2>6. CASE MgrUnbind
    BY <2>6 DEF MgrUnbind
  <2>7. CASE MgrUnbindFails
    BY <2>7 DEF MgrUnbindFails
  <2> QED
    BY <1>6, <2>1, <2>2, <2>3, <2>4, <2>5, <2>6, <2>7 DEF MgrSteps
<1>7. ASSUME NEW t \in Tasks, StrayLoses(t) PROVE ChargeInv'
  BY <1>7 DEF StrayLoses
<1>8. ASSUME NEW t \in Tasks, StrayFound(t) PROVE ChargeInv'
  BY <1>8 DEF StrayFound
<1>9. CASE UNCHANGED vars
  BY <1>9 DEF vars
<1> QED
  BY <1>1, <1>2, <1>3, <1>4, <1>5, <1>6, <1>7, <1>8, <1>9 DEF Next

(* Unless reservations are cancelled, or calls initialise timers in use,   *)
(* no task is ever charged while it is switched out, whatever calls fail,  *)
(* tasks wait or exit.                                                     *)
THEOREM ChargedOnlyOnCpu ==
  ASSUME "cancel" \notin Ops, "revise" \notin Ops, "retry" \notin Ops
  PROVE  Spec => []ChargedOnCpu
<1>1. ChargeInv => ChargedOnCpu
  BY DEF ChargeInv, ChargedOnCpu
<1> QED
  BY TypeInit, TypeNext, IdleInit, IdleNext, ChargeInit, ChargeNext, <1>1, PTL DEF Spec

-----------------------------------------------------------------------------
(* The period timer across calls and exit: a call that is about to set the *)
(* flag has started it, and a call about an exiting task does not begin.   *)
PeriodInv ==
    /\ PeriodTimerAlive
    /\ mgr.pc = "setFlag" => ptimer[mgr.t] \/ pcb[mgr.t] = "lock"
    /\ mgr.pc = "cancelP" => mgr.op \in {"revise", "cancel"}
    /\ mgr.pc = "cancelC" => mgr.op \in {"revise", "cancel"}
    /\ mgr.pc # "idle" => ~Exiting(mgr.t)

LEMMA PeriodInit == Init => PeriodInv
  BY EnforcementAssumption DEF Init, PeriodInv, PeriodTimerAlive, PeriodComes, Idle

LEMMA PeriodNext ==
  ASSUME "cancelFails" \notin Ops
  PROVE  TypeOK /\ IdleInv /\ PeriodInv /\ [Next]_vars => PeriodInv'
<1> SUFFICES ASSUME TypeOK, IdleInv, PeriodInv, [Next]_vars PROVE PeriodInv'
  OBVIOUS
<1> USE DEF IdleInv, TimersIdle, CTimerInUse, PTimerInUse
<1> USE DEF TypeOK, PeriodInv, PeriodTimerAlive, PeriodComes, Exiting, Idle, MgrCalls, MgrAt,
           taskVars, schedVars, cVars, pVars, runVars
<1>1. ASSUME NEW t \in Tasks, Callbacks(t) PROVE PeriodInv'
  <2>1. CASE CTimerFire(t)
    BY <2>1 DEF CTimerFire
  <2>2. CASE CTimerAdd(t)
    BY <2>2 DEF CTimerAdd
  <2>3. CASE CTimerSuspend(t)
    BY <2>3 DEF CTimerSuspend, SuspendTask
  <2>4. CASE PTimerFire(t)
    BY <2>4 DEF PTimerFire, ResetAcc
  <2>5. CASE PTimerResume(t)
    BY <2>5 DEF PTimerResume, RestartPTimer, WakeUp
  <2> QED
    BY ONLY <1>1, <2>1, <2>2, <2>3, <2>4, <2>5 DEF Callbacks
<1>2. ASSUME NEW t \in Tasks, Scheduling(t) PROVE PeriodInv'
  <2>1. ASSUME NEW next \in Tasks \cup {Other}, NEW pa \in BOOLEAN, Schedule(t, next, pa)
        PROVE  PeriodInv'
    BY <2>1 DEF Schedule, SwapOutTimer
  <2>2. CASE ScheduleOther(t)
    BY <2>2 DEF ScheduleOther
  <2>3. CASE FinishSwitch(t)
    BY <2>3 DEF FinishSwitch
  <2> QED
    BY ONLY <1>2, <2>1, <2>2, <2>3 DEF Scheduling
<1>3. ASSUME NEW t \in Tasks, TaskSteps(t) PROVE PeriodInv'
  <2>1. CASE EndJob(t)
    BY <2>1 DEF EndJob, EndJobSuspend, InUser
  <2>2. CASE WaitEnter(t)
    BY <2>2 DEF WaitEnter, InUser
  <2>3. CASE WaitEvent(t)
    BY <2>3 DEF WaitEvent, WakeUp
  <2>4. CASE WaitReturn(t)
    BY <2>4 DEF WaitReturn
  <2>5. CASE ExitStopC(t)
    BY <2>5 DEF ExitStopC, InUser
  <2>6. CASE ExitStopP(t)
    BY <2>6 DEF ExitStopP
  <2>7. CASE ExitDead(t)
    BY <2>7 DEF ExitDead
  <2> QED
    BY ONLY <1>3, <2>1, <2>2, <2>3, <2>4, <2>5, <2>6, <2>7 DEF TaskSteps
<1>4. ASSUME NEW t \in Tasks, CancelBegin(t) PROVE PeriodInv'
  BY <1>4 DEF CancelBegin
<1>5. ASSUME NEW t \in Tasks, NEW c \in Budgets, SetParams(t, c) PROVE PeriodInv'
  BY <1>5 DEF SetParams
<1>6. CASE MgrSteps
  <2>1. CASE MgrCancelC
    BY <2>1 DEF MgrCancelC
  <2>2. CASE MgrCancelP
    BY <2>2 DEF MgrCancelP
  <2>3. CASE MgrInitTimers
    BY <2>3 DEF MgrInitTimers
  <2>4. CASE MgrSetFlag
    BY <2>4 DEF MgrSetFlag
  <2>5. CASE MgrSetFails
    BY <2>5 DEF MgrSetFails
  <2>6. CASE MgrUnbind
    BY <2>6 DEF MgrUnbind
  <2>7. CASE MgrUnbindFails
    BY <2>7 DEF MgrUnbindFails
  <2> QED
    BY <1>6, <2>1, <2>2, <2>3, <2>4, <2>5, <2>6, <2>7 DEF MgrSteps
<1>7. ASSUME NEW t \in Tasks, StrayLoses(t) PROVE PeriodInv'
  BY <1>7 DEF StrayLoses
<1>8. ASSUME NEW t \in Tasks, StrayFound(t) PROVE PeriodInv'
  BY <1>8 DEF StrayFound
<1>9. CASE UNCHANGED vars
  BY <1>9 DEF vars
<1> QED
  BY <1>1, <1>2, <1>3, <1>4, <1>5, <1>6, <1>7, <1>8, <1>9 DEF Next

(* As long as cancel_reserve does not fail half-way and no call            *)
(* initialises a timer in use (a revision, or another try after a          *)
(* set_reserve that failed), the period timer of every reservation stays   *)
(* alive, through cancellations, failing calls and exits.                  *)
THEOREM PeriodTimerNeverDies ==
  ASSUME "cancelFails" \notin Ops, "revise" \notin Ops, "retry" \notin Ops
  PROVE  Spec => []PeriodTimerAlive
<1>1. PeriodInv => PeriodTimerAlive
  BY DEF PeriodInv
<1> QED
  BY TypeInit, TypeNext, IdleInit, IdleNext, PeriodInit, PeriodNext, <1>1, PTL DEF Spec

-----------------------------------------------------------------------------
(* Budget accounting of the tasks whose timers are both on their CPU, so   *)
(* that the callbacks exclude each other: nothing changes acc between the  *)
(* read and the test, nor between the reset and the resumption.  A task    *)
(* that is not reserved has not been charged, wherever its timers are; if  *)
(* it has not inherited a charge either, no overrun escapes.               *)
BudgetInv ==
    /\ mgr.op # "cancel" /\ mgr.pc # "unbind"
    /\ SuspendJustified
    /\ Inherited = {0} => OverrunSuspended
    /\ \A t \in Tasks :
          /\ ctimer[t] \/ ccb[t] # "none" => flag[t]
          /\ Inherited = {0} /\ ~flag[t] => acc[t] = 0
    /\ \A t \in Local : pcb[t] = "lock" => acc[t] = 0 /\ ccb[t] = "none"

LEMMA BudgetInit == Init => BudgetInv
<1> SUFFICES ASSUME Init PROVE BudgetInv
  OBVIOUS
<1>1. \A t \in Tasks : C[t] \in Nat /\ ccb[t] = "none" /\ pcb[t] = "none"
  BY TypeInit DEF Init, TypeOK
<1>2. Inherited = {0} => \A t \in Tasks : acc[t] = 0
  BY DEF Init
<1> QED
  BY <1>1, <1>2 DEF Init, BudgetInv, SuspendJustified, JustifiedFor, Local, OverrunSuspended, Idle

LEMMA BudgetNext ==
  ASSUME "cancel" \notin Ops, "revise" \notin Ops
  PROVE  TypeOK /\ IdleInv /\ BudgetInv /\ [Next]_vars => BudgetInv'
<1> SUFFICES ASSUME TypeOK, IdleInv, BudgetInv, [Next]_vars PROVE BudgetInv'
  OBVIOUS
<1> USE DEF IdleInv, TimersIdle, CTimerInUse, PTimerInUse
<1> USE DEF TypeOK, BudgetInv, SuspendJustified, JustifiedFor, Local, OverrunSuspended,
           IrqFree, OutOfBudget, Idle, MgrCalls, MgrAt, taskVars, schedVars, cVars, pVars, runVars
<1>1. ASSUME NEW t \in Tasks, Callbacks(t) PROVE BudgetInv'
  <2>1. CASE CTimerFire(t)
    BY <2>1 DEF CTimerFire
  <2>2. CASE CTimerAdd(t)
    BY <2>2 DEF CTimerAdd
  <2>3. CASE CTimerSuspend(t)
    BY <2>3 DEF CTimerSuspend, SuspendTask
  <2>4. CASE PTimerFire(t)
    BY <2>4 DEF PTimerFire, ResetAcc
  <2>5. CASE PTimerResume(t)
    BY <2>5 DEF PTimerResume, RestartPTimer, WakeUp
  <2> QED
    BY ONLY <1>1, <2>1, <2>2, <2>3, <2>4, <2>5 DEF Callbacks
<1>2. ASSUME NEW t \in Tasks, Scheduling(t) PROVE BudgetInv'
  <2>1. ASSUME NEW next \in Tasks \cup {Other}, NEW pa \in BOOLEAN, Schedule(t, next, pa)
        PROVE  BudgetInv'
    BY <2>1 DEF Schedule, SwapOutTimer
  <2>2. CASE ScheduleOther(t)
    BY <2>2 DEF ScheduleOther
  <2>3. CASE FinishSwitch(t)
    BY <2>3 DEF FinishSwitch
  <2> QED
    BY ONLY <1>2, <2>1, <2>2, <2>3 DEF Scheduling
<1>3. ASSUME NEW t \in Tasks, TaskSteps(t) PROVE BudgetInv'
  <2>1. CASE EndJob(t)
    BY <2>1 DEF EndJob, EndJobSuspend, InUser
  <2>2. CASE WaitEnter(t)
    BY <2>2 DEF WaitEnter, InUser
  <2>3. CASE WaitEvent(t)
    BY <2>3 DEF WaitEvent, WakeUp
  <2>4. CASE WaitReturn(t)
    BY <2>4 DEF WaitReturn
  <2>5. CASE ExitStopC(t)
    BY <2>5 DEF ExitStopC, InUser
  <2>6. CASE ExitStopP(t)
    BY <2>6 DEF ExitStopP
  <2>7. CASE ExitDead(t)
    BY <2>7 DEF ExitDead
  <2> QED
    BY ONLY <1>3, <2>1, <2>2, <2>3, <2>4, <2>5, <2>6, <2>7 DEF TaskSteps
<1>4. ASSUME NEW t \in Tasks, CancelBegin(t) PROVE BudgetInv'
  BY <1>4 DEF CancelBegin
<1>5. ASSUME NEW t \in Tasks, NEW c \in Budgets, SetParams(t, c) PROVE BudgetInv'
  BY <1>5 DEF SetParams, SetOp
<1>6. CASE MgrSteps
  <2>1. CASE MgrCancelC
    BY <2>1 DEF MgrCancelC
  <2>2. CASE MgrCancelP
    BY <2>2 DEF MgrCancelP
  <2>3. CASE MgrInitTimers
    BY <2>3 DEF MgrInitTimers
  <2>4. CASE MgrSetFlag
    BY <2>4 DEF MgrSetFlag
  <2>5. CASE MgrSetFails
    BY <2>5 DEF MgrSetFails
  <2>6. CASE MgrUnbind
    BY <2>6 DEF MgrUnbind
  <2>7. CASE MgrUnbindFails
    BY <2>7 DEF MgrUnbindFails
  <2> QED
    BY <1>6, <2>1, <2>2, <2>3, <2>4, <2>5, <2>6, <2>7 DEF MgrSteps
<1>7. ASSUME NEW t \in Tasks, StrayLoses(t) PROVE BudgetInv'
  BY <1>7 DEF StrayLoses
<1>8. ASSUME NEW t \in Tasks, StrayFound(t) PROVE BudgetInv'
  BY <1>8 DEF StrayFound
<1>9. CASE UNCHANGED vars
  BY <1>9 DEF vars
<1> QED
  BY <1>1, <1>2, <1>3, <1>4, <1>5, <1>6, <1>7, <1>8, <1>9 DEF Next

(* A task whose period timer is on its own CPU is suspended for its budget *)
(* only when it has overrun it in the running period, whatever timers of   *)
(* other tasks run on other CPUs (reserve.c:128-152).                      *)
THEOREM SuspensionsJustified ==
  ASSUME "cancel" \notin Ops, "revise" \notin Ops, "retry" \notin Ops
  PROVE  Spec => []SuspendJustified
<1>1. BudgetInv => SuspendJustified
  BY DEF BudgetInv
<1> QED
  BY TypeInit, TypeNext, IdleInit, IdleNext, BudgetInit, BudgetNext, <1>1, PTL DEF Spec

(* And every overrun leads to it: once the callbacks of such a task are    *)
(* done, a charge above the limit has suspended the task, provided no task *)
(* starts with the charge of the task that forked it.                      *)
THEOREM OverrunsEnforced ==
  ASSUME "cancel" \notin Ops, "revise" \notin Ops, "retry" \notin Ops, Inherited = {0}
  PROVE  Spec => []OverrunSuspended
<1>1. BudgetInv => OverrunSuspended
  BY DEF BudgetInv
<1> QED
  BY TypeInit, TypeNext, IdleInit, IdleNext, BudgetInit, BudgetNext, <1>1, PTL DEF Spec

-----------------------------------------------------------------------------
(* Why a suspended task does not go on in user mode: it is not RUNNING, so *)
(* that the next schedule() takes it off the run queue, and until then     *)
(* NEED_RESCHED stands between it and its user code.  Without wait loops   *)
(* only the period timer makes it RUNNING again.                           *)
StayInv ==
    /\ curr \in Tasks => onrq[curr]
    /\ \A t \in Tasks :
          /\ kpc[t] # "wait" /\ ~waker[t]
          /\ suspend[t] => state[t] # "RUNNING"
          /\ suspend[t] /\ onrq[t] /\ kpc[t] = "user" => need[t]

LEMMA StayInit == Init => StayInv
  BY EnforcementAssumption DEF Init, StayInv

LEMMA StayNext ==
  ASSUME "wait" \notin Ops
  PROVE  TypeOK /\ StayInv /\ [Next]_vars => StayInv'
<1> SUFFICES ASSUME TypeOK, StayInv, [Next]_vars PROVE StayInv'
  OBVIOUS
<1> USE DEF TypeOK, StayInv, Idle, MgrCalls, MgrAt, taskVars, schedVars, cVars, pVars, runVars
<1>1. ASSUME NEW t \in Tasks, Callbacks(t) PROVE StayInv'
  <2>1. CASE CTimerFire(t)
    BY <2>1 DEF CTimerFire
  <2>2. CASE CTimerAdd(t)
    BY <2>2 DEF CTimerAdd
  <2>3. CASE CTimerSuspend(t)
    BY <2>3 DEF CTimerSuspend, SuspendTask
  <2>4. CASE PTimerFire(t)
    BY <2>4 DEF PTimerFire, ResetAcc
  <2>5. CASE PTimerResume(t)
    BY <2>5 DEF PTimerResume, RestartPTimer, WakeUp
  <2> QED
    BY ONLY <1>1, <2>1, <2>2, <2>3, <2>4, <2>5 DEF Callbacks
<1>2. ASSUME NEW t \in Tasks, Scheduling(t) PROVE StayInv'
  <2>1. ASSUME NEW next \in Tasks \cup {Other}, NEW pa \in BOOLEAN, Schedule(t, next, pa)
        PROVE  StayInv'
    BY <2>1 DEF Schedule, SwapOutTimer
  <2>2. CASE ScheduleOther(t)
    BY <2>2 DEF ScheduleOther
  <2>3. CASE FinishSwitch(t)
    BY <2>3 DEF FinishSwitch
  <2> QED
    BY ONLY <1>2, <2>1, <2>2, <2>3 DEF Scheduling
<1>3. ASSUME NEW t \in Tasks, TaskSteps(t) PROVE StayInv'
  <2>1. CASE EndJob(t)
    BY <2>1 DEF EndJob, EndJobSuspend, InUser
  <2>2. CASE WaitEnter(t)
    BY <2>2 DEF WaitEnter, InUser
  <2>3. CASE WaitEvent(t)
    BY <2>3 DEF WaitEvent, WakeUp
  <2>4. CASE WaitReturn(t)
    BY <2>4 DEF WaitReturn
  <2>5. CASE ExitStopC(t)
    BY <2>5 DEF ExitStopC, InUser
  <2>6. CASE ExitStopP(t)
    BY <2>6 DEF ExitStopP
  <2>7. CASE ExitDead(t)
    BY <2>7, EnforcementAssumption DEF ExitDead
  <2> QED
    BY ONLY <1>3, <2>1, <2>2, <2>3, <2>4, <2>5, <2>6, <2>7 DEF TaskSteps
<1>4. ASSUME NEW t \in Tasks, CancelBegin(t) PROVE StayInv'
  BY <1>4 DEF CancelBegin
<1>5. ASSUME NEW t \in Tasks, NEW c \in Budgets, SetParams(t, c) PROVE StayInv'
  BY <1>5 DEF SetParams
<1>6. CASE MgrSteps
  <2>1. CASE MgrCancelC
    BY <2>1 DEF MgrCancelC
  <2>2. CASE MgrCancelP
    BY <2>2 DEF MgrCancelP
  <2>3. CASE MgrInitTimers
    BY <2>3 DEF MgrInitTimers
  <2>4. CASE MgrSetFlag
    BY <2>4 DEF MgrSetFlag
  <2>5. CASE MgrSetFails
    BY <2>5 DEF MgrSetFails
  <2>6. CASE MgrUnbind
    BY <2>6 DEF MgrUnbind
  <2>7. CASE MgrUnbindFails
    BY <2>7 DEF MgrUnbindFails
  <2> QED
    BY <1>6, <2>1, <2>2, <2>3, <2>4, <2>5, <2>6, <2>7 DEF MgrSteps
<1>7. ASSUME NEW t \in Tasks, StrayLoses(t) PROVE StayInv'
  BY <1>7 DEF StrayLoses
<1>8. ASSUME NEW t \in Tasks, StrayFound(t) PROVE StayInv'
  BY <1>8 DEF StrayFound
<1>9. CASE UNCHANGED vars
  BY <1>9 DEF vars
<1> QED
  BY <1>1, <1>2, <1>3, <1>4, <1>5, <1>6, <1>7, <1>8, <1>9 DEF Next

(* A suspended task executes no user code before its next period, through  *)
(* all calls and exits, even if timers are lost or expire unasked for;     *)
(* only budgets that end inside another system call are left out.          *)
THEOREM SuspendedOffCpu ==
  ASSUME "wait" \notin Ops
  PROVE  Spec => []SuspendedStaysOff
<1>1. StayInv => SuspendedStaysOff
  BY DEF StayInv, SuspendedStaysOff, InUser
<1> QED
  BY TypeInit, TypeNext, StayInit, StayNext, <1>1, PTL DEF Spec

-----------------------------------------------------------------------------
(* Who put a task to sleep: its state tells the reserve from an event of   *)
(* its own.  A new reservation clears suspend (SetParams), which must not  *)
(* happen to a task that sleeps; as long as nothing is cancelled suspended *)
(* tasks are reserved and are not given a new reservation.                 *)
MarkInv ==
    /\ \A t \in Tasks :
          /\ ~onrq[t] => state[t] # "RUNNING"
          /\ state[t] = "UNINTERRUPTIBLE" => suspend[t] \/ kpc[t] = "dead"
          /\ state[t] = "INTERRUPTIBLE" => waker[t] \/ kpc[t] = "dead"
          /\ state[t] = "DEAD" => kpc[t] = "dead"
    /\ "cancel" \notin Ops =>
          /\ mgr.op # "cancel" /\ mgr.pc # "unbind"
          /\ \A t \in Tasks :
                suspend[t] \/ ctimer[t] \/ ccb[t] # "none" \/ <<"c", t>> \in stray => flag[t]

LEMMA MarkInit == Init => MarkInv
  BY EnforcementAssumption DEF Init, MarkInv, Idle

LEMMA MarkNext ==
  ASSUME Ops \cap {"set", "retry"} = {} \/ "cancel" \notin Ops
  PROVE  TypeOK /\ MarkInv /\ [Next]_vars => MarkInv'
<1> SUFFICES ASSUME TypeOK, MarkInv, [Next]_vars PROVE MarkInv'
  OBVIOUS
<1> USE DEF TypeOK, MarkInv, Idle, MgrCalls, MgrAt, taskVars, schedVars, cVars, pVars, runVars
<1>1. ASSUME NEW t \in Tasks, Callbacks(t) PROVE MarkInv'
  <2>1. CASE CTimerFire(t)
    BY <2>1 DEF CTimerFire
  <2>2. CASE CTimerAdd(t)
    BY <2>2 DEF CTimerAdd
  <2>3. CASE CTimerSuspend(t)
    BY <2>3 DEF CTimerSuspend, SuspendTask
  <2>4. CASE PTimerFire(t)
    BY <2>4 DEF PTimerFire, ResetAcc
  <2>5. CASE PTimerResume(t)
    BY <2>5 DEF PTimerResume, RestartPTimer, WakeUp
  <2> QED
    BY ONLY <1>1, <2>1, <2>2, <2>3, <2>4, <2>5 DEF Callbacks
<1>2. ASSUME NEW t \in Tasks, Scheduling(t) PROVE MarkInv'
  <2>1. ASSUME NEW next \in Tasks \cup {Other}, NEW pa \in BOOLEAN, Schedule(t, next, pa)
        PROVE  MarkInv'
    BY <2>1 DEF Schedule, SwapOutTimer
  <2>2. CASE ScheduleOther(t)
    BY <2>2 DEF ScheduleOther
  <2>3. CASE FinishSwitch(t)
    BY <2>3 DEF FinishSwitch
  <2> QED
    BY ONLY <1>2, <2>1, <2>2, <2>3 DEF Scheduling
<1>3. ASSUME NEW t \in Tasks, TaskSteps(t) PROVE MarkInv'
  <2>1. CASE EndJob(t)
    BY <2>1 DEF EndJob, EndJobSuspend, InUser
  <2>2. CASE WaitEnter(t)
    BY <2>2 DEF WaitEnter, InUser
  <2>3. CASE WaitEvent(t)
    BY <2>3 DEF WaitEvent, WakeUp
  <2>4. CASE WaitReturn(t)
    BY <2>4 DEF WaitReturn
  <2>5. CASE ExitStopC(t)
    BY <2>5 DEF ExitStopC, InUser
  <2>6. CASE ExitStopP(t)
    BY <2>6 DEF ExitStopP
  <2>7. CASE ExitDead(t)
    BY <2>7 DEF ExitDead
  <2> QED
    BY ONLY <1>3, <2>1, <2>2, <2>3, <2>4, <2>5, <2>6, <2>7 DEF TaskSteps
<1>4. ASSUME NEW t \in Tasks, CancelBegin(t) PROVE MarkInv'
  BY <1>4 DEF CancelBegin
<1>5. ASSUME NEW t \in Tasks, NEW c \in Budgets, SetParams(t, c) PROVE MarkInv'
  <2>1. flag[t] \/ "cancel" \notin Ops
    BY <1>5 DEF SetParams, SetOp
  <2>2. suspend' = suspend
    <3>1. flag[t] \/ ~suspend[t]
      BY <2>1
    <3> QED
      BY <1>5, <3>1 DEF SetParams
  <2>3. "cancel" \notin Ops => mgr'.op # "cancel" /\ mgr'.pc # "unbind"
    BY <1>5 DEF SetParams
  <2> QED
    BY <1>5, <2>2, <2>3 DEF SetParams
<1>6. CASE MgrSteps
  <2>1. CASE MgrCancelC
    BY <2>1 DEF MgrCancelC
  <2>2. CASE MgrCancelP
    BY <2>2 DEF MgrCancelP
  <2>3. CASE MgrInitTimers
    BY <2>3 DEF MgrInitTimers, CTimerInUse
  <2>4. CASE MgrSetFlag
    BY <2>4 DEF MgrSetFlag
  <2>5. CASE MgrSetFails
    BY <2>5 DEF MgrSetFails
  <2>6. CASE MgrUnbind
    BY <2>6 DEF MgrUnbind
  <2>7. CASE MgrUnbindFails
    BY <2>7 DEF MgrUnbindFails
  <2> QED
    BY <1>6, <2>1, <2>2, <2>3, <2>4, <2>5, <2>6, <2>7 DEF MgrSteps
<1>7. ASSUME NEW t \in Tasks, StrayLoses(t) PROVE MarkInv'
  BY <1>7 DEF StrayLoses
<1>8. ASSUME NEW t \in Tasks, StrayFound(t) PROVE MarkInv'
  BY <1>8 DEF StrayFound
<1>9. CASE UNCHANGED vars
  BY <1>9 DEF vars
<1> QED
  BY <1>1, <1>2, <1>3, <1>4, <1>5, <1>6, <1>7, <1>8, <1>9 DEF Next

(* A task off the run queue is marked as suspended or waits for an event   *)
(* of its own, unless it is dead, whatever calls fail and even in a        *)
(* damaged timer queue, as long as a task whose reservation was cancelled  *)
(* is not reserved again.                                                  *)
THEOREM SleepersMarked ==
  ASSUME Ops \cap {"set", "retry"} = {} \/ "cancel" \notin Ops
  PROVE  Spec => []SleepMarked
<1>1. TypeOK /\ MarkInv => SleepMarked
  BY DEF TypeOK, MarkInv, SleepMarked
<1> QED
  BY TypeInit, TypeNext, MarkInit, MarkNext, <1>1, PTL DEF Spec
=============================================================================
