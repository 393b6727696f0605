-------------------------- MODULE ReservationProofs --------------------------
(***************************************************************************)
(* Budget enforcement implements a reservation: every step of module       *)
(* Enforcement is a step of module Reservation, for any number of tasks    *)
(* and any budgets, while reservations are made and tasks exit.  The calls *)
(* left out are those the abstract reservation has no word for: a task     *)
(* that is cancelled, revised or tried again, and one that sleeps for its  *)
(* own reasons; no task starts with the charge of its parent.              *)
(***************************************************************************)
EXTENDS EnforcementProofs

(* What the two callbacks of a task leave to each other: a sum is written  *)
(* back before anything else changes acc, only reserved tasks are          *)
(* suspended, and a call under way is a first set_reserve of a task.       *)
RefInv ==
    /\ \A t \in Tasks : suspend[t] => flag[t]
    /\ \A t \in Local : ccb[t] = "add" => cread[t] = acc[t]
    /\ mgr.pc # "idle" => mgr.pc \in {"init", "setFlag"} /\ mgr.op = "set"

(* The calls of a task that is reserved once and lives with it.            *)
OnlyReserved == Ops \cap {"cancel", "revise", "retry", "wait"} = {} /\ Inherited = {0}

LEMMA RefInit == Init => RefInv
  BY DEF Init, RefInv, Idle, Local

LEMMA RefNext ==
  ASSUME OnlyReserved
  PROVE  TypeOK /\ IdleInv /\ BudgetInv /\ RefInv /\ [Next]_vars => RefInv'
<1> SUFFICES ASSUME TypeOK, IdleInv, BudgetInv, RefInv, [Next]_vars PROVE RefInv'
  OBVIOUS
<1> USE DEF OnlyReserved, TypeOK, BudgetInv, RefInv, Local, IrqFree, Idle, MgrCalls, MgrAt,
           taskVars, schedVars, cVars, pVars, runVars
<1>1. ASSUME NEW t \in Tasks, Callbacks(t) PROVE RefInv'
  <2>1. CASE CTimerFire(t)
    BY <2>1 DEF CTimerFire
  <2>2. CASE CTimerAdd(t)
    BY <2>2 DEF CTimerAdd
  <2>3. CASE CTimerSuspend(t)
    BY <2>3 DEF CTimerSuspend, SuspendTask
  <2>4. CASE PTimerFire(t)
    BY <2>4 DEF PTimerFire, ResetAcc
  <2>5. CASE PTimerResume(t)
    BY <2>5 DEF PTimerResume, RestartPTimer, WakeUp
  <2> QED
    BY ONLY <1>1, <2>1, <2>2, <2>3, <2>4, <2>5 DEF Callbacks
<1>2. ASSUME NEW t \in Tasks, Scheduling(t) PROVE RefInv'
  <2>1. ASSUME NEW next \in Tasks \cup {Other}, NEW pa \in BOOLEAN, Schedule(t, next, pa)
        PROVE  RefInv'
    BY <2>1 DEF Schedule, SwapOutTimer
  <2>2. CASE ScheduleOther(t)
    BY <2>2 DEF ScheduleOther
  <2>3. CASE FinishSwitch(t)
    BY <2>3 DEF FinishSwitch
  <2> QED
    BY ONLY <1>2, <2>1, <2>2, <2>3 DEF Scheduling
<1>3. ASSUME NEW t \in Tasks, TaskSteps(t) PROVE RefInv'
  <2>1. CASE EndJob(t)
    BY <2>1 DEF EndJob, EndJobSuspend, InUser
  <2>2. CASE WaitEnter(t)
    BY <2>2 DEF WaitEnter, InUser
  <2>3. CASE WaitEvent(t)
    BY <2>3 DEF WaitEvent, WakeUp
  <2>4. CASE WaitReturn(t)
    BY <2>4 DEF WaitReturn
  <2>5. CASE ExitStopC(t)
    BY <2>5 DEF ExitStopC, InUser
  <2>6. CASE ExitStopP(t)
    BY <2>6 DEF ExitStopP
  <2>7. CASE ExitDead(t)
    BY <2>7, EnforcementAssumption DEF ExitDead
  <2> QED
    BY ONLY <1>3, <2>1, <2>2, <2>3, <2>4, <2>5, <2>6, <2>7 DEF TaskSteps
<1>4. ASSUME NEW t \in Tasks, CancelBegin(t) PROVE RefInv'
  BY <1>4 DEF CancelBegin
<1>5. ASSUME NEW t \in Tasks, NEW c \in Budgets, SetParams(t, c) PROVE RefInv'
  BY <1>5 DEF SetParams, SetOp
<1>6. CASE MgrSteps
  <2>1. CASE MgrCancelC
    BY <2>1 DEF MgrCancelC
  <2>2. CASE MgrCancelP
    BY <2>2 DEF MgrCancelP
  <2>3. CASE MgrInitTimers
    BY <2>3 DEF MgrInitTimers
  <2>4. CASE MgrSetFlag
    BY <2>4 DEF MgrSetFlag
  <2>5. CASE MgrSetFails
    BY <2>5 DEF MgrSetFails
  <2>6. CASE MgrUnbind
    BY <2>6 DEF MgrUnbind
  <2>7. CASE MgrUnbindFails
    BY <2>7 DEF MgrUnbindFails
  <2> QED
    BY <1>6, <2>1, <2>2, <2>3, <2>4, <2>5, <2>6, <2>7 DEF MgrSteps
<1>7. ASSUME NEW t \in Tasks, StrayLoses(t) \/ StrayFound(t) PROVE RefInv'
  BY <1>7 DEF StrayLoses, StrayFound, IdleInv
<1>8. CASE UNCHANGED vars
  BY <1>8 DEF vars
<1> QED
  BY <1>1, <1>2, <1>3, <1>4, <1>5, <1>6, <1>7, <1>8 DEF Next

-----------------------------------------------------------------------------
(* The view of the tasks in L follows a change of one of them.             *)
LEMMA ViewChanges ==
  ASSUME NEW S, NEW L \in SUBSET S, NEW V, NEW f \in [S -> V], NEW t \in L, NEW v
  PROVE  [u \in L |-> [f EXCEPT ![t] = v][u]] = [[u \in L |-> f[u]] EXCEPT ![t] = v]
  OBVIOUS

(* Whoever executes user code is the task on the CPU and is not suspended. *)
LEMMA RefDispatch == TypeOK' /\ StayInv' => R!Dispatch
<1> SUFFICES ASSUME TypeOK', StayInv' PROVE R!Dispatch
  OBVIOUS
<1> DEFINE run == {t \in Local : InUser(t)}
<1>1. run' = {} \/ (run' = {curr'} /\ curr' \in Local)
  BY DEF InUser
<1>2. curr' \in Local /\ suspend'[curr'] => run' = {}
  BY DEF InUser, StayInv, Local
<1>3. curr' \in Local => [t \in Local |-> suspend'[t]][curr'] = suspend'[curr']
  OBVIOUS
<1> QED
  BY <1>1, <1>2, <1>3 DEF R!Dispatch

(* A step that leaves limits, charges, flags and marks alone changes at    *)
(* most who executes.                                                      *)
LEMMA RefStutter ==
  ASSUME UNCHANGED <<flag, suspend, acc, C>>, R!Dispatch
  PROVE  R!Next
  BY DEF R!Next

(* A step that changes them for one task does what the abstract step of    *)
(* this task does, or nothing if its period timer is on another CPU.       *)
LEMMA RefOutside ==
  ASSUME TypeOK, NEW t \in Tasks \ Local, R!Dispatch,
         \A u \in Tasks \ {t} : /\ flag'[u] = flag[u] /\ suspend'[u] = suspend[u]
                               /\ acc'[u] = acc[u] /\ C'[u] = C[u]
  PROVE  R!Next
<1>1. \A u \in Local : /\ flag'[u] = flag[u] /\ suspend'[u] = suspend[u]
                       /\ acc'[u] = acc[u] /\ C'[u] = C[u]
  BY DEF Local
<1> QED
  BY <1>1 DEF R!Next

LEMMA RefStep ==
  ASSUME OnlyReserved
  PROVE  TypeOK /\ BudgetInv /\ RefInv /\ [Next]_vars /\ TypeOK' /\ StayInv' => R!Next
<1> SUFFICES ASSUME TypeOK, BudgetInv, RefInv, [Next]_vars, TypeOK', StayInv' PROVE R!Next
  OBVIOUS
<1>0. R!Dispatch
  BY RefDispatch
<1> USE DEF OnlyReserved, TypeOK, BudgetInv, RefInv, Local, Idle, MgrCalls, MgrAt,
           taskVars, schedVars, cVars, pVars, runVars
<1>1. ASSUME NEW t \in Tasks, Callbacks(t) PROVE R!Next
  <2>1. CASE CTimerFire(t)
    BY <2>1, <1>0, RefStutter DEF CTimerFire
  <2>2. CASE CTimerAdd(t)
    <3>1. CASE t \in Local
      <4>1. acc' = [acc EXCEPT ![t] = acc[t] + 1] /\ flag[t] /\ UNCHANGED <<flag, suspend, C>>
        BY <2>2, <3>1 DEF CTimerAdd
      <4>2. [u \in Local |-> acc'[u]] = [[u \in Local |-> acc[u]] EXCEPT ![t] = acc[t] + 1]
        BY <3>1, <4>1, ViewChanges
      <4>3. R!Charge(t)
        BY <3>1, <4>1, <4>2 DEF R!Charge
      <4> QED
        BY <1>0, <3>1, <4>3 DEF R!Next, R!TaskStep
    <3>2. CASE t \notin Local
      BY <2>2, <3>2, <1>0, RefOutside DEF CTimerAdd
    <3> QED
      BY <3>1, <3>2
  <2>3. CASE CTimerSuspend(t)
    <3>1. CASE t \in Local /\ ~suspend[t]
      <4>1. /\ suspend' = [suspend EXCEPT ![t] = TRUE] /\ flag[t] /\ acc[t] > C[t]
            /\ UNCHANGED <<flag, acc, C>>
        BY <2>3, <3>1 DEF CTimerSuspend, SuspendTask, SuspendJustified, JustifiedFor
      <4>2. [u \in Local |-> suspend'[u]] = [[u \in Local |-> suspend[u]] EXCEPT ![t] = TRUE]
        BY <3>1, <4>1, ViewChanges
      <4>3. R!Overrun(t)
        BY <3>1, <4>1, <4>2 DEF R!Overrun
      <4> QED
        BY <1>0, <3>1, <4>3 DEF R!Next, R!TaskStep
    <3>2. CASE t \notin Local
      BY <2>3, <3>2, <1>0, RefOutside DEF CTimerSuspend, SuspendTask
    <3>3. CASE suspend[t]
      BY <2>3, <3>3, <1>0, RefStutter DEF CTimerSuspend
    <3> QED
      BY <3>1, <3>2, <3>3
  <2>4. CASE PTimerFire(t)
    <3>1. CASE t \in Local
      <4>1. acc' = [acc EXCEPT ![t] = 0] /\ UNCHANGED <<flag, suspend, C>>
        BY <2>4 DEF PTimerFire, ResetAcc
      <4>2. [u \in Local |-> acc'[u]] = [[u \in Local |-> acc[u]] EXCEPT ![t] = 0]
        BY <3>1, <4>1, ViewChanges
      <4>3. R!Replenish(t)
        BY <3>1, <4>1, <4>2 DEF R!Replenish
      <4> QED
        BY <1>0, <3>1, <4>3 DEF R!Next, R!TaskStep
    <3>2. CASE t \notin Local
      BY <2>4, <3>2, <1>0, RefOutside DEF PTimerFire, ResetAcc
    <3> QED
      BY <3>1, <3>2
  <2>5. CASE PTimerResume(t)
    <3>1. CASE t \in Local /\ suspend[t]
      <4>1. /\ suspend' = [suspend EXCEPT ![t] = FALSE] /\ acc[t] = 0
            /\ UNCHANGED <<flag, acc, C>>
        BY <2>5, <3>1 DEF PTimerResume
      <4>2. [u \in Local |-> suspend'[u]] = [[u \in Local |-> suspend[u]] EXCEPT ![t] = FALSE]
        BY <3>1, <4>1, ViewChanges
      <4>3. R!Resume(t)
        BY <3>1, <4>1, <4>2 DEF R!Resume
      <4> QED
        BY <1>0, <3>1, <4>3 DEF R!Next, R!TaskStep
    <3>2. CASE t \notin Local
      BY <2>5, <3>2, <1>0, RefOutside DEF PTimerResume
    <3>3. CASE ~suspend[t]
      BY <2>5, <3>3, <1>0, RefStutter DEF PTimerResume
    <3> QED
      BY <3>1, <3>2, <3>3
  <2> QED
    BY ONLY <1>1, <2>1, <2>2, <2>3, <2>4, <2>5 DEF Callbacks
<1>2. ASSUME NEW t \in Tasks, Scheduling(t) PROVE R!Next
  <2>1. ASSUME NEW next \in Tasks \cup {Other}, NEW pa \in BOOLEAN, Schedule(t, next, pa)
        PROVE  R!Next
    BY <2>1, <1>0, RefStutter DEF Schedule
  <2>2. CASE ScheduleOther(t)
    BY <2>2, <1>0, RefStutter DEF ScheduleOther
  <2>3. CASE FinishSwitch(t)
    BY <2>3, <1>0, RefStutter DEF FinishSwitch
  <2> QED
    BY ONLY <1>2, <2>1, <2>2, <2>3 DEF Scheduling
<1>3. ASSUME NEW t \in Tasks, TaskSteps(t) PROVE R!Next
  <2>1. CASE EndJob(t)
    <3>1. CASE t \in Local /\ ~suspend[t]
      <4>1. {u \in Local : InUser(u)} = {t}
        BY <2>1, <3>1 DEF EndJob, InUser
      <4>2. suspend' = [suspend EXCEPT ![t] = TRUE] /\ flag[t] /\ UNCHANGED <<flag, acc, C>>
        BY <2>1, <3>1 DEF EndJob, EndJobSuspend
      <4>3. [u \in Local |-> suspend'[u]] = [[u \in Local |-> suspend[u]] EXCEPT ![t] = TRUE]
        BY <3>1, <4>2, ViewChanges
      <4>4. R!EndJob(t)
        BY <3>1, <4>1, <4>2, <4>3 DEF R!EndJob
      <4> QED
        BY <1>0, <3>1, <4>4 DEF R!Next, R!TaskStep
    <3>2. CASE t \notin Local
      BY <2>1, <3>2, <1>0, RefOutside DEF EndJob, EndJobSuspend
    <3>3. CASE suspend[t]
      BY <2>1, <3>3, <1>0, RefStutter DEF EndJob
    <3> QED
      BY <3>1, <3>2, <3>3
  <2>2. CASE WaitEnter(t)
    BY <2>2 DEF WaitEnter
  <2>3. CASE WaitEvent(t)
    BY <2>3, <1>0, RefStutter DEF WaitEvent
  <2>4. CASE WaitReturn(t)
    BY <2>4, <1>0, RefStutter DEF WaitReturn
  <2>5. CASE ExitStopC(t)
    BY <2>5, <1>0, RefStutter DEF ExitStopC
  <2>6. CASE ExitStopP(t)
    BY <2>6, <1>0, RefStutter DEF ExitStopP
  <2>7. CASE ExitDead(t)
    BY <2>7, <1>0, RefStutter DEF ExitDead
  <2> QED
    BY ONLY <1>3, <2>1, <2>2, <2>3, <2>4, <2>5, <2>6, <2>7 DEF TaskSteps
<1>4. ASSUME NEW t \in Tasks, CancelBegin(t) PROVE R!Next
  BY <1>4 DEF CancelBegin
<1>5. ASSUME NEW t \in Tasks, NEW c \in Budgets, SetParams(t, c) PROVE R!Next
  <2>1. ~flag[t]
    BY <1>5 DEF SetParams, SetOp
  <2>2. UNCHANGED <<flag, suspend, acc>>
    BY <1>5, <2>1 DEF SetParams
  <2>3. CASE t \in Local
    <3>1. C' = [C EXCEPT ![t] = c]
      BY <1>5 DEF SetParams
    <3>2. [u \in Local |-> C'[u]] = [[u \in Local |-> C[u]] EXCEPT ![t] = c]
      BY <2>3, <3>1, ViewChanges
    <3>3. R!SetLimit(t, c)
      BY <2>1, <2>2, <2>3, <3>2 DEF R!SetLimit
    <3> QED
      BY <1>0, <2>3, <3>3 DEF R!Next, R!TaskStep
  <2>4. CASE t \notin Local
    BY <1>5, <2>2, <2>4, <1>0, RefOutside DEF SetParams
  <2> QED
    BY <2>3, <2>4
<1>6. CASE MgrSteps
  <2>1. CASE MgrCancelC
    BY <2>1, <1>0, RefStutter DEF MgrCancelC
  <2>2. CASE MgrCancelP
    BY <2>2, <1>0, RefStutter DEF MgrCancelP
  <2>3. CASE MgrInitTimers
    BY <2>3, <1>0, RefStutter DEF MgrInitTimers
  <2>4. CASE MgrSetFlag
    <3>1. mgr.t \in Tasks /\ flag' = [flag EXCEPT ![mgr.t] = TRUE]
      BY <2>4 DEF MgrSetFlag
    <3>2. PICK t \in Tasks : flag' = [flag EXCEPT ![t] = TRUE]
      BY <3>1
    <3>3. UNCHANGED <<suspend, acc, C>>
      BY <2>4 DEF MgrSetFlag
    <3>4. CASE t \in Local
      <4>1. [u \in Local |-> flag'[u]] = [[u \in Local |-> flag[u]] EXCEPT ![t] = TRUE]
        BY <3>2, <3>4, ViewChanges
      <4>2. R!Reserve(t)
        BY <3>3, <3>4, <4>1 DEF R!Reserve
      <4> QED
        BY <1>0, <3>4, <4>2 DEF R!Next, R!TaskStep
    <3>5. CASE t \notin Local
      <4>1. \A u \in Tasks \ {t} : /\ flag'[u] = flag[u] /\ suspend'[u] = suspend[u]
                                  /\ acc'[u] = acc[u] /\ C'[u] = C[u]
        BY <3>2, <3>3
      <4> QED
        BY <3>5, <4>1, <1>0, RefOutside
    <3> QED
      BY <3>4, <3>5
  <2>5. CASE MgrSetFails
    BY <2>5, <1>0, RefStutter DEF MgrSetFails
  <2>6. CASE MgrUnbind
    BY <2>6 DEF MgrUnbind
  <2>7. CASE MgrUnbindFails
    BY <2>7, <1>0, RefStutter DEF MgrUnbindFails
  <2> QED
    BY <1>6, <2>1, <2>2, <2>3, <2>4, <2>5, <2>6, <2>7 DEF MgrSteps
<1>7. ASSUME NEW t \in Tasks, StrayLoses(t) \/ StrayFound(t) PROVE R!Next
  BY <1>7, <1>0, RefStutter DEF StrayLoses, StrayFound
<1>8. CASE UNCHANGED vars
  BY <1>8, <1>0, RefStutter DEF vars
<1> QED
  BY <1>1, <1>2, <1>3, <1>4, <1>5, <1>6, <1>7, <1>8 DEF Next

(* The initial states are those of a reservation.                          *)
LEMMA RefInitial ==
  ASSUME Inherited = {0}
  PROVE  Init => R!Init
<1> SUFFICES ASSUME Init PROVE R!Init
  OBVIOUS
<1>0. \A t \in Tasks : acc[t] = 0
  BY DEF Init
<1>1. \A t \in Tasks : C[t] \in Budgets
  BY DEF Init
<1>2. \A t \in Tasks : flag[t] \in BOOLEAN
  BY TypeInit DEF TypeOK
<1>3. \A t \in Tasks : ~InUser(t)
  BY EnforcementAssumption DEF Init, InUser
<1> QED
  BY <1>0, <1>1, <1>2, <1>3 DEF Init, R!Init, Local

(* The timers, the scheduler's hooks and the calls together are a          *)
(* reservation: a task whose timers are on its CPU is charged only when it *)
(* is reserved, is suspended only for an overrun or by its own end_job,    *)
(* executes nothing while it is suspended, and is resumed with nothing     *)
(* used (reserve.c:104-283, 1001-1018; sched.c:4327-4372).                 *)
THEOREM ImplementsReservationSafety ==
  ASSUME OnlyReserved
  PROVE  Spec => R!Spec
<1>1. /\ "wait" \notin Ops /\ "cancel" \notin Ops
      /\ "revise" \notin Ops /\ "retry" \notin Ops /\ Inherited = {0}
  BY DEF OnlyReserved
<1>2. TypeOK /\ IdleInv /\ [Next]_vars => IdleInv'
  BY <1>1, IdleNext
<1>3. TypeOK /\ IdleInv /\ BudgetInv /\ [Next]_vars => BudgetInv'
  BY <1>1, BudgetNext
<1>4. TypeOK /\ StayInv /\ [Next]_vars => StayInv'
  BY <1>1, StayNext
<1>5. Init => R!Init
  BY <1>1, RefInitial
<1>6. R!Next => [R!Next]_(R!vars)
  OBVIOUS
<1> QED
  BY TypeInit, TypeNext, IdleInit, BudgetInit, StayInit, RefInit, RefNext, RefStep,
     <1>2, <1>3, <1>4, <1>5, <1>6, PTL DEF Spec, R!Spec
=============================================================================
