----------------------------- MODULE Reservation -----------------------------
(***************************************************************************)
(* What a reservation promises, without timers, callbacks or a scheduler:  *)
(* a reserved task uses its budget, is suspended when it has used more     *)
(* than its limit or when it has finished its job, executes nothing while  *)
(* it is suspended, and goes on with a full budget in a later period.      *)
(* Module Enforcement implements this for every task whose timers are both *)
(* on the CPU of the task.                                                 *)
(***************************************************************************)
EXTENDS Naturals

CONSTANTS Tasks, Budgets

VARIABLES
    reserved,   \* the tasks with a reservation are reserved
    suspended,  \* may not execute before the next period
    used,       \* increments used in this period
    limit,      \* increments that may be used
    executing   \* the task that executes user code, if any

vars == <<reserved, suspended, used, limit, executing>>

Init ==
    /\ reserved \in [Tasks -> BOOLEAN]
    /\ suspended = [t \in Tasks |-> FALSE]
    /\ used = [t \in Tasks |-> 0]
    /\ limit \in [Tasks -> Budgets]
    /\ executing = {}

(* One task at most executes, and no suspended one.                        *)
Dispatch == executing' \in {{}} \cup {{t} : t \in {s \in Tasks : ~suspended'[s]}}

(* A limit is set before the reservation begins.                           *)
SetLimit(t, c) ==
    /\ ~reserved[t]
    /\ limit' = [limit EXCEPT ![t] = c]
    /\ UNCHANGED <<reserved, suspended, used>>

Reserve(t) ==
    /\ reserved' = [reserved EXCEPT ![t] = TRUE]
    /\ UNCHANGED <<suspended, used, limit>>

(* Time is charged to a reserved task only.                                *)
Charge(t) ==
    /\ reserved[t]
    /\ used' = [used EXCEPT ![t] = @ + 1]
    /\ UNCHANGED <<reserved, suspended, limit>>

(* There are two reasons to suspend a task: more than the limit is used,   *)
Overrun(t) ==
    /\ reserved[t] /\ used[t] > limit[t]
    /\ suspended' = [suspended EXCEPT ![t] = TRUE]
    /\ UNCHANGED <<reserved, used, limit>>

(* or the task says itself that its job is done.                           *)
EndJob(t) ==
    /\ reserved[t] /\ executing = {t}
    /\ suspended' = [suspended EXCEPT ![t] = TRUE]
    /\ UNCHANGED <<reserved, used, limit>>

(* A new period: the budget is full again, ...                             *)
Replenish(t) ==
    /\ used' = [used EXCEPT ![t] = 0]
    /\ UNCHANGED <<reserved, suspended, limit>>

(* ... and a suspended task goes on, with nothing used.                    *)
Resume(t) ==
    /\ suspended[t] /\ used[t] = 0
    /\ suspended' = [suspended EXCEPT ![t] = FALSE]
    /\ UNCHANGED <<reserved, used, limit>>

TaskStep(t) ==
    \/ \E c \in Budgets : SetLimit(t, c)
    \/ Reserve(t) \/ Charge(t) \/ Overrun(t) \/ EndJob(t) \/ Replenish(t) \/ Resume(t)

Next ==
    /\ \/ \E t \in Tasks : TaskStep(t)
       \/ UNCHANGED <<reserved, suspended, used, limit>>
    /\ Dispatch

Spec == Init /\ [][Next]_vars

(* Budgets are filled again and suspensions end.                           *)
Fairness == \A t \in Tasks : WF_used(Replenish(t)) /\ WF_suspended(Resume(t))

FairSpec == Spec /\ Fairness
=============================================================================
