------------------------------ MODULE Admission ------------------------------
(***************************************************************************)
(* Admission and placement of reservations: the books that rtes/kernel/    *)
(* reserve.c keeps for each CPU (cpu_tasks, cpu_tasks_length, cpu_util,    *)
(* cpu_open), the admission test try_bind, the partition policies, and     *)
(* what set_reserve, cancel_reserve and do_exit do to the books, to the    *)
(* CPUs that are online and to the frequency they run at.                  *)
(*                                                                         *)
(* A call is one step: the callers (the "reserve" tool) are taken to run   *)
(* one after another.  The timers are the subject of module Enforcement.   *)
(***************************************************************************)
EXTENDS Sysclock, Sequences

CONSTANTS
    Tasks,
    NoTask,     \* the NULL of an unused slot of cpu_tasks
    Leaders,    \* the tasks that lead their thread group
    Online0,    \* the CPUs that are online at first
    Requests,   \* the set_reserve calls: [t, C, T, cpuid], C and T in milliseconds
    Mortal,     \* the tasks that exit
    Policies,   \* the partition policies written to sysfs
    TASK_SCHEDULING_LENGTH,
    AnyRevise,  \* FALSE: a revision names the task's own CPU, or the task
                \* is the last one of its CPU's row
    Faults      \* what may fail: "up", "down" (CPU hotplug), "affinity"
                \* (sched_setaffinity), "files" and "energy" (the sysfs files
                \* of a new and of a revised reservation)

ASSUME AdmissionAssumption ==
    /\ NoTask \notin Tasks
    /\ Leaders \subseteq Tasks /\ Mortal \subseteq Tasks
    /\ Online0 \subseteq CPUs /\ 0 \in Online0
    /\ Requests \subseteq [t : Tasks, C : Nat \ {0}, T : Nat \ {0}, cpuid : -1 .. 3]
    /\ Policies \subseteq {"FFD", "NFD", "BFD", "WFD", "LST"}
    /\ TASK_SCHEDULING_LENGTH \in Nat \ {0}
    /\ AnyRevise \in BOOLEAN
    /\ Faults \subseteq {"up", "down", "affinity", "files", "energy"}

VARIABLES
    cpu_tasks,         \* the rows, slots past their length keep old pointers
    cpu_tasks_length,
    cpu_util,
    cpu_open,
    reserve,           \* of each task: flag, cpu, budget, period, util
    alive,             \* the tasks that exist
    online,            \* the CPUs that are online
    freq,              \* cpu_cur_freq of the online CPUs in MHz: they are always
                       \* set together, see UpFreq
    partition_policy,
    lastCpuID          \* the two static variables of set_reserve

bookVars == <<cpu_tasks, cpu_tasks_length, cpu_util, cpu_open, reserve, online>>

vars == <<cpu_tasks, cpu_tasks_length, cpu_util, cpu_open, reserve, alive,
          online, freq, partition_policy, lastCpuID>>

UTIL_MULTIPLE == 10000

Slots == 0 .. TASK_SCHEDULING_LENGTH - 1

Unreserved == [flag |-> FALSE, cpu |-> 0, budget |-> 0, period |-> 0, util |-> 0]

Init ==
    /\ cpu_tasks = [c \in CPUs |-> [i \in Slots |-> NoTask]]
    /\ cpu_tasks_length = [c \in CPUs |-> 0]
    /\ cpu_util = [c \in CPUs |-> 0]
    /\ cpu_open = [c \in CPUs |-> FALSE]
    /\ reserve = [t \in Tasks |-> Unreserved]
    /\ alive = Tasks
    /\ online = Online0
    /\ freq = SYSCLOCK_MAX_FREQ
    /\ partition_policy = "NFD"
    /\ lastCpuID = [create |-> 0, revise |-> 0]

-------------------------------------------------------------------------------
(***************************************************************************)
(* The books as one value: what a call computes with before it returns.    *)
(***************************************************************************)
Books == [tasks |-> cpu_tasks, length |-> cpu_tasks_length, util |-> cpu_util,
          reserve |-> reserve]

Live(b, c) == 0 .. b.length[c] - 1

\* The reserve structure of the task in slot i of a row.
At(b, c, i) == b.reserve[b.tasks[c][i]]

\* (Mutant) The last entry stays where it is.
ShiftedShort(row, length, pos) ==
    [i \in Slots |-> IF pos <= i /\ i < length - 2 THEN row[i + 1] ELSE row[i]]

\* Drop the entry at pos, the ones behind it move up.
Shifted(row, length, pos) ==
    [i \in Slots |-> IF pos <= i /\ i <= length - 2 THEN row[i + 1] ELSE row[i]]

(***************************************************************************)
(* Take t out of the books of CPU c: the loops look for t in the given     *)
(* row, which set_reserve takes from the new CPU, not from c.  The row -1  *)
(* is memory before cpu_tasks, where t is not found.                       *)
(***************************************************************************)
Unbook(b, t, row, c, util) ==
    LET n == b.length[c]
        pos == Min({n} \cup {i \in 0 .. n - 1 : b.tasks[row][i] = t})
        tasks == IF row \in CPUs
                 THEN [b.tasks EXCEPT ![row] = Shifted(b.tasks[row], n, pos)]
                 ELSE b.tasks
    IN  [b EXCEPT !.tasks = tasks, !.length[c] = @ - 1, !.util[c] = @ - util]

\* Sort t into its row by period, behind the tasks with the same period.
InsertPos(b, t, c) ==
    Max({0} \cup {i \in 1 .. b.length[c] : At(b, c, i - 1).period <= b.reserve[t].period})

Insert(b, t, c) ==
    LET pos == InsertPos(b, t, c)
        row == b.tasks[c]
        grown == [i \in Slots |-> CASE i = pos -> t
                                    [] pos < i /\ i <= b.length[c] -> row[i - 1]
                                    [] OTHER -> row[i]]
    IN  [b EXCEPT !.tasks[c] = grown, !.length[c] = @ + 1,
                  !.util[c] = @ + b.reserve[t].util]

\* util_bound[n], or UTIL_BOUND_INF beyond UTIL_BOUND_MAX.
UtilBound(n) ==
    LET bound == <<10000, 8285, 7798, 7569, 7435, 7348, 7287, 7241, 7206, 7178,
                   7155, 7136, 7120, 7106, 7095, 7084, 7075, 7067, 7060, 7053>>
    IN  CASE n = 0 -> 0
          [] n \in 1 .. 20 -> bound[n]
          [] OTHER -> 6932

\* The longest prefix of the row that passes the utilization bound test.
UBPrefix(b, c) ==
    LET n == b.length[c]
        rest(i) == SumFunction([k \in i .. n - 1 |-> At(b, c, k).util])
    IN  Max({0} \cup {i \in 0 .. n : b.util[c] - rest(i) <= UtilBound(i)})

(***************************************************************************)
(* Where the iteration of step from 0 stops: at a fixed point, or past T,  *)
(* for which T + 1 stands.                                                 *)
(***************************************************************************)
Response(step, T) ==
    LET response[r \in 0 .. T] ==
            IF step[r] = r THEN r
            ELSE IF step[r] > T THEN T + 1 ELSE response[step[r]]
    IN  response[0]

\* (Mutant) The job that has begun is not counted.
PassesRTFloor(b, c, j) ==
    LET T == At(b, c, j).period
        urgent(r) == SumFunction([k \in 0 .. j - 1 |->
                        (r \div At(b, c, k).period) * At(b, c, k).budget])
        step == [r \in 0 .. T |-> At(b, c, j).budget + urgent(r)]
    IN  Response(step, T) <= T

\* The response time test of the task in slot j: its own budget and what the
\* tasks in the slots before it ask for until then.
PassesRT(b, c, j) ==
    LET T == At(b, c, j).period
        urgent(r) == SumFunction([k \in 0 .. j - 1 |->
                        Demand(At(b, c, k).budget, At(b, c, k).period, r)])
        step == [r \in 0 .. T |-> At(b, c, j).budget + urgent(r)]
    IN  Response(step, T) <= T

\* (Mutant) Only the utilization bound test.
TryBindUBOnly(b, t, c) ==
    LET bound == Insert(b, t, c)
    IN  IF \/ b.length[c] = TASK_SCHEDULING_LENGTH
           \/ b.reserve[t].util + b.util[c] > UTIL_MULTIPLE
           \/ UBPrefix(bound, c) # bound.length[c]
        THEN [ok |-> FALSE, b |-> b, cpu |-> c]
        ELSE [ok |-> TRUE, b |-> bound, cpu |-> c]

\* try_bind: the books with t on CPU c if it passes, else without it.
TryBind(b, t, c) ==
    LET bound == Insert(b, t, c)
        n == bound.length[c]
        undone == [b EXCEPT !.tasks[c] = Shifted(bound.tasks[c], n, InsertPos(b, t, c))]
    IN  IF \/ b.length[c] = TASK_SCHEDULING_LENGTH
           \/ b.reserve[t].util + b.util[c] > UTIL_MULTIPLE
        THEN [ok |-> FALSE, b |-> b, cpu |-> c]
        ELSE IF \A j \in UBPrefix(bound, c) .. n - 1 : PassesRT(bound, c, j)
        THEN [ok |-> TRUE, b |-> bound, cpu |-> c]
        ELSE [ok |-> FALSE, b |-> undone, cpu |-> c]

-------------------------------------------------------------------------------
(***************************************************************************)
(* sortCPU: CPUs by utilization.  maxID and minID are the first CPU with   *)
(* the largest and the smallest one; of the others, a is the first and b   *)
(* the last.                                                               *)
(***************************************************************************)
sortCPU(util, ascending) ==
    LET maxID == Min({c \in CPUs : \A d \in CPUs : util[d] <= util[c]})
        minID == Min({c \in CPUs : \A d \in CPUs : util[c] <= util[d]})
        a == Min(CPUs \ {maxID, minID})
        b == Max(CPUs \ {maxID, minID})
        sedMax == IF util[a] > util[b] THEN a ELSE b
        sedMin == IF util[a] > util[b] THEN b ELSE a
    IN  IF ascending THEN <<minID, sedMin, sedMax, maxID>>
                     ELSE <<maxID, sedMax, sedMin, minID>>

\* The order in which a policy looks at the CPUs, last is NFD's lastCpuID.
Order(util, last) ==
    CASE partition_policy = "FFD" -> <<0, 1, 2, 3>>
      [] partition_policy = "NFD" -> [k \in 1 .. 4 |-> (last + k - 1) % 4]
      [] partition_policy = "BFD" -> sortCPU(util, FALSE)
      [] OTHER -> sortCPU(util, TRUE)

\* (Mutant) Every policy tries the closed bins too.
TriesAll(c) == TRUE

\* The bins that the loop of a policy tries as it meets them.
Tries(c) == cpu_open[c] \/ partition_policy = "LST"

\* One turn of the loop, after one that took t nothing is tried.
Turn(r, t, c) == IF r.ok \/ ~Tries(c) THEN r ELSE TryBind(r.b, t, c)

\* The loop over the four CPUs, then the first closed bin, if it passed one.
Search(b, t, order) ==
    LET none == [ok |-> FALSE, b |-> b, cpu |-> -1]
        half == Turn(Turn(none, t, order[1]), t, order[2])
        r == Turn(Turn(half, t, order[3]), t, order[4])
        closed == {k \in 1 .. 4 : ~Tries(order[k])}
    IN  IF r.ok \/ closed = {} THEN r ELSE TryBind(r.b, t, order[Min(closed)])

Kind(t) == IF reserve[t].flag THEN "revise" ELSE "create"

\* (Mutant) The new utilization is subtracted.
PlacingNewUtil(rq) ==
    LET old == reserve[rq.t]
        util == (rq.C * UTIL_MULTIPLE) \div rq.T
        b == [Books EXCEPT !.reserve[rq.t] =
                [@ EXCEPT !.budget = rq.C, !.period = rq.T, !.util = util]]
    IN  IF old.flag THEN Unbook(b, rq.t, rq.cpuid, old.cpu, util) ELSE b

\* The books when set_reserve begins to place t: the new parameters are
\* stored, and a task that is revised has left its CPU's books.
Placing(rq) ==
    LET old == reserve[rq.t]
        b == [Books EXCEPT !.reserve[rq.t] =
                [@ EXCEPT !.budget = rq.C, !.period = rq.T,
                          !.util = (rq.C * UTIL_MULTIPLE) \div rq.T]]
    IN  IF old.flag THEN Unbook(b, rq.t, rq.cpuid, old.cpu, old.util) ELSE b

Place(rq) ==
    LET b == Placing(rq)
    IN  IF rq.cpuid = -1
        THEN Search(b, rq.t, Order(b.util, lastCpuID[Kind(rq.t)]))
        ELSE TryBind(b, rq.t, rq.cpuid)

\* Next fit stays at the bin that took the task, or at the one it opened.
NextFit(rq) ==
    IF rq.cpuid = -1 /\ partition_policy = "NFD" /\ (Place(rq).ok \/ \E c \in CPUs : ~cpu_open[c])
    THEN [lastCpuID EXCEPT ![Kind(rq.t)] = Place(rq).cpu]
    ELSE lastCpuID

\* (Mutant) Only the parameters are restored.
PutBackParameters(b, t) ==
    IF reserve[t].flag THEN [b EXCEPT !.reserve[t] = reserve[t]] ELSE b

\* A revision that fails puts the task back on its CPU with the old
\* parameters; whether that succeeds is not looked at.
PutBack(b, t) ==
    IF reserve[t].flag
    THEN TryBind([b EXCEPT !.reserve[t] = reserve[t]], t, reserve[t].cpu).b
    ELSE b

Keep(b) ==
    /\ cpu_tasks' = b.tasks
    /\ cpu_tasks_length' = b.length
    /\ cpu_util' = b.util
    /\ reserve' = b.reserve

-------------------------------------------------------------------------------
\* The requests that are made, see AnyRevise.
Calls(rq) ==
    /\ rq.t \in alive
    /\ LET old == reserve[rq.t]
       IN  ~AnyRevise /\ old.flag =>
            \/ rq.cpuid = old.cpu
            \/ cpu_tasks[old.cpu][cpu_tasks_length[old.cpu] - 1] = rq.t

\* set_reserve finds no CPU.
SetRejected(rq) ==
    /\ Calls(rq)
    /\ ~Place(rq).ok
    /\ Keep(PutBack(Place(rq).b, rq.t))
    /\ lastCpuID' = NextFit(rq)
    /\ UNCHANGED <<cpu_open, alive, online, freq, partition_policy>>

(***************************************************************************)
(* cpu_up: the governor starts on the new CPU, and as all online CPUs run  *)
(* it, it sets the frequency of all of them.                               *)
(***************************************************************************)
Up(c) == online \cup {c}

UpFreq(c) == IF c \in online THEN freq ELSE sysclock_compute(reserve, Leaders \cap alive)

(***************************************************************************)
(* sched_setaffinity fails, as it does when the CPU could not be brought   *)
(* up: the task is unbound again.                                          *)
(***************************************************************************)
SetUnbound(rq) ==
    LET p == Place(rq)
        c == p.cpu
        b == Unbook(p.b, rq.t, c, c, p.b.reserve[rq.t].util)
    IN  /\ Calls(rq)
        /\ p.ok
        /\ \/ "up" \in Faults /\ c \notin online /\ UNCHANGED <<online, freq>>
           \/ "affinity" \in Faults /\ online' = Up(c) /\ freq' = UpFreq(c)
        /\ Keep(PutBack(b, rq.t))
        /\ lastCpuID' = NextFit(rq)
        /\ UNCHANGED <<cpu_open, alive, partition_policy>>

\* (Mutant) The bins are left as they were.
ReopenNever(util) == cpu_open

\* The bins of all CPUs are opened and closed by their utilization, and the
\* closed CPUs are taken down, save CPU 0.
Reopen(util) == [c \in CPUs |-> util[c] # 0]

ClosedCPUs(open) == {c \in CPUs : ~open[c]} \ {0}

\* cpu_down of the CPUs in S, some of which may refuse.
Down(on, S) ==
    \E stay \in (IF "down" \in Faults THEN SUBSET (S \cap on) ELSE {{}}) :
        online' = (on \ S) \cup stay

\* The task is bound and its reservation begins.
SetReserved(rq) ==
    LET p == Place(rq)
        open == Reopen(p.b.util)
        res == [p.b.reserve EXCEPT ![rq.t].cpu = p.cpu, ![rq.t].flag = TRUE]
    IN  /\ Calls(rq)
        /\ p.ok
        /\ Keep([p.b EXCEPT !.reserve = res])
        /\ cpu_open' = open
        /\ Down(Up(p.cpu), ClosedCPUs(open))
        /\ freq' = sysclock_compute(res, Leaders \cap alive)
        /\ lastCpuID' = NextFit(rq)
        /\ UNCHANGED <<alive, partition_policy>>

\* A file or its memory cannot be had: set_reserve returns before it sets
\* the flag and the frequency, and leaves the rest as it is.  When a
\* reservation is revised, only its energy file may be new.
SetNoFiles(rq) ==
    LET p == Place(rq)
        open == Reopen(p.b.util)
    IN  /\ (IF reserve[rq.t].flag THEN "energy" ELSE "files") \in Faults
        /\ Calls(rq)
        /\ p.ok
        /\ Keep([p.b EXCEPT !.reserve[rq.t].cpu = p.cpu])
        /\ cpu_open' = open
        /\ Down(Up(p.cpu), ClosedCPUs(open))
        /\ freq' = UpFreq(p.cpu)
        /\ lastCpuID' = NextFit(rq)
        /\ UNCHANGED <<alive, partition_policy>>

(***************************************************************************)
(* What cancel_reserve and do_exit have in common: the task leaves the     *)
(* books of its CPU, whose bin is closed when it has become empty.  res is *)
(* the reserve structures afterwards.                                      *)
(***************************************************************************)
Release(t, res) ==
    LET c == reserve[t].cpu
        b == Unbook(Books, t, c, c, reserve[t].util)
        open == [cpu_open EXCEPT ![c] = @ /\ b.util[c] # 0]
    IN  /\ Keep([b EXCEPT !.reserve = res])
        /\ cpu_open' = open
        /\ Down(online, {c} \cap ClosedCPUs(open))

\* cancel_reserve.  The frequency is set whether or not there was a
\* reservation.  (If sched_setaffinity fails it returns with the books as
\* they were.)
CancelReserve(t) ==
    LET res == [reserve EXCEPT ![t].flag = FALSE]
    IN  /\ t \in alive
        /\ IF reserve[t].flag THEN Release(t, res) ELSE UNCHANGED bookVars
        /\ freq' = sysclock_compute(res, Leaders \cap alive)
        /\ UNCHANGED <<alive, partition_policy, lastCpuID>>

\* do_exit: the frequency is left as it is, as is the flag of the task that
\* is gone.
Exit(t) ==
    /\ t \in alive \cap Mortal
    /\ alive' = alive \ {t}
    /\ IF reserve[t].flag THEN Release(t, reserve) ELSE UNCHANGED bookVars
    /\ UNCHANGED <<freq, partition_policy, lastCpuID>>

\* A new process in the place of a dead one, copied from its parent without
\* the flag.  The other fields of a task without the flag are not read before
\* set_reserve assigns them, so the copy does not tell parents apart.
Fork(t) ==
    /\ t \notin alive
    /\ alive' = alive \cup {t}
    /\ reserve' = [reserve EXCEPT ![t] = Unreserved]
    /\ UNCHANGED <<cpu_tasks, cpu_tasks_length, cpu_util, cpu_open, online, freq,
                   partition_policy, lastCpuID>>

\* A policy is written to sysfs while no CPU has a reserved task.
StorePolicy(policy) ==
    /\ \A c \in CPUs : cpu_tasks_length[c] = 0
    /\ partition_policy' = policy
    /\ UNCHANGED <<bookVars, alive, freq, lastCpuID>>

Next ==
    \/ \E rq \in Requests :
        SetRejected(rq) \/ SetUnbound(rq) \/ SetReserved(rq) \/ SetNoFiles(rq)
    \/ \E t \in Tasks : CancelReserve(t) \/ Exit(t) \/ Fork(t)
    \/ \E policy \in Policies : StorePolicy(policy)

Spec == Init /\ [][Next]_vars
-------------------------------------------------------------------------------
Reserved(c) == {t \in alive : reserve[t].flag /\ reserve[t].cpu = c}

\* Types and bounds: no row grows past its array and no cpu_util leaves
\* 0 .. 100% ("total utilization won't exceed 100%", reserve.c:298).
TypeOK ==
    /\ cpu_tasks \in [CPUs -> [Slots -> Tasks \cup {NoTask}]]
    /\ cpu_tasks_length \in [CPUs -> 0 .. TASK_SCHEDULING_LENGTH]
    /\ cpu_util \in [CPUs -> 0 .. UTIL_MULTIPLE]
    /\ cpu_open \in [CPUs -> BOOLEAN]
    /\ reserve \in [Tasks -> [flag : BOOLEAN, cpu : CPUs, budget : Nat, period : Nat, util : Nat]]
    /\ alive \subseteq Tasks
    /\ online \subseteq CPUs
    /\ freq \in 0 .. SYSCLOCK_MAX_FREQ
    /\ partition_policy \in Policies \cup {"NFD"}
    /\ lastCpuID \in [create : CPUs, revise : CPUs]

(***************************************************************************)
(* cpu_util of a CPU is the sum over the tasks reserved on it, through     *)
(* creations, revisions that fail half way and are undone, cancellations   *)
(* and exits (reserve.c:314-356, 487, 606-611, 767-786, 963; exit.c:952).  *)
(* A sum that is too large would make the utilization bound loop of        *)
(* try_bind run past the start of the row (reserve.c:321).                 *)
(***************************************************************************)
BooksBalance ==
    \A c \in CPUs : cpu_util[c] = SumFunction([t \in Reserved(c) |-> reserve[t].util])

(***************************************************************************)
(* The first cpu_tasks_length slots of a row hold the tasks reserved on    *)
(* that CPU, each once, by increasing period: no call loses a task,        *)
(* duplicates it or leaves the pointer of a dead one (reserve.c:303-313,   *)
(* 476-486, 951-962; exit.c:940-951).                                      *)
(***************************************************************************)
RowsExact ==
    \A c \in CPUs :
        LET row == cpu_tasks[c]
            live == Live(Books, c)
        IN  /\ {row[i] : i \in live} = Reserved(c)
            /\ \A i, j \in live : i < j => row[i] # row[j]
            /\ \A i, j \in live : i < j => reserve[row[i]].period <= reserve[row[j]].period

(***************************************************************************)
(* The reference for the tests of try_bind and sysclock_compute, at f of   *)
(* SYSCLOCK_MAX_FREQ: each task of S has an instant up to its deadline by  *)
(* which the CPU has done its work and the work of every task with no      *)
(* longer a period, all released together.                                 *)
(***************************************************************************)
MeetsDeadlines(res, S, f) ==
    \A j \in S :
        LET urgent == {k \in S : res[k].period <= res[j].period}
            work(p) == SumFunction([k \in urgent |-> Demand(res[k].budget, res[k].period, p)])
        IN  \E p \in 1 .. res[j].period : SYSCLOCK_MAX_FREQ * work(p) <= p * f

\* Whatever was admitted, revised, cancelled and undone before, the tasks
\* reserved on a CPU meet their deadlines on it: try_bind tests the newcomer
\* and the tasks below it, from where the utilization bound test stopped
\* (reserve.c:318-361).
Schedulable ==
    \A c \in CPUs : MeetsDeadlines(reserve, Reserved(c), SYSCLOCK_MAX_FREQ)

\* Would CPU c carry the request besides the tasks it has?
Fits(rq, c) ==
    LET S == (Reserved(c) \ {rq.t}) \cup {rq.t}
        res == [reserve EXCEPT ![rq.t].budget = rq.C, ![rq.t].period = rq.T]
    IN  /\ Cardinality(S) <= TASK_SCHEDULING_LENGTH
        /\ MeetsDeadlines(res, S, SYSCLOCK_MAX_FREQ)

\* set_reserve turns a request away only if no CPU that it may use can carry
\* it: neither test of try_bind nor the order of the policies hides a CPU
\* (reserve.c:318-361, 365-414, 621-734).
RejectsOnlyMisfits ==
    \A rq \in Requests :
        Calls(rq) /\ ~Place(rq).ok =>
            \A c \in CPUs : rq.cpuid \in {-1, c} => ~Fits(rq, c)

\* The policy opens a bin for the request although an open one can carry it.
OpensNeedlessly(rq) ==
    LET p == Place(rq)
    IN  /\ Calls(rq)
        /\ rq.cpuid = -1
        /\ partition_policy # "LST"
        /\ p.ok
        /\ ~cpu_open[p.cpu]
        /\ \E c \in CPUs : cpu_open[c] /\ Fits(rq, c)

\* "WFD opens a new CPU only when the current used CPUs cannot accommodate
\* the new coming task", and so do FFD, NFD and BFD (reserve.c:623-718).
OpensOnlyWhenNeeded ==
    \A rq \in Requests : ~reserve[rq.t].flag => ~OpensNeedlessly(rq)

\* The same for a task that is revised: the bin it was in is still open
\* (reserve.c:490-588).
ReviseOpensOnlyWhenNeeded ==
    \A rq \in Requests : reserve[rq.t].flag => ~OpensNeedlessly(rq)

\* A CPU with a reserved task is never taken down: the bins are closed and
\* the CPUs taken down by cpu_util (reserve.c:795-815, 965-975; exit.c:954-963).
ReservedOnline ==
    \A c \in CPUs : Reserved(c) # {} => c \in online

(***************************************************************************)
(* The frequency asked of every CPU with reserved tasks is, up to the      *)
(* truncation to whole MHz (sysclock.c:100, 126), one at which they meet   *)
(* their deadlines, also while CPUs come and go and after a task exits,    *)
(* which does not set the frequency anew (sysclock.c:52-113).              *)
(***************************************************************************)
FreqCovers ==
    \A c \in CPUs :
        MeetsDeadlines(reserve, Reserved(c), Min({SYSCLOCK_MAX_FREQ, freq + 2}))

-------------------------------------------------------------------------------
(***************************************************************************)
(* What the theorems about every set of tasks and requests assume of them. *)
(* TLC evaluates these of the requests of its runs (module MCAdmission).   *)
(***************************************************************************)

\* A revision names the task's own CPU or the task is the last one of its
\* row, and the files of a new reservation can be made.
Careful == ~AnyRevise /\ "files" \notin Faults

\* The requests are for 1/10000 of a CPU at least.
NoTiny == \A rq \in Requests : rq.T <= rq.C * UTIL_MULTIPLE

\* The requests that name no CPU are placed by first fit or next fit.
AllCPUs == (\E rq \in Requests : rq.cpuid = -1) => Policies \subseteq {"FFD", "NFD"}

\* What tasks may have asked for, each in one request.
Kits == UNION {{kit \in [S -> Requests] : \A t \in S : kit[t].t = t} : S \in SUBSET Tasks}

KitReserve(kit) == [t \in DOMAIN kit |-> [budget |-> kit[t].C, period |-> kit[t].T]]

KitUtil(kit) == SumFunction([t \in DOMAIN kit |-> (kit[t].C * UTIL_MULTIPLE) \div kit[t].T])

KitDemand(kit, p) == SumFunction([t \in DOMAIN kit |-> Demand(kit[t].C, kit[t].T, p)])

\* The utilization bounds, which are rounded as the utilizations are, are
\* sufficient for the tasks that may be reserved (reserve.c:21-38).
BoundSound ==
    \A kit \in Kits :
        KitUtil(kit) <= UtilBound(Cardinality(DOMAIN kit)) =>
            MeetsDeadlines(KitReserve(kit), DOMAIN kit, SYSCLOCK_MAX_FREQ)

\* The work that sysclock_compute scales is less than 2^32 / SCALE_FACTOR: the
\* product in ScaleOf does not wrap (sysclock.c:100).
Unwrapped(c) == 3125 * c < 134217728

NoWrap ==
    \A kit \in Kits : \A j \in DOMAIN kit : \A p \in 1 .. kit[j].T :
        Unwrapped(KitDemand(kit, p))

\* Every task leads its thread group, and no revision fails at its files.
AllClocked == Leaders = Tasks /\ "energy" \notin Faults
===============================================================================
