------------------------------- MODULE Sysclock -------------------------------
(***************************************************************************)
(* The SysClock frequency of a set of reservations, from                   *)
(* rtes/kernel/sysclock.c, and the cpufreq governor that applies it        *)
(* (drivers/cpufreq/cpufreq_sysclock.c).                                   *)
(*                                                                         *)
(* A reservation is a record with its flag, its cpu and, in milliseconds,  *)
(* its budget and period.  sysclock_compute reads reserve.C and reserve.T; *)
(* for a task whose flag is set they are the budget and the period, which  *)
(* set_reserve assigns from the same arguments.                            *)
(***************************************************************************)
EXTENDS Integers, FiniteSetsExt, Functions

CPUs == 0 .. 3

SYSCLOCK_MAX_FREQ == 1200  \* MHz
SCALE_FACTOR == 100000

\* Work released in [0, p) by a task of period T and budget C.
Demand(C, T, p) == ((p + T - 1) \div T) * C

(***************************************************************************)
(* (SCALE_FACTOR * c) / p in the 32-bit unsigned long of the ARM build.    *)
(* SCALE_FACTOR is 2^5 * 3125, so the product mod 2^32 is 2^5 * m, with m  *)
(* mod 2^27 = 134217728; the quotient by p is taken of m first, which      *)
(* keeps every number small.                                               *)
(***************************************************************************)
ScaleOf(c, p) ==
    LET m == (3125 * c) % 134217728
    IN  32 * (m \div p) + (32 * (m % p)) \div p

\* The n * T of one period up to another one.
Multiples(T, end) == {n * T : n \in 1 .. end \div T}

\* (Mutant) The more urgent tasks are left out.
TaskScaleAlone(res, S, i) ==
    Min({SCALE_FACTOR} \cup {ScaleOf(Demand(res[i].budget, res[i].period, p), p) :
                                p \in Multiples(res[i].period, res[i].period)})

(***************************************************************************)
(* The smallest speed at which the task i of S meets its deadline.  The    *)
(* code sorts the entries by period and looks at the ones up to i; of      *)
(* several tasks with i's period the last one sees them all, and its scale *)
(* is the largest.                                                         *)
(***************************************************************************)
TaskScale(res, S, i) ==
    LET upTo == {l \in S : res[l].period <= res[i].period}
        points == UNION {Multiples(res[j].period, res[i].period) : j \in upTo}
        work(p) == SumFunction([l \in upTo |-> Demand(res[l].budget, res[l].period, p)])
    IN  Min({SCALE_FACTOR} \cup {ScaleOf(work(p), p) : p \in points})

\* for_each_process visits the thread group leaders only.
ReservedLeaders(res, leaders, c) == {t \in leaders : res[t].flag /\ res[t].cpu = c}

(***************************************************************************)
(* The largest scale of all CPUs, as a frequency in MHz.  It is what       *)
(* sysclock_set_frequency asks of every online CPU; all CPUs are taken to  *)
(* run the sysclock governor.                                              *)
(***************************************************************************)
sysclock_compute(res, leaders) ==
    LET scales == UNION {{TaskScale(res, S, i) : i \in S} :
                            S \in {ReservedLeaders(res, leaders, c) : c \in CPUs}}
        max_scale == Max({0} \cup scales)
        scale == IF max_scale = 0 THEN SCALE_FACTOR ELSE max_scale
    IN  (scale * SYSCLOCK_MAX_FREQ) \div SCALE_FACTOR
===============================================================================
