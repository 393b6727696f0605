------------------------------- MODULE Governor -------------------------------
(***************************************************************************)
(* The cpufreq governor "sysclock" (drivers/cpufreq/cpufreq_sysclock.c)    *)
(* and sysclock_set_frequency (rtes/kernel/sysclock.c), with the calls     *)
(* that reach them: users who switch the governor of a CPU, CPUs that come *)
(* and go, and reservations that begin and end (rtes/kernel/reserve.c,     *)
(* kernel/exit.c).                                                         *)
(*                                                                         *)
(* What sysclock_compute returns is the variable demand; module Sysclock   *)
(* computes it.  An actor is a list of steps it has still to take: each    *)
(* one is what the code does under sysclock_mutex or between two uses of   *)
(* shared state.  The core of cpufreq and of CPU hotplug is external.      *)
(***************************************************************************)
EXTENDS Integers, Sequences, FiniteSets

CONSTANTS
    N,        \* number of CPUs (4 in the code)
    Freqs,    \* the frequencies a set of reservations may ask for
    Calls,    \* the calls that happen, of "set", "cancel" and "exit"
    Overlap   \* these calls overlap with each other's steps and with
              \* switches of governors

ASSUME GovernorAssumption ==
    /\ N \in Nat \ {0}
    /\ Calls \subseteq {"set", "cancel", "exit"}
    /\ Overlap \in BOOLEAN

CPUs == 0 .. N - 1

VARIABLES
    online,    \* the CPUs that are online
    governor,  \* the governor of a CPU, kept while it is offline
    cpus_using_sysclock_governor,
    freq,      \* cpu_cur_freq of a CPU
    demand,    \* what sysclock_compute returns now
    todo       \* the steps that the user of a CPU's governor, and the
               \* callers of the system calls, have still to take

vars == <<online, governor, cpus_using_sysclock_governor, freq, demand, todo>>

(* A caller of the system calls, and a second one if calls overlap.        *)
Callers == IF Overlap THEN {-1, -2} ELSE {-1}
Actors == CPUs \cup Callers

Idle(a) == todo[a] = <<>>

(* Every CPU runs another governor after the boot.                         *)
Init ==
    /\ online = CPUs
    /\ governor = [c \in CPUs |-> "other"]
    /\ cpus_using_sysclock_governor = 0
    /\ freq \in [CPUs -> Freqs] /\ demand \in Freqs
    /\ todo = [a \in Actors |-> <<>>]

-------------------------------------------------------------------------------
Step(do, c) == [do |-> do, cpu |-> c, f |-> 0]

(* CPUFREQ_GOV_START and CPUFREQ_GOV_STOP of the governor.                 *)
Start(c) == <<Step("inc", c), Step("compare", c)>>
Stop(c) == <<Step("dec", c)>>

(* sysclock_set_frequency: the CPUs one after another.                     *)
SetFrequency == [i \in 1 .. N |-> Step("look", i - 1)]

(* CPUFREQ_GOV_START sets the frequency when all online CPUs have started. *)
AllSetBefore == cpus_using_sysclock_governor + 1 = Cardinality(online)
AllSet == cpus_using_sysclock_governor = Cardinality(online)

DecrementedNever == cpus_using_sysclock_governor
Decremented == cpus_using_sysclock_governor - 1

Doing(a, do) == ~Idle(a) /\ Head(todo[a]).do = do
Cpu(a) == Head(todo[a]).cpu
Then(a, first) == todo' = [todo EXCEPT ![a] = first \o Tail(@)]

-------------------------------------------------------------------------------
(* The steps of the governor.                                              *)

(* START is refused for a CPU that is not online; as hotplug and switches  *)
(* exclude each other, that never comes: it would be a deadlock here.      *)
Inc(a) ==
    /\ Doing(a, "inc")
    /\ Cpu(a) \in online
    /\ cpus_using_sysclock_governor' = cpus_using_sysclock_governor + 1
    /\ Then(a, <<>>)
    /\ UNCHANGED <<online, governor, freq, demand>>

Compare(a) ==
    /\ Doing(a, "compare")
    /\ Then(a, IF AllSet THEN SetFrequency ELSE <<>>)
    /\ UNCHANGED <<online, governor, cpus_using_sysclock_governor, freq, demand>>

Dec(a) ==
    /\ Doing(a, "dec")
    /\ cpus_using_sysclock_governor' = Decremented
    /\ Then(a, <<>>)
    /\ UNCHANGED <<online, governor, freq, demand>>

(* sysclock_set_frequency skips a CPU that is offline or has another       *)
(* governor, and computes the frequency; cpufreq_set sets it.              *)
Look(a) ==
    /\ Doing(a, "look")
    /\ Then(a, IF Cpu(a) \in online /\ governor[Cpu(a)] = "sysclock"
               THEN <<[Step("store", Cpu(a)) EXCEPT !.f = demand]>>
               ELSE <<>>)
    /\ UNCHANGED <<online, governor, cpus_using_sysclock_governor, freq, demand>>

Store(a) ==
    /\ Doing(a, "store")
    /\ freq' = [freq EXCEPT ![Cpu(a)] = Head(todo[a]).f]
    /\ Then(a, <<>>)
    /\ UNCHANGED <<online, governor, cpus_using_sysclock_governor, demand>>

-------------------------------------------------------------------------------
(* The steps of cpufreq and of CPU hotplug.                                *)

(* Another governor sets the frequency as it likes.                        *)
Assign(a) ==
    /\ Doing(a, "sysclock") \/ Doing(a, "other")
    /\ governor' = [governor EXCEPT ![Cpu(a)] = Head(todo[a]).do]
    /\ IF Doing(a, "other")
       THEN \E f \in Freqs : freq' = [freq EXCEPT ![Cpu(a)] = f]
       ELSE UNCHANGED freq
    /\ Then(a, <<>>)
    /\ UNCHANGED <<online, cpus_using_sysclock_governor, demand>>

(* Hotplug is serialised, and a CPU has no policy to switch meanwhile.     *)
Hotplugging(a, c) ==
    \E i \in DOMAIN todo[a] : todo[a][i].cpu = c /\ todo[a][i].do \in {"inc", "compare", "dec", "dead"}

HotplugFree(a) == \A b \in Callers \ {a}, c \in CPUs : ~Hotplugging(b, c)

(* cpu_up: online, then CPUFREQ_GOV_START.                                 *)
Up(a) ==
    /\ Doing(a, "up") /\ HotplugFree(a) /\ Cpu(a) \notin online
    /\ online' = online \cup {Cpu(a)}
    /\ \E f \in Freqs : freq' = [freq EXCEPT ![Cpu(a)] = f]
    /\ Then(a, IF governor[Cpu(a)] = "sysclock" THEN Start(Cpu(a)) ELSE <<>>)
    /\ UNCHANGED <<governor, cpus_using_sysclock_governor, demand>>

(* cpu_down: CPUFREQ_GOV_STOP, then offline.                               *)
Prepare(a) ==
    /\ Doing(a, "down") /\ HotplugFree(a) /\ Cpu(a) \in online /\ Idle(Cpu(a))
    /\ Then(a, (IF governor[Cpu(a)] = "sysclock" THEN Stop(Cpu(a)) ELSE <<>>)
                  \o <<Step("dead", Cpu(a))>>)
    /\ UNCHANGED <<online, governor, cpus_using_sysclock_governor, freq, demand>>

(* Nothing is done for a CPU that another caller has brought up or down.   *)
HotplugDone(a) ==
    /\ ~Idle(a) /\ HotplugFree(a)
    /\ Head(todo[a]).do \in {"up", "down"}
    /\ Doing(a, "up") <=> Cpu(a) \in online
    /\ Then(a, <<>>)
    /\ UNCHANGED <<online, governor, cpus_using_sysclock_governor, freq, demand>>

Dead(a) ==
    /\ Doing(a, "dead")
    /\ online' = online \ {Cpu(a)}
    /\ Then(a, <<>>)
    /\ UNCHANGED <<governor, cpus_using_sysclock_governor, freq, demand>>

-------------------------------------------------------------------------------
(* A user writes scaling_governor of a CPU; cpufreq holds the CPU's policy *)
(* until the switch is over.                                               *)
Switch(c) ==
    /\ Idle(c) /\ c \in online
    /\ Overlap \/ \A a \in Callers : Idle(a)
    /\ \A a \in Callers : ~Hotplugging(a, c)
    /\ todo' = [todo EXCEPT ![c] =
          IF governor[c] = "sysclock" THEN Stop(c) \o <<Step("other", c)>>
                                      ELSE <<Step("sysclock", c)>> \o Start(c)]
    /\ UNCHANGED <<online, governor, cpus_using_sysclock_governor, freq, demand>>

(* A reservation begins or ends: its CPU comes online, others that are not *)
(* needed (never CPU 0) are taken down, and the demand changes.  do_exit   *)
(* does not set the frequency.                                             *)
Call(a, op, up, down, f) ==
    /\ Idle(a)
    /\ Overlap \/ \A b \in Actors : Idle(b)
    /\ down \subseteq (online \ {0}) \ up
    /\ op # "set" => up = {}
    /\ LET Each(do, S) == IF S = {} THEN <<>> ELSE <<Step(do, CHOOSE c \in S : TRUE)>>
       IN  todo' = [todo EXCEPT ![a] =
              Each("up", up) \o Each("down", down) \o <<[Step("demand", 0) EXCEPT !.f = f]>>
                 \o IF op = "exit" THEN <<>> ELSE SetFrequency]
    /\ UNCHANGED <<online, governor, cpus_using_sysclock_governor, freq, demand>>

(* The flag of the reservation changes.                                    *)
Demand(a) ==
    /\ Doing(a, "demand")
    /\ demand' = Head(todo[a]).f
    /\ Then(a, <<>>)
    /\ UNCHANGED <<online, governor, cpus_using_sysclock_governor, freq>>

-------------------------------------------------------------------------------
AtMostOne(S) == {{}} \cup {{c} : c \in S}

Next ==
    \/ \E c \in CPUs : Switch(c)
    \/ \E a \in Callers, op \in Calls, up, down \in AtMostOne(CPUs), f \in Freqs :
          Call(a, op, up, down, f)
    \/ \E a \in Actors :
          \/ Inc(a) \/ Compare(a) \/ Dec(a) \/ Look(a) \/ Store(a)
          \/ Assign(a) \/ Up(a) \/ Prepare(a) \/ Dead(a) \/ HotplugDone(a) \/ Demand(a)

Spec == Init /\ [][Next]_vars
-------------------------------------------------------------------------------
(* Types.                                                                  *)
TypeOK ==
    /\ online \subseteq CPUs
    /\ governor \in [CPUs -> {"sysclock", "other"}]
    /\ cpus_using_sysclock_governor \in 0 .. N
    /\ freq \in [CPUs -> Freqs] /\ demand \in Freqs
    /\ todo \in [Actors -> Seq([do : {"inc", "compare", "dec", "look", "store", "sysclock",
                                      "other", "up", "down", "dead", "demand"},
                                cpu : CPUs, f : Freqs \cup {0}])]

Quiescent == \A a \in Actors : Idle(a)

Using == {c \in online : governor[c] = "sysclock"}

(* When nothing is under way the count of the governor is the number of    *)
(* online CPUs that use it, however its starts and stops have interleaved  *)
(* (cpufreq_sysclock.c:93-98, 108-110).                                    *)
CountExact == Quiescent => cpus_using_sysclock_governor = Cardinality(Using)

(* When nothing is under way and all online CPUs use the governor, each of *)
(* them has the frequency the reservations ask for now: whichever CPU      *)
(* switched last, and whichever came online, has seen to it                *)
(* (cpufreq_sysclock.c:100-103, "when all online cpu is with sysclock, set *)
(* freq onece"; sysclock.c:136-160).                                       *)
FreqCurrent ==
    Quiescent /\ Using = online => \A c \in online : freq[c] = demand
===============================================================================
