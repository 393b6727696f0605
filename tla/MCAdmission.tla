----------------------------- MODULE MCAdmission -----------------------------
EXTENDS Admission

CONSTANTS t1, t2, t3

Ask(t, C, T, cpuid) == [t |-> t, C |-> C, T |-> T, cpuid |-> cpuid]

\* Three tasks on CPU 1, which comes and goes: as they are revised, they pass
\* the utilization bound test, pass only the response time test, or fail it.
\* One of them may also be on CPU 0.
OneCPU ==
    {Ask(t1, C, 4, 1) : C \in {1, 2}} \cup {Ask(t1, 1, 4, 0)}
    \cup {Ask(t2, C, 6, 1) : C \in {1, 2, 3}}
    \cup {Ask(t3, 4, 12, 1)}

\* Two tasks that leave the choice of the CPU to the policy and fit on one;
\* one of them may also ask for more on CPU 0, where the other does not fit
\* beside it.
AnyCPU == {Ask(t1, 2, 4, -1), Ask(t2, 1, 6, -1), Ask(t2, 3, 6, 0)}

\* The requests of the two runs satisfy what the theorems of AdmissionProofs
\* assume of them; those of AnyCPU are placed by all policies.
ASSUME RunPremises ==
    /\ Requests \in {OneCPU, AnyCPU} => NoTiny /\ BoundSound /\ NoWrap
    /\ Requests = OneCPU => AllCPUs

\* A task revised to a CPU other than its own, in front of another one.
Moving == {Ask(t1, 1, 4, 0), Ask(t1, 1, 4, 1), Ask(t2, 3, 6, 0)}

\* The task leaves CPU 2 empty while the policy places it.
LastOnCPU2 == {Ask(t1, 4, 5, 2), Ask(t1, 1, 3, -1)}

\* 0.4142 + 0.414298 of the CPU: above 2 * (sqrt(2) - 1), not above 8285 / 10000.
NearTheBound == {Ask(t1, 4142, 10000, 0), Ask(t2, 5859, 14142, 0)}

\* 1 * 10000 / 20000 is 0.
TinyTask == {Ask(t1, 1, 20000, 1)}

\* 100000 * 43000 is above 2^32.
LargeTask == {Ask(t1, 43000, 59000, 0)}
===============================================================================
