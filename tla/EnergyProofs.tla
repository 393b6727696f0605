---------------------------- MODULE EnergyProofs ----------------------------
(***************************************************************************)
(* Proofs about module Energy: no update of total_energy is lost, and no   *)
(* process is charged for more than its own ticks.                         *)
(***************************************************************************)
EXTENDS Energy, TLAPS

(* One process writes to the sysfs files.  A second one could find the     *)
(* lock not initialised, wait, and initialise it while it is held          *)
(* (taskmon.c:175-177, 195-197).                                           *)
OneWriter == \A v, w \in Writers : v = w

(* The lock is initialised before any task can be tracked, and so before   *)
(* any task takes it; nobody initialises it again.                         *)
InitializedInv ==
    /\ energy_tracking => lock_initialized
    /\ \A t \in Tasks :
        /\ tracking[t] => lock_initialized
        /\ pc[t] \in {"lock", "add"} => lock_initialized
    /\ \A w \in Writers :
        /\ wpc[w] = "init" => ~lock_initialized
        /\ wpc[w] = "store" => lock_initialized

(* The task that is about to write the total holds the lock, alone, and    *)
(* what it has read is still the total.                                    *)
HeldInv ==
    /\ \A t \in Tasks : pc[t] = "add" => lock /\ read[t] = total_energy
    /\ \A t, u \in Tasks : pc[t] = "add" /\ pc[u] = "add" => t = u

(* The run counter of a task that may be charged holds ticks of its own    *)
(* that it has not been charged for.                                       *)
Chargeable(t) == flag[t] \/ tracking[t] \/ (setter # NoCall /\ setter.t = t)

EarnedInv ==
    /\ setter # NoCall => setter.t \in alive
    /\ \A t \in Tasks :
        Chargeable(t) /\ pc[t] \in {"on", "off"} =>
            /\ acc_single_run[t] <= ran[t]
            /\ spent[t] <= Increment(Power(1200), ran[t] - acc_single_run[t])
-----------------------------------------------------------------------------
(* What is charged for a run is never negative.                            *)
LEMMA PowerNat ==
  ASSUME NEW f \in Int
  PROVE  Power(f) \in Nat
BY DEF Power

LEMMA ProductNat ==
  ASSUME NEW p \in Nat, NEW q \in Nat
  PROVE  p * q \in Nat
OBVIOUS

LEMMA QuotientNat ==
  ASSUME NEW x \in Nat
  PROVE  x \div 1000 \in Nat
OBVIOUS

LEMMA IncrementNat ==
  ASSUME NEW f \in Freqs \cup {0}, NEW n \in Nat
  PROVE  Increment(Power(f), n) \in Nat
<1>1. Power(f) \in Nat
  BY PowerNat, EnergyAssumption
<1>2. (495 * n) \div 1000 \in Nat
  BY ProductNat, QuotientNat
<1>3. Power(f) * ((495 * n) \div 1000) \in Nat
  BY <1>1, <1>2, ProductNat
<1> QED
  BY <1>3, QuotientNat DEF Increment

-----------------------------------------------------------------------------
(* Types.                                                                  *)

LEMMA TypeInit == Init => TypeOK
<1> SUFFICES ASSUME Init PROVE TypeOK
  OBVIOUS
<1>1. 0 \in 0 .. MaxTicks
  BY EnergyAssumption
<1>2. /\ flag \in [Tasks -> BOOLEAN] /\ tracking \in [Tasks -> BOOLEAN]
      /\ kobj \in [Tasks -> BOOLEAN]
  BY DEF Init
<1>3. /\ energy \in [Tasks -> Nat] /\ acc_single_run \in [Tasks -> Nat]
      /\ pc \in [Tasks -> {"off", "on", "lock", "add"}]
      /\ inc \in [Tasks -> Nat] /\ read \in [Tasks -> Nat]
      /\ wpc \in [Writers -> {"idle", "init", "store"}]
  BY DEF Init
<1>4. alive \subseteq Tasks /\ freq \in Freqs /\ cpu_freq \in Freqs \cup {0}
  BY DEF Init
<1>5. setter \in {NoCall} \cup [at : {"files", "track"}, t : Tasks]
  BY DEF Init
<1>6. ran \in [Tasks -> Nat] /\ spent \in [Tasks -> Nat]
  BY DEF Init
<1>7. ticks \in 0 .. MaxTicks /\ charged \in Int /\ pending \in Int /\ total_energy \in Nat
  BY <1>1 DEF Init
<1> QED
  BY <1>2, <1>3, <1>4, <1>5, <1>6, <1>7 DEF Init, TypeOK

LEMMA ResetRunType ==
  ASSUME TypeOK, NEW t \in Tasks, ResetRun(t)
  PROVE  acc_single_run' \in [Tasks -> Nat]
BY DEF TypeOK, ResetRun

LEMMA StopTrackingType ==
  ASSUME TypeOK, NEW t \in Tasks, StopTracking(t)
  PROVE  /\ kobj' \in [Tasks -> BOOLEAN]
         /\ tracking' \in [Tasks -> BOOLEAN]
BY DEF TypeOK, StopTracking

LEMMA SetterType ==
  ASSUME TypeOK, setter.at \in {"files", "track"}
  PROVE  setter \in [at : {"files", "track"}, t : Tasks]
BY DEF TypeOK, NoCall

LEMMA TypeNext == TypeOK /\ [Next]_vars => TypeOK'
<1> SUFFICES ASSUME TypeOK, [Next]_vars PROVE TypeOK'
  OBVIOUS
<1> USE DEF resVars, schedVars, lockVars, freqVars, histVars
<1>1. ASSUME NEW t \in Tasks, Scheduling(t) PROVE TypeOK'
  <2>1. CASE SwitchIn(t)
    BY <2>1 DEF SwitchIn, TypeOK
  <2>2. CASE Tick(t)
    BY <2>2, EnergyAssumption DEF Tick, TypeOK
  <2>3. CASE SwitchOut(t)
    <3> DEFINE i == Increment(Power(cpu_freq), acc_single_run[t])
    <3>1. i \in Nat
      BY IncrementNat DEF TypeOK
    <3> HIDE DEF i
    <3>2. CASE tracking[t]
      <4>1. /\ pc' = [pc EXCEPT ![t] = "lock"]
            /\ inc' = [inc EXCEPT ![t] = i]
            /\ energy' = [energy EXCEPT ![t] = @ + i]
            /\ charged' = charged + i /\ pending' = pending + i
            /\ spent' = [spent EXCEPT ![t] = @ + i]
            /\ UNCHANGED acc_single_run
            /\ UNCHANGED <<flag, tracking, kobj, alive, read, setter, freqVars, lockVars, ticks, ran>>
        BY <2>3, <3>2 DEF SwitchOut, i
      <4>2. energy' \in [Tasks -> Nat] /\ spent' \in [Tasks -> Nat]
        BY <3>1, <4>1 DEF TypeOK
      <4> QED
        BY <3>1, <4>1, <4>2 DEF TypeOK
    <3>3. CASE ~tracking[t]
      BY <2>3, <3>3, ResetRunType DEF SwitchOut, TypeOK
    <3> QED
      BY <3>2, <3>3
  <2>4. CASE LockTotal(t)
    BY <2>4 DEF LockTotal, Take, TypeOK
  <2>5. CASE AddTotal(t)
    <3>1. acc_single_run' \in [Tasks -> Nat]
      BY <2>5, ResetRunType DEF AddTotal
    <3>2. total_energy' \in Nat /\ pending' \in Int
      BY <2>5 DEF AddTotal, TypeOK
    <3> QED
      BY <2>5, <3>1, <3>2 DEF AddTotal, TypeOK
  <2> QED
    BY <1>1, <2>1, <2>2, <2>3, <2>4, <2>5 DEF Scheduling
<1>2. CASE SetFiles
  BY <1>2, SetterType DEF SetFiles, TypeOK
<1>3. ASSUME NEW f \in Freqs, SetTracking(f) PROVE TypeOK'
  BY <1>3, SetterType DEF SetTracking, TypeOK
<1>4. ASSUME NEW t \in Tasks, SetBegin(t) PROVE TypeOK'
  BY <1>4, ResetRunType DEF SetBegin, TypeOK
<1>5. ASSUME NEW t \in Tasks, Exit(t) PROVE TypeOK'
  BY <1>5, StopTrackingType DEF Exit, TypeOK
<1>6. ASSUME NEW t \in Tasks, PeriodEnd(t) PROVE TypeOK'
  BY <1>6 DEF PeriodEnd, TypeOK
<1>7. ASSUME NEW t \in Tasks, NEW f \in Freqs, CancelReserve(t, f) PROVE TypeOK'
  BY <1>7, StopTrackingType DEF CancelReserve, TypeOK
<1>8. ASSUME NEW p \in Tasks, NEW t \in Tasks, Fork(p, t) PROVE TypeOK'
  BY <1>8 DEF Fork, TypeOK
<1>9. ASSUME NEW w \in Writers, Storing(w) PROVE TypeOK'
  <2>1. CASE StoreBegin(w)
    BY <2>1 DEF StoreBegin, TypeOK
  <2>2. CASE InitLock(w)
    BY <2>2 DEF InitLock, TypeOK
  <2>3. CASE StoreTotal(w)
    BY <2>3 DEF StoreTotal, TypeOK
  <2>4. ASSUME NEW on \in BOOLEAN, StoreTracking(w, on) PROVE TypeOK'
    BY <2>4 DEF StoreTracking, TypeOK
  <2> QED
    BY <1>9, <2>1, <2>2, <2>3, <2>4 DEF Storing
<1>10. CASE UNCHANGED vars
  BY <1>10 DEF vars, TypeOK
<1> QED
  BY <1>1, <1>2, <1>3, <1>4, <1>5, <1>6, <1>7, <1>8, <1>9, <1>10 DEF Next, Calls

-----------------------------------------------------------------------------
(* The lock.                                                               *)

LEMMA InitializedInit == Init => InitializedInv
BY DEF Init, InitializedInv

LEMMA InitializedNext ==
  ASSUME OneWriter
  PROVE  TypeOK /\ InitializedInv /\ [Next]_vars => InitializedInv'
<1> SUFFICES ASSUME TypeOK, InitializedInv, [Next]_vars PROVE InitializedInv'
  OBVIOUS
<1> USE DEF InitializedInv, TypeOK, resVars, schedVars, lockVars, freqVars, histVars
<1>1. ASSUME NEW t \in Tasks, Scheduling(t) PROVE InitializedInv'
  BY <1>1 DEF Scheduling, SwitchIn, Tick, SwitchOut, LockTotal, Take, AddTotal
<1>2. CASE SetFiles
  BY <1>2 DEF SetFiles
<1>3. ASSUME NEW f \in Freqs, SetTracking(f) PROVE InitializedInv'
  BY <1>3, SetterType DEF SetTracking
<1>4. ASSUME NEW t \in Tasks, SetBegin(t) \/ PeriodEnd(t) PROVE InitializedInv'
  BY <1>4 DEF SetBegin, PeriodEnd
<1>5. ASSUME NEW t \in Tasks, Exit(t) PROVE InitializedInv'
  BY <1>5 DEF Exit, StopTracking
<1>6. ASSUME NEW t \in Tasks, NEW f \in Freqs, CancelReserve(t, f) PROVE InitializedInv'
  BY <1>6 DEF CancelReserve, StopTracking
<1>7. ASSUME NEW p \in Tasks, NEW t \in Tasks, Fork(p, t) PROVE InitializedInv'
  BY <1>7 DEF Fork
<1>8. ASSUME NEW w \in Writers, Storing(w) PROVE InitializedInv'
  <2>1. CASE StoreBegin(w)
    BY <2>1 DEF StoreBegin
  <2>2. CASE InitLock(w)
    BY <2>2 DEF InitLock, OneWriter
  <2>3. CASE StoreTotal(w)
    BY <2>3 DEF StoreTotal
  <2>4. ASSUME NEW on \in BOOLEAN, StoreTracking(w, on) PROVE InitializedInv'
    BY <2>4 DEF StoreTracking
  <2> QED
    BY <1>8, <2>1, <2>2, <2>3, <2>4 DEF Storing
<1>9. CASE UNCHANGED vars
  BY <1>9 DEF vars
<1> QED
  BY <1>1, <1>2, <1>3, <1>4, <1>5, <1>6, <1>7, <1>8, <1>9 DEF Next, Calls

LEMMA HeldInit == Init => HeldInv /\ TotalExact
BY DEF Init, HeldInv, TotalExact

LEMMA HeldNext ==
  TypeOK /\ InitializedInv /\ HeldInv /\ TotalExact /\ [Next]_vars => HeldInv' /\ TotalExact'
<1> SUFFICES ASSUME TypeOK, InitializedInv, HeldInv, TotalExact, [Next]_vars
             PROVE  HeldInv' /\ TotalExact'
  OBVIOUS
<1> USE DEF HeldInv, TotalExact, resVars, schedVars, lockVars, freqVars, histVars
<1>1. ASSUME NEW t \in Tasks, Scheduling(t) PROVE HeldInv' /\ TotalExact'
  <2>1. CASE SwitchIn(t)
    BY <2>1 DEF SwitchIn, TypeOK
  <2>2. CASE Tick(t)
    BY <2>2 DEF Tick, TypeOK
  <2>3. CASE SwitchOut(t)
    <3> DEFINE i == Increment(Power(cpu_freq), acc_single_run[t])
    <3>1. i \in Nat
      BY IncrementNat DEF TypeOK
    <3> HIDE DEF i
    <3>2. HeldInv'
      BY <2>3 DEF SwitchOut, TypeOK
    <3>3. TotalExact'
      <4>1. /\ total_energy' = total_energy
            /\ \/ charged' = charged + i /\ pending' = pending + i
               \/ charged' = charged /\ pending' = pending
        BY <2>3 DEF SwitchOut, i
      <4> QED
        BY <3>1, <4>1 DEF TypeOK
    <3> QED
      BY <3>2, <3>3
  <2>4. CASE LockTotal(t)
    BY <2>4 DEF LockTotal, Take, TypeOK
  <2>5. CASE AddTotal(t)
    BY <2>5 DEF AddTotal, TypeOK
  <2> QED
    BY <1>1, <2>1, <2>2, <2>3, <2>4, <2>5 DEF Scheduling
<1>2. CASE Calls
  BY <1>2 DEF Calls, SetFiles, SetTracking, SetBegin, Exit, PeriodEnd, CancelReserve, Fork
<1>3. ASSUME NEW w \in Writers, Storing(w) PROVE HeldInv' /\ TotalExact'
  <2>1. CASE StoreBegin(w)
    BY <2>1 DEF StoreBegin
  <2>2. CASE InitLock(w)
    <3>1. \A t \in Tasks : pc[t] # "add"
      BY <2>2 DEF InitLock, InitializedInv
    <3> QED
      BY <2>2, <3>1 DEF InitLock
  <2>3. CASE StoreTotal(w)
    BY <2>3 DEF StoreTotal, TypeOK
  <2>4. ASSUME NEW on \in BOOLEAN, StoreTracking(w, on) PROVE HeldInv' /\ TotalExact'
    BY <2>4 DEF StoreTracking
  <2> QED
    BY <1>3, <2>1, <2>2, <2>3, <2>4 DEF Storing
<1>4. CASE UNCHANGED vars
  BY <1>4 DEF vars
<1> QED
  BY <1>1, <1>2, <1>3, <1>4 DEF Next

(* Whatever the number of tasks and CPUs, and whichever of them are in     *)
(* __schedule at a reset or at each other's updates, no increment of       *)
(* total_energy is lost or added twice (sched.c:4339-4343,                 *)
(* taskmon.c:194-202), also when tracked tasks fork.                       *)
THEOREM TotalKept ==
  ASSUME OneWriter
  PROVE  Spec => []TotalExact
<1> QED
  BY TypeInit, TypeNext, InitializedInit, InitializedNext, HeldInit, HeldNext, PTL DEF Spec

-----------------------------------------------------------------------------
(* What the ticks cost.                                                    *)

(* Charging two runs apart, at lower powers, costs no more than one.       *)
LEMMA IncrementGrows ==
  ASSUME NEW m \in Nat, NEW n \in Nat, m <= n
  PROVE  Increment(Power(1200), m) <= Increment(Power(1200), n)
BY DEF Increment, Power

LEMMA IncrementSum ==
  ASSUME NEW m \in Nat, NEW n \in Nat
  PROVE  Increment(Power(1200), m) + Increment(Power(1200), n) <= Increment(Power(1200), m + n)
<1>1. Power(1200) = 638994
  BY DEF Power
<1>2. (495 * m) \div 1000 + (495 * n) \div 1000 <= (495 * (m + n)) \div 1000
  OBVIOUS
<1>3. ASSUME NEW x \in Nat, NEW y \in Nat, NEW z \in Nat, x + y <= z
      PROVE  (638994 * x) \div 1000 + (638994 * y) \div 1000 <= (638994 * z) \div 1000
  BY <1>3
<1> QED
  BY <1>1, <1>2, <1>3 DEF Increment

LEMMA CostNat ==
  ASSUME NEW n \in Nat
  PROVE  Increment(Power(1200), n) \in Nat
BY DEF Increment, Power

LEMMA IncrementHighest ==
  ASSUME NEW f \in Freqs \cup {0}, NEW n \in Nat
  PROVE  Increment(Power(f), n) <= Increment(Power(1200), n)
<1>1. f \in {0, 340, 1200}
  BY EnergyAssumption
<1> QED
  BY <1>1 DEF Increment, Power

(* A run of n of the m ticks of a task, charged when the others have been. *)
LEMMA ChargeRun ==
  ASSUME NEW f \in Freqs \cup {0}, NEW m \in Nat, NEW n \in Nat, n <= m, NEW e \in Nat,
         e <= Increment(Power(1200), m - n)
  PROVE  e + Increment(Power(f), n) <= Increment(Power(1200), m)
<1>1. m - n \in Nat /\ (m - n) + n = m
  OBVIOUS
<1>2. Increment(Power(1200), m - n) \in Nat /\ Increment(Power(1200), m) \in Nat
      /\ Increment(Power(1200), n) \in Nat
  BY <1>1, CostNat
<1>3. Increment(Power(1200), m - n) + Increment(Power(1200), n) <= Increment(Power(1200), m)
  BY <1>1, IncrementSum
<1>4. Increment(Power(f), n) <= Increment(Power(1200), n) /\ Increment(Power(f), n) \in Nat
  BY IncrementHighest, IncrementNat
<1> QED
  BY ONLY <1>2, <1>3, <1>4, e \in Nat, e <= Increment(Power(1200), m - n)

LEMMA EarnedInit == Init => EarnedInv /\ EnergyEarned
BY DEF Init, EarnedInv, Chargeable, EnergyEarned, Increment, Power

LEMMA EarnedNext ==
  ASSUME ~Inherit
  PROVE  TypeOK /\ EarnedInv /\ EnergyEarned /\ [Next]_vars => EarnedInv' /\ EnergyEarned'
<1> SUFFICES ASSUME TypeOK, EarnedInv, EnergyEarned, [Next]_vars
             PROVE  EarnedInv' /\ EnergyEarned'
  OBVIOUS
<1> DEFINE Cost(n) == Increment(Power(1200), n)
           Owed(t) == /\ acc_single_run[t] <= ran[t]
                      /\ spent[t] <= Cost(ran[t] - acc_single_run[t])
<1> HIDE DEF Cost
<1>0. /\ EarnedInv <=> /\ setter # NoCall => setter.t \in alive
                       /\ \A t \in Tasks : Chargeable(t) /\ pc[t] \in {"on", "off"} => Owed(t)
      /\ EnergyEarned <=> \A t \in Tasks : spent[t] <= Cost(ran[t])
      /\ EarnedInv' <=> /\ setter' # NoCall => (setter.t)' \in alive'
                        /\ \A t \in Tasks : Chargeable(t)' /\ pc'[t] \in {"on", "off"} => Owed(t)'
      /\ EnergyEarned' <=> \A t \in Tasks : spent'[t] <= Cost(ran'[t])
  BY DEF EarnedInv, EnergyEarned, Cost
<1> USE DEF resVars, schedVars, lockVars, freqVars, histVars
<1>1. ASSUME NEW t \in Tasks, SwitchIn(t) PROVE EarnedInv' /\ EnergyEarned'
  BY <1>0, <1>1 DEF SwitchIn, Chargeable, TypeOK
<1>2. ASSUME NEW t \in Tasks, Tick(t) PROVE EarnedInv' /\ EnergyEarned'
  <2>1. Owed(t)
    BY <1>0, <1>2 DEF Tick, Chargeable
  <2>2. /\ acc_single_run'[t] = acc_single_run[t] + 1
        /\ ran'[t] = ran[t] + 1
        /\ spent'[t] = spent[t]
        /\ ran'[t] - acc_single_run'[t] = ran[t] - acc_single_run[t]
    BY <1>2 DEF Tick, TypeOK
  <2>3. Owed(t)'
    BY <2>1, <2>2 DEF TypeOK
  <2>4. spent'[t] <= Cost(ran'[t])
    <3>1. ran[t] \in Nat /\ ran'[t] \in Nat /\ ran[t] <= ran'[t] /\ spent[t] \in Nat
      BY <2>2 DEF TypeOK
    <3>2. Cost(ran[t]) <= Cost(ran'[t])
      BY <3>1, IncrementGrows DEF Cost
    <3>3. Cost(ran[t]) \in Nat /\ Cost(ran'[t]) \in Nat
      BY <3>1, CostNat DEF Cost
    <3> QED
      BY <1>0, <2>2, <3>1, <3>2, <3>3
  <2>5. \A u \in Tasks \ {t} : /\ acc_single_run'[u] = acc_single_run[u]
                               /\ ran'[u] = ran[u] /\ spent'[u] = spent[u]
    BY <1>2 DEF Tick, TypeOK
  <2>6. /\ UNCHANGED <<setter, alive, pc, flag, tracking>>
    BY <1>2 DEF Tick
  <2> QED
    BY <1>0, <2>3, <2>4, <2>5, <2>6 DEF Chargeable
<1>3. ASSUME NEW t \in Tasks, SwitchOut(t) PROVE EarnedInv' /\ EnergyEarned'
  <2>1. CASE tracking[t]
    <3> DEFINE i == Increment(Power(cpu_freq), acc_single_run[t])
    <3>1. Owed(t)
      BY <1>0, <1>3, <2>1 DEF SwitchOut, Chargeable
    <3>2. spent[t] + i <= Cost(ran[t])
      BY <3>1, ChargeRun DEF TypeOK, Cost
    <3> HIDE DEF i
    <3>3. /\ spent' = [spent EXCEPT ![t] = @ + i]
          /\ pc' = [pc EXCEPT ![t] = "lock"]
          /\ UNCHANGED <<setter, alive, flag, tracking, acc_single_run, ran>>
      BY <1>3, <2>1 DEF SwitchOut, i
    <3>4. spent'[t] <= Cost(ran'[t])
      BY <3>2, <3>3 DEF TypeOK
    <3>5. \A u \in Tasks \ {t} : spent'[u] = spent[u] /\ pc'[u] = pc[u]
      BY <3>3 DEF TypeOK
    <3>6. pc'[t] = "lock"
      BY <3>3 DEF TypeOK
    <3> QED
      BY <1>0, <3>3, <3>4, <3>5, <3>6 DEF Chargeable
  <2>2. CASE ~tracking[t]
    <3>1. /\ acc_single_run' = [acc_single_run EXCEPT ![t] = 0]
          /\ pc' = [pc EXCEPT ![t] = "off"] /\ pc[t] = "on"
          /\ UNCHANGED <<setter, alive, flag, tracking, spent, ran>>
      BY <1>3, <2>2 DEF SwitchOut, ResetRun
    <3>2. Owed(t)'
      BY <1>0, <3>1 DEF TypeOK
    <3>3. \A u \in Tasks \ {t} : acc_single_run'[u] = acc_single_run[u] /\ pc'[u] = pc[u]
      BY <3>1 DEF TypeOK
    <3> QED
      BY <1>0, <3>1, <3>2, <3>3 DEF Chargeable
  <2> QED
    BY <2>1, <2>2
<1>4. ASSUME NEW t \in Tasks, LockTotal(t) PROVE EarnedInv' /\ EnergyEarned'
  BY <1>0, <1>4 DEF LockTotal, Chargeable, TypeOK
<1>5. ASSUME NEW t \in Tasks, AddTotal(t) \/ SetBegin(t) PROVE EarnedInv' /\ EnergyEarned'
  <2>1. UNCHANGED <<alive, flag, tracking, spent, ran>>
    BY <1>5 DEF AddTotal, SetBegin
  <2>2. \A u \in Tasks \ {t} :
          /\ acc_single_run'[u] = acc_single_run[u] /\ pc'[u] = pc[u]
          /\ Chargeable(u)' => Chargeable(u)
    BY <1>5 DEF AddTotal, SetBegin, ResetRun, TypeOK, Chargeable
  <2>3. Chargeable(t)' /\ pc'[t] \in {"on", "off"} => Owed(t)'
    <3>1. CASE ResetRun(t)
      BY <1>0, <2>1, <3>1 DEF ResetRun, TypeOK
    <3>2. CASE pc[t] = "on" /\ flag[t] /\ UNCHANGED acc_single_run
      BY <1>0, <2>1, <3>2 DEF Chargeable
    <3> QED
      BY <1>5, <3>1, <3>2 DEF AddTotal, SetBegin
  <2>4. setter' # NoCall => (setter.t)' \in alive'
    BY <1>0, <1>5, <2>1 DEF AddTotal, SetBegin
  <2> QED
    BY <1>0, <2>1, <2>2, <2>3, <2>4
<1>6. CASE SetFiles
  <2>1. setter' # NoCall /\ (setter.t)' = setter.t /\ setter # NoCall
    BY <1>6, SetterType DEF SetFiles, NoCall
  <2> QED
    BY <1>0, <1>6, <2>1 DEF SetFiles, Chargeable
<1>7. ASSUME NEW f \in Freqs, SetTracking(f) PROVE EarnedInv' /\ EnergyEarned'
  <2>1. setter # NoCall /\ setter.t \in Tasks
    BY <1>7, SetterType DEF SetTracking, NoCall
  <2>2. \A u \in Tasks : Chargeable(u)' => Chargeable(u)
    BY <1>7, <2>1 DEF SetTracking, Chargeable, TypeOK
  <2>3. UNCHANGED <<pc, acc_single_run, ran, spent>> /\ setter' = NoCall
    BY <1>7 DEF SetTracking
  <2> QED
    BY <1>0, <2>2, <2>3
<1>8. ASSUME NEW t \in Tasks, Exit(t) \/ \E f \in Freqs : CancelReserve(t, f)
      PROVE  EarnedInv' /\ EnergyEarned'
  <2>1. \A u \in Tasks : Chargeable(u)' => Chargeable(u)
    BY <1>8 DEF Exit, CancelReserve, StopTracking, Chargeable, TypeOK
  <2>2. UNCHANGED <<pc, acc_single_run, ran, spent, setter>> /\ setter = NoCall
    BY <1>8 DEF Exit, CancelReserve
  <2> QED
    BY <1>0, <2>1, <2>2
<1>9. ASSUME NEW p \in Tasks, NEW t \in Tasks, Fork(p, t) PROVE EarnedInv' /\ EnergyEarned'
  <2>1. ~Chargeable(t)'
    BY <1>0, <1>9 DEF Fork, Chargeable, TypeOK
  <2>2. \A u \in Tasks \ {t} :
          /\ acc_single_run'[u] = acc_single_run[u]
          /\ ran'[u] = ran[u] /\ spent'[u] = spent[u]
          /\ Chargeable(u)' => Chargeable(u)
    BY <1>9 DEF Fork, Chargeable, TypeOK
  <2>3. spent'[t] <= Cost(ran'[t])
    <3>1. spent'[t] = 0 /\ ran'[t] = 0
      BY <1>9 DEF Fork, TypeOK
    <3>2. Cost(0) \in Nat
      BY CostNat DEF Cost
    <3> QED
      BY <3>1, <3>2
  <2>4. UNCHANGED <<pc, setter>> /\ alive \subseteq alive'
    BY <1>9 DEF Fork
  <2> QED
    BY <1>0, <2>1, <2>2, <2>3, <2>4
<1>10. ASSUME NEW t \in Tasks, PeriodEnd(t) PROVE EarnedInv' /\ EnergyEarned'
  BY <1>0, <1>10 DEF PeriodEnd, Chargeable
<1>11. ASSUME NEW w \in Writers, Storing(w) PROVE EarnedInv' /\ EnergyEarned'
  BY <1>0, <1>11 DEF Storing, StoreBegin, InitLock, StoreTotal, StoreTracking, Chargeable
<1>12. CASE UNCHANGED vars
  BY <1>0, <1>12 DEF vars, Chargeable
<1> QED
  BY <1>1, <1>2, <1>3, <1>4, <1>5, <1>6, <1>7, <1>8, <1>9, <1>10, <1>11, <1>12
  DEF Next, Scheduling, Calls

(* No process is ever charged more energy than its own c_timer ticks cost  *)
(* at the highest power, for any number of tasks and ticks, whatever calls *)
(* interleave with its runs: each run is charged once                      *)
(* (reserve.c:111-117, sched.c:4333-4353).  The premise is the case in     *)
(* which it is not so: a child of a tracked process goes on with its       *)
(* parent's run counter and tracking_energy (fork.c:1234).                 *)
THEOREM RunsChargedOnce ==
  ASSUME ~Inherit
  PROVE  Spec => []EnergyEarned
<1> QED
  BY TypeInit, TypeNext, EarnedInit, EarnedNext, PTL DEF Spec
=============================================================================
