----------------------------- MODULE FilesProofs -----------------------------
(***************************************************************************)
(* Proofs about the files and buffers of reservations, for any number of   *)
(* tasks, calls about several of them at once included.                    *)
(***************************************************************************)
EXTENDS Files, TLAPS

(* The initial state is in range.                                          *)
LEMMA TypeInit == Init => TypeOK
<1> SUFFICES ASSUME Init PROVE TypeOK
  OBVIOUS
<1>1. 0 \in 0 .. Ticks - 1
  BY FilesAssumption
<1>2. /\ flag \in [Tasks -> BOOLEAN] /\ timer \in [Tasks -> BOOLEAN]
      /\ file \in [Tasks -> BOOLEAN] /\ kobj \in [Tasks -> BOOLEAN]
      /\ shows \in [Tasks -> BOOLEAN]
  BY DEF Init
<1>3. /\ name \in [Tasks -> {"null", "live", "freed"}]
      /\ periods \in [Tasks -> {"null", "live", "freed"}]
      /\ wcb \in [Tasks -> {"none", "enabled", "write", "energy"}]
      /\ holds \in [Tasks -> SUBSET Tasks]
  BY DEF Init
<1>4. call \in [Tasks -> [op : {"none", "set", "cancel", "exit"},
                          at : {"none", "name", "file", "periods", "energy",
                                "free", "remove", "done"}]]
  BY DEF Init, NoCall
<1> QED
  BY <1>1, <1>2, <1>3, <1>4 DEF Init, TypeOK

(* Every step leaves the flags, pointers and places of the calls in range; *)
(* the count of taskmon_timer stays below its limit.                       *)
LEMMA TypeNext == TypeOK /\ [Next]_vars => TypeOK'
<1> SUFFICES ASSUME TypeOK, [Next]_vars PROVE TypeOK'
  OBVIOUS
<1> USE DEF TypeOK, modVars, objVars, NoCall
<1>1. CASE Module
  <2>1. CASE LoadDirs
    <3>1. 0 \in 0 .. Ticks - 1
      BY FilesAssumption
    <3> QED
      BY <2>1, <3>1 DEF LoadDirs
  <2>2. CASE LoadPtr
    BY <2>2 DEF LoadPtr
  <2>3. CASE UnloadDirs
    BY <2>3 DEF UnloadDirs
  <2>4. CASE UnloadPtr
    BY <2>4 DEF UnloadPtr
  <2>5. CASE TaskmonTimer
    BY <2>5, FilesAssumption DEF TaskmonTimer, CountUp
  <2>6. ASSUME NEW on \in BOOLEAN, Enable(on) PROVE TypeOK'
    BY <2>6 DEF Enable
  <2> QED
    BY ONLY <1>1, <2>1, <2>2, <2>3, <2>4, <2>5, <2>6 DEF Module
<1>2. ASSUME NEW t \in Tasks, Uses(t) PROVE TypeOK'
  <2>1. CASE PTimer(t)
    BY <2>1 DEF PTimer
  <2>2. CASE PTimerEnabled(t)
    BY <2>2 DEF PTimerEnabled
  <2>3. CASE PTimerWrite(t)
    BY <2>3 DEF PTimerWrite
  <2>4. CASE PTimerEnergy(t)
    BY <2>4 DEF PTimerEnergy, DropKobj
  <2>5. CASE ShowBegin(t)
    BY <2>5 DEF ShowBegin
  <2>6. CASE ShowEnd(t)
    BY <2>6 DEF ShowEnd
  <2> QED
    BY ONLY <1>2, <2>1, <2>2, <2>3, <2>4, <2>5, <2>6 DEF Uses
<1>3. ASSUME NEW t \in Tasks, Sets(t) PROVE TypeOK'
  <2> USE DEF Goes, Returns, Setting, Ending
  <2>1. CASE SetTimer(t)
    BY <2>1 DEF SetTimer
  <2>2. ASSUME NEW ok \in Outcomes, SetName(t, ok) PROVE TypeOK'
    BY <2>2 DEF SetName, HandedOut, SpellsIn
  <2>3. ASSUME NEW ok \in Outcomes, SetFile(t, ok) PROVE TypeOK'
    <3>1. file' \in [Tasks -> BOOLEAN]
      BY <2>3, Zenon DEF SetFile
    <3>2. call' \in [Tasks -> [op : {"none", "set", "cancel", "exit"},
                               at : {"none", "name", "file", "periods", "energy",
                                     "free", "remove", "done"}]]
      BY <2>3 DEF SetFile
    <3> QED
      BY <2>3, <3>1, <3>2 DEF SetFile
  <2>4. ASSUME NEW ok \in Outcomes, SetPeriods(t, ok) PROVE TypeOK'
    <3>1. call' \in [Tasks -> [op : {"none", "set", "cancel", "exit"},
                               at : {"none", "name", "file", "periods", "energy",
                                     "free", "remove", "done"}]]
      BY <2>4 DEF SetPeriods
    <3> QED
      BY <2>4, <3>1 DEF SetPeriods
  <2>5. ASSUME NEW energy_tracking \in BOOLEAN, NEW ok \in Outcomes,
               SetEnergy(t, energy_tracking, ok)
        PROVE  TypeOK'
    <3>0. holds' \in [Tasks -> SUBSET Tasks]
      BY <2>5 DEF SetEnergy, HandedOut, SpellsIn
    <3>1. CASE ok
      <4>1. (IF loaded THEN energy_tracking ELSE kobj[t]) \in BOOLEAN
        OBVIOUS
      <4> QED
        BY <2>5, <3>0, <3>1, <4>1 DEF SetEnergy
    <3>2. CASE ~ok
      BY <2>5, <3>0, <3>2 DEF SetEnergy
    <3> QED
      BY <3>1, <3>2
  <2> QED
    BY ONLY <1>3, <2>1, <2>2, <2>3, <2>4, <2>5 DEF Sets
<1>4. ASSUME NEW t \in Tasks, Ends(t) PROVE TypeOK'
  <2> USE DEF Goes, Returns, DropKobj, Setting, Ending
  <2>1. ASSUME NEW op \in {"cancel", "exit"}, NEW ok \in Outcomes, EndBegin(t, op, ok)
        PROVE  TypeOK'
    <3>1. flag' \in [Tasks -> BOOLEAN] /\ timer' \in [Tasks -> BOOLEAN]
      BY <2>1, Zenon DEF EndBegin
    <3>2. call' \in [Tasks -> [op : {"none", "set", "cancel", "exit"},
                               at : {"none", "name", "file", "periods", "energy",
                                     "free", "remove", "done"}]]
      <4>1. CASE ok
        BY <2>1, <4>1 DEF EndBegin
      <4>2. CASE ~ok
        BY <2>1, <4>2 DEF EndBegin
      <4> QED
        BY <4>1, <4>2
    <3> QED
      BY <2>1, <3>1, <3>2 DEF EndBegin
  <2>2. ASSUME NEW kept \in Keeps, EndFree(t, kept) PROVE TypeOK'
    BY <2>2 DEF EndFree
  <2>3. CASE EndRemove(t)
    <3>1. file' \in [Tasks -> BOOLEAN]
      BY <2>3, Zenon DEF EndRemove, RemoveFile
    <3> QED
      BY <2>3, <3>1 DEF EndRemove
  <2>4. CASE EndDone(t)
    BY <2>4 DEF EndDone, EndEnergy
  <2>5. CASE Fork(t)
    <3>1. ASSUME NEW parent \in alive, ForkReserve(t, parent)
          PROVE  /\ name' \in [Tasks -> {"null", "live", "freed"}]
                 /\ periods' \in [Tasks -> {"null", "live", "freed"}]
                 /\ holds' \in [Tasks -> SUBSET Tasks] /\ kobj' \in [Tasks -> BOOLEAN]
      BY <3>1 DEF ForkReserve
    <3>2. ASSUME NEW p \in {"null"}, name' = [name EXCEPT ![t] = p], periods' = [periods EXCEPT ![t] = p],
                 holds' = [holds EXCEPT ![t] = {}], DropKobj(t)
          PROVE  /\ name' \in [Tasks -> {"null", "live", "freed"}]
                 /\ periods' \in [Tasks -> {"null", "live", "freed"}]
                 /\ holds' \in [Tasks -> SUBSET Tasks] /\ kobj' \in [Tasks -> BOOLEAN]
      BY <3>2
    <3>3. /\ name' \in [Tasks -> {"null", "live", "freed"}]
          /\ periods' \in [Tasks -> {"null", "live", "freed"}]
          /\ holds' \in [Tasks -> SUBSET Tasks] /\ kobj' \in [Tasks -> BOOLEAN]
      BY <2>5, <3>1, <3>2 DEF Fork
    <3>4. alive' \subseteq Tasks /\ flag' \in [Tasks -> BOOLEAN]
      BY <2>5 DEF Fork
    <3> QED
      BY <2>5, <3>3, <3>4 DEF Fork
  <2> QED
    BY ONLY <1>4, <2>1, <2>2, <2>3, <2>4, <2>5 DEF Ends
<1>5. CASE UNCHANGED vars
  BY <1>5 DEF vars
<1> QED
  BY <1>1, <1>2, <1>3, <1>4, <1>5 DEF Next

(* Files is type correct, whatever the users do not take care of.          *)
THEOREM TypeCorrect == Spec => []TypeOK
  BY TypeInit, TypeNext, PTL DEF Spec

-----------------------------------------------------------------------------
(* What belongs to a reservation, and a task that has none of it.          *)
Owned(t) == name[t] = "live" /\ holds[t] = {t} /\ periods[t] = "live" /\ file[t]

Bare(t) == ~timer[t] /\ wcb[t] = "none" /\ ~shows[t] /\ ~file[t] /\ ~kobj[t]

(* How much of it there is at each place of a call about t.  A callback of *)
(* the period timer is under way only between calls, which wait for it; a  *)
(* reader only while the task is reserved.                                 *)
Between(t) ==
    call[t] = NoCall =>
       IF t \in alive /\ flag[t] THEN Owned(t) /\ loaded /\ ptr ELSE Bare(t)

InSet(t) ==
    call[t].op = "set" =>
       /\ call[t].at \in {"name", "file", "periods", "energy"}
       /\ t \in alive /\ wcb[t] = "none" /\ loaded /\ ptr
       /\ flag[t] => call[t].at = "energy"
       /\ shows[t] => flag[t]
       /\ call[t].at # "name" => name[t] = "live" /\ holds[t] = {t}
       /\ file[t] <=> call[t].at \in {"periods", "energy"}
       /\ call[t].at = "energy" => periods[t] = "live"

InEnd(t) ==
    call[t].op \in {"cancel", "exit"} =>
       /\ call[t].at \in {"free", "remove", "done"}
       /\ t \in alive /\ wcb[t] = "none" /\ ~timer[t] /\ ~shows[t] /\ loaded /\ ptr
       /\ flag[t] <=> call[t].op = "exit"
       /\ call[t].at = "free" => Owned(t)
       /\ call[t].at = "remove" => holds[t] = {t}
       /\ call[t].at = "done" => ~file[t]

(* No name is allocated while another one is freed and still looked at.    *)
Apart == \A t, u \in Tasks : ~(Setting(t) /\ Ending(u))

TaskInv(t) ==
    Between(t) /\ InSet(t) /\ InEnd(t) /\ (call[t].op = "none" => call[t] = NoCall)

FilesInv == Apart /\ \A t \in Tasks : TaskInv(t)

LEMMA FilesInit == Init => FilesInv
<1> SUFFICES ASSUME Init PROVE FilesInv
  OBVIOUS
<1>1. \A t \in Tasks : /\ call[t] = NoCall /\ wcb[t] = "none" /\ ~flag[t] /\ ~timer[t]
                       /\ ~shows[t] /\ ~file[t] /\ ~kobj[t]
  BY DEF Init
<1> QED
  BY <1>1 DEF FilesInv, TaskInv, Apart, Setting, Ending, Between, InSet, InEnd, Bare, NoCall

(* What a step of a call about t does to the calls.                        *)
LEMMA GoesOn ==
  ASSUME TypeOK, NEW t \in Tasks, NEW at, Goes(t, at)
  PROVE  /\ call'[t].op = call[t].op /\ call'[t].at = at
         /\ \A u \in Tasks \ {t} : call'[u] = call[u]
  BY DEF Goes, TypeOK

LEMMA ReturnsNow ==
  ASSUME TypeOK, NEW t \in Tasks, Returns(t)
  PROVE  call'[t] = NoCall /\ \A u \in Tasks \ {t} : call'[u] = call[u]
  BY DEF Returns, TypeOK

(* A task that a step does not concern keeps its part of the invariant.    *)
LEMMA Untouched ==
  ASSUME NEW u, TaskInv(u), UNCHANGED <<loaded, ptr>>, call'[u] = call[u],
         u \in alive' <=> u \in alive, flag'[u] = flag[u], timer'[u] = timer[u],
         name'[u] = name[u], holds'[u] = holds[u], periods'[u] = periods[u], file'[u] = file[u],
         kobj'[u] = kobj[u], wcb'[u] = wcb[u], shows'[u] = shows[u]
  PROVE  TaskInv(u)'
  BY DEF TaskInv, Between, InSet, InEnd, Owned, Bare, NoCall

LEMMA FilesNext ==
  ASSUME Careless = {}
  PROVE  TypeOK /\ FilesInv /\ [Next]_vars => FilesInv'
<1> SUFFICES ASSUME TypeOK, FilesInv, [Next]_vars PROVE FilesInv'
  OBVIOUS
<1> USE DEF TypeOK, FilesInv, TaskInv, Apart, Setting, Ending, Between, InSet, InEnd,
           Owned, Bare, modVars, objVars, NoCall
<1>1. CASE Module
  <2>1. CASE LoadDirs
    BY <2>1 DEF LoadDirs
  <2>2. CASE LoadPtr
    BY <2>2 DEF LoadPtr
  <2>3. CASE UnloadDirs
    BY <2>3 DEF UnloadDirs, Quiet
  <2>4. CASE UnloadPtr
    BY <2>4 DEF UnloadPtr
  <2>5. CASE TaskmonTimer
    BY <2>5 DEF TaskmonTimer
  <2>6. ASSUME NEW on \in BOOLEAN, Enable(on) PROVE FilesInv'
    BY <2>6 DEF Enable
  <2> QED
    BY ONLY <1>1, <2>1, <2>2, <2>3, <2>4, <2>5, <2>6 DEF Module
<1>2. ASSUME NEW t \in Tasks, Uses(t) PROVE FilesInv'
  <2>1. CASE PTimer(t)
    BY <2>1 DEF PTimer
  <2>2. CASE PTimerEnabled(t)
    BY <2>2 DEF PTimerEnabled
  <2>3. CASE PTimerWrite(t)
    BY <2>3 DEF PTimerWrite
  <2>4. CASE PTimerEnergy(t)
    BY <2>4 DEF PTimerEnergy, DropKobj
  <2>5. CASE ShowBegin(t)
    BY <2>5 DEF ShowBegin
  <2>6. CASE ShowEnd(t)
    BY <2>6 DEF ShowEnd
  <2> QED
    BY ONLY <1>2, <2>1, <2>2, <2>3, <2>4, <2>5, <2>6 DEF Uses
<1>3. ASSUME NEW t \in Tasks, Sets(t) PROVE FilesInv'
  <2> USE DEF Goes, Returns
  <2>1. CASE SetTimer(t)
    BY <2>1 DEF SetTimer, TimerStops
  <2>2. ASSUME NEW ok \in Outcomes, SetName(t, ok) PROVE FilesInv'
    <3>1. HandedOut = {{}}
      BY <2>2 DEF SetName, HandedOut
    <3>2. ok /\ holds' = [u \in Tasks |-> IF u = t THEN {t} ELSE holds[u]]
      BY <2>2, <3>1 DEF SetName, SpellsIn, Outcomes
    <3>3. call'[t].op = "set" /\ call'[t].at = "file" /\ \A u \in Tasks \ {t} : call'[u] = call[u]
      BY <2>2, <3>2, GoesOn DEF SetName
    <3>4. name'[t] = "live" /\ \A u \in Tasks \ {t} : name'[u] = name[u]
      BY <2>2, <3>2 DEF SetName
    <3>8. /\ UNCHANGED <<loaded, ptr, alive, flag, timer, periods, file, kobj, wcb, shows>>
          /\ holds'[t] = {t} /\ \A u \in Tasks \ {t} : holds'[u] = holds[u]
          /\ call[t].op = "set" /\ call[t].at = "name"
      BY <2>2, <3>2 DEF SetName
    <3> HIDE DEF Goes, Returns
    <3>5. TaskInv(t)'
      <4>1. TaskInv(t)
        OBVIOUS
      <4> QED
        BY ONLY <4>1, <3>3, <3>4, <3>8
           DEF TaskInv, Between, InSet, InEnd, Owned, Bare, NoCall, Setting, Ending
    <3>6. \A u \in Tasks \ {t} : TaskInv(u)'
      <4> TAKE u \in Tasks \ {t}
      <4>1. TaskInv(u)
        OBVIOUS
      <4> QED
        BY ONLY <4>1, <3>3, <3>4, <3>8, Untouched
    <3>7. Apart'
      BY <2>2, <3>3 DEF SetName
    <3> QED
      BY <3>5, <3>6, <3>7
  <2>3. ASSUME NEW ok \in Outcomes, SetFile(t, ok) PROVE FilesInv'
    <3>1. ok /\ file' = [file EXCEPT ![t] = TRUE] /\ Goes(t, "periods")
      BY <2>3 DEF SetFile, Outcomes
    <3>2. call'[t].op = "set" /\ call'[t].at = "periods" /\ \A u \in Tasks \ {t} : call'[u] = call[u]
      BY <2>3, <3>1, GoesOn DEF SetFile
    <3> HIDE DEF Goes, Returns
    <3>3. TaskInv(t)'
      BY <2>3, <3>1, <3>2 DEF SetFile
    <3>4. \A u \in Tasks \ {t} : TaskInv(u)'
      BY <2>3, <3>1, <3>2, Untouched DEF SetFile
    <3>5. Apart'
      BY <2>3, <3>2 DEF SetFile
    <3> QED
      BY <3>3, <3>4, <3>5
  <2>4. ASSUME NEW ok \in Outcomes, SetPeriods(t, ok) PROVE FilesInv'
    <3>1. ok /\ periods' = [periods EXCEPT ![t] = "live"] /\ Goes(t, "energy")
      BY <2>4 DEF SetPeriods, Outcomes
    <3>2. call'[t].op = "set" /\ call'[t].at = "energy" /\ \A u \in Tasks \ {t} : call'[u] = call[u]
      BY <2>4, <3>1, GoesOn DEF SetPeriods
    <3> HIDE DEF Goes, Returns
    <3>3. TaskInv(t)'
      BY <2>4, <3>1, <3>2 DEF SetPeriods
    <3>4. \A u \in Tasks \ {t} : TaskInv(u)'
      BY <2>4, <3>1, <3>2, Untouched DEF SetPeriods
    <3>5. Apart'
      BY <2>4, <3>2 DEF SetPeriods
    <3> QED
      BY <3>3, <3>4, <3>5
  <2>5. ASSUME NEW energy_tracking \in BOOLEAN, NEW ok \in Outcomes,
               SetEnergy(t, energy_tracking, ok)
        PROVE  FilesInv'
    <3>1. HandedOut = {{}}
      BY <2>5 DEF SetEnergy, HandedOut
    <3>2. ok /\ holds' = holds
      BY <2>5, <3>1 DEF SetEnergy, SpellsIn, Outcomes
    <3> QED
      BY <2>5, <3>2 DEF SetEnergy
  <2> QED
    BY ONLY <1>3, <2>1, <2>2, <2>3, <2>4, <2>5 DEF Sets
<1>4. ASSUME NEW t \in Tasks, Ends(t) PROVE FilesInv'
  <2> USE DEF Goes, Returns, DropKobj
  <2>1. ASSUME NEW op \in {"cancel", "exit"}, NEW ok \in Outcomes, EndBegin(t, op, ok)
        PROVE  FilesInv'
    <3>1. /\ ok /\ flag[t] /\ loaded /\ t \in alive /\ wcb[t] = "none" /\ ~shows[t]
          /\ timer' = [timer EXCEPT ![t] = FALSE] /\ flag' = [flag EXCEPT ![t] = @ /\ op = "exit"]
          /\ call' = [call EXCEPT ![t] = [op |-> op, at |-> "free"]] /\ call[t] = NoCall
          /\ \A u \in Tasks : ~Setting(u)
      BY <2>1 DEF EndBegin, EndsUnreserved, TimerStops, Outcomes
    <3>2. TaskInv(t)'
      BY <2>1, <3>1 DEF EndBegin
    <3>3. \A u \in Tasks \ {t} : TaskInv(u)'
      BY <2>1, <3>1, Untouched DEF EndBegin
    <3>4. Apart'
      BY <3>1
    <3> QED
      BY <3>2, <3>3, <3>4
  <2>2. ASSUME NEW kept \in Keeps, EndFree(t, kept) PROVE FilesInv'
    BY <2>2 DEF EndFree, Keeps
  <2>3. CASE EndRemove(t)
    <3>1. \A u \in Tasks : file'[u] = (file[u] /\ u # t)
      BY <2>3 DEF EndRemove, RemoveFile
    <3> QED
      BY <2>3, <3>1 DEF EndRemove
  <2>4. CASE EndDone(t)
    BY <2>4 DEF EndDone, EndEnergy
  <2>5. CASE Fork(t)
    <3>1. /\ ~flag'[t] /\ ~kobj'[t]
          /\ \A u \in Tasks \ {t} : /\ name'[u] = name[u] /\ periods'[u] = periods[u]
                                     /\ holds'[u] = holds[u] /\ kobj'[u] = kobj[u]
                                     /\ flag'[u] = flag[u] /\ (u \in alive' <=> u \in alive)
      BY <2>5 DEF Fork, ForkReserve
    <3> QED
      BY <2>5, <3>1 DEF Fork
  <2> QED
    BY ONLY <1>4, <2>1, <2>2, <2>3, <2>4, <2>5 DEF Ends
<1>5. CASE UNCHANGED vars
  BY <1>5 DEF vars
<1> QED
  BY <1>1, <1>2, <1>3, <1>4, <1>5 DEF Next

(* What the invariant gives in each state.                                 *)
LEMMA FilesSafe ==
  TypeOK /\ FilesInv => SamplesInBuffer /\ FreedOnce /\ FilesOfReserved /\ ModuleOutlivesUse
<1> SUFFICES ASSUME TypeOK, FilesInv
             PROVE  SamplesInBuffer /\ FreedOnce /\ FilesOfReserved /\ ModuleOutlivesUse
  OBVIOUS
<1> USE DEF TypeOK, FilesInv, TaskInv, Setting, Ending, Between, InSet, InEnd, Owned, Bare, NoCall
<1>1. SamplesInBuffer
  BY DEF SamplesInBuffer
<1>2. FreedOnce
  BY DEF FreedOnce
<1>3. FilesOfReserved
  BY DEF FilesOfReserved
<1>4. ModuleOutlivesUse
  BY DEF ModuleOutlivesUse
<1> QED
  BY <1>1, <1>2, <1>3, <1>4

(* Users who take care unload taskmon when nothing is reserved, end only   *)
(* what is reserved, do not read a file or set another reservation         *)
(* meanwhile, and do not fork tasks with energy files.  As long as memory  *)
(* lasts, periods are not too short and the kernel leaves the memory of a  *)
(* freed name alone for an instant, they never make the period timer write *)
(* to a buffer that is not there (reserve.c:213-246), ...                  *)
THEOREM BuffersSafe ==
  ASSUME Careless = {}
  PROVE  Spec => []SamplesInBuffer
  BY TypeInit, TypeNext, FilesInit, FilesNext, FilesSafe, PTL DEF Spec

(* ... nor cancel_reserve or do_exit free a buffer twice (reserve.c:980,   *)
(* exit.c:923), ...                                                        *)
THEOREM NoDoubleFree ==
  ASSUME Careless = {}
  PROVE  Spec => []FreedOnce
  BY TypeInit, TypeNext, FilesInit, FilesNext, FilesSafe, PTL DEF Spec

(* ... nor leave a file of a task that is not reserved or lose the file of *)
(* one that is, although it is looked up by a name that is freed already   *)
(* (reserve.c:981-983, exit.c:925-927), ...                                *)
THEOREM NoFileLeft ==
  ASSUME Careless = {}
  PROVE  Spec => []FilesOfReserved
  BY TypeInit, TypeNext, FilesInit, FilesNext, FilesSafe, PTL DEF Spec

(* ... nor take the module away from under a callback or a directory that  *)
(* a task, or a child of it, still points to (fork.c:1234).                *)
THEOREM ModuleStays ==
  ASSUME Careless = {}
  PROVE  Spec => []ModuleOutlivesUse
  BY TypeInit, TypeNext, FilesInit, FilesNext, FilesSafe, PTL DEF Spec
===============================================================================
