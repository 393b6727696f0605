-------------------------------- MODULE Files --------------------------------
(***************************************************************************)
(* The life of what a reservation owns in sysfs: the name and the sample   *)
(* buffer of /sys/rtes/taskmon/util/<tid>, the file itself and the energy  *)
(* directory of the task.  set_reserve, cancel_reserve (rtes/kernel/       *)
(* reserve.c) and do_exit (kernel/exit.c) make and free them, the period   *)
(* timer writes samples, tid_show reads them, and the module taskmon       *)
(* (rtes/modules/taskmon/taskmon.c) provides the directories and may be    *)
(* loaded and unloaded.                                                    *)
(*                                                                         *)
(* A pointer is "null", "live" or "freed".  None of this is under a common *)
(* lock; a step is one test, one call of the allocator or one of sysfs.    *)
(***************************************************************************)
EXTENDS Naturals

CONSTANTS
    Tasks,
    Ticks,    \* ticks of taskmon_timer to a step of its clock (10 in the code)
    Careless  \* what the users do not take care of:
              \*   "unload"  the module is loaded and unloaded at any time
              \*   "again"   cancel_reserve of a task that is not reserved
              \*   "read"    a file is read while its reservation ends
              \*   "short"   a period ends before set_reserve has returned
              \*   "fails"   memory or a file cannot be had
              \*   "overlap" a reservation is set while another one ends
              \*   "reuse"   other kernel code gets the memory of a freed name
              \*   "fork"    a task with energy files forks

ASSUME FilesAssumption ==
    /\ Ticks \in Nat \ {0}
    /\ Careless \subseteq {"unload", "again", "read", "short", "fails",
                       "overlap", "reuse", "fork"}

VARIABLES
    loaded,   \* rtes_kobj, util_kobj and tasks_kobj are not NULL
    ptr,      \* ptr_taskmon_enabled_attribute is not NULL
    enabled,  \* taskmon_enabled_attribute.enabled, and taskmon_timer runs
    count,    \* count, the ticks since the last step of the clock
    alive,    \* the tasks that exist
    flag,     \* reserve.flag
    timer,    \* p_timer is enqueued
    name,     \* reserve.tid_attr.attr.name
    holds,    \* the tasks (one or none) whose tid the memory at name spells
    periods,  \* reserve.periods
    file,     \* the file is in the directory util
    kobj,     \* reserve.pid_kobj, with its file, is not NULL
    wcb,      \* how far p_timer_callback of the task is
    shows,    \* tid_show of the task is running
    call      \* the call about the task: which, and what it does next

modVars == <<loaded, ptr, enabled, count>>
objVars == <<name, holds, periods, file, kobj>>
vars == <<modVars, alive, flag, timer, objVars, wcb, shows, call>>

NoCall == [op |-> "none", at |-> "none"]

Init ==
    /\ loaded = FALSE /\ ptr = FALSE /\ enabled = FALSE /\ count = 0
    /\ alive = Tasks
    /\ flag = [t \in Tasks |-> FALSE] /\ timer = [t \in Tasks |-> FALSE]
    /\ name = [t \in Tasks |-> "null"] /\ periods = [t \in Tasks |-> "null"]
    /\ holds = [t \in Tasks |-> {}]
    /\ file = [t \in Tasks |-> FALSE] /\ kobj = [t \in Tasks |-> FALSE]
    /\ wcb = [t \in Tasks |-> "none"] /\ shows = [t \in Tasks |-> FALSE]
    /\ call = [t \in Tasks |-> NoCall]

-------------------------------------------------------------------------------
(* taskmon_init and taskmon_exit.                                          *)

Quiet == \A t \in Tasks : /\ call[t] = NoCall
                          /\ t \in alive => ~flag[t] /\ ~timer[t] /\ ~file[t]

(* The directories and files, then the pointer p_timer_callback looks at.  *)
LoadDirs ==
    /\ ~loaded /\ ~ptr
    /\ loaded' = TRUE /\ enabled' = FALSE /\ count' = 0
    /\ UNCHANGED <<ptr, alive, flag, timer, objVars, wcb, shows, call>>

LoadPtr ==
    /\ loaded /\ ~ptr
    /\ ptr' = TRUE
    /\ UNCHANGED <<loaded, enabled, count, alive, flag, timer, objVars, wcb, shows, call>>

(* The directories go, with the files that are in them, ...                *)
UnloadDirs ==
    /\ loaded /\ ptr
    /\ Quiet \/ "unload" \in Careless
    /\ \A t \in Tasks : ~shows[t]
    /\ loaded' = FALSE
    /\ file' = [t \in Tasks |-> FALSE]
    /\ UNCHANGED <<ptr, enabled, count, alive, flag, timer, name, holds, periods, kobj, wcb, shows, call>>

(* ... then the pointer, and taskmon_timer is stopped.                     *)
UnloadPtr ==
    /\ ~loaded /\ ptr
    /\ enabled' = FALSE /\ ptr' = FALSE
    /\ UNCHANGED <<loaded, count, alive, flag, timer, objVars, wcb, shows, call>>

(* enabled_store, which also starts or stops taskmon_timer.                *)
Enable(on) ==
    /\ loaded
    /\ enabled' = on
    /\ UNCHANGED <<loaded, ptr, count, alive, flag, timer, objVars, wcb, shows, call>>

(* taskmon_timer_callback.                                                 *)
CountUpLate == IF count + 1 > Ticks THEN 0 ELSE count + 1
CountUp == IF count + 1 = Ticks THEN 0 ELSE count + 1

TaskmonTimer ==
    /\ enabled
    /\ count' = CountUp
    /\ UNCHANGED <<loaded, ptr, enabled, alive, flag, timer, objVars, wcb, shows, call>>

-------------------------------------------------------------------------------
(* The users of the objects.                                               *)

(* The energy directory of t is removed.                                   *)
DropKobj(t) == kobj' = [kobj EXCEPT ![t] = FALSE]

(* p_timer_callback looks whether monitoring is on, ...                    *)
PTimer(t) ==
    /\ timer[t] /\ wcb[t] = "none"
    /\ "short" \in Careless \/ call[t].op # "set"
    /\ wcb' = [wcb EXCEPT ![t] = IF ptr THEN "enabled" ELSE "energy"]
    /\ UNCHANGED <<modVars, alive, flag, timer, objVars, shows, call>>

PTimerEnabled(t) ==
    /\ wcb[t] = "enabled"
    /\ wcb' = [wcb EXCEPT ![t] = IF enabled THEN "write" ELSE "energy"]
    /\ UNCHANGED <<modVars, alive, flag, timer, objVars, shows, call>>

(* ... writes a sample to the buffer, ...                                  *)
PTimerWrite(t) ==
    /\ wcb[t] = "write"
    /\ wcb' = [wcb EXCEPT ![t] = "energy"]
    /\ UNCHANGED <<modVars, alive, flag, timer, objVars, shows, call>>

(* ... and removes the energy files when the module is gone.               *)
PTimerEnergy(t) ==
    /\ wcb[t] = "energy"
    /\ wcb' = [wcb EXCEPT ![t] = "none"]
    /\ IF ~loaded /\ kobj[t] THEN DropKobj(t) ELSE UNCHANGED kobj
    /\ UNCHANGED <<modVars, alive, flag, timer, name, holds, periods, file, shows, call>>

(* tid_show, from the open file to its end.                                *)
ShowBegin(t) ==
    /\ file[t] /\ ~shows[t]
    /\ "read" \in Careless \/ (flag[t] /\ call[t] = NoCall)
    /\ shows' = [shows EXCEPT ![t] = TRUE]
    /\ UNCHANGED <<modVars, alive, flag, timer, objVars, wcb, call>>

ShowEnd(t) ==
    /\ shows[t]
    /\ shows' = [shows EXCEPT ![t] = FALSE]
    /\ UNCHANGED <<modVars, alive, flag, timer, objVars, wcb, call>>

-------------------------------------------------------------------------------
(* set_reserve, once the task is bound.                                    *)

Goes(t, at) == call' = [call EXCEPT ![t].at = at]
Returns(t) == call' = [call EXCEPT ![t] = NoCall]

(* Whether an allocation or the making of a file succeeds.                 *)
Outcomes == IF "fails" \in Careless THEN BOOLEAN ELSE {TRUE}

(* hrtimer_cancel waits for a running callback.                            *)
TimerStopsAtOnce(t) == TRUE
TimerStops(t) == wcb[t] = "none"

Setting(t) == call[t].op = "set"
Ending(t) == call[t].op \in {"cancel", "exit"}

(* kmalloc may hand out the name of a task that has freed it and has not   *)
(* removed its file yet; set_reserve of t then writes its own tid there.   *)
HandedOut == {{}} \cup {{u} : u \in {v \in Tasks : Ending(v) /\ call[v].at = "remove"}}
SpellsIn(S, t) == [u \in Tasks |-> IF u \in S THEN {t} ELSE holds[u]]

(* The period timer of a reservation that is revised is stopped, and it is *)
(* started before the objects are there.                                   *)
SetTimer(t) ==
    /\ call[t] = NoCall /\ t \in alive
    /\ (loaded /\ ptr) \/ "unload" \in Careless
    /\ "overlap" \in Careless \/ \A u \in Tasks : ~Ending(u)
    /\ flag[t] => TimerStops(t)
    /\ timer' = [timer EXCEPT ![t] = TRUE]
    /\ call' = [call EXCEPT ![t] =
                  [op |-> "set", at |-> IF loaded /\ ~flag[t] THEN "name" ELSE "energy"]]
    /\ UNCHANGED <<modVars, alive, flag, objVars, wcb, shows>>

SetName(t, ok) ==
    /\ Setting(t) /\ call[t].at = "name"
    /\ name' = [name EXCEPT ![t] = IF ok THEN "live" ELSE @]
    /\ \E h \in HandedOut : holds' = IF ok THEN SpellsIn(h \cup {t}, t) ELSE holds
    /\ IF ok THEN Goes(t, "file") ELSE Returns(t)
    /\ UNCHANGED <<modVars, alive, flag, timer, periods, file, kobj, wcb, shows>>

(* sysfs_create_file fails also when there is a file of that name.         *)
SetFile(t, ok) ==
    LET made == ok /\ ~file[t] /\ loaded
    IN  /\ Setting(t) /\ call[t].at = "file"
        /\ file' = [file EXCEPT ![t] = @ \/ made]
        /\ IF made THEN Goes(t, "periods") ELSE Returns(t)
        /\ UNCHANGED <<modVars, alive, flag, timer, name, holds, periods, kobj, wcb, shows>>

SetPeriods(t, ok) ==
    /\ Setting(t) /\ call[t].at = "periods"
    /\ periods' = [periods EXCEPT ![t] = IF ok THEN "live" ELSE "null"]
    /\ IF ok THEN Goes(t, "energy") ELSE Returns(t)
    /\ UNCHANGED <<modVars, alive, flag, timer, name, holds, file, kobj, wcb, shows>>

(* The energy files follow energy_tracking; then the reservation begins.   *)
(* When they cannot be made the directory may be left behind.              *)
SetEnergy(t, energy_tracking, ok) ==
    LET makes == loaded /\ energy_tracking /\ ~kobj[t]
    IN
    /\ Setting(t) /\ call[t].at = "energy"
    /\ ok \/ makes
    /\ \E h \in HandedOut : holds' = IF makes THEN SpellsIn(h, t) ELSE holds
    /\ IF ok
       THEN /\ kobj' = [kobj EXCEPT ![t] = IF loaded THEN energy_tracking ELSE @]
            /\ flag' = [flag EXCEPT ![t] = TRUE]
       ELSE /\ \E left \in BOOLEAN : kobj' = [kobj EXCEPT ![t] = left]
            /\ UNCHANGED flag
    /\ Returns(t)
    /\ UNCHANGED <<modVars, alive, timer, name, periods, file, wcb, shows>>

-------------------------------------------------------------------------------
(* cancel_reserve and do_exit.                                             *)

(* do_exit has nothing to do for a task that is not reserved; only the     *)
(* first part of cancel_reserve looks at the flag.                         *)
EndsAnyway(op) == TRUE
EndsUnreserved(op) == op = "cancel" /\ "again" \in Careless

(* The timers of a reserved task are stopped, and cancel_reserve clears    *)
(* the flag unless sched_setaffinity fails.                                *)
EndBegin(t, op, ok) ==
    /\ call[t] = NoCall /\ t \in alive
    /\ IF flag[t]
       THEN TimerStops(t) /\ timer' = [timer EXCEPT ![t] = FALSE]
       ELSE EndsUnreserved(op) /\ UNCHANGED timer
    /\ ~shows[t] \/ "read" \in Careless
    /\ "overlap" \in Careless \/ \A u \in Tasks : ~Setting(u)
    /\ ok \/ (op = "cancel" /\ flag[t])
    /\ IF ok
       THEN /\ call' = [call EXCEPT ![t] = [op |-> op, at |-> IF loaded THEN "free" ELSE "done"]]
            /\ flag' = [flag EXCEPT ![t] = @ /\ op = "exit"]
       ELSE UNCHANGED <<call, flag>>
    /\ UNCHANGED <<modVars, alive, objVars, wcb, shows>>

(* Whether the memory of a freed name keeps what it holds, as far as the   *)
(* rest of the kernel is concerned.                                        *)
Keeps == IF "reuse" \in Careless THEN BOOLEAN ELSE {TRUE}

(* "remove the file": first its name and the buffer are freed, ...         *)
EndFree(t, kept) ==
    /\ Ending(t) /\ call[t].at = "free"
    /\ holds' = [holds EXCEPT ![t] = IF kept THEN @ ELSE {}]
    /\ name' = [name EXCEPT ![t] = "freed"] /\ periods' = [periods EXCEPT ![t] = "freed"]
    /\ Goes(t, "remove")
    /\ UNCHANGED <<modVars, alive, flag, timer, file, kobj, wcb, shows>>

(* ... then the file of that name is removed: sysfs_remove_file looks it   *)
(* up by what the freed memory spells, and waits for its readers.          *)
RemoveFileNever(t) == UNCHANGED file
RemoveFile(t) == file' = [u \in Tasks |-> file[u] /\ u \notin holds[t]]

EndRemove(t) ==
    /\ Ending(t) /\ call[t].at = "remove"
    /\ \A u \in holds[t] : ~shows[u]
    /\ RemoveFile(t)
    /\ Goes(t, "done")
    /\ UNCHANGED <<modVars, alive, flag, timer, name, holds, periods, kobj, wcb, shows>>

(* The energy files go if the module is there.                             *)
EndEnergyNever(t) == UNCHANGED kobj
EndEnergy(t) == IF loaded /\ kobj[t] THEN DropKobj(t) ELSE UNCHANGED kobj

EndDone(t) ==
    /\ Ending(t) /\ call[t].at = "done"
    /\ EndEnergy(t)
    /\ alive' = IF call[t].op = "exit" THEN alive \ {t} ELSE alive
    /\ Returns(t)
    /\ UNCHANGED <<modVars, flag, timer, name, holds, periods, file, wcb, shows>>

(* A new process in the place of a dead one.  copy_process copies the      *)
(* reserve of the parent and clears flag only.  The parent is one of the   *)
(* tasks, or none of them and was never reserved.                          *)
ForkReserve(t, parent) ==
    /\ name' = [name EXCEPT ![t] = name[parent]]
    /\ holds' = [holds EXCEPT ![t] = holds[parent]]
    /\ periods' = [periods EXCEPT ![t] = periods[parent]]
    /\ kobj' = [kobj EXCEPT ![t] = kobj[parent]]

Fork(t) ==
    /\ t \notin alive
    /\ alive' = alive \cup {t}
    /\ flag' = [flag EXCEPT ![t] = FALSE]
    /\ \/ \E parent \in alive : /\ ~kobj[parent] \/ "fork" \in Careless
                                /\ ForkReserve(t, parent)
       \/ /\ name' = [name EXCEPT ![t] = "null"] /\ periods' = [periods EXCEPT ![t] = "null"]
          /\ holds' = [holds EXCEPT ![t] = {}]
          /\ DropKobj(t)
    /\ UNCHANGED <<modVars, timer, file, wcb, shows, call>>

-------------------------------------------------------------------------------
Module == LoadDirs \/ LoadPtr \/ UnloadDirs \/ UnloadPtr \/ TaskmonTimer
             \/ \E on \in BOOLEAN : Enable(on)

Uses(t) == PTimer(t) \/ PTimerEnabled(t) \/ PTimerWrite(t) \/ PTimerEnergy(t)
              \/ ShowBegin(t) \/ ShowEnd(t)

Sets(t) ==
    \/ SetTimer(t)
    \/ \E ok \in Outcomes : SetName(t, ok) \/ SetFile(t, ok) \/ SetPeriods(t, ok)
    \/ \E energy_tracking \in BOOLEAN, ok \in Outcomes : SetEnergy(t, energy_tracking, ok)

Ends(t) ==
    \/ \E op \in {"cancel", "exit"}, ok \in Outcomes : EndBegin(t, op, ok)
    \/ \E kept \in Keeps : EndFree(t, kept)
    \/ EndRemove(t) \/ EndDone(t) \/ Fork(t)

Next == Module \/ \E t \in Tasks : Uses(t) \/ Sets(t) \/ Ends(t)

Spec == Init /\ [][Next]_vars
-------------------------------------------------------------------------------
(* Types.                                                                  *)
TypeOK ==
    /\ loaded \in BOOLEAN /\ ptr \in BOOLEAN /\ enabled \in BOOLEAN
    /\ count \in 0 .. Ticks - 1
    /\ alive \subseteq Tasks
    /\ flag \in [Tasks -> BOOLEAN] /\ timer \in [Tasks -> BOOLEAN]
    /\ name \in [Tasks -> {"null", "live", "freed"}]
    /\ periods \in [Tasks -> {"null", "live", "freed"}]
    /\ holds \in [Tasks -> SUBSET Tasks]
    /\ file \in [Tasks -> BOOLEAN] /\ kobj \in [Tasks -> BOOLEAN]
    /\ wcb \in [Tasks -> {"none", "enabled", "write", "energy"}]
    /\ shows \in [Tasks -> BOOLEAN]
    /\ call \in [Tasks -> [op : {"none", "set", "cancel", "exit"},
                           at : {"none", "name", "file", "periods", "energy",
                                 "free", "remove", "done"}]]

(* The period timer and a reader of the file use a buffer that is there:   *)
(* a callback that has begun is over before the buffer is freed, however   *)
(* monitoring is switched meanwhile (reserve.c:213-246, 936, 981-983;      *)
(* exit.c:918-925).                                                        *)
SamplesInBuffer ==
    \A t \in Tasks : wcb[t] = "write" \/ shows[t] => periods[t] = "live"

(* Name and buffer are freed once: cancel_reserve and do_exit free only    *)
(* what set_reserve has allocated for this reservation (reserve.c:980-984, *)
(* exit.c:923-926).                                                        *)
FreedOnce ==
    \A t \in Tasks :
       Ending(t) /\ call[t].at = "free" =>
          name[t] = "live" /\ periods[t] = "live"

(* /sys/rtes/taskmon/util holds a file for every reserved task and for no  *)
(* other one, between calls.                                               *)
FilesOfReserved ==
    \A t \in Tasks : call[t] = NoCall => (file[t] <=> (t \in alive /\ flag[t]))

(* p_timer_callback does not read the attribute of a module that is gone   *)
(* (reserve.c:213, taskmon.c:308-309), and energy files last as long as    *)
(* their reservation.                                                      *)
ModuleOutlivesUse ==
    \A t \in Tasks : /\ wcb[t] = "enabled" => ptr
                     /\ kobj[t] => loaded
===============================================================================
