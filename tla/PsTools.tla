------------------------------- MODULE PsTools -------------------------------
(***************************************************************************)
(* The tools of the first lab, which meet at processes that come and go:   *)
(* the exclusive device psdev that lists the real-time processes (rtes/    *)
(* modules/psdev/psdev.c), the pair of system calls count_rt_threads and   *)
(* list_rt_threads with their user rtps (rtes/kernel/ps.c, rtes/apps/rtps/ *)
(* rtps.c), and the module cleanup, which replaces the system calls exit   *)
(* and exit_group to report the files a process leaves open (rtes/modules/ *)
(* cleanup/cleanup.c).                                                     *)
(*                                                                         *)
(* A process that exits goes through custom_exit when cleanup is loaded,   *)
(* and the exit closes psdev.  Nothing here is under a lock.               *)
(***************************************************************************)
EXTENDS Integers, Sequences, FiniteSets, SequencesExt

CONSTANTS
    Procs,
    Watched,   \* the processes whose name contains the parameter of cleanup and
               \* that open psdev at a descriptor after the standard three
    Buffer,    \* entries that fit into the buffer of a read of psdev
    Careless   \* what the users do not take care of:
               \*   "opens"   two processes open psdev at the same time
               \*   "exit"    processes exit while another lists them
               \*   "policy"  the policy of one changes while another lists them
               \*   "unload"  a module is unloaded under a call into it

ASSUME PsToolsAssumption ==
    /\ Watched \subseteq Procs /\ Buffer \in Nat
    /\ Careless \subseteq {"opens", "exit", "policy", "unload"}

Calls == {"exit", "exit_group"}

VARIABLES
    plist,     \* what for_each_process goes through
    rt,        \* the processes with policy SCHED_FIFO or SCHED_RR
    pc,        \* where a process is in device_open, device_release or its exit,
               \* or "lost" when it ran on in the code of an unloaded module
    nr,        \* the number of the exit call of a process
    psdev,     \* the module is loaded
    refs,      \* its use count
    Device_Open,
    process_cnt,
    opened,    \* the processes that have the device open
    listed,    \* history: how often the reads since device_open have returned
               \* each process
    clean,     \* how far the module cleanup is loaded or unloaded
    sys_call_table,
    original,  \* original_exit and original_exit_group
    reported,  \* the exiting processes whose open files were reported
    owed,      \* history: the exiting processes that have to be reported
    rtps       \* where rtps is, with the count and the number of rows it got

devVars == <<psdev, refs, Device_Open, process_cnt, opened, listed>>
cleanVars == <<clean, sys_call_table, original>>
vars == <<plist, rt, pc, nr, devVars, cleanVars, reported, owed, rtps>>

Idle == [at |-> "idle", count |-> 0, rows |-> 0]
NotListed == [p \in Procs |-> 0]

Init ==
    /\ plist = <<>> /\ rt = {} /\ pc = [p \in Procs |-> "gone"] /\ nr = [p \in Procs |-> "exit"]
    /\ psdev = FALSE /\ refs = 0 /\ Device_Open = 0 /\ process_cnt = 0
    /\ opened = {} /\ listed = NotListed
    /\ clean = "out"
    /\ sys_call_table = [n \in Calls |-> "sys"] /\ original = [n \in Calls |-> "none"]
    /\ reported = {} /\ owed = {}
    /\ rtps = Idle

-------------------------------------------------------------------------------
(* psdev.                                                                  *)

Inside(p) == pc[p] \in {"inc", "get", "dec", "put"}
Exiting(p) == pc[p] \in {"check", "orig", "unhash"} \/ (pc[p] \in {"dec", "put"} /\ nr[p] # "close")

(* init_module and cleanup_module.                                         *)
DevLoad ==
    /\ ~psdev
    /\ psdev' = TRUE /\ Device_Open' = 0 /\ process_cnt' = 0
    /\ UNCHANGED <<plist, rt, pc, nr, refs, opened, listed, cleanVars, reported, owed, rtps>>

(* The code of a module is freed.  A process in it runs on as long as the  *)
(* memory is as it was, dies of the fault in do_exit, or is lost.          *)
Fate(p) == IF Exiting(p) /\ pc[p] # "check" THEN {pc[p], "lost"} ELSE {pc[p], "orig", "lost"}

FreeCode(S) ==
    /\ "unload" \in Careless \/ S = {}
    /\ \E fate \in [S -> {pc[p] : p \in S} \cup {"orig", "lost"}] :
          /\ \A p \in S : fate[p] \in Fate(p)
          /\ pc' = [p \in Procs |-> IF p \in S THEN fate[p] ELSE pc[p]]

DevUnload ==
    /\ psdev /\ refs = 0
    /\ FreeCode({p \in Procs : Inside(p)})
    /\ psdev' = FALSE
    /\ UNCHANGED <<plist, rt, nr, refs, Device_Open, process_cnt, opened, listed, cleanVars, reported, owed, rtps>>

(* device_open returns -EBUSY without further effect unless Device_Open is *)
(* 0 when it is tested, ...                                                *)
OpenTest(p) ==
    /\ pc[p] = "run" /\ psdev /\ p \notin opened
    /\ Device_Open = 0
    /\ "opens" \in Careless \/ \A q \in Procs : pc[q] \notin {"inc", "get"}
    /\ "exit" \in Careless \/ \A q \in Procs : ~Exiting(q)
    /\ pc' = [pc EXCEPT ![p] = "inc"]
    /\ UNCHANGED <<plist, rt, nr, devVars, cleanVars, reported, owed, rtps>>

(* ... counts the open (from the value tested or from one read again) and  *)
(* starts a list, ...                                                      *)
OpenInc(p) ==
    /\ pc[p] = "inc"
    /\ \E value \in {0, Device_Open} : Device_Open' = value + 1
    /\ process_cnt' = 0 /\ listed' = NotListed
    /\ pc' = [pc EXCEPT ![p] = "get"]
    /\ UNCHANGED <<plist, rt, nr, psdev, refs, opened, cleanVars, reported, owed, rtps>>

(* ... and holds the module.                                               *)
HeldNever == refs
Held == refs + 1

OpenGet(p) ==
    /\ pc[p] = "get"
    /\ refs' = Held
    /\ opened' = opened \cup {p}
    /\ pc' = [pc EXCEPT ![p] = "run"]
    /\ UNCHANGED <<plist, rt, nr, psdev, Device_Open, process_cnt, listed, cleanVars, reported, owed, rtps>>

(* device_release, from close or from the exit of the process.             *)
CloseFile(p) ==
    /\ pc[p] = "run" /\ p \in opened
    /\ pc' = [pc EXCEPT ![p] = "dec"]
    /\ opened' = opened \ {p} /\ listed' = NotListed
    /\ nr' = [nr EXCEPT ![p] = "close"]
    /\ UNCHANGED <<plist, rt, psdev, refs, Device_Open, process_cnt, cleanVars, reported, owed, rtps>>

FreedNever == Device_Open
Freed == Device_Open - 1

ReleaseDec(p) ==
    /\ pc[p] = "dec"
    /\ Device_Open' = Freed
    /\ pc' = [pc EXCEPT ![p] = "put"]
    /\ UNCHANGED <<plist, rt, nr, psdev, refs, process_cnt, opened, listed, cleanVars, reported, owed, rtps>>

Put == refs - 1

ReleasePut(p) ==
    /\ pc[p] = "put"
    /\ refs' = Put
    /\ pc' = [pc EXCEPT ![p] = IF nr[p] = "close" THEN "run" ELSE "unhash"]
    /\ UNCHANGED <<plist, rt, nr, psdev, Device_Open, process_cnt, opened, listed, cleanVars, reported, owed, rtps>>

-------------------------------------------------------------------------------
(* The list of the real-time processes.                                    *)

(* The places of the real-time processes from the first one on.            *)
RealTime(first) == {i \in first .. Len(plist) : plist[i] \in rt}

(* sched_setscheduler gives a process another policy.                      *)
SetPolicy(p) ==
    /\ pc[p] # "gone"
    /\ "policy" \in Careless \/ (opened = {} /\ rtps.at = "idle" /\ \A q \in Procs : pc[q] # "get")
    /\ rt' = IF p \in rt THEN rt \ {p} ELSE rt \cup {p}
    /\ UNCHANGED <<plist, pc, nr, devVars, cleanVars, reported, owed, rtps>>

(* device_read skips the processes that were listed by earlier reads, and  *)
(* drops what does not fit into the buffer.                                *)
CountedStays == process_cnt
Counted == IF Len(plist) > process_cnt THEN Len(plist) ELSE process_cnt

Returned ==
    LET new == RealTime(process_cnt + 1)
    IN  {i \in new : Cardinality({j \in new : j <= i}) <= Buffer}

DeviceRead(p) ==
    /\ pc[p] = "run" /\ p \in opened
    /\ listed' = [q \in Procs |-> listed[q] + Cardinality({i \in Returned : plist[i] = q})]
    /\ process_cnt' = Counted
    /\ UNCHANGED <<plist, rt, pc, nr, psdev, refs, Device_Open, opened, cleanVars, reported, owed, rtps>>

(* count_rt_threads.                                                       *)
RtpsCount ==
    /\ rtps.at = "idle"
    /\ "exit" \in Careless \/ \A q \in Procs : ~Exiting(q)
    /\ rtps' = [rtps EXCEPT !.at = "list", !.count = Cardinality(RealTime(1))]
    /\ UNCHANGED <<plist, rt, pc, nr, devVars, cleanVars, reported, owed>>

(* list_rt_threads into an array of that many rows.                        *)
RowsOf(len) == IF len < Cardinality(RealTime(1)) THEN len ELSE Cardinality(RealTime(1))

RtpsList ==
    /\ rtps.at = "list"
    /\ rtps' = [rtps EXCEPT !.at = "print", !.rows = RowsOf(rtps.count)]
    /\ UNCHANGED <<plist, rt, pc, nr, devVars, cleanVars, reported, owed>>

(* rtps prints the rows, frees them and sleeps.                            *)
RtpsPrint ==
    /\ rtps.at = "print"
    /\ rtps' = Idle
    /\ UNCHANGED <<plist, rt, pc, nr, devVars, cleanVars, reported, owed>>

-------------------------------------------------------------------------------
(* cleanup.                                                                *)

(* cleanup_init keeps the system calls and replaces them one by one.       *)
KeptReplaced(n) == "custom"
KeptCall(n) == sys_call_table[n]

CleanSave ==
    /\ clean = "out"
    /\ original' = [n \in Calls |-> KeptCall(n)]
    /\ clean' = "loading"
    /\ UNCHANGED <<plist, rt, pc, nr, devVars, sys_call_table, reported, owed, rtps>>

CleanReplace(n) ==
    /\ clean = "loading" /\ sys_call_table[n] # "custom"
    /\ n = "exit_group" => sys_call_table["exit"] = "custom"
    /\ sys_call_table' = [sys_call_table EXCEPT ![n] = "custom"]
    /\ clean' = IF n = "exit_group" THEN "in" ELSE clean
    /\ UNCHANGED <<plist, rt, pc, nr, devVars, original, reported, owed, rtps>>

(* cleanup_exit restores them one by one, ...                              *)
CleanRestore(n) ==
    /\ clean \in {"in", "unloading"} /\ sys_call_table[n] = "custom"
    /\ n = "exit_group" => sys_call_table["exit"] # "custom"
    /\ sys_call_table' = [sys_call_table EXCEPT ![n] = original[n]]
    /\ clean' = "unloading"
    /\ UNCHANGED <<plist, rt, pc, nr, devVars, original, reported, owed, rtps>>

(* ... and the code of the module is freed.                                *)
CleanFree ==
    /\ clean = "unloading" /\ \A n \in Calls : sys_call_table[n] # "custom"
    /\ FreeCode({p \in Procs : pc[p] = "check"})
    /\ clean' = "out"
    /\ UNCHANGED <<plist, rt, nr, devVars, sys_call_table, original, reported, owed, rtps>>

(* A process calls exit or exit_group, ...                                 *)
ExitCall(p, n) ==
    /\ pc[p] = "run"
    /\ "exit" \in Careless \/ (opened \subseteq {p} /\ rtps.at = "idle"
                                  /\ \A q \in Procs : pc[q] \notin {"inc", "get"})
    /\ nr' = [nr EXCEPT ![p] = n]
    /\ pc' = [pc EXCEPT ![p] = IF sys_call_table[n] = "custom" THEN "check" ELSE "orig"]
    /\ owed' = IF clean = "in" /\ p \in opened \cap Watched THEN owed \cup {p} ELSE owed
    /\ UNCHANGED <<plist, rt, devVars, cleanVars, reported, rtps>>

(* ... custom_exit reports its open files, if it is one to look at, and    *)
(* calls the original, ...                                                 *)
LeftOpenOthers(p) == p \in opened \ Watched
LeftOpen(p) == p \in opened \cap Watched

CustomExit(p) ==
    /\ pc[p] = "check"
    /\ reported' = IF LeftOpen(p) THEN reported \cup {p} ELSE reported
    /\ pc' = [pc EXCEPT ![p] = IF original[nr[p]] = "custom" THEN "check" ELSE "orig"]
    /\ UNCHANGED <<plist, rt, nr, devVars, cleanVars, owed, rtps>>

(* ... do_exit closes its files and takes it off the list.                 *)
OriginalExit(p) ==
    /\ pc[p] = "orig"
    /\ pc' = [pc EXCEPT ![p] = IF p \in opened THEN "dec" ELSE "unhash"]
    /\ opened' = opened \ {p} /\ listed' = IF p \in opened THEN NotListed ELSE listed
    /\ UNCHANGED <<plist, rt, nr, psdev, refs, Device_Open, process_cnt, cleanVars, reported, owed, rtps>>

Unhash(p) ==
    /\ pc[p] = "unhash"
    /\ \E i \in 1 .. Len(plist) : plist[i] = p /\ plist' = RemoveAt(plist, i)
    /\ pc' = [pc EXCEPT ![p] = "gone"]
    /\ nr' = [nr EXCEPT ![p] = "exit"]
    /\ rt' = rt \ {p}
    /\ reported' = reported \ {p} /\ owed' = owed \ {p}
    /\ UNCHANGED <<devVars, cleanVars, rtps>>

(* A new process is appended to the list, with the policy of its parent.   *)
Fork(p) ==
    /\ pc[p] = "gone"
    /\ plist' = Append(plist, p)
    /\ rt' \in {rt, rt \cup {p}}
    /\ pc' = [pc EXCEPT ![p] = "run"]
    /\ UNCHANGED <<nr, devVars, cleanVars, reported, owed, rtps>>

-------------------------------------------------------------------------------
Exits(p) == CustomExit(p) \/ OriginalExit(p) \/ ReleaseDec(p) \/ ReleasePut(p) \/ Unhash(p)

Next ==
    \/ DevLoad \/ DevUnload
    \/ RtpsCount \/ RtpsList \/ RtpsPrint
    \/ CleanSave \/ CleanFree
    \/ \E n \in Calls : CleanReplace(n) \/ CleanRestore(n)
    \/ \E p \in Procs :
          \/ OpenTest(p) \/ OpenInc(p) \/ OpenGet(p) \/ CloseFile(p) \/ DeviceRead(p)
          \/ \E n \in Calls : ExitCall(p, n)
          \/ Exits(p) \/ Fork(p) \/ SetPolicy(p)

(* A process in the kernel goes on.                                        *)
Spec == Init /\ [][Next]_vars /\ \A p \in Procs : WF_vars(Exits(p))
-------------------------------------------------------------------------------
(* Types.                                                                  *)
TypeOK ==
    /\ plist \in Seq(Procs) /\ rt \subseteq Procs /\ listed \in [Procs -> Nat]
    /\ pc \in [Procs -> {"run", "inc", "get", "dec", "put", "check", "orig", "unhash", "gone", "lost"}]
    /\ nr \in [Procs -> Calls \cup {"close"}]
    /\ psdev \in BOOLEAN /\ refs \in 0 .. Cardinality(Procs)
    /\ Device_Open \in 0 .. Cardinality(Procs) /\ process_cnt \in Nat
    /\ opened \subseteq Procs /\ reported \subseteq Procs /\ owed \subseteq Procs
    /\ clean \in {"out", "loading", "in", "unloading"}
    /\ sys_call_table \in [Calls -> {"sys", "custom"}]
    /\ original \in [Calls -> {"none", "sys", "custom"}]
    /\ rtps \in [at : {"idle", "list", "print"}, count : Nat, rows : Nat]

(* psdev has at most one user and is free again when nobody uses it:       *)
(* Device_Open is the number of processes that have it open or are closing *)
(* it (psdev.c:54-60, 72), so that no later open fails for ever.           *)
DeviceExact ==
    /\ Cardinality(opened) <= 1
    /\ (\A p \in Procs : ~Inside(p)) => Device_Open = Cardinality(opened)

(* The module psdev stays while a process has the device open, also one    *)
(* that is being killed (psdev.c:64, 74: try_module_get and module_put).   *)
ModuleHeld == opened # {} => psdev

(* The reads since an open list every real-time process they have come to  *)
(* once, though processes are created between them (psdev.c:101-120).  It  *)
(* needs processes that neither exit nor change their policy meanwhile.    *)
ListedOnce ==
    opened # {} =>
       \A p \in Procs :
          listed[p] = IF \E i \in RealTime(1) : i <= process_cnt /\ plist[i] = p THEN 1 ELSE 0

(* rtps prints as many rows as it has counted, all of them written by      *)
(* list_rt_threads (ps.c:35, 44; rtps.c:20-29).  It fails with "exit" and  *)
(* with "policy", and else says no more than that the list only grows.     *)
RowsFilled == rtps.at = "print" => rtps.rows = rtps.count

(* A watched process that calls exit with psdev open while cleanup is in   *)
(* place is reported before its files are closed, though the system calls  *)
(* are replaced and restored one by one and the module may be on its way   *)
(* out when the process comes to the check (cleanup.c:42-66, 73-117).      *)
LeftOpenReported == \A p \in owed : pc[p] = "check" \/ p \in reported

(* A process that exits is gone in the end, through the replaced system    *)
(* call and the original one (cleanup.c:73-90).                            *)
ExitEnds == \A p \in Procs : pc[p] \in {"check", "orig"} ~> pc[p] = "gone"
===============================================================================
