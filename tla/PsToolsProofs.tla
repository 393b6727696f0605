---------------------------- MODULE PsToolsProofs ----------------------------
(***************************************************************************)
(* Proofs about the tools of the first lab, for any number of processes.   *)
(* Only safety is proved: the fairness of Spec is not used.                *)
(***************************************************************************)
EXTENDS PsTools, FiniteSetTheorems, TLAPS

(* Types of what the proofs look at.  The bounds of refs and Device_Open   *)
(* come with the invariants.                                               *)
Types ==
    /\ plist \in Seq(Procs) /\ rt \subseteq Procs /\ listed \in [Procs -> Nat]
    /\ pc \in [Procs -> {"run", "inc", "get", "dec", "put", "check", "orig", "unhash", "gone", "lost"}]
    /\ nr \in [Procs -> Calls \cup {"close"}]
    /\ psdev \in BOOLEAN /\ refs \in Int /\ Device_Open \in Int /\ process_cnt \in Nat
    /\ opened \subseteq Procs /\ reported \subseteq Procs /\ owed \subseteq Procs
    /\ clean \in {"out", "loading", "in", "unloading"}
    /\ sys_call_table \in [Calls -> {"sys", "custom", "none"}]
    /\ original \in [Calls -> {"none", "sys", "custom"}]
    /\ rtps \in [at : {"idle", "list", "print"}, count : Nat, rows : Nat]

(* The places of the real-time processes are finitely many.                *)
LEMMA RealTimeFinite ==
  ASSUME Types, NEW k \in Nat
  PROVE  IsFiniteSet(RealTime(k)) /\ Cardinality(RealTime(k)) \in Nat
<1>1. RealTime(k) \in SUBSET (k .. Len(plist)) /\ Len(plist) \in Nat
  BY DEF RealTime, Types
<1>2. IsFiniteSet(k .. Len(plist))
  BY <1>1, FS_Interval
<1>3. IsFiniteSet(RealTime(k))
  BY <1>1, <1>2, FS_Subset
<1> QED
  BY <1>3, FS_CardinalityType

(* A process in code that is freed goes on, dies or is lost; ...           *)
LEMMA Fates ==
  ASSUME Types, NEW S \in SUBSET Procs, FreeCode(S)
  PROVE  /\ pc' \in [Procs -> {"run", "inc", "get", "dec", "put", "check", "orig", "unhash", "gone", "lost"}]
         /\ \A p \in Procs : pc'[p] = pc[p] \/ (p \in S /\ pc'[p] \in {"orig", "lost"})
<1>1. PICK fate \in [S -> {pc[p] : p \in S} \cup {"orig", "lost"}] :
         /\ \A p \in S : fate[p] \in Fate(p)
         /\ pc' = [p \in Procs |-> IF p \in S THEN fate[p] ELSE pc[p]]
  BY DEF FreeCode
<1>2. \A p \in S : fate[p] \in {pc[p], "orig", "lost"}
  BY <1>1 DEF Fate
<1>3. \A p \in Procs : pc'[p] = pc[p] \/ (p \in S /\ pc'[p] \in {"orig", "lost"})
  BY <1>1, <1>2
<1>4. \A p \in Procs :
         pc[p] \in {"run", "inc", "get", "dec", "put", "check", "orig", "unhash", "gone", "lost"}
  BY DEF Types
<1> QED
  BY <1>1, <1>3, <1>4

(* ... there is none unless a module is unloaded under a call.             *)
LEMMA NoFate ==
  ASSUME "unload" \notin Careless, Types, NEW S \in SUBSET Procs, FreeCode(S)
  PROVE  pc' = pc /\ S = {}
  BY DEF FreeCode, Types

LEMMA TypesInit == Init => Types
<1> SUFFICES ASSUME Init PROVE Types
  OBVIOUS
<1> USE DEF Init, Idle, NotListed, Calls
<1>1. plist \in Seq(Procs) /\ listed \in [Procs -> Nat] /\ process_cnt \in Nat
  OBVIOUS
<1>2. /\ pc \in [Procs -> {"run", "inc", "get", "dec", "put", "check", "orig", "unhash", "gone", "lost"}]
      /\ nr \in [Procs -> Calls \cup {"close"}]
  OBVIOUS
<1>3. /\ sys_call_table \in [Calls -> {"sys", "custom", "none"}]
      /\ original \in [Calls -> {"none", "sys", "custom"}]
  OBVIOUS
<1>4. rtps \in [at : {"idle", "list", "print"}, count : Nat, rows : Nat]
  OBVIOUS
<1>5. /\ rt \subseteq Procs /\ psdev \in BOOLEAN /\ clean \in {"out", "loading", "in", "unloading"}
      /\ opened \subseteq Procs /\ reported \subseteq Procs /\ owed \subseteq Procs
  BY Zenon
<1>6. refs \in Int /\ Device_Open \in Int
  OBVIOUS
<1> QED
  BY ONLY <1>1, <1>2, <1>3, <1>4, <1>5, <1>6 DEF Types

LEMMA TypesNext == Types /\ [Next]_vars => Types'
<1> SUFFICES ASSUME Types, [Next]_vars PROVE Types'
  OBVIOUS
<1> USE DEF Types, devVars, cleanVars, Idle, NotListed, Calls
<1>1. CASE DevLoad
  BY <1>1 DEF DevLoad
<1>2. CASE DevUnload
  <2>1. FreeCode({p \in Procs : Inside(p)})
    BY <1>2 DEF DevUnload
  <2>2. pc' \in [Procs -> {"run", "inc", "get", "dec", "put", "check", "orig", "unhash", "gone", "lost"}]
    BY <2>1, Fates
  <2> QED
    BY <1>2, <2>2 DEF DevUnload
<1>3. CASE RtpsCount
  <2>1. Cardinality(RealTime(1)) \in Nat
    BY RealTimeFinite
  <2> QED
    BY <1>3, <2>1 DEF RtpsCount
<1>4. CASE RtpsList
  <2>1. Cardinality(RealTime(1)) \in Nat
    BY RealTimeFinite
  <2> QED
    BY <1>4, <2>1 DEF RtpsList, RowsOf
<1>5. CASE RtpsPrint
  BY <1>5 DEF RtpsPrint
<1>6. CASE CleanSave
  BY <1>6 DEF CleanSave, KeptCall
<1>7. CASE CleanFree
  <2>1. FreeCode({p \in Procs : pc[p] = "check"})
    BY <1>7 DEF CleanFree
  <2>2. pc' \in [Procs -> {"run", "inc", "get", "dec", "put", "check", "orig", "unhash", "gone", "lost"}]
    BY <2>1, Fates
  <2> QED
    BY <1>7, <2>2 DEF CleanFree
<1>8. ASSUME NEW n \in Calls, CleanReplace(n) PROVE Types'
  BY <1>8 DEF CleanReplace
<1>9. ASSUME NEW n \in Calls, CleanRestore(n) PROVE Types'
  BY <1>9 DEF CleanRestore
<1>10. ASSUME NEW p \in Procs, OpenTest(p) PROVE Types'
  BY <1>10 DEF OpenTest
<1>11. ASSUME NEW p \in Procs, OpenInc(p) PROVE Types'
  BY <1>11 DEF OpenInc
<1>12. ASSUME NEW p \in Procs, OpenGet(p) PROVE Types'
  BY <1>12 DEF OpenGet, Held
<1>13. ASSUME NEW p \in Procs, CloseFile(p) PROVE Types'
  BY <1>13 DEF CloseFile
<1>14. ASSUME NEW p \in Procs, DeviceRead(p) PROVE Types'
  <2>1. IsFiniteSet(RealTime(process_cnt + 1))
    BY RealTimeFinite
  <2> DEFINE times(q) == Cardinality({i \in Returned : plist[i] = q})
  <2>2. \A q \in Procs : times(q) \in Nat
    <3> TAKE q \in Procs
    <3>1. {i \in Returned : plist[i] = q} \in SUBSET RealTime(process_cnt + 1)
      BY DEF Returned
    <3> QED
      BY <2>1, <3>1, FS_Subset, FS_CardinalityType
  <2>3. listed' \in [Procs -> Nat]
    <3>1. listed' = [q \in Procs |-> listed[q] + times(q)]
      BY <1>14 DEF DeviceRead
    <3> HIDE DEF times
    <3> QED
      BY <2>2, <3>1
  <2>4. process_cnt' \in Nat
    BY <1>14 DEF DeviceRead, Counted
  <2> QED
    BY <1>14, <2>3, <2>4 DEF DeviceRead
<1>15. ASSUME NEW p \in Procs, NEW n \in Calls, ExitCall(p, n) PROVE Types'
  BY <1>15 DEF ExitCall
<1>16. ASSUME NEW p \in Procs, CustomExit(p) PROVE Types'
  BY <1>16 DEF CustomExit, LeftOpen
<1>17. ASSUME NEW p \in Procs, OriginalExit(p) PROVE Types'
  BY <1>17 DEF OriginalExit
<1>18. ASSUME NEW p \in Procs, ReleaseDec(p) PROVE Types'
  BY <1>18 DEF ReleaseDec, Freed
<1>19. ASSUME NEW p \in Procs, ReleasePut(p) PROVE Types'
  BY <1>19 DEF ReleasePut, Put
<1>20. ASSUME NEW p \in Procs, Unhash(p) PROVE Types'
  <2>1. plist' \in Seq(Procs)
    BY <1>20 DEF Unhash, RemoveAt
  <2> QED
    BY <1>20, <2>1 DEF Unhash
<1>21. ASSUME NEW p \in Procs, Fork(p) PROVE Types'
  BY <1>21 DEF Fork
<1>23. ASSUME NEW p \in Procs, SetPolicy(p) PROVE Types'
  BY <1>23 DEF SetPolicy
<1>22. CASE UNCHANGED vars
  BY <1>22 DEF vars
<1> QED
  BY <1>1, <1>2, <1>3, <1>4, <1>5, <1>6, <1>7, <1>8, <1>9, <1>10, <1>11,
     <1>12, <1>13, <1>14, <1>15, <1>16, <1>17, <1>18, <1>19, <1>20, <1>21, <1>22, <1>23 DEF Next, Exits

-----------------------------------------------------------------------------
(* The processes that count in Device_Open, with the one about to, and     *)
(* those that count in refs.                                               *)
Holds(p) == p \in opened \/ pc[p] \in {"get", "dec"}
Busy(p) == Holds(p) \/ pc[p] = "inc"
Users == {p \in Procs : p \in opened \/ pc[p] \in {"dec", "put"}}

(* A process with the device open is in none of its functions.             *)
OpenInv == \A p \in Procs : p \in opened => pc[p] \in {"run", "check", "orig", "lost"}

(* Whoever has the device open or is in one of its functions finds the     *)
(* module loaded.                                                          *)
LoadedInv == \A p \in Procs : p \in opened \/ Inside(p) => psdev

(* There is one such process at most, and Device_Open counts it.           *)
DeviceInv ==
    /\ \A p \in Procs :
          /\ Holds(p) => Device_Open = 1
          /\ \A q \in Procs : Busy(p) /\ Busy(q) => p = q
    /\ (\A p \in Procs : ~Holds(p)) => Device_Open = 0

CountInv == IsFiniteSet(Users) /\ refs = Cardinality(Users)

LEMMA CountInit == Init => CountInv
<1> SUFFICES ASSUME Init PROVE CountInv
  OBVIOUS
<1>1. Users = {}
  BY DEF Init, Users
<1> QED
  BY <1>1, FS_EmptySet DEF Init, CountInv

LEMMA CountNext == Types /\ OpenInv /\ CountInv /\ [Next]_vars => CountInv'
<1> SUFFICES ASSUME Types, OpenInv, CountInv, [Next]_vars PROVE CountInv'
  OBVIOUS
<1>0. ASSUME Users' = Users, refs' = refs PROVE CountInv'
  BY <1>0 DEF CountInv
<1> USE DEF devVars, cleanVars
<1>1. CASE DevLoad
  BY <1>1, <1>0 DEF DevLoad, Users
<1>2. CASE DevUnload
  <2>1. FreeCode({p \in Procs : Inside(p)}) /\ refs = 0 /\ refs' = refs /\ opened' = opened
    BY <1>2 DEF DevUnload
  <2>2. \A p \in Procs : pc'[p] = pc[p] \/ pc'[p] \in {"orig", "lost"}
    BY <2>1, Fates
  <2>3. Users = {}
    BY <2>1, FS_EmptySet DEF CountInv
  <2>4. Users' = {}
    BY <2>1, <2>2, <2>3 DEF Users
  <2> QED
    BY <1>0, <2>1, <2>3, <2>4
<1>3. CASE RtpsCount
  BY <1>3, <1>0 DEF RtpsCount, Users
<1>4. CASE RtpsList
  BY <1>4, <1>0 DEF RtpsList, Users
<1>5. CASE RtpsPrint
  BY <1>5, <1>0 DEF RtpsPrint, Users
<1>6. CASE CleanSave
  BY <1>6, <1>0 DEF CleanSave, Users
<1>7. CASE CleanFree
  <2>1. FreeCode({p \in Procs : pc[p] = "check"}) /\ refs' = refs /\ opened' = opened
    BY <1>7 DEF CleanFree
  <2>2. \A p \in Procs : pc'[p] = pc[p] \/ (pc[p] = "check" /\ pc'[p] \in {"orig", "lost"})
    BY <2>1, Fates
  <2>3. Users' = Users
    BY <2>1, <2>2 DEF Users
  <2> QED
    BY <1>0, <2>1, <2>3
<1>8. ASSUME NEW n \in Calls, CleanReplace(n) PROVE CountInv'
  BY <1>8, <1>0 DEF CleanReplace, Users
<1>9. ASSUME NEW n \in Calls, CleanRestore(n) PROVE CountInv'
  BY <1>9, <1>0 DEF CleanRestore, Users
<1>10. ASSUME NEW p \in Procs, OpenTest(p) PROVE CountInv'
  BY <1>10, <1>0 DEF OpenTest, Users, Types, OpenInv
<1>11. ASSUME NEW p \in Procs, OpenInc(p) PROVE CountInv'
  BY <1>11, <1>0 DEF OpenInc, Users, Types, OpenInv
<1>12. ASSUME NEW p \in Procs, OpenGet(p) PROVE CountInv'
  <2>1. Users' = Users \cup {p} /\ p \notin Users /\ refs' = refs + 1
    BY <1>12 DEF OpenGet, Held, Users, Types, OpenInv
  <2> QED
    BY <2>1, FS_AddElement DEF CountInv
<1>13. ASSUME NEW p \in Procs, CloseFile(p) PROVE CountInv'
  BY <1>13, <1>0 DEF CloseFile, Users, Types, OpenInv
<1>14. ASSUME NEW p \in Procs, DeviceRead(p) PROVE CountInv'
  BY <1>14, <1>0 DEF DeviceRead, Users
<1>15. ASSUME NEW p \in Procs, NEW n \in Calls, ExitCall(p, n) PROVE CountInv'
  BY <1>15, <1>0 DEF ExitCall, Users, Types, OpenInv
<1>16. ASSUME NEW p \in Procs, CustomExit(p) PROVE CountInv'
  BY <1>16, <1>0 DEF CustomExit, Users, Types, OpenInv
<1>17. ASSUME NEW p \in Procs, OriginalExit(p) PROVE CountInv'
  BY <1>17, <1>0 DEF OriginalExit, Users, Types, OpenInv
<1>18. ASSUME NEW p \in Procs, ReleaseDec(p) PROVE CountInv'
  BY <1>18, <1>0 DEF ReleaseDec, Users, Types, OpenInv
<1>19. ASSUME NEW p \in Procs, ReleasePut(p) PROVE CountInv'
  <2>1. Users' = Users \ {p} /\ p \in Users /\ refs' = refs - 1
    BY <1>19 DEF ReleasePut, Put, Users, Types, OpenInv
  <2> QED
    BY <2>1, FS_RemoveElement DEF CountInv
<1>20. ASSUME NEW p \in Procs, Unhash(p) PROVE CountInv'
  BY <1>20, <1>0 DEF Unhash, Users, Types, OpenInv
<1>21. ASSUME NEW p \in Procs, Fork(p) PROVE CountInv'
  BY <1>21, <1>0 DEF Fork, Users, Types, OpenInv
<1>23. ASSUME NEW p \in Procs, SetPolicy(p) PROVE CountInv'
  BY <1>23, <1>0 DEF SetPolicy, Users
<1>22. CASE UNCHANGED vars
  BY <1>22, <1>0 DEF vars, Users
<1> QED
  BY <1>1, <1>2, <1>3, <1>4, <1>5, <1>6, <1>7, <1>8, <1>9, <1>10, <1>11,
     <1>12, <1>13, <1>14, <1>15, <1>16, <1>17, <1>18, <1>19, <1>20, <1>21, <1>22, <1>23 DEF Next, Exits

LEMMA OpenInit == Init => OpenInv
  BY DEF Init, OpenInv

LEMMA OpenNext == Types /\ OpenInv /\ [Next]_vars => OpenInv'
<1> SUFFICES ASSUME Types, OpenInv, [Next]_vars PROVE OpenInv'
  OBVIOUS
<1> USE DEF Types, OpenInv
<1>1. ASSUME NEW p \in Procs, OpenTest(p) PROVE OpenInv'
  BY <1>1 DEF OpenTest, devVars
<1>2. ASSUME NEW p \in Procs, OpenInc(p) PROVE OpenInv'
  BY <1>2 DEF OpenInc
<1>3. ASSUME NEW p \in Procs, OpenGet(p) PROVE OpenInv'
  BY <1>3 DEF OpenGet
<1>4. ASSUME NEW p \in Procs, CloseFile(p) PROVE OpenInv'
  BY <1>4 DEF CloseFile
<1>5. ASSUME NEW p \in Procs, ReleaseDec(p) PROVE OpenInv'
  BY <1>5 DEF ReleaseDec
<1>6. ASSUME NEW p \in Procs, ReleasePut(p) PROVE OpenInv'
  BY <1>6 DEF ReleasePut
<1>7. ASSUME NEW p \in Procs, CustomExit(p) PROVE OpenInv'
  BY <1>7 DEF CustomExit, devVars
<1>8. ASSUME NEW p \in Procs, OriginalExit(p) PROVE OpenInv'
  BY <1>8 DEF OriginalExit, devVars
<1>9. ASSUME NEW p \in Procs, Unhash(p) PROVE OpenInv'
  BY <1>9 DEF Unhash, devVars
<1>10. ASSUME NEW p \in Procs, Fork(p) PROVE OpenInv'
  BY <1>10 DEF Fork, devVars
<1>11. ASSUME NEW p \in Procs, NEW n \in Calls, ExitCall(p, n) PROVE OpenInv'
  BY <1>11 DEF ExitCall, devVars
<1>14. CASE DevUnload
  <2>1. FreeCode({p \in Procs : Inside(p)}) /\ opened' = opened
    BY <1>14 DEF DevUnload
  <2>2. \A p \in Procs : pc'[p] = pc[p] \/ pc'[p] \in {"orig", "lost"}
    BY <2>1, Fates
  <2> QED
    BY <2>1, <2>2
<1>15. CASE CleanFree
  <2>1. FreeCode({p \in Procs : pc[p] = "check"}) /\ opened' = opened
    BY <1>15 DEF CleanFree, devVars
  <2>2. \A p \in Procs : pc'[p] = pc[p] \/ pc'[p] \in {"orig", "lost"}
    BY <2>1, Fates
  <2> QED
    BY <2>1, <2>2
<1>12. CASE UNCHANGED <<pc, opened>>
  BY <1>12
<1>13. \/ UNCHANGED <<pc, opened>> \/ DevUnload \/ CleanFree
      \/ \E p \in Procs :
            \/ OpenTest(p) \/ OpenInc(p) \/ OpenGet(p) \/ CloseFile(p) \/ ReleaseDec(p) \/ ReleasePut(p)
            \/ CustomExit(p) \/ OriginalExit(p) \/ Unhash(p) \/ Fork(p)
            \/ \E n \in Calls : ExitCall(p, n)
  BY DEF Next, Exits, vars, devVars, cleanVars, DevLoad, DeviceRead, SetPolicy, RtpsCount,
         RtpsList, RtpsPrint, CleanSave, CleanReplace, CleanRestore
<1> QED
  BY <1>1, <1>2, <1>3, <1>4, <1>5, <1>6, <1>7, <1>8, <1>9, <1>10, <1>11, <1>12, <1>13, <1>14, <1>15

LEMMA LoadedInit == Init => LoadedInv
  BY DEF Init, LoadedInv, Inside

LEMMA LoadedNext ==
  ASSUME "unload" \notin Careless
  PROVE  Types /\ OpenInv /\ CountInv /\ LoadedInv /\ [Next]_vars => LoadedInv'
<1> SUFFICES ASSUME Types, OpenInv, CountInv, LoadedInv, [Next]_vars PROVE LoadedInv'
  OBVIOUS
<1> USE DEF Types, OpenInv, LoadedInv, Inside, devVars, cleanVars
<1>1. CASE DevUnload
  <2>1. Users = {}
    BY <1>1, FS_EmptySet DEF DevUnload, CountInv
  <2> QED
    <3>1. FreeCode({p \in Procs : Inside(p)}) /\ opened' = opened
      BY <1>1 DEF DevUnload
    <3>2. pc' = pc /\ {p \in Procs : Inside(p)} = {}
      BY <3>1, NoFate
    <3>3. \A p \in Procs : p \notin opened /\ ~Inside(p)
      BY <2>1, <3>2 DEF Users
    <3> QED
      BY <3>1, <3>2, <3>3
<1>2. CASE DevLoad
  BY <1>2 DEF DevLoad
<1>3. ASSUME NEW p \in Procs,
             OpenTest(p) \/ OpenInc(p) \/ OpenGet(p) \/ CloseFile(p) \/ ReleaseDec(p) \/ ReleasePut(p)
      PROVE  LoadedInv'
  BY <1>3 DEF OpenTest, OpenInc, OpenGet, CloseFile, ReleaseDec, ReleasePut
<1>4. ASSUME NEW p \in Procs,
             \/ CustomExit(p) \/ OriginalExit(p) \/ Unhash(p) \/ Fork(p)
             \/ \E n \in Calls : ExitCall(p, n)
      PROVE  LoadedInv'
  BY <1>4 DEF CustomExit, OriginalExit, Unhash, Fork, ExitCall
<1>7. CASE CleanFree
  <2>1. FreeCode({p \in Procs : pc[p] = "check"}) /\ UNCHANGED <<opened, psdev>>
    BY <1>7 DEF CleanFree
  <2>2. pc' = pc
    BY <2>1, NoFate
  <2> QED
    BY <2>1, <2>2
<1>5. CASE UNCHANGED <<pc, opened, psdev>>
  BY <1>5
<1>6. \/ UNCHANGED <<pc, opened, psdev>> \/ DevLoad \/ DevUnload \/ CleanFree
      \/ \E p \in Procs :
            \/ OpenTest(p) \/ OpenInc(p) \/ OpenGet(p) \/ CloseFile(p) \/ ReleaseDec(p) \/ ReleasePut(p)
            \/ CustomExit(p) \/ OriginalExit(p) \/ Unhash(p) \/ Fork(p)
            \/ \E n \in Calls : ExitCall(p, n)
  BY DEF Next, Exits, vars, DeviceRead, RtpsCount, RtpsList, RtpsPrint,
         CleanSave, SetPolicy, CleanReplace, CleanRestore
<1> QED
  BY <1>1, <1>2, <1>3, <1>4, <1>5, <1>6, <1>7

LEMMA DeviceInit == Init => DeviceInv
  BY DEF Init, DeviceInv, Holds, Busy, Inside

LEMMA DeviceNext ==
  ASSUME "opens" \notin Careless, "unload" \notin Careless
  PROVE  Types /\ OpenInv /\ LoadedInv /\ DeviceInv /\ [Next]_vars => DeviceInv'
<1> SUFFICES ASSUME Types, OpenInv, LoadedInv, DeviceInv, [Next]_vars PROVE DeviceInv'
  OBVIOUS
<1> USE DEF Types, OpenInv, LoadedInv, DeviceInv, Holds, Busy, Inside, devVars, cleanVars
<1>1. CASE DevLoad
  BY <1>1 DEF DevLoad
<1>2. CASE DevUnload
  <2>1. FreeCode({p \in Procs : Inside(p)})
    BY <1>2 DEF DevUnload
  <2>2. pc' = pc
    BY <2>1, NoFate
  <2> QED
    BY <1>2, <2>2 DEF DevUnload
<1>3. CASE RtpsCount
  BY <1>3 DEF RtpsCount
<1>4. CASE RtpsList
  BY <1>4 DEF RtpsList, RowsOf
<1>5. CASE RtpsPrint
  BY <1>5 DEF RtpsPrint
<1>6. CASE CleanSave
  BY <1>6 DEF CleanSave, KeptCall
<1>7. CASE CleanFree
  <2>1. FreeCode({p \in Procs : pc[p] = "check"})
    BY <1>7 DEF CleanFree
  <2>2. pc' = pc
    BY <2>1, NoFate
  <2> QED
    BY <1>7, <2>2 DEF CleanFree
<1>8. ASSUME NEW n \in Calls, CleanReplace(n) PROVE DeviceInv'
  BY <1>8 DEF CleanReplace
<1>9. ASSUME NEW n \in Calls, CleanRestore(n) PROVE DeviceInv'
  BY <1>9 DEF CleanRestore
<1>10. ASSUME NEW p \in Procs, OpenTest(p) PROVE DeviceInv'
  BY <1>10 DEF OpenTest
<1>11. ASSUME NEW p \in Procs, OpenInc(p) PROVE DeviceInv'
  <2>1. /\ pc[p] = "inc" /\ pc' = [pc EXCEPT ![p] = "get"] /\ opened' = opened
        /\ \E value \in {0, Device_Open} : Device_Open' = value + 1
    BY <1>11 DEF OpenInc
  <2>2. p \notin opened
    BY ONLY <2>1, OpenInv DEF OpenInv
  <2>3. \A q \in Procs : Busy(q) => q = p
    BY ONLY <2>1, DeviceInv DEF DeviceInv, Busy
  <2>4. Device_Open = 0
    BY ONLY <2>1, <2>2, <2>3, DeviceInv DEF DeviceInv, Busy, Holds
  <2>5. Device_Open' = 1
    BY ONLY <2>1, <2>4
  <2>6. \A q \in Procs \ {p} : pc'[q] = pc[q]
    BY ONLY <2>1, Types DEF Types
  <2>7. \A q \in Procs : Busy(q)' => q = p
    BY ONLY <2>1, <2>2, <2>3, <2>6 DEF Busy, Holds
  <2>8. Holds(p)'
    BY ONLY <2>1, Types DEF Holds, Types
  <2> QED
    BY ONLY <2>5, <2>7, <2>8 DEF DeviceInv, Busy
<1>12. ASSUME NEW p \in Procs, OpenGet(p) PROVE DeviceInv'
  BY <1>12 DEF OpenGet, Held
<1>13. ASSUME NEW p \in Procs, CloseFile(p) PROVE DeviceInv'
  BY <1>13 DEF CloseFile
<1>14. ASSUME NEW p \in Procs, DeviceRead(p) PROVE DeviceInv'
  BY <1>14 DEF DeviceRead, Counted
<1>15. ASSUME NEW p \in Procs, NEW n \in Calls, ExitCall(p, n) PROVE DeviceInv'
  BY <1>15 DEF ExitCall
<1>16. ASSUME NEW p \in Procs, CustomExit(p) PROVE DeviceInv'
  BY <1>16 DEF CustomExit, LeftOpen
<1>17. ASSUME NEW p \in Procs, OriginalExit(p) PROVE DeviceInv'
  BY <1>17 DEF OriginalExit
<1>18. ASSUME NEW p \in Procs, ReleaseDec(p) PROVE DeviceInv'
  <2>1. /\ pc[p] = "dec" /\ pc' = [pc EXCEPT ![p] = "put"] /\ opened' = opened
        /\ Device_Open' = Device_Open - 1
    BY <1>18 DEF ReleaseDec, Freed
  <2>2. Device_Open' = 0 /\ p \notin opened
    <3>1. Device_Open = 1
      BY ONLY <2>1, DeviceInv DEF DeviceInv, Holds
    <3>2. p \notin opened
      BY ONLY <2>1, OpenInv DEF OpenInv
    <3> QED
      BY ONLY <2>1, <3>1, <3>2
  <2>3. \A q \in Procs : Busy(q)' => q # p /\ Busy(q)
    BY <2>1, <2>2
  <2>4. \A q \in Procs : ~Busy(q)'
    BY <2>1, <2>3
  <2> QED
    BY <2>2, <2>4
<1>19. ASSUME NEW p \in Procs, ReleasePut(p) PROVE DeviceInv'
  BY <1>19 DEF ReleasePut, Put
<1>20. ASSUME NEW p \in Procs, Unhash(p) PROVE DeviceInv'
  BY <1>20 DEF Unhash
<1>21. ASSUME NEW p \in Procs, Fork(p) PROVE DeviceInv'
  BY <1>21 DEF Fork
<1>23. ASSUME NEW p \in Procs, SetPolicy(p) PROVE DeviceInv'
  BY <1>23 DEF SetPolicy
<1>22. CASE UNCHANGED vars
  BY <1>22 DEF vars
<1> QED
  BY <1>1, <1>2, <1>3, <1>4, <1>5, <1>6, <1>7, <1>8, <1>9, <1>10, <1>11,
     <1>12, <1>13, <1>14, <1>15, <1>16, <1>17, <1>18, <1>19, <1>20, <1>21, <1>22, <1>23 DEF Next, Exits

(* psdev has one user at most, though the test of Device_Open and its      *)
(* increment are two steps, and no open or close leaves a trace in it, as  *)
(* long as its users do not open it at the same moment and modules are not *)
(* unloaded under a call (psdev.c:54-74).                                  *)
THEOREM DeviceExclusive ==
  ASSUME "opens" \notin Careless, "unload" \notin Careless
  PROVE  Spec => []DeviceExact
<1>1. Types /\ DeviceInv => DeviceExact
  <2> SUFFICES ASSUME Types, DeviceInv PROVE DeviceExact
    OBVIOUS
  <2>1. opened = {} \/ \E p \in Procs : opened = {p}
    <3>1. ASSUME NEW p \in opened, NEW q \in opened PROVE p = q
      <4>1. p \in Procs /\ q \in Procs
        BY DEF Types
      <4>2. Busy(p) /\ Busy(q)
        BY DEF Busy, Holds
      <4> QED
        BY <4>1, <4>2 DEF DeviceInv
    <3>2. CASE opened # {}
      <4>1. PICK p \in opened : TRUE
        BY <3>2
      <4>2. p \in Procs /\ opened = {p}
        BY <3>1 DEF Types
      <4> QED
        BY <4>2
    <3> QED
      BY <3>2
  <2>2. Cardinality(opened) = IF opened = {} THEN 0 ELSE 1
    BY <2>1, FS_EmptySet, FS_Singleton
  <2>3. (\A p \in Procs : ~Inside(p)) => Device_Open = IF opened = {} THEN 0 ELSE 1
    BY DEF Types, DeviceInv, Holds, Inside
  <2> QED
    BY <2>2, <2>3 DEF DeviceExact
<1> QED
  BY TypesInit, TypesNext, OpenInit, OpenNext, CountInit, CountNext, LoadedInit, LoadedNext,
     DeviceInit, DeviceNext, <1>1, PTL DEF Spec

(* The module is there as long as a process has the device open: the use   *)
(* count is the number of processes that have it open or are closing it.   *)
THEOREM ModuleNotUnloaded ==
  ASSUME "unload" \notin Careless
  PROVE  Spec => []ModuleHeld
<1>1. Types /\ LoadedInv => ModuleHeld
  BY DEF Types, LoadedInv, ModuleHeld
<1> QED
  BY TypesInit, TypesNext, OpenInit, OpenNext, CountInit, CountNext, LoadedInit, LoadedNext,
     <1>1, PTL DEF Spec

-----------------------------------------------------------------------------
(* A process is reported in custom_exit, which all exits go through while  *)
(* the module is in place, and forgotten when it is gone.                  *)
ReportInv ==
    /\ clean = "in" => \A n \in Calls : sys_call_table[n] = "custom"
    /\ \A p \in owed :
          /\ Exiting(p) /\ nr[p] # "close"
          /\ pc[p] = "check" => p \in opened \cap Watched
          /\ pc[p] # "check" => p \in reported

LEMMA ReportInit == Init => ReportInv
  BY DEF Init, ReportInv

LEMMA ReportNext ==
  ASSUME "unload" \notin Careless
  PROVE  Types /\ ReportInv /\ [Next]_vars => ReportInv'
<1> SUFFICES ASSUME Types, ReportInv, [Next]_vars PROVE ReportInv'
  OBVIOUS
<1> USE DEF Types, ReportInv, Exiting, Calls, devVars, cleanVars
<1>1. CASE DevLoad
  BY <1>1 DEF DevLoad
<1>2. CASE DevUnload
  <2>1. FreeCode({p \in Procs : Inside(p)})
    BY <1>2 DEF DevUnload
  <2>2. pc' = pc
    BY <2>1, NoFate
  <2> QED
    BY <1>2, <2>2 DEF DevUnload
<1>3. CASE RtpsCount
  BY <1>3 DEF RtpsCount
<1>4. CASE RtpsList
  BY <1>4 DEF RtpsList, RowsOf
<1>5. CASE RtpsPrint
  BY <1>5 DEF RtpsPrint
<1>6. CASE CleanSave
  BY <1>6 DEF CleanSave, KeptCall
<1>7. CASE CleanFree
  <2>1. FreeCode({p \in Procs : pc[p] = "check"})
    BY <1>7 DEF CleanFree
  <2>2. pc' = pc
    BY <2>1, NoFate
  <2> QED
    BY <1>7, <2>2 DEF CleanFree
<1>8. ASSUME NEW n \in Calls, CleanReplace(n) PROVE ReportInv'
  BY <1>8 DEF CleanReplace
<1>9. ASSUME NEW n \in Calls, CleanRestore(n) PROVE ReportInv'
  BY <1>9 DEF CleanRestore
<1>10. ASSUME NEW p \in Procs, OpenTest(p) PROVE ReportInv'
  BY <1>10 DEF OpenTest
<1>11. ASSUME NEW p \in Procs, OpenInc(p) PROVE ReportInv'
  BY <1>11 DEF OpenInc
<1>12. ASSUME NEW p \in Procs, OpenGet(p) PROVE ReportInv'
  BY <1>12 DEF OpenGet, Held
<1>13. ASSUME NEW p \in Procs, CloseFile(p) PROVE ReportInv'
  BY <1>13 DEF CloseFile
<1>14. ASSUME NEW p \in Procs, DeviceRead(p) PROVE ReportInv'
  BY <1>14 DEF DeviceRead, Counted
<1>15. ASSUME NEW p \in Procs, NEW n \in Calls, ExitCall(p, n) PROVE ReportInv'
  <2>1. p \notin owed
    BY <1>15 DEF ExitCall
  <2>2. CASE clean = "in" /\ p \in opened \cap Watched
    BY <1>15, <2>1, <2>2 DEF ExitCall
  <2>3. CASE ~(clean = "in" /\ p \in opened \cap Watched)
    BY <1>15, <2>1, <2>3 DEF ExitCall
  <2> QED
    BY <2>2, <2>3
<1>16. ASSUME NEW p \in Procs, CustomExit(p) PROVE ReportInv'
  BY <1>16 DEF CustomExit, LeftOpen
<1>17. ASSUME NEW p \in Procs, OriginalExit(p) PROVE ReportInv'
  BY <1>17 DEF OriginalExit
<1>18. ASSUME NEW p \in Procs, ReleaseDec(p) PROVE ReportInv'
  BY <1>18 DEF ReleaseDec, Freed
<1>19. ASSUME NEW p \in Procs, ReleasePut(p) PROVE ReportInv'
  BY <1>19 DEF ReleasePut, Put
<1>20. ASSUME NEW p \in Procs, Unhash(p) PROVE ReportInv'
  BY <1>20 DEF Unhash
<1>21. ASSUME NEW p \in Procs, Fork(p) PROVE ReportInv'
  BY <1>21 DEF Fork
<1>23. ASSUME NEW p \in Procs, SetPolicy(p) PROVE ReportInv'
  BY <1>23 DEF SetPolicy
<1>22. CASE UNCHANGED vars
  BY <1>22 DEF vars
<1> QED
  BY <1>1, <1>2, <1>3, <1>4, <1>5, <1>6, <1>7, <1>8, <1>9, <1>10, <1>11,
     <1>12, <1>13, <1>14, <1>15, <1>16, <1>17, <1>18, <1>19, <1>20, <1>21, <1>22, <1>23 DEF Next, Exits

(* Every watched process that calls exit with psdev open while cleanup is  *)
(* in place is reported, whatever other processes do and however the       *)
(* modules come and go meanwhile, as long as none is unloaded under a call *)
(* into it (cleanup.c:42-117).                                             *)
THEOREM OpenFilesReported ==
  ASSUME "unload" \notin Careless
  PROVE  Spec => []LeftOpenReported
<1>1. ReportInv => LeftOpenReported
  BY DEF ReportInv, LeftOpenReported
<1> QED
  BY TypesInit, TypesNext, ReportInit, ReportNext, <1>1, PTL DEF Spec

-----------------------------------------------------------------------------
(* Nobody exits while processes are listed, through the device or by rtps; *)
(* the list only grows then.                                               *)
ListInv ==
    /\ \A p \in Procs : pc[p] \in {"inc", "get"} => \A q \in Procs : ~Exiting(q)
    /\ \A p \in opened, q \in Procs : Exiting(q) => p = q
    /\ rtps.at # "idle" => \A q \in Procs : ~Exiting(q)
    /\ \A i, j \in 1 .. Len(plist) : plist[i] = plist[j] => i = j
    /\ \A i \in 1 .. Len(plist) : pc[plist[i]] # "gone"

(* What is left of a list when one of its entries is removed.              *)
LEMMA Removed ==
  ASSUME NEW S, NEW s \in Seq(S), NEW i \in 1 .. Len(s)
  PROVE  /\ Len(RemoveAt(s, i)) = Len(s) - 1
         /\ \A j \in 1 .. Len(s) - 1 : RemoveAt(s, i)[j] = IF j < i THEN s[j] ELSE s[j + 1]
<1> DEFINE a == SubSeq(s, 1, i - 1)
           b == SubSeq(s, i + 1, Len(s))
<1>1. a \in Seq(S) /\ Len(a) = i - 1 /\ \A j \in 1 .. i - 1 : a[j] = s[j]
  OBVIOUS
<1>2. b \in Seq(S) /\ Len(b) = Len(s) - i /\ \A j \in 1 .. Len(s) - i : b[j] = s[i + j]
  OBVIOUS
<1>3. RemoveAt(s, i) = a \o b
  BY DEF RemoveAt
<1> HIDE DEF a, b
<1>4. Len(a \o b) = Len(s) - 1
  BY <1>1, <1>2
<1>5. ASSUME NEW j \in 1 .. Len(s) - 1
      PROVE  (a \o b)[j] = IF j < i THEN s[j] ELSE s[j + 1]
  <2>1. CASE j < i
    BY <1>1, <1>2, <2>1
  <2>2. CASE ~(j < i)
    <3>1. (a \o b)[j] = b[j - (i - 1)]
      BY <1>1, <1>2, <2>2
    <3>2. j - (i - 1) \in 1 .. Len(s) - i
      BY <2>2
    <3>3. b[j - (i - 1)] = s[i + (j - (i - 1))]
      BY <1>2, <3>2
    <3>4. i + (j - (i - 1)) = j + 1
      BY <2>2
    <3> QED
      BY <3>1, <3>3, <3>4, <2>2
  <2> QED
    BY <2>1, <2>2
<1> QED
  BY <1>3, <1>4, <1>5

(* If no entry occurs twice, none does afterwards and the removed one is   *)
(* not left.                                                               *)
LEMMA RemovedDistinct ==
  ASSUME NEW S, NEW s \in Seq(S), NEW i \in 1 .. Len(s),
         \A j, k \in 1 .. Len(s) : s[j] = s[k] => j = k
  PROVE  /\ \A j, k \in 1 .. Len(RemoveAt(s, i)) : RemoveAt(s, i)[j] = RemoveAt(s, i)[k] => j = k
         /\ \A j \in 1 .. Len(RemoveAt(s, i)) :
               RemoveAt(s, i)[j] # s[i] /\ \E k \in 1 .. Len(s) : RemoveAt(s, i)[j] = s[k]
<1> DEFINE r == RemoveAt(s, i)
           old(j) == IF j < i THEN j ELSE j + 1
<1>1. Len(s) \in Nat /\ i \in Nat /\ Len(r) = Len(s) - 1
  BY Removed
<1>2. \A j \in 1 .. Len(r) : r[j] = IF j < i THEN s[j] ELSE s[j + 1]
  BY <1>1, Removed
<1> HIDE DEF r
<1>3. \A j \in 1 .. Len(r) : old(j) \in 1 .. Len(s) /\ old(j) # i /\ r[j] = s[old(j)]
  BY <1>1, <1>2
<1>4. \A j, k \in 1 .. Len(r) : old(j) = old(k) => j = k
  BY <1>1
<1> HIDE DEF old
<1>5. \A j, k \in 1 .. Len(r) : r[j] = r[k] => j = k
  BY <1>3, <1>4
<1>6. \A j \in 1 .. Len(r) : r[j] # s[i] /\ \E k \in 1 .. Len(s) : r[j] = s[k]
  BY <1>3
<1> QED
  BY <1>5, <1>6 DEF r

LEMMA ListInit == Init => ListInv
<1> SUFFICES ASSUME Init PROVE ListInv
  OBVIOUS
<1>1. Len(plist) = 0 /\ opened = {} /\ rtps.at = "idle" /\ \A p \in Procs : pc[p] = "gone"
  BY DEF Init, Idle
<1> QED
  BY <1>1 DEF ListInv, Exiting

LEMMA ListNext ==
  ASSUME "exit" \notin Careless, "unload" \notin Careless
  PROVE  Types /\ ListInv /\ [Next]_vars => ListInv'
<1> SUFFICES ASSUME Types, ListInv, [Next]_vars PROVE ListInv'
  OBVIOUS
<1> USE DEF Types, ListInv, Exiting, Idle, Calls, devVars, cleanVars
<1>1. CASE DevLoad
  BY <1>1 DEF DevLoad
<1>2. CASE DevUnload
  <2>1. FreeCode({p \in Procs : Inside(p)})
    BY <1>2 DEF DevUnload
  <2>2. pc' = pc
    BY <2>1, NoFate
  <2> QED
    BY <1>2, <2>2 DEF DevUnload
<1>3. CASE RtpsCount
  BY <1>3 DEF RtpsCount
<1>4. CASE RtpsList
  BY <1>4 DEF RtpsList
<1>5. CASE RtpsPrint
  BY <1>5 DEF RtpsPrint
<1>6. CASE CleanSave
  BY <1>6 DEF CleanSave
<1>7. CASE CleanFree
  <2>1. FreeCode({p \in Procs : pc[p] = "check"})
    BY <1>7 DEF CleanFree
  <2>2. pc' = pc
    BY <2>1, NoFate
  <2> QED
    BY <1>7, <2>2 DEF CleanFree
<1>8. ASSUME NEW n \in Calls, CleanReplace(n) PROVE ListInv'
  BY <1>8 DEF CleanReplace
<1>9. ASSUME NEW n \in Calls, CleanRestore(n) PROVE ListInv'
  BY <1>9 DEF CleanRestore
<1>10. ASSUME NEW p \in Procs, OpenTest(p) PROVE ListInv'
  BY <1>10 DEF OpenTest
<1>11. ASSUME NEW p \in Procs, OpenInc(p) PROVE ListInv'
  BY <1>11 DEF OpenInc
<1>12. ASSUME NEW p \in Procs, OpenGet(p) PROVE ListInv'
  BY <1>12 DEF OpenGet
<1>13. ASSUME NEW p \in Procs, CloseFile(p) PROVE ListInv'
  BY <1>13 DEF CloseFile
<1>14. ASSUME NEW p \in Procs, DeviceRead(p) PROVE ListInv'
  BY <1>14 DEF DeviceRead
<1>15. ASSUME NEW p \in Procs, NEW n \in Calls, ExitCall(p, n) PROVE ListInv'
  BY <1>15 DEF ExitCall
<1>16. ASSUME NEW p \in Procs, CustomExit(p) PROVE ListInv'
  BY <1>16 DEF CustomExit
<1>17. ASSUME NEW p \in Procs, OriginalExit(p) PROVE ListInv'
  BY <1>17 DEF OriginalExit
<1>18. ASSUME NEW p \in Procs, ReleaseDec(p) PROVE ListInv'
  BY <1>18 DEF ReleaseDec
<1>19. ASSUME NEW p \in Procs, ReleasePut(p) PROVE ListInv'
  BY <1>19 DEF ReleasePut
<1>20. ASSUME NEW p \in Procs, Unhash(p) PROVE ListInv'
  <2>1. PICK i \in 1 .. Len(plist) : plist[i] = p /\ plist' = RemoveAt(plist, i)
    BY <1>20 DEF Unhash
  <2>2. plist \in Seq(Procs) /\ \A j, k \in 1 .. Len(plist) : plist[j] = plist[k] => j = k
    OBVIOUS
  <2>3. /\ \A j, k \in 1 .. Len(plist') : plist'[j] = plist'[k] => j = k
        /\ \A j \in 1 .. Len(plist') :
              plist'[j] # p /\ \E k \in 1 .. Len(plist) : plist'[j] = plist[k]
    BY ONLY <2>1, <2>2, RemovedDistinct
  <2>4. \A j \in 1 .. Len(plist') : plist'[j] # p /\ pc[plist'[j]] # "gone" /\ plist'[j] \in Procs
    <3>1. \A k \in 1 .. Len(plist) : pc[plist[k]] # "gone" /\ plist[k] \in Procs
      OBVIOUS
    <3> QED
      BY ONLY <2>3, <3>1
  <2> QED
    BY <1>20, <2>3, <2>4 DEF Unhash
<1>21. ASSUME NEW p \in Procs, Fork(p) PROVE ListInv'
  BY <1>21 DEF Fork
<1>23. ASSUME NEW p \in Procs, SetPolicy(p) PROVE ListInv'
  BY <1>23 DEF SetPolicy
<1>22. CASE UNCHANGED vars
  BY <1>22 DEF vars
<1> QED
  BY <1>1, <1>2, <1>3, <1>4, <1>5, <1>6, <1>7, <1>8, <1>9, <1>10, <1>11,
     <1>12, <1>13, <1>14, <1>15, <1>16, <1>17, <1>18, <1>19, <1>20, <1>21, <1>22, <1>23 DEF Next, Exits

-----------------------------------------------------------------------------
(* The processes that were listed before, as the device counts them.       *)
Listed(p) == \E i \in RealTime(1) : i <= process_cnt /\ plist[i] = p

ListedInv ==
    (\E p \in Procs : p \in opened \/ pc[p] = "get") =>
       /\ process_cnt <= Len(plist)
       /\ \A p \in Procs : listed[p] = IF Listed(p) THEN 1 ELSE 0

(* All processes fit into the buffer of a read.                            *)
RoomForAll == IsFiniteSet(Procs) /\ Cardinality(Procs) <= Buffer

(* Nothing is dropped from a read then, ...                                *)
LEMMA AllReturned ==
  ASSUME RoomForAll, Types, ListInv
  PROVE  Returned = RealTime(process_cnt + 1)
<1> DEFINE new == RealTime(process_cnt + 1)
<1> SUFFICES ASSUME NEW i \in new PROVE Cardinality({j \in new : j <= i}) <= Buffer
  BY DEF Returned
<1> DEFINE upto == {j \in new : j <= i}
           at == [j \in upto |-> plist[j]]
<1>1. at \in Injection(upto, Procs)
  <2>1. at \in [upto -> Procs]
    BY DEF RealTime, Types
  <2>2. ASSUME NEW j \in upto, NEW k \in upto, at[j] = at[k] PROVE j = k
    <3>1. j \in 1 .. Len(plist) /\ k \in 1 .. Len(plist) /\ plist[j] = plist[k]
      BY <2>2 DEF RealTime, Types
    <3> QED
      BY <3>1 DEF ListInv
  <2> QED
    BY <2>1, <2>2 DEF Injection, IsInjective
<1>2. IsFiniteSet(upto) /\ Cardinality(upto) <= Cardinality(Procs)
  BY <1>1, FS_Injection DEF RoomForAll
<1>3. Cardinality(upto) \in Nat /\ Cardinality(Procs) \in Nat
  BY <1>2, FS_CardinalityType DEF RoomForAll
<1> QED
  BY <1>2, <1>3, PsToolsAssumption DEF RoomForAll

(* ... and it returns a process at most once.                              *)
LEMMA ReturnedTimes ==
  ASSUME RoomForAll, Types, ListInv, NEW q \in Procs
  PROVE  Cardinality({i \in Returned : plist[i] = q}) =
            IF \E i \in RealTime(process_cnt + 1) : plist[i] = q THEN 1 ELSE 0
<1> DEFINE new == RealTime(process_cnt + 1)
           occ == {i \in new : plist[i] = q}
<1>1. \A j, k \in new : plist[j] = plist[k] => j = k
  BY DEF RealTime, Types, ListInv
<1>2. CASE \E i \in new : plist[i] = q
  <2>1. PICK i \in new : plist[i] = q
    BY <1>2
  <2>2. occ = {i}
    BY <1>1, <2>1
  <2> QED
    BY <1>2, <2>2, FS_Singleton, AllReturned
<1>3. CASE ~\E i \in new : plist[i] = q
  <2>1. occ = {}
    BY <1>3
  <2> QED
    BY <1>3, <2>1, FS_EmptySet, AllReturned
<1> QED
  BY <1>2, <1>3

LEMMA ListedInit == Init => ListedInv
  BY DEF Init, ListedInv

LEMMA ListedNext ==
  ASSUME Careless = {}, RoomForAll
  PROVE  Types /\ OpenInv /\ LoadedInv /\ DeviceInv /\ ListInv /\ ListedInv /\ [Next]_vars => ListedInv'
<1> SUFFICES ASSUME Types, OpenInv, LoadedInv, DeviceInv, ListInv, ListedInv, [Next]_vars,
                    (\E p \in Procs : p \in opened \/ pc[p] = "get")'
             PROVE  /\ process_cnt' <= Len(plist')
                    /\ \A q \in Procs : listed'[q] = IF Listed(q)' THEN 1 ELSE 0
  BY DEF ListedInv
<1> DEFINE Open == \E p \in Procs : p \in opened \/ pc[p] = "get"
           Goal == /\ process_cnt' <= Len(plist')
                   /\ \A q \in Procs : listed'[q] = IF Listed(q)' THEN 1 ELSE 0
<1>0. ASSUME Open, UNCHANGED <<plist, rt, process_cnt, listed>> PROVE Goal
  BY <1>0 DEF ListedInv, Listed, RealTime
<1> USE DEF devVars, cleanVars
<1>1. ASSUME NEW p \in Procs, OpenInc(p) PROVE Goal
  <2>1. process_cnt' = 0 /\ listed' = [q \in Procs |-> 0] /\ UNCHANGED <<plist, rt>>
    BY <1>1 DEF OpenInc, NotListed
  <2> QED
    BY <2>1 DEF Types, Listed, RealTime
<1>2. ASSUME NEW p \in Procs, DeviceRead(p) PROVE Goal
  <2>1. /\ process_cnt' = Len(plist) /\ UNCHANGED <<plist, rt>>
        /\ process_cnt <= Len(plist) /\ \A q \in Procs : listed[q] = IF Listed(q) THEN 1 ELSE 0
    BY <1>2 DEF DeviceRead, Counted, ListedInv, Types
  <2>2. ASSUME NEW q \in Procs PROVE listed'[q] = IF Listed(q)' THEN 1 ELSE 0
    <3> DEFINE more == \E i \in RealTime(process_cnt + 1) : plist[i] = q
    <3>1. listed'[q] = listed[q] + Cardinality({i \in Returned : plist[i] = q})
      BY <1>2 DEF DeviceRead
    <3>2. Cardinality({i \in Returned : plist[i] = q}) = IF more THEN 1 ELSE 0
      BY ReturnedTimes
    <3>3. Listed(q)' <=> Listed(q) \/ more
      <4>1. RealTime(1)' = RealTime(1) /\ \A i \in RealTime(1) : i \in Int /\ i <= Len(plist)
        BY <2>1 DEF RealTime, Types
      <4>2. RealTime(process_cnt + 1) = {i \in RealTime(1) : i > process_cnt}
        BY DEF RealTime, Types
      <4>3. Listed(q)' <=> \E i \in RealTime(1) : plist[i] = q
        BY <2>1, <4>1 DEF Listed
      <4> QED
        BY <2>1, <4>1, <4>2, <4>3 DEF Listed, Types
    <3>4. ~(Listed(q) /\ more)
      BY <2>1 DEF Listed, RealTime, Types, ListInv
    <3> HIDE DEF more
    <3> QED
      BY <2>1, <3>1, <3>2, <3>3, <3>4
  <2> QED
    BY <2>1, <2>2 DEF Types
<1>3. ASSUME NEW p \in Procs, Fork(p) PROVE Goal
  <2>1. /\ Open /\ plist' = Append(plist, p) /\ UNCHANGED <<process_cnt, listed>>
        /\ \A q \in Procs \ {p} : q \in rt' <=> q \in rt
        /\ \A i \in 1 .. Len(plist) : plist[i] \in Procs \ {p}
    BY <1>3 DEF Fork, Types, ListInv
  <2>2. process_cnt <= Len(plist) /\ \A q \in Procs : listed[q] = IF Listed(q) THEN 1 ELSE 0
    BY <2>1 DEF ListedInv
  <2>3. \A q \in Procs : Listed(q)' <=> Listed(q)
    BY <2>1, <2>2 DEF Listed, RealTime, Types
  <2> QED
    BY <2>1, <2>2, <2>3 DEF Types
<1>4. ASSUME NEW p \in Procs, Unhash(p) PROVE Goal
  <2>1. Exiting(p) /\ p \notin opened /\ opened' = opened /\ \A q \in Procs \ {p} : pc'[q] = pc[q]
    BY <1>4 DEF Unhash, Exiting, OpenInv, Types, devVars
  <2>2. ~(\E q \in Procs : q \in opened \/ pc[q] = "get")
    BY <2>1 DEF ListInv
  <2>3. pc'[p] = "gone"
    BY <1>4 DEF Unhash, Types
  <2> QED
    BY <2>1, <2>2, <2>3
<1>5. ASSUME NEW p \in Procs, CloseFile(p) \/ OriginalExit(p) PROVE Goal
  <2>1. CASE p \in opened
    BY <1>5, <2>1 DEF CloseFile, OriginalExit, OpenInv, DeviceInv, Busy, Holds, Types
  <2>2. CASE p \notin opened
    BY <1>5, <1>0, <2>2 DEF CloseFile, OriginalExit, Types
  <2> QED
    BY <2>1, <2>2
<1>6. CASE DevLoad
  BY <1>6 DEF DevLoad, LoadedInv, Inside, Types
<1>7. ASSUME NEW p \in Procs,
             \/ OpenTest(p) \/ OpenGet(p) \/ CustomExit(p) \/ ReleaseDec(p) \/ ReleasePut(p)
             \/ \E n \in Calls : ExitCall(p, n)
      PROVE  Goal
  <2>1. Open
    BY <1>7 DEF OpenTest, OpenGet, CustomExit, ReleaseDec, ReleasePut, ExitCall, Types
  <2> QED
    BY <1>7, <1>0, <2>1 DEF OpenTest, OpenGet, CustomExit, ReleaseDec, ReleasePut, ExitCall
<1>10. CASE DevUnload \/ CleanFree
  <2>1. \/ FreeCode({p \in Procs : Inside(p)})
        \/ FreeCode({p \in Procs : pc[p] = "check"})
    BY <1>10 DEF DevUnload, CleanFree
  <2>2. pc' = pc
    BY <2>1, NoFate
  <2>3. UNCHANGED <<plist, rt, opened, process_cnt, listed>>
    BY <1>10 DEF DevUnload, CleanFree
  <2> QED
    BY <2>2, <2>3, <1>0
<1>11. ASSUME NEW p \in Procs, SetPolicy(p) PROVE Goal
  BY <1>11 DEF SetPolicy
<1>8. CASE UNCHANGED <<plist, rt, pc, opened, process_cnt, listed>>
  BY <1>8, <1>0
<1>9. \/ UNCHANGED <<plist, rt, pc, opened, process_cnt, listed>> \/ DevLoad \/ DevUnload \/ CleanFree
      \/ \E p \in Procs :
            \/ OpenTest(p) \/ OpenInc(p) \/ OpenGet(p) \/ CloseFile(p) \/ DeviceRead(p)
            \/ \E n \in Calls : ExitCall(p, n)
            \/ CustomExit(p) \/ OriginalExit(p) \/ ReleaseDec(p) \/ ReleasePut(p)
            \/ Unhash(p) \/ Fork(p) \/ SetPolicy(p)
  BY DEF Next, Exits, vars, RtpsCount, RtpsList, RtpsPrint, CleanSave,
         CleanReplace, CleanRestore
<1> QED
  BY <1>1, <1>2, <1>3, <1>4, <1>5, <1>6, <1>7, <1>8, <1>9, <1>10, <1>11

(* The reads since an open list every real-time process they have come to  *)
(* exactly once, though processes are created between the reads, when the  *)
(* buffer has room for all of them and none exits or changes its policy    *)
(* meanwhile (psdev.c:101-120).                                            *)
THEOREM ReadsExact ==
  ASSUME Careless = {}, RoomForAll
  PROVE  Spec => []ListedOnce
<1>1. Types /\ ListedInv => ListedOnce
  BY DEF Types, ListedInv, ListedOnce, Listed
<1>2. "opens" \notin Careless /\ "unload" \notin Careless /\ "exit" \notin Careless
  OBVIOUS
<1>3. Types /\ OpenInv /\ CountInv /\ LoadedInv /\ [Next]_vars => LoadedInv'
  BY <1>2, LoadedNext
<1>4. Types /\ OpenInv /\ LoadedInv /\ DeviceInv /\ [Next]_vars => DeviceInv'
  BY <1>2, DeviceNext
<1>5. Types /\ ListInv /\ [Next]_vars => ListInv'
  BY <1>2, ListNext
<1> QED
  BY TypesInit, TypesNext, OpenInit, OpenNext, CountInit, CountNext, LoadedInit, DeviceInit,
     ListInit, ListedInit, ListedNext, <1>1, <1>3, <1>4, <1>5, PTL DEF Spec
===============================================================================
