------------------------------- MODULE UtilRing -------------------------------
(***************************************************************************)
(* The ring buffer of utilization samples of one reserved task: at the end *)
(* of each period p_timer_callback writes a sample (rtes/kernel/reserve.c, *)
(* 215-245), and a read of /sys/rtes/taskmon/util/<tid> (tid_show) prints  *)
(* and drains the buffer.  Both run under reserve.lock; tid_show is one    *)
(* step for each turn of its loop.                                         *)
(*                                                                         *)
(* Samples are numbered from 1.  The stamps rise from one to the next, as  *)
(* the periods are longer than the resolution of taskmon_acc_time.  Of a   *)
(* utilization in percent only the hundreds matter.                        *)
(***************************************************************************)
EXTENDS Integers, FiniteSetsExt

CONSTANTS
    BUF_LENGTH,
    MaxSamples,   \* bound on the number of samples, for TLC
    FirstStamp,   \* taskmon_acc_time when the first period ends
    Hundreds      \* the hundreds of the utilizations, in percent

ASSUME UtilRingAssumption ==
    /\ BUF_LENGTH \in Nat \ {0}
    /\ MaxSamples \in Nat
    /\ FirstStamp \in Nat
    /\ Hundreds \subseteq Nat

VARIABLES
    start, end,    \* reserve.start, reserve.end
    buffer_full,
    periods,       \* the stamp in each slot, 0 if it was never written
    utilization,   \* the hundreds in each slot
    sample,        \* the number of the sample in each slot
    made,          \* samples written so far
    seen,          \* the newest sample when the last read was finished
    reading,       \* tid_show holds the lock
    integer_part,  \* tid_show's variable
    out            \* what it has printed: the first and the last sample,
                   \* whether in order, whether with the right hundreds

vars == <<start, end, buffer_full, periods, utilization, sample, made, seen,
          reading, integer_part, out>>

Slots == 0 .. BUF_LENGTH - 1

Nothing == [first |-> 0, last |-> 0, ordered |-> TRUE, exact |-> TRUE]

\* As set_reserve leaves the buffer.
Init ==
    /\ start = 0
    /\ end = -1
    /\ buffer_full = FALSE
    /\ periods = [i \in Slots |-> 0]
    /\ utilization = [i \in Slots |-> 0]
    /\ sample = [i \in Slots |-> 0]
    /\ made = 0
    /\ seen = 0
    /\ reading = FALSE
    /\ integer_part = 0
    /\ out = Nothing

\* (Mutant) The wrap comes one slot too late.
AfterLate(i) == IF i + 1 > BUF_LENGTH THEN i + 1 - BUF_LENGTH ELSE i + 1

\* The slot after i, around the end of the array.
After(i) == IF i + 1 >= BUF_LENGTH THEN i + 1 - BUF_LENGTH ELSE i + 1

-------------------------------------------------------------------------------
\* (Mutant) The oldest sample is not given up when the buffer is full.
AdvanceNever(e) == UNCHANGED <<start, buffer_full>>

\* "find the place to insert data and maintain the circular list": the oldest
\* sample is given up if the new one, at e, takes its slot.
Advance(e) ==
    IF e = start /\ periods[start] # 0
    THEN buffer_full' = TRUE /\ start' = After(start)
    ELSE UNCHANGED <<start, buffer_full>>

\* p_timer_callback writes the sample of the period that ends.
Insert(h) ==
    /\ ~reading
    /\ made < MaxSamples
    /\ end' = After(end)
    /\ Advance(end')
    /\ periods' = [periods EXCEPT ![end'] = FirstStamp + made]
    /\ utilization' = [utilization EXCEPT ![end'] = h]
    /\ sample' = [sample EXCEPT ![end'] = made + 1]
    /\ made' = made + 1
    /\ UNCHANGED <<seen, reading, integer_part, out>>

\* (Mutant) The loop looks for the slot two behind the newest sample.
MoreBeyond == start # end + 2 \/ buffer_full

\* The condition of tid_show's loop.
More == start # end + 1 \/ buffer_full

\* tid_show takes the lock.
ShowBegin ==
    /\ ~reading
    /\ reading' = TRUE
    /\ integer_part' = 0
    /\ out' = Nothing
    /\ UNCHANGED <<start, end, buffer_full, periods, utilization, sample, made, seen>>

\* One turn of its loop: print the sample at start and go on to the next.
\* Hundreds are taken off the slot, and counted for the whole call.
ShowNext ==
    LET h == utilization[start]
        n == sample[start]
        printed == IF h = 0 THEN 0 ELSE Min({integer_part + h, MaxSamples})
    IN  /\ reading /\ More
        /\ start' = After(start)
        /\ buffer_full' = FALSE
        /\ utilization' = [utilization EXCEPT ![start] = 0]
        /\ integer_part' = IF h = 0 THEN integer_part ELSE printed
        /\ out' = [first |-> IF out.first = 0 THEN n ELSE out.first,
                   last |-> n,
                   ordered |-> out.ordered /\ (out.first = 0 \/ n = out.last + 1),
                   exact |-> out.exact /\ printed = h]
        /\ UNCHANGED <<end, periods, sample, made, seen, reading>>

\* The loop is over and the lock released.
ShowEnd ==
    /\ reading /\ ~More
    /\ reading' = FALSE
    /\ seen' = made
    /\ UNCHANGED <<start, end, buffer_full, periods, utilization, sample, made,
                   integer_part, out>>

Next == (\E h \in Hundreds : Insert(h)) \/ ShowBegin \/ ShowNext \/ ShowEnd

Spec == Init /\ [][Next]_vars

\* tid_show runs with interrupts off: it goes on until it is done.
FairSpec == Spec /\ WF_vars(ShowNext \/ ShowEnd)

-------------------------------------------------------------------------------
\* Types and ranges of the buffer variables (reserve.h:72-76).
TypeOK ==
    /\ start \in Slots
    /\ end \in Slots \cup {-1}
    /\ buffer_full \in BOOLEAN
    /\ periods \in [Slots -> 0 .. FirstStamp + MaxSamples]
    /\ utilization \in [Slots -> Hundreds \cup {0}]
    /\ sample \in [Slots -> 0 .. MaxSamples]
    /\ made \in 0 .. MaxSamples
    /\ seen \in 0 .. made
    /\ reading \in BOOLEAN
    /\ integer_part \in 0 .. MaxSamples
    /\ out \in [first : 0 .. made, last : 0 .. made, ordered : BOOLEAN, exact : BOOLEAN]

\* The read that is finished has printed, in order and up to the newest one,
\* every sample since the read before it, or the last BUF_LENGTH of them.
ShownAll ==
    /\ out.ordered
    /\ out.last = made
    /\ out.first <= Max({seen + 1, made - BUF_LENGTH + 1})

\* A read loses nothing the buffer can hold, however often the writer has been
\* around it and wherever the read before stopped, unless the buffer is just
\* full (reserve.c:70-97, 218-231).
NoSampleLost ==
    reading /\ ~More /\ made - seen \notin {0, BUF_LENGTH} => ShownAll

\* The same for a buffer that is just full: then "buffer_full" tells it from
\* an empty one (reserve.h:76).
FullBufferShown ==
    reading /\ ~More /\ made - seen = BUF_LENGTH => ShownAll

\* "whether the buffer is full" (reserve.h:76): when the flag is set, every
\* slot holds a sample that was not read yet.
FullMeansUnread == buffer_full => made - seen >= BUF_LENGTH

\* The integer part that is printed is that of the sample: "utilization may
\* be greater than or equal to 100%" (reserve.c:79).
IntegerPartRight == out.exact

\* The newest sample is in the last slot: then "end + 1" (reserve.c:70) is no
\* slot, and the loop of a read that finds the buffer so has no end.
AtWrap == end = BUF_LENGTH - 1

\* Every other read comes to its end: whatever the buffer holds and wherever
\* the read before stopped, the circular list is walked once around at most
\* (reserve.c:70, 218).
ReadEnds == (reading /\ ~AtWrap) ~> ~reading

\* What a reader of the file expects, and reads at the wrap refute.
AllReadsEnd == reading ~> ~reading
===============================================================================
