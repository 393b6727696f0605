---------------------------- MODULE UtilRingProofs ----------------------------
(***************************************************************************)
(* Proofs about the ring buffer of utilization samples, for any length of  *)
(* the buffer and any number of samples.                                   *)
(***************************************************************************)
EXTENDS UtilRing, TLAPS

(* Where the samples are: counted back from end, the newest one.  A slot   *)
(* the writer has not come to holds none.                                  *)
Placed(i) ==
    LET n == IF i <= end THEN made - (end - i) ELSE made - (end - i) - BUF_LENGTH
    IN  IF n >= 1 THEN n ELSE 0

RingInv ==
    /\ end + 1 <= made
    /\ made < BUF_LENGTH => made = end + 1
    /\ \A i \in Slots : sample[i] = Placed(i)
    /\ \A i \in Slots : sample[i] = 0 => periods[i] = 0

(* The smaller and the larger of two numbers.                              *)
LEMMA MinOfTwo ==
  ASSUME NEW a \in Int, NEW b \in Int
  PROVE  Min({a, b}) = IF a <= b THEN a ELSE b
<1> DEFINE m == IF a <= b THEN a ELSE b
           IsMin(x) == x \in {a, b} /\ \A y \in {a, b} : x <= y
<1>1. IsMin(m) /\ \A x : IsMin(x) => x = m
  OBVIOUS
<1>2. Min({a, b}) = CHOOSE x : IsMin(x)
  BY DEF Min
<1> HIDE DEF m, IsMin
<1>3. (CHOOSE x : IsMin(x)) = m
  BY <1>1
<1> QED
  BY <1>2, <1>3 DEF m

LEMMA MaxOfTwo ==
  ASSUME NEW a \in Int, NEW b \in Int
  PROVE  Max({a, b}) = IF a >= b THEN a ELSE b
<1> DEFINE m == IF a >= b THEN a ELSE b
           IsMax(x) == x \in {a, b} /\ \A y \in {a, b} : x >= y
<1>1. IsMax(m) /\ \A x : IsMax(x) => x = m
  OBVIOUS
<1>2. Max({a, b}) = CHOOSE x : IsMax(x)
  BY DEF Max
<1> HIDE DEF m, IsMax
<1>3. (CHOOSE x : IsMax(x)) = m
  BY <1>1
<1> QED
  BY <1>2, <1>3 DEF m

(* The writer and the reader stay in the array.                            *)
LEMMA AfterInSlots ==
  ASSUME NEW i \in Slots \cup {-1}
  PROVE  After(i) \in Slots /\ After(i) = IF i = BUF_LENGTH - 1 THEN 0 ELSE i + 1
  BY UtilRingAssumption DEF After, Slots

LEMMA RingInit == Init => TypeOK /\ RingInv
<1> SUFFICES ASSUME Init PROVE TypeOK /\ RingInv
  OBVIOUS
<1> USE UtilRingAssumption DEF Init
<1>1. 0 \in Slots /\ 0 \in 0 .. MaxSamples /\ 0 \in 0 .. FirstStamp + MaxSamples
  BY DEF Slots
<1>2. out \in [first : 0 .. made, last : 0 .. made, ordered : BOOLEAN, exact : BOOLEAN]
  BY DEF Nothing
<1>3. /\ periods \in [Slots -> 0 .. FirstStamp + MaxSamples]
      /\ utilization \in [Slots -> Hundreds \cup {0}]
      /\ sample \in [Slots -> 0 .. MaxSamples]
  BY <1>1
<1>4. RingInv
  BY DEF RingInv, Placed, Slots
<1>5. /\ start \in Slots /\ end \in Slots \cup {-1} /\ made \in 0 .. MaxSamples /\ seen \in 0 .. made
      /\ integer_part \in 0 .. MaxSamples
  BY <1>1
<1>6. buffer_full \in BOOLEAN /\ reading \in BOOLEAN
  BY Zenon
<1>7. TypeOK
  BY ONLY <1>2, <1>3, <1>5, <1>6 DEF TypeOK
<1> QED
  BY <1>4, <1>7

(* A slot holds no sample that was not made yet.                           *)
LEMMA SampleMade ==
  ASSUME TypeOK, RingInv, NEW i \in Slots
  PROVE  sample[i] \in 0 .. made
  BY UtilRingAssumption DEF TypeOK, RingInv, Placed, Slots

LEMMA RingNext == TypeOK /\ RingInv /\ [Next]_vars => TypeOK' /\ RingInv'
<1> SUFFICES ASSUME TypeOK, RingInv, [Next]_vars PROVE TypeOK' /\ RingInv'
  OBVIOUS
<1> USE UtilRingAssumption
<1>1. ASSUME NEW h \in Hundreds, Insert(h) PROVE TypeOK' /\ RingInv'
  <2>1. end' = After(end) /\ end' \in Slots /\ made' = made + 1 /\ made < MaxSamples
    BY <1>1, AfterInSlots DEF Insert, TypeOK
  <2>11. end' = IF end = BUF_LENGTH - 1 THEN 0 ELSE end + 1
    BY <2>1, AfterInSlots DEF TypeOK
  <2>12. /\ end \in Int /\ made \in Int /\ BUF_LENGTH \in Int /\ BUF_LENGTH > 0
         /\ -1 <= end /\ end < BUF_LENGTH
         /\ end + 1 <= made /\ (made < BUF_LENGTH => made = end + 1)
    BY DEF TypeOK, Slots, RingInv
  <2>2. start' \in Slots /\ buffer_full' \in BOOLEAN
    BY <1>1, AfterInSlots DEF Insert, Advance, TypeOK
  <2>3. periods' \in [Slots -> 0 .. FirstStamp + MaxSamples]
    <3>1. FirstStamp + made \in 0 .. FirstStamp + MaxSamples
      BY <2>1 DEF TypeOK
    <3> QED
      BY <1>1, <2>1, <3>1 DEF Insert, TypeOK
  <2>4. sample' \in [Slots -> 0 .. MaxSamples] /\ made' \in 0 .. MaxSamples
    <3>1. made + 1 \in 0 .. MaxSamples
      BY <2>1 DEF TypeOK
    <3> QED
      BY <1>1, <2>1, <3>1 DEF Insert, TypeOK
  <2>5. utilization' \in [Slots -> Hundreds \cup {0}]
    BY <1>1, <2>1 DEF Insert, TypeOK
  <2>6. /\ seen' \in 0 .. made'
        /\ out' \in [first : 0 .. made', last : 0 .. made', ordered : BOOLEAN, exact : BOOLEAN]
    BY <1>1, <2>1 DEF Insert, TypeOK
  <2>7. TypeOK'
    BY <1>1, <2>1, <2>2, <2>3, <2>4, <2>5, <2>6 DEF Insert, TypeOK
  <2>8. end' + 1 <= made' /\ (made' < BUF_LENGTH => made' = end' + 1)
    BY ONLY <2>1, <2>11, <2>12
  <2>9. ASSUME NEW i \in Slots PROVE sample'[i] = Placed(i)'
    <3>1. sample[i] = Placed(i) /\ sample'[i] = IF i = end' THEN made + 1 ELSE sample[i]
      BY <1>1, <2>1 DEF Insert, TypeOK, RingInv
    <3>2. i \in Int /\ 0 <= i /\ i < BUF_LENGTH
      BY DEF Slots
    <3>3. Placed(i)' = Placed(i) \/ i = end'
      BY ONLY <2>1, <2>11, <2>12, <3>2 DEF Placed
    <3>4. i = end' => Placed(i)' = made + 1
      BY ONLY <2>1, <2>11, <2>12, <3>2 DEF Placed
    <3> QED
      BY <3>1, <3>3, <3>4
  <2>10. \A i \in Slots : sample'[i] = 0 => periods'[i] = 0
    BY <1>1, <2>1 DEF Insert, TypeOK, RingInv
  <2> QED
    BY <2>7, <2>8, <2>9, <2>10 DEF RingInv
<1>2. CASE ShowBegin
  BY <1>2 DEF ShowBegin, Nothing, TypeOK, RingInv, Placed
<1>3. CASE ShowNext
  <2> DEFINE h == utilization[start]
             n == sample[start]
             printed == IF h = 0 THEN 0 ELSE Min({integer_part + h, MaxSamples})
  <2>1. start' \in Slots /\ n \in 0 .. made /\ h \in Nat
    <3>1. start \in Slots /\ start' = After(start) /\ utilization[start] \in Hundreds \cup {0}
      BY <1>3 DEF ShowNext, TypeOK
    <3>2. start' \in Slots
      BY <3>1, AfterInSlots
    <3>3. n \in 0 .. made
      BY <3>1, SampleMade
    <3>4. h \in Nat
      <4>1. Hundreds \cup {0} \subseteq Nat
        OBVIOUS
      <4> QED
        BY <3>1, <4>1, Zenon
    <3> QED
      BY <3>2, <3>3, <3>4
  <2>2. printed \in 0 .. MaxSamples
    <3>1. integer_part + h \in Int /\ integer_part + h >= 0
      BY <2>1 DEF TypeOK
    <3> HIDE DEF h
    <3> QED
      BY <3>1, MinOfTwo
  <2>3. integer_part' \in 0 .. MaxSamples
    BY <1>3, <2>2 DEF ShowNext, TypeOK
  <2>4. utilization' \in [Slots -> Hundreds \cup {0}]
    BY <1>3 DEF ShowNext, TypeOK
  <2>5. out' \in [first : 0 .. made, last : 0 .. made, ordered : BOOLEAN, exact : BOOLEAN]
    <3>1. out' = [first |-> IF out.first = 0 THEN n ELSE out.first,
                  last |-> n,
                  ordered |-> out.ordered /\ (out.first = 0 \/ n = out.last + 1),
                  exact |-> out.exact /\ printed = h]
      BY <1>3 DEF ShowNext
    <3>2. (IF out.first = 0 THEN n ELSE out.first) \in 0 .. made
      BY <2>1 DEF TypeOK
    <3>3. /\ (out.ordered /\ (out.first = 0 \/ n = out.last + 1)) \in BOOLEAN
          /\ (out.exact /\ printed = h) \in BOOLEAN
      OBVIOUS
    <3> HIDE DEF n, h, printed
    <3> QED
      BY <2>1, <3>1, <3>2, <3>3
  <2>6. UNCHANGED <<end, periods, sample, made, seen, reading>> /\ buffer_full' = FALSE
    BY <1>3 DEF ShowNext
  <2> QED
    BY <2>1, <2>3, <2>4, <2>5, <2>6 DEF TypeOK, RingInv, Placed
<1>4. CASE ShowEnd
  <2>1. made \in 0 .. made
    BY DEF TypeOK
  <2> QED
    BY <1>4, <2>1 DEF ShowEnd, TypeOK, RingInv, Placed
<1>5. CASE UNCHANGED vars
  BY <1>5 DEF vars, TypeOK, RingInv, Placed
<1> QED
  BY <1>1, <1>2, <1>3, <1>4, <1>5 DEF Next

(* Indices, samples and what a read has printed stay in range: the reader  *)
(* and the writer never leave the array, whenever the file is read.        *)
THEOREM TypeCorrect == Spec => []TypeOK
  BY RingInit, RingNext, PTL DEF Spec

-----------------------------------------------------------------------------
(* start is n samples behind the slot the next sample goes to.             *)
Behind(n) ==
    /\ n \in 0 .. BUF_LENGTH
    /\ start + n \in {end + 1 - BUF_LENGTH, end + 1, end + 1 + BUF_LENGTH}

(* What a read starts from: as many samples as were made since the last    *)
(* one, or, after the writer has run into start, the whole buffer.         *)
Unread ==
    IF buffer_full THEN start = After(end) /\ made > BUF_LENGTH
                   ELSE Behind(made - seen)

(* A read that has printed something is made - out.last samples behind.    *)
Printed ==
    /\ ~buffer_full
    /\ made - out.last < BUF_LENGTH /\ Behind(made - out.last)
    /\ out.ordered
    /\ out.first <= seen + 1 \/ out.first <= made - BUF_LENGTH + 1

(* Nothing is said of a read at the wrap: it never ends (reserve.c:70).    *)
Endless == reading /\ AtWrap

WalkInv ==
    /\ \A i \in Slots : periods[i] = 0 => sample[i] = 0
    /\ ~Endless =>
          /\ IF reading /\ out.first # 0 THEN Printed ELSE Unread
          /\ reading => out.ordered

(* The ranges of the counters, as numbers.                                 *)
LEMMA Ranges ==
  ASSUME TypeOK, RingInv
  PROVE  /\ start \in Int /\ end \in Int /\ made \in Int /\ seen \in Int /\ BUF_LENGTH \in Int
         /\ out.last \in Int /\ out.first \in Int
         /\ 0 <= start /\ start < BUF_LENGTH /\ -1 <= end /\ end < BUF_LENGTH
         /\ 0 <= seen /\ seen <= made /\ 0 <= out.last /\ out.last <= made
         /\ end + 1 <= made /\ (made < BUF_LENGTH => made = end + 1)
         /\ sample[start] = Placed(start)
  BY UtilRingAssumption DEF TypeOK, RingInv, Slots

LEMMA WalkInit == Init => WalkInv
<1> SUFFICES ASSUME Init PROVE WalkInv
  OBVIOUS
<1>1. Behind(0)
  BY UtilRingAssumption DEF Init, Behind
<1> QED
  BY <1>1 DEF Init, WalkInv, Endless, Unread, Slots

(* The sample n behind is the one at start.                                *)
LEMMA BehindSample ==
  ASSUME TypeOK, RingInv, NEW n \in 1 .. BUF_LENGTH, n <= made, Behind(n)
  PROVE  sample[start] = made - n + 1
  BY Ranges DEF Behind, Placed

(* start is where the next sample goes exactly when nothing or everything  *)
(* in the buffer is unread.                                                *)
LEMMA BehindNone ==
  ASSUME TypeOK, RingInv, NEW n \in 0 .. BUF_LENGTH, Behind(n)
  PROVE  start = After(end) <=> n \in {0, BUF_LENGTH}
<1>1. After(end) = IF end = BUF_LENGTH - 1 THEN 0 ELSE end + 1
  BY AfterInSlots DEF TypeOK
<1> QED
  BY <1>1, Ranges DEF Behind

(* The slot the next sample goes to is empty until the first round ends.   *)
LEMMA NextSlot ==
  ASSUME TypeOK, RingInv
  PROVE  sample[After(end)] = IF made >= BUF_LENGTH THEN made - BUF_LENGTH + 1 ELSE 0
<1>1. After(end) \in Slots /\ After(end) = IF end = BUF_LENGTH - 1 THEN 0 ELSE end + 1
  BY AfterInSlots DEF TypeOK
<1>2. sample[After(end)] = Placed(After(end))
  BY <1>1 DEF RingInv
<1> QED
  BY <1>1, <1>2, Ranges DEF Placed

LEMMA WalkNext ==
  ASSUME FirstStamp > 0
  PROVE  TypeOK /\ RingInv /\ WalkInv /\ [Next]_vars => WalkInv'
<1> SUFFICES ASSUME TypeOK, RingInv, WalkInv, [Next]_vars PROVE WalkInv'
  OBVIOUS
<1>1. ASSUME NEW h \in Hundreds, Insert(h) PROVE WalkInv'
  <2>1. /\ ~reading /\ ~reading' /\ end' = After(end) /\ made' = made + 1 /\ Unread
        /\ UNCHANGED <<seen, out>>
    BY <1>1 DEF Insert, WalkInv, Endless
  <2>2. \A i \in Slots : periods'[i] = 0 => sample'[i] = 0
    <3>1. FirstStamp + made # 0
      BY UtilRingAssumption DEF TypeOK
    <3>2. end' \in Slots
      BY <2>1, AfterInSlots DEF TypeOK
    <3> QED
      BY <1>1, <3>1, <3>2 DEF Insert, WalkInv, TypeOK
  <2>3. (periods[start] # 0) <=> (sample[start] # 0)
    BY DEF WalkInv, RingInv, TypeOK
  <2>4. end' = IF end = BUF_LENGTH - 1 THEN 0 ELSE end + 1
    BY <2>1, AfterInSlots DEF TypeOK
  <2>5. After(end') = IF end' = BUF_LENGTH - 1 THEN 0 ELSE end' + 1
    BY <2>1, AfterInSlots DEF TypeOK
  <2>6. CASE end' = start /\ periods[start] # 0
    <3>1. buffer_full' = TRUE /\ start' = After(end')
      BY <1>1, <2>6 DEF Insert, Advance
    <3>2. made >= BUF_LENGTH
      BY <2>1, <2>3, <2>6, NextSlot, Ranges
    <3>3. made' > BUF_LENGTH
      BY <2>1, <3>2, Ranges
    <3>4. Unread'
      BY <3>1, <3>3 DEF Unread, After
    <3> QED
      BY <2>1, <2>2, <3>4 DEF WalkInv
  <2>7. CASE ~(end' = start /\ periods[start] # 0)
    <3>1. UNCHANGED <<start, buffer_full>>
      BY <1>1, <2>7 DEF Insert, Advance
    <3>2. ~buffer_full
      BY <2>1, <2>3, <2>7, NextSlot, Ranges DEF Unread
    <3>3. Behind(made - seen) /\ made - seen \in 0 .. BUF_LENGTH
      BY <2>1, <3>2 DEF Unread, Behind
    <3>4. made - seen # BUF_LENGTH
      BY <2>1, <2>3, <2>7, <3>3, BehindNone, NextSlot, Ranges
    <3>5. Behind(made - seen)'
      <4> DEFINE k == made - seen
      <4>1. k \in Int /\ 0 <= k /\ k < BUF_LENGTH /\ made' - seen' = k + 1
        BY <2>1, <3>3, <3>4, Ranges
      <4>2. start + k \in {end + 1 - BUF_LENGTH, end + 1, end + 1 + BUF_LENGTH}
        BY <3>3 DEF Behind
      <4> HIDE DEF k
      <4>3. start + (k + 1) \in {end' + 1 - BUF_LENGTH, end' + 1, end' + 1 + BUF_LENGTH}
        BY <2>4, <4>1, <4>2, Ranges
      <4> QED
        BY <3>1, <4>1, <4>3, Ranges DEF Behind
    <3> QED
      BY <2>1, <2>2, <3>1, <3>2, <3>5 DEF WalkInv, Unread
  <2> QED
    BY <2>6, <2>7
<1>2. CASE ShowBegin
  <2>1. Unread
    BY <1>2 DEF ShowBegin, WalkInv, Endless
  <2>2. Unread'
    BY <1>2, <2>1 DEF ShowBegin, Unread, Behind, After
  <2> QED
    BY <1>2, <2>1, <2>2 DEF ShowBegin, Nothing, WalkInv
<1>3. CASE ShowNext /\ AtWrap
  BY <1>3 DEF ShowNext, WalkInv, Endless, AtWrap
<1>4. CASE ShowNext /\ ~AtWrap
  <2> DEFINE n == sample[start]
  <2>1. /\ reading /\ reading' /\ end # BUF_LENGTH - 1 /\ out.ordered
        /\ start' = After(start) /\ ~buffer_full'
        /\ UNCHANGED <<end, periods, sample, made, seen>>
        /\ out'.first = (IF out.first = 0 THEN n ELSE out.first) /\ out'.last = n
        /\ out'.ordered = (out.ordered /\ (out.first = 0 \/ n = out.last + 1))
        /\ (start # end + 1 \/ buffer_full)
    BY <1>4 DEF ShowNext, WalkInv, Endless, AtWrap, More
  <2>2. start' = IF start = BUF_LENGTH - 1 THEN 0 ELSE start + 1
    BY <2>1, AfterInSlots DEF TypeOK
  <2>3. After(end) = end + 1
    BY <2>1, AfterInSlots DEF TypeOK
  <2>4. ASSUME NEW m \in 1 .. BUF_LENGTH, start + m \in {end + 1, end + 1 + BUF_LENGTH}, n = made - m + 1
        PROVE  made - n < BUF_LENGTH /\ Behind(made - out.last)'
    <3>1. made - n = m - 1
      BY <2>4, Ranges
    <3>2. start' + (m - 1) \in {end + 1 - BUF_LENGTH, end + 1, end + 1 + BUF_LENGTH}
      BY <2>2, <2>4, Ranges
    <3> QED
      BY <2>1, <3>1, <3>2, Ranges DEF Behind
  <2>5. CASE out.first # 0
    <3> DEFINE m == made - out.last
    <3>1. ~buffer_full /\ m < BUF_LENGTH /\ Behind(m) /\ m \in 0 .. BUF_LENGTH
      BY <1>4, <2>1, <2>5 DEF WalkInv, Endless, Printed, Behind
    <3>2. m # 0 /\ m <= made
      BY <2>1, <2>3, <3>1, BehindNone, Ranges
    <3>3. n = made - m + 1
      BY <3>1, <3>2, BehindSample, Ranges
    <3>4. start + m \in {end + 1, end + 1 + BUF_LENGTH}
      BY <3>1, <3>2, Ranges DEF Behind
    <3>5. made - n < BUF_LENGTH /\ Behind(made - out.last)'
      BY <2>4, <3>1, <3>2, <3>3, <3>4, Ranges
    <3>6. n = out.last + 1
      BY <3>3, Ranges
    <3>7. out'.first = out.first /\ out'.first # 0 /\ out'.ordered
      BY <2>1, <2>5, <3>6
    <3>8. Printed'
      BY <1>4, <2>1, <2>5, <3>5, <3>7 DEF Printed, WalkInv, Endless
    <3> QED
      BY <2>1, <3>7, <3>8 DEF WalkInv
  <2>6. CASE out.first = 0 /\ buffer_full
    <3>1. start = end + 1 /\ made > BUF_LENGTH
      BY <1>4, <2>1, <2>3, <2>6 DEF WalkInv, Endless, Unread
    <3>2. n = made - BUF_LENGTH + 1
      BY <2>3, <3>1, NextSlot, Ranges
    <3>3. start + BUF_LENGTH = end + 1 + BUF_LENGTH /\ BUF_LENGTH \in 1 .. BUF_LENGTH
      BY <3>1, UtilRingAssumption
    <3>4. made - n < BUF_LENGTH /\ Behind(made - out.last)'
      BY <2>4, <3>2, <3>3
    <3>5. out'.first = n /\ n # 0 /\ out'.ordered
      <4>1. n # 0
        BY <3>1, <3>2, Ranges
      <4> HIDE DEF n
      <4> QED
        BY <2>1, <2>6, <4>1, Zenon
    <3>6. Printed'
      BY <2>1, <3>2, <3>4, <3>5, Ranges DEF Printed
    <3> QED
      BY <2>1, <3>5, <3>6 DEF WalkInv
  <2>7. CASE out.first = 0 /\ ~buffer_full
    <3> DEFINE m == made - seen
    <3>1. Behind(m) /\ m \in 0 .. BUF_LENGTH
      BY <1>4, <2>1, <2>7 DEF WalkInv, Endless, Unread, Behind
    <3>2. m # 0 /\ m # BUF_LENGTH /\ m <= made
      BY <2>1, <2>3, <2>7, <3>1, BehindNone, Ranges
    <3>3. n = made - m + 1
      BY <3>1, <3>2, BehindSample, Ranges
    <3>4. start + m \in {end + 1, end + 1 + BUF_LENGTH}
      BY <3>1, <3>2, Ranges DEF Behind
    <3>5. made - n < BUF_LENGTH /\ Behind(made - out.last)'
      BY <2>4, <3>1, <3>2, <3>3, <3>4, Ranges
    <3>6. n = seen + 1
      BY <3>3, Ranges
    <3>7. out'.first = n /\ n # 0 /\ out'.ordered
      <4>1. n # 0
        BY <3>6, Ranges
      <4> HIDE DEF n
      <4> QED
        BY <2>1, <2>7, <4>1, Zenon
    <3>8. Printed'
      BY <2>1, <3>5, <3>6, <3>7, Ranges DEF Printed
    <3> QED
      BY <2>1, <3>7, <3>8 DEF WalkInv
  <2> QED
    BY <2>5, <2>6, <2>7
<1>5. CASE ShowEnd
  <2>1. start = end + 1 /\ ~buffer_full /\ ~reading' /\ seen' = made
        /\ UNCHANGED <<start, end, buffer_full, periods, sample, made>>
    BY <1>5 DEF ShowEnd, More
  <2>2. Behind(made - seen)'
    BY <2>1, Ranges, UtilRingAssumption DEF Behind
  <2> QED
    BY <2>1, <2>2 DEF WalkInv, Unread
<1>6. CASE UNCHANGED vars
  BY <1>6 DEF vars, WalkInv, Endless, AtWrap, Printed, Unread, Behind, After
<1> QED
  BY <1>1, <1>2, <1>3, <1>5, <1>6, <1>4 DEF Next

(* A read prints, in order and up to the newest one, every sample since    *)
(* the read before it or as many as the buffer holds, for any length of    *)
(* the buffer and however often the writer has been around it.  The        *)
(* premise is the case in which the code does lose samples: a first stamp  *)
(* of 0 looks like an empty slot (reserve.c:224).                          *)
THEOREM ReadsLoseNothing ==
  ASSUME FirstStamp > 0
  PROVE  Spec => []NoSampleLost
<1>1. TypeOK /\ RingInv /\ WalkInv => NoSampleLost
  <2> SUFFICES ASSUME TypeOK, RingInv, WalkInv, reading, ~More, made - seen \notin {0, BUF_LENGTH}
               PROVE  ShownAll
    BY DEF NoSampleLost
  <2>0. start = end + 1 /\ ~Endless
    BY Ranges DEF More, Endless, AtWrap
  <2>1. start = end + 1 /\ ~buffer_full /\ start = After(end) /\ out.ordered
    BY <2>0, AfterInSlots DEF More, WalkInv, TypeOK, Slots
  <2>2. out.first # 0
    BY <2>0, <2>1, BehindNone, Ranges DEF WalkInv, Unread, Behind
  <2>3. Printed
    BY <2>0, <2>2 DEF WalkInv
  <2>4. made - out.last = 0
    BY <2>1, <2>3, BehindNone, Ranges DEF Printed, Behind
  <2>5. out.first <= Max({seen + 1, made - BUF_LENGTH + 1})
    BY <2>3, MaxOfTwo, Ranges DEF Printed
  <2> QED
    BY <2>1, <2>4, <2>5, Ranges DEF ShownAll
<1> QED
  BY RingInit, RingNext, WalkInit, WalkNext, <1>1, PTL DEF Spec
===============================================================================
