--------------------------- MODULE GovernorProofs ---------------------------
(***************************************************************************)
(* Proofs about module Governor: the count of the governor's CPUs, and the *)
(* frequency that its last start sets.                                     *)
(***************************************************************************)
EXTENDS Governor, FiniteSetTheorems, TLAPS

(* The steps of a switch or of a hotplug operation that is under way, the  *)
(* ones of sysclock_set_frequency, and the ones of a system call.          *)
Engaging == {"inc", "compare", "dec", "sysclock", "other", "dead"}
Looking == {"look", "store"}
Calling == {"up", "down", "demand"}

Steps == [do : Engaging \cup Looking \cup Calling, cpu : CPUs, f : Freqs \cup {0}]

(* The steps of a user, who engages with one CPU, and of a caller.         *)
StepsOf(a) ==
    {x \in Steps : /\ a \in CPUs => /\ x.do \notin Calling \cup {"dead"}
                                    /\ x.do \in Engaging => x.cpu = a
                   /\ a \in Callers => x.do \notin {"sysclock", "other"}}

(* y comes after x in one operation.                                       *)
Leads(x, y) ==
    /\ y.cpu = x.cpu
    /\ \/ x.do = "sysclock" /\ y.do = "inc"
       \/ x.do = "inc" /\ y.do = "compare"
       \/ x.do = "dec" /\ y.do \in {"other", "dead"}

(* An operation that is under way comes first in the list, and whole.      *)
Listed(s) ==
    /\ \A i \in 1 .. Len(s) :
        s[i].do \in Engaging => i = 1 \/ (i - 1 \in 1 .. Len(s) /\ Leads(s[i - 1], s[i]))
    /\ \A i \in 1 .. Len(s) :
        s[i].do \in {"sysclock", "inc", "dec"} => i + 1 \in 1 .. Len(s) /\ Leads(s[i], s[i + 1])

ListInv ==
    /\ online \subseteq CPUs
    /\ governor \in [CPUs -> {"sysclock", "other"}]
    /\ DOMAIN todo = Actors
    /\ \A a \in Actors : todo[a] \in Seq(StepsOf(a)) /\ Listed(todo[a])

(* One actor at most is engaged with a CPU, and the CPU is online.         *)
Engaged(a) == ~Idle(a) /\ Head(todo[a]).do \in Engaging

EngagedInv ==
    /\ \A a \in Actors : Engaged(a) => Cpu(a) \in online
    /\ \A a, b \in Actors : Engaged(a) /\ Engaged(b) /\ Cpu(a) = Cpu(b) => a = b
    /\ \A a \in Actors : Doing(a, "inc") \/ Doing(a, "dec") => governor[Cpu(a)] = "sysclock"
    /\ \A a \in Actors : Doing(a, "sysclock") => governor[Cpu(a)] = "other"

(* The CPUs whose start has been counted and whose stop has not.           *)
Uncounted(a) == Doing(a, "inc") \/ Doing(a, "other") \/ Doing(a, "dead")
Counted == {c \in Using : \A a \in Actors : Uncounted(a) => Cpu(a) # c}

CountInv == cpus_using_sysclock_governor = Cardinality(Counted)

-----------------------------------------------------------------------------
(* Lists.                                                                  *)

LEMMA ActorsApart ==
  /\ CPUs \cap Callers = {}
  /\ 0 \in CPUs
  /\ \A c \in CPUs : c \in Nat
BY GovernorAssumption DEF CPUs, Callers

LEMMA ThenList ==
  ASSUME NEW S, NEW s \in Seq(S), s # <<>>, NEW f \in Seq(S)
  PROVE  /\ f \o Tail(s) \in Seq(S)
         /\ Len(s) >= 1 /\ Len(s) \in Nat /\ Len(f) \in Nat
         /\ Len(f \o Tail(s)) = Len(f) + Len(s) - 1
         /\ \A i \in 1 .. Len(f) : (f \o Tail(s))[i] = f[i]
         /\ \A i \in 1 .. Len(f \o Tail(s)) :
              i > Len(f) => (f \o Tail(s))[i] = s[i - Len(f) + 1]
OBVIOUS

LEMMA PopList ==
  ASSUME NEW S, NEW s \in Seq(S), s # <<>>
  PROVE  /\ <<>> \o Tail(s) \in Seq(S)
         /\ Len(s) >= 1 /\ Len(s) \in Nat
         /\ Len(<<>> \o Tail(s)) = Len(s) - 1
         /\ \A i \in 1 .. Len(s) - 1 : (<<>> \o Tail(s))[i] = s[i + 1]
OBVIOUS

LEMMA ListedPop ==
  ASSUME NEW S, NEW s \in Seq(S), s # <<>>, Listed(s)
  PROVE  Listed(<<>> \o Tail(s))
<1> DEFINE t == <<>> \o Tail(s)
<1>1. /\ Len(s) \in Nat /\ Len(t) = Len(s) - 1
      /\ \A i \in 1 .. Len(s) - 1 : t[i] = s[i + 1]
  BY PopList
<1> HIDE DEF t
<1>2. ASSUME NEW i \in 1 .. Len(t), t[i].do \in Engaging, i # 1
      PROVE  i - 1 \in 1 .. Len(t) /\ Leads(t[i - 1], t[i])
  <2>1. i + 1 \in 1 .. Len(s) /\ i + 1 # 1 /\ t[i] = s[i + 1] /\ i - 1 \in 1 .. Len(t)
        /\ t[i - 1] = s[i] /\ (i + 1) - 1 = i
    BY <1>1, <1>2
  <2> QED
    BY <1>2, <2>1 DEF Listed
<1>3. ASSUME NEW i \in 1 .. Len(t), t[i].do \in {"sysclock", "inc", "dec"}
      PROVE  i + 1 \in 1 .. Len(t) /\ Leads(t[i], t[i + 1])
  <2>1. i + 1 \in 1 .. Len(s) /\ t[i] = s[i + 1]
    BY <1>1
  <2>2. (i + 1) + 1 \in 1 .. Len(s) /\ Leads(s[i + 1], s[(i + 1) + 1])
    BY <1>3, <2>1 DEF Listed
  <2> QED
    BY <1>1, <2>1, <2>2
<1> QED
  BY <1>2, <1>3 DEF Listed, t

LEMMA ListedPush ==
  ASSUME NEW S, NEW s \in Seq(S), s # <<>>, Listed(s),
         s[1].do \notin {"sysclock", "inc", "dec"},
         NEW f \in Seq(S), Listed(f)
  PROVE  Listed(f \o Tail(s))
<1> DEFINE t == f \o Tail(s)
<1>1. /\ Len(s) \in Nat /\ Len(f) \in Nat /\ Len(s) >= 1
      /\ Len(t) = Len(f) + Len(s) - 1
      /\ \A i \in 1 .. Len(f) : t[i] = f[i]
      /\ \A i \in 1 .. Len(t) : i > Len(f) => t[i] = s[i - Len(f) + 1]
  BY ThenList
<1> HIDE DEF t
<1>2. ASSUME NEW i \in 1 .. Len(t), t[i].do \in Engaging, i # 1
      PROVE  i - 1 \in 1 .. Len(t) /\ Leads(t[i - 1], t[i])
  <2>1. CASE i <= Len(f)
    <3>1. i \in 1 .. Len(f) /\ i - 1 \in 1 .. Len(f) /\ i - 1 \in 1 .. Len(t)
      BY <1>1, <1>2, <2>1
    <3> QED
      BY <1>1, <1>2, <3>1 DEF Listed
  <2>2. CASE i > Len(f)
    <3> DEFINE j == i - Len(f) + 1
    <3>1. j \in 1 .. Len(s) /\ j # 1 /\ t[i] = s[j]
      BY <1>1, <2>2
    <3>2. j - 1 \in 1 .. Len(s) /\ Leads(s[j - 1], s[j])
      BY <1>2, <3>1 DEF Listed
    <3>3. j - 1 # 1
      BY <3>2 DEF Leads
    <3>4. i - 1 > Len(f) /\ i - 1 \in 1 .. Len(t) /\ (i - 1) - Len(f) + 1 = j - 1
      BY <1>1, <3>1, <3>2, <3>3
    <3> QED
      BY <1>1, <3>1, <3>2, <3>4
  <2> QED
    BY <1>1, <2>1, <2>2
<1>3. ASSUME NEW i \in 1 .. Len(t), t[i].do \in {"sysclock", "inc", "dec"}
      PROVE  i + 1 \in 1 .. Len(t) /\ Leads(t[i], t[i + 1])
  <2>1. CASE i <= Len(f)
    <3>1. i \in 1 .. Len(f)
      BY <1>1, <2>1
    <3>2. i + 1 \in 1 .. Len(f) /\ Leads(f[i], f[i + 1])
      BY <1>1, <1>3, <3>1 DEF Listed
    <3> QED
      BY <1>1, <3>1, <3>2
  <2>2. CASE i > Len(f)
    <3> DEFINE j == i - Len(f) + 1
    <3>1. j \in 1 .. Len(s) /\ t[i] = s[j]
      BY <1>1, <2>2
    <3>2. j + 1 \in 1 .. Len(s) /\ Leads(s[j], s[j + 1])
      BY <1>3, <3>1 DEF Listed
    <3>3. i + 1 > Len(f) /\ i + 1 \in 1 .. Len(t) /\ (i + 1) - Len(f) + 1 = j + 1
      BY <1>1, <2>2, <3>2
    <3> QED
      BY <1>1, <3>1, <3>2, <3>3
  <2> QED
    BY <1>1, <2>1, <2>2
<1> QED
  BY <1>2, <1>3 DEF Listed, t

(* Lists without an operation under way.                                   *)
Plain == {x \in Steps : x.do \in Calling \cup Looking}

LEMMA PlainListed ==
  ASSUME NEW s \in Seq(Plain)
  PROVE  Listed(s)
<1>1. \A i \in 1 .. Len(s) : s[i].do \in Calling \cup Looking
  BY DEF Plain
<1> QED
  BY <1>1 DEF Listed, Engaging, Calling, Looking

LEMMA PlainOfCaller ==
  ASSUME NEW a \in Callers
  PROVE  Plain \subseteq StepsOf(a)
BY ActorsApart DEF Plain, StepsOf, Calling, Looking

LEMMA StepType ==
  ASSUME NEW do \in Engaging \cup Looking \cup Calling, NEW c \in CPUs
  PROVE  Step(do, c) \in Steps
BY DEF Step, Steps

LEMMA SetFrequencyList ==
  /\ SetFrequency \in Seq(Plain)
  /\ Listed(SetFrequency)
  /\ \A a \in Actors : SetFrequency \in Seq(StepsOf(a))
  /\ Len(SetFrequency) = N
  /\ \A i \in 1 .. N : SetFrequency[i] = Step("look", i - 1)
<1>1. N \in Nat
  BY GovernorAssumption
<1>2. \A i \in 1 .. N : i - 1 \in CPUs
  BY <1>1 DEF CPUs
<1>3. \A i \in 1 .. N : Step("look", i - 1) \in Plain
  BY <1>2, StepType DEF Plain, Step, Looking
<1>4. \A a \in Actors, i \in 1 .. N : Step("look", i - 1) \in StepsOf(a)
  BY <1>2, StepType DEF StepsOf, Step, Looking, Calling, Engaging
<1>5. SetFrequency \in Seq(Plain)
  BY <1>1, <1>3 DEF SetFrequency
<1>6. \A a \in Actors : SetFrequency \in Seq(StepsOf(a))
  BY <1>1, <1>4 DEF SetFrequency
<1>7. Len(SetFrequency) = N /\ \A i \in 1 .. N : SetFrequency[i] = Step("look", i - 1)
  BY <1>1 DEF SetFrequency
<1> QED
  BY <1>5, <1>6, <1>7, PlainListed

(* The lists of a switch and of a hotplug operation.                       *)
LEMMA StartList ==
  ASSUME NEW c \in CPUs, NEW a \in Actors, a \in CPUs => a = c
  PROVE  /\ Start(c) \in Seq(StepsOf(a)) /\ Listed(Start(c))
         /\ Start(c) # <<>> /\ Head(Start(c)) = Step("inc", c)
<1>1. Step("inc", c) \in StepsOf(a) /\ Step("compare", c) \in StepsOf(a)
  BY StepType DEF StepsOf, Step, Looking, Calling, Engaging
<1>2. Len(Start(c)) = 2 /\ Start(c)[1] = Step("inc", c) /\ Start(c)[2] = Step("compare", c)
  BY DEF Start
<1>3. Listed(Start(c))
  BY <1>2 DEF Listed, Leads, Step
<1> QED
  BY <1>1, <1>3 DEF Start

LEMMA Concatenated ==
  ASSUME NEW S, NEW s \in Seq(S), NEW t \in Seq(S)
  PROVE  /\ s \o t \in Seq(S)
         /\ Len(s \o t) = Len(s) + Len(t)
         /\ \A i \in 1 .. Len(s) : (s \o t)[i] = s[i]
         /\ \A i \in 1 .. Len(s \o t) : i > Len(s) => (s \o t)[i] = t[i - Len(s)]
OBVIOUS

LEMMA Single ==
  ASSUME NEW S, NEW x \in S
  PROVE  <<x>> \in Seq(S) /\ Len(<<x>>) = 1 /\ <<x>>[1] = x
OBVIOUS

LEMMA FirstIsHead ==
  ASSUME NEW S, NEW s \in Seq(S), Len(s) >= 1
  PROVE  s # <<>> /\ Head(s) = s[1]
OBVIOUS

LEMMA SwitchOnList ==
  ASSUME NEW c \in CPUs
  PROVE  LET s == <<Step("sysclock", c)>> \o Start(c)
         IN  s \in Seq(StepsOf(c)) /\ Listed(s) /\ s # <<>> /\ Head(s) = Step("sysclock", c)
<1> DEFINE x == <<Step("sysclock", c)>>
           y == Start(c)
           s == x \o y
<1>1. /\ Step("inc", c) \in StepsOf(c) /\ Step("compare", c) \in StepsOf(c)
      /\ Step("sysclock", c) \in StepsOf(c)
  BY StepType, ActorsApart DEF StepsOf, Step, Looking, Calling, Engaging
<1>2. x \in Seq(StepsOf(c)) /\ Len(x) = 1 /\ x[1] = Step("sysclock", c)
  BY <1>1, Single
<1>3. /\ y \in Seq(StepsOf(c)) /\ Len(y) = 2
      /\ y[1] = Step("inc", c) /\ y[2] = Step("compare", c)
  BY <1>1 DEF Start
<1> HIDE DEF x, y
<1>4. /\ s \in Seq(StepsOf(c)) /\ Len(s) = 3 /\ s[1] = Step("sysclock", c)
      /\ s[2] = Step("inc", c) /\ s[3] = Step("compare", c)
  <2>1. /\ s \in Seq(StepsOf(c)) /\ Len(s) = Len(x) + Len(y)
        /\ \A i \in 1 .. Len(x) : s[i] = x[i]
        /\ \A i \in 1 .. Len(s) : i > Len(x) => s[i] = y[i - Len(x)]
    BY ONLY Concatenated, <1>2, <1>3
  <2> HIDE DEF s
  <2> QED
    BY <1>2, <1>3, <2>1
<1> HIDE DEF s
<1>5. Listed(s)
  BY <1>4 DEF Listed, Leads, Step
<1>6. s # <<>> /\ Head(s) = Step("sysclock", c)
  BY <1>4, FirstIsHead
<1> QED
  BY <1>4, <1>5, <1>6 DEF s, x, y

LEMMA StopList ==
  ASSUME NEW c \in CPUs, NEW a \in Actors, NEW last \in {"other", "dead"},
         Step("dec", c) \in StepsOf(a), Step(last, c) \in StepsOf(a)
  PROVE  LET s == Stop(c) \o <<Step(last, c)>>
             t == <<>> \o <<Step(last, c)>>
         IN  /\ s \in Seq(StepsOf(a)) /\ Listed(s) /\ s # <<>> /\ Head(s) = Step("dec", c)
             /\ t \in Seq(StepsOf(a)) /\ Listed(t) /\ t # <<>> /\ Head(t) = Step(last, c)
<1> DEFINE x == Stop(c)
           y == <<Step(last, c)>>
           s == x \o y
           t == <<>> \o y
<1>1. x \in Seq(StepsOf(a)) /\ Len(x) = 1 /\ x[1] = Step("dec", c)
  BY Single DEF Stop
<1>2. y \in Seq(StepsOf(a)) /\ Len(y) = 1 /\ y[1] = Step(last, c)
  BY Single
<1> HIDE DEF x, y
<1>3. <<>> \in Seq(StepsOf(a)) /\ Len(<<>>) = 0
  OBVIOUS
<1>4. /\ s \in Seq(StepsOf(a)) /\ Len(s) = 2 /\ s[1] = Step("dec", c) /\ s[2] = Step(last, c)
  <2>1. /\ s \in Seq(StepsOf(a)) /\ Len(s) = 2
        /\ \A i \in 1 .. 1 : s[i] = x[i]
        /\ \A i \in 1 .. 2 : i > 1 => s[i] = y[i - 1]
    BY <1>1, <1>2, Concatenated
  <2> QED
    BY <1>1, <1>2, <2>1
<1>5. /\ t \in Seq(StepsOf(a)) /\ Len(t) = 1 /\ t[1] = Step(last, c)
  BY <1>2, <1>3, Concatenated
<1> HIDE DEF s, t
<1>6. Listed(s) /\ Listed(t)
  BY <1>4, <1>5 DEF Listed, Leads, Step
<1>7. s # <<>> /\ Head(s) = Step("dec", c) /\ t # <<>> /\ Head(t) = Step(last, c)
  BY <1>4, <1>5, FirstIsHead
<1> QED
  BY <1>4, <1>5, <1>6, <1>7 DEF s, t, x, y

-----------------------------------------------------------------------------
(* Every step keeps the lists in order.                                    *)

(* The new list of the actor that takes a step.                            *)
Becomes(a, s) == todo' = [todo EXCEPT ![a] = s]

LEMMA ListKept ==
  ASSUME ListInv, NEW a \in Actors, NEW s \in Seq(StepsOf(a)), Listed(s), Becomes(a, s),
         online' \subseteq CPUs, governor' \in [CPUs -> {"sysclock", "other"}]
  PROVE  /\ ListInv'
         /\ todo'[a] = s
         /\ \A b \in Actors \ {a} : todo'[b] = todo[b]
<1>1. todo'[a] = s /\ DOMAIN todo' = Actors /\ \A b \in Actors \ {a} : todo'[b] = todo[b]
  BY DEF ListInv, Becomes
<1>2. \A b \in Actors : todo'[b] \in Seq(StepsOf(b)) /\ Listed(todo'[b])
  BY <1>1 DEF ListInv
<1> QED
  BY <1>1, <1>2 DEF ListInv, Listed, StepsOf, Steps, Leads

(* The head of a list that is not empty.                                   *)
LEMMA HeadStep ==
  ASSUME ListInv, NEW a \in Actors, ~Idle(a)
  PROVE  /\ todo[a] \in Seq(StepsOf(a)) /\ todo[a] # <<>> /\ Listed(todo[a])
         /\ Head(todo[a]) \in StepsOf(a) /\ Head(todo[a]) = todo[a][1]
         /\ Cpu(a) \in CPUs /\ Head(todo[a]).do \in Engaging \cup Looking \cup Calling
         /\ a \in CPUs => /\ Head(todo[a]).do \notin Calling \cup {"dead"}
                          /\ Engaged(a) => Cpu(a) = a
         /\ a \in Callers => Head(todo[a]).do \notin {"sysclock", "other"}
<1>1. todo[a] \in Seq(StepsOf(a)) /\ todo[a] # <<>> /\ Listed(todo[a])
  BY DEF ListInv, Idle
<1>2. Head(todo[a]) \in StepsOf(a) /\ Head(todo[a]) = todo[a][1]
  BY <1>1
<1> QED
  BY <1>1, <1>2 DEF StepsOf, Steps, Cpu, Engaged

(* After a step that adds nothing, the actor is idle, or goes on with the  *)
(* same operation, or has come to a step that engages with no CPU.         *)
LEMMA Popped ==
  ASSUME ListInv, NEW a \in Actors, ~Idle(a), Then(a, <<>>),
         online' \subseteq CPUs, governor' \in [CPUs -> {"sysclock", "other"}]
  PROVE  /\ ListInv'
         /\ \A b \in Actors \ {a} : todo'[b] = todo[b]
         /\ Engaged(a)' => Leads(Head(todo[a]), Head(todo[a])')
         /\ Head(todo[a]).do \in {"sysclock", "inc", "dec"} => Engaged(a)'
<1> DEFINE s == todo[a]
           t == <<>> \o Tail(s)
<1>1. s \in Seq(StepsOf(a)) /\ s # <<>> /\ Listed(s) /\ Head(s) = s[1]
  BY HeadStep
<1>2. Becomes(a, t)
  BY DEF Then, Becomes
<1>3. /\ t \in Seq(StepsOf(a)) /\ Listed(t)
      /\ Len(s) \in Nat /\ Len(t) = Len(s) - 1 /\ \A i \in 1 .. Len(s) - 1 : t[i] = s[i + 1]
  <2>1. Listed(t)
    BY <1>1, ListedPop
  <2> HIDE DEF s
  <2> QED
    BY <1>1, <2>1, PopList
<1> HIDE DEF t
<1>4. ListInv' /\ todo'[a] = t /\ \A b \in Actors \ {a} : todo'[b] = todo[b]
  BY <1>2, <1>3, ListKept
<1>5. ASSUME t # <<>>
      PROVE  Head(t) = s[2] /\ 2 \in 1 .. Len(s)
  BY <1>3, <1>5
<1>6. Engaged(a)' <=> t # <<>> /\ Head(t).do \in Engaging
  BY <1>4 DEF Engaged, Idle
<1>7. ASSUME Engaged(a)' PROVE Leads(Head(todo[a]), Head(todo[a])')
  BY <1>1, <1>3, <1>4, <1>5, <1>6, <1>7 DEF Listed
<1>8. ASSUME Head(todo[a]).do \in {"sysclock", "inc", "dec"} PROVE Engaged(a)'
  <2>1. 1 \in 1 .. Len(s) /\ 1 + 1 = 2
    BY <1>1
  <2>2. 2 \in 1 .. Len(s) /\ Leads(s[1], s[2])
    BY <1>1, <1>8, <2>1 DEF Listed
  <2>3. t # <<>>
    BY <1>3, <2>2
  <2> QED
    BY <1>5, <1>6, <2>2, <2>3 DEF Leads, Engaging
<1> QED
  BY <1>4, <1>7, <1>8

(* A step that adds a list f leads to the head of f.                       *)
LEMMA Pushed ==
  ASSUME ListInv, NEW a \in Actors, ~Idle(a), NEW f \in Seq(StepsOf(a)), Listed(f), f # <<>>,
         Then(a, f), Head(todo[a]).do \notin {"sysclock", "inc", "dec"},
         online' \subseteq CPUs, governor' \in [CPUs -> {"sysclock", "other"}]
  PROVE  /\ ListInv'
         /\ \A b \in Actors \ {a} : todo'[b] = todo[b]
         /\ ~Idle(a)' /\ Head(todo[a])' = Head(f)
<1> DEFINE s == todo[a]
           t == f \o Tail(s)
<1>1. s \in Seq(StepsOf(a)) /\ s # <<>> /\ Listed(s) /\ Head(s) = s[1]
  BY HeadStep
<1>2. Becomes(a, t)
  BY DEF Then, Becomes
<1>3. Listed(t) /\ t \in Seq(StepsOf(a))
  <2>1. Listed(t)
    BY <1>1, ListedPush
  <2> HIDE DEF s
  <2> QED
    BY <1>1, <2>1, ThenList
<1>4. t # <<>> /\ Head(t) = Head(f)
  <2> HIDE DEF s
  <2> QED
    BY <1>1
<1> HIDE DEF t
<1>5. ListInv' /\ todo'[a] = t /\ \A b \in Actors \ {a} : todo'[b] = todo[b]
  BY <1>2, <1>3, ListKept
<1> QED
  BY <1>4, <1>5 DEF Idle

-----------------------------------------------------------------------------
(* The count.                                                              *)

LEMMA CountedFinite ==
  ASSUME ListInv
  PROVE  IsFiniteSet(Counted)
<1>1. IsFiniteSet(CPUs)
  BY GovernorAssumption, FS_Interval DEF CPUs
<1>2. Counted \subseteq CPUs
  BY DEF Counted, Using, ListInv
<1> QED
  BY <1>1, <1>2, FS_Subset

(* The actors whose lists do not change.                                   *)
LEMMA OthersSame ==
  ASSUME NEW b, todo'[b] = todo[b]
  PROVE  /\ Idle(b)' <=> Idle(b)
         /\ Engaged(b)' <=> Engaged(b)
         /\ Cpu(b)' = Cpu(b)
         /\ \A do : Doing(b, do)' <=> Doing(b, do)
         /\ Uncounted(b)' <=> Uncounted(b)
BY DEF Idle, Engaged, Cpu, Doing, Uncounted

LEMMA EngagedByHead ==
  ASSUME NEW a
  PROVE  /\ \A do \in Engaging : Doing(a, do) => Engaged(a)
         /\ Uncounted(a) => Engaged(a)
         /\ \A d, e : Doing(a, d) /\ Doing(a, e) => d = e
         /\ Engaged(a) => ~Idle(a)
BY DEF Engaged, Doing, Uncounted, Engaging

LEMMA EngagedKept ==
  ASSUME EngagedInv, NEW a \in Actors,
         \A b \in Actors \ {a} : todo'[b] = todo[b],
         \A b \in Actors \ {a} :
            Engaged(b) => Cpu(b) \in online' /\ governor'[Cpu(b)] = governor[Cpu(b)],
         Engaged(a)' =>
            /\ Cpu(a)' \in online'
            /\ \A b \in Actors \ {a} : Engaged(b) => Cpu(b) # Cpu(a)'
            /\ Doing(a, "inc")' \/ Doing(a, "dec")' => governor'[Cpu(a)'] = "sysclock"
            /\ Doing(a, "sysclock")' => governor'[Cpu(a)'] = "other"
  PROVE  EngagedInv'
<1>1. \A b \in Actors \ {a} :
        /\ Engaged(b)' <=> Engaged(b)
        /\ Cpu(b)' = Cpu(b)
        /\ Doing(b, "inc")' <=> Doing(b, "inc")
        /\ Doing(b, "dec")' <=> Doing(b, "dec")
        /\ Doing(b, "sysclock")' <=> Doing(b, "sysclock")
  BY OthersSame
<1>2. \A b \in Actors : Doing(b, "inc") \/ Doing(b, "dec") \/ Doing(b, "sysclock") => Engaged(b)
  BY EngagedByHead DEF Engaging
<1>3. Doing(a, "inc")' \/ Doing(a, "dec")' \/ Doing(a, "sysclock")' => Engaged(a)'
  BY DEF Doing, Engaged, Idle, Engaging
<1>4. \A b \in Actors : Engaged(b)' => Cpu(b)' \in online'
  BY <1>1
<1>5. \A b, d \in Actors : Engaged(b)' /\ Engaged(d)' /\ Cpu(b)' = Cpu(d)' => b = d
  BY <1>1 DEF EngagedInv
<1>6. \A b \in Actors : Doing(b, "inc")' \/ Doing(b, "dec")' => governor'[Cpu(b)'] = "sysclock"
  BY <1>1, <1>2, <1>3 DEF EngagedInv
<1>7. \A b \in Actors : Doing(b, "sysclock")' => governor'[Cpu(b)'] = "other"
  BY <1>1, <1>2, <1>3 DEF EngagedInv
<1> QED
  BY <1>4, <1>5, <1>6, <1>7 DEF EngagedInv

(* A step that touches neither the CPUs that use the governor nor what is  *)
(* counted.                                                                *)
LEMMA CountedSame ==
  ASSUME NEW a \in Actors, \A b \in Actors \ {a} : todo'[b] = todo[b],
         ~Uncounted(a), ~Uncounted(a)', Using' = Using
  PROVE  Counted' = Counted
<1>1. \A b \in Actors \ {a} : (Uncounted(b)' <=> Uncounted(b)) /\ Cpu(b)' = Cpu(b)
  BY OthersSame
<1>2. \A c \in Using : (\A b \in Actors : Uncounted(b)' => Cpu(b)' # c)
                         <=> (\A b \in Actors : Uncounted(b) => Cpu(b) # c)
  BY <1>1
<1> QED
  BY <1>2 DEF Counted

LEMMA CountKept ==
  ASSUME CountInv, NEW a \in Actors,
         \A b \in Actors \ {a} : todo'[b] = todo[b],
         ~Uncounted(a), ~Uncounted(a)',
         Using' = Using, UNCHANGED cpus_using_sysclock_governor
  PROVE  CountInv'
BY CountedSame DEF CountInv

(* A step of an actor that keeps its CPU out of the count.                 *)
LEMMA UncountedKept ==
  ASSUME CountInv, NEW a \in Actors, NEW c \in CPUs,
         \A b \in Actors \ {a} : todo'[b] = todo[b],
         Uncounted(a) => Cpu(a) = c,
         Uncounted(a)' => Cpu(a)' = c,
         c \notin Counted, c \notin Counted',
         \A d \in CPUs \ {c} : d \in Using' <=> d \in Using,
         Using \subseteq CPUs, Using' \subseteq CPUs,
         UNCHANGED cpus_using_sysclock_governor
  PROVE  CountInv'
<1>1. \A b \in Actors \ {a} : (Uncounted(b)' <=> Uncounted(b)) /\ Cpu(b)' = Cpu(b)
  BY OthersSame
<1>2. ASSUME NEW d \in CPUs \ {c} PROVE d \in Counted' <=> d \in Counted
  BY <1>1 DEF Counted
<1>3. Counted \subseteq CPUs /\ Counted' \subseteq CPUs
  BY DEF Counted
<1>4. Counted' = Counted
  BY <1>2, <1>3
<1> QED
  BY <1>4 DEF CountInv

(* Values.                                                                 *)
ValueInv == demand \in Freqs \cup {0} /\ freq \in [CPUs -> Freqs \cup {0}]

GovInv == ListInv /\ EngagedInv /\ CountInv

LEMMA IncNext ==
  ASSUME GovInv, NEW a \in Actors, Inc(a)
  PROVE  GovInv'
<1> USE DEF GovInv
<1>1. ~Idle(a) /\ Doing(a, "inc") /\ Engaged(a) /\ Head(todo[a]).do = "inc"
  BY EngagedByHead DEF Inc, Doing, Engaging
<1>2. /\ ListInv' /\ \A b \in Actors \ {a} : todo'[b] = todo[b]
      /\ Engaged(a)' /\ Leads(Head(todo[a]), Head(todo[a])')
  BY <1>1, Popped DEF Inc, ListInv
<1>3. Cpu(a)' = Cpu(a) /\ Head(todo[a])'.do = "compare"
  BY <1>1, <1>2 DEF Leads, Cpu
<1>4. /\ ~Uncounted(a)' /\ Uncounted(a)
      /\ ~Doing(a, "inc")' /\ ~Doing(a, "dec")' /\ ~Doing(a, "sysclock")'
  BY <1>1, <1>3 DEF Uncounted, Doing
<1>5. EngagedInv'
  BY <1>1, <1>2, <1>3, <1>4, EngagedKept DEF Inc, EngagedInv
<1>6. Cpu(a) \in Using /\ Using' = Using
  BY <1>1 DEF Using, Inc, EngagedInv
<1>7. \A b \in Actors \ {a} : /\ Uncounted(b)' <=> Uncounted(b)
                              /\ Cpu(b)' = Cpu(b)
                              /\ Uncounted(b) => Cpu(b) # Cpu(a)
  BY <1>1, <1>2, OthersSame, EngagedByHead DEF EngagedInv
<1>8. Cpu(a) \notin Counted /\ Counted' = Counted \cup {Cpu(a)}
  BY <1>4, <1>6, <1>7 DEF Counted
<1>9. Cardinality(Counted') = Cardinality(Counted) + 1
  BY <1>8, CountedFinite, FS_AddElement
<1> QED
  BY <1>2, <1>5, <1>9 DEF CountInv, Inc

LEMMA DecNext ==
  ASSUME GovInv, NEW a \in Actors, Dec(a)
  PROVE  GovInv' /\ Counted' # online'
<1> USE DEF GovInv
<1>1. ~Idle(a) /\ Doing(a, "dec") /\ Engaged(a) /\ Head(todo[a]).do = "dec"
  BY EngagedByHead DEF Dec, Doing, Engaging
<1>2. /\ ListInv' /\ \A b \in Actors \ {a} : todo'[b] = todo[b]
      /\ Engaged(a)' /\ Leads(Head(todo[a]), Head(todo[a])')
  BY <1>1, Popped DEF Dec, ListInv
<1>3. Cpu(a)' = Cpu(a) /\ Head(todo[a])'.do \in {"other", "dead"}
  BY <1>1, <1>2 DEF Leads, Cpu
<1>4. /\ Uncounted(a)' /\ ~Uncounted(a)
      /\ ~Doing(a, "inc")' /\ ~Doing(a, "dec")' /\ ~Doing(a, "sysclock")'
  BY <1>1, <1>2, <1>3 DEF Uncounted, Doing, Engaged
<1>5. EngagedInv'
  BY <1>1, <1>2, <1>3, <1>4, EngagedKept DEF Dec, EngagedInv
<1>6. Cpu(a) \in Using /\ Using' = Using
  BY <1>1 DEF Using, Dec, EngagedInv
<1>7. \A b \in Actors \ {a} : /\ Uncounted(b)' <=> Uncounted(b)
                              /\ Cpu(b)' = Cpu(b)
                              /\ Uncounted(b) => Cpu(b) # Cpu(a)
  BY <1>1, <1>2, OthersSame, EngagedByHead DEF EngagedInv
<1>8. Cpu(a) \in Counted /\ Counted' = Counted \ {Cpu(a)}
  BY <1>3, <1>4, <1>6, <1>7 DEF Counted
<1>9. Cardinality(Counted') = Cardinality(Counted) - 1
  BY <1>8, CountedFinite, FS_RemoveElement
<1>10. Cpu(a) \in online'
  BY <1>1 DEF Dec, EngagedInv
<1> QED
  BY <1>2, <1>5, <1>8, <1>9, <1>10 DEF CountInv, Dec, Decremented

(* The steps that engage with no CPU.                                      *)
LEMMA QuietNext ==
  ASSUME GovInv, NEW a \in Actors,
         ~Idle(a) => Head(todo[a]).do \notin {"inc", "other", "dead"},
         ListInv', \A b \in Actors \ {a} : todo'[b] = todo[b], ~Engaged(a)',
         UNCHANGED <<online, governor, cpus_using_sysclock_governor>>
  PROVE  GovInv' /\ Counted' = Counted
<1> USE DEF GovInv
<1>1. ~Uncounted(a)
  BY DEF Uncounted, Doing
<1>2. ~Uncounted(a)'
  BY DEF Uncounted, Doing, Engaged, Idle, Engaging
<1>3. Using' = Using
  BY DEF Using
<1>4. EngagedInv'
  BY EngagedKept DEF EngagedInv
<1> QED
  BY <1>1, <1>2, <1>3, <1>4, CountKept, CountedSame

LEMMA QuietPop ==
  ASSUME GovInv, NEW a \in Actors, ~Idle(a), Then(a, <<>>),
         Head(todo[a]).do \in {"compare"} \cup Looking \cup Calling,
         UNCHANGED <<online, governor, cpus_using_sysclock_governor>>
  PROVE  GovInv' /\ Counted' = Counted
<1>1. /\ ListInv' /\ \A b \in Actors \ {a} : todo'[b] = todo[b]
      /\ Engaged(a)' => Leads(Head(todo[a]), Head(todo[a])')
  BY Popped DEF GovInv, ListInv
<1>2. ~Engaged(a)'
  BY <1>1 DEF Leads, Looking, Calling
<1> QED
  BY <1>1, <1>2, QuietNext DEF Looking, Calling

LEMMA QuietPush ==
  ASSUME GovInv, NEW a \in Actors, ~Idle(a),
         NEW f \in Seq(StepsOf(a)), Listed(f), f # <<>>, Head(f).do \in Looking, Then(a, f),
         Head(todo[a]).do \in {"compare"} \cup Looking \cup Calling,
         UNCHANGED <<online, governor, cpus_using_sysclock_governor>>
  PROVE  GovInv' /\ Counted' = Counted
<1>0. Head(todo[a]).do \notin {"sysclock", "inc", "dec", "other", "dead"}
  BY DEF Looking, Calling
<1>1. /\ ListInv' /\ \A b \in Actors \ {a} : todo'[b] = todo[b]
      /\ Head(todo[a])' = Head(f)
  BY <1>0, Pushed DEF GovInv, ListInv
<1>2. ~Engaged(a)'
  BY <1>1 DEF Looking, Engaged, Engaging
<1> QED
  BY <1>0, <1>1, <1>2, QuietNext

LEMMA CompareNext ==
  ASSUME GovInv, NEW a \in Actors, Compare(a)
  PROVE  GovInv' /\ Counted' = Counted
<1>1. ~Idle(a) /\ Head(todo[a]).do = "compare"
  BY DEF Compare, Doing
<1>2. CASE AllSet
  <2>1. SetFrequency \in Seq(StepsOf(a)) /\ Listed(SetFrequency)
    BY SetFrequencyList
  <2>2. SetFrequency # <<>> /\ Head(SetFrequency) = Step("look", 0)
    BY SetFrequencyList, FirstIsHead, GovernorAssumption
  <2>3. Then(a, SetFrequency)
    BY <1>2 DEF Compare
  <2> QED
    BY <1>1, <2>1, <2>2, <2>3, QuietPush DEF Compare, Step, Looking
<1>3. CASE ~AllSet
  BY <1>1, <1>3, QuietPop DEF Compare
<1> QED
  BY <1>2, <1>3

LEMMA LookNext ==
  ASSUME GovInv, ValueInv, NEW a \in Actors, Look(a)
  PROVE  GovInv' /\ Counted' = Counted
<1>1. ~Idle(a) /\ Head(todo[a]).do = "look"
  BY DEF Look, Doing
<1>2. CASE Cpu(a) \in online /\ governor[Cpu(a)] = "sysclock"
  <2> DEFINE x == [Step("store", Cpu(a)) EXCEPT !.f = demand]
  <2>1. x \in StepsOf(a) /\ x.do = "store"
    <3>1. Cpu(a) \in CPUs /\ demand \in Freqs \cup {0}
      BY <1>1, HeadStep DEF GovInv, ValueInv
    <3>2. x = [do |-> "store", cpu |-> Cpu(a), f |-> demand]
      BY DEF Step
    <3> QED
      BY <3>1, <3>2 DEF StepsOf, Steps, Looking, Calling, Engaging
  <2>2. Then(a, <<x>>)
    BY <1>2 DEF Look
  <2> HIDE DEF x
  <2>3. <<x>> \in Seq(StepsOf(a)) /\ Len(<<x>>) = 1 /\ <<x>>[1] = x
    BY <2>1, Single
  <2>4. <<x>> # <<>> /\ Head(<<x>>) = x
    BY <2>3, FirstIsHead
  <2>5. Listed(<<x>>)
    BY <2>1, <2>3 DEF Listed, Engaging
  <2> QED
    BY <1>1, <2>1, <2>2, <2>3, <2>4, <2>5, QuietPush DEF Look, Looking
<1>3. CASE ~(Cpu(a) \in online /\ governor[Cpu(a)] = "sysclock")
  <2>1. Then(a, <<>>)
    BY <1>3 DEF Look
  <2> QED
    BY <1>1, <2>1, QuietPop DEF Look, Looking
<1> QED
  BY <1>2, <1>3

LEMMA StoreNext ==
  ASSUME GovInv, NEW a \in Actors, Store(a) \/ Demand(a) \/ HotplugDone(a)
  PROVE  GovInv' /\ Counted' = Counted
BY QuietPop DEF Store, Demand, HotplugDone, Doing, Looking, Calling

LEMMA CallNext ==
  ASSUME GovInv, NEW a \in Callers, NEW op \in Calls,
         NEW up \in AtMostOne(CPUs), NEW down \in AtMostOne(CPUs), NEW f \in Freqs,
         Call(a, op, up, down, f)
  PROVE  GovInv'
<1> DEFINE Each(do, S) == IF S = {} THEN <<>> ELSE <<Step(do, CHOOSE c \in S : TRUE)>>
           d == [Step("demand", 0) EXCEPT !.f = f]
           last == IF op = "exit" THEN <<>> ELSE SetFrequency
           s == Each("up", up) \o Each("down", down) \o <<d>> \o last
<1>1. \A do \in {"up", "down"}, S \in AtMostOne(CPUs) : Each(do, S) \in Seq(Plain)
  <2> SUFFICES ASSUME NEW do \in {"up", "down"}, NEW S \in AtMostOne(CPUs)
               PROVE  Each(do, S) \in Seq(Plain)
    OBVIOUS
  <2>1. CASE S = {}
    <3>1. <<>> \in Seq(Plain)
      OBVIOUS
    <3> QED
      BY <2>1, <3>1
  <2>2. CASE S # {}
    <3> DEFINE c == CHOOSE c \in S : TRUE
    <3>1. c \in CPUs
      BY <2>2 DEF AtMostOne
    <3> HIDE DEF c
    <3>2. Step(do, c) \in Plain
      BY <3>1, StepType DEF Plain, Step, Calling
    <3>3. Each(do, S) = <<Step(do, c)>>
      BY <2>2 DEF c
    <3> HIDE DEF Each
    <3> QED
      BY <3>2, <3>3
  <2> QED
    BY <2>1, <2>2
<1>2. d \in Plain
  <2>1. d = [do |-> "demand", cpu |-> 0, f |-> f]
    BY DEF Step
  <2> QED
    BY <2>1, ActorsApart DEF Plain, Steps, Calling
<1>3. last \in Seq(Plain)
  BY SetFrequencyList
<1>4. Becomes(a, s)
  BY DEF Call, Becomes
<1> HIDE DEF Each, d, last
<1>5. s \in Seq(Plain)
  BY <1>1, <1>2, <1>3
<1> HIDE DEF s
<1>6. s \in Seq(StepsOf(a)) /\ Listed(s) /\ a \in Actors
  BY <1>5, PlainOfCaller, PlainListed DEF Actors
<1>7. UNCHANGED <<online, governor, cpus_using_sysclock_governor>> /\ Idle(a)
  BY DEF Call
<1>8. ListInv' /\ todo'[a] = s /\ \A b \in Actors \ {a} : todo'[b] = todo[b]
  BY <1>4, <1>6, <1>7, ListKept DEF GovInv, ListInv
<1>9. ~Engaged(a)'
  <2>1. s # <<>> => Head(s) \in Plain
    BY <1>5
  <2> QED
    BY <1>8, <2>1 DEF Engaged, Idle, Plain, Engaging, Looking, Calling
<1> QED
  BY <1>6, <1>7, <1>8, <1>9, QuietNext

(* A caller whose first step is hotplug holds off switches and hotplug.    *)
LEMMA EngagedHotplugs ==
  ASSUME ListInv, NEW b \in Callers, Engaged(b)
  PROVE  Hotplugging(b, Cpu(b)) /\ Cpu(b) \in CPUs
<1>1. b \in Actors /\ ~Idle(b)
  BY EngagedByHead DEF Actors
<1>2. /\ todo[b] \in Seq(StepsOf(b)) /\ todo[b] # <<>> /\ Head(todo[b]) = todo[b][1]
      /\ Cpu(b) \in CPUs /\ Head(todo[b]).do \notin {"sysclock", "other"}
  BY <1>1, HeadStep
<1>3. 1 \in DOMAIN todo[b]
  BY <1>2
<1> QED
  BY <1>2, <1>3 DEF Hotplugging, Engaged, Engaging, Cpu

LEMMA PrepareNext ==
  ASSUME GovInv, NEW a \in Actors, Prepare(a)
  PROVE  GovInv'
<1> USE DEF GovInv
<1> DEFINE c == Cpu(a)
           f == (IF governor[c] = "sysclock" THEN Stop(c) ELSE <<>>) \o <<Step("dead", c)>>
<1>1. /\ ~Idle(a) /\ Head(todo[a]).do = "down" /\ ~Uncounted(a)
      /\ c \in online /\ Idle(c) /\ HotplugFree(a) /\ Then(a, f)
  BY DEF Prepare, Doing, Uncounted
<1>2. c \in CPUs /\ a \in Callers
  BY <1>1, HeadStep DEF Calling, Actors
<1>3. Step("dec", c) \in StepsOf(a) /\ Step("dead", c) \in StepsOf(a)
  BY <1>2, StepType, ActorsApart DEF StepsOf, Step, Engaging
<1>4. /\ f \in Seq(StepsOf(a)) /\ Listed(f) /\ f # <<>>
      /\ governor[c] = "sysclock" => Head(f) = Step("dec", c)
      /\ governor[c] # "sysclock" => Head(f) = Step("dead", c)
  <2>1. CASE governor[c] = "sysclock"
    BY <1>2, <1>3, <2>1, StopList
  <2>2. CASE governor[c] # "sysclock"
    BY <1>2, <1>3, <2>2, StopList
  <2> QED
    BY <2>1, <2>2
<1>5. UNCHANGED <<online, governor, cpus_using_sysclock_governor>>
  BY DEF Prepare
<1> HIDE DEF f
<1>6. /\ ListInv' /\ \A b \in Actors \ {a} : todo'[b] = todo[b]
      /\ ~Idle(a)' /\ Head(todo[a])' = Head(f)
  BY <1>1, <1>4, <1>5, Pushed DEF ListInv
<1>7. Cpu(a)' = c
  BY <1>4, <1>6 DEF Cpu, Step
<1>8. ASSUME NEW b \in Actors \ {a}, Engaged(b) PROVE Cpu(b) # c
  <2>1. CASE b \in Callers
    BY <1>1, <1>2, <1>8, <2>1, EngagedHotplugs DEF HotplugFree
  <2>2. CASE b \in CPUs
    BY <1>1, <1>8, <2>2, HeadStep, EngagedByHead
  <2> QED
    BY <2>1, <2>2 DEF Actors
<1> HIDE DEF c
<1>9. /\ Doing(a, "inc")' \/ Doing(a, "dec")' => governor[c] = "sysclock"
      /\ ~Doing(a, "sysclock")'
  BY <1>4, <1>6 DEF Doing, Step
<1>10. EngagedInv'
  BY <1>1, <1>5, <1>6, <1>7, <1>8, <1>9, EngagedKept DEF EngagedInv
<1>11. Using' = Using
  BY <1>5 DEF Using
<1>12. CASE governor[c] = "sysclock"
  <2>1. ~Uncounted(a)'
    BY <1>4, <1>6, <1>12 DEF Uncounted, Doing, Step
  <2> QED
    BY <1>1, <1>5, <1>6, <1>10, <1>11, <2>1, CountKept
<1>13. CASE governor[c] # "sysclock"
  <2>1. c \notin Using /\ Using \subseteq CPUs
    BY <1>13 DEF Using, ListInv
  <2>2. c \notin Counted /\ c \notin Counted'
    BY <1>11, <2>1 DEF Counted
  <2> QED
    BY <1>1, <1>2, <1>5, <1>6, <1>7, <1>10, <1>11, <2>1, <2>2, UncountedKept
<1> QED
  BY <1>12, <1>13

LEMMA UpNext ==
  ASSUME GovInv, NEW a \in Actors, Up(a)
  PROVE  GovInv'
<1> USE DEF GovInv
<1> DEFINE c == Cpu(a)
<1>1. /\ ~Idle(a) /\ Head(todo[a]).do = "up" /\ ~Uncounted(a)
      /\ c \notin online /\ online' = online \cup {c}
      /\ UNCHANGED <<governor, cpus_using_sysclock_governor>>
  BY DEF Up, Doing, Uncounted
<1>2. c \in CPUs /\ a \in Callers
  BY <1>1, HeadStep DEF Calling, Actors
<1>3. online' \subseteq CPUs /\ governor' \in [CPUs -> {"sysclock", "other"}]
  BY <1>1, <1>2 DEF ListInv
<1> HIDE DEF c
<1>4. \A d \in CPUs \ {c} : d \in Using' <=> d \in Using
  BY <1>1 DEF Using
<1>5. Using \subseteq CPUs /\ Using' \subseteq CPUs /\ c \notin Counted
  BY <1>1, <1>3 DEF Using, Counted, ListInv
<1>6. \A b \in Actors \ {a} :
        Engaged(b) => Cpu(b) \in online' /\ governor'[Cpu(b)] = governor[Cpu(b)] /\ Cpu(b) # c
  BY <1>1 DEF EngagedInv
<1>7. CASE governor[c] = "sysclock"
  <2>1. Then(a, Start(c))
    BY <1>7 DEF Up, c
  <2>2. /\ Start(c) \in Seq(StepsOf(a)) /\ Listed(Start(c))
        /\ Start(c) # <<>> /\ Head(Start(c)) = Step("inc", c)
    BY <1>2, StartList, ActorsApart
  <2>3. /\ ListInv' /\ \A b \in Actors \ {a} : todo'[b] = todo[b]
        /\ ~Idle(a)' /\ Head(todo[a])' = Step("inc", c)
    BY <1>1, <1>3, <2>1, <2>2, Pushed
  <2>4. Cpu(a)' = c /\ Uncounted(a)' /\ ~Doing(a, "sysclock")'
    BY <2>3 DEF Cpu, Step, Uncounted, Doing
  <2>5. EngagedInv'
    BY <1>1, <1>6, <1>7, <2>3, <2>4, EngagedKept
  <2>6. c \notin Counted'
    BY <2>4 DEF Counted
  <2> QED
    BY <1>1, <1>2, <1>4, <1>5, <2>3, <2>4, <2>5, <2>6, UncountedKept
<1>8. CASE governor[c] # "sysclock"
  <2>1. Then(a, <<>>)
    BY <1>8 DEF Up, c
  <2>2. /\ ListInv' /\ \A b \in Actors \ {a} : todo'[b] = todo[b]
        /\ Engaged(a)' => Leads(Head(todo[a]), Head(todo[a])')
    BY <1>1, <1>3, <2>1, Popped
  <2>3. ~Engaged(a)' /\ ~Uncounted(a)'
    BY <1>1, <2>2 DEF Leads, Uncounted, Doing, Engaged, Idle, Engaging
  <2>4. EngagedInv'
    BY <1>6, <2>2, <2>3, EngagedKept
  <2>5. c \notin Counted'
    BY <1>1, <1>8 DEF Counted, Using
  <2> QED
    BY <1>1, <1>2, <1>4, <1>5, <2>2, <2>3, <2>4, <2>5, UncountedKept
<1> QED
  BY <1>7, <1>8

LEMMA DeadNext ==
  ASSUME GovInv, NEW a \in Actors, Dead(a)
  PROVE  GovInv'
<1> USE DEF GovInv
<1> DEFINE c == Cpu(a)
<1>1. /\ ~Idle(a) /\ Head(todo[a]).do = "dead" /\ Uncounted(a) /\ Engaged(a)
      /\ online' = online \ {c} /\ Then(a, <<>>)
      /\ UNCHANGED <<governor, cpus_using_sysclock_governor>>
  BY DEF Dead, Doing, Uncounted, Engaged, Engaging
<1>2. c \in CPUs
  BY <1>1, HeadStep
<1> HIDE DEF c
<1>3. online' \subseteq CPUs /\ governor' \in [CPUs -> {"sysclock", "other"}]
  BY <1>1 DEF ListInv
<1>4. /\ ListInv' /\ \A b \in Actors \ {a} : todo'[b] = todo[b]
      /\ Engaged(a)' => Leads(Head(todo[a]), Head(todo[a])')
  BY <1>1, <1>3, Popped
<1>5. ~Engaged(a)' /\ ~Uncounted(a)'
  BY <1>1, <1>4 DEF Leads, Uncounted, Doing, Engaged, Idle, Engaging
<1>6. EngagedInv'
  BY <1>1, <1>4, <1>5, EngagedKept DEF EngagedInv, c
<1>7. \A d \in CPUs \ {c} : d \in Using' <=> d \in Using
  BY <1>1 DEF Using
<1>8. Using \subseteq CPUs /\ Using' \subseteq CPUs /\ c \notin Counted /\ c \notin Counted'
  BY <1>1, <1>3 DEF Using, Counted, ListInv, c
<1> QED
  BY <1>1, <1>2, <1>4, <1>5, <1>6, <1>7, <1>8, UncountedKept DEF c

LEMMA AssignNext ==
  ASSUME GovInv, NEW a \in Actors, Assign(a)
  PROVE  GovInv' /\ Counted' # online'
<1> USE DEF GovInv
<1> DEFINE c == Cpu(a)
           g == Head(todo[a]).do
<1>1. /\ ~Idle(a) /\ g \in {"sysclock", "other"} /\ Engaged(a)
      /\ governor' = [governor EXCEPT ![c] = g] /\ Then(a, <<>>)
      /\ UNCHANGED <<online, cpus_using_sysclock_governor>>
  BY DEF Assign, Doing, Engaged, Engaging
<1>2. c \in CPUs /\ c \in online
  BY <1>1, HeadStep DEF EngagedInv
<1>3. online' \subseteq CPUs /\ governor' \in [CPUs -> {"sysclock", "other"}] /\ governor'[c] = g
  BY <1>1, <1>2 DEF ListInv
<1>4. /\ ListInv' /\ \A b \in Actors \ {a} : todo'[b] = todo[b]
      /\ Engaged(a)' => Leads(Head(todo[a]), Head(todo[a])')
      /\ g = "sysclock" => Engaged(a)'
  BY <1>1, <1>3, Popped
<1>5. Engaged(a)' => g = "sysclock" /\ Cpu(a)' = c /\ Head(todo[a])'.do = "inc"
  BY <1>1, <1>4 DEF Leads, Cpu
<1> HIDE DEF c
<1>6. \A b \in Actors \ {a} :
        Engaged(b) => /\ Cpu(b) \in online' /\ Cpu(b) # c
                      /\ governor'[Cpu(b)] = governor[Cpu(b)]
  BY <1>1 DEF EngagedInv, ListInv, c
<1>7. EngagedInv'
  <2>1. Engaged(a)' => ~Doing(a, "sysclock")'
    BY <1>5 DEF Doing
  <2> QED
    BY <1>1, <1>2, <1>3, <1>4, <1>5, <1>6, <2>1, EngagedKept
<1>8. \A d \in CPUs \ {c} : d \in Using' <=> d \in Using
  BY <1>1 DEF Using, ListInv
<1>9. Using \subseteq CPUs /\ Using' \subseteq CPUs
  BY <1>3 DEF Using, ListInv
<1>10. Uncounted(a)' => Cpu(a)' = c
  BY <1>5 DEF Uncounted, Doing, Engaged, Engaging, Idle
<1>11. c \notin Counted'
  <2>1. CASE g = "sysclock"
    <3>1. Uncounted(a)' /\ Cpu(a)' = c
      BY <1>4, <1>5, <2>1 DEF Uncounted, Doing, Engaged, Idle
    <3> QED
      BY <3>1 DEF Counted
  <2>2. CASE g = "other"
    BY <1>3, <2>2 DEF Counted, Using
  <2> QED
    BY <1>1, <2>1, <2>2
<1>12. c \notin Counted
  <2>1. CASE g = "sysclock"
    <3>1. governor[c] = "other"
      BY <1>1, <2>1 DEF EngagedInv, Doing, c
    <3> QED
      BY <3>1 DEF Counted, Using
  <2>2. CASE g = "other"
    <3>1. Uncounted(a)
      BY <1>1, <2>2 DEF Uncounted, Doing
    <3> QED
      BY <3>1 DEF Counted, c
  <2> QED
    BY <1>1, <2>1, <2>2
<1>13. GovInv'
  BY <1>1, <1>2, <1>4, <1>7, <1>8, <1>9, <1>10, <1>11, <1>12, UncountedKept DEF c
<1> QED
  BY <1>1, <1>2, <1>11, <1>13

LEMMA SwitchNext ==
  ASSUME GovInv, NEW c \in CPUs, Switch(c)
  PROVE  GovInv'
<1> USE DEF GovInv
<1> DEFINE s == IF governor[c] = "sysclock" THEN Stop(c) \o <<Step("other", c)>>
                                            ELSE <<Step("sysclock", c)>> \o Start(c)
<1>1. /\ Idle(c) /\ c \in online /\ c \in Actors /\ Becomes(c, s) /\ ~Uncounted(c)
      /\ \A b \in Callers : ~Hotplugging(b, c)
      /\ UNCHANGED <<online, governor, cpus_using_sysclock_governor>>
  BY DEF Switch, Actors, Becomes, Uncounted, Doing
<1>2. Step("dec", c) \in StepsOf(c) /\ Step("other", c) \in StepsOf(c)
  BY StepType, ActorsApart DEF StepsOf, Step, Engaging, Calling
<1>3. /\ s \in Seq(StepsOf(c)) /\ Listed(s) /\ s # <<>>
      /\ governor[c] = "sysclock" => Head(s) = Step("dec", c)
      /\ governor[c] # "sysclock" => Head(s) = Step("sysclock", c)
  <2>1. CASE governor[c] = "sysclock"
    BY <1>1, <1>2, <2>1, StopList
  <2>2. CASE governor[c] # "sysclock"
    BY <2>2, SwitchOnList
  <2> QED
    BY <2>1, <2>2
<1> HIDE DEF s
<1>4. ListInv' /\ todo'[c] = s /\ \A b \in Actors \ {c} : todo'[b] = todo[b]
  BY <1>1, <1>3, ListKept DEF ListInv
<1>5. /\ Cpu(c)' = c /\ ~Uncounted(c)' /\ ~Doing(c, "inc")'
      /\ Doing(c, "dec")' => governor[c] = "sysclock"
      /\ Doing(c, "sysclock")' => governor[c] = "other"
  BY <1>3, <1>4 DEF Cpu, Uncounted, Doing, Step, Idle, ListInv
<1>6. ASSUME NEW b \in Actors \ {c}, Engaged(b) PROVE Cpu(b) # c
  <2>1. CASE b \in Callers
    BY <1>1, <1>6, <2>1, EngagedHotplugs
  <2>2. CASE b \in CPUs
    BY <1>6, <2>2, HeadStep, EngagedByHead
  <2> QED
    BY <2>1, <2>2 DEF Actors
<1>7. EngagedInv'
  BY <1>1, <1>4, <1>5, <1>6, EngagedKept DEF EngagedInv
<1>8. Using' = Using
  BY <1>1 DEF Using
<1> QED
  BY <1>1, <1>4, <1>5, <1>7, <1>8, CountKept

LEMMA GovInit == Init => GovInv /\ ValueInv
<1> SUFFICES ASSUME Init PROVE GovInv /\ ValueInv
  OBVIOUS
<1>1. \A a \in Actors : todo[a] = <<>>
  BY DEF Init
<1>2. ListInv
  <2>1. \A a \in Actors : todo[a] \in Seq(StepsOf(a)) /\ Listed(todo[a])
    <3>1. Listed(<<>>)
      BY DEF Listed
    <3>2. \A a \in Actors : <<>> \in Seq(StepsOf(a))
      OBVIOUS
    <3> QED
      BY <1>1, <3>1, <3>2
  <2> QED
    BY <2>1 DEF ListInv, Init
<1>3. EngagedInv
  BY <1>1 DEF EngagedInv, Engaged, Doing, Idle
<1>4. Counted = {}
  BY DEF Counted, Using, Init
<1> QED
  BY <1>2, <1>3, <1>4, FS_EmptySet DEF GovInv, CountInv, ValueInv, Init

LEMMA ValueNext == ListInv /\ ValueInv /\ [Next]_vars => ValueInv'
<1> SUFFICES ASSUME ListInv, ValueInv, [Next]_vars PROVE ValueInv'
  OBVIOUS
<1>1. ASSUME NEW a \in Actors, Store(a) \/ Demand(a) PROVE ValueInv'
  <2>1. Cpu(a) \in CPUs /\ Head(todo[a]).f \in Freqs \cup {0}
    BY <1>1, HeadStep DEF Store, Demand, Doing, StepsOf, Steps
  <2> QED
    BY <1>1, <2>1 DEF Store, Demand, ValueInv
<1>2. ASSUME NEW a \in Actors, Assign(a) \/ Up(a) PROVE ValueInv'
  BY <1>2 DEF Assign, Up, ValueInv
<1>3. ASSUME NEW a \in Actors,
             Inc(a) \/ Compare(a) \/ Dec(a) \/ Look(a) \/ Prepare(a) \/ Dead(a) \/ HotplugDone(a)
      PROVE  ValueInv'
  BY <1>3 DEF Inc, Compare, Dec, Look, Prepare, Dead, HotplugDone, ValueInv
<1>4. ASSUME NEW c \in CPUs, Switch(c) PROVE ValueInv'
  BY <1>4 DEF Switch, ValueInv
<1>5. ASSUME NEW a \in Callers, NEW op \in Calls,
             NEW up \in AtMostOne(CPUs), NEW down \in AtMostOne(CPUs), NEW f \in Freqs,
             Call(a, op, up, down, f)
      PROVE  ValueInv'
  BY <1>5 DEF Call, ValueInv
<1>6. CASE UNCHANGED vars
  BY <1>6 DEF vars, ValueInv
<1> QED
  BY <1>1, <1>2, <1>3, <1>4, <1>5, <1>6 DEF Next

LEMMA GovNext == GovInv /\ ValueInv /\ [Next]_vars => GovInv'
<1> SUFFICES ASSUME GovInv, ValueInv, [Next]_vars PROVE GovInv'
  OBVIOUS
<1>1. CASE UNCHANGED vars
  BY <1>1 DEF vars, GovInv, ListInv, EngagedInv, CountInv, Counted, Using, Uncounted, Engaged,
              Doing, Idle, Cpu
<1> QED
  BY <1>1, IncNext, CompareNext, DecNext, LookNext, StoreNext, AssignNext, UpNext, PrepareNext,
     DeadNext, SwitchNext, CallNext
  DEF Next

(* When nothing is under way, the governor has counted the online CPUs     *)
(* that use it: for any number of CPUs, however switches of their          *)
(* governors, CPUs that come and go and concurrent system calls interleave *)
(* (cpufreq_sysclock.c:93-98, 108-110).  There is no premise.              *)
THEOREM CountsUsers == Spec => []CountExact
<1>1. GovInv => CountExact
  <2> SUFFICES ASSUME GovInv, Quiescent
               PROVE  cpus_using_sysclock_governor = Cardinality(Using)
    BY DEF CountExact
  <2>1. \A a \in Actors : ~Uncounted(a)
    BY DEF Quiescent, Uncounted, Doing
  <2>2. Counted = Using
    BY <2>1 DEF Counted
  <2> QED
    BY <2>2 DEF GovInv, CountInv
<1>2. GovInv => ListInv
  BY DEF GovInv
<1> QED
  BY GovInit, GovNext, ValueNext, <1>1, <1>2, PTL DEF Spec

-----------------------------------------------------------------------------
(***************************************************************************)
(* The frequency.  From here on calls do not overlap, and none of them is  *)
(* do_exit, which leaves the frequency as it is.                           *)
(***************************************************************************)
Serial == ~Overlap /\ "exit" \notin Calls

Items(s) == {s[i] : i \in 1 .. Len(s)}

Pends(do) == \E a \in Actors : \E x \in Items(todo[a]) : x.do = do

(* The frequency of c is being seen to.                                    *)
Looks(s, c) == \E x \in Items(s) : x.cpu = c /\ x.do \in Looking
Covered(c) == \E a \in Actors : Looks(todo[a], c)

(* A caller sees to all CPUs after it has changed the demand.              *)
Demanding(s) ==
    \/ \A i \in 1 .. Len(s) : s[i].do \in Looking
    \/ \E k \in 1 .. Len(s) :
        /\ s[k].do = "demand"
        /\ \A i \in k + 1 .. Len(s) : s[i].do \in Looking
        /\ \A c \in CPUs : \E i \in k + 1 .. Len(s) : s[i] = Step("look", c)

AloneInv == \A a \in Callers, b \in Actors : ~Idle(a) /\ ~Idle(b) => a = b
DemandInv == \A a \in Callers : Demanding(todo[a])

(* A frequency that is about to be set is the one asked for now.           *)
StoreInv ==
    \A a \in Actors : ~Idle(a) =>
        /\ Doing(a, "store") => Head(todo[a]).f = demand
        /\ \A x \in Items(Tail(todo[a])) : x.do # "store"

(* When every online CPU is counted, and neither a start is about to       *)
(* compare nor the demand about to change, each CPU runs at the frequency  *)
(* asked for or somebody is about to look at it.                           *)
FreqInv ==
    ~Pends("compare") /\ ~Pends("demand") /\ Counted = online =>
        \A c \in online : freq[c] = demand \/ Covered(c)

LEMMA ItemsThen ==
  ASSUME NEW S, NEW s \in Seq(S), s # <<>>, NEW f \in Seq(S)
  PROVE  /\ Items(f \o Tail(s)) = Items(f) \cup Items(Tail(s))
         /\ Items(s) = {Head(s)} \cup Items(Tail(s))
<1> DEFINE r == Tail(s)
           t == f \o r
<1>1. /\ r \in Seq(S) /\ Len(r) = Len(s) - 1 /\ Len(s) \in Nat /\ Len(s) >= 1
      /\ Head(s) = s[1] /\ \A i \in 1 .. Len(s) - 1 : r[i] = s[i + 1]
  OBVIOUS
<1> HIDE DEF r
<1>2. /\ Len(f) \in Nat /\ Len(r) \in Nat /\ Len(t) = Len(f) + Len(r)
      /\ \A i \in 1 .. Len(f) : t[i] = f[i]
      /\ \A i \in 1 .. Len(t) : i > Len(f) => t[i] = r[i - Len(f)]
  <2>1. f \in Seq(S) /\ r \in Seq(S)
    BY <1>1
  <2> QED
    BY ONLY <2>1, Concatenated
<1> HIDE DEF t
<1>3. ASSUME NEW i \in 1 .. Len(t) PROVE t[i] \in Items(f) \cup Items(r)
  <2>1. CASE i <= Len(f)
    BY <1>2, <2>1 DEF Items
  <2>2. CASE i > Len(f)
    <3>1. i - Len(f) \in 1 .. Len(r)
      BY <1>2, <2>2
    <3> QED
      BY <1>2, <2>2, <3>1 DEF Items
  <2> QED
    BY <1>2, <2>1, <2>2
<1>4. ASSUME NEW i \in 1 .. Len(f) PROVE f[i] \in Items(t)
  <2>1. i \in 1 .. Len(t)
    BY <1>2
  <2> QED
    BY <1>2, <2>1 DEF Items
<1>5. ASSUME NEW i \in 1 .. Len(r) PROVE r[i] \in Items(t)
  <2>1. i + Len(f) \in 1 .. Len(t) /\ i + Len(f) > Len(f) /\ (i + Len(f)) - Len(f) = i
    BY <1>2
  <2> QED
    BY <1>2, <2>1 DEF Items
<1>6. Items(t) = Items(f) \cup Items(r)
  BY <1>3, <1>4, <1>5 DEF Items
<1>7. ASSUME NEW i \in 1 .. Len(s) PROVE s[i] \in {Head(s)} \cup Items(r)
  <2>1. CASE i = 1
    BY <1>1, <2>1
  <2>2. CASE i # 1
    <3>1. i - 1 \in 1 .. Len(s) - 1 /\ (i - 1) + 1 = i
      BY <1>1, <2>2
    <3> QED
      BY <1>1, <3>1 DEF Items
  <2> QED
    BY <2>1, <2>2
<1>8. Head(s) \in Items(s)
  BY <1>1 DEF Items
<1>9. ASSUME NEW i \in 1 .. Len(r) PROVE r[i] \in Items(s)
  <2>1. i \in 1 .. Len(s) - 1 /\ i + 1 \in 1 .. Len(s)
    BY <1>1
  <2> QED
    BY <1>1, <2>1 DEF Items
<1>10. Items(s) = {Head(s)} \cup Items(r)
  BY <1>7, <1>8, <1>9 DEF Items
<1> QED
  BY <1>6, <1>10 DEF t, r

LEMMA ItemsOf ==
  ASSUME NEW S, NEW s \in Seq(S)
  PROVE  Items(s) \subseteq S
BY DEF Items

LEMMA ItemsNone == Items(<<>>) = {}
BY DEF Items

LEMMA ItemsSingle ==
  ASSUME NEW x
  PROVE  Items(<<x>>) = {x}
<1>1. Len(<<x>>) = 1 /\ <<x>>[1] = x
  BY Single
<1> QED
  BY <1>1 DEF Items

LEMMA ItemsSetFrequency == Items(SetFrequency) = {Step("look", c) : c \in CPUs}
<1>1. \A i \in 1 .. N : i - 1 \in CPUs
  BY GovernorAssumption DEF CPUs
<1>2. \A c \in CPUs : c + 1 \in 1 .. N /\ (c + 1) - 1 = c
  BY GovernorAssumption DEF CPUs
<1>3. Items(SetFrequency) = {SetFrequency[i] : i \in 1 .. N}
  BY SetFrequencyList DEF Items
<1>4. \A i \in 1 .. N : SetFrequency[i] \in {Step("look", c) : c \in CPUs}
  BY <1>1, SetFrequencyList
<1>5. \A c \in CPUs : Step("look", c) = SetFrequency[c + 1]
  BY <1>2, SetFrequencyList
<1> QED
  BY <1>2, <1>3, <1>4, <1>5

LEMMA DemandingPop ==
  ASSUME NEW S, NEW s \in Seq(S), s # <<>>, Demanding(s)
  PROVE  Demanding(<<>> \o Tail(s))
<1> DEFINE t == <<>> \o Tail(s)
<1>1. /\ Len(s) \in Nat /\ Len(s) >= 1 /\ Len(t) = Len(s) - 1
      /\ \A i \in 1 .. Len(s) - 1 : t[i] = s[i + 1]
  BY PopList
<1> HIDE DEF t
<1>2. CASE \A i \in 1 .. Len(s) : s[i].do \in Looking
  <2>1. \A i \in 1 .. Len(t) : i + 1 \in 1 .. Len(s) /\ t[i] = s[i + 1]
    BY <1>1
  <2> QED
    BY <1>2, <2>1 DEF Demanding, t
<1>3. ASSUME NEW k \in 1 .. Len(s), s[k].do = "demand",
             \A i \in k + 1 .. Len(s) : s[i].do \in Looking,
             \A c \in CPUs : \E i \in k + 1 .. Len(s) : s[i] = Step("look", c)
      PROVE  Demanding(t)
  <2>1. CASE k = 1
    <3>1. \A i \in 1 .. Len(t) : i + 1 \in k + 1 .. Len(s) /\ t[i] = s[i + 1]
      BY <1>1, <2>1
    <3> QED
      BY <1>3, <3>1 DEF Demanding
  <2>2. CASE k # 1
    <3>1. k - 1 \in 1 .. Len(t) /\ t[k - 1] = s[k]
      BY <1>1, <2>2
    <3>2. \A i \in (k - 1) + 1 .. Len(t) : i + 1 \in k + 1 .. Len(s) /\ t[i] = s[i + 1]
      BY <1>1, <2>2
    <3>3. \A i \in k + 1 .. Len(s) : i - 1 \in (k - 1) + 1 .. Len(t) /\ t[i - 1] = s[i]
      BY <1>1, <2>2
    <3>4. \A c \in CPUs : \E i \in (k - 1) + 1 .. Len(t) : t[i] = Step("look", c)
      BY <1>3, <3>3
    <3>5. \A i \in (k - 1) + 1 .. Len(t) : t[i].do \in Looking
      BY <1>3, <3>2
    <3> QED
      BY <1>3, <3>1, <3>4, <3>5 DEF Demanding
  <2> QED
    BY <2>1, <2>2
<1> QED
  BY <1>2, <1>3 DEF Demanding, t

(* A step that is not the change of the demand leaves it to be done.       *)
LEMMA DemandingPush ==
  ASSUME NEW S, NEW s \in Seq(S), s # <<>>, Demanding(s), NEW f \in Seq(S),
         s[1].do # "demand",
         s[1].do \in Looking => \A i \in 1 .. Len(f) : f[i].do \in Looking
  PROVE  Demanding(f \o Tail(s))
<1> DEFINE t == f \o Tail(s)
<1>1. /\ Len(s) \in Nat /\ Len(f) \in Nat /\ Len(s) >= 1
      /\ Len(t) = Len(f) + Len(s) - 1
      /\ \A i \in 1 .. Len(f) : t[i] = f[i]
      /\ \A i \in 1 .. Len(t) : i > Len(f) => t[i] = s[i - Len(f) + 1]
  BY ThenList
<1> HIDE DEF t
<1>2. CASE \A i \in 1 .. Len(s) : s[i].do \in Looking
  <2>1. ASSUME NEW i \in 1 .. Len(t) PROVE t[i].do \in Looking
    <3>1. CASE i <= Len(f)
      <4>1. i \in 1 .. Len(f) /\ 1 \in 1 .. Len(s)
        BY <1>1, <3>1
      <4> QED
        BY <1>1, <1>2, <4>1
    <3>2. CASE i > Len(f)
      <4>1. i - Len(f) + 1 \in 1 .. Len(s)
        BY <1>1, <3>2
      <4> QED
        BY <1>1, <1>2, <3>2, <4>1
    <3> QED
      BY <1>1, <3>1, <3>2
  <2> QED
    BY <2>1 DEF Demanding, t
<1>3. ASSUME NEW k \in 1 .. Len(s), s[k].do = "demand",
             \A i \in k + 1 .. Len(s) : s[i].do \in Looking,
             \A c \in CPUs : \E i \in k + 1 .. Len(s) : s[i] = Step("look", c)
      PROVE  Demanding(t)
  <2> DEFINE l == k + Len(f) - 1
  <2>1. k # 1
    BY <1>3
  <2>2. l \in 1 .. Len(t) /\ l > Len(f) /\ l - Len(f) + 1 = k
    BY <1>1, <2>1
  <2>3. t[l] = s[k]
    BY <1>1, <2>2
  <2>4. \A i \in l + 1 .. Len(t) :
          i \in 1 .. Len(t) /\ i > Len(f) /\ i - Len(f) + 1 \in k + 1 .. Len(s)
    <3>1. /\ l \in Nat /\ l = k + Len(f) - 1 /\ l >= 1 /\ l > Len(f) /\ k \in Nat
          /\ Len(f) \in Nat /\ Len(s) \in Nat /\ Len(t) = Len(f) + Len(s) - 1
      BY <1>1, <2>2
    <3> QED
      BY ONLY <3>1
  <2>5. \A i \in k + 1 .. Len(s) :
          /\ i + Len(f) - 1 \in l + 1 .. Len(t) /\ i + Len(f) - 1 \in 1 .. Len(t)
          /\ i + Len(f) - 1 > Len(f) /\ (i + Len(f) - 1) - Len(f) + 1 = i
    BY <1>1, <2>2
  <2> HIDE DEF l
  <2>6. \A i \in l + 1 .. Len(t) : t[i].do \in Looking
    BY <1>1, <1>3, <2>4
  <2>7. ASSUME NEW c \in CPUs PROVE \E i \in l + 1 .. Len(t) : t[i] = Step("look", c)
    <3>1. PICK i \in k + 1 .. Len(s) : s[i] = Step("look", c)
      BY <1>3
    <3>2. t[i + Len(f) - 1] = s[i]
      BY <1>1, <2>5
    <3> QED
      BY <2>5, <3>1, <3>2
  <2> QED
    BY <1>3, <2>2, <2>3, <2>6, <2>7 DEF Demanding
<1> QED
  BY <1>2, <1>3 DEF Demanding, t

(* What a step does to the list of its actor.                              *)
LEMMA ThenTakes ==
  ASSUME ListInv, NEW a \in Actors, ~Idle(a), NEW f \in Seq(StepsOf(a)), Then(a, f)
  PROVE  /\ todo[a] \in Seq(StepsOf(a)) /\ todo[a] # <<>>
         /\ todo'[a] = f \o Tail(todo[a])
         /\ \A b \in Actors \ {a} : todo'[b] = todo[b]
         /\ Items(todo'[a]) = Items(f) \cup Items(Tail(todo[a]))
         /\ Items(todo[a]) = {Head(todo[a])} \cup Items(Tail(todo[a]))
<1>1. todo[a] \in Seq(StepsOf(a)) /\ todo[a] # <<>>
  BY HeadStep
<1>2. todo'[a] = f \o Tail(todo[a]) /\ \A b \in Actors \ {a} : todo'[b] = todo[b]
  BY DEF Then, ListInv
<1> QED
  BY <1>1, <1>2, ItemsThen

(* Every step of an actor that is not idle takes its first item off its    *)
(* list and puts others in front.                                          *)
ActorStep(a) ==
    \/ Inc(a) \/ Compare(a) \/ Dec(a) \/ Look(a) \/ Store(a)
    \/ Assign(a) \/ Up(a) \/ Prepare(a) \/ Dead(a) \/ HotplugDone(a) \/ Demand(a)

LEMMA ActorTakes ==
  ASSUME ListInv, NEW a \in Actors, ActorStep(a)
  PROVE  ~Idle(a) /\ \A b \in Actors \ {a} : todo'[b] = todo[b]
BY DEF ActorStep, Inc, Compare, Dec, Look, Store, Assign, Up, Prepare, Dead, HotplugDone, Demand,
       Doing, Then, ListInv

LEMMA AloneNext ==
  ASSUME Serial
  PROVE  ListInv /\ AloneInv /\ [Next]_vars => AloneInv'
<1> SUFFICES ASSUME ListInv, AloneInv, [Next]_vars PROVE AloneInv'
  OBVIOUS
<1>1. ASSUME NEW a \in Actors, ActorStep(a) PROVE AloneInv'
  <2>1. \A b \in Actors : Idle(b) => Idle(b)'
    BY <1>1, ActorTakes DEF Idle
  <2> QED
    BY <2>1 DEF AloneInv, Actors
<1>2. ASSUME NEW c \in CPUs, Switch(c) PROVE AloneInv'
  <2>1. c \notin Callers /\ \A a \in Callers : Idle(a)
    BY <1>2, ActorsApart DEF Switch, Serial
  <2>2. \A a \in Callers : todo'[a] = todo[a]
    BY <1>2, <2>1 DEF Switch, ListInv, Actors
  <2> QED
    BY <2>1, <2>2 DEF AloneInv, Idle
<1>3. ASSUME NEW a \in Callers, NEW op \in Calls,
             NEW up \in AtMostOne(CPUs), NEW down \in AtMostOne(CPUs), NEW f \in Freqs,
             Call(a, op, up, down, f)
      PROVE  AloneInv'
  <2>1. \A b \in Actors : Idle(b)
    BY <1>3 DEF Call, Serial
  <2>2. \A b \in Actors \ {a} : todo'[b] = todo[b]
    BY <1>3 DEF Call, ListInv
  <2> QED
    BY <2>1, <2>2 DEF AloneInv, Idle, Actors
<1>4. CASE UNCHANGED vars
  BY <1>4 DEF vars, AloneInv, Idle
<1> QED
  BY <1>1, <1>2, <1>3, <1>4 DEF Next, ActorStep

(* A caller has the change of the demand before it, behind its first step, *)
(* unless it is at it or past it.                                          *)
LEMMA DemandAhead ==
  ASSUME ListInv, DemandInv, NEW a \in Callers, ~Idle(a),
         Head(todo[a]).do \notin Looking \cup {"demand"}
  PROVE  \E x \in Items(Tail(todo[a])) : x.do = "demand"
<1> DEFINE s == todo[a]
<1>1. s \in Seq(StepsOf(a)) /\ s # <<>> /\ Head(s) = s[1] /\ Demanding(s)
  BY HeadStep DEF DemandInv, Actors
<1> HIDE DEF s
<1>2. 1 \in 1 .. Len(s)
  BY <1>1
<1>3. PICK k \in 1 .. Len(s) : s[k].do = "demand"
  BY <1>1, <1>2 DEF Demanding, s
<1>4. s[k] \in Items(s) /\ s[k] # Head(s)
  BY <1>3 DEF Items, s
<1>5. Items(s) = {Head(s)} \cup Items(Tail(s))
  BY <1>1, ItemsThen
<1> QED
  BY <1>3, <1>4, <1>5 DEF s

(* What a call puts on the list of its caller.                             *)
LEMMA CallList ==
  ASSUME ListInv, NEW a \in Callers, NEW op \in Calls, op # "exit",
         NEW up \in AtMostOne(CPUs), NEW down \in AtMostOne(CPUs), NEW f \in Freqs,
         Call(a, op, up, down, f)
  PROVE  /\ Demanding(todo'[a])
         /\ \E x \in Items(todo'[a]) : x.do = "demand"
         /\ \A x \in Items(todo'[a]) : x.do # "store"
<1> DEFINE Each(do, S) == IF S = {} THEN <<>> ELSE <<Step(do, CHOOSE c \in S : TRUE)>>
           d == [Step("demand", 0) EXCEPT !.f = f]
           p == Each("up", up) \o Each("down", down)
           q == p \o <<d>>
           s == q \o SetFrequency
           Q == {x \in Plain : x.do # "store"}
<1>1. \A do \in {"up", "down"}, S \in AtMostOne(CPUs) : Each(do, S) \in Seq(Q)
  <2> SUFFICES ASSUME NEW do \in {"up", "down"}, NEW S \in AtMostOne(CPUs)
               PROVE  Each(do, S) \in Seq(Q)
    OBVIOUS
  <2>1. CASE S = {}
    <3>1. <<>> \in Seq(Q)
      OBVIOUS
    <3> QED
      BY <2>1, <3>1
  <2>2. CASE S # {}
    <3> DEFINE c == CHOOSE c \in S : TRUE
    <3>1. c \in CPUs
      BY <2>2 DEF AtMostOne
    <3> HIDE DEF c
    <3>2. Step(do, c) \in Q
      BY <3>1, StepType DEF Plain, Step, Calling
    <3>3. Each(do, S) = <<Step(do, c)>>
      BY <2>2 DEF c
    <3> HIDE DEF Each, Q
    <3> QED
      BY <3>2, <3>3
  <2> QED
    BY <2>1, <2>2
<1>2. d \in Q /\ d.do = "demand"
  <2>1. d = [do |-> "demand", cpu |-> 0, f |-> f]
    BY DEF Step
  <2> QED
    BY <2>1, ActorsApart DEF Plain, Steps, Calling
<1>3. SetFrequency \in Seq(Q)
  <2>1. \A i \in 1 .. N : SetFrequency[i] \in Q
    BY SetFrequencyList DEF Step, Plain
  <2>2. N \in Nat
    BY GovernorAssumption
  <2> HIDE DEF Q
  <2> QED
    BY <2>1, <2>2 DEF SetFrequency
<1>4. todo'[a] = s
  BY DEF Call, ListInv, Actors
<1> HIDE DEF Each, d, Q
<1>5. p \in Seq(Q) /\ <<d>> \in Seq(Q) /\ Len(<<d>>) = 1 /\ <<d>>[1] = d
  BY <1>1, <1>2
<1> HIDE DEF p
<1>6. q \in Seq(Q) /\ Len(q) = Len(p) + 1 /\ Len(p) \in Nat /\ q[Len(p) + 1] = d
  BY <1>5
<1> HIDE DEF q
<1>7. /\ s \in Seq(Q) /\ Len(s) = Len(q) + N /\ Len(q) \in Nat /\ Len(q) >= 1
      /\ \A i \in 1 .. Len(q) : s[i] = q[i]
      /\ \A i \in 1 .. Len(s) : i > Len(q) => s[i] = SetFrequency[i - Len(q)]
  <2>1. Len(q) \in Nat /\ Len(q) >= 1
    BY <1>6
  <2>2. Len(SetFrequency) = N
    BY SetFrequencyList
  <2> QED
    BY ONLY <1>3, <1>6, <2>1, <2>2, Concatenated
<1> HIDE DEF s
<1>8. s[Len(q)].do = "demand" /\ Len(q) \in 1 .. Len(s)
  BY <1>2, <1>6, <1>7, GovernorAssumption
<1>9. ASSUME NEW i \in Len(q) + 1 .. Len(s) PROVE s[i].do \in Looking
  <2>1. i \in 1 .. Len(s) /\ i > Len(q) /\ i - Len(q) \in 1 .. N
    BY <1>7, GovernorAssumption
  <2> QED
    BY <1>7, <2>1, SetFrequencyList DEF Step, Looking
<1>10. ASSUME NEW c \in CPUs PROVE \E i \in Len(q) + 1 .. Len(s) : s[i] = Step("look", c)
  <2> DEFINE i == Len(q) + c + 1
  <2>1. /\ i \in Len(q) + 1 .. Len(s) /\ i \in 1 .. Len(s) /\ i > Len(q)
        /\ i - Len(q) = c + 1 /\ c + 1 \in 1 .. N /\ (c + 1) - 1 = c
    BY <1>7, GovernorAssumption DEF CPUs
  <2> HIDE DEF i
  <2>2. s[i] = Step("look", c)
    BY <1>7, <2>1, SetFrequencyList
  <2> QED
    BY <2>1, <2>2
<1>11. Demanding(s)
  BY <1>8, <1>9, <1>10 DEF Demanding
<1>12. \A x \in Items(s) : x.do # "store"
  BY <1>7 DEF Items, Q
<1>13. \E x \in Items(s) : x.do = "demand"
  BY <1>8 DEF Items
<1> QED
  BY <1>4, <1>11, <1>12, <1>13

(* A list that a step of a caller leads to.                                *)
LEMMA DemandThen ==
  ASSUME ListInv, DemandInv, NEW a \in Actors, ~Idle(a), NEW f \in Seq(StepsOf(a)), Then(a, f),
         \/ f = <<>>
         \/ /\ Head(todo[a]).do # "demand"
            /\ Head(todo[a]).do \in Looking => \A i \in 1 .. Len(f) : f[i].do \in Looking
  PROVE  DemandInv'
<1>1. /\ todo[a] \in Seq(StepsOf(a)) /\ todo[a] # <<>> /\ todo'[a] = f \o Tail(todo[a])
      /\ \A b \in Actors \ {a} : todo'[b] = todo[b]
  BY ThenTakes
<1>2. Head(todo[a]) = todo[a][1]
  BY <1>1
<1>3. ASSUME a \in Callers PROVE Demanding(todo'[a])
  <2>1. Demanding(todo[a])
    BY <1>3 DEF DemandInv
  <2>2. CASE f = <<>>
    BY <1>1, <2>1, <2>2, DemandingPop
  <2>3. CASE f # <<>>
    BY <1>1, <1>2, <2>1, <2>3, DemandingPush
  <2> QED
    BY <2>2, <2>3
<1>4. \A b \in Callers : Demanding(todo'[b])
  BY <1>1, <1>3 DEF DemandInv, Actors
<1> QED
  BY <1>4 DEF DemandInv, Demanding

(* No list has a frequency to store behind its first item.                 *)
LEMMA StoreThen ==
  ASSUME ListInv, StoreInv, NEW a \in Actors, ~Idle(a), NEW f \in Seq(StepsOf(a)), Then(a, f),
         \A x \in Items(f) : x.do # "store",
         \A b \in Actors \ {a} : ~Idle(b) => demand' = demand
  PROVE  StoreInv'
<1>1. /\ todo[a] \in Seq(StepsOf(a)) /\ todo[a] # <<>> /\ todo'[a] = f \o Tail(todo[a])
      /\ \A b \in Actors \ {a} : todo'[b] = todo[b]
      /\ Items(todo'[a]) = Items(f) \cup Items(Tail(todo[a]))
  BY ThenTakes
<1>2. \A x \in Items(todo'[a]) : x.do # "store"
  BY <1>1 DEF StoreInv
<1>3. todo'[a] \in Seq(StepsOf(a))
  BY <1>1, ThenList
<1>4. ASSUME todo'[a] # <<>>
      PROVE  Head(todo'[a]) \in Items(todo'[a]) /\ Items(Tail(todo'[a])) \subseteq Items(todo'[a])
  BY <1>3, <1>4, ItemsThen
<1>5. ASSUME NEW b \in Actors, todo'[b] # <<>>
      PROVE  /\ Head(todo'[b]).do = "store" => Head(todo'[b]).f = demand'
             /\ \A x \in Items(Tail(todo'[b])) : x.do # "store"
  <2>1. CASE b = a
    BY <1>2, <1>4, <1>5, <2>1
  <2>2. CASE b # a
    BY <1>1, <1>5, <2>2 DEF StoreInv, Doing, Idle
  <2> QED
    BY <2>1, <2>2
<1> QED
  BY <1>5 DEF StoreInv, Doing, Idle, Items

(* ... nor has one that is looked up now.                                  *)
LEMMA StoreLook ==
  ASSUME ListInv, StoreInv, NEW a \in Actors, ~Idle(a), NEW x \in StepsOf(a), Then(a, <<x>>),
         x.f = demand, demand' = demand
  PROVE  StoreInv'
<1>1. <<x>> \in Seq(StepsOf(a)) /\ Len(<<x>>) = 1 /\ <<x>>[1] = x
  BY Single
<1>2. /\ todo[a] \in Seq(StepsOf(a)) /\ todo[a] # <<>> /\ todo'[a] = <<x>> \o Tail(todo[a])
      /\ \A b \in Actors \ {a} : todo'[b] = todo[b]
  BY <1>1, ThenTakes
<1> DEFINE r == Tail(todo[a])
           t == <<x>> \o r
<1>3. r \in Seq(StepsOf(a)) /\ \A y \in Items(r) : y.do # "store"
  BY <1>2 DEF StoreInv
<1> HIDE DEF r
<1>4. /\ t \in Seq(StepsOf(a)) /\ Len(t) = 1 + Len(r) /\ Len(r) \in Nat /\ t[1] = x
      /\ \A i \in 1 .. Len(t) : i > 1 => t[i] = r[i - 1]
  <2>1. /\ t \in Seq(StepsOf(a)) /\ Len(t) = Len(<<x>>) + Len(r)
        /\ \A i \in 1 .. Len(<<x>>) : t[i] = <<x>>[i]
        /\ \A i \in 1 .. Len(t) : i > Len(<<x>>) => t[i] = r[i - Len(<<x>>)]
    BY ONLY <1>1, <1>3, Concatenated
  <2> HIDE DEF t
  <2>2. Len(r) \in Nat
    BY <1>3
  <2> QED
    BY <1>1, <2>1, <2>2
<1> HIDE DEF t
<1>5. t # <<>> /\ Head(t) = x /\ Items(Tail(t)) \subseteq Items(r)
  <2>1. /\ t # <<>> /\ Head(t) = t[1] /\ Len(Tail(t)) = Len(r)
        /\ \A i \in 1 .. Len(r) : Tail(t)[i] = t[i + 1]
    BY <1>4
  <2>2. \A i \in 1 .. Len(r) : i + 1 \in 1 .. Len(t) /\ i + 1 > 1 /\ (i + 1) - 1 = i
    BY <1>4
  <2>3. \A i \in 1 .. Len(r) : Tail(t)[i] = r[i]
    BY <1>4, <2>1, <2>2
  <2> QED
    BY <1>4, <2>1, <2>3 DEF Items
<1>6. ASSUME NEW b \in Actors, todo'[b] # <<>>
      PROVE  /\ Head(todo'[b]).do = "store" => Head(todo'[b]).f = demand'
             /\ \A y \in Items(Tail(todo'[b])) : y.do # "store"
  <2>1. CASE b = a
    BY <1>2, <1>3, <1>5, <2>1 DEF t, r
  <2>2. CASE b # a
    BY <1>2, <1>6, <2>2 DEF StoreInv, Doing, Idle
  <2> QED
    BY <2>1, <2>2
<1> QED
  BY <1>6 DEF StoreInv, Doing, Idle, Items

(* The conclusion of FreqInv is kept by a step that changes neither the    *)
(* demand nor frequencies and goes on with the CPUs it looks at.           *)
LEMMA FreqKept ==
  ASSUME FreqInv, NEW a \in Actors, \A b \in Actors \ {a} : todo'[b] = todo[b],
         \A do \in {"compare", "demand"} :
            (\E x \in Items(todo[a]) : x.do = do) => \E x \in Items(todo'[a]) : x.do = do,
         Counted' = online' => Counted = online /\ online' = online,
         Counted' = online' => \A c \in online :
            \/ UNCHANGED <<freq[c], demand>> /\ (Looks(todo[a], c) => Looks(todo'[a], c))
            \/ freq'[c] = demand'
  PROVE  FreqInv'
<1> SUFFICES ASSUME ~Pends("compare")', ~Pends("demand")', Counted' = online'
             PROVE  \A c \in online' : freq'[c] = demand' \/ Covered(c)'
  BY DEF FreqInv
<1>1. ~Pends("compare") /\ ~Pends("demand")
  BY DEF Pends, Items
<1>2. \A c \in online : freq[c] = demand \/ Covered(c)
  BY <1>1 DEF FreqInv
<1> SUFFICES ASSUME NEW c \in online, freq'[c] # demand'
             PROVE  Covered(c)'
  OBVIOUS
<1>3. freq[c] # demand /\ (Looks(todo[a], c) => Looks(todo'[a], c))
  OBVIOUS
<1>4. PICK b \in Actors : Looks(todo[b], c)
  BY <1>2, <1>3 DEF Covered
<1>5. Looks(todo'[b], c)
  BY <1>3, <1>4
<1> QED
  BY <1>5 DEF Covered, Looks, Items

(* FreqInv says nothing while the demand is about to change or a start to  *)
(* compare.                                                                *)
LEMMA FreqPends ==
  ASSUME NEW a \in Actors, NEW x \in Items(todo'[a]), x.do \in {"compare", "demand"}
  PROVE  FreqInv'
<1>1. Pends("compare")' \/ Pends("demand")'
  BY DEF Pends, Items
<1> QED
  BY <1>1 DEF FreqInv

-----------------------------------------------------------------------------
(* The steps.                                                              *)
SerialInv == DemandInv /\ StoreInv /\ FreqInv

(* A step that adds nothing to its actor's list.                           *)
LEMMA SerialPop ==
  ASSUME ListInv, DemandInv, StoreInv, NEW a \in Actors, ~Idle(a), Then(a, <<>>),
         \A b \in Actors \ {a} : ~Idle(b) => demand' = demand
  PROVE  /\ DemandInv' /\ StoreInv'
         /\ Items(todo'[a]) = Items(Tail(todo[a]))
         /\ Items(todo[a]) = {Head(todo[a])} \cup Items(Tail(todo[a]))
         /\ \A b \in Actors \ {a} : todo'[b] = todo[b]
<1>1. <<>> \in Seq(StepsOf(a)) /\ Items(<<>>) = {}
  BY ItemsNone
<1>2. DemandInv'
  BY <1>1, DemandThen
<1>3. StoreInv'
  BY <1>1, StoreThen
<1> QED
  BY <1>1, <1>2, <1>3, ThenTakes

LEMMA SerialGovernor ==
  ASSUME GovInv, ValueInv, DemandInv, StoreInv, NEW a \in Actors, Inc(a) \/ Dec(a) \/ Assign(a)
  PROVE  SerialInv'
<1>1. ~Idle(a) /\ Then(a, <<>>) /\ demand' = demand
  BY DEF Inc, Dec, Assign, Doing
<1>2. DemandInv' /\ StoreInv'
  BY <1>1, SerialPop DEF GovInv
<1>3. CASE Inc(a)
  <2>1. Head(todo[a]).do = "inc"
    BY <1>3 DEF Inc, Doing
  <2>2. Engaged(a)' /\ Leads(Head(todo[a]), Head(todo[a])')
    BY <1>1, <1>3, <2>1, Popped DEF Inc, GovInv, ListInv
  <2>3. todo'[a] # <<>> /\ Head(todo'[a]).do = "compare"
    BY <2>1, <2>2 DEF Leads, Engaged, Idle
  <2>4. todo'[a] \in Seq(StepsOf(a))
    BY <1>3, IncNext DEF GovInv, ListInv
  <2>5. Head(todo'[a]) \in Items(todo'[a])
    BY <2>3, <2>4, ItemsThen
  <2> QED
    BY <1>2, <2>3, <2>5, FreqPends DEF SerialInv
<1>4. CASE Dec(a) \/ Assign(a)
  <2>1. Counted' # online'
    BY <1>4, DecNext, AssignNext
  <2> QED
    BY <1>2, <2>1 DEF SerialInv, FreqInv
<1> QED
  BY <1>3, <1>4

LEMMA SerialHotplug ==
  ASSUME GovInv, ValueInv, DemandInv, StoreInv, NEW a \in Actors,
         Up(a) \/ Prepare(a) \/ Dead(a) \/ HotplugDone(a)
  PROVE  SerialInv'
<1> DEFINE c == Cpu(a)
<1>1. ~Idle(a) /\ Head(todo[a]).do \in {"up", "down", "dead"} /\ demand' = demand
  BY DEF Up, Prepare, Dead, HotplugDone, Doing
<1>2. c \in CPUs /\ a \in Callers
  BY <1>1, HeadStep DEF Calling, Actors, GovInv
<1>3. PICK x \in Items(Tail(todo[a])) : x.do = "demand"
  BY <1>1, <1>2, DemandAhead DEF GovInv, Looking
<1> HIDE DEF c
<1>4. PICK f \in Seq(StepsOf(a)) : Then(a, f) /\ \A y \in Items(f) : y.do # "store"
  <2>1. CASE Then(a, <<>>)
    <3>1. <<>> \in Seq(StepsOf(a)) /\ Items(<<>>) = {}
      BY ItemsNone
    <3> QED
      BY <2>1, <3>1
  <2>2. CASE Then(a, Start(c))
    <3>1. Start(c) \in Seq(StepsOf(a))
      BY <1>2, StartList, ActorsApart
    <3>2. Items(Start(c)) = {Step("inc", c), Step("compare", c)}
      <4>1. Len(Start(c)) = 2 /\ Start(c)[1] = Step("inc", c) /\ Start(c)[2] = Step("compare", c)
        BY DEF Start
      <4>2. 1 .. 2 = {1, 2}
        OBVIOUS
      <4> HIDE DEF Start
      <4> QED
        BY <4>1, <4>2 DEF Items
    <3> QED
      BY <2>2, <3>1, <3>2 DEF Step
  <2>3. CASE Prepare(a)
    <3> DEFINE p == IF governor[c] = "sysclock" THEN Stop(c) ELSE <<>>
               f == p \o <<Step("dead", c)>>
    <3>1. Then(a, f)
      BY <2>3 DEF Prepare, c
    <3>2. Step("dec", c) \in StepsOf(a) /\ Step("dead", c) \in StepsOf(a)
      BY <1>2, StepType, ActorsApart DEF StepsOf, Step, Engaging
    <3> DEFINE Q == {y \in StepsOf(a) : y.do # "store"}
    <3>3. Step("dec", c) \in Q /\ Step("dead", c) \in Q
      BY <3>2 DEF Step
    <3> HIDE DEF Q
    <3>4. p \in Seq(Q) /\ <<Step("dead", c)>> \in Seq(Q)
      BY <3>3 DEF Stop
    <3> HIDE DEF p
    <3>5. f \in Seq(Q)
      BY <3>4, Concatenated
    <3> HIDE DEF f
    <3>6. f \in Seq(StepsOf(a)) /\ \A y \in Items(f) : y.do # "store"
      BY <3>5, ItemsOf DEF Q
    <3> QED
      BY <3>1, <3>6
  <2> QED
    BY <2>1, <2>2, <2>3 DEF Up, Dead, HotplugDone, c
<1>5. x \in Items(todo'[a])
  BY <1>1, <1>3, <1>4, ThenTakes DEF GovInv
<1>6. FreqInv'
  BY <1>3, <1>5, FreqPends
<1>7. DemandInv'
  BY <1>1, <1>4, DemandThen DEF GovInv, Looking
<1>8. StoreInv'
  BY <1>1, <1>4, StoreThen DEF GovInv
<1> QED
  BY <1>6, <1>7, <1>8 DEF SerialInv

LEMMA SerialCompare ==
  ASSUME GovInv, ValueInv, DemandInv, StoreInv, FreqInv, NEW a \in Actors, Compare(a)
  PROVE  SerialInv'
<1>1. /\ ~Idle(a) /\ Head(todo[a]).do = "compare"
      /\ UNCHANGED <<online, freq, demand, cpus_using_sysclock_governor>> /\ Counted' = Counted
  BY CompareNext DEF Compare, Doing
<1>2. CASE AllSet
  <2>1. Then(a, SetFrequency) /\ SetFrequency \in Seq(StepsOf(a))
    BY <1>2, SetFrequencyList DEF Compare
  <2>2. \A x \in Items(SetFrequency) : x.do # "store"
    BY ItemsSetFrequency DEF Step
  <2>3. DemandInv'
    BY <1>1, <2>1, DemandThen DEF GovInv, Looking
  <2>4. StoreInv'
    BY <1>1, <2>1, <2>2, StoreThen DEF GovInv
  <2>5. Items(SetFrequency) \subseteq Items(todo'[a])
    BY <1>1, <2>1, ThenTakes DEF GovInv
  <2>6. \A c \in online' : Covered(c)'
    <3>1. \A c \in CPUs : Step("look", c) \in Items(todo'[a])
      BY <2>5, ItemsSetFrequency
    <3>2. \A c \in CPUs : Looks(todo'[a], c)
      BY <3>1 DEF Looks, Step, Looking
    <3>3. \A c \in CPUs : \E b \in Actors : Looks(todo'[b], c)
      BY <3>2
    <3> QED
      BY <1>1, <3>3 DEF Covered, Looks, Items, GovInv, ListInv
  <2> QED
    BY <2>3, <2>4, <2>6 DEF SerialInv, FreqInv
<1>3. CASE ~AllSet
  <2>1. Then(a, <<>>)
    BY <1>3 DEF Compare
  <2>2. DemandInv' /\ StoreInv'
    BY <1>1, <2>1, SerialPop DEF GovInv
  <2>3. Counted' # online'
    BY <1>1, <1>3 DEF AllSet, GovInv, CountInv
  <2> QED
    BY <2>2, <2>3 DEF SerialInv, FreqInv
<1> QED
  BY <1>2, <1>3

LEMMA SerialLook ==
  ASSUME GovInv, ValueInv, DemandInv, StoreInv, FreqInv, NEW a \in Actors, Look(a)
  PROVE  SerialInv'
<1> DEFINE c == Cpu(a)
<1>1. /\ ~Idle(a) /\ Head(todo[a]).do = "look" /\ Head(todo[a]).cpu = c
      /\ UNCHANGED <<online, freq, demand>> /\ Counted' = Counted
  BY LookNext DEF Look, Doing, Cpu
<1>2. c \in CPUs /\ demand \in Freqs \cup {0}
  BY <1>1, HeadStep DEF GovInv, ValueInv
<1>3. CASE c \in online /\ governor[c] = "sysclock"
  <2> DEFINE x == [Step("store", c) EXCEPT !.f = demand]
  <2>1. Then(a, <<x>>)
    BY <1>3 DEF Look
  <2>2. x = [do |-> "store", cpu |-> c, f |-> demand]
    BY DEF Step
  <2> HIDE DEF x
  <2>3. x \in StepsOf(a)
    BY <1>2, <2>2 DEF StepsOf, Steps, Looking, Calling, Engaging
  <2>4. <<x>> \in Seq(StepsOf(a)) /\ Len(<<x>>) = 1 /\ <<x>>[1] = x /\ Items(<<x>>) = {x}
    BY <2>3, Single, ItemsSingle
  <2>5. DemandInv'
    <3>1. \A i \in 1 .. Len(<<x>>) : <<x>>[i].do \in Looking
      BY <2>2, <2>4 DEF Looking
    <3> QED
      BY <1>1, <2>1, <2>4, <3>1, DemandThen DEF GovInv
  <2>6. StoreInv'
    BY <1>1, <2>1, <2>2, <2>3, StoreLook DEF GovInv
  <2>7. /\ Items(todo'[a]) = {x} \cup Items(Tail(todo[a]))
        /\ Items(todo[a]) = {Head(todo[a])} \cup Items(Tail(todo[a]))
        /\ \A b \in Actors \ {a} : todo'[b] = todo[b]
    BY <1>1, <2>1, <2>4, ThenTakes DEF GovInv
  <2>8. /\ \A do \in {"compare", "demand"} :
             (\E y \in Items(todo[a]) : y.do = do) => \E y \in Items(todo'[a]) : y.do = do
        /\ \A d \in online : Looks(todo[a], d) => Looks(todo'[a], d)
    BY <1>1, <2>2, <2>7 DEF Looks, Looking
  <2>9. FreqInv'
    BY <1>1, <2>7, <2>8, FreqKept
  <2> QED
    BY <2>5, <2>6, <2>9 DEF SerialInv
<1>4. CASE ~(c \in online /\ governor[c] = "sysclock")
  <2>1. Then(a, <<>>)
    BY <1>4 DEF Look
  <2>2. /\ DemandInv' /\ StoreInv'
        /\ Items(todo'[a]) = Items(Tail(todo[a]))
        /\ Items(todo[a]) = {Head(todo[a])} \cup Items(Tail(todo[a]))
        /\ \A b \in Actors \ {a} : todo'[b] = todo[b]
    BY <1>1, <2>1, SerialPop DEF GovInv
  <2>3. \A do \in {"compare", "demand"} :
          (\E y \in Items(todo[a]) : y.do = do) => \E y \in Items(todo'[a]) : y.do = do
    BY <1>1, <2>2
  <2>4. Counted' = online' => c \notin online
    BY <1>1, <1>4 DEF Counted, Using
  <2>5. \A d \in online : d # c => (Looks(todo[a], d) => Looks(todo'[a], d))
    BY <1>1, <2>2 DEF Looks
  <2>6. FreqInv'
    BY <1>1, <2>2, <2>3, <2>4, <2>5, FreqKept
  <2> QED
    BY <2>2, <2>6 DEF SerialInv
<1> QED
  BY <1>3, <1>4

LEMMA SerialStore ==
  ASSUME GovInv, ValueInv, DemandInv, StoreInv, FreqInv, NEW a \in Actors, Store(a)
  PROVE  SerialInv'
<1> DEFINE c == Cpu(a)
<1>1. /\ ~Idle(a) /\ Head(todo[a]).do = "store" /\ Head(todo[a]).cpu = c
      /\ UNCHANGED <<online, demand>> /\ Counted' = Counted /\ Then(a, <<>>)
      /\ freq' = [freq EXCEPT ![c] = Head(todo[a]).f]
  BY StoreNext DEF Store, Doing, Cpu
<1>2. c \in CPUs /\ online \subseteq CPUs
  BY <1>1, HeadStep DEF GovInv, ListInv
<1>3. Head(todo[a]).f = demand
  BY <1>1 DEF StoreInv, Doing
<1>4. /\ DemandInv' /\ StoreInv'
      /\ Items(todo'[a]) = Items(Tail(todo[a]))
      /\ Items(todo[a]) = {Head(todo[a])} \cup Items(Tail(todo[a]))
      /\ \A b \in Actors \ {a} : todo'[b] = todo[b]
  BY <1>1, SerialPop DEF GovInv
<1>5. \A do \in {"compare", "demand"} :
        (\E y \in Items(todo[a]) : y.do = do) => \E y \in Items(todo'[a]) : y.do = do
  BY <1>1, <1>4
<1> HIDE DEF c
<1>6. freq'[c] = demand' /\ \A d \in online : d # c => freq'[d] = freq[d]
  BY <1>1, <1>2, <1>3 DEF ValueInv
<1>7. \A d \in online : d # c => (Looks(todo[a], d) => Looks(todo'[a], d))
  BY <1>1, <1>4 DEF Looks
<1>8. FreqInv'
  BY <1>1, <1>4, <1>5, <1>6, <1>7, FreqKept
<1> QED
  BY <1>4, <1>8 DEF SerialInv

LEMMA SerialDemand ==
  ASSUME GovInv, ValueInv, DemandInv, StoreInv, AloneInv, NEW a \in Actors, Demand(a)
  PROVE  SerialInv'
<1> DEFINE s == todo[a]
           t == <<>> \o Tail(s)
<1>1. ~Idle(a) /\ Head(s).do = "demand" /\ Then(a, <<>>) /\ UNCHANGED online
  BY DEF Demand, Doing
<1>2. a \in Callers /\ s \in Seq(StepsOf(a)) /\ s # <<>> /\ Head(s) = s[1]
  BY <1>1, HeadStep DEF Calling, Actors, GovInv
<1>3. DemandInv' /\ StoreInv'
  BY <1>1, <1>2, SerialPop DEF GovInv, AloneInv
<1>4. todo'[a] = t
  BY <1>1 DEF Then, GovInv, ListInv
<1>5. Demanding(s)
  BY <1>2 DEF DemandInv
<1> HIDE DEF s
<1>6. /\ Len(s) \in Nat /\ Len(s) >= 1 /\ Len(t) = Len(s) - 1
      /\ \A i \in 1 .. Len(s) - 1 : t[i] = s[i + 1]
  BY <1>2, PopList
<1> HIDE DEF t
<1>7. 1 \in 1 .. Len(s) /\ s[1].do \notin Looking
  BY <1>1, <1>2, <1>6 DEF Looking
<1>8. PICK k \in 1 .. Len(s) : /\ \A i \in k + 1 .. Len(s) : s[i].do \in Looking
                               /\ \A c \in CPUs : \E i \in k + 1 .. Len(s) : s[i] = Step("look", c)
  BY <1>5, <1>7 DEF Demanding
<1>9. ASSUME NEW c \in CPUs PROVE Looks(t, c)
  <2>1. PICK i \in k + 1 .. Len(s) : s[i] = Step("look", c)
    BY <1>8
  <2>2. i - 1 \in 1 .. Len(t) /\ i - 1 \in 1 .. Len(s) - 1 /\ (i - 1) + 1 = i
    BY <1>6
  <2>3. t[i - 1] = Step("look", c)
    BY <1>6, <2>1, <2>2
  <2> QED
    BY <2>2, <2>3 DEF Looks, Items, Step, Looking
<1>10. \A c \in CPUs : \E b \in Actors : Looks(todo'[b], c)
  BY <1>4, <1>9
<1>11. \A c \in online' : Covered(c)'
  BY <1>1, <1>10 DEF Covered, Looks, Items, GovInv, ListInv
<1> QED
  BY <1>3, <1>11 DEF SerialInv, FreqInv

LEMMA SerialSwitch ==
  ASSUME GovInv, DemandInv, StoreInv, FreqInv, NEW c \in CPUs, Switch(c)
  PROVE  SerialInv'
<1>1. /\ Idle(c) /\ c \in Actors /\ c \notin Callers
      /\ UNCHANGED <<online, governor, freq, demand>>
      /\ \A b \in Actors \ {c} : todo'[b] = todo[b]
  BY ActorsApart DEF Switch, Actors, GovInv, ListInv
<1>2. DemandInv'
  <2>1. \A a \in Callers : todo'[a] = todo[a]
    BY <1>1 DEF Actors
  <2> QED
    BY <2>1 DEF DemandInv, Demanding
<1> DEFINE Q == {x \in StepsOf(c) : x.do # "store"}
<1>3. \A do \in {"sysclock", "inc", "compare", "dec", "other"} : Step(do, c) \in Q
  BY <1>1, StepType DEF StepsOf, Step, Engaging, Calling
<1> HIDE DEF Q
<1>4. CASE governor[c] = "sysclock"
  <2> DEFINE p == Stop(c)
             q == <<Step("other", c)>>
             s == p \o q
  <2>1. todo'[c] = s
    BY <1>1, <1>4 DEF Switch, GovInv, ListInv
  <2>2. p \in Seq(Q) /\ q \in Seq(Q)
    BY <1>3 DEF Stop
  <2>3. s # <<>> /\ Head(s) = Step("dec", c)
    BY <1>1, <1>3, StopList DEF Q
  <2> HIDE DEF p, q
  <2>4. s \in Seq(Q)
    BY <2>2, Concatenated
  <2> HIDE DEF s
  <2>5. \A x \in Items(Tail(s)) : x.do # "store"
    BY <2>3, <2>4, ItemsThen, ItemsOf DEF Q
  <2>6. StoreInv'
    <3>1. ASSUME NEW b \in Actors, todo'[b] # <<>>
          PROVE  /\ Head(todo'[b]).do = "store" => Head(todo'[b]).f = demand'
                 /\ \A x \in Items(Tail(todo'[b])) : x.do # "store"
      <4>1. CASE b = c
        BY <2>1, <2>3, <2>5, <4>1 DEF Step
      <4>2. CASE b # c
        BY <1>1, <3>1, <4>2 DEF StoreInv, Doing, Idle
      <4> QED
        BY <4>1, <4>2
    <3> QED
      BY <3>1 DEF StoreInv, Doing, Idle, Items
  <2>7. ~Uncounted(c) /\ ~Uncounted(c)' /\ Using' = Using
    BY <1>1, <2>1, <2>3 DEF Uncounted, Doing, Step, Using
  <2>8. Counted' = Counted
    BY <1>1, <2>7, CountedSame
  <2>9. Items(todo[c]) = {}
    BY <1>1, ItemsNone DEF Idle
  <2>10. FreqInv'
    BY <1>1, <2>8, <2>9, FreqKept DEF Looks
  <2> QED
    BY <1>2, <2>6, <2>10 DEF SerialInv
<1>5. CASE governor[c] # "sysclock"
  <2> DEFINE p == <<Step("sysclock", c)>>
             q == Start(c)
             s == p \o q
  <2>1. todo'[c] = s
    BY <1>1, <1>5 DEF Switch, GovInv, ListInv
  <2>2. /\ p \in Seq(Q) /\ q \in Seq(Q) /\ Len(p) = 1
        /\ Len(q) = 2 /\ q[2] = Step("compare", c)
    BY <1>3 DEF Start
  <2>3. s # <<>> /\ Head(s) = Step("sysclock", c)
    BY SwitchOnList
  <2> HIDE DEF p, q
  <2>4. s \in Seq(Q) /\ Len(s) = 3 /\ s[3] = Step("compare", c)
    <3>1. /\ s \in Seq(Q) /\ Len(s) = Len(p) + Len(q)
          /\ \A i \in 1 .. Len(s) : i > Len(p) => s[i] = q[i - Len(p)]
      BY ONLY <2>2, Concatenated
    <3> HIDE DEF s
    <3> QED
      BY <2>2, <3>1
  <2> HIDE DEF s
  <2>5. \A x \in Items(Tail(s)) : x.do # "store"
    BY <2>3, <2>4, ItemsThen, ItemsOf DEF Q
  <2>6. StoreInv'
    <3>1. ASSUME NEW b \in Actors, todo'[b] # <<>>
          PROVE  /\ Head(todo'[b]).do = "store" => Head(todo'[b]).f = demand'
                 /\ \A x \in Items(Tail(todo'[b])) : x.do # "store"
      <4>1. CASE b = c
        BY <2>1, <2>3, <2>5, <4>1 DEF Step
      <4>2. CASE b # c
        BY <1>1, <3>1, <4>2 DEF StoreInv, Doing, Idle
      <4> QED
        BY <4>1, <4>2
    <3> QED
      BY <3>1 DEF StoreInv, Doing, Idle, Items
  <2>7. Step("compare", c) \in Items(todo'[c])
    BY <2>1, <2>4 DEF Items
  <2>8. FreqInv'
    BY <1>1, <2>7, FreqPends DEF Step
  <2> QED
    BY <1>2, <2>6, <2>8 DEF SerialInv
<1> QED
  BY <1>4, <1>5

LEMMA SerialCall ==
  ASSUME GovInv, DemandInv, StoreInv, NEW a \in Callers, NEW op \in Calls, op # "exit",
         NEW up \in AtMostOne(CPUs), NEW down \in AtMostOne(CPUs), NEW f \in Freqs,
         Call(a, op, up, down, f)
  PROVE  SerialInv'
<1>1. /\ a \in Actors /\ UNCHANGED demand
      /\ \A b \in Actors \ {a} : todo'[b] = todo[b]
  BY DEF Call, Actors, GovInv, ListInv
<1>2. /\ Demanding(todo'[a])
      /\ \E x \in Items(todo'[a]) : x.do = "demand"
      /\ \A x \in Items(todo'[a]) : x.do # "store"
  BY CallList DEF GovInv
<1>3. DemandInv'
  <2>1. \A b \in Callers : Demanding(todo'[b])
    BY <1>1, <1>2 DEF DemandInv, Actors
  <2> QED
    BY <2>1 DEF DemandInv, Demanding
<1>4. StoreInv'
  <2>1. todo'[a] \in Seq(StepsOf(a))
    BY <1>1, CallNext DEF GovInv, ListInv
  <2>2. ASSUME todo'[a] # <<>>
        PROVE  Head(todo'[a]) \in Items(todo'[a]) /\ Items(Tail(todo'[a])) \subseteq Items(todo'[a])
    BY <2>1, <2>2, ItemsThen
  <2>3. ASSUME NEW b \in Actors, todo'[b] # <<>>
        PROVE  /\ Head(todo'[b]).do = "store" => Head(todo'[b]).f = demand'
               /\ \A x \in Items(Tail(todo'[b])) : x.do # "store"
    <3>1. CASE b = a
      BY <1>2, <2>2, <2>3, <3>1
    <3>2. CASE b # a
      BY <1>1, <2>3, <3>2 DEF StoreInv, Doing, Idle
    <3> QED
      BY <3>1, <3>2
  <2> QED
    BY <2>3 DEF StoreInv, Doing, Idle, Items
<1> QED
  BY <1>1, <1>2, <1>3, <1>4, FreqPends DEF SerialInv

LEMMA SerialInit == Init => AloneInv /\ SerialInv
<1> SUFFICES ASSUME Init PROVE AloneInv /\ SerialInv
  OBVIOUS
<1>1. \A a \in Actors : todo[a] = <<>>
  BY DEF Init
<1>2. AloneInv /\ StoreInv
  BY <1>1 DEF AloneInv, StoreInv, Idle, Actors
<1>3. DemandInv
  <2>1. Demanding(<<>>)
    BY DEF Demanding
  <2> QED
    BY <1>1, <2>1 DEF DemandInv, Actors
<1>4. Counted = {} /\ online # {}
  BY ActorsApart DEF Counted, Using, Init
<1> QED
  BY <1>2, <1>3, <1>4 DEF SerialInv, FreqInv

LEMMA SerialNext ==
  ASSUME Serial
  PROVE  GovInv /\ ValueInv /\ AloneInv /\ SerialInv /\ [Next]_vars => SerialInv'
<1> SUFFICES ASSUME GovInv, ValueInv, AloneInv, SerialInv, [Next]_vars PROVE SerialInv'
  OBVIOUS
<1>1. DemandInv /\ StoreInv /\ FreqInv /\ "exit" \notin Calls
  BY DEF SerialInv, Serial
<1>2. CASE UNCHANGED vars
  BY <1>2 DEF vars, SerialInv, DemandInv, Demanding, StoreInv, FreqInv, Pends, Covered, Looks, Items,
              Doing, Idle, Counted, Using, Uncounted, Cpu
<1> QED
  BY <1>1, <1>2, SerialGovernor, SerialHotplug, SerialCompare, SerialLook, SerialStore,
     SerialDemand, SerialSwitch, SerialCall
  DEF Next

(* For any number of CPUs: when nothing is under way and all online CPUs   *)
(* use the governor, each runs at the frequency the reservations ask for,  *)
(* whichever CPU switched last and whichever came online                   *)
(* (cpufreq_sysclock.c:93-110, sysclock.c:136-160).  The premise is that   *)
(* system calls run one after another, and that none of them is do_exit,   *)
(* which ends a reservation and does not set the frequency.                *)
THEOREM FrequencyCurrent ==
  ASSUME Serial
  PROVE  Spec => []FreqCurrent
<1>1. GovInv /\ SerialInv => FreqCurrent
  <2> SUFFICES ASSUME GovInv, SerialInv, Quiescent, Using = online
               PROVE  \A c \in online : freq[c] = demand
    BY DEF FreqCurrent
  <2>1. \A a \in Actors : todo[a] = <<>>
    BY DEF Quiescent, Idle
  <2>2. \A a \in Actors : Items(todo[a]) = {}
    BY <2>1, ItemsNone
  <2>3. ~Pends("compare") /\ ~Pends("demand") /\ \A c \in online : ~Covered(c)
    BY <2>2 DEF Pends, Covered, Looks
  <2>4. Counted = online
    BY DEF Counted, Uncounted, Doing, Quiescent
  <2> QED
    BY <2>3, <2>4 DEF SerialInv, FreqInv
<1>2. GovInv => ListInv
  BY DEF GovInv
<1> QED
  BY GovInit, GovNext, ValueNext, AloneNext, SerialInit, SerialNext, <1>1, <1>2, PTL DEF Spec
=============================================================================
