---------------------------- MODULE AdmissionProofs ----------------------------
(***************************************************************************)
(* Proofs about admission and placement, for every set of tasks and        *)
(* requests, every length of the rows and every set of policies and of     *)
(* faults that the premises of Admission (Careful, NoTiny, AllCPUs,        *)
(* BoundSound, NoWrap, AllClocked) allow.                                  *)
(*                                                                         *)
(* The invariant IInv says of each CPU that its row, its length and its    *)
(* utilization are those of the tasks reserved on it, and that these tasks *)
(* have passed the two tests of try_bind (Tested).  The second part is     *)
(* what makes it inductive: a revision that fails puts the task back with  *)
(* try_bind and does not look at the result, so the tests must be known to *)
(* pass again, in a row where tasks of the same period may have changed    *)
(* places.  Tested is therefore stated without the order of the row.       *)
(***************************************************************************)
EXTENDS Admission, FiniteSetTheorems, TLAPS

(***************************************************************************)
(* Sums.  A sum of natural numbers over a finite set is the number of its  *)
(* units, pairs of an element and a number up to its value; what is known  *)
(* of the cardinality of finite sets then holds of sums.                   *)
(***************************************************************************)
Units(f, S) == {p \in S \X (Nat \ {0}) : p[2] <= f[p[1]]}

Sum(f, S) == SumFunctionOnSet(f, S)

\* The recursion that SumFunctionOnSet stands for.
LEMMA SumDef ==
    ASSUME NEW f, NEW S
    PROVE  Sum(f, S) = (CHOOSE iter : iter = [s \in SUBSET S |->
                  IF s = {} THEN 0 ELSE f[CHOOSE x \in s : TRUE] + iter[s \ {CHOOSE x \in s : TRUE}]])[S]
  BY DEF Sum, SumFunctionOnSet, FoldFunctionOnSet, MapThenFoldSet

\* SumFunction sums over its domain.
LEMMA SumFun ==
    ASSUME NEW f
    PROVE  SumFunction(f) = Sum(f, DOMAIN f)
  BY DEF Sum, SumFunction

\* What a set of subsets of a finite set has, a smallest one has.
LEMMA LeastSubset ==
    ASSUME NEW S, IsFiniteSet(S), NEW W \in SUBSET SUBSET S, W # {}
    PROVE  \E s \in W : \A r \in W : r \subseteq s => r = s
<1>1. IsWellFoundedOn(StrictSubsetOrdering(S), SUBSET S)
  BY FS_StrictSubsetOrderingWellFounded, FS_FiniteSubsetsOfFinite
<1>2. PICK s \in W : \A r \in W : ~(<<r, s>> \in StrictSubsetOrdering(S))
  BY <1>1, WFMin
<1> QED
  BY <1>2 DEF StrictSubsetOrdering

\* No elements have no units.
LEMMA UnitsEmpty ==
    ASSUME NEW f
    PROVE  /\ IsFiniteSet(Units(f, {}))
           /\ Cardinality(Units(f, {})) = 0
<1>1. Units(f, {}) = {}
  BY DEF Units
<1> QED
  BY <1>1, FS_EmptySet

\* The units of x are as many as its value.
LEMMA UnitsRemove ==
    ASSUME NEW f, NEW S, NEW x \in S, f[x] \in Nat,
           IsFiniteSet(Units(f, S \ {x}))
    PROVE  /\ IsFiniteSet(Units(f, S))
           /\ Cardinality(Units(f, S)) = f[x] + Cardinality(Units(f, S \ {x}))
<1> DEFINE X == {x} \X (1 .. f[x])
<1>1. Units(f, S) = X \cup Units(f, S \ {x})
  BY DEF Units
<1>2. X \cap Units(f, S \ {x}) = {}
  BY DEF Units
<1>3. IsFiniteSet({x}) /\ Cardinality({x}) = 1
  BY FS_Singleton
<1>4. IsFiniteSet(1 .. f[x]) /\ Cardinality(1 .. f[x]) = f[x]
  BY FS_Interval
<1>5. IsFiniteSet(X) /\ Cardinality(X) = f[x]
  <2>1. IsFiniteSet(X) /\ Cardinality(X) = Cardinality({x}) * Cardinality(1 .. f[x])
    BY <1>3, <1>4, FS_Product
  <2> QED
    BY <2>1, <1>3, <1>4
<1> HIDE DEF X
<1>6. Cardinality(Units(f, S \ {x})) \in Nat
  BY FS_CardinalityType
<1> QED
  <2>1. /\ IsFiniteSet(X \cup Units(f, S \ {x}))
        /\ Cardinality(X \cup Units(f, S \ {x}))
            = Cardinality(X) + Cardinality(Units(f, S \ {x})) - Cardinality(X \cap Units(f, S \ {x}))
    BY <1>5, FS_Union
  <2>2. Cardinality(X \cap Units(f, S \ {x})) = 0
    BY <1>2, FS_EmptySet
  <2> QED
    BY <1>1, <1>5, <1>6, <2>1, <2>2

\* The units of finitely many elements are finitely many.
LEMMA UnitsFinite ==
    ASSUME NEW f, NEW S, IsFiniteSet(S), \A x \in S : f[x] \in Nat
    PROVE  IsFiniteSet(Units(f, S))
<1> DEFINE W == {s \in SUBSET S : ~IsFiniteSet(Units(f, s))}
<1> SUFFICES ASSUME W # {} PROVE FALSE
  OBVIOUS
<1>1. PICK s \in W : \A r \in W : r \subseteq s => r = s
  <2>1. W \in SUBSET SUBSET S
    OBVIOUS
  <2> HIDE DEF W
  <2> QED
    BY <2>1, LeastSubset
<1>2. s # {}
  BY <1>1, UnitsEmpty
<1>3. PICK x \in s : TRUE
  BY <1>2
<1>4. s \ {x} \notin W
  BY <1>1
<1> QED
  BY <1>1, <1>3, <1>4, UnitsRemove

\* The recursion of the sum defines the number of units.
LEMMA SumUnits ==
    ASSUME NEW f, NEW S, IsFiniteSet(S), \A x \in S : f[x] \in Nat
    PROVE  Sum(f, S) = Cardinality(Units(f, S))
<1> DEFINE pick(s) == CHOOSE x \in s : TRUE
           body(g) == [s \in SUBSET S |-> IF s = {} THEN 0 ELSE f[pick(s)] + g[s \ {pick(s)}]]
           count == [s \in SUBSET S |-> Cardinality(Units(f, s))]
<1>1. ASSUME NEW s \in SUBSET S, s # {}
      PROVE  /\ pick(s) \in s
             /\ s \ {pick(s)} \in SUBSET S
             /\ Cardinality(Units(f, s)) = f[pick(s)] + Cardinality(Units(f, s \ {pick(s)}))
  <2>1. pick(s) \in s
    BY <1>1
  <2> HIDE DEF pick
  <2>2. IsFiniteSet(s \ {pick(s)})
    BY FS_Subset, FS_RemoveElement
  <2>3. IsFiniteSet(Units(f, s \ {pick(s)}))
    BY <2>2, UnitsFinite
  <2> QED
    BY <2>1, <2>3, UnitsRemove
<1> HIDE DEF pick
<1>2. count = body(count)
  <2>1. ASSUME NEW s \in SUBSET S PROVE count[s] = body(count)[s]
    <3>1. CASE s = {}
      BY <3>1, UnitsEmpty
    <3>2. CASE s # {}
      BY <3>2, <1>1
    <3> QED
      BY <3>1, <3>2
  <2> QED
    BY <2>1
<1> DEFINE iter == CHOOSE g : g = body(g)
<1>3. iter = body(iter)
  BY <1>2
<1>4. Sum(f, S) = iter[S]
  BY SumDef DEF pick
<1> HIDE DEF iter
<1>5. \A s \in SUBSET S : iter[s] = count[s]
  <2> DEFINE W == {s \in SUBSET S : iter[s] # count[s]}
  <2> SUFFICES ASSUME W # {} PROVE FALSE
    OBVIOUS
  <2>1. PICK s \in W : \A r \in W : r \subseteq s => r = s
    <3>1. W \in SUBSET SUBSET S
      OBVIOUS
    <3> HIDE DEF W
    <3> QED
      BY <3>1, LeastSubset
  <2>2. s # {}
    BY <2>1, <1>3, UnitsEmpty
  <2>3. s \ {pick(s)} \notin W
    BY <2>1, <2>2, <1>1
  <2>4. iter[s] = f[pick(s)] + iter[s \ {pick(s)}]
    BY <1>3, <2>2
  <2> QED
    BY <2>1, <2>2, <2>3, <2>4, <1>1
<1> QED
  BY <1>4, <1>5

\* A sum of natural numbers is one.
LEMMA SumNat ==
    ASSUME NEW f, NEW S, IsFiniteSet(S), \A x \in S : f[x] \in Nat
    PROVE  Sum(f, S) \in Nat
  BY SumUnits, UnitsFinite, FS_CardinalityType

\* The sum over no elements is 0.
LEMMA SumEmpty ==
    ASSUME NEW f
    PROVE  Sum(f, {}) = 0
  BY SumUnits, UnitsEmpty, FS_EmptySet

\* An element taken out of a sum.
LEMMA SumRemove ==
    ASSUME NEW f, NEW S, IsFiniteSet(S), \A x \in S : f[x] \in Nat, NEW x \in S
    PROVE  Sum(f, S) = f[x] + Sum(f, S \ {x})
<1>1. IsFiniteSet(S \ {x})
  BY FS_RemoveElement
<1>2. IsFiniteSet(Units(f, S \ {x}))
  BY <1>1, UnitsFinite
<1>3. Cardinality(Units(f, S)) = f[x] + Cardinality(Units(f, S \ {x}))
  BY <1>2, UnitsRemove
<1>4. Sum(f, S \ {x}) = Cardinality(Units(f, S \ {x}))
  BY <1>1, SumUnits
<1> QED
  BY <1>3, <1>4, SumUnits

\* An element added to a sum.
LEMMA SumAdd ==
    ASSUME NEW f, NEW S, IsFiniteSet(S), \A x \in S : f[x] \in Nat,
           NEW x, x \notin S, f[x] \in Nat
    PROVE  Sum(f, S \cup {x}) = f[x] + Sum(f, S)
<1>1. IsFiniteSet(S \cup {x})
  BY FS_AddElement
<1>2. (S \cup {x}) \ {x} = S
  OBVIOUS
<1>3. \A y \in S \cup {x} : f[y] \in Nat
  OBVIOUS
<1> QED
  BY <1>1, <1>2, <1>3, SumRemove

\* Only the values on the set matter.
LEMMA SumSame ==
    ASSUME NEW f, NEW g, NEW S, IsFiniteSet(S),
           \A x \in S : f[x] \in Nat, \A x \in S : f[x] = g[x]
    PROVE  Sum(f, S) = Sum(g, S)
<1>1. Units(f, S) = Units(g, S)
  BY DEF Units
<1> QED
  BY <1>1, SumUnits

\* Fewer and smaller values have a smaller sum.
LEMMA SumMono ==
    ASSUME NEW f, NEW g, NEW S, NEW R, IsFiniteSet(S), R \subseteq S,
           \A x \in R : f[x] \in Nat /\ f[x] <= g[x], \A x \in S : g[x] \in Nat
    PROVE  Sum(f, R) <= Sum(g, S)
<1>1. IsFiniteSet(R)
  BY FS_Subset
<1>2. Units(f, R) \subseteq Units(g, S)
  BY DEF Units
<1>3. IsFiniteSet(Units(g, S))
  BY UnitsFinite
<1>4. Cardinality(Units(f, R)) <= Cardinality(Units(g, S))
  BY <1>2, <1>3, FS_Subset
<1> QED
  BY <1>1, <1>4, SumUnits

\* The sum over two disjoint sets.
LEMMA SumSplit ==
    ASSUME NEW f, NEW A, NEW B, IsFiniteSet(A), IsFiniteSet(B), A \cap B = {},
           \A x \in A \cup B : f[x] \in Nat
    PROVE  Sum(f, A \cup B) = Sum(f, A) + Sum(f, B)
<1>1. IsFiniteSet(A \cup B)
  BY FS_Union
<1>2. Units(f, A \cup B) = Units(f, A) \cup Units(f, B)
  BY DEF Units
<1>3. Units(f, A) \cap Units(f, B) = {}
  BY DEF Units
<1>4. IsFiniteSet(Units(f, A)) /\ IsFiniteSet(Units(f, B))
  BY UnitsFinite
<1>5. /\ Cardinality(Units(f, A)) \in Nat
      /\ Cardinality(Units(f, B)) \in Nat
  BY <1>4, FS_CardinalityType
<1>6. Cardinality(Units(f, A) \cup Units(f, B))
        = Cardinality(Units(f, A)) + Cardinality(Units(f, B)) - Cardinality(Units(f, A) \cap Units(f, B))
  BY <1>4, FS_Union
<1>7. Cardinality(Units(f, A) \cap Units(f, B)) = 0
  BY <1>3, FS_EmptySet
<1>8. /\ Sum(f, A) = Cardinality(Units(f, A))
      /\ Sum(f, B) = Cardinality(Units(f, B))
      /\ Sum(f, A \cup B) = Cardinality(Units(f, A \cup B))
  BY <1>1, SumUnits
<1>9. Cardinality(Units(f, A) \cup Units(f, B)) = Cardinality(Units(f, A)) + Cardinality(Units(f, B))
  BY <1>5, <1>6, <1>7
<1> QED
  BY <1>2, <1>8, <1>9, Zenon

\* h maps S to T, one to one, and f is g after h.
Renames(h, f, S, g, T) ==
    /\ \A x \in S : h[x] \in T /\ f[x] \in Nat /\ f[x] = g[h[x]]
    /\ \A x, y \in S : h[x] = h[y] => x = y
    /\ \A y \in T : \E x \in S : h[x] = y

\* Renaming the elements does not change the sum.
LEMMA SumImage ==
    ASSUME NEW f, NEW g, NEW h, NEW S, NEW T, IsFiniteSet(S), Renames(h, f, S, g, T)
    PROVE  Sum(f, S) = Sum(g, T) /\ IsFiniteSet(T) /\ Cardinality(T) = Cardinality(S)
<1> USE DEF Renames
<1> DEFINE hh == [x \in S |-> h[x]]
<1>1. hh \in Bijection(S, T)
  <2>1. hh \in [S -> T]
    OBVIOUS
  <2>2. hh \in Injection(S, T)
    BY <2>1 DEF Injection, IsInjective
  <2>3. hh \in Surjection(S, T)
    BY <2>1 DEF Surjection
  <2> QED
    BY <2>2, <2>3 DEF Bijection
<1>2. ExistsBijection(S, T)
  BY <1>1 DEF ExistsBijection
<1>3. IsFiniteSet(T) /\ Cardinality(T) = Cardinality(S)
  BY <1>2, FS_Bijection
<1> DEFINE k == [p \in Units(f, S) |-> <<h[p[1]], p[2]>>]
<1>4. k \in Bijection(Units(f, S), Units(g, T))
  <2>1. \A p \in Units(f, S) : k[p] = <<h[p[1]], p[2]>>
    OBVIOUS
  <2>2. k \in [Units(f, S) -> Units(g, T)]
    BY DEF Units
  <2>3. ASSUME NEW p \in Units(f, S), NEW q \in Units(f, S), k[p] = k[q]
        PROVE  p = q
    <3>1. p[1] \in S /\ q[1] \in S /\ p = <<p[1], p[2]>> /\ q = <<q[1], q[2]>>
      BY DEF Units
    <3>2. h[p[1]] = h[q[1]] /\ p[2] = q[2]
      BY <2>1, <2>3
    <3> QED
      BY <3>1, <3>2
  <2>4. ASSUME NEW q \in Units(g, T)
        PROVE  \E p \in Units(f, S) : k[p] = q
    <3>1. q[1] \in T /\ q[2] \in Nat \ {0} /\ q[2] <= g[q[1]] /\ q = <<q[1], q[2]>>
      BY DEF Units
    <3>2. PICK x \in S : h[x] = q[1]
      BY <3>1
    <3>3. <<x, q[2]>> \in Units(f, S)
      BY <3>1, <3>2 DEF Units
    <3>4. k[<<x, q[2]>>] = q
      BY <3>1, <3>2, <3>3
    <3> QED
      BY <3>3, <3>4
  <2> HIDE DEF k
  <2>5. k \in Injection(Units(f, S), Units(g, T))
    <3>1. DOMAIN k = Units(f, S)
      BY <2>2
    <3> QED
      BY <2>2, <2>3, <3>1 DEF Injection, IsInjective
  <2>6. k \in Surjection(Units(f, S), Units(g, T))
    BY <2>2, <2>4 DEF Surjection
  <2> QED
    BY <2>5, <2>6 DEF Bijection
<1>5. ExistsBijection(Units(f, S), Units(g, T))
  BY <1>4 DEF ExistsBijection
<1>6. IsFiniteSet(Units(f, S))
  BY UnitsFinite
<1>7. Cardinality(Units(g, T)) = Cardinality(Units(f, S))
  BY <1>5, <1>6, FS_Bijection
<1>8. \A y \in T : g[y] \in Nat
  OBVIOUS
<1> QED
  BY <1>3, <1>7, <1>8, SumUnits

\* If a times each u is at most b times its d, so are the sums.
LEMMA SumScaled ==
    ASSUME NEW a \in Nat, NEW b \in Nat, NEW u, NEW d, NEW S, IsFiniteSet(S),
           \A x \in S : u[x] \in Nat /\ d[x] \in Nat /\ a * u[x] <= b * d[x]
    PROVE  a * Sum(u, S) <= b * Sum(d, S)
<1> DEFINE W == {s \in SUBSET S : ~(a * Sum(u, s) <= b * Sum(d, s))}
<1> SUFFICES ASSUME W # {} PROVE FALSE
  OBVIOUS
<1>1. PICK s \in W : \A r \in W : r \subseteq s => r = s
  <2>1. W \in SUBSET SUBSET S
    OBVIOUS
  <2> HIDE DEF W
  <2> QED
    BY <2>1, LeastSubset
<1>2. s # {}
  <2>1. Sum(u, {}) = 0 /\ Sum(d, {}) = 0
    BY SumEmpty
  <2>2. a * Sum(u, {}) <= b * Sum(d, {})
    BY <2>1, SMT
  <2>3. ~(a * Sum(u, s) <= b * Sum(d, s))
    BY <1>1
  <2> QED
    BY <2>2, <2>3, Zenon
<1>3. PICK x \in s : TRUE
  BY <1>2
<1>4. IsFiniteSet(s) /\ IsFiniteSet(s \ {x})
  BY FS_Subset, FS_RemoveElement
<1>5. s \ {x} \in SUBSET S /\ s \ {x} \notin W
  BY <1>1, <1>3
<1>6. a * Sum(u, s \ {x}) <= b * Sum(d, s \ {x})
  BY <1>5
<1>7. Sum(u, s \ {x}) \in Nat /\ Sum(d, s \ {x}) \in Nat
  BY <1>4, SumNat
<1>8. /\ Sum(u, s) = u[x] + Sum(u, s \ {x})
      /\ Sum(d, s) = d[x] + Sum(d, s \ {x})
  BY <1>4, SumRemove
<1>9. ASSUME NEW v \in Nat, NEW V \in Nat, NEW e \in Nat, NEW E \in Nat,
             a * v <= b * e, a * V <= b * E
      PROVE  a * (v + V) <= b * (e + E)
  <2>1. a * (v + V) = a * v + a * V /\ b * (e + E) = b * e + b * E
    OBVIOUS
  <2> QED
    BY <1>9, <2>1
<1>10. a * u[x] <= b * d[x] /\ u[x] \in Nat /\ d[x] \in Nat
  OBVIOUS
<1> QED
  BY <1>1, <1>6, <1>7, <1>8, <1>9, <1>10

-------------------------------------------------------------------------------
(***************************************************************************)
(* Smallest and largest numbers, and the response time iteration.          *)
(***************************************************************************)
\* A set of natural numbers has a least one.
LEMMA LeastNat ==
    ASSUME NEW S \in SUBSET Nat, S # {}
    PROVE  \E m \in S : \A y \in S : m <= y
<1>1. PICK m \in S : \A y \in S : ~(<<y, m>> \in OpToRel(<, Nat))
  BY NatLessThanWellFounded, WFMin
<1>2. OpToRel(<, Nat) = {ss \in Nat \X Nat : ss[1] < ss[2]}
  BY DEF OpToRel
<1>3. \A y \in S : ~(y < m)
  BY <1>1, <1>2
<1> QED
  BY <1>3

\* The Min of a set of natural numbers is its least one.
LEMMA MinNat ==
    ASSUME NEW S \in SUBSET Nat, S # {}
    PROVE  Min(S) \in S /\ \A y \in S : Min(S) <= y
<1>1. PICK m \in S : \A y \in S : m <= y
  BY LeastNat
<1> QED
  BY <1>1 DEF Min

\* The Max of a bounded set of natural numbers is its largest one.
LEMMA MaxNat ==
    ASSUME NEW S \in SUBSET Nat, S # {}, NEW n \in Nat, \A y \in S : y <= n
    PROVE  Max(S) \in S /\ \A y \in S : y <= Max(S)
<1> DEFINE U == {m \in Nat : \A y \in S : y <= m}
<1>1. PICK m \in U : \A y \in U : m <= y
  <2>1. U \in SUBSET Nat /\ n \in U
    OBVIOUS
  <2> HIDE DEF U
  <2> QED
    BY <2>1, LeastNat
<1>2. m \in S
  <2> SUFFICES ASSUME m \notin S PROVE FALSE
    OBVIOUS
  <2>1. \A y \in S : y < m
    BY <1>1
  <2>2. m - 1 \in U
    <3>1. PICK y \in S : TRUE
      OBVIOUS
    <3>2. m \in Nat /\ y \in Nat /\ y < m
      BY <1>1, <2>1, <3>1
    <3> QED
      BY <2>1, <3>2
  <2> QED
    BY <1>1, <2>2
<1>3. \A y \in S : m >= y
  BY <1>1
<1>4. Max(S) \in S /\ \A y \in S : Max(S) >= y
  BY <1>2, <1>3 DEF Max
<1> QED
  BY <1>4

\* The iteration of a monotone step ends within T exactly if some p up to T
\* covers its own step.
LEMMA ResponseLimit ==
    ASSUME NEW T \in Nat, NEW f \in [0 .. T -> Nat],
           \A p, r \in 0 .. T : p <= r => f[p] <= f[r]
    PROVE  Response(f, T) <= T <=> \E p \in 0 .. T : f[p] <= p
<1> DEFINE body(g) == [r \in 0 .. T |-> IF f[r] = r THEN r
                                        ELSE IF f[r] > T THEN T + 1 ELSE g[f[r]]]
           up(r) == {p \in 0 .. T : r <= p /\ f[p] <= p}
           down(r) == {p \in 0 .. T : p <= r /\ p <= f[p]}
           w == [r \in 0 .. T |-> IF f[r] >= r
                                  THEN IF up(r) = {} THEN T + 1 ELSE Min(up(r))
                                  ELSE Max(down(r))]
           it == CHOOSE g : g = body(g)
<1>1. w = body(w)
  <2>1. ASSUME NEW r \in 0 .. T PROVE w[r] = body(w)[r]
    <3>1. CASE f[r] = r
      <4>1. r \in up(r) /\ \A p \in up(r) : r <= p
        BY <3>1
      <4>2. Min(up(r)) = r
        <5>1. up(r) \in SUBSET Nat /\ up(r) # {}
          BY <4>1
        <5> HIDE DEF up
        <5>2. Min(up(r)) \in up(r) /\ Min(up(r)) <= r
          BY <5>1, <4>1, MinNat
        <5>3. r <= Min(up(r)) /\ Min(up(r)) \in Nat
          BY <4>1, <5>1, <5>2
        <5> QED
          BY <5>2, <5>3
      <4>3. w[r] = Min(up(r))
        BY <3>1, <4>1
      <4> QED
        BY <3>1, <4>2, <4>3
    <3>2. CASE f[r] > r /\ f[r] > T
      <4>1. up(r) = {}
        BY <3>2
      <4> QED
        BY <3>2, <4>1
    <3>3. CASE f[r] > r /\ f[r] <= T
      <4>1. f[r] \in 0 .. T /\ f[f[r]] >= f[r]
        BY <3>3
      <4>2. up(r) = up(f[r])
        <5>1. \A p \in up(r) : p \in up(f[r])
          BY <4>1
        <5>2. \A p \in up(f[r]) : p \in up(r)
          BY <3>3, <4>1
        <5> QED
          BY <5>1, <5>2
      <4>3. body(w)[r] = w[f[r]]
        BY <3>3
      <4> HIDE DEF up
      <4>4. w[r] = w[f[r]]
        BY <3>3, <4>1, <4>2
      <4> QED
        BY <4>3, <4>4
    <3>4. CASE f[r] < r
      <4>1. f[r] \in 0 .. T /\ f[f[r]] <= f[r]
        BY <3>4
      <4>2. \A p \in down(r) : p <= f[r]
        OBVIOUS
      <4>3. CASE f[f[r]] = f[r]
        <5>1. f[r] \in down(r)
          BY <3>4, <4>1, <4>3
        <5>2. Max(down(r)) = f[r]
          <6>1. down(r) \in SUBSET Nat /\ down(r) # {} /\ \A p \in down(r) : p <= T
            BY <5>1
          <6> HIDE DEF down
          <6>2. Max(down(r)) \in down(r) /\ f[r] <= Max(down(r))
            BY <6>1, <5>1, MaxNat
          <6>3. Max(down(r)) <= f[r] /\ Max(down(r)) \in Nat
            BY <6>1, <6>2, <4>2
          <6> QED
            BY <6>2, <6>3, <4>1
        <5>3. f[r] \in up(f[r]) /\ \A p \in up(f[r]) : f[r] <= p
          BY <4>1, <4>3
        <5>4. Min(up(f[r])) = f[r]
          <6>1. up(f[r]) \in SUBSET Nat /\ up(f[r]) # {}
            BY <5>3
          <6> HIDE DEF up
          <6>2. Min(up(f[r])) \in up(f[r]) /\ Min(up(f[r])) <= f[r]
            BY <6>1, <5>3, MinNat
          <6>3. f[r] <= Min(up(f[r])) /\ Min(up(f[r])) \in Nat
            BY <6>1, <6>2, <5>3
          <6> QED
            BY <6>2, <6>3, <4>1
        <5>5. w[r] = Max(down(r)) /\ w[f[r]] = Min(up(f[r]))
          BY <3>4, <4>1, <4>3, <5>3
        <5>6. body(w)[r] = w[f[r]]
          BY <3>4, <4>1
        <5> QED
          BY <5>2, <5>4, <5>5, <5>6
      <4>4. CASE f[f[r]] < f[r]
        <5>1. down(r) = down(f[r])
          <6>1. \A p \in down(r) : p \in down(f[r])
            BY <4>2
          <6>2. \A p \in down(f[r]) : p \in down(r)
            BY <3>4, <4>1
          <6> QED
            BY <6>1, <6>2
        <5>2. body(w)[r] = w[f[r]]
          BY <3>4, <4>1
        <5> HIDE DEF down
        <5>3. w[r] = w[f[r]]
          BY <3>4, <4>1, <4>4, <5>1
        <5> QED
          BY <5>2, <5>3
      <4> QED
        BY <4>1, <4>3, <4>4
    <3>5. f[r] \in Nat /\ r \in Nat
      OBVIOUS
    <3>6. f[r] = r \/ (f[r] > r /\ f[r] > T) \/ (f[r] > r /\ f[r] <= T) \/ f[r] < r
      BY <3>5
    <3> QED
      BY <3>1, <3>2, <3>3, <3>4, <3>6, Zenon
  <2> QED
    BY <2>1
<1>2. it = body(it)
  <2> HIDE DEF w
  <2> QED
    BY <1>1
<1>3. Response(f, T) = it[0]
  BY DEF Response
<1> HIDE DEF it, w
<1>4. ASSUME NEW p \in 0 .. T, f[p] <= p
      PROVE  it[0] <= T
  <2> DEFINE W == {r \in 0 .. p : r <= f[r] /\ ~(it[r] <= T)}
  <2> SUFFICES ASSUME W # {} PROVE FALSE
    OBVIOUS
  <2>1. Max(W) \in W /\ \A y \in W : y <= Max(W)
    <3>1. W \in SUBSET Nat /\ (\A y \in W : y <= p) /\ p \in Nat
      OBVIOUS
    <3> HIDE DEF W
    <3> QED
      BY <3>1, MaxNat
  <2> DEFINE r == Max(W)
  <2>2. r \in 0 .. p /\ r <= f[r] /\ ~(it[r] <= T) /\ f[r] <= f[p]
    BY <2>1
  <2>3. f[r] # r
    BY <1>2, <2>2
  <2>4. f[r] \in 0 .. p /\ f[r] > r
    BY <2>2, <2>3, <1>4
  <2>5. it[r] = it[f[r]]
    <3>1. r \in 0 .. T /\ ~(f[r] > T)
      BY <2>2, <2>4
    <3> HIDE DEF W, r
    <3>2. body(it)[r] = it[f[r]]
      BY <2>3, <3>1
    <3> QED
      BY <1>2, <3>2
  <2>6. f[r] <= f[f[r]]
    BY <2>2, <2>4
  <2>7. f[r] \in W
    BY <2>2, <2>4, <2>5, <2>6
  <2> QED
    BY <2>1, <2>4, <2>7
<1>5. ASSUME \A p \in 0 .. T : ~(f[p] <= p)
      PROVE  ~(it[0] <= T)
  <2> DEFINE W == {r \in 0 .. T : it[r] # T + 1}
  <2> SUFFICES ASSUME W # {} PROVE FALSE
    OBVIOUS
  <2>1. Max(W) \in W /\ \A y \in W : y <= Max(W)
    <3>1. W \in SUBSET Nat /\ \A y \in W : y <= T
      OBVIOUS
    <3> HIDE DEF W
    <3> QED
      BY <3>1, MaxNat
  <2> DEFINE r == Max(W)
  <2>2. r \in 0 .. T /\ it[r] # T + 1 /\ f[r] > r
    BY <2>1, <1>5
  <2>3. f[r] \in 0 .. T /\ it[r] = it[f[r]]
    <3> HIDE DEF W, r
    <3>1. body(it)[r] = IF f[r] > T THEN T + 1 ELSE it[f[r]]
      BY <2>2
    <3>2. it[r] = IF f[r] > T THEN T + 1 ELSE it[f[r]]
      BY <1>2, <3>1
    <3>3. f[r] \in Nat /\ ~(f[r] > T)
      BY <2>2, <3>2
    <3> QED
      BY <3>2, <3>3
  <2>4. f[r] \in W
    BY <2>2, <2>3
  <2> QED
    BY <2>1, <2>2, <2>4
<1> QED
  BY <1>3, <1>4, <1>5

-------------------------------------------------------------------------------
(***************************************************************************)
(* Quotients: the jobs and the demand of a task up to an instant, its      *)
(* utilization, and the table of the utilization bounds.                   *)
(***************************************************************************)
\* What a quotient of natural numbers is.
LEMMA DivFacts ==
    ASSUME NEW a \in Nat, NEW T \in Nat \ {0}
    PROVE  /\ a \div T \in Nat
           /\ T * (a \div T) <= a
           /\ a < T * (a \div T) + T
  OBVIOUS

\* A bound for a quotient.
LEMMA QuotientBelow ==
    ASSUME NEW a \in Nat, NEW T \in Nat \ {0}, NEW q \in Nat, NEW r \in Nat,
           T * q <= a, a < T * r + T
    PROVE  q <= r
<1>1. SUFFICES ASSUME q >= r + 1 PROVE FALSE
  OBVIOUS
<1>2. T * q >= T * (r + 1)
  BY <1>1
<1>3. T * (r + 1) = T * r + T
  OBVIOUS
<1> QED
  BY <1>2, <1>3

\* The jobs released before p.
Jobs(T, p) == (p + T - 1) \div T

\* There is one job up to the first period, and never fewer later.
LEMMA JobsFacts ==
    ASSUME NEW T \in Nat \ {0}, NEW p \in Nat
    PROVE  /\ Jobs(T, p) \in Nat
           /\ p <= T * Jobs(T, p)
           /\ p \in 1 .. T => Jobs(T, p) = 1
           /\ \A r \in Nat : r <= p => Jobs(T, r) <= Jobs(T, p)
<1>1. \A r \in Nat : r + T - 1 \in Nat
  OBVIOUS
<1>2. \A r \in Nat : /\ Jobs(T, r) \in Nat
                     /\ T * Jobs(T, r) <= r + T - 1
                     /\ r + T - 1 < T * Jobs(T, r) + T
  BY <1>1, DivFacts DEF Jobs
<1> HIDE DEF Jobs
<1>3. Jobs(T, p) \in Nat /\ p <= T * Jobs(T, p)
  BY <1>2
<1>4. ASSUME p \in 1 .. T PROVE Jobs(T, p) = 1
  <2>1. T * 1 <= p + T - 1 /\ p + T - 1 < T * 1 + T
    BY <1>4
  <2>2. 1 <= Jobs(T, p)
    BY <2>1, <1>1, <1>2, QuotientBelow
  <2>3. Jobs(T, p) <= 1
    BY <2>1, <1>1, <1>2, QuotientBelow
  <2> QED
    BY <1>3, <2>2, <2>3
<1>5. ASSUME NEW r \in Nat, r <= p PROVE Jobs(T, r) <= Jobs(T, p)
  <2>1. T * Jobs(T, r) <= p + T - 1
    BY <1>2, <1>5
  <2> QED
    BY <2>1, <1>1, <1>2, QuotientBelow
<1> QED
  BY <1>3, <1>4, <1>5

\* The same for the demand.
LEMMA DemandFacts ==
    ASSUME NEW C \in Nat, NEW T \in Nat \ {0}, NEW p \in Nat
    PROVE  /\ Demand(C, T, p) \in Nat
           /\ p \in 1 .. T => Demand(C, T, p) = C
           /\ \A r \in Nat : r <= p => Demand(C, T, r) <= Demand(C, T, p)
<1>1. \A r \in Nat : Demand(C, T, r) = Jobs(T, r) * C
  BY DEF Demand, Jobs
<1>2. \A r \in Nat : Jobs(T, r) \in Nat
  BY JobsFacts
<1>3. ASSUME NEW a \in Nat, NEW b \in Nat, a <= b PROVE a * C <= b * C
  BY <1>3
<1>4. ASSUME NEW r \in Nat, r <= p PROVE Demand(C, T, r) <= Demand(C, T, p)
  <2>1. Jobs(T, r) <= Jobs(T, p)
    BY <1>4, JobsFacts
  <2> QED
    BY <2>1, <1>1, <1>2, <1>3
<1>5. p \in 1 .. T => Jobs(T, p) = 1
  BY JobsFacts
<1>6. p \in 1 .. T => Demand(C, T, p) = C
  BY <1>1, <1>5
<1>7. Demand(C, T, p) \in Nat
  BY <1>1, <1>2
<1> QED
  BY <1>4, <1>6, <1>7

\* The utilization of a task, of which the demand up to p is at least p times.
LEMMA DemandUtil ==
    ASSUME NEW C \in Nat, NEW T \in Nat \ {0}, NEW p \in Nat
    PROVE  /\ (C * UTIL_MULTIPLE) \div T \in Nat
           /\ p * ((C * UTIL_MULTIPLE) \div T) <= UTIL_MULTIPLE * Demand(C, T, p)
<1> DEFINE u == (C * UTIL_MULTIPLE) \div T
           n == Jobs(T, p)
<1>1. u \in Nat /\ T * u <= C * 10000
  BY DivFacts DEF UTIL_MULTIPLE
<1>2. n \in Nat /\ p <= T * n
  BY JobsFacts
<1>3. Demand(C, T, p) = n * C
  BY DEF Demand, Jobs
<1> HIDE DEF u, n
<1>4. p * u <= (T * n) * u
  BY <1>1, <1>2
<1>5. (T * n) * u = n * (T * u)
  BY <1>1, <1>2
<1>6. n * (T * u) <= n * (C * 10000)
  BY <1>1, <1>2
<1>7. n * (C * 10000) = 10000 * (n * C)
  BY <1>2
<1>8. p * u <= 10000 * (n * C)
  <2>1. p * u \in Int /\ (T * n) * u \in Int /\ n * (T * u) \in Int /\ n * (C * 10000) \in Int
    BY <1>1, <1>2
  <2> HIDE DEF u, n
  <2> QED
    BY <1>4, <1>5, <1>6, <1>7, <2>1
<1> QED
  BY <1>1, <1>3, <1>8 DEF u, UTIL_MULTIPLE

\* The table util_bound.
LEMMA BoundValues ==
    /\ UtilBound(0) = 0 /\ UtilBound(1) = 10000 /\ UtilBound(2) = 8285
    /\ UtilBound(3) = 7798 /\ UtilBound(4) = 7569 /\ UtilBound(5) = 7435
    /\ UtilBound(6) = 7348 /\ UtilBound(7) = 7287 /\ UtilBound(8) = 7241
    /\ UtilBound(9) = 7206 /\ UtilBound(10) = 7178 /\ UtilBound(11) = 7155
    /\ UtilBound(12) = 7136 /\ UtilBound(13) = 7120 /\ UtilBound(14) = 7106
    /\ UtilBound(15) = 7095 /\ UtilBound(16) = 7084 /\ UtilBound(17) = 7075
    /\ UtilBound(18) = 7067 /\ UtilBound(19) = 7060 /\ UtilBound(20) = 7053
    /\ \A n \in Nat : n > 20 => UtilBound(n) = 6932
  BY DEF UtilBound

\* The bound of more tasks is no larger, save for the one of no task.
LEMMA BoundFalls ==
    ASSUME NEW n \in Nat, NEW m \in Nat, 1 <= n, n <= m
    PROVE  UtilBound(n) \in Nat /\ UtilBound(m) \in Nat /\ UtilBound(m) <= UtilBound(n)
  BY BoundValues

-------------------------------------------------------------------------------
(***************************************************************************)
(* A row of cpu_tasks and the two tests of try_bind.                       *)
(***************************************************************************)
\* The reserve structures.
Recs == [flag : BOOLEAN, cpu : CPUs, budget : Nat, period : Nat, util : Nat]

\* The first n slots of a row hold the tasks of S, each once, by period.
RowOk(row, n, res, S) ==
    /\ row \in [Slots -> Tasks \cup {NoTask}]
    /\ n \in 0 .. TASK_SCHEDULING_LENGTH
    /\ S \subseteq Tasks
    /\ \A i \in 0 .. n - 1 : row[i] \in S
    /\ \A t \in S : \E i \in 0 .. n - 1 : row[i] = t
    /\ \A i, j \in 0 .. n - 1 : i < j => row[i] # row[j] /\ res[row[i]].period <= res[row[j]].period

\* The parameters of a task that has been placed.
Params(res, S) ==
    \A t \in S : /\ res[t].budget \in Nat \ {0}
                 /\ res[t].period \in Nat \ {0}
                 /\ res[t].util = (res[t].budget * UTIL_MULTIPLE) \div res[t].period

Utils(res) == [t \in Tasks |-> res[t].util]

Demands(res, p) == [t \in Tasks |-> Demand(res[t].budget, res[t].period, p)]

\* The tasks of S that j may have to wait for, and j.
UpTo(res, S, j) == {k \in S : res[k].period <= res[j].period}

\* j has an instant by which its work and the more urgent work is done.
Covered(res, S, j) ==
    \E p \in 1 .. res[j].period : Sum(Demands(res, p), UpTo(res, S, j)) <= p

Shorter(res, S, q) == {k \in S : res[k].period < q}

\* What the two tests of try_bind establish, whatever the order of tasks
\* with the same period: the tasks with a period below q are within the
\* utilization bound, each of the others passes the response time test.
Tested(res, S) ==
    \E q \in Nat :
        /\ Sum(Utils(res), Shorter(res, S, q)) <= UtilBound(Cardinality(Shorter(res, S, q)))
        /\ \A j \in S \ Shorter(res, S, q) : Covered(res, S, j)

Part(row, lo, hi) == {row[k] : k \in lo .. hi}

Pre(row, i) == Part(row, 0, i - 1)

\* The rows have slots.
LEMMA LengthNat == TASK_SCHEDULING_LENGTH \in Nat \ {0}
  BY AdmissionAssumption

\* The live slots of a row are slots, and hold different tasks.
LEMMA RowSlots ==
    ASSUME NEW row, NEW n, NEW res, NEW S, RowOk(row, n, res, S)
    PROVE  /\ n \in Nat
           /\ \A i \in 0 .. n - 1 : i \in Slots
           /\ \A i, j \in 0 .. n - 1 : row[i] = row[j] => i = j
<1>1. n \in Nat /\ n <= TASK_SCHEDULING_LENGTH
  BY LengthNat DEF RowOk
<1>2. \A i \in 0 .. n - 1 : i \in Slots
  BY <1>1, LengthNat DEF Slots
<1>3. ASSUME NEW i \in 0 .. n - 1, NEW j \in 0 .. n - 1, row[i] = row[j], i # j
      PROVE  FALSE
  <2>1. CASE i < j
    BY <1>3, <2>1 DEF RowOk
  <2>2. CASE j < i
    BY <1>3, <2>2 DEF RowOk
  <2> QED
    BY <1>1, <1>3, <2>1, <2>2
<1> QED
  BY <1>1, <1>2, <1>3

Reads(f, g, row, lo, hi) == \A k \in lo .. hi : f[k] = g[row[k]]

\* A sum over consecutive slots is the sum over the tasks in them.
LEMMA RowSum ==
    ASSUME NEW row, NEW n, NEW res, NEW S, RowOk(row, n, res, S),
           NEW lo \in Nat, NEW hi \in Int, hi <= n - 1,
           NEW g, \A t \in S : g[t] \in Nat,
           NEW f, Reads(f, g, row, lo, hi)
    PROVE  /\ Sum(f, lo .. hi) = Sum(g, Part(row, lo, hi))
           /\ IsFiniteSet(Part(row, lo, hi))
           /\ Cardinality(Part(row, lo, hi)) = Cardinality(lo .. hi)
           /\ \A k \in lo .. hi : f[k] \in Nat
<1> DEFINE T == Part(row, lo, hi)
<1>1. IsFiniteSet(lo .. hi)
  BY FS_Interval
<1>2. n \in Nat /\ \A k \in lo .. hi : k \in 0 .. n - 1
  BY RowSlots
<1>3. \A k \in lo .. hi : row[k] \in T /\ f[k] \in Nat /\ f[k] = g[row[k]]
  BY <1>2 DEF RowOk, Reads, Part
<1>4. \A x, y \in lo .. hi : row[x] = row[y] => x = y
  BY <1>2, RowSlots
<1>5. \A y \in T : \E x \in lo .. hi : row[x] = y
  BY DEF Part
<1>6. Sum(f, lo .. hi) = Sum(g, T) /\ IsFiniteSet(T) /\ Cardinality(T) = Cardinality(lo .. hi)
  <2> DEFINE I == lo .. hi
  <2>1. IsFiniteSet(I) /\ Renames(row, f, I, g, T)
    BY <1>1, <1>3, <1>4, <1>5 DEF Renames
  <2> HIDE DEF T, I
  <2>2. Sum(f, I) = Sum(g, T) /\ IsFiniteSet(T) /\ Cardinality(T) = Cardinality(I)
    BY <2>1, SumImage
  <2> QED
    BY <2>2 DEF I
<1> HIDE DEF T
<1> QED
  BY <1>3, <1>6 DEF T

\* A row with n live slots holds n tasks.
LEMMA RowFinite ==
    ASSUME NEW row, NEW n, NEW res, NEW S, RowOk(row, n, res, S)
    PROVE  /\ IsFiniteSet(S) /\ Cardinality(S) = n
           /\ S = Pre(row, n)
           /\ \A i \in 0 .. n : /\ Pre(row, i) \subseteq S
                                /\ IsFiniteSet(Pre(row, i))
                                /\ Cardinality(Pre(row, i)) = i
<1>1. n \in Nat
  BY RowSlots
<1>2. S = Pre(row, n)
  BY DEF RowOk, Pre, Part
<1>3. ASSUME NEW i \in 0 .. n
      PROVE  Pre(row, i) \subseteq S /\ IsFiniteSet(Pre(row, i)) /\ Cardinality(Pre(row, i)) = i
  <2> DEFINE g == [t \in S |-> 0]
             f == [k \in 0 .. i - 1 |-> 0]
  <2>1. \A t \in S : g[t] \in Nat
    OBVIOUS
  <2>2. \A k \in 0 .. i - 1 : row[k] \in S
    BY <1>1 DEF RowOk
  <2>3. \A k \in 0 .. i - 1 : f[k] = g[row[k]]
    BY <2>2
  <2>4. i - 1 \in Int /\ i - 1 <= n - 1 /\ i \in Nat
    BY <1>1
  <2> HIDE DEF f, g
  <2>5. IsFiniteSet(Pre(row, i)) /\ Cardinality(Pre(row, i)) = Cardinality(0 .. i - 1)
    <3> DEFINE j == i - 1
    <3>1. 0 \in Nat /\ j \in Int /\ j <= n - 1 /\ n - 1 \in Int /\ Reads(f, g, row, 0, j)
      BY <1>1, <2>3, <2>4 DEF Reads
    <3> HIDE DEF j
    <3>2. /\ IsFiniteSet(Part(row, 0, j))
          /\ Cardinality(Part(row, 0, j)) = Cardinality(0 .. j)
      BY <2>1, <3>1, RowSum
    <3> QED
      BY <3>2 DEF Pre, j
  <2>6. Cardinality(0 .. i - 1) = i
    BY <2>4, FS_Interval
  <2>7. Pre(row, i) \subseteq S
    BY <2>2 DEF Pre, Part
  <2> QED
    BY <2>5, <2>6, <2>7
<1>4. n \in 0 .. n
  BY <1>1
<1> QED
  BY <1>2, <1>3, <1>4

\* Demands are natural numbers.
LEMMA DemandsNat ==
    ASSUME NEW res, NEW S \in SUBSET Tasks, Params(res, S), NEW p \in Nat
    PROVE  \A t \in S : Demands(res, p)[t] \in Nat
<1>1. ASSUME NEW t \in S PROVE Demands(res, p)[t] \in Nat
  <2>1. Demands(res, p)[t] = Demand(res[t].budget, res[t].period, p)
    BY DEF Demands
  <2>2. res[t].budget \in Nat /\ res[t].period \in Nat \ {0}
    BY DEF Params
  <2> QED
    BY <2>1, <2>2, DemandFacts
<1> QED
  BY <1>1

\* Utilizations are natural numbers.
LEMMA UtilsNat ==
    ASSUME NEW res, NEW S \in SUBSET Tasks, Params(res, S)
    PROVE  \A t \in S : Utils(res)[t] \in Nat /\ Utils(res)[t] = res[t].util
<1>1. ASSUME NEW t \in S PROVE Utils(res)[t] \in Nat /\ Utils(res)[t] = res[t].util
  <2>1. Utils(res)[t] = res[t].util
    BY DEF Utils
  <2>2. res[t].budget \in Nat /\ res[t].period \in Nat \ {0}
        /\ res[t].util = (res[t].budget * UTIL_MULTIPLE) \div res[t].period
    BY DEF Params
  <2> QED
    BY <2>1, <2>2, DemandUtil
<1> QED
  BY <1>1

\* Demands do not fall with time.
LEMMA DemandsGrow ==
    ASSUME NEW res, NEW S \in SUBSET Tasks, Params(res, S), IsFiniteSet(S),
           NEW p \in Nat, NEW r \in Nat, p <= r
    PROVE  /\ Sum(Demands(res, p), S) \in Nat
           /\ Sum(Demands(res, p), S) <= Sum(Demands(res, r), S)
<1>1. ASSUME NEW t \in S PROVE Demands(res, p)[t] <= Demands(res, r)[t]
  <2>1. /\ Demands(res, p)[t] = Demand(res[t].budget, res[t].period, p)
        /\ Demands(res, r)[t] = Demand(res[t].budget, res[t].period, r)
    BY DEF Demands
  <2>2. res[t].budget \in Nat /\ res[t].period \in Nat \ {0}
    BY DEF Params
  <2>3. \A q \in Nat : q <= r => Demand(res[t].budget, res[t].period, q) <= Demand(res[t].budget, res[t].period, r)
    BY <2>2, DemandFacts
  <2> QED
    BY <2>1, <2>3
<1>2. \A t \in S : Demands(res, p)[t] \in Nat /\ Demands(res, r)[t] \in Nat
  BY DemandsNat
<1> QED
  BY <1>1, <1>2, SumNat, SumMono

\* The response time test of slot j.
LEMMA PassesIff ==
    ASSUME NEW b, NEW c, NEW S, RowOk(b.tasks[c], b.length[c], b.reserve, S),
           Params(b.reserve, S), NEW j \in 0 .. b.length[c] - 1
    PROVE  PassesRT(b, c, j) <=>
             \E p \in 1 .. b.reserve[b.tasks[c][j]].period :
                Sum(Demands(b.reserve, p), Pre(b.tasks[c], j + 1)) <= p
<1> DEFINE row == b.tasks[c]
           n == b.length[c]
           res == b.reserve
           T == res[row[j]].period
           C == res[row[j]].budget
           urgent(r) == SumFunction([k \in 0 .. j - 1 |->
                            Demand(At(b, c, k).budget, At(b, c, k).period, r)])
           step == [r \in 0 .. T |-> At(b, c, j).budget + urgent(r)]
<1>1. RowOk(row, n, res, S) /\ Params(res, S) /\ j \in 0 .. n - 1
  OBVIOUS
<1>2. PassesRT(b, c, j) <=> Response(step, T) <= T
  BY DEF PassesRT, At
<1>3. \A k \in 0 .. n - 1 : At(b, c, k) = res[row[k]]
  BY DEF At
<1>4. \A r \in 0 .. T : step[r] = C + urgent(r)
  BY <1>1, <1>3
<1>5. DOMAIN step = 0 .. T
  OBVIOUS
<1> SUFFICES Response(step, T) <= T <=>
                \E p \in 1 .. T : Sum(Demands(res, p), Pre(row, j + 1)) <= p
  BY <1>2
<1>6. \A r : /\ DOMAIN [k \in 0 .. j - 1 |-> Demand(At(b, c, k).budget, At(b, c, k).period, r)] = 0 .. j - 1
             /\ \A k \in 0 .. j - 1 :
                  [kk \in 0 .. j - 1 |-> Demand(At(b, c, kk).budget, At(b, c, kk).period, r)][k]
                     = Demand(At(b, c, k).budget, At(b, c, k).period, r)
  OBVIOUS
<1>7. /\ n \in Nat /\ row[j] \in S /\ S \subseteq Tasks
      /\ \A k \in 0 .. n - 1 : row[k] \in S
      /\ \A k, l \in 0 .. n - 1 : row[k] = row[l] => k = l
  BY <1>1, RowSlots DEF RowOk
<1>8. T \in Nat \ {0} /\ C \in Nat \ {0}
  BY <1>1, <1>7 DEF Params
<1>9. /\ IsFiniteSet(Pre(row, j)) /\ Pre(row, j) \subseteq S
      /\ IsFiniteSet(Pre(row, j + 1)) /\ Pre(row, j + 1) \subseteq S
  <2>1. j \in 0 .. n /\ j + 1 \in 0 .. n
    BY <1>7
  <2> HIDE DEF row, n, res
  <2> QED
    BY <1>1, <2>1, RowFinite
<1>10. ASSUME NEW r \in Nat PROVE urgent(r) = Sum(Demands(res, r), Pre(row, j))
  <2> DEFINE F == [k \in 0 .. j - 1 |-> Demand(At(b, c, k).budget, At(b, c, k).period, r)]
             hi == j - 1
  <2>1. urgent(r) = Sum(F, 0 .. hi)
    <3>1. DOMAIN F = 0 .. hi
      OBVIOUS
    <3>2. SumFunction(F) = Sum(F, DOMAIN F)
      <4> HIDE DEF F
      <4> QED
        BY SumFun
    <3> QED
      BY <3>1, <3>2, Zenon
  <2>2. ASSUME NEW k \in 0 .. hi PROVE F[k] = Demands(res, r)[row[k]]
    <3>1. k \in 0 .. n - 1 /\ row[k] \in Tasks
      BY <1>7
    <3>2. F[k] = Demand(At(b, c, k).budget, At(b, c, k).period, r)
      OBVIOUS
    <3>3. At(b, c, k) = res[row[k]]
      BY <1>3, <3>1
    <3> HIDE DEF F, row, res
    <3>4. Demands(res, r)[row[k]] = Demand(res[row[k]].budget, res[row[k]].period, r)
      BY <3>1 DEF Demands
    <3> QED
      BY <3>2, <3>3, <3>4
  <2>3. Reads(F, Demands(res, r), row, 0, hi)
    <3> HIDE DEF F, row, res, hi
    <3> QED
      BY <2>2 DEF Reads
  <2>4. 0 \in Nat /\ hi \in Int /\ hi <= n - 1
    BY <1>7
  <2>5. Pre(row, j) = Part(row, 0, hi)
    BY DEF Pre
  <2> HIDE DEF F, hi, row, n, res
  <2>6. \A t \in S : Demands(res, r)[t] \in Nat
    BY <1>1, <1>7, DemandsNat
  <2>7. Sum(F, 0 .. hi) = Sum(Demands(res, r), Part(row, 0, hi))
    BY <1>1, <2>3, <2>4, <2>6, RowSum
  <2> QED
    BY <2>1, <2>5, <2>7
<1> HIDE DEF urgent
<1>11. /\ row[j] \notin Pre(row, j)
       /\ Pre(row, j + 1) = Pre(row, j) \cup {row[j]}
  <2>1. Pre(row, j + 1) = {row[k] : k \in 0 .. j}
    BY <1>7 DEF Pre, Part
  <2>2. Pre(row, j) = {row[k] : k \in 0 .. j - 1}
    BY DEF Pre, Part
  <2>3. \A k \in 0 .. j : k = j \/ k \in 0 .. j - 1
    BY <1>7
  <2>4. \A k \in 0 .. j - 1 : row[k] # row[j]
    BY <1>7
  <2> QED
    BY <2>1, <2>2, <2>3, <2>4, <1>7
<1>12. ASSUME NEW p \in 1 .. T
       PROVE  C + urgent(p) = Sum(Demands(res, p), Pre(row, j + 1))
  <2>1. p \in Nat
    OBVIOUS
  <2> HIDE DEF row, n
  <2>2. Demands(res, p)[row[j]] = C
    <3>1. Demands(res, p)[row[j]] = Demand(C, T, p)
      BY <1>7 DEF Demands
    <3> HIDE DEF C, T
    <3> QED
      BY <3>1, <2>1, <1>8, DemandFacts
  <2> HIDE DEF res, C, T
  <2>3. \A t \in S : Demands(res, p)[t] \in Nat
    BY <1>1, <1>7, <2>1, DemandsNat
  <2>4. Sum(Demands(res, p), Pre(row, j) \cup {row[j]})
          = Demands(res, p)[row[j]] + Sum(Demands(res, p), Pre(row, j))
    BY <2>3, <1>7, <1>9, <1>11, SumAdd
  <2> QED
    BY <2>1, <2>2, <2>4, <1>10, <1>11
<1>13. step \in [0 .. T -> Nat] /\ \A p, r \in 0 .. T : p <= r => step[p] <= step[r]
  <2>1. ASSUME NEW p \in 0 .. T, NEW r \in 0 .. T, p <= r
        PROVE  urgent(p) \in Nat /\ urgent(p) <= urgent(r)
    <3>1. p \in Nat /\ r \in Nat
      BY <1>8
    <3>2. Params(res, Pre(row, j)) /\ Pre(row, j) \in SUBSET Tasks
      BY <1>1, <1>7, <1>9 DEF Params
    <3> HIDE DEF row, n, res, T
    <3>3. /\ Sum(Demands(res, p), Pre(row, j)) \in Nat
          /\ Sum(Demands(res, p), Pre(row, j)) <= Sum(Demands(res, r), Pre(row, j))
      BY <2>1, <3>1, <3>2, <1>9, DemandsGrow
    <3> QED
      BY <3>1, <3>3, <1>10
  <2>2. \A p \in 0 .. T : urgent(p) \in Nat
    <3>1. \A p \in 0 .. T : p <= p
      BY <1>8
    <3> QED
      BY <2>1, <3>1
  <2> HIDE DEF row, n, res, T, C
  <2>3. \A p \in 0 .. T : step[p] \in Nat
    BY <2>2, <1>4, <1>8
  <2>4. step \in [0 .. T -> Nat]
    BY <2>3
  <2>5. ASSUME NEW p \in 0 .. T, NEW r \in 0 .. T, p <= r
        PROVE  step[p] <= step[r]
    <3>1. urgent(p) \in Nat /\ urgent(r) \in Nat /\ urgent(p) <= urgent(r)
      BY <2>1, <2>2, <2>5
    <3>2. step[p] = C + urgent(p) /\ step[r] = C + urgent(r)
      BY <1>4
    <3> HIDE DEF step
    <3> QED
      BY <3>1, <3>2, <1>8
  <2> QED
    BY <2>4, <2>5
<1> HIDE DEF step, row, n, res, T, C
<1>14. Response(step, T) <= T <=> \E p \in 0 .. T : step[p] <= p
  BY <1>8, <1>13, ResponseLimit
<1>15. ASSUME NEW p \in 0 .. T, step[p] <= p PROVE p \in 1 .. T
  <2>1. step[p] = C + urgent(p) /\ step[p] \in Nat
    BY <1>4, <1>13
  <2>2. p # 0
    <3> SUFFICES ASSUME p = 0 PROVE FALSE
      OBVIOUS
    <3>1. step[p] = 0
      BY <2>1, <1>15
    <3>2. urgent(p) \in Nat
      <4>1. Params(res, Pre(row, j)) /\ Pre(row, j) \in SUBSET Tasks
        BY <1>1, <1>7, <1>9 DEF Params
      <4>2. p \in Nat /\ p <= p
        BY <1>8
      <4>3. Sum(Demands(res, p), Pre(row, j)) \in Nat
        BY <4>1, <4>2, <1>9, DemandsGrow
      <4> QED
        BY <4>2, <4>3, <1>10
    <3> QED
      BY <3>1, <3>2, <2>1, <1>8
  <2> QED
    BY <2>2, <1>8
<1>16. \A p \in 1 .. T : p \in 0 .. T /\ step[p] = Sum(Demands(res, p), Pre(row, j + 1))
  <2>1. \A p \in 1 .. T : p \in 0 .. T
    BY <1>8
  <2> QED
    BY <2>1, <1>4, <1>12
<1> QED
  BY <1>14, <1>15, <1>16

\* The utilization bound test: the longest prefix that is within its bound.
LEMMA UBFacts ==
    ASSUME NEW b, NEW c, NEW S, RowOk(b.tasks[c], b.length[c], b.reserve, S),
           Params(b.reserve, S), b.util[c] = Sum(Utils(b.reserve), S)
    PROVE  /\ UBPrefix(b, c) \in 0 .. b.length[c]
           /\ Sum(Utils(b.reserve), Pre(b.tasks[c], UBPrefix(b, c))) <= UtilBound(UBPrefix(b, c))
           /\ \A i \in 0 .. b.length[c] :
                Sum(Utils(b.reserve), Pre(b.tasks[c], i)) <= UtilBound(i) => i <= UBPrefix(b, c)
<1> DEFINE row == b.tasks[c]
           n == b.length[c]
           res == b.reserve
           rest(i) == SumFunction([k \in i .. n - 1 |-> At(b, c, k).util])
           W == {0} \cup {i \in 0 .. n : b.util[c] - rest(i) <= UtilBound(i)}
<1>1. RowOk(row, n, res, S) /\ Params(res, S) /\ b.util[c] = Sum(Utils(res), S)
  OBVIOUS
<1>2. UBPrefix(b, c) = Max(W)
  BY DEF UBPrefix
<1>3. \A k \in 0 .. n - 1 : At(b, c, k) = res[row[k]]
  BY DEF At
<1>4. /\ n \in Nat /\ S \subseteq Tasks
      /\ \A k \in 0 .. n - 1 : row[k] \in S
      /\ \A k, l \in 0 .. n - 1 : row[k] = row[l] => k = l
  BY <1>1, RowSlots DEF RowOk
<1>5. \A t \in S : Utils(res)[t] \in Nat /\ Utils(res)[t] = res[t].util
  <2> HIDE DEF res
  <2> QED
    BY <1>1, <1>4, UtilsNat
<1>6. ASSUME NEW i \in 0 .. n PROVE rest(i) = Sum(Utils(res), Part(row, i, n - 1))
  <2> DEFINE F == [k \in i .. n - 1 |-> At(b, c, k).util]
             hi == n - 1
  <2>1. rest(i) = Sum(F, i .. hi)
    <3>1. DOMAIN F = i .. hi
      OBVIOUS
    <3>2. SumFunction(F) = Sum(F, DOMAIN F)
      <4> HIDE DEF F
      <4> QED
        BY SumFun
    <3> QED
      BY <3>1, <3>2, Zenon
  <2>2. ASSUME NEW k \in i .. hi PROVE F[k] = Utils(res)[row[k]]
    <3>1. k \in 0 .. n - 1 /\ row[k] \in S
      BY <1>4
    <3>2. F[k] = At(b, c, k).util
      OBVIOUS
    <3>3. At(b, c, k) = res[row[k]]
      BY <1>3, <3>1
    <3> HIDE DEF F, row, res
    <3> QED
      BY <3>1, <3>2, <3>3, <1>5
  <2>3. Reads(F, Utils(res), row, i, hi)
    <3> HIDE DEF F, row, res, hi
    <3> QED
      BY <2>2 DEF Reads
  <2>4. i \in Nat /\ hi \in Int /\ hi <= n - 1
    BY <1>4
  <2>5. Part(row, i, n - 1) = Part(row, i, hi)
    OBVIOUS
  <2> HIDE DEF F, hi, row, n, res, rest
  <2>6. Sum(F, i .. hi) = Sum(Utils(res), Part(row, i, hi))
    BY <1>1, <1>5, <2>3, <2>4, RowSum
  <2> QED
    BY <2>1, <2>5, <2>6
<1> HIDE DEF rest
<1>7. ASSUME NEW i \in 0 .. n PROVE b.util[c] - rest(i) = Sum(Utils(res), Pre(row, i))
  <2>1. IsFiniteSet(Pre(row, i)) /\ Pre(row, i) \subseteq S /\ IsFiniteSet(S)
    <3> HIDE DEF row, n, res
    <3> QED
      BY <1>1, RowFinite
  <2>2. Part(row, i, n - 1) \subseteq S
    BY <1>4 DEF Part
  <2>3. IsFiniteSet(Part(row, i, n - 1))
    BY <2>1, <2>2, FS_Subset
  <2>4. Pre(row, i) \cap Part(row, i, n - 1) = {}
    <3>1. \A k \in 0 .. i - 1, l \in i .. n - 1 : k \in 0 .. n - 1 /\ l \in 0 .. n - 1 /\ k # l
      BY <1>4
    <3> QED
      BY <3>1, <1>4 DEF Pre, Part
  <2>5. Pre(row, i) \cup Part(row, i, n - 1) = S
    <3>1. \A k \in 0 .. n - 1 : k \in 0 .. i - 1 \/ k \in i .. n - 1
      BY <1>4
    <3>2. \A t \in S : \E k \in 0 .. n - 1 : row[k] = t
      BY <1>1 DEF RowOk
    <3>3. \A t \in S : t \in Pre(row, i) \cup Part(row, i, n - 1)
      BY <3>1, <3>2 DEF Pre, Part
    <3> QED
      BY <3>3, <2>1, <2>2
  <2> HIDE DEF row, n, res
  <2>6. \A x \in Pre(row, i) \cup Part(row, i, n - 1) : Utils(res)[x] \in Nat
    BY <1>5, <2>5
  <2>7. Sum(Utils(res), Pre(row, i) \cup Part(row, i, n - 1))
          = Sum(Utils(res), Pre(row, i)) + Sum(Utils(res), Part(row, i, n - 1))
    BY <2>1, <2>3, <2>4, <2>6, SumSplit
  <2>8. Sum(Utils(res), Pre(row, i)) \in Nat /\ Sum(Utils(res), Part(row, i, n - 1)) \in Nat
    BY <2>1, <2>3, <2>6, SumNat
  <2>9. b.util[c] = Sum(Utils(res), Pre(row, i)) + rest(i)
    BY <2>5, <2>7, <1>1, <1>6
  <2>10. rest(i) \in Nat
    BY <1>6, <2>8
  <2> QED
    BY <2>8, <2>9, <2>10
<1>8. W = {0} \cup {i \in 0 .. n : Sum(Utils(res), Pre(row, i)) <= UtilBound(i)}
  BY <1>7
<1>9. Sum(Utils(res), Pre(row, 0)) <= UtilBound(0)
  <2>1. Pre(row, 0) = {}
    BY DEF Pre, Part
  <2>2. Sum(Utils(res), Pre(row, 0)) = 0
    BY <2>1, SumEmpty
  <2> QED
    BY <2>2, BoundValues
<1> HIDE DEF W, row, res
<1>10. W \in SUBSET Nat /\ 0 \in W /\ \A i \in W : i <= n
  BY <1>4, <1>8
<1> HIDE DEF n
<1>11. Max(W) \in W /\ \A i \in W : i <= Max(W)
  BY <1>4, <1>10, MaxNat
<1>12. Max(W) \in 0 .. n /\ Sum(Utils(res), Pre(row, Max(W))) <= UtilBound(Max(W))
  BY <1>4, <1>8, <1>9, <1>11
<1>13. \A i \in 0 .. n : Sum(Utils(res), Pre(row, i)) <= UtilBound(i) => i <= Max(W)
  BY <1>8, <1>11
<1> QED
  BY <1>2, <1>12, <1>13 DEF row, n, res

\* Fewer tasks are within their bound as well.
LEMMA BoundShrinks ==
    ASSUME NEW u, NEW A, NEW B, IsFiniteSet(B), A \subseteq B, \A t \in B : u[t] \in Nat,
           Sum(u, B) <= UtilBound(Cardinality(B))
    PROVE  Sum(u, A) <= UtilBound(Cardinality(A))
<1>1. IsFiniteSet(A) /\ Cardinality(A) <= Cardinality(B)
  BY FS_Subset
<1>2. Cardinality(A) \in Nat /\ Cardinality(B) \in Nat
  BY <1>1, FS_CardinalityType
<1>3. CASE A = {}
  <2>1. Sum(u, A) = 0 /\ Cardinality(A) = 0
    BY <1>3, SumEmpty, FS_EmptySet
  <2> QED
    BY <2>1, BoundValues
<1>4. CASE A # {}
  <2>1. Cardinality(A) # 0
    BY <1>1, <1>4, FS_EmptySet
  <2>2. /\ UtilBound(Cardinality(A)) \in Nat /\ UtilBound(Cardinality(B)) \in Nat
        /\ UtilBound(Cardinality(B)) <= UtilBound(Cardinality(A))
    <3> DEFINE k == Cardinality(A)
               l == Cardinality(B)
    <3>1. k \in Nat /\ l \in Nat /\ 1 <= k /\ k <= l
      BY <1>1, <1>2, <2>1
    <3> HIDE DEF k, l
    <3>2. UtilBound(k) \in Nat /\ UtilBound(l) \in Nat /\ UtilBound(l) <= UtilBound(k)
      BY <3>1, BoundFalls
    <3> QED
      BY <3>2 DEF k, l
  <2>3. Sum(u, A) <= Sum(u, B)
    <3>1. \A t \in A : u[t] \in Nat /\ u[t] <= u[t]
      OBVIOUS
    <3> QED
      BY <3>1, SumMono
  <2>4. Sum(u, A) \in Nat /\ Sum(u, B) \in Nat
    BY <1>1, SumNat
  <2> QED
    BY <2>2, <2>3, <2>4
<1> QED
  BY <1>3, <1>4

\* A sum over fewer tasks is smaller.
LEMMA SumSubset ==
    ASSUME NEW f, NEW A, NEW B, IsFiniteSet(B), A \subseteq B, \A t \in B : f[t] \in Nat
    PROVE  /\ Sum(f, A) \in Nat /\ Sum(f, B) \in Nat
           /\ Sum(f, A) <= Sum(f, B)
<1>1. \A t \in A : f[t] \in Nat /\ f[t] <= f[t]
  OBVIOUS
<1>2. IsFiniteSet(A)
  BY FS_Subset
<1> QED
  BY <1>1, <1>2, SumMono, SumNat

\* The tests still pass when a task leaves.
LEMMA TestedRemove ==
    ASSUME NEW res, NEW S \in SUBSET Tasks, IsFiniteSet(S), Params(res, S), Tested(res, S),
           NEW R \in SUBSET S
    PROVE  Tested(res, R)
<1>1. PICK q \in Nat :
        /\ Sum(Utils(res), Shorter(res, S, q)) <= UtilBound(Cardinality(Shorter(res, S, q)))
        /\ \A j \in S \ Shorter(res, S, q) : Covered(res, S, j)
  BY DEF Tested
<1>2. \A t \in S : Utils(res)[t] \in Nat
  BY UtilsNat
<1>3. Sum(Utils(res), Shorter(res, R, q)) <= UtilBound(Cardinality(Shorter(res, R, q)))
  <2>1. Shorter(res, R, q) \subseteq Shorter(res, S, q) /\ Shorter(res, S, q) \subseteq S
    BY DEF Shorter
  <2>2. IsFiniteSet(Shorter(res, S, q))
    BY <2>1, FS_Subset
  <2> QED
    BY <1>1, <1>2, <2>1, <2>2, BoundShrinks
<1>4. ASSUME NEW j \in R \ Shorter(res, R, q) PROVE Covered(res, R, j)
  <2>1. j \in S \ Shorter(res, S, q)
    BY <1>4 DEF Shorter
  <2>2. PICK p \in 1 .. res[j].period : Sum(Demands(res, p), UpTo(res, S, j)) <= p
    BY <1>1, <2>1 DEF Covered
  <2>3. p \in Nat
    BY <2>1 DEF Params
  <2>4. UpTo(res, R, j) \subseteq UpTo(res, S, j) /\ UpTo(res, S, j) \subseteq S
    BY DEF UpTo
  <2>5. IsFiniteSet(UpTo(res, S, j))
    BY <2>4, FS_Subset
  <2>6. \A t \in S : Demands(res, p)[t] \in Nat
    BY <2>3, DemandsNat
  <2>7. /\ Sum(Demands(res, p), UpTo(res, R, j)) \in Nat
        /\ Sum(Demands(res, p), UpTo(res, S, j)) \in Nat
        /\ Sum(Demands(res, p), UpTo(res, R, j)) <= Sum(Demands(res, p), UpTo(res, S, j))
    BY <2>4, <2>5, <2>6, SumSubset
  <2>8. Sum(Demands(res, p), UpTo(res, R, j)) <= p
    BY <2>2, <2>3, <2>7
  <2> QED
    BY <2>2, <2>8 DEF Covered
<1> QED
  BY <1>1, <1>3, <1>4 DEF Tested

\* The two reserve functions give the tasks of S the same parameters.
Agree(res, new, S) ==
    \A t \in S : /\ new[t].budget = res[t].budget
                 /\ new[t].period = res[t].period
                 /\ new[t].util = res[t].util

\* The same parameters have the same sums.
LEMMA AgreeSums ==
    ASSUME NEW res, NEW new, NEW S \in SUBSET Tasks, IsFiniteSet(S), Params(res, S),
           Agree(res, new, S)
    PROVE  /\ Sum(Utils(new), S) = Sum(Utils(res), S)
           /\ \A p \in Nat : Sum(Demands(new, p), S) = Sum(Demands(res, p), S)
<1>1. \A t \in S : Utils(res)[t] \in Nat
  BY UtilsNat
<1>2. \A t \in S : Utils(res)[t] = Utils(new)[t]
  BY DEF Utils, Agree
<1>3. ASSUME NEW p \in Nat PROVE Sum(Demands(new, p), S) = Sum(Demands(res, p), S)
  <2>1. \A t \in S : Demands(res, p)[t] \in Nat
    BY DemandsNat
  <2>2. \A t \in S : Demands(res, p)[t] = Demands(new, p)[t]
    BY DEF Demands, Agree
  <2> QED
    BY <2>1, <2>2, SumSame
<1> QED
  BY <1>1, <1>2, <1>3, SumSame

\* The same parameters pass the same tests.
LEMMA TestedSame ==
    ASSUME NEW res, NEW new, NEW S \in SUBSET Tasks, IsFiniteSet(S), Params(res, S),
           Agree(res, new, S), Tested(res, S)
    PROVE  Tested(new, S)
<1>1. PICK q \in Nat :
        /\ Sum(Utils(res), Shorter(res, S, q)) <= UtilBound(Cardinality(Shorter(res, S, q)))
        /\ \A j \in S \ Shorter(res, S, q) : Covered(res, S, j)
  BY DEF Tested
<1>2. \A R \in SUBSET S : IsFiniteSet(R) /\ Params(res, R) /\ Agree(res, new, R) /\ R \in SUBSET Tasks
  BY FS_Subset DEF Params, Agree
<1>3. Shorter(new, S, q) = Shorter(res, S, q) /\ Shorter(res, S, q) \in SUBSET S
  BY DEF Shorter, Agree
<1>4. Sum(Utils(new), Shorter(new, S, q)) <= UtilBound(Cardinality(Shorter(new, S, q)))
  <2> DEFINE R == Shorter(res, S, q)
  <2>1. IsFiniteSet(R) /\ Params(res, R) /\ Agree(res, new, R) /\ R \in SUBSET Tasks
    BY <1>2, <1>3
  <2>2. Sum(Utils(new), R) = Sum(Utils(res), R)
    <3> HIDE DEF R
    <3> QED
      BY <2>1, AgreeSums
  <2> QED
    BY <1>1, <1>3, <2>2
<1>5. ASSUME NEW j \in S \ Shorter(new, S, q) PROVE Covered(new, S, j)
  <2>1. PICK p \in 1 .. res[j].period : Sum(Demands(res, p), UpTo(res, S, j)) <= p
    BY <1>1, <1>3, <1>5 DEF Covered
  <2>2. p \in Nat
    BY <1>5 DEF Params
  <2>3. UpTo(new, S, j) = UpTo(res, S, j) /\ UpTo(res, S, j) \in SUBSET S
    BY DEF UpTo, Agree
  <2>4. Sum(Demands(new, p), UpTo(new, S, j)) <= p
    <3> DEFINE R == UpTo(res, S, j)
    <3>1. IsFiniteSet(R) /\ Params(res, R) /\ Agree(res, new, R) /\ R \in SUBSET Tasks
      BY <1>2, <2>3
    <3>2. Sum(Demands(new, p), R) = Sum(Demands(res, p), R)
      <4> HIDE DEF R
      <4> QED
        BY <2>2, <3>1, AgreeSums
    <3> QED
      BY <2>1, <2>3, <3>2
  <2>5. p \in 1 .. new[j].period
    BY <1>5, <2>1 DEF Agree
  <2> QED
    BY <2>4, <2>5 DEF Covered
<1> QED
  BY <1>1, <1>4, <1>5 DEF Tested

\* The periods of a row do not fall.
LEMMA RowSorted ==
    ASSUME NEW row, NEW n, NEW res, NEW S, RowOk(row, n, res, S), Params(res, S),
           NEW i \in 0 .. n - 1, NEW j \in 0 .. n - 1, i <= j
    PROVE  /\ res[row[i]].period \in Nat /\ res[row[j]].period \in Nat
           /\ res[row[i]].period <= res[row[j]].period
<1>1. n \in Nat
  BY RowSlots
<1>2. row[i] \in S /\ row[j] \in S
  BY DEF RowOk
<1>3. res[row[i]].period \in Nat /\ res[row[j]].period \in Nat
  BY <1>2 DEF Params
<1>4. CASE i = j
  BY <1>3, <1>4
<1>5. CASE i < j
  BY <1>3, <1>5 DEF RowOk
<1> QED
  BY <1>1, <1>3, <1>4, <1>5

\* Passing the two tests does not depend on the order of equal periods.
LEMMA PassedTested ==
    ASSUME NEW b, NEW c, NEW S, RowOk(b.tasks[c], b.length[c], b.reserve, S),
           Params(b.reserve, S), b.util[c] = Sum(Utils(b.reserve), S),
           \A j \in UBPrefix(b, c) .. b.length[c] - 1 : PassesRT(b, c, j)
    PROVE  Tested(b.reserve, S)
<1> DEFINE row == b.tasks[c]
           n == b.length[c]
           res == b.reserve
           i == UBPrefix(b, c)
           q == IF i < n THEN res[row[i]].period
                ELSE IF n > 0 THEN res[row[n - 1]].period + 1 ELSE 0
           A == Shorter(res, S, q)
<1>1. RowOk(row, n, res, S) /\ Params(res, S)
  OBVIOUS
<1>2. i \in 0 .. n /\ Sum(Utils(res), Pre(row, i)) <= UtilBound(i)
  BY UBFacts
<1>3. \A j \in i .. n - 1 : /\ j \in 0 .. n - 1
                            /\ \E p \in 1 .. res[row[j]].period : Sum(Demands(res, p), Pre(row, j + 1)) <= p
  <2>1. \A j \in i .. n - 1 : j \in 0 .. n - 1 /\ PassesRT(b, c, j)
    BY <1>2
  <2> QED
    BY <2>1, PassesIff
<1> HIDE DEF row, n, res, i
<1>4. /\ n \in Nat /\ S \subseteq Tasks
      /\ \A k \in 0 .. n - 1 : row[k] \in S /\ res[row[k]].period \in Nat
      /\ \A t \in S : \E k \in 0 .. n - 1 : row[k] = t
  BY <1>1, RowSlots DEF RowOk, Params
<1>5. /\ IsFiniteSet(S)
      /\ IsFiniteSet(Pre(row, i)) /\ Pre(row, i) \subseteq S /\ Cardinality(Pre(row, i)) = i
  BY <1>1, <1>2, RowFinite
<1>6. \A k, l \in 0 .. n - 1 : k <= l => res[row[k]].period <= res[row[l]].period
  BY <1>1, RowSorted
<1>7. q \in Nat
  BY <1>2, <1>4
<1>8. A \subseteq Pre(row, i)
  <2>1. ASSUME NEW k \in 0 .. n - 1, res[row[k]].period < q PROVE k \in 0 .. i - 1
    <3>1. CASE i < n
      <4>1. i \in 0 .. n - 1 /\ res[row[i]].period = q
        BY <1>2, <1>4, <3>1
      <4> HIDE DEF q
      <4> QED
        BY <1>2, <1>4, <1>6, <2>1, <4>1
    <3>2. CASE ~(i < n)
      BY <1>2, <1>4, <3>2
    <3> QED
      BY <3>1, <3>2
  <2> HIDE DEF q
  <2>2. ASSUME NEW t \in A PROVE t \in Pre(row, i)
    <3>1. t \in S /\ res[t].period < q
      BY DEF Shorter
    <3>2. PICK k \in 0 .. n - 1 : row[k] = t
      BY <1>4, <3>1
    <3>3. k \in 0 .. i - 1
      BY <2>1, <3>1, <3>2
    <3> QED
      BY <3>2, <3>3 DEF Pre, Part
  <2> QED
    BY <2>2
<1>9. Sum(Utils(res), A) <= UtilBound(Cardinality(A))
  <2>1. \A t \in Pre(row, i) : Utils(res)[t] \in Nat
    BY <1>1, <1>4, <1>5, UtilsNat
  <2> HIDE DEF A
  <2> QED
    BY <1>2, <1>5, <1>8, <2>1, BoundShrinks
<1>10. ASSUME NEW j \in S \ A PROVE Covered(res, S, j)
  <2>1. PICK s \in 0 .. n - 1 : row[s] = j
    BY <1>4
  <2>2. res[j].period \in Nat /\ ~(res[j].period < q)
    BY <1>4, <2>1 DEF Shorter
  <2>3. i \in 0 .. n - 1 /\ res[row[i]].period <= res[j].period
    <3>1. i < n
      <4> SUFFICES ASSUME ~(i < n) PROVE FALSE
        OBVIOUS
      <4>1. n > 0 /\ q = res[row[n - 1]].period + 1
        BY <1>2, <1>4, <2>1
      <4>2. res[j].period <= res[row[n - 1]].period /\ res[row[n - 1]].period \in Nat
        <5>1. s <= n - 1 /\ n - 1 \in 0 .. n - 1
          BY <1>4, <2>1, <4>1
        <5> QED
          BY <5>1, <1>4, <1>6, <2>1
      <4> HIDE DEF q
      <4> QED
        BY <2>2, <4>1, <4>2
    <3>2. q = res[row[i]].period /\ i \in 0 .. n - 1
      BY <1>2, <1>4, <3>1
    <3> HIDE DEF q
    <3> QED
      BY <2>2, <3>2, <1>4
  <2> HIDE DEF q
  <2> DEFINE L == {k \in 0 .. n - 1 : res[row[k]].period <= res[j].period}
  <2>4. s \in L /\ i \in L
    BY <2>1, <2>2, <2>3
  <2>5. Max(L) \in L /\ \A k \in L : k <= Max(L)
    <3>1. L \in SUBSET Nat /\ L # {} /\ \A k \in L : k <= n
      BY <2>4, <1>4
    <3> HIDE DEF L
    <3> QED
      BY <3>1, <1>4, MaxNat
  <2> DEFINE m == Max(L)
  <2>6. m \in 0 .. n - 1 /\ res[row[m]].period <= res[j].period
    BY <2>5
  <2>7. s <= m /\ i <= m /\ \A k \in 0 .. n - 1 : res[row[k]].period <= res[j].period => k <= m
    BY <2>4, <2>5
  <2> HIDE DEF m, L
  <2>8. res[row[m]].period = res[j].period
    <3>1. res[row[s]].period <= res[row[m]].period /\ res[row[m]].period \in Nat
      BY <1>4, <1>6, <2>1, <2>6, <2>7
    <3> QED
      BY <3>1, <2>1, <2>2, <2>6
  <2>9. PICK p \in 1 .. res[j].period : Sum(Demands(res, p), Pre(row, m + 1)) <= p
    <3>1. m \in i .. n - 1
      BY <1>2, <1>4, <2>6, <2>7
    <3> QED
      BY <3>1, <1>3, <2>8
  <2>10. p \in Nat
    BY <2>2
  <2>11. UpTo(res, S, j) \subseteq Pre(row, m + 1)
    <3>1. ASSUME NEW t \in UpTo(res, S, j) PROVE t \in Pre(row, m + 1)
      <4>1. t \in S /\ res[t].period <= res[j].period
        BY DEF UpTo
      <4>2. PICK k \in 0 .. n - 1 : row[k] = t
        BY <1>4, <4>1
      <4>3. k <= m
        BY <2>7, <4>1, <4>2
      <4>4. k \in 0 .. m /\ m \in Int /\ m + 1 - 1 = m
        BY <2>6, <4>3, <1>4
      <4> QED
        <5>1. Pre(row, m + 1) = Part(row, 0, m)
          BY <4>4 DEF Pre
        <5> QED
          BY <4>2, <4>4, <5>1 DEF Part
    <3> QED
      BY <3>1
  <2>12. IsFiniteSet(Pre(row, m + 1)) /\ Pre(row, m + 1) \subseteq S
    <3>1. m + 1 \in 0 .. n
      BY <2>6, <1>4
    <3> QED
      BY <3>1, <1>1, RowFinite
  <2>13. \A t \in S : Demands(res, p)[t] \in Nat
    BY <1>1, <1>4, <2>10, DemandsNat
  <2>14. /\ Sum(Demands(res, p), UpTo(res, S, j)) \in Nat
         /\ Sum(Demands(res, p), Pre(row, m + 1)) \in Nat
         /\ Sum(Demands(res, p), UpTo(res, S, j)) <= Sum(Demands(res, p), Pre(row, m + 1))
    BY <2>11, <2>12, <2>13, SumSubset
  <2>15. Sum(Demands(res, p), UpTo(res, S, j)) <= p
    BY <2>9, <2>10, <2>14
  <2> QED
    BY <2>9, <2>15 DEF Covered
<1> HIDE DEF q
<1>11. Tested(res, S)
  BY <1>7, <1>9, <1>10 DEF Tested
<1> QED
  BY <1>11 DEF res

\* Tasks that passed the tests once pass them in any row.
LEMMA TestedPasses ==
    ASSUME NEW b, NEW c, NEW S, RowOk(b.tasks[c], b.length[c], b.reserve, S),
           Params(b.reserve, S), b.util[c] = Sum(Utils(b.reserve), S),
           Tested(b.reserve, S)
    PROVE  \A j \in UBPrefix(b, c) .. b.length[c] - 1 : PassesRT(b, c, j)
<1> DEFINE row == b.tasks[c]
           n == b.length[c]
           res == b.reserve
           ub == UBPrefix(b, c)
<1>1. RowOk(row, n, res, S) /\ Params(res, S) /\ Tested(res, S)
  OBVIOUS
<1>2. /\ ub \in 0 .. n
      /\ \A i \in 0 .. n : Sum(Utils(res), Pre(row, i)) <= UtilBound(i) => i <= ub
  BY UBFacts
<1>3. \A j \in 0 .. n - 1 :
        (\E p \in 1 .. res[row[j]].period : Sum(Demands(res, p), Pre(row, j + 1)) <= p)
           => PassesRT(b, c, j)
  BY PassesIff
<1> SUFFICES ASSUME NEW j \in ub .. n - 1
             PROVE  j \in 0 .. n - 1 /\ \E p \in 1 .. res[row[j]].period : Sum(Demands(res, p), Pre(row, j + 1)) <= p
  BY <1>3
<1> HIDE DEF row, n, res, ub
<1>4. /\ n \in Nat /\ S \subseteq Tasks
      /\ \A k \in 0 .. n - 1 : row[k] \in S /\ res[row[k]].period \in Nat
      /\ \A t \in S : \E k \in 0 .. n - 1 : row[k] = t
  BY <1>1, RowSlots DEF RowOk, Params
<1>5. \A k, l \in 0 .. n - 1 : k <= l => res[row[k]].period <= res[row[l]].period
  BY <1>1, RowSorted
<1>6. PICK q \in Nat :
        /\ Sum(Utils(res), Shorter(res, S, q)) <= UtilBound(Cardinality(Shorter(res, S, q)))
        /\ \A k \in S \ Shorter(res, S, q) : Covered(res, S, k)
  BY <1>1 DEF Tested
<1> DEFINE L == {k \in 0 .. n : k = n \/ q <= res[row[k]].period}
<1>7. Min(L) \in L /\ \A k \in L : Min(L) <= k
  <2>1. L \in SUBSET Nat /\ n \in L
    BY <1>4
  <2> HIDE DEF L
  <2> QED
    BY <2>1, MinNat
<1> DEFINE i == Min(L)
<1>8. i \in 0 .. n /\ (i = n \/ q <= res[row[i]].period)
  BY <1>7
<1>9. \A k \in 0 .. n - 1 : k < i => res[row[k]].period < q
  <2>1. ASSUME NEW k \in 0 .. n - 1, k < i, ~(res[row[k]].period < q) PROVE FALSE
    <3>1. k \in L
      BY <1>4, <2>1
    <3> QED
      BY <1>7, <2>1, <3>1, <1>8
  <2> QED
    BY <2>1
<1> HIDE DEF i, L
<1>10. \A k \in 0 .. n - 1 : i <= k => q <= res[row[k]].period
  <2>1. ASSUME NEW k \in 0 .. n - 1, i <= k PROVE q <= res[row[k]].period
    <3>1. i \in 0 .. n - 1 /\ q <= res[row[i]].period
      BY <1>4, <1>8, <2>1
    <3>2. res[row[i]].period <= res[row[k]].period /\ res[row[i]].period \in Nat /\ res[row[k]].period \in Nat
      BY <1>4, <1>5, <2>1, <3>1
    <3> QED
      BY <3>1, <3>2
  <2> QED
    BY <2>1
<1>11. Shorter(res, S, q) = Pre(row, i)
  <2>1. ASSUME NEW t \in Shorter(res, S, q) PROVE t \in Pre(row, i)
    <3>1. t \in S /\ res[t].period < q
      BY DEF Shorter
    <3>2. PICK k \in 0 .. n - 1 : row[k] = t
      BY <1>4, <3>1
    <3>3. k < i
      BY <1>4, <1>8, <1>10, <3>1, <3>2
    <3>4. k \in 0 .. i - 1
      BY <1>4, <1>8, <3>3
    <3> QED
      BY <3>2, <3>4 DEF Pre, Part
  <2>2. ASSUME NEW t \in Pre(row, i) PROVE t \in Shorter(res, S, q)
    <3>1. PICK k \in 0 .. i - 1 : row[k] = t
      BY DEF Pre, Part
    <3>2. k \in 0 .. n - 1 /\ k < i
      BY <1>4, <1>8, <3>1
    <3> QED
      BY <1>4, <1>9, <3>1, <3>2 DEF Shorter
  <2> QED
    BY <2>1, <2>2
<1>12. i <= ub
  <2>1. Cardinality(Pre(row, i)) = i
    BY <1>1, <1>8, RowFinite
  <2> QED
    BY <1>2, <1>6, <1>8, <1>11, <2>1
<1>13. j \in 0 .. n - 1 /\ i <= j
  BY <1>2, <1>4, <1>8, <1>12
<1>14. row[j] \in S \ Shorter(res, S, q)
  BY <1>4, <1>10, <1>13 DEF Shorter
<1>15. PICK p \in 1 .. res[row[j]].period : Sum(Demands(res, p), UpTo(res, S, row[j])) <= p
  BY <1>6, <1>14 DEF Covered
<1>16. p \in Nat
  BY <1>4, <1>13
<1>17. Pre(row, j + 1) \subseteq UpTo(res, S, row[j])
  <2>1. ASSUME NEW t \in Pre(row, j + 1) PROVE t \in UpTo(res, S, row[j])
    <3>1. PICK k \in 0 .. j + 1 - 1 : row[k] = t
      BY DEF Pre, Part
    <3>2. k \in 0 .. n - 1 /\ k <= j
      BY <1>4, <1>13, <3>1
    <3> QED
      BY <1>4, <1>5, <1>13, <3>1, <3>2 DEF UpTo
  <2> QED
    BY <2>1
<1>18. IsFiniteSet(UpTo(res, S, row[j])) /\ UpTo(res, S, row[j]) \subseteq S
  <2>1. IsFiniteSet(S)
    BY <1>1, RowFinite
  <2>2. UpTo(res, S, row[j]) \subseteq S
    BY DEF UpTo
  <2> QED
    BY <2>1, <2>2, FS_Subset
<1>19. \A t \in S : Demands(res, p)[t] \in Nat
  BY <1>1, <1>4, <1>16, DemandsNat
<1>20. /\ Sum(Demands(res, p), Pre(row, j + 1)) \in Nat
       /\ Sum(Demands(res, p), UpTo(res, S, row[j])) \in Nat
       /\ Sum(Demands(res, p), Pre(row, j + 1)) <= Sum(Demands(res, p), UpTo(res, S, row[j]))
  BY <1>17, <1>18, <1>19, SumSubset
<1> QED
  BY <1>13, <1>15, <1>16, <1>20

\* The reference test implies both tests of try_bind and the 100% test.
LEMMA CoveredTested ==
    ASSUME NEW res, NEW S \in SUBSET Tasks, Params(res, S), \A j \in S : Covered(res, S, j)
    PROVE  Tested(res, S)
<1>1. Shorter(res, S, 0) = {}
  BY DEF Shorter, Params
<1>2. Sum(Utils(res), {}) = 0 /\ Cardinality({}) = 0 /\ UtilBound(0) = 0
  BY SumEmpty, FS_EmptySet, BoundValues
<1>3. Sum(Utils(res), Shorter(res, S, 0)) <= UtilBound(Cardinality(Shorter(res, S, 0)))
  BY <1>1, <1>2
<1>4. 0 \in Nat
  OBVIOUS
<1> QED
  BY <1>3, <1>4 DEF Tested

\* One of the tasks has the longest period.
LEMMA LongestPeriod ==
    ASSUME NEW res, NEW S, IsFiniteSet(S), S # {}, \A t \in S : res[t].period \in Nat
    PROVE  \E j \in S : UpTo(res, S, j) = S
<1> DEFINE above(j) == S \ UpTo(res, S, j)
           W == {above(j) : j \in S}
<1>1. PICK s \in W : \A r \in W : r \subseteq s => r = s
  <2>1. W \in SUBSET SUBSET S /\ W # {}
    OBVIOUS
  <2> HIDE DEF W
  <2> QED
    BY <2>1, LeastSubset
<1>2. PICK j \in S : s = above(j)
  BY <1>1
<1>3. ASSUME NEW k \in S, k \notin UpTo(res, S, j) PROVE FALSE
  <2>1. res[j].period < res[k].period
    BY <1>3 DEF UpTo
  <2>2. above(k) \subseteq above(j)
    BY <2>1 DEF UpTo
  <2>3. above(k) = above(j)
    BY <1>1, <1>2, <2>2
  <2>4. k \in above(j) /\ k \notin above(k)
    BY <1>3 DEF UpTo
  <2> HIDE DEF above
  <2> QED
    BY <2>3, <2>4
<1>4. UpTo(res, S, j) \subseteq S
  BY DEF UpTo
<1> QED
  BY <1>3, <1>4

\* Tasks that are covered do not use more than 100%.
LEMMA CoveredUtil ==
    ASSUME NEW res, NEW S \in SUBSET Tasks, IsFiniteSet(S), Params(res, S),
           \A j \in S : Covered(res, S, j)
    PROVE  Sum(Utils(res), S) <= UTIL_MULTIPLE
<1>1. CASE S = {}
  BY <1>1, SumEmpty DEF UTIL_MULTIPLE
<1>2. CASE S # {}
  <2>1. \A t \in S : res[t].period \in Nat \ {0} /\ res[t].budget \in Nat
    BY DEF Params
  <2>2. PICK j \in S : UpTo(res, S, j) = S
    BY <1>2, <2>1, LongestPeriod
  <2>3. PICK p \in 1 .. res[j].period : Sum(Demands(res, p), S) <= p
    BY <2>2 DEF Covered
  <2>4. p \in Nat /\ p >= 1
    BY <2>1, <2>3
  <2>5. \A t \in S : Utils(res)[t] \in Nat
    BY UtilsNat
  <2>6. \A t \in S : Demands(res, p)[t] \in Nat
    BY <2>4, DemandsNat
  <2>7. ASSUME NEW t \in S PROVE p * Utils(res)[t] <= UTIL_MULTIPLE * Demands(res, p)[t]
    <3>1. /\ Utils(res)[t] = (res[t].budget * UTIL_MULTIPLE) \div res[t].period
          /\ Demands(res, p)[t] = Demand(res[t].budget, res[t].period, p)
      BY DEF Utils, Demands, Params
    <3>2. p * ((res[t].budget * UTIL_MULTIPLE) \div res[t].period)
            <= UTIL_MULTIPLE * Demand(res[t].budget, res[t].period, p)
      BY <2>1, <2>4, DemandUtil
    <3> QED
      BY <3>1, <3>2
  <2>8. UTIL_MULTIPLE \in Nat
    BY DEF UTIL_MULTIPLE
  <2>9. p * Sum(Utils(res), S) <= UTIL_MULTIPLE * Sum(Demands(res, p), S)
    <3> DEFINE u == Utils(res)
               d == Demands(res, p)
    <3>1. \A t \in S : u[t] \in Nat /\ d[t] \in Nat /\ p * u[t] <= UTIL_MULTIPLE * d[t]
      BY <2>5, <2>6, <2>7
    <3> HIDE DEF u, d
    <3>2. p * Sum(u, S) <= UTIL_MULTIPLE * Sum(d, S)
      BY <2>4, <2>8, <3>1, SumScaled
    <3> QED
      BY <3>2 DEF u, d
  <2>10. Sum(Utils(res), S) \in Nat /\ Sum(Demands(res, p), S) \in Nat
    BY <2>5, <2>6, SumNat
  <2>11. ASSUME NEW X \in Nat, NEW Y \in Nat, Y <= p, p * X <= 10000 * Y PROVE X <= 10000
    <3>1. p * X <= 10000 * p
      BY <2>4, <2>11
    <3> SUFFICES ASSUME X > 10000 PROVE FALSE
      OBVIOUS
    <3>2. p * X >= p * 10001
      BY <2>4
    <3> QED
      BY <2>4, <3>1, <3>2
  <2> QED
    BY <2>3, <2>9, <2>10, <2>11 DEF UTIL_MULTIPLE
<1> QED
  BY <1>1, <1>2

\* MeetsDeadlines looks at budgets and periods only.
LEMMA MeetsCovered ==
    ASSUME NEW old, NEW res, NEW S \in SUBSET Tasks, IsFiniteSet(S), Params(res, S),
           \A t \in S : old[t].budget = res[t].budget /\ old[t].period = res[t].period,
           MeetsDeadlines(old, S, SYSCLOCK_MAX_FREQ)
    PROVE  \A j \in S : Covered(res, S, j)
<1> SUFFICES ASSUME NEW j \in S PROVE Covered(res, S, j)
  OBVIOUS
<1> DEFINE urgent == {k \in S : old[k].period <= old[j].period}
           F(p) == [k \in urgent |-> Demand(old[k].budget, old[k].period, p)]
<1>1. PICK p \in 1 .. old[j].period : SYSCLOCK_MAX_FREQ * SumFunction(F(p)) <= p * SYSCLOCK_MAX_FREQ
  BY DEF MeetsDeadlines
<1>2. p \in 1 .. res[j].period /\ p \in Nat
  BY <1>1 DEF Params
<1>3. urgent = UpTo(res, S, j) /\ urgent \subseteq S
  BY DEF UpTo
<1>4. IsFiniteSet(urgent)
  BY <1>3, FS_Subset
<1>5. SumFunction(F(p)) = Sum(F(p), urgent)
  <2> DEFINE G == F(p)
  <2>1. DOMAIN G = urgent
    OBVIOUS
  <2>2. SumFunction(G) = Sum(G, DOMAIN G)
    <3> HIDE DEF G
    <3> QED
      BY SumFun
  <2> QED
    BY <2>1, <2>2, Zenon
<1>6. \A t \in S : Demands(res, p)[t] \in Nat
  BY <1>2, DemandsNat
<1>7. \A t \in urgent : F(p)[t] = Demands(res, p)[t]
  BY <1>3 DEF Demands
<1> HIDE DEF urgent, F
<1>8. Sum(F(p), urgent) = Sum(Demands(res, p), urgent) /\ Sum(Demands(res, p), urgent) \in Nat
  <2>1. \A t \in urgent : Demands(res, p)[t] \in Nat /\ F(p)[t] \in Nat
    BY <1>3, <1>6, <1>7
  <2> QED
    BY <2>1, <1>4, <1>7, SumSame, SumNat
<1>9. Sum(Demands(res, p), urgent) <= p
  <2> DEFINE X == Sum(Demands(res, p), urgent)
  <2>1. 1200 * X <= p * 1200 /\ X \in Nat
    BY <1>1, <1>5, <1>8 DEF SYSCLOCK_MAX_FREQ
  <2> HIDE DEF X
  <2>2. X <= p
    BY <2>1, <1>2
  <2> QED
    BY <2>2 DEF X
<1> QED
  BY <1>2, <1>3, <1>9 DEF Covered

-------------------------------------------------------------------------------
(***************************************************************************)
(* Taking a task out of a row and sorting one into it; the books of a CPU. *)
(***************************************************************************)
Rows == [Slots -> Tasks \cup {NoTask}]

\* Only the live slots of a row and the periods of its tasks matter.
LEMMA RowSame ==
    ASSUME NEW row, NEW n, NEW res, NEW S, RowOk(row, n, res, S),
           NEW other \in Rows, \A i \in 0 .. n - 1 : other[i] = row[i],
           NEW new, Agree(res, new, S)
    PROVE  RowOk(other, n, new, S)
  BY DEF RowOk, Agree, Rows

\* Dropping the entry at pos.
LEMMA ShiftRow ==
    ASSUME NEW row, NEW n, NEW res, NEW S, RowOk(row, n, res, S), NEW pos \in 0 .. n - 1
    PROVE  RowOk(Shifted(row, n, pos), n - 1, res, S \ {row[pos]})
<1> DEFINE new == Shifted(row, n, pos)
<1>1. /\ n \in Nat /\ n <= TASK_SCHEDULING_LENGTH /\ S \subseteq Tasks /\ row \in Rows
      /\ n - 1 \in 0 .. TASK_SCHEDULING_LENGTH
      /\ \A i \in 0 .. n - 1 : i \in Slots /\ row[i] \in S
      /\ \A t \in S : \E i \in 0 .. n - 1 : row[i] = t
      /\ \A i, j \in 0 .. n - 1 : row[i] = row[j] => i = j
      /\ \A i, j \in 0 .. n - 1 : i < j => res[row[i]].period <= res[row[j]].period
  <2>1. /\ n \in Nat /\ \A i \in 0 .. n - 1 : i \in Slots
        /\ \A i, j \in 0 .. n - 1 : row[i] = row[j] => i = j
    BY RowSlots
  <2>2. n - 1 \in 0 .. TASK_SCHEDULING_LENGTH /\ n <= TASK_SCHEDULING_LENGTH
    BY <2>1, LengthNat DEF RowOk
  <2> QED
    BY <2>1, <2>2 DEF RowOk, Rows
<1>2. \A i \in 0 .. n - 2 : /\ i \in Slots /\ i \in 0 .. n - 1 /\ i + 1 \in 0 .. n - 1
                            /\ new[i] = IF pos <= i THEN row[i + 1] ELSE row[i]
  BY <1>1 DEF Shifted
<1>3. new \in Rows
  <2>1. ASSUME NEW i \in Slots PROVE new[i] \in Tasks \cup {NoTask}
    <3>1. CASE pos <= i /\ i <= n - 2
      <4>1. i + 1 \in 0 .. n - 1
        BY <3>1, <1>1, LengthNat DEF Slots
      <4>2. new[i] = row[i + 1]
        BY <3>1 DEF Shifted
      <4> QED
        BY <4>1, <4>2, <1>1
    <3>2. CASE ~(pos <= i /\ i <= n - 2)
      BY <3>2, <1>1 DEF Shifted, Rows
    <3> QED
      BY <3>1, <3>2
  <2>2. new \in [Slots -> Tasks \cup {NoTask}]
    BY <2>1 DEF Shifted
  <2> QED
    BY <2>2 DEF Rows
<1> HIDE DEF new
<1> DEFINE at(i) == IF pos <= i THEN i + 1 ELSE i
<1>4. \A i \in 0 .. n - 2 : at(i) \in 0 .. n - 1 /\ at(i) # pos /\ new[i] = row[at(i)]
  BY <1>1, <1>2
<1>5. \A i, j \in 0 .. n - 2 : i < j => at(i) < at(j)
  BY <1>1
<1>6. \A k \in 0 .. n - 1 : k # pos => \E i \in 0 .. n - 2 : at(i) = k
  <2>1. ASSUME NEW k \in 0 .. n - 1, k # pos PROVE \E i \in 0 .. n - 2 : at(i) = k
    <3>1. CASE k < pos
      <4>1. k \in 0 .. n - 2 /\ at(k) = k
        BY <1>1, <3>1
      <4> QED
        BY <4>1
    <3>2. CASE k > pos
      <4>1. k - 1 \in 0 .. n - 2 /\ at(k - 1) = k
        BY <1>1, <3>2
      <4> QED
        BY <4>1
    <3> QED
      BY <1>1, <2>1, <3>1, <3>2
  <2> QED
    BY <2>1
<1> HIDE DEF at
<1>7. \A i \in 0 .. n - 2 : new[i] \in S \ {row[pos]}
  BY <1>1, <1>4
<1>8. \A t \in S \ {row[pos]} : \E i \in 0 .. n - 2 : new[i] = t
  <2>1. ASSUME NEW t \in S \ {row[pos]} PROVE \E i \in 0 .. n - 2 : new[i] = t
    <3>1. PICK k \in 0 .. n - 1 : row[k] = t
      BY <1>1
    <3>2. PICK i \in 0 .. n - 2 : at(i) = k
      BY <1>6, <3>1
    <3> QED
      BY <1>4, <3>1, <3>2
  <2> QED
    BY <2>1
<1>9. \A i, j \in 0 .. n - 2 : i < j => new[i] # new[j] /\ res[new[i]].period <= res[new[j]].period
  <2>1. ASSUME NEW i \in 0 .. n - 2, NEW j \in 0 .. n - 2, i < j
        PROVE  new[i] # new[j] /\ res[new[i]].period <= res[new[j]].period
    <3>1. /\ at(i) \in 0 .. n - 1 /\ at(j) \in 0 .. n - 1 /\ at(i) < at(j)
          /\ new[i] = row[at(i)] /\ new[j] = row[at(j)]
      BY <1>4, <1>5, <2>1
    <3>2. at(i) # at(j)
      BY <1>1, <3>1
    <3> QED
      BY <1>1, <3>1, <3>2
  <2> QED
    BY <2>1
<1>10. n - 1 - 1 = n - 2
  BY <1>1
<1> QED
  BY <1>1, <1>3, <1>7, <1>8, <1>9, <1>10 DEF RowOk, Rows, new

Grown(row, n, t, pos) ==
    [i \in Slots |-> CASE i = pos -> t
                       [] pos < i /\ i <= n -> row[i - 1]
                       [] OTHER -> row[i]]

\* Where a task of a longer period, or of the same one, is before pos.
Between(row, n, res, t, pos) ==
    /\ pos \in 0 .. n
    /\ \A i \in 0 .. n - 1 : /\ i < pos => res[row[i]].period <= res[t].period
                             /\ pos <= i => res[t].period <= res[row[i]].period

\* A row with a task sorted in.
LEMMA GrowRow ==
    ASSUME NEW row, NEW n, NEW res, NEW S, RowOk(row, n, res, S), n < TASK_SCHEDULING_LENGTH,
           NEW t \in Tasks, t \notin S, NEW pos, Between(row, n, res, t, pos)
    PROVE  /\ RowOk(Grown(row, n, t, pos), n + 1, res, S \cup {t})
           /\ Shifted(Grown(row, n, t, pos), n + 1, pos) \in Rows
           /\ \A i \in 0 .. n - 1 : Shifted(Grown(row, n, t, pos), n + 1, pos)[i] = row[i]
<1> DEFINE new == Grown(row, n, t, pos)
<1>1. /\ n \in Nat /\ S \subseteq Tasks /\ row \in Rows
      /\ n + 1 \in 0 .. TASK_SCHEDULING_LENGTH
      /\ \A i \in 0 .. n - 1 : i \in Slots /\ row[i] \in S
      /\ \A s \in S : \E i \in 0 .. n - 1 : row[i] = s
      /\ \A i, j \in 0 .. n - 1 : row[i] = row[j] => i = j
      /\ \A i, j \in 0 .. n - 1 : i < j => res[row[i]].period <= res[row[j]].period
  <2>1. /\ n \in Nat /\ \A i \in 0 .. n - 1 : i \in Slots
        /\ \A i, j \in 0 .. n - 1 : row[i] = row[j] => i = j
    BY RowSlots
  <2>2. n + 1 \in 0 .. TASK_SCHEDULING_LENGTH
    BY <2>1, LengthNat
  <2> QED
    BY <2>1, <2>2 DEF RowOk, Rows
<1>2. /\ pos \in 0 .. n
      /\ \A i \in 0 .. n - 1 : i < pos => res[row[i]].period <= res[t].period
      /\ \A i \in 0 .. n - 1 : pos <= i => res[t].period <= res[row[i]].period
  BY DEF Between
<1>3. \A i \in 0 .. n : i \in Slots
  BY <1>1, LengthNat DEF Slots
<1>4. /\ new[pos] = t
      /\ \A i \in 0 .. n : i < pos => new[i] = row[i]
      /\ \A i \in 0 .. n : pos < i => new[i] = row[i - 1]
      /\ \A i \in Slots : ~(i \in 0 .. n) => new[i] = row[i]
  BY <1>1, <1>2, <1>3, LengthNat DEF Grown, Slots
<1>5. new \in Rows
  <2>1. ASSUME NEW i \in Slots PROVE new[i] \in Tasks \cup {NoTask}
    <3>1. CASE i \notin 0 .. n
      BY <3>1, <1>1, <1>4 DEF Rows
    <3>2. CASE i \in 0 .. n /\ i = pos
      BY <3>2, <1>4
    <3>3. CASE i \in 0 .. n /\ i < pos
      BY <3>3, <1>1, <1>4 DEF Rows
    <3>4. CASE i \in 0 .. n /\ pos < i
      <4>1. i - 1 \in 0 .. n - 1
        BY <3>4, <1>1, <1>2
      <4> QED
        BY <3>4, <4>1, <1>1, <1>4
    <3> QED
      BY <1>1, <1>2, <3>1, <3>2, <3>3, <3>4
  <2> QED
    BY <2>1 DEF Grown, Rows
<1> HIDE DEF new
<1>6. \A i \in 0 .. n : new[i] \in S \cup {t}
  <2>1. ASSUME NEW i \in 0 .. n PROVE new[i] \in S \cup {t}
    <3>1. CASE i = pos
      BY <3>1, <1>4
    <3>2. CASE i < pos
      BY <3>2, <1>1, <1>2, <1>4
    <3>3. CASE pos < i
      <4>1. i - 1 \in 0 .. n - 1
        BY <3>3, <1>1, <1>2
      <4> QED
        BY <3>3, <4>1, <1>1, <1>4
    <3> QED
      BY <1>1, <1>2, <3>1, <3>2, <3>3
  <2> QED
    BY <2>1
<1>7. \A s \in S \cup {t} : \E i \in 0 .. n : new[i] = s
  <2>1. ASSUME NEW s \in S PROVE \E i \in 0 .. n : new[i] = s
    <3>1. PICK k \in 0 .. n - 1 : row[k] = s
      BY <1>1
    <3>2. CASE k < pos
      <4>1. k \in 0 .. n /\ new[k] = s
        BY <1>1, <1>4, <3>1, <3>2
      <4> QED
        BY <4>1
    <3>3. CASE pos <= k
      <4>1. k + 1 \in 0 .. n /\ pos < k + 1 /\ k + 1 - 1 = k
        BY <1>1, <1>2, <3>3
      <4>2. new[k + 1] = s
        BY <4>1, <1>4, <3>1
      <4> QED
        BY <4>1, <4>2
    <3> QED
      BY <1>1, <1>2, <3>2, <3>3
  <2> QED
    BY <2>1, <1>2, <1>4
<1>8. ASSUME NEW i \in 0 .. n, NEW j \in 0 .. n, i < j
      PROVE  new[i] # new[j] /\ res[new[i]].period <= res[new[j]].period
  <2>1. CASE j < pos
    <3>1. i \in 0 .. n - 1 /\ j \in 0 .. n - 1 /\ i < pos /\ i # j
      BY <1>1, <1>2, <1>8, <2>1
    <3> QED
      BY <3>1, <2>1, <1>1, <1>4, <1>8
  <2>2. CASE j = pos
    <3>1. i \in 0 .. n - 1 /\ i < pos
      BY <1>1, <1>2, <1>8, <2>2
    <3> QED
      BY <3>1, <2>2, <1>1, <1>2, <1>4
  <2>3. CASE i < pos /\ pos < j
    <3>1. i \in 0 .. n - 1 /\ j - 1 \in 0 .. n - 1 /\ i < j - 1
      BY <1>1, <1>2, <2>3
    <3>2. new[i] = row[i] /\ new[j] = row[j - 1] /\ i # j - 1
      BY <1>4, <2>3, <3>1, <1>1
    <3> QED
      BY <3>1, <3>2, <1>1
  <2>4. CASE i = pos
    <3>1. j - 1 \in 0 .. n - 1 /\ pos <= j - 1 /\ pos < j
      BY <1>1, <1>2, <1>8, <2>4
    <3>2. new[i] = t /\ new[j] = row[j - 1]
      BY <1>4, <2>4, <3>1
    <3> QED
      BY <3>1, <3>2, <1>1, <1>2
  <2>5. CASE pos < i
    <3>1. i - 1 \in 0 .. n - 1 /\ j - 1 \in 0 .. n - 1 /\ i - 1 < j - 1 /\ pos < j
      BY <1>1, <1>2, <1>8, <2>5
    <3>2. new[i] = row[i - 1] /\ new[j] = row[j - 1] /\ i - 1 # j - 1
      BY <1>4, <2>5, <3>1, <1>1
    <3> QED
      BY <3>1, <3>2, <1>1
  <2>6. j < pos \/ j = pos \/ (i < pos /\ pos < j) \/ i = pos \/ pos < i
    BY <1>1, <1>2
  <2> QED
    BY <2>1, <2>2, <2>3, <2>4, <2>5, <2>6
<1>9. n + 1 - 1 = n
  BY <1>1
<1>10. RowOk(new, n + 1, res, S \cup {t})
  BY <1>1, <1>5, <1>6, <1>7, <1>8, <1>9 DEF RowOk, Rows
<1>11. Shifted(new, n + 1, pos) \in Rows
  <2> DEFINE m == n + 1
  <2>1. pos \in 0 .. m - 1
    BY <1>1, <1>2
  <2>0. RowOk(new, m, res, S \cup {t})
    BY <1>10
  <2> HIDE DEF m
  <2>2. RowOk(Shifted(new, m, pos), m - 1, res, (S \cup {t}) \ {new[pos]})
    BY <2>0, <2>1, ShiftRow
  <2>3. Shifted(new, m, pos) \in Rows
    BY <2>2 DEF RowOk, Rows
  <2> QED
    BY <2>3 DEF m
<1>12. ASSUME NEW i \in 0 .. n - 1 PROVE Shifted(new, n + 1, pos)[i] = row[i]
  <2>1. i \in Slots /\ i \in 0 .. n /\ i + 1 \in 0 .. n /\ i + 1 - 1 = i
    BY <1>1
  <2>2. Shifted(new, n + 1, pos)[i] = IF pos <= i THEN new[i + 1] ELSE new[i]
    <3> DEFINE m == n + 1
    <3>1. i <= m - 2
      BY <1>1
    <3> HIDE DEF m
    <3>2. Shifted(new, m, pos)[i] = IF pos <= i THEN new[i + 1] ELSE new[i]
      BY <2>1, <3>1 DEF Shifted
    <3> QED
      BY <3>2 DEF m
  <2>3. pos <= i => new[i + 1] = row[i]
    BY <1>1, <1>2, <1>4, <2>1
  <2>4. ~(pos <= i) => new[i] = row[i]
    BY <1>1, <1>2, <1>4, <2>1
  <2> QED
    BY <2>2, <2>3, <2>4
<1> QED
  BY <1>10, <1>11, <1>12 DEF new

BookType == [tasks : [CPUs -> Rows], length : [CPUs -> 0 .. TASK_SCHEDULING_LENGTH],
             util : [CPUs -> 0 .. UTIL_MULTIPLE], reserve : [Tasks -> Recs]]

\* The books of one CPU, with the tasks of S.
CpuOk(row, n, u, res, S) ==
    /\ RowOk(row, n, res, S)
    /\ Params(res, S)
    /\ u = Sum(Utils(res), S)
    /\ Tested(res, S)

\* The books of all CPUs, M[c] is the tasks of CPU c.
BooksOk(b, M) ==
    /\ b \in BookType
    /\ \A c \in CPUs : CpuOk(b.tasks[c], b.length[c], b.util[c], b.reserve, M[c])

\* What the books of a CPU say of its tasks.
LEMMA CpuFacts ==
    ASSUME NEW row, NEW n, NEW u, NEW res, NEW S, CpuOk(row, n, u, res, S)
    PROVE  /\ RowOk(row, n, res, S) /\ Params(res, S) /\ Tested(res, S)
           /\ S \in SUBSET Tasks /\ IsFiniteSet(S) /\ Cardinality(S) = n
           /\ u = Sum(Utils(res), S) /\ u \in Nat
           /\ n \in Nat /\ n <= TASK_SCHEDULING_LENGTH
<1>1. RowOk(row, n, res, S) /\ Params(res, S) /\ Tested(res, S) /\ u = Sum(Utils(res), S)
  BY DEF CpuOk
<1>2. S \in SUBSET Tasks
  BY <1>1 DEF RowOk
<1>3. IsFiniteSet(S) /\ Cardinality(S) = n
  BY <1>1, RowFinite
<1>4. \A t \in S : Utils(res)[t] \in Nat
  BY <1>1, <1>2, UtilsNat
<1>5. u \in Nat
  BY <1>1, <1>3, <1>4, SumNat
<1>6. n \in Nat
  BY <1>1, RowSlots
<1>7. n <= TASK_SCHEDULING_LENGTH
  BY <1>1, <1>6, LengthNat DEF RowOk
<1> QED
  BY <1>1, <1>2, <1>3, <1>5, <1>6, <1>7

\* The books of a CPU depend on the parameters of its own tasks only.
LEMMA CpuSame ==
    ASSUME NEW row, NEW n, NEW u, NEW res, NEW S, CpuOk(row, n, u, res, S),
           NEW other \in Rows, \A i \in 0 .. n - 1 : other[i] = row[i],
           NEW new, Agree(res, new, S)
    PROVE  CpuOk(other, n, u, new, S)
<1>1. /\ RowOk(row, n, res, S) /\ Params(res, S) /\ Tested(res, S)
      /\ S \in SUBSET Tasks /\ IsFiniteSet(S) /\ u = Sum(Utils(res), S)
  BY CpuFacts
<1>2. RowOk(other, n, new, S)
  BY <1>1, RowSame
<1>3. Params(new, S)
  BY <1>1 DEF Params, Agree
<1>4. Sum(Utils(new), S) = Sum(Utils(res), S)
  BY <1>1, AgreeSums
<1>5. Tested(new, S)
  BY <1>1, TestedSame
<1> QED
  BY <1>1, <1>2, <1>3, <1>4, <1>5 DEF CpuOk

\* A task leaves the books of a CPU.
LEMMA CpuRemove ==
    ASSUME NEW row, NEW n, NEW u, NEW res, NEW S, CpuOk(row, n, u, res, S),
           NEW pos \in 0 .. n - 1
    PROVE  CpuOk(Shifted(row, n, pos), n - 1, u - res[row[pos]].util, res, S \ {row[pos]})
<1>1. /\ RowOk(row, n, res, S) /\ Params(res, S) /\ Tested(res, S)
      /\ S \in SUBSET Tasks /\ IsFiniteSet(S) /\ u = Sum(Utils(res), S) /\ u \in Nat
  BY CpuFacts
<1> DEFINE t == row[pos]
<1>2. t \in S
  BY <1>1 DEF RowOk
<1>3. RowOk(Shifted(row, n, pos), n - 1, res, S \ {t})
  BY <1>1, ShiftRow
<1> HIDE DEF t
<1>4. Params(res, S \ {t})
  BY <1>1 DEF Params
<1>5. \A s \in S : Utils(res)[s] \in Nat /\ Utils(res)[s] = res[s].util
  BY <1>1, UtilsNat
<1>6. Sum(Utils(res), S) = Utils(res)[t] + Sum(Utils(res), S \ {t})
  BY <1>1, <1>2, <1>5, SumRemove
<1>7. IsFiniteSet(S \ {t})
  BY <1>1, FS_RemoveElement
<1>8. Sum(Utils(res), S \ {t}) \in Nat
  BY <1>5, <1>7, SumNat
<1>9. u - res[t].util = Sum(Utils(res), S \ {t})
  BY <1>1, <1>2, <1>5, <1>6, <1>8
<1>10. S \ {t} \in SUBSET S
  OBVIOUS
<1>11. Tested(res, S \ {t})
  BY <1>1, <1>10, TestedRemove
<1> QED
  BY <1>3, <1>4, <1>9, <1>11 DEF CpuOk, t

\* InsertPos is behind the shorter periods and in front of the longer ones.
LEMMA InsertBetween ==
    ASSUME NEW b, NEW c, NEW S, RowOk(b.tasks[c], b.length[c], b.reserve, S), Params(b.reserve, S),
           NEW t, b.reserve[t].period \in Nat
    PROVE  Between(b.tasks[c], b.length[c], b.reserve, t, InsertPos(b, t, c))
<1> DEFINE row == b.tasks[c]
           n == b.length[c]
           res == b.reserve
           W == {0} \cup {i \in 1 .. n : res[row[i - 1]].period <= res[t].period}
<1>1. InsertPos(b, t, c) = Max(W)
  BY DEF InsertPos, At
<1>2. RowOk(row, n, res, S) /\ Params(res, S) /\ res[t].period \in Nat
  OBVIOUS
<1> HIDE DEF row, res, n
<1>3. n \in Nat
  BY <1>2, RowSlots
<1>4. /\ \A i \in 0 .. n - 1 : res[row[i]].period \in Nat
      /\ \A i, j \in 0 .. n - 1 : i <= j => res[row[i]].period <= res[row[j]].period
  <2>1. \A i \in 0 .. n - 1 : i <= i
    BY <1>3
  <2> QED
    BY <1>2, <2>1, RowSorted
<1>5. Max(W) \in W /\ \A i \in W : i <= Max(W)
  <2>1. W \in SUBSET Nat /\ W # {} /\ \A i \in W : i <= n
    BY <1>3
  <2> HIDE DEF W
  <2> QED
    BY <1>3, <2>1, MaxNat
<1> DEFINE m == Max(W)
<1>6. m \in 0 .. n /\ (m = 0 \/ res[row[m - 1]].period <= res[t].period)
  BY <1>3, <1>5
<1>7. \A i \in 1 .. n : res[row[i - 1]].period <= res[t].period => i <= m
  BY <1>5
<1> HIDE DEF m, W
<1>8. ASSUME NEW i \in 0 .. n - 1, i < m PROVE res[row[i]].period <= res[t].period
  <2>1. m - 1 \in 0 .. n - 1 /\ i <= m - 1 /\ m # 0
    BY <1>3, <1>6, <1>8
  <2>2. /\ res[row[i]].period <= res[row[m - 1]].period
        /\ res[row[i]].period \in Nat /\ res[row[m - 1]].period \in Nat
    BY <1>4, <2>1
  <2> QED
    BY <1>2, <1>6, <2>1, <2>2
<1>9. ASSUME NEW i \in 0 .. n - 1, m <= i PROVE res[t].period <= res[row[i]].period
  <2> SUFFICES ASSUME res[row[i]].period <= res[t].period PROVE FALSE
    BY <1>2, <1>4
  <2>1. i + 1 \in 1 .. n /\ i + 1 - 1 = i
    BY <1>3
  <2>2. i + 1 <= m
    BY <1>7, <2>1
  <2> QED
    BY <1>6, <1>3, <1>9, <2>2
<1> QED
  BY <1>1, <1>6, <1>8, <1>9 DEF Between, row, n, res, m

-------------------------------------------------------------------------------
(***************************************************************************)
(* try_bind and the loops that take a task out of the books.               *)
(***************************************************************************)
\* What Insert makes of each part of the books.
LEMMA InsertIs ==
    ASSUME NEW b \in BookType, NEW c \in CPUs, NEW t, NEW G,
           G = Grown(b.tasks[c], b.length[c], t, InsertPos(b, t, c)), NEW e, e = Insert(b, t, c)
    PROVE  /\ e.tasks = [b.tasks EXCEPT ![c] = G]
           /\ e.length = [b.length EXCEPT ![c] = @ + 1]
           /\ e.util = [b.util EXCEPT ![c] = @ + b.reserve[t].util]
           /\ e.reserve = b.reserve
           /\ e = [tasks |-> e.tasks, length |-> e.length, util |-> e.util, reserve |-> e.reserve]
<1>1. e = [b EXCEPT !.tasks[c] = G, !.length[c] = @ + 1, !.util[c] = @ + b.reserve[t].util]
  BY DEF Insert, Grown
<1>2. b = [tasks |-> b.tasks, length |-> b.length, util |-> b.util, reserve |-> b.reserve]
  BY DEF BookType
<1>3. e.tasks = [b.tasks EXCEPT ![c] = G]
  BY <1>1, <1>2
<1>4. e.length = [b.length EXCEPT ![c] = @ + 1]
  BY <1>1, <1>2
<1>5. e.util = [b.util EXCEPT ![c] = @ + b.reserve[t].util]
  BY <1>1, <1>2
<1>6. e.reserve = b.reserve
  BY <1>1, <1>2
<1>7. e = [tasks |-> e.tasks, length |-> e.length, util |-> e.util, reserve |-> e.reserve]
  BY <1>1, <1>2
<1> QED
  BY <1>3, <1>4, <1>5, <1>6, <1>7

\* The books new have t at pos in the row of CPU c, whose tasks are then S.
Inserted(b, c, t, pos, new, S) ==
    /\ new.tasks \in [CPUs -> Rows]
    /\ new.length \in [CPUs -> 0 .. TASK_SCHEDULING_LENGTH]
    /\ new.util = [b.util EXCEPT ![c] = @ + b.reserve[t].util]
    /\ new.reserve = b.reserve
    /\ new = [tasks |-> new.tasks, length |-> new.length, util |-> new.util, reserve |-> new.reserve]
    /\ \A d \in CPUs \ {c} : new.tasks[d] = b.tasks[d] /\ new.length[d] = b.length[d]
    /\ new.length[c] = b.length[c] + 1
    /\ RowOk(new.tasks[c], new.length[c], new.reserve, S)
    /\ Params(new.reserve, S)
    /\ new.util[c] = Sum(Utils(new.reserve), S)
    /\ Shifted(new.tasks[c], new.length[c], pos) \in Rows
    /\ \A i \in 0 .. b.length[c] - 1 : Shifted(new.tasks[c], new.length[c], pos)[i] = b.tasks[c][i]

\* The books with t in the row of CPU c, before the tests.
LEMMA InsertBooks ==
    ASSUME NEW b, NEW M, BooksOk(b, M), NEW c \in CPUs, NEW t \in Tasks, t \notin M[c],
           Params(b.reserve, {t}), b.length[c] # TASK_SCHEDULING_LENGTH
    PROVE  Inserted(b, c, t, InsertPos(b, t, c), Insert(b, t, c), M[c] \cup {t})
<1> DEFINE row == b.tasks[c]
           n == b.length[c]
           res == b.reserve
           S == M[c]
           pos == InsertPos(b, t, c)
           G == Grown(row, n, t, pos)
           new == Insert(b, t, c)
<1>1. b \in BookType /\ CpuOk(row, n, b.util[c], res, S)
  BY DEF BooksOk
<1>2. /\ RowOk(row, n, res, S) /\ Params(res, S)
      /\ S \in SUBSET Tasks /\ IsFiniteSet(S)
      /\ b.util[c] = Sum(Utils(res), S) /\ b.util[c] \in Nat
      /\ n \in Nat /\ n <= TASK_SCHEDULING_LENGTH
  <2> HIDE DEF row, n, res, S
  <2> QED
    BY <1>1, CpuFacts
<1>3. /\ new.tasks = [b.tasks EXCEPT ![c] = G]
      /\ new.length = [b.length EXCEPT ![c] = n + 1]
      /\ new.util = [b.util EXCEPT ![c] = @ + b.reserve[t].util]
      /\ new.reserve = res
      /\ new = [tasks |-> new.tasks, length |-> new.length, util |-> new.util, reserve |-> new.reserve]
  <2>1. G = Grown(b.tasks[c], b.length[c], t, InsertPos(b, t, c)) /\ new = Insert(b, t, c)
    OBVIOUS
  <2> HIDE DEF G, new
  <2>2. /\ new.tasks = [b.tasks EXCEPT ![c] = G]
        /\ new.length = [b.length EXCEPT ![c] = @ + 1]
        /\ new.util = [b.util EXCEPT ![c] = @ + b.reserve[t].util]
        /\ new.reserve = b.reserve
        /\ new = [tasks |-> new.tasks, length |-> new.length, util |-> new.util, reserve |-> new.reserve]
    BY <1>1, <2>1, InsertIs
  <2> QED
    BY <2>2
<1>4. n < TASK_SCHEDULING_LENGTH /\ n + 1 \in 0 .. TASK_SCHEDULING_LENGTH
  BY <1>2, LengthNat
<1>5. res[t].period \in Nat
  BY DEF Params
<1>6. Between(row, n, res, t, pos)
  BY <1>2, <1>5, InsertBetween
<1> HIDE DEF row, n, res, S, pos
<1>7. /\ RowOk(G, n + 1, res, S \cup {t})
      /\ Shifted(G, n + 1, pos) \in Rows
      /\ \A i \in 0 .. n - 1 : Shifted(G, n + 1, pos)[i] = row[i]
  <2>1. t \notin S
    BY DEF S
  <2> QED
    BY <1>2, <1>4, <1>6, <2>1, GrowRow
<1>8. G \in Rows
  BY <1>7 DEF RowOk, Rows
<1>9. /\ new.tasks \in [CPUs -> Rows]
      /\ new.length \in [CPUs -> 0 .. TASK_SCHEDULING_LENGTH]
      /\ new.tasks[c] = G /\ new.length[c] = n + 1
      /\ \A d \in CPUs \ {c} : new.tasks[d] = b.tasks[d] /\ new.length[d] = b.length[d]
  <2>1. b.tasks \in [CPUs -> Rows] /\ b.length \in [CPUs -> 0 .. TASK_SCHEDULING_LENGTH]
    BY <1>1 DEF BookType
  <2> HIDE DEF new, G
  <2> QED
    BY <2>1, <1>3, <1>4, <1>8
<1>10. Params(res, S \cup {t})
  BY <1>2 DEF Params, res
<1>11. new.util[c] = Sum(Utils(res), S \cup {t})
  <2>1. new.util[c] = b.util[c] + res[t].util
    <3>1. b.util \in [CPUs -> 0 .. UTIL_MULTIPLE]
      BY <1>1 DEF BookType
    <3> HIDE DEF new
    <3> QED
      BY <3>1, <1>3 DEF res
  <2>2. S \cup {t} \in SUBSET Tasks
    BY <1>2
  <2>3. \A s \in S \cup {t} : Utils(res)[s] \in Nat /\ Utils(res)[s] = res[s].util
    BY <1>10, <2>2, UtilsNat
  <2>4. t \notin S
    BY DEF S
  <2>5. Sum(Utils(res), S \cup {t}) = Utils(res)[t] + Sum(Utils(res), S)
    BY <1>2, <2>3, <2>4, SumAdd
  <2> HIDE DEF new
  <2> QED
    BY <1>2, <2>1, <2>3, <2>5
<1> HIDE DEF new, G
<1>12. /\ new.tasks \in [CPUs -> Rows]
       /\ new.length \in [CPUs -> 0 .. TASK_SCHEDULING_LENGTH]
       /\ new.util = [b.util EXCEPT ![c] = @ + b.reserve[t].util]
       /\ new.reserve = b.reserve
       /\ new = [tasks |-> new.tasks, length |-> new.length, util |-> new.util, reserve |-> new.reserve]
       /\ \A d \in CPUs \ {c} : new.tasks[d] = b.tasks[d] /\ new.length[d] = b.length[d]
       /\ new.length[c] = b.length[c] + 1
  BY <1>3, <1>9 DEF res, n
<1>13. /\ RowOk(new.tasks[c], new.length[c], new.reserve, M[c] \cup {t})
       /\ Params(new.reserve, M[c] \cup {t})
       /\ new.util[c] = Sum(Utils(new.reserve), M[c] \cup {t})
  BY <1>3, <1>7, <1>9, <1>10, <1>11 DEF S
<1>14. /\ Shifted(new.tasks[c], new.length[c], pos) \in Rows
       /\ \A i \in 0 .. n - 1 : Shifted(new.tasks[c], new.length[c], pos)[i] = row[i]
  BY <1>7, <1>9
<1> QED
  BY <1>12, <1>13, <1>14 DEF Inserted, new, pos, row, n

\* A CPU with the tasks of S has room for t and passes the tests with it.
Carries(res, S, t) ==
    /\ Cardinality(S) # TASK_SCHEDULING_LENGTH
    /\ Sum(Utils(res), S \cup {t}) <= UTIL_MULTIPLE
    /\ Tested(res, S \cup {t})

\* What a call of try_bind or of a policy's loop leaves behind.
Trial(r, res, M, t) ==
    /\ r.ok \in BOOLEAN
    /\ r.b.reserve = res
    /\ r.ok => r.cpu \in CPUs /\ BooksOk(r.b, [M EXCEPT ![r.cpu] = @ \cup {t}])
    /\ ~r.ok => BooksOk(r.b, M)

\* t can be placed: it is on no CPU of M.
Homeless(res, M, t) ==
    /\ M \in [CPUs -> SUBSET Tasks]
    /\ t \in Tasks /\ \A d \in CPUs : t \notin M[d]
    /\ Params(res, {t})

\* try_bind admits t exactly if there is room and both tests hold of the
\* tasks with t, and leaves the books of a CPU that refuses t as they were.
LEMMA TryBindTrial ==
    ASSUME NEW b, NEW M, NEW t, BooksOk(b, M), Homeless(b.reserve, M, t), NEW c \in CPUs,
           NEW r, r = TryBind(b, t, c)
    PROVE  /\ Trial(r, b.reserve, M, t)
           /\ r.cpu = c
           /\ r.ok <=> Carries(b.reserve, M[c], t)
<1> M \in [CPUs -> SUBSET Tasks] /\ t \in Tasks /\ t \notin M[c] /\ Params(b.reserve, {t})
  BY DEF Homeless
<1> SUFFICES
      /\ r.cpu = c /\ r.ok \in BOOLEAN
      /\ r.b.reserve = b.reserve
      /\ r.ok => BooksOk(r.b, [M EXCEPT ![c] = @ \cup {t}])
      /\ ~r.ok => BooksOk(r.b, M) /\ r.b.util = b.util /\ r.b.length = b.length
      /\ r.ok <=> /\ b.length[c] # TASK_SCHEDULING_LENGTH
                  /\ Sum(Utils(b.reserve), M[c] \cup {t}) <= UTIL_MULTIPLE
                  /\ Tested(b.reserve, M[c] \cup {t})
  <2>1. CpuOk(b.tasks[c], b.length[c], b.util[c], b.reserve, M[c])
    BY DEF BooksOk
  <2>2. b.length[c] = Cardinality(M[c])
    BY <2>1, CpuFacts
  <2> QED
    BY <2>2 DEF Trial, Carries
<1> DEFINE new == Insert(b, t, c)
           pos == InsertPos(b, t, c)
           S == M[c] \cup {t}
           undone == [b EXCEPT !.tasks[c] = Shifted(new.tasks[c], new.length[c], pos)]
           full == b.length[c] = TASK_SCHEDULING_LENGTH \/ b.reserve[t].util + b.util[c] > UTIL_MULTIPLE
           passes == \A j \in UBPrefix(new, c) .. new.length[c] - 1 : PassesRT(new, c, j)
<1>1. r = IF full THEN [ok |-> FALSE, b |-> b, cpu |-> c]
          ELSE IF passes THEN [ok |-> TRUE, b |-> new, cpu |-> c]
          ELSE [ok |-> FALSE, b |-> undone, cpu |-> c]
  BY DEF TryBind
<1>2. /\ b \in BookType
      /\ \A d \in CPUs : CpuOk(b.tasks[d], b.length[d], b.util[d], b.reserve, M[d])
  BY DEF BooksOk
<1>3. /\ b.tasks \in [CPUs -> Rows] /\ b.length \in [CPUs -> 0 .. TASK_SCHEDULING_LENGTH]
      /\ b.util \in [CPUs -> 0 .. UTIL_MULTIPLE] /\ b.reserve \in [Tasks -> Recs]
      /\ b = [tasks |-> b.tasks, length |-> b.length, util |-> b.util, reserve |-> b.reserve]
  BY <1>2 DEF BookType
<1>4. /\ M[c] \in SUBSET Tasks /\ IsFiniteSet(M[c]) /\ b.util[c] = Sum(Utils(b.reserve), M[c]) /\ b.util[c] \in Nat
      /\ Params(b.reserve, M[c])
  BY <1>2, CpuFacts
<1>5. /\ Sum(Utils(b.reserve), S) = b.reserve[t].util + b.util[c]
      /\ Sum(Utils(b.reserve), S) \in Nat /\ b.reserve[t].util \in Nat
  <2>1. Params(b.reserve, S) /\ S \in SUBSET Tasks
    BY <1>4 DEF Params
  <2>2. \A s \in S : Utils(b.reserve)[s] \in Nat /\ Utils(b.reserve)[s] = b.reserve[s].util
    <3> HIDE DEF S
    <3> QED
      BY <2>1, UtilsNat
  <2>3. Sum(Utils(b.reserve), M[c] \cup {t}) = Utils(b.reserve)[t] + Sum(Utils(b.reserve), M[c])
    BY <1>4, <2>2, SumAdd
  <2> QED
    BY <1>4, <2>2, <2>3
<1>6. full <=> ~(b.length[c] # TASK_SCHEDULING_LENGTH /\ Sum(Utils(b.reserve), S) <= UTIL_MULTIPLE)
  BY <1>5 DEF UTIL_MULTIPLE
<1>7. CASE full
  <2>1. r.ok = FALSE /\ r.b = b /\ r.cpu = c
    BY <1>1, <1>7
  <2> HIDE DEF full
  <2> QED
    BY <2>1, <1>6, <1>7
<1>8. CASE ~full
  <2>1. /\ new.tasks \in [CPUs -> Rows]
        /\ new.length \in [CPUs -> 0 .. TASK_SCHEDULING_LENGTH]
        /\ new.util = [b.util EXCEPT ![c] = @ + b.reserve[t].util]
        /\ new.reserve = b.reserve
        /\ new = [tasks |-> new.tasks, length |-> new.length, util |-> new.util, reserve |-> new.reserve]
        /\ \A d \in CPUs \ {c} : new.tasks[d] = b.tasks[d] /\ new.length[d] = b.length[d]
        /\ new.length[c] = b.length[c] + 1
        /\ RowOk(new.tasks[c], new.length[c], new.reserve, S)
        /\ Params(new.reserve, S)
        /\ new.util[c] = Sum(Utils(new.reserve), S)
        /\ Shifted(new.tasks[c], new.length[c], pos) \in Rows
        /\ \A i \in 0 .. b.length[c] - 1 : Shifted(new.tasks[c], new.length[c], pos)[i] = b.tasks[c][i]
    <3>1. b.length[c] # TASK_SCHEDULING_LENGTH
      BY <1>8
    <3> HIDE DEF full
    <3> QED
      <4>1. Inserted(b, c, t, pos, new, S)
        BY <3>1, InsertBooks
      <4> HIDE DEF new, pos, S
      <4> QED
        BY <4>1 DEF Inserted
  <2> HIDE DEF new, pos
  <2>2. passes <=> Tested(b.reserve, S)
    <3>1. passes => Tested(new.reserve, S)
      <4> HIDE DEF S
      <4> QED
        BY <2>1, PassedTested
    <3>2. Tested(new.reserve, S) => passes
      <4> HIDE DEF S
      <4> QED
        BY <2>1, TestedPasses
    <3> QED
      BY <2>1, <3>1, <3>2
  <2>3. CASE passes
    <3>1. r.ok = TRUE /\ r.b = new /\ r.cpu = c
      <4> HIDE DEF full, passes
      <4> QED
        BY <1>1, <1>8, <2>3
    <3>2. new \in BookType
      <4>1. new.util \in [CPUs -> 0 .. UTIL_MULTIPLE]
        <5>1. b.util[c] + b.reserve[t].util \in 0 .. UTIL_MULTIPLE
          <6>1. ~(b.reserve[t].util + b.util[c] > UTIL_MULTIPLE)
            BY <1>8
          <6>2. b.reserve[t].util \in Nat /\ b.util[c] \in Nat
            BY <1>4, <1>5
          <6> DEFINE x == b.reserve[t].util
                     y == b.util[c]
          <6>3. ~(x + y > UTIL_MULTIPLE) /\ x \in Nat /\ y \in Nat
            BY <6>1, <6>2
          <6> HIDE DEF x, y, full
          <6>4. y + x \in 0 .. UTIL_MULTIPLE
            BY <6>3 DEF UTIL_MULTIPLE
          <6> QED
            BY <6>4 DEF x, y
        <5> QED
          BY <5>1, <1>3, <2>1
      <4> QED
        BY <4>1, <1>3, <2>1 DEF BookType
    <3>3. CpuOk(new.tasks[c], new.length[c], new.util[c], new.reserve, S)
      <4> HIDE DEF S, passes
      <4> QED
        BY <2>1, <2>2, <2>3 DEF CpuOk
    <3>4. \A d \in CPUs \ {c} : CpuOk(new.tasks[d], new.length[d], new.util[d], new.reserve, M[d])
      <4>1. \A d \in CPUs \ {c} : new.util[d] = b.util[d]
        BY <1>3, <2>1
      <4> QED
        BY <4>1, <1>2, <2>1
    <3> DEFINE N == [M EXCEPT ![c] = @ \cup {t}]
    <3>5. \A d \in CPUs : N[d] = IF d = c THEN S ELSE M[d]
      OBVIOUS
    <3> HIDE DEF N, S
    <3>6. \A d \in CPUs : CpuOk(new.tasks[d], new.length[d], new.util[d], new.reserve, N[d])
      BY <3>3, <3>4, <3>5
    <3>7. BooksOk(r.b, N)
      BY <3>1, <3>2, <3>6 DEF BooksOk
    <3> HIDE DEF full, passes
    <3> QED
      BY <3>1, <3>7, <1>6, <1>8, <2>1, <2>2, <2>3 DEF S, N
  <2>4. CASE ~passes
    <3>1. r.ok = FALSE /\ r.b = undone /\ r.cpu = c
      <4> HIDE DEF full, passes, undone
      <4> QED
        BY <1>1, <1>8, <2>4
    <3> DEFINE R == Shifted(new.tasks[c], new.length[c], pos)
    <3>2. R \in Rows /\ \A i \in 0 .. b.length[c] - 1 : R[i] = b.tasks[c][i]
      BY <2>1
    <3>3. undone = [b EXCEPT !.tasks[c] = R]
      OBVIOUS
    <3> HIDE DEF undone, R
    <3>4. /\ undone.tasks = [b.tasks EXCEPT ![c] = R] /\ undone.length = b.length
          /\ undone.util = b.util /\ undone.reserve = b.reserve
          /\ undone \in BookType
      BY <1>3, <3>2, <3>3 DEF BookType
    <3>5. undone.tasks[c] = R /\ \A d \in CPUs \ {c} : undone.tasks[d] = b.tasks[d]
      BY <1>3, <3>4
    <3>6. CpuOk(undone.tasks[c], b.length[c], b.util[c], b.reserve, M[c])
      <4>1. Agree(b.reserve, b.reserve, M[c])
        BY DEF Agree
      <4>2. CpuOk(R, b.length[c], b.util[c], b.reserve, M[c])
        BY <4>1, <1>2, <3>2, CpuSame
      <4> QED
        BY <4>2, <3>5
    <3>7. BooksOk(undone, M)
      BY <1>2, <3>4, <3>5, <3>6 DEF BooksOk
    <3> HIDE DEF full, passes
    <3> QED
      BY <3>1, <3>4, <3>7, <2>2, <2>4
  <2> QED
    BY <2>3, <2>4
<1> QED
  BY <1>7, <1>8

\* Of a row, dropping an entry makes a row.
LEMMA ShiftedRows ==
    ASSUME NEW row \in Rows, NEW n \in Nat, n <= TASK_SCHEDULING_LENGTH, NEW pos \in Nat
    PROVE  Shifted(row, n, pos) \in Rows
<1>1. \A i \in Slots : i <= n - 2 => i + 1 \in Slots
  BY LengthNat DEF Slots
<1> QED
  BY <1>1 DEF Shifted, Rows

\* t leaves CPU c of the books b0, in b its parameters may be new already.
Leaves(b0, M, b, t, row, c) ==
    /\ BooksOk(b0, M)
    /\ t \in M[c]
    /\ \A d \in CPUs \ {c} : t \notin M[d]
    /\ row = c \/ b0.tasks[c][b0.length[c] - 1] = t
    /\ b \in BookType
    /\ b.tasks = b0.tasks /\ b.length = b0.length /\ b.util = b0.util
    /\ \A d \in CPUs : Agree(b0.reserve, b.reserve, M[d] \ {t})

\* Where the loop that looks for t stops.
Found(n, row, t) == Min({n} \cup {i \in 0 .. n - 1 : row[i] = t})

\* The loop finds a task that is in the row.
LEMMA FoundAt ==
    ASSUME NEW n \in Nat, NEW row, NEW t, NEW pos, pos = Found(n, row, t)
    PROVE  /\ pos \in 0 .. n
           /\ pos # n => row[pos] = t
           /\ \A i \in 0 .. n - 1 : row[i] = t => pos <= i
<1> DEFINE W == {n} \cup {i \in 0 .. n - 1 : row[i] = t}
<1>1. W \in SUBSET Nat /\ W # {}
  OBVIOUS
<1>2. pos \in W /\ \A i \in W : pos <= i
  <2> HIDE DEF W
  <2>1. Min(W) \in W /\ \A i \in W : Min(W) <= i
    BY <1>1, MinNat
  <2> QED
    BY <2>1 DEF W, Found
<1> QED
  BY <1>2

\* The books without t: also where the row is not its own.
LEMMA UnbookBooks ==
    ASSUME NEW b0, NEW M, NEW b, NEW t, NEW row, NEW c \in CPUs, Leaves(b0, M, b, t, row, c),
           NEW e, e = Unbook(b, t, row, c, b0.reserve[t].util)
    PROVE  /\ BooksOk(e, [d \in CPUs |-> M[d] \ {t}])
           /\ e.reserve = b.reserve
           /\ \A d \in CPUs \ {c} : e.util[d] = b.util[d]
<1> DEFINE n == b.length[c]
           u == b0.reserve[t].util
           pos == Min({n} \cup {i \in 0 .. n - 1 : b.tasks[row][i] = t})
           tasks == IF row \in CPUs THEN [b.tasks EXCEPT ![row] = Shifted(b.tasks[row], n, pos)]
                    ELSE b.tasks
<1>1. /\ b0 \in BookType /\ b \in BookType
      /\ \A d \in CPUs : CpuOk(b.tasks[d], b.length[d], b.util[d], b0.reserve, M[d])
      /\ t \in M[c] /\ \A d \in CPUs \ {c} : t \notin M[d]
      /\ row = c \/ b.tasks[c][b.length[c] - 1] = t
      /\ \A d \in CPUs : Agree(b0.reserve, b.reserve, M[d] \ {t})
  BY DEF Leaves, BooksOk
<1>2. /\ b.tasks \in [CPUs -> Rows] /\ b.length \in [CPUs -> 0 .. TASK_SCHEDULING_LENGTH]
      /\ b.util \in [CPUs -> 0 .. UTIL_MULTIPLE] /\ b.reserve \in [Tasks -> Recs]
      /\ b = [tasks |-> b.tasks, length |-> b.length, util |-> b.util, reserve |-> b.reserve]
  BY <1>1 DEF BookType
<1>3. /\ RowOk(b.tasks[c], n, b0.reserve, M[c]) /\ n \in Nat /\ n <= TASK_SCHEDULING_LENGTH
      /\ Params(b0.reserve, M[c]) /\ b.util[c] \in Nat /\ M[c] \in SUBSET Tasks
      /\ IsFiniteSet(M[c]) /\ b.util[c] = Sum(Utils(b0.reserve), M[c])
  BY <1>1, CpuFacts
<1>4. PICK p \in 0 .. n - 1 : b.tasks[c][p] = t
  BY <1>1, <1>3 DEF RowOk
<1>5. /\ pos \in 0 .. n
      /\ pos # n => b.tasks[row][pos] = t
      /\ \A i \in 0 .. n - 1 : b.tasks[row][i] = t => pos <= i
  <2> DEFINE line == b.tasks[row]
  <2>1. pos = Found(n, line, t)
    BY DEF Found
  <2> HIDE DEF line, pos, n
  <2>2. /\ pos \in 0 .. n
        /\ pos # n => line[pos] = t
        /\ \A i \in 0 .. n - 1 : line[i] = t => pos <= i
    BY <1>3, <2>1, FoundAt
  <2> QED
    BY <2>2 DEF line
<1>6. e = [b EXCEPT !.tasks = tasks, !.length[c] = @ - 1, !.util[c] = @ - u]
  BY DEF Unbook
<1> HIDE DEF pos, tasks, u
<1>7. /\ e.tasks = tasks /\ e.length = [b.length EXCEPT ![c] = @ - 1]
      /\ e.util = [b.util EXCEPT ![c] = @ - u] /\ e.reserve = b.reserve
      /\ e = [tasks |-> e.tasks, length |-> e.length, util |-> e.util, reserve |-> e.reserve]
  <2>1. e.tasks = tasks
    BY <1>2, <1>6
  <2>2. e.length = [b.length EXCEPT ![c] = @ - 1]
    BY <1>2, <1>6
  <2>3. e.util = [b.util EXCEPT ![c] = @ - u]
    BY <1>2, <1>6
  <2>4. e.reserve = b.reserve
    BY <1>2, <1>6
  <2>5. e = [tasks |-> e.tasks, length |-> e.length, util |-> e.util, reserve |-> e.reserve]
    BY <1>2, <1>6
  <2> QED
    BY <2>1, <2>2, <2>3, <2>4, <2>5
<1>8. /\ e.length[c] = n - 1 /\ e.util[c] = b.util[c] - u
      /\ \A d \in CPUs \ {c} : e.length[d] = b.length[d] /\ e.util[d] = b.util[d]
  BY <1>2, <1>7
<1>9. \A d \in CPUs : e.tasks[d] = IF d = row THEN Shifted(b.tasks[d], n, pos) ELSE b.tasks[d]
  BY <1>2, <1>7 DEF tasks
<1>10. e.tasks \in [CPUs -> Rows]
  <2>1. \A d \in CPUs : b.tasks[d] \in Rows
    BY <1>2
  <2>2. \A d \in CPUs : Shifted(b.tasks[d], n, pos) \in Rows
    <3>1. pos \in Nat
      BY <1>3, <1>5
    <3> HIDE DEF n
    <3> QED
      BY <1>3, <2>1, <3>1, ShiftedRows
  <2> QED
    BY <1>2, <1>7, <2>2 DEF tasks
<1>11. CpuOk(e.tasks[c], n - 1, b.util[c] - u, b0.reserve, M[c] \ {t})
  <2>1. CASE row = c
    <3>1. pos \in 0 .. n - 1 /\ b.tasks[c][pos] = t
      BY <1>3, <1>4, <1>5, <2>1
    <3>2. CpuOk(Shifted(b.tasks[c], n, pos), n - 1, b.util[c] - b0.reserve[b.tasks[c][pos]].util,
                b0.reserve, M[c] \ {b.tasks[c][pos]})
      BY <1>1, <3>1, CpuRemove
    <3> QED
      BY <2>1, <3>1, <3>2, <1>9 DEF u
  <2>2. CASE row # c
    <3> DEFINE m == n - 1
    <3>1. m \in 0 .. n - 1 /\ b.tasks[c][m] = t
      BY <1>1, <1>3, <1>4, <2>2
    <3>2. \A i \in 0 .. m - 1 : Shifted(b.tasks[c], n, m)[i] = b.tasks[c][i]
      <4>1. \A i \in 0 .. m - 1 : i \in Slots /\ ~(m <= i)
        BY <1>3, LengthNat DEF Slots
      <4> QED
        BY <4>1 DEF Shifted
    <3> HIDE DEF m
    <3>3. CpuOk(Shifted(b.tasks[c], n, m), n - 1, b.util[c] - b0.reserve[b.tasks[c][m]].util,
                b0.reserve, M[c] \ {b.tasks[c][m]})
      BY <1>1, <3>1, CpuRemove
    <3>4. CpuOk(Shifted(b.tasks[c], n, m), m, b.util[c] - u, b0.reserve, M[c] \ {t})
      BY <3>1, <3>3 DEF u, m
    <3>5. b.tasks[c] \in Rows /\ e.tasks[c] = b.tasks[c]
      BY <1>2, <1>9, <2>2
    <3>6. Agree(b0.reserve, b0.reserve, M[c] \ {t})
      BY DEF Agree
    <3>7. CpuOk(b.tasks[c], m, b.util[c] - u, b0.reserve, M[c] \ {t})
      <4> DEFINE w == b.util[c] - u
                 S == M[c] \ {t}
                 line == Shifted(b.tasks[c], n, m)
      <4>1. CpuOk(line, m, w, b0.reserve, S) /\ Agree(b0.reserve, b0.reserve, S)
        BY <3>4, <3>6
      <4>2. \A i \in 0 .. m - 1 : b.tasks[c][i] = line[i]
        BY <3>2
      <4> HIDE DEF w, S, line
      <4>3. CpuOk(b.tasks[c], m, w, b0.reserve, S)
        BY <3>5, <4>1, <4>2, CpuSame
      <4> QED
        BY <4>3 DEF w, S
    <3> QED
      BY <3>5, <3>7 DEF m
  <2> QED
    BY <2>1, <2>2
<1>12. CpuOk(e.tasks[c], e.length[c], e.util[c], e.reserve, M[c] \ {t})
  <2> DEFINE m == n - 1
             w == b.util[c] - u
             S == M[c] \ {t}
  <2>1. CpuOk(e.tasks[c], m, w, b0.reserve, S) /\ Agree(b0.reserve, b.reserve, S)
    BY <1>1, <1>11
  <2>2. e.tasks[c] \in Rows /\ \A i \in 0 .. m - 1 : e.tasks[c][i] = e.tasks[c][i]
    BY <1>10
  <2> HIDE DEF m, w, S
  <2>3. CpuOk(e.tasks[c], m, w, b.reserve, S)
    BY <2>1, <2>2, CpuSame
  <2> QED
    BY <2>3, <1>7, <1>8 DEF m, w, S
<1>13. ASSUME NEW d \in CPUs \ {c}
       PROVE  CpuOk(e.tasks[d], e.length[d], e.util[d], e.reserve, M[d] \ {t})
  <2>1. /\ CpuOk(b.tasks[d], b.length[d], b.util[d], b0.reserve, M[d])
        /\ t \notin M[d] /\ M[d] \ {t} = M[d] /\ Agree(b0.reserve, b.reserve, M[d])
    BY <1>1
  <2>2. RowOk(b.tasks[d], b.length[d], b0.reserve, M[d]) /\ b.length[d] \in Nat
    BY <2>1, CpuFacts
  <2>3. \A i \in 0 .. b.length[d] - 1 : i \in Slots /\ b.tasks[d][i] # t
    <3>1. \A i \in 0 .. b.length[d] - 1 : i \in Slots
      BY <2>2, RowSlots
    <3> QED
      BY <2>1, <2>2, <3>1 DEF RowOk
  <2>4. \A i \in 0 .. b.length[d] - 1 : e.tasks[d][i] = b.tasks[d][i]
    <3>1. CASE d # row
      BY <1>9, <3>1
    <3>2. CASE d = row
      <4> SUFFICES ASSUME NEW i \in 0 .. b.length[d] - 1
                   PROVE  Shifted(b.tasks[d], n, pos)[i] = b.tasks[d][i]
        BY <1>9, <3>2
      <4>1. ~(pos <= i /\ i <= n - 2)
        <5> SUFFICES ASSUME pos <= i, i <= n - 2 PROVE FALSE
          OBVIOUS
        <5>1. pos # n /\ pos \in 0 .. b.length[d] - 1
          BY <1>3, <1>5, <2>2
        <5> QED
          BY <5>1, <1>5, <2>3, <3>2
      <4> HIDE DEF n
      <4> QED
        BY <2>3, <4>1 DEF Shifted
    <3> QED
      BY <3>1, <3>2
  <2>5. e.tasks[d] \in Rows
    BY <1>10
  <2>6. CpuOk(e.tasks[d], b.length[d], b.util[d], b.reserve, M[d])
    BY <2>1, <2>4, <2>5, CpuSame
  <2> QED
    BY <2>1, <2>6, <1>7, <1>8
<1>14. e \in BookType
  <2>1. e.length \in [CPUs -> 0 .. TASK_SCHEDULING_LENGTH]
    <3>1. n - 1 \in 0 .. TASK_SCHEDULING_LENGTH
      BY <1>3, <1>4, LengthNat
    <3> QED
      BY <1>2, <1>7, <3>1
  <2>2. e.util \in [CPUs -> 0 .. UTIL_MULTIPLE]
    <3>1. e.util[c] \in Nat
      <4> DEFINE S == M[c] \ {t}
      <4>1. CpuOk(e.tasks[c], e.length[c], e.util[c], e.reserve, S)
        BY <1>12
      <4> HIDE DEF S
      <4> QED
        BY <4>1, CpuFacts
    <3>2. u \in Nat
      <4>1. Utils(b0.reserve)[t] \in Nat /\ Utils(b0.reserve)[t] = b0.reserve[t].util
        BY <1>1, <1>3, UtilsNat
      <4> QED
        BY <4>1 DEF u
    <3>3. b.util[c] - u \in 0 .. UTIL_MULTIPLE
      <4> DEFINE x == b.util[c]
      <4>1. x \in 0 .. UTIL_MULTIPLE
        BY <1>2
      <4>2. x - u \in Nat
        BY <3>1, <1>8
      <4> HIDE DEF x
      <4>3. x - u \in 0 .. UTIL_MULTIPLE
        BY <4>1, <4>2, <3>2 DEF UTIL_MULTIPLE
      <4> QED
        BY <4>3 DEF x
    <3> QED
      BY <1>2, <1>7, <3>3
  <2> QED
    BY <1>2, <1>7, <1>10, <2>1, <2>2 DEF BookType
<1> DEFINE N == [d \in CPUs |-> M[d] \ {t}]
<1>15. \A d \in CPUs : N[d] = M[d] \ {t}
  OBVIOUS
<1> HIDE DEF N
<1>16. BooksOk(e, N)
  BY <1>12, <1>13, <1>14, <1>15 DEF BooksOk
<1> QED
  BY <1>7, <1>8, <1>16 DEF N

-------------------------------------------------------------------------------
(***************************************************************************)
(* The loops of the policies and the order in which they look at the CPUs. *)
(***************************************************************************)
\* One turn of the loop of a policy.
LEMMA TurnTrial ==
    ASSUME NEW r, NEW res, NEW M, NEW t, Trial(r, res, M, t), Homeless(res, M, t), NEW c \in CPUs,
           NEW s, s = Turn(r, t, c)
    PROVE  /\ Trial(s, res, M, t)
           /\ r.ok => s = r
           /\ ~r.ok /\ s.ok => s.cpu = c /\ Tries(c)
           /\ ~r.ok /\ ~s.ok /\ Tries(c) => ~Carries(res, M[c], t)
<1>1. CASE r.ok \/ ~Tries(c)
  BY <1>1 DEF Turn
<1>2. CASE ~r.ok /\ Tries(c)
  <2>1. s = TryBind(r.b, t, c)
    BY <1>2 DEF Turn
  <2>2. BooksOk(r.b, M) /\ r.b.reserve = res /\ Homeless(r.b.reserve, M, t)
    BY <1>2 DEF Trial
  <2>3. Trial(s, r.b.reserve, M, t) /\ s.cpu = c /\ (s.ok <=> Carries(r.b.reserve, M[c], t))
    BY <2>1, <2>2, TryBindTrial
  <2> QED
    BY <2>2, <2>3, <1>2
<1> QED
  BY <1>1, <1>2

\* The closed bins that the loop passes, by their place in its order.
Passed(order) == {k \in 1 .. 4 : ~Tries(order[k])}

\* The loop of a policy: it admits the task if an open bin carries it, or
\* if the first closed bin does.
LEMMA SearchTrial ==
    ASSUME NEW b, NEW M, NEW t, BooksOk(b, M), Homeless(b.reserve, M, t),
           NEW order, \A k \in 1 .. 4 : order[k] \in CPUs,
           NEW r, r = Search(b, t, order)
    PROVE  /\ Trial(r, b.reserve, M, t)
           /\ Passed(order) # {} => r.cpu \in CPUs
           /\ ~r.ok => \A k \in 1 .. 4 : Tries(order[k]) => ~Carries(b.reserve, M[order[k]], t)
           /\ ~r.ok /\ Passed(order) # {} => \E k \in Passed(order) : ~Carries(b.reserve, M[order[k]], t)
           /\ r.ok /\ ~Tries(r.cpu) =>
                \A k \in 1 .. 4 : Tries(order[k]) => ~Carries(b.reserve, M[order[k]], t)
<1> DEFINE none == [ok |-> FALSE, b |-> b, cpu |-> -1]
           r1 == Turn(none, t, order[1])
           r2 == Turn(r1, t, order[2])
           r3 == Turn(r2, t, order[3])
           r4 == Turn(r3, t, order[4])
           res == b.reserve
           k1 == Min(Passed(order))
<1>1. r = IF r4.ok \/ Passed(order) = {} THEN r4 ELSE TryBind(r4.b, t, order[k1])
  BY DEF Search, Passed
<1>2. Trial(none, res, M, t) /\ ~none.ok
  BY DEF Trial
<1>3. order[1] \in CPUs /\ order[2] \in CPUs /\ order[3] \in CPUs /\ order[4] \in CPUs
  OBVIOUS
<1> HIDE DEF none, r1, r2, r3, r4, k1, res
<1>4. Homeless(res, M, t) /\ r1 = Turn(none, t, order[1]) /\ r2 = Turn(r1, t, order[2])
      /\ r3 = Turn(r2, t, order[3]) /\ r4 = Turn(r3, t, order[4])
  BY DEF res, r1, r2, r3, r4
<1>5. /\ Trial(r1, res, M, t)
      /\ r1.ok => r1.cpu = order[1] /\ Tries(order[1])
      /\ ~r1.ok /\ Tries(order[1]) => ~Carries(res, M[order[1]], t)
  BY <1>2, <1>3, <1>4, TurnTrial
<1>6. /\ Trial(r2, res, M, t)
      /\ r1.ok => r2 = r1
      /\ ~r1.ok /\ r2.ok => r2.cpu = order[2] /\ Tries(order[2])
      /\ ~r1.ok /\ ~r2.ok /\ Tries(order[2]) => ~Carries(res, M[order[2]], t)
  BY <1>3, <1>4, <1>5, TurnTrial
<1>7. /\ Trial(r3, res, M, t)
      /\ r2.ok => r3 = r2
      /\ ~r2.ok /\ r3.ok => r3.cpu = order[3] /\ Tries(order[3])
      /\ ~r2.ok /\ ~r3.ok /\ Tries(order[3]) => ~Carries(res, M[order[3]], t)
  BY <1>3, <1>4, <1>6, TurnTrial
<1>8. /\ Trial(r4, res, M, t)
      /\ r3.ok => r4 = r3
      /\ ~r3.ok /\ r4.ok => r4.cpu = order[4] /\ Tries(order[4])
      /\ ~r3.ok /\ ~r4.ok /\ Tries(order[4]) => ~Carries(res, M[order[4]], t)
  BY <1>3, <1>4, <1>7, TurnTrial
<1>9. r4.ok => Tries(r4.cpu) /\ r4.cpu \in CPUs
  <2>1. r1.ok \in BOOLEAN /\ r2.ok \in BOOLEAN /\ r3.ok \in BOOLEAN /\ r4.ok \in BOOLEAN
    BY <1>5, <1>6, <1>7, <1>8 DEF Trial
  <2> QED
    BY <2>1, <1>3, <1>5, <1>6, <1>7, <1>8
<1>10. ~r4.ok => \A k \in 1 .. 4 : Tries(order[k]) => ~Carries(res, M[order[k]], t)
  <2>1. ~r4.ok => ~r3.ok /\ ~r2.ok /\ ~r1.ok
    BY <1>6, <1>7, <1>8
  <2>2. \A k \in 1 .. 4 : k = 1 \/ k = 2 \/ k = 3 \/ k = 4
    OBVIOUS
  <2> QED
    BY <2>1, <2>2, <1>5, <1>6, <1>7, <1>8
<1>11. CASE r4.ok \/ Passed(order) = {}
  <2>1. r = r4
    BY <1>1, <1>11
  <2> QED
    BY <2>1, <1>8, <1>9, <1>10, <1>11 DEF res
<1>12. CASE ~r4.ok /\ Passed(order) # {}
  <2>1. r = TryBind(r4.b, t, order[k1])
    BY <1>1, <1>12
  <2>2. k1 \in Passed(order)
    <3>1. Passed(order) \in SUBSET Nat
      BY DEF Passed
    <3> QED
      BY <3>1, <1>12, MinNat DEF k1
  <2>3. order[k1] \in CPUs
    BY <2>2 DEF Passed
  <2>4. BooksOk(r4.b, M) /\ r4.b.reserve = res /\ Homeless(r4.b.reserve, M, t)
    BY <1>4, <1>8, <1>12 DEF Trial
  <2>5. Trial(r, r4.b.reserve, M, t) /\ r.cpu = order[k1] /\ (r.ok <=> Carries(r4.b.reserve, M[order[k1]], t))
    BY <2>1, <2>3, <2>4, TryBindTrial
  <2> QED
    BY <2>2, <2>3, <2>4, <2>5, <1>10, <1>12 DEF res
<1> QED
  BY <1>11, <1>12

\* The order looks at every CPU.
Complete(order) == \A c \in CPUs : \E k \in 1 .. 4 : order[k] = c

\* sortCPU puts CPUs in order, and all of them unless they are used alike:
\* then maxID and minID are the same CPU, and one of the others is left out.
LEMMA SortFacts ==
    ASSUME NEW util, \A c \in CPUs : util[c] \in Nat, NEW ascending \in BOOLEAN
    PROVE  /\ \A k \in 1 .. 4 : sortCPU(util, ascending)[k] \in CPUs
           /\ (\E c, d \in CPUs : util[c] # util[d]) => Complete(sortCPU(util, ascending))
<1> DEFINE A == {c \in CPUs : \A d \in CPUs : util[d] <= util[c]}
           Z == {c \in CPUs : \A d \in CPUs : util[c] <= util[d]}
           maxID == Min(A)
           minID == Min(Z)
           W == CPUs \ {maxID, minID}
           a == Min(W)
           b == Max(W)
           sedMax == IF util[a] > util[b] THEN a ELSE b
           sedMin == IF util[a] > util[b] THEN b ELSE a
<1>1. sortCPU(util, ascending) = IF ascending THEN <<minID, sedMin, sedMax, maxID>>
                                 ELSE <<maxID, sedMax, sedMin, minID>>
  BY DEF sortCPU
<1>2. \A x : x \in CPUs <=> x = 0 \/ x = 1 \/ x = 2 \/ x = 3
  BY DEF CPUs
<1>3. util[0] \in Nat /\ util[1] \in Nat /\ util[2] \in Nat /\ util[3] \in Nat
  BY <1>2
<1>4. A # {} /\ A \in SUBSET Nat
  <2>1. \/ 0 \in A \/ 1 \in A \/ 2 \in A \/ 3 \in A
    BY <1>2, <1>3
  <2> QED
    BY <1>2, <2>1
<1>5. Z # {} /\ Z \in SUBSET Nat
  <2>1. \/ 0 \in Z \/ 1 \in Z \/ 2 \in Z \/ 3 \in Z
    BY <1>2, <1>3
  <2> QED
    BY <1>2, <2>1
<1>6. maxID \in A /\ minID \in Z
  <2> HIDE DEF A, Z
  <2> QED
    BY <1>4, <1>5, MinNat
<1>7. maxID \in CPUs /\ minID \in CPUs
  BY <1>6
<1> HIDE DEF maxID, minID
<1>8. W # {} /\ W \in SUBSET Nat /\ \A x \in W : x <= 3
  BY <1>2
<1>9. a \in W /\ b \in W /\ \A x \in W : a <= x /\ x <= b
  <2> HIDE DEF W
  <2> QED
    BY <1>8, MinNat, MaxNat
<1> HIDE DEF a, b
<1>10. a \in CPUs /\ b \in CPUs /\ sedMax \in CPUs /\ sedMin \in CPUs
  BY <1>9
<1>11. ASSUME \E c, d \in CPUs : util[c] # util[d]
       PROVE  \A c \in CPUs : c = maxID \/ c = minID \/ c = sedMax \/ c = sedMin
  <2>1. maxID # minID
    <3> SUFFICES ASSUME maxID = minID PROVE FALSE
      OBVIOUS
    <3>1. \A d \in CPUs : util[d] <= util[maxID] /\ util[maxID] <= util[d]
      BY <1>6
    <3>2. \A d \in CPUs : util[d] = util[maxID]
      BY <3>1, <1>7
    <3> QED
      BY <3>2, <1>11
  <2>2. \A c \in W : c = a \/ c = b
    BY <1>2, <1>7, <1>9, <2>1
  <2> QED
    BY <2>2
<1> HIDE DEF sedMax, sedMin
<1>12. CASE ascending
  <2> DEFINE o == <<minID, sedMin, sedMax, maxID>>
  <2>1. o[1] = minID /\ o[2] = sedMin /\ o[3] = sedMax /\ o[4] = maxID
    OBVIOUS
  <2>2. sortCPU(util, ascending) = o
    BY <1>1, <1>12
  <2> HIDE DEF o
  <2>3. \A k \in 1 .. 4 : o[k] \in CPUs
    <3>1. \A k \in 1 .. 4 : k = 1 \/ k = 2 \/ k = 3 \/ k = 4
      OBVIOUS
    <3> QED
      BY <2>1, <3>1, <1>7, <1>10
  <2>4. (\E c, d \in CPUs : util[c] # util[d]) => Complete(o)
    BY <2>1, <1>11 DEF Complete
  <2> QED
    BY <2>2, <2>3, <2>4
<1>13. CASE ~ascending
  <2> DEFINE o == <<maxID, sedMax, sedMin, minID>>
  <2>1. o[1] = maxID /\ o[2] = sedMax /\ o[3] = sedMin /\ o[4] = minID
    OBVIOUS
  <2>2. sortCPU(util, ascending) = o
    BY <1>1, <1>13
  <2> HIDE DEF o
  <2>3. \A k \in 1 .. 4 : o[k] \in CPUs
    <3>1. \A k \in 1 .. 4 : k = 1 \/ k = 2 \/ k = 3 \/ k = 4
      OBVIOUS
    <3> QED
      BY <2>1, <3>1, <1>7, <1>10
  <2>4. (\E c, d \in CPUs : util[c] # util[d]) => Complete(o)
    BY <2>1, <1>11 DEF Complete
  <2> QED
    BY <2>2, <2>3, <2>4
<1> QED
  BY <1>12, <1>13

\* First fit and next fit look at every CPU, the others do unless all CPUs
\* are used alike.
LEMMA OrderFacts ==
    ASSUME NEW util, \A c \in CPUs : util[c] \in Nat, NEW last \in CPUs, NEW order, order = Order(util, last)
    PROVE  /\ \A k \in 1 .. 4 : order[k] \in CPUs
           /\ (partition_policy \in {"FFD", "NFD"} \/ \E c, d \in CPUs : util[c] # util[d])
                => Complete(order)
<1>1. CASE partition_policy = "FFD"
  <2> DEFINE o == <<0, 1, 2, 3>>
  <2>1. o[1] = 0 /\ o[2] = 1 /\ o[3] = 2 /\ o[4] = 3
    OBVIOUS
  <2>2. order = o
    BY <1>1 DEF Order
  <2> HIDE DEF o
  <2>3. \A k \in 1 .. 4 : k = 1 \/ k = 2 \/ k = 3 \/ k = 4
    OBVIOUS
  <2>4. \A k \in 1 .. 4 : o[k] \in CPUs
    BY <2>1, <2>3 DEF CPUs
  <2>5. Complete(o)
    BY <2>1 DEF Complete, CPUs
  <2> QED
    BY <2>2, <2>4, <2>5
<1>2. CASE partition_policy = "NFD"
  <2>1. order = [k \in 1 .. 4 |-> (last + k - 1) % 4]
    BY <1>2 DEF Order
  <2>2. \A k \in 1 .. 4 : order[k] = (last + k - 1) % 4
    BY <2>1
  <2>3. last = 0 \/ last = 1 \/ last = 2 \/ last = 3
    BY DEF CPUs
  <2>4. \A k \in 1 .. 4 : order[k] \in CPUs
    BY <2>2, <2>3 DEF CPUs
  <2>5. Complete(order)
    <3>1. /\ order[1] = last /\ order[2] = (last + 1) % 4
          /\ order[3] = (last + 2) % 4 /\ order[4] = (last + 3) % 4
      BY <2>2, <2>3
    <3>2. \A c \in CPUs : c = last \/ c = (last + 1) % 4 \/ c = (last + 2) % 4 \/ c = (last + 3) % 4
      BY <2>3 DEF CPUs
    <3> QED
      BY <3>1, <3>2 DEF Complete
  <2> QED
    BY <2>4, <2>5
<1>3. CASE partition_policy \notin {"FFD", "NFD"}
  <2>1. PICK asc \in BOOLEAN : order = sortCPU(util, asc)
    BY <1>3 DEF Order
  <2> QED
    BY <1>3, <2>1, SortFacts
<1> QED
  BY <1>1, <1>2, <1>3

-------------------------------------------------------------------------------
(***************************************************************************)
(* The inductive invariant, and what set_reserve does before it knows      *)
(* whether the task is admitted.                                           *)
(***************************************************************************)
\* The tasks on each CPU, with and without t.
Bound == [c \in CPUs |-> Reserved(c)]

Without(t) == [c \in CPUs |-> Reserved(c) \ {t}]

\* The same books for reserve structures that agree on the bound tasks.
LEMMA Rebook ==
    ASSUME NEW b, NEW M, BooksOk(b, M), NEW res \in [Tasks -> Recs],
           \A c \in CPUs : Agree(b.reserve, res, M[c]),
           NEW e, e = [tasks |-> b.tasks, length |-> b.length, util |-> b.util, reserve |-> res]
    PROVE  BooksOk(e, M)
<1>1. /\ b \in BookType
      /\ \A c \in CPUs : CpuOk(b.tasks[c], b.length[c], b.util[c], b.reserve, M[c])
  BY DEF BooksOk
<1>2. e.tasks = b.tasks /\ e.length = b.length /\ e.util = b.util /\ e.reserve = res
  OBVIOUS
<1>3. e \in BookType
  BY <1>1 DEF BookType
<1>4. ASSUME NEW c \in CPUs
      PROVE  CpuOk(e.tasks[c], e.length[c], e.util[c], e.reserve, M[c])
  <2>1. CpuOk(b.tasks[c], b.length[c], b.util[c], b.reserve, M[c]) /\ Agree(b.reserve, res, M[c])
    BY <1>1
  <2>2. b.tasks[c] \in Rows /\ \A i \in 0 .. b.length[c] - 1 : b.tasks[c][i] = b.tasks[c][i]
    BY <1>1 DEF BookType
  <2>3. CpuOk(b.tasks[c], b.length[c], b.util[c], res, M[c])
    BY <2>1, <2>2, CpuSame
  <2> HIDE <1>2
  <2> QED
    BY <2>3, <1>2
<1> QED
  BY <1>3, <1>4 DEF BooksOk

\* The same tasks with the same parameters make the same utilizations.
LEMMA UtilSame ==
    ASSUME NEW b, NEW e, NEW M, BooksOk(b, M), BooksOk(e, M),
           \A c \in CPUs : Agree(b.reserve, e.reserve, M[c])
    PROVE  e.util = b.util
<1>1. e.util \in [CPUs -> 0 .. UTIL_MULTIPLE] /\ b.util \in [CPUs -> 0 .. UTIL_MULTIPLE]
  BY DEF BooksOk, BookType
<1>2. ASSUME NEW c \in CPUs PROVE e.util[c] = b.util[c]
  <2>1. /\ CpuOk(b.tasks[c], b.length[c], b.util[c], b.reserve, M[c])
        /\ CpuOk(e.tasks[c], e.length[c], e.util[c], e.reserve, M[c])
    BY DEF BooksOk
  <2>2. /\ b.util[c] = Sum(Utils(b.reserve), M[c]) /\ e.util[c] = Sum(Utils(e.reserve), M[c])
        /\ M[c] \in SUBSET Tasks /\ IsFiniteSet(M[c]) /\ Params(b.reserve, M[c])
    BY <2>1, CpuFacts
  <2> QED
    BY <2>2, AgreeSums
<1> QED
  BY <1>1, <1>2

\* The variables that are not in the books.
RestOk ==
    /\ alive \subseteq Tasks
    /\ online \subseteq CPUs
    /\ freq \in 0 .. SYSCLOCK_MAX_FREQ
    /\ partition_policy \in Policies \cup {"NFD"}
    /\ lastCpuID \in [create : CPUs, revise : CPUs]

\* The inductive invariant: the books of every CPU are those of the tasks
\* reserved on it, each of which passed the tests, and a bin is open exactly
\* if its CPU is used.
IInv ==
    /\ RestOk
    /\ BooksOk(Books, Bound)
    /\ cpu_open = Reopen(cpu_util)

\* What the invariant says of the variables.
LEMMA BooksFacts ==
    ASSUME IInv
    PROVE  /\ Books = [tasks |-> cpu_tasks, length |-> cpu_tasks_length, util |-> cpu_util, reserve |-> reserve]
           /\ Books.tasks = cpu_tasks /\ Books.length = cpu_tasks_length
           /\ Books.util = cpu_util /\ Books.reserve = reserve
           /\ cpu_tasks \in [CPUs -> Rows]
           /\ cpu_tasks_length \in [CPUs -> 0 .. TASK_SCHEDULING_LENGTH]
           /\ cpu_util \in [CPUs -> 0 .. UTIL_MULTIPLE]
           /\ reserve \in [Tasks -> Recs]
           /\ \A c \in CPUs : /\ Bound[c] = Reserved(c)
                              /\ CpuOk(cpu_tasks[c], cpu_tasks_length[c], cpu_util[c], reserve, Reserved(c))
<1>1. Books = [tasks |-> cpu_tasks, length |-> cpu_tasks_length, util |-> cpu_util, reserve |-> reserve]
  BY DEF Books
<1>2. /\ Books.tasks = cpu_tasks /\ Books.length = cpu_tasks_length
      /\ Books.util = cpu_util /\ Books.reserve = reserve
  BY <1>1
<1>3. \A c \in CPUs : Bound[c] = Reserved(c)
  BY DEF Bound
<1>4. Books \in BookType /\ \A c \in CPUs : CpuOk(Books.tasks[c], Books.length[c], Books.util[c], Books.reserve, Bound[c])
  BY DEF IInv, BooksOk
<1>5. /\ Books.tasks \in [CPUs -> Rows]
      /\ Books.length \in [CPUs -> 0 .. TASK_SCHEDULING_LENGTH]
      /\ Books.util \in [CPUs -> 0 .. UTIL_MULTIPLE]
      /\ Books.reserve \in [Tasks -> Recs]
  BY <1>4 DEF BookType
<1> QED
  BY <1>1, <1>2, <1>3, <1>4, <1>5

\* The reserve structures with the parameters of a request.
Revised(rq) ==
    [reserve EXCEPT ![rq.t] = [@ EXCEPT !.budget = rq.C, !.period = rq.T,
                                        !.util = (rq.C * UTIL_MULTIPLE) \div rq.T]]

\* What a request asks for.
LEMMA RequestFacts ==
    ASSUME NEW rq \in Requests
    PROVE  /\ rq.t \in Tasks /\ rq.C \in Nat \ {0} /\ rq.T \in Nat \ {0}
           /\ rq.cpuid \in -1 .. 3
           /\ (rq.C * UTIL_MULTIPLE) \div rq.T \in Nat
<1>1. rq \in [t : Tasks, C : Nat \ {0}, T : Nat \ {0}, cpuid : -1 .. 3]
  BY AdmissionAssumption
<1>2. rq.t \in Tasks /\ rq.C \in Nat \ {0} /\ rq.T \in Nat \ {0} /\ rq.cpuid \in -1 .. 3
  BY <1>1
<1>3. (rq.C * UTIL_MULTIPLE) \div rq.T \in Nat
  <2> DEFINE C == rq.C
             T == rq.T
  <2>1. C \in Nat /\ T \in Nat \ {0} /\ 0 \in Nat
    BY <1>2
  <2> HIDE DEF C, T
  <2>2. (C * UTIL_MULTIPLE) \div T \in Nat
    BY <2>1, DemandUtil
  <2> QED
    BY <2>2 DEF C, T
<1> QED
  BY <1>2, <1>3

\* What set_reserve stores of a request.
LEMMA RevisedFacts ==
    ASSUME reserve \in [Tasks -> Recs], NEW rq \in Requests
    PROVE  /\ Revised(rq) \in [Tasks -> Recs]
           /\ \A s \in Tasks \ {rq.t} : Revised(rq)[s] = reserve[s]
           /\ Revised(rq)[rq.t].flag = reserve[rq.t].flag
           /\ Revised(rq)[rq.t].cpu = reserve[rq.t].cpu
           /\ Revised(rq)[rq.t].budget = rq.C /\ Revised(rq)[rq.t].period = rq.T
           /\ Revised(rq)[rq.t].util = (rq.C * UTIL_MULTIPLE) \div rq.T
           /\ Params(Revised(rq), {rq.t})
<1> DEFINE u == (rq.C * UTIL_MULTIPLE) \div rq.T
           t == rq.t
           x == [reserve[t] EXCEPT !.budget = rq.C, !.period = rq.T, !.util = u]
<1>1. t \in Tasks /\ rq.C \in Nat \ {0} /\ rq.T \in Nat \ {0} /\ u \in Nat
  BY RequestFacts
<1>2. Revised(rq) = [reserve EXCEPT ![t] = x]
  BY DEF Revised
<1> HIDE DEF u, t
<1>3. reserve[t] \in Recs
  BY <1>1
<1>4. /\ x \in Recs /\ x.flag = reserve[t].flag /\ x.cpu = reserve[t].cpu
      /\ x.budget = rq.C /\ x.period = rq.T /\ x.util = u
  BY <1>1, <1>3 DEF Recs
<1> HIDE DEF x
<1>5. /\ Revised(rq) \in [Tasks -> Recs] /\ Revised(rq)[t] = x
      /\ \A s \in Tasks \ {t} : Revised(rq)[s] = reserve[s]
  BY <1>1, <1>2, <1>4
<1>6. Params(Revised(rq), {t})
  BY <1>1, <1>4, <1>5 DEF Params, u
<1> QED
  BY <1>4, <1>5, <1>6 DEF u, t

\* A reserved task is on one CPU.
LEMMA ReservedFacts ==
    ASSUME RestOk, reserve \in [Tasks -> Recs], NEW t \in alive
    PROVE  /\ t \in Tasks /\ reserve[t].cpu \in CPUs /\ reserve[t].flag \in BOOLEAN
           /\ \A c \in CPUs : t \in Reserved(c) <=> reserve[t].flag /\ c = reserve[t].cpu
<1>1. t \in Tasks
  BY DEF RestOk
<1>2. reserve[t] \in Recs
  BY <1>1
<1> QED
  BY <1>1, <1>2 DEF Reserved, Recs

\* The books when set_reserve begins to place t.
LEMMA PlacingBooks ==
    ASSUME IInv, ~AnyRevise, NEW rq \in Requests, Calls(rq), NEW b, b = Placing(rq)
    PROVE  /\ BooksOk(b, Without(rq.t))
           /\ b.reserve = Revised(rq)
           /\ Homeless(Revised(rq), Without(rq.t), rq.t)
           /\ ~reserve[rq.t].flag => b.util = cpu_util
<1> DEFINE t == rq.t
           old == reserve[t]
           b1 == [Books EXCEPT !.reserve[t] =
                    [@ EXCEPT !.budget = rq.C, !.period = rq.T,
                              !.util = (rq.C * UTIL_MULTIPLE) \div rq.T]]
<1>1. b = IF old.flag THEN Unbook(b1, t, rq.cpuid, old.cpu, old.util) ELSE b1
  BY DEF Placing
<1>2. /\ Books = [tasks |-> cpu_tasks, length |-> cpu_tasks_length, util |-> cpu_util, reserve |-> reserve]
      /\ Books.tasks = cpu_tasks /\ Books.length = cpu_tasks_length
      /\ Books.util = cpu_util /\ Books.reserve = reserve
      /\ cpu_tasks \in [CPUs -> Rows]
      /\ cpu_tasks_length \in [CPUs -> 0 .. TASK_SCHEDULING_LENGTH]
      /\ cpu_util \in [CPUs -> 0 .. UTIL_MULTIPLE]
      /\ reserve \in [Tasks -> Recs]
      /\ \A c \in CPUs : /\ Bound[c] = Reserved(c)
                         /\ CpuOk(cpu_tasks[c], cpu_tasks_length[c], cpu_util[c], reserve, Reserved(c))
  BY BooksFacts
<1>3. RestOk /\ BooksOk(Books, Bound) /\ t \in alive
  BY DEF IInv, Calls
<1>4. /\ t \in Tasks /\ old.cpu \in CPUs /\ old.flag \in BOOLEAN
      /\ \A c \in CPUs : t \in Reserved(c) <=> old.flag /\ c = old.cpu
  BY <1>2, <1>3, ReservedFacts
<1>5. /\ Revised(rq) \in [Tasks -> Recs] /\ \A s \in Tasks \ {t} : Revised(rq)[s] = reserve[s]
      /\ Params(Revised(rq), {t})
  BY <1>2, RevisedFacts
<1>6. b1 = [tasks |-> cpu_tasks, length |-> cpu_tasks_length, util |-> cpu_util, reserve |-> Revised(rq)]
  BY <1>2, <1>4 DEF Revised
<1>7. \A c \in CPUs : Reserved(c) \in SUBSET Tasks
  BY <1>3 DEF Reserved, RestOk
<1>8. \A c \in CPUs : Agree(reserve, Revised(rq), Reserved(c) \ {t})
  BY <1>5, <1>7 DEF Agree
<1> DEFINE M == Without(t)
<1>9. M \in [CPUs -> SUBSET Tasks] /\ \A c \in CPUs : M[c] = Reserved(c) \ {t}
  BY <1>7 DEF Without
<1>10. Homeless(Revised(rq), M, t)
  <2> HIDE DEF M
  <2> QED
    BY <1>4, <1>5, <1>9 DEF Homeless
<1> HIDE DEF b1
<1>11. /\ b1.tasks = cpu_tasks /\ b1.length = cpu_tasks_length /\ b1.util = cpu_util
       /\ b1.reserve = Revised(rq) /\ b1 \in BookType
  BY <1>2, <1>5, <1>6 DEF BookType
<1>12. CASE old.flag
  <2>1. b = Unbook(b1, t, rq.cpuid, old.cpu, Books.reserve[t].util)
    BY <1>1, <1>2, <1>12
  <2>2. rq.cpuid = old.cpu \/ cpu_tasks[old.cpu][cpu_tasks_length[old.cpu] - 1] = t
    BY <1>12 DEF Calls
  <2> DEFINE c == old.cpu
  <2>3. Leaves(Books, Bound, b1, t, rq.cpuid, c)
    <3>1. t \in Bound[c] /\ \A d \in CPUs \ {c} : t \notin Bound[d]
      BY <1>2, <1>4, <1>12
    <3>2. rq.cpuid = c \/ Books.tasks[c][Books.length[c] - 1] = t
      BY <2>2, <1>2
    <3>3. \A d \in CPUs : Agree(Books.reserve, b1.reserve, Bound[d] \ {t})
      BY <1>2, <1>8, <1>11
    <3> QED
      BY <1>2, <1>3, <1>11, <3>1, <3>2, <3>3 DEF Leaves
  <2>4. c \in CPUs
    BY <1>4
  <2> HIDE DEF c, t
  <2>5. BooksOk(b, [d \in CPUs |-> Bound[d] \ {t}]) /\ b.reserve = b1.reserve
    BY <2>1, <2>3, <2>4, UnbookBooks DEF c
  <2>6. [d \in CPUs |-> Bound[d] \ {t}] = Without(t)
    BY <1>2 DEF Without
  <2>7. BooksOk(b, Without(t))
    BY <2>5, <2>6
  <2> QED
    BY <2>5, <2>7, <1>10, <1>11, <1>12 DEF t
<1>13. CASE ~old.flag
  <2>1. b = b1
    BY <1>1, <1>13
  <2>2. \A c \in CPUs : Reserved(c) \ {t} = Bound[c]
    BY <1>2, <1>4, <1>13
  <2>3. \A c \in CPUs : Agree(Books.reserve, Revised(rq), Bound[c])
    BY <1>2, <1>8, <2>2
  <2>4. b1 = [tasks |-> Books.tasks, length |-> Books.length, util |-> Books.util, reserve |-> Revised(rq)]
    BY <1>2, <1>6
  <2>5. BooksOk(b1, Bound)
    BY <1>3, <1>5, <2>3, <2>4, Rebook
  <2>6. Bound = M
    BY <2>2 DEF Without, Bound
  <2> QED
    BY <2>1, <2>5, <2>6, <1>10, <1>11
<1> QED
  BY <1>4, <1>12, <1>13

\* 100% as a number.
LEMMA UtilMultiple == UTIL_MULTIPLE \in Nat
  BY DEF UTIL_MULTIPLE

\* The order in which a request without a CPU looks for one.
OrderOf(rq) == Order(Placing(rq).util, lastCpuID[Kind(rq.t)])

\* It consists of CPUs, for first and next fit of all of them, and for the
\* others too if two CPUs are used differently.
LEMMA PlaceOrder ==
    ASSUME IInv, ~AnyRevise, NEW rq \in Requests, Calls(rq)
    PROVE  /\ \A k \in 1 .. 4 : OrderOf(rq)[k] \in CPUs
           /\ partition_policy \in {"FFD", "NFD"} => Complete(OrderOf(rq))
           /\ ~reserve[rq.t].flag /\ (\E c, d \in CPUs : cpu_util[c] # cpu_util[d]) => Complete(OrderOf(rq))
<1> DEFINE b == Placing(rq)
           last == lastCpuID[Kind(rq.t)]
           order == OrderOf(rq)
<1>1. BooksOk(b, Without(rq.t)) /\ (~reserve[rq.t].flag => b.util = cpu_util)
  BY PlacingBooks
<1>2. last \in CPUs
  <2>1. lastCpuID \in [create : CPUs, revise : CPUs]
    BY DEF IInv, RestOk
  <2>2. lastCpuID["create"] \in CPUs /\ lastCpuID["revise"] \in CPUs
    BY <2>1
  <2> QED
    BY <2>2 DEF Kind
<1>3. \A c \in CPUs : b.util[c] \in Nat
  <2> HIDE DEF b
  <2>1. b.util \in [CPUs -> 0 .. UTIL_MULTIPLE]
    BY <1>1 DEF BooksOk, BookType
  <2> QED
    BY <2>1, UtilMultiple
<1>4. order = Order(b.util, last)
  BY DEF OrderOf
<1> HIDE DEF b, last, order
<1>5. /\ \A k \in 1 .. 4 : order[k] \in CPUs
      /\ (partition_policy \in {"FFD", "NFD"} \/ \E c, d \in CPUs : b.util[c] # b.util[d]) => Complete(order)
  <2> DEFINE util == b.util
  <2>1. (\A c \in CPUs : util[c] \in Nat) /\ order = Order(util, last)
    BY <1>3, <1>4
  <2> HIDE DEF util
  <2>2. /\ \A k \in 1 .. 4 : order[k] \in CPUs
        /\ (partition_policy \in {"FFD", "NFD"} \/ \E c, d \in CPUs : util[c] # util[d]) => Complete(order)
    BY <2>1, <1>2, OrderFacts
  <2> QED
    BY <2>2 DEF util
<1> QED
  BY <1>1, <1>5 DEF order

\* Placing the task of a request.
LEMMA PlaceTrial ==
    ASSUME IInv, ~AnyRevise, NEW rq \in Requests, Calls(rq), NEW p, p = Place(rq)
    PROVE  /\ Trial(p, Revised(rq), Without(rq.t), rq.t)
           /\ NextFit(rq) \in [create : CPUs, revise : CPUs]
<1> DEFINE b == Placing(rq)
           t == rq.t
           M == Without(t)
           order == OrderOf(rq)
<1>1. BooksOk(b, M) /\ b.reserve = Revised(rq) /\ Homeless(b.reserve, M, t)
  BY PlacingBooks
<1>2. p = IF rq.cpuid = -1 THEN Search(b, t, order) ELSE TryBind(b, t, rq.cpuid)
  BY DEF Place, OrderOf
<1>3. \A k \in 1 .. 4 : order[k] \in CPUs
  BY PlaceOrder
<1>4. partition_policy = "NFD" => Complete(order)
  BY PlaceOrder
<1>5. lastCpuID \in [create : CPUs, revise : CPUs] /\ Kind(t) \in {"create", "revise"}
  BY DEF IInv, RestOk, Kind
<1>6. NextFit(rq) = IF rq.cpuid = -1 /\ partition_policy = "NFD" /\ (p.ok \/ \E c \in CPUs : ~cpu_open[c])
                    THEN [lastCpuID EXCEPT ![Kind(t)] = p.cpu] ELSE lastCpuID
  BY DEF NextFit
<1> HIDE DEF b, order, M, t
<1>7. CASE rq.cpuid = -1
  <2>1. p = Search(b, t, order)
    BY <1>2, <1>7
  <2>2. Trial(p, b.reserve, M, t) /\ (Passed(order) # {} => p.cpu \in CPUs)
    BY <1>1, <1>3, <2>1, SearchTrial
  <2>3. ASSUME partition_policy = "NFD", p.ok \/ \E c \in CPUs : ~cpu_open[c] PROVE p.cpu \in CPUs
    <3>1. CASE p.ok
      BY <2>2, <3>1 DEF Trial
    <3>2. ASSUME NEW c \in CPUs, ~cpu_open[c] PROVE Passed(order) # {}
      <4>1. PICK k \in 1 .. 4 : order[k] = c
        BY <1>4, <2>3 DEF Complete
      <4>2. ~Tries(order[k])
        BY <2>3, <3>2, <4>1 DEF Tries
      <4> QED
        BY <4>2 DEF Passed
    <3> QED
      BY <2>2, <2>3, <3>1, <3>2
  <2>4. NextFit(rq) \in [create : CPUs, revise : CPUs]
    BY <1>5, <1>6, <2>3
  <2> QED
    BY <1>1, <2>2, <2>4 DEF M, t
<1>8. CASE rq.cpuid # -1
  <2>1. rq.cpuid \in CPUs /\ p = TryBind(b, t, rq.cpuid)
    BY <1>2, <1>8, RequestFacts DEF CPUs
  <2>2. Trial(p, b.reserve, M, t)
    BY <1>1, <2>1, TryBindTrial
  <2> QED
    BY <1>1, <1>5, <1>6, <1>8, <2>2 DEF M, t
<1> QED
  BY <1>7, <1>8

\* The fields that say where a task is are as in the current state.
SamePlaces(res) == \A s \in Tasks : res[s].flag = reserve[s].flag /\ res[s].cpu = reserve[s].cpu

\* Undoing a call that fails: the task goes back where it was, and try_bind
\* cannot refuse it.
LEMMA PutBackBooks ==
    ASSUME IInv, NEW t \in alive, NEW b, BooksOk(b, Without(t)),
           \A s \in Tasks \ {t} : b.reserve[s] = reserve[s], SamePlaces(b.reserve),
           NEW e, e = PutBack(b, t)
    PROVE  /\ BooksOk(e, Bound) /\ e.util = cpu_util
           /\ SamePlaces(e.reserve)
           /\ reserve[t].flag => e.reserve = reserve
           /\ ~reserve[t].flag => e.reserve = b.reserve
<1>1. /\ Books.reserve = reserve /\ Books.util = cpu_util
      /\ cpu_util \in [CPUs -> 0 .. UTIL_MULTIPLE]
      /\ reserve \in [Tasks -> Recs]
      /\ \A c \in CPUs : /\ Bound[c] = Reserved(c)
                         /\ CpuOk(cpu_tasks[c], cpu_tasks_length[c], cpu_util[c], reserve, Reserved(c))
  BY BooksFacts
<1>2. RestOk /\ BooksOk(Books, Bound)
  BY DEF IInv
<1>3. /\ t \in Tasks /\ reserve[t].cpu \in CPUs /\ reserve[t].flag \in BOOLEAN
      /\ \A c \in CPUs : t \in Reserved(c) <=> reserve[t].flag /\ c = reserve[t].cpu
  BY <1>1, <1>2, ReservedFacts
<1>4. \A c \in CPUs : Reserved(c) \in SUBSET Tasks
  BY <1>2 DEF Reserved, RestOk
<1> DEFINE M == Without(t)
<1>5. M \in [CPUs -> SUBSET Tasks] /\ \A c \in CPUs : M[c] = Reserved(c) \ {t}
  BY <1>4 DEF Without
<1>6. /\ b.reserve \in [Tasks -> Recs]
      /\ b = [tasks |-> b.tasks, length |-> b.length, util |-> b.util, reserve |-> b.reserve]
  BY DEF BooksOk, BookType
<1> HIDE DEF M
<1>7. BooksOk(b, M)
  BY DEF M
<1>8. CASE ~reserve[t].flag
  <2>1. e = b
    BY <1>8 DEF PutBack
  <2>2. Bound = M
    BY <1>3, <1>5, <1>8 DEF Bound, Without, M
  <2>3. \A c \in CPUs : Agree(Books.reserve, b.reserve, Bound[c])
    BY <1>1, <1>3, <1>4, <1>8 DEF Agree
  <2>4. BooksOk(b, Bound)
    BY <1>7, <2>2
  <2>5. b.util = Books.util
    BY <1>2, <2>3, <2>4, UtilSame
  <2> QED
    BY <1>1, <1>8, <2>1, <2>4, <2>5
<1>9. CASE reserve[t].flag
  <2> DEFINE b2 == [b EXCEPT !.reserve[t] = reserve[t]]
             c == reserve[t].cpu
             r == TryBind(b2, t, c)
  <2>1. e = r.b
    BY <1>9 DEF PutBack
  <2>2. b2 = [tasks |-> b.tasks, length |-> b.length, util |-> b.util, reserve |-> reserve]
    <3>1. [b.reserve EXCEPT ![t] = reserve[t]] = reserve
      BY <1>1, <1>3, <1>6
    <3>2. b2 = [tasks |-> b.tasks, length |-> b.length, util |-> b.util,
                reserve |-> [b.reserve EXCEPT ![t] = reserve[t]]]
      BY <1>6
    <3> HIDE DEF b2
    <3> QED
      BY <3>1, <3>2
  <2> HIDE DEF b2
  <2>3. b2.reserve = reserve
    BY <2>2
  <2>4. \A d \in CPUs : Agree(b.reserve, reserve, M[d])
    BY <1>4, <1>5 DEF Agree
  <2>5. BooksOk(b2, M)
    BY <1>1, <1>7, <2>2, <2>4, Rebook
  <2>6. c \in CPUs /\ t \in Reserved(c) /\ \A d \in CPUs \ {c} : t \notin Reserved(d)
    BY <1>3, <1>9
  <2> HIDE DEF c
  <2>7. /\ Params(reserve, Reserved(c)) /\ Tested(reserve, Reserved(c))
        /\ IsFiniteSet(Reserved(c)) /\ Cardinality(Reserved(c)) = cpu_tasks_length[c]
        /\ cpu_util[c] = Sum(Utils(reserve), Reserved(c))
        /\ cpu_tasks_length[c] \in Nat /\ cpu_tasks_length[c] <= TASK_SCHEDULING_LENGTH
    <3>1. CpuOk(cpu_tasks[c], cpu_tasks_length[c], cpu_util[c], reserve, Reserved(c))
      BY <1>1, <2>6
    <3> HIDE DEF Reserved
    <3> QED
      BY <3>1, CpuFacts
  <2>8. Homeless(b2.reserve, M, t)
    <3>1. Params(reserve, {t})
      BY <2>6, <2>7 DEF Params
    <3> QED
      BY <1>3, <1>5, <2>3, <3>1 DEF Homeless
  <2>9. Carries(b2.reserve, M[c], t)
    <3>1. M[c] \cup {t} = Reserved(c) /\ M[c] = Reserved(c) \ {t}
      BY <1>5, <2>6
    <3>2. Cardinality(M[c]) # TASK_SCHEDULING_LENGTH
      <4>1. Cardinality(Reserved(c) \ {t}) = Cardinality(Reserved(c)) - 1
        BY <2>6, <2>7, FS_RemoveElement
      <4> QED
        BY <3>1, <4>1, <2>7, LengthNat
    <3>3. cpu_util[c] \in 0 .. UTIL_MULTIPLE
      BY <1>1, <2>6
    <3>4. cpu_util[c] <= UTIL_MULTIPLE
      BY <3>3, UtilMultiple
    <3> QED
      BY <2>3, <2>7, <3>1, <3>2, <3>4 DEF Carries
  <2> HIDE DEF r
  <2>10. Trial(r, b2.reserve, M, t) /\ r.cpu = c /\ r.ok
    BY <2>5, <2>6, <2>8, <2>9, TryBindTrial DEF r
  <2>11. BooksOk(e, [M EXCEPT ![c] = @ \cup {t}]) /\ e.reserve = reserve
    BY <2>1, <2>3, <2>10 DEF Trial
  <2>12. [M EXCEPT ![c] = @ \cup {t}] = Bound
    <3> DEFINE N == [M EXCEPT ![c] = @ \cup {t}]
    <3>1. DOMAIN N = CPUs /\ N = [d \in CPUs |-> N[d]]
      BY <1>5
    <3>2. \A d \in CPUs : N[d] = IF d = c THEN M[c] \cup {t} ELSE M[d]
      BY <1>5
    <3> HIDE DEF N
    <3>3. \A d \in CPUs : N[d] = Reserved(d)
      <4>1. M[c] \cup {t} = Reserved(c)
        BY <1>5, <2>6
      <4>2. \A d \in CPUs \ {c} : M[d] = Reserved(d)
        BY <1>5, <2>6
      <4> QED
        BY <3>2, <4>1, <4>2
    <3>4. N = Bound
      BY <3>1, <3>3 DEF Bound
    <3> QED
      BY <3>4 DEF N
  <2>13. BooksOk(e, Bound)
    BY <2>11, <2>12
  <2>14. e.util = Books.util
    <3>1. \A d \in CPUs : Agree(Books.reserve, e.reserve, Bound[d])
      BY <1>1, <2>11 DEF Agree
    <3> QED
      BY <1>2, <2>13, <3>1, UtilSame
  <2> QED
    BY <1>1, <1>9, <2>11, <2>13, <2>14 DEF SamePlaces
<1> QED
  BY <1>3, <1>8, <1>9

-------------------------------------------------------------------------------
(***************************************************************************)
(* The frequency of sysclock_compute.                                      *)
(***************************************************************************)
\* The full scale as a number.
LEMMA ScaleFactor == SCALE_FACTOR \in Nat
  BY DEF SCALE_FACTOR

\* A scale is a natural number.
LEMMA ScaleNat ==
    ASSUME NEW c \in Nat, NEW p \in Nat \ {0}
    PROVE  ScaleOf(c, p) \in Nat
<1> DEFINE m == (3125 * c) % 134217728
<1>1. m \in Nat
  OBVIOUS
<1> HIDE DEF m
<1>2. m \div p \in Nat /\ m % p \in Nat
  BY <1>1, DivFacts
<1>3. (32 * (m % p)) \div p \in Nat
  <2> DEFINE a == 32 * (m % p)
  <2>1. a \in Nat
    BY <1>2
  <2> HIDE DEF a
  <2>2. a \div p \in Nat
    BY <2>1, DivFacts
  <2> QED
    BY <2>2 DEF a
<1>4. 32 * (m \div p) + (32 * (m % p)) \div p \in Nat
  BY <1>2, <1>3
<1> QED
  BY <1>4 DEF ScaleOf, m

\* No speed above the full one is asked for.
LEMMA TaskScaleBound ==
    ASSUME NEW res, NEW S \in SUBSET Tasks, IsFiniteSet(S), Params(res, S), NEW i \in S
    PROVE  TaskScale(res, S, i) \in 0 .. SCALE_FACTOR
<1> DEFINE upTo == {l \in S : res[l].period <= res[i].period}
           points == UNION {Multiples(res[j].period, res[i].period) : j \in upTo}
           F(p) == [l \in upTo |-> Demand(res[l].budget, res[l].period, p)]
           work(p) == SumFunction(F(p))
           W == {SCALE_FACTOR} \cup {ScaleOf(work(p), p) : p \in points}
<1>1. TaskScale(res, S, i) = Min(W)
  BY DEF TaskScale
<1>2. upTo \subseteq S /\ IsFiniteSet(upTo)
  BY FS_Subset
<1>3. \A l \in upTo : res[l].period \in Nat \ {0} /\ res[l].budget \in Nat
  BY DEF Params
<1>4. res[i].period \in Nat \ {0}
  BY DEF Params
<1> HIDE DEF upTo
<1>5. ASSUME NEW p \in points PROVE p \in Nat \ {0}
  <2>1. PICK j \in upTo : p \in Multiples(res[j].period, res[i].period)
    OBVIOUS
  <2>2. PICK n \in 1 .. res[i].period \div res[j].period : p = n * res[j].period
    BY <2>1 DEF Multiples
  <2> DEFINE T == res[j].period
  <2>3. T \in Nat \ {0} /\ res[i].period \div T \in Nat
    BY <1>3, <1>4, DivFacts
  <2>4. n \in Nat /\ n >= 1 /\ p = n * T
    BY <2>2, <2>3
  <2> HIDE DEF T
  <2>5. n * T >= 1
    BY <2>3, <2>4
  <2> QED
    BY <2>3, <2>4, <2>5
<1>6. ASSUME NEW p \in points PROVE ScaleOf(work(p), p) \in Nat
  <2>1. p \in Nat \ {0}
    BY <1>5
  <2>2. \A l \in upTo : F(p)[l] \in Nat
    <3> SUFFICES ASSUME NEW l \in upTo PROVE Demand(res[l].budget, res[l].period, p) \in Nat
      OBVIOUS
    <3> DEFINE C == res[l].budget
               T == res[l].period
    <3>1. C \in Nat /\ T \in Nat \ {0} /\ p \in Nat
      BY <1>3, <2>1
    <3> HIDE DEF C, T
    <3>2. Demand(C, T, p) \in Nat
      BY <3>1, DemandFacts
    <3> QED
      BY <3>2 DEF C, T
  <2> DEFINE f == F(p)
  <2>3. (\A l \in upTo : f[l] \in Nat) /\ DOMAIN f = upTo /\ work(p) = SumFunction(f)
    BY <2>2
  <2> HIDE DEF f
  <2>4. SumFunction(f) \in Nat
    BY <1>2, <2>3, SumFun, SumNat
  <2> DEFINE w == work(p)
  <2>5. w \in Nat
    BY <2>3, <2>4
  <2> HIDE DEF w
  <2>6. ScaleOf(w, p) \in Nat
    BY <2>1, <2>5, ScaleNat
  <2> QED
    BY <2>6 DEF w
<1>7. W \in SUBSET Nat /\ SCALE_FACTOR \in W
  <2> HIDE DEF points
  <2> DEFINE X == {ScaleOf(work(p), p) : p \in points}
  <2>1. \A x \in X : \E p \in points : x = ScaleOf(work(p), p)
    OBVIOUS
  <2>2. X \in SUBSET Nat
    BY <1>6, <2>1
  <2>3. W = {SCALE_FACTOR} \cup X
    OBVIOUS
  <2> HIDE DEF X, W
  <2> QED
    BY <2>2, <2>3, ScaleFactor
<1> HIDE DEF W
<1>8. Min(W) \in Nat /\ Min(W) <= SCALE_FACTOR
  <2>1. W # {}
    BY <1>7
  <2>2. Min(W) \in W /\ \A y \in W : Min(W) <= y
    BY <1>7, <2>1, MinNat
  <2> QED
    BY <1>7, <2>2
<1> QED
  BY <1>1, <1>8, ScaleFactor

\* The tasks that sysclock_compute looks at have been placed.
Clocked(res, leaders) ==
    \A c \in CPUs : /\ ReservedLeaders(res, leaders, c) \in SUBSET Tasks
                    /\ IsFiniteSet(ReservedLeaders(res, leaders, c))
                    /\ Params(res, ReservedLeaders(res, leaders, c))

\* The frequency is that of a scale no task exceeds.
Scales(res, leaders, x) ==
    /\ x \in Nat /\ x <= 100000
    /\ sysclock_compute(res, leaders) = (x * 1200) \div 100000
    /\ \A c \in CPUs : \A i \in ReservedLeaders(res, leaders, c) :
            TaskScale(res, ReservedLeaders(res, leaders, c), i) <= x

\* There is such a scale.
LEMMA FreqScale ==
    ASSUME NEW res, NEW leaders, Clocked(res, leaders)
    PROVE  \E x : Scales(res, leaders, x)
<1> DEFINE scales == UNION {{TaskScale(res, S, i) : i \in S} :
                              S \in {ReservedLeaders(res, leaders, c) : c \in CPUs}}
           W == {0} \cup scales
           max_scale == Max(W)
           scale == IF max_scale = 0 THEN SCALE_FACTOR ELSE max_scale
<1>1. sysclock_compute(res, leaders) = (scale * SYSCLOCK_MAX_FREQ) \div SCALE_FACTOR
  BY DEF sysclock_compute
<1>2. ASSUME NEW x \in scales PROVE x \in 0 .. SCALE_FACTOR
  <2>1. PICK c \in CPUs : \E i \in ReservedLeaders(res, leaders, c) : x = TaskScale(res, ReservedLeaders(res, leaders, c), i)
    OBVIOUS
  <2> DEFINE S == ReservedLeaders(res, leaders, c)
  <2>2. PICK i \in S : x = TaskScale(res, S, i)
    BY <2>1
  <2>3. S \in SUBSET Tasks /\ IsFiniteSet(S) /\ Params(res, S)
    BY DEF Clocked
  <2> HIDE DEF S
  <2> QED
    BY <2>2, <2>3, TaskScaleBound
<1>3. ASSUME NEW c \in CPUs, NEW i \in ReservedLeaders(res, leaders, c)
      PROVE  TaskScale(res, ReservedLeaders(res, leaders, c), i) \in W
  OBVIOUS
<1> HIDE DEF scales
<1>4. W \in SUBSET Nat /\ W # {} /\ SCALE_FACTOR \in Nat /\ \A x \in W : x <= SCALE_FACTOR
  BY <1>2, ScaleFactor
<1> HIDE DEF W
<1>5. max_scale \in W /\ \A x \in W : x <= max_scale
  BY <1>4, MaxNat
<1>6. max_scale \in Nat /\ max_scale <= SCALE_FACTOR
  BY <1>4, <1>5
<1> HIDE DEF max_scale
<1>7. scale \in Nat /\ scale <= 100000 /\ max_scale <= scale
  BY <1>6 DEF SCALE_FACTOR
<1> HIDE DEF scale
<1>8. \A x \in W : x <= scale
  BY <1>4, <1>5, <1>6, <1>7
<1>9. sysclock_compute(res, leaders) = (scale * 1200) \div 100000
  BY <1>1 DEF SYSCLOCK_MAX_FREQ, SCALE_FACTOR
<1>10. \A c \in CPUs : \A i \in ReservedLeaders(res, leaders, c) :
            TaskScale(res, ReservedLeaders(res, leaders, c), i) <= scale
  BY <1>3, <1>8
<1>11. Scales(res, leaders, scale)
  BY <1>7, <1>9, <1>10 DEF Scales
<1> QED
  BY <1>11

\* The frequency asked for is within the range of the CPUs.
LEMMA FreqBound ==
    ASSUME NEW res, NEW leaders, Clocked(res, leaders)
    PROVE  sysclock_compute(res, leaders) \in 0 .. SYSCLOCK_MAX_FREQ
<1>1. PICK x \in Nat : x <= 100000 /\ sysclock_compute(res, leaders) = (x * 1200) \div 100000
  BY FreqScale DEF Scales
<1>2. (x * 1200) \div 100000 \in 0 .. 1200
  BY <1>1
<1> QED
  BY <1>1, <1>2 DEF SYSCLOCK_MAX_FREQ

-------------------------------------------------------------------------------
(***************************************************************************)
(* The invariant under every action.                                       *)
(***************************************************************************)
\* Keep makes the books those of the next state.
LEMMA KeepBooks ==
    ASSUME NEW b \in BookType, Keep(b)
    PROVE  Books' = b /\ cpu_util' = b.util /\ reserve' = b.reserve
<1>1. b = [tasks |-> b.tasks, length |-> b.length, util |-> b.util, reserve |-> b.reserve]
  BY DEF BookType
<1>2. /\ cpu_tasks' = b.tasks /\ cpu_tasks_length' = b.length
      /\ cpu_util' = b.util /\ reserve' = b.reserve
  BY DEF Keep
<1> QED
  BY <1>1, <1>2 DEF Books

\* The frequency of tasks that are in the books.
LEMMA ClockedBooks ==
    ASSUME NEW e, NEW M, BooksOk(e, M), NEW leaders, NEW res, res = e.reserve,
           \A c \in CPUs : ReservedLeaders(res, leaders, c) \subseteq M[c]
    PROVE  sysclock_compute(res, leaders) \in 0 .. SYSCLOCK_MAX_FREQ
<1>1. ASSUME NEW c \in CPUs
      PROVE  /\ ReservedLeaders(res, leaders, c) \in SUBSET Tasks
             /\ IsFiniteSet(ReservedLeaders(res, leaders, c))
             /\ Params(res, ReservedLeaders(res, leaders, c))
  <2> DEFINE R == ReservedLeaders(res, leaders, c)
  <2>1. R \subseteq M[c]
    OBVIOUS
  <2> HIDE DEF R
  <2>2. CpuOk(e.tasks[c], e.length[c], e.util[c], e.reserve, M[c])
    BY DEF BooksOk
  <2>3. M[c] \in SUBSET Tasks /\ IsFiniteSet(M[c]) /\ Params(res, M[c])
    BY <2>2, CpuFacts
  <2>4. R \in SUBSET Tasks /\ IsFiniteSet(R) /\ Params(res, R)
    BY <2>1, <2>3, FS_Subset DEF Params
  <2> QED
    BY <2>4 DEF R
<1>2. Clocked(res, leaders)
  BY <1>1 DEF Clocked
<1> QED
  BY <1>2, FreqBound

\* The frequency after cpu_up.
LEMMA UpFreqType ==
    ASSUME IInv, NEW c
    PROVE  UpFreq(c) \in 0 .. SYSCLOCK_MAX_FREQ
<1>1. freq \in 0 .. SYSCLOCK_MAX_FREQ /\ BooksOk(Books, Bound)
  BY DEF IInv, RestOk
<1>2. Books.reserve = reserve /\ \A d \in CPUs : Bound[d] = Reserved(d)
  BY BooksFacts
<1>3. \A d \in CPUs : ReservedLeaders(reserve, Leaders \cap alive, d) \subseteq Bound[d]
  BY <1>2 DEF ReservedLeaders, Reserved
<1>4. sysclock_compute(reserve, Leaders \cap alive) \in 0 .. SYSCLOCK_MAX_FREQ
  BY <1>1, <1>2, <1>3, ClockedBooks
<1> QED
  BY <1>1, <1>4 DEF UpFreq

\* cpu_down leaves the other CPUs online.
LEMMA DownType ==
    ASSUME NEW on \in SUBSET CPUs, NEW S, Down(on, S)
    PROVE  online' \in SUBSET CPUs /\ on \ S \subseteq online'
<1>1. PICK stay \in (IF "down" \in Faults THEN SUBSET (S \cap on) ELSE {{}}) : online' = (on \ S) \cup stay
  BY DEF Down
<1>2. stay \subseteq on
  BY <1>1
<1> QED
  BY <1>1, <1>2

\* After a call that fails nothing has changed in the books but the fields
\* of a task without a reservation.
LEMMA Undone ==
    ASSUME IInv, NEW e, BooksOk(e, Bound), e.util = cpu_util, SamePlaces(e.reserve), Keep(e),
           alive' = alive, cpu_open' = cpu_open
    PROVE  /\ BooksOk(Books', Bound') /\ cpu_open' = Reopen(cpu_util')
           /\ \A c \in CPUs : Reserved(c)' = Reserved(c)
<1>1. e \in BookType
  BY DEF BooksOk
<1>2. Books' = e /\ cpu_util' = e.util /\ reserve' = e.reserve
  BY <1>1, KeepBooks
<1>3. alive \in SUBSET Tasks
  BY DEF IInv, RestOk
<1>0. \A c \in CPUs : Reserved(c)' = Reserved(c)
  BY <1>2, <1>3 DEF Reserved, SamePlaces
<1>4. Bound' = Bound
  BY <1>0 DEF Bound
<1>5. cpu_open' = Reopen(cpu_util')
  BY <1>2 DEF IInv
<1> QED
  BY <1>0, <1>2, <1>4, <1>5

\* The new parameters do not say where the task is.
LEMMA SamePlacesRevised ==
    ASSUME reserve \in [Tasks -> Recs], NEW rq \in Requests
    PROVE  SamePlaces(Revised(rq)) /\ \A s \in Tasks \ {rq.t} : Revised(rq)[s] = reserve[s]
  BY RevisedFacts DEF SamePlaces

\* What a step that binds no task does to the tasks that are bound.
Shrinks ==
    \A d \in CPUs : \A s \in Reserved(d)' : s \in Reserved(d) /\ reserve'[s] = reserve[s]

\* A call that fails binds no task.
LEMMA UndoneShrinks ==
    ASSUME RestOk, NEW t, \A d \in CPUs : Reserved(d)' = Reserved(d),
           reserve[t].flag => reserve' = reserve, \A s \in Tasks \ {t} : reserve'[s] = reserve[s]
    PROVE  Shrinks
<1>1. ASSUME NEW d \in CPUs, NEW s \in Reserved(d) PROVE reserve'[s] = reserve[s]
  <2>1. s \in Tasks /\ reserve[s].flag
    BY DEF Reserved, RestOk
  <2> QED
    BY <2>1
<1> QED
  BY <1>1 DEF Shrinks

\* set_reserve finds no CPU: the books are as before.
LEMMA RejectedBooks ==
    ASSUME IInv, ~AnyRevise, NEW rq \in Requests, SetRejected(rq)
    PROVE  IInv' /\ Shrinks /\ online' = online
<1> DEFINE p == Place(rq)
           t == rq.t
           e == PutBack(p.b, t)
<1>1. Calls(rq) /\ ~p.ok /\ Keep(e) /\ lastCpuID' = NextFit(rq)
      /\ cpu_open' = cpu_open /\ alive' = alive /\ online' = online /\ freq' = freq
      /\ partition_policy' = partition_policy
  BY DEF SetRejected
<1>2. t \in alive /\ reserve \in [Tasks -> Recs]
  BY <1>1, BooksFacts DEF Calls
<1>3. Trial(p, Revised(rq), Without(t), t) /\ NextFit(rq) \in [create : CPUs, revise : CPUs]
  BY <1>1, PlaceTrial
<1>4. p = Place(rq) /\ e = PutBack(p.b, t)
  OBVIOUS
<1> HIDE DEF p, e
<1>5. BooksOk(p.b, Without(t)) /\ p.b.reserve = Revised(rq)
  BY <1>1, <1>3 DEF Trial
<1>6. SamePlaces(p.b.reserve) /\ \A s \in Tasks \ {t} : p.b.reserve[s] = reserve[s]
  BY <1>2, <1>5, SamePlacesRevised
<1> HIDE DEF t
<1>7. /\ BooksOk(e, Bound) /\ e.util = cpu_util /\ SamePlaces(e.reserve)
      /\ reserve[t].flag => e.reserve = reserve
      /\ ~reserve[t].flag => e.reserve = p.b.reserve
  BY <1>2, <1>4, <1>5, <1>6, PutBackBooks
<1>8. /\ BooksOk(Books', Bound') /\ cpu_open' = Reopen(cpu_util')
      /\ \A d \in CPUs : Reserved(d)' = Reserved(d)
  BY <1>1, <1>7, Undone
<1>9. RestOk'
  BY <1>1, <1>3 DEF IInv, RestOk
<1>10. reserve' = e.reserve
  BY <1>1 DEF Keep
<1>11. IInv'
  BY <1>8, <1>9 DEF IInv, Reopen
<1>12. /\ reserve[t].flag => reserve' = reserve
       /\ \A s \in Tasks \ {t} : reserve'[s] = reserve[s]
  BY <1>2, <1>6, <1>7, <1>10
<1>13. Shrinks
  BY <1>8, <1>12, UndoneShrinks DEF IInv
<1> QED
  BY <1>1, <1>11, <1>13

\* The tasks on each CPU once t has been bound to c.
With(t, c) == [Without(t) EXCEPT ![c] = @ \cup {t}]

\* The tasks on each CPU, in terms of the current ones.
LEMMA WithFacts ==
    ASSUME RestOk, NEW t, NEW c \in CPUs
    PROVE  /\ \A d \in CPUs : With(t, c)[d] = IF d = c THEN Reserved(c) \cup {t} ELSE Reserved(d) \ {t}
           /\ [d \in CPUs |-> With(t, c)[d] \ {t}] = Without(t)
<1>1. \A d \in CPUs : Without(t)[d] = Reserved(d) \ {t}
  BY DEF Without
<1>2. \A d \in CPUs : With(t, c)[d] = IF d = c THEN Without(t)[c] \cup {t} ELSE Without(t)[d]
  BY DEF With, Without
<1>3. \A d \in CPUs : With(t, c)[d] = IF d = c THEN Reserved(c) \cup {t} ELSE Reserved(d) \ {t}
  BY <1>1, <1>2
<1>4. \A d \in CPUs : With(t, c)[d] \ {t} = Reserved(d) \ {t}
  BY <1>3
<1>5. [d \in CPUs |-> With(t, c)[d] \ {t}] = Without(t)
  BY <1>4 DEF Without
<1> QED
  BY <1>3, <1>5

\* sched_setaffinity fails: the books are as before.
LEMMA UnboundBooks ==
    ASSUME IInv, ~AnyRevise, NEW rq \in Requests, SetUnbound(rq)
    PROVE  IInv' /\ Shrinks /\ online \subseteq online'
<1> DEFINE p == Place(rq)
           t == rq.t
           c == p.cpu
           b == Unbook(p.b, t, c, c, p.b.reserve[t].util)
           e == PutBack(b, t)
<1>1. /\ Calls(rq) /\ p.ok /\ Keep(e) /\ lastCpuID' = NextFit(rq)
      /\ cpu_open' = cpu_open /\ alive' = alive /\ partition_policy' = partition_policy
      /\ \/ online' = online /\ freq' = freq
         \/ online' = Up(c) /\ freq' = UpFreq(c)
  BY DEF SetUnbound
<1>2. t \in alive /\ reserve \in [Tasks -> Recs] /\ RestOk
  BY <1>1, BooksFacts DEF Calls, IInv
<1>3. Trial(p, Revised(rq), Without(t), t) /\ NextFit(rq) \in [create : CPUs, revise : CPUs]
  BY <1>1, PlaceTrial
<1>4. b = Unbook(p.b, t, c, c, p.b.reserve[t].util) /\ e = PutBack(b, t)
  OBVIOUS
<1>5. UpFreq(c) \in 0 .. SYSCLOCK_MAX_FREQ
  BY UpFreqType
<1> HIDE DEF p, c, b, e
<1>6. BooksOk(p.b, With(t, c)) /\ p.b.reserve = Revised(rq) /\ c \in CPUs
  BY <1>1, <1>3 DEF Trial, With, c
<1> DEFINE N == With(t, c)
           pb == p.b
<1>7. Leaves(pb, N, pb, t, c, c)
  <2>1. t \in N[c] /\ \A d \in CPUs \ {c} : t \notin N[d]
    <3> HIDE DEF t
    <3>1. \A d \in CPUs : With(t, c)[d] = IF d = c THEN Reserved(c) \cup {t} ELSE Reserved(d) \ {t}
      BY <1>2, <1>6, WithFacts
    <3> HIDE DEF N
    <3>2. \A d \in CPUs : N[d] = IF d = c THEN Reserved(c) \cup {t} ELSE Reserved(d) \ {t}
      BY <3>1 DEF N
    <3>3. N[c] = Reserved(c) \cup {t} /\ \A d \in CPUs \ {c} : N[d] = Reserved(d) \ {t}
      BY <1>6, <3>2
    <3> QED
      BY <3>3
  <2>2. \A d \in CPUs : Agree(pb.reserve, pb.reserve, N[d] \ {t})
    BY DEF Agree
  <2>3. pb \in BookType
    BY <1>6 DEF BooksOk
  <2> HIDE DEF N, pb
  <2> QED
    BY <1>6, <2>1, <2>2, <2>3 DEF Leaves, N, pb
<1>8. BooksOk(b, [d \in CPUs |-> N[d] \ {t}]) /\ b.reserve = pb.reserve
  <2>1. b = Unbook(pb, t, c, c, pb.reserve[t].util)
    BY <1>4
  <2> HIDE DEF N, pb, t
  <2> QED
    BY <1>6, <1>7, <2>1, UnbookBooks
<1>9. BooksOk(b, Without(t)) /\ b.reserve = Revised(rq)
  BY <1>2, <1>6, <1>8, WithFacts
<1>10. SamePlaces(b.reserve) /\ \A s \in Tasks \ {t} : b.reserve[s] = reserve[s]
  BY <1>2, <1>9, SamePlacesRevised
<1> HIDE DEF t
<1>11. /\ BooksOk(e, Bound) /\ e.util = cpu_util /\ SamePlaces(e.reserve)
       /\ reserve[t].flag => e.reserve = reserve
       /\ ~reserve[t].flag => e.reserve = b.reserve
  BY <1>2, <1>4, <1>9, <1>10, PutBackBooks
<1>12. /\ BooksOk(Books', Bound') /\ cpu_open' = Reopen(cpu_util')
       /\ \A d \in CPUs : Reserved(d)' = Reserved(d)
  BY <1>1, <1>11, Undone
<1>13. RestOk' /\ online \subseteq online'
  BY <1>1, <1>3, <1>5, <1>6 DEF IInv, RestOk, Up
<1>14. reserve' = e.reserve
  BY <1>1 DEF Keep
<1>15. IInv'
  BY <1>12, <1>13 DEF IInv, Reopen
<1>16. /\ reserve[t].flag => reserve' = reserve
       /\ \A s \in Tasks \ {t} : reserve'[s] = reserve[s]
  BY <1>2, <1>10, <1>11, <1>14
<1>17. Shrinks
  BY <1>2, <1>12, <1>16, UndoneShrinks
<1> QED
  BY <1>13, <1>15, <1>17

\* The reserve structures with the task of a request bound to c.
BoundTo(rq, c) == [Revised(rq) EXCEPT ![rq.t] = [@ EXCEPT !.cpu = c, !.flag = TRUE]]

\* What set_reserve leaves in the reserve structures.
LEMMA BoundToFacts ==
    ASSUME reserve \in [Tasks -> Recs], NEW rq \in Requests, NEW c \in CPUs
    PROVE  /\ BoundTo(rq, c) \in [Tasks -> Recs]
           /\ \A s \in Tasks \ {rq.t} : BoundTo(rq, c)[s] = reserve[s]
           /\ BoundTo(rq, c)[rq.t].flag = TRUE
           /\ BoundTo(rq, c)[rq.t].cpu = c
           /\ BoundTo(rq, c)[rq.t].budget = rq.C /\ BoundTo(rq, c)[rq.t].period = rq.T
           /\ BoundTo(rq, c)[rq.t].util = (rq.C * UTIL_MULTIPLE) \div rq.T
           /\ \A S : S \in SUBSET Tasks => Agree(Revised(rq), BoundTo(rq, c), S)
<1> DEFINE t == rq.t
           old == Revised(rq)[t]
           x == [old EXCEPT !.cpu = c, !.flag = TRUE]
<1>1. t \in Tasks
  BY RequestFacts
<1>2. /\ Revised(rq) \in [Tasks -> Recs]
      /\ \A s \in Tasks \ {t} : Revised(rq)[s] = reserve[s]
      /\ old.util = (rq.C * UTIL_MULTIPLE) \div rq.T /\ old.budget = rq.C /\ old.period = rq.T
  BY RevisedFacts
<1>3. BoundTo(rq, c) = [Revised(rq) EXCEPT ![t] = x]
  BY DEF BoundTo
<1> HIDE DEF t
<1>4. old \in Recs
  BY <1>1, <1>2
<1> HIDE DEF old
<1>5. /\ x \in Recs /\ x.flag = TRUE /\ x.cpu = c
      /\ x.util = old.util /\ x.budget = old.budget /\ x.period = old.period
  BY <1>4 DEF Recs
<1> HIDE DEF x
<1>6. /\ BoundTo(rq, c) \in [Tasks -> Recs] /\ BoundTo(rq, c)[t] = x
      /\ \A s \in Tasks \ {t} : BoundTo(rq, c)[s] = Revised(rq)[s]
  BY <1>1, <1>2, <1>3, <1>5
<1>7. \A S : S \in SUBSET Tasks => Agree(Revised(rq), BoundTo(rq, c), S)
  BY <1>5, <1>6 DEF Agree, old
<1> QED
  BY <1>2, <1>5, <1>6, <1>7 DEF t

\* The task of a request is bound.
LEMMA SettledBooks ==
    ASSUME IInv, ~AnyRevise, NEW rq \in Requests, Calls(rq), NEW p, p = Place(rq), p.ok, NEW e,
           e = [tasks |-> p.b.tasks, length |-> p.b.length, util |-> p.b.util, reserve |-> BoundTo(rq, p.cpu)],
           Keep(e), alive' = alive
    PROVE  /\ BooksOk(Books', Bound')
           /\ cpu_util' = p.b.util
           /\ reserve' = BoundTo(rq, p.cpu)
           /\ sysclock_compute(reserve', Leaders \cap alive) \in 0 .. SYSCLOCK_MAX_FREQ
           /\ \A d \in CPUs : Reserved(d)' \subseteq IF d = p.cpu THEN Reserved(d) \cup {rq.t} ELSE Reserved(d)
<1> DEFINE t == rq.t
           c == p.cpu
           M == With(t, c)
           new == BoundTo(rq, c)
<1>1. RestOk /\ t \in alive /\ t \in Tasks /\ reserve \in [Tasks -> Recs] /\ alive \in SUBSET Tasks
  BY BooksFacts DEF IInv, RestOk, Calls
<1>2. BooksOk(p.b, M) /\ p.b.reserve = Revised(rq) /\ c \in CPUs
  BY PlaceTrial DEF Trial, With
<1>3. /\ new \in [Tasks -> Recs]
      /\ \A s \in Tasks \ {t} : new[s] = reserve[s]
      /\ new[t].flag = TRUE /\ new[t].cpu = c
      /\ \A S : S \in SUBSET Tasks => Agree(Revised(rq), new, S)
  BY <1>1, <1>2, BoundToFacts
<1>4. \A d \in CPUs : M[d] = IF d = c THEN Reserved(c) \cup {t} ELSE Reserved(d) \ {t}
  <2> HIDE DEF t, c
  <2> QED
    BY <1>1, <1>2, WithFacts
<1>5. e = [tasks |-> p.b.tasks, length |-> p.b.length, util |-> p.b.util, reserve |-> new]
  OBVIOUS
<1> HIDE DEF M, new, c, t
<1>6. \A d \in CPUs : Agree(p.b.reserve, new, M[d])
  <2>1. \A d \in CPUs : Reserved(d) \in SUBSET Tasks
    BY <1>1 DEF Reserved
  <2>2. \A d \in CPUs : M[d] \in SUBSET Tasks
    BY <1>1, <1>4, <2>1
  <2> QED
    BY <1>2, <1>3, <2>2
<1>7. BooksOk(e, M)
  BY <1>2, <1>3, <1>5, <1>6, Rebook
<1>8. e \in BookType /\ e.reserve = new /\ e.util = p.b.util
  BY <1>5, <1>7 DEF BooksOk
<1>9. Books' = e /\ cpu_util' = p.b.util /\ reserve' = new
  BY <1>8, KeepBooks
<1>10. \A d \in CPUs : Reserved(d)' = M[d]
  <2>1. ASSUME NEW d \in CPUs PROVE Reserved(d)' = M[d]
    <3>1. Reserved(d)' = {s \in alive : new[s].flag /\ new[s].cpu = d}
      BY <1>9 DEF Reserved
    <3>2. \A s \in alive \ {t} : (new[s].flag /\ new[s].cpu = d) <=> s \in Reserved(d)
      BY <1>1, <1>3 DEF Reserved
    <3>3. Reserved(d) \subseteq alive
      BY DEF Reserved
    <3>4. CASE d = c
      <4>1. M[d] = Reserved(d) \cup {t}
        BY <1>4, <3>4
      <4> HIDE DEF Reserved
      <4> QED
        BY <1>1, <1>3, <3>1, <3>2, <3>3, <3>4, <4>1
    <3>5. CASE d # c
      <4>1. M[d] = Reserved(d) \ {t}
        BY <1>4, <3>5
      <4> QED
        BY <1>1, <1>3, <3>1, <3>2, <3>3, <3>5, <4>1
    <3> QED
      BY <3>4, <3>5
  <2> QED
    BY <2>1
<1>11. Bound' = M
  <2>1. M = [d \in CPUs |-> M[d]]
    BY DEF M, With, Without
  <2>2. Bound' = [d \in CPUs |-> Reserved(d)']
    BY DEF Bound
  <2> QED
    BY <1>10, <2>1, <2>2
<1>12. \A d \in CPUs : ReservedLeaders(new, Leaders \cap alive, d) \subseteq M[d]
  <2>1. \A d \in CPUs : M[d] = {s \in alive : new[s].flag /\ new[s].cpu = d}
    BY <1>9, <1>10 DEF Reserved
  <2> QED
    BY <2>1 DEF ReservedLeaders
<1>13. sysclock_compute(new, Leaders \cap alive) \in 0 .. SYSCLOCK_MAX_FREQ
  BY <1>7, <1>8, <1>12, ClockedBooks
<1>14. \A d \in CPUs : Reserved(d)' \subseteq IF d = c THEN Reserved(d) \cup {t} ELSE Reserved(d)
  BY <1>4, <1>10
<1> QED
  BY <1>7, <1>9, <1>11, <1>13, <1>14 DEF new, c, t

\* The task is bound, and its bin is opened.
LEMMA BoundStep ==
    ASSUME IInv, ~AnyRevise, NEW rq \in Requests, Calls(rq), NEW p, p = Place(rq), p.ok, NEW e,
           e = [tasks |-> p.b.tasks, length |-> p.b.length, util |-> p.b.util, reserve |-> BoundTo(rq, p.cpu)],
           Keep(e), alive' = alive, cpu_open' = Reopen(p.b.util),
           Down(Up(p.cpu), ClosedCPUs(Reopen(p.b.util))),
           lastCpuID' = NextFit(rq), partition_policy' = partition_policy,
           freq' \in 0 .. SYSCLOCK_MAX_FREQ
    PROVE  /\ IInv'
           /\ reserve' = BoundTo(rq, p.cpu) /\ p.cpu \in CPUs
           /\ online \ ClosedCPUs(cpu_open') \subseteq online'
           /\ p.cpu \notin ClosedCPUs(cpu_open') => p.cpu \in online'
           /\ \A d \in CPUs : Reserved(d)' \subseteq IF d = p.cpu THEN Reserved(d) \cup {rq.t} ELSE Reserved(d)
<1>1. /\ BooksOk(Books', Bound') /\ cpu_util' = p.b.util /\ reserve' = BoundTo(rq, p.cpu)
      /\ \A d \in CPUs : Reserved(d)' \subseteq IF d = p.cpu THEN Reserved(d) \cup {rq.t} ELSE Reserved(d)
  BY SettledBooks
<1>2. p.cpu \in CPUs /\ NextFit(rq) \in [create : CPUs, revise : CPUs]
  BY PlaceTrial DEF Trial
<1>3. Up(p.cpu) \in SUBSET CPUs /\ online \subseteq Up(p.cpu) /\ p.cpu \in Up(p.cpu)
  BY <1>2 DEF Up, IInv, RestOk
<1>4. online' \in SUBSET CPUs /\ Up(p.cpu) \ ClosedCPUs(cpu_open') \subseteq online'
  BY <1>3, DownType
<1>5. RestOk'
  BY <1>2, <1>4 DEF IInv, RestOk
<1>6. IInv'
  BY <1>1, <1>5 DEF IInv, Reopen
<1> QED
  BY <1>1, <1>2, <1>3, <1>4, <1>6

\* set_reserve succeeds, or a revision fails at its energy files.
LEMMA ReservedBooks ==
    ASSUME IInv, ~AnyRevise, NEW rq \in Requests,
           SetReserved(rq) \/ (SetNoFiles(rq) /\ reserve[rq.t].flag), NEW p, p = Place(rq)
    PROVE  /\ IInv'
           /\ reserve' = BoundTo(rq, p.cpu) /\ p.cpu \in CPUs
           /\ SetReserved(rq) => freq' = sysclock_compute(reserve', Leaders \cap alive')
           /\ online \ ClosedCPUs(cpu_open') \subseteq online'
           /\ p.cpu \notin ClosedCPUs(cpu_open') => p.cpu \in online'
           /\ \A d \in CPUs : Reserved(d)' \subseteq IF d = p.cpu THEN Reserved(d) \cup {rq.t} ELSE Reserved(d)
<1> DEFINE t == rq.t
           e == [tasks |-> p.b.tasks, length |-> p.b.length, util |-> p.b.util, reserve |-> BoundTo(rq, p.cpu)]
<1>1. Calls(rq) /\ p.ok
  BY DEF SetReserved, SetNoFiles
<1>2. reserve \in [Tasks -> Recs] /\ t \in Tasks
  BY BooksFacts, RequestFacts
<1>3. p.b.reserve = Revised(rq) /\ p.cpu \in CPUs /\ p.b \in BookType
  BY <1>1, PlaceTrial DEF Trial, BooksOk
<1>4. Revised(rq) \in [Tasks -> Recs] /\ Revised(rq)[t].flag = reserve[t].flag
  BY <1>2, RevisedFacts
<1>5. p.b = [tasks |-> p.b.tasks, length |-> p.b.length, util |-> p.b.util, reserve |-> p.b.reserve]
  BY <1>3 DEF BookType
<1> HIDE DEF t
<1>6. CASE SetReserved(rq)
  <2> DEFINE res == [p.b.reserve EXCEPT ![t].cpu = p.cpu, ![t].flag = TRUE]
  <2>1. /\ Keep([p.b EXCEPT !.reserve = res]) /\ cpu_open' = Reopen(p.b.util)
        /\ Down(Up(p.cpu), ClosedCPUs(Reopen(p.b.util)))
        /\ freq' = sysclock_compute(res, Leaders \cap alive)
        /\ lastCpuID' = NextFit(rq) /\ alive' = alive /\ partition_policy' = partition_policy
    BY <1>6 DEF SetReserved, t
  <2>2. res = BoundTo(rq, p.cpu)
    <3>1. Revised(rq)[t] \in Recs
      BY <1>2, <1>4
    <3>2. BoundTo(rq, p.cpu) = [Revised(rq) EXCEPT ![t] = [@ EXCEPT !.cpu = p.cpu, !.flag = TRUE]]
      BY DEF BoundTo, t
    <3>3. res = [Revised(rq) EXCEPT ![t] = [@ EXCEPT !.cpu = p.cpu, !.flag = TRUE]]
      BY <1>2, <1>3, <1>4, <3>1 DEF Recs
    <3> QED
      BY <3>2, <3>3
  <2> HIDE DEF res
  <2>3. [p.b EXCEPT !.reserve = res] = e
    BY <1>5, <2>2
  <2>4. Keep(e)
    BY <2>1, <2>3
  <2>5. reserve' = BoundTo(rq, p.cpu) /\ sysclock_compute(reserve', Leaders \cap alive) \in 0 .. SYSCLOCK_MAX_FREQ
    <3>1. e = [tasks |-> p.b.tasks, length |-> p.b.length, util |-> p.b.util, reserve |-> BoundTo(rq, p.cpu)]
      OBVIOUS
    <3> HIDE DEF e
    <3> QED
      BY <1>1, <2>1, <2>4, <3>1, SettledBooks
  <2>6. freq' \in 0 .. SYSCLOCK_MAX_FREQ
    BY <2>1, <2>2, <2>5
  <2>7. freq' = sysclock_compute(reserve', Leaders \cap alive')
    BY <2>1, <2>2, <2>5
  <2> QED
    BY <1>1, <2>1, <2>4, <2>6, <2>7, BoundStep
<1>7. CASE SetNoFiles(rq) /\ reserve[t].flag /\ ~SetReserved(rq)
  <2>1. /\ Keep([p.b EXCEPT !.reserve[t].cpu = p.cpu]) /\ cpu_open' = Reopen(p.b.util)
        /\ Down(Up(p.cpu), ClosedCPUs(Reopen(p.b.util)))
        /\ freq' = UpFreq(p.cpu)
        /\ lastCpuID' = NextFit(rq) /\ alive' = alive /\ partition_policy' = partition_policy
    BY <1>7 DEF SetNoFiles, t
  <2> DEFINE res == [Revised(rq) EXCEPT ![t].cpu = p.cpu]
  <2>2. res = BoundTo(rq, p.cpu)
    <3>1. Revised(rq)[t] \in Recs /\ Revised(rq)[t].flag = TRUE
      <4>1. Revised(rq)[t] \in Recs
        BY <1>2, <1>4
      <4>2. Revised(rq)[t].flag \in BOOLEAN
        BY <4>1 DEF Recs
      <4> QED
        BY <1>4, <1>7, <4>1, <4>2
    <3>2. BoundTo(rq, p.cpu) = [Revised(rq) EXCEPT ![t] = [@ EXCEPT !.cpu = p.cpu, !.flag = TRUE]]
      BY DEF BoundTo, t
    <3>3. [Revised(rq)[t] EXCEPT !.cpu = p.cpu] = [Revised(rq)[t] EXCEPT !.cpu = p.cpu, !.flag = TRUE]
      BY <3>1 DEF Recs
    <3> QED
      BY <1>2, <1>4, <3>2, <3>3
  <2>3. [p.b EXCEPT !.reserve[t].cpu = p.cpu] = [tasks |-> p.b.tasks, length |-> p.b.length, util |-> p.b.util, reserve |-> res]
    BY <1>3, <1>5
  <2> HIDE DEF res
  <2>4. Keep(e)
    BY <2>1, <2>2, <2>3
  <2>5. freq' \in 0 .. SYSCLOCK_MAX_FREQ
    BY <2>1, UpFreqType
  <2> QED
    BY <1>1, <1>7, <2>1, <2>4, <2>5, BoundStep
<1> QED
  BY <1>6, <1>7 DEF t

\* A task leaves the books of its CPU, as in cancel_reserve and do_exit.
LEMMA ReleaseBooks ==
    ASSUME IInv, NEW t \in alive, reserve[t].flag, NEW res \in [Tasks -> Recs],
           \A s \in Tasks \ {t} : res[s] = reserve[s], Release(t, res)
    PROVE  /\ BooksOk(Books', Without(t))
           /\ reserve' = res /\ Books'.reserve = res
           /\ cpu_open' = Reopen(cpu_util')
           /\ online' \in SUBSET CPUs
           /\ online \ ClosedCPUs(cpu_open') \subseteq online'
<1> DEFINE c == reserve[t].cpu
           b == Unbook(Books, t, c, c, reserve[t].util)
           open == [cpu_open EXCEPT ![c] = @ /\ b.util[c] # 0]
           e == [tasks |-> b.tasks, length |-> b.length, util |-> b.util, reserve |-> res]
           M == Without(t)
<1>1. Keep([b EXCEPT !.reserve = res]) /\ cpu_open' = open /\ Down(online, {c} \cap ClosedCPUs(open))
  BY DEF Release
<1>2. /\ Books.tasks = cpu_tasks /\ Books.length = cpu_tasks_length
      /\ Books.util = cpu_util /\ Books.reserve = reserve
      /\ cpu_util \in [CPUs -> 0 .. UTIL_MULTIPLE]
      /\ reserve \in [Tasks -> Recs]
      /\ \A d \in CPUs : /\ Bound[d] = Reserved(d)
                         /\ CpuOk(cpu_tasks[d], cpu_tasks_length[d], cpu_util[d], reserve, Reserved(d))
  BY BooksFacts
<1>3. RestOk /\ BooksOk(Books, Bound) /\ Books \in BookType /\ cpu_open = Reopen(cpu_util)
  BY DEF IInv, BooksOk
<1>4. /\ t \in Tasks /\ c \in CPUs
      /\ \A d \in CPUs : t \in Reserved(d) <=> d = c
  BY <1>2, <1>3, ReservedFacts
<1>5. b = Unbook(Books, t, c, c, Books.reserve[t].util)
  BY <1>2
<1>6. \A d \in CPUs : M[d] = Reserved(d) \ {t} /\ Reserved(d) \in SUBSET Tasks
  BY <1>3 DEF Without, Reserved, RestOk
<1> HIDE DEF b, c, M
<1>7. Leaves(Books, Bound, Books, t, c, c)
  <2>1. \A d \in CPUs : Agree(Books.reserve, Books.reserve, Bound[d] \ {t})
    BY DEF Agree
  <2>2. t \in Bound[c] /\ \A d \in CPUs \ {c} : t \notin Bound[d]
    BY <1>2, <1>4
  <2> QED
    BY <1>3, <2>1, <2>2 DEF Leaves
<1>8. /\ BooksOk(b, [d \in CPUs |-> Bound[d] \ {t}]) /\ b.reserve = reserve
      /\ \A d \in CPUs \ {c} : b.util[d] = cpu_util[d]
  BY <1>2, <1>4, <1>5, <1>7, UnbookBooks
<1>9. [d \in CPUs |-> Bound[d] \ {t}] = M
  BY <1>2 DEF M, Without
<1>10. BooksOk(b, M)
  BY <1>8, <1>9
<1>11. \A d \in CPUs : Agree(b.reserve, res, M[d])
  BY <1>6, <1>8 DEF Agree
<1>12. BooksOk(e, M)
  BY <1>10, <1>11, Rebook
<1>13. b \in BookType
  BY <1>10 DEF BooksOk
<1>14. [b EXCEPT !.reserve = res] = e
  BY <1>13 DEF BookType
<1>15. e \in BookType /\ e.util = b.util /\ e.reserve = res
  BY <1>12 DEF BooksOk
<1>16. Keep(e)
  BY <1>1, <1>14
<1> HIDE DEF e
<1>17. Books' = e /\ cpu_util' = b.util /\ reserve' = res
  BY <1>15, <1>16, KeepBooks
<1>18. open = Reopen(b.util)
  <2>1. cpu_util[c] = 0 => b.util[c] = 0
    <3>1. CpuOk(b.tasks[c], b.length[c], b.util[c], reserve, M[c])
      BY <1>4, <1>8, <1>10 DEF BooksOk
    <3>2. b.util[c] = Sum(Utils(reserve), M[c])
      BY <3>1, CpuFacts
    <3>3. CpuOk(cpu_tasks[c], cpu_tasks_length[c], cpu_util[c], reserve, Reserved(c))
      BY <1>2, <1>4
    <3> DEFINE R == Reserved(c)
    <3> HIDE DEF R
    <3>4. /\ cpu_util[c] = Sum(Utils(reserve), R) /\ IsFiniteSet(R) /\ R \in SUBSET Tasks /\ Params(reserve, R)
      BY <3>3, CpuFacts DEF R
    <3>5. \A s \in R : Utils(reserve)[s] \in Nat
      BY <3>4, UtilsNat
    <3>6. M[c] \subseteq R
      BY <1>4, <1>6 DEF R
    <3>7. /\ Sum(Utils(reserve), M[c]) \in Nat /\ Sum(Utils(reserve), M[c]) <= Sum(Utils(reserve), R)
      BY <3>4, <3>5, <3>6, SumSubset
    <3> QED
      BY <3>2, <3>4, <3>7
  <2>2. cpu_open \in [CPUs -> BOOLEAN] /\ \A d \in CPUs : cpu_open[d] = (cpu_util[d] # 0)
    BY <1>3 DEF Reopen
  <2>3. open = [d \in CPUs |-> open[d]]
    BY <2>2
  <2>4. \A d \in CPUs : open[d] = (b.util[d] # 0)
    BY <1>4, <1>8, <2>1, <2>2
  <2> HIDE DEF open
  <2> QED
    BY <2>3, <2>4 DEF Reopen
<1> HIDE DEF open
<1>19. online \in SUBSET CPUs
  BY <1>3 DEF RestOk
<1>20. online' \in SUBSET CPUs /\ online \ ({c} \cap ClosedCPUs(open)) \subseteq online'
  BY <1>1, <1>19, DownType
<1> QED
  BY <1>1, <1>12, <1>15, <1>17, <1>18, <1>20 DEF M

\* A state whose books hold the tasks of M is one with M as its tasks.
LEMMA BoundIs ==
    ASSUME NEW M, M = [d \in CPUs |-> M[d]], \A d \in CPUs : Reserved(d)' = M[d]
    PROVE  Bound' = M
<1>1. Bound' = [d \in CPUs |-> Reserved(d)']
  BY DEF Bound
<1> QED
  BY <1>1

\* A step that leaves the books and the places of the tasks alone.
LEMMA SameBooks ==
    ASSUME IInv, UNCHANGED bookVars, \A d \in CPUs : Reserved(d)' = Reserved(d)
    PROVE  BooksOk(Books', Bound') /\ cpu_open' = Reopen(cpu_util')
<1>1. Books' = Books
  BY DEF Books, bookVars
<1>2. Bound' = Bound
  BY DEF Bound
<1>3. cpu_open' = cpu_open /\ cpu_util' = cpu_util
  BY DEF bookVars
<1> QED
  BY <1>1, <1>2, <1>3 DEF IInv

\* cancel_reserve.
LEMMA CancelBooks ==
    ASSUME IInv, NEW t \in Tasks, CancelReserve(t)
    PROVE  /\ IInv' /\ Shrinks
           /\ freq' = sysclock_compute(reserve', Leaders \cap alive')
           /\ online \ ClosedCPUs(cpu_open') \subseteq online'
<1> DEFINE res == [reserve EXCEPT ![t].flag = FALSE]
<1>1. /\ t \in alive /\ alive' = alive /\ partition_policy' = partition_policy /\ lastCpuID' = lastCpuID
      /\ freq' = sysclock_compute(res, Leaders \cap alive)
      /\ reserve[t].flag => Release(t, res)
      /\ ~reserve[t].flag => UNCHANGED bookVars
  BY DEF CancelReserve
<1>2. /\ reserve \in [Tasks -> Recs] /\ Books.reserve = reserve /\ \A d \in CPUs : Bound[d] = Reserved(d)
      /\ Books.tasks = cpu_tasks /\ Books.length = cpu_tasks_length /\ Books.util = cpu_util
  BY BooksFacts
<1>3. RestOk /\ BooksOk(Books, Bound)
  BY DEF IInv
<1>4. /\ res \in [Tasks -> Recs] /\ \A s \in Tasks \ {t} : res[s] = reserve[s]
      /\ res[t].flag = FALSE /\ res[t].util = reserve[t].util
      /\ res[t].budget = reserve[t].budget /\ res[t].period = reserve[t].period
  <2>1. reserve[t] \in Recs
    BY <1>2
  <2>2. [reserve[t] EXCEPT !.flag = FALSE] \in Recs
    BY <2>1 DEF Recs
  <2>3. res = [reserve EXCEPT ![t] = [reserve[t] EXCEPT !.flag = FALSE]]
    BY <1>2
  <2>4. res[t] = [reserve[t] EXCEPT !.flag = FALSE]
    BY <1>2, <2>3
  <2>5. res \in [Tasks -> Recs] /\ \A s \in Tasks \ {t} : res[s] = reserve[s]
    BY <1>2, <2>2, <2>3
  <2> HIDE DEF res
  <2> QED
    BY <2>1, <2>4, <2>5 DEF Recs
<1> HIDE DEF res
<1>5. alive \in SUBSET Tasks
  BY <1>3 DEF RestOk
<1>6. \A d \in CPUs : {s \in alive : res[s].flag /\ res[s].cpu = d} = Reserved(d) \ {t}
  BY <1>4, <1>5 DEF Reserved
<1>7. \A d \in CPUs : ReservedLeaders(res, Leaders \cap alive, d) \subseteq Reserved(d) \ {t}
  BY <1>6 DEF ReservedLeaders
<1>8. CASE reserve[t].flag
  <2>1. /\ BooksOk(Books', Without(t))
        /\ reserve' = res /\ Books'.reserve = res
        /\ cpu_open' = Reopen(cpu_util')
        /\ online' \in SUBSET CPUs
        /\ online \ ClosedCPUs(cpu_open') \subseteq online'
    BY <1>1, <1>4, <1>8, ReleaseBooks
  <2>2. \A d \in CPUs : Without(t)[d] = Reserved(d) \ {t}
    BY DEF Without
  <2>3. \A d \in CPUs : Reserved(d)' = Without(t)[d]
    BY <1>1, <1>6, <2>1, <2>2 DEF Reserved
  <2>4. Bound' = Without(t)
    <3>1. Without(t) = [d \in CPUs |-> Without(t)[d]]
      BY DEF Without
    <3> QED
      BY <2>3, <3>1, BoundIs
  <2>5. \A d \in CPUs : ReservedLeaders(res, Leaders \cap alive, d) \subseteq Without(t)[d]
    BY <1>7, <2>2
  <2>6. freq' \in 0 .. SYSCLOCK_MAX_FREQ
    <3> DEFINE e == Books'
    <3>1. BooksOk(e, Without(t)) /\ res = e.reserve
      BY <2>1
    <3> HIDE DEF e
    <3> QED
      BY <1>1, <2>5, <3>1, ClockedBooks
  <2>7. RestOk'
    BY <1>1, <1>3, <2>1, <2>6 DEF RestOk
  <2>8. IInv'
    BY <2>1, <2>4, <2>7 DEF IInv, Reopen
  <2>9. Shrinks
    <3>1. \A d \in CPUs : Reserved(d) \in SUBSET Tasks
      BY <1>5 DEF Reserved
    <3> QED
      BY <1>4, <2>1, <2>2, <2>3, <3>1 DEF Shrinks
  <2> QED
    BY <1>1, <2>1, <2>8, <2>9
<1>9. CASE ~reserve[t].flag
  <2>1. UNCHANGED bookVars /\ reserve' = reserve /\ online' = online
    BY <1>1, <1>9 DEF bookVars
  <2>2. \A d \in CPUs : Reserved(d)' = Reserved(d)
    BY <1>1, <2>1 DEF Reserved
  <2>3. BooksOk(Books', Bound') /\ cpu_open' = Reopen(cpu_util')
    BY <2>1, <2>2, SameBooks
  <2> DEFINE e == [tasks |-> Books.tasks, length |-> Books.length, util |-> Books.util, reserve |-> res]
  <2>4. BooksOk(e, Bound) /\ e.reserve = res
    <3>1. \A d \in CPUs : Agree(Books.reserve, res, Bound[d])
      <4>1. \A s \in Tasks : /\ res[s].util = reserve[s].util /\ res[s].budget = reserve[s].budget
                             /\ res[s].period = reserve[s].period
        BY <1>4
      <4>2. \A d \in CPUs : Bound[d] \subseteq Tasks
        BY <1>2, <1>5 DEF Reserved
      <4> QED
        BY <1>2, <4>1, <4>2 DEF Agree
    <3> QED
      BY <1>3, <1>4, <3>1, Rebook
  <2>5. \A d \in CPUs : ReservedLeaders(res, Leaders \cap alive, d) \subseteq Bound[d]
    BY <1>2, <1>7
  <2>6. freq' \in 0 .. SYSCLOCK_MAX_FREQ
    <3> HIDE DEF e
    <3> QED
      BY <1>1, <2>4, <2>5, ClockedBooks
  <2>7. RestOk'
    BY <1>1, <1>3, <2>1, <2>6 DEF RestOk
  <2>8. IInv'
    BY <2>3, <2>7 DEF IInv, Reopen
  <2>9. reserve[t].flag = FALSE
    <3>1. reserve[t] \in Recs
      BY <1>2
    <3> QED
      BY <1>9, <3>1 DEF Recs
  <2>10. res = reserve
    <3>1. [reserve[t] EXCEPT !.flag = FALSE] = reserve[t]
      <4>1. reserve[t] \in Recs
        BY <1>2
      <4> QED
        BY <2>9, <4>1 DEF Recs
    <3> QED
      BY <1>2, <3>1 DEF res
  <2> QED
    BY <1>1, <2>1, <2>2, <2>8, <2>10 DEF Shrinks
<1> QED
  BY <1>8, <1>9

\* do_exit.
LEMMA ExitBooks ==
    ASSUME IInv, NEW t \in Tasks, Exit(t)
    PROVE  /\ IInv' /\ Shrinks
           /\ online \ ClosedCPUs(cpu_open') \subseteq online'
<1>1. /\ t \in alive /\ alive' = alive \ {t}
      /\ freq' = freq /\ partition_policy' = partition_policy /\ lastCpuID' = lastCpuID
      /\ reserve[t].flag => Release(t, reserve)
      /\ ~reserve[t].flag => UNCHANGED bookVars
  BY DEF Exit
<1>2. reserve \in [Tasks -> Recs]
  BY BooksFacts
<1>3. RestOk
  BY DEF IInv
<1>4. CASE reserve[t].flag
  <2>1. /\ BooksOk(Books', Without(t)) /\ reserve' = reserve
        /\ cpu_open' = Reopen(cpu_util')
        /\ online' \in SUBSET CPUs
        /\ online \ ClosedCPUs(cpu_open') \subseteq online'
    <3>1. \A s \in Tasks \ {t} : reserve[s] = reserve[s]
      OBVIOUS
    <3> QED
      BY <1>1, <1>2, <1>4, <3>1, ReleaseBooks
  <2>2. \A d \in CPUs : Without(t)[d] = Reserved(d) \ {t}
    BY DEF Without
  <2>3. \A d \in CPUs : Reserved(d)' = Without(t)[d]
    BY <1>1, <2>1, <2>2 DEF Reserved
  <2>4. Bound' = Without(t)
    <3>1. Without(t) = [d \in CPUs |-> Without(t)[d]]
      BY DEF Without
    <3> QED
      BY <2>3, <3>1, BoundIs
  <2>5. RestOk'
    BY <1>1, <1>3, <2>1 DEF RestOk
  <2>6. IInv'
    BY <2>1, <2>4, <2>5 DEF IInv, Reopen
  <2> QED
    BY <2>1, <2>2, <2>3, <2>6 DEF Shrinks
<1>5. CASE ~reserve[t].flag
  <2>1. UNCHANGED bookVars /\ reserve' = reserve /\ online' = online
    BY <1>1, <1>5 DEF bookVars
  <2>2. \A d \in CPUs : Reserved(d)' = Reserved(d)
    BY <1>1, <1>5, <2>1 DEF Reserved
  <2>3. BooksOk(Books', Bound') /\ cpu_open' = Reopen(cpu_util')
    BY <2>1, <2>2, SameBooks
  <2>4. RestOk'
    BY <1>1, <1>3, <2>1 DEF RestOk
  <2>5. IInv'
    BY <2>3, <2>4 DEF IInv, Reopen
  <2> QED
    BY <2>1, <2>2, <2>5 DEF Shrinks
<1> QED
  BY <1>4, <1>5

\* A new process.
LEMMA ForkBooks ==
    ASSUME IInv, NEW t \in Tasks, Fork(t)
    PROVE  /\ IInv' /\ Shrinks
           /\ online' = online
<1>1. /\ t \notin alive /\ alive' = alive \cup {t} /\ reserve' = [reserve EXCEPT ![t] = Unreserved]
      /\ cpu_tasks' = cpu_tasks /\ cpu_tasks_length' = cpu_tasks_length /\ cpu_util' = cpu_util
      /\ cpu_open' = cpu_open /\ online' = online /\ freq' = freq
      /\ partition_policy' = partition_policy /\ lastCpuID' = lastCpuID
  BY DEF Fork
<1>2. /\ reserve \in [Tasks -> Recs] /\ Books.reserve = reserve /\ \A d \in CPUs : Bound[d] = Reserved(d)
      /\ Books.tasks = cpu_tasks /\ Books.length = cpu_tasks_length /\ Books.util = cpu_util
  BY BooksFacts
<1>3. RestOk /\ BooksOk(Books, Bound) /\ alive \in SUBSET Tasks /\ cpu_open = Reopen(cpu_util)
  BY DEF IInv, RestOk
<1>4. Unreserved \in Recs /\ Unreserved.flag = FALSE
  BY DEF Unreserved, Recs, CPUs
<1>5. /\ reserve' \in [Tasks -> Recs] /\ reserve'[t] = Unreserved
      /\ \A s \in Tasks \ {t} : reserve'[s] = reserve[s]
  BY <1>1, <1>2, <1>4
<1>6. \A d \in CPUs : Reserved(d)' = Reserved(d)
  BY <1>1, <1>3, <1>4, <1>5 DEF Reserved
<1>7. \A d \in CPUs : t \notin Reserved(d)
  BY <1>1 DEF Reserved
<1>8. Bound' = Bound
  BY <1>6 DEF Bound
<1> DEFINE res == reserve'
<1>9. Books' = [tasks |-> Books.tasks, length |-> Books.length, util |-> Books.util, reserve |-> res]
  BY <1>1, <1>2 DEF Books
<1>10. res \in [Tasks -> Recs] /\ \A d \in CPUs : Agree(Books.reserve, res, Bound[d])
  <2>1. \A d \in CPUs : Bound[d] \subseteq Tasks \ {t}
    BY <1>2, <1>3, <1>7 DEF Reserved
  <2> QED
    BY <1>2, <1>5, <2>1 DEF Agree
<1>11. BooksOk(Books', Bound)
  <2> DEFINE e == Books'
  <2>1. e = [tasks |-> Books.tasks, length |-> Books.length, util |-> Books.util, reserve |-> res]
    BY <1>9
  <2> HIDE DEF e, res
  <2>2. BooksOk(e, Bound)
    BY <1>3, <1>10, <2>1, Rebook
  <2> QED
    BY <2>2 DEF e
<1>12. RestOk'
  BY <1>1, <1>3 DEF RestOk
<1>13. IInv'
  BY <1>1, <1>3, <1>8, <1>11, <1>12 DEF IInv, Reopen
<1>14. Shrinks
  <2>1. \A d \in CPUs : Reserved(d) \subseteq Tasks \ {t}
    BY <1>3, <1>7 DEF Reserved
  <2> QED
    BY <1>5, <1>6, <2>1 DEF Shrinks
<1> QED
  BY <1>1, <1>13, <1>14

\* A policy is written.
LEMMA PolicyBooks ==
    ASSUME IInv, NEW policy \in Policies, StorePolicy(policy)
    PROVE  IInv' /\ Shrinks /\ online' = online
<1>1. /\ partition_policy' = policy /\ UNCHANGED bookVars /\ alive' = alive /\ freq' = freq
      /\ lastCpuID' = lastCpuID /\ reserve' = reserve /\ online' = online
  BY DEF StorePolicy, bookVars
<1>2. \A d \in CPUs : Reserved(d)' = Reserved(d)
  BY <1>1 DEF Reserved
<1>3. BooksOk(Books', Bound') /\ cpu_open' = Reopen(cpu_util')
  BY <1>1, <1>2, SameBooks
<1>4. RestOk'
  BY <1>1 DEF IInv, RestOk
<1>5. IInv'
  BY <1>3, <1>4 DEF IInv, Reopen
<1> QED
  BY <1>1, <1>2, <1>5 DEF Shrinks

\* No step of this component.
LEMMA StutterBooks ==
    ASSUME IInv, UNCHANGED vars
    PROVE  IInv' /\ Shrinks /\ online' = online
<1>1. /\ UNCHANGED bookVars /\ alive' = alive /\ freq' = freq /\ partition_policy' = partition_policy
      /\ lastCpuID' = lastCpuID /\ reserve' = reserve /\ online' = online
  BY DEF vars, bookVars
<1>2. \A d \in CPUs : Reserved(d)' = Reserved(d)
  BY <1>1 DEF Reserved
<1>3. BooksOk(Books', Bound') /\ cpu_open' = Reopen(cpu_util')
  BY <1>1, <1>2, SameBooks
<1>4. RestOk'
  BY <1>1 DEF IInv, RestOk
<1>5. IInv'
  BY <1>3, <1>4 DEF IInv, Reopen
<1> QED
  BY <1>1, <1>2, <1>5 DEF Shrinks

\* At first no task is reserved.
LEMMA InitBooks ==
    ASSUME Init
    PROVE  IInv /\ \A d \in CPUs : Reserved(d) = {}
<1>1. Unreserved \in Recs /\ Unreserved.flag = FALSE
  BY DEF Unreserved, Recs, CPUs
<1>2. \A d \in CPUs : Reserved(d) = {}
  <2>1. \A s \in alive : reserve[s].flag = FALSE
    BY <1>1 DEF Init
  <2> QED
    BY <2>1 DEF Reserved
<1>3. /\ cpu_tasks \in [CPUs -> Rows] /\ cpu_tasks_length \in [CPUs -> 0 .. TASK_SCHEDULING_LENGTH]
      /\ reserve \in [Tasks -> Recs] /\ cpu_util \in [CPUs -> 0 .. UTIL_MULTIPLE]
  BY <1>1, LengthNat, UtilMultiple DEF Init, Rows
<1>4. Books = [tasks |-> cpu_tasks, length |-> cpu_tasks_length, util |-> cpu_util, reserve |-> reserve]
  BY DEF Books
<1>5. Books \in BookType
  BY <1>3, <1>4 DEF BookType
<1>6. ASSUME NEW d \in CPUs
      PROVE  CpuOk(Books.tasks[d], Books.length[d], Books.util[d], Books.reserve, Bound[d])
  <2>1. /\ Books.length[d] = 0 /\ Books.util[d] = 0 /\ Bound[d] = {} /\ Books.tasks[d] \in Rows
        /\ Books.reserve = reserve
    BY <1>2, <1>3, <1>4 DEF Init, Bound
  <2>2. RowOk(Books.tasks[d], 0, reserve, {})
    BY <2>1, LengthNat DEF RowOk, Rows
  <2>3. Params(reserve, {})
    BY DEF Params
  <2>4. Sum(Utils(reserve), {}) = 0
    BY SumEmpty
  <2>5. Tested(reserve, {})
    <3>1. \A j \in {} : Covered(reserve, {}, j)
      OBVIOUS
    <3> QED
      BY <2>3, <3>1, CoveredTested
  <2> QED
    BY <2>1, <2>2, <2>3, <2>4, <2>5 DEF CpuOk
<1>7. BooksOk(Books, Bound)
  BY <1>5, <1>6 DEF BooksOk
<1>8. RestOk
  <2>1. 0 \in CPUs /\ SYSCLOCK_MAX_FREQ \in 0 .. SYSCLOCK_MAX_FREQ
    BY DEF CPUs, SYSCLOCK_MAX_FREQ
  <2> QED
    BY <2>1, AdmissionAssumption DEF Init, RestOk
<1>9. cpu_open = Reopen(cpu_util)
  BY DEF Init, Reopen
<1> QED
  BY <1>2, <1>7, <1>8, <1>9 DEF IInv

\* Only a revision fails at its files.
LEMMA Revises ==
    ASSUME Careful, NEW rq \in Requests, SetNoFiles(rq)
    PROVE  reserve[rq.t].flag
  BY DEF Careful, SetNoFiles

\* IInv is an invariant: through set_reserve with each of its failures,
\* cancel_reserve, do_exit and fork the books of every CPU are those of the
\* tasks reserved on it, and these have passed the tests of try_bind.
THEOREM Inductive == Careful => (Spec => []IInv)
<1> SUFFICES ASSUME Careful PROVE Spec => []IInv
  OBVIOUS
<1>1. Init => IInv
  BY InitBooks
<1>2. IInv /\ [Next]_vars => IInv'
  <2> SUFFICES ASSUME IInv, [Next]_vars PROVE IInv'
    OBVIOUS
  <2>0. ~AnyRevise
    BY DEF Careful
  <2>1. ASSUME NEW rq \in Requests, SetRejected(rq) PROVE IInv'
    BY <2>0, <2>1, RejectedBooks
  <2>2. ASSUME NEW rq \in Requests, SetUnbound(rq) PROVE IInv'
    BY <2>0, <2>2, UnboundBooks
  <2>3. ASSUME NEW rq \in Requests, SetReserved(rq) PROVE IInv'
    BY <2>0, <2>3, ReservedBooks
  <2>4. ASSUME NEW rq \in Requests, SetNoFiles(rq) PROVE IInv'
    BY <2>0, <2>4, Revises, ReservedBooks
  <2>5. ASSUME NEW t \in Tasks, CancelReserve(t) PROVE IInv'
    BY <2>5, CancelBooks
  <2>6. ASSUME NEW t \in Tasks, Exit(t) PROVE IInv'
    BY <2>6, ExitBooks
  <2>7. ASSUME NEW t \in Tasks, Fork(t) PROVE IInv'
    BY <2>7, ForkBooks
  <2>8. ASSUME NEW policy \in Policies, StorePolicy(policy) PROVE IInv'
    BY <2>8, PolicyBooks
  <2>9. CASE UNCHANGED vars
    BY <2>9, StutterBooks
  <2> QED
    BY <2>1, <2>2, <2>3, <2>4, <2>5, <2>6, <2>7, <2>8, <2>9 DEF Next
<1> QED
  BY <1>1, <1>2, PTL DEF Spec

-------------------------------------------------------------------------------
(***************************************************************************)
(* What follows for the books and the CPUs that are online.                *)
(***************************************************************************)
\* Types and bounds hold: the rows stay within their arrays and no CPU is
\* booked beyond 100%, whatever is placed, revised, undone, cancelled or
\* ended (try_bind, set_reserve, cancel_reserve and do_exit).
THEOREM AdmissionTypes == Careful => (Spec => []TypeOK)
<1> SUFFICES ASSUME Careful PROVE Spec => []TypeOK
  OBVIOUS
<1>1. IInv => TypeOK
  <2> SUFFICES ASSUME IInv PROVE TypeOK
    OBVIOUS
  <2>1. /\ cpu_tasks \in [CPUs -> Rows]
        /\ cpu_tasks_length \in [CPUs -> 0 .. TASK_SCHEDULING_LENGTH]
        /\ cpu_util \in [CPUs -> 0 .. UTIL_MULTIPLE]
        /\ reserve \in [Tasks -> Recs]
    BY BooksFacts
  <2>2. cpu_open \in [CPUs -> BOOLEAN]
    BY DEF IInv, Reopen
  <2> QED
    BY <2>1, <2>2 DEF TypeOK, IInv, RestOk, Rows, Recs
<1> QED
  BY <1>1, Inductive, PTL

\* The live slots of a row are exactly the tasks reserved on the CPU, by
\* period, through every placement, revision, cancellation and exit.
THEOREM AdmissionRows == Careful => (Spec => []RowsExact)
<1> SUFFICES ASSUME Careful PROVE Spec => []RowsExact
  OBVIOUS
<1>1. IInv => RowsExact
  <2> SUFFICES ASSUME IInv, NEW c \in CPUs
               PROVE  LET row == cpu_tasks[c]
                          live == Live(Books, c)
                      IN  /\ {row[i] : i \in live} = Reserved(c)
                          /\ \A i, j \in live : i < j => row[i] # row[j]
                          /\ \A i, j \in live : i < j => reserve[row[i]].period <= reserve[row[j]].period
    BY DEF RowsExact
  <2> DEFINE row == cpu_tasks[c]
             n == cpu_tasks_length[c]
             R == Reserved(c)
  <2>1. Live(Books, c) = 0 .. n - 1
    BY BooksFacts DEF Live
  <2>2. CpuOk(row, n, cpu_util[c], reserve, R)
    BY BooksFacts
  <2> HIDE DEF row, n, R
  <2>3. RowOk(row, n, reserve, R)
    BY <2>2, CpuFacts
  <2>4. /\ {row[i] : i \in 0 .. n - 1} = R
        /\ \A i, j \in 0 .. n - 1 : i < j => row[i] # row[j]
        /\ \A i, j \in 0 .. n - 1 : i < j => reserve[row[i]].period <= reserve[row[j]].period
    BY <2>3 DEF RowOk
  <2> QED
    BY <2>1, <2>4 DEF row, R
<1> QED
  BY <1>1, Inductive, PTL

\* cpu_util of a CPU is the sum of the utilizations of the tasks reserved
\* on it: set_reserve, cancel_reserve and do_exit subtract what they added.
THEOREM AdmissionBalance == Careful => (Spec => []BooksBalance)
<1> SUFFICES ASSUME Careful PROVE Spec => []BooksBalance
  OBVIOUS
<1>1. IInv => BooksBalance
  <2> SUFFICES ASSUME IInv, NEW c \in CPUs
               PROVE  cpu_util[c] = SumFunction([t \in Reserved(c) |-> reserve[t].util])
    BY DEF BooksBalance
  <2> DEFINE R == Reserved(c)
             f == [t \in R |-> reserve[t].util]
  <2>1. CpuOk(cpu_tasks[c], cpu_tasks_length[c], cpu_util[c], reserve, R)
    BY BooksFacts
  <2>2. DOMAIN f = R /\ \A t \in R : f[t] = reserve[t].util
    OBVIOUS
  <2> HIDE DEF R, f
  <2>3. /\ cpu_util[c] = Sum(Utils(reserve), R) /\ IsFiniteSet(R) /\ R \in SUBSET Tasks
        /\ Params(reserve, R)
    BY <2>1, CpuFacts
  <2>4. \A t \in R : Utils(reserve)[t] \in Nat /\ Utils(reserve)[t] = reserve[t].util
    BY <2>3, UtilsNat
  <2>5. Sum(Utils(reserve), R) = Sum(f, R)
    BY <2>2, <2>3, <2>4, SumSame
  <2>6. SumFunction(f) = Sum(f, R)
    BY <2>2, SumFun
  <2> QED
    BY <2>3, <2>5, <2>6 DEF f, R
<1> QED
  BY <1>1, Inductive, PTL

\* What every step does to the tasks that are bound and to the CPUs.
LEMMA Steps ==
    ASSUME Careful, IInv, [Next]_vars
    PROVE  /\ online \ ClosedCPUs(cpu_open') \subseteq online'
           /\ \/ Shrinks
              \/ \E rq \in Requests : \E c \in CPUs :
                    /\ reserve' = BoundTo(rq, c)
                    /\ c \notin ClosedCPUs(cpu_open') => c \in online'
                    /\ \A d \in CPUs : Reserved(d)' \subseteq IF d = c THEN Reserved(d) \cup {rq.t} ELSE Reserved(d)
<1>0. ~AnyRevise
  BY DEF Careful
<1>1. ASSUME NEW rq \in Requests, SetRejected(rq) PROVE Shrinks /\ online' = online
  BY <1>0, <1>1, RejectedBooks
<1>2. ASSUME NEW rq \in Requests, SetUnbound(rq) PROVE Shrinks /\ online \subseteq online'
  BY <1>0, <1>2, UnboundBooks
<1>3. ASSUME NEW rq \in Requests, SetReserved(rq) \/ SetNoFiles(rq)
      PROVE  /\ online \ ClosedCPUs(cpu_open') \subseteq online'
             /\ \E c \in CPUs :
                    /\ reserve' = BoundTo(rq, c)
                    /\ c \notin ClosedCPUs(cpu_open') => c \in online'
                    /\ \A d \in CPUs : Reserved(d)' \subseteq IF d = c THEN Reserved(d) \cup {rq.t} ELSE Reserved(d)
  <2> DEFINE p == Place(rq)
  <2>1. SetReserved(rq) \/ (SetNoFiles(rq) /\ reserve[rq.t].flag)
    BY <1>3, Revises
  <2>2. p = Place(rq)
    OBVIOUS
  <2> HIDE DEF p
  <2>3. /\ reserve' = BoundTo(rq, p.cpu) /\ p.cpu \in CPUs
        /\ online \ ClosedCPUs(cpu_open') \subseteq online'
        /\ p.cpu \notin ClosedCPUs(cpu_open') => p.cpu \in online'
        /\ \A d \in CPUs : Reserved(d)' \subseteq IF d = p.cpu THEN Reserved(d) \cup {rq.t} ELSE Reserved(d)
    BY <1>0, <2>1, <2>2, ReservedBooks
  <2> QED
    BY <2>3
<1>4. ASSUME NEW t \in Tasks, CancelReserve(t) PROVE Shrinks /\ online \ ClosedCPUs(cpu_open') \subseteq online'
  BY <1>4, CancelBooks
<1>5. ASSUME NEW t \in Tasks, Exit(t) PROVE Shrinks /\ online \ ClosedCPUs(cpu_open') \subseteq online'
  BY <1>5, ExitBooks
<1>6. ASSUME NEW t \in Tasks, Fork(t) PROVE Shrinks /\ online' = online
  BY <1>6, ForkBooks
<1>7. ASSUME NEW policy \in Policies, StorePolicy(policy) PROVE Shrinks /\ online' = online
  BY <1>7, PolicyBooks
<1>8. CASE UNCHANGED vars
  BY <1>8, StutterBooks
<1>9. CASE \E rq \in Requests : SetReserved(rq) \/ SetNoFiles(rq)
  BY <1>3, <1>9
<1>10. CASE \E rq \in Requests : SetRejected(rq) \/ SetUnbound(rq)
  BY <1>1, <1>2, <1>10
<1>11. CASE \E t \in Tasks : CancelReserve(t) \/ Exit(t) \/ Fork(t)
  BY <1>4, <1>5, <1>6, <1>11
<1>12. CASE \E policy \in Policies : StorePolicy(policy)
  BY <1>7, <1>12
<1> QED
  BY <1>8, <1>9, <1>10, <1>11, <1>12 DEF Next

\* A task that is bound has a utilization.
Coarse == \A c \in CPUs : \A t \in Reserved(c) : reserve[t].util # 0

\* A CPU with a bound task is used.
Used == \A c \in CPUs : Reserved(c) # {} => cpu_util[c] # 0

\* A CPU with a task that has a utilization is used.
LEMMA UsedCoarse == IInv /\ Coarse => Used
<1> SUFFICES ASSUME IInv, Coarse, NEW c \in CPUs, NEW t \in Reserved(c) PROVE cpu_util[c] # 0
  BY DEF Used
<1> DEFINE R == Reserved(c)
<1>1. CpuOk(cpu_tasks[c], cpu_tasks_length[c], cpu_util[c], reserve, R)
  BY BooksFacts
<1>2. t \in R /\ reserve[t].util # 0
  BY DEF Coarse
<1> HIDE DEF R
<1>3. /\ cpu_util[c] = Sum(Utils(reserve), R) /\ IsFiniteSet(R) /\ R \in SUBSET Tasks
      /\ Params(reserve, R)
  BY <1>1, CpuFacts
<1>4. \A s \in R : Utils(reserve)[s] \in Nat /\ Utils(reserve)[s] = reserve[s].util
  BY <1>3, UtilsNat
<1>5. Sum(Utils(reserve), R) = Utils(reserve)[t] + Sum(Utils(reserve), R \ {t})
  BY <1>2, <1>3, <1>4, SumRemove
<1>6. Sum(Utils(reserve), R \ {t}) \in Nat
  <2>1. IsFiniteSet(R \ {t})
    BY <1>3, FS_RemoveElement
  <2> QED
    BY <1>4, <2>1, SumNat
<1> QED
  BY <1>2, <1>3, <1>4, <1>5, <1>6

\* A CPU with a reserved task is used, if no request is tiny.
LEMMA AlwaysUsed == Careful /\ NoTiny => (Spec => []Used)
<1> SUFFICES ASSUME Careful, NoTiny PROVE Spec => []Used
  OBVIOUS
<1>1. Init => Coarse
  BY InitBooks DEF Coarse
<1>2. IInv /\ Coarse /\ [Next]_vars => Coarse'
  <2> SUFFICES ASSUME IInv, Coarse, [Next]_vars, NEW d \in CPUs, NEW s \in Reserved(d)'
               PROVE  reserve'[s].util # 0
    BY DEF Coarse
  <2>1. CASE Shrinks
    BY <2>1 DEF Shrinks, Coarse
  <2>2. CASE ~Shrinks
    <3>1. PICK rq \in Requests, c \in CPUs :
            /\ reserve' = BoundTo(rq, c)
            /\ \A e \in CPUs : Reserved(e)' \subseteq IF e = c THEN Reserved(e) \cup {rq.t} ELSE Reserved(e)
      BY <2>2, Steps
    <3>2. reserve \in [Tasks -> Recs] /\ RestOk
      BY BooksFacts DEF IInv
    <3>3. /\ \A x \in Tasks \ {rq.t} : reserve'[x] = reserve[x]
          /\ reserve'[rq.t].util = (rq.C * UTIL_MULTIPLE) \div rq.T
      BY <3>1, <3>2, BoundToFacts
    <3>4. CASE s = rq.t
      <4> DEFINE C == rq.C * UTIL_MULTIPLE
                 T == rq.T
      <4>1. C \in Nat /\ T \in Nat \ {0} /\ T <= C
        <5>1. rq.C \in Nat /\ T \in Nat \ {0} /\ T <= C
          BY RequestFacts DEF NoTiny
        <5> QED
          BY <5>1, UtilMultiple
      <4> HIDE DEF C, T
      <4>2. C < T * (C \div T) + T /\ C \div T \in Nat
        BY <4>1, DivFacts
      <4>3. C \div T # 0
        BY <4>1, <4>2
      <4> QED
        BY <3>3, <3>4, <4>3 DEF C, T
    <3>5. CASE s # rq.t
      <4>1. s \in Reserved(d)
        BY <3>1, <3>5
      <4>2. s \in Tasks
        BY <3>2, <4>1 DEF Reserved, RestOk
      <4> QED
        BY <3>3, <3>5, <4>1, <4>2 DEF Coarse
    <3> QED
      BY <3>4, <3>5
  <2> QED
    BY <2>1, <2>2
<1> QED
  BY <1>1, <1>2, Inductive, UsedCoarse, PTL DEF Spec

\* No call takes a CPU with a reserved task down, if every reservation is
\* for 1/10000 of a CPU at least: the bins are closed by cpu_util, to which
\* a smaller one adds nothing.
THEOREM AdmissionOnline == Careful /\ NoTiny => (Spec => []ReservedOnline)
<1> SUFFICES ASSUME Careful, NoTiny PROVE Spec => []ReservedOnline
  OBVIOUS
<1>1. Init => ReservedOnline
  BY InitBooks DEF ReservedOnline
<1>2. IInv /\ IInv' /\ Used' /\ ReservedOnline /\ [Next]_vars => ReservedOnline'
  <2> SUFFICES ASSUME IInv, IInv', Used', ReservedOnline, [Next]_vars, NEW d \in CPUs, Reserved(d)' # {}
               PROVE  d \in online'
    BY DEF ReservedOnline
  <2>1. d \notin ClosedCPUs(cpu_open')
    <3>1. cpu_util'[d] # 0
      BY DEF Used
    <3>2. cpu_open' = [c \in CPUs |-> cpu_util'[c] # 0]
      BY DEF IInv, Reopen
    <3> QED
      BY <3>1, <3>2 DEF ClosedCPUs
  <2>2. Reserved(d) # {} => d \in online'
    BY <2>1, Steps DEF ReservedOnline
  <2>3. CASE Shrinks
    BY <2>2, <2>3 DEF Shrinks
  <2>4. CASE ~Shrinks
    <3>1. PICK rq \in Requests, c \in CPUs :
            /\ c \notin ClosedCPUs(cpu_open') => c \in online'
            /\ \A e \in CPUs : Reserved(e)' \subseteq IF e = c THEN Reserved(e) \cup {rq.t} ELSE Reserved(e)
      BY <2>4, Steps
    <3> QED
      BY <2>1, <2>2, <3>1
  <2> QED
    BY <2>3, <2>4
<1> QED
  BY <1>1, <1>2, Inductive, AlwaysUsed, PTL DEF Spec

-------------------------------------------------------------------------------
(***************************************************************************)
(* The requests that are turned away, and the bins that are opened.        *)
(***************************************************************************)
\* A CPU that would carry a request, as the reference says, passes the tests
\* of try_bind.
LEMMA FitsCarries ==
    ASSUME IInv, NEW rq \in Requests, NEW c \in CPUs, Fits(rq, c)
    PROVE  Carries(Revised(rq), Without(rq.t)[c], rq.t)
<1> DEFINE t == rq.t
           R == Reserved(c) \ {t}
           S == R \cup {t}
           old == [reserve EXCEPT ![t].budget = rq.C, ![t].period = rq.T]
           new == Revised(rq)
<1>1. /\ reserve \in [Tasks -> Recs]
      /\ CpuOk(cpu_tasks[c], cpu_tasks_length[c], cpu_util[c], reserve, Reserved(c))
  BY BooksFacts
<1>2. t \in Tasks /\ rq.C \in Nat \ {0} /\ rq.T \in Nat \ {0}
  BY RequestFacts
<1>3. /\ Params(reserve, Reserved(c)) /\ Reserved(c) \in SUBSET Tasks /\ IsFiniteSet(Reserved(c))
  <2> DEFINE Q == Reserved(c)
  <2>1. CpuOk(cpu_tasks[c], cpu_tasks_length[c], cpu_util[c], reserve, Q)
    BY <1>1
  <2> HIDE DEF Q
  <2>2. Params(reserve, Q) /\ Q \in SUBSET Tasks /\ IsFiniteSet(Q)
    BY <2>1, CpuFacts
  <2> QED
    BY <2>2 DEF Q
<1>4. Cardinality(S) <= TASK_SCHEDULING_LENGTH /\ MeetsDeadlines(old, S, SYSCLOCK_MAX_FREQ)
  BY DEF Fits
<1>5. Without(t)[c] = R
  BY DEF Without
<1>6. /\ new \in [Tasks -> Recs]
      /\ \A s \in Tasks \ {t} : new[s] = reserve[s]
      /\ new[t].budget = rq.C /\ new[t].period = rq.T /\ Params(new, {t})
  BY <1>1, RevisedFacts
<1> HIDE DEF new
<1>7. \A s \in S : old[s].budget = new[s].budget /\ old[s].period = new[s].period
  <2>1. reserve[t] \in Recs
    BY <1>1, <1>2
  <2>2. old[t].budget = rq.C /\ old[t].period = rq.T
    BY <1>1, <1>2, <2>1 DEF Recs
  <2>3. \A s \in Tasks \ {t} : old[s] = reserve[s]
    BY <1>1
  <2>4. S \in SUBSET Tasks
    BY <1>2, <1>3
  <2> QED
    BY <1>6, <2>2, <2>3, <2>4
<1>8. /\ IsFiniteSet(R) /\ t \notin R /\ R \in SUBSET Tasks
      /\ S \in SUBSET Tasks /\ IsFiniteSet(S) /\ Cardinality(S) = Cardinality(R) + 1
      /\ Cardinality(R) \in Nat
  <2>1. IsFiniteSet(R) /\ t \notin R /\ R \in SUBSET Tasks
    BY <1>3, FS_Subset
  <2> HIDE DEF R
  <2> QED
    BY <1>2, <2>1, FS_AddElement, FS_CardinalityType
<1>9. Params(new, S)
  <2>1. \A s \in R : new[s] = reserve[s] /\ s \in Reserved(c)
    BY <1>3, <1>6
  <2> HIDE DEF R
  <2> QED
    BY <1>3, <1>6, <2>1 DEF Params
<1> HIDE DEF S, old
<1>10. \A j \in S : Covered(new, S, j)
  BY <1>4, <1>7, <1>8, <1>9, MeetsCovered
<1>11. Tested(new, S)
  BY <1>8, <1>9, <1>10, CoveredTested
<1>12. Sum(Utils(new), S) <= UTIL_MULTIPLE
  BY <1>8, <1>9, <1>10, CoveredUtil
<1>13. Cardinality(R) # TASK_SCHEDULING_LENGTH
  BY <1>4, <1>8, LengthNat
<1> QED
  BY <1>5, <1>11, <1>12, <1>13 DEF Carries, S, new

\* A request is turned away only if no CPU that it may use could carry it:
\* first fit and next fit look at every open bin and at one closed bin, which
\* stands for all of them.  (sortCPU, which the other policies use, leaves a
\* CPU out when all CPUs are used alike.)
THEOREM AdmissionRejects == Careful /\ NoTiny /\ AllCPUs => (Spec => []RejectsOnlyMisfits)
<1> SUFFICES ASSUME Careful, NoTiny, AllCPUs PROVE Spec => []RejectsOnlyMisfits
  OBVIOUS
<1>1. IInv /\ Used => RejectsOnlyMisfits
  <2> SUFFICES ASSUME IInv, Used, NEW rq \in Requests, Calls(rq), ~Place(rq).ok,
                      NEW c \in CPUs, rq.cpuid \in {-1, c}, Fits(rq, c)
               PROVE  FALSE
    BY DEF RejectsOnlyMisfits
  <2> DEFINE p == Place(rq)
             t == rq.t
             b == Placing(rq)
             M == Without(t)
             order == OrderOf(rq)
             res == Revised(rq)
  <2>0. ~AnyRevise
    BY DEF Careful
  <2>1. Carries(res, M[c], t)
    BY FitsCarries
  <2>2. BooksOk(b, M) /\ b.reserve = res /\ Homeless(b.reserve, M, t)
    BY <2>0, PlacingBooks
  <2>3. p = IF rq.cpuid = -1 THEN Search(b, t, order) ELSE TryBind(b, t, rq.cpuid)
    BY DEF Place, OrderOf
  <2>4. \A k \in 1 .. 4 : order[k] \in CPUs
    BY <2>0, PlaceOrder
  <2>5. partition_policy \in {"FFD", "NFD"} => Complete(order)
    BY <2>0, PlaceOrder
  <2>6. rq.cpuid = -1 => partition_policy \in {"FFD", "NFD"}
    BY DEF AllCPUs, IInv, RestOk
  <2>7. ~p.ok
    OBVIOUS
  <2>8. \A d \in CPUs : ~Tries(d) => M[d] = {}
    <3>1. \A d \in CPUs : cpu_open[d] = (cpu_util[d] # 0)
      BY DEF IInv, Reopen
    <3>2. \A d \in CPUs : M[d] = Reserved(d) \ {t}
      BY DEF Without
    <3> HIDE DEF M
    <3> QED
      BY <3>1, <3>2 DEF Tries, Used
  <2> HIDE DEF b, order, M, t, p, res
  <2>9. CASE rq.cpuid # -1
    <3>1. rq.cpuid = c
      BY <2>9
    <3>2. p = TryBind(b, t, c)
      BY <2>3, <2>9, <3>1
    <3>3. p.ok <=> Carries(b.reserve, M[c], t)
      BY <2>2, <3>2, TryBindTrial
    <3> QED
      BY <2>1, <2>2, <2>7, <3>3
  <2>10. CASE rq.cpuid = -1
    <3>1. p = Search(b, t, order)
      BY <2>3, <2>10
    <3>2. /\ \A k \in 1 .. 4 : Tries(order[k]) => ~Carries(b.reserve, M[order[k]], t)
          /\ Passed(order) # {} => \E k \in Passed(order) : ~Carries(b.reserve, M[order[k]], t)
      BY <2>2, <2>4, <2>7, <3>1, SearchTrial
    <3>3. PICK k \in 1 .. 4 : order[k] = c
      BY <2>5, <2>6, <2>10 DEF Complete
    <3>4. ~Tries(c)
      BY <2>1, <2>2, <3>2, <3>3
    <3>5. k \in Passed(order)
      BY <3>3, <3>4 DEF Passed
    <3>6. PICK j \in Passed(order) : ~Carries(b.reserve, M[order[j]], t)
      BY <3>2, <3>5
    <3>7. order[j] \in CPUs /\ ~Tries(order[j])
      BY <2>4, <3>6 DEF Passed
    <3>8. M[order[j]] = {} /\ M[c] = {}
      BY <2>8, <3>4, <3>7
    <3> QED
      BY <2>1, <2>2, <3>6, <3>8
  <2> QED
    BY <2>9, <2>10
<1> QED
  BY <1>1, Inductive, AlwaysUsed, PTL

\* A policy other than LST opens a bin for a new reservation only if no open
\* bin could carry it.  (When a bin is closed and another open they are not
\* all used alike, so that sortCPU leaves none out.)
THEOREM AdmissionOpens == Careful => (Spec => []OpensOnlyWhenNeeded)
<1> SUFFICES ASSUME Careful PROVE Spec => []OpensOnlyWhenNeeded
  OBVIOUS
<1>1. IInv => OpensOnlyWhenNeeded
  <2> SUFFICES ASSUME IInv, NEW rq \in Requests, ~reserve[rq.t].flag, OpensNeedlessly(rq)
               PROVE  FALSE
    BY DEF OpensOnlyWhenNeeded
  <2> DEFINE p == Place(rq)
             t == rq.t
             b == Placing(rq)
             M == Without(t)
             order == OrderOf(rq)
             res == Revised(rq)
  <2>0. ~AnyRevise
    BY DEF Careful
  <2>1. /\ Calls(rq) /\ rq.cpuid = -1 /\ partition_policy # "LST"
        /\ p.ok /\ ~cpu_open[p.cpu] /\ \E c \in CPUs : cpu_open[c] /\ Fits(rq, c)
    BY DEF OpensNeedlessly
  <2>2. PICK c \in CPUs : cpu_open[c] /\ Fits(rq, c)
    BY <2>1
  <2>3. Carries(res, M[c], t)
    BY <2>2, FitsCarries
  <2>4. BooksOk(b, M) /\ b.reserve = res /\ Homeless(b.reserve, M, t)
    BY <2>0, <2>1, PlacingBooks
  <2>5. p = Search(b, t, order)
    BY <2>1 DEF Place, OrderOf
  <2>6. \A k \in 1 .. 4 : order[k] \in CPUs
    BY <2>0, <2>1, PlaceOrder
  <2>7. (\E d, e \in CPUs : cpu_util[d] # cpu_util[e]) => Complete(order)
    BY <2>0, <2>1, PlaceOrder
  <2> HIDE DEF b, order, M, t, p, res
  <2>8. /\ Trial(p, b.reserve, M, t)
        /\ p.ok /\ ~Tries(p.cpu) =>
             \A k \in 1 .. 4 : Tries(order[k]) => ~Carries(b.reserve, M[order[k]], t)
    BY <2>4, <2>5, <2>6, SearchTrial
  <2>9. p.cpu \in CPUs
    BY <2>1, <2>8 DEF Trial
  <2>10. cpu_util[p.cpu] = 0 /\ cpu_util[c] # 0
    <3>1. \A d \in CPUs : cpu_open[d] = (cpu_util[d] # 0)
      BY DEF IInv, Reopen
    <3> QED
      BY <2>1, <2>2, <2>9, <3>1
  <2>11. Complete(order)
    BY <2>7, <2>9, <2>10
  <2>12. PICK k \in 1 .. 4 : order[k] = c
    BY <2>11 DEF Complete
  <2>13. ~Tries(p.cpu) /\ Tries(order[k])
    BY <2>1, <2>2, <2>12 DEF Tries
  <2> QED
    BY <2>1, <2>3, <2>4, <2>8, <2>12, <2>13
<1> QED
  BY <1>1, Inductive, PTL

-------------------------------------------------------------------------------
(***************************************************************************)
(* Deadlines, at the full frequency and at the one asked for.              *)
(***************************************************************************)
\* The work of MeetsDeadlines is a sum of demands.
LEMMA WorkIs ==
    ASSUME NEW old, NEW res, NEW S \in SUBSET Tasks, IsFiniteSet(S), Params(res, S),
           \A t \in S : old[t].budget = res[t].budget /\ old[t].period = res[t].period,
           NEW j \in S, NEW p \in Nat
    PROVE  /\ SumFunction([k \in {k \in S : old[k].period <= old[j].period} |->
                              Demand(old[k].budget, old[k].period, p)])
                = Sum(Demands(res, p), UpTo(res, S, j))
           /\ Sum(Demands(res, p), UpTo(res, S, j)) \in Nat
<1> DEFINE urgent == {k \in S : old[k].period <= old[j].period}
           F == [k \in urgent |-> Demand(old[k].budget, old[k].period, p)]
           U == UpTo(res, S, j)
<1>1. urgent = U /\ U \subseteq S
  BY DEF UpTo
<1>2. IsFiniteSet(U)
  BY <1>1, FS_Subset
<1>3. \A t \in U : Demands(res, p)[t] \in Nat
  BY <1>1, DemandsNat
<1>4. \A t \in U : F[t] = Demands(res, p)[t]
  BY <1>1 DEF Demands
<1>5. DOMAIN F = U
  BY <1>1
<1> HIDE DEF F, U, urgent
<1>6. SumFunction(F) = Sum(F, U)
  BY <1>5, SumFun
<1>7. Sum(F, U) = Sum(Demands(res, p), U) /\ Sum(Demands(res, p), U) \in Nat
  <2>1. \A t \in U : F[t] \in Nat
    BY <1>3, <1>4
  <2> QED
    BY <1>2, <1>3, <1>4, <2>1, SumSame, SumNat
<1> QED
  BY <1>6, <1>7 DEF F, U, urgent

\* j has an instant by which a CPU at f of SYSCLOCK_MAX_FREQ has done its
\* work and the more urgent work.
CoveredAt(res, S, j, f) ==
    \E p \in 1 .. res[j].period :
        SYSCLOCK_MAX_FREQ * Sum(Demands(res, p), UpTo(res, S, j)) <= p * f

\* The reference test in these terms.
LEMMA MeetsIff ==
    ASSUME NEW res, NEW S \in SUBSET Tasks, IsFiniteSet(S), Params(res, S), NEW f
    PROVE  MeetsDeadlines(res, S, f) <=> \A j \in S : CoveredAt(res, S, j, f)
<1> DEFINE W(j, p) == SumFunction([k \in {k \in S : res[k].period <= res[j].period} |->
                                    Demand(res[k].budget, res[k].period, p)])
<1>1. MeetsDeadlines(res, S, f) <=>
        \A j \in S : \E p \in 1 .. res[j].period : SYSCLOCK_MAX_FREQ * W(j, p) <= p * f
  BY DEF MeetsDeadlines
<1>2. ASSUME NEW j \in S, NEW p \in 1 .. res[j].period
      PROVE  W(j, p) = Sum(Demands(res, p), UpTo(res, S, j))
  <2>1. p \in Nat
    BY DEF Params
  <2> QED
    BY <2>1, WorkIs
<1> HIDE DEF W
<1> QED
  BY <1>1, <1>2 DEF CoveredAt

\* At the full frequency, CoveredAt is what the response time test shows.
LEMMA CoveredFull ==
    ASSUME NEW res, NEW S \in SUBSET Tasks, IsFiniteSet(S), Params(res, S), NEW j \in S
    PROVE  CoveredAt(res, S, j, SYSCLOCK_MAX_FREQ) <=> Covered(res, S, j)
<1>1. ASSUME NEW p \in 1 .. res[j].period
      PROVE  SYSCLOCK_MAX_FREQ * Sum(Demands(res, p), UpTo(res, S, j)) <= p * SYSCLOCK_MAX_FREQ
                <=> Sum(Demands(res, p), UpTo(res, S, j)) <= p
  <2> DEFINE X == Sum(Demands(res, p), UpTo(res, S, j))
  <2>1. p \in Nat
    BY DEF Params
  <2>2. X \in Nat
    BY <2>1, WorkIs
  <2> HIDE DEF X
  <2>3. 1200 * X <= p * 1200 <=> X <= p
    BY <2>1, <2>2
  <2> QED
    BY <2>3 DEF X, SYSCLOCK_MAX_FREQ
<1> QED
  BY <1>1 DEF CoveredAt, Covered

\* The tasks of S have parameters that some request asked for.
Asked(res, S) ==
    \A t \in S : \E rq \in Requests :
        rq.t = t /\ res[t].budget = rq.C /\ res[t].period = rq.T

\* The kit is what the tasks of S have asked for.
KitOf(kit, res, S) ==
    /\ DOMAIN kit = S
    /\ \A t \in S : res[t].budget = kit[t].C /\ res[t].period = kit[t].T

\* Tasks that have asked for their parameters have a kit.
LEMMA KitExists ==
    ASSUME NEW res, NEW S \in SUBSET Tasks, Asked(res, S)
    PROVE  \E kit \in Kits : KitOf(kit, res, S)
<1> DEFINE Asks(t, rq) == rq.t = t /\ res[t].budget = rq.C /\ res[t].period = rq.T
           kit == [t \in S |-> CHOOSE rq \in Requests : Asks(t, rq)]
<1>1. \A t \in S : kit[t] \in Requests /\ Asks(t, kit[t])
  BY DEF Asked
<1>2. DOMAIN kit = S /\ kit \in [S -> Requests]
  BY <1>1
<1> HIDE DEF kit
<1>3. kit \in {k \in [S -> Requests] : \A t \in S : k[t].t = t}
  BY <1>1, <1>2
<1>4. kit \in Kits
  BY <1>3 DEF Kits
<1> QED
  BY <1>1, <1>2, <1>4 DEF KitOf

\* The sums over a kit are those over its tasks.
LEMMA KitSums ==
    ASSUME NEW res, NEW S \in SUBSET Tasks, IsFiniteSet(S), Params(res, S), NEW kit, KitOf(kit, res, S)
    PROVE  /\ KitUtil(kit) = Sum(Utils(res), S)
           /\ \A p \in Nat : KitDemand(kit, p) = Sum(Demands(res, p), S)
<1>0. DOMAIN kit = S /\ \A t \in S : res[t].budget = kit[t].C /\ res[t].period = kit[t].T
  BY DEF KitOf
<1>1. KitUtil(kit) = Sum(Utils(res), S)
  <2> DEFINE F == [t \in S |-> (kit[t].C * UTIL_MULTIPLE) \div kit[t].T]
  <2>1. KitUtil(kit) = SumFunction(F)
    BY <1>0 DEF KitUtil
  <2>2. \A t \in S : Utils(res)[t] \in Nat /\ Utils(res)[t] = res[t].util
    BY UtilsNat
  <2>3. \A t \in S : F[t] = (res[t].budget * UTIL_MULTIPLE) \div res[t].period
    BY <1>0
  <2>4. \A t \in S : F[t] = Utils(res)[t]
    BY <2>2, <2>3 DEF Params
  <2>5. DOMAIN F = S
    OBVIOUS
  <2> HIDE DEF F
  <2>6. SumFunction(F) = Sum(F, S)
    BY <2>5, SumFun
  <2>7. Sum(F, S) = Sum(Utils(res), S)
    <3>1. \A t \in S : F[t] \in Nat
      BY <2>2, <2>4
    <3> QED
      BY <2>4, <3>1, SumSame
  <2> QED
    BY <2>1, <2>6, <2>7
<1>2. ASSUME NEW p \in Nat PROVE KitDemand(kit, p) = Sum(Demands(res, p), S)
  <2> DEFINE F == [t \in S |-> Demand(kit[t].C, kit[t].T, p)]
  <2>1. KitDemand(kit, p) = SumFunction(F)
    BY <1>0 DEF KitDemand
  <2>2. \A t \in S : Demands(res, p)[t] \in Nat
    BY DemandsNat
  <2>3. \A t \in S : F[t] = Demands(res, p)[t]
    BY <1>0 DEF Demands
  <2>5. DOMAIN F = S
    OBVIOUS
  <2> HIDE DEF F
  <2>6. SumFunction(F) = Sum(F, S)
    BY <2>5, SumFun
  <2>7. Sum(F, S) = Sum(Demands(res, p), S)
    <3>1. \A t \in S : F[t] \in Nat
      BY <2>2, <2>3
    <3> QED
      BY <2>3, <3>1, SumSame
  <2> QED
    BY <2>1, <2>6, <2>7
<1> QED
  BY <1>1, <1>2

\* If the utilization bounds are sufficient for what has been asked for, each
\* task that passed one of the two tests meets its deadline.
LEMMA TestedCovered ==
    ASSUME BoundSound, NEW res, NEW S \in SUBSET Tasks, IsFiniteSet(S), Params(res, S),
           Asked(res, S), Tested(res, S), NEW j \in S
    PROVE  Covered(res, S, j)
<1>1. PICK q \in Nat :
        /\ Sum(Utils(res), Shorter(res, S, q)) <= UtilBound(Cardinality(Shorter(res, S, q)))
        /\ \A i \in S \ Shorter(res, S, q) : Covered(res, S, i)
  BY DEF Tested
<1> DEFINE L == Shorter(res, S, q)
<1>2. L \subseteq S /\ \A k \in S : k \in L <=> res[k].period < q
  BY DEF Shorter
<1>3. CASE j \notin L
  BY <1>1, <1>3
<1>4. CASE j \in L
  <2>1. UpTo(res, L, j) = UpTo(res, S, j)
    <3>1. ASSUME NEW k \in S, res[k].period <= res[j].period PROVE k \in L
      <4>1. res[k].period \in Nat /\ res[j].period \in Nat /\ res[j].period < q
        BY <1>2, <1>4 DEF Params
      <4> QED
        BY <1>2, <3>1, <4>1
    <3> HIDE DEF L
    <3> QED
      BY <1>2, <3>1 DEF UpTo
  <2>2. Sum(Utils(res), L) <= UtilBound(Cardinality(L))
    BY <1>1
  <2> HIDE DEF L
  <2>3. L \in SUBSET Tasks /\ IsFiniteSet(L) /\ Params(res, L) /\ Asked(res, L)
    BY <1>2, FS_Subset DEF Params, Asked
  <2>4. PICK kit \in Kits : KitOf(kit, res, L)
    BY <2>3, KitExists
  <2>5. KitUtil(kit) = Sum(Utils(res), L) /\ DOMAIN kit = L
    BY <2>3, <2>4, KitSums DEF KitOf
  <2>6. MeetsDeadlines(KitReserve(kit), L, SYSCLOCK_MAX_FREQ)
    BY <2>2, <2>4, <2>5 DEF BoundSound
  <2>7. \A t \in L : /\ KitReserve(kit)[t].budget = res[t].budget
                     /\ KitReserve(kit)[t].period = res[t].period
    BY <2>4, <2>5 DEF KitReserve, KitOf
  <2> DEFINE old == KitReserve(kit)
  <2>8. /\ MeetsDeadlines(old, L, SYSCLOCK_MAX_FREQ)
        /\ \A t \in L : old[t].budget = res[t].budget /\ old[t].period = res[t].period
    BY <2>6, <2>7
  <2> HIDE DEF old
  <2>9. Covered(res, L, j)
    BY <1>4, <2>3, <2>8, MeetsCovered
  <2> QED
    BY <2>1, <2>9 DEF Covered
<1> QED
  BY <1>3, <1>4

\* The tasks of every CPU have the parameters of some request.
AllAsked == \A c \in CPUs : Asked(reserve, Reserved(c))

\* A task is reserved with the parameters of a request.
LEMMA AlwaysAsked == Careful => (Spec => []AllAsked)
<1> SUFFICES ASSUME Careful PROVE Spec => []AllAsked
  OBVIOUS
<1>1. Init => AllAsked
  BY InitBooks DEF AllAsked, Asked
<1>2. IInv /\ AllAsked /\ [Next]_vars => AllAsked'
  <2> SUFFICES ASSUME IInv, AllAsked, [Next]_vars, NEW d \in CPUs, NEW s \in Reserved(d)'
               PROVE  \E rq \in Requests : rq.t = s /\ reserve'[s].budget = rq.C /\ reserve'[s].period = rq.T
    BY DEF AllAsked, Asked
  <2>0. \A x \in Reserved(d) : \E rq \in Requests : rq.t = x /\ reserve[x].budget = rq.C /\ reserve[x].period = rq.T
    BY DEF AllAsked, Asked
  <2>1. CASE Shrinks
    BY <2>0, <2>1 DEF Shrinks
  <2>2. CASE ~Shrinks
    <3>1. PICK rq \in Requests, c \in CPUs :
            /\ reserve' = BoundTo(rq, c)
            /\ \A e \in CPUs : Reserved(e)' \subseteq IF e = c THEN Reserved(e) \cup {rq.t} ELSE Reserved(e)
      BY <2>2, Steps
    <3>2. reserve \in [Tasks -> Recs] /\ RestOk
      BY BooksFacts DEF IInv
    <3>3. /\ \A x \in Tasks \ {rq.t} : reserve'[x] = reserve[x]
          /\ reserve'[rq.t].budget = rq.C /\ reserve'[rq.t].period = rq.T
      BY <3>1, <3>2, BoundToFacts
    <3>4. CASE s = rq.t
      BY <3>3, <3>4
    <3>5. CASE s # rq.t
      <4>1. s \in Reserved(d)
        BY <3>1, <3>5
      <4>2. s \in Tasks
        BY <3>2, <4>1 DEF Reserved, RestOk
      <4> QED
        BY <2>0, <3>3, <3>5, <4>1, <4>2
    <3> QED
      BY <3>4, <3>5
  <2> QED
    BY <2>1, <2>2
<1> QED
  BY <1>1, <1>2, Inductive, PTL DEF Spec

\* Every reserved task is covered at the full frequency.
AllCovered == \A c \in CPUs : \A j \in Reserved(c) : Covered(reserve, Reserved(c), j)

\* By the tests that it passed.
LEMMA CoveredAlways ==
    ASSUME BoundSound, IInv, AllAsked
    PROVE  AllCovered
<1> SUFFICES ASSUME NEW c \in CPUs, NEW j \in Reserved(c) PROVE Covered(reserve, Reserved(c), j)
  BY DEF AllCovered
<1> DEFINE R == Reserved(c)
<1>1. CpuOk(cpu_tasks[c], cpu_tasks_length[c], cpu_util[c], reserve, R) /\ Asked(reserve, R) /\ j \in R
  BY BooksFacts DEF AllAsked
<1> HIDE DEF R
<1>2. R \in SUBSET Tasks /\ IsFiniteSet(R) /\ Params(reserve, R) /\ Tested(reserve, R)
  BY <1>1, CpuFacts
<1>3. Covered(reserve, R, j)
  BY <1>1, <1>2, TestedCovered
<1> QED
  BY <1>3 DEF R

\* Whatever was admitted, revised, cancelled and undone before, the tasks
\* reserved on a CPU meet their deadlines on it, if the utilization bounds of
\* try_bind are sufficient for the requests: the response time test covers the
\* tasks beyond them, in any order of equal periods.
THEOREM AdmissionSchedulable == Careful /\ BoundSound => (Spec => []Schedulable)
<1> SUFFICES ASSUME Careful, BoundSound PROVE Spec => []Schedulable
  OBVIOUS
<1>1. IInv /\ AllAsked => Schedulable
  <2> SUFFICES ASSUME IInv, AllAsked, NEW c \in CPUs
               PROVE  MeetsDeadlines(reserve, Reserved(c), SYSCLOCK_MAX_FREQ)
    BY DEF Schedulable
  <2> DEFINE R == Reserved(c)
  <2>1. /\ CpuOk(cpu_tasks[c], cpu_tasks_length[c], cpu_util[c], reserve, R)
        /\ \A j \in R : Covered(reserve, R, j)
    BY BooksFacts, CoveredAlways DEF AllCovered
  <2> HIDE DEF R
  <2>2. R \in SUBSET Tasks /\ IsFiniteSet(R) /\ Params(reserve, R)
    BY <2>1, CpuFacts
  <2>3. \A j \in R : CoveredAt(reserve, R, j, SYSCLOCK_MAX_FREQ)
    BY <2>1, <2>2, CoveredFull
  <2>4. MeetsDeadlines(reserve, R, SYSCLOCK_MAX_FREQ)
    BY <2>2, <2>3, MeetsIff
  <2> QED
    BY <2>4 DEF R
<1> QED
  BY <1>1, Inductive, AlwaysAsked, PTL

\* Without a wrap, ScaleOf truncates the quotient.
LEMMA ScaleExact ==
    ASSUME NEW w \in Nat, NEW p \in Nat \ {0}, Unwrapped(w)
    PROVE  ScaleOf(w, p) \in Nat /\ 100000 * w < p * ScaleOf(w, p) + p
<1> DEFINE m == 3125 * w
           q == m \div p
           r == m % p
           a == 32 * r
           b == a \div p
<1>1. (3125 * w) % 134217728 = m /\ m \in Nat
  BY DEF Unwrapped
<1>2. ScaleOf(w, p) = 32 * q + b
  BY <1>1 DEF ScaleOf
<1> HIDE DEF m
<1>3. q \in Nat /\ r \in Nat /\ m = p * q + r
  BY <1>1
<1> HIDE DEF q, r
<1>4. a \in Nat /\ a = 32 * r
  BY <1>3
<1> HIDE DEF a
<1>5. b \in Nat /\ a < p * b + p
  BY <1>4, DivFacts
<1> HIDE DEF b
<1>6. p * (32 * q + b) = 32 * (p * q) + p * b
  BY <1>3, <1>5
<1>7. 100000 * w = 32 * m
  BY DEF m
<1> DEFINE pq == p * q
           pb == p * b
<1>8. pq \in Nat /\ pb \in Nat /\ m = pq + r /\ a < pb + p /\ 32 * (p * q) + p * b = 32 * pq + pb
  BY <1>3, <1>5
<1> HIDE DEF pq, pb
<1>9. 32 * m < 32 * pq + pb + p
  BY <1>3, <1>4, <1>8
<1> QED
  BY <1>2, <1>3, <1>5, <1>6, <1>7, <1>8, <1>9

\* What the truncations of the scale and of the frequency leave.
LEMMA SpeedEnough ==
    ASSUME NEW w \in Nat, NEW p \in Nat \ {0}, NEW s \in Nat, NEW x \in Nat, s <= x,
           100000 * w < p * s + p
    PROVE  1200 * w <= p * ((x * 1200) \div 100000 + 2)
<1> DEFINE f == (x * 1200) \div 100000
<1>1. f \in Nat /\ 1200 * x < 100000 * f + 100000
  OBVIOUS
<1> HIDE DEF f
<1>2. 1200 * s < 100000 * f + 100000
  BY <1>1
<1>3. \A y, z \in Nat : y <= z => p * y <= p * z
  OBVIOUS
<1>4. p * (1200 * s) <= p * (100000 * f + 100000)
  BY <1>1, <1>2, <1>3
<1> DEFINE ps == p * s
           pf == p * f
<1>5. ps \in Nat /\ pf \in Nat
  BY <1>1
<1>6. p * (1200 * s) = 1200 * ps /\ p * (100000 * f + 100000) = 100000 * pf + 100000 * p
      /\ p * (f + 2) = pf + 2 * p
  BY <1>1
<1>7. 100000 * w < ps + p
  OBVIOUS
<1> HIDE DEF ps, pf
<1>8. 1200 * w <= pf + 2 * p
  BY <1>4, <1>5, <1>6, <1>7
<1> QED
  BY <1>6, <1>8 DEF f

\* The scale of a task is the full one, or that of an instant up to its
\* deadline.
LEMMA TaskScalePoint ==
    ASSUME NEW res, NEW S \in SUBSET Tasks, IsFiniteSet(S), Params(res, S), NEW i \in S,
           TaskScale(res, S, i) # SCALE_FACTOR
    PROVE  \E p \in 1 .. res[i].period :
                TaskScale(res, S, i) = ScaleOf(Sum(Demands(res, p), UpTo(res, S, i)), p)
<1> DEFINE upTo == {l \in S : res[l].period <= res[i].period}
           points == UNION {Multiples(res[j].period, res[i].period) : j \in upTo}
           work(p) == SumFunction([l \in upTo |-> Demand(res[l].budget, res[l].period, p)])
           X == {ScaleOf(work(p), p) : p \in points}
           W == {SCALE_FACTOR} \cup X
<1>1. TaskScale(res, S, i) = Min(W)
  BY DEF TaskScale
<1>2. ASSUME NEW p \in points PROVE p \in 1 .. res[i].period
  <2>1. PICK j \in upTo : p \in Multiples(res[j].period, res[i].period)
    OBVIOUS
  <2> DEFINE T == res[j].period
             E == res[i].period
  <2>2. PICK n \in 1 .. E \div T : p = n * T
    BY <2>1 DEF Multiples
  <2>3. T \in Nat \ {0} /\ E \in Nat
    BY DEF Params
  <2> HIDE DEF T, E
  <2>4. E \div T \in Nat /\ T * (E \div T) <= E
    BY <2>3, DivFacts
  <2> DEFINE d == E \div T
  <2>5. n \in Nat /\ n >= 1 /\ n <= d /\ d \in Nat /\ T * d <= E
    BY <2>2, <2>4
  <2> HIDE DEF d
  <2>6. n * T >= 1 /\ n * T <= T * d /\ n * T \in Nat
    BY <2>3, <2>5
  <2> QED
    BY <2>2, <2>3, <2>5, <2>6 DEF E
<1>3. ASSUME NEW p \in points
      PROVE  /\ p \in Nat \ {0}
             /\ work(p) = Sum(Demands(res, p), UpTo(res, S, i)) /\ work(p) \in Nat
  <2>1. p \in Nat \ {0}
    BY <1>2 DEF Params
  <2> HIDE DEF points
  <2> QED
    BY <2>1, WorkIs
<1> HIDE DEF points, work, upTo
<1>4. X \in SUBSET Nat
  <2>1. ASSUME NEW p \in points PROVE ScaleOf(work(p), p) \in Nat
    <3> DEFINE w == work(p)
    <3>1. w \in Nat /\ p \in Nat \ {0}
      BY <1>3
    <3> HIDE DEF w
    <3>2. ScaleOf(w, p) \in Nat
      BY <3>1, ScaleNat
    <3> QED
      BY <3>2 DEF w
  <2> QED
    BY <2>1
<1>5. \A x \in X : \E p \in points : x = ScaleOf(work(p), p)
  OBVIOUS
<1>6. Min(W) \in W
  <2>1. W \in SUBSET Nat /\ W # {}
    BY <1>4, ScaleFactor
  <2> HIDE DEF W
  <2> QED
    BY <2>1, MinNat
<1> HIDE DEF X
<1>7. TaskScale(res, S, i) \in X
  BY <1>1, <1>6
<1>8. PICK p \in points : TaskScale(res, S, i) = ScaleOf(work(p), p)
  BY <1>5, <1>7
<1> QED
  BY <1>2, <1>3, <1>8

\* The frequency of the reference test, see FreqCovers.
Speed(f) == Min({SYSCLOCK_MAX_FREQ, f + 2})

\* The smaller one of the two.
LEMMA SpeedIs ==
    ASSUME NEW f \in Nat
    PROVE  /\ Speed(f) \in Nat
           /\ f + 2 >= 1200 => Speed(f) = SYSCLOCK_MAX_FREQ
           /\ f + 2 < 1200 => Speed(f) = f + 2
<1> DEFINE W == {SYSCLOCK_MAX_FREQ, f + 2}
<1>1. W \in SUBSET Nat /\ W # {} /\ SYSCLOCK_MAX_FREQ = 1200
  BY DEF SYSCLOCK_MAX_FREQ
<1>2. SYSCLOCK_MAX_FREQ \in W /\ f + 2 \in W /\ \A x \in W : x = SYSCLOCK_MAX_FREQ \/ x = f + 2
  OBVIOUS
<1> HIDE DEF W
<1>3. Min(W) \in W /\ \A y \in W : Min(W) <= y
  BY <1>1, MinNat
<1>4. Speed(f) = Min(W)
  BY DEF Speed, W
<1> DEFINE m == Speed(f)
<1>5. /\ m = SYSCLOCK_MAX_FREQ \/ m = f + 2
      /\ m <= SYSCLOCK_MAX_FREQ /\ m <= f + 2
  BY <1>2, <1>3, <1>4
<1> HIDE DEF m
<1>6. /\ m \in Nat
      /\ f + 2 >= 1200 => m = 1200
      /\ f + 2 < 1200 => m = f + 2
  BY <1>5 DEF SYSCLOCK_MAX_FREQ
<1> QED
  BY <1>6 DEF m, SYSCLOCK_MAX_FREQ

\* A task that was covered is covered among fewer tasks.
LEMMA CoveredFewer ==
    ASSUME NEW res, NEW new, NEW S \in SUBSET Tasks, IsFiniteSet(S), Params(res, S),
           NEW R, R \subseteq S, \A s \in R : new[s] = res[s],
           NEW f \in Nat, NEW j \in R, CoveredAt(res, S, j, f)
    PROVE  CoveredAt(new, R, j, f)
<1>1. PICK p \in 1 .. res[j].period : SYSCLOCK_MAX_FREQ * Sum(Demands(res, p), UpTo(res, S, j)) <= p * f
  BY DEF CoveredAt
<1>2. p \in Nat /\ p \in 1 .. new[j].period
  BY <1>1 DEF Params
<1> DEFINE A == UpTo(new, R, j)
           B == UpTo(res, S, j)
<1>3. A \subseteq B /\ A \subseteq R /\ B \subseteq S
  BY DEF UpTo
<1>4. IsFiniteSet(A) /\ IsFiniteSet(B)
  BY <1>3, FS_Subset
<1> HIDE DEF A, B
<1>5. \A t \in B : Demands(res, p)[t] \in Nat
  BY <1>2, <1>3, DemandsNat
<1>6. \A t \in A : Demands(new, p)[t] = Demands(res, p)[t]
  BY <1>3 DEF Demands
<1>7. \A t \in A : Demands(new, p)[t] \in Nat /\ Demands(new, p)[t] <= Demands(res, p)[t]
  BY <1>3, <1>5, <1>6
<1>8. Sum(Demands(new, p), A) <= Sum(Demands(res, p), B)
  BY <1>3, <1>4, <1>5, <1>7, SumMono
<1> DEFINE a == Sum(Demands(new, p), A)
           b == Sum(Demands(res, p), B)
           c == p * f
<1>9. a \in Nat /\ b \in Nat /\ c \in Nat /\ a <= b /\ 1200 * b <= c
  BY <1>1, <1>2, <1>4, <1>5, <1>7, <1>8, SumNat DEF SYSCLOCK_MAX_FREQ, B
<1> HIDE DEF a, b, c
<1>10. 1200 * a <= c
  BY <1>9
<1>11. SYSCLOCK_MAX_FREQ * Sum(Demands(new, p), UpTo(new, R, j)) <= p * f
  BY <1>10 DEF a, c, A, SYSCLOCK_MAX_FREQ
<1> QED
  BY <1>2, <1>11 DEF CoveredAt

\* The frequency that sysclock_compute asks for covers a task that the full
\* one covers.
LEMMA FreqEnough ==
    ASSUME NEW res, NEW leaders, Clocked(res, leaders), NEW c \in CPUs, NEW S,
           S = ReservedLeaders(res, leaders, c), NEW j \in S, Covered(res, S, j),
           \A p \in 1 .. res[j].period : Unwrapped(Sum(Demands(res, p), UpTo(res, S, j)))
    PROVE  CoveredAt(res, S, j, Speed(sysclock_compute(res, leaders)))
<1> DEFINE f == sysclock_compute(res, leaders)
<1>1. S \in SUBSET Tasks /\ IsFiniteSet(S) /\ Params(res, S)
  BY DEF Clocked
<1>2. PICK x \in Nat : /\ x <= 100000 /\ f = (x * 1200) \div 100000
                       /\ TaskScale(res, S, j) <= x
  BY FreqScale DEF Scales
<1>3. f \in Nat /\ (x = 100000 => f = 1200)
  BY <1>2
<1> HIDE DEF f
<1>4. CASE f + 2 >= 1200
  BY <1>1, <1>3, <1>4, SpeedIs, CoveredFull DEF f
<1>5. CASE f + 2 < 1200
  <2>1. TaskScale(res, S, j) # SCALE_FACTOR
    <3>1. x < 100000
      BY <1>2, <1>3, <1>5
    <3> QED
      BY <1>2, <3>1 DEF SCALE_FACTOR
  <2>2. PICK p \in 1 .. res[j].period :
          TaskScale(res, S, j) = ScaleOf(Sum(Demands(res, p), UpTo(res, S, j)), p)
    BY <1>1, <2>1, TaskScalePoint
  <2> DEFINE w == Sum(Demands(res, p), UpTo(res, S, j))
             s == ScaleOf(w, p)
  <2>3. p \in Nat \ {0}
    BY <1>1 DEF Params
  <2>4. w \in Nat /\ Unwrapped(w)
    BY <1>1, <2>3, WorkIs
  <2>5. s <= x
    BY <1>2, <2>2
  <2> HIDE DEF w
  <2>6. s \in Nat /\ 100000 * w < p * s + p
    BY <2>3, <2>4, ScaleExact
  <2> HIDE DEF s
  <2>7. 1200 * w <= p * (f + 2)
    BY <1>2, <2>3, <2>4, <2>5, <2>6, SpeedEnough
  <2>8. CoveredAt(res, S, j, f + 2)
    BY <2>7 DEF CoveredAt, w, SYSCLOCK_MAX_FREQ
  <2> QED
    BY <1>3, <1>5, <2>8, SpeedIs DEF f
<1> QED
  BY <1>3, <1>4, <1>5

\* A task of a CPU is covered at the frequency that sysclock_compute would
\* ask for now.
ComputedOk ==
    \A c \in CPUs : \A j \in Reserved(c) :
        CoveredAt(reserve, Reserved(c), j, Speed(sysclock_compute(reserve, Leaders \cap alive)))

\* If nothing wraps and every task is looked at.
LEMMA ComputedCovers == BoundSound /\ NoWrap /\ AllClocked /\ IInv /\ AllAsked => ComputedOk
<1> SUFFICES ASSUME BoundSound, NoWrap, AllClocked, IInv, AllAsked, NEW c \in CPUs, NEW j \in Reserved(c)
             PROVE  CoveredAt(reserve, Reserved(c), j, Speed(sysclock_compute(reserve, Leaders \cap alive)))
  BY DEF ComputedOk
<1>1. \A d \in CPUs : ReservedLeaders(reserve, Leaders \cap alive, d) = Reserved(d)
  BY DEF AllClocked, ReservedLeaders, Reserved, IInv, RestOk
<1>2. Clocked(reserve, Leaders \cap alive)
  <2> SUFFICES ASSUME NEW d \in CPUs
               PROVE  Reserved(d) \in SUBSET Tasks /\ IsFiniteSet(Reserved(d)) /\ Params(reserve, Reserved(d))
    BY <1>1 DEF Clocked
  <2> DEFINE R == Reserved(d)
  <2>1. CpuOk(cpu_tasks[d], cpu_tasks_length[d], cpu_util[d], reserve, R)
    BY BooksFacts
  <2> HIDE DEF R
  <2>2. R \in SUBSET Tasks /\ IsFiniteSet(R) /\ Params(reserve, R)
    BY <2>1, CpuFacts
  <2> QED
    BY <2>2 DEF R
<1> DEFINE S == Reserved(c)
           U == UpTo(reserve, S, j)
<1>3. Covered(reserve, S, j) /\ Asked(reserve, S)
  BY CoveredAlways DEF AllCovered, AllAsked
<1>4. S \in SUBSET Tasks /\ IsFiniteSet(S) /\ Params(reserve, S)
  BY <1>1, <1>2 DEF Clocked
<1>5. S = ReservedLeaders(reserve, Leaders \cap alive, c) /\ j \in S
  BY <1>1
<1> HIDE DEF S
<1>6. U \subseteq S /\ j \in U
  <2>1. reserve[j].period \in Nat
    BY <1>4, <1>5 DEF Params
  <2>2. reserve[j].period <= reserve[j].period
    BY <2>1
  <2> QED
    BY <1>5, <2>2 DEF UpTo
<1> HIDE DEF U
<1>7. U \in SUBSET Tasks /\ IsFiniteSet(U) /\ Params(reserve, U) /\ Asked(reserve, U)
  BY <1>3, <1>4, <1>6, FS_Subset DEF Params, Asked
<1>8. PICK kit \in Kits : KitOf(kit, reserve, U)
  BY <1>7, KitExists
<1>9. DOMAIN kit = U /\ kit[j].T = reserve[j].period
  BY <1>6, <1>8 DEF KitOf
<1>10. \A p \in Nat : KitDemand(kit, p) = Sum(Demands(reserve, p), U)
  BY <1>7, <1>8, KitSums
<1>11. ASSUME NEW p \in 1 .. reserve[j].period
       PROVE  Unwrapped(Sum(Demands(reserve, p), U))
  <2>1. p \in Nat
    BY <1>4, <1>5 DEF Params
  <2>2. Unwrapped(KitDemand(kit, p))
    BY <1>6, <1>8, <1>9 DEF NoWrap
  <2> QED
    BY <1>10, <2>1, <2>2
<1> DEFINE leaders == Leaders \cap alive
<1> HIDE DEF leaders
<1>12. CoveredAt(reserve, S, j, Speed(sysclock_compute(reserve, leaders)))
  BY <1>2, <1>3, <1>5, <1>11, FreqEnough DEF U, leaders
<1> QED
  BY <1>12 DEF S, leaders

\* What every step does to the frequency.
LEMMA Speeds ==
    ASSUME Careful, AllClocked, IInv, [Next]_vars
    PROVE  \/ freq' = sysclock_compute(reserve', Leaders \cap alive')
           \/ Shrinks /\ (freq' = freq \/ freq' = sysclock_compute(reserve, Leaders \cap alive))
<1>0. ~AnyRevise
  BY DEF Careful
<1>1. ASSUME NEW rq \in Requests, SetRejected(rq) PROVE Shrinks /\ freq' = freq
  BY <1>0, <1>1, RejectedBooks DEF SetRejected
<1>2. ASSUME NEW rq \in Requests, SetUnbound(rq)
      PROVE  Shrinks /\ (freq' = freq \/ freq' = sysclock_compute(reserve, Leaders \cap alive))
  <2>1. Shrinks
    BY <1>0, <1>2, UnboundBooks
  <2>2. freq' = freq \/ freq' = UpFreq(Place(rq).cpu)
    BY <1>2 DEF SetUnbound
  <2> QED
    BY <2>1, <2>2 DEF UpFreq
<1>3. ASSUME NEW rq \in Requests, SetReserved(rq)
      PROVE  freq' = sysclock_compute(reserve', Leaders \cap alive')
  BY <1>0, <1>3, ReservedBooks
<1>4. ASSUME NEW rq \in Requests PROVE ~SetNoFiles(rq)
  BY DEF SetNoFiles, AllClocked, Careful
<1>5. ASSUME NEW t \in Tasks, CancelReserve(t)
      PROVE  freq' = sysclock_compute(reserve', Leaders \cap alive')
  BY <1>5, CancelBooks
<1>6. ASSUME NEW t \in Tasks, Exit(t) PROVE Shrinks /\ freq' = freq
  BY <1>6, ExitBooks DEF Exit
<1>7. ASSUME NEW t \in Tasks, Fork(t) PROVE Shrinks /\ freq' = freq
  BY <1>7, ForkBooks DEF Fork
<1>8. ASSUME NEW policy \in Policies, StorePolicy(policy) PROVE Shrinks /\ freq' = freq
  BY <1>8, PolicyBooks DEF StorePolicy
<1>9. CASE UNCHANGED vars
  BY <1>9, StutterBooks DEF vars
<1>10. CASE \E rq \in Requests : SetRejected(rq) \/ SetUnbound(rq) \/ SetReserved(rq) \/ SetNoFiles(rq)
  BY <1>1, <1>2, <1>3, <1>4, <1>10
<1>11. CASE \E t \in Tasks : CancelReserve(t) \/ Exit(t) \/ Fork(t)
  BY <1>5, <1>6, <1>7, <1>11
<1>12. CASE \E policy \in Policies : StorePolicy(policy)
  BY <1>8, <1>12
<1> QED
  BY <1>9, <1>10, <1>11, <1>12 DEF Next

\* The tasks of every CPU are covered at the frequency f.
EnoughAt(f) == \A c \in CPUs : \A j \in Reserved(c) : CoveredAt(reserve, Reserved(c), j, Speed(f))

\* They still are after a step that binds no task.
LEMMA EnoughShrinks ==
    ASSUME IInv, Shrinks, NEW f \in Nat, EnoughAt(f)
    PROVE  \A c \in CPUs : \A j \in Reserved(c)' : CoveredAt(reserve', Reserved(c)', j, Speed(f))
<1> SUFFICES ASSUME NEW c \in CPUs, NEW j \in Reserved(c)'
             PROVE  CoveredAt(reserve', Reserved(c)', j, Speed(f))
  OBVIOUS
<1> DEFINE S == Reserved(c)
           R == Reserved(c)'
           new == reserve'
           v == Speed(f)
<1>1. R \subseteq S /\ \A s \in R : new[s] = reserve[s]
  BY DEF Shrinks
<1>2. CpuOk(cpu_tasks[c], cpu_tasks_length[c], cpu_util[c], reserve, S)
  BY BooksFacts
<1>3. CoveredAt(reserve, S, j, v) /\ j \in R
  BY <1>1 DEF EnoughAt
<1>4. v \in Nat
  BY SpeedIs
<1> HIDE DEF S, R, new, v
<1>5. S \in SUBSET Tasks /\ IsFiniteSet(S) /\ Params(reserve, S)
  BY <1>2, CpuFacts
<1>6. CoveredAt(new, R, j, v)
  BY <1>1, <1>3, <1>4, <1>5, CoveredFewer
<1> QED
  BY <1>6 DEF R, new, v

\* The frequency as a number.
LEMMA FreqNat == IInv => freq \in Nat
  BY DEF IInv, RestOk, SYSCLOCK_MAX_FREQ

\* At the frequency asked for, which is truncated twice, the tasks of every
\* CPU meet their deadlines, through placements, CPUs that come and go,
\* cancellations and exits: sysclock_compute's scale is that of an instant
\* at which the reference test holds, and an exit, which does not set the
\* frequency anew, only takes work away.
THEOREM AdmissionFrequency ==
    Careful /\ BoundSound /\ NoWrap /\ AllClocked => (Spec => []FreqCovers)
<1> SUFFICES ASSUME Careful, BoundSound, NoWrap, AllClocked PROVE Spec => []FreqCovers
  OBVIOUS
<1> DEFINE Enough == EnoughAt(freq)
<1>1. IInv /\ AllAsked => ComputedOk
  BY ComputedCovers
<1>2. Init => Enough
  BY InitBooks DEF EnoughAt
<1>3. IInv /\ IInv' /\ ComputedOk /\ ComputedOk' /\ Enough /\ [Next]_vars => Enough'
  <2> SUFFICES ASSUME IInv, IInv', ComputedOk, ComputedOk', Enough, [Next]_vars
               PROVE  \A c \in CPUs : \A j \in Reserved(c)' : CoveredAt(reserve', Reserved(c)', j, Speed(freq'))
    BY DEF EnoughAt
  <2> DEFINE g == sysclock_compute(reserve, Leaders \cap alive)
  <2>1. freq \in Nat /\ freq' \in Nat
    <3>1. freq \in Nat
      BY FreqNat
    <3>2. freq' \in Nat
      BY DEF IInv, RestOk, SYSCLOCK_MAX_FREQ
    <3> QED
      BY <3>1, <3>2
  <2>2. EnoughAt(g)
    BY DEF ComputedOk, EnoughAt
  <2>3. CASE freq' = sysclock_compute(reserve', Leaders \cap alive')
    <3>1. \A c \in CPUs : \A j \in Reserved(c)' :
            CoveredAt(reserve', Reserved(c)', j, Speed(sysclock_compute(reserve', Leaders \cap alive')))
      BY DEF ComputedOk
    <3> QED
      BY <2>3, <3>1
  <2>4. CASE Shrinks /\ freq' = freq
    <3>1. \A c \in CPUs : \A j \in Reserved(c)' : CoveredAt(reserve', Reserved(c)', j, Speed(freq))
      BY <2>1, <2>4, EnoughShrinks
    <3> QED
      BY <2>4, <3>1
  <2>5. CASE Shrinks /\ freq' = g
    <3>1. g \in Nat
      BY <2>1, <2>5
    <3> HIDE DEF g
    <3>2. \A c \in CPUs : \A j \in Reserved(c)' : CoveredAt(reserve', Reserved(c)', j, Speed(g))
      BY <2>2, <2>5, <3>1, EnoughShrinks
    <3> QED
      BY <2>5, <3>2
  <2> QED
    BY <2>3, <2>4, <2>5, Speeds
<1>4. IInv /\ Enough => FreqCovers
  <2> SUFFICES ASSUME IInv, Enough, NEW c \in CPUs
               PROVE  MeetsDeadlines(reserve, Reserved(c), Min({SYSCLOCK_MAX_FREQ, freq + 2}))
    BY DEF FreqCovers
  <2> DEFINE R == Reserved(c)
             v == Speed(freq)
  <2>1. /\ CpuOk(cpu_tasks[c], cpu_tasks_length[c], cpu_util[c], reserve, R)
        /\ \A j \in R : CoveredAt(reserve, R, j, v)
    BY BooksFacts DEF EnoughAt
  <2> HIDE DEF R, v
  <2>2. R \in SUBSET Tasks /\ IsFiniteSet(R) /\ Params(reserve, R)
    BY <2>1, CpuFacts
  <2>3. MeetsDeadlines(reserve, R, v)
    BY <2>1, <2>2, MeetsIff
  <2> QED
    BY <2>3 DEF R, v, Speed
<1> HIDE DEF Enough
<1> QED
  BY <1>1, <1>2, <1>3, <1>4, Inductive, AlwaysAsked, PTL DEF Spec
===============================================================================
