--------------------------------- MODULE Calc ---------------------------------
(***************************************************************************)
(* The system call calc (rtes/kernel/calc.c): floating point arithmetic    *)
(* on the bits of two numbers with the integers of the kernel.  All        *)
(* arithmetic is on unsigned words of W bits and wraps.                    *)
(*                                                                         *)
(* The format is a parameter.  The code has EXP_DIGIT = 8 and FRAC_DIGIT = *)
(* 23, hence words of 32 bits, and its division shifts by 8 (EXP_DIGIT)    *)
(* and by 15 (FRAC_DIGIT - EXP_DIGIT).                                     *)
(***************************************************************************)
EXTENDS Integers

CONSTANTS EXP_DIGIT, FRAC_DIGIT

ASSUME CalcAssumption ==
    /\ EXP_DIGIT \in Nat \ {0, 1} /\ FRAC_DIGIT \in Nat /\ EXP_DIGIT <= FRAC_DIGIT

W == 1 + EXP_DIGIT + FRAC_DIGIT
EXP_MAX == 2 ^ EXP_DIGIT - 1
EXP_BIAS == 2 ^ (EXP_DIGIT - 1) - 1
ONE == 2 ^ FRAC_DIGIT  \* the leading 1 of a fraction

Numbers == 0 .. 2 ^ W - 1
Ops == {"+", "-", "*", "/", "other"}

(* EINVAL as a result; it is not told from the bits of a number in the     *)
(* code, where it is 22.                                                   *)
EINVAL == -1

Word(x) == x % 2 ^ W

(* The processor takes the low byte of a register as the distance of a     *)
(* shift, and shifts by the width of a word or more give 0.                *)
ShiftRight(x, n) == IF n % 256 >= W THEN 0 ELSE x \div 2 ^ (n % 256)

-------------------------------------------------------------------------------
(* The fields of a number.                                                 *)
Exp(n) == (n \div ONE) % 2 ^ EXP_DIGIT
exp_(n) == Word(Exp(n) - EXP_BIAS)
frac_(n) == (n % ONE) + ONE
sign_(n) == n \div 2 ^ (W - 1)

(* '+' and '-': the fraction of the smaller exponent is aligned, ...       *)
Aligned(n, m) ==
    IF exp_(n) > exp_(m) THEN frac_(n) ELSE ShiftRight(frac_(n), exp_(m) - exp_(n))

(* ... and the fractions are added or subtracted by their signs.           *)
SumSwapped(e, f1, s1, f2, s2) ==
    [exp  |-> e,
     frac |-> IF s1 = s2 THEN Word(f1 + f2) ELSE IF f1 > f2 THEN f1 - f2 ELSE f2 - f1,
     sign |-> IF s1 = s2 \/ f1 <= f2 THEN s1 ELSE s2]

SumOf(e, f1, s1, f2, s2) ==
    [exp  |-> e,
     frac |-> IF s1 = s2 THEN Word(f1 + f2) ELSE IF f1 > f2 THEN f1 - f2 ELSE f2 - f1,
     sign |-> IF s1 = s2 \/ f1 > f2 THEN s1 ELSE s2]

Larger(n1, n2) == IF exp_(n1) > exp_(n2) THEN exp_(n1) ELSE exp_(n2)

Plus(n1, n2) ==
    SumOf(Larger(n1, n2), Aligned(n1, n2), sign_(n1), Aligned(n2, n1), sign_(n2))

Minus(n1, n2) ==
    SumOf(Larger(n1, n2), Aligned(n1, n2), sign_(n1), Aligned(n2, n1), 1 - sign_(n2))

Sign(n1, n2) == (sign_(n1) + sign_(n2)) % 2

Times(n1, n2) ==
    [exp  |-> Word(exp_(n1) + exp_(n2)),
     frac |-> Word((frac_(n1) * frac_(n2)) \div ONE),
     sign |-> Sign(n1, n2)]

(* '/': no 64-bit division, so the divisor loses bits.                     *)
QuotientShort(f1, f2) == f1 \div (f2 \div 2 ^ (FRAC_DIGIT - EXP_DIGIT))
Quotient(f1, f2) == Word(f1 * 2 ^ EXP_DIGIT) \div (f2 \div 2 ^ (FRAC_DIGIT - EXP_DIGIT))

Over(n1, n2) ==
    [exp  |-> Word(exp_(n1) - exp_(n2)),
     frac |-> Quotient(frac_(n1), frac_(n2)),
     sign |-> Sign(n1, n2)]

Combined(n1, n2, op) ==
    CASE op = "+" -> Plus(n1, n2)
      [] op = "-" -> Minus(n1, n2)
      [] op = "*" -> Times(n1, n2)
      [] op = "/" -> Over(n1, n2)

(* The calls that are refused at once.                                     *)
Refused(n2, op) == op = "other" \/ (op = "/" /\ frac_(n2) = ONE)

(* The leading 1 of the fraction, and the fraction and the exponent with   *)
(* it in its place.                                                        *)
Pos(f) == CHOOSE p \in 0 .. W - 1 : 2 ^ p <= f /\ f < 2 ^ (p + 1)

PlacedFrac(f) ==
    IF Pos(f) > FRAC_DIGIT THEN f \div 2 ^ (Pos(f) - FRAC_DIGIT)
                           ELSE Word(f * 2 ^ (FRAC_DIGIT - Pos(f)))

PlacedExp(e, f) == Word(e + Pos(f) - FRAC_DIGIT + EXP_BIAS)

(* The result, if its exponent is one.                                     *)
InRangeOfBias(e) == e <= EXP_BIAS
InRange(e) == e <= EXP_MAX

Packed(r) ==
    LET e == PlacedExp(r.exp, r.frac)
        f == PlacedFrac(r.frac) - ONE
    IN  IF ~InRange(e) \/ (e = EXP_MAX /\ f # 0)
        THEN EINVAL
        ELSE r.sign * 2 ^ (W - 1) + e * ONE + f

-------------------------------------------------------------------------------
VARIABLES
    call,  \* the arguments of the call, and where it is
    mid,   \* the fraction, exponent and sign before the leading 1 is sought
    result

vars == <<call, mid, result>>

None == [exp |-> 0, frac |-> 0, sign |-> 0]

(* A caller that applies an operation to one number and others.            *)
Init ==
    /\ call \in [n1 : Numbers, n2 : {0}, op : Ops, at : {"outside"}]
    /\ mid = None /\ result = 0

Call(n2) ==
    /\ call.at = "outside"
    /\ IF Refused(n2, call.op)
       THEN /\ call' = [call EXCEPT !.n2 = n2, !.at = "done"]
            /\ result' = EINVAL
            /\ UNCHANGED mid
       ELSE /\ call' = [call EXCEPT !.n2 = n2, !.at = "search"]
            /\ mid' = Combined(call.n1, n2, call.op)
            /\ UNCHANGED result

Found ==
    /\ call.at = "search" /\ mid.frac # 0
    /\ result' = Packed(mid)
    /\ call' = [call EXCEPT !.at = "done"]
    /\ UNCHANGED mid

(* The search for the leading 1 of 0 goes around for ever: pos is unsigned *)
(* and always >= 0.                                                        *)
Searching ==
    /\ call.at = "search" /\ mid.frac = 0
    /\ UNCHANGED vars

Return ==
    /\ call.at = "done"
    /\ call' = [call EXCEPT !.n2 = 0, !.at = "outside"]
    /\ mid' = None /\ result' = 0

Next ==
    \/ \E n2 \in Numbers : Call(n2)
    \/ Found \/ Searching \/ Return

Spec == Init /\ [][Next]_vars
-------------------------------------------------------------------------------
(* Types: the intermediate values fit their words, and a result is a       *)
(* number or EINVAL.                                                       *)
TypeOK ==
    /\ call \in [n1 : Numbers, n2 : Numbers, op : Ops, at : {"outside", "search", "done"}]
    /\ mid \in [exp : 0 .. 2 ^ W - 1, frac : 0 .. 2 ^ W - 1, sign : {0, 1}]
    /\ result \in Numbers \cup {EINVAL}

(* The value of a normal number, in units of 2^-(EXP_BIAS + FRAC_DIGIT).   *)
Normal(n) == Exp(n) \in 1 .. EXP_MAX - 1
Size(n) == frac_(n) * 2 ^ Exp(n)
Unit(n) == 2 ^ Exp(n)
Value(n) == IF sign_(n) = 1 THEN -Size(n) ELSE Size(n)

Abs(x) == IF x < 0 THEN -x ELSE x

(* Both exponents are negative or none is: the code compares them as       *)
(* unsigned numbers.                                                       *)
SameSide(n1, n2) == Exp(n1) < EXP_BIAS <=> Exp(n2) < EXP_BIAS

Answers(ops) ==
    /\ call.at = "done" /\ call.op \in ops
    /\ Normal(call.n1) /\ Normal(call.n2)
    /\ result # EINVAL /\ Normal(result)

(* What '+' and '-' are to compute.                                        *)
Exact == IF call.op = "+" THEN Value(call.n1) + Value(call.n2) ELSE Value(call.n1) - Value(call.n2)

(* A sum of the same sign is the exact sum cut off: aligning first and     *)
(* placing the leading 1 later lose no more than one cut of the exact sum. *)
(* A difference is off by less than one unit of the larger operand         *)
(* (calc.c:66-138, 156-169).                                               *)
SumNear ==
    Answers({"+", "-"}) /\ SameSide(call.n1, call.n2) =>
       IF Abs(Exact) >= Size(call.n1) /\ Abs(Exact) >= Size(call.n2)
       THEN /\ Exact < 0 <=> sign_(result) = 1
            /\ Size(result) <= Abs(Exact) /\ Abs(Exact) < Size(result) + Unit(result)
       ELSE Abs(Value(result) - Exact) < IF Unit(call.n1) > Unit(call.n2) THEN Unit(call.n1)
                                                                           ELSE Unit(call.n2)

(* A product is the exact product cut off, with its sign; a quotient loses *)
(* less than two units, and is too large by at most one part in            *)
(* 2^EXP_DIGIT for the bits its divisor has lost (calc.c:139-152,          *)
(* 156-169).                                                               *)
ProductNear ==
    Answers({"*", "/"}) =>
       LET s1 == Size(call.n1)
           s2 == Size(call.n2)
           one == ONE * 2 ^ EXP_BIAS  \* Size of 1.0
           r == Size(result)
           u == Unit(result)
       IN  /\ Value(call.n1) * Value(call.n2) < 0 <=> sign_(result) = 1
           /\ IF call.op = "*"
              THEN r * one <= s1 * s2 /\ s1 * s2 < (r + u) * one
              ELSE /\ s1 * one < (r + 2 * u) * s2
                   /\ r * s2 * 2 ^ EXP_DIGIT <= s1 * one * (2 ^ EXP_DIGIT + 1)

(* A sum or difference of normal numbers is refused only if it is too      *)
(* large or too small for the format (calc.c:175-181), and the call ends   *)
(* unless it is exactly 0 (calc.c:156-158).                                *)
Largest == (2 * ONE - 1) * 2 ^ (EXP_MAX - 1)
RefusesOnlyRange ==
    Normal(call.n1) /\ Normal(call.n2) /\ call.op \in {"+", "-"} /\ SameSide(call.n1, call.n2) =>
       /\ call.at = "done" /\ result = EINVAL => Abs(Exact) > Largest \/ Abs(Exact) < ONE
       /\ call.at = "search" /\ mid.frac = 0 => Exact = 0
===============================================================================
