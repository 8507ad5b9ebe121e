----------------------------- MODULE BinaryFloat -----------------------------
(***************************************************************************)
(* The non-negative floats the reports compute with: Python's / and *      *)
(* round to the nearest number of Precision significant bits, ties to      *)
(* even, and comparisons are exact.  CPython has 53 bits; an instance      *)
(* takes fewer, so that every product stays small, but a number that       *)
(* leaves the same remainder modulo 4 as 53: 3/10 and 4/5 repeat with      *)
(* period 4 in binary, and are then rounded the same way as the real       *)
(* GATE_THRESHOLDS are.                                                    *)
(***************************************************************************)
EXTENDS Integers

CONSTANT Precision

ASSUME PrecisionAssumption == Precision \in 13..53 /\ Precision % 4 = 1

PowerOfTwo[n \in Nat] == IF n = 0 THEN 1 ELSE 2 * PowerOfTwo[n - 1]

(* A float m * 2^e, with 2^(Precision-1) <= m < 2^Precision unless it is 0. *)
Zero == [m |-> 0, e |-> 0]

(* The binary digits of n: 2^(b-1) <= n < 2^b. *)
Bits(n) ==
    CHOOSE b \in 0..n : n < PowerOfTwo[b] /\ (b > 0 => n >= PowerOfTwo[b - 1])

NearestInteger(n, d) ==
    LET q == n \div d
        r == n % d
    IN  IF 2 * r > d \/ (2 * r = d /\ q % 2 = 1) THEN q + 1 ELSE q

(* n * 2^s, and n / 2^s when s is negative, as a numerator and a denominator. *)
Up(s)   == IF s > 0 THEN PowerOfTwo[s] ELSE 1
Down(s) == IF s < 0 THEN PowerOfTwo[-s] ELSE 1

(* The float nearest to n / d. *)
Quotient(n, d) ==
    IF n = 0 THEN Zero
    ELSE LET low   == Bits(n) - Bits(d) - Precision
             fits  == n * Down(low) < PowerOfTwo[Precision] * d * Up(low)
             e     == IF fits THEN low ELSE low + 1
             m     == NearestInteger(n * Down(e), d * Up(e))
         IN  IF m = PowerOfTwo[Precision] THEN [m |-> m \div 2, e |-> e + 1]
                                          ELSE [m |-> m, e |-> e]

Shift(x, s) == IF x = Zero THEN Zero ELSE [x EXCEPT !.e = @ + s]

Float(n) == Quotient(n, 1)

(* An integer times a float, and an integer divided by one. *)
Times(n, x) == IF x = Zero THEN Zero ELSE Shift(Quotient(n * x.m, 1), x.e)

Over(n, x) == Shift(Quotient(n, x.m), -x.e)

Less(x, y) ==
    /\ y # Zero
    /\ x = Zero \/ x.e < y.e \/ (x.e = y.e /\ x.m < y.m)

AtMost(x, y) == x = y \/ Less(x, y)

(* math.ceil(x - n), or 0 when x does not exceed n. *)
CeilingAbove(x, n) ==
    IF AtMost(x, Float(n)) THEN 0
    ELSE LET gap == Quotient(x.m * Up(x.e) - n * Down(x.e), Down(x.e))
         IN  -((-(gap.m * Up(gap.e))) \div Down(gap.e))
=============================================================================
