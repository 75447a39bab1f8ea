---------------------------- MODULE FloatingPoint ----------------------------
(***************************************************************************)
(* The arithmetic of the hardware that scaleCounter and percentChange use: *)
(* numbers with a mantissa of so many bits (53 in a double, 64 in a long   *)
(* double on x86-64), rounded to nearest, ties to even, after every        *)
(* operation.  A number is a fraction <<n, d>> with n >= 0 and d > 0.      *)
(***************************************************************************)
EXTENDS Integers

Whole(n) == <<n, 1>>
Times(x, y) == <<x[1] * y[1], x[2] * y[2]>>
Over(x, y) == <<x[1] * y[2], x[2] * y[1]>>
Plus(x, y) == <<x[1] * y[2] + y[1] * x[2], x[2] * y[2]>>
AtLeast(x, y) == x[1] * y[2] >= y[1] * x[2]
Truncated(x) == x[1] \div x[2]

NearestEven(x) ==
    LET floor == Truncated(x)
        twice == 2 * (x[1] - floor * x[2])
    IN IF twice > x[2] \/ (twice = x[2] /\ floor % 2 = 1) THEN floor + 1 ELSE floor

PowerOfTwo(e) == IF e >= 0 THEN <<2 ^ e, 1>> ELSE <<1, 2 ^ (-e)>>

\* The number of that many bits nearest to x, in the binade that holds x.
\* Nothing that occurs is so small or so large that no exponent here fits.
Round(x, bits) ==
    IF x[1] = 0 THEN Whole(0)
    ELSE LET fits(e) == /\ AtLeast(x, PowerOfTwo(e + bits - 1))
                        /\ ~AtLeast(x, PowerOfTwo(e + bits))
             e == CHOOSE e \in -2 * bits .. 2 * bits : fits(e)
         IN Times(Whole(NearestEven(Over(x, PowerOfTwo(e)))), PowerOfTwo(e))
=============================================================================
