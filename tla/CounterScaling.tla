--------------------------- MODULE CounterScaling ---------------------------
(***************************************************************************)
(* scaleCounter (src/perf/perf_counter.cpp): a count of a group that was   *)
(* scheduled for part of the time is extrapolated in long double.  Words   *)
(* have Width bits (64 in the program), long doubles Mantissa bits.        *)
(***************************************************************************)
EXTENDS FloatingPoint

CONSTANTS Width, Mantissa

\* Every word is a long double.
ASSUME WidthAssumption ==
    Width \in Nat \ {0} /\ Mantissa \in Nat /\ Mantissa >= Width

Word == 0 .. 2 ^ Width - 1
MaxWord == 2 ^ Width - 1

\* A long double.
LongDouble(x) == Round(x, Mantissa)

\* raw and both times are words; timeRunning is not zero (it throws).
Extrapolated_inWords(raw, enabled, running) ==
    Over(Whole((raw * enabled) % 2 ^ Width), Whole(running))
Extrapolated(raw, enabled, running) ==
    LongDouble(Over(LongDouble(Times(Whole(raw), Whole(enabled))), Whole(running)))

Saturates_never(scaled) == FALSE
Saturates(scaled) == AtLeast(scaled, Whole(MaxWord))

ScaleCounter(raw, enabled, running) ==
    IF running >= enabled THEN raw
    ELSE LET scaled == Extrapolated(raw, enabled, running)
         IN IF Saturates(scaled) THEN MaxWord
            ELSE Truncated(LongDouble(Plus(scaled, <<1, 2>>))) % 2 ^ Width
=============================================================================
