------------------------------- MODULE Curve -------------------------------
(***************************************************************************)
(* ChannelCurve of common/src/config.rs: the temperature -> duty curve of   *)
(* one channel.  Pure operators, no state.                                  *)
(*                                                                          *)
(* A temperature is an integer count of some fixed fraction of a degree     *)
(* (the sensors deliver millidegrees; the GUI's boxes whole degrees).  f32  *)
(* arithmetic is taken to be exact and its final round() is round-half-up,  *)
(* which is what f32::round does to a value that is not negative.           *)
(***************************************************************************)
EXTENDS Integers, Sequences, FiniteSetsExt

CONSTANT Degree      \* the units of temperature in one degree

ASSUME DegreeAssumption == Degree \in Nat \ {0}

CurvePoint == [temp_c : Int, duty_pct : 0..255]      \* duty_pct is a u8

CurvePoints == Seq(CurvePoint)

\* Mutant: the fraction is cut off where the code rounds it
RoundDivTruncating(num, den) == num \div den

\* round(num / den), for num >= 0 and den > 0
RoundDiv(num, den) == (2 * num + den) \div (2 * den)

Clamp(d) == IF d < 0 THEN 0 ELSE IF d > 100 THEN 100 ELSE d

\* The straight line from point a to point b, at temperature t
Interpolate(a, b, t) ==
    LET span == b.temp_c - a.temp_c
    IN  Clamp(RoundDiv(a.duty_pct * span
                         + (t - a.temp_c) * (b.duty_pct - a.duty_pct), span))

\* Indices i whose window <<points[i], points[i+1]>> contains t
Windows(points, t) ==
    {i \in 1..(Len(points) - 1) :
        points[i].temp_c <= t /\ t <= points[i + 1].temp_c}

\* What the first window that contains t says
InWindow(points, t) ==
    LET i == Min(Windows(points, t))
        a == points[i]
        b == points[i + 1]
    IN  IF b.temp_c - a.temp_c <= 0 THEN a.duty_pct ELSE Interpolate(a, b, t)

\* Mutant: no early return below the first point
DutyForTempWithoutLowEnd(points, t) ==
    LET n == Len(points)
    IN  IF n = 0 THEN 100
        ELSE IF t >= points[n].temp_c THEN points[n].duty_pct
        ELSE IF Windows(points, t) # {} THEN InWindow(points, t)
        ELSE 100

(* ChannelCurve::duty_for_temp.  The points are taken in the order in which *)
(* the file lists them: nothing sorts them on the way here.                 *)
DutyForTemp(points, t) ==
    LET n == Len(points)
    IN  IF n = 0 THEN 100
        ELSE IF t <= points[1].temp_c THEN points[1].duty_pct
        ELSE IF t >= points[n].temp_c THEN points[n].duty_pct
        ELSE IF Windows(points, t) # {} THEN InWindow(points, t)
        ELSE 100

\* Mutant: the duty of a point is not looked at
ValidCurveWithoutDuty(points) ==
    Len(points) > 0 /\ \A i \in DOMAIN points : points[i].temp_c \in 0..(150 * Degree)

(* ChannelCurve::validate.  The sorted copy it makes serves one warning;    *)
(* neither the order of the points nor a falling duty is refused.           *)
ValidCurve(points) ==
    /\ Len(points) > 0
    /\ \A i \in DOMAIN points :
          /\ points[i].temp_c \in 0..(150 * Degree)
          /\ points[i].duty_pct <= 100

-----------------------------------------------------------------------------
(* Predicates about a curve, used by the properties.                        *)

Sorted(points) ==
    \A i, j \in DOMAIN points : i < j => points[i].temp_c <= points[j].temp_c

StrictlySorted(points) ==
    \A i, j \in DOMAIN points : i < j => points[i].temp_c < points[j].temp_c

\* Later points never ask for less duty: with Sorted, validate has nothing to warn of
Rising(points) ==
    \A i, j \in DOMAIN points : i < j => points[i].duty_pct <= points[j].duty_pct
=============================================================================
