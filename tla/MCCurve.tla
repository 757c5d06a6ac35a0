------------------------------ MODULE MCCurve ------------------------------
(***************************************************************************)
(* A sweep of the temperature, one degree at a time, under every curve of  *)
(* at most MaxPoints points over small sets of temperatures and duties,    *)
(* the ones that validate refuses included.                                *)
(***************************************************************************)
EXTENDS Curve

CONSTANTS
    PointTemps,    \* temperatures a point of a curve may have
    PointDuties,   \* duties a point of a curve may have
    MaxPoints,     \* bound on the number of points
    First, Last    \* the sweep

ASSUME SweepAssumption ==
    /\ PointTemps \subseteq Int /\ PointDuties \subseteq 0..255
    /\ MaxPoints \in Nat /\ First \in Int /\ Last \in Int

VARIABLES
    curve,         \* the points of the curve in force
    temp           \* the temperature read

Init ==
    /\ \E n \in 0..MaxPoints :
          curve \in [1..n -> [temp_c : PointTemps, duty_pct : PointDuties]]
    /\ temp = First

Heat ==
    /\ temp < Last
    /\ temp' = temp + 1
    /\ UNCHANGED curve

Next == Heat

Spec == Init /\ [][Next]_<<curve, temp>>

-----------------------------------------------------------------------------
Points == {curve[i] : i \in DOMAIN curve}

\* The point of a nonempty set that is nearest to temp
Nearest(S) ==
    CHOOSE p \in S : \A q \in S :
        Max({p.temp_c - temp, temp - p.temp_c}) <= Max({q.temp_c - temp, temp - q.temp_c})

\* duty is the value at temp of the line from a to b, rounded to the nearest percent
OnLine(a, b, duty) ==
    LET span == b.temp_c - a.temp_c
        miss == duty * span - (a.duty_pct * (b.temp_c - temp) + b.duty_pct * (temp - a.temp_c))
    IN  2 * Max({miss, -miss}) <= span

(* "Linear interpolation between the two nearest curve points": a curve     *)
(* that is accepted and in ascending order gives the duty of its coolest    *)
(* point below it, of its hottest point above it, and in between the        *)
(* rounded value of the line through the nearest point on either side.      *)
(* It is stated on the set of the points, not on the windows of the code.   *)
CurveMatchesReference ==
    (ValidCurve(curve) /\ StrictlySorted(curve)) =>
        LET duty   == DutyForTemp(curve, temp)
            cooler == {p \in Points : p.temp_c <= temp}
            hotter == {p \in Points : p.temp_c >= temp}
        IN  CASE cooler = {} -> duty = Nearest(hotter).duty_pct
              [] hotter = {} -> duty = Nearest(cooler).duty_pct
              [] OTHER -> LET a == Nearest(cooler)
                              b == Nearest(hotter)
                          IN  IF a = b THEN duty = a.duty_pct ELSE OnLine(a, b, duty)

(* A curve that is accepted asks for a percentage, whatever the order of    *)
(* its points: the conversion to a u8 and to the 0-255 range cannot wrap.   *)
CurveGivesPercentage ==
    ValidCurve(curve) => DutyForTemp(curve, temp) \in 0..100

(* Rounding and the choice of window never make a hotter reading ask for    *)
(* less cooling, under a curve of which validate has nothing to say: its    *)
(* points ascend and so do their duties (equal neighbours included).        *)
HotterNeverLess ==
    [][(ValidCurve(curve) /\ Sorted(curve) /\ Rising(curve))
          => DutyForTemp(curve, temp') >= DutyForTemp(curve, temp)]_<<curve, temp>>

(* "Above the highest point's temp -> highest point's duty (safety: never   *)
(* extrapolate downward past max temp, always fail toward MORE cooling)",   *)
(* said of every curve validate accepts, its order being "Validated on      *)
(* load": past its hottest point a curve asks for that point's duty or more.*)
NeverBelowHottestPoint ==
    ValidCurve(curve) =>
        LET top == Max({p.temp_c : p \in Points})
        IN  temp > top => \E p \in Points :
                             p.temp_c = top /\ DutyForTemp(curve, temp) >= p.duty_pct
=============================================================================
