---------------------------- MODULE CurveProofs ----------------------------
(***************************************************************************)
(* What Curve computes, for every curve and every temperature.             *)
(***************************************************************************)
EXTENDS Curve, NatLemmas

(* Clamp, the clamp(0.0, 100.0) of the code, returns a percentage.          *)
LEMMA ClampBounded == \A d \in Int : Clamp(d) \in 0..100
BY DEF Clamp

(* A nonempty set of natural numbers has the least element Min chooses.     *)
LEMMA MinIsElement ==
    ASSUME NEW S \in SUBSET Nat, S # {}
    PROVE  Min(S) \in S
BY LeastElement DEF Min

\* What validate leaves of a point
LEMMA AcceptedPoint ==
    ASSUME NEW p \in CurvePoint, p.duty_pct <= 100
    PROVE  p.duty_pct \in 0..100 /\ p.temp_c \in Int
<1>1. p.duty_pct \in 0..255 /\ p.temp_c \in Int
  BY DEF CurvePoint
<1> QED
  BY <1>1

(* The window that duty_for_temp interpolates in lies within the curve.     *)
LEMMA FirstWindow ==
    ASSUME NEW points \in CurvePoints, NEW t \in Int, Windows(points, t) # {}
    PROVE  /\ Min(Windows(points, t)) \in 1..(Len(points) - 1)
           /\ points[Min(Windows(points, t))] \in CurvePoint
           /\ points[Min(Windows(points, t)) + 1] \in CurvePoint
<1>1. Windows(points, t) \in SUBSET Nat /\ Windows(points, t) \subseteq 1..(Len(points) - 1)
  BY DEF Windows, CurvePoints
<1>2. Min(Windows(points, t)) \in 1..(Len(points) - 1)
  BY <1>1, MinIsElement
<1> QED
  BY <1>2 DEF CurvePoints

(* A curve that validate accepts asks, at any temperature whatever, for a   *)
(* duty between 0 and 100: set_duty_pct's min(100) never has to cut it, and *)
(* the u8 conversion never wraps.                                           *)
THEOREM DutyBounded ==
    ASSUME NEW points \in CurvePoints, ValidCurve(points), NEW t \in Int
    PROVE  DutyForTemp(points, t) \in 0..100
<1> DEFINE n == Len(points)
<1>1. /\ n \in Nat /\ n # 0
      /\ \A i \in 1..n : points[i].duty_pct \in 0..100 /\ points[i].temp_c \in Int
  <2>1. n \in Nat /\ n > 0 /\ DOMAIN points = 1..n
    BY DEF ValidCurve, CurvePoints
  <2>2. ASSUME NEW i \in 1..n
        PROVE  points[i].duty_pct \in 0..100 /\ points[i].temp_c \in Int
    <3>1. points[i] \in CurvePoint
      BY <2>1, <2>2 DEF CurvePoints
    <3>2. points[i].duty_pct <= 100
      BY <2>1, <2>2 DEF ValidCurve
    <3> QED BY <3>1, <3>2, AcceptedPoint
  <2> QED BY <2>1, <2>2
<1>2. CASE Windows(points, t) # {}
  <2> DEFINE i == Min(Windows(points, t))
  <2>1. i \in 1..(n - 1) /\ i \in 1..n /\ i + 1 \in 1..n
    BY <1>1, <1>2, FirstWindow
  <2>2. points[i].duty_pct \in 0..100
    BY <1>1, <2>1
  <2>3. points[i + 1].temp_c - points[i].temp_c > 0
          => Interpolate(points[i], points[i + 1], t) \in 0..100
    <3> SUFFICES ASSUME points[i + 1].temp_c - points[i].temp_c > 0
                 PROVE  Interpolate(points[i], points[i + 1], t) \in 0..100
      OBVIOUS
    <3> DEFINE span == points[i + 1].temp_c - points[i].temp_c
               num == points[i].duty_pct * span
                        + (t - points[i].temp_c) * (points[i + 1].duty_pct - points[i].duty_pct)
    <3>1. span \in Int /\ span > 0 /\ num \in Int
      <4>1. /\ points[i].temp_c \in Int /\ points[i + 1].temp_c \in Int
            /\ points[i].duty_pct \in Int /\ points[i + 1].duty_pct \in Int
        <5> HIDE DEF i
        <5>1. /\ points[i].temp_c \in Int /\ points[i].duty_pct \in 0..100
          BY <1>1, <2>1
        <5>2. /\ points[i + 1].temp_c \in Int /\ points[i + 1].duty_pct \in 0..100
          BY <1>1, <2>1
        <5> QED BY <5>1, <5>2
      <4>2. \A a, b, c, d \in Int : a * b + c * d \in Int
        OBVIOUS
      <4>3. /\ span \in Int /\ t - points[i].temp_c \in Int
            /\ points[i + 1].duty_pct - points[i].duty_pct \in Int
        BY <4>1
      <4> QED BY <4>1, <4>2, <4>3
    <3>2. RoundDiv(num, span) \in Int
      <4> HIDE DEF num, span
      <4> QED BY <3>1 DEF RoundDiv
    <3> QED
      BY <3>2, ClampBounded DEF Interpolate
  <2>4. InWindow(points, t) \in 0..100
    <3>1. points[i + 1].temp_c - points[i].temp_c \in Int
      BY <1>1, <2>1
    <3> QED BY <2>2, <2>3, <3>1 DEF InWindow
  <2> QED
    BY <1>1, <1>2, <2>4 DEF DutyForTemp
<1>3. CASE Windows(points, t) = {}
  BY <1>1, <1>3 DEF DutyForTemp
<1> QED
  BY <1>2, <1>3

-----------------------------------------------------------------------------
(* The straight line between two points, rounded.                           *)

LEMMA ProductMonotone ==
    ASSUME NEW a \in Int, NEW b \in Int, a <= b, NEW c \in Nat
    PROVE  a * c <= b * c
OBVIOUS

(* round() is off by half a percent at the most.                            *)
LEMMA RoundedToNearest ==
    ASSUME NEW num \in Int, NEW den \in Int, den > 0
    PROVE  /\ RoundDiv(num, den) \in Int
           /\ RoundDiv(num, den) * (2 * den) <= 2 * num + den
           /\ 2 * num + den < (RoundDiv(num, den) + 1) * (2 * den)
<1>1. ASSUME NEW a \in Int, NEW b \in Int, b > 0
      PROVE  /\ a \div b \in Int
             /\ (a \div b) * b <= a /\ a < (a \div b + 1) * b
  BY <1>1
<1>2. 2 * num + den \in Int /\ 2 * den \in Int /\ 2 * den > 0
  OBVIOUS
<1> QED
  BY <1>1, <1>2 DEF RoundDiv

\* Rounding stays within whole bounds, and keeps the order
LEMMA RoundedWithin ==
    ASSUME NEW num \in Int, NEW den \in Int, den > 0, NEW x \in Int
    PROVE  /\ x * den <= num => x <= RoundDiv(num, den)
           /\ num <= x * den => RoundDiv(num, den) <= x
<1> DEFINE q == RoundDiv(num, den)
<1>1. /\ q \in Int
      /\ q * (2 * den) <= 2 * num + den /\ 2 * num + den < (q + 1) * (2 * den)
  BY RoundedToNearest
<1> HIDE DEF q
<1>2. /\ x * (2 * den) = 2 * (x * den) /\ (x + 1) * (2 * den) = 2 * (x * den) + 2 * den
      /\ x * den \in Int /\ 2 * den \in Nat
  OBVIOUS
<1>3. ASSUME x * den <= num, q < x PROVE FALSE
  <2>1. (q + 1) * (2 * den) <= x * (2 * den)
    BY <1>1, <1>2, <1>3, ProductMonotone
  <2> QED BY <1>1, <1>2, <1>3, <2>1
<1>4. ASSUME num <= x * den, x < q PROVE FALSE
  <2>1. (x + 1) * (2 * den) <= q * (2 * den)
    BY <1>1, <1>2, <1>4, ProductMonotone
  <2> QED BY <1>1, <1>2, <1>4, <2>1
<1> QED
  BY <1>1, <1>3, <1>4 DEF q

LEMMA RoundingMonotone ==
    ASSUME NEW m \in Int, NEW n \in Int, m <= n, NEW den \in Int, den > 0
    PROVE  RoundDiv(m, den) <= RoundDiv(n, den)
<1> DEFINE q == RoundDiv(m, den)
           r == RoundDiv(n, den)
<1>1. /\ q \in Int /\ q * (2 * den) <= 2 * m + den
      /\ r \in Int /\ 2 * n + den < (r + 1) * (2 * den)
  BY RoundedToNearest
<1> HIDE DEF q, r
<1>2. ASSUME r < q PROVE FALSE
  <2>1. (r + 1) * (2 * den) <= q * (2 * den)
    BY <1>1, <1>2, ProductMonotone
  <2> QED BY <1>1, <2>1
<1> QED
  BY <1>1, <1>2 DEF q, r

\* The mean of x and y, weighted by u and v, is between them
LEMMA WeightedMean ==
    ASSUME NEW x \in Int, NEW y \in Int, x <= y, NEW u \in Nat, NEW v \in Nat
    PROVE  /\ x * (u + v) <= x * u + y * v /\ x * u + y * v <= y * (u + v)
           /\ x * u + y * v \in Int
<1>1. x * v <= y * v /\ x * u <= y * u
  BY ProductMonotone
<1>2. x * (u + v) = x * u + x * v /\ y * (u + v) = y * u + y * v
  OBVIOUS
<1>3. x * u \in Int /\ x * v \in Int /\ y * u \in Int /\ y * v \in Int
  OBVIOUS
<1> QED
  BY <1>1, <1>2, <1>3

\* The value at t of the line from a to b, times its span
Line(a, b, t) == a.duty_pct * (b.temp_c - t) + b.duty_pct * (t - a.temp_c)

(* Between two points whose duties are percentages nothing is left for the  *)
(* code to clamp; where the duties rise, the result is between them.        *)
LEMMA Interpolated ==
    ASSUME NEW a \in CurvePoint, NEW b \in CurvePoint, NEW t \in Int,
           a.duty_pct <= 100, b.duty_pct <= 100,
           a.temp_c < b.temp_c, a.temp_c <= t, t <= b.temp_c
    PROVE  /\ Line(a, b, t) \in Int
           /\ Interpolate(a, b, t) = RoundDiv(Line(a, b, t), b.temp_c - a.temp_c)
           /\ Interpolate(a, b, t) \in 0..100
           /\ a.duty_pct <= b.duty_pct =>
                 Interpolate(a, b, t) \in a.duty_pct .. b.duty_pct
<1> DEFINE x == a.duty_pct
           y == b.duty_pct
           u == b.temp_c - t
           v == t - a.temp_c
           span == b.temp_c - a.temp_c
           q == RoundDiv(x * u + y * v, span)
<1>1. x \in 0..100 /\ y \in 0..100 /\ a.temp_c \in Int /\ b.temp_c \in Int
  BY DEF CurvePoint
<1>2. u \in Nat /\ v \in Nat /\ span \in Int /\ span > 0 /\ span = u + v
  BY <1>1
<1>3. Line(a, b, t) = x * u + y * v
  BY DEF Line
<1>4. Interpolate(a, b, t) = Clamp(RoundDiv(x * span + v * (y - x), span))
  BY DEF Interpolate
<1> HIDE DEF x, y, u, v, span
<1>5. x * (u + v) + v * (y - x) = x * u + y * v
  BY <1>1, <1>2
<1>6. x * u + y * v \in Int
  BY <1>1, <1>2
<1>7. /\ q \in Int
      /\ x <= y => x <= q /\ q <= y
      /\ y <= x => y <= q /\ q <= x
  <2>1. q \in Int
    BY <1>2, <1>6, RoundedToNearest
  <2>2. ASSUME x <= y PROVE x <= q /\ q <= y
    <3>1. x * span <= x * u + y * v /\ x * u + y * v <= y * span
      BY <1>1, <1>2, <2>2, WeightedMean
    <3> QED BY <1>1, <1>2, <1>6, <3>1, RoundedWithin
  <2>3. ASSUME y <= x PROVE y <= q /\ q <= x
    <3>1. y * (v + u) <= y * v + x * u /\ y * v + x * u <= x * (v + u)
      BY <1>1, <1>2, <2>3, WeightedMean
    <3>2. v + u = span /\ y * v + x * u = x * u + y * v
      BY <1>1, <1>2
    <3>3. y * span <= x * u + y * v /\ x * u + y * v <= x * span
      BY <3>1, <3>2
    <3> QED BY <1>1, <1>2, <1>6, <3>3, RoundedWithin
  <2> QED BY <2>1, <2>2, <2>3
<1> HIDE DEF q
<1>8. q \in 0..100
  BY <1>1, <1>7
<1>9. Interpolate(a, b, t) = q
  <2>1. Interpolate(a, b, t) = Clamp(q)
    BY <1>2, <1>4, <1>5 DEF q
  <2> QED BY <1>8, <2>1 DEF Clamp
<1>10. Line(a, b, t) \in Int /\ q = RoundDiv(Line(a, b, t), b.temp_c - a.temp_c)
  BY <1>3, <1>6 DEF q, span
<1> QED
  BY <1>7, <1>8, <1>9, <1>10 DEF x, y

\* At its end the line has the value of the point there
LEMMA LineEnds ==
    ASSUME NEW a \in CurvePoint, NEW b \in CurvePoint
    PROVE  Line(a, b, b.temp_c) = b.duty_pct * (b.temp_c - a.temp_c)
<1>1. a.duty_pct \in Int /\ b.duty_pct \in Int /\ a.temp_c \in Int /\ b.temp_c \in Int
  BY DEF CurvePoint
<1>2. b.temp_c - b.temp_c = 0 /\ a.duty_pct * 0 = 0
  BY <1>1
<1>3. b.duty_pct * (b.temp_c - a.temp_c) \in Int
  BY <1>1
<1> QED
  BY <1>2, <1>3 DEF Line

LEMMA LineRises ==
    ASSUME NEW a \in CurvePoint, NEW b \in CurvePoint, NEW s \in Int, NEW t \in Int,
           a.duty_pct <= b.duty_pct, s <= t
    PROVE  Line(a, b, s) <= Line(a, b, t)
<1>1. a.duty_pct \in Int /\ b.duty_pct \in Int /\ a.temp_c \in Int /\ b.temp_c \in Int
  BY DEF CurvePoint
<1>2. ASSUME NEW x \in Int, NEW y \in Int, NEW f \in Int, NEW g \in Int, x <= y
      PROVE  x * (g - s) + y * (s - f) <= x * (g - t) + y * (t - f)
  <2>1. x * (t - s) <= y * (t - s)
    BY <1>2, ProductMonotone
  <2>2. /\ x * (g - s) = x * (g - t) + x * (t - s)
        /\ y * (t - f) = y * (s - f) + y * (t - s)
    OBVIOUS
  <2>3. /\ x * (g - t) \in Int /\ x * (t - s) \in Int
        /\ y * (s - f) \in Int /\ y * (t - s) \in Int
    OBVIOUS
  <2> QED BY <2>1, <2>2, <2>3
<1> QED
  BY <1>1, <1>2 DEF Line

-----------------------------------------------------------------------------
(* The walk over the windows.                                               *)

LEMMA AcceptedPoints ==
    ASSUME NEW points \in CurvePoints, ValidCurve(points)
    PROVE  /\ Len(points) \in Nat /\ Len(points) > 0 /\ DOMAIN points = 1..Len(points)
           /\ \A i \in 1..Len(points) :
                 /\ points[i] \in CurvePoint /\ points[i].temp_c \in Int
                 /\ points[i].duty_pct \in Int /\ points[i].duty_pct <= 100
<1>1. Len(points) \in Nat /\ Len(points) > 0 /\ DOMAIN points = 1..Len(points)
  BY DEF ValidCurve, CurvePoints
<1>2. \A i \in 1..Len(points) : points[i] \in CurvePoint /\ points[i].duty_pct <= 100
  BY <1>1 DEF ValidCurve, CurvePoints
<1>3. \A p \in CurvePoint : p.temp_c \in Int /\ p.duty_pct \in Int
  BY DEF CurvePoint
<1> QED
  BY <1>1, <1>2, <1>3

(* Between the ends of a curve the walk finds a window, whatever the order  *)
(* of the points: the final "100" of duty_for_temp is never reached there.  *)
LEMMA WindowFound ==
    ASSUME NEW points \in CurvePoints, ValidCurve(points), NEW t \in Int,
           points[1].temp_c < t, t < points[Len(points)].temp_c
    PROVE  /\ Windows(points, t) # {}
           /\ Min(Windows(points, t)) \in Windows(points, t)
           /\ \A j \in Windows(points, t) : Min(Windows(points, t)) <= j
<1> DEFINE n == Len(points)
           Above == {k \in 1..n : points[k].temp_c >= t}
<1>1. n \in Nat /\ n > 0 /\ \A i \in 1..n : points[i].temp_c \in Int
  BY AcceptedPoints
<1>2. Above \in SUBSET Nat /\ n \in Above
  BY <1>1
<1>3. PICK k \in Above : \A j \in Above : k <= j
  BY <1>2, LeastElement
<1>4. k \in 1..n /\ points[k].temp_c >= t /\ k # 1
  BY <1>1
<1>5. k - 1 \in 1..n /\ k - 1 \notin Above
  BY <1>1, <1>3, <1>4
<1>6. points[k - 1].temp_c < t
  BY <1>1, <1>5
<1>7. k - 1 \in Windows(points, t)
  <2>1. k - 1 \in 1..(n - 1) /\ (k - 1) + 1 = k
    BY <1>1, <1>4
  <2>2. points[k - 1].temp_c <= t
    BY <1>1, <1>5, <1>6
  <2> QED BY <1>1, <1>4, <2>1, <2>2 DEF Windows
<1>8. Windows(points, t) \in SUBSET Nat
  BY <1>1 DEF Windows
<1>9. PICK m \in Windows(points, t) : \A j \in Windows(points, t) : m <= j
  BY <1>7, <1>8, LeastElement
<1> QED
  BY <1>7, <1>9 DEF Min

\* Between its ends a curve says what the first window says
LEMMA DutyInWindow ==
    ASSUME NEW points \in CurvePoints, ValidCurve(points), NEW t \in Int,
           points[1].temp_c < t, t < points[Len(points)].temp_c
    PROVE  \E i \in 1..(Len(points) - 1) :
              /\ points[i].temp_c <= t /\ t <= points[i + 1].temp_c
              /\ \A j \in Windows(points, t) : i <= j
              /\ DutyForTemp(points, t) =
                    IF points[i].temp_c < points[i + 1].temp_c
                    THEN Interpolate(points[i], points[i + 1], t) ELSE points[i].duty_pct
<1> DEFINE n == Len(points)
           i == Min(Windows(points, t))
<1>1. n \in Nat /\ n > 0 /\ \A k \in 1..n : points[k].temp_c \in Int
  BY AcceptedPoints
<1>2. /\ Windows(points, t) # {} /\ i \in Windows(points, t)
      /\ \A j \in Windows(points, t) : i <= j
  BY WindowFound
<1>3. DutyForTemp(points, t) = InWindow(points, t)
  <2>1. 1 \in 1..n /\ n \in 1..n
    BY <1>1
  <2>2. n # 0 /\ ~ (t <= points[1].temp_c) /\ ~ (t >= points[n].temp_c)
    BY <1>1, <2>1
  <2> QED BY <1>2, <2>2 DEF DutyForTemp
<1>4. i \in 1..(n - 1) /\ points[i].temp_c <= t /\ t <= points[i + 1].temp_c
  BY <1>2 DEF Windows
<1>5. InWindow(points, t) =
         IF points[i + 1].temp_c - points[i].temp_c <= 0 THEN points[i].duty_pct
         ELSE Interpolate(points[i], points[i + 1], t)
  BY DEF InWindow
<1> HIDE DEF i
<1>6. points[i].temp_c \in Int /\ points[i + 1].temp_c \in Int
  BY <1>1, <1>4
<1>7. points[i + 1].temp_c - points[i].temp_c <= 0 <=> ~ (points[i].temp_c < points[i + 1].temp_c)
  BY <1>6
<1> QED
  BY <1>2, <1>3, <1>4, <1>5, <1>7

(* Under a curve of which validate has nothing to say, a hotter reading     *)
(* never asks for less cooling, however far apart the two readings: what    *)
(* rounding and the choice of window must not break                         *)
(* (common/src/config.rs:111-137).                                          *)
THEOREM DutyMonotone ==
    ASSUME NEW points \in CurvePoints, ValidCurve(points), Sorted(points), Rising(points),
           NEW s \in Int, NEW t \in Int, s <= t
    PROVE  DutyForTemp(points, s) <= DutyForTemp(points, t)
<1> DEFINE n == Len(points)
           Inner(r) == points[1].temp_c < r /\ r < points[n].temp_c
<1>1. /\ n \in Nat /\ n > 0 /\ DOMAIN points = 1..n
      /\ \A i \in 1..n : /\ points[i] \in CurvePoint /\ points[i].temp_c \in Int
                         /\ points[i].duty_pct \in Int /\ points[i].duty_pct <= 100
  BY AcceptedPoints
<1>2. \A i, j \in 1..n : i <= j => points[i].temp_c <= points[j].temp_c
  BY <1>1 DEF Sorted
<1>3. \A i, j \in 1..n : i <= j => points[i].duty_pct <= points[j].duty_pct
  BY <1>1 DEF Rising
<1>4. ASSUME NEW r \in Int
      PROVE  /\ r <= points[1].temp_c => DutyForTemp(points, r) = points[1].duty_pct
             /\ r > points[1].temp_c /\ ~ Inner(r) => DutyForTemp(points, r) = points[n].duty_pct
  <2>1. n # 0 /\ points[1].temp_c \in Int /\ points[n].temp_c \in Int
    BY <1>1
  <2> QED BY <2>1 DEF DutyForTemp
\* Between the ends: the window, and what bounds the duty there
<1>5. ASSUME NEW r \in Int, Inner(r)
      PROVE  \E i \in 1..(n - 1) :
                /\ points[i].temp_c <= r /\ r <= points[i + 1].temp_c
                /\ \A j \in Windows(points, r) : i <= j
                /\ DutyForTemp(points, r) \in points[i].duty_pct .. points[i + 1].duty_pct
                /\ points[i].temp_c < points[i + 1].temp_c =>
                      DutyForTemp(points, r) = Interpolate(points[i], points[i + 1], r)
  <2>1. PICK i \in 1..(n - 1) :
            /\ points[i].temp_c <= r /\ r <= points[i + 1].temp_c
            /\ \A j \in Windows(points, r) : i <= j
            /\ DutyForTemp(points, r) =
                  IF points[i].temp_c < points[i + 1].temp_c
                  THEN Interpolate(points[i], points[i + 1], r) ELSE points[i].duty_pct
    BY <1>5, DutyInWindow
  <2>2. i \in 1..n /\ i + 1 \in 1..n
    BY <1>1
  <2>3. points[i].duty_pct <= points[i + 1].duty_pct
    BY <1>3, <2>2
  <2>4. points[i].duty_pct \in Int /\ points[i + 1].duty_pct \in Int
    BY <1>1, <2>2
  <2>5. points[i].temp_c < points[i + 1].temp_c =>
           Interpolate(points[i], points[i + 1], r) \in points[i].duty_pct .. points[i + 1].duty_pct
    <3> SUFFICES ASSUME points[i].temp_c < points[i + 1].temp_c
                 PROVE  Interpolate(points[i], points[i + 1], r)
                            \in points[i].duty_pct .. points[i + 1].duty_pct
      OBVIOUS
    <3>1. /\ points[i] \in CurvePoint /\ points[i].duty_pct <= 100
          /\ points[i + 1] \in CurvePoint /\ points[i + 1].duty_pct <= 100
      BY <1>1, <2>2
    <3> QED BY <2>1, <2>3, <3>1, Interpolated
  <2>6. DutyForTemp(points, r) \in points[i].duty_pct .. points[i + 1].duty_pct
    BY <2>1, <2>3, <2>4, <2>5
  <2> QED BY <2>1, <2>6
<1>6. ASSUME Inner(s), Inner(t), s < t
      PROVE  DutyForTemp(points, s) <= DutyForTemp(points, t)
  <2>1. PICK i \in 1..(n - 1) :
            /\ points[i].temp_c <= s /\ s <= points[i + 1].temp_c
            /\ \A j \in Windows(points, s) : i <= j
            /\ DutyForTemp(points, s) \in points[i].duty_pct .. points[i + 1].duty_pct
            /\ points[i].temp_c < points[i + 1].temp_c =>
                  DutyForTemp(points, s) = Interpolate(points[i], points[i + 1], s)
    BY <1>5, <1>6
  <2>2. PICK k \in 1..(n - 1) :
            /\ points[k].temp_c <= t /\ t <= points[k + 1].temp_c
            /\ DutyForTemp(points, t) \in points[k].duty_pct .. points[k + 1].duty_pct
            /\ points[k].temp_c < points[k + 1].temp_c =>
                  DutyForTemp(points, t) = Interpolate(points[k], points[k + 1], t)
    BY <1>5, <1>6
  <2>3. /\ i \in 1..n /\ i + 1 \in 1..n /\ k \in 1..n /\ k + 1 \in 1..n
        /\ points[i].temp_c \in Int /\ points[i + 1].temp_c \in Int
        /\ points[k].temp_c \in Int /\ points[k + 1].temp_c \in Int
    BY <1>1
  <2>4. i <= k
    <3> SUFFICES ASSUME k < i PROVE FALSE
      BY <2>3
    <3>1. points[k].temp_c <= points[i].temp_c
      BY <1>2, <2>3
    <3>2. points[k].temp_c <= s /\ s <= points[k + 1].temp_c
      BY SMTT(30), <1>6, <2>1, <2>2, <2>3, <3>1
    <3>3. k \in Windows(points, s)
      BY <3>2 DEF Windows
    <3> QED BY <2>1, <2>3, <3>3
  <2>5. CASE i < k
    <3>1. points[i + 1].duty_pct <= points[k].duty_pct
      BY <1>3, <2>3, <2>5
    <3>2. points[i].duty_pct \in Int /\ points[i + 1].duty_pct \in Int
          /\ points[k].duty_pct \in Int /\ points[k + 1].duty_pct \in Int
      BY <1>1, <2>3
    <3> QED BY <2>1, <2>2, <3>1, <3>2
  <2>6. CASE i = k
    <3>1. points[i].temp_c < points[i + 1].temp_c /\ t <= points[i + 1].temp_c
          /\ s <= points[i + 1].temp_c /\ points[i].temp_c <= t
      BY <1>6, <2>1, <2>2, <2>3, <2>6
    <3>2. points[i].duty_pct <= points[i + 1].duty_pct
      BY <1>3, <2>3
    <3>3. /\ DutyForTemp(points, s) = Interpolate(points[i], points[i + 1], s)
          /\ DutyForTemp(points, t) = Interpolate(points[i], points[i + 1], t)
      BY <2>1, <2>2, <2>6, <3>1
    <3>4. points[i] \in CurvePoint /\ points[i + 1] \in CurvePoint
          /\ points[i].duty_pct <= 100 /\ points[i + 1].duty_pct <= 100
      BY <1>1, <2>3
    <3>5. Line(points[i], points[i + 1], s) <= Line(points[i], points[i + 1], t)
      BY <1>6, <3>2, <3>4, LineRises
    <3>6. /\ Line(points[i], points[i + 1], s) \in Int /\ Line(points[i], points[i + 1], t) \in Int
          /\ Interpolate(points[i], points[i + 1], s)
                = RoundDiv(Line(points[i], points[i + 1], s),
                           points[i + 1].temp_c - points[i].temp_c)
          /\ Interpolate(points[i], points[i + 1], t)
                = RoundDiv(Line(points[i], points[i + 1], t),
                           points[i + 1].temp_c - points[i].temp_c)
      BY <2>1, <3>1, <3>4, Interpolated
    <3>7. points[i + 1].temp_c - points[i].temp_c \in Int
          /\ points[i + 1].temp_c - points[i].temp_c > 0
      BY SMTT(30), <2>3, <3>1
    <3> QED BY <3>3, <3>5, <3>6, <3>7, RoundingMonotone
  <2> QED BY <2>3, <2>4, <2>5, <2>6
\* What holds at every reading
<1>7. ASSUME NEW r \in Int
      PROVE  /\ DutyForTemp(points, r) \in Int
             /\ points[1].duty_pct <= DutyForTemp(points, r)
             /\ DutyForTemp(points, r) <= points[n].duty_pct
  <2>1. 1 \in 1..n /\ n \in 1..n /\ points[1].temp_c \in Int
        /\ points[1].duty_pct \in Int /\ points[n].duty_pct \in Int
        /\ points[1].duty_pct <= points[n].duty_pct
    BY <1>1, <1>3
  <2>2. CASE ~ Inner(r)
    BY <1>4, <2>1, <2>2
  <2>3. CASE Inner(r)
    <3>1. PICK i \in 1..(n - 1) :
              DutyForTemp(points, r) \in points[i].duty_pct .. points[i + 1].duty_pct
      BY <1>5, <2>3
    <3>2. i \in 1..n /\ i + 1 \in 1..n
      BY <1>1
    <3>3. points[1].duty_pct <= points[i].duty_pct /\ points[i + 1].duty_pct <= points[n].duty_pct
          /\ points[i].duty_pct \in Int /\ points[i + 1].duty_pct \in Int
      BY <1>1, <1>3, <2>1, <3>2
    <3> QED BY <2>1, <3>1, <3>3
  <2> QED BY <2>2, <2>3
<1>8. points[1].temp_c \in Int /\ points[n].temp_c \in Int
  BY <1>1
<1>9. CASE s = t
  <2>1. DutyForTemp(points, s) \in Int
    BY <1>7
  <2> QED BY <1>9, <2>1
<1>10. CASE s <= points[1].temp_c
  BY <1>4, <1>7, <1>10
<1>11. CASE t > points[1].temp_c /\ ~ Inner(t)
  BY <1>4, <1>7, <1>11
<1> QED
  BY <1>6, <1>8, <1>9, <1>10, <1>11

-----------------------------------------------------------------------------
(* A curve in ascending order is the line through its points.               *)

LEMMA BeyondEnds ==
    ASSUME NEW points \in CurvePoints, ValidCurve(points), StrictlySorted(points), NEW t \in Int
    PROVE  /\ t <= points[1].temp_c => DutyForTemp(points, t) = points[1].duty_pct
           /\ t >= points[Len(points)].temp_c =>
                 DutyForTemp(points, t) = points[Len(points)].duty_pct
<1> DEFINE n == Len(points)
<1>1. n \in Nat /\ n > 0 /\ DOMAIN points = 1..n /\ 1 \in 1..n /\ n \in 1..n
      /\ points[1].temp_c \in Int /\ points[n].temp_c \in Int
  BY AcceptedPoints
<1>2. n = 1 \/ points[1].temp_c < points[n].temp_c
  BY <1>1 DEF StrictlySorted
<1> QED
  BY <1>1, <1>2 DEF DutyForTemp

LEMMA BetweenPoints ==
    ASSUME NEW points \in CurvePoints, ValidCurve(points), StrictlySorted(points), NEW t \in Int,
           NEW j \in 1..(Len(points) - 1),
           points[j].temp_c < t, t < points[j + 1].temp_c
    PROVE  DutyForTemp(points, t) = Interpolate(points[j], points[j + 1], t)
<1> DEFINE n == Len(points)
<1>1. /\ n \in Nat /\ n > 0 /\ DOMAIN points = 1..n
      /\ \A i \in 1..n : points[i].temp_c \in Int
  BY AcceptedPoints
<1>2. ASSUME NEW i \in 1..n, NEW k \in 1..n, i <= k
      PROVE  points[i].temp_c <= points[k].temp_c
  <2>1. points[i].temp_c \in Int /\ points[k].temp_c \in Int
    BY <1>1
  <2>2. i < k => points[i].temp_c < points[k].temp_c
    BY <1>1 DEF StrictlySorted
  <2> QED BY <1>2, <2>1, <2>2
<1>3. j \in 1..n /\ j + 1 \in 1..n /\ 1 \in 1..n /\ n \in 1..n
      /\ points[j].temp_c \in Int /\ points[j + 1].temp_c \in Int
  BY <1>1
<1>4. points[1].temp_c < t /\ t < points[n].temp_c
  <2>1. points[1].temp_c <= points[j].temp_c /\ points[j + 1].temp_c <= points[n].temp_c
    BY <1>2, <1>3
  <2>2. points[1].temp_c \in Int /\ points[n].temp_c \in Int
    BY <1>1, <1>3
  <2> QED BY <1>3, <2>1, <2>2
<1>5. PICK i \in 1..(n - 1) :
          /\ points[i].temp_c <= t /\ t <= points[i + 1].temp_c
          /\ DutyForTemp(points, t) =
                IF points[i].temp_c < points[i + 1].temp_c
                THEN Interpolate(points[i], points[i + 1], t) ELSE points[i].duty_pct
  BY <1>4, DutyInWindow
<1>6. i \in 1..n /\ i + 1 \in 1..n
      /\ points[i].temp_c \in Int /\ points[i + 1].temp_c \in Int
  BY <1>1
<1>7. ~ (i < j)
  <2> SUFFICES ASSUME i < j PROVE FALSE
    OBVIOUS
  <2>1. i + 1 <= j
    BY <1>3, <1>6
  <2>2. points[i + 1].temp_c <= points[j].temp_c
    BY <1>2, <1>3, <1>6, <2>1
  <2> QED BY <1>3, <1>5, <1>6, <2>2
<1>8. ~ (j < i)
  <2> SUFFICES ASSUME j < i PROVE FALSE
    OBVIOUS
  <2>1. j + 1 <= i
    BY <1>3, <1>6
  <2>2. points[j + 1].temp_c <= points[i].temp_c
    BY <1>2, <1>3, <1>6, <2>1
  <2> QED BY <1>3, <1>5, <1>6, <2>2
<1>9. i = j
  BY <1>3, <1>6, <1>7, <1>8
<1>10. points[j].temp_c < points[j + 1].temp_c
  BY <1>3
<1> QED
  BY <1>5, <1>9, <1>10

(* At the temperature of a point a curve asks for that point's duty.        *)
LEMMA AtPoint ==
    ASSUME NEW points \in CurvePoints, ValidCurve(points), StrictlySorted(points),
           NEW j \in 1..Len(points)
    PROVE  DutyForTemp(points, points[j].temp_c) = points[j].duty_pct
<1> DEFINE n == Len(points)
           t == points[j].temp_c
<1>1. /\ n \in Nat /\ n > 0 /\ DOMAIN points = 1..n
      /\ \A i \in 1..n : /\ points[i] \in CurvePoint /\ points[i].temp_c \in Int
                         /\ points[i].duty_pct \in Int /\ points[i].duty_pct <= 100
  BY AcceptedPoints
<1>2. \A i, k \in 1..n : i < k => points[i].temp_c < points[k].temp_c
  BY <1>1 DEF StrictlySorted
<1>3. t \in Int
  BY <1>1
<1>4. CASE j = 1 \/ j = n
  BY <1>1, <1>3, <1>4, BeyondEnds
<1>5. CASE j # 1 /\ j # n
  <2>1. j - 1 \in 1..(n - 1) /\ j - 1 \in 1..n /\ (j - 1) + 1 = j
        /\ 1 \in 1..n /\ n \in 1..n /\ 1 < j /\ j < n /\ j - 1 < j
    <3>1. j \in 1..n /\ n \in Nat
      BY <1>1
    <3> HIDE DEF n
    <3> QED BY <1>5, <3>1
  <2>2. /\ points[1].temp_c < t /\ t < points[n].temp_c /\ points[j - 1].temp_c < t
        /\ points[j - 1].temp_c \in Int
    BY <1>1, <1>2, <2>1
  <2>3. j - 1 \in Windows(points, t)
    <3>1. points[j - 1].temp_c <= t /\ t <= points[(j - 1) + 1].temp_c
      BY <1>3, <2>1, <2>2
    <3> QED BY <2>1, <3>1 DEF Windows
  <2> HIDE DEF t
  <2>4. PICK i \in 1..(n - 1) :
            /\ points[i].temp_c <= t /\ t <= points[i + 1].temp_c
            /\ \A k \in Windows(points, t) : i <= k
            /\ DutyForTemp(points, t) =
                  IF points[i].temp_c < points[i + 1].temp_c
                  THEN Interpolate(points[i], points[i + 1], t) ELSE points[i].duty_pct
    BY <1>3, <2>2, DutyInWindow
  <2>5. i \in 1..n /\ i + 1 \in 1..n /\ i <= j - 1 /\ points[i + 1].temp_c \in Int
    BY <1>1, <2>1, <2>3, <2>4
  <2>6. i = j - 1
    <3>1. ~ (i + 1 < j)
      <4> SUFFICES ASSUME i + 1 < j PROVE FALSE
        OBVIOUS
      <4>1. points[i + 1].temp_c < t
        BY <1>2, <2>5 DEF t
      <4> QED BY <1>3, <2>4, <2>5, <4>1
    <3> QED BY <2>1, <2>5, <3>1
  <2>7. DutyForTemp(points, t) = Interpolate(points[j - 1], points[j], t)
    BY <2>1, <2>2, <2>4, <2>6 DEF t
  <2> DEFINE a == points[j - 1]
             b == points[j]
  <2>8. /\ a \in CurvePoint /\ b \in CurvePoint /\ a.duty_pct <= 100 /\ b.duty_pct <= 100
        /\ a.duty_pct \in Int /\ b.duty_pct \in Int
        /\ a.temp_c \in Int /\ b.temp_c = t /\ a.temp_c < t
    BY <1>1, <2>1, <2>2 DEF t
  <2>9. DutyForTemp(points, t) = Interpolate(a, b, t)
    BY <2>7
  <2> HIDE DEF a, b
  <2>10. Interpolate(a, b, t) = RoundDiv(Line(a, b, t), t - a.temp_c)
    BY SMTT(30), <1>3, <2>8, Interpolated
  <2>11. Line(a, b, t) = b.duty_pct * (t - a.temp_c)
    BY <2>8, LineEnds
  <2>12. b.duty_pct * (t - a.temp_c) \in Int /\ t - a.temp_c \in Int /\ t - a.temp_c > 0
    BY <1>3, <2>8
  <2>13. RoundDiv(b.duty_pct * (t - a.temp_c), t - a.temp_c) = b.duty_pct
    <3> DEFINE q == RoundDiv(b.duty_pct * (t - a.temp_c), t - a.temp_c)
    <3>1. q \in Int
      BY <2>12, RoundedToNearest
    <3>2. b.duty_pct <= q /\ q <= b.duty_pct
      BY <2>8, <2>12, RoundedWithin
    <3> QED BY <2>8, <3>1, <3>2
  <2> QED BY <2>9, <2>10, <2>11, <2>13 DEF b, t
<1> QED
  BY <1>4, <1>5
=============================================================================
