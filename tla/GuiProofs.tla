----------------------------- MODULE GuiProofs -----------------------------
(***************************************************************************)
(* Proofs about the GUI: what the bridge holds of config.toml and writes   *)
(* to it, and the window and its settings, for every config and any        *)
(* number of edits.                                                        *)
(***************************************************************************)
EXTENDS GuiApp, FiniteSetTheorems, TLAPS

-----------------------------------------------------------------------------
(* The sort of a curve's points (apply_curve): the ranks are 1..n, so there *)
(* is one point for each place.                                             *)

NotAfter(points, i) ==
    {j \in DOMAIN points :
        \/ points[j].temp_c < points[i].temp_c
        \/ points[j].temp_c = points[i].temp_c /\ j <= i}

LEMMA PointsType ==
    ASSUME NEW points \in CurvePoints
    PROVE  /\ Len(points) \in Nat /\ DOMAIN points = 1..Len(points)
           /\ \A i \in 1..Len(points) :
                 /\ points[i] \in CurvePoint
                 /\ points[i].temp_c \in Int /\ points[i].duty_pct \in 0..255
  <1>1. Len(points) \in Nat /\ DOMAIN points = 1..Len(points)
    BY DEF CurvePoints
  <1>2. ASSUME NEW i \in 1..Len(points)
        PROVE  points[i] \in CurvePoint
    BY DEF CurvePoints
  <1>3. \A p \in CurvePoint : p.temp_c \in Int /\ p.duty_pct \in 0..255
    BY DEF CurvePoint
  <1> QED BY <1>1, <1>2, <1>3

\* A list of points is a curve
LEMMA CurveOfPoints ==
    ASSUME NEW n \in Nat, NEW points \in [1..n -> CurvePoint]
    PROVE  points \in CurvePoints /\ Len(points) = n
  BY DEF CurvePoints

LEMMA NotAfterFinite ==
    ASSUME NEW points \in CurvePoints, NEW i \in DOMAIN points
    PROVE  /\ IsFiniteSet(NotAfter(points, i)) /\ i \in NotAfter(points, i)
           /\ Rank(points, i) = Cardinality(NotAfter(points, i))
           /\ Rank(points, i) \in 1..Len(points)
  <1>1. /\ IsFiniteSet(DOMAIN points) /\ Cardinality(DOMAIN points) = Len(points)
    BY SMTT(30), PointsType, FS_Interval
  <1>2. NotAfter(points, i) \in SUBSET DOMAIN points /\ i \in NotAfter(points, i)
    BY PointsType DEF NotAfter
  <1>3. /\ IsFiniteSet(NotAfter(points, i))
        /\ Cardinality(NotAfter(points, i)) <= Len(points)
    BY <1>1, <1>2, FS_Subset
  <1>4. Cardinality(NotAfter(points, i)) \in Nat /\ Cardinality(NotAfter(points, i)) # 0
    BY <1>2, <1>3, FS_CardinalityType, FS_EmptySet
  <1>5. Rank(points, i) = Cardinality(NotAfter(points, i))
    BY DEF Rank, NotAfter
  <1> QED BY <1>2, <1>3, <1>4, <1>5, PointsType

LEMMA RankOrders ==
    ASSUME NEW points \in CurvePoints, NEW i \in DOMAIN points, NEW j \in DOMAIN points, i # j,
           i \in NotAfter(points, j)
    PROVE  Rank(points, i) < Rank(points, j)
  <1>1. NotAfter(points, i) \in SUBSET NotAfter(points, j) /\ j \notin NotAfter(points, i)
    BY PointsType DEF NotAfter
  <1>2. j \in NotAfter(points, j)
    BY NotAfterFinite
  <1>3. Cardinality(NotAfter(points, i)) <= Cardinality(NotAfter(points, j))
        /\ Cardinality(NotAfter(points, i)) # Cardinality(NotAfter(points, j))
    BY <1>1, <1>2, NotAfterFinite, FS_Subset
  <1>4. Rank(points, i) \in Int /\ Rank(points, j) \in Int
    BY NotAfterFinite
  <1> QED BY <1>3, <1>4, NotAfterFinite

LEMMA RankOnto ==
    ASSUME NEW points \in CurvePoints, NEW k \in DOMAIN points
    PROVE  \E i \in DOMAIN points : Rank(points, i) = k
  <1> DEFINE D == DOMAIN points
             f == [i \in D |-> Rank(points, i)]
  <1>1. D = 1..Len(points) /\ IsFiniteSet(D)
    BY PointsType, FS_Interval
  <1>2. f \in [D -> D]
    BY <1>1, NotAfterFinite
  <1>3. ASSUME NEW i \in D, NEW j \in D, i # j PROVE f[i] # f[j]
    <2>1. i \in NotAfter(points, j) \/ j \in NotAfter(points, i)
      BY PointsType DEF NotAfter
    <2>2. Rank(points, i) < Rank(points, j) \/ Rank(points, j) < Rank(points, i)
      BY <1>3, <2>1, RankOrders
    <2>3. Rank(points, i) \in Int /\ Rank(points, j) \in Int
      BY NotAfterFinite
    <2> QED BY <2>2, <2>3
  <1>4. f \in Injection(D, D)
    BY <1>2, <1>3 DEF Injection, IsInjective
  <1>5. f \in Surjection(D, D)
    BY <1>1, <1>4, FS_Injection
  <1> QED BY <1>5 DEF Surjection

(* SortByTemp returns as many points, each of them one of the curve's, in   *)
(* ascending order.                                                         *)
LEMMA SortSorts ==
    ASSUME NEW points \in CurvePoints
    PROVE  /\ SortByTemp(points) \in CurvePoints
           /\ Len(SortByTemp(points)) = Len(points)
           /\ \A k \in DOMAIN points : \E i \in DOMAIN points : SortByTemp(points)[k] = points[i]
           /\ Sorted(SortByTemp(points))
  <1> DEFINE at(k) == CHOOSE i \in DOMAIN points : Rank(points, i) = k
  <1>1. \A k \in DOMAIN points : at(k) \in DOMAIN points /\ Rank(points, at(k)) = k
    BY RankOnto
  <1>2. DOMAIN SortByTemp(points) = DOMAIN points
        /\ \A k \in DOMAIN points : SortByTemp(points)[k] = points[at(k)]
    BY DEF SortByTemp
  <1> HIDE DEF at
  <1>3. SortByTemp(points) \in CurvePoints /\ Len(SortByTemp(points)) = Len(points)
    <2>1. SortByTemp(points) \in [1..Len(points) -> CurvePoint]
      BY <1>1, PointsType DEF SortByTemp, at
    <2> QED BY <2>1, PointsType, CurveOfPoints
  <1>4. ASSUME NEW k \in DOMAIN points, NEW l \in DOMAIN points, k < l
        PROVE  points[at(k)].temp_c <= points[at(l)].temp_c
    <2>1. at(l) \notin NotAfter(points, at(k))
      BY <1>1, <1>4, RankOrders, PointsType
    <2> QED BY <1>1, <2>1, PointsType DEF NotAfter
  <1> QED BY <1>1, <1>2, <1>3, <1>4 DEF Sorted

(* The sort of a save (gui/src/bridge.rs:331-350) moves points and loses    *)
(* none: each has a place of its own in the result, those of the same       *)
(* temperature in their old order.                                          *)
THEOREM SortLosesNothing ==
    ASSUME NEW points \in CurvePoints
    PROVE  /\ \A i \in DOMAIN points :
                 /\ Rank(points, i) \in DOMAIN points
                 /\ SortByTemp(points)[Rank(points, i)] = points[i]
           /\ \A i, j \in DOMAIN points :
                 i # j => Rank(points, i) # Rank(points, j)
           /\ \A i, j \in DOMAIN points :
                 i < j /\ points[i].temp_c = points[j].temp_c
                    => Rank(points, i) < Rank(points, j)
  <1>1. ASSUME NEW i \in DOMAIN points
        PROVE  Rank(points, i) \in DOMAIN points /\ Rank(points, i) \in Int
    BY NotAfterFinite, PointsType
  <1>2. ASSUME NEW i \in DOMAIN points, NEW j \in DOMAIN points, i # j
        PROVE  Rank(points, i) # Rank(points, j)
    <2>1. i \in NotAfter(points, j) \/ j \in NotAfter(points, i)
      BY PointsType DEF NotAfter
    <2>2. Rank(points, i) < Rank(points, j) \/ Rank(points, j) < Rank(points, i)
      BY <1>2, <2>1, RankOrders
    <2> QED BY <1>1, <2>2
  <1>3. ASSUME NEW i \in DOMAIN points
        PROVE  SortByTemp(points)[Rank(points, i)] = points[i]
    <2>1. SortByTemp(points)[Rank(points, i)]
             = points[CHOOSE j \in DOMAIN points : Rank(points, j) = Rank(points, i)]
      BY <1>1 DEF SortByTemp
    <2>2. (CHOOSE j \in DOMAIN points : Rank(points, j) = Rank(points, i)) = i
      BY <1>2
    <2> QED BY <2>1, <2>2
  <1>4. ASSUME NEW i \in DOMAIN points, NEW j \in DOMAIN points,
               i < j, points[i].temp_c = points[j].temp_c
        PROVE  Rank(points, i) < Rank(points, j)
    <2>1. i \in NotAfter(points, j) /\ i # j
      BY <1>4, PointsType DEF NotAfter
    <2> QED BY <2>1, RankOrders
  <1> QED BY <1>1, <1>2, <1>3, <1>4

(* A sorted curve stays as it is.                                           *)
LEMMA SortOfSorted ==
    ASSUME NEW points \in CurvePoints, Sorted(points)
    PROVE  SortByTemp(points) = points
  <1>1. ASSUME NEW i \in DOMAIN points PROVE Rank(points, i) = i
    <2>1. ASSUME NEW j \in DOMAIN points PROVE j \in NotAfter(points, i) <=> j <= i
      BY PointsType DEF NotAfter, Sorted
    <2>2. NotAfter(points, i) = 1..i
      BY <2>1, PointsType DEF NotAfter
    <2>3. i \in Int /\ i >= 1
      BY PointsType
    <2>4. Cardinality(1..i) = i
      BY <2>3, FS_Interval
    <2> QED BY <2>2, <2>4, NotAfterFinite
  <1>2. \A k \in DOMAIN points : (CHOOSE i \in DOMAIN points : Rank(points, i) = k) = k
    BY <1>1
  <1>3. points = [k \in DOMAIN points |-> points[k]]
    BY PointsType DEF CurvePoints
  <1> QED BY <1>2, <1>3 DEF SortByTemp

-----------------------------------------------------------------------------
(* The conversions between a config and the window.                         *)

CurveType == [temp_source : Sources, points : CurvePoints]

LEMMA ClampTwice == \A d \in Int : Clamp(d) \in 0..100 /\ Clamp(Clamp(d)) = Clamp(d)
  BY DEF Clamp

\* The points of a curve with their duties cut at 100
Clamped(points) == [i \in DOMAIN points |-> [points[i] EXCEPT !.duty_pct = Clamp(@)]]

LEMMA ClampedPoints ==
    ASSUME NEW points \in CurvePoints
    PROVE  /\ Clamped(points) \in CurvePoints /\ Len(Clamped(points)) = Len(points)
           /\ DOMAIN Clamped(points) = DOMAIN points
           /\ \A i \in DOMAIN points : Clamped(points)[i].duty_pct \in 0..100
  <1>1. ASSUME NEW i \in DOMAIN points
        PROVE  Clamped(points)[i] \in CurvePoint /\ Clamped(points)[i].duty_pct \in 0..100
    <2>1. points[i] \in CurvePoint /\ points[i].duty_pct \in 0..255
      BY PointsType
    <2>2. Clamp(points[i].duty_pct) \in 0..100
      BY SMTT(30), <2>1, ClampTwice
    <2>3. Clamped(points)[i] = [points[i] EXCEPT !.duty_pct = Clamp(points[i].duty_pct)]
      BY DEF Clamped
    <2> QED BY <2>1, <2>2, <2>3 DEF CurvePoint
  <1>2. Clamped(points) \in [1..Len(points) -> CurvePoint]
    BY <1>1, PointsType DEF Clamped
  <1>3. Clamped(points) \in CurvePoints /\ Len(Clamped(points)) = Len(points)
    BY <1>2, PointsType, CurveOfPoints
  <1> QED BY <1>1, <1>3 DEF Clamped

\* Points whose duties are percentages are not cut
LEMMA ClampedStays ==
    ASSUME NEW points \in CurvePoints, \A i \in DOMAIN points : points[i].duty_pct \in 0..100
    PROVE  Clamped(points) = points
  <1>1. ASSUME NEW i \in DOMAIN points
        PROVE  [points[i] EXCEPT !.duty_pct = Clamp(points[i].duty_pct)] = points[i]
    <2>1. points[i] \in CurvePoint
      BY PointsType
    <2>2. Clamp(points[i].duty_pct) = points[i].duty_pct
      BY DEF Clamp
    <2> QED BY <2>1, <2>2 DEF CurvePoint
  <1>2. points = [i \in DOMAIN points |-> points[i]]
    BY DEF CurvePoints
  <1> QED BY <1>1, <1>2 DEF Clamped

(* What apply_curve returns is a curve with its points in ascending order   *)
(* and its duties percentages, and apply_curve leaves such a curve as it is.*)
LEMMA ApplyCurveNormal ==
    ASSUME NEW curve \in CurveType
    PROVE  /\ ApplyCurve(curve) \in CurveType
           /\ Len(ApplyCurve(curve).points) = Len(curve.points)
           /\ Sorted(ApplyCurve(curve).points)
           /\ ApplyCurve(ApplyCurve(curve)) = ApplyCurve(curve)
  <1> DEFINE sorted == SortByTemp(Clamped(curve.points))
  <1>1. curve.points \in CurvePoints
    BY DEF CurveType
  <1>2. ApplyCurve(curve) = [curve EXCEPT !.points = sorted]
    BY DEF ApplyCurve, Clamped
  <1>3. /\ sorted \in CurvePoints /\ Len(sorted) = Len(curve.points) /\ Sorted(sorted)
        /\ \A k \in DOMAIN sorted : sorted[k].duty_pct \in 0..100
    <2>1. /\ Clamped(curve.points) \in CurvePoints
          /\ Len(Clamped(curve.points)) = Len(curve.points)
          /\ \A i \in DOMAIN Clamped(curve.points) : Clamped(curve.points)[i].duty_pct \in 0..100
      BY <1>1, ClampedPoints
    <2>2. DOMAIN sorted = DOMAIN Clamped(curve.points)
      BY DEF SortByTemp
    <2> QED BY ZenonT(30), <2>1, <2>2, SortSorts
  <1> HIDE DEF sorted
  <1>4. ApplyCurve(curve) \in CurveType /\ ApplyCurve(curve).points = sorted
    BY <1>2, <1>3 DEF CurveType
  <1>5. SortByTemp(Clamped(sorted)) = sorted
    BY <1>3, ClampedStays, SortOfSorted
  <1>6. ApplyCurve(ApplyCurve(curve)) = [ApplyCurve(curve) EXCEPT !.points = sorted]
    BY <1>4, <1>5 DEF ApplyCurve, Clamped
  <1>7. ApplyCurve(ApplyCurve(curve)) = ApplyCurve(curve)
    BY <1>4, <1>6 DEF CurveType
  <1> QED BY <1>3, <1>4, <1>7

LEMMA DrawnCurves ==
    ASSUME NEW curves \in CurvesType
    PROVE  Drawn(curves) \in CurvesType /\ Drawn(Drawn(curves)) = Drawn(curves)
  <1>1. \A ch \in Channels : curves[ch] \in CurveType
    BY DEF CurvesType, CurveType
  <1> QED BY <1>1, ApplyCurveNormal DEF Drawn, CurvesType, CurveType

LEMMA Rounded ==
    ASSUME NEW num \in Int, NEW den \in Nat \ {0}
    PROVE  RoundDiv(num, den) \in Int
  BY DEF RoundDiv

\* Whole degrees come back as they were
LEMMA RoundedExactly ==
    ASSUME NEW n \in Int, NEW den \in Nat \ {0}
    PROVE  RoundDiv(n * den, den) = n
  <1>1. ASSUME NEW a \in Int, NEW b \in Int, b > 0, NEW q \in Int, q * b <= a, a < (q + 1) * b
        PROVE  a \div b = q
    BY <1>1
  <1>2. n * (2 * den) = 2 * (n * den) /\ (n + 1) * (2 * den) = 2 * (n * den) + 2 * den
    OBVIOUS
  <1>3. n * den \in Int /\ 2 * den \in Int /\ 2 * den > 0 /\ 2 * (n * den) + den \in Int
    OBVIOUS
  <1>4. n * (2 * den) <= 2 * (n * den) + den /\ 2 * (n * den) + den < (n + 1) * (2 * den)
    BY <1>2, <1>3
  <1>5. (2 * (n * den) + den) \div (2 * den) = n
    BY <1>1, <1>3, <1>4
  <1> QED BY <1>5 DEF RoundDiv

LEMMA WholeDegreesType ==
    /\ \A t \in Int \cup {NaN} : WholeDegrees(t) \in Int
    /\ \A n \in Int : WholeDegrees(n * Degree) = n
  <1> USE DegreeAssumption, NaNAssumption
  <1>1. ASSUME NEW t \in Int \cup {NaN} PROVE WholeDegrees(t) \in Int
    <2>1. t # NaN => RoundDiv(t, Degree) \in Int /\ RoundDiv(- t, Degree) \in Int
      BY Rounded
    <2> QED BY <2>1 DEF WholeDegrees
  <1>2. ASSUME NEW n \in Int PROVE WholeDegrees(n * Degree) = n
    <2>1. n * Degree \in Int /\ - (n * Degree) = (- n) * Degree
      OBVIOUS
    <2>2. RoundDiv(n * Degree, Degree) = n /\ RoundDiv((- n) * Degree, Degree) = - n
      BY RoundedExactly
    <2>3. n * Degree # NaN
      BY <2>1
    <2>4. WholeDegrees(n * Degree) = IF n * Degree < 0 THEN - (- n) ELSE n
      BY <2>1, <2>2, <2>3 DEF WholeDegrees
    <2> QED BY <2>4
  <1> QED BY <1>1, <1>2

LEMMA PropsOfType ==
    ASSUME NEW c \in ConfigType
    PROVE  /\ PropsOf(c) \in PropsType /\ c.curve \in CurvesType
           /\ Hidden(c) \in [poll_interval_ms : Nat]
  <1>1. WholeDegrees(c.failsafe_temp_c) \in Int
    BY WholeDegreesType DEF ConfigType
  <1> QED BY <1>1 DEF PropsOf, PropsType, CurvesType, Hidden, ConfigType

LEMMA BuiltType ==
    ASSUME NEW c \in [poll_interval_ms : Nat], NEW p \in PropsType, NEW curves \in CurvesType
    PROVE  /\ Built(c, p, curves) \in ConfigType
           /\ Built(c, p, curves).curve = Drawn(curves)
           /\ \A ch \in Channels : Sorted(Built(c, p, curves).curve[ch].points)
           /\ Hidden(Built(c, p, curves)) = c
           /\ Shown(PropsOf(Built(c, p, curves))) = Shown(p)
  <1>1. Built(c, p, curves).curve = Drawn(curves) /\ Drawn(curves) \in CurvesType
    BY DrawnCurves DEF Built, Drawn
  <1>2. \A ch \in Channels : Sorted(Drawn(curves)[ch].points)
    BY ApplyCurveNormal DEF Drawn, CurvesType, CurveType
  <1>3. p.failsafe_temp * Degree \in Int /\ WholeDegrees(p.failsafe_temp * Degree) = p.failsafe_temp
    BY WholeDegreesType, DegreeAssumption DEF PropsType
  <1>4. Clamp(p.silent_duty) \in 0..255 /\ Clamp(Clamp(p.silent_duty)) = Clamp(p.silent_duty)
    <2>1. \A d \in 0..255 : Clamp(d) \in 0..255 /\ Clamp(Clamp(d)) = Clamp(d)
      BY DEF Clamp
    <2>2. p.silent_duty \in 0..255
      BY DEF PropsType
    <2> QED BY <2>1, <2>2
  <1>5. Built(c, p, curves) \in ConfigType
    <2>1. Drawn(curves) \in [Channels -> [temp_source : Sources, points : CurvePoints]]
      BY <1>1 DEF CurvesType
    <2> QED BY <1>1, <1>3, <1>4, <2>1 DEF Built, ConfigType, PropsType
  <1>6. Hidden(Built(c, p, curves)) = c
    BY DEF Hidden, Built
  <1>7. Shown(PropsOf(Built(c, p, curves))) = Shown(p)
    BY <1>3, <1>4 DEF Shown, PropsOf, Built, PropsType
  <1> QED BY <1>1, <1>2, <1>5, <1>6, <1>7

-----------------------------------------------------------------------------
(* Types.                                                                   *)

LEMMA EditedPointsType ==
    ASSUME NEW points \in CurvePoints
    PROVE  EditedPoints(points) \subseteq CurvePoints
  <1>1. ASSUME NEW p \in NewPoints
        PROVE  p \in CurvePoint /\ p.temp_c \in Int /\ p.duty_pct \in 0..255
    <2>1. PICK q \in PointChoices : p = [temp_c |-> q.degrees * Degree, duty_pct |-> q.duty]
      BY DEF NewPoints
    <2>2. q.degrees \in Int /\ q.duty \in 0..255 /\ Degree \in Int
      <3>1. q.degrees \in 0..150 /\ q.duty \in 0..100
        BY BridgeAssumption
      <3> QED BY <3>1, DegreeAssumption
    <2>3. q.degrees * Degree \in Int
      BY <2>2
    <2> QED BY <2>1, <2>2, <2>3 DEF CurvePoint
  <1>2. NextPoint(points) \in CurvePoint
    <2>1. 20 * Degree \in Int /\ 5 * Degree \in Int /\ 150 * Degree \in Int
      BY DegreeAssumption
    <2>2. CASE points = <<>>
      BY <2>1, <2>2 DEF NextPoint, CurvePoint
    <2>3. CASE points # <<>>
      <3>1. Len(points) \in DOMAIN points
        BY <2>3, PointsType DEF CurvePoints
      <3>2. points[Len(points)].temp_c \in Int /\ points[Len(points)].duty_pct \in 0..255
        BY <3>1, PointsType
      <3>3. \A d \in 0..255 : Clamp(d + 10) \in 0..255
        BY DEF Clamp
      <3>4. ASSUME NEW t \in Int, NEW d \in 0..255
            PROVE  [temp_c   |-> IF t < 145 * Degree THEN t + 5 * Degree ELSE 150 * Degree,
                    duty_pct |-> Clamp(d + 10)] \in CurvePoint
        <4>1. Clamp(d + 10) \in 0..255
          BY <3>3
        <4>2. (IF t < 145 * Degree THEN t + 5 * Degree ELSE 150 * Degree) \in Int
          BY <2>1
        <4> QED BY Zenon, <4>1, <4>2 DEF CurvePoint
      <3> QED BY Zenon, <2>3, <3>2, <3>4 DEF NextPoint
    <2> QED BY <2>2, <2>3
  <1>3. ASSUME NEW i \in DOMAIN points, NEW p \in Moved(points[i])
        PROVE  [points EXCEPT ![i] = p] \in CurvePoints
    <2>1. points[i] \in CurvePoint
      BY PointsType
    <2>2. p \in CurvePoint
      BY <1>1, <2>1 DEF Moved, CurvePoint
    <2> QED BY <2>2 DEF CurvePoints
  <1>4. ASSUME NEW p \in NewPoints \cup {NextPoint(points)}
        PROVE  Append(points, p) \in CurvePoints
    <2>1. p \in CurvePoint
      BY <1>1, <1>2
    <2> QED BY <2>1 DEF CurvePoints
  <1>5. ASSUME NEW i \in DOMAIN points PROVE RemoveAt(points, i) \in CurvePoints
    BY DEF RemoveAt, CurvePoints
  <1>6. ASSUME NEW new \in EditedPoints(points) PROVE new \in CurvePoints
    <2>1. CASE \E i \in DOMAIN points : \E p \in Moved(points[i]) : new = [points EXCEPT ![i] = p]
      BY <1>3, <2>1
    <2>2. CASE \E p \in NewPoints \cup {NextPoint(points)} : new = Append(points, p)
      BY <1>4, <2>2
    <2>3. CASE \E i \in DOMAIN points : new = RemoveAt(points, i)
      BY <1>5, <2>3
    <2> QED BY Zenon, <1>6, <2>1, <2>2, <2>3 DEF EditedPoints
  <1> QED BY <1>6

LEMMA DefaultsType ==
    /\ DefaultProps \in PropsType /\ NoCurves \in CurvesType
    /\ DefaultSettings \in Settings
  <1>1. DefaultProps \in PropsType
    BY DEF DefaultProps, PropsType, Modes, Sources
  <1>2. << >> \in CurvePoints
    BY DEF CurvePoints
  <1>3. NoCurves \in CurvesType
    BY <1>2 DEF NoCurves, CurvesType, Sources
  <1>4. DefaultSettings \in Settings
    BY DEF DefaultSettings, Settings
  <1> QED BY <1>1, <1>3, <1>4

LEMMA TornType ==
    ASSUME NEW s \in Settings PROVE Torn(s) \subseteq Settings
  <1> DEFINE F == {Fields[i] : i \in DOMAIN Fields}
  <1>1. DOMAIN s = F /\ \A f \in F : s[f] \in BOOLEAN /\ DefaultSettings[f] \in BOOLEAN
    BY DefaultsType DEF Settings
  <1> QED BY <1>1 DEF Torn, Settings

\* The conjuncts of BridgeTypeOK, by who changes them
OutsideOK ==
    /\ file \in ConfigType \cup {Unparsable}
    /\ daemon \in {"down", "serving"} /\ reload_flag \in BOOLEAN
    /\ running \in ConfigType \cup {None}
    /\ edits \in 0..MaxEdits
    /\ foreign \in BOOLEAN /\ unread \in BOOLEAN
    /\ writer \in {"none", "gui", "client", "hand"}

GuiOK ==
    /\ open \in BOOLEAN /\ announcing \in BOOLEAN
    /\ cfg \in [poll_interval_ms : Nat] \cup {None}
    /\ props \in PropsType
    /\ curves_json \in CurvesType /\ editor \in CurvesType
    /\ message \in Messages
    /\ touched \subseteq {"props", "editor", "curves_json"}

AppOK ==
    /\ window \in BOOLEAN /\ entry \in BOOLEAN
    /\ prefs \in Settings /\ gui_toml \in Settings
    /\ settings_ok \in BOOLEAN
    /\ window => open

LEMMA TypeParts == TypeOK <=> OutsideOK /\ GuiOK /\ AppOK
  BY DEF TypeOK, BridgeTypeOK, OutsideOK, GuiOK, AppOK

LEMMA ShownType ==
    ASSUME NEW c \in ConfigType, Show(c)
    PROVE  /\ cfg' \in [poll_interval_ms : Nat] /\ props' \in PropsType
           /\ curves_json' \in CurvesType /\ editor' \in CurvesType
           /\ touched' = {} /\ foreign' = FALSE
  BY PropsOfType DEF Show

LEMMA OpenType == OutsideOK /\ GuiOK /\ Open => OutsideOK' /\ GuiOK' /\ open'
  <1> SUFFICES ASSUME OutsideOK, GuiOK, Open PROVE OutsideOK' /\ GuiOK' /\ open'
    OBVIOUS
  <1>1. CASE file = Unparsable
    BY <1>1 DEF Open, OutsideOK, GuiOK, Messages, view
  <1>2. CASE file # Unparsable
    <2>1. Show(file) /\ file \in ConfigType
      BY <1>2 DEF Open, OutsideOK
    <2> QED BY <1>2, <2>1, ShownType DEF Open, OutsideOK, GuiOK
  <1> QED BY <1>1, <1>2

LEMMA RevertType == OutsideOK /\ GuiOK /\ Revert => OutsideOK' /\ GuiOK' /\ UNCHANGED open
  <1> SUFFICES ASSUME OutsideOK, GuiOK, Revert PROVE OutsideOK' /\ GuiOK' /\ UNCHANGED open
    OBVIOUS
  <1>1. CASE file = Unparsable
    BY <1>1 DEF Revert, OutsideOK, GuiOK, Messages
  <1>2. CASE file # Unparsable
    <2>1. Show(file) /\ file \in ConfigType
      BY <1>2 DEF Revert, OutsideOK
    <2> QED BY <1>2, <2>1, ShownType DEF Revert, OutsideOK, GuiOK, Messages
  <1> QED BY <1>1, <1>2

LEMMA ClosedType == Closed => GuiOK'
  BY DefaultsType DEF Closed, GuiOK, Messages

LEMMA EditPropsType == OutsideOK /\ GuiOK /\ EditProps => OutsideOK' /\ GuiOK' /\ UNCHANGED open
  <1> SUFFICES ASSUME OutsideOK, GuiOK, EditProps PROVE OutsideOK' /\ GuiOK' /\ UNCHANGED open
    OBVIOUS
  <1>1. props' \in PropsType
    <2>1. ASSUME NEW m \in Modes PROVE [props EXCEPT !.mode = m] \in PropsType
      BY DEF GuiOK, PropsType
    <2>2. ASSUME NEW d \in 0..100 PROVE [props EXCEPT !.silent_duty = d] \in PropsType
      BY DEF GuiOK, PropsType
    <2>3. ASSUME NEW t \in 40..100 PROVE [props EXCEPT !.failsafe_temp = t] \in PropsType
      BY DEF GuiOK, PropsType
    <2>4. [props EXCEPT !.lcd_enabled = ~ @] \in PropsType
      BY DEF GuiOK, PropsType
    <2>5. ASSUME NEW source \in Sources PROVE [props EXCEPT !.lcd_source = source] \in PropsType
      BY DEF GuiOK, PropsType
    <2> QED BY ZenonT(30), <2>1, <2>2, <2>3, <2>4, <2>5, BridgeAssumption DEF EditProps
  <1>2. edits' \in 0..MaxEdits
    BY BridgeAssumption DEF EditProps, Edit, OutsideOK
  <1> QED BY <1>1, <1>2 DEF EditProps, Edit, OutsideOK, GuiOK

LEMMA EditCurveType ==
    ASSUME OutsideOK, GuiOK, NEW ch \in EditedChannels, EditCurve(ch)
    PROVE  OutsideOK' /\ GuiOK' /\ UNCHANGED open
  <1>1. editor' \in CurvesType
    <2>1. ch \in Channels /\ editor[ch] \in CurveType /\ editor[ch].points \in CurvePoints
      BY BridgeAssumption DEF GuiOK, CurvesType, CurveType
    <2>2. EditedPoints(editor[ch].points) \subseteq CurvePoints /\ SourceChoices \subseteq Sources
      BY <2>1, EditedPointsType, BridgeAssumption
    <2> QED BY <2>1, <2>2 DEF EditCurve, GuiOK, CurvesType, CurveType
  <1>2. edits' \in 0..MaxEdits
    BY BridgeAssumption DEF EditCurve, Edit, OutsideOK
  <1> QED BY <1>1, <1>2 DEF EditCurve, Edit, OutsideOK, GuiOK

LEMMA SaveType ==
    ASSUME OutsideOK, GuiOK, props' \in PropsType, curves_json' \in CurvesType,
           UNCHANGED <<open, cfg, editor>>, touched' \subseteq {"props", "editor", "curves_json"},
           SaveRefused \/ SaveFails \/ SaveWrites
    PROVE  OutsideOK' /\ GuiOK' /\ UNCHANGED open
  <1>1. CASE SaveRefused \/ SaveFails
    BY <1>1 DEF SaveRefused, SaveFails, outside, OutsideOK, GuiOK, Messages
  <1>2. CASE SaveWrites
    <2>1. file' \in ConfigType
      BY <1>2, BuiltType DEF SaveWrites, GuiOK
    <2> QED BY <1>2, <2>1 DEF SaveWrites, OutsideOK, GuiOK
  <1> QED BY <1>1, <1>2

LEMMA SavesType ==
    ASSUME OutsideOK, GuiOK, SaveAndApply \/ \E m \in ModeChoices : ModeFromTray(m)
    PROVE  OutsideOK' /\ GuiOK' /\ UNCHANGED open
  <1>1. /\ props' \in PropsType /\ curves_json' \in CurvesType
        /\ UNCHANGED <<open, cfg, editor>> /\ touched' \subseteq {"props", "editor", "curves_json"}
    BY BridgeAssumption DEF SaveAndApply, ModeFromTray, GuiOK, PropsType
  <1>2. SaveRefused \/ SaveFails \/ SaveWrites
    BY DEF SaveAndApply, ModeFromTray
  <1> QED BY <1>1, <1>2, SaveType

LEMMA SetActiveModeType ==
    ASSUME NEW text \in ConfigType \cup {Unparsable}, NEW m \in Modes
    PROVE  SetActiveMode(text, m) \in ConfigType \cup {Unparsable}
  BY DEF SetActiveMode, ConfigType

LEMMA ElsewhereType ==
    ASSUME OutsideOK, GuiOK, Announce \/ Others
    PROVE  OutsideOK' /\ GuiOK' /\ UNCHANGED open
  <1> USE DEF OutsideOK, GuiOK, bridge, view
  <1>1. CASE Announce
    BY <1>1 DEF Announce, Messages
  <1>2. CASE ClientSetsMode
    <2>1. file' \in ConfigType \cup {Unparsable}
      BY <1>2, SetActiveModeType, BridgeAssumption DEF ClientSetsMode, Written
    <2> QED BY <1>2, <2>1 DEF ClientSetsMode, Written
  <1>3. CASE HandEdit
    <2>1. edits' \in 0..MaxEdits
      BY <1>3, BridgeAssumption DEF HandEdit
    <2>2. file' \in ConfigType \cup {Unparsable}
      BY <1>3, BridgeAssumption DEF HandEdit, Written
    <2> QED BY <1>3, <2>1, <2>2 DEF HandEdit, Written
  <1>4. CASE DaemonStarts \/ DaemonReloads \/ DaemonStops
    BY <1>4 DEF DaemonStarts, DaemonReloads, DaemonStops, Loads
  <1> QED BY <1>1, <1>2, <1>3, <1>4 DEF Others

LEMMA FlipType ==
    ASSUME OutsideOK, AppOK, NEW f \in DOMAIN DefaultSettings, NEW new \in Settings, Flip(f, new)
    PROVE  OutsideOK'
  <1>1. edits' \in 0..MaxEdits
    BY BridgeAssumption DEF Flip, OutsideOK
  <1> QED BY <1>1 DEF Flip, OutsideOK

LEMMA AutostartType ==
    /\ "autostart" \in {Fields[i] : i \in DOMAIN Fields}
    /\ \A s \in Settings : s["autostart"] \in BOOLEAN
  <1>1. 4 \in DOMAIN Fields /\ Fields[4] = "autostart"
    BY DEF Fields
  <1>2. "autostart" \in {Fields[i] : i \in DOMAIN Fields}
    BY <1>1
  <1> QED BY <1>2 DEF Settings

LEMMA ToggleType ==
    ASSUME OutsideOK, GuiOK, AppOK, NEW f \in DOMAIN DefaultSettings, Toggle(f)
    PROVE  OutsideOK' /\ GuiOK' /\ AppOK'
  <1>1. PICK new \in Settings :
          /\ Flip(f, new)
          /\ \/ /\ prefs' = new /\ gui_toml' = new /\ settings_ok' = TRUE
                /\ entry' = new["autostart"] /\ UNCHANGED <<bridge, window>>
             \/ /\ SavedInPart(new) /\ prefs' = new /\ message' = "error"
                /\ UNCHANGED <<open, cfg, view, announcing, touched, window>>
             \/ SavedInPart(new) /\ Closed /\ window' = FALSE /\ prefs' = DefaultSettings
    BY DEF Toggle, SettingsSaved, SettingsFail, SettingsKilled
  <1>2. OutsideOK'
    BY <1>1, FlipType
  <1>3. new["autostart"] \in BOOLEAN
    BY AutostartType
  <1>4. SavedInPart(new) => gui_toml' \in Settings /\ entry' \in BOOLEAN /\ settings_ok' \in BOOLEAN
    BY <1>3, TornType DEF SavedInPart, AppOK
  <1>5. GuiOK'
    BY <1>1, ClosedType DEF GuiOK, bridge, view, Messages
  <1>6. AppOK'
    <2>1. prefs' \in Settings
      BY <1>1, DefaultsType
    <2>2. gui_toml' \in Settings /\ entry' \in BOOLEAN /\ settings_ok' \in BOOLEAN
      BY <1>1, <1>3, <1>4
    <2>3. window' \in BOOLEAN /\ (window' => open')
      <3>1. (window' = window /\ open' = open) \/ window' = FALSE
        BY <1>1 DEF bridge, view
      <3>2. CASE window' = FALSE
        BY <3>2
      <3>3. CASE window' = window /\ open' = open
        BY <3>3, Zenon DEF AppOK
      <3> QED BY <3>1, <3>2, <3>3
    <2> QED BY <2>1, <2>2, <2>3 DEF AppOK
  <1> QED BY <1>2, <1>5, <1>6

LEMMA NextGuiType == TypeOK /\ [Next]_vars => TypeOK'
  <1> SUFFICES ASSUME OutsideOK, GuiOK, AppOK, [Next]_vars PROVE OutsideOK' /\ GuiOK' /\ AppOK'
    BY DEF TypeOK, BridgeTypeOK, OutsideOK, GuiOK, AppOK
  <1>1. CASE Start
    <2>1. OutsideOK' /\ GuiOK' /\ open'
      BY <1>1, OpenType DEF Start
    <2> QED BY <1>1, <2>1 DEF Start, AppOK
  <1>2. CASE End
    <2>1. OutsideOK' /\ GuiOK'
      BY <1>2, ClosedType DEF End, Quit, outside, OutsideOK
    <2> QED BY <1>2, <2>1, DefaultsType DEF End, AppOK
  <1>3. ASSUME UNCHANGED bridgeVars, UNCHANGED own,
               window' \in BOOLEAN, window' => open
        PROVE  OutsideOK' /\ GuiOK' /\ AppOK'
    BY <1>3 DEF own, bridgeVars, outside, bridge, view, OutsideOK, GuiOK, AppOK
  <1>4. CASE Close
    BY <1>2, <1>3, <1>4 DEF Close, Hide, AppOK
  <1>5. CASE ToggleWindow \/ UNCHANGED vars
    <2>1. ToggleWindow => window' \in BOOLEAN /\ open
      BY DEF ToggleWindow, Ready
    <2> QED BY <1>3, <1>5, <2>1 DEF ToggleWindow, vars, app, own, AppOK
  <1>6. CASE FromWindow \/ FromTray \/ Elsewhere
    <2>1. OutsideOK' /\ GuiOK' /\ UNCHANGED open /\ UNCHANGED app
      BY <1>6, EditPropsType, EditCurveType, SavesType, RevertType, ElsewhereType
         DEF FromWindow, FromTray, Elsewhere
    <2> QED BY <2>1 DEF AppOK, app, own
  <1> QED BY <1>1, <1>2, <1>4, <1>5, <1>6, ToggleType DEF Next

(* Every variable has its type, for every config and any number of edits:  *)
(* what the window makes of a file that the daemon would refuse, and what  *)
(* a save makes of the window, are configs (gui/src/bridge.rs:134-350), and *)
(* a window is one of a process.                                            *)
THEOREM GuiTypesCorrect == Spec => []TypeOK
  <1>1. Init => TypeOK
    <2> SUFFICES ASSUME Init PROVE OutsideOK /\ GuiOK /\ AppOK
      BY TypeParts
    <2>1. OutsideOK
      <3>1. file \in ConfigType \cup {Unparsable}
        BY BridgeAssumption DEF Init, BridgeInit
      <3>2. edits = 0 /\ MaxEdits \in Nat
        BY BridgeAssumption DEF Init, BridgeInit
      <3>3. edits \in 0..MaxEdits
        BY <3>2
      <3>4. daemon = "down" /\ reload_flag = FALSE /\ running = None /\ foreign = FALSE
            /\ writer = "none" /\ unread = FALSE
        BY DEF Init, BridgeInit
      <3> QED BY <3>1, <3>3, <3>4 DEF OutsideOK
    <2>2. GuiOK
      BY DefaultsType DEF Init, BridgeInit, GuiOK, Messages
    <2>3. AppOK
      BY DefaultsType DEF Init, BridgeInit, AppOK
    <2> QED BY <2>1, <2>2, <2>3
  <1> QED BY <1>1, NextGuiType, PTL DEF Spec

-----------------------------------------------------------------------------
(* The window and the settings.                                             *)

\* What Elsewhere, FromTray and FromWindow keep
LEMMA BridgeStepOpen ==
    ASSUME TypeOK, FromWindow \/ FromTray \/ Elsewhere
    PROVE  UNCHANGED open /\ UNCHANGED app
  <1>1. OutsideOK /\ GuiOK
    BY TypeParts
  <1> QED
    BY <1>1, EditPropsType, EditCurveType, SavesType, RevertType, ElsewhereType
       DEF FromWindow, FromTray, Elsewhere

(* "A hidden window with no tray icon has no way back"                      *)
(* (SettingsPage.qml:66): whatever gui.toml says when the GUI starts, and   *)
(* however its saves are cut short.                                         *)
THEOREM HiddenAlwaysHasTray == Spec => []HiddenHasTray
  <1>1. Init => HiddenHasTray
    BY DEF Init, BridgeInit, HiddenHasTray
  <1>2. TypeOK /\ HiddenHasTray /\ [Next]_vars => HiddenHasTray'
    <2> SUFFICES ASSUME TypeOK, HiddenHasTray, [Next]_vars PROVE HiddenHasTray'
      OBVIOUS
    <2> USE DEF HiddenHasTray
    <2>1. CASE Start
      BY <2>1 DEF Start
    <2>2. CASE End
      BY <2>2 DEF End, Quit, Closed
    <2>3. CASE Close
      BY <2>2, <2>3 DEF Close, Hide, TrayUsable, own
    <2>4. CASE ToggleWindow
      BY <2>4 DEF ToggleWindow, TrayUsable, own, bridgeVars, bridge
    <2>5. ASSUME NEW f \in DOMAIN DefaultSettings, Toggle(f) PROVE HiddenHasTray'
      <3>1. window /\ (UNCHANGED window \/ ~ open')
        BY <2>5 DEF Toggle, SettingsSaved, SettingsFail, SettingsKilled, Flip, Closed
      <3> QED BY <3>1
    <2>6. CASE FromWindow \/ FromTray \/ Elsewhere
      BY <2>6, BridgeStepOpen DEF app, own
    <2>7. CASE UNCHANGED vars
      BY <2>7 DEF vars, bridgeVars, bridge, app, own
    <2> QED BY <2>1, <2>2, <2>3, <2>4, <2>5, <2>6, <2>7 DEF Next
  <1> QED BY <1>1, <1>2, GuiTypesCorrect, PTL DEF Spec

(* The switches, gui.toml and the autostart entry agree unless the last     *)
(* save of the settings was cut short: what a start reads and what a flip   *)
(* writes first and syncs second (gui/src/settings.rs:56-95).               *)
THEOREM SettingsAlwaysAgree == Spec => []SettingsAgree
  <1>1. Init => SettingsAgree
    <2>1. DefaultSettings["autostart"] = FALSE
      BY AutostartType DEF DefaultSettings
    <2> QED BY <2>1 DEF Init, BridgeInit, SettingsAgree
  <1>2. TypeOK /\ SettingsAgree /\ [Next]_vars => SettingsAgree'
    <2> SUFFICES ASSUME TypeOK, SettingsAgree, [Next]_vars PROVE SettingsAgree'
      OBVIOUS
    <2> USE DEF SettingsAgree
    <2>1. CASE Start
      BY <2>1 DEF Start
    <2>2. CASE End
      BY <2>2 DEF End, Quit, Closed
    <2>3. CASE Close
      BY <2>2, <2>3 DEF Close, Hide, own, bridgeVars, bridge
    <2>4. CASE ToggleWindow
      BY <2>4 DEF ToggleWindow, own, bridgeVars, bridge
    <2>5. ASSUME NEW f \in DOMAIN DefaultSettings, Toggle(f) PROVE SettingsAgree'
      BY <2>5 DEF Toggle, SettingsSaved, SettingsFail, SettingsKilled, SavedInPart
    <2>6. CASE FromWindow \/ FromTray \/ Elsewhere
      BY <2>6, BridgeStepOpen DEF app, own
    <2>7. CASE UNCHANGED vars
      BY <2>7 DEF vars, bridgeVars, bridge, app, own
    <2> QED BY <2>1, <2>2, <2>3, <2>4, <2>5, <2>6, <2>7 DEF Next
  <1> QED BY <1>1, <1>2, GuiTypesCorrect, PTL DEF Spec
-----------------------------------------------------------------------------
(* What the GUI holds of config.toml.  The three properties need each       *)
(* other: a switch from the tray keeps the file and the editors together    *)
(* because editors without edits hold curves_json.                          *)

\* A GUI that does not run holds nothing
ClosedHoldsNothing == ~ open => cfg = None /\ message = "" /\ ~ announcing

\* Editors without edits hold curves_json
EditorSeeded == "editor" \notin touched => editor = curves_json

BridgeInv ==
    /\ ClosedHoldsNothing /\ EditorSeeded
    /\ ViewMatchesFile /\ SavedLoads /\ ToldTruth

\* A step that changes nothing the bridge's invariant is about
LEMMA BridgeStays ==
    ASSUME BridgeInv,
           UNCHANGED <<file, daemon, running, reload_flag, foreign, writer, unread>>,
           UNCHANGED <<open, cfg, view, announcing, touched>>,
           message' # message => open /\ message' = "error"
    PROVE  BridgeInv'
  <1> USE DEF BridgeInv, view
  <1>1. ClosedHoldsNothing' /\ EditorSeeded'
    BY DEF ClosedHoldsNothing, EditorSeeded
  <1>2. ViewMatchesFile'
    BY DEF ViewMatchesFile
  <1>3. SavedLoads' /\ ToldTruth'
    BY DEF SavedLoads, ToldTruth
  <1> QED BY <1>1, <1>2, <1>3

LEMMA CloseKeepsBridge ==
    ASSUME BridgeInv, Closed,
           UNCHANGED <<file, daemon, running, reload_flag, foreign, writer, unread>>
    PROVE  BridgeInv'
  <1>1. ClosedHoldsNothing' /\ EditorSeeded'
    BY DEF Closed, ClosedHoldsNothing, EditorSeeded
  <1>2. ViewMatchesFile' /\ ToldTruth'
    BY DEF Closed, ViewMatchesFile, ToldTruth
  <1>3. SavedLoads'
    BY DEF BridgeInv, SavedLoads
  <1> QED BY <1>1, <1>2, <1>3 DEF BridgeInv

\* A file that was read is what the window shows
LEMMA ShowMatches ==
    ASSUME file \in ConfigType, Show(file), UNCHANGED file
    PROVE  ViewMatchesFile' /\ EditorSeeded'
  <1>1. cfg' = Hidden(file') /\ props' = PropsOf(file')
        /\ curves_json' = file'.curve /\ editor' = file'.curve
    BY DEF Show
  <1> QED BY <1>1 DEF ViewMatchesFile, EditorSeeded

LEMMA OpenKeepsBridge ==
    ASSUME OutsideOK, GuiOK, BridgeInv, Open
    PROVE  BridgeInv'
  <1>1. /\ ~ open /\ open'
        /\ UNCHANGED <<file, daemon, running, reload_flag, writer, unread, announcing>>
        /\ cfg = None /\ message = "" /\ ~ announcing
    BY DEF Open, BridgeInv, ClosedHoldsNothing
  <1>2. message' # "saved_reloaded"
    BY <1>1 DEF Open
  <1>3. ClosedHoldsNothing' /\ ToldTruth'
    BY <1>1, <1>2 DEF ClosedHoldsNothing, ToldTruth
  <1>4. SavedLoads'
    BY <1>1 DEF BridgeInv, SavedLoads
  <1>5. ViewMatchesFile' /\ EditorSeeded'
    <2>1. CASE file = Unparsable
      <3>1. UNCHANGED <<cfg, view, touched>>
        BY <2>1 DEF Open
      <3>2. ViewMatchesFile'
        BY <1>1, <3>1 DEF ViewMatchesFile
      <3>3. EditorSeeded'
        BY <3>1 DEF BridgeInv, EditorSeeded, view
      <3> QED BY <3>2, <3>3
    <2>2. CASE file # Unparsable
      BY <1>1, <2>2, ShowMatches DEF Open, OutsideOK
    <2> QED BY <2>1, <2>2
  <1> QED BY <1>3, <1>4, <1>5 DEF BridgeInv

LEMMA RevertKeepsBridge ==
    ASSUME OutsideOK, GuiOK, BridgeInv, Revert
    PROVE  BridgeInv'
  <1>1. /\ open /\ ~ announcing
        /\ UNCHANGED <<file, daemon, running, reload_flag, writer, unread, open, announcing>>
    BY DEF Revert, Ready
  <1>2. message' # "saved_reloaded"
    BY DEF Revert
  <1>3. ClosedHoldsNothing' /\ ToldTruth'
    BY <1>1, <1>2 DEF ClosedHoldsNothing, ToldTruth
  <1>4. SavedLoads'
    BY <1>1 DEF BridgeInv, SavedLoads
  <1>5. ViewMatchesFile' /\ EditorSeeded'
    <2>1. CASE file = Unparsable
      <3>1. editor' = curves_json /\ UNCHANGED <<cfg, props, curves_json, touched, foreign>>
        BY <2>1 DEF Revert
      <3>2. "editor" \notin touched => editor' = editor
        BY <3>1 DEF BridgeInv, EditorSeeded
      <3>3. ViewMatchesFile'
        BY <1>1, <3>1, <3>2 DEF BridgeInv, ViewMatchesFile
      <3> QED BY <3>1, <3>3 DEF EditorSeeded
    <2>2. CASE file # Unparsable
      BY <1>1, <2>2, ShowMatches DEF Revert, OutsideOK
    <2> QED BY <2>1, <2>2
  <1> QED BY <1>3, <1>4, <1>5 DEF BridgeInv

LEMMA EditKeepsBridge ==
    ASSUME BridgeInv, EditProps \/ \E ch \in EditedChannels : EditCurve(ch)
    PROVE  BridgeInv'
  <1>1. \/ Edit("props") /\ UNCHANGED editor
        \/ Edit("editor") /\ UNCHANGED props
    BY DEF EditProps, EditCurve
  <1>2. UNCHANGED <<file, daemon, running, reload_flag, foreign, writer, unread,
                    open, cfg, curves_json, message, announcing>>
    BY <1>1 DEF Edit
  <1>3. ClosedHoldsNothing' /\ SavedLoads' /\ ToldTruth'
    BY <1>2 DEF BridgeInv, ClosedHoldsNothing, SavedLoads, ToldTruth
  <1>4. EditorSeeded'
    BY <1>1, <1>2 DEF Edit, BridgeInv, EditorSeeded
  <1>5. ViewMatchesFile'
    BY <1>1, <1>2 DEF Edit, BridgeInv, ViewMatchesFile
  <1> QED BY <1>3, <1>4, <1>5 DEF BridgeInv

\* A save that fails leaves the file, and says so
LEMMA FailedSaveKeepsBridge ==
    ASSUME BridgeInv, open, UNCHANGED <<open, cfg, editor>>, SaveRefused \/ SaveFails,
           \/ curves_json' = editor /\ UNCHANGED props /\ touched' = touched \cup {"curves_json"}
           \/ UNCHANGED curves_json /\ touched' = touched \cup {"props"}
    PROVE  BridgeInv'
  <1>1. message' = "error" /\ UNCHANGED outside /\ UNCHANGED announcing
    BY DEF SaveRefused, SaveFails
  <1>2. UNCHANGED <<file, daemon, running, reload_flag, foreign, writer, unread>>
    BY <1>1 DEF outside
  <1>3. ClosedHoldsNothing' /\ SavedLoads' /\ ToldTruth'
    BY <1>1, <1>2 DEF BridgeInv, ClosedHoldsNothing, SavedLoads, ToldTruth
  <1>4. EditorSeeded'
    BY DEF BridgeInv, EditorSeeded
  <1>5. ViewMatchesFile'
    BY <1>2 DEF BridgeInv, ViewMatchesFile
  <1> QED BY <1>3, <1>4, <1>5 DEF BridgeInv

\* What a save writes is what the copy, the properties and curves_json make of each other
LEMMA SaveMatches ==
    ASSUME GuiOK, props' \in PropsType, curves_json' \in CurvesType, UNCHANGED cfg, SaveWrites
    PROVE  /\ file' \in ConfigType /\ Loads(file')
           /\ \A ch \in Channels : Sorted(file'.curve[ch].points)
           /\ cfg' = Hidden(file') /\ Shown(props') = Shown(PropsOf(file'))
           /\ Drawn(curves_json') = Drawn(file'.curve) /\ file'.curve = Drawn(curves_json')
  <1>1. cfg \in [poll_interval_ms : Nat] /\ file' = Built(cfg, props', curves_json')
        /\ ValidConfig(file')
    BY DEF SaveWrites, GuiOK
  <1>2. file' \in ConfigType
    BY <1>1, BuiltType
  <1>3. Loads(file')
    BY <1>1, <1>2, UnparsableAssumption DEF Loads
  <1>4. file'.curve = Drawn(curves_json') /\ Drawn(Drawn(curves_json')) = Drawn(curves_json')
    BY <1>1, BuiltType, DrawnCurves
  <1> QED BY <1>1, <1>2, <1>3, <1>4, BuiltType

LEMMA SaveKeepsBridge ==
    ASSUME OutsideOK, GuiOK, BridgeInv,
           SaveAndApply \/ \E m \in ModeChoices : ModeFromTray(m)
    PROVE  BridgeInv'
  <1>1. /\ open /\ UNCHANGED <<open, cfg, editor>>
        /\ props' \in PropsType /\ curves_json' \in CurvesType
    BY BridgeAssumption DEF SaveAndApply, ModeFromTray, Ready, GuiOK, PropsType
  <1>2. \/ SaveWrites
        \/ /\ SaveRefused \/ SaveFails
           /\ \/ curves_json' = editor /\ UNCHANGED props
                 /\ touched' = touched \cup {"curves_json"}
              \/ UNCHANGED curves_json /\ touched' = touched \cup {"props"}
    BY DEF SaveAndApply, ModeFromTray
  <1>3. CASE SaveWrites
    <2>1. announcing'
      BY <1>3 DEF SaveWrites
    <2>2. "editor" \notin touched' => editor' = curves_json'
      BY <1>1, <1>3 DEF SaveAndApply, ModeFromTray, SaveRefused, SaveFails, SaveWrites,
         BridgeInv, EditorSeeded
    <2>3. ClosedHoldsNothing' /\ EditorSeeded' /\ ToldTruth'
      BY <1>1, <2>1, <2>2 DEF ClosedHoldsNothing, EditorSeeded, ToldTruth
    <2>4. SavedLoads'
      BY <1>1, <1>3, SaveMatches DEF SavedLoads
    <2>5. /\ cfg' = Hidden(file') /\ Shown(props') = Shown(PropsOf(file'))
          /\ Drawn(curves_json') = Drawn(file'.curve)
      BY <1>1, <1>3, SaveMatches
    <2>6. ViewMatchesFile'
      BY <2>2, <2>5 DEF ViewMatchesFile
    <2> QED BY <2>3, <2>4, <2>6 DEF BridgeInv
  <1> QED BY <1>1, <1>2, <1>3, FailedSaveKeepsBridge

LEMMA ElsewhereKeepsBridge ==
    ASSUME BridgeInv, Announce \/ Others
    PROVE  BridgeInv'
  <1>1. UNCHANGED <<open, cfg, view, touched>>
    BY DEF Announce, Others, ClientSetsMode, HandEdit, DaemonStarts, DaemonReloads, DaemonStops,
       bridge
  <1>2. EditorSeeded'
    BY <1>1 DEF BridgeInv, EditorSeeded, view
  <1>3. CASE Announce
    <2>1. UNCHANGED <<file, daemon, running, foreign, writer, unread>> /\ announcing /\ ~ announcing'
          /\ (daemon = "serving" => reload_flag')
      BY <1>3 DEF Announce
    <2>2. open
      BY <2>1 DEF BridgeInv, ClosedHoldsNothing
    <2>3. ClosedHoldsNothing' /\ SavedLoads' /\ ToldTruth'
      BY <1>1, <2>1, <2>2 DEF BridgeInv, ClosedHoldsNothing, SavedLoads, ToldTruth
    <2>4. ViewMatchesFile'
      BY <1>1, <2>1 DEF BridgeInv, ViewMatchesFile, view
    <2> QED BY <1>2, <2>3, <2>4 DEF BridgeInv
  <1>4. CASE ClientSetsMode \/ HandEdit
    <2>1. /\ foreign' = TRUE /\ UNCHANGED <<open, cfg, message, announcing, daemon>>
          /\ (writer' = "client" /\ reload_flag') \/ writer' = "hand"
      BY <1>4 DEF ClientSetsMode, HandEdit, Written, bridge
    <2>2. ClosedHoldsNothing'
      BY <2>1 DEF BridgeInv, ClosedHoldsNothing
    <2> QED BY <1>2, <2>1, <2>2
            DEF BridgeInv, SavedLoads, ToldTruth, ViewMatchesFile
  <1>5. CASE DaemonStarts \/ DaemonReloads \/ DaemonStops
    <2>1. UNCHANGED <<file, foreign, writer, open, cfg, view, message, announcing, touched>>
      BY <1>5 DEF DaemonStarts, DaemonReloads, DaemonStops, bridge
    <2>2. ClosedHoldsNothing' /\ SavedLoads'
      BY <2>1 DEF BridgeInv, ClosedHoldsNothing, SavedLoads
    <2>3. ViewMatchesFile'
      BY <2>1 DEF BridgeInv, ViewMatchesFile, view
    <2>4. ToldTruth'
      <3>1. CASE DaemonStarts
        BY <2>1, <3>1 DEF DaemonStarts, ToldTruth
      <3>2. CASE DaemonReloads
        BY <2>1, <3>2 DEF DaemonReloads, ToldTruth
      <3>3. CASE DaemonStops
        BY <3>3 DEF DaemonStops, ToldTruth
      <3> QED BY <1>5, <3>1, <3>2, <3>3
    <2> QED BY <1>2, <2>2, <2>3, <2>4 DEF BridgeInv
  <1> QED BY <1>3, <1>4, <1>5 DEF Others

LEMMA ToggleKeepsBridge ==
    ASSUME BridgeInv, NEW f \in DOMAIN DefaultSettings, Toggle(f)
    PROVE  BridgeInv'
  <1>1. open /\ UNCHANGED <<file, daemon, running, reload_flag, foreign, writer, unread>>
    BY DEF Toggle, SettingsSaved, SettingsFail, SettingsKilled, Flip, Ready
  <1>2. CASE SettingsSaved(f)
    BY <1>1, <1>2, BridgeStays DEF SettingsSaved, bridge
  <1>3. CASE SettingsFail(f)
    BY <1>1, <1>3, BridgeStays DEF SettingsFail
  <1>4. CASE SettingsKilled(f)
    BY <1>1, <1>4, CloseKeepsBridge DEF SettingsKilled
  <1> QED BY <1>2, <1>3, <1>4 DEF Toggle

LEMMA NextKeepsBridge == TypeOK /\ BridgeInv /\ [Next]_vars => BridgeInv'
  <1> SUFFICES ASSUME TypeOK, BridgeInv, [Next]_vars PROVE BridgeInv'
    OBVIOUS
  <1>1. OutsideOK /\ GuiOK
    BY TypeParts
  <1>2. CASE Start
    BY <1>1, <1>2, OpenKeepsBridge DEF Start
  <1>3. CASE End
    BY <1>3, CloseKeepsBridge DEF End, Quit, outside
  <1>4. UNCHANGED bridgeVars => BridgeInv'
    <2> SUFFICES ASSUME UNCHANGED bridgeVars PROVE BridgeInv'
      OBVIOUS
    <2>1. /\ UNCHANGED <<file, daemon, running, reload_flag, foreign, writer, unread>>
          /\ UNCHANGED <<open, cfg, view, announcing, touched>> /\ UNCHANGED message
      BY DEF bridgeVars, outside, bridge
    <2> QED BY <2>1, BridgeStays
  <1>5. CASE Close \/ ToggleWindow
    BY <1>3, <1>4, <1>5 DEF Close, Hide, ToggleWindow
  <1>6. CASE FromWindow
    BY <1>1, <1>6, EditKeepsBridge, SaveKeepsBridge, RevertKeepsBridge DEF FromWindow
  <1>7. CASE FromTray
    BY <1>1, <1>7, SaveKeepsBridge DEF FromTray
  <1>8. CASE Elsewhere
    BY <1>8, ElsewhereKeepsBridge DEF Elsewhere
  <1> QED BY <1>2, <1>3, <1>4, <1>5, <1>6, <1>7, <1>8, ToggleKeepsBridge DEF Next, vars

THEOREM BridgeHolds == Spec => []BridgeInv
  <1>1. Init => BridgeInv
    <2> SUFFICES ASSUME Init PROVE BridgeInv
      OBVIOUS
    <2>1. ClosedHoldsNothing /\ EditorSeeded
      BY DEF Init, BridgeInit, ClosedHoldsNothing, EditorSeeded
    <2>2. ViewMatchesFile /\ SavedLoads /\ ToldTruth
      BY DEF Init, BridgeInit, ViewMatchesFile, SavedLoads, ToldTruth
    <2> QED BY <2>1, <2>2 DEF BridgeInv
  <1> QED BY <1>1, NextKeepsBridge, GuiTypesCorrect, PTL DEF Spec

(* As long as no other program wrote config.toml, what the window holds is  *)
(* the file, but for what was edited: so a save, which writes a whole       *)
(* config from memory (gui/src/bridge.rs:221-285), undoes nothing of it.    *)
THEOREM WindowIsFile == Spec => []ViewMatchesFile
  <1>1. BridgeInv => ViewMatchesFile
    BY DEF BridgeInv
  <1> QED BY <1>1, BridgeHolds, PTL

(* "A config one side rejects is never produced by the other"               *)
(* (common/src/config.rs:233-235): what the GUI writes loads in the daemon, *)
(* with its curves ascending, whatever it had read.                         *)
THEOREM WrittenLoads == Spec => []SavedLoads
  <1>1. BridgeInv => SavedLoads
    BY DEF BridgeInv
  <1> QED BY <1>1, BridgeHolds, PTL

(* "Saved and reloaded." (gui/src/bridge.rs:273) is true, over restarts of  *)
(* the daemon and SetMode requests of other clients: it runs what is in the *)
(* file or is about to, until a user edits it by hand or a reload fails.    *)
THEOREM ReloadIsTrue == Spec => []ToldTruth
  <1>1. BridgeInv => ToldTruth
    BY DEF BridgeInv
  <1> QED BY <1>1, BridgeHolds, PTL

(* A switch of the mode from the tray neither applies nor loses edits of    *)
(* the curves in an open window (Main.qml:45-47).                           *)
THEOREM TrayLeavesCurves == Spec => TrayKeepsCurves
  <1>1. ASSUME TypeOK, BridgeInv, [Next]_vars
        PROVE  [~ announcing /\ announcing' /\ "editor" \in touched'
                 /\ ~ foreign /\ "curves_json" \notin touched
                 => file'.curve = Drawn(file.curve) /\ editor' = editor]_bridgeVars
    <2> SUFFICES ASSUME ~ announcing, announcing', "editor" \in touched',
                        ~ foreign, "curves_json" \notin touched
                 PROVE  file'.curve = Drawn(file.curve) /\ editor' = editor
      OBVIOUS
    <2>1. OutsideOK /\ GuiOK
      BY <1>1, TypeParts
    <2>2. PICK m \in ModeChoices : ModeFromTray(m)
      <3>1. ~ (Start \/ End \/ Close \/ ToggleWindow) /\ ~ UNCHANGED vars
        BY DEF Start, Open, End, Quit, Closed, Close, Hide, ToggleWindow, vars,
           bridgeVars, bridge
      <3>2. \A f \in DOMAIN DefaultSettings : ~ Toggle(f)
        BY DEF Toggle, SettingsSaved, SettingsFail, SettingsKilled, Closed, bridge
      <3>3. ~ Elsewhere
        BY DEF Elsewhere, Announce, Others, ClientSetsMode, HandEdit, DaemonStarts,
           DaemonReloads, DaemonStops, bridge
      <3>4. ~ FromWindow
        BY DEF FromWindow, EditProps, EditCurve, Edit, Revert, SaveAndApply, SaveRefused, SaveFails
      <3> QED BY <1>1, <3>1, <3>2, <3>3, <3>4 DEF Next, FromTray
    <2>3. open /\ SaveWrites /\ UNCHANGED <<cfg, editor, curves_json>>
      BY <2>2 DEF ModeFromTray, Ready, SaveRefused, SaveFails
    <2>6. props' \in PropsType
      BY <2>1, <2>2, BridgeAssumption DEF ModeFromTray, GuiOK, PropsType
    <2>4. file'.curve = Drawn(curves_json)
      BY <2>1, <2>3, <2>6, SaveMatches DEF GuiOK
    <2>5. Drawn(curves_json) = Drawn(file.curve)
      BY <1>1, <2>3 DEF BridgeInv, ViewMatchesFile, SaveWrites
    <2> QED BY <2>3, <2>4, <2>5
  <1> QED BY <1>1, BridgeHolds, GuiTypesCorrect, PTL DEF Spec, TrayKeepsCurves
=============================================================================
