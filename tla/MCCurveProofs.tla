--------------------------- MODULE MCCurveProofs ---------------------------
(***************************************************************************)
(* The properties of the temperature sweep, for every set of temperatures  *)
(* and duties, every number of points and every range of the sweep.        *)
(***************************************************************************)
EXTENDS MCCurve, CurveProofs

SweepTypes == curve \in CurvePoints /\ temp \in Int

LEMMA SweepTyped == Spec => []SweepTypes
<1>1. Init => SweepTypes
  <2> SUFFICES ASSUME Init PROVE SweepTypes
    OBVIOUS
  <2>1. PICK n \in 0..MaxPoints : curve \in [1..n -> [temp_c : PointTemps, duty_pct : PointDuties]]
    BY DEF Init
  <2>2. [temp_c : PointTemps, duty_pct : PointDuties] \subseteq CurvePoint
    BY SweepAssumption DEF CurvePoint
  <2>3. n \in Nat
    BY SweepAssumption
  <2>4. curve \in [1..n -> CurvePoint]
    BY <2>1, <2>2
  <2>5. curve \in CurvePoints
    BY <2>3, <2>4 DEF CurvePoints
  <2> QED BY <2>5, SweepAssumption DEF Init, SweepTypes
<1>2. SweepTypes /\ [Next]_<<curve, temp>> => SweepTypes'
  BY DEF SweepTypes, Next, Heat
<1> QED
  BY <1>1, <1>2, PTL DEF Spec

(* The duty of an accepted curve is a percentage at every reading, so that  *)
(* the casts of duty_for_temp (common/src/config.rs:111-137) cannot wrap.   *)
THEOREM AlwaysPercentage == Spec => []CurveGivesPercentage
<1>1. SweepTypes => CurveGivesPercentage
  BY DutyBounded DEF SweepTypes, CurveGivesPercentage
<1> QED
  BY <1>1, SweepTyped, PTL

(* No step of a heating sweep asks for less cooling, under a curve of which *)
(* validate has nothing to say.                                             *)
THEOREM HotterIsNeverLess == Spec => HotterNeverLess
<1>1. ASSUME SweepTypes, [Next]_<<curve, temp>>
      PROVE  [(ValidCurve(curve) /\ Sorted(curve) /\ Rising(curve))
                => DutyForTemp(curve, temp') >= DutyForTemp(curve, temp)]_<<curve, temp>>
  <2> SUFFICES ASSUME Heat, ValidCurve(curve), Sorted(curve), Rising(curve)
               PROVE  DutyForTemp(curve, temp') >= DutyForTemp(curve, temp)
    BY <1>1 DEF Next
  <2>1. curve \in CurvePoints /\ temp \in Int /\ temp' \in Int /\ temp <= temp'
    BY <1>1 DEF SweepTypes, Heat
  <2>2. DutyForTemp(curve, temp) <= DutyForTemp(curve, temp')
    BY <2>1, DutyMonotone
  <2>3. DutyForTemp(curve, temp) \in Int /\ DutyForTemp(curve, temp') \in Int
    BY <2>1, DutyBounded
  <2> QED BY <2>2, <2>3
<1> QED
  BY <1>1, SweepTyped, PTL DEF Spec, HotterNeverLess

-----------------------------------------------------------------------------
(* The reference.                                                           *)

LEMMA MaxOfTwo ==
    ASSUME NEW x \in Int, NEW y \in Int
    PROVE  Max({x, y}) = IF x >= y THEN x ELSE y
BY DEF Max

\* How far a point is from the reading
Away(p) == IF p.temp_c >= temp THEN p.temp_c - temp ELSE temp - p.temp_c

LEMMA Distance ==
    ASSUME NEW p, p.temp_c \in Int, temp \in Int
    PROVE  Max({p.temp_c - temp, temp - p.temp_c}) = Away(p) /\ Away(p) \in Int
<1>1. p.temp_c - temp \in Int /\ temp - p.temp_c \in Int
  OBVIOUS
<1>2. Max({p.temp_c - temp, temp - p.temp_c}) =
         IF p.temp_c - temp >= temp - p.temp_c THEN p.temp_c - temp ELSE temp - p.temp_c
  BY <1>1, MaxOfTwo
<1>3. p.temp_c - temp >= temp - p.temp_c => p.temp_c >= temp
  OBVIOUS
<1>4. ~ (p.temp_c - temp >= temp - p.temp_c) => ~ (p.temp_c >= temp)
  OBVIOUS
<1>5. Max({p.temp_c - temp, temp - p.temp_c}) = Away(p)
  BY <1>2, <1>3, <1>4 DEF Away
<1>6. Away(p) \in Int
  BY DEF Away
<1> QED
  BY <1>5, <1>6

\* The nearest point is the one that is nearer than the others
LEMMA NearestIs ==
    ASSUME temp \in Int, NEW S, \A q \in S : q.temp_c \in Int,
           NEW p \in S, \A q \in S : q # p => Away(p) < Away(q)
    PROVE  Nearest(S) = p
<1>1. \A q \in S : Max({q.temp_c - temp, temp - q.temp_c}) = Away(q) /\ Away(q) \in Int
  BY Distance
<1>2. Nearest(S) = CHOOSE r \in S : \A q \in S : Away(r) <= Away(q)
  BY <1>1 DEF Nearest
<1>3. ASSUME NEW q \in S PROVE Away(p) <= Away(q)
  <2>1. Away(p) \in Int /\ Away(q) \in Int
    BY <1>1
  <2>2. q = p \/ Away(p) < Away(q)
    OBVIOUS
  <2>3. CASE q = p
    BY <2>1, <2>3
  <2>4. CASE Away(p) < Away(q)
    BY <2>1, <2>4
  <2> QED BY <2>2, <2>3, <2>4
<1>4. ASSUME NEW r \in S, \A q \in S : Away(r) <= Away(q), r # p PROVE FALSE
  <2>1. Away(p) \in Int /\ Away(r) \in Int
    BY <1>1
  <2>2. Away(p) < Away(r)
    BY <1>4
  <2>3. Away(r) <= Away(p)
    BY <1>4
  <2> QED BY <2>1, <2>2, <2>3
<1> QED
  BY <1>2, <1>3, <1>4

(* A duty that is the line's, rounded, is on the line.                      *)
LEMMA RoundedOnLine ==
    ASSUME temp \in Int, NEW a \in CurvePoint, NEW b \in CurvePoint,
           a.duty_pct <= 100, b.duty_pct <= 100,
           a.temp_c < b.temp_c, a.temp_c <= temp, temp <= b.temp_c
    PROVE  OnLine(a, b, Interpolate(a, b, temp))
<1> DEFINE duty == Interpolate(a, b, temp)
           span == b.temp_c - a.temp_c
           line == Line(a, b, temp)
           miss == duty * span - line
<1>1. span \in Int /\ span > 0
  BY DEF CurvePoint
<1>2. line \in Int /\ duty = RoundDiv(line, span) /\ duty \in Int
  BY Interpolated
<1> HIDE DEF duty, span, line
<1>3. duty * (2 * span) <= 2 * line + span /\ 2 * line + span < (duty + 1) * (2 * span)
  BY <1>1, <1>2, RoundedToNearest
<1>4. /\ duty * (2 * span) = 2 * (duty * span)
      /\ (duty + 1) * (2 * span) = 2 * (duty * span) + 2 * span
      /\ duty * span \in Int
  BY <1>1, <1>2
<1>5. miss \in Int /\ - miss \in Int /\ 2 * miss <= span /\ 2 * (- miss) <= span
  BY <1>1, <1>2, <1>3, <1>4
<1>6. Max({miss, - miss}) = IF miss >= - miss THEN miss ELSE - miss
  BY <1>5, MaxOfTwo
<1>7. 2 * Max({miss, - miss}) <= span
  BY <1>5, <1>6
<1> QED
  BY <1>7 DEF OnLine, duty, span, line, Line

(* The points of a curve, as the reference sees them                        *)
LEMMA PointsOfCurve ==
    ASSUME SweepTypes, ValidCurve(curve)
    PROVE  /\ Points = {curve[i] : i \in 1..Len(curve)}
           /\ \A p \in Points : p.temp_c \in Int
<1> QED
  BY AcceptedPoints DEF SweepTypes, Points

(* A curve that validate accepts and whose points ascend asks for the line  *)
(* through its points, rounded, and for the duty of its ends beyond them,   *)
(* however many points it has: the windows of the code are the nearest      *)
(* points on either side (common/src/config.rs:111-137).                    *)
THEOREM MatchesReference == Spec => []CurveMatchesReference
<1>1. SweepTypes => CurveMatchesReference
  <2> SUFFICES ASSUME SweepTypes, ValidCurve(curve), StrictlySorted(curve)
               PROVE  CurveMatchesReference
    BY DEF CurveMatchesReference
  <2> DEFINE n == Len(curve)
             duty == DutyForTemp(curve, temp)
             cooler == {p \in Points : p.temp_c <= temp}
             hotter == {p \in Points : p.temp_c >= temp}
  <2>1. /\ curve \in CurvePoints /\ temp \in Int
        /\ n \in Nat /\ n > 0 /\ DOMAIN curve = 1..n /\ 1 \in 1..n /\ n \in 1..n
        /\ \A i \in 1..n : /\ curve[i] \in CurvePoint /\ curve[i].temp_c \in Int
                           /\ curve[i].duty_pct \in Int /\ curve[i].duty_pct <= 100
    BY AcceptedPoints DEF SweepTypes
  <2>2. Points = {curve[i] : i \in 1..n} /\ \A p \in Points : p.temp_c \in Int
    BY PointsOfCurve
  <2>3. \A i, k \in 1..n : i < k => curve[i].temp_c < curve[k].temp_c
    BY <2>1 DEF StrictlySorted
  <2> HIDE DEF n
  \* Nothing is cooler: the first point is the nearest
  <2>4. CASE cooler = {}
    <3>1. \A p \in Points : p.temp_c > temp
      BY <2>1, <2>2, <2>4
    <3>2. curve[1] \in hotter /\ curve[1].temp_c > temp
      BY <2>1, <2>2, <3>1
    <3>3. ASSUME NEW q \in hotter, q # curve[1] PROVE Away(curve[1]) < Away(q)
      <4>1. PICK i \in 1..n : q = curve[i]
        BY <2>2
      <4>2. i # 1 /\ 1 < i
        BY <2>1, <3>3, <4>1
      <4>3. curve[1].temp_c < q.temp_c /\ q.temp_c > temp
        BY <2>1, <2>3, <3>1, <4>1, <4>2
      <4> QED BY <2>1, <3>2, <4>1, <4>3 DEF Away
    <3>4. Nearest(hotter) = curve[1]
      <4> \A q \in hotter : q.temp_c \in Int
        BY <2>2
      <4> HIDE DEF hotter
      <4> QED BY <2>1, <3>2, <3>3, NearestIs
    <3>5. duty = curve[1].duty_pct
      BY <2>1, <3>2, BeyondEnds
    <3> QED BY <2>4, <3>4, <3>5 DEF CurveMatchesReference
  \* Nothing is hotter: the last one is
  <2>5. CASE cooler # {} /\ hotter = {}
    <3>1. \A p \in Points : p.temp_c < temp
      BY <2>1, <2>2, <2>5
    <3>2. curve[n] \in cooler /\ curve[n].temp_c < temp
      BY <2>1, <2>2, <3>1
    <3>3. ASSUME NEW q \in cooler, q # curve[n] PROVE Away(curve[n]) < Away(q)
      <4>1. PICK i \in 1..n : q = curve[i]
        BY <2>2
      <4>2. i # n /\ i < n
        BY <2>1, <3>3, <4>1
      <4>3. q.temp_c < curve[n].temp_c /\ q.temp_c < temp
        BY <2>1, <2>3, <3>1, <4>1, <4>2
      <4> QED BY <2>1, <3>2, <4>1, <4>3 DEF Away
    <3>4. Nearest(cooler) = curve[n]
      <4> \A q \in cooler : q.temp_c \in Int
        BY <2>2
      <4> HIDE DEF cooler
      <4> QED BY <2>1, <3>2, <3>3, NearestIs
    <3>5. duty = curve[n].duty_pct
      BY <2>1, <3>2, BeyondEnds DEF n
    <3> QED BY <2>5, <3>4, <3>5 DEF CurveMatchesReference
  \* In between
  <2>6. CASE cooler # {} /\ hotter # {}
    <3> DEFINE Below == {i \in 1..n : curve[i].temp_c <= temp}
    <3>1. Below # {} /\ Below \in SUBSET (0..n)
      <4>1. PICK p \in cooler : TRUE
        BY <2>6
      <4>2. PICK i \in 1..n : p = curve[i]
        BY <2>2
      <4>3. i \in Below
        BY <4>1, <4>2
      <4> QED BY <2>1, <4>3
    <3>2. PICK j \in Below : \A i \in Below : i <= j
      <4> HIDE DEF Below
      <4> QED BY <2>1, <3>1, GreatestElement
    <3>3. j \in 1..n /\ curve[j].temp_c <= temp /\ curve[j] \in cooler
      BY <2>2
    <3>4. \A i \in 1..n : j < i => curve[i].temp_c > temp
      BY <2>1, <3>2, <3>3
    <3>5. Nearest(cooler) = curve[j]
      <4>1. ASSUME NEW q \in cooler, q # curve[j] PROVE Away(curve[j]) < Away(q)
        <5>1. PICK i \in 1..n : q = curve[i]
          BY <2>2
        <5>2. i # j /\ i < j
          BY <2>1, <3>3, <3>4, <4>1, <5>1
        <5>3. q.temp_c < curve[j].temp_c
          BY <2>3, <3>3, <5>1, <5>2
        <5> QED BY <2>1, <3>3, <5>1, <5>3 DEF Away
      <4> \A q \in cooler : q.temp_c \in Int
        BY <2>2
      <4> HIDE DEF cooler
      <4> QED BY <2>1, <3>3, <4>1, NearestIs
    <3>6. CASE curve[j].temp_c = temp
      <4>1. curve[j] \in hotter
        BY <2>1, <2>2, <3>3, <3>6
      <4>2. ASSUME NEW q \in hotter, q # curve[j] PROVE Away(curve[j]) < Away(q)
        <5>1. PICK i \in 1..n : q = curve[i]
          BY <2>2
        <5>2. i # j
          BY <4>2, <5>1
        <5>3. q.temp_c # temp /\ q.temp_c \in Int /\ q.temp_c >= temp
          BY <2>1, <2>3, <3>3, <3>6, <5>1, <5>2
        <5> QED BY <2>1, <3>6, <5>3 DEF Away
      <4>3. Nearest(hotter) = curve[j]
        <5> \A q \in hotter : q.temp_c \in Int
          BY <2>2
        <5> HIDE DEF hotter
        <5> QED BY <2>1, <4>1, <4>2, NearestIs
      <4>4. duty = curve[j].duty_pct
        BY <2>1, <3>3, <3>6, AtPoint DEF n
      <4> QED BY <2>6, <3>5, <4>3, <4>4 DEF CurveMatchesReference
    <3>7. CASE curve[j].temp_c < temp
      <4>1. j # n /\ j \in 1..(n - 1) /\ j + 1 \in 1..n
        <5>1. PICK h \in hotter : TRUE
          BY <2>6
        <5>2. PICK i \in 1..n : h = curve[i]
          BY <2>2
        <5>3. ~ (n <= j)
          <6> SUFFICES ASSUME n <= j PROVE FALSE
            OBVIOUS
          <6>1. i = j \/ i < j
            BY <2>1, <3>3, <5>2
          <6>2. curve[i].temp_c < temp
            BY <2>1, <2>3, <3>3, <3>7, <6>1
          <6> QED BY <2>1, <5>2, <6>2
        <5> QED BY <2>1, <3>3, <5>3
      <4>2. curve[j + 1].temp_c > temp /\ curve[j + 1] \in hotter
        BY <2>1, <2>2, <3>3, <3>4, <4>1
      <4>3. ASSUME NEW q \in hotter, q # curve[j + 1] PROVE Away(curve[j + 1]) < Away(q)
        <5>1. PICK i \in 1..n : q = curve[i]
          BY <2>2
        <5>2. ~ (i <= j)
          <6> SUFFICES ASSUME i <= j PROVE FALSE
            OBVIOUS
          <6>1. i = j \/ i < j
            BY <2>1, <3>3
          <6>2. curve[i].temp_c \in Int /\ curve[j].temp_c \in Int
            BY <2>1, <3>3
          <6>3. curve[i].temp_c < temp
            BY <2>1, <2>3, <3>3, <3>7, <6>1, <6>2
          <6> QED BY <2>1, <5>1, <6>2, <6>3
        <5>3. i # j + 1 /\ j + 1 < i
          BY <2>1, <3>3, <4>3, <5>1, <5>2
        <5>4. curve[j + 1].temp_c < q.temp_c
          BY <2>3, <4>1, <5>1, <5>3
        <5> QED BY <2>1, <4>1, <4>2, <5>1, <5>4 DEF Away
      <4>4. Nearest(hotter) = curve[j + 1]
        <5> \A q \in hotter : q.temp_c \in Int
          BY <2>2
        <5> HIDE DEF hotter
        <5> QED BY <2>1, <4>2, <4>3, NearestIs
      <4>5. duty = Interpolate(curve[j], curve[j + 1], temp)
        BY <2>1, <3>7, <4>1, <4>2, BetweenPoints DEF n
      <4>6. /\ curve[j].temp_c < curve[j + 1].temp_c /\ curve[j].temp_c <= temp
            /\ temp <= curve[j + 1].temp_c /\ curve[j] # curve[j + 1]
        BY <2>1, <3>3, <3>7, <4>1, <4>2
      <4>7. OnLine(curve[j], curve[j + 1], duty)
        BY <2>1, <3>3, <4>1, <4>5, <4>6, RoundedOnLine
      <4> QED BY <2>6, <3>5, <4>4, <4>6, <4>7 DEF CurveMatchesReference
    <3> QED BY <2>1, <3>3, <3>6, <3>7
  <2> QED BY <2>4, <2>5, <2>6
<1> QED
  BY <1>1, SweepTyped, PTL
=============================================================================
