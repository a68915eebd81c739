----------------------------- MODULE SkyProofs -----------------------------
(***************************************************************************)
(* What is proved of Charts, for every place of the planets on the circle, *)
(* every twelve cusps in order, every place of the bodies on the wheel,    *)
(* every birth chart and every gain of the Moon.                           *)
(*                                                                         *)
(* Of the two charts the types are enough, and the work is arithmetic on   *)
(* the circle: a house and a division of a sign are arcs, and an arc is    *)
(* counted from its start.  The types are enough of the bodygraph too.     *)
(* Its search spreads over centers a round at a time.  A round that is not *)
(* done adds a center, there are nine of them, and so nine rounds end with *)
(* the least set that holds the first center and that no channel leaves.   *)
(*                                                                         *)
(* The walk has an invariant.  MoonIsTold says how far past the phase told *)
(* last the Moon is: a gain at least for every day since, and less than    *)
(* half the circle on the day before.  BodyIsTold is what SkyIsTold says   *)
(* of the slow body, which is inductive with the types.                    *)
(***************************************************************************)
EXTENDS Charts, FiniteSetTheorems, TLAPS

Longitudes == 0 .. Circle - 1

\* The units of the charts: 1008 to a degree.
LEMMA Spans == Degree = 1008 /\ SignSpan = 30240 /\ Circle = 362880
BY DEF SignSpan, Circle, Degree

\* The same without their values, where a large number stops a prover.
LEMMA SpansAreWhole == Degree \in Int /\ SignSpan \in Int /\ Circle \in Int
BY Spans

\* Counting on around the signs.
LEMMA SameSignOn ==
  ASSUME NEW a \in Int, NEW b \in Int, NEW p \in Int, (a - b) % 12 = 0
  PROVE  (a + p) % 12 = (b + p) % 12
<1>1. a = b + 12 * ((a - b) \div 12)
  BY SMT
<1>2. (a - b) \div 12 \in Int
  BY SMT
<1> QED
  BY <1>1, <1>2, SMT

\* What a quotient is, for a divisor that is not a number.
LEMMA Quotient ==
  ASSUME NEW a \in Int, NEW b \in Int, b > 0
  PROVE  a \div b \in Int /\ b * (a \div b) <= a /\ a < b * (a \div b) + b
BY SMT

\* And when a number is that quotient.
LEMMA QuotientIs ==
  ASSUME NEW a \in Int, NEW b \in Int, b > 0, NEW q \in Int, b * q <= a, a < b * q + b
  PROVE  a \div b = q
BY SMT

\* A longitude is within the circle.
LEMMA LongitudeBounds ==
  ASSUME NEW lon \in Longitudes PROVE lon \in Int /\ 0 <= lon /\ lon < 362880
<1>1. lon \in Int /\ 0 <= lon /\ lon <= Circle - 1
  BY SpansAreWhole DEF Longitudes
<1> QED
  BY <1>1, Spans, SMT

\* And what is within the circle is a longitude.
LEMMA IsLongitude ==
  ASSUME NEW lon \in Int, 0 <= lon, lon < 362880 PROVE lon \in Longitudes
<1>1. Circle \in Int /\ lon < Circle
  BY Spans, SMT
<1> QED
  BY <1>1 DEF Longitudes

\* A longitude is a sign and a degree in it (signOf, degreeInSign).
LEMMA SignsShareTheCircle ==
  ASSUME NEW lon \in Longitudes
  PROVE  /\ signOf(lon) \in 0 .. 11
         /\ degreeInSign(lon) \in Int
         /\ 0 <= degreeInSign(lon) /\ degreeInSign(lon) < 30240
         /\ lon = 30240 * signOf(lon) + degreeInSign(lon)
         /\ normalize360(lon) = lon
<1>1. lon \in Int /\ 0 <= lon /\ lon < 362880
  BY LongitudeBounds, SMT
<1>2. lon % 362880 = lon
  BY <1>1, SMT
<1>3. /\ lon \div 30240 \in 0 .. 11
      /\ lon % 30240 \in Int
      /\ 0 <= lon % 30240 /\ lon % 30240 < 30240
      /\ lon = 30240 * (lon \div 30240) + (lon % 30240)
  BY <1>1, SMT
<1> QED
  BY <1>2, <1>3, Spans, SMT DEF signOf, degreeInSign, normalize360

\* The navamsa is the sign of the pada, counted through the nakshatras.
LEMMA NavamsaIsPada ==
  ASSUME NEW lon \in Longitudes
  PROVE  VargaSign(9, lon) = (4 * nakshatraOf(lon) + padaOf(lon)) % 12
<1> DEFINE s == signOf(lon)
           d == degreeInSign(lon)
<1>1. /\ s \in 0 .. 11 /\ d \in Int /\ 0 <= d /\ d < 30240
      /\ lon = 30240 * s + d /\ normalize360(lon) = lon
  BY SignsShareTheCircle, SMT
<1>2. VargaSign(9, lon) = (NavamsaStart(s) + (d * 9) \div 30240) % 12
  BY Spans, SMT DEF VargaSign, CountedFrom, PartOf, Divisor
<1>3. 4 * nakshatraOf(lon) + padaOf(lon) = 4 * (lon \div 13440) + (lon % 13440) \div 3360
  BY <1>1, Spans, SMT DEF nakshatraOf, padaOf, nakshatraSpan
<1> HIDE DEF s, d
<1>4. (d * 9) \div 30240 = d \div 3360
  BY <1>1, SMT
<1>5. 4 * (lon \div 13440) + (lon % 13440) \div 3360 = 9 * s + d \div 3360
  BY <1>1, SMT
<1>6. NavamsaStart(s) \in Int /\ (NavamsaStart(s) - 9 * s) % 12 = 0
  BY <1>1, SMT DEF NavamsaStart
<1> DEFINE q == d \div 3360
<1>7. q \in Int /\ 9 * s \in Int
  BY <1>1, SMT
<1> HIDE DEF q
<1>8. (NavamsaStart(s) + q) % 12 = (9 * s + q) % 12
  BY <1>6, <1>7, SameSignOn
<1> QED
  BY <1>2, <1>3, <1>4, <1>5, <1>8, SMT DEF q

\* The parts of a sign, and the middle of one.
LEMMA PartsOfASign ==
  ASSUME NEW n \in Int, 1 <= n, n <= 60, NEW d \in Int, 0 <= d, d < 30240
  PROVE  d * n \in Int /\ (d * n) \div 30240 \in 0 .. n - 1
<1>1. d * n \in Int /\ 0 <= d * n /\ d * n < 30240 * n
  BY SMT
<1> QED
  BY <1>1, SMT

\* The middle of a part is in the part (remapLongitudes takes it).
LEMMA MiddleOfPart ==
  ASSUME NEW n \in Int, 1 <= n, n <= 60, NEW p \in 0 .. n - 1,
         NEW off \in Int, off = ((2 * p + 1) * 30240) \div (2 * n)
  PROVE  0 <= off /\ off < 30240 /\ (off * n) \div 30240 = p
<1>1. (2 * n) * off <= (2 * p + 1) * 30240 /\ (2 * p + 1) * 30240 < (2 * n) * off + 2 * n
  BY Quotient, SMT
<1>2. (2 * n) * off = 2 * (off * n) /\ off * n \in Int
  BY SMT
<1>3. off * n < 30240 * p + 30240 /\ 30240 * p <= off * n
  BY <1>1, <1>2, SMT
<1>4. off * n < 30240 * n /\ 0 <= off * n
  BY <1>3, SMT
<1>5. (off * n) \div 30240 = p
  BY <1>3, <1>2, SMT
<1> QED
  BY <1>4, <1>5, SMT

\* The divisions are counted from a sign.
LEMMA CountedFromSign ==
  ASSUME NEW n \in Divisor \ {1, 2, 3, 4, 30}, NEW s \in 0 .. 11
  PROVE  CountedFrom(n, s) \in Int
<1>1. CASE n \in {7, 10, 60}
  BY <1>1, SMT DEF CountedFrom, OddSign
<1>2. CASE n = 9
  BY <1>2, SMT DEF CountedFrom, NavamsaStart
<1>3. CASE n \in {12, 16, 20, 45}
  BY <1>3, SMT DEF CountedFrom
<1>4. CASE n \in {24, 27, 40}
  BY <1>4, SMT DEF CountedFrom, OddSign
<1> QED
  BY <1>1, <1>2, <1>3, <1>4 DEF Divisor

\* The harmonic ones from n signs on for every sign.
LEMMA CountedFromHarmonic ==
  ASSUME NEW n \in {7, 9, 16, 20, 27}, NEW s \in 0 .. 11
  PROVE  (CountedFrom(n, s) - n * s) % 12 = 0
<1>1. CASE n = 7
  BY <1>1, SMT DEF CountedFrom, OddSign
<1>2. CASE n = 9
  BY <1>2, SMT DEF CountedFrom, NavamsaStart
<1>3. CASE n \in {16, 20}
  BY <1>3, SMT DEF CountedFrom
<1>4. CASE n = 27
  BY <1>4, SMT DEF CountedFrom
<1> QED
  BY <1>1, <1>2, <1>3, <1>4

\* The harmonic divisions run on around the zodiac.
LEMMA HarmonicsRunOn ==
  ASSUME NEW lon \in Longitudes, NEW n \in {7, 9, 16, 20, 27}
  PROVE  VargaSign(n, lon) = ((lon * n) \div SignSpan) % 12
<1> DEFINE s == signOf(lon)
           d == degreeInSign(lon)
           p == (d * n) \div 30240
<1>1. s \in 0 .. 11 /\ d \in Int /\ 0 <= d /\ d < 30240 /\ lon = 30240 * s + d
  BY SignsShareTheCircle, SMT
<1>2. VargaSign(n, lon) = (CountedFrom(n, s) + p) % 12
  BY Spans, SMT DEF VargaSign, PartOf
<1>3. p \in Int /\ 30240 * p <= d * n /\ d * n < 30240 * p + 30240 /\ d * n \in Int
  BY <1>1, PartsOfASign, Quotient, SMT
<1> HIDE DEF s, d, p
<1>4. n * s \in Int /\ CountedFrom(n, s) \in Int /\ (CountedFrom(n, s) - n * s) % 12 = 0
  <2>1. n \in Divisor \ {1, 2, 3, 4, 30} /\ n \in Int
    BY SMT DEF Divisor
  <2>2. CountedFrom(n, s) \in Int
    BY <1>1, <2>1, CountedFromSign
  <2>3. (CountedFrom(n, s) - n * s) % 12 = 0
    BY <1>1, CountedFromHarmonic
  <2> QED
    BY <1>1, <2>1, <2>2, <2>3, SMT
<1>5. (lon * n) \div 30240 = n * s + p
  <2> DEFINE k == n * s
             r == d * n
  <2>1. lon * n = 30240 * k + r
    BY <1>1, SMT
  <2>2. k \in Int /\ r \in Int /\ 30240 * p <= r /\ r < 30240 * p + 30240
    BY <1>3, <1>4
  <2> HIDE DEF k, r
  <2>3. (30240 * k + r) \div 30240 = k + p
    BY <2>2, <1>3, SMT
  <2> QED
    BY <2>1, <2>3, SMT DEF k
<1> QED
  BY <1>2, <1>3, <1>4, <1>5, SameSignOn, Spans, SMT

\* A longitude keeps its part in the sign of the divisional chart.
LEMMA RemapKeepsPart ==
  ASSUME NEW lon \in Longitudes, NEW n \in Divisor \ {30}
  PROVE  /\ VargaSign(n, lon) \in 0 .. 11
         /\ VargaLongitude(n, lon) \in Longitudes
         /\ signOf(VargaLongitude(n, lon)) = VargaSign(n, lon)
         /\ n > 1 => PartOf(n, VargaLongitude(n, lon)) = PartOf(n, lon)
<1> DEFINE s == signOf(lon)
           d == degreeInSign(lon)
           p == PartOf(n, lon)
           sign == VargaSign(n, lon)
           off == ((2 * p + 1) * 30240) \div (2 * n)
           turned == VargaLongitude(n, lon)
<1>1. /\ s \in 0 .. 11 /\ d \in Int /\ 0 <= d /\ d < 30240
      /\ normalize360(lon) = lon
  BY SignsShareTheCircle, SMT
<1>2. n \in Int /\ 1 <= n /\ n <= 60
  BY SMT DEF Divisor
<1>3. p \in 0 .. n - 1
  BY <1>1, <1>2, PartsOfASign, Spans, SMT DEF PartOf
<1>4. sign \in 0 .. 11
  <2>1. CASE n = 1
    BY <2>1, <1>1, SMT DEF VargaSign
  <2>2. CASE n = 2
    BY <2>2, SMT DEF VargaSign
  <2>3. CASE n \in {3, 4}
    BY <2>3, <1>1, <1>3, SMT DEF VargaSign
  <2>4. CASE n \notin {1, 2, 3, 4}
    <3>1. CountedFrom(n, s) \in Int
      BY <2>4, <1>1, CountedFromSign, SMT
    <3>2. sign = (CountedFrom(n, s) + p) % 12
      BY <2>4, SMT DEF VargaSign
    <3> QED
      BY <3>1, <3>2, <1>2, <1>3, SMT
  <2> QED
    BY <2>1, <2>2, <2>3, <2>4
<1>5. CASE n = 1
  BY <1>5, <1>1, SMT DEF VargaLongitude, VargaSign
<1>6. CASE n # 1
  <2>1. off \in Int /\ 0 <= off /\ off < 30240 /\ (off * n) \div 30240 = p
    BY <1>2, <1>3, MiddleOfPart, Quotient, SMT
  <2>2. turned = sign * 30240 + off
    BY <1>6, Spans, SMT DEF VargaLongitude
  <2> HIDE DEF s, d, p, sign, off, turned
  <2>3. turned \in Longitudes
    BY <2>1, <2>2, <1>4, IsLongitude, SMT
  <2>4. turned % 362880 = turned /\ turned \div 30240 = sign /\ turned % 30240 = off
    BY <2>1, <2>2, <1>4, SMT
  <2>5. signOf(turned) = sign /\ PartOf(n, turned) = p
    BY <2>1, <2>4, Spans, SMT DEF signOf, PartOf, degreeInSign, normalize360
  <2> QED
    BY <1>4, <2>3, <2>5 DEF sign, turned, p
<1> QED
  BY <1>5, <1>6

-----------------------------------------------------------------------------
(* The Vedic chart *)

VedicTypeOK ==
  /\ Computed => sky \in [Placed -> Longitudes]
  /\ ascendant \in Longitudes
  /\ dayBirth \in BOOLEAN

\* Before a Vedic chart is computed nothing is said of it.
LEMMA VedicInitial == VedicInit => VedicTypeOK
<1>1. 0 \in Longitudes
  BY IsLongitude, SMT
<1> QED
  BY <1>1 DEF VedicInit, VedicTypeOK, Computed

\* Computing it places the grahas on the circle, the nodes opposite.
LEMMA VedicStep == VedicTypeOK /\ [VedicNext]_vedicVars => VedicTypeOK'
<1> SUFFICES ASSUME VedicTypeOK, [VedicNext]_vedicVars PROVE VedicTypeOK'
  OBVIOUS
<1>1. CASE UNCHANGED vedicVars
  BY <1>1 DEF vedicVars, VedicTypeOK, Computed
<1>2. ASSUME NEW first \in FirstSky, ComputeVedicChart(first) PROVE VedicTypeOK'
  BY <1>2, VedicAssumption DEF ComputeVedicChart, VedicTypeOK, Longitudes
<1>3. ASSUME NEW lon \in Longitude, OtherHour(lon) PROVE VedicTypeOK'
  BY <1>3, VedicAssumption DEF OtherHour, VedicTypeOK, Computed, Longitudes
<1>4. ASSUME NEW lon \in Longitude, NEW g \in Placed, OtherPlace(g, lon) PROVE VedicTypeOK'
  BY <1>4, VedicAssumption DEF OtherPlace, VedicTypeOK, Computed, Longitudes
<1> QED
  BY <1>1, <1>2, <1>3, <1>4 DEF VedicNext

\* Every graha of a chart has a longitude.
LEMMA GrahasArePlaced ==
  ASSUME VedicTypeOK, Computed, NEW g \in Graha
  PROVE  Rashi(g) \in Longitudes
<1>1. CASE g # "Ketu"
  BY <1>1 DEF VedicTypeOK, Rashi, Graha
<1>2. CASE g = "Ketu"
  <2>1. sky["Rahu"] \in Longitudes
    BY DEF VedicTypeOK, Placed
  <2>2. /\ sky["Rahu"] \in Int
        /\ Rashi(g) = (sky["Rahu"] + 181440) % 362880
    BY <1>2, <2>1, LongitudeBounds, Spans, SMT DEF Rashi, normalize360
  <2>3. Rashi(g) \in Int /\ 0 <= Rashi(g) /\ Rashi(g) < 362880
    BY <2>2, SMT
  <2> QED
    BY <2>3, IsLongitude, SMT
<1> QED
  BY <1>1, <1>2

\* The divisional charts agree, for every longitude.
LEMMA DivisionsAgree == VedicTypeOK => VargasAgree
<1> SUFFICES ASSUME VedicTypeOK, Computed,
                    NEW lon \in {ascendant} \cup {Rashi(g) : g \in Graha}
             PROVE  /\ VargaSign(9, lon) = (4 * nakshatraOf(lon) + padaOf(lon)) % 12
                    /\ \A n \in {7, 9, 16, 20, 27} :
                         VargaSign(n, lon) = ((lon * n) \div SignSpan) % 12
                    /\ \A n \in Divisor \ {30} :
                         /\ signOf(VargaLongitude(n, lon)) = VargaSign(n, lon)
                         /\ n > 1 => PartOf(n, VargaLongitude(n, lon)) = PartOf(n, lon)
  BY DEF VargasAgree
<1>1. lon \in Longitudes
  BY GrahasArePlaced DEF VedicTypeOK
<1> QED
  BY <1>1, NavamsaIsPada, HarmonicsRunOn, RemapKeepsPart

\* A graha has a longitude, a sign and a house in every division.
LEMMA SignsInADivision ==
  ASSUME VedicTypeOK, Computed, NEW n \in Divisor \ {30}, NEW g \in Graha
  PROVE  /\ Position(n, g) \in Longitudes
         /\ signOf(Position(n, g)) \in 0 .. 11
         /\ LagnaSign(n) \in 0 .. 11
         /\ House(n, g) \in 1 .. 12
<1>1. Rashi(g) \in Longitudes /\ ascendant \in Longitudes
  BY GrahasArePlaced DEF VedicTypeOK
<1>2. Position(n, g) \in Longitudes /\ VargaLongitude(n, ascendant) \in Longitudes
  BY <1>1, RemapKeepsPart DEF Position
<1>3. signOf(Position(n, g)) \in 0 .. 11 /\ LagnaSign(n) \in 0 .. 11
  BY <1>2, SignsShareTheCircle DEF LagnaSign
<1> QED
  BY <1>2, <1>3, SMT DEF House

\* Houses are as far apart as their signs.
LEMMA HousesAsSigns ==
  ASSUME NEW a \in 0 .. 11, NEW b \in 0 .. 11, NEW lagna \in 0 .. 11
  PROVE  houseDistance(((a - lagna + 12) % 12) + 1, ((b - lagna + 12) % 12) + 1)
           = ((b - a + 12) % 12) + 1
BY SMT DEF houseDistance

\* The seventh house is opposite, from both ends.
LEMMA OppositeHouses ==
  ASSUME NEW a \in 1 .. 12, NEW b \in 1 .. 12
  PROVE  /\ houseDistance(a, b) = 7 <=> houseDistance(b, a) = 7
         /\ houseDistance(a, b) = 7 <=> b = HouseAt(a, 7)
         /\ houseDistance(a, b) = 7 => a # b
BY SMT DEF houseDistance, HouseAt

\* Every graha aspects the seventh house from it, none the first two or the last two.
LEMMA DrishtiHouses ==
  ASSUME NEW g \in Graha PROVE drishtiHouses[g] \subseteq 3 .. 10 /\ 7 \in drishtiHouses[g]
BY SMT DEF drishtiHouses, Graha, Placed, Seven

\* So no graha aspects its own house or the next.
LEMMA NeverBesideItself ==
  ASSUME NEW h \in 1 .. 12, NEW d \in 3 .. 10
  PROVE  HouseAt(h, d) # h /\ HouseAt(h, d) # (h % 12) + 1
BY SMT DEF HouseAt

\* Within 17 degrees is the same sign or one beside it.
LEMMA CombustIsNear ==
  ASSUME NEW a \in Longitudes, NEW b \in Longitudes, angularDistance(a, b) <= 17136
  PROVE  ((signOf(a) - signOf(b) + 12) % 12) + 1 \in {12, 1, 2}
<1> DEFINE s == signOf(a)
           t == signOf(b)
           d == degreeInSign(a)
           e == degreeInSign(b)
<1>1. /\ s \in 0 .. 11 /\ d \in Int /\ 0 <= d /\ d < 30240 /\ a = 30240 * s + d
      /\ t \in 0 .. 11 /\ e \in Int /\ 0 <= e /\ e < 30240 /\ b = 30240 * t + e
  BY SignsShareTheCircle, SMT
<1>2. /\ (a - b) % 362880 <= 17136 \/ 362880 - ((a - b) % 362880) <= 17136
      /\ a \in Int /\ b \in Int
  BY LongitudeBounds, Spans, SMT DEF angularDistance, normalize360
<1> HIDE DEF s, d, t, e
<1>3. ((s - t + 12) % 12) \in {11, 0, 1}
  BY <1>1, <1>2, SMT
<1> QED
  BY <1>1, <1>3, SMT DEF s, t

\* Aspects, combustion and the nodes cohere in every chart.
LEMMA ChartsCohere == VedicTypeOK => ChartCoheres
<1> SUFFICES ASSUME VedicTypeOK, Computed PROVE ChartCoheres
  BY DEF ChartCoheres
<1>1. ASSUME NEW n \in {1, 9, 10}, NEW g \in Graha, NEW h \in Graha,
             houseDistance(House(n, g), House(n, h)) = 7
      PROVE  h \in Aspects(n, g) /\ g \in Aspects(n, h)
  <2>1. n \in Divisor \ {30}
    BY SMT DEF Divisor
  <2>2. House(n, g) \in 1 .. 12 /\ House(n, h) \in 1 .. 12
    BY <2>1, SignsInADivision
  <2>3. /\ House(n, h) = HouseAt(House(n, g), 7)
        /\ House(n, g) = HouseAt(House(n, h), 7)
        /\ g # h
    BY <1>1, <2>2, OppositeHouses
  <2> QED
    BY <2>3, DrishtiHouses DEF Aspects, AspectedHouses
<1>2. ASSUME NEW n \in {1, 9, 10}, NEW g \in Graha
      PROVE  AspectedHouses(n, g) \cap {House(n, g), (House(n, g) % 12) + 1} = {}
  <2>1. n \in Divisor \ {30}
    BY SMT DEF Divisor
  <2>2. House(n, g) \in 1 .. 12
    BY <2>1, SignsInADivision
  <2> QED
    BY <2>2, DrishtiHouses, NeverBesideItself DEF AspectedHouses
<1>3. 1 \in Divisor \ {30} /\ "Sun" \in Graha /\ "Rahu" \in Graha /\ "Ketu" \in Graha
  BY SMT DEF Divisor, Graha, Placed, Seven
<1>4. ASSUME NEW g \in Graha, isCombust(1, g)
      PROVE  houseDistance(HouseOf("Sun"), HouseOf(g)) \in {12, 1, 2}
  <2>1. angularDistance(Position(1, g), Position(1, "Sun")) <= 17136
    <3>1. g \in DOMAIN combustionOrb /\ combustionOrb[g] \in Int /\ combustionOrb[g] <= 17
      BY <1>4, SMT DEF isCombust, combustionOrb
    <3>2. angularDistance(Position(1, g), Position(1, "Sun")) \in Int
      BY <1>3, SignsInADivision, LongitudeBounds, Spans, SMT DEF angularDistance, normalize360
    <3> QED
      BY <1>4, <3>1, <3>2, Spans, SMT DEF isCombust
  <2>2. ((signOf(Position(1, g)) - signOf(Position(1, "Sun")) + 12) % 12) + 1 \in {12, 1, 2}
    BY <1>3, <2>1, SignsInADivision, CombustIsNear
  <2> QED
    BY <1>3, <2>2, SignsInADivision, HousesAsSigns DEF HouseOf, House
<1>5. houseDistance(House(1, "Rahu"), House(1, "Ketu")) = 7
  <2>1. Position(1, "Rahu") = sky["Rahu"] /\ sky["Rahu"] \in Longitudes
    <3>1. sky["Rahu"] \in Longitudes
      BY DEF VedicTypeOK, Placed
    <3> QED
      BY <3>1, SignsShareTheCircle DEF Position, Rashi, VargaLongitude
  <2>2. Position(1, "Ketu") = (sky["Rahu"] + 181440) % 362880
    <3>1. Rashi("Ketu") = (sky["Rahu"] + 181440) % 362880
      BY <2>1, LongitudeBounds, Spans, SMT DEF Rashi, normalize360
    <3>2. Position(1, "Ketu") = Rashi("Ketu")
      BY <1>3, GrahasArePlaced, SignsShareTheCircle DEF Position, VargaLongitude
    <3> QED
      BY <3>1, <3>2, SMT
  <2> DEFINE r == signOf(Position(1, "Rahu"))
             k == signOf(Position(1, "Ketu"))
  <2>3. r \in 0 .. 11 /\ k \in 0 .. 11 /\ LagnaSign(1) \in 0 .. 11
    BY <1>3, SignsInADivision
  <2>4. ((k - r + 12) % 12) + 1 = 7
    <3>1. r = sky["Rahu"] \div 30240 /\ k = ((sky["Rahu"] + 181440) % 362880) \div 30240
      <4>1. Position(1, "Rahu") \in Longitudes /\ Position(1, "Ketu") \in Longitudes
        BY <1>3, SignsInADivision
      <4> QED
        BY <4>1, <2>1, <2>2, SignsShareTheCircle, Spans, SMT DEF signOf
    <3>2. sky["Rahu"] \in Int /\ 0 <= sky["Rahu"] /\ sky["Rahu"] < 362880
      BY <2>1, LongitudeBounds, SMT
    <3> HIDE DEF r, k
    <3> QED
      BY <3>1, <3>2, SMT
  <2> QED
    BY <2>3, <2>4, HousesAsSigns DEF House
<1> QED
  BY <1>1, <1>2, <1>3, <1>4, <1>5 DEF ChartCoheres

-----------------------------------------------------------------------------
(* Yogas *)

\* On which side of the nodes a longitude is.
LEMMA NodesHalveTheCircle ==
  ASSUME NEW r \in Longitudes, NEW k \in Longitudes, NEW x \in Longitudes,
         k = normalize360(r + Circle \div 2)
  PROVE  LET side == normalize360(x - r) IN
         /\ side \in Int /\ 0 <= side
         /\ inArc(r, x) <=> side <= Circle \div 2
         /\ inArc(k, x) <=> side = 0 \/ side >= Circle \div 2
<1>1. /\ r \in Int /\ 0 <= r /\ r < 362880
      /\ k \in Int /\ x \in Int /\ 0 <= x /\ x < 362880
  BY LongitudeBounds, SMT
<1>2. k = (r + 181440) % 362880
  BY Spans, SMT DEF normalize360
<1>3. /\ (x - r) % 362880 \in Int /\ 0 <= (x - r) % 362880
      /\ 2 * ((x - r) % 362880) <= 362880 <=> (x - r) % 362880 <= 181440
      /\ 2 * ((x - k) % 362880) <= 362880
           <=> (x - r) % 362880 = 0 \/ (x - r) % 362880 >= 181440
  BY <1>1, <1>2, SMT
<1> QED
  BY <1>3, Spans, SMT DEF inArc, normalize360

\* Kala Sarpa is formed unless the nodes have a graha on each side.
LEMMA SerpentBetweenNodes ==
  ASSUME VedicTypeOK, Computed
  PROVE  LET side(g) == normalize360(Rashi(g) - Rashi("Rahu"))
             half == Circle \div 2
         IN (kalaSarpa # {}) = ~ \E a, b \in Seven :
               side(a) > 0 /\ side(a) < half /\ side(b) > half
<1> DEFINE side(g) == normalize360(Rashi(g) - Rashi("Rahu"))
           half == Circle \div 2
<1>1. half \in Int /\ half > 0
  BY Spans, SMT
<1>2. \A g \in Seven :
        /\ side(g) \in Int /\ 0 <= side(g)
        /\ inArc(Rashi("Rahu"), Rashi(g)) <=> side(g) <= half
        /\ inArc(Rashi("Ketu"), Rashi(g)) <=> side(g) = 0 \/ side(g) >= half
  <2>1. /\ "Rahu" \in Graha /\ "Ketu" \in Graha /\ Seven \subseteq Graha
        /\ Rashi("Ketu") = normalize360(Rashi("Rahu") + Circle \div 2)
    BY DEF Graha, Placed, Rashi
  <2> QED
    BY <2>1, GrahasArePlaced, NodesHalveTheCircle
<1>3. kalaSarpa # {} <=> \E node \in {"Rahu", "Ketu"} : \A g \in Seven : inArc(Rashi(node), Rashi(g))
  BY DEF kalaSarpa
<1> HIDE DEF side, half
<1>4. kalaSarpa # {} <=> \/ \A g \in Seven : side(g) <= half
                         \/ \A g \in Seven : side(g) = 0 \/ side(g) >= half
  BY <1>2, <1>3
<1>5. (\/ \A g \in Seven : side(g) <= half
       \/ \A g \in Seven : side(g) = 0 \/ side(g) >= half)
      <=> ~ \E a, b \in Seven : side(a) > 0 /\ side(a) < half /\ side(b) > half
  BY <1>1, <1>2, SMT
<1> QED
  BY <1>4, <1>5 DEF side, half

\* A connection of two lords is one from both ends.
LEMMA ConnectedBothWays ==
  ASSUME VedicTypeOK, Computed, NEW a \in Graha, NEW b \in Graha, Connected(a, b)
  PROVE  Connected(b, a)
<1>1. 1 \in Divisor \ {30}
  BY SMT DEF Divisor
<1>2. HouseOf(a) \in 1 .. 12 /\ HouseOf(b) \in 1 .. 12
  BY <1>1, SignsInADivision DEF HouseOf
<1> QED
  BY <1>2, OppositeHouses DEF Connected, SameSign

\* A sign is ruled by one of the seven.
LEMMA LordsAreGrahas ==
  ASSUME NEW sign \in Int PROVE LordOf(sign) \in Seven
<1>1. sign % 12 \in 0 .. 11
  BY SMT
<1> QED
  BY <1>1, SMT DEF LordOf, signLord, Seven

\* A planet that rules two signs rules an odd one and an even one.
LEMMA LordsOfDushtanas ==
  ASSUME NEW s \in 0 .. 11, NEW h \in Dushtana, NEW i \in Dushtana, h # i
  PROVE  LordOf(s + h - 1) # LordOf(s + i - 1)
<1>1. h \in {6, 8, 12} /\ i \in {6, 8, 12}
  BY DEF Dushtana
<1> DEFINE a == (s + h - 1) % 12
           b == (s + i - 1) % 12
<1>2. a \in 0 .. 11 /\ b \in 0 .. 11 /\ a # b /\ a % 2 = b % 2
  BY <1>1, SMT
<1> HIDE DEF a, b
<1>3. signLord[a + 1] # signLord[b + 1]
  BY <1>2, SMT DEF signLord
<1> QED
  BY <1>3 DEF LordOf, a, b

\* Cardinalities of small sets.
LEMMA FewElements ==
  ASSUME NEW a, NEW b, NEW c
  PROVE  /\ IsFiniteSet({a, b}) /\ (a # b => Cardinality({a, b}) = 2)
         /\ IsFiniteSet({a, b, c}) /\ Cardinality({a, b, c}) \in Nat
         /\ Cardinality({a, b, c}) <= 3
<1>1. IsFiniteSet({a}) /\ Cardinality({a}) = 1
  BY FS_Singleton
<1>2. /\ IsFiniteSet({a} \cup {b})
      /\ Cardinality({a} \cup {b}) = IF b \in {a} THEN 1 ELSE 1 + 1
  BY <1>1, FS_AddElement
<1>3. {a, b} = {a} \cup {b} /\ {a, b, c} = {a, b} \cup {c}
  OBVIOUS
<1>4. IsFiniteSet({a, b}) /\ Cardinality({a, b}) \in {1, 2} /\ (a # b => Cardinality({a, b}) = 2)
  BY <1>2, <1>3, SMT
<1>5. /\ IsFiniteSet({a, b} \cup {c})
      /\ Cardinality({a, b} \cup {c})
           = IF c \in {a, b} THEN Cardinality({a, b}) ELSE Cardinality({a, b}) + 1
  BY <1>4, FS_AddElement
<1>6. /\ IsFiniteSet({a, b, c})
      /\ Cardinality({a, b, c}) = Cardinality({a, b}) \/ Cardinality({a, b, c}) = Cardinality({a, b}) + 1
  BY <1>3, <1>5
<1>7. Cardinality({a, b, c}) \in {1, 2, 3}
  BY <1>4, <1>6, SMT
<1> QED
  BY <1>4, <1>6, <1>7, SMT

\* Two different elements make two.
LEMMA TwoElements ==
  ASSUME NEW S, IsFiniteSet(S), NEW a \in S, NEW b \in S, a # b PROVE Cardinality(S) >= 2
<1>1. Cardinality({a, b}) = 2
  BY FewElements
<1>2. {a, b} \subseteq S
  OBVIOUS
<1> QED
  BY <1>1, <1>2, FS_Subset, FS_CardinalityType, SMT

\* And two elements are different ones.
LEMMA NotTwoElements ==
  ASSUME NEW S, IsFiniteSet(S), Cardinality(S) >= 2 PROVE \E a, b \in S : a # b
<1>1. S # {}
  BY FS_EmptySet, SMT
<1>2. PICK a \in S : TRUE
  BY <1>1
<1>3. S # {a}
  BY FS_Singleton, SMT
<1> QED
  BY <1>2, <1>3

\* The four yogas are formed as stated, for every place of the grahas.
LEMMA YogasSound == VedicTypeOK => YogasAreSound
<1> SUFFICES ASSUME VedicTypeOK, Computed PROVE YogasAreSound
  BY DEF YogasAreSound
<1>1. LagnaSign(1) \in 0 .. 11 /\ \A h \in 1 .. 12 : Lord(h) \in Seven
  <2>1. 1 \in Divisor \ {30} /\ "Sun" \in Graha
    BY SMT DEF Divisor, Graha, Placed, Seven
  <2>2. LagnaSign(1) \in 0 .. 11
    BY <2>1, SignsInADivision
  <2>3. \A h \in 1 .. 12 : LagnaSign(1) + h - 1 \in Int
    BY <2>2, SMT
  <2> QED
    BY <2>2, <2>3, LordsAreGrahas DEF Lord
<1>2. \A a \in rajaYoga : \E b \in rajaYoga \ {a} : Connected(a, b)
  <2>1. \A a, b \in Graha : Connected(a, b) => Connected(b, a)
    BY ConnectedBothWays
  <2>2. /\ {Lord(h) : h \in Kendra} \subseteq Graha
        /\ {Lord(h) : h \in Trikona} \subseteq Graha
    BY <1>1, SMT DEF Kendra, Trikona, Graha, Placed
  <2> QED
    BY <2>1, <2>2 DEF rajaYoga
<1>3. vipreetaRaja # {} => Cardinality(vipreetaRaja) >= 2
  <2> SUFFICES ASSUME vipreetaRaja # {} PROVE Cardinality(vipreetaRaja) >= 2
    OBVIOUS
  <2> DEFINE houses == {h \in Dushtana : HouseOf(Lord(h)) \in Dushtana}
  <2>1. IsFiniteSet(Dushtana)
    BY FewElements DEF Dushtana
  <2>2. IsFiniteSet(houses)
    BY <2>1, FS_Subset
  <2>3. Cardinality(houses) >= 2 /\ vipreetaRaja = {Lord(h) : h \in houses}
    BY DEF vipreetaRaja
  <2>4. PICK h \in houses, i \in houses : h # i
    BY <2>2, <2>3, NotTwoElements
  <2>5. Lord(h) # Lord(i)
    BY <1>1, <2>4, LordsOfDushtanas DEF Lord
  <2>6. IsFiniteSet(vipreetaRaja)
    <3>1. vipreetaRaja \subseteq {Lord(6), Lord(8), Lord(12)}
      BY <2>3 DEF Dushtana
    <3> QED
      BY <3>1, FewElements, FS_Subset
  <2> QED
    BY <2>3, <2>5, <2>6, TwoElements
<1>4. neechaBhanga \cap (lakshmiYoga \ {"Venus"}) = {}
  BY DEF neechaBhanga, lakshmiYoga, WellPlaced
<1> QED
  BY <1>2, <1>3, <1>4, SerpentBetweenNodes DEF YogasAreSound

-----------------------------------------------------------------------------
(* Shadbala *)

\* The dignities a graha may have.
LEMMA DignitiesAreSeven ==
  ASSUME NEW g, NEW sign, NEW degree
  PROVE  dignityOf(g, sign, degree)
           \in {"exalted", "debilitated", "neutral", "mooltrikona", "own", "friend", "enemy"}
BY DEF dignityOf

\* Bounds of the sums of Shadbala: 60 points for the place,
LEMMA SthanaBalaBound ==
  ASSUME NEW n, NEW g
  PROVE  sthanaBalaOf(Dignity(n, g)) \in Int /\ sthanaBalaOf(Dignity(n, g)) <= 6000
<1>1. Dignity(n, g)
        \in {"exalted", "debilitated", "neutral", "mooltrikona", "own", "friend", "enemy"}
  BY DignitiesAreSeven DEF Dignity
<1> QED
  BY <1>1, SMT DEF sthanaBalaOf

\* 60 for the direction,
LEMMA DigBalaBound ==
  ASSUME NEW g \in Seven, NEW house \in 1 .. 12
  PROVE  digBalaOf(g, house) \in Int /\ digBalaOf(g, house) <= 6000
<1>1. digBalaJoy[g] \in 1 .. 10
  BY SMT DEF digBalaJoy, Seven
<1> QED
  BY <1>1, SMT DEF digBalaOf

\* The phase counts for the Moon only.
LEMMA KalaBalaBound ==
  ASSUME NEW g \in Seven \ {"Moon"}
  PROVE  kalaBalaOf(g) \in Int /\ kalaBalaOf(g) <= 6000
BY SMT DEF kalaBalaOf

\* 60 for the motion, 30 always for the Sun.
LEMMA ChestaBalaBound ==
  ASSUME NEW g
  PROVE  /\ chestaBalaOf(g) \in Int /\ chestaBalaOf(g) <= 6000
         /\ g = "Sun" => chestaBalaOf(g) = 3000
BY SMT DEF chestaBalaOf

\* Three benefics at most give an aspect.
LEMMA DrikBalaBound ==
  ASSUME NEW g
  PROVE  drikBalaOf(g) \in Int /\ drikBalaOf(g) <= 4500
<1> DEFINE good == {h \in {"Jupiter", "Venus", "Mercury"} : g \in Aspects(1, h)}
           bad == {h \in {"Sun", "Mars", "Saturn", "Rahu", "Ketu"} : g \in Aspects(1, h)}
<1>1. Cardinality(good) \in Nat /\ Cardinality(good) <= 3
  <2>1. good \subseteq {"Jupiter", "Venus", "Mercury"}
    OBVIOUS
  <2>2. IsFiniteSet(good) /\ Cardinality(good) <= Cardinality({"Jupiter", "Venus", "Mercury"})
    BY <2>1, FewElements, FS_Subset
  <2>3. Cardinality(good) \in Nat
    BY <2>2, FS_CardinalityType
  <2> DEFINE all == Cardinality({"Jupiter", "Venus", "Mercury"})
  <2>4. all \in Nat /\ all <= 3 /\ Cardinality(good) <= all
    BY <2>2, FewElements
  <2> HIDE DEF good, all
  <2> QED
    BY <2>3, <2>4, SMT
<1>2. Cardinality(bad) \in Nat
  <2>1. IsFiniteSet({"Sun", "Mars", "Saturn"} \cup {"Rahu"} \cup {"Ketu"})
    BY FewElements, FS_AddElement
  <2>2. bad \subseteq {"Sun", "Mars", "Saturn"} \cup {"Rahu"} \cup {"Ketu"}
    OBVIOUS
  <2> QED
    BY <2>1, <2>2, FS_Subset, FS_CardinalityType
<1> HIDE DEF good, bad
<1> DEFINE score == 1500 * Cardinality(good) - 1000 * Cardinality(bad)
<1>3. score \in Int /\ score <= 4500
  BY <1>1, <1>2, SMT
<1>4. drikBalaOf(g) = IF score > 6000 THEN 6000 ELSE IF score < -6000 THEN -6000 ELSE score
  BY DEF drikBalaOf, good, bad
<1> HIDE DEF score
<1> QED
  BY <1>3, <1>4, SMT

\* The bounds together are less than what is required of five of the seven.
LEMMA FiveNeverSuffice == VedicTypeOK => OnlyMoonAndMarsSuffice
<1> SUFFICES ASSUME VedicTypeOK, Computed, NEW g \in Seven \ {"Moon", "Mars"} PROVE ~ Sufficient(g)
  BY DEF OnlyMoonAndMarsSuffice
<1>1. HouseOf(g) \in 1 .. 12
  <2>1. 1 \in Divisor \ {30} /\ g \in Graha
    BY SMT DEF Divisor, Graha, Placed
  <2> QED
    BY <2>1, SignsInADivision DEF HouseOf
<1> DEFINE sthana == sthanaBalaOf(Dignity(1, g))
           dig == digBalaOf(g, HouseOf(g))
           kala == kalaBalaOf(g)
           chesta == chestaBalaOf(g)
           drik == drikBalaOf(g)
<1>2. /\ sthana \in Int /\ sthana <= 6000
      /\ dig \in Int /\ dig <= 6000
      /\ kala \in Int /\ kala <= 6000
      /\ chesta \in Int /\ chesta <= 6000 /\ (g = "Sun" => chesta = 3000)
      /\ drik \in Int /\ drik <= 4500
  BY <1>1, SthanaBalaBound, DigBalaBound, KalaBalaBound, ChestaBalaBound, DrikBalaBound
<1>3. Total(g) = sthana + dig + kala + chesta + naisargikaBala[g] + drik
  BY DEF Total
<1> HIDE DEF sthana, dig, kala, chesta, drik
<1>4. /\ naisargikaBala[g] \in Int
      /\ 28500 + naisargikaBala[g] < 100 * shadbalaThreshold[g] \/ g = "Sun"
      /\ g = "Sun" => 25500 + naisargikaBala[g] < 100 * shadbalaThreshold[g]
      /\ 100 * shadbalaThreshold[g] \in Int
  BY SMT DEF naisargikaBala, shadbalaThreshold, Seven
<1>5. Total(g) < 100 * shadbalaThreshold[g]
  BY <1>2, <1>3, <1>4, SMT
<1>6. Total(g) \in Int
  BY <1>2, <1>3, <1>4, SMT
<1> QED
  BY <1>4, <1>5, <1>6, SMT DEF Sufficient

-----------------------------------------------------------------------------
(* The bindus *)

Tally(B, x) == IF x \in B THEN 1 ELSE 0

\* How many distances a row of the table has.
RowLength(B) ==
  Tally(B, 1) + Tally(B, 2) + Tally(B, 3) + Tally(B, 4) + Tally(B, 5) + Tally(B, 6)
    + Tally(B, 7) + Tally(B, 8) + Tally(B, 9) + Tally(B, 10) + Tally(B, 11) + Tally(B, 12)

RowsTogether(r) ==
  RowLength(r[1]) + RowLength(r[2]) + RowLength(r[3]) + RowLength(r[4])
    + RowLength(r[5]) + RowLength(r[6]) + RowLength(r[7]) + RowLength(r[8])

\* A table: rows of distances, n of them.
RowsOf(r, n) == (\A i \in 1 .. 8 : r[i] \subseteq 1 .. 12) /\ RowsTogether(r) = n

LEMMA SunRows == RowsOf(avBenefic["Sun"], 48)
<1> DEFINE r == avBenefic["Sun"]
<1>1. /\ r[1] = {1, 2, 4, 7, 8, 9, 10, 11}
      /\ r[2] = {3, 6, 10, 11}
      /\ r[3] = {1, 2, 4, 7, 8, 9, 10, 11}
      /\ r[4] = {3, 5, 6, 9, 10, 11, 12}
      /\ r[5] = {5, 6, 9, 11}
      /\ r[6] = {6, 7, 12}
      /\ r[7] = {1, 2, 4, 7, 8, 9, 10, 11}
      /\ r[8] = {3, 4, 6, 10, 11, 12}
  BY DEF avBenefic
<1> HIDE DEF r
<1>2. \A i \in 1 .. 8 : r[i] \subseteq 1 .. 12
  BY <1>1
<1>3. /\ RowLength(r[1]) = 8
      /\ RowLength(r[2]) = 4
      /\ RowLength(r[3]) = 8
      /\ RowLength(r[4]) = 7
      /\ RowLength(r[5]) = 4
      /\ RowLength(r[6]) = 3
      /\ RowLength(r[7]) = 8
      /\ RowLength(r[8]) = 6
  BY <1>1 DEF RowLength, Tally
<1> QED
  BY <1>2, <1>3 DEF RowsOf, RowsTogether, r

LEMMA MoonRows == RowsOf(avBenefic["Moon"], 49)
<1> DEFINE r == avBenefic["Moon"]
<1>1. /\ r[1] = {3, 6, 7, 8, 10, 11}
      /\ r[2] = {1, 3, 6, 7, 10, 11}
      /\ r[3] = {2, 3, 5, 6, 9, 10, 11}
      /\ r[4] = {1, 3, 4, 5, 7, 8, 10, 11}
      /\ r[5] = {1, 4, 7, 8, 10, 11, 12}
      /\ r[6] = {3, 4, 5, 7, 9, 10, 11}
      /\ r[7] = {3, 5, 6, 11}
      /\ r[8] = {3, 6, 10, 11}
  BY DEF avBenefic
<1> HIDE DEF r
<1>2. \A i \in 1 .. 8 : r[i] \subseteq 1 .. 12
  BY <1>1
<1>3. /\ RowLength(r[1]) = 6
      /\ RowLength(r[2]) = 6
      /\ RowLength(r[3]) = 7
      /\ RowLength(r[4]) = 8
      /\ RowLength(r[5]) = 7
      /\ RowLength(r[6]) = 7
      /\ RowLength(r[7]) = 4
      /\ RowLength(r[8]) = 4
  BY <1>1 DEF RowLength, Tally
<1> QED
  BY <1>2, <1>3 DEF RowsOf, RowsTogether, r

LEMMA MarsRows == RowsOf(avBenefic["Mars"], 39)
<1> DEFINE r == avBenefic["Mars"]
<1>1. /\ r[1] = {3, 5, 6, 10, 11}
      /\ r[2] = {3, 6, 11}
      /\ r[3] = {1, 2, 4, 7, 8, 10, 11}
      /\ r[4] = {3, 5, 6, 11}
      /\ r[5] = {6, 10, 11, 12}
      /\ r[6] = {6, 8, 11, 12}
      /\ r[7] = {1, 4, 7, 8, 9, 10, 11}
      /\ r[8] = {1, 3, 6, 10, 11}
  BY DEF avBenefic
<1> HIDE DEF r
<1>2. \A i \in 1 .. 8 : r[i] \subseteq 1 .. 12
  BY <1>1
<1>3. /\ RowLength(r[1]) = 5
      /\ RowLength(r[2]) = 3
      /\ RowLength(r[3]) = 7
      /\ RowLength(r[4]) = 4
      /\ RowLength(r[5]) = 4
      /\ RowLength(r[6]) = 4
      /\ RowLength(r[7]) = 7
      /\ RowLength(r[8]) = 5
  BY <1>1 DEF RowLength, Tally
<1> QED
  BY <1>2, <1>3 DEF RowsOf, RowsTogether, r

LEMMA MercuryRows == RowsOf(avBenefic["Mercury"], 54)
<1> DEFINE r == avBenefic["Mercury"]
<1>1. /\ r[1] = {5, 6, 9, 11, 12}
      /\ r[2] = {2, 4, 6, 8, 10, 11}
      /\ r[3] = {1, 2, 4, 7, 8, 9, 10, 11}
      /\ r[4] = {1, 3, 5, 6, 9, 10, 11, 12}
      /\ r[5] = {6, 8, 11, 12}
      /\ r[6] = {1, 2, 3, 4, 5, 8, 9, 11}
      /\ r[7] = {1, 2, 4, 7, 8, 9, 10, 11}
      /\ r[8] = {1, 2, 4, 6, 8, 10, 11}
  BY DEF avBenefic
<1> HIDE DEF r
<1>2. \A i \in 1 .. 8 : r[i] \subseteq 1 .. 12
  BY <1>1
<1>3. /\ RowLength(r[1]) = 5
      /\ RowLength(r[2]) = 6
      /\ RowLength(r[3]) = 8
      /\ RowLength(r[4]) = 8
      /\ RowLength(r[5]) = 4
      /\ RowLength(r[6]) = 8
      /\ RowLength(r[7]) = 8
      /\ RowLength(r[8]) = 7
  BY <1>1 DEF RowLength, Tally
<1> QED
  BY <1>2, <1>3 DEF RowsOf, RowsTogether, r

LEMMA JupiterRows == RowsOf(avBenefic["Jupiter"], 56)
<1> DEFINE r == avBenefic["Jupiter"]
<1>1. /\ r[1] = {1, 2, 3, 4, 7, 8, 9, 10, 11}
      /\ r[2] = {2, 5, 7, 9, 11}
      /\ r[3] = {1, 2, 4, 7, 8, 10, 11}
      /\ r[4] = {1, 2, 4, 5, 6, 9, 10, 11}
      /\ r[5] = {1, 2, 3, 4, 7, 8, 10, 11}
      /\ r[6] = {2, 5, 6, 9, 10, 11}
      /\ r[7] = {3, 5, 6, 12}
      /\ r[8] = {1, 2, 4, 5, 6, 7, 9, 10, 11}
  BY DEF avBenefic
<1> HIDE DEF r
<1>2. \A i \in 1 .. 8 : r[i] \subseteq 1 .. 12
  BY <1>1
<1>3. /\ RowLength(r[1]) = 9
      /\ RowLength(r[2]) = 5
      /\ RowLength(r[3]) = 7
      /\ RowLength(r[4]) = 8
      /\ RowLength(r[5]) = 8
      /\ RowLength(r[6]) = 6
      /\ RowLength(r[7]) = 4
      /\ RowLength(r[8]) = 9
  BY <1>1 DEF RowLength, Tally
<1> QED
  BY <1>2, <1>3 DEF RowsOf, RowsTogether, r

LEMMA VenusRows == RowsOf(avBenefic["Venus"], 52)
<1> DEFINE r == avBenefic["Venus"]
<1>1. /\ r[1] = {8, 11, 12}
      /\ r[2] = {1, 2, 3, 4, 5, 8, 9, 11, 12}
      /\ r[3] = {3, 4, 6, 9, 11, 12}
      /\ r[4] = {3, 5, 6, 9, 11}
      /\ r[5] = {5, 8, 9, 10, 11}
      /\ r[6] = {1, 2, 3, 4, 5, 8, 9, 10, 11}
      /\ r[7] = {3, 4, 5, 8, 9, 10, 11}
      /\ r[8] = {1, 2, 3, 4, 5, 8, 9, 11}
  BY DEF avBenefic
<1> HIDE DEF r
<1>2. \A i \in 1 .. 8 : r[i] \subseteq 1 .. 12
  BY <1>1
<1>3. /\ RowLength(r[1]) = 3
      /\ RowLength(r[2]) = 9
      /\ RowLength(r[3]) = 6
      /\ RowLength(r[4]) = 5
      /\ RowLength(r[5]) = 5
      /\ RowLength(r[6]) = 9
      /\ RowLength(r[7]) = 7
      /\ RowLength(r[8]) = 8
  BY <1>1 DEF RowLength, Tally
<1> QED
  BY <1>2, <1>3 DEF RowsOf, RowsTogether, r

LEMMA SaturnRows == RowsOf(avBenefic["Saturn"], 39)
<1> DEFINE r == avBenefic["Saturn"]
<1>1. /\ r[1] = {1, 2, 4, 7, 8, 10, 11}
      /\ r[2] = {3, 6, 11}
      /\ r[3] = {3, 5, 6, 10, 11, 12}
      /\ r[4] = {6, 8, 9, 10, 11, 12}
      /\ r[5] = {5, 6, 11, 12}
      /\ r[6] = {6, 11, 12}
      /\ r[7] = {3, 5, 6, 11}
      /\ r[8] = {1, 3, 4, 6, 10, 11}
  BY DEF avBenefic
<1> HIDE DEF r
<1>2. \A i \in 1 .. 8 : r[i] \subseteq 1 .. 12
  BY <1>1
<1>3. /\ RowLength(r[1]) = 7
      /\ RowLength(r[2]) = 3
      /\ RowLength(r[3]) = 6
      /\ RowLength(r[4]) = 6
      /\ RowLength(r[5]) = 4
      /\ RowLength(r[6]) = 3
      /\ RowLength(r[7]) = 4
      /\ RowLength(r[8]) = 6
  BY <1>1 DEF RowLength, Tally
<1> QED
  BY <1>2, <1>3 DEF RowsOf, RowsTogether, r

\* A set of contributors has one more element, or not, among one more of them.
LEMMA OneMoreCounted ==
  ASSUME NEW S, NEW k \in Nat
  PROVE  /\ IsFiniteSet(S \cap 1 .. k)
         /\ Cardinality(S \cap 1 .. k) \in Nat
         /\ Cardinality(S \cap 1 .. k + 1) = Cardinality(S \cap 1 .. k) + Tally(S, k + 1)
<1> DEFINE A == S \cap 1 .. k
<1>1. IsFiniteSet(A) /\ Cardinality(A) \in Nat
  <2>1. IsFiniteSet(1 .. k) /\ A \subseteq 1 .. k
    BY FS_Interval
  <2> HIDE DEF A
  <2> QED
    BY <2>1, FS_Subset, FS_CardinalityType
<1>2. CASE k + 1 \in S
  <2>1. S \cap 1 .. k + 1 = A \cup {k + 1} /\ k + 1 \notin A
    BY <1>2
  <2> HIDE DEF A
  <2>2. Cardinality(A \cup {k + 1}) = Cardinality(A) + 1
    BY <1>1, <2>1, FS_AddElement
  <2> QED
    BY <1>1, <1>2, <2>1, <2>2 DEF A, Tally
<1>3. CASE k + 1 \notin S
  <2>1. S \cap 1 .. k + 1 = A
    BY <1>3
  <2> QED
    BY <1>1, <1>3, <2>1 DEF Tally
<1> QED
  BY <1>1, <1>2, <1>3

\* Eight are counted one by one.
LEMMA EightCounted ==
  ASSUME NEW S, S \subseteq 1 .. 8
  PROVE  Cardinality(S) = Tally(S, 1) + Tally(S, 2) + Tally(S, 3) + Tally(S, 4)
                            + Tally(S, 5) + Tally(S, 6) + Tally(S, 7) + Tally(S, 8)
<1> DEFINE n(k) == Cardinality(S \cap 1 .. k)
<1>1. \A k \in Nat : n(k) \in Nat /\ n(k + 1) = n(k) + Tally(S, k + 1)
  BY OneMoreCounted
<1>2. n(0) = 0
  <2>1. S \cap 1 .. 0 = {}
    OBVIOUS
  <2> QED
    BY <2>1, FS_EmptySet
<1>3. S \cap 1 .. 8 = S
  OBVIOUS
<1> HIDE DEF n
<1>4. /\ n(1) = n(0) + Tally(S, 1) /\ n(2) = n(1) + Tally(S, 2)
      /\ n(3) = n(2) + Tally(S, 3) /\ n(4) = n(3) + Tally(S, 4)
      /\ n(5) = n(4) + Tally(S, 5) /\ n(6) = n(5) + Tally(S, 6)
      /\ n(7) = n(6) + Tally(S, 7) /\ n(8) = n(7) + Tally(S, 8)
  <2>1. \A k \in 0 .. 7 : n(k + 1) = n(k) + Tally(S, k + 1)
    BY <1>1
  <2> QED
    BY <2>1
<1>5. n(8) = Cardinality(S)
  BY <1>3 DEF n
<1> QED
  BY <1>1, <1>2, <1>4, <1>5 DEF Tally

\* What the twelve signs have together.
Around(f) == f[0] + f[1] + f[2] + f[3] + f[4] + f[5] + f[6] + f[7] + f[8] + f[9] + f[10] + f[11]

PerSign == [0 .. 11 -> Int]

\* From whichever sign they are counted, each distance is met once around the circle.
LEMMA RowTurns ==
  ASSUME NEW B, NEW s \in 0 .. 11
  PROVE  Around([sign \in 0 .. 11 |-> Tally(B, ((sign - s) % 12) + 1)]) = RowLength(B)
<1>1. \A x \in 1 .. 12 : Tally(B, x) \in Int
  BY DEF Tally
<1>2. \A j \in 0 .. 11 : ((j - s) % 12) + 1 = IF j >= s THEN j - s + 1 ELSE j - s + 13
  BY SMT
<1>3. s \in Int /\ 0 <= s /\ s <= 11
  OBVIOUS
<1>4. /\ ((0 - s) % 12) + 1 = IF 0 >= s THEN 0 - s + 1 ELSE 0 - s + 13
      /\ ((1 - s) % 12) + 1 = IF 1 >= s THEN 1 - s + 1 ELSE 1 - s + 13
      /\ ((2 - s) % 12) + 1 = IF 2 >= s THEN 2 - s + 1 ELSE 2 - s + 13
      /\ ((3 - s) % 12) + 1 = IF 3 >= s THEN 3 - s + 1 ELSE 3 - s + 13
      /\ ((4 - s) % 12) + 1 = IF 4 >= s THEN 4 - s + 1 ELSE 4 - s + 13
      /\ ((5 - s) % 12) + 1 = IF 5 >= s THEN 5 - s + 1 ELSE 5 - s + 13
      /\ ((6 - s) % 12) + 1 = IF 6 >= s THEN 6 - s + 1 ELSE 6 - s + 13
      /\ ((7 - s) % 12) + 1 = IF 7 >= s THEN 7 - s + 1 ELSE 7 - s + 13
      /\ ((8 - s) % 12) + 1 = IF 8 >= s THEN 8 - s + 1 ELSE 8 - s + 13
      /\ ((9 - s) % 12) + 1 = IF 9 >= s THEN 9 - s + 1 ELSE 9 - s + 13
      /\ ((10 - s) % 12) + 1 = IF 10 >= s THEN 10 - s + 1 ELSE 10 - s + 13
      /\ ((11 - s) % 12) + 1 = IF 11 >= s THEN 11 - s + 1 ELSE 11 - s + 13
  BY <1>2
<1> QED
  BY <1>1, <1>3, <1>4, SMTT(60) DEF RowLength, Around

\* It is a sum.
LEMMA AroundAdds ==
  ASSUME NEW f \in PerSign, NEW h \in PerSign
  PROVE  /\ [sign \in 0 .. 11 |-> f[sign] + h[sign]] \in PerSign
         /\ Around([sign \in 0 .. 11 |-> f[sign] + h[sign]]) = Around(f) + Around(h)
         /\ Around(f) \in Int
<1> DEFINE s == [sign \in 0 .. 11 |-> f[sign] + h[sign]]
<1>1. \A sign \in 0 .. 11 : f[sign] \in Int /\ h[sign] \in Int
  BY DEF PerSign
<1>2. s \in PerSign /\ \A sign \in 0 .. 11 : s[sign] = f[sign] + h[sign]
  BY <1>1 DEF PerSign
<1> HIDE DEF s
<1>3. Around(s) = Around(f) + Around(h) /\ Around(f) \in Int
  BY <1>1, <1>2 DEF Around
<1> QED
  BY <1>2, <1>3 DEF s

\* And what they have of eight parts.
LEMMA AroundEight ==
  ASSUME NEW f \in [1 .. 8 -> PerSign], NEW h \in PerSign,
         \A sign \in 0 .. 11 :
           h[sign] = f[1][sign] + f[2][sign] + f[3][sign] + f[4][sign]
                       + f[5][sign] + f[6][sign] + f[7][sign] + f[8][sign]
  PROVE  Around(h) = Around(f[1]) + Around(f[2]) + Around(f[3]) + Around(f[4])
                       + Around(f[5]) + Around(f[6]) + Around(f[7]) + Around(f[8])
<1>1. \A i \in 1 .. 8 : f[i] \in PerSign
  OBVIOUS
<1> DEFINE p2 == [sign \in 0 .. 11 |-> f[1][sign] + f[2][sign]]
           p3 == [sign \in 0 .. 11 |-> p2[sign] + f[3][sign]]
           p4 == [sign \in 0 .. 11 |-> p3[sign] + f[4][sign]]
           p5 == [sign \in 0 .. 11 |-> p4[sign] + f[5][sign]]
           p6 == [sign \in 0 .. 11 |-> p5[sign] + f[6][sign]]
           p7 == [sign \in 0 .. 11 |-> p6[sign] + f[7][sign]]
           p8 == [sign \in 0 .. 11 |-> p7[sign] + f[8][sign]]
<1>2. p2 \in PerSign /\ Around(p2) = Around(f[1]) + Around(f[2])
  BY <1>1, AroundAdds
<1>3. p3 \in PerSign /\ Around(p3) = Around(p2) + Around(f[3])
  <2> HIDE DEF p2
  <2> QED
    BY <1>1, <1>2, AroundAdds
<1>4. p4 \in PerSign /\ Around(p4) = Around(p3) + Around(f[4])
  <2> HIDE DEF p3
  <2> QED
    BY <1>1, <1>3, AroundAdds
<1>5. p5 \in PerSign /\ Around(p5) = Around(p4) + Around(f[5])
  <2> HIDE DEF p4
  <2> QED
    BY <1>1, <1>4, AroundAdds
<1>6. p6 \in PerSign /\ Around(p6) = Around(p5) + Around(f[6])
  <2> HIDE DEF p5
  <2> QED
    BY <1>1, <1>5, AroundAdds
<1>7. p7 \in PerSign /\ Around(p7) = Around(p6) + Around(f[7])
  <2> HIDE DEF p6
  <2> QED
    BY <1>1, <1>6, AroundAdds
<1>8. p8 \in PerSign /\ Around(p8) = Around(p7) + Around(f[8])
  <2> HIDE DEF p7
  <2> QED
    BY <1>1, <1>7, AroundAdds
<1>9. h = p8
  <2>1. \A sign \in 0 .. 11 : h[sign] = p8[sign]
    OBVIOUS
  <2>2. h = [sign \in 0 .. 11 |-> h[sign]] /\ p8 = [sign \in 0 .. 11 |-> p8[sign]]
    BY DEF PerSign
  <2> HIDE DEF p8
  <2> QED
    BY <2>1, <2>2
<1>10. \A i \in 1 .. 8 : Around(f[i]) \in Int
  BY <1>1, AroundAdds
<1> HIDE DEF p2, p3, p4, p5, p6, p7, p8
<1> QED
  BY <1>2, <1>3, <1>4, <1>5, <1>6, <1>7, <1>8, <1>9, <1>10

\* The contributors stand in signs.
LEMMA ContributorsStand ==
  ASSUME VedicTypeOK, Computed, NEW i \in 1 .. 8
  PROVE  ContributorSign(Contributor[i]) \in 0 .. 11
<1>1. /\ Contributor[1] = "Sun" /\ Contributor[2] = "Moon" /\ Contributor[3] = "Mars"
      /\ Contributor[4] = "Mercury" /\ Contributor[5] = "Jupiter" /\ Contributor[6] = "Venus"
      /\ Contributor[7] = "Saturn" /\ Contributor[8] = "Lagna"
  BY DEF Contributor
<1>2. Contributor[i] \in Graha \cup {"Lagna"}
  BY <1>1 DEF Graha, Placed, Seven
<1>3. CASE Contributor[i] = "Lagna"
  <2>1. 1 \in Divisor \ {30} /\ "Sun" \in Graha
    BY DEF Divisor, Graha, Placed, Seven
  <2>2. LagnaSign(1) \in 0 .. 11
    BY <2>1, SignsInADivision
  <2> QED
    BY <1>3, <2>2 DEF ContributorSign
<1>4. CASE Contributor[i] # "Lagna"
  <2>1. Rashi(Contributor[i]) \in Longitudes
    BY <1>2, <1>4, GrahasArePlaced
  <2>2. signOf(Rashi(Contributor[i])) \in 0 .. 11
    BY <2>1, SignsShareTheCircle
  <2> QED
    BY <1>4, <2>2 DEF ContributorSign
<1> QED
  BY <1>3, <1>4

\* The bindus of a planet with a table of n distances are n.
LEMMA BindusOfTable ==
  ASSUME VedicTypeOK, Computed, NEW g \in Seven, NEW n, RowsOf(avBenefic[g], n)
  PROVE  /\ [sign \in 0 .. 11 |-> Bhinn(g, sign)] \in PerSign
         /\ Around([sign \in 0 .. 11 |-> Bhinn(g, sign)]) = n
<1> DEFINE r == avBenefic[g]
           c(i) == ContributorSign(Contributor[i])
           T(sign) == {i \in 1 .. 8 : \E d \in r[i] : (c(i) + d - 1) % 12 = sign}
           b == [i \in 1 .. 8 |-> [sign \in 0 .. 11 |-> Tally(r[i], ((sign - c(i)) % 12) + 1)]]
           h == [sign \in 0 .. 11 |-> Bhinn(g, sign)]
<1>1. \A i \in 1 .. 8 : c(i) \in 0 .. 11 /\ r[i] \subseteq 1 .. 12
  BY ContributorsStand DEF RowsOf
<1>2. ASSUME NEW sign \in 0 .. 11, NEW i \in 1 .. 8 PROVE Tally(T(sign), i) = b[i][sign]
  <2> DEFINE k == c(i)
             x == ((sign - k) % 12) + 1
  <2>1. k \in 0 .. 11 /\ r[i] \subseteq 1 .. 12
    BY <1>1
  <2> HIDE DEF k
  <2>2. x \in 1 .. 12 /\ (k + x - 1) % 12 = sign
    BY <2>1, SMT
  <2>3. \A d \in 1 .. 12 : (k + d - 1) % 12 = sign => d = x
    BY <2>1, SMT
  <2>4. i \in T(sign) <=> \E d \in r[i] : (k + d - 1) % 12 = sign
    BY DEF k
  <2>5. b[i][sign] = Tally(r[i], x)
    BY DEF k
  <2> HIDE DEF x, T, r, b
  <2>6. i \in T(sign) <=> x \in r[i]
    BY <2>1, <2>2, <2>3, <2>4
  <2> QED
    BY <2>5, <2>6 DEF Tally
<1>3. ASSUME NEW i \in 1 .. 8 PROVE b[i] \in PerSign /\ Around(b[i]) = RowLength(r[i])
  <2>1. c(i) \in 0 .. 11
    BY <1>1
  <2>2. b[i] = [sign \in 0 .. 11 |-> Tally(r[i], ((sign - c(i)) % 12) + 1)]
    OBVIOUS
  <2> HIDE DEF b, c, r
  <2>3. b[i] \in PerSign
    BY <2>2 DEF PerSign, Tally
  <2> QED
    BY <2>1, <2>2, <2>3, RowTurns
<1>4. b \in [1 .. 8 -> PerSign]
  <2>1. \A i \in 1 .. 8 : b[i] \in PerSign
    BY <1>3
  <2>2. b = [i \in 1 .. 8 |-> b[i]]
    OBVIOUS
  <2> HIDE DEF b
  <2> QED
    BY <2>1, <2>2
<1>5. ASSUME NEW sign \in 0 .. 11
      PROVE  h[sign] = b[1][sign] + b[2][sign] + b[3][sign] + b[4][sign]
                         + b[5][sign] + b[6][sign] + b[7][sign] + b[8][sign]
  <2>1. h[sign] = Cardinality(T(sign)) /\ T(sign) \subseteq 1 .. 8
    BY DEF Bhinn
  <2> HIDE DEF T, b, h
  <2>2. Cardinality(T(sign)) = Tally(T(sign), 1) + Tally(T(sign), 2) + Tally(T(sign), 3)
          + Tally(T(sign), 4) + Tally(T(sign), 5) + Tally(T(sign), 6) + Tally(T(sign), 7)
          + Tally(T(sign), 8)
    BY <2>1, EightCounted
  <2> QED
    BY <1>2, <2>1, <2>2
<1>6. h \in PerSign
  <2>1. h = [sign \in 0 .. 11 |-> h[sign]]
    OBVIOUS
  <2>2. \A sign \in 0 .. 11, i \in 1 .. 8 : b[i][sign] \in Int
    BY <1>3 DEF PerSign
  <2> HIDE DEF b, h
  <2> QED
    BY <1>5, <2>1, <2>2 DEF PerSign
<1>7. Around(h) = Around(b[1]) + Around(b[2]) + Around(b[3]) + Around(b[4])
                    + Around(b[5]) + Around(b[6]) + Around(b[7]) + Around(b[8])
  <2> HIDE DEF b, h
  <2> QED
    BY <1>4, <1>5, <1>6, AroundEight
<1>8. n = RowLength(r[1]) + RowLength(r[2]) + RowLength(r[3]) + RowLength(r[4])
            + RowLength(r[5]) + RowLength(r[6]) + RowLength(r[7]) + RowLength(r[8])
  BY DEF RowsOf, RowsTogether
<1>9. Around(h) = n
  <2> HIDE DEF b, h, r
  <2> QED
    BY <1>3, <1>7, <1>8
<1> QED
  BY <1>6, <1>9

\* Each planet gets its number, and a sign those of the seven planets.
LEMMA BindusConstant == VedicTypeOK => BindusAreConstant
<1> SUFFICES ASSUME VedicTypeOK, Computed PROVE BindusAreConstant
  BY Zenon DEF BindusAreConstant
<1> DEFINE number == [Sun |-> 48, Moon |-> 49, Mars |-> 39, Mercury |-> 54, Jupiter |-> 56,
                      Venus |-> 52, Saturn |-> 39]
           order == <<"Sun", "Moon", "Mars", "Mercury", "Jupiter", "Venus", "Saturn">>
           b(g) == [sign \in 0 .. 11 |-> Bhinn(g, sign)]
           f == [i \in 1 .. 8 |-> IF i = 8 THEN [sign \in 0 .. 11 |-> 0] ELSE b(order[i])]
           h == [sign \in 0 .. 11 |-> Sarva(sign)]
<1>1. ASSUME NEW g \in Seven PROVE RowsOf(avBenefic[g], number[g])
  BY SunRows, MoonRows, MarsRows, MercuryRows, JupiterRows, VenusRows, SaturnRows DEF Seven
<1>2. ASSUME NEW g \in Seven PROVE b(g) \in PerSign /\ Around(b(g)) = number[g]
  <2> HIDE DEF number
  <2> QED
    BY <1>1, BindusOfTable
<1>3. \A i \in 1 .. 7 : order[i] \in Seven
  BY DEF Seven
<1>4. f[8] \in PerSign /\ Around(f[8]) = 0
  BY DEF PerSign, Around
<1>5. \A i \in 1 .. 7 : f[i] = b(order[i])
  OBVIOUS
<1>6. f \in [1 .. 8 -> PerSign]
  <2>1. \A i \in 1 .. 8 : i = 8 \/ i \in 1 .. 7
    OBVIOUS
  <2>2. f = [i \in 1 .. 8 |-> f[i]]
    OBVIOUS
  <2> HIDE DEF f, b, order
  <2> QED
    BY <1>2, <1>3, <1>4, <1>5, <2>1, <2>2
<1>7. h \in PerSign
  <2>1. \A g \in Seven, sign \in 0 .. 11 : Bhinn(g, sign) \in Int
    BY <1>2 DEF PerSign
  <2> QED
    BY <2>1 DEF Sarva, Seven, PerSign
<1>8. ASSUME NEW sign \in 0 .. 11
      PROVE  h[sign] = f[1][sign] + f[2][sign] + f[3][sign] + f[4][sign]
                         + f[5][sign] + f[6][sign] + f[7][sign] + f[8][sign]
  <2>1. \A i \in 1 .. 7 : f[i][sign] = Bhinn(order[i], sign)
    BY <1>5
  <2>2. f[8][sign] = 0 /\ h[sign] = Sarva(sign)
    OBVIOUS
  <2>3. \A g \in Seven : Bhinn(g, sign) \in Int
    <3> HIDE DEF number
    <3> QED
      BY <1>2 DEF PerSign
  <2>4. /\ order[1] = "Sun" /\ order[2] = "Moon" /\ order[3] = "Mars" /\ order[4] = "Mercury"
        /\ order[5] = "Jupiter" /\ order[6] = "Venus" /\ order[7] = "Saturn"
    OBVIOUS
  <2> HIDE DEF f, h, order
  <2> QED
    BY <2>1, <2>2, <2>3, <2>4 DEF Sarva, Seven
<1>9. Around(h) = Around(f[1]) + Around(f[2]) + Around(f[3]) + Around(f[4])
                    + Around(f[5]) + Around(f[6]) + Around(f[7]) + Around(f[8])
  <2> HIDE DEF f, h
  <2> QED
    BY <1>6, <1>7, <1>8, AroundEight
<1>10. /\ Around(f[1]) = 48 /\ Around(f[2]) = 49 /\ Around(f[3]) = 39 /\ Around(f[4]) = 54
       /\ Around(f[5]) = 56 /\ Around(f[6]) = 52 /\ Around(f[7]) = 39
  <2>1. \A i \in 1 .. 7 : Around(f[i]) = number[order[i]]
    BY <1>2, <1>3, <1>5
  <2> HIDE DEF f
  <2> QED
    BY <2>1
<1>11. Around(h) = 337
  <2> HIDE DEF f, h
  <2> QED
    BY <1>4, <1>9, <1>10
<1>12. \A g \in Seven : Around(b(g)) = number[g]
  BY <1>2
<1> QED
  BY <1>11, <1>12, Zenon DEF BindusAreConstant, Around

-----------------------------------------------------------------------------
\* The five together.
LEMMA VedicChartHolds ==
  VedicTypeOK => /\ VargasAgree /\ ChartCoheres /\ BindusAreConstant
                 /\ YogasAreSound /\ OnlyMoonAndMarsSuffice
BY DivisionsAgree, ChartsCohere, BindusConstant, YogasSound, FiveNeverSuffice

-----------------------------------------------------------------------------
(* The western chart *)

NatalTypeOK ==
  /\ planets \in [DOMAIN planets -> Longitudes]
  /\ DOMAIN planets # {} =>
       \E first \in FirstCusp, offset \in Offset :
         cusps = [i \in 1 .. 12 |-> normalize360(first + offset[i])]

\* Before a western chart is computed there are no planets.
LEMMA NatalInitial == NatalInit => NatalTypeOK
<1> SUFFICES ASSUME NatalInit PROVE NatalTypeOK
  OBVIOUS
<1>1. planets = <<>> /\ DOMAIN planets = {}
  BY SMT DEF NatalInit
<1> QED
  BY <1>1 DEF NatalTypeOK

\* Computing it places some, and twelve cusps around the circle.
LEMMA NatalStep == NatalTypeOK /\ [NatalNext]_natalVars => NatalTypeOK'
<1> SUFFICES ASSUME NatalTypeOK, [NatalNext]_natalVars PROVE NatalTypeOK'
  OBVIOUS
<1>1. CASE UNCHANGED natalVars
  BY <1>1 DEF natalVars, NatalTypeOK
<1>2. ASSUME NEW first \in FirstCusp, NEW offset \in Offset, NEW places \in Place,
             ComputeNatalChart(first, offset, places)
      PROVE  NatalTypeOK'
  BY <1>2, NatalAssumption DEF ComputeNatalChart, NatalTypeOK, Longitudes
<1>3. ASSUME NEW p \in {"Sun", "Moon"}, Later(p) PROVE NatalTypeOK'
  <2>1. planets[p] \in Longitudes /\ p \in DOMAIN planets
    BY <1>3 DEF Later, NatalTypeOK
  <2> DEFINE turned == normalize360(planets[p] + 22 * Degree + 504)
  <2>2. turned \in Longitudes
    <3>1. turned = (planets[p] + 22680) % 362880 /\ planets[p] \in Int
      BY <2>1, LongitudeBounds, Spans, SMT DEF normalize360
    <3>2. turned \in Int /\ 0 <= turned /\ turned < 362880
      BY <3>1, SMT
    <3> QED
      BY <3>2, IsLongitude
  <2>3. planets' = [planets EXCEPT ![p] = turned] /\ cusps' = cusps
    BY <1>3 DEF Later
  <2> HIDE DEF turned
  <2> QED
    BY <2>1, <2>2, <2>3 DEF NatalTypeOK
<1> QED
  BY <1>1, <1>2, <1>3 DEF NatalNext

\* A house is an arc that is counted from the first cusp.
LEMMA HouseIsArc ==
  ASSUME NEW c \in Int, NEW x \in Int, 0 <= x, x < 362880,
         NEW a \in Int, NEW b \in Int, 0 <= a, a < b, b <= 362880, b - a < 362880
  PROVE  LET lon == (c + x) % 362880
             start == (c + a) % 362880
             end == (c + b) % 362880
         IN (IF start <= end THEN lon >= start /\ lon < end ELSE lon >= start \/ lon < end)
              <=> a <= x /\ x < b
BY SMT

\* A longitude is some arc past the first cusp.
LEMMA AroundTheCircle ==
  ASSUME NEW c \in Int, NEW lon \in Int, 0 <= lon, lon < 362880, NEW x, x = (lon - c) % 362880
  PROVE  x \in Int /\ 0 <= x /\ x < 362880 /\ (c + x) % 362880 = lon
<1> DEFINE k == (lon - c) \div 362880
<1>1. k \in Int /\ x = lon - c - 362880 * k /\ 0 <= x /\ x < 362880
  BY SMT
<1> HIDE DEF k
<1> QED
  BY <1>1, SMT

\* The cusps follow one another.
LEMMA OffsetsGrow ==
  ASSUME NEW o \in Offset
  PROVE  /\ o[1] = 0
         /\ \A i \in 1 .. 12 : o[i] \in Int /\ 0 <= o[i] /\ o[i] < 362880
         /\ \A i \in 1 .. 12, j \in 1 .. 12 : i < j => o[i] < o[j]
<1>1. /\ o[1] = 0 /\ \A i \in 1 .. 12 : o[i] \in Longitudes
      /\ \A i \in 1 .. 11 : o[i] < o[i + 1]
  BY NatalAssumption DEF Longitudes
<1>2. \A i \in 1 .. 12 : o[i] \in Int /\ 0 <= o[i] /\ o[i] < 362880
  BY <1>1, LongitudeBounds
<1>3. /\ o[1] < o[2] /\ o[2] < o[3] /\ o[3] < o[4] /\ o[4] < o[5] /\ o[5] < o[6]
      /\ o[6] < o[7] /\ o[7] < o[8] /\ o[8] < o[9] /\ o[9] < o[10] /\ o[10] < o[11]
      /\ o[11] < o[12]
  <2>1. \A i \in 1 .. 11 : o[i] < o[i + 1]
    BY <1>1
  <2> QED
    BY <2>1, SMT
<1>4. \A i \in 1 .. 12, j \in 1 .. 12 : i < j => o[i] < o[j]
  BY <1>2, <1>3, SMT
<1> QED
  BY <1>1, <1>2, <1>4

\* So every longitude is in one house (NatalAssumption says the cusps are in order).
LEMMA HouseIsOne == NatalTypeOK => OneHouseHolds
<1> SUFFICES ASSUME NatalTypeOK, NEW p \in DOMAIN planets
             PROVE  LET since(i) == normalize360(planets[p] - cusps[i])
                        house == houseForLongitude(planets[p]) IN
                    /\ {i \in 1 .. 12 : InHouse(planets[p], i)} = {house}
                    /\ \A i \in 1 .. 12 : since(house) <= since(i)
  BY DEF OneHouseHolds
<1> DEFINE lon == planets[p]
<1>1. PICK first \in FirstCusp, o \in Offset :
        cusps = [i \in 1 .. 12 |-> normalize360(first + o[i])]
  BY DEF NatalTypeOK
<1>2. lon \in Int /\ 0 <= lon /\ lon < 362880 /\ lon \in Longitudes /\ first \in Int
  BY LongitudeBounds, NatalAssumption DEF NatalTypeOK
<1>3. /\ o[1] = 0
      /\ \A i \in 1 .. 12 : o[i] \in Int /\ 0 <= o[i] /\ o[i] < 362880
      /\ \A i \in 1 .. 12, j \in 1 .. 12 : i < j => o[i] < o[j]
  BY OffsetsGrow
<1> DEFINE x == (lon - first) % 362880
           next(i) == IF i = 12 THEN 362880 ELSE o[i + 1]
<1>4. x \in Int /\ 0 <= x /\ x < 362880 /\ (first + x) % 362880 = lon
  <2> HIDE DEF lon
  <2> QED
    BY <1>2, AroundTheCircle, SMT
<1>5. \A i \in 1 .. 12 : cusps[i] = (first + o[i]) % 362880
  BY <1>1, Spans, SMT DEF normalize360
<1>6. ASSUME NEW i \in 1 .. 12
      PROVE  InHouse(lon, i) <=> o[i] <= x /\ x < next(i)
  <2>1. /\ next(i) \in Int /\ o[i] \in Int /\ 0 <= o[i]
        /\ o[i] < next(i) /\ next(i) <= 362880 /\ next(i) - o[i] < 362880
    <3>1. CASE i = 12
      <4>1. o[12] \in Int /\ 0 < o[12] /\ o[12] < 362880
        BY <1>3, SMT
      <4> QED
        BY <3>1, <4>1, SMT
    <3>2. CASE i # 12
      <4>1. i + 1 \in 1 .. 12 /\ i < i + 1
        BY <3>2, SMT
      <4>2. /\ o[i] \in Int /\ 0 <= o[i] /\ o[i] < o[i + 1]
            /\ o[i + 1] \in Int /\ o[i + 1] < 362880
        BY <1>3, <4>1
      <4> QED
        BY <3>2, <4>2, SMT
    <3> QED
      BY <3>1, <3>2
  <2>2. cusps[(i % 12) + 1] = (first + next(i)) % 362880
    <3>1. CASE i = 12
      <4>1. cusps[(i % 12) + 1] = first % 362880
        BY <3>1, <1>2, <1>3, <1>5, SMT
      <4> QED
        BY <3>1, <4>1, <1>2, SMT
    <3>2. CASE i # 12
      <4>1. i + 1 \in 1 .. 12 /\ (i % 12) + 1 = i + 1
        BY <3>2, SMT
      <4> QED
        BY <3>2, <4>1, <1>5
    <3> QED
      BY <3>1, <3>2
  <2>3. InHouse(lon, i) <=>
          LET start == (first + o[i]) % 362880
              end == (first + next(i)) % 362880
          IN IF start <= end THEN lon >= start /\ lon < end ELSE lon >= start \/ lon < end
    <3>1. cusps[i] % 362880 = cusps[i] /\ cusps[(i % 12) + 1] % 362880 = cusps[(i % 12) + 1]
      BY <1>2, <1>5, <2>1, <2>2, SMT
    <3> QED
      BY <3>1, <1>5, <2>2, Spans, SMT DEF InHouse, normalize360
  <2> HIDE DEF lon, x, next
  <2> QED
    BY <1>2, <1>4, <2>1, <2>3, HouseIsArc, SMT
<1>7. PICK h \in 1 .. 12 : o[h] <= x /\ x < next(h)
  <2> HIDE DEF lon, x
  <2>1. \A i \in 1 .. 12 : o[i] \in Int
    BY <1>3
  <2> QED
    BY <1>3, <1>4, <2>1, SMT
<1>8. \A i \in 1 .. 12 : o[i] <= x => o[i] <= o[h]
  <2> HIDE DEF lon, x
  <2> QED
    BY <1>3, <1>4, <1>7, SMT
<1>9. \A i \in 1 .. 12 : o[i] <= x /\ x < next(i) <=> i = h
  <2> HIDE DEF lon, x
  <2> QED
    BY <1>3, <1>4, <1>7, SMT
<1>10. {i \in 1 .. 12 : InHouse(lon, i)} = {h}
  BY <1>6, <1>9
<1>11. houseForLongitude(lon) = h
  <2>1. normalize360(lon) = lon
    BY <1>2, SignsShareTheCircle
  <2>2. Min({h}) = h
    BY SMT DEF Min
  <2> QED
    BY <1>10, <2>1, <2>2 DEF houseForLongitude
<1>12. ASSUME NEW i \in 1 .. 12
       PROVE  normalize360(lon - cusps[h]) <= normalize360(lon - cusps[i])
  <2>1. \A j \in 1 .. 12 :
          normalize360(lon - cusps[j]) = IF o[j] <= x THEN x - o[j] ELSE x - o[j] + 362880
    <3> SUFFICES ASSUME NEW j \in 1 .. 12
                 PROVE  normalize360(lon - cusps[j]) = IF o[j] <= x THEN x - o[j] ELSE x - o[j] + 362880
      OBVIOUS
    <3>1. o[j] \in Int /\ 0 <= o[j] /\ o[j] < 362880
      BY <1>3
    <3>2. cusps[j] \in Int /\ (first + o[j]) % 362880 = cusps[j]
      BY <1>2, <1>5, <3>1, SMT
    <3> HIDE DEF x, lon
    <3> QED
      <4>1. normalize360(lon - cusps[j]) = (lon - cusps[j]) % 362880
        BY Spans, SMT DEF normalize360
      <4> QED
        BY <1>2, <1>4, <3>1, <3>2, <4>1, SMT
  <2> HIDE DEF x, lon
  <2> QED
    BY <1>3, <1>4, <1>7, <1>8, <2>1, SMT
<1> QED
  BY <1>10, <1>11, <1>12

\* The distance of two longitudes is the same from both ends, half the circle at most.
LEMMA DistanceIsMutual ==
  ASSUME NEW a \in Longitudes, NEW b \in Longitudes
  PROVE  /\ angularDistance(a, b) = angularDistance(b, a)
         /\ angularDistance(a, b) \in Int
         /\ 0 <= angularDistance(a, b) /\ angularDistance(a, b) <= 181440
<1>1. a \in Int /\ b \in Int /\ 0 <= a /\ a < 362880 /\ 0 <= b /\ b < 362880
  BY LongitudeBounds, SMT
<1> QED
  BY <1>1, Spans, SMT DEF angularDistance, normalize360

\* The aspects' orbs are apart.
LEMMA OrbsAreApart ==
  ASSUME NEW d \in Int, NEW i \in 1 .. 6, NEW j \in 1 .. 6,
         AbsOf(d - majorAspects[i][2] * Degree) <= majorAspects[i][3] * Degree,
         AbsOf(d - majorAspects[j][2] * Degree) <= majorAspects[j][3] * Degree
  PROVE  i = j
<1> DEFINE angle(k) == majorAspects[k][2]
           orb(k) == majorAspects[k][3]
<1>1. /\ angle(1) = 0   /\ angle(2) = 60  /\ angle(3) = 90
      /\ angle(4) = 120 /\ angle(5) = 180 /\ angle(6) = 150
      /\ orb(1) = 8 /\ orb(2) = 6 /\ orb(3) = 8 /\ orb(4) = 8 /\ orb(5) = 10 /\ orb(6) = 3
  BY SMT DEF majorAspects
<1> HIDE DEF angle, orb
<1>2. /\ AbsOf(d - angle(i) * 1008) <= orb(i) * 1008
      /\ AbsOf(d - angle(j) * 1008) <= orb(j) * 1008
  BY Spans, SMT DEF angle, orb
<1> QED
  BY <1>1, <1>2, SMT DEF AbsOf

\* A set whose elements are equal has one at most.
LEMMA AtMostOne ==
  ASSUME NEW S, IsFiniteSet(S), \A i, j \in S : i = j PROVE Cardinality(S) <= 1
<1>1. Cardinality(S) \in Nat /\ ~ (Cardinality(S) >= 2)
  BY FS_CardinalityType, NotTwoElements
<1> QED
  BY <1>1, SMT

\* So two planets have one aspect at most, the same from both ends.
LEMMA AspectsAreMutual ==
  ASSUME NatalTypeOK, NEW a \in DOMAIN planets, NEW b \in DOMAIN planets
  PROVE  Cardinality(Matches(a, b)) <= 1 /\ AspectOf(a, b) = AspectOf(b, a)
<1>1. planets[a] \in Longitudes /\ planets[b] \in Longitudes
  BY DEF NatalTypeOK
<1>2. /\ angularDistance(planets[a], planets[b]) = angularDistance(planets[b], planets[a])
      /\ angularDistance(planets[a], planets[b]) \in Int
  BY <1>1, DistanceIsMutual
<1>3. Matches(a, b) = Matches(b, a)
  BY <1>2 DEF Matches
<1>4. \A i, j \in Matches(a, b) : i = j
  BY <1>2, OrbsAreApart DEF Matches
<1>5. IsFiniteSet(Matches(a, b))
  <2>1. IsFiniteSet({1, 2, 3} \cup {4, 5, 6})
    BY FewElements, FS_Union
  <2>2. Matches(a, b) \subseteq {1, 2, 3} \cup {4, 5, 6}
    BY SMT DEF Matches
  <2> QED
    BY <2>1, <2>2, FS_Subset
<1> QED
  BY <1>3, <1>4, <1>5, AtMostOne DEF AspectOf

\* A share is within half a unit of the exact one.
LEMMA ShareIsNear ==
  ASSUME NEW n \in Nat, NEW total \in Nat \ {0}
  PROVE  /\ Share(n, total) \in Int
         /\ (2 * total) * Share(n, total) <= 20000 * n + total
         /\ 20000 * n + total < (2 * total) * Share(n, total) + 2 * total
<1>1. 2 * total \in Int /\ 2 * total > 0 /\ 20000 * n + total \in Int
  BY SMT
<1> QED
  BY <1>1, Quotient, SMT DEF Share

\* Four rounded shares of a whole are within two hundredths of it.
LEMMA SharesAddUp ==
  ASSUME NEW n \in Nat, NEW m \in Nat, NEW k \in Nat, NEW l \in Nat, NEW total \in Nat \ {0},
         n + m + k + l = total
  PROVE  NearWhole(Share(n, total) + Share(m, total) + Share(k, total) + Share(l, total))
<1> DEFINE a == Share(n, total)
           b == Share(m, total)
           c == Share(k, total)
           d == Share(l, total)
           sum == a + b + c + d
<1>1. /\ a \in Int
      /\ (2 * total) * a <= 20000 * n + total /\ 20000 * n + total < (2 * total) * a + 2 * total
  BY ShareIsNear
<1>2. /\ b \in Int
      /\ (2 * total) * b <= 20000 * m + total /\ 20000 * m + total < (2 * total) * b + 2 * total
  BY ShareIsNear
<1>3. /\ c \in Int
      /\ (2 * total) * c <= 20000 * k + total /\ 20000 * k + total < (2 * total) * c + 2 * total
  BY ShareIsNear
<1>4. /\ d \in Int
      /\ (2 * total) * d <= 20000 * l + total /\ 20000 * l + total < (2 * total) * d + 2 * total
  BY ShareIsNear
<1> HIDE DEF a, b, c, d
<1>5. (2 * total) * sum = (2 * total) * a + (2 * total) * b + (2 * total) * c + (2 * total) * d
  BY <1>1, <1>2, <1>3, <1>4, SMT
<1>6. /\ (2 * total) * sum <= (2 * total) * 10002
      /\ (2 * total) * 9998 < (2 * total) * sum
      /\ sum \in Int
  BY <1>1, <1>2, <1>3, <1>4, <1>5, SMT
<1> HIDE DEF sum
<1>7. sum <= 10002 /\ 9998 < sum
  BY <1>6, SMT
<1>8. NearWhole(sum)
  BY <1>6, <1>7, SMT DEF NearWhole, AbsOf
<1> QED
  BY <1>8 DEF sum, a, b, c, d

\* Counting parts counts the whole.
LEMMA DisjointUnion ==
  ASSUME NEW S, NEW T, IsFiniteSet(S), IsFiniteSet(T), S \cap T = {}
  PROVE  /\ IsFiniteSet(S \cup T)
         /\ Cardinality(S) \in Nat /\ Cardinality(T) \in Nat
         /\ Cardinality(S \cup T) = Cardinality(S) + Cardinality(T)
<1>1. Cardinality(S \cup T) = Cardinality(S) + Cardinality(T) - Cardinality(S \cap T)
  BY FS_Union
<1>2. Cardinality(S \cap T) = 0 /\ Cardinality(S) \in Nat /\ Cardinality(T) \in Nat
  BY FS_EmptySet, FS_CardinalityType
<1> QED
  BY <1>1, <1>2, FS_Union, SMT

\* The elements share the planets out, each in one sign of one element.
LEMMA ElementsShareThePlanets ==
  ASSUME NatalTypeOK, Traditional \cap DOMAIN planets # {}
  PROVE  LET e == calculateElements
         IN NearWhole(e.fire + e.earth + e.air + e.water)
<1> DEFINE counted == Traditional \cap DOMAIN planets
           of(e) == {p \in counted : ElementOf(planets[p]) = e}
           total == Cardinality(counted)
<1>1. IsFiniteSet(counted)
  <2>1. IsFiniteSet({"Sun", "Moon", "Mercury"} \cup {"Venus", "Mars", "Jupiter"} \cup {"Saturn"})
    BY FewElements, FS_AddElement, FS_Union
  <2>2. counted \subseteq {"Sun", "Moon", "Mercury"} \cup {"Venus", "Mars", "Jupiter"} \cup {"Saturn"}
    BY DEF Traditional
  <2> QED
    BY <2>1, <2>2, FS_Subset
<1>2. \A p \in counted : ElementOf(planets[p]) \in {"fire", "earth", "air", "water"}
  <2> SUFFICES ASSUME NEW p \in counted PROVE ElementOf(planets[p]) \in {"fire", "earth", "air", "water"}
    OBVIOUS
  <2>1. signOf(planets[p]) \in 0 .. 11
    BY SignsShareTheCircle DEF NatalTypeOK
  <2>2. signOf(planets[p]) % 4 \in 0 .. 3
    BY <2>1, SMT
  <2> QED
    BY <2>2, SMT DEF ElementOf
<1> HIDE DEF counted
<1>3. \A e : IsFiniteSet(of(e))
  BY <1>1, FS_Subset
<1>4. /\ counted = (of("fire") \cup of("earth")) \cup (of("air") \cup of("water"))
      /\ of("fire") \cap of("earth") = {} /\ of("air") \cap of("water") = {}
      /\ (of("fire") \cup of("earth")) \cap (of("air") \cup of("water")) = {}
  BY <1>2
<1>5. total \in Nat \ {0}
  BY <1>1, FS_EmptySet, FS_CardinalityType, SMT DEF counted
<1>6. calculateElements = [e \in {"fire", "earth", "air", "water"} |-> Share(Cardinality(of(e)), total)]
  BY DEF calculateElements, counted
<1> HIDE DEF of, total
<1>7. /\ Cardinality(of("fire")) \in Nat /\ Cardinality(of("earth")) \in Nat
      /\ Cardinality(of("air")) \in Nat /\ Cardinality(of("water")) \in Nat
      /\ Cardinality(of("fire")) + Cardinality(of("earth"))
           + Cardinality(of("air")) + Cardinality(of("water")) = total
  <2>1. /\ IsFiniteSet(of("fire") \cup of("earth"))
        /\ Cardinality(of("fire") \cup of("earth")) = Cardinality(of("fire")) + Cardinality(of("earth"))
        /\ Cardinality(of("fire")) \in Nat /\ Cardinality(of("earth")) \in Nat
    BY <1>3, <1>4, DisjointUnion
  <2>2. /\ IsFiniteSet(of("air") \cup of("water"))
        /\ Cardinality(of("air") \cup of("water")) = Cardinality(of("air")) + Cardinality(of("water"))
        /\ Cardinality(of("air")) \in Nat /\ Cardinality(of("water")) \in Nat
    BY <1>3, <1>4, DisjointUnion
  <2>3. total = Cardinality(of("fire") \cup of("earth")) + Cardinality(of("air") \cup of("water"))
    BY <1>4, <2>1, <2>2, DisjointUnion DEF total
  <2> QED
    BY <2>1, <2>2, <2>3, SMT
<1>8. NearWhole(Share(Cardinality(of("fire")), total) + Share(Cardinality(of("earth")), total)
                  + Share(Cardinality(of("air")), total) + Share(Cardinality(of("water")), total))
  BY <1>5, <1>7, SharesAddUp
<1> QED
  BY <1>6, <1>8

\* Aspects and shares of every western chart.
LEMMA ChartSums == NatalTypeOK => ChartAddsUp
BY AspectsAreMutual, ElementsShareThePlanets DEF ChartAddsUp

-----------------------------------------------------------------------------
(* Transits *)

Places == 0 .. Round - 1

\* The units of the transits: two to a degree.
LEMMA UnitsOfTheWalk == Round = 720 /\ Degrees(180) = 360 /\ Degrees(90) = 180 /\ Degrees(30) = 60
BY SMT DEF Round, Degrees

\* A place is within the circle of these units.
LEMMA PlaceBounds ==
  /\ \A lon \in Places : lon \in Int /\ 0 <= lon /\ lon < 720
  /\ \A lon \in Int : lon % Round \in Places
<1>1. Round \in Int /\ Round > 0 /\ Round = 720
  BY UnitsOfTheWalk, SMT
<1>2. \A lon \in Places : lon \in Int /\ 0 <= lon /\ lon <= Round - 1
  BY <1>1 DEF Places
<1>3. \A lon \in Int : lon % Round \in Int /\ 0 <= lon % Round /\ lon % Round <= Round - 1
  BY <1>1, SMT
<1> QED
  BY <1>1, <1>2, <1>3, SMT DEF Places

TransitTypeOK ==
  /\ day \in Nat
  /\ body \in [place : Places, speed : {-1, 1}]
  /\ moon \in [ahead : Places, gain : MoonGain]
  /\ seenAspect \in [(DOMAIN Natal) \X Aspect -> Int]
  /\ told.lunation.day \in Nat

ExactIsTold(point, angle) ==
  LET exact == (longitudeFromPlacement(Natal[point]) + Degrees(angle)) % Round
      aspect == CHOOSE a \in Aspect : transitAspectAngles[a] \in {angle, 360 - angle}
  IN day > 0 /\ body.place = exact =>
       /\ seenAspect[<<point, aspect>>] >= 0
       /\ day - seenAspect[<<point, aspect>>] < RepeatDays

\* The list knows the sign the body is in and the way it goes; an exact aspect was told.
BodyIsTold ==
  /\ Read(today).sign = signIndexFromLongitude(body.place)
  /\ Read(today).retrograde <=> body.speed < 0
  /\ \A point \in DOMAIN Natal, angle \in {0, 60, 90, 120, 180, 240, 270, 300} :
       ExactIsTold(point, angle)

PhaseAt(base) == IF base = 0 THEN "new_moon" ELSE "full_moon"

\* The Moon is x past the last phase told, of the days since then at least a gain each, and
\* was less than half the circle past it the day before.
MoonIsTold ==
  \E base \in {0, 360}, x \in Int :
    LET d == day - told.lunation.day
        g == moon.gain
    IN /\ moon.ahead = (base + x) % 720
       /\ told.lunation.day <= day
       /\ d * g <= x /\ x < 360 + g
       /\ d = 0 => x < 360
       /\ told.lunation.phase \in {"none", PhaseAt(base)}
       /\ told.lunation.phase # "none" => d >= 1 /\ x < d * g + g
       /\ {e \in today : e.type = "lunation"}
            = IF d >= 1 /\ x >= 360
              THEN {[type |-> "lunation", phase |-> PhaseAt(360 - base)]} ELSE {}

TransitInv == TransitTypeOK /\ BodyIsTold /\ MoonIsTold

-----------------------------------------------------------------------------
\* The Moon gains a quarter of the circle a day at most.
LEMMA MoonGains ==
  ASSUME NEW g \in MoonGain PROVE g \in Int /\ 1 <= g /\ g <= 180
BY TransitAssumption, UnitsOfTheWalk, SMT

\* A phase is found on the day the Moon passes it and on no other, in either half of the circle
\* (crossesZero, with its wrap check, on deltas that normalizeSignedDelta wraps).
LEMMA PhaseCrossed ==
  ASSUME NEW base \in {0, 360}, NEW x \in Int, NEW g \in Int, 1 <= g, g <= 180,
         g <= x, x < 360 + g, NEW old, NEW new,
         old.ahead = (base + x - g) % 720, new.ahead = (base + x) % 720
  PROVE  Lunations(old, new)
           = IF x >= 360 THEN {[type |-> "lunation", phase |-> PhaseAt(360 - base)]} ELSE {}
<1> DEFINE a == old.ahead
           b == new.ahead
           a0 == normalizeSignedDelta(a)
           b0 == normalizeSignedDelta(b)
           crossed(p) == IF p = "new_moon" THEN crossesZero(a0, b0)
                         ELSE crossesZero(FullDelta(a0), FullDelta(b0))
           phases == {p \in {"new_moon", "full_moon"} : crossed(p)}
<1>1. a = (base + x - g) % 720 /\ b = (base + x) % 720
  OBVIOUS
<1>2. Lunations(old, new) = {[type |-> "lunation", phase |-> p] : p \in phases}
  BY DEF Lunations
<1> HIDE DEF a, b
<1>3. /\ a \in Int /\ b \in Int
      /\ a0 = (IF a % 720 > 360 THEN (a % 720) - 720 ELSE a % 720)
      /\ b0 = (IF b % 720 > 360 THEN (b % 720) - 720 ELSE b % 720)
  BY <1>1, UnitsOfTheWalk, SMT DEF normalizeSignedDelta
<1> HIDE DEF a0, b0
<1>4. /\ a0 \in Int /\ b0 \in Int
      /\ FullDelta(a0) = (IF (a0 - 360) % 720 > 360 THEN ((a0 - 360) % 720) - 720 ELSE (a0 - 360) % 720)
      /\ FullDelta(b0) = (IF (b0 - 360) % 720 > 360 THEN ((b0 - 360) % 720) - 720 ELSE (b0 - 360) % 720)
  BY <1>3, UnitsOfTheWalk, SMT DEF FullDelta, normalizeSignedDelta
<1>5. crossesZero(a0, b0) <=> x >= 360 /\ base = 360
  BY <1>1, <1>3, UnitsOfTheWalk, SMT DEF crossesZero, Abs
<1>6. crossesZero(FullDelta(a0), FullDelta(b0)) <=> x >= 360 /\ base = 0
  BY <1>1, <1>3, <1>4, UnitsOfTheWalk, SMT DEF crossesZero, Abs
<1>7. phases = IF x >= 360 THEN {PhaseAt(360 - base)} ELSE {}
  BY <1>5, <1>6, SMT DEF PhaseAt
<1> QED
  BY <1>2, <1>7

\* The sign of a day with one ingress.
LEMMA LargestOfOne == ASSUME NEW n \in Int PROVE Max({n}) = n
BY SMT DEF Max

\* An aspect that is exact is within the orb, in whatever part of the circle.
LEMMA ExactIsInOrb ==
  ASSUME NEW point \in DOMAIN Natal, NEW angle \in {0, 60, 90, 120, 180, 240, 270, 300},
         NEW lon, lon = (longitudeFromPlacement(Natal[point]) + Degrees(angle)) % Round
  PROVE  LET aspect == CHOOSE a \in Aspect : transitAspectAngles[a] \in {angle, 360 - angle}
         IN aspect \in Aspect /\ OrbOf(lon, point, aspect) <= aspectOrb
<1> DEFINE aspect == CHOOSE a \in Aspect : transitAspectAngles[a] \in {angle, 360 - angle}
           natal == longitudeFromPlacement(Natal[point])
<1>1. \E a \in Aspect : transitAspectAngles[a] \in {angle, 360 - angle}
  BY SMT DEF Aspect, transitAspectAngles
<1>2. aspect \in Aspect /\ transitAspectAngles[aspect] \in {angle, 360 - angle}
  BY <1>1
<1>3. natal \in Int /\ 0 <= natal /\ natal < 720
  <2>1. Natal[point] \in [sign : 0 .. 11, degree : 0 .. Degrees(30) - 1]
    BY TransitAssumption
  <2>2. /\ Natal[point].sign \in 0 .. 11 /\ Natal[point].degree \in Int
        /\ 0 <= Natal[point].degree /\ Natal[point].degree < 60
    BY <2>1, UnitsOfTheWalk, SMT
  <2> QED
    BY <2>2, UnitsOfTheWalk, SMT DEF longitudeFromPlacement
<1> DEFINE t == transitAspectAngles[aspect]
<1>4. t \in Int /\ 0 <= t /\ t <= 180 /\ t \in {angle, 360 - angle}
  BY <1>2, SMT DEF Aspect, transitAspectAngles
<1>5. lon = (natal + 2 * angle) % 720 /\ aspectOrb = 2
  BY UnitsOfTheWalk, SMT DEF Degrees, aspectOrb
<1>6. OrbOf(lon, point, aspect) = angularOrb(lon, natal, 2 * t)
  BY DEF OrbOf, Degrees
<1> HIDE DEF natal, t
<1>7. angularOrb(lon, natal, 2 * t) <= 2
  BY <1>3, <1>4, <1>5, UnitsOfTheWalk, SMT DEF angularOrb, Abs, Degrees
<1> QED
  BY <1>2, <1>5, <1>6, <1>7

\* On the first day nothing is told, and the Moon is somewhere past new or full.
LEMMA TransitInitial == TransitInit => TransitInv
<1> SUFFICES ASSUME TransitInit PROVE TransitInv
  OBVIOUS
<1>1. TransitTypeOK
  BY TransitAssumption DEF TransitInit, TransitTypeOK, Places
<1>2. BodyIsTold
  <2>1. today = {} /\ day = 0
    BY DEF TransitInit
  <2>2. Read(today).sign = told.sign /\ Read(today).retrograde = told.retrograde
    BY <2>1 DEF Read
  <2>3. told.sign = signIndexFromLongitude(body.place) /\ (told.retrograde <=> body.speed < 0)
    BY DEF TransitInit
  <2>4. ~ (day > 0)
    BY <2>1, SMT
  <2> QED
    BY <2>2, <2>3, <2>4 DEF BodyIsTold, ExactIsTold
<1>3. MoonIsTold
  <2>1. moon.ahead \in Int /\ 0 <= moon.ahead /\ moon.ahead < 720
    BY <1>1, PlaceBounds DEF TransitTypeOK
  <2>2. moon.gain \in Int /\ 1 <= moon.gain
    BY <1>1, MoonGains DEF TransitTypeOK
  <2>3. /\ day = 0 /\ today = {} /\ told.lunation.phase = "none" /\ told.lunation.day = 0
    BY DEF TransitInit
  <2>4. PICK base \in {0, 360}, x \in Int : moon.ahead = (base + x) % 720 /\ 0 <= x /\ x < 360
    <3>1. CASE moon.ahead < 360
      <4>1. moon.ahead = (0 + moon.ahead) % 720
        BY <2>1, <3>1, SMT
      <4> QED
        BY <2>1, <3>1, <4>1
    <3>2. CASE ~ (moon.ahead < 360)
      <4>1. moon.ahead = (360 + (moon.ahead - 360)) % 720 /\ 0 <= moon.ahead - 360 /\ moon.ahead - 360 < 360
            /\ moon.ahead - 360 \in Int
        BY <2>1, <3>2, SMT
      <4> QED
        BY <4>1
    <3> QED
      BY <3>1, <3>2
  <2>5. (day - told.lunation.day) = 0 /\ 0 * moon.gain = 0 /\ x < 360 + moon.gain
    BY <2>2, <2>3, <2>4, SMT
  <2>6. {e \in today : e.type = "lunation"} = {}
    BY <2>3
  <2> QED
    BY <2>2, <2>3, <2>4, <2>5, <2>6, SMT DEF MoonIsTold
<1> QED
  BY <1>1, <1>2, <1>3 DEF TransitInv

\* What a day leaves in the list.
LEMMA DayIsTold ==
  ASSUME TransitTypeOK, NEW v \in {-1, 1}, NextDay(v)
  PROVE  /\ {e \in today' : e.type = "ingress"} = Ingresses(body, body')
         /\ {e \in today' : e.type = "retrograde"} = Stations(body, body')
         /\ {e \in today' : e.type = "lunation"} = Lunations(moon, moon')
<1> DEFINE K == Told(day + 1, body')
<1>1. today' = Ingresses(body, body') \cup Stations(body, body') \cup Lunations(moon, moon')
                 \cup {[type |-> "aspect", key |-> k] : k \in K}
  BY DEF NextDay
<1> HIDE DEF K
<1>2. \A e \in Ingresses(body, body') : e.type = "ingress"
  BY DEF Ingresses
<1>3. \A e \in Stations(body, body') : e.type = "retrograde"
  BY DEF Stations
<1>4. \A e \in Lunations(moon, moon') : e.type = "lunation"
  BY DEF Lunations
<1>5. \A e \in {[type |-> "aspect", key |-> k] : k \in K} : e.type = "aspect"
  OBVIOUS
<1> QED
  BY <1>1, <1>2, <1>3, <1>4, <1>5

\* A day keeps the types.
LEMMA TypesNextDay ==
  ASSUME TransitTypeOK, NEW v \in {-1, 1}, NextDay(v)
  PROVE  TransitTypeOK'
<1>1. /\ body.place \in Int /\ moon.ahead \in Int /\ moon.gain \in Int
  BY PlaceBounds, MoonGains DEF TransitTypeOK
<1>2. day' = day + 1 /\ day' \in Nat
  BY SMT DEF NextDay, TransitTypeOK
<1>3. body' \in [place : Places, speed : {-1, 1}]
  <2>1. body.place + v + Round \in Int
    BY <1>1, UnitsOfTheWalk, SMT
  <2> QED
    BY <2>1, PlaceBounds DEF NextDay
<1>4. moon' \in [ahead : Places, gain : MoonGain]
  <2>1. (moon.ahead + moon.gain) % Round \in Places
    BY <1>1, PlaceBounds, SMT
  <2> QED
    BY <2>1 DEF NextDay, TransitTypeOK
<1>5. seenAspect' \in [(DOMAIN Natal) \X Aspect -> Int]
  <2>1. day + 1 \in Int
    BY SMT DEF TransitTypeOK
  <2> QED
    BY <2>1 DEF NextDay, TransitTypeOK
<1>6. told'.lunation.day \in Nat
  <2>1. told' = Read(today)
    BY DEF NextDay
  <2>2. Read(today).lunation.day \in {told.lunation.day, day}
    BY DEF Read
  <2> QED
    BY <2>1, <2>2 DEF TransitTypeOK
<1> QED
  BY <1>2, <1>3, <1>4, <1>5, <1>6 DEF TransitTypeOK

\* A day keeps what the list tells of the body: a change of sign or of direction is an event,
\* and an aspect that becomes exact was told that day or within the repeat time before it.
LEMMA BodyNextDay ==
  ASSUME TransitTypeOK, BodyIsTold, NEW v \in {-1, 1}, NextDay(v)
  PROVE  BodyIsTold'
<1>1. /\ told' = Read(today) /\ day' = day + 1
      /\ body' = [place |-> (body.place + v + Round) % Round, speed |-> v]
  BY DEF NextDay
<1>2. /\ {e \in today' : e.type = "ingress"} = Ingresses(body, body')
      /\ {e \in today' : e.type = "retrograde"} = Stations(body, body')
  BY DayIsTold
<1>3. signIndexFromLongitude(body'.place) \in Int
  <2>1. body'.place \in Int
    BY TypesNextDay, PlaceBounds DEF TransitTypeOK
  <2> QED
    BY <2>1, UnitsOfTheWalk, SMT DEF signIndexFromLongitude
<1>4. Read(today)'.sign = signIndexFromLongitude(body'.place)
  <2> DEFINE old == signIndexFromLongitude(body.place)
             new == signIndexFromLongitude(body'.place)
             signs == {e.sign : e \in Ingresses(body, body')}
  <2>1. Read(today)'.sign = IF signs = {} THEN told'.sign ELSE Max(signs)
    BY <1>2 DEF Read
  <2>2. told'.sign = old
    BY <1>1 DEF BodyIsTold
  <2>3. CASE old = new
    <3>1. signs = {}
      BY <2>3 DEF Ingresses
    <3> QED
      BY <2>1, <2>2, <2>3, <3>1
  <2>4. CASE old # new
    <3>1. signs = {new}
      BY <2>4 DEF Ingresses
    <3> QED
      BY <1>3, <2>1, <3>1, LargestOfOne
  <2> QED
    BY <2>3, <2>4
<1>5. Read(today)'.retrograde <=> body'.speed < 0
  <2> DEFINE phases == {e.phase : e \in Stations(body, body')}
  <2>1. Read(today)'.retrograde = IF phases = {} THEN told'.retrograde ELSE phases = {"retrograde"}
    BY <1>2 DEF Read
  <2>2. told'.retrograde <=> body.speed < 0
    BY <1>1 DEF BodyIsTold
  <2>3. body.speed \in {-1, 1} /\ body'.speed \in {-1, 1}
    BY <1>1 DEF TransitTypeOK
  <2>4. CASE body.speed = body'.speed
    <3>1. phases = {}
      BY <2>4 DEF Stations
    <3> QED
      BY <2>1, <2>2, <2>4, <3>1
  <2>5. CASE body.speed = 1 /\ body'.speed = -1
    <3>1. body.speed >= 0 /\ ~ (body'.speed >= 0) /\ body'.speed < 0
      BY <2>5, SMT
    <3>2. Stations(body, body') = {[type |-> "retrograde", phase |-> "retrograde"]}
      BY <3>1 DEF Stations
    <3>3. phases = {"retrograde"}
      BY <3>2
    <3> QED
      BY <2>1, <3>1, <3>3
  <2>6. CASE body.speed = -1 /\ body'.speed = 1
    <3>1. ~ (body.speed >= 0) /\ body'.speed >= 0 /\ ~ (body'.speed < 0)
      BY <2>6, SMT
    <3>2. Stations(body, body') = {[type |-> "retrograde", phase |-> "direct"]}
      BY <3>1 DEF Stations
    <3>3. phases = {"direct"}
      BY <3>2
    <3> QED
      BY <2>1, <3>1, <3>3
  <2> QED
    BY <2>3, <2>4, <2>5, <2>6
<1>6. ASSUME NEW point \in DOMAIN Natal, NEW angle \in {0, 60, 90, 120, 180, 240, 270, 300}
      PROVE  ExactIsTold(point, angle)'
  <2> SUFFICES ASSUME body'.place = (longitudeFromPlacement(Natal[point]) + Degrees(angle)) % Round
               PROVE  LET aspect == CHOOSE a \in Aspect : transitAspectAngles[a] \in {angle, 360 - angle}
                      IN /\ seenAspect'[<<point, aspect>>] >= 0
                         /\ day' - seenAspect'[<<point, aspect>>] < RepeatDays
    BY DEF ExactIsTold
  <2> DEFINE aspect == CHOOSE a \in Aspect : transitAspectAngles[a] \in {angle, 360 - angle}
             k == <<point, aspect>>
  <2>1. aspect \in Aspect /\ OrbOf(body'.place, point, aspect) <= aspectOrb
    BY ExactIsInOrb
  <2> HIDE DEF aspect
  <2>2. k \in (DOMAIN Natal) \X Aspect /\ k[1] = point /\ k[2] = aspect
    BY <2>1
  <2>3. seenAspect'[k] = IF k \in Told(day + 1, body') THEN day + 1 ELSE seenAspect[k]
    BY <1>1, <2>2 DEF NextDay, TransitTypeOK
  <2>4. k \in Told(day + 1, body') \/ ~ (seenAspect[k] >= 0 => (day + 1) - seenAspect[k] >= RepeatDays)
    BY <2>1, <2>2 DEF Told
  <2>5. day \in Nat /\ seenAspect[k] \in Int /\ RepeatDays \in Nat \ {0} /\ day' = day + 1
    BY <1>1, <2>2, TransitAssumption DEF TransitTypeOK
  <2> HIDE DEF k
  <2>6. seenAspect'[k] >= 0 /\ day' - seenAspect'[k] < RepeatDays
    BY <2>3, <2>4, <2>5, SMT
  <2> QED
    BY <2>6 DEF k, aspect
<1> QED
  BY <1>4, <1>5, <1>6 DEF BodyIsTold

\* The day after a phase is told it counts from that phase, and otherwise from the one before.
LEMMA MoonNextDay ==
  ASSUME TransitTypeOK, MoonIsTold, NEW v \in {-1, 1}, NextDay(v)
  PROVE  MoonIsTold'
<1> DEFINE g == moon.gain
           d == day - told.lunation.day
           past(p) == {[type |-> "lunation", phase |-> p]}
           news == {e \in today : e.type = "lunation"}
<1>1. PICK base \in {0, 360}, x \in Int :
        /\ moon.ahead = (base + x) % 720
        /\ told.lunation.day <= day
        /\ d * g <= x /\ x < 360 + g
        /\ d = 0 => x < 360
        /\ told.lunation.phase \in {"none", PhaseAt(base)}
        /\ told.lunation.phase # "none" => d >= 1 /\ x < d * g + g
        /\ news = IF d >= 1 /\ x >= 360 THEN past(PhaseAt(360 - base)) ELSE {}
  BY DEF MoonIsTold
<1>2. g \in Int /\ 1 <= g /\ g <= 180
  BY MoonGains DEF TransitTypeOK
<1>3. day \in Nat /\ told.lunation.day \in Nat /\ d \in Nat
  BY <1>1, SMT DEF TransitTypeOK
<1>4. day' = day + 1 /\ told' = Read(today) /\ moon' = [moon EXCEPT !.ahead = (@ + g) % Round]
  BY DEF NextDay
<1>5. moon'.ahead = (moon.ahead + g) % 720 /\ moon'.gain = g
  BY <1>4, UnitsOfTheWalk, SMT DEF TransitTypeOK
<1>6. {e \in today' : e.type = "lunation"} = Lunations(moon, moon')
  BY DayIsTold
<1>7. Read(today).lunation
        = LET p == {e.phase : e \in news}
          IN IF p = {} THEN told.lunation ELSE [phase |-> CHOOSE q \in p : TRUE, day |-> day]
  BY DEF Read
<1>8. 0 <= d * g /\ 0 <= x /\ x < 540 /\ d * g \in Int
  BY <1>1, <1>2, <1>3, SMT
<1>9. /\ (moon.ahead + g) % 720 = (base + (x + g)) % 720
      /\ moon.ahead = (base + (x + g) - g) % 720
      /\ (moon.ahead + g) % 720 = ((360 - base) + (x - 360 + g)) % 720
      /\ moon.ahead = ((360 - base) + (x - 360 + g) - g) % 720
  <2> DEFINE ahead == moon.ahead
  <2>1. ahead = (base + x) % 720 /\ base \in {0, 360}
    BY <1>1
  <2> HIDE DEF ahead, g, d
  <2>2. /\ (ahead + g) % 720 = (base + (x + g)) % 720
        /\ ahead = (base + (x + g) - g) % 720
        /\ (ahead + g) % 720 = ((360 - base) + (x - 360 + g)) % 720
        /\ ahead = ((360 - base) + (x - 360 + g) - g) % 720
    BY <2>1, <1>2, <1>8, SMT
  <2> QED
    BY <2>2 DEF ahead
<1>10. CASE d >= 1 /\ x >= 360
  <2> DEFINE nb == 360 - base
             nx == x - 360 + g
             nd == day' - told'.lunation.day
  <2>1. told'.lunation = [phase |-> PhaseAt(nb), day |-> day]
    <3>1. {e.phase : e \in news} = {PhaseAt(nb)}
      <4>1. news = past(PhaseAt(nb))
        BY <1>1, <1>10
      <4> HIDE DEF news, nb
      <4> QED
        BY <4>1
    <3>2. (CHOOSE q \in {PhaseAt(nb)} : TRUE) = PhaseAt(nb)
      OBVIOUS
    <3> QED
      BY <1>4, <1>7, <3>1, <3>2
  <2>2. nb \in {0, 360} /\ nx \in Int /\ g <= nx /\ nx < 2 * g /\ nx < 360 + g
    BY <1>1, <1>2, <1>10, SMT
  <2>3. nd = 1 /\ nd * g = g /\ told'.lunation.day <= day'
    BY <1>2, <1>3, <1>4, <2>1, SMT
  <2>4. moon'.ahead = (nb + nx) % 720 /\ moon.ahead = (nb + nx - g) % 720
    BY <1>5, <1>9
  <2>5. Lunations(moon, moon') = IF nx >= 360 THEN past(PhaseAt(360 - nb)) ELSE {}
    <3> HIDE DEF nb, nx, g, d, news
    <3>1. nb \in {0, 360} /\ nx \in Int /\ g <= nx /\ nx < 360 + g
      BY <2>2
    <3> QED
      BY <1>2, <3>1, <2>4, PhaseCrossed
  <2>6. /\ moon'.ahead = (nb + nx) % 720
        /\ told'.lunation.day <= day'
        /\ nd * moon'.gain <= nx /\ nx < 360 + moon'.gain
        /\ nd = 0 => nx < 360
        /\ told'.lunation.phase \in {"none", PhaseAt(nb)}
        /\ told'.lunation.phase # "none" => nd >= 1 /\ nx < nd * moon'.gain + moon'.gain
        /\ {e \in today' : e.type = "lunation"}
             = IF nd >= 1 /\ nx >= 360 THEN past(PhaseAt(360 - nb)) ELSE {}
    <3> HIDE DEF nb, nx, nd, g
    <3>1. nd >= 1 /\ ~ (nd = 0)
      BY <2>3, SMT
    <3>2. nd * moon'.gain = g /\ nx < g + g
      BY <1>2, <1>5, <2>2, <2>3, SMT
    <3> QED
      BY <1>5, <1>6, <2>1, <2>2, <2>3, <2>4, <2>5, <3>1, <3>2
  <2> HIDE DEF nb, nx
  <2> QED
    BY <2>2, <2>6 DEF MoonIsTold
<1>11. CASE ~ (d >= 1 /\ x >= 360)
  <2> DEFINE nx == x + g
             nd == day' - told'.lunation.day
  <2>1. news = {} /\ told'.lunation = told.lunation
    <3>1. news = {}
      BY <1>1, <1>11
    <3>2. {e.phase : e \in news} = {}
      BY <3>1
    <3> QED
      BY <1>4, <1>7, <3>1, <3>2
  <2>2. x < 360 /\ nx \in Int /\ nx < 360 + g
    BY <1>1, <1>2, <1>3, <1>11, SMT
  <2>3. nd = d + 1 /\ nd * g = d * g + g /\ nd * g <= nx /\ g <= nx
    <3>1. nd = d + 1
      BY <1>3, <1>4, <2>1, SMT
    <3>2. d * g <= x
      BY <1>1
    <3> HIDE DEF nd, d, g
    <3>3. nd * g = d * g + g
      BY <1>2, <1>3, <3>1, SMT
    <3> QED
      BY <1>2, <1>8, <3>1, <3>2, <3>3, SMT
  <2>4. moon'.ahead = (base + nx) % 720 /\ moon.ahead = (base + nx - g) % 720
    BY <1>5, <1>9
  <2>5. Lunations(moon, moon') = IF nx >= 360 THEN past(PhaseAt(360 - base)) ELSE {}
    <3> DEFINE nb == base
    <3>1. /\ nb \in {0, 360} /\ nx \in Int /\ g <= nx /\ nx < 360 + g
          /\ moon'.ahead = (nb + nx) % 720 /\ moon.ahead = (nb + nx - g) % 720
      BY <2>2, <2>3, <2>4
    <3> HIDE DEF nb, nx, nd, g, d, news
    <3>2. Lunations(moon, moon') = IF nx >= 360 THEN past(PhaseAt(360 - nb)) ELSE {}
      BY <1>2, <3>1, PhaseCrossed
    <3> QED
      BY <3>2 DEF nb
  <2>6. /\ moon'.ahead = (base + nx) % 720
        /\ told'.lunation.day <= day'
        /\ nd * moon'.gain <= nx /\ nx < 360 + moon'.gain
        /\ nd = 0 => nx < 360
        /\ told'.lunation.phase \in {"none", PhaseAt(base)}
        /\ told'.lunation.phase # "none" => nd >= 1 /\ nx < nd * moon'.gain + moon'.gain
        /\ {e \in today' : e.type = "lunation"}
             = IF nd >= 1 /\ nx >= 360 THEN past(PhaseAt(360 - base)) ELSE {}
    <3>1. nd >= 1 /\ ~ (nd = 0) /\ told'.lunation.day <= day'
      BY <1>1, <1>3, <1>4, <2>1, <2>3, SMT
    <3>2. told.lunation.phase # "none" => nx < nd * g + g
      BY <1>1, <1>2, <1>8, <2>2, <2>3, SMT
    <3> HIDE DEF nx, nd, g
    <3> QED
      BY <1>1, <1>5, <1>6, <2>1, <2>2, <2>3, <2>4, <2>5, <3>1, <3>2
  <2> HIDE DEF nx
  <2> QED
    BY <2>2, <2>6 DEF MoonIsTold
<1> QED
  BY <1>10, <1>11

\* Every step keeps the invariant of the walk.
LEMMA TransitStep == TransitInv /\ [TransitNext]_transitVars => TransitInv'
<1> SUFFICES ASSUME TransitInv, [TransitNext]_transitVars PROVE TransitInv'
  OBVIOUS
<1>1. CASE UNCHANGED transitVars
  <2>1. TransitTypeOK'
    BY <1>1 DEF transitVars, TransitInv, TransitTypeOK
  <2>2. BodyIsTold'
    <3>1. /\ day' = day /\ body' = body /\ seenAspect' = seenAspect
          /\ today' = today /\ told' = told
      BY <1>1 DEF transitVars
    <3>2. Read(today)' = Read(today)
      BY <3>1 DEF Read
    <3>3. ASSUME NEW point \in DOMAIN Natal, NEW angle \in {0, 60, 90, 120, 180, 240, 270, 300}
          PROVE  ExactIsTold(point, angle)'
      <4>1. ExactIsTold(point, angle)
        BY DEF TransitInv, BodyIsTold
      <4> QED
        BY <3>1, <4>1, Zenon DEF ExactIsTold
    <3>4. body'.place = body.place /\ body'.speed = body.speed
      BY <3>1
    <3>5. Read(today)'.sign = signIndexFromLongitude(body.place)'
      BY <3>2, <3>4, Zenon DEF TransitInv, BodyIsTold
    <3>6. Read(today)'.retrograde <=> (body.speed < 0)'
      BY <3>2, <3>4, Zenon DEF TransitInv, BodyIsTold
    <3> QED
      BY <3>3, <3>5, <3>6, Zenon DEF BodyIsTold
  <2>3. MoonIsTold'
    <3>1. day' = day /\ moon' = moon /\ today' = today /\ told' = told
      BY <1>1 DEF transitVars
    <3> QED
      BY <3>1 DEF TransitInv, MoonIsTold
  <2> QED
    BY <2>1, <2>2, <2>3 DEF TransitInv
<1>2. ASSUME NEW v \in {-1, 1}, NextDay(v) PROVE TransitInv'
  BY <1>2, TypesNextDay, BodyNextDay, MoonNextDay DEF TransitInv
<1> QED
  BY <1>1, <1>2 DEF TransitNext

\* What the invariant says of the Moon bounds the days from one phase to the next.
LEMMA MoonsAlternate == TransitInv => LunationsAlternate
<1> SUFFICES ASSUME TransitInv PROVE LunationsAlternate
  OBVIOUS
<1> DEFINE g == moon.gain
           d == day - told.lunation.day
           news == {e \in today : e.type = "lunation"}
           half(n) == (Degrees(180) + moon.gain * n) \div moon.gain
<1>1. PICK base \in {0, 360}, x \in Int :
        /\ told.lunation.day <= day
        /\ d * g <= x /\ x < 360 + g
        /\ told.lunation.phase \in {"none", PhaseAt(base)}
        /\ told.lunation.phase # "none" => d >= 1 /\ x < d * g + g
        /\ news = IF d >= 1 /\ x >= 360
                  THEN {[type |-> "lunation", phase |-> PhaseAt(360 - base)]} ELSE {}
  BY DEF TransitInv, MoonIsTold
<1>2. g \in Int /\ 1 <= g /\ g <= 180
  BY MoonGains DEF TransitInv, TransitTypeOK
<1>3. d \in Nat /\ d * g \in Int
  BY <1>1, <1>2, SMT DEF TransitInv, TransitTypeOK
<1>4. half(-1) = (360 - g) \div g /\ half(1) = (360 + g) \div g
  BY <1>2, UnitsOfTheWalk, SMT
<1>5. d <= half(1)
  <2> DEFINE q == (360 + g) \div g
  <2>1. q \in Int /\ 360 + g < g * q + g
    BY <1>2, Quotient, SMT
  <2> HIDE DEF q
  <2>2. d * g < (q + 1) * g
    BY <1>1, <1>2, <1>3, <2>1, SMT
  <2>3. d < q + 1
    BY <1>2, <1>3, <2>1, <2>2, SMT
  <2> QED
    BY <1>3, <1>4, <2>1, <2>3, SMT DEF q
<1>6. Cardinality(news) <= 1
  <2>1. \E p : news \subseteq {p}
    BY <1>1
  <2>2. PICK p : news \subseteq {p}
    BY <2>1
  <2>3. Cardinality({p}) = 1 /\ IsFiniteSet({p})
    BY FS_Singleton
  <2>4. Cardinality(news) <= Cardinality({p})
    BY <2>2, <2>3, FS_Subset
  <2> QED
    BY <2>3, <2>4
<1>7. ASSUME NEW e \in news
      PROVE  /\ e.phase # told.lunation.phase
             /\ told.lunation.phase # "none" => d >= half(-1)
  <2>1. x >= 360 /\ e.phase = PhaseAt(360 - base)
    BY <1>1
  <2>2. e.phase # told.lunation.phase
    BY <1>1, <2>1, SMT DEF PhaseAt
  <2>3. ASSUME told.lunation.phase # "none" PROVE d >= half(-1)
    <3> DEFINE q == (360 - g) \div g
    <3>1. q \in Int /\ g * q <= 360 - g
      BY <1>2, Quotient, SMT
    <3> HIDE DEF q
    <3>2. q * g < d * g
      BY <1>1, <1>2, <1>3, <2>1, <2>3, <3>1, SMT
    <3>3. q < d
      BY <1>2, <1>3, <3>1, <3>2, SMT
    <3> QED
      BY <1>3, <1>4, <3>1, <3>3, SMT DEF q
  <2> QED
    BY <2>2, <2>3
<1> QED
  BY <1>5, <1>6, <1>7 DEF LunationsAlternate

-----------------------------------------------------------------------------
(* The wheel of the bodygraph *)

\* The places of the wheel.
Spots == 0 .. WheelRound - 1

\* Where on the wheel a gate is, and in which center: the two tables the other way round.
indexOf == <<
  51, 19, 16, 36, 56, 42, 35, 21, 55, 59, 58, 26, 3, 53, 27, 23, 12, 44, 2, 22, 13, 9,
  20, 18, 11, 57, 17, 49, 37, 5, 33, 47, 34, 54, 24, 10, 7, 61, 29, 39, 1, 15, 52, 50,
  25, 43, 41, 45, 4, 48, 14, 28, 30, 62, 6, 32, 46, 60, 38, 64, 63, 31, 8, 40 >>

centerOf == <<
  "G", "G", "Sacral", "Ajna", "Sacral", "SolarPlexus", "G", "Throat", "Sacral", "G",
  "Ajna", "Throat", "G", "Sacral", "G", "Throat", "Ajna", "Spleen", "Root", "Throat",
  "Heart", "SolarPlexus", "Throat", "Ajna", "G", "Heart", "Sacral", "Spleen", "Sacral",
  "SolarPlexus", "Throat", "Spleen", "Throat", "Sacral", "Throat", "SolarPlexus",
  "SolarPlexus", "Root", "Root", "Heart", "Root", "Sacral", "Ajna", "Spleen", "Throat",
  "G", "Ajna", "Spleen", "SolarPlexus", "Spleen", "Heart", "Root", "Root", "Root",
  "SolarPlexus", "Throat", "Spleen", "Root", "Sacral", "Root", "Head", "Throat", "Head",
  "Head" >>

\* The units of the wheel: 192 to a degree.
LEMMA WheelUnits ==
  /\ WheelRound = 69120 /\ gateSpan = 1080 /\ lineSpan = 180 /\ colorSpan = 30
  /\ wheelStartLongitude = 57984 /\ 88 * Unit = 16896 /\ 180 * Unit = 34560
BY SMT DEF WheelRound, gateSpan, lineSpan, colorSpan, toneSpan, wheelStartLongitude, Unit

\* Every gate has one place on the wheel,
LEMMA GateOnceOnWheel ==
  ASSUME NEW i \in 1 .. 64
  PROVE  gateSequence[i] \in 1 .. 64 /\ indexOf[gateSequence[i]] = i
BY SMTT(60) DEF gateSequence, indexOf

\* is listed under one center,
LEMMA GateInCenter ==
  ASSUME NEW g \in 1 .. 64
  PROVE  centerOf[g] \in Center /\ g \in centerGates[centerOf[g]]
BY SMTT(60) DEF centerOf, centerGates, Center

\* and under no other.
LEMMA CenterOfGate ==
  ASSUME NEW c \in Center, NEW g \in centerGates[c]
  PROVE  g \in 1 .. 64 /\ centerOf[g] = c
BY SMTT(60) DEF centerOf, centerGates, Center

\* A channel joins the centers its two gates are listed under.
LEMMA ChannelJoinsCenters ==
  ASSUME NEW ch \in channels
  PROVE  /\ ch[1] \subseteq 1 .. 64
         /\ ch[2] = {centerOf[g] : g \in ch[1]}
BY SMTT(60) DEF channels, centerOf

\* A longitude is a place on the wheel.
LEMMA WheelPlaces ==
  ASSUME NEW lon \in Int, 0 <= lon, lon < 69120
  PROVE  /\ OnWheel(lon) = (lon + 11136) % 69120
         /\ OnWheel(lon) \in Int /\ 0 <= OnWheel(lon) /\ OnWheel(lon) < 69120
BY WheelUnits, SMT DEF OnWheel

\* Gate, line and color of a longitude, with the widths in units.
LEMMA GateAndLine ==
  ASSUME NEW lon \in Int, 0 <= lon, lon < 69120
  PROVE  /\ OnWheel(lon) \div 1080 + 1 \in 1 .. 64
         /\ Gate(lon) = gateSequence[OnWheel(lon) \div 1080 + 1]
         /\ Gate(lon) \in 1 .. 64
         /\ Line(lon) = (OnWheel(lon) % 1080) \div 180 + 1
         /\ Color(lon) = (OnWheel(lon) % 180) \div 30 + 1
<1> DEFINE w == OnWheel(lon)
<1>1. w \in Int /\ 0 <= w /\ w < 69120
  BY WheelPlaces
<1> HIDE DEF w
<1>2. w \div 1080 + 1 \in 1 .. 64
  BY <1>1, SMT
<1>3. Gate(lon) = gateSequence[w \div 1080 + 1]
  BY WheelUnits DEF Gate, w
<1>4. Gate(lon) \in 1 .. 64
  BY <1>2, <1>3, GateOnceOnWheel
<1> QED
  BY <1>2, <1>3, <1>4, WheelUnits DEF Line, Color, w

\* Half the wheel away is the same line and color of the gate 32 places on.
LEMMA HalfTheWheel ==
  ASSUME NEW lon \in Int, 0 <= lon, lon < 69120
  PROVE  /\ Opposite(lon) \in Int /\ 0 <= Opposite(lon) /\ Opposite(lon) < 69120
         /\ Line(Opposite(lon)) = Line(lon)
         /\ Color(Opposite(lon)) = Color(lon)
         /\ (OnWheel(lon) \div 1080 + 32 - OnWheel(Opposite(lon)) \div 1080) % 64 = 0
<1> DEFINE o == Opposite(lon)
           w == OnWheel(lon)
           v == OnWheel(o)
<1>1. o = (lon + 34560) % 69120
  BY WheelUnits DEF Opposite
<1> HIDE DEF o
<1>2. o \in Int /\ 0 <= o /\ o < 69120
  BY <1>1, SMT
<1>3. w = (lon + 11136) % 69120 /\ v = (o + 11136) % 69120
  BY <1>2, WheelPlaces
<1>4. /\ Line(lon) = (w % 1080) \div 180 + 1 /\ Color(lon) = (w % 180) \div 30 + 1
      /\ Line(o) = (v % 1080) \div 180 + 1 /\ Color(o) = (v % 180) \div 30 + 1
  BY <1>2, GateAndLine
<1> HIDE DEF w, v
<1>5. v \in Int /\ w \in Int /\ 0 <= w /\ w < 69120 /\ (v = w + 34560 \/ v = w - 34560)
  BY <1>1, <1>3, SMT
<1>6. v % 180 = w % 180 /\ v % 1080 = w % 1080
  BY <1>5, SMT
<1>7. v \div 1080 = w \div 1080 + 32 \/ v \div 1080 = w \div 1080 - 32
  BY <1>5, SMT
<1>8. (w \div 1080 + 32 - v \div 1080) % 64 = 0
  BY <1>5, <1>7, SMT
<1> QED
  BY <1>2, <1>4, <1>6, <1>8 DEF o, w, v

\* 88 degrees behind is 93 lines and most of a line.
LEMMA DesignIsBehind ==
  ASSUME NEW lon \in Int, 0 <= lon, lon < 69120
  PROVE  /\ DesignSun(lon) \in Int /\ 0 <= DesignSun(lon) /\ DesignSun(lon) < 69120
         /\ (Line(DesignSun(lon)) - Line(lon) + 6) % 6 \in {2, 3}
<1> DEFINE o == DesignSun(lon)
           w == OnWheel(lon)
           v == OnWheel(o)
<1>1. o = (lon - 16896 + 69120) % 69120
  BY WheelUnits DEF DesignSun
<1> HIDE DEF o
<1>2. o \in Int /\ 0 <= o /\ o < 69120
  BY <1>1, SMT
<1>3. w = (lon + 11136) % 69120 /\ v = (o + 11136) % 69120
  BY <1>2, WheelPlaces
<1>4. Line(lon) = (w % 1080) \div 180 + 1 /\ Line(o) = (v % 1080) \div 180 + 1
  BY <1>2, GateAndLine
<1> HIDE DEF w, v
<1>5. v \in Int /\ w \in Int /\ 0 <= w /\ w < 69120 /\ (v = w - 16896 \/ v = w + 52224)
  BY <1>1, <1>3, SMT
<1> DEFINE a == (w % 1080) \div 180
           b == (v % 1080) \div 180
<1>6. ((b + 1) - (a + 1) + 6) % 6 \in {2, 3}
  BY <1>5, SMT
<1> QED
  BY <1>2, <1>4, <1>6 DEF o

\* The four quarters, in the order of the wheel.
LEMMA QuarterOnWheel ==
  ASSUME NEW i \in 1 .. 64
  PROVE  quarterForGate(gateSequence[i])
           = IF i < 3 \/ i >= 49 THEN "Mutation" ELSE IF i < 19 THEN "Initiation"
             ELSE IF i < 35 THEN "Civilization" ELSE "Duality"
<1> DEFINE g == gateSequence[i]
           quarter == IF i < 3 \/ i >= 49 THEN "Mutation" ELSE IF i < 19 THEN "Initiation"
                      ELSE IF i < 35 THEN "Civilization" ELSE "Duality"
<1>1. \A q \in DOMAIN quarterMap : g \in quarterMap[q] <=> q = quarter
  BY SMTT(60) DEF gateSequence, quarterMap
<1>2. quarter \in DOMAIN quarterMap
  BY SMT DEF quarterMap
<1> HIDE DEF g, quarter
<1>3. quarterForGate(g) = quarter
  BY <1>1, <1>2 DEF quarterForGate
<1> QED
  BY <1>3 DEF g, quarter

-----------------------------------------------------------------------------
\* The bodies are on the wheel.
HdTypeOK == Drawn => place \in [Moment -> [hdBodies -> Spots]]

\* At first nothing is drawn,
LEMMA HumanDesignInitial == HumanDesignInit => HdTypeOK
BY DEF HumanDesignInit, HdTypeOK, Drawn

\* and a body is only ever put on the wheel.
LEMMA HumanDesignStep == HdTypeOK /\ [HumanDesignNext]_humanDesignVars => HdTypeOK'
<1> SUFFICES ASSUME HdTypeOK, [HumanDesignNext]_humanDesignVars PROVE HdTypeOK'
  OBVIOUS
<1>1. CASE ComputeBodygraph
  BY <1>1, HumanDesignAssumption DEF ComputeBodygraph, HdTypeOK, Spots
<1>2. ASSUME NEW c \in Moment, NEW b \in hdBodies, NEW lon \in WheelPlace, MoveBody(c, b, lon)
      PROVE  HdTypeOK'
  <2>1. lon \in Spots
    BY HumanDesignAssumption DEF Spots
  <2>2. place \in [Moment -> [hdBodies -> Spots]]
    BY <1>2 DEF MoveBody, HdTypeOK
  <2>3. place' = [place EXCEPT ![c] = [place[c] EXCEPT ![b] = lon]]
    BY <1>2 DEF MoveBody
  <2>4. [place[c] EXCEPT ![b] = lon] \in [hdBodies -> Spots]
    BY <2>1, <2>2
  <2> QED
    BY <2>2, <2>3, <2>4 DEF HdTypeOK
<1>3. CASE UNCHANGED humanDesignVars
  BY <1>3 DEF humanDesignVars, HdTypeOK, Drawn
<1> QED
  BY <1>1, <1>2, <1>3 DEF HumanDesignNext

\* Every body of both charts is on the wheel, the opposite points and the design Sun included.
LEMMA BodiesOnWheel ==
  ASSUME HdTypeOK, Drawn, NEW c \in Moment, NEW b \in Body
  PROVE  LongitudeOf(c, b) \in Int /\ 0 <= LongitudeOf(c, b) /\ LongitudeOf(c, b) < 69120
<1>1. \A m \in Moment, x \in hdBodies :
        place[m][x] \in Int /\ 0 <= place[m][x] /\ place[m][x] < 69120
  <2> SUFFICES ASSUME NEW m \in Moment, NEW x \in hdBodies
               PROVE  place[m][x] \in Int /\ 0 <= place[m][x] /\ place[m][x] < 69120
    OBVIOUS
  <2>1. place[m][x] \in Spots
    BY DEF HdTypeOK
  <2>2. WheelRound \in Int
    BY WheelUnits
  <2>3. place[m][x] \in Int /\ 0 <= place[m][x] /\ place[m][x] < WheelRound
    BY <2>1, <2>2, SMT DEF Spots
  <2> QED
    BY <2>3, WheelUnits
<1>2. "Sun" \in hdBodies /\ "NorthNode" \in hdBodies /\ "birth" \in Moment
  BY DEF hdBodies, Moment
<1> DEFINE sun == place["birth"]["Sun"]
<1>3. /\ DesignSun(sun) \in Int /\ 0 <= DesignSun(sun) /\ DesignSun(sun) < 69120
      /\ Opposite(DesignSun(sun)) \in Int /\ 0 <= Opposite(DesignSun(sun))
      /\ Opposite(DesignSun(sun)) < 69120
  BY <1>1, <1>2, DesignIsBehind, HalfTheWheel
<1>4. \A x \in {"Sun", "NorthNode"} :
        /\ Opposite(place[c][x]) \in Int /\ 0 <= Opposite(place[c][x])
        /\ Opposite(place[c][x]) < 69120
  BY <1>1, <1>2, HalfTheWheel
<1>5. CASE b = "Earth"
  BY <1>3, <1>4, <1>5 DEF LongitudeOf, Moment
<1>6. CASE b = "SouthNode"
  BY <1>4, <1>6 DEF LongitudeOf
<1>7. CASE b \in hdBodies
  BY <1>1, <1>3, <1>7 DEF LongitudeOf, hdBodies
<1> QED
  BY <1>5, <1>6, <1>7 DEF Body

\* The centers of a channel are those of its two gates.
LEMMA TouchedByGates ==
  ASSUME NEW chs, chs \subseteq channels
  PROVE  /\ Touched(chs) = {centerOf[g] : g \in UNION {ch[1] : ch \in chs}}
         /\ UNION {ch[1] : ch \in chs} \subseteq 1 .. 64
         /\ Touched(chs) \subseteq Center
<1>1. \A ch \in chs : ch[1] \subseteq 1 .. 64 /\ ch[2] = {centerOf[g] : g \in ch[1]}
  BY ChannelJoinsCenters
<1>2. \A g \in 1 .. 64 : centerOf[g] \in Center
  BY GateInCenter
<1> QED
  BY <1>1, <1>2 DEF Touched

\* What a chart defines are channels of the table.
LEMMA DefinedAreChannels == definedChannels \subseteq channels
BY DEF definedChannels

\* The table read from the gates and from the centers.
LEMMA CentersOfGates ==
  ASSUME NEW G, G \subseteq 1 .. 64
  PROVE  {centerOf[g] : g \in G} = {c \in Center : centerGates[c] \cap G # {}}
<1>1. ASSUME NEW g \in G PROVE centerOf[g] \in Center /\ centerGates[centerOf[g]] \cap G # {}
  BY GateInCenter
<1>2. ASSUME NEW c \in Center, centerGates[c] \cap G # {} PROVE \E g \in G : centerOf[g] = c
  BY <1>2, CenterOfGate
<1> QED
  BY <1>1, <1>2

\* A gate has one center.
LEMMA OneCenterEach ==
  ASSUME NEW g \in 1 .. 64
  PROVE  Cardinality({c \in Center : g \in centerGates[c]}) = 1
<1>1. {c \in Center : g \in centerGates[c]} = {centerOf[g]}
  BY GateInCenter, CenterOfGate
<1> QED
  BY <1>1, FS_Singleton

\* The active gates are of the 64.
LEMMA GatesDefined ==
  ASSUME HdTypeOK, Drawn PROVE defGates \subseteq 1 .. 64
BY BodiesOnWheel, GateAndLine DEF defGates

-----------------------------------------------------------------------------
(* Centers joined by channels *)

\* No channel leads out of the set.
Closed(chs, S) == \A ch \in chs : ch[2] \cap S = {} \/ ch[2] \subseteq S

\* There are nine centers,
LEMMA NineCenters == IsFiniteSet(Center) /\ Cardinality(Center) <= 9
<1> DEFINE A == {"Head", "Ajna", "Throat"}
           B == {"G", "Heart", "Sacral"}
           C == {"SolarPlexus", "Spleen", "Root"}
<1>1. Center = A \cup (B \cup C)
  BY DEF Center, centerGates
<1>2. \A x, y, z : IsFiniteSet({x, y, z}) /\ Cardinality({x, y, z}) \in Nat /\ Cardinality({x, y, z}) <= 3
  BY FewElements
<1>3. \A S, T : IsFiniteSet(S) /\ IsFiniteSet(T) =>
        /\ IsFiniteSet(S \cup T)
        /\ Cardinality(S \cup T) <= Cardinality(S) + Cardinality(T)
  <2> SUFFICES ASSUME NEW S, NEW T, IsFiniteSet(S), IsFiniteSet(T)
               PROVE  /\ IsFiniteSet(S \cup T)
                      /\ Cardinality(S \cup T) <= Cardinality(S) + Cardinality(T)
    OBVIOUS
  <2>1. IsFiniteSet(S \cup T) /\ IsFiniteSet(S \cap T)
        /\ Cardinality(S \cup T) = Cardinality(S) + Cardinality(T) - Cardinality(S \cap T)
    BY FS_Union, FS_Intersection
  <2>2. Cardinality(S) \in Nat /\ Cardinality(T) \in Nat /\ Cardinality(S \cap T) \in Nat
    BY <2>1, FS_CardinalityType
  <2> QED
    BY <2>1, <2>2, SMT
<1> HIDE DEF A, B, C
<1>4. IsFiniteSet(A) /\ IsFiniteSet(B) /\ IsFiniteSet(C)
      /\ Cardinality(A) \in Nat /\ Cardinality(B) \in Nat /\ Cardinality(C) \in Nat
      /\ Cardinality(A) <= 3 /\ Cardinality(B) <= 3 /\ Cardinality(C) <= 3
  BY <1>2 DEF A, B, C
<1>5. IsFiniteSet(B \cup C) /\ Cardinality(B \cup C) \in Nat /\ Cardinality(B \cup C) <= 6
  <2>1. IsFiniteSet(B \cup C) /\ Cardinality(B \cup C) <= Cardinality(B) + Cardinality(C)
    BY <1>3, <1>4
  <2> QED
    BY <1>4, <2>1, FS_CardinalityType, SMT
<1>6. IsFiniteSet(A \cup (B \cup C))
      /\ Cardinality(A \cup (B \cup C)) <= Cardinality(A) + Cardinality(B \cup C)
  BY <1>3, <1>4, <1>5
<1>7. Cardinality(A \cup (B \cup C)) \in Nat
  BY <1>6, FS_CardinalityType
<1> QED
  BY <1>1, <1>4, <1>5, <1>6, <1>7, SMT

\* so that every set of them has at most nine.
LEMMA CenterSets ==
  ASSUME NEW S, S \subseteq Center
  PROVE  IsFiniteSet(S) /\ Cardinality(S) \in Nat /\ Cardinality(S) <= 9
<1>1. IsFiniteSet(S) /\ Cardinality(S) <= Cardinality(Center)
  BY NineCenters, FS_Subset
<1>2. Cardinality(S) \in Nat /\ Cardinality(Center) \in Nat
  BY <1>1, NineCenters, FS_CardinalityType
<1> QED
  BY <1>1, <1>2, NineCenters, SMT

\* A round stays among the centers, keeps what it has seen, and is stopped by a closed set.
LEMMA RoundSpreads ==
  ASSUME NEW chs, chs \subseteq channels, NEW S, S \subseteq Center
  PROVE  /\ S \subseteq Spread(chs, S) /\ Spread(chs, S) \subseteq Center
         /\ \A T : S \subseteq T /\ Closed(chs, T) => Spread(chs, S) \subseteq T
         /\ Closed(chs, S) \/ Spread(chs, S) # S
<1>1. \A ch \in chs : ch[2] \subseteq Center
  BY ChannelJoinsCenters, GateInCenter
<1> QED
  BY <1>1 DEF Spread, Closed

\* A round that is not done adds a center at least.
LEMMA RoundAddsOne ==
  ASSUME NEW chs, chs \subseteq channels, NEW S, S \subseteq Center, NEW n \in Nat,
         Closed(chs, S) \/ Cardinality(S) >= n
  PROVE  Closed(chs, Spread(chs, S)) \/ Cardinality(Spread(chs, S)) >= n + 1
<1> DEFINE T == Spread(chs, S)
<1>1. S \subseteq T /\ T \subseteq Center /\ (Closed(chs, S) => T \subseteq S) /\ (Closed(chs, S) \/ T # S)
  BY RoundSpreads
<1> HIDE DEF T
<1>2. CASE Closed(chs, S)
  <2>1. T = S
    BY <1>1, <1>2
  <2> QED
    BY <1>2, <2>1 DEF T
<1>3. CASE ~ Closed(chs, S)
  <2>1. PICK x \in T : x \notin S
    BY <1>1, <1>3
  <2>2. IsFiniteSet(S) /\ Cardinality(S) \in Nat /\ IsFiniteSet(T) /\ Cardinality(T) \in Nat
    BY <1>1, CenterSets
  <2>3. IsFiniteSet(S \cup {x}) /\ Cardinality(S \cup {x}) = Cardinality(S) + 1
    BY <2>1, <2>2, FS_AddElement
  <2>4. Cardinality(S \cup {x}) <= Cardinality(T)
    BY <1>1, <2>1, <2>2, FS_Subset
  <2> QED
    BY <1>3, <2>2, <2>3, <2>4, SMT DEF T
<1> QED
  BY <1>2, <1>3

\* And three rounds three.
LEMMA ThreeRounds ==
  ASSUME NEW chs, chs \subseteq channels, NEW S, S \subseteq Center
  PROVE  /\ S \subseteq Thrice(chs, S) /\ Thrice(chs, S) \subseteq Center
         /\ \A T : S \subseteq T /\ Closed(chs, T) => Thrice(chs, S) \subseteq T
         /\ \A n \in Nat : Closed(chs, S) \/ Cardinality(S) >= n
              => Closed(chs, Thrice(chs, S)) \/ Cardinality(Thrice(chs, S)) >= n + 3
<1> DEFINE S1 == Spread(chs, S)
           S2 == Spread(chs, S1)
           S3 == Spread(chs, S2)
<1>1. /\ S \subseteq S1 /\ S1 \subseteq Center
      /\ \A T : S \subseteq T /\ Closed(chs, T) => S1 \subseteq T
      /\ \A n \in Nat : Closed(chs, S) \/ Cardinality(S) >= n
              => Closed(chs, S1) \/ Cardinality(S1) >= n + 1
  BY RoundSpreads, RoundAddsOne
<1> HIDE DEF S1
<1>2. /\ S1 \subseteq S2 /\ S2 \subseteq Center
      /\ \A T : S1 \subseteq T /\ Closed(chs, T) => S2 \subseteq T
      /\ \A n \in Nat : Closed(chs, S1) \/ Cardinality(S1) >= n
              => Closed(chs, S2) \/ Cardinality(S2) >= n + 1
  BY <1>1, RoundSpreads, RoundAddsOne
<1> HIDE DEF S2
<1>3. /\ S2 \subseteq S3 /\ S3 \subseteq Center
      /\ \A T : S2 \subseteq T /\ Closed(chs, T) => S3 \subseteq T
      /\ \A n \in Nat : Closed(chs, S2) \/ Cardinality(S2) >= n
              => Closed(chs, S3) \/ Cardinality(S3) >= n + 1
  BY <1>2, RoundSpreads, RoundAddsOne
<1>4. S3 = Thrice(chs, S)
  BY DEF S1, S2, Thrice
<1> HIDE DEF S3
<1>5. S \subseteq S3 /\ \A T : S \subseteq T /\ Closed(chs, T) => S3 \subseteq T
  BY <1>1, <1>2, <1>3
<1>6. ASSUME NEW n \in Nat, Closed(chs, S) \/ Cardinality(S) >= n
      PROVE  Closed(chs, S3) \/ Cardinality(S3) >= n + 3
  <2>1. Closed(chs, S1) \/ Cardinality(S1) >= n + 1
    BY <1>1, <1>6
  <2>2. Closed(chs, S2) \/ Cardinality(S2) >= (n + 1) + 1
    BY <1>2, <2>1
  <2>3. Closed(chs, S3) \/ Cardinality(S3) >= ((n + 1) + 1) + 1
    BY <1>3, <2>2
  <2>4. ((n + 1) + 1) + 1 = n + 3
    BY SMT
  <2> QED
    BY <2>3, <2>4
<1> QED
  BY <1>3, <1>4, <1>5, <1>6

\* Nine rounds are enough: the search finds the least closed set.
LEMMA ReachedIsLeast ==
  ASSUME NEW chs, chs \subseteq channels, NEW c \in Center
  PROVE  /\ c \in Reached(chs, c) /\ Reached(chs, c) \subseteq Center
         /\ Closed(chs, Reached(chs, c))
         /\ \A T : c \in T /\ Closed(chs, T) => Reached(chs, c) \subseteq T
<1> DEFINE S0 == {c}
           S3 == Thrice(chs, S0)
           S6 == Thrice(chs, S3)
           S9 == Thrice(chs, S6)
<1>1. S0 \subseteq Center /\ Cardinality(S0) >= 1
  <2>1. Cardinality(S0) = 1
    BY FS_Singleton
  <2> QED
    BY <2>1, SMT
<1> HIDE DEF S0
<1>2. /\ S0 \subseteq S3 /\ S3 \subseteq Center
      /\ \A T : S0 \subseteq T /\ Closed(chs, T) => S3 \subseteq T
      /\ Closed(chs, S3) \/ Cardinality(S3) >= 4
  <2>1. /\ S0 \subseteq S3 /\ S3 \subseteq Center
        /\ \A T : S0 \subseteq T /\ Closed(chs, T) => S3 \subseteq T
        /\ Closed(chs, S3) \/ Cardinality(S3) >= 1 + 3
    BY <1>1, ThreeRounds
  <2>2. 1 + 3 = 4
    BY SMT
  <2> QED
    BY <2>1, <2>2
<1> HIDE DEF S3
<1>3. /\ S3 \subseteq S6 /\ S6 \subseteq Center
      /\ \A T : S3 \subseteq T /\ Closed(chs, T) => S6 \subseteq T
      /\ Closed(chs, S6) \/ Cardinality(S6) >= 7
  <2>1. /\ S3 \subseteq S6 /\ S6 \subseteq Center
        /\ \A T : S3 \subseteq T /\ Closed(chs, T) => S6 \subseteq T
        /\ Closed(chs, S6) \/ Cardinality(S6) >= 4 + 3
    BY <1>2, ThreeRounds
  <2>2. 4 + 3 = 7
    BY SMT
  <2> QED
    BY <2>1, <2>2
<1> HIDE DEF S6
<1>4. /\ S6 \subseteq S9 /\ S9 \subseteq Center
      /\ \A T : S6 \subseteq T /\ Closed(chs, T) => S9 \subseteq T
      /\ Closed(chs, S9) \/ Cardinality(S9) >= 10
  <2>1. /\ S6 \subseteq S9 /\ S9 \subseteq Center
        /\ \A T : S6 \subseteq T /\ Closed(chs, T) => S9 \subseteq T
        /\ Closed(chs, S9) \/ Cardinality(S9) >= 7 + 3
    BY <1>3, ThreeRounds
  <2>2. 7 + 3 = 10
    BY SMT
  <2> QED
    BY <2>1, <2>2
<1>5. S9 = Reached(chs, c)
  BY DEF S0, S3, S6, Reached
<1> HIDE DEF S9
<1>6. Closed(chs, S9)
  <2>1. Cardinality(S9) \in Nat /\ Cardinality(S9) <= 9
    BY <1>4, CenterSets
  <2> QED
    BY <1>4, <2>1, SMT
<1>7. c \in S9 /\ \A T : c \in T /\ Closed(chs, T) => S9 \subseteq T
  BY <1>2, <1>3, <1>4 DEF S0
<1> QED
  BY <1>4, <1>5, <1>6, <1>7

\* The centers channels join.
CenterPairs ==
  {{"G", "Throat"}, {"G", "Sacral"}, {"Root", "Sacral"}, {"Ajna", "Head"},
   {"Sacral", "SolarPlexus"}, {"G", "Spleen"}, {"Ajna", "Throat"},
   {"SolarPlexus", "Throat"}, {"Spleen", "Throat"}, {"Root", "Spleen"},
   {"Root", "SolarPlexus"}, {"Sacral", "Throat"}, {"Heart", "Throat"},
   {"G", "Heart"}, {"Heart", "Spleen"}, {"Sacral", "Spleen"},
   {"Heart", "SolarPlexus"}}

LEMMA ChannelPairs == ASSUME NEW ch \in channels PROVE ch[2] \in CenterPairs
BY SMTT(60) DEF channels, CenterPairs

\* They are two different ones.
LEMMA ChannelEnds ==
  ASSUME NEW ch \in channels
  PROVE  \E a, b \in ch[2] : a # b
<1> DEFINE Two(S) == \E a, b \in S : a # b
<1>1. \A x, y : x # y => Two({x, y})
  OBVIOUS
<1> HIDE DEF Two
<1>2. ch[2] \in CenterPairs
  BY ChannelPairs
<1>3. Two(ch[2])
  BY <1>1, <1>2 DEF CenterPairs
<1> QED
  BY <1>3 DEF Two

\* What is outside a closed set is closed too, so that parts with a center in common are one.
LEMMA ReachedOrApart ==
  ASSUME NEW chs, chs \subseteq channels, NEW c \in Center, NEW d \in Center,
         NEW x \in Reached(chs, c), x \in Reached(chs, d)
  PROVE  Reached(chs, c) = Reached(chs, d)
<1>1. ASSUME NEW e \in Center, x \in Reached(chs, e) PROVE Reached(chs, e) = Reached(chs, x)
  <2> DEFINE E == Reached(chs, e)
             X == Reached(chs, x)
  <2>1. /\ e \in E /\ E \subseteq Center /\ Closed(chs, E)
        /\ \A T : e \in T /\ Closed(chs, T) => E \subseteq T
    BY ReachedIsLeast
  <2>2. /\ x \in X /\ Closed(chs, X)
        /\ \A T : x \in T /\ Closed(chs, T) => X \subseteq T
    BY <1>1, <2>1, ReachedIsLeast
  <2> HIDE DEF E, X
  <2>3. X \subseteq E
    BY <1>1, <2>1, <2>2 DEF E
  <2>4. e \in X
    <3> SUFFICES ASSUME e \notin X PROVE FALSE
      OBVIOUS
    <3>1. Closed(chs, E \ X)
      BY <2>1, <2>2 DEF Closed
    <3>2. x \in E \ X
      BY <1>1, <2>1, <3>1 DEF E
    <3> QED
      BY <2>2, <3>2
  <2>5. E \subseteq X
    BY <2>1, <2>2, <2>4
  <2> QED
    BY <2>3, <2>5 DEF E, X
<1> QED
  BY <1>1

\* No part of the definition is a center alone.
LEMMA PartsAreJoined ==
  ASSUME NEW chs, chs \subseteq channels, NEW c \in Touched(chs)
  PROVE  /\ c \in Center /\ Reached(chs, c) \subseteq Touched(chs)
         /\ \E a, b \in Reached(chs, c) : a # b
<1>1. PICK ch \in chs : c \in ch[2]
  BY DEF Touched
<1>2. c \in Center /\ Touched(chs) \subseteq Center
  BY TouchedByGates
<1>3. c \in Reached(chs, c) /\ Closed(chs, Reached(chs, c))
  BY <1>2, ReachedIsLeast
<1>4. ch[2] \subseteq Reached(chs, c)
  BY <1>1, <1>3 DEF Closed
<1>5. \E a, b \in ch[2] : a # b
  BY ChannelEnds
<1>6. Closed(chs, Touched(chs))
  BY DEF Closed, Touched
<1>7. Reached(chs, c) \subseteq Touched(chs)
  BY <1>2, <1>6, ReachedIsLeast
<1> QED
  BY <1>2, <1>4, <1>5, <1>7

\* Two centers of each part, all of them different, are among those touched.
LEMMA TwoCentersAPart ==
  ASSUME NEW chs, chs \subseteq channels
  PROVE  2 * determineDefinition(chs) <= Cardinality(Touched(chs))
<1> DEFINE parts == {Reached(chs, c) : c \in Touched(chs)}
           one == [p \in parts |-> CHOOSE a \in p : \E b \in p : a # b]
           two == [p \in parts |-> CHOOSE b \in p : one[p] # b]
           A == {one[p] : p \in parts}
           B == {two[p] : p \in parts}
<1>1. \A p \in parts : \E a, b \in p : a # b
  BY PartsAreJoined
<1>2. \A p \in parts : p \subseteq Touched(chs)
  BY PartsAreJoined
<1>3. \A p, q \in parts : p \cap q # {} => p = q
  <2> SUFFICES ASSUME NEW c \in Touched(chs), NEW d \in Touched(chs),
                      NEW x \in Reached(chs, c), x \in Reached(chs, d)
               PROVE  Reached(chs, c) = Reached(chs, d)
    OBVIOUS
  <2> QED
    BY PartsAreJoined, ReachedOrApart
<1>4. Touched(chs) \subseteq Center
  BY TouchedByGates
<1>5. determineDefinition(chs) = Cardinality(parts)
  BY DEF determineDefinition
<1> HIDE DEF parts
<1>6. \A p \in parts : one[p] \in p /\ \E b \in p : one[p] # b
  <2> SUFFICES ASSUME NEW p \in parts PROVE one[p] \in p /\ \E b \in p : one[p] # b
    OBVIOUS
  <2>1. \E a \in p : \E b \in p : a # b
    BY <1>1
  <2>2. one[p] = CHOOSE a \in p : \E b \in p : a # b
    OBVIOUS
  <2> HIDE DEF one
  <2> QED
    BY <2>1, <2>2
<1>7. \A p \in parts : two[p] \in p /\ two[p] # one[p]
  <2> SUFFICES ASSUME NEW p \in parts PROVE two[p] \in p /\ two[p] # one[p]
    OBVIOUS
  <2>1. \E b \in p : one[p] # b
    BY <1>6
  <2>2. two[p] = CHOOSE b \in p : one[p] # b
    OBVIOUS
  <2> HIDE DEF one, two
  <2> QED
    BY <2>1, <2>2
<1>8. DOMAIN one = parts /\ DOMAIN two = parts
  OBVIOUS
<1> HIDE DEF one, two
<1>9. one \in Bijection(parts, A) /\ two \in Bijection(parts, B)
  <2>1. \A p, q \in parts : one[p] = one[q] => p = q
    BY <1>3, <1>6
  <2>2. \A p, q \in parts : two[p] = two[q] => p = q
    BY <1>3, <1>7
  <2>3. one \in [parts -> A] /\ two \in [parts -> B]
    BY <1>8 DEF one, two
  <2>4. (\A a \in A : \E p \in parts : one[p] = a) /\ \A b \in B : \E p \in parts : two[p] = b
    OBVIOUS
  <2> HIDE DEF A, B
  <2>5. IsInjective(one) /\ IsInjective(two)
    BY <1>8, <2>1, <2>2 DEF IsInjective
  <2> QED
    BY <2>3, <2>4, <2>5, Zenon DEF Bijection, Injection, Surjection
<1>10. A \cap B = {}
  BY <1>3, <1>6, <1>7
<1>11. A \cup B \subseteq Touched(chs)
  BY <1>2, <1>6, <1>7
<1> HIDE DEF A, B
<1>12. /\ IsFiniteSet(A) /\ IsFiniteSet(B) /\ IsFiniteSet(Touched(chs))
       /\ Cardinality(A) \in Nat /\ Cardinality(B) \in Nat
  BY <1>4, <1>11, CenterSets
<1>13. IsFiniteSet(parts)
  <2>1. parts \subseteq SUBSET Touched(chs)
    BY <1>2
  <2> QED
    BY <1>12, <2>1, FS_SUBSET, FS_Subset
<1>14. Cardinality(parts) = Cardinality(A) /\ Cardinality(parts) = Cardinality(B)
  <2>1. ExistsBijection(parts, A) /\ ExistsBijection(parts, B)
    BY <1>9 DEF ExistsBijection
  <2> QED
    BY <1>13, <2>1, FS_Bijection
<1>15. Cardinality(A \cup B) = Cardinality(A) + Cardinality(B)
  BY <1>10, <1>12, DisjointUnion
<1>16. Cardinality(A \cup B) <= Cardinality(Touched(chs))
  BY <1>11, <1>12, FS_Subset
<1> QED
  BY <1>5, <1>12, <1>14, <1>15, <1>16, SMT

-----------------------------------------------------------------------------
(* Type and authority *)

\* Where the Heart and the Root are joined to.
LEMMA HeartAndRoot ==
  ASSUME NEW ch \in channels
  PROVE  /\ "Heart" \in ch[2] =>
              \/ "Spleen" \in ch[2] \/ "SolarPlexus" \in ch[2]
              \/ ch[2] = {"Heart", "G"} \/ ch[2] = {"Heart", "Throat"}
         /\ "Root" \in ch[2] => "Sacral" \in ch[2] \/ "Spleen" \in ch[2] \/ "SolarPlexus" \in ch[2]
<1>1. {"G", "Heart"} = {"Heart", "G"}
  OBVIOUS
<1> QED
  BY <1>1, ChannelPairs, SMT DEF CenterPairs

\* The search finds a motor unless a set without one holds the Throat and is closed.
LEMMA ThroatAndMotors ==
  ASSUME NEW chs, chs \subseteq channels
  PROVE  isThroatConnectedToMotor(chs)
           <=> ~ \E apart \in SUBSET (Center \ motorCenters) : "Throat" \in apart /\ Closed(chs, apart)
<1> DEFINE R == Reached(chs, "Throat")
<1>1. "Throat" \in Center \ motorCenters
  BY DEF Center, centerGates, motorCenters
<1>2. /\ "Throat" \in R /\ R \subseteq Center /\ Closed(chs, R)
      /\ \A T : "Throat" \in T /\ Closed(chs, T) => R \subseteq T
  BY <1>1, ReachedIsLeast
<1>3. isThroatConnectedToMotor(chs) <=> "Throat" \in Touched(chs) /\ R \cap motorCenters # {}
  BY DEF isThroatConnectedToMotor
<1> HIDE DEF R
<1>4. ASSUME "Throat" \notin Touched(chs) PROVE Closed(chs, {"Throat"})
  BY <1>4 DEF Touched, Closed
<1>5. CASE "Throat" \notin Touched(chs)
  <2>1. {"Throat"} \in SUBSET (Center \ motorCenters)
    BY <1>1
  <2> QED
    BY <1>3, <1>4, <1>5, <2>1
<1>6. CASE "Throat" \in Touched(chs) /\ R \cap motorCenters = {}
  BY <1>2, <1>3, <1>6
<1>7. CASE "Throat" \in Touched(chs) /\ R \cap motorCenters # {}
  BY <1>2, <1>3, <1>7
<1> QED
  BY <1>5, <1>6, <1>7

\* What the two decisions come to.
LEMMA TypeDecided ==
  ASSUME NEW chs
  PROVE  LET motor == isThroatConnectedToMotor(chs)
             sacral == "Sacral" \in Touched(chs)
             type == determineType(chs)
         IN /\ Touched(chs) = {} => type = "Reflector"
            /\ Touched(chs) # {} /\ sacral /\ motor => type = "Manifesting Generator"
            /\ Touched(chs) # {} /\ sacral /\ ~ motor => type = "Generator"
            /\ Touched(chs) # {} /\ ~ sacral /\ motor => type = "Manifestor"
            /\ Touched(chs) # {} /\ ~ sacral /\ ~ motor => type = "Projector"
<1> DEFINE motor == isThroatConnectedToMotor(chs)
           sacral == "Sacral" \in Touched(chs)
           none == Touched(chs) = {}
           type == determineType(chs)
<1>1. type = CASE none -> "Reflector"
               [] sacral /\ motor -> "Manifesting Generator"
               [] sacral /\ ~ motor -> "Generator"
               [] ~ sacral /\ motor -> "Manifestor"
               [] OTHER -> "Projector"
  BY DEF determineType
<1>2. motor \in BOOLEAN /\ sacral \in BOOLEAN /\ none \in BOOLEAN
  BY DEF isThroatConnectedToMotor
<1>3. none => ~ sacral /\ ~ motor
  BY DEF isThroatConnectedToMotor
<1> HIDE DEF motor, sacral, none, type
<1>4. /\ none => type = "Reflector"
      /\ ~ none /\ sacral /\ motor => type = "Manifesting Generator"
      /\ ~ none /\ sacral /\ ~ motor => type = "Generator"
      /\ ~ none /\ ~ sacral /\ motor => type = "Manifestor"
      /\ ~ none /\ ~ sacral /\ ~ motor => type = "Projector"
  BY <1>1, <1>2, <1>3
<1> QED
  BY <1>4 DEF motor, sacral, none, type

\* The authorities the comments of hd_centers.go reserve for a type are found with no other.
LEMMA AuthorityFits ==
  ASSUME NEW chs, chs \subseteq channels
  PROVE  LET type == determineType(chs)
             authority == determineAuthority(chs, type)
         IN /\ type \in {"Manifestor", "Manifesting Generator"} <=> isThroatConnectedToMotor(chs)
            /\ authority = "Lunar" <=> chs = {}
            /\ authority = "Sacral" => type \in {"Generator", "Manifesting Generator"}
            /\ authority = "Ego" => type = "Manifestor"
            /\ authority = "Mental" => type = "Projector" /\ Touched(chs) \cap motorCenters = {}
<1> DEFINE type == determineType(chs)
           authority == determineAuthority(chs, type)
           motor == isThroatConnectedToMotor(chs)
           sacral == "Sacral" \in Touched(chs)
<1>1. /\ Touched(chs) = {} => type = "Reflector"
      /\ Touched(chs) # {} /\ sacral /\ motor => type = "Manifesting Generator"
      /\ Touched(chs) # {} /\ sacral /\ ~ motor => type = "Generator"
      /\ Touched(chs) # {} /\ ~ sacral /\ motor => type = "Manifestor"
      /\ Touched(chs) # {} /\ ~ sacral /\ ~ motor => type = "Projector"
  BY TypeDecided
<1>2. motor <=> "Throat" \in Touched(chs) /\ Reached(chs, "Throat") \cap motorCenters # {}
  BY DEF isThroatConnectedToMotor
<1>3. Touched(chs) = {} <=> chs = {}
  <2>1. ASSUME NEW ch \in chs PROVE Touched(chs) # {}
    BY ChannelEnds DEF Touched
  <2>2. chs = {} => Touched(chs) = {}
    BY DEF Touched
  <2> QED
    BY <2>1, <2>2
<1>4. /\ type = "Reflector" => authority = "Lunar"
      /\ type # "Reflector" =>
           IF "SolarPlexus" \in Touched(chs) THEN authority = "Emotional"
           ELSE IF sacral THEN authority = "Sacral"
           ELSE IF "Spleen" \in Touched(chs) THEN authority = "Splenic"
           ELSE IF "Heart" \notin Touched(chs) THEN authority = "Mental"
           ELSE IF hasChannel(chs, "Heart", "G") /\ ~ hasChannel(chs, "Heart", "Throat")
                THEN authority = "Self-Projected" ELSE authority = "Ego"
  BY DEF determineAuthority
<1> HIDE DEF type, authority, motor
<1>5. type \in {"Manifestor", "Manifesting Generator"} <=> motor
  BY <1>1, <1>2, Zenon
<1>6. authority = "Lunar" <=> chs = {}
  BY <1>1, <1>3, <1>4, Zenon
<1>7. authority = "Sacral" => type \in {"Generator", "Manifesting Generator"}
  BY <1>1, <1>4, Zenon
<1>8. ASSUME authority = "Ego" PROVE type = "Manifestor"
  <2>1. /\ type # "Reflector" /\ ~ sacral /\ "SolarPlexus" \notin Touched(chs)
        /\ "Spleen" \notin Touched(chs) /\ "Heart" \in Touched(chs)
        /\ hasChannel(chs, "Heart", "G") => hasChannel(chs, "Heart", "Throat")
    BY <1>4, <1>8, Zenon
  <2>2. PICK ch \in chs : "Heart" \in ch[2]
    BY <2>1 DEF Touched
  <2>3. "Spleen" \notin ch[2] /\ "SolarPlexus" \notin ch[2]
    BY <2>1 DEF Touched
  <2>4. hasChannel(chs, "Heart", "Throat")
    BY <2>1, <2>2, <2>3, HeartAndRoot DEF hasChannel
  <2>5. PICK d \in chs : d[2] = {"Heart", "Throat"}
    BY <2>4 DEF hasChannel
  <2>6. "Throat" \in Center
    BY DEF Center, centerGates
  <2>7. "Throat" \in Reached(chs, "Throat") /\ Closed(chs, Reached(chs, "Throat"))
    BY <2>6, ReachedIsLeast
  <2>8. "Heart" \in Reached(chs, "Throat") /\ "Throat" \in Touched(chs)
    BY <2>5, <2>7 DEF Closed, Touched
  <2>9. motor
    BY <1>2, <2>8 DEF motorCenters
  <2> QED
    BY <1>1, <2>1, <2>8, <2>9
<1>9. ASSUME authority = "Mental"
      PROVE  type = "Projector" /\ Touched(chs) \cap motorCenters = {}
  <2>1. /\ type # "Reflector" /\ ~ sacral /\ "SolarPlexus" \notin Touched(chs)
        /\ "Spleen" \notin Touched(chs) /\ "Heart" \notin Touched(chs)
    BY <1>4, <1>9, Zenon
  <2>2. "Root" \notin Touched(chs)
    BY <2>1, HeartAndRoot DEF Touched
  <2>3. Touched(chs) \cap motorCenters = {}
    BY <2>1, <2>2 DEF motorCenters
  <2>4. "Throat" \in Touched(chs) => Reached(chs, "Throat") \subseteq Touched(chs)
    BY PartsAreJoined
  <2>5. ~ motor /\ Touched(chs) # {}
    BY <1>1, <1>2, <2>1, <2>3, <2>4
  <2> QED
    BY <1>1, <2>1, <2>3, <2>5
<1> QED
  BY <1>5, <1>6, <1>7, <1>8, <1>9 DEF type, authority, motor

-----------------------------------------------------------------------------
\* CentersFollowGates holds of every sky.
LEMMA CentersFollow == HdTypeOK => CentersFollowGates
<1> SUFFICES ASSUME HdTypeOK, Drawn PROVE CentersFollowGates
  BY DEF CentersFollowGates
<1> DEFINE chs == definedChannels
           gates == UNION {ch[1] : ch \in chs}
<1>1. chs \subseteq channels
  BY DefinedAreChannels
<1> HIDE DEF chs
<1>2. Touched(chs) = {c \in Center : centerGates[c] \cap gates # {}}
  BY <1>1, TouchedByGates, CentersOfGates
<1>3. \A g \in defGates : Cardinality({c \in Center : g \in centerGates[c]}) = 1
  BY GatesDefined, OneCenterEach
<1>4. 2 * determineDefinition(chs) <= Cardinality(Touched(chs))
  BY <1>1, TwoCentersAPart
<1> QED
  BY <1>2, <1>3, <1>4 DEF CentersFollowGates, chs

\* TypeFitsAuthority holds of every sky.
LEMMA TypeFits == HdTypeOK => TypeFitsAuthority
<1> DEFINE chs == definedChannels
           cutOff == \E apart \in SUBSET (Center \ motorCenters) :
                       /\ "Throat" \in apart
                       /\ \A ch \in chs : ch[2] \cap apart = {} \/ ch[2] \subseteq apart
<1>1. chs \subseteq channels
  BY DefinedAreChannels
<1> HIDE DEF chs
<1>2. isThroatConnectedToMotor(chs) <=> ~ cutOff
  BY <1>1, ThroatAndMotors DEF Closed
<1> HIDE DEF cutOff
<1>3. LET type == determineType(chs)
          authority == determineAuthority(chs, type)
      IN /\ type \in {"Manifestor", "Manifesting Generator"} <=> ~ cutOff
         /\ authority = "Lunar" <=> chs = {}
         /\ authority = "Sacral" => type \in {"Generator", "Manifesting Generator"}
         /\ authority = "Ego" => type = "Manifestor"
         /\ authority = "Mental" => type = "Projector" /\ Touched(chs) \cap motorCenters = {}
  BY <1>1, <1>2, AuthorityFits
<1> QED
  BY <1>3 DEF TypeFitsAuthority, chs, cutOff

\* ProfileIsOfTwelve holds of every sky.
LEMMA ProfileFits == HdTypeOK => ProfileIsOfTwelve
<1> SUFFICES ASSUME HdTypeOK, Drawn PROVE ProfileIsOfTwelve
  BY DEF ProfileIsOfTwelve
<1> DEFINE index(g) == CHOOSE i \in 1 .. 64 : gateSequence[i] = g
           sun(c) == LongitudeOf(c, "Sun")
           earth(c) == LongitudeOf(c, "Earth")
<1>1. \A c \in Moment : /\ sun(c) \in Int /\ 0 <= sun(c) /\ sun(c) < 69120
                        /\ earth(c) = Opposite(sun(c))
  <2>1. "Sun" \in Body
    BY DEF Body, hdBodies
  <2>2. \A c \in Moment : earth(c) = Opposite(sun(c))
    BY DEF Moment, LongitudeOf
  <2> QED
    BY <2>1, <2>2, BodiesOnWheel
<1>2. sun("design") = DesignSun(sun("birth"))
  BY DEF LongitudeOf
<1> HIDE DEF sun, earth
<1>3. "birth" \in Moment /\ "design" \in Moment
  BY DEF Moment
<1>4. (Profile[2] - Profile[1] + 6) % 6 \in {2, 3}
  <2>1. Profile[1] = Line(sun("birth")) /\ Profile[2] = Line(DesignSun(sun("birth")))
    BY <1>2 DEF Profile, sun
  <2> QED
    BY <1>1, <1>3, <2>1, DesignIsBehind
<1>5. \A c \in Moment : Line(earth(c)) = Line(sun(c)) /\ Color(earth(c)) = Color(sun(c))
  BY <1>1, HalfTheWheel
<1>6. ASSUME NEW c \in Moment
      PROVE  /\ (index(Gate(sun(c))) + 32 - index(Gate(earth(c)))) % 64 = 0
             /\ quarterForGate(Gate(sun(c))) # quarterForGate(Gate(earth(c)))
  <2> DEFINE i == OnWheel(sun(c)) \div 1080 + 1
             j == OnWheel(earth(c)) \div 1080 + 1
  <2>1. /\ i \in 1 .. 64 /\ Gate(sun(c)) = gateSequence[i]
        /\ j \in 1 .. 64 /\ Gate(earth(c)) = gateSequence[j]
    <3>1. earth(c) \in Int /\ 0 <= earth(c) /\ earth(c) < 69120
      BY <1>1, HalfTheWheel
    <3> QED
      BY <1>1, <3>1, GateAndLine
  <2>2. (i + 32 - j) % 64 = 0
    <3> DEFINE u == OnWheel(sun(c)) \div 1080
               v == OnWheel(earth(c)) \div 1080
    <3>1. (u + 32 - v) % 64 = 0
      BY <1>1, HalfTheWheel
    <3>2. u + 1 \in 1 .. 64 /\ v + 1 \in 1 .. 64
      BY <2>1
    <3>3. OnWheel(sun(c)) \in Int /\ OnWheel(earth(c)) \in Int
      BY <1>1, HalfTheWheel, WheelPlaces
    <3>4. u \in Int /\ v \in Int
      BY <3>3, SMT
    <3> HIDE DEF u, v
    <3>5. (u + 1 + 32 - (v + 1)) % 64 = 0
      BY <3>1, <3>4, SMT
    <3> QED
      BY <3>5 DEF u, v
  <2> HIDE DEF i, j
  <2>3. ASSUME NEW k \in 1 .. 64 PROVE index(gateSequence[k]) = k
    BY GateOnceOnWheel
  <2>4. index(Gate(sun(c))) = i /\ index(Gate(earth(c))) = j
    BY <2>1, <2>3
  <2>5. quarterForGate(gateSequence[i]) # quarterForGate(gateSequence[j])
    BY <2>1, <2>2, QuarterOnWheel, SMT
  <2> QED
    BY <2>1, <2>2, <2>4, <2>5
<1>7. /\ Cross[1] = Gate(sun("birth")) /\ Cross[2] = Gate(earth("birth"))
      /\ Cross[3] = Gate(sun("design")) /\ Cross[4] = Gate(earth("design"))
  BY DEF Cross, sun, earth
<1>8. \A k \in {1, 3} :
        /\ (index(Cross[k]) + 32 - index(Cross[k + 1])) % 64 = 0
        /\ quarterForGate(Cross[k]) # quarterForGate(Cross[k + 1])
  <2>1. 1 + 1 = 2 /\ 3 + 1 = 4
    BY SMT
  <2> HIDE DEF index
  <2> QED
    BY <1>3, <1>6, <1>7, <2>1
<1>9. Variables.digestion = leftRight(Color(earth("birth")))
  BY <1>3, <1>5 DEF Variables, sun
<1> QED
  BY <1>4, <1>5, <1>8, <1>9 DEF ProfileIsOfTwelve, sun, earth

-----------------------------------------------------------------------------
(* The theorems *)

\* In every behaviour of the western chart each longitude is in one house, the aspects of two
\* planets are the same from both ends and one at most, and shares add up, for every place of
\* the planets and every twelve cusps in order (computeHouses, computeAspects).
THEOREM NatalChartHolds == NatalSpec => [](OneHouseHolds /\ ChartAddsUp)
<1>1. NatalTypeOK => OneHouseHolds /\ ChartAddsUp
  BY HouseIsOne, ChartSums
<1> QED
  BY <1>1, NatalInitial, NatalStep, PTL DEF NatalSpec

\* Whatever the places of the grahas and the ascendant, the divisional charts agree on the signs
\* they share, and houses, aspects, dignities and combustion cohere (vedic_varga.go,
\* vedic_drishti.go, vedic_dignity.go).
THEOREM VedicChartsCohere == VedicSpec => [](VargasAgree /\ ChartCoheres)
BY VedicInitial, VedicStep, VedicChartHolds, PTL DEF VedicSpec

\* A step is one of the western chart, of the Vedic one, of the bodygraph, or a day of the walk.
LEMMA ReadingsInvariant ==
  ReadingsSpec => [](NatalTypeOK /\ VedicTypeOK /\ HdTypeOK /\ TransitInv)
<1> DEFINE Inv == NatalTypeOK /\ VedicTypeOK /\ HdTypeOK /\ TransitInv
<1>1. ReadingsInit => Inv
  BY NatalInitial, VedicInitial, HumanDesignInitial, TransitInitial DEF ReadingsInit
<1>2. Inv /\ [ReadingsNext]_chartReadings => Inv'
  <2>1. [ReadingsNext]_chartReadings =>
          /\ [NatalNext]_natalVars /\ [VedicNext]_vedicVars
          /\ [HumanDesignNext]_humanDesignVars /\ [TransitNext]_transitVars
    BY DEF ReadingsNext, chartReadings
  <2> QED
    BY <2>1, NatalStep, VedicStep, HumanDesignStep, TransitStep
<1> QED
  BY <1>1, <1>2, PTL DEF ReadingsSpec

\* Houses around the first point of Aries, aspects, shares of the planets and divisions of a
\* sign agree in every chart, western or Vedic, for all longitudes of the circle, and every
\* planet has its classical number of bindus; the yogas are
\* formed by the grahas the texts name and only where they may be, and of the grahas only the
\* Moon and Mars can have the strength required, for all places of the grahas (zodiac.go,
\* aspects.go, vedic_varga.go, vedic_drishti.go, vedic_ashtakavarga.go, vedic_yoga.go,
\* vedic_shadbala.go).
THEOREM ChartsAlwaysHold == ReadingsSpec => []ChartsHold
<1>1. NatalTypeOK /\ VedicTypeOK => ChartsHold
  BY HouseIsOne, ChartSums, VedicChartHolds DEF ChartsHold
<1> QED
  BY <1>1, ReadingsInvariant, PTL

\* Gates, channels and centers go together, type and authority fit, and profile and cross are
\* of those that exist, wherever the bodies of the two charts are (hd_gates.go, hd_channels.go,
\* hd_centers.go, hd_compute.go).
THEOREM BodygraphsHold == ReadingsSpec => []BodygraphHolds
<1>1. HdTypeOK => BodygraphHolds
  BY CentersFollow, TypeFits, ProfileFits DEF BodygraphHolds
<1> QED
  BY <1>1, ReadingsInvariant, PTL

\* New and full moons take turns and none is left out of the list, and the list tells where
\* the body is and which aspects it made, for any points of a birth chart, any gain of the
\* Moon and any number of days (findLunations, findIngresses, findAspects in transits.go).
THEOREM TransitsAreTold == ReadingsSpec => []TransitsHold
<1>1. TransitInv => TransitsHold
  BY MoonsAlternate DEF TransitsHold, SkyIsTold, TransitInv, BodyIsTold, ExactIsTold
<1> QED
  BY <1>1, ReadingsInvariant, PTL
=============================================================================
