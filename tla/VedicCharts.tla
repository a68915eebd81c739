---------------------------- MODULE VedicCharts ----------------------------
(***************************************************************************)
(* The Vedic chart of a birth and what is read from it: houses, dignities, *)
(* combustion, aspects (vedic_sidereal.go, vedic_dignities.go,             *)
(* vedic_drishti.go), the bindus of Ashtakavarga, the yogas and Shadbala   *)
(* (vedic_ashtakavarga.go, vedic_yoga.go, vedic_shadbala.go).              *)
(*                                                                         *)
(* The Swiss Ephemeris, which places the grahas, is outside: a chart is    *)
(* some placement near a given one, with Mercury and Venus as close to the *)
(* Sun as they are in the sky.  Names, texts and the strengths of yogas    *)
(* are left out; Shadbala is in hundredths of a virupa, rounded down.      *)
(***************************************************************************)
EXTENDS Zodiac, Sequences, FiniteSets, FiniteSetsExt

CONSTANTS
  FirstSky,  \* some placements: [Placed -> longitude]
  Longitude, \* the longitudes a graha, or the ascendant, may be moved to
  MaxMoves   \* bound: how many of them are moved

VARIABLES
  sky,        \* computeSiderealPlanets: [Placed -> longitude], empty before a chart is
              \* asked for
  ascendant,  \* computeSiderealAscendant
  retrograde, \* the grahas whose speed is negative
  dayBirth,   \* isDayBirthFromJD
  moves

vedicVars == <<sky, ascendant, retrograde, dayBirth, moves>>

Seven == {"Sun", "Moon", "Mars", "Mercury", "Jupiter", "Venus", "Saturn"}
Placed == Seven \cup {"Rahu"}
Graha == Placed \cup {"Ketu"}

ASSUME VedicAssumption ==
  /\ FirstSky \subseteq [Placed -> 0 .. Circle - 1]
  /\ Longitude \subseteq 0 .. Circle - 1

----------------------------------------------------------------------------
(* Tables. *)

signLord == <<"Mars", "Venus", "Mercury", "Moon", "Sun", "Mercury", "Venus",
              "Mars", "Jupiter", "Saturn", "Saturn", "Jupiter">>
LordOf(sign) == signLord[(sign % 12) + 1]

exaltationSign ==
  [Sun |-> 0, Moon |-> 1, Mars |-> 9, Mercury |-> 5, Jupiter |-> 3, Venus |-> 11,
   Saturn |-> 6, Rahu |-> 1, Ketu |-> 7]

debilitationSign ==
  [Sun |-> 6, Moon |-> 7, Mars |-> 3, Mercury |-> 11, Jupiter |-> 9, Venus |-> 5,
   Saturn |-> 0, Rahu |-> 7, Ketu |-> 1]

\* Sign, first degree, end degree.
mooltrikona ==
  [Sun |-> <<4, 0, 20>>, Moon |-> <<1, 4, 30>>, Mars |-> <<0, 0, 12>>,
   Mercury |-> <<5, 16, 20>>, Jupiter |-> <<8, 0, 10>>, Venus |-> <<6, 0, 15>>,
   Saturn |-> <<10, 0, 20>>]

Friends ==
  [Sun |-> {"Moon", "Mars", "Jupiter"}, Moon |-> {"Sun", "Mercury"},
   Mars |-> {"Sun", "Moon", "Jupiter"}, Mercury |-> {"Sun", "Venus"},
   Jupiter |-> {"Sun", "Moon", "Mars"}, Venus |-> {"Mercury", "Saturn"},
   Saturn |-> {"Mercury", "Venus"}]

Enemies ==
  [Sun |-> {"Venus", "Saturn"}, Moon |-> {}, Mars |-> {"Mercury"}, Mercury |-> {"Moon"},
   Jupiter |-> {"Mercury", "Venus"}, Venus |-> {"Sun", "Moon"},
   Saturn |-> {"Sun", "Moon", "Mars"}]

combustionOrb ==
  [Moon |-> 12, Mars |-> 17, Mercury |-> 14, Jupiter |-> 11, Venus |-> 10, Saturn |-> 15]

drishtiHouses ==
  [Sun |-> {7}, Moon |-> {7}, Mercury |-> {7}, Venus |-> {7}, Mars |-> {4, 7, 8},
   Jupiter |-> {5, 7, 9}, Saturn |-> {3, 7, 10}, Rahu |-> {5, 7, 9}, Ketu |-> {5, 7, 9}]

----------------------------------------------------------------------------
(* The chart of divisor n; n = 1 is the birth chart. *)

\* Ketu is opposite Rahu.
Rashi(g) == IF g = "Ketu" THEN normalize360(sky["Rahu"] + Circle \div 2) ELSE sky[g]

Position(n, g) == VargaLongitude(n, Rashi(g))

LagnaSign(n) == signOf(VargaLongitude(n, ascendant))

\* Whole-sign houses.
House(n, g) == ((signOf(Position(n, g)) - LagnaSign(n) + 12) % 12) + 1

Bhava(n, house) == {g \in Graha : House(n, g) = house}

dignityOf(g, sign, degree) ==
  IF exaltationSign[g] = sign THEN "exalted"
  ELSE IF debilitationSign[g] = sign THEN "debilitated"
  ELSE IF g \notin Seven THEN "neutral"
  ELSE IF /\ mooltrikona[g][1] = sign
          /\ degree >= mooltrikona[g][2] * Degree
          /\ degree < mooltrikona[g][3] * Degree THEN "mooltrikona"
  ELSE IF LordOf(sign) = g THEN "own"
  ELSE IF LordOf(sign) \in Friends[g] THEN "friend"
  ELSE IF LordOf(sign) \in Enemies[g] THEN "enemy"
  ELSE "neutral"

Dignity(n, g) == dignityOf(g, signOf(Position(n, g)), degreeInSign(Position(n, g)))

isCombust(n, g) ==
  /\ g \in DOMAIN combustionOrb
  /\ angularDistance(Position(n, g), Position(n, "Sun")) <= combustionOrb[g] * Degree

\* The place in the chart of the house at distance d, 1 for the same house.
HouseAt(house, d) == ((house - 1 + d - 1) % 12) + 1

houseDistance(a, b) == ((b - a + 12) % 12) + 1

\* Aspects of a graha: on houses, and on the grahas in them.
AspectedHouses(n, g) == {HouseAt(House(n, g), d) : d \in drishtiHouses[g]}
Aspects(n, g) == {h \in Graha \ {g} : House(n, h) \in AspectedHouses(n, g)}

\* The first of those with the highest degree in the order of the chart.
AtmaKaraka(n) ==
  LET order == <<"Sun", "Moon", "Mars", "Mercury", "Jupiter", "Venus", "Saturn", "Rahu">>
      degree(i) == degreeInSign(Position(n, order[i]))
      highest == {i \in 1 .. 8 : \A j \in 1 .. 8 : degree(j) <= degree(i)}
  IN order[Min(highest)]

----------------------------------------------------------------------------
(* Ashtakavarga: avBenefic, by planet and contributor the distances that get a *)
(* bindu; the contributors in the order of the table.                          *)

Contributor == <<"Sun", "Moon", "Mars", "Mercury", "Jupiter", "Venus", "Saturn", "Lagna">>

avBenefic ==
  [Sun |-> << {1, 2, 4, 7, 8, 9, 10, 11}, {3, 6, 10, 11}, {1, 2, 4, 7, 8, 9, 10, 11},
      {3, 5, 6, 9, 10, 11, 12}, {5, 6, 9, 11}, {6, 7, 12}, {1, 2, 4, 7, 8, 9, 10, 11},
      {3, 4, 6, 10, 11, 12} >>,
   Moon |-> << {3, 6, 7, 8, 10, 11}, {1, 3, 6, 7, 10, 11}, {2, 3, 5, 6, 9, 10, 11},
      {1, 3, 4, 5, 7, 8, 10, 11}, {1, 4, 7, 8, 10, 11, 12}, {3, 4, 5, 7, 9, 10, 11},
      {3, 5, 6, 11}, {3, 6, 10, 11} >>,
   Mars |-> << {3, 5, 6, 10, 11}, {3, 6, 11}, {1, 2, 4, 7, 8, 10, 11}, {3, 5, 6, 11},
      {6, 10, 11, 12}, {6, 8, 11, 12}, {1, 4, 7, 8, 9, 10, 11}, {1, 3, 6, 10, 11} >>,
   Mercury |-> << {5, 6, 9, 11, 12}, {2, 4, 6, 8, 10, 11}, {1, 2, 4, 7, 8, 9, 10, 11},
      {1, 3, 5, 6, 9, 10, 11, 12}, {6, 8, 11, 12}, {1, 2, 3, 4, 5, 8, 9, 11},
      {1, 2, 4, 7, 8, 9, 10, 11}, {1, 2, 4, 6, 8, 10, 11} >>,
   Jupiter |-> << {1, 2, 3, 4, 7, 8, 9, 10, 11}, {2, 5, 7, 9, 11}, {1, 2, 4, 7, 8, 10, 11},
      {1, 2, 4, 5, 6, 9, 10, 11}, {1, 2, 3, 4, 7, 8, 10, 11}, {2, 5, 6, 9, 10, 11},
      {3, 5, 6, 12}, {1, 2, 4, 5, 6, 7, 9, 10, 11} >>,
   Venus |-> << {8, 11, 12}, {1, 2, 3, 4, 5, 8, 9, 11, 12}, {3, 4, 6, 9, 11, 12},
      {3, 5, 6, 9, 11}, {5, 8, 9, 10, 11}, {1, 2, 3, 4, 5, 8, 9, 10, 11},
      {3, 4, 5, 8, 9, 10, 11}, {1, 2, 3, 4, 5, 8, 9, 11} >>,
   Saturn |-> << {1, 2, 4, 7, 8, 10, 11}, {3, 6, 11}, {3, 5, 6, 10, 11, 12},
      {6, 8, 9, 10, 11, 12}, {5, 6, 11, 12}, {6, 11, 12}, {3, 5, 6, 11},
      {1, 3, 4, 6, 10, 11} >>]

ContributorSign(c) == IF c = "Lagna" THEN LagnaSign(1) ELSE signOf(Rashi(c))

\* The bindus of planet g in a sign.
Bhinn(g, sign) ==
  Cardinality({i \in 1 .. 8 : \E d \in avBenefic[g][i] :
                 (ContributorSign(Contributor[i]) + d - 1) % 12 = sign})

Sarva(sign) ==
  Bhinn("Sun", sign) + Bhinn("Moon", sign) + Bhinn("Mars", sign) + Bhinn("Mercury", sign)
    + Bhinn("Jupiter", sign) + Bhinn("Venus", sign) + Bhinn("Saturn", sign)

----------------------------------------------------------------------------
(* Yogas of the birth chart: the grahas that take part, none when inactive. *)

Kendra == {1, 4, 7, 10}
Trikona == {1, 5, 9}
Dushtana == {6, 8, 12}

HouseOf(g) == House(1, g)
Lord(house) == LordOf(LagnaSign(1) + house - 1)
WellPlaced(g) == Dignity(1, g) \in {"exalted", "own", "mooltrikona"}
SameSign(a, b) == signOf(Rashi(a)) = signOf(Rashi(b))
Connected(a, b) == SameSign(a, b) \/ houseDistance(HouseOf(a), HouseOf(b)) = 7

panchaMahapurusha(g) == IF HouseOf(g) \in Kendra /\ WellPlaced(g) THEN {g} ELSE {}

gajakesari ==
  IF houseDistance(HouseOf("Moon"), HouseOf("Jupiter")) \in Kendra
  THEN {"Moon", "Jupiter"} ELSE {}

budhAditya == IF SameSign("Sun", "Mercury") THEN {"Sun", "Mercury"} ELSE {}

chandraMangala == IF SameSign("Moon", "Mars") THEN {"Moon", "Mars"} ELSE {}

kemadrumaYoga ==
  LET moon == HouseOf("Moon")
      beside == Bhava(1, HouseAt(moon, 12)) \cup Bhava(1, HouseAt(moon, 2))
  IN IF beside \subseteq {"Sun", "Rahu", "Ketu"} /\ moon \notin Kendra THEN {"Moon"} ELSE {}

inArc(start, lon) == 2 * normalize360(lon - start) <= Circle

kalaSarpa ==
  IF \E node \in {"Rahu", "Ketu"} : \A g \in Seven : inArc(Rashi(node), Rashi(g))
  THEN {"Rahu", "Ketu"} ELSE {}

saraswati ==
  LET learned == {"Mercury", "Jupiter", "Venus"} IN
  IF \A g \in learned : HouseOf(g) \in Kendra \cup Trikona \cup {2} THEN learned ELSE {}

lakshmiYoga ==
  IF /\ WellPlaced(Lord(9))
     /\ HouseOf(Lord(9)) \in Kendra \cup Trikona
     /\ HouseOf("Venus") \notin Dushtana
  THEN {Lord(9), "Venus"} ELSE {}

rajaYoga ==
  LET ofKendras == {Lord(h) : h \in Kendra}
      ofTrikonas == {Lord(h) : h \in Trikona}
      joined(a, b) == a # b /\ Connected(a, b)
  IN {a \in ofKendras : \E b \in ofTrikonas : joined(a, b)}
       \cup {b \in ofTrikonas : \E a \in ofKendras : joined(a, b)}

dhanaYoga ==
  IF Lord(2) # Lord(11) /\ Connected(Lord(2), Lord(11)) THEN {Lord(2), Lord(11)} ELSE {}

\* The lords of dushtanas that sit in one: two are needed, one per house.
vipreetaRaja ==
  LET houses == {h \in Dushtana : HouseOf(Lord(h)) \in Dushtana}
  IN IF Cardinality(houses) >= 2 THEN {Lord(h) : h \in houses} ELSE {}

neechaBhanga ==
  {g \in Graha : /\ Dignity(1, g) = "debilitated"
                 /\ HouseOf(LordOf(signOf(Rashi(g)))) \in Kendra}

----------------------------------------------------------------------------
(* Shadbala, in hundredths. *)

shadbalaThreshold ==
  [Sun |-> 390, Moon |-> 360, Mars |-> 300, Mercury |-> 420, Jupiter |-> 390,
   Venus |-> 330, Saturn |-> 300]

naisargikaBala ==
  [Sun |-> 6000, Moon |-> 5143, Venus |-> 4285, Jupiter |-> 3428, Mercury |-> 2571,
   Mars |-> 1714, Saturn |-> 857]

digBalaJoy ==
  [Sun |-> 10, Mars |-> 10, Jupiter |-> 1, Mercury |-> 1, Venus |-> 4, Moon |-> 4,
   Saturn |-> 7]

sthanaBalaOf(dignity) ==
  CASE dignity = "exalted" -> 6000 [] dignity = "mooltrikona" -> 4500
    [] dignity = "own" -> 3000     [] dignity = "friend" -> 2250
    [] dignity = "neutral" -> 1500 [] dignity = "enemy" -> 750
    [] dignity = "debilitated" -> 0

digBalaOf(g, house) ==
  LET d == (house - digBalaJoy[g] + 12) % 12
  IN 1000 * (IF d > 6 THEN d - 6 ELSE 6 - d)

\* The Moon's phase and the hours of the day.
kalaBalaOf(g) ==
  LET phase == angularDistance(Rashi("Moon"), Rashi("Sun"))
      pakshaBala == IF g = "Moon" THEN (6000 * phase) \div (Circle \div 2) ELSE 0
      strong == {"Mercury"} \cup (IF dayBirth THEN {"Sun", "Jupiter", "Venus"}
                                             ELSE {"Moon", "Mars", "Saturn"})
  IN pakshaBala + IF g \in strong THEN 6000 ELSE 0

chestaBalaOf(g) == IF g \notin {"Sun", "Moon"} /\ g \in retrograde THEN 6000 ELSE 3000

drikBalaOf(g) ==
  LET good == {h \in {"Jupiter", "Venus", "Mercury"} : g \in Aspects(1, h)}
      bad == {h \in {"Sun", "Mars", "Saturn", "Rahu", "Ketu"} : g \in Aspects(1, h)}
      score == 1500 * Cardinality(good) - 1000 * Cardinality(bad)
  IN IF score > 6000 THEN 6000 ELSE IF score < -6000 THEN -6000 ELSE score

Total(g) ==
  sthanaBalaOf(Dignity(1, g)) + digBalaOf(g, HouseOf(g)) + kalaBalaOf(g)
    + chestaBalaOf(g) + naisargikaBala[g] + drikBalaOf(g)

Sufficient(g) == Total(g) >= 100 * shadbalaThreshold[g]

----------------------------------------------------------------------------
(* Charts: from the first placement a few grahas, or the ascendant, elsewhere. *)

\* Mercury and Venus are never far from the Sun, Rahu and Ketu never coincide.
InTheSky(s) ==
  /\ angularDistance(s["Mercury"], s["Sun"]) <= 28 * Degree
  /\ angularDistance(s["Venus"], s["Sun"]) <= 48 * Degree

Computed == sky # <<>>

VedicInit ==
  /\ sky = <<>>
  /\ ascendant = 0
  /\ retrograde = {}
  /\ dayBirth = FALSE
  /\ moves = 0

\* GetVedicChart
ComputeVedicChart(first) ==
  /\ ~ Computed
  /\ sky' = first
  /\ retrograde' \in {{"Rahu"}, {"Rahu", "Mars", "Jupiter", "Saturn"}}
  /\ dayBirth' \in BOOLEAN
  /\ UNCHANGED <<ascendant, moves>>

OtherPlace(g, lon) ==
  /\ Computed /\ moves < MaxMoves
  /\ sky' = [sky EXCEPT ![g] = lon]
  /\ InTheSky(sky')
  /\ moves' = moves + 1
  /\ UNCHANGED <<ascendant, retrograde, dayBirth>>

OtherHour(lon) ==
  /\ Computed /\ moves < MaxMoves
  /\ ascendant' = lon
  /\ moves' = moves + 1
  /\ UNCHANGED <<sky, retrograde, dayBirth>>

VedicNext ==
  \/ \E first \in FirstSky : ComputeVedicChart(first)
  \/ \E lon \in Longitude : OtherHour(lon) \/ \E g \in Placed : OtherPlace(g, lon)

VedicSpec == VedicInit /\ [][VedicNext]_vedicVars

----------------------------------------------------------------------------
(* Properties. *)

\* The divisional charts agree with the mansions and with each other: a navamsa is
\* the quarter of the mansion, counted from Aries; the harmonic divisions (7, 9,
\* 16, 20, 27), written by kind of sign in the code, run on around the zodiac; and
\* remapping keeps a longitude in the part it came from.
VargasAgree ==
  Computed => \A lon \in {ascendant} \cup {Rashi(g) : g \in Graha} :
    /\ VargaSign(9, lon) = (4 * nakshatraOf(lon) + padaOf(lon)) % 12
    /\ \A n \in {7, 9, 16, 20, 27} :
         VargaSign(n, lon) = ((lon * n) \div SignSpan) % 12
    /\ \A n \in Divisor \ {30} :
         /\ signOf(VargaLongitude(n, lon)) = VargaSign(n, lon)
         /\ n > 1 => PartOf(n, VargaLongitude(n, lon)) = PartOf(n, lon)

\* In every chart the twelve houses share out the grahas, opposite grahas aspect
\* each other, no graha aspects its own house or the next, and in the birth chart
\* a combust graha is at most one house away from the Sun.
ChartCoheres ==
  Computed =>
  /\ \A n \in {1, 9, 10} : \A g \in Graha :
       /\ \A h \in Graha : houseDistance(House(n, g), House(n, h)) = 7
            => h \in Aspects(n, g) /\ g \in Aspects(n, h)
       /\ AspectedHouses(n, g) \cap {House(n, g), (House(n, g) % 12) + 1} = {}
  /\ \A g \in Graha : isCombust(1, g) =>
       houseDistance(HouseOf("Sun"), HouseOf(g)) \in {12, 1, 2}
  /\ "Ketu" \in Aspects(1, "Rahu") /\ "Rahu" \in Aspects(1, "Ketu")

\* However the grahas stand, each of the seven gets its classical number of bindus,
\* 337 in all: the table of 56 rows has no row too long or too short.
BindusAreConstant ==
  LET inAll(f) == f[0] + f[1] + f[2] + f[3] + f[4] + f[5]
                    + f[6] + f[7] + f[8] + f[9] + f[10] + f[11]
  IN Computed =>
     /\ \A g \in Seven : inAll([sign \in 0 .. 11 |-> Bhinn(g, sign)])
          = [Sun |-> 48, Moon |-> 49, Mars |-> 39, Mercury |-> 54, Jupiter |-> 56,
             Venus |-> 52, Saturn |-> 39][g]
     /\ inAll([sign \in 0 .. 11 |-> Sarva(sign)]) = 337

\* Kala Sarpa is active exactly when no two of the seven stand on different sides
\* of the nodes; whoever takes part in a Raja yoga is connected with another
\* participant; and Vipreeta Raja never counts one lord twice.
YogasAreSound ==
  LET side(g) == normalize360(Rashi(g) - Rashi("Rahu"))
      half == Circle \div 2
  IN Computed =>
     /\ (kalaSarpa # {}) = ~ \E a, b \in Seven :
           side(a) > 0 /\ side(a) < half /\ side(b) > half
     /\ \A a \in rajaYoga : \E b \in rajaYoga \ {a} : Connected(a, b)
     /\ vipreetaRaja # {} => Cardinality(vipreetaRaja) >= 2
     /\ neechaBhanga \cap (lakshmiYoga \ {"Venus"}) = {}

\* The Sun, Mercury, Jupiter, Venus and Saturn never reach the strength the code
\* requires of them: the parts computed cannot add up to the thresholds, which
\* are those of the full classical system.
OnlyMoonAndMarsSuffice == Computed => \A g \in Seven : Sufficient(g) => g \in {"Moon", "Mars"}
============================================================================
