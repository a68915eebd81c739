----------------------------- MODULE NatalChart -----------------------------
(***************************************************************************)
(* The western birth chart (client.go, aspects.go and zodiac.go of package *)
(* swisseph): the house a planet is in, given twelve cusps of unequal      *)
(* houses, the aspects between planets and the share of each element.      *)
(*                                                                         *)
(* The Swiss Ephemeris, which gives places and cusps, is outside: the      *)
(* places and the cusps are some, the cusps in their order around the      *)
(* circle.  The rounding of degrees to two digits is left out; shares are  *)
(* in hundredths of a per cent and are rounded as in the code.             *)
(***************************************************************************)
EXTENDS Zodiac, Sequences, FiniteSets, FiniteSetsExt, SequencesExt

CONSTANTS
  FirstCusp, \* computeHouses: longitudes of the first cusp
  Offset,    \* how far the twelve cusps are from the first: [1 .. 12 -> longitude]
  Place      \* computePlanets: [planet -> longitude]

ASSUME NatalAssumption ==
  /\ FirstCusp \subseteq Int
  /\ \A o \in Offset : /\ o \in [1 .. 12 -> 0 .. Circle - 1] /\ o[1] = 0
                      /\ \A i \in 1 .. 11 : o[i] < o[i + 1]
  /\ \A p \in Place : p \in [DOMAIN p -> 0 .. Circle - 1]

VARIABLES
  cusps,   \* twelve longitudes
  planets  \* [planet -> longitude], empty before a chart is asked for

natalVars == <<cusps, planets>>

Traditional == {"Sun", "Moon", "Mercury", "Venus", "Mars", "Jupiter", "Saturn"}

----------------------------------------------------------------------------
\* Faulty variant: no house holds the first point of Aries within it.
InHouseUnwrapped(lon, i) == lon >= cusps[i] /\ lon < cusps[(i % 12) + 1]

\* House i runs from its cusp to the next, over the first point of Aries where the
\* next is smaller.
InHouse(lon, i) ==
  LET start == normalize360(cusps[i])
      end == normalize360(cusps[(i % 12) + 1])
  IN IF start <= end THEN lon >= start /\ lon < end ELSE lon >= start \/ lon < end

houseForLongitude(lon) ==
  LET holding == {i \in 1 .. 12 : InHouse(normalize360(lon), i)}
  IN IF holding = {} THEN 1 ELSE Min(holding)

\* Angle and orb.
majorAspects ==
  << <<"conjunction", 0, 8>>, <<"sextile", 60, 6>>, <<"square", 90, 8>>,
     <<"trine", 120, 8>>, <<"opposition", 180, 10>>, <<"quincunx", 150, 3>> >>

AbsOf(n) == IF n < 0 THEN - n ELSE n

Matches(a, b) ==
  {i \in 1 .. 6 : AbsOf(angularDistance(planets[a], planets[b]) - majorAspects[i][2] * Degree)
                    <= majorAspects[i][3] * Degree}

\* computeAspects: the first that fits.
AspectOf(a, b) == IF Matches(a, b) = {} THEN "none" ELSE majorAspects[Min(Matches(a, b))][1]

ElementOf(lon) == <<"fire", "earth", "air", "water">>[(signOf(lon) % 4) + 1]

\* n of total in hundredths of a per cent, rounded to the nearest.
Share(n, total) == (20000 * n + total) \div (2 * total)

calculateElements ==
  LET counted == Traditional \cap DOMAIN planets
  IN [e \in {"fire", "earth", "air", "water"} |->
        IF counted = {} THEN 0 ELSE
        Share(Cardinality({p \in counted : ElementOf(planets[p]) = e}), Cardinality(counted))]

----------------------------------------------------------------------------
NatalInit ==
  /\ cusps = <<>>
  /\ planets = <<>>

\* GetNatalChart
ComputeNatalChart(first, offset, places) ==
  /\ planets = <<>>
  /\ cusps' = [i \in 1 .. 12 |-> normalize360(first + offset[i])]
  /\ planets' = places

\* For a later birth: the sky has moved on.
Later(p) ==
  /\ p \in DOMAIN planets
  /\ planets' = [planets EXCEPT ![p] = normalize360(@ + 22 * Degree + 504)]
  /\ UNCHANGED cusps

NatalNext ==
  \/ \E first \in FirstCusp, offset \in Offset, places \in Place :
       ComputeNatalChart(first, offset, places)
  \/ \E p \in {"Sun", "Moon"} : Later(p)

NatalSpec == NatalInit /\ [][NatalNext]_natalVars

----------------------------------------------------------------------------
(* Properties. *)

\* The whole, but for the rounding of four shares.
NearWhole(n) == AbsOf(n - 10000) <= 2

\* Every longitude is in exactly one house, the one whose cusp comes last before it:
\* no gap where the houses pass the first point of Aries, none at a cusp.
OneHouseHolds ==
  \A p \in DOMAIN planets :
    LET since(i) == normalize360(planets[p] - cusps[i])
        house == houseForLongitude(planets[p]) IN
    /\ {i \in 1 .. 12 : InHouse(planets[p], i)} = {house}
    /\ \A i \in 1 .. 12 : since(house) <= since(i)

\* The orbs leave no pair of planets two aspects, so that the order of the table does
\* not matter, and an aspect is the same from both ends; the shares of the elements
\* add up to the whole, but for the rounding of each.
ChartAddsUp ==
  /\ \A a, b \in DOMAIN planets : a # b =>
       Cardinality(Matches(a, b)) <= 1 /\ AspectOf(a, b) = AspectOf(b, a)
  /\ LET e == calculateElements
     IN Traditional \cap DOMAIN planets # {} =>
          NearWhole(e.fire + e.earth + e.air + e.water)
=============================================================================
