------------------------------ MODULE MCCharts ------------------------------
(* What is computed from a birth and what is kept of it, side by side: a behaviour is  *)
(* one of a single component, chosen at the start.                                      *)
EXTENDS Reckoning, Charts, Compatibility, BirthCharts, Readings, TLC

VARIABLE which \* the component this behaviour is of

-----------------------------------------------------------------------------
(* Birth dates, skies and windows *)

Date(y, m, d) == [y |-> y, m |-> m, d |-> d]
BirthDates == {Date(1987, 11, 29), Date(2000, 12, 1), Date(1979, 2, 28)}
FullNames == {<<0>>, <<1, 25, 19, 5>>, <<21, 26, 0, 9>>}
BirthDays == [y : {1899, 1987, 2000, 2019}, m : {1, 9, 12}, d : {1, 9, 10, 22, 23, 29, 30, 31}]

\* Equal houses, and unequal ones as far from the equator.
FirstCusps == {0, 332640}
HouseOffsets ==
  {[i \in 1 .. 12 |-> 30 * Degree * (i - 1)],
   [i \in 1 .. 12 |-> Degree * <<0, 20, 45, 75, 120, 160, 180, 200, 220, 245, 275, 320>>[i]]}
PlanetPlaces ==
  {[Sun |-> a * Degree, Moon |-> b * Degree, Mercury |-> 30 * Degree, Venus |-> 30 * Degree,
    Mars |-> 359 * Degree, Jupiter |-> 30 * Degree, Saturn |-> 30 * Degree,
    Pluto |-> 30 * Degree] : a \in {0, 100}, b \in {355, 20}}

\* Two skies, one with strong grahas and one with all of them between the nodes.
Spot(sign, degree) == sign * SignSpan + degree * Degree
VedicSkies ==
  {[Sun |-> Spot(0, 10), Moon |-> Spot(1, 3), Mars |-> Spot(9, 28), Mercury |-> Spot(0, 15),
    Jupiter |-> Spot(3, 5), Venus |-> Spot(11, 27), Saturn |-> Spot(6, 20), Rahu |-> Spot(2, 10)],
   [Sun |-> Spot(0, 10), Moon |-> Spot(1, 10), Mars |-> Spot(4, 10), Mercury |-> Spot(0, 20),
    Jupiter |-> Spot(3, 5), Venus |-> Spot(11, 27), Saturn |-> Spot(2, 20), Rahu |-> Spot(11, 10)]}
VedicPlaces ==
  {Spot(sign, 10) : sign \in 0 .. 11} \union {Spot(4, 15), Spot(7, 25), Spot(8, 0), Spot(5, 16) + 504}
MoonPlaces ==
  {0, 100, Spot(0, 12), Spot(0, 8) + 336, Spot(4, 11) + 912, Spot(11, 29) + 768}

\* The skies in which the gates of one or two channels are taken, or of a longer chain.
GateStart(g) ==
  LET i == CHOOSE i \in 1 .. 64 : gateSequence[i] = g
  IN (wheelStartLongitude + gateSpan * (i - 1)) % WheelRound
SkyOf(chs) ==
  LET outer == <<"Mercury", "Venus", "Mars", "Jupiter", "Saturn", "Uranus">>
      pairs == SetToSeq({SetToSeq(ch[1]) : ch \in chs})
      gate(k, b) == IF \E n \in DOMAIN pairs : outer[n] = b
                    THEN pairs[CHOOSE n \in DOMAIN pairs : outer[n] = b][k] ELSE 41
  IN [c \in Moment |-> [b \in hdBodies |-> GateStart(gate(IF c = "birth" THEN 1 ELSE 2, b))]]
Chain == {ch \in channels : ch[1] \in {{4, 63}, {1, 8}, {26, 44}, {3, 60}}}
ChannelSkies ==
  {SkyOf({a, b}) : a \in channels, b \in channels} \union {SkyOf({}), SkyOf(Chain)}
WheelPlaces == {GateStart(20), GateStart(10) + 200, GateStart(63) + 1000}

FirstPlaces == {710, 530, 170}
NatalPoints == [Sun |-> [sign |-> 11, degree |-> 55], Midheaven |-> [sign |-> 8, degree |-> 50]]
Windows ==
  {[type |-> "30d", start |-> 13, end |-> 13 + 24 * 30],
   [type |-> "12m", start |-> 0, end |-> 24 * 365],
   [type |-> "year", start |-> 0, end |-> 24 * 366]}
Transit(type, by, aspect, point) == [type |-> type, body |-> by, aspect |-> aspect, point |-> point]
Events ==
  {Transit("lunation", "Moon", "", ""), Transit("aspect", "Saturn", "square", "Sun"),
   Transit("aspect", "Jupiter", "conjunction", "Mars")}

-----------------------------------------------------------------------------
transitsAside == body = [place |-> 710, speed |-> 1] /\ moon = [ahead |-> 0, gain |-> 21]

Init ==
  /\ which \in {"numerology", "squares", "natal", "vedic", "dasha", "humanDesign", "transits",
      "forecasts", "birthCharts", "readings", "compatibility"}
  /\ ReckoningInit /\ ReadingsInit /\ (which = "transits" \/ transitsAside)
  /\ ChartInit /\ ReadingInit /\ CompatInit

Next ==
  \/ /\ which = "numerology" /\ NumerologyNext
     /\ UNCHANGED <<which, squareVars, natalVars, vedicVars, dashaVars, humanDesignVars,
          transitVars, forecastVars, chartVars, readingVars, compatVars>>
  \/ /\ which = "squares" /\ SquareNext
     /\ UNCHANGED <<which, numerologyVars, natalVars, vedicVars, dashaVars, humanDesignVars,
          transitVars, forecastVars, chartVars, readingVars, compatVars>>
  \/ /\ which = "natal" /\ NatalNext
     /\ UNCHANGED <<which, numerologyVars, squareVars, vedicVars, dashaVars, humanDesignVars,
          transitVars, forecastVars, chartVars, readingVars, compatVars>>
  \/ /\ which = "vedic" /\ VedicNext
     /\ UNCHANGED <<which, numerologyVars, squareVars, natalVars, dashaVars, humanDesignVars,
          transitVars, forecastVars, chartVars, readingVars, compatVars>>
  \/ /\ which = "dasha" /\ DashaNext
     /\ UNCHANGED <<which, numerologyVars, squareVars, natalVars, vedicVars, humanDesignVars,
          transitVars, forecastVars, chartVars, readingVars, compatVars>>
  \/ /\ which = "humanDesign" /\ HumanDesignNext
     /\ UNCHANGED <<which, numerologyVars, squareVars, natalVars, vedicVars, dashaVars, transitVars,
          forecastVars, chartVars, readingVars, compatVars>>
  \/ /\ which = "transits" /\ TransitNext
     /\ UNCHANGED <<which, numerologyVars, squareVars, natalVars, vedicVars, dashaVars,
          humanDesignVars, forecastVars, chartVars, readingVars, compatVars>>
  \/ /\ which = "forecasts" /\ ForecastNext
     /\ UNCHANGED <<which, numerologyVars, squareVars, natalVars, vedicVars, dashaVars,
          humanDesignVars, transitVars, chartVars, readingVars, compatVars>>
  \/ /\ which = "birthCharts" /\ ChartNext
     /\ UNCHANGED <<which, numerologyVars, squareVars, natalVars, vedicVars, dashaVars,
          humanDesignVars, transitVars, forecastVars, readingVars, compatVars>>
  \/ /\ which = "readings" /\ ReadingNext
     /\ UNCHANGED <<which, numerologyVars, squareVars, natalVars, vedicVars, dashaVars,
          humanDesignVars, transitVars, forecastVars, chartVars, compatVars>>
  \/ /\ which = "compatibility" /\ CompatNext
     /\ UNCHANGED <<which, numerologyVars, squareVars, natalVars, vedicVars, dashaVars,
          humanDesignVars, transitVars, forecastVars, chartVars, readingVars>>

vars == <<which, numerologyVars, squareVars, natalVars, vedicVars, dashaVars, humanDesignVars,
    transitVars, forecastVars, chartVars, readingVars, compatVars>>

Spec == Init /\ [][Next]_vars

\* Requests, accounts and people are interchangeable: safety properties only.  The same
\* values stand for Born and Person, and for Reader, Asker and Call.
Symmetric == Permutations(Reader) \union Permutations(Born) \union Permutations(User)

=============================================================================
