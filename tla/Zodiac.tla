------------------------------ MODULE Zodiac ------------------------------
(***************************************************************************)
(* Longitudes, signs, lunar mansions and the sixteen divisional charts     *)
(* (zodiac.go, vedic_nakshatra.go, vedic_varga.go of package swisseph).    *)
(*                                                                         *)
(* A longitude is a whole number of units of which a degree has 1008, so   *)
(* that the borders of all parts are whole: the code's float64 rounds at   *)
(* the borders, which is left out, with the clamps that guard against it.  *)
(* A sign is its index, 0 for Aries.                                       *)
(***************************************************************************)
EXTENDS Integers

Degree == 1008
SignSpan == 30 * Degree
Circle == 12 * SignSpan

normalize360(lon) == lon % Circle

signOf(lon) == normalize360(lon) \div SignSpan

degreeInSign(lon) == lon % SignSpan

\* The separation of two longitudes, at most half the circle.
angularDistance(a, b) ==
  LET diff == normalize360(a - b) IN IF 2 * diff > Circle THEN Circle - diff ELSE diff

----------------------------------------------------------------------------
(* Lunar mansions: 27, each of four quarters.  Indexes start at 0. *)

nakshatraSpan == Circle \div 27

nakshatraOf(lon) == normalize360(lon) \div nakshatraSpan

padaOf(lon) == (normalize360(lon) % nakshatraSpan) \div (nakshatraSpan \div 4)

----------------------------------------------------------------------------
(* Divisional charts. *)

Divisor == {1, 2, 3, 4, 7, 9, 10, 12, 16, 20, 24, 27, 30, 40, 45, 60}

\* The code calls Aries, Gemini, ... odd.
OddSign(sign) == sign % 2 = 0

\* Which of the n equal parts of its sign a longitude is in.
PartOf(n, lon) == (degreeInSign(lon) * n) \div SignSpan

\* Navamsa: movable signs are counted from themselves, fixed ones from the ninth,
\* dual ones from the fifth.
NavamsaStart(sign) == sign + (CASE sign % 3 = 0 -> 0 [] sign % 3 = 1 -> 8 [] sign % 3 = 2 -> 4)

\* The sign from which the parts of a sign are counted, by the divisor: from the
\* sign itself, or by whether it is odd, movable, fixed or dual, or its element.
CountedFrom(n, sign) ==
  CASE n \in {7, 10, 60} /\ OddSign(sign) -> sign
    [] n = 7 /\ ~ OddSign(sign)  -> sign + 6
    [] n = 10 /\ ~ OddSign(sign) -> sign + 8
    [] n = 60 /\ ~ OddSign(sign) -> sign + 11
    [] n = 9  -> NavamsaStart(sign)
    [] n = 12 -> sign
    [] n \in {16, 45} -> 4 * (sign % 3)
    [] n = 20 -> 8 * (sign % 3)
    [] n = 24 -> IF OddSign(sign) THEN 4 ELSE 3
    [] n = 27 -> 3 * (sign % 4)
    [] n = 40 -> IF OddSign(sign) THEN 0 ELSE 6

\* Trimsamsa: five unequal parts, each the degree it ends at and its sign.
Trimsamsa(sign) ==
  IF OddSign(sign)
  THEN << <<5, 0>>, <<10, 10>>, <<18, 8>>, <<25, 2>>, <<30, 6>> >>
  ELSE << <<5, 1>>, <<12, 5>>, <<20, 11>>, <<25, 9>>, <<30, 7>> >>

TrimsamsaPart(lon) ==
  CHOOSE i \in 1 .. 5 :
    /\ degreeInSign(lon) < Degree * Trimsamsa(signOf(lon))[i][1]
    /\ \A j \in 1 .. i - 1 : degreeInSign(lon) >= Degree * Trimsamsa(signOf(lon))[j][1]

\* The sign of a longitude in the chart of divisor n.
VargaSign(n, lon) ==
  LET sign == signOf(lon)
      part == PartOf(n, lon)
  IN CASE n = 1 -> sign
       [] n = 2 -> IF OddSign(sign) = (part = 0) THEN 4 ELSE 3
       [] n \in {3, 4} -> (sign + (12 \div n) * part) % 12
       [] n = 30 -> Trimsamsa(sign)[TrimsamsaPart(lon)][2]
       [] OTHER -> (CountedFrom(n, sign) + part) % 12

\* remap: the middle of the part, within the new sign.
VargaLongitude(n, lon) ==
  LET part == IF n = 30 THEN TrimsamsaPart(lon) - 1 ELSE PartOf(n, lon)
  IN IF n = 1 THEN normalize360(lon)
     ELSE VargaSign(n, lon) * SignSpan + ((2 * part + 1) * SignSpan) \div (2 * n)
============================================================================
