--------------------------- MODULE BirthSquares ---------------------------
(***************************************************************************)
(* The two squares of a birth date: the Pythagoras square (package         *)
(* psychomatrix) and the Matrix of Destiny (package destinymatrix), with   *)
(* the services that lay them out.  Titles and meanings are left out.      *)
(*                                                                         *)
(* The key of a point of the octagram is <<name, 0>>, of one on an edge    *)
(* <<outer point, place>>, place 1 next to the outer point; an age is in   *)
(* hundredths of a year.                                                   *)
(***************************************************************************)
EXTENDS Digits, Sequences, FiniteSets, SequencesExt

CONSTANT BirthDay  \* birth dates asked about, [y, m, d]

VARIABLE birthDate \* of the profile, empty before it is saved

squareVars == <<birthDate>>

\* A year has four digits at most.
ASSUME SquareAssumption ==
  BirthDay \subseteq {date \in [y : Nat, m : 1 .. 12, d : 1 .. 31] : 0 < date.y /\ date.y < 10000}

----------------------------------------------------------------------------
(* Psychomatrix. *)

digitalRoot[n \in Nat] == IF n < 10 THEN n ELSE digitalRoot[DigitSum[n]]

digitsOf[n \in Nat] == IF n = 0 THEN <<>> ELSE Append(digitsOf[n \div 10], n % 10)

firstDigitOfDay(d) == IF d < 10 THEN d ELSE d \div 10

\* The four working numbers; the third is signed.
Working(date) ==
  LET w1 == DigitSum[date.d] + DigitSum[date.m] + DigitSum[date.y]
      w3 == w1 - 2 * firstDigitOfDay(date.d)
  IN <<w1, digitalRoot[w1], w3, digitalRoot[Magnitude(w3)]>>

\* The digits of the date and of the working numbers.
Pool(date) ==
  LET w == Working(date)
  IN digitsOf[date.d] \o digitsOf[date.m] \o digitsOf[date.y]
       \o digitsOf[w[1]] \o digitsOf[w[2]] \o digitsOf[Magnitude(w[3])] \o digitsOf[w[4]]

Counts(date) ==
  LET pool == Pool(date)
  IN [digit \in 1 .. 9 |-> Cardinality({i \in DOMAIN pool : pool[i] = digit})]

\* LineDefs: rows, columns, diagonals.
Row == << <<1, 4, 7>>, <<2, 5, 8>>, <<3, 6, 9>> >>
Column == << <<1, 2, 3>>, <<4, 5, 6>>, <<7, 8, 9>> >>
Diagonal == << <<1, 5, 9>>, <<3, 5, 7>> >>

Strength(counts, line) == counts[line[1]] + counts[line[2]] + counts[line[3]]

----------------------------------------------------------------------------
(* Matrix of Destiny. *)

Folded[n \in Nat] == IF n > 22 THEN Folded[DigitSum[n]] ELSE n

reduce(n) == Folded[n]

subdivide(p, center) ==
  LET mid == reduce(p + center)
  IN <<reduce(p + mid), mid, reduce(mid + center)>>

\* Edges from an outer point to the center: arms and diagonals.
Edge == {"day", "month", "year", "sum", "tl", "tr", "br", "bl"}

Cardinals(date) ==
  LET day == reduce(date.d)
      month == reduce(date.m)
      year == reduce(DigitSum[date.y])
  IN [day |-> day, month |-> month, year |-> year, sum |-> reduce(day + month + year)]

\* The outer points.
Outer(date) ==
  LET c == Cardinals(date) IN
  [day |-> c.day, month |-> c.month, year |-> c.year, sum |-> c.sum,
   tl |-> reduce(c.day + c.month), tr |-> reduce(c.month + c.year),
   br |-> reduce(c.year + c.sum), bl |-> reduce(c.sum + c.day)]

CenterPoint(date) ==
  LET c == Cardinals(date) IN reduce(c.day + c.month + c.year + c.sum)

Purpose(date) ==
  LET c == Cardinals(date)
      heaven == reduce(c.month + c.sum)
      earth == reduce(c.day + c.year)
  IN [heaven |-> heaven, earth |-> earth, personal |-> reduce(heaven + earth)]

\* PointDefs: every key the painter places.
PointKey == (Edge \X (0 .. 3)) \cup ({"center", "heaven", "earth", "personal"} \X {0})

Value(date, key) ==
  CASE key \in Edge \X {0} -> Outer(date)[key[1]]
    [] key = <<"center", 0>> -> CenterPoint(date)
    [] key \in (DOMAIN Purpose(date)) \X {0} -> Purpose(date)[key[1]]
    [] key \in Edge \X (1 .. 3) -> subdivide(Outer(date)[key[1]], CenterPoint(date))[key[2]]
    [] OTHER -> 0

\* LineDefs: the points a line runs through; the generation lines cross the
\* whole octagram, the money and love lines end in the center.
Inward(corner) == [i \in 1 .. 4 |-> <<corner, i - 1>>]
LineDefs ==
  LET center == << <<"center", 0>> >> IN
  { << <<"day", 0>> >> \o center \o << <<"year", 0>> >>,
    << <<"month", 0>> >> \o center \o << <<"sum", 0>> >>,
    Inward("br") \o center,
    Inward("bl") \o center,
    Inward("tl") \o center \o Reverse(Inward("br")),
    Inward("tr") \o center \o Reverse(Inward("bl")) }

\* The corners in the order of their ages.
Clockwise == <<"day", "tl", "month", "tr", "year", "br", "sum", "bl">>

\* The eight rungs of an edge: its first corner and seven ticks.
Ticks(v0, v8) ==
  LET v4 == reduce(v0 + v8)
      v2 == reduce(v0 + v4)
      v6 == reduce(v4 + v8)
  IN <<v0, reduce(v0 + v2), v2, reduce(v2 + v4), v4, reduce(v4 + v6), v6, reduce(v6 + v8)>>

ageLadder(date) ==
  LET corner(i) == Outer(date)[Clockwise[(i % 8) + 1]] IN
  [n \in 0 .. 63 |-> [age |-> 1000 * (n \div 8) + 125 * (n % 8),
                      arcana |-> Ticks(corner(n \div 8), corner((n \div 8) + 1))[(n % 8) + 1]]]

----------------------------------------------------------------------------
(* The profile is saved with one date after another. *)

Saved == birthDate # <<>>

SquareInit == birthDate = <<>>

SaveDate(date) == birthDate' = date

SquareNext == \E date \in BirthDay : SaveDate(date)

SquareSpec == SquareInit /\ [][SquareNext]_squareVars

----------------------------------------------------------------------------
(* Properties. *)

\* Rows and columns of the Pythagoras square both add up to the digits pooled;
\* the signed third working number is negative only for the days 1 to 9 of a month
\* (of a date since 1900), and where it is not, the second and fourth numbers
\* differ as the first and third do, modulo 9.
SquareBalances ==
  LET counts == Counts(birthDate)
      w == Working(birthDate)
      all(lines) == Strength(counts, lines[1]) + Strength(counts, lines[2]) + Strength(counts, lines[3])
  IN Saved =>
     /\ all(Row) = all(Column)
     /\ all(Row) = Cardinality({i \in DOMAIN Pool(birthDate) : Pool(birthDate)[i] # 0})
     /\ w[3] >= 0 => (w[1] - w[3]) % 9 = (w[2] - w[4]) % 9
     /\ w[3] < 0 => birthDate.d < 10 \/ birthDate.y < 1900

\* Every point of the octagram has one of the 22 arcana, every line runs through
\* points that exist, and, because summing digits keeps a number modulo 9, the
\* personal purpose agrees with the center, opposite corners add up to it, and the
\* middle tick of every edge of the age ladder to its two corners.
OctagramAgrees ==
  LET outer == Outer(birthDate)
      center == CenterPoint(birthDate)
      ladder == ageLadder(birthDate)
  IN Saved =>
     /\ \A key \in PointKey : Value(birthDate, key) \in 1 .. 22
     /\ \A line \in LineDefs : Range(line) \subseteq PointKey
     /\ center % 9 = Purpose(birthDate).personal % 9
     /\ center % 9 = (outer.tl + outer.br) % 9
     /\ center % 9 = (outer.tr + outer.bl) % 9
     /\ \A i \in 0 .. 7 :
          /\ ladder[8 * i].age = 1000 * i
          /\ ladder[8 * i].arcana = outer[Clockwise[i + 1]]
          /\ ladder[8 * i + 4].arcana % 9
               = (ladder[8 * i].arcana + ladder[(8 * i + 8) % 64].arcana) % 9
============================================================================
