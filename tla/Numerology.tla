---------------------------- MODULE Numerology ----------------------------
(***************************************************************************)
(* The numerology reading (package numerology, numerology_service.go): the *)
(* numbers of a birth date and of a name, the cycles of a day, and the     *)
(* score of two profiles.                                                  *)
(*                                                                         *)
(* A letter is its place in the Latin alphabet, 0 for a letter outside it; *)
(* a name is the sequence of its letters.  A date is [y, m, d].  The       *)
(* canned descriptions are left out.                                       *)
(***************************************************************************)
EXTENDS Digits, Sequences, FiniteSets

CONSTANTS
  BirthDate,  \* birth dates asked about
  FullName,   \* names asked about
  Month, Day, \* the months and days the clock shows
  FirstYear, LastYear

VARIABLES
  born, fullName,  \* the profile and the name of the account, empty before it asks
  now              \* the server's date

numerologyVars == <<born, fullName, now>>

ASSUME NumerologyAssumption ==
  /\ BirthDate \subseteq [y : Nat, m : 1 .. 12, d : 1 .. 31]
  /\ FullName \subseteq Seq(0 .. 26)
  /\ Month \subseteq 1 .. 12 /\ Day \subseteq 1 .. 31
  /\ FirstYear \in Nat /\ LastYear \in Nat

IsMaster(n) == n \in {11, 22, 33}

\* Digits are summed until one digit or a master number is left; a sum of
\* 13, 14, 16 or 19 on the way is a karmic debt.
Reduced[n \in Nat] ==
  IF n < 10 \/ IsMaster(n) THEN [value |-> n, debt |-> FALSE]
  ELSE LET next == Reduced[DigitSum[n]] IN
       [next EXCEPT !.debt = @ \/ n \in {13, 14, 16, 19}]

Number(n) == LET r == Reduced[Magnitude(n)] IN
             [value |-> r.value, raw |-> Magnitude(n), debt |-> r.debt]

reduceFinal(n) == DigitSum[Number(n).value]

----------------------------------------------------------------------------
(* Numbers of the birth date and of the name. *)

Parts(date) == [m |-> reduceFinal(date.m), d |-> reduceFinal(date.d),
                y |-> reduceFinal(date.y)]

LifePath(date) == LET p == Parts(date) IN Number(p.m + p.d + p.y)

letterValue(letter) == IF letter = 0 THEN 0 ELSE ((letter - 1) % 9) + 1

Letter == 1 .. 26
Vowel == {1, 5, 9, 15, 21}

\* Over the letters of a name that are in a set.
sumLetters(name, kept) ==
  LET total[i \in 0 .. Len(name)] ==
        IF i = 0 THEN 0
        ELSE total[i - 1] + IF name[i] \in kept THEN letterValue(name[i]) ELSE 0
  IN total[Len(name)]

Expression(name)  == Number(sumLetters(name, Letter))
SoulUrge(name)    == Number(sumLetters(name, Vowel))

Personality(name) == Number(sumLetters(name, Letter \ Vowel))
Maturity(date, name) == Number(LifePath(date).value + Expression(name).value)

\* How often a digit occurs among the letters of the name.
Occurs(name, digit) ==
  Cardinality({i \in DOMAIN name : letterValue(name[i]) = digit})

KarmicLessons(name) == {digit \in 1 .. 9 : Occurs(name, digit) = 0}

\* The first of the digits that occur most, 0 when no letter counts.
HiddenPassion(name) ==
  LET most == {a \in 1 .. 9 : \A b \in 1 .. 9 :
                 Occurs(name, b) <= Occurs(name, a)}
  IN IF KarmicLessons(name) = 1 .. 9 THEN 0
     ELSE CHOOSE a \in most : \A b \in most : a <= b

----------------------------------------------------------------------------
(* Cycles. *)

Before(a, b) == \* the month and day of a come before those of b
  a.m < b.m \/ (a.m = b.m /\ a.d < b.d)

\* Faulty variant: the day of the birthday is not looked at.
AgeByMonth(birth, date) ==
  LET years == date.y - birth.y - (IF date.m < birth.m THEN 1 ELSE 0)
  IN IF years < 0 THEN 0 ELSE years

AgeAt(birth, date) ==
  LET years == date.y - birth.y - (IF Before(date, birth) THEN 1 ELSE 0)
  IN IF years < 0 THEN 0 ELSE years

PersonalYear(birth, date) ==
  Number(Parts(birth).m + Parts(birth).d + reduceFinal(date.y))

PersonalMonth(birth, date) ==
  Number(PersonalYear(birth, date).value + reduceFinal(date.m))

PersonalDay(birth, date) ==
  Number(PersonalMonth(birth, date).value + reduceFinal(date.d))

\* The last age of the first of the four cycles.
FirstEnd(birth) ==
  LET end == 36 - reduceFinal(LifePath(birth).value) IN IF end < 27 THEN 27 ELSE end

\* Ages of cycle i; the fourth (EndAge -1) has no end.
StartAge(birth, i) == IF i = 1 THEN 0 ELSE FirstEnd(birth) + 9 * (i - 2) + 1

\* Faulty variant: the birthday a cycle ends on belongs to both.
EndAgeShared(birth, i) == IF i = 4 THEN -1 ELSE FirstEnd(birth) + 9 * (i - 1) + 1

EndAge(birth, i) == IF i = 4 THEN -1 ELSE FirstEnd(birth) + 9 * (i - 1)

ageInRange(age, start, end) == age >= start /\ (end = -1 \/ age <= end)

Active(birth, date) ==
  {i \in 1 .. 4 : ageInRange(AgeAt(birth, date), StartAge(birth, i), EndAge(birth, i))}

Pinnacle(birth, i) ==
  LET p == Parts(birth)
      first == Number(p.m + p.d)
      second == Number(p.d + p.y)
  IN CASE i = 1 -> first
       [] i = 2 -> second
       [] i = 3 -> Number(first.value + second.value)
       [] i = 4 -> Number(p.m + p.y)

Challenge(birth, i) ==
  LET p == Parts(birth)
      first == Number(p.m - p.d)
      second == Number(p.d - p.y)
  IN CASE i = 1 -> first
       [] i = 2 -> second
       [] i = 3 -> Number(first.value - second.value)
       [] i = 4 -> Number(p.m - p.y)

----------------------------------------------------------------------------
(* Two profiles. *)

\* The upper triangle of the table of pairings, row a from column a on.
classicCompat ==
  << <<55, 50, 85, 50, 80, 75, 80, 60, 80>>,
     <<80, 65, 85, 50, 90, 70, 85, 80>>,
     <<75, 50, 80, 85, 60, 55, 80>>,
     <<70, 50, 75, 85, 90, 65>>,
     <<75, 60, 85, 65, 75>>,
     <<80, 65, 70, 90>>,
     <<65, 60, 75>>,
     <<75, 70>>,
     <<80>> >>

\* 60 for a pair outside the table: a name without Latin letters has number 0.
compatScore(v, w) ==
  LET a == DigitSum[v]
      b == DigitSum[w]
      low == IF a <= b THEN a ELSE b
      high == IF a <= b THEN b ELSE a
  IN IF low = 0 THEN 60 ELSE classicCompat[low][high - low + 1]

Compatibility(birthA, nameA, birthB, nameB) ==
  LET life == compatScore(LifePath(birthA).value, LifePath(birthB).value)
      expr == compatScore(Expression(nameA).value, Expression(nameB).value)
      soul == compatScore(SoulUrge(nameA).value, SoulUrge(nameB).value)
  IN (life * 50 + expr * 30 + soul * 20) \div 100

----------------------------------------------------------------------------
(* One account, day by day. *)

Asked == born # <<>>

NumerologyInit == born = <<>> /\ fullName = <<>> /\ now = <<>>

\* GetProfile
AskNumbers(date, name, today) ==
  /\ ~ Asked
  /\ born' = date
  /\ fullName' = name
  /\ now' = today

\* The next date the clock shows.
DatePasses ==
  LET later == {date \in [y : {now.y, now.y + 1}, m : Month, d : Day] :
                  date.y > now.y \/ Before(now, date)}
  IN /\ Asked /\ now.y < LastYear
     /\ now' = CHOOSE date \in later : \A other \in later :
                 date.y < other.y \/ (date.y = other.y /\ ~ Before(other, date))
     /\ UNCHANGED <<born, fullName>>

NumerologyNext ==
  \/ \E date \in BirthDate, name \in FullName,
        today \in [y : FirstYear .. LastYear, m : Month, d : Day] : AskNumbers(date, name, today)
  \/ DatePasses

NumerologySpec == NumerologyInit /\ [][NumerologyNext]_numerologyVars

----------------------------------------------------------------------------
(* Properties. *)

\* The digital root: what summing digits must end in.
Root(n) == IF n = 0 THEN 0 ELSE ((n - 1) % 9) + 1

\* Reducing in steps, part by part and with the master numbers kept, ends in the
\* digital root of the plain sum: of the birth date, of the name's vowels and
\* consonants, and of the personal day; the strongest digit of a name is never
\* one of its lessons.
NumbersAddUp ==
  Asked =>
  /\ Root(LifePath(born).value) = Root(born.y + born.m + born.d)
  /\ Root(Expression(fullName).value)
       = Root(SoulUrge(fullName).raw + Personality(fullName).raw)
  /\ Root(PersonalDay(born, now).value)
       = Root(born.m + born.d + now.y + now.m + now.d)
  /\ HiddenPassion(fullName) \notin KarmicLessons(fullName)
  /\ (HiddenPassion(fullName) = 0) = (Expression(fullName).value = 0)

\* At every age exactly one of the four life cycles is the active one, and the
\* first ends between 27 and 35 (cycles.go, Pinnacles and Challenges).
OneCycleIsActive ==
  Asked =>
  /\ Cardinality(Active(born, now)) = 1
  /\ FirstEnd(born) \in 27 .. 35

\* The score of two people does not depend on which of them asks, and it lies
\* between the lowest and the highest entry of the table.
ScoreIsMutual ==
  Asked => \A other \in (BirthDate \X {fullName}) \cup ({born} \X FullName) :
    LET score == Compatibility(born, fullName, other[1], other[2]) IN
    /\ score = Compatibility(other[1], other[2], born, fullName)
    /\ score \in 50 .. 90

\* The active cycle of an account turns to the next one, never back and never by
\* two, and only on a day that is or follows a birthday the clock had not reached.
CycleTurn ==
  Asked /\ Active(born, now)' # Active(born, now)
  => /\ \E i \in 1 .. 3 : Active(born, now) = {i} /\ Active(born, now)' = {i + 1}
     /\ \E y \in {now.y, now'.y} :
          /\ y > now.y \/ Before(now, born)
          /\ y < now'.y \/ ~ Before(now', born)
============================================================================
