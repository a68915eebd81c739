------------------------------- MODULE Dasha -------------------------------
(***************************************************************************)
(* The Vimshottari tree (vedic_dasha.go): nine great periods from birth,   *)
(* 120 years less what the Moon's mansion had used up, each divided in     *)
(* nine and again in nine, and the path of the periods that are current    *)
(* (vedic_service.go recomputes it when it serves the tree from Redis).    *)
(*                                                                         *)
(* Time is counted from birth, a year being 14400 units, so that every     *)
(* period is a whole number of them; the code rounds to nanoseconds.       *)
(***************************************************************************)
EXTENDS Zodiac, Sequences, FiniteSets, FiniteSetsExt

CONSTANT MoonPlace \* sidereal longitudes of the Moon at birth

VARIABLES
  birthMoon, \* where the Moon was at birth
  tree,      \* the nine great periods, as computed and kept in Redis; empty before
  at         \* the moment the path is asked for

dashaVars == <<birthMoon, tree, at>>

ASSUME DashaAssumption == MoonPlace \subseteq Int

Year == 14400

vimshottariOrder ==
  <<"Ketu", "Venus", "Sun", "Moon", "Mars", "Rahu", "Jupiter", "Saturn", "Mercury">>
vimshottariYears == <<7, 20, 6, 10, 7, 18, 16, 19, 17>>

\* A lord is its place in the order, 0 to 8; the mansions repeat the order.
Ruler(lon) == nakshatraOf(lon) % 9
YearsOf(lord) == vimshottariYears[lord + 1]
LordFrom(lord, i) == (lord + i) % 9

\* What the Moon had passed of her mansion, as time of the first period.
Elapsed(lon) ==
  YearsOf(Ruler(lon)) * (Year \div 8)
    * ((normalize360(lon) % nakshatraSpan) \div (nakshatraSpan \div 8))

\* Nine periods that follow each other, the first with the given lord, each of as many
\* units as its lord has years.
InOrder(lord, start, unit) ==
  LET cursor[i \in 0 .. 9] ==
        IF i = 0 THEN start ELSE cursor[i - 1] + unit * YearsOf(LordFrom(lord, i - 1))
  IN [i \in 1 .. 9 |-> [lord |-> LordFrom(lord, i - 1), start |-> cursor[i - 1],
                        end |-> cursor[i], sub |-> <<>>]]

Children(parent) == InOrder(parent.lord, parent.start, (parent.end - parent.start) \div 120)

\* expandDasha: a period divided, and its parts again.
Expanded(period) ==
  [period EXCEPT !.sub =
     LET antars == Children(period)
     IN [j \in 1 .. 9 |-> [antars[j] EXCEPT !.sub = Children(antars[j])]]]

\* The period of the birth began before it.  It is cut off at birth, and so is the
\* part that was current then, but not the parts of that part.  The parts before it, which
\* have ended, are dropped.
CutAtBirth(period) ==
  LET first == Min({j \in 1 .. 9 : period.sub[j].end > 0})
      cut(start) == IF start < 0 THEN 0 ELSE start
  IN [period EXCEPT !.start = 0, !.sub =
        [j \in 1 .. 10 - first |-> [period.sub[first + j - 1] EXCEPT !.start = cut(@)]]]

computeVimshottariFromMoon(lon) ==
  LET whole == InOrder(Ruler(lon), - Elapsed(lon), Year)
  IN [i \in 1 .. 9 |-> IF i = 1 THEN CutAtBirth(Expanded(whole[1])) ELSE Expanded(whole[i])]

Holds(period, t) == t >= period.start /\ t < period.end

Current(periods, t) == {i \in DOMAIN periods : Holds(periods[i], t)}

\* currentDashaPathTree: on each level the first period that holds the moment.
CurrentPath(mahadashas, t) ==
  IF Current(mahadashas, t) = {} THEN <<>>
  ELSE LET maha == mahadashas[Min(Current(mahadashas, t))]
           antar == maha.sub[Min(Current(maha.sub, t))]
           pratyantar == antar.sub[Min(Current(antar.sub, t))]
       IN <<maha, antar, pratyantar>>

----------------------------------------------------------------------------
(* The tree is asked for, and its path again when its smallest period has ended. *)

Grown == tree # <<>>

DashaInit == birthMoon = <<>> /\ tree = <<>> /\ at = <<>>

AskDasha(lon) ==
  /\ ~ Grown
  /\ birthMoon' = lon
  /\ tree' = computeVimshottariFromMoon(lon)
  /\ at' = 0

AskLater ==
  LET path == CurrentPath(tree, at) IN
  /\ Grown /\ path # <<>>
  /\ at' = path[3].end
  /\ UNCHANGED <<birthMoon, tree>>

DashaNext == (\E lon \in MoonPlace : AskDasha(lon)) \/ AskLater

DashaSpec == DashaInit /\ [][DashaNext]_dashaVars

----------------------------------------------------------------------------
(* Properties. *)

\* Until the 120 years are over exactly one period of each level is current, and
\* the parts of a great period add up to it: no moment is in two, none in no period.
OnePeriodIsCurrent ==
  LET left == 120 * Year - Elapsed(birthMoon) IN
  Grown =>
  /\ tree[9].end = left
  /\ at < left =>
       \E i \in 1 .. 9 :
         /\ Current(tree, at) = {i}
         /\ tree[i].sub[1].start = tree[i].start
         /\ tree[i].sub[Len(tree[i].sub)].end = tree[i].end
         /\ \E j \in DOMAIN tree[i].sub :
              /\ Current(tree[i].sub, at) = {j}
              /\ Cardinality(Current(tree[i].sub[j].sub, at)) = 1

\* From one period to the next, the lord that changes on the highest level is
\* followed by the next in the order, and every new period below it begins with
\* the lord it belongs to.
LordTurn ==
  LET old == CurrentPath(tree, at)
      new == CurrentPath(tree, at')
      changed == {n \in 1 .. 3 : old[n].start # new[n].start}
  IN Grown /\ at' # at /\ new # <<>> =>
       /\ changed # {}
       /\ new[Min(changed)].lord = LordFrom(old[Min(changed)].lord, 1)
       /\ \A n \in changed : n > Min(changed) => new[n].lord = new[n - 1].lord
============================================================================
