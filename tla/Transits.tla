------------------------------ MODULE Transits ------------------------------
(***************************************************************************)
(* The walk through a window, day by day, that lists the transits a        *)
(* forecast is written around (transits.go of package swisseph): the new   *)
(* and full moons, and for a slow body its changes of sign, its stations   *)
(* and its aspects to points of the birth chart.                           *)
(*                                                                         *)
(* The ephemeris is outside: the Moon gains a constant arc a day on the    *)
(* Sun, and one slow body moves a unit a day, forward or back.  A degree   *)
(* is two units.  The list is not kept, only the events of the day and     *)
(* what was told last; its sort by date is the order in which it is built. *)
(***************************************************************************)
EXTENDS Integers, FiniteSets, FiniteSetsExt

CONSTANTS
  Natal,       \* natalReferencePoints: [point -> [sign, degree in units]]
  FirstPlace,  \* longitudes of the body on the first day
  Elongation,  \* of the Moon from the Sun on the first day, in units
  MoonGain,    \* what the Moon gains a day, in units
  RepeatDays,  \* after how many days an aspect is told again; 60 in the code
  MaxStations, \* bound: how often the body turns
  LastDay      \* the end of the window

VARIABLES
  day,
  body,       \* [place, speed] of the slow body
  moon,       \* [ahead, gain]: how far the Moon is ahead of the Sun
  seenAspect, \* the day on which an aspect was last told, or -1
  today,      \* the events of the day
  told,       \* of the events before: the last sign, direction and lunation
  stations

transitVars == <<day, body, moon, seenAspect, today, told, stations>>

Degrees(n) == 2 * n
Round == Degrees(360)

transitAspectAngles ==
  [conjunction |-> 0, sextile |-> 60, square |-> 90, trine |-> 120, opposition |-> 180]
Aspect == DOMAIN transitAspectAngles
aspectOrb == Degrees(1)

ASSUME TransitAssumption ==
  /\ \A p \in DOMAIN Natal : Natal[p] \in [sign : 0 .. 11, degree : 0 .. Degrees(30) - 1]
  /\ FirstPlace \subseteq 0 .. Round - 1
  /\ Elongation \subseteq 0 .. Round - 1
  /\ MoonGain \subseteq 1 .. Degrees(90)
  /\ RepeatDays \in Nat \ {0}

----------------------------------------------------------------------------
signIndexFromLongitude(lon) == lon \div Degrees(30)

longitudeFromPlacement(p) == p.sign * Degrees(30) + p.degree

\* In (-180, 180] degrees.
normalizeSignedDelta(d) ==
  LET m == d % Round IN IF m > Degrees(180) THEN m - Round ELSE m

Abs(n) == IF n < 0 THEN - n ELSE n

\* Faulty variant: takes the wrap of the circle for a crossing.
CrossesAtWrap(a, b) == (a < 0 /\ b >= 0) \/ (a > 0 /\ b <= 0)

\* A jump of more than 90 degrees is the wrap of the circle.
crossesZero(a, b) ==
  /\ Abs(a - b) <= Degrees(90)
  /\ (a < 0 /\ b >= 0) \/ (a > 0 /\ b <= 0)

angularOrb(a, b, angle) ==
  LET d == Abs(a - b) % Round
  IN Abs((IF d > Degrees(180) THEN Round - d ELSE d) - angle)

OrbOf(lon, point, aspect) ==
  angularOrb(lon, longitudeFromPlacement(Natal[point]), Degrees(transitAspectAngles[aspect]))

----------------------------------------------------------------------------
(* The events of a day, from the places on it and on the day before. *)

Ingresses(old, new) ==
  IF signIndexFromLongitude(old.place) # signIndexFromLongitude(new.place)
  THEN {[type |-> "ingress", sign |-> signIndexFromLongitude(new.place)]} ELSE {}

Stations(old, new) ==
  IF (old.speed >= 0) # (new.speed >= 0)
  THEN {[type |-> "retrograde", phase |-> IF new.speed < 0 THEN "retrograde" ELSE "direct"]}
  ELSE {}

\* The full moon is a crossing of zero of the delta less 180 degrees.
FullDelta(delta) == normalizeSignedDelta(delta - Degrees(180))

Lunations(old, new) ==
  LET delta0 == normalizeSignedDelta(old.ahead)
      delta1 == normalizeSignedDelta(new.ahead)
      phases == {p \in {"new_moon", "full_moon"} :
                   IF p = "new_moon" THEN crossesZero(delta0, delta1)
                   ELSE crossesZero(FullDelta(delta0), FullDelta(delta1))}
  IN {[type |-> "lunation", phase |-> p] : p \in phases}

\* The aspects within the orb that were not told in the last days.
Told(d, new) ==
  {k \in (DOMAIN Natal) \X Aspect :
     /\ OrbOf(new.place, k[1], k[2]) <= aspectOrb
     /\ seenAspect[k] >= 0 => d - seenAspect[k] >= RepeatDays}

----------------------------------------------------------------------------
\* What a reader of the list knows after its events of a day.
Read(events) ==
  [sign |-> LET s == {e.sign : e \in {x \in events : x.type = "ingress"}}
            IN IF s = {} THEN told.sign ELSE Max(s),
   retrograde |-> LET p == {e.phase : e \in {x \in events : x.type = "retrograde"}}
                  IN IF p = {} THEN told.retrograde ELSE p = {"retrograde"},
   lunation |-> LET p == {e.phase : e \in {x \in events : x.type = "lunation"}}
                IN IF p = {} THEN told.lunation
                   ELSE [phase |-> CHOOSE x \in p : TRUE, day |-> day]]

TransitInit ==
  /\ day = 0
  /\ \E lon \in FirstPlace, v \in {-1, 1} : body = [place |-> lon, speed |-> v]
  /\ \E e \in Elongation, g \in MoonGain : moon = [ahead |-> e, gain |-> g]
  /\ seenAspect = [k \in (DOMAIN Natal) \X Aspect |-> -1]
  /\ today = {}
  /\ told = [sign |-> signIndexFromLongitude(body.place), retrograde |-> body.speed < 0,
             lunation |-> [phase |-> "none", day |-> 0]]
  /\ stations = 0

\* The body goes on, or turns.
NextDay(v) ==
  LET new == [place |-> (body.place + v + Round) % Round, speed |-> v]
      newMoon == [moon EXCEPT !.ahead = (@ + moon.gain) % Round] IN
  /\ day < LastDay
  /\ v # body.speed => stations < MaxStations
  /\ stations' = IF v # body.speed THEN stations + 1 ELSE stations
  /\ day' = day + 1
  /\ body' = new
  /\ moon' = newMoon
  /\ told' = Read(today)
  /\ seenAspect' = [k \in DOMAIN seenAspect |->
                      IF k \in Told(day + 1, new) THEN day + 1 ELSE seenAspect[k]]
  /\ today' = Ingresses(body, new) \cup Stations(body, new) \cup Lunations(moon, newMoon)
                \cup {[type |-> "aspect", key |-> k] : k \in Told(day + 1, new)}

TransitNext == \E v \in {-1, 1} : NextDay(v)

TransitSpec == TransitInit /\ [][TransitNext]_transitVars

----------------------------------------------------------------------------
(* Properties. *)

\* New and full moons take turns, never two on a day, and none is left out: from one
\* to the next the Moon gains half the circle.
LunationsAlternate ==
  LET news == {e \in today : e.type = "lunation"}
      half(n) == (Degrees(180) + moon.gain * n) \div moon.gain IN
  /\ Cardinality(news) <= 1
  /\ \A e \in news :
       /\ e.phase # told.lunation.phase
       /\ told.lunation.phase # "none" => day - told.lunation.day >= half(-1)
  /\ day - told.lunation.day <= half(1)

\* Read from the front, the list tells where the body is and which way it goes; an
\* aspect the body has just made exactly has been told within the repeat time, in
\* whatever part of the circle the points are.
SkyIsTold ==
  /\ Read(today).sign = signIndexFromLongitude(body.place)
  /\ Read(today).retrograde <=> body.speed < 0
  /\ \A point \in DOMAIN Natal, angle \in {0, 60, 90, 120, 180, 240, 270, 300} :
       LET exact == (longitudeFromPlacement(Natal[point]) + Degrees(angle)) % Round
           aspect == CHOOSE a \in Aspect :
                       transitAspectAngles[a] \in {angle, 360 - angle}
       IN day > 0 /\ body.place = exact =>
            /\ seenAspect[<<point, aspect>>] >= 0
            /\ day - seenAspect[<<point, aspect>>] < RepeatDays
=============================================================================
