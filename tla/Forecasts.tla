----------------------------- MODULE Forecasts -----------------------------
(***************************************************************************)
(* The forecast without a language model (forecast_deterministic.go): the  *)
(* transits of a window, in the order of their dates, are dropped into     *)
(* periods, and each period gets a title, up to three events to tell of    *)
(* and a closing line; a year gets a theme and an overview besides.        *)
(*                                                                         *)
(* The loop over the events is taken a turn at a time, as they come: what  *)
(* a state holds is the forecast of the events so far.                     *)
(*                                                                         *)
(* Time is in hours.  An event is dated at midnight, a window of days may  *)
(* start at any hour.  The wording in two languages is left out: a title   *)
(* or a theme is the event it is about, a description the events it tells. *)
(***************************************************************************)
EXTENDS Integers, Sequences, FiniteSets, FiniteSetsExt, SequencesExt

CONSTANTS
  Window,   \* the windows asked for: [type, start, end]
  Event,    \* what may happen on a day: [type, body, aspect, point]
  Nth,      \* on which of its days, counted from the first
  MaxEvents \* bound: how many events a window has

VARIABLES
  window, \* the window asked for
  events, \* transitEventsToLite: its events, each with its date
  buckets \* its events by period

forecastVars == <<window, events, buckets>>

DayHours == 24

\* A window ends after its start; a year is the one of the calendar.
ASSUME ForecastAssumption ==
  /\ \A w \in Window :
       /\ w.start \in Int /\ w.end \in Int /\ w.start < w.end
       /\ w.type = "year" => w.end - w.start \in {DayHours * 365, DayHours * 366}
  /\ Event \subseteq [type : STRING, body : STRING, aspect : STRING, point : STRING]
  /\ Nth \subseteq Int /\ MaxEvents \in Nat

----------------------------------------------------------------------------
eventWeight(e) ==
  LET bodies == CASE e.body \in {"Pluto", "Neptune", "Uranus"} -> 5
                  [] e.body = "Saturn" -> 4
                  [] e.body \in {"Jupiter", "Chiron"} -> 3
                  [] e.body = "Mars" -> 2
                  [] OTHER -> 0
      aspects == CASE e.aspect = "conjunction" -> 3
                   [] e.aspect \in {"opposition", "square"} -> 2
                   [] e.aspect \in {"trine", "sextile"} -> 1
                   [] OTHER -> 0
      points == IF e.point \in {"Sun", "Moon", "Ascendant", "Midheaven"} THEN 2 ELSE 0
  IN 1 + bodies + aspects + points + (IF e.type \in {"lunation", "retrograde"} THEN 1 ELSE 0)

energyFor(es) ==
  LET n(S) == Cardinality({i \in DOMAIN es : es[i] \in S})
      with(A, B) == {e \in ToSet(es) : e.aspect \in A /\ e.body \in B}
      all == {e.body : e \in ToSet(es)}
      positive == 2 * n(with({"trine", "sextile"}, all))
                    + n(with({"conjunction"}, {"Jupiter", "Venus"}))
      challenging == 2 * n(with({"square", "opposition"}, all))
      intense == n(with({"conjunction"}, all))
                   + n(with({"square", "opposition"}, {"Saturn", "Pluto", "Mars"}))
  IN IF intense >= 2 /\ intense >= challenging THEN "intense"
     ELSE IF challenging > positive THEN "challenging"
     ELSE IF positive > challenging THEN "positive"
     ELSE "neutral"

\* The first of the heaviest.
Heaviest(es) ==
  LET heavy == {i \in DOMAIN es : \A j \in DOMAIN es : eventWeight(es[j]) <= eventWeight(es[i])}
  IN es[Min(heavy)]

Swap(s, i, j) == [s EXCEPT ![i] = s[j], ![j] = s[i]]

\* A round of the selection sort: the first of the heaviest from the i-th place on.
SelectionRound(es, places, i) ==
  LET weight(j) == eventWeight(es[places[j]])
      best == {j \in i .. Len(es) : \A k \in i .. Len(es) : weight(k) <= weight(j)}
  IN Swap(places, i, Min(best))

\* The places of the events after n rounds.
Selection(es, n) ==
  LET places[i \in 0 .. n] ==
        IF i = 0 THEN [k \in DOMAIN es |-> k] ELSE SelectionRound(es, places[i - 1], i)
  IN places[n]

\* The first n of the places, in their order.
Chosen(places, n) ==
  CHOOSE c \in [1 .. n -> {places[i] : i \in 1 .. n}] :
    /\ \A i, j \in 1 .. n : i < j => c[i] < c[j]
    /\ \A i \in 1 .. n : \E j \in 1 .. n : c[j] = places[i]

pickHeadliners(es, n) ==
  IF Len(es) <= n THEN es ELSE [i \in 1 .. n |-> es[Chosen(Selection(es, n), n)[i]]]

splitPeriods(start, end, n) ==
  LET step == (end - start) \div n
  IN [i \in 1 .. n |-> <<start + step * (i - 1), IF i = n THEN end ELSE start + step * i>>]

\* Faulty variant: no window takes the events of its last moment.
BucketOpen(e, windows) ==
  {i \in DOMAIN windows : e.date >= windows[i][1] /\ e.date < windows[i][2]}

\* The windows an event belongs to: the last one takes those of its last moment too.
BucketOf(e, windows) ==
  {i \in DOMAIN windows :
     /\ e.date >= windows[i][1]
     /\ e.date < windows[i][2] \/ (i = Len(windows) /\ e.date = windows[i][2])}

\* One turn of the loop: the event goes into the first of its windows.
bucketEvents(filled, e, windows) ==
  IF BucketOf(e, windows) = {} THEN filled
  ELSE [filled EXCEPT ![Min(BucketOf(e, windows))] = Append(@, e)]

----------------------------------------------------------------------------
(* What is answered.  No event is written as an empty sequence. *)

\* periodTitle and yearTheme: the event they are about.
Headline(es) == IF es = <<>> THEN <<>> ELSE <<Heaviest(es)>>

\* periodDescription, quarterParagraph and yearOverview: the events told, and the
\* closing line, which goes by these events alone.
Description(es, n) ==
  [tells |-> pickHeadliners(es, n), closing |-> energyFor(pickHeadliners(es, n))]

\* The periods of a window; the quarters of a year begin with January, April, July
\* and October.
Periods(w) ==
  LET n == CASE w.type = "12m" -> 6 [] w.type = "3m" -> 4 [] OTHER -> 3
      leap == (w.end - w.start) \div DayHours - 365
      begin == <<0, 90 + leap, 181 + leap, 273 + leap, 365 + leap>>
  IN IF w.type = "year"
     THEN [i \in 1 .. 4 |-> <<w.start + DayHours * begin[i], w.start + DayHours * begin[i + 1]>>]
     ELSE splitPeriods(w.start, w.end, n)

BuildDeterministicTimeline ==
  [i \in DOMAIN buckets |->
     [title |-> Headline(buckets[i]), range |-> Periods(window)[i],
      description |-> Description(buckets[i], 3), energy |-> energyFor(buckets[i])]]

BuildDeterministicYearly ==
  [theme |-> Headline(events), overview |-> Description(events, 4),
   quarters |-> [i \in 1 .. 4 |-> Description(buckets[i], 3)]]

----------------------------------------------------------------------------
Forecast == window # <<>>

ForecastInit == window = <<>> /\ events = <<>> /\ buckets = <<>>

\* GetTimeline and GetYearlyForecast
AskForecast(w) ==
  /\ ~ Forecast
  /\ window' = w
  /\ buckets' = [i \in DOMAIN Periods(w) |-> <<>>]
  /\ UNCHANGED events

\* ComputeTransitEvents: the next event is on a day after the first, at the hour the
\* window starts, and is dated at the midnight before.
Happens(e, n) ==
  LET date == ((window.start + DayHours * n) \div DayHours) * DayHours
      lite == [type |-> e.type, body |-> e.body, aspect |-> e.aspect, point |-> e.point,
               date |-> date] IN
  /\ Forecast /\ Len(events) < MaxEvents
  /\ n >= 1 /\ window.start + DayHours * n <= window.end
  /\ events # <<>> => events[Len(events)].date <= date
  /\ events' = Append(events, lite)
  /\ buckets' = bucketEvents(buckets, lite, Periods(window))
  /\ UNCHANGED window

ForecastNext ==
  \/ \E w \in Window : AskForecast(w)
  \/ \E e \in Event, n \in Nth : Happens(e, n)

ForecastSpec == ForecastInit /\ [][ForecastNext]_forecastVars

----------------------------------------------------------------------------
(* Properties. *)

\* How many of the events are earlier than a moment.
Earlier(es, moment) == Cardinality({k \in DOMAIN es : es[k].date < moment})

\* How many are told in the periods before the i-th of them.
ToldBefore(es, periods, i) ==
  IF i > Len(periods) THEN Len(es) ELSE Earlier(es, periods[i][1])

\* The periods share out the events of the window, each once and in order: the i-th tells
\* those not earlier than its start, up to the first that is not earlier than the start of
\* the next, and the last one tells the rest.  None is lost where two periods meet or at
\* either end, though events are dated at midnight and a window starts at any hour.
PeriodsShareOutEvents ==
  Forecast =>
  LET told(i) == ToldBefore(events, Periods(window), i) IN
  /\ told(1) = 0 /\ DOMAIN buckets = DOMAIN Periods(window)
  /\ \A i \in DOMAIN buckets : buckets[i] = SubSeq(events, told(i) + 1, told(i + 1))

\* Those told of some events are in the order of their dates, none left out is heavier than
\* one of them, and a title or theme is about one of them.
Leads(es, told, about) ==
  /\ \A i, j \in DOMAIN told : i < j => told[i].date <= told[j].date
  /\ \A e \in ToSet(es) \ ToSet(told), f \in ToSet(told) : eventWeight(e) <= eventWeight(f)
  /\ ToSet(about) \subseteq ToSet(told)

\* As many of the events as there is room for.
Fit(es, n) == IF Len(es) <= n THEN Len(es) ELSE n

\* What is told of a period are its heaviest events in the order of their dates, as
\* many as there is room for, and the title is about one of them.
HeadlinersLead ==
  Forecast =>
  IF window.type = "year"
  THEN LET answer == BuildDeterministicYearly IN
       /\ Leads(events, answer.overview.tells, answer.theme)
       /\ Len(answer.overview.tells) = Fit(events, 4)
       /\ \A i \in 1 .. 4 : /\ Leads(buckets[i], answer.quarters[i].tells, <<>>)
                            /\ Len(answer.quarters[i].tells) = Fit(buckets[i], 3)
  ELSE LET answer == BuildDeterministicTimeline IN
       \A i \in DOMAIN buckets :
         /\ Leads(buckets[i], answer[i].description.tells, answer[i].title)
         /\ Len(answer[i].description.tells) = Fit(buckets[i], 3)
============================================================================
