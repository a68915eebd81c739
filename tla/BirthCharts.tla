---------------------------- MODULE BirthCharts ----------------------------
(***************************************************************************)
(* One account's birth profile and what is computed from it and kept in    *)
(* Redis: the natal chart (ChartService), the Human Design chart, the      *)
(* Vedic charts (vedic:chart, vedic:varga, vedic:dasha, one key here) and  *)
(* the forecasts (timeline, yearly, one key here).  chartPc[r] is the next *)
(* step of the request in slot r:                                          *)
(*                                                                         *)
(*   natal, vedic  cache ; profile ; compute and set                       *)
(*   hd            profile ; cache ; compute and set                       *)
(*   forecast      the natal chart as above ; cache ; OpenAI and set       *)
(*   update        UPDATE (or upsert) ; DEL of natal, hd, vedic keys       *)
(*                                                                         *)
(* A chart is the birth data it was computed from.  The profile read again *)
(* for the words of a forecast is data.                                    *)
(***************************************************************************)
EXTENDS Integers

CONSTANTS
  Born,       \* dates and places of birth
  Hour,       \* known birth times, noon not one of them
  Reader,     \* requests that may run at the same time
  NoData

VARIABLES
  profile,    \* birth_profiles: [born, time], time NoData when not known; or NoData
  cache,      \* Redis: a chart, or NoData
  chartPc,
  kind,       \*   the chart asked for
  input,      \*   the birth data a request has read
  chart,      \*   the natal chart a forecast is about
  raced,      \* history: requests whose input was changed after they read it
  stale       \* history: keys one of them has set, or Redis has not deleted

chartVars == <<profile, cache, chartPc, kind, input, chart, raced, stale>>

Noon == 12
Key == {"natal", "hd", "vedic", "forecast"}
Data == [born : Born, time : Hour \union {NoData}]
Chart == [born : Born, at : Hour \union {Noon}]

ASSUME BirthAssumption == NoData \notin Data \union Chart

\* PostgreSQL's text of a TIME, as the driver hands it over: HH:MM:SS.
TimeColumn(h) == [hour |-> h, parts |-> 3]

\* HH:MM, and noon for anything else.
parseBirthTime(text) == IF text.parts = 2 THEN text.hour ELSE Noon

\* The provider's chart; the time's offset follows from it.
Compute(data) ==
  [born |-> data.born,
   at |-> IF data.time = NoData THEN Noon ELSE parseBirthTime(TimeColumn(data.time))]

ChartInit ==
  /\ profile = NoData
  /\ cache = [k \in Key |-> NoData]
  /\ chartPc = [r \in Reader |-> "idle"]
  /\ kind = [r \in Reader |-> "natal"]
  /\ input = [r \in Reader |-> NoData]
  /\ chart = [r \in Reader |-> NoData]
  /\ raced = {}
  /\ stale = {}

At(r, step) == chartPc[r] = step

GoTo(r, step) == chartPc' = [chartPc EXCEPT ![r] = step]

Answer(r) ==
  /\ GoTo(r, "idle")
  /\ kind' = [kind EXCEPT ![r] = "natal"]
  /\ input' = [input EXCEPT ![r] = NoData]
  /\ chart' = [chart EXCEPT ![r] = NoData]
  /\ raced' = raced \ {r}

\* What the natal part of a forecast goes on with.
HaveChart(r, c) ==
  IF kind[r] = "forecast"
    THEN /\ GoTo(r, "forecast_cache")
         /\ chart' = [chart EXCEPT ![r] = c]
         /\ UNCHANGED <<kind, input, raced>>
    ELSE Answer(r)

CacheKey(r) == IF kind[r] = "forecast" THEN "natal" ELSE kind[r]

-----------------------------------------------------------------------------
Get(r, k) ==
  /\ At(r, "idle")
  /\ kind' = [kind EXCEPT ![r] = k]
  /\ GoTo(r, IF k = "hd" THEN "profile" ELSE "cache")
  /\ UNCHANGED <<profile, cache, input, chart, raced, stale>>

\* A hit is what the key holds, and no profile is looked at but by Human Design.
ReadCache(r) ==
  /\ At(r, "cache")
  /\ \/ /\ cache[CacheKey(r)] # NoData
        /\ HaveChart(r, cache[CacheKey(r)])
     \/ /\ GoTo(r, IF kind[r] = "hd" THEN "compute" ELSE "profile")
        /\ cache[CacheKey(r)] = NoData
        /\ UNCHANGED <<kind, input, chart, raced>>
  /\ UNCHANGED <<profile, cache, stale>>

\* No profile, or none with a time for Human Design, is an error.
ReadProfile(r) ==
  /\ At(r, "profile")
  /\ IF profile = NoData \/ (kind[r] = "hd" /\ profile.time = NoData)
       THEN Answer(r)
       ELSE /\ GoTo(r, IF kind[r] = "hd" THEN "cache" ELSE "compute")
            /\ input' = [input EXCEPT ![r] = profile]
            /\ UNCHANGED <<kind, chart, raced>>
  /\ UNCHANGED <<profile, cache, stale>>

\* A failed SET is ignored; an error of the provider has no raw_chart_data to fall back
\* on, nothing writes it.
ComputeChart(r) ==
  LET c == Compute(input[r]) IN
  /\ At(r, "compute")
  /\ \/ /\ cache' = [cache EXCEPT ![CacheKey(r)] = c]
        /\ stale' = IF r \in raced THEN stale \union {CacheKey(r)} ELSE stale \ {CacheKey(r)}
        /\ HaveChart(r, c)
     \/ /\ UNCHANGED <<cache, stale>>
        /\ HaveChart(r, c)
     \/ /\ UNCHANGED <<cache, stale>>
        /\ Answer(r)
  /\ UNCHANGED profile

\* The key of a forecast does not name the chart it is about.
ReadForecast(r) ==
  /\ At(r, "forecast_cache")
  /\ \/ /\ cache["forecast"] # NoData
        /\ Answer(r)
     \/ /\ cache["forecast"] = NoData
        /\ GoTo(r, "write_forecast")
        /\ UNCHANGED <<kind, input, chart, raced>>
  /\ UNCHANGED <<profile, cache, stale>>

\* Without an OpenAI key the deterministic text is returned and not kept.
WriteForecast(r) ==
  /\ At(r, "write_forecast")
  /\ \/ cache' = [cache EXCEPT !["forecast"] = chart[r]]
     \/ UNCHANGED cache
  /\ Answer(r)
  /\ UNCHANGED <<profile, stale>>

\* CreateBirthProfile is an upsert, UpdateBirthProfile an UPDATE that may match no row.
SaveProfile(r, data) ==
  /\ At(r, "idle")
  /\ \/ profile' = data
     \/ profile = NoData /\ UNCHANGED profile
  /\ GoTo(r, "del_natal")
  /\ raced' = raced \union {q \in Reader : input[q] # NoData}
  /\ UNCHANGED <<cache, kind, input, chart, stale>>

\* A key that is deleted when Redis answers; its error is ignored.
Delete(k) ==
  \/ /\ cache' = [cache EXCEPT ![k] = NoData]
     /\ stale' = stale \ {k}
  \/ /\ UNCHANGED cache
     /\ stale' = stale \union {k}

\* Faulty variant: the Human Design key is not among the patterns.
InvalidateAllButHd(r) ==
  /\ \/ At(r, "del_natal") /\ Delete("natal") /\ GoTo(r, "del_vedic")
     \/ At(r, "del_vedic") /\ Delete("vedic") /\ GoTo(r, "idle")
  /\ UNCHANGED <<profile, kind, input, chart, raced>>

invalidateBirthScopedCaches(r) ==
  /\ \/ At(r, "del_natal") /\ Delete("natal") /\ GoTo(r, "del_hd")
     \/ At(r, "del_hd") /\ Delete("hd") /\ GoTo(r, "del_vedic")
     \/ At(r, "del_vedic") /\ Delete("vedic") /\ GoTo(r, "idle")
  /\ UNCHANGED <<profile, kind, input, chart, raced>>

\* The time to live of a key, 24 hours to 30 days.
Expire(k) ==
  /\ cache[k] # NoData
  /\ cache' = [cache EXCEPT ![k] = NoData]
  /\ stale' = stale \ {k}
  /\ UNCHANGED <<profile, chartPc, kind, input, chart, raced>>

ChartNext ==
  \/ \E r \in Reader :
       \/ \E k \in Key : Get(r, k)
       \/ ReadCache(r)
       \/ ReadProfile(r)
       \/ ComputeChart(r)
       \/ ReadForecast(r)
       \/ WriteForecast(r)
       \/ \E data \in Data : SaveProfile(r, data)
       \/ invalidateBirthScopedCaches(r)
  \/ \E k \in Key : Expire(k)

ChartSpec == ChartInit /\ [][ChartNext]_chartVars

-----------------------------------------------------------------------------
(* Properties *)

\* Every variable has its type.
ChartTypeOK ==
  /\ profile \in Data \union {NoData}
  /\ cache \in [Key -> Chart \union {NoData}]
  /\ chartPc \in [Reader -> {"idle", "cache", "profile", "compute", "forecast_cache",
                             "write_forecast", "del_natal", "del_hd", "del_vedic"}]
  /\ kind \in [Reader -> Key]
  /\ input \in [Reader -> Data \union {NoData}]
  /\ chart \in [Reader -> Chart \union {NoData}]
  /\ raced \subseteq Reader
  /\ stale \subseteq Key

Settled == \A r \in Reader : chartPc[r] \notin {"del_natal", "del_hd", "del_vedic"}

\* user_service.go:108, a change "invalidates every chart we've cached": a chart kept once
\* no change is half done is the profile's, but for one set by a request that had read the
\* profile before, or kept by Redis when it should have been deleted.
KeptIsCurrent ==
  Settled => \A k \in Key \ (stale \union {"forecast"}) :
    cache[k] # NoData => profile # NoData /\ cache[k] = Compute(profile)

\* chart_service.go:66, "default to noon if unknown": the chart of a known time is computed
\* for that time.
KnownTimeIsUsed ==
  Settled => \A k \in Key \ (stale \union {"forecast"}) :
    (cache[k] # NoData /\ profile.time # NoData) => cache[k].at = profile.time

=============================================================================
