------------------------------ MODULE Readings -----------------------------
(***************************************************************************)
(* The daily reading of one account, one date and each language            *)
(* (ReadingService.GetDailyReading), asked for by the app and by the       *)
(* DailyReadingsWorker.  readPc[r] is the next step of the call in slot r:  *)
(*                                                                         *)
(*   SELECT ; Redis ; OpenAI ; INSERT ; SET                                 *)
(*                                                                         *)
(* A text is a number, a new one every time OpenAI is asked.               *)
(***************************************************************************)
EXTENDS Integers, FiniteSets

CONSTANTS
  Lang,       \* of the app, "en" among them
  Asker,      \* calls that may run at the same time
  MaxText,    \* bound: texts OpenAI writes
  NoText

VARIABLES
  written,    \* texts OpenAI has written
  stored,     \* daily_readings: the text of a language, or NoText
  kept,       \* Redis: the same
  readPc, lang, text,
  shown,      \* history: texts returned in a language
  unsure      \* history: languages a text of which was not stored

ASSUME ReadingAssumption == "en" \in Lang /\ NoText \notin Nat

readingVars == <<written, stored, kept, readPc, lang, text, shown, unsure>>

ReadingInit ==
  /\ written = 0
  /\ stored = [l \in Lang |-> NoText]
  /\ kept = [l \in Lang |-> NoText]
  /\ readPc = [r \in Asker |-> "idle"]
  /\ lang = [r \in Asker |-> CHOOSE l \in Lang : TRUE]
  /\ text = [r \in Asker |-> NoText]
  /\ shown = [l \in Lang |-> {}]
  /\ unsure = {}

Ahead(r, from, to) ==
  /\ readPc[r] = from
  /\ readPc' = [readPc EXCEPT ![r] = to]

Show(r, t) ==
  /\ shown' = [shown EXCEPT ![lang[r]] = @ \union {t}]
  /\ text' = [text EXCEPT ![r] = NoText]

-----------------------------------------------------------------------------
Ask(r, l) ==
  /\ Ahead(r, "idle", "select")
  /\ lang' = [lang EXCEPT ![r] = l]
  /\ UNCHANGED <<written, stored, kept, text, shown, unsure>>

\* The worker asks without a language, "en", and only for an account that has no row of
\* the date in any.
DailyRun(r) ==
  /\ \A l \in Lang : stored[l] = NoText
  /\ Ask(r, "en")

\* Faulty variant: a row of any language will do.
GetByUserAndDateAnyLang(r) ==
  /\ \/ \E l \in Lang : stored[l] # NoText /\ Ahead(r, "select", "idle") /\ Show(r, stored[l])
     \/ (\A l \in Lang : stored[l] = NoText) /\ Ahead(r, "select", "redis") /\ UNCHANGED <<text, shown>>
  /\ UNCHANGED <<written, stored, kept, lang, unsure>>

GetByUserAndDate(r) ==
  /\ \/ /\ stored[lang[r]] # NoText
        /\ Ahead(r, "select", "idle")
        /\ Show(r, stored[lang[r]])
     \/ /\ stored[lang[r]] = NoText
        /\ Ahead(r, "select", "redis")
        /\ UNCHANGED <<text, shown>>
  /\ UNCHANGED <<written, stored, kept, lang, unsure>>

ReadRedis(r) ==
  /\ \/ /\ kept[lang[r]] # NoText
        /\ Ahead(r, "redis", "idle")
        /\ Show(r, kept[lang[r]])
     \/ /\ Ahead(r, "redis", "generate")
        /\ kept[lang[r]] = NoText
        /\ UNCHANGED <<text, shown>>
  /\ UNCHANGED <<written, stored, kept, lang, unsure>>

\* Without an OpenAI key the stub is returned, which nothing keeps.
generateReading(r) ==
  /\ written < MaxText
  /\ written' = written + 1
  /\ text' = [text EXCEPT ![r] = written']
  /\ Ahead(r, "generate", "insert")
  /\ UNCHANGED <<stored, kept, lang, shown, unsure>>

\* One row of an account, a date and a language: a second is refused.  The text may be
\* refused too (an energy level that is not 1 to 10).  Either error is only logged.
Create(r) ==
  LET l == lang[r] IN
  /\ Ahead(r, "insert", "set")
  /\ \/ /\ stored[l] = NoText
        /\ stored' = [stored EXCEPT ![l] = text[r]]
        /\ UNCHANGED unsure
     \/ /\ unsure' = unsure \union {l}
        /\ UNCHANGED stored
  /\ UNCHANGED <<written, kept, lang, text, shown>>

Set(r) ==
  /\ Ahead(r, "set", "idle")
  /\ \/ kept' = [kept EXCEPT ![lang[r]] = text[r]]
     \/ UNCHANGED kept
  /\ Show(r, text[r])
  /\ UNCHANGED <<written, stored, lang, unsure>>

\* OpenAI, PostgreSQL or the process fails.
FailReading(r) ==
  /\ readPc[r] # "idle"
  /\ readPc' = [readPc EXCEPT ![r] = "idle"]
  /\ text' = [text EXCEPT ![r] = NoText]
  /\ UNCHANGED <<written, stored, kept, lang, shown, unsure>>

\* 24 hours.
Forget(l) ==
  /\ kept[l] # NoText
  /\ kept' = [kept EXCEPT ![l] = NoText]
  /\ UNCHANGED <<written, stored, readPc, lang, text, shown, unsure>>

ReadingNext ==
  \/ \E r \in Asker :
       \/ \E l \in Lang : Ask(r, l)
       \/ DailyRun(r)
       \/ GetByUserAndDate(r)
       \/ ReadRedis(r)
       \/ generateReading(r)
       \/ Create(r)
       \/ Set(r)
       \/ FailReading(r)
  \/ \E l \in Lang : Forget(l)

ReadingSpec == ReadingInit /\ [][ReadingNext]_readingVars

-----------------------------------------------------------------------------
(* Property *)

\* The reading of a date does not change under the reader, and each language has its own,
\* but for a text PostgreSQL refused, as the second of two calls (reading_service.go:75).
OneTextOfADate ==
  /\ \A l \in Lang : Cardinality(shown[l]) > 1 => l \in unsure
  /\ \A l, m \in Lang : l # m => shown[l] \intersect shown[m] = {}

=============================================================================
