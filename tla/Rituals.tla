------------------------------ MODULE Rituals ------------------------------
(***************************************************************************)
(* Ritual completions of one account (ritual_repo.go) and the streak of    *)
(* the profile screen (stats_repo.go).                                     *)
(*                                                                         *)
(* Complete reads yesterday's row and then inserts or updates today's, each *)
(* with a CURRENT_DATE of its own, so midnight may fall between the two.   *)
(* The database's zone is taken to be UTC.                                 *)
(***************************************************************************)
EXTENDS Integers, FiniteSets, FiniteSetsExt

CONSTANTS
  Ritual,     \* the ritualCatalog
  Caller,     \* Complete calls that may run at the same time
  LastDay,    \* bound: days
  NoCall

ASSUME RitualAssumption ==
  /\ LastDay \in Nat \ {0}
  /\ NoCall \notin [ritual : Ritual, streak : Nat]

VARIABLES
  today,
  streakCount,  \* ritual_completions: [Ritual -> [day -> streak, 0 for no row]]
  active,       \* days with a journal entry or a chat message
  computed,     \* Complete calls under way: [ritual, streak], or NoCall
  crossed       \* history: a call was under way at midnight

ritualVars == <<today, streakCount, active, computed, crossed>>

Day == 1 .. LastDay

RitualInit ==
  /\ today = 1
  /\ streakCount = [t \in Ritual |-> [d \in Day |-> 0]]
  /\ active = {}
  /\ computed = [r \in Caller |-> NoCall]
  /\ crossed = FALSE

\* Faulty variant: the streak goes on from the last completion, however old.
ReadLast(r, t) ==
  LET days == {d \in Day : d < today /\ streakCount[t][d] > 0} IN
  /\ computed[r] = NoCall
  /\ computed' = [computed EXCEPT ![r] =
       [ritual |-> t, streak |-> 1 + IF days = {} THEN 0 ELSE streakCount[t][Max(days)]]]
  /\ UNCHANGED <<today, streakCount, active, crossed>>

\* Yesterday's streak and one, or one.
ReadYesterday(r, t) ==
  /\ computed[r] = NoCall
  /\ computed' = [computed EXCEPT ![r] =
       [ritual |-> t, streak |-> 1 + IF today = 1 THEN 0 ELSE streakCount[t][today - 1]]]
  /\ UNCHANGED <<today, streakCount, active, crossed>>

\* The second completion of a day writes the same row; an error writes nothing.
UpsertToday(r) ==
  /\ computed[r] # NoCall
  /\ \/ streakCount' = [streakCount EXCEPT ![computed[r].ritual][today] = computed[r].streak]
     \/ UNCHANGED streakCount
  /\ computed' = [computed EXCEPT ![r] = NoCall]
  /\ UNCHANGED <<today, active, crossed>>

\* A journal entry or a message.
Write ==
  /\ active' = active \union {today}
  /\ UNCHANGED <<today, streakCount, computed, crossed>>

NextDay ==
  /\ today < LastDay
  /\ today' = today + 1
  /\ crossed' = (crossed \/ \E r \in Caller : computed[r] # NoCall)
  /\ UNCHANGED <<streakCount, active, computed>>

RitualNext ==
  \/ \E r \in Caller : (\E t \in Ritual : ReadYesterday(r, t)) \/ UpsertToday(r)
  \/ Write
  \/ NextDay

RitualSpec == RitualInit /\ [][RitualNext]_ritualVars

-----------------------------------------------------------------------------
(* Reads *)

GetStreak ==
  Max({0} \union {streakCount[t][d] : t \in Ritual, d \in {today - 1, today} \intersect Day})

ActiveDays == active \union {d \in Day : \E t \in Ritual : streakCount[t][d] > 0}

\* The rows of a day read: a day that is the cursor counts and moves the cursor back, the
\* first that is before it ends the walk.
ReadDay(acc, d) ==
  IF d \notin ActiveDays THEN acc
  ELSE IF acc.open /\ d = acc.cursor
       THEN [open |-> TRUE, n |-> acc.n + 1, cursor |-> d - 1]
       ELSE [acc EXCEPT !.open = FALSE]

\* The walk over the distinct days, newest first, when it has read those since d.
walk[d \in 1 .. LastDay + 1] ==
  IF d = LastDay + 1 THEN [open |-> TRUE, n |-> 0, cursor |-> today]
  ELSE ReadDay(walk[d + 1], d)

streakDays == walk[1].n

-----------------------------------------------------------------------------
(* Properties *)

\* The longest run of days of S that ends on day d.
Run(S, d) == CHOOSE n \in 0 .. d : (d - n + 1) .. d \subseteq S /\ d - n \notin S

\* A row's streak is the run of days that ends with it (ritual_repo.go:24), if no call has
\* been under way at midnight.
StreakIsRun ==
  ~crossed => \A t \in Ritual : LET days == {d \in Day : streakCount[t][d] > 0} IN
    \A d \in days : streakCount[t][d] = Run(days, d)

\* The profile screen counts the days that end today (stats_repo.go:25), and on a day with
\* activity it never shows less than the ritual screen does.
ScreensAgree ==
  /\ streakDays = Run(ActiveDays, today)
  /\ (~crossed /\ today \in ActiveDays) => GetStreak \leq streakDays

=============================================================================
