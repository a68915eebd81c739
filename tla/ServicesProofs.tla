---------------------------- MODULE ServicesProofs ----------------------------
(***************************************************************************)
(* What is proved of the small services, for every number of calls, rows   *)
(* and days, one after the other:                                          *)
(*                                                                         *)
(*   ChatQuota      the cap needs that every message let through had taken *)
(*                  its slot of the counter; the conversation that an open *)
(*                  question is kept for each answer still to come; the    *)
(*                  counter shown, that the rows of any threads can be     *)
(*                  counted                                                *)
(*   Rituals        what a call has read of yesterday is still so, and a   *)
(*                  row's number is that of the days before it; the walk   *)
(*                  of streakDays counts, day after day, those that end    *)
(*                  today                                                  *)
(*   Preferences    an update under way has read, of a field nobody        *)
(*                  muddled, the last value set                            *)
(*   RequestLimits  the counter counts the requests served, and none is    *)
(*                  served above its limit                                 *)
(*   Avatars        a request alone finds the files it left                *)
(*   BirthCharts    KeptIsCurrent is not inductive: between a change of    *)
(*                  the profile and the last deletion old charts are kept. *)
(*                  CurrentOrDoomed says which, by the step the change is  *)
(*                  at, InputIsCurrent what those to be set come from      *)
(*   Readings       OneTextOfADate says nothing of the text shown next.    *)
(*                  TextsApart says that a text is on its way, stored,     *)
(*                  kept or shown in one language only, StoredIsTheText    *)
(*                  that where nothing was refused it is the stored one    *)
(*   Compatibility  a call keeps the right it checked, because an id is    *)
(*                  never given to another person                          *)
(***************************************************************************)
EXTENDS ChatQuota, Rituals, Preferences, RequestLimits, Avatars, BirthCharts, Readings,
        Compatibility, FiniteSetTheorems, WellFoundedInduction, TLAPS

-----------------------------------------------------------------------------
(* Induction.  The library has it as a theorem about any predicate, which the   *)
(* provers cannot instantiate; that a set of numbers has a least one says as    *)
(* much, and is about sets.                                                     *)

\* The order of the numbers, as pairs.
Below == OpToRel(<, Nat)

\* It is well founded.
LEMMA BelowIsWellFounded == IsWellFoundedOn(Below, Nat)
BY NatLessThanWellFounded, Zenon DEF Below

\* A smaller number is below a greater.
LEMMA BelowIsLess == ASSUME NEW x \in Nat, NEW y \in Nat, x < y PROVE <<x, y>> \in Below
BY DEF Below, OpToRel

\* A set of numbers has a least one.
LEMMA LeastNumber ==
  ASSUME NEW T, T \subseteq Nat, T # {}
  PROVE  \E x \in T : \A y \in T : x <= y
<1>1. PICK x \in T : \A y \in T : ~ (<<y, x>> \in Below)
  BY BelowIsWellFounded, WFMin, Zenon
<1>2. \A y \in T : ~ (y < x)
  BY <1>1, BelowIsLess
<1> QED
  BY <1>2

\* A bounded set of numbers has a greatest.
LEMMA GreatestNumber ==
  ASSUME NEW T, NEW b \in Nat, T \subseteq 0 .. b, T # {}
  PROVE  Max(T) \in T /\ \A x \in T : x <= Max(T)
<1> DEFINE U == {b - x : x \in T}
<1>1. U \subseteq Nat /\ U # {}
  <2>1. \A x \in T : b - x \in Nat
    OBVIOUS
  <2> QED
    BY <2>1, Zenon
<1>2. PICK u \in U : \A v \in U : u <= v
  <2> HIDE DEF U
  <2> QED
    BY <1>1, LeastNumber
<1>3. PICK x \in T : u = b - x
  OBVIOUS
<1>4. \A y \in T : x >= y
  <2> SUFFICES ASSUME NEW y \in T PROVE x >= y
    OBVIOUS
  <2>1. b - y \in U
    OBVIOUS
  <2>2. b - x <= b - y
    BY <1>2, <1>3, <2>1
  <2> QED
    BY <2>2
<1>5. Max(T) \in T /\ \A y \in T : Max(T) >= y
  BY <1>4 DEF Max
<1> QED
  BY <1>5

-----------------------------------------------------------------------------
(* ChatQuota *)

QuotaTypes ==
  /\ counter \in 0 .. freeChatLimit + 1
  /\ granted \in 0 .. freeChatLimit + 1

\* A slot of the counter was taken for every message, unless the rows were asked.
SlotTaken == ~byRows => granted <= counter /\ granted <= freeChatLimit

CapInv == QuotaTypes /\ SlotTaken

\* Calls that have an answer to save in t.
Answering(t) == {r \in Sender : quotaPc[r] = "answer" /\ inThread[r] = t}

ThreadTypes ==
  /\ thread \in [Thread -> {"absent", "live", "deleted"}]
  /\ said \in [Thread -> [today : Nat, open : Int]]
  /\ quotaPc \in [Sender -> {"idle", "reserve", "count", "question", "answer"}]
  /\ inThread \in [Sender -> Thread \union {NoThread}]

\* A call is about a thread that has been created.
Created ==
  \A r \in Sender : quotaPc[r] # "idle" =>
    inThread[r] \in Thread /\ thread[inThread[r]] # "absent"

\* A live thread has an open question for every answer to come; others are empty.
QuestionsKept ==
  \A t \in Thread :
    IF thread[t] = "live" THEN Cardinality(Answering(t)) <= said[t].open
    ELSE said[t] = Empty

TalkInv == ThreadTypes /\ Created /\ QuestionsKept

-----------------------------------------------------------------------------
(* The cap *)

LEMMA CapStep ==
  ASSUME freeChatLimit \in Nat
  PROVE  CapInv /\ [QuotaNext]_quotaVars => CapInv'
<1> SUFFICES ASSUME CapInv, [QuotaNext]_quotaVars PROVE CapInv'
  OBVIOUS
<1> USE DEF CapInv, QuotaTypes, SlotTaken
<1>1. ASSUME NEW r \in Sender, Reserve(r) PROVE CapInv'
  <2>1. CASE ~redisUp
    <3>1. UNCHANGED <<counter, granted, byRows>>
      BY <1>1, <2>1 DEF Reserve
    <3>2. QED
      BY <3>1
  <2>2. CASE redisUp
    <3>1. /\ counter' = UpToOver(counter + 1)
          /\ byRows' = byRows
          /\ \/ counter' - 1 < freeChatLimit /\ granted' = UpToOver(granted + 1)
             \/ granted' = granted
      BY <1>1, <2>2 DEF Reserve
    <3>2. QED
      BY <3>1 DEF UpToOver
  <2>3. QED
    BY <2>1, <2>2
<1>2. ASSUME NEW r \in Sender, CountRows(r) PROVE CapInv'
  <2>1. /\ UNCHANGED counter
        /\ \/ granted' = UpToOver(granted + 1) /\ byRows' = TRUE
           \/ UNCHANGED <<granted, byRows>>
    BY <1>2 DEF CountRows
  <2>2. QED
    BY <2>1 DEF UpToOver
<1>3. CASE Midnight
  BY <1>3 DEF Midnight
<1>4. CASE \/ \E t \in Thread : CreateThread(t) \/ DeleteThread(t)
           \/ \E r \in Sender : \/ \E t \in Thread : SendMessage(r, t)
                                \/ SaveQuestion(r) \/ SaveAnswer(r) \/ GiveUp(r)
           \/ RedisFails \/ RedisReturns \/ Upgrade
           \/ UNCHANGED quotaVars
  <2>1. UNCHANGED <<counter, granted, byRows>>
    BY <1>4 DEF CreateThread, DeleteThread, SendMessage, SaveQuestion, SaveAnswer, GiveUp,
                RedisFails, RedisReturns, Upgrade, quotaVars
  <2>2. QED
    BY <2>1
<1>5. QED
  BY <1>1, <1>2, <1>3, <1>4 DEF QuotaNext

-----------------------------------------------------------------------------
(* The conversation *)

\* Calls counted one at a time.
LEMMA CountingCalls ==
  ASSUME IsFiniteSet(Sender), NEW S, S \subseteq Sender, NEW r \in Sender
  PROVE  /\ IsFiniteSet(S)
         /\ Cardinality(S) \in Nat
         /\ Cardinality(S \union {r}) = IF r \in S THEN Cardinality(S) ELSE Cardinality(S) + 1
         /\ Cardinality(S \ {r}) = IF r \in S THEN Cardinality(S) - 1 ELSE Cardinality(S)
<1>1. IsFiniteSet(S)
  BY FS_Subset
<1>2. QED
  BY <1>1, FS_CardinalityType, FS_AddElement, FS_RemoveElement

\* A call that is moved to a step where it has no answer to save.
LEMMA Leaves ==
  ASSUME IsFiniteSet(Sender), ThreadTypes, NEW r \in Sender, NEW s, s # "answer",
         quotaPc' = [quotaPc EXCEPT ![r] = s], UNCHANGED inThread, NEW t \in Thread
  PROVE  /\ Answering(t)' = Answering(t) \ {r}
         /\ Cardinality(Answering(t)) \in Nat
         /\ Cardinality(Answering(t)') \in Nat
         /\ Cardinality(Answering(t)') <= Cardinality(Answering(t))
         /\ r \in Answering(t) =>
              Cardinality(Answering(t)') = Cardinality(Answering(t)) - 1
<1>1. Answering(t)' = Answering(t) \ {r}
  BY DEF Answering, ThreadTypes
<1>2. Answering(t) \subseteq Sender /\ Answering(t)' \subseteq Sender
  BY <1>1 DEF Answering
<1>3. Cardinality(Answering(t)') \in Nat
  BY <1>2, CountingCalls
<1>4. /\ Cardinality(Answering(t)) \in Nat
      /\ Cardinality(Answering(t) \ {r}) = IF r \in Answering(t)
           THEN Cardinality(Answering(t)) - 1 ELSE Cardinality(Answering(t))
  BY <1>2, CountingCalls
<1>5. QED
  BY <1>1, <1>3, <1>4

\* No call is at t, and t is empty.
LEMMA NobodyThere ==
  ASSUME TalkInv, NEW t \in Thread, thread[t] = "absent"
  PROVE  Answering(t) = {} /\ said[t] = Empty
BY DEF TalkInv, Created, QuestionsKept, Answering

LEMMA TalkStep ==
  ASSUME IsFiniteSet(Sender)
  PROVE  TalkInv /\ [QuotaNext]_quotaVars => TalkInv'
<1> SUFFICES ASSUME TalkInv, [QuotaNext]_quotaVars PROVE TalkInv'
  OBVIOUS
<1> USE DEF TalkInv
<1>1. ASSUME NEW t \in Thread, CreateThread(t) PROVE TalkInv'
  <2>1. ThreadTypes' /\ Created'
    BY <1>1 DEF CreateThread, rest, ThreadTypes, Created
  <2>2. QuestionsKept'
    <3>1. Answering(t) = {} /\ said[t] = Empty
      BY <1>1, NobodyThere DEF CreateThread
    <3>2. \A q \in Thread : Answering(q)' = Answering(q)
      BY <1>1 DEF CreateThread, Answering
    <3>3. Cardinality(Answering(t)) <= said[t].open
      BY <3>1, FS_EmptySet DEF Empty
    <3>4. QED
      BY <1>1, <3>2, <3>3 DEF CreateThread, ThreadTypes, QuestionsKept
  <2>3. QED
    BY <2>1, <2>2
<1>2. ASSUME NEW t \in Thread, DeleteThread(t) PROVE TalkInv'
  <2>1. ThreadTypes' /\ Created'
    BY <1>2 DEF DeleteThread, ThreadTypes, Created, Empty
  <2>2. \A q \in Thread : Answering(q)' = Answering(q)
    BY <1>2 DEF DeleteThread, Answering
  <2>3. QuestionsKept'
    BY <1>2, <2>2 DEF DeleteThread, ThreadTypes, QuestionsKept
  <2>4. QED
    BY <2>1, <2>3
<1>3. ASSUME NEW r \in Sender, NEW t \in Thread, SendMessage(r, t) PROVE TalkInv'
  <2>1. ThreadTypes' /\ Created'
    BY <1>3 DEF SendMessage, Moves, ThreadTypes, Created
  <2>2. \A q \in Thread : Answering(q)' = Answering(q)
    BY <1>3 DEF SendMessage, Moves, Answering, ThreadTypes
  <2>3. QuestionsKept'
    BY <1>3, <2>2 DEF SendMessage, QuestionsKept
  <2>4. QED
    BY <2>1, <2>3
<1>4. ASSUME NEW r \in Sender, Reserve(r) \/ CountRows(r) \/ GiveUp(r) PROVE TalkInv'
  <2>1. PICK s \in {"idle", "count", "question"} : quotaPc' = [quotaPc EXCEPT ![r] = s]
    BY <1>4 DEF Reserve, CountRows, GiveUp, Moves
  <2>2. quotaPc[r] # "idle" /\ UNCHANGED <<thread, said, inThread>>
    BY <1>4 DEF Reserve, CountRows, GiveUp, Moves
  <2>3. ThreadTypes' /\ Created'
    BY <2>1, <2>2 DEF ThreadTypes, Created
  <2>4. \A t \in Thread : /\ Cardinality(Answering(t)) \in Nat
                          /\ Cardinality(Answering(t)') \in Nat
                          /\ Cardinality(Answering(t)') <= Cardinality(Answering(t))
    BY <2>1, <2>2, Leaves
  <2>5. QuestionsKept'
    BY <2>2, <2>4 DEF QuestionsKept, ThreadTypes
  <2>6. QED
    BY <2>3, <2>5
<1>5. ASSUME NEW r \in Sender, SaveQuestion(r) PROVE TalkInv'
  <2> DEFINE t == inThread[r]
  <2>1. CASE thread[t] = "live"
    <3>1. /\ quotaPc[r] = "question" /\ quotaPc' = [quotaPc EXCEPT ![r] = "answer"]
          /\ said' = [said EXCEPT ![t] = [today |-> @.today + 1, open |-> @.open + 1]]
          /\ UNCHANGED <<thread, inThread>>
      BY <1>5, <2>1 DEF SaveQuestion, Moves
    <3>2. ThreadTypes' /\ Created'
      BY <3>1 DEF ThreadTypes, Created
    <3>3. \A q \in Thread \ {t} : Answering(q)' = Answering(q) /\ said'[q] = said[q]
      BY <3>1 DEF Answering, ThreadTypes
    <3>4. Answering(t)' = Answering(t) \union {r} /\ r \notin Answering(t)
      BY <3>1 DEF Answering, ThreadTypes
    <3>5. Answering(t) \subseteq Sender
      BY DEF Answering
    <3>6. /\ Cardinality(Answering(t)) \in Nat
          /\ Cardinality(Answering(t)') = Cardinality(Answering(t)) + 1
      BY <3>4, <3>5, CountingCalls
    <3>7. t \in Thread /\ said[t].open \in Int /\ said'[t].open = said[t].open + 1
      BY <3>1 DEF ThreadTypes, Created
    <3>8. Cardinality(Answering(t)') <= said'[t].open
      BY <2>1, <3>6, <3>7 DEF QuestionsKept
    <3>9. QuestionsKept'
      BY <2>1, <3>1, <3>3, <3>8 DEF QuestionsKept
    <3>10. QED
      BY <3>2, <3>9
  <2>2. CASE thread[t] # "live"
    <3>1. /\ quotaPc' = [quotaPc EXCEPT ![r] = "idle"] /\ quotaPc[r] # "idle"
          /\ UNCHANGED <<thread, said, inThread>>
      BY <1>5, <2>2 DEF SaveQuestion, Moves
    <3>2. ThreadTypes' /\ Created'
      BY <3>1 DEF ThreadTypes, Created
    <3>3. \A q \in Thread : /\ Cardinality(Answering(q)) \in Nat
                            /\ Cardinality(Answering(q)') \in Nat
                            /\ Cardinality(Answering(q)') <= Cardinality(Answering(q))
      BY <3>1, Leaves
    <3>4. QuestionsKept'
      BY <3>1, <3>3 DEF QuestionsKept, ThreadTypes
    <3>5. QED
      BY <3>2, <3>4
  <2>3. QED
    BY <2>1, <2>2
<1>6. ASSUME NEW r \in Sender, SaveAnswer(r) PROVE TalkInv'
  <2> DEFINE t == inThread[r]
  <2>1. /\ quotaPc[r] = "answer" /\ quotaPc' = [quotaPc EXCEPT ![r] = "idle"]
        /\ said' = (IF thread[t] = "live" THEN [said EXCEPT ![t].open = @ - 1] ELSE said)
        /\ UNCHANGED <<thread, inThread>>
    BY <1>6 DEF SaveAnswer, Moves
  <2>2. t \in Thread /\ r \in Answering(t)
    BY <2>1 DEF ThreadTypes, Created, Answering
  <2>3. ThreadTypes' /\ Created'
    BY <2>1, <2>2 DEF ThreadTypes, Created
  <2>4. \A q \in Thread : /\ Cardinality(Answering(q)) \in Nat
                          /\ Cardinality(Answering(q)') \in Nat
                          /\ Cardinality(Answering(q)') <= Cardinality(Answering(q))
                          /\ r \in Answering(q) =>
                               Cardinality(Answering(q)') = Cardinality(Answering(q)) - 1
    BY <2>1, Leaves
  <2>5. \A q \in Thread \ {t} : said'[q] = said[q]
    BY <2>1 DEF ThreadTypes
  <2>6. thread[t] = "live" => said[t].open \in Int /\ said'[t].open = said[t].open - 1
    BY <2>1, <2>2 DEF ThreadTypes
  <2>7. thread[t] = "live" => Cardinality(Answering(t)') <= said'[t].open
    <3>1. thread[t] = "live" => Cardinality(Answering(t)) <= said[t].open
      BY <2>2 DEF QuestionsKept
    <3>2. /\ Cardinality(Answering(t)) \in Nat
          /\ Cardinality(Answering(t)') = Cardinality(Answering(t)) - 1
      BY <2>1, <2>2, <2>4
    <3>3. QED
      BY <2>6, <3>1, <3>2
  <2>8. \A q \in Thread : said[q].open \in Int
    BY DEF ThreadTypes
  <2>9. QuestionsKept'
    BY <2>1, <2>4, <2>5, <2>7, <2>8 DEF QuestionsKept
  <2>10. QED
    BY <2>3, <2>9
<1>7. CASE Midnight
  <2>1. ThreadTypes' /\ Created'
    BY <1>7 DEF Midnight, ThreadTypes, Created
  <2>2. \A q \in Thread : /\ Answering(q)' = Answering(q)
                          /\ said'[q] = [said[q] EXCEPT !.today = 0]
    BY <1>7 DEF Midnight, Answering
  <2>3. \A q \in Thread : /\ said'[q].open = said[q].open
                          /\ said[q] = Empty => said'[q] = Empty
    <3> SUFFICES ASSUME NEW q \in Thread
                 PROVE  /\ said'[q].open = said[q].open
                        /\ said[q] = Empty => said'[q] = Empty
      OBVIOUS
    <3>1. said[q] \in [today : Nat, open : Int]
      BY DEF ThreadTypes
    <3>2. said'[q] = [today |-> 0, open |-> said[q].open]
      BY <2>2, <3>1
    <3>3. QED
      BY <3>2 DEF Empty
  <2>4. QuestionsKept'
    BY <1>7, <2>2, <2>3 DEF Midnight, QuestionsKept
  <2>5. QED
    BY <2>1, <2>4
<1>8. CASE RedisFails \/ RedisReturns \/ Upgrade \/ UNCHANGED quotaVars
  <2>1. UNCHANGED <<thread, said, quotaPc, inThread>>
    BY <1>8 DEF RedisFails, RedisReturns, Upgrade, quotaVars
  <2>2. QED
    BY <2>1 DEF ThreadTypes, Created, QuestionsKept, Answering
<1>9. QED
  BY <1>1, <1>2, <1>3, <1>4, <1>5, <1>6, <1>7, <1>8 DEF QuotaNext

\* Whatever thread is deleted while a message is answered: no answer without its question
\* is kept, and nothing in a thread that is gone (SendMessage, DeleteThread).
THEOREM AnswersKeepTheirQuestions == QuotaSpec => []AnswersFollowQuestions
<1>1. QuotaInit => TalkInv
  BY DEF QuotaInit, TalkInv, ThreadTypes, Created, QuestionsKept, Empty
<1>2. TalkInv /\ [QuotaNext]_quotaVars => TalkInv'
  BY TalkStep, ChatAssumption
<1>3. TalkInv => AnswersFollowQuestions
  <2> SUFFICES ASSUME TalkInv, NEW t \in Thread
               PROVE said[t].open >= 0 /\ (thread[t] # "live" => said[t] = Empty)
    BY DEF AnswersFollowQuestions
  <2>1. Answering(t) \subseteq Sender
    BY DEF Answering
  <2>2. Cardinality(Answering(t)) \in Nat
    BY <2>1, ChatAssumption, FS_Subset, FS_CardinalityType
  <2>3. QED
    BY <2>2 DEF TalkInv, ThreadTypes, QuestionsKept, Empty
<1>4. QED
  BY <1>1, <1>2, <1>3, PTL DEF QuotaSpec

-----------------------------------------------------------------------------
(* Types *)

SwitchTypes == redisUp \in BOOLEAN /\ premium \in BOOLEAN /\ byRows \in BOOLEAN

LEMMA SwitchStep ==
  ASSUME SwitchTypes, [QuotaNext]_quotaVars
  PROVE  SwitchTypes'
<1> USE DEF rest
<1>1. CASE \/ \E t \in Thread : CreateThread(t) \/ DeleteThread(t)
           \/ \E r \in Sender : \/ \E t \in Thread : SendMessage(r, t)
                                \/ Reserve(r) \/ SaveQuestion(r) \/ SaveAnswer(r) \/ GiveUp(r)
           \/ UNCHANGED quotaVars
  <2>1. UNCHANGED <<redisUp, premium, byRows>>
    BY <1>1 DEF CreateThread, DeleteThread, SendMessage, Reserve, SaveQuestion, SaveAnswer, GiveUp,
                quotaVars
  <2>2. QED
    BY <2>1 DEF SwitchTypes
<1>2. ASSUME NEW r \in Sender, CountRows(r) PROVE SwitchTypes'
  <2>1. UNCHANGED <<redisUp, premium>> /\ byRows' \in {TRUE, byRows}
    BY <1>2 DEF CountRows
  <2>2. QED
    BY <2>1 DEF SwitchTypes
<1>3. CASE Midnight \/ RedisFails \/ RedisReturns \/ Upgrade
  <2>1. /\ redisUp' \in {TRUE, FALSE, redisUp} /\ premium' \in {premium, ~premium}
        /\ byRows' \in {FALSE, byRows}
    BY <1>3 DEF Midnight, RedisFails, RedisReturns, Upgrade
  <2>2. QED
    BY <2>1 DEF SwitchTypes
<1>4. QED
  BY <1>1, <1>2, <1>3 DEF QuotaNext

\* Every variable of ChatQuota has its type: the counter in Redis, the messages let through
\* and the rows of every thread (reserveMessage, SendMessage, DeleteThread).
THEOREM QuotaIsTyped == QuotaSpec => []QuotaTypeOK
<1>1. QuotaInit => CapInv /\ TalkInv /\ SwitchTypes
  <2>1. QuotaInit => CapInv
    BY ChatAssumption DEF QuotaInit, CapInv, QuotaTypes, SlotTaken
  <2>2. QuotaInit => TalkInv
    BY DEF QuotaInit, TalkInv, ThreadTypes, Created, QuestionsKept, Empty
  <2>3. QuotaInit => SwitchTypes
    BY DEF QuotaInit, SwitchTypes
  <2>4. QED
    BY <2>1, <2>2, <2>3
<1>2. CapInv /\ TalkInv /\ SwitchTypes /\ [QuotaNext]_quotaVars
        => CapInv' /\ TalkInv' /\ SwitchTypes'
  BY CapStep, TalkStep, SwitchStep, ChatAssumption
<1>3. CapInv /\ TalkInv /\ SwitchTypes => QuotaTypeOK
  BY DEF CapInv, QuotaTypes, TalkInv, ThreadTypes, SwitchTypes, QuotaTypeOK
<1>4. QED
  BY <1>1, <1>2, <1>3, PTL DEF QuotaSpec

-----------------------------------------------------------------------------
(* The budget *)

\* The fold of CountUserMessagesToday takes one thread after the other.
OneLess(s) == s \ {CHOOSE x \in s : TRUE}

\* g counts the rows of any k threads.
Counts(g, k) ==
  \A s \in SUBSET Thread : Cardinality(s) <= k =>
    g[s] = IF s = {} THEN 0 ELSE g[OneLess(s)] + said[CHOOSE x \in s : TRUE].today

\* The rows of today of the threads of s.
Count[s \in SUBSET Thread] ==
  IF s = {} THEN 0 ELSE Count[s \ {CHOOSE x \in s : TRUE}] + said[CHOOSE x \in s : TRUE].today

\* It is what the fold computes.
LEMMA CountIsFold == CountUserMessagesToday = Count[Thread]
BY Zenon DEF CountUserMessagesToday, FoldSet, MapThenFoldSet, Count

\* A set of threads without one of them.
LEMMA OneLessIsLess ==
  ASSUME IsFiniteSet(Thread), NEW s \in SUBSET Thread, s # {}
  PROVE  /\ (CHOOSE x \in s : TRUE) \in s /\ OneLess(s) \in SUBSET Thread
         /\ Cardinality(s) \in Nat /\ Cardinality(s) > 0
         /\ Cardinality(OneLess(s)) = Cardinality(s) - 1
<1> DEFINE x == CHOOSE y \in s : TRUE
<1>1. x \in s
  OBVIOUS
<1> HIDE DEF x
<1>2. IsFiniteSet(s) /\ Cardinality(s) \in Nat
  BY FS_Subset, FS_CardinalityType
<1>3. Cardinality(s \ {x}) = Cardinality(s) - 1 /\ Cardinality(s) # 0
  BY <1>1, <1>2, FS_RemoveElement, FS_EmptySet
<1>4. OneLess(s) = s \ {x}
  BY DEF OneLess, x
<1> QED
  BY <1>1, <1>2, <1>3, <1>4 DEF x

\* A count of k threads goes on to one more.
LEMMA CountGoesOn ==
  ASSUME IsFiniteSet(Thread), NEW k \in Nat, NEW g, Counts(g, k)
  PROVE  \E h : Counts(h, k + 1)
<1> DEFINE h == [s \in SUBSET Thread |->
                   IF s = {} THEN 0 ELSE g[OneLess(s)] + said[CHOOSE x \in s : TRUE].today]
<1>1. ASSUME NEW s \in SUBSET Thread, Cardinality(s) <= k PROVE h[s] = g[s]
  BY <1>1 DEF Counts
<1>2. ASSUME NEW s \in SUBSET Thread, Cardinality(s) <= k + 1, s # {} PROVE h[OneLess(s)] = g[OneLess(s)]
  <2>1. OneLess(s) \in SUBSET Thread /\ Cardinality(OneLess(s)) <= k
    BY <1>2, OneLessIsLess
  <2> HIDE DEF h
  <2> QED
    BY <1>1, <2>1
<1>3. \A s \in SUBSET Thread :
        h[s] = IF s = {} THEN 0 ELSE g[OneLess(s)] + said[CHOOSE x \in s : TRUE].today
  OBVIOUS
<1> HIDE DEF h
<1>4. Counts(h, k + 1)
  BY <1>2, <1>3 DEF Counts
<1> QED
  BY <1>4

\* There is a count of none.
LEMMA CountBegins == ASSUME IsFiniteSet(Thread) PROVE \E g : Counts(g, 0)
<1> DEFINE g == [s \in SUBSET Thread |-> 0]
<1>1. ASSUME NEW s \in SUBSET Thread, Cardinality(s) <= 0 PROVE s = {}
  BY <1>1, OneLessIsLess
<1>2. Counts(g, 0)
  BY <1>1 DEF Counts
<1> QED
  BY <1>2

\* So the count is defined, for any number of threads,
LEMMA CountIsDefined ==
  ASSUME IsFiniteSet(Thread)
  PROVE  \A s \in SUBSET Thread :
           Count[s] = IF s = {} THEN 0 ELSE Count[OneLess(s)] + said[CHOOSE x \in s : TRUE].today
<1> DEFINE Missing == {k \in Nat : ~ \E g : Counts(g, k)}
<1>1. Missing = {}
  <2> SUFFICES ASSUME Missing # {} PROVE FALSE
    OBVIOUS
  <2>1. PICK k \in Missing : \A m \in Missing : k <= m
    <3>1. Missing \subseteq Nat
      OBVIOUS
    <3> HIDE DEF Missing
    <3> QED
      BY <3>1, LeastNumber
  <2>2. k # 0
    BY CountBegins, <2>1
  <2>3. k - 1 \in Nat /\ k - 1 \notin Missing /\ (k - 1) + 1 = k
    BY <2>1, <2>2
  <2>4. PICK g : Counts(g, k - 1)
    BY <2>3
  <2>5. \E h : Counts(h, (k - 1) + 1)
    BY <2>3, <2>4, CountGoesOn
  <2> QED
    BY <2>3, <2>5
<1> DEFINE n == Cardinality(Thread)
<1>2. n \in Nat /\ \A s \in SUBSET Thread : Cardinality(s) <= n
  BY FS_CardinalityType, FS_Subset
<1>3. PICK g : Counts(g, n)
  BY <1>1, <1>2
<1> DEFINE W(f) == [s \in SUBSET Thread |->
                      IF s = {} THEN 0 ELSE f[OneLess(s)] + said[CHOOSE x \in s : TRUE].today]
<1>4. W(g) = W(W(g))
  <2>1. \A s \in SUBSET Thread : W(g)[s] = g[s]
    BY <1>2, <1>3 DEF Counts
  <2>2. \A s \in SUBSET Thread : OneLess(s) \in SUBSET Thread
    BY DEF OneLess
  <2> QED
    BY <2>1, <2>2
<1>5. Count = CHOOSE f : f = W(f)
  BY DEF Count, OneLess
<1> HIDE DEF W
<1>6. Count = W(Count)
  BY <1>4, <1>5
<1> QED
  BY <1>6 DEF W

\* and is a number.
LEMMA CountsAreNumbers ==
  ASSUME IsFiniteSet(Thread), ThreadTypes PROVE CountUserMessagesToday \in Nat
<1> DEFINE Wrong == {k \in Nat : \E s \in SUBSET Thread : Cardinality(s) = k /\ Count[s] \notin Nat}
<1>1. Wrong = {}
  <2> SUFFICES ASSUME Wrong # {} PROVE FALSE
    OBVIOUS
  <2>1. PICK k \in Wrong : \A m \in Wrong : k <= m
    <3>1. Wrong \subseteq Nat
      OBVIOUS
    <3> HIDE DEF Wrong
    <3> QED
      BY <3>1, LeastNumber
  <2>2. PICK s \in SUBSET Thread : Cardinality(s) = k /\ Count[s] \notin Nat
    BY <2>1
  <2>3. s # {}
    BY <2>2, CountIsDefined
  <2>4. /\ (CHOOSE x \in s : TRUE) \in s /\ OneLess(s) \in SUBSET Thread
        /\ Cardinality(OneLess(s)) = k - 1 /\ k - 1 \in Nat
    BY <2>2, <2>3, OneLessIsLess
  <2>5. Count[OneLess(s)] \in Nat
    BY <2>1, <2>4
  <2>6. said[CHOOSE x \in s : TRUE].today \in Nat
    BY <2>4 DEF ThreadTypes
  <2>7. Count[s] = Count[OneLess(s)] + said[CHOOSE x \in s : TRUE].today
    BY <2>3, CountIsDefined
  <2> QED
    BY <2>2, <2>5, <2>6, <2>7
<1>2. Cardinality(Thread) \in Nat /\ Thread \in SUBSET Thread
  BY FS_CardinalityType
<1>3. Count[Thread] \in Nat
  BY <1>1, <1>2
<1> QED
  BY <1>3, CountIsFold

\* What GetUsage reports below the limit is below it for the call too.
LEMMA UsageAgrees ==
  ASSUME IsFiniteSet(Thread), freeChatLimit \in Nat, ThreadTypes, QuotaTypes
  PROVE  UsageKeepsItsWord
<1> DEFINE rows == CountUserMessagesToday
<1>1. rows \in Nat /\ counter \in Nat
  BY CountsAreNumbers DEF QuotaTypes
<1> HIDE DEF rows
<1>2. Max({rows, counter}) = IF rows < counter THEN counter ELSE rows
  BY <1>1 DEF Max
<1>3. Used = LET used == IF redisUp THEN Max({rows, counter}) ELSE rows
             IN IF used > freeChatLimit THEN freeChatLimit ELSE used
  BY DEF Used, rows
<1>4. Used < freeChatLimit => IF redisUp THEN counter < freeChatLimit ELSE rows < freeChatLimit
  BY <1>1, <1>2, <1>3
<1> QED
  BY <1>4 DEF UsageKeepsItsWord, rows

\* However calls, outages of Redis and midnight overlap, no more messages are let through
\* on the free budget of a day than the limit, while Redis answers; and when the app shows one
\* left the next call is let through (reserveMessage, GetUsage).
THEOREM TheBudgetHolds == QuotaSpec => []BudgetHolds
<1>1. QuotaInit => CapInv /\ TalkInv
  <2>1. QuotaInit => CapInv
    BY ChatAssumption DEF QuotaInit, CapInv, QuotaTypes, SlotTaken
  <2>2. QuotaInit => TalkInv
    BY DEF QuotaInit, TalkInv, ThreadTypes, Created, QuestionsKept, Empty
  <2>3. QED
    BY <2>1, <2>2
<1>2. CapInv /\ TalkInv /\ [QuotaNext]_quotaVars => CapInv' /\ TalkInv'
  BY CapStep, TalkStep, ChatAssumption
<1>3. CapInv /\ TalkInv => BudgetHolds
  <2>1. CapInv => CapHolds
    BY DEF CapInv, SlotTaken, CapHolds
  <2>2. CapInv /\ TalkInv => UsageKeepsItsWord
    BY UsageAgrees, ChatAssumption DEF CapInv, TalkInv
  <2>3. QED
    BY <2>1, <2>2 DEF BudgetHolds
<1>4. QED
  BY <1>1, <1>2, <1>3, PTL DEF QuotaSpec

-----------------------------------------------------------------------------
(* Rituals *)

RitualTypes ==
  /\ today \in Day
  /\ streakCount \in [Ritual -> [Day -> Nat]]
  /\ crossed \in BOOLEAN
  /\ computed \in [Caller -> [ritual : Ritual, streak : Nat] \union {NoCall}]

\* No row is of a day to come.
RowsArePast == \A t \in Ritual, d \in Day : streakCount[t][d] > 0 => d <= today

\* Of the rows f of a ritual, by day: the streak of the day before d.
Before(f, d) == IF d = 1 THEN 0 ELSE f[d - 1]

\* What a call has computed still goes with yesterday's row.
ComputedHolds ==
  \A r \in Caller : computed[r] # NoCall =>
    computed[r].streak = 1 + Before(streakCount[computed[r].ritual], today)

\* A row of n says that its day and the n - 1 before it have rows, and the one before not.
RowIsRun(f, d) ==
  /\ f[d] <= d
  /\ \A e \in Day : d - f[d] < e /\ e <= d => f[e] > 0
  /\ \A e \in Day : e = d - f[d] => f[e] = 0

AreRuns(f) == \A d \in Day : f[d] > 0 => RowIsRun(f, d)

RowsAreRuns == \A t \in Ritual : AreRuns(streakCount[t])

RitualInv == RitualTypes /\ RowsArePast /\ (~crossed => ComputedHolds /\ RowsAreRuns)

\* A set of days has one run that ends on a given day.
LEMMA OneRun ==
  ASSUME NEW S \in SUBSET Nat, NEW d \in Nat, NEW n \in 0 .. d,
         (d - n + 1) .. d \subseteq S, d - n \notin S
  PROVE  Run(S, d) = n
<1> DEFINE P(k) == k \in 0 .. d /\ (d - k + 1) .. d \subseteq S /\ d - k \notin S
<1>1. \A k : P(k) => k = n
  <2> SUFFICES ASSUME NEW k \in 0 .. d, P(k), k # n PROVE FALSE
    OBVIOUS
  <2>1. CASE k < n
    <3>1. d - k \in (d - n + 1) .. d
      BY <2>1
    <3>2. QED
      BY <3>1
  <2>2. CASE n < k
    <3>1. d - n \in (d - k + 1) .. d
      BY <2>2
    <3>2. QED
      BY <3>1
  <2>3. QED
    BY <2>1, <2>2
<1>2. P(n)
  OBVIOUS
<1>3. Run(S, d) = CHOOSE k : P(k)
  BY DEF Run
<1>4. QED
  BY <1>1, <1>2, <1>3

\* The row of the last day, written after what the day before says, is a run of its own.
LEMMA RunGoesOn ==
  ASSUME LastDay \in Nat \ {0}, NEW f \in [Day -> Nat], NEW k \in Day, AreRuns(f),
         \A d \in Day : f[d] > 0 => d <= k,
         NEW g, g = [f EXCEPT ![k] = 1 + Before(f, k)]
  PROVE  AreRuns(g)
<1> USE DEF Day
<1>1. /\ g[k] = 1 + Before(f, k)
      /\ \A d \in Day \ {k} : g[d] = f[d]
      /\ \A d \in Day : f[d] \in Nat
      /\ Before(f, k) \in Nat
  BY DEF Before
<1> SUFFICES ASSUME NEW d \in Day, g[d] > 0 PROVE RowIsRun(g, d)
  BY DEF AreRuns
<1>2. CASE d # k
  <2>1. g[d] = f[d] /\ d < k /\ RowIsRun(f, d)
    BY <1>1, <1>2 DEF AreRuns
  <2>2. QED
    BY <1>1, <2>1 DEF RowIsRun
<1>3. CASE d = k
  <2>1. CASE Before(f, k) = 0
    BY <1>1, <1>3, <2>1 DEF RowIsRun, Before
  <2>2. CASE Before(f, k) # 0
    <3>1. k - 1 \in Day /\ Before(f, k) = f[k - 1] /\ f[k - 1] > 0
      BY <1>1, <2>2 DEF Before
    <3>2. RowIsRun(f, k - 1)
      BY <3>1 DEF AreRuns
    <3>3. g[k] = 1 + f[k - 1]
      BY <1>1, <3>1
    <3>4. g[k] <= k
      BY <1>1, <3>1, <3>2, <3>3 DEF RowIsRun
    <3>5. \A e \in Day : k - g[k] < e /\ e <= k => g[e] > 0
      <4> SUFFICES ASSUME NEW e \in Day, k - g[k] < e, e <= k, e # k PROVE g[e] > 0
        BY <1>1, <3>1, <3>3
      <4>1. k - 1 - f[k - 1] < e /\ e <= k - 1
        BY <1>1, <3>1, <3>3
      <4>2. QED
        BY <1>1, <3>2, <4>1 DEF RowIsRun
    <3>6. \A e \in Day : e = k - g[k] => g[e] = 0
      <4> SUFFICES ASSUME NEW e \in Day, e = k - g[k] PROVE g[e] = 0
        OBVIOUS
      <4>1. e = k - 1 - f[k - 1] /\ e # k
        BY <1>1, <3>1, <3>3
      <4>2. QED
        BY <1>1, <3>2, <4>1 DEF RowIsRun
    <3>7. QED
      BY <1>3, <3>4, <3>5, <3>6 DEF RowIsRun
  <2>3. QED
    BY <2>1, <2>2
<1>4. QED
  BY <1>2, <1>3

LEMMA RitualStep ==
  ASSUME LastDay \in Nat \ {0}, NoCall \notin [ritual : Ritual, streak : Nat]
  PROVE  RitualInv /\ [RitualNext]_ritualVars => RitualInv'
<1> SUFFICES ASSUME RitualInv, [RitualNext]_ritualVars PROVE RitualInv'
  OBVIOUS
<1> USE DEF RitualInv, Day
<1>1. ASSUME NEW r \in Caller, NEW t \in Ritual, ReadYesterday(r, t) PROVE RitualInv'
  <2> DEFINE n == 1 + Before(streakCount[t], today)
  <2>1. n \in Nat
    BY DEF Before, RitualTypes
  <2>2. computed' = [computed EXCEPT ![r] = [ritual |-> t, streak |-> n]]
    BY <1>1 DEF ReadYesterday, Before
  <2>3. UNCHANGED <<today, streakCount, crossed>>
    BY <1>1 DEF ReadYesterday
  <2> HIDE DEF n
  <2>4. RitualTypes' /\ RowsArePast'
    BY <2>1, <2>2, <2>3 DEF RitualTypes, RowsArePast
  <2>5. ~crossed => ComputedHolds'
    BY <2>2, <2>3 DEF ComputedHolds, Before, RitualTypes, n
  <2>6. ~crossed => RowsAreRuns'
    BY <2>3 DEF RowsAreRuns, AreRuns, RowIsRun
  <2>7. QED
    BY <2>3, <2>4, <2>5, <2>6
<1>2. ASSUME NEW r \in Caller, UpsertToday(r) PROVE RitualInv'
  <2> DEFINE t == computed[r].ritual
             n == computed[r].streak
             g == [streakCount[t] EXCEPT ![today] = n]
  <2>1. t \in Ritual /\ n \in Nat
    BY <1>2 DEF UpsertToday, RitualTypes
  <2>2. /\ computed' = [computed EXCEPT ![r] = NoCall]
        /\ UNCHANGED <<today, crossed>>
    BY <1>2 DEF UpsertToday
  <2>3. CASE UNCHANGED streakCount
    BY <2>2, <2>3
    DEF RitualTypes, RowsArePast, ComputedHolds, RowsAreRuns, AreRuns, RowIsRun
  <2>4. CASE streakCount' = [streakCount EXCEPT ![t][today] = n]
    <3>1. streakCount' = [streakCount EXCEPT ![t] = g]
      BY <2>4
    <3>2. g \in [Day -> Nat] /\ \A d \in Day \ {today} : g[d] = streakCount[t][d]
      BY <2>1 DEF RitualTypes
    <3> HIDE DEF g
    <3>3. \A q \in Ritual : streakCount'[q] = IF q = t THEN g ELSE streakCount[q]
      BY <2>1, <3>1 DEF RitualTypes
    <3>4. RitualTypes'
      BY <2>1, <2>2, <3>1, <3>2 DEF RitualTypes
    <3>5. RowsArePast'
      BY <2>2, <3>2, <3>3 DEF RitualTypes, RowsArePast
    <3>6. ASSUME ~crossed PROVE ComputedHolds'
      <4> SUFFICES ASSUME NEW q \in Caller, computed'[q] # NoCall
                   PROVE  computed'[q].streak =
                            1 + Before(streakCount'[computed'[q].ritual], today')
        BY DEF ComputedHolds, Before
      <4>1. computed'[q] = computed[q] /\ computed[q] # NoCall /\ computed[q].ritual \in Ritual
        BY <2>2 DEF RitualTypes
      <4>2. Before(streakCount'[computed[q].ritual], today) =
              Before(streakCount[computed[q].ritual], today)
        <5>1. today # 1 => today - 1 \in Day \ {today}
          BY DEF RitualTypes
        <5>2. Before(g, today) = Before(streakCount[t], today)
          BY <3>2, <5>1 DEF Before
        <5>3. QED
          BY <3>3, <4>1, <5>2
      <4>3. QED
        BY <2>2, <3>6, <4>1, <4>2 DEF ComputedHolds
    <3>7. ASSUME ~crossed PROVE RowsAreRuns'
      <4>1. n = 1 + Before(streakCount[t], today)
        BY <1>2, <3>7 DEF UpsertToday, ComputedHolds
      <4>2. AreRuns(g)
        BY <2>1, <3>7, <4>1, RunGoesOn DEF RowsAreRuns, RowsArePast, RitualTypes, g
      <4>3. \A q \in Ritual : AreRuns(streakCount'[q])
        BY <3>3, <3>7, <4>2 DEF RowsAreRuns
      <4>4. QED
        BY <4>3 DEF RowsAreRuns, AreRuns, RowIsRun
    <3>8. QED
      BY <2>2, <3>4, <3>5, <3>6, <3>7
  <2>5. QED
    BY <1>2, <2>3, <2>4 DEF UpsertToday
<1>3. CASE NextDay
  <2>1. RitualTypes' /\ RowsArePast'
    BY <1>3 DEF NextDay, RitualTypes, RowsArePast
  <2>2. ~crossed' => ~crossed /\ \A r \in Caller : computed[r] = NoCall
    BY <1>3 DEF NextDay
  <2>3. ~crossed' => ComputedHolds' /\ RowsAreRuns'
    BY <1>3, <2>2 DEF NextDay, ComputedHolds, RowsAreRuns, AreRuns, RowIsRun
  <2>4. QED
    BY <2>1, <2>3
<1>4. CASE Write \/ UNCHANGED ritualVars
  <2>1. UNCHANGED <<today, streakCount, computed, crossed>>
    BY <1>4 DEF Write, ritualVars
  <2>2. QED
    BY <2>1 DEF RitualTypes, RowsArePast, ComputedHolds, RowsAreRuns, AreRuns, RowIsRun
<1>5. QED
  BY <1>1, <1>2, <1>3, <1>4 DEF RitualNext

\* At first there are no rows and no calls.
LEMMA RitualInitial == RitualInit => RitualInv
<1> SUFFICES ASSUME RitualInit PROVE RitualInv
  OBVIOUS
<1>1. RitualTypes
  <2>1. today \in Day
    BY RitualAssumption DEF RitualInit, Day
  <2>2. streakCount \in [Ritual -> [Day -> Nat]]
    BY DEF RitualInit
  <2>3. computed \in [Caller -> [ritual : Ritual, streak : Nat] \union {NoCall}]
    BY DEF RitualInit
  <2>4. crossed \in BOOLEAN
    BY DEF RitualInit
  <2>5. QED
    BY <2>1, <2>2, <2>3, <2>4 DEF RitualTypes
<1>2. \A t \in Ritual, d \in Day : streakCount[t][d] = 0
  BY DEF RitualInit
<1>3. RowsArePast /\ ComputedHolds /\ RowsAreRuns
  BY <1>2 DEF RitualInit, RowsArePast, ComputedHolds, RowsAreRuns, AreRuns
<1>4. QED
  BY <1>1, <1>3 DEF RitualInv

\* A row's streak is the run of days with rows that ends with it, whatever calls are
\* repeated or overlap, as long as none is under way at midnight (Complete).
THEOREM StreaksAreRuns == RitualSpec => []StreakIsRun
<1>1. RitualInit => RitualInv
  BY RitualInitial
<1>2. RitualInv /\ [RitualNext]_ritualVars => RitualInv'
  BY RitualStep, RitualAssumption
<1>3. RitualInv => StreakIsRun
  <2> SUFFICES ASSUME RitualInv, ~crossed, NEW t \in Ritual, NEW d \in Day,
                      streakCount[t][d] > 0
               PROVE  streakCount[t][d] = Run({e \in Day : streakCount[t][e] > 0}, d)
    BY DEF StreakIsRun
  <2> DEFINE S == {e \in Day : streakCount[t][e] > 0}
             n == streakCount[t][d]
  <2>1. n \in Nat /\ d \in Nat /\ RowIsRun(streakCount[t], d)
    BY RitualAssumption DEF RitualInv, RitualTypes, RowsAreRuns, AreRuns, Day
  <2>2. n \in 0 .. d /\ d - n \notin S
    BY <2>1 DEF RowIsRun
  <2>3. (d - n + 1) .. d \subseteq S
    BY <2>1, RitualAssumption DEF RowIsRun, Day
  <2>4. S \in SUBSET Nat
    BY DEF Day
  <2>5. QED
    BY <2>1, <2>2, <2>3, <2>4, OneRun
<1>4. QED
  BY <1>1, <1>2, <1>3, PTL DEF RitualSpec

-----------------------------------------------------------------------------
(* The screens *)

\* The walk with a step for every day down to d.
IsWalk(g, d) ==
  \A e \in d .. LastDay + 1 :
    g[e] = IF e = LastDay + 1 THEN [open |-> TRUE, n |-> 0, cursor |-> today]
           ELSE ReadDay(g[e + 1], e)

\* There is one of no step,
LEMMA WalkBegins == ASSUME LastDay \in Nat PROVE \E g : IsWalk(g, LastDay + 1)
<1> DEFINE g == [e \in {LastDay + 1} |-> [open |-> TRUE, n |-> 0, cursor |-> today]]
<1>1. IsWalk(g, LastDay + 1)
  BY DEF IsWalk
<1> QED
  BY <1>1

\* and one that goes on for a day,
LEMMA WalkContinues ==
  ASSUME LastDay \in Nat, NEW d \in 1 .. LastDay, NEW g, IsWalk(g, d + 1)
  PROVE  \E h : IsWalk(h, d)
<1> DEFINE h == [e \in d .. LastDay + 1 |-> IF e = d THEN ReadDay(g[d + 1], d) ELSE g[e]]
<1>1. ASSUME NEW e \in d .. LastDay + 1
      PROVE  h[e] = IF e = LastDay + 1 THEN [open |-> TRUE, n |-> 0, cursor |-> today]
                    ELSE ReadDay(h[e + 1], e)
  <2>1. CASE e = d
    <3>1. h[e] = ReadDay(g[d + 1], d) /\ h[d + 1] = g[d + 1]
      BY <2>1
    <3> QED
      BY <2>1, <3>1
  <2>2. CASE e # d
    <3>1. /\ e \in d + 1 .. LastDay + 1 /\ h[e] = g[e]
          /\ e # LastDay + 1 => h[e + 1] = g[e + 1]
      BY <2>2
    <3> HIDE DEF h
    <3> QED
      BY <3>1 DEF IsWalk
  <2> QED
    BY <2>1, <2>2
<1> HIDE DEF h
<1> QED
  BY <1>1 DEF IsWalk

\* so that the walk is defined, for any number of days.
LEMMA WalkIsDefined ==
  ASSUME LastDay \in Nat
  PROVE  \A d \in 1 .. LastDay + 1 :
           walk[d] = IF d = LastDay + 1 THEN [open |-> TRUE, n |-> 0, cursor |-> today]
                     ELSE ReadDay(walk[d + 1], d)
<1> DEFINE Missing == {k \in 0 .. LastDay : ~ \E g : IsWalk(g, LastDay + 1 - k)}
<1>1. Missing = {}
  <2> SUFFICES ASSUME Missing # {} PROVE FALSE
    OBVIOUS
  <2>0. Missing \subseteq Nat
    OBVIOUS
  <2>1. PICK k \in Missing : \A m \in Missing : k <= m
    <3> HIDE DEF Missing
    <3> QED
      BY <2>0, LeastNumber
  <2>2. k # 0
    BY WalkBegins, <2>1
  <2>3. k - 1 \in 0 .. LastDay /\ k - 1 \notin Missing
    BY <2>1, <2>2
  <2>4. PICK g : IsWalk(g, LastDay + 1 - (k - 1))
    BY <2>3
  <2> DEFINE d == LastDay + 1 - k
  <2>5. d \in 1 .. LastDay /\ LastDay + 1 - (k - 1) = d + 1
    BY <2>2
  <2>6. \E h : IsWalk(h, d)
    BY <2>4, <2>5, WalkContinues
  <2> QED
    BY <2>6
<1>2. PICK g : IsWalk(g, 1)
  <2>1. LastDay \in 0 .. LastDay /\ LastDay + 1 - LastDay = 1
    OBVIOUS
  <2>2. \E g : IsWalk(g, LastDay + 1 - LastDay)
    BY <1>1, <2>1
  <2> QED
    BY <2>1, <2>2
<1> DEFINE W(f) == [d \in 1 .. LastDay + 1 |->
                      IF d = LastDay + 1 THEN [open |-> TRUE, n |-> 0, cursor |-> today]
                      ELSE ReadDay(f[d + 1], d)]
<1>3. W(g) = W(W(g))
  <2>1. \A d \in 1 .. LastDay + 1 : W(g)[d] = g[d]
    BY <1>2 DEF IsWalk
  <2>2. \A d \in 1 .. LastDay + 1 : d # LastDay + 1 => d + 1 \in 1 .. LastDay + 1
    OBVIOUS
  <2> QED
    BY <2>1, <2>2
<1>4. walk = CHOOSE f : f = W(f)
  BY DEF walk
<1> HIDE DEF W
<1>5. walk = W(walk)
  BY <1>3, <1>4
<1> QED
  BY <1>5 DEF W

\* No day to come is active.
ActiveIsPast == active \subseteq 1 .. today

\* What the walk has found when it has read the days since d: n days counted that end today,
\* and if it is open no day has been read that is not counted.
WalkHolds(a, d) ==
  /\ a.open \in BOOLEAN /\ a.n \in 0 .. today /\ a.cursor = today - a.n
  /\ today - a.n + 1 .. today \subseteq ActiveDays
  /\ a.n > 0 => a.cursor >= d - 1
  /\ IF a.open THEN \A e \in ActiveDays : e >= d => e > a.cursor ELSE a.cursor \notin ActiveDays

\* Neither by a row.
LEMMA ActiveDaysArePast ==
  ASSUME LastDay \in Nat \ {0}, RitualTypes, RowsArePast, ActiveIsPast
  PROVE  ActiveDays \subseteq 1 .. today /\ today \in 1 .. LastDay
<1>1. today \in 1 .. LastDay
  BY DEF RitualTypes, Day
<1>2. ASSUME NEW d \in Day, NEW t \in Ritual, streakCount[t][d] > 0 PROVE d \in 1 .. today
  BY <1>1, <1>2 DEF RowsArePast, Day
<1> QED
  BY <1>1, <1>2 DEF ActiveIsPast, ActiveDays

\* So it is when it reads one day more,
LEMMA ReadHolds ==
  ASSUME today \in 1 .. LastDay, LastDay \in Nat, ActiveDays \subseteq 1 .. today,
         NEW d \in 1 .. LastDay, NEW a, WalkHolds(a, d + 1)
  PROVE  WalkHolds(ReadDay(a, d), d)
<1> DEFINE S == ActiveDays
<1> USE DEF WalkHolds
<1>1. CASE d \notin S
  <2>1. ReadDay(a, d) = a
    BY <1>1 DEF ReadDay
  <2>2. \A e \in S : e >= d => e >= d + 1
    BY <1>1
  <2> QED
    BY <2>1, <2>2
<1>2. CASE d \in S /\ a.open /\ d = a.cursor
  <2> DEFINE b == ReadDay(a, d)
  <2>1. b.open = TRUE /\ b.n = a.n + 1 /\ b.cursor = d - 1
    BY <1>2 DEF ReadDay
  <2> HIDE DEF b
  <2>2. today - b.n + 1 .. today = {d} \cup (today - a.n + 1 .. today)
    BY <1>2, <2>1
  <2>3. b.n \in 0 .. today
    BY <1>2, <2>1
  <2>4. b.cursor = today - b.n /\ b.cursor >= d - 1
    BY <1>2, <2>1
  <2>5. today - b.n + 1 .. today \subseteq S
    BY <1>2, <2>2
  <2>6. \A e \in S : e >= d => e > b.cursor
    BY <2>1
  <2>7. WalkHolds(b, d)
    BY <2>1, <2>3, <2>4, <2>5, <2>6
  <2> QED
    BY <2>7 DEF b
<1>3. CASE d \in S /\ a.open /\ d # a.cursor
  <2>1. ReadDay(a, d) = [a EXCEPT !.open = FALSE]
    BY <1>3 DEF ReadDay
  <2>2. a.cursor \notin S
    BY <1>3
  <2> QED
    BY <1>3, <2>1, <2>2
<1>4. CASE d \in S /\ ~ a.open
  <2>1. ReadDay(a, d) = [a EXCEPT !.open = FALSE]
    BY <1>4 DEF ReadDay
  <2> QED
    BY <1>4, <2>1
<1> QED
  BY <1>1, <1>2, <1>3, <1>4

\* and when it has read them all.
LEMMA WalkCounts ==
  ASSUME LastDay \in Nat \ {0}, RitualTypes, RowsArePast, ActiveIsPast
  PROVE  /\ streakDays = Run(ActiveDays, today)
         /\ streakDays \in 0 .. today
         /\ today - streakDays + 1 .. today \subseteq ActiveDays
         /\ today - streakDays \notin ActiveDays
<1>1. ActiveDays \subseteq 1 .. today /\ today \in 1 .. LastDay
  BY ActiveDaysArePast
<1>2. \A d \in 1 .. LastDay + 1 :
        walk[d] = IF d = LastDay + 1 THEN [open |-> TRUE, n |-> 0, cursor |-> today]
                  ELSE ReadDay(walk[d + 1], d)
  BY WalkIsDefined
<1> DEFINE Wrong == {k \in 0 .. LastDay : ~ WalkHolds(walk[LastDay + 1 - k], LastDay + 1 - k)}
<1>3. Wrong = {}
  <2> SUFFICES ASSUME Wrong # {} PROVE FALSE
    OBVIOUS
  <2>1. PICK k \in Wrong : \A m \in Wrong : k <= m
    <3>1. Wrong \subseteq Nat
      OBVIOUS
    <3> HIDE DEF Wrong
    <3> QED
      BY <3>1, LeastNumber
  <2> DEFINE d == LastDay + 1 - k
  <2>2. CASE k = 0
    <3>1. walk[d] = [open |-> TRUE, n |-> 0, cursor |-> today] /\ d = LastDay + 1
      <4>1. d = LastDay + 1 /\ d \in 1 .. LastDay + 1
        BY <2>2
      <4> HIDE DEF d
      <4> QED
        BY <1>2, <4>1
    <3>2. WalkHolds(walk[d], d)
      BY <1>1, <3>1 DEF WalkHolds
    <3> QED
      BY <3>2
  <2>3. CASE k # 0
    <3>1. /\ k - 1 \in 0 .. LastDay /\ k - 1 \notin Wrong
          /\ LastDay + 1 - (k - 1) = d + 1 /\ d \in 1 .. LastDay
      BY <2>1, <2>3
    <3>2. WalkHolds(walk[d + 1], d + 1)
      BY <3>1
    <3>3. walk[d] = ReadDay(walk[d + 1], d)
      BY <1>2, <3>1
    <3>4. WalkHolds(walk[d], d)
      <4> HIDE DEF d, Wrong
      <4> QED
        BY <1>1, <3>1, <3>2, <3>3, ReadHolds
    <3> QED
      BY <3>4
  <2> QED
    BY <2>2, <2>3
<1>4. WalkHolds(walk[1], 1)
  <2>1. LastDay \in 0 .. LastDay /\ LastDay + 1 - LastDay = 1
    OBVIOUS
  <2>2. WalkHolds(walk[LastDay + 1 - LastDay], LastDay + 1 - LastDay)
    BY <1>3, <2>1
  <2> QED
    BY <2>1, <2>2
<1> DEFINE n == streakDays
<1>5. /\ n \in 0 .. today
      /\ (today - n + 1) .. today \subseteq ActiveDays
      /\ today - n \notin ActiveDays
  BY <1>1, <1>4 DEF WalkHolds, streakDays
<1> HIDE DEF n
<1>6. ActiveDays \in SUBSET Nat /\ today \in Nat
  BY <1>1
<1>7. Run(ActiveDays, today) = n
  BY <1>5, <1>6, OneRun
<1> QED
  BY <1>5, <1>7 DEF n

\* Only today becomes active, and days go on.
LEMMA ActiveStep == RitualTypes /\ ActiveIsPast /\ [RitualNext]_ritualVars => ActiveIsPast'
<1> SUFFICES ASSUME RitualTypes, ActiveIsPast, [RitualNext]_ritualVars PROVE ActiveIsPast'
  OBVIOUS
<1>1. today \in Nat \ {0}
  BY DEF RitualTypes, Day
<1>2. CASE Write
  BY <1>1, <1>2 DEF Write, ActiveIsPast
<1>3. CASE NextDay
  BY <1>1, <1>3 DEF NextDay, ActiveIsPast
<1>4. CASE \/ \E r \in Caller : (\E t \in Ritual : ReadYesterday(r, t)) \/ UpsertToday(r)
           \/ UNCHANGED ritualVars
  <2>1. UNCHANGED <<today, active>>
    BY <1>4 DEF ReadYesterday, UpsertToday, ritualVars
  <2> QED
    BY <2>1 DEF ActiveIsPast
<1> QED
  BY <1>2, <1>3, <1>4 DEF RitualNext

\* On a day with activity the run of the days of rows of any ritual, today's or yesterday's, is
\* among the days that are active.
LEMMA ScreensShowRuns ==
  ASSUME LastDay \in Nat \ {0}, RitualInv, ActiveIsPast, ~ crossed, today \in ActiveDays
  PROVE  GetStreak <= streakDays
<1> DEFINE n == streakDays
           newest == {0} \cup {streakCount[t][d] : t \in Ritual, d \in {today - 1, today} \cap Day}
<1>1. ActiveDays \subseteq 1 .. today /\ today \in 1 .. LastDay
  BY ActiveDaysArePast DEF RitualInv
<1>3. n \in 0 .. today /\ today - n \notin ActiveDays
  BY WalkCounts DEF RitualInv
<1> HIDE DEF n
<1>4. ASSUME NEW t \in Ritual, NEW d \in Day, d = today - 1 \/ d = today
      PROVE  streakCount[t][d] \in 0 .. today /\ streakCount[t][d] <= n
  <2> DEFINE x == streakCount[t][d]
  <2>1. x \in Nat
    BY DEF RitualInv, RitualTypes
  <2>2. CASE x = 0
    BY <1>1, <1>3, <2>2
  <2>3. CASE x > 0
    <3>1. /\ x <= d
          /\ \A e \in Day : d - x < e /\ e <= d => e \in ActiveDays
      <4>1. RowIsRun(streakCount[t], d)
        BY <2>3 DEF RitualInv, RowsAreRuns, AreRuns
      <4> QED
        BY <4>1 DEF RowIsRun, ActiveDays
    <3>2. today \in Nat /\ d \in Nat /\ n \in Nat /\ n <= today
      BY <1>1, <1>3 DEF Day
    <3> HIDE DEF x
    <3>3. x <= n
      <4> SUFFICES ASSUME n < x PROVE FALSE
        BY <2>1, <3>2
      <4>1. n # 0
        <5>1. today - 0 = today
          BY <3>2
        <5> QED
          BY <1>3, <5>1
      <4>2. today - n \in Day /\ d - x < today - n /\ today - n <= d
        BY <1>1, <1>4, <2>1, <3>1, <3>2, <4>1 DEF Day
      <4> QED
        BY <1>3, <3>1, <4>2
    <3> QED
      BY <1>3, <2>1, <3>2, <3>3 DEF x
  <2> QED
    BY <2>1, <2>2, <2>3
<1>5. newest \subseteq 0 .. today /\ \A x \in newest : x <= n
  BY <1>1, <1>3, <1>4
<1>6. GetStreak = Max(newest) /\ newest # {} /\ today \in Nat
  BY <1>1 DEF GetStreak
<1> HIDE DEF newest
<1>7. Max(newest) \in newest
  BY <1>5, <1>6, GreatestNumber
<1> QED
  BY <1>5, <1>6, <1>7 DEF n

\* The profile screen counts the days that end today, and on a day with activity the ritual
\* screen never shows more, as long as no call is under way at midnight (streakDays, GetStreak).
THEOREM ScreensTellTheSame == RitualSpec => []ScreensAgree
<1>1. RitualInit => RitualInv /\ ActiveIsPast
  BY RitualInitial DEF RitualInit, ActiveIsPast
<1>2. RitualInv /\ ActiveIsPast /\ [RitualNext]_ritualVars => RitualInv' /\ ActiveIsPast'
  BY RitualStep, ActiveStep, RitualAssumption DEF RitualInv
<1>3. RitualInv /\ ActiveIsPast => ScreensAgree
  BY WalkCounts, ScreensShowRuns, RitualAssumption DEF RitualInv, ScreensAgree
<1>4. QED
  BY <1>1, <1>2, <1>3, PTL DEF RitualSpec

-----------------------------------------------------------------------------
(* Preferences *)

Whole == [Field -> Value]

PrefTypes ==
  /\ prefs \in Whole \union {None}
  /\ wanted \in Whole
  /\ edit \in [Editor -> Input \union {None}]
  /\ loaded \in [Editor -> Whole \union {None}]
  /\ \A r \in Editor : edit[r] # None => loaded[r] \in Whole

RowKept == \A f \in Field \ muddled : Stored[f] = wanted[f]

ReadKept ==
  \A r \in Editor : edit[r] # None =>
    \A f \in Field \ muddled : loaded[r][f] = wanted[f]

PrefInv == PrefTypes /\ RowKept /\ ReadKept

-----------------------------------------------------------------------------
LEMMA StoredWhole ==
  ASSUME PrefTypes, "default" \in Value
  PROVE  Stored \in Whole
BY DEF Stored, PrefTypes, Whole, DefaultUserPreferences

\* The fields named are set, the others are as they were read.
LEMMA Merged ==
  ASSUME NEW before \in Whole, NEW given \in Input
  PROVE  /\ DOMAIN given \subseteq Field
         /\ Merge(before, given) \in Whole
         /\ \A f \in Field : Merge(before, given)[f] =
              IF f \in DOMAIN given THEN given[f] ELSE before[f]
BY DEF Merge, Input, Whole

\* An update starts with what the row holds.
LEMMA Reading ==
  ASSUME PrefInv, "default" \in Value, NEW r \in Editor, NEW given \in Input,
         loadPrefs(r, given)
  PROVE  PrefInv'
<1>1. Stored \in Whole
  BY StoredWhole DEF PrefInv
<1>2. /\ edit' = [edit EXCEPT ![r] = given] /\ loaded' = [loaded EXCEPT ![r] = Stored]
      /\ UNCHANGED <<prefs, wanted, muddled>>
  BY DEF loadPrefs
<1>3. PrefTypes'
  BY <1>1, <1>2 DEF PrefInv, PrefTypes
<1>4. RowKept'
  BY <1>2 DEF PrefInv, RowKept, Stored
<1>5. ReadKept'
  BY <1>1, <1>2 DEF PrefInv, PrefTypes, RowKept, ReadKept
<1>6. QED
  BY <1>3, <1>4, <1>5 DEF PrefInv

LEMMA PrefStep ==
  ASSUME "default" \in Value, None \notin Input
  PROVE  PrefInv /\ [PrefNext]_prefVars => PrefInv'
<1> SUFFICES ASSUME PrefInv, [PrefNext]_prefVars PROVE PrefInv'
  OBVIOUS
<1>1. ASSUME NEW r \in Editor, UpdatePreferences(r) PROVE PrefInv'
  <2>1. PICK form \in SUBSET PreferencesForm : \E given \in [form -> Value] :
          loadPrefs(r, given)
    BY <1>1 DEF UpdatePreferences
  <2>2. form \in SUBSET Field
    BY DEF PreferencesForm, Field
  <2>3. QED
    BY <2>1, <2>2, Reading DEF Input
<1>2. ASSUME NEW r \in Editor, UpdateNotificationPrefs(r) PROVE PrefInv'
  <2>1. PICK form \in SUBSET NotificationForm : \E given \in [form -> Value] :
          loadPrefs(r, given)
    BY <1>2 DEF UpdateNotificationPrefs
  <2>2. form \in SUBSET Field
    BY DEF NotificationForm, Field
  <2>3. QED
    BY <2>1, <2>2, Reading DEF Input
<1>3. ASSUME NEW r \in Editor, Upsert(r) PROVE PrefInv'
  <2> DEFINE given == edit[r]
             row == Merge(loaded[r], edit[r])
             others == \E q \in Editor \ {r} : edit[q] # None
  <2>1. /\ prefs' = row
        /\ wanted' = [f \in Field |-> IF f \in DOMAIN given THEN given[f] ELSE wanted[f]]
        /\ muddled' = IF others THEN muddled \union DOMAIN given ELSE muddled \ DOMAIN given
        /\ edit' = [edit EXCEPT ![r] = None] /\ loaded' = [loaded EXCEPT ![r] = None]
        /\ edit[r] # None
    BY <1>3 DEF Upsert
  <2>2. given \in Input /\ loaded[r] \in Whole
    BY <2>1 DEF PrefInv, PrefTypes
  <2>3. /\ row \in Whole
        /\ \A f \in Field : row[f] = IF f \in DOMAIN given THEN given[f] ELSE loaded[r][f]
        /\ \A f \in DOMAIN given : given[f] \in Value
    BY <2>2, Merged DEF Input
  <2>4. /\ wanted' \in Whole
        /\ \A f \in Field : wanted'[f] = IF f \in DOMAIN given THEN given[f] ELSE wanted[f]
    BY <2>1, <2>3 DEF PrefInv, PrefTypes, Whole
  <2>5. PrefTypes'
    BY <2>1, <2>3, <2>4 DEF PrefInv, PrefTypes
  <2>6. row # None
    BY <2>3 DEF Whole, Input
  <2>7. RowKept'
    <3>1. Stored' = row
      BY <2>1, <2>6 DEF Stored
    <3>2. \A f \in Field \ muddled : loaded[r][f] = wanted[f]
      BY <2>1 DEF PrefInv, ReadKept
    <3>3. \A f \in Field \ muddled' : row[f] = wanted'[f]
      BY <2>1, <2>3, <2>4, <3>2
    <3>4. QED
      BY <3>1, <3>3 DEF RowKept
  <2>8. ReadKept'
    <3> SUFFICES ASSUME NEW q \in Editor, edit'[q] # None, NEW f \in Field \ muddled'
                 PROVE  loaded'[q][f] = wanted'[f]
      BY DEF ReadKept
    <3>1. q # r /\ edit[q] # None /\ loaded'[q] = loaded[q]
      BY <2>1 DEF PrefInv, PrefTypes
    <3>2. f \notin muddled /\ f \notin DOMAIN given
      BY <2>1, <3>1
    <3>3. QED
      BY <2>4, <3>1, <3>2 DEF PrefInv, ReadKept
  <2>9. QED
    BY <2>5, <2>7, <2>8 DEF PrefInv
<1>4. ASSUME NEW r \in Editor, Drop(r) PROVE PrefInv'
  <2>1. PrefTypes'
    BY <1>4 DEF Drop, PrefInv, PrefTypes
  <2>2. RowKept'
    BY <1>4 DEF Drop, PrefInv, RowKept, Stored
  <2>3. ReadKept'
    BY <1>4 DEF Drop, PrefInv, PrefTypes, ReadKept
  <2>4. QED
    BY <2>1, <2>2, <2>3 DEF PrefInv
<1>5. CASE UNCHANGED prefVars
  BY <1>5 DEF prefVars, PrefInv, PrefTypes, RowKept, ReadKept, Stored
<1>6. QED
  BY <1>1, <1>2, <1>3, <1>4, <1>5 DEF PrefNext

\* A field is as it was last set, but for one set while another update was under way:
\* both handlers read, merge and write the whole row (user.go, loadPrefs and Upsert).
THEOREM FieldsStay == PrefSpec => []SavedFieldsStay
<1>1. PrefInit => PrefInv
  BY PrefAssumption DEF PrefInit, PrefInv, PrefTypes, RowKept, ReadKept, Stored, DefaultUserPreferences, Whole
<1>2. PrefInv /\ [PrefNext]_prefVars => PrefInv'
  BY PrefStep, PrefAssumption
<1>3. PrefInv => SavedFieldsStay
  BY DEF PrefInv, RowKept, SavedFieldsStay
<1>4. QED
  BY <1>1, <1>2, <1>3, PTL DEF PrefSpec

-----------------------------------------------------------------------------
(* RequestLimits *)

Tier == {freeLimit, premiumLimit}
Minute == 0 .. MaxMinute

LimitTypes ==
  /\ minute \in Minute
  /\ payer \in BOOLEAN
  /\ count \in [Minute -> Nat]
  /\ limitOf \in [Request -> Nat]
  /\ stage \in [Request -> {"new", "tier", "served", "refused", "unlimited"}]
  /\ countedIn \in [Request -> Minute]

\* A request past its first step goes by one of the two limits.
ByTier == \A r \in Request : stage[r] # "new" => limitOf[r] \in Tier

\* The counter counts the requests served, by either limit.
ServedCounted ==
  \A m \in Minute, limit \in Tier :
    /\ Cardinality(ServedIn(m, limit)) <= count[m]
    /\ Cardinality(ServedIn(m, limit)) <= limit

RefusedLate ==
  \A r \in Request : stage[r] = "refused" => count[countedIn[r]] > Min(Tier)

LimitInv == LimitTypes /\ ByTier /\ ServedCounted /\ RefusedLate

-----------------------------------------------------------------------------
\* Min of two limits.
LEMMA TierMin ==
  ASSUME freeLimit \in Nat, premiumLimit \in Nat
  PROVE  Min(Tier) \in Nat /\ \A limit \in Tier : Min(Tier) <= limit
<1>1. \E x \in Tier : \A y \in Tier : x <= y
  BY DEF Tier
<1>2. Min(Tier) \in Tier /\ \A y \in Tier : Min(Tier) <= y
  BY <1>1 DEF Min
<1>3. QED
  BY <1>2 DEF Tier

\* Serving one request more adds it to one set of served requests.
LEMMA ServedGrows ==
  ASSUME IsFiniteSet(Request), NEW S, S \subseteq Request, NEW r \in Request
  PROVE  /\ Cardinality(S) \in Nat
         /\ Cardinality(S \union {r}) \in Nat
         /\ Cardinality(S \union {r}) <= Cardinality(S) + 1
<1>1. IsFiniteSet(S)
  BY FS_Subset
<1>2. /\ IsFiniteSet(S \union {r})
      /\ Cardinality(S \union {r}) = IF r \in S THEN Cardinality(S) ELSE Cardinality(S) + 1
  BY <1>1, FS_AddElement
<1>3. Cardinality(S) \in Nat
  BY <1>1, FS_CardinalityType
<1>4. QED
  BY <1>2, <1>3

LEMMA LimitInitial ==
  ASSUME freeLimit \in Nat, premiumLimit \in Nat, MaxMinute \in Nat
  PROVE  LimitInit => LimitInv
<1>1. LimitInit => \A m \in Minute, limit \in Tier : ServedIn(m, limit) = {}
  BY DEF LimitInit, ServedIn
<1>2. Cardinality({}) = 0
  BY FS_EmptySet
<1>3. LimitInit => LimitTypes /\ ByTier /\ RefusedLate
  BY DEF LimitInit, LimitTypes, ByTier, RefusedLate, Minute
<1>4. LimitInit => ServedCounted
  <2> SUFFICES ASSUME LimitInit, NEW m \in Minute, NEW limit \in Tier
               PROVE  /\ Cardinality(ServedIn(m, limit)) <= count[m]
                      /\ Cardinality(ServedIn(m, limit)) <= limit
    BY DEF ServedCounted
  <2>1. Cardinality(ServedIn(m, limit)) = 0
    BY <1>1, <1>2
  <2>2. count[m] = 0 /\ limit \in Nat
    BY DEF LimitInit, Minute, Tier
  <2>3. QED
    BY <2>1, <2>2
<1>5. QED
  BY <1>3, <1>4 DEF LimitInv

LEMMA LimitStep ==
  ASSUME freeLimit \in Nat, premiumLimit \in Nat, MaxMinute \in Nat, IsFiniteSet(Request)
  PROVE  LimitInv /\ [LimitNext]_limitVars => LimitInv'
<1> SUFFICES ASSUME LimitInv, [LimitNext]_limitVars PROVE LimitInv'
  OBVIOUS
<1> USE DEF LimitInv
<1>1. ASSUME NEW r \in Request, PickTier(r) PROVE LimitInv'
  <2>1. LimitTypes' /\ ByTier' /\ RefusedLate'
    BY <1>1 DEF PickTier, LimitTypes, ByTier, RefusedLate, Minute, Tier
  <2>2. \A m \in Minute, limit \in Tier : ServedIn(m, limit)' = ServedIn(m, limit)
    BY <1>1 DEF PickTier, LimitTypes, ServedIn
  <2>3. QED
    BY <1>1, <2>1, <2>2 DEF ServedCounted, PickTier
<1>2. ASSUME NEW r \in Request, Limit(r) PROVE LimitInv'
  <2> DEFINE m == countedIn[r]
  <2>1. m \in Minute /\ count[m] \in Nat /\ limitOf[r] \in Tier
    BY <1>2 DEF Limit, LimitTypes, ByTier
  <2>2. LimitTypes' /\ ByTier'
    BY <1>2 DEF Limit, LimitTypes, ByTier, Minute, Tier
  <2>3. RefusedLate'
    <3> SUFFICES ASSUME NEW q \in Request, stage'[q] = "refused"
                 PROVE  count'[countedIn'[q]] > Min(Tier)
      BY DEF RefusedLate
    <3>1. \A k \in Minute : count[k] \in Nat /\ count'[k] \in Nat /\ count'[k] >= count[k]
      BY <1>2 DEF Limit, LimitTypes
    <3>2. countedIn'[q] = countedIn[q] /\ countedIn[q] \in Minute
      BY <1>2 DEF Limit, LimitTypes
    <3>3. CASE q = r
      <4>1. count'[m] = count[m] + 1
        BY <1>2, <2>1 DEF Limit, LimitTypes
      <4>2. ~(count[m] + 1 <= limitOf[r])
        BY <1>2, <3>3 DEF Limit, LimitTypes, Within
      <4>3. QED
        BY <2>1, <3>2, <3>3, <4>1, <4>2, TierMin DEF Tier
    <3>4. CASE q # r
      <4>1. stage[q] = "refused"
        BY <1>2, <3>4 DEF Limit, LimitTypes
      <4>2. QED
        BY <3>1, <3>2, <4>1, TierMin DEF RefusedLate
    <3>5. QED
      BY <3>3, <3>4
  <2>4. ServedCounted'
    <3> SUFFICES ASSUME NEW k \in Minute, NEW limit \in Tier
                 PROVE  /\ Cardinality(ServedIn(k, limit)') <= count'[k]
                        /\ Cardinality(ServedIn(k, limit)') <= limit
      BY DEF ServedCounted, Tier, Minute
    <3> DEFINE S == ServedIn(k, limit)
    <3>1. S \subseteq Request
      BY DEF ServedIn
    <3>2. /\ Cardinality(S) \in Nat /\ Cardinality(S \union {r}) \in Nat
          /\ Cardinality(S \union {r}) <= Cardinality(S) + 1
      BY <3>1, ServedGrows
    <3>3. Cardinality(S) <= count[k] /\ Cardinality(S) <= limit
      BY DEF ServedCounted
    <3>4. count[k] \in Nat /\ count'[k] = (IF k = m THEN count[k] + 1 ELSE count[k])
      BY <1>2, <2>1 DEF Limit, LimitTypes
    <3>5. CASE Within(r) /\ k = m /\ limit = limitOf[r]
      <4>1. S' = S \union {r}
        BY <1>2, <3>5 DEF Limit, LimitTypes, ServedIn
      <4>2. count[k] + 1 <= limit
        BY <3>5 DEF Within
      <4>3. QED
        BY <2>1, <3>2, <3>3, <3>4, <3>5, <4>1, <4>2 DEF Tier
    <3>6. CASE ~(Within(r) /\ k = m /\ limit = limitOf[r])
      <4>1. S' = S
        BY <1>2, <3>6 DEF Limit, LimitTypes, ServedIn
      <4>2. QED
        BY <3>2, <3>3, <3>4, <4>1
    <3>7. QED
      BY <3>5, <3>6
  <2>5. QED
    BY <2>2, <2>3, <2>4
<1>3. ASSUME NEW r \in Request, FailOpen(r) PROVE LimitInv'
  <2>1. LimitTypes' /\ ByTier' /\ RefusedLate'
    BY <1>3 DEF FailOpen, LimitTypes, ByTier, RefusedLate
  <2>2. \A m \in Minute, limit \in Tier : ServedIn(m, limit)' = ServedIn(m, limit)
    BY <1>3 DEF FailOpen, LimitTypes, ServedIn
  <2>3. QED
    BY <1>3, <2>1, <2>2 DEF ServedCounted, FailOpen
<1>4. CASE TierChanges \/ NextMinute \/ UNCHANGED limitVars
  <2>1. UNCHANGED <<count, limitOf, stage, countedIn>>
    BY <1>4 DEF TierChanges, NextMinute, limitVars
  <2>2. payer' \in BOOLEAN
    BY <1>4, Zenon DEF TierChanges, NextMinute, limitVars, LimitTypes
  <2>3. minute' \in Minute
    BY <1>4 DEF TierChanges, NextMinute, limitVars, LimitTypes, Minute
  <2>4. QED
    BY <2>1, <2>2, <2>3 DEF LimitTypes, ByTier, ServedCounted, ServedIn, RefusedLate
<1>5. QED
  BY <1>1, <1>2, <1>3, <1>4 DEF LimitNext

LEMMA LimitImplies == LimitInv => LimitsHold
  BY DEF LimitInv, ServedCounted, RefusedLate, LimitsHold, Tier, Minute

-----------------------------------------------------------------------------
\* Of the requests counted in a minute no more are served by a limit than it allows, and
\* none is refused below the lower one (PerUserRateLimit, IPRateLimit).
THEOREM LimitsAreKept == LimitSpec => []LimitsHold
<1>1. LimitInit => LimitInv
  BY LimitInitial, LimitAssumption
<1>2. LimitInv /\ [LimitNext]_limitVars => LimitInv'
  BY LimitStep, LimitAssumption
<1>3. LimitInv => LimitsHold
  BY LimitImplies
<1>4. QED
  BY <1>1, <1>2, <1>3, PTL DEF LimitSpec

-----------------------------------------------------------------------------
(* Avatars *)

AvatarTypes ==
  /\ step \in [Client -> {"idle", "upload", "create", "link", "delete", "unlink", "done",
                          "failed"}]
  /\ name \in [Client -> Name \union {NoFile}]
  /\ alone \in [Client -> BOOLEAN]

\* An upload has a name.
Named == \A c \in Client : step[c] \in {"upload", "create", "link"} => name[c] \in Name

\* A request that is alone is so still, and finds the files it has left.
AloneHolds ==
  \A c \in Client : alone[c] /\ Running(c) =>
    /\ \A d \in Client \ {c} : ~Running(d)
    /\ step[c] = "create" => files = {}
    /\ step[c] = "link" => files = {name[c]}
    /\ step[c] = "unlink" => files = {}

AvatarInv == AvatarTypes /\ Named /\ AloneHolds

LEMMA AvatarStep == AvatarInv /\ [AvatarNext]_avatarVars => AvatarInv'
<1> SUFFICES ASSUME AvatarInv, [AvatarNext]_avatarVars PROVE AvatarInv'
  OBVIOUS
<1> USE DEF AvatarInv, AvatarTypes, Named, AloneHolds, Running
<1>1. ASSUME NEW c \in Client, NEW n \in Name, Begin(c, "upload", n) PROVE AvatarInv'
  BY <1>1 DEF Begin, SomeoneElse
<1>2. ASSUME NEW c \in Client, Begin(c, "delete", NoFile) PROVE AvatarInv'
  BY <1>2 DEF Begin, SomeoneElse
<1>3. ASSUME NEW c \in Client, RemoveOld(c) \/ RemoveAll(c) PROVE AvatarInv'
  BY <1>3 DEF RemoveOld, RemoveAll, RemoveFiles, Remaining, Proceed
<1>4. ASSUME NEW c \in Client, CreateFile(c) PROVE AvatarInv'
  BY <1>4 DEF CreateFile, Proceed
<1>5. ASSUME NEW c \in Client, Link(c) \/ ClearUrl(c) \/ Fail(c) PROVE AvatarInv'
  BY <1>5 DEF Link, ClearUrl, Fail, Proceed
<1>6. CASE UNCHANGED avatarVars
  BY <1>6 DEF avatarVars
<1>7. QED
  BY <1>1, <1>2, <1>3, <1>4, <1>5, <1>6 DEF AvatarNext

\* Whatever failed or overlapped before, a request that runs with no other leaves the one
\* file the row leads to, or none (SetAvatar, ClearAvatar, removeUserAvatars).
THEOREM UploadsRepair == AvatarSpec => UploadRepairs
<1>1. AvatarInit => AvatarInv
  BY DEF AvatarInit, AvatarInv, AvatarTypes, Named, AloneHolds, Running
<1>2. AvatarInv /\ [AvatarNext]_avatarVars => AvatarInv'
  BY AvatarStep
<1>3. AvatarInv /\ [AvatarNext]_avatarVars => LeavesOneFile
  <2> SUFFICES ASSUME AvatarInv, [AvatarNext]_avatarVars, NEW c \in Client,
                      Running(c), step'[c] = "done", alone[c]
               PROVE  files' = {url'} \ {NoFile}
    BY DEF LeavesOneFile
  <2>1. Link(c) \/ ClearUrl(c)
    BY DEF AvatarNext, Begin, RemoveOld, RemoveAll, RemoveFiles, CreateFile, Link, ClearUrl,
           Fail, Proceed, avatarVars, Running, AvatarInv, AvatarTypes
  <2>2. CASE Link(c)
    BY <2>2, AvatarAssumption DEF Link, AvatarInv, Named, AloneHolds
  <2>3. CASE ClearUrl(c)
    BY <2>3 DEF ClearUrl, AvatarInv, AloneHolds
  <2>4. QED
    BY <2>1, <2>2, <2>3
<1>4. QED
  BY <1>1, <1>2, <1>3, PTL DEF AvatarSpec, UploadRepairs


-----------------------------------------------------------------------------
(* Birth charts *)

\* Keys a change of the profile deletes, and the steps of the change before k's deletion.
BirthKey == {"natal", "hd", "vedic"}
BeforeDelete(k) ==
  {"del_natal"} \union (IF k \in {"hd", "vedic"} THEN {"del_hd"} ELSE {})
                \union (IF k = "vedic" THEN {"del_vedic"} ELSE {})

\* A request that no change has overtaken holds the profile, and none computes without one.
InputIsCurrent ==
  \A r \in Reader :
    /\ input[r] # NoData /\ r \notin raced => input[r] = profile
    /\ At(r, "compute") => input[r] # NoData
    /\ At(r, "cache") /\ kind[r] = "hd" => input[r] # NoData

\* The chart of the profile.
IsCurrent(c) == profile # NoData /\ c = Compute(profile)

\* A key that is not stale is the profile's, or about to be deleted.
CurrentOrDoomed ==
  \A k \in BirthKey \ stale :
    cache[k] # NoData => \/ IsCurrent(cache[k])
                         \/ \E r \in Reader : chartPc[r] \in BeforeDelete(k)

ChartInv == ChartTypeOK /\ InputIsCurrent /\ CurrentOrDoomed

-----------------------------------------------------------------------------
LEMMA ComputedChart ==
  ASSUME NEW data \in Data PROVE Compute(data) \in Chart /\ Compute(data) # NoData
BY BirthAssumption DEF Data, Chart, Compute, parseBirthTime, TimeColumn

LEMMA ChartInitial == ChartInit => ChartInv
BY DEF ChartInit, ChartInv, ChartTypeOK, InputIsCurrent, CurrentOrDoomed, BirthKey, Key, At

\* An answer clears what the request held.
LEMMA AnswerKeeps ==
  ASSUME ChartInv, NEW r \in Reader, Answer(r), profile' = profile,
         chartPc[r] \notin {"del_natal", "del_hd", "del_vedic"}
  PROVE  /\ chartPc' = [chartPc EXCEPT ![r] = "idle"]
         /\ kind' \in [Reader -> Key]
         /\ input' \in [Reader -> Data \union {NoData}]
         /\ chart' \in [Reader -> Chart \union {NoData}]
         /\ raced' \subseteq Reader
         /\ InputIsCurrent'
<1>1. /\ chartPc' = [chartPc EXCEPT ![r] = "idle"]
      /\ kind' = [kind EXCEPT ![r] = "natal"]
      /\ input' = [input EXCEPT ![r] = NoData]
      /\ chart' = [chart EXCEPT ![r] = NoData]
      /\ raced' = raced \ {r}
  BY DEF Answer, GoTo
<1>2. InputIsCurrent'
  BY <1>1 DEF ChartInv, ChartTypeOK, InputIsCurrent, At
<1>3. QED
  BY <1>1, <1>2 DEF ChartInv, ChartTypeOK, Key

\* So does going on to the forecast, once there is a natal chart.
LEMMA HaveChartKeeps ==
  ASSUME ChartInv, NEW r \in Reader, NEW c \in Chart, HaveChart(r, c), profile' = profile,
         chartPc[r] \notin {"del_natal", "del_hd", "del_vedic"}
  PROVE  /\ chartPc' \in {[chartPc EXCEPT ![r] = "idle"], [chartPc EXCEPT ![r] = "forecast_cache"]}
         /\ kind' \in [Reader -> Key]
         /\ input' \in [Reader -> Data \union {NoData}]
         /\ chart' \in [Reader -> Chart \union {NoData}]
         /\ raced' \subseteq Reader
         /\ InputIsCurrent'
<1>1. CASE kind[r] = "forecast"
  <2>1. /\ chartPc' = [chartPc EXCEPT ![r] = "forecast_cache"]
        /\ chart' = [chart EXCEPT ![r] = c]
        /\ UNCHANGED <<kind, input, raced>>
    BY <1>1 DEF HaveChart, GoTo
  <2>2. InputIsCurrent'
    BY <2>1 DEF ChartInv, ChartTypeOK, InputIsCurrent, At
  <2>3. QED
    BY <2>1, <2>2 DEF ChartInv, ChartTypeOK
<1>2. CASE kind[r] # "forecast"
  BY <1>2, AnswerKeeps DEF HaveChart
<1>3. QED
  BY <1>1, <1>2

\* A step that sets no key and leaves a change where it is keeps CurrentOrDoomed.
LEMMA NothingSet ==
  ASSUME ChartInv, UNCHANGED <<profile, cache, stale>>,
         \A q \in Reader : chartPc[q] \in {"del_natal", "del_hd", "del_vedic"}
                             => chartPc'[q] = chartPc[q]
  PROVE  CurrentOrDoomed'
<1> SUFFICES ASSUME NEW k \in BirthKey \ stale, cache[k] # NoData, ~ IsCurrent(cache[k])
             PROVE  \E q \in Reader : chartPc'[q] \in BeforeDelete(k)
  BY DEF CurrentOrDoomed, IsCurrent
<1>1. PICK q \in Reader : chartPc[q] \in BeforeDelete(k)
  BY DEF ChartInv, CurrentOrDoomed
<1>2. chartPc'[q] = chartPc[q]
  BY <1>1 DEF BeforeDelete
<1>3. QED
  BY <1>1, <1>2

LEMMA GetStep ==
  ASSUME ChartInv, NEW r \in Reader, NEW k \in Key, Get(r, k)
  PROVE  ChartInv'
<1>0. /\ chartPc[r] = "idle"
      /\ kind' = [kind EXCEPT ![r] = k]
      /\ chartPc' = [chartPc EXCEPT ![r] = IF k = "hd" THEN "profile" ELSE "cache"]
      /\ UNCHANGED <<profile, cache, input, chart, raced, stale>>
  BY DEF Get, At, GoTo
<1>1. ChartTypeOK'
  BY <1>0 DEF ChartInv, ChartTypeOK
<1>2. InputIsCurrent'
  BY <1>0 DEF ChartInv, ChartTypeOK, InputIsCurrent, At
<1>3. CurrentOrDoomed'
  BY <1>0, NothingSet DEF ChartInv, ChartTypeOK
<1>4. QED
  BY <1>1, <1>2, <1>3 DEF ChartInv

LEMMA ReadCacheStep ==
  ASSUME ChartInv, NEW r \in Reader, ReadCache(r)
  PROVE  ChartInv'
<1>0. chartPc[r] = "cache" /\ UNCHANGED <<profile, cache, stale>> /\ CacheKey(r) \in Key
  BY DEF ReadCache, At, CacheKey, ChartInv, ChartTypeOK, Key
<1>1. CASE cache[CacheKey(r)] # NoData /\ HaveChart(r, cache[CacheKey(r)])
  <2>1. cache[CacheKey(r)] \in Chart
    BY <1>0, <1>1 DEF ChartInv, ChartTypeOK
  <2>2. /\ chartPc' \in {[chartPc EXCEPT ![r] = "idle"], [chartPc EXCEPT ![r] = "forecast_cache"]}
        /\ kind' \in [Reader -> Key]
        /\ input' \in [Reader -> Data \union {NoData}]
        /\ chart' \in [Reader -> Chart \union {NoData}]
        /\ raced' \subseteq Reader
        /\ InputIsCurrent'
    BY <1>0, <1>1, <2>1, HaveChartKeeps
  <2>3. ChartTypeOK'
    BY <1>0, <2>2 DEF ChartInv, ChartTypeOK
  <2>4. CurrentOrDoomed'
    BY <1>0, <2>2, NothingSet DEF ChartInv, ChartTypeOK
  <2>5. QED
    BY <2>2, <2>3, <2>4 DEF ChartInv
<1>2. CASE /\ GoTo(r, IF kind[r] = "hd" THEN "compute" ELSE "profile")
           /\ UNCHANGED <<kind, input, chart, raced>>
  <2>1. chartPc' = [chartPc EXCEPT ![r] = IF kind[r] = "hd" THEN "compute" ELSE "profile"]
    BY <1>2 DEF GoTo
  <2>2. ChartTypeOK'
    BY <1>0, <1>2, <2>1 DEF ChartInv, ChartTypeOK
  <2>3. InputIsCurrent'
    BY <1>0, <1>2, <2>1 DEF ChartInv, ChartTypeOK, InputIsCurrent, At
  <2>4. CurrentOrDoomed'
    BY <1>0, <2>1, NothingSet DEF ChartInv, ChartTypeOK
  <2>5. QED
    BY <2>2, <2>3, <2>4 DEF ChartInv
<1>3. QED
  BY <1>1, <1>2 DEF ReadCache

LEMMA ReadProfileStep ==
  ASSUME ChartInv, NEW r \in Reader, ReadProfile(r)
  PROVE  ChartInv'
<1>0. chartPc[r] = "profile" /\ UNCHANGED <<profile, cache, stale>>
  BY DEF ReadProfile, At
<1>1. CASE Answer(r)
  <2>1. /\ chartPc' = [chartPc EXCEPT ![r] = "idle"]
        /\ kind' \in [Reader -> Key]
        /\ input' \in [Reader -> Data \union {NoData}]
        /\ chart' \in [Reader -> Chart \union {NoData}]
        /\ raced' \subseteq Reader
        /\ InputIsCurrent'
    BY <1>0, <1>1, AnswerKeeps
  <2>2. ChartTypeOK'
    BY <1>0, <2>1 DEF ChartInv, ChartTypeOK
  <2>3. CurrentOrDoomed'
    BY <1>0, <2>1, NothingSet DEF ChartInv, ChartTypeOK
  <2>4. QED
    BY <2>1, <2>2, <2>3 DEF ChartInv
<1>2. CASE /\ profile # NoData
           /\ GoTo(r, IF kind[r] = "hd" THEN "cache" ELSE "compute")
           /\ input' = [input EXCEPT ![r] = profile]
           /\ UNCHANGED <<kind, chart, raced>>
  <2>1. chartPc' = [chartPc EXCEPT ![r] = IF kind[r] = "hd" THEN "cache" ELSE "compute"]
    BY <1>2 DEF GoTo
  <2>2. ChartTypeOK'
    BY <1>0, <1>2, <2>1 DEF ChartInv, ChartTypeOK
  <2>3. InputIsCurrent'
    BY <1>0, <1>2, <2>1 DEF ChartInv, ChartTypeOK, InputIsCurrent, At
  <2>4. CurrentOrDoomed'
    BY <1>0, <2>1, NothingSet DEF ChartInv, ChartTypeOK
  <2>5. QED
    BY <2>2, <2>3, <2>4 DEF ChartInv
<1>3. QED
  BY <1>1, <1>2 DEF ReadProfile

\* A chart that is set is the profile's, or the key becomes stale.
LEMMA ComputeChartStep ==
  ASSUME ChartInv, NEW r \in Reader, ComputeChart(r)
  PROVE  ChartInv'
<1> DEFINE c == Compute(input[r])
<1>0. chartPc[r] = "compute" /\ UNCHANGED profile /\ CacheKey(r) \in Key
  BY DEF ComputeChart, At, CacheKey, ChartInv, ChartTypeOK, Key
<1>1. input[r] \in Data
  BY <1>0 DEF ChartInv, ChartTypeOK, InputIsCurrent, At
<1>2. c \in Chart
  BY <1>1, ComputedChart
<1> HIDE DEF c
<1>3. /\ \/ HaveChart(r, c)
         \/ Answer(r)
      /\ \/ /\ cache' = [cache EXCEPT ![CacheKey(r)] = c]
            /\ stale' = IF r \in raced THEN stale \union {CacheKey(r)} ELSE stale \ {CacheKey(r)}
         \/ UNCHANGED <<cache, stale>>
  BY DEF ComputeChart, c
<1>4. /\ chartPc' \in {[chartPc EXCEPT ![r] = "idle"], [chartPc EXCEPT ![r] = "forecast_cache"]}
      /\ kind' \in [Reader -> Key]
      /\ input' \in [Reader -> Data \union {NoData}]
      /\ chart' \in [Reader -> Chart \union {NoData}]
      /\ raced' \subseteq Reader
      /\ InputIsCurrent'
  BY <1>0, <1>2, <1>3, HaveChartKeeps, AnswerKeeps
<1>5. ChartTypeOK'
  BY <1>0, <1>2, <1>3, <1>4 DEF ChartInv, ChartTypeOK
<1>6. \A q \in Reader : chartPc[q] \in {"del_natal", "del_hd", "del_vedic"}
                          => chartPc'[q] = chartPc[q]
  BY <1>0, <1>4 DEF ChartInv, ChartTypeOK
<1>7. CASE UNCHANGED <<cache, stale>>
  BY <1>0, <1>4, <1>5, <1>6, <1>7, NothingSet DEF ChartInv
<1>8. CASE /\ cache' = [cache EXCEPT ![CacheKey(r)] = c]
           /\ stale' = IF r \in raced THEN stale \union {CacheKey(r)} ELSE stale \ {CacheKey(r)}
  <2> SUFFICES ASSUME NEW k \in BirthKey \ stale', cache'[k] # NoData, ~ IsCurrent(cache'[k])
               PROVE  \E q \in Reader : chartPc'[q] \in BeforeDelete(k)
    BY <1>0, <1>4, <1>5 DEF ChartInv, CurrentOrDoomed, IsCurrent
  <2>1. k # CacheKey(r)
    <3>1. SUFFICES ASSUME k = CacheKey(r) PROVE FALSE
      OBVIOUS
    <3>2. r \notin raced
      BY <1>8, <3>1
    <3>3. input[r] = profile /\ profile # NoData
      BY <1>1, <3>2, BirthAssumption DEF ChartInv, InputIsCurrent
    <3>4. cache'[k] = c
      BY <1>0, <1>8, <3>1 DEF ChartInv, ChartTypeOK
    <3>5. QED
      BY <3>3, <3>4 DEF IsCurrent, c
  <2>2. k \notin stale /\ cache[k] = cache'[k]
    BY <1>8, <2>1 DEF ChartInv, ChartTypeOK, BirthKey, Key
  <2>3. PICK q \in Reader : chartPc[q] \in BeforeDelete(k)
    BY <2>2 DEF ChartInv, CurrentOrDoomed
  <2>4. chartPc'[q] = chartPc[q]
    BY <1>6, <2>3 DEF BeforeDelete
  <2>5. QED
    BY <2>3, <2>4
<1>9. QED
  BY <1>3, <1>7, <1>8

LEMMA ForecastSteps ==
  ASSUME ChartInv, NEW r \in Reader, ReadForecast(r) \/ WriteForecast(r)
  PROVE  ChartInv'
<1>0. chartPc[r] \in {"forecast_cache", "write_forecast"} /\ UNCHANGED <<profile, stale>>
  BY DEF ReadForecast, WriteForecast, At
<1>1. /\ cache' \in [Key -> Chart \union {NoData}]
      /\ \A k \in BirthKey : cache'[k] = cache[k]
  <2>1. chart[r] \in Chart \union {NoData}
    BY DEF ChartInv, ChartTypeOK
  <2>2. cache' = [cache EXCEPT !["forecast"] = chart[r]] \/ cache' = cache
    BY DEF ReadForecast, WriteForecast
  <2>3. QED
    BY <2>1, <2>2 DEF ChartInv, ChartTypeOK, BirthKey, Key
<1>2. CASE Answer(r)
  <2>1. /\ chartPc' = [chartPc EXCEPT ![r] = "idle"]
        /\ kind' \in [Reader -> Key]
        /\ input' \in [Reader -> Data \union {NoData}]
        /\ chart' \in [Reader -> Chart \union {NoData}]
        /\ raced' \subseteq Reader
        /\ InputIsCurrent'
    BY <1>0, <1>2, AnswerKeeps
  <2>2. ChartTypeOK'
    BY <1>0, <1>1, <2>1 DEF ChartInv, ChartTypeOK
  <2>3. \A q \in Reader, k \in BirthKey :
          chartPc[q] \in BeforeDelete(k) => chartPc'[q] = chartPc[q]
    BY <1>0, <2>1 DEF ChartInv, ChartTypeOK, BeforeDelete
  <2>4. CurrentOrDoomed'
    BY <1>0, <1>1, <2>3 DEF ChartInv, CurrentOrDoomed, IsCurrent
  <2>5. QED
    BY <2>1, <2>2, <2>4 DEF ChartInv
<1>3. CASE /\ GoTo(r, "write_forecast")
           /\ UNCHANGED <<cache, kind, input, chart, raced>>
  <2>1. chartPc' = [chartPc EXCEPT ![r] = "write_forecast"]
    BY <1>3 DEF GoTo
  <2>2. ChartTypeOK' /\ InputIsCurrent'
    BY <1>0, <1>3, <2>1 DEF ChartInv, ChartTypeOK, InputIsCurrent, At
  <2>3. CurrentOrDoomed'
    BY <1>0, <1>3, <2>1, NothingSet DEF ChartInv, ChartTypeOK
  <2>4. QED
    BY <2>2, <2>3 DEF ChartInv
<1>4. QED
  BY <1>2, <1>3 DEF ReadForecast, WriteForecast

\* After a change every request that has read the profile is overtaken, and every key is
\* about to be deleted.
LEMMA SaveProfileStep ==
  ASSUME ChartInv, NEW r \in Reader, NEW data \in Data, SaveProfile(r, data)
  PROVE  ChartInv'
<1>0. /\ chartPc[r] = "idle"
      /\ profile' \in Data \union {NoData}
      /\ chartPc' = [chartPc EXCEPT ![r] = "del_natal"]
      /\ raced' = raced \union {q \in Reader : input[q] # NoData}
      /\ UNCHANGED <<cache, kind, input, chart, stale>>
  BY DEF SaveProfile, At, GoTo
<1>1. ChartTypeOK'
  BY <1>0 DEF ChartInv, ChartTypeOK
<1>2. InputIsCurrent'
  BY <1>0 DEF ChartInv, ChartTypeOK, InputIsCurrent, At
<1>3. \A k \in BirthKey : chartPc'[r] \in BeforeDelete(k)
  BY <1>0 DEF ChartInv, ChartTypeOK, BeforeDelete
<1>4. CurrentOrDoomed'
  BY <1>3 DEF CurrentOrDoomed
<1>5. QED
  BY <1>1, <1>2, <1>4 DEF ChartInv

\* A deletion that Redis misses leaves the key stale.
LEMMA InvalidateStep ==
  ASSUME ChartInv, NEW r \in Reader, invalidateBirthScopedCaches(r)
  PROVE  ChartInv'
<1>1. ASSUME NEW k \in BirthKey, NEW here \in {"del_natal", "del_hd", "del_vedic"},
             NEW next \in {"del_hd", "del_vedic", "idle"}, At(r, here), Delete(k), GoTo(r, next),
             UNCHANGED <<profile, kind, input, chart, raced>>,
             \A m \in BirthKey : m # k /\ here \in BeforeDelete(m) => next \in BeforeDelete(m)
      PROVE  ChartInv'
  <2>1. /\ chartPc[r] = here
        /\ chartPc' = [chartPc EXCEPT ![r] = next]
        /\ k \in Key
    BY <1>1 DEF At, GoTo, BirthKey, Key
  <2>2. ChartTypeOK'
    BY <1>1, <2>1 DEF ChartInv, ChartTypeOK, Delete
  <2>3. InputIsCurrent'
    BY <1>1, <2>1 DEF ChartInv, ChartTypeOK, InputIsCurrent, At
  <2> SUFFICES ASSUME NEW m \in BirthKey \ stale', cache'[m] # NoData, ~ IsCurrent(cache'[m])
               PROVE  \E q \in Reader : chartPc'[q] \in BeforeDelete(m)
    BY <1>1, <2>2, <2>3 DEF ChartInv, CurrentOrDoomed, IsCurrent
  <2>4. m # k /\ m \notin stale /\ cache[m] = cache'[m]
    BY <1>1, <2>1 DEF ChartInv, ChartTypeOK, Delete, BirthKey, Key
  <2>5. PICK q \in Reader : chartPc[q] \in BeforeDelete(m)
    BY <2>4 DEF ChartInv, CurrentOrDoomed
  <2>6. chartPc'[q] \in BeforeDelete(m)
    BY <1>1, <2>1, <2>4, <2>5 DEF ChartInv, ChartTypeOK
  <2>7. QED
    BY <2>6
<1>2. CASE At(r, "del_natal") /\ Delete("natal") /\ GoTo(r, "del_hd")
  <2>1. \A m \in BirthKey : m # "natal" => "del_hd" \in BeforeDelete(m)
    BY DEF BirthKey, BeforeDelete
  <2>2. QED
    BY <1>1, <1>2, <2>1 DEF invalidateBirthScopedCaches, BirthKey
<1>3. CASE At(r, "del_hd") /\ Delete("hd") /\ GoTo(r, "del_vedic")
  <2>1. \A m \in BirthKey : m # "hd" /\ "del_hd" \in BeforeDelete(m) => "del_vedic" \in BeforeDelete(m)
    BY DEF BirthKey, BeforeDelete
  <2>2. QED
    BY <1>1, <1>3, <2>1 DEF invalidateBirthScopedCaches, BirthKey
<1>4. CASE At(r, "del_vedic") /\ Delete("vedic") /\ GoTo(r, "idle")
  <2>1. \A m \in BirthKey : m # "vedic" => "del_vedic" \notin BeforeDelete(m)
    BY DEF BirthKey, BeforeDelete
  <2>2. QED
    BY <1>1, <1>4, <2>1 DEF invalidateBirthScopedCaches, BirthKey
<1>5. QED
  BY <1>2, <1>3, <1>4 DEF invalidateBirthScopedCaches

LEMMA ExpireStep ==
  ASSUME ChartInv, NEW k \in Key, Expire(k)
  PROVE  ChartInv'
<1>1. ChartTypeOK' /\ InputIsCurrent'
  BY DEF ChartInv, ChartTypeOK, InputIsCurrent, At, Expire
<1>2. \A m \in BirthKey \ stale' : cache'[m] # NoData => m \notin stale /\ cache'[m] = cache[m]
  BY DEF ChartInv, ChartTypeOK, Expire, BirthKey, Key
<1>3. CurrentOrDoomed'
  BY <1>2 DEF ChartInv, CurrentOrDoomed, IsCurrent, Expire
<1>4. QED
  BY <1>1, <1>3 DEF ChartInv

LEMMA ChartStep == ChartInv /\ [ChartNext]_chartVars => ChartInv'
<1> SUFFICES ASSUME ChartInv, [ChartNext]_chartVars PROVE ChartInv'
  OBVIOUS
<1>1. ASSUME NEW r \in Reader, NEW k \in Key, Get(r, k) PROVE ChartInv'
  BY <1>1, GetStep
<1>2. ASSUME NEW r \in Reader, ReadCache(r) PROVE ChartInv'
  BY <1>2, ReadCacheStep
<1>3. ASSUME NEW r \in Reader, ReadProfile(r) PROVE ChartInv'
  BY <1>3, ReadProfileStep
<1>4. ASSUME NEW r \in Reader, ComputeChart(r) PROVE ChartInv'
  BY <1>4, ComputeChartStep
<1>5. ASSUME NEW r \in Reader, ReadForecast(r) \/ WriteForecast(r) PROVE ChartInv'
  BY <1>5, ForecastSteps
<1>6. ASSUME NEW r \in Reader, NEW data \in Data, SaveProfile(r, data) PROVE ChartInv'
  BY <1>6, SaveProfileStep
<1>7. ASSUME NEW r \in Reader, invalidateBirthScopedCaches(r) PROVE ChartInv'
  BY <1>7, InvalidateStep
<1>8. ASSUME NEW k \in Key, Expire(k) PROVE ChartInv'
  BY <1>8, ExpireStep
<1>9. CASE UNCHANGED chartVars
  BY <1>9 DEF chartVars, ChartInv, ChartTypeOK, InputIsCurrent, CurrentOrDoomed, IsCurrent, At
<1>10. QED
  BY <1>1, <1>2, <1>3, <1>4, <1>5, <1>6, <1>7, <1>8, <1>9 DEF ChartNext

\* A chart that is kept once no change is half done is that of the birth profile, but for
\* a key a request overtaken by a change has set or Redis has not deleted
\* (invalidateBirthScopedCaches, GetNatalChart and its kin).
THEOREM KeptChartsAreCurrent == ChartSpec => []KeptIsCurrent
<1>1. ChartInv => KeptIsCurrent
  <2> SUFFICES ASSUME ChartInv, Settled, NEW k \in Key \ (stale \union {"forecast"}),
                      cache[k] # NoData
               PROVE  IsCurrent(cache[k])
    BY DEF KeptIsCurrent, IsCurrent
  <2>1. k \in BirthKey \ stale
    BY DEF Key, BirthKey
  <2>2. \A r \in Reader : chartPc[r] \notin BeforeDelete(k)
    BY DEF Settled, BeforeDelete
  <2>3. QED
    BY <2>1, <2>2 DEF ChartInv, CurrentOrDoomed
<1>2. QED
  BY <1>1, ChartInitial, ChartStep, PTL DEF ChartSpec

\* Every variable of the caches has its type.
THEOREM ChartTypes == ChartSpec => []ChartTypeOK
<1>1. ChartInv => ChartTypeOK
  BY DEF ChartInv
<1>2. QED
  BY <1>1, ChartInitial, ChartStep, PTL DEF ChartSpec

-----------------------------------------------------------------------------
(* Readings *)

ReadTypes ==
  /\ written \in Nat
  /\ stored \in [Lang -> Nat \union {NoText}]
  /\ kept \in [Lang -> Nat \union {NoText}]
  /\ readPc \in [Asker -> {"idle", "select", "redis", "generate", "insert", "set"}]
  /\ lang \in [Asker -> Lang]
  /\ text \in [Asker -> Nat \union {NoText}]
  /\ shown \in [Lang -> SUBSET Nat]
  /\ unsure \subseteq Lang

\* A call has a text from the model's answer until it has shown it.
TextHeld == \A r \in Asker : text[r] # NoText <=> readPc[r] \in {"insert", "set"}

\* Wherever a text is: returned, in the table, in Redis, or with a call.
UsedIn(t, l) ==
  \/ t \in shown[l]
  \/ stored[l] = t
  \/ kept[l] = t
  \/ \E r \in Asker : lang[r] = l /\ text[r] = t

\* The texts in use have been written, each for one language.
TextsApart ==
  /\ \A t \in Nat, l \in Lang : UsedIn(t, l) => t <= written
  /\ \A t \in Nat : \A l, m \in Lang : UsedIn(t, l) /\ UsedIn(t, m) => l = m

\* In a language no text of which was refused there is the stored text only.
StoredIsTheText ==
  \A l \in Lang \ unsure :
    /\ shown[l] \subseteq {stored[l]}
    /\ kept[l] \in {NoText, stored[l]}
    /\ \A r \in Asker : readPc[r] = "set" /\ lang[r] = l => text[r] = stored[l]

ReadInv == ReadTypes /\ TextHeld /\ TextsApart /\ StoredIsTheText

-----------------------------------------------------------------------------
LEMMA ReadInitial == ReadingInit => ReadInv
<1> SUFFICES ASSUME ReadingInit PROVE ReadInv
  OBVIOUS
<1>1. (CHOOSE l \in Lang : TRUE) \in Lang
  BY ReadingAssumption
<1>2. ReadTypes
  BY <1>1 DEF ReadingInit, ReadTypes
<1>3. TextHeld /\ StoredIsTheText
  BY DEF ReadingInit, TextHeld, StoredIsTheText
<1>4. \A t \in Nat, l \in Lang : ~ UsedIn(t, l)
  BY ReadingAssumption DEF ReadingInit, UsedIn
<1>5. QED
  BY <1>2, <1>3, <1>4 DEF ReadInv, TextsApart

\* A step after which a text is in no language it was not in keeps the texts apart.
LEMMA MovesKeepApart ==
  ASSUME ReadInv, written' = written,
         \A t \in Nat, l \in Lang : UsedIn(t, l)' => UsedIn(t, l)
  PROVE  TextsApart'
<1>1. \A t \in Nat, l \in Lang : UsedIn(t, l)' => t <= written'
  BY DEF ReadInv, TextsApart
<1>2. \A t \in Nat : \A l, m \in Lang : UsedIn(t, l)' /\ UsedIn(t, m)' => l = m
  BY DEF ReadInv, TextsApart
<1>3. QED
  BY <1>1, <1>2 DEF TextsApart

\* What Show leaves of the texts in use.
LEMMA ShownText ==
  ASSUME ReadTypes, NEW r \in Asker, NEW t \in Nat, Show(r, t), lang' = lang
  PROVE  /\ text' \in [Asker -> Nat \union {NoText}]
         /\ text'[r] = NoText
         /\ \A q \in Asker \ {r} : text'[q] = text[q]
         /\ shown' \in [Lang -> SUBSET Nat]
         /\ shown'[lang[r]] = shown[lang[r]] \union {t}
         /\ \A l \in Lang \ {lang[r]} : shown'[l] = shown[l]
  BY DEF ReadTypes, Show

LEMMA AskStep ==
  ASSUME ReadInv, NEW r \in Asker, NEW l \in Lang, Ask(r, l)
  PROVE  ReadInv'
<1>1. ReadTypes' /\ TextHeld' /\ StoredIsTheText'
  BY DEF ReadInv, ReadTypes, TextHeld, StoredIsTheText, Ask, Ahead
<1>2. text[r] = NoText
  BY DEF ReadInv, TextHeld, Ask, Ahead
<1>3. \A t \in Nat, m \in Lang : UsedIn(t, m)' => UsedIn(t, m)
  BY <1>2, ReadingAssumption DEF ReadInv, ReadTypes, UsedIn, Ask
<1>4. written' = written
  BY DEF Ask
<1>5. QED
  BY <1>1, <1>3, <1>4, MovesKeepApart DEF ReadInv

\* A call that returns a text of its language, or goes on without one.
LEMMA ReadStep ==
  ASSUME ReadInv, NEW r \in Asker, NEW place \in [Lang -> Nat \union {NoText}],
         place \in {stored, kept}, 
         NEW from \in {"select", "redis"}, NEW to \in {"redis", "generate"},
         \/ place[lang[r]] # NoText /\ Ahead(r, from, "idle") /\ Show(r, place[lang[r]])
         \/ Ahead(r, from, to) /\ UNCHANGED <<text, shown>>,
         UNCHANGED <<written, stored, kept, lang, unsure>>
  PROVE  ReadInv'
<1>0. ReadTypes /\ TextHeld /\ TextsApart /\ StoredIsTheText
  BY DEF ReadInv
<1> DEFINE l == lang[r]
<1>l. l \in Lang
  BY <1>0 DEF ReadTypes
<1>1. CASE place[l] # NoText /\ Ahead(r, from, "idle") /\ Show(r, place[l])
  <2>1. place[l] \in Nat
    BY <1>1, <1>l
  <2>2. /\ text' \in [Asker -> Nat \union {NoText}]
        /\ text'[r] = NoText
        /\ \A q \in Asker \ {r} : text'[q] = text[q]
        /\ shown' \in [Lang -> SUBSET Nat]
        /\ shown'[l] = shown[l] \union {place[l]}
        /\ \A m \in Lang \ {l} : shown'[m] = shown[m]
    BY <1>0, <1>1, <2>1, ShownText
  <2>3. ReadTypes'
    BY <1>0, <1>1, <2>2 DEF ReadTypes, Ahead
  <2>4. TextHeld'
    BY <1>0, <1>1, <2>2 DEF ReadTypes, TextHeld, Ahead
  <2>5. UsedIn(place[l], l)
    BY DEF UsedIn
  <2>6. \A t \in Nat, m \in Lang : UsedIn(t, m)' => UsedIn(t, m)
    <3> SUFFICES ASSUME NEW t \in Nat, NEW m \in Lang, UsedIn(t, m)' PROVE UsedIn(t, m)
      OBVIOUS
    <3>1. CASE t \in shown'[m]
      BY <2>2, <2>5, <3>1 DEF UsedIn
    <3>2. CASE stored[m] = t \/ kept[m] = t
      BY <3>2 DEF UsedIn
    <3>3. CASE \E q \in Asker : lang[q] = m /\ text'[q] = t
      BY <2>2, <3>3, ReadingAssumption DEF UsedIn
    <3>4. QED
      BY <3>1, <3>2, <3>3 DEF UsedIn
  <2>7. TextsApart'
    BY <2>6, MovesKeepApart
  <2>8. ASSUME NEW m \in Lang \ unsure
        PROVE  /\ shown'[m] \subseteq {stored[m]}
               /\ kept[m] \in {NoText, stored[m]}
               /\ \A q \in Asker : readPc'[q] = "set" /\ lang[q] = m => text'[q] = stored[m]
    <3>1. /\ shown[m] \subseteq {stored[m]}
          /\ kept[m] \in {NoText, stored[m]}
          /\ \A q \in Asker : readPc[q] = "set" /\ lang[q] = m => text[q] = stored[m]
      BY <1>0 DEF StoredIsTheText
    <3>2. m = l => place[l] = stored[l]
      BY <1>1, <3>1
    <3>3. shown'[m] \subseteq {stored[m]}
      BY <2>2, <3>1, <3>2
    <3>4. \A q \in Asker : readPc'[q] = "set" /\ lang[q] = m => text'[q] = stored[m]
      BY <1>0, <1>1, <2>2, <3>1 DEF ReadTypes, Ahead
    <3>5. QED
      BY <3>1, <3>3, <3>4
  <2>9. StoredIsTheText'
    BY <2>8 DEF StoredIsTheText
  <2>10. QED
    BY <2>3, <2>4, <2>7, <2>9 DEF ReadInv
<1>2. CASE Ahead(r, from, to) /\ UNCHANGED <<text, shown>>
  <2>1. ReadTypes' /\ TextHeld' /\ StoredIsTheText'
    BY <1>0, <1>2 DEF ReadTypes, TextHeld, StoredIsTheText, Ahead
  <2>2. \A t \in Nat, m \in Lang : UsedIn(t, m)' => UsedIn(t, m)
    BY <1>2 DEF UsedIn
  <2>3. QED
    BY <2>1, <2>2, MovesKeepApart DEF ReadInv
<1>3. QED
  BY <1>1, <1>2

LEMMA GenerateStep ==
  ASSUME ReadInv, NEW r \in Asker, generateReading(r)
  PROVE  ReadInv'
<1>0. ReadTypes /\ TextHeld /\ TextsApart /\ StoredIsTheText
  BY DEF ReadInv
<1>1. /\ written' = written + 1
      /\ text' = [text EXCEPT ![r] = written + 1]
      /\ readPc[r] = "generate" /\ readPc' = [readPc EXCEPT ![r] = "insert"]
      /\ UNCHANGED <<stored, kept, lang, shown, unsure>>
  BY DEF generateReading, Ahead
<1>2. written + 1 \in Nat /\ written + 1 > written
  BY <1>0 DEF ReadTypes
<1>3. ReadTypes'
  BY <1>0, <1>1, <1>2 DEF ReadTypes
<1>4. TextHeld'
  BY <1>0, <1>1, <1>2, ReadingAssumption DEF ReadTypes, TextHeld
<1>5. \A t \in Nat, l \in Lang :
        UsedIn(t, l)' => UsedIn(t, l) \/ (t = written + 1 /\ l = lang[r])
  BY <1>0, <1>1 DEF ReadTypes, UsedIn
<1>6. \A l \in Lang : ~ UsedIn(written + 1, l)
  BY <1>0, <1>2 DEF ReadTypes, TextsApart
<1>7. \A t \in Nat, l \in Lang : UsedIn(t, l)' => t <= written'
  BY <1>0, <1>1, <1>2, <1>5 DEF ReadTypes, TextsApart
<1>8. \A t \in Nat : \A l, m \in Lang : UsedIn(t, l)' /\ UsedIn(t, m)' => l = m
  BY <1>0, <1>5, <1>6 DEF TextsApart
<1>9. StoredIsTheText'
  BY <1>0, <1>1 DEF ReadTypes, StoredIsTheText
<1>10. QED
  BY <1>3, <1>4, <1>7, <1>8, <1>9 DEF ReadInv, TextsApart

LEMMA CreateStep ==
  ASSUME ReadInv, NEW r \in Asker, Create(r)
  PROVE  ReadInv'
<1>0. ReadTypes /\ TextHeld /\ TextsApart /\ StoredIsTheText
  BY DEF ReadInv
<1> DEFINE l == lang[r]
<1>1. l \in Lang /\ text[r] \in Nat
  BY <1>0 DEF ReadTypes, TextHeld, Create, Ahead
<1>2. /\ readPc[r] = "insert" /\ readPc' = [readPc EXCEPT ![r] = "set"]
      /\ UNCHANGED <<written, kept, lang, text, shown>>
  BY DEF Create, Ahead
<1>3. CASE stored[l] = NoText /\ stored' = [stored EXCEPT ![l] = text[r]] /\ UNCHANGED unsure
  <2>1. ReadTypes' /\ TextHeld'
    BY <1>0, <1>1, <1>2, <1>3 DEF ReadTypes, TextHeld
  <2>2. UsedIn(text[r], l)
    BY DEF UsedIn
  <2>3. \A t \in Nat, m \in Lang : UsedIn(t, m)' => UsedIn(t, m)
    <3> SUFFICES ASSUME NEW t \in Nat, NEW m \in Lang, UsedIn(t, m)' PROVE UsedIn(t, m)
      OBVIOUS
    <3>1. CASE stored'[m] = t
      BY <1>0, <1>3, <2>2, <3>1 DEF ReadTypes, UsedIn
    <3>2. CASE stored'[m] # t
      BY <1>2, <3>2 DEF UsedIn
    <3>3. QED
      BY <3>1, <3>2
  <2>4. TextsApart'
    BY <1>2, <2>3, MovesKeepApart
  <2>5. ASSUME NEW m \in Lang \ unsure
        PROVE  /\ shown[m] \subseteq {stored'[m]}
               /\ kept[m] \in {NoText, stored'[m]}
               /\ \A q \in Asker : readPc'[q] = "set" /\ lang[q] = m => text[q] = stored'[m]
    <3>1. /\ shown[m] \subseteq {stored[m]}
          /\ kept[m] \in {NoText, stored[m]}
          /\ \A q \in Asker : readPc[q] = "set" /\ lang[q] = m => text[q] = stored[m]
      BY <1>0 DEF StoredIsTheText
    <3>2. CASE m = l
      <4>1. stored'[l] = text[r]
        BY <1>0, <1>1, <1>3 DEF ReadTypes
      <4>2. shown[m] = {} /\ kept[m] = NoText
        BY <1>0, <1>3, <3>1, <3>2, ReadingAssumption DEF ReadTypes
      <4>3. \A q \in Asker : readPc[q] = "set" /\ lang[q] = m => FALSE
        BY <1>0, <1>3, <3>1, <3>2 DEF TextHeld
      <4>4. \A q \in Asker : readPc'[q] = "set" => q = r \/ readPc[q] = "set"
        BY <1>0, <1>2 DEF ReadTypes
      <4>5. QED
        BY <3>2, <4>1, <4>2, <4>3, <4>4
    <3>3. CASE m # l
      BY <1>0, <1>2, <1>3, <3>1, <3>3 DEF ReadTypes
    <3>4. QED
      BY <3>2, <3>3
  <2>6. StoredIsTheText'
    BY <1>2, <1>3, <2>5 DEF StoredIsTheText
  <2>7. QED
    BY <2>1, <2>4, <2>6 DEF ReadInv
<1>4. CASE unsure' = unsure \union {l} /\ UNCHANGED stored
  <2>1. ReadTypes' /\ TextHeld'
    BY <1>0, <1>1, <1>2, <1>4 DEF ReadTypes, TextHeld
  <2>2. StoredIsTheText'
    BY <1>0, <1>1, <1>2, <1>4 DEF ReadTypes, StoredIsTheText
  <2>3. \A t \in Nat, m \in Lang : UsedIn(t, m)' => UsedIn(t, m)
    BY <1>2, <1>4 DEF UsedIn
  <2>4. QED
    BY <1>2, <2>1, <2>2, <2>3, MovesKeepApart DEF ReadInv
<1>5. QED
  BY <1>3, <1>4 DEF Create

LEMMA SetStep ==
  ASSUME ReadInv, NEW r \in Asker, Set(r)
  PROVE  ReadInv'
<1>0. ReadTypes /\ TextHeld /\ TextsApart /\ StoredIsTheText
  BY DEF ReadInv
<1> DEFINE l == lang[r]
<1>1. l \in Lang /\ text[r] \in Nat
  BY <1>0 DEF ReadTypes, TextHeld, Set, Ahead
<1>2. /\ readPc[r] = "set" /\ readPc' = [readPc EXCEPT ![r] = "idle"]
      /\ kept' = [kept EXCEPT ![l] = text[r]] \/ kept' = kept
      /\ UNCHANGED <<written, stored, lang, unsure>>
  BY DEF Set, Ahead
<1>3. /\ text' \in [Asker -> Nat \union {NoText}]
      /\ text'[r] = NoText
      /\ \A q \in Asker \ {r} : text'[q] = text[q]
      /\ shown' \in [Lang -> SUBSET Nat]
      /\ shown'[l] = shown[l] \union {text[r]}
      /\ \A m \in Lang \ {l} : shown'[m] = shown[m]
  BY <1>0, <1>1, <1>2, ShownText DEF Set
<1>4. /\ kept' \in [Lang -> Nat \union {NoText}]
      /\ kept'[l] \in {kept[l], text[r]}
      /\ \A m \in Lang \ {l} : kept'[m] = kept[m]
  BY <1>0, <1>1, <1>2 DEF ReadTypes
<1>5. ReadTypes'
  BY <1>0, <1>2, <1>3, <1>4 DEF ReadTypes
<1>6. TextHeld'
  BY <1>0, <1>2, <1>3 DEF ReadTypes, TextHeld
<1>7. UsedIn(text[r], l)
  BY DEF UsedIn
<1>8. \A t \in Nat, m \in Lang : UsedIn(t, m)' => UsedIn(t, m)
  <2> SUFFICES ASSUME NEW t \in Nat, NEW m \in Lang, UsedIn(t, m)' PROVE UsedIn(t, m)
    OBVIOUS
  <2>1. CASE t \in shown'[m]
    BY <1>3, <1>7, <2>1 DEF UsedIn
  <2>2. CASE kept'[m] = t
    BY <1>4, <1>7, <2>2 DEF UsedIn
  <2>3. CASE stored[m] = t
    BY <2>3 DEF UsedIn
  <2>4. CASE \E q \in Asker : lang[q] = m /\ text'[q] = t
    BY <1>3, <2>4, ReadingAssumption DEF UsedIn
  <2>5. QED
    BY <1>2, <2>1, <2>2, <2>3, <2>4 DEF UsedIn
<1>9. TextsApart'
  BY <1>2, <1>8, MovesKeepApart
<1>10. ASSUME NEW m \in Lang \ unsure
       PROVE  /\ shown'[m] \subseteq {stored[m]}
              /\ kept'[m] \in {NoText, stored[m]}
              /\ \A q \in Asker : readPc'[q] = "set" /\ lang[q] = m => text'[q] = stored[m]
  <2>1. /\ shown[m] \subseteq {stored[m]}
        /\ kept[m] \in {NoText, stored[m]}
        /\ \A q \in Asker : readPc[q] = "set" /\ lang[q] = m => text[q] = stored[m]
    BY <1>0 DEF StoredIsTheText
  <2>2. m = l => text[r] = stored[m]
    BY <1>2, <2>1
  <2>3. shown'[m] \subseteq {stored[m]}
    BY <1>3, <2>1, <2>2
  <2>4. kept'[m] \in {NoText, stored[m]}
    BY <1>4, <2>1, <2>2
  <2>5. \A q \in Asker : readPc'[q] = "set" /\ lang[q] = m => text'[q] = stored[m]
    BY <1>0, <1>2, <1>3, <2>1 DEF ReadTypes
  <2>6. QED
    BY <2>3, <2>4, <2>5
<1>11. StoredIsTheText'
  BY <1>2, <1>10 DEF StoredIsTheText
<1>12. QED
  BY <1>5, <1>6, <1>9, <1>11 DEF ReadInv

LEMMA FailStep ==
  ASSUME ReadInv, NEW r \in Asker, FailReading(r)
  PROVE  ReadInv'
<1>1. ReadTypes' /\ TextHeld' /\ StoredIsTheText'
  BY DEF ReadInv, ReadTypes, TextHeld, StoredIsTheText, FailReading
<1>2. \A t \in Nat, m \in Lang : UsedIn(t, m)' => UsedIn(t, m)
  BY ReadingAssumption DEF ReadInv, ReadTypes, UsedIn, FailReading
<1>3. written' = written
  BY DEF FailReading
<1>4. QED
  BY <1>1, <1>2, <1>3, MovesKeepApart DEF ReadInv

LEMMA ForgetStep ==
  ASSUME ReadInv, NEW l \in Lang, Forget(l)
  PROVE  ReadInv'
<1>1. ReadTypes' /\ TextHeld' /\ StoredIsTheText'
  BY DEF ReadInv, ReadTypes, TextHeld, StoredIsTheText, Forget
<1>2. \A t \in Nat, m \in Lang : UsedIn(t, m)' => UsedIn(t, m)
  BY ReadingAssumption DEF ReadInv, ReadTypes, UsedIn, Forget
<1>3. written' = written
  BY DEF Forget
<1>4. QED
  BY <1>1, <1>2, <1>3, MovesKeepApart DEF ReadInv

LEMMA ReadingStep == ReadInv /\ [ReadingNext]_readingVars => ReadInv'
<1> SUFFICES ASSUME ReadInv, [ReadingNext]_readingVars PROVE ReadInv'
  OBVIOUS
<1>0. stored \in [Lang -> Nat \union {NoText}] /\ kept \in [Lang -> Nat \union {NoText}]
  BY DEF ReadInv, ReadTypes
<1>1. ASSUME NEW r \in Asker, NEW l \in Lang, Ask(r, l) PROVE ReadInv'
  BY <1>1, AskStep
<1>2. ASSUME NEW r \in Asker, DailyRun(r) PROVE ReadInv'
  BY <1>2, AskStep, ReadingAssumption DEF DailyRun
<1>3. ASSUME NEW r \in Asker, GetByUserAndDate(r) PROVE ReadInv'
  BY <1>0, <1>3, ReadStep DEF GetByUserAndDate
<1>4. ASSUME NEW r \in Asker, ReadRedis(r) PROVE ReadInv'
  BY <1>0, <1>4, ReadStep DEF ReadRedis
<1>5. ASSUME NEW r \in Asker, generateReading(r) PROVE ReadInv'
  BY <1>5, GenerateStep
<1>6. ASSUME NEW r \in Asker, Create(r) PROVE ReadInv'
  BY <1>6, CreateStep
<1>7. ASSUME NEW r \in Asker, Set(r) PROVE ReadInv'
  BY <1>7, SetStep
<1>8. ASSUME NEW r \in Asker, FailReading(r) PROVE ReadInv'
  BY <1>8, FailStep
<1>9. ASSUME NEW l \in Lang, Forget(l) PROVE ReadInv'
  BY <1>9, ForgetStep
<1>10. CASE UNCHANGED readingVars
  BY <1>10 DEF readingVars, ReadInv, ReadTypes, TextHeld, TextsApart, UsedIn, StoredIsTheText
<1>11. QED
  BY <1>1, <1>2, <1>3, <1>4, <1>5, <1>6, <1>7, <1>8, <1>9, <1>10 DEF ReadingNext

\* The reading of a date stays the same text in a language, its own, but for a text the
\* table refused, whatever calls and the worker do at the same time (GetDailyReading).
THEOREM OneReadingADay == ReadingSpec => []OneTextOfADate
<1>1. ReadInv => OneTextOfADate
  <2> SUFFICES ASSUME ReadInv PROVE OneTextOfADate
    OBVIOUS
  <2>1. ASSUME NEW l \in Lang, l \notin unsure PROVE ~ (Cardinality(shown[l]) > 1)
    <3>1. shown[l] \subseteq {stored[l]}
      BY <2>1 DEF ReadInv, StoredIsTheText
    <3>2. IsFiniteSet({stored[l]}) /\ Cardinality({stored[l]}) = 1
      BY FS_Singleton
    <3>3. Cardinality(shown[l]) \in Nat /\ Cardinality(shown[l]) <= 1
      BY <3>1, <3>2, FS_Subset, FS_CardinalityType
    <3>4. QED
      BY <3>3
  <2>2. ASSUME NEW l \in Lang, NEW m \in Lang, l # m PROVE shown[l] \intersect shown[m] = {}
    <3>1. \A t \in shown[l] : t \in Nat
      BY DEF ReadInv, ReadTypes
    <3>2. QED
      BY <2>2, <3>1 DEF ReadInv, TextsApart, UsedIn
  <2>3. QED
    BY <2>1, <2>2 DEF OneTextOfADate
<1>2. QED
  BY <1>1, ReadInitial, ReadingStep, PTL DEF ReadingSpec

-----------------------------------------------------------------------------
(* Reports *)

Row == [user : User, person : Person, kept : BOOLEAN, fresh : BOOLEAN]

CompatTypes ==
  /\ owner \in [Person -> User \union {"none"}]
  /\ reports \in Seq(Row)
  /\ call \in [Call -> [stage : {"idle", "loaded", "asking", "answered", "failed"},
                        user : User \union {"none"}, person : Person \union {"none"},
                        report : Nat]]

\* A call past its check is of a user, on a person that is his or nobody's any more.
CallOwns(c) ==
  call[c].stage \in {"loaded", "asking", "answered"} =>
    /\ call[c].user \in User
    /\ call[c].person \in Person
    /\ owner[call[c].person] \in {call[c].user, "none"}

\* An answer is a row on that person.
CallNames(c) ==
  call[c].stage = "answered" =>
    /\ call[c].report \in DOMAIN reports
    /\ reports[call[c].report].user = call[c].user
    /\ reports[call[c].report].person = call[c].person

RowOwned == \A i \in DOMAIN reports : reports[i].kept => owner[reports[i].person] = reports[i].user

CompatInv == CompatTypes /\ RowOwned /\ \A c \in Call : CallOwns(c) /\ CallNames(c)

-----------------------------------------------------------------------------
\* A table whose rows are rewritten in place has as many.
LEMMA Rewritten ==
  ASSUME NEW s \in Seq(Row), NEW F(_), \A i \in DOMAIN s : F(i) \in Row
  PROVE  /\ [i \in DOMAIN s |-> F(i)] \in Seq(Row)
         /\ DOMAIN [i \in DOMAIN s |-> F(i)] = DOMAIN s
  OBVIOUS

LEMMA CompatInitial == CompatInit => CompatInv
BY CompatAssumption DEF CompatInit, CompatInv, CompatTypes, CallOwns, CallNames, RowOwned, Idle

LEMMA CompatStep == CompatInv /\ [CompatNext]_compatVars => CompatInv'
<1> USE CompatAssumption
<1> SUFFICES ASSUME CompatInv, [CompatNext]_compatVars PROVE CompatInv'
  OBVIOUS
<1> USE DEF CompatInv
<1>1. ASSUME NEW u \in User, NEW p \in Person, AddPerson(u, p) PROVE CompatInv'
  <2>1. CompatTypes'
    BY <1>1 DEF AddPerson, CompatTypes
  <2>2. RowOwned'
    BY <1>1 DEF AddPerson, CompatTypes, RowOwned, Row
  <2>3. ASSUME NEW c \in Call PROVE CallOwns(c)' /\ CallNames(c)'
    BY <1>1 DEF AddPerson, CompatTypes, CallOwns, CallNames
  <2>4. QED
    BY <2>1, <2>2, <2>3
<1>2. ASSUME NEW u \in User, NEW p \in Person, DeletePerson(u, p) PROVE CompatInv'
  <2> DEFINE F(i) == IF reports[i].person = p THEN [reports[i] EXCEPT !.kept = FALSE]
                     ELSE reports[i]
  <2>1. \A i \in DOMAIN reports :
          /\ F(i) \in Row
          /\ F(i).user = reports[i].user
          /\ F(i).person = reports[i].person
          /\ F(i).kept => reports[i].kept /\ reports[i].person # p
    <3> SUFFICES ASSUME NEW i \in DOMAIN reports
                 PROVE  /\ F(i) \in Row
                        /\ F(i).user = reports[i].user
                        /\ F(i).person = reports[i].person
                        /\ F(i).kept => reports[i].kept /\ reports[i].person # p
      OBVIOUS
    <3>1. reports[i] \in Row
      BY DEF CompatTypes
    <3>2. QED
      BY <3>1 DEF Row
  <2>2. reports' = [i \in DOMAIN reports |-> F(i)]
    BY <1>2 DEF DeletePerson
  <2>3. reports' \in Seq(Row) /\ DOMAIN reports' = DOMAIN reports
    <3> HIDE DEF F
    <3>1. reports \in Seq(Row)
      BY DEF CompatTypes
    <3>2. QED
      BY <2>1, <2>2, <3>1, Rewritten
  <2>4. owner' = [owner EXCEPT ![p] = "none"] /\ call' = call
    BY <1>2 DEF DeletePerson
  <2> HIDE DEF F
  <2>5. CompatTypes'
    BY <2>3, <2>4 DEF CompatTypes
  <2>6. \A i \in DOMAIN reports : reports'[i] = F(i) /\ reports[i].person \in Person
    <3>1. \A i \in DOMAIN reports : reports[i] \in Row
      BY DEF CompatTypes
    <3>2. QED
      BY <2>2, <3>1 DEF Row
  <2>7. RowOwned'
    BY <2>1, <2>3, <2>4, <2>6 DEF CompatTypes, RowOwned
  <2>8. ASSUME NEW c \in Call PROVE CallOwns(c)' /\ CallNames(c)'
    BY <2>1, <2>3, <2>4, <2>6 DEF CompatTypes, CallOwns, CallNames
  <2>9. QED
    BY <2>5, <2>7, <2>8
<1>3. CASE Ages
  <2> DEFINE F(i) == [reports[i] EXCEPT !.fresh = FALSE]
  <2>1. \A i \in DOMAIN reports :
          /\ F(i) \in Row
          /\ F(i).user = reports[i].user
          /\ F(i).person = reports[i].person
          /\ F(i).kept = reports[i].kept
    <3> SUFFICES ASSUME NEW i \in DOMAIN reports
                 PROVE  /\ F(i) \in Row
                        /\ F(i).user = reports[i].user
                        /\ F(i).person = reports[i].person
                        /\ F(i).kept = reports[i].kept
      OBVIOUS
    <3>1. reports[i] \in Row
      BY DEF CompatTypes
    <3>2. QED
      BY <3>1 DEF Row
  <2>2. reports' = [i \in DOMAIN reports |-> F(i)] /\ UNCHANGED <<owner, call>>
    BY <1>3 DEF Ages
  <2> HIDE DEF F
  <2>3. reports' \in Seq(Row) /\ DOMAIN reports' = DOMAIN reports
    <3>1. reports \in Seq(Row)
      BY DEF CompatTypes
    <3>2. QED
      BY <2>1, <2>2, <3>1, Rewritten
  <2>4. \A i \in DOMAIN reports : reports'[i] = F(i)
    BY <2>2
  <2>5. CompatTypes'
    BY <2>2, <2>3 DEF CompatTypes
  <2>6. RowOwned'
    BY <2>1, <2>2, <2>3, <2>4 DEF RowOwned
  <2>7. ASSUME NEW c \in Call PROVE CallOwns(c)' /\ CallNames(c)'
    BY <2>1, <2>2, <2>3, <2>4 DEF CallOwns, CallNames
  <2>8. QED
    BY <2>5, <2>6, <2>7
<1>4. ASSUME NEW c \in Call, NEW u \in User, NEW p \in Person, LoadPerson(c, u, p)
      PROVE CompatInv'
  <2>1. UNCHANGED <<owner, reports>>
    BY <1>4 DEF LoadPerson
  <2>2. call' = [call EXCEPT ![c] =
          [stage |-> IF owner[p] = u THEN "loaded" ELSE "failed",
           user |-> u, person |-> p, report |-> 0]]
    BY <1>4 DEF LoadPerson, Go, MayRead
  <2>3. CompatTypes' /\ RowOwned'
    BY <2>1, <2>2 DEF CompatTypes, RowOwned
  <2>4. ASSUME NEW d \in Call PROVE CallOwns(d)' /\ CallNames(d)'
    BY <2>1, <2>2 DEF CompatTypes, CallOwns, CallNames
  <2>5. QED
    BY <2>3, <2>4
<1>5. ASSUME NEW c \in Call, FindRecent(c) PROVE CompatInv'
  <2> DEFINE fresh == {i \in Newest(call[c].user, call[c].person) : reports[i].fresh}
  <2>1. UNCHANGED <<owner, reports>> /\ call[c].stage = "loaded"
    BY <1>5 DEF FindRecent
  <2>2. \A i \in fresh : /\ i \in DOMAIN reports
                         /\ reports[i].user = call[c].user
                         /\ reports[i].person = call[c].person
    BY DEF Newest, Of
  <2>3. DOMAIN reports \subseteq Nat
    BY DEF CompatTypes
  <2>4. CASE fresh = {}
    <3>1. call' = [call EXCEPT ![c] = [call[c] EXCEPT !.stage = "asking"]]
      BY <1>5, <2>4 DEF FindRecent, Go
    <3>2. CompatTypes' /\ RowOwned'
      BY <2>1, <3>1 DEF CompatTypes, RowOwned
    <3>3. ASSUME NEW d \in Call PROVE CallOwns(d)' /\ CallNames(d)'
      BY <2>1, <3>1 DEF CompatTypes, CallOwns, CallNames
    <3>4. QED
      BY <3>2, <3>3
  <2>5. CASE fresh # {}
    <3>1. PICK i \in fresh :
            call' = [call EXCEPT ![c] = [call[c] EXCEPT !.stage = "answered", !.report = i]]
      BY <1>5, <2>5 DEF FindRecent, Go
    <3> HIDE DEF fresh
    <3>2. CompatTypes' /\ RowOwned'
      BY <2>1, <2>2, <2>3, <3>1 DEF CompatTypes, RowOwned
    <3>3. ASSUME NEW d \in Call PROVE CallOwns(d)' /\ CallNames(d)'
      BY <2>1, <2>2, <3>1 DEF CompatTypes, CallOwns, CallNames
    <3>4. QED
      BY <3>2, <3>3
  <2>6. QED
    BY <2>4, <2>5
<1>6. ASSUME NEW c \in Call, NEW score \in Score, StoreReport(c, score) PROVE CompatInv'
  <2>1. call[c].stage = "asking" /\ UNCHANGED owner
    BY <1>6 DEF StoreReport
  <2> DEFINE row == [user |-> call[c].user, person |-> call[c].person,
                     kept |-> TRUE, fresh |-> TRUE]
  <2>2. CASE Exists(call[c].person) /\ score <= 100
    <3>1. reports' = Append(reports, row)
      BY <1>6, <2>2 DEF StoreReport
    <3>2. call' = [call EXCEPT ![c] =
                     [call[c] EXCEPT !.stage = "answered", !.report = Len(reports) + 1]]
      BY <1>6, <2>2 DEF StoreReport, Go
    <3>3. row \in Row /\ owner[row.person] = row.user
      BY <2>1, <2>2 DEF CallOwns, Exists, Row
    <3> HIDE DEF row
    <3>4. /\ reports' \in Seq(Row)
          /\ DOMAIN reports' = DOMAIN reports \union {Len(reports) + 1}
          /\ \A i \in DOMAIN reports : reports'[i] = reports[i]
          /\ reports'[Len(reports) + 1] = row
      BY <3>1, <3>3 DEF CompatTypes
    <3>5. CompatTypes'
      <4>1. Len(reports) + 1 \in Nat
        BY DEF CompatTypes
      <4>2. owner' \in [Person -> User \union {"none"}] /\ reports' \in Seq(Row)
        BY <2>1, <3>4 DEF CompatTypes
      <4>3. QED
        BY <3>2, <4>1, <4>2 DEF CompatTypes
    <3>6. RowOwned'
      BY <2>1, <3>3, <3>4 DEF RowOwned
    <3>7. ASSUME NEW d \in Call PROVE CallOwns(d)' /\ CallNames(d)'
      <4>1. row.user = call[c].user /\ row.person = call[c].person
        BY DEF row
      <4>2. CASE d = c
        BY <2>1, <3>2, <3>4, <4>1, <4>2 DEF CompatTypes, CallOwns, CallNames
      <4>3. CASE d # c
        BY <2>1, <3>2, <3>4, <4>3 DEF CompatTypes, CallOwns, CallNames
      <4>4. QED
        BY <4>2, <4>3
    <3>8. QED
      BY <3>5, <3>6, <3>7
  <2>3. CASE ~(Exists(call[c].person) /\ score <= 100)
    <3>1. call' = [call EXCEPT ![c] = [call[c] EXCEPT !.stage = "failed"]]
          /\ UNCHANGED reports
      BY <1>6, <2>3 DEF StoreReport, Go
    <3>2. CompatTypes' /\ RowOwned'
      BY <2>1, <3>1 DEF CompatTypes, RowOwned
    <3>3. ASSUME NEW d \in Call PROVE CallOwns(d)' /\ CallNames(d)'
      BY <2>1, <3>1 DEF CompatTypes, CallOwns, CallNames
    <3>4. QED
      BY <3>2, <3>3
  <2>4. QED
    BY <2>2, <2>3
<1>7. ASSUME NEW c \in Call, ModelFails(c) PROVE CompatInv'
  <2>1. call' = [call EXCEPT ![c] = [call[c] EXCEPT !.stage = "failed"]]
        /\ UNCHANGED <<owner, reports>>
    BY <1>7 DEF ModelFails, Go
  <2>2. CompatTypes' /\ RowOwned'
    BY <2>1 DEF CompatTypes, RowOwned
  <2>3. ASSUME NEW d \in Call PROVE CallOwns(d)' /\ CallNames(d)'
    BY <2>1 DEF CompatTypes, CallOwns, CallNames
  <2>4. QED
    BY <2>2, <2>3
<1>8. CASE UNCHANGED compatVars
  BY <1>8 DEF compatVars, CompatTypes, RowOwned, CallOwns, CallNames
<1>9. QED
  BY <1>1, <1>2, <1>3, <1>4, <1>5, <1>6, <1>7, <1>8 DEF CompatNext

\* A report, stored or being written, is on a person its own user saved, whatever is
\* deleted meanwhile (GenerateReport, GetReport, and the cascades of migration 001).
THEOREM ReportsStay == CompatSpec => []ReportsStayWithOwner
<1>1. CompatInit => CompatInv
  BY CompatInitial
<1>2. CompatInv /\ [CompatNext]_compatVars => CompatInv'
  BY CompatStep
<1>3. CompatInv => ReportsStayWithOwner
  BY DEF CompatInv, RowOwned, CallOwns, CallNames, ReportsStayWithOwner
<1>4. QED
  BY <1>1, <1>2, <1>3, PTL DEF CompatSpec

===============================================================================
