----------------------------- MODULE ChatQuota -----------------------------
(***************************************************************************)
(* The AI chat of one account (AIService over chat_repo.go) and its budget *)
(* of messages a day, counted in Redis or, while Redis does not answer, by *)
(* the rows of today.  quotaPc[r] is the next step of the SendMessage in   *)
(* slot r:                                                                 *)
(*                                                                         *)
(*   IsPremium, GetThread ; INCR, or COUNT ; INSERT question ; OpenAI and  *)
(*   INSERT answer                                                         *)
(*                                                                         *)
(* A thread id is never used again.  What is said, and the history sent to *)
(* OpenAI, are data.                                                       *)
(***************************************************************************)
EXTENDS Integers, FiniteSets, FiniteSetsExt

CONSTANTS
  Thread,        \* chat threads, those of the future included
  Sender,        \* SendMessage calls that may run at the same time
  freeChatLimit, \* messages a day
  MaxAsked,      \* bound: questions of a thread, of today and not answered
  NoThread

ASSUME ChatAssumption ==
  /\ IsFiniteSet(Thread) /\ IsFiniteSet(Sender)
  /\ freeChatLimit \in Nat

VARIABLES
  counter,    \* Redis: the usageKey of today
  redisUp,
  thread,     \* "absent", "live" or "deleted"
  said,       \* chat_messages of a thread: questions of today, questions less answers
  premium,    \* what IsPremium answers now
  quotaPc, inThread,
  granted,    \* history: messages let through today on the free budget
  byRows      \* history: one of them was counted by the rows

quotaVars == <<counter, redisUp, thread, said, premium, quotaPc, inThread, granted, byRows>>
rest == <<redisUp, premium>>

Empty == [today |-> 0, open |-> 0]

QuotaInit ==
  /\ counter = 0
  /\ redisUp = TRUE
  /\ thread = [t \in Thread |-> "absent"]
  /\ said = [t \in Thread |-> Empty]
  /\ premium = FALSE
  /\ quotaPc = [r \in Sender |-> "idle"]
  /\ inThread = [r \in Sender |-> NoThread]
  /\ granted = 0
  /\ byRows = FALSE

\* Counting stops one above the limit (bound).
UpToOver(n) == IF n > freeChatLimit + 1 THEN freeChatLimit + 1 ELSE n

CountUserMessagesToday == FoldSet(LAMBDA t, n : n + said[t].today, 0, Thread)

\* What GetUsage reports.
Used ==
  LET used == IF redisUp THEN Max({CountUserMessagesToday, counter})
                         ELSE CountUserMessagesToday
  IN IF used > freeChatLimit THEN freeChatLimit ELSE used

Moves(r, from, to) ==
  /\ quotaPc[r] = from
  /\ quotaPc' = [quotaPc EXCEPT ![r] = to]

-----------------------------------------------------------------------------
CreateThread(t) ==
  /\ thread[t] = "absent"
  /\ thread' = [thread EXCEPT ![t] = "live"]
  /\ UNCHANGED <<counter, said, quotaPc, inThread, granted, byRows, rest>>

\* Faulty variant: the thread is emptied and stays.
EmptyThread(t) ==
  /\ thread[t] = "live"
  /\ said' = [said EXCEPT ![t] = Empty]
  /\ UNCHANGED <<counter, redisUp, thread, premium, quotaPc, inThread, granted, byRows>>

\* Owner check, then messages and thread in one transaction.
DeleteThread(t) ==
  /\ thread[t] = "live"
  /\ thread' = [thread EXCEPT ![t] = "deleted"]
  /\ said' = [said EXCEPT ![t] = Empty]
  /\ UNCHANGED <<counter, redisUp, premium, quotaPc, inThread, granted, byRows>>

\* Premium is asked for before the thread; neither is looked at again.
SendMessage(r, t) ==
  /\ thread[t] = "live"
  /\ Moves(r, "idle", IF premium THEN "question" ELSE "reserve")
  /\ inThread' = [inThread EXCEPT ![r] = t]
  /\ UNCHANGED <<counter, thread, said, granted, byRows, rest>>

\* Faulty variant: read, compare, and count the message when it is let through.
ReserveLate(r) ==
  \/ /\ redisUp
     /\ IF counter < freeChatLimit THEN Moves(r, "reserve", "count")
        ELSE Moves(r, "reserve", "idle")
     /\ UNCHANGED <<counter, granted>>
     /\ UNCHANGED <<thread, said, inThread, byRows, rest>>
  \/ /\ Moves(r, "count", "question")
     /\ counter' = UpToOver(counter + 1)
     /\ granted' = UpToOver(granted + 1)
     /\ UNCHANGED <<thread, said, inThread, byRows, rest>>

\* reserveMessage: the slot is taken before it is compared, and kept when over the limit.
Reserve(r) ==
  /\ IF redisUp
       THEN /\ counter' = UpToOver(counter + 1)
            /\ \/ /\ counter' - 1 < freeChatLimit
                  /\ Moves(r, "reserve", "question")
                  /\ granted' = UpToOver(granted + 1)
               \/ /\ counter' - 1 \geq freeChatLimit
                  /\ Moves(r, "reserve", "idle")
                  /\ UNCHANGED granted
       ELSE /\ Moves(r, "reserve", "count")
            /\ UNCHANGED <<counter, granted>>
  /\ UNCHANGED <<thread, said, inThread, byRows, rest>>

\* Redis did not answer: the rows of today, those of Premium hours included.
CountRows(r) ==
  /\ \/ /\ CountUserMessagesToday < freeChatLimit
        /\ Moves(r, "count", "question")
        /\ granted' = UpToOver(granted + 1)
        /\ byRows' = TRUE
     \/ /\ CountUserMessagesToday \geq freeChatLimit
        /\ Moves(r, "count", "idle")
        /\ UNCHANGED <<granted, byRows>>
  /\ UNCHANGED <<counter, thread, said, inThread, rest>>

\* A deleted thread refuses its foreign key.
SaveQuestion(r) ==
  LET t == inThread[r] IN
  /\ quotaPc[r] = "question"
  /\ said[t].today < MaxAsked /\ said[t].open < MaxAsked
  /\ IF thread[t] = "live"
       THEN /\ Moves(r, "question", "answer")
            /\ said' = [said EXCEPT ![t] = [today |-> @.today + 1, open |-> @.open + 1]]
       ELSE /\ Moves(r, "question", "idle")
            /\ UNCHANGED said
  /\ UNCHANGED <<counter, thread, inThread, granted, byRows, rest>>

SaveAnswer(r) ==
  LET t == inThread[r] IN
  /\ Moves(r, "answer", "idle")
  /\ said' = IF thread[t] = "live"
               THEN [said EXCEPT ![t].open = @ - 1] ELSE said
  /\ UNCHANGED <<counter, thread, inThread, granted, byRows, rest>>

\* OpenAI or the database fails, or the process is lost: the slot stays taken.
GiveUp(r) ==
  /\ quotaPc[r] # "idle"
  /\ quotaPc' = [quotaPc EXCEPT ![r] = "idle"]
  /\ UNCHANGED <<counter, thread, said, inThread, granted, byRows, rest>>

-----------------------------------------------------------------------------
\* Another key, and no rows yet; what was let through may be saved only now.
Midnight ==
  /\ counter' = 0
  /\ said' = [t \in Thread |-> [said[t] EXCEPT !.today = 0]]
  /\ granted' = 0
  /\ byRows' = FALSE
  /\ UNCHANGED <<redisUp, thread, premium, quotaPc, inThread>>

RedisFails ==
  /\ redisUp
  /\ redisUp' = FALSE
  /\ UNCHANGED <<counter, thread, said, premium, quotaPc, inThread, granted, byRows>>

RedisReturns ==
  /\ ~redisUp
  /\ redisUp' = TRUE
  /\ UNCHANGED <<counter, thread, said, premium, quotaPc, inThread, granted, byRows>>

Upgrade ==
  /\ premium' = ~premium
  /\ UNCHANGED <<counter, redisUp, thread, said, quotaPc, inThread, granted, byRows>>

QuotaNext ==
  \/ \E t \in Thread : CreateThread(t) \/ DeleteThread(t)
  \/ \E r \in Sender :
       \/ \E t \in Thread : SendMessage(r, t)
       \/ Reserve(r)
       \/ CountRows(r)
       \/ SaveQuestion(r)
       \/ SaveAnswer(r)
       \/ GiveUp(r)
  \/ Midnight
  \/ RedisFails
  \/ RedisReturns
  \/ Upgrade

QuotaSpec == QuotaInit /\ [][QuotaNext]_quotaVars

-----------------------------------------------------------------------------
(* Properties *)

\* Every variable has its type.
QuotaTypeOK ==
  /\ counter \in 0 .. freeChatLimit + 1
  /\ redisUp \in BOOLEAN
  /\ thread \in [Thread -> {"absent", "live", "deleted"}]
  /\ said \in [Thread -> [today : Nat, open : Int]]
  /\ premium \in BOOLEAN
  /\ quotaPc \in [Sender -> {"idle", "reserve", "count", "question", "answer"}]
  /\ inThread \in [Sender -> Thread \union {NoThread}]
  /\ granted \in 0 .. freeChatLimit + 1
  /\ byRows \in BOOLEAN

\* ai_service.go:45, the counter "can't be reset by deleting threads, and the INCR is atomic
\* so parallel sends can't overshoot the cap": on a day Redis has answered every call.
CapHolds == ~byRows => granted \leq freeChatLimit

\* A live thread holds no more answers than questions, another holds nothing: no answer of
\* a call that was under way outlives its question.
AnswersFollowQuestions ==
  \A t \in Thread : /\ said[t].open \geq 0
                    /\ thread[t] # "live" => said[t] = Empty

\* When the counter in the app shows a message left, a call that is let through next is
\* not refused: GetUsage and SendMessage count alike.
UsageKeepsItsWord ==
  Used < freeChatLimit =>
    IF redisUp THEN counter < freeChatLimit ELSE CountUserMessagesToday < freeChatLimit

\* The budget of a day, as it is kept and as the app shows it.
BudgetHolds == CapHolds /\ UsageKeepsItsWord

=============================================================================
