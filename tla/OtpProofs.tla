------------------------------ MODULE OtpProofs ------------------------------
(***************************************************************************)
(* What Otp guarantees for every number of mailboxes, codes, handlers and  *)
(* rows and for every value of the two limits.                             *)
(***************************************************************************)
EXTENDS Otp, FiniteSetTheorems, TLAPS

\* There is something a caller can send.
LEMMA NoAskIsAsk == NoAsk \in Ask
<1>1. PICK e \in Email, p \in Purpose, c \in Code : TRUE
  BY OtpAssumption
<1>2. [email |-> e, purpose |-> p, code |-> c] \in Ask
  BY DEF Ask
<1>3. QED
  BY <1>2 DEF NoAsk

\* What the handlers build out of a request is a request.
LEMMA AskUpdates ==
  ASSUME NEW a \in Ask, NEW e \in Email, NEW p \in Purpose, NEW c \in Code
  PROVE  /\ [a EXCEPT !.email = e, !.purpose = p] \in Ask
         /\ [a EXCEPT !.code = c] \in Ask
  BY DEF Ask

\* An answer is a verdict.
LEMMA VerdictType ==
  ASSUME NEW a \in Ask, NEW answer \in {"none", "granted", "invalid"}, Verdict(a, answer)
  PROVE  last' \in Verdicts
  BY DEF Verdict, Verdicts

HandlerTypes ==
  /\ pc \in [Req -> {"idle", "insert", "reserve", "consume"}]
  /\ ask \in [Req -> Ask]
  /\ row \in [Req -> 0..MaxRows]

\* Returning keeps the types of a handler's variables, and where the others are.
LEMMA ReturnType ==
  ASSUME HandlerTypes, NEW r \in Req, Return(r)
  PROVE  /\ HandlerTypes'
         /\ \A s \in Req : pc'[s] \in {"reserve", "consume"} => pc'[s] = pc[s] /\ row'[s] = row[s]
  BY OtpAssumption, NoAskIsAsk DEF HandlerTypes, Return, NoRow

-----------------------------------------------------------------------------
(* Types *)

\* The initial state is well typed.
LEMMA InitType == Init => TypeOK
  BY OtpAssumption, NoAskIsAsk DEF Init, TypeOK, Row, NoRow, Verdicts

\* Every step keeps the types.
LEMMA NextType == TypeOK /\ [Next]_vars => TypeOK'
<1> SUFFICES ASSUME TypeOK, [Next]_vars PROVE TypeOK'
  OBVIOUS
<1> USE OtpAssumption, NoAskIsAsk
    DEF TypeOK, Row, NoRow, table, handler, history
<1>0. HandlerTypes
  BY DEF HandlerTypes
<1>1. ASSUME NEW r \in Req, NEW e \in Email, NEW p \in Purpose, RequestCount(r, e, p) PROVE TypeOK'
  BY <1>1, AskUpdates DEF RequestCount, Begin
<1>2. ASSUME NEW r \in Req, NEW c \in Code, RequestInsert(r, c) PROVE TypeOK'
  <2>1. [ask[r] EXCEPT !.code = c] \in Ask
    BY AskUpdates
  <2>2. issued + 1 \in Row /\ issued' = issued + 1 /\ issued' \in 0..MaxRows
    BY <1>2 DEF RequestInsert
  <2>3. otp' \in [Row -> Ask]
    BY <1>2, <2>1, <2>2 DEF RequestInsert
  <2>4. 1..issued \subseteq 1..issued'
    BY <2>2
  <2>5. QED
    BY <1>0, <1>2, <2>2, <2>3, <2>4, ReturnType DEF RequestInsert, HandlerTypes
<1>3. ASSUME NEW r \in Req, NEW a \in Ask, VerifyFind(r, a) PROVE TypeOK'
  BY <1>3 DEF VerifyFind, Begin, IsActive, Unconsumed
<1>4. ASSUME NEW r \in Req, NEW a \in Ask, VerifyFindsNone(r, a) PROVE TypeOK'
  BY <1>4, VerdictType DEF VerifyFindsNone
<1>5. ASSUME NEW r \in Req, VerifyReserve(r) PROVE TypeOK'
  <2>1. attempts' \in [Row -> Nat]
    BY <1>5 DEF VerifyReserve
  <2>2. CASE otp[row[r]].code = ask[r].code
    BY <1>5, <2>1, <2>2 DEF VerifyReserve
  <2>3. CASE otp[row[r]].code # ask[r].code
    <3>1. last' \in Verdicts
      BY <1>5, <2>3, VerdictType DEF VerifyReserve
    <3>2. QED
      BY <1>0, <1>5, <2>1, <2>3, <3>1, ReturnType DEF VerifyReserve, HandlerTypes
  <2>4. QED
    BY <2>2, <2>3
<1>6. ASSUME NEW r \in Req, VerifyReserveFails(r) PROVE TypeOK'
  <2>1. last' \in Verdicts
    BY <1>6, VerdictType DEF VerifyReserveFails
  <2>2. QED
    BY <1>0, <1>6, <2>1, ReturnType DEF VerifyReserveFails, HandlerTypes
<1>7. ASSUME NEW r \in Req, VerifyConsume(r) PROVE TypeOK'
  <2>1. last' \in Verdicts
    BY <1>7, VerdictType DEF VerifyConsume
  <2>2. row[r] \in 1..issued
    BY <1>7 DEF VerifyConsume
  <2>3. granted' \in [Row -> Nat]
    BY <1>7, <2>2 DEF VerifyConsume
  <2>4. consumed' \in SUBSET (1..issued)
    BY <1>7, <2>2 DEF VerifyConsume
  <2>5. HandlerTypes' /\ issued' = issued
    BY <1>0, <1>7, ReturnType DEF VerifyConsume
  <2>6. \A s \in Req : pc'[s] \in {"reserve", "consume"} => row'[s] \in 1..issued'
    BY <1>0, <1>7, <2>5, ReturnType DEF VerifyConsume
  <2>7. QED
    BY <1>7, <2>1, <2>3, <2>4, <2>5, <2>6 DEF VerifyConsume, HandlerTypes
<1>8. ASSUME NEW r \in Req, VerifyConsumeFails(r) PROVE TypeOK'
  <2>1. last' \in Verdicts
    BY <1>8, VerdictType DEF VerifyConsumeFails
  <2>2. QED
    BY <1>0, <1>8, <2>1, ReturnType DEF VerifyConsumeFails, HandlerTypes
<1>9. ASSUME NEW r \in Req, Abandon(r) PROVE TypeOK'
  BY <1>0, <1>9, ReturnType DEF Abandon, HandlerTypes
<1>10. ASSUME NEW n \in Row, Expire(n) PROVE TypeOK'
  BY <1>10 DEF Expire
<1>11. ASSUME NEW n \in Row, Age(n) PROVE TypeOK'
  BY <1>11 DEF Age
<1>12. CASE UNCHANGED vars
  BY <1>12 DEF vars
<1>13. QED
  BY <1>1, <1>2, <1>3, <1>4, <1>5, <1>6, <1>7, <1>8, <1>9, <1>10, <1>11, <1>12 DEF Next

\* Every variable keeps its type: codes are drawn for rows that exist, and a handler
\* that verifies holds a row that exists.
THEOREM TypeCorrect == Spec => []TypeOK
  BY InitType, NextType, PTL DEF Spec

-----------------------------------------------------------------------------
(* How the steps move the sets that the invariants count *)

\* A handler that returns is not about to consume or to insert any more; the others
\* are where they were.
LEMMA ReturnSets ==
  ASSUME TypeOK, NEW r \in Req, Return(r)
  PROVE  /\ \A n \in Row : Paid(n)' = Paid(n) \ {r}
         /\ \A e \in Email : Pending(e)' = Pending(e) \ {r}
  BY DEF TypeOK, Return, Paid, Pending

\* Nor does a handler that starts pay for anything.
LEMMA BeginSets ==
  ASSUME TypeOK, NEW r \in Req, pc[r] = "idle", NEW a \in Ask, NEW next \in {"insert", "reserve"},
         Begin(r, a, next), \A s \in Req \ {r} : row'[s] = row[s]
  PROVE  /\ \A n \in Row : Paid(n)' = Paid(n)
         /\ \A e \in Email : Pending(e)' \subseteq Pending(e) \union {r}
         /\ next = "reserve" => \A e \in Email : Pending(e)' = Pending(e)
         /\ \A e \in Email : e # a.email => Pending(e)' = Pending(e)
  BY DEF TypeOK, Begin, Paid, Pending

\* The sets are finite, so that fewer members is a smaller count.
LEMMA CountHandlers ==
  ASSUME NEW S \in SUBSET Req, NEW T \in SUBSET Req
  PROVE  /\ Cardinality(S) \in Nat
         /\ S \subseteq T => Cardinality(S) <= Cardinality(T)
         /\ \A r \in Req : /\ Cardinality(S \union {r}) <= Cardinality(S) + 1
                           /\ r \in S => Cardinality(S \ {r}) = Cardinality(S) - 1
<1>1. IsFiniteSet(S) /\ IsFiniteSet(T)
  BY OtpAssumption, FS_Subset
<1>2. S \subseteq T => Cardinality(S) <= Cardinality(T)
  BY <1>1, FS_Subset
<1>3. ASSUME NEW r \in Req
      PROVE  /\ Cardinality(S \union {r}) <= Cardinality(S) + 1
             /\ r \in S => Cardinality(S \ {r}) = Cardinality(S) - 1
  <2>1. Cardinality(S) \in Nat
    BY <1>1, FS_CardinalityType
  <2>2. Cardinality(S \union {r}) = IF r \in S THEN Cardinality(S) ELSE Cardinality(S) + 1
    BY <1>1, FS_AddElement
  <2>3. Cardinality(S \ {r}) = IF r \in S THEN Cardinality(S) - 1 ELSE Cardinality(S)
    BY <1>1, FS_RemoveElement
  <2>4. QED
    BY <2>1, <2>2, <2>3
<1>4. QED
  BY <1>1, <1>2, <1>3, FS_CardinalityType

-----------------------------------------------------------------------------
(* Single use *)

\* Nobody has been let through at the start.
LEMMA InitSingleUse == Init => SingleUse
  BY DEF Init, SingleUse

\* Only the UPDATE that consumes a row lets a caller through, and it finds it unconsumed.
LEMMA NextSingleUse == TypeOK /\ SingleUse /\ [Next]_vars => SingleUse'
<1> SUFFICES ASSUME TypeOK, SingleUse, [Next]_vars PROVE SingleUse'
  OBVIOUS
<1>1. ASSUME NEW r \in Req, VerifyConsume(r) PROVE SingleUse'
  <2>1. row[r] \in Row /\ row[r] \notin consumed
    BY <1>1 DEF VerifyConsume, Consumable, TypeOK, Row
  <2>2. granted[row[r]] = 0
    BY <2>1 DEF SingleUse, TypeOK
  <2>3. QED
    BY <1>1, <2>1, <2>2 DEF VerifyConsume, SingleUse, TypeOK
<1>2. CASE UNCHANGED <<granted, consumed>>
  BY <1>2 DEF SingleUse
<1>3. QED
  BY <1>1, <1>2 DEF Next, vars, table, handler, history, RequestCount, RequestInsert, VerifyFind,
     VerifyFindsNone, VerifyReserve, VerifyReserveFails, VerifyConsumeFails, Abandon, Expire, Age

\* Whatever the interleaving of verifies, a code lets at most one caller through.
THEOREM CodesAreSingleUse == Spec => []SingleUse
<1>1. Spec => []TypeOK
  BY TypeCorrect
<1>2. QED
  BY <1>1, InitSingleUse, NextSingleUse, PTL DEF Spec

-----------------------------------------------------------------------------
(* The guess budget *)

\* No guess is spent at the start.
LEMMA InitGuessBudget == Init => GuessBudget
<1> SUFFICES ASSUME Init PROVE GuessBudget
  OBVIOUS
<1>1. \A n \in Row : Paid(n) = {}
  BY DEF Init, Paid
<1>2. QED
  BY <1>1, FS_EmptySet, OtpAssumption DEF Init, GuessBudget

\* A step that spends no guess, lets nobody through and makes nobody ready to.
LEMMA FewerPaid ==
  ASSUME TypeOK, GuessBudget, UNCHANGED <<attempts, granted>>,
         \A n \in Row : Paid(n)' \subseteq Paid(n)
  PROVE  GuessBudget'
<1> SUFFICES ASSUME NEW n \in Row
             PROVE  /\ attempts[n] <= MaxAttempts
                    /\ Cardinality(Paid(n)') + granted[n] <= attempts[n]
  BY DEF GuessBudget
<1>1. Paid(n) \in SUBSET Req /\ Paid(n)' \in SUBSET Req
  BY DEF Paid
<1>2. /\ Cardinality(Paid(n)') <= Cardinality(Paid(n))
      /\ Cardinality(Paid(n)') \in Nat
      /\ Cardinality(Paid(n)) \in Nat
  BY <1>1, CountHandlers
<1>3. attempts[n] \in Nat /\ granted[n] \in Nat
  BY DEF TypeOK
<1>4. QED
  BY <1>2, <1>3 DEF GuessBudget

\* Each statement of a verify keeps the guesses in balance.
LEMMA NextGuessBudget == TypeOK /\ GuessBudget /\ [Next]_vars => GuessBudget'
<1> SUFFICES ASSUME TypeOK, GuessBudget, [Next]_vars PROVE GuessBudget'
  OBVIOUS
<1> USE DEF table, handler, history
<1>1. ASSUME NEW r \in Req, NEW e \in Email, NEW p \in Purpose, RequestCount(r, e, p) PROVE GuessBudget'
  <2>1. [NoAsk EXCEPT !.email = e, !.purpose = p] \in Ask
    BY NoAskIsAsk, AskUpdates, OtpAssumption
  <2>2. QED
    BY <1>1, <2>1, BeginSets, FewerPaid DEF RequestCount
<1>2. ASSUME NEW r \in Req, NEW c \in Code, RequestInsert(r, c) PROVE GuessBudget'
  BY <1>2, ReturnSets, FewerPaid DEF RequestInsert
<1>3. ASSUME NEW r \in Req, NEW a \in Ask, VerifyFind(r, a) PROVE GuessBudget'
  <2>1. \A s \in Req \ {r} : row'[s] = row[s]
    BY <1>3 DEF VerifyFind, TypeOK
  <2>2. QED
    BY <1>3, <2>1, BeginSets, FewerPaid DEF VerifyFind
<1>4. ASSUME NEW r \in Req, VerifyReserve(r) PROVE GuessBudget'
  <2>0. PICK n \in Row : n = row[r]
    BY <1>4 DEF VerifyReserve, TypeOK, Row
  <2>1. attempts[n] \in Nat /\ attempts[n] < MaxAttempts
    BY <1>4, <2>0 DEF VerifyReserve, Reservable, TypeOK
  <2>2. attempts' = [attempts EXCEPT ![n] = @ + 1] /\ granted' = granted
    BY <1>4, <2>0 DEF VerifyReserve
  <2>3. Paid(n)' \subseteq Paid(n) \union {r} /\ \A m \in Row \ {n} : Paid(m)' \subseteq Paid(m)
    <3>1. CASE otp[n].code = ask[r].code
      <4>1. pc' = [pc EXCEPT ![r] = "consume"] /\ row' = row
        BY <1>4, <2>0, <3>1 DEF VerifyReserve
      <4>2. QED
        BY <2>0, <4>1 DEF Paid, TypeOK
    <3>2. CASE otp[n].code # ask[r].code
      <4>1. Return(r)
        BY <1>4, <2>0, <3>2 DEF VerifyReserve
      <4>2. \A m \in Row : Paid(m)' = Paid(m) \ {r}
        BY <4>1, ReturnSets
      <4>3. QED
        BY <4>2
    <3>3. QED
      BY <3>1, <3>2
  <2>4. SUFFICES ASSUME NEW m \in Row
                 PROVE  /\ attempts'[m] <= MaxAttempts
                        /\ Cardinality(Paid(m)') + granted[m] <= attempts'[m]
    BY <2>2 DEF GuessBudget
  <2>5. Paid(m) \in SUBSET Req /\ Paid(m)' \in SUBSET Req /\ Paid(m) \union {r} \in SUBSET Req
    BY DEF Paid
  <2>6. /\ Cardinality(Paid(m)) \in Nat
        /\ Cardinality(Paid(m)') \in Nat
        /\ Cardinality(Paid(m) \union {r}) \in Nat
        /\ Cardinality(Paid(m) \union {r}) <= Cardinality(Paid(m)) + 1
        /\ Paid(m)' \subseteq Paid(m) => Cardinality(Paid(m)') <= Cardinality(Paid(m))
    BY <2>5, CountHandlers
  <2>7. Paid(m)' \subseteq Paid(m) \union {r} => Cardinality(Paid(m)') <= Cardinality(Paid(m) \union {r})
    BY <2>5, CountHandlers
  <2>8. /\ attempts[m] \in Nat /\ granted[m] \in Nat /\ MaxAttempts \in Nat
        /\ attempts[m] <= MaxAttempts
        /\ Cardinality(Paid(m)) + granted[m] <= attempts[m]
    BY OtpAssumption DEF TypeOK, GuessBudget
  <2>9. attempts'[m] = IF m = n THEN attempts[m] + 1 ELSE attempts[m]
    BY <2>1, <2>2 DEF TypeOK
  <2>10. CASE m = n
    <3>1. attempts[m] < MaxAttempts /\ attempts'[m] = attempts[m] + 1
      BY <2>1, <2>9, <2>10
    <3>2. Paid(m)' \subseteq Paid(m) \union {r}
      BY <2>3, <2>10
    <3>3. QED
      BY <2>6, <2>7, <2>8, <3>1, <3>2
  <2>11. CASE m # n
    BY <2>3, <2>6, <2>8, <2>9, <2>11
  <2>12. QED
    BY <2>10, <2>11
<1>5. ASSUME NEW r \in Req, VerifyReserveFails(r) PROVE GuessBudget'
  BY <1>5, ReturnSets, FewerPaid DEF VerifyReserveFails
<1>6. ASSUME NEW r \in Req, VerifyConsume(r) PROVE GuessBudget'
  <2> DEFINE n == row[r]
  <2>1. n \in Row /\ r \in Paid(n)
    BY <1>6 DEF VerifyConsume, TypeOK, Row, Paid
  <2>2. attempts' = attempts /\ granted' = [granted EXCEPT ![n] = @ + 1]
    BY <1>6 DEF VerifyConsume
  <2>3. \A m \in Row : Paid(m)' = Paid(m) \ {r}
    BY <1>6, ReturnSets DEF VerifyConsume
  <2>4. SUFFICES ASSUME NEW m \in Row
                 PROVE  /\ attempts[m] <= MaxAttempts
                        /\ Cardinality(Paid(m) \ {r}) + granted'[m] <= attempts[m]
    BY <2>2, <2>3 DEF GuessBudget
  <2>5. Paid(m) \in SUBSET Req /\ Paid(m) \ {r} \in SUBSET Req
    BY DEF Paid
  <2>6. /\ Cardinality(Paid(m)) \in Nat
        /\ Cardinality(Paid(m) \ {r}) \in Nat
        /\ Cardinality(Paid(m) \ {r}) <= Cardinality(Paid(m))
        /\ r \in Paid(m) => Cardinality(Paid(m) \ {r}) = Cardinality(Paid(m)) - 1
    BY <2>5, CountHandlers
  <2>7. /\ attempts[m] \in Nat /\ granted[m] \in Nat
        /\ attempts[m] <= MaxAttempts
        /\ Cardinality(Paid(m)) + granted[m] <= attempts[m]
    BY DEF TypeOK, GuessBudget
  <2>8. granted'[m] = IF m = n THEN granted[m] + 1 ELSE granted[m]
    BY <2>1, <2>2 DEF TypeOK
  <2> HIDE DEF n
  <2>9. CASE m = n
    BY <2>1, <2>6, <2>7, <2>8, <2>9
  <2>10. CASE m # n
    BY <2>6, <2>7, <2>8, <2>10
  <2>11. QED
    BY <2>9, <2>10
<1>7. ASSUME NEW r \in Req, VerifyConsumeFails(r) PROVE GuessBudget'
  BY <1>7, ReturnSets, FewerPaid DEF VerifyConsumeFails
<1>8. ASSUME NEW r \in Req, Abandon(r) PROVE GuessBudget'
  BY <1>8, ReturnSets, FewerPaid DEF Abandon
<1>9. ASSUME UNCHANGED <<attempts, granted, pc, row>> PROVE GuessBudget'
  BY <1>9, FewerPaid DEF Paid
<1>10. QED
  BY <1>1, <1>2, <1>3, <1>4, <1>5, <1>6, <1>7, <1>8, <1>9
     DEF Next, vars, VerifyFindsNone, Expire, Age

\* A row never has more guesses spent than its budget, and whoever is about to consume
\* it has paid for its own guess.
THEOREM GuessesAreBudgeted == Spec => []GuessBudget
<1>1. Spec => []TypeOK
  BY TypeCorrect
<1>2. QED
  BY <1>1, InitGuessBudget, NextGuessBudget, PTL DEF Spec

-----------------------------------------------------------------------------
(* The rate limit *)

\* The counts of the rate limit are numbers, and fewer rows or handlers count for less.
LEMMA CountRecent ==
  ASSUME TypeOK, NEW e \in Email
  PROVE  /\ IsFiniteSet(Recent(e))
         /\ Cardinality(Recent(e)) \in Nat
         /\ \A S \in SUBSET Recent(e) : Cardinality(S) \in Nat /\ Cardinality(S) <= Cardinality(Recent(e))
<1>1. IsFiniteSet(1..issued)
  BY FS_Interval DEF TypeOK
<1>2. IsFiniteSet(Recent(e))
  BY <1>1, FS_Subset DEF Recent
<1>3. QED
  BY <1>2, FS_Subset, FS_CardinalityType

\* No row is counted at the start.
LEMMA InitOvershootBounded == Init => OvershootBounded
<1> SUFFICES ASSUME Init, NEW e \in Email
             PROVE  Cardinality(Recent(e)) + Cardinality(Pending(e))
                      <= PerEmailMax + Cardinality(Req) - 1
  BY DEF OvershootBounded, RecentCountForEmail
<1>1. Recent(e) = {} /\ Pending(e) = {}
  BY DEF Init, Recent, Pending
<1>2. Cardinality(Req) \in Nat /\ PerEmailMax \in Nat \ {0}
  BY OtpAssumption, FS_CardinalityType
<1>3. QED
  BY <1>1, <1>2, FS_EmptySet

\* A step that neither adds a row to the window of e nor lets a handler past its limit.
LEMMA FewerRecent ==
  ASSUME TypeOK, OvershootBounded, NEW e \in Email,
         Recent(e)' \subseteq Recent(e), Pending(e)' \subseteq Pending(e)
  PROVE  Cardinality(Recent(e)') + Cardinality(Pending(e)') <= PerEmailMax + Cardinality(Req) - 1
<1>1. /\ Cardinality(Recent(e)') \in Nat
      /\ Cardinality(Recent(e)) \in Nat
      /\ Cardinality(Recent(e)') <= Cardinality(Recent(e))
  BY CountRecent
<1>2. Pending(e) \in SUBSET Req /\ Pending(e)' \in SUBSET Req
  BY DEF Pending
<1>3. /\ Cardinality(Pending(e)') \in Nat
      /\ Cardinality(Pending(e)) \in Nat
      /\ Cardinality(Pending(e)') <= Cardinality(Pending(e))
  BY <1>2, CountHandlers
<1>4. Cardinality(Req) \in Nat /\ PerEmailMax \in Nat
  BY OtpAssumption, FS_CardinalityType
<1>5. Cardinality(Recent(e)) + Cardinality(Pending(e)) <= PerEmailMax + Cardinality(Req) - 1
  BY DEF OvershootBounded, RecentCountForEmail
<1>6. QED
  BY <1>1, <1>3, <1>4, <1>5

\* The count leaves room for this handler, and the others are at most all of them.
LEMMA CountedInTime ==
  ASSUME TypeOK, NEW e \in Email, NEW S \in SUBSET Req, RecentCountForEmail(e) < PerEmailMax
  PROVE  Cardinality(Recent(e)) + Cardinality(S) <= PerEmailMax + Cardinality(Req) - 1
<1>1. Cardinality(S) <= Cardinality(Req) /\ Cardinality(S) \in Nat /\ Cardinality(Req) \in Nat
  BY CountHandlers, OtpAssumption, FS_CardinalityType
<1>2. Cardinality(Recent(e)) \in Nat
  BY CountRecent
<1>3. Cardinality(Recent(e)) < PerEmailMax /\ PerEmailMax \in Nat
  BY OtpAssumption DEF RecentCountForEmail
<1>4. QED
  BY <1>1, <1>2, <1>3

\* A row takes the place of the handler that had counted for it.
LEMMA InsertKeepsCount ==
  ASSUME TypeOK, OvershootBounded, NEW r \in Req, NEW c \in Code, RequestInsert(r, c), NEW e \in Email
  PROVE  Cardinality(Recent(e)') + Cardinality(Pending(e)') <= PerEmailMax + Cardinality(Req) - 1
<1>1. /\ issued \in Nat /\ issued + 1 \in Row /\ issued' = issued + 1 /\ aged' = aged
      /\ 1..(issued + 1) = (1..issued) \union {issued + 1}
      /\ \A m \in 1..issued : m \in Row /\ m # issued + 1
  BY OtpAssumption DEF RequestInsert, TypeOK, Row
<1>2. /\ \A m \in 1..issued : otp'[m] = otp[m]
      /\ otp'[issued + 1] = [ask[r] EXCEPT !.code = c]
  BY <1>1 DEF RequestInsert, TypeOK
<1>3. otp'[issued + 1].email = ask[r].email
  <2>1. ask[r] \in Ask
    BY DEF TypeOK
  <2>2. [ask[r] EXCEPT !.code = c].email = ask[r].email
    BY <2>1 DEF Ask
  <2>3. QED
    BY <1>2, <2>2
<1>4. Pending(e)' = Pending(e) \ {r}
  BY ReturnSets DEF RequestInsert
<1>5. CASE ask[r].email = e
  <2>1. Recent(e)' \subseteq Recent(e) \union {issued + 1}
    BY <1>1, <1>2 DEF Recent
  <2>2. r \in Pending(e) /\ Pending(e) \in SUBSET Req
    BY <1>5 DEF Pending, RequestInsert
  <2>3. /\ Cardinality(Pending(e) \ {r}) = Cardinality(Pending(e)) - 1
        /\ Cardinality(Pending(e)) \in Nat
    BY <2>2, CountHandlers
  <2>4. IsFiniteSet(Recent(e)) /\ Cardinality(Recent(e)) \in Nat
    BY CountRecent
  <2>5. /\ IsFiniteSet(Recent(e) \union {issued + 1})
        /\ Cardinality(Recent(e) \union {issued + 1}) <= Cardinality(Recent(e)) + 1
        /\ Cardinality(Recent(e) \union {issued + 1}) \in Nat
    <3>1. /\ IsFiniteSet(Recent(e) \union {issued + 1})
          /\ Cardinality(Recent(e) \union {issued + 1}) =
               IF issued + 1 \in Recent(e) THEN Cardinality(Recent(e)) ELSE Cardinality(Recent(e)) + 1
      BY <2>4, FS_AddElement
    <3>2. QED
      BY <2>4, <3>1
  <2>6. /\ Cardinality(Recent(e)') <= Cardinality(Recent(e) \union {issued + 1})
        /\ IsFiniteSet(Recent(e)')
    BY <2>1, <2>5, FS_Subset
  <2>7. Cardinality(Recent(e)') \in Nat
    BY <2>6, FS_CardinalityType
  <2>8. Cardinality(Recent(e)) + Cardinality(Pending(e)) <= PerEmailMax + Cardinality(Req) - 1
    BY DEF OvershootBounded, RecentCountForEmail
  <2>9. Cardinality(Req) \in Nat /\ PerEmailMax \in Nat
    BY OtpAssumption, FS_CardinalityType
  <2>10. QED
    BY <1>4, <2>3, <2>4, <2>5, <2>6, <2>7, <2>8, <2>9
<1>6. CASE ask[r].email # e
  <2>1. Recent(e)' \subseteq Recent(e)
    BY <1>1, <1>2, <1>3, <1>6 DEF Recent
  <2>2. QED
    BY <1>4, <2>1, FewerRecent
<1>7. QED
  BY <1>5, <1>6

\* Counting starts below the cap, inserting trades a handler for a row.
LEMMA NextOvershootBounded == TypeOK /\ OvershootBounded /\ [Next]_vars => OvershootBounded'
<1> SUFFICES ASSUME TypeOK, OvershootBounded, [Next]_vars, NEW e \in Email
             PROVE  Cardinality(Recent(e)') + Cardinality(Pending(e)')
                      <= PerEmailMax + Cardinality(Req) - 1
  BY DEF OvershootBounded, RecentCountForEmail
<1> USE DEF table, handler, history
<1>1. ASSUME NEW r \in Req, NEW d \in Email, NEW p \in Purpose, RequestCount(r, d, p)
      PROVE  Cardinality(Recent(e)') + Cardinality(Pending(e)') <= PerEmailMax + Cardinality(Req) - 1
  <2> DEFINE a == [NoAsk EXCEPT !.email = d, !.purpose = p]
  <2>1. a \in Ask /\ a.email = d
    BY NoAskIsAsk, AskUpdates DEF Ask
  <2>2. Recent(e)' = Recent(e)
    BY <1>1 DEF RequestCount, Recent
  <2>3. CASE d = e
    <3>1. Pending(e)' \in SUBSET Req
      BY DEF Pending
    <3>2. RecentCountForEmail(e) < PerEmailMax
      BY <1>1, <2>3 DEF RequestCount
    <3>3. QED
      BY <2>2, <3>1, <3>2, CountedInTime
  <2>4. CASE d # e
    <3>1. Pending(e)' = Pending(e)
      BY <1>1, <2>1, <2>4, BeginSets DEF RequestCount
    <3>2. QED
      BY <2>2, <3>1, FewerRecent
  <2>5. QED
    BY <2>3, <2>4
<1>2. ASSUME NEW r \in Req, NEW c \in Code, RequestInsert(r, c)
      PROVE  Cardinality(Recent(e)') + Cardinality(Pending(e)') <= PerEmailMax + Cardinality(Req) - 1
  BY <1>2, InsertKeepsCount
<1>3. ASSUME NEW r \in Req, Return(r), UNCHANGED <<issued, otp, aged>>
      PROVE  Recent(e)' \subseteq Recent(e) /\ Pending(e)' \subseteq Pending(e)
  BY <1>3, ReturnSets DEF Recent
<1>4. ASSUME NEW r \in Req, NEW a \in Ask, VerifyFind(r, a)
      PROVE  Recent(e)' \subseteq Recent(e) /\ Pending(e)' \subseteq Pending(e)
  <2>1. \A s \in Req \ {r} : row'[s] = row[s]
    BY <1>4 DEF VerifyFind, TypeOK
  <2>2. Pending(e)' = Pending(e)
    BY <1>4, <2>1, BeginSets DEF VerifyFind
  <2>3. QED
    BY <1>4, <2>2 DEF VerifyFind, Recent
<1>5. ASSUME NEW r \in Req, VerifyReserve(r)
      PROVE  Recent(e)' \subseteq Recent(e) /\ Pending(e)' \subseteq Pending(e)
  <2>1. CASE otp[row[r]].code = ask[r].code
    BY <1>5, <2>1 DEF VerifyReserve, Recent, Pending, TypeOK
  <2>2. CASE otp[row[r]].code # ask[r].code
    BY <1>3, <1>5, <2>2 DEF VerifyReserve
  <2>3. QED
    BY <2>1, <2>2
<1>6. ASSUME NEW r \in Req, VerifyReserveFails(r) \/ VerifyConsume(r) \/ VerifyConsumeFails(r) \/ Abandon(r)
      PROVE  Recent(e)' \subseteq Recent(e) /\ Pending(e)' \subseteq Pending(e)
  BY <1>3, <1>6 DEF VerifyReserveFails, VerifyConsume, VerifyConsumeFails, Abandon
<1>7. ASSUME UNCHANGED <<issued, otp, pc, ask>>, aged \subseteq aged'
      PROVE  Recent(e)' \subseteq Recent(e) /\ Pending(e)' \subseteq Pending(e)
  BY <1>7 DEF Recent, Pending
<1>8. QED
  BY <1>1, <1>2, <1>4, <1>5, <1>6, <1>7, FewerRecent DEF Next, vars, VerifyFindsNone, Expire, Age

\* A mailbox gets at most one row more than the cap for every other handler that runs at
\* the same time.
THEOREM OvershootIsBounded == Spec => []OvershootBounded
<1>1. Spec => []TypeOK
  BY TypeCorrect
<1>2. QED
  BY <1>1, InitOvershootBounded, NextOvershootBounded, PTL DEF Spec
=============================================================================
