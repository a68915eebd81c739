------------------------------- MODULE Otp -------------------------------
(***************************************************************************)
(* Email one-time codes: OTPService over the email_otps table.             *)
(*                                                                         *)
(* Every SQL statement commits by itself, so a handler is a sequence of    *)
(* atomic statements and the statements of concurrent handlers interleave. *)
(* pc[r] is the next statement of the handler that occupies slot r.        *)
(*                                                                         *)
(*   Request           RecentCountForEmail ; Insert (; the e-mail is sent) *)
(*   VerifyAndConsume  FindActive ; ReserveAttempt, compare ; Consume      *)
(*                                                                         *)
(* Rows are numbered in the order of created_at.  Hashes are abstracted to *)
(* the code they are the hash of: the comparison only tests equality.      *)
(***************************************************************************)
EXTENDS Integers, FiniteSets

CONSTANTS
  Email,          \* mailboxes (already lower-cased and trimmed)
  Purpose,        \* register, login, password_reset
  Code,           \* the six-digit codes
  Req,            \* handlers that may run at the same time
  MaxRows,        \* bound: rows ever inserted
  MaxAttempts,    \* otpMaxAttempts
  PerEmailMax     \* otpPerEmailMax

ASSUME OtpAssumption ==
  /\ MaxRows \in Nat
  /\ MaxAttempts \in Nat
  /\ PerEmailMax \in Nat \ {0}
  /\ IsFiniteSet(Req)
  /\ Email # {} /\ Purpose # {} /\ Code # {}

NoRow == 0
Row == 1..MaxRows

\* What a caller sends, and what a row holds: Request brings no code, Insert draws it.
Ask == [email : Email, purpose : Purpose, code : Code]
NoAsk == CHOOSE a \in Ask : TRUE

VARIABLES
  issued,       \* number of rows inserted so far
  otp,          \* otp[n]: email, purpose and code of row n
  attempts,     \* the attempts column
  consumed,     \* rows with consumed_at set
  expired,      \* rows with expires_at in the past
  aged,         \* rows that left the rate-limit window
  pc, ask, row, \* the handlers: next statement, request body, row read
  granted,      \* history: how often row n let a caller through
  last          \* history: the last verify answered, and the answer

table == <<issued, otp, attempts, consumed, expired, aged>>
handler == <<pc, ask, row>>
history == <<granted, last>>
vars == <<table, handler, history>>

-----------------------------------------------------------------------------
Init ==
  /\ issued = 0
  /\ otp = [n \in Row |-> NoAsk]
  /\ attempts = [n \in Row |-> 0]
  /\ consumed = {}
  /\ expired = {}
  /\ aged = {}
  /\ pc = [r \in Req |-> "idle"]
  /\ ask = [r \in Req |-> NoAsk]
  /\ row = [r \in Req |-> NoRow]
  /\ granted = [n \in Row |-> 0]
  /\ last = [ask |-> NoAsk, answer |-> "none"]

\* The rows RecentCountForEmail counts: every purpose, consumed or not.
Recent(e) == {n \in 1..issued : otp[n].email = e /\ n \notin aged}
RecentCountForEmail(e) == Cardinality(Recent(e))

\* FindActive filters on consumed_at alone: a row that is expired or out of
\* guesses is still the active one while it is the newest.
Unconsumed(a) ==
  {n \in 1..issued : /\ otp[n].email = a.email
                     /\ otp[n].purpose = a.purpose
                     /\ n \notin consumed}
IsActive(n, a) ==
  /\ n \in Unconsumed(a)
  /\ \A m \in Unconsumed(a) : m <= n

\* The handler in slot r starts on request a, and returns; its locals go with it.
Begin(r, a, next) ==
  /\ pc' = [pc EXCEPT ![r] = next]
  /\ ask' = [ask EXCEPT ![r] = a]

Return(r) ==
  /\ pc' = [pc EXCEPT ![r] = "idle"]
  /\ ask' = [ask EXCEPT ![r] = NoAsk]
  /\ row' = [row EXCEPT ![r] = NoRow]

Verdict(a, answer) == last' = [ask |-> a, answer |-> answer]

-----------------------------------------------------------------------------
(* Request *)

\* Faulty variant: the limit is tested one too late.
RequestCountOffByOne(r, e, p) ==
  /\ pc[r] = "idle"
  /\ RecentCountForEmail(e) <= PerEmailMax
  /\ Begin(r, [NoAsk EXCEPT !.email = e, !.purpose = p], "insert")
  /\ UNCHANGED <<table, row, history>>

\* The rate-limit check; a caller over the limit is refused and nothing changes.
\* The count is not held: nothing stops another handler from counting before this
\* one inserts.
RequestCount(r, e, p) ==
  /\ pc[r] = "idle"
  /\ RecentCountForEmail(e) < PerEmailMax
  /\ Begin(r, [NoAsk EXCEPT !.email = e, !.purpose = p], "insert")
  /\ UNCHANGED <<table, row, history>>

\* A failure to send the e-mail is logged and swallowed: the row stays.
RequestInsert(r, c) ==
  /\ pc[r] = "insert"
  /\ issued < MaxRows
  /\ issued' = issued + 1
  /\ otp' = [otp EXCEPT ![issued + 1] = [ask[r] EXCEPT !.code = c]]
  /\ Return(r)
  /\ UNCHANGED <<attempts, consumed, expired, aged, history>>

-----------------------------------------------------------------------------
(* VerifyAndConsume *)

\* Faulty variant: goes on when there is no row.
VerifyFindUnchecked(r, a) ==
  /\ pc[r] = "idle"
  /\ \E n \in Row \union {NoRow} :
       /\ Unconsumed(a) = {} => n = NoRow
       /\ Unconsumed(a) # {} => IsActive(n, a)
       /\ row' = [row EXCEPT ![r] = n]
  /\ Begin(r, a, "reserve")
  /\ UNCHANGED <<table, history>>

VerifyFind(r, a) ==
  /\ pc[r] = "idle"
  /\ \E n \in Unconsumed(a) :
       /\ IsActive(n, a)
       /\ row' = [row EXCEPT ![r] = n]
  /\ Begin(r, a, "reserve")
  /\ UNCHANGED <<table, history>>

VerifyFindsNone(r, a) ==
  /\ pc[r] = "idle"
  /\ Unconsumed(a) = {}
  /\ Verdict(a, "invalid")
  /\ UNCHANGED <<table, handler, granted>>

\* Faulty variant: the budget is not in the WHERE clause.
ReservableUncapped(n) == n \notin consumed /\ n \notin expired

\* The WHERE clause of the single UPDATE.
Reservable(n) ==
  /\ n \notin consumed
  /\ n \notin expired
  /\ attempts[n] < MaxAttempts

\* Spend a guess, then compare the hash the UPDATE returned.
VerifyReserve(r) ==
  LET n == row[r] IN
  /\ pc[r] = "reserve"
  /\ Reservable(n)
  /\ attempts' = [attempts EXCEPT ![n] = @ + 1]
  /\ IF otp[n].code = ask[r].code
       THEN /\ pc' = [pc EXCEPT ![r] = "consume"]
            /\ UNCHANGED <<ask, row, last>>
       ELSE /\ Return(r)
            /\ Verdict(ask[r], "invalid")
  /\ UNCHANGED <<issued, otp, consumed, expired, aged, granted>>

VerifyReserveFails(r) ==
  /\ pc[r] = "reserve"
  /\ ~Reservable(row[r])
  /\ Return(r)
  /\ Verdict(ask[r], "invalid")
  /\ UNCHANGED <<table, granted>>

\* Faulty variant: the UPDATE does not test consumed_at.
ConsumableTwice(n) == n \in 1..issued

\* UPDATE ... WHERE consumed_at IS NULL: the caller whose update hits the row wins.
Consumable(n) == n \notin consumed

VerifyConsume(r) ==
  LET n == row[r] IN
  /\ pc[r] = "consume"
  /\ Consumable(n)
  /\ consumed' = consumed \union {n}
  /\ granted' = [granted EXCEPT ![n] = @ + 1]
  /\ Return(r)
  /\ Verdict(ask[r], "granted")
  /\ UNCHANGED <<issued, otp, attempts, expired, aged>>

VerifyConsumeFails(r) ==
  /\ pc[r] = "consume"
  /\ ~Consumable(row[r])
  /\ Return(r)
  /\ Verdict(ask[r], "invalid")
  /\ UNCHANGED <<table, granted>>

-----------------------------------------------------------------------------
\* The handler stops between two statements: a database error, a cancelled
\* request, a crash of the process.  What it has written stays.
Abandon(r) ==
  /\ pc[r] # "idle"
  /\ Return(r)
  /\ UNCHANGED <<table, history>>

\* otpCodeTTL passes for row n.
Expire(n) ==
  /\ n \in 1..issued
  /\ n \notin expired
  /\ expired' = expired \union {n}
  /\ UNCHANGED <<issued, otp, attempts, consumed, aged, handler, history>>

\* otpPerEmailWindow passes for row n: rows leave in the order they came.
Age(n) ==
  /\ n \in 1..issued
  /\ n \notin aged
  /\ \A m \in 1..(n - 1) : m \in aged
  /\ aged' = aged \union {n}
  /\ UNCHANGED <<issued, otp, attempts, consumed, expired, handler, history>>

Next ==
  \/ \E r \in Req, e \in Email, p \in Purpose : RequestCount(r, e, p)
  \/ \E r \in Req, c \in Code : RequestInsert(r, c)
  \/ \E r \in Req, a \in Ask : VerifyFind(r, a)
  \/ \E r \in Req, a \in Ask : VerifyFindsNone(r, a)
  \/ \E r \in Req : VerifyReserve(r)
  \/ \E r \in Req : VerifyReserveFails(r)
  \/ \E r \in Req : VerifyConsume(r)
  \/ \E r \in Req : VerifyConsumeFails(r)
  \/ \E r \in Req : Abandon(r)
  \/ \E n \in Row : Expire(n)
  \/ \E n \in Row : Age(n)

Spec == Init /\ [][Next]_vars

-----------------------------------------------------------------------------
Verdicts == [ask : Ask, answer : {"none", "granted", "invalid"}]

TypeOK ==
  /\ issued \in 0..MaxRows
  /\ otp \in [Row -> Ask]
  /\ attempts \in [Row -> Nat]
  /\ consumed \in SUBSET (1..issued)
  /\ expired \in SUBSET (1..issued)
  /\ aged \in SUBSET (1..issued)
  /\ pc \in [Req -> {"idle", "insert", "reserve", "consume"}]
  /\ ask \in [Req -> Ask]
  /\ row \in [Req -> 0..MaxRows]
  /\ granted \in [Row -> Nat]
  /\ last \in Verdicts
  /\ \A r \in Req : pc[r] \in {"reserve", "consume"} => row[r] \in 1..issued

\* "single-use semantics - even a correct code can't be replayed within its TTL.
\* Only one concurrent caller can win": whatever the interleaving of verifies, a
\* code lets at most one caller through, and never before its row is consumed.
SingleUse ==
  \A n \in Row : granted[n] <= 1 /\ (granted[n] = 1 <=> n \in consumed)

\* "a burst of concurrent guesses can't all read attempts=0 and bypass the cap":
\* a row never has more guesses spent than its budget, and a caller who is about to
\* consume a row has paid for its own guess: k such callers have spent k guesses.
Paid(n) == {r \in Req : pc[r] = "consume" /\ row[r] = n}
GuessBudget ==
  \A n \in Row : /\ attempts[n] <= MaxAttempts
                 /\ Cardinality(Paid(n)) + granted[n] <= attempts[n]

\* The rate limit that check-then-insert really gives: handlers that have counted
\* and not yet inserted may each add a row, so a mailbox gets up to one row more
\* than the cap for every other handler that runs at the same time, never more.
Pending(e) == {r \in Req : pc[r] = "insert" /\ ask[r].email = e}
OvershootBounded ==
  \A e \in Email :
    RecentCountForEmail(e) + Cardinality(Pending(e)) <= PerEmailMax + Cardinality(Req) - 1

-----------------------------------------------------------------------------
\* "ErrOTPRateLimited is returned when the caller has requested too many codes for
\* the same email within the sliding window": never more than the cap in a window.
WindowCap == \A e \in Email : RecentCountForEmail(e) <= PerEmailMax

\* "This makes the endpoint idempotent so a double-tap on Verify doesn't 400": a
\* register request equal to one that went through is not answered "invalid code".
DoubleTapTolerated ==
  [][/\ last.answer = "granted"
     /\ last.ask.purpose = "register"
     /\ last'.ask = last.ask
     => last'.answer # "invalid"]_vars
=============================================================================
