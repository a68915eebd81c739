--------------------------- MODULE RequestLimits ---------------------------
(***************************************************************************)
(* The limits on requests (middleware/ratelimit.go, middleware/security.go *)
(* and their place in the router): a counter in Redis for each minute and  *)
(* user, or client address, and the paywall.                               *)
(*                                                                         *)
(* A request first asks whether its user pays, then counts itself, then is *)
(* served or refused; other requests, payments and the clock come between. *)
(* The expiry of a counter may fail: its minute is in its name, so that it *)
(* is never read again, and is left out.  Headers are left out too.        *)
(***************************************************************************)
EXTENDS Naturals, FiniteSets, FiniteSetsExt

CONSTANTS
  Request,      \* requests of one user
  freeLimit,    \* of a user who does not pay; of an address, the limit of its route
  premiumLimit, \* of one who does
  MaxMinute     \* bound: minutes

ASSUME LimitAssumption ==
  /\ IsFiniteSet(Request)
  /\ {freeLimit, premiumLimit, MaxMinute} \subseteq Nat

VARIABLES
  minute,
  payer,   \* the user pays
  count,     \* Redis: minute -> how often INCR was called
  limitOf,   \* the limit a request goes by
  stage,     \* "new", "tier", "served", "refused", "unlimited"
  countedIn  \* the minute a request was counted in

limitVars == <<minute, payer, count, limitOf, stage, countedIn>>

LimitInit ==
  /\ minute = 0
  /\ payer \in BOOLEAN
  /\ count = [m \in 0 .. MaxMinute |-> 0]
  /\ limitOf = [r \in Request |-> 0]
  /\ stage = [r \in Request |-> "new"]
  /\ countedIn = [r \in Request |-> 0]

\* The limit is picked, and the name of the counter is formed.
PickTier(r) ==
  /\ stage[r] = "new"
  /\ limitOf' = [limitOf EXCEPT ![r] = IF payer THEN premiumLimit ELSE freeLimit]
  /\ countedIn' = [countedIn EXCEPT ![r] = minute]
  /\ stage' = [stage EXCEPT ![r] = "tier"]
  /\ UNCHANGED <<minute, payer, count>>

\* Faulty variant: the request that reaches the limit is counted before it, and one
\* more passes.
ServedBelow(r) == count[countedIn[r]] <= limitOf[r]

\* INCR answers the count with this request in it.
Within(r) == count[countedIn[r]] + 1 <= limitOf[r]

Limit(r) ==
  /\ stage[r] = "tier"
  /\ count' = [count EXCEPT ![countedIn[r]] = @ + 1]
  /\ stage' = [stage EXCEPT ![r] = IF Within(r) THEN "served" ELSE "refused"]
  /\ UNCHANGED <<minute, payer, limitOf, countedIn>>

\* Redis fails: the request is let through.
FailOpen(r) ==
  /\ stage[r] = "tier"
  /\ stage' = [stage EXCEPT ![r] = "unlimited"]
  /\ UNCHANGED <<minute, payer, count, limitOf, countedIn>>

\* A payment, or the end of one.
TierChanges == payer' = ~ payer /\ UNCHANGED <<minute, count, limitOf, stage, countedIn>>

NextMinute ==
  /\ minute < MaxMinute
  /\ minute' = minute + 1
  /\ UNCHANGED <<payer, count, limitOf, stage, countedIn>>

LimitNext ==
  \/ \E r \in Request : PickTier(r) \/ Limit(r) \/ FailOpen(r)
  \/ TierChanges \/ NextMinute

LimitSpec == LimitInit /\ [][LimitNext]_limitVars

----------------------------------------------------------------------------
(* Properties. *)

ServedIn(m, limit) ==
  {r \in Request : stage[r] = "served" /\ countedIn[r] = m /\ limitOf[r] = limit}

\* Whatever comes between a request's steps: of the requests counted in a minute no
\* more are served by a limit than it allows, while Redis answers, and none is refused
\* unless as many as the free limit were counted before it.
LimitsHold ==
  \A m \in 0 .. MaxMinute :
    /\ \A limit \in {freeLimit, premiumLimit} : Cardinality(ServedIn(m, limit)) <= limit
    /\ (\E r \in Request : stage[r] = "refused" /\ countedIn[r] = m) =>
         count[m] > Min({freeLimit, premiumLimit})
============================================================================
