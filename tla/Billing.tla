------------------------------ MODULE Billing ------------------------------
(***************************************************************************)
(* Subscriptions: StripeService and SubscriptionService over the           *)
(* subscriptions table, one row per account, with Stripe and RevenueCat    *)
(* as the environment.                                                     *)
(*                                                                         *)
(* Stripe's subscription events carry the state they were made in, its     *)
(* invoice events only name the subscription, whose state the handler asks *)
(* for.  An event is delivered until it is acknowledged, in any order, and *)
(* possibly again.  billingPc[r] is the next step of the handler in r:     *)
(*                                                                         *)
(*   Subscribe  GetByUserID ; Stripe: customer, subscription ; Upsert      *)
(*   webhook    (Stripe: get subscription ;) UpdateFromStripe ;            *)
(*                GetByStripeCustomer ; Upsert                             *)
(*                                                                         *)
(* Time is counted in billing periods.  Prices, plans and the ephemeral    *)
(* key are data.                                                           *)
(***************************************************************************)
EXTENDS Integers, FiniteSets

CONSTANTS
  Account,
  Legacy,     \* accounts that bought Premium in the time of RevenueCat
  Sub,        \* Stripe subscriptions, those of the future included
  Customer,   \* Stripe customers, those of the future included
  Slot,       \* handlers that may run at the same time
  MaxTime,    \* bound: billing periods
  MaxEvents,  \* bound: events Stripe has not seen acknowledged
  Nil

VARIABLES
  now,
  holder,     \* Stripe: the account a customer was made for
  stripe,     \* Stripe: [cust, status, ending, end, version] of a subscription
  events,     \* events not yet acknowledged: [sub, seen], seen Nil for an invoice
  subscription, \* subscriptions: [rc, cust, sub, status, end], or Nil
  store,      \* the app stores: period an account has paid by RevenueCat
  offered,    \* subscriptions whose client secret has reached the app
  applied,    \* history: version of the newest state of a subscription applied
  apart,      \* history: accounts whose row need not be what Stripe has
  billingPc, acct,   \* the handlers: next step, account
  old,        \*   what they keep of the row they read
  event, snap \*   the event they serve, and the state of a subscription they apply

billed == <<holder, stripe, events, store, offered>>
hist == <<applied, apart>>
task == <<billingPc, acct, old, event, snap>>
billingVars == <<now, billed, subscription, hist, task>>

Status == {"none", "incomplete", "incomplete_expired", "active", "past_due", "canceled"}
StateType == [cust : Customer \union {Nil}, status : Status, ending : BOOLEAN,
              end : 0 .. MaxTime + 1, version : Nat]
RowType == [rc : BOOLEAN, cust : Customer \union {Nil}, sub : Sub \union {Nil},
            status : {"active", "expired", "cancelled"}, end : 0 .. MaxTime + 1]
EventType == [sub : Sub, seen : StateType \union {Nil}]
KeptType == [rc : BOOLEAN, cust : Customer \union {Nil}]

ASSUME BillingAssumption ==
  /\ Legacy \subseteq Account
  /\ MaxTime \in Nat
  /\ Nil \notin Account \union Sub \union Customer
  /\ Nil \notin StateType \union RowType \union EventType \union KeptType

-----------------------------------------------------------------------------
\* No Stripe subscription yet.
BillingInit ==
  /\ now = 0
  /\ holder = [c \in Customer |-> Nil]
  /\ stripe = [s \in Sub |-> [cust |-> Nil, status |-> "none", ending |-> FALSE,
                              end |-> 0, version |-> 0]]
  /\ events = {}
  /\ store = [a \in Account |-> IF a \in Legacy THEN 1 ELSE 0]
  /\ subscription = [a \in Account |->
       IF a \notin Legacy THEN Nil
       ELSE [rc |-> TRUE, cust |-> Nil, sub |-> Nil, status |-> "active", end |-> 1]]
  /\ offered = {}
  /\ applied = [s \in Sub |-> 0]
  /\ apart = [a \in Account |-> a \in Legacy]
  /\ billingPc = [r \in Slot |-> "idle"]
  /\ acct = [r \in Slot |-> Nil]
  /\ old = [r \in Slot |-> Nil]
  /\ event = [r \in Slot |-> Nil]
  /\ snap = [r \in Slot |-> Nil]

HolderOf(s) == IF stripe[s].cust = Nil THEN Nil ELSE holder[stripe[s].cust]

\* Over at Stripe, and no event or handler of it left.
Settled(s) ==
  /\ stripe[s].status \in {"canceled", "incomplete_expired"}
  /\ \A e \in events : e.sub # s
  /\ \A r \in Slot : snap[r] = Nil \/ snap[r].sub # s

\* Faulty variant: an incomplete subscription counts as a trial.
MapStatusLenient(s) ==
  CASE s \in {"active", "incomplete"} -> "active"
    [] s = "canceled" -> "cancelled"
    [] OTHER -> "expired"

mapStripeStatus(s) ==
  CASE s = "active" -> "active"
    [] s = "canceled" -> "cancelled"
    [] OTHER -> "expired"

\* Faulty variant: an incomplete subscription's row opens the period to be paid.
WithStateUnmapped(kept, s, seen) ==
  [rc |-> kept.rc, cust |-> kept.cust, sub |-> s, status |-> "active", end |-> seen.end]

\* The row of subscription s in the state seen.
WithState(kept, s, seen) ==
  [rc |-> kept.rc, cust |-> kept.cust, sub |-> s,
   status |-> mapStripeStatus(seen.status), end |-> seen.end]

IsExpired(a) == now >= subscription[a].end
IsPremium(a) == subscription[a] # Nil /\ subscription[a].status = "active" /\ ~IsExpired(a)

\* What a handler keeps of a row it read: the rest it overwrites.
Kept(a) ==
  IF subscription[a] = Nil THEN Nil
  ELSE [rc |-> subscription[a].rc, cust |-> subscription[a].cust]

GoOn(r, next) == billingPc' = [billingPc EXCEPT ![r] = next]

Leave(r) ==
  /\ GoOn(r, "idle")
  /\ acct' = [acct EXCEPT ![r] = Nil]
  /\ old' = [old EXCEPT ![r] = Nil]
  /\ event' = [event EXCEPT ![r] = Nil]
  /\ snap' = [snap EXCEPT ![r] = Nil]

\* The state applied may be older than one applied before.
Note(s, version) ==
  /\ apart' = [apart EXCEPT ![HolderOf(s)] = @ \/ version < applied[s]]
  /\ applied' = [applied EXCEPT ![s] = IF apart'[HolderOf(s)] THEN @ ELSE version]

-----------------------------------------------------------------------------
(* Stripe *)

\* A state of s that Stripe announces, with an event that carries it, and one of the
\* invoice that came with it if there is one.
Change(s, state, invoices) ==
  LET seen == [state EXCEPT !.version = @ + 1] IN
  /\ stripe' = [stripe EXCEPT ![s] = seen]
  /\ events' = events \union {[sub |-> s, seen |-> seen]}
                      \union {[sub |-> s, seen |-> Nil] : i \in invoices}
  /\ Cardinality(events') \leq MaxEvents

\* The app's payment sheet confirms the first charge.
Pay(s) ==
  /\ s \in offered
  /\ stripe[s].status = "incomplete"
  /\ Change(s, [stripe[s] EXCEPT !.status = "active", !.end = now + 1], {1})
  /\ UNCHANGED <<now, holder, store, offered, subscription, hist, task>>

\* The sheet was closed: Stripe drops the attempt after a day.
Lapse(s) ==
  /\ stripe[s].status = "incomplete"
  /\ Change(s, [stripe[s] EXCEPT !.status = "incomplete_expired"], {})
  /\ UNCHANGED <<now, holder, store, offered, subscription, hist, task>>

\* The end of a period: renewed, not paid, or over as asked.
Renew(s) ==
  /\ stripe[s].status = "active"
  /\ stripe[s].end = now
  /\ IF stripe[s].ending
       THEN Change(s, [stripe[s] EXCEPT !.status = "canceled"], {})
       ELSE \/ Change(s, [stripe[s] EXCEPT !.end = now + 1], {1})
            \/ Change(s, [stripe[s] EXCEPT !.status = "past_due"], {1})
  /\ UNCHANGED <<now, holder, store, offered, subscription, hist, task>>

Tick ==
  /\ now < MaxTime
  /\ \A s \in Sub : stripe[s].status = "active" => stripe[s].end > now
  /\ now' = now + 1
  /\ UNCHANGED <<billed, subscription, hist, task>>

-----------------------------------------------------------------------------
(* StripeService.Subscribe, Cancel *)

Subscribe(r, a) ==
  /\ billingPc[r] = "idle"
  /\ GoOn(r, "new_subscription")
  /\ acct' = [acct EXCEPT ![r] = a]
  /\ old' = [old EXCEPT ![r] = Kept(a)]
  /\ UNCHANGED <<now, billed, subscription, hist, event, snap>>

\* A customer if the row read has none, and an incomplete subscription of it.
NewSubscription(r) ==
  LET a == acct[r] IN
  /\ billingPc[r] = "new_subscription"
  /\ \E s \in Sub, c \in Customer :
       /\ stripe[s].status = "none"
       /\ IF old[r] # Nil /\ old[r].cust # Nil THEN c = old[r].cust ELSE holder[c] = Nil
       /\ holder' = [holder EXCEPT ![c] = a]
       /\ Change(s, [stripe[s] EXCEPT !.cust = c, !.status = "incomplete", !.end = now + 1], {})
       /\ apart' = IF \E t \in Sub : HolderOf(t) = a /\ ~Settled(t)
                      THEN [apart EXCEPT ![a] = TRUE] ELSE apart
       /\ snap' = [snap EXCEPT ![r] = [sub |-> s, seen |-> stripe'[s]]]
  /\ GoOn(r, "stash")
  /\ UNCHANGED <<now, subscription, applied, store, offered, acct, old, event>>

\* Upsert of what the handler knows; then the secret goes to the app, which need not use it
\* (nor receive it: the ephemeral key may fail).
Stash(r) ==
  LET a == acct[r]
      s == snap[r].sub
      seen == snap[r].seen
  IN
  /\ billingPc[r] = "stash"
  /\ subscription' = [subscription EXCEPT ![a] =
       WithState([rc |-> old[r] # Nil /\ old[r].rc, cust |-> seen.cust], s, seen)]
  /\ offered' = offered \union {s}
  /\ Note(s, seen.version)
  /\ Leave(r)
  /\ UNCHANGED <<now, holder, stripe, events, store>>

\* Faulty variant: the subscription is cancelled at once.
CancelNow(a) ==
  /\ subscription[a] # Nil /\ subscription[a].sub # Nil
  /\ stripe[subscription[a].sub].status = "active"
  /\ Change(subscription[a].sub, [stripe[subscription[a].sub] EXCEPT !.status = "canceled"], {})
  /\ UNCHANGED <<now, holder, store, offered, subscription, hist, task>>

\* cancel_at_period_end of the subscription in the row.
Cancel(a) ==
  /\ subscription[a] # Nil /\ subscription[a].sub # Nil
  /\ stripe[subscription[a].sub].status = "active"
  /\ ~stripe[subscription[a].sub].ending
  /\ Change(subscription[a].sub, [stripe[subscription[a].sub] EXCEPT !.ending = TRUE], {})
  /\ UNCHANGED <<now, holder, store, offered, subscription, hist, task>>

-----------------------------------------------------------------------------
(* StripeService.HandleStripeWebhook *)

Deliver(r, e) ==
  /\ billingPc[r] = "idle"
  /\ e \in events
  /\ event' = [event EXCEPT ![r] = e]
  /\ snap' = [snap EXCEPT ![r] = e]
  /\ GoOn(r, IF e.seen = Nil THEN "fetch" ELSE "update")
  /\ UNCHANGED <<now, billed, subscription, hist, acct, old>>

\* The state of the moment, for an invoice event.
Fetch(r) ==
  /\ billingPc[r] = "fetch"
  /\ snap' = [snap EXCEPT ![r].seen = stripe[event[r].sub]]
  /\ GoOn(r, "update")
  /\ UNCHANGED <<now, billed, subscription, hist, acct, old, event>>

\* The answer 200 may be lost: then Stripe sends the event again.
Acknowledge(r) ==
  /\ events' \in {events, events \ {event[r]}}
  /\ Leave(r)
  /\ UNCHANGED <<now, holder, stripe, store, offered>>

Carries(a, s) == subscription[a] # Nil /\ subscription[a].sub = s

UpdateFromStripe(r) ==
  LET s == snap[r].sub
      seen == snap[r].seen
      carriers == {a \in Account : Carries(a, s)}
  IN
  /\ billingPc[r] = "update"
  /\ IF carriers # {}
       THEN /\ subscription' = [a \in Account |->
                 IF a \in carriers THEN WithState(Kept(a), s, seen) ELSE subscription[a]]
            /\ Note(s, seen.version)
            /\ Acknowledge(r)
       ELSE /\ GoOn(r, "find_customer")
            /\ UNCHANGED <<now, billed, subscription, hist, acct, old, event, snap>>

\* No row for the customer: the event is acknowledged and dropped.
GetByStripeCustomer(r) ==
  LET found == {a \in Account : /\ subscription[a] # Nil
                                /\ subscription[a].cust = snap[r].seen.cust}
  IN
  /\ billingPc[r] = "find_customer"
  /\ IF found = {}
       THEN Acknowledge(r)
       ELSE /\ \E a \in found :
                 /\ acct' = [acct EXCEPT ![r] = a]
                 /\ old' = [old EXCEPT ![r] = Kept(a)]
            /\ GoOn(r, "relink")
            /\ UNCHANGED <<now, billed, event, snap>>
  /\ UNCHANGED <<subscription, hist>>

\* The row read before, with the event's subscription and state in it.
RelinkCustomer(r) ==
  LET s == snap[r].sub
      seen == snap[r].seen
  IN
  /\ billingPc[r] = "relink"
  /\ subscription' = [subscription EXCEPT ![acct[r]] = WithState(old[r], s, seen)]
  /\ Note(s, seen.version)
  /\ Acknowledge(r)

\* An error, or the process is lost: Stripe sends the event again.
AbandonCall(r) ==
  /\ billingPc[r] # "idle"
  /\ Leave(r)
  /\ UNCHANGED <<now, billed, subscription, hist>>

-----------------------------------------------------------------------------
(* SubscriptionService.HandleWebhook: RevenueCat, for rows from its time *)

RevenueCat(a, status, end) ==
  /\ subscription[a] # Nil /\ subscription[a].rc
  /\ subscription' = [subscription EXCEPT ![a].status = status, ![a].end = end]
  /\ UNCHANGED <<now, holder, stripe, events, offered, hist, task>>

\* INITIAL_PURCHASE, RENEWAL, PRODUCT_CHANGE
RevenueCatRenewal(a) ==
  /\ RevenueCat(a, "active", now + 1)
  /\ store' = [store EXCEPT ![a] = now + 1]

RevenueCatCancellation(a) == RevenueCat(a, "cancelled", store[a]) /\ UNCHANGED store

RevenueCatExpiration(a) ==
  /\ store[a] \leq now
  /\ RevenueCat(a, "expired", store[a])
  /\ UNCHANGED store

-----------------------------------------------------------------------------
BillingNext ==
  \/ Tick
  \/ \E s \in Sub : Pay(s) \/ Lapse(s) \/ Renew(s)
  \/ \E a \in Account : \/ Cancel(a)
                        \/ RevenueCatRenewal(a)
                        \/ RevenueCatCancellation(a)
                        \/ RevenueCatExpiration(a)
  \/ \E r \in Slot :
       \/ \E a \in Account : Subscribe(r, a)
       \/ NewSubscription(r)
       \/ Stash(r)
       \/ \E e \in events : Deliver(r, e)
       \/ Fetch(r)
       \/ UpdateFromStripe(r)
       \/ GetByStripeCustomer(r)
       \/ RelinkCustomer(r)
       \/ AbandonCall(r)

BillingSpec == BillingInit /\ [][BillingNext]_billingVars

-----------------------------------------------------------------------------
(* Properties *)

\* Every variable has its type.
BillingTypeOK ==
  /\ now \in 0 .. MaxTime
  /\ holder \in [Customer -> Account \union {Nil}]
  /\ stripe \in [Sub -> StateType]
  /\ events \subseteq EventType
  /\ subscription \in [Account -> RowType \union {Nil}]
  /\ store \in [Account -> 0 .. MaxTime + 1]
  /\ offered \subseteq Sub
  /\ billingPc \in [Slot -> {"idle", "new_subscription", "stash", "fetch", "update",
                      "find_customer", "relink"}]
  /\ acct \in [Slot -> Account \union {Nil}]
  /\ old \in [Slot -> KeptType \union {Nil}]
  /\ event \in [Slot -> EventType \union {Nil}]
  /\ snap \in [Slot -> EventType \union {Nil}]
  /\ applied \in [Sub -> Nat]
  /\ apart \in [Account -> BOOLEAN]

\* Premium is only had in a period that was paid: whatever the order, the repetition and
\* the loss of events, no late or relinked one opens a period the account has not paid
\* (Subscription.IsPremium, applySubscriptionRecord).
PremiumWasPaid ==
  \A a \in Account : IsPremium(a) =>
    \/ store[a] > now
    \/ \E s \in Sub : /\ HolderOf(s) = a
                      /\ stripe[s].status \notin {"incomplete", "incomplete_expired"}
                      /\ stripe[s].end > now

Quiet == events = {} /\ \A r \in Slot : billingPc[r] = "idle"

\* When all is delivered the row is what Stripe has, but for an account that opened a
\* second subscription before the first was settled, had a state applied after a newer
\* one, or comes from RevenueCat.
RowFollowsStripe ==
  \A s \in Sub : LET a == HolderOf(s) IN
    (Quiet /\ s \in offered /\ ~apart[a] /\ \A t \in Sub \ {s} : HolderOf(t) # a \/ ~Settled(s)) =>
      /\ Carries(a, s)
      /\ subscription[a].status = mapStripeStatus(stripe[s].status)
      /\ subscription[a].end = stripe[s].end

\* stripe_service.go:33, "flags the subscription to terminate at period end so the user
\* keeps Premium": but for the same accounts, Premium ends only as time passes.
PremiumEndsWithTime ==
  \A a \in Account : (IsPremium(a) /\ ~IsPremium(a)' /\ ~apart'[a]) => now' > now
PremiumOutlastsCancel == [][PremiumEndsWithTime]_billingVars

=============================================================================
