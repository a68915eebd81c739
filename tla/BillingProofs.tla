---------------------------- MODULE BillingProofs ----------------------------
(***************************************************************************)
(* What holds of the subscription rows for any number of accounts,         *)
(* subscriptions, customers, handlers, periods and unacknowledged events.  *)
(*                                                                         *)
(* The states of a subscription that may still be applied are all states   *)
(* it had at Stripe, and these are ordered: a later one has the later end  *)
(* and forgets no payment (StatesInOrder).  With whose each row, handler   *)
(* and customer is (Links, Handler), a row never promises more than was    *)
(* paid (PaidInv).  The row of an account that is not apart is moreover    *)
(* never ahead of a state still to be applied (EndInv), and has the newest *)
(* state or an event on its way that brings it (FollowInv).                *)
(*                                                                         *)
(* Each action is first shown to be one of six kinds of step (StepKinds);  *)
(* what the invariants have in common of them is Moves.                    *)
(***************************************************************************)
EXTENDS Billing, TLAPS

Applying == {"stash", "update", "find_customer", "relink"}

\* A state has been paid for, and may be over.
Paid(v) == v.status \notin {"none", "incomplete", "incomplete_expired"}

\* The states of s there are: Stripe's own, those in events, and those handlers apply.
Circulates(s, v) ==
  \/ v = stripe[s] /\ stripe[s].cust # Nil
  \/ [sub |-> s, seen |-> v] \in events /\ v # Nil
  \/ \E r \in Slot : billingPc[r] \in Applying /\ snap[r] = [sub |-> s, seen |-> v]

\* What a handler holds at its step, and of whom.
Handler(r) ==
  /\ billingPc[r] \in {"idle", "new_subscription"} => snap[r] = Nil
  /\ billingPc[r] \in {"new_subscription", "stash", "relink"} => acct[r] \in Account
  /\ billingPc[r] \in Applying => snap[r] \in [sub : Sub, seen : StateType]
  /\ billingPc[r] = "fetch" =>
       /\ snap[r] \in EventType /\ snap[r].seen = Nil
       /\ event[r] = snap[r]
       /\ stripe[snap[r].sub].cust # Nil
  /\ billingPc[r] \in {"update", "find_customer", "relink"} =>
       /\ event[r] \in EventType
       /\ event[r].sub = snap[r].sub
       /\ event[r].seen # Nil => event[r] = snap[r]
  /\ billingPc[r] \in {"stash", "relink"} => HolderOf(snap[r].sub) = acct[r]
  /\ billingPc[r] = "relink" => old[r] # Nil /\ old[r].cust = snap[r].seen.cust
  /\ acct[r] # Nil /\ old[r] # Nil /\ old[r].cust # Nil => holder[old[r].cust] = acct[r]

Handlers == \A r \in Slot : Handler(r)

\* A row and Stripe agree on whose its subscription and its customer are.
RowLinked(a) ==
  subscription[a] # Nil =>
    /\ subscription[a].sub # Nil => HolderOf(subscription[a].sub) = a
    /\ subscription[a].cust # Nil => holder[subscription[a].cust] = a

Links ==
  /\ \A s \in Sub : /\ stripe[s].cust = Nil <=> stripe[s].status = "none"
                    /\ stripe[s].cust # Nil => holder[stripe[s].cust] \in Account
  /\ \A e \in events : stripe[e.sub].cust # Nil
  /\ \A a \in Account : RowLinked(a)

\* A later state of a subscription has the later end, and what was paid stays so.
Ordered(v, w) ==
  v.version <= w.version =>
    /\ v.end <= w.end
    /\ Paid(v) => Paid(w)
    /\ Paid(w) \/ v.end = w.end
    /\ v.version = w.version => v = w

StatesInOrder ==
  \A s \in Sub, v \in StateType : Circulates(s, v) =>
    /\ v.cust = stripe[s].cust
    /\ v.cust # Nil
    /\ v.version >= 1
    /\ v.version <= stripe[s].version
    /\ v.status \in {"past_due", "canceled"} => v.end <= now
    /\ v.end <= now + 1
    /\ \A w \in StateType : Circulates(s, w) => Ordered(v, w)

\* What a row says was paid.
PaidUntil(a, end) ==
  \/ store[a] >= end
  \/ \E s \in Sub : HolderOf(s) = a /\ Paid(stripe[s]) /\ stripe[s].end >= end

RowPaid(a) ==
  /\ store[a] <= now + 1
  /\ subscription[a] # Nil /\ subscription[a].status = "active" =>
       PaidUntil(a, subscription[a].end)

RowsPaid == \A a \in Account : RowPaid(a)

PaidInv == BillingTypeOK /\ Handlers /\ Links /\ StatesInOrder /\ RowsPaid

\* RevenueCat only writes rows of its time, and their accounts are apart.
RowApart(a) ==
  subscription[a] # Nil /\ ~apart[a] => ~subscription[a].rc /\ subscription[a].sub # Nil

OldApart(r) == acct[r] # Nil /\ ~apart[acct[r]] => old[r] = Nil \/ ~old[r].rc

\* An account that is not apart has one subscription that is not settled.
OneOpen ==
  \A s, t \in Sub : s # t /\ HolderOf(s) \in Account /\ HolderOf(s) = HolderOf(t) =>
    apart[HolderOf(s)] \/ Settled(s) \/ Settled(t)

\* Its row is not ahead of a state that may still be applied.
RowNotAhead(a, s) ==
  ~apart[a] /\ Carries(a, s) =>
    /\ applied[s] <= stripe[s].version
    /\ \A v \in StateType : Circulates(s, v) /\ v.version >= applied[s] =>
         /\ subscription[a].end <= v.end
         /\ subscription[a].status = "active" => Paid(v)

EndInv ==
  /\ PaidInv
  /\ OneOpen
  /\ \A r \in Slot : OldApart(r)
  /\ \A a \in Account : RowApart(a) /\ \A s \in Sub : RowNotAhead(a, s)

\* The subscription the row of an account that is not apart should carry.
Leads(s) ==
  /\ HolderOf(s) \in Account
  /\ ~apart[HolderOf(s)]
  /\ ~Settled(s) \/ \A t \in Sub \ {s} : HolderOf(t) # HolderOf(s)

\* The newest state of s is in the row or on its way, or the row says as little.
Newest(s) ==
  LET a == HolderOf(s)
      same == subscription[a].end = stripe[s].end
  IN
  \/ [sub |-> s, seen |-> stripe[s]] \in events
  \/ /\ applied[s] = stripe[s].version /\ same
     /\ subscription[a].status = mapStripeStatus(stripe[s].status)
  \/ ~Paid(stripe[s]) /\ same /\ subscription[a].status = "expired"

Followed(s) ==
  /\ Carries(HolderOf(s), s)
  /\ subscription[HolderOf(s)].cust = stripe[s].cust
  /\ Newest(s)

\* Nothing is paid that was not offered, and what was offered is carried.
FollowInv ==
  /\ EndInv
  /\ \A s \in Sub : Paid(stripe[s]) => s \in offered
  /\ \A s \in offered : HolderOf(s) \in Account
  /\ \A s \in offered : Leads(s) => Followed(s)

-----------------------------------------------------------------------------
(* Stripe and the handlers only move forward *)

\* A later state of s at Stripe; of one that did not exist, the first.
Later(s) ==
  /\ stripe'[s].version = stripe[s].version + 1
  /\ stripe'[s].cust # Nil /\ stripe'[s].status # "none"
  /\ stripe'[s].status \in {"past_due", "canceled"} => stripe'[s].end <= now'
  /\ stripe'[s].end <= now' + 1
  /\ holder'[stripe'[s].cust] \in Account
  /\ stripe[s].cust # Nil =>
       /\ stripe'[s].cust = stripe[s].cust
       /\ stripe[s].end <= stripe'[s].end
       /\ Paid(stripe[s]) => Paid(stripe'[s])
       /\ Paid(stripe'[s]) \/ stripe[s].end = stripe'[s].end

Moves ==
  /\ now' \in Nat /\ now <= now'
  /\ \A c \in Customer : holder[c] # Nil => holder'[c] = holder[c]
  /\ \A s \in Sub : stripe'[s] = stripe[s] \/ Later(s)
  /\ \A e \in events' : e \in events \/ (e.sub \in Sub /\ stripe'[e.sub].cust # Nil)
  /\ \A s \in Sub, v \in StateType :
       Circulates(s, v)' => Circulates(s, v) \/ (v = stripe'[s] /\ v.cust # Nil)
  /\ \A s \in Sub : Settled(s) => Settled(s)'
  /\ \A a \in Account : apart[a] => apart'[a]

LEMMA HolderStays ==
  ASSUME PaidInv, Moves, NEW s \in Sub, stripe[s].cust # Nil
  PROVE  /\ HolderOf(s) \in Account
         /\ HolderOf(s)' = HolderOf(s)
         /\ stripe'[s].cust = stripe[s].cust
<1>1. stripe[s].cust \in Customer
  BY DEF PaidInv, BillingTypeOK, StateType
<1>2. stripe'[s].cust = stripe[s].cust
  BY DEF Moves, Later
<1>3. HolderOf(s) = holder[stripe[s].cust] /\ HolderOf(s) \in Account
  BY DEF HolderOf, PaidInv, Links
<1>4. holder[stripe[s].cust] # Nil
  BY <1>3, BillingAssumption
<1>5. holder'[stripe[s].cust] = holder[stripe[s].cust]
  BY <1>1, <1>4 DEF Moves
<1>6. HolderOf(s)' = holder'[stripe'[s].cust]
  BY <1>2 DEF HolderOf
<1>7. QED
  BY <1>2, <1>3, <1>5, <1>6

LEMMA HandlerKept ==
  ASSUME PaidInv, Moves, NEW q \in Slot,
         billingPc'[q] = billingPc[q], acct'[q] = acct[q], old'[q] = old[q],
         event'[q] = event[q], snap'[q] = snap[q]
  PROVE  Handler(q)'
<1> DEFINE s == snap[q].sub
<1>0. Handler(q)
  BY DEF PaidInv, Handlers
<1>1. billingPc[q] \in {"stash", "relink"} => HolderOf(s)' = acct[q]
  <2> SUFFICES ASSUME billingPc[q] \in {"stash", "relink"} PROVE HolderOf(s)' = acct[q]
    OBVIOUS
  <2>1. s \in Sub /\ HolderOf(s) \in Account /\ HolderOf(s) = acct[q]
    BY <1>0 DEF Handler, Applying
  <2>2. stripe[s].cust # Nil
    BY <2>1, BillingAssumption DEF HolderOf
  <2>3. QED
    BY <2>1, <2>2, HolderStays
<1>2. billingPc[q] = "fetch" => stripe'[s].cust # Nil
  <2> SUFFICES ASSUME billingPc[q] = "fetch" PROVE stripe'[s].cust # Nil
    OBVIOUS
  <2>1. s \in Sub /\ stripe[s].cust # Nil
    BY <1>0 DEF Handler, EventType
  <2>2. QED
    BY <2>1, HolderStays
<1>3. acct[q] # Nil /\ old[q] # Nil /\ old[q].cust # Nil => holder'[old[q].cust] = acct[q]
  <2> SUFFICES ASSUME acct[q] # Nil, old[q] # Nil, old[q].cust # Nil
               PROVE  holder'[old[q].cust] = acct[q]
    OBVIOUS
  <2>1. old[q].cust \in Customer
    BY DEF PaidInv, BillingTypeOK, KeptType
  <2>2. holder[old[q].cust] = acct[q]
    BY <1>0 DEF Handler
  <2>3. QED
    BY <2>1, <2>2 DEF Moves
<1>4. QED
  BY <1>0, <1>1, <1>2, <1>3 DEF Handler

LEMMA OrderKept ==
  ASSUME PaidInv, Moves, BillingTypeOK'
  PROVE  StatesInOrder'
<1> SUFFICES ASSUME NEW s \in Sub, NEW v \in StateType, Circulates(s, v)'
             PROVE  /\ v.cust = stripe'[s].cust
                    /\ v.cust # Nil
                    /\ v.version >= 1
                    /\ v.version <= stripe'[s].version
                    /\ v.status \in {"past_due", "canceled"} => v.end <= now'
                    /\ v.end <= now' + 1
                    /\ \A w \in StateType : Circulates(s, w)' => Ordered(v, w)
  BY DEF StatesInOrder
<1>1. /\ stripe[s] \in StateType /\ stripe'[s] \in StateType
      /\ now \in Nat /\ now' \in Nat /\ now <= now'
  BY BillingAssumption DEF PaidInv, BillingTypeOK, Moves
<1>2. \A w \in StateType : w.version \in Nat /\ w.end \in Nat
  BY BillingAssumption DEF StateType
<1>3. \A w \in StateType : Circulates(s, w) => 
        /\ w.cust = stripe[s].cust /\ w.cust # Nil /\ stripe[s].cust # Nil
        /\ w.version >= 1 /\ w.version <= stripe[s].version
        /\ w.status \in {"past_due", "canceled"} => w.end <= now'
        /\ w.end <= now' + 1
        /\ \A x \in StateType : Circulates(s, x) => Ordered(w, x)
  BY <1>1, <1>2 DEF PaidInv, StatesInOrder
<1>4. stripe[s].cust # Nil => Circulates(s, stripe[s])
  BY DEF Circulates
<1>5. CASE stripe'[s] = stripe[s]
  <2>1. \A w \in StateType : Circulates(s, w)' => Circulates(s, w)
    BY <1>4, <1>5 DEF Moves
  <2>2. QED
    BY <1>3, <1>5, <2>1
<1>6. CASE Later(s)
  <2>1. \A w \in StateType : Circulates(s, w)' => Circulates(s, w) \/ w = stripe'[s]
    BY DEF Moves
  <2>2. \A w \in StateType : Circulates(s, w) =>
          /\ Ordered(w, stripe'[s]) /\ Ordered(stripe'[s], w)
          /\ w.version <= stripe'[s].version /\ w.cust = stripe'[s].cust
    <3> SUFFICES ASSUME NEW w \in StateType, Circulates(s, w)
                 PROVE  /\ Ordered(w, stripe'[s]) /\ Ordered(stripe'[s], w)
                        /\ w.version <= stripe'[s].version /\ w.cust = stripe'[s].cust
      OBVIOUS
    <3>1. /\ w.version <= stripe[s].version /\ stripe[s].cust # Nil
          /\ Ordered(w, stripe[s]) /\ w.cust = stripe[s].cust
      BY <1>1, <1>3, <1>4
    <3>2. /\ w.version \in Nat /\ stripe[s].version \in Nat /\ stripe'[s].version \in Nat
          /\ w.end \in Nat /\ stripe[s].end \in Nat /\ stripe'[s].end \in Nat
          /\ stripe'[s].version = stripe[s].version + 1
      BY <1>1, <1>2, <1>6 DEF Later
    <3>3. /\ stripe'[s].cust = stripe[s].cust
          /\ stripe[s].end <= stripe'[s].end
          /\ Paid(stripe[s]) => Paid(stripe'[s])
          /\ Paid(stripe'[s]) \/ stripe[s].end = stripe'[s].end
      BY <1>6, <3>1 DEF Later
    <3>4. /\ w.version < stripe'[s].version
          /\ w.end <= stripe[s].end
          /\ Paid(w) => Paid(stripe[s])
          /\ Paid(stripe[s]) \/ w.end = stripe[s].end
      BY <3>1, <3>2 DEF Ordered
    <3> HIDE DEF Paid
    <3>5. w.end <= stripe'[s].end /\ w.version <= stripe'[s].version
      BY <3>2, <3>3, <3>4
    <3>6. (Paid(w) => Paid(stripe'[s])) /\ (Paid(stripe'[s]) \/ w.end = stripe'[s].end)
      BY <3>3, <3>4
    <3>7. ~(stripe'[s].version <= w.version) /\ w.version # stripe'[s].version
      BY <3>2, <3>4
    <3>8. Ordered(w, stripe'[s]) /\ Ordered(stripe'[s], w)
      BY <3>5, <3>6, <3>7 DEF Ordered
    <3>9. QED
      BY <3>1, <3>3, <3>5, <3>8
  <2>3. /\ stripe'[s].cust # Nil /\ stripe'[s].version >= 1
        /\ stripe'[s].version <= stripe'[s].version
        /\ stripe'[s].status \in {"past_due", "canceled"} => stripe'[s].end <= now'
        /\ stripe'[s].end <= now' + 1
        /\ Ordered(stripe'[s], stripe'[s])
    BY <1>1, <1>2, <1>6 DEF Later, Ordered
  <2>4. CASE v = stripe'[s]
    BY <2>1, <2>2, <2>3, <2>4
  <2>5. CASE Circulates(s, v)
    BY <1>3, <2>1, <2>2, <2>5
  <2>6. QED
    BY <2>1, <2>4, <2>5
<1>7. QED
  BY <1>5, <1>6 DEF Moves

LEMMA PaidStays ==
  ASSUME PaidInv, Moves, BillingTypeOK', NEW a \in Account, NEW end \in Nat,
         store[a] <= store'[a], PaidUntil(a, end)
  PROVE  PaidUntil(a, end)'
<1>1. store[a] \in Nat /\ store'[a] \in Nat
  BY BillingAssumption DEF PaidInv, BillingTypeOK
<1>2. CASE store[a] >= end
  BY <1>1, <1>2 DEF PaidUntil
<1>3. CASE \E s \in Sub : HolderOf(s) = a /\ Paid(stripe[s]) /\ stripe[s].end >= end
  <2>1. PICK s \in Sub : HolderOf(s) = a /\ Paid(stripe[s]) /\ stripe[s].end >= end
    BY <1>3
  <2>2. stripe[s].cust # Nil
    BY <2>1, BillingAssumption DEF HolderOf
  <2>3. HolderOf(s)' = a
    BY <2>1, <2>2, HolderStays
  <2>4. stripe[s].end \in Nat /\ stripe'[s].end \in Nat
    BY BillingAssumption DEF PaidInv, BillingTypeOK, StateType
  <2>5. Paid(stripe'[s]) /\ stripe[s].end <= stripe'[s].end
    BY <2>1, <2>2, <2>4 DEF Moves, Later
  <2>6. QED
    BY <2>1, <2>3, <2>4, <2>5 DEF PaidUntil
<1>4. QED
  BY <1>2, <1>3 DEF PaidUntil

LEMMA RowKept ==
  ASSUME PaidInv, Moves, BillingTypeOK', NEW a \in Account,
         subscription'[a] = subscription[a], store'[a] = store[a]
  PROVE  RowLinked(a)' /\ RowPaid(a)'
<1>0. RowLinked(a) /\ RowPaid(a) /\ subscription[a] \in RowType \union {Nil}
  BY DEF PaidInv, Links, RowsPaid, BillingTypeOK
<1>1. ASSUME subscription[a] # Nil, subscription[a].sub # Nil
      PROVE  HolderOf(subscription[a].sub)' = a
  <2> DEFINE s == subscription[a].sub
  <2>1. s \in Sub /\ HolderOf(s) = a
    BY <1>0, <1>1 DEF RowLinked, RowType
  <2>2. stripe[s].cust # Nil
    BY <2>1, BillingAssumption DEF HolderOf
  <2>3. stripe'[s].cust = stripe[s].cust /\ HolderOf(s) = holder[stripe[s].cust]
    BY <2>1, <2>2, HolderStays DEF HolderOf
  <2> HIDE DEF s
  <2>4. stripe[s].cust \in Customer /\ holder[stripe[s].cust] # Nil
    <3>1. stripe[s] \in StateType
      BY <2>1 DEF PaidInv, BillingTypeOK
    <3>2. stripe[s].cust \in Customer
      BY <2>2, <3>1 DEF StateType
    <3>3. holder[stripe[s].cust] = a
      BY <2>1, <2>3
    <3>4. QED
      BY <3>2, <3>3, BillingAssumption
  <2>5. holder'[stripe[s].cust] = a
    BY <2>1, <2>3, <2>4 DEF Moves
  <2>6. QED
    BY <2>2, <2>3, <2>5 DEF HolderOf, s
<1>2. ASSUME subscription[a] # Nil, subscription[a].cust # Nil
      PROVE  holder'[subscription[a].cust] = a
  <2>1. subscription[a].cust \in Customer /\ holder[subscription[a].cust] = a
    BY <1>0, <1>2 DEF RowLinked, RowType
  <2>2. QED
    BY <2>1, BillingAssumption DEF Moves
<1>3. RowLinked(a)'
  BY <1>0, <1>1, <1>2 DEF RowLinked
<1>4. /\ now \in Nat /\ now' \in Nat /\ now <= now'
      /\ store[a] \in Nat /\ store'[a] \in Nat
  BY BillingAssumption DEF PaidInv, BillingTypeOK, Moves
<1>5. store'[a] <= now' + 1
  BY <1>0, <1>4 DEF RowPaid
<1>6. ASSUME subscription[a] # Nil, subscription[a].status = "active"
      PROVE  PaidUntil(a, subscription[a].end)'
  <2>1. PaidUntil(a, subscription[a].end) /\ subscription[a].end \in Nat
    BY <1>0, <1>6, BillingAssumption DEF RowPaid, RowType
  <2>2. store[a] <= store'[a]
    BY <1>4
  <2> DEFINE end == subscription[a].end
  <2> HIDE DEF end
  <2>3. \A n \in Nat : PaidUntil(a, n) => PaidUntil(a, n)'
    BY <2>2, PaidStays
  <2>4. QED
    BY <2>1, <2>3 DEF PaidUntil
<1>7. RowPaid(a)'
  BY <1>5, <1>6 DEF RowPaid
<1>8. QED
  BY <1>3, <1>7

LEMMA StripeLinked ==
  ASSUME PaidInv, Moves, BillingTypeOK'
  PROVE  /\ \A s \in Sub : /\ stripe'[s].cust = Nil <=> stripe'[s].status = "none"
                           /\ stripe'[s].cust # Nil => holder'[stripe'[s].cust] \in Account
         /\ \A e \in events' : stripe'[e.sub].cust # Nil
<1>1. ASSUME NEW s \in Sub
      PROVE  /\ stripe'[s].cust = Nil <=> stripe'[s].status = "none"
             /\ stripe'[s].cust # Nil => holder'[stripe'[s].cust] \in Account
  <2>1. CASE Later(s)
    BY <2>1 DEF Later
  <2>2. CASE stripe'[s] = stripe[s]
    <3>1. stripe[s].cust # Nil => HolderOf(s) \in Account /\ HolderOf(s)' = HolderOf(s)
      BY HolderStays
    <3>2. QED
      BY <2>2, <3>1 DEF PaidInv, Links, HolderOf
  <2>3. QED
    BY <2>1, <2>2 DEF Moves
<1>2. ASSUME NEW e \in events' PROVE stripe'[e.sub].cust # Nil
  <2>1. CASE e \in events
    <3>1. e.sub \in Sub /\ stripe[e.sub].cust # Nil
      BY <2>1 DEF PaidInv, BillingTypeOK, Links, EventType
    <3>2. QED
      BY <3>1 DEF Moves, Later
  <2>2. QED
    BY <2>1 DEF Moves
<1>3. QED
  BY <1>1, <1>2

-----------------------------------------------------------------------------
(* Stripe's steps *)

\* A new state of s, and events that carry it or name its invoice.
Announced(s) ==
  /\ stripe' \in [Sub -> StateType]
  /\ \A t \in Sub \ {s} : stripe'[t] = stripe[t]
  /\ stripe'[s].version = stripe[s].version + 1
  /\ events \subseteq events'
  /\ [sub |-> s, seen |-> stripe'[s]] \in events'
  /\ events' \subseteq events \union {[sub |-> s, seen |-> stripe'[s]],
                                      [sub |-> s, seen |-> Nil]}

LEMMA ChangeAnnounces ==
  ASSUME BillingTypeOK, NEW s \in Sub, NEW state \in StateType, NEW invoices,
         state.version = stripe[s].version, Change(s, state, invoices)
  PROVE  /\ Announced(s)
         /\ stripe'[s].cust = state.cust
         /\ stripe'[s].status = state.status
         /\ stripe'[s].end = state.end
<1> DEFINE seen == [state EXCEPT !.version = @ + 1]
<1>1. /\ seen \in StateType
      /\ seen.cust = state.cust /\ seen.status = state.status /\ seen.end = state.end
      /\ seen.version = state.version + 1
  BY DEF StateType
<1>2. /\ stripe' = [stripe EXCEPT ![s] = seen]
      /\ events' = events \union {[sub |-> s, seen |-> seen]}
                          \union {[sub |-> s, seen |-> Nil] : i \in invoices}
  BY DEF Change
<1> HIDE DEF seen
<1>3. /\ stripe' \in [Sub -> StateType] /\ stripe'[s] = seen
      /\ \A t \in Sub \ {s} : stripe'[t] = stripe[t]
  BY <1>1, <1>2 DEF BillingTypeOK
<1>4. events' \subseteq events \union {[sub |-> s, seen |-> seen], [sub |-> s, seen |-> Nil]}
  BY <1>2
<1>5. events \subseteq events' /\ [sub |-> s, seen |-> seen] \in events'
  BY <1>2
<1>6. QED
  BY <1>1, <1>3, <1>4, <1>5 DEF Announced

\* A subscription goes on: paid if it was offered, ended if its time is over.
Goes(s) ==
  /\ Announced(s)
  /\ stripe[s].cust # Nil /\ stripe'[s].cust = stripe[s].cust
  /\ stripe[s].status \in {"incomplete", "active"}
  /\ stripe'[s].status \in {"incomplete_expired", "active", "past_due", "canceled"}
  /\ Paid(stripe[s]) => Paid(stripe'[s])
  /\ Paid(stripe'[s]) => Paid(stripe[s]) \/ s \in offered
  /\ Paid(stripe'[s]) \/ stripe[s].end = stripe'[s].end
  /\ stripe[s].end <= stripe'[s].end
  /\ stripe'[s].status \in {"past_due", "canceled"} => stripe'[s].end <= now
  /\ stripe'[s].end <= now + 1
  /\ UNCHANGED <<now, holder, store, offered, subscription, hist, task>>

LEMMA StateOfNow ==
  ASSUME PaidInv, NEW s \in Sub, stripe[s].status # "none"
  PROVE  /\ stripe[s] \in StateType /\ stripe[s].cust # Nil
         /\ now \in 0 .. MaxTime /\ MaxTime \in Nat
         /\ stripe[s].end \in Nat /\ now + 1 \in 0 .. MaxTime + 1
         /\ stripe[s].version \in Nat
         /\ stripe[s].end <= now + 1
<1>1. stripe[s] \in StateType /\ now \in 0 .. MaxTime /\ MaxTime \in Nat
  BY BillingAssumption DEF PaidInv, BillingTypeOK
<1>2. stripe[s].end \in Nat /\ stripe[s].version \in Nat /\ now + 1 \in 0 .. MaxTime + 1
  BY <1>1 DEF StateType
<1>3. stripe[s].cust # Nil
  BY DEF PaidInv, Links
<1>4. stripe[s].end <= now + 1
  BY <1>1, <1>3 DEF PaidInv, StatesInOrder, Circulates
<1>5. QED
  BY <1>1, <1>2, <1>3, <1>4

LEMMA PayGoes ==
  ASSUME PaidInv, NEW s \in Sub, Pay(s)
  PROVE  Goes(s)
<1> DEFINE state == [stripe[s] EXCEPT !.status = "active", !.end = now + 1]
<1>1. stripe[s].status = "incomplete"
  BY DEF Pay
<1>2. /\ state \in StateType /\ state.cust = stripe[s].cust /\ state.status = "active"
      /\ state.end = now + 1 /\ state.version = stripe[s].version
  BY <1>1, StateOfNow DEF StateType, Status
<1>3. Change(s, state, {1})
  BY DEF Pay
<1> HIDE DEF state
<1>4. /\ Announced(s) /\ stripe'[s].cust = stripe[s].cust
      /\ stripe'[s].status = "active" /\ stripe'[s].end = now + 1
  BY <1>2, <1>3, ChangeAnnounces DEF PaidInv
<1>5. stripe[s].end <= now + 1 /\ now + 1 <= now + 1 /\ stripe[s].cust # Nil
  BY <1>1, StateOfNow
<1>6. QED
  BY <1>1, <1>4, <1>5 DEF Goes, Paid, Pay

LEMMA LapseGoes ==
  ASSUME PaidInv, NEW s \in Sub, Lapse(s)
  PROVE  Goes(s)
<1> DEFINE state == [stripe[s] EXCEPT !.status = "incomplete_expired"]
<1>1. stripe[s].status = "incomplete"
  BY DEF Lapse
<1>2. /\ state \in StateType /\ state.cust = stripe[s].cust
      /\ state.status = "incomplete_expired"
      /\ state.end = stripe[s].end /\ state.version = stripe[s].version
  BY <1>1, StateOfNow DEF StateType, Status
<1>3. Change(s, state, {})
  BY DEF Lapse
<1> HIDE DEF state
<1>4. /\ Announced(s) /\ stripe'[s].cust = stripe[s].cust
      /\ stripe'[s].status = "incomplete_expired" /\ stripe'[s].end = stripe[s].end
  BY <1>2, <1>3, ChangeAnnounces DEF PaidInv
<1>5. stripe[s].end <= now + 1 /\ stripe[s].end <= stripe[s].end /\ stripe[s].cust # Nil
  BY <1>1, StateOfNow
<1>6. QED
  BY <1>1, <1>4, <1>5 DEF Goes, Paid, Lapse

LEMMA RenewGoes ==
  ASSUME PaidInv, NEW s \in Sub, Renew(s)
  PROVE  Goes(s)
<1>1. stripe[s].status = "active" /\ stripe[s].end = now
  BY DEF Renew
<1>2. /\ stripe[s] \in StateType /\ now \in Nat /\ now + 1 \in 0 .. MaxTime + 1
      /\ stripe[s].cust # Nil
  BY <1>1, StateOfNow
<1>3. PICK state \in StateType, invoices \in {{}, {1}} :
        /\ Change(s, state, invoices)
        /\ state.cust = stripe[s].cust /\ state.version = stripe[s].version
        /\ \/ state.status \in {"past_due", "canceled"} /\ state.end = now
           \/ state.status = "active" /\ state.end = now + 1
  <2>1. CASE Change(s, [stripe[s] EXCEPT !.status = "canceled"], {})
    <3> DEFINE state == [stripe[s] EXCEPT !.status = "canceled"]
    <3>1. /\ state \in StateType /\ state.cust = stripe[s].cust /\ state.end = now
          /\ state.version = stripe[s].version /\ state.status = "canceled"
      BY <1>1, <1>2 DEF StateType, Status
    <3>2. QED
      BY <2>1, <3>1
  <2>2. CASE Change(s, [stripe[s] EXCEPT !.status = "past_due"], {1})
    <3> DEFINE state == [stripe[s] EXCEPT !.status = "past_due"]
    <3>1. /\ state \in StateType /\ state.cust = stripe[s].cust /\ state.end = now
          /\ state.version = stripe[s].version /\ state.status = "past_due"
      BY <1>1, <1>2 DEF StateType, Status
    <3>2. QED
      BY <2>2, <3>1
  <2>3. CASE Change(s, [stripe[s] EXCEPT !.end = now + 1], {1})
    <3> DEFINE state == [stripe[s] EXCEPT !.end = now + 1]
    <3>1. /\ state \in StateType /\ state.cust = stripe[s].cust /\ state.end = now + 1
          /\ state.version = stripe[s].version /\ state.status = "active"
      BY <1>1, <1>2 DEF StateType, Status
    <3>2. QED
      BY <2>3, <3>1
  <2>4. QED
    BY <2>1, <2>2, <2>3 DEF Renew
<1>4. /\ Announced(s) /\ stripe'[s].cust = stripe[s].cust
      /\ stripe'[s].status = state.status /\ stripe'[s].end = state.end
  BY <1>3, ChangeAnnounces DEF PaidInv
<1>5. now <= now /\ now <= now + 1 /\ now + 1 <= now + 1
  BY <1>2
<1>6. QED
  BY <1>1, <1>2, <1>3, <1>4, <1>5 DEF Goes, Paid, Renew

LEMMA CancelGoes ==
  ASSUME PaidInv, NEW a \in Account, Cancel(a)
  PROVE  subscription[a].sub \in Sub /\ Goes(subscription[a].sub)
<1> DEFINE s == subscription[a].sub
           state == [stripe[s] EXCEPT !.ending = TRUE]
<1>1. s \in Sub /\ stripe[s].status = "active"
  BY DEF Cancel, PaidInv, BillingTypeOK, RowType
<1> HIDE DEF s
<1>2. /\ state \in StateType /\ state.cust = stripe[s].cust /\ state.status = "active"
      /\ state.end = stripe[s].end /\ state.version = stripe[s].version
  BY <1>1, StateOfNow DEF StateType
<1>3. Change(s, state, {})
  BY DEF Cancel, s
<1> HIDE DEF state
<1>4. /\ Announced(s) /\ stripe'[s].cust = stripe[s].cust
      /\ stripe'[s].status = "active" /\ stripe'[s].end = stripe[s].end
  BY <1>1, <1>2, <1>3, ChangeAnnounces DEF PaidInv
<1>5. stripe[s].end <= now + 1 /\ stripe[s].end <= stripe[s].end /\ stripe[s].cust # Nil
  BY <1>1, StateOfNow
<1>6. QED
  BY <1>1, <1>4, <1>5 DEF Goes, Paid, Cancel, s

LEMMA GoesMoves ==
  ASSUME PaidInv, NEW s \in Sub, Goes(s)
  PROVE  Moves /\ BillingTypeOK'
<1>0. /\ stripe[s] \in StateType /\ stripe'[s] \in StateType /\ now \in Nat
      /\ stripe[s].cust # Nil
  BY BillingAssumption DEF PaidInv, BillingTypeOK, Goes, Announced
<1>1. BillingTypeOK'
  <2>1. events' \subseteq EventType
    BY <1>0 DEF PaidInv, BillingTypeOK, Goes, Announced, EventType
  <2>2. QED
    BY <2>1 DEF PaidInv, BillingTypeOK, Goes, Announced, hist, task
<1>2. now' \in Nat /\ now <= now'
  BY <1>0 DEF Goes
<1>3. Later(s)
  <2>1. holder[stripe[s].cust] \in Account
    BY <1>0 DEF PaidInv, Links
  <2>2. QED
    BY <1>0, <2>1 DEF Later, Goes, Announced
<1>4. \A t \in Sub : stripe'[t] = stripe[t] \/ Later(t)
  BY <1>3 DEF Goes, Announced
<1>5. \A e \in events' : e \in events \/ (e.sub \in Sub /\ stripe'[e.sub].cust # Nil)
  <2>1. stripe'[s].cust # Nil
    BY DEF Goes
  <2>2. QED
    BY <2>1 DEF Goes, Announced
<1>6. \A t \in Sub, v \in StateType :
        Circulates(t, v)' => Circulates(t, v) \/ (v = stripe'[t] /\ v.cust # Nil)
  <2> SUFFICES ASSUME NEW t \in Sub, NEW v \in StateType, Circulates(t, v)'
               PROVE  Circulates(t, v) \/ (v = stripe'[t] /\ v.cust # Nil)
    OBVIOUS
  <2>1. CASE v = stripe'[t] /\ stripe'[t].cust # Nil
    BY <2>1
  <2>2. CASE [sub |-> t, seen |-> v] \in events' /\ v # Nil
    <3>1. stripe'[s].cust # Nil
      BY DEF Goes
    <3>2. [sub |-> t, seen |-> v] \in events \/ (t = s /\ v = stripe'[s])
      BY <2>2 DEF Goes, Announced
    <3>3. QED
      BY <2>2, <3>1, <3>2 DEF Circulates
  <2>3. CASE \E r \in Slot : billingPc'[r] \in Applying /\ snap'[r] = [sub |-> t, seen |-> v]
    BY <2>3 DEF Circulates, Goes, task
  <2>4. QED
    BY <2>1, <2>2, <2>3 DEF Circulates
<1>7. \A t \in Sub : Settled(t) => Settled(t)'
  <2> SUFFICES ASSUME NEW t \in Sub, Settled(t) PROVE Settled(t)'
    OBVIOUS
  <2>1. t # s
    BY DEF Settled, Goes
  <2>2. \A e \in events' : e.sub # t
    BY <2>1 DEF Settled, Goes, Announced
  <2>3. stripe'[t] = stripe[t]
    BY <2>1 DEF Goes, Announced
  <2>4. QED
    BY <2>2, <2>3 DEF Settled, Goes, task
<1>8. QED
  BY <1>1, <1>2, <1>4, <1>5, <1>6, <1>7 DEF Moves, Goes, hist

LEMMA GoesKeepsPaid ==
  ASSUME PaidInv, NEW s \in Sub, Goes(s)
  PROVE  PaidInv'
<1>1. Moves /\ BillingTypeOK'
  BY GoesMoves
<1>2. Handlers'
  <2> SUFFICES ASSUME NEW q \in Slot PROVE Handler(q)'
    BY DEF Handlers
  <2>1. QED
    BY <1>1, HandlerKept DEF Goes, task
<1>3. StatesInOrder'
  BY <1>1, OrderKept
<1>4. \A a \in Account : RowLinked(a)' /\ RowPaid(a)'
  BY <1>1, RowKept DEF Goes
<1>5. QED
  BY <1>1, <1>2, <1>3, <1>4, StripeLinked DEF PaidInv, Links, RowsPaid

-----------------------------------------------------------------------------
(* The handlers' steps *)

Others(r) ==
  \A q \in Slot \ {r} : /\ billingPc'[q] = billingPc[q] /\ acct'[q] = acct[q]
                        /\ old'[q] = old[q] /\ event'[q] = event[q] /\ snap'[q] = snap[q]

\* What the handler in r holds after its step was there before.
HandlerStep(r) ==
  /\ UNCHANGED <<now, holder, stripe, store>>
  /\ events' \subseteq events /\ events \ {event[r]} \subseteq events'
  /\ Others(r)
  /\ \A a \in Account : apart[a] => apart'[a]
  /\ \/ snap'[r] = Nil /\ billingPc'[r] \notin Applying
     \/ /\ snap'[r] = snap[r] /\ snap[r] # Nil
        /\ billingPc'[r] \in Applying => billingPc[r] \in Applying
     \/ /\ billingPc[r] = "fetch"
        /\ snap'[r] = [sub |-> snap[r].sub, seen |-> stripe[snap[r].sub]]
     \/ /\ snap'[r] \in events
        /\ billingPc'[r] \in Applying => snap'[r].seen # Nil
  /\ \/ acct'[r] = Nil
     \/ acct'[r] = acct[r] /\ old'[r] = old[r]
     \/ \E a \in Account : acct'[r] = a /\ old'[r] = Kept(a)

LEMMA HandlerStepMoves ==
  ASSUME PaidInv, NEW r \in Slot, HandlerStep(r), BillingTypeOK'
  PROVE  Moves
<1>1. now' \in Nat /\ now <= now'
  BY BillingAssumption DEF PaidInv, BillingTypeOK, HandlerStep
<1>2. \A t \in Sub, v \in StateType : Circulates(t, v)' => Circulates(t, v)
  <2> SUFFICES ASSUME NEW t \in Sub, NEW v \in StateType, Circulates(t, v)'
               PROVE  Circulates(t, v)
    OBVIOUS
  <2>0. v # Nil
    BY BillingAssumption
  <2>1. CASE v = stripe'[t] /\ stripe'[t].cust # Nil
    BY <2>1 DEF Circulates, HandlerStep
  <2>2. CASE [sub |-> t, seen |-> v] \in events' /\ v # Nil
    BY <2>2 DEF Circulates, HandlerStep
  <2>3. ASSUME NEW q \in Slot, billingPc'[q] \in Applying, snap'[q] = [sub |-> t, seen |-> v]
        PROVE  Circulates(t, v)
    <3>1. CASE q # r
      BY <2>3, <3>1 DEF Circulates, HandlerStep, Others
    <3>2. CASE q = r
      <4>1. snap'[r] # Nil
        BY <2>3, <3>2, BillingAssumption DEF EventType
      <4>2. CASE snap'[r] = snap[r] /\ billingPc[r] \in Applying
        BY <2>3, <3>2, <4>2 DEF Circulates
      <4>3. CASE /\ billingPc[r] = "fetch"
                 /\ snap'[r] = [sub |-> snap[r].sub, seen |-> stripe[snap[r].sub]]
        <5>1. t = snap[r].sub /\ v = stripe[t]
          BY <2>3, <3>2, <4>3
        <5>2. stripe[t].cust # Nil
          BY <4>3, <5>1 DEF PaidInv, Handlers, Handler
        <5>3. QED
          BY <5>1, <5>2 DEF Circulates
      <4>4. CASE snap'[r] \in events
        BY <2>0, <2>3, <3>2, <4>4 DEF Circulates
      <4>5. QED
        BY <2>3, <3>2, <4>1, <4>2, <4>3, <4>4 DEF HandlerStep
    <3>3. QED
      BY <3>1, <3>2
  <2>4. QED
    BY <2>1, <2>2, <2>3 DEF Circulates
<1>3. \A t \in Sub : Settled(t) => Settled(t)'
  <2> SUFFICES ASSUME NEW t \in Sub, Settled(t) PROVE Settled(t)'
    OBVIOUS
  <2>1. \A e \in events' : e.sub # t
    BY DEF Settled, HandlerStep
  <2>2. ASSUME NEW q \in Slot PROVE snap'[q] = Nil \/ snap'[q].sub # t
    <3>1. snap[q] = Nil \/ snap[q].sub # t
      BY DEF Settled
    <3>2. CASE q # r
      BY <3>1, <3>2 DEF HandlerStep, Others
    <3>3. CASE q = r
      <4>1. CASE billingPc[r] = "fetch"
                   /\ snap'[r] = [sub |-> snap[r].sub, seen |-> stripe[snap[r].sub]]
        <5>1. snap[r] \in events \/ snap[r].sub # t
          <6>1. snap[r] \in EventType
            BY <4>1 DEF PaidInv, Handlers, Handler
          <6>2. snap[r] # Nil
            BY <6>1, BillingAssumption
          <6>3. QED
            BY <3>1, <3>3, <6>2
        <5>2. QED
          BY <3>1, <3>3, <4>1, <5>1 DEF Settled
      <4>2. QED
        BY <3>1, <3>3, <4>1 DEF HandlerStep, Settled
    <3>4. QED
      BY <3>2, <3>3
  <2>3. QED
    BY <2>1, <2>2 DEF Settled, HandlerStep
<1>4. QED
  BY <1>1, <1>2, <1>3 DEF Moves, HandlerStep

LEMMA HandlerStepKeeps ==
  ASSUME PaidInv, NEW r \in Slot, HandlerStep(r), BillingTypeOK', Handler(r)',
         \A a \in Account : RowLinked(a)' /\ RowPaid(a)'
  PROVE  PaidInv'
<1>1. Moves
  BY HandlerStepMoves
<1>2. Handlers'
  <2> SUFFICES ASSUME NEW q \in Slot PROVE Handler(q)'
    BY DEF Handlers
  <2>1. CASE q # r
    BY <1>1, <2>1, HandlerKept DEF HandlerStep, Others
  <2>2. QED
    BY <2>1
<1>3. QED
  BY <1>1, <1>2, OrderKept, StripeLinked DEF PaidInv, Links, RowsPaid

\* The steps that leave the rows alone.
TaskMoves(r) ==
  /\ HandlerStep(r) /\ BillingTypeOK' /\ Handler(r)'
  /\ UNCHANGED <<subscription, offered, hist>>

LEMMA LeaveTypes ==
  ASSUME PaidInv, NEW r \in Slot, Leave(r)
  PROVE  /\ billingPc' \in [Slot -> {"idle", "new_subscription", "stash", "fetch", "update",
                                     "find_customer", "relink"}]
         /\ acct' \in [Slot -> Account \union {Nil}]
         /\ old' \in [Slot -> KeptType \union {Nil}]
         /\ event' \in [Slot -> EventType \union {Nil}]
         /\ snap' \in [Slot -> EventType \union {Nil}]
         /\ Others(r)
         /\ Handler(r)'
         /\ snap'[r] = Nil /\ billingPc'[r] = "idle" /\ acct'[r] = Nil
<1>0. /\ billingPc' = [billingPc EXCEPT ![r] = "idle"]
      /\ acct' = [acct EXCEPT ![r] = Nil]
      /\ old' = [old EXCEPT ![r] = Nil]
      /\ event' = [event EXCEPT ![r] = Nil]
      /\ snap' = [snap EXCEPT ![r] = Nil]
  BY DEF Leave, GoOn
<1>1. BillingTypeOK
  BY DEF PaidInv
<1>2. Others(r)
  BY <1>0, <1>1 DEF Others, BillingTypeOK
<1>3. snap'[r] = Nil /\ billingPc'[r] = "idle" /\ acct'[r] = Nil
  BY <1>0, <1>1 DEF BillingTypeOK
<1>4. Handler(r)'
  BY <1>3 DEF Handler, Applying
<1>5. QED
  BY <1>0, <1>1, <1>2, <1>3, <1>4 DEF BillingTypeOK

LEMMA SubscribeMoves ==
  ASSUME PaidInv, NEW r \in Slot, NEW a \in Account, Subscribe(r, a)
  PROVE  TaskMoves(r)
<1>0. /\ billingPc' = [billingPc EXCEPT ![r] = "new_subscription"]
      /\ acct' = [acct EXCEPT ![r] = a]
      /\ old' = [old EXCEPT ![r] = Kept(a)]
      /\ UNCHANGED <<now, billed, subscription, hist, event, snap>>
      /\ BillingTypeOK
  BY DEF Subscribe, GoOn, PaidInv
<1>1. Kept(a) \in KeptType \union {Nil}
  BY <1>0 DEF Kept, KeptType, BillingTypeOK, RowType
<1>2. BillingTypeOK'
  BY <1>0, <1>1 DEF BillingTypeOK, billed, hist
<1>3. snap[r] = Nil /\ billingPc[r] = "idle"
  BY DEF Subscribe, PaidInv, Handlers, Handler
<1>4. billingPc'[r] = "new_subscription" /\ acct'[r] = a /\ old'[r] = Kept(a) /\ snap'[r] = Nil
  BY <1>0, <1>3 DEF BillingTypeOK
<1>5. Kept(a) # Nil /\ Kept(a).cust # Nil => holder[Kept(a).cust] = a
  <2>1. RowLinked(a)
    BY DEF PaidInv, Links
  <2>2. QED
    BY <2>1 DEF Kept, RowLinked
<1>6. Handler(r)'
  <2>1. old'[r] # Nil /\ old'[r].cust # Nil => holder'[old'[r].cust] = a
    BY <1>0, <1>4, <1>5 DEF billed
  <2>2. QED
    BY <1>4, <2>1 DEF Handler, Applying
<1>7. HandlerStep(r)
  <2>1. Others(r)
    BY <1>0 DEF Others, BillingTypeOK
  <2>2. QED
    BY <1>0, <1>4, <2>1 DEF HandlerStep, billed, hist, Applying
<1>8. QED
  BY <1>0, <1>2, <1>6, <1>7 DEF TaskMoves, billed

LEMMA DeliverMoves ==
  ASSUME PaidInv, NEW r \in Slot, NEW e \in events, Deliver(r, e)
  PROVE  TaskMoves(r)
<1> DEFINE next == IF e.seen = Nil THEN "fetch" ELSE "update"
<1>0. /\ billingPc' = [billingPc EXCEPT ![r] = next]
      /\ event' = [event EXCEPT ![r] = e]
      /\ snap' = [snap EXCEPT ![r] = e]
      /\ UNCHANGED <<now, billed, subscription, hist, acct, old>>
      /\ BillingTypeOK
  BY DEF Deliver, GoOn, PaidInv
<1>1. next \in {"fetch", "update"} /\ e \in EventType /\ stripe[e.sub].cust # Nil
  BY <1>0 DEF BillingTypeOK, PaidInv, Links
<1>2. BillingTypeOK'
  BY <1>0, <1>1 DEF BillingTypeOK, billed, hist
<1>3. \A q \in Slot : acct[q] \in Account \union {Nil}
  BY <1>0 DEF BillingTypeOK
<1>4. /\ billingPc'[r] = next /\ acct'[r] = acct[r] /\ old'[r] = old[r]
      /\ event'[r] = e /\ snap'[r] = e
  BY <1>0 DEF BillingTypeOK
<1>5. Handler(r)'
  <2>1. snap[r] = Nil
    BY DEF Deliver, PaidInv, Handlers, Handler
  <2>2. Handler(r)
    BY DEF PaidInv, Handlers
  <2>3. acct[r] # Nil /\ old[r] # Nil /\ old[r].cust # Nil => holder'[old[r].cust] = acct[r]
    BY <1>0, <2>2 DEF Handler, billed
  <2>4. e.seen # Nil => e \in [sub : Sub, seen : StateType]
    BY <1>1 DEF EventType
  <2>5. stripe'[e.sub].cust # Nil
    BY <1>0, <1>1 DEF billed
  <2>6. QED
    BY <1>1, <1>4, <2>3, <2>4, <2>5 DEF Handler, Applying
<1>6. HandlerStep(r)
  <2>1. Others(r)
    BY <1>0 DEF Others, BillingTypeOK
  <2>2. billingPc'[r] \in Applying => snap'[r].seen # Nil
    BY <1>4 DEF Applying
  <2>3. QED
    BY <1>0, <1>4, <2>1, <2>2 DEF HandlerStep, billed, hist
<1>7. QED
  BY <1>0, <1>2, <1>5, <1>6 DEF TaskMoves, billed

LEMMA FetchMoves ==
  ASSUME PaidInv, NEW r \in Slot, Fetch(r)
  PROVE  TaskMoves(r)
<1> DEFINE s == snap[r].sub
           e == [sub |-> s, seen |-> stripe[s]]
<1>0. /\ billingPc[r] = "fetch"
      /\ billingPc' = [billingPc EXCEPT ![r] = "update"]
      /\ snap' = [snap EXCEPT ![r].seen = stripe[event[r].sub]]
      /\ UNCHANGED <<now, billed, subscription, hist, acct, old, event>>
      /\ BillingTypeOK
  BY DEF Fetch, GoOn, PaidInv
<1>1. /\ Handler(r) /\ snap[r] \in EventType /\ event[r] = snap[r]
      /\ s \in Sub /\ stripe[s].cust # Nil /\ stripe[s] \in StateType
  BY <1>0 DEF PaidInv, Handlers, Handler, EventType, BillingTypeOK
<1>2. [snap[r] EXCEPT !.seen = stripe[event[r].sub]] = e /\ e \in [sub : Sub, seen : StateType]
  BY <1>1 DEF EventType
<1>3. snap' = [snap EXCEPT ![r] = e]
  BY <1>0, <1>2
<1>4. e \in EventType /\ e.sub = s /\ e.seen = stripe[s]
  BY <1>1 DEF EventType
<1> HIDE DEF e
<1>5. BillingTypeOK'
  BY <1>0, <1>3, <1>4 DEF BillingTypeOK, billed, hist
<1>6. /\ billingPc'[r] = "update" /\ acct'[r] = acct[r] /\ old'[r] = old[r]
      /\ event'[r] = event[r] /\ snap'[r] = e
  BY <1>0, <1>3 DEF BillingTypeOK
<1>7. Handler(r)'
  <2>1. acct[r] # Nil /\ old[r] # Nil /\ old[r].cust # Nil => holder'[old[r].cust] = acct[r]
    BY <1>0, <1>1 DEF Handler, billed
  <2>2. event[r].seen = Nil
    BY <1>0, <1>1 DEF Handler
  <2>3. QED
    BY <1>1, <1>2, <1>4, <1>6, <2>1, <2>2 DEF Handler, Applying
<1>8. HandlerStep(r)
  <2>1. Others(r)
    BY <1>0, <1>3 DEF Others, BillingTypeOK
  <2>2. QED
    BY <1>0, <1>6, <2>1 DEF HandlerStep, billed, hist, e
<1>9. QED
  BY <1>0, <1>5, <1>7, <1>8 DEF TaskMoves, billed

LEMMA SearchMoves ==
  ASSUME PaidInv, NEW r \in Slot, UpdateFromStripe(r),
         {a \in Account : Carries(a, snap[r].sub)} = {}
  PROVE  TaskMoves(r)
<1>0. /\ billingPc[r] = "update"
      /\ billingPc' = [billingPc EXCEPT ![r] = "find_customer"]
      /\ UNCHANGED <<now, billed, subscription, hist, acct, old, event, snap>>
      /\ BillingTypeOK /\ Handler(r)
  BY DEF UpdateFromStripe, GoOn, PaidInv, Handlers
<1>1. billingPc'[r] = "find_customer"
  BY <1>0 DEF BillingTypeOK
<1>2. BillingTypeOK'
  BY <1>0 DEF BillingTypeOK, billed, hist
<1>3. Handler(r)'
  <2>1. snap[r] \in [sub : Sub, seen : StateType]
    BY <1>0 DEF Handler, Applying
  <2>2. QED
    BY <1>0, <1>1, <2>1 DEF Handler, billed, Applying
<1>4. HandlerStep(r)
  <2>1. Others(r)
    BY <1>0 DEF Others, BillingTypeOK
  <2>2. snap[r] # Nil
    BY <1>0, BillingAssumption DEF Handler, Applying, EventType
  <2>3. QED
    BY <1>0, <1>1, <2>1, <2>2 DEF HandlerStep, billed, hist, Applying
<1>5. QED
  BY <1>0, <1>2, <1>3, <1>4 DEF TaskMoves, billed

LEMMA FindMoves ==
  ASSUME PaidInv, NEW r \in Slot, GetByStripeCustomer(r)
  PROVE  TaskMoves(r)
<1> DEFINE found == {a \in Account : /\ subscription[a] # Nil
                                     /\ subscription[a].cust = snap[r].seen.cust}
<1>0. billingPc[r] = "find_customer" /\ BillingTypeOK /\ Handler(r)
  BY DEF GetByStripeCustomer, PaidInv, Handlers
<1>1. CASE found = {}
  <2>1. /\ events' \in {events, events \ {event[r]}}
        /\ Leave(r)
        /\ UNCHANGED <<now, holder, stripe, store, offered, subscription, hist>>
    BY <1>1 DEF GetByStripeCustomer, Acknowledge
  <2>2. BillingTypeOK'
    BY <1>0, <2>1, LeaveTypes DEF BillingTypeOK, hist
  <2>3. HandlerStep(r)
    BY <2>1, LeaveTypes DEF HandlerStep, hist, Applying
  <2>4. QED
    BY <2>1, <2>2, <2>3, LeaveTypes DEF TaskMoves
<1>2. CASE found # {}
  <2>1. PICK a \in found : /\ acct' = [acct EXCEPT ![r] = a]
                           /\ old' = [old EXCEPT ![r] = Kept(a)]
    BY <1>2 DEF GetByStripeCustomer
  <2>2. /\ billingPc' = [billingPc EXCEPT ![r] = "relink"]
        /\ UNCHANGED <<now, billed, event, snap, subscription, hist>>
    BY <1>2 DEF GetByStripeCustomer, GoOn
  <2>3. /\ Kept(a) \in KeptType /\ Kept(a) # Nil /\ Kept(a).cust = snap[r].seen.cust
        /\ a \in Account
    BY <1>0, <2>1, BillingAssumption DEF Kept, KeptType, BillingTypeOK, RowType
  <2>4. /\ snap[r] \in [sub : Sub, seen : StateType]
        /\ snap[r].seen.cust = stripe[snap[r].sub].cust
        /\ stripe[snap[r].sub].cust # Nil
    <3>1. snap[r] \in [sub : Sub, seen : StateType]
      BY <1>0 DEF Handler, Applying
    <3>2. snap[r] = [sub |-> snap[r].sub, seen |-> snap[r].seen]
      BY <3>1
    <3>3. Circulates(snap[r].sub, snap[r].seen)
      BY <1>0, <3>2 DEF Circulates, Applying
    <3>4. QED
      BY <3>1, <3>3 DEF PaidInv, StatesInOrder
  <2>5. holder[Kept(a).cust] = a
    <3>1. RowLinked(a)
      BY <2>3 DEF PaidInv, Links
    <3>2. QED
      BY <2>1, <2>3, <2>4, <3>1 DEF RowLinked, Kept
  <2>6. BillingTypeOK'
    BY <1>0, <2>1, <2>2, <2>3 DEF BillingTypeOK, billed, hist
  <2>7. /\ billingPc'[r] = "relink" /\ acct'[r] = a /\ old'[r] = Kept(a)
        /\ event'[r] = event[r] /\ snap'[r] = snap[r]
    BY <1>0, <2>1, <2>2 DEF BillingTypeOK
  <2>8. Handler(r)'
    <3>1. HolderOf(snap[r].sub) = a
      BY <2>3, <2>4, <2>5 DEF HolderOf
    <3>2. /\ event[r] \in EventType /\ event[r].sub = snap[r].sub
          /\ event[r].seen # Nil => event[r] = snap[r]
      BY <1>0 DEF Handler
    <3>3. HolderOf(snap[r].sub)' = a
      BY <2>2, <2>7, <3>1 DEF HolderOf, billed
    <3>4. holder' = holder
      BY <2>2 DEF billed
    <3>5. QED
      BY <2>3, <2>4, <2>5, <2>7, <3>2, <3>3, <3>4 DEF Handler, Applying
  <2>9. HandlerStep(r)
    <3>1. Others(r)
      BY <1>0, <2>1, <2>2 DEF Others, BillingTypeOK
    <3>2. snap[r] # Nil
      BY <2>4, BillingAssumption DEF EventType
    <3>3. QED
      BY <1>0, <2>2, <2>7, <3>1, <3>2 DEF HandlerStep, billed, hist, Applying
  <2>10. QED
    BY <2>2, <2>6, <2>8, <2>9 DEF TaskMoves, billed
<1>3. QED
  BY <1>1, <1>2

LEMMA AbandonMoves ==
  ASSUME PaidInv, NEW r \in Slot, AbandonCall(r)
  PROVE  TaskMoves(r)
<1>1. /\ Leave(r)
      /\ UNCHANGED <<now, holder, stripe, events, store, offered, subscription, hist>>
  BY DEF AbandonCall, billed
<1>2. BillingTypeOK'
  BY <1>1, LeaveTypes DEF BillingTypeOK, PaidInv, hist
<1>3. HandlerStep(r)
  BY <1>1, LeaveTypes DEF HandlerStep, hist, Applying
<1>4. QED
  BY <1>1, <1>2, <1>3, LeaveTypes DEF TaskMoves

LEMMA TaskMovesKeepPaid ==
  ASSUME PaidInv, NEW r \in Slot, TaskMoves(r)
  PROVE  PaidInv'
<1>1. Moves
  BY HandlerStepMoves DEF TaskMoves
<1>2. \A a \in Account : RowLinked(a)' /\ RowPaid(a)'
  BY <1>1, RowKept DEF TaskMoves, HandlerStep
<1>3. QED
  BY <1>2, HandlerStepKeeps DEF TaskMoves

\* A subscription that did not exist, for the account of the handler in r.
Opened(r, s) ==
  /\ Announced(s)
  /\ stripe[s].status = "none"
  /\ stripe'[s].cust \in Customer /\ stripe'[s].cust # Nil
  /\ stripe'[s].status = "incomplete" /\ stripe'[s].end = now + 1
  /\ acct[r] \in Account /\ holder'[stripe'[s].cust] = acct[r]
  /\ old[r] # Nil /\ old[r].cust # Nil => holder'[old[r].cust] = acct[r]
  /\ \A c \in Customer : holder[c] # Nil => holder'[c] = holder[c]
  /\ \A a \in Account : apart[a] => apart'[a]
  /\ (\E t \in Sub : HolderOf(t) = acct[r] /\ ~Settled(t)) => apart'[acct[r]]
  /\ billingPc'[r] = "stash" /\ snap'[r] = [sub |-> s, seen |-> stripe'[s]]
  /\ acct'[r] = acct[r] /\ old'[r] = old[r]
  /\ Others(r)
  /\ UNCHANGED <<now, subscription, applied, store, offered>>

LEMMA NewSubscriptionOpens ==
  ASSUME PaidInv, NEW r \in Slot, NewSubscription(r)
  PROVE  BillingTypeOK' /\ \E s \in Sub : Opened(r, s)
<1> DEFINE a == acct[r]
<1>0. /\ billingPc[r] = "new_subscription"
      /\ billingPc' = [billingPc EXCEPT ![r] = "stash"]
      /\ UNCHANGED <<now, subscription, applied, store, offered, acct, old, event>>
      /\ BillingTypeOK /\ Handler(r)
  BY DEF NewSubscription, GoOn, PaidInv, Handlers
<1>1. a \in Account
  BY <1>0 DEF Handler
<1>2. PICK s \in Sub, c \in Customer :
        /\ stripe[s].status = "none"
        /\ IF old[r] # Nil /\ old[r].cust # Nil THEN c = old[r].cust ELSE holder[c] = Nil
        /\ holder' = [holder EXCEPT ![c] = a]
        /\ Change(s, [stripe[s] EXCEPT !.cust = c, !.status = "incomplete", !.end = now + 1], {})
        /\ apart' = IF \E t \in Sub : HolderOf(t) = a /\ ~Settled(t)
                       THEN [apart EXCEPT ![a] = TRUE] ELSE apart
        /\ snap' = [snap EXCEPT ![r] = [sub |-> s, seen |-> stripe'[s]]]
  BY DEF NewSubscription
<1> DEFINE state == [stripe[s] EXCEPT !.cust = c, !.status = "incomplete", !.end = now + 1]
<1>3. /\ stripe[s] \in StateType /\ now \in Nat /\ now + 1 \in 0 .. MaxTime + 1
      /\ stripe[s].version \in Nat
  <2>1. stripe[s] \in StateType /\ now \in 0 .. MaxTime /\ MaxTime \in Nat
    BY <1>0, BillingAssumption DEF BillingTypeOK
  <2>2. QED
    BY <2>1 DEF StateType
<1>4. /\ state \in StateType /\ state.cust = c /\ state.status = "incomplete"
      /\ state.end = now + 1 /\ state.version = stripe[s].version
  BY <1>3 DEF StateType, Status
<1>5. Change(s, state, {})
  BY <1>2
<1> HIDE DEF state
<1>6. /\ Announced(s) /\ stripe'[s].cust = c
      /\ stripe'[s].status = "incomplete" /\ stripe'[s].end = now + 1
  BY <1>0, <1>4, <1>5, ChangeAnnounces
<1>7. stripe'[s] \in StateType
  BY <1>6 DEF Announced
<1>8. /\ snap' \in [Slot -> EventType \union {Nil}]
      /\ snap'[r] = [sub |-> s, seen |-> stripe'[s]]
  <2> DEFINE e == [sub |-> s, seen |-> stripe'[s]]
  <2>1. e \in EventType
    BY <1>7 DEF EventType
  <2> HIDE DEF e
  <2>2. snap' = [snap EXCEPT ![r] = e]
    BY <1>2 DEF e
  <2>3. snap' \in [Slot -> EventType \union {Nil}] /\ snap'[r] = e
    BY <1>0, <2>1, <2>2 DEF BillingTypeOK
  <2>4. QED
    BY <2>3 DEF e
<1>9. events' \subseteq EventType
  BY <1>0, <1>6, <1>7 DEF Announced, BillingTypeOK, EventType
<1>10. /\ apart' \in [Account -> BOOLEAN]
       /\ \A b \in Account : apart[b] => apart'[b]
       /\ (\E t \in Sub : HolderOf(t) = a /\ ~Settled(t)) => apart'[a]
  <2>1. CASE \E t \in Sub : HolderOf(t) = a /\ ~Settled(t)
    <3>1. apart' = [apart EXCEPT ![a] = TRUE]
      BY <1>2, <2>1
    <3>2. QED
      BY <1>0, <1>1, <3>1 DEF BillingTypeOK
  <2>2. CASE ~\E t \in Sub : HolderOf(t) = a /\ ~Settled(t)
    <3>1. apart' = apart
      BY <1>2, <2>2
    <3>2. QED
      BY <1>0, <2>2, <3>1 DEF BillingTypeOK
  <2>3. QED
    BY <2>1, <2>2
<1>11. /\ holder' \in [Customer -> Account \union {Nil}]
       /\ holder'[c] = a
       /\ \A d \in Customer : holder[d] # Nil => holder'[d] = holder[d]
       /\ old[r] # Nil /\ old[r].cust # Nil => holder'[old[r].cust] = a
  <2>1. a # Nil
    BY <1>1, BillingAssumption
  <2>2. holder[c] = a \/ holder[c] = Nil
    BY <1>0, <1>2, <2>1 DEF Handler
  <2>3. holder' = [holder EXCEPT ![c] = a]
    BY <1>2
  <2>4. QED
    BY <1>0, <1>1, <1>2, <2>2, <2>3 DEF BillingTypeOK
<1>12. c # Nil
  BY BillingAssumption
<1>13. Others(r) /\ billingPc'[r] = "stash"
  BY <1>0, <1>2 DEF Others, BillingTypeOK
<1>14. BillingTypeOK'
  BY <1>0, <1>6, <1>8, <1>9, <1>10, <1>11 DEF BillingTypeOK, Announced
<1>15. Opened(r, s)
  BY <1>0, <1>1, <1>2, <1>6, <1>8, <1>10, <1>11, <1>12, <1>13 DEF Opened
<1>16. QED
  BY <1>14, <1>15

LEMMA OpenedMoves ==
  ASSUME PaidInv, NEW r \in Slot, NEW s \in Sub, Opened(r, s), BillingTypeOK'
  PROVE  /\ Moves
         /\ stripe[s].cust = Nil /\ HolderOf(s)' = acct[r]
         /\ \A v \in StateType : ~Circulates(s, v)
<1>0. /\ stripe[s] \in StateType /\ stripe'[s] \in StateType /\ now \in Nat
      /\ stripe[s].cust = Nil
  BY BillingAssumption DEF PaidInv, BillingTypeOK, Opened, Announced, Links
<1>1. now' \in Nat /\ now <= now'
  BY <1>0 DEF Opened
<1>2. \A t \in Sub : stripe'[t] = stripe[t] \/ Later(t)
  <2>1. Later(s)
    BY <1>0 DEF Opened, Announced, Later
  <2>2. QED
    BY <2>1 DEF Opened, Announced
<1>3. \A e \in events' : e \in events \/ (e.sub \in Sub /\ stripe'[e.sub].cust # Nil)
  BY DEF Opened, Announced
<1>4. \A v \in StateType : ~Circulates(s, v)
  BY <1>0 DEF PaidInv, StatesInOrder
<1>5. \A t \in Sub, v \in StateType :
        Circulates(t, v)' => Circulates(t, v) \/ (v = stripe'[t] /\ v.cust # Nil)
  <2> SUFFICES ASSUME NEW t \in Sub, NEW v \in StateType, Circulates(t, v)'
               PROVE  Circulates(t, v) \/ (v = stripe'[t] /\ v.cust # Nil)
    OBVIOUS
  <2>1. CASE v = stripe'[t] /\ stripe'[t].cust # Nil
    BY <2>1
  <2>2. CASE [sub |-> t, seen |-> v] \in events' /\ v # Nil
    <3>1. [sub |-> t, seen |-> v] \in events \/ (t = s /\ v = stripe'[s])
      BY <2>2 DEF Opened, Announced
    <3>2. QED
      BY <2>2, <3>1 DEF Circulates, Opened
  <2>3. ASSUME NEW q \in Slot, billingPc'[q] \in Applying, snap'[q] = [sub |-> t, seen |-> v]
        PROVE  Circulates(t, v) \/ (v = stripe'[t] /\ v.cust # Nil)
    <3>1. CASE q # r
      BY <2>3, <3>1 DEF Circulates, Opened, Others
    <3>2. CASE q = r
      BY <2>3, <3>2 DEF Opened
    <3>3. QED
      BY <3>1, <3>2
  <2>4. QED
    BY <2>1, <2>2, <2>3 DEF Circulates
<1>6. \A t \in Sub : Settled(t) => Settled(t)'
  <2> SUFFICES ASSUME NEW t \in Sub, Settled(t) PROVE Settled(t)'
    OBVIOUS
  <2>1. t # s
    BY DEF Settled, Opened
  <2>2. \A e \in events' : e.sub # t
    BY <2>1 DEF Settled, Opened, Announced
  <2>3. stripe'[t] = stripe[t]
    BY <2>1 DEF Opened, Announced
  <2>4. \A q \in Slot : snap'[q] = Nil \/ snap'[q].sub # t
    BY <2>1 DEF Settled, Opened, Others
  <2>5. QED
    BY <2>2, <2>3, <2>4 DEF Settled
<1>7. HolderOf(s)' = acct[r]
  BY DEF HolderOf, Opened
<1>8. QED
  BY <1>0, <1>1, <1>2, <1>3, <1>4, <1>5, <1>6, <1>7 DEF Moves, Opened

LEMMA OpenedKeepsPaid ==
  ASSUME PaidInv, NEW r \in Slot, NEW s \in Sub, Opened(r, s), BillingTypeOK'
  PROVE  PaidInv'
<1>1. Moves /\ HolderOf(s)' = acct[r]
  BY OpenedMoves
<1>2. Handler(r)'
  <2>1. snap'[r] \in [sub : Sub, seen : StateType] /\ snap'[r].sub = s
    BY DEF Opened, Announced
  <2>2. HolderOf(snap[r].sub)' = acct[r]
    BY <1>1, <2>1 DEF HolderOf
  <2>3. QED
    BY <1>1, <2>1 DEF Handler, Applying, Opened
<1>3. Handlers'
  <2> SUFFICES ASSUME NEW q \in Slot PROVE Handler(q)'
    BY DEF Handlers
  <2>1. CASE q # r
    BY <1>1, <2>1, HandlerKept DEF Opened, Others
  <2>2. QED
    BY <1>2, <2>1
<1>4. \A a \in Account : RowLinked(a)' /\ RowPaid(a)'
  BY <1>1, RowKept DEF Opened
<1>5. QED
  BY <1>1, <1>3, <1>4, OrderKept, StripeLinked DEF PaidInv, Links, RowsPaid

-----------------------------------------------------------------------------
(* The steps that apply a state *)

\* The handler in r puts state v of s, of account a, in the row it kept the rest of.
Applies(r, s, v, a, kept) ==
  /\ HandlerStep(r) /\ Handler(r)' /\ BillingTypeOK'
  /\ snap[r] = [sub |-> s, seen |-> v] /\ billingPc[r] \in Applying
  /\ HolderOf(s) = a
  /\ kept.cust # Nil => holder[kept.cust] = a
  /\ \/ kept.cust = stripe[s].cust
     \/ /\ billingPc[r] = "update" /\ Carries(a, s)
        /\ kept.cust = subscription[a].cust
  /\ kept.rc => \/ old[r] # Nil /\ old[r].rc /\ acct[r] = a
                \/ subscription[a] # Nil /\ subscription[a].rc
  /\ subscription'[a] = WithState(kept, s, v)
  /\ \A b \in Account \ {a} : subscription'[b] = subscription[b]
  /\ Note(s, v.version)
  /\ offered \subseteq offered' /\ offered' \subseteq offered \union {s}
  /\ \A e \in events : e \in events' \/ (e.sub = s /\ (e.seen # Nil => e.seen = v))

\* What is applied circulates.
LEMMA AppliedFacts ==
  ASSUME PaidInv, NEW r \in Slot, billingPc[r] \in Applying
  PROVE  LET s == snap[r].sub
             v == snap[r].seen
         IN /\ s \in Sub /\ v \in StateType /\ snap[r] = [sub |-> s, seen |-> v]
            /\ Circulates(s, v)
            /\ v.cust = stripe[s].cust /\ stripe[s].cust # Nil
            /\ HolderOf(s) \in Account /\ ~Settled(s)
<1> DEFINE s == snap[r].sub
           v == snap[r].seen
<1>1. s \in Sub /\ v \in StateType /\ snap[r] = [sub |-> s, seen |-> v] /\ snap[r] # Nil
  <2>1. snap[r] \in [sub : Sub, seen : StateType]
    BY DEF PaidInv, Handlers, Handler
  <2>2. snap[r] \in EventType
    BY <2>1 DEF EventType
  <2>3. QED
    BY <2>1, <2>2, BillingAssumption
<1>2. Circulates(s, v)
  BY <1>1 DEF Circulates
<1>3. v.cust = stripe[s].cust /\ stripe[s].cust # Nil
  BY <1>1, <1>2 DEF PaidInv, StatesInOrder
<1>4. HolderOf(s) \in Account
  BY <1>1, <1>3 DEF HolderOf, PaidInv, Links
<1>5. ~Settled(s)
  BY <1>1 DEF Settled
<1>6. QED
  BY <1>1, <1>2, <1>3, <1>4, <1>5

LEMMA NoteTypes ==
  ASSUME BillingTypeOK, NEW s \in Sub, NEW n \in Nat, Note(s, n), HolderOf(s) \in Account
  PROVE  LET a == HolderOf(s) IN
         /\ applied' \in [Sub -> Nat] /\ apart' \in [Account -> BOOLEAN]
         /\ apart'[a] <=> apart[a] \/ n < applied[s]
         /\ \A b \in Account \ {a} : apart'[b] = apart[b]
         /\ \A b \in Account : apart[b] => apart'[b]
         /\ \A t \in Sub \ {s} : applied'[t] = applied[t]
         /\ applied'[s] = IF apart'[a] THEN applied[s] ELSE n
<1> DEFINE a == HolderOf(s)
           later == apart[a] \/ n < applied[s]
<1>1. /\ apart' = [apart EXCEPT ![a] = later]
      /\ applied' = [applied EXCEPT ![s] = IF apart'[a] THEN applied[s] ELSE n]
  BY DEF Note, BillingTypeOK
<1>2. later \in BOOLEAN
  BY DEF BillingTypeOK
<1> HIDE DEF later
<1>3. /\ apart' \in [Account -> BOOLEAN] /\ apart'[a] = later
      /\ \A b \in Account \ {a} : apart'[b] = apart[b]
  BY <1>1, <1>2 DEF BillingTypeOK
<1>4. /\ applied' \in [Sub -> Nat]
      /\ \A t \in Sub \ {s} : applied'[t] = applied[t]
      /\ applied'[s] = IF apart'[a] THEN applied[s] ELSE n
  <2> DEFINE m == IF apart'[a] THEN applied[s] ELSE n
  <2>1. m \in Nat
    BY DEF BillingTypeOK
  <2> HIDE DEF m
  <2>2. applied' = [applied EXCEPT ![s] = m]
    BY <1>1 DEF m
  <2>3. QED
    BY <2>1, <2>2 DEF BillingTypeOK, m
<1>5. \A b \in Account : apart[b] => apart'[b]
  BY <1>3 DEF later
<1>6. QED
  BY <1>3, <1>4, <1>5 DEF later

LEMMA WithStateTypes ==
  ASSUME NEW kept \in KeptType, NEW s \in Sub, NEW v \in StateType
  PROVE  /\ WithState(kept, s, v) \in RowType
         /\ WithState(kept, s, v) # Nil
         /\ WithState(kept, s, v).rc = kept.rc /\ WithState(kept, s, v).cust = kept.cust
         /\ WithState(kept, s, v).sub = s /\ WithState(kept, s, v).end = v.end
         /\ WithState(kept, s, v).status = mapStripeStatus(v.status)
<1>1. mapStripeStatus(v.status) \in {"active", "expired", "cancelled"}
  BY DEF mapStripeStatus
<1>2. /\ kept.rc \in BOOLEAN /\ kept.cust \in Customer \union {Nil}
      /\ v.end \in 0 .. MaxTime + 1
  BY DEF KeptType, StateType
<1>3. WithState(kept, s, v) \in RowType
  BY <1>1, <1>2 DEF WithState, RowType
<1>4. QED
  BY <1>3, BillingAssumption DEF WithState

LEMMA StashApplies ==
  ASSUME PaidInv, NEW r \in Slot, Stash(r)
  PROVE  /\ \E kept \in KeptType :
              Applies(r, snap[r].sub, snap[r].seen, acct[r], kept)
         /\ acct[r] \in Account /\ snap[r].sub \in offered' 
<1> DEFINE s == snap[r].sub
           v == snap[r].seen
           a == acct[r]
           kept == [rc |-> old[r] # Nil /\ old[r].rc, cust |-> v.cust]
<1>0. /\ billingPc[r] = "stash" /\ Leave(r) /\ Note(s, v.version)
      /\ subscription' = [subscription EXCEPT ![a] = WithState(kept, s, v)]
      /\ offered' = offered \union {s}
      /\ UNCHANGED <<now, holder, stripe, events, store>>
      /\ BillingTypeOK /\ Handler(r)
  BY DEF Stash, PaidInv, Handlers
<1>1. /\ s \in Sub /\ v \in StateType /\ snap[r] = [sub |-> s, seen |-> v]
      /\ v.cust = stripe[s].cust /\ stripe[s].cust # Nil
      /\ HolderOf(s) \in Account
  BY <1>0, AppliedFacts DEF Applying
<1>2. a = HolderOf(s)
  BY <1>0 DEF Handler
<1>3. kept \in KeptType /\ kept.cust = v.cust /\ (kept.rc => old[r] # Nil /\ old[r].rc)
  BY <1>0, <1>1 DEF KeptType, StateType
<1>4. holder[v.cust] = a
  BY <1>1, <1>2 DEF HolderOf
<1> HIDE DEF kept
<1>5. subscription' \in [Account -> RowType \union {Nil}] /\ subscription'[a] = WithState(kept, s, v)
      /\ \A b \in Account \ {a} : subscription'[b] = subscription[b]
  <2>1. WithState(kept, s, v) \in RowType
    BY <1>1, <1>3, WithStateTypes
  <2>2. QED
    BY <1>0, <1>1, <1>2, <2>1 DEF BillingTypeOK
<1>6. v.version \in Nat
  BY <1>1 DEF StateType
<1>7. /\ applied' \in [Sub -> Nat] /\ apart' \in [Account -> BOOLEAN]
      /\ \A b \in Account : apart[b] => apart'[b]
  BY <1>0, <1>1, <1>6, NoteTypes
<1>8. BillingTypeOK'
  BY <1>0, <1>1, <1>5, <1>7, LeaveTypes DEF BillingTypeOK
<1>9. HandlerStep(r) /\ Handler(r)'
  BY <1>0, <1>7, LeaveTypes DEF HandlerStep, Applying
<1>10. Applies(r, s, v, a, kept)
  <2>1. \A e \in events : e \in events'
    BY <1>0
  <2>2. kept.cust = stripe[s].cust /\ holder[kept.cust] = a
    BY <1>1, <1>3, <1>4
  <2>3. offered \subseteq offered' /\ offered' \subseteq offered \union {s}
    BY <1>0
  <2>4. billingPc[r] \in Applying
    BY <1>0 DEF Applying
  <2>5. QED
    BY <1>0, <1>1, <1>2, <1>3, <1>5, <1>8, <1>9, <2>1, <2>2, <2>3, <2>4 DEF Applies
<1>11. QED
  BY <1>0, <1>1, <1>2, <1>3, <1>10

LEMMA UpdateApplies ==
  ASSUME PaidInv, NEW r \in Slot, UpdateFromStripe(r),
         {a \in Account : Carries(a, snap[r].sub)} # {}
  PROVE  /\ offered' = offered
         /\ \E a \in Account, kept \in KeptType :
              Applies(r, snap[r].sub, snap[r].seen, a, kept)
<1> DEFINE s == snap[r].sub
           v == snap[r].seen
           carriers == {a \in Account : Carries(a, s)}
<1>0. /\ billingPc[r] = "update"
      /\ subscription' = [a \in Account |->
            IF a \in carriers THEN WithState(Kept(a), s, v) ELSE subscription[a]]
      /\ Note(s, v.version)
      /\ events' \in {events, events \ {event[r]}}
      /\ Leave(r)
      /\ UNCHANGED <<now, holder, stripe, store, offered>>
      /\ BillingTypeOK /\ Handler(r)
  BY DEF UpdateFromStripe, Acknowledge, PaidInv, Handlers
<1>1. /\ s \in Sub /\ v \in StateType /\ snap[r] = [sub |-> s, seen |-> v]
      /\ v.cust = stripe[s].cust /\ stripe[s].cust # Nil
      /\ HolderOf(s) \in Account
  BY <1>0, AppliedFacts DEF Applying
<1>2. PICK a \in Account : Carries(a, s)
  OBVIOUS
<1>3. /\ carriers = {a} /\ a = HolderOf(s)
      /\ subscription[a].cust # Nil => holder[subscription[a].cust] = a
  <2>1. \A b \in Account : Carries(b, s) => HolderOf(s) = b
    BY <1>1, BillingAssumption DEF Carries, PaidInv, Links, RowLinked
  <2>2. carriers = {a}
    BY <1>2, <2>1
  <2>3. RowLinked(a)
    BY DEF PaidInv, Links
  <2>4. QED
    BY <1>2, <2>1, <2>2, <2>3 DEF RowLinked, Carries
<1> HIDE DEF carriers
<1>4. /\ Kept(a) \in KeptType /\ Kept(a).cust = subscription[a].cust
      /\ Kept(a).rc => subscription[a] # Nil /\ subscription[a].rc
  BY <1>0, <1>2 DEF Kept, KeptType, Carries, BillingTypeOK, RowType
<1> DEFINE kept == Kept(a)
<1>5. subscription' \in [Account -> RowType \union {Nil}] /\ subscription'[a] = WithState(kept, s, v)
      /\ \A b \in Account \ {a} : subscription'[b] = subscription[b]
  <2>1. WithState(kept, s, v) \in RowType
    BY <1>1, <1>4, WithStateTypes
  <2>2. QED
    BY <1>0, <1>3, <2>1 DEF BillingTypeOK
<1>6. v.version \in Nat
  BY <1>1 DEF StateType
<1>7. /\ applied' \in [Sub -> Nat] /\ apart' \in [Account -> BOOLEAN]
      /\ \A b \in Account : apart[b] => apart'[b]
  BY <1>0, <1>1, <1>6, NoteTypes
<1>8. BillingTypeOK'
  BY <1>0, <1>5, <1>7, LeaveTypes DEF BillingTypeOK
<1>9. HandlerStep(r) /\ Handler(r)'
  BY <1>0, <1>7, LeaveTypes DEF HandlerStep, Applying
<1>10. \A e \in events : e \in events' \/ (e.sub = s /\ (e.seen # Nil => e.seen = v))
  <2>1. event[r].sub = s /\ (event[r].seen # Nil => event[r].seen = v)
    BY <1>0 DEF Handler
  <2>2. QED
    BY <1>0, <2>1
<1>11. Applies(r, s, v, a, kept)
  BY <1>0, <1>1, <1>2, <1>3, <1>4, <1>5, <1>8, <1>9, <1>10 DEF Applies, Applying
<1>12. QED
  BY <1>0, <1>4, <1>11

LEMMA RelinkApplies ==
  ASSUME PaidInv, NEW r \in Slot, RelinkCustomer(r)
  PROVE  /\ offered' = offered
         /\ acct[r] \in Account
         /\ \E kept \in KeptType :
              Applies(r, snap[r].sub, snap[r].seen, acct[r], kept)
<1> DEFINE s == snap[r].sub
           v == snap[r].seen
           a == acct[r]
           kept == old[r]
<1>0. /\ billingPc[r] = "relink"
      /\ subscription' = [subscription EXCEPT ![a] = WithState(kept, s, v)]
      /\ Note(s, v.version)
      /\ events' \in {events, events \ {event[r]}}
      /\ Leave(r)
      /\ UNCHANGED <<now, holder, stripe, store, offered>>
      /\ BillingTypeOK /\ Handler(r)
  BY DEF RelinkCustomer, Acknowledge, PaidInv, Handlers
<1>1. /\ s \in Sub /\ v \in StateType /\ snap[r] = [sub |-> s, seen |-> v]
      /\ v.cust = stripe[s].cust /\ stripe[s].cust # Nil
      /\ HolderOf(s) \in Account
  BY <1>0, AppliedFacts DEF Applying
<1>2. a = HolderOf(s) /\ kept # Nil /\ kept.cust = v.cust
  BY <1>0 DEF Handler
<1>3. kept \in KeptType
  BY <1>0, <1>2 DEF BillingTypeOK
<1>4. holder[v.cust] = a
  BY <1>1, <1>2 DEF HolderOf
<1>5. subscription' \in [Account -> RowType \union {Nil}] /\ subscription'[a] = WithState(kept, s, v)
      /\ \A b \in Account \ {a} : subscription'[b] = subscription[b]
  <2>1. WithState(kept, s, v) \in RowType
    BY <1>1, <1>3, WithStateTypes
  <2>2. QED
    BY <1>0, <1>1, <1>2, <2>1 DEF BillingTypeOK
<1>6. v.version \in Nat
  BY <1>1 DEF StateType
<1>7. /\ applied' \in [Sub -> Nat] /\ apart' \in [Account -> BOOLEAN]
      /\ \A b \in Account : apart[b] => apart'[b]
  BY <1>0, <1>1, <1>6, NoteTypes
<1>8. BillingTypeOK'
  BY <1>0, <1>5, <1>7, LeaveTypes DEF BillingTypeOK
<1>9. HandlerStep(r) /\ Handler(r)'
  BY <1>0, <1>7, LeaveTypes DEF HandlerStep, Applying
<1>10. \A e \in events : e \in events' \/ (e.sub = s /\ (e.seen # Nil => e.seen = v))
  <2>1. event[r].sub = s /\ (event[r].seen # Nil => event[r].seen = v)
    BY <1>0 DEF Handler
  <2>2. QED
    BY <1>0, <2>1
<1>11. Applies(r, s, v, a, kept)
  BY <1>0, <1>1, <1>2, <1>3, <1>4, <1>5, <1>8, <1>9, <1>10 DEF Applies, Applying
<1>12. QED
  BY <1>0, <1>1, <1>2, <1>3, <1>11

LEMMA AppliesKeepsPaid ==
  ASSUME PaidInv, NEW r \in Slot, NEW s \in Sub, NEW v \in StateType, NEW a \in Account,
         NEW kept \in KeptType, Applies(r, s, v, a, kept)
  PROVE  Moves /\ PaidInv'
<1>1. Moves /\ BillingTypeOK'
  BY HandlerStepMoves DEF Applies
<1>2. ASSUME NEW b \in Account, b # a PROVE RowLinked(b)' /\ RowPaid(b)'
  BY <1>1, <1>2, RowKept DEF Applies, HandlerStep
<1>3. Circulates(s, v) /\ stripe[s].cust # Nil /\ HolderOf(s) = a /\ stripe[s] \in StateType
  <2>1. Circulates(s, v)
    BY DEF Applies, Circulates
  <2>2. QED
    BY <2>1, BillingAssumption DEF Applies, HolderOf, PaidInv, BillingTypeOK
<1>4. /\ subscription'[a] # Nil
      /\ subscription'[a].cust = kept.cust
      /\ subscription'[a].sub = s /\ subscription'[a].end = v.end
      /\ subscription'[a].status = mapStripeStatus(v.status)
  BY WithStateTypes DEF Applies
<1>5. HolderOf(s)' = a
  BY <1>1, <1>3, HolderStays
<1>6. RowLinked(a)'
  BY <1>4, <1>5 DEF RowLinked, HolderOf, Applies, HandlerStep
<1>7. RowPaid(a)'
  <2>1. store'[a] <= now' + 1
    BY DEF PaidInv, RowsPaid, RowPaid, Applies, HandlerStep
  <2>2. ASSUME mapStripeStatus(v.status) = "active"
        PROVE  PaidUntil(a, v.end)'
    <3>1. Paid(v)
      BY <2>2 DEF mapStripeStatus, Paid
    <3>2. Ordered(v, stripe[s]) /\ v.version <= stripe[s].version
      BY <1>3 DEF PaidInv, StatesInOrder, Circulates
    <3>3. Paid(stripe[s]) /\ v.end <= stripe[s].end
      BY <3>1, <3>2 DEF Ordered
    <3>4. stripe[s].end >= v.end
      <4>1. stripe[s].end \in Nat /\ v.end \in Nat
        BY <1>3, BillingAssumption DEF StateType
      <4>2. QED
        BY <3>3, <4>1
    <3>5. QED
      BY <1>5, <3>3, <3>4 DEF PaidUntil, Applies, HandlerStep
  <2>3. QED
    BY <1>4, <2>1, <2>2 DEF RowPaid, PaidUntil
<1>8. QED
  BY <1>1, <1>2, <1>6, <1>7, HandlerStepKeeps DEF Applies

-----------------------------------------------------------------------------
(* Time and RevenueCat *)

Still == UNCHANGED <<holder, stripe, events, offered, hist, task>>

LEMMA StillMoves ==
  ASSUME PaidInv, Still, BillingTypeOK', now <= now'
  PROVE  Moves /\ Handlers'
<1>1. Moves
  <2>1. now' \in Nat
    BY BillingAssumption DEF BillingTypeOK
  <2>2. \A t \in Sub, v \in StateType : Circulates(t, v)' => Circulates(t, v)
    BY DEF Still, task, Circulates
  <2>3. \A t \in Sub : Settled(t) => Settled(t)'
    BY DEF Still, task, Settled
  <2>4. QED
    BY <2>1, <2>2, <2>3 DEF Moves, Still, hist
<1>2. Handlers'
  BY <1>1, HandlerKept DEF Handlers, Still, task
<1>3. QED
  BY <1>1, <1>2

LEMMA TickKeepsPaid ==
  ASSUME PaidInv, Tick
  PROVE  PaidInv' /\ Still /\ Moves
<1>1. Still
  BY DEF Tick, Still, billed
<1>2. BillingTypeOK' /\ now <= now'
  BY BillingAssumption DEF PaidInv, BillingTypeOK, Tick, billed, hist, task
<1>3. Moves /\ Handlers'
  BY <1>1, <1>2, StillMoves
<1>4. \A a \in Account : RowLinked(a)' /\ RowPaid(a)'
  BY <1>2, <1>3, RowKept DEF Tick, billed
<1>5. QED
  BY <1>1, <1>2, <1>3, <1>4, OrderKept, StripeLinked DEF PaidInv, Links, RowsPaid

\* A purchase RevenueCat tells of, in a row of its time.
RevenueCatWrites(a) ==
  /\ Still /\ now' = now
  /\ subscription[a] # Nil /\ subscription[a].rc
  /\ \A b \in Account \ {a} : subscription'[b] = subscription[b] /\ store'[b] = store[b]
  /\ subscription' \in [Account -> RowType \union {Nil}]
  /\ store' \in [Account -> 0 .. MaxTime + 1] /\ store'[a] <= now + 1
  /\ subscription'[a].rc /\ subscription'[a].sub = subscription[a].sub
  /\ subscription'[a].cust = subscription[a].cust
  /\ subscription'[a].status = "active" => subscription'[a].end <= store'[a]

LEMMA RevenueCatRow ==
  ASSUME BillingTypeOK, NEW a \in Account, NEW status \in {"active", "expired", "cancelled"},
         NEW end \in 0 .. MaxTime + 1, RevenueCat(a, status, end)
  PROVE  /\ subscription[a] # Nil /\ subscription[a].rc
         /\ \A b \in Account \ {a} : subscription'[b] = subscription[b]
         /\ subscription' \in [Account -> RowType \union {Nil}]
         /\ subscription'[a].rc /\ subscription'[a].sub = subscription[a].sub
         /\ subscription'[a].cust = subscription[a].cust
         /\ subscription'[a].status = status /\ subscription'[a].end = end
         /\ Still /\ now' = now
<1> DEFINE new == [[subscription[a] EXCEPT !.status = status] EXCEPT !.end = end]
<1>1. subscription[a] # Nil /\ subscription[a].rc /\ subscription[a] \in RowType
  BY DEF RevenueCat, BillingTypeOK
<1>2. /\ new \in RowType /\ new.rc /\ new.sub = subscription[a].sub
      /\ new.cust = subscription[a].cust /\ new.status = status /\ new.end = end
  BY <1>1 DEF RowType
<1>3. subscription' = [subscription EXCEPT ![a] = new]
  BY DEF RevenueCat, BillingTypeOK
<1> HIDE DEF new
<1>4. /\ subscription' \in [Account -> RowType \union {Nil}] /\ subscription'[a] = new
      /\ \A b \in Account \ {a} : subscription'[b] = subscription[b]
  BY <1>2, <1>3 DEF BillingTypeOK
<1>5. Still /\ now' = now
  BY DEF RevenueCat, Still
<1>6. QED
  BY <1>1, <1>2, <1>4, <1>5

LEMMA RevenueCatRenews ==
  ASSUME PaidInv, NEW a \in Account,
         RevenueCatRenewal(a) \/ RevenueCatCancellation(a) \/ RevenueCatExpiration(a)
  PROVE  RevenueCatWrites(a)
<1>0. /\ BillingTypeOK /\ now \in Nat /\ now + 1 \in 0 .. MaxTime + 1
      /\ store[a] \in 0 .. MaxTime + 1 /\ store[a] <= now + 1 /\ now + 1 <= now + 1
  <2>1. BillingTypeOK /\ now \in 0 .. MaxTime /\ MaxTime \in Nat
    BY BillingAssumption DEF PaidInv, BillingTypeOK
  <2>2. QED
    BY <2>1 DEF PaidInv, BillingTypeOK, RowsPaid, RowPaid
<1>1. CASE RevenueCatRenewal(a)
  <2>1. RevenueCat(a, "active", now + 1) /\ store' = [store EXCEPT ![a] = now + 1]
    BY <1>1 DEF RevenueCatRenewal
  <2>2. /\ store' \in [Account -> 0 .. MaxTime + 1] /\ store'[a] = now + 1
        /\ \A b \in Account \ {a} : store'[b] = store[b]
    BY <1>0, <2>1 DEF BillingTypeOK
  <2>3. QED
    BY <1>0, <2>1, <2>2, RevenueCatRow DEF RevenueCatWrites
<1>2. CASE RevenueCatCancellation(a)
  <2>1. RevenueCat(a, "cancelled", store[a]) /\ store' = store
    BY <1>2 DEF RevenueCatCancellation
  <2>2. QED
    BY <1>0, <2>1, RevenueCatRow DEF RevenueCatWrites, BillingTypeOK
<1>3. CASE RevenueCatExpiration(a)
  <2>1. RevenueCat(a, "expired", store[a]) /\ store' = store
    BY <1>3 DEF RevenueCatExpiration
  <2>2. QED
    BY <1>0, <2>1, RevenueCatRow DEF RevenueCatWrites, BillingTypeOK
<1>4. QED
  BY <1>1, <1>2, <1>3

LEMMA RevenueCatKeepsPaid ==
  ASSUME PaidInv, NEW a \in Account, RevenueCatWrites(a)
  PROVE  PaidInv' /\ Moves
<1>1. BillingTypeOK' /\ now <= now'
  BY BillingAssumption DEF PaidInv, BillingTypeOK, RevenueCatWrites, Still, hist, task
<1>2. Moves /\ Handlers'
  BY <1>1, StillMoves DEF RevenueCatWrites
<1>3. ASSUME NEW b \in Account, b # a PROVE RowLinked(b)' /\ RowPaid(b)'
  BY <1>1, <1>2, <1>3, RowKept DEF RevenueCatWrites
<1>4. RowLinked(a)'
  <2>1. RowLinked(a)
    BY DEF PaidInv, Links
  <2>2. QED
    BY <2>1 DEF RowLinked, HolderOf, RevenueCatWrites, Still
<1>5. RowPaid(a)'
  <2>1. ASSUME subscription'[a] # Nil, subscription'[a].status = "active"
        PROVE  store'[a] >= subscription'[a].end
    <3>1. subscription'[a] \in RowType /\ subscription'[a].end <= store'[a]
      BY <2>1 DEF RevenueCatWrites
    <3>2. subscription'[a].end \in Nat /\ store'[a] \in Nat
      BY <3>1, BillingAssumption DEF RowType, RevenueCatWrites
    <3>3. QED
      BY <3>1, <3>2
  <2>2. QED
    BY <2>1 DEF RowPaid, PaidUntil, RevenueCatWrites
<1>6. QED
  BY <1>1, <1>2, <1>3, <1>4, <1>5, OrderKept, StripeLinked DEF PaidInv, Links, RowsPaid

-----------------------------------------------------------------------------
(* Every step is one of these *)

LEMMA StepKinds ==
  ASSUME PaidInv, [BillingNext]_billingVars
  PROVE  \/ UNCHANGED billingVars
         \/ Tick
         \/ \E s \in Sub : Goes(s)
         \/ \E a \in Account : RevenueCatWrites(a)
         \/ \E r \in Slot : TaskMoves(r) /\ (events' = events \/ GetByStripeCustomer(r))
         \/ \E r \in Slot, s \in Sub : Opened(r, s) /\ BillingTypeOK'
         \/ \E r \in Slot, s \in Sub, v \in StateType, a \in Account, kept \in KeptType :
              Applies(r, s, v, a, kept) /\ (offered' = offered \/ Stash(r))
<1>1. ASSUME NEW s \in Sub, Pay(s) \/ Lapse(s) \/ Renew(s) PROVE Goes(s)
  BY <1>1, PayGoes, LapseGoes, RenewGoes
<1>2. ASSUME NEW a \in Account, Cancel(a) PROVE \E s \in Sub : Goes(s)
  BY <1>2, CancelGoes
<1>3. ASSUME NEW r \in Slot, NEW a \in Account, Subscribe(r, a)
      PROVE  TaskMoves(r) /\ events' = events
  BY <1>3, SubscribeMoves DEF Subscribe, billed
<1>4. ASSUME NEW r \in Slot, NEW e \in events, Deliver(r, e)
      PROVE  TaskMoves(r) /\ events' = events
  BY <1>4, DeliverMoves DEF Deliver, billed
<1>5. ASSUME NEW r \in Slot, Fetch(r) PROVE TaskMoves(r) /\ events' = events
  BY <1>5, FetchMoves DEF Fetch, billed
<1>6. ASSUME NEW r \in Slot, AbandonCall(r) PROVE TaskMoves(r) /\ events' = events
  BY <1>6, AbandonMoves DEF AbandonCall, billed
<1>7. ASSUME NEW r \in Slot, GetByStripeCustomer(r) PROVE TaskMoves(r)
  BY <1>7, FindMoves
<1>8. ASSUME NEW r \in Slot, billingPc[r] \in Applying
      PROVE  snap[r].sub \in Sub /\ snap[r].seen \in StateType
  BY <1>8, AppliedFacts
<1>9. ASSUME NEW r \in Slot, UpdateFromStripe(r)
      PROVE  \/ TaskMoves(r) /\ events' = events
             \/ \E s \in Sub, v \in StateType, a \in Account, kept \in KeptType :
                  Applies(r, s, v, a, kept) /\ offered' = offered
  <2>1. CASE {a \in Account : Carries(a, snap[r].sub)} = {}
    <3>1. events' = events
      BY <1>9, <2>1 DEF UpdateFromStripe, billed
    <3>2. QED
      BY <1>9, <2>1, <3>1, SearchMoves
  <2>2. CASE {a \in Account : Carries(a, snap[r].sub)} # {}
    <3>1. snap[r].sub \in Sub /\ snap[r].seen \in StateType
      BY <1>8, <1>9 DEF UpdateFromStripe, Applying
    <3>2. QED
      BY <1>9, <2>2, <3>1, UpdateApplies
  <2>3. QED
    BY <2>1, <2>2
<1>10. ASSUME NEW r \in Slot, Stash(r)
       PROVE  \E s \in Sub, v \in StateType, a \in Account, kept \in KeptType :
                Applies(r, s, v, a, kept)
  <2>1. snap[r].sub \in Sub /\ snap[r].seen \in StateType
    BY <1>8, <1>10 DEF Stash, Applying
  <2>2. QED
    BY <1>10, <2>1, StashApplies
<1>11. ASSUME NEW r \in Slot, RelinkCustomer(r)
       PROVE  \E s \in Sub, v \in StateType, a \in Account, kept \in KeptType :
                Applies(r, s, v, a, kept) /\ offered' = offered
  <2>1. snap[r].sub \in Sub /\ snap[r].seen \in StateType
    BY <1>8, <1>11 DEF RelinkCustomer, Applying
  <2>2. QED
    BY <1>11, <2>1, RelinkApplies
<1>12. ASSUME NEW r \in Slot, NewSubscription(r)
       PROVE  \E s \in Sub : Opened(r, s) /\ BillingTypeOK'
  BY <1>12, NewSubscriptionOpens
<1>13. ASSUME NEW a \in Account,
              RevenueCatRenewal(a) \/ RevenueCatCancellation(a) \/ RevenueCatExpiration(a)
       PROVE  RevenueCatWrites(a)
  BY <1>13, RevenueCatRenews
<1>14. CASE BillingNext
  BY <1>1, <1>2, <1>3, <1>4, <1>5, <1>6, <1>7, <1>9, <1>10, <1>11, <1>12, <1>13, <1>14
     DEF BillingNext
<1>15. QED
  BY <1>14

LEMMA PaidInit ==
  ASSUME BillingInit
  PROVE  PaidInv
<1>1. BillingTypeOK
  <2>1. stripe \in [Sub -> StateType]
    BY BillingAssumption DEF BillingInit, StateType, Status
  <2>2. subscription \in [Account -> RowType \union {Nil}]
    BY BillingAssumption DEF BillingInit, RowType
  <2>3. store \in [Account -> 0 .. MaxTime + 1]
    BY BillingAssumption DEF BillingInit
  <2>4. now \in 0 .. MaxTime
    BY BillingAssumption DEF BillingInit
  <2>5. /\ holder \in [Customer -> Account \union {Nil}] /\ events \subseteq EventType
        /\ offered \subseteq Sub /\ applied \in [Sub -> Nat]
    BY DEF BillingInit
  <2>6. apart \in [Account -> BOOLEAN]
    BY DEF BillingInit
  <2>7. /\ billingPc \in [Slot -> {"idle", "new_subscription", "stash", "fetch", "update",
                                  "find_customer", "relink"}]
        /\ acct \in [Slot -> Account \union {Nil}]
        /\ old \in [Slot -> KeptType \union {Nil}]
        /\ event \in [Slot -> EventType \union {Nil}]
        /\ snap \in [Slot -> EventType \union {Nil}]
    BY DEF BillingInit
  <2>8. QED
    BY <2>1, <2>2, <2>3, <2>4, <2>5, <2>6, <2>7 DEF BillingTypeOK
<1>2. Handlers
  BY DEF BillingInit, Handlers, Handler, Applying
<1>3. Links
  BY DEF BillingInit, Links, RowLinked
<1>4. StatesInOrder
  BY DEF BillingInit, StatesInOrder, Circulates, Applying
<1>5. RowsPaid
  BY BillingAssumption DEF BillingInit, RowsPaid, RowPaid, PaidUntil
<1>6. QED
  BY <1>1, <1>2, <1>3, <1>4, <1>5 DEF PaidInv

LEMMA NothingMoves ==
  ASSUME PaidInv, UNCHANGED billingVars
  PROVE  Moves /\ PaidInv' /\ Still
<1>1. Still
  BY DEF billingVars, billed, Still
<1>2. BillingTypeOK' /\ now <= now' /\ UNCHANGED <<subscription, store>>
  BY BillingAssumption DEF billingVars, billed, hist, task, PaidInv, BillingTypeOK
<1>3. Moves /\ Handlers'
  BY <1>1, <1>2, StillMoves
<1>4. \A a \in Account : RowLinked(a)' /\ RowPaid(a)'
  BY <1>2, <1>3, RowKept
<1>5. QED
  BY <1>1, <1>2, <1>3, <1>4, OrderKept, StripeLinked DEF PaidInv, Links, RowsPaid

LEMMA PaidNext ==
  ASSUME PaidInv, [BillingNext]_billingVars
  PROVE  PaidInv' /\ Moves
<1>1. CASE UNCHANGED billingVars
  BY <1>1, NothingMoves
<1>2. CASE Tick
  BY <1>2, TickKeepsPaid
<1>3. CASE \E s \in Sub : Goes(s)
  BY <1>3, GoesMoves, GoesKeepsPaid
<1>4. CASE \E a \in Account : RevenueCatWrites(a)
  BY <1>4, RevenueCatKeepsPaid
<1>5. CASE \E r \in Slot : TaskMoves(r)
  BY <1>5, TaskMovesKeepPaid, HandlerStepMoves DEF TaskMoves
<1>6. CASE \E r \in Slot, s \in Sub : Opened(r, s) /\ BillingTypeOK'
  BY <1>6, OpenedMoves, OpenedKeepsPaid
<1>7. CASE \E r \in Slot, s \in Sub, v \in StateType, a \in Account, kept \in KeptType :
             Applies(r, s, v, a, kept)
  BY <1>7, AppliesKeepsPaid
<1>8. QED
  BY <1>1, <1>2, <1>3, <1>4, <1>5, <1>6, <1>7, StepKinds

\* Every variable has its type (BillingTypeOK).
THEOREM BillingTypes == BillingSpec => []BillingTypeOK
<1>1. BillingInit => PaidInv
  BY PaidInit
<1>2. PaidInv /\ [BillingNext]_billingVars => PaidInv'
  BY PaidNext
<1>3. PaidInv => BillingTypeOK
  BY DEF PaidInv
<1>4. QED
  BY <1>1, <1>2, <1>3, PTL DEF BillingSpec

\* Premium is only had in a period that was paid (PremiumWasPaid).
THEOREM PremiumIsPaid == BillingSpec => []PremiumWasPaid
<1>1. BillingInit => PaidInv
  BY PaidInit
<1>2. PaidInv /\ [BillingNext]_billingVars => PaidInv'
  BY PaidNext
<1>3. PaidInv => PremiumWasPaid
  <2> SUFFICES ASSUME PaidInv, NEW a \in Account, IsPremium(a)
               PROVE  \/ store[a] > now
                      \/ \E s \in Sub :
                           /\ HolderOf(s) = a
                           /\ stripe[s].status \notin {"incomplete", "incomplete_expired"}
                           /\ stripe[s].end > now
    BY DEF PremiumWasPaid
  <2>1. /\ subscription[a] # Nil /\ subscription[a].status = "active"
        /\ ~(now >= subscription[a].end)
    BY DEF IsPremium, IsExpired
  <2>2. PaidUntil(a, subscription[a].end)
    BY <2>1 DEF PaidInv, RowsPaid, RowPaid
  <2>3. /\ now \in Nat /\ store[a] \in Nat /\ subscription[a].end \in Nat
        /\ \A s \in Sub : stripe[s].end \in Nat
    BY <2>1, BillingAssumption DEF PaidInv, BillingTypeOK, RowType, StateType
  <2>4. QED
    BY <2>1, <2>2, <2>3 DEF PaidUntil, Paid
<1>4. QED
  BY <1>1, <1>2, <1>3, PTL DEF BillingSpec

-----------------------------------------------------------------------------
(* Premium ends only as time passes *)

LEMMA HolderWas ==
  ASSUME PaidInv, PaidInv', Moves, NEW s \in Sub, HolderOf(s) \in Account
  PROVE  HolderOf(s)' = HolderOf(s) /\ stripe[s].cust # Nil /\ Circulates(s, stripe[s])
<1>1. stripe[s].cust # Nil
  BY BillingAssumption DEF HolderOf
<1>2. QED
  BY <1>1, HolderStays DEF Circulates

\* Whoever applies or opens nothing keeps what a row of an account that is not apart says.
LEMMA NotAheadKept ==
  ASSUME EndInv, PaidInv', Moves, NEW a \in Account, NEW s \in Sub,
         ~apart'[a], subscription'[a] = subscription[a], applied'[s] = applied[s],
         Carries(a, s)
  PROVE  /\ applied'[s] <= stripe'[s].version
         /\ \A v \in StateType : Circulates(s, v)' /\ v.version >= applied'[s] =>
              /\ subscription[a].end <= v.end
              /\ subscription[a].status = "active" => Paid(v)
<1>1. ~apart[a]
  BY DEF Moves
<1>2. /\ applied[s] <= stripe[s].version
      /\ \A v \in StateType : Circulates(s, v) /\ v.version >= applied[s] =>
           /\ subscription[a].end <= v.end
           /\ subscription[a].status = "active" => Paid(v)
  BY <1>1 DEF EndInv, RowNotAhead
<1>3. HolderOf(s) = a /\ subscription[a] \in RowType
  <2>1. RowLinked(a) /\ subscription[a] # Nil /\ subscription[a].sub = s
    BY DEF EndInv, PaidInv, Links, Carries
  <2>2. QED
    BY <2>1, BillingAssumption DEF RowLinked, EndInv, PaidInv, BillingTypeOK
<1>4. stripe[s].cust # Nil /\ Circulates(s, stripe[s])
  BY <1>3, HolderWas DEF EndInv
<1>5. /\ stripe[s] \in StateType /\ stripe'[s] \in StateType /\ applied[s] \in Nat
      /\ stripe[s].version \in Nat /\ stripe'[s].version \in Nat
      /\ stripe[s].end \in Nat /\ stripe'[s].end \in Nat /\ subscription[a].end \in Nat
  <2>1. stripe[s] \in StateType /\ stripe'[s] \in StateType /\ applied[s] \in Nat
    BY DEF EndInv, PaidInv, BillingTypeOK
  <2>2. QED
    BY <1>3, <2>1, BillingAssumption DEF StateType, RowType
<1>6. /\ subscription[a].end <= stripe[s].end
      /\ subscription[a].status = "active" => Paid(stripe[s])
  BY <1>2, <1>4, <1>5
<1>7. /\ stripe[s].version <= stripe'[s].version
      /\ stripe[s].end <= stripe'[s].end
      /\ Paid(stripe[s]) => Paid(stripe'[s])
  <2>1. stripe'[s] = stripe[s] \/ Later(s)
    BY DEF Moves
  <2>2. QED
    BY <1>4, <1>5, <2>1 DEF Later
<1>8. applied'[s] <= stripe'[s].version
  BY <1>2, <1>5, <1>7
<1>9. subscription[a].end <= stripe'[s].end
  BY <1>5, <1>6, <1>7
<1>10. ASSUME NEW v \in StateType, Circulates(s, v)', v.version >= applied'[s]
       PROVE  /\ subscription[a].end <= v.end
              /\ subscription[a].status = "active" => Paid(v)
  <2>1. Circulates(s, v) \/ v = stripe'[s]
    BY <1>10 DEF Moves
  <2>2. QED
    BY <1>2, <1>6, <1>7, <1>9, <1>10, <2>1
<1>11. QED
  BY <1>8, <1>10

LEMMA RowStays ==
  ASSUME EndInv, PaidInv', Moves, NEW a \in Account, subscription'[a] = subscription[a],
         \A s \in Sub : Carries(a, s) /\ ~apart'[a] => applied'[s] = applied[s]
  PROVE  RowApart(a)' /\ \A s \in Sub : RowNotAhead(a, s)'
<1>1. RowApart(a)'
  BY DEF EndInv, RowApart, Moves
<1>2. ASSUME NEW s \in Sub, ~apart'[a], Carries(a, s)'
      PROVE  /\ applied'[s] <= stripe'[s].version
             /\ \A v \in StateType : Circulates(s, v)' /\ v.version >= applied'[s] =>
                  /\ subscription[a].end <= v.end
                  /\ subscription[a].status = "active" => Paid(v)
  <2>1. Carries(a, s)
    BY <1>2 DEF Carries
  <2>2. QED
    BY <1>2, <2>1, NotAheadKept
<1>3. QED
  BY <1>1, <1>2 DEF RowNotAhead

LEMMA OneOpenKept ==
  ASSUME EndInv, PaidInv', Moves,
         \A s \in Sub : stripe[s].cust = Nil => stripe'[s].cust = Nil
  PROVE  OneOpen'
<1> SUFFICES ASSUME NEW s \in Sub, NEW t \in Sub, s # t,
                    HolderOf(s)' \in Account, HolderOf(s)' = HolderOf(t)'
             PROVE  apart'[HolderOf(s)'] \/ Settled(s)' \/ Settled(t)'
  BY DEF OneOpen
<1>1. /\ stripe'[s].cust # Nil /\ stripe'[t].cust # Nil
  BY BillingAssumption DEF HolderOf
<1>2. stripe[s].cust # Nil /\ stripe[t].cust # Nil
  BY <1>1
<1>3. HolderOf(s)' = HolderOf(s) /\ HolderOf(t)' = HolderOf(t) /\ HolderOf(s) \in Account
  BY <1>2, HolderStays DEF EndInv
<1>4. apart[HolderOf(s)] \/ Settled(s) \/ Settled(t)
  BY <1>3 DEF EndInv, OneOpen
<1>5. QED
  BY <1>3, <1>4 DEF Moves

LEMMA OldStays ==
  ASSUME EndInv, Moves, BillingTypeOK', NEW q \in Slot,
         acct'[q] = acct[q], old'[q] = old[q]
  PROVE  OldApart(q)'
<1>1. acct[q] \in Account \union {Nil}
  BY DEF EndInv, PaidInv, BillingTypeOK
<1>2. QED
  BY <1>1 DEF EndInv, OldApart, Moves

LEMMA OldAfterHandlerStep ==
  ASSUME EndInv, Moves, BillingTypeOK', NEW r \in Slot, HandlerStep(r)
  PROVE  \A q \in Slot : OldApart(q)'
<1> SUFFICES ASSUME NEW q \in Slot PROVE OldApart(q)'
  OBVIOUS
<1>1. CASE acct'[q] = acct[q] /\ old'[q] = old[q]
  BY <1>1, OldStays
<1>2. CASE acct'[q] = Nil
  BY <1>2 DEF OldApart
<1>3. CASE \E a \in Account : acct'[q] = a /\ old'[q] = Kept(a)
  <2>1. PICK a \in Account : acct'[q] = a /\ old'[q] = Kept(a)
    BY <1>3
  <2>2. RowApart(a) /\ (apart[a] => apart'[a])
    BY DEF EndInv, Moves
  <2>3. QED
    BY <2>1, <2>2 DEF RowApart, OldApart, Kept
<1>4. QED
  BY <1>1, <1>2, <1>3 DEF HandlerStep, Others

\* A row an account that is not apart is given, and what it says after it.
LEMMA AppliesToOne ==
  ASSUME EndInv, NEW r \in Slot, NEW s \in Sub, NEW v \in StateType, NEW a \in Account,
         NEW kept \in KeptType, Applies(r, s, v, a, kept), ~apart'[a]
  PROVE  /\ ~apart[a] /\ ~kept.rc
         /\ Circulates(s, v) /\ ~Settled(s)
         /\ v.version >= applied[s] /\ applied'[s] = v.version
         /\ v.version <= stripe[s].version
         /\ \A t \in Sub \ {s} : HolderOf(t) = a => Settled(t)
<1>1. HolderOf(s) = a /\ PaidInv /\ BillingTypeOK
  BY DEF Applies, EndInv, PaidInv
<1>2. v.version \in Nat /\ Note(s, v.version)
  BY DEF StateType, Applies
<1>3. /\ apart'[a] <=> apart[a] \/ v.version < applied[s]
      /\ applied'[s] = IF apart'[a] THEN applied[s] ELSE v.version
  BY <1>1, <1>2, NoteTypes
<1>4. ~apart[a] /\ v.version >= applied[s] /\ applied'[s] = v.version
  <2>1. applied[s] \in Nat
    BY <1>1 DEF BillingTypeOK
  <2>2. QED
    BY <1>2, <1>3, <2>1
<1>5. ~kept.rc
  <2>1. OldApart(r) /\ RowApart(a) /\ a # Nil
    BY BillingAssumption DEF EndInv
  <2>2. kept.rc => \/ old[r] # Nil /\ old[r].rc /\ acct[r] = a
                   \/ subscription[a] # Nil /\ subscription[a].rc
    BY DEF Applies
  <2>3. QED
    BY <1>4, <2>1, <2>2 DEF OldApart, RowApart
<1>6. Circulates(s, v) /\ v.version <= stripe[s].version
  <2>1. Circulates(s, v)
    BY DEF Applies, Circulates
  <2>2. QED
    BY <1>1, <2>1 DEF PaidInv, StatesInOrder
<1>7. ~Settled(s)
  <2>1. snap[r].sub = s
    BY DEF Applies
  <2>2. snap[r] # Nil
    <3>1. snap[r] \in EventType
      BY DEF Applies, EventType
    <3>2. QED
      BY <3>1, BillingAssumption
  <2>3. QED
    BY <2>1, <2>2 DEF Settled
<1>8. ASSUME NEW t \in Sub \ {s}, HolderOf(t) = a PROVE Settled(t)
  BY <1>1, <1>4, <1>7, <1>8 DEF EndInv, OneOpen
<1>9. QED
  BY <1>4, <1>5, <1>6, <1>7, <1>8

LEMMA AppliesKeepsEnd ==
  ASSUME EndInv, NEW r \in Slot, NEW s \in Sub, NEW v \in StateType, NEW a \in Account,
         NEW kept \in KeptType, Applies(r, s, v, a, kept)
  PROVE  EndInv'
<1>1. Moves /\ PaidInv' /\ BillingTypeOK' /\ PaidInv
  BY AppliesKeepsPaid DEF EndInv, PaidInv
<1>2. stripe' = stripe /\ HandlerStep(r) /\ HolderOf(s) = a
  BY DEF Applies, HandlerStep
<1>3. OneOpen'
  BY <1>1, <1>2, OneOpenKept
<1>4. \A q \in Slot : OldApart(q)'
  BY <1>1, <1>2, OldAfterHandlerStep
<1>5. \A t \in Sub \ {s} : applied'[t] = applied[t]
  BY <1>1, <1>2, NoteTypes DEF Applies, StateType, PaidInv
<1>6. ASSUME NEW b \in Account, b # a
      PROVE  RowApart(b)' /\ \A t \in Sub : RowNotAhead(b, t)'
  <2>1. ASSUME NEW t \in Sub, Carries(b, t) PROVE applied'[t] = applied[t]
    <3>1. HolderOf(t) = b
      BY <2>1, BillingAssumption DEF PaidInv, EndInv, Links, RowLinked, Carries
    <3>2. QED
      BY <1>2, <1>5, <1>6, <3>1
  <2>2. QED
    BY <1>1, <1>6, <2>1, RowStays DEF Applies
<1>7. /\ subscription'[a] # Nil /\ subscription'[a].rc = kept.rc
      /\ subscription'[a].sub = s /\ subscription'[a].end = v.end
      /\ subscription'[a].status = mapStripeStatus(v.status)
  BY WithStateTypes DEF Applies
<1>8. CASE apart'[a]
  BY <1>1, <1>2, <1>3, <1>4, <1>6, <1>8 DEF EndInv, RowApart, RowNotAhead
<1>9. CASE ~apart'[a]
  <2>1. /\ ~kept.rc /\ Circulates(s, v)
        /\ applied'[s] = v.version /\ v.version <= stripe[s].version
    BY <1>9, AppliesToOne
  <2>2. s # Nil
    BY BillingAssumption
  <2>3. RowApart(a)'
    BY <1>7, <2>1, <2>2 DEF RowApart
  <2>4. ASSUME NEW w \in StateType, Circulates(s, w)', w.version >= v.version
        PROVE  v.end <= w.end /\ (mapStripeStatus(v.status) = "active" => Paid(w))
    <3>1. Circulates(s, w)
      <4>1. Circulates(s, stripe[s])
        BY <1>1, <1>2, HolderWas
      <4>2. QED
        BY <1>1, <1>2, <2>4, <4>1 DEF Moves
    <3>2. Ordered(v, w) /\ v.version \in Nat /\ w.version \in Nat
      BY <1>1, <2>1, <3>1 DEF PaidInv, StatesInOrder, StateType
    <3>3. v.end <= w.end /\ (Paid(v) => Paid(w))
      BY <2>4, <3>2 DEF Ordered
    <3>4. mapStripeStatus(v.status) = "active" => Paid(v)
      BY DEF mapStripeStatus, Paid
    <3>5. QED
      BY <3>3, <3>4
  <2>5. ASSUME NEW t \in Sub PROVE RowNotAhead(a, t)'
    <3>1. CASE t = s
      BY <1>2, <1>7, <2>1, <2>4, <3>1 DEF RowNotAhead, Carries
    <3>2. CASE t # s
      BY <1>7, <3>2 DEF RowNotAhead, Carries
    <3>3. QED
      BY <3>1, <3>2
  <2>6. QED
    BY <1>1, <1>3, <1>4, <1>6, <2>3, <2>5 DEF EndInv
<1>10. QED
  BY <1>8, <1>9

LEMMA GoesKeepsEnd ==
  ASSUME EndInv, NEW s \in Sub, Goes(s)
  PROVE  EndInv'
<1>1. Moves /\ PaidInv' /\ BillingTypeOK'
  BY GoesMoves, GoesKeepsPaid DEF EndInv
<1>2. OneOpen'
  <2>1. \A t \in Sub : stripe[t].cust = Nil => stripe'[t].cust = Nil
    BY DEF Goes, Announced
  <2>2. QED
    BY <1>1, <2>1, OneOpenKept
<1>3. \A q \in Slot : OldApart(q)'
  BY <1>1, OldStays DEF Goes, task
<1>4. \A a \in Account : RowApart(a)' /\ \A t \in Sub : RowNotAhead(a, t)'
  BY <1>1, RowStays DEF Goes, hist
<1>5. QED
  BY <1>1, <1>2, <1>3, <1>4 DEF EndInv

LEMMA OpenedKeepsEnd ==
  ASSUME EndInv, NEW r \in Slot, NEW s \in Sub, Opened(r, s), BillingTypeOK'
  PROVE  EndInv'
<1> DEFINE a == acct[r]
<1>1. /\ Moves /\ PaidInv' /\ stripe[s].cust = Nil /\ HolderOf(s)' = a /\ PaidInv
      /\ a \in Account
  BY OpenedMoves, OpenedKeepsPaid DEF EndInv, Opened
<1>2. OneOpen'
  <2>1. ASSUME NEW t \in Sub \ {s}, HolderOf(t)' \in Account
        PROVE  HolderOf(t) = HolderOf(t)'
    <3>1. stripe'[t].cust # Nil /\ stripe'[t] = stripe[t]
      BY <2>1, BillingAssumption DEF HolderOf, Opened, Announced
    <3>2. QED
      BY <1>1, <3>1, HolderStays
  <2>2. ASSUME NEW t \in Sub \ {s}, HolderOf(t)' = a
        PROVE  apart'[a] \/ Settled(t)'
    <3>1. HolderOf(t) = a
      BY <1>1, <2>1, <2>2
    <3>2. apart'[a] \/ Settled(t)
      BY <3>1 DEF Opened
    <3>3. QED
      BY <1>1, <3>2 DEF Moves
  <2>3. ASSUME NEW t \in Sub \ {s}, NEW u \in Sub \ {s}, t # u,
               HolderOf(t)' \in Account, HolderOf(t)' = HolderOf(u)'
        PROVE  apart'[HolderOf(t)'] \/ Settled(t)' \/ Settled(u)'
    <3>1. HolderOf(t) = HolderOf(t)' /\ HolderOf(u) = HolderOf(u)'
      BY <2>1, <2>3
    <3>2. apart[HolderOf(t)] \/ Settled(t) \/ Settled(u)
      BY <2>3, <3>1 DEF EndInv, OneOpen
    <3>3. QED
      BY <1>1, <2>3, <3>1, <3>2 DEF Moves
  <2>4. QED
    BY <1>1, <2>2, <2>3 DEF OneOpen
<1>3. ASSUME NEW q \in Slot PROVE OldApart(q)'
  <2>1. acct'[q] = acct[q] /\ old'[q] = old[q]
    BY DEF Opened, Others
  <2>2. QED
    BY <1>1, <2>1, OldStays
<1>4. \A b \in Account : RowApart(b)' /\ \A t \in Sub : RowNotAhead(b, t)'
  BY <1>1, RowStays DEF Opened
<1>5. QED
  BY <1>1, <1>2, <1>3, <1>4 DEF EndInv

LEMMA StillKeepsEnd ==
  ASSUME EndInv, Still, Moves, PaidInv',
         \A a \in Account : subscription'[a] = subscription[a] \/ RevenueCatWrites(a)
  PROVE  EndInv'
<1>1. OneOpen'
  BY OneOpenKept DEF Still
<1>2. \A q \in Slot : OldApart(q)'
  BY OldStays DEF Still, task, PaidInv
<1>3. ASSUME NEW a \in Account
      PROVE  RowApart(a)' /\ \A t \in Sub : RowNotAhead(a, t)'
  <2>1. CASE subscription'[a] = subscription[a]
    BY <2>1, RowStays DEF Still, hist
  <2>2. CASE RevenueCatWrites(a)
    <3>1. apart[a]
      BY <2>2 DEF EndInv, RowApart, RevenueCatWrites
    <3>2. apart'[a]
      BY <3>1 DEF Moves
    <3>3. QED
      BY <3>2 DEF RowApart, RowNotAhead
  <2>3. QED
    BY <2>1, <2>2
<1>4. QED
  BY <1>1, <1>2, <1>3 DEF EndInv

LEMMA TaskMovesKeepEnd ==
  ASSUME EndInv, NEW r \in Slot, TaskMoves(r)
  PROVE  EndInv'
<1>1. Moves /\ PaidInv' /\ BillingTypeOK'
  BY TaskMovesKeepPaid, HandlerStepMoves DEF EndInv, TaskMoves
<1>2. OneOpen'
  BY <1>1, OneOpenKept DEF TaskMoves, HandlerStep
<1>3. \A q \in Slot : OldApart(q)'
  BY <1>1, OldAfterHandlerStep DEF TaskMoves
<1>4. \A a \in Account : RowApart(a)' /\ \A t \in Sub : RowNotAhead(a, t)'
  BY <1>1, RowStays DEF TaskMoves, hist
<1>5. QED
  BY <1>1, <1>2, <1>3, <1>4 DEF EndInv

LEMMA EndNext ==
  ASSUME EndInv, [BillingNext]_billingVars
  PROVE  EndInv'
<1>0. PaidInv /\ Moves /\ PaidInv'
  BY PaidNext DEF EndInv
<1>1. CASE UNCHANGED billingVars
  <2>1. Still /\ UNCHANGED subscription
    BY <1>0, <1>1, NothingMoves DEF billingVars
  <2>2. QED
    BY <1>0, <2>1, StillKeepsEnd
<1>2. CASE Tick
  <2>1. Still /\ UNCHANGED subscription
    BY <1>0, <1>2, TickKeepsPaid DEF Tick
  <2>2. QED
    BY <1>0, <2>1, StillKeepsEnd
<1>3. CASE \E s \in Sub : Goes(s)
  BY <1>3, GoesKeepsEnd
<1>4. CASE \E a \in Account : RevenueCatWrites(a)
  <2>1. PICK a \in Account : RevenueCatWrites(a)
    BY <1>4
  <2>2. Still /\ \A b \in Account : subscription'[b] = subscription[b] \/ RevenueCatWrites(b)
    BY <2>1 DEF RevenueCatWrites
  <2>3. QED
    BY <1>0, <2>2, StillKeepsEnd
<1>5. CASE \E r \in Slot : TaskMoves(r)
  BY <1>5, TaskMovesKeepEnd
<1>6. CASE \E r \in Slot, s \in Sub : Opened(r, s) /\ BillingTypeOK'
  BY <1>6, OpenedKeepsEnd
<1>7. CASE \E r \in Slot, s \in Sub, v \in StateType, a \in Account, kept \in KeptType :
             Applies(r, s, v, a, kept)
  BY <1>7, AppliesKeepsEnd
<1>8. QED
  BY <1>0, <1>1, <1>2, <1>3, <1>4, <1>5, <1>6, <1>7, StepKinds

LEMMA EndInit ==
  ASSUME BillingInit
  PROVE  EndInv
<1>1. \A r \in Slot : OldApart(r)
  BY DEF BillingInit, OldApart
<1>2. ASSUME NEW a \in Account PROVE RowApart(a) /\ \A s \in Sub : RowNotAhead(a, s)
  <2>1. a \in Legacy => apart[a]
    BY DEF BillingInit
  <2>2. a \notin Legacy => subscription[a] = Nil
    BY DEF BillingInit
  <2>3. QED
    BY <2>1, <2>2 DEF RowApart, RowNotAhead, Carries
<1>3. OneOpen
  BY BillingAssumption DEF OneOpen, HolderOf, BillingInit
<1>4. QED
  BY <1>1, <1>2, <1>3, PaidInit DEF EndInv

\* No state applied ends Premium before its time, but for an account that is apart.
LEMMA AppliesOutlasts ==
  ASSUME EndInv, NEW r \in Slot, NEW s \in Sub, NEW v \in StateType, NEW a \in Account,
         NEW kept \in KeptType, Applies(r, s, v, a, kept),
         IsPremium(a), ~apart'[a]
  PROVE  IsPremium(a)'
<1>1. /\ ~apart[a] /\ Circulates(s, v) /\ v.version >= applied[s]
      /\ \A t \in Sub \ {s} : HolderOf(t) = a => Settled(t)
  BY AppliesToOne
<1>2. /\ subscription[a] \in RowType /\ subscription[a].status = "active"
      /\ ~(now >= subscription[a].end) /\ now \in Nat /\ now' = now
      /\ subscription[a] # Nil
  BY BillingAssumption DEF IsPremium, IsExpired, EndInv, PaidInv, BillingTypeOK,
                           Applies, HandlerStep
<1> DEFINE t == subscription[a].sub
<1>3. t # Nil /\ t \in Sub /\ Carries(a, t)
  BY <1>1, <1>2 DEF EndInv, RowApart, RowType, Carries
<1>4. HolderOf(t) = a
  BY <1>2, <1>3 DEF EndInv, PaidInv, Links, RowLinked
<1> HIDE DEF t
<1>5. RowNotAhead(a, t)
  BY <1>3 DEF EndInv
<1>6. t = s
  <2> SUFFICES ASSUME t # s PROVE FALSE
    OBVIOUS
  <2>1. Settled(t)
    BY <1>1, <1>3, <1>4
  <2>2. Circulates(t, stripe[t]) /\ stripe[t] \in StateType
    BY <1>3, <1>4, BillingAssumption DEF Circulates, HolderOf, EndInv, PaidInv, BillingTypeOK
  <2>3. applied[t] <= stripe[t].version /\ applied[t] \in Nat /\ stripe[t].version \in Nat
    BY <1>1, <1>3, <1>5, <2>2 DEF RowNotAhead, StateType, EndInv, PaidInv, BillingTypeOK
  <2>4. subscription[a].end <= stripe[t].end /\ Paid(stripe[t])
    BY <1>1, <1>2, <1>3, <1>5, <2>2, <2>3 DEF RowNotAhead
  <2>5. stripe[t].status = "canceled"
    BY <2>1, <2>4 DEF Settled, Paid
  <2>6. stripe[t].end <= now
    BY <1>3, <2>2, <2>5 DEF EndInv, PaidInv, StatesInOrder
  <2>7. stripe[t].end \in Nat /\ subscription[a].end \in Nat
    BY <1>2, <2>2, BillingAssumption DEF StateType, RowType
  <2>8. QED
    BY <1>2, <2>4, <2>6, <2>7
<1>7. subscription[a].end <= v.end /\ Paid(v)
  BY <1>1, <1>2, <1>3, <1>5, <1>6 DEF RowNotAhead
<1>8. v.end \in Nat /\ subscription[a].end \in Nat
  BY <1>2, BillingAssumption DEF StateType, RowType
<1>9. ~(v.status \in {"past_due", "canceled"})
  <2>1. v.status \in {"past_due", "canceled"} => v.end <= now
    BY <1>1 DEF EndInv, PaidInv, StatesInOrder
  <2>2. QED
    BY <1>2, <1>7, <1>8, <2>1
<1>10. v.status = "active"
  BY <1>7, <1>9 DEF Paid, StateType, Status
<1>11. /\ subscription'[a] # Nil /\ subscription'[a].end = v.end
       /\ subscription'[a].status = "active"
  BY <1>10, WithStateTypes DEF Applies, mapStripeStatus
<1>12. ~(now' >= subscription'[a].end)
  BY <1>2, <1>7, <1>8, <1>11
<1>13. QED
  BY <1>11, <1>12 DEF IsPremium, IsExpired

\* Premium ends only as time passes, but for an account that is apart
\* (PremiumOutlastsCancel).
THEOREM PremiumLasts == BillingSpec => PremiumOutlastsCancel
<1>1. BillingInit => EndInv
  BY EndInit
<1>2. EndInv /\ [BillingNext]_billingVars => EndInv'
  BY EndNext
<1>3. EndInv /\ [BillingNext]_billingVars => [PremiumEndsWithTime]_billingVars
  <2> SUFFICES ASSUME EndInv, [BillingNext]_billingVars, ~UNCHANGED billingVars,
                      NEW a \in Account, IsPremium(a), ~IsPremium(a)', ~apart'[a]
               PROVE  now' > now
    BY DEF PremiumEndsWithTime
  <2>0. PaidInv
    BY DEF EndInv
  <2>1. ASSUME subscription'[a] = subscription[a], now' = now PROVE FALSE
    BY <2>1 DEF IsPremium, IsExpired
  <2>2. CASE Tick
    BY <2>0, <2>2, BillingAssumption DEF Tick, PaidInv, BillingTypeOK
  <2>3. CASE \E s \in Sub : Goes(s)
    BY <2>1, <2>3 DEF Goes
  <2>4. CASE \E b \in Account : RevenueCatWrites(b)
    <3>1. PICK b \in Account : RevenueCatWrites(b)
      BY <2>4
    <3>2. apart[b] /\ apart'[b]
      BY <3>1 DEF EndInv, RowApart, RevenueCatWrites, Still, hist
    <3>3. QED
      BY <2>1, <3>1, <3>2 DEF RevenueCatWrites
  <2>5. CASE \E r \in Slot : TaskMoves(r)
    BY <2>1, <2>5 DEF TaskMoves, HandlerStep
  <2>6. CASE \E r \in Slot, s \in Sub : Opened(r, s)
    BY <2>1, <2>6 DEF Opened
  <2>7. CASE \E r \in Slot, s \in Sub, v \in StateType, b \in Account, kept \in KeptType :
               Applies(r, s, v, b, kept)
    <3>1. PICK r \in Slot, s \in Sub, v \in StateType, b \in Account, kept \in KeptType :
               Applies(r, s, v, b, kept)
      BY <2>7
    <3>2. CASE b = a
      BY <3>1, <3>2, AppliesOutlasts
    <3>3. CASE b # a
      BY <2>1, <3>1, <3>3 DEF Applies, HandlerStep
    <3>4. QED
      BY <3>2, <3>3
  <2>8. QED
    BY <2>0, <2>2, <2>3, <2>4, <2>5, <2>6, <2>7, StepKinds
<1>4. QED
  BY <1>1, <1>2, <1>3, PTL DEF BillingSpec, PremiumOutlastsCancel

-----------------------------------------------------------------------------
(* The row follows Stripe *)

LEMMA LeadsBefore ==
  ASSUME PaidInv, Moves, NEW s \in Sub, HolderOf(s) \in Account, Leads(s)'
  PROVE  Leads(s) /\ HolderOf(s)' = HolderOf(s) /\ stripe'[s].cust = stripe[s].cust
<1>1. /\ stripe[s].cust # Nil /\ HolderOf(s)' = HolderOf(s)
      /\ stripe'[s].cust = stripe[s].cust
  BY BillingAssumption, HolderStays DEF HolderOf
<1>2. ~apart[HolderOf(s)]
  BY <1>1 DEF Leads, Moves
<1>3. ASSUME NEW t \in Sub \ {s}, HolderOf(t) = HolderOf(s)
      PROVE  HolderOf(t)' = HolderOf(s)'
  <2>1. stripe[t].cust # Nil
    BY <1>3, BillingAssumption DEF HolderOf
  <2>2. QED
    BY <1>1, <1>3, <2>1, HolderStays
<1>4. ~Settled(s) \/ \A t \in Sub \ {s} : HolderOf(t) # HolderOf(s)
  BY <1>3 DEF Leads, Moves
<1>5. QED
  BY <1>1, <1>2, <1>4 DEF Leads

\* A row, a state and an event that stay.
LEMMA FollowedStays ==
  ASSUME FollowInv, PaidInv', Moves, NEW s \in offered, Leads(s)',
         subscription'[HolderOf(s)] = subscription[HolderOf(s)],
         stripe'[s] = stripe[s], applied'[s] = applied[s],
         [sub |-> s, seen |-> stripe[s]] \in events
           => [sub |-> s, seen |-> stripe[s]] \in events'
  PROVE  Followed(s)'
<1>1. s \in Sub /\ HolderOf(s) \in Account /\ PaidInv
  BY DEF FollowInv, EndInv, PaidInv, BillingTypeOK
<1>2. Leads(s) /\ HolderOf(s)' = HolderOf(s)
  BY <1>1, LeadsBefore
<1>3. Followed(s)
  BY <1>2 DEF FollowInv
<1>4. Newest(s)'
  BY <1>2, <1>3 DEF Followed, Newest
<1>5. QED
  BY <1>2, <1>3, <1>4 DEF Followed, Carries

LEMMA StillFollows ==
  ASSUME FollowInv, Still, Moves, EndInv',
         \A a \in Account : subscription'[a] = subscription[a] \/ RevenueCatWrites(a)
  PROVE  FollowInv'
<1>1. \A s \in Sub : Paid(stripe'[s]) => s \in offered'
  BY DEF FollowInv, Still
<1>2. \A s \in offered' : HolderOf(s)' \in Account
  BY DEF FollowInv, Still, HolderOf
<1>3. ASSUME NEW s \in offered', Leads(s)' PROVE Followed(s)'
  <2>1. s \in offered /\ s \in Sub /\ HolderOf(s) \in Account
    BY DEF FollowInv, EndInv, PaidInv, BillingTypeOK, Still
  <2>2. Leads(s)
    BY <1>3, <2>1, LeadsBefore DEF FollowInv, EndInv
  <2>3. subscription'[HolderOf(s)] = subscription[HolderOf(s)]
    BY <2>1, <2>2 DEF Leads, FollowInv, EndInv, RowApart, RevenueCatWrites
  <2>4. QED
    BY <1>3, <2>1, <2>3, FollowedStays DEF Still, hist, EndInv
<1>4. QED
  BY <1>1, <1>2, <1>3 DEF FollowInv

LEMMA GoesFollows ==
  ASSUME FollowInv, NEW s \in Sub, Goes(s)
  PROVE  FollowInv'
<1>1. Moves /\ EndInv' /\ PaidInv'
  BY GoesMoves, GoesKeepsEnd DEF FollowInv, EndInv
<1>2. \A t \in Sub : Paid(stripe'[t]) => t \in offered'
  BY DEF FollowInv, Goes, Announced
<1>3. \A t \in offered' : HolderOf(t)' \in Account
  <2>1. offered' = offered /\ offered \subseteq Sub /\ holder' = holder
    BY DEF FollowInv, EndInv, PaidInv, BillingTypeOK, Goes
  <2>2. \A t \in Sub : stripe'[t].cust = stripe[t].cust
    BY DEF Goes, Announced
  <2>3. QED
    BY <2>1, <2>2 DEF FollowInv, HolderOf
<1>4. ASSUME NEW t \in offered', Leads(t)' PROVE Followed(t)'
  <2>1. t \in offered /\ t \in Sub /\ HolderOf(t) \in Account
    BY DEF FollowInv, EndInv, PaidInv, BillingTypeOK, Goes
  <2>2. CASE t # s
    BY <1>1, <1>4, <2>1, <2>2, FollowedStays DEF Goes, Announced, hist
  <2>3. CASE t = s
    <3>1. Leads(t) /\ HolderOf(t)' = HolderOf(t) /\ stripe'[t].cust = stripe[t].cust
      BY <1>1, <1>4, <2>1, LeadsBefore DEF FollowInv, EndInv
    <3>2. Followed(t)
      BY <2>1, <3>1 DEF FollowInv
    <3>3. Newest(t)'
      BY <2>3 DEF Newest, Goes, Announced
    <3>4. QED
      BY <3>1, <3>2, <3>3 DEF Followed, Carries, Goes
  <2>4. QED
    BY <2>2, <2>3
<1>5. QED
  BY <1>1, <1>2, <1>3, <1>4 DEF FollowInv

LEMMA OpenedFollows ==
  ASSUME FollowInv, NEW r \in Slot, NEW s \in Sub, Opened(r, s), BillingTypeOK'
  PROVE  FollowInv'
<1>1. Moves /\ EndInv' /\ PaidInv' /\ stripe[s].cust = Nil /\ PaidInv
  BY OpenedMoves, OpenedKeepsEnd DEF FollowInv, EndInv
<1>2. \A t \in Sub : Paid(stripe'[t]) => t \in offered'
  BY DEF FollowInv, Opened, Announced, Paid
<1>3. ASSUME NEW t \in offered
      PROVE  t \in Sub /\ HolderOf(t) \in Account /\ t # s /\ HolderOf(t)' = HolderOf(t)
  <2>1. t \in Sub /\ HolderOf(t) \in Account
    BY <1>1 DEF FollowInv, PaidInv, BillingTypeOK
  <2>2. stripe[t].cust # Nil
    BY <2>1, BillingAssumption DEF HolderOf
  <2>3. QED
    BY <1>1, <2>1, <2>2, HolderStays
<1>4. ASSUME NEW t \in offered, Leads(t)' PROVE Followed(t)'
  BY <1>1, <1>3, <1>4, FollowedStays DEF Opened, Announced
<1>5. offered' = offered
  BY DEF Opened
<1>6. QED
  BY <1>1, <1>2, <1>3, <1>4, <1>5 DEF FollowInv

LEMMA TaskMovesFollow ==
  ASSUME FollowInv, NEW r \in Slot, TaskMoves(r), events' = events \/ GetByStripeCustomer(r)
  PROVE  FollowInv'
<1>1. Moves /\ EndInv' /\ PaidInv' /\ PaidInv
  BY TaskMovesKeepPaid, TaskMovesKeepEnd, HandlerStepMoves DEF FollowInv, EndInv, TaskMoves
<1>2. /\ stripe' = stripe /\ offered' = offered /\ applied' = applied
      /\ subscription' = subscription /\ holder' = holder
  BY DEF TaskMoves, HandlerStep, hist
<1>3. ASSUME NEW s \in offered, Leads(s)' PROVE Followed(s)'
  <2> DEFINE e == [sub |-> s, seen |-> stripe[s]]
  <2>1. s \in Sub /\ HolderOf(s) \in Account /\ stripe[s] \in StateType
    BY <1>1 DEF FollowInv, PaidInv, BillingTypeOK
  <2>2. Leads(s) /\ Followed(s)
    BY <1>1, <1>3, <2>1, LeadsBefore DEF FollowInv
  <2>3. ASSUME e \in events, e \notin events' PROVE FALSE
    <3>1. GetByStripeCustomer(r) /\ events' \in {events, events \ {event[r]}}
      BY <2>3 DEF GetByStripeCustomer, Acknowledge, billed
    <3>2. /\ e = event[r]
          /\ {a \in Account : /\ subscription[a] # Nil
                              /\ subscription[a].cust = snap[r].seen.cust} = {}
      BY <2>3, <3>1 DEF GetByStripeCustomer, billed
    <3>3. Handler(r) /\ billingPc[r] = "find_customer"
      BY <1>1, <3>1 DEF PaidInv, Handlers, GetByStripeCustomer
    <3>4. snap[r].sub = s /\ snap[r].seen.cust = stripe[s].cust
      <4>1. snap[r].sub = s
        BY <3>2, <3>3 DEF Handler
      <4>2. QED
        BY <1>1, <3>3, <4>1, AppliedFacts DEF Applying
    <3>5. /\ subscription[HolderOf(s)] # Nil
          /\ subscription[HolderOf(s)].cust = snap[r].seen.cust
      BY <2>2, <3>4 DEF Followed, Carries
    <3>6. QED
      BY <2>1, <3>2, <3>5
  <2>4. QED
    BY <1>1, <1>2, <1>3, <2>3, FollowedStays
<1>4. QED
  BY <1>1, <1>2, <1>3 DEF FollowInv, HolderOf

LEMMA AppliesFollow ==
  ASSUME FollowInv, NEW r \in Slot, NEW s \in Sub, NEW v \in StateType, NEW a \in Account,
         NEW kept \in KeptType, Applies(r, s, v, a, kept), offered' = offered \/ Stash(r)
  PROVE  FollowInv'
<1>1. Moves /\ EndInv' /\ PaidInv' /\ PaidInv /\ EndInv
  BY AppliesKeepsPaid, AppliesKeepsEnd DEF FollowInv, EndInv
<1>2. /\ stripe' = stripe /\ holder' = holder /\ HolderOf(s) = a
      /\ offered \subseteq offered' /\ offered' \subseteq offered \union {s}
      /\ offered' \subseteq Sub
  BY <1>1 DEF Applies, HandlerStep, PaidInv, BillingTypeOK
<1>3. \A t \in Sub : Paid(stripe'[t]) => t \in offered'
  BY <1>2 DEF FollowInv
<1>4. \A t \in offered' : HolderOf(t)' = HolderOf(t) /\ HolderOf(t) \in Account
  BY <1>2 DEF FollowInv, HolderOf
<1>5. ASSUME NEW t \in offered', t # s, Leads(t)' PROVE Followed(t)'
  <2>1. t \in offered /\ Leads(t) /\ t \in Sub
    BY <1>1, <1>2, <1>4, <1>5, LeadsBefore
  <2>2. HolderOf(t) # a
    <3> SUFFICES ASSUME HolderOf(t) = a PROVE FALSE
      OBVIOUS
    <3>1. ~apart'[a]
      BY <1>4, <1>5 DEF Leads
    <3>2. Settled(t) /\ HolderOf(s) = HolderOf(t)
      BY <1>1, <1>2, <1>5, <2>1, <3>1, AppliesToOne
    <3>3. QED
      BY <1>5, <2>1, <3>2 DEF Leads
  <2>3. applied'[t] = applied[t]
    BY <1>1, <1>2, <1>5, <2>1, NoteTypes DEF Applies, StateType, PaidInv
  <2>4. QED
    BY <1>1, <1>2, <1>4, <1>5, <2>1, <2>2, <2>3, FollowedStays DEF Applies
<1>6. ASSUME s \in offered', Leads(s)' PROVE Followed(s)'
  <2>1. HolderOf(s)' = a /\ Leads(s) /\ ~apart'[a]
    BY <1>1, <1>2, <1>6, LeadsBefore DEF Leads
  <2>2. /\ Circulates(s, v) /\ v.version >= applied[s] /\ applied'[s] = v.version
        /\ v.version <= stripe[s].version
    BY <1>1, <2>1, AppliesToOne
  <2>3. /\ subscription'[a] # Nil /\ subscription'[a].cust = kept.cust
        /\ subscription'[a].sub = s /\ subscription'[a].end = v.end
        /\ subscription'[a].status = mapStripeStatus(v.status)
    BY WithStateTypes DEF Applies
  <2>4. stripe[s] \in StateType /\ Circulates(s, stripe[s]) /\ Ordered(v, stripe[s])
    <3>1. stripe[s] \in StateType /\ Circulates(s, stripe[s])
      BY <1>1, <1>2, HolderWas DEF PaidInv, BillingTypeOK
    <3>2. QED
      BY <1>1, <2>2, <3>1 DEF PaidInv, StatesInOrder
  <2>5. kept.cust = stripe[s].cust
    <3>1. CASE s \in offered
      <4>1. Followed(s)
        BY <2>1, <3>1 DEF FollowInv
      <4>2. QED
        BY <1>2, <4>1 DEF Followed, Applies
    <3>2. CASE s \notin offered
      <4>1. billingPc[r] = "stash"
        BY <1>6, <3>2 DEF Stash
      <4>2. QED
        BY <4>1 DEF Applies
    <3>3. QED
      BY <3>1, <3>2
  <2>6. Newest(s)'
    <3>1. CASE v.version = stripe[s].version
      <4>1. v = stripe[s]
        BY <2>2, <2>4, <3>1 DEF Ordered
      <4>2. QED
        BY <1>2, <2>1, <2>2, <2>3, <4>1 DEF Newest
    <3>2. CASE v.version # stripe[s].version
      <4>1. v # stripe[s] /\ applied[s] # stripe[s].version
        <5>1. v.version \in Nat /\ stripe[s].version \in Nat /\ applied[s] \in Nat
          BY <1>1, <2>4 DEF StateType, PaidInv, BillingTypeOK
        <5>2. QED
          BY <2>2, <3>2, <5>1
      <4>2. CASE [sub |-> s, seen |-> stripe[s]] \in events
        <5>1. stripe[s] # Nil
          BY <2>4, BillingAssumption
        <5>2. [sub |-> s, seen |-> stripe[s]] \in events'
          BY <4>1, <4>2, <5>1 DEF Applies
        <5>3. QED
          BY <1>2, <5>2 DEF Newest
      <4>3. CASE ~Paid(stripe[s])
        <5>1. ~Paid(v) /\ v.end = stripe[s].end
          BY <2>2, <2>4, <4>3 DEF Ordered
        <5>2. mapStripeStatus(v.status) = "expired"
          BY <5>1 DEF Paid, mapStripeStatus
        <5>3. QED
          BY <1>2, <2>1, <2>3, <4>3, <5>1, <5>2 DEF Newest
      <4>4. CASE Paid(stripe[s]) /\ [sub |-> s, seen |-> stripe[s]] \notin events
        <5>1. s \in offered
          BY <4>4 DEF FollowInv
        <5>2. Newest(s)
          BY <2>1, <5>1 DEF FollowInv, Followed
        <5>3. QED
          BY <4>1, <4>4, <5>2 DEF Newest
      <4>5. QED
        BY <4>2, <4>3, <4>4
    <3>3. QED
      BY <3>1, <3>2
  <2>7. QED
    BY <1>2, <2>1, <2>3, <2>5, <2>6 DEF Followed, Carries
<1>7. QED
  BY <1>1, <1>2, <1>3, <1>4, <1>5, <1>6 DEF FollowInv

LEMMA FollowNext ==
  ASSUME FollowInv, [BillingNext]_billingVars
  PROVE  FollowInv'
<1>0. PaidInv /\ Moves /\ PaidInv' /\ EndInv'
  BY PaidNext, EndNext DEF FollowInv, EndInv
<1>1. CASE UNCHANGED billingVars
  <2>1. Still /\ UNCHANGED subscription
    BY <1>0, <1>1, NothingMoves DEF billingVars
  <2>2. QED
    BY <1>0, <2>1, StillFollows
<1>2. CASE Tick
  <2>1. Still /\ UNCHANGED subscription
    BY <1>0, <1>2, TickKeepsPaid DEF Tick
  <2>2. QED
    BY <1>0, <2>1, StillFollows
<1>3. CASE \E s \in Sub : Goes(s)
  BY <1>3, GoesFollows
<1>4. CASE \E a \in Account : RevenueCatWrites(a)
  <2>1. PICK a \in Account : RevenueCatWrites(a)
    BY <1>4
  <2>2. Still /\ \A b \in Account : subscription'[b] = subscription[b] \/ RevenueCatWrites(b)
    BY <2>1 DEF RevenueCatWrites
  <2>3. QED
    BY <1>0, <2>2, StillFollows
<1>5. CASE \E r \in Slot : TaskMoves(r) /\ (events' = events \/ GetByStripeCustomer(r))
  BY <1>5, TaskMovesFollow
<1>6. CASE \E r \in Slot, s \in Sub : Opened(r, s) /\ BillingTypeOK'
  BY <1>6, OpenedFollows
<1>7. CASE \E r \in Slot, s \in Sub, v \in StateType, a \in Account, kept \in KeptType :
             Applies(r, s, v, a, kept) /\ (offered' = offered \/ Stash(r))
  BY <1>7, AppliesFollow
<1>8. QED
  BY <1>0, <1>1, <1>2, <1>3, <1>4, <1>5, <1>6, <1>7, StepKinds

\* When all is delivered the row is what Stripe has, but for an account that is apart
\* (RowFollowsStripe).
THEOREM TheRowFollows == BillingSpec => []RowFollowsStripe
<1>1. BillingInit => FollowInv
  <2> SUFFICES ASSUME BillingInit PROVE FollowInv
    OBVIOUS
  <2>1. \A s \in Sub : ~Paid(stripe[s])
    BY DEF BillingInit, Paid
  <2>2. offered = {}
    BY DEF BillingInit
  <2>3. QED
    BY <2>1, <2>2, EndInit DEF FollowInv
<1>2. FollowInv /\ [BillingNext]_billingVars => FollowInv'
  BY FollowNext
<1>3. FollowInv => RowFollowsStripe
  <2> SUFFICES ASSUME FollowInv, NEW s \in Sub,
                      Quiet, s \in offered, ~apart[HolderOf(s)],
                      \A t \in Sub \ {s} : HolderOf(t) # HolderOf(s) \/ ~Settled(s)
               PROVE  /\ Carries(HolderOf(s), s)
                      /\ subscription[HolderOf(s)].status = mapStripeStatus(stripe[s].status)
                      /\ subscription[HolderOf(s)].end = stripe[s].end
    BY DEF RowFollowsStripe
  <2>1. Leads(s)
    BY DEF Leads, FollowInv
  <2>2. Followed(s)
    BY <2>1 DEF FollowInv
  <2>3. ~Paid(stripe[s]) => mapStripeStatus(stripe[s].status) = "expired"
    BY DEF Paid, mapStripeStatus
  <2>4. QED
    BY <2>2, <2>3 DEF Followed, Newest, Quiet
<1>4. QED
  BY <1>1, <1>2, <1>3, PTL DEF BillingSpec

=============================================================================
