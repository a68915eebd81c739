----------------------------- MODULE MCServices -----------------------------
(* The services that keep rows, counters and files, side by side: a behaviour is one   *)
(* of a single component, chosen at the start.                                          *)
EXTENDS Posts, Billing, ChatQuota, Rituals, Preferences, RequestLimits, Avatars, TLC

CONSTANT Item  \* rows of any of them

VARIABLE which  \* the component this behaviour is of

-----------------------------------------------------------------------------
(* Posts with comments and no hashtags, up to three calls, or with hashtags and no      *)
(* comments.                                                                            *)

NoTags == (\A p \in Post : tags[p] = {}) /\ (\A r \in Req : arg[r] \intersect Tag = {})
NoComments == \A r \in Req : row[r] \notin Comment

(* Billing of one account: two subscriptions within a period that nobody cancels, two   *)
(* over two periods or one over three with one handler at a time, one whose events come *)
(* late, and one bought from RevenueCat.                                                *)

Made == {s \in Sub : stripe[s].status # "none"}
Busy == {r \in Slot : billingPc[r] # "idle"}
Only(A) == \A a \in Account \ A : UNCHANGED <<subscription[a], store[a]>>

Subscribes ==
  BillingNext /\ Only(Account \ Legacy) /\ now' = 0 /\ Cardinality(events') \leq 2
    /\ \A s \in Sub : ~stripe'[s].ending
Renews ==
  BillingNext /\ Only(Account \ Legacy) /\ Cardinality(events') \leq 2 /\ Cardinality(Busy') \leq 1
    /\ (now' \leq 1 \/ Cardinality(Made') \leq 1)
Delivers ==
  BillingNext /\ Only(Account \ Legacy) /\ now' \leq 1 /\ Cardinality(Made') \leq 1
Buys ==
  BillingNext /\ Only(Legacy) /\ now' \leq 1 /\ Cardinality(events') \leq 2
    /\ Cardinality(Made') \leq 1

-----------------------------------------------------------------------------
\* Of the other components nothing has been called.
MCInit ==
  /\ which \in {"comments", "hashtags", "subscribe", "renew", "deliver", "revenueCat", "chat",
       "rituals", "preferences", "limits", "avatars"}
  /\ Init
  /\ IF which = "comments" THEN NoTags ELSE Live = {}
  /\ BillingInit
  /\ QuotaInit
  /\ RitualInit
  /\ PrefInit
  /\ LimitInit
  /\ which = "limits" \/ ~payer
  /\ AvatarInit

MCNext ==
  \/ /\ \/ which = "comments" /\ Next /\ NoTags' /\ calls' \leq 3
        \/ which = "hashtags" /\ Next /\ NoComments'
     /\ UNCHANGED <<which, billingVars, quotaVars, ritualVars, prefVars, limitVars, avatarVars>>
  \/ /\ \/ which = "subscribe" /\ Subscribes
        \/ which = "renew" /\ Renews
        \/ which = "deliver" /\ Delivers
        \/ which = "revenueCat" /\ Buys
     /\ UNCHANGED <<which, vars, quotaVars, ritualVars, prefVars, limitVars, avatarVars>>
  \/ /\ which = "chat" /\ QuotaNext
     /\ UNCHANGED <<which, vars, billingVars, ritualVars, prefVars, limitVars, avatarVars>>
  \/ /\ which = "rituals" /\ RitualNext
     /\ UNCHANGED <<which, vars, billingVars, quotaVars, prefVars, limitVars, avatarVars>>
  \/ /\ which = "preferences" /\ PrefNext
     /\ UNCHANGED <<which, vars, billingVars, quotaVars, ritualVars, limitVars, avatarVars>>
  \/ /\ which = "limits" /\ LimitNext
     /\ UNCHANGED <<which, vars, billingVars, quotaVars, ritualVars, prefVars, avatarVars>>
  \/ /\ which = "avatars" /\ AvatarNext
     /\ UNCHANGED <<which, vars, billingVars, quotaVars, ritualVars, prefVars, limitVars>>

mcVars == <<which, vars, billingVars, quotaVars, ritualVars, prefVars, limitVars, avatarVars>>

MCSpec == MCInit /\ [][MCNext]_mcVars

\* Handlers and rows are interchangeable: safety properties only.
Symmetric == Permutations(Req) \union Permutations(Item)

-----------------------------------------------------------------------------
(* The properties are those of the components, TypeOK that of Posts. *)

=============================================================================
