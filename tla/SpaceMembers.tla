---------------------------- MODULE SpaceMembers ----------------------------
(***************************************************************************)
(* Membership of a community space: CommunityService over the spaces and   *)
(* space_members tables, for one space (one handle, one row of spaces).    *)
(*                                                                         *)
(* member_count is a denormalised counter that lives in spaces; who is a   *)
(* member lives in space_members.  A transaction writes both and is one    *)
(* step here, its commit: the rows it changed stay locked until then, and  *)
(* its WHERE clauses are tested again after a wait.  What a handler reads  *)
(* through the pool (r.db) is outside its transaction and is a step of its *)
(* own.  pc[r] is the next step of the handler in slot r:                  *)
(*                                                                         *)
(*   CreateSpace          GetByHandle ; Create (r.db) ; Add owner          *)
(*   JoinSpace            GetByID ; Add, Emit                              *)
(*   ApproveJoinRequest   assertOwner ; Approve, IncrementMemberCount, Emit *)
(*   DeclineJoinRequest   assertOwner ; Decline, Emit                      *)
(*   LeaveSpace           IsApprovedMember (r.db) ; Remove, Increment...   *)
(*   DeleteSpace          assertOwner ; Delete                             *)
(*                                                                         *)
(* A notification that cannot be written aborts the transaction it is in,  *)
(* so the handler fails although Emit's error is ignored: Abandon.  So does *)
(* the transaction PostgreSQL picks when DeleteSpace, which locks the space *)
(* and then its members, meets one that locks them the other way round.     *)
(***************************************************************************)
EXTENDS Integers, FiniteSets

CONSTANTS
  User,
  Req,        \* handlers that may run at the same time
  NoUser,
  MaxJoins    \* bound: rows ever inserted in space_members

ASSUME SpaceAssumption ==
  /\ NoUser \notin User
  /\ MaxJoins \in Nat
  /\ IsFiniteSet(User)
  /\ IsFiniteSet(Req)

VARIABLES
  space,      \* absent, present, or deleted
  creator,    \* spaces.created_by
  count,      \* spaces.member_count
  member,     \* space_members: none, pending or approved
  joins,      \* rows ever inserted, for the bound
  purged,     \* accounts deleted for 30 days, whose row of users is gone
  pc, usr,    \* the handlers: next step, and the user it is about
  saw         \* LeaveSpace's local "approved"

table == <<space, creator, count, member, joins, purged>>
handler == <<pc, usr, saw>>
vars == <<table, handler>>

-----------------------------------------------------------------------------
Init ==
  /\ space = "absent"
  /\ creator = NoUser
  /\ count = 0
  /\ member = [u \in User |-> "none"]
  /\ joins = 0
  /\ purged = {}
  /\ pc = [r \in Req |-> "idle"]
  /\ usr = [r \in Req |-> NoUser]
  /\ saw = [r \in Req |-> FALSE]

\* The bound never stops a handler half-way: one that may insert a row starts only
\* while a row is left for it.
Adding == {"create", "add_owner", "join"}
Room == joins + Cardinality({r \in Req : pc[r] \in Adding}) < MaxJoins

Start(r, next, u) ==
  /\ pc[r] = "idle"
  /\ next \in Adding => Room
  /\ pc' = [pc EXCEPT ![r] = next]
  /\ usr' = [usr EXCEPT ![r] = u]
  /\ UNCHANGED table

Goto(r, next) ==
  /\ pc' = [pc EXCEPT ![r] = next]
  /\ UNCHANGED <<usr, saw>>

Return(r) ==
  /\ pc' = [pc EXCEPT ![r] = "idle"]
  /\ usr' = [usr EXCEPT ![r] = NoUser]
  /\ saw' = [saw EXCEPT ![r] = FALSE]

\* INSERT ... ON CONFLICT DO NOTHING
Add(u, s) ==
  IF member[u] = "none"
    THEN /\ member' = [member EXCEPT ![u] = s]
         /\ joins' = joins + 1
    ELSE UNCHANGED <<member, joins>>

IncrementMemberCount(delta) == count' = count + delta

\* assertOwner: created_by never changes once the row is there.
IsOwner(u) == space = "present" /\ creator = u

-----------------------------------------------------------------------------
(* CreateSpace *)

CreateGetByHandle(r, u) ==
  /\ space = "absent"
  /\ u \notin purged
  /\ Start(r, "create", u)
  /\ UNCHANGED saw

\* Outside the transaction: the row is committed, its count already 1.  The unique
\* handle refuses it when another CreateSpace came first (a row made after that one
\* is deleted is another space).
Create(r) ==
  /\ pc[r] = "create"
  /\ IF space = "absent"
       THEN /\ space' = "present"
            /\ creator' = usr[r]
            /\ count' = 1
            /\ Goto(r, "add_owner")
            /\ UNCHANGED <<member, joins, purged>>
       ELSE /\ Return(r)
            /\ UNCHANGED table

\* What Add reports is ignored; the foreign key refuses a deleted space.
AddOwner(r) ==
  /\ pc[r] = "add_owner"
  /\ IF space = "present"
       THEN Add(usr[r], "approved")
       ELSE UNCHANGED <<member, joins>>
  /\ Return(r)
  /\ UNCHANGED <<space, creator, count, purged>>

-----------------------------------------------------------------------------
(* JoinSpace, ApproveJoinRequest, DeclineJoinRequest *)

JoinGetByID(r, u) ==
  /\ space = "present"
  /\ u \notin purged
  /\ Start(r, "join", u)
  /\ UNCHANGED saw

\* Faulty variants: no foreign key; a request that admits at once.
JoinAddUnchecked(r) ==
  /\ pc[r] = "join"
  /\ Add(usr[r], "pending")
  /\ Return(r)
  /\ UNCHANGED <<space, creator, count, purged>>

JoinAddApproved(r) ==
  /\ pc[r] = "join"
  /\ IF space = "present"
       THEN Add(usr[r], "approved")
       ELSE UNCHANGED <<member, joins>>
  /\ Return(r)
  /\ UNCHANGED <<space, creator, count, purged>>

JoinAdd(r) ==
  /\ pc[r] = "join"
  /\ IF space = "present"
       THEN Add(usr[r], "pending")
       ELSE UNCHANGED <<member, joins>>
  /\ Return(r)
  /\ UNCHANGED <<space, creator, count, purged>>

ApproveAssertOwner(r, u) ==
  /\ \E o \in User : IsOwner(o)
  /\ Start(r, "approve", u)
  /\ UNCHANGED saw

\* Faulty variant: what Approve reports is ignored.
ApproveUncounted(r) ==
  LET u == usr[r] IN
  /\ pc[r] = "approve"
  /\ IF member[u] = "pending"
       THEN member' = [member EXCEPT ![u] = "approved"]
       ELSE UNCHANGED member
  /\ IncrementMemberCount(1)
  /\ Return(r)
  /\ UNCHANGED <<space, creator, joins, purged>>

\* Approve's WHERE clause: a row that is not pending is a no-op.
Approve(r) ==
  LET u == usr[r] IN
  /\ pc[r] = "approve"
  /\ IF member[u] = "pending"
       THEN /\ member' = [member EXCEPT ![u] = "approved"]
            /\ IncrementMemberCount(1)
       ELSE UNCHANGED <<member, count>>
  /\ Return(r)
  /\ UNCHANGED <<space, creator, joins, purged>>

DeclineAssertOwner(r, u) ==
  /\ \E o \in User : IsOwner(o)
  /\ Start(r, "decline", u)
  /\ UNCHANGED saw

Decline(r) ==
  LET u == usr[r] IN
  /\ pc[r] = "decline"
  /\ IF member[u] = "pending"
       THEN member' = [member EXCEPT ![u] = "none"]
       ELSE UNCHANGED member
  /\ Return(r)
  /\ UNCHANGED <<space, creator, count, joins, purged>>

-----------------------------------------------------------------------------
(* LeaveSpace *)

LeaveIsApprovedMember(r, u) ==
  /\ u \notin purged
  /\ Start(r, "remove", u)
  /\ saw' = [saw EXCEPT ![r] = (member[u] = "approved")]

\* Remove deletes whatever row there is; the count follows what was read before.
LeaveRemove(r) ==
  LET u == usr[r] IN
  /\ pc[r] = "remove"
  /\ IF member[u] # "none"
       THEN /\ member' = [member EXCEPT ![u] = "none"]
            /\ IF saw[r] THEN IncrementMemberCount(-1) ELSE UNCHANGED count
       ELSE UNCHANGED <<member, count>>
  /\ Return(r)
  /\ UNCHANGED <<space, creator, joins, purged>>

-----------------------------------------------------------------------------
(* DeleteSpace *)

DeleteAssertOwner(r) ==
  /\ \E o \in User : IsOwner(o) /\ Start(r, "delete", o)
  /\ UNCHANGED saw

\* The members go with the row (ON DELETE CASCADE).
Delete(r) ==
  /\ pc[r] = "delete"
  /\ space' = "deleted"
  /\ count' = 0
  /\ member' = [u \in User |-> "none"]
  /\ Return(r)
  /\ UNCHANGED <<creator, joins, purged>>

-----------------------------------------------------------------------------
\* CleanupWorker purges an account deleted for 30 days: its memberships and its spaces
\* go with it (ON DELETE CASCADE), member_count stays.  Its own handlers ended long ago.
Own == {"create", "add_owner", "join", "remove", "delete"}
Purge(u) ==
  /\ u \notin purged
  /\ \A r \in Req : ~(pc[r] \in Own /\ usr[r] = u)
  /\ purged' = purged \union {u}
  /\ IF IsOwner(u)
       THEN /\ space' = "deleted"
            /\ count' = 0
            /\ member' = [v \in User |-> "none"]
       ELSE /\ member' = [member EXCEPT ![u] = "none"]
            /\ UNCHANGED <<space, count>>
  /\ UNCHANGED <<creator, joins, handler>>

\* A handler stops before its next step, its transaction rolled back: a database
\* error, a notification that cannot be written, a cancelled request, a crash.
Abandon(r) ==
  /\ pc[r] # "idle"
  /\ Return(r)
  /\ UNCHANGED table

-----------------------------------------------------------------------------
Next ==
  \/ \E r \in Req, u \in User : CreateGetByHandle(r, u)
  \/ \E r \in Req, u \in User : JoinGetByID(r, u)
  \/ \E r \in Req, u \in User : ApproveAssertOwner(r, u)
  \/ \E r \in Req, u \in User : DeclineAssertOwner(r, u)
  \/ \E r \in Req, u \in User : LeaveIsApprovedMember(r, u)
  \/ \E r \in Req : DeleteAssertOwner(r)
  \/ \E r \in Req : Create(r)
  \/ \E r \in Req : AddOwner(r)
  \/ \E r \in Req : JoinAdd(r)
  \/ \E r \in Req : Approve(r)
  \/ \E r \in Req : Decline(r)
  \/ \E r \in Req : LeaveRemove(r)
  \/ \E r \in Req : Delete(r)
  \/ \E r \in Req : Abandon(r)
  \/ \E u \in User : Purge(u)

Spec == Init /\ [][Next]_vars

-----------------------------------------------------------------------------
TypeOK ==
  /\ space \in {"absent", "present", "deleted"}
  /\ creator \in User \union {NoUser}
  /\ count \in Int
  /\ member \in [User -> {"none", "pending", "approved"}]
  /\ joins \in 0..MaxJoins
  /\ purged \in SUBSET User
  /\ pc \in [Req -> {"idle", "create", "add_owner", "join", "approve",
                     "decline", "remove", "delete"}]
  /\ usr \in [Req -> User \union {NoUser}]
  /\ saw \in [Req -> BOOLEAN]
  /\ \A r \in Req : pc[r] # "idle" => usr[r] \in User
  /\ space # "present" => \A u \in User : member[u] = "none"

Approved == {u \in User : member[u] = "approved"}

\* The creator is counted by Create and becomes a member in AddOwner.
Arriving == {r \in Req : pc[r] = "add_owner"}
Surplus == count - Cardinality(Approved) - Cardinality(Arriving)

\* What can part member_count from the members, and nothing else can: a LeaveSpace
\* that removes a row whose status has changed since it was read, a CreateSpace that
\* stops after its first commit or meets a row its creator's own JoinSpace made, and
\* the purge of a member's account.  Approvals and declines, doubled or crossed, never do.
StaleLeave(r) == pc[r] = "remove" /\ saw[r] # (member[usr[r]] = "approved")
StrayCreation(r) == pc[r] = "add_owner" /\ UNCHANGED member
CountFollowsMembers ==
  [][space = "present" /\ space' = "present" /\ Surplus' # Surplus =>
       \/ \E r \in Req : pc'[r] = "idle" /\ (StaleLeave(r) \/ StrayCreation(r))
       \/ \E u \in purged' \ purged : member[u] = "approved"]_vars

\* Nobody reads a space's posts without the owner's consent: a user is a member only
\* out of a request that an approval under way has accepted, or as the creator.
MembersWereAdmitted ==
  [][\A u \in User : member'[u] = "approved" /\ member[u] # "approved" =>
       \/ member[u] = "pending" /\ \E r \in Req : pc[r] = "approve" /\ usr[r] = u
       \/ member[u] = "none" /\ u = creator /\ \E r \in Req : pc[r] = "add_owner"]_vars

-----------------------------------------------------------------------------
\* "We only decrement member_count if the removed row was an approved member -
\* otherwise we'd drift negative": the count never falls below the members there are.
NoNegativeDrift == space = "present" => count >= Cardinality(Approved)
=============================================================================
