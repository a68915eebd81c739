------------------------- MODULE SpaceMembersProofs -------------------------
(***************************************************************************)
(* What SpaceMembers guarantees for every number of users and handlers.    *)
(* The inductive invariant adds to the types that rows of space_members    *)
(* are left for the handlers that may insert one, and that a handler about *)
(* to make the owner a member works for the creator of an existing space.  *)
(***************************************************************************)
EXTENDS SpaceMembers, FiniteSetTheorems, TLAPS

Adders == {r \in Req : pc[r] \in Adding}

\* The bound leaves a row for every handler that may insert one.
RoomInv == joins \in Nat /\ joins + Cardinality(Adders) <= MaxJoins

\* CreateSpace makes the creator a member, nobody else.
OwnerInv == \A r \in Req : pc[r] = "add_owner" => usr[r] = creator /\ space # "absent"

Types ==
  /\ space \in {"absent", "present", "deleted"}
  /\ creator \in User \union {NoUser}
  /\ count \in Int
  /\ member \in [User -> {"none", "pending", "approved"}]
  /\ purged \in SUBSET User
  /\ pc \in [Req -> {"idle", "create", "add_owner", "join", "approve",
                     "decline", "remove", "delete"}]
  /\ usr \in [Req -> User \union {NoUser}]
  /\ saw \in [Req -> BOOLEAN]
  /\ \A r \in Req : pc[r] # "idle" => usr[r] \in User
  /\ space # "present" => \A u \in User : member[u] = "none"

IInv == Types /\ RoomInv /\ OwnerInv

-----------------------------------------------------------------------------
\* Counting handlers and users: members added and removed one at a time.
LEMMA Counting ==
  ASSUME NEW S, IsFiniteSet(S), NEW x
  PROVE  /\ Cardinality(S) \in Nat /\ Cardinality(S \ {x}) \in Nat
         /\ x \notin S => Cardinality(S \union {x}) = Cardinality(S) + 1
         /\ x \in S => Cardinality(S \ {x}) = Cardinality(S) - 1
<1>1. Cardinality(S) \in Nat
  BY FS_CardinalityType
<1>2. /\ IsFiniteSet(S \union {x})
      /\ Cardinality(S \union {x}) = IF x \in S THEN Cardinality(S) ELSE Cardinality(S) + 1
  BY FS_AddElement
<1>3. /\ IsFiniteSet(S \ {x})
      /\ Cardinality(S \ {x}) = IF x \in S THEN Cardinality(S) - 1 ELSE Cardinality(S)
  BY FS_RemoveElement
<1>4. Cardinality(S \ {x}) \in Nat
  BY <1>3, FS_CardinalityType
<1>5. QED
  BY <1>1, <1>2, <1>3, <1>4

\* The sets that are counted are finite.
LEMMA Finite == IsFiniteSet(Adders) /\ IsFiniteSet(Arriving) /\ IsFiniteSet(Approved)
<1>1. Adders \subseteq Req /\ Arriving \subseteq Req /\ Approved \subseteq User
  BY DEF Adders, Arriving, Approved
<1>2. QED
  BY <1>1, FS_Subset, SpaceAssumption

\* A handler that starts takes up one of the rows left, if it may insert one.
LEMMA StartRoom ==
  ASSUME IInv, NEW r \in Req, NEW u \in User,
         NEW next \in {"create", "join", "approve", "decline", "remove", "delete"},
         Start(r, next, u)
  PROVE  RoomInv'
<1>1. joins' = joins /\ joins \in Nat
  BY DEF Start, table, IInv, RoomInv
<1>2. pc[r] = "idle" /\ pc' = [pc EXCEPT ![r] = next] /\ r \notin Adders
  BY DEF Start, Adders, Adding
<1>3. CASE next \in Adding
  <2>1. Adders' = Adders \union {r}
    BY <1>2, <1>3 DEF Adders, IInv, Types
  <2>2. joins + Cardinality(Adders) < MaxJoins
    BY <1>3 DEF Start, Room, Adders
  <2>3. Cardinality(Adders') = Cardinality(Adders) + 1 /\ Cardinality(Adders) \in Nat
    BY <1>2, <2>1, Finite, Counting
  <2>4. QED
    BY <1>1, <2>2, <2>3, SpaceAssumption DEF RoomInv
<1>4. CASE next \notin Adding
  <2>1. Adders' = Adders
    BY <1>2, <1>4 DEF Adders, Adding, IInv, Types
  <2>2. QED
    BY <1>1, <2>1 DEF RoomInv, IInv
<1>5. QED
  BY <1>3, <1>4

\* A handler that returns without inserting leaves the room there was, or more.
LEMMA ReturnRoom ==
  ASSUME IInv, NEW r \in Req, Return(r), joins' = joins
  PROVE  RoomInv'
<1>1. Adders' = Adders \ {r}
  BY DEF Return, Adders, Adding, IInv, Types
<1>2. /\ Cardinality(Adders) \in Nat /\ Cardinality(Adders \ {r}) \in Nat
      /\ r \in Adders => Cardinality(Adders \ {r}) = Cardinality(Adders) - 1
  BY Finite, Counting
<1>3. Cardinality(Adders') <= Cardinality(Adders) /\ Cardinality(Adders') \in Nat
  <2>1. CASE r \in Adders
    BY <1>1, <1>2, <2>1
  <2>2. CASE r \notin Adders
    <3>1. Adders' = Adders
      BY <1>1, <2>2
    <3>2. QED
      BY <1>2, <3>1
  <2>3. QED
    BY <2>1, <2>2
<1>4. joins \in Nat /\ joins + Cardinality(Adders) <= MaxJoins
  BY DEF IInv, RoomInv
<1>5. QED
  BY <1>2, <1>3, <1>4, SpaceAssumption DEF RoomInv

\* One that may insert a row and returns has used at most the row left for it.
LEMMA AddRoom ==
  ASSUME IInv, NEW r \in Req, Return(r), pc[r] \in Adding, joins' \in {joins, joins + 1}
  PROVE  RoomInv'
<1>1. Adders' = Adders \ {r} /\ r \in Adders
  BY DEF Return, Adders, Adding, IInv, Types
<1>2. Cardinality(Adders) \in Nat /\ Cardinality(Adders \ {r}) = Cardinality(Adders) - 1
  BY <1>1, Finite, Counting
<1>3. QED
  BY <1>1, <1>2, SpaceAssumption DEF RoomInv, IInv

\* Starting keeps the inductive invariant: no handler starts on the owner's membership.
LEMMA StartIInv ==
  ASSUME IInv, NEW r \in Req, NEW u \in User,
         NEW next \in {"create", "join", "approve", "decline", "remove", "delete"},
         Start(r, next, u), saw' \in [Req -> BOOLEAN]
  PROVE  IInv'
<1>1. RoomInv'
  BY StartRoom
<1>2. Types'
  BY DEF Start, table, IInv, Types
<1>3. OwnerInv'
  BY DEF Start, table, IInv, Types, OwnerInv
<1>4. QED
  BY <1>1, <1>2, <1>3 DEF IInv

\* So does returning, when what was written has its types and no space was made.
LEMMA ReturnIInv ==
  ASSUME IInv, NEW r \in Req, Return(r), RoomInv',
         space' \in {space, "deleted"}, creator' = creator, count' \in Int,
         member' \in [User -> {"none", "pending", "approved"}], purged' \in SUBSET User,
         space' # "present" => \A u \in User : member'[u] = "none"
  PROVE  IInv'
<1>1. Types'
  BY SpaceAssumption DEF Return, IInv, Types
<1>2. OwnerInv'
  BY DEF Return, IInv, Types, OwnerInv
<1>3. QED
  BY <1>1, <1>2 DEF IInv

\* The initial state satisfies the inductive invariant.
LEMMA InitIInv == Init => IInv
<1> SUFFICES ASSUME Init PROVE IInv
  OBVIOUS
<1>1. Adders = {}
  BY DEF Init, Adders, Adding
<1>2. Cardinality(Adders) = 0
  BY <1>1, FS_EmptySet
<1>3. QED
  BY <1>2, SpaceAssumption DEF Init, IInv, Types, RoomInv, OwnerInv

\* Every step preserves it.
LEMMA NextIInv == IInv /\ [Next]_vars => IInv'
<1> SUFFICES ASSUME IInv, [Next]_vars PROVE IInv'
  OBVIOUS
<1>0. Types /\ saw \in [Req -> BOOLEAN] /\ joins \in Nat
  BY DEF IInv, Types, RoomInv
<1>1. ASSUME NEW r \in Req, NEW u \in User,
             \/ CreateGetByHandle(r, u) \/ JoinGetByID(r, u)
             \/ ApproveAssertOwner(r, u) \/ DeclineAssertOwner(r, u)
      PROVE  IInv'
  BY <1>0, <1>1, StartIInv
  DEF CreateGetByHandle, JoinGetByID, ApproveAssertOwner, DeclineAssertOwner
<1>2. ASSUME NEW r \in Req, NEW u \in User, LeaveIsApprovedMember(r, u) PROVE IInv'
  <2>1. saw' \in [Req -> BOOLEAN]
    BY <1>0, <1>2 DEF LeaveIsApprovedMember
  <2>2. QED
    BY <1>2, <2>1, StartIInv DEF LeaveIsApprovedMember
<1>3. ASSUME NEW r \in Req, DeleteAssertOwner(r) PROVE IInv'
  BY <1>0, <1>3, StartIInv DEF DeleteAssertOwner
<1>4. ASSUME NEW r \in Req, Create(r) PROVE IInv'
  <2>1. CASE space = "absent"
    <3>1. Adders' = Adders /\ joins' = joins
      BY <1>0, <1>4, <2>1 DEF Create, Goto, Adders, Adding, Types
    <3>2. RoomInv'
      BY <3>1 DEF RoomInv, IInv
    <3>3. Types'
      BY <1>0, <1>4, <2>1 DEF Create, Goto, Types
    <3>4. OwnerInv'
      BY <1>0, <1>4, <2>1 DEF Create, Goto, Types, IInv, OwnerInv
    <3>5. QED
      BY <3>2, <3>3, <3>4 DEF IInv
  <2>2. CASE space # "absent"
    <3>1. Return(r) /\ UNCHANGED table
      BY <1>4, <2>2 DEF Create
    <3>2. RoomInv'
      BY <3>1, ReturnRoom DEF table
    <3>3. QED
      BY <1>0, <3>1, <3>2, ReturnIInv DEF table, Types
  <2>3. QED
    BY <2>1, <2>2
<1>5. ASSUME NEW r \in Req, AddOwner(r) \/ JoinAdd(r) PROVE IInv'
  <2>1. /\ Return(r) /\ pc[r] \in Adding
        /\ UNCHANGED <<space, creator, count, purged>>
    BY <1>5 DEF AddOwner, JoinAdd, Adding
  <2>2. joins' \in {joins, joins + 1}
    BY <1>5 DEF AddOwner, JoinAdd, Add
  <2>3. RoomInv'
    BY <2>1, <2>2, AddRoom
  <2>4. /\ member' \in [User -> {"none", "pending", "approved"}]
        /\ space # "present" => member' = member
    BY <1>0, <1>5 DEF AddOwner, JoinAdd, Add, Types
  <2>5. QED
    BY <1>0, <2>1, <2>3, <2>4, ReturnIInv DEF Types
<1>6. ASSUME NEW r \in Req, Approve(r) \/ Decline(r) \/ LeaveRemove(r) PROVE IInv'
  <2>1. Return(r) /\ UNCHANGED <<space, creator, joins, purged>>
    BY <1>6 DEF Approve, Decline, LeaveRemove
  <2>2. RoomInv'
    BY <2>1, ReturnRoom
  <2>3. count' \in Int
    BY <1>0, <1>6 DEF Approve, Decline, LeaveRemove, IncrementMemberCount, Types
  <2>4. usr[r] \in User
    BY <1>0, <1>6 DEF Approve, Decline, LeaveRemove, Types
  <2>5. /\ member' \in [User -> {"none", "pending", "approved"}]
        /\ space # "present" => \A u \in User : member'[u] = "none"
    BY <1>0, <1>6, <2>4 DEF Approve, Decline, LeaveRemove, Types
  <2>6. QED
    BY <1>0, <2>1, <2>2, <2>3, <2>5, ReturnIInv DEF Types
<1>7. ASSUME NEW r \in Req, Delete(r) PROVE IInv'
  <2>1. RoomInv'
    BY <1>7, ReturnRoom DEF Delete
  <2>2. QED
    BY <1>0, <1>7, <2>1, ReturnIInv DEF Delete, Types
<1>8. ASSUME NEW r \in Req, Abandon(r) PROVE IInv'
  <2>1. RoomInv'
    BY <1>8, ReturnRoom DEF Abandon, table
  <2>2. QED
    BY <1>0, <1>8, <2>1, ReturnIInv DEF Abandon, table, Types
<1>9. ASSUME NEW u \in User, Purge(u) PROVE IInv'
  <2>1. UNCHANGED <<creator, joins, pc, usr, saw>>
    BY <1>9 DEF Purge, handler
  <2>2. RoomInv'
    <3>1. Adders' = Adders
      BY <2>1 DEF Adders, Adding
    <3>2. QED
      BY <2>1, <3>1 DEF RoomInv, IInv
  <2>3. Types'
    BY <1>0, <1>9, <2>1 DEF Purge, Types
  <2>4. OwnerInv'
    BY <1>9, <2>1 DEF Purge, OwnerInv, IInv
  <2>5. QED
    BY <2>2, <2>3, <2>4 DEF IInv
<1>10. CASE UNCHANGED vars
  <2>1. Adders' = Adders
    BY <1>10 DEF vars, handler, Adders, Adding
  <2>2. QED
    BY <1>10, <2>1 DEF vars, table, handler, IInv, Types, RoomInv, OwnerInv
<1>11. QED
  BY <1>1, <1>2, <1>3, <1>4, <1>5, <1>6, <1>7, <1>8, <1>9, <1>10 DEF Next

\* The inductive invariant holds in every reachable state.
LEMMA Invariance == Spec => []IInv
  BY InitIInv, NextIInv, PTL DEF Spec

\* Every variable keeps its type, and a space that is not there has no members.
THEOREM TypeCorrect == Spec => []TypeOK
<1>1. IInv => TypeOK
  <2> SUFFICES ASSUME IInv PROVE joins \in 0..MaxJoins
    BY DEF IInv, Types, TypeOK
  <2>1. Cardinality(Adders) \in Nat
    BY Finite, Counting
  <2>2. QED
    BY <2>1, SpaceAssumption DEF IInv, RoomInv
<1>2. QED
  BY <1>1, Invariance, PTL

-----------------------------------------------------------------------------
(* Who becomes a member *)

\* Nobody reads a space's posts without the owner's consent: a user is a member only
\* out of a request that an approval accepts, or as the creator of the space.
THEOREM OnlyTheAdmittedAreMembers == Spec => MembersWereAdmitted
<1> DEFINE Admitted(u) ==
      \/ member[u] = "pending" /\ \E r \in Req : pc[r] = "approve" /\ usr[r] = u
      \/ member[u] = "none" /\ u = creator /\ \E r \in Req : pc[r] = "add_owner"
<1>1. ASSUME IInv, [Next]_vars, NEW u \in User, member'[u] = "approved", member[u] # "approved"
      PROVE  Admitted(u)
  <2>0. member \in [User -> {"none", "pending", "approved"}]
    BY <1>1 DEF IInv, Types
  <2>1. ASSUME NEW r \in Req, AddOwner(r) PROVE Admitted(u)
    <3>1. pc[r] = "add_owner" /\ usr[r] = creator
      BY <1>1, <2>1 DEF AddOwner, IInv, OwnerInv
    <3>2. member[usr[r]] = "none" /\ u = usr[r]
      BY <1>1, <2>0, <2>1 DEF AddOwner, Add
    <3>3. QED
      BY <3>1, <3>2
  <2>2. ASSUME NEW r \in Req, Approve(r) PROVE Admitted(u)
    <3>1. pc[r] = "approve" /\ member[usr[r]] = "pending" /\ u = usr[r]
      BY <1>1, <2>0, <2>2 DEF Approve
    <3>2. QED
      BY <3>1
  <2>3. ASSUME NEW r \in Req, JoinAdd(r) \/ Decline(r) \/ LeaveRemove(r) \/ Delete(r)
        PROVE  member'[u] # "approved"
    BY <1>1, <2>0, <2>3 DEF JoinAdd, Add, Decline, LeaveRemove, Delete
  <2>4. ASSUME NEW v \in User, Purge(v) PROVE member'[u] # "approved"
    BY <1>1, <2>0, <2>4 DEF Purge
  <2>5. CASE member' = member
    BY <1>1, <2>5
  <2>6. QED
    BY <1>1, <2>1, <2>2, <2>3, <2>4, <2>5
    DEF Next, vars, table, handler, Start, CreateGetByHandle, JoinGetByID, ApproveAssertOwner,
        DeclineAssertOwner, LeaveIsApprovedMember, DeleteAssertOwner, Create, Abandon
<1>2. IInv /\ [Next]_vars =>
        [\A u \in User : member'[u] = "approved" /\ member[u] # "approved" =>
           \/ member[u] = "pending" /\ \E r \in Req : pc[r] = "approve" /\ usr[r] = u
           \/ member[u] = "none" /\ u = creator /\ \E r \in Req : pc[r] = "add_owner"]_vars
  BY <1>1
<1>3. QED
  BY <1>2, Invariance, PTL DEF Spec, MembersWereAdmitted

-----------------------------------------------------------------------------
(* What moves member_count away from the members *)

\* The surplus depends on the three terms it is made of.
LEMMA SameSurplus ==
  ASSUME IInv, count' = count, Approved' = Approved, Arriving' = Arriving
  PROVE  Surplus' = Surplus
  BY DEF Surplus

\* A membership counted when it is made: Approve, and the creator's.
LEMMA Admit ==
  ASSUME IInv, NEW u \in User, member[u] # "approved", member' = [member EXCEPT ![u] = "approved"]
  PROVE  Cardinality(Approved') = Cardinality(Approved) + 1 /\ Cardinality(Approved) \in Nat
<1>1. Approved' = Approved \union {u} /\ u \notin Approved
  BY DEF Approved, IInv, Types
<1>2. QED
  BY <1>1, Finite, Counting

\* A row that goes, or becomes pending.
LEMMA Remove ==
  ASSUME IInv, NEW u \in User, NEW s \in {"none", "pending"},
         member' = [member EXCEPT ![u] = s]
  PROVE  /\ member[u] = "approved" => Cardinality(Approved') = Cardinality(Approved) - 1
         /\ member[u] # "approved" => Approved' = Approved
         /\ Cardinality(Approved) \in Nat
<1>1. Approved' = Approved \ {u}
  BY DEF Approved, IInv, Types
<1>2. u \in Approved <=> member[u] = "approved"
  BY DEF Approved
<1>3. QED
  BY <1>1, <1>2, Finite, Counting

\* A handler that returns is not arriving any more.
LEMMA ReturnArriving ==
  ASSUME IInv, NEW r \in Req, Return(r)
  PROVE  /\ pc[r] # "add_owner" => Arriving' = Arriving
         /\ pc[r] = "add_owner" => Cardinality(Arriving') = Cardinality(Arriving) - 1
         /\ Cardinality(Arriving) \in Nat
         /\ pc'[r] = "idle"
<1>1. Arriving' = Arriving \ {r} /\ pc'[r] = "idle"
  BY DEF Arriving, Return, IInv, Types
<1>2. r \in Arriving <=> pc[r] = "add_owner"
  BY DEF Arriving
<1>3. QED
  BY <1>1, <1>2, Finite, Counting

\* In no interleaving does member_count part from the members other than by a stale
\* LeaveSpace, a CreateSpace that stops or collides after its first commit, or a purge.
THEOREM CountFollows == Spec => CountFollowsMembers
<1> DEFINE Excused ==
      \/ \E r \in Req : pc'[r] = "idle" /\ (StaleLeave(r) \/ StrayCreation(r))
      \/ \E u \in purged' \ purged : member[u] = "approved"
<1>1. ASSUME IInv, [Next]_vars, space = "present", space' = "present"
      PROVE  Surplus' = Surplus \/ Excused
  <2>0. /\ member \in [User -> {"none", "pending", "approved"}]
        /\ pc \in [Req -> {"idle", "create", "add_owner", "join", "approve",
                           "decline", "remove", "delete"}]
        /\ \A r \in Req : pc[r] # "idle" => usr[r] \in User
        /\ count \in Int
    BY <1>1 DEF IInv, Types
  <2>a. Cardinality(Approved) \in Nat /\ Cardinality(Arriving) \in Nat
    BY Finite, Counting
  <2>1. ASSUME NEW r \in Req, NEW u \in User,
               NEW next \in {"create", "join", "approve", "decline", "remove", "delete"},
               Start(r, next, u)
        PROVE  Surplus' = Surplus
    <3>1. Arriving' = Arriving /\ Approved' = Approved /\ count' = count
      BY <2>0, <2>1 DEF Start, table, Arriving, Approved
    <3>2. QED
      BY <1>1, <3>1, SameSurplus
  <2>2. ASSUME NEW r \in Req, Create(r) PROVE Surplus' = Surplus
    <3>1. Return(r) /\ UNCHANGED table /\ pc[r] # "add_owner"
      BY <1>1, <2>2 DEF Create
    <3>2. QED
      BY <1>1, <3>1, ReturnArriving, SameSurplus DEF table, Approved
  <2>3. ASSUME NEW r \in Req, AddOwner(r) PROVE Surplus' = Surplus \/ Excused
    <3>0. Return(r) /\ pc[r] = "add_owner" /\ count' = count /\ usr[r] \in User
      BY <2>0, <2>3 DEF AddOwner
    <3>1. CASE member[usr[r]] = "none"
      <4>1. member' = [member EXCEPT ![usr[r]] = "approved"]
        BY <1>1, <2>3, <3>1 DEF AddOwner, Add
      <4>2. Cardinality(Approved') = Cardinality(Approved) + 1
        BY <1>1, <3>0, <3>1, <4>1, Admit
      <4>3. Cardinality(Arriving') = Cardinality(Arriving) - 1
        BY <1>1, <3>0, ReturnArriving
      <4>4. QED
        BY <2>0, <2>a, <3>0, <4>1, <4>2, <4>3 DEF Surplus
    <3>2. CASE member[usr[r]] # "none"
      <4>1. UNCHANGED member
        BY <1>1, <2>3, <3>2 DEF AddOwner, Add
      <4>2. QED
        BY <1>1, <3>0, <4>1, ReturnArriving DEF StrayCreation
    <3>3. QED
      BY <3>1, <3>2
  <2>4. ASSUME NEW r \in Req, JoinAdd(r) PROVE Surplus' = Surplus
    <3>0. Return(r) /\ pc[r] # "add_owner" /\ count' = count /\ usr[r] \in User
      BY <2>0, <2>4 DEF JoinAdd
    <3>1. Approved' = Approved
      BY <2>0, <2>4, <3>0 DEF JoinAdd, Add, Approved
    <3>2. QED
      BY <1>1, <3>0, <3>1, ReturnArriving, SameSurplus
  <2>5. ASSUME NEW r \in Req, Approve(r) PROVE Surplus' = Surplus
    <3>0. Return(r) /\ pc[r] # "add_owner" /\ usr[r] \in User
      BY <2>0, <2>5 DEF Approve
    <3>1. CASE member[usr[r]] = "pending"
      <4>1. member' = [member EXCEPT ![usr[r]] = "approved"] /\ count' = count + 1
        BY <2>5, <3>1 DEF Approve, IncrementMemberCount
      <4>2. Cardinality(Approved') = Cardinality(Approved) + 1
        BY <1>1, <3>0, <3>1, <4>1, Admit
      <4>3. Arriving' = Arriving
        BY <1>1, <3>0, ReturnArriving
      <4>4. QED
        BY <2>0, <2>a, <4>1, <4>2, <4>3 DEF Surplus
    <3>2. CASE member[usr[r]] # "pending"
      <4>1. Approved' = Approved /\ count' = count
        BY <2>5, <3>2 DEF Approve, Approved
      <4>2. QED
        BY <1>1, <3>0, <4>1, ReturnArriving, SameSurplus
    <3>3. QED
      BY <3>1, <3>2
  <2>6. ASSUME NEW r \in Req, Decline(r) PROVE Surplus' = Surplus
    <3>0. Return(r) /\ pc[r] # "add_owner" /\ count' = count /\ usr[r] \in User
      BY <2>0, <2>6 DEF Decline
    <3>1. Approved' = Approved
      BY <2>0, <2>6, <3>0 DEF Decline, Approved
    <3>2. QED
      BY <1>1, <3>0, <3>1, ReturnArriving, SameSurplus
  <2>7. ASSUME NEW r \in Req, LeaveRemove(r) PROVE Surplus' = Surplus \/ Excused
    <3>0. Return(r) /\ pc[r] = "remove" /\ usr[r] \in User
      BY <2>0, <2>7 DEF LeaveRemove
    <3>1. CASE saw[r] # (member[usr[r]] = "approved")
      BY <1>1, <3>0, <3>1, ReturnArriving DEF StaleLeave
    <3>2. CASE saw[r] = (member[usr[r]] = "approved") /\ member[usr[r]] = "approved"
      <4>1. member' = [member EXCEPT ![usr[r]] = "none"] /\ count' = count - 1
        BY <2>0, <2>7, <3>2 DEF LeaveRemove, IncrementMemberCount
      <4>2. Cardinality(Approved') = Cardinality(Approved) - 1
        BY <1>1, <3>0, <3>2, <4>1, Remove
      <4>3. Arriving' = Arriving
        BY <1>1, <3>0, ReturnArriving
      <4>4. QED
        BY <2>0, <2>a, <4>1, <4>2, <4>3 DEF Surplus
    <3>3. CASE saw[r] = (member[usr[r]] = "approved") /\ member[usr[r]] # "approved"
      <4>1. count' = count /\ Approved' = Approved
        BY <2>0, <2>7, <3>0, <3>3 DEF LeaveRemove, Approved
      <4>2. QED
        BY <1>1, <3>0, <4>1, ReturnArriving, SameSurplus
    <3>4. QED
      BY <3>1, <3>2, <3>3
  <2>8. ASSUME NEW r \in Req, Abandon(r) PROVE Surplus' = Surplus \/ Excused
    <3>0. Return(r) /\ Approved' = Approved /\ count' = count /\ UNCHANGED member
      BY <2>8 DEF Abandon, table, Approved
    <3>1. CASE pc[r] = "add_owner"
      BY <1>1, <3>0, <3>1, ReturnArriving DEF StrayCreation
    <3>2. CASE pc[r] # "add_owner"
      BY <1>1, <3>0, <3>2, ReturnArriving, SameSurplus
    <3>3. QED
      BY <3>1, <3>2
  <2>9. ASSUME NEW u \in User, Purge(u) PROVE Surplus' = Surplus \/ Excused
    <3>0. /\ count' = count /\ Arriving' = Arriving /\ u \in purged' \ purged
          /\ member' = [member EXCEPT ![u] = "none"]
      BY <1>1, <2>9 DEF Purge, handler, Arriving
    <3>1. CASE member[u] = "approved"
      BY <3>0, <3>1
    <3>2. CASE member[u] # "approved"
      BY <1>1, <3>0, <3>2, Remove, SameSurplus
    <3>3. QED
      BY <3>1, <3>2
  <2>10. CASE UNCHANGED vars
    <3>1. Arriving' = Arriving /\ Approved' = Approved /\ count' = count
      BY <2>10 DEF vars, table, handler, Arriving, Approved
    <3>2. QED
      BY <1>1, <3>1, SameSurplus
  <2>11. ASSUME NEW r \in Req, Delete(r) PROVE FALSE
    BY <1>1, <2>11 DEF Delete
  <2>12. QED
    BY <1>1, <2>1, <2>2, <2>3, <2>4, <2>5, <2>6, <2>7, <2>8, <2>9, <2>10, <2>11
    DEF Next, CreateGetByHandle, JoinGetByID, ApproveAssertOwner, DeclineAssertOwner,
        LeaveIsApprovedMember, DeleteAssertOwner
<1>2. IInv /\ [Next]_vars =>
        [space = "present" /\ space' = "present" /\ Surplus' # Surplus =>
           \/ \E r \in Req : pc'[r] = "idle" /\ (StaleLeave(r) \/ StrayCreation(r))
           \/ \E u \in purged' \ purged : member[u] = "approved"]_vars
  BY <1>1
<1>3. QED
  BY <1>2, Invariance, PTL DEF Spec, CountFollowsMembers
=============================================================================
