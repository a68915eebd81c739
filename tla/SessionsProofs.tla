--------------------------- MODULE SessionsProofs ---------------------------
(***************************************************************************)
(* What Sessions guarantees for every number of accounts, tokens and       *)
(* handlers.  The inductive invariant IInv adds to the checked properties  *)
(* what they rest on: a row that was not inserted is its own root and has  *)
(* no successor, an open Rotate holds an unrevoked row that no other       *)
(* Rotate holds, and a chain has at most one unrevoked row.                *)
(***************************************************************************)
EXTENDS Sessions, AuthClient, TLAPS

\* An open Rotate works on an unrevoked row, alone.
LockInv ==
  /\ \A r \in Req : pc[r] = "rotate" => tok[r] \in issued \ revoked
  /\ \A r, s \in Req : pc[r] = "rotate" /\ pc[s] = "rotate" /\ tok[r] = tok[s] => r = s

\* Rows not inserted yet are untouched, and chains start at inserted rows.
FreshInv ==
  /\ \A t \in Token \ issued : root[t] = t /\ rotatedTo[t] = NoToken
  /\ \A t \in issued : root[t] \in issued

\* A chain has one unrevoked row at most, its last.
OneUnrevoked == \A a, b \in issued \ revoked : root[a] = root[b] => a = b

IInv == TypeOK /\ LockInv /\ FreshInv /\ OneUnrevoked /\ ChainIntact

-----------------------------------------------------------------------------
\* The initial state satisfies the inductive invariant.
LEMMA InitIInv == Init => IInv
  BY SessionsAssumption
  DEF Init, IInv, TypeOK, LockInv, FreshInv, OneUnrevoked, ChainIntact, Statement

\* Starting a handler touches only its own slot, and leaves it outside Rotate.
LEMMA StartIInv ==
  ASSUME IInv, NEW r \in Req, NEW u \in User \union {NoUser},
         NEW t \in Token \union {NoToken},
         NEW next \in Statement \ {"rotate"}, Start(r, next, u, t)
  PROVE  IInv'
  BY SessionsAssumption
  DEF Start, IInv, TypeOK, LockInv, FreshInv, OneUnrevoked, ChainIntact, Statement,
      account, table

\* A handler that returns, whatever it held, and one that goes on to a statement other
\* than Rotate, leave the invariant alone as long as they write no token row.
LEMMA ReturnIInv ==
  ASSUME IInv, NEW r \in Req, Return(r), UNCHANGED table,
         status' \in [User -> {"absent", "active", "deleted"}],
         hasPassword' \in [User -> BOOLEAN]
  PROVE  IInv'
  BY SessionsAssumption
  DEF Return, IInv, TypeOK, LockInv, FreshInv, OneUnrevoked, ChainIntact, Statement, table

\* A handler that goes on to a statement other than Rotate.
LEMMA GotoIInv ==
  ASSUME IInv, NEW r \in Req, NEW next \in Statement \ {"rotate"}, Goto(r, next),
         UNCHANGED table,
         status' \in [User -> {"absent", "active", "deleted"}],
         hasPassword' \in [User -> BOOLEAN]
  PROVE  IInv'
  BY SessionsAssumption
  DEF Goto, IInv, TypeOK, LockInv, FreshInv, OneUnrevoked, ChainIntact, Statement, table

\* Every step preserves the inductive invariant.
LEMMA NextIInv == IInv /\ [Next]_vars => IInv'
<1> SUFFICES ASSUME IInv, [Next]_vars PROVE IInv'
  OBVIOUS
<1> USE SessionsAssumption
<1>0. /\ status \in [User -> {"absent", "active", "deleted"}]
      /\ hasPassword \in [User -> BOOLEAN]
  BY DEF IInv, TypeOK
<1>1. ASSUME NEW r \in Req, NEW u \in User, LoginPassword(r, u) PROVE IInv'
  BY <1>1, StartIInv DEF LoginPassword, Statement
<1>2. ASSUME NEW r \in Req, NEW u \in User, LoginVerify(r, u) PROVE IInv'
  BY <1>2, StartIInv DEF LoginVerify, Statement
<1>3. ASSUME NEW r \in Req, NEW u \in User, RegisterVerify(r, u) PROVE IInv'
  BY <1>3, StartIInv DEF RegisterVerify, Statement
<1>4. ASSUME NEW r \in Req, NEW t \in Token, RefreshFind(r, t) PROVE IInv'
  <2>1. owner[t] \in User \union {NoUser}
    BY DEF IInv, TypeOK
  <2>2. QED
    BY <1>4, <2>1, StartIInv DEF RefreshFind, Statement
<1>5. ASSUME NEW r \in Req, NEW u \in User, PasswordResetVerify(r, u) PROVE IInv'
  BY <1>5, StartIInv DEF PasswordResetVerify, Statement
<1>6. ASSUME NEW r \in Req, Create(r) PROVE IInv'
  <2>1. status' \in [User -> {"absent", "active", "deleted"}]
    BY <1>6 DEF Create, account, IInv, TypeOK
  <2>2. hasPassword' \in [User -> BOOLEAN]
    <3>1. \A given \in BOOLEAN :
            [hasPassword EXCEPT ![usr[r]] = given] \in [User -> BOOLEAN]
      BY DEF IInv, TypeOK
    <3>2. QED
      BY <1>6, <3>1 DEF Create, account, IInv, TypeOK
  <2>3. \/ Return(r)
        \/ Goto(r, "insert")
    BY <1>6 DEF Create
  <2>4. UNCHANGED table
    BY <1>6 DEF Create
  <2>5. QED
    BY <2>1, <2>2, <2>3, <2>4, ReturnIInv, GotoIInv DEF Statement
<1>7. ASSUME NEW r \in Req, NEW n \in Token, Insert(r, n) PROVE IInv'
  BY <1>7
  DEF Insert, Return, IInv, TypeOK, LockInv, FreshInv, OneUnrevoked,
      ChainIntact, Statement, account, table
<1>8. ASSUME NEW r \in Req, FindReusedOwner(r) PROVE IInv'
  BY <1>8, <1>0, ReturnIInv, GotoIInv DEF FindReusedOwner, account, Statement
<1>9. ASSUME NEW r \in Req, GetByID(r) PROVE IInv'
  BY <1>9, <1>0, ReturnIInv, GotoIInv DEF GetByID, account, Statement
<1>10. ASSUME NEW r \in Req, RotateClaim(r) PROVE IInv'
  <2>1. CASE tok[r] \in Live
    BY <1>10, <2>1
    DEF RotateClaim, Goto, Live, Locked, IInv, TypeOK, LockInv, FreshInv, OneUnrevoked,
        ChainIntact, Statement, account, table
  <2>2. CASE tok[r] \notin Live
    BY <1>10, <2>2, <1>0, ReturnIInv DEF RotateClaim, account
  <2>3. QED
    BY <2>1, <2>2
<1>11. ASSUME NEW r \in Req, NEW n \in Token, RotateCommit(r, n) PROVE IInv'
  <2> DEFINE t == tok[r]
  <2>1. t \in issued \ revoked /\ t # n /\ n \notin issued
    BY <1>11 DEF RotateCommit, IInv, LockInv
  <2>2. TypeOK'
    BY <1>11, <2>1 DEF RotateCommit, Return, IInv, TypeOK, Statement, account
  <2>3. LockInv'
    BY <1>11, <2>1 DEF RotateCommit, Return, IInv, TypeOK, LockInv
  <2>4. FreshInv'
    <3>1. root' = [root EXCEPT ![n] = root[t]] /\ root[t] \in issued
      BY <1>11, <2>1 DEF RotateCommit, IInv, FreshInv
    <3>2. rotatedTo' = [rotatedTo EXCEPT ![t] = n] /\ issued' = issued \union {n}
      BY <1>11 DEF RotateCommit
    <3>3. \A x \in Token \ issued' : x # t /\ x # n /\ x \notin issued
      BY <2>1, <3>2
    <3>4. \A x \in issued' : root'[x] \in issued'
      BY <3>1, <3>2 DEF IInv, TypeOK, FreshInv
    <3>5. QED
      BY <3>1, <3>2, <3>3, <3>4 DEF IInv, TypeOK, FreshInv
  <2>5. OneUnrevoked'
    BY <1>11, <2>1 DEF RotateCommit, IInv, TypeOK, FreshInv, OneUnrevoked
  <2>6. ChainIntact'
    BY <1>11, <2>1 DEF RotateCommit, IInv, TypeOK, FreshInv, ChainIntact
  <2>7. QED
    BY <2>2, <2>3, <2>4, <2>5, <2>6 DEF IInv
<1>12. ASSUME NEW r \in Req, UpdatePasswordHash(r) PROVE IInv'
  <2>1. hasPassword' \in [User -> BOOLEAN]
    BY <1>12 DEF UpdatePasswordHash, IInv, TypeOK
  <2>2. Goto(r, "revoke_all") /\ UNCHANGED <<status, table>>
    BY <1>12 DEF UpdatePasswordHash
  <2>3. QED
    BY <2>1, <2>2, <1>0, GotoIInv DEF Statement
<1>13. ASSUME NEW r \in Req, RevokeAllBegin(r) PROVE IInv'
  BY <1>13
  DEF RevokeAllBegin, IInv, TypeOK, LockInv, FreshInv, OneUnrevoked,
      ChainIntact, Statement, account, table
<1>14. ASSUME NEW r \in Req, RevokeAllEnd(r) PROVE IInv'
  BY <1>14
  DEF RevokeAllEnd, Return, Locked, IInv, TypeOK, LockInv, FreshInv, OneUnrevoked,
      ChainIntact, Statement, account, table
<1>15. ASSUME NEW r \in Req, Abandon(r) PROVE IInv'
  BY <1>15, <1>0, ReturnIInv, GotoIInv DEF Abandon, account, Statement
<1>16. ASSUME NEW t \in Token, Logout(t) PROVE IInv'
  BY <1>16
  DEF Logout, Locked, handler, IInv, TypeOK, LockInv, FreshInv, OneUnrevoked,
      ChainIntact, Statement, account, table
<1>17. ASSUME NEW u \in User, SoftDelete(u) PROVE IInv'
  BY <1>17
  DEF SoftDelete, handler, IInv, TypeOK, LockInv, FreshInv, OneUnrevoked,
      ChainIntact, Statement, account, table
<1>18. ASSUME NEW t \in Token, Expire(t) PROVE IInv'
  BY <1>18
  DEF Expire, handler, IInv, TypeOK, LockInv, FreshInv, OneUnrevoked,
      ChainIntact, Statement, account, table
<1>19. ASSUME NEW t \in Token, GracePasses(t) PROVE IInv'
  BY <1>19
  DEF GracePasses, handler, IInv, TypeOK, LockInv, FreshInv, OneUnrevoked,
      ChainIntact, Statement, account, table
<1>20. CASE UNCHANGED vars
  BY <1>20 DEF vars, handler, IInv, TypeOK, LockInv, FreshInv, OneUnrevoked,
      ChainIntact, Statement, account, table
<1>21. QED
  BY <1>1, <1>2, <1>3, <1>4, <1>5, <1>6, <1>7, <1>8, <1>9, <1>10, <1>11, <1>12, <1>13, <1>14, <1>15, <1>16, <1>17, <1>18, <1>19, <1>20 DEF Next, Step

\* The types, the locks and the chains, whatever the interleaving.
THEOREM Invariance == Spec => []IInv
  BY InitIInv, NextIInv, PTL DEF Spec

\* Every variable keeps its type.
THEOREM TypeCorrect == Spec => []TypeOK
  BY Invariance, PTL DEF IInv

\* No interleaving of refreshes, sign-ins, resets, sign-outs, crashes and expiry forks
\* a session: a rotation chain has at most one token it can go on from.
THEOREM SessionsNeverFork == Spec => []NoFork
<1>1. IInv => NoFork
  BY DEF IInv, LockInv, OneUnrevoked, NoFork, Current
<1>2. QED
  BY <1>1, Invariance, PTL

\* rotated_to_id is an injective chain within one user and one session.
THEOREM ChainsStayIntact == Spec => []ChainIntact
  BY Invariance, PTL DEF IInv

-----------------------------------------------------------------------------
(* Sessions implements SessionChain: a sign-in opens a session, the commit of a
   Rotate exchanges a token, and no other step gives a session a current token. *)

\* A step that inserts no row and adds no current token closes sessions, or none.
LEMMA ShrinkCloses ==
  ASSUME TypeOK, UNCHANGED <<issued, root>>, Current' \subseteq Current
  PROVE  Chain!Next
<1> DEFINE T == Current \ Current'
<1>1. T \in SUBSET Token
  BY DEF TypeOK, Current
<1>2. Chain!Close(T)
  BY DEF Chain!Close
<1>3. QED
  BY <1>1, <1>2 DEF Chain!Next

\* A handler that starts claims no row.
LEMMA StartShrinks ==
  ASSUME IInv, NEW r \in Req, NEW u, NEW t, NEW next \in Statement \ {"rotate"},
         Start(r, next, u, t)
  PROVE  UNCHANGED <<issued, root>> /\ Current' \subseteq Current
  BY DEF Start, IInv, TypeOK, Current, Locked, table, Statement

\* The initial state is the abstract one.
LEMMA InitChain == Init => Chain!Init
  BY DEF Init, Chain!Init, Current

\* Every step is one of the abstract specification, or changes nothing in it.
LEMMA StepChain == IInv /\ [Next]_vars => [Chain!Next]_Chain!chain
<1> SUFFICES ASSUME IInv, [Next]_vars PROVE Chain!Next \/ UNCHANGED Chain!chain
  OBVIOUS
<1>1. TypeOK
  BY DEF IInv
<1>2. ASSUME NEW r \in Req, NEW n \in Token, Insert(r, n) PROVE Chain!Next
  <2>1. Current' = Current \union {n}
    BY <1>2 DEF Insert, Return, IInv, TypeOK, Current, Locked
  <2>2. root[n] = n
    BY <1>2 DEF Insert, IInv, FreshInv
  <2>3. Chain!Open(n)
    BY <1>2, <2>1 DEF Insert, Chain!Open
  <2>4. QED
    BY <2>3 DEF Chain!Next
<1>3. ASSUME NEW r \in Req, NEW n \in Token, RotateCommit(r, n) PROVE Chain!Next
  <2> DEFINE t == tok[r]
  <2>1. t \in Current /\ t \in Token
    BY <1>3 DEF RotateCommit, IInv, TypeOK, LockInv, Current, Locked
  <2>2. Current' = (Current \ {t}) \union {n}
    BY <1>3, <2>1 DEF RotateCommit, Return, IInv, TypeOK, LockInv, Current, Locked
  <2>3. Chain!Exchange(t, n)
    BY <1>3, <2>1, <2>2 DEF RotateCommit, Chain!Exchange
  <2>4. QED
    BY <2>1, <2>3 DEF Chain!Next
<1>4. ASSUME NEW r \in Req, NEW u \in User, LoginPassword(r, u) PROVE Chain!Next
  BY <1>1, <1>4, StartShrinks, ShrinkCloses DEF LoginPassword, Statement
<1>5. ASSUME NEW r \in Req, NEW u \in User, LoginVerify(r, u) PROVE Chain!Next
  BY <1>1, <1>5, StartShrinks, ShrinkCloses DEF LoginVerify, Statement
<1>6. ASSUME NEW r \in Req, NEW u \in User, RegisterVerify(r, u) PROVE Chain!Next
  BY <1>1, <1>6, StartShrinks, ShrinkCloses DEF RegisterVerify, Statement
<1>7. ASSUME NEW r \in Req, NEW t \in Token, RefreshFind(r, t) PROVE Chain!Next
  BY <1>1, <1>7, StartShrinks, ShrinkCloses DEF RefreshFind, Statement
<1>8. ASSUME NEW r \in Req, NEW u \in User, PasswordResetVerify(r, u) PROVE Chain!Next
  BY <1>1, <1>8, StartShrinks, ShrinkCloses DEF PasswordResetVerify, Statement
<1>9. ASSUME NEW r \in Req, Create(r) PROVE Chain!Next
  <2>1. UNCHANGED <<issued, root>> /\ Current' \subseteq Current
    BY <1>9 DEF Create, Goto, Return, IInv, TypeOK, Current, Locked, table
  <2>2. QED
    BY <1>1, <2>1, ShrinkCloses
<1>10. ASSUME NEW r \in Req, FindReusedOwner(r) PROVE Chain!Next
  <2>1. UNCHANGED <<issued, root>> /\ Current' \subseteq Current
    BY <1>10 DEF FindReusedOwner, Goto, Return, IInv, TypeOK, Current, Locked, table
  <2>2. QED
    BY <1>1, <2>1, ShrinkCloses
<1>11. ASSUME NEW r \in Req, GetByID(r) PROVE Chain!Next
  <2>1. UNCHANGED <<issued, root>> /\ Current' \subseteq Current
    BY <1>11 DEF GetByID, Goto, Return, IInv, TypeOK, Current, Locked, table
  <2>2. QED
    BY <1>1, <2>1, ShrinkCloses
<1>12. ASSUME NEW r \in Req, RotateClaim(r) PROVE Chain!Next
  <2>1. UNCHANGED <<issued, root>> /\ Current' \subseteq Current
    BY <1>12 DEF RotateClaim, Goto, Return, Live, IInv, TypeOK, Current, Locked, table
  <2>2. QED
    BY <1>1, <2>1, ShrinkCloses
<1>13. ASSUME NEW r \in Req, UpdatePasswordHash(r) PROVE Chain!Next
  <2>1. UNCHANGED <<issued, root>> /\ Current' \subseteq Current
    BY <1>13 DEF UpdatePasswordHash, Goto, IInv, TypeOK, Current, Locked, table
  <2>2. QED
    BY <1>1, <2>1, ShrinkCloses
<1>14. ASSUME NEW r \in Req, RevokeAllBegin(r) PROVE Chain!Next
  <2>1. UNCHANGED <<issued, root>> /\ Current' \subseteq Current
    BY <1>14 DEF RevokeAllBegin, IInv, TypeOK, Current, Locked, table
  <2>2. QED
    BY <1>1, <2>1, ShrinkCloses
<1>15. ASSUME NEW r \in Req, RevokeAllEnd(r) PROVE Chain!Next
  <2>1. UNCHANGED <<issued, root>> /\ Current' \subseteq Current
    BY <1>15 DEF RevokeAllEnd, Return, IInv, TypeOK, Current, Locked, table
  <2>2. QED
    BY <1>1, <2>1, ShrinkCloses
<1>16. ASSUME NEW r \in Req, Abandon(r) PROVE Chain!Next
  <2>1. UNCHANGED <<issued, root>> /\ Current' \subseteq Current
    BY <1>16 DEF Abandon, Return, IInv, TypeOK, Current, Locked, table
  <2>2. QED
    BY <1>1, <2>1, ShrinkCloses
<1>17. ASSUME NEW t \in Token, Logout(t) PROVE Chain!Next
  <2>1. UNCHANGED <<issued, root>> /\ Current' \subseteq Current
    BY <1>17 DEF Logout, handler, IInv, TypeOK, Current, Locked, table
  <2>2. QED
    BY <1>1, <2>1, ShrinkCloses
<1>18. ASSUME NEW u \in User, SoftDelete(u) PROVE Chain!Next
  <2>1. UNCHANGED <<issued, root>> /\ Current' \subseteq Current
    BY <1>18 DEF SoftDelete, handler, IInv, TypeOK, Current, Locked, table
  <2>2. QED
    BY <1>1, <2>1, ShrinkCloses
<1>19. ASSUME NEW t \in Token, Expire(t) PROVE Chain!Next
  <2>1. UNCHANGED <<issued, root>> /\ Current' \subseteq Current
    BY <1>19 DEF Expire, handler, IInv, TypeOK, Current, Locked, table
  <2>2. QED
    BY <1>1, <2>1, ShrinkCloses
<1>20. ASSUME NEW t \in Token, GracePasses(t) PROVE Chain!Next
  <2>1. UNCHANGED <<issued, root>> /\ Current' \subseteq Current
    BY <1>20 DEF GracePasses, handler, IInv, TypeOK, Current, Locked, table
  <2>2. QED
    BY <1>1, <2>1, ShrinkCloses
<1>21. CASE UNCHANGED vars
  BY <1>21 DEF vars, table, handler, Chain!chain, Current, Locked
<1>22. QED
  BY <1>2, <1>3, <1>4, <1>5, <1>6, <1>7, <1>8, <1>9, <1>10, <1>11, <1>12, <1>13, <1>14, <1>15, <1>16, <1>17, <1>18, <1>19, <1>20, <1>21 DEF Next, Step

\* The handlers implement the exchange of tokens that SessionChain promises.
THEOREM SessionsImplementChain == Spec => ImplementsChain
<1>1. Spec => Chain!Spec
  BY InitChain, StepChain, Invariance, PTL DEF Spec, Chain!Spec
<1>2. QED
  BY <1>1 DEF ImplementsChain

-----------------------------------------------------------------------------
\* A step of the abstract specification gives no closed session a current token: the
\* tokens it adds are new, or replace one of the same session.
LEMMA ClosedStaysClosed ==
  ASSUME IInv, Chain!Next, NEW f \in issued, ~HasCurrent(f)
  PROVE  ~HasCurrent(f)'
<1>1. CASE \E t \in Token : Chain!Open(t)
  <2>1. PICK t \in Token : Chain!Open(t)
    BY <1>1
  <2>2. root[t] = t /\ t \notin issued
    BY <2>1 DEF Chain!Open, IInv, FreshInv
  <2>3. QED
    BY <2>1, <2>2 DEF Chain!Open, HasCurrent
<1>2. CASE \E t, n \in Token : Chain!Exchange(t, n)
  <2>1. PICK t \in Token, n \in Token : Chain!Exchange(t, n)
    BY <1>2
  <2>2. /\ t \in Current
        /\ n \notin issued
        /\ Current' = (Current \ {t}) \union {n}
        /\ root' = [root EXCEPT ![n] = root[t]]
    BY <2>1 DEF Chain!Exchange
  <2>3. root \in [Token -> Token] /\ Current \subseteq issued
    BY DEF IInv, TypeOK, Current
  <2>4. \A x \in Current' : \E y \in Current : root'[x] = root[y]
    BY <2>2, <2>3
  <2>5. QED
    BY <2>4 DEF HasCurrent
<1>3. CASE \E T \in SUBSET Token : Chain!Close(T)
  BY <1>3 DEF Chain!Close, HasCurrent
<1>4. QED
  BY <1>1, <1>2, <1>3 DEF Chain!Next

\* A session that was signed out, revoked, expired or swept by a reset never comes back,
\* not even through a handler that read its token while it was live.
THEOREM DeadSessionsStayDead == Spec => DeadStaysDead
<1>1. ASSUME IInv, [Next]_vars, NEW f \in issued, ~HasCurrent(f)
      PROVE  ~HasCurrent(f)'
  <2>1. CASE Chain!Next
    BY <1>1, <2>1, ClosedStaysClosed
  <2>2. CASE UNCHANGED Chain!chain
    BY <1>1, <2>2 DEF Chain!chain, HasCurrent
  <2>3. QED
    BY <1>1, <2>1, <2>2, StepChain
<1>2. IInv /\ [Next]_vars => [\A f \in issued : ~HasCurrent(f) => ~HasCurrent(f)']_vars
  BY <1>1
<1>3. QED
  BY <1>2, Invariance, PTL DEF Spec, DeadStaysDead

-----------------------------------------------------------------------------
(***************************************************************************)
(* The other end of the rotation: the app that keeps the token             *)
(* (AuthClient), for any number of requests and tokens.                    *)
(*                                                                         *)
(* KeychainIsNewest is about tokens the server has rotated away.  A        *)
(* refresh the app has given up on may still be served, so the invariant   *)
(* says the same of the tokens of those (NoStaleKept); and that a token on *)
(* its way back is in nobody's hands and has not been shown (AnswerIsNew), *)
(* without which storing it could bring an old one back.                   *)
(***************************************************************************)

Stage == {"idle", "refresh", "answer", "retry", "failed"}

ClientTypeOK ==
  /\ spent \in SUBSET RefreshToken
  /\ exchanged \in SUBSET spent
  /\ late \in SUBSET spent
  /\ stored \in spent \union {Null}
  /\ stage \in [Request -> Stage]
  /\ held \in [Request -> spent \union {Null}]
  /\ fresh \in [Request -> spent \union {Null}]
  /\ current \in SUBSET spent
  /\ leaving \in spent \union {Null}

\* A request that is not idle has read a token.
HoldsOne == \A q \in Request : stage[q] # "idle" => held[q] # Null

\* A token on its way back from the server is in nobody else's hands yet.
AnswerIsNew ==
  \A q \in Request : stage[q] = "answer" =>
    /\ fresh[q] \in spent
    /\ fresh[q] \notin exchanged \union late
    /\ fresh[q] # stored
    /\ \A p \in Request : /\ held[p] # fresh[q]
                          /\ stage[p] = "answer" /\ p # q => fresh[p] # fresh[q]

\* What KeychainIsNewest says, of the tokens too that the server may yet rotate away.
NoStaleKept ==
  stored \in exchanged \union late =>
    \/ stored \in killed
    \/ \E q \in Request : UnderWay(q) /\ held[q] = stored

ClientInv ==
  /\ ClientTypeOK
  /\ HoldsOne
  /\ AnswerIsNew
  /\ NoStaleKept

-----------------------------------------------------------------------------
\* The initial state: nobody is signed in.
LEMMA InitClientInv == ClientInit => ClientInv
  BY DEF ClientInit, Server!Init, ClientInv, ClientTypeOK, HoldsOne, AnswerIsNew, NoStaleKept,
         Stage

\* What a step of the server may do to the tokens: hand out new ones, and rotate away one
\* that was accepted.
LEMMA RefusesKeeps ==
  ASSUME ClientInv, NEW t \in RefreshToken, Refuses(t)
  PROVE  /\ UNCHANGED <<spent, exchanged>>
         /\ current' \in SUBSET spent
  BY DEF Refuses, Server!Close, server, ClientInv, ClientTypeOK

\* A refresh that succeeds.
LEMMA RotatesGrows ==
  ASSUME ClientInv, NEW t \in RefreshToken, NEW n \in RefreshToken, Rotates(t, n)
  PROVE  /\ t \in spent
         /\ n \notin spent
         /\ spent' = spent \union {n}
         /\ exchanged' = exchanged \union {t}
         /\ current' \in SUBSET spent'
  BY DEF Rotates, Server!Exchange, ClientInv, ClientTypeOK

\* A token that was given up is served all the same.
LEMMA ServedLateKeeps ==
  ASSUME ClientInv, NEW t \in RefreshToken, ServedLate(t)
  PROVE  ClientInv'
<1> USE ClientAssumption DEF ServedLate, request
<1>1. CASE Refuses(t)
  BY <1>1, RefusesKeeps
  DEF ClientInv, ClientTypeOK, HoldsOne, AnswerIsNew, NoStaleKept, UnderWay
<1>2. CASE \E n \in RefreshToken : Rotates(t, n)
  <2>1. PICK n \in RefreshToken : Rotates(t, n)
    BY <1>2
  <2>2. ClientTypeOK' /\ HoldsOne'
    BY <2>1, RotatesGrows DEF ClientInv, ClientTypeOK, HoldsOne
  <2>3. AnswerIsNew' /\ NoStaleKept'
    BY <2>1, RotatesGrows
    DEF ClientInv, ClientTypeOK, AnswerIsNew, NoStaleKept, UnderWay
  <2>4. QED
    BY <2>2, <2>3 DEF ClientInv
<1>3. QED
  BY <1>1, <1>2

\* A request's refresh is served: the token it holds is rotated away, and it knows.
LEMMA ServedKeeps ==
  ASSUME ClientInv, NEW q \in Request, Served(q)
  PROVE  ClientInv'
<1> USE ClientAssumption DEF Served
<1>0. held[q] \in spent /\ held[q] \in RefreshToken
  BY DEF ClientInv, ClientTypeOK, HoldsOne
<1>1. CASE Refuses(held[q]) /\ stage' = [stage EXCEPT ![q] = "failed"] /\ UNCHANGED fresh
  BY <1>0, <1>1, RefusesKeeps
  DEF ClientInv, ClientTypeOK, HoldsOne, AnswerIsNew, NoStaleKept, UnderWay, Stage
<1>2. ASSUME NEW n \in RefreshToken, Rotates(held[q], n),
             stage' = [stage EXCEPT ![q] = "answer"],
             fresh' = [fresh EXCEPT ![q] = n]
      PROVE  ClientInv'
  <2>1. /\ n \notin spent
        /\ spent' = spent \union {n}
        /\ exchanged' = exchanged \union {held[q]}
        /\ current' \in SUBSET spent'
    BY <1>0, <1>2, RotatesGrows
  <2>2. ClientTypeOK' /\ HoldsOne'
    BY <1>0, <1>2, <2>1 DEF ClientInv, ClientTypeOK, HoldsOne, Stage
  <2>3. AnswerIsNew'
    BY <1>0, <1>2, <2>1 DEF ClientInv, ClientTypeOK, AnswerIsNew
  <2>4. NoStaleKept'
    BY <1>0, <1>2, <2>1 DEF ClientInv, ClientTypeOK, NoStaleKept, UnderWay
  <2>5. QED
    BY <2>2, <2>3, <2>4 DEF ClientInv
<1>3. QED
  BY <1>1, <1>2

\* Every step preserves the inductive invariant.
LEMMA NextClientInv == ClientInv /\ [ClientNext]_clientVars => ClientInv'
<1> SUFFICES ASSUME ClientInv, [ClientNext]_clientVars PROVE ClientInv'
  OBVIOUS
<1> USE ClientAssumption
<1> USE DEF ClientInv, ClientTypeOK, HoldsOne, AnswerIsNew, NoStaleKept, UnderWay, Stage
<1>1. ASSUME NEW q \in Request, Unauthorized(q) PROVE ClientInv'
  BY <1>1 DEF Unauthorized, server, request
<1>2. ASSUME NEW q \in Request, Served(q) PROVE ClientInv'
  BY <1>2, ServedKeeps
<1>3. ASSUME NEW q \in Request, Resent(q) PROVE ClientInv'
  BY <1>3 DEF Resent, server
<1>4. ASSUME NEW q \in Request, Lost(q) PROVE ClientInv'
  BY <1>4 DEF Lost, server
<1>5. ASSUME NEW q \in Request, Store(q) PROVE ClientInv'
  BY <1>5 DEF Store, server
<1>6. ASSUME NEW q \in Request, Retry(q) PROVE ClientInv'
  BY <1>6 DEF Retry, Ends, server
<1>7. ASSUME NEW q \in Request, Wipe(q) PROVE ClientInv'
  BY <1>7 DEF Wipe, Ends, server
<1>8. ASSUME NEW t \in RefreshToken, SignIn(t) PROVE ClientInv'
  BY <1>8 DEF SignIn, Server!Open, request
<1>9. ASSUME NEW t \in RefreshToken, ServerCloses(t) PROVE ClientInv'
  BY <1>9 DEF ServerCloses, Server!Close, request
<1>10. ASSUME NEW t \in RefreshToken, ServedLate(t) PROVE ClientInv'
  BY <1>10, ServedLateKeeps
<1>11. ASSUME LogoutRead PROVE ClientInv'
  BY <1>11 DEF LogoutRead, server, request
<1>12. ASSUME LogoutClear PROVE ClientInv'
  BY <1>12 DEF LogoutClear, Server!Close, request
<1>13. ASSUME ColdStart PROVE ClientInv'
  BY <1>13 DEF ColdStart, server
<1>14. CASE UNCHANGED clientVars
  BY <1>14 DEF clientVars, server, request
<1>15. QED
  BY <1>1, <1>2, <1>3, <1>4, <1>5, <1>6, <1>7, <1>8, <1>9, <1>10, <1>11, <1>12, <1>13,
     <1>14 DEF ClientNext

\* In every behaviour of the app the invariant holds.
THEOREM ClientInvariance == ClientSpec => []ClientInv
<1>1. QED
  BY InitClientInv, NextClientInv, PTL DEF ClientSpec

\* The keychain never keeps a token the server has rotated away, but while the refresh
\* that did it is under way, or after the app was killed during one.
THEOREM TheKeychainIsNewest == ClientSpec => []KeychainIsNewest
<1>1. ClientInv => KeychainIsNewest
  BY DEF ClientInv, NoStaleKept, KeychainIsNewest
<1>2. QED
  BY ClientInvariance, <1>1, PTL

=============================================================================
