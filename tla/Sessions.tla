------------------------------ MODULE Sessions ------------------------------
(***************************************************************************)
(* Refresh-token sessions: AuthService over the refresh_tokens and users   *)
(* tables.                                                                 *)
(*                                                                         *)
(* A handler is a sequence of SQL statements, each its own transaction,    *)
(* except Rotate, which is one transaction: it claims the old row, which   *)
(* locks it, and its writes become visible together at commit.  pc[r] is   *)
(* the next statement of the handler in slot r:                            *)
(*                                                                         *)
(*   login, register   GetByEmail (; Create) ; Insert                      *)
(*   reset             GetByEmail ; UpdatePasswordHash ; RevokeAllForUser  *)
(*   Refresh           FindActiveByHash ; GetByID ; Rotate                 *)
(*                     FindActiveByHash ; FindReusedOwner ;                *)
(*                       RevokeAllForUser, when the token is not active    *)
(*                                                                         *)
(* RevokeAllForUser works on the snapshot its UPDATE starts with (READ     *)
(* COMMITTED): a row committed later is not in it, and a row locked by a   *)
(* Rotate is waited for and tested again.                                  *)
(*                                                                         *)
(* A handler that checked a one-time code starts after the code was        *)
(* consumed (module Otp).  Tokens stand for their hashes.                  *)
(***************************************************************************)
EXTENDS Integers, FiniteSets

CONSTANTS
  User,       \* rows of users, those of the future included
  Token,      \* rows of refresh_tokens, those of the future included
  Req,        \* handlers that may run at the same time
  NoUser, NoToken

ASSUME SessionsAssumption ==
  /\ NoUser \notin User
  /\ NoToken \notin Token

VARIABLES
  status,     \* absent, active, or deleted (deleted_at set)
  hasPassword, \* password_hash is not NULL
  issued,     \* committed rows of refresh_tokens
  owner,      \* user_id
  revoked,    \* rows with revoked_at set
  expired,    \* rows with expires_at in the past
  aged,       \* rows revoked longer ago than the 30s grace window
  rotatedTo,  \* rotated_to_id
  root,       \* history: the first token of the row's rotation chain
  pc, usr, tok, snap   \* the handlers: next statement and locals

account == <<status, hasPassword>>
table == <<issued, owner, revoked, expired, aged, rotatedTo, root>>
handler == <<pc, usr, tok, snap>>
vars == <<account, table, handler>>

-----------------------------------------------------------------------------
Init ==
  /\ status \in [User -> {"absent", "active"}]
  /\ hasPassword \in [User -> BOOLEAN]
  /\ \A u \in User : hasPassword[u] => status[u] = "active"
  /\ issued = {}
  /\ owner = [t \in Token |-> NoUser]
  /\ revoked = {}
  /\ expired = {}
  /\ aged = {}
  /\ rotatedTo = [t \in Token |-> NoToken]
  /\ root = [t \in Token |-> t]
  /\ pc = [r \in Req |-> "idle"]
  /\ usr = [r \in Req |-> NoUser]
  /\ tok = [r \in Req |-> NoToken]
  /\ snap = [r \in Req |-> {}]

\* revoked_at IS NULL AND expires_at > now()
Live == issued \ (revoked \union expired)

\* The row is claimed by a Rotate that has not committed.
Locked(t) == \E r \in Req : pc[r] = "rotate" /\ tok[r] = t

\* A handler starts on an INSERT only when a row is left for it: the bound on Token
\* never stops one half-way.
Inserting == {"create", "insert", "get_user", "claim", "rotate"}
Room == Cardinality({r \in Req : pc[r] \in Inserting}) < Cardinality(Token \ issued)

Start(r, next, u, t) ==
  /\ pc[r] = "idle"
  /\ next \in Inserting => Room
  /\ pc' = [pc EXCEPT ![r] = next]
  /\ usr' = [usr EXCEPT ![r] = u]
  /\ tok' = [tok EXCEPT ![r] = t]
  /\ UNCHANGED <<account, table, snap>>

Goto(r, next) ==
  /\ pc' = [pc EXCEPT ![r] = next]
  /\ UNCHANGED <<usr, tok, snap>>

Return(r) ==
  /\ pc' = [pc EXCEPT ![r] = "idle"]
  /\ usr' = [usr EXCEPT ![r] = NoUser]
  /\ tok' = [tok EXCEPT ![r] = NoToken]
  /\ snap' = [snap EXCEPT ![r] = {}]

-----------------------------------------------------------------------------
(* Signing in.  MarkEmailVerified and TouchLastLogin touch nothing here.    *)

\* GetByEmail; the password is compared with the hash just read.
LoginPassword(r, u) ==
  /\ status[u] = "active"
  /\ hasPassword[u]
  /\ Start(r, "insert", u, NoToken)

LoginVerify(r, u) ==
  /\ status[u] = "active"
  /\ Start(r, "insert", u, NoToken)

\* An address that has an account signs in; for another one a row is created.
RegisterVerify(r, u) ==
  \/ /\ status[u] = "active"
     /\ Start(r, "insert", u, NoToken)
  \/ /\ status[u] = "absent"
     /\ Start(r, "create", u, NoToken)

\* The password is optional.  The unique index on email refuses the row when
\* another register came first (a row made after that one is deleted is another User).
Create(r) ==
  LET u == usr[r] IN
  /\ pc[r] = "create"
  /\ \/ /\ status[u] = "absent"
        /\ status' = [status EXCEPT ![u] = "active"]
        /\ \E given \in BOOLEAN : hasPassword' = [hasPassword EXCEPT ![u] = given]
        /\ Goto(r, "insert")
     \/ /\ status[u] # "absent"
        /\ Return(r)
        /\ UNCHANGED account
  /\ UNCHANGED table

\* issueSession: the new row starts a chain of its own.
Insert(r, n) ==
  /\ pc[r] = "insert"
  /\ n \in Token \ issued
  /\ issued' = issued \union {n}
  /\ owner' = [owner EXCEPT ![n] = usr[r]]
  /\ Return(r)
  /\ UNCHANGED <<account, revoked, expired, aged, rotatedTo, root>>

-----------------------------------------------------------------------------
(* Refresh *)

RefreshFind(r, t) ==
  /\ t \in issued
  /\ IF t \in Live
       THEN Start(r, "get_user", owner[t], t)
       ELSE Start(r, "find_owner", owner[t], t)

\* rotated_to_id IS NOT NULL AND revoked_at < now() - grace
Reused(t) == rotatedTo[t] # NoToken /\ t \in aged

FindReusedOwner(r) ==
  /\ pc[r] = "find_owner"
  /\ IF Reused(tok[r])
       THEN Goto(r, "revoke_all")
       ELSE Return(r)
  /\ UNCHANGED <<account, table>>

GetByID(r) ==
  /\ pc[r] = "get_user"
  /\ IF status[usr[r]] = "active"
       THEN Goto(r, "claim")
       ELSE Return(r)
  /\ UNCHANGED <<account, table>>

\* Faulty variants: the claim does not test the row again; it waits for ever on a row
\* that was lost.
RotateClaimBlindly(r) ==
  /\ pc[r] = "claim"
  /\ ~Locked(tok[r])
  /\ Goto(r, "rotate")
  /\ UNCHANGED <<account, table>>

RotateClaimWaiting(r) ==
  /\ pc[r] = "claim"
  /\ ~Locked(tok[r])
  /\ tok[r] \in Live
  /\ Goto(r, "rotate")
  /\ UNCHANGED <<account, table>>

\* The UPDATE waits while another Rotate holds the row and then tests it again;
\* a row that is not live any more means the race is lost.
RotateClaim(r) ==
  /\ pc[r] = "claim"
  /\ ~Locked(tok[r])
  /\ IF tok[r] \in Live
       THEN Goto(r, "rotate")
       ELSE Return(r)
  /\ UNCHANGED <<account, table>>

\* Faulty variant: the old token is linked and not revoked.
RotateCommitKeepsOld(r, n) ==
  LET t == tok[r] IN
  /\ pc[r] = "rotate"
  /\ n \in Token \ issued
  /\ issued' = issued \union {n}
  /\ owner' = [owner EXCEPT ![n] = owner[t]]
  /\ rotatedTo' = [rotatedTo EXCEPT ![t] = n]
  /\ root' = [root EXCEPT ![n] = root[t]]
  /\ Return(r)
  /\ UNCHANGED <<account, revoked, expired, aged>>

\* The successor's INSERT, the link and COMMIT.
RotateCommit(r, n) ==
  LET t == tok[r] IN
  /\ pc[r] = "rotate"
  /\ n \in Token \ issued
  /\ issued' = issued \union {n}
  /\ owner' = [owner EXCEPT ![n] = owner[t]]
  /\ revoked' = revoked \union {t}
  /\ rotatedTo' = [rotatedTo EXCEPT ![t] = n]
  /\ root' = [root EXCEPT ![n] = root[t]]
  /\ Return(r)
  /\ UNCHANGED <<account, expired, aged>>

-----------------------------------------------------------------------------
(* Password reset, and the revocation it shares with a replayed token.      *)

PasswordResetVerify(r, u) ==
  /\ status[u] = "active"
  /\ Start(r, "update_hash", u, NoToken)

\* By id: the account may have been deleted since.
UpdatePasswordHash(r) ==
  /\ pc[r] = "update_hash"
  /\ hasPassword' = [hasPassword EXCEPT ![usr[r]] = TRUE]
  /\ Goto(r, "revoke_all")
  /\ UNCHANGED <<status, table>>

\* The UPDATE starts: user_id = $1 AND revoked_at IS NULL, in its snapshot.
RevokeAllBegin(r) ==
  /\ pc[r] = "revoke_all"
  /\ snap' = [snap EXCEPT ![r] = {t \in issued \ revoked : owner[t] = usr[r]}]
  /\ pc' = [pc EXCEPT ![r] = "revoking"]
  /\ UNCHANGED <<account, table, usr, tok>>

\* It commits, once no Rotate holds a row it has to write.
RevokeAllEnd(r) ==
  /\ pc[r] = "revoking"
  /\ \A t \in snap[r] : ~Locked(t)
  /\ revoked' = revoked \union snap[r]
  /\ Return(r)
  /\ UNCHANGED <<account, issued, owner, expired, aged, rotatedTo, root>>

-----------------------------------------------------------------------------
\* RevokeByHash waits like any UPDATE.  An unknown token changes nothing.
Logout(t) ==
  /\ t \in issued \ revoked
  /\ ~Locked(t)
  /\ revoked' = revoked \union {t}
  /\ UNCHANGED <<account, issued, owner, expired, aged, rotatedTo, root, handler>>

\* DeleteUser leaves the user's tokens alone.
SoftDelete(u) ==
  /\ status[u] = "active"
  /\ status' = [status EXCEPT ![u] = "deleted"]
  /\ UNCHANGED <<hasPassword, table, handler>>

\* A handler stops before its next statement, or an open Rotate is rolled back: a
\* database error, a cancelled request, a crash.  A reset that fails to revoke
\* stops here too: the error is swallowed.
Abandon(r) ==
  /\ pc[r] # "idle"
  /\ Return(r)
  /\ UNCHANGED <<account, table>>

Expire(t) ==
  /\ t \in issued \ expired
  /\ expired' = expired \union {t}
  /\ UNCHANGED <<account, issued, owner, revoked, aged, rotatedTo, root, handler>>

\* Faulty variant: the window is counted from the row's creation.
GracePassesFromCreation(t) ==
  /\ t \in issued \ aged
  /\ aged' = aged \union {t}
  /\ UNCHANGED <<account, issued, owner, revoked, expired, rotatedTo, root, handler>>

\* The grace window of a rotated token passes; FindReusedOwner reads no other row.
GracePasses(t) ==
  /\ t \in revoked \ aged
  /\ rotatedTo[t] # NoToken
  /\ aged' = aged \union {t}
  /\ UNCHANGED <<account, issued, owner, revoked, expired, rotatedTo, root, handler>>

-----------------------------------------------------------------------------
\* The statements of a handler that is under way.
Step(r) ==
  \/ Create(r)
  \/ \E n \in Token : Insert(r, n)
  \/ FindReusedOwner(r)
  \/ GetByID(r)
  \/ RotateClaim(r)
  \/ \E n \in Token : RotateCommit(r, n)
  \/ UpdatePasswordHash(r)
  \/ RevokeAllBegin(r)
  \/ RevokeAllEnd(r)

Next ==
  \/ \E r \in Req, u \in User : LoginPassword(r, u)
  \/ \E r \in Req, u \in User : LoginVerify(r, u)
  \/ \E r \in Req, u \in User : RegisterVerify(r, u)
  \/ \E r \in Req, t \in Token : RefreshFind(r, t)
  \/ \E r \in Req, u \in User : PasswordResetVerify(r, u)
  \/ \E r \in Req : Step(r)
  \/ \E r \in Req : Abandon(r)
  \/ \E t \in Token : Logout(t)
  \/ \E u \in User : SoftDelete(u)
  \/ \E t \in Token : Expire(t)
  \/ \E t \in Token : GracePasses(t)

Spec == Init /\ [][Next]_vars

\* A goroutine keeps running, and PostgreSQL queues the waiters of a row lock, so a
\* statement that can run again and again gets to run.
FairSpec == Spec /\ \A r \in Req : SF_vars(Step(r))

-----------------------------------------------------------------------------
Statement == {"create", "insert", "find_owner", "get_user", "claim", "rotate",
              "update_hash", "revoke_all", "revoking"}

TypeOK ==
  /\ status \in [User -> {"absent", "active", "deleted"}]
  /\ hasPassword \in [User -> BOOLEAN]
  /\ issued \in SUBSET Token
  /\ owner \in [Token -> User \union {NoUser}]
  /\ revoked \in SUBSET issued
  /\ expired \in SUBSET issued
  /\ aged \in SUBSET revoked
  /\ rotatedTo \in [Token -> Token \union {NoToken}]
  /\ root \in [Token -> Token]
  /\ pc \in [Req -> Statement \union {"idle"}]
  /\ usr \in [Req -> User \union {NoUser}]
  /\ tok \in [Req -> Token \union {NoToken}]
  /\ snap \in [Req -> SUBSET issued]

\* The tokens a session still goes on from: live ones, and the one an open Rotate
\* has claimed, whose expiry no longer stops it.
Current == {t \in issued \ revoked : t \notin expired \/ Locked(t)}

\* "two concurrent refreshes with the same token can't both succeed and fork the
\* session", "a crash mid-rotation can't leak two active tokens": a rotation chain
\* never has two current tokens, and never two Rotates at work on one token.
NoFork ==
  /\ \A a, b \in Current : root[a] = root[b] => a = b
  /\ \A r, s \in Req : /\ pc[r] = "rotate"
                       /\ pc[s] = "rotate"
                       /\ tok[r] = tok[s]
                       => r = s

\* rotated_to_id really is a chain: a rotated token is revoked, its successor is a row
\* of the same user and chain, no row succeeds two, and an unrevoked row is the last.
ChainIntact ==
  /\ \A t \in Token : rotatedTo[t] # NoToken =>
       /\ t \in revoked
       /\ rotatedTo[t] \in issued
       /\ owner[rotatedTo[t]] = owner[t]
       /\ root[rotatedTo[t]] = root[t]
  /\ \A a, b \in Token : rotatedTo[a] = rotatedTo[b] /\ rotatedTo[a] # NoToken => a = b

\* A session that was signed out, revoked, expired or swept by a reset never comes back:
\* no handler, however old what it read, gives that chain a current token again.
HasCurrent(f) == \E t \in Current : root[t] = f
DeadStaysDead ==
  [][\A f \in issued : ~HasCurrent(f) => ~HasCurrent(f)']_vars

\* Rotation is the exchange SessionChain describes, whatever else goes on.
Chain == INSTANCE SessionChain
           WITH current <- Current, spent <- issued, session <- root
ImplementsChain == Chain!Spec

\* Handlers wait for each other's row locks, and never for ever.
HandlersFinish == \A r \in Req : pc[r] # "idle" ~> pc[r] = "idle"

\* "every active session for that user is killed and they have to sign in again", "so any
\* stolen session can't survive the password change": of the sessions that were open when
\* the revocation's UPDATE started, none has a live token when it has run.
SweepKillsOpenSessions ==
  [][\A r \in Req :
       pc[r] = "revoking" /\ RevokeAllEnd(r)
       => \A t \in Live', s \in snap[r] : root'[t] # root[s]]_vars
=============================================================================
