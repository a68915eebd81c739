----------------------------- MODULE AuthClient -----------------------------
(***************************************************************************)
(* The app's end of a session: the tokens in the keychain (AuthStorage),   *)
(* the interceptor that refreshes them when a request is answered 401      *)
(* (_AuthInterceptor and _RetryInterceptor of api_client.dart), sign-in,   *)
(* sign-out and cold start (AuthController).  The server is SessionChain,  *)
(* which Sessions implements.                                              *)
(*                                                                         *)
(* Every await lets the other requests in between: stage[q] is where the   *)
(* request in slot q stands once it has been answered 401,                 *)
(*                                                                         *)
(*   refresh  the token it read is on its way to the server                *)
(*   answer   the server has rotated it, the new one is on its way back    *)
(*   retry    the new one is in the keychain, the request is sent again    *)
(*   failed   one of these threw: the keychain is about to be wiped        *)
(*                                                                         *)
(* Access tokens are left out: a request may be answered 401 at any time.  *)
(***************************************************************************)
EXTENDS Naturals

CONSTANTS
  RefreshToken, \* those of the future included
  Request,    \* requests of the app that may be answered 401 together
  MaxRetries, \* _maxRetries
  Null

ASSUME ClientAssumption == Null \notin RefreshToken

VARIABLES
  current, spent, session, \* the server, as in SessionChain
  exchanged,  \* history: tokens the server has rotated away
  stored,     \* the refresh token in the keychain, or Null
  signedIn,   \* AuthController holds a user
  stage, held, fresh, retries, \* the requests: where they stand, token read, answered, resends
  late,       \* refreshes the app has given up, and the server may still serve
  leaving,    \* logout: the token it has read, while it has not wiped the keychain
  killed      \* history: tokens whose refresh was under way when the app was killed

Server == INSTANCE SessionChain WITH Token <- RefreshToken

server == <<current, spent, session, exchanged>>
request == <<stage, held, fresh, retries>>
clientVars == <<server, stored, signedIn, request, late, leaving, killed>>

ClientInit ==
  /\ Server!Init
  /\ exchanged = {}
  /\ stored = Null
  /\ signedIn = FALSE
  /\ stage = [q \in Request |-> "idle"]
  /\ held = [q \in Request |-> Null]
  /\ fresh = [q \in Request |-> Null]
  /\ retries = [q \in Request |-> 0]
  /\ late = {}
  /\ leaving = Null
  /\ killed = {}

-----------------------------------------------------------------------------
(* The server *)

\* A refresh in which t becomes n.
Rotates(t, n) ==
  /\ Server!Exchange(t, n)
  /\ exchanged' = exchanged \union {t}

\* One that is refused: a dead token, a deleted account, a limit on requests.  A token
\* rotated away longer ago ends all sessions of the user.
Refuses(t) ==
  \/ UNCHANGED server
  \/ /\ t \in exchanged
     /\ Server!Close(current)
     /\ UNCHANGED exchanged

\* Expiry, a password reset, another device.
ServerCloses(t) ==
  /\ t \in current
  /\ Server!Close({t})
  /\ UNCHANGED <<exchanged, stored, signedIn, request, late, leaving, killed>>

\* A refresh that arrives, or is finished, after the app has given it up.
ServedLate(t) ==
  /\ t \in late
  /\ late' = late \ {t}
  /\ Refuses(t) \/ \E n \in RefreshToken : Rotates(t, n)
  /\ UNCHANGED <<stored, signedIn, request, leaving, killed>>

-----------------------------------------------------------------------------
(* _AuthInterceptor.onError *)

\* The request ends: its answer, or its error, goes to the caller.
Ends(q) ==
  /\ stage' = [stage EXCEPT ![q] = "idle"]
  /\ held' = [held EXCEPT ![q] = Null]
  /\ fresh' = [fresh EXCEPT ![q] = Null]
  /\ retries' = [retries EXCEPT ![q] = 0]

\* A request is answered 401 and reads the keychain.
Unauthorized(q) ==
  /\ stage[q] = "idle"
  /\ \/ /\ stored # Null
        /\ stage' = [stage EXCEPT ![q] = "refresh"]
        /\ held' = [held EXCEPT ![q] = stored]
        /\ UNCHANGED <<signedIn, fresh, retries>>
     \/ /\ signedIn \* no token there, or refreshExpired
        /\ signedIn' = FALSE
        /\ UNCHANGED request
  /\ UNCHANGED <<server, stored, late, leaving, killed>>

\* The server answers the refresh.
Served(q) ==
  /\ stage[q] = "refresh"
  /\ \/ \E n \in RefreshToken :
          /\ Rotates(held[q], n)
          /\ stage' = [stage EXCEPT ![q] = "answer"]
          /\ fresh' = [fresh EXCEPT ![q] = n]
     \/ /\ Refuses(held[q])
        /\ stage' = [stage EXCEPT ![q] = "failed"]
        /\ UNCHANGED fresh
  /\ UNCHANGED <<stored, signedIn, held, retries, late, leaving, killed>>

\* The refresh, or its answer, is lost: with a 5xx of the proxy it is sent again.  It may
\* still reach the server afterwards.
Resent(q) ==
  /\ stage[q] \in {"refresh", "answer"}
  /\ retries[q] < MaxRetries
  /\ retries' = [retries EXCEPT ![q] = @ + 1]
  /\ stage' = [stage EXCEPT ![q] = "refresh"]
  /\ fresh' = [fresh EXCEPT ![q] = Null]
  /\ late' \in {late, late \union {held[q]}}
  /\ UNCHANGED <<server, stored, signedIn, held, leaving, killed>>

\* Faulty variant: only a refusal is the end of the session, a network error leaves the
\* tokens for the next request.
LostIsNoEnd(q) ==
  /\ stage[q] \in {"refresh", "answer"}
  /\ Ends(q)
  /\ late' \in {late, late \union {held[q]}}
  /\ UNCHANGED <<server, stored, signedIn, leaving, killed>>

\* No answer in time, no connection, or one status too many: catch (_).
Lost(q) ==
  /\ stage[q] \in {"refresh", "answer"}
  /\ stage' = [stage EXCEPT ![q] = "failed"]
  /\ late' \in {late, late \union {held[q]}}
  /\ UNCHANGED <<server, stored, signedIn, held, fresh, retries, leaving, killed>>

\* authStorage.write: whatever the keychain holds by now.
Store(q) ==
  /\ stage[q] = "answer"
  /\ stored' = fresh[q]
  /\ stage' = [stage EXCEPT ![q] = "retry"]
  /\ UNCHANGED <<server, signedIn, held, fresh, retries, late, leaving, killed>>

\* The request again; if it fails, for whatever reason, the same catch is reached.
Retry(q) ==
  /\ stage[q] = "retry"
  /\ \/ Ends(q)
     \/ stage' = [stage EXCEPT ![q] = "failed"] /\ UNCHANGED <<held, fresh, retries>>
  /\ UNCHANGED <<server, stored, signedIn, late, leaving, killed>>

\* authStorage.clear and onSessionExpired.
Wipe(q) ==
  /\ stage[q] = "failed"
  /\ stored' = Null
  /\ signedIn' = FALSE
  /\ Ends(q)
  /\ UNCHANGED <<server, late, leaving, killed>>

-----------------------------------------------------------------------------
(* AuthController *)

\* register, login, loginWithOtp, whose answer has arrived.
SignIn(t) ==
  /\ ~signedIn
  /\ Server!Open(t)
  /\ stored' = t
  /\ signedIn' = TRUE
  /\ UNCHANGED <<exchanged, request, late, leaving, killed>>

LogoutRead ==
  /\ signedIn
  /\ leaving = Null
  /\ stored # Null
  /\ leaving' = stored
  /\ UNCHANGED <<server, stored, signedIn, request, late, killed>>

\* The server's part is best effort; the keychain is wiped in any case.
LogoutClear ==
  /\ leaving # Null
  /\ Server!Close({leaving}) \/ UNCHANGED <<current, spent, session>>
  /\ leaving' = Null
  /\ stored' = Null
  /\ signedIn' = FALSE
  /\ UNCHANGED <<exchanged, request, late, killed>>

UnderWay(q) == stage[q] \in {"refresh", "answer", "failed"}

\* The process ends and is started again: build() reads the keychain.
ColdStart ==
  /\ stage' = [q \in Request |-> "idle"]
  /\ held' = [q \in Request |-> Null]
  /\ fresh' = [q \in Request |-> Null]
  /\ retries' = [q \in Request |-> 0]
  /\ killed' = killed \union {held[q] : q \in {p \in Request : UnderWay(p)}}
  /\ \E sent \in SUBSET {held[q] : q \in {p \in Request : stage[p] = "refresh"}} :
       late' = late \union sent
  /\ leaving' = Null
  /\ signedIn' \in {FALSE, stored # Null}
  /\ UNCHANGED <<server, stored>>

ClientNext ==
  \/ \E q \in Request : \/ Unauthorized(q)
                        \/ Served(q)
                        \/ Resent(q)
                        \/ Lost(q)
                        \/ Store(q)
                        \/ Retry(q)
                        \/ Wipe(q)
  \/ \E t \in RefreshToken : SignIn(t) \/ ServerCloses(t) \/ ServedLate(t)
  \/ LogoutRead
  \/ LogoutClear
  \/ ColdStart

ClientSpec == ClientInit /\ [][ClientNext]_clientVars

-----------------------------------------------------------------------------
(* Property *)

\* The keychain never keeps a token the server has rotated away, which presented again
\* would end every session of the user, but while a refresh of it is under way, or if the
\* app was killed during one: a lost answer, two requests that refresh together, a
\* sign-in or a sign-out in between do not leave one behind.
KeychainIsNewest ==
  stored \in exchanged =>
    \/ stored \in killed
    \/ \E q \in Request : UnderWay(q) /\ held[q] = stored
=============================================================================
