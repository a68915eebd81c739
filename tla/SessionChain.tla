---------------------------- MODULE SessionChain ----------------------------
(***************************************************************************)
(* What refresh-token rotation promises, whatever the handlers do: a       *)
(* sign-in opens a session with one token; a refresh exchanges the current *)
(* token of an open session for a token never used before; a session that  *)
(* is closed stays closed.  Sessions implements this.                      *)
(***************************************************************************)
CONSTANT Token

VARIABLES
  current,    \* the tokens that would still be accepted
  spent,      \* the tokens ever handed out
  session     \* session[t]: the first token of the session t belongs to

chain == <<current, spent, session>>

Init ==
  /\ current = {}
  /\ spent = {}
  /\ session = [t \in Token |-> t]

Open(t) ==
  /\ t \notin spent
  /\ spent' = spent \union {t}
  /\ current' = current \union {t}
  /\ session' = session

Exchange(t, n) ==
  /\ t \in current
  /\ n \notin spent
  /\ spent' = spent \union {n}
  /\ current' = (current \ {t}) \union {n}
  /\ session' = [session EXCEPT ![n] = session[t]]

Close(T) ==
  /\ current' = current \ T
  /\ UNCHANGED <<spent, session>>

Next ==
  \/ \E t \in Token : Open(t)
  \/ \E t, n \in Token : Exchange(t, n)
  \/ \E T \in SUBSET Token : Close(T)

Spec == Init /\ [][Next]_chain

=============================================================================
