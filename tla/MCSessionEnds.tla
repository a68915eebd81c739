--------------------------- MODULE MCSessionEnds ---------------------------
(* Both ends of a session, side by side: a behaviour is one of the server's handlers, *)
(* or of the app over the chain of tokens they implement.                             *)
EXTENDS MCSessions, AuthClient

VARIABLE which  \* "server" or "client"

MCInit ==
  /\ Init
  /\ ClientInit
  /\ \/ which = "server"
     \/ which = "client" /\ \A u \in User : status[u] = "absent"

MCNext ==
  \/ which = "server" /\ Next /\ UNCHANGED <<which, clientVars>>
  \/ which = "client" /\ ClientNext /\ UNCHANGED <<which, vars>>

mcVars == <<which, vars, clientVars>>

MCSpec == MCInit /\ [][MCNext]_mcVars

=============================================================================
