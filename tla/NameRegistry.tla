---------------------------- MODULE NameRegistry ----------------------------
(***************************************************************************)
(* What the lobby promises about names: a name is played by at most one    *)
(* connection at a time, and passes to another one only after it was free. *)
(***************************************************************************)
CONSTANTS Conns, Names, NoConn

VARIABLE session   \* name -> connection that plays under it

Init == session = [n \in Names |-> NoConn]

Enter(c, n) ==
  /\ session[n] = NoConn
  /\ \A m \in Names : session[m] # c
  /\ session' = [session EXCEPT ![n] = c]

Leave(n) ==
  /\ session[n] # NoConn
  /\ session' = [session EXCEPT ![n] = NoConn]

Next == \E n \in Names : Leave(n) \/ \E c \in Conns : Enter(c, n)

Spec == Init /\ [][Next]_session
=============================================================================
