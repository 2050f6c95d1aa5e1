------------------------------ MODULE Presence ------------------------------
(***************************************************************************)
(* What the relay promises about who is logged in, whatever the order of   *)
(* logins, takeovers, hang-ups and restarts: a connection stands for one   *)
(* user or for nobody; a name has one id and an id one name; whoever joins *)
(* as a user takes over from the connection that user was on; a connection *)
(* never turns from one user into another.                                 *)
(***************************************************************************)
CONSTANTS
  Conn,
  Users,     \* records with an id and a name
  Nobody

VARIABLE who \* who[c]: the user on connection c, or Nobody

Init == who = [c \in Conn |-> Nobody]

Online == {who[c] : c \in Conn} \ {Nobody}

Join(c) ==
  LET u == who'[c] IN
    /\ who[c] = Nobody /\ u \in Users
    /\ \A v \in Online : v.id = u.id <=> v.name = u.name
    /\ who' = [d \in Conn |-> IF d = c THEN u
                              ELSE IF who[d] = u THEN Nobody
                              ELSE who[d]]

Leave(c) ==
  /\ who[c] # Nobody
  /\ who' = [who EXCEPT ![c] = Nobody]

(* The server is started anew. *)
Shutdown == who' = [c \in Conn |-> Nobody]

Next == Shutdown \/ \E c \in Conn : Leave(c) \/ Join(c)

Spec == Init /\ [][Next]_who
=============================================================================
