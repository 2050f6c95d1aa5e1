---------------------------- MODULE MCCltSession ----------------------------
(* Small instances of CltSession: alice may have an account, with a key     *)
(* that is supported or with one that is not.                               *)
EXTENDS CltSession
CONSTANTS c1, c2, alice, k1, md5

SameCase == [n \in Names |-> n]
AnyAlice == {{[id |-> 1, name |-> alice, key |-> k]} : k \in Keys}
=============================================================================
