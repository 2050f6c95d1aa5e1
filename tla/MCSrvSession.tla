---------------------------- MODULE MCSrvSession ----------------------------
(* Small instances of SrvSession. alice and Alice differ in case only; odd  *)
(* is a name that cannot be registered.                                     *)
EXTENDS SrvSession, TLC
CONSTANTS c1, c2, alice, Alice, bob, odd, k1, md5

FoldCase == [n \in Names |-> IF n = Alice THEN alice ELSE n]

AliceKnown == [id |-> 1, name |-> alice, key |-> k1]

AliceOrUnsupported == {{AliceKnown}, {[AliceKnown EXCEPT !.key = md5]}}
AliceOrNone == {{}, {AliceKnown}}

Symmetry == Permutations(Conn)
=============================================================================
