----------------------------- MODULE MCTransfer -----------------------------
(* Small instances of Transfer: the same file offered twice, as after one   *)
(* of the clients was started again.                                        *)
EXTENDS Transfer
CONSTANTS o1, o2, f1

SameFile == [o \in Offers |-> f1]
SmallFile == [f \in Files |-> 3]
=============================================================================
