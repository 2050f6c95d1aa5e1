------------------------------ MODULE FileCopy ------------------------------
(***************************************************************************)
(* What a receiver of files may rely on, whatever was lost, repeated or    *)
(* begun anew on the way: a part file holds nothing but the beginning of   *)
(* the file that was offered, it only grows, and the final name is given   *)
(* to a complete copy.                                                     *)
(***************************************************************************)
EXTENDS Naturals, Sequences

CONSTANTS
  Files,
  Whole        \* Whole[f]: file f on the side that offers it

VARIABLES part, final \* [there, data] for each file: the part file, the final one

NoFile == [there |-> FALSE, data |-> <<>>]
Copy(f, n) == [there |-> TRUE, data |-> SubSeq(Whole[f], 1, n)]
Copies(f) == {Copy(f, n) : n \in 0 .. Len(Whole[f])}

Init ==
  /\ part \in [Files -> {NoFile} \cup UNION {Copies(f) : f \in Files}]
  /\ \A f \in Files : part[f] \in {NoFile} \cup Copies(f)
  /\ final = [f \in Files |-> NoFile]

Create(f) ==
  /\ ~part[f].there
  /\ part' = [part EXCEPT ![f] = Copy(f, 0)]
  /\ UNCHANGED final

Grow(f) ==
  /\ part[f].there
  /\ \E n \in Len(part[f].data) + 1 .. Len(Whole[f]) : part' = [part EXCEPT ![f] = Copy(f, n)]
  /\ UNCHANGED final

Complete(f) ==
  /\ part[f] = Copy(f, Len(Whole[f]))
  /\ final' = [final EXCEPT ![f] = part[f]]
  /\ part' = [part EXCEPT ![f] = NoFile]

Next == \E f \in Files : Create(f) \/ Grow(f) \/ Complete(f)

Spec == Init /\ [][Next]_<<part, final>>
=============================================================================
