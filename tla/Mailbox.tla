------------------------------ MODULE Mailbox -------------------------------
(* What each direction of a connection promises, however many reads and     *)
(* writes a message takes: while the stream is sound, messages arrive whole,*)
(* once and in the order they were sent. When a connection ends, those at   *)
(* either end of the line may be lost. Only a message that is under way can *)
(* make the stream unsound; then nothing is promised until it is sound      *)
(* again.                                                                   *)
EXTENDS Naturals, Sequences

CONSTANT Msgs

VARIABLES
  open,   \* there is a connection
  sound,  \* the receiver is where the sender thinks it is
  underway,  \* a message is partly written, or partly read
  mail,   \* messages on their way, the next to arrive first
  got     \* the last message that has arrived

Init == open = FALSE /\ sound = TRUE /\ underway = FALSE /\ mail = <<>> /\ got = <<>>

Post ==
  /\ sound' /\ UNCHANGED got
  /\ \E m \in Msgs : mail' = Append(mail, m)

Deliver ==
  /\ sound' /\ mail # <<>>
  /\ mail' = Tail(mail) /\ got' = Head(mail)

Lose ==
  /\ ~open' /\ sound' /\ UNCHANGED got
  /\ \E a, b \in 0 .. Len(mail) : mail' = SubSeq(mail, a + 1, b)

Tear == underway /\ ~sound'

(* The connection starts, or part of a message passes.                      *)
Pass == sound' /\ UNCHANGED <<mail, got>>

Next == IF sound THEN Pass \/ Post \/ Deliver \/ Lose \/ Tear ELSE TRUE

Spec == Init /\ [][Next]_<<open, sound, underway, mail, got>>
=============================================================================
