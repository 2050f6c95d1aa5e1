-------------------------------- MODULE Wire --------------------------------
(* The byte streams between a client and the server: send queues, partial   *)
(* reads and writes, receive buffers, and what becomes of them when a       *)
(* message pauses or a connection ends (handle_io, resync_client,           *)
(* close_client and accept_client of srvmain.c; handle_srvio, connect_srv   *)
(* and disconnect_srv of cltmain.c).                                        *)
(*                                                                          *)
(* Each direction has a sender and a receiver: "up" is what the client      *)
(* sends, "down" what the server sends.                                     *)
EXTENDS Mbuf

CONSTANTS
  Up, Down,   \* the messages clients send, and those the server sends
  QueueMax,   \* bound: messages in a send queue (the code has none)
  Room        \* bytes on their way in one direction: the kernel's buffers

ASSUME WireAssumption == Up \cup Down \subseteq Msgs /\ QueueMax \in Nat \ {0} /\ Room \in Nat \ {0}

Dirs == {"up", "down"}
Back(d) == IF d = "up" THEN "down" ELSE "up"

VARIABLES
  link,     \* "down", "up", or "closed" by the server, unknown to the client
  queue,    \* the send queue of each direction
  boff,     \* qhead->boff: what has been written of its first message
  net,      \* bytes written and not read
  rbuf,     \* the receive buffer: the bytes in it and its size
  overdue,  \* more than cfg.msg_timeout since act, at the server
  unsound,  \* history: the receiver has lost, or been given, part of a message
  got       \* history: the last message it has processed in a sound stream

vars == <<link, queue, boff, net, rbuf, overdue, unsound, got>>

NoBuf == [b |-> <<>>, bsize |-> 0]
mbuf_new == [b |-> <<>>, bsize |-> MSG_HDR_SIZE]

Init ==
  /\ link = "down" /\ overdue = FALSE
  /\ queue = [d \in Dirs |-> <<>>] /\ boff = [d \in Dirs |-> 0]
  /\ net = [d \in Dirs |-> <<>>] /\ rbuf = [d \in Dirs |-> NoBuf]
  /\ unsound = [d \in Dirs |-> FALSE] /\ got = [d \in Dirs |-> <<>>]

-----------------------------------------------------------------------------
(* Sending                                                                  *)

enqueue_msg(d) ==
  /\ Len(queue[d]) < QueueMax
  /\ \E m \in (IF d = "up" THEN Up ELSE Down) : queue' = [queue EXCEPT ![d] = Append(@, m)]

(* A command of the user or a timer; at the server, another client. There   *)
(* has to be a connection, as far as the sender knows.                      *)
Post(d) ==
  /\ link = "up" \/ (link = "closed" /\ d = "up")
  /\ enqueue_msg(d)
  /\ UNCHANGED <<link, boff, net, rbuf, overdue, unsound, got>>

(* write takes some of the rest of the first message. On a connection that  *)
(* the server has closed, it gets nowhere.                                  *)
Unsent(d) == SubSeq(Bytes(Head(queue[d])), boff[d] + 1, Len(Layout[Head(queue[d])]))

Write(d, n) ==
  /\ link = "up" \/ (link = "closed" /\ d = "up")
  /\ queue[d] # <<>> /\ n <= Len(Unsent(d)) /\ Len(net[d]) + n <= Room
  /\ net' = IF link = "up" THEN [net EXCEPT ![d] = @ \o SubSeq(Unsent(d), 1, n)] ELSE net
  /\ \/ /\ n < Len(Unsent(d))
        /\ boff' = [boff EXCEPT ![d] = @ + n] /\ UNCHANGED queue
     \/ /\ n = Len(Unsent(d))
        /\ boff' = [boff EXCEPT ![d] = 0] /\ queue' = [queue EXCEPT ![d] = Tail(@)]
  /\ overdue' = (overdue /\ d = "up")
  /\ UNCHANGED <<link, rbuf, unsound, got>>

-----------------------------------------------------------------------------
(* Receiving                                                                *)

(* The next byte to be read is the first of a message.                      *)
AtMessage(d) == IF net[d] # <<>> THEN Head(net[d])[2] = 1 ELSE boff[d] = 0

(* resync_client: the server drops what it has of a message that pauses;    *)
(* the client does not look.                                                *)
Gap(d) == d = "up" /\ rbuf[d] # NoBuf /\ overdue

Prepared(d) == IF Gap(d) \/ rbuf[d] = NoBuf THEN mbuf_new ELSE rbuf[d]
Resynced(d) == IF Gap(d) THEN [unsound EXCEPT ![d] = ~AtMessage(d)] ELSE unsound

(* Mutant: what is in the buffer already is read again.                     *)
Missing_All(buf) == buf.bsize
Missing(buf) == buf.bsize - Len(buf.b)

(* process_msg, process_srvmsg: the buffer is used up, and there may be an  *)
(* answer.                                                                  *)
Process(d, b) ==
  /\ rbuf' = [rbuf EXCEPT ![d] = NoBuf]
  /\ got' = IF Resynced(d)[d] THEN got ELSE [got EXCEPT ![d] = Attributes(b)]
  /\ UNCHANGED queue \/ enqueue_msg(Back(d))
  /\ UNCHANGED <<link, boff>>

Keep(d, buf) ==
  /\ rbuf' = [rbuf EXCEPT ![d] = buf]
  /\ UNCHANGED <<link, queue, boff, got>>

(* mbuf_resize makes room for the payload. A length that is too large ends  *)
(* the process; what is left then is what ServerCloses or Exit leave.       *)
(* Mutant: a complete payload is taken for a header, too.                   *)
HeaderOnly_Again(buf) == TRUE
HeaderOnly(buf) == buf.bsize = MSG_HDR_SIZE

Filled(d, buf) ==
  \/ /\ HeaderOnly(buf)
     /\ \E paylen \in PayLens(buf.b) :
          \/ paylen = 0 /\ Process(d, buf.b)
          \/ paylen \in 1 .. MSG_MAX_PAY_SIZE
               /\ Keep(d, [buf EXCEPT !.bsize = MSG_HDR_SIZE + paylen])
  \/ ~HeaderOnly(buf) /\ Process(d, buf.b)

Read(d, n) ==
  LET buf == [Prepared(d) EXCEPT !.b = @ \o SubSeq(net[d], 1, n)] IN
  /\ link = "up" \/ (link = "closed" /\ d = "down")
  /\ n <= Len(net[d]) /\ n <= Missing(Prepared(d))
  /\ net' = [net EXCEPT ![d] = SubSeq(@, n + 1, Len(@))]
  /\ unsound' = Resynced(d)
  /\ overdue' = (overdue /\ d = "down")
  /\ IF n = Missing(Prepared(d)) THEN Filled(d, buf) ELSE Keep(d, buf)

Tick ==
  /\ rbuf["up"] # NoBuf /\ ~overdue
  /\ overdue' = TRUE
  /\ UNCHANGED <<link, queue, boff, net, rbuf, unsound, got>>

Upkeep ==
  /\ Gap("up")
  /\ rbuf' = [rbuf EXCEPT !["up"] = NoBuf]
  /\ unsound' = Resynced("up")
  /\ UNCHANGED <<link, queue, boff, net, overdue, got>>

-----------------------------------------------------------------------------
(* Connections begin and end                                                *)

(* The server's buffers are a connection's own; the client has one receive  *)
(* buffer and one queue for all its connections, and boff goes with them.   *)
close_client ==
  /\ queue' = [queue EXCEPT !["down"] = <<>>] /\ boff' = [boff EXCEPT !["down"] = 0]
  /\ rbuf' = [rbuf EXCEPT !["up"] = NoBuf] /\ overdue' = FALSE
  /\ UNCHANGED got

(* The server closes the connection, or ends. What it has written may still *)
(* be read.                                                                 *)
ServerCloses ==
  /\ link = "up" /\ link' = "closed"
  /\ close_client
  /\ net' = [net EXCEPT !["up"] = <<>>]
  /\ UNCHANGED unsound

(* The client closes it, or finds it closed, or reset. What the server      *)
(* still reads of it, it has read before in this model.                     *)
Disconnect ==
  /\ link # "down" /\ link' = "down"
  /\ close_client
  /\ net' = [d \in Dirs |-> <<>>]
  /\ UNCHANGED unsound

HalfDone(d) == IF d = "up" THEN boff[d] > 0 ELSE rbuf[d] # NoBuf

Connect ==
  /\ link = "down" /\ link' = "up"
  /\ unsound' = [d \in Dirs |-> HalfDone(d)]
  /\ UNCHANGED <<queue, boff, net, rbuf, overdue, got>>

(* The client is ended, and started again.                                  *)
Exit ==
  /\ link' = "down" /\ overdue' = FALSE
  /\ queue' = [d \in Dirs |-> <<>>] /\ boff' = [d \in Dirs |-> 0]
  /\ net' = [d \in Dirs |-> <<>>] /\ rbuf' = [d \in Dirs |-> NoBuf]
  /\ UNCHANGED <<unsound, got>>

-----------------------------------------------------------------------------
Handle(d) == \E n \in 1 .. Room : Write(d, n) \/ Read(d, n)

Next ==
  \/ \E d \in Dirs : Post(d) \/ Handle(d)
  \/ Tick \/ Upkeep
  \/ Connect \/ Disconnect \/ ServerCloses \/ Exit

Spec == Init /\ [][Next]_vars

(* Both loops serve whatever select reports: what can be written is         *)
(* written, what has arrived is read.                                       *)
FairSpec ==
  /\ Spec
  /\ \A d \in Dirs :
       WF_vars(\E n \in 1 .. Room : Write(d, n)) /\ WF_vars(\E n \in 1 .. Room : Read(d, n))

-----------------------------------------------------------------------------
(* Properties *)

TypeOK ==
  /\ link \in {"up", "closed", "down"} /\ overdue \in BOOLEAN
  /\ \A d \in Dirs :
       /\ queue[d] \in Seq(Msgs) /\ Len(queue[d]) <= QueueMax
       /\ boff[d] = 0 \/ (queue[d] # <<>> /\ boff[d] < Len(Layout[Head(queue[d])]))
       /\ Len(net[d]) <= Room
       /\ rbuf[d] = NoBuf
            \/ /\ rbuf[d].bsize \in MSG_HDR_SIZE .. MSG_HDR_SIZE + MSG_MAX_PAY_SIZE
               /\ Len(rbuf[d].b) < rbuf[d].bsize
  /\ unsound \in [Dirs -> BOOLEAN]
  /\ got \in [Dirs -> Msgs \cup {<<>>}]

Underway(d) == rbuf[d] # NoBuf \/ boff[d] > 0

(* The messages that have their first byte in s.                            *)
Begun(s) ==
  LET among[i \in 0 .. Len(s)] ==
        IF i = 0 THEN <<>>
        ELSE IF s[i][2] = 1 THEN Append(among[i - 1], s[i][1]) ELSE among[i - 1]
  IN among[Len(s)]

(* The messages with a first byte on their way, then those whose turn it    *)
(* has not been.                                                            *)
Mail(d) ==
  IF link = "down" /\ d = "down" THEN <<>>
  ELSE Begun(rbuf[d].b \o net[d]) \o IF boff[d] = 0 THEN queue[d] ELSE Tail(queue[d])

Upwards == INSTANCE Mailbox WITH sound <- ~unsound["up"], open <- link = "up",
  underway <- Underway("up"), mail <- Mail("up"), got <- got["up"]
Downwards == INSTANCE Mailbox WITH sound <- ~unsound["down"], open <- link = "up",
  underway <- Underway("down"), mail <- Mail("down"), got <- got["down"]

(* Partial writes, partial reads, the header that makes room for a payload, *)
(* and the attributes in it add up to a mailbox in each direction, over any *)
(* number of connections, until a message under way is dropped by the       *)
(* server or meets the end of its connection.                               *)
MessagesArriveWhole == Upwards!Spec /\ Downwards!Spec

(* As long as anything is under way in a sound stream, bytes keep moving:   *)
(* no message gets stuck between queue and receiver.                        *)
BytesMove ==
  \A d \in Dirs :
    []<><<net'[d] # net[d]>>_vars \/ []<>(Mail(d) = <<>> \/ link # "up" \/ unsound[d])
=============================================================================
