-------------------------------- MODULE Mbuf --------------------------------
(* Message buffers (message.c): how a message is put together from its      *)
(* header and attributes, and taken apart again. A message is the sequence  *)
(* of the lengths of its attributes; a byte of it is its place, <<m, k>>,   *)
(* and Layout says what is there.                                           *)
EXTENDS Integers, Sequences

CONSTANTS
  MSG_HDR_SIZE,      \* 40
  Align,             \* 8: what sizes are rounded up to, the size of an attribute's header
  MSG_MAX_PAY_SIZE,  \* 65400
  Msgs,              \* the messages of an instance
  Noise              \* bound: lengths read from bytes that are not a length

ASSUME MbufAssumption ==
  /\ MSG_HDR_SIZE \in Nat \ {0} /\ Align \in Nat \ {0}
  /\ MSG_MAX_PAY_SIZE \in Nat /\ MSG_MAX_PAY_SIZE < 2^16
  /\ Msgs \subseteq Seq(Nat) /\ Noise \subseteq 0 .. MSG_MAX_PAY_SIZE

ROUNDUP8(n) == ((n + Align - 1) \div Align) * Align

HDR_SET_PAYLEN(b, n) == [b EXCEPT ![1] = <<"paylen", n % 2^16>>]

mbuf_compose == HDR_SET_PAYLEN([k \in 1 .. MSG_HDR_SIZE |-> <<"header", 0>>], 0)

(* The payload of a message b with one more attribute.                      *)
(* Mutant: its padding is left out.                                         *)
Payload_Unpadded(b, length) == Len(b) - MSG_HDR_SIZE + Align + length
Payload(b, length) == Len(b) - MSG_HDR_SIZE + Align + ROUNDUP8(length)

mbuf_addattrib(b, length) ==
  LET attrib == [k \in 1 .. Align + ROUNDUP8(length) |->
                   IF k = 1 THEN <<"attrib", length % 2^16>> ELSE <<"value", 0>>]
  IN HDR_SET_PAYLEN(b \o attrib, Payload(b, length))

(* The message with the first n of its attributes.                          *)
Composed(m) ==
  LET with[n \in 0 .. Len(m)] ==
        IF n = 0 THEN mbuf_compose ELSE mbuf_addattrib(with[n - 1], m[n])
  IN with

Layout == [m \in Msgs |-> Composed(m)[Len(m)]]
Bytes(m) == [k \in 1 .. Len(Layout[m]) |-> <<m, k>>]
At(byte) == Layout[byte[1]][byte[2]]

ASSUME MsgsAssumption == \A m \in Msgs : Len(Layout[m]) <= MSG_HDR_SIZE + MSG_MAX_PAY_SIZE

(* HDR_GET_PAYLEN of a full header. Where there should be a length, but the *)
(* bytes are others, it finds any number.                                   *)
PayLens(b) == IF At(b[1])[1] = "paylen" THEN {At(b[1])[2]} ELSE Noise

(* mbuf_getnextattrib, until there is no attribute any more. Garbled stands *)
(* for what a reader makes of bytes that are not an attribute.              *)
Garbled == <<MSG_MAX_PAY_SIZE + 1>>

Attributes(b) ==
  LET from[boff \in 0 .. Len(b) + Align] ==
        LET plen == At(b[boff + 1])[2] IN
          IF Len(b) < boff + Align \/ Len(b) < boff + Align + plen THEN <<>>
          ELSE IF At(b[boff + 1])[1] # "attrib" THEN Garbled
          ELSE <<plen>> \o from[boff + Align + ROUNDUP8(plen)]
  IN from[MSG_HDR_SIZE]
=============================================================================
