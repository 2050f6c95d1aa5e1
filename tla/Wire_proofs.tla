----------------------------- MODULE Wire_proofs -----------------------------
(* Message buffers and their way over a connection, for any messages, sizes *)
(* and numbers of bytes at a time: what mbuf_addattrib puts into a message, *)
(* mbuf_getnextattrib finds in it, and each direction is a mailbox.         *)
(*                                                                          *)
(* MessagesArriveWhole needs an invariant (Inv): bytes on their way follow  *)
(* each other as they were written, the sender's offset is where they end   *)
(* (Carried); and while the stream is sound, what the receiver has begins   *)
(* with the start of a message, and its buffer has room for the header or   *)
(* for the whole of it (Sound).                                             *)
EXTENDS Wire, WellFoundedInduction, SequenceTheorems, TLAPS

-----------------------------------------------------------------------------
(* Induction: over the sets of the numbers that have a property.            *)

LEMMA LeastNat ==
  ASSUME NEW T, T \subseteq Nat, T # {}
  PROVE  \E x \in T : \A y \in T : x <= y
<1> DEFINE R == {p \in Nat \X Nat : p[1] < p[2]}
<1>1. IsWellFoundedOn(R, Nat)
  BY NatLessThanWellFounded DEF OpToRel
<1> HIDE DEF R
<1>2. PICK x \in T : \A y \in T : ~(<<y, x>> \in R)
  BY <1>1, WFMin
<1>3. ASSUME NEW y \in T PROVE x <= y
  <2>1. y \in Nat /\ x \in Nat /\ <<y, x>>[1] = y /\ <<y, x>>[2] = x
    OBVIOUS
  <2>2. <<y, x>> \notin R
    BY <1>2
  <2>3. ~(y < x)
    BY <2>1, <2>2 DEF R
  <2>4. QED
    BY <2>1, <2>3
<1>4. QED
  BY <1>3

LEMMA Induction ==
  ASSUME NEW S, 0 \in S, \A n \in Nat : n \in S => n + 1 \in S
  PROVE  Nat \subseteq S
<1>1. SUFFICES ASSUME Nat \ S # {} PROVE FALSE
  OBVIOUS
<1>2. PICK x \in Nat \ S : \A y \in Nat \ S : x <= y
  BY <1>1, LeastNat
<1>3. x # 0 /\ x - 1 \in Nat /\ x - 1 \in S
  BY <1>2
<1>4. QED
  BY <1>2, <1>3

-----------------------------------------------------------------------------
(* What mbuf_compose and mbuf_addattrib put together                        *)

Cell == {"paylen", "header", "attrib", "value"} \X Nat
Size(m) == Len(Layout[m])

LEMMA Rounded ==
  ASSUME NEW n \in Nat
  PROVE  ROUNDUP8(n) \in Nat /\ ROUNDUP8(n) >= n /\ ROUNDUP8(n) <= n + Align - 1
BY MbufAssumption DEF ROUNDUP8

LEMMA ComposedStep ==
  ASSUME NEW m \in Seq(Nat), NEW n \in 0 .. Len(m)
  PROVE  Composed(m)[n] = IF n = 0 THEN mbuf_compose ELSE mbuf_addattrib(Composed(m)[n - 1], m[n])
<1> DEFINE Partial(g, k) ==
      g = [i \in 0 .. k |-> IF i = 0 THEN mbuf_compose ELSE mbuf_addattrib(g[i - 1], m[i])]
    S == {k \in Nat : k <= Len(m) => \E g : Partial(g, k)}
<1>1. 0 \in S
  <2> DEFINE g == [i \in 0 .. 0 |-> mbuf_compose]
  <2>1. Partial(g, 0)
    OBVIOUS
  <2>2. QED
    BY <2>1
<1>2. ASSUME NEW k \in Nat, k \in S, k + 1 <= Len(m) PROVE \E g : Partial(g, k + 1)
  <2>1. PICK f : Partial(f, k)
    BY <1>2
  <2> DEFINE g == [i \in 0 .. k + 1 |-> IF i <= k THEN f[i] ELSE mbuf_addattrib(f[k], m[k + 1])]
  <2>2. ASSUME NEW i \in 0 .. k + 1
        PROVE  g[i] = IF i = 0 THEN mbuf_compose ELSE mbuf_addattrib(g[i - 1], m[i])
    <3>1. CASE i <= k
      <4>1. g[i] = f[i] /\ (i # 0 => g[i - 1] = f[i - 1])
        BY <3>1
      <4>2. QED
        BY <2>1, <3>1, <4>1
    <3>2. CASE i = k + 1
      <4>1. g[i] = mbuf_addattrib(f[k], m[k + 1]) /\ g[i - 1] = f[k] /\ i # 0
        BY <3>2
      <4>2. QED
        BY <3>2, <4>1
    <3>3. QED
      BY <3>1, <3>2
  <2> HIDE DEF g
  <2>3. Partial(g, k + 1)
    BY <2>2 DEF g
  <2>4. QED
    BY <2>3
<1> HIDE DEF Partial
<1>3. Len(m) \in S
  <2>1. ASSUME NEW k \in Nat, k \in S PROVE k + 1 \in S
    <3>1. k + 1 <= Len(m) => \E g : Partial(g, k + 1)
      BY <1>2, <2>1
    <3>2. QED
      BY <3>1
  <2> HIDE DEF S
  <2>2. Nat \subseteq S
    BY <1>1, <2>1, Induction
  <2>3. QED
    BY <2>2
<1>4. \E g : Partial(g, Len(m))
  BY <1>3
<1>5. Partial(Composed(m), Len(m))
  BY <1>4 DEF Composed, Partial
<1>6. QED
  BY <1>5 DEF Partial

(* A message, as far as it is put together.                                 *)
Formed(b) ==
  /\ b \in Seq(Cell) /\ Len(b) >= MSG_HDR_SIZE
  /\ b[1] = <<"paylen", (Len(b) - MSG_HDR_SIZE) % 2^16>>
  /\ \A k \in 2 .. Len(b) : b[k][1] # "paylen"

LEMMA Started == Formed(mbuf_compose) /\ Len(mbuf_compose) = MSG_HDR_SIZE
<1> DEFINE h == [k \in 1 .. MSG_HDR_SIZE |-> <<"header", 0>>]
<1>1. MSG_HDR_SIZE \in Nat \ {0}
  BY MbufAssumption
<1>2. mbuf_compose = [h EXCEPT ![1] = <<"paylen", 0>>]
  BY DEF mbuf_compose, HDR_SET_PAYLEN
<1>3. mbuf_compose = [k \in 1 .. MSG_HDR_SIZE |-> IF k = 1 THEN <<"paylen", 0>> ELSE <<"header", 0>>]
  BY <1>1, <1>2
<1>4. mbuf_compose \in Seq(Cell) /\ Len(mbuf_compose) = MSG_HDR_SIZE
  BY <1>1, <1>3 DEF Cell
<1>5. mbuf_compose[1] = <<"paylen", 0>> /\ \A k \in 2 .. MSG_HDR_SIZE : mbuf_compose[k] = <<"header", 0>>
  <2>1. 1 \in 1 .. MSG_HDR_SIZE /\ \A k \in 2 .. MSG_HDR_SIZE : k \in 1 .. MSG_HDR_SIZE /\ k # 1
    BY <1>1
  <2>2. QED
    BY <1>3, <2>1
<1>6. (MSG_HDR_SIZE - MSG_HDR_SIZE) % 2^16 = 0
  BY <1>1
<1>7. QED
  BY <1>4, <1>5, <1>6 DEF Formed

LEMMA Added ==
  ASSUME NEW b, Formed(b), NEW n \in Nat, NEW c, c = mbuf_addattrib(b, n)
  PROVE  /\ Formed(c) /\ Len(c) = Len(b) + Align + ROUNDUP8(n)
         /\ \A k \in 2 .. Len(b) : c[k] = b[k]
         /\ c[Len(b) + 1] = <<"attrib", n % 2^16>>
<1> DEFINE a == [k \in 1 .. Align + ROUNDUP8(n) |->
                   IF k = 1 THEN <<"attrib", n % 2^16>> ELSE <<"value", 0>>]
           t == b \o a
           p == <<"paylen", Payload(b, n) % 2^16>>
<1>1. /\ MSG_HDR_SIZE \in Nat \ {0} /\ Align \in Nat \ {0} /\ ROUNDUP8(n) \in Nat
      /\ Len(b) \in Nat /\ Len(b) >= MSG_HDR_SIZE
  BY MbufAssumption, Rounded DEF Formed
<1>2. c = [t EXCEPT ![1] = p]
  BY DEF mbuf_addattrib, HDR_SET_PAYLEN
<1>3. a \in Seq(Cell) /\ Len(a) = Align + ROUNDUP8(n)
  <2>1. <<"attrib", n % 2^16>> \in Cell /\ <<"value", 0>> \in Cell
    BY DEF Cell
  <2>2. Align + ROUNDUP8(n) \in Nat
    BY <1>1
  <2> DEFINE e(k) == IF k = 1 THEN <<"attrib", n % 2^16>> ELSE <<"value", 0>>
             z == Align + ROUNDUP8(n)
  <2>3. a = [k \in 1 .. z |-> e(k)] /\ \A k \in 1 .. z : e(k) \in Cell
    BY <2>1
  <2>4. z \in Nat
    BY <2>2
  <2> HIDE DEF e, z, a
  <2>5. a \in Seq(Cell) /\ Len(a) = z
    BY <2>3, <2>4
  <2>6. QED
    BY <2>5 DEF z
<1>4. a[1] = <<"attrib", n % 2^16>> /\ \A k \in 2 .. Len(a) : a[k] = <<"value", 0>>
  BY <1>1, <1>3
<1> HIDE DEF a
<1>5. /\ t \in Seq(Cell) /\ Len(t) = Len(b) + Len(a)
      /\ \A k \in 1 .. Len(b) : t[k] = b[k]
      /\ \A k \in 1 .. Len(a) : t[Len(b) + k] = a[k]
  BY <1>3 DEF Formed
<1>6. Payload(b, n) = Len(t) - MSG_HDR_SIZE /\ Payload(b, n) \in Nat /\ p \in Cell
  <2> HIDE DEF t
  <2>1. Payload(b, n) = Len(t) - MSG_HDR_SIZE /\ Payload(b, n) \in Nat
    BY <1>1, <1>3, <1>5 DEF Payload
  <2>2. Payload(b, n) % 2^16 \in Nat
    BY <2>1
  <2>3. QED
    BY <2>1, <2>2 DEF Cell
<1> HIDE DEF t, p
<1>7. /\ c \in Seq(Cell) /\ Len(c) = Len(t) /\ c[1] = p
      /\ \A k \in 2 .. Len(t) : c[k] = t[k]
  BY <1>1, <1>2, <1>5, <1>6
<1>8. c[Len(b) + 1] = <<"attrib", n % 2^16>> /\ \A k \in 2 .. Len(b) : c[k] = b[k]
  BY <1>1, <1>3, <1>4, <1>5, <1>7
<1>9. \A k \in 2 .. Len(c) : c[k][1] # "paylen"
  <2>1. SUFFICES ASSUME NEW k \in 2 .. Len(c) PROVE c[k][1] # "paylen"
    OBVIOUS
  <2>2. CASE k <= Len(b)
    BY <1>1, <1>5, <1>7, <2>2 DEF Formed
  <2>3. CASE k > Len(b)
    <3>1. k - Len(b) \in 1 .. Len(a) /\ t[Len(b) + (k - Len(b))] = a[k - Len(b)]
      <4>1. Len(a) \in Nat /\ Len(b) \in Nat /\ Len(c) = Len(b) + Len(a)
        BY <1>1, <1>3, <1>5, <1>7
      <4>2. k - Len(b) \in 1 .. Len(a)
        BY <4>1, <2>3
      <4>3. QED
        BY <1>5, <4>2
    <3>2. c[k] = a[k - Len(b)]
      BY <1>1, <1>5, <1>7, <3>1
    <3>3. a[k - Len(b)][1] \in {"attrib", "value"}
      <4>1. k - Len(b) = 1 \/ k - Len(b) \in 2 .. Len(a)
        BY <1>3, <3>1
      <4>2. QED
        BY <1>4, <4>1
    <3>4. QED
      BY <3>2, <3>3
  <2>4. QED
    BY <1>1, <1>5, <1>7, <2>2, <2>3
<1>10. c[1] = <<"paylen", (Len(c) - MSG_HDR_SIZE) % 2^16>>
  BY <1>6, <1>7 DEF p
<1>11. Len(c) = Len(b) + Align + ROUNDUP8(n) /\ Len(c) >= MSG_HDR_SIZE
  BY <1>1, <1>3, <1>5, <1>7
<1>12. Formed(c)
  BY <1>7, <1>9, <1>10, <1>11 DEF Formed
<1>13. QED
  BY <1>8, <1>11, <1>12

LEMMA FormedAlways ==
  ASSUME NEW m \in Seq(Nat)
  PROVE  \A n \in 0 .. Len(m) : Formed(Composed(m)[n])
<1> DEFINE S == {n \in Nat : n <= Len(m) => Formed(Composed(m)[n])}
<1>1. 0 \in S
  BY ComposedStep, Started
<1>2. ASSUME NEW n \in Nat, n \in S, n + 1 <= Len(m) PROVE Formed(Composed(m)[n + 1])
  <2>1. Composed(m)[n + 1] = mbuf_addattrib(Composed(m)[n], m[n + 1])
    <3>1. n + 1 \in 0 .. Len(m) /\ n + 1 # 0 /\ (n + 1) - 1 = n
      BY <1>2
    <3>2. QED
      BY <3>1, ComposedStep
  <2>2. Formed(Composed(m)[n]) /\ m[n + 1] \in Nat
    BY <1>2
  <2>3. QED
    BY <2>1, <2>2, Added
<1>3. Nat \subseteq S
  <2>1. \A n \in Nat : n \in S => n + 1 \in S
    BY <1>2
  <2> HIDE DEF S
  <2>2. QED
    BY <1>1, <2>1, Induction
<1>4. QED
  BY <1>3

-----------------------------------------------------------------------------
(* What is in a message, and what a reader finds in it                      *)

Sizes(m, n) == Len(Composed(m)[n])

LEMMA Growth ==
  ASSUME NEW m \in Seq(Nat), NEW n \in 1 .. Len(m)
  PROVE  /\ Sizes(m, n - 1) \in Nat /\ Sizes(m, n - 1) >= MSG_HDR_SIZE
         /\ Sizes(m, n) = Sizes(m, n - 1) + Align + ROUNDUP8(m[n])
         /\ \A k \in 2 .. Sizes(m, n - 1) : Composed(m)[n][k] = Composed(m)[n - 1][k]
         /\ Composed(m)[n][Sizes(m, n - 1) + 1] = <<"attrib", m[n] % 2^16>>
<1>1. n \in 0 .. Len(m) /\ n # 0 /\ n - 1 \in 0 .. Len(m) /\ m[n] \in Nat
  OBVIOUS
<1>2. Composed(m)[n] = mbuf_addattrib(Composed(m)[n - 1], m[n])
  BY <1>1, ComposedStep
<1>3. Formed(Composed(m)[n - 1])
  BY <1>1, FormedAlways
<1> DEFINE b == Composed(m)[n - 1]
           c == Composed(m)[n]
           a == m[n]
<1>4. Formed(b) /\ c = mbuf_addattrib(b, a) /\ a \in Nat
  BY <1>1, <1>2, <1>3
<1> HIDE DEF a, b, c
<1>5. /\ Len(c) = Len(b) + Align + ROUNDUP8(a)
      /\ \A k \in 2 .. Len(b) : c[k] = b[k]
      /\ c[Len(b) + 1] = <<"attrib", a % 2^16>>
  BY <1>4, Added
<1>6. Len(b) \in Nat /\ Len(b) >= MSG_HDR_SIZE
  BY <1>4 DEF Formed
<1>7. QED
  BY <1>5, <1>6 DEF Sizes, a, b, c

(* What is put into a message stays where it is while more is added.        *)
LEMMA Stays ==
  ASSUME NEW m \in Seq(Nat), NEW n \in 0 .. Len(m)
  PROVE  /\ Sizes(m, n) \in Nat /\ Sizes(m, n) >= MSG_HDR_SIZE /\ Sizes(m, n) <= Sizes(m, Len(m))
         /\ \A k \in 2 .. Sizes(m, n) : Composed(m)[Len(m)][k] = Composed(m)[n][k]
<1> DEFINE Kept(i) ==
      /\ Sizes(m, n) <= Sizes(m, i)
      /\ \A k \in 2 .. Sizes(m, n) : Composed(m)[i][k] = Composed(m)[n][k]
    S == {i \in Nat : i <= Len(m) - n => Kept(n + i)}
<1>1. ASSUME NEW i \in 0 .. Len(m) PROVE Sizes(m, i) \in Nat /\ Sizes(m, i) >= MSG_HDR_SIZE
  <2>1. Formed(Composed(m)[i])
    BY FormedAlways
  <2>2. QED
    BY <2>1 DEF Formed, Sizes
<1>2. 0 \in S
  BY <1>1
<1>3. ASSUME NEW i \in Nat, i + 1 <= Len(m) - n, Kept(n + i) PROVE Kept(n + (i + 1))
  <2> DEFINE j == n + (i + 1)
  <2>1. j \in 1 .. Len(m) /\ j - 1 = n + i /\ j - 1 \in 0 .. Len(m)
    BY <1>3
  <2> HIDE DEF j
  <2>2. /\ Sizes(m, j) = Sizes(m, j - 1) + Align + ROUNDUP8(m[j])
        /\ \A k \in 2 .. Sizes(m, j - 1) : Composed(m)[j][k] = Composed(m)[j - 1][k]
    BY <2>1, Growth
  <2>3. m[j] \in Nat /\ Align \in Nat
    BY <2>1, MbufAssumption
  <2>a. ROUNDUP8(m[j]) \in Nat
    BY <2>3, Rounded
  <2>4. Sizes(m, n) <= Sizes(m, j - 1) /\ \A k \in 2 .. Sizes(m, n) : Composed(m)[j - 1][k] = Composed(m)[n][k]
    BY <1>3, <2>1
  <2>5. Sizes(m, n) \in Nat /\ Sizes(m, j - 1) \in Nat /\ Sizes(m, j) \in Nat
    BY <1>1, <2>1
  <2>6. Kept(j)
    BY <2>2, <2>3, <2>a, <2>4, <2>5
  <2>7. QED
    BY <2>6 DEF j
<1>4. Kept(Len(m))
  <2> HIDE DEF Kept
  <2>1. ASSUME NEW i \in Nat, i \in S PROVE i + 1 \in S
    <3>1. i + 1 <= Len(m) - n => i <= Len(m) - n
      OBVIOUS
    <3>2. QED
      BY <1>3, <2>1, <3>1
  <2> HIDE DEF S
  <2>2. Nat \subseteq S
    BY <1>2, <2>1, Induction
  <2>3. Len(m) - n \in S /\ n + (Len(m) - n) = Len(m)
    BY <2>2
  <2>4. Kept(n + (Len(m) - n))
    BY <2>3 DEF S
  <2>5. QED
    BY <2>3, <2>4
<1>5. QED
  BY <1>1, <1>4

LEMMA Message ==
  ASSUME NEW m \in Msgs
  PROVE  /\ m \in Seq(Nat) /\ Size(m) = Sizes(m, Len(m)) /\ Layout[m] = Composed(m)[Len(m)]
         /\ Layout[m] \in Seq(Cell)
         /\ Size(m) \in Nat /\ Size(m) >= MSG_HDR_SIZE /\ Size(m) <= MSG_HDR_SIZE + MSG_MAX_PAY_SIZE
         /\ Layout[m][1] = <<"paylen", Size(m) - MSG_HDR_SIZE>>
         /\ \A k \in 2 .. Size(m) : Layout[m][k][1] # "paylen"
<1>1. m \in Seq(Nat) /\ Len(m) \in 0 .. Len(m)
  BY MbufAssumption
<1>2. Layout[m] = Composed(m)[Len(m)]
  BY DEF Layout
<1>3. Formed(Layout[m])
  BY <1>1, <1>2, FormedAlways
<1>4. Size(m) <= MSG_HDR_SIZE + MSG_MAX_PAY_SIZE /\ Size(m) \in Nat /\ Size(m) >= MSG_HDR_SIZE
  BY <1>3, MsgsAssumption DEF Formed, Size
<1>5. (Size(m) - MSG_HDR_SIZE) % 2^16 = Size(m) - MSG_HDR_SIZE
  <2> DEFINE x == Size(m) - MSG_HDR_SIZE
  <2>1. x \in Nat /\ x < 2^16 /\ 2^16 = 65536
    BY <1>4, MbufAssumption
  <2> HIDE DEF x
  <2>2. x % 2^16 = x
    BY <2>1
  <2>3. QED
    BY <2>2 DEF x
<1>6. Layout[m][1] = <<"paylen", Size(m) - MSG_HDR_SIZE>>
  BY <1>3, <1>5 DEF Formed, Size
<1>7. Layout[m] \in Seq(Cell) /\ \A k \in 2 .. Size(m) : Layout[m][k][1] # "paylen"
  BY <1>3 DEF Formed, Size
<1>8. Size(m) = Sizes(m, Len(m))
  BY <1>2 DEF Size, Sizes
<1>9. QED
  BY <1>1, <1>2, <1>4, <1>6, <1>7, <1>8

(* One round of mbuf_getnextattrib, in a buffer b, when f is what it finds  *)
(* further on.                                                              *)
Found(b, f, at) ==
  LET plen == At(b[at + 1])[2] IN
    IF Len(b) < at + Align \/ Len(b) < at + Align + plen THEN <<>>
    ELSE IF At(b[at + 1])[1] # "attrib" THEN Garbled
    ELSE <<plen>> \o f[at + Align + ROUNDUP8(plen)]

LEMMA Places ==
  ASSUME NEW m \in Msgs
  PROVE  /\ Bytes(m) = [k \in 1 .. Size(m) |-> <<m, k>>] /\ Len(Bytes(m)) = Size(m)
         /\ \A k \in 1 .. Size(m) : Bytes(m)[k] = <<m, k>> /\ At(Bytes(m)[k]) = Layout[m][k]
<1>1. Size(m) \in Nat
  BY Message
<1>2. Bytes(m) = [k \in 1 .. Size(m) |-> <<m, k>>]
  BY DEF Bytes, Size
<1>3. Len(Bytes(m)) = Size(m) /\ \A k \in 1 .. Size(m) : Bytes(m)[k] = <<m, k>>
  BY <1>1, <1>2
<1>4. \A k \in 1 .. Size(m) : At(<<m, k>>) = Layout[m][k]
  BY DEF At
<1>5. QED
  BY <1>2, <1>3, <1>4

(* An attribute that is there ends in the buffer: the next one, if there is *)
(* one, is further on.                                                      *)
LEMMA Onward ==
  ASSUME NEW m \in Msgs, NEW at \in Nat, NEW plen, plen = At(Bytes(m)[at + 1])[2],
         ~(Len(Bytes(m)) < at + Align), ~(Len(Bytes(m)) < at + Align + plen)
  PROVE  at + Align + ROUNDUP8(plen) \in at + 1 .. Len(Bytes(m)) + Align
<1>1. Align \in Nat \ {0} /\ Size(m) \in Nat /\ Len(Bytes(m)) = Size(m)
  BY MbufAssumption, Message, Places
<1>2. at + 1 \in 1 .. Size(m)
  BY <1>1
<1>3. plen \in Nat
  <2>1. plen = Layout[m][at + 1][2] /\ Layout[m] \in Seq(Cell) /\ Len(Layout[m]) = Size(m)
    BY <1>2, Places, Message DEF Size
  <2>2. QED
    BY <1>2, <2>1 DEF Cell
<1>4. ROUNDUP8(plen) \in Nat /\ ROUNDUP8(plen) <= plen + Align - 1
  BY <1>3, Rounded
<1>5. QED
  BY <1>1, <1>3, <1>4

LEMMA Searched ==
  ASSUME NEW m \in Msgs
  PROVE  \E f : /\ Attributes(Bytes(m)) = f[MSG_HDR_SIZE]
                /\ \A at \in 0 .. Size(m) + Align : f[at] = Found(Bytes(m), f, at)
<1> DEFINE b == Bytes(m)
           N == Len(b) + Align
           Partial(g, k) == g = [at \in k .. N |-> Found(b, g, at)]
           S == {j \in Nat : j <= N + 1 => \E g : Partial(g, N + 1 - j)}
<1>1. N \in Nat /\ N = Size(m) + Align
  <2>1. Size(m) \in Nat
    BY Message
  <2>2. Len(b) = Size(m)
    BY Places
  <2>3. QED
    BY <2>1, <2>2, MbufAssumption
<1>2. \A at \in Nat : \A f, g :
        (\A x \in at + 1 .. N : f[x] = g[x]) => Found(b, f, at) = Found(b, g, at)
  BY Onward DEF Found
<1> HIDE DEF b, N
<1>3. ASSUME NEW k \in 0 .. N, NEW f, Partial(f, k + 1)
      PROVE  \E g : Partial(g, k)
  <2> DEFINE g == [at \in k .. N |-> IF at = k THEN Found(b, f, k) ELSE f[at]]
  <2>1. \A x \in k + 1 .. N : g[x] = f[x]
    BY <1>1
  <2>2. ASSUME NEW at \in k .. N PROVE g[at] = Found(b, g, at)
    <3>1. at \in Nat /\ \A x \in at + 1 .. N : x \in k + 1 .. N
      BY <1>1
    <3>2. Found(b, g, at) = Found(b, f, at)
      <4> HIDE DEF g
      <4>1. \A x \in at + 1 .. N : g[x] = f[x]
        BY <2>1, <3>1
      <4>2. QED
        BY <1>2, <3>1, <4>1
    <3>3. CASE at = k
      BY <3>2, <3>3
    <3>4. CASE at # k
      <4>1. at \in k + 1 .. N
        BY <1>1, <3>4
      <4>2. f[at] = Found(b, f, at)
        BY <1>3, <4>1
      <4>3. QED
        BY <3>2, <3>4, <4>2
    <3>5. QED
      BY <3>3, <3>4
  <2>3. g = [at \in k .. N |-> g[at]]
    OBVIOUS
  <2> HIDE DEF g
  <2>4. Partial(g, k)
    BY <2>2, <2>3
  <2>5. QED
    BY <2>4
<1>4. 0 \in S
  <2> DEFINE g == [at \in N + 1 .. N |-> 0]
  <2>1. N + 1 .. N = {}
    BY <1>1
  <2>2. Partial(g, N + 1)
    BY <2>1
  <2> HIDE DEF Partial
  <2>3. N + 1 - 0 = N + 1
    BY <1>1
  <2>4. QED
    BY <2>2, <2>3
<1> HIDE DEF Partial
<1>5. \E g : Partial(g, 0)
  <2>1. ASSUME NEW j \in Nat, j \in S PROVE j + 1 \in S
    <3>1. SUFFICES ASSUME j + 1 <= N + 1 PROVE \E g : Partial(g, N + 1 - (j + 1))
      OBVIOUS
    <3>2. j <= N + 1 /\ N + 1 - (j + 1) \in 0 .. N /\ N + 1 - j = (N + 1 - (j + 1)) + 1
      BY <1>1, <3>1
    <3>3. PICK f : Partial(f, N + 1 - j)
      BY <2>1, <3>2
    <3>4. QED
      BY <1>3, <3>2, <3>3
  <2> HIDE DEF S
  <2>2. Nat \subseteq S
    BY <1>4, <2>1, Induction
  <2>3. N + 1 \in S /\ N + 1 <= N + 1 /\ N + 1 - (N + 1) = 0
    BY <1>1, <2>2
  <2>4. \E g : Partial(g, N + 1 - (N + 1))
    BY <2>3 DEF S
  <2>5. QED
    BY <2>3, <2>4
<1> DEFINE from == CHOOSE f : f = [at \in 0 .. Len(b) + Align |-> Found(b, f, at)]
<1>6. from = [at \in 0 .. Len(b) + Align |-> Found(b, from, at)]
  BY <1>5 DEF Partial, N
<1>7. Attributes(b) = from[MSG_HDR_SIZE]
  BY DEF Attributes, Found
<1> HIDE DEF from
<1>8. \A at \in 0 .. N : from[at] = Found(b, from, at)
  BY <1>6 DEF N
<1>9. QED
  BY <1>1, <1>7, <1>8 DEF b

(* mbuf_getnextattrib, from its first call on, finds the attributes that    *)
(* mbuf_addattrib has put into the message, all of them and in their order. *)
THEOREM TakenApart == ASSUME NEW m \in Msgs PROVE Attributes(Bytes(m)) = m
<1>1. PICK f : /\ Attributes(Bytes(m)) = f[MSG_HDR_SIZE]
               /\ \A at \in 0 .. Size(m) + Align : f[at] = Found(Bytes(m), f, at)
  BY Searched
<1>2. /\ m \in Seq(Nat) /\ Size(m) \in Nat /\ Len(Bytes(m)) = Size(m)
      /\ Size(m) <= MSG_HDR_SIZE + MSG_MAX_PAY_SIZE
      /\ Size(m) = Sizes(m, Len(m)) /\ Layout[m] = Composed(m)[Len(m)]
  <2>1. Len(Bytes(m)) = Size(m)
    BY Places
  <2>2. QED
    BY <2>1, Message
<1>3. /\ MSG_HDR_SIZE \in Nat \ {0} /\ Align \in Nat \ {0} /\ MSG_MAX_PAY_SIZE \in Nat
      /\ MSG_MAX_PAY_SIZE < 2^16 /\ 2^16 = 65536
  BY MbufAssumption
<1> DEFINE Right(i) == f[Sizes(m, i)] = SubSeq(m, i + 1, Len(m))
           S == {j \in Nat : j <= Len(m) => Right(Len(m) - j)}
<1>4. 0 \in S
  <2>1. f[Size(m)] = Found(Bytes(m), f, Size(m))
    BY <1>1, <1>2, <1>3
  <2>2. Found(Bytes(m), f, Size(m)) = <<>>
    BY <1>2, <1>3 DEF Found
  <2>3. SubSeq(m, Len(m) + 1, Len(m)) = <<>>
    BY <1>2
  <2>4. Len(m) - 0 = Len(m)
    BY <1>2
  <2>5. QED
    BY <1>2, <2>1, <2>2, <2>3, <2>4
<1>5. ASSUME NEW n \in 1 .. Len(m), Right(n) PROVE Right(n - 1)
  <2> DEFINE at == Sizes(m, n - 1)
             more == ROUNDUP8(m[n])
  <2>1. m[n] \in Nat
    BY <1>2
  <2>2. more \in Nat /\ more >= m[n]
    BY <2>1, Rounded
  <2> HIDE DEF more
  <2>3. /\ at \in Nat /\ at >= MSG_HDR_SIZE
        /\ Sizes(m, n) = at + Align + more
        /\ Composed(m)[n][at + 1] = <<"attrib", m[n] % 2^16>>
    BY <1>2, Growth DEF more
  <2>4. /\ Sizes(m, n) \in Nat /\ Sizes(m, n) <= Size(m)
        /\ \A k \in 2 .. Sizes(m, n) : Layout[m][k] = Composed(m)[n][k]
    <3>1. n \in 0 .. Len(m)
      OBVIOUS
    <3>2. QED
      BY <1>2, <3>1, Stays
  <2> HIDE DEF at
  <2>5. at + 1 \in 2 .. Sizes(m, n) /\ at + 1 \in 1 .. Size(m) /\ at \in 0 .. Size(m) + Align
    <3> DEFINE z == Sizes(m, n)
               h == MSG_HDR_SIZE
               t == Size(m)
    <3>1. /\ at \in Nat /\ at >= h /\ h \in Nat /\ h > 0 /\ Align \in Nat /\ Align > 0 /\ more \in Nat
          /\ z = at + Align + more /\ z \in Nat /\ z <= t /\ t \in Nat
      BY <1>2, <1>3, <2>2, <2>3, <2>4
    <3> HIDE DEF z, h, t
    <3>2. at + 1 \in 2 .. z /\ at + 1 \in 1 .. t /\ at \in 0 .. t + Align
      BY <3>1
    <3>3. QED
      BY <3>2 DEF z, t
  <2>6. m[n] % 2^16 = m[n]
    <3>1. m[n] < 65536
      BY <1>2, <1>3, <2>1, <2>2, <2>3, <2>4
    <3>2. QED
      BY <1>3, <2>1, <3>1
  <2>7. At(Bytes(m)[at + 1]) = <<"attrib", m[n]>>
    <3>1. At(Bytes(m)[at + 1]) = Layout[m][at + 1]
      BY <2>5, Places
    <3>2. QED
      BY <2>3, <2>4, <2>5, <2>6, <3>1
  <2>8. ~(Size(m) < at + Align) /\ ~(Size(m) < at + Align + m[n])
    BY <1>2, <1>3, <2>1, <2>2, <2>3, <2>4
  <2>9. Found(Bytes(m), f, at) = <<m[n]>> \o f[Sizes(m, n)]
    <3> DEFINE b == Bytes(m)
               p == m[n]
               z == Sizes(m, n)
    <3>1. /\ Len(b) = Size(m) /\ z = at + Align + ROUNDUP8(p)
          /\ At(b[at + 1])[1] = "attrib" /\ At(b[at + 1])[2] = p
      BY <1>2, <2>3, <2>7 DEF more
    <3>2. ~(Len(b) < at + Align) /\ ~(Len(b) < at + Align + p)
      BY <2>8, <3>1
    <3> HIDE DEF b, p, z
    <3>3. Found(b, f, at) = <<p>> \o f[at + Align + ROUNDUP8(p)]
      BY <3>1, <3>2 DEF Found
    <3>4. QED
      BY <3>1, <3>3 DEF b, p, z
  <2>10. f[at] = <<m[n]>> \o SubSeq(m, n + 1, Len(m))
    BY <1>1, <1>5, <2>5, <2>9
  <2>11. <<m[n]>> \o SubSeq(m, n + 1, Len(m)) = SubSeq(m, n, Len(m))
    BY <1>2
  <2>12. n - 1 + 1 = n
    OBVIOUS
  <2>13. QED
    BY <2>10, <2>11, <2>12 DEF at
<1> HIDE DEF Right
<1>6. Right(0)
  <2>1. ASSUME NEW j \in Nat, j \in S PROVE j + 1 \in S
    <3>1. SUFFICES ASSUME j + 1 <= Len(m) PROVE Right(Len(m) - (j + 1))
      OBVIOUS
    <3>2. j <= Len(m) /\ Len(m) - j \in 1 .. Len(m) /\ Len(m) - j - 1 = Len(m) - (j + 1)
      BY <1>2, <3>1
    <3>3. Right(Len(m) - j)
      BY <2>1, <3>2
    <3>4. QED
      BY <1>5, <3>2, <3>3
  <2> HIDE DEF S
  <2>2. Nat \subseteq S
    BY <1>4, <2>1, Induction
  <2>3. Len(m) \in S /\ Len(m) - Len(m) = 0
    BY <1>2, <2>2
  <2>4. Right(Len(m) - Len(m))
    BY <1>2, <2>3 DEF S
  <2>5. QED
    BY <2>3, <2>4
<1>7. Sizes(m, 0) = MSG_HDR_SIZE
  <2>1. 0 \in 0 .. Len(m)
    BY <1>2
  <2>2. Composed(m)[0] = mbuf_compose
    BY <1>2, <2>1, ComposedStep
  <2>3. QED
    BY <2>2, Started DEF Sizes
<1>8. SubSeq(m, 0 + 1, Len(m)) = m
  BY <1>2
<1>9. QED
  BY <1>1, <1>6, <1>7, <1>8 DEF Right

-----------------------------------------------------------------------------
(* The messages begun in a stretch of bytes                                 *)

Byte == UNION {{m} \X (1 .. Size(m)) : m \in Msgs}

LEMMA ByteIs ==
  ASSUME NEW x \in Byte
  PROVE  x = <<x[1], x[2]>> /\ x[1] \in Msgs /\ x[2] \in 1 .. Size(x[1])
BY DEF Byte

LEMMA SeqMade ==
  ASSUME NEW S, NEW n \in Nat, NEW f, f = [k \in 1 .. n |-> f[k]], \A k \in 1 .. n : f[k] \in S
  PROVE  f \in Seq(S) /\ Len(f) = n
OBVIOUS

LEMMA SeqJoined ==
  ASSUME NEW S, NEW s \in Seq(S), NEW t \in Seq(S)
  PROVE  /\ s \o t \in Seq(S) /\ Len(s \o t) = Len(s) + Len(t)
         /\ \A k \in 1 .. Len(s) : (s \o t)[k] = s[k]
         /\ \A k \in 1 .. Len(t) : (s \o t)[Len(s) + k] = t[k]
OBVIOUS

LEMMA ByteMade == ASSUME NEW m \in Msgs, NEW k \in 1 .. Size(m) PROVE <<m, k>> \in Byte
<1>1. <<m, k>> \in {m} \X (1 .. Size(m))
  OBVIOUS
<1>2. QED
  BY <1>1 DEF Byte

LEMMA LastApart ==
  ASSUME NEW S, NEW t \in Seq(S), t # <<>>
  PROVE  /\ SubSeq(t, 1, Len(t) - 1) \in Seq(S) /\ Len(SubSeq(t, 1, Len(t) - 1)) = Len(t) - 1
         /\ t[Len(t)] \in S /\ t = Append(SubSeq(t, 1, Len(t) - 1), t[Len(t)])
         /\ \A i \in 1 .. Len(t) - 1 : SubSeq(t, 1, Len(t) - 1)[i] = t[i]
<1>1. Len(t) \in Nat \ {0}
  OBVIOUS
<1> DEFINE f == SubSeq(t, 1, Len(t) - 1)
<1>2. f \in Seq(S) /\ Len(f) = Len(t) - 1 /\ \A i \in 1 .. Len(t) - 1 : f[i] = t[i]
  <2> DEFINE n == Len(t) - 1
  <2>1. n \in Nat /\ n <= Len(t)
    BY <1>1
  <2> HIDE DEF n
  <2>2. SubSeq(t, 1, n) \in Seq(S) /\ Len(SubSeq(t, 1, n)) = n /\ \A i \in 1 .. n : SubSeq(t, 1, n)[i] = t[i]
    BY <1>1, <2>1
  <2>3. QED
    BY <2>2 DEF n
<1>3. t[Len(t)] \in S
  BY <1>1
<1> HIDE DEF f
<1>4. Append(f, t[Len(t)]) \in Seq(S) /\ Len(Append(f, t[Len(t)])) = Len(t)
  BY <1>1, <1>2, <1>3
<1>5. \A i \in 1 .. Len(t) : Append(f, t[Len(t)])[i] = t[i]
  BY <1>1, <1>2, <1>3
<1>6. t = Append(f, t[Len(t)])
  BY <1>4, <1>5, SeqEqual
<1>7. QED
  BY <1>2, <1>3, <1>6 DEF f

(* One step of the recursion in Begun.                                      *)
Counts(f, s, n) ==
  f = [i \in 0 .. n |-> IF i = 0 THEN <<>>
                        ELSE IF s[i][2] = 1 THEN Append(f[i - 1], s[i][1]) ELSE f[i - 1]]

LEMMA Counted ==
  ASSUME NEW s \in Seq(Byte)
  PROVE  \E f : Counts(f, s, Len(s)) /\ Begun(s) = f[Len(s)]
<1> DEFINE S == {k \in Nat : k <= Len(s) => \E g : Counts(g, s, k)}
<1>1. 0 \in S
  <2> DEFINE g == [i \in 0 .. 0 |-> <<>>]
  <2>1. Counts(g, s, 0)
    BY DEF Counts
  <2>2. QED
    BY <2>1
<1>2. ASSUME NEW k \in Nat, NEW f, Counts(f, s, k) PROVE \E g : Counts(g, s, k + 1)
  <2> DEFINE Step(g, i) == IF s[i][2] = 1 THEN Append(g[i - 1], s[i][1]) ELSE g[i - 1]
             g == [i \in 0 .. k + 1 |-> IF i <= k THEN f[i] ELSE Step(f, k + 1)]
  <2>1. ASSUME NEW i \in 0 .. k + 1
        PROVE  g[i] = IF i = 0 THEN <<>> ELSE Step(g, i)
    <3>1. CASE i <= k
      <4>1. g[i] = f[i] /\ (i # 0 => g[i - 1] = f[i - 1])
        BY <3>1
      <4>2. f[i] = IF i = 0 THEN <<>> ELSE Step(f, i)
        <5>1. i \in 0 .. k
          BY <3>1
        <5>2. f = [j \in 0 .. k |-> IF j = 0 THEN <<>> ELSE Step(f, j)]
          BY <1>2 DEF Counts
        <5> HIDE DEF Step
        <5>3. QED
          BY <5>1, <5>2
      <4>3. QED
        BY <4>1, <4>2
    <3>2. CASE i = k + 1
      <4>1. i # 0 /\ g[i] = Step(f, i) /\ g[i - 1] = f[i - 1]
        BY <3>2
      <4>2. QED
        BY <4>1
    <3>3. QED
      BY <3>1, <3>2
  <2>2. g = [i \in 0 .. k + 1 |-> g[i]]
    OBVIOUS
  <2> HIDE DEF g
  <2>3. Counts(g, s, k + 1)
    BY <2>1, <2>2 DEF Counts
  <2>4. QED
    BY <2>3
<1>3. \E g : Counts(g, s, Len(s))
  <2>1. ASSUME NEW k \in Nat, k \in S PROVE k + 1 \in S
    <3>1. k + 1 <= Len(s) => k <= Len(s)
      OBVIOUS
    <3>2. QED
      BY <1>2, <2>1, <3>1
  <2> HIDE DEF S
  <2>2. Nat \subseteq S
    BY <1>1, <2>1, Induction
  <2>3. Len(s) \in S /\ Len(s) <= Len(s)
    BY <2>2
  <2>4. QED
    BY <2>3 DEF S
<1> DEFINE among == CHOOSE f : Counts(f, s, Len(s))
<1>4. Counts(among, s, Len(s))
  BY <1>3
<1>5. Begun(s) = among[Len(s)]
  BY DEF Begun, Counts
<1>6. QED
  BY <1>4, <1>5

LEMMA BegunNothing == Begun(<<>>) = <<>>
<1>1. <<>> \in Seq(Byte) /\ Len(<<>>) = 0
  OBVIOUS
<1>2. PICK f : Counts(f, <<>>, 0) /\ Begun(<<>>) = f[0]
  BY <1>1, Counted
<1>3. QED
  BY <1>2 DEF Counts

LEMMA BegunAppend ==
  ASSUME NEW s \in Seq(Byte), NEW x \in Byte
  PROVE  Begun(Append(s, x)) = IF x[2] = 1 THEN Append(Begun(s), x[1]) ELSE Begun(s)
<1> DEFINE t == Append(s, x)
<1>1. /\ t \in Seq(Byte) /\ Len(t) = Len(s) + 1 /\ Len(s) \in Nat /\ t[Len(s) + 1] = x
      /\ \A i \in 1 .. Len(s) : t[i] = s[i]
  OBVIOUS
<1> HIDE DEF t
<1>2. PICK f : Counts(f, s, Len(s)) /\ Begun(s) = f[Len(s)]
  BY Counted
<1>3. PICK g : Counts(g, t, Len(t)) /\ Begun(t) = g[Len(t)]
  BY <1>1, Counted
<1> DEFINE S == {i \in Nat : i <= Len(s) => g[i] = f[i]}
<1>4. 0 \in S
  BY <1>1, <1>2, <1>3 DEF Counts
<1>5. ASSUME NEW i \in Nat, i + 1 <= Len(s), g[i] = f[i] PROVE g[i + 1] = f[i + 1]
  <2>1. i + 1 \in 1 .. Len(s) /\ i + 1 # 0 /\ (i + 1) - 1 = i /\ i + 1 \in 0 .. Len(s) /\ i + 1 \in 0 .. Len(t)
    BY <1>1, <1>5
  <2>2. f[i + 1] = IF s[i + 1][2] = 1 THEN Append(f[i], s[i + 1][1]) ELSE f[i]
    BY <1>2, <2>1 DEF Counts
  <2>3. g[i + 1] = IF t[i + 1][2] = 1 THEN Append(g[i], t[i + 1][1]) ELSE g[i]
    BY <1>3, <2>1 DEF Counts
  <2>4. QED
    BY <1>1, <1>5, <2>1, <2>2, <2>3
<1>6. g[Len(s)] = f[Len(s)]
  <2>1. ASSUME NEW i \in Nat, i \in S PROVE i + 1 \in S
    <3>1. i + 1 <= Len(s) => i <= Len(s)
      BY <1>1
    <3>2. QED
      BY <1>5, <2>1, <3>1
  <2> HIDE DEF S
  <2>2. Nat \subseteq S
    BY <1>4, <2>1, Induction
  <2>3. Len(s) \in S /\ Len(s) <= Len(s)
    BY <1>1, <2>2
  <2>4. QED
    BY <2>3 DEF S
<1>7. g[Len(t)] = IF x[2] = 1 THEN Append(g[Len(s)], x[1]) ELSE g[Len(s)]
  <2>1. Len(t) \in 0 .. Len(t) /\ Len(t) # 0 /\ Len(t) - 1 = Len(s) /\ t[Len(t)] = x
    BY <1>1
  <2>2. QED
    BY <1>3, <2>1 DEF Counts
<1>8. QED
  BY <1>2, <1>3, <1>6, <1>7 DEF t

LEMMA BegunAre ==
  ASSUME NEW s \in Seq(Byte)
  PROVE  Begun(s) \in Seq(Msgs)
<1> DEFINE S == {n \in Nat : \A t \in Seq(Byte) : Len(t) = n => Begun(t) \in Seq(Msgs)}
<1>1. 0 \in S
  <2>1. \A t \in Seq(Byte) : Len(t) = 0 => t = <<>>
    OBVIOUS
  <2>2. Begun(<<>>) \in Seq(Msgs)
    <3>1. <<>> \in Seq(Msgs)
      OBVIOUS
    <3>2. QED
      BY <3>1, BegunNothing
  <2>3. QED
    BY <2>1, <2>2
<1>2. ASSUME NEW n \in Nat, n \in S PROVE n + 1 \in S
  <2>1. SUFFICES ASSUME NEW t \in Seq(Byte), Len(t) = n + 1 PROVE Begun(t) \in Seq(Msgs)
    OBVIOUS
  <2> DEFINE f == SubSeq(t, 1, Len(t) - 1)
             x == t[Len(t)]
  <2>2. f \in Seq(Byte) /\ Len(f) = n /\ x \in Byte /\ t = Append(f, x)
    <3>1. t # <<>>
      BY <2>1
    <3>2. Len(f) = Len(t) - 1 /\ f \in Seq(Byte) /\ x \in Byte /\ t = Append(f, x)
      BY <3>1, LastApart
    <3>3. QED
      BY <2>1, <3>2
  <2> HIDE DEF f, x
  <2>3. Begun(f) \in Seq(Msgs)
    BY <1>2, <2>2
  <2>4. Begun(t) = IF x[2] = 1 THEN Append(Begun(f), x[1]) ELSE Begun(f)
    BY <2>2, BegunAppend
  <2>5. QED
    BY <2>2, <2>3, <2>4, ByteIs
<1> HIDE DEF S
<1>3. Len(s) \in S
  <2>1. Nat \subseteq S
    BY <1>1, <1>2, Induction
  <2>2. QED
    BY <2>1
<1>4. QED
  BY <1>3 DEF S

LEMMA BegunConcat ==
  ASSUME NEW r \in Seq(Byte), NEW s \in Seq(Byte)
  PROVE  Begun(r \o s) = Begun(r) \o Begun(s)
<1> DEFINE S == {n \in Nat : \A t \in Seq(Byte) : Len(t) = n => Begun(r \o t) = Begun(r) \o Begun(t)}
<1>0. Begun(r) \in Seq(Msgs)
  BY BegunAre
<1>1. 0 \in S
  <2>1. \A t \in Seq(Byte) : Len(t) = 0 => t = <<>>
    OBVIOUS
  <2>2. r \o <<>> = r /\ Begun(r) \o <<>> = Begun(r)
    BY <1>0, ConcatEmptySeq
  <2>3. QED
    BY <2>1, <2>2, BegunNothing
<1>2. ASSUME NEW n \in Nat, n \in S PROVE n + 1 \in S
  <2>1. SUFFICES ASSUME NEW t \in Seq(Byte), Len(t) = n + 1 PROVE Begun(r \o t) = Begun(r) \o Begun(t)
    OBVIOUS
  <2> DEFINE f == SubSeq(t, 1, Len(t) - 1)
             x == t[Len(t)]
  <2>2. f \in Seq(Byte) /\ Len(f) = n /\ x \in Byte /\ t = Append(f, x)
    <3>1. t # <<>>
      BY <2>1
    <3>2. Len(f) = Len(t) - 1 /\ f \in Seq(Byte) /\ x \in Byte /\ t = Append(f, x)
      BY <3>1, LastApart
    <3>3. QED
      BY <2>1, <3>2
  <2> HIDE DEF f, x
  <2>3. Begun(r \o f) = Begun(r) \o Begun(f) /\ Begun(f) \in Seq(Msgs)
    BY <1>2, <2>2, BegunAre
  <2>4. r \o f \in Seq(Byte) /\ r \o Append(f, x) = Append(r \o f, x)
    BY <2>2
  <2>5. Begun(t) = IF x[2] = 1 THEN Append(Begun(f), x[1]) ELSE Begun(f)
    BY <2>2, BegunAppend
  <2>6. Begun(Append(r \o f, x)) = IF x[2] = 1 THEN Append(Begun(r \o f), x[1]) ELSE Begun(r \o f)
    BY <2>2, <2>4, BegunAppend
  <2>7. x[1] \in Msgs => Begun(r) \o Append(Begun(f), x[1]) = Append(Begun(r) \o Begun(f), x[1])
    BY <1>0, <2>3
  <2>8. x[1] \in Msgs
    BY <2>2, ByteIs
  <2>9. QED
    BY <2>2, <2>3, <2>4, <2>5, <2>6, <2>7, <2>8
<1> HIDE DEF S
<1>3. Len(s) \in S
  <2>1. Nat \subseteq S
    BY <1>1, <1>2, Induction
  <2>2. QED
    BY <2>1
<1>4. QED
  BY <1>3 DEF S

LEMMA BegunNone ==
  ASSUME NEW s \in Seq(Byte), \A i \in 1 .. Len(s) : s[i][2] # 1
  PROVE  Begun(s) = <<>>
<1> DEFINE Inner(t) == \A i \in 1 .. Len(t) : t[i][2] # 1
           S == {n \in Nat : \A t \in Seq(Byte) : Len(t) = n /\ Inner(t) => Begun(t) = <<>>}
<1>1. 0 \in S
  <2>1. \A t \in Seq(Byte) : Len(t) = 0 => t = <<>>
    OBVIOUS
  <2>2. QED
    BY <2>1, BegunNothing
<1>2. ASSUME NEW n \in Nat, n \in S PROVE n + 1 \in S
  <2>1. SUFFICES ASSUME NEW t \in Seq(Byte), Len(t) = n + 1, Inner(t) PROVE Begun(t) = <<>>
    OBVIOUS
  <2> DEFINE f == SubSeq(t, 1, Len(t) - 1)
             x == t[Len(t)]
  <2>2. /\ f \in Seq(Byte) /\ Len(f) = n /\ x \in Byte /\ t = Append(f, x)
        /\ \A i \in 1 .. n : f[i] = t[i]
    <3>1. t # <<>> /\ Len(t) - 1 = n
      BY <2>1
    <3>2. /\ Len(f) = Len(t) - 1 /\ f \in Seq(Byte) /\ x \in Byte /\ t = Append(f, x)
          /\ \A i \in 1 .. Len(t) - 1 : f[i] = t[i]
      BY <3>1, LastApart
    <3>3. QED
      BY <3>1, <3>2
  <2>3. x[2] # 1
    BY <2>1
  <2> HIDE DEF f, x
  <2>4. Inner(f)
    BY <2>1, <2>2
  <2>5. Begun(f) = <<>>
    BY <1>2, <2>2, <2>4
  <2>6. Begun(t) = IF x[2] = 1 THEN Append(Begun(f), x[1]) ELSE Begun(f)
    BY <2>2, BegunAppend
  <2>7. QED
    BY <2>3, <2>5, <2>6
<1>3. Len(s) \in S
  <2> HIDE DEF S
  <2>1. Nat \subseteq S
    BY <1>1, <1>2, Induction
  <2>2. QED
    BY <2>1
<1>4. QED
  BY <1>3

LEMMA BegunOne ==
  ASSUME NEW s \in Seq(Byte), s # <<>>, s[1][2] = 1, \A i \in 2 .. Len(s) : s[i][2] # 1
  PROVE  Begun(s) = <<s[1][1]>>
<1>1. Tail(s) \in Seq(Byte) /\ Len(Tail(s)) = Len(s) - 1 /\ \A i \in 1 .. Len(Tail(s)) : Tail(s)[i] = s[i + 1]
  BY HeadTailProperties
<1>2. s[1] \in Byte /\ <<s[1]>> \in Seq(Byte) /\ s = <<s[1]>> \o Tail(s)
  OBVIOUS
<1>3. Begun(Tail(s)) = <<>>
  <2>1. \A i \in 1 .. Len(Tail(s)) : i + 1 \in 2 .. Len(s)
    BY <1>1
  <2>2. \A i \in 1 .. Len(Tail(s)) : Tail(s)[i][2] # 1
    BY <1>1, <2>1
  <2>3. QED
    BY <1>1, <2>2, BegunNone
<1>4. Begun(<<s[1]>>) = <<s[1][1]>>
  <2>1. <<s[1]>> = Append(<<>>, s[1]) /\ <<>> \in Seq(Byte)
    OBVIOUS
  <2>2. Begun(Append(<<>>, s[1])) = Append(Begun(<<>>), s[1][1])
    BY <1>2, <2>1, BegunAppend
  <2>3. QED
    BY <2>1, <2>2, BegunNothing
<1>5. Begun(s) = Begun(<<s[1]>>) \o Begun(Tail(s))
  BY <1>1, <1>2, BegunConcat
<1>6. <<s[1][1]>> \in Seq(Msgs)
  BY <1>2, ByteIs
<1>7. QED
  BY <1>3, <1>4, <1>5, <1>6, ConcatEmptySeq

-----------------------------------------------------------------------------
(* Bytes in the order they are written                                      *)

(* y is the byte written after x.                                           *)
Succ(x, y) == IF x[2] < Size(x[1]) THEN y = <<x[1], x[2] + 1>> ELSE y[2] = 1
Follows(s) == \A i \in 1 .. Len(s) - 1 : Succ(s[i], s[i + 1])

LEMMA FollowsPart ==
  ASSUME NEW s \in Seq(Byte), Follows(s), NEW n \in 0 .. Len(s)
  PROVE  /\ SubSeq(s, n + 1, Len(s)) \in Seq(Byte) /\ Follows(SubSeq(s, n + 1, Len(s)))
         /\ Len(SubSeq(s, n + 1, Len(s))) = Len(s) - n
         /\ \A i \in 1 .. Len(s) - n : SubSeq(s, n + 1, Len(s))[i] = s[n + i]
<1> DEFINE t == SubSeq(s, n + 1, Len(s))
<1>1. t \in Seq(Byte) /\ Len(t) = Len(s) - n /\ \A i \in 1 .. Len(s) - n : t[i] = s[n + i]
  OBVIOUS
<1> HIDE DEF t
<1>2. Follows(t)
  <2>1. SUFFICES ASSUME NEW i \in 1 .. Len(t) - 1 PROVE Succ(t[i], t[i + 1])
    BY DEF Follows
  <2>2. /\ i \in 1 .. Len(s) - n /\ i + 1 \in 1 .. Len(s) - n
        /\ n + i \in 1 .. Len(s) - 1 /\ n + (i + 1) = n + i + 1
    BY <1>1, <2>1
  <2>3. t[i] = s[n + i] /\ t[i + 1] = s[n + i + 1]
    BY <1>1, <2>2
  <2>4. Succ(s[n + i], s[n + i + 1])
    BY <2>2 DEF Follows
  <2>5. QED
    BY <2>3, <2>4
<1>3. QED
  BY <1>1, <1>2 DEF t

LEMMA FollowsJoined ==
  ASSUME NEW s \in Seq(Byte), NEW t \in Seq(Byte), Follows(s), Follows(t),
         s # <<>> /\ t # <<>> => Succ(s[Len(s)], t[1])
  PROVE  Follows(s \o t)
<1>1. /\ Len(s \o t) = Len(s) + Len(t) /\ Len(s) \in Nat /\ Len(t) \in Nat
      /\ \A i \in 1 .. Len(s) : (s \o t)[i] = s[i]
      /\ \A i \in 1 .. Len(t) : (s \o t)[Len(s) + i] = t[i]
  OBVIOUS
<1> DEFINE u == s \o t
<1> HIDE DEF u
<1>2. SUFFICES ASSUME NEW i \in 1 .. Len(u) - 1 PROVE Succ(u[i], u[i + 1])
  BY DEF Follows, u
<1>3. CASE i < Len(s)
  <2>1. i \in 1 .. Len(s) - 1 /\ i \in 1 .. Len(s) /\ i + 1 \in 1 .. Len(s)
    BY <1>1, <1>3
  <2>2. u[i] = s[i] /\ u[i + 1] = s[i + 1] /\ Succ(s[i], s[i + 1])
    BY <1>1, <2>1 DEF u, Follows
  <2>3. QED
    BY <2>2
<1>4. CASE i = Len(s)
  <2>1. i \in 1 .. Len(s) /\ 1 \in 1 .. Len(t) /\ i + 1 = Len(s) + 1
    BY <1>1, <1>2, <1>4 DEF u
  <2>2. u[i] = s[Len(s)] /\ u[i + 1] = t[1] /\ s # <<>> /\ t # <<>>
    BY <1>1, <1>4, <2>1 DEF u
  <2>3. QED
    BY <2>2
<1>5. CASE i > Len(s)
  <2> DEFINE j == i - Len(s)
  <2>1. j \in 1 .. Len(t) - 1 /\ j \in 1 .. Len(t) /\ j + 1 \in 1 .. Len(t) /\ i = Len(s) + j /\ i + 1 = Len(s) + (j + 1)
    BY <1>1, <1>2, <1>5 DEF u
  <2> HIDE DEF j
  <2>2. u[i] = t[j] /\ u[i + 1] = t[j + 1] /\ Succ(t[j], t[j + 1])
    BY <1>1, <2>1 DEF u, Follows
  <2>3. QED
    BY <2>2
<1>6. QED
  BY <1>1, <1>3, <1>4, <1>5

(* From the first byte of a message on, its bytes are read.                 *)
LEMMA InOrder ==
  ASSUME NEW s \in Seq(Byte), Follows(s), s # <<>>, s[1][2] = 1
  PROVE  /\ s[1][1] \in Msgs
         /\ \A k \in 1 .. Len(s) : k <= Size(s[1][1]) => s[k] = <<s[1][1], k>>
         /\ Size(s[1][1]) < Len(s) => s[Size(s[1][1]) + 1][2] = 1
<1> DEFINE m == s[1][1]
<1>1. s[1] = <<m, 1>> /\ m \in Msgs
  <2>1. s[1] \in Byte
    OBVIOUS
  <2>2. QED
    BY <2>1, ByteIs
<1>2. Size(m) \in Nat /\ Size(m) >= 1
  BY <1>1, Message, MbufAssumption
<1> HIDE DEF m
<1> DEFINE S == {k \in Nat : k + 1 <= Len(s) /\ k + 1 <= Size(m) => s[k + 1] = <<m, k + 1>>}
<1>3. 0 \in S
  BY <1>1
<1>4. ASSUME NEW k \in Nat, k \in S PROVE k + 1 \in S
  <2>1. SUFFICES ASSUME k + 1 + 1 <= Len(s), k + 1 + 1 <= Size(m) PROVE s[k + 1 + 1] = <<m, k + 1 + 1>>
    OBVIOUS
  <2>2. k + 1 \in 1 .. Len(s) - 1 /\ k + 1 <= Len(s) /\ k + 1 <= Size(m) /\ k + 1 < Size(m)
    BY <1>2, <2>1
  <2>3. s[k + 1] = <<m, k + 1>>
    BY <1>4, <2>2
  <2>4. Succ(s[k + 1], s[k + 1 + 1])
    BY <2>2 DEF Follows
  <2>5. QED
    BY <2>2, <2>3, <2>4 DEF Succ
<1>5. Nat \subseteq S
  <2> HIDE DEF S
  <2>1. QED
    BY <1>3, <1>4, Induction
<1>6. ASSUME NEW k \in 1 .. Len(s), k <= Size(m) PROVE s[k] = <<m, k>>
  <2>1. k - 1 \in Nat /\ k - 1 + 1 = k /\ k <= Len(s)
    BY <1>6
  <2>2. k - 1 \in S
    BY <1>5, <2>1
  <2>3. QED
    BY <1>6, <2>1, <2>2
<1>7. ASSUME Size(m) < Len(s) PROVE s[Size(m) + 1][2] = 1
  <2>1. Size(m) \in 1 .. Len(s) /\ Size(m) \in 1 .. Len(s) - 1
    BY <1>2, <1>7
  <2>2. s[Size(m)] = <<m, Size(m)>>
    BY <1>2, <1>6, <2>1
  <2>3. Succ(s[Size(m)], s[Size(m) + 1])
    BY <2>1 DEF Follows
  <2>4. QED
    BY <1>2, <2>2, <2>3 DEF Succ
<1>8. QED
  BY <1>1, <1>6, <1>7 DEF m

(* A sender has written all of s: it is between two messages, or o bytes    *)
(* into the first in its queue q.                                           *)
Ends(s, q, o) ==
  s # <<>> =>
    \/ s[Len(s)][2] = Size(s[Len(s)][1]) /\ o = 0
    \/ s[Len(s)][2] < Size(s[Len(s)][1]) /\ o = s[Len(s)][2] /\ q # <<>> /\ Head(q) = s[Len(s)][1]

(* The n bytes of h after the first o.                                      *)
Piece(h, o, n) == [k \in 1 .. n |-> <<h, o + k>>]

(* A stretch u of the first message is written after s.                     *)
LEMMA Written ==
  ASSUME NEW q \in Seq(Msgs), q # <<>>, NEW o \in Nat, NEW n \in Nat \ {0}, o + n <= Size(Head(q)),
         NEW s \in Seq(Byte), Follows(s), Ends(s, q, o)
  PROVE  LET u == Piece(Head(q), o, n) IN
           /\ u \in Seq(Byte) /\ Len(u) = n /\ u[1] = <<Head(q), o + 1>>
           /\ s \o u \in Seq(Byte) /\ Follows(s \o u)
           /\ o + n < Size(Head(q)) => Ends(s \o u, q, o + n)
           /\ o + n = Size(Head(q)) => Ends(s \o u, Tail(q), 0)
           /\ Begun(u) = IF o = 0 THEN <<Head(q)>> ELSE <<>>
<1> DEFINE u == Piece(Head(q), o, n)
<1> DEFINE h == Head(q)
<1>1. h \in Msgs /\ Size(h) \in Nat
  <2>1. h \in Msgs
    OBVIOUS
  <2>2. QED
    BY <2>1, Message
<1> HIDE DEF h
<1>2. u = [k \in 1 .. n |-> <<h, o + k>>] /\ o + n <= Size(h)
  BY DEF h, Piece
<1> HIDE DEF u
<1>3. \A k \in 1 .. n : <<h, o + k>> \in Byte
  <2>1. \A k \in 1 .. n : o + k \in 1 .. Size(h)
    BY <1>1, <1>2
  <2>2. QED
    BY <1>1, <2>1, ByteMade
<1>4. u \in Seq(Byte) /\ Len(u) = n /\ \A k \in 1 .. n : u[k] = <<h, o + k>>
  <2>1. u = [k \in 1 .. n |-> u[k]] /\ \A k \in 1 .. n : u[k] = <<h, o + k>>
    BY <1>2
  <2>2. \A k \in 1 .. n : u[k] \in Byte
    BY <1>3, <2>1
  <2>3. n \in Nat
    OBVIOUS
  <2>4. u \in Seq(Byte) /\ Len(u) = n
    BY <2>1, <2>2, <2>3, SeqMade
  <2>5. QED
    BY <2>1, <2>4
<1>5. u # <<>> /\ u[1] = <<h, o + 1>> /\ u[n] = <<h, o + n>>
  <2>1. 1 \in 1 .. n /\ n \in 1 .. n
    OBVIOUS
  <2>2. QED
    BY <1>4, <2>1
<1>6. Follows(u)
  <2>1. SUFFICES ASSUME NEW i \in 1 .. Len(u) - 1 PROVE Succ(u[i], u[i + 1])
    BY DEF Follows
  <2>2. i \in 1 .. n /\ i + 1 \in 1 .. n /\ o + i < Size(h) /\ o + (i + 1) = o + i + 1
    BY <1>1, <1>2, <1>4, <2>1
  <2>3. QED
    BY <1>4, <2>2 DEF Succ
<1>7. ASSUME s # <<>> PROVE Succ(s[Len(s)], u[1])
  <2> DEFINE x == s[Len(s)]
  <2>1. x \in Byte
    BY <1>7
  <2>2. x[2] \in Nat /\ Size(x[1]) \in Nat
    <3> HIDE DEF x
    <3>1. x[1] \in Msgs /\ x[2] \in 1 .. Size(x[1])
      BY <2>1, ByteIs
    <3>2. Size(x[1]) \in Nat
      BY <3>1, Message
    <3>3. QED
      BY <3>1, <3>2
  <2>3. CASE s[Len(s)][2] = Size(s[Len(s)][1]) /\ o = 0
    BY <1>5, <2>2, <2>3 DEF Succ
  <2>4. CASE s[Len(s)][2] < Size(s[Len(s)][1]) /\ o = s[Len(s)][2] /\ h = s[Len(s)][1]
    BY <1>5, <2>2, <2>4 DEF Succ
  <2>5. QED
    BY <1>7, <2>3, <2>4 DEF Ends, h
<1>8. s \o u \in Seq(Byte) /\ Follows(s \o u)
  <2>1. s \o u \in Seq(Byte)
    BY <1>4, SeqJoined
  <2>2. Follows(s \o u)
    BY <1>4, <1>6, <1>7, FollowsJoined
  <2>3. QED
    BY <2>1, <2>2
<1>9. Len(s \o u) \in Nat /\ (s \o u)[Len(s \o u)] = <<h, o + n>>
  <2>1. Len(s \o u) = Len(s) + n /\ (s \o u)[Len(s) + n] = u[n]
    <3>1. n \in 1 .. Len(u)
      BY <1>4
    <3>2. QED
      BY <1>4, <3>1, SeqJoined
  <2>2. QED
    BY <1>5, <2>1
<1>10. o + n < Size(h) => Ends(s \o u, q, o + n)
  BY <1>9 DEF Ends, h
<1>11. o + n = Size(h) => Ends(s \o u, Tail(q), 0)
  BY <1>9 DEF Ends
<1>12. Begun(u) = IF o = 0 THEN <<h>> ELSE <<>>
  <2>1. CASE o = 0
    <3>1. u[1][2] = 1 /\ u[1][1] = h /\ \A k \in 2 .. Len(u) : u[k][2] # 1
      BY <1>4, <1>5, <2>1
    <3>2. QED
      BY <1>4, <1>5, <2>1, <3>1, BegunOne
  <2>2. CASE o # 0
    <3>1. \A k \in 1 .. Len(u) : u[k][2] # 1
      BY <1>4, <2>2
    <3>2. QED
      BY <1>4, <2>2, <3>1, BegunNone
  <2>3. QED
    BY <2>1, <2>2
<1>13. QED
  BY <1>4, <1>5, <1>8, <1>10, <1>11, <1>12 DEF h, u

(* What has arrived of a stream that starts with a message.                 *)
LEMMA Arrived ==
  ASSUME NEW b \in Seq(Byte), b # <<>>, NEW r \in Seq(Byte), Follows(b \o r), (b \o r)[1][2] = 1
  PROVE  LET m == b[1][1] IN
           /\ m \in Msgs /\ b[1] = <<m, 1>>
           /\ Len(b) < Size(m) => (r # <<>> => r[1] = <<m, Len(b) + 1>>)
           /\ Len(b) < Size(m) => b[Len(b)] = <<m, Len(b)>>
           /\ Len(b) = Size(m) => b = Bytes(m) /\ Begun(b) = <<m>> /\ (r # <<>> => r[1][2] = 1)
<1> DEFINE s == b \o r
           m == b[1][1]
<1>1. /\ s \in Seq(Byte) /\ Len(s) = Len(b) + Len(r) /\ Len(b) \in Nat \ {0} /\ Len(r) \in Nat
      /\ \A k \in 1 .. Len(b) : s[k] = b[k]
      /\ r # <<>> => s[Len(b) + 1] = r[1] /\ Len(r) > 0
  OBVIOUS
<1>2. s[1] = b[1] /\ s # <<>> /\ Follows(s) /\ s[1][2] = 1
  BY <1>1
<1> HIDE DEF s
<1>3. /\ m \in Msgs /\ \A k \in 1 .. Len(s) : k <= Size(m) => s[k] = <<m, k>>
      /\ Size(m) < Len(s) => s[Size(m) + 1][2] = 1
  <2>1. s[1][1] = m
    BY <1>2
  <2>2. QED
    BY <1>1, <1>2, <2>1, InOrder
<1>4. Size(m) \in Nat /\ Size(m) >= 1
  BY <1>3, Message, MbufAssumption
<1>5. b[1] = <<m, 1>>
  BY <1>1, <1>2, <1>3, <1>4
<1> HIDE DEF m
<1>6. ASSUME Len(b) < Size(m), r # <<>> PROVE r[1] = <<m, Len(b) + 1>>
  <2>1. Len(b) + 1 \in 1 .. Len(s) /\ Len(b) + 1 <= Size(m)
    BY <1>1, <1>4, <1>6
  <2>2. QED
    BY <1>1, <1>3, <1>6, <2>1
<1>7. ASSUME Len(b) < Size(m) PROVE b[Len(b)] = <<m, Len(b)>>
  <2>1. Len(b) \in 1 .. Len(s) /\ Len(b) <= Size(m) /\ Len(b) \in 1 .. Len(b)
    BY <1>1, <1>4, <1>7
  <2>2. QED
    BY <1>1, <1>3, <2>1
<1>8. ASSUME Len(b) = Size(m) PROVE b = Bytes(m) /\ Begun(b) = <<m>> /\ (r # <<>> => r[1][2] = 1)
  <2>1. \A k \in 1 .. Len(b) : b[k] = <<m, k>>
    <3>1. \A k \in 1 .. Len(b) : k \in 1 .. Len(s) /\ k <= Size(m)
      BY <1>1, <1>4, <1>8
    <3>2. QED
      BY <1>1, <1>3, <3>1
  <2>2. b = Bytes(m)
    <3>1. Len(Bytes(m)) = Size(m) /\ \A k \in 1 .. Size(m) : Bytes(m)[k] = <<m, k>>
      BY <1>3, Places
    <3>2. Bytes(m) = [k \in 1 .. Size(m) |-> <<m, k>>]
      BY <1>3, Places
    <3>3. b = [k \in 1 .. Len(b) |-> b[k]]
      OBVIOUS
    <3>4. QED
      BY <1>8, <2>1, <3>2, <3>3
  <2>3. Begun(b) = <<m>>
    <3>1. b[1][2] = 1 /\ b[1][1] = m /\ \A k \in 2 .. Len(b) : b[k][2] # 1
      BY <1>1, <2>1
    <3>2. QED
      BY <3>1, BegunOne
  <2>4. ASSUME r # <<>> PROVE r[1][2] = 1
    <3>1. Size(m) < Len(s) /\ s[Size(m) + 1] = r[1]
      BY <1>1, <1>8, <2>4
    <3>2. QED
      BY <1>3, <3>1
  <2>5. QED
    BY <2>2, <2>3, <2>4
<1>9. QED
  BY <1>3, <1>5, <1>6, <1>7, <1>8 DEF m

-----------------------------------------------------------------------------
(* The invariant                                                            *)

Typed ==
  /\ link \in {"up", "closed", "down"} /\ overdue \in BOOLEAN
  /\ queue \in [Dirs -> Seq(Msgs)] /\ boff \in [Dirs -> Nat]
  /\ net \in [Dirs -> Seq(Byte)] /\ rbuf \in [Dirs -> [b : Seq(Byte), bsize : Nat]]
  /\ unsound \in [Dirs -> BOOLEAN] /\ got \in [Dirs -> Msgs \cup {<<>>}]

InQueue(q, o) == Len(q) <= QueueMax /\ (o = 0 \/ (q # <<>> /\ o < Size(Head(q))))
InBuffer(buf) ==
  \/ buf = NoBuf
  \/ /\ buf.bsize \in MSG_HDR_SIZE .. MSG_HDR_SIZE + MSG_MAX_PAY_SIZE
     /\ buf.b # <<>> /\ Len(buf.b) < buf.bsize
Limits(d) == InQueue(queue[d], boff[d]) /\ Len(net[d]) <= Room /\ InBuffer(rbuf[d])

(* What is not there without a connection: the client keeps its queue and   *)
(* its receive buffer.                                                      *)
Shut(d) ==
  /\ link # "up" /\ d = "up" => net[d] = <<>> /\ rbuf[d] = NoBuf
  /\ link # "up" /\ d = "down" => queue[d] = <<>> /\ boff[d] = 0
  /\ link = "down" => net[d] = <<>>

Stream(s, d) == Follows(s) /\ (link = "up" => Ends(s, queue[d], boff[d]))
Carried(d) == Stream(net[d], d)

(* The receiver of a sound stream has the start of a message, or nothing,   *)
(* and has made room for the header or for all of it.                       *)
Served(d) == link = "up" \/ (link = "closed" /\ d = "down")
Starts(s, d) ==
  /\ s # <<>> => s[1][2] = 1
  /\ s = <<>> /\ link = "up" => boff[d] = 0
Fits(buf) == buf = NoBuf \/ buf.bsize = MSG_HDR_SIZE \/ buf.bsize = Size(buf.b[1][1])
Whole(d) ==
  /\ Stream(rbuf[d].b \o net[d], d) /\ Starts(rbuf[d].b \o net[d], d)
  /\ Fits(rbuf[d])
Sound(d) == ~unsound[d] /\ Served(d) => Whole(d)

Good(d) == Limits(d) /\ Shut(d) /\ Carried(d) /\ Sound(d)
Inv == Typed /\ \A d \in Dirs : Good(d)

(* A step of Mailbox in the direction d.                                    *)
Waiting(q, o) == IF o = 0 THEN q ELSE Tail(q)

Passed(d) == ~unsound'[d] /\ Mail(d)' = Mail(d) /\ got'[d] = got[d]
Posted(d) == ~unsound'[d] /\ got'[d] = got[d] /\ \E m \in Msgs : Mail(d)' = Append(Mail(d), m)
Delivered(d) ==
  ~unsound'[d] /\ Mail(d) # <<>> /\ Mail(d)' = Tail(Mail(d)) /\ got'[d] = Head(Mail(d))
Lost(d) ==
  /\ link' # "up" /\ ~unsound'[d] /\ got'[d] = got[d]
  /\ \E x, y \in 0 .. Len(Mail(d)) : Mail(d)' = SubSeq(Mail(d), x + 1, y)
Torn(d) == Underway(d) /\ unsound'[d]
Kept(d) == ~unsound[d] => Passed(d) \/ Posted(d) \/ Delivered(d) \/ Lost(d) \/ Torn(d)

LEMMA TypedAt ==
  ASSUME Typed, NEW d \in Dirs
  PROVE  /\ link \in {"up", "closed", "down"} /\ overdue \in BOOLEAN
         /\ queue[d] \in Seq(Msgs) /\ boff[d] \in Nat /\ net[d] \in Seq(Byte)
         /\ rbuf[d].b \in Seq(Byte) /\ rbuf[d].bsize \in Nat
         /\ rbuf[d] = [b |-> rbuf[d].b, bsize |-> rbuf[d].bsize]
         /\ unsound[d] \in BOOLEAN /\ got[d] \in Msgs \cup {<<>>}
         /\ rbuf[d].b \o net[d] \in Seq(Byte)
         /\ Waiting(queue[d], boff[d]) \in Seq(Msgs) \/ queue[d] = <<>>
<1>1. /\ link \in {"up", "closed", "down"} /\ overdue \in BOOLEAN
      /\ queue[d] \in Seq(Msgs) /\ boff[d] \in Nat /\ net[d] \in Seq(Byte)
      /\ unsound[d] \in BOOLEAN /\ got[d] \in Msgs \cup {<<>>}
  BY DEF Typed
<1>2. rbuf[d] \in [b : Seq(Byte), bsize : Nat]
  BY DEF Typed
<1>3. /\ rbuf[d].b \in Seq(Byte) /\ rbuf[d].bsize \in Nat
      /\ rbuf[d] = [b |-> rbuf[d].b, bsize |-> rbuf[d].bsize]
  BY <1>2
<1>4. rbuf[d].b \o net[d] \in Seq(Byte)
  BY <1>1, <1>3, SeqJoined
<1>5. Waiting(queue[d], boff[d]) \in Seq(Msgs) \/ queue[d] = <<>>
  BY <1>1, HeadTailProperties DEF Waiting
<1>6. QED
  BY <1>1, <1>3, <1>4, <1>5

(* The mail of a direction: begun in the buffer, begun on the way, waiting. *)
LEMMA MailIs ==
  ASSUME Inv, NEW d \in Dirs
  PROVE  /\ Mail(d) \in Seq(Msgs) /\ Waiting(queue[d], boff[d]) \in Seq(Msgs)
         /\ Begun(rbuf[d].b \o net[d]) \in Seq(Msgs)
         /\ link # "down" \/ d = "up" =>
              Mail(d) = Begun(rbuf[d].b \o net[d]) \o Waiting(queue[d], boff[d])
<1>1. /\ queue[d] \in Seq(Msgs) /\ rbuf[d].b \o net[d] \in Seq(Byte)
      /\ Waiting(queue[d], boff[d]) \in Seq(Msgs) \/ queue[d] = <<>>
  BY TypedAt DEF Inv
<1>2. boff[d] = 0 \/ queue[d] # <<>>
  BY DEF Inv, Good, Limits, InQueue
<1>3. Waiting(queue[d], boff[d]) \in Seq(Msgs)
  BY <1>1, <1>2 DEF Waiting
<1>4. Begun(rbuf[d].b \o net[d]) \in Seq(Msgs)
  BY <1>1, BegunAre
<1>5. link # "down" \/ d = "up" => Mail(d) = Begun(rbuf[d].b \o net[d]) \o Waiting(queue[d], boff[d])
  BY DEF Mail, Waiting, Dirs
<1>6. link = "down" /\ d = "down" => Mail(d) = <<>>
  BY DEF Mail
<1>7. Begun(rbuf[d].b \o net[d]) \o Waiting(queue[d], boff[d]) \in Seq(Msgs)
  BY <1>3, <1>4, SeqJoined
<1>8. <<>> \in Seq(Msgs)
  OBVIOUS
<1>9. QED
  BY <1>3, <1>4, <1>5, <1>6, <1>7, <1>8 DEF Dirs

LEMMA Untouched ==
  ASSUME Inv, NEW d \in Dirs, link' = link, queue'[d] = queue[d], boff'[d] = boff[d],
         net'[d] = net[d], rbuf'[d] = rbuf[d], unsound'[d] = unsound[d], got'[d] = got[d]
  PROVE  Good(d)' /\ Kept(d)
<1>1. Good(d)
  BY DEF Inv
<1>2. Limits(d)' /\ Shut(d)' /\ Carried(d)'
  BY <1>1 DEF Good, Limits, Shut, Carried, Stream
<1>3. Sound(d)'
  BY <1>1 DEF Good, Sound, Served, Whole, Stream, Starts
<1>4. Mail(d)' = Mail(d)
  BY DEF Mail
<1>5. QED
  BY <1>2, <1>3, <1>4 DEF Good, Kept, Passed

LEMMA Posting ==
  ASSUME Inv, NEW d \in Dirs, link' = link, d = "down" => link = "up",
         NEW m \in Msgs, queue'[d] = Append(queue[d], m), Len(queue[d]) < QueueMax, boff'[d] = boff[d],
         net'[d] = net[d], rbuf'[d] = rbuf[d], unsound'[d] = unsound[d], got'[d] = got[d]
  PROVE  Good(d)' /\ Kept(d)
<1>1. Good(d) /\ queue[d] \in Seq(Msgs) /\ boff[d] \in Nat /\ QueueMax \in Nat
  BY TypedAt, WireAssumption DEF Inv
<1>2. /\ queue'[d] \in Seq(Msgs) /\ queue'[d] # <<>> /\ Len(queue'[d]) = Len(queue[d]) + 1
      /\ queue[d] # <<>> => Head(queue'[d]) = Head(queue[d]) /\ Tail(queue'[d]) = Append(Tail(queue[d]), m)
  BY <1>1
<1>3. InQueue(queue[d], boff[d])
  BY <1>1 DEF Good, Limits
<1>4. InQueue(queue'[d], boff[d])
  BY <1>1, <1>2, <1>3 DEF InQueue
<1>5. ASSUME NEW s, Ends(s, queue[d], boff[d]) PROVE Ends(s, queue'[d], boff[d])
  BY <1>2, <1>5 DEF Ends
<1>6. Limits(d)' /\ Shut(d)' /\ Carried(d)'
  BY <1>1, <1>4, <1>5 DEF Good, Limits, Shut, Carried, Stream, Dirs
<1>7. Sound(d)'
  BY <1>1, <1>5 DEF Good, Sound, Served, Whole, Stream, Starts
<1>8. Mail(d)' = Append(Mail(d), m)
  <2> DEFINE g == Begun(rbuf[d].b \o net[d])
             w == Waiting(queue[d], boff[d])
             z == Waiting(queue'[d], boff[d])
  <2>1. z = Append(w, m)
    BY <1>2, <1>3 DEF Waiting, InQueue
  <2>2. link # "down" \/ d = "up"
    BY DEF Dirs
  <2>3. Mail(d) = g \o w /\ g \in Seq(Msgs) /\ w \in Seq(Msgs)
    BY <2>2, MailIs
  <2>4. Mail(d)' = g \o z
    BY <2>2 DEF Mail, Waiting
  <2> HIDE DEF g, w, z
  <2>5. g \o Append(w, m) = Append(g \o w, m)
    BY <2>3
  <2>6. QED
    BY <2>1, <2>3, <2>4, <2>5
<1>9. QED
  BY <1>6, <1>7, <1>8 DEF Good, Kept, Posted

(* Of the whole queue: what write has not taken of its first message.       *)
LEMMA Remains ==
  ASSUME Inv, NEW d \in Dirs, queue[d] # <<>>, NEW n \in 1 .. Room, n <= Len(Unsent(d))
  PROVE  /\ Head(queue[d]) \in Msgs /\ Len(Unsent(d)) = Size(Head(queue[d])) - boff[d]
         /\ Size(Head(queue[d])) \in Nat /\ boff[d] \in Nat /\ boff[d] < Size(Head(queue[d]))
         /\ SubSeq(Unsent(d), 1, n) = [k \in 1 .. n |-> <<Head(queue[d]), boff[d] + k>>]
<1> DEFINE h == Head(queue[d])
           o == boff[d]
<1>1. queue[d] \in Seq(Msgs) /\ o \in Nat /\ InQueue(queue[d], o)
  BY TypedAt DEF Inv, Good, Limits
<1>2. h \in Msgs
  BY <1>1
<1>3. Size(h) \in Nat /\ Size(h) >= 1
  BY <1>2, Message, MbufAssumption
<1>4. o < Size(h)
  BY <1>1, <1>3 DEF InQueue
<1>5. Unsent(d) = SubSeq(Bytes(h), o + 1, Size(h))
  BY DEF Unsent, Size
<1>6. /\ Bytes(h) \in Seq(Byte) /\ Len(Bytes(h)) = Size(h)
      /\ \A k \in 1 .. Size(h) : Bytes(h)[k] = <<h, k>>
  <2>1. /\ Bytes(h) = [k \in 1 .. Size(h) |-> <<h, k>>]
        /\ \A k \in 1 .. Size(h) : Bytes(h)[k] = <<h, k>>
    BY <1>2, Places
  <2>2. Bytes(h) = [k \in 1 .. Size(h) |-> Bytes(h)[k]] /\ \A k \in 1 .. Size(h) : Bytes(h)[k] \in Byte
    BY <1>2, <2>1, ByteMade
  <2>3. QED
    BY <1>3, <2>1, <2>2, SeqMade
<1> HIDE DEF h, o
<1>7. Len(Unsent(d)) = Size(h) - o /\ \A k \in 1 .. Size(h) - o : Unsent(d)[k] = <<h, o + k>>
  <2> DEFINE b == Bytes(h)
             z == Size(h)
  <2> HIDE DEF b, z
  <2>1. z \in Nat /\ b \in Seq(Byte) /\ Len(b) = z /\ o < z /\ \A k \in 1 .. z : b[k] = <<h, k>>
    BY <1>3, <1>4, <1>6 DEF b, z
  <2>2. Len(SubSeq(b, o + 1, z)) = z - o /\ \A k \in 1 .. z - o : SubSeq(b, o + 1, z)[k] = b[o + k]
    BY <1>1, <2>1
  <2>3. \A k \in 1 .. z - o : o + k \in 1 .. z
    BY <1>1, <2>1
  <2>4. QED
    BY <1>5, <2>1, <2>2, <2>3 DEF b, z
<1>8. SubSeq(Unsent(d), 1, n) = [k \in 1 .. n |-> <<h, o + k>>]
  <2> DEFINE v == Unsent(d)
  <2>1. n \in Nat /\ \A k \in 1 .. n : k \in 1 .. Size(h) - o
    BY <1>1, <1>3, <1>4, <1>7
  <2>2. SubSeq(v, 1, n) = [k \in 1 .. n |-> v[k]]
    BY <2>1
  <2>3. \A k \in 1 .. n : v[k] = <<h, o + k>>
    BY <1>7, <2>1
  <2> HIDE DEF v
  <2>4. QED
    BY <2>2, <2>3 DEF v
<1>9. QED
  BY <1>1, <1>2, <1>3, <1>4, <1>7, <1>8 DEF h, o

LEMMA Writing ==
  ASSUME Inv, NEW d \in Dirs, NEW n \in 1 .. Room, Write(d, n)
  PROVE  Typed' /\ Good(d)' /\ Kept(d)
<1> DEFINE q == queue[d]
           o == boff[d]
           h == Head(queue[d])
           u == SubSeq(Unsent(d), 1, n)
           s == rbuf[d].b \o net[d]
<1>1. /\ link = "up" \/ (link = "closed" /\ d = "up")
      /\ queue[d] # <<>> /\ n <= Len(Unsent(d)) /\ Len(net[d]) + n <= Room
      /\ net' = IF link = "up" THEN [net EXCEPT ![d] = @ \o u] ELSE net
      /\ overdue' = (overdue /\ d = "up")
      /\ UNCHANGED <<link, rbuf, unsound, got>>
  BY DEF Write
<1>2. \/ n < Len(Unsent(d)) /\ boff' = [boff EXCEPT ![d] = @ + n] /\ queue' = queue
      \/ n = Len(Unsent(d)) /\ boff' = [boff EXCEPT ![d] = 0] /\ queue' = [queue EXCEPT ![d] = Tail(@)]
  BY DEF Write
<1>3. /\ h \in Msgs /\ Len(Unsent(d)) = Size(h) - o /\ Size(h) \in Nat /\ o \in Nat /\ o < Size(h)
      /\ u = [k \in 1 .. n |-> <<h, o + k>>]
  BY <1>1, Remains
<1>4. Typed /\ Good(d) /\ q \in Seq(Msgs) /\ q # <<>> /\ net[d] \in Seq(Byte) /\ s \in Seq(Byte)
  BY <1>1, TypedAt DEF Inv
<1>5. Tail(q) \in Seq(Msgs) /\ Len(Tail(q)) = Len(q) - 1 /\ q = <<h>> \o Tail(q)
  BY <1>4
<1>6. n \in Nat \ {0}
  BY <1>1
<1> HIDE DEF u, h, o
<1>7. \/ o + n < Size(h) /\ boff'[d] = o + n /\ queue'[d] = q
      \/ o + n = Size(h) /\ boff'[d] = 0 /\ queue'[d] = Tail(q)
  BY <1>2, <1>3, <1>6 DEF Typed, Inv, o
<1>8. queue' \in [Dirs -> Seq(Msgs)] /\ boff' \in [Dirs -> Nat]
  <2>1. queue \in [Dirs -> Seq(Msgs)] /\ boff \in [Dirs -> Nat]
    BY <1>4 DEF Typed
  <2>2. boff[d] + n \in Nat /\ 0 \in Nat /\ Tail(queue[d]) \in Seq(Msgs)
    BY <1>3, <1>5, <1>6 DEF o
  <2>3. boff' \in [Dirs -> Nat]
    BY <1>2, <2>1, <2>2
  <2>4. queue' \in [Dirs -> Seq(Msgs)]
    BY <1>2, <2>1, <2>2
  <2>5. QED
    BY <2>3, <2>4
<1> HIDE DEF q
<1>9. InQueue(queue'[d], boff'[d])
  <2>1. Len(q) <= QueueMax /\ QueueMax \in Nat /\ Len(q) \in Nat
    BY <1>4, WireAssumption DEF Good, Limits, InQueue, q
  <2>2. h = Head(q)
    BY DEF h, q
  <2>3. QED
    BY <1>3, <1>4, <1>5, <1>7, <2>1, <2>2 DEF InQueue
<1>10. Waiting(queue'[d], boff'[d]) = Tail(q)
  BY <1>3, <1>6, <1>7 DEF Waiting
<1>11. ASSUME NEW t \in Seq(Byte), Follows(t), Ends(t, q, o)
       PROVE  /\ u \in Seq(Byte) /\ Len(u) = n /\ u[1] = <<h, o + 1>> /\ t \o u \in Seq(Byte)
              /\ Follows(t \o u) /\ Ends(t \o u, queue'[d], boff'[d])
              /\ Begun(u) = IF o = 0 THEN <<h>> ELSE <<>>
  <2>0. h = Head(q) /\ o + n <= Size(h)
    BY <1>3, <1>6, <1>7 DEF h, q
  <2>1. u = Piece(Head(q), o, n) /\ o + n <= Size(Head(q))
    BY <1>3, <2>0 DEF Piece
  <2>3. /\ u \in Seq(Byte) /\ Len(u) = n /\ u[1] = <<Head(q), o + 1>>
        /\ t \o u \in Seq(Byte) /\ Follows(t \o u)
        /\ o + n < Size(Head(q)) => Ends(t \o u, q, o + n)
        /\ o + n = Size(Head(q)) => Ends(t \o u, Tail(q), 0)
        /\ Begun(u) = IF o = 0 THEN <<Head(q)>> ELSE <<>>
    <3>1. o \in Nat /\ q \in Seq(Msgs) /\ q # <<>>
      BY <1>3, <1>4
    <3> DEFINE v == Piece(Head(q), o, n)
    <3>2. /\ v \in Seq(Byte) /\ Len(v) = n /\ v[1] = <<Head(q), o + 1>>
          /\ t \o v \in Seq(Byte) /\ Follows(t \o v)
          /\ o + n < Size(Head(q)) => Ends(t \o v, q, o + n)
          /\ o + n = Size(Head(q)) => Ends(t \o v, Tail(q), 0)
          /\ Begun(v) = IF o = 0 THEN <<Head(q)>> ELSE <<>>
      BY <1>6, <1>11, <2>1, <3>1, Written
    <3>3. QED
      BY <2>1, <3>2
  <2>2. /\ u \in Seq(Byte) /\ Len(u) = n /\ u[1] = <<h, o + 1>> /\ t \o u \in Seq(Byte) /\ Follows(t \o u)
        /\ o + n < Size(h) => Ends(t \o u, q, o + n)
        /\ o + n = Size(h) => Ends(t \o u, Tail(q), 0)
        /\ Begun(u) = IF o = 0 THEN <<h>> ELSE <<>>
    BY <2>0, <2>3
  <2>4. QED
    BY <1>7, <2>2
<1>12. CASE link = "up"
  <2>1. net'[d] = net[d] \o u /\ Follows(net[d]) /\ Ends(net[d], q, o)
    BY <1>1, <1>4, <1>12 DEF Typed, Good, Carried, Stream, q, o
  <2>2. /\ u \in Seq(Byte) /\ Len(u) = n /\ u[1] = <<h, o + 1>> /\ net[d] \o u \in Seq(Byte)
        /\ Follows(net[d] \o u) /\ Ends(net[d] \o u, queue'[d], boff'[d])
        /\ Begun(u) = IF o = 0 THEN <<h>> ELSE <<>>
    BY <1>4, <1>11, <2>1
  <2>3. net' \in [Dirs -> Seq(Byte)]
    BY <1>1, <1>4, <1>12, <2>2 DEF Typed
  <2>4. Typed'
    BY <1>1, <1>4, <1>8, <2>3 DEF Typed
  <2>5. Limits(d)'
    <3>1. Len(net[d] \o u) = Len(net[d]) + n
      BY <1>4, <2>2, SeqJoined
    <3>2. QED
      BY <1>1, <1>4, <1>9, <2>1, <3>1 DEF Good, Limits
  <2>6. Carried(d)'
    BY <1>1, <2>1, <2>2 DEF Carried, Stream
  <2>7. Shut(d)'
    BY <1>1, <1>12 DEF Shut
  <2>8. rbuf'[d].b \o net'[d] = s \o u
    <3>1. rbuf[d].b \in Seq(Byte)
      BY TypedAt DEF Inv
    <3>2. rbuf[d].b \o (net[d] \o u) = (rbuf[d].b \o net[d]) \o u
      <4> DEFINE b == rbuf[d].b
                 w == net[d]
      <4>1. b \in Seq(Byte) /\ w \in Seq(Byte) /\ u \in Seq(Byte)
        BY <1>4, <2>2, <3>1
      <4> HIDE DEF b, w
      <4>2. b \o (w \o u) = (b \o w) \o u
        BY <4>1, ConcatAssociative
      <4>3. QED
        BY <4>2 DEF b, w
    <3>3. QED
      BY <1>1, <2>1, <3>2
  <2> HIDE DEF s
  <2>9. Sound(d)'
    <3>1. SUFFICES ASSUME ~unsound'[d] PROVE Whole(d)'
      BY DEF Sound
    <3>2. Whole(d)
      BY <1>1, <1>4, <1>12, <3>1 DEF Good, Sound, Served
    <3>3. Follows(s) /\ Ends(s, q, o) /\ Starts(s, d) /\ Fits(rbuf[d])
      BY <1>12, <3>2 DEF Whole, Stream, s, q, o
    <3>4. Follows(s \o u) /\ Ends(s \o u, queue'[d], boff'[d])
      BY <1>4, <1>11, <3>3
    <3>5. s \o u # <<>> /\ (s \o u)[1][2] = 1
      <4>1. CASE s = <<>>
        <5>1. s \o u = u /\ o = 0
          BY <1>12, <2>2, <3>3, <4>1 DEF Starts, o
        <5>2. QED
          BY <1>6, <2>2, <5>1
      <4>2. CASE s # <<>>
        <5>1. Len(s) \in Nat \ {0} /\ s[1][2] = 1
          BY <1>4, <3>3, <4>2 DEF Starts
        <5>2. s \in Seq(Byte) /\ u \in Seq(Byte) /\ 1 \in 1 .. Len(s)
          BY <1>4, <2>2, <5>1
        <5>3. (s \o u)[1] = s[1] /\ Len(s \o u) = Len(s) + Len(u) /\ Len(u) \in Nat
          BY <5>2, SeqJoined
        <5>4. QED
          BY <5>1, <5>3
      <4>3. QED
        BY <4>1, <4>2
    <3>6. QED
      BY <1>1, <2>8, <3>3, <3>4, <3>5 DEF Whole, Stream, Starts
  <2>10. Mail(d)' = Mail(d)
    <3>1. Mail(d)' = Begun(s \o u) \o Tail(q)
      BY <1>1, <1>10, <1>12, <2>8 DEF Mail, Waiting
    <3>2. Begun(s \o u) = Begun(s) \o Begun(u) /\ Begun(s) \in Seq(Msgs)
      BY <1>4, <2>2, BegunConcat, BegunAre
    <3>3. Begun(u) \o Tail(q) = Waiting(q, o) /\ Begun(u) \in Seq(Msgs)
      <4>1. Begun(u) \in Seq(Msgs)
        BY <2>2, BegunAre
      <4>2. CASE o = 0
        BY <1>5, <2>2, <4>2 DEF Waiting
      <4>3. CASE o # 0
        BY <1>5, <2>2, <4>3, ConcatEmptySeq DEF Waiting
      <4>4. QED
        BY <4>1, <4>2, <4>3
    <3>4. (Begun(s) \o Begun(u)) \o Tail(q) = Begun(s) \o (Begun(u) \o Tail(q))
      BY <1>5, <3>2, <3>3, ConcatAssociative
    <3>5. Mail(d) = Begun(s) \o Waiting(q, o)
      BY <1>12, MailIs DEF s, q, o
    <3>6. QED
      BY <3>1, <3>2, <3>3, <3>4, <3>5
  <2>11. QED
    BY <1>1, <2>4, <2>5, <2>6, <2>7, <2>9, <2>10 DEF Good, Kept, Passed
<1>13. CASE link = "closed" /\ d = "up"
  <2>1. net' = net /\ link' # "up" /\ net[d] = <<>> /\ rbuf[d] = NoBuf
    BY <1>1, <1>4, <1>13 DEF Good, Shut
  <2>2. Typed'
    BY <1>1, <1>4, <1>8, <2>1 DEF Typed
  <2>3. Limits(d)' /\ Shut(d)' /\ Carried(d)' /\ Sound(d)'
    BY <1>1, <1>4, <1>9, <1>13, <2>1 DEF Good, Limits, Shut, Carried, Stream, Sound, Served
  <2>4. rbuf[d].b \o net[d] = <<>>
    BY <2>1 DEF NoBuf
  <2>5. Mail(d) = Waiting(q, o)
    <3>1. Mail(d) = Begun(rbuf[d].b \o net[d]) \o Waiting(q, o) /\ Waiting(q, o) \in Seq(Msgs)
      BY <1>13, MailIs DEF q, o
    <3>2. QED
      BY <2>4, <3>1, BegunNothing, ConcatEmptySeq
  <2>6. Mail(d)' = Tail(q)
    <3>1. Mail(d)' = Begun(rbuf'[d].b \o net'[d]) \o Tail(q)
      BY <1>1, <1>10, <1>13 DEF Mail, Waiting
    <3>2. QED
      BY <1>1, <1>5, <2>1, <2>4, <3>1, BegunNothing, ConcatEmptySeq
  <2>7. \E x, y \in 0 .. Len(Mail(d)) : Mail(d)' = SubSeq(Mail(d), x + 1, y)
    <3>1. CASE o = 0
      <4>1. Mail(d) = q /\ Mail(d)' = SubSeq(q, 1 + 1, Len(q)) /\ 1 \in 0 .. Len(q) /\ Len(q) \in 0 .. Len(q)
        BY <1>4, <1>5, <2>5, <2>6, <3>1, TailIsSubSeq DEF Waiting
      <4>2. QED
        BY <4>1
    <3>2. CASE o # 0
      <4>1. Mail(d) = Tail(q) /\ Mail(d)' = SubSeq(Tail(q), 0 + 1, Len(Tail(q)))
        BY <1>5, <2>5, <2>6, <3>2, SubSeqFull DEF Waiting
      <4>2. 0 \in 0 .. Len(Tail(q)) /\ Len(Tail(q)) \in 0 .. Len(Tail(q))
        BY <1>5
      <4>3. QED
        BY <4>1, <4>2
    <3>3. QED
      BY <3>1, <3>2
  <2>8. Kept(d)
    BY <1>1, <2>1, <2>7 DEF Kept, Lost
  <2>9. QED
    BY <2>2, <2>3, <2>8 DEF Good
<1>14. QED
  BY <1>1, <1>12, <1>13

(* In a sound stream, a message that is partly read is not at an end.       *)
LEMMA Amid ==
  ASSUME Inv, NEW d \in Dirs, ~unsound[d], Gap(d)
  PROVE  ~AtMessage(d)
<1> DEFINE b == rbuf[d].b
           r == net[d]
           z == rbuf[d].bsize
<1>1. Good(d) /\ d = "up" /\ rbuf[d] # NoBuf
  BY DEF Inv, Gap
<1>2. link = "up"
  BY <1>1 DEF Good, Shut
<1>3. b \in Seq(Byte) /\ r \in Seq(Byte) /\ boff[d] \in Nat
  BY TypedAt DEF Inv
<1>4. Whole(d)
  BY <1>1, <1>2 DEF Good, Sound, Served
<1>5. Follows(b \o r) /\ Ends(b \o r, queue[d], boff[d]) /\ Starts(b \o r, d)
  BY <1>2, <1>4 DEF Whole, Stream
<1>6. b # <<>> /\ Len(b) < z /\ z \in Nat /\ (z = MSG_HDR_SIZE \/ z = Size(b[1][1]))
  BY <1>1, <1>4, TypedAt DEF Inv, Good, Limits, InBuffer, Whole, Fits
<1> HIDE DEF b, r, z
<1>7. b \o r # <<>>
  <2>1. Len(b) \in Nat \ {0} /\ Len(b \o r) = Len(b) + Len(r) /\ Len(r) \in Nat
    BY <1>3, <1>6, SeqJoined
  <2>2. Len(b \o r) # 0
    BY <2>1
  <2>3. QED
    BY <2>2
<1> DEFINE m == b[1][1]
<1>8. /\ m \in Msgs
      /\ Len(b) < Size(m) => (r # <<>> => r[1] = <<m, Len(b) + 1>>)
      /\ Len(b) < Size(m) => b[Len(b)] = <<m, Len(b)>>
  BY <1>3, <1>5, <1>6, <1>7, Arrived DEF Starts
<1>9. Len(b) < Size(m) /\ Len(b) \in Nat \ {0} /\ Size(m) \in Nat
  <2>1. Size(m) \in Nat /\ Size(m) >= MSG_HDR_SIZE /\ MSG_HDR_SIZE \in Nat
    BY <1>8, Message, MbufAssumption
  <2>2. Len(b) \in Nat \ {0}
    BY <1>3, <1>6
  <2>3. QED
    BY <1>6, <2>1, <2>2
<1> HIDE DEF m
<1>10. CASE r # <<>>
  <2>1. Head(r)[2] = Len(b) + 1
    BY <1>3, <1>8, <1>9, <1>10
  <2>2. Head(r)[2] # 1
    BY <1>9, <2>1
  <2>3. QED
    BY <1>10, <2>2 DEF AtMessage, r
<1>11. CASE r = <<>>
  <2>1. b \o r = b
    BY <1>3, <1>11, ConcatEmptySeq
  <2>2. b[Len(b)] = <<m, Len(b)>>
    BY <1>8, <1>9
  <2>3. boff[d] = Len(b)
    BY <1>5, <1>6, <1>9, <2>1, <2>2 DEF Ends
  <2>4. QED
    BY <1>9, <1>11, <2>3 DEF AtMessage, r
<1>12. QED
  BY <1>10, <1>11

LEMMA Resyncing ==
  ASSUME Inv, NEW d \in Dirs
  PROVE  /\ Resynced(d) \in [Dirs -> BOOLEAN]
         /\ \A e \in Dirs \ {d} : Resynced(d)[e] = unsound[e]
         /\ Gap(d) => (Resynced(d)[d] <=> ~AtMessage(d))
         /\ ~Gap(d) => Resynced(d) = unsound
         /\ ~unsound[d] /\ Resynced(d)[d] => Underway(d)
         /\ ~unsound[d] /\ ~Resynced(d)[d] => ~Gap(d)
<1>1. unsound \in [Dirs -> BOOLEAN]
  BY DEF Inv, Typed
<1>2. AtMessage(d) \in BOOLEAN
  BY DEF AtMessage
<1>3. CASE Gap(d)
  <2>1. Resynced(d) = [unsound EXCEPT ![d] = ~AtMessage(d)]
    BY <1>3 DEF Resynced
  <2>2. /\ Resynced(d) \in [Dirs -> BOOLEAN] /\ Resynced(d)[d] = ~AtMessage(d)
        /\ \A e \in Dirs \ {d} : Resynced(d)[e] = unsound[e]
    BY <1>1, <1>2, <2>1
  <2>3. Underway(d)
    BY <1>3 DEF Gap, Underway
  <2>4. QED
    BY <1>3, <2>2, <2>3, Amid
<1>4. CASE ~Gap(d)
  BY <1>1, <1>4 DEF Resynced
<1>5. QED
  BY <1>3, <1>4

(* The buffer that the next bytes are read into.                            *)
LEMMA Preparing ==
  ASSUME Inv, NEW d \in Dirs, Served(d)
  PROVE  LET P == Prepared(d)
             s == Prepared(d).b \o net[d] IN
           /\ P.b \in Seq(Byte) /\ P.bsize \in MSG_HDR_SIZE .. MSG_HDR_SIZE + MSG_MAX_PAY_SIZE
           /\ P = [b |-> P.b, bsize |-> P.bsize] /\ Len(P.b) < P.bsize
           /\ ~Gap(d) => P.b = rbuf[d].b
           /\ ~Resynced(d)[d] =>
                /\ Stream(s, d) /\ Starts(s, d)
                /\ P.bsize = MSG_HDR_SIZE \/ (P.b # <<>> /\ P.bsize = Size(P.b[1][1]))
<1> DEFINE P == Prepared(d)
           s == P.b \o net[d]
<1>1. Good(d) /\ MSG_HDR_SIZE \in Nat \ {0} /\ MSG_MAX_PAY_SIZE \in Nat
  BY MbufAssumption DEF Inv
<1>2. rbuf[d].b \in Seq(Byte) /\ net[d] \in Seq(Byte) /\ rbuf[d] = [b |-> rbuf[d].b, bsize |-> rbuf[d].bsize]
  BY TypedAt DEF Inv
<1>3. CASE Gap(d) \/ rbuf[d] = NoBuf
  <2>1. P = mbuf_new
    BY <1>3 DEF Prepared
  <2>2. P.b = <<>> /\ P.bsize = MSG_HDR_SIZE /\ P = [b |-> P.b, bsize |-> P.bsize]
    BY <2>1 DEF mbuf_new
  <2> HIDE DEF P
  <2>3. P.b \in Seq(Byte) /\ Len(P.b) = 0
    BY <2>2
  <2>4. ~Gap(d) => P.b = rbuf[d].b
    BY <1>3, <2>2 DEF NoBuf
  <2>5. s = net[d]
    BY <1>2, <2>2, ConcatEmptySeq
  <2>6. ASSUME ~Resynced(d)[d] PROVE Stream(s, d) /\ Starts(s, d)
    <3>1. CASE Gap(d)
      <4>1. AtMessage(d)
        BY <2>6, <3>1, Resyncing
      <4>2. Stream(net[d], d)
        BY <1>1 DEF Good, Carried
      <4>3. Starts(net[d], d)
        BY <1>2, <4>1 DEF AtMessage, Starts
      <4>4. QED
        BY <2>5, <4>2, <4>3
    <3>2. CASE ~Gap(d)
      <4>1. Resynced(d) = unsound
        BY <3>2, Resyncing
      <4>2. Whole(d)
        BY <1>1, <2>6, <4>1 DEF Good, Sound
      <4>3. rbuf[d].b \o net[d] = s
        BY <2>4, <3>2
      <4>4. QED
        BY <4>2, <4>3 DEF Whole
    <3>3. QED
      BY <3>1, <3>2
  <2>7. P.bsize \in MSG_HDR_SIZE .. MSG_HDR_SIZE + MSG_MAX_PAY_SIZE /\ Len(P.b) < P.bsize
    BY <1>1, <2>2, <2>3
  <2>8. QED
    BY <2>2, <2>3, <2>4, <2>6, <2>7 DEF P
<1>4. CASE ~Gap(d) /\ rbuf[d] # NoBuf
  <2>1. P = rbuf[d]
    BY <1>4 DEF Prepared
  <2>2. rbuf[d].bsize \in MSG_HDR_SIZE .. MSG_HDR_SIZE + MSG_MAX_PAY_SIZE /\ Len(rbuf[d].b) < rbuf[d].bsize /\ rbuf[d].b # <<>>
    BY <1>1, <1>4 DEF Good, Limits, InBuffer
  <2>3. ASSUME ~Resynced(d)[d]
        PROVE  /\ Stream(s, d) /\ Starts(s, d)
               /\ P.bsize = MSG_HDR_SIZE \/ (P.b # <<>> /\ P.bsize = Size(P.b[1][1]))
    <3>1. Resynced(d) = unsound
      BY <1>4, Resyncing
    <3>2. Whole(d)
      BY <1>1, <2>3, <3>1 DEF Good, Sound
    <3>3. QED
      BY <1>4, <2>1, <2>2, <3>2 DEF Whole, Fits
  <2>4. QED
    BY <1>2, <2>1, <2>2, <2>3
<1>5. QED
  BY <1>3, <1>4

(* What is in the buffer when n bytes have been read, and what is not.      *)
Filling(d, n) == Prepared(d).b \o SubSeq(net[d], 1, n)
Rest(d, n) == SubSeq(net[d], n + 1, Len(net[d]))

LEMMA Cut ==
  ASSUME Inv, NEW d \in Dirs, Served(d), NEW n \in 1 .. Room, n <= Len(net[d])
  PROVE  /\ Filling(d, n) \in Seq(Byte) /\ Filling(d, n) # <<>>
         /\ Len(Filling(d, n)) = Len(Prepared(d).b) + n
         /\ Rest(d, n) \in Seq(Byte) /\ Len(Rest(d, n)) = Len(net[d]) - n
         /\ Rest(d, n) # <<>> => Rest(d, n)[Len(Rest(d, n))] = net[d][Len(net[d])]
         /\ Filling(d, n) \o Rest(d, n) = Prepared(d).b \o net[d]
         /\ Prepared(d).b # <<>> => Filling(d, n)[1] = Prepared(d).b[1]
<1> DEFINE p == Prepared(d).b
           w == net[d]
           f == SubSeq(w, 1, n)
           r == SubSeq(w, n + 1, Len(w))
<1>1. p \in Seq(Byte) /\ w \in Seq(Byte) /\ n \in Nat \ {0} /\ n <= Len(w)
  <2>1. p \in Seq(Byte)
    BY Preparing
  <2>2. w \in Seq(Byte)
    BY TypedAt DEF Inv
  <2>3. QED
    BY <2>1, <2>2
<1> HIDE DEF p, w
<1>2. f \in Seq(Byte) /\ Len(f) = n
  BY <1>1
<1>3. r \in Seq(Byte) /\ Len(r) = Len(w) - n /\ \A i \in 1 .. Len(w) - n : r[i] = w[n + i]
  BY <1>1
<1>4. f \o r = w
  BY <1>1
<1> HIDE DEF f, r
<1>5. p \o f \in Seq(Byte) /\ Len(p \o f) = Len(p) + n /\ \A k \in 1 .. Len(p) : (p \o f)[k] = p[k]
  <2>1. p \in Seq(Byte) /\ f \in Seq(Byte)
    BY <1>1, <1>2
  <2>2. p \o f \in Seq(Byte) /\ Len(p \o f) = Len(p) + Len(f) /\ \A k \in 1 .. Len(p) : (p \o f)[k] = p[k]
    BY <2>1, SeqJoined
  <2>3. QED
    BY <1>2, <2>2
<1>6. p \o f # <<>>
  <2>1. Len(p) \in Nat
    BY <1>1
  <2>2. Len(p \o f) # 0
    BY <1>1, <1>5, <2>1
  <2>3. QED
    BY <2>2
<1>7. (p \o f) \o r = p \o w
  <2>1. p \in Seq(Byte) /\ f \in Seq(Byte) /\ r \in Seq(Byte)
    BY <1>1, <1>2, <1>3
  <2>2. (p \o f) \o r = p \o (f \o r)
    BY <2>1, ConcatAssociative
  <2>3. QED
    BY <1>4, <2>2
<1>8. p # <<>> => (p \o f)[1] = p[1]
  <2>1. p # <<>> => 1 \in 1 .. Len(p)
    BY <1>1
  <2>2. QED
    BY <1>5, <2>1
<1>9. r # <<>> => r[Len(r)] = w[Len(w)]
  <2>1. Len(w) \in Nat
    BY <1>1
  <2>2. r # <<>> => Len(r) \in 1 .. Len(w) - n /\ n + Len(r) = Len(w)
    BY <1>1, <1>3, <2>1
  <2>3. QED
    BY <1>3, <2>2
<1>10. QED
  BY <1>3, <1>5, <1>6, <1>7, <1>8, <1>9 DEF Filling, Rest, p, w, f, r

(* The two outcomes of a read: the buffer is kept, or used up. In a sound   *)
(* stream, it is used up when it holds a message.                           *)
Keeps(d, b, z) ==
  /\ z \in MSG_HDR_SIZE .. MSG_HDR_SIZE + MSG_MAX_PAY_SIZE /\ Len(b) < z
  /\ rbuf' = [rbuf EXCEPT ![d] = [b |-> b, bsize |-> z]]
  /\ UNCHANGED <<queue, boff, got>>
  /\ ~unsound'[d] => z = MSG_HDR_SIZE \/ z = Size(b[1][1])
Processes(d, b) ==
  /\ rbuf' = [rbuf EXCEPT ![d] = NoBuf]
  /\ got' = IF unsound'[d] THEN got ELSE [got EXCEPT ![d] = Attributes(b)]
  /\ UNCHANGED queue \/ enqueue_msg(Back(d))
  /\ UNCHANGED boff
  /\ ~unsound'[d] => Len(b) = Size(b[1][1])

LEMMA Refilled ==
  ASSUME NEW c, NEW z, NEW x
  PROVE  [[b |-> c, bsize |-> z] EXCEPT !.b = x] = [b |-> x, bsize |-> z]
OBVIOUS

LEMMA Outcome ==
  ASSUME Inv, NEW d \in Dirs, NEW n \in 1 .. Room, Read(d, n)
  PROVE  /\ Served(d) /\ n <= Len(net[d]) /\ link' = link /\ unsound' = Resynced(d)
         /\ net' = [net EXCEPT ![d] = Rest(d, n)] /\ overdue' = (overdue /\ d = "down")
         /\ (\E z : Keeps(d, Filling(d, n), z)) \/ Processes(d, Filling(d, n))
<1> DEFINE P == Prepared(d)
           b == Filling(d, n)
           buf == [P EXCEPT !.b = @ \o SubSeq(net[d], 1, n)]
<1>1. /\ Served(d) /\ n <= Len(net[d]) /\ n <= Missing(P) /\ unsound' = Resynced(d)
      /\ net' = [net EXCEPT ![d] = Rest(d, n)] /\ overdue' = (overdue /\ d = "down")
      /\ IF n = Missing(P) THEN Filled(d, buf) ELSE Keep(d, buf)
  BY DEF Read, Rest, Served
<1>2. /\ P.b \in Seq(Byte) /\ P.bsize \in MSG_HDR_SIZE .. MSG_HDR_SIZE + MSG_MAX_PAY_SIZE
      /\ P = [b |-> P.b, bsize |-> P.bsize] /\ Len(P.b) < P.bsize
      /\ ~Resynced(d)[d] =>
           /\ Stream(P.b \o net[d], d) /\ Starts(P.b \o net[d], d)
           /\ P.bsize = MSG_HDR_SIZE \/ (P.b # <<>> /\ P.bsize = Size(P.b[1][1]))
  BY <1>1, Preparing
<1>3. buf = [b |-> b, bsize |-> P.bsize]
  <2> DEFINE x == SubSeq(net[d], 1, n)
  <2>1. b = P.b \o x
    BY DEF Filling
  <2> HIDE DEF b, P, x
  <2>2. P = [b |-> P.b, bsize |-> P.bsize]
    BY <1>2
  <2>3. [P EXCEPT !.b = P.b \o x] = [b |-> P.b \o x, bsize |-> P.bsize]
    <3> DEFINE c == P.b
               y == P.bsize
               v == P.b \o x
    <3>1. P = [b |-> c, bsize |-> y]
      BY <2>2
    <3> HIDE DEF c, y, v
    <3>2. [P EXCEPT !.b = v] = [b |-> v, bsize |-> y]
      BY <3>1, Refilled
    <3>3. QED
      BY <3>2 DEF v, y
  <2>4. QED
    BY <2>1, <2>3 DEF x
<1>4. /\ b \in Seq(Byte) /\ b # <<>> /\ Len(b) = Len(P.b) + n
      /\ Rest(d, n) \in Seq(Byte) /\ b \o Rest(d, n) = P.b \o net[d]
      /\ P.b # <<>> => b[1] = P.b[1]
  BY <1>1, Cut
<1> DEFINE z == P.bsize
<1>5. /\ z \in MSG_HDR_SIZE .. MSG_HDR_SIZE + MSG_MAX_PAY_SIZE /\ MSG_HDR_SIZE \in Nat \ {0} /\ MSG_MAX_PAY_SIZE \in Nat
      /\ Len(P.b) \in Nat /\ Len(b) \in Nat /\ Missing(P) = z - Len(P.b)
  BY <1>2, <1>4, MbufAssumption DEF Missing
<1> HIDE DEF P, b, buf, z
<1>6. buf.b = b /\ buf.bsize = z
  BY <1>3 DEF z
<1> DEFINE m == b[1][1]
<1>7. ~unsound'[d] =>
        /\ m \in Msgs /\ b[1] = <<m, 1>> /\ Size(m) \in Nat /\ Size(m) >= MSG_HDR_SIZE
        /\ z = MSG_HDR_SIZE \/ z = Size(m)
  <2>1. SUFFICES ASSUME ~unsound'[d]
                 PROVE  /\ m \in Msgs /\ b[1] = <<m, 1>> /\ Size(m) \in Nat /\ Size(m) >= MSG_HDR_SIZE
                        /\ z = MSG_HDR_SIZE \/ z = Size(m)
    OBVIOUS
  <2>2. /\ Follows(b \o Rest(d, n)) /\ Starts(b \o Rest(d, n), d)
        /\ P.bsize = MSG_HDR_SIZE \/ (P.b # <<>> /\ P.bsize = Size(P.b[1][1]))
    BY <1>1, <1>2, <1>4, <2>1 DEF Stream
  <2>3. b \o Rest(d, n) # <<>>
    <3>0. b \in Seq(Byte) /\ b # <<>> /\ Rest(d, n) \in Seq(Byte)
      BY <1>4
    <3>1. Len(b \o Rest(d, n)) = Len(b) + Len(Rest(d, n)) /\ Len(b) \in Nat \ {0} /\ Len(Rest(d, n)) \in Nat
      BY <3>0, SeqJoined
    <3>2. Len(b \o Rest(d, n)) # 0
      BY <3>1
    <3>3. QED
      BY <3>2
  <2>4. m \in Msgs /\ b[1] = <<m, 1>>
    BY <1>4, <2>2, <2>3, Arrived DEF Starts
  <2>5. QED
    BY <1>4, <2>2, <2>4, Message DEF z
<1>8. CASE n # Missing(P)
  <2>1. Keep(d, buf)
    BY <1>1, <1>8
  <2>2. Len(b) < z
    BY <1>1, <1>4, <1>5, <1>8
  <2>3. Keeps(d, b, z)
    BY <1>3, <1>5, <1>7, <2>1, <2>2 DEF Keep, Keeps, z
  <2>4. link' = link
    BY <2>1 DEF Keep
  <2>5. QED
    BY <1>1, <2>3, <2>4 DEF b
<1>9. CASE n = Missing(P)
  <2>1. Filled(d, buf) /\ Len(b) = z
    BY <1>1, <1>4, <1>5, <1>9
  <2>2. CASE HeaderOnly(buf)
    <3>1. z = MSG_HDR_SIZE
      BY <1>6, <2>2 DEF HeaderOnly
    <3>2. PICK paylen \in PayLens(b) :
            \/ paylen = 0 /\ Process(d, b)
            \/ paylen \in 1 .. MSG_MAX_PAY_SIZE /\ Keep(d, [buf EXCEPT !.bsize = MSG_HDR_SIZE + paylen])
      BY <1>6, <2>1, <2>2 DEF Filled
    <3>3. ~unsound'[d] => Size(m) = MSG_HDR_SIZE + paylen
      <4>1. SUFFICES ASSUME ~unsound'[d] PROVE Size(m) = MSG_HDR_SIZE + paylen
        OBVIOUS
      <4>2. m \in Msgs /\ b[1] = <<m, 1>> /\ Size(m) \in Nat
        BY <1>7, <4>1
      <4>3. At(b[1]) = <<"paylen", Size(m) - MSG_HDR_SIZE>>
        BY <4>2, Message DEF At
      <4>4. PayLens(b) = {Size(m) - MSG_HDR_SIZE}
        BY <4>3 DEF PayLens
      <4>5. paylen = Size(m) - MSG_HDR_SIZE
        BY <4>4
      <4>6. QED
        BY <1>5, <4>2, <4>5
    <3>4. CASE paylen = 0 /\ Process(d, b)
      <4>1. ~unsound'[d] => Len(b) = Size(m)
        BY <1>5, <2>1, <3>1, <3>3, <3>4
      <4>2. Processes(d, b) /\ link' = link
        BY <1>1, <3>4, <4>1 DEF Process, Processes
      <4>3. QED
        BY <1>1, <4>2 DEF b
    <3>5. CASE paylen \in 1 .. MSG_MAX_PAY_SIZE /\ Keep(d, [buf EXCEPT !.bsize = MSG_HDR_SIZE + paylen])
      <4> DEFINE y == MSG_HDR_SIZE + paylen
      <4>1. y \in MSG_HDR_SIZE .. MSG_HDR_SIZE + MSG_MAX_PAY_SIZE /\ Len(b) < y
        BY <1>5, <2>1, <3>1, <3>5
      <4>2. [buf EXCEPT !.bsize = y] = [b |-> b, bsize |-> y]
        BY <1>3
      <4> HIDE DEF y
      <4>3. Keeps(d, b, y) /\ link' = link
        BY <3>3, <3>5, <4>1, <4>2 DEF Keep, Keeps, y
      <4>4. QED
        BY <1>1, <4>3 DEF b
    <3>6. QED
      BY <3>2, <3>4, <3>5
  <2>3. CASE ~HeaderOnly(buf)
    <3>1. z # MSG_HDR_SIZE /\ Process(d, b)
      BY <1>6, <2>1, <2>3 DEF Filled, HeaderOnly
    <3>2. ~unsound'[d] => Len(b) = Size(m)
      BY <1>7, <2>1, <3>1
    <3>3. Processes(d, b) /\ link' = link
      BY <1>1, <3>1, <3>2 DEF Process, Processes
    <3>4. QED
      BY <1>1, <3>3 DEF b
  <2>4. QED
    BY <2>2, <2>3
<1>10. QED
  BY <1>8, <1>9

(* What a read leaves on the way.                                           *)
LEMMA Resting ==
  ASSUME Inv, NEW d \in Dirs, NEW n \in 1 .. Room, Read(d, n)
  PROVE  /\ net'[d] = Rest(d, n) /\ net' \in [Dirs -> Seq(Byte)] /\ Len(net'[d]) <= Room
         /\ \A e \in Dirs \ {d} : net'[e] = net[e]
         /\ Stream(Rest(d, n), d)
<1>1. Served(d) /\ n <= Len(net[d]) /\ net' = [net EXCEPT ![d] = Rest(d, n)]
  BY Outcome
<1>2. /\ Rest(d, n) \in Seq(Byte) /\ Len(Rest(d, n)) = Len(net[d]) - n
      /\ Rest(d, n) # <<>> => Rest(d, n)[Len(Rest(d, n))] = net[d][Len(net[d])]
  BY <1>1, Cut
<1>3. net \in [Dirs -> Seq(Byte)] /\ Len(net[d]) <= Room /\ Carried(d) /\ Len(net[d]) \in Nat
  BY TypedAt DEF Inv, Typed, Good, Limits
<1>4. net'[d] = Rest(d, n) /\ net' \in [Dirs -> Seq(Byte)] /\ \A e \in Dirs \ {d} : net'[e] = net[e]
  BY <1>1, <1>2, <1>3
<1>5. Follows(Rest(d, n))
  <2>1. Follows(net[d]) /\ net[d] \in Seq(Byte) /\ n \in 0 .. Len(net[d])
    BY <1>1, <1>3 DEF Carried, Stream
  <2>2. QED
    BY <2>1, FollowsPart DEF Rest
<1>6. link = "up" => Ends(Rest(d, n), queue[d], boff[d])
  <2>1. SUFFICES ASSUME link = "up", Rest(d, n) # <<>>
                 PROVE  Ends(Rest(d, n), queue[d], boff[d])
    BY DEF Ends
  <2>2. Ends(net[d], queue[d], boff[d]) /\ net[d] # <<>>
    <3>1. net[d] # <<>>
      BY <1>1, <1>3
    <3>2. QED
      BY <1>3, <2>1, <3>1 DEF Carried, Stream
  <2>3. Rest(d, n)[Len(Rest(d, n))] = net[d][Len(net[d])]
    BY <1>2, <2>1
  <2>4. QED
    BY <2>2, <2>3 DEF Ends
<1>7. Len(net'[d]) <= Room
  <2>1. Room \in Nat
    BY WireAssumption
  <2>2. QED
    BY <1>2, <1>3, <1>4, <2>1
<1>8. QED
  BY <1>4, <1>5, <1>6, <1>7 DEF Stream

LEMMA Keeping ==
  ASSUME Inv, NEW d \in Dirs, NEW n \in 1 .. Room, Read(d, n), NEW z, Keeps(d, Filling(d, n), z)
  PROVE  Typed' /\ Good(d)' /\ Kept(d) /\ \A e \in Dirs \ {d} : Good(e)' /\ Kept(e)
<1> DEFINE b == Filling(d, n)
           r == Rest(d, n)
           s == Prepared(d).b \o net[d]
<1>1. Served(d) /\ link' = link /\ unsound' = Resynced(d) /\ overdue' = (overdue /\ d = "down")
  BY Outcome
<1>2. Served(d) /\ n <= Len(net[d])
  BY Outcome
<1>3. b \in Seq(Byte) /\ b # <<>> /\ b \o r = s
  BY <1>2, Cut
<1>4. ~Gap(d) => Prepared(d).b = rbuf[d].b
  BY <1>1, Preparing
<1>5. ~Resynced(d)[d] => Stream(s, d) /\ Starts(s, d)
  BY <1>1, Preparing
<1> HIDE DEF b, r, s
<1>6. /\ net'[d] = r /\ net' \in [Dirs -> Seq(Byte)] /\ Len(net'[d]) <= Room
      /\ \A e \in Dirs \ {d} : net'[e] = net[e]
      /\ Stream(r, d)
  BY Resting DEF r
<1>7. /\ z \in MSG_HDR_SIZE .. MSG_HDR_SIZE + MSG_MAX_PAY_SIZE /\ Len(b) < z
      /\ rbuf' = [rbuf EXCEPT ![d] = [b |-> b, bsize |-> z]]
      /\ queue' = queue /\ boff' = boff /\ got' = got
      /\ ~unsound'[d] => z = MSG_HDR_SIZE \/ z = Size(b[1][1])
  BY DEF Keeps, b
<1>8. Typed /\ Good(d)
  BY DEF Inv
<1>9. rbuf'[d] = [b |-> b, bsize |-> z] /\ \A e \in Dirs \ {d} : rbuf'[e] = rbuf[e]
  BY <1>7, <1>8 DEF Typed
<1>10. Typed'
  <2>1. z \in Nat
    BY <1>7, MbufAssumption
  <2>2. rbuf' \in [Dirs -> [b : Seq(Byte), bsize : Nat]]
    BY <1>3, <1>7, <1>8, <2>1 DEF Typed
  <2>3. unsound' \in [Dirs -> BOOLEAN]
    BY <1>1, Resyncing
  <2>4. link' \in {"up", "closed", "down"} /\ overdue' \in BOOLEAN
    BY <1>1, <1>8 DEF Typed
  <2>5. QED
    BY <1>6, <1>7, <1>8, <2>2, <2>3, <2>4 DEF Typed
<1>11. rbuf'[d].b = b /\ rbuf'[d].bsize = z
  BY <1>9
<1>12. Limits(d)'
  <2>1. InQueue(queue'[d], boff'[d])
    BY <1>7, <1>8 DEF Good, Limits
  <2>2. InBuffer(rbuf'[d])
    BY <1>3, <1>7, <1>11 DEF InBuffer
  <2>3. QED
    BY <1>6, <2>1, <2>2 DEF Limits
<1>13. Carried(d)'
  BY <1>1, <1>6, <1>7 DEF Carried, Stream
<1>14. Shut(d)'
  <2>1. CASE link = "up"
    BY <1>1, <2>1 DEF Shut
  <2>2. CASE link = "closed" /\ d = "down"
    BY <1>1, <1>7, <1>8, <2>2 DEF Good, Shut
  <2>3. QED
    BY <1>1, <2>1, <2>2 DEF Served
<1>15. Sound(d)'
  <2>1. SUFFICES ASSUME ~unsound'[d] PROVE Whole(d)'
    BY DEF Sound
  <2>2. Stream(s, d) /\ Starts(s, d)
    BY <1>1, <1>5, <2>1
  <2>3. rbuf'[d].b \o net'[d] = s
    BY <1>3, <1>6, <1>11
  <2>4. Fits(rbuf'[d])
    BY <1>7, <1>11, <2>1 DEF Fits
  <2>5. QED
    BY <1>1, <1>7, <2>2, <2>3, <2>4 DEF Whole, Stream, Starts
<1>16. Kept(d)
  <2>1. SUFFICES ASSUME ~unsound[d] PROVE Passed(d) \/ Torn(d)
    BY DEF Kept
  <2>2. CASE unsound'[d]
    BY <1>1, <2>1, <2>2, Resyncing DEF Torn
  <2>3. CASE ~unsound'[d]
    <3>1. ~Gap(d)
      BY <1>1, <2>1, <2>3, Resyncing
    <3>2. rbuf'[d].b \o net'[d] = rbuf[d].b \o net[d]
      BY <1>3, <1>4, <1>6, <1>11, <3>1 DEF s
    <3>3. Mail(d)' = Mail(d)
      <4>1. Begun(rbuf'[d].b \o net'[d]) = Begun(rbuf[d].b \o net[d])
        BY <3>2
      <4>2. link' = link /\ queue' = queue /\ boff' = boff
        BY <1>1, <1>7
      <4>3. QED
        BY <4>1, <4>2 DEF Mail
    <3>4. QED
      BY <1>7, <2>3, <3>3 DEF Passed
  <2>4. QED
    BY <2>2, <2>3
<1>17. ASSUME NEW e \in Dirs \ {d} PROVE Good(e)' /\ Kept(e)
  <2>1. unsound'[e] = unsound[e]
    BY <1>1, Resyncing
  <2>2. QED
    BY <1>1, <1>6, <1>7, <1>9, <2>1, Untouched
<1>18. QED
  BY <1>10, <1>12, <1>13, <1>14, <1>15, <1>16, <1>17 DEF Good

LEMMA Enqueued ==
  ASSUME Inv, NEW d \in Dirs, enqueue_msg(d)
  PROVE  /\ Len(queue[d]) < QueueMax /\ queue' \in [Dirs -> Seq(Msgs)]
         /\ \E m \in Msgs : queue'[d] = Append(queue[d], m)
         /\ \A e \in Dirs \ {d} : queue'[e] = queue[e]
<1>1. PICK m \in (IF d = "up" THEN Up ELSE Down) : queue' = [queue EXCEPT ![d] = Append(@, m)]
  BY DEF enqueue_msg
<1>2. m \in Msgs
  BY WireAssumption
<1>3. queue \in [Dirs -> Seq(Msgs)] /\ queue[d] \in Seq(Msgs)
  BY DEF Inv, Typed
<1>4. Append(queue[d], m) \in Seq(Msgs)
  BY <1>2, <1>3
<1>5. queue' \in [Dirs -> Seq(Msgs)] /\ queue'[d] = Append(queue[d], m)
      /\ \A e \in Dirs \ {d} : queue'[e] = queue[e]
  BY <1>1, <1>3, <1>4
<1>6. QED
  BY <1>2, <1>5 DEF enqueue_msg

LEMMA Processing ==
  ASSUME Inv, NEW d \in Dirs, NEW n \in 1 .. Room, Read(d, n), Processes(d, Filling(d, n))
  PROVE  Typed' /\ Good(d)' /\ Kept(d) /\ \A e \in Dirs \ {d} : Good(e)' /\ Kept(e)
<1> DEFINE b == Filling(d, n)
           r == Rest(d, n)
           s == Prepared(d).b \o net[d]
           m == b[1][1]
<1>1. Served(d) /\ link' = link /\ unsound' = Resynced(d) /\ overdue' = (overdue /\ d = "down")
      /\ n <= Len(net[d])
  BY Outcome
<1>2. b \in Seq(Byte) /\ b # <<>> /\ r \in Seq(Byte) /\ b \o r = s
  BY <1>1, Cut
<1>3. ~Gap(d) => Prepared(d).b = rbuf[d].b
  BY <1>1, Preparing
<1>4. ~Resynced(d)[d] => Stream(s, d) /\ Starts(s, d)
  BY <1>1, Preparing
<1> HIDE DEF b, r, s
<1>5. /\ net'[d] = r /\ net' \in [Dirs -> Seq(Byte)] /\ Len(net'[d]) <= Room
      /\ \A e \in Dirs \ {d} : net'[e] = net[e]
      /\ Stream(r, d)
  BY Resting DEF r
<1>6. /\ rbuf' = [rbuf EXCEPT ![d] = NoBuf] /\ boff' = boff
      /\ got' = IF unsound'[d] THEN got ELSE [got EXCEPT ![d] = Attributes(b)]
      /\ queue' = queue \/ enqueue_msg(Back(d))
      /\ ~unsound'[d] => Len(b) = Size(m)
  BY DEF Processes, b
<1>7. Typed /\ Good(d)
  BY DEF Inv
<1>8. rbuf'[d] = NoBuf /\ rbuf'[d].b = <<>> /\ \A e \in Dirs \ {d} : rbuf'[e] = rbuf[e]
  BY <1>6, <1>7 DEF Typed, NoBuf
<1>9. Back(d) \in Dirs \ {d} /\ (Back(d) = "down" => link = "up")
  BY <1>1 DEF Back, Dirs, Served
<1>10. queue'[d] = queue[d] /\ queue' \in [Dirs -> Seq(Msgs)]
  <2>1. CASE queue' = queue
    BY <1>7, <2>1 DEF Typed
  <2>2. CASE enqueue_msg(Back(d))
    BY <1>9, <2>2, Enqueued
  <2>3. QED
    BY <1>6, <2>1, <2>2
<1>11. ~unsound'[d] => /\ m \in Msgs /\ b = Bytes(m) /\ Begun(b) = <<m>> /\ (r # <<>> => r[1][2] = 1)
                       /\ Attributes(b) = m
  <2>1. SUFFICES ASSUME ~unsound'[d]
                 PROVE  /\ m \in Msgs /\ b = Bytes(m) /\ Begun(b) = <<m>> /\ (r # <<>> => r[1][2] = 1)
                        /\ Attributes(b) = m
    OBVIOUS
  <2>2. Follows(b \o r) /\ Starts(b \o r, d)
    BY <1>1, <1>2, <1>4, <2>1 DEF Stream
  <2>3. b \o r # <<>>
    <3>1. Len(b \o r) = Len(b) + Len(r) /\ Len(b) \in Nat \ {0} /\ Len(r) \in Nat
      BY <1>2, SeqJoined
    <3>2. Len(b \o r) # 0
      BY <3>1
    <3>3. QED
      BY <3>2
  <2>4. m \in Msgs /\ b = Bytes(m) /\ Begun(b) = <<m>> /\ (r # <<>> => r[1][2] = 1)
    BY <1>2, <1>6, <2>1, <2>2, <2>3, Arrived DEF Starts
  <2>5. QED
    BY <2>4, TakenApart
<1>12. Typed'
  <2>1. NoBuf \in [b : Seq(Byte), bsize : Nat]
    BY DEF NoBuf
  <2>2. rbuf' \in [Dirs -> [b : Seq(Byte), bsize : Nat]]
    BY <1>6, <1>7, <2>1 DEF Typed
  <2>3. unsound' \in [Dirs -> BOOLEAN]
    BY <1>1, Resyncing
  <2>4. link' \in {"up", "closed", "down"} /\ overdue' \in BOOLEAN
    BY <1>1, <1>7 DEF Typed
  <2>5. got' \in [Dirs -> Msgs \cup {<<>>}]
    <3>1. got \in [Dirs -> Msgs \cup {<<>>}]
      BY <1>7 DEF Typed
    <3>2. QED
      BY <1>6, <1>11, <3>1
  <2>6. boff' \in [Dirs -> Nat]
    BY <1>6, <1>7 DEF Typed
  <2>7. QED
    BY <1>5, <1>10, <2>2, <2>3, <2>4, <2>5, <2>6 DEF Typed
<1>13. Limits(d)'
  <2>1. InQueue(queue'[d], boff'[d])
    BY <1>6, <1>7, <1>10 DEF Good, Limits
  <2>2. InBuffer(rbuf'[d])
    BY <1>8 DEF InBuffer
  <2>3. QED
    BY <1>5, <2>1, <2>2 DEF Limits
<1>14. Carried(d)'
  BY <1>1, <1>5, <1>6, <1>10 DEF Carried, Stream
<1>15. Shut(d)'
  <2>1. CASE link = "up"
    BY <1>1, <2>1 DEF Shut
  <2>2. CASE link = "closed" /\ d = "down"
    BY <1>1, <1>6, <1>7, <1>10, <2>2 DEF Good, Shut
  <2>3. QED
    BY <1>1, <2>1, <2>2 DEF Served
<1>16. rbuf'[d].b \o net'[d] = r
  BY <1>2, <1>5, <1>8, ConcatEmptySeq
<1>17. Sound(d)'
  <2>1. SUFFICES ASSUME ~unsound'[d] PROVE Whole(d)'
    BY DEF Sound
  <2>2. Follows(r) /\ (link' = "up" => Ends(r, queue'[d], boff'[d]))
    BY <1>1, <1>5, <1>6, <1>10 DEF Stream
  <2>3. r = <<>> /\ link' = "up" => boff'[d] = 0
    <3>1. SUFFICES ASSUME r = <<>>, link = "up" PROVE boff[d] = 0
      BY <1>1, <1>6
    <3>2. s = b
      BY <1>2, <3>1, ConcatEmptySeq
    <3>3. Ends(b, queue[d], boff[d])
      BY <1>1, <1>4, <2>1, <3>1, <3>2 DEF Stream
    <3>4. Size(m) \in Nat /\ Size(m) \in 1 .. Size(m)
      <4>1. Size(m) \in Nat /\ Size(m) >= MSG_HDR_SIZE /\ MSG_HDR_SIZE \in Nat \ {0}
        BY <1>11, <2>1, Message, MbufAssumption
      <4>2. QED
        BY <4>1
    <3>5. b[Len(b)] = <<m, Size(m)>>
      <4>1. Len(b) = Size(m) /\ Bytes(m)[Size(m)] = <<m, Size(m)>>
        BY <1>6, <1>11, <2>1, <3>4, Places
      <4>2. b = Bytes(m)
        BY <1>11, <2>1
      <4>3. QED
        BY <4>1, <4>2
    <3>6. QED
      BY <1>2, <3>3, <3>4, <3>5 DEF Ends
  <2>4. Fits(rbuf'[d])
    BY <1>8 DEF Fits
  <2>5. r # <<>> => r[1][2] = 1
    BY <1>11, <2>1
  <2>6. QED
    BY <1>16, <2>2, <2>3, <2>4, <2>5 DEF Whole, Stream, Starts
<1>18. Kept(d)
  <2>1. SUFFICES ASSUME ~unsound[d] PROVE Delivered(d) \/ Torn(d)
    BY DEF Kept
  <2>2. CASE unsound'[d]
    BY <1>1, <2>1, <2>2, Resyncing DEF Torn
  <2>3. CASE ~unsound'[d]
    <3> DEFINE w == Waiting(queue[d], boff[d])
    <3>1. ~Gap(d)
      BY <1>1, <2>1, <2>3, Resyncing
    <3>2. rbuf[d].b \o net[d] = b \o r
      BY <1>2, <1>3, <3>1 DEF s
    <3>3. link # "down" \/ d = "up"
      BY <1>1 DEF Served
    <3>4. Mail(d) = Begun(b \o r) \o w /\ w \in Seq(Msgs)
      BY <3>2, <3>3, MailIs
    <3>5. Begun(b \o r) = <<m>> \o Begun(r) /\ Begun(r) \in Seq(Msgs)
      BY <1>2, <1>11, <2>3, BegunConcat, BegunAre
    <3>6. Mail(d)' = Begun(r) \o w
      <4>1. Begun(rbuf'[d].b \o net'[d]) = Begun(r)
        BY <1>16
      <4>2. link' = link /\ queue'[d] = queue[d] /\ boff' = boff
        BY <1>1, <1>6, <1>10
      <4>3. QED
        BY <3>3, <4>1, <4>2 DEF Mail, Waiting
    <3> HIDE DEF w, m
    <3>7. m \in Msgs
      BY <1>11, <2>3
    <3>8. (<<m>> \o Begun(r)) \o w = <<m>> \o (Begun(r) \o w) /\ Begun(r) \o w \in Seq(Msgs)
      BY <3>4, <3>5, <3>7, ConcatAssociative, SeqJoined
    <3>9. Mail(d) = <<m>> \o Mail(d)' /\ Mail(d)' \in Seq(Msgs)
      BY <3>4, <3>5, <3>6, <3>8
    <3>10. Mail(d) # <<>> /\ Head(Mail(d)) = m /\ Tail(Mail(d)) = Mail(d)'
      BY <3>7, <3>9
    <3>11. got'[d] = m
      BY <1>6, <1>7, <1>11, <2>3 DEF Typed
    <3>12. QED
      BY <2>3, <3>10, <3>11 DEF Delivered
  <2>4. QED
    BY <2>2, <2>3
<1>19. ASSUME NEW e \in Dirs \ {d} PROVE Good(e)' /\ Kept(e)
  <2>1. /\ unsound'[e] = unsound[e] /\ link' = link /\ boff'[e] = boff[e] /\ net'[e] = net[e]
        /\ rbuf'[e] = rbuf[e]
    BY <1>1, <1>5, <1>6, <1>8, Resyncing
  <2>2. got'[e] = got[e]
    BY <1>6, <1>7 DEF Typed
  <2>3. CASE queue' = queue
    BY <2>1, <2>2, <2>3, Untouched
  <2>4. CASE enqueue_msg(Back(d))
    <3>1. e = Back(d)
      BY <1>9 DEF Dirs
    <3>2. Len(queue[e]) < QueueMax /\ \E x \in Msgs : queue'[e] = Append(queue[e], x)
      BY <1>9, <2>4, <3>1, Enqueued
    <3>3. QED
      BY <1>9, <2>1, <2>2, <3>1, <3>2, Posting
  <2>5. QED
    BY <1>6, <2>3, <2>4
<1>20. QED
  BY <1>12, <1>13, <1>14, <1>15, <1>17, <1>18, <1>19 DEF Good

-----------------------------------------------------------------------------
(* Every step keeps the invariant, and is a step of a mailbox in each       *)
(* direction                                                                *)

Preserved == Typed' /\ \A d \in Dirs : Good(d)' /\ Kept(d)

LEMMA PostStep == ASSUME Inv, NEW d \in Dirs, Post(d) PROVE Preserved
<1>1. /\ (link = "up" \/ (link = "closed" /\ d = "up")) /\ enqueue_msg(d)
      /\ UNCHANGED <<link, boff, net, rbuf, overdue, unsound, got>>
  BY DEF Post
<1>2. /\ Len(queue[d]) < QueueMax /\ queue' \in [Dirs -> Seq(Msgs)]
      /\ \E m \in Msgs : queue'[d] = Append(queue[d], m)
      /\ \A e \in Dirs \ {d} : queue'[e] = queue[e]
  BY Enqueued DEF Post
<1>3. Typed'
  BY <1>1, <1>2 DEF Inv, Typed
<1>4. Good(d)' /\ Kept(d)
  BY <1>1, <1>2, Posting
<1>5. \A e \in Dirs \ {d} : Good(e)' /\ Kept(e)
  BY <1>1, <1>2, Untouched
<1>6. QED
  BY <1>3, <1>4, <1>5 DEF Preserved

LEMMA WriteStep == ASSUME Inv, NEW d \in Dirs, NEW n \in 1 .. Room, Write(d, n) PROVE Preserved
<1>1. Typed' /\ Good(d)' /\ Kept(d)
  BY Writing
<1>2. queue \in [Dirs -> Seq(Msgs)] /\ boff \in [Dirs -> Nat] /\ net \in [Dirs -> Seq(Byte)]
  BY DEF Inv, Typed
<1>3. UNCHANGED <<link, rbuf, unsound, got>>
  BY DEF Write
<1>4. ASSUME NEW e \in Dirs \ {d} PROVE queue'[e] = queue[e] /\ boff'[e] = boff[e] /\ net'[e] = net[e]
  <2>1. net'[e] = net[e]
    BY <1>2 DEF Write
  <2>2. queue'[e] = queue[e]
    BY <1>2 DEF Write
  <2>3. boff'[e] = boff[e]
    BY <1>2 DEF Write
  <2>4. QED
    BY <2>1, <2>2, <2>3
<1>5. \A e \in Dirs \ {d} : Good(e)' /\ Kept(e)
  BY <1>3, <1>4, Untouched
<1>6. QED
  BY <1>1, <1>5 DEF Preserved

LEMMA ReadStep == ASSUME Inv, NEW d \in Dirs, NEW n \in 1 .. Room, Read(d, n) PROVE Preserved
<1>1. (\E z : Keeps(d, Filling(d, n), z)) \/ Processes(d, Filling(d, n))
  BY Outcome
<1>2. CASE \E z : Keeps(d, Filling(d, n), z)
  BY <1>2, Keeping DEF Preserved
<1>3. CASE Processes(d, Filling(d, n))
  BY <1>3, Processing DEF Preserved
<1>4. QED
  BY <1>1, <1>2, <1>3

LEMMA TickStep == ASSUME Inv, Tick \/ UNCHANGED vars PROVE Preserved
<1>1. UNCHANGED <<link, queue, boff, net, rbuf, unsound, got>> /\ overdue' \in BOOLEAN
  BY DEF Tick, vars, Inv, Typed
<1>2. Typed'
  BY <1>1 DEF Inv, Typed
<1>3. \A d \in Dirs : Good(d)' /\ Kept(d)
  BY <1>1, Untouched
<1>4. QED
  BY <1>2, <1>3 DEF Preserved

LEMMA UpkeepStep == ASSUME Inv, Upkeep PROVE Preserved
<1>1. /\ Gap("up") /\ rbuf' = [rbuf EXCEPT !["up"] = NoBuf] /\ unsound' = Resynced("up")
      /\ UNCHANGED <<link, queue, boff, net, overdue, got>>
  BY DEF Upkeep
<1>2. "up" \in Dirs /\ \A e \in Dirs : e # "up" => e = "down"
  BY DEF Dirs
<1>3. /\ Typed /\ Good("up") /\ net["up"] \in Seq(Byte) /\ NoBuf \in [b : Seq(Byte), bsize : Nat]
      /\ rbuf \in [Dirs -> [b : Seq(Byte), bsize : Nat]]
  BY <1>2 DEF Inv, Typed, NoBuf
<1>4. rbuf' \in [Dirs -> [b : Seq(Byte), bsize : Nat]] /\ rbuf'["up"] = NoBuf
      /\ \A e \in Dirs \ {"up"} : rbuf'[e] = rbuf[e]
  BY <1>1, <1>2, <1>3
<1>5. /\ unsound' \in [Dirs -> BOOLEAN] /\ \A e \in Dirs \ {"up"} : unsound'[e] = unsound[e]
      /\ unsound'["up"] <=> ~AtMessage("up")
      /\ ~unsound["up"] => unsound'["up"] /\ Underway("up")
  BY <1>1, <1>2, Resyncing, Amid
<1>6. Typed'
  BY <1>1, <1>3, <1>4, <1>5 DEF Typed
<1>7. Limits("up")' /\ Shut("up")' /\ Carried("up")'
  BY <1>1, <1>3, <1>4 DEF Good, Limits, InBuffer, Shut, Carried, Stream
<1>8. Sound("up")'
  <2>1. SUFFICES ASSUME AtMessage("up") PROVE Whole("up")'
    BY <1>5 DEF Sound
  <2>2. rbuf'["up"].b \o net'["up"] = net["up"]
    BY <1>1, <1>3, <1>4, ConcatEmptySeq DEF NoBuf
  <2>3. Stream(net["up"], "up")
    BY <1>3 DEF Good, Carried
  <2>4. Starts(net["up"], "up")
    BY <1>3, <2>1 DEF Starts, AtMessage
  <2>5. QED
    BY <1>1, <1>4, <2>2, <2>3, <2>4 DEF Whole, Stream, Starts, Fits
<1>9. Good("up")' /\ Kept("up")
  BY <1>5, <1>7, <1>8 DEF Good, Kept, Torn
<1>10. \A e \in Dirs \ {"up"} : Good(e)' /\ Kept(e)
  BY <1>1, <1>4, <1>5, Untouched
<1>11. QED
  BY <1>6, <1>9, <1>10 DEF Preserved

LEMMA Lossy ==
  ASSUME NEW g \in Seq(Msgs), NEW w \in Seq(Msgs)
  PROVE  /\ \E x, y \in 0 .. Len(g \o w) : w = SubSeq(g \o w, x + 1, y)
         /\ \E x, y \in 0 .. Len(g \o w) : g = SubSeq(g \o w, x + 1, y)
         /\ \E x, y \in 0 .. Len(g \o w) : <<>> = SubSeq(g \o w, x + 1, y)
<1>1. g \o w \in Seq(Msgs) /\ Len(g \o w) = Len(g) + Len(w) /\ Len(g) \in Nat /\ Len(w) \in Nat
  BY SeqJoined
<1>2. w = SubSeq(g \o w, Len(g) + 1, Len(g \o w))
  BY <1>1
<1>3. g = SubSeq(g \o w, 0 + 1, Len(g))
  BY <1>1
<1>4. <<>> = SubSeq(g \o w, 0 + 1, 0)
  BY <1>1
<1>5. 0 \in 0 .. Len(g \o w) /\ Len(g) \in 0 .. Len(g \o w) /\ Len(g \o w) \in 0 .. Len(g \o w)
  BY <1>1
<1>6. QED
  BY <1>2, <1>3, <1>4, <1>5

LEMMA NothingFollows == Follows(<<>>) /\ <<>> \o <<>> = <<>>
BY DEF Follows

(* The connection ends for what the client sends: its queue is kept.        *)
LEMMA EndUp ==
  ASSUME Inv, link' \in {"closed", "down"}, queue'["up"] = queue["up"], boff'["up"] = boff["up"],
         rbuf'["up"] = NoBuf, net'["up"] = <<>>, unsound'["up"] = unsound["up"], got'["up"] = got["up"]
  PROVE  Good("up")' /\ Kept("up")
<1>1. Good("up") /\ "up" \in Dirs /\ Room \in Nat
  BY WireAssumption DEF Inv, Dirs
<1>2. Limits("up")'
  BY <1>1 DEF Good, Limits, InBuffer
<1>3. Shut("up")' /\ Carried("up")' /\ Sound("up")'
  BY <1>1, NothingFollows DEF Shut, Carried, Stream, Sound, Served
<1>4. \E x, y \in 0 .. Len(Mail("up")) : Mail("up")' = SubSeq(Mail("up"), x + 1, y)
  <2> DEFINE g == Begun(rbuf["up"].b \o net["up"])
             w == Waiting(queue["up"], boff["up"])
  <2>1. Mail("up") = g \o w /\ g \in Seq(Msgs) /\ w \in Seq(Msgs)
    BY <1>1, MailIs
  <2>2. Mail("up")' = w
    <3>1. rbuf'["up"].b \o net'["up"] = <<>>
      BY NothingFollows DEF NoBuf
    <3>2. Mail("up")' = Begun(rbuf'["up"].b \o net'["up"]) \o w
      BY DEF Mail, Waiting
    <3>3. QED
      BY <2>1, <3>1, <3>2, BegunNothing, ConcatEmptySeq
  <2> HIDE DEF g, w
  <2>3. \E x, y \in 0 .. Len(g \o w) : w = SubSeq(g \o w, x + 1, y)
    BY <2>1, Lossy
  <2>4. QED
    BY <2>1, <2>2, <2>3
<1>5. QED
  BY <1>2, <1>3, <1>4 DEF Good, Kept, Lost

(* It ends for the server, which has no queue then.                         *)
LEMMA EndDown ==
  ASSUME Inv, link = "up", link' = "closed", queue'["down"] = <<>>, boff'["down"] = 0,
         rbuf'["down"] = rbuf["down"], net'["down"] = net["down"],
         unsound'["down"] = unsound["down"], got'["down"] = got["down"]
  PROVE  Good("down")' /\ Kept("down")
<1>1. Good("down") /\ "down" \in Dirs /\ QueueMax \in Nat
  BY WireAssumption DEF Inv, Dirs
<1>2. Limits("down")'
  BY <1>1 DEF Good, Limits, InQueue
<1>3. Shut("down")' /\ Carried("down")'
  BY <1>1 DEF Good, Shut, Carried, Stream
<1>4. Sound("down")'
  BY <1>1 DEF Good, Sound, Served, Whole, Stream, Starts
<1>5. \E x, y \in 0 .. Len(Mail("down")) : Mail("down")' = SubSeq(Mail("down"), x + 1, y)
  <2> DEFINE g == Begun(rbuf["down"].b \o net["down"])
             w == Waiting(queue["down"], boff["down"])
  <2>1. Mail("down") = g \o w /\ g \in Seq(Msgs) /\ w \in Seq(Msgs)
    BY <1>1, MailIs
  <2>2. Mail("down")' = g
    <3>1. Mail("down")' = g \o <<>>
      BY DEF Mail
    <3>2. QED
      BY <2>1, <3>1, ConcatEmptySeq
  <2> HIDE DEF g, w
  <2>3. PICK x, y \in 0 .. Len(g \o w) : g = SubSeq(g \o w, x + 1, y)
    BY <2>1, Lossy
  <2>4. x \in 0 .. Len(Mail("down")) /\ y \in 0 .. Len(Mail("down")) /\ Mail("down")' = SubSeq(Mail("down"), x + 1, y)
    BY <2>1, <2>2, <2>3
  <2>5. QED
    BY <2>4
<1>6. QED
  BY <1>2, <1>3, <1>4, <1>5 DEF Good, Kept, Lost

LEMMA Emptied ==
  ASSUME Inv, NEW d \in Dirs, link' = "down", queue'[d] = <<>>, boff'[d] = 0, net'[d] = <<>>,
         rbuf'[d] = NoBuf \/ (d = "down" /\ rbuf'[d] = rbuf[d]),
         unsound'[d] = unsound[d], got'[d] = got[d]
  PROVE  Good(d)' /\ Kept(d)
<1>1. Good(d) /\ QueueMax \in Nat /\ Room \in Nat
  BY WireAssumption DEF Inv
<1>2. Limits(d)'
  BY <1>1 DEF Good, Limits, InQueue, InBuffer
<1>3. Shut(d)' /\ Carried(d)' /\ Sound(d)'
  BY <1>1, NothingFollows DEF Shut, Carried, Stream, Sound, Served
<1>4. Mail(d)' = <<>>
  <2>1. CASE d = "down"
    BY <2>1 DEF Mail
  <2>2. CASE d = "up"
    <3>1. rbuf'[d].b \o net'[d] = <<>>
      BY <2>2, NothingFollows DEF NoBuf
    <3>2. Mail(d)' = Begun(rbuf'[d].b \o net'[d]) \o <<>>
      BY <2>2 DEF Mail
    <3>3. QED
      BY <3>1, <3>2, BegunNothing, NothingFollows
  <2>3. QED
    BY <2>1, <2>2 DEF Dirs
<1>5. \E x, y \in 0 .. Len(Mail(d)) : Mail(d)' = SubSeq(Mail(d), x + 1, y)
  <2>1. Mail(d) \in Seq(Msgs)
    BY MailIs
  <2>2. 0 \in 0 .. Len(Mail(d)) /\ SubSeq(Mail(d), 0 + 1, 0) = <<>>
    BY <2>1
  <2>3. QED
    BY <1>4, <2>2
<1>6. QED
  BY <1>2, <1>3, <1>5 DEF Good, Kept, Lost

LEMMA CloseTyped ==
  ASSUME Inv, close_client, link' \in {"closed", "down"}, UNCHANGED unsound, net' \in [Dirs -> Seq(Byte)]
  PROVE  /\ Typed' /\ UNCHANGED <<unsound, got>>
         /\ queue'["down"] = <<>> /\ boff'["down"] = 0 /\ rbuf'["up"] = NoBuf
         /\ queue'["up"] = queue["up"] /\ boff'["up"] = boff["up"] /\ rbuf'["down"] = rbuf["down"]
<1>1. /\ queue' = [queue EXCEPT !["down"] = <<>>] /\ boff' = [boff EXCEPT !["down"] = 0]
      /\ rbuf' = [rbuf EXCEPT !["up"] = NoBuf] /\ overdue' = FALSE /\ got' = got
  BY DEF close_client
<1>2. /\ queue \in [Dirs -> Seq(Msgs)] /\ boff \in [Dirs -> Nat] /\ "up" \in Dirs /\ "down" \in Dirs
      /\ rbuf \in [Dirs -> [b : Seq(Byte), bsize : Nat]] /\ NoBuf \in [b : Seq(Byte), bsize : Nat]
  BY DEF Inv, Typed, Dirs, NoBuf
<1>3. queue' \in [Dirs -> Seq(Msgs)] /\ queue'["down"] = <<>> /\ queue'["up"] = queue["up"]
  BY <1>1, <1>2
<1>4. boff' \in [Dirs -> Nat] /\ boff'["down"] = 0 /\ boff'["up"] = boff["up"]
  BY <1>1, <1>2
<1>5. rbuf' \in [Dirs -> [b : Seq(Byte), bsize : Nat]] /\ rbuf'["up"] = NoBuf /\ rbuf'["down"] = rbuf["down"]
  BY <1>1, <1>2
<1>6. QED
  BY <1>1, <1>3, <1>4, <1>5 DEF Inv, Typed

LEMMA ServerClosesStep == ASSUME Inv, ServerCloses PROVE Preserved
<1>1. /\ link = "up" /\ link' = "closed" /\ close_client /\ net' = [net EXCEPT !["up"] = <<>>]
      /\ UNCHANGED unsound
  BY DEF ServerCloses
<1>2. net' \in [Dirs -> Seq(Byte)] /\ net'["up"] = <<>> /\ net'["down"] = net["down"]
  BY <1>1 DEF Inv, Typed, Dirs
<1>3. /\ Typed' /\ UNCHANGED <<unsound, got>>
      /\ queue'["down"] = <<>> /\ boff'["down"] = 0 /\ rbuf'["up"] = NoBuf
      /\ queue'["up"] = queue["up"] /\ boff'["up"] = boff["up"] /\ rbuf'["down"] = rbuf["down"]
  BY <1>1, <1>2, CloseTyped
<1>4. Good("up")' /\ Kept("up")
  BY <1>1, <1>2, <1>3, EndUp
<1>5. Good("down")' /\ Kept("down")
  BY <1>1, <1>2, <1>3, EndDown
<1>6. QED
  BY <1>3, <1>4, <1>5 DEF Preserved, Dirs

LEMMA DisconnectStep == ASSUME Inv, Disconnect PROVE Preserved
<1>1. link' = "down" /\ close_client /\ net' = [d \in Dirs |-> <<>>] /\ UNCHANGED unsound
  BY DEF Disconnect
<1>2. net' \in [Dirs -> Seq(Byte)] /\ net'["up"] = <<>> /\ net'["down"] = <<>> /\ "down" \in Dirs
  BY <1>1 DEF Dirs
<1>3. /\ Typed' /\ UNCHANGED <<unsound, got>>
      /\ queue'["down"] = <<>> /\ boff'["down"] = 0 /\ rbuf'["up"] = NoBuf
      /\ queue'["up"] = queue["up"] /\ boff'["up"] = boff["up"] /\ rbuf'["down"] = rbuf["down"]
  BY <1>1, <1>2, CloseTyped
<1>4. Good("up")' /\ Kept("up")
  BY <1>1, <1>2, <1>3, EndUp
<1>5. Good("down")' /\ Kept("down")
  BY <1>1, <1>2, <1>3, Emptied
<1>6. QED
  BY <1>3, <1>4, <1>5 DEF Preserved, Dirs

LEMMA ExitStep == ASSUME Inv, Exit PROVE Preserved
<1>1. /\ link' = "down" /\ overdue' = FALSE
      /\ queue' = [d \in Dirs |-> <<>>] /\ boff' = [d \in Dirs |-> 0]
      /\ net' = [d \in Dirs |-> <<>>] /\ rbuf' = [d \in Dirs |-> NoBuf]
      /\ UNCHANGED <<unsound, got>>
  BY DEF Exit
<1>2. NoBuf \in [b : Seq(Byte), bsize : Nat]
  BY DEF NoBuf
<1>3. Typed'
  <2>1. queue' \in [Dirs -> Seq(Msgs)] /\ boff' \in [Dirs -> Nat]
    BY <1>1
  <2>2. net' \in [Dirs -> Seq(Byte)]
    BY <1>1
  <2>3. rbuf' \in [Dirs -> [b : Seq(Byte), bsize : Nat]]
    BY <1>1, <1>2
  <2>4. unsound' \in [Dirs -> BOOLEAN] /\ got' \in [Dirs -> Msgs \cup {<<>>}]
    BY <1>1 DEF Inv, Typed
  <2>5. QED
    BY <1>1, <2>1, <2>2, <2>3, <2>4 DEF Typed
<1>4. ASSUME NEW d \in Dirs PROVE Good(d)' /\ Kept(d)
  <2>1. queue'[d] = <<>> /\ boff'[d] = 0 /\ net'[d] = <<>> /\ rbuf'[d] = NoBuf
    BY <1>1
  <2>2. QED
    BY <1>1, <2>1, Emptied
<1>5. QED
  BY <1>3, <1>4 DEF Preserved

LEMMA ConnectStep == ASSUME Inv, Connect PROVE Preserved
<1>1. /\ link = "down" /\ link' = "up" /\ unsound' = [d \in Dirs |-> HalfDone(d)]
      /\ UNCHANGED <<queue, boff, net, rbuf, overdue, got>>
  BY DEF Connect
<1>2. Typed'
  <2>1. ASSUME NEW d \in Dirs PROVE HalfDone(d) \in BOOLEAN
    <3>1. (boff[d] > 0) \in BOOLEAN /\ (rbuf[d] # NoBuf) \in BOOLEAN
      OBVIOUS
    <3>2. QED
      BY <3>1 DEF HalfDone
  <2>2. unsound' \in [Dirs -> BOOLEAN]
    BY <1>1, <2>1
  <2>3. QED
    BY <1>1, <2>2 DEF Inv, Typed
<1>3. ASSUME NEW d \in Dirs PROVE Good(d)' /\ Kept(d)
  <2>1. Good(d) /\ net[d] = <<>> /\ boff[d] \in Nat /\ (unsound'[d] <=> HalfDone(d))
    BY <1>1, TypedAt DEF Inv, Good, Shut
  <2>2. Limits(d)' /\ Shut(d)' /\ Carried(d)'
    BY <1>1, <2>1, NothingFollows DEF Good, Limits, Shut, Carried, Stream, Ends
  <2>3. ~unsound'[d] => rbuf[d] = NoBuf /\ boff[d] = 0 /\ (d = "down" => queue[d] = <<>>)
    BY <1>1, <2>1 DEF HalfDone, Good, Shut, Dirs
  <2>4. ~unsound'[d] => rbuf[d].b \o net[d] = <<>>
    BY <2>1, <2>3, NothingFollows DEF NoBuf
  <2>5. Sound(d)'
    BY <1>1, <2>3, <2>4, NothingFollows DEF Sound, Whole, Stream, Ends, Starts, Fits
  <2>6. unsound'[d] => Torn(d)
    BY <2>1 DEF Torn, Underway, HalfDone
  <2>7. ~unsound'[d] => Mail(d)' = Mail(d)
    <3>1. SUFFICES ASSUME ~unsound'[d] PROVE Mail(d)' = Mail(d)
      OBVIOUS
    <3>2. CASE d = "up"
      BY <1>1, <3>2 DEF Mail
    <3>3. CASE d = "down"
      <4>1. Mail(d) = <<>>
        BY <1>1, <3>3 DEF Mail
      <4>2. Mail(d)' = Begun(<<>>) \o <<>>
        BY <1>1, <2>3, <2>4, <3>1, <3>3 DEF Mail
      <4>3. QED
        BY <4>1, <4>2, BegunNothing, NothingFollows
    <3>4. QED
      BY <3>2, <3>3 DEF Dirs
  <2>8. QED
    BY <1>1, <2>2, <2>5, <2>6, <2>7 DEF Good, Kept, Passed
<1>4. QED
  BY <1>2, <1>3 DEF Preserved

LEMMA Steps == ASSUME Inv, [Next]_vars PROVE Preserved
<1>1. ASSUME NEW d \in Dirs, Post(d) \/ Handle(d) PROVE Preserved
  BY <1>1, PostStep, WriteStep, ReadStep DEF Handle
<1>2. QED
  BY <1>1, TickStep, UpkeepStep, ConnectStep, DisconnectStep, ServerClosesStep, ExitStep DEF Next

-----------------------------------------------------------------------------
(* Theorems *)

LEMMA Beginning == ASSUME Init PROVE Inv
<1>1. /\ link = "down" /\ overdue = FALSE
      /\ queue = [d \in Dirs |-> <<>>] /\ boff = [d \in Dirs |-> 0]
      /\ net = [d \in Dirs |-> <<>>] /\ rbuf = [d \in Dirs |-> NoBuf]
      /\ unsound = [d \in Dirs |-> FALSE] /\ got = [d \in Dirs |-> <<>>]
  BY DEF Init
<1>2. Typed
  <2>1. queue \in [Dirs -> Seq(Msgs)] /\ boff \in [Dirs -> Nat]
    BY <1>1
  <2>2. net \in [Dirs -> Seq(Byte)]
    BY <1>1
  <2>3. NoBuf \in [b : Seq(Byte), bsize : Nat]
    BY DEF NoBuf
  <2>4. rbuf \in [Dirs -> [b : Seq(Byte), bsize : Nat]]
    BY <1>1, <2>3
  <2>5. unsound \in [Dirs -> BOOLEAN] /\ got \in [Dirs -> Msgs \cup {<<>>}]
    BY <1>1
  <2>6. QED
    BY <1>1, <2>1, <2>2, <2>4, <2>5 DEF Typed
<1>3. ASSUME NEW d \in Dirs PROVE Good(d)
  <2>1. queue[d] = <<>> /\ boff[d] = 0 /\ net[d] = <<>> /\ rbuf[d] = NoBuf
    BY <1>1
  <2>2. QED
    BY <1>1, <2>1, NothingFollows, WireAssumption
    DEF Good, Limits, InQueue, InBuffer, Shut, Carried, Stream, Sound, Served
<1>4. QED
  BY <1>2, <1>3 DEF Inv

LEMMA Invariant == Spec => []Inv
<1>1. Init => Inv
  BY Beginning
<1>2. Inv /\ [Next]_vars => Inv'
  BY Steps DEF Preserved, Inv
<1>3. QED
  BY <1>1, <1>2, PTL DEF Spec

(* Queues, offsets and buffers stay within what the code takes for granted: *)
(* qhead->boff is inside the first message, a receive buffer is never full  *)
(* when the next read begins, and never larger than the largest message.    *)
THEOREM WireTypeCorrect == Spec => []TypeOK
<1>1. Inv => TypeOK
  <2>1. SUFFICES ASSUME Inv PROVE TypeOK
    OBVIOUS
  <2>2. ASSUME NEW d \in Dirs
        PROVE  /\ queue[d] \in Seq(Msgs) /\ Len(queue[d]) <= QueueMax
               /\ boff[d] = 0 \/ (queue[d] # <<>> /\ boff[d] < Len(Layout[Head(queue[d])]))
               /\ Len(net[d]) <= Room
               /\ rbuf[d] = NoBuf
                    \/ /\ rbuf[d].bsize \in MSG_HDR_SIZE .. MSG_HDR_SIZE + MSG_MAX_PAY_SIZE
                       /\ Len(rbuf[d].b) < rbuf[d].bsize
    BY <2>1 DEF Inv, Typed, Good, Limits, InQueue, InBuffer, Size
  <2>3. /\ link \in {"up", "closed", "down"} /\ overdue \in BOOLEAN
        /\ unsound \in [Dirs -> BOOLEAN] /\ got \in [Dirs -> Msgs \cup {<<>>}]
    BY <2>1 DEF Inv, Typed
  <2>4. QED
    BY <2>2, <2>3 DEF TypeOK
<1>2. QED
  BY <1>1, Invariant, PTL

LEMMA UpwardsStep == ASSUME Typed, Kept("up") PROVE Upwards!Next
<1>1. Kept("up") /\ unsound["up"] \in BOOLEAN
  BY DEF Typed, Dirs
<1>2. CASE unsound["up"]
  BY <1>2 DEF Upwards!Next
<1>3. CASE ~unsound["up"]
  <2>1. Passed("up") => Upwards!Pass
    BY DEF Passed, Upwards!Pass
  <2>2. Posted("up") => Upwards!Post
    BY DEF Posted, Upwards!Post
  <2>3. Delivered("up") => Upwards!Deliver
    BY DEF Delivered, Upwards!Deliver
  <2>4. Lost("up") => Upwards!Lose
    BY DEF Lost, Upwards!Lose
  <2>5. Torn("up") => Upwards!Tear
    BY DEF Torn, Upwards!Tear
  <2>6. QED
    BY <1>1, <1>3, <2>1, <2>2, <2>3, <2>4, <2>5 DEF Kept, Upwards!Next
<1>4. QED
  BY <1>1, <1>2, <1>3

LEMMA DownwardsStep == ASSUME Typed, Kept("down") PROVE Downwards!Next
<1>1. Kept("down") /\ unsound["down"] \in BOOLEAN
  BY DEF Typed, Dirs
<1>2. CASE unsound["down"]
  BY <1>2 DEF Downwards!Next
<1>3. CASE ~unsound["down"]
  <2>1. Passed("down") => Downwards!Pass
    BY DEF Passed, Downwards!Pass
  <2>2. Posted("down") => Downwards!Post
    BY DEF Posted, Downwards!Post
  <2>3. Delivered("down") => Downwards!Deliver
    BY DEF Delivered, Downwards!Deliver
  <2>4. Lost("down") => Downwards!Lose
    BY DEF Lost, Downwards!Lose
  <2>5. Torn("down") => Downwards!Tear
    BY DEF Torn, Downwards!Tear
  <2>6. QED
    BY <1>1, <1>3, <2>1, <2>2, <2>3, <2>4, <2>5 DEF Kept, Downwards!Next
<1>4. QED
  BY <1>1, <1>2, <1>3

(* handle_io and handle_srvio are a mailbox in each direction: whatever the *)
(* writes and reads take at a time, and however often the connection ends   *)
(* and is made again, the messages of a sound stream arrive whole, once and *)
(* in order, and only a message under way can make the stream unsound.      *)
THEOREM ArrivesWhole == Spec => MessagesArriveWhole
<1>1. Init => Upwards!Init /\ Downwards!Init
  <2>1. SUFFICES ASSUME Init PROVE Upwards!Init /\ Downwards!Init
    OBVIOUS
  <2>2. /\ link = "down" /\ queue["up"] = <<>> /\ boff["up"] = 0 /\ boff["down"] = 0
        /\ net["up"] = <<>> /\ rbuf["up"] = NoBuf /\ rbuf["down"] = NoBuf
        /\ unsound["up"] = FALSE /\ unsound["down"] = FALSE
        /\ got["up"] = <<>> /\ got["down"] = <<>>
    BY <2>1 DEF Init, Dirs
  <2>3. Mail("down") = <<>>
    BY <2>2 DEF Mail
  <2>4. Mail("up") = <<>>
    <3>1. rbuf["up"].b \o net["up"] = <<>>
      BY <2>2, NothingFollows DEF NoBuf
    <3>2. Mail("up") = Begun(rbuf["up"].b \o net["up"]) \o <<>>
      BY <2>2 DEF Mail
    <3>3. QED
      BY <3>1, <3>2, BegunNothing, NothingFollows
  <2>5. ~Underway("up") /\ ~Underway("down")
    BY <2>2 DEF Underway
  <2>6. QED
    BY <2>2, <2>3, <2>4, <2>5 DEF Upwards!Init, Downwards!Init
<1>2. Inv /\ [Next]_vars => Upwards!Next /\ Downwards!Next
  <2>1. SUFFICES ASSUME Inv, [Next]_vars PROVE Upwards!Next /\ Downwards!Next
    OBVIOUS
  <2>2. Typed /\ Kept("up") /\ Kept("down")
    BY <2>1, Steps DEF Preserved, Dirs, Inv
  <2>3. QED
    BY <2>2, UpwardsStep, DownwardsStep
<1>3. QED
  BY <1>1, <1>2, Invariant, PTL DEF Spec, MessagesArriveWhole, Upwards!Spec, Downwards!Spec

=============================================================================
