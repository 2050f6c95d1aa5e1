--------------------------- MODULE SrvLoop_proofs ---------------------------
(* The descriptor sets, the compaction and the countdown of the server's    *)
(* main loop, for any number of clients and descriptors, and any times.     *)
EXTENDS SrvLoop, FiniteSetTheorems, TLAPS

(* Whoever is still to be served in this pass and can be written to has a   *)
(* message: the queue of a client only shrinks when its turn comes.         *)
Ahead ==
  pc \in {"read", "write"} =>
    \A s \in Slots : s >= i /\ Used(s) /\ clients[s].fd \in wfds => clients[s].q > 0

AtClient == pc = "write" => i \in Slots /\ Used(i)

(* maxfd is unset before the first upkeep only.                             *)
Covered == pc # "upkeep" \/ since <= SelectTimeout => \A f \in m_rfds \cup m_wfds : f <= maxfd

Inv == TypeOK /\ MasterSetsExact /\ ReadyAccounted /\ Ahead /\ AtClient /\ Covered

-----------------------------------------------------------------------------
(* Ranks, and with them the extrema, of finite sets of numbers *)

LEMMA Ranks ==
  ASSUME NEW K, IsFiniteSet(K), K \subseteq Int
  PROVE  /\ \A t \in K : Budged(K, t) \in 1 .. Cardinality(K)
         /\ \A t, u \in K : Budged(K, t) = Budged(K, u) => t = u
         /\ \A n \in 1 .. Cardinality(K) : \E t \in K : Budged(K, t) = n
<1> DEFINE Upto(t) == {u \in K : u <= t}
           rank == [t \in K |-> Budged(K, t)]
<1>1. Cardinality(K) \in Nat
  BY FS_CardinalityType
<1>2. ASSUME NEW t \in K
      PROVE  /\ IsFiniteSet(Upto(t)) /\ Budged(K, t) = Cardinality(Upto(t))
             /\ Budged(K, t) \in 1 .. Cardinality(K)
  <2>1. Upto(t) \in SUBSET K /\ t \in Upto(t)
    OBVIOUS
  <2>2. IsFiniteSet(Upto(t)) /\ Cardinality(Upto(t)) <= Cardinality(K)
    BY <2>1, FS_Subset
  <2>3. Cardinality(Upto(t)) \in Nat /\ Cardinality(Upto(t)) # 0
    BY <2>1, <2>2, FS_CardinalityType, FS_EmptySet
  <2>4. Budged(K, t) = Cardinality(Upto(t))
    BY DEF Budged
  <2>5. QED
    BY <1>1, <2>2, <2>3, <2>4
<1>3. ASSUME NEW t \in K, NEW u \in K, t < u PROVE Budged(K, t) # Budged(K, u)
  <2>1. Upto(t) \in SUBSET Upto(u) /\ u \in Upto(u) /\ u \notin Upto(t)
    <3>1. t \in Int /\ u \in Int /\ \A x \in K : x \in Int
      OBVIOUS
    <3>2. \A x \in Int : x <= t => x <= u
      BY <1>3, <3>1
    <3>3. u <= u /\ ~(u <= t)
      BY <1>3, <3>1
    <3>4. QED
      BY <3>1, <3>2, <3>3
  <2>2. Cardinality(Upto(u)) # Cardinality(Upto(t))
    BY <1>2, <2>1, FS_Subset
  <2>3. QED
    BY <1>2, <2>2
<1>4. \A t, u \in K : Budged(K, t) = Budged(K, u) => t = u
  BY <1>3
<1>5. rank \in Injection(K, 1 .. Cardinality(K))
  BY <1>2, <1>4 DEF Injection, IsInjective
<1>6. IsFiniteSet(1 .. Cardinality(K)) /\ Cardinality(1 .. Cardinality(K)) = Cardinality(K)
  BY <1>1, FS_Interval
<1>7. rank \in Surjection(K, 1 .. Cardinality(K))
  BY <1>5, <1>6, FS_Injection
<1>8. \A n \in 1 .. Cardinality(K) : \E t \in K : Budged(K, t) = n
  BY <1>7 DEF Surjection
<1>9. QED
  BY <1>2, <1>4, <1>8

LEMMA MaxIs ==
  ASSUME NEW K, IsFiniteSet(K), K \subseteq Int, K # {}
  PROVE  Max(K) \in K /\ \A y \in K : y <= Max(K)
<1>1. Cardinality(K) \in Nat /\ Cardinality(K) # 0
  BY FS_CardinalityType, FS_EmptySet
<1>2. PICK t \in K : Budged(K, t) = Cardinality(K)
  <2>1. Cardinality(K) \in 1 .. Cardinality(K)
    BY <1>1
  <2>2. QED
    BY <2>1, Ranks
<1>3. {u \in K : u <= t} = K
  <2>1. {u \in K : u <= t} \in SUBSET K
    OBVIOUS
  <2>2. Cardinality(K) = Cardinality({u \in K : u <= t})
    BY <1>2 DEF Budged
  <2>3. QED
    BY <2>1, <2>2, FS_Subset
<1>4. \A y \in K : t >= y
  BY <1>3
<1>5. QED
  BY <1>4 DEF Max

LEMMA MinIs ==
  ASSUME NEW K, IsFiniteSet(K), K \subseteq Int, K # {}
  PROVE  Min(K) \in K /\ \A y \in K : Min(K) <= y
<1>1. Cardinality(K) \in Nat /\ Cardinality(K) # 0
  BY FS_CardinalityType, FS_EmptySet
<1>2. PICK t \in K : Budged(K, t) = 1
  <2>1. 1 \in 1 .. Cardinality(K)
    BY <1>1
  <2>2. QED
    BY <2>1, Ranks
<1> DEFINE T == {u \in K : u <= t}
<1>3. IsFiniteSet(T)
  <2>1. T \in SUBSET K
    OBVIOUS
  <2>2. QED
    BY <2>1, FS_Subset
<1>4. PICK x : T = {x}
  BY <1>2, <1>3, FS_Singleton DEF Budged
<1>5. \A y \in K : t <= y
  BY <1>4
<1>6. QED
  BY <1>5 DEF Min

LEMMA Least ==
  ASSUME NEW a \in Int, NEW b \in Int
  PROVE  Min({a, b}) = IF a <= b THEN a ELSE b
<1> DEFINE m == IF a <= b THEN a ELSE b
<1>1. m \in {a, b} /\ \A y \in {a, b} : m <= y
  OBVIOUS
<1>2. \A x \in {a, b} : (\A y \in {a, b} : x <= y) => x = m
  OBVIOUS
<1>3. QED
  BY <1>1, <1>2 DEF Min

-----------------------------------------------------------------------------
LEMMA Numbers ==
  /\ MaxClients \in Nat \ {0} /\ Sockets \in Nat \ {0} /\ QueueMax \in Nat \ {0}
  /\ AgeMax \in Nat /\ SelectTimeout \in Nat
  /\ Slots \subseteq Nat /\ Fds \subseteq Nat /\ NoFd \notin Fds /\ ListenFd \notin Fds
  /\ IsFiniteSet(Slots) /\ IsFiniteSet(Fds)
<1>1. IsFiniteSet(Slots) /\ IsFiniteSet(Fds)
  BY SizesAssumption, FS_Interval DEF Slots, Fds
<1>2. QED
  BY <1>1, SizesAssumption, TimesAssumption DEF Slots, Fds, NoFd, ListenFd

LEMMA Initially == Init => Inv
<1> SUFFICES ASSUME Init PROVE Inv
  OBVIOUS
<1>1. Unused \in Client
  BY Numbers DEF Unused, Client
<1>2. \A s \in Slots : clients[s] = Unused /\ ~Used(s)
  BY DEF Init, Used, Unused
<1>3. Owned = {} /\ \A f \in Fds : net[f] = "closed"
  BY <1>2 DEF Init, Owned
<1>4. TypeOK
  <2>1. i \in 1 .. MaxClients + 1 /\ since \in 0 .. SelectTimeout + 1
    BY Numbers DEF Init
  <2>2. clients \in [Slots -> Client]
    BY <1>1 DEF Init
  <2>3. QED
    BY <2>1, <2>2 DEF Init, TypeOK
<1>5. MasterSetsExact
  BY <1>2, <1>3 DEF MasterSetsExact, Init
<1>6. ReadyAccounted /\ Ahead /\ AtClient /\ Covered
  BY Numbers DEF Init, ReadyAccounted, Ahead, AtClient, Covered
<1>7. QED
  BY <1>4, <1>5, <1>6 DEF Inv

-----------------------------------------------------------------------------
(* The countdown *)

ToRead == Pending(rfds, IF pc = "read" THEN i ELSE i + 1)
ToWriteTo == Pending(wfds, i)
ToAccept == rfds \cap {ListenFd}

(* What remains to be served shrinks, by one at least where nset does.      *)
LEMMA Countdown ==
  ASSUME NEW R, NEW W, NEW L, IsFiniteSet(R), IsFiniteSet(W), IsFiniteSet(L),
         NEW n \in Int, n >= Cardinality(R) + Cardinality(W) + Cardinality(L),
         NEW R1 \in SUBSET R, NEW W1 \in SUBSET W, NEW n1,
         n1 = n \/ (n1 = n - 1 /\ (R1 # R \/ W1 # W))
  PROVE  n1 \in Nat /\ n1 >= Cardinality(R1) + Cardinality(W1) + Cardinality(L)
<1>1. /\ IsFiniteSet(R1) /\ Cardinality(R1) <= Cardinality(R)
      /\ Cardinality(R1) = Cardinality(R) => R1 = R
  BY FS_Subset
<1>2. /\ IsFiniteSet(W1) /\ Cardinality(W1) <= Cardinality(W)
      /\ Cardinality(W1) = Cardinality(W) => W1 = W
  BY FS_Subset
<1>3. /\ Cardinality(R) \in Nat /\ Cardinality(W) \in Nat /\ Cardinality(L) \in Nat
      /\ Cardinality(R1) \in Nat /\ Cardinality(W1) \in Nat
  BY <1>1, <1>2, FS_CardinalityType
<1>4. QED
  BY <1>1, <1>2, <1>3

LEMMA Finite ==
  ASSUME TypeOK
  PROVE
  /\ IsFiniteSet(ToRead) /\ IsFiniteSet(ToWriteTo) /\ IsFiniteSet(ToAccept)
  /\ ReadyAccounted <=>
       (pc \in {"read", "write"} =>
          nset >= Cardinality(ToRead) + Cardinality(ToWriteTo) + Cardinality(ToAccept))
<1>1. ASSUME NEW S, NEW first \in Int PROVE IsFiniteSet(Pending(S, first))
  <2>1. IsFiniteSet(first .. MaxClients)
    BY Numbers, FS_Interval
  <2>2. Pending(S, first) \in SUBSET (first .. MaxClients)
    BY DEF Pending
  <2>3. QED
    BY <2>1, <2>2, FS_Subset
<1>2. i \in Int /\ i + 1 \in Int
  BY Numbers DEF TypeOK
<1>3. IsFiniteSet(ToRead) /\ IsFiniteSet(ToWriteTo)
  BY <1>1, <1>2 DEF ToRead, ToWriteTo
<1>4. IsFiniteSet(ToAccept)
  <2>1. ToAccept \in SUBSET {ListenFd} /\ IsFiniteSet({ListenFd})
    BY FS_Singleton DEF ToAccept
  <2>2. QED
    BY <2>1, FS_Subset
<1>5. ReadyAccounted <=>
       (pc \in {"read", "write"} =>
          nset >= Cardinality(ToRead) + Cardinality(ToWriteTo) + Cardinality(ToAccept))
  BY DEF ReadyAccounted, ToRead, ToWriteTo, ToAccept
<1>6. QED
  BY <1>3, <1>4, <1>5

(* A step of a pass: the clients in the slots X are closed, the others keep *)
(* their descriptors, and the scan goes on to the writing of the same       *)
(* client or to the next one, with one less to serve if it was ready.       *)
Fd(s) == clients[s].fd
Closes(X) ==
  /\ X \in SUBSET {s \in Slots : Used(s)}
  /\ clients' \in [Slots -> Client]
  /\ \A s \in Slots : clients'[s].fd = IF s \in X THEN NoFd ELSE Fd(s)
  /\ net' \in [Fds -> {"closed", "idle", "data", "eof"}]
  /\ \A f \in Fds : net'[f] = "closed" <=> net[f] = "closed" \/ f \in {Fd(s) : s \in X}
  /\ m_rfds' = m_rfds \ {Fd(s) : s \in X}
  /\ m_wfds' = {Fd(s) : s \in {s \in Slots \ X : Used(s) /\ clients'[s].q > 0}}
Advances ==
  \/ pc' = "read" /\ i' = i + 1 /\ i \in Slots
  \/ pc = "read" /\ pc' = "write" /\ i' = i /\ i \in Slots /\ Used(i)'
Serves ==
  \/ nset' = nset
  \/ nset' = nset - 1 /\ Used(i) /\ Fd(i) \in rfds /\ pc = "read"
  \/ nset' = nset - 1 /\ Used(i) /\ Fd(i) \in wfds /\ pc = "write"
InPass == pc \in {"read", "write"} /\ UNCHANGED <<rfds, wfds, maxfd, since, backlog>>

(* The sets stay exact when the clients in X are closed.                    *)
LEMMA ClosingExact ==
  ASSUME TypeOK, MasterSetsExact, NEW X, Closes(X)
  PROVE  MasterSetsExact' /\ m_rfds' \subseteq m_rfds /\ m_wfds' \subseteq Fds
<1>1. \A s \in Slots : Used(s)' <=> Used(s) /\ s \notin X
  BY DEF Closes, Used, Fd
<1>2. \A s \in Slots : Used(s) => Fd(s) \in Fds
  BY DEF TypeOK, Used, Fd, Client
<1>3. X \subseteq Slots /\ \A s \in X : Used(s)
  BY DEF Closes
<1>4. \A s, t \in Slots : Used(s) /\ Fd(s) = Fd(t) => s = t
  BY DEF MasterSetsExact, Fd
<1>5. \A s \in Slots : Used(s)' => clients'[s].fd = Fd(s)
  BY <1>1 DEF Closes
<1>6. Owned = {Fd(s) : s \in {s \in Slots : Used(s)}}
  BY DEF Owned, Fd
<1>7. Owned' = {Fd(s) : s \in {s \in Slots : Used(s) /\ s \notin X}}
  BY <1>1, <1>5 DEF Owned
<1>8. Owned' = Owned \ {Fd(s) : s \in X}
  BY <1>3, <1>4, <1>6, <1>7
<1>9. Owned' = {f \in Fds : net'[f] # "closed"}
  BY <1>8 DEF Closes, MasterSetsExact
<1>10. \A s, t \in Slots : Used(s)' /\ clients'[s].fd = clients'[t].fd => s = t
  <2>1. SUFFICES ASSUME NEW s \in Slots, NEW t \in Slots, Used(s)', clients'[s].fd = clients'[t].fd
                 PROVE  s = t
    OBVIOUS
  <2>2. Used(t)'
    BY <2>1 DEF Used
  <2>3. QED
    BY <1>1, <1>4, <1>5, <2>1, <2>2
<1>11. ListenFd \notin {Fd(s) : s \in X}
  BY <1>2, <1>3, Numbers
<1>12. m_rfds' = {ListenFd} \cup Owned'
  BY <1>8, <1>11 DEF Closes, MasterSetsExact
<1>13. m_wfds' = {clients'[s].fd : s \in {s \in Slots : Used(s)' /\ clients'[s].q > 0}}
  BY <1>1, <1>5 DEF Closes
<1>14. m_wfds' \subseteq Fds
  BY <1>2 DEF Closes
<1>15. MasterSetsExact'
  BY <1>9, <1>10, <1>12, <1>13 DEF MasterSetsExact
<1>16. QED
  BY <1>14, <1>15 DEF Closes

LEMMA Pass ==
  ASSUME Inv, InPass, NEW X, Closes(X), Advances, Serves,
         \A s \in Slots \ X : s # i \/ pc = "read" => clients'[s].q >= clients[s].q
  PROVE  Inv'
<1>1. TypeOK /\ MasterSetsExact
  BY DEF Inv
<1>2. MasterSetsExact' /\ m_rfds' \subseteq m_rfds /\ m_wfds' \subseteq Fds
  BY <1>1, ClosingExact
<1>3. pc' \in {"read", "write"} /\ i' \in 1 .. MaxClients + 1 /\ i \in Slots
  BY <1>1, Numbers DEF Advances, TypeOK, Slots
<1>4. \A s \in Slots : Used(s)' => Used(s) /\ s \notin X /\ clients'[s].fd = Fd(s)
  BY DEF Closes, Used, Fd
<1>5. i \in Nat /\ nset \in Nat /\ \A s \in Slots : s \in Nat
  BY <1>1, Numbers DEF TypeOK
<1>6. nset' \in Nat /\ ReadyAccounted'
  <2>1. ToRead' \in SUBSET ToRead
    <3>1. rfds' = rfds
      BY DEF InPass
    <3>2. (IF pc = "read" THEN i ELSE i + 1)' >= (IF pc = "read" THEN i ELSE i + 1)
      BY <1>5 DEF Advances, InPass
    <3>3. \A s : s \in ToRead' => s \in ToRead
      BY <1>3, <1>4, <1>5, <3>1, <3>2 DEF ToRead, Pending, Fd, Slots
    <3>4. QED
      BY <3>3
  <2>2. ToWriteTo' \in SUBSET ToWriteTo
    <3>1. wfds' = wfds /\ i' >= i
      BY <1>5 DEF InPass, Advances
    <3>2. \A s : s \in ToWriteTo' => s \in ToWriteTo
      BY <1>3, <1>4, <1>5, <3>1 DEF ToWriteTo, Pending, Fd, Slots
    <3>3. QED
      BY <3>2
  <2>3. ToAccept' = ToAccept
    BY DEF ToAccept, InPass
  <2>4. nset' = nset \/ (nset' = nset - 1 /\ (ToRead' # ToRead \/ ToWriteTo' # ToWriteTo))
    <3>1. CASE pc = "read" /\ Used(i) /\ Fd(i) \in rfds
      <4>1. i \in ToRead
        BY <1>3, <1>5, <3>1 DEF ToRead, Pending, Slots, Fd
      <4>2. i \notin ToRead'
        BY <1>5, <3>1 DEF ToRead, Pending, Advances
      <4>3. QED
        BY <3>1, <4>1, <4>2 DEF Serves
    <3>2. CASE pc = "write" /\ Used(i) /\ Fd(i) \in wfds
      <4>1. i \in ToWriteTo
        BY <1>3, <1>5, <3>2 DEF ToWriteTo, Pending, Slots, Fd
      <4>2. i \notin ToWriteTo'
        BY <1>5, <3>2 DEF ToWriteTo, Pending, Advances
      <4>3. QED
        BY <3>2, <4>1, <4>2 DEF Serves
    <3>3. QED
      BY <3>1, <3>2 DEF Serves
  <2>5. /\ IsFiniteSet(ToRead) /\ IsFiniteSet(ToWriteTo) /\ IsFiniteSet(ToAccept)
        /\ nset >= Cardinality(ToRead) + Cardinality(ToWriteTo) + Cardinality(ToAccept)
    BY <1>1, Finite DEF Inv, InPass
  <2>6. /\ nset' \in Nat
        /\ nset' >= Cardinality(ToRead') + Cardinality(ToWriteTo') + Cardinality(ToAccept')
    BY <1>5, <2>1, <2>2, <2>3, <2>4, <2>5, Countdown
  <2>7. QED
    BY <2>6 DEF ReadyAccounted, ToRead, ToWriteTo, ToAccept
<1>7. TypeOK'
  BY <1>1, <1>2, <1>3, <1>6 DEF TypeOK, InPass, Closes
<1>8. Ahead'
  <2>1. SUFFICES ASSUME NEW s \in Slots, s >= i', Used(s)', clients'[s].fd \in wfds'
                 PROVE  clients'[s].q > 0
    BY DEF Ahead
  <2>2. Used(s) /\ s \notin X /\ Fd(s) \in wfds /\ s >= i
    BY <1>4, <1>5, <2>1 DEF InPass, Advances
  <2>3. clients[s].q > 0
    BY <2>1, <2>2 DEF Inv, Ahead, InPass, Fd
  <2>4. s # i \/ pc = "read"
    BY <1>5, <2>1 DEF Advances
  <2>5. clients'[s].q \in Nat /\ clients[s].q \in Nat
    BY <1>1, Numbers DEF TypeOK, Closes, Client
  <2>6. QED
    BY <2>2, <2>3, <2>4, <2>5
<1>9. AtClient'
  BY DEF AtClient, Advances
<1>10. Covered'
  <2>1. m_rfds' \cup m_wfds' \subseteq m_rfds'
    BY <1>2 DEF MasterSetsExact, Owned
  <2>2. QED
    BY <1>2, <2>1 DEF Inv, Covered, InPass
<1>11. QED
  BY <1>2, <1>6, <1>7, <1>8, <1>9, <1>10 DEF Inv

-----------------------------------------------------------------------------
(* The steps of a pass *)

NetStates == {"closed", "idle", "data", "eof"}

LEMMA Here ==
  ASSUME Inv, pc \in {"read", "write"}, pc = "read" => InLoop
  PROVE  i \in Slots /\ clients[i] \in Client
BY Numbers DEF Inv, TypeOK, AtClient, InLoop, Slots

(* The scan goes on and the sockets stay as they are.                       *)
LEMMA Skipping ==
  ASSUME Inv, InPass, UNCHANGED <<array, nset>>, Advances
  PROVE  Inv'
<1>1. UNCHANGED <<clients, m_rfds, m_wfds, net>>
  BY DEF array
<1>2. Closes({})
  BY <1>1 DEF Closes, Inv, TypeOK, MasterSetsExact, Fd, Used
<1>3. \A s \in Slots : clients'[s].q >= clients[s].q
  BY <1>1, Numbers DEF Inv, TypeOK, Client
<1>4. QED
  BY <1>2, <1>3, Pass DEF Serves

LEMMA NotServed ==
  ASSUME Inv, SkipUnused \/ NotReadable \/ NotWritable
  PROVE  Inv'
<1>1. InPass /\ UNCHANGED <<array, nset>>
  BY DEF SkipUnused, NotReadable, NotWritable, InPass, Rest
<1>2. i \in Slots
  BY Here DEF SkipUnused, NotReadable, NotWritable
<1>3. Advances
  BY <1>2 DEF SkipUnused, NotReadable, NotWritable, NextSlot, ToWrite, Advances, Used, array
<1>4. QED
  BY <1>1, <1>3, Skipping

(* The connection of client i is closed.                                    *)
LEMMA Ending == ASSUME Inv, ReadEnds \/ WriteEnds PROVE Inv'
<1>1. pc \in {"read", "write"} /\ i \in Slots /\ Used(i)
  BY Here DEF ReadEnds, WriteEnds, Reads, Writes, Inv, AtClient
<1>2. /\ InPass /\ Advances /\ Serves
      /\ Closing({i}, clients, net) /\ m_wfds' = m_wfds \ {Fd(i)}
  BY <1>1 DEF ReadEnds, WriteEnds, Reads, Writes, InPass, Advances, Serves, NextSlot, Rest, Fd
<1>3. Unused \in Client /\ Unused.fd = NoFd
  BY Numbers DEF Unused, Client
<1>4. /\ clients' \in [Slots -> Client]
      /\ \A s \in Slots : clients'[s] = IF s = i THEN Unused ELSE clients[s]
  BY <1>2, <1>3 DEF Closing, Inv, TypeOK
<1>5. {Fd(s) : s \in {i}} = {Fd(i)} /\ {clients[s].fd : s \in {i}} = {Fd(i)}
  BY DEF Fd
<1>6. m_wfds' = {Fd(s) : s \in {s \in Slots \ {i} : Used(s) /\ clients'[s].q > 0}}
  BY <1>1, <1>2, <1>4 DEF Inv, MasterSetsExact, Fd
<1>7. /\ net' \in [Fds -> {"closed", "idle", "data", "eof"}]
      /\ \A f \in Fds : net'[f] = "closed" <=> net[f] = "closed" \/ f = Fd(i)
  BY <1>2, <1>5 DEF Closing, Inv, TypeOK
<1>8. Closes({i})
  BY <1>1, <1>2, <1>3, <1>4, <1>5, <1>6, <1>7 DEF Closes, Closing, Fd
<1>9. \A s \in Slots \ {i} : clients'[s].q >= clients[s].q
  BY <1>4, Numbers DEF Inv, TypeOK, Client
<1>10. QED
  BY <1>2, <1>8, <1>9, Pass

(* Client i stays, as k.                                                    *)
LEMMA Keeping ==
  ASSUME Inv, InPass, Advances, Serves, i \in Slots, Used(i),
         NEW k \in Client, k.fd = Fd(i), clients' = [clients EXCEPT ![i] = k],
         pc = "read" => k.q >= clients[i].q,
         UNCHANGED m_rfds, net' \in [Fds -> NetStates],
         \A f \in Fds : net'[f] = "closed" <=> net[f] = "closed",
         m_wfds' = IF k.q > 0 THEN m_wfds \cup {Fd(i)} ELSE m_wfds \ {Fd(i)}
  PROVE  Inv'
<1>1. /\ clients' \in [Slots -> Client]
      /\ \A s \in Slots : clients'[s] = IF s = i THEN k ELSE clients[s]
  BY DEF Inv, TypeOK
<1>2. \A s \in Slots : clients'[s].fd = Fd(s)
  BY <1>1 DEF Fd
<1>3. m_wfds' = {Fd(s) : s \in {s \in Slots \ {} : Used(s) /\ clients'[s].q > 0}}
  <2>1. m_wfds = {Fd(s) : s \in {s \in Slots : Used(s) /\ clients[s].q > 0}}
    BY DEF Inv, MasterSetsExact, Fd
  <2>2. \A s \in Slots : Used(s) /\ Fd(s) = Fd(i) => s = i
    BY DEF Inv, MasterSetsExact, Fd
  <2>3. CASE k.q > 0
    BY <1>1, <2>1, <2>3
  <2>4. CASE ~(k.q > 0)
    BY <1>1, <2>1, <2>2, <2>4
  <2>5. QED
    BY <2>3, <2>4
<1>4. Closes({})
  BY <1>1, <1>2, <1>3 DEF Closes, NetStates
<1>5. \A s \in Slots : s # i \/ pc = "read" => clients'[s].q >= clients[s].q
  BY <1>1, Numbers DEF Inv, TypeOK, Client
<1>6. QED
  BY <1>4, <1>5, Pass

(* A client is watched for writing as long as its queue is not empty.       *)
LEMMA Watching ==
  ASSUME Inv, i \in Slots, Used(i)
  PROVE  m_wfds = IF clients[i].q > 0 THEN m_wfds \cup {Fd(i)} ELSE m_wfds \ {Fd(i)}
BY DEF Inv, MasterSetsExact, Fd

LEMMA PreparedIs ==
  ASSUME Inv, i \in Slots
  PROVE  /\ Prepared \in Client /\ Prepared.fd = Fd(i) /\ Prepared.q = clients[i].q
         /\ Prepared.rb \in {"header", "payload"}
<1>1. clients[i] \in Client
  BY DEF Inv, TypeOK
<1>2. /\ Resync(clients[i]) \in Client /\ Resync(clients[i]).fd = Fd(i)
      /\ Resync(clients[i]).q = clients[i].q
  BY <1>1 DEF Resync, Client, Fd
<1> DEFINE k == Resync(clients[i])
           begun == [k EXCEPT !.rb = IF @ = "none" THEN "header" ELSE @, !.age = 0]
<1>3. begun = Prepared
  BY DEF Prepared
<1> HIDE DEF k
<1>4. k \in Client /\ k.fd = Fd(i) /\ k.q = clients[i].q
  BY <1>2 DEF k
<1>5. begun \in Client /\ begun.fd = Fd(i) /\ begun.q = clients[i].q
      /\ begun.rb \in {"header", "payload"}
  <2>1. 0 \in 0 .. AgeMax
    BY Numbers
  <2>2. CASE k.rb = "none"
    <3>1. begun = [k EXCEPT !.rb = "header", !.age = 0]
      BY <2>2
    <3>2. QED
      BY <1>4, <2>1, <3>1 DEF Client
  <2>3. CASE k.rb # "none"
    <3>1. begun = [k EXCEPT !.age = 0] /\ k.rb \in {"header", "payload"}
      BY <1>4, <2>3 DEF Client
    <3>2. QED
      BY <1>4, <2>1, <3>1 DEF Client
  <2>4. QED
    BY <2>2, <2>3
<1>6. QED
  BY <1>3, <1>5

LEMMA Reading ==
  ASSUME Inv, ReadAgain \/ \E phase \in {"header", "payload"} : ReadPart(phase)
  PROVE  Inv'
<1>1. /\ i \in Slots /\ Used(i) /\ Fd(i) \in rfds /\ pc = "read"
      /\ nset' = nset - 1 /\ ToWrite /\ Rest /\ UNCHANGED <<m_rfds, m_wfds>>
  BY Here DEF ReadAgain, ReadPart, Reads, Fd
<1>2. PICK k \in Client : /\ clients' = [clients EXCEPT ![i] = k]
                          /\ k.fd = Fd(i) /\ k.q = clients[i].q
  <2>1. CASE clients' = [clients EXCEPT ![i] = Prepared]
    BY <1>1, <2>1, PreparedIs
  <2>2. CASE \E phase \in {"header", "payload"} :
               clients' = [clients EXCEPT ![i] = [Prepared EXCEPT !.rb = phase]]
    <3>1. PICK phase \in {"header", "payload"} :
               clients' = [clients EXCEPT ![i] = [Prepared EXCEPT !.rb = phase]]
      BY <2>2
    <3>2. LET k == [Prepared EXCEPT !.rb = phase] IN
            k \in Client /\ k.fd = Fd(i) /\ k.q = clients[i].q
      BY <1>1, PreparedIs DEF Client
    <3>3. QED
      BY <3>1, <3>2
  <2>3. QED
    BY <2>1, <2>2 DEF ReadAgain, ReadPart
<1>3. /\ net' \in [Fds -> NetStates]
      /\ \A f \in Fds : net'[f] = "closed" <=> net[f] = "closed"
  <2>1. net \in [Fds -> NetStates] /\ Fd(i) \in Fds
    BY <1>1 DEF Inv, TypeOK, NetStates, Used, Fd, Client
  <2>2. CASE UNCHANGED net
    BY <2>1, <2>2
  <2>3. CASE net[Fd(i)] = "data" /\ net' \in Received
    BY <2>1, <2>3 DEF Received, Fd, NetStates
  <2>4. QED
    BY <2>2, <2>3 DEF ReadAgain, ReadPart, Fd
<1>4. InPass /\ Serves
  BY <1>1 DEF InPass, Serves, Rest
<1>5. Advances
  <2>1. Used(i)'
    BY <1>1, <1>2 DEF Used, Fd, Inv, TypeOK, ToWrite
  <2>2. QED
    BY <1>1, <2>1 DEF Advances, ToWrite
<1>6. clients[i].q \in Nat
  BY <1>1, Numbers DEF Inv, TypeOK, Client
<1>7. m_wfds' = IF k.q > 0 THEN m_wfds \cup {Fd(i)} ELSE m_wfds \ {Fd(i)}
  BY <1>1, <1>2, Watching
<1>8. k.q >= clients[i].q
  BY <1>2, <1>6
<1>9. QED
  BY <1>1, <1>2, <1>3, <1>4, <1>5, <1>7, <1>8, Keeping

LEMMA Writing == ASSUME Inv, WritePart \/ WriteMessage PROVE Inv'
<1>1. /\ i \in Slots /\ Used(i) /\ Fd(i) \in wfds /\ pc = "write"
      /\ nset' = nset - 1 /\ NextSlot /\ Rest /\ UNCHANGED <<m_rfds, net>>
  BY Here DEF WritePart, WriteMessage, Writes, Fd, Inv, AtClient
<1>2. clients[i] \in Client /\ 0 \in 0 .. AgeMax /\ clients[i].q \in 0 .. QueueMax
  BY <1>1, Numbers DEF Inv, TypeOK, Client
<1>3. PICK k \in Client :
        /\ clients' = [clients EXCEPT ![i] = k]
        /\ k.fd = Fd(i)
        /\ m_wfds' = IF k.q > 0 THEN m_wfds \cup {Fd(i)} ELSE m_wfds \ {Fd(i)}
  <2>1. CASE WritePart
    <3>1. LET k == [clients[i] EXCEPT !.age = 0] IN
            /\ clients' = [clients EXCEPT ![i] = k]
            /\ k \in Client /\ k.fd = Fd(i) /\ k.q = clients[i].q
      BY <1>1, <1>2, <2>1 DEF WritePart, Fd, Client, Inv, TypeOK
    <3>2. QED
      BY <1>1, <2>1, <3>1, Watching DEF WritePart
  <2>2. CASE WriteMessage
    <3>1. LET k == [clients[i] EXCEPT !.age = 0, !.q = @ - 1] IN
            /\ clients' = [clients EXCEPT ![i] = k]
            /\ k \in Client /\ k.fd = Fd(i) /\ k.q = clients[i].q - 1
      BY <1>1, <1>2, <2>2, Numbers DEF WriteMessage, Fd, Client, Inv, TypeOK
    <3>2. m_wfds' = IF clients[i].q - 1 > 0 THEN m_wfds \cup {Fd(i)} ELSE m_wfds \ {Fd(i)}
      BY <1>1, <1>2, <2>2, Watching DEF WriteMessage, Fd
    <3>3. QED
      BY <3>1, <3>2
  <2>3. QED
    BY <2>1, <2>2
<1>4. InPass /\ Serves /\ Advances
  BY <1>1 DEF InPass, Serves, Rest, Advances, NextSlot
<1>5. net' \in [Fds -> NetStates] /\ \A f \in Fds : net'[f] = "closed" <=> net[f] = "closed"
  BY <1>1 DEF Inv, TypeOK, NetStates
<1>6. QED
  BY <1>1, <1>3, <1>4, <1>5, Keeping

(* A message is handled: some clients get an answer, some are closed.       *)
LEMMA Processing ==
  ASSUME Inv, NEW target \in SUBSET {s \in Slots : Used(s)},
         NEW kicked \in SUBSET {s \in Slots \ {i} : Used(s)},
         target \cap kicked = {}, ReadMessage(target, kicked)
  PROVE  Inv'
<1> DEFINE read == [clients EXCEPT ![i] = [Prepared EXCEPT !.rb = "none"]]
           sent == [s \in Slots |-> IF s \in target THEN [read[s] EXCEPT !.q = @ + 1]
                                                    ELSE read[s]]
<1>1. /\ i \in Slots /\ Used(i) /\ Fd(i) \in rfds /\ pc = "read"
      /\ net[Fd(i)] = "data" /\ nset' = nset - 1 /\ ToWrite /\ Rest
      /\ \A s \in target : clients[s].q < QueueMax
      /\ m_wfds' = (m_wfds \cup {Fd(s) : s \in target}) \ {Fd(s) : s \in kicked}
  BY Here DEF ReadMessage, Reads, Fd
<1>2. PICK n \in Received : Closing(kicked, sent, n)
  BY DEF ReadMessage
<1>3. /\ read \in [Slots -> Client]
      /\ \A s \in Slots : read[s].fd = Fd(s) /\ read[s].q = clients[s].q
  <2>1. [Prepared EXCEPT !.rb = "none"] \in Client
        /\ [Prepared EXCEPT !.rb = "none"].fd = Fd(i)
        /\ [Prepared EXCEPT !.rb = "none"].q = clients[i].q
    BY <1>1, PreparedIs DEF Client
  <2>2. QED
    BY <1>1, <2>1 DEF Inv, TypeOK, Fd
<1> HIDE DEF read
<1>4. /\ sent \in [Slots -> Client]
      /\ \A s \in Slots : /\ sent[s].fd = Fd(s)
                          /\ sent[s].q = IF s \in target THEN clients[s].q + 1 ELSE clients[s].q
  <2>1. ASSUME NEW s \in Slots
        PROVE  /\ sent[s] \in Client /\ sent[s].fd = Fd(s)
               /\ sent[s].q = IF s \in target THEN clients[s].q + 1 ELSE clients[s].q
    <3>1. read[s] \in Client /\ read[s].q = clients[s].q /\ read[s].fd = Fd(s)
      BY <1>3
    <3>2. CASE s \in target
      <4>1. sent[s] = [read[s] EXCEPT !.q = @ + 1] /\ read[s].q + 1 \in 0 .. QueueMax
        BY <1>1, <3>1, <3>2, Numbers DEF Client
      <4>2. QED
        BY <3>1, <3>2, <4>1 DEF Client
    <3>3. CASE s \notin target
      BY <3>1, <3>3
    <3>4. QED
      BY <3>2, <3>3
  <2>2. QED
    BY <2>1
<1> HIDE DEF sent
<1>5. Unused \in Client /\ Unused.fd = NoFd
  BY Numbers DEF Unused, Client
<1>6. {sent[s].fd : s \in kicked} = {Fd(s) : s \in kicked}
  BY <1>4
<1>7. /\ clients' \in [Slots -> Client]
      /\ \A s \in Slots : clients'[s] = IF s \in kicked THEN Unused ELSE sent[s]
      /\ m_rfds' = m_rfds \ {Fd(s) : s \in kicked}
      /\ net' = [f \in Fds |-> IF f \in {Fd(s) : s \in kicked} THEN "closed" ELSE n[f]]
  BY <1>2, <1>4, <1>5, <1>6 DEF Closing
<1>8. \A s \in Slots : clients[s].q \in Nat
  BY Numbers DEF Inv, TypeOK, Client
<1>9. m_wfds' = {Fd(s) : s \in {s \in Slots \ kicked : Used(s) /\ clients'[s].q > 0}}
  <2>1. m_wfds = {Fd(s) : s \in {s \in Slots : Used(s) /\ clients[s].q > 0}}
    BY DEF Inv, MasterSetsExact, Fd
  <2>2. \A s, t \in Slots : Used(s) /\ Fd(s) = Fd(t) => s = t
    BY DEF Inv, MasterSetsExact, Fd
  <2>3. \A s \in Slots \ kicked : clients'[s].q > 0 <=> clients[s].q > 0 \/ s \in target
    BY <1>4, <1>7, <1>8
  <2>4. QED
    BY <1>1, <2>1, <2>2, <2>3
<1>10. /\ net' \in [Fds -> {"closed", "idle", "data", "eof"}]
       /\ \A f \in Fds : net'[f] = "closed" <=> net[f] = "closed" \/ f \in {Fd(s) : s \in kicked}
  <2>1. net \in [Fds -> NetStates] /\ Fd(i) \in Fds
    BY <1>1 DEF Inv, TypeOK, NetStates, Used, Fd, Client
  <2>2. n \in [Fds -> NetStates] /\ \A f \in Fds : n[f] = "closed" <=> net[f] = "closed"
    BY <1>1, <2>1 DEF Received, Fd, NetStates
  <2>3. QED
    BY <1>7, <2>2 DEF NetStates
<1>11. \A s \in Slots : clients'[s].fd = IF s \in kicked THEN NoFd ELSE Fd(s)
  BY <1>4, <1>5, <1>7
<1>12. Closes(kicked)
  BY <1>7, <1>9, <1>10, <1>11 DEF Closes
<1>13. InPass /\ Serves
  BY <1>1 DEF InPass, Serves, Rest
<1>14. Advances
  <2>1. Used(i)'
    BY <1>1, <1>11 DEF Used, Fd, ToWrite
  <2>2. QED
    BY <1>1, <2>1 DEF Advances, ToWrite
<1>15. \A s \in Slots \ kicked : clients'[s].q >= clients[s].q
  BY <1>4, <1>7, <1>8
<1>16. QED
  BY <1>12, <1>13, <1>14, <1>15, Pass

LEMMA Messages == ASSUME Inv, Process PROVE Inv'
<1>1. CASE \E target \in {{}} \cup {{s} : s \in {s \in Slots : Used(s)}} : ReadMessage(target, {})
  <2>1. PICK target \in {{}} \cup {{s} : s \in {s \in Slots : Used(s)}} : ReadMessage(target, {})
    BY <1>1
  <2>2. target \in SUBSET {s \in Slots : Used(s)}
    OBVIOUS
  <2>3. QED
    BY <2>1, <2>2, Processing
<1>2. CASE \E kicked \in SUBSET {s \in Slots \ {i} : Used(s)} : ReadMessage({i}, kicked)
  <2>1. PICK kicked \in SUBSET {s \in Slots \ {i} : Used(s)} : ReadMessage({i}, kicked)
    BY <1>2
  <2>2. i \in Slots /\ Used(i)
    BY <2>1, Here DEF ReadMessage, Reads
  <2>3. {i} \in SUBSET {s \in Slots : Used(s)} /\ {i} \cap kicked = {}
    BY <2>2
  <2>4. QED
    BY <2>1, <2>3, Processing
<1>3. QED
  BY <1>1, <1>2 DEF Process

-----------------------------------------------------------------------------
(* The steps between passes *)

LEMMA SameArray ==
  ASSUME Inv, UNCHANGED <<clients, m_rfds, m_wfds>>,
         \A f \in Fds : net'[f] = "closed" <=> net[f] = "closed"
  PROVE  MasterSetsExact'
BY DEF Inv, MasterSetsExact, Owned, Used

LEMMA Elsewhere ==
  ASSUME pc' \notin {"read", "write"}, TypeOK', MasterSetsExact', Covered'
  PROVE  Inv'
BY DEF Inv, ReadyAccounted, Ahead, AtClient

LEMMA Waiting ==
  ASSUME Inv, NotYet \/ NothingReady \/ HandleDone
  PROVE  Inv'
<1>1. /\ UNCHANGED <<clients, m_rfds, m_wfds, net, i, nset, rfds, wfds, maxfd, since, backlog>>
      /\ pc' \in {"upkeep", "select", "accept"}
  BY DEF NotYet, NothingReady, HandleDone, array, frame
<1>2. TypeOK'
  BY <1>1 DEF Inv, TypeOK
<1>3. MasterSetsExact'
  BY <1>1, SameArray
<1>4. Covered'
  BY <1>1 DEF Inv, Covered, NotYet, NothingReady, HandleDone
<1>5. QED
  BY <1>1, <1>2, <1>3, <1>4, Elsewhere

(* Each ready descriptor is that of one client, or the listening socket.    *)
LEMMA Selecting == ASSUME Inv, Select PROVE Inv'
<1>1. /\ UNCHANGED <<clients, m_rfds, m_wfds, net, maxfd, since, backlog>>
      /\ pc' = "read" /\ i' = 1 /\ nset' = Cardinality(rfds') + Cardinality(wfds')
      /\ wfds' \subseteq m_wfds
  BY DEF Select, array, Watched
<1>2. rfds' \subseteq {ListenFd} \cup Fds
  BY DEF Select, Watched, Inv, TypeOK, Readable
<1>3. wfds' \subseteq Fds
  BY <1>1 DEF Inv, TypeOK
<1>4. IsFiniteSet(rfds') /\ IsFiniteSet(wfds')
  <2>1. IsFiniteSet({ListenFd} \cup Fds)
    BY Numbers, FS_AddElement
  <2>2. rfds' \in SUBSET ({ListenFd} \cup Fds) /\ wfds' \in SUBSET Fds
    BY <1>2, <1>3
  <2>3. QED
    BY <2>1, <2>2, Numbers, FS_Subset
<1>5. Cardinality(rfds') \in Nat /\ Cardinality(wfds') \in Nat
  BY <1>4, FS_CardinalityType
<1>6. TypeOK'
  BY <1>1, <1>2, <1>3, <1>5, Numbers DEF Inv, TypeOK
<1>7. MasterSetsExact'
  BY <1>1, SameArray
<1>8. ASSUME NEW S, IsFiniteSet(S)
      PROVE  /\ IsFiniteSet(Pending(S, 1))
             /\ Cardinality(Pending(S, 1)) <= Cardinality(S \ {ListenFd})
  <2> DEFINE R == Pending(S, 1)
             fd == [s \in R |-> Fd(s)]
  <2>1. R \subseteq Slots /\ \A s \in R : Used(s) /\ Fd(s) \in S /\ Fd(s) \in Fds
    BY DEF Pending, Slots, Fd, Used, Inv, TypeOK, Client
  <2>2. \A s, t \in R : Fd(s) = Fd(t) => s = t
    BY <2>1 DEF Inv, MasterSetsExact, Fd
  <2>3. fd \in Injection(R, S \ {ListenFd})
    BY <2>1, <2>2, Numbers DEF Injection, IsInjective
  <2>4. IsFiniteSet(S \ {ListenFd})
    BY <1>8, FS_RemoveElement
  <2>5. QED
    BY <2>3, <2>4, FS_Injection
<1>9. ReadyAccounted'
  <2>1. Pending(rfds, 1)' = Pending(rfds', 1) /\ Pending(wfds, 1)' = Pending(wfds', 1)
    BY <1>1 DEF Pending, Used
  <2>2. Cardinality(rfds' \ {ListenFd}) + Cardinality(rfds' \cap {ListenFd}) = Cardinality(rfds')
    <3>1. CASE ListenFd \in rfds'
      <4>1. rfds' \cap {ListenFd} = {ListenFd} /\ Cardinality({ListenFd}) = 1
        BY <3>1, FS_Singleton
      <4>2. Cardinality(rfds' \ {ListenFd}) = Cardinality(rfds') - 1
        BY <1>4, <3>1, FS_RemoveElement
      <4>3. QED
        BY <1>5, <4>1, <4>2
    <3>2. CASE ListenFd \notin rfds'
      <4>1. rfds' \cap {ListenFd} = {} /\ rfds' \ {ListenFd} = rfds'
        BY <3>2
      <4>2. QED
        BY <1>5, <4>1, FS_EmptySet
    <3>3. QED
      BY <3>1, <3>2
  <2>3. wfds' \ {ListenFd} = wfds'
    BY <1>3, Numbers
  <2>4. /\ Cardinality(Pending(rfds', 1)) <= Cardinality(rfds' \ {ListenFd})
        /\ Cardinality(Pending(wfds', 1)) <= Cardinality(wfds')
        /\ Cardinality(Pending(rfds', 1)) \in Nat /\ Cardinality(Pending(wfds', 1)) \in Nat
    BY <1>4, <1>8, <2>3, FS_CardinalityType
  <2>5. /\ Cardinality(rfds' \ {ListenFd}) \in Nat /\ Cardinality(rfds' \cap {ListenFd}) \in Nat
    BY <1>4, FS_RemoveElement, FS_Intersection, FS_CardinalityType
  <2>6. nset' >= Cardinality(Pending(rfds', 1)) + Cardinality(Pending(wfds', 1))
                   + Cardinality(rfds' \cap {ListenFd})
    BY <1>1, <1>5, <2>2, <2>4, <2>5
  <2>7. QED
    BY <1>1, <2>1, <2>6 DEF ReadyAccounted
<1>10. Ahead'
  BY <1>1 DEF Ahead, Inv, MasterSetsExact, Used
<1>11. AtClient' /\ Covered'
  BY <1>1 DEF AtClient, Covered, Inv, Select
<1>12. QED
  BY <1>6, <1>7, <1>9, <1>10, <1>11 DEF Inv

LEMMA NotAccepting ==
  ASSUME Inv, NoAccept \/ AcceptFails \/ AcceptDropped
  PROVE  Inv'
<1>1. /\ UNCHANGED <<clients, m_rfds, m_wfds, net, maxfd, since>> /\ NewPass
      /\ pc = "accept" /\ backlog' \in BOOLEAN
  BY DEF NoAccept, AcceptFails, AcceptDropped, array, Accepts, Inv, TypeOK
<1>2. TypeOK'
  BY <1>1, Numbers DEF Inv, TypeOK, NewPass
<1>3. MasterSetsExact'
  BY <1>1, SameArray
<1>4. Covered'
  BY <1>1 DEF Inv, Covered
<1>5. QED
  BY <1>1, <1>2, <1>3, <1>4, Elsewhere DEF NewPass

LEMMA Accepting == ASSUME Inv, Accept PROVE Inv'
<1> DEFINE s0 == Min(FreeSlots)
<1>1. NewFd \in Fds /\ net[NewFd] = "closed"
  <2>1. FreeFds \in SUBSET Fds /\ FreeFds # {}
    BY DEF FreeFds, Accept
  <2>2. IsFiniteSet(FreeFds) /\ FreeFds \subseteq Int
    <3>1. IsFiniteSet(Fds) /\ Fds \subseteq Int
      BY Numbers
    <3>2. IsFiniteSet(FreeFds)
      BY <2>1, <3>1, FS_Subset
    <3>3. QED
      BY <2>1, <3>1, <3>2
  <2>3. QED
    BY <2>1, <2>2, MinIs DEF NewFd, FreeFds
<1>2. s0 \in Slots /\ ~Used(s0)
  <2>1. FreeSlots \in SUBSET Slots /\ FreeSlots # {}
    BY DEF FreeSlots, Accept
  <2>2. IsFiniteSet(FreeSlots) /\ FreeSlots \subseteq Int
    <3>1. IsFiniteSet(Slots) /\ Slots \subseteq Int
      BY Numbers
    <3>2. IsFiniteSet(FreeSlots)
      BY <2>1, <3>1, FS_Subset
    <3>3. QED
      BY <2>1, <3>1, <3>2
  <2>3. QED
    BY <2>1, <2>2, MinIs DEF FreeSlots
<1>3. /\ clients' = [clients EXCEPT ![s0] = [Unused EXCEPT !.fd = NewFd]]
      /\ m_rfds' = m_rfds \cup {NewFd} /\ m_wfds' = m_wfds /\ since' = since
      /\ net' = [net EXCEPT ![NewFd] = "idle"] /\ backlog' = FALSE /\ NewPass
      /\ maxfd' = Max({maxfd, NewFd}) /\ pc = "accept"
  BY DEF Accept, Accepts
<1> HIDE DEF s0
<1>4. /\ [Unused EXCEPT !.fd = NewFd] \in Client
      /\ [Unused EXCEPT !.fd = NewFd].fd = NewFd /\ [Unused EXCEPT !.fd = NewFd].q = 0
  BY <1>1, Numbers DEF Unused, Client
<1>5. /\ clients' \in [Slots -> Client]
      /\ \A s \in Slots \ {s0} : clients'[s] = clients[s]
      /\ clients'[s0].fd = NewFd /\ clients'[s0].q = 0
  BY <1>2, <1>3, <1>4 DEF Inv, TypeOK
<1>6. /\ \A s \in Slots : Used(s)' <=> Used(s) \/ s = s0
      /\ NewFd # NoFd /\ NewFd \notin Owned
  BY <1>1, <1>5, Numbers DEF Used, Inv, MasterSetsExact
<1>7. maxfd' \in {NoFd, ListenFd} \cup Fds /\ maxfd' >= maxfd /\ maxfd' >= NewFd
  <2>1. maxfd \in Int /\ NewFd \in Int
    BY <1>1, Numbers DEF Inv, TypeOK, NoFd, ListenFd
  <2>2. IsFiniteSet({maxfd, NewFd})
    <3>1. {maxfd, NewFd} = {maxfd} \cup {NewFd}
      OBVIOUS
    <3>2. IsFiniteSet({maxfd})
      BY FS_Singleton
    <3>3. IsFiniteSet({maxfd} \cup {NewFd})
      BY <3>2, FS_AddElement
    <3>4. QED
      BY <3>1, <3>3
  <2>3. maxfd' \in {maxfd, NewFd} /\ \A y \in {maxfd, NewFd} : y <= maxfd'
    BY <1>3, <2>1, <2>2, MaxIs
  <2>4. QED
    BY <1>1, <2>1, <2>3 DEF Inv, TypeOK
<1>8. TypeOK'
  <2>1. TypeOK
    BY DEF Inv
  <2>2. /\ m_rfds' \subseteq {ListenFd} \cup Fds /\ m_wfds' \subseteq Fds
        /\ since' \in 0 .. SelectTimeout + 1 /\ backlog' \in BOOLEAN
    BY <1>1, <1>3, <2>1 DEF TypeOK
  <2>3. net' \in [Fds -> {"closed", "idle", "data", "eof"}]
    BY <1>1, <1>3, <2>1 DEF TypeOK
  <2>4. i' \in 1 .. MaxClients + 1 /\ nset' \in Nat /\ rfds' = {} /\ wfds' = {} /\ pc' = "upkeep"
    BY <1>3, Numbers DEF NewPass
  <2>5. QED
    BY <1>5, <1>7, <2>2, <2>3, <2>4 DEF TypeOK
<1>9. MasterSetsExact'
  <2>1. Owned' = Owned \cup {NewFd}
    BY <1>2, <1>5, <1>6 DEF Owned
  <2>2. {f \in Fds : net'[f] # "closed"} = {f \in Fds : net[f] # "closed"} \cup {NewFd}
    BY <1>1, <1>3 DEF Inv, TypeOK
  <2>3. \A s \in Slots : Used(s) => clients[s].fd \in Owned
    BY DEF Owned
  <2>4. \A s, t \in Slots : Used(s)' /\ clients'[s].fd = clients'[t].fd => s = t
    <3>1. SUFFICES ASSUME NEW s \in Slots, NEW t \in Slots, Used(s)', clients'[s].fd = clients'[t].fd
                   PROVE  s = t
      OBVIOUS
    <3>2. Used(t)'
      BY <3>1 DEF Used
    <3>3. \A x, y \in Slots : Used(x) /\ clients[x].fd = clients[y].fd => x = y
      BY DEF Inv, MasterSetsExact
    <3>4. QED
      BY <1>5, <1>6, <2>3, <3>1, <3>2, <3>3
  <2>5. m_wfds' = {clients'[s].fd : s \in {s \in Slots : Used(s)' /\ clients'[s].q > 0}}
    <3>1. {s \in Slots : Used(s)' /\ clients'[s].q > 0} = {s \in Slots : Used(s) /\ clients[s].q > 0}
      BY <1>2, <1>5, <1>6
    <3>2. \A s \in {s \in Slots : Used(s) /\ clients[s].q > 0} : clients'[s].fd = clients[s].fd
      BY <1>2, <1>5
    <3>3. QED
      BY <1>3, <3>1, <3>2 DEF Inv, MasterSetsExact
  <2>6. QED
    BY <1>3, <2>1, <2>2, <2>4, <2>5 DEF Inv, MasterSetsExact
<1>10. Covered'
  <2>1. \A f \in m_rfds \cup m_wfds : f <= maxfd /\ f \in Int
    BY <1>3, Numbers DEF Inv, Covered, TypeOK, ListenFd
  <2>2. maxfd \in Int /\ maxfd' \in Int
    BY <1>7, Numbers DEF Inv, TypeOK, NoFd, ListenFd
  <2>3. \A f \in m_rfds \cup m_wfds : f <= maxfd'
    BY <1>7, <2>1, <2>2
  <2>4. QED
    BY <1>3, <1>7, <2>3 DEF Covered
<1>11. QED
  BY <1>3, <1>8, <1>9, <1>10, Elsewhere DEF NewPass

-----------------------------------------------------------------------------
(* The peers and the clock *)

LEMMA Happening == ASSUME Inv, Outside PROVE Inv'
<1>1. /\ UNCHANGED <<clients, m_rfds, m_wfds, i, nset, rfds, wfds, maxfd, since, pc>>
      /\ net' \in [Fds -> NetStates] /\ backlog' \in BOOLEAN
      /\ \A f \in Fds : net'[f] = "closed" <=> net[f] = "closed"
  <2>1. net \in [Fds -> NetStates] /\ backlog \in BOOLEAN
    BY DEF Inv, TypeOK, NetStates
  <2>2. CASE Connects
    BY <2>1, <2>2 DEF Connects, array, frame
  <2>3. CASE \E f \in Fds, what \in {"data", "eof"} : Arrives(f, what)
    <3>1. PICK f \in Fds, what \in {"data", "eof"} : Arrives(f, what)
      BY <2>3
    <3>2. net[f] = "idle" /\ net' = [net EXCEPT ![f] = what]
      BY <3>1 DEF Arrives
    <3>3. net' \in [Fds -> NetStates] /\ \A g \in Fds : net'[g] = "closed" <=> net[g] = "closed"
      BY <2>1, <3>1, <3>2 DEF NetStates
    <3>4. QED
      BY <2>1, <3>1, <3>3 DEF Arrives, frame
  <2>4. QED
    BY <2>2, <2>3 DEF Outside
<1>2. TypeOK'
  BY <1>1 DEF Inv, TypeOK, NetStates
<1>3. MasterSetsExact'
  BY <1>1, SameArray
<1>4. ReadyAccounted'
  BY <1>1 DEF Inv, ReadyAccounted, Pending, Used
<1>5. Ahead' /\ AtClient' /\ Covered'
  BY <1>1 DEF Inv, Ahead, AtClient, Covered, Used
<1>6. QED
  BY <1>2, <1>3, <1>4, <1>5 DEF Inv

LEMMA Ticking == ASSUME Inv, Tick PROVE Inv'
<1>1. /\ UNCHANGED <<m_rfds, m_wfds, net, i, nset, rfds, wfds, maxfd, pc, backlog>>
      /\ pc = "select"
      /\ since' = Min({since + 1, SelectTimeout + 1})
      /\ clients' = [s \in Slots |->
           IF Used(s) THEN [clients[s] EXCEPT !.age = Older(@)] ELSE clients[s]]
  BY DEF Tick, frame
<1>2. since' \in 0 .. SelectTimeout + 1
  <2>1. since \in Nat /\ since + 1 \in Int /\ SelectTimeout + 1 \in Int
    BY Numbers DEF Inv, TypeOK
  <2>2. QED
    BY <1>1, <2>1, Least, Numbers
<1>3. ASSUME NEW n \in 0 .. AgeMax PROVE Older(n) \in 0 .. AgeMax
  <2>1. n + 1 \in Int /\ AgeMax \in Int
    BY Numbers
  <2>2. QED
    BY <1>3, <2>1, Least, Numbers DEF Older
<1>4. ASSUME NEW s \in Slots
      PROVE  /\ clients'[s] \in Client
             /\ clients'[s].fd = clients[s].fd /\ clients'[s].q = clients[s].q
  <2>1. clients[s] \in Client
    BY DEF Inv, TypeOK
  <2>2. Older(clients[s].age) \in 0 .. AgeMax
    BY <1>3, <2>1 DEF Client
  <2>3. QED
    BY <1>1, <2>1, <2>2 DEF Client
<1>5. clients' \in [Slots -> Client]
  BY <1>1, <1>4
<1>6. TypeOK'
  BY <1>1, <1>2, <1>5 DEF Inv, TypeOK
<1>7. MasterSetsExact'
  <2>1. \A s \in Slots : Used(s)' <=> Used(s)
    BY <1>4 DEF Used
  <2>2. Owned' = Owned
    BY <1>4, <2>1 DEF Owned
  <2>3. QED
    BY <1>1, <1>4, <2>1, <2>2 DEF Inv, MasterSetsExact
<1>8. Covered'
  BY <1>1 DEF Inv, Covered
<1>9. QED
  BY <1>1, <1>6, <1>7, <1>8, Elsewhere

-----------------------------------------------------------------------------
(* upkeep *)

LEMMA Resynced ==
  ASSUME NEW k \in Client
  PROVE  /\ Resync(k) \in Client /\ Resync(k).fd = k.fd /\ Resync(k).q = k.q
         /\ Gap(k) \/ Resync(k).rb = k.rb
BY DEF Resync, Client

(* Compacting moves each client that is kept to a slot of its own, and      *)
(* leaves no other.                                                         *)
LEMMA Compaction ==
  ASSUME TypeOK, NEW kept \in SUBSET {s \in Slots : Used(s)}
  PROVE  /\ Compacted(kept) \in [Slots -> Client]
         /\ \A t \in kept : /\ Budged(kept, t) \in Slots
                            /\ Compacted(kept)[Budged(kept, t)] = Resync(clients[t])
         /\ \A s \in Slots : Compacted(kept)[s].fd # NoFd =>
              \E t \in kept : s = Budged(kept, t)
<1> DEFINE n == Cardinality(kept)
<1>1. IsFiniteSet(kept) /\ kept \subseteq Int /\ n \in Nat /\ n <= MaxClients
  <2>1. kept \in SUBSET Slots /\ IsFiniteSet(Slots) /\ Slots \subseteq Int
    BY Numbers
  <2>2. Cardinality(Slots) = MaxClients
    BY Numbers, FS_Interval DEF Slots
  <2>3. IsFiniteSet(kept) /\ n <= MaxClients
    BY <2>1, <2>2, FS_Subset
  <2>4. QED
    BY <2>1, <2>3, FS_CardinalityType
<1>2. /\ \A t \in kept : Budged(kept, t) \in 1 .. n
      /\ \A t, u \in kept : Budged(kept, t) = Budged(kept, u) => t = u
      /\ \A s \in 1 .. n : \E t \in kept : Budged(kept, t) = s
  BY <1>1, Ranks
<1> HIDE DEF n
<1>3. \A t \in kept : (CHOOSE u \in kept : Budged(kept, u) = Budged(kept, t)) = t
  BY <1>2
<1>4. 1 .. n \subseteq Slots
  BY <1>1, Numbers DEF Slots
<1>5. \A s \in Slots : s \in 1 .. n <=> s <= n
  BY <1>1, Numbers DEF Slots
<1>6. ASSUME NEW s \in Slots, s \in 1 .. n
      PROVE  \E t \in kept : s = Budged(kept, t) /\ Compacted(kept)[s] = Resync(clients[t])
  BY <1>2, <1>3, <1>5, <1>6 DEF Compacted, n
<1>7. Unused \in Client /\ Unused.fd = NoFd
  BY Numbers DEF Unused, Client
<1>8. ASSUME NEW s \in Slots, s \notin 1 .. n
      PROVE  Compacted(kept)[s] \in Client /\ Compacted(kept)[s].fd = NoFd
  <2>1. ~(s <= n) /\ clients[s] \in Client
    BY <1>5, <1>8 DEF TypeOK
  <2>2. CASE s \in kept
    <3>1. Compacted(kept)[s] = [Resync(clients[s]) EXCEPT !.fd = NoFd, !.age = 0]
      BY <2>1, <2>2 DEF Compacted, n
    <3>2. Resync(clients[s]) \in Client
      BY <2>1, Resynced
    <3>3. ASSUME NEW k \in Client
          PROVE  /\ [k EXCEPT !.fd = NoFd, !.age = 0] \in Client
                 /\ [k EXCEPT !.fd = NoFd, !.age = 0].fd = NoFd
      <4>1. 0 \in 0 .. AgeMax
        BY Numbers
      <4>2. QED
        BY <3>3, <4>1 DEF Client
    <3>4. QED
      BY <3>1, <3>2, <3>3
  <2>3. CASE s \notin kept
    <3>1. Compacted(kept)[s] = IF Used(s) THEN Unused ELSE clients[s]
      BY <2>1, <2>3 DEF Compacted, n
    <3>2. QED
      BY <1>7, <2>1, <3>1 DEF Used
  <2>4. QED
    BY <2>2, <2>3
<1>9. \A s \in Slots : Compacted(kept)[s] \in Client
  <2>1. \A t \in kept : clients[t] \in Client
    BY DEF TypeOK
  <2>2. QED
    BY <1>6, <1>8, <2>1, Resynced
<1>10. Compacted(kept) \in [Slots -> Client]
  <2>1. \A s \in DOMAIN Compacted(kept) : Compacted(kept)[s] = Compacted(kept)[s]
    OBVIOUS
  <2>2. DOMAIN Compacted(kept) = Slots /\ Compacted(kept) = [s \in Slots |-> Compacted(kept)[s]]
    BY DEF Compacted
  <2>3. QED
    BY <1>9, <2>2
<1>11. ASSUME NEW t \in kept
       PROVE  /\ Budged(kept, t) \in Slots
              /\ Compacted(kept)[Budged(kept, t)] = Resync(clients[t])
  BY <1>2, <1>4, <1>6
<1>12. \A s \in Slots : Compacted(kept)[s].fd # NoFd => \E t \in kept : s = Budged(kept, t)
  BY <1>6, <1>8
<1>13. QED
  BY <1>10, <1>11, <1>12

LEMMA Upkeeping == ASSUME Inv, Upkeep PROVE Inv'
<1> DEFINE kept == {s \in Slots : Used(s)} \ Expired
           gone == {clients[s].fd : s \in Expired}
<1>1. /\ clients' = Compacted(kept)
      /\ m_rfds' = m_rfds \ gone /\ m_wfds' = m_wfds \ gone
      /\ net' = [f \in Fds |-> IF f \in gone THEN "closed" ELSE net[f]]
      /\ maxfd' = HighestFd(kept)
      /\ since' = 0 /\ pc' = "select" /\ UNCHANGED <<i, nset, rfds, wfds, backlog>>
  BY DEF Upkeep, frame
<1>2. /\ kept \in SUBSET {s \in Slots : Used(s)} /\ Expired \subseteq {s \in Slots : Used(s)}
      /\ \A s \in Slots : Used(s) => (s \in kept <=> s \notin Expired)
  BY DEF Expired
<1> HIDE DEF kept
<1>3. \A s, t \in Slots : Used(s) /\ clients[s].fd = clients[t].fd => s = t
  BY DEF Inv, MasterSetsExact
<1>4. /\ clients' \in [Slots -> Client]
      /\ \A t \in kept : /\ Budged(kept, t) \in Slots
                         /\ clients'[Budged(kept, t)].fd = clients[t].fd
                         /\ clients'[Budged(kept, t)].q = clients[t].q
      /\ \A s \in Slots : clients'[s].fd # NoFd => \E t \in kept : s = Budged(kept, t)
  <2>1. TypeOK /\ \A t \in kept : clients[t] \in Client
    BY <1>2 DEF Inv, TypeOK
  <2>2. QED
    BY <1>1, <1>2, <2>1, Compaction, Resynced
<1>5. ASSUME NEW s \in Slots, Used(s)'
      PROVE  \E t \in kept : /\ s = Budged(kept, t)
                             /\ clients'[s].fd = clients[t].fd /\ clients'[s].q = clients[t].q
  BY <1>4, <1>5 DEF Used
<1>6. ASSUME NEW t \in kept
      PROVE  \E s \in Slots : /\ Used(s)'
                              /\ clients'[s].fd = clients[t].fd /\ clients'[s].q = clients[t].q
  <2>1. Used(t)
    BY <1>2
  <2>2. PICK s \in Slots : clients'[s].fd = clients[t].fd /\ clients'[s].q = clients[t].q
    BY <1>4
  <2>3. Used(s)'
    BY <2>1, <2>2 DEF Used
  <2>4. QED
    BY <2>2, <2>3
<1>7. Owned' = {clients[t].fd : t \in kept}
  BY <1>5, <1>6 DEF Owned
<1>8. Owned' = Owned \ gone
  BY <1>2, <1>3, <1>7 DEF Owned
<1>9. gone \subseteq Fds
  BY <1>2 DEF Inv, TypeOK, Used, Client
<1> HIDE DEF gone
<1>10. MasterSetsExact'
  <2>1. Owned' = {f \in Fds : net'[f] # "closed"}
    BY <1>1, <1>8 DEF Inv, MasterSetsExact
  <2>2. \A s, t \in Slots : Used(s)' /\ clients'[s].fd = clients'[t].fd => s = t
    <3>1. SUFFICES ASSUME NEW s \in Slots, NEW t \in Slots, Used(s)', clients'[s].fd = clients'[t].fd
                   PROVE  s = t
      OBVIOUS
    <3>2. Used(t)'
      BY <3>1 DEF Used
    <3>3. PICK x \in kept : s = Budged(kept, x) /\ clients'[s].fd = clients[x].fd
      BY <1>5, <3>1
    <3>4. PICK y \in kept : t = Budged(kept, y) /\ clients'[t].fd = clients[y].fd
      BY <1>5, <3>2
    <3>5. x = y
      BY <1>2, <1>3, <3>1, <3>3, <3>4
    <3>6. QED
      BY <3>3, <3>4, <3>5
  <2>3. m_rfds' = {ListenFd} \cup Owned'
    BY <1>1, <1>8, <1>9, Numbers DEF Inv, MasterSetsExact
  <2>4. m_wfds' = {clients'[s].fd : s \in {s \in Slots : Used(s)' /\ clients'[s].q > 0}}
    <3>1. m_wfds = {clients[s].fd : s \in {s \in Slots : Used(s) /\ clients[s].q > 0}}
      BY DEF Inv, MasterSetsExact
    <3>2. m_wfds' = {clients[t].fd : t \in {t \in kept : clients[t].q > 0}}
      BY <1>1, <1>2, <1>3, <3>1 DEF gone
    <3>3. QED
      BY <1>5, <1>6, <3>2
  <2>5. QED
    BY <2>1, <2>2, <2>3, <2>4 DEF MasterSetsExact
<1>11. /\ maxfd' \in {ListenFd} \cup Fds
       /\ \A f \in {ListenFd} \cup Owned' : f <= maxfd'
  <2> DEFINE fds == {ListenFd} \cup {clients[s].fd : s \in kept}
  <2>1. fds = {ListenFd} \cup Owned' /\ Owned' \subseteq Fds
    BY <1>7, <1>8 DEF Inv, MasterSetsExact
  <2>2. IsFiniteSet(Owned')
    BY <2>1, Numbers, FS_Subset
  <2>3. IsFiniteSet(fds)
    <3>1. fds = Owned' \cup {ListenFd}
      BY <2>1
    <3>2. QED
      BY <2>2, <3>1, FS_AddElement
  <2>4. fds \subseteq Int /\ fds # {}
    <3>1. ListenFd \in Int /\ Fds \subseteq Int
      BY Numbers DEF ListenFd
    <3>2. QED
      BY <2>1, <3>1
  <2>5. maxfd' = Max(fds)
    BY <1>1 DEF HighestFd
  <2> HIDE DEF fds
  <2>6. maxfd' \in fds /\ \A f \in fds : f <= maxfd'
    BY <2>3, <2>4, <2>5, MaxIs
  <2>7. QED
    BY <2>1, <2>6
<1>12. TypeOK'
  <2>1. net' \in [Fds -> {"closed", "idle", "data", "eof"}]
    BY <1>1 DEF Inv, TypeOK
  <2>2. since' \in 0 .. SelectTimeout + 1
    BY <1>1, Numbers
  <2>3. QED
    BY <1>1, <1>4, <1>11, <2>1, <2>2 DEF Inv, TypeOK
<1>13. Covered'
  <2>1. m_rfds' = {ListenFd} \cup Owned' /\ m_wfds' \subseteq Owned'
    BY <1>10 DEF MasterSetsExact, Owned
  <2>2. QED
    BY <1>11, <2>1 DEF Covered
<1>14. QED
  BY <1>1, <1>10, <1>12, <1>13, Elsewhere

-----------------------------------------------------------------------------
LEMMA Step == ASSUME Inv, [Next]_vars PROVE Inv'
<1>1. CASE UNCHANGED vars
  BY <1>1 DEF vars, array, frame, Inv, TypeOK, MasterSetsExact, Owned, Used, ReadyAccounted,
              Pending, Ahead, AtClient, Covered
<1>2. CASE Loop
  BY <1>2, Upkeeping, Waiting, Selecting, NotServed, Ending, Reading, Writing, Messages,
     NotAccepting, Accepting DEF Loop
<1>3. CASE Outside \/ Tick
  BY <1>3, Happening, Ticking
<1>4. QED
  BY <1>1, <1>2, <1>3 DEF Next

(* The invariant the proof rests on: the five invariants of the loop need   *)
(* each other, what is still to come of the pass, and a maxfd that holds    *)
(* from the first upkeep on.                                                *)
THEOREM Invariance == Spec => []Inv
BY Initially, Step, PTL DEF Spec

(* The clients array, the master sets and the locals of the loop stay       *)
(* well-formed; the countdown nset of handle_io is never below zero.        *)
THEOREM TypeCorrect == Spec => []TypeOK
BY Invariance, PTL DEF Inv

(* However connections come and go and upkeep moves the clients: each open  *)
(* connection has one slot, is watched for reading, and is watched for      *)
(* writing exactly while messages are queued for it.                        *)
THEOREM SetsExact == Spec => []MasterSetsExact
BY Invariance, PTL DEF Inv

(* handle_io takes the head of no empty queue, although what it does to one *)
(* client may queue a message for, or close, another one.                   *)
THEOREM HeadsThere == Spec => []WriteHasHead
<1>1. Inv => WriteHasHead
  <2>1. SUFFICES ASSUME Inv, pc = "write" PROVE Used(i) /\ (clients[i].fd \in wfds => clients[i].q > 0)
    BY DEF WriteHasHead
  <2>2. i \in Slots /\ Used(i)
    BY <2>1 DEF Inv, AtClient
  <2>3. i >= i
    BY <2>2, Numbers
  <2>4. QED
    BY <2>1, <2>2, <2>3 DEF Inv, Ahead
<1>2. QED
  BY <1>1, Invariance, PTL

(* The maxfd of upkeep and accept_client is large enough whenever select is *)
(* called.                                                                  *)
THEOREM MaxfdRight == Spec => []MaxfdCovers
<1>1. Inv => MaxfdCovers
  BY DEF Inv, Covered, MaxfdCovers
<1>2. QED
  BY <1>1, Invariance, PTL

(* The countdown of handle_io does not end the scan before every ready      *)
(* client has been served, and leaves one for the listening socket.         *)
THEOREM ReadyServed == Spec => []ReadyAccounted
BY Invariance, PTL DEF Inv

(* upkeep closes no client that is not idle for too long, and loses none of *)
(* their queues and half-received messages when it compacts the array.      *)
THEOREM LiveKept == Spec => UpkeepKeepsLive
<1> DEFINE Kept ==
      pc = "upkeep" =>
        \A s \in Slots : Used(s) /\ clients[s].age <= ConnTimeout =>
          \E t \in Slots :
            /\ clients'[t].fd = clients[s].fd /\ clients'[t].q = clients[s].q
            /\ Gap(clients[s]) \/ clients'[t].rb = clients[s].rb
<1>1. ASSUME Inv, Next PROVE Kept
  <2>1. SUFFICES ASSUME pc = "upkeep", NEW s \in Slots, Used(s), clients[s].age <= ConnTimeout
                 PROVE  \E t \in Slots :
                          /\ clients'[t].fd = clients[s].fd /\ clients'[t].q = clients[s].q
                          /\ Gap(clients[s]) \/ clients'[t].rb = clients[s].rb
    OBVIOUS
  <2>2. CASE Upkeep
    <3> DEFINE kept == {t \in Slots : Used(t)} \ Expired
    <3>1. clients' = Compacted(kept) /\ kept \in SUBSET {t \in Slots : Used(t)}
      BY <2>2 DEF Upkeep
    <3>2. s \in kept /\ clients[s] \in Client /\ TypeOK
      <4>1. clients[s] \in Client /\ TypeOK
        BY <1>1 DEF Inv, TypeOK
      <4>2. clients[s].age \in Nat /\ ConnTimeout \in Nat
        BY <4>1, Numbers, TimesAssumption DEF Client
      <4>3. ~(clients[s].age > ConnTimeout)
        BY <2>1, <4>2
      <4>4. QED
        BY <2>1, <4>1, <4>3 DEF Expired
    <3> HIDE DEF kept
    <3>3. /\ Budged(kept, s) \in Slots
          /\ clients'[Budged(kept, s)] = Resync(clients[s])
      BY <3>1, <3>2, Compaction
    <3>4. QED
      BY <3>2, <3>3, Resynced
  <2>3. CASE UNCHANGED clients
    BY <2>1, <2>3
  <2>4. QED
    BY <1>1, <2>1, <2>2, <2>3 DEF Next, Loop, Outside, NotYet, Select, NothingReady, SkipUnused,
       NotReadable, ReadEnds, ReadAgain, Process, ReadMessage, ReadPart, Reads, NotWritable,
       WriteEnds, WritePart, WriteMessage, Writes, HandleDone, NoAccept, AcceptFails,
       AcceptDropped, Accept, Accepts, Connects, Arrives, Tick, array
<1>2. Inv /\ [Next]_vars => [Kept]_vars
  BY <1>1
<1> HIDE DEF Kept
<1>3. Spec => [][Kept]_vars
  BY <1>2, Invariance, PTL DEF Spec
<1>4. QED
  BY <1>3 DEF UpkeepKeepsLive, Kept
=============================================================================
