------------------------------ MODULE SrvLoop -------------------------------
(***************************************************************************)
(* The main loop of the relay server (srvmain.c: main, upkeep, handle_io,  *)
(* accept_client): one process that waits in select(), serves the          *)
(* descriptors it is told are ready, accepts a connection, and now and     *)
(* then throws out idle clients and compacts the clients array.            *)
(*                                                                         *)
(* A message is a header and an optional payload; how many reads they take *)
(* is left open, and what a complete message asks for is reduced to what   *)
(* process_msg does to the sockets: SrvSession has the handlers. Time      *)
(* passes while the process is at its select().                            *)
(***************************************************************************)
EXTENDS Integers, FiniteSets, FiniteSetsExt, Functions

CONSTANTS
  MaxClients,     \* cfg.max_clients
  Sockets,        \* the number of descriptors the kernel gives out
  FdSetSize,      \* FD_SETSIZE
  MsgTimeout,     \* cfg.msg_timeout
  ConnTimeout,    \* cfg.conn_timeout
  SelectTimeout,  \* cfg.select_timeout
  AgeMax,         \* bound: ages above it are not told apart
  QueueMax        \* bound: messages in one send queue (the code has none)

ASSUME SizesAssumption ==
  /\ MaxClients \in Nat \ {0} /\ Sockets \in Nat \ {0} /\ QueueMax \in Nat \ {0}
  /\ FdSetSize \in Nat \ {0}
ASSUME TimesAssumption ==
  /\ {MsgTimeout, ConnTimeout, SelectTimeout, AgeMax} \subseteq Nat
  /\ MsgTimeout < AgeMax

Slots == 1 .. MaxClients
Fds == 1 .. Sockets
ListenFd == 0                    \* the listening socket is the older one
NoFd == -1

(* rb: nothing received; inside a header; a payload is outstanding.         *)
(* age: seconds since act.                                                  *)
Client == [fd : Fds \cup {NoFd}, rb : {"none", "header", "payload"},
           q : 0 .. QueueMax, age : 0 .. AgeMax]
Unused == [fd |-> NoFd, rb |-> "none", q |-> 0, age |-> 0]

VARIABLES
  clients,         \* the clients array
  m_rfds, m_wfds,  \* the master descriptor sets
  maxfd,
  since,           \* seconds since last_upkeep
  pc, i, nset, rfds, wfds,   \* the control point and the locals of the loop
  net,             \* net[f]: closed, or what a read of socket f would find
  backlog          \* a connection waits to be accepted

array == <<clients, m_rfds, m_wfds, net>>
frame == <<i, nset, rfds, wfds>>
vars == <<array, frame, maxfd, since, pc, backlog>>

TypeOK ==
  /\ clients \in [Slots -> Client]
  /\ m_rfds \subseteq {ListenFd} \cup Fds /\ m_wfds \subseteq Fds
  /\ maxfd \in {NoFd, ListenFd} \cup Fds
  /\ since \in 0 .. SelectTimeout + 1
  /\ pc \in {"upkeep", "select", "read", "write", "accept"}
  /\ i \in 1 .. MaxClients + 1 /\ nset \in Nat
  /\ rfds \subseteq {ListenFd} \cup Fds /\ wfds \subseteq Fds
  /\ net \in [Fds -> {"closed", "idle", "data", "eof"}]
  /\ backlog \in BOOLEAN

Used(s) == clients[s].fd # NoFd
Owned == {clients[s].fd : s \in {s \in Slots : Used(s)}}

(* last_upkeep is zero when the loop is entered.                            *)
Init ==
  /\ clients = [s \in Slots |-> Unused]
  /\ m_rfds = {ListenFd} /\ m_wfds = {}
  /\ maxfd = NoFd
  /\ since = SelectTimeout + 1
  /\ pc = "upkeep" /\ i = 1 /\ nset = 0 /\ rfds = {} /\ wfds = {}
  /\ net = [f \in Fds |-> "closed"] /\ backlog = FALSE

-----------------------------------------------------------------------------
(* close_client, for the clients in the slots X, after the array has become *)
(* a and some of what their sockets hold has been read, leaving n.          *)
Closing(X, a, n) ==
  LET gone == {a[s].fd : s \in X} IN
    /\ clients' = [s \in Slots |-> IF s \in X THEN Unused ELSE a[s]]
    /\ m_rfds' = m_rfds \ gone
    /\ net' = [f \in Fds |-> IF f \in gone THEN "closed" ELSE n[f]]

(* resync_client: drop a message that has been begun too long ago.          *)
Gap(k) == k.rb # "none" /\ k.age > MsgTimeout
Resync(k) == IF Gap(k) THEN [k EXCEPT !.rb = "none"] ELSE k

-----------------------------------------------------------------------------
(* upkeep *)

(* The client in slot s goes where the next one is kept: to the first slot  *)
(* not yet taken by one before it. Its old slot keeps everything but the    *)
(* descriptor and the state.                                                *)
Budged(kept, s) == Cardinality({t \in kept : t <= s})

(* Mutant: the slot is given up even where its client stays in it. *)
Compacted_InPlace(kept) ==
  [s \in Slots |->
     IF s \in kept THEN [Resync(clients[s]) EXCEPT !.fd = NoFd]
     ELSE IF s <= Cardinality(kept)
       THEN Resync(clients[CHOOSE t \in kept : Budged(kept, t) = s])
     ELSE IF Used(s) THEN Unused ELSE clients[s]]

Compacted(kept) ==
  [s \in Slots |->
     IF s <= Cardinality(kept)
       THEN Resync(clients[CHOOSE t \in kept : Budged(kept, t) = s])
     ELSE IF s \in kept
       THEN [Resync(clients[s]) EXCEPT !.fd = NoFd, !.age = 0]
     ELSE IF Used(s) THEN Unused ELSE clients[s]]

(* Mutant: the descriptor of the last client kept. *)
HighestFd_Last(kept) == IF kept = {} THEN ListenFd ELSE clients[Max(kept)].fd
HighestFd(kept) == Max({ListenFd} \cup {clients[s].fd : s \in kept})

(* Mutant: a client with messages queued is spared. *)
Expired_Spared ==
  {s \in Slots : Used(s) /\ clients[s].age > ConnTimeout /\ clients[s].q = 0}
Expired == {s \in Slots : Used(s) /\ clients[s].age > ConnTimeout}

Upkeep ==
  /\ pc = "upkeep" /\ since > SelectTimeout
  /\ LET kept == {s \in Slots : Used(s)} \ Expired
         gone == {clients[s].fd : s \in Expired} IN
       /\ clients' = Compacted(kept)
       /\ m_rfds' = m_rfds \ gone /\ m_wfds' = m_wfds \ gone
       /\ net' = [f \in Fds |-> IF f \in gone THEN "closed" ELSE net[f]]
       /\ maxfd' = HighestFd(kept)
  /\ since' = 0
  /\ pc' = "select"
  /\ UNCHANGED <<frame, backlog>>

NotYet ==
  /\ pc = "upkeep" /\ since <= SelectTimeout
  /\ pc' = "select"
  /\ UNCHANGED <<array, frame, maxfd, since, backlog>>

-----------------------------------------------------------------------------
(* select *)

Readable == {f \in Fds : net[f] \in {"data", "eof"}}
              \cup (IF backlog THEN {ListenFd} ELSE {})
Watched(masters) == masters \cap (0 .. maxfd)

(* Which sockets can be written to is up to the peers, and a socket may be  *)
(* reported readable without need.                                          *)
Select ==
  /\ pc = "select"
  /\ \E spurious \in SUBSET (Watched(m_rfds) \cap Owned) :
       rfds' = (Watched(m_rfds) \cap Readable) \cup spurious
  /\ wfds' \in SUBSET Watched(m_wfds)
  /\ nset' = Cardinality(rfds') + Cardinality(wfds')
  /\ nset' > 0
  /\ pc' = "read" /\ i' = 1
  /\ UNCHANGED <<array, maxfd, since, backlog>>

(* Timed out or interrupted. *)
NothingReady ==
  /\ pc = "select"
  /\ Watched(m_rfds) \cap Readable = {}
  /\ pc' = "upkeep"
  /\ UNCHANGED <<array, frame, maxfd, since, backlog>>

-----------------------------------------------------------------------------
(* handle_io, the part that reads *)

InLoop == i <= MaxClients /\ nset > 0
NextSlot == pc' = "read" /\ i' = i + 1
ToWrite == pc' = "write" /\ UNCHANGED i
Rest == UNCHANGED <<rfds, wfds, maxfd, since, backlog>>

SkipUnused ==
  /\ pc = "read" /\ InLoop /\ ~Used(i)
  /\ NextSlot
  /\ Rest /\ UNCHANGED <<array, nset>>

NotReadable ==
  /\ pc = "read" /\ InLoop /\ Used(i) /\ clients[i].fd \notin rfds
  /\ ToWrite
  /\ Rest /\ UNCHANGED <<array, nset>>

Reads == pc = "read" /\ InLoop /\ Used(i) /\ clients[i].fd \in rfds

(* Before the read: resync, prepare a buffer, note the activity. *)
Prepared ==
  LET k == Resync(clients[i]) IN
    [k EXCEPT !.rb = IF @ = "none" THEN "header" ELSE @, !.age = 0]

(* The peer has closed the connection, or the read fails. *)
ReadEnds ==
  /\ Reads
  /\ nset' = nset - 1
  /\ Closing({i}, clients, net) /\ m_wfds' = m_wfds \ {clients[i].fd}
  /\ NextSlot
  /\ Rest

(* Mutant: the end of the stream is taken for nothing to read. *)
ReadAgain_Eof ==
  /\ Reads /\ net[clients[i].fd] \in {"idle", "eof"}
  /\ nset' = nset - 1
  /\ clients' = [clients EXCEPT ![i] = Prepared]
  /\ ToWrite
  /\ Rest /\ UNCHANGED <<m_rfds, m_wfds, net>>

ReadAgain ==
  /\ Reads /\ net[clients[i].fd] = "idle"
  /\ nset' = nset - 1
  /\ clients' = [clients EXCEPT ![i] = Prepared]
  /\ ToWrite
  /\ Rest /\ UNCHANGED <<m_rfds, m_wfds, net>>

(* Some bytes arrive, perhaps all there are. *)
Received == {[net EXCEPT ![clients[i].fd] = left] : left \in {"idle", "data"}}

ReadPart(phase) ==
  /\ Reads /\ net[clients[i].fd] = "data"
  /\ Prepared.rb = "payload" => phase = "payload"
  /\ nset' = nset - 1
  /\ clients' = [clients EXCEPT ![i] = [Prepared EXCEPT !.rb = phase]]
  /\ net' \in Received
  /\ ToWrite
  /\ Rest /\ UNCHANGED <<m_rfds, m_wfds>>

(* The message is complete: process_msg answers it, forwards it or drops    *)
(* it, and an authentication closes the other connections of that user.     *)
ReadMessage(target, kicked) ==
  /\ Reads /\ net[clients[i].fd] = "data"
  /\ \A s \in target : clients[s].q < QueueMax
  /\ nset' = nset - 1
  /\ LET read == [clients EXCEPT ![i] = [Prepared EXCEPT !.rb = "none"]]
         sent == [s \in Slots |-> IF s \in target THEN [read[s] EXCEPT !.q = @ + 1]
                                                  ELSE read[s]] IN
       \E n \in Received : Closing(kicked, sent, n)
  /\ m_wfds' = (m_wfds \cup {clients[s].fd : s \in target})
                 \ {clients[s].fd : s \in kicked}
  /\ ToWrite
  /\ Rest

Process ==
  \/ \E target \in {{}} \cup {{s} : s \in {s \in Slots : Used(s)}} :
       ReadMessage(target, {})
  \/ \E kicked \in SUBSET {s \in Slots \ {i} : Used(s)} : ReadMessage({i}, kicked)

-----------------------------------------------------------------------------
(* handle_io, the part that writes *)

(* Mutant: counted down for each client that was not ready. *)
NotWritable_Counted ==
  /\ pc = "write" /\ clients[i].fd \notin wfds
  /\ nset' = nset - 1
  /\ NextSlot
  /\ Rest /\ UNCHANGED array

NotWritable ==
  /\ pc = "write" /\ clients[i].fd \notin wfds
  /\ NextSlot
  /\ Rest /\ UNCHANGED <<array, nset>>

Writes == pc = "write" /\ clients[i].fd \in wfds

WriteEnds ==
  /\ Writes
  /\ nset' = nset - 1
  /\ Closing({i}, clients, net) /\ m_wfds' = m_wfds \ {clients[i].fd}
  /\ NextSlot
  /\ Rest

(* A part of the message at the head is sent, or nothing (EAGAIN). *)
WritePart ==
  /\ Writes
  /\ nset' = nset - 1
  /\ clients' = [clients EXCEPT ![i].age = 0]
  /\ NextSlot
  /\ Rest /\ UNCHANGED <<m_rfds, m_wfds, net>>

(* Mutant: the last message leaves its descriptor in m_wfds. *)
WriteMessage_Watched ==
  /\ Writes /\ clients[i].q > 0
  /\ nset' = nset - 1
  /\ clients' = [clients EXCEPT ![i].age = 0, ![i].q = @ - 1]
  /\ NextSlot
  /\ Rest /\ UNCHANGED <<m_rfds, m_wfds, net>>

(* dequeue_msg *)
WriteMessage ==
  /\ Writes /\ clients[i].q > 0
  /\ nset' = nset - 1
  /\ clients' = [clients EXCEPT ![i].age = 0, ![i].q = @ - 1]
  /\ m_wfds' = IF clients[i].q = 1 THEN m_wfds \ {clients[i].fd} ELSE m_wfds
  /\ NextSlot
  /\ Rest /\ UNCHANGED <<m_rfds, net>>

HandleDone ==
  /\ pc = "read" /\ ~InLoop
  /\ pc' = "accept"
  /\ UNCHANGED <<array, frame, maxfd, since, backlog>>

-----------------------------------------------------------------------------
(* accept_client *)

Accepts == pc = "accept" /\ nset > 0 /\ ListenFd \in rfds
NewPass == pc' = "upkeep" /\ i' = 1 /\ nset' = 0 /\ rfds' = {} /\ wfds' = {}

FreeFds == {f \in Fds : net[f] = "closed"}
NewFd == Min(FreeFds)
FreeSlots == {s \in Slots : ~Used(s)}

NoAccept ==
  /\ pc = "accept" /\ ~Accepts
  /\ NewPass
  /\ UNCHANGED <<array, maxfd, since, backlog>>

(* accept() fails: the connection was aborted, or it stays in the queue     *)
(* because the process may not open any more files.                         *)
AcceptFails ==
  /\ Accepts
  /\ backlog' = (FreeFds = {})
  /\ NewPass
  /\ UNCHANGED <<array, maxfd, since>>

(* The new descriptor does not fit a descriptor set, or there is no slot    *)
(* for it: the connection is closed at once.                                *)
AcceptDropped ==
  /\ Accepts /\ FreeFds # {}
  /\ NewFd >= FdSetSize \/ FreeSlots = {}
  /\ backlog' = FALSE
  /\ NewPass
  /\ UNCHANGED <<array, maxfd, since>>

(* Mutant: the queue found in the slot is kept. *)
Accept_KeepsQueue ==
  /\ Accepts
  /\ FreeFds # {} /\ NewFd < FdSetSize /\ FreeSlots # {}
  /\ LET s == Min(FreeSlots) IN
       clients' = [clients EXCEPT ![s] = [Unused EXCEPT !.fd = NewFd, !.q = clients[s].q]]
  /\ m_rfds' = m_rfds \cup {NewFd}
  /\ maxfd' = Max({maxfd, NewFd})
  /\ net' = [net EXCEPT ![NewFd] = "idle"]
  /\ backlog' = FALSE
  /\ NewPass
  /\ UNCHANGED <<m_wfds, since>>

Accept ==
  /\ Accepts
  /\ FreeFds # {} /\ NewFd < FdSetSize /\ FreeSlots # {}
  /\ clients' = [clients EXCEPT ![Min(FreeSlots)] = [Unused EXCEPT !.fd = NewFd]]
  /\ m_rfds' = m_rfds \cup {NewFd}
  /\ maxfd' = Max({maxfd, NewFd})
  /\ net' = [net EXCEPT ![NewFd] = "idle"]
  /\ backlog' = FALSE
  /\ NewPass
  /\ UNCHANGED <<m_wfds, since>>

-----------------------------------------------------------------------------
(* The peers and the clock *)

Arrives(f, what) ==
  /\ net[f] = "idle"
  /\ net' = [net EXCEPT ![f] = what]
  /\ UNCHANGED <<clients, m_rfds, m_wfds, frame, maxfd, since, pc, backlog>>

Connects ==
  /\ ~backlog
  /\ backlog' = TRUE
  /\ UNCHANGED <<array, frame, maxfd, since, pc>>

Older(n) == Min({n + 1, AgeMax})

Tick ==
  /\ pc = "select"
  /\ since' = Min({since + 1, SelectTimeout + 1})
  /\ clients' = [s \in Slots |->
       IF Used(s) THEN [clients[s] EXCEPT !.age = Older(@)] ELSE clients[s]]
  /\ UNCHANGED <<m_rfds, m_wfds, net, frame, maxfd, pc, backlog>>

Loop ==
  \/ Upkeep \/ NotYet \/ Select \/ NothingReady
  \/ SkipUnused \/ NotReadable \/ ReadEnds \/ ReadAgain \/ Process
  \/ \E phase \in {"header", "payload"} : ReadPart(phase)
  \/ NotWritable \/ WriteEnds \/ WritePart \/ WriteMessage
  \/ HandleDone \/ NoAccept \/ AcceptFails \/ AcceptDropped \/ Accept

Outside == Connects \/ \E f \in Fds, what \in {"data", "eof"} : Arrives(f, what)

Next == Loop \/ Outside \/ Tick

Spec == Init /\ [][Next]_vars

(* The process keeps running and the clock ticks; nothing is asked of the   *)
(* peers. Time that passes while the process works is accounted to its next *)
(* select(), hence the strong form.                                         *)
FairSpec == Spec /\ WF_vars(Loop) /\ SF_vars(Tick)

-----------------------------------------------------------------------------
(* Properties *)

(* The master sets say exactly what there is to wait for, and each          *)
(* connection has one slot: no descriptor is leaked, watched after it was   *)
(* closed, or watched for writing with nothing to write. handle_io reads    *)
(* the head of the queue of a writable client without looking.              *)
MasterSetsExact ==
  /\ Owned = {f \in Fds : net[f] # "closed"}
  /\ \A s, t \in Slots : Used(s) /\ clients[s].fd = clients[t].fd => s = t
  /\ m_rfds = {ListenFd} \cup Owned
  /\ m_wfds = {clients[s].fd : s \in {s \in Slots : Used(s) /\ clients[s].q > 0}}

(* Where a client is written to it is still there, and has a message.       *)
WriteHasHead ==
  pc = "write" => Used(i) /\ (clients[i].fd \in wfds => clients[i].q > 0)

(* select is asked about every descriptor, however the last upkeep moved    *)
(* the clients and whatever was accepted since.                             *)
MaxfdCovers == pc = "select" => \A f \in m_rfds \cup m_wfds : f <= maxfd

(* The countdown of ready descriptors, which ends the scan of the clients,  *)
(* never runs ahead of it: what is ready is served in the same pass, the    *)
(* listening socket last.                                                   *)
Pending(S, first) == {s \in first .. MaxClients : Used(s) /\ clients[s].fd \in S}

ReadyAccounted ==
  pc \in {"read", "write"} =>
    nset >= Cardinality(Pending(rfds, IF pc = "read" THEN i ELSE i + 1))
              + Cardinality(Pending(wfds, i))
              + Cardinality(rfds \cap {ListenFd})

(* Upkeep parts with the expired clients only; every other keeps its queue  *)
(* and what it has sent, unless that is an overdue part of a message.       *)
UpkeepKeepsLive ==
  [][pc = "upkeep" =>
       \A s \in Slots : Used(s) /\ clients[s].age <= ConnTimeout =>
         \E t \in Slots :
           /\ clients'[t].fd = clients[s].fd /\ clients'[t].q = clients[s].q
           /\ Gap(clients[s]) \/ clients'[t].rb = clients[s].rb]_vars

(* A client that has hung up is seen to have.                               *)
EofSeen == \A f \in Fds : net[f] = "eof" ~> net[f] = "closed"

(* Nobody waits for ever to be accepted, or turned away, unless for want of *)
(* a descriptor: however much the other clients send, the countdown leaves  *)
(* something for the listening socket.                                      *)
BacklogServed == []<>(~backlog \/ FreeFds = {})

(* No connection stays open for ever in which nothing happens.              *)
Idle(f) == \E s \in Slots : clients[s].fd = f /\ clients[s].age > 0
IdleEvicted == \A f \in Fds : []<>~Idle(f)
=============================================================================
