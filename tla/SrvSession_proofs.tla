-------------------------- MODULE SrvSession_proofs --------------------------
(***************************************************************************)
(* Proofs about SrvSession, for any number of connections, names and keys: *)
(*                                                                         *)
(*   - TypeOK, UniqueLogin, MailFollowsIdentity and LoginNeedsKey, however *)
(*     saves of the user db may fail;                                      *)
(*   - NameIdAgree, UniqueName, PeerlistUnambiguous and OwnerOnly, and     *)
(*     that the sessions implement Presence, when they succeed.            *)
(*                                                                         *)
(* UniqueLogin is not inductive: the id an unregistered LOGIN hands out is *)
(* new only because every id in use is below the counter, and stays so     *)
(* only because the accounts in the list, whose ids LOGIN hands out too,   *)
(* are behind the counter as well. Inv adds both.                          *)
(***************************************************************************)
EXTENDS SrvSession, UserDb_proofs

(* A connection has a name exactly when it has an id, and both once it has  *)
(* got past LOGIN; a free slot has neither.                                 *)
Shape ==
  \A c \in Conn :
    /\ clt[c].name = NoName <=> clt[c].id = NoId
    /\ LoggedIn(c) => clt[c].id # NoId
    /\ ~Open(c) => clt[c] = Free

IdsBehind == \A c \in Conn : clt[c].id < db.next

Inv == TypeOK /\ Behind(db) /\ IdsBehind /\ Shape /\ UniqueLogin

-----------------------------------------------------------------------------
(* The queues *)

(* Whatever is put into a queue is a message. *)
LEMMA EnqueueType ==
  ASSUME TypeOK, NEW c \in Conn, NEW m \in Message, Enqueue(c, m)
  PROVE  sendq' \in [Conn -> Seq(Message)]
<1>1. Append(sendq[c], m) \in Seq(Message)
  BY DEF TypeOK
<1>. QED
  BY <1>1 DEF Enqueue, TypeOK

LEMMA ResponseType ==
  ASSUME TypeOK, NEW c \in Conn, NEW t \in Types, NEW dst \in Nat, NEW code \in Codes
  PROVE  Response(c, t, dst, code) \in Message /\ ErrorResponse(c, t, dst, code) \in Message
<1>1. SourceId(c) \in Nat
  BY DEF SourceId, TypeOK, Client, NoId
<1>2. Response(c, t, dst, code) =
        [type |-> t, class |-> "RES", code |-> code,
         src |-> dst, dst |-> SourceId(c), peers |-> {}]
  BY DEF Response
<1>3. ErrorResponse(c, t, dst, code) =
        [type |-> t, class |-> "ERR", code |-> code,
         src |-> dst, dst |-> SourceId(c), peers |-> {}]
  BY <1>2 DEF ErrorResponse
<1>. QED
  BY <1>1, <1>2, <1>3 DEF Message, Classes

LEMMA ReplyType ==
  ASSUME TypeOK, NEW c \in Conn, NEW t \in Types, NEW code \in Codes,
         Reply(c, t, code) \/ Fail(c, t, code)
  PROVE  sendq' \in [Conn -> Seq(Message)]
  BY EnqueueType, ResponseType DEF Reply, Fail, NoId

(* A step that touches nothing but the queues. *)
LEMMA QueuesOnly ==
  ASSUME Inv, UNCHANGED <<clt, db>>, sendq' \in [Conn -> Seq(Message)]
  PROVE  Inv'
  BY DEF Inv, TypeOK, Behind, IdsBehind, Shape, UniqueLogin, Open, AuthOk, LoggedIn

(* A step that gives one connection the record r and the database a         *)
(* successor.                                                               *)
LEMMA OneClient ==
  ASSUME Inv, NEW c \in Conn, NEW r \in Client,
         clt' = [clt EXCEPT ![c] = r],
         sendq' \in [Conn -> Seq(Message)],
         Successor(db, db'),
         r.name = NoName <=> r.id = NoId,
         r.st \in {"LOGIN_OK", "AUTH_OK"} => r.id # NoId,
         r.st = "INVALID" => r = Free,
         r.id < db'.next,
         r.st = "AUTH_OK" => \A d \in Conn \ {c} : AuthOk(d) => clt[d].id # r.id
  PROVE  Inv'
<1>1. \A d \in Conn : clt'[d] = IF d = c THEN r ELSE clt[d]
  BY DEF Inv, TypeOK
<1>2. TypeOK'
  BY DEF Inv, TypeOK, Successor
<1>3. Behind(db)'
  BY DEF Successor, Behind
<1>4. IdsBehind'
  BY <1>1 DEF Inv, IdsBehind, TypeOK, Successor, Database, Client, Ids
<1>5. Shape'
  BY <1>1 DEF Inv, Shape, Open, LoggedIn
<1>6. UniqueLogin'
  BY <1>1 DEF Inv, UniqueLogin, AuthOk
<1>. QED
  BY <1>2, <1>3, <1>4, <1>5, <1>6 DEF Inv

(* The database may be replaced by a successor under the sessions. *)
LEMMA DatabaseOnly ==
  ASSUME Inv, UNCHANGED clt, sendq' \in [Conn -> Seq(Message)], Successor(db, db')
  PROVE  Inv'
<1>1. IdsBehind'
  BY DEF Inv, IdsBehind, TypeOK, Successor, Database, Client, Ids
<1>2. /\ TypeOK' /\ Behind(db)' /\ Shape' /\ UniqueLogin'
  BY DEF Inv, TypeOK, Successor, Behind, Shape, UniqueLogin, Open, AuthOk, LoggedIn
<1>. QED
  BY <1>1, <1>2 DEF Inv

LEMMA SameDatabase ==
  ASSUME Inv PROVE Successor(db, db)
  BY DEF Inv, TypeOK, Successor, Database, Ids

LEMMA FreeType == Free \in Client
  BY DEF Free, Client, States, NoId

-----------------------------------------------------------------------------
(* Init and Restart *)

(* A server started on a file of accounts, whatever the file. *)
LEMMA StartInv ==
  ASSUME NEW f \in SUBSET Account, NEW d \in Fresh(f)
  PROVE  d \in Database /\ Behind(d)
<1>. DEFINE empty == [list |-> {}, next |-> 1, file |-> f]
<1>1. empty \in Database /\ Behind(empty)
  BY DEF Database, Behind, Ids, NoId
<1>. QED
  BY <1>1, LoadSuccessor DEF Fresh, Successor

LEMMA NoClientsNow ==
  ASSUME clt = [c \in Conn |-> Free], sendq = [c \in Conn |-> <<>>],
         db \in Database, Behind(db)
  PROVE  Inv
<1>1. db.next > NoId
  BY DEF Database, Ids, NoId
<1>2. \A c \in Conn : clt[c] = Free
  OBVIOUS
<1>3. TypeOK
  BY FreeType DEF TypeOK
<1>4. IdsBehind /\ Shape /\ UniqueLogin
  BY <1>1, <1>2 DEF IdsBehind, Shape, UniqueLogin, Free, Open, AuthOk, LoggedIn
<1>. QED
  BY <1>3, <1>4 DEF Inv

LEMMA NoClientsNext ==
  ASSUME clt' = [c \in Conn |-> Free], sendq' = [c \in Conn |-> <<>>],
         db' \in Database, Behind(db')
  PROVE  Inv'
<1>1. db'.next > NoId
  BY DEF Database, Ids, NoId
<1>2. \A c \in Conn : clt'[c] = Free
  OBVIOUS
<1>3. TypeOK'
  BY FreeType DEF TypeOK
<1>4. IdsBehind' /\ Shape' /\ UniqueLogin'
  BY <1>1, <1>2 DEF IdsBehind, Shape, UniqueLogin, Free, Open, AuthOk, LoggedIn
<1>5. Behind(db)'
  BY DEF Behind
<1>. QED
  BY <1>3, <1>4, <1>5 DEF Inv

LEMMA InitInv == Init => Inv
<1>. SUFFICES ASSUME NEW f \in UserFiles, Start(f)
              PROVE  Inv
  BY DEF Init
<1>1. f \in SUBSET Account
  BY UserFilesAssumption
<1>. QED
  BY <1>1, StartInv, NoClientsNow DEF Start

LEMMA RestartInv == Inv /\ Restart => Inv'
<1>. SUFFICES ASSUME Inv, Restart
              PROVE  Inv'
  OBVIOUS
<1>1. db.file \in SUBSET Account
  BY DEF Inv, TypeOK, Database
<1>2. db' \in Database /\ Behind(db')
  BY <1>1, StartInv DEF Restart
<1>. QED
  BY <1>2, NoClientsNext DEF Restart

-----------------------------------------------------------------------------
(* One lemma per group of actions *)

LEMMA ConnectionInv ==
  ASSUME Inv, NEW c \in Conn, Connection(c)
  PROVE  Inv'
<1>1. CASE Accept(c)
  <2>. DEFINE r == [Free EXCEPT !.st = "PRE_LOGIN"]
  <2>1. r = [st |-> "PRE_LOGIN", id |-> NoId, name |-> NoName, key |-> NoKey]
    BY DEF Free
  <2>2. r \in Client
    BY <2>1 DEF Client, States, NoId
  <2>3. r.id < db.next
    BY <2>1 DEF Inv, TypeOK, Database, Ids, NoId
  <2>. QED
    BY <1>1, <2>1, <2>2, <2>3, OneClient, SameDatabase DEF Accept, Inv, TypeOK
<1>2. CASE Close(c)
  <2>1. sendq' \in [Conn -> Seq(Message)]
    BY <1>2 DEF Close, Inv, TypeOK
  <2>2. Free.id < db.next
    BY DEF Free, Inv, TypeOK, Database, Ids, NoId
  <2>. QED
    BY <1>2, <2>1, <2>2, OneClient, SameDatabase, FreeType DEF Close, Free
<1>3. CASE Transmit(c)
  <2>1. Tail(sendq[c]) \in Seq(Message)
    BY <1>3 DEF Transmit, Inv, TypeOK
  <2>. QED
    BY <1>3, <2>1, QueuesOnly DEF Transmit, Inv, TypeOK
<1>. QED
  BY <1>1, <1>2, <1>3 DEF Connection

LEMMA QueryInv ==
  ASSUME Inv, NEW c \in Conn, Query(c)
  PROVE  Inv'
<1>. USE DEF Types, Codes
<1>0. TypeOK /\ NoId \in Nat /\ Broadcast \in Nat
  BY BoundsAssumption DEF Inv, NoId, Broadcast
<1>1. CASE Ping(c)
  BY <1>0, <1>1, ReplyType, QueuesOnly DEF Ping
<1>2. CASE Peerlist(c)
  <2>1. Peers \subseteq Peer
    BY DEF Peers, Peer, Inv, TypeOK, Client, Ids, Shape, LoggedIn, AuthOk
  <2>. DEFINE m == [Response(c, "PEERLIST", NoId, "OK") EXCEPT !.peers = Peers]
  <2>2. m = [type |-> "PEERLIST", class |-> "RES", code |-> "OK",
             src |-> NoId, dst |-> SourceId(c), peers |-> Peers]
    BY DEF Response
  <2>3. SourceId(c) \in Nat
    BY <1>0 DEF SourceId, TypeOK, Client
  <2>4. m \in Message
    BY <1>0, <2>1, <2>2, <2>3 DEF Message, Classes
  <2>. QED
    BY <1>0, <1>2, <2>4, EnqueueType, QueuesOnly DEF Peerlist
<1>3. ASSUME NEW t \in Traffic, Unsupported(c, t)
      PROVE  Inv'
  BY <1>0, <1>3, ReplyType, QueuesOnly DEF Unsupported
<1>4. ASSUME NEW t \in Traffic, BroadcastRefused(c, t)
      PROVE  Inv'
  <2>1. t \in Types
    BY TrafficAssumption
  <2>. QED
    BY <1>0, <1>4, <2>1, ResponseType, EnqueueType, QueuesOnly DEF BroadcastRefused
<1>5. ASSUME NEW t \in Traffic, NEW cl \in Classes, NEW dst \in Destinations,
             Forbidden(c, t, cl, dst)
      PROVE  Inv'
  <2>1. t \in Types /\ dst \in Nat
    BY TrafficAssumption, DestinationsAssumption, BoundsAssumption DEF Broadcast
  <2>. QED
    BY <1>0, <1>5, <2>1, ResponseType, EnqueueType, QueuesOnly DEF Forbidden
<1>. QED
  BY <1>1, <1>2, <1>3, <1>4, <1>5 DEF Query

LEMMA RelayInv ==
  ASSUME Inv, NEW c \in Conn, Relay(c)
  PROVE  Inv'
<1>0. TypeOK /\ Traffic \subseteq Types /\ Destinations \subseteq Nat
  BY TrafficAssumption, DestinationsAssumption, BoundsAssumption DEF Inv, Broadcast
<1>1. ASSUME NEW t \in Traffic, NEW d \in Conn, NEW cl \in Classes, Forward(c, d, t, cl)
      PROVE  Inv'
  <2>. DEFINE m == [type |-> t, class |-> cl, code |-> "",
                    src |-> clt[c].id, dst |-> clt[d].id, peers |-> {}]
  <2>1. m \in Message
    BY <1>0 DEF Message, TypeOK, Client, Codes
  <2>. QED
    BY <1>0, <1>1, <2>1, EnqueueType, QueuesOnly DEF Forward
<1>2. ASSUME NEW t \in Traffic, NEW dst \in Destinations, Misdirected(c, t, dst)
      PROVE  Inv'
  <2>1. ErrorResponse(c, t, dst, "MISDIRECTED") \in Message
    BY <1>0, ResponseType DEF Codes
  <2>. QED
    BY <1>0, <1>2, <2>1, EnqueueType, QueuesOnly DEF Misdirected
<1>3. ASSUME NEW t \in Traffic, NEW dst \in Destinations, ForwardRefused(c, t, dst)
      PROVE  Inv'
  <2>1. ErrorResponse(c, t, dst, "BAD_REQUEST") \in Message
    BY <1>0, ResponseType DEF Codes
  <2>. QED
    BY <1>0, <1>3, <2>1, EnqueueType, QueuesOnly DEF ForwardRefused
<1>. QED
  BY <1>1, <1>2, <1>3 DEF Relay

LEMMA AccountsInv ==
  ASSUME Inv, NEW c \in Conn, Accounts(c)
  PROVE  Inv'
<1>. USE DEF Types, Codes
<1>0. TypeOK /\ db \in Database /\ Behind(db)
  BY DEF Inv, TypeOK
<1>1. CASE RegisterTooEarly(c)
  BY <1>0, <1>1, ReplyType, QueuesOnly DEF RegisterTooEarly
<1>2. CASE RegisterMalformed(c)
  BY <1>0, <1>2, ReplyType, QueuesOnly DEF RegisterMalformed
<1>3. CASE Drop(c)
  <2>1. PICK d \in Load(db) : /\ db' \in DropEntry(d, clt[c].name)
                              /\ Reply(c, "DROP", "OK") \/ Fail(c, "DROP", "NOT_FOUND")
    BY <1>3 DEF Drop
  <2>2. Successor(db, d)
    BY <1>0, <2>1, LoadSuccessor
  <2>3. Successor(d, db')
    BY <2>1, <2>2, DropEntrySuccessor DEF Successor
  <2>4. Successor(db, db')
    BY <1>0, <2>2, <2>3 DEF Successor, Database, Ids
  <2>. QED
    BY <1>0, <1>3, <2>1, <2>4, ReplyType, DatabaseOnly DEF Drop
<1>4. ASSUME NEW k \in PlainKeys, Register(c, k)
      PROVE  Inv'
  <2>0. PICK dropped \in DropEntry(db, clt[c].name) : \E d \in Load(dropped) :
          /\ db' \in AddEntry(d, clt[c].id, clt[c].name, k)
          /\ Reply(c, "REGISTER", "OK") \/ Fail(c, "REGISTER", "LOCKED")
    BY <1>4 DEF Register
  <2>1. PICK d \in Load(dropped) :
          /\ db' \in AddEntry(d, clt[c].id, clt[c].name, k)
          /\ Reply(c, "REGISTER", "OK") \/ Fail(c, "REGISTER", "LOCKED")
    BY <2>0
  <2>2. k \in Keys /\ clt[c].id \in Ids /\ clt[c].name \in Names
    BY <1>4, PlainKeysAssumption
       DEF Register, Served, AuthOk, LoggedIn, Inv, Shape, TypeOK, Client, Ids
  <2>3. Successor(db, dropped)
    BY <1>0, <2>0, DropEntrySuccessor
  <2>4. Successor(dropped, d)
    BY <2>1, <2>3, LoadSuccessor DEF Successor
  <2>5. Successor(d, db')
    BY <2>1, <2>2, <2>4, AddEntrySuccessor DEF Successor
  <2>6. Successor(db, db')
    BY <1>0, <2>3, <2>4, <2>5 DEF Successor, Database, Ids
  <2>. QED
    BY <1>0, <1>4, <2>1, <2>6, ReplyType, DatabaseOnly DEF Register
<1>. QED
  BY <1>1, <1>2, <1>3, <1>4 DEF Accounts

LEMMA LoginInv ==
  ASSUME Inv, NEW c \in Conn, NEW n \in Names,
         LoginConflict(c, n) \/ LoginUnregistered(c, n) \/ LoginRegistered(c, n)
  PROVE  Inv'
<1>. USE DEF Types, Codes
<1>0. TypeOK /\ db \in Database /\ Behind(db) /\ n # NoName
  BY NullAssumption DEF Inv, TypeOK
<1>1. CASE LoginConflict(c, n)
  BY <1>0, <1>1, LoadSuccessor, ReplyType, DatabaseOnly DEF LoginConflict
<1>2. CASE LoginUnregistered(c, n)
  <2>1. PICK d \in Load(db) :
          /\ clt' = [clt EXCEPT ![c] = [st |-> "AUTH_OK", id |-> d.next,
                                        name |-> n, key |-> NoKey]]
          /\ db' = TakeTempId(d)
    BY <1>2 DEF LoginUnregistered, TempIdSource
  <2>2. Successor(db, d)
    BY <1>0, <2>1, LoadSuccessor
  <2>3. TakeTempId(d) = [list |-> d.list, next |-> d.next + 1, file |-> d.file]
    BY <2>2 DEF TakeTempId, Successor, Database
  <2>4. Successor(db, db') /\ db'.next > d.next
    BY <1>0, <2>1, <2>2, <2>3 DEF Successor, Database, Behind, Ids, Account, NoId
  <2>. DEFINE r == [st |-> "AUTH_OK", id |-> d.next, name |-> n, key |-> NoKey]
  <2>5. r \in Client /\ r.id # NoId
    BY <2>2 DEF Successor, Database, Client, States, Ids
  <2>6. \A e \in Conn : clt[e].id # r.id
    BY <2>2 DEF Inv, IdsBehind, TypeOK, Client, Successor, Database, Ids
  <2>. QED
    BY <1>0, <1>2, <2>1, <2>4, <2>5, <2>6, ReplyType, OneClient DEF LoginUnregistered
<1>3. CASE LoginRegistered(c, n)
  <2>. DEFINE e == AccountOf(db', n)
              r == [st |-> "LOGIN_OK", id |-> e.id, name |-> n,
                    key |-> IF e.key \in PlainKeys THEN e.key ELSE clt[c].key]
  <2>1. Successor(db, db')
    BY <1>0, <1>3, LoadSuccessor DEF LoginRegistered
  <2>2. e \in db'.list /\ e \in Account
    BY <1>3, <2>1, AccountOfFound DEF LoginRegistered, Successor, Database
  <2>3. clt' = [clt EXCEPT ![c] = r]
    BY <1>3 DEF LoginRegistered
  <2>5. r \in Client /\ r.id # NoId /\ r.id < db'.next
    BY <1>0, <2>1, <2>2 DEF TypeOK, Client, States, Account, Ids, Successor, Behind
  <2>6. Reply(c, "LOGIN", "CHALLENGE") \/ Fail(c, "LOGIN", "METHOD_NOT_ALLOWED")
    BY <1>3 DEF LoginRegistered
  <2>7. sendq' \in [Conn -> Seq(Message)]
    BY <1>0, <2>6, ReplyType
  <2>. QED
    BY <1>0, <2>1, <2>3, <2>5, <2>7, OneClient
<1>. QED
  BY <1>1, <1>2, <1>3

LEMMA AuthInv ==
  ASSUME Inv, NEW c \in Conn,
         \/ AuthMalformed(c) \/ AuthNoKey(c) \/ Logout(c)
         \/ \E k \in Keys : AuthWrong(c, k) \/ AuthOK(c, k)
  PROVE  Inv'
<1>. USE DEF Types, Codes
<1>0. TypeOK /\ clt[c] \in Client /\ clt[c].id < db.next /\ db.next > NoId
  BY DEF Inv, TypeOK, IdsBehind, Database, Ids, NoId
<1>. DEFINE back == [clt[c] EXCEPT !.st = "PRE_LOGIN"]
<1>1. /\ back = [st |-> "PRE_LOGIN", id |-> clt[c].id,
                 name |-> clt[c].name, key |-> clt[c].key]
      /\ back \in Client
      /\ back.name = NoName <=> back.id = NoId
  BY <1>0 DEF Client, States, Inv, Shape
<1>2. CASE AuthMalformed(c)
  <2>1. clt' = [clt EXCEPT ![c] = back]
    BY <1>2 DEF AuthMalformed
  <2>. QED
    BY <1>0, <1>1, <1>2, <2>1, ReplyType, SameDatabase, OneClient DEF AuthMalformed
<1>3. ASSUME NEW k \in Keys, AuthWrong(c, k)
      PROVE  Inv'
  <2>1. clt' = [clt EXCEPT ![c] = back]
    BY <1>3 DEF AuthWrong
  <2>. QED
    BY <1>0, <1>1, <1>3, <2>1, ReplyType, SameDatabase, OneClient DEF AuthWrong
<1>4. CASE AuthNoKey(c)
  BY <1>4, RestartInv DEF AuthNoKey
<1>5. CASE Logout(c)
  <2>. DEFINE r == [Free EXCEPT !.st = "PRE_LOGIN"]
  <2>1. r = [st |-> "PRE_LOGIN", id |-> NoId, name |-> NoName, key |-> NoKey]
    BY DEF Free
  <2>2. r \in Client
    BY <2>1 DEF Client, States, NoId
  <2>. QED
    BY <1>0, <1>5, <2>1, <2>2, ReplyType, SameDatabase, OneClient DEF Logout
<1>6. ASSUME NEW k \in Keys, AuthOK(c, k)
      PROVE  Inv'
  <2>1. \A d \in Conn : clt'[d] = IF d \in Superseded(c) THEN Free
                                  ELSE IF d = c THEN [clt[c] EXCEPT !.st = "AUTH_OK"]
                                  ELSE clt[d]
    BY <1>6 DEF AuthOK
  <2>2. /\ [clt[c] EXCEPT !.st = "AUTH_OK"] =
             [st |-> "AUTH_OK", id |-> clt[c].id, name |-> clt[c].name, key |-> clt[c].key]
        /\ [clt[c] EXCEPT !.st = "AUTH_OK"] \in Client
    BY <1>0 DEF Client, States
  <2>3. c \notin Superseded(c)
    BY DEF Superseded
  <2>4. TypeOK'
    <3>1. clt' \in [Conn -> Client]
      BY <1>6, <1>0, <2>2, FreeType DEF AuthOK, TypeOK
    <3>0. Response(c, "AUTH", NoId, "OK") \in Message
      BY <1>0, ResponseType DEF NoId
    <3>2. Append(sendq[c], Response(c, "AUTH", NoId, "OK")) \in Seq(Message)
      BY <1>0, <3>0 DEF TypeOK
    <3>3. sendq' \in [Conn -> Seq(Message)]
      BY <1>6, <1>0, <3>2 DEF AuthOK, TypeOK
    <3>. QED
      BY <1>6, <1>0, <3>1, <3>3 DEF AuthOK, TypeOK
  <2>5. Behind(db)' /\ db' = db
    BY <1>6 DEF AuthOK, Inv, Behind
  <2>6. IdsBehind'
    BY <1>0, <2>1, <2>2, <2>3, <2>5 DEF Inv, IdsBehind, Free
  <2>7. Shape'
    <3>1. clt[c].id # NoId /\ clt[c].name # NoName
      BY <1>6 DEF AuthOK, Inv, Shape, LoggedIn
    <3>. QED
      BY <2>1, <2>2, <2>3, <3>1 DEF Inv, Shape, Free, Open, LoggedIn
  <2>8. UniqueLogin'
    <3>1. SUFFICES ASSUME NEW d \in Conn, NEW e \in Conn,
                          AuthOk(d)', AuthOk(e)', clt'[d].id = clt'[e].id
                   PROVE  d = e
      BY DEF UniqueLogin
    <3>2. d \notin Superseded(c) /\ e \notin Superseded(c)
      BY <2>1, <3>1 DEF AuthOk, Free
    <3>3. \A x \in Conn \ {c} : x \notin Superseded(c) /\ AuthOk(x)' =>
             AuthOk(x) /\ clt'[x] = clt[x] /\ clt[x].id # clt[c].id
      BY <2>1 DEF AuthOk, Superseded, Open
    <3>4. clt'[c].id = clt[c].id
      BY <2>1, <2>2, <2>3
    <3>. QED
      BY <3>1, <3>2, <3>3, <3>4 DEF Inv, UniqueLogin
  <2>. QED
    BY <2>4, <2>5, <2>6, <2>7, <2>8 DEF Inv
<1>. QED
  BY <1>2, <1>3, <1>4, <1>5, <1>6

-----------------------------------------------------------------------------
(* The theorems *)

LEMMA NextInv == Inv /\ [Next]_vars => Inv'
<1>. SUFFICES ASSUME Inv, [Next]_vars
              PROVE  Inv'
  OBVIOUS
<1>1. ASSUME NEW c \in Conn, Session(c)
      PROVE  Inv'
  <2>1. CASE LoginMalformed(c)
    BY <2>1, ReplyType, QueuesOnly DEF LoginMalformed, Inv, Types, Codes
  <2>. QED
    BY <1>1, <2>1, LoginInv, AuthInv DEF Session
<1>2. CASE Restart
  BY <1>2, RestartInv
<1>3. CASE UNCHANGED vars
  BY <1>3, QueuesOnly DEF vars, Inv, TypeOK
<1>. QED
  BY <1>1, <1>2, <1>3, ConnectionInv, AccountsInv, QueryInv, RelayInv DEF Next

(* The invariant holds in every reachable state, whatever becomes of saves. *)
THEOREM Invariance == Spec => []Inv
<1>1. Init => Inv
  BY InitInv
<1>2. Inv /\ [Next]_vars => Inv'
  BY NextInv
<1>. QED  BY <1>1, <1>2, PTL DEF Spec

(* process_msg and the connection handling of srvmain.c keep client_t       *)
(* records, queues and database well-formed.                                *)
THEOREM TypeCorrect == Spec => []TypeOK
<1>1. Inv => TypeOK
  BY DEF Inv
<1>. QED  BY <1>1, Invariance, PTL

(* Never are two connections logged in under the same id: the sweep over    *)
(* the clients in the AUTH handler (srvmain.c:622-624) and the counter that *)
(* unregistered logins draw from (srvuserdb.c:213-217) suffice for that,    *)
(* even when the user db cannot be written.                                 *)
THEOREM LoginsUnique == Spec => []UniqueLogin
<1>1. Inv => UniqueLogin
  BY DEF Inv
<1>. QED  BY <1>1, Invariance, PTL

-----------------------------------------------------------------------------
(* Names and ids agree as long as every save succeeds: the list is what is  *)
(* on disk, so reloading an emptied list brings nothing back.               *)

Agreement ==
  /\ db.file = db.list
  /\ WellFormed(db.list)
  /\ NameIdAgree

(* The accounts stay, and so do the identities of the connections. *)
LEMMA SameIdentities ==
  ASSUME Agreement, db'.list = db.list, db'.file = db.file,
         \A c \in Conn : Holds(c)' =>
            Holds(c) /\ clt'[c].id = clt[c].id /\ clt'[c].name = clt[c].name
  PROVE  Agreement'
<1>1. NameIdAgree'
  BY DEF Agreement, NameIdAgree
<1>2. (db.file = db.list)' /\ WellFormed(db.list)'
  BY DEF Agreement, WellFormed
<1>. QED
  BY <1>1, <1>2 DEF Agreement

(* One connection takes on the identity (i, n), the accounts stay. *)
LEMMA NewIdentity ==
  ASSUME Agreement, TypeOK, db'.list = db.list, db'.file = db.file,
         NEW c \in Conn, NEW r, clt' = [clt EXCEPT ![c] = r],
         \A d \in Conn \ {c} : Holds(d) => (clt[d].id = r.id <=> clt[d].name = r.name),
         \A e \in db.list : e.id = r.id <=> e.name = r.name
  PROVE  Agreement'
<1>1. \A d \in Conn : clt'[d] = IF d = c THEN r ELSE clt[d]
  BY DEF TypeOK
<1>2. \A d \in Conn \ {c} : Holds(d)' => Holds(d) /\ clt'[d] = clt[d]
  BY <1>1 DEF Holds, Open
<1>3. clt'[c] = r
  BY <1>1
<1>4. NameIdAgree'
  <2>1. ASSUME NEW d \in Conn, NEW e \in Conn, Holds(d)', Holds(e)'
        PROVE  clt'[d].id = clt'[e].id <=> clt'[d].name = clt'[e].name
    <3>1. CASE d = c /\ e = c
      BY <3>1
    <3>2. CASE d = c /\ e # c
      BY <1>2, <1>3, <2>1, <3>2
    <3>3. CASE d # c /\ e = c
      BY <1>2, <1>3, <2>1, <3>3
    <3>4. CASE d # c /\ e # c
      BY <1>2, <2>1, <3>4 DEF Agreement, NameIdAgree
    <3>. QED  BY <3>1, <3>2, <3>3, <3>4
  <2>2. ASSUME NEW d \in Conn, NEW e \in db'.list, Holds(d)'
        PROVE  clt'[d].id = e.id <=> clt'[d].name = e.name
    <3>1. CASE d = c
      BY <1>3, <2>2, <3>1
    <3>2. CASE d # c
      BY <1>2, <2>2, <3>2 DEF Agreement, NameIdAgree
    <3>. QED  BY <3>1, <3>2
  <2>. QED
    BY <2>1, <2>2 DEF NameIdAgree
<1>5. (db.file = db.list)' /\ WellFormed(db.list)'
  BY DEF Agreement, WellFormed
<1>. QED
  BY <1>4, <1>5 DEF Agreement

(* Starting on a well-formed file. *)
LEMMA FreshAgrees ==
  ASSUME NEW f \in SUBSET Account, WellFormed(f), NEW d \in Fresh(f)
  PROVE  d.list = f /\ d.file = f
<1>. DEFINE empty == [list |-> {}, next |-> 1, file |-> f]
<1>1. Readable(empty) = f
  BY DEF Readable, WellFormed
<1>2. PICK m \in NextAfter(1, f) : d = [empty EXCEPT !.list = f, !.next = m]
  BY <1>1 DEF Fresh, Load
<1>. QED
  BY <1>2

LEMMA RestartAgrees ==
  ASSUME Inv, Agreement, Restart
  PROVE  Agreement'
<1>1. db.file \in SUBSET Account /\ WellFormed(db.file)
  BY DEF Inv, TypeOK, Database, Agreement
<1>2. db'.list = db.list /\ db'.file = db.file
  BY <1>1, FreshAgrees DEF Restart, Agreement
<1>3. \A c \in Conn : clt'[c] = Free
  BY DEF Restart
<1>. QED
  BY <1>2, <1>3, SameIdentities DEF Holds, Open, Free

(* Steps that change neither an identity nor the accounts. *)
LEMMA ConnectionAgrees ==
  ASSUME Inv, Agreement, NEW c \in Conn, Connection(c)
  PROVE  Agreement'
<1>1. UNCHANGED db
  BY DEF Connection, Accept, Close, Transmit
<1>2. ASSUME NEW d \in Conn, Holds(d)'
      PROVE  Holds(d) /\ clt'[d].id = clt[d].id /\ clt'[d].name = clt[d].name
  <2>1. CASE Accept(c)
    BY <1>2, <2>1 DEF Accept, Holds, Open, Free, Inv, TypeOK
  <2>2. CASE Close(c)
    BY <1>2, <2>2 DEF Close, Holds, Open, Free, Inv, TypeOK
  <2>3. CASE Transmit(c)
    BY <1>2, <2>3 DEF Transmit, Holds, Open
  <2>. QED  BY <2>1, <2>2, <2>3 DEF Connection
<1>. QED
  BY <1>1, <1>2, SameIdentities

LEMMA QueuesOnlyAgrees ==
  ASSUME Agreement, UNCHANGED <<clt, db>>
  PROVE  Agreement'
  BY SameIdentities DEF Holds, Open

LEMMA LoginAgrees ==
  ASSUME Inv, Agreement, NEW c \in Conn, NEW n \in Names,
         LoginConflict(c, n) \/ LoginUnregistered(c, n) \/ LoginRegistered(c, n)
  PROVE  Agreement'
<1>0. TypeOK /\ db \in Database /\ db.file = db.list /\ Behind(db)
  BY DEF Inv, TypeOK, Agreement
<1>1. CASE LoginConflict(c, n)
  <2>1. db'.list = db.list /\ db'.file = db.file
    BY <1>0, <1>1, LoadInSync DEF LoginConflict
  <2>. QED
    BY <1>1, <2>1, SameIdentities DEF LoginConflict, Holds, Open
<1>2. CASE LoginUnregistered(c, n)
  <2>1. PICK d \in Load(db) :
          /\ ~Registered(d, n)
          /\ clt' = [clt EXCEPT ![c] = [st |-> "AUTH_OK", id |-> d.next,
                                        name |-> n, key |-> NoKey]]
          /\ db' = TakeTempId(d)
    BY <1>2 DEF LoginUnregistered, TempIdSource
  <2>2. Successor(db, d) /\ d.list = db.list /\ d.file = db.file
    BY <1>0, <2>1, LoadSuccessor, LoadInSync
  <2>3. db'.list = db.list /\ db'.file = db.file
    BY <2>1, <2>2 DEF TakeTempId, Successor, Database
  <2>4. \A e \in Conn \ {c} : Holds(e) => clt[e].id # d.next /\ clt[e].name # n
    <3>1. \A e \in Conn : clt[e].id # d.next
      BY <1>0, <2>2 DEF Inv, IdsBehind, TypeOK, Client, Successor, Database, Ids
    <3>2. ~NameInUse(n)
      BY <1>2 DEF LoginUnregistered
    <3>. QED
      BY <3>1, <3>2 DEF NameInUse, Holds
  <2>5. \A e \in db.list : e.id # d.next /\ e.name # n
    BY <1>0, <2>1, <2>2 DEF Successor, Behind, Registered, Database, Account, Ids
  <2>. DEFINE r == [st |-> "AUTH_OK", id |-> d.next, name |-> n, key |-> NoKey]
  <2>6. \A e \in Conn \ {c} : Holds(e) => (clt[e].id = r.id <=> clt[e].name = r.name)
    BY <2>4
  <2>7. \A e \in db.list : e.id = r.id <=> e.name = r.name
    BY <2>5
  <2>8. clt' = [clt EXCEPT ![c] = r]
    BY <2>1
  <2>. HIDE DEF r
  <2>. QED
    BY <1>0, <2>3, <2>6, <2>7, <2>8, NewIdentity
<1>3. CASE LoginRegistered(c, n)
  <2>. DEFINE e == AccountOf(db', n)
              r == [st |-> "LOGIN_OK", id |-> e.id, name |-> n,
                    key |-> IF e.key \in PlainKeys THEN e.key ELSE clt[c].key]
  <2>1. db'.list = db.list /\ db'.file = db.file
    BY <1>0, <1>3, LoadInSync DEF LoginRegistered
  <2>2. e \in db.list /\ e.name = n
    BY <1>3, <2>1, AccountOfFound DEF LoginRegistered
  <2>3. clt' = [clt EXCEPT ![c] = r] /\ r.id = e.id /\ r.name = n
    BY <1>3 DEF LoginRegistered
  <2>4. \A d \in Conn : Holds(d) => (clt[d].id = e.id <=> clt[d].name = n)
    BY <2>2 DEF Agreement, NameIdAgree
  <2>5. \A f \in db.list : f.id = e.id <=> f.name = n
    BY <2>2 DEF Agreement, WellFormed
  <2>6. \A d \in Conn \ {c} : Holds(d) => (clt[d].id = r.id <=> clt[d].name = r.name)
    BY <2>3, <2>4
  <2>7. \A f \in db.list : f.id = r.id <=> f.name = r.name
    BY <2>3, <2>5
  <2>. HIDE DEF e, r
  <2>. QED
    BY <1>0, <2>1, <2>3, <2>6, <2>7, NewIdentity
<1>. QED
  BY <1>1, <1>2, <1>3

LEMMA AuthAgrees ==
  ASSUME Inv, Agreement, NEW c \in Conn,
         \/ AuthMalformed(c) \/ AuthNoKey(c) \/ Logout(c)
         \/ \E k \in Keys : AuthWrong(c, k) \/ AuthOK(c, k)
  PROVE  Agreement'
<1>1. CASE AuthNoKey(c)
  BY <1>1, RestartAgrees DEF AuthNoKey
<1>2. CASE Logout(c)
  <2>1. \A d \in Conn : clt'[d] = IF d = c THEN [Free EXCEPT !.st = "PRE_LOGIN"]
                                           ELSE clt[d]
    BY <1>2 DEF Logout, Inv, TypeOK
  <2>2. [Free EXCEPT !.st = "PRE_LOGIN"].name = NoName
    BY DEF Free
  <2>3. \A d \in Conn : Holds(d)' =>
          Holds(d) /\ clt'[d].id = clt[d].id /\ clt'[d].name = clt[d].name
    BY <2>1, <2>2 DEF Holds, Open
  <2>. QED
    BY <1>2, <2>3, SameIdentities DEF Logout
<1>3. CASE \/ AuthMalformed(c)
           \/ \E k \in Keys : AuthWrong(c, k)
  <2>1. clt' = [clt EXCEPT ![c].st = "PRE_LOGIN"] /\ UNCHANGED db /\ Open(c)
    BY <1>3 DEF AuthMalformed, AuthWrong, Receives
  <2>2. \A d \in Conn : clt'[d].id = clt[d].id /\ clt'[d].name = clt[d].name
                          /\ (d # c => clt'[d] = clt[d])
    BY <2>1 DEF Inv, TypeOK, Client
  <2>. QED
    BY <2>1, <2>2, SameIdentities DEF Holds, Open
<1>4. ASSUME NEW k \in Keys, AuthOK(c, k)
      PROVE  Agreement'
  <2>1. \A d \in Conn : clt'[d] = IF d \in Superseded(c) THEN Free
                                  ELSE IF d = c THEN [clt[c] EXCEPT !.st = "AUTH_OK"]
                                  ELSE clt[d]
    BY <1>4 DEF AuthOK
  <2>2. \A d \in Conn : Holds(d)' =>
          Holds(d) /\ clt'[d].id = clt[d].id /\ clt'[d].name = clt[d].name
    <3>1. Open(c) /\ clt[c] \in Client
      BY <1>4 DEF AuthOK, Receives, Inv, TypeOK
    <3>2. /\ [clt[c] EXCEPT !.st = "AUTH_OK"].id = clt[c].id
          /\ [clt[c] EXCEPT !.st = "AUTH_OK"].name = clt[c].name
      BY <3>1 DEF Client
    <3>3. Free.name = NoName
      BY DEF Free
    <3>4. ASSUME NEW d \in Conn, Holds(d)'
          PROVE  d \notin Superseded(c)
      BY <2>1, <3>3, <3>4 DEF Holds
    <3>. QED
      BY <2>1, <3>1, <3>2, <3>4 DEF Holds, Open
  <2>. QED
    BY <1>4, <2>2, SameIdentities DEF AuthOK
<1>. QED
  BY <1>1, <1>2, <1>3, <1>4

LEMMA AccountsAgree ==
  ASSUME SaveFaults = {}, Inv, Agreement, NEW c \in Conn, Accounts(c)
  PROVE  Agreement'
<1>0. TypeOK /\ db \in Database /\ Behind(db) /\ db.file = db.list
  BY DEF Inv, TypeOK, Agreement
<1>1. CASE RegisterTooEarly(c) \/ RegisterMalformed(c)
  BY <1>1, QueuesOnlyAgrees DEF RegisterTooEarly, RegisterMalformed
<1>2. CASE Drop(c)
  <2>1. PICK d \in Load(db) : db' \in DropEntry(d, clt[c].name)
    BY <1>2 DEF Drop
  <2>2. d \in Database /\ Behind(d) /\ d.list = db.list /\ d.file = db.list
    BY <1>0, <2>1, LoadSuccessor, LoadInSync DEF Successor
  <2>3. db'.list \subseteq db.list /\ db'.file = db'.list
    BY <2>1, <2>2, DropEntryInSync
  <2>4. UNCHANGED clt
    BY <1>2 DEF Drop
  <2>5. NameIdAgree'
    BY <2>3, <2>4 DEF Agreement, NameIdAgree, Holds, Open
  <2>. QED
    BY <2>3, <2>5 DEF Agreement, WellFormed
<1>3. ASSUME NEW k \in PlainKeys, Register(c, k)
      PROVE  Agreement'
  <2>. DEFINE i == clt[c].id
              n == clt[c].name
              e == [id |-> i, name |-> n, key |-> k]
              rest == {f \in db.list : f.name # n}
  <2>1. PICK dropped \in DropEntry(db, n) : \E d \in Load(dropped) :
          db' \in AddEntry(d, i, n, k)
    BY <1>3 DEF Register
  <2>2. PICK d \in Load(dropped) : db' \in AddEntry(d, i, n, k)
    BY <2>1
  <2>3. k \in Keys /\ i \in Ids /\ n \in Names
    BY <1>3, PlainKeysAssumption
       DEF Register, Served, AuthOk, LoggedIn, Inv, Shape, TypeOK, Client, Ids
  <2>4. dropped \in Database /\ Behind(dropped) /\ dropped.list = rest /\ dropped.file = rest
    BY <1>0, <2>1, DropEntrySuccessor, DropEntryInSync DEF Successor
  <2>5. d \in Database /\ Behind(d) /\ d.list = rest /\ d.file = rest
    BY <2>2, <2>4, LoadSuccessor, LoadInSync DEF Successor
  <2>. HIDE DEF i, n, rest
  <2>a. /\ db'.list = IF CanAdd(d, n) THEN d.list \cup {[id |-> i, name |-> n, key |-> k]}
                                      ELSE d.list
        /\ db'.file = db'.list
    BY <2>2, <2>3, <2>5, AddEntryInSync
  <2>6. /\ db'.list = IF CanAdd(d, n) THEN rest \cup {e} ELSE rest
        /\ db'.file = db'.list
    BY <2>a, <2>5
  <2>. USE DEF i, n, rest
  <2>7. CanAdd(d, n) => n \in ValidNames
    BY DEF CanAdd
  <2>8. UNCHANGED clt /\ Holds(c)
    BY <1>3, <2>3, NullAssumption DEF Register, Served, Receives, Holds
  <2>9. \A f \in rest : f.id # i /\ f.name # n
    BY <2>8 DEF Agreement, NameIdAgree
  <2>10. \A x \in Conn : Holds(x) => (clt[x].id = i <=> clt[x].name = n)
    BY <2>8 DEF Agreement, NameIdAgree
  <2>11. e.id = i /\ e.name = n
    OBVIOUS
  <2>. HIDE DEF e, i, n
  <2>12. WellFormed(db.list)'
    BY <2>6, <2>7, <2>9, <2>11 DEF Agreement, WellFormed
  <2>13. NameIdAgree'
    <3>1. \A x, y \in Conn : Holds(x)' /\ Holds(y)' =>
            (clt'[x].id = clt'[y].id <=> clt'[x].name = clt'[y].name)
      BY <2>8 DEF Agreement, NameIdAgree, Holds, Open
    <3>2. \A x \in Conn, f \in db'.list : Holds(x)' =>
            (clt'[x].id = f.id <=> clt'[x].name = f.name)
      BY <2>6, <2>8, <2>10, <2>11 DEF Agreement, NameIdAgree, Holds, Open
    <3>. QED
      BY <3>1, <3>2 DEF NameIdAgree
  <2>. QED
    BY <2>6, <2>12, <2>13 DEF Agreement
<1>. QED
  BY <1>1, <1>2, <1>3 DEF Accounts

LEMMA NextAgrees ==
  ASSUME SaveFaults = {}, Inv, Agreement, [Next]_vars
  PROVE  Agreement'
<1>1. ASSUME NEW c \in Conn, Session(c)
      PROVE  Agreement'
  <2>1. CASE LoginMalformed(c)
    BY <2>1, QueuesOnlyAgrees DEF LoginMalformed
  <2>. QED
    BY <1>1, <2>1, LoginAgrees, AuthAgrees DEF Session
<1>2. ASSUME NEW c \in Conn, Query(c) \/ Relay(c)
      PROVE  Agreement'
  BY <1>2, QueuesOnlyAgrees
     DEF Query, Relay, Ping, Peerlist, Unsupported, BroadcastRefused, Forbidden,
         Forward, Misdirected, ForwardRefused
<1>3. CASE UNCHANGED vars
  BY <1>3, QueuesOnlyAgrees DEF vars
<1>. QED
  BY <1>1, <1>2, <1>3, ConnectionAgrees, AccountsAgree, RestartAgrees DEF Next

LEMMA InitAgrees == Init => Agreement
<1>. SUFFICES ASSUME NEW f \in UserFiles, Start(f)
              PROVE  Agreement
  BY DEF Init
<1>1. f \in SUBSET Account /\ WellFormed(f)
  BY UserFilesAssumption
<1>2. db.list = f /\ db.file = f
  BY <1>1, FreshAgrees DEF Start
<1>3. \A c \in Conn : ~Holds(c)
  BY DEF Start, Holds, Open, Free
<1>. QED
  BY <1>1, <1>2, <1>3 DEF Agreement, NameIdAgree

(* As long as saves succeed, every connection that has a name has the id    *)
(* that goes with it, whatever sequence of LOGIN, AUTH, LOGOUT, REGISTER    *)
(* and DROP led there (srvmain.c:515-644), failed ones included, and across *)
(* restarts.                                                                *)
THEOREM NamesAgree == ASSUME SaveFaults = {} PROVE Spec => []NameIdAgree
<1>1. Init => Agreement
  BY InitAgrees
<1>2. Inv /\ Agreement /\ [Next]_vars => Agreement'
  BY NextAgrees
<1>3. Agreement => NameIdAgree
  BY DEF Agreement
<1>. QED  BY <1>1, <1>2, <1>3, Invariance, PTL DEF Spec

(* And so no two users that are logged in share a name: a CONFLICT for the  *)
(* unregistered, the sweep of AUTH, which goes by id, for the registered.   *)
THEOREM NamesUnique == ASSUME SaveFaults = {} PROVE Spec => []UniqueName
<1>1. Inv /\ NameIdAgree => UniqueName
  BY DEF Inv, Shape, NameIdAgree, UniqueName, UniqueLogin, Holds, Open, AuthOk, LoggedIn
<1>. QED  BY <1>1, NamesAgree, Invariance, PTL

-----------------------------------------------------------------------------
(* The sessions implement Presence *)

LEMMA WhoIs ==
  \A c \in Conn :
    who[c] = IF AuthOk(c) THEN [id |-> clt[c].id, name |-> clt[c].name] ELSE Nobody
  BY DEF who

LEMMA SameClients == ASSUME UNCHANGED clt PROVE UNCHANGED who
  BY DEF who, AuthOk

(* A step after which c, and nobody else, is not logged in. *)
LEMMA LeaveStep ==
  ASSUME Inv, NEW c \in Conn, NEW r \in Client, r.st # "AUTH_OK",
         clt' = [clt EXCEPT ![c] = r]
  PROVE  UNCHANGED who \/ P!Next
<1>1. \A d \in Conn : clt'[d] = IF d = c THEN r ELSE clt[d]
  BY DEF Inv, TypeOK
<1>2. who' = [who EXCEPT ![c] = Nobody]
  BY <1>1 DEF who, AuthOk
<1>3. CASE who[c] = Nobody
  BY <1>2, <1>3 DEF who
<1>4. CASE who[c] # Nobody
  BY <1>2, <1>4 DEF P!Leave, P!Next
<1>. QED
  BY <1>3, <1>4

(* A step after which c is logged in as u, and whoever was is not. *)
LEMMA JoinStep ==
  ASSUME Inv, NEW c \in Conn, ~AuthOk(c), NEW u \in Users,
         \A d \in Conn : AuthOk(d) => (clt[d].id = u.id <=> clt[d].name = u.name),
         \A d \in Conn : who'[d] = IF d = c THEN u
                                    ELSE IF AuthOk(d) /\ clt[d].id = u.id THEN Nobody
                                    ELSE who[d]
  PROVE  P!Next
<1>1. /\ who[c] = Nobody
      /\ who'[c] = u
  BY WhoIs
<1>2. \A v \in P!Online : v.id = u.id <=> v.name = u.name
  <2>. SUFFICES ASSUME NEW v \in P!Online
                PROVE  v.id = u.id <=> v.name = u.name
    OBVIOUS
  <2>1. PICK d \in Conn : v = who[d] /\ v # Nobody
    BY DEF P!Online
  <2>2. AuthOk(d) /\ v = [id |-> clt[d].id, name |-> clt[d].name]
    BY <2>1, WhoIs
  <2>. QED
    BY <2>2
<1>3. \A d \in Conn : who'[d] = IF d = c THEN u ELSE IF who[d] = u THEN Nobody ELSE who[d]
  <2>1. u # Nobody /\ u = [id |-> u.id, name |-> u.name]
    BY DEF Users, Nobody, Ids, NoId
  <2>2. ASSUME NEW d \in Conn
        PROVE  who[d] = u <=> AuthOk(d) /\ clt[d].id = u.id
    <3>1. CASE AuthOk(d)
      <4>1. who[d] = [id |-> clt[d].id, name |-> clt[d].name]
        BY <3>1, WhoIs
      <4>2. clt[d].id = u.id <=> clt[d].name = u.name
        BY <3>1
      <4>. QED
        BY <2>1, <3>1, <4>1, <4>2
    <3>2. CASE ~AuthOk(d)
      BY <2>1, <3>2, WhoIs
    <3>. QED
      BY <3>1, <3>2
  <2>. QED
    BY <2>2
<1>4. who' = [d \in Conn |-> IF d = c THEN u ELSE IF who[d] = u THEN Nobody ELSE who[d]]
  BY <1>3 DEF who
<1>. QED
  BY <1>1, <1>2, <1>4 DEF P!Join, P!Next

LEMMA NextPresence ==
  ASSUME SaveFaults = {}, Inv, Agreement, Inv', Agreement', [Next]_vars
  PROVE  UNCHANGED who \/ P!Next
<1>1. ASSUME NEW c \in Conn, Connection(c)
      PROVE  UNCHANGED who \/ P!Next
  <2>1. [Free EXCEPT !.st = "PRE_LOGIN"] \in Client /\ Free \in Client
        /\ [Free EXCEPT !.st = "PRE_LOGIN"].st = "PRE_LOGIN" /\ Free.st = "INVALID"
    BY DEF Free, Client, States, NoId
  <2>. QED
    BY <1>1, <2>1, LeaveStep, SameClients DEF Connection, Accept, Close, Transmit
<1>2. ASSUME NEW c \in Conn, NEW n \in Names, LoginUnregistered(c, n)
      PROVE  P!Next
  <2>. DEFINE u == [id |-> clt'[c].id, name |-> n]
  <2>1. PICK d \in TempIdSource(db) :
          clt' = [clt EXCEPT ![c] = [st |-> "AUTH_OK", id |-> d.next, name |-> n,
                                     key |-> NoKey]]
    BY <1>2 DEF LoginUnregistered
  <2>2. clt'[c] = [st |-> "AUTH_OK", id |-> d.next, name |-> n, key |-> NoKey]
        /\ \A x \in Conn \ {c} : clt'[x] = clt[x]
    BY <2>1 DEF Inv, TypeOK
  <2>3. AuthOk(c)' /\ ~AuthOk(c) /\ \A x \in Conn \ {c} : AuthOk(x)' <=> AuthOk(x)
    BY <1>2, <2>2 DEF AuthOk, LoginUnregistered
  <2>4. clt'[c].name = n /\ Holds(c)'
    BY <2>2, NullAssumption DEF Holds, Open
  <2>5. u \in Users
    BY <2>3 DEF Users, Inv, Shape, LoggedIn, AuthOk, TypeOK, Client, Ids
  <2>6. \A x \in Conn : AuthOk(x) => (clt[x].id = u.id <=> clt[x].name = u.name)
    <3>1. ASSUME NEW x \in Conn, AuthOk(x)
          PROVE  clt[x].id = u.id <=> clt[x].name = u.name
      <4>1. x # c /\ clt'[x] = clt[x]
        BY <2>2, <2>3, <3>1
      <4>2. Holds(x)
        BY <3>1 DEF Inv, Shape, AuthOk, LoggedIn, Holds, Open
      <4>3. Holds(x)'
        BY <4>1, <4>2 DEF Holds, Open
      <4>. QED
        BY <2>4, <4>1, <4>3 DEF Agreement, NameIdAgree
    <3>. QED
      BY <3>1
  <2>7. \A x \in Conn : who'[x] = IF x = c THEN u
                                   ELSE IF AuthOk(x) /\ clt[x].id = u.id THEN Nobody
                                   ELSE who[x]
    <3>1. who'[c] = u
      BY <2>3, <2>4 DEF who
    <3>2. ASSUME NEW x \in Conn \ {c}
          PROVE  who'[x] = who[x] /\ ~(AuthOk(x) /\ clt[x].id = u.id)
      BY <2>2, <2>3, <3>2 DEF who, Inv, UniqueLogin
    <3>. QED
      BY <3>1, <3>2
  <2>. QED
    BY <2>3, <2>5, <2>6, <2>7, JoinStep
<1>3. ASSUME NEW c \in Conn, NEW k \in Keys, AuthOK(c, k)
      PROVE  P!Next
  <2>. DEFINE u == [id |-> clt[c].id, name |-> clt[c].name]
  <2>1. \A d \in Conn : clt'[d] = IF d \in Superseded(c) THEN Free
                                  ELSE IF d = c THEN [clt[c] EXCEPT !.st = "AUTH_OK"]
                                  ELSE clt[d]
    BY <1>3 DEF AuthOK
  <2>2. clt[c].st = "LOGIN_OK" /\ ~AuthOk(c) /\ Holds(c) /\ clt[c] \in Client
    BY <1>3 DEF AuthOK, Receives, AuthOk, Inv, Shape, LoggedIn, Holds, TypeOK
  <2>3. u \in Users
    BY <2>2 DEF Users, Inv, Shape, LoggedIn, Client, Ids, Holds
  <2>4. \A d \in Conn : AuthOk(d) => Holds(d)
    BY DEF Inv, Shape, AuthOk, LoggedIn, Holds, Open
  <2>5. \A d \in Conn : AuthOk(d) => (clt[d].id = u.id <=> clt[d].name = u.name)
    BY <2>2, <2>4 DEF Agreement, NameIdAgree
  <2>6. c \notin Superseded(c)
    BY DEF Superseded
  <2>7. AuthOk(c)' /\ clt'[c].id = clt[c].id /\ clt'[c].name = clt[c].name
    BY <2>1, <2>2, <2>6 DEF AuthOk, Client
  <2>8. ASSUME NEW d \in Conn \ {c}
        PROVE  who'[d] = IF AuthOk(d) /\ clt[d].id = u.id THEN Nobody ELSE who[d]
    <3>1. CASE d \in Superseded(c)
      <4>1. who'[d] = Nobody /\ clt[d].id = u.id
        BY <2>1, <3>1 DEF who, AuthOk, Free, Superseded
      <4>. QED
        BY <4>1, WhoIs
    <3>2. CASE d \notin Superseded(c)
      <4>1. clt'[d] = clt[d] /\ ~(AuthOk(d) /\ clt[d].id = u.id)
        BY <2>1, <3>2 DEF Superseded, AuthOk, Open
      <4>. QED
        BY <4>1 DEF who, AuthOk
    <3>. QED
      BY <3>1, <3>2
  <2>9. who'[c] = u
    BY <2>7 DEF who
  <2>. QED
    BY <2>2, <2>3, <2>5, <2>8, <2>9, JoinStep
<1>4. ASSUME Restart
      PROVE  P!Next
  BY <1>4 DEF Restart, who, AuthOk, Free, P!Next, P!Shutdown
<1>5. ASSUME NEW c \in Conn, Session(c)
      PROVE  UNCHANGED who \/ P!Next
  <2>1. ASSUME NEW n \in Names, LoginConflict(c, n)
        PROVE  UNCHANGED who
    BY <2>1, SameClients DEF LoginConflict
  <2>2. ASSUME NEW n \in Names, LoginRegistered(c, n)
        PROVE  UNCHANGED who
    <3>1. clt[c].st = "PRE_LOGIN" /\ clt'[c].st = "LOGIN_OK"
          /\ \A d \in Conn \ {c} : clt'[d] = clt[d]
      BY <2>2 DEF LoginRegistered, Inv, TypeOK
    <3>. QED
      BY <3>1 DEF who, AuthOk
  <2>3. CASE AuthMalformed(c) \/ Logout(c) \/ \E k \in Keys : AuthWrong(c, k)
    <3>1. PICK r \in Client : r.st = "PRE_LOGIN" /\ clt' = [clt EXCEPT ![c] = r]
      <4>1. /\ [clt[c] EXCEPT !.st = "PRE_LOGIN"] \in Client
            /\ [Free EXCEPT !.st = "PRE_LOGIN"] \in Client
            /\ [clt[c] EXCEPT !.st = "PRE_LOGIN"].st = "PRE_LOGIN"
            /\ [Free EXCEPT !.st = "PRE_LOGIN"].st = "PRE_LOGIN"
        BY DEF Inv, TypeOK, Free, Client, States, NoId
      <4>2. \/ clt' = [clt EXCEPT ![c] = [clt[c] EXCEPT !.st = "PRE_LOGIN"]]
            \/ clt' = [clt EXCEPT ![c] = [Free EXCEPT !.st = "PRE_LOGIN"]]
        BY <2>3 DEF AuthMalformed, Logout, AuthWrong
      <4>. QED
        BY <4>1, <4>2
    <3>. QED
      BY <3>1, LeaveStep
  <2>4. CASE LoginMalformed(c)
    BY <2>4, SameClients DEF LoginMalformed
  <2>5. CASE AuthNoKey(c)
    BY <2>5, <1>4 DEF AuthNoKey
  <2>. QED
    BY <1>2, <1>3, <1>5, <2>1, <2>2, <2>3, <2>4, <2>5 DEF Session
<1>6. ASSUME NEW c \in Conn, Accounts(c) \/ Query(c) \/ Relay(c)
      PROVE  UNCHANGED who
  BY <1>6, SameClients
     DEF Accounts, RegisterTooEarly, RegisterMalformed, Drop, Register,
         Query, Relay, Ping, Peerlist, Unsupported, BroadcastRefused, Forbidden,
         Forward, Misdirected, ForwardRefused
<1>7. CASE UNCHANGED vars
  BY <1>7, SameClients DEF vars
<1>. QED
  BY <1>1, <1>4, <1>5, <1>6, <1>7 DEF Next

(* As long as saves succeed the handlers keep the promise of Presence: a    *)
(* login moves a user to the new connection in one step, and nobody ever    *)
(* takes the name or the id of somebody else (srvmain.c:559-644).           *)
THEOREM PresenceImplemented == ASSUME SaveFaults = {} PROVE Spec => ImplementsPresence
<1>1. Init => P!Init
  BY DEF Init, Start, P!Init, who, AuthOk, Free
<1>2. Inv /\ Agreement /\ Inv' /\ Agreement' /\ [Next]_vars => [P!Next]_who
  BY NextPresence
<1>3. Init => Agreement
  BY InitAgrees
<1>4. Inv /\ Agreement /\ [Next]_vars => Agreement'
  BY NextAgrees
<1>. QED
  BY <1>1, <1>2, <1>3, <1>4, Invariance, PTL DEF Spec, ImplementsPresence, P!Spec

-----------------------------------------------------------------------------
(* What is in the queues *)

Followed(q, id) ==
  \A i \in 1 .. Len(q) : q[i].dst \notin {NoId, id} => \E j \in i .. Len(q) : EndsIdentity(q[j])

(* A peer list is made from the clients there are, for one of them.         *)
ListsPeers(c, m) ==
  m.type = "PEERLIST" /\ m.class = "RES" => m.peers = Peers /\ AuthOk(c) /\ m.dst = clt[c].id

(* What a step may do to the queue of c, and meanwhile to its id.           *)
QueueStep(c) ==
  \/ sendq'[c] = sendq[c] /\ clt'[c].id = clt[c].id
  \/ sendq[c] # <<>> /\ sendq'[c] = Tail(sendq[c]) /\ clt'[c].id = clt[c].id
  \/ sendq'[c] = <<>>
  \/ \E m \in Message :
       /\ sendq'[c] = Append(sendq[c], m) /\ ListsPeers(c, m)
       /\ EndsIdentity(m) \/ (m.dst \in {NoId, clt[c].id} /\ clt'[c].id = clt[c].id)

LEMMA Queued ==
  ASSUME Inv, NEW c \in Conn, NEW m \in Message, Enqueue(c, m), ListsPeers(c, m),
         EndsIdentity(m) \/ (m.dst \in {NoId, clt[c].id} /\ clt'[c].id = clt[c].id),
         \A d \in Conn \ {c} : clt'[d].id = clt[d].id
  PROVE  \A d \in Conn : QueueStep(d)
<1>1. \A d \in Conn : sendq'[d] = IF d = c THEN Append(sendq[c], m) ELSE sendq[d]
  BY DEF Enqueue, Inv, TypeOK
<1>. QED
  BY <1>1 DEF QueueStep

LEMMA ResponseIs ==
  ASSUME Inv, NEW c \in Conn, NEW t \in Types, NEW dst \in Nat, NEW code \in Codes
  PROVE  /\ Response(c, t, dst, code) \in Message /\ ErrorResponse(c, t, dst, code) \in Message
         /\ Response(c, t, dst, code).dst \in {NoId, clt[c].id}
         /\ ErrorResponse(c, t, dst, code).dst \in {NoId, clt[c].id}
         /\ t # "PEERLIST" => ListsPeers(c, Response(c, t, dst, code))
         /\ ListsPeers(c, ErrorResponse(c, t, dst, code))
         /\ t \in {"LOGIN", "LOGOUT"} /\ dst = NoId =>
              EndsIdentity(Response(c, t, dst, code)) /\ EndsIdentity(ErrorResponse(c, t, dst, code))
<1>1. Response(c, t, dst, code) \in Message /\ ErrorResponse(c, t, dst, code) \in Message
  BY ResponseType DEF Inv
<1>2. /\ Response(c, t, dst, code) =
           [type |-> t, class |-> "RES", code |-> code, src |-> dst, dst |-> SourceId(c), peers |-> {}]
      /\ ErrorResponse(c, t, dst, code) =
           [type |-> t, class |-> "ERR", code |-> code, src |-> dst, dst |-> SourceId(c), peers |-> {}]
  BY DEF Response, ErrorResponse
<1>3. SourceId(c) \in {NoId, clt[c].id}
  BY DEF SourceId
<1>. QED
  BY <1>1, <1>2, <1>3 DEF ListsPeers, EndsIdentity

(* A response or an error to c, with the ids of all connections kept.       *)
LEMMA AnswerQueued ==
  ASSUME Inv, NEW c \in Conn, NEW t \in Types, NEW dst \in Nat, NEW code \in Codes,
         \/ t # "PEERLIST" /\ Enqueue(c, Response(c, t, dst, code))
         \/ Enqueue(c, ErrorResponse(c, t, dst, code)),
         \A d \in Conn : clt'[d].id = clt[d].id
  PROVE  \A d \in Conn : QueueStep(d)
BY Queued, ResponseIs

(* The answer to a LOGIN or LOGOUT, whatever becomes of the id of c.        *)
LEMMA IdentityEnded ==
  ASSUME Inv, NEW c \in Conn, NEW t \in {"LOGIN", "LOGOUT"}, NEW code \in Codes,
         Reply(c, t, code) \/ Fail(c, t, code),
         \A d \in Conn \ {c} : clt'[d].id = clt[d].id
  PROVE  \A d \in Conn : QueueStep(d)
<1>1. t \in Types /\ t # "PEERLIST" /\ NoId \in Nat
  BY DEF Types, NoId
<1>. QED
  BY <1>1, Queued, ResponseIs DEF Reply, Fail

LEMMA SessionQueues ==
  ASSUME Inv, NEW c \in Conn, Session(c)
  PROVE  \A d \in Conn : QueueStep(d)
<1>. USE DEF Types, Codes
<1>0. NoId \in Nat /\ clt \in [Conn -> Client] /\ sendq \in [Conn -> Seq(Message)] /\ clt[c] \in Client
  BY DEF NoId, Inv, TypeOK
<1>1. ASSUME NEW n \in Names, LoginConflict(c, n)
      PROVE  \A d \in Conn : QueueStep(d)
  BY <1>1, IdentityEnded DEF LoginConflict
<1>2. ASSUME NEW n \in Names, LoginUnregistered(c, n)
      PROVE  \A d \in Conn : QueueStep(d)
  <2>1. \A d \in Conn \ {c} : clt'[d].id = clt[d].id
    BY <1>0, <1>2 DEF LoginUnregistered
  <2>. QED
    BY <1>2, <2>1, IdentityEnded DEF LoginUnregistered
<1>3. ASSUME NEW n \in Names, LoginRegistered(c, n)
      PROVE  \A d \in Conn : QueueStep(d)
  <2>1. \A d \in Conn \ {c} : clt'[d].id = clt[d].id
    BY <1>0, <1>3 DEF LoginRegistered
  <2>2. Reply(c, "LOGIN", "CHALLENGE") \/ Fail(c, "LOGIN", "METHOD_NOT_ALLOWED")
    BY <1>3 DEF LoginRegistered
  <2>. QED
    BY <2>1, <2>2, IdentityEnded
<1>4. ASSUME clt' = [clt EXCEPT ![c].st = "PRE_LOGIN"],
             Fail(c, "AUTH", "BAD_REQUEST") \/ Fail(c, "AUTH", "UNAUTHORIZED")
      PROVE  \A d \in Conn : QueueStep(d)
  <2>1. \A d \in Conn : clt'[d].id = clt[d].id
    BY <1>0, <1>4 DEF Client
  <2>. QED
    BY <1>0, <1>4, <2>1, AnswerQueued DEF Fail
<1>5. ASSUME NEW k \in Keys, AuthOK(c, k)
      PROVE  \A d \in Conn : QueueStep(d)
  <2>1. \A d \in Conn : clt'[d] = IF d \in Superseded(c) THEN Free
                                  ELSE IF d = c THEN [clt[c] EXCEPT !.st = "AUTH_OK"]
                                  ELSE clt[d]
    BY <1>5 DEF AuthOK
  <2>2. \A d \in Conn : sendq'[d] = IF d \in Superseded(c) THEN <<>>
                                    ELSE IF d = c
                                      THEN Append(sendq[c], Response(c, "AUTH", NoId, "OK"))
                                    ELSE sendq[d]
    BY <1>5 DEF AuthOK
  <2>3. clt'[c].id = clt[c].id /\ c \notin Superseded(c)
    BY <1>0, <2>1 DEF Superseded, Client
  <2>4. QueueStep(c)
    <3>1. /\ Response(c, "AUTH", NoId, "OK") \in Message
          /\ ListsPeers(c, Response(c, "AUTH", NoId, "OK"))
          /\ Response(c, "AUTH", NoId, "OK").dst \in {NoId, clt[c].id}
      BY <1>0, ResponseIs
    <3>. QED
      BY <2>2, <2>3, <3>1 DEF QueueStep
  <2>. QED
    BY <2>1, <2>2, <2>4 DEF QueueStep
<1>6. ASSUME LoginMalformed(c)
      PROVE  \A d \in Conn : QueueStep(d)
  BY <1>6, IdentityEnded DEF LoginMalformed
<1>7. ASSUME AuthNoKey(c)
      PROVE  \A d \in Conn : QueueStep(d)
  BY <1>7 DEF AuthNoKey, Restart, QueueStep
<1>8. ASSUME Logout(c)
      PROVE  \A d \in Conn : QueueStep(d)
  <2>1. \A d \in Conn \ {c} : clt'[d].id = clt[d].id
    BY <1>0, <1>8 DEF Logout
  <2>. QED
    BY <1>8, <2>1, IdentityEnded DEF Logout
<1>. QED
  BY <1>1, <1>2, <1>3, <1>4, <1>5, <1>6, <1>7, <1>8 DEF Session, AuthMalformed, AuthWrong

LEMMA OtherQueues ==
  ASSUME Inv, NEW c \in Conn, Connection(c) \/ Accounts(c) \/ Query(c) \/ Relay(c)
  PROVE  \A d \in Conn : QueueStep(d)
<1>. USE DEF Types, Codes
<1>0. /\ NoId \in Nat /\ Broadcast \in Nat /\ Traffic \subseteq Types /\ Destinations \subseteq Nat
      /\ clt \in [Conn -> Client] /\ sendq \in [Conn -> Seq(Message)] /\ clt[c] \in Client
  BY BoundsAssumption, TrafficAssumption, DestinationsAssumption DEF NoId, Broadcast, Inv, TypeOK
<1>1. ASSUME Connection(c) PROVE \A d \in Conn : QueueStep(d)
  <2>1. CASE Accept(c)
    <3>1. clt[c].id = NoId
      BY <2>1 DEF Accept, Inv, Shape, Free
    <3>2. [Free EXCEPT !.st = "PRE_LOGIN"].id = NoId
      BY DEF Free
    <3>3. \A d \in Conn : clt'[d].id = clt[d].id /\ sendq'[d] = sendq[d]
      BY <1>0, <2>1, <3>1, <3>2 DEF Accept
    <3>. QED
      BY <3>3 DEF QueueStep
  <2>2. CASE Close(c)
    BY <1>0, <2>2 DEF Close, QueueStep
  <2>3. CASE Transmit(c)
    BY <1>0, <2>3 DEF Transmit, QueueStep
  <2>. QED
    BY <1>1, <2>1, <2>2, <2>3 DEF Connection
<1>2. ASSUME Accounts(c) PROVE \A d \in Conn : QueueStep(d)
  <2>1. UNCHANGED clt
    BY <1>2 DEF Accounts, RegisterTooEarly, RegisterMalformed, Drop, Register
  <2>2. \/ \E t \in {"REGISTER", "DROP"} : Reply(c, t, "OK")
        \/ \E t \in {"REGISTER", "DROP"}, code \in Codes : Fail(c, t, code)
    BY <1>2 DEF Accounts, RegisterTooEarly, RegisterMalformed, Drop, Register
  <2>. QED
    BY <1>0, <2>1, <2>2, AnswerQueued DEF Reply, Fail
<1>3. ASSUME Peerlist(c) PROVE \A d \in Conn : QueueStep(d)
  <2>. DEFINE m == [Response(c, "PEERLIST", NoId, "OK") EXCEPT !.peers = Peers]
  <2>1. m = [type |-> "PEERLIST", class |-> "RES", code |-> "OK",
             src |-> NoId, dst |-> clt[c].id, peers |-> Peers]
    BY <1>3 DEF Response, Peerlist, Served, SourceId, AuthOk, LoggedIn
  <2>2. Peers \subseteq Peer
    BY DEF Peers, Peer, Inv, TypeOK, Client, Ids, Shape, LoggedIn, AuthOk
  <2>3. m \in Message
    BY <1>0, <2>1, <2>2 DEF Message, Classes, Client
  <2>4. ListsPeers(c, m) /\ m.dst \in {NoId, clt[c].id}
    BY <1>3, <2>1 DEF ListsPeers, Peerlist, Served
  <2>5. Enqueue(c, m) /\ \A d \in Conn : clt'[d].id = clt[d].id
    BY <1>3 DEF Peerlist
  <2>. HIDE DEF m
  <2>. QED
    BY <2>3, <2>4, <2>5, Queued
<1>4. ASSUME Query(c) PROVE \A d \in Conn : QueueStep(d)
  <2>1. UNCHANGED clt
    BY <1>4 DEF Query, Ping, Peerlist, Unsupported, BroadcastRefused, Forbidden
  <2>2. CASE Ping(c)
    BY <1>0, <2>1, <2>2, AnswerQueued DEF Ping, Reply
  <2>3. ASSUME NEW t \in Traffic, Unsupported(c, t) PROVE \A d \in Conn : QueueStep(d)
    BY <1>0, <2>1, <2>3, AnswerQueued DEF Unsupported, Fail
  <2>4. ASSUME NEW t \in Traffic, BroadcastRefused(c, t) PROVE \A d \in Conn : QueueStep(d)
    <3>1. t \in Types /\ Enqueue(c, ErrorResponse(c, t, Broadcast, "NOT_IMPLEMENTED"))
      BY <1>0, <2>4 DEF BroadcastRefused
    <3>. QED
      BY <1>0, <2>1, <3>1, AnswerQueued
  <2>5. ASSUME NEW t \in Traffic, NEW cl \in Classes, NEW dst \in Destinations, Forbidden(c, t, cl, dst)
        PROVE  \A d \in Conn : QueueStep(d)
    <3>1. t \in Types /\ dst \in Nat /\ Enqueue(c, ErrorResponse(c, t, dst, "FORBIDDEN"))
      BY <1>0, <2>5 DEF Forbidden
    <3>. QED
      BY <1>0, <2>1, <3>1, AnswerQueued
  <2>. QED
    BY <1>3, <1>4, <2>2, <2>3, <2>4, <2>5 DEF Query
<1>5. ASSUME Relay(c) PROVE \A d \in Conn : QueueStep(d)
  <2>1. UNCHANGED clt
    BY <1>5 DEF Relay, Forward, Misdirected, ForwardRefused
  <2>2. ASSUME NEW t \in Traffic, NEW d \in Conn, NEW cl \in Classes, Forward(c, d, t, cl)
        PROVE  \A x \in Conn : QueueStep(x)
    <3>. DEFINE m == [type |-> t, class |-> cl, code |-> "",
                      src |-> clt[c].id, dst |-> clt[d].id, peers |-> {}]
    <3>1. m \in Message /\ m.dst = clt[d].id
      BY <1>0 DEF Message, Client
    <3>2. ListsPeers(d, m)
      BY <2>2 DEF Forward, Forwardable, ListsPeers
    <3>3. Enqueue(d, m)
      BY <2>2 DEF Forward
    <3>. HIDE DEF m
    <3>. QED
      BY <2>1, <3>1, <3>2, <3>3, Queued
  <2>3. ASSUME NEW t \in Traffic, NEW dst \in Destinations, Misdirected(c, t, dst) \/ ForwardRefused(c, t, dst)
        PROVE  \A d \in Conn : QueueStep(d)
    <3>1. t \in Types /\ dst \in Nat
      BY <1>0
    <3>2. PICK code \in Codes : Enqueue(c, ErrorResponse(c, t, dst, code))
      BY <2>3 DEF Misdirected, ForwardRefused
    <3>3. \A d \in Conn : clt'[d].id = clt[d].id
      BY <2>1
    <3>. HIDE DEF Types, Codes
    <3>. QED
      BY <3>1, <3>2, <3>3, AnswerQueued
  <2>. QED
    BY <1>5, <2>2, <2>3 DEF Relay
<1>. QED
  BY <1>1, <1>2, <1>4, <1>5

LEMMA NextQueues == ASSUME Inv, [Next]_vars PROVE \A c \in Conn : QueueStep(c)
<1>1. CASE Restart
  BY <1>1 DEF Restart, QueueStep
<1>2. CASE UNCHANGED vars
  BY <1>2 DEF vars, QueueStep
<1>. QED
  BY <1>1, <1>2, SessionQueues, OtherQueues DEF Next

LEMMA FollowedStep ==
  ASSUME Inv, NEW c \in Conn, QueueStep(c), Followed(sendq[c], clt[c].id)
  PROVE  Followed(sendq'[c], clt'[c].id)
<1>. DEFINE q == sendq[c]
<1>1. q \in Seq(Message) /\ Len(q) \in Nat
  BY DEF Inv, TypeOK
<1>2. CASE q # <<>> /\ sendq'[c] = Tail(q) /\ clt'[c].id = clt[c].id
  <2>1. Len(Tail(q)) = Len(q) - 1 /\ \A i \in 1 .. Len(q) - 1 : Tail(q)[i] = q[i + 1]
    BY <1>1, <1>2
  <2>2. ASSUME NEW i \in 1 .. Len(q) - 1, Tail(q)[i].dst \notin {NoId, clt[c].id}
        PROVE  \E j \in i .. Len(q) - 1 : EndsIdentity(Tail(q)[j])
    <3>1. i + 1 \in 1 .. Len(q) /\ q[i + 1].dst \notin {NoId, clt[c].id}
      BY <1>1, <2>1, <2>2
    <3>2. PICK k \in i + 1 .. Len(q) : EndsIdentity(q[k])
      BY <3>1 DEF Followed
    <3>3. k - 1 \in i .. Len(q) - 1 /\ k - 1 \in 1 .. Len(q) - 1 /\ (k - 1) + 1 = k
      BY <1>1, <3>1
    <3>. QED
      BY <2>1, <3>2, <3>3
  <2>3. Followed(Tail(q), clt[c].id)
    BY <2>1, <2>2 DEF Followed
  <2>. QED
    BY <1>2, <2>3
<1>3. CASE sendq'[c] = <<>>
  BY <1>3 DEF Followed
<1>4. ASSUME NEW m \in Message, sendq'[c] = Append(q, m),
             EndsIdentity(m) \/ (m.dst \in {NoId, clt[c].id} /\ clt'[c].id = clt[c].id)
      PROVE  Followed(sendq'[c], clt'[c].id)
  <2>1. /\ Len(Append(q, m)) = Len(q) + 1 /\ Append(q, m)[Len(q) + 1] = m
        /\ \A i \in 1 .. Len(q) : Append(q, m)[i] = q[i]
    BY <1>1
  <2>2. SUFFICES ASSUME NEW i \in 1 .. Len(q) + 1, Append(q, m)[i].dst \notin {NoId, clt'[c].id}
                 PROVE  \E j \in i .. Len(q) + 1 : EndsIdentity(Append(q, m)[j])
    BY <1>4, <2>1 DEF Followed
  <2>3. CASE EndsIdentity(m)
    BY <1>1, <2>1, <2>3
  <2>4. CASE m.dst \in {NoId, clt[c].id} /\ clt'[c].id = clt[c].id
    <3>1. i \in 1 .. Len(q)
      BY <1>1, <2>1, <2>2, <2>4
    <3>2. PICK j \in i .. Len(q) : EndsIdentity(q[j])
      BY <2>1, <2>2, <2>4, <3>1 DEF Followed
    <3>3. j \in i .. Len(q) + 1 /\ j \in 1 .. Len(q)
      BY <1>1, <3>1
    <3>. QED
      BY <2>1, <3>2, <3>3
  <2>. QED
    BY <1>4, <2>3, <2>4
<1>. QED
  BY <1>2, <1>3, <1>4 DEF QueueStep

(* Whatever is queued for an identity that the connection does not have any *)
(* more (srvmain.c:457, 598, 632-641) is followed by the answer that ended  *)
(* it, however saves fail and in any order of LOGIN, AUTH and LOGOUT.       *)
THEOREM MailFollows == Spec => []MailFollowsIdentity
<1>. DEFINE M == \A c \in Conn : Followed(sendq[c], clt[c].id)
<1>1. Init => M
  BY DEF Init, Start, Followed
<1>2. Inv /\ M /\ [Next]_vars => M'
  BY NextQueues, FollowedStep
<1>3. Inv /\ M => MailFollowsIdentity
  BY DEF Inv, TypeOK, Followed, MailFollowsIdentity
<1>. HIDE DEF M
<1>. QED
  BY <1>1, <1>2, <1>3, Invariance, PTL DEF Spec

(* A peer list as it goes out: nobody is on it twice.                       *)
Unambiguous(m) ==
  m.type = "PEERLIST" /\ m.class = "RES" =>
    /\ \E p \in m.peers : p.id = m.dst
    /\ \A p, q \in m.peers : p.id = q.id \/ p.name = q.name => p = q

LEMMA ListUnambiguous ==
  ASSUME Inv, NameIdAgree, NEW c \in Conn, NEW m, ListsPeers(c, m)
  PROVE  Unambiguous(m)
<1>. SUFFICES ASSUME m.peers = Peers, AuthOk(c), m.dst = clt[c].id
              PROVE  /\ \E p \in m.peers : p.id = m.dst
                     /\ \A p, q \in m.peers : p.id = q.id \/ p.name = q.name => p = q
  BY DEF ListsPeers, Unambiguous
<1>1. [id |-> clt[c].id, name |-> clt[c].name] \in Peers
  BY DEF Peers
<1>2. ASSUME NEW p \in Peers, NEW q \in Peers, p.id = q.id \/ p.name = q.name
      PROVE  p = q
  <2>1. PICK d \in Conn : AuthOk(d) /\ p = [id |-> clt[d].id, name |-> clt[d].name]
    BY DEF Peers
  <2>2. PICK e \in Conn : AuthOk(e) /\ q = [id |-> clt[e].id, name |-> clt[e].name]
    BY DEF Peers
  <2>3. Holds(d) /\ Holds(e)
    BY <2>1, <2>2 DEF Inv, Shape, Holds, Open, AuthOk, LoggedIn
  <2>4. clt[d].id = clt[e].id
    BY <1>2, <2>1, <2>2, <2>3 DEF NameIdAgree
  <2>5. d = e
    BY <2>1, <2>2, <2>4 DEF Inv, UniqueLogin
  <2>. QED
    BY <2>1, <2>2, <2>5
<1>. QED
  BY <1>1, <1>2

LEMMA UnambiguousStep ==
  ASSUME Inv, NameIdAgree, NEW c \in Conn, QueueStep(c),
         \A i \in 1 .. Len(sendq[c]) : Unambiguous(sendq[c][i])
  PROVE  \A i \in 1 .. Len(sendq'[c]) : Unambiguous(sendq'[c][i])
<1>. DEFINE q == sendq[c]
<1>1. q \in Seq(Message) /\ Len(q) \in Nat
  BY DEF Inv, TypeOK
<1>2. CASE q # <<>> /\ sendq'[c] = Tail(q)
  <2>1. Len(Tail(q)) = Len(q) - 1 /\ \A i \in 1 .. Len(q) - 1 : Tail(q)[i] = q[i + 1]
    BY <1>1, <1>2
  <2>2. \A i \in 1 .. Len(q) - 1 : i + 1 \in 1 .. Len(q)
    BY <1>1
  <2>3. \A i \in 1 .. Len(Tail(q)) : Unambiguous(Tail(q)[i])
    BY <2>1, <2>2
  <2>. QED
    BY <1>2, <2>3
<1>3. ASSUME NEW m \in Message, sendq'[c] = Append(q, m), ListsPeers(c, m)
      PROVE  \A i \in 1 .. Len(sendq'[c]) : Unambiguous(sendq'[c][i])
  <2>1. /\ Len(Append(q, m)) = Len(q) + 1 /\ Append(q, m)[Len(q) + 1] = m
        /\ \A i \in 1 .. Len(q) : Append(q, m)[i] = q[i]
    BY <1>1
  <2>2. \A i \in 1 .. Len(q) + 1 : i = Len(q) + 1 \/ i \in 1 .. Len(q)
    BY <1>1
  <2>3. Unambiguous(m)
    BY <1>3, ListUnambiguous
  <2>4. \A i \in 1 .. Len(Append(q, m)) : Unambiguous(Append(q, m)[i])
    BY <2>1, <2>2, <2>3
  <2>. QED
    BY <1>3, <2>4
<1>4. CASE sendq'[c] = <<>>
  BY <1>4
<1>5. CASE sendq'[c] = q
  BY <1>5
<1>. QED
  BY <1>2, <1>3, <1>4, <1>5 DEF QueueStep

(* As long as saves succeed, no peer list that waits to be sent names a     *)
(* user twice or leaves the asker out (srvmain.c:645-670), which is what    *)
(* the sweep of AUTH and the check of LOGIN are for.                        *)
THEOREM PeerlistsUnambiguous == ASSUME SaveFaults = {} PROVE Spec => []PeerlistUnambiguous
<1>. DEFINE M == \A c \in Conn : \A i \in 1 .. Len(sendq[c]) : Unambiguous(sendq[c][i])
<1>1. Init => M
  BY DEF Init, Start
<1>2. Inv /\ NameIdAgree /\ M /\ [Next]_vars => M'
  BY NextQueues, UnambiguousStep
<1>3. Inv /\ M => PeerlistUnambiguous
  BY DEF Inv, TypeOK, Unambiguous, PeerlistUnambiguous
<1>. HIDE DEF M
<1>. QED
  BY <1>1, <1>2, <1>3, Invariance, NamesAgree, PTL DEF Spec

-----------------------------------------------------------------------------
(* Whose account it is *)

(* What DROP and REGISTER take off the list is the account of the client.   *)
LEMMA OwnAccount ==
  ASSUME SaveFaults = {}, Inv, Agreement, NEW c \in Conn, Accounts(c),
         NEW e \in db.list, e \notin db'.list
  PROVE  AuthOk(c) /\ clt[c].name = e.name /\ clt[c].id = e.id
<1>0. db \in Database /\ Behind(db) /\ db.file = db.list
  BY DEF Inv, TypeOK, Agreement
<1>1. AuthOk(c) /\ clt[c].name = e.name
  <2>1. CASE RegisterTooEarly(c) \/ RegisterMalformed(c)
    BY <2>1 DEF RegisterTooEarly, RegisterMalformed
  <2>2. CASE Drop(c)
    <3>1. PICK d \in Load(db) : db' \in DropEntry(d, clt[c].name)
      BY <2>2 DEF Drop
    <3>2. d \in Database /\ Behind(d) /\ d.list = db.list /\ d.file = db.list
      BY <1>0, <3>1, LoadSuccessor, LoadInSync DEF Successor
    <3>3. db'.list = {f \in db.list : f.name # clt[c].name}
      BY <3>1, <3>2, DropEntryInSync
    <3>. QED
      BY <2>2, <3>3 DEF Drop, Served
  <2>3. ASSUME NEW k \in PlainKeys, Register(c, k)
        PROVE  AuthOk(c) /\ clt[c].name = e.name
    <3>. DEFINE i == clt[c].id
                n == clt[c].name
                rest == {f \in db.list : f.name # n}
    <3>1. PICK dropped \in DropEntry(db, n) : \E d \in Load(dropped) :
            db' \in AddEntry(d, i, n, k)
      BY <2>3 DEF Register
    <3>2. PICK d \in Load(dropped) : db' \in AddEntry(d, i, n, k)
      BY <3>1
    <3>3. k \in Keys /\ i \in Ids /\ n \in Names
      BY <2>3, PlainKeysAssumption
         DEF Register, Served, AuthOk, LoggedIn, Inv, Shape, TypeOK, Client, Ids
    <3>4. dropped \in Database /\ Behind(dropped) /\ dropped.list = rest /\ dropped.file = rest
      BY <1>0, <3>1, DropEntrySuccessor, DropEntryInSync DEF Successor
    <3>5. d \in Database /\ Behind(d) /\ d.list = rest /\ d.file = rest
      BY <3>2, <3>4, LoadSuccessor, LoadInSync DEF Successor
    <3>. HIDE DEF i, n, rest
    <3>8. d \in Database /\ Behind(d) /\ d.file = d.list
      BY <3>5
    <3>6. /\ db'.list = IF CanAdd(d, n) THEN d.list \cup {[id |-> i, name |-> n, key |-> k]}
                                        ELSE d.list
          /\ db'.file = db'.list
      BY <3>2, <3>3, <3>8, AddEntryInSync
    <3>7. rest \subseteq db'.list
      BY <3>5, <3>6
    <3>. USE DEF i, n, rest
    <3>. QED
      BY <2>3, <3>7 DEF Register, Served
  <2>. QED
    BY <2>1, <2>2, <2>3 DEF Accounts
<1>2. Holds(c)
  BY <1>1 DEF Inv, Shape, Holds, Open, AuthOk, LoggedIn
<1>. QED
  BY <1>1, <1>2 DEF Agreement, NameIdAgree

(* The other steps keep the list of accounts: a LOGIN or a restart may load *)
(* it again, and finds what was there.                                      *)
LEMMA AccountsKept ==
  ASSUME Inv, Agreement, NEW c \in Conn,
         Connection(c) \/ Session(c) \/ Query(c) \/ Relay(c)
  PROVE  db'.list = db.list
<1>0. db \in Database /\ db.file = db.list /\ db.file \in SUBSET Account /\ WellFormed(db.file)
  BY DEF Inv, TypeOK, Agreement, Database
<1>1. ASSUME NEW n \in Names, LoginConflict(c, n) \/ LoginRegistered(c, n)
      PROVE  db'.list = db.list
  BY <1>0, <1>1, LoadInSync DEF LoginConflict, LoginRegistered
<1>2. ASSUME NEW n \in Names, LoginUnregistered(c, n)
      PROVE  db'.list = db.list
  <2>1. PICK d \in Load(db) : db' = TakeTempId(d)
    BY <1>2 DEF LoginUnregistered, TempIdSource
  <2>2. d.list = db.list
    BY <1>0, <2>1, LoadInSync
  <2>3. d \in Database
    BY <1>0, <2>1, LoadSuccessor DEF Inv, Successor
  <2>. QED
    BY <2>1, <2>2, <2>3 DEF TakeTempId, Database
<1>3. CASE AuthNoKey(c)
  BY <1>0, <1>3, FreshAgrees DEF AuthNoKey, Restart
<1>4. ASSUME \/ Connection(c) \/ Query(c) \/ Relay(c)
             \/ LoginMalformed(c) \/ AuthMalformed(c) \/ Logout(c)
             \/ \E k \in Keys : AuthWrong(c, k) \/ AuthOK(c, k)
      PROVE  db'.list = db.list
  BY <1>4
     DEF Connection, Accept, Close, Transmit, LoginMalformed, AuthMalformed, Logout, AuthWrong,
         AuthOK, Query, Relay, Ping, Peerlist, Unsupported, BroadcastRefused, Forbidden,
         Forward, Misdirected, ForwardRefused
<1>. QED
  BY <1>1, <1>2, <1>3, <1>4 DEF Session

(* As long as saves succeed an account is dropped, or given another key,    *)
(* only by the client that is logged in under its name and its id           *)
(* (srvmain.c:515-558): REGISTER and DROP go by the name of the connection, *)
(* which a LOGIN in any state may have set.                                 *)
THEOREM OwnersOnly == ASSUME SaveFaults = {} PROVE Spec => OwnerOnly
<1>. DEFINE A == \A e \in db.list \ db'.list :
                    \E c \in Conn : AuthOk(c) /\ clt[c].name = e.name /\ clt[c].id = e.id
<1>1. Inv /\ Agreement /\ [Next]_vars => [A]_vars
  <2>. SUFFICES ASSUME Inv, Agreement, Next, NEW e \in db.list, e \notin db'.list
                PROVE  \E c \in Conn : AuthOk(c) /\ clt[c].name = e.name /\ clt[c].id = e.id
    OBVIOUS
  <2>1. CASE Restart
    <3>1. db.file \in SUBSET Account /\ WellFormed(db.file) /\ db.file = db.list
      BY DEF Inv, TypeOK, Database, Agreement
    <3>. QED
      BY <2>1, <3>1, FreshAgrees DEF Restart
  <2>. QED
    BY <2>1, OwnAccount, AccountsKept DEF Next
<1>2. Init => Agreement
  BY InitAgrees
<1>3. Inv /\ Agreement /\ [Next]_vars => Agreement'
  BY NextAgrees
<1>. HIDE DEF A
<1>4. Spec => [][A]_vars
  BY <1>1, <1>2, <1>3, Invariance, PTL DEF Spec
<1>. QED
  BY <1>4 DEF A, OwnerOnly

-----------------------------------------------------------------------------
(* Who gets in *)

(* The only two ways into AUTH_OK.                                          *)
LEMMA LogsIn ==
  ASSUME Inv, [Next]_vars, NEW c \in Conn, ~AuthOk(c), AuthOk(c)', clt[c].st # "LOGIN_OK"
  PROVE  \E n \in Names : LoginUnregistered(c, n)
<1>0. clt \in [Conn -> Client]
  BY DEF Inv, TypeOK
<1>1. ASSUME Restart \/ UNCHANGED clt
      PROVE  FALSE
  BY <1>1 DEF Restart, AuthOk, Free
<1>2. ASSUME NEW d \in Conn, Connection(d)
      PROVE  FALSE
  BY <1>0, <1>2 DEF Connection, Accept, Close, Transmit, AuthOk, Free
<1>3. ASSUME NEW d \in Conn, Session(d)
      PROVE  \E n \in Names : LoginUnregistered(c, n)
  <2>1. ASSUME NEW n \in Names, LoginUnregistered(d, n)
        PROVE  c = d
    BY <1>0, <2>1 DEF LoginUnregistered, AuthOk
  <2>2. ASSUME NEW k \in Keys, AuthOK(d, k)
        PROVE  FALSE
    BY <2>2 DEF AuthOK, AuthOk, Free
  <2>3. ASSUME LoginMalformed(d) \/ AuthNoKey(d) \/ \E n \in Names : LoginConflict(d, n)
        PROVE  FALSE
    BY <1>1, <2>3 DEF LoginMalformed, AuthNoKey, LoginConflict
  <2>4. ASSUME NEW n \in Names, LoginRegistered(d, n)
        PROVE  FALSE
    BY <1>0, <2>4 DEF LoginRegistered, AuthOk
  <2>5. ASSUME AuthMalformed(d) \/ Logout(d) \/ \E k \in Keys : AuthWrong(d, k)
        PROVE  FALSE
    <3>1. clt[c] \in Client /\ clt[d] \in Client
      BY <1>0, <2>5 DEF AuthMalformed, Logout, AuthWrong
    <3>. QED
      BY <1>0, <2>5, <3>1 DEF AuthMalformed, Logout, AuthWrong, AuthOk, Free, Client
  <2>. QED
    BY <1>3, <2>1, <2>2, <2>3, <2>4, <2>5 DEF Session
<1>4. ASSUME NEW d \in Conn, Accounts(d) \/ Query(d) \/ Relay(d)
      PROVE  UNCHANGED clt
  BY <1>4
     DEF Accounts, RegisterTooEarly, RegisterMalformed, Drop, Register,
         Query, Relay, Ping, Peerlist, Unsupported, BroadcastRefused, Forbidden,
         Forward, Misdirected, ForwardRefused
<1>. QED
  BY <1>1, <1>2, <1>3, <1>4 DEF Next, vars

(* Whatever becomes of saves, nobody is logged in under the name or the id  *)
(* of an account without having been sent the challenge for it: an          *)
(* unregistered name gets an id the counter has not given to any account    *)
(* (srvmain.c:559-603, srvuserdb.c:udb_gettempid).                          *)
THEOREM LoginsNeedKey == Spec => LoginNeedsKey
<1>. DEFINE A == \A c \in Conn : ~AuthOk(c) /\ AuthOk(c)' =>
                    \A e \in db.list :
                      clt'[c].name = e.name \/ clt'[c].id = e.id => clt[c].st = "LOGIN_OK"
<1>1. Inv /\ [Next]_vars => [A]_vars
  <2>. SUFFICES ASSUME Inv, [Next]_vars, NEW c \in Conn, ~AuthOk(c), AuthOk(c)',
                       NEW e \in db.list, clt'[c].name = e.name \/ clt'[c].id = e.id,
                       clt[c].st # "LOGIN_OK"
                PROVE  FALSE
    OBVIOUS
  <2>1. PICK n \in Names : LoginUnregistered(c, n)
    BY LogsIn
  <2>2. PICK d \in Load(db) :
          /\ ~Registered(d, n)
          /\ clt' = [clt EXCEPT ![c] = [st |-> "AUTH_OK", id |-> d.next, name |-> n,
                                        key |-> NoKey]]
    BY <2>1 DEF LoginUnregistered, TempIdSource
  <2>3. d = db
    BY DEF Load
  <2>4. clt'[c].name = n /\ clt'[c].id = db.next
    BY <2>2, <2>3 DEF Inv, TypeOK
  <2>5. e.name # n
    BY <2>2, <2>3 DEF Registered
  <2>6. e.id < db.next /\ e.id \in Nat /\ db.next \in Nat
    BY DEF Inv, Behind, TypeOK, Database, Account, Ids
  <2>. QED
    BY <2>4, <2>5, <2>6
<1>. HIDE DEF A
<1>2. Spec => [][A]_vars
  BY <1>1, Invariance, PTL DEF Spec
<1>. QED
  BY <1>2 DEF A, LoginNeedsKey
=============================================================================
