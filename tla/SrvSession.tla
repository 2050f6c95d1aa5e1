----------------------------- MODULE SrvSession -----------------------------
(***************************************************************************)
(* The sessions of the relay server (srvmain.c): accepting and closing     *)
(* connections, and process_msg with one action per branch of its          *)
(* handlers. Every message a client may send in a given state is           *)
(* considered, whether or not the frelay client would send it.             *)
(*                                                                         *)
(* The server is one process that handles one complete message at a time,  *)
(* so each branch is atomic. How bytes become messages, which descriptor   *)
(* is served first and what times out is the subject of SrvLoop.           *)
(***************************************************************************)
EXTENDS UserDb, Sequences

CONSTANTS
  Conn,        \* slots of the clients array, cfg.max_clients of them
  Fold,        \* Fold[n]: n with its letters in one case, as stricmp sees it
  PlainKeys,   \* keys that start with AUTH_KEY_PLAINTEXT
  UserFiles,   \* user db files the server may be started on
  Traffic,     \* the types of messages clients send in this instance ...
  Destinations,\* ... and the destinations they put on them
  MaxId,       \* bound: the last id the counter hands out in this instance
  QueueMax,    \* bound: messages in one send queue (the code has none)
  BusyMax      \* bound: connections with a message to be sent

NoName == "no name"      \* NULL pointers
NoKey  == "no key"

ASSUME PlainKeysAssumption == PlainKeys \subseteq Keys
ASSUME NullAssumption == NoName \notin Names /\ NoKey \notin Keys
ASSUME BoundsAssumption == MaxId \in Nat /\ QueueMax \in Nat /\ BusyMax \in Nat

(* Files are written by udb_save or by an administrator who follows the     *)
(* rules: valid names, a name and an id occur once.                         *)
WellFormed(accounts) ==
  /\ \A e \in accounts : e.name \in ValidNames
  /\ \A e, f \in accounts : e.id = f.id \/ e.name = f.name => e = f
ASSUME UserFilesAssumption ==
  \A f \in UserFiles : f \subseteq Account /\ WellFormed(f)

States == {"INVALID", "PRE_LOGIN", "LOGIN_OK", "AUTH_OK"}

Types   == {"PING", "REGISTER", "DROP", "LOGIN", "AUTH", "LOGOUT", "PEERLIST",
            "OFFER", "GETFILE"}
Classes == {"IND", "REQ", "RES", "ERR"}
Codes   == {"", "OK", "CHALLENGE",
            "BAD_REQUEST", "UNAUTHORIZED", "FORBIDDEN", "NOT_FOUND",
            "METHOD_NOT_ALLOWED", "CONFLICT", "TEAPOT", "MISDIRECTED",
            "LOCKED", "NOT_IMPLEMENTED"}
ASSUME TrafficAssumption == Traffic \subseteq Types

(* Destinations: NoId is the server, all ones is the broadcast address.     *)
Broadcast == MaxId + 1
ASSUME DestinationsAssumption == Destinations \subseteq 0 .. Broadcast

Peer == [id : Ids, name : Names]
Message == [type : Types, class : Classes, code : Codes,
            src : Nat, dst : Nat, peers : SUBSET Peer]

Client == [st : States, id : Nat, name : Names \cup {NoName},
           key : Keys \cup {NoKey}]
Free == [st |-> "INVALID", id |-> NoId, name |-> NoName, key |-> NoKey]

VARIABLES
  clt,     \* clt[c]: the client_t in slot c
  sendq,   \* sendq[c]: its send queue, qhead first
  db       \* the user database

vars == <<clt, sendq, db>>

TypeOK ==
  /\ clt \in [Conn -> Client]
  /\ sendq \in [Conn -> Seq(Message)]
  /\ db \in Database

Start(file) ==
  /\ db \in Fresh(file)
  /\ clt = [c \in Conn |-> Free]
  /\ sendq = [c \in Conn |-> <<>>]

Init == \E f \in UserFiles : Start(f)

Open(c) == clt[c].st # "INVALID"
AuthOk(c) == clt[c].st = "AUTH_OK"
LoggedIn(c) == clt[c].st \in {"LOGIN_OK", "AUTH_OK"}

-----------------------------------------------------------------------------
(* Connections *)

(* accept_client adopts the connection in an unused slot. *)
Accept(c) ==
  /\ ~Open(c)
  /\ clt' = [clt EXCEPT ![c] = [Free EXCEPT !.st = "PRE_LOGIN"]]
  /\ UNCHANGED <<sendq, db>>

(* close_client: end of file, a read or write error, or a timeout. The      *)
(* messages still queued are freed with everything else.                    *)
Close(c) ==
  /\ Open(c)
  /\ clt' = [clt EXCEPT ![c] = Free]
  /\ sendq' = [sendq EXCEPT ![c] = <<>>]
  /\ UNCHANGED db

(* The first message of the queue has been written out: dequeue_msg. *)
Transmit(c) ==
  /\ sendq[c] # <<>>
  /\ sendq' = [sendq EXCEPT ![c] = Tail(@)]
  /\ UNCHANGED <<clt, db>>

(* The process is killed and started anew on the file it left. *)
Restart ==
  /\ db' \in Fresh(db.file)
  /\ clt' = [c \in Conn |-> Free]
  /\ sendq' = [c \in Conn |-> <<>>]

-----------------------------------------------------------------------------
(* Answers *)

(* process_msg overwrites the source id of a client that has logged in; a   *)
(* client that has not sends the zero it knows as its id.                   *)
SourceId(c) == IF LoggedIn(c) THEN clt[c].id ELSE NoId

(* mbuf_to_response swaps source and destination. *)
Response(c, type, dst, code) ==
  [type |-> type, class |-> "RES", code |-> code,
   src |-> dst, dst |-> SourceId(c), peers |-> {}]

ErrorResponse(c, type, dst, code) ==
  [Response(c, type, dst, code) EXCEPT !.class = "ERR"]

(* enqueue_msg *)
Enqueue(c, m) == sendq' = [sendq EXCEPT ![c] = Append(@, m)]

Reply(c, type, code) == Enqueue(c, Response(c, type, NoId, code))
Fail(c, type, code)  == Enqueue(c, ErrorResponse(c, type, NoId, code))

(* The bounds of the instance leave room for one more message to c. *)
Room(c) ==
  /\ Len(sendq[c]) < QueueMax
  /\ Cardinality({d \in Conn \ {c} : sendq[d] # <<>>}) < BusyMax

(* A complete message of that type has arrived from c. *)
Receives(c, type) ==
  /\ type \in Traffic
  /\ Open(c)
  /\ Room(c)

(* The same with a client that has passed the login: what every message but *)
(* LOGIN, AUTH and REGISTER requests to the server takes.                   *)
Served(c, type) == AuthOk(c) /\ Receives(c, type)

Forbidden(c, type, class, dst) ==
  /\ Receives(c, type)
  /\ ~AuthOk(c)
  /\ dst = NoId => ~(class = "REQ" /\ type \in {"LOGIN", "AUTH", "REGISTER"})
  /\ Enqueue(c, ErrorResponse(c, type, dst, "FORBIDDEN"))
  /\ UNCHANGED <<clt, db>>

-----------------------------------------------------------------------------
(* LOGIN *)

(* Not in PRE_LOGIN, or no user name in the message. *)
LoginMalformed(c) ==
  /\ Receives(c, "LOGIN")
  /\ Fail(c, "LOGIN", "BAD_REQUEST")
  /\ UNCHANGED <<clt, db>>

(* Mutant: only the names of logged-in clients are compared. *)
NameInUse_LoggedIn(n) ==
  \E d \in Conn : AuthOk(d) /\ Fold[clt[d].name] = Fold[n]

(* The scan goes over all open connections, c itself among them, whatever   *)
(* their state, and compares the names they hold.                           *)
NameInUse(n) ==
  \E d \in Conn : Open(d) /\ clt[d].name # NoName /\ Fold[clt[d].name] = Fold[n]

LoginConflict(c, n) ==
  /\ Receives(c, "LOGIN")
  /\ clt[c].st = "PRE_LOGIN"
  /\ db' \in Load(db)
  /\ ~Registered(db', n)
  /\ NameInUse(n)
  /\ Fail(c, "LOGIN", "CONFLICT")
  /\ UNCHANGED clt

(* Mutant: the user db is not consulted. *)
LoginUnregistered_NoLookup(c, n) ==
  /\ Receives(c, "LOGIN")
  /\ clt[c].st = "PRE_LOGIN"
  /\ ~NameInUse(n)
  /\ db.next <= MaxId
  /\ clt' = [clt EXCEPT ![c] = [st |-> "AUTH_OK", id |-> db.next,
                                name |-> n, key |-> NoKey]]
  /\ db' = TakeTempId(db)
  /\ Reply(c, "LOGIN", "OK")

LoginUnregistered(c, n) ==
  /\ Receives(c, "LOGIN")
  /\ clt[c].st = "PRE_LOGIN"
  /\ ~NameInUse(n)
  /\ \E d \in TempIdSource(db) :
       /\ ~Registered(d, n)
       /\ d.next <= MaxId
       /\ clt' = [clt EXCEPT ![c] = [st |-> "AUTH_OK", id |-> d.next,
                                     name |-> n, key |-> NoKey]]
       /\ db' = TakeTempId(d)
  /\ Reply(c, "LOGIN", "OK")

(* A registered name. Only a plain-text key leads to a challenge; any other *)
(* key is refused, after the state has moved on all the same, and without a *)
(* key to check the answer against but the one an earlier LOGIN left.       *)
LoginRegistered(c, n) ==
  /\ Receives(c, "LOGIN")
  /\ clt[c].st = "PRE_LOGIN"
  /\ db' \in Load(db)
  /\ Registered(db', n)
  /\ LET e == AccountOf(db', n)
         plain == e.key \in PlainKeys
     IN  /\ clt' = [clt EXCEPT ![c] =
                      [st |-> "LOGIN_OK", id |-> e.id, name |-> n,
                       key |-> IF plain THEN e.key ELSE clt[c].key]]
         /\ IF plain THEN Reply(c, "LOGIN", "CHALLENGE")
                     ELSE Fail(c, "LOGIN", "METHOD_NOT_ALLOWED")

-----------------------------------------------------------------------------
(* AUTH *)

(* Out of turn, or without a digest: back to PRE_LOGIN, whatever the state  *)
(* was. Id, name and key stay.                                              *)
AuthMalformed(c) ==
  /\ Receives(c, "AUTH")
  /\ clt' = [clt EXCEPT ![c].st = "PRE_LOGIN"]
  /\ Fail(c, "AUTH", "BAD_REQUEST")
  /\ UNCHANGED db

AuthWrong(c, digest) ==
  /\ Receives(c, "AUTH")
  /\ clt[c].st = "LOGIN_OK"
  /\ clt[c].key \notin {NoKey, digest}
  /\ clt' = [clt EXCEPT ![c].st = "PRE_LOGIN"]
  /\ Fail(c, "AUTH", "UNAUTHORIZED")
  /\ UNCHANGED db

(* Mutant: no connection is closed. *)
Superseded_None(c) == {}

(* Every other connection that carries the id is closed. *)
Superseded(c) == {d \in Conn \ {c} : Open(d) /\ clt[d].id = clt[c].id}

AuthOK(c, digest) ==
  /\ Receives(c, "AUTH")
  /\ clt[c].st = "LOGIN_OK"
  /\ clt[c].key = digest
  /\ clt' = [d \in Conn |-> IF d \in Superseded(c) THEN Free
                            ELSE IF d = c THEN [clt[c] EXCEPT !.st = "AUTH_OK"]
                            ELSE clt[d]]
  /\ sendq' = [d \in Conn |-> IF d \in Superseded(c) THEN <<>>
                              ELSE IF d = c
                                THEN Append(sendq[c], Response(c, "AUTH", NoId, "OK"))
                              ELSE sendq[d]]
  /\ UNCHANGED db

(* strcmp is handed the NULL pointer a refused LOGIN left: the process dies.*)
AuthNoKey(c) ==
  /\ Receives(c, "AUTH")
  /\ clt[c].st = "LOGIN_OK"
  /\ clt[c].key = NoKey
  /\ Restart

-----------------------------------------------------------------------------
(* LOGOUT, REGISTER, DROP, and what only asks *)

(* Mutant: LOGOUT is not answered. *)
Logout_Silent(c) ==
  /\ Served(c, "LOGOUT")
  /\ clt' = [clt EXCEPT ![c] = [Free EXCEPT !.st = "PRE_LOGIN"]]
  /\ UNCHANGED <<sendq, db>>

Logout(c) ==
  /\ Served(c, "LOGOUT")
  /\ clt' = [clt EXCEPT ![c] = [Free EXCEPT !.st = "PRE_LOGIN"]]
  /\ Reply(c, "LOGOUT", "OK")
  /\ UNCHANGED db

RegisterTooEarly(c) ==
  /\ Receives(c, "REGISTER")
  /\ ~AuthOk(c)
  /\ Fail(c, "REGISTER", "UNAUTHORIZED")
  /\ UNCHANGED <<clt, db>>

RegisterMalformed(c) ==
  /\ Served(c, "REGISTER")
  /\ Fail(c, "REGISTER", "BAD_REQUEST")
  /\ UNCHANGED <<clt, db>>

(* Mutant: served to a client that has not answered its challenge. *)
Register_Early(c, k) ==
  /\ Receives(c, "REGISTER")
  /\ LoggedIn(c)
  /\ \E dropped \in DropEntry(db, clt[c].name) :
       db' \in AddEntry(dropped, clt[c].id, clt[c].name, k)
  /\ Reply(c, "REGISTER", "OK")
  /\ UNCHANGED clt

(* The account of the name is dropped and added again under the new key.    *)
(* udb_addentry tells by its result whether it was added; its own reload of *)
(* an emptied list comes first.                                             *)
Register(c, k) ==
  /\ Served(c, "REGISTER")
  /\ \E dropped \in DropEntry(db, clt[c].name) : \E d \in Load(dropped) :
       /\ db' \in AddEntry(d, clt[c].id, clt[c].name, k)
       /\ IF CanAdd(d, clt[c].name) THEN Reply(c, "REGISTER", "OK")
                                    ELSE Fail(c, "REGISTER", "LOCKED")
  /\ UNCHANGED clt

Drop(c) ==
  /\ Served(c, "DROP")
  /\ \E d \in Load(db) :
       /\ db' \in DropEntry(d, clt[c].name)
       /\ IF Registered(d, clt[c].name) THEN Reply(c, "DROP", "OK")
                                        ELSE Fail(c, "DROP", "NOT_FOUND")
  /\ UNCHANGED clt

(* A PING indication is answered by nothing. *)
Ping(c) ==
  /\ Served(c, "PING")
  /\ Reply(c, "PING", "OK")
  /\ UNCHANGED <<clt, db>>

Peers == {[id |-> clt[d].id, name |-> clt[d].name] : d \in {e \in Conn : AuthOk(e)}}

Peerlist(c) ==
  /\ Served(c, "PEERLIST")
  /\ Enqueue(c, [Response(c, "PEERLIST", NoId, "OK") EXCEPT !.peers = Peers])
  /\ UNCHANGED <<clt, db>>

(* Requests the server does not know, and anything to the broadcast         *)
(* address. Indications and responses of that kind are dropped.             *)
Unsupported(c, type) ==
  /\ Served(c, type)
  /\ type \in {"OFFER", "GETFILE"}
  /\ Fail(c, type, "TEAPOT")
  /\ UNCHANGED <<clt, db>>

BroadcastRefused(c, type) ==
  /\ Broadcast \in Destinations
  /\ Served(c, type)
  /\ Enqueue(c, ErrorResponse(c, type, Broadcast, "NOT_IMPLEMENTED"))
  /\ UNCHANGED <<clt, db>>

-----------------------------------------------------------------------------
(* Messages to a peer *)

Reachable(dst) == {d \in Conn : AuthOk(d) /\ clt[d].id = dst}

Forwardable(type, class) ==
  \/ type \in {"OFFER", "PING"}
  \/ type = "GETFILE" /\ class # "IND"

Misdirected(c, type, dst) ==
  /\ Served(c, type)
  /\ dst \notin {NoId, Broadcast}
  /\ Reachable(dst) = {}
  /\ Enqueue(c, ErrorResponse(c, type, dst, "MISDIRECTED"))
  /\ UNCHANGED <<clt, db>>

Forward(c, d, type, class) ==
  /\ Served(c, type)
  /\ d \in Reachable(clt[d].id)
  /\ Forwardable(type, class)
  /\ Room(d)
  /\ Enqueue(d, [type |-> type, class |-> class, code |-> "",
                 src |-> clt[c].id, dst |-> clt[d].id, peers |-> {}])
  /\ UNCHANGED <<clt, db>>

(* Of what is not forwarded, a request is answered, the rest is dropped.    *)
ForwardRefused(c, type, dst) ==
  /\ Served(c, type)
  /\ dst # NoId
  /\ Reachable(dst) # {}
  /\ ~Forwardable(type, "REQ")
  /\ Enqueue(c, ErrorResponse(c, type, dst, "BAD_REQUEST"))
  /\ UNCHANGED <<clt, db>>

-----------------------------------------------------------------------------
Connection(c) == Accept(c) \/ Close(c) \/ Transmit(c)

Session(c) ==
  \/ \E n \in Names : LoginConflict(c, n) \/ LoginUnregistered(c, n)
                        \/ LoginRegistered(c, n)
  \/ \E k \in Keys : AuthWrong(c, k) \/ AuthOK(c, k)
  \/ LoginMalformed(c) \/ AuthMalformed(c) \/ AuthNoKey(c) \/ Logout(c)

Accounts(c) ==
  \/ RegisterTooEarly(c) \/ RegisterMalformed(c) \/ Drop(c)
  \/ \E k \in PlainKeys : Register(c, k)

Query(c) ==
  \/ Ping(c) \/ Peerlist(c)
  \/ \E t \in Traffic : Unsupported(c, t) \/ BroadcastRefused(c, t)
  \/ \E t \in Traffic, cl \in Classes, dst \in Destinations : Forbidden(c, t, cl, dst)

Relay(c) ==
  \E t \in Traffic :
    \/ \E d \in Conn, cl \in Classes : Forward(c, d, t, cl)
    \/ \E dst \in Destinations : Misdirected(c, t, dst) \/ ForwardRefused(c, t, dst)

Next ==
  \/ \E c \in Conn : Connection(c) \/ Session(c) \/ Accounts(c) \/ Query(c) \/ Relay(c)
  \/ Restart

Spec == Init /\ [][Next]_vars

-----------------------------------------------------------------------------
(* Properties *)

(* At most one connection is logged in under an id: what the sweep in the   *)
(* AUTH handler and the counter behind temporary ids are for. Forwarding    *)
(* takes the first connection that carries the destination id.              *)
UniqueLogin ==
  \A c, d \in Conn : AuthOk(c) /\ AuthOk(d) /\ clt[c].id = clt[d].id => c = d

Holds(c) == Open(c) /\ clt[c].name # NoName

(* The id a connection carries, in whatever state it was left, belongs to   *)
(* the name it carries: no other connection and no account has the one      *)
(* without the other. The handlers look up accounts and drop and add them   *)
(* by name, but route and supersede by id.                                  *)
NameIdAgree ==
  /\ \A c, d \in Conn : Holds(c) /\ Holds(d) =>
        (clt[c].id = clt[d].id <=> clt[c].name = clt[d].name)
  /\ \A c \in Conn, e \in db.list : Holds(c) =>
        (clt[c].id = e.id <=> clt[c].name = e.name)

(* Two users that are logged in never have the same name: an unregistered   *)
(* name is refused while in use, a registered one is taken over.            *)
UniqueName ==
  \A c, d \in Conn : AuthOk(c) /\ AuthOk(d) /\ clt[c].name = clt[d].name => c = d

(* A message queued for an identity that has since been given up, or        *)
(* exchanged for another on the same connection, is followed in the queue   *)
(* by the answer that tells the client so: the client still is who the      *)
(* message is for when it reads it.                                         *)
EndsIdentity(m) == m.type \in {"LOGIN", "LOGOUT"} /\ m.src = NoId

MailFollowsIdentity ==
  \A c \in Conn : \A i \in DOMAIN sendq[c] :
    sendq[c][i].dst \notin {NoId, clt[c].id} =>
      \E j \in i .. Len(sendq[c]) : EndsIdentity(sendq[c][j])

(* A peer list names nobody twice, neither by id nor by name, and has the   *)
(* asker on it: a client that sends an offer to a name picks one id.        *)
PeerlistUnambiguous ==
  \A c \in Conn : \A i \in DOMAIN sendq[c] :
    LET m == sendq[c][i] IN
      m.type = "PEERLIST" /\ m.class = "RES" =>
        /\ \E p \in m.peers : p.id = m.dst
        /\ \A p, q \in m.peers : p.id = q.id \/ p.name = q.name => p = q

(* An account goes, or gets another key, only by a message of a client that *)
(* is logged in under its name and id.                                      *)
OwnerOnly ==
  [][\A e \in db.list \ db'.list :
        \E c \in Conn : AuthOk(c) /\ clt[c].name = e.name /\ clt[c].id = e.id]_vars

(* Nobody is logged in under a registered name without having sent its key, *)
(* save the client that registered it itself.                               *)
LoginNeedsKey ==
  [][\A c \in Conn : ~AuthOk(c) /\ AuthOk(c)' =>
        \A e \in db.list :
          clt'[c].name = e.name \/ clt'[c].id = e.id => clt[c].st = "LOGIN_OK"]_vars

(* doc/protocol.txt:232-234: OK is the answer to "an unregistered name      *)
(* currently not in use by another client".                                 *)
FreeNameUsable ==
  \A c \in Conn, n \in Names :
    /\ clt[c].st = "PRE_LOGIN"
    /\ ~Registered(db, n)
    /\ \A d \in Conn \ {c} : Holds(d) => Fold[clt[d].name] # Fold[n]
    => ~NameInUse(n)

(* The sessions implement Presence: users come by LOGIN or AUTH and go by   *)
(* LOGOUT, by a connection that closes, or by a request out of order.       *)
Nobody == [id |-> NoId, name |-> NoName]
Users == [id : Ids, name : Names]
who == [c \in Conn |->
          IF AuthOk(c) THEN [id |-> clt[c].id, name |-> clt[c].name] ELSE Nobody]

P == INSTANCE Presence

ImplementsPresence == P!Spec
=============================================================================
