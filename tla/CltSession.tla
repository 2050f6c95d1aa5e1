----------------------------- MODULE CltSession -----------------------------
(***************************************************************************)
(* The session of one frelay client (cltmain.c) with the server of module  *)
(* SrvSession: the commands of its user, the queue they go to, the list of *)
(* requests that wait for an answer, what the answers do, and reconnecting.*)
(* Of other users the model has what they can do to a session: its name is *)
(* in use, or its connection is closed.                                    *)
(*                                                                         *)
(* The server answers the requests of a connection one by one and in their *)
(* order, so the connection carries a queue of requests one way, the       *)
(* server's send queue the other way, and for each answer the transaction  *)
(* id of its request. Messages of a session are small and are written in   *)
(* one piece. Keep-alive indications, other requests and the messages of   *)
(* other clients leave a session as it is and are left out.                *)
(***************************************************************************)
EXTENDS SrvSession, Functions

CONSTANTS
  MaxReq     \* bound: transaction ids, and requests in the client's queue

ASSUME MaxReqAssumption == MaxReq \in Nat

NoSlot == "no slot"
ASSUME NoSlotAssumption == NoSlot \notin Conn

(* Transaction ids are random; the AUTH request takes over that of LOGIN.   *)
TrfIds == 1 .. MaxReq
Nothing == "nothing"
RequestTypes == {"LOGIN", "AUTH", "LOGOUT", "REGISTER", "DROP"}
Request == [type : RequestTypes, arg : Names \cup Keys \cup {Nothing}, id : TrfIds]
Pending == [type : RequestTypes, id : TrfIds]

VARIABLES
  st,       \* cfg.st
  link,     \* the client's end of the connection: none, up, or broken by the server
  slot,     \* the server's end
  outq,     \* the client's send queue
  wire,     \* requests the client has sent and the server has not handled
  tags,     \* transaction ids of the answers in sendq[slot]
  pending,  \* requests sent and without a response
  upset     \* what happened on this connection that upsets a session

client == <<st, outq, pending>>
connection == <<link, slot, wire, tags>>
sessionVars == <<vars, client, connection, upset>>

CltTypeOK ==
  /\ st \in States
  /\ link \in {"none", "up", "broken"} /\ slot \in Conn \cup {NoSlot}
  /\ outq \in Seq(Request) /\ wire \in Seq(Request) /\ tags \in Seq(TrfIds)
  /\ pending \subseteq Pending
  /\ upset \subseteq {"late", "leftover", "refused"}
  /\ link = "none" <=> st = "INVALID"
  /\ link = "up" <=> slot # NoSlot
  /\ link = "up" => Open(slot) /\ Len(tags) = Len(sendq[slot])

CltInit ==
  /\ Init
  /\ st = "INVALID" /\ outq = <<>> /\ pending = {}
  /\ link = "none" /\ slot = NoSlot /\ wire = <<>> /\ tags = <<>>
  /\ upset = {}

-----------------------------------------------------------------------------
(* Commands *)

IdsInUse ==
  {r.id : r \in pending} \cup {r.id : r \in Range(outq \o wire)} \cup Range(tags)

(* Without a connection a command is refused. *)
Command(type, arg) ==
  /\ link # "none"
  /\ Len(outq) < MaxReq
  /\ TrfIds \ IdsInUse # {}
  /\ LET id == CHOOSE i \in TrfIds \ IdsInUse : \A j \in TrfIds \ IdsInUse : i <= j
     IN  outq' = Append(outq, [type |-> type, arg |-> arg, id |-> id])
  /\ UNCHANGED <<vars, st, pending, connection, upset>>

UserCommand ==
  \/ Command("LOGOUT", Nothing) \/ Command("DROP", Nothing)
  \/ \E n \in Names : Command("LOGIN", n)
  \/ \E k \in PlainKeys : Command("REGISTER", k)

(* What the server has queued for a connection the client gives up is read  *)
(* by nobody.                                                               *)
Unread == sendq' = [c \in Conn |-> <<>>]

(* connect_srv closes the connection there may be, and the server finds out *)
(* some time later. Queue and pending requests stay as they are.            *)
ConnectTo(c) ==
  /\ ~Open(c)
  /\ clt' = [clt EXCEPT ![c] = [Free EXCEPT !.st = "PRE_LOGIN"]]   \* accept_client
  /\ Unread /\ UNCHANGED db
  /\ link' = "up" /\ slot' = c /\ wire' = <<>> /\ tags' = <<>>
  /\ upset' = IF outq = <<>> THEN {} ELSE {"leftover"}

Connect ==
  /\ \E c \in Conn : ConnectTo(c)
  /\ st' = "PRE_LOGIN"
  /\ UNCHANGED <<outq, pending>>

(* Mutant: the state of the session stays. *)
Unlinked_Keep ==
  /\ link' = "none" /\ slot' = NoSlot /\ wire' = <<>> /\ tags' = <<>>
  /\ st' = st
  /\ upset' = {}
  /\ Unread /\ UNCHANGED <<clt, db>>

Unlinked ==
  /\ link' = "none" /\ slot' = NoSlot /\ wire' = <<>> /\ tags' = <<>>
  /\ st' = "INVALID"
  /\ upset' = {}
  /\ Unread /\ UNCHANGED <<clt, db>>

(* CMD_DISCONNECT, a connection attempt that fails, and the end of file or  *)
(* the error of a connection the server has closed.                         *)
Disconnect ==
  /\ link # "none"
  /\ Unlinked
  /\ UNCHANGED <<outq, pending>>

SeesEof == link = "broken" /\ Disconnect

(* CMD_EXIT, and a new start of the program. *)
Exit ==
  /\ Unlinked
  /\ outq' = <<>> /\ pending' = {}

-----------------------------------------------------------------------------
(* The client's input and output *)

(* handle_srvio writes the head of the queue, and dequeue_msg moves it to   *)
(* the pending list. What goes to a connection that is broken is lost.      *)
Send ==
  /\ link # "none" /\ outq # <<>>
  /\ outq' = Tail(outq)
  /\ pending' = pending \cup {[type |-> Head(outq).type, id |-> Head(outq).id]}
  /\ wire' = IF link = "up" THEN Append(wire, Head(outq)) ELSE wire
  /\ UNCHANGED <<vars, st, link, slot, tags, upset>>

(* match_pending_req *)
Matching(m, id) == {r \in pending : r.type = m.type /\ r.id = id}

(* Mutants: a LOGOUT that is answered leaves the state; an error does.      *)
After_Stay(s, m) ==
  CASE m.type = "LOGIN" /\ m.code = "OK" /\ s = "PRE_LOGIN" -> "AUTH_OK"
    [] m.type = "LOGIN" /\ m.code = "CHALLENGE" /\ s = "PRE_LOGIN" -> "LOGIN_OK"
    [] m.type = "AUTH" /\ m.code = "OK" /\ s = "LOGIN_OK" -> "AUTH_OK"
    [] m.type = "AUTH" /\ m.class = "ERR" /\ s = "LOGIN_OK" -> "PRE_LOGIN"
    [] OTHER -> s

After_NoError(s, m) ==
  CASE m.type = "LOGIN" /\ m.code = "OK" /\ s = "PRE_LOGIN" -> "AUTH_OK"
    [] m.type = "LOGIN" /\ m.code = "CHALLENGE" /\ s = "PRE_LOGIN" -> "LOGIN_OK"
    [] m.type = "AUTH" /\ m.code = "OK" /\ s = "LOGIN_OK" -> "AUTH_OK"
    [] m.type = "LOGOUT" /\ m.code = "OK" /\ s \in {"LOGIN_OK", "AUTH_OK"} -> "PRE_LOGIN"
    [] OTHER -> s

(* The state a message of the server leads to.                              *)
After(s, m) ==
  CASE m.type = "LOGIN" /\ m.code = "OK" /\ s = "PRE_LOGIN" -> "AUTH_OK"
    [] m.type = "LOGIN" /\ m.code = "CHALLENGE" /\ s = "PRE_LOGIN" -> "LOGIN_OK"
    [] m.type = "AUTH" /\ m.code = "OK" /\ s = "LOGIN_OK" -> "AUTH_OK"
    [] m.type = "AUTH" /\ m.class = "ERR" /\ s = "LOGIN_OK" -> "PRE_LOGIN"
    [] m.type = "LOGOUT" /\ m.code = "OK" /\ s \in {"LOGIN_OK", "AUTH_OK"} -> "PRE_LOGIN"
    [] OTHER -> s

Incoming == IF link = "up" /\ sendq[slot] # <<>> THEN {Head(sendq[slot])} ELSE {}

(* A response that answers no pending request is dropped; an error is acted *)
(* on whether or not it does, and its request stays on the list.            *)
Unsolicited(m) == m.class = "RES" /\ Matching(m, Head(tags)) = {}

Read == Transmit(slot) /\ tags' = Tail(tags) /\ UNCHANGED <<link, slot, wire, upset>>

Ignore ==
  /\ \E m \in Incoming : Unsolicited(m)
  /\ Read
  /\ UNCHANGED client

Process ==
  /\ \E m \in Incoming :
       /\ ~Unsolicited(m)
       /\ st' = After(st, m)
       /\ pending' = IF m.class = "RES" THEN pending \ Matching(m, Head(tags)) ELSE pending
       /\ IF m.code = "CHALLENGE" /\ st = "PRE_LOGIN"
            THEN \E k \in Keys :   \* cfg.pubkey
                   outq' = Append(outq, [type |-> "AUTH", arg |-> k, id |-> Head(tags)])
            ELSE outq' = outq
  /\ Read

(* upkeep_pending: no response within resp_timeout. *)
TimesOut ==
  /\ \E r \in pending :
       /\ pending' = pending \ {r}
       /\ upset' = IF r.id \in {q.id : q \in Range(wire)} \cup Range(tags)
                     THEN upset \cup {"late"} ELSE upset
  /\ UNCHANGED <<vars, st, outq, connection>>

-----------------------------------------------------------------------------
(* The server *)

HandleRequest(c, r) ==
  \/ /\ r.type = "LOGIN"
     /\ \/ LoginConflict(c, r.arg) \/ LoginUnregistered(c, r.arg) \/ LoginRegistered(c, r.arg)
        \/ clt[c].st # "PRE_LOGIN" /\ LoginMalformed(c)
  \/ /\ r.type = "AUTH"
     /\ \/ AuthWrong(c, r.arg) \/ AuthOK(c, r.arg) \/ AuthNoKey(c)
        \/ clt[c].st # "LOGIN_OK" /\ AuthMalformed(c)
  \/ r.type = "LOGOUT" /\ (Logout(c) \/ Forbidden(c, "LOGOUT", "REQ", NoId))
  \/ r.type = "REGISTER" /\ (RegisterTooEarly(c) \/ Register(c, r.arg))
  \/ r.type = "DROP" /\ (Drop(c) \/ Forbidden(c, "DROP", "REQ", NoId))

(* The server closes the client's connection, or dies. *)
Broken ==
  /\ clt'[slot].st = "INVALID"
  /\ link' = "broken" /\ slot' = NoSlot /\ wire' = <<>> /\ tags' = <<>>
  /\ UNCHANGED <<client, upset>>

Handle ==
  /\ link = "up" /\ wire # <<>>
  /\ HandleRequest(slot, Head(wire))
  /\ \/ Broken
     \/ /\ clt'[slot].st # "INVALID"
        /\ wire' = Tail(wire) /\ tags' = Append(tags, Head(wire).id)
        /\ upset' = IF sendq'[slot][Len(sendq'[slot])].code = "METHOD_NOT_ALLOWED"
                      THEN upset \cup {"refused"} ELSE upset
        /\ UNCHANGED <<client, link, slot>>

(* A timeout or an error; a crash; and a connection the client has given up *)
(* lingers, with its name and id, until the server sees the end of file.    *)
Elsewhere ==
  /\ \/ \E c \in Conn \ {slot} : Close(c)
     \/ link = "up" /\ Close(slot)
     \/ Restart
  /\ IF link = "up" /\ clt'[slot].st = "INVALID" THEN Broken ELSE UNCHANGED <<client, connection, upset>>

-----------------------------------------------------------------------------
ClientStep == UserCommand \/ Connect \/ Disconnect \/ Exit \/ Send \/ Ignore \/ Process \/ TimesOut

CltNext == ClientStep \/ Handle \/ Elsewhere

CltSpec == CltInit /\ [][CltNext]_sessionVars

(* Both main loops keep running: what can be read or written is, and a      *)
(* request that has arrived is handled.                                     *)
CltFairSpec ==
  CltSpec /\ WF_sessionVars(Send) /\ WF_sessionVars(Ignore \/ Process)
          /\ WF_sessionVars(SeesEof) /\ WF_sessionVars(Handle)

-----------------------------------------------------------------------------
(* Properties *)

(* The messages of q, read one after the other, lead from s to t.           *)
Leads(s, q, t) ==
  \E path \in [0 .. Len(q) -> States] :
    /\ path[0] = s /\ path[Len(q)] = t
    /\ \A i \in DOMAIN q : path[i] = After(path[i - 1], q[i])

(* When the client has read the answers that are on their way, it is in the *)
(* state the server has it in: whatever the order of commands, answers and  *)
(* reconnects, unless an answer came too late, commands of an earlier       *)
(* connection were still queued, or the account's key is not supported.     *)
InStep ==
  link = "up" /\ upset = {} => Leads(st, sendq[slot], clt[slot].st)

(* A challenge is answered and the answer comes back: the client does not   *)
(* wait for ever to be told whether it is logged in.                        *)
ChallengeSettles == st = "LOGIN_OK" ~> st # "LOGIN_OK" \/ "late" \in upset

(* doc/protocol.txt:246-247: AUTH is "sent by the client in reaction to a   *)
(* server LOGIN response containing a CHALLENGE".                           *)
AuthAnswersChallenge ==
  link = "up" /\ wire # <<>> /\ Head(wire).type = "AUTH" => clt[slot].st = "LOGIN_OK"
=============================================================================
