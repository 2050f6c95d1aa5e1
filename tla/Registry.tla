------------------------------ MODULE Registry ------------------------------
(***************************************************************************)
(* The accounts of the relay server across crashes and restarts.           *)
(*                                                                         *)
(* SrvSession treats a call into srvuserdb.c as one step. Here the calls   *)
(* made by the REGISTER and DROP handlers of srvmain.c are taken apart:    *)
(* the list in memory changes, the file is truncated, written line by line *)
(* and closed, and the process may be killed in between. What a user was   *)
(* last told about his account is recorded, to be compared with what the   *)
(* server still knows.                                                     *)
(***************************************************************************)
EXTENDS UserDb

CONSTANTS
  MaxId,       \* bound: the last id the counter hands out in this instance
  CrashSteps   \* the steps of a handler at which the process may be killed

Steps == {"idle",
          "open1", "write1",    \* the save inside udb_dropentry
          "add",                \* REGISTER goes on to udb_addentry
          "open2", "write2",    \* the save inside udb_addentry
          "answer"}
ASSUME CrashStepsAssumption == CrashSteps \subseteq Steps
ASSUME SomeNameAssumption == Names # {}

VARIABLES
  db,      \* the database: list and next_id in memory, file on disk
  who,     \* who[n]: id under which a client is logged in with name n
  op,      \* the handler in progress, and the step it has reached
  acked,   \* history: the accounts as the last OK answers describe them
  ever,    \* history: every (id, name) an account was created with
  mishaps  \* history: "killed" where the file is not whole, "unsaved"

vars == <<db, who, op, acked, ever, mishaps>>

NoOp == [kind |-> "none", step |-> "idle", name |-> CHOOSE n \in Names : TRUE,
         key |-> TornKey, ok |-> FALSE, left |-> {}]
Op == [kind : {"none", "register", "drop"}, step : Steps, name : Names,
       key : Keys, ok : BOOLEAN, left : SUBSET Account]

TypeOK ==
  /\ db \in Database
  /\ who \in [Names -> Nat]
  /\ op \in Op
  /\ acked \subseteq Account
  /\ ever \subseteq Ids \X Names
  /\ mishaps \subseteq {"killed", "unsaved"}

Init ==
  /\ db \in Fresh({})
  /\ who = [n \in Names |-> NoId]
  /\ op = NoOp
  /\ acked = {}
  /\ ever = {}
  /\ mishaps = {}

Idle == op.step = "idle"

-----------------------------------------------------------------------------
(* Sessions, reduced to who is logged in under which name and id. *)

(* The LOGIN handler: a registered name brings its id along (AUTH follows), *)
(* an unregistered one gets the next id off the counter.                    *)
Login(n) ==
  /\ Idle
  /\ who[n] = NoId
  /\ \E d \in Load(db) :
       \/ /\ Registered(d, n)
          /\ db' = d
          /\ who' = [who EXCEPT ![n] = AccountOf(d, n).id]
       \/ /\ ~Registered(d, n)
          /\ d.next <= MaxId
          /\ db' = TakeTempId(d)
          /\ who' = [who EXCEPT ![n] = d.next]
  /\ UNCHANGED <<op, acked, ever, mishaps>>

Logout(n) ==
  /\ Idle
  /\ who[n] # NoId
  /\ who' = [who EXCEPT ![n] = NoId]
  /\ UNCHANGED <<db, op, acked, ever, mishaps>>

-----------------------------------------------------------------------------
(* The handlers. REGISTER is udb_dropentry followed by udb_addentry, each   *)
(* with a save of its own; udb_addentry saves even if it added nothing.     *)

(* udb_dropentry, up to its save. *)
Begin(n, k, kind, otherwise) ==
  /\ Idle
  /\ who[n] # NoId
  /\ \E d \in Load(db) :
       /\ db' = DropMem(d, n)
       /\ op' = [NoOp EXCEPT !.kind = kind, !.name = n, !.key = k,
                             !.ok = Registered(d, n),
                             !.step = IF Registered(d, n) THEN "open1"
                                                          ELSE otherwise]
  /\ UNCHANGED <<who, acked, ever, mishaps>>

BeginRegister(n, k) == Begin(n, k, "register", "add")
BeginDrop(n) == Begin(n, TornKey, "drop", "answer")

(* Mutants: the account is added without being saved; the account is added  *)
(* under the next free id.                                                  *)
Add_Unsaved ==
  /\ op.step = "add"
  /\ \E d \in Load(db) :
       /\ db' = AddMem(d, who[op.name], op.name, op.key)
       /\ op' = [op EXCEPT !.step = "answer", !.ok = CanAdd(d, op.name)]
       /\ ever' = ever \cup {<<who[op.name], op.name>>}
  /\ UNCHANGED <<who, acked, mishaps>>

Add_NewId ==
  /\ op.step = "add"
  /\ \E d \in Load(db) :
       /\ db' = AddMem(d, d.next, op.name, op.key)
       /\ op' = [op EXCEPT !.step = "open2", !.ok = CanAdd(d, op.name)]
       /\ ever' = ever \cup {<<d.next, op.name>>}
  /\ UNCHANGED <<who, acked, mishaps>>

(* udb_addentry, up to its save. *)
Add ==
  /\ op.step = "add"
  /\ \E d \in Load(db) :
       /\ db' = AddMem(d, who[op.name], op.name, op.key)
       /\ op' = [op EXCEPT !.step = "open2", !.ok = CanAdd(d, op.name)]
       /\ ever' = IF CanAdd(d, op.name)
                    THEN ever \cup {<<who[op.name], op.name>>} ELSE ever
  /\ UNCHANGED <<who, acked, mishaps>>

AfterSave(step) ==
  IF step \in {"open1", "write1"} /\ op.kind = "register" THEN "add" ELSE "answer"

(* fopen(path, "w") truncates the file ... *)
SaveOpen ==
  /\ op.step \in {"open1", "open2"}
  /\ db' = [db EXCEPT !.file = {}]
  /\ op' = [op EXCEPT !.step = IF @ = "open1" THEN "write1" ELSE "write2",
                      !.left = db.list]
  /\ UNCHANGED <<who, acked, ever, mishaps>>

(* ... or fails, which both callers ignore. *)
SaveOpenFails ==
  /\ "open" \in SaveFaults
  /\ op.step \in {"open1", "open2"}
  /\ op' = [op EXCEPT !.step = AfterSave(@)]
  /\ mishaps' = mishaps \cup {"unsaved"}
  /\ UNCHANGED <<db, who, acked, ever>>

(* One account reaches the file. *)
SaveLine ==
  /\ op.step \in {"write1", "write2"}
  /\ \E e \in op.left :
       /\ db' = [db EXCEPT !.file = @ \cup {e}]
       /\ op' = [op EXCEPT !.left = @ \ {e}]
  /\ UNCHANGED <<who, acked, ever, mishaps>>

SaveClose ==
  /\ op.step \in {"write1", "write2"}
  /\ op.left = {}
  /\ op' = [op EXCEPT !.step = AfterSave(@)]
  /\ UNCHANGED <<db, who, acked, ever, mishaps>>

(* The answer: OK, or LOCKED / NOT_FOUND, which leave things as they were.  *)
Answer ==
  /\ op.step = "answer"
  /\ acked' =
       IF ~op.ok THEN acked
       ELSE {e \in acked : e.name # op.name}
              \cup (IF op.kind = "register"
                      THEN {[id |-> who[op.name], name |-> op.name, key |-> op.key]}
                      ELSE {})
  /\ op' = NoOp
  /\ UNCHANGED <<db, who, ever, mishaps>>

-----------------------------------------------------------------------------
(* The process dies, which closes every connection, and is started anew:    *)
(* main calls udb_init. The line being written may be cut off. Whoever was  *)
(* waiting for the answer to a DROP or REGISTER takes what he finds, as     *)
(* long as REGISTER did not take his account away.                          *)

DiskAfterCrash ==
  {db.file} \cup
    {db.file \cup {[e EXCEPT !.key = TornKey]} : e \in op.left}

(* Between messages, before the first save, and after the last.             *)
FileWhole == {"idle", "open1", "answer"}

CrashRestart ==
  /\ op.step \in CrashSteps
  /\ \E f \in DiskAfterCrash : db' \in Fresh(f)
  /\ who' = [n \in Names |-> NoId]
  /\ LET found == {e \in db'.list : op.kind # "none" /\ e.name = op.name} IN
       acked' = found \cup
         {e \in acked : op.kind = "drop" \/ found # {} => e.name # op.name}
  /\ op' = NoOp
  /\ mishaps' = mishaps \cup (IF op.step \in FileWhole THEN {} ELSE {"killed"})
  /\ UNCHANGED ever

-----------------------------------------------------------------------------
Handler == Add \/ SaveOpen \/ SaveOpenFails \/ SaveLine \/ SaveClose \/ Answer

Next ==
  \/ \E n \in Names : Login(n) \/ Logout(n) \/ BeginDrop(n)
  \/ \E n \in Names, k \in Keys \ {TornKey} : BeginRegister(n, k)
  \/ Handler
  \/ CrashRestart

Spec == Init /\ [][Next]_vars

-----------------------------------------------------------------------------
(* Properties *)

(* Between two handlers the server knows exactly the accounts its last OK   *)
(* answers described, in memory and on disk: no update is lost in the       *)
(* double save of REGISTER, by the reload of an emptied list, or by a       *)
(* restart, as long as saves succeed and kills find the file whole.         *)
AckedDurable == mishaps = {} /\ Idle => db.list = acked /\ db.file = acked

(* Whatever crashes and failed saves left of the file, and however often an *)
(* emptied list was reloaded from it: no two accounts share a name or an    *)
(* id, and no id of an account or of a logged-in user is one the counter    *)
(* can still hand out.                                                      *)
DistinctAccounts ==
  /\ \A e, f \in db.list : e.id = f.id \/ e.name = f.name => e = f
  /\ \A e \in db.list : e.id < db.next
  /\ \A n \in Names : who[n] < db.next

(* As long as saves succeed, and whatever crashes cut off: the id of a      *)
(* logged-in user is that of the account of his name, if there is one, and  *)
(* of no other account. REGISTER relies on it: it drops the account of the  *)
(* name and adds one with the id of the session.                            *)
SessionsAgree ==
  "unsaved" \notin mishaps =>
    \A n \in Names, e \in db.list :
      who[n] # NoId => (who[n] = e.id <=> n = e.name)

(* An account that keeps existing keeps its id, on the same terms: REGISTER *)
(* may change the key of an account, never the id peers address it by.      *)
IdsStable ==
  [][mishaps' = {} =>
       \A e \in acked, f \in acked' : e.name = f.name => e.id = f.id]_vars

(* Every account found in memory or on disk is one that was once created,   *)
(* id and name unmixed, however often the file was cut off and reloaded.    *)
AccountsGenuine ==
  \A e \in db.list \cup db.file : <<e.id, e.name>> \in ever

(* doc/protocol.txt:183-185: the id "is persistently assigned by the server *)
(* at account creation time, and once issued will never be reused for       *)
(* another account".                                                        *)
IdNeverReused == \A p, q \in ever : p[1] = q[1] => p[2] = q[2]
=============================================================================
