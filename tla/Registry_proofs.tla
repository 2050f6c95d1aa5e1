-------------------------- MODULE Registry_proofs ---------------------------
(* What becomes of the accounts when the process is killed, or cannot save, *)
(* between the two saves of a handler: for any names, keys and steps.       *)
EXTENDS Registry, UserDb_proofs

Known(d) == d.list \cup d.file

(* A database, and the ids w of the sessions: whatever is stale or torn, an *)
(* id belongs to one name, and the counter is past all of them.             *)
Sound(d, w) ==
  /\ d \in Database
  /\ \A e \in Known(d) : e.name \in ValidNames /\ e.id < d.next
  /\ \A e, f \in Known(d) : e.id = f.id => e.name = f.name
  /\ Distinct(d.list) /\ Distinct(d.file)
  /\ w \in [Names -> Nat] /\ \A n \in Names : w[n] < d.next
  /\ \A n \in Names, e \in Known(d) : w[n] = e.id => n = e.name
  /\ \A m, n \in Names : w[m] = w[n] /\ w[m] # NoId => m = n

Saving == {"write1", "write2"}

(* The handler in progress, and how far its save has got.                   *)
OpOK ==
  /\ op.step = "idle" => op = NoOp
  /\ op.step # "idle" => op.kind \in {"register", "drop"} /\ who[op.name] # NoId
  /\ op.kind = "drop" => op.step \notin {"add", "open2", "write2"}
  /\ op.step \in Saving => db.file \cap op.left = {} /\ db.file \cup op.left = db.list
  /\ op.step \notin Saving => op.left = {}

(* Where the list may be loaded anew, the file says what the list does.     *)
InSync == "unsaved" \notin mishaps /\ op.step \in {"idle", "add", "answer"} => db.file = db.list

Agree ==
  "unsaved" \notin mishaps =>
    \A n \in Names, e \in db.list : who[n] # NoId /\ n = e.name => who[n] = e.id

(* What was answered last, while the next answer is being prepared.         *)
Others == {e \in acked : e.name # op.name}
Asked == [id |-> who[op.name], name |-> op.name, key |-> op.key]
Outcome == IF ~op.ok THEN acked ELSE Others \cup (IF op.kind = "register" THEN {Asked} ELSE {})

Told ==
  mishaps = {} =>
    /\ \A e \in acked : e.name \in ValidNames /\ (who[e.name] # NoId => who[e.name] = e.id)
    /\ op.step = "idle" => db.list = acked
    /\ op.step = "open1" => db.file = acked
    /\ op.step \in {"open1", "write1"} => op.ok
    /\ op.step \in {"open1", "write1", "add"} => db.list = Others
    /\ op.step \in {"open2", "write2", "answer"} => db.list = Outcome

Inv == TypeOK /\ Sound(db, who) /\ AccountsGenuine /\ OpOK /\ InSync /\ Agree /\ Told

-----------------------------------------------------------------------------
(* The calls, on a sound database *)

LEMMA LoadSound ==
  ASSUME NEW d, NEW w, Sound(d, w), NEW l \in Load(d)
  PROVE  /\ Sound(l, w) /\ l.file = d.file
         /\ l.list = IF d.list = {} THEN d.file ELSE d.list
         /\ l.next >= d.next
<1>1. d \in Database /\ Behind(d)
  BY DEF Sound, Behind, Known
<1>2. l \in Database /\ l.file = d.file /\ l.next >= d.next
  BY <1>1, LoadSuccessor DEF Successor
<1>3. Readable(d) = d.file
  BY DEF Readable, Sound, Known
<1>4. l.list = IF d.list = {} THEN d.file ELSE d.list
  <2>1. CASE d.list = {}
    <3>1. PICK m \in NextAfter(d.next, Readable(d)) : l = [d EXCEPT !.list = Readable(d), !.next = m]
      BY <2>1 DEF Load
    <3>2. QED
      BY <1>1, <1>3, <2>1, <3>1 DEF Database
  <2>2. CASE d.list # {}
    BY <2>2 DEF Load
  <2>3. QED
    BY <2>1, <2>2
<1>5. Known(l) \subseteq Known(d) /\ Distinct(l.list)
  BY <1>2, <1>4 DEF Known, Sound
<1>6. \A e \in Known(l) : e.id < l.next
  <2>1. \A e \in Known(l) : e.id < d.next /\ e.id \in Nat
    BY <1>1, <1>5 DEF Sound, Known, Database, Account, Ids
  <2>2. l.next \in Nat /\ d.next \in Nat
    BY <1>1, <1>2 DEF Database, Ids
  <2>3. QED
    BY <1>2, <2>1, <2>2
<1>7. \A n \in Names : w[n] < l.next
  <2>1. \A n \in Names : w[n] < d.next /\ w[n] \in Nat
    BY DEF Sound
  <2>2. l.next \in Nat /\ d.next \in Nat
    BY <1>1, <1>2 DEF Database, Ids
  <2>3. QED
    BY <1>2, <2>1, <2>2
<1>8. QED
  BY <1>2, <1>4, <1>5, <1>6, <1>7 DEF Sound

(* Nothing new is known, and nothing is known twice.                        *)
LEMMA Less ==
  ASSUME NEW d, NEW w, Sound(d, w), NEW l \in Database, l.next = d.next,
         Known(l) \subseteq Known(d), Distinct(l.list), Distinct(l.file)
  PROVE  Sound(l, w)
BY DEF Sound

LEMMA DropSound ==
  ASSUME NEW d, NEW w, Sound(d, w), NEW n
  PROVE  /\ Sound(DropMem(d, n), w) /\ DropMem(d, n).file = d.file
         /\ DropMem(d, n).list = {e \in d.list : e.name # n}
<1>1. d \in Database
  BY DEF Sound
<1>2. DropMem(d, n) = [list |-> {e \in d.list : e.name # n}, next |-> d.next, file |-> d.file]
  BY <1>1 DEF DropMem, Database
<1>3. DropMem(d, n) \in Database
  BY <1>1, <1>2 DEF Database
<1>4. Known(DropMem(d, n)) \subseteq Known(d)
  BY <1>2 DEF Known
<1>5. Distinct(DropMem(d, n).list) /\ Distinct(DropMem(d, n).file)
  BY <1>2 DEF Distinct, Sound
<1>6. DropMem(d, n).next = d.next /\ DropMem(d, n).file = d.file
  BY <1>2
<1>7. Sound(DropMem(d, n), w)
  BY <1>3, <1>4, <1>5, <1>6, Less
<1>8. QED
  BY <1>2, <1>7

LEMMA FileSound ==
  ASSUME NEW d, NEW w, Sound(d, w), NEW f \in SUBSET d.list
  PROVE  /\ Sound([d EXCEPT !.file = f], w)
         /\ [d EXCEPT !.file = f].list = d.list /\ [d EXCEPT !.file = f].file = f
<1>1. d \in Database
  BY DEF Sound
<1>2. [d EXCEPT !.file = f] = [list |-> d.list, next |-> d.next, file |-> f]
  BY <1>1 DEF Database
<1>3. [d EXCEPT !.file = f] \in Database
  BY <1>1, <1>2 DEF Database
<1>4. Known([d EXCEPT !.file = f]) \subseteq Known(d)
  BY <1>2 DEF Known
<1>5. Distinct(f) /\ Distinct(d.list)
  BY DEF Distinct, Sound
<1>6. QED
  BY <1>2, <1>3, <1>4, <1>5, Less

LEMMA AddSound ==
  ASSUME NEW d, NEW w, Sound(d, w), NEW n \in Names, NEW k \in Keys, w[n] # NoId
  PROVE  LET a == AddMem(d, w[n], n, k)
             e == [id |-> w[n], name |-> n, key |-> k] IN
         /\ Sound(a, w) /\ a.file = d.file
         /\ a.list = IF CanAdd(d, n) THEN d.list \cup {e} ELSE d.list
<1> DEFINE a == AddMem(d, w[n], n, k)
           e == [id |-> w[n], name |-> n, key |-> k]
<1>1. d \in Database /\ Behind(d) /\ w[n] \in Ids /\ e \in Account
  BY DEF Sound, Behind, Known, Ids, Account, NoId
<1>2. /\ a \in Database /\ a.next >= d.next
      /\ a.list = IF CanAdd(d, n) THEN d.list \cup {e} ELSE d.list
  BY <1>1, AddMemSuccessor DEF Successor
<1>3. a.file = d.file
  BY <1>1 DEF AddMem, Database
<1>4. CASE ~CanAdd(d, n)
  <2>1. a = d
    BY <1>4 DEF AddMem
  <2>2. QED
    BY <1>2, <1>3, <2>1
<1>5. CASE CanAdd(d, n)
  <2>1. n \in ValidNames /\ \A f \in d.list : f.name # n
    BY <1>5 DEF CanAdd, Registered
  <2>2. Known(a) = Known(d) \cup {e} /\ e.name = n /\ e.id = w[n]
    BY <1>2, <1>3, <1>5 DEF Known
  <2>3. \A f \in Known(d) : f.id = w[n] => f.name = n
    BY DEF Sound
  <2>4. Distinct(a.list)
    <3>1. Distinct(d.list) /\ d.list \subseteq Known(d) /\ a.list = d.list \cup {e}
      BY <1>2, <1>5 DEF Sound, Known
    <3>2. QED
      BY <2>1, <2>2, <2>3, <3>1 DEF Distinct
  <2>5. \A f \in Known(a) : f.name \in ValidNames /\ f.id < a.next
    <3>1. \A f \in Known(d) : f.name \in ValidNames /\ f.id < d.next /\ f.id \in Nat
      BY <1>1 DEF Sound, Known, Database, Account, Ids
    <3>2. w[n] < d.next /\ w[n] \in Nat /\ d.next \in Nat /\ a.next \in Nat
      BY <1>1, <1>2 DEF Sound, Database, Ids
    <3>3. QED
      BY <1>2, <2>1, <2>2, <3>1, <3>2
  <2>6. \A f, g \in Known(a) : f.id = g.id => f.name = g.name
    BY <2>2, <2>3 DEF Sound
  <2>7. \A m \in Names, f \in Known(a) : w[m] = f.id => m = f.name
    BY <2>2 DEF Sound
  <2>8. \A m \in Names : w[m] < a.next
    <3>1. \A m \in Names : w[m] < d.next /\ w[m] \in Nat
      BY DEF Sound
    <3>2. d.next \in Nat /\ a.next \in Nat
      BY <1>1, <1>2 DEF Database, Ids
    <3>3. QED
      BY <1>2, <3>1, <3>2
  <2>9. Sound(a, w)
    BY <1>2, <1>3, <2>4, <2>5, <2>6, <2>7, <2>8 DEF Sound
  <2>10. QED
    BY <1>2, <1>3, <2>9
<1>6. QED
  BY <1>4, <1>5

NoSessions == [n \in Names |-> NoId]

(* udb_init finds all the accounts that are in the file.                    *)
LEMMA FreshSound ==
  ASSUME NEW f \in SUBSET Account, \A e \in f : e.name \in ValidNames, Distinct(f),
         NEW d \in Fresh(f)
  PROVE  Sound(d, NoSessions) /\ d.list = f /\ d.file = f
<1> DEFINE none == [list |-> {}, next |-> 1, file |-> f]
<1>1. PICK m \in NextAfter(1, Readable(none)) : d = [none EXCEPT !.list = Readable(none), !.next = m]
  BY DEF Fresh, Load
<1>2. Readable(none) = f
  BY DEF Readable
<1>3. m \in Ids /\ \A e \in f : e.id < m
  BY <1>1, <1>2 DEF NextAfter, Account, Ids, NoId
<1>4. d = [list |-> f, next |-> m, file |-> f]
  BY <1>1, <1>2
<1>5. d \in Database /\ Known(d) = f
  BY <1>3, <1>4 DEF Database, Known
<1>6. \A n \in Names : NoSessions[n] = 0 /\ 0 < m
  BY <1>3 DEF NoSessions, NoId, Ids
<1>7. \A e \in f : e.id # 0
  BY DEF Account, Ids, NoId
<1>8. NoSessions \in [Names -> Nat]
  BY DEF NoSessions, NoId
<1>9. QED
  BY <1>3, <1>4, <1>5, <1>6, <1>7, <1>8 DEF Sound, Distinct, NoId

-----------------------------------------------------------------------------
LEMMA NoOpIs == NoOp \in Op /\ NoOp.step = "idle" /\ NoOp.left = {} /\ NoOp.kind = "none"
<1>1. (CHOOSE n \in Names : TRUE) \in Names
  BY SomeNameAssumption
<1>2. QED
  BY <1>1, KeysAssumption DEF NoOp, Op, Steps

LEMMA Initially == Init => Inv
<1> SUFFICES ASSUME Init PROVE Inv
  OBVIOUS
<1>1. Sound(db, NoSessions) /\ db.list = {} /\ db.file = {}
  BY FreshSound DEF Init, Distinct
<1>2. who = NoSessions /\ op = NoOp /\ acked = {} /\ ever = {} /\ mishaps = {}
  BY DEF Init, NoSessions
<1>4. TypeOK
  BY <1>1, <1>2, NoOpIs DEF TypeOK, Sound
<1>5. OpOK /\ InSync /\ Agree /\ Told /\ AccountsGenuine
  BY <1>1, <1>2, NoOpIs DEF OpOK, InSync, Agree, Told, AccountsGenuine, Saving
<1>6. QED
  BY <1>1, <1>2, <1>4, <1>5 DEF Inv

-----------------------------------------------------------------------------
(* Sessions *)

(* A load where no save has failed changes neither list nor file.           *)
LEMMA LoadTold ==
  ASSUME Inv, op.step \in {"idle", "add"}, NEW d \in Load(db)
  PROVE  /\ Sound(d, who) /\ d.file = db.file /\ d \in Database
         /\ d.list \subseteq Known(db)
         /\ "unsaved" \notin mishaps => d.list = db.list /\ d.file = d.list
<1>1. /\ Sound(d, who) /\ d.file = db.file
      /\ d.list = IF db.list = {} THEN db.file ELSE db.list
  BY LoadSound DEF Inv
<1>2. "unsaved" \notin mishaps => db.file = db.list
  BY DEF Inv, InSync
<1>3. d \in Database
  BY <1>1 DEF Sound
<1>4. QED
  BY <1>1, <1>2, <1>3 DEF Known

LEMMA LoggingIn == ASSUME Inv, NEW n \in Names, Login(n) PROVE Inv'
<1>1. /\ op.step = "idle" /\ op = NoOp /\ who[n] = NoId
      /\ UNCHANGED <<op, acked, ever, mishaps>>
  BY DEF Login, Idle, Inv, OpOK
<1>2. TypeOK /\ Sound(db, who)
  BY DEF Inv
<1>3. PICK d \in Load(db) :
        \/ /\ Registered(d, n) /\ db' = d
           /\ who' = [who EXCEPT ![n] = AccountOf(d, n).id]
        \/ /\ ~Registered(d, n) /\ db' = TakeTempId(d)
           /\ who' = [who EXCEPT ![n] = d.next]
  BY DEF Login
<1>4. /\ Sound(d, who) /\ d.file = db.file /\ d \in Database
      /\ d.list \subseteq Known(db)
      /\ "unsaved" \notin mishaps => d.list = db.list /\ d.file = d.list
  BY <1>1, <1>3, LoadTold
<1>5. /\ \A e \in Known(d) : e.id \in Nat /\ e.id # NoId /\ e.id < d.next
      /\ d.next \in Nat /\ d.next # NoId
      /\ who \in [Names -> Nat] /\ \A m \in Names : who[m] < d.next
  BY <1>4 DEF Sound, Known, Database, Account, Ids
<1>6. /\ db'.list = d.list /\ db'.file = d.file
      /\ Sound(db', who') /\ who' \in [Names -> Nat]
      /\ \A m \in Names \ {n} : who'[m] = who[m]
      /\ \A e \in d.list : e.name = n => who'[n] = e.id
  <2>1. CASE Registered(d, n) /\ db' = d /\ who' = [who EXCEPT ![n] = AccountOf(d, n).id]
    <3>1. PICK a \in d.list : a = AccountOf(d, n) /\ a.name = n
      BY <2>1, AccountOfFound
    <3>2. /\ a \in Known(d) /\ a.id \in Nat /\ a.id < d.next
          /\ who' = [who EXCEPT ![n] = a.id]
      BY <1>5, <2>1, <3>1 DEF Known
    <3>3. \A e \in d.list : e.name = n => e = a
      BY <1>4, <3>1 DEF Sound, Distinct
    <3>4. \A e \in Known(d) : e.id = a.id => e.name = n
      BY <1>4, <3>1, <3>2 DEF Sound
    <3>5. \A m \in Names : who[m] = a.id => m = n
      BY <1>4, <3>1, <3>2 DEF Sound
    <3>6. Sound(d, who')
      BY <1>4, <1>5, <3>2, <3>4, <3>5 DEF Sound
    <3>7. QED
      BY <1>5, <2>1, <3>2, <3>3, <3>6
  <2>2. CASE ~Registered(d, n) /\ db' = TakeTempId(d) /\ who' = [who EXCEPT ![n] = d.next]
    <3>1. db' = [list |-> d.list, next |-> d.next + 1, file |-> d.file]
      BY <1>4, <2>2 DEF TakeTempId, Database
    <3>2. db' \in Database /\ Known(db') = Known(d)
      BY <1>4, <1>5, <3>1 DEF Database, Known, Ids, NoId
    <3>3. /\ \A e \in Known(d) : e.id # d.next /\ e.id < d.next + 1
          /\ \A m \in Names : who[m] # d.next /\ who[m] < d.next + 1
      BY <1>5
    <3>4. Sound(db', who')
      BY <1>4, <1>5, <2>2, <3>1, <3>2, <3>3 DEF Sound
    <3>5. QED
      BY <1>5, <2>2, <3>1, <3>4 DEF Registered
  <2>3. QED
    BY <1>3, <2>1, <2>2
<1>7. TypeOK'
  BY <1>1, <1>2, <1>6 DEF TypeOK, Sound
<1>8. AccountsGenuine'
  BY <1>1, <1>4, <1>6 DEF Inv, AccountsGenuine, Known
<1>9. OpOK' /\ InSync'
  BY <1>1, <1>4, <1>6, NoOpIs DEF OpOK, InSync, Saving
<1>10. Agree'
  BY <1>1, <1>4, <1>6 DEF Inv, Agree
<1>11. Told'
  <2>1. SUFFICES ASSUME mishaps = {}
                 PROVE  /\ db'.list = acked
                        /\ \A e \in acked : /\ e.name \in ValidNames
                                            /\ who'[e.name] # NoId => who'[e.name] = e.id
    BY <1>1, NoOpIs DEF Told
  <2>2. db.list = acked /\ db'.list = acked
    BY <1>1, <1>4, <1>6, <2>1 DEF Inv, Told
  <2>3. \A e \in acked : e.name \in ValidNames /\ (who[e.name] # NoId => who[e.name] = e.id)
    BY <2>1 DEF Inv, Told
  <2>4. \A e \in acked : e.name \in Names
    BY <1>2, <2>2 DEF TypeOK, Account
  <2>5. QED
    BY <1>4, <1>6, <2>1, <2>2, <2>3, <2>4
<1>12. QED
  BY <1>6, <1>7, <1>8, <1>9, <1>10, <1>11 DEF Inv

LEMMA LoggingOut == ASSUME Inv, NEW n \in Names, Logout(n) PROVE Inv'
<1>1. /\ op.step = "idle" /\ op = NoOp /\ who' = [who EXCEPT ![n] = NoId]
      /\ UNCHANGED <<db, op, acked, ever, mishaps>>
  BY DEF Logout, Idle, Inv, OpOK
<1>2. TypeOK /\ Sound(db, who)
  BY DEF Inv
<1>3. who' \in [Names -> Nat] /\ \A m \in Names : who'[m] = IF m = n THEN NoId ELSE who[m]
  BY <1>1, <1>2 DEF TypeOK, NoId
<1>4. \A e \in Known(db) : e.id # NoId
  BY <1>2 DEF TypeOK, Known, Database, Account, Ids
<1>5. NoId < db.next
  BY <1>2 DEF TypeOK, Database, Ids, NoId
<1>6. Sound(db, who')
  BY <1>2, <1>3, <1>4, <1>5 DEF Sound
<1>7. TypeOK' /\ AccountsGenuine' /\ OpOK' /\ InSync'
  BY <1>1, <1>2, <1>3, NoOpIs DEF Inv, TypeOK, AccountsGenuine, OpOK, InSync, Saving
<1>8. Agree'
  BY <1>1, <1>3 DEF Inv, Agree
<1>9. Told'
  <2>1. \A e \in acked : e.name \in Names
    BY <1>2 DEF TypeOK, Account
  <2>2. QED
    BY <1>1, <1>3, <2>1, NoOpIs DEF Inv, Told
<1>10. QED
  BY <1>1, <1>6, <1>7, <1>8, <1>9 DEF Inv

-----------------------------------------------------------------------------
(* Handlers *)

(* The first step of REGISTER or DROP: the account leaves the list.         *)
LEMMA Beginning ==
  ASSUME Inv, NEW n \in Names, NEW k \in Keys,
         NEW kind \in {"register", "drop"}, NEW otherwise \in {"add", "answer"},
         otherwise = "add" <=> kind = "register",
         Begin(n, k, kind, otherwise)
  PROVE  Inv'
<1>1. /\ op.step = "idle" /\ who[n] # NoId /\ UNCHANGED <<who, acked, ever, mishaps>>
      /\ TypeOK /\ op = NoOp
  BY DEF Begin, Idle, Inv, OpOK
<1>2. PICK d \in Load(db) :
        /\ db' = DropMem(d, n)
        /\ op' = [NoOp EXCEPT !.kind = kind, !.name = n, !.key = k, !.ok = Registered(d, n),
                              !.step = IF Registered(d, n) THEN "open1" ELSE otherwise]
  BY DEF Begin
<1>3. /\ Sound(d, who) /\ d.file = db.file /\ d \in Database
      /\ d.list \subseteq Known(db)
      /\ "unsaved" \notin mishaps => d.list = db.list /\ d.file = d.list
  BY <1>1, <1>2, LoadTold
<1>4. /\ Sound(db', who) /\ db'.file = db.file
      /\ db'.list = {e \in d.list : e.name # n}
  BY <1>2, <1>3, DropSound
<1>5. /\ op' \in Op /\ op'.kind = kind /\ op'.name = n /\ op'.key = k /\ op'.left = {}
      /\ op'.ok = Registered(d, n)
      /\ op'.step = IF Registered(d, n) THEN "open1" ELSE otherwise
  <2>1. Registered(d, n) \in BOOLEAN
    BY DEF Registered
  <2>2. QED
    BY <1>2, <2>1, NoOpIs DEF Op, Steps
<1>6. ~Registered(d, n) => db'.list = d.list
  BY <1>4 DEF Registered
<1>7. TypeOK'
  BY <1>1, <1>4, <1>5 DEF TypeOK, Sound
<1>8. AccountsGenuine'
  BY <1>1, <1>3, <1>4 DEF Inv, AccountsGenuine, Known
<1>9. OpOK'
  BY <1>1, <1>5 DEF OpOK, Saving
<1>10. InSync'
  BY <1>1, <1>3, <1>4, <1>5, <1>6 DEF InSync
<1>11. Agree'
  BY <1>1, <1>3, <1>4 DEF Inv, Agree
<1>12. Told'
  <2>1. SUFFICES ASSUME mishaps = {} PROVE Told'
    BY <1>1 DEF Told
  <2>2. db.list = acked /\ d.list = acked /\ db'.file = acked
    BY <1>1, <1>3, <1>4, <2>1 DEF Inv, Told
  <2>3. Others' = {e \in acked : e.name # n} /\ db'.list = Others'
    BY <1>1, <1>4, <1>5, <2>2 DEF Others
  <2>4. op'.step = "answer" => ~op'.ok /\ db'.list = acked
    BY <1>5, <1>6, <2>2
  <2>5. Outcome' = acked \/ op'.ok
    BY <1>1 DEF Outcome
  <2>6. \A e \in acked : e.name \in ValidNames /\ (who[e.name] # NoId => who[e.name] = e.id)
    BY <2>1 DEF Inv, Told
  <2>7. op'.step \in {"open1", "add", "answer"} /\ (op'.step = "open1" => op'.ok)
    BY <1>5
  <2>8. QED
    BY <1>1, <2>2, <2>3, <2>4, <2>5, <2>6, <2>7 DEF Told
<1>13. QED
  BY <1>1, <1>4, <1>7, <1>8, <1>9, <1>10, <1>11, <1>12 DEF Inv

(* What the type of op and OpOK say of a handler in progress.               *)
LEMMA Busy ==
  ASSUME Inv, op.step # "idle"
  PROVE  /\ TypeOK /\ Sound(db, who) /\ op \in Op /\ op.name \in Names /\ op.key \in Keys
         /\ op.kind \in {"register", "drop"} /\ who[op.name] # NoId
BY DEF Inv, OpOK, TypeOK, Op

LEMMA Adding == ASSUME Inv, Add PROVE Inv'
<1>1. /\ op.step = "add" /\ UNCHANGED <<who, acked, mishaps>>
      /\ op.kind = "register" /\ op.left = {}
  BY DEF Add, Inv, OpOK, Saving
<1>2. /\ TypeOK /\ op \in Op /\ op.name \in Names /\ op.key \in Keys /\ who[op.name] # NoId
  BY <1>1, Busy
<1>3. PICK d \in Load(db) :
        /\ db' = AddMem(d, who[op.name], op.name, op.key)
        /\ op' = [op EXCEPT !.step = "open2", !.ok = CanAdd(d, op.name)]
        /\ ever' = IF CanAdd(d, op.name) THEN ever \cup {<<who[op.name], op.name>>} ELSE ever
  BY DEF Add
<1>4. /\ Sound(d, who) /\ d.file = db.file /\ d \in Database
      /\ d.list \subseteq Known(db)
      /\ "unsaved" \notin mishaps => d.list = db.list /\ d.file = d.list
  BY <1>1, <1>3, LoadTold
<1>5. /\ Sound(db', who) /\ db'.file = db.file
      /\ db'.list = IF CanAdd(d, op.name) THEN d.list \cup {Asked} ELSE d.list
  BY <1>2, <1>3, <1>4, AddSound DEF Asked
<1>6. /\ op' \in Op /\ op'.kind = "register" /\ op'.name = op.name /\ op'.key = op.key
      /\ op'.left = {} /\ op'.step = "open2" /\ op'.ok = CanAdd(d, op.name)
  <2>1. CanAdd(d, op.name) \in BOOLEAN
    BY DEF CanAdd, Registered
  <2>2. QED
    BY <1>1, <1>2, <1>3, <2>1 DEF Op, Steps
<1>7. Asked.id = who[op.name] /\ Asked.name = op.name
  BY DEF Asked
<1>8. TypeOK'
  <2>1. who[op.name] \in Ids
    BY <1>2 DEF TypeOK, Ids
  <2>2. ever' \subseteq Ids \X Names
    BY <1>2, <1>3, <2>1 DEF TypeOK
  <2>3. QED
    BY <1>1, <1>2, <1>5, <1>6, <2>2 DEF TypeOK, Sound
<1>9. AccountsGenuine'
  <2>1. \A e \in Known(db) : <<e.id, e.name>> \in ever
    BY DEF Inv, AccountsGenuine, Known
  <2>2. Known(db') \subseteq Known(db) \cup (IF CanAdd(d, op.name) THEN {Asked} ELSE {})
    BY <1>4, <1>5 DEF Known
  <2>3. \A e \in Known(db') : <<e.id, e.name>> \in ever'
    BY <1>3, <1>7, <2>1, <2>2
  <2>4. QED
    BY <2>3 DEF AccountsGenuine, Known
<1>10. OpOK' /\ InSync'
  BY <1>1, <1>2, <1>6 DEF OpOK, InSync, Saving
<1>11. Agree'
  BY <1>1, <1>4, <1>5, <1>7 DEF Inv, Agree
<1>12. Told'
  <2>1. SUFFICES ASSUME mishaps = {} PROVE Told'
    BY <1>1 DEF Told
  <2>2. d.list = Others
    BY <1>1, <1>4, <2>1 DEF Inv, Told
  <2>3. \A e \in acked : e.name \in ValidNames /\ (who[e.name] # NoId => who[e.name] = e.id)
    BY <2>1 DEF Inv, Told
  <2>4. ~CanAdd(d, op.name) => Others = acked
    <3>1. ~Registered(d, op.name)
      BY <2>2 DEF Registered, Others
    <3>2. QED
      BY <2>3, <3>1 DEF CanAdd, Others
  <2>5. Others' = Others /\ Asked' = Asked
    BY <1>1, <1>6 DEF Others, Asked
  <2>6. db'.list = Outcome'
    BY <1>1, <1>5, <1>6, <2>2, <2>4, <2>5 DEF Outcome
  <2>7. QED
    BY <1>1, <1>6, <2>3, <2>6 DEF Told
<1>13. QED
  BY <1>1, <1>5, <1>8, <1>9, <1>10, <1>11, <1>12 DEF Inv

-----------------------------------------------------------------------------
(* The save: the file is emptied, and then filled again from the list. *)

LEMMA Opening == ASSUME Inv, SaveOpen PROVE Inv'
<1>1. /\ op.step \in {"open1", "open2"} /\ UNCHANGED <<who, acked, ever, mishaps>>
      /\ db' = [db EXCEPT !.file = {}]
      /\ op' = [op EXCEPT !.step = IF @ = "open1" THEN "write1" ELSE "write2", !.left = db.list]
  BY DEF SaveOpen
<1>2. /\ TypeOK /\ Sound(db, who) /\ op \in Op
      /\ op.kind \in {"register", "drop"} /\ who[op.name] # NoId
      /\ db \in Database
  BY <1>1, Busy DEF Sound
<1>3. Sound(db', who) /\ db'.list = db.list /\ db'.file = {}
  BY <1>1, <1>2, FileSound
<1>4. /\ op' \in Op /\ op'.kind = op.kind /\ op'.name = op.name /\ op'.key = op.key
      /\ op'.ok = op.ok /\ op'.left = db.list
      /\ op'.step = IF op.step = "open1" THEN "write1" ELSE "write2"
  BY <1>1, <1>2 DEF Op, Steps, Database
<1>5. TypeOK' /\ AccountsGenuine'
  BY <1>1, <1>2, <1>3, <1>4 DEF Inv, TypeOK, Sound, AccountsGenuine
<1>6. OpOK' /\ InSync' /\ Agree'
  BY <1>1, <1>2, <1>3, <1>4 DEF Inv, OpOK, InSync, Agree, Saving
<1>7. Told'
  <2>1. Others' = Others /\ Outcome' = Outcome
    BY <1>1, <1>4 DEF Others, Outcome, Asked
  <2>2. QED
    BY <1>1, <1>3, <1>4, <2>1 DEF Inv, Told
<1>8. QED
  BY <1>1, <1>3, <1>5, <1>6, <1>7 DEF Inv

LEMMA NotOpening == ASSUME Inv, SaveOpenFails PROVE Inv'
<1>1. /\ op.step \in {"open1", "open2"} /\ UNCHANGED <<db, who, acked, ever>>
      /\ op' = [op EXCEPT !.step = AfterSave(op.step)]
      /\ mishaps' = mishaps \cup {"unsaved"}
  BY DEF SaveOpenFails
<1>2. /\ TypeOK /\ op \in Op /\ op.kind \in {"register", "drop"} /\ who[op.name] # NoId
      /\ op.left = {} /\ (op.kind = "drop" => op.step # "open2")
  BY <1>1, Busy DEF Inv, OpOK, Saving
<1>3. /\ op' \in Op /\ op'.kind = op.kind /\ op'.name = op.name /\ op'.left = {}
      /\ op'.step \in {"add", "answer"} /\ (op'.step = "add" => op.kind = "register")
  BY <1>1, <1>2 DEF Op, Steps, AfterSave
<1>4. TypeOK' /\ AccountsGenuine'
  BY <1>1, <1>2, <1>3 DEF Inv, TypeOK, AccountsGenuine
<1>5. OpOK' /\ InSync' /\ Agree' /\ Told'
  BY <1>1, <1>2, <1>3 DEF OpOK, InSync, Agree, Told, Saving
<1>6. QED
  BY <1>1, <1>4, <1>5 DEF Inv

LEMMA Writing == ASSUME Inv, SaveLine PROVE Inv'
<1>1. /\ op.step \in Saving /\ UNCHANGED <<who, acked, ever, mishaps>>
  BY DEF SaveLine, Saving
<1>2. PICK e \in op.left :
        /\ db' = [db EXCEPT !.file = db.file \cup {e}]
        /\ op' = [op EXCEPT !.left = op.left \ {e}]
  BY DEF SaveLine
<1>3. /\ TypeOK /\ Sound(db, who) /\ op \in Op /\ op.step # "idle"
      /\ op.kind \in {"register", "drop"} /\ who[op.name] # NoId
      /\ db.file \cap op.left = {} /\ db.file \cup op.left = db.list
  BY <1>1, Busy DEF Inv, OpOK, Saving
<1>4. Sound(db', who) /\ db'.list = db.list /\ db'.file = db.file \cup {e}
  BY <1>2, <1>3, FileSound
<1>5. /\ op' \in Op /\ op'.kind = op.kind /\ op'.name = op.name /\ op'.key = op.key
      /\ op'.ok = op.ok /\ op'.step = op.step /\ op'.left = op.left \ {e}
  BY <1>2, <1>3 DEF Op
<1>6. TypeOK' /\ AccountsGenuine'
  BY <1>1, <1>2, <1>3, <1>4, <1>5 DEF Inv, TypeOK, Sound, AccountsGenuine
<1>7. OpOK'
  BY <1>1, <1>2, <1>3, <1>4, <1>5 DEF Inv, OpOK
<1>8. InSync' /\ Agree'
  BY <1>1, <1>4, <1>5 DEF Inv, InSync, Agree, Saving
<1>9. Told'
  <2>1. Others' = Others /\ Outcome' = Outcome
    BY <1>1, <1>5 DEF Others, Outcome, Asked
  <2>2. QED
    BY <1>1, <1>4, <1>5, <2>1 DEF Inv, Told, Saving
<1>10. QED
  BY <1>1, <1>4, <1>6, <1>7, <1>8, <1>9 DEF Inv

(* When the file is closed it says what the list says.                      *)
LEMMA Closing == ASSUME Inv, SaveClose PROVE Inv'
<1>1. /\ op.step \in Saving /\ op.left = {} /\ UNCHANGED <<db, who, acked, ever, mishaps>>
      /\ op' = [op EXCEPT !.step = AfterSave(op.step)]
  BY DEF SaveClose, Saving
<1>2. /\ TypeOK /\ op \in Op /\ op.kind \in {"register", "drop"} /\ who[op.name] # NoId
      /\ op.step # "idle" /\ db.file = db.list
      /\ op.kind = "drop" => op.step = "write1"
  BY <1>1, Busy DEF Inv, OpOK, Saving
<1>3. /\ op' \in Op /\ op'.kind = op.kind /\ op'.name = op.name /\ op'.key = op.key
      /\ op'.ok = op.ok /\ op'.left = {}
      /\ op'.step = IF op.step = "write1" /\ op.kind = "register" THEN "add" ELSE "answer"
  BY <1>1, <1>2 DEF Op, Steps, AfterSave, Saving
<1>4. TypeOK' /\ AccountsGenuine'
  BY <1>1, <1>2, <1>3 DEF Inv, TypeOK, AccountsGenuine
<1>5. OpOK' /\ InSync' /\ Agree'
  BY <1>1, <1>2, <1>3 DEF Inv, OpOK, InSync, Agree, Saving
<1>6. Told'
  <2>1. Others' = Others /\ Outcome' = Outcome
    BY <1>1, <1>3 DEF Others, Outcome, Asked
  <2>2. SUFFICES ASSUME mishaps = {} PROVE Told'
    BY <1>1 DEF Told
  <2>3. op.step = "write1" => op.ok /\ db.list = Others
    BY <2>2 DEF Inv, Told
  <2>4. op.step = "write2" => db.list = Outcome
    BY <2>2 DEF Inv, Told
  <2>5. op'.step = "answer" => db.list = Outcome
    BY <1>1, <1>2, <1>3, <2>3, <2>4 DEF Outcome, Saving
  <2>6. op'.step = "add" => db.list = Others
    BY <1>3, <2>3
  <2>7. \A e \in acked : e.name \in ValidNames /\ (who[e.name] # NoId => who[e.name] = e.id)
    BY <2>2 DEF Inv, Told
  <2>8. op'.step \in {"add", "answer"}
    BY <1>3
  <2>9. QED
    BY <1>1, <2>1, <2>5, <2>6, <2>7, <2>8 DEF Told
<1>7. QED
  BY <1>1, <1>4, <1>5, <1>6 DEF Inv

LEMMA Answering == ASSUME Inv, Answer PROVE Inv'
<1>1. /\ op.step = "answer" /\ acked' = Outcome /\ op' = NoOp
      /\ UNCHANGED <<db, who, ever, mishaps>>
  BY DEF Answer, Outcome, Others, Asked
<1>2. /\ TypeOK /\ op \in Op /\ op.name \in Names /\ op.key \in Keys
      /\ op.kind \in {"register", "drop"} /\ who[op.name] # NoId /\ Sound(db, who)
  BY <1>1, Busy
<1>3. Asked \in Account /\ Asked.name = op.name /\ Asked.id = who[op.name]
  BY <1>2 DEF Asked, Account, Ids, TypeOK
<1>4. TypeOK' /\ AccountsGenuine'
  <2>1. acked' \subseteq Account
    BY <1>1, <1>2, <1>3 DEF TypeOK, Outcome, Others
  <2>2. QED
    BY <1>1, <1>2, <2>1, NoOpIs DEF Inv, TypeOK, AccountsGenuine
<1>5. OpOK' /\ InSync' /\ Agree'
  BY <1>1, NoOpIs DEF Inv, OpOK, InSync, Agree, Saving
<1>6. Told'
  <2>1. SUFFICES ASSUME mishaps = {} PROVE Told'
    BY <1>1 DEF Told
  <2>2. db.list = acked'
    BY <1>1, <2>1 DEF Inv, Told
  <2>3. \A e \in acked : who[e.name] # NoId => who[e.name] = e.id
    BY <2>1 DEF Inv, Told
  <2>4. \A e \in acked' : who[e.name] # NoId => who[e.name] = e.id
    BY <1>1, <1>3, <2>3 DEF Outcome, Others
  <2>5. \A e \in acked' : e.name \in ValidNames
    BY <1>2, <2>2 DEF Sound, Known
  <2>6. QED
    BY <1>1, <2>2, <2>4, <2>5, NoOpIs DEF Told
<1>7. QED
  BY <1>1, <1>2, <1>4, <1>5, <1>6 DEF Inv

-----------------------------------------------------------------------------
(* The restart *)

(* Whatever the process leaves of the file can be read back: a line cut off *)
(* in its key is that of an account that is not in the file yet.            *)
LEMMA DiskReadable ==
  ASSUME Inv, NEW f \in DiskAfterCrash
  PROVE  /\ f \subseteq Account /\ Distinct(f)
         /\ \A e \in f : e.name \in ValidNames /\ <<e.id, e.name>> \in ever
         /\ op.step \in FileWhole => f = db.file
<1>1. TypeOK /\ Sound(db, who) /\ db.file \subseteq Account /\ db.list \subseteq Account
  BY DEF Inv, TypeOK, Database
<1>2. \A e \in Known(db) : e.name \in ValidNames /\ <<e.id, e.name>> \in ever
  BY DEF Inv, Sound, AccountsGenuine, Known
<1>3. CASE f = db.file
  BY <1>1, <1>2, <1>3 DEF Sound, Known
<1>4. CASE f # db.file
  <2>1. PICK e \in op.left : f = db.file \cup {[e EXCEPT !.key = TornKey]}
    BY <1>4 DEF DiskAfterCrash
  <2>2. op.step \in Saving /\ db.file \cap op.left = {} /\ db.file \cup op.left = db.list
    BY <2>1 DEF Inv, OpOK
  <2>3. e \in db.list /\ e \notin db.file /\ e \in Account /\ e \in Known(db)
    BY <1>1, <2>1, <2>2 DEF Known
  <2> DEFINE t == [e EXCEPT !.key = TornKey]
  <2>4. t \in Account /\ t.id = e.id /\ t.name = e.name
    BY <2>3, KeysAssumption DEF Account
  <2>5. \A g \in db.file : g.id # t.id /\ g.name # t.name
    BY <1>1, <2>2, <2>3, <2>4 DEF Sound, Distinct
  <2>6. Distinct(f)
    <3>1. Distinct(db.file) /\ f = db.file \cup {t}
      BY <1>1, <2>1 DEF Sound
    <3> HIDE DEF t
    <3>2. QED
      BY <2>5, <3>1 DEF Distinct
  <2>7. \A g \in f : g.name \in ValidNames /\ <<g.id, g.name>> \in ever
    BY <1>2, <2>1, <2>3, <2>4 DEF Known
  <2>8. f \subseteq Account
    BY <1>1, <2>1, <2>4
  <2>9. op.step \notin FileWhole
    BY <2>2 DEF Saving, FileWhole
  <2>10. QED
    BY <2>6, <2>7, <2>8, <2>9
<1>5. QED
  BY <1>3, <1>4

LEMMA Restarting == ASSUME Inv, CrashRestart PROVE Inv'
<1> DEFINE found == {e \in db'.list : op.kind # "none" /\ e.name = op.name}
           kept == {e \in acked : op.kind = "drop" \/ found # {} => e.name # op.name}
<1>1. /\ op' = NoOp /\ ever' = ever /\ who' = NoSessions /\ acked' = found \cup kept
      /\ mishaps' = mishaps \cup (IF op.step \in FileWhole THEN {} ELSE {"killed"})
  BY DEF CrashRestart, NoSessions
<1>2. TypeOK /\ OpOK /\ InSync /\ Told
  BY DEF Inv
<1>3. PICK f \in DiskAfterCrash : db' \in Fresh(f)
  BY DEF CrashRestart
<1>4. /\ f \subseteq Account /\ Distinct(f)
      /\ \A e \in f : e.name \in ValidNames /\ <<e.id, e.name>> \in ever
      /\ op.step \in FileWhole => f = db.file
  BY <1>3, DiskReadable
<1>5. Sound(db', NoSessions) /\ db'.list = f /\ db'.file = f
  BY <1>3, <1>4, FreshSound
<1>6. \A n \in Names : who'[n] = NoId
  BY <1>1 DEF NoSessions
<1>7. TypeOK'
  <2>1. acked' \subseteq Account
    BY <1>1, <1>2, <1>4, <1>5 DEF TypeOK
  <2>2. who' \in [Names -> Nat] /\ db' \in Database
    BY <1>1, <1>5 DEF Sound
  <2>3. mishaps' \subseteq {"killed", "unsaved"}
    BY <1>1, <1>2 DEF TypeOK
  <2>4. QED
    BY <1>1, <1>2, <2>1, <2>2, <2>3, NoOpIs DEF TypeOK
<1>8. AccountsGenuine'
  BY <1>1, <1>4, <1>5 DEF AccountsGenuine
<1>9. OpOK' /\ InSync'
  BY <1>1, <1>5, NoOpIs DEF OpOK, InSync, Saving
<1>10. Agree'
  BY <1>6 DEF Agree
<1>11. Told'
  <2>1. SUFFICES ASSUME mishaps' = {} PROVE Told'
    BY DEF Told
  <2>2. mishaps = {} /\ op.step \in FileWhole /\ f = db.file
    BY <1>1, <1>4, <2>1
  <2>3. found \cup kept = f
    <3>1. CASE op.step = "idle"
      <4>1. op.kind = "none" /\ db.file = db.list /\ db.list = acked
        BY <1>2, <2>2, <3>1, NoOpIs DEF OpOK, InSync, Told
      <4>2. found = {} /\ kept = acked
        BY <4>1
      <4>3. QED
        BY <2>2, <4>1, <4>2
    <3>2. CASE f = acked
      BY <1>5, <3>2
    <3>3. CASE op.step = "answer" /\ op.ok
      <4>1. op.kind \in {"register", "drop"} /\ f = Outcome
        BY <1>2, <2>2, <3>3 DEF OpOK, InSync, Told
      <4>2. Asked.name = op.name
        BY DEF Asked
      <4>3. CASE op.kind = "drop"
        <5>1. f = Others
          BY <3>3, <4>1, <4>3 DEF Outcome
        <5>2. found = {} /\ kept = Others
          BY <1>5, <4>3, <5>1 DEF Others
        <5>3. QED
          BY <5>1, <5>2
      <4>4. CASE op.kind = "register"
        <5>1. f = Others \cup {Asked}
          BY <3>3, <4>1, <4>4 DEF Outcome
        <5>2. found = {Asked}
          BY <1>5, <4>2, <4>4, <5>1 DEF Others
        <5>3. kept = Others
          BY <5>2 DEF Others
        <5>4. QED
          BY <5>1, <5>2, <5>3
      <4>5. QED
        BY <4>1, <4>3, <4>4
    <3>4. op.step = "open1" => f = acked
      BY <1>2, <2>2 DEF Told
    <3>5. op.step = "answer" /\ ~op.ok => f = acked
      BY <1>2, <2>2 DEF Told, InSync, Outcome
    <3>6. QED
      BY <2>2, <3>1, <3>2, <3>3, <3>4, <3>5 DEF FileWhole
  <2>4. db'.list = acked'
    BY <1>1, <1>5, <2>3
  <2>5. \A e \in acked' : e.name \in ValidNames /\ e.name \in Names
    <3>1. acked' = f
      BY <1>5, <2>4
    <3>2. \A e \in f : e.name \in ValidNames /\ e.name \in Names
      BY <1>4 DEF Account
    <3>3. QED
      BY <3>1, <3>2
  <2>6. QED
    BY <1>1, <1>6, <2>4, <2>5, NoOpIs DEF Told
<1>12. QED
  BY <1>1, <1>5, <1>7, <1>8, <1>9, <1>10, <1>11 DEF Inv

-----------------------------------------------------------------------------
LEMMA Stuttering == ASSUME Inv, UNCHANGED vars PROVE Inv'
BY DEF Inv, vars, TypeOK, Sound, Known, Distinct, AccountsGenuine, OpOK, InSync, Agree, Told,
       Others, Outcome, Asked, Saving

LEMMA Step == Inv /\ [Next]_vars => Inv'
<1> SUFFICES ASSUME Inv, [Next]_vars PROVE Inv'
  OBVIOUS
<1>1. ASSUME NEW n \in Names, Login(n) PROVE Inv'
  BY <1>1, LoggingIn
<1>2. ASSUME NEW n \in Names, Logout(n) PROVE Inv'
  BY <1>2, LoggingOut
<1>3. ASSUME NEW n \in Names, BeginDrop(n) PROVE Inv'
  BY <1>3, Beginning, KeysAssumption DEF BeginDrop
<1>4. ASSUME NEW n \in Names, NEW k \in Keys \ {TornKey}, BeginRegister(n, k) PROVE Inv'
  BY <1>4, Beginning DEF BeginRegister
<1>5. CASE Handler
  BY <1>5, Adding, Opening, NotOpening, Writing, Closing, Answering DEF Handler
<1>6. CASE CrashRestart
  BY <1>6, Restarting
<1>7. CASE UNCHANGED vars
  BY <1>7, Stuttering
<1>8. QED
  BY <1>1, <1>2, <1>3, <1>4, <1>5, <1>6, <1>7 DEF Next

(* The inductive invariant: a handler taken apart into its two saves, and   *)
(* killed at any of CrashSteps, always leaves a database that main can read *)
(* and on which the next REGISTER or DROP of srvmain.c works as designed.   *)
THEOREM Invariance == Spec => []Inv
<1>1. QED
  BY Initially, Step, PTL DEF Spec

(* What srvuserdb.c and the handlers keep has the types they declare.       *)
THEOREM TypeCorrect == Spec => []TypeOK
<1>1. Inv => TypeOK
  BY DEF Inv
<1>2. QED
  BY <1>1, Invariance, PTL

(* As long as udb_save succeeds and kills spare the time it runs, memory    *)
(* and file hold, between messages, what the last OK answers to REGISTER    *)
(* and DROP described.                                                      *)
THEOREM AckedSurvives == Spec => []AckedDurable
<1>1. Inv => AckedDurable
  <2>1. SUFFICES ASSUME Inv, mishaps = {}, Idle PROVE db.list = acked /\ db.file = acked
    BY DEF AckedDurable
  <2>2. db.list = acked /\ db.file = db.list
    BY <2>1 DEF Inv, Told, InSync, Idle
  <2>3. QED
    BY <2>2
<1>2. QED
  BY <1>1, Invariance, PTL

(* Whatever udb_save left of the file and udb_load found in it: no two      *)
(* accounts have the name or the id in common, and none has an id that      *)
(* udb_gettempid may still hand out.                                        *)
THEOREM AccountsDistinct == Spec => []DistinctAccounts
<1>1. Inv => DistinctAccounts
  <2>1. SUFFICES ASSUME Inv PROVE DistinctAccounts
    OBVIOUS
  <2>2. Distinct(db.list) /\ \A e \in db.list : e.id < db.next
    BY <2>1 DEF Inv, Sound, Known
  <2>3. \A n \in Names : who[n] < db.next
    BY <2>1 DEF Inv, Sound
  <2>4. QED
    BY <2>2, <2>3 DEF DistinctAccounts, Distinct
<1>2. QED
  BY <1>1, Invariance, PTL

(* The id the REGISTER handler adds an account under, that of its session,  *)
(* is that of the account it dropped, and of no other account.              *)
THEOREM Sessions == Spec => []SessionsAgree
<1>1. Inv => SessionsAgree
  <2>1. SUFFICES ASSUME Inv, "unsaved" \notin mishaps,
                        NEW n \in Names, NEW e \in db.list, who[n] # NoId
                 PROVE  who[n] = e.id <=> n = e.name
    BY DEF SessionsAgree
  <2>2. who[n] = e.id => n = e.name
    BY <2>1 DEF Inv, Sound, Known
  <2>3. n = e.name => who[n] = e.id
    BY <2>1 DEF Inv, Agree
  <2>4. QED
    BY <2>2, <2>3
<1>2. QED
  BY <1>1, Invariance, PTL

(* udb_load finds no account that udb_addentry did not once create, however *)
(* often the file was cut off.                                              *)
THEOREM Genuine == Spec => []AccountsGenuine
<1>1. Inv => AccountsGenuine
  BY DEF Inv
<1>2. QED
  BY <1>1, Invariance, PTL

-----------------------------------------------------------------------------
(* Identities *)

AckedOnce == mishaps = {} => Distinct(acked)

(* Only the last step of a handler, and a restart, change what was answered.*)
LEMMA Unanswered ==
  ASSUME Inv, [Next]_vars
  PROVE  /\ mishaps' = {} => mishaps = {}
         /\ Answer \/ CrashRestart \/ acked' = acked
BY DEF Next, Login, Logout, BeginDrop, BeginRegister, Begin, Handler, Add, SaveOpen, SaveOpenFails,
       SaveLine, SaveClose, Answer, CrashRestart, vars

LEMMA AckedOnceStep == ASSUME Inv, Inv', AckedOnce, [Next]_vars PROVE AckedOnce'
<1>1. SUFFICES ASSUME mishaps' = {} PROVE Distinct(acked')
  BY DEF AckedOnce, Distinct
<1>2. mishaps = {} /\ (Answer \/ CrashRestart \/ acked' = acked)
  BY <1>1, Unanswered
<1>3. CASE Answer \/ CrashRestart
  <2>1. op'.step = "idle"
    BY <1>3, NoOpIs DEF Answer, CrashRestart
  <2>2. acked' = db'.list
    BY <1>1, <2>1 DEF Inv, Told
  <2>3. Distinct(db'.list)
    BY DEF Inv, Sound, Distinct
  <2>4. QED
    BY <2>2, <2>3
<1>4. CASE acked' = acked
  BY <1>2, <1>4 DEF AckedOnce
<1>5. QED
  BY <1>2, <1>3, <1>4

(* The answer to REGISTER may bring a new key, not a new id.                *)
LEMMA OutcomeKeepsIds ==
  ASSUME Inv, AckedOnce, mishaps = {}, op.step = "answer"
  PROVE  \A e \in acked, f \in Outcome : e.name = f.name => e.id = f.id
<1>1. Distinct(acked) /\ who[op.name] # NoId
  BY Busy DEF AckedOnce
<1>2. \A e \in acked : who[e.name] # NoId => who[e.name] = e.id
  BY DEF Inv, Told
<1>3. Asked.name = op.name /\ Asked.id = who[op.name]
  BY DEF Asked
<1>4. \A f \in Outcome : f \in acked \/ f = Asked
  BY DEF Outcome, Others
<1>5. QED
  BY <1>1, <1>2, <1>3, <1>4 DEF Distinct

(* The id peers address an account by outlives a change of its key by       *)
(* REGISTER, in one step of the system or across a restart.                 *)
THEOREM IdsKept == Spec => IdsStable
<1> DEFINE Kept == mishaps' = {} => \A e \in acked, f \in acked' : e.name = f.name => e.id = f.id
<1>1. ASSUME Inv, AckedOnce, [Next]_vars PROVE Kept
  <2>1. SUFFICES ASSUME mishaps' = {}
                 PROVE  \A e \in acked, f \in acked' : e.name = f.name => e.id = f.id
    OBVIOUS
  <2>2. mishaps = {} /\ Distinct(acked) /\ (Answer \/ CrashRestart \/ acked' = acked)
    BY <1>1, <2>1, Unanswered DEF AckedOnce
  <2>3. CASE acked' = acked
    BY <2>2, <2>3 DEF Distinct
  <2>4. CASE Answer
    <3>1. acked' = Outcome /\ op.step = "answer"
      BY <2>4 DEF Answer, Outcome, Others, Asked
    <3>2. QED
      BY <1>1, <2>2, <3>1, OutcomeKeepsIds
  <2>5. CASE CrashRestart
    <3>1. /\ \A f \in acked' : f \in acked \/ (f \in db'.list /\ op.kind # "none")
          /\ op.step \in FileWhole
      BY <2>1, <2>5 DEF CrashRestart
    <3>2. db'.list = db.file
      <4>1. PICK f \in DiskAfterCrash : db' \in Fresh(f)
        BY <2>5 DEF CrashRestart
      <4>2. QED
        BY <1>1, <3>1, <4>1, DiskReadable, FreshSound
    <3>3. op.step = "idle" => op.kind = "none"
      BY <1>1, NoOpIs DEF Inv, OpOK
    <3>4. op.step = "open1" => db.file = acked
      BY <1>1, <2>2 DEF Inv, Told
    <3>5. op.step = "answer" => db.file = Outcome
      BY <1>1, <2>2 DEF Inv, Told, InSync
    <3>6. \A f \in acked' : f \in acked \/ (op.step = "answer" /\ f \in Outcome)
      BY <3>1, <3>2, <3>3, <3>4, <3>5 DEF FileWhole
    <3>7. QED
      BY <1>1, <2>2, <3>6, OutcomeKeepsIds DEF Distinct
  <2>6. QED
    BY <2>2, <2>3, <2>4, <2>5
<1>2. Init => AckedOnce
  BY DEF Init, AckedOnce, Distinct
<1>3. Inv /\ Inv' /\ AckedOnce /\ [Next]_vars => AckedOnce'
  BY AckedOnceStep
<1>4. QED
  BY <1>1, <1>2, <1>3, Invariance, PTL DEF Spec, IdsStable
=============================================================================
