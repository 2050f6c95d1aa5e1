--------------------------- MODULE UserDb_proofs ----------------------------
(***************************************************************************)
(* What the calls into the user database return, for every database: the   *)
(* lemmas the proofs about SrvSession rest on.                             *)
(***************************************************************************)
EXTENDS UserDb, TLAPS

(* Every id in use is below the counter. *)
Behind(db) == \A e \in db.list : e.id < db.next

(* d is a database that a call on db may leave: the counter never moves     *)
(* back, and stays ahead of the ids in the list.                            *)
Successor(db, d) == d \in Database /\ Behind(d) /\ d.next >= db.next

(* No account is found under two names or two ids. *)
Distinct(accounts) ==
  \A e, f \in accounts : e.id = f.id \/ e.name = f.name => e = f

-----------------------------------------------------------------------------
(* Looking up a registered name finds an account of that name. *)
LEMMA AccountOfFound ==
  ASSUME NEW db, NEW n, Registered(db, n)
  PROVE  AccountOf(db, n) \in db.list /\ AccountOf(db, n).name = n
  BY DEF Registered, AccountOf

(* udb_load, on a list that is behind its counter. *)
LEMMA LoadSuccessor ==
  ASSUME NEW db \in Database, Behind(db), NEW d \in Load(db)
  PROVE  Successor(db, d) /\ d.file = db.file
<1>1. CASE db.list # {}
  BY <1>1 DEF Load, Successor, Database, Ids
<1>2. CASE db.list = {}
  <2>1. PICK m \in NextAfter(db.next, Readable(db)) :
              d = [db EXCEPT !.list = Readable(db), !.next = m]
    BY <1>2 DEF Load
  <2>2. Readable(db) \subseteq Account
    BY DEF Readable, Database
  <2>3. m \in Ids /\ m >= db.next /\ \A e \in Readable(db) : m > e.id
    BY <2>2 DEF NextAfter, Database, Ids, NoId, Account
  <2>4. d = [list |-> Readable(db), next |-> m, file |-> db.file]
    BY <2>1 DEF Database
  <2>. QED
    BY <2>2, <2>3, <2>4 DEF Successor, Database, Behind, Ids, Account
<1>. QED  BY <1>1, <1>2

(* Nothing is loaded over a list that is up to date with its file. *)
LEMMA LoadInSync ==
  ASSUME NEW db \in Database, db.file = db.list, NEW d \in Load(db)
  PROVE  d.list = db.list /\ d.file = db.file
<1>1. CASE db.list # {}
  BY <1>1 DEF Load
<1>2. CASE db.list = {}
  <2>1. PICK m \in NextAfter(db.next, Readable(db)) :
              d = [db EXCEPT !.list = Readable(db), !.next = m]
    BY <1>2 DEF Load
  <2>2. Readable(db) = {}
    BY <1>2 DEF Readable
  <2>. QED
    BY <1>2, <2>1, <2>2 DEF Database
<1>. QED  BY <1>1, <1>2

(* udb_save leaves list and counter alone, and a file of accounts behind. *)
LEMMA SaveSuccessor ==
  ASSUME NEW db \in Database, Behind(db), NEW d \in Save(db)
  PROVE  Successor(db, d) /\ d.list = db.list /\ d.next = db.next
<1>1. PICK f \in SavedFiles(db) : d = [db EXCEPT !.file = f]
  BY DEF Save
<1>2. \A g \in Torn(db.list) : g \subseteq Account
  <2>1. SUFFICES ASSUME NEW kept \in SUBSET db.list, NEW x \in db.list
                 PROVE  kept \cup {[x EXCEPT !.key = TornKey]} \subseteq Account
    BY DEF Torn, Database
  <2>2. x \in Account /\ kept \subseteq Account
    BY DEF Database
  <2>3. [x EXCEPT !.key = TornKey] \in Account
    BY <2>2, KeysAssumption DEF Account
  <2>. QED  BY <2>2, <2>3
<1>3. f \subseteq Account
  BY <1>2 DEF SavedFiles, Database
<1>4. d = [list |-> db.list, next |-> db.next, file |-> f]
  BY <1>1 DEF Database
<1>. QED
  BY <1>3, <1>4 DEF Successor, Database, Behind, Ids

(* Without faults the file is the list afterwards. *)
LEMMA SaveInSync ==
  ASSUME SaveFaults = {}, NEW db \in Database, NEW d \in Save(db)
  PROVE  d.list = db.list /\ d.file = db.list
<1>1. PICK f \in SavedFiles(db) : d = [db EXCEPT !.file = f]
  BY DEF Save
<1>2. f = db.list
  BY DEF SavedFiles
<1>. QED
  BY <1>1, <1>2 DEF Database

(* udb_addentry_ adds nothing but the account it is given. *)
LEMMA AddMemSuccessor ==
  ASSUME NEW db \in Database, Behind(db),
         NEW i \in Ids, NEW n \in Names, NEW k \in Keys
  PROVE  /\ Successor(db, AddMem(db, i, n, k))
         /\ AddMem(db, i, n, k).list
              = IF CanAdd(db, n) THEN db.list \cup {[id |-> i, name |-> n, key |-> k]}
                                 ELSE db.list
<1>1. CASE CanAdd(db, n)
  <2>1. AddMem(db, i, n, k) =
          [list |-> db.list \cup {[id |-> i, name |-> n, key |-> k]},
           next |-> Max2(db.next, i + 1), file |-> db.file]
    BY <1>1 DEF AddMem, Database
  <2>2. [id |-> i, name |-> n, key |-> k] \in Account
    BY DEF Account
  <2>3. /\ Max2(db.next, i + 1) \in Ids
        /\ Max2(db.next, i + 1) >= db.next
        /\ Max2(db.next, i + 1) > i
    BY DEF Max2, Database, Ids, NoId
  <2>. QED
    BY <1>1, <2>1, <2>2, <2>3 DEF Successor, Database, Behind, Ids, Account
<1>2. CASE ~CanAdd(db, n)
  BY <1>2 DEF AddMem, Successor, Database, Ids
<1>. QED  BY <1>1, <1>2

(* udb_dropentry_ removes the account of the name, and nothing else. *)
LEMMA DropMemSuccessor ==
  ASSUME NEW db \in Database, Behind(db), NEW n
  PROVE  /\ Successor(db, DropMem(db, n))
         /\ DropMem(db, n).list = {e \in db.list : e.name # n}
<1>1. DropMem(db, n) = [list |-> {e \in db.list : e.name # n},
                        next |-> db.next, file |-> db.file]
  BY DEF DropMem, Database
<1>. QED
  BY <1>1 DEF Successor, Database, Behind, Ids

-----------------------------------------------------------------------------
(* The calls as a whole *)

(* udb_dropentry *)
LEMMA DropEntrySuccessor ==
  ASSUME NEW db \in Database, Behind(db), NEW n, NEW d \in DropEntry(db, n)
  PROVE  Successor(db, d)
<1>1. PICK l \in Load(db) :
        d \in IF Registered(l, n) THEN Save(DropMem(l, n)) ELSE {l}
  BY DEF DropEntry
<1>2. Successor(db, l)
  BY <1>1, LoadSuccessor
<1>3. Successor(l, DropMem(l, n))
  BY <1>2, DropMemSuccessor DEF Successor
<1>4. CASE Registered(l, n)
  <2>1. Successor(DropMem(l, n), d)
    BY <1>1, <1>3, <1>4, SaveSuccessor DEF Successor
  <2>. QED
    BY <1>2, <1>3, <2>1 DEF Successor, Database, Ids
<1>5. CASE ~Registered(l, n)
  BY <1>1, <1>2, <1>5
<1>. QED  BY <1>4, <1>5

LEMMA DropEntryInSync ==
  ASSUME SaveFaults = {}, NEW db \in Database, Behind(db), db.file = db.list,
         NEW n, NEW d \in DropEntry(db, n)
  PROVE  d.list = {e \in db.list : e.name # n} /\ d.file = d.list
<1>1. PICK l \in Load(db) :
        d \in IF Registered(l, n) THEN Save(DropMem(l, n)) ELSE {l}
  BY DEF DropEntry
<1>2. l.list = db.list /\ l.file = db.file
  BY <1>1, LoadInSync
<1>3. l \in Database /\ Behind(l)
  BY <1>1, LoadSuccessor DEF Successor
<1>4. CASE Registered(l, n)
  <2>1. DropMem(l, n) \in Database /\ DropMem(l, n).list = {e \in l.list : e.name # n}
    BY <1>3, DropMemSuccessor DEF Successor
  <2>. QED
    BY <1>1, <1>2, <1>4, <2>1, SaveInSync
<1>5. CASE ~Registered(l, n)
  BY <1>1, <1>2, <1>5 DEF Registered
<1>. QED  BY <1>4, <1>5

(* udb_addentry *)
LEMMA AddEntrySuccessor ==
  ASSUME NEW db \in Database, Behind(db),
         NEW i \in Ids, NEW n \in Names, NEW k \in Keys,
         NEW d \in AddEntry(db, i, n, k)
  PROVE  Successor(db, d)
<1>1. PICK l \in Load(db) : d \in Save(AddMem(l, i, n, k))
  BY DEF AddEntry
<1>2. Successor(db, l)
  BY <1>1, LoadSuccessor
<1>3. Successor(l, AddMem(l, i, n, k))
  BY <1>2, AddMemSuccessor DEF Successor
<1>4. Successor(AddMem(l, i, n, k), d)
  BY <1>1, <1>3, SaveSuccessor DEF Successor
<1>. QED
  BY <1>2, <1>3, <1>4 DEF Successor, Database, Ids

LEMMA AddEntryInSync ==
  ASSUME SaveFaults = {}, NEW db \in Database, Behind(db), db.file = db.list,
         NEW i \in Ids, NEW n \in Names, NEW k \in Keys,
         NEW d \in AddEntry(db, i, n, k)
  PROVE  /\ d.list = IF CanAdd(db, n)
                       THEN db.list \cup {[id |-> i, name |-> n, key |-> k]}
                       ELSE db.list
         /\ d.file = d.list
<1>1. PICK l \in Load(db) : d \in Save(AddMem(l, i, n, k))
  BY DEF AddEntry
<1>2. l.list = db.list
  BY <1>1, LoadInSync
<1>3. l \in Database /\ Behind(l)
  BY <1>1, LoadSuccessor DEF Successor
<1>4. CanAdd(l, n) <=> CanAdd(db, n)
  BY <1>2 DEF CanAdd, Registered
<1>5. /\ AddMem(l, i, n, k) \in Database
      /\ AddMem(l, i, n, k).list
           = IF CanAdd(l, n) THEN l.list \cup {[id |-> i, name |-> n, key |-> k]}
                             ELSE l.list
  BY <1>3, AddMemSuccessor DEF Successor
<1>. QED
  BY <1>1, <1>2, <1>4, <1>5, SaveInSync

=============================================================================
