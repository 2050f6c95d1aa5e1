------------------------------- MODULE UserDb -------------------------------
(***************************************************************************)
(* The user database of the relay server (srvuserdb.c): a list of accounts *)
(* kept in memory, the counter next_id from which every new user id is     *)
(* taken, and the text file the list is loaded from and rewritten to.      *)
(*                                                                         *)
(* This module is the function library: a database value is a record       *)
(*      [list |-> accounts in memory, next |-> next_id, file |-> disk]     *)
(* and each operator gives the SET of database values a call may leave     *)
(* behind, because the calls touch the disk and the disk may fail.         *)
(*                                                                         *)
(* The list is a set of accounts: its order decides nothing, since lookup  *)
(* and removal go by name and a name occurs once (AddMem refuses it twice).*)
(***************************************************************************)
EXTENDS Integers, FiniteSets

CONSTANTS
  Names,       \* user names, as strcmp tells them apart
  ValidNames,  \* those udb_nameisvalid accepts
  Keys,        \* key strings
  TornKey,     \* what is left of a key cut off in the middle of its line
  SaveFaults   \* the ways udb_save may go wrong in this instance

ASSUME NamesAssumption == ValidNames \subseteq Names
ASSUME KeysAssumption == TornKey \in Keys
ASSUME SaveFaultsAssumption == SaveFaults \subseteq {"open", "torn"}

NoId == 0                        \* "0ULL": no id assigned yet
Ids  == Nat \ {NoId}
Account == [id : Ids, name : Names, key : Keys]
Database == [list : SUBSET Account, next : Ids, file : SUBSET Account]

Max2(m, n) == IF m >= n THEN m ELSE n

-----------------------------------------------------------------------------
(* The list in memory *)

Registered(db, n) == \E e \in db.list : e.name = n

(* udb_lookupname_: the account of that name, which must exist. *)
AccountOf(db, n) == CHOOSE e \in db.list : e.name = n

(* udb_addentry_ with a non-zero id: refused (the list is left alone) for a *)
(* name the regex does not match or that is taken; otherwise the account is *)
(* added and next_id moves past its id.                                     *)
CanAdd(db, n) == n \in ValidNames /\ ~Registered(db, n)

(* Mutant: the account gets an id of its own instead of the one given. *)
AddMem_OwnId(db, i, n, k) ==
  IF CanAdd(db, n)
    THEN [db EXCEPT !.list = @ \cup {[id |-> db.next, name |-> n, key |-> k]},
                    !.next = @ + 1]
    ELSE db

AddMem(db, i, n, k) ==
  IF CanAdd(db, n)
    THEN [db EXCEPT !.list = @ \cup {[id |-> i, name |-> n, key |-> k]},
                    !.next = Max2(@, i + 1)]
    ELSE db

(* udb_dropentry_ *)
DropMem(db, n) == [db EXCEPT !.list = {e \in @ : e.name # n}]

(* The lines udb_load accepts, and the values next_id can end with: past    *)
(* every id that was read, and where it stood if that is further already.   *)
Readable(db) == {e \in db.file : e.name \in ValidNames}

(* Mutant: the counter is not moved past the ids that were read. *)
NextAfter_Kept(n, accounts) == {n}

NextAfter(n, accounts) ==
  {m \in {n} \cup {e.id + 1 : e \in accounts} :
      m >= n /\ \A e \in accounts : m > e.id}

(* udb_load reads the file only when the list in memory is empty.           *)
Load(db) ==
  IF db.list # {}
    THEN {db}
    ELSE {[db EXCEPT !.list = Readable(db), !.next = m] :
              m \in NextAfter(db.next, Readable(db))}

-----------------------------------------------------------------------------
(* The file *)

(* What a rewrite that broke off can leave: some of the lines, and at most  *)
(* one more that was cut inside its key.                                    *)
Torn(accounts) ==
  (SUBSET accounts) \cup
    {kept \cup {[e EXCEPT !.key = TornKey]} : kept \in SUBSET accounts, e \in accounts}

(* A cut line replaces the whole one: no name is on disk twice. *)
OneLinePerName(accounts) == \A e, f \in accounts : e.name = f.name => e = f

(* udb_save: fopen(.., "w") truncates the file and every account is printed *)
(* into it; when the file cannot be opened it stays as it is, and when the  *)
(* device fills up a part of it is written. No caller looks at the result.  *)
SavedFiles(db) ==
  {db.list}
    \cup (IF "open" \in SaveFaults THEN {db.file} ELSE {})
    \cup (IF "torn" \in SaveFaults
            THEN {f \in Torn(db.list) : OneLinePerName(f)} ELSE {})

Save(db) == {[db EXCEPT !.file = f] : f \in SavedFiles(db)}

-----------------------------------------------------------------------------
(* The calls the server makes *)

(* udb_init after a fresh start of the process: nothing in memory yet. *)
(* Mutant: the counter starts at zero. *)
Fresh_Zero(file) == Load([list |-> {}, next |-> 0, file |-> file])

Fresh(file) == Load([list |-> {}, next |-> 1, file |-> file])

(* udb_addentry saves whether or not the account was added. *)
AddEntry(db, i, n, k) ==
  UNION {Save(AddMem(d, i, n, k)) : d \in Load(db)}

(* udb_dropentry saves only when an account was removed. *)
DropEntry(db, n) ==
  UNION {IF Registered(d, n) THEN Save(DropMem(d, n)) ELSE {d} :
            d \in Load(db)}

(* udb_gettempid: the id is the counter of the loaded database ... *)
TempIdSource(db) == Load(db)

(* ... which then moves on. *)
(* Mutant: the counter stays where it is. *)
TakeTempId_Same(db) == db

TakeTempId(db) == [db EXCEPT !.next = @ + 1]

=============================================================================
