----------------------------- MODULE Gui_proofs -----------------------------
(* The graphical client, for any peers, offers and commands: its locks, its *)
(* types, and that the window shows the state of the client.                *)
(*                                                                          *)
(* StatusAgrees speaks of the moments at which no line is left. TellInv     *)
(* says of every moment what the lines in flight will make of the window:   *)
(* the newest one that decides on a flag tells it as the client has it.     *)
EXTENDS Gui, FiniteSetTheorems, SequenceTheorems, TLAPS

Kinds(s) == {s[i][1] : i \in DOMAIN s}

(* Only the outermost dialog holds a lock: while it is open, the window     *)
(* opens no other, and the dialogs of lines hold none.                      *)
Holding == {"file", "trans"}
Outermost(s) == \A i \in DOMAIN s : s[i][1] \in Holding => i = 1

Shape ==
  /\ owner \in [Locks -> {"free", "main", "pipe", "lost"}]
  /\ \E S : dialogs \in Seq(S)
  /\ Outermost(dialogs)
  /\ main.then \in {"file", "pick"} => dialogs = <<>>
  /\ main.from \in Holding => dialogs = <<>> /\ main.then \in {"write", "name"}
  /\ main.then = "row" => "trans" \notin Kinds(dialogs)

Inv == LocksAccounted /\ Shape

-----------------------------------------------------------------------------
(* Stacks of dialogs *)

(* A dialog on top: the kinds there were, and its own.                      *)
LEMMA Pushed ==
  ASSUME NEW S, NEW s \in Seq(S), NEW d, Outermost(s), d[1] \in Holding => s = <<>>
  PROVE  /\ \E T : Append(s, d) \in Seq(T)
         /\ Outermost(Append(s, d))
         /\ Kinds(Append(s, d)) = Kinds(s) \cup {d[1]}
<1> DEFINE t == Append(s, d)
<1>1. t \in Seq(S \cup {d})
  OBVIOUS
<1>2. DOMAIN t = 1 .. Len(s) + 1 /\ DOMAIN s = 1 .. Len(s) /\ Len(s) \in Nat
  OBVIOUS
<1>3. t[Len(s) + 1] = d /\ \A i \in 1 .. Len(s) : t[i] = s[i]
  OBVIOUS
<1>4. s = <<>> => Len(s) = 0
  OBVIOUS
<1> HIDE DEF t
<1>5. Outermost(t)
  BY <1>2, <1>3, <1>4 DEF Outermost
<1>6. Kinds(t) = Kinds(s) \cup {d[1]}
  BY <1>2, <1>3 DEF Kinds
<1>7. QED
  BY <1>1, <1>5, <1>6 DEF t

(* The innermost dialog taken away: if it holds a lock, it was the only one.*)
LEMMA Popped ==
  ASSUME NEW S, NEW s \in Seq(S), s # <<>>, Outermost(s)
  PROVE  /\ \E T : Front(s) \in Seq(T)
         /\ Outermost(Front(s))
         /\ Kinds(s) = Kinds(Front(s)) \cup {Last(s)[1]}
         /\ Last(s)[1] \in Holding => Front(s) = <<>>
<1> DEFINE t == Front(s)
<1>1. Len(s) \in Nat \ {0} /\ DOMAIN s = 1 .. Len(s)
  OBVIOUS
<1>2. t \in Seq(S) /\ Len(t) = Len(s) - 1 /\ DOMAIN t = 1 .. Len(s) - 1
  BY <1>1 DEF Front
<1>3. Last(s) = s[Len(s)] /\ \A i \in 1 .. Len(s) - 1 : t[i] = s[i]
  BY <1>1 DEF Front, Last
<1>4. Len(s) = 1 => t = <<>>
  BY <1>2
<1> HIDE DEF t
<1>5. Outermost(t)
  BY <1>1, <1>2, <1>3 DEF Outermost
<1>6. Kinds(s) = Kinds(t) \cup {Last(s)[1]}
  BY <1>1, <1>2, <1>3 DEF Kinds
<1>7. Last(s)[1] \in Holding => t = <<>>
  BY <1>1, <1>3, <1>4 DEF Outermost
<1>8. QED
  BY <1>2, <1>5, <1>6, <1>7 DEF t

LEMMA NoneOpen == Kinds(<<>>) = {} /\ Outermost(<<>>)
BY DEF Kinds, Outermost

(* LocksAccounted, with its set of open dialogs named.                      *)
Accounted(kinds) ==
  /\ owner["peerlist"] = "main" <=> "file" \in kinds \cup {main.from}
  /\ owner["translist"] = "main" <=>
       "trans" \in kinds \cup {main.from} \/ main.then \in {"row", "pick"}
  /\ owner["clt_write"] = "main" <=> main.then = "name"
  /\ owner["peerlist"] = "pipe" <=> pipe.at \in {"get", "got"}
  /\ owner["translist"] # "pipe"
  /\ owner["clt_write"] = "pipe" <=> pipe.at \in {"name", "get", "got"}
  /\ owner["peerlist"] # "lost" /\ owner["clt_write"] # "lost"
  /\ owner["translist"] = "lost" => odd # {}

LEMMA Accounts == LocksAccounted <=> Accounted(Kinds(dialogs))
BY DEF LocksAccounted, Accounted, Kinds, Locks

LEMMA AccountsNext == LocksAccounted' <=> Accounted(Kinds(dialogs))'
BY DEF LocksAccounted, Accounted, Kinds, Locks

(* As long as the dialogs stay, what is said of them does.                  *)
LEMMA SameDialogs ==
  ASSUME Inv, UNCHANGED dialogs
  PROVE  /\ Kinds(dialogs)' = Kinds(dialogs) /\ Outermost(dialogs)'
         /\ (\E S : dialogs \in Seq(S))'
BY DEF Inv, Shape

LEMMA Initially == Init => Inv
<1> SUFFICES ASSUME Init PROVE Inv
  OBVIOUS
<1>1. dialogs = <<>> /\ main.then = "loop" /\ main.from = "loop" /\ pipe.at = "idle"
  BY DEF Init, InLoop, Wait
<1>2. owner = [l \in Locks |-> "free"]
  BY DEF Init
<1>3. Accounted(Kinds(dialogs))
  BY <1>1, <1>2, NoneOpen DEF Accounted, Locks
<1>4. \E S : dialogs \in Seq(S)
  <2>1. dialogs \in Seq({})
    BY <1>1
  <2>2. QED
    BY <2>1
<1>5. Shape
  BY <1>1, <1>2, <1>4, NoneOpen DEF Shape, Locks, Holding
<1>6. QED
  BY <1>3, <1>5, Accounts DEF Inv

-----------------------------------------------------------------------------
(* The steps of a handler *)

(* Its end releases the locks of the dialog it belongs to.                  *)
LEMMA Finishing ==
  ASSUME Inv, NEW cmd, Finish(cmd), main.then \in {"write", "name"},
         main.then = "write" => owner["clt_write"] = "free",
         UNCHANGED <<dialogs, pipe, odd>>
  PROVE  Inv'
<1>1. main'.then = "loop" /\ main'.from = "loop"
  BY DEF Finish, InLoop, Wait
<1>2. Accounted(Kinds(dialogs)) /\ Shape
  BY Accounts DEF Inv
<1>3. \A l \in Locks : owner'[l] = IF l \in LocksOf(main.from) THEN "free" ELSE owner[l]
  BY DEF Finish, Released
<1>4. owner' \in [Locks -> {"free", "main", "pipe", "lost"}]
  BY <1>2 DEF Finish, Released, Shape
<1>5. Kinds(dialogs) = {} \/ main.from \notin Holding
  BY <1>2, NoneOpen DEF Shape
<1>6. /\ "clt_write" \in LocksOf(main.from)
      /\ "peerlist" \in LocksOf(main.from) <=> main.from = "file"
      /\ "translist" \in LocksOf(main.from) <=> main.from = "trans"
  BY DEF LocksOf
<1>7. Accounted(Kinds(dialogs))'
  <2>1. owner["clt_write"] # "pipe"
    BY <1>2 DEF Accounted
  <2>2. /\ owner'["clt_write"] = "free"
        /\ owner'["peerlist"] = IF main.from = "file" THEN "free" ELSE owner["peerlist"]
        /\ owner'["translist"] = IF main.from = "trans" THEN "free" ELSE owner["translist"]
    BY <1>3, <1>6 DEF Locks
  <2>3. Kinds(dialogs)' = Kinds(dialogs)
    OBVIOUS
  <2>4. QED
    BY <1>1, <1>2, <1>5, <2>1, <2>2, <2>3 DEF Accounted, Holding
<1>8. Shape'
  BY <1>1, <1>2, <1>4, SameDialogs DEF Shape, Holding
<1>9. QED
  BY <1>7, <1>8, AccountsNext DEF Inv

LEMMA Writing == ASSUME Inv, MainWrite PROVE Inv'
<1>1. CASE Finish(main.arg)
  BY <1>1, Finishing DEF MainWrite, client, offers
<1>2. CASE /\ owner' = [owner EXCEPT !["clt_write"] = "main"]
           /\ main' = Wait("peerlist", "name", main.arg, main.from)
  <2>1. main'.then = "name" /\ main'.from = main.from
    BY <1>2 DEF Wait
  <2>2. Accounted(Kinds(dialogs)) /\ Shape
    BY Accounts DEF Inv
  <2>3. main.then = "write" /\ owner["clt_write"] = "free" /\ UNCHANGED <<dialogs, pipe, odd>>
    BY DEF MainWrite, client, offers
  <2>4. /\ owner' \in [Locks -> {"free", "main", "pipe", "lost"}]
        /\ owner'["clt_write"] = "main"
        /\ owner'["peerlist"] = owner["peerlist"] /\ owner'["translist"] = owner["translist"]
    BY <1>2, <2>2 DEF Shape, Locks
  <2>5. Accounted(Kinds(dialogs))'
    BY <2>1, <2>2, <2>3, <2>4, SameDialogs DEF Accounted
  <2>6. Shape'
    BY <2>1, <2>2, <2>3, <2>4, SameDialogs DEF Shape
  <2>7. QED
    BY <2>5, <2>6, AccountsNext DEF Inv
<1>3. QED
  BY <1>1, <1>2 DEF MainWrite

LEMMA Naming == ASSUME Inv, MainName PROVE Inv'
BY Finishing DEF MainName, client, offers

(* The second part of a handler that has waited for the peer list.          *)
LEMMA Continuing == ASSUME Inv, MainPeerlist PROVE Inv'
<1>1. /\ main'.then = "loop" /\ main'.from = "loop"
      /\ owner["peerlist"] = "free" /\ Continued /\ UNCHANGED <<pipe, odd>>
  BY DEF MainPeerlist, InLoop, Wait, client, offers
<1>2. Accounted(Kinds(dialogs)) /\ Shape
  BY Accounts DEF Inv
<1>3. main.then \in {"row", "log", "ask", "pick", "file"}
  BY <1>1 DEF Continued
<1>4. main.from \notin Holding
  BY <1>2, <1>3 DEF Shape
<1>5. \/ UNCHANGED dialogs /\ main.then \in {"row", "log", "ask"}
      \/ main.then = "ask" /\ Opened("notify")
      \/ main.then = "pick" /\ Opened("trans")
      \/ main.then = "file" /\ Opened("file")
  BY <1>1 DEF Continued
<1>6. /\ owner' \in [Locks -> {"free", "main", "pipe", "lost"}]
      /\ owner'["clt_write"] = owner["clt_write"]
      /\ owner'["peerlist"] = IF main.then = "file" THEN "main" ELSE owner["peerlist"]
      /\ owner'["translist"] = IF main.then = "row" THEN "free" ELSE owner["translist"]
  <2>1. CASE main.then = "row"
    <3>1. owner' = [owner EXCEPT !["translist"] = "free"]
      BY <1>1, <2>1 DEF Continued
    <3>2. QED
      BY <1>2, <2>1, <3>1 DEF Shape, Locks
  <2>2. CASE main.then = "file"
    <3>1. owner' = [owner EXCEPT !["peerlist"] = "main"]
      BY <1>1, <2>2 DEF Continued
    <3>2. QED
      BY <1>2, <2>2, <3>1 DEF Shape, Locks
  <2>3. CASE main.then \in {"log", "ask", "pick"}
    <3>1. UNCHANGED owner
      BY <1>1, <2>3 DEF Continued
    <3>2. QED
      BY <1>2, <2>3, <3>1 DEF Shape
  <2>4. QED
    BY <1>3, <2>1, <2>2, <2>3
<1>7. CASE UNCHANGED dialogs /\ main.then \in {"row", "log", "ask"}
  <2>1. Accounted(Kinds(dialogs))'
    BY <1>1, <1>2, <1>4, <1>6, <1>7, SameDialogs DEF Accounted, Shape, Holding
  <2>2. Shape'
    BY <1>1, <1>2, <1>6, <1>7, SameDialogs DEF Shape, Holding
  <2>3. QED
    BY <2>1, <2>2, AccountsNext DEF Inv
<1>8. ASSUME NEW kind, Opened(kind),
             \/ main.then = "ask" /\ kind = "notify"
             \/ main.then = "pick" /\ kind = "trans"
             \/ main.then = "file" /\ kind = "file"
      PROVE  Inv'
  <2> DEFINE d == <<kind, main.arg>>
  <2>1. dialogs' = Append(dialogs, d) /\ d[1] = kind
    BY <1>8 DEF Opened
  <2> HIDE DEF d
  <2>2. PICK S : dialogs \in Seq(S)
    BY <1>2 DEF Shape
  <2>3. Outermost(dialogs) /\ (d[1] \in Holding => dialogs = <<>>)
    BY <1>2, <1>8, <2>1 DEF Shape, Holding
  <2>4. /\ \E T : dialogs' \in Seq(T)
        /\ Outermost(dialogs')
        /\ Kinds(dialogs') = Kinds(dialogs) \cup {d[1]}
    BY <2>1, <2>2, <2>3, Pushed
  <2>5. Accounted(Kinds(dialogs))'
    BY <1>1, <1>2, <1>4, <1>6, <1>8, <2>1, <2>4 DEF Accounted, Shape, Holding
  <2>6. Shape'
    BY <1>1, <1>6, <2>4 DEF Shape, Holding
  <2>7. QED
    BY <2>5, <2>6, AccountsNext DEF Inv
<1>9. QED
  BY <1>5, <1>7, <1>8

-----------------------------------------------------------------------------
(* The FIFO thread *)

LEMMA Piping == ASSUME Inv, PipeThread PROVE Inv'
<1>1. Accounted(Kinds(dialogs)) /\ Shape /\ UNCHANGED <<main, dialogs, odd>>
  BY Accounts DEF Inv, PipeThread, client, offers
<1>2. ASSUME owner' \in [Locks -> {"free", "main", "pipe", "lost"}], Accounted(Kinds(dialogs))'
      PROVE  Inv'
  <2>1. Shape'
    BY <1>1, <1>2, SameDialogs DEF Shape
  <2>2. QED
    BY <1>2, <2>1, AccountsNext DEF Inv
<1>3. CASE pipe.at = "idle" /\ (\E cmd \in Piped : PipeAt("lock", cmd)) /\ UNCHANGED owner
  <2>1. pipe'.at = "lock"
    BY <1>3 DEF PipeAt
  <2>2. QED
    BY <1>1, <1>2, <1>3, <2>1, SameDialogs DEF Accounted, Shape
<1>4. CASE pipe.at = "lock" /\ PipeDone(pipe.cmd) /\ UNCHANGED owner
  <2>1. pipe'.at \in {"dead", "idle"}
    BY <1>4 DEF PipeDone, PipeAt
  <2>2. QED
    BY <1>1, <1>2, <1>4, <2>1, SameDialogs DEF Accounted, Shape
<1>5. CASE /\ pipe.at = "lock" /\ owner["clt_write"] = "free"
           /\ owner' = [owner EXCEPT !["clt_write"] = "pipe"] /\ PipeAt("name", pipe.cmd)
  <2>1. pipe'.at = "name"
    BY <1>5 DEF PipeAt
  <2>2. /\ owner' \in [Locks -> {"free", "main", "pipe", "lost"}] /\ owner'["clt_write"] = "pipe"
        /\ owner'["peerlist"] = owner["peerlist"] /\ owner'["translist"] = owner["translist"]
    BY <1>1, <1>5 DEF Shape, Locks
  <2>3. QED
    BY <1>1, <1>2, <1>5, <2>1, <2>2, SameDialogs DEF Accounted
<1>6. CASE /\ pipe.at = "name" /\ owner["peerlist"] = "free"
           /\ owner' = [owner EXCEPT !["peerlist"] = "pipe"] /\ PipeAt("get", pipe.cmd)
  <2>1. pipe'.at = "get"
    BY <1>6 DEF PipeAt
  <2>2. /\ owner' \in [Locks -> {"free", "main", "pipe", "lost"}] /\ owner'["peerlist"] = "pipe"
        /\ owner'["clt_write"] = owner["clt_write"] /\ owner'["translist"] = owner["translist"]
    BY <1>1, <1>6 DEF Shape, Locks
  <2>3. QED
    BY <1>1, <1>2, <1>6, <2>1, <2>2, SameDialogs DEF Accounted
<1>7. CASE /\ pipe.at = "got" /\ PipeDone(pipe.cmd)
           /\ owner' = Released({"clt_write", "peerlist"}, pipe.cmd)
  <2>1. pipe'.at \in {"dead", "idle"}
    BY <1>7 DEF PipeDone, PipeAt
  <2>2. /\ owner' \in [Locks -> {"free", "main", "pipe", "lost"}] /\ owner'["peerlist"] = "free"
        /\ owner'["clt_write"] = "free" /\ owner'["translist"] = owner["translist"]
    BY <1>1, <1>7 DEF Shape, Locks, Released
  <2>3. owner["clt_write"] = "pipe" /\ owner["peerlist"] = "pipe"
    BY <1>1, <1>7 DEF Accounted
  <2>4. QED
    BY <1>1, <1>2, <2>1, <2>2, <2>3, SameDialogs DEF Accounted
<1>8. QED
  BY <1>3, <1>4, <1>5, <1>6, <1>7 DEF PipeThread, PipeStep

LEMMA Serving == ASSUME Inv, ServeGet PROVE Inv'
<1>1. Accounted(Kinds(dialogs)) /\ Shape /\ UNCHANGED <<main, dialogs, owner, odd>>
  BY Accounts DEF Inv, ServeGet, client, offers
<1>2. pipe.at = "get" /\ pipe'.at = "got"
  BY DEF ServeGet, PipeAt
<1>3. Accounted(Kinds(dialogs))'
  BY <1>1, <1>2, SameDialogs DEF Accounted
<1>4. Shape'
  BY <1>1, SameDialogs DEF Shape
<1>5. QED
  BY <1>3, <1>4, AccountsNext DEF Inv

-----------------------------------------------------------------------------
(* A handler begins *)

LEMMA Idle == ASSUME Looping PROVE main.then = "loop" /\ main.from = "loop"
BY DEF Looping, InLoop, Wait

(* No lock is taken before the one it waits for.                            *)
LEMMA Beginning ==
  ASSUME Inv, Looping, NEW lock, NEW then \in {"write", "log", "ask", "file", "click"}, NEW arg,
         NEW from, from \notin Holding, then = "file" => dialogs = <<>>,
         main' = Wait(lock, then, arg, from), UNCHANGED <<dialogs, owner, pipe, odd>>
  PROVE  Inv'
<1>1. Accounted(Kinds(dialogs)) /\ Shape
  BY Accounts DEF Inv
<1>2. main'.then = then /\ main'.from = from
  BY DEF Wait
<1>3. Accounted(Kinds(dialogs))'
  BY <1>1, <1>2, Idle, SameDialogs DEF Accounted, Holding
<1>4. Shape'
  BY <1>1, <1>2, SameDialogs DEF Shape, Holding
<1>5. QED
  BY <1>3, <1>4, AccountsNext DEF Inv

(* The lock of the transfers is taken first.                                *)
LEMMA BeginningLocked ==
  ASSUME Inv, Looping, owner["translist"] = "free",
         NEW then \in {"row", "pick"}, NEW arg, NEW from, from \notin Holding,
         then = "pick" => dialogs = <<>>,
         main' = Wait("peerlist", then, arg, from),
         owner' = [owner EXCEPT !["translist"] = "main"], UNCHANGED <<dialogs, pipe, odd>>
  PROVE  Inv'
<1>1. Accounted(Kinds(dialogs)) /\ Shape
  BY Accounts DEF Inv
<1>2. main'.then = then /\ main'.from = from
  BY DEF Wait
<1>3. /\ owner' \in [Locks -> {"free", "main", "pipe", "lost"}] /\ owner'["translist"] = "main"
      /\ owner'["peerlist"] = owner["peerlist"] /\ owner'["clt_write"] = owner["clt_write"]
  BY <1>1 DEF Shape, Locks
<1>4. "trans" \notin Kinds(dialogs)
  BY <1>1 DEF Accounted
<1>5. Accounted(Kinds(dialogs))'
  BY <1>1, <1>2, <1>3, Idle, SameDialogs DEF Accounted, Holding
<1>6. Shape'
  BY <1>1, <1>2, <1>3, <1>4, SameDialogs DEF Shape, Holding
<1>7. QED
  BY <1>5, <1>6, AccountsNext DEF Inv

LEMMA Unconcerned ==
  ASSUME Inv, UNCHANGED <<main, dialogs, owner, pipe>>, odd \subseteq odd'
  PROVE  Inv'
<1>1. odd # {} => odd' # {}
  OBVIOUS
<1>2. Accounted(Kinds(dialogs)) /\ Shape
  BY Accounts DEF Inv
<1>3. Accounted(Kinds(dialogs))'
  BY <1>1, <1>2, SameDialogs DEF Accounted
<1>4. Shape'
  BY <1>2, SameDialogs DEF Shape
<1>5. QED
  BY <1>3, <1>4, AccountsNext DEF Inv

(* A row that cannot be read: the lock is nobody's from then on.            *)
LEMMA Losing ==
  ASSUME Inv, owner["translist"] = "free", odd # {},
         owner' = [owner EXCEPT !["translist"] = "lost"], UNCHANGED <<main, dialogs, pipe, odd>>
  PROVE  Inv'
<1>1. Accounted(Kinds(dialogs)) /\ Shape
  BY Accounts DEF Inv
<1>2. /\ owner' \in [Locks -> {"free", "main", "pipe", "lost"}] /\ owner'["translist"] = "lost"
      /\ owner'["peerlist"] = owner["peerlist"] /\ owner'["clt_write"] = owner["clt_write"]
  BY <1>1 DEF Shape, Locks
<1>3. Accounted(Kinds(dialogs))'
  BY <1>1, <1>2, SameDialogs DEF Accounted
<1>4. Shape'
  BY <1>1, <1>2, SameDialogs DEF Shape
<1>5. QED
  BY <1>3, <1>4, AccountsNext DEF Inv

LEMMA Running == ASSUME Inv, RunDue PROVE Inv'
<1>1. Looping /\ TakeLine /\ UNCHANGED <<dialogs, pipe, odd>>
  BY DEF RunDue, client, offers
<1>2. CASE UNCHANGED <<main, owner>>
  BY <1>1, <1>2, Unconcerned
<1>3. CASE \E l : TransferRow(l) \/ Named(l)
  <2>1. PICK l : TransferRow(l) \/ Named(l)
    BY <1>3
  <2>2. CASE Named(l)
    <3>1. PICK then \in {"ask", "log"} : main' = Wait("peerlist", then, l[2], "line")
      BY <2>2 DEF Named
    <3>2. UNCHANGED owner
      BY <2>2 DEF Named
    <3>3. "line" \notin Holding /\ then # "file"
      BY DEF Holding
    <3>4. QED
      BY <1>1, <3>1, <3>2, <3>3, Beginning
  <2>3. CASE /\ owner["translist"] = "free" /\ main' = Wait("peerlist", "row", l[2], "line")
             /\ owner' = [owner EXCEPT !["translist"] = "main"]
    BY <1>1, <2>3, BeginningLocked DEF Holding
  <2>4. CASE /\ owner["translist"] = "free" /\ l[2] \in odd
             /\ owner' = [owner EXCEPT !["translist"] = "lost"] /\ UNCHANGED main
    <3>1. odd # {}
      BY <2>4
    <3>2. QED
      BY <1>1, <2>4, <3>1, Losing
  <2>5. TransferRow(l) =>
          \/ UNCHANGED <<main, owner>>
          \/ /\ owner["translist"] = "free" /\ main' = Wait("peerlist", "row", l[2], "line")
             /\ owner' = [owner EXCEPT !["translist"] = "main"]
          \/ /\ owner["translist"] = "free" /\ l[2] \in odd
             /\ owner' = [owner EXCEPT !["translist"] = "lost"] /\ UNCHANGED main
    BY Zenon DEF TransferRow
  <2>6. QED
    BY <1>2, <2>1, <2>2, <2>3, <2>4, <2>5
<1>4. QED
  BY <1>1, <1>2, <1>3 DEF TakeLine, Status, PeerRow, Logged

LEMMA Firing == ASSUME Inv, NEW t \in Timers, TimerFires(t) PROVE Inv'
<1>1. Looping /\ UNCHANGED <<dialogs, owner, pipe, odd>>
  BY DEF TimerFires, client, offers
<1>2. CASE UNCHANGED main
  BY <1>1, <1>2, Unconcerned
<1>3. CASE \E cmd : main' = Write(cmd, t)
  BY <1>1, <1>3, Beginning DEF Write, Timers, Holding
<1>4. QED
  BY <1>2, <1>3 DEF TimerFires

LEMMA Clicking == ASSUME Inv, AtWindow PROVE Inv'
<1>1. Looping /\ dialogs = <<>> /\ UNCHANGED <<dialogs, pipe, odd>>
  BY DEF AtWindow, client, offers
<1>2. CASE UNCHANGED owner /\ \E cmd : main' = Write(cmd, "user")
  BY <1>1, <1>2, Beginning DEF Write, Holding
<1>3. CASE UNCHANGED owner /\ \E p : main' = Wait("peerlist", "file", p, "user")
  BY <1>1, <1>3, Beginning DEF Holding
<1>4. CASE /\ owner["translist"] = "free" /\ owner' = [owner EXCEPT !["translist"] = "main"]
           /\ \E o : main' = Wait("peerlist", "pick", o, "user")
  BY <1>1, <1>4, BeginningLocked DEF Holding
<1>5. CASE UNCHANGED <<main, owner>>
  BY <1>1, <1>5, Unconcerned
<1>6. CASE UNCHANGED owner /\ \E o : main' = Wait("translist", "click", o, "user")
  BY <1>1, <1>6, Beginning DEF Holding
<1>7. QED
  BY <1>2, <1>3, <1>4, <1>5, <1>6 DEF AtWindow, Pick

(* A dialog is answered: its handler goes on, with its lock; or cancelled.  *)
LEMMA Answering == ASSUME Inv, AtDialog PROVE Inv'
<1> DEFINE d == Last(dialogs)
<1>1. Looping /\ dialogs # <<>> /\ dialogs' = Front(dialogs) /\ UNCHANGED <<pipe, odd>>
  BY DEF AtDialog, client, offers
<1>2. Accounted(Kinds(dialogs)) /\ Shape
  BY Accounts DEF Inv
<1>3. /\ (\E T : dialogs \in Seq(T))' /\ Outermost(dialogs)'
      /\ Kinds(dialogs) = Kinds(dialogs') \cup {d[1]}
      /\ d[1] \in Holding => dialogs' = <<>>
  <2>1. PICK S : dialogs \in Seq(S)
    BY <1>2 DEF Shape
  <2>2. Outermost(dialogs)
    BY <1>2 DEF Shape
  <2>3. QED
    BY <1>1, <2>1, <2>2, Popped
<1>4. main.then = "loop" /\ main.from = "loop"
  BY <1>1, Idle
<1>5. d[1] \in Holding => Kinds(dialogs') = {}
  BY <1>3, NoneOpen
<1>6. \/ UNCHANGED owner /\ \E cmd : main' = Write(cmd, d[1])
      \/ UNCHANGED main /\ owner' = Released(LocksOf(d[1]) \ {"clt_write"}, d)
  BY DEF AtDialog
<1> HIDE DEF d
<1>7. CASE UNCHANGED owner /\ \E cmd : main' = Write(cmd, d[1])
  <2>1. main'.then = "write" /\ main'.from = d[1]
    BY <1>7 DEF Write, Wait
  <2>2. Accounted(Kinds(dialogs))'
    BY <1>1, <1>2, <1>3, <1>4, <1>7, <2>1 DEF Accounted
  <2>3. Shape'
    BY <1>2, <1>3, <1>7, <2>1 DEF Shape
  <2>4. QED
    BY <2>2, <2>3, AccountsNext DEF Inv
<1>8. CASE UNCHANGED main /\ owner' = Released(LocksOf(d[1]) \ {"clt_write"}, d)
  <2>1. /\ "peerlist" \in LocksOf(d[1]) <=> d[1] = "file"
        /\ "translist" \in LocksOf(d[1]) <=> d[1] = "trans"
    BY DEF LocksOf
  <2>2. /\ owner' \in [Locks -> {"free", "main", "pipe", "lost"}]
        /\ \A l \in Locks :
             owner'[l] = IF l \in LocksOf(d[1]) \ {"clt_write"} THEN "free" ELSE owner[l]
    BY <1>2, <1>8 DEF Released, Shape
  <2>3. /\ owner'["clt_write"] = owner["clt_write"]
        /\ owner'["peerlist"] = IF d[1] = "file" THEN "free" ELSE owner["peerlist"]
        /\ owner'["translist"] = IF d[1] = "trans" THEN "free" ELSE owner["translist"]
    BY <2>1, <2>2 DEF Locks
  <2>4. Accounted(Kinds(dialogs))'
    BY <1>1, <1>2, <1>3, <1>4, <1>5, <1>8, <2>3 DEF Accounted, Holding
  <2>5. Shape'
    BY <1>2, <1>3, <1>4, <1>8, <2>2 DEF Shape, Holding
  <2>6. QED
    BY <2>4, <2>5, AccountsNext DEF Inv
<1>9. QED
  BY <1>6, <1>7, <1>8

-----------------------------------------------------------------------------
LEMMA Step == ASSUME Inv, [Next]_vars PROVE Inv'
<1>1. CASE UNCHANGED vars
  BY <1>1, Unconcerned DEF vars, client, offers
<1>2. CASE MainThread
  BY <1>2, Writing, Naming, Continuing DEF MainThread
<1>3. CASE PipeThread \/ ServeGet
  BY <1>3, Piping, Serving
<1>4. CASE RunDue \/ AtWindow \/ AtDialog
  BY <1>4, Running, Clicking, Answering
<1>5. CASE \E t \in Timers : TimerFires(t)
  BY <1>5, Firing
<1>6. CASE ReaderPut \/ ServeEvent
  BY <1>6, Unconcerned DEF ReaderPut, ServeEvent, client, offers
<1>7. CASE CltCommand \/ CltSays \/ CltDies
  BY <1>7, Unconcerned DEF CltCommand, CltSays, CltDies, offers
<1>8. QED
  BY <1>1, <1>2, <1>3, <1>4, <1>5, <1>6, <1>7 DEF Next

(* The invariant the proof rests on: who holds which lock, and the stack of *)
(* dialogs, in which only the outermost one holds a lock.                   *)
THEOREM Invariance == Spec => []Inv
BY Initially, Step, PTL DEF Spec

(* Whatever lines, timers, commands and clicks come, in whatever order, and *)
(* whatever exceptions they raise: no lock of the graphical client is left  *)
(* behind, and none is missing where it was taken (translist_update,        *)
(* clt_write, _on_offer and _on_tselect of frelay-gui.py).                  *)
THEOREM LocksNeverLeak == Spec => []LocksAccounted
<1>1. Inv => LocksAccounted
  BY DEF Inv
<1>2. QED
  BY <1>1, Invariance, PTL
-----------------------------------------------------------------------------
(* The types, and what the window shows *)

(* The argument of a handler that waits suits what it will do; the offers   *)
(* among the lines not handled yet are offers the client has printed.       *)
InFlight == readq \o stdout

Suited ==
  /\ main.then = "write" => main.arg \in Commands
  /\ main.then \in {"row", "pick"} => main.arg \in Offers
  /\ main.then = "ask" => main.arg \in announced
  /\ main.then = "file" => main.arg \in Peers

Known == \A i \in DOMAIN InFlight : InFlight[i][1] = "OFFR" => InFlight[i][2] \in announced

(* The newest line that decides on a flag - whether there is a connection,  *)
(* whether somebody is logged in - has it as the client does; if there is   *)
(* none, the window has it already.                                         *)
Newest(q, S, i) ==
  /\ i \in 0 .. Len(q)
  /\ i # 0 => q[i][1] \in S
  /\ \A j \in 1 .. Len(q) : j > i => q[j][1] \notin S

Linking == {"CONN", "DISC"}
Logging == {"CONN", "DISC", "AUTH", "NAUT"}

LinkTold ==
  \E i \in 0 .. Len(InFlight) :
    /\ Newest(InFlight, Linking, i)
    /\ i = 0 => (is_connected <=> clt # "off")
    /\ i # 0 => (InFlight[i][1] = "CONN" <=> clt # "off")

LoginTold ==
  \E i \in 0 .. Len(InFlight) :
    /\ Newest(InFlight, Logging, i)
    /\ i = 0 => (is_authed <=> clt = "auth")
    /\ i # 0 => (InFlight[i][1] = "AUTH" <=> clt = "auth")

Calm == clt # "gone" /\ ~hushed
Formed == TypeOK /\ Suited /\ Known
TellInv == Formed /\ (Calm => LinkTold /\ LoginTold)

(* A line that is added is the newest if it decides, and else changes       *)
(* nothing; a line that is taken leaves the others.                         *)
LEMMA NewestStays ==
  ASSUME NEW T, NEW q \in Seq(T), NEW r \in Seq(T), NEW S, NEW i, Newest(q, S, i),
         \A j \in 1 .. Len(r) : r[j][1] \notin S
  PROVE  Newest(q \o r, S, i) /\ (i # 0 => (q \o r)[i] = q[i])
<1> DEFINE t == q \o r
<1>1. t \in Seq(T) /\ Len(t) = Len(q) + Len(r) /\ Len(q) \in Nat /\ Len(r) \in Nat
  OBVIOUS
<1>2. \A j \in 1 .. Len(t) : t[j] = IF j <= Len(q) THEN q[j] ELSE r[j - Len(q)]
  OBVIOUS
<1> HIDE DEF t
<1>3. ASSUME NEW j \in 1 .. Len(t), j > i PROVE t[j][1] \notin S
  <2>1. CASE j <= Len(q)
    <3>1. j \in 1 .. Len(q) /\ t[j] = q[j]
      BY <1>1, <1>2, <2>1
    <3>2. QED
      BY <1>3, <3>1 DEF Newest
  <2>2. CASE ~(j <= Len(q))
    <3>1. j - Len(q) \in 1 .. Len(r) /\ t[j] = r[j - Len(q)]
      BY <1>1, <1>2, <2>2
    <3>2. QED
      BY <3>1
  <2>3. QED
    BY <2>1, <2>2
<1>4. i # 0 => t[i] = q[i]
  BY <1>1, <1>2 DEF Newest
<1>5. i \in 0 .. Len(t) /\ (i # 0 => t[i][1] \in S)
  BY <1>1, <1>4 DEF Newest
<1>6. Newest(t, S, i)
  BY <1>3, <1>5 DEF Newest
<1>7. QED
  BY <1>4, <1>6 DEF t

LEMMA NewestAdded ==
  ASSUME NEW T, NEW q \in Seq(T), NEW l \in T, NEW S, l[1] \in S
  PROVE  /\ Len(q) + 1 \in 0 .. Len(q \o <<l>>) /\ Len(q) + 1 # 0
         /\ Newest(q \o <<l>>, S, Len(q) + 1) /\ (q \o <<l>>)[Len(q) + 1] = l
<1> DEFINE t == q \o <<l>>
<1>1. Len(t) = Len(q) + 1 /\ Len(q) \in Nat /\ t[Len(q) + 1] = l
  OBVIOUS
<1> HIDE DEF t
<1>2. QED
  BY <1>1 DEF Newest, t

LEMMA NewestTaken ==
  ASSUME NEW T, NEW q \in Seq(T), q # <<>>, NEW S, NEW i, Newest(q, S, i)
  PROVE  /\ i = 0 => Newest(Tail(q), S, 0) /\ Head(q)[1] \notin S
         /\ i = 1 => Newest(Tail(q), S, 0) /\ Head(q) = q[1]
         /\ i \notin {0, 1} => Newest(Tail(q), S, i - 1) /\ Tail(q)[i - 1] = q[i] /\ i - 1 # 0
<1> DEFINE t == Tail(q)
<1>1. t \in Seq(T) /\ Len(q) \in Nat \ {0} /\ Len(t) = Len(q) - 1
  OBVIOUS
<1>2. \A j \in 1 .. Len(t) : t[j] = q[j + 1]
  OBVIOUS
<1>3. Head(q) = q[1]
  OBVIOUS
<1> HIDE DEF t
<1>4. i \in 0 .. Len(q)
  BY DEF Newest
<1>5. \A j \in 1 .. Len(t) : j + 1 > i => t[j][1] \notin S
  BY <1>1, <1>2 DEF Newest
<1>6. CASE i \in {0, 1}
  <2>1. Newest(t, S, 0)
    BY <1>1, <1>5, <1>6 DEF Newest
  <2>2. i = 0 => Head(q)[1] \notin S
    BY <1>1, <1>3 DEF Newest
  <2>3. QED
    BY <1>3, <1>6, <2>1, <2>2 DEF t
<1>7. CASE i \notin {0, 1}
  <2>1. i - 1 \in 1 .. Len(t)
    BY <1>1, <1>4, <1>7
  <2>2. t[i - 1] = q[i]
    BY <1>2, <1>4, <2>1
  <2>3. q[i][1] \in S
    BY <1>7 DEF Newest
  <2>4. \A j \in 1 .. Len(t) : j > i - 1 => t[j][1] \notin S
    BY <1>1, <1>4, <1>5
  <2>5. Newest(t, S, i - 1)
    BY <2>1, <2>2, <2>3, <2>4 DEF Newest
  <2>6. QED
    BY <1>4, <1>7, <2>1, <2>2, <2>5 DEF t
<1>8. QED
  BY <1>6, <1>7

(* The reader moves a line, the main thread takes one: the lines in flight. *)
LEMMA Moved ==
  ASSUME NEW T, NEW q \in Seq(T), NEW s \in Seq(T), s # <<>>
  PROVE  Append(q, Head(s)) \o Tail(s) = q \o s
<1>1. Append(q, Head(s)) = q \o <<Head(s)>> /\ Head(s) \in T /\ Tail(s) \in Seq(T)
  OBVIOUS
<1>2. <<Head(s)>> \o Tail(s) = s
  OBVIOUS
<1>3. (q \o <<Head(s)>>) \o Tail(s) = q \o (<<Head(s)>> \o Tail(s))
  BY <1>1
<1>4. QED
  BY <1>1, <1>2, <1>3

LEMMA Taken ==
  ASSUME NEW T, NEW q \in Seq(T), NEW s \in Seq(T), q # <<>>
  PROVE  Tail(q) \o s = Tail(q \o s) /\ Head(q) = Head(q \o s) /\ q \o s # <<>>
OBVIOUS

(* The rows of a listing all begin with its word.                           *)
LEMMA Listed ==
  ASSUME NEW prefix, NEW S, IsFiniteSet(S), NEW lines \in Listing(prefix, S)
  PROVE  lines \in Seq({prefix} \X (S \cup {NoOne}))
<1> DEFINE R == {prefix} \X (S \cup {NoOne})
<1>1. PICK s \in UNION {SetToSeqs(T) : T \in SUBSET S} :
        lines = Line(prefix) \o [i \in DOMAIN s |-> <<prefix, s[i]>>]
  BY DEF Listing
<1>2. PICK T \in SUBSET S : s \in SetToSeqs(T)
  BY <1>1
<1>3. Cardinality(T) \in Nat
  BY FS_Subset, FS_CardinalityType
<1>4. s \in [1 .. Cardinality(T) -> T]
  BY <1>2 DEF SetToSeqs
<1>5. [i \in DOMAIN s |-> <<prefix, s[i]>>] \in Seq(R)
  <2>1. DOMAIN s = 1 .. Cardinality(T) /\ \A i \in DOMAIN s : s[i] \in S
    BY <1>4
  <2>2. [i \in DOMAIN s |-> <<prefix, s[i]>>] \in [1 .. Cardinality(T) -> R]
    BY <2>1
  <2>3. QED
    BY <1>3, <2>2
<1>6. Line(prefix) \in Seq(R)
  BY DEF Line
<1>7. QED
  BY <1>1, <1>5, <1>6

LEMMA CommandWords ==
  /\ \A w \in {"connect", "disconnect", "login", "logout", "list", "peerlist", ""} :
       <<w, NoOne>> \in Commands
  /\ \A p \in Peers \cup {NoOne} : <<"offer", p>> \in Commands
  /\ \A o \in Offers : <<"accept", o>> \in Commands
  /\ Typed \subseteq Commands /\ Piped \subseteq Commands
BY GuiAssumption DEF Commands, Plain

LEMMA LineWords ==
  /\ \A w \in {"CONN", "DISC", "AUTH", "NAUT", "PEER", "TEXT", "PLST", "TLST"} :
       <<w, NoOne>> \in Lines
  /\ \A p \in Peers : <<"PLST", p>> \in Lines
  /\ \A o \in Offers : <<"TLST", o>> \in Lines /\ <<"OFFR", o>> \in Lines
BY DEF Lines, Plain

LEMMA LineArguments ==
  ASSUME NEW l \in Lines
  PROVE  /\ l[1] = "PLST" /\ l[2] # NoOne => l[2] \in Peers
         /\ l[1] = "TLST" /\ l[2] # NoOne => l[2] \in Offers
         /\ l[1] = "OFFR" => l[2] \in Offers
BY DEF Lines, Plain

LEMMA InFlightLines ==
  ASSUME TypeOK
  PROVE  InFlight \in Seq(Lines) /\ readq \in Seq(Lines) /\ stdout \in Seq(Lines)
BY DEF InFlight, TypeOK

LEMMA SentType == ASSUME TypeOK, NEW cmd \in Commands PROVE Sent(cmd) \in Seq(Commands)
<1>1. stdin \in Seq(Commands)
  BY DEF TypeOK
<1>2. QED
  BY <1>1 DEF Sent

LEMMA ReleasedType ==
  ASSUME TypeOK, NEW locks, NEW cmd
  PROVE  Released(locks, cmd) \in [Locks -> {"free", "main", "pipe", "lost"}]
BY DEF TypeOK, Released

LEMMA NameType == ASSUME TypeOK, NEW p PROVE name2id(p) \in Peers \cup {NoOne}
BY DEF TypeOK, name2id

LEMMA WaitParts ==
  ASSUME NEW lock, NEW then, NEW arg, NEW from
  PROVE  /\ Wait(lock, then, arg, from).lock = lock /\ Wait(lock, then, arg, from).then = then
         /\ Wait(lock, then, arg, from).arg = arg
BY DEF Wait

LEMMA FormedInit == Init => Formed
<1> SUFFICES ASSUME Init PROVE Formed
  OBVIOUS
<1>1. main.lock = "none" /\ main.then = "loop"
  BY DEF Init, InLoop, Wait
<1>2. readq = <<>> /\ stdout = <<>> /\ stdin = <<>> /\ dialogs = <<>>
  BY DEF Init
<1>3. InFlight = <<>>
  BY <1>2 DEF InFlight
<1>4. pipe \in [at : {"idle", "lock", "name", "get", "got", "dead"}, cmd : Commands]
  BY CommandWords DEF Init
<1>5. owner \in [Locks -> {"free", "main", "pipe", "lost"}]
  BY DEF Init
<1>6. TypeOK
  <2>1. /\ is_connected = FALSE /\ is_authed = FALSE /\ hushed = FALSE
        /\ peerlist = {} /\ translist = {} /\ notifier = "none"
        /\ reader = "read" /\ due = 0 /\ timers = Timers
        /\ clt = "off" /\ announced = {} /\ asked = {} /\ odd = {}
    BY DEF Init
  <2>2. \A S : <<>> \in Seq(S)
    OBVIOUS
  <2>3. QED
    BY <1>1, <1>2, <1>4, <1>5, <2>1, <2>2 DEF TypeOK
<1>7. Suited /\ Known
  BY <1>1, <1>3 DEF Suited, Known
<1>8. QED
  BY <1>6, <1>7 DEF Formed

(* A handler that ends, or leaves the window to its loop.                   *)
LEMMA FormedFinish ==
  ASSUME Formed, NEW cmd \in Commands, Finish(cmd),
         UNCHANGED <<status, lists, notifier, dialogs, lineq, pipe, client, asked>>
  PROVE  Formed'
<1>1. TypeOK /\ Known
  BY DEF Formed
<1>2. main'.lock = "none" /\ main'.then = "loop"
  BY DEF Finish, InLoop, Wait
<1>3. stdin' \in Seq(Commands) /\ owner' \in [Locks -> {"free", "main", "pipe", "lost"}]
  BY <1>1, SentType, ReleasedType DEF Finish
<1>4. timers' \subseteq Timers
  BY <1>1 DEF Finish, TypeOK
<1>5. TypeOK'
  BY <1>1, <1>2, <1>3, <1>4 DEF TypeOK, status, lists, lineq, client, offers
<1>6. (Suited /\ Known)'
  BY <1>1, <1>2 DEF Suited, Known, InFlight, lineq, client, offers
<1>7. QED
  BY <1>5, <1>6 DEF Formed

LEMMA FormedMainThread == ASSUME Formed, MainThread PROVE Formed'
<1>1. TypeOK /\ Suited /\ Known
  BY DEF Formed
<1>2. ASSUME MainWrite PROVE Formed'
  <2>1. CASE Finish(main.arg)
    <3>1. main.arg \in Commands
      BY <1>1, <1>2 DEF Suited, MainWrite
    <3>2. QED
      BY <1>2, <2>1, <3>1, FormedFinish DEF MainWrite
  <2>2. CASE /\ owner' = [owner EXCEPT !["clt_write"] = "main"]
             /\ main' = Wait("peerlist", "name", main.arg, main.from)
             /\ UNCHANGED <<stdin, timers>>
    <3>1. main'.lock = "peerlist" /\ main'.then = "name"
      BY <2>2, WaitParts
    <3>2. owner' \in [Locks -> {"free", "main", "pipe", "lost"}]
      BY <1>1, <2>2 DEF TypeOK
    <3>3. UNCHANGED <<status, lists, notifier, dialogs, lineq, pipe, client, asked>>
      BY <1>2 DEF MainWrite
    <3>4. TypeOK'
      BY <1>1, <2>2, <3>1, <3>2, <3>3 DEF TypeOK, Locks, status, lists, lineq, client, offers
    <3>5. (Suited /\ Known)'
      BY <1>1, <3>1, <3>3 DEF Suited, Known, InFlight, lineq, client, offers
    <3>6. QED
      BY <3>4, <3>5 DEF Formed
  <2>3. QED
    BY <1>2, <2>1, <2>2 DEF MainWrite
<1>3. ASSUME MainName PROVE Formed'
  <2>1. <<"offer", name2id(main.arg[2])>> \in Commands
    BY <1>1, NameType, CommandWords
  <2>2. QED
    BY <1>3, <2>1, FormedFinish DEF MainName
<1>4. ASSUME MainPeerlist PROVE Formed'
  <2>1. main'.lock = "none" /\ main'.then = "loop"
    BY <1>4 DEF MainPeerlist, InLoop, Wait
  <2>2. UNCHANGED <<status, peerlist, notifier, lineq, pipe, timers, stdin, client>> /\ Continued
    BY <1>4 DEF MainPeerlist
  <2>3. owner' \in [Locks -> {"free", "main", "pipe", "lost"}]
    BY <1>1, <2>2 DEF Continued, TypeOK
  <2>4. translist' \subseteq Offers
    BY <1>1, <2>2 DEF Continued, TypeOK, Suited
  <2>5. asked' \subseteq announced'
    BY <1>1, <2>2 DEF Continued, TypeOK, Suited, client, offers
  <2>6. dialogs' \in Seq(({"notify", "trans"} \X Offers) \cup ({"file"} \X Peers))
    <3>1. CASE UNCHANGED dialogs
      BY <1>1, <3>1 DEF TypeOK
    <3>2. ASSUME NEW kind, Opened(kind),
                 <<kind, main.arg>> \in ({"notify", "trans"} \X Offers) \cup ({"file"} \X Peers)
          PROVE  dialogs' \in Seq(({"notify", "trans"} \X Offers) \cup ({"file"} \X Peers))
      <4> DEFINE D == ({"notify", "trans"} \X Offers) \cup ({"file"} \X Peers)
      <4>1. dialogs \in Seq(D) /\ <<kind, main.arg>> \in D
        BY <1>1, <3>2 DEF TypeOK
      <4> HIDE DEF D
      <4>2. dialogs' \in Seq(D)
        BY <3>2, <4>1 DEF Opened
      <4>3. QED
        BY <4>2 DEF D
    <3>3. announced \subseteq Offers
      BY <1>1 DEF TypeOK
    <3>4. QED
      BY <1>1, <2>2, <3>1, <3>2, <3>3 DEF Continued, Suited
  <2>7. TypeOK'
    BY <1>1, <2>1, <2>2, <2>3, <2>4, <2>5, <2>6 DEF TypeOK, status, lineq, client, offers
  <2>8. (Suited /\ Known)'
    BY <1>1, <2>1, <2>2 DEF Suited, Known, InFlight, lineq, client, offers
  <2>9. QED
    BY <2>7, <2>8 DEF Formed
<1>5. QED
  BY <1>2, <1>3, <1>4 DEF MainThread

LEMMA FormedPipe == ASSUME Formed, PipeThread \/ ServeGet PROVE Formed'
<1> DEFINE Places == {"idle", "lock", "name", "get", "got", "dead"}
<1>1. TypeOK /\ Suited /\ Known
  BY DEF Formed
<1>2. UNCHANGED <<status, lists, notifier, main, dialogs, lineq, timers, client, asked>>
  BY DEF PipeThread, ServeGet
<1>3. ASSUME NEW at \in Places, NEW cmd \in Commands, PipeAt(at, cmd)
      PROVE  pipe' \in [at : Places, cmd : Commands]
  BY <1>3 DEF PipeAt
<1>4. pipe.cmd \in Commands /\ <<"", NoOne>> \in Commands /\ Piped \subseteq Commands
  BY <1>1, CommandWords DEF TypeOK
<1>5. ASSUME PipeDone(pipe.cmd)
      PROVE  pipe' \in [at : Places, cmd : Commands] /\ stdin' \in Seq(Commands)
  <2>1. PICK at \in {"dead", "idle"} : PipeAt(at, <<"", NoOne>>)
    BY <1>5 DEF PipeDone
  <2>2. stdin' \in Seq(Commands)
    BY <1>1, <1>4, <1>5, SentType DEF PipeDone
  <2>3. QED
    BY <1>3, <1>4, <2>1, <2>2
<1>6. ASSUME ServeGet PROVE pipe' \in [at : Places, cmd : Commands]
  <2>1. <<"offer", name2id(pipe.cmd[2])>> \in Commands
    BY <1>1, NameType, CommandWords
  <2>2. QED
    BY <1>3, <1>6, <2>1 DEF ServeGet
<1>7. stdin \in Seq(Commands) /\ owner \in [Locks -> {"free", "main", "pipe", "lost"}]
  BY <1>1 DEF TypeOK
<1>8. owner' \in [Locks -> {"free", "main", "pipe", "lost"}]
  BY <1>1, <1>7, ReleasedType DEF PipeThread, PipeStep, ServeGet
<1>9. pipe' \in [at : Places, cmd : Commands]
  BY <1>3, <1>4, <1>5, <1>6 DEF PipeThread, PipeStep
<1>10. stdin' \in Seq(Commands)
  BY <1>5, <1>7 DEF PipeThread, PipeStep, ServeGet
<1>11. TypeOK'
  BY <1>1, <1>2, <1>8, <1>9, <1>10 DEF TypeOK, status, lists, lineq, client, offers
<1>12. (Suited /\ Known)'
  BY <1>1, <1>2 DEF Suited, Known, InFlight, lineq, client, offers
<1>13. QED
  BY <1>11, <1>12 DEF Formed

(* A handler begins: a timer's, or the user's.                              *)
LEMMA FormedBegins ==
  ASSUME Formed, main' = InLoop \/ UNCHANGED main \/
           \E lock \in Locks, then \in {"write", "file", "pick", "click"} : \E arg, from :
             /\ main' = Wait(lock, then, arg, from)
             /\ then = "write" => arg \in Commands
             /\ then = "pick" => arg \in Offers
             /\ then = "file" => arg \in Peers,
         owner' \in [Locks -> {"free", "main", "pipe", "lost"}],
         dialogs' \in Seq(({"notify", "trans"} \X Offers) \cup ({"file"} \X Peers)),
         peerlist' \subseteq Peers, translist' \subseteq Offers,
         notifier' \in {"none", "broken"}, timers' \subseteq Timers,
         UNCHANGED <<status, lineq, pipe, stdin, client, asked>>
  PROVE  Formed'
<1>1. TypeOK /\ Suited /\ Known
  BY DEF Formed
<1>2. main'.lock \in Locks \cup {"none"} /\ Suited'
  <2>1. CASE main' = InLoop
    <3>1. main'.lock = "none" /\ main'.then = "loop"
      BY <2>1 DEF InLoop, Wait
    <3>2. QED
      BY <3>1 DEF Suited
  <2>2. CASE UNCHANGED main
    BY <1>1, <2>2 DEF TypeOK, Suited, client, offers
  <2>3. ASSUME NEW lock \in Locks, NEW then \in {"write", "file", "pick", "click"}, NEW arg, NEW from,
               main' = Wait(lock, then, arg, from),
               then = "write" => arg \in Commands, then = "pick" => arg \in Offers,
               then = "file" => arg \in Peers
        PROVE  main'.lock \in Locks \cup {"none"} /\ Suited'
    <3>1. main'.lock = lock /\ main'.then = then /\ main'.arg = arg
      BY <2>3, WaitParts
    <3>2. QED
      BY <2>3, <3>1 DEF Suited
  <2>4. QED
    BY <2>1, <2>2, <2>3
<1>3. TypeOK'
  BY <1>1, <1>2 DEF TypeOK, status, lineq, client, offers
<1>4. Known'
  BY <1>1 DEF Known, InFlight, lineq, client, offers
<1>5. QED
  BY <1>2, <1>3, <1>4 DEF Formed

LEMMA FormedTimer == ASSUME Formed, NEW t \in Timers, TimerFires(t) PROVE Formed'
<1>1. TypeOK
  BY DEF Formed
<1>2. \A c : Write(c, t) = Wait("clt_write", "write", c, t) /\ "clt_write" \in Locks
  BY DEF Write, Locks
<1>3. <<IF t = "local" THEN "list" ELSE "peerlist", NoOne>> \in Commands
  BY CommandWords
<1>4. \/ UNCHANGED main
      \/ main' = Wait("clt_write", "write", <<IF t = "local" THEN "list" ELSE "peerlist", NoOne>>, t)
  BY <1>2 DEF TimerFires
<1>5. peerlist' \subseteq Peers /\ translist' \subseteq Offers /\ timers' \subseteq Timers
  BY <1>1 DEF TimerFires, TypeOK, lists, StillSet
<1>6. UNCHANGED <<status, notifier, dialogs, owner, lineq, pipe, stdin, client, asked>>
  BY DEF TimerFires
<1>7. QED
  BY <1>1, <1>2, <1>3, <1>4, <1>5, <1>6, FormedBegins DEF TypeOK

LEMMA FormedUser == ASSUME Formed, AtWindow \/ AtDialog PROVE Formed'
<1> DEFINE D == ({"notify", "trans"} \X Offers) \cup ({"file"} \X Peers)
<1>1. TypeOK
  BY DEF Formed
<1>2. /\ peerlist \subseteq Peers /\ translist \subseteq Offers /\ notifier \in {"none", "broken"}
      /\ timers \subseteq Timers /\ dialogs \in Seq(D)
      /\ owner \in [Locks -> {"free", "main", "pipe", "lost"}]
  BY <1>1 DEF TypeOK
<1>3. \A c, f : Write(c, f) = Wait("clt_write", "write", c, f)
  BY DEF Write
<1>4. "clt_write" \in Locks /\ "peerlist" \in Locks /\ "translist" \in Locks
  BY DEF Locks
<1>5. ASSUME AtWindow PROVE Formed'
  <2>1. UNCHANGED <<status, lists, dialogs, lineq, pipe, timers, stdin, client, asked>>
    BY <1>5 DEF AtWindow
  <2>2. ASSUME NEW cmd \in {ConnectButton, LoginButton} \cup Typed, main' = Write(cmd, "user"),
               UNCHANGED <<owner, notifier>>
        PROVE  Formed'
    <3>1. cmd \in Commands
      BY CommandWords DEF ConnectButton, LoginButton
    <3>2. QED
      BY <1>2, <1>3, <1>4, <2>1, <2>2, <3>1, FormedBegins DEF lists
  <2>3. ASSUME NEW p \in peerlist, main' = Wait("peerlist", "file", p, "user"),
               UNCHANGED <<owner, notifier>>
        PROVE  Formed'
    BY <1>2, <1>4, <2>1, <2>3, FormedBegins DEF lists
  <2>4. ASSUME NEW o \in translist, Pick(o), UNCHANGED notifier PROVE Formed'
    <3>1. owner' \in [Locks -> {"free", "main", "pipe", "lost"}]
      BY <1>2, <2>4 DEF Pick
    <3>2. \E lock \in Locks, then \in {"pick", "click"} : main' = Wait(lock, then, o, "user")
      BY <1>4, <2>4 DEF Pick
    <3>3. QED
      BY <1>2, <2>1, <2>4, <3>1, <3>2, FormedBegins DEF lists
  <2>5. ASSUME notifier' = "broken", UNCHANGED <<main, owner>> PROVE Formed'
    BY <1>2, <2>1, <2>5, FormedBegins DEF lists
  <2>6. QED
    BY <1>5, <2>2, <2>3, <2>4, <2>5 DEF AtWindow
<1>6. ASSUME AtDialog PROVE Formed'
  <2>1. UNCHANGED <<status, lists, notifier, lineq, pipe, timers, stdin, client, asked>>
    BY <1>6 DEF AtDialog
  <2>2. dialogs # <<>> /\ dialogs' = Front(dialogs)
    BY <1>6 DEF AtDialog
  <2> DEFINE d == Last(dialogs)
  <2>3. dialogs' \in Seq(D) /\ d \in D
    <3> HIDE DEF D
    <3>1. Len(dialogs) \in Nat \ {0} /\ \A i \in 1 .. Len(dialogs) : dialogs[i] \in D
      BY <1>2, <2>2
    <3>2. dialogs' \in Seq(D)
      BY <2>2, <3>1 DEF Front
    <3>3. QED
      BY <3>1, <3>2 DEF Last
  <2>4. AnswerTo(d) \in Commands
    BY <2>3, CommandWords DEF AnswerTo
  <2>5. \/ main' = Write(AnswerTo(d), d[1]) /\ UNCHANGED owner
        \/ owner' = Released(LocksOf(d[1]) \ {"clt_write"}, d) /\ UNCHANGED main
    BY <1>6 DEF AtDialog
  <2>6. owner' \in [Locks -> {"free", "main", "pipe", "lost"}]
    BY <1>1, <1>2, <2>5, ReleasedType
  <2> HIDE DEF d
  <2>7. UNCHANGED main \/ main' = Wait("clt_write", "write", AnswerTo(d), d[1])
    BY <1>3, <2>5
  <2>8. QED
    BY <1>2, <1>4, <2>1, <2>3, <2>4, <2>6, <2>7, FormedBegins DEF lists
<1>7. QED
  BY <1>5, <1>6

-----------------------------------------------------------------------------
(* The reader thread moves a line; the main thread takes the next one.      *)

LEMMA ReaderMoves ==
  ASSUME TypeOK, ReaderPut
  PROVE  InFlight' = InFlight /\ readq' \in Seq(Lines) /\ stdout' \in Seq(Lines)
<1>1. readq \in Seq(Lines) /\ stdout \in Seq(Lines) /\ stdout # <<>>
  BY DEF TypeOK, ReaderPut
<1>2. readq' = Append(readq, Head(stdout)) /\ stdout' = Tail(stdout)
  BY DEF ReaderPut
<1>3. QED
  BY <1>1, <1>2, Moved DEF InFlight

LEMMA FormedReader == ASSUME Formed, ReaderPut \/ ServeEvent PROVE Formed'
<1>1. TypeOK /\ Suited /\ Known
  BY DEF Formed
<1>2. InFlight' = InFlight /\ readq' \in Seq(Lines) /\ stdout' \in Seq(Lines)
  BY <1>1, ReaderMoves DEF ServeEvent, TypeOK, client, InFlight
<1>3. UNCHANGED <<status, lists, notifier, main, dialogs, owner, pipe, timers, stdin, clt, hushed,
                  offers, asked>>
  BY DEF ReaderPut, ServeEvent, client
<1>4. reader' \in {"read", "posted"} /\ due' \in Nat
  BY <1>1 DEF ReaderPut, ServeEvent, TypeOK
<1>5. TypeOK'
  BY <1>1, <1>2, <1>3, <1>4 DEF TypeOK, status, lists, offers
<1>6. (Suited /\ Known)'
  BY <1>1, <1>2, <1>3 DEF Suited, Known, offers
<1>7. QED
  BY <1>5, <1>6 DEF Formed

LEMMA LineTaken ==
  ASSUME Formed, readq # <<>>, readq' = Tail(readq), UNCHANGED stdout
  PROVE  /\ InFlight \in Seq(Lines) /\ InFlight # <<>>
         /\ InFlight' = Tail(InFlight) /\ Head(readq) = Head(InFlight) /\ Head(readq) \in Lines
         /\ readq' \in Seq(Lines)
         /\ Head(readq)[1] = "OFFR" => Head(readq)[2] \in announced
<1>1. InFlight \in Seq(Lines) /\ readq \in Seq(Lines) /\ stdout \in Seq(Lines)
  BY InFlightLines DEF Formed
<1>2. InFlight' = Tail(InFlight) /\ Head(readq) = Head(InFlight) /\ InFlight # <<>>
  BY <1>1, Taken DEF InFlight
<1>3. Head(readq) \in Lines /\ readq' \in Seq(Lines)
  BY <1>1
<1>4. 1 \in DOMAIN InFlight /\ Head(InFlight) = InFlight[1]
  BY <1>1, <1>2
<1>5. QED
  BY <1>1, <1>2, <1>3, <1>4 DEF Formed, Known

LEMMA FormedRunDue == ASSUME Formed, RunDue PROVE Formed'
<1>1. TypeOK /\ Suited /\ Known
  BY DEF Formed
<1>2. /\ UNCHANGED <<notifier, dialogs, reader, pipe, timers, stdin, client, asked>> /\ TakeLine
      /\ main = InLoop
  BY DEF RunDue, Looping
<1>3. due' \in Nat
  BY <1>1 DEF RunDue, LineDue, TypeOK
<1>4. announced \subseteq Offers /\ UNCHANGED <<stdout, announced, odd, hushed, clt>>
  BY <1>1, <1>2 DEF TypeOK, client, offers
<1>5. ASSUME readq' \in Seq(Lines), Known', peerlist' \subseteq Peers, translist' \subseteq Offers,
             is_connected' \in BOOLEAN, is_authed' \in BOOLEAN,
             owner' \in [Locks -> {"free", "main", "pipe", "lost"}],
             main'.lock \in Locks \cup {"none"}, Suited'
      PROVE  Formed'
  <2>1. TypeOK'
    BY <1>1, <1>2, <1>3, <1>4, <1>5 DEF TypeOK
  <2>2. QED
    BY <1>5, <2>1 DEF Formed
<1>9. UNCHANGED main => main'.lock \in Locks \cup {"none"} /\ Suited'
  BY <1>1, <1>4 DEF TypeOK, Suited
<1>10. ASSUME NEW then \in {"row", "ask", "log"}, NEW arg,
              main' = Wait("peerlist", then, arg, "line"),
              then = "row" => arg \in Offers, then = "ask" => arg \in announced
       PROVE  main'.lock \in Locks \cup {"none"} /\ Suited'
  <2>1. main'.lock = "peerlist" /\ main'.then = then /\ main'.arg = arg
    BY <1>10, WaitParts
  <2>2. QED
    BY <1>4, <1>10, <2>1 DEF Suited, Locks
<1>6. CASE readq = <<>> /\ UNCHANGED <<readq, status, main, owner, lists>>
  BY <1>1, <1>4, <1>5, <1>6, <1>9 DEF TypeOK, Known, InFlight, status, lists
<1>7. ASSUME readq # <<>>, readq' = Tail(readq), NEW l, l = Head(readq),
             Status(l) \/ PeerRow(l) \/ TransferRow(l) \/ Named(l) \/ Logged(l)
      PROVE  Formed'
  <2>1. /\ l \in Lines /\ readq' \in Seq(Lines)
        /\ l[1] = "OFFR" => l[2] \in announced
        /\ InFlight \in Seq(Lines) /\ InFlight # <<>> /\ InFlight' = Tail(InFlight)
    BY <1>4, <1>7, LineTaken
  <2>2. Known'
    <3>1. \A i \in DOMAIN Tail(InFlight) :
            i + 1 \in DOMAIN InFlight /\ Tail(InFlight)[i] = InFlight[i + 1]
      BY <2>1
    <3>2. QED
      BY <1>1, <1>4, <2>1, <3>1 DEF Known
  <2>3. ASSUME Status(l) PROVE Formed'
    <3>1. is_connected' \in BOOLEAN /\ is_authed' \in BOOLEAN
      BY <2>3 DEF Status, AuthedAfter
    <3>2. UNCHANGED <<main, owner, lists>>
      BY <2>3 DEF Status
    <3>3. QED
      BY <1>1, <1>5, <1>9, <2>1, <2>2, <3>1, <3>2 DEF TypeOK, lists
  <2>4. ASSUME PeerRow(l) PROVE Formed'
    <3>1. peerlist' \subseteq Peers /\ UNCHANGED <<status, main, owner, translist>>
      BY <1>1, <2>1, <2>4, LineArguments DEF PeerRow, TypeOK
    <3>2. QED
      BY <1>1, <1>5, <1>9, <2>1, <2>2, <3>1 DEF TypeOK, status
  <2>5. ASSUME TransferRow(l) PROVE Formed'
    <3>1. translist' \subseteq Offers /\ UNCHANGED <<status, peerlist>>
      BY <1>1, <2>5 DEF TransferRow, TypeOK
    <3>2. owner' \in [Locks -> {"free", "main", "pipe", "lost"}]
      BY <1>1, <2>5 DEF TransferRow, TypeOK
    <3>3. l[1] = "TLST" /\ l[2] # NoOne => l[2] \in Offers
      BY <2>1, LineArguments
    <3>4. \/ UNCHANGED main
          \/ l[1] = "TLST" /\ l[2] # NoOne /\ main' = Wait("peerlist", "row", l[2], "line")
      BY <2>5, Zenon DEF TransferRow
    <3>5. main'.lock \in Locks \cup {"none"} /\ Suited'
      BY <1>9, <1>10, <3>3, <3>4
    <3>6. QED
      BY <1>1, <1>5, <2>1, <2>2, <3>1, <3>2, <3>5 DEF TypeOK, status
  <2>6. ASSUME Named(l) PROVE Formed'
    <3>1. UNCHANGED <<status, owner, lists>>
      BY <2>6 DEF Named
    <3>2. \/ l[1] = "OFFR" /\ main' = Wait("peerlist", "ask", l[2], "line")
          \/ main' = Wait("peerlist", "log", l[2], "line")
      BY <2>6 DEF Named
    <3>3. main'.lock \in Locks \cup {"none"} /\ Suited'
      BY <1>10, <2>1, <3>2
    <3>4. QED
      BY <1>1, <1>5, <2>1, <2>2, <3>1, <3>3 DEF TypeOK, status, lists
  <2>7. ASSUME Logged(l) PROVE Formed'
    BY <1>1, <1>5, <1>9, <2>1, <2>2, <2>7 DEF Logged, TypeOK, status, lists
  <2>8. QED
    BY <1>7, <2>3, <2>4, <2>5, <2>6, <2>7
<1>8. QED
  BY <1>2, <1>6, <1>7 DEF TakeLine

(* What the window shows changes with the line, and not with the others.    *)
LEMMA Shown ==
  ASSUME NEW l, Status(l)
  PROVE  /\ l[1] \in Logging
         /\ is_authed' <=> l[1] = "AUTH"
         /\ is_connected' <=> l[1] = "CONN" \/ (l[1] # "DISC" /\ is_connected)
<1>1. l[1] \in {"CONN", "DISC", "AUTH", "NAUT"}
  BY DEF Status
<1>2. is_authed' = (l[1] = "AUTH")
  BY DEF Status, AuthedAfter
<1>3. is_connected' = (l[1] = "CONN" \/ (l[1] # "DISC" /\ is_connected))
  BY DEF Status
<1>4. QED
  BY <1>1, <1>2, <1>3 DEF Logging

LEMMA Unshown ==
  ASSUME NEW l, PeerRow(l) \/ TransferRow(l) \/ Named(l) \/ Logged(l)
  PROVE  l[1] \notin Logging /\ UNCHANGED status
BY DEF PeerRow, TransferRow, Named, Logged, Logging

LEMMA ToldRunDue == ASSUME Formed, LinkTold, LoginTold, RunDue PROVE (LinkTold /\ LoginTold)'
<1>1. TakeLine /\ UNCHANGED <<stdout, clt>>
  BY DEF RunDue, client
<1>2. CASE readq = <<>> /\ UNCHANGED <<readq, status, main, owner, lists>>
  <2>1. UNCHANGED <<InFlight, is_connected, is_authed, clt>>
    BY <1>1, <1>2 DEF InFlight, status
  <2>2. QED
    BY <2>1 DEF LinkTold, LoginTold
<1>3. ASSUME readq # <<>>, readq' = Tail(readq), NEW l, l = Head(readq),
             Status(l) \/ PeerRow(l) \/ TransferRow(l) \/ Named(l) \/ Logged(l)
      PROVE  (LinkTold /\ LoginTold)'
  <2> DEFINE t == Tail(InFlight)
  <2>1. InFlight \in Seq(Lines) /\ InFlight # <<>> /\ InFlight' = t /\ l = Head(InFlight)
    BY <1>1, <1>3, LineTaken
  <2>2. \/ UNCHANGED <<is_connected, is_authed>> /\ l[1] \notin Logging
        \/ /\ l[1] \in Logging /\ (is_authed' <=> l[1] = "AUTH")
           /\ is_connected' <=> l[1] = "CONN" \/ (l[1] # "DISC" /\ is_connected)
    BY <1>3, Shown, Unshown DEF status
  <2>3. UNCHANGED clt
    BY <1>1
  <2>4. LinkTold'
    <3>1. PICK i \in 0 .. Len(InFlight) :
            /\ Newest(InFlight, Linking, i)
            /\ i = 0 => (is_connected <=> clt # "off")
            /\ i # 0 => (InFlight[i][1] = "CONN" <=> clt # "off")
      BY DEF LinkTold
    <3>2. /\ i = 0 => Newest(t, Linking, 0) /\ l[1] \notin Linking
          /\ i = 1 => Newest(t, Linking, 0) /\ l = InFlight[1]
          /\ i \notin {0, 1} => Newest(t, Linking, i - 1) /\ t[i - 1] = InFlight[i] /\ i - 1 # 0
      BY <2>1, <3>1, NewestTaken
    <3>3. CASE i = 0
      <4>1. is_connected' <=> is_connected
        BY <2>2, <3>2, <3>3 DEF Linking
      <4>2. QED
        BY <2>1, <2>3, <3>1, <3>2, <3>3, <4>1 DEF LinkTold, Newest
    <3>4. CASE i = 1
      <4>1. l[1] \in Linking
        BY <3>1, <3>2, <3>4 DEF Newest
      <4>2. is_connected' <=> l[1] = "CONN"
        BY <2>2, <4>1 DEF Linking, Logging
      <4>3. QED
        BY <2>1, <2>3, <3>1, <3>2, <3>4, <4>2 DEF LinkTold, Newest
    <3>5. CASE i \notin {0, 1}
      BY <2>1, <2>3, <3>1, <3>2, <3>5 DEF LinkTold, Newest
    <3>6. QED
      BY <3>3, <3>4, <3>5
  <2>5. LoginTold'
    <3>1. PICK i \in 0 .. Len(InFlight) :
            /\ Newest(InFlight, Logging, i)
            /\ i = 0 => (is_authed <=> clt = "auth")
            /\ i # 0 => (InFlight[i][1] = "AUTH" <=> clt = "auth")
      BY DEF LoginTold
    <3>2. /\ i = 0 => Newest(t, Logging, 0) /\ l[1] \notin Logging
          /\ i = 1 => Newest(t, Logging, 0) /\ l = InFlight[1]
          /\ i \notin {0, 1} => Newest(t, Logging, i - 1) /\ t[i - 1] = InFlight[i] /\ i - 1 # 0
      BY <2>1, <3>1, NewestTaken
    <3>3. CASE i = 0
      <4>1. is_authed' <=> is_authed
        BY <2>2, <3>2, <3>3
      <4>2. QED
        BY <2>1, <2>3, <3>1, <3>2, <3>3, <4>1 DEF LoginTold, Newest
    <3>4. CASE i = 1
      <4>1. is_authed' <=> l[1] = "AUTH"
        BY <2>2, <3>1, <3>2, <3>4 DEF Newest
      <4>2. QED
        BY <2>1, <2>3, <3>1, <3>2, <3>4, <4>1 DEF LoginTold, Newest
    <3>5. CASE i \notin {0, 1}
      BY <2>1, <2>3, <3>1, <3>2, <3>5 DEF LoginTold, Newest
    <3>6. QED
      BY <3>3, <3>4, <3>5
  <2>6. QED
    BY <2>4, <2>5
<1>4. QED
  BY <1>1, <1>2, <1>3 DEF TakeLine

-----------------------------------------------------------------------------
(* The client prints lines, of which at most one decides on a flag: then it *)
(* is the only one, and tells the state the client has come to.             *)

Indifferent(lines) == \A j \in 1 .. Len(lines) : lines[j][1] \notin Logging
Deciding(lines) ==
  \/ lines = Line("CONN") /\ clt' = "on"
  \/ lines = Line("DISC") /\ clt' = "off"
  \/ lines = Line("AUTH") /\ clt' = "auth" /\ clt = "on" /\ UNCHANGED hushed
  \/ lines = Line("NAUT") /\ clt' = "on" /\ clt = "auth" /\ UNCHANGED hushed

Consistent(lines) ==
  \/ Indifferent(lines) /\ (Calm' => Calm /\ UNCHANGED clt)
  \/ Deciding(lines)

LEMMA OneLine ==
  ASSUME NEW w \in {"PEER", "TEXT"}
  PROVE  /\ Line(w) \in Seq(Lines) /\ Indifferent(Line(w))
         /\ \A j \in DOMAIN Line(w) : Line(w)[j][1] # "OFFR"
<1>1. Line(w) = <<<<w, NoOne>>>>
  BY DEF Line
<1>2. <<w, NoOne>> \in Lines
  BY LineWords
<1>3. Len(Line(w)) = 1 /\ Line(w)[1] = <<w, NoOne>> /\ DOMAIN Line(w) = 1 .. 1
  BY <1>1
<1>4. Line(w) \in Seq(Lines)
  BY <1>1, <1>2
<1>5. QED
  BY <1>3, <1>4 DEF Indifferent, Logging

LEMMA StatusLine ==
  ASSUME NEW w \in Logging
  PROVE  Line(w) \in Seq(Lines) /\ \A j \in DOMAIN Line(w) : Line(w)[j][1] # "OFFR"
<1>1. Line(w) = <<<<w, NoOne>>>>
  BY DEF Line
<1>2. <<w, NoOne>> \in Lines
  BY LineWords DEF Logging
<1>3. Len(Line(w)) = 1 /\ Line(w)[1] = <<w, NoOne>> /\ DOMAIN Line(w) = 1 .. 1
  BY <1>1
<1>4. Line(w) \in Seq(Lines)
  BY <1>1, <1>2
<1>5. QED
  BY <1>3, <1>4 DEF Logging

LEMMA Nothing ==
  /\ <<>> \in Seq(Lines) /\ Indifferent(<<>>)
  /\ \A j \in DOMAIN <<>> : <<>>[j][1] # "OFFR"
BY DEF Indifferent

LEMMA Rows ==
  ASSUME TypeOK,
         NEW lines, lines \in Listing("PLST", Peers) \cup Listing("TLST", announced)
  PROVE  /\ lines \in Seq(Lines) /\ Indifferent(lines)
         /\ \A j \in DOMAIN lines : lines[j][1] # "OFFR"
<1>1. IsFiniteSet(Peers) /\ IsFiniteSet(announced)
  BY GuiAssumption, FS_Subset DEF TypeOK
<1>2. \/ lines \in Seq({"PLST"} \X (Peers \cup {NoOne}))
      \/ lines \in Seq({"TLST"} \X (announced \cup {NoOne}))
  BY <1>1, Listed
<1>3. /\ ({"PLST"} \X (Peers \cup {NoOne})) \subseteq Lines
      /\ ({"TLST"} \X (announced \cup {NoOne})) \subseteq Lines
  BY DEF Lines, Plain, TypeOK
<1>4. \A j \in 1 .. Len(lines) : lines[j] \in Lines /\ lines[j][1] \in {"PLST", "TLST"}
  BY <1>2, <1>3
<1>5. lines \in Seq(Lines)
  <2>1. ASSUME NEW S, S \subseteq Lines, lines \in Seq(S) PROVE lines \in Seq(Lines)
    BY <2>1
  <2>2. QED
    BY <1>2, <1>3, <2>1
<1>6. DOMAIN lines = 1 .. Len(lines)
  BY <1>5
<1>7. QED
  BY <1>4, <1>5, <1>6 DEF Indifferent, Logging

LEMMA ClientPrints ==
  ASSUME Formed, CltCommand \/ CltSays
  PROVE  \E lines \in Seq(Lines) :
           /\ stdout' = lines /\ clt' \in {"off", "on", "auth"} /\ hushed' \in BOOLEAN
           /\ Consistent(lines)
           /\ \A j \in DOMAIN lines : lines[j][1] = "OFFR" => lines[j][2] \in announced'
<1>1. TypeOK /\ Quiet
  BY DEF Formed, CltCommand, CltSays
<1>2. clt \in {"off", "on", "auth"} /\ hushed \in BOOLEAN
  BY <1>1 DEF TypeOK, Quiet
<1> DEFINE Goal ==
  \E lines \in Seq(Lines) :
     /\ stdout' = lines /\ clt' \in {"off", "on", "auth"} /\ hushed' \in BOOLEAN
     /\ Consistent(lines)
     /\ \A j \in DOMAIN lines : lines[j][1] = "OFFR" => lines[j][2] \in announced'
<1>3. ASSUME NEW lines \in Seq(Lines), Prints(lines, clt), UNCHANGED hushed,
             Indifferent(lines), \A j \in DOMAIN lines : lines[j][1] # "OFFR"
      PROVE  Goal
  BY <1>2, <1>3 DEF Prints, Consistent, Calm
<1>4. ASSUME NEW w \in Logging, Prints(Line(w), clt'), Deciding(Line(w)), hushed' \in BOOLEAN
      PROVE  Goal
  <2>1. Line(w) \in Seq(Lines) /\ \A j \in DOMAIN Line(w) : Line(w)[j][1] # "OFFR"
    BY StatusLine
  <2>2. clt' \in {"off", "on", "auth"}
    BY <1>4 DEF Deciding
  <2>3. QED
    BY <1>4, <2>1, <2>2 DEF Prints, Consistent
<1> HIDE DEF Goal
<1>5. ASSUME Connect PROVE Goal
  <2>1. CASE Prints(Line("CONN"), "on") /\ hushed' = FALSE
    BY <1>4, <2>1 DEF Prints, Deciding, Logging
  <2>2. CASE Prints(Line("TEXT"), "off") /\ hushed' = (hushed \/ clt # "off")
    <3>1. hushed' \in BOOLEAN /\ (~hushed' => ~hushed /\ clt = "off")
      BY <2>2
    <3>2. Consistent(Line("TEXT"))
      BY <1>2, <2>2, <3>1, OneLine DEF Consistent, Calm, Prints
    <3>3. QED
      BY <2>2, <3>1, <3>2, OneLine DEF Goal, Prints
  <2>3. QED
    BY <1>5, <2>1, <2>2 DEF Connect
<1>6. ASSUME Disconnect PROVE Goal
  <2>1. CASE clt = "off" /\ Prints(<<>>, "off") /\ UNCHANGED hushed
    BY <1>3, <2>1, Nothing
  <2>2. CASE Prints(Line("DISC"), "off") /\ hushed' = FALSE
    BY <1>4, <2>2 DEF Prints, Deciding, Logging
  <2>3. QED
    BY <1>6, <2>1, <2>2 DEF Disconnect
<1>7. ASSUME NEW cmd, Answered(cmd), UNCHANGED hushed PROVE Goal
  <2>1. CASE \E lines \in Listing("PLST", Peers) : Prints(lines, clt)
    BY <1>1, <1>3, <1>7, <2>1, Rows
  <2>2. CASE clt = "on" /\ Prints(Line("AUTH"), "auth")
    BY <1>2, <1>4, <1>7, <2>2 DEF Prints, Deciding, Logging
  <2>3. CASE clt = "auth" /\ Prints(Line("NAUT"), "on")
    BY <1>2, <1>4, <1>7, <2>3 DEF Prints, Deciding, Logging
  <2>4. CASE Prints(Line("PEER"), clt) \/ Prints(Line("TEXT"), clt) \/ Prints(<<>>, clt)
    BY <1>3, <1>7, <2>4, OneLine, Nothing
  <2>5. QED
    BY <1>7, <2>1, <2>2, <2>3, <2>4 DEF Answered
<1>8. ASSUME NEW lines \in Listing("TLST", announced), Prints(lines, clt), UNCHANGED hushed
      PROVE  Goal
  BY <1>1, <1>3, <1>8, Rows
<1>9. ASSUME CltSays PROVE Goal
  <2>1. CASE Prints(Line("DISC"), "off") /\ hushed' = FALSE
    BY <1>4, <2>1 DEF Prints, Deciding, Logging
  <2>2. CASE Prints(Line("PEER"), clt) /\ UNCHANGED hushed
    BY <1>3, <2>2, OneLine
  <2>3. ASSUME NEW o \in Offers, Prints(<<<<"OFFR", o>>>>, clt), announced' = announced \cup {o},
               UNCHANGED hushed
        PROVE  Goal
    <3> DEFINE lines == <<<<"OFFR", o>>>>
    <3>1. <<"OFFR", o>> \in Lines
      BY LineWords
    <3>2. lines \in Seq(Lines) /\ Len(lines) = 1 /\ lines[1] = <<"OFFR", o>> /\ DOMAIN lines = 1 .. 1
      BY <3>1
    <3>3. stdout' = lines /\ UNCHANGED clt
      BY <2>3 DEF Prints
    <3> HIDE DEF lines
    <3>4. Consistent(lines)
      BY <2>3, <3>2, <3>3 DEF Consistent, Indifferent, Logging, Calm
    <3>5. QED
      BY <1>2, <2>3, <3>2, <3>3, <3>4 DEF Goal
  <2>4. QED
    BY <1>9, <2>1, <2>2, <2>3 DEF CltSays, offers
<1>10. ASSUME CltCommand PROVE Goal
  BY <1>5, <1>6, <1>7, <1>8, <1>10 DEF CltCommand
<1>11. QED
  BY <1>9, <1>10 DEF Goal

LEMMA FormedClient == ASSUME Formed, CltCommand \/ CltSays PROVE Formed'
<1>1. TypeOK /\ Suited /\ Known
  BY DEF Formed
<1>2. PICK lines \in Seq(Lines) :
        /\ stdout' = lines /\ clt' \in {"off", "on", "auth"} /\ hushed' \in BOOLEAN
        /\ \A j \in DOMAIN lines : lines[j][1] = "OFFR" => lines[j][2] \in announced'
  BY ClientPrints
<1>3. /\ UNCHANGED <<status, lists, notifier, main, dialogs, owner, lineq, pipe, timers, asked>>
      /\ stdout = <<>>
  BY DEF CltCommand, CltSays, Quiet
<1>4. stdin' \in Seq(Commands)
  <2>1. UNCHANGED stdin \/ (stdin # <<>> /\ stdin' = Tail(stdin))
    BY DEF CltCommand, CltSays
  <2>2. stdin \in Seq(Commands)
    BY <1>1 DEF TypeOK
  <2>3. QED
    BY <2>1, <2>2
<1>5. /\ announced \subseteq announced' /\ announced' \subseteq Offers /\ odd' \subseteq announced'
  BY <1>1 DEF CltCommand, CltSays, offers, TypeOK
<1>6. asked' \subseteq announced'
  BY <1>1, <1>3, <1>5 DEF TypeOK
<1>7. TypeOK'
  BY <1>1, <1>2, <1>3, <1>4, <1>5, <1>6 DEF TypeOK, status, lists, lineq
<1>8. Suited'
  BY <1>1, <1>3, <1>5 DEF Suited
<1>9. InFlight' = readq \o lines /\ InFlight = readq
  BY <1>1, <1>2, <1>3 DEF InFlight, lineq, TypeOK
<1>10. Known'
  <2>1. readq \in Seq(Lines)
    BY <1>1 DEF TypeOK
  <2>2. ASSUME NEW i \in DOMAIN (readq \o lines), (readq \o lines)[i][1] = "OFFR"
        PROVE  (readq \o lines)[i][2] \in announced'
    <3>1. CASE i \in DOMAIN readq
      <4>1. (readq \o lines)[i] = readq[i]
        BY <2>1, <3>1
      <4>2. QED
        BY <1>1, <1>5, <1>9, <2>2, <3>1, <4>1 DEF Known
    <3>2. CASE i \notin DOMAIN readq
      <4>1. i - Len(readq) \in DOMAIN lines /\ (readq \o lines)[i] = lines[i - Len(readq)]
        BY <2>1, <2>2, <3>2
      <4>2. QED
        BY <1>2, <2>2, <4>1
    <3>3. QED
      BY <3>1, <3>2
  <2>3. QED
    BY <1>9, <2>2 DEF Known
<1>11. QED
  BY <1>7, <1>8, <1>10 DEF Formed

LEMMA ToldClient == ASSUME TellInv, CltCommand \/ CltSays, Calm' PROVE (LinkTold /\ LoginTold)'
<1>1. TypeOK /\ Formed
  BY DEF TellInv, Formed
<1>2. PICK lines \in Seq(Lines) : stdout' = lines /\ Consistent(lines)
  BY <1>1, ClientPrints
<1>3. UNCHANGED <<is_connected, is_authed, readq>> /\ stdout = <<>>
  BY DEF CltCommand, CltSays, Quiet, status, lineq
<1>4. InFlight' = InFlight \o lines /\ InFlight \in Seq(Lines)
  BY <1>1, <1>2, <1>3 DEF InFlight, TypeOK
<1>5. \A w : Line(w) = <<<<w, NoOne>>>> /\ <<w, NoOne>>[1] = w
  BY DEF Line
<1>6. \A w \in Logging : <<w, NoOne>> \in Lines
  BY LineWords DEF Logging
<1>7. ASSUME Calm, \A j \in 1 .. Len(lines) : lines[j][1] \notin Linking, clt' # "off" <=> clt # "off"
      PROVE  LinkTold'
  <2>1. PICK i \in 0 .. Len(InFlight) :
          /\ Newest(InFlight, Linking, i)
          /\ i = 0 => (is_connected <=> clt # "off")
          /\ i # 0 => (InFlight[i][1] = "CONN" <=> clt # "off")
    BY <1>7 DEF LinkTold, TellInv
  <2>2. Newest(InFlight \o lines, Linking, i) /\ (i # 0 => (InFlight \o lines)[i] = InFlight[i])
    BY <1>4, <1>7, <2>1, NewestStays
  <2>3. QED
    BY <1>3, <1>4, <1>7, <2>1, <2>2 DEF LinkTold, Newest
<1>8. ASSUME Calm, Indifferent(lines), UNCHANGED clt PROVE LoginTold'
  <2>1. PICK i \in 0 .. Len(InFlight) :
          /\ Newest(InFlight, Logging, i)
          /\ i = 0 => (is_authed <=> clt = "auth")
          /\ i # 0 => (InFlight[i][1] = "AUTH" <=> clt = "auth")
    BY <1>8 DEF LoginTold, TellInv
  <2>2. Newest(InFlight \o lines, Logging, i) /\ (i # 0 => (InFlight \o lines)[i] = InFlight[i])
    BY <1>4, <1>8, <2>1, NewestStays DEF Indifferent
  <2>3. QED
    BY <1>3, <1>4, <1>8, <2>1, <2>2 DEF LoginTold, Newest
<1>9. ASSUME NEW w \in Logging, lines = Line(w), clt' = "auth" <=> w = "AUTH" PROVE LoginTold'
  <2> DEFINE l == <<w, NoOne>>
  <2>1. l \in Lines /\ l[1] = w /\ lines = <<l>>
    BY <1>5, <1>6, <1>9
  <2> HIDE DEF l
  <2>2. /\ Len(InFlight) + 1 \in 0 .. Len(InFlight \o <<l>>) /\ Len(InFlight) + 1 # 0
        /\ Newest(InFlight \o <<l>>, Logging, Len(InFlight) + 1)
        /\ (InFlight \o <<l>>)[Len(InFlight) + 1] = l
    BY <1>4, <2>1, NewestAdded
  <2>3. QED
    BY <1>4, <1>9, <2>1, <2>2 DEF LoginTold
<1>10. ASSUME NEW w \in Linking, lines = Line(w), clt' # "off" <=> w = "CONN" PROVE LinkTold'
  <2> DEFINE l == <<w, NoOne>>
  <2>1. l \in Lines /\ l[1] = w /\ lines = <<l>>
    BY <1>5, <1>6, <1>10 DEF Linking, Logging
  <2> HIDE DEF l
  <2>2. /\ Len(InFlight) + 1 \in 0 .. Len(InFlight \o <<l>>) /\ Len(InFlight) + 1 # 0
        /\ Newest(InFlight \o <<l>>, Linking, Len(InFlight) + 1)
        /\ (InFlight \o <<l>>)[Len(InFlight) + 1] = l
    BY <1>4, <2>1, NewestAdded
  <2>3. QED
    BY <1>4, <1>10, <2>1, <2>2 DEF LinkTold
<1>11. CASE Indifferent(lines) /\ Calm /\ UNCHANGED clt
  <2>1. \A j \in 1 .. Len(lines) : lines[j][1] \notin Linking
    BY <1>11 DEF Indifferent, Linking, Logging
  <2>2. QED
    BY <1>7, <1>8, <1>11, <2>1
<1>12. CASE lines = Line("CONN") /\ clt' = "on"
  BY <1>9, <1>10, <1>12 DEF Linking, Logging
<1>13. CASE lines = Line("DISC") /\ clt' = "off"
  BY <1>9, <1>10, <1>13 DEF Linking, Logging
<1>14. ASSUME NEW w \in {"AUTH", "NAUT"}, lines = Line(w), Calm, clt' # "off" <=> clt # "off"
       PROVE  LinkTold'
  <2>1. Len(lines) = 1 /\ lines[1][1] = w
    BY <1>5, <1>14
  <2>2. \A j \in 1 .. Len(lines) : lines[j][1] \notin Linking
    BY <2>1 DEF Linking
  <2>3. QED
    BY <1>7, <1>14, <2>2
<1>15. CASE lines = Line("AUTH") /\ clt' = "auth" /\ clt = "on" /\ UNCHANGED hushed
  <2>1. Calm
    BY <1>15 DEF Calm
  <2>2. QED
    BY <1>9, <1>14, <1>15, <2>1 DEF Logging
<1>16. CASE lines = Line("NAUT") /\ clt' = "on" /\ clt = "auth" /\ UNCHANGED hushed
  <2>1. Calm
    BY <1>16 DEF Calm
  <2>2. QED
    BY <1>9, <1>14, <1>16, <2>1 DEF Logging
<1>17. QED
  BY <1>2, <1>11, <1>12, <1>13, <1>15, <1>16 DEF Consistent, Deciding

(* The steps that neither move a line nor change what it would tell.        *)
LEMMA ToldStays ==
  ASSUME TellInv, Formed', UNCHANGED <<InFlight, is_connected, is_authed, clt, hushed>>
  PROVE  TellInv'
BY DEF TellInv, LinkTold, LoginTold, Calm

LEMMA TellStep == ASSUME TellInv, [Next]_vars PROVE TellInv'
<1>1. Formed /\ TypeOK
  BY DEF TellInv, Formed
<1>2. CASE UNCHANGED vars
  <2>1. UNCHANGED <<InFlight, is_connected, is_authed, clt, hushed>>
    BY <1>2 DEF vars, InFlight, status, lineq, client
  <2>2. Formed'
    BY <1>1, <1>2 DEF Formed, TypeOK, Suited, Known, InFlight, vars, status, lists, lineq, client, offers
  <2>3. QED
    BY <2>1, <2>2, ToldStays
<1>3. CASE MainThread
  <2>1. UNCHANGED <<status, lineq, client>>
    BY <1>3 DEF MainThread, MainWrite, MainName, MainPeerlist
  <2>2. UNCHANGED <<InFlight, is_connected, is_authed, clt, hushed>>
    BY <2>1 DEF InFlight, status, lineq, client
  <2>3. QED
    BY <1>1, <1>3, <2>2, FormedMainThread, ToldStays
<1>4. CASE PipeThread \/ ServeGet
  <2>1. UNCHANGED <<InFlight, is_connected, is_authed, clt, hushed>>
    BY <1>4 DEF PipeThread, ServeGet, InFlight, status, lineq, client
  <2>2. QED
    BY <1>1, <1>4, <2>1, FormedPipe, ToldStays
<1>5. CASE \E t \in Timers : TimerFires(t)
  <2>1. UNCHANGED <<InFlight, is_connected, is_authed, clt, hushed>>
    BY <1>5 DEF TimerFires, InFlight, status, lineq, client
  <2>2. QED
    BY <1>1, <1>5, <2>1, FormedTimer, ToldStays
<1>6. CASE AtWindow \/ AtDialog
  <2>1. UNCHANGED <<InFlight, is_connected, is_authed, clt, hushed>>
    BY <1>6 DEF AtWindow, AtDialog, InFlight, status, lineq, client
  <2>2. QED
    BY <1>1, <1>6, <2>1, FormedUser, ToldStays
<1>7. CASE ReaderPut \/ ServeEvent
  <2>1. UNCHANGED <<InFlight, is_connected, is_authed, clt, hushed>>
    <3>1. InFlight' = InFlight
      BY <1>1, <1>7, ReaderMoves DEF ServeEvent, client, InFlight
    <3>2. QED
      BY <1>7, <3>1 DEF ReaderPut, ServeEvent, status, client
  <2>2. QED
    BY <1>1, <1>7, <2>1, FormedReader, ToldStays
<1>8. CASE RunDue
  <2>1. UNCHANGED <<clt, hushed>>
    BY <1>8 DEF RunDue, client
  <2>2. QED
    BY <1>1, <1>8, <2>1, FormedRunDue, ToldRunDue DEF TellInv, Calm
<1>9. CASE CltCommand \/ CltSays
  BY <1>1, <1>9, FormedClient, ToldClient DEF TellInv
<1>10. CASE CltDies
  <2>1. clt' = "gone" /\ stdin' = <<>>
    BY <1>10 DEF CltDies
  <2>2. UNCHANGED <<status, lists, notifier, main, dialogs, owner, lineq, pipe, timers, stdout, hushed,
                    offers, asked>>
    BY <1>10 DEF CltDies
  <2>3. TypeOK'
    BY <1>1, <2>1, <2>2 DEF TypeOK, status, lists, lineq, offers
  <2>4. (Suited /\ Known)'
    BY <1>1, <2>2 DEF Formed, Suited, Known, InFlight, lineq, offers
  <2>5. QED
    BY <2>1, <2>3, <2>4 DEF TellInv, Formed, Calm
<1>11. QED
  BY <1>2, <1>3, <1>4, <1>5, <1>6, <1>7, <1>8, <1>9, <1>10 DEF Next

LEMMA TellInit == Init => TellInv
<1> SUFFICES ASSUME Init PROVE TellInv
  OBVIOUS
<1>1. /\ readq = <<>> /\ stdout = <<>>
      /\ is_connected = FALSE /\ is_authed = FALSE /\ clt = "off"
  BY DEF Init
<1>2. Newest(<<>>, Linking, 0) /\ Newest(<<>>, Logging, 0)
  BY DEF Newest
<1>3. InFlight = <<>>
  BY <1>1 DEF InFlight
<1>4. LinkTold /\ LoginTold
  BY <1>1, <1>2, <1>3 DEF LinkTold, LoginTold
<1>5. QED
  BY <1>4, FormedInit DEF TellInv

LEMMA Telling == Spec => []TellInv
BY TellInit, TellStep, PTL DEF Spec

(* Whatever the threads, the dialogs and the client do: the two lists, the  *)
(* queue, the dialogs and the commands of frelay-gui.py stay well-formed;   *)
(* only offers that were printed are put to the user, and each command that *)
(* is written is one the client knows, or a blank line.                     *)
THEOREM GuiTypeCorrect == Spec => []TypeOK
<1>1. TellInv => TypeOK
  BY DEF TellInv, Formed
<1>2. QED
  BY <1>1, Telling, PTL

(* When subproc_clt of frelay-gui.py has handled every line there is, the   *)
(* window has is_connected and is_authed as the client has its connection   *)
(* and its login, in whatever order lines, timers, commands and clicks came *)
(* - unless a "connect" that failed has cost it the connection, or it ended.*)
THEOREM StatusShown == Spec => []StatusAgrees
<1>1. ASSUME TellInv PROVE StatusAgrees
  <2>1. SUFFICES ASSUME stdout = <<>>, readq = <<>>, clt # "gone", ~hushed
                 PROVE  is_connected = (clt # "off") /\ is_authed = (clt = "auth")
    BY DEF StatusAgrees
  <2>2. InFlight = <<>> /\ LinkTold /\ LoginTold
    BY <1>1, <2>1 DEF InFlight, TellInv, Calm
  <2>3. (is_connected <=> clt # "off") /\ (is_authed <=> clt = "auth")
    BY <2>2 DEF LinkTold, LoginTold
  <2>4. is_connected \in BOOLEAN /\ is_authed \in BOOLEAN
    BY <1>1 DEF TellInv, Formed, TypeOK
  <2>5. QED
    BY <2>3, <2>4
<1>2. QED
  BY <1>1, Telling, PTL
=============================================================================
