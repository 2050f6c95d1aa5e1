--------------------------------- MODULE Gui --------------------------------
(* The graphical client, pygui/frelay-gui.py: the Tk loop of the main       *)
(* thread, the thread that reads what the frelay process prints, the thread *)
(* that reads commands from the FIFO, the locks they share, and the frelay  *)
(* process behind its two pipes.                                            *)
(*                                                                          *)
(* Two rules of Tkinter matter: a call into Tk made by another thread is    *)
(* carried out by the main thread, in its event loop, while the caller      *)
(* waits; and a modal dialog is an event loop of its own, inside the        *)
(* handler that opened it, in which timers and lines go on being handled.   *)
EXTENDS Naturals, SequencesExt

CONSTANTS
  Peers,      \* ids of the peers on the server, which are their names too
  Offers,     \* ids of the offers that may arrive
  NoOne,      \* no argument; also the id ffffffffffffffff
  Typed,      \* commands typed into the entry field
  Piped,      \* commands written to the FIFO
  LineMax,    \* bound: lines not handled yet when the client prints more
  CommandMax  \* bound: commands not read yet when another is given

Timers == {"local", "remote"}
Locks == {"peerlist", "translist", "clt_write"}
Plain(words) == words \X {NoOne}
Commands ==
  Plain({"connect", "disconnect", "login", "logout", "list", "peerlist", ""})
    \cup ({"offer", "offer@"} \X (Peers \cup {NoOne})) \cup ({"accept"} \X Offers)
Lines ==
  Plain({"CONN", "DISC", "AUTH", "NAUT", "PEER", "TEXT", "PLST", "TLST"})
    \cup ({"PLST"} \X Peers) \cup ({"TLST", "OFFR"} \X Offers)

ASSUME GuiAssumption ==
  /\ NoOne \notin Peers \cup Offers
  /\ IsFiniteSet(Peers) /\ IsFiniteSet(Offers)  \* they are 64-bit numbers
  /\ Typed \cup Piped \subseteq Commands
  /\ LineMax \in Nat /\ CommandMax \in Nat

VARIABLES
  is_connected, is_authed, peerlist, translist, \* what the window shows
  notifier,       \* can the external notifier be called
  main, dialogs,  \* what the main thread waits to do; its dialogs, innermost last
  owner,          \* who holds each lock
  reader, readq, due,  \* the reader thread, its lines, callbacks due to take one each
  pipe,           \* the FIFO thread and its command
  timers,         \* the refresh timers that are set
  stdin, stdout, clt,  \* the client's pipes; it is "off", "on", "auth" or "gone"
  hushed, announced, asked, \* history: a connection it lost without a line;
                            \* offers printed, offers put to the user, and
  odd                       \* those of files with "' " in their names

status == <<is_connected, is_authed>>
lists == <<peerlist, translist>>
lineq == <<reader, readq, due>>
offers == <<announced, odd>>
client == <<stdout, clt, hushed, offers>>
vars == <<status, lists, notifier, main, dialogs, owner, lineq, pipe, timers, stdin, client, asked>>

Unhurried == Len(stdin) <= CommandMax

(* A handler of the main thread: the lock it waits for, what it does then,  *)
(* and the dialog or timer it belongs to.                                   *)
Wait(lock, then, arg, from) == [lock |-> lock, then |-> then, arg |-> arg, from |-> from]
Write(cmd, from) == Wait("clt_write", "write", cmd, from)
InLoop == Wait("none", "loop", NoOne, "loop")
Looping == main = InLoop

Init ==
  /\ is_connected = FALSE /\ is_authed = FALSE /\ peerlist = {} /\ translist = {}
  /\ notifier = "none" /\ main = InLoop /\ dialogs = <<>>
  /\ owner = [l \in Locks |-> "free"]
  /\ reader = "read" /\ readq = <<>> /\ due = 0
  /\ pipe = [at |-> "idle", cmd |-> <<"", NoOne>>]
  /\ timers = Timers
  /\ stdin = <<>> /\ stdout = <<>> /\ clt = "off"
  /\ hushed = FALSE /\ announced = {} /\ asked = {}
  /\ odd = {}

-----------------------------------------------------------------------------
(* clt_write: a name becomes an id, and the line goes to the client. A      *)
(* blank line raises an exception, and so does a client that has ended.     *)

name2id(p) == IF p \in peerlist THEN p ELSE NoOne
Raises(cmd) == clt = "gone" \/ cmd[1] = ""
Sent(cmd) == IF Raises(cmd) THEN stdin ELSE Append(stdin, cmd)

(* Mutant: an exception leaves the locks taken.                             *)
Released_Leaks(locks, cmd) ==
  IF Raises(cmd) THEN owner ELSE [l \in Locks |-> IF l \in locks THEN "free" ELSE owner[l]]
Released(locks, cmd) == [l \in Locks |-> IF l \in locks THEN "free" ELSE owner[l]]

LocksOf(from) ==
  {"clt_write"} \cup (CASE from = "file" -> {"peerlist"} [] from = "trans" -> {"translist"}
                        [] OTHER -> {})

(* A handler of the main thread ends, and a timer's sets it again - unless  *)
(* there was an exception.                                                  *)
Finish(cmd) ==
  /\ stdin' = Sent(cmd)
  /\ owner' = Released(LocksOf(main.from), cmd)
  /\ timers' = IF Raises(cmd) THEN timers ELSE timers \cup ({main.from} \cap Timers)
  /\ main' = InLoop

MainWrite ==
  /\ main.then = "write" /\ owner["clt_write"] = "free"
  /\ \/ main.arg[1] # "offer@" /\ Finish(main.arg)
     \/ /\ main.arg[1] = "offer@"
        /\ owner' = [owner EXCEPT !["clt_write"] = "main"]
        /\ main' = Wait("peerlist", "name", main.arg, main.from)
        /\ UNCHANGED <<stdin, timers>>
  /\ UNCHANGED <<status, lists, notifier, dialogs, lineq, pipe, client, asked>>

MainName ==
  /\ main.then = "name" /\ owner["peerlist"] = "free"
  /\ Finish(<<"offer", name2id(main.arg[2])>>)
  /\ UNCHANGED <<status, lists, notifier, dialogs, lineq, pipe, client, asked>>

(* The thread that reads the FIFO does the same, but gets the rows of the   *)
(* peer list through the main thread; an exception ends it.                 *)
PipeAt(at, cmd) == pipe' = [at |-> at, cmd |-> cmd]
PipeDone(cmd) == stdin' = Sent(cmd) /\ PipeAt(IF Raises(cmd) THEN "dead" ELSE "idle", <<"", NoOne>>)

PipeStep ==
  \/ /\ pipe.at = "idle" /\ Unhurried
     /\ \E cmd \in Piped : PipeAt("lock", cmd)
     /\ UNCHANGED <<owner, stdin>>
  \/ /\ pipe.at = "lock" /\ owner["clt_write"] = "free"
     /\ pipe.cmd[1] # "offer@"
     /\ PipeDone(pipe.cmd) /\ UNCHANGED owner
  \/ /\ pipe.at = "lock" /\ owner["clt_write"] = "free"
     /\ pipe.cmd[1] = "offer@"
     /\ owner' = [owner EXCEPT !["clt_write"] = "pipe"]
     /\ PipeAt("name", pipe.cmd) /\ UNCHANGED stdin
  \/ /\ pipe.at = "name" /\ owner["peerlist"] = "free"
     /\ owner' = [owner EXCEPT !["peerlist"] = "pipe"]
     /\ PipeAt("get", pipe.cmd) /\ UNCHANGED stdin
  \/ /\ pipe.at = "got"
     /\ owner' = Released({"clt_write", "peerlist"}, pipe.cmd)
     /\ PipeDone(pipe.cmd)

PipeThread ==
  /\ PipeStep
  /\ UNCHANGED <<status, lists, notifier, main, dialogs, lineq, timers, client, asked>>

ServeGet ==
  /\ Looping /\ pipe.at = "get"
  /\ PipeAt("got", <<"offer", name2id(pipe.cmd[2])>>)
  /\ UNCHANGED <<status, lists, notifier, main, dialogs, owner, lineq, timers, stdin, client, asked>>

-----------------------------------------------------------------------------
(* The reader thread: a line into the queue, then event_generate, which     *)
(* waits until the main thread has run proc_clt.                            *)

ReaderPut ==
  /\ reader = "read" /\ stdout # <<>>
  /\ readq' = Append(readq, Head(stdout)) /\ stdout' = Tail(stdout)
  /\ reader' = "posted"
  /\ UNCHANGED <<status, lists, notifier, main, dialogs, owner, due, pipe, timers, stdin, clt,
                 hushed, offers, asked>>

ServeEvent ==
  /\ Looping /\ reader = "posted"
  /\ reader' = "read" /\ due' = due + 1
  /\ UNCHANGED <<status, lists, notifier, main, dialogs, owner, readq, pipe, timers, stdin, client,
                 asked>>

-----------------------------------------------------------------------------
(* subproc_clt: one line, by its prefix.                                    *)

(* Mutant: a lost connection does not end the login.                        *)
AuthedAfter_Kept(prefix) == prefix = "AUTH" \/ (prefix = "DISC" /\ is_authed)
AuthedAfter(prefix) == prefix = "AUTH"

Status(l) ==
  /\ l[1] \in {"CONN", "DISC", "AUTH", "NAUT"}
  /\ is_authed' = AuthedAfter(l[1])
  /\ is_connected' = (l[1] = "CONN" \/ (l[1] # "DISC" /\ is_connected))
  /\ UNCHANGED <<main, owner, lists>>

(* peerlist_update and translist_update drop the row if the lock is taken;  *)
(* the line without a row clears the list. A row of which the progress      *)
(* cannot be read raises an exception, and its lock is never released.      *)
PeerRow(l) ==
  /\ l[1] = "PLST"
  /\ peerlist' = IF owner["peerlist"] # "free" THEN peerlist
                 ELSE IF l[2] = NoOne THEN {} ELSE peerlist \cup {l[2]}
  /\ UNCHANGED <<status, main, owner, translist>>

TransferRow(l) ==
  /\ l[1] = "TLST"
  /\ \/ owner["translist"] # "free" /\ UNCHANGED <<main, owner, translist>>
     \/ /\ owner["translist"] = "free" /\ l[2] = NoOne
        /\ translist' = {} /\ UNCHANGED <<main, owner>>
     \/ /\ owner["translist"] = "free" /\ l[2] # NoOne
        /\ \/ /\ l[2] \notin odd
              /\ owner' = [owner EXCEPT !["translist"] = "main"]
              /\ main' = Wait("peerlist", "row", l[2], "line")
           \/ /\ l[2] \in odd
              /\ owner' = [owner EXCEPT !["translist"] = "lost"] /\ UNCHANGED main
        /\ UNCHANGED translist
  /\ UNCHANGED <<status, peerlist>>

(* Pings, downloads and offers are shown with the name of the peer.         *)
Named(l) ==
  /\ l[1] \in {"PEER", "OFFR"}
  /\ main' = Wait("peerlist", IF l[1] = "OFFR" THEN "ask" ELSE "log", l[2], "line")
  /\ UNCHANGED <<status, owner, lists>>

Logged(l) == l[1] = "TEXT" /\ UNCHANGED <<status, main, owner, lists>>

TakeLine ==
  \/ /\ readq # <<>> /\ readq' = Tail(readq)
     /\ LET l == Head(readq) IN
          Status(l) \/ PeerRow(l) \/ TransferRow(l) \/ Named(l) \/ Logged(l)
  \/ readq = <<>> /\ UNCHANGED <<readq, status, main, owner, lists>>

(* Mutant: proc_clt takes a line itself, and so does the callback it sets.  *)
LineDue_Twice == due > 0 \/ reader = "posted"
LineDue == due > 0

RunDue ==
  /\ Looping /\ LineDue
  /\ due' = due - 1
  /\ TakeLine
  /\ UNCHANGED <<notifier, dialogs, reader, pipe, timers, stdin, client, asked>>

(* The rest of the handler, with the lock of the peer list: a transfer's    *)
(* row; a line in the log; an offer, by the notifier and a dialog; the      *)
(* dialog of a transfer; the file dialog, which keeps the lock.             *)
Opened(kind) == dialogs' = Append(dialogs, <<kind, main.arg>>)
Continued ==
  \/ /\ main.then = "row"
     /\ translist' = translist \cup {main.arg}
     /\ owner' = [owner EXCEPT !["translist"] = "free"] /\ UNCHANGED <<dialogs, asked>>
  \/ main.then = "log" /\ UNCHANGED <<translist, owner, dialogs, asked>>
  \/ /\ main.then = "ask"
     /\ \/ notifier = "broken" /\ UNCHANGED <<dialogs, asked>>
        \/ notifier = "none" /\ Opened("notify") /\ asked' = asked \cup {main.arg}
     /\ UNCHANGED <<translist, owner>>
  \/ main.then = "pick" /\ Opened("trans") /\ UNCHANGED <<translist, owner, asked>>
  \/ /\ main.then = "file" /\ Opened("file")
     /\ owner' = [owner EXCEPT !["peerlist"] = "main"] /\ UNCHANGED <<translist, asked>>

MainPeerlist ==
  /\ main.lock = "peerlist" /\ owner["peerlist"] = "free"
  /\ Continued
  /\ main' = InLoop
  /\ UNCHANGED <<status, peerlist, notifier, lineq, pipe, timers, stdin, client>>

-----------------------------------------------------------------------------
(* subrefresh_local and subrefresh_remote: ask the client, or clear what is *)
(* shown; then the timer is set again.                                      *)

(* Mutant: only a refresh that asks sets the timer again.                   *)
StillSet_Asking(t) == timers \ {t}
StillSet(t) == timers

TimerFires(t) ==
  /\ Looping /\ t \in timers /\ Unhurried
  /\ \/ /\ is_authed
        /\ timers' = timers \ {t}
        /\ main' = Write(<<IF t = "local" THEN "list" ELSE "peerlist", NoOne>>, t)
        /\ UNCHANGED lists
     \/ /\ ~is_authed
        /\ translist' = (IF t = "local" THEN {} ELSE translist)
        /\ peerlist' = (IF t = "remote" THEN {} ELSE peerlist)
        /\ timers' = StillSet(t) /\ UNCHANGED main
  /\ UNCHANGED <<status, notifier, dialogs, owner, lineq, pipe, stdin, client, asked>>

-----------------------------------------------------------------------------
(* The user. A modal dialog keeps him from the rest of the window. The      *)
(* buttons decide by what the GUI believes; their keys always work. "Apply  *)
(* & Save" makes an empty notifier the command with an empty name.          *)

ConnectButton == <<IF is_connected THEN "disconnect" ELSE "connect", NoOne>>
LoginButton == <<IF is_authed THEN "logout" ELSE "login", NoOne>>

Pick(o) ==
  \/ /\ owner["translist"] = "free"
     /\ owner' = [owner EXCEPT !["translist"] = "main"]
     /\ main' = Wait("peerlist", "pick", o, "user")
  \/ /\ owner["translist"] # "free"
     /\ main' = Wait("translist", "click", o, "user") /\ UNCHANGED owner

AtWindow ==
  /\ Looping /\ dialogs = <<>> /\ Unhurried
  /\ \/ /\ \E cmd \in {ConnectButton, LoginButton} \cup Typed : main' = Write(cmd, "user")
        /\ UNCHANGED <<owner, notifier>>
     \/ /\ \E p \in peerlist : main' = Wait("peerlist", "file", p, "user")
        /\ UNCHANGED <<owner, notifier>>
     \/ /\ \E o \in translist : Pick(o)
        /\ UNCHANGED notifier
     \/ notifier' = "broken" /\ UNCHANGED <<main, owner>>
  /\ UNCHANGED <<status, lists, dialogs, lineq, pipe, timers, stdin, client, asked>>

(* The innermost dialog is answered or cancelled, and its handler goes on.  *)
(* An offer is accepted or removed, which is one for the window.            *)
AnswerTo(d) == <<IF d[1] = "file" THEN "offer" ELSE "accept", d[2]>>

AtDialog ==
  /\ Looping /\ dialogs # <<>> /\ Unhurried
  /\ dialogs' = Front(dialogs)
  /\ LET d == Last(dialogs) IN
       \/ main' = Write(AnswerTo(d), d[1]) /\ UNCHANGED owner
       \/ owner' = Released(LocksOf(d[1]) \ {"clt_write"}, d) /\ UNCHANGED main
  /\ UNCHANGED <<status, lists, notifier, lineq, pipe, timers, stdin, client, asked>>

-----------------------------------------------------------------------------
(* The client, as far as its lines show it: what a command makes it print.  *)

Line(prefix) == <<<<prefix, NoOne>>>>
Listing(prefix, S) ==
  {Line(prefix) \o [i \in DOMAIN s |-> <<prefix, s[i]>>] : s \in UNION {SetToSeqs(T) : T \in SUBSET S}}
Prints(lines, state) == stdout' = lines /\ clt' = state

(* connect_srv closes the connection there is before it tries, and says     *)
(* nothing of it; "disconnect" without a connection says nothing either.    *)
Connect ==
  \/ Prints(Line("CONN"), "on") /\ hushed' = FALSE
  \/ Prints(Line("TEXT"), "off") /\ hushed' = (hushed \/ clt # "off")

Disconnect ==
  \/ clt = "off" /\ Prints(<<>>, "off") /\ UNCHANGED hushed
  \/ clt # "off" /\ Prints(Line("DISC"), "off") /\ hushed' = FALSE

Answered(cmd) ==
  \/ cmd = "peerlist" /\ clt = "auth" /\ \E lines \in Listing("PLST", Peers) : Prints(lines, clt)
  \/ cmd = "login" /\ clt = "on" /\ Prints(Line("AUTH"), "auth")
  \/ cmd = "logout" /\ clt = "auth" /\ Prints(Line("NAUT"), "on")
  \/ cmd = "accept" /\ Prints(Line("PEER"), clt)
  \/ Prints(Line("TEXT"), clt) \/ Prints(<<>>, clt)

Quiet == clt # "gone" /\ stdout = <<>> /\ Len(readq) <= LineMax

CltCommand ==
  /\ Quiet /\ stdin # <<>>
  /\ LET cmd == Head(stdin)[1] IN
       \/ cmd = "connect" /\ Connect
       \/ cmd = "disconnect" /\ Disconnect
       \/ cmd = "list" /\ UNCHANGED hushed
            /\ \E lines \in Listing("TLST", announced) : Prints(lines, clt)
       \/ cmd \in {"login", "logout", "peerlist", "offer", "accept"}
            /\ Answered(cmd) /\ UNCHANGED hushed
  /\ stdin' = Tail(stdin)
  /\ UNCHANGED <<status, lists, notifier, main, dialogs, owner, lineq, pipe, timers, offers, asked>>

CltSays ==
  /\ Quiet
  /\ \/ clt # "off" /\ Prints(Line("DISC"), "off") /\ hushed' = FALSE /\ UNCHANGED offers
     \/ clt = "auth" /\ Prints(Line("PEER"), clt) /\ UNCHANGED <<hushed, offers>>
     \/ \E o \in Offers \ announced :
          /\ clt = "auth" /\ Prints(<<<<"OFFR", o>>>>, clt)
          /\ announced' = announced \cup {o} /\ odd' \in {odd, odd \cup {o}} /\ UNCHANGED hushed
  /\ UNCHANGED <<status, lists, notifier, main, dialogs, owner, lineq, pipe, timers, stdin, asked>>

(* Killed, or told to exit by a line of the user's.                         *)
CltDies ==
  /\ clt # "gone"
  /\ clt' = "gone" /\ stdin' = <<>>
  /\ UNCHANGED <<status, lists, notifier, main, dialogs, owner, lineq, pipe, timers, stdout, hushed,
                 offers, asked>>

-----------------------------------------------------------------------------
MainThread == MainWrite \/ MainName \/ MainPeerlist

Next ==
  \/ MainThread \/ RunDue \/ ServeEvent \/ ServeGet
  \/ \E t \in Timers : TimerFires(t)
  \/ ReaderPut \/ PipeThread
  \/ AtWindow \/ AtDialog
  \/ CltCommand \/ CltSays \/ CltDies

Spec == Init /\ [][Next]_vars

(* Threads run; the Tk loop gets round to its events although handlers keep *)
(* it away in between; the client reads its commands. Nobody makes the user *)
(* do anything, or the server say anything.                                 *)
FairSpec ==
  /\ Spec
  /\ WF_vars(MainThread) /\ WF_vars(ReaderPut) /\ WF_vars(pipe.at # "idle" /\ PipeThread)
  /\ SF_vars(ServeEvent \/ RunDue)
  /\ WF_vars(CltCommand)

-----------------------------------------------------------------------------
(* Properties *)

TypeOK ==
  /\ is_connected \in BOOLEAN /\ is_authed \in BOOLEAN /\ hushed \in BOOLEAN
  /\ peerlist \subseteq Peers /\ translist \subseteq Offers
  /\ notifier \in {"none", "broken"}
  /\ main.lock \in Locks \cup {"none"}
  /\ dialogs \in Seq(({"notify", "trans"} \X Offers) \cup ({"file"} \X Peers))
  /\ owner \in [Locks -> {"free", "main", "pipe", "lost"}]
  /\ reader \in {"read", "posted"} /\ due \in Nat
  /\ pipe \in [at : {"idle", "lock", "name", "get", "got", "dead"}, cmd : Commands]
  /\ readq \in Seq(Lines) /\ stdout \in Seq(Lines) /\ stdin \in Seq(Commands)
  /\ timers \subseteq Timers
  /\ clt \in {"off", "on", "auth", "gone"}
  /\ asked \subseteq announced /\ announced \subseteq Offers /\ odd \subseteq announced

(* When every line printed has been handled, the window shows the state of  *)
(* the client - unless the client lost its connection in a "connect" that   *)
(* failed, or has ended, of neither of which there is a line.               *)
StatusAgrees ==
  stdout = <<>> /\ readq = <<>> /\ clt # "gone" /\ ~hushed =>
    is_connected = (clt # "off") /\ is_authed = (clt = "auth")

(* Every lock is held by whom it should be, and by nobody when it should    *)
(* not: by a thread at the places between taking and releasing it, by the   *)
(* main thread also while the dialog it opened is answered. None is lost to *)
(* an exception, but by the name of a file.                                 *)
LocksAccounted ==
  LET open == {dialogs[i][1] : i \in DOMAIN dialogs} \cup {main.from} IN
  /\ owner["peerlist"] = "main" <=> "file" \in open
  /\ owner["translist"] = "main" <=> "trans" \in open \/ main.then \in {"row", "pick"}
  /\ owner["clt_write"] = "main" <=> main.then = "name"
  /\ owner["peerlist"] = "pipe" <=> pipe.at \in {"get", "got"}
  /\ owner["translist"] # "pipe"
  /\ owner["clt_write"] = "pipe" <=> pipe.at \in {"name", "get", "got"}
  /\ \A l \in Locks : owner[l] = "lost" => l = "translist" /\ odd # {}

(* The main thread waits for a lock that is lost, or that it holds itself,  *)
(* behind its file dialog; or for one of the FIFO thread, which waits for   *)
(* the main thread to serve its call or to give up the peer list.           *)
Frozen ==
  /\ ~Looping
  /\ \/ owner[main.lock] \in {"main", "lost"}
     \/ /\ owner[main.lock] = "pipe"
        /\ pipe.at = "get" \/ (pipe.at = "name" /\ owner["peerlist"] = "main")

(* An offer the client prints is put to the user, whatever lines, timers,   *)
(* dialogs and commands come in between - unless the GUI freezes, or saving *)
(* its configuration has broken the notifier.                               *)
OfferPutToUser ==
  \A o \in Offers : o \in announced ~> o \in asked \/ Frozen \/ notifier = "broken"

(* A refresh that found its timer due sets it again, so that both are set   *)
(* once more, with the same way out, as long as the client lives.           *)
RefreshGoesOn ==
  timers # Timers ~> timers = Timers \/ Frozen \/ clt = "gone"
=============================================================================
