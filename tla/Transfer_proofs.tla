-------------------------- MODULE Transfer_proofs ---------------------------
(* What a receiver of files may rely on, for any files, offers and chunks:  *)
(* Transfer implements FileCopy, if the receiving user sees to CareTaken.   *)
EXTENDS Transfer, WellFoundedInduction, SequenceTheorems, TLAPS

(* The first k blocks of any file. *)
Blocks(k) == [i \in 1 .. k |-> i]
Full(n) == Content(Source(n)) \in {part[n].data, final[n].data}

Message == Request \cup Answer \cup Proposal

Typed ==
  /\ no_clobber \in BOOLEAN
  /\ offer \in [Offers -> {"new", "open", "closed"}]
  /\ dl \in [Offers -> Download]
  /\ part \in [Names -> File] /\ final \in [Names -> File]
  /\ to \in [Peers -> Seq(Message)]
  /\ to["sender"] \in Seq(Request) /\ to["receiver"] \in Seq(Answer \cup Proposal)
  /\ up \in [Peers -> BOOLEAN]
  /\ pending \subseteq [o : Offers, id : ReqIds]
  /\ faults \in 0 .. MaxFaults

(* A part file is the beginning of the file, a final file all of it, or the *)
(* empty one that keeps the name.                                           *)
Disk ==
  \A n \in Names :
    /\ Len(part[n].data) <= Size[Source(n)] /\ part[n].data = Blocks(Len(part[n].data))
    /\ part[n].there \/ part[n].data = <<>>
    /\ final[n] \in {NoFile, EmptyFile, [there |-> TRUE, data |-> Content(Source(n))]}

(* An offer reaches the receiver once, and nothing comes of it before.      *)
Once(q) ==
  \A i, j \in 1 .. Len(q) : q[i].id = NoReq /\ q[j].id = NoReq /\ q[i].o = q[j].o => i = j

Offering ==
  /\ Once(to["receiver"])
  /\ \A m \in Range(to["receiver"]) : m.id = NoReq => dl[m.o].st = "none" /\ offer[m.o] # "new"
  /\ \A o \in Offers : offer[o] = "new" => dl[o].st = "none"
  /\ \A o \in Offers : dl[o].st = "none" => dl[o] = NoDownload /\ part[o] = NoFile /\ final[o] = NoFile

(* For one name there is one open descriptor, at the end of its part file.  *)
Writing ==
  /\ \A o \in Offers : dl[o].off <= Size[FileOf[o]]
  /\ \A o \in Offers : dl[o].pos # NoFd =>
       /\ dl[o].st = "open" /\ part[Target(o)].there
       /\ dl[o].off = dl[o].pos /\ dl[o].pos = Len(part[Target(o)].data)
  /\ \A o, p \in Offers : dl[o].pos # NoFd /\ dl[p].pos # NoFd /\ Target(o) = Target(p) => o = p

(* For one name there is one request, of the download that has it open, if  *)
(* there is one, and the part file stays.                                   *)
Waiting ==
  /\ \A r \in pending : part[Target(r.o)].there /\ dl[r.o].st # "none"
  /\ \A r, s \in pending : Target(r.o) = Target(s.o) => r = s
  /\ \A r \in pending, p \in Offers : dl[p].pos # NoFd /\ Target(p) = Target(r.o) => p = r.o

(* The request waited for continues the part file. One for no more data has *)
(* been preceded by all of it, even if nobody waits for it any more.        *)
Orders ==
  \A m \in Range(to["sender"]) :
    /\ m.size = 0 => Full(Target(m.o))
    /\ [o |-> m.o, id |-> m.id] \in pending =>
         /\ m.off = Len(part[Target(m.o)].data)
         /\ m.size = 0 => Len(part[Target(m.o)].data) = Size[FileOf[m.o]]

(* So does its answer. *)
Answers ==
  \A m \in Range(to["receiver"]) : [o |-> m.o, id |-> m.id] \in pending =>
    LET n == Len(part[Target(m.o)].data) IN
    /\ n + Len(m.data) <= Size[FileOf[m.o]]
    /\ m.data = [i \in 1 .. Len(m.data) |-> n + i]
    /\ m.data = <<>> => n = Size[FileOf[m.o]]

Inv == Typed /\ Disk /\ Offering /\ Writing /\ Waiting /\ Orders /\ Answers

-----------------------------------------------------------------------------
(* Queues *)

LEMMA QueuePart ==
  ASSUME NEW S, NEW q \in Seq(S), NEW a \in 1 .. Len(q) + 1, NEW b \in 0 .. Len(q)
  PROVE  /\ SubSeq(q, a, b) \in Seq(S)
         /\ Range(SubSeq(q, a, b)) \subseteq Range(q)
         /\ Once(q) => Once(SubSeq(q, a, b))
<1> DEFINE s == SubSeq(q, a, b)
<1>1. /\ s \in Seq(S) /\ Len(s) = IF a <= b THEN b - a + 1 ELSE 0
      /\ \A i \in 1 .. Len(s) : s[i] = q[i + a - 1] /\ i + a - 1 \in 1 .. Len(q)
  OBVIOUS
<1>2. DOMAIN s = 1 .. Len(s) /\ DOMAIN q = 1 .. Len(q)
  BY <1>1
<1>3. Range(s) \subseteq Range(q)
  BY <1>1, <1>2 DEF Range
<1>4. ASSUME Once(q) PROVE Once(s)
  <2>1. SUFFICES ASSUME NEW i \in 1 .. Len(s), NEW j \in 1 .. Len(s),
                        s[i].id = NoReq, s[j].id = NoReq, s[i].o = s[j].o
                 PROVE  i = j
    BY DEF Once
  <2>2. i + a - 1 = j + a - 1
    BY <1>1, <1>4, <2>1 DEF Once
  <2>3. QED
    BY <1>1, <2>2
<1>5. QED
  BY <1>1, <1>3, <1>4

LEMMA QueueTail ==
  ASSUME NEW S, NEW q \in Seq(S), q # <<>>
  PROVE  /\ Tail(q) \in Seq(S) /\ Head(q) \in Range(q)
         /\ Range(Tail(q)) \subseteq Range(q)
         /\ Once(q) => Once(Tail(q))
         /\ Once(q) => \A m \in Range(Tail(q)) : m.id = NoReq /\ Head(q).id = NoReq => m.o # Head(q).o
<1>1. Len(q) \in Nat \ {0} /\ Tail(q) = SubSeq(q, 2, Len(q)) /\ DOMAIN q = 1 .. Len(q) /\ Head(q) = q[1]
  OBVIOUS
<1>2. /\ Tail(q) \in Seq(S) /\ Range(Tail(q)) \subseteq Range(q)
      /\ Once(q) => Once(Tail(q))
  <2>1. 2 \in 1 .. Len(q) + 1 /\ Len(q) \in 0 .. Len(q)
    BY <1>1
  <2>2. /\ SubSeq(q, 2, Len(q)) \in Seq(S) /\ Range(SubSeq(q, 2, Len(q))) \subseteq Range(q)
        /\ Once(q) => Once(SubSeq(q, 2, Len(q)))
    BY <2>1, QueuePart
  <2>3. QED
    BY <1>1, <2>2
<1>3. Head(q) \in Range(q)
  BY <1>1 DEF Range
<1>4. ASSUME Once(q), NEW m \in Range(Tail(q)), m.id = NoReq, Head(q).id = NoReq, m.o = Head(q).o
      PROVE  FALSE
  <2>1. PICK i \in 1 .. Len(q) - 1 : m = q[i + 1]
    BY <1>4 DEF Range
  <2>2. QED
    BY <1>1, <1>4, <2>1 DEF Once
<1>5. QED
  BY <1>2, <1>3, <1>4

LEMMA QueueAppend ==
  ASSUME NEW S, NEW q \in Seq(S), NEW e \in S
  PROVE  /\ Append(q, e) \in Seq(S)
         /\ Range(Append(q, e)) = Range(q) \cup {e}
         /\ Once(q) /\ (e.id = NoReq => \A m \in Range(q) : m.id = NoReq => m.o # e.o) => Once(Append(q, e))
<1> DEFINE s == Append(q, e)
<1>1. /\ s \in Seq(S) /\ Len(s) = Len(q) + 1 /\ s[Len(q) + 1] = e
      /\ \A i \in 1 .. Len(q) : s[i] = q[i]
      /\ Len(q) \in Nat /\ DOMAIN s = 1 .. Len(q) + 1 /\ DOMAIN q = 1 .. Len(q)
  OBVIOUS
<1> HIDE DEF s
<1>2. Range(s) = Range(q) \cup {e}
  <2>1. \A i \in 1 .. Len(q) + 1 : i \in 1 .. Len(q) \/ i = Len(q) + 1
    BY <1>1
  <2>2. Range(s) \subseteq Range(q) \cup {e}
    BY <1>1, <2>1 DEF Range
  <2>3. e \in Range(s) /\ Range(q) \subseteq Range(s)
    BY <1>1 DEF Range
  <2>4. QED
    BY <2>2, <2>3
<1>3. ASSUME Once(q), e.id = NoReq => \A m \in Range(q) : m.id = NoReq => m.o # e.o
      PROVE  Once(s)
  <2>1. SUFFICES ASSUME NEW i \in 1 .. Len(s), NEW j \in 1 .. Len(s),
                        s[i].id = NoReq, s[j].id = NoReq, s[i].o = s[j].o
                 PROVE  i = j
    BY DEF Once
  <2>2. \A k \in 1 .. Len(q) : q[k] \in Range(q)
    BY <1>1 DEF Range
  <2>3. CASE i \in 1 .. Len(q) /\ j \in 1 .. Len(q)
    BY <1>1, <1>3, <2>1, <2>3 DEF Once
  <2>4. CASE i = Len(q) + 1 \/ j = Len(q) + 1
    BY <1>1, <1>3, <2>1, <2>2, <2>4
  <2>5. QED
    BY <1>1, <2>3, <2>4
<1>4. QED
  BY <1>1, <1>2, <1>3 DEF s

-----------------------------------------------------------------------------
LEMMA Constants ==
  /\ \A o \in Offers : FileOf[o] \in Files /\ o \in Names /\ FileOf[o] \in Names
  /\ \A o \in Offers : Target(o) \in Names /\ Source(Target(o)) = FileOf[o]
  /\ \A n \in Names : Source(n) \in Files /\ Size[Source(n)] \in Nat \ {0}
  /\ NoReq \notin ReqIds /\ ReqIds \subseteq Nat /\ NoFd \notin Nat
  /\ NoDownload \in Download /\ Invalid = [st |-> "closed", off |-> 0, pos |-> NoFd]
  /\ NoFile \in File /\ EmptyFile \in File /\ NoFile # EmptyFile
<1>1. \A o \in Offers : FileOf[o] \in Files /\ o \in Names /\ FileOf[o] \in Names /\ FileOf[o] \notin Offers
  BY FilesAssumption DEF Names
<1>2. \A o \in Offers : Target(o) \in Names /\ Source(Target(o)) = FileOf[o]
  BY <1>1 DEF Target, Source
<1>3. \A n \in Names : Source(n) \in Files /\ Size[Source(n)] \in Nat \ {0}
  BY FilesAssumption DEF Names, Source
<1>4. NoReq \notin ReqIds /\ ReqIds \subseteq Nat /\ NoFd \notin Nat
  BY BoundsAssumption DEF NoReq, ReqIds, NoFd
<1>5. NoDownload \in Download /\ Invalid = [st |-> "closed", off |-> 0, pos |-> NoFd]
  BY DEF NoDownload, Download, Invalid, NoFd
<1>6. NoFile \in File /\ EmptyFile \in File /\ NoFile # EmptyFile
  BY DEF NoFile, EmptyFile, File
<1>7. QED
  BY <1>1, <1>2, <1>3, <1>4, <1>5, <1>6

LEMMA PeersAre == /\ Peers = {"sender", "receiver"}
                  /\ Other("sender") = "receiver" /\ Other("receiver") = "sender"
BY DEF Peers, Other

LEMMA Initially == Init => Inv
<1> SUFFICES ASSUME Init PROVE Inv
  OBVIOUS
<1>1. /\ no_clobber \in BOOLEAN /\ faults = 0 /\ pending = {}
      /\ offer = [o \in Offers |-> "new"] /\ dl = [o \in Offers |-> NoDownload]
      /\ final = [n \in Names |-> NoFile]
      /\ to = [p \in Peers |-> <<>>] /\ up = [p \in Peers |-> TRUE]
  BY DEF Init
<1>2. to["sender"] = <<>> /\ to["receiver"] = <<>>
  BY <1>1, PeersAre
<1>3. \A n \in Names : part[n] = NoFile \/
        /\ n \notin Offers
        /\ \E k \in 0 .. Size[n] - 1 : part[n] = [there |-> TRUE, data |-> SubSeq(Content(n), 1, k)]
  BY DEF Init, Leftover
<1>4. \A n \in Names :
        /\ part[n] \in File
        /\ Len(part[n].data) <= Size[Source(n)] /\ part[n].data = Blocks(Len(part[n].data))
        /\ part[n].there \/ part[n].data = <<>>
        /\ n \in Offers => part[n] = NoFile
  <2>1. SUFFICES ASSUME NEW n \in Names
                 PROVE  /\ part[n] \in File
                        /\ Len(part[n].data) <= Size[Source(n)] /\ part[n].data = Blocks(Len(part[n].data))
                        /\ part[n].there \/ part[n].data = <<>>
                        /\ n \in Offers => part[n] = NoFile
    OBVIOUS
  <2>2. CASE part[n] = NoFile
    BY <2>2, Constants DEF NoFile, File, Blocks
  <2>3. ASSUME n \notin Offers, NEW k \in 0 .. Size[n] - 1,
               part[n] = [there |-> TRUE, data |-> SubSeq(Content(n), 1, k)]
        PROVE  /\ part[n] \in File
               /\ Len(part[n].data) <= Size[Source(n)] /\ part[n].data = Blocks(Len(part[n].data))
               /\ part[n].there
    <3>1. Source(n) = n /\ Size[n] \in Nat
      BY <2>3, Constants DEF Source
    <3>2. SubSeq(Content(n), 1, k) = Blocks(k)
      BY <3>1 DEF Content, Blocks
    <3>3. Blocks(k) \in Seq(Nat) /\ Len(Blocks(k)) = k
      BY <3>1 DEF Blocks
    <3>4. QED
      BY <2>3, <3>1, <3>2, <3>3 DEF File
  <2>4. QED
    BY <1>3, <2>2, <2>3
<1>5. part \in [Names -> File]
  BY <1>4 DEF Init
<1>6. Typed
  <2>1. \A S : <<>> \in Seq(S)
    OBVIOUS
  <2>2. to \in [Peers -> Seq(Message)]
    BY <1>1, <2>1
  <2>3. 0 \in 0 .. MaxFaults
    BY BoundsAssumption
  <2>4. QED
    BY <1>1, <1>2, <1>5, <2>1, <2>2, <2>3, Constants DEF Typed
<1>7. Disk
  BY <1>1, <1>4 DEF Disk
<1>8. \A o \in Offers : dl[o].st = "none" /\ dl[o].pos = NoFd /\ dl[o].off = 0
  BY <1>1 DEF NoDownload
<1>9. Offering
  BY <1>1, <1>2, <1>4, <1>8, Constants DEF Offering, Once, Range
<1>10. Writing
  BY <1>8, Constants, FilesAssumption DEF Writing
<1>11. Waiting /\ Orders /\ Answers
  BY <1>1, <1>2 DEF Waiting, Orders, Answers, Range
<1>12. QED
  BY <1>6, <1>7, <1>9, <1>10, <1>11 DEF Inv

-----------------------------------------------------------------------------
(* Less of everything: what is lost, given up, or not waited for any longer *)
(* does no harm.                                                            *)
LessMail ==
  /\ to' \in [Peers -> Seq(Message)]
  /\ to'["sender"] \in Seq(Request) /\ Range(to'["sender"]) \subseteq Range(to["sender"])
  /\ to'["receiver"] \in Seq(Answer \cup Proposal) /\ Range(to'["receiver"]) \subseteq Range(to["receiver"])
  /\ Once(to'["receiver"])

LEMMA Fewer ==
  ASSUME Inv, UNCHANGED <<no_clobber, part, final>>,
         offer' \in [Offers -> {"new", "open", "closed"}],
         \A o \in Offers : offer'[o] = "new" <=> offer[o] = "new",
         dl' \in [Offers -> Download],
         \A o \in Offers :
           \/ dl'[o] = dl[o]
           \/ dl[o].st # "none" /\ dl'[o].st # "none" /\ dl'[o].pos = NoFd /\ dl'[o].off <= dl[o].off,
         pending' \subseteq pending,
         LessMail, up' \in [Peers -> BOOLEAN], faults' \in 0 .. MaxFaults
  PROVE  Inv'
<1> USE DEF LessMail
<1>1. Typed' /\ Disk'
  BY DEF Inv, Typed, Disk
<1>3. \A o \in Offers : dl'[o].st = "none" <=> dl[o].st = "none"
  OBVIOUS
<1>4. \A o \in Offers : dl'[o].pos # NoFd => dl'[o] = dl[o]
  OBVIOUS
<1>5. \A m \in Range(to["receiver"]) : m.o \in Offers
  <2>1. to["receiver"] \in Seq(Answer \cup Proposal)
    BY DEF Inv, Typed
  <2>2. \A m \in Range(to["receiver"]) : m \in Answer \cup Proposal
    BY <2>1 DEF Range
  <2>3. QED
    BY <2>2 DEF Answer, Proposal
<1>6. Offering'
  <2>1. Offering
    BY DEF Inv
  <2>2. \A o \in Offers : dl'[o].st = "none" => dl'[o] = dl[o]
    OBVIOUS
  <2>3. QED
    BY <1>3, <1>5, <2>1, <2>2 DEF Offering
<1>7. Writing'
  <2>1. Writing
    BY DEF Inv
  <2>2. \A o \in Offers : dl'[o].off <= Size[FileOf[o]]
    <3>1. SUFFICES ASSUME NEW o \in Offers PROVE dl'[o].off <= Size[FileOf[o]]
      OBVIOUS
    <3>2. dl'[o].off \in Nat /\ dl[o].off \in Nat /\ Size[FileOf[o]] \in Nat
      BY FilesAssumption DEF Inv, Typed, Download
    <3>3. dl[o].off <= Size[FileOf[o]] /\ dl'[o].off <= dl[o].off
      BY <2>1, <3>2 DEF Writing
    <3>4. QED
      BY <3>2, <3>3
  <2>3. \A o \in Offers : dl'[o].pos # NoFd =>
          /\ dl'[o].st = "open" /\ part'[Target(o)'].there
          /\ dl'[o].off = dl'[o].pos /\ dl'[o].pos = Len(part'[Target(o)'].data)
    BY <1>4, <2>1 DEF Writing, Target
  <2>4. \A o, p \in Offers : dl'[o].pos # NoFd /\ dl'[p].pos # NoFd /\ Target(o)' = Target(p)' => o = p
    <3>1. SUFFICES ASSUME NEW o \in Offers, NEW p \in Offers,
                          dl'[o].pos # NoFd, dl'[p].pos # NoFd, Target(o)' = Target(p)'
                   PROVE  o = p
      OBVIOUS
    <3>2. Target(o) = Target(p) /\ dl[o].pos # NoFd /\ dl[p].pos # NoFd
      BY <1>4, <3>1 DEF Target
    <3>3. QED
      BY <2>1, <3>2 DEF Writing
  <2>5. QED
    BY <2>2, <2>3, <2>4 DEF Writing
<1>8. Waiting'
  <2>1. Waiting /\ \A r \in pending : r.o \in Offers
    BY DEF Inv, Typed
  <2>2. \A r \in pending : part'[Target(r.o)'].there /\ dl'[r.o].st # "none"
    BY <1>3, <2>1 DEF Waiting, Target
  <2>3. \A r, s \in pending : Target(r.o)' = Target(s.o)' => r = s
    BY <2>1 DEF Waiting, Target
  <2>4. \A r \in pending, p \in Offers : dl'[p].pos # NoFd /\ Target(p)' = Target(r.o)' => p = r.o
    BY <1>4, <2>1 DEF Waiting, Target
  <2>5. QED
    BY <2>2, <2>3, <2>4 DEF Waiting
<1>9. Orders' /\ Answers'
  <2>1. \A m \in Range(to["sender"]) : m.o \in Offers
    <3>1. to["sender"] \in Seq(Request)
      BY DEF Inv, Typed
    <3>2. \A m \in Range(to["sender"]) : m \in Request
      BY <3>1 DEF Range
    <3>3. QED
      BY <3>2 DEF Request
  <2>2. QED
    BY <1>5, <2>1 DEF Inv, Orders, Answers, Target, Full
<1>10. QED
  BY <1>1, <1>6, <1>7, <1>8, <1>9 DEF Inv

LEMMA MailCut ==
  ASSUME Inv, NEW a \in 1 .. Len(to["sender"]) + 1, NEW b \in 0 .. Len(to["sender"]),
         NEW c \in 1 .. Len(to["receiver"]) + 1, NEW d \in 0 .. Len(to["receiver"]),
         to' = [to EXCEPT !["sender"] = SubSeq(@, a, b), !["receiver"] = SubSeq(@, c, d)]
  PROVE  LessMail
<1>1. /\ to \in [Peers -> Seq(Message)] /\ to["sender"] \in Seq(Request)
      /\ to["receiver"] \in Seq(Answer \cup Proposal) /\ Once(to["receiver"])
  BY DEF Inv, Typed, Offering
<1>2. to'["sender"] = SubSeq(to["sender"], a, b) /\ to'["receiver"] = SubSeq(to["receiver"], c, d)
  BY <1>1, PeersAre
<1>3. to'["sender"] \in Seq(Request) /\ Range(to'["sender"]) \subseteq Range(to["sender"])
  <2>1. SubSeq(to["sender"], a, b) \in Seq(Request) /\ Range(SubSeq(to["sender"], a, b)) \subseteq Range(to["sender"])
    BY <1>1, QueuePart
  <2>2. QED
    BY <1>2, <2>1
<1>4. /\ to'["receiver"] \in Seq(Answer \cup Proposal)
      /\ Range(to'["receiver"]) \subseteq Range(to["receiver"]) /\ Once(to'["receiver"])
  <2>1. /\ SubSeq(to["receiver"], c, d) \in Seq(Answer \cup Proposal)
        /\ Range(SubSeq(to["receiver"], c, d)) \subseteq Range(to["receiver"])
        /\ Once(SubSeq(to["receiver"], c, d))
    BY <1>1, QueuePart
  <2>2. QED
    BY <1>2, <2>1
<1>5. to' \in [Peers -> Seq(Message)]
  <2>1. to'["sender"] \in Seq(Message) /\ to'["receiver"] \in Seq(Message)
    BY <1>3, <1>4 DEF Message
  <2>2. QED
    BY <1>1, <2>1, PeersAre
<1>6. QED
  BY <1>3, <1>4, <1>5 DEF LessMail

LEMMA MailTail ==
  ASSUME Inv, NEW p \in Peers, to[p] # <<>>, to' = [to EXCEPT ![p] = Tail(@)]
  PROVE  LessMail
<1>1. /\ to \in [Peers -> Seq(Message)] /\ to["sender"] \in Seq(Request)
      /\ to["receiver"] \in Seq(Answer \cup Proposal) /\ Once(to["receiver"])
  BY DEF Inv, Typed, Offering
<1>2. /\ to[p] \in Seq(Message) /\ Tail(to[p]) \in Seq(Message)
      /\ to' \in [Peers -> Seq(Message)]
      /\ \A r \in Peers : to'[r] = IF r = p THEN Tail(to[p]) ELSE to[r]
  BY <1>1
<1>3. CASE p = "sender"
  <2>1. Tail(to["sender"]) \in Seq(Request) /\ Range(Tail(to["sender"])) \subseteq Range(to["sender"])
    BY <1>1, <1>3, QueueTail
  <2>2. QED
    BY <1>1, <1>2, <1>3, <2>1, PeersAre DEF LessMail
<1>4. CASE p = "receiver"
  <2>1. /\ Tail(to["receiver"]) \in Seq(Answer \cup Proposal)
        /\ Range(Tail(to["receiver"])) \subseteq Range(to["receiver"]) /\ Once(Tail(to["receiver"]))
    BY <1>1, <1>4, QueueTail
  <2>2. QED
    BY <1>1, <1>2, <1>4, <2>1, PeersAre DEF LessMail
<1>5. QED
  BY <1>3, <1>4, PeersAre

LEMMA MailKept == ASSUME Inv, UNCHANGED to PROVE LessMail
BY DEF Inv, Typed, Offering, LessMail

(* What Inv says of the message that is handled, and of the rest.           *)
LEMMA InboxOf ==
  ASSUME Inv, NEW p \in Peers, NEW m \in Inbox(p)
  PROVE  /\ up[p] /\ to[p] # <<>> /\ m = Head(to[p]) /\ m \in Range(to[p])
         /\ p = "sender" => m \in Request
         /\ p = "receiver" => m \in Answer \cup Proposal
<1>1. up[p] /\ to[p] # <<>> /\ m = Head(to[p])
  BY DEF Inbox
<1>2. to[p] \in Seq(Message) /\ to["sender"] \in Seq(Request) /\ to["receiver"] \in Seq(Answer \cup Proposal)
  BY DEF Inv, Typed
<1>3. m \in Range(to[p])
  BY <1>1, <1>2, QueueTail
<1>4. QED
  BY <1>1, <1>2, <1>3

LEMMA MishapTyped == ASSUME Inv, Mishap PROVE faults' \in 0 .. MaxFaults
BY BoundsAssumption DEF Inv, Typed, Mishap

LEMMA DownloadKept ==
  ASSUME Inv, NEW o \in Offers, dl[o].st = "open", dl' = [dl EXCEPT ![o] = Invalid]
  PROVE  /\ dl' \in [Offers -> Download]
         /\ \A p \in Offers :
              \/ dl'[p] = dl[p]
              \/ dl[p].st # "none" /\ dl'[p].st # "none" /\ dl'[p].pos = NoFd /\ dl'[p].off <= dl[p].off
<1>1. dl \in [Offers -> Download] /\ dl[o].off \in Nat
  BY DEF Inv, Typed, Download
<1>2. Invalid \in Download /\ Invalid.st = "closed" /\ Invalid.pos = NoFd /\ Invalid.off = 0
  BY Constants DEF Download, NoFd
<1>3. QED
  BY <1>1, <1>2

(* Nothing but messages, requests and transfers that go.                    *)
Quiet ==
  Refuse \/ ReadFails \/ DropAnswer \/ WriteRefused \/ RequestTimesOut
    \/ (\E o \in Offers : OfferAbandoned(o) \/ DownloadAbandoned(o))
    \/ (\E p \in Peers : Disconnect(p) \/ Restart(p) \/ Misdirected(p) \/ LogInAgain(p))

LEMMA Kept ==
  ASSUME Inv
  PROVE  /\ offer \in [Offers -> {"new", "open", "closed"}] /\ dl \in [Offers -> Download]
         /\ up \in [Peers -> BOOLEAN] /\ faults \in 0 .. MaxFaults
         /\ to \in [Peers -> Seq(Message)]
         /\ to["sender"] \in Seq(Request) /\ to["receiver"] \in Seq(Answer \cup Proposal)
BY DEF Inv, Typed

LEMMA Quietly == ASSUME Inv, UNCHANGED no_clobber, Quiet PROVE Inv'
<1>1. CASE Refuse
  <2>1. LessMail /\ UNCHANGED <<offer, dl, part, final, up, pending, faults>>
    BY <1>1, InboxOf, MailTail, PeersAre DEF Refuse, Unanswered, files
  <2>2. QED
    BY <2>1, Kept, Fewer
<1>2. CASE ReadFails
  <2>1. LessMail /\ UNCHANGED <<offer, dl, part, final, up, pending>> /\ faults' \in 0 .. MaxFaults
    BY <1>2, InboxOf, MailTail, PeersAre, MishapTyped DEF ReadFails, Unanswered, files
  <2>2. QED
    BY <2>1, Kept, Fewer
<1>3. CASE DropAnswer
  <2>1. /\ LessMail /\ UNCHANGED <<offer, dl, part, final, up, faults>>
        /\ pending' \subseteq pending
    BY <1>3, InboxOf, MailTail, PeersAre DEF DropAnswer, Taken, files
  <2>2. QED
    BY <2>1, Kept, Fewer
<1>4. CASE WriteRefused
  <2>1. /\ LessMail /\ UNCHANGED <<offer, part, final, up, faults>>
        /\ pending' \subseteq pending
    BY <1>4, InboxOf, MailTail, PeersAre DEF WriteRefused, Taken, files
  <2>2. PICK m \in Inbox("receiver") : dl[m.o].st = "open" /\ dl' = [dl EXCEPT ![m.o] = Invalid]
    BY <1>4 DEF WriteRefused, Wanted
  <2>3. m.o \in Offers
    BY InboxOf, PeersAre DEF Answer, Proposal
  <2>4. /\ dl' \in [Offers -> Download]
        /\ \A p \in Offers :
             \/ dl'[p] = dl[p]
             \/ dl[p].st # "none" /\ dl'[p].st # "none" /\ dl'[p].pos = NoFd /\ dl'[p].off <= dl[p].off
    BY <2>2, <2>3, DownloadKept
  <2>5. QED
    BY <2>1, <2>4, Kept, Fewer
<1>5. CASE RequestTimesOut
  <2>1. /\ LessMail /\ UNCHANGED <<offer, dl, part, final, up>>
        /\ pending' \subseteq pending /\ faults' \in 0 .. MaxFaults
    BY <1>5, MailKept, MishapTyped DEF RequestTimesOut, files
  <2>2. QED
    BY <2>1, Kept, Fewer
<1>6. ASSUME NEW o \in Offers, OfferAbandoned(o) PROVE Inv'
  <2>1. /\ LessMail /\ UNCHANGED <<dl, part, final, up, pending>> /\ faults' \in 0 .. MaxFaults
    BY <1>6, MailKept, MishapTyped DEF OfferAbandoned, files
  <2>2. /\ offer' \in [Offers -> {"new", "open", "closed"}]
        /\ \A p \in Offers : offer'[p] = "new" <=> offer[p] = "new"
    BY <1>6, Kept DEF OfferAbandoned
  <2>3. QED
    BY <2>1, <2>2, Kept, Fewer
<1>7. ASSUME NEW o \in Offers, DownloadAbandoned(o) PROVE Inv'
  <2>1. /\ LessMail /\ UNCHANGED <<offer, part, final, up, pending>> /\ faults' \in 0 .. MaxFaults
    BY <1>7, MailKept, MishapTyped DEF DownloadAbandoned, files
  <2>2. /\ dl' \in [Offers -> Download]
        /\ \A p \in Offers :
             \/ dl'[p] = dl[p]
             \/ dl[p].st # "none" /\ dl'[p].st # "none" /\ dl'[p].pos = NoFd /\ dl'[p].off <= dl[p].off
    BY <1>7, DownloadKept DEF DownloadAbandoned
  <2>3. QED
    BY <2>1, <2>2, Kept, Fewer
<1>8. ASSUME NEW p \in Peers, Cut(p) PROVE LessMail /\ up' \in [Peers -> BOOLEAN]
  <2>1. PICK lost \in 0 .. Len(to[p]), kept \in 0 .. Len(to[Other(p)]) :
          to' = [to EXCEPT ![p] = SubSeq(@, lost + 1, Len(@)), ![Other(p)] = SubSeq(@, 1, kept)]
    BY <1>8 DEF Cut
  <2>2. Len(to["sender"]) \in Nat /\ Len(to["receiver"]) \in Nat
    BY Kept
  <2>3. CASE p = "sender"
    <3>1. /\ lost + 1 \in 1 .. Len(to["sender"]) + 1 /\ Len(to["sender"]) \in 0 .. Len(to["sender"])
          /\ 1 \in 1 .. Len(to["receiver"]) + 1 /\ kept \in 0 .. Len(to["receiver"])
      BY <2>1, <2>2, <2>3, PeersAre
    <3>2. to' = [to EXCEPT !["sender"] = SubSeq(@, lost + 1, Len(to["sender"])), !["receiver"] = SubSeq(@, 1, kept)]
      BY <2>1, <2>3, PeersAre, Kept
    <3>3. QED
      BY <1>8, <3>1, <3>2, MailCut, Kept DEF Cut
  <2>4. CASE p = "receiver"
    <3>1. /\ lost + 1 \in 1 .. Len(to["receiver"]) + 1 /\ Len(to["receiver"]) \in 0 .. Len(to["receiver"])
          /\ 1 \in 1 .. Len(to["sender"]) + 1 /\ kept \in 0 .. Len(to["sender"])
      BY <2>1, <2>2, <2>4, PeersAre
    <3>2. to' = [to EXCEPT !["sender"] = SubSeq(@, 1, kept), !["receiver"] = SubSeq(@, lost + 1, Len(to["receiver"]))]
      BY <2>1, <2>4, PeersAre, Kept
    <3>3. QED
      BY <1>8, <3>1, <3>2, MailCut, Kept DEF Cut
  <2>5. QED
    BY <2>3, <2>4, PeersAre
<1>9. ASSUME NEW p \in Peers, Disconnect(p) PROVE Inv'
  <2>1. /\ LessMail /\ UNCHANGED <<offer, part, final, pending>>
        /\ up' \in [Peers -> BOOLEAN] /\ faults' \in 0 .. MaxFaults
    BY <1>8, <1>9, MishapTyped DEF Disconnect, files
  <2>2. dl' = dl \/ dl' = [o \in Offers |-> [dl[o] EXCEPT !.pos = NoFd]]
    BY <1>9 DEF Disconnect
  <2>3. \A o \in Offers : [dl[o] EXCEPT !.pos = NoFd] \in Download
    BY Kept DEF Download
  <2>4. dl' \in [Offers -> Download]
    BY <2>2, <2>3, Kept
  <2>5. ASSUME NEW o \in Offers
        PROVE  \/ dl'[o] = dl[o]
               \/ dl[o].st # "none" /\ dl'[o].st # "none" /\ dl'[o].pos = NoFd /\ dl'[o].off <= dl[o].off
    <3>1. dl[o] \in Download
      BY Kept
    <3>2. dl[o].st = "none" => dl[o].pos = NoFd
      BY DEF Inv, Offering, NoDownload
    <3>3. [dl[o] EXCEPT !.pos = NoFd] = [st |-> dl[o].st, off |-> dl[o].off, pos |-> NoFd]
      BY <3>1 DEF Download
    <3>4. dl[o] = [st |-> dl[o].st, off |-> dl[o].off, pos |-> dl[o].pos] /\ dl[o].off \in Nat
      BY <3>1 DEF Download
    <3>5. QED
      BY <2>2, <3>2, <3>3, <3>4
  <2>6. QED
    BY <2>1, <2>4, <2>5, Kept, Fewer
<1>10. ASSUME NEW p \in Peers, Restart(p) PROVE Inv'
  <2>1. /\ LessMail /\ UNCHANGED <<part, final>>
        /\ up' \in [Peers -> BOOLEAN] /\ faults' \in 0 .. MaxFaults
    BY <1>8, <1>10, MishapTyped DEF Restart, files
  <2>2. CASE p = "sender"
    <3>1. /\ offer' = [o \in Offers |-> IF offer[o] = "open" THEN "closed" ELSE offer[o]]
          /\ UNCHANGED <<dl, pending>>
      BY <1>10, <2>2 DEF Restart
    <3>2. /\ offer' \in [Offers -> {"new", "open", "closed"}]
          /\ \A o \in Offers : offer'[o] = "new" <=> offer[o] = "new"
      BY <3>1, Kept
    <3>3. QED
      BY <2>1, <3>1, <3>2, Kept, Fewer
  <2>3. CASE p = "receiver"
    <3>1. /\ dl' = [o \in Offers |-> IF dl[o].st = "open" THEN Invalid ELSE dl[o]]
          /\ pending' = {} /\ UNCHANGED offer
      BY <1>10, <2>3, PeersAre DEF Restart
    <3>2. Invalid \in Download /\ Invalid.st = "closed" /\ Invalid.pos = NoFd /\ Invalid.off = 0
      BY Constants DEF Download, NoFd
    <3>3. /\ dl' \in [Offers -> Download]
          /\ \A o \in Offers :
               \/ dl'[o] = dl[o]
               \/ dl[o].st # "none" /\ dl'[o].st # "none" /\ dl'[o].pos = NoFd /\ dl'[o].off <= dl[o].off
      <4>1. \A o \in Offers : dl[o].off \in Nat
        BY Kept DEF Download
      <4>2. QED
        BY <3>1, <3>2, <4>1, Kept
    <3>4. QED
      BY <2>1, <3>1, <3>3, Kept, Fewer
  <2>4. QED
    BY <2>2, <2>3, PeersAre
<1>11. ASSUME NEW p \in Peers, Misdirected(p) PROVE Inv'
  <2>1. LessMail /\ UNCHANGED <<offer, dl, part, final, up, pending, faults>>
    BY <1>11, MailTail DEF Misdirected, files
  <2>2. QED
    BY <2>1, Kept, Fewer
<1>12. ASSUME NEW p \in Peers, LogInAgain(p) PROVE Inv'
  <2>1. /\ LessMail /\ UNCHANGED <<offer, dl, part, final, pending, faults>>
        /\ up' \in [Peers -> BOOLEAN]
    BY <1>12, MailKept, Kept DEF LogInAgain, files
  <2>2. QED
    BY <2>1, Kept, Fewer
<1>13. QED
  BY <1>1, <1>2, <1>3, <1>4, <1>5, <1>6, <1>7, <1>9, <1>10, <1>11, <1>12 DEF Quiet

-----------------------------------------------------------------------------
(* Answers *)

(* data is what comes next in the part file that m is about.                *)
Continues(m, data) ==
  LET n == Len(part[Target(m.o)].data) IN
    /\ n + Len(data) <= Size[FileOf[m.o]]
    /\ data = [i \in 1 .. Len(data) |-> n + i]
    /\ data = <<>> => n = Size[FileOf[m.o]]

LEMMA Replied ==
  ASSUME Inv, NEW m \in Inbox("sender"), NEW data \in Seq(Nat), Answered(m, data),
         UNCHANGED <<no_clobber, dl, part, final, up, pending, faults>>,
         offer' \in [Offers -> {"new", "open", "closed"}],
         \A o \in Offers : offer'[o] = "new" <=> offer[o] = "new",
         [o |-> m.o, id |-> m.id] \in pending => Continues(m, data)
  PROVE  Inv'
<1> DEFINE a == [o |-> m.o, id |-> m.id, data |-> data]
<1>1. /\ to["sender"] # <<>> /\ m = Head(to["sender"]) /\ m \in Request
      /\ to' = [to EXCEPT !["sender"] = Tail(@), !["receiver"] = Append(@, a)]
  BY InboxOf, PeersAre DEF Answered
<1>2. a \in Answer /\ a.id \in ReqIds /\ a.id # NoReq /\ m.o \in Offers
  BY <1>1, Constants DEF Request, Answer
<1>3. /\ to'["sender"] = Tail(to["sender"]) /\ to'["receiver"] = Append(to["receiver"], a)
      /\ DOMAIN to' = Peers /\ to' = [p \in Peers |-> to'[p]]
  BY <1>1, Kept, PeersAre
<1>4. to'["sender"] \in Seq(Request) /\ Range(to'["sender"]) \subseteq Range(to["sender"])
  <2>1. Tail(to["sender"]) \in Seq(Request) /\ Range(Tail(to["sender"])) \subseteq Range(to["sender"])
    BY <1>1, Kept, QueueTail
  <2>2. QED
    BY <1>3, <2>1
<1>5. /\ to'["receiver"] \in Seq(Answer \cup Proposal)
      /\ Range(to'["receiver"]) = Range(to["receiver"]) \cup {a}
      /\ Once(to'["receiver"])
  <2>1. to["receiver"] \in Seq(Answer \cup Proposal) /\ Once(to["receiver"]) /\ a \in Answer \cup Proposal
    BY <1>2, Kept DEF Inv, Offering
  <2> HIDE DEF a
  <2>2. /\ Append(to["receiver"], a) \in Seq(Answer \cup Proposal)
        /\ Range(Append(to["receiver"], a)) = Range(to["receiver"]) \cup {a}
        /\ Once(Append(to["receiver"], a))
    BY <1>2, <2>1, QueueAppend
  <2>3. QED
    BY <1>3, <2>2
<1>6. to' \in [Peers -> Seq(Message)]
  <2>1. to'["sender"] \in Seq(Message) /\ to'["receiver"] \in Seq(Message)
    BY <1>4, <1>5 DEF Message
  <2>2. QED
    BY <1>3, <2>1, PeersAre
<1>7. Typed' /\ Disk'
  BY <1>4, <1>5, <1>6 DEF Inv, Typed, Disk
<1>8. Offering'
  <2>1. Offering
    BY DEF Inv
  <2>2. \A x \in Range(to["receiver"]) : x.o \in Offers
    <3>1. \A x \in Range(to["receiver"]) : x \in Answer \cup Proposal
      BY Kept DEF Range
    <3>2. QED
      BY <3>1 DEF Answer, Proposal
  <2>3. \A x \in Range(to'["receiver"]) : x.id = NoReq => x \in Range(to["receiver"])
    BY <1>2, <1>5
  <2>4. QED
    BY <1>5, <2>1, <2>2, <2>3 DEF Offering
<1>9. Writing' /\ Waiting'
  BY DEF Inv, Writing, Waiting, Target
<1>10. Orders'
  BY <1>4 DEF Inv, Orders, Target, Full
<1>11. Answers'
  <2>1. SUFFICES ASSUME NEW x \in Range(to'["receiver"]), [o |-> x.o, id |-> x.id] \in pending
                 PROVE  Continues(x, x.data)
    BY DEF Answers, Continues, Target
  <2>2. CASE x = a
    BY <2>1, <2>2 DEF Continues
  <2>3. CASE x \in Range(to["receiver"])
    BY <2>1, <2>3 DEF Inv, Answers, Continues
  <2>4. QED
    BY <1>5, <2>2, <2>3
<1>12. QED
  BY <1>7, <1>8, <1>9, <1>10, <1>11 DEF Inv

(* Some of the blocks 1, 2, 3, ... are as many, counted from another.        *)
LEMMA Stretch ==
  ASSUME NEW z \in Nat, NEW from \in Nat, NEW last \in Nat, last <= z
  PROVE  SubSeq([i \in 1 .. z |-> i], from + 1, last) = [i \in 1 .. last - from |-> from + i]
<1> DEFINE s == SubSeq([i \in 1 .. z |-> i], from + 1, last)
<1>1. s = [i \in 1 .. last - from |-> [k \in 1 .. z |-> k][from + i]]
  OBVIOUS
<1>2. \A i \in 1 .. last - from : [k \in 1 .. z |-> k][from + i] = from + i
  OBVIOUS
<1>3. QED
  BY <1>1, <1>2

LEMMA Serving == ASSUME Inv, UNCHANGED no_clobber, Serve PROVE Inv'
<1>1. PICK m \in Inbox("sender") :
        /\ offer[m.o] = "open" /\ m.size > 0 /\ m.off < Size[FileOf[m.o]]
        /\ Answered(m, SubSeq(Content(FileOf[m.o]), m.off + 1, Least(m.off + m.size, Size[FileOf[m.o]])))
  BY DEF Serve
<1>2. UNCHANGED <<offer, dl, part, final, up, pending, faults>>
  BY DEF Serve, files
<1>3. /\ m \in Request /\ m \in Range(to["sender"]) /\ m.o \in Offers /\ m.off \in Nat /\ m.size \in Nat
      /\ Size[FileOf[m.o]] \in Nat
  BY InboxOf, PeersAre, FilesAssumption DEF Request
<1> DEFINE last == Least(m.off + m.size, Size[FileOf[m.o]])
           data == SubSeq(Content(FileOf[m.o]), m.off + 1, last)
<1>4. last \in Nat /\ m.off < last /\ last <= Size[FileOf[m.o]]
  BY <1>1, <1>3 DEF Least
<1>5. data = [i \in 1 .. last - m.off |-> m.off + i]
  <2> HIDE DEF last
  <2> QED BY <1>3, <1>4, Stretch DEF Content
<1>6. data \in Seq(Nat) /\ Len(data) = last - m.off /\ data # <<>>
  <2> HIDE DEF last, data
  <2>1. last - m.off \in Nat \ {0} /\ \A i \in 1 .. last - m.off : m.off + i \in Nat
    BY <1>3, <1>4
  <2>2. QED
    BY <1>5, <2>1
<1>7. [o |-> m.o, id |-> m.id] \in pending => Continues(m, data)
  <2> HIDE DEF last, data
  <2>1. SUFFICES ASSUME [o |-> m.o, id |-> m.id] \in pending PROVE Continues(m, data)
    OBVIOUS
  <2>2. m.off = Len(part[Target(m.o)].data)
    BY <1>3, <2>1 DEF Inv, Orders
  <2>3. QED
    BY <1>3, <1>4, <1>5, <1>6, <2>2 DEF Continues
<1>8. Answered(m, data)
  BY <1>1
<1>9. QED
  <2> HIDE DEF data
  <2> QED BY <1>2, <1>6, <1>7, <1>8, Kept, Replied

LEMMA Finishing == ASSUME Inv, UNCHANGED no_clobber, UploadFinished PROVE Inv'
<1>1. PICK m \in Inbox("sender") :
        /\ offer[m.o] = "open" /\ m.size = 0 /\ offer' = [offer EXCEPT ![m.o] = "closed"]
        /\ Answered(m, <<>>)
  BY DEF UploadFinished
<1>2. UNCHANGED <<dl, part, final, up, pending, faults>>
  BY DEF UploadFinished, files
<1>3. m \in Range(to["sender"]) /\ m.o \in Offers /\ Size[FileOf[m.o]] \in Nat
  BY InboxOf, PeersAre, FilesAssumption DEF Request
<1>4. [o |-> m.o, id |-> m.id] \in pending => Continues(m, <<>>)
  <2>1. SUFFICES ASSUME [o |-> m.o, id |-> m.id] \in pending PROVE Continues(m, <<>>)
    OBVIOUS
  <2>2. Len(part[Target(m.o)].data) = Size[FileOf[m.o]]
    BY <1>1, <1>3, <2>1 DEF Inv, Orders
  <2>3. QED
    BY <1>3, <2>2 DEF Continues
<1>5. /\ offer' \in [Offers -> {"new", "open", "closed"}]
      /\ \A o \in Offers : offer'[o] = "new" <=> offer[o] = "new"
  BY <1>1, Kept
<1>6. <<>> \in Seq(Nat)
  OBVIOUS
<1>7. QED
  BY <1>1, <1>2, <1>4, <1>5, <1>6, Replied

-----------------------------------------------------------------------------
(* Offers *)

LEMMA Making == ASSUME Inv, UNCHANGED no_clobber, NEW o \in Offers, Offer(o) PROVE Inv'
<1> DEFINE a == [o |-> o, id |-> NoReq, data |-> <<>>]
<1>1. /\ offer[o] = "new" /\ offer' = [offer EXCEPT ![o] = "open"]
      /\ to' = [to EXCEPT !["receiver"] = Append(@, a)]
      /\ UNCHANGED <<dl, part, final, up, pending, faults>>
  BY DEF Offer, files
<1>2. a \in Proposal /\ a.id = NoReq /\ a.o = o
  BY DEF Proposal
<1>3. /\ to'["sender"] = to["sender"] /\ to'["receiver"] = Append(to["receiver"], a)
      /\ DOMAIN to' = Peers /\ to' = [p \in Peers |-> to'[p]]
  BY <1>1, Kept, PeersAre
<1>4. \A x \in Range(to["receiver"]) : x.o \in Offers
  <2>1. \A x \in Range(to["receiver"]) : x \in Answer \cup Proposal
    BY Kept DEF Range
  <2>2. QED
    BY <2>1 DEF Answer, Proposal
<1>5. /\ to'["receiver"] \in Seq(Answer \cup Proposal)
      /\ Range(to'["receiver"]) = Range(to["receiver"]) \cup {a}
      /\ Once(to'["receiver"])
  <2>1. to["receiver"] \in Seq(Answer \cup Proposal) /\ Once(to["receiver"]) /\ a \in Answer \cup Proposal
    BY <1>2, Kept DEF Inv, Offering
  <2>2. \A x \in Range(to["receiver"]) : x.id = NoReq => x.o # a.o
    BY <1>1, <1>2 DEF Inv, Offering
  <2> HIDE DEF a
  <2>3. /\ Append(to["receiver"], a) \in Seq(Answer \cup Proposal)
        /\ Range(Append(to["receiver"], a)) = Range(to["receiver"]) \cup {a}
        /\ Once(Append(to["receiver"], a))
    BY <2>1, <2>2, QueueAppend
  <2>4. QED
    BY <1>3, <2>3
<1>6. to' \in [Peers -> Seq(Message)]
  <2>1. to'["sender"] \in Seq(Message) /\ to'["receiver"] \in Seq(Message)
    BY <1>3, <1>5, Kept DEF Message
  <2>2. QED
    BY <1>3, <2>1, PeersAre
<1>7. offer' \in [Offers -> {"new", "open", "closed"}] /\ \A p \in Offers : offer'[p] = "new" => offer[p] = "new"
  BY <1>1, Kept
<1>8. Typed' /\ Disk'
  BY <1>1, <1>3, <1>5, <1>6, <1>7 DEF Inv, Typed, Disk
<1>9. Offering'
  <2>1. Offering /\ dl[o].st = "none" /\ offer'[o] = "open"
    BY <1>1, Kept DEF Inv, Offering
  <2>2. \A x \in Range(to'["receiver"]) : x.id = NoReq => dl[x.o].st = "none" /\ offer'[x.o] # "new"
    BY <1>2, <1>4, <1>5, <1>7, <2>1 DEF Offering
  <2>3. QED
    BY <1>1, <1>5, <1>7, <2>1, <2>2 DEF Offering
<1>10. Writing' /\ Waiting'
  BY <1>1 DEF Inv, Writing, Waiting, Target
<1>11. Orders'
  BY <1>1, <1>3 DEF Inv, Orders, Target, Full
<1>12. Answers'
  <2>1. SUFFICES ASSUME NEW x \in Range(to'["receiver"]), [o |-> x.o, id |-> x.id] \in pending
                 PROVE  Continues(x, x.data)
    BY <1>1 DEF Answers, Continues, Target
  <2>2. x.id # NoReq
    <3>1. \A r \in pending : r.id \in ReqIds
      BY DEF Inv, Typed
    <3>2. QED
      BY <2>1, <3>1, Constants
  <2>3. x \in Range(to["receiver"])
    BY <1>2, <1>5, <2>2
  <2>4. QED
    BY <2>1, <2>3 DEF Inv, Answers, Continues
<1>13. QED
  BY <1>8, <1>9, <1>10, <1>11, <1>12 DEF Inv

(* With no_clobber, the empty files that are created keep a name nothing    *)
(* has been copied to.                                                      *)
LEMMA ReceivingOffer == ASSUME Inv, UNCHANGED no_clobber, OfferReceived PROVE Inv'
<1>1. PICK m \in Inbox("receiver") :
        /\ m.id = NoReq
        /\ \/ /\ ~no_clobber
              /\ dl' = [dl EXCEPT ![m.o] = [NoDownload EXCEPT !.st = "open"]]
              /\ UNCHANGED files
           \/ /\ no_clobber
              /\ dl' = [dl EXCEPT ![m.o] = [st |-> "open", off |-> 0, pos |-> 0]]
              /\ part' = [part EXCEPT ![m.o] = EmptyFile]
              /\ final' = [final EXCEPT ![m.o] = EmptyFile]
  BY DEF OfferReceived
<1>2. /\ to' = [to EXCEPT !["receiver"] = Tail(@)] /\ UNCHANGED <<offer, up, pending, faults>>
  BY DEF OfferReceived
<1> DEFINE o == m.o
<1>3. m \in Range(to["receiver"]) /\ m = Head(to["receiver"]) /\ to["receiver"] # <<>> /\ o \in Offers
  BY InboxOf, PeersAre DEF Answer, Proposal
<1>4. /\ dl[o].st = "none" /\ dl[o] = NoDownload /\ part[o] = NoFile /\ final[o] = NoFile /\ offer[o] # "new"
  BY <1>1, <1>3 DEF Inv, Offering
<1>5. LessMail /\ to'["sender"] = to["sender"] /\ to'["receiver"] = Tail(to["receiver"])
  BY <1>2, <1>3, MailTail, PeersAre, Kept
<1>6. \A x \in Range(to'["receiver"]) : x \in Range(to["receiver"]) /\ (x.id = NoReq => x.o # o)
  <2>1. Once(to["receiver"]) /\ to["receiver"] \in Seq(Answer \cup Proposal)
    BY Kept DEF Inv, Offering
  <2>2. \A x \in Range(Tail(to["receiver"])) :
          x \in Range(to["receiver"]) /\ (x.id = NoReq /\ Head(to["receiver"]).id = NoReq => x.o # Head(to["receiver"]).o)
    BY <1>3, <2>1, QueueTail
  <2>3. QED
    BY <1>1, <1>3, <1>5, <2>2
<1>7. \A r \in pending : r.o # o /\ r.o \in Offers
  BY <1>4 DEF Inv, Waiting, Typed
<1>8. \A x \in Range(to["sender"]) : x.o \in Offers
  <2>1. \A x \in Range(to["sender"]) : x \in Request
    BY Kept DEF Range
  <2>2. QED
    BY <2>1 DEF Request
<1>9. \A x \in Range(to["receiver"]) : x.o \in Offers
  <2>1. \A x \in Range(to["receiver"]) : x \in Answer \cup Proposal
    BY Kept DEF Range
  <2>2. QED
    BY <2>1 DEF Answer, Proposal
<1>10. /\ dl' \in [Offers -> Download]
       /\ dl'[o].st = "open" /\ dl'[o].off = 0 /\ \A p \in Offers \ {o} : dl'[p] = dl[p]
       /\ dl'[o].pos = IF no_clobber THEN 0 ELSE NoFd
  <2> DEFINE d == [st |-> "open", off |-> 0, pos |-> IF no_clobber THEN 0 ELSE NoFd]
  <2>1. /\ [NoDownload EXCEPT !.st = "open"] = [st |-> "open", off |-> 0, pos |-> NoFd]
        /\ d \in Download /\ d.st = "open" /\ d.off = 0 /\ d.pos = IF no_clobber THEN 0 ELSE NoFd
    BY DEF NoDownload, Download, NoFd
  <2>2. dl' = [dl EXCEPT ![o] = d]
    BY <1>1, <2>1
  <2>3. dl \in [Offers -> Download] /\ o \in Offers
    BY <1>3, Kept
  <2> HIDE DEF d, o
  <2>4. QED
    BY <2>1, <2>2, <2>3
<1>11. /\ part' \in [Names -> File] /\ final' \in [Names -> File]
       /\ \A n \in Names \ {o} : part'[n] = part[n] /\ final'[n] = final[n]
       /\ no_clobber => part'[o] = EmptyFile /\ final'[o] = EmptyFile
       /\ ~no_clobber => part' = part /\ final' = final
  <2>1. part \in [Names -> File] /\ final \in [Names -> File] /\ EmptyFile \in File /\ o \in Names
    BY <1>3, Constants DEF Inv, Typed
  <2>2. QED
    BY <1>1, <2>1 DEF files
<1> HIDE DEF o
<1>12. Typed'
  BY <1>2, <1>5, <1>10, <1>11 DEF Inv, Typed, LessMail
<1>13. Disk'
  <2>1. SUFFICES ASSUME NEW n \in Names
                 PROVE  /\ Len(part'[n].data) <= Size[Source(n)] /\ part'[n].data = Blocks(Len(part'[n].data))
                        /\ part'[n].there \/ part'[n].data = <<>>
                        /\ final'[n] \in {NoFile, EmptyFile, [there |-> TRUE, data |-> Content(Source(n))]}
    BY DEF Disk
  <2>2. CASE part'[n] = part[n] /\ final'[n] = final[n]
    BY <2>2 DEF Inv, Disk
  <2>3. CASE part'[n] = EmptyFile /\ final'[n] = EmptyFile
    BY <2>3, Constants DEF EmptyFile, Blocks
  <2>4. QED
    BY <1>11, <2>2, <2>3
<1>14. Offering'
  <2>1. Offering
    BY DEF Inv
  <2>2. \A x \in Range(to'["receiver"]) : x.id = NoReq => dl'[x.o].st = "none" /\ offer'[x.o] # "new"
    BY <1>2, <1>6, <1>9, <1>10, <2>1 DEF Offering
  <2>3. \A p \in Offers : offer'[p] = "new" => dl'[p].st = "none"
    BY <1>2, <1>4, <1>10, <2>1 DEF Offering
  <2>4. \A p \in Offers : dl'[p].st = "none" => dl'[p] = NoDownload /\ part'[p] = NoFile /\ final'[p] = NoFile
    BY <1>10, <1>11, <2>1, Constants DEF Offering
  <2>5. Once(to'["receiver"])
    BY <1>5 DEF LessMail
  <2>6. QED
    BY <2>2, <2>3, <2>4, <2>5 DEF Offering
<1>15. \A p \in Offers \ {o} : Target(p) \in Names /\ (Target(p) # o \/ ~no_clobber)
  BY Constants DEF Target
<1>16. Writing'
  <2>1. Writing
    BY DEF Inv
  <2>2. \A p \in Offers : dl'[p].off <= Size[FileOf[p]]
    <3>1. Size[FileOf[o]] \in Nat
      BY <1>3, FilesAssumption DEF o
    <3>2. QED
      BY <1>10, <2>1, <3>1 DEF Writing
  <2>3. ASSUME NEW p \in Offers, dl'[p].pos # NoFd
        PROVE  /\ dl'[p].st = "open" /\ part'[Target(p)].there
               /\ dl'[p].off = dl'[p].pos /\ dl'[p].pos = Len(part'[Target(p)].data)
    <3>1. CASE p = o
      <4>1. no_clobber /\ Target(o) = o
        BY <1>10, <2>3, <3>1 DEF Target
      <4>2. QED
        BY <1>10, <1>11, <3>1, <4>1 DEF EmptyFile
    <3>2. CASE p # o
      BY <1>10, <1>11, <1>15, <2>1, <2>3, <3>2 DEF Writing
    <3>3. QED
      BY <3>1, <3>2
  <2>4. ASSUME NEW p \in Offers, NEW q \in Offers, dl'[p].pos # NoFd, dl'[q].pos # NoFd, Target(p) = Target(q)
        PROVE  p = q
    <3>1. CASE no_clobber
      BY <2>4, <3>1 DEF Target
    <3>2. CASE ~no_clobber
      BY <1>10, <2>1, <2>4, <3>2 DEF Writing
    <3>3. QED
      BY <3>1, <3>2
  <2>5. QED
    BY <2>2, <2>3, <2>4 DEF Writing, Target
<1>17. Waiting'
  <2>1. Waiting
    BY DEF Inv
  <2>2. ASSUME NEW r \in pending PROVE part'[Target(r.o)].there /\ dl'[r.o].st # "none"
    BY <1>7, <1>10, <1>11, <1>15, <2>1 DEF Waiting
  <2>3. ASSUME NEW r \in pending, NEW p \in Offers, dl'[p].pos # NoFd, Target(p) = Target(r.o) PROVE p = r.o
    <3>1. CASE no_clobber
      BY <2>3, <3>1 DEF Target
    <3>2. CASE ~no_clobber
      BY <1>10, <2>1, <2>3, <3>2 DEF Waiting
    <3>3. QED
      BY <3>1, <3>2
  <2>4. QED
    BY <1>2, <2>1, <2>2, <2>3 DEF Waiting, Target
<1>18. Orders'
  <2>1. SUFFICES ASSUME NEW x \in Range(to["sender"])
                 PROVE  /\ x.size = 0 => Full(Target(x.o))'
                        /\ [o |-> x.o, id |-> x.id] \in pending =>
                             /\ x.off = Len(part'[Target(x.o)].data)
                             /\ x.size = 0 => Len(part'[Target(x.o)].data) = Size[FileOf[x.o]]
    BY <1>2, <1>5 DEF Orders, Target
  <2>2. /\ x.size = 0 => Full(Target(x.o))
        /\ [o |-> x.o, id |-> x.id] \in pending =>
             /\ x.off = Len(part[Target(x.o)].data)
             /\ x.size = 0 => Len(part[Target(x.o)].data) = Size[FileOf[x.o]]
    BY DEF Inv, Orders
  <2>3. CASE x.o # o \/ ~no_clobber
    <3>1. part'[Target(x.o)] = part[Target(x.o)] /\ final'[Target(x.o)] = final[Target(x.o)]
      BY <1>8, <1>11, <1>15, <2>3
    <3>2. QED
      BY <2>2, <3>1 DEF Full, Target
  <2>4. CASE x.o = o /\ no_clobber
    <3>1. Target(x.o) = o /\ ~Full(o)
      <4>1. Content(Source(o)) # <<>>
        <5>1. o \in Names
          BY <1>3, Constants DEF o
        <5>2. Len(Content(Source(o))) = Size[Source(o)] /\ Size[Source(o)] # 0
          BY <5>1, Constants DEF Content
        <5>3. QED
          BY <5>2
      <4>2. QED
        BY <1>4, <2>4, <4>1 DEF Full, NoFile, Target
    <3>2. x.size # 0
      BY <2>2, <3>1
    <3>3. [o |-> x.o, id |-> x.id] \notin pending
      BY <1>7, <2>4
    <3>4. QED
      BY <3>2, <3>3
  <2>5. QED
    BY <2>3, <2>4
<1>19. Answers'
  <2>1. SUFFICES ASSUME NEW x \in Range(to'["receiver"]), [o |-> x.o, id |-> x.id] \in pending
                 PROVE  Continues(x, x.data)'
    BY <1>2 DEF Answers, Continues, Target
  <2>2. x \in Range(to["receiver"]) /\ x.o # o /\ x.o \in Offers
    BY <1>6, <1>7, <2>1
  <2>3. part'[Target(x.o)] = part[Target(x.o)]
    BY <1>11, <1>15, <2>2
  <2>4. Continues(x, x.data)
    BY <2>1, <2>2 DEF Inv, Answers, Continues
  <2>5. QED
    BY <2>3, <2>4 DEF Continues, Target
<1>20. QED
  BY <1>12, <1>13, <1>14, <1>16, <1>17, <1>18, <1>19 DEF Inv

-----------------------------------------------------------------------------
(* Requests *)

(* A part file that is there has got more of the file.                      *)
Grown ==
  /\ \E n \in Names, k \in Nat :
       /\ part[n].there /\ Len(part[n].data) <= k /\ k <= Size[Source(n)]
       /\ part' = [part EXCEPT ![n] = [there |-> TRUE, data |-> Blocks(k)]]
  /\ UNCHANGED final

LEMMA LeastNat == ASSUME NEW T, T \subseteq Nat, T # {} PROVE Min(T) \in T
<1> DEFINE R == {ss \in Nat \X Nat : ss[1] < ss[2]}
<1>1. IsWellFoundedOn(R, Nat)
  BY NatLessThanWellFounded DEF OpToRel
<1> HIDE DEF R
<1>2. PICK x \in T : \A y \in T : ~(<<y, x>> \in R)
  BY <1>1, WFMin
<1>3. ASSUME NEW y \in T PROVE x <= y
  <2>1. y \in Nat /\ x \in Nat /\ <<y, x>>[1] = y /\ <<y, x>>[2] = x
    OBVIOUS
  <2>2. <<y, x>> \notin R
    BY <1>2
  <2>3. ~(y < x)
    BY <2>1, <2>2 DEF R
  <2>4. QED
    BY <2>1, <2>3
<1>4. \E z \in T : \A y \in T : z <= y
  BY <1>3
<1>5. QED
  BY <1>4 DEF Min

(* The id of a new request is no pending one, and in no message.            *)
LEMMA NewId ==
  ASSUME NewIds # {}
  PROVE  /\ Min(NewIds) \in ReqIds
         /\ \A r \in pending : r.id # Min(NewIds)
         /\ \A m \in Range(to["sender"]) \cup Range(to["receiver"]) : m.id # Min(NewIds)
<1>1. NewIds \subseteq Nat
  BY Constants DEF NewIds
<1>2. Min(NewIds) \in NewIds
  BY <1>1, LeastNat
<1>3. QED
  BY <1>2 DEF NewIds, IdsInUse

LEMMA Wholly ==
  /\ \A n \in Names : Content(Source(n)) = Blocks(Size[Source(n)])
  /\ \A k \in Nat : Blocks(k) \in Seq(Nat) /\ Len(Blocks(k)) = k /\ (Blocks(k) = <<>> => k = 0)
BY Constants DEF Content, Blocks

(* A part file that is complete stays so until it is renamed.               *)
LEMMA StaysFull ==
  ASSUME Disk, NEW n \in Names, Full(n), final'[n] = final[n],
         part[n].data \in Seq(Nat), part'[n].data \in Seq(Nat),
         Len(part[n].data) <= Len(part'[n].data), Len(part'[n].data) <= Size[Source(n)],
         part'[n].data = Blocks(Len(part'[n].data))
  PROVE  Full(n)'
<1>1. CASE Content(Source(n)) = final[n].data
  BY <1>1 DEF Full
<1>2. CASE Content(Source(n)) = part[n].data
  <2>1. Len(part[n].data) = Size[Source(n)] /\ Size[Source(n)] \in Nat /\ Len(part'[n].data) \in Nat
    BY <1>2, Wholly, Constants
  <2>2. Len(part'[n].data) = Size[Source(n)]
    BY <2>1
  <2>3. QED
    BY <2>2, Wholly DEF Full
<1>3. QED
  BY <1>1, <1>2 DEF Full

(* The mail of the receiver, before or after the message that is handled.   *)
Received(q) ==
  q \in Seq(Answer \cup Proposal) /\ Range(q) \subseteq Range(to["receiver"]) /\ Once(q)

(* After Ask the download o, and no other, has the part file open, and all  *)
(* that is waited for with that name is the answer to the new request.      *)
LEMMA Asking ==
  ASSUME Inv, UNCHANGED <<no_clobber, offer, final, up, faults>>,
         NEW o \in Offers, dl[o].st = "open", OneWriter(o),
         NEW f \in File, f.there, f.data = Blocks(Len(f.data)),
         Len(part[Target(o)].data) <= Len(f.data), Len(f.data) <= Size[FileOf[o]],
         part' = [part EXCEPT ![Target(o)] = f],
         dl' = [dl EXCEPT ![o] = [st |-> "open", off |-> Len(f.data), pos |-> Len(f.data)]],
         NEW gone, \A r \in pending \ gone : Target(r.o) # Target(o),
         NEW size \in Nat, size = 0 => Len(f.data) = Size[FileOf[o]],
         NEW received, Received(received),
         Ask(o, Len(f.data), size, gone, received)
  PROVE  Inv'
<1>0. PICK n \in Names : n = Target(o)
  BY Constants
<1> DEFINE id == Min(NewIds)
           L == Len(f.data)
           new == [o |-> o, id |-> id]
           req == [o |-> o, id |-> id, off |-> L, size |-> size]
<1>1. /\ NewIds # {} /\ pending' \subseteq (pending \ gone) \cup {new}
      /\ to' = [to EXCEPT !["receiver"] = received,
                          !["sender"] = IF up["receiver"] THEN Append(@, req) ELSE @]
  BY DEF Ask
<1>2. /\ id \in ReqIds /\ \A r \in pending : r.id # id
      /\ \A m \in Range(to["sender"]) \cup Range(to["receiver"]) : m.id # id
  BY <1>1, NewId
<1>3. L \in Nat /\ n \in Names /\ Source(n) = FileOf[o]
  BY <1>0, Constants DEF File
<1>4. /\ to'["receiver"] = received
      /\ to'["sender"] = IF up["receiver"] THEN Append(to["sender"], req) ELSE to["sender"]
      /\ DOMAIN to' = Peers /\ to' = [p \in Peers |-> to'[p]]
  BY <1>1, Kept, PeersAre
<1>5. req \in Request /\ new \in [o : Offers, id : ReqIds]
  BY <1>2, <1>3 DEF Request
<1> HIDE DEF id, L, new, req
<1>6. to'["sender"] \in Seq(Request) /\ Range(to'["sender"]) \subseteq Range(to["sender"]) \cup {req}
  <2>1. Append(to["sender"], req) \in Seq(Request) /\ Range(Append(to["sender"], req)) = Range(to["sender"]) \cup {req}
    BY <1>5, Kept, QueueAppend
  <2>2. QED
    BY <1>4, <2>1, Kept
<1>7. to' \in [Peers -> Seq(Message)]
  <2>1. to'["sender"] \in Seq(Message) /\ to'["receiver"] \in Seq(Message)
    BY <1>4, <1>6 DEF Message, Received
  <2>2. QED
    BY <1>4, <2>1, PeersAre
<1>8. /\ dl' \in [Offers -> Download] /\ \A p \in Offers \ {o} : dl'[p] = dl[p]
      /\ dl'[o].st = "open" /\ dl'[o].off = L /\ dl'[o].pos = L
  <2> DEFINE rec == [st |-> "open", off |-> L, pos |-> L]
  <2>1. rec \in Download /\ rec.st = "open" /\ rec.off = L /\ rec.pos = L
    BY <1>3 DEF Download
  <2>2. dl' = [dl EXCEPT ![o] = rec]
    BY DEF L
  <2> HIDE DEF rec
  <2>3. QED
    BY <2>1, <2>2, Kept
<1>9. /\ part' \in [Names -> File] /\ part'[n] = f /\ \A x \in Names \ {n} : part'[x] = part[x]
      /\ part[n] \in File
  BY <1>0, <1>3 DEF Inv, Typed
<1>10. Typed'
  BY <1>1, <1>4, <1>5, <1>6, <1>7, <1>8, <1>9 DEF Inv, Typed, Received
<1>11. Disk'
  BY <1>3, <1>9 DEF Inv, Disk
<1>12. \A x \in Range(to["sender"]) \cup Range(to["receiver"]) : x.o \in Offers
  <2>1. \A x \in Range(to["sender"]) : x \in Request
    BY Kept DEF Range
  <2>2. \A x \in Range(to["receiver"]) : x \in Answer \cup Proposal
    BY Kept DEF Range
  <2>3. QED
    BY <2>1, <2>2 DEF Request, Answer, Proposal
<1>13. Offering'
  <2>1. Offering
    BY DEF Inv
  <2>2. \A x \in Range(to'["receiver"]) : x.id = NoReq => dl'[x.o].st = "none" /\ offer'[x.o] # "new"
    BY <1>4, <1>8, <1>12, <2>1 DEF Offering, Received
  <2>3. \A p \in Offers : offer'[p] = "new" => dl'[p].st = "none"
    BY <1>8, <2>1 DEF Offering
  <2>4. \A p \in Offers : dl'[p].st = "none" => dl'[p] = NoDownload /\ part'[p] = NoFile /\ final'[p] = NoFile
    <3>1. SUFFICES ASSUME NEW p \in Offers, dl'[p].st = "none"
                   PROVE  dl'[p] = NoDownload /\ part'[p] = NoFile /\ final'[p] = NoFile
      OBVIOUS
    <3>2. p # o /\ dl[p] = NoDownload /\ part[p] = NoFile /\ final[p] = NoFile
      BY <1>8, <2>1, <3>1 DEF Offering
    <3>3. n # p
      BY <1>0, <3>2, Constants, FilesAssumption DEF Target
    <3>4. QED
      BY <1>8, <1>9, <3>2, <3>3, Constants
  <2>5. QED
    BY <1>4, <2>2, <2>3, <2>4 DEF Offering, Received
<1>14. \A p \in Offers \ {o} : dl'[p].pos # NoFd => Target(p) \in Names \ {n}
  BY <1>0, <1>8, Constants DEF OneWriter
<1>15. Writing'
  <2>1. Writing
    BY DEF Inv
  <2>2. \A p \in Offers : dl'[p].off <= Size[FileOf[p]]
    BY <1>8, <2>1 DEF Writing, L
  <2>3. ASSUME NEW p \in Offers, dl'[p].pos # NoFd
        PROVE  /\ dl'[p].st = "open" /\ part'[Target(p)].there
               /\ dl'[p].off = dl'[p].pos /\ dl'[p].pos = Len(part'[Target(p)].data)
    <3>1. CASE p = o
      BY <1>0, <1>8, <1>9, <3>1 DEF L
    <3>2. CASE p # o
      BY <1>8, <1>9, <1>14, <2>1, <2>3, <3>2 DEF Writing
    <3>3. QED
      BY <3>1, <3>2
  <2>4. ASSUME NEW p \in Offers, NEW q \in Offers, dl'[p].pos # NoFd, dl'[q].pos # NoFd, Target(p) = Target(q)
        PROVE  p = q
    BY <1>0, <1>8, <1>14, <2>1, <2>4 DEF Writing
  <2>5. QED
    BY <2>2, <2>3, <2>4 DEF Writing, Target
<1>16. \A r \in pending' : r = new \/ (r \in pending /\ r.o \in Offers /\ Target(r.o) \in Names \ {n})
  <2>1. \A r \in pending : r.o \in Offers
    BY DEF Inv, Typed
  <2>2. QED
    BY <1>0, <1>1, <2>1, Constants
<1>17. new.o = o /\ new.id = id
  BY DEF new
<1>18. Waiting'
  <2>1. Waiting
    BY DEF Inv
  <2>2. ASSUME NEW r \in pending' PROVE part'[Target(r.o)].there /\ dl'[r.o].st # "none"
    BY <1>0, <1>8, <1>9, <1>16, <1>17, <2>1 DEF Waiting
  <2>3. ASSUME NEW r \in pending', NEW s \in pending', Target(r.o) = Target(s.o) PROVE r = s
    BY <1>0, <1>16, <1>17, <2>1, <2>3 DEF Waiting
  <2>4. ASSUME NEW r \in pending', NEW p \in Offers, dl'[p].pos # NoFd, Target(p) = Target(r.o) PROVE p = r.o
    BY <1>0, <1>8, <1>14, <1>16, <1>17, <2>1, <2>4 DEF Waiting
  <2>5. QED
    BY <2>2, <2>3, <2>4 DEF Waiting, Target
<1>19. \A x \in Range(to["sender"]) \cup Range(to["receiver"]) :
         [o |-> x.o, id |-> x.id] \in pending' => [o |-> x.o, id |-> x.id] \in pending /\ Target(x.o) \in Names \ {n}
  <2>1. SUFFICES ASSUME NEW x \in Range(to["sender"]) \cup Range(to["receiver"]), [o |-> x.o, id |-> x.id] \in pending'
                 PROVE  [o |-> x.o, id |-> x.id] \in pending /\ Target(x.o) \in Names \ {n}
    OBVIOUS
  <2>2. [o |-> x.o, id |-> x.id] # new
    BY <1>2, <1>17
  <2>3. QED
    BY <1>16, <2>1, <2>2
<1>20. Orders'
  <2>1. SUFFICES ASSUME NEW x \in Range(to'["sender"])
                 PROVE  /\ x.size = 0 => Full(Target(x.o))'
                        /\ [o |-> x.o, id |-> x.id] \in pending' =>
                             /\ x.off = Len(part'[Target(x.o)].data)
                             /\ x.size = 0 => Len(part'[Target(x.o)].data) = Size[FileOf[x.o]]
    BY DEF Orders, Target
  <2>2. CASE x = req
    <3>1. x.o = o /\ x.off = L /\ x.size = size /\ part'[Target(x.o)] = f
      BY <1>0, <1>9, <2>2 DEF req
    <3>2. size = 0 => Full(n)'
      BY <1>3, <1>9, Wholly DEF Full, L
    <3>3. QED
      BY <1>0, <3>1, <3>2 DEF L, Full, Target
  <2>3. CASE x \in Range(to["sender"])
    <3>1. /\ x.size = 0 => Full(Target(x.o))
          /\ [o |-> x.o, id |-> x.id] \in pending =>
               /\ x.off = Len(part[Target(x.o)].data)
               /\ x.size = 0 => Len(part[Target(x.o)].data) = Size[FileOf[x.o]]
      BY <2>3 DEF Inv, Orders
    <3>2. ASSUME x.size = 0 PROVE Full(Target(x.o))'
      <4>1. CASE Target(x.o) # n
        <5>1. Target(x.o) \in Names \ {n}
          BY <1>12, <2>3, <4>1, Constants
        <5>2. part'[Target(x.o)] = part[Target(x.o)] /\ final' = final
          BY <1>9, <5>1
        <5>3. QED
          BY <3>1, <3>2, <5>2 DEF Full, Target
      <4>2. CASE Target(x.o) = n
        <5>1. Full(n)
          BY <3>1, <3>2, <4>2
        <5>2. part[n].data \in Seq(Nat) /\ f.data \in Seq(Nat)
          BY <1>9 DEF File
        <5>3. Full(n)'
          <6>1. /\ Disk /\ Len(part[n].data) <= Len(part'[n].data) /\ Len(part'[n].data) <= Size[Source(n)]
                /\ part'[n].data = Blocks(Len(part'[n].data)) /\ final'[n] = final[n]
            BY <1>0, <1>3, <1>9 DEF Inv
          <6>2. QED
            BY <1>3, <1>9, <5>1, <5>2, <6>1, StaysFull
        <5>4. QED
          BY <1>0, <4>2, <5>3 DEF Full, Target
      <4>3. QED
        BY <4>1, <4>2
    <3>3. [o |-> x.o, id |-> x.id] \in pending' => part'[Target(x.o)] = part[Target(x.o)]
      BY <1>9, <1>19, <2>3
    <3>4. QED
      BY <1>19, <2>3, <3>1, <3>2, <3>3
  <2>4. QED
    BY <1>6, <2>2, <2>3
<1>21. Answers'
  <2>1. SUFFICES ASSUME NEW x \in Range(to'["receiver"]), [o |-> x.o, id |-> x.id] \in pending'
                 PROVE  Continues(x, x.data)'
    BY DEF Answers, Continues, Target
  <2>2. x \in Range(to["receiver"])
    BY <1>4, <2>1 DEF Received
  <2>3. part'[Target(x.o)] = part[Target(x.o)] /\ [o |-> x.o, id |-> x.id] \in pending
    BY <1>9, <1>19, <2>1, <2>2
  <2>4. Continues(x, x.data)
    BY <2>2, <2>3 DEF Inv, Answers, Continues
  <2>5. QED
    BY <2>3, <2>4 DEF Continues, Target
<1>22. QED
  BY <1>10, <1>11, <1>13, <1>15, <1>18, <1>20, <1>21 DEF Inv

LEMMA DownloadWith ==
  ASSUME NEW d \in Download, NEW a \in Nat, NEW b \in Nat
  PROVE  [d EXCEPT !.off = a, !.pos = b] = [st |-> d.st, off |-> a, pos |-> b]
<1> DEFINE e == [d EXCEPT !.off = a, !.pos = b]
<1>1. e \in Download /\ e.st = d.st /\ e.off = a /\ e.pos = b
  BY DEF Download
<1>2. e = [st |-> e.st, off |-> e.off, pos |-> e.pos]
  <2> HIDE DEF e
  <2> QED BY <1>1 DEF Download
<1>3. QED
  BY <1>1, <1>2

LEMMA FileWith ==
  ASSUME NEW g \in File
  PROVE  [g EXCEPT !.there = TRUE] = [there |-> TRUE, data |-> g.data]
<1> DEFINE e == [g EXCEPT !.there = TRUE]
<1>1. e \in File /\ e.data = g.data
  BY DEF File
<1>2. e.there
  BY DEF File
<1>3. e = [there |-> TRUE, data |-> g.data]
  <2> HIDE DEF e
  <2>1. e = [there |-> e.there, data |-> e.data] /\ e.there = TRUE
    BY <1>1, <1>2 DEF File
  <2>2. QED
    BY <1>1, <2>1
<1>4. QED
  BY <1>3

(* What the user sees to is needed here, and nowhere else.                  *)
LEMMA Accepting ==
  ASSUME Inv, UNCHANGED no_clobber, NEW o \in Offers, Accept(o), CareTaken(o) PROVE Inv'
<1>1. /\ dl[o].st = "open" /\ UNCHANGED <<offer, final, up, faults>>
      /\ dl' = [dl EXCEPT ![o] = Opened(o)] /\ part' = [part EXCEPT ![Target(o)].there = TRUE]
      /\ Ask(o, Opened(o).off, Least(Size[FileOf[o]], Chunk), {}, to["receiver"])
  BY DEF Accept
<1>2. PICK n \in Names : n = Target(o) /\ Source(n) = FileOf[o]
  BY Constants
<1> DEFINE f == [there |-> TRUE, data |-> part[n].data]
           L == Len(f.data)
           size == Least(Size[FileOf[o]], Chunk)
<1>3. /\ part \in [Names -> File] /\ part[n] \in File /\ part[n].data \in Seq(Nat)
      /\ part[n].data = Blocks(Len(part[n].data)) /\ Len(part[n].data) <= Size[FileOf[o]]
      /\ ~part[n].there => part[n].data = <<>>
  BY <1>2 DEF Inv, Typed, Disk, File
<1>4. /\ f \in File /\ f.there /\ f.data = part[n].data /\ f.data = Blocks(Len(f.data)) /\ L \in Nat
      /\ Len(part[n].data) <= Len(f.data) /\ Len(f.data) <= Size[FileOf[o]]
  BY <1>3 DEF File
<1>5. part' = [part EXCEPT ![Target(o)] = f]
  <2>1. [part[n] EXCEPT !.there = TRUE] = f
    BY <1>3, FileWith
  <2>2. part' = [part EXCEPT ![n] = [part[n] EXCEPT !.there = TRUE]]
    BY <1>1, <1>2, <1>3
  <2> HIDE DEF f
  <2>3. QED
    BY <1>2, <2>1, <2>2
<1>6. Opened(o) = [st |-> "open", off |-> L, pos |-> L]
  <2>1. dl[o] \in Download /\ dl[o].st = "open"
    BY <1>1, Kept
  <2>2. dl[o] = [st |-> "open", off |-> dl[o].off, pos |-> dl[o].pos] /\ dl[o].off \in Nat
    BY <2>1 DEF Download
  <2>3. CASE dl[o].pos # NoFd
    <3>1. dl[o].off = dl[o].pos /\ dl[o].pos = L
      BY <1>2, <1>4, <2>3 DEF Inv, Writing
    <3>2. Opened(o) = dl[o]
      BY <2>3 DEF Opened
    <3>3. QED
      BY <2>2, <3>1, <3>2
  <2>4. CASE dl[o].pos = NoFd /\ part[n].there
    <3>1. Opened(o) = [dl[o] EXCEPT !.off = L, !.pos = L]
      BY <1>2, <1>4, <2>4 DEF Opened
    <3>2. QED
      BY <2>1, <3>1 DEF Download
  <2>5. CASE dl[o].pos = NoFd /\ ~part[n].there
    <3>1. Opened(o) = [dl[o] EXCEPT !.pos = 0] /\ dl[o].off = 0 /\ L = 0
      <4>1. ~(dl[o].off > 0)
        BY <1>2, <2>5 DEF CareTaken
      <4>2. Opened(o) = [dl[o] EXCEPT !.pos = 0]
        BY <1>2, <2>5 DEF Opened
      <4>3. QED
        BY <1>3, <1>4, <2>2, <2>5, <4>1, <4>2
    <3>2. QED
      BY <2>1, <3>1 DEF Download
  <2>6. QED
    BY <2>3, <2>4, <2>5
<1>7. Received(to["receiver"])
  BY Kept DEF Received, Inv, Offering
<1>8. size \in Nat /\ size # 0
  BY FilesAssumption DEF Least
<1>9. OneWriter(o) /\ \A r \in pending \ {} : Target(r.o) # Target(o)
  BY DEF CareTaken
<1>10. Ask(o, L, size, {}, to["receiver"])
  <2>1. Opened(o).off = L
    BY <1>6
  <2>2. QED
    BY <1>1, <2>1
<1>11. dl' = [dl EXCEPT ![o] = [st |-> "open", off |-> L, pos |-> L]]
  BY <1>1, <1>6
<1> HIDE DEF f, size
<1>12. QED
  BY <1>1, <1>2, <1>4, <1>5, <1>7, <1>8, <1>9, <1>10, <1>11, Asking

(* The answer m is the one that is waited for: it continues the part file,  *)
(* which is there, and no other request or download has that name.          *)
LEMMA WantedIs ==
  ASSUME Inv, NEW m \in Inbox("receiver"), Wanted(m)
  PROVE  /\ m.o \in Offers /\ dl[m.o].st = "open" /\ [o |-> m.o, id |-> m.id] \in pending
         /\ m \in Range(to["receiver"]) /\ m.data \in Seq(Nat)
         /\ Settled(m) = {[o |-> m.o, id |-> m.id]}
         /\ part[Target(m.o)].there /\ Continues(m, m.data)
         /\ \A r \in pending \ Settled(m) : Target(r.o) # Target(m.o)
         /\ OneWriter(m.o)
<1>1. m \in Range(to["receiver"]) /\ m \in Answer \cup Proposal
  BY InboxOf, PeersAre
<1>2. m.o \in Offers /\ m.data \in Seq(Nat) /\ dl[m.o].st = "open" /\ Settled(m) # {}
  BY <1>1 DEF Wanted, Answer, Proposal
<1>3. \A r \in pending : r = [o |-> r.o, id |-> r.id]
  BY DEF Inv, Typed
<1>4. Settled(m) = {[o |-> m.o, id |-> m.id]} /\ [o |-> m.o, id |-> m.id] \in pending
  BY <1>2, <1>3 DEF Settled
<1> DEFINE p == [o |-> m.o, id |-> m.id]
<1>5. p \in pending /\ p.o = m.o
  BY <1>4
<1>6. part[Target(m.o)].there
  <2> HIDE DEF p
  <2> QED BY <1>5 DEF Inv, Waiting
<1>7. Continues(m, m.data)
  BY <1>1, <1>4 DEF Inv, Answers, Continues
<1>8. \A r \in pending \ Settled(m) : Target(r.o) # Target(m.o)
  <2>1. Settled(m) = {p}
    BY <1>4
  <2> HIDE DEF p
  <2> QED BY <1>5, <2>1 DEF Inv, Waiting
<1>9. OneWriter(m.o)
  <2> HIDE DEF p
  <2> QED BY <1>5 DEF Inv, Waiting, OneWriter
<1>10. QED
  BY <1>1, <1>2, <1>4, <1>6, <1>7, <1>8, <1>9

(* Data that continue a part file make a longer one of the same kind.       *)
LEMMA Appended ==
  ASSUME NEW s \in Seq(Nat), s = Blocks(Len(s)), NEW d \in Seq(Nat),
         d = [i \in 1 .. Len(d) |-> Len(s) + i]
  PROVE  /\ Overwritten(s, Len(s), d) \in Seq(Nat)
         /\ Len(Overwritten(s, Len(s), d)) = Len(s) + Len(d)
         /\ Overwritten(s, Len(s), d) = Blocks(Len(s) + Len(d))
<1> DEFINE L == Len(s)
           n == Len(d)
           t == Overwritten(s, L, d)
<1>1. L \in Nat /\ n \in Nat
  OBVIOUS
<1>2. t = [i \in 1 .. L + n |-> IF i \in L + 1 .. L + n THEN d[i - L] ELSE s[i]]
  <2>1. (IF L + n > L THEN L + n ELSE L) = L + n
    BY <1>1
  <2> HIDE DEF L, n
  <2>2. t = [i \in 1 .. (IF L + n > L THEN L + n ELSE L) |-> IF i \in L + 1 .. L + n THEN d[i - L] ELSE s[i]]
    BY DEF Overwritten, L, n
  <2>3. QED
    BY <2>1, <2>2
<1>3. ASSUME NEW i \in 1 .. L + n PROVE (IF i \in L + 1 .. L + n THEN d[i - L] ELSE s[i]) = i
  <2>1. CASE i \in L + 1 .. L + n
    <3>1. i - L \in 1 .. n
      BY <1>1, <2>1
    <3>2. d[i - L] = L + (i - L)
      BY <3>1
    <3>3. QED
      BY <1>1, <2>1, <3>2
  <2>2. CASE i \notin L + 1 .. L + n
    <3>1. i \in 1 .. L
      BY <1>1, <1>3, <2>2
    <3>2. s[i] = Blocks(L)[i]
      OBVIOUS
    <3>3. QED
      BY <2>2, <3>1, <3>2 DEF Blocks
  <2>3. QED
    BY <2>1, <2>2
<1>4. t = Blocks(L + n)
  <2> HIDE DEF L, n, t
  <2> QED BY <1>2, <1>3 DEF Blocks
<1>5. QED
  BY <1>1, <1>4, Wholly

LEMMA ReceivingData == ASSUME Inv, UNCHANGED no_clobber, DataWritten PROVE Inv' /\ Grown
<1>1. PICK m \in Inbox("receiver") :
        LET n == Len(m.data)
            off == dl[m.o].off + n IN
          /\ Wanted(m) /\ m.data # <<>> /\ Writable(m.o) /\ Write(m.o, m.data)
          /\ dl' = [dl EXCEPT ![m.o].off = off, ![m.o].pos = Position(m.o) + n]
          /\ Ask(m.o, off, NextSize(m.o, off), Settled(m), Tail(to["receiver"]))
  BY DEF DataWritten
<1>2. UNCHANGED <<offer, final, up, faults>>
  BY DEF DataWritten
<1>3. PICK o \in Offers : o = m.o
  BY <1>1, WantedIs
<1>4. PICK t \in Names : t = Target(o) /\ Source(t) = FileOf[o]
  BY Constants
<1>5. PICK d \in Seq(Nat) : d = m.data
  BY <1>1, WantedIs
<1>6. /\ part \in [Names -> File] /\ part[t] \in File /\ part[t].data \in Seq(Nat)
      /\ part[t].data = Blocks(Len(part[t].data)) /\ Len(part[t].data) <= Size[FileOf[o]]
  BY <1>4 DEF Inv, Typed, Disk, File
<1> DEFINE have == Len(part[t].data)
           L == have + Len(d)
           f == [there |-> TRUE, data |-> Blocks(L)]
           size == NextSize(o, L)
<1>7. /\ have \in Nat /\ Len(d) \in Nat /\ L \in Nat /\ L <= Size[FileOf[o]] /\ have <= L
      /\ d = [i \in 1 .. Len(d) |-> have + i]
      /\ Size[FileOf[o]] \in Nat
  <2>1. Continues(m, d)
    BY <1>1, <1>5, WantedIs
  <2>2. have + Len(d) <= Size[FileOf[o]] /\ d = [i \in 1 .. Len(d) |-> have + i]
    BY <1>3, <1>4, <2>1 DEF Continues
  <2>3. have \in Nat /\ Len(d) \in Nat /\ Size[FileOf[o]] \in Nat
    BY <1>6, FilesAssumption
  <2> HIDE DEF have
  <2>4. QED
    BY <2>2, <2>3
<1>8. f \in File /\ f.there /\ f.data = Blocks(Len(f.data)) /\ Len(f.data) = L
  <2> HIDE DEF L
  <2> QED BY <1>7, Wholly DEF File
<1>9. dl[o].pos = have /\ dl[o].off = have /\ Position(o) = have /\ dl[o].st = "open" /\ dl[o] \in Download
  <2>1. part[t].there /\ Writable(o) /\ dl[o].st = "open"
    BY <1>1, <1>3, <1>4, WantedIs
  <2>2. dl[o].pos # NoFd
    BY <1>4, <2>1 DEF Writable
  <2>3. dl[o].off = dl[o].pos /\ dl[o].pos = have
    BY <1>4, <2>2 DEF Inv, Writing
  <2>4. QED
    BY <2>1, <2>2, <2>3, Kept DEF Position
<1>10. part' = [part EXCEPT ![Target(o)] = f]
  <2>1. Overwritten(part[t].data, have, d) = Blocks(L)
    BY <1>6, <1>7, Appended
  <2>2. part' = [part EXCEPT ![t] = [there |-> TRUE, data |-> Overwritten(part[t].data, Position(o), d)]]
    BY <1>1, <1>3, <1>4, <1>5, <1>6 DEF Write
  <2> HIDE DEF have, L
  <2>3. QED
    BY <1>4, <1>9, <2>1, <2>2
<1>11. dl' = [dl EXCEPT ![o] = [st |-> "open", off |-> L, pos |-> L]]
  <2>1. dl' = [dl EXCEPT ![o] = [dl[o] EXCEPT !.off = dl[o].off + Len(d), !.pos = Position(o) + Len(d)]]
    BY <1>1, <1>3, <1>5, Kept
  <2>2. [dl[o] EXCEPT !.off = dl[o].off + Len(d), !.pos = Position(o) + Len(d)] = [st |-> "open", off |-> L, pos |-> L]
    <3>1. [dl[o] EXCEPT !.off = dl[o].off + Len(d), !.pos = Position(o) + Len(d)]
            = [st |-> dl[o].st, off |-> dl[o].off + Len(d), pos |-> Position(o) + Len(d)]
      BY <1>7, <1>9, DownloadWith
    <3>2. QED
      BY <1>9, <3>1
  <2>3. QED
    BY <2>1, <2>2
<1>12. Received(Tail(to["receiver"]))
  <2>1. to["receiver"] # <<>> /\ to["receiver"] \in Seq(Answer \cup Proposal) /\ Once(to["receiver"])
    BY InboxOf, PeersAre, Kept DEF Inv, Offering
  <2>2. QED
    BY <2>1, QueueTail DEF Received
<1>13. size \in Nat /\ (size = 0 => L = Size[FileOf[o]])
  <2> HIDE DEF L
  <2> QED BY <1>7, FilesAssumption DEF NextSize, Least
<1>14. Ask(o, L, size, Settled(m), Tail(to["receiver"]))
  <2>1. dl[m.o].off + Len(m.data) = L
    BY <1>3, <1>5, <1>9
  <2>2. QED
    BY <1>1, <1>3, <2>1
<1>15. OneWriter(o) /\ \A r \in pending \ Settled(m) : Target(r.o) # Target(o)
  BY <1>1, <1>3, WantedIs
<1>16. /\ Len(part[Target(o)].data) <= Len(f.data) /\ Len(f.data) <= Size[FileOf[o]]
       /\ dl' = [dl EXCEPT ![o] = [st |-> "open", off |-> Len(f.data), pos |-> Len(f.data)]]
       /\ size = 0 => Len(f.data) = Size[FileOf[o]]
       /\ Ask(o, Len(f.data), size, Settled(m), Tail(to["receiver"]))
  <2> HIDE DEF L, f, size
  <2> QED BY <1>4, <1>7, <1>8, <1>11, <1>13, <1>14 DEF have
<1>17. Grown
  <2>1. part[t].there
    BY <1>1, <1>3, <1>4, WantedIs
  <2> HIDE DEF L
  <2>2. QED
    BY <1>2, <1>4, <1>7, <1>10, <2>1 DEF Grown
<1> HIDE DEF f, size
<1>18. QED
  BY <1>2, <1>8, <1>9, <1>10, <1>12, <1>13, <1>15, <1>16, <1>17, Asking

-----------------------------------------------------------------------------
(* The end of a download. *)

(* The download is over, for f and g what is left on the disk: nobody else  *)
(* writes there or waits for more.                                          *)
LEMMA Ending ==
  ASSUME Inv, NEW m \in Inbox("receiver"), Wanted(m), Taken(m),
         UNCHANGED <<no_clobber, offer, up>>, faults' \in 0 .. MaxFaults,
         dl' = [dl EXCEPT ![m.o] = Invalid],
         NEW f \in File, f.there \/ f.data = <<>>,
         f.data = Blocks(Len(f.data)), Len(f.data) <= Size[FileOf[m.o]],
         NEW g \in {NoFile, EmptyFile, [there |-> TRUE, data |-> Content(FileOf[m.o])]},
         part' = [part EXCEPT ![Target(m.o)] = f], final' = [final EXCEPT ![Target(m.o)] = g],
         Full(Target(m.o)) => Content(FileOf[m.o]) \in {f.data, g.data}
  PROVE  Inv'
<1>1. PICK o \in Offers : o = m.o
  BY WantedIs
<1>2. PICK n \in Names : n = Target(o) /\ Source(n) = FileOf[o]
  BY Constants
<1>3. /\ dl[o].st = "open" /\ part[n].there
      /\ \A r \in pending \ Settled(m) : Target(r.o) # n
      /\ OneWriter(o)
  BY <1>1, <1>2, WantedIs
<1>4. pending' = pending \ Settled(m) /\ to' = [to EXCEPT !["receiver"] = Tail(@)]
  BY DEF Taken
<1>5. LessMail /\ to'["sender"] = to["sender"] /\ to'["receiver"] = Tail(to["receiver"])
  BY <1>4, InboxOf, MailTail, PeersAre, Kept
<1>6. /\ dl' \in [Offers -> Download] /\ dl'[o].st = "closed" /\ dl'[o].off = 0 /\ dl'[o].pos = NoFd
      /\ \A p \in Offers \ {o} : dl'[p] = dl[p]
  <2>1. Invalid \in Download /\ Invalid.st = "closed" /\ Invalid.off = 0 /\ Invalid.pos = NoFd
    BY Constants DEF Download, NoFd
  <2>2. QED
    BY <1>1, <2>1, Kept
<1>7. g \in File
  <2>1. PICK k \in Nat : Content(FileOf[o]) = Blocks(k)
    BY <1>2, Wholly, Constants
  <2>2. [there |-> TRUE, data |-> Content(FileOf[o])] \in File
    BY <2>1, Wholly DEF File
  <2>3. QED
    BY <1>1, <2>2, Constants
<1>8. /\ part' \in [Names -> File] /\ final' \in [Names -> File]
      /\ part'[n] = f /\ final'[n] = g
      /\ \A x \in Names \ {n} : part'[x] = part[x] /\ final'[x] = final[x]
  BY <1>1, <1>2, <1>7 DEF Inv, Typed
<1>9. Typed'
  BY <1>4, <1>5, <1>6, <1>8 DEF Inv, Typed, LessMail
<1>10. Disk'
  BY <1>1, <1>2, <1>8 DEF Inv, Disk
<1>11. /\ \A x \in Range(to["sender"]) \cup Range(to["receiver"]) : x.o \in Offers
       /\ \A r \in pending : r.o \in Offers
  <2>1. \A x \in Range(to["sender"]) : x \in Request
    BY Kept DEF Range
  <2>2. \A x \in Range(to["receiver"]) : x \in Answer \cup Proposal
    BY Kept DEF Range
  <2>3. \A r \in pending : r \in [o : Offers, id : ReqIds]
    BY DEF Inv, Typed
  <2>4. QED
    BY <2>1, <2>2, <2>3 DEF Request, Answer, Proposal
<1>12. Offering'
  <2>1. Offering
    BY DEF Inv
  <2>2. \A x \in Range(to'["receiver"]) : x.id = NoReq => dl'[x.o].st = "none" /\ offer'[x.o] # "new"
    BY <1>3, <1>5, <1>6, <1>11, <2>1 DEF Offering, LessMail
  <2>3. \A p \in Offers : offer'[p] = "new" => dl'[p].st = "none"
    BY <1>3, <1>6, <2>1 DEF Offering
  <2>4. ASSUME NEW p \in Offers, dl'[p].st = "none"
        PROVE  dl'[p] = NoDownload /\ part'[p] = NoFile /\ final'[p] = NoFile
    <3>1. p # o /\ dl[p].st = "none"
      BY <1>6, <2>4
    <3>2. dl[p] = NoDownload /\ part[p] = NoFile /\ final[p] = NoFile
      BY <2>1, <3>1 DEF Offering
    <3>3. p # n /\ p \in Names
      BY <1>2, <3>1, Constants, FilesAssumption DEF Target
    <3>4. QED
      BY <1>6, <1>8, <3>1, <3>2, <3>3
  <2>5. QED
    BY <1>5, <2>2, <2>3, <2>4 DEF Offering, LessMail
<1>13. \A p \in Offers : dl'[p].pos # NoFd => p # o /\ Target(p) \in Names \ {n}
  BY <1>1, <1>2, <1>3, <1>6, Constants DEF OneWriter
<1>14. Writing'
  <2>1. Writing
    BY DEF Inv
  <2>2. \A p \in Offers : dl'[p].off <= Size[FileOf[p]]
    <3>1. Size[FileOf[o]] \in Nat
      BY FilesAssumption
    <3>2. QED
      BY <1>6, <2>1, <3>1 DEF Writing
  <2>3. ASSUME NEW p \in Offers, dl'[p].pos # NoFd
        PROVE  /\ dl'[p].st = "open" /\ part'[Target(p)].there
               /\ dl'[p].off = dl'[p].pos /\ dl'[p].pos = Len(part'[Target(p)].data)
    BY <1>6, <1>8, <1>13, <2>1, <2>3 DEF Writing
  <2>4. ASSUME NEW p \in Offers, NEW q \in Offers, dl'[p].pos # NoFd, dl'[q].pos # NoFd, Target(p) = Target(q)
        PROVE  p = q
    BY <1>6, <1>13, <2>1, <2>4 DEF Writing
  <2>5. QED
    BY <2>2, <2>3, <2>4 DEF Writing, Target
<1>15. \A r \in pending' : r \in pending /\ r.o \in Offers /\ Target(r.o) \in Names \ {n}
  BY <1>3, <1>4, <1>11, Constants
<1>16. Waiting'
  <2>1. Waiting
    BY DEF Inv
  <2>2. ASSUME NEW r \in pending' PROVE part'[Target(r.o)].there /\ dl'[r.o].st # "none"
    BY <1>6, <1>8, <1>15, <2>1 DEF Waiting
  <2>3. ASSUME NEW r \in pending', NEW s \in pending', Target(r.o) = Target(s.o) PROVE r = s
    BY <1>15, <2>1, <2>3 DEF Waiting
  <2>4. ASSUME NEW r \in pending', NEW p \in Offers, dl'[p].pos # NoFd, Target(p) = Target(r.o) PROVE p = r.o
    BY <1>6, <1>13, <1>15, <2>1, <2>4 DEF Waiting
  <2>5. QED
    BY <2>2, <2>3, <2>4 DEF Waiting, Target
<1>17. Orders'
  <2>1. SUFFICES ASSUME NEW x \in Range(to["sender"])
                 PROVE  /\ x.size = 0 => Full(Target(x.o))'
                        /\ [o |-> x.o, id |-> x.id] \in pending' =>
                             /\ x.off = Len(part'[Target(x.o)].data)
                             /\ x.size = 0 => Len(part'[Target(x.o)].data) = Size[FileOf[x.o]]
    BY <1>5 DEF Orders, Target
  <2>2. /\ x.size = 0 => Full(Target(x.o))
        /\ [o |-> x.o, id |-> x.id] \in pending =>
             /\ x.off = Len(part[Target(x.o)].data)
             /\ x.size = 0 => Len(part[Target(x.o)].data) = Size[FileOf[x.o]]
    BY DEF Inv, Orders
  <2>3. CASE Target(x.o) = n
    <3>1. Full(n) => Full(n)'
      BY <1>1, <1>2, <1>8 DEF Full
    <3>2. [o |-> x.o, id |-> x.id] \notin pending'
      BY <1>15, <2>3
    <3>3. QED
      BY <2>2, <2>3, <3>1, <3>2 DEF Full, Target
  <2>4. CASE Target(x.o) # n
    <3>1. part'[Target(x.o)] = part[Target(x.o)] /\ final'[Target(x.o)] = final[Target(x.o)]
      BY <1>8, <1>11, <2>4, Constants
    <3>2. [o |-> x.o, id |-> x.id] \in pending' => [o |-> x.o, id |-> x.id] \in pending
      BY <1>15
    <3>3. QED
      BY <2>2, <3>1, <3>2 DEF Full, Target
  <2>5. QED
    BY <2>3, <2>4
<1>18. Answers'
  <2>1. SUFFICES ASSUME NEW x \in Range(to'["receiver"]), [o |-> x.o, id |-> x.id] \in pending'
                 PROVE  Continues(x, x.data)'
    BY DEF Answers, Continues, Target
  <2>2. x \in Range(to["receiver"])
    BY <1>5 DEF LessMail
  <2>3. part'[Target(x.o)] = part[Target(x.o)] /\ [o |-> x.o, id |-> x.id] \in pending
    BY <1>8, <1>15, <2>1
  <2>4. Continues(x, x.data)
    BY <2>2, <2>3 DEF Inv, Answers, Continues
  <2>5. QED
    BY <2>3, <2>4 DEF Continues, Target
<1>19. QED
  BY <1>9, <1>10, <1>12, <1>14, <1>16, <1>17, <1>18 DEF Inv

(* The part file that is renamed is complete.                               *)
LEMMA Completed ==
  ASSUME Inv, NEW m \in Inbox("receiver"), Wanted(m), m.data = <<>>
  PROVE  part[Target(m.o)] = [there |-> TRUE, data |-> Content(FileOf[m.o])]
<1>1. PICK n \in Names : n = Target(m.o) /\ Source(n) = FileOf[m.o]
  BY WantedIs, Constants
<1>2. part[n].there /\ Len(part[n].data) = Size[FileOf[m.o]]
  BY <1>1, WantedIs DEF Continues
<1>3. part[n].data = Content(FileOf[m.o])
  BY <1>1, <1>2, Wholly DEF Inv, Disk
<1>4. part[n] \in File
  BY DEF Inv, Typed
<1>5. part[n] = [there |-> TRUE, data |-> part[n].data]
  <2>1. part[n] = [there |-> part[n].there, data |-> part[n].data] /\ part[n].there = TRUE
    BY <1>2, <1>4 DEF File
  <2>2. QED
    BY <2>1
<1>6. QED
  BY <1>1, <1>3, <1>5

LEMMA ReceivingEnd == ASSUME Inv, UNCHANGED no_clobber, DownloadFinished PROVE Inv'
<1>1. PICK m \in Inbox("receiver") :
        LET n == Target(m.o) IN
          /\ Wanted(m) /\ m.data = <<>> /\ dl' = [dl EXCEPT ![m.o] = Invalid]
          /\ IF part[n].there
               THEN final' = [final EXCEPT ![n] = part[n]] /\ part' = [part EXCEPT ![n] = NoFile]
               ELSE UNCHANGED files
          /\ Taken(m)
  BY DEF DownloadFinished
<1>2. UNCHANGED <<offer, up, faults>> /\ faults' \in 0 .. MaxFaults
  BY Kept DEF DownloadFinished
<1> DEFINE g == [there |-> TRUE, data |-> Content(FileOf[m.o])]
<1>3. part[Target(m.o)] = g /\ part[Target(m.o)].there
  BY <1>1, Completed
<1>4. final' = [final EXCEPT ![Target(m.o)] = g] /\ part' = [part EXCEPT ![Target(m.o)] = NoFile]
  BY <1>1, <1>3
<1>5. /\ NoFile \in File /\ NoFile.data = <<>> /\ NoFile.data = Blocks(Len(NoFile.data))
      /\ Len(NoFile.data) <= Size[FileOf[m.o]]
  <2>1. m.o \in Offers /\ NoFile.data = <<>> /\ Len(<<>>) = 0
    BY <1>1, WantedIs DEF NoFile
  <2>2. QED
    BY <2>1, Constants, FilesAssumption DEF Blocks
<1>6. g.data = Content(FileOf[m.o])
  OBVIOUS
<1> HIDE DEF g
<1>7. g \in {NoFile, EmptyFile, [there |-> TRUE, data |-> Content(FileOf[m.o])]}
  BY DEF g
<1>8. QED
  BY <1>1, <1>2, <1>4, <1>5, <1>6, <1>7, Ending

LEMMA FailingWrite == ASSUME Inv, UNCHANGED no_clobber, WriteFails PROVE Inv' /\ Grown
<1>1. PICK m \in Inbox("receiver") :
        /\ Wanted(m) /\ Writable(m.o)
        /\ \E k \in 0 .. Len(m.data) - 1 : Write(m.o, SubSeq(m.data, 1, k))
        /\ dl' = [dl EXCEPT ![m.o] = Invalid] /\ Taken(m)
  BY DEF WriteFails
<1>0. PICK k \in 0 .. Len(m.data) - 1 : Write(m.o, SubSeq(m.data, 1, k))
  BY <1>1
<1>2. UNCHANGED <<offer, up, final>> /\ faults' \in 0 .. MaxFaults
  BY MishapTyped DEF WriteFails
<1>3. PICK t \in Names : t = Target(m.o) /\ Source(t) = FileOf[m.o] /\ m.o \in Offers
  BY <1>1, WantedIs, Constants
<1>4. /\ part \in [Names -> File] /\ part[t] \in File /\ part[t].data \in Seq(Nat)
      /\ part[t].data = Blocks(Len(part[t].data)) /\ Len(part[t].data) <= Size[FileOf[m.o]]
      /\ final \in [Names -> File] /\ final[t] \in {NoFile, EmptyFile, [there |-> TRUE, data |-> Content(FileOf[m.o])]}
  BY <1>3 DEF Inv, Typed, Disk, File
<1> DEFINE have == Len(part[t].data)
           d == SubSeq(m.data, 1, k)
           f == [there |-> TRUE, data |-> Blocks(have + k)]
<1>5. /\ have \in Nat /\ have + Len(m.data) <= Size[FileOf[m.o]] /\ Size[FileOf[m.o]] \in Nat
      /\ m.data \in Seq(Nat) /\ m.data = [i \in 1 .. Len(m.data) |-> have + i]
  <2>1. Continues(m, m.data) /\ m.data \in Seq(Nat)
    BY <1>1, WantedIs
  <2>2. have + Len(m.data) <= Size[FileOf[m.o]] /\ m.data = [i \in 1 .. Len(m.data) |-> have + i]
    BY <1>3, <2>1 DEF Continues
  <2>3. have \in Nat /\ Size[FileOf[m.o]] \in Nat
    BY <1>3, <1>4, FilesAssumption
  <2> HIDE DEF have
  <2>4. QED
    BY <2>1, <2>2, <2>3
<1>6. d \in Seq(Nat) /\ Len(d) = k /\ d = [i \in 1 .. Len(d) |-> have + i]
  <2> HIDE DEF have
  <2>1. Len(m.data) \in Nat /\ k <= Len(m.data) /\ k \in Nat
    BY <1>1, <1>5
  <2>2. d \in Seq(Nat) /\ Len(d) = k /\ \A i \in 1 .. k : d[i] = m.data[i]
    BY <1>5, <2>1
  <2>3. \A i \in 1 .. k : m.data[i] = have + i
    BY <1>5, <2>1
  <2>4. d = [i \in 1 .. k |-> d[i]]
    BY <2>2
  <2> HIDE DEF d
  <2>5. QED
    BY <2>2, <2>3, <2>4
<1>7. dl[m.o].pos = have /\ Position(m.o) = have
  <2>1. dl[m.o].pos # NoFd
    BY <1>1, <1>3, WantedIs DEF Writable
  <2>2. QED
    BY <1>3, <2>1 DEF Inv, Writing, Position
<1>8. part' = [part EXCEPT ![Target(m.o)] = f]
  <2>1. Overwritten(part[t].data, have, d) = Blocks(have + Len(d))
    BY <1>4, <1>6, Appended
  <2>2. part' = [part EXCEPT ![t] = [there |-> TRUE, data |-> Overwritten(part[t].data, Position(m.o), d)]]
    BY <1>0, <1>3, <1>4 DEF Write
  <2> HIDE DEF have, d
  <2>3. QED
    BY <1>3, <1>6, <1>7, <2>1, <2>2
<1>9. have + k \in Nat /\ have + k <= Size[FileOf[m.o]] /\ have <= have + k
  <2> HIDE DEF have
  <2>1. Len(m.data) \in Nat /\ k <= Len(m.data) /\ k \in Nat
    BY <1>1, <1>5
  <2>2. QED
    BY <1>5, <2>1
<1>10. f \in File /\ f.there /\ Len(f.data) = have + k /\ f.data = Blocks(Len(f.data))
  <2> HIDE DEF have
  <2> QED BY <1>9, Wholly DEF File
<1>11. PICK g \in File : g = final[t]
  BY <1>4
<1>12. /\ g \in {NoFile, EmptyFile, [there |-> TRUE, data |-> Content(FileOf[m.o])]}
       /\ final' = [final EXCEPT ![Target(m.o)] = g]
  BY <1>2, <1>3, <1>4, <1>11
<1>13. Full(Target(m.o)) => Content(FileOf[m.o]) \in {f.data, g.data}
  <2>1. ASSUME Content(FileOf[m.o]) = part[t].data PROVE Content(FileOf[m.o]) = f.data
    <3>1. have = Size[FileOf[m.o]]
      BY <1>3, <1>5, <2>1, Wholly
    <3>2. have + k = have
      BY <1>5, <1>9, <3>1
    <3>3. QED
      BY <1>4, <2>1, <3>2
  <2>2. QED
    BY <1>3, <1>11, <2>1 DEF Full
<1>14. Grown
  <2>1. part[t].there
    BY <1>1, <1>3, WantedIs
  <2> HIDE DEF have
  <2>2. Len(part[t].data) <= have + k
    BY <1>9 DEF have
  <2>3. QED
    BY <1>2, <1>3, <1>8, <1>9, <2>1, <2>2 DEF Grown
<1> HIDE DEF f
<1>15. QED
  BY <1>1, <1>2, <1>9, <1>8, <1>10, <1>12, <1>13, <1>14, Ending

-----------------------------------------------------------------------------
LEMMA Step == ASSUME Careful, Inv, [Next]_vars PROVE Inv'
<1>1. CASE UNCHANGED vars
  <2>1. UNCHANGED <<no_clobber, offer, dl, part, final, to, up, pending, faults>>
    BY <1>1 DEF vars, files
  <2>2. LessMail
    BY <2>1, MailKept
  <2>3. QED
    BY <2>1, <2>2, Kept, Fewer
<1>2. ASSUME UNCHANGED no_clobber, NEW o \in Offers, Accept(o) PROVE Inv'
  <2>1. CareTaken(o)
    BY <1>2 DEF Accept
  <2>2. QED
    BY <1>2, <2>1, Accepting
<1>3. CASE Sending
  BY <1>3, Quietly, Serving, Finishing DEF Sending, Quiet
<1>4. CASE Receiving
  BY <1>4, Quietly, ReceivingOffer, ReceivingData, ReceivingEnd DEF Receiving, Quiet
<1>5. CASE UNCHANGED no_clobber /\ Failing
  BY <1>5, Quietly, FailingWrite DEF Failing, Quiet
<1>6. CASE UNCHANGED no_clobber /\ Linking
  BY <1>6, Quietly DEF Linking, Quiet
<1>7. CASE UNCHANGED no_clobber /\ Users
  BY <1>2, <1>7, Making DEF Users
<1>8. QED
  BY <1>1, <1>3, <1>4, <1>5, <1>6, <1>7 DEF Next

(* Inv is inductive: all of what the other theorems rest on, for any loss,  *)
(* refusal, time-out and restart of the clients and the relay between them. *)
THEOREM Invariance == Careful => (Spec => []Inv)
<1> SUFFICES ASSUME Careful PROVE Spec => []Inv
  OBVIOUS
<1>1. Inv /\ [Next]_vars => Inv'
  BY Step
<1>2. QED
  BY <1>1, Initially, PTL DEF Spec

(* The types, and that no download asks for more than there is of the file. *)
THEOREM TypeCorrect == Careful => (Spec => []TypeOK)
<1> SUFFICES ASSUME Careful PROVE Spec => []TypeOK
  OBVIOUS
<1>1. Inv => TypeOK
  BY DEF Inv, Typed, Writing, TypeOK
<1>2. QED
  BY <1>1, Invariance, PTL

(* download_write appends, and getfile_req asks for what comes next.        *)
THEOREM InOrder == Careful => (Spec => []AppendsInOrder)
<1> SUFFICES ASSUME Careful PROVE Spec => []AppendsInOrder
  OBVIOUS
<1>1. Inv => AppendsInOrder
  <2> SUFFICES ASSUME Inv, NEW o \in Offers, dl[o].pos # NoFd
               PROVE  /\ dl[o].pos = Len(part[Target(o)].data)
                      /\ \A r \in Range(to["sender"]) : r.o = o /\ Settled(r) # {} => r.off = dl[o].pos
    BY DEF AppendsInOrder
  <2>1. dl[o].pos = Len(part[Target(o)].data)
    BY DEF Inv, Writing
  <2>2. ASSUME NEW r \in Range(to["sender"]), r.o = o, Settled(r) # {} PROVE r.off = dl[o].pos
    <3>1. \A s \in pending : s = [o |-> s.o, id |-> s.id]
      BY DEF Inv, Typed
    <3>2. [o |-> r.o, id |-> r.id] \in pending
      BY <2>2, <3>1 DEF Settled
    <3>3. QED
      BY <2>1, <2>2, <3>2 DEF Inv, Orders
  <2>3. QED
    BY <2>1, <2>2
<1>2. QED
  BY <1>1, Invariance, PTL

(* The offset a download keeps is the position in its part file, if that is *)
(* open. Without CareTaken that is false.                                   *)
THEOREM OffsetKept == Careful => (Spec => []OffsetIsPosition)
<1> SUFFICES ASSUME Careful PROVE Spec => []OffsetIsPosition
  OBVIOUS
<1>1. Inv => OffsetIsPosition
  BY DEF Inv, Writing, OffsetIsPosition
<1>2. QED
  BY <1>1, Invariance, PTL

-----------------------------------------------------------------------------
Finished ==
  \A o \in Offers :
    offer[o] = "open" /\ offer'[o] = "closed" /\ faults' = faults =>
      Content(FileOf[o]) \in {part[Target(o)].data, final[Target(o)].data}

(* The sender's offer is closed by the request for no more data, and that   *)
(* is sent when the receiver has all of the file, on the disk.              *)
THEOREM FinishedIsReceived == Careful => (Spec => FinishedMeansReceived)
<1> SUFFICES ASSUME Careful PROVE Spec => FinishedMeansReceived
  OBVIOUS
<1>1. ASSUME Inv, Next PROVE Finished
  <2>1. SUFFICES ASSUME NEW o \in Offers, offer[o] = "open", offer'[o] = "closed", faults' = faults
                 PROVE  Full(Target(o))
    BY Constants DEF Finished, Full
  <2>2. ~Mishap
    BY <1>1, <2>1, Kept, BoundsAssumption DEF Mishap
  <2>3. offer' # offer
    BY <2>1
  <2>4. CASE UploadFinished
    <3>1. PICK m \in Inbox("sender") : m.size = 0 /\ offer' = [offer EXCEPT ![m.o] = "closed"]
      BY <2>4 DEF UploadFinished
    <3>2. m.o = o /\ m \in Range(to["sender"])
      BY <1>1, <2>1, <3>1, Kept, InboxOf, PeersAre
    <3>3. QED
      BY <1>1, <3>1, <3>2 DEF Inv, Orders
  <2>5. ASSUME NEW p \in Offers, Offer(p) PROVE FALSE
    BY <1>1, <2>1, <2>5, Kept DEF Offer
  <2>6. CASE Sending
    BY <2>3, <2>4, <2>6 DEF Sending, Refuse, Serve
  <2>7. CASE Receiving
    BY <2>3, <2>7 DEF Receiving, OfferReceived, DropAnswer, DownloadFinished, DataWritten, WriteRefused
  <2>8. CASE Failing
    BY <2>2, <2>8 DEF Failing, ReadFails, WriteFails, RequestTimesOut, OfferAbandoned, DownloadAbandoned,
                      Disconnect, Restart
  <2>9. CASE Linking
    BY <2>3, <2>9 DEF Linking, Misdirected, LogInAgain
  <2>10. CASE Users
    BY <2>3, <2>5, <2>10 DEF Users, Accept
  <2>11. QED
    BY <1>1, <2>6, <2>7, <2>8, <2>9, <2>10 DEF Next
<1>2. Inv /\ [Next]_vars => [Finished]_vars
  BY <1>1
<1>3. QED
  BY <1>2, Invariance, PTL DEF Spec, FinishedMeansReceived, Finished

-----------------------------------------------------------------------------
(* The refinement *)

Final == [n \in Names |-> IF final[n] = EmptyFile THEN NoFile ELSE final[n]]

LEMMA CopyIs ==
  /\ Copy!NoFile = NoFile
  /\ \A n \in Names :
       /\ Len([x \in Names |-> Content(Source(x))][n]) = Size[Source(n)]
       /\ \A k \in 0 .. Size[Source(n)] : Copy!Copy(n, k) = [there |-> TRUE, data |-> Blocks(k)]
<1>1. Copy!NoFile = NoFile
  BY DEF Copy!NoFile, NoFile
<1>2. ASSUME NEW n \in Names
      PROVE  Len([x \in Names |-> Content(Source(x))][n]) = Size[Source(n)]
  BY Constants, Wholly
<1>3. ASSUME NEW n \in Names, NEW k \in 0 .. Size[Source(n)]
      PROVE  Copy!Copy(n, k) = [there |-> TRUE, data |-> Blocks(k)]
  <2>1. Size[Source(n)] \in Nat
    BY Constants
  <2>2. SubSeq(Blocks(Size[Source(n)]), 1, k) = Blocks(k)
    BY <2>1 DEF Blocks
  <2>3. QED
    BY <2>2, Wholly DEF Copy!Copy
<1>4. QED
  BY <1>1, <1>2, <1>3

LEMMA CopyInit == Init => Copy!Init
<1> SUFFICES ASSUME Init PROVE Copy!Init
  OBVIOUS
<1>1. part \in [Names -> UNION {Leftover(n) : n \in Names}] /\ final = [n \in Names |-> NoFile]
  BY DEF Init
<1>2. ASSUME NEW n \in Names PROVE part[n] \in {Copy!NoFile} \cup Copy!Copies(n)
  <2>1. part[n] = NoFile \/
          /\ n \notin Offers
          /\ \E k \in 0 .. Size[n] - 1 : part[n] = [there |-> TRUE, data |-> SubSeq(Content(n), 1, k)]
    BY DEF Init, Leftover
  <2>2. ASSUME n \notin Offers, NEW k \in 0 .. Size[n] - 1,
               part[n] = [there |-> TRUE, data |-> SubSeq(Content(n), 1, k)]
        PROVE  part[n] \in Copy!Copies(n)
    <3>1. Source(n) = n /\ Size[n] \in Nat
      BY <2>2, Constants DEF Source
    <3>2. part[n] = Copy!Copy(n, k)
      BY <2>2, <3>1 DEF Copy!Copy
    <3>3. k \in 0 .. Len([x \in Names |-> Content(Source(x))][n])
      BY <3>1, CopyIs
    <3>4. QED
      BY <3>2, <3>3 DEF Copy!Copies
  <2>3. QED
    BY <2>1, <2>2, CopyIs
<1>3. part \in [Names -> {Copy!NoFile} \cup UNION {Copy!Copies(n) : n \in Names}]
  BY <1>1, <1>2
<1>4. Final = [n \in Names |-> Copy!NoFile]
  BY <1>1, CopyIs, Constants DEF Final
<1>5. QED
  BY <1>2, <1>3, <1>4 DEF Copy!Init, Final

LEMMA CopyGrows == ASSUME Inv, Grown PROVE [Copy!Next]_<<part, Final>>
<1>1. PICK n \in Names, k \in Nat :
        /\ part[n].there /\ Len(part[n].data) <= k /\ k <= Size[Source(n)]
        /\ part' = [part EXCEPT ![n] = [there |-> TRUE, data |-> Blocks(k)]]
  BY DEF Grown
<1>2. UNCHANGED Final
  BY DEF Grown, Final
<1>3. /\ part \in [Names -> File] /\ part[n] \in File /\ Len(part[n].data) \in Nat
      /\ part[n].data = Blocks(Len(part[n].data))
  BY DEF Inv, Typed, Disk, File
<1>4. CASE k = Len(part[n].data)
  <2>1. part[n] = [there |-> part[n].there, data |-> part[n].data] /\ part[n].there = TRUE
    BY <1>1, <1>3 DEF File
  <2>2. part[n] = [there |-> TRUE, data |-> Blocks(k)]
    BY <1>3, <1>4, <2>1
  <2>3. part' = part
    BY <1>1, <1>3, <2>2
  <2>4. QED
    BY <1>2, <2>3
<1>5. CASE k # Len(part[n].data)
  <2>1. k \in Len(part[n].data) + 1 .. Len([x \in Names |-> Content(Source(x))][n])
    BY <1>1, <1>3, <1>5, CopyIs, Constants
  <2>2. part' = [part EXCEPT ![n] = Copy!Copy(n, k)]
    <3>1. k \in 0 .. Size[Source(n)]
      BY <1>1, Constants
    <3>2. Copy!Copy(n, k) = [there |-> TRUE, data |-> Blocks(k)]
      BY <3>1, CopyIs
    <3>3. QED
      BY <1>1, <3>2
  <2>3. Copy!Grow(n)
    BY <1>1, <1>2, <2>1, <2>2 DEF Copy!Grow, Final
  <2>4. QED
    BY <2>3 DEF Copy!Next
<1>6. QED
  BY <1>4, <1>5

LEMMA CopyCreated ==
  ASSUME NEW n \in Names, ~part[n].there, part' = [part EXCEPT ![n] = EmptyFile], UNCHANGED Final
  PROVE  Copy!Next
<1>1. Copy!Copy(n, 0) = EmptyFile
  <2>1. 0 \in 0 .. Size[Source(n)]
    BY Constants
  <2>2. Copy!Copy(n, 0) = [there |-> TRUE, data |-> Blocks(0)]
    BY <2>1, CopyIs
  <2>3. QED
    BY <2>2 DEF EmptyFile, Blocks
<1>2. Copy!Create(n)
  BY <1>1 DEF Copy!Create, Final
<1>3. QED
  BY <1>2 DEF Copy!Next

LEMMA CopyStep == ASSUME Inv, [Next]_vars PROVE [Copy!Next]_<<part, Final>>
<1>1. CASE UNCHANGED <<part, final>>
  BY <1>1 DEF Final
<1>2. ASSUME UNCHANGED no_clobber, DataWritten \/ WriteFails PROVE [Copy!Next]_<<part, Final>>
  BY <1>2, ReceivingData, FailingWrite, CopyGrows
<1>3. ASSUME UNCHANGED no_clobber, NEW o \in Offers, Accept(o) PROVE [Copy!Next]_<<part, Final>>
  <2>1. PICK n \in Names : n = Target(o)
    BY Constants
  <2>2. part' = [part EXCEPT ![n].there = TRUE] /\ final' = final
    BY <1>3, <2>1 DEF Accept
  <2>3. /\ part \in [Names -> File] /\ part[n] \in File
        /\ ~part[n].there => part[n].data = <<>>
    BY DEF Inv, Typed, Disk
  <2>4. part' = [part EXCEPT ![n] = [there |-> TRUE, data |-> part[n].data]]
    BY <2>2, <2>3, FileWith
  <2>5. CASE part[n].there
    <3>1. part[n] = [there |-> part[n].there, data |-> part[n].data] /\ part[n].there = TRUE
      BY <2>3, <2>5 DEF File
    <3>2. part' = part
      BY <2>3, <2>4, <3>1
    <3>3. QED
      BY <1>1, <2>2, <3>2
  <2>6. CASE ~part[n].there
    <3>1. part' = [part EXCEPT ![n] = EmptyFile] /\ UNCHANGED Final
      BY <2>2, <2>3, <2>4, <2>6 DEF EmptyFile, Final
    <3>2. QED
      BY <2>6, <3>1, CopyCreated
  <2>7. QED
    BY <2>5, <2>6
<1>4. ASSUME OfferReceived PROVE [Copy!Next]_<<part, Final>>
  <2>1. PICK m \in Inbox("receiver") :
          /\ m.id = NoReq
          /\ \/ UNCHANGED files
             \/ part' = [part EXCEPT ![m.o] = EmptyFile] /\ final' = [final EXCEPT ![m.o] = EmptyFile]
    BY <1>4 DEF OfferReceived
  <2>2. PICK o \in Offers : o = m.o
    BY InboxOf, PeersAre DEF Answer, Proposal
  <2>3. part[o] = NoFile /\ final[o] = NoFile /\ o \in Names
    BY <2>1, <2>2, InboxOf, PeersAre, Constants DEF Inv, Offering
  <2>4. CASE UNCHANGED files
    BY <1>1, <2>4 DEF files
  <2>5. CASE part' = [part EXCEPT ![o] = EmptyFile] /\ final' = [final EXCEPT ![o] = EmptyFile]
    <3>1. UNCHANGED Final
      <4>1. final \in [Names -> File]
        BY DEF Inv, Typed
      <4>2. \A n \in Names : (IF final'[n] = EmptyFile THEN NoFile ELSE final'[n])
                               = (IF final[n] = EmptyFile THEN NoFile ELSE final[n])
        BY <2>3, <2>5, <4>1
      <4>3. QED
        BY <4>2 DEF Final
    <3>2. ~part[o].there
      BY <2>3 DEF NoFile
    <3>3. QED
      BY <2>3, <2>5, <3>1, <3>2, CopyCreated
  <2>6. QED
    BY <2>1, <2>2, <2>4, <2>5
<1>5. ASSUME DownloadFinished PROVE [Copy!Next]_<<part, Final>>
  <2>1. PICK m \in Inbox("receiver") :
          /\ Wanted(m) /\ m.data = <<>>
          /\ LET n == Target(m.o) IN
             IF part[n].there
               THEN final' = [final EXCEPT ![n] = part[n]] /\ part' = [part EXCEPT ![n] = NoFile]
               ELSE UNCHANGED files
    BY <1>5 DEF DownloadFinished
  <2>2. PICK n \in Names : n = Target(m.o) /\ Source(n) = FileOf[m.o]
    BY <2>1, WantedIs, Constants
  <2>3. part[n] = [there |-> TRUE, data |-> Content(Source(n))] /\ part[n].there
    BY <2>1, <2>2, Completed
  <2>4. part[n] = Copy!Copy(n, Len([x \in Names |-> Content(Source(x))][n]))
    <3>1. Size[Source(n)] \in 0 .. Size[Source(n)]
      BY Constants
    <3>2. Copy!Copy(n, Size[Source(n)]) = [there |-> TRUE, data |-> Blocks(Size[Source(n)])]
      BY <3>1, CopyIs
    <3>3. QED
      BY <2>3, <3>2, CopyIs, Wholly
  <2>5. part[n] # EmptyFile
    <3>1. part[n].data = Blocks(Size[Source(n)]) /\ Size[Source(n)] # 0
      BY <2>3, Wholly, Constants
    <3>2. part[n].data # <<>>
      BY <3>1, Wholly, Constants
    <3>3. QED
      BY <3>2 DEF EmptyFile
  <2>6. Final' = [Final EXCEPT ![n] = part[n]]
    <3>1. final' = [final EXCEPT ![n] = part[n]] /\ final \in [Names -> File]
      BY <2>1, <2>2, <2>3 DEF Inv, Typed
    <3>2. \A x \in Names : (IF final'[x] = EmptyFile THEN NoFile ELSE final'[x])
            = IF x = n THEN part[n] ELSE IF final[x] = EmptyFile THEN NoFile ELSE final[x]
      BY <2>5, <3>1
    <3>3. QED
      BY <3>2 DEF Final
  <2>7. Copy!Complete(n)
    <3>1. part' = [part EXCEPT ![n] = Copy!NoFile]
      BY <2>1, <2>2, <2>3, CopyIs
    <3>2. QED
      BY <2>4, <2>6, <3>1 DEF Copy!Complete, Final
  <2>8. QED
    BY <2>7 DEF Copy!Next
<1>6. CASE UNCHANGED vars
  BY <1>1, <1>6 DEF vars, files
<1>7. ASSUME NEW o \in Offers, Offer(o) PROVE [Copy!Next]_<<part, Final>>
  BY <1>1, <1>7 DEF Offer, files
<1>8. CASE Sending
  BY <1>1, <1>8 DEF Sending, Refuse, Serve, UploadFinished, files
<1>9. CASE Receiving
  <2>1. CASE DropAnswer \/ WriteRefused
    BY <1>1, <2>1 DEF DropAnswer, WriteRefused, files
  <2>2. QED
    BY <1>2, <1>4, <1>5, <1>9, <2>1 DEF Receiving
<1>10. CASE UNCHANGED no_clobber /\ Failing
  <2>1. CASE Failing /\ ~WriteFails
    BY <1>1, <2>1 DEF Failing, ReadFails, RequestTimesOut, OfferAbandoned, DownloadAbandoned,
                      Disconnect, Restart, files
  <2>2. QED
    BY <1>2, <1>10, <2>1
<1>11. CASE Linking
  BY <1>1, <1>11 DEF Linking, Misdirected, LogInAgain, files
<1>12. CASE UNCHANGED no_clobber /\ Users
  BY <1>3, <1>7, <1>12 DEF Users
<1>13. QED
  BY <1>6, <1>8, <1>9, <1>10, <1>11, <1>12 DEF Next

(* However messages, connections and clients come and go, every step of the *)
(* two clients does nothing to the receiver's files that FileCopy does not. *)
THEOREM ExactCopies == Careful => (Spec => CopiesExact)
<1> SUFFICES ASSUME Careful PROVE Spec => CopiesExact
  OBVIOUS
<1>1. Inv /\ [Next]_vars => [Copy!Next]_<<part, Final>>
  BY CopyStep
<1>2. QED
  BY <1>1, CopyInit, Invariance, PTL DEF Spec, CopiesExact, Copy!Spec, Final
=============================================================================
