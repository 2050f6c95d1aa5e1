------------------------------ MODULE Transfer ------------------------------
(***************************************************************************)
(* File transfers between two frelay clients: transfer.c, and the OFFER    *)
(* and GETFILE parts of cltmain.c. One client offers files, the other      *)
(* accepts offers and asks for one range after the other. The relay        *)
(* between them keeps messages in order, and loses those on their way to   *)
(* or from a client whose connection breaks.                               *)
(*                                                                         *)
(* A file is a sequence of blocks, and a download is written to the part   *)
(* file of the name that was offered or, with the option no_clobber, of a  *)
(* name made for it. Both clients log in again under the id they had, as   *)
(* registered users do.                                                    *)
(***************************************************************************)
EXTENDS Integers, Sequences, FiniteSetsExt, Functions

CONSTANTS
  Files,       \* names of files, as they are offered
  Size,        \* Size[f]: the number of blocks of f
  Offers,      \* offer ids, random in the code: each is used once
  FileOf,      \* FileOf[o]: the name of the file o offers
  Chunk,       \* MAX_DATA_SIZE
  Careful,     \* the receiving user sees to what CareTaken says
  MaxReq,      \* bound: requests on their way or pending
  MaxFaults    \* bound: mishaps in one behaviour

ASSUME FilesAssumption ==
  /\ Size \in [Files -> Nat \ {0}] /\ FileOf \in [Offers -> Files]
  /\ Files \cap Offers = {}
  /\ Chunk \in Nat \ {0}
ASSUME BoundsAssumption == Careful \in BOOLEAN /\ {MaxReq, MaxFaults} \subseteq Nat

Content(f) == [i \in 1 .. Size[f] |-> i]

(* The names on the receiver's disk. The one make_filenames invents for an  *)
(* offer is new, and represented by the offer.                              *)
Names == Files \cup Offers
Source(n) == IF n \in Offers THEN FileOf[n] ELSE n

Peers == {"sender", "receiver"}
Other(p) == CHOOSE q \in Peers : q # p

NoFile == [there |-> FALSE, data |-> <<>>]
EmptyFile == [there |-> TRUE, data |-> <<>>]
File == [there : BOOLEAN, data : Seq(Nat)]

NoFd == -1
Download == [st : {"none", "open", "closed"},
             off : Nat,                \* d->offset
             pos : Nat \cup {NoFd}]    \* position of d->fd
NoDownload == [st |-> "none", off |-> 0, pos |-> NoFd]
Invalid == [NoDownload EXCEPT !.st = "closed"]

(* The transaction ids of requests are random. *)
ReqIds == 1 .. MaxReq
NoReq == 0
Request == [o : Offers, id : ReqIds, off : Nat, size : Nat]
Answer == [o : Offers, id : ReqIds, data : Seq(Nat)]
Proposal == [o : Offers, id : {NoReq}, data : {<<>>}]

VARIABLES
  no_clobber,    \* the receiver's option -n
  offer,    \* offer[o]: new, open, or closed, on the sending side
  dl,       \* dl[o]: the download of o
  part, final,   \* part[n], final[n]: the part file and the final file
  to,       \* to[p]: messages on their way to p
  up,       \* up[p]: p is connected and logged in
  pending,  \* the receiver's list of requests without an answer yet
  faults    \* mishaps so far

files == <<part, final>>
vars == <<no_clobber, offer, dl, files, to, up, pending, faults>>

Target(o) == IF no_clobber THEN o ELSE FileOf[o]

TypeOK ==
  /\ no_clobber \in BOOLEAN
  /\ offer \in [Offers -> {"new", "open", "closed"}]
  /\ dl \in [Offers -> Download]
  /\ part \in [Names -> File] /\ final \in [Names -> File]
  /\ to.sender \in Seq(Request) /\ to.receiver \in Seq(Answer \cup Proposal)
  /\ up \in [Peers -> BOOLEAN]
  /\ pending \subseteq [o : Offers, id : ReqIds]
  /\ faults \in 0 .. MaxFaults
  /\ \A o \in Offers : dl[o].off <= Size[FileOf[o]]

(* A part file may be left from an earlier session, but not a complete one; *)
(* with no_clobber it would be left alone.                                  *)
Leftover(n) ==
  IF n \in Offers \/ no_clobber THEN {NoFile}
  ELSE {NoFile} \cup {[there |-> TRUE, data |-> SubSeq(Content(n), 1, k)] : k \in 0 .. Size[n] - 1}

Init ==
  /\ no_clobber \in BOOLEAN
  /\ offer = [o \in Offers |-> "new"]
  /\ dl = [o \in Offers |-> NoDownload]
  /\ part \in [Names -> UNION {Leftover(n) : n \in Names}]
  /\ \A n \in Names : part[n] \in Leftover(n)
  /\ final = [n \in Names |-> NoFile]
  /\ to = [p \in Peers |-> <<>>]
  /\ up = [p \in Peers |-> TRUE]
  /\ pending = {}
  /\ faults = 0

Least(m, n) == IF m <= n THEN m ELSE n
Mishap == faults < MaxFaults /\ faults' = faults + 1

-----------------------------------------------------------------------------
(* The sending side *)

(* CMD_OFFER and offer_new. *)
Offer(o) ==
  /\ up.sender /\ offer[o] = "new"
  /\ offer' = [offer EXCEPT ![o] = "open"]
  /\ to' = [to EXCEPT !.receiver = Append(@, [o |-> o, id |-> NoReq, data |-> <<>>])]
  /\ UNCHANGED <<dl, files, up, pending, faults>>

Inbox(p) == IF up[p] /\ to[p] # <<>> THEN {Head(to[p])} ELSE {}

Unanswered == to' = [to EXCEPT !.sender = Tail(@)]
Answered(m, data) ==
  to' = [to EXCEPT !.sender = Tail(@),
                   !.receiver = Append(@, [o |-> m.o, id |-> m.id, data |-> data])]

(* A GETFILE request for an offer that is closed, or from beyond the end of *)
(* the file: the answer is an error, which the receiver prints.             *)
Refuse ==
  /\ \E m \in Inbox("sender") :
       offer[m.o] # "open" \/ (m.size > 0 /\ m.off >= Size[FileOf[m.o]])
  /\ Unanswered
  /\ UNCHANGED <<offer, dl, files, up, pending, faults>>

(* offer_read cannot open or read the file: the same error. *)
ReadFails ==
  /\ \E m \in Inbox("sender") : offer[m.o] = "open" /\ m.size > 0
  /\ Unanswered
  /\ Mishap
  /\ UNCHANGED <<offer, dl, files, up, pending>>

(* Mutant: the offer is closed as soon as all of the file has been read. *)
Serve_Closing ==
  /\ \E m \in Inbox("sender") :
       LET f == FileOf[m.o] IN
         /\ offer[m.o] = "open" /\ m.size > 0 /\ m.off < Size[f]
         /\ Answered(m, SubSeq(Content(f), m.off + 1, Least(m.off + m.size, Size[f])))
         /\ offer' = [offer EXCEPT ![m.o] = IF m.off + m.size < Size[f] THEN @ ELSE "closed"]
  /\ UNCHANGED <<dl, files, up, pending, faults>>

Serve ==
  /\ \E m \in Inbox("sender") :
       LET f == FileOf[m.o] IN
         /\ offer[m.o] = "open" /\ m.size > 0 /\ m.off < Size[f]
         /\ Answered(m, SubSeq(Content(f), m.off + 1, Least(m.off + m.size, Size[f])))
  /\ UNCHANGED <<offer, dl, files, up, pending, faults>>

(* An empty range says that the receiver is done. *)
UploadFinished ==
  /\ \E m \in Inbox("sender") :
       /\ offer[m.o] = "open" /\ m.size = 0
       /\ offer' = [offer EXCEPT ![m.o] = "closed"]
       /\ Answered(m, <<>>)
  /\ UNCHANGED <<dl, files, up, pending, faults>>

-----------------------------------------------------------------------------
(* The receiving side *)

IdsInUse == {m.id : m \in pending \cup Range(to.sender) \cup Range(to.receiver)}
NewIds == ReqIds \ IdsInUse

(* A GETFILE request is sent, with answered requests off the pending list   *)
(* and received the messages that are left. A client that is not logged in  *)
(* gets an error from the relay, one that is not connected sends nothing.   *)
Ask(o, off, size, answered, received) ==
  LET id == Min(NewIds)
      waiting == pending \ answered IN
    /\ NewIds # {}
    /\ \/ pending' = waiting \cup {[o |-> o, id |-> id]}
       \/ ~up.receiver /\ pending' = waiting
    /\ to' = [to EXCEPT !.receiver = received,
         !.sender = IF up.receiver
           THEN Append(@, [o |-> o, id |-> id, off |-> off, size |-> size])
           ELSE @]

(* OFFER_REQ. With no_clobber, make_filenames takes possession of a name by *)
(* creating both files, and keeps the part file open.                       *)
OfferReceived ==
  /\ \E m \in Inbox("receiver") :
       /\ m.id = NoReq
       /\ \/ /\ ~no_clobber
             /\ dl' = [dl EXCEPT ![m.o] = [NoDownload EXCEPT !.st = "open"]]
             /\ UNCHANGED files
          \/ /\ no_clobber
             /\ dl' = [dl EXCEPT ![m.o] = [st |-> "open", off |-> 0, pos |-> 0]]
             /\ part' = [part EXCEPT ![m.o] = EmptyFile]
             /\ final' = [final EXCEPT ![m.o] = EmptyFile]
  /\ to' = [to EXCEPT !.receiver = Tail(@)]
  /\ UNCHANGED <<offer, up, pending, faults>>

(* What the receiving user has to see to, for the code does not: not to     *)
(* accept two offers of one name at a time, for both downloads would write  *)
(* to one part file; not to accept an offer while the answer to an earlier  *)
(* request for that name may still come, nor accept one again when its part *)
(* file has gone.                                                           *)
OneWriter(o) == \A p \in Offers \ {o} : Target(p) = Target(o) => dl[p].pos = NoFd

CareTaken(o) ==
  /\ OneWriter(o)
  /\ \A r \in pending : Target(r.o) # Target(o)
  /\ dl[o].off > 0 => part[Target(o)].there

(* CMD_ACCEPT: a part file that is there and not open is resumed, one that  *)
(* is not there is created. Mutants: the offset is not set, or added to.    *)
Opened_Stale(o) ==
  LET have == Len(part[Target(o)].data) IN
    IF dl[o].pos # NoFd THEN dl[o]
    ELSE IF part[Target(o)].there THEN [dl[o] EXCEPT !.pos = have]
    ELSE [dl[o] EXCEPT !.pos = 0]

Opened_Added(o) ==
  LET have == Len(part[Target(o)].data) IN
    IF dl[o].pos # NoFd THEN dl[o]
    ELSE IF part[Target(o)].there THEN [dl[o] EXCEPT !.off = @ + have, !.pos = have]
    ELSE [dl[o] EXCEPT !.pos = 0]

Opened(o) ==
  LET have == Len(part[Target(o)].data) IN
    IF dl[o].pos # NoFd THEN dl[o]
    ELSE IF part[Target(o)].there THEN [dl[o] EXCEPT !.off = have, !.pos = have]
    ELSE [dl[o] EXCEPT !.pos = 0]

(* The range asked for is not cut to what is left of the file. *)
Accept(o) ==
  /\ dl[o].st = "open"
  /\ Careful => CareTaken(o)
  /\ dl' = [dl EXCEPT ![o] = Opened(o)]
  /\ part' = [part EXCEPT ![Target(o)].there = TRUE]
  /\ Ask(o, Opened(o).off, Least(Size[FileOf[o]], Chunk), {}, to.receiver)
  /\ UNCHANGED <<offer, final, up, faults>>

(* GETFILE_RES: the answer m to a request that is still pending, for a      *)
(* download that is still open, is taken; any other is dropped.             *)
Settled(m) == {r \in pending : r.o = m.o /\ r.id = m.id}

(* Mutant: an answer nobody waits for any more is taken. *)
Wanted_Late(m) == m.id # NoReq /\ dl[m.o].st = "open"
Wanted(m) == m.id # NoReq /\ Settled(m) # {} /\ dl[m.o].st = "open"

Taken(m) == pending' = pending \ Settled(m) /\ to' = [to EXCEPT !.receiver = Tail(@)]

DropAnswer ==
  /\ \E m \in Inbox("receiver") : m.id # NoReq /\ ~Wanted(m) /\ Taken(m)
  /\ UNCHANGED <<offer, dl, files, up, faults>>

(* No data: the download is over, and the part file renamed if it is there. *)
DownloadFinished ==
  /\ \E m \in Inbox("receiver") :
       LET n == Target(m.o) IN
         /\ Wanted(m) /\ m.data = <<>>
         /\ dl' = [dl EXCEPT ![m.o] = Invalid]
         /\ IF part[n].there
              THEN final' = [final EXCEPT ![n] = part[n]] /\ part' = [part EXCEPT ![n] = NoFile]
              ELSE UNCHANGED files
         /\ Taken(m)
  /\ UNCHANGED <<offer, up, faults>>

(* download_write: the file is open, or does not exist yet and is created.  *)
Writable(o) == dl[o].pos # NoFd \/ ~part[Target(o)].there
Position(o) == IF dl[o].pos = NoFd THEN 0 ELSE dl[o].pos

Overwritten(s, pos, data) ==
  [i \in 1 .. (IF pos + Len(data) > Len(s) THEN pos + Len(data) ELSE Len(s)) |->
     IF i \in pos + 1 .. pos + Len(data) THEN data[i - pos] ELSE s[i]]

Write(o, data) ==
  part' = [part EXCEPT ![Target(o)] =
             [there |-> TRUE, data |-> Overwritten(@.data, Position(o), data)]]

(* Mutant: one block less. *)
NextSize_Short(o, off) ==
  IF off >= Size[FileOf[o]] THEN 0 ELSE Least(Size[FileOf[o]] - off - 1, Chunk)

(* Unsigned arithmetic: past the end, what is left is a huge number.        *)
NextSize(o, off) ==
  IF off > Size[FileOf[o]] THEN Chunk ELSE Least(Size[FileOf[o]] - off, Chunk)

DataWritten ==
  /\ \E m \in Inbox("receiver") :
       LET n == Len(m.data)
           off == dl[m.o].off + n IN
         /\ Wanted(m) /\ m.data # <<>> /\ Writable(m.o)
         /\ Write(m.o, m.data)
         /\ dl' = [dl EXCEPT ![m.o].off = off, ![m.o].pos = Position(m.o) + n]
         /\ Ask(m.o, off, NextSize(m.o, off), Settled(m), Tail(to.receiver))
  /\ UNCHANGED <<offer, final, up, faults>>

(* The part file is there, but was closed when the connection broke.        *)
WriteRefused ==
  /\ \E m \in Inbox("receiver") :
       /\ Wanted(m) /\ m.data # <<>> /\ ~Writable(m.o)
       /\ dl' = [dl EXCEPT ![m.o] = Invalid]
       /\ Taken(m)
  /\ UNCHANGED <<offer, files, up, faults>>

(* The disk is full: some of the data may have been written. *)
WriteFails ==
  /\ \E m \in Inbox("receiver") :
       /\ Wanted(m) /\ m.data # <<>> /\ Writable(m.o)
       /\ \E n \in 0 .. Len(m.data) - 1 : Write(m.o, SubSeq(m.data, 1, n))
       /\ dl' = [dl EXCEPT ![m.o] = Invalid]
       /\ Taken(m)
  /\ Mishap
  /\ UNCHANGED <<offer, final, up>>

(* upkeep_pending: no answer within resp_timeout. *)
RequestTimesOut ==
  /\ \E r \in pending : pending' = pending \ {r}
  /\ Mishap
  /\ UNCHANGED <<offer, dl, files, to, up>>

-----------------------------------------------------------------------------
(* Either side *)

(* transfer_upkeep drops a transfer that has been idle for too long, and    *)
(* CMD_REMOVE invalidates it.                                               *)
OfferAbandoned(o) ==
  /\ offer[o] = "open"
  /\ offer' = [offer EXCEPT ![o] = "closed"]
  /\ Mishap
  /\ UNCHANGED <<dl, files, to, up, pending>>

DownloadAbandoned(o) ==
  /\ dl[o].st = "open"
  /\ dl' = [dl EXCEPT ![o] = Invalid]
  /\ Mishap
  /\ UNCHANGED <<offer, files, to, up, pending>>

(* The connection of p ends. Of the messages to p some are lost in its      *)
(* queue at the relay, the ones after may not have reached the relay; of    *)
(* the messages from p the last ones are lost.                              *)
Cut(p) ==
  /\ up' = [up EXCEPT ![p] = FALSE]
  /\ \E lost \in 0 .. Len(to[p]), kept \in 0 .. Len(to[Other(p)]) :
       to' = [to EXCEPT ![p] = SubSeq(@, lost + 1, Len(@)),
                        ![Other(p)] = SubSeq(@, 1, kept)]

(* handle_srvio and CMD_DISCONNECT close the files, and CMD_CONNECT over an *)
(* existing connection does not.                                            *)
Disconnect(p) ==
  /\ up[p] /\ Cut(p)
  /\ dl' \in IF p = "sender" THEN {dl}
             ELSE {dl, [o \in Offers |-> [dl[o] EXCEPT !.pos = NoFd]]}
  /\ Mishap
  /\ UNCHANGED <<offer, files, pending>>

(* The client is ended and started again: the lists are empty. *)
Restart(p) ==
  /\ Cut(p)
  /\ IF p = "sender"
       THEN /\ offer' = [o \in Offers |-> IF offer[o] = "open" THEN "closed" ELSE offer[o]]
            /\ UNCHANGED <<dl, pending>>
       ELSE /\ dl' = [o \in Offers |-> IF dl[o].st = "open" THEN Invalid ELSE dl[o]]
            /\ pending' = {}
            /\ UNCHANGED offer
  /\ Mishap
  /\ UNCHANGED files

(* Meanwhile the relay answers messages to p with an error.                 *)
Misdirected(p) ==
  /\ ~up[p] /\ to[p] # <<>>
  /\ to' = [to EXCEPT ![p] = Tail(@)]
  /\ UNCHANGED <<offer, dl, files, up, pending, faults>>

LogInAgain(p) ==
  /\ ~up[p]
  /\ up' = [up EXCEPT ![p] = TRUE]
  /\ UNCHANGED <<offer, dl, files, to, pending, faults>>

-----------------------------------------------------------------------------
Sending == UNCHANGED no_clobber /\ (Refuse \/ Serve \/ UploadFinished)
Receiving ==
  /\ UNCHANGED no_clobber
  /\ OfferReceived \/ DropAnswer \/ DownloadFinished \/ DataWritten \/ WriteRefused
Failing ==
  \/ ReadFails \/ WriteFails \/ RequestTimesOut
  \/ \E o \in Offers : OfferAbandoned(o) \/ DownloadAbandoned(o)
  \/ \E p \in Peers : Disconnect(p) \/ Restart(p)
Linking == \E p \in Peers : Misdirected(p) \/ LogInAgain(p)
Users == \E o \in Offers : Offer(o) \/ Accept(o)

Next == Sending \/ Receiving \/ (UNCHANGED no_clobber /\ (Failing \/ Linking \/ Users))

Spec == Init /\ [][Next]_vars

(* Both clients keep running. Nothing is asked of the users.                *)
FairSpec == Spec /\ WF_vars(Sending) /\ WF_vars(Receiving)

-----------------------------------------------------------------------------
(* Properties *)

(* Part files hold the beginning of what was offered and final files all of *)
(* it, whatever was lost, answered late, resumed or offered again. The      *)
(* empty file that keeps a name from being taken is none.                   *)
Copy == INSTANCE FileCopy WITH Files <- Names,
  Whole <- [n \in Names |-> Content(Source(n))],
  final <- [n \in Names |-> IF final[n] = EmptyFile THEN NoFile ELSE final[n]]
CopiesExact == Copy!Spec

(* As long as a download is open for writing, the next block goes to the    *)
(* end of the part file, and that is where the range asked for begins.      *)
AppendsInOrder ==
  \A o \in Offers : dl[o].pos # NoFd =>
    /\ dl[o].pos = Len(part[Target(o)].data)
    /\ \A r \in Range(to.sender) : r.o = o /\ Settled(r) # {} => r.off = dl[o].pos

(* transfer.h:60 calls offset the "file offset" of a download.              *)
OffsetIsPosition == \A o \in Offers : dl[o].pos # NoFd => dl[o].off = dl[o].pos

(* The sending user is told that the upload is finished only when the       *)
(* receiver has all of the file.                                            *)
FinishedMeansReceived ==
  [][\A o \in Offers :
       offer[o] = "open" /\ offer'[o] = "closed" /\ faults' = faults =>
         Content(FileOf[o]) \in {part[Target(o)].data, final[Target(o)].data}]_vars

(* A download that is accepted ends with the complete file in place, unless *)
(* something goes wrong on the way.                                         *)
DownloadCompletes ==
  \A o \in Offers :
    (\E r \in pending : r.o = o) /\ faults = 0 ~>
      final[Target(o)].data = Content(FileOf[o]) \/ faults > 0
=============================================================================
