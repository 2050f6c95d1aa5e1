-------------------------- MODULE CltSession_proofs --------------------------
(***************************************************************************)
(* Proofs about CltSession, for any number of connections, names, keys,    *)
(* requests and queued messages, whatever becomes of saves of the user db: *)
(*                                                                         *)
(*   - CltTypeOK: among other things, that there is a connection exactly   *)
(*     when the session has a state, and a transaction id for each answer; *)
(*   - InStep: unless the session is upset, the answers on their way lead  *)
(*     the client to the state the server has it in.                       *)
(*                                                                         *)
(* InStep holds because no answer is dropped on the way: the ids of what   *)
(* is on its way are all different (Unique), so no answer takes the        *)
(* pending request of another off the list (Expected); and because no AUTH *)
(* reaches the server out of turn: of challenges and answers to them there *)
(* is one on its way at most, and then the server waits for it (OneAuth).  *)
(***************************************************************************)
EXTENDS CltSession, SrvSession_proofs, WellFoundedInduction

-----------------------------------------------------------------------------
(* Sequences *)

Once(q) == \A i, j \in DOMAIN q : q[i] = q[j] => i = j

LEMMA AppendFacts ==
  ASSUME NEW S, NEW q \in Seq(S), NEW x \in S
  PROVE  /\ Append(q, x) \in Seq(S) /\ Len(q) \in Nat /\ DOMAIN q = 1 .. Len(q)
         /\ Len(Append(q, x)) = Len(q) + 1 /\ DOMAIN Append(q, x) = 1 .. Len(q) + 1
         /\ Append(q, x)[Len(q) + 1] = x
         /\ \A i \in 1 .. Len(q) : Append(q, x)[i] = q[i]
OBVIOUS

LEMMA TailFacts ==
  ASSUME NEW S, NEW q \in Seq(S), q # <<>>
  PROVE  /\ Tail(q) \in Seq(S) /\ Len(q) \in Nat \ {0} /\ DOMAIN q = 1 .. Len(q)
         /\ Head(q) = q[1] /\ Head(q) \in S
         /\ Len(Tail(q)) = Len(q) - 1 /\ DOMAIN Tail(q) = 1 .. Len(q) - 1
         /\ \A i \in 1 .. Len(q) - 1 : Tail(q)[i] = q[i + 1]
OBVIOUS

LEMMA RangeAppend ==
  ASSUME NEW S, NEW q \in Seq(S), NEW x \in S
  PROVE  Range(Append(q, x)) = Range(q) \cup {x}
<1>1. \A i \in 1 .. Len(q) + 1 : i \in 1 .. Len(q) \/ i = Len(q) + 1
  BY AppendFacts
<1>2. \A i \in 1 .. Len(q) : i \in 1 .. Len(q) + 1
  BY AppendFacts
<1>3. Len(q) + 1 \in 1 .. Len(q) + 1
  BY AppendFacts
<1>. QED
  BY <1>1, <1>2, <1>3, AppendFacts DEF Range

LEMMA RangeTail ==
  ASSUME NEW S, NEW q \in Seq(S), q # <<>>
  PROVE  /\ Head(q) \in Range(q) /\ Range(Tail(q)) \subseteq Range(q)
         /\ Range(q) = {Head(q)} \cup Range(Tail(q))
<1>1. \A i \in 1 .. Len(q) : i = 1 \/ (i - 1 \in 1 .. Len(q) - 1 /\ (i - 1) + 1 = i)
  BY TailFacts
<1>2. \A i \in 1 .. Len(q) - 1 : i + 1 \in 1 .. Len(q)
  BY TailFacts
<1>3. 1 \in 1 .. Len(q)
  BY TailFacts
<1>4. \A i \in 1 .. Len(q) : q[i] = Head(q) \/ q[i] \in Range(Tail(q))
  <2>. TAKE i \in 1 .. Len(q)
  <2>1. CASE i = 1
    BY <2>1, TailFacts
  <2>2. CASE i - 1 \in 1 .. Len(q) - 1 /\ (i - 1) + 1 = i
    <3>1. Tail(q)[i - 1] = q[i]
      BY <2>2, TailFacts
    <3>. QED
      BY <2>2, <3>1, TailFacts DEF Range
  <2>. QED
    BY <1>1, <2>1, <2>2
<1>. QED
  BY <1>2, <1>3, <1>4, TailFacts DEF Range

LEMMA OnceAppend ==
  ASSUME NEW S, NEW q \in Seq(S), NEW x \in S, Once(q), x \notin Range(q)
  PROVE  Once(Append(q, x))
<1>1. \A i \in 1 .. Len(q) + 1 : i \in 1 .. Len(q) \/ i = Len(q) + 1
  BY AppendFacts
<1>2. \A i \in 1 .. Len(q) : q[i] # x
  BY AppendFacts DEF Range
<1>. QED
  BY <1>1, <1>2, AppendFacts DEF Once

LEMMA OnceTail ==
  ASSUME NEW S, NEW q \in Seq(S), q # <<>>, Once(q)
  PROVE  Once(Tail(q)) /\ Head(q) \notin Range(Tail(q))
<1>1. \A i \in 1 .. Len(q) - 1 : i + 1 \in 1 .. Len(q) /\ i + 1 # 1
  BY TailFacts
<1>2. \A i, j \in 1 .. Len(q) - 1 : i + 1 = j + 1 => i = j
  BY TailFacts
<1>3. 1 \in 1 .. Len(q)
  BY TailFacts
<1>4. Once(Tail(q))
  BY <1>1, <1>2, TailFacts DEF Once
<1>5. \A i \in 1 .. Len(q) - 1 : Tail(q)[i] # Head(q)
  BY <1>1, <1>3, TailFacts DEF Once
<1>. QED
  BY <1>4, <1>5, TailFacts DEF Range

LEMMA RangeConcat ==
  ASSUME NEW S, NEW q \in Seq(S), NEW w \in Seq(S)
  PROVE  Range(q) \cup Range(w) \subseteq Range(q \o w)
<1>1. /\ Len(q) \in Nat /\ Len(w) \in Nat /\ DOMAIN q = 1 .. Len(q) /\ DOMAIN w = 1 .. Len(w)
      /\ DOMAIN (q \o w) = 1 .. Len(q) + Len(w)
  OBVIOUS
<1>2. \A i \in 1 .. Len(q) : i \in 1 .. Len(q) + Len(w) /\ (q \o w)[i] = q[i]
  BY <1>1
<1>3. \A i \in 1 .. Len(w) : Len(q) + i \in 1 .. Len(q) + Len(w) /\ (q \o w)[Len(q) + i] = w[i]
  BY <1>1
<1>. QED
  BY <1>1, <1>2, <1>3 DEF Range

(* The ids of requests, and the answers with theirs.                        *)
IdsOf(q) == [i \in 1 .. Len(q) |-> q[i].id]
Answer(m, id) == [type |-> m.type, code |-> m.code, id |-> id]
Answers(q, ids) == [i \in 1 .. Len(ids) |-> Answer(q[i], ids[i])]

LEMMA IdsOfAppend ==
  ASSUME NEW q \in Seq(Request), NEW r \in Request
  PROVE  IdsOf(q) \in Seq(TrfIds) /\ r.id \in TrfIds /\ IdsOf(Append(q, r)) = Append(IdsOf(q), r.id)
<1>1. r.id \in TrfIds /\ IdsOf(q) \in Seq(TrfIds) /\ Len(IdsOf(q)) = Len(q)
  <2>0. \A i \in 1 .. Len(q) : q[i] \in Request
    OBVIOUS
  <2>1. \A i \in 1 .. Len(q) : q[i].id \in TrfIds
    BY <2>0 DEF Request
  <2>. QED
    BY <2>1 DEF IdsOf, Request
<1>2. \A i \in 1 .. Len(q) + 1 : Append(q, r)[i].id = Append(IdsOf(q), r.id)[i]
  <2>. TAKE i \in 1 .. Len(q) + 1
  <2>1. CASE i \in 1 .. Len(q)
    <3>1. Append(IdsOf(q), r.id)[i] = IdsOf(q)[i]
      BY <1>1, <2>1, AppendFacts
    <3>2. Append(q, r)[i] = q[i]
      BY <2>1, AppendFacts
    <3>. QED
      BY <2>1, <3>1, <3>2 DEF IdsOf
  <2>2. CASE i = Len(q) + 1
    BY <1>1, <2>2, AppendFacts
  <2>3. i \in 1 .. Len(q) \/ i = Len(q) + 1
    BY AppendFacts
  <2>. QED
    BY <2>1, <2>2, <2>3
<1>3. IdsOf(Append(q, r)) = [i \in 1 .. Len(q) + 1 |-> Append(q, r)[i].id]
  BY AppendFacts DEF IdsOf
<1>4. Append(IdsOf(q), r.id) = [i \in 1 .. Len(q) + 1 |-> Append(IdsOf(q), r.id)[i]]
  BY <1>1
<1>. QED
  BY <1>1, <1>2, <1>3, <1>4

LEMMA IdsOfTail ==
  ASSUME NEW q \in Seq(Request), q # <<>>
  PROVE  /\ IdsOf(q) \in Seq(TrfIds) /\ IdsOf(q) # <<>>
         /\ Head(IdsOf(q)) = Head(q).id /\ IdsOf(Tail(q)) = Tail(IdsOf(q))
<1>1. IdsOf(q) \in Seq(TrfIds) /\ Len(IdsOf(q)) = Len(q) /\ IdsOf(q) # <<>>
  <2>0. \A i \in 1 .. Len(q) : q[i] \in Request
    OBVIOUS
  <2>1. \A i \in 1 .. Len(q) : q[i].id \in TrfIds
    BY <2>0 DEF Request
  <2>. QED
    BY <2>1 DEF IdsOf
<1>2. \A i \in 1 .. Len(q) - 1 : Tail(q)[i].id = Tail(IdsOf(q))[i]
  <2>. TAKE i \in 1 .. Len(q) - 1
  <2>1. i + 1 \in 1 .. Len(q)
    BY TailFacts
  <2>2. Tail(IdsOf(q))[i] = IdsOf(q)[i + 1]
    BY <1>1, TailFacts
  <2>. QED
    BY <2>1, <2>2, TailFacts DEF IdsOf
<1>3. IdsOf(Tail(q)) = [i \in 1 .. Len(q) - 1 |-> Tail(q)[i].id]
  BY TailFacts DEF IdsOf
<1>4. Tail(IdsOf(q)) = [i \in 1 .. Len(q) - 1 |-> Tail(IdsOf(q))[i]]
  <2>1. Tail(IdsOf(q)) \in Seq(TrfIds) /\ Len(Tail(IdsOf(q))) = Len(q) - 1
    BY <1>1, TailFacts
  <2>2. \A s \in Seq(TrfIds) : s = [i \in 1 .. Len(s) |-> s[i]]
    OBVIOUS
  <2>. QED
    BY <2>1, <2>2
<1>5. Head(IdsOf(q)) = Head(q).id
  BY <1>1, TailFacts DEF IdsOf
<1>. QED
  BY <1>1, <1>2, <1>3, <1>4, <1>5

LEMMA RangeIds ==
  ASSUME NEW q \in Seq(Request)
  PROVE  Range(IdsOf(q)) = {r.id : r \in Range(q)}
  BY DEF Range, IdsOf

LEMMA AnswerIds ==
  ASSUME NEW q, NEW ids \in Seq(TrfIds)
  PROVE  \A a \in Range(Answers(q, ids)) : a.id \in Range(ids)
<1>1. DOMAIN ids = 1 .. Len(ids)
  OBVIOUS
<1>. QED
  BY <1>1 DEF Range, Answers, Answer

LEMMA RangeAnswersAppend ==
  ASSUME NEW q \in Seq(Message), NEW ids \in Seq(TrfIds), Len(q) = Len(ids),
         NEW m \in Message, NEW id \in TrfIds
  PROVE  Range(Answers(Append(q, m), Append(ids, id))) = Range(Answers(q, ids)) \cup {Answer(m, id)}
<1>1. /\ Len(q) \in Nat /\ Len(Append(ids, id)) = Len(q) + 1
      /\ Append(q, m)[Len(q) + 1] = m /\ Append(ids, id)[Len(q) + 1] = id
      /\ \A i \in 1 .. Len(q) : Append(q, m)[i] = q[i] /\ Append(ids, id)[i] = ids[i]
  OBVIOUS
<1>2. \A i \in 1 .. Len(q) + 1 : i \in 1 .. Len(q) \/ i = Len(q) + 1
  BY <1>1
<1>3. \A i \in 1 .. Len(q) : i \in 1 .. Len(q) + 1
  BY <1>1
<1>4. Len(q) + 1 \in 1 .. Len(q) + 1
  BY <1>1
<1>5. Range(Answers(q, ids)) = {Answer(q[i], ids[i]) : i \in 1 .. Len(q)}
  BY DEF Range, Answers
<1>6. Range(Answers(Append(q, m), Append(ids, id)))
        = {Answer(Append(q, m)[i], Append(ids, id)[i]) : i \in 1 .. Len(q) + 1}
  BY <1>1 DEF Range, Answers
<1>. QED
  BY <1>1, <1>2, <1>3, <1>4, <1>5, <1>6

LEMMA RangeAnswersTail ==
  ASSUME NEW q \in Seq(Message), NEW ids \in Seq(TrfIds), Len(q) = Len(ids), q # <<>>
  PROVE  /\ Answer(Head(q), Head(ids)) \in Range(Answers(q, ids))
         /\ Range(Answers(Tail(q), Tail(ids))) \subseteq Range(Answers(q, ids))
         /\ \A a \in Range(Answers(Tail(q), Tail(ids))) : a.id \in Range(Tail(ids))
<1>1. /\ Len(q) \in Nat \ {0} /\ ids # <<>> /\ Len(Tail(ids)) = Len(q) - 1
      /\ Head(q) = q[1] /\ Head(ids) = ids[1] /\ DOMAIN Tail(ids) = 1 .. Len(q) - 1
      /\ \A i \in 1 .. Len(q) - 1 : Tail(q)[i] = q[i + 1] /\ Tail(ids)[i] = ids[i + 1]
  OBVIOUS
<1>2. 1 \in 1 .. Len(q) /\ \A i \in 1 .. Len(q) - 1 : i + 1 \in 1 .. Len(q)
  BY <1>1
<1>3. Range(Answers(q, ids)) = {Answer(q[i], ids[i]) : i \in 1 .. Len(q)}
  BY DEF Range, Answers
<1>4. Range(Answers(Tail(q), Tail(ids)))
        = {Answer(Tail(q)[i], Tail(ids)[i]) : i \in 1 .. Len(q) - 1}
  BY <1>1 DEF Range, Answers
<1>5. \A i \in 1 .. Len(q) - 1 : Answer(Tail(q)[i], Tail(ids)[i]).id \in Range(Tail(ids))
  BY <1>1 DEF Range, Answer
<1>. QED
  BY <1>1, <1>2, <1>3, <1>4, <1>5

-----------------------------------------------------------------------------
(* Reading answers *)

LEMMA AfterType == ASSUME NEW s \in States, NEW m PROVE After(s, m) \in States /\ (s # "INVALID" => After(s, m) # "INVALID")
  BY DEF After, States

LEMMA LeadsNowhere == ASSUME NEW s \in States PROVE Leads(s, <<>>, s)
<1>. DEFINE path == [i \in 0 .. 0 |-> s]
<1>1. path \in [0 .. 0 -> States] /\ path[0] = s
  OBVIOUS
<1>2. Len(<<>>) = 0 /\ DOMAIN <<>> = {}
  OBVIOUS
<1>. QED
  BY <1>1, <1>2 DEF Leads

LEMMA LeadsFurther ==
  ASSUME NEW q \in Seq(Message), NEW m \in Message, NEW s, NEW t \in States, Leads(s, q, t)
  PROVE  Leads(s, Append(q, m), After(t, m))
<1>. DEFINE u == After(t, m)
            n == Len(q)
<1>0. n \in Nat /\ u \in States
  BY AfterType
<1>1. PICK f \in [0 .. n -> States] : f[0] = s /\ f[n] = t /\ \A i \in 1 .. n : f[i] = After(f[i - 1], q[i])
  BY DEF Leads
<1>. DEFINE path == [i \in 0 .. n + 1 |-> IF i = n + 1 THEN u ELSE f[i]]
<1>. HIDE DEF u
<1>2. \A i \in 0 .. n + 1 : i = n + 1 \/ i \in 0 .. n
  BY <1>0
<1>3. \A i \in 0 .. n : i \in 0 .. n + 1 /\ i # n + 1
  BY <1>0
<1>4. path \in [0 .. n + 1 -> States] /\ path[n + 1] = u /\ \A i \in 0 .. n : path[i] = f[i]
  BY <1>0, <1>2, <1>3
<1>. HIDE DEF path
<1>5. path[0] = s /\ path[n] = t
  BY <1>0, <1>1, <1>4
<1>6. \A i \in 1 .. n + 1 : path[i] = After(path[i - 1], Append(q, m)[i])
  <2>. TAKE i \in 1 .. n + 1
  <2>1. CASE i = n + 1
    <3>1. Append(q, m)[i] = m /\ i - 1 = n
      BY <1>0, <2>1
    <3>. QED
      BY <1>4, <1>5, <2>1, <3>1 DEF u
  <2>2. CASE i \in 1 .. n
    <3>1. Append(q, m)[i] = q[i] /\ i \in 0 .. n /\ i - 1 \in 0 .. n
      BY <1>0, <2>2
    <3>. QED
      BY <1>1, <1>4, <2>2, <3>1
  <2>. QED
    BY <1>0, <2>1, <2>2
<1>7. Len(Append(q, m)) = n + 1 /\ DOMAIN Append(q, m) = 1 .. n + 1
  BY <1>0
<1>. QED
  BY <1>4, <1>5, <1>6, <1>7 DEF Leads, u

LEMMA LeadsOn ==
  ASSUME NEW q \in Seq(Message), q # <<>>, NEW s, NEW t, Leads(s, q, t)
  PROVE  Leads(After(s, Head(q)), Tail(q), t)
<1>. DEFINE n == Len(q)
<1>0. n \in Nat \ {0} /\ Head(q) = q[1]
  BY TailFacts
<1>1. PICK f \in [0 .. n -> States] : f[0] = s /\ f[n] = t /\ \A i \in 1 .. n : f[i] = After(f[i - 1], q[i])
  BY DEF Leads
<1>. DEFINE path == [i \in 0 .. n - 1 |-> f[i + 1]]
<1>2. \A i \in 0 .. n - 1 : i + 1 \in 0 .. n /\ i + 1 \in 1 .. n
  BY <1>0
<1>3. path \in [0 .. n - 1 -> States] /\ \A i \in 0 .. n - 1 : path[i] = f[i + 1]
  BY <1>2
<1>. HIDE DEF path
<1>4. path[0] = After(s, q[1])
  <2>1. 0 \in 0 .. n - 1 /\ 0 + 1 = 1 /\ 1 - 1 = 0 /\ 1 \in 1 .. n
    BY <1>0
  <2>2. path[0] = f[1] /\ f[1] = After(f[0], q[1])
    BY <1>1, <1>3, <2>1
  <2>. QED
    BY <1>1, <2>2
<1>5. path[n - 1] = t
  <2>1. n - 1 \in 0 .. n - 1 /\ (n - 1) + 1 = n
    BY <1>0
  <2>. QED
    BY <1>1, <1>3, <2>1
<1>6. \A i \in 1 .. n - 1 : path[i] = After(path[i - 1], Tail(q)[i])
  <2>. TAKE i \in 1 .. n - 1
  <2>1. i \in 0 .. n - 1 /\ i - 1 \in 0 .. n - 1 /\ i + 1 \in 1 .. n /\ (i - 1) + 1 = i /\ (i + 1) - 1 = i
    BY <1>0
  <2>2. path[i] = f[i + 1] /\ path[i - 1] = f[i] /\ f[i + 1] = After(f[i], q[i + 1])
    BY <1>1, <1>3, <2>1
  <2>3. Tail(q)[i] = q[i + 1]
    BY TailFacts
  <2>. QED
    BY <2>2, <2>3
<1>7. Len(Tail(q)) = n - 1 /\ DOMAIN Tail(q) = 1 .. n - 1
  BY TailFacts
<1>. QED
  BY <1>0, <1>3, <1>4, <1>5, <1>6, <1>7 DEF Leads

-----------------------------------------------------------------------------
(* What the server makes of a request *)

Typed(r) ==
  /\ r.type = "LOGIN" => r.arg \in Names
  /\ r.type = "AUTH" => r.arg \in Keys
  /\ r.type = "REGISTER" => r.arg \in PlainKeys

(* m answers request r of c. Only a LOGIN is answered by a challenge, and   *)
(* only an AUTH ends the wait for the answer to it; if none comes out of    *)
(* turn, the answer tells what has become of the session.                   *)
Effect(c, r, m) ==
  /\ m.type = r.type /\ sendq'[c] = Append(sendq[c], m)
  /\ m.code = "CHALLENGE" =>
       r.type = "LOGIN" /\ clt[c].st = "PRE_LOGIN" /\ clt'[c].st = "LOGIN_OK"
  /\ r.type # "AUTH" /\ clt[c].st = "LOGIN_OK" => clt'[c].st = "LOGIN_OK"
  /\ (r.type = "AUTH" => clt[c].st = "LOGIN_OK") /\ m.code # "METHOD_NOT_ALLOWED" =>
       clt'[c].st = After(clt[c].st, m)

LEMMA Replied ==
  ASSUME TypeOK, NEW c \in Conn, NEW t \in Types, NEW code \in Codes, Reply(c, t, code)
  PROVE  \E m \in Message : /\ m.type = t /\ m.code = code /\ m.class = "RES"
                            /\ sendq'[c] = Append(sendq[c], m)
<1>1. NoId \in Nat
  BY DEF NoId
<1>2. Response(c, t, NoId, code) \in Message
  BY <1>1, ResponseType
<1>3. /\ Response(c, t, NoId, code).type = t /\ Response(c, t, NoId, code).code = code
      /\ Response(c, t, NoId, code).class = "RES"
  BY DEF Response
<1>4. sendq'[c] = Append(sendq[c], Response(c, t, NoId, code))
  BY DEF Reply, Enqueue, TypeOK
<1>. QED
  BY <1>2, <1>3, <1>4

LEMMA Failed ==
  ASSUME TypeOK, NEW c \in Conn, NEW t \in Types, NEW dst \in Nat, NEW code \in Codes,
         Enqueue(c, ErrorResponse(c, t, dst, code))
  PROVE  \E m \in Message : /\ m.type = t /\ m.code = code /\ m.class = "ERR"
                            /\ sendq'[c] = Append(sendq[c], m)
<1>1. ErrorResponse(c, t, dst, code) \in Message
  BY ResponseType
<1>2. /\ ErrorResponse(c, t, dst, code).type = t /\ ErrorResponse(c, t, dst, code).code = code
      /\ ErrorResponse(c, t, dst, code).class = "ERR"
  BY DEF ErrorResponse, Response
<1>3. sendq'[c] = Append(sendq[c], ErrorResponse(c, t, dst, code))
  BY DEF Enqueue, TypeOK
<1>. QED
  BY <1>1, <1>2, <1>3

LEMMA Words ==
  /\ "LOGIN" \in Types /\ "AUTH" \in Types /\ "LOGOUT" \in Types
  /\ "REGISTER" \in Types /\ "DROP" \in Types
  /\ "OK" \in Codes /\ "CHALLENGE" \in Codes /\ "BAD_REQUEST" \in Codes
  /\ "UNAUTHORIZED" \in Codes /\ "FORBIDDEN" \in Codes /\ "NOT_FOUND" \in Codes
  /\ "METHOD_NOT_ALLOWED" \in Codes /\ "CONFLICT" \in Codes /\ "LOCKED" \in Codes
  BY DEF Types, Codes

LEMMA LoginEffect ==
  ASSUME Inv, NEW c \in Conn, NEW r \in Request, r.type = "LOGIN", r.arg \in Names,
         \/ LoginConflict(c, r.arg) \/ LoginUnregistered(c, r.arg) \/ LoginRegistered(c, r.arg)
         \/ clt[c].st # "PRE_LOGIN" /\ LoginMalformed(c)
  PROVE  \E m \in Message : Effect(c, r, m)
<1>0. TypeOK /\ clt \in [Conn -> Client] /\ NoId \in Nat
  BY DEF Inv, TypeOK, NoId
<1>. USE Words
<1>1. ASSUME LoginConflict(c, r.arg) \/ (clt[c].st # "PRE_LOGIN" /\ LoginMalformed(c))
      PROVE  \E m \in Message : Effect(c, r, m)
  <2>1. PICK code \in {"CONFLICT", "BAD_REQUEST"} : Fail(c, "LOGIN", code)
    BY <1>1 DEF LoginConflict, LoginMalformed
  <2>2. PICK m \in Message : /\ m.type = "LOGIN" /\ m.code = code /\ m.class = "ERR"
                             /\ sendq'[c] = Append(sendq[c], m)
    BY <1>0, <2>1, Failed DEF Fail
  <2>3. clt'[c].st = clt[c].st
    BY <1>1 DEF LoginConflict, LoginMalformed
  <2>4. After(clt[c].st, m) = clt[c].st
    BY <2>1, <2>2 DEF After
  <2>. QED
    BY <2>1, <2>2, <2>3, <2>4 DEF Effect
<1>2. ASSUME LoginUnregistered(c, r.arg)
      PROVE  \E m \in Message : Effect(c, r, m)
  <2>1. Reply(c, "LOGIN", "OK") /\ clt[c].st = "PRE_LOGIN"
    BY <1>2 DEF LoginUnregistered
  <2>2. PICK m \in Message : /\ m.type = "LOGIN" /\ m.code = "OK" /\ m.class = "RES"
                             /\ sendq'[c] = Append(sendq[c], m)
    BY <1>0, <2>1, Replied
  <2>3. clt'[c].st = "AUTH_OK"
    BY <1>0, <1>2 DEF LoginUnregistered
  <2>4. After(clt[c].st, m) = "AUTH_OK"
    BY <2>1, <2>2 DEF After
  <2>. QED
    BY <2>1, <2>2, <2>3, <2>4 DEF Effect
<1>3. ASSUME LoginRegistered(c, r.arg)
      PROVE  \E m \in Message : Effect(c, r, m)
  <2>1. clt[c].st = "PRE_LOGIN" /\ clt'[c].st = "LOGIN_OK"
    BY <1>0, <1>3 DEF LoginRegistered
  <2>2. Reply(c, "LOGIN", "CHALLENGE") \/ Fail(c, "LOGIN", "METHOD_NOT_ALLOWED")
    BY <1>3 DEF LoginRegistered
  <2>3. PICK m \in Message : /\ m.type = "LOGIN" /\ m.code \in {"CHALLENGE", "METHOD_NOT_ALLOWED"}
                             /\ sendq'[c] = Append(sendq[c], m)
    BY <1>0, <2>2, Replied, Failed DEF Fail
  <2>4. m.code = "CHALLENGE" => After(clt[c].st, m) = "LOGIN_OK"
    BY <2>1, <2>3 DEF After
  <2>. QED
    BY <2>1, <2>3, <2>4 DEF Effect
<1>. QED
  BY <1>1, <1>2, <1>3

LEMMA AuthEffect ==
  ASSUME Inv, NEW c \in Conn, NEW r \in Request, r.type = "AUTH", r.arg \in Keys,
         clt'[c].st # "INVALID",
         \/ AuthWrong(c, r.arg) \/ AuthOK(c, r.arg) \/ AuthNoKey(c)
         \/ clt[c].st # "LOGIN_OK" /\ AuthMalformed(c)
  PROVE  \E m \in Message : Effect(c, r, m)
<1>0. TypeOK /\ clt \in [Conn -> Client] /\ clt[c] \in Client /\ NoId \in Nat
  BY DEF Inv, TypeOK, NoId
<1>. USE Words
<1>1. ASSUME AuthWrong(c, r.arg)
      PROVE  \E m \in Message : Effect(c, r, m)
  <2>1. Fail(c, "AUTH", "UNAUTHORIZED") /\ clt[c].st = "LOGIN_OK"
    BY <1>1 DEF AuthWrong
  <2>2. PICK m \in Message : /\ m.type = "AUTH" /\ m.code = "UNAUTHORIZED" /\ m.class = "ERR"
                             /\ sendq'[c] = Append(sendq[c], m)
    BY <1>0, <2>1, Failed DEF Fail
  <2>3. clt'[c].st = "PRE_LOGIN"
    BY <1>0, <1>1 DEF AuthWrong, Client
  <2>4. After(clt[c].st, m) = "PRE_LOGIN"
    BY <2>1, <2>2 DEF After
  <2>. QED
    BY <2>1, <2>2, <2>3, <2>4 DEF Effect
<1>2. ASSUME AuthOK(c, r.arg)
      PROVE  \E m \in Message : Effect(c, r, m)
  <2>. DEFINE m == Response(c, "AUTH", NoId, "OK")
  <2>1. m \in Message
    BY <1>0, ResponseType
  <2>2. m.type = "AUTH" /\ m.code = "OK" /\ m.class = "RES"
    BY DEF Response
  <2>3. c \notin Superseded(c) /\ clt[c].st = "LOGIN_OK"
    BY <1>2 DEF Superseded, AuthOK
  <2>. HIDE DEF m
  <2>4. clt'[c].st = "AUTH_OK"
    BY <1>0, <1>2, <2>3 DEF AuthOK, Client
  <2>5. sendq'[c] = Append(sendq[c], m)
    BY <1>0, <1>2, <2>3 DEF AuthOK, m
  <2>6. After(clt[c].st, m) = "AUTH_OK"
    BY <2>2, <2>3 DEF After
  <2>. QED
    BY <2>1, <2>2, <2>3, <2>4, <2>5, <2>6 DEF Effect
<1>3. ASSUME AuthNoKey(c)
      PROVE  FALSE
  BY <1>3 DEF AuthNoKey, Restart, Free
<1>4. ASSUME clt[c].st # "LOGIN_OK", AuthMalformed(c)
      PROVE  \E m \in Message : Effect(c, r, m)
  <2>1. Fail(c, "AUTH", "BAD_REQUEST")
    BY <1>4 DEF AuthMalformed
  <2>2. PICK m \in Message : /\ m.type = "AUTH" /\ m.code = "BAD_REQUEST" /\ m.class = "ERR"
                             /\ sendq'[c] = Append(sendq[c], m)
    BY <1>0, <2>1, Failed DEF Fail
  <2>. QED
    BY <1>4, <2>2 DEF Effect
<1>. QED
  BY <1>1, <1>2, <1>3, <1>4

LEMMA OtherEffect ==
  ASSUME Inv, NEW c \in Conn, NEW r \in Request, r.type \in {"LOGOUT", "REGISTER", "DROP"},
         HandleRequest(c, r)
  PROVE  \E m \in Message : Effect(c, r, m)
<1>0. TypeOK /\ clt \in [Conn -> Client] /\ clt[c] \in Client /\ NoId \in Nat
  BY DEF Inv, TypeOK, NoId
<1>. USE Words
<1>1. ASSUME Logout(c), r.type = "LOGOUT"
      PROVE  \E m \in Message : Effect(c, r, m)
  <2>1. Reply(c, "LOGOUT", "OK") /\ clt[c].st = "AUTH_OK"
    BY <1>1 DEF Logout, Served, AuthOk
  <2>2. PICK m \in Message : /\ m.type = "LOGOUT" /\ m.code = "OK" /\ m.class = "RES"
                             /\ sendq'[c] = Append(sendq[c], m)
    BY <1>0, <2>1, Replied
  <2>3. clt'[c].st = "PRE_LOGIN"
    BY <1>0, <1>1 DEF Logout, Free
  <2>4. After(clt[c].st, m) = "PRE_LOGIN"
    BY <2>1, <2>2 DEF After
  <2>. QED
    BY <1>1, <2>1, <2>2, <2>3, <2>4 DEF Effect
<1>2. ASSUME Forbidden(c, r.type, "REQ", NoId)
      PROVE  \E m \in Message : Effect(c, r, m)
  <2>1. UNCHANGED clt /\ Enqueue(c, ErrorResponse(c, r.type, NoId, "FORBIDDEN"))
    BY <1>2 DEF Forbidden
  <2>2. PICK m \in Message : /\ m.type = r.type /\ m.code = "FORBIDDEN" /\ m.class = "ERR"
                             /\ sendq'[c] = Append(sendq[c], m)
    BY <1>0, <2>1, Failed
  <2>3. After(clt[c].st, m) = clt[c].st
    BY <2>2 DEF After
  <2>. QED
    BY <2>1, <2>2, <2>3 DEF Effect
<1>3. ASSUME RegisterTooEarly(c) \/ Register(c, r.arg), r.type = "REGISTER"
      PROVE  \E m \in Message : Effect(c, r, m)
  <2>1. UNCHANGED clt
    BY <1>3 DEF RegisterTooEarly, Register
  <2>2. \/ Reply(c, "REGISTER", "OK")
        \/ \E code \in {"LOCKED", "UNAUTHORIZED"} : Fail(c, "REGISTER", code)
    BY <1>3 DEF RegisterTooEarly, Register
  <2>3. PICK m \in Message : /\ m.type = "REGISTER" /\ m.code \in {"OK", "LOCKED", "UNAUTHORIZED"}
                             /\ sendq'[c] = Append(sendq[c], m)
    BY <1>0, <2>2, Replied, Failed DEF Fail
  <2>4. After(clt[c].st, m) = clt[c].st
    BY <2>3 DEF After
  <2>. QED
    BY <1>3, <2>1, <2>3, <2>4 DEF Effect
<1>4. ASSUME Drop(c), r.type = "DROP"
      PROVE  \E m \in Message : Effect(c, r, m)
  <2>1. UNCHANGED clt
    BY <1>4 DEF Drop
  <2>2. Reply(c, "DROP", "OK") \/ Fail(c, "DROP", "NOT_FOUND")
    BY <1>4 DEF Drop
  <2>3. PICK m \in Message : /\ m.type = "DROP" /\ m.code \in {"OK", "NOT_FOUND"}
                             /\ sendq'[c] = Append(sendq[c], m)
    BY <1>0, <2>2, Replied, Failed DEF Fail
  <2>4. After(clt[c].st, m) = clt[c].st
    BY <2>3 DEF After
  <2>. QED
    BY <1>4, <2>1, <2>3, <2>4 DEF Effect
<1>. QED
  BY <1>1, <1>2, <1>3, <1>4 DEF HandleRequest

LEMMA RequestEffect ==
  ASSUME Inv, NEW c \in Conn, NEW r \in Request, Typed(r), HandleRequest(c, r),
         clt'[c].st # "INVALID"
  PROVE  \E m \in Message : Effect(c, r, m)
  BY LoginEffect, AuthEffect, OtherEffect DEF HandleRequest, Typed, Request, RequestTypes

(* The server's invariant.                                                  *)
LEMMA RequestInv ==
  ASSUME Inv, NEW c \in Conn, NEW r \in Request, Typed(r), HandleRequest(c, r)
  PROVE  Inv'
<1>1. CASE r.type = "LOGIN"
  <2>1. CASE LoginMalformed(c)
    BY <2>1, ReplyType, QueuesOnly DEF LoginMalformed, Inv, Types, Codes
  <2>. QED
    BY <1>1, <2>1, LoginInv DEF HandleRequest, Typed
<1>2. CASE r.type = "AUTH"
  BY <1>2, AuthInv DEF HandleRequest, Typed
<1>3. CASE r.type \in {"LOGOUT", "DROP", "REGISTER"}
  <2>1. ASSUME Forbidden(c, r.type, "REQ", NoId)
        PROVE  Inv'
    <3>1. TypeOK /\ NoId \in Nat /\ r.type \in Types
      BY <1>3 DEF Inv, NoId, Types
    <3>2. ErrorResponse(c, r.type, NoId, "FORBIDDEN") \in Message
      BY <3>1, ResponseType DEF Codes
    <3>. QED
      BY <2>1, <3>1, <3>2, EnqueueType, QueuesOnly DEF Forbidden
  <2>. QED
    BY <1>3, <2>1, AuthInv, AccountsInv DEF HandleRequest, Typed, Accounts
<1>. QED
  BY <1>1, <1>2, <1>3 DEF Request, RequestTypes

-----------------------------------------------------------------------------
(* The invariant *)

(* No transaction id is on its way twice. *)
Unique(ids, w, o) ==
  /\ Once(ids) /\ Once(IdsOf(w)) /\ Once(IdsOf(o))
  /\ Range(ids) \cap Range(IdsOf(w)) = {}
  /\ Range(ids) \cap Range(IdsOf(o)) = {}
  /\ Range(IdsOf(w)) \cap Range(IdsOf(o)) = {}

(* What the client has sent is on its list of pending requests, until it    *)
(* has read the answer.                                                     *)
Expected(as, w, p) ==
  /\ \A r \in w : [type |-> r.type, id |-> r.id] \in p
  /\ \A a \in as : [type |-> a.type, id |-> a.id] \in p

(* The ids of challenges that are on their way to the client, and of AUTH   *)
(* requests on theirs to the server. There is one, and the server waits.    *)
AuthIds(as, w, o) ==
  {r.id : r \in {x \in w \cup o : x.type = "AUTH"}}
    \cup {a.id : a \in {x \in as : x.code = "CHALLENGE"}}

OneAuth(as, w, o, s) ==
  /\ \A x, y \in AuthIds(as, w, o) : x = y
  /\ AuthIds(as, w, o) # {} => s = "LOGIN_OK"

Calm == link = "up" /\ upset = {}
Sent == Range(Answers(sendq[slot], tags))

Settled ==
  /\ Expected(Sent, Range(wire), pending)
  /\ OneAuth(Sent, Range(wire), Range(outq), clt[slot].st)
  /\ Leads(st, sendq[slot], clt[slot].st)

CltInv ==
  /\ Inv /\ CltTypeOK
  /\ Unique(tags, wire, outq)
  /\ \A r \in Range(wire) \cup Range(outq) : Typed(r)
  /\ Calm => Settled

LEMMA UniqueCommand ==
  ASSUME NEW t \in Seq(TrfIds), NEW w \in Seq(Request), NEW o \in Seq(Request), NEW r \in Request,
         Unique(t, w, o), r.id \notin Range(t) \cup Range(IdsOf(w)) \cup Range(IdsOf(o))
  PROVE  Unique(t, w, Append(o, r))
<1>1. /\ IdsOf(o) \in Seq(TrfIds) /\ r.id \in TrfIds
      /\ IdsOf(Append(o, r)) = Append(IdsOf(o), r.id)
  BY IdsOfAppend
<1>2. Range(Append(IdsOf(o), r.id)) = Range(IdsOf(o)) \cup {r.id}
  BY <1>1, RangeAppend
<1>3. Once(Append(IdsOf(o), r.id))
  BY <1>1, OnceAppend DEF Unique
<1>. QED
  BY <1>1, <1>2, <1>3 DEF Unique

LEMMA UniqueLost ==
  ASSUME NEW t, NEW w, NEW o \in Seq(Request), o # <<>>, Unique(t, w, o)
  PROVE  Unique(t, w, Tail(o)) /\ Head(o).id \notin Range(t) \cup Range(IdsOf(w)) \cup Range(IdsOf(Tail(o)))
<1>1. /\ IdsOf(o) \in Seq(TrfIds) /\ IdsOf(o) # <<>>
      /\ Head(IdsOf(o)) = Head(o).id /\ IdsOf(Tail(o)) = Tail(IdsOf(o))
  BY IdsOfTail
<1>2. Range(IdsOf(o)) = {Head(o).id} \cup Range(Tail(IdsOf(o)))
  BY <1>1, RangeTail
<1>3. Once(Tail(IdsOf(o))) /\ Head(o).id \notin Range(Tail(IdsOf(o)))
  BY <1>1, OnceTail DEF Unique
<1>. QED
  BY <1>1, <1>2, <1>3 DEF Unique

LEMMA UniqueSent ==
  ASSUME NEW t \in Seq(TrfIds), NEW w \in Seq(Request), NEW o \in Seq(Request), o # <<>>,
         Unique(t, w, o)
  PROVE  Unique(t, Append(w, Head(o)), Tail(o))
<1>0. Head(o) \in Request
  BY TailFacts
<1>1. /\ IdsOf(w) \in Seq(TrfIds) /\ Head(o).id \in TrfIds
      /\ IdsOf(Append(w, Head(o))) = Append(IdsOf(w), Head(o).id)
  BY <1>0, IdsOfAppend
<1>2. /\ Unique(t, w, Tail(o))
      /\ Head(o).id \notin Range(t) \cup Range(IdsOf(w)) \cup Range(IdsOf(Tail(o)))
  BY UniqueLost
<1>3. Range(Append(IdsOf(w), Head(o).id)) = Range(IdsOf(w)) \cup {Head(o).id}
  BY <1>1, RangeAppend
<1>4. Once(Append(IdsOf(w), Head(o).id))
  BY <1>1, <1>2, OnceAppend DEF Unique
<1>5. /\ Once(IdsOf(Append(w, Head(o))))
      /\ Range(IdsOf(Append(w, Head(o)))) = Range(IdsOf(w)) \cup {Head(o).id}
  BY <1>1, <1>3, <1>4
<1>. QED
  BY <1>2, <1>5 DEF Unique

LEMMA UniqueHandled ==
  ASSUME NEW t \in Seq(TrfIds), NEW w \in Seq(Request), NEW o, w # <<>>, Unique(t, w, o)
  PROVE  /\ Unique(Append(t, Head(w).id), Tail(w), o)
         /\ Head(w).id \notin Range(t) \cup Range(IdsOf(Tail(w))) \cup Range(IdsOf(o))
<1>1. /\ IdsOf(w) \in Seq(TrfIds) /\ IdsOf(w) # <<>>
      /\ Head(IdsOf(w)) = Head(w).id /\ IdsOf(Tail(w)) = Tail(IdsOf(w))
  BY IdsOfTail
<1>2. Range(IdsOf(w)) = {Head(w).id} \cup Range(Tail(IdsOf(w))) /\ Head(w).id \in TrfIds
  BY <1>1, RangeTail, TailFacts
<1>3. Once(Tail(IdsOf(w))) /\ Head(w).id \notin Range(Tail(IdsOf(w)))
  BY <1>1, OnceTail DEF Unique
<1>4. Range(Append(t, Head(w).id)) = Range(t) \cup {Head(w).id}
  BY <1>2, RangeAppend
<1>5. Head(w).id \notin Range(t)
  BY <1>2 DEF Unique
<1>6. Once(Append(t, Head(w).id))
  BY <1>2, <1>5, OnceAppend DEF Unique
<1>. QED
  BY <1>1, <1>2, <1>3, <1>4, <1>5, <1>6 DEF Unique

LEMMA UniqueRead ==
  ASSUME NEW t \in Seq(TrfIds), NEW w, NEW o, t # <<>>, Unique(t, w, o)
  PROVE  /\ Unique(Tail(t), w, o)
         /\ Head(t) \notin Range(Tail(t)) \cup Range(IdsOf(w)) \cup Range(IdsOf(o))
<1>1. Range(t) = {Head(t)} \cup Range(Tail(t))
  BY RangeTail
<1>2. Once(Tail(t)) /\ Head(t) \notin Range(Tail(t))
  BY OnceTail DEF Unique
<1>. QED
  BY <1>1, <1>2 DEF Unique

LEMMA UniqueGone ==
  ASSUME NEW t, NEW w, NEW o, Unique(t, w, o)
  PROVE  Unique(<<>>, <<>>, o)
<1>1. Once(<<>>) /\ Range(<<>>) = {} /\ IdsOf(<<>>) = <<>>
  BY DEF Once, Range, IdsOf
<1>. QED
  BY <1>1 DEF Unique

LEMMA UniqueNone == Unique(<<>>, <<>>, <<>>)
<1>1. Once(<<>>) /\ Range(<<>>) = {} /\ IdsOf(<<>>) = <<>>
  BY DEF Once, Range, IdsOf
<1>. QED
  BY <1>1 DEF Unique

LEMMA NothingSent == Range(Answers(<<>>, <<>>)) = {} /\ Range(<<>>) = {}
  BY DEF Answers, Range

LEMMA Linked ==
  ASSUME CltInv, link = "up"
  PROVE  /\ slot \in Conn /\ clt[slot].st \in States \ {"INVALID"} /\ st \in States \ {"INVALID"}
         /\ sendq[slot] \in Seq(Message) /\ tags \in Seq(TrfIds) /\ Len(tags) = Len(sendq[slot])
  BY NoSlotAssumption DEF CltInv, CltTypeOK, Inv, TypeOK, Client, Open

-----------------------------------------------------------------------------
(* One lemma per action *)

LEMMA LeastNat ==
  ASSUME NEW T, T \subseteq Nat, T # {}
  PROVE  \E x \in T : \A y \in T : x <= y
<1>. DEFINE R == {ss \in Nat \X Nat : ss[1] < ss[2]}
<1>1. IsWellFoundedOn(R, Nat)
  BY NatLessThanWellFounded DEF OpToRel
<1>. HIDE DEF R
<1>2. PICK x \in T : \A y \in T : ~(<<y, x>> \in R)
  BY <1>1, WFMin
<1>3. ASSUME NEW y \in T PROVE x <= y
  <2>1. y \in Nat /\ x \in Nat /\ <<y, x>>[1] = y /\ <<y, x>>[2] = x
    OBVIOUS
  <2>2. <<y, x>> \notin R
    BY <1>2
  <2>3. ~(y < x)
    BY <2>1, <2>2 DEF R
  <2>. QED
    BY <2>1, <2>3
<1>. QED
  BY <1>3

LEMMA FreeId ==
  ASSUME CltInv, TrfIds \ IdsInUse # {},
         NEW i, i = CHOOSE j \in TrfIds \ IdsInUse : \A k \in TrfIds \ IdsInUse : j <= k
  PROVE  /\ i \in TrfIds
         /\ i \notin Range(tags) \cup Range(IdsOf(wire)) \cup Range(IdsOf(outq))
<1>1. TrfIds \ IdsInUse \subseteq Nat
  BY DEF TrfIds
<1>2. i \in TrfIds \ IdsInUse
  BY <1>1, LeastNat
<1>3. wire \in Seq(Request) /\ outq \in Seq(Request)
  BY DEF CltInv, CltTypeOK
<1>4. Range(outq) \cup Range(wire) \subseteq Range(outq \o wire)
  BY <1>3, RangeConcat
<1>5. /\ Range(IdsOf(wire)) = {r.id : r \in Range(wire)}
      /\ Range(IdsOf(outq)) = {r.id : r \in Range(outq)}
  BY <1>3, RangeIds
<1>. QED
  BY <1>2, <1>4, <1>5 DEF IdsInUse

LEMMA CommandInv ==
  ASSUME CltInv, UserCommand
  PROVE  CltInv'
<1>1. PICK r \in Request :
        /\ r.type # "AUTH" /\ Typed(r) /\ outq' = Append(outq, r)
        /\ r.id \notin Range(tags) \cup Range(IdsOf(wire)) \cup Range(IdsOf(outq))
        /\ UNCHANGED <<vars, st, pending, connection, upset>>
  <2>1. ASSUME NEW type \in RequestTypes \ {"AUTH"}, NEW arg \in Names \cup Keys \cup {Nothing},
               Command(type, arg), type = "LOGIN" => arg \in Names,
               type = "REGISTER" => arg \in PlainKeys
        PROVE  \E r \in Request :
                 /\ r.type # "AUTH" /\ Typed(r) /\ outq' = Append(outq, r)
                 /\ r.id \notin Range(tags) \cup Range(IdsOf(wire)) \cup Range(IdsOf(outq))
                 /\ UNCHANGED <<vars, st, pending, connection, upset>>
    <3>. DEFINE i == CHOOSE j \in TrfIds \ IdsInUse : \A k \in TrfIds \ IdsInUse : j <= k
                r == [type |-> type, arg |-> arg, id |-> i]
    <3>1. TrfIds \ IdsInUse # {} /\ outq' = Append(outq, r)
      BY <2>1 DEF Command
    <3>2. i \in TrfIds /\ i \notin Range(tags) \cup Range(IdsOf(wire)) \cup Range(IdsOf(outq))
      BY <3>1, FreeId
    <3>. HIDE DEF i
    <3>3. r \in Request /\ Typed(r)
      BY <2>1, <3>2 DEF Request, Typed
    <3>. QED
      BY <2>1, <3>1, <3>2, <3>3 DEF Command
  <2>. QED
    BY <2>1, PlainKeysAssumption DEF UserCommand, RequestTypes
<1>2. outq \in Seq(Request)
  BY DEF CltInv, CltTypeOK
<1>3. Range(outq') = Range(outq) \cup {r} /\ outq' \in Seq(Request)
  BY <1>1, <1>2, RangeAppend, AppendFacts
<1>4. Inv'
  BY <1>1, NextInv DEF CltInv
<1>5. CltTypeOK'
  BY <1>1, <1>3 DEF CltInv, CltTypeOK, vars, connection, Open
<1>6. Unique(tags, wire, outq)'
  BY <1>1, <1>2, UniqueCommand DEF CltInv, CltTypeOK, connection
<1>7. (\A x \in Range(wire) \cup Range(outq) : Typed(x))'
  BY <1>1, <1>3 DEF CltInv, connection, Typed
<1>8. (Calm => Settled)'
  <2>1. UNCHANGED <<Sent, wire, pending, clt, slot, st, sendq, link, upset>>
    BY <1>1 DEF Sent, vars, connection
  <2>2. AuthIds(Sent, Range(wire), Range(outq)') = AuthIds(Sent, Range(wire), Range(outq))
    BY <1>1, <1>3 DEF AuthIds
  <2>. QED
    BY <2>1, <2>2 DEF CltInv, Calm, Settled, OneAuth
<1>. QED
  BY <1>4, <1>5, <1>6, <1>7, <1>8 DEF CltInv

LEMMA ConnectInv ==
  ASSUME CltInv, Connect
  PROVE  CltInv'
<1>1. PICK c \in Conn : ConnectTo(c)
  BY DEF Connect
<1>. DEFINE r == [Free EXCEPT !.st = "PRE_LOGIN"]
<1>2. r = [st |-> "PRE_LOGIN", id |-> NoId, name |-> NoName, key |-> NoKey]
  BY DEF Free
<1>3. r \in Client
  BY <1>2 DEF Client, States, NoId
<1>4. r.id < db.next
  BY <1>2 DEF CltInv, Inv, TypeOK, Database, Ids, NoId
<1>5. clt' = [clt EXCEPT ![c] = r] /\ sendq' = [d \in Conn |-> <<>>] /\ UNCHANGED db
  BY <1>1 DEF ConnectTo, Unread
<1>6. Inv'
  <2>1. sendq' \in [Conn -> Seq(Message)] /\ Inv
    BY <1>5 DEF CltInv
  <2>. QED
    BY <1>2, <1>3, <1>4, <1>5, <2>1, OneClient, SameDatabase
<1>7. clt'[c].st = "PRE_LOGIN" /\ sendq'[c] = <<>>
  BY <1>2, <1>5 DEF CltInv, Inv, TypeOK
<1>8. /\ link' = "up" /\ slot' = c /\ wire' = <<>> /\ tags' = <<>> /\ st' = "PRE_LOGIN"
      /\ outq' = outq /\ pending' = pending
      /\ upset' = IF outq = <<>> THEN {} ELSE {"leftover"}
  BY <1>1 DEF ConnectTo, Connect
<1>9. CltTypeOK'
  BY <1>7, <1>8, NoSlotAssumption DEF CltInv, CltTypeOK, Open, States
<1>10. Unique(tags, wire, outq)'
  BY <1>8, UniqueGone DEF CltInv
<1>11. (\A x \in Range(wire) \cup Range(outq) : Typed(x))'
  BY <1>8, NothingSent DEF CltInv, Typed
<1>12. (Calm => Settled)'
  <2>1. SUFFICES ASSUME outq' = <<>>
                 PROVE  Settled'
    BY <1>8 DEF Calm
  <2>2. Sent' = {} /\ Range(wire)' = {} /\ Range(outq)' = {}
    BY <1>7, <1>8, <2>1, NothingSent DEF Sent
  <2>3. Expected(Sent, Range(wire), pending)'
    BY <2>2 DEF Expected
  <2>4. OneAuth(Sent, Range(wire), Range(outq), clt[slot].st)'
    BY <2>2 DEF OneAuth, AuthIds
  <2>5. Leads(st, sendq[slot], clt[slot].st)'
    BY <1>7, <1>8, LeadsNowhere DEF States
  <2>. QED
    BY <2>3, <2>4, <2>5 DEF Settled
<1>. QED
  BY <1>6, <1>9, <1>10, <1>11, <1>12 DEF CltInv

LEMMA UnlinkedInv ==
  ASSUME CltInv, Unlinked, (outq' = outq /\ pending' = pending) \/ (outq' = <<>> /\ pending' = {})
  PROVE  CltInv'
<1>1. /\ link' = "none" /\ slot' = NoSlot /\ wire' = <<>> /\ tags' = <<>>
      /\ st' = "INVALID" /\ upset' = {} /\ sendq' = [d \in Conn |-> <<>>] /\ UNCHANGED <<clt, db>>
  BY DEF Unlinked, Unread
<1>2. Inv'
  <2>1. sendq' \in [Conn -> Seq(Message)] /\ Inv
    BY <1>1 DEF CltInv
  <2>. QED
    BY <1>1, <2>1, QueuesOnly
<1>3. CltTypeOK'
  <2>1. outq' \in Seq(Request) /\ pending' \subseteq Pending
    <3>1. outq \in Seq(Request) /\ <<>> \in Seq(Request) /\ pending \subseteq Pending
      BY DEF CltInv, CltTypeOK
    <3>. QED
      BY <3>1
  <2>2. <<>> \in Seq(Request) /\ <<>> \in Seq(TrfIds) /\ "INVALID" \in States
    BY DEF States
  <2>. QED
    BY <1>1, <2>1, <2>2 DEF CltTypeOK
<1>4. Unique(tags, wire, outq)'
  BY <1>1, UniqueGone, UniqueNone DEF CltInv
<1>5. (\A x \in Range(wire) \cup Range(outq) : Typed(x))'
  BY <1>1, NothingSent DEF CltInv, Typed
<1>6. ~Calm'
  BY <1>1 DEF Calm
<1>. QED
  BY <1>2, <1>3, <1>4, <1>5, <1>6 DEF CltInv

LEMMA SendInv ==
  ASSUME CltInv, Send
  PROVE  CltInv'
<1>. DEFINE r == Head(outq)
<1>1. /\ outq # <<>> /\ outq' = Tail(outq)
      /\ pending' = pending \cup {[type |-> r.type, id |-> r.id]}
      /\ wire' = IF link = "up" THEN Append(wire, r) ELSE wire
      /\ UNCHANGED <<vars, st, link, slot, tags, upset>>
  BY DEF Send
<1>2. outq \in Seq(Request) /\ wire \in Seq(Request) /\ tags \in Seq(TrfIds)
  BY DEF CltInv, CltTypeOK
<1>3. /\ r \in Request /\ r \in Range(outq) /\ Tail(outq) \in Seq(Request)
      /\ Range(outq) = {r} \cup Range(Tail(outq)) /\ Append(wire, r) \in Seq(Request)
  BY <1>1, <1>2, RangeTail, TailFacts, AppendFacts
<1>. HIDE DEF r
<1>4. Range(Append(wire, r)) = Range(wire) \cup {r}
  BY <1>2, <1>3, RangeAppend
<1>5. Inv'
  BY <1>1, NextInv DEF CltInv
<1>6. CltTypeOK'
  <2>1. [type |-> r.type, id |-> r.id] \in Pending
    BY <1>3 DEF Request, Pending
  <2>. QED
    BY <1>1, <1>3, <2>1 DEF CltInv, CltTypeOK, vars, Open
<1>7. Unique(tags, wire, outq)'
  <2>1. Unique(tags, wire, Tail(outq)) /\ Unique(tags, Append(wire, r), Tail(outq))
    BY <1>1, <1>2, UniqueLost, UniqueSent DEF CltInv, r
  <2>. QED
    BY <1>1, <2>1
<1>8. (\A x \in Range(wire) \cup Range(outq) : Typed(x))'
  BY <1>1, <1>3, <1>4 DEF CltInv, Typed
<1>9. (Calm => Settled)'
  <2>1. UNCHANGED <<Sent, clt, slot, st, sendq, link, upset, tags>>
    BY <1>1 DEF Sent, vars
  <2>2. SUFFICES ASSUME Calm
                 PROVE  Settled'
    BY <2>1 DEF Calm
  <2>3. Settled
    BY <2>2 DEF CltInv
  <2>4. Range(wire') = Range(wire) \cup {r} /\ Range(outq') = Range(Tail(outq))
    BY <1>1, <1>4, <2>2 DEF Calm
  <2>5. AuthIds(Sent, Range(wire'), Range(outq')) = AuthIds(Sent, Range(wire), Range(outq))
    BY <1>3, <2>4 DEF AuthIds
  <2>6. Expected(Sent, Range(wire'), pending')
    BY <1>1, <2>3, <2>4 DEF Expected, Settled
  <2>. QED
    BY <2>1, <2>3, <2>5, <2>6 DEF Settled, OneAuth
<1>. QED
  BY <1>5, <1>6, <1>7, <1>8, <1>9 DEF CltInv

LEMMA TimesOutInv ==
  ASSUME CltInv, TimesOut
  PROVE  CltInv'
<1>1. PICK r \in pending :
        /\ pending' = pending \ {r}
        /\ upset' = IF r.id \in {q.id : q \in Range(wire)} \cup Range(tags)
                      THEN upset \cup {"late"} ELSE upset
        /\ UNCHANGED <<vars, st, outq, connection>>
  BY DEF TimesOut
<1>2. Inv'
  BY <1>1, NextInv DEF CltInv
<1>3. CltTypeOK'
  BY <1>1 DEF CltInv, CltTypeOK, vars, connection, Open
<1>4. Unique(tags, wire, outq)' /\ (\A x \in Range(wire) \cup Range(outq) : Typed(x))'
  BY <1>1 DEF CltInv, connection, Typed
<1>5. (Calm => Settled)'
  <2>1. UNCHANGED <<Sent, clt, slot, st, sendq, link, tags, wire, outq>>
    BY <1>1 DEF Sent, vars, connection
  <2>2. SUFFICES ASSUME Calm'
                 PROVE  Settled'
    OBVIOUS
  <2>3. Calm /\ r.id \notin {q.id : q \in Range(wire)} /\ r.id \notin Range(tags)
    BY <1>1, <2>1, <2>2 DEF Calm
  <2>4. Settled
    BY <2>3 DEF CltInv
  <2>5. \A a \in Sent : a.id \in Range(tags)
    BY <2>3, Linked, AnswerIds DEF Sent, Calm
  <2>6. Expected(Sent, Range(wire), pending')
    BY <1>1, <2>3, <2>4, <2>5 DEF Expected, Settled
  <2>. QED
    BY <2>1, <2>4, <2>6 DEF Settled
<1>. QED
  BY <1>2, <1>3, <1>4, <1>5 DEF CltInv

(* The client takes the first answer off the queue. *)
LEMMA ReadFacts ==
  ASSUME CltInv, Read, NEW m \in Incoming
  PROVE  /\ Inv' /\ link = "up" /\ m = Head(sendq[slot]) /\ m \in Message /\ sendq[slot] # <<>>
         /\ tags # <<>> /\ tags' = Tail(tags) /\ sendq'[slot] = Tail(sendq[slot])
         /\ tags' \in Seq(TrfIds) /\ Head(tags) \in TrfIds /\ Len(tags') = Len(sendq'[slot])
         /\ UNCHANGED <<link, slot, wire, upset, clt>>
<1>1. link = "up" /\ m = Head(sendq[slot]) /\ sendq[slot] # <<>>
  BY DEF Incoming
<1>2. /\ slot \in Conn /\ sendq[slot] \in Seq(Message) /\ tags \in Seq(TrfIds)
      /\ Len(tags) = Len(sendq[slot])
  BY <1>1, Linked
<1>3. sendq'[slot] = Tail(sendq[slot]) /\ tags' = Tail(tags) /\ UNCHANGED <<link, slot, wire, upset, clt>>
  BY <1>2 DEF Read, Transmit, CltInv, Inv, TypeOK
<1>4. Inv'
  BY <1>2, ConnectionInv DEF Read, Connection, CltInv
<1>5. tags # <<>>
  BY <1>1, <1>2
<1>6. m \in Message /\ Tail(tags) \in Seq(TrfIds) /\ Head(tags) \in TrfIds
      /\ Len(Tail(tags)) = Len(Tail(sendq[slot]))
  BY <1>1, <1>2, <1>5, TailFacts
<1>. QED
  BY <1>1, <1>3, <1>4, <1>5, <1>6

(* Unless the session is upset no answer is dropped. *)
LEMMA Solicited ==
  ASSUME CltInv, Calm, NEW m \in Incoming
  PROVE  ~Unsolicited(m) /\ Answer(m, Head(tags)) \in Sent
<1>1. link = "up" /\ m = Head(sendq[slot]) /\ sendq[slot] # <<>>
  BY DEF Incoming
<1>2. /\ slot \in Conn /\ sendq[slot] \in Seq(Message) /\ tags \in Seq(TrfIds)
      /\ Len(tags) = Len(sendq[slot])
  BY <1>1, Linked
<1>3. Answer(m, Head(tags)) \in Sent
  BY <1>1, <1>2, RangeAnswersTail DEF Sent
<1>4. [type |-> m.type, id |-> Head(tags)] \in pending
  BY <1>3 DEF CltInv, Settled, Expected, Answer
<1>. QED
  BY <1>3, <1>4 DEF Unsolicited, Matching

LEMMA IgnoreInv ==
  ASSUME CltInv, Ignore
  PROVE  CltInv'
<1>1. PICK m \in Incoming : Unsolicited(m)
  BY DEF Ignore
<1>2. Read /\ UNCHANGED <<st, outq, pending>>
  BY DEF Ignore, client
<1>3. /\ Inv' /\ link = "up" /\ m = Head(sendq[slot]) /\ m \in Message /\ sendq[slot] # <<>>
      /\ tags # <<>> /\ tags' = Tail(tags) /\ sendq'[slot] = Tail(sendq[slot])
      /\ tags' \in Seq(TrfIds) /\ Head(tags) \in TrfIds /\ Len(tags') = Len(sendq'[slot])
      /\ UNCHANGED <<link, slot, wire, upset, clt>>
  BY <1>1, <1>2, ReadFacts
<1>4. CltTypeOK'
  BY <1>2, <1>3 DEF CltInv, CltTypeOK, Open
<1>5. Unique(tags, wire, outq)'
  BY <1>2, <1>3, UniqueRead DEF CltInv, CltTypeOK
<1>6. (\A x \in Range(wire) \cup Range(outq) : Typed(x))'
  BY <1>2, <1>3 DEF CltInv, Typed
<1>7. ~Calm'
  BY <1>1, <1>3, Solicited DEF Calm
<1>. QED
  BY <1>3, <1>4, <1>5, <1>6, <1>7 DEF CltInv

LEMMA ProcessInv ==
  ASSUME CltInv, Process
  PROVE  CltInv'
<1>1. PICK m \in Incoming :
        /\ ~Unsolicited(m)
        /\ st' = After(st, m)
        /\ pending' = IF m.class = "RES" THEN pending \ Matching(m, Head(tags)) ELSE pending
        /\ IF m.code = "CHALLENGE" /\ st = "PRE_LOGIN"
             THEN \E k \in Keys :
                    outq' = Append(outq, [type |-> "AUTH", arg |-> k, id |-> Head(tags)])
             ELSE outq' = outq
  BY DEF Process
<1>2. Read
  BY DEF Process
<1>3. /\ Inv' /\ link = "up" /\ m = Head(sendq[slot]) /\ m \in Message /\ sendq[slot] # <<>>
      /\ tags # <<>> /\ tags' = Tail(tags) /\ sendq'[slot] = Tail(sendq[slot])
      /\ tags' \in Seq(TrfIds) /\ Head(tags) \in TrfIds /\ Len(tags') = Len(sendq'[slot])
      /\ UNCHANGED <<link, slot, wire, upset, clt>>
  BY <1>2, ReadFacts
<1>4. /\ st \in States \ {"INVALID"} /\ outq \in Seq(Request) /\ wire \in Seq(Request)
      /\ tags \in Seq(TrfIds) /\ sendq[slot] \in Seq(Message) /\ Len(tags) = Len(sendq[slot])
  BY <1>3, Linked DEF CltInv, CltTypeOK
<1>5. /\ Unique(Tail(tags), wire, outq)
      /\ Head(tags) \notin Range(Tail(tags)) \cup Range(IdsOf(wire)) \cup Range(IdsOf(outq))
  BY <1>3, <1>4, UniqueRead DEF CltInv
<1>6. \/ outq' = outq
      \/ \E r \in Request : /\ m.code = "CHALLENGE" /\ r.type = "AUTH" /\ r.id = Head(tags) /\ Typed(r)
                            /\ outq' = Append(outq, r)
  <2>1. ASSUME NEW k \in Keys
        PROVE  /\ [type |-> "AUTH", arg |-> k, id |-> Head(tags)] \in Request
               /\ Typed([type |-> "AUTH", arg |-> k, id |-> Head(tags)])
    BY <1>3 DEF Request, RequestTypes, Typed
  <2>. QED
    BY <1>1, <2>1
<1>7. outq' \in Seq(Request)
  BY <1>4, <1>6, AppendFacts
<1>8. CltTypeOK'
  <2>1. st' \in States \ {"INVALID"}
    BY <1>1, <1>4, AfterType
  <2>2. pending' \subseteq Pending
    BY <1>1 DEF CltInv, CltTypeOK
  <2>. QED
    BY <1>3, <1>7, <2>1, <2>2 DEF CltInv, CltTypeOK, Open
<1>9. Unique(tags, wire, outq)'
  <2>1. ASSUME NEW r \in Request, r.id = Head(tags)
        PROVE  Unique(Tail(tags), wire, Append(outq, r))
    BY <1>3, <1>4, <1>5, <2>1, UniqueCommand
  <2>. QED
    BY <1>3, <1>5, <1>6, <2>1
<1>10. \/ Range(outq') = Range(outq)
       \/ \E r \in Request : /\ m.code = "CHALLENGE" /\ r.id = Head(tags) /\ Typed(r)
                             /\ Range(outq') = Range(outq) \cup {r}
  <2>1. \A r \in Request : Range(Append(outq, r)) = Range(outq) \cup {r}
    BY <1>4, RangeAppend
  <2>. QED
    BY <1>6, <2>1
<1>11. (\A x \in Range(wire) \cup Range(outq) : Typed(x))'
  BY <1>3, <1>10 DEF CltInv, Typed
<1>12. (Calm => Settled)'
  <2>1. SUFFICES ASSUME Calm
                 PROVE  Settled'
    BY <1>3 DEF Calm
  <2>2. Settled /\ Answer(m, Head(tags)) \in Sent
    BY <2>1, Solicited DEF CltInv
  <2>3. Sent' \subseteq Sent /\ \A a \in Sent' : a.id \in Range(Tail(tags))
    BY <1>3, <1>4, RangeAnswersTail DEF Sent
  <2>4. \A r \in Range(wire) : r.id \in Range(IdsOf(wire))
    BY <1>4, RangeIds
  <2>5. Expected(Sent, Range(wire), pending)'
    <3>1. \A p \in pending : p.id # Head(tags) => p \in pending'
      BY <1>1 DEF Matching
    <3>2. \A r \in Range(wire) : [type |-> r.type, id |-> r.id] \in pending'
      BY <1>5, <2>2, <2>4, <3>1 DEF Settled, Expected
    <3>3. \A a \in Sent' : [type |-> a.type, id |-> a.id] \in pending'
      BY <1>5, <2>2, <2>3, <3>1 DEF Settled, Expected
    <3>. QED
      BY <1>3, <3>2, <3>3 DEF Expected
  <2>6. AuthIds(Sent', Range(wire), Range(outq')) \subseteq AuthIds(Sent, Range(wire), Range(outq))
    <3>1. CASE Range(outq') = Range(outq)
      BY <2>3, <3>1 DEF AuthIds
    <3>2. ASSUME NEW r \in Request, m.code = "CHALLENGE", r.id = Head(tags),
                 Range(outq') = Range(outq) \cup {r}
          PROVE  AuthIds(Sent', Range(wire), Range(outq')) \subseteq AuthIds(Sent, Range(wire), Range(outq))
      <4>1. r.id \in AuthIds(Sent, Range(wire), Range(outq))
        BY <2>2, <3>2 DEF AuthIds, Answer
      <4>. QED
        BY <2>3, <3>2, <4>1 DEF AuthIds
    <3>. QED
      BY <1>10, <3>1, <3>2
  <2>7. OneAuth(Sent, Range(wire), Range(outq), clt[slot].st)'
    BY <1>3, <2>2, <2>6 DEF Settled, OneAuth
  <2>8. Leads(st, sendq[slot], clt[slot].st)'
    BY <1>1, <1>3, <1>4, <2>2, LeadsOn DEF Settled
  <2>. QED
    BY <2>5, <2>7, <2>8 DEF Settled
<1>. QED
  BY <1>3, <1>8, <1>9, <1>11, <1>12 DEF CltInv

LEMMA BrokenInv ==
  ASSUME CltInv, Inv', link = "up", Broken
  PROVE  CltInv'
<1>1. /\ link' = "broken" /\ slot' = NoSlot /\ wire' = <<>> /\ tags' = <<>>
      /\ UNCHANGED <<st, outq, pending, upset>>
  BY DEF Broken, client
<1>2. CltTypeOK'
  BY <1>1 DEF CltInv, CltTypeOK
<1>3. Unique(tags, wire, outq)'
  BY <1>1, UniqueGone DEF CltInv
<1>4. (\A x \in Range(wire) \cup Range(outq) : Typed(x))'
  BY <1>1, NothingSent DEF CltInv, Typed
<1>5. ~Calm'
  BY <1>1 DEF Calm
<1>. QED
  BY <1>2, <1>3, <1>4, <1>5 DEF CltInv

LEMMA HandleInv ==
  ASSUME CltInv, Handle
  PROVE  CltInv'
<1>. DEFINE r == Head(wire)
<1>1. link = "up" /\ wire # <<>> /\ HandleRequest(slot, r)
  BY DEF Handle
<1>2. /\ slot \in Conn /\ sendq[slot] \in Seq(Message) /\ Len(tags) = Len(sendq[slot])
      /\ tags \in Seq(TrfIds) /\ wire \in Seq(Request) /\ outq \in Seq(Request)
      /\ clt[slot].st \in States
  BY <1>1, Linked DEF CltInv, CltTypeOK
<1>3. /\ r \in Request /\ r \in Range(wire) /\ Tail(wire) \in Seq(Request) /\ r.id \in TrfIds
      /\ Range(wire) = {r} \cup Range(Tail(wire))
  <2>1. r \in Request /\ Tail(wire) \in Seq(Request)
    BY <1>1, <1>2, TailFacts
  <2>2. r \in Range(wire) /\ Range(wire) = {r} \cup Range(Tail(wire))
    BY <1>1, <1>2, RangeTail
  <2>3. r.id \in TrfIds
    BY <2>1 DEF Request
  <2>. QED
    BY <2>1, <2>2, <2>3
<1>4. Typed(r)
  BY <1>3 DEF CltInv
<1>5. /\ Unique(Append(tags, r.id), Tail(wire), outq)
      /\ r.id \notin Range(tags) \cup Range(IdsOf(Tail(wire))) \cup Range(IdsOf(outq))
  BY <1>1, <1>2, UniqueHandled DEF CltInv
<1>6. Inv'
  BY <1>1, <1>2, <1>3, <1>4, RequestInv DEF CltInv
<1>7. CASE Broken
  BY <1>1, <1>6, <1>7, BrokenInv
<1>8. CASE ~Broken
  <2>1. /\ clt'[slot].st # "INVALID" /\ wire' = Tail(wire) /\ tags' = Append(tags, r.id)
        /\ upset' = IF sendq'[slot][Len(sendq'[slot])].code = "METHOD_NOT_ALLOWED"
                      THEN upset \cup {"refused"} ELSE upset
        /\ UNCHANGED <<st, outq, pending, link, slot>>
    BY <1>8 DEF Handle, client
  <2>. HIDE DEF r
  <2>2. PICK m \in Message : Effect(slot, r, m)
    BY <1>1, <1>2, <1>3, <1>4, <2>1, RequestEffect DEF CltInv
  <2>3. sendq'[slot] = Append(sendq[slot], m) /\ m.type = r.type
    BY <2>2 DEF Effect
  <2>4. sendq'[slot][Len(sendq'[slot])] = m /\ Len(sendq'[slot]) = Len(tags')
        /\ tags' \in Seq(TrfIds)
    BY <1>2, <1>3, <2>1, <2>3, AppendFacts
  <2>5. CltTypeOK'
    BY <1>1, <1>3, <2>1, <2>4 DEF CltInv, CltTypeOK, Open
  <2>6. Unique(tags, wire, outq)'
    BY <1>5, <2>1
  <2>7. (\A x \in Range(wire) \cup Range(outq) : Typed(x))'
    BY <1>3, <2>1 DEF CltInv, Typed
  <2>8. (Calm => Settled)'
    <3>1. SUFFICES ASSUME Calm'
                   PROVE  Settled'
      OBVIOUS
    <3>2. Calm /\ m.code # "METHOD_NOT_ALLOWED"
      BY <2>1, <2>4, <3>1 DEF Calm
    <3>3. Settled
      BY <3>2 DEF CltInv
    <3>. DEFINE ids == AuthIds(Sent, Range(wire), Range(outq))
                new == AuthIds(Sent', Range(wire'), Range(outq))
    <3>4. (\A x, y \in ids : x = y) /\ (ids # {} => clt[slot].st = "LOGIN_OK")
      BY <3>3 DEF Settled, OneAuth
    <3>5. Sent' = Sent \cup {Answer(m, r.id)}
      BY <1>2, <1>3, <2>1, <2>3, RangeAnswersAppend DEF Sent
    <3>6. r.type = "AUTH" => r.id \in ids
      BY <1>3 DEF AuthIds
    <3>7. Expected(Sent, Range(wire), pending)'
      BY <1>3, <2>1, <2>3, <3>3, <3>5 DEF Settled, Expected, Answer
    <3>8. new \subseteq ids \cup (IF m.code = "CHALLENGE" THEN {r.id} ELSE {})
      BY <1>3, <2>1, <3>5 DEF AuthIds, Answer
    <3>9. m.code # "CHALLENGE" => \A x \in new : x # r.id
      <4>1. \A a \in Sent : a.id \in Range(tags)
        BY <1>2, AnswerIds DEF Sent
      <4>2. \A q \in Range(wire') \cup Range(outq) :
              q.id \in Range(IdsOf(Tail(wire))) \cup Range(IdsOf(outq))
        BY <1>2, <1>3, <2>1, RangeIds
      <4>. QED
        BY <1>5, <3>5, <4>1, <4>2 DEF AuthIds, Answer
    <3>. HIDE DEF ids, new
    <3>10. /\ \A x, y \in new : x = y
           /\ new # {} => clt'[slot].st = "LOGIN_OK"
      <4>1. CASE m.code = "CHALLENGE"
        <5>1. ids = {} /\ clt'[slot].st = "LOGIN_OK"
          BY <2>2, <3>4, <4>1 DEF Effect
        <5>. QED
          BY <3>8, <4>1, <5>1
      <4>2. CASE m.code # "CHALLENGE" /\ r.type = "AUTH"
        <5>1. new = {}
          BY <3>4, <3>6, <3>8, <3>9, <4>2
        <5>. QED
          BY <5>1
      <4>3. CASE m.code # "CHALLENGE" /\ r.type # "AUTH"
        BY <2>2, <3>4, <3>8, <4>3 DEF Effect
      <4>. QED
        BY <4>1, <4>2, <4>3
    <3>11. OneAuth(Sent, Range(wire), Range(outq), clt[slot].st)'
      BY <2>1, <3>10 DEF OneAuth, new
    <3>12. clt'[slot].st = After(clt[slot].st, m)
      BY <2>2, <3>2, <3>4, <3>6 DEF Effect
    <3>13. Leads(st, sendq[slot], clt[slot].st)'
      BY <1>2, <2>1, <2>3, <3>3, <3>12, LeadsFurther DEF Settled
    <3>. QED
      BY <3>7, <3>11, <3>13 DEF Settled
  <2>. QED
    BY <1>6, <2>5, <2>6, <2>7, <2>8 DEF CltInv
<1>. QED
  BY <1>7, <1>8

LEMMA ElsewhereInv ==
  ASSUME CltInv, Elsewhere
  PROVE  CltInv'
<1>1. Inv'
  BY NoSlotAssumption, ConnectionInv, RestartInv, Linked DEF Elsewhere, CltInv, Connection
<1>2. CASE link = "up" /\ clt'[slot].st = "INVALID"
  BY <1>1, <1>2, BrokenInv DEF Elsewhere
<1>3. CASE ~(link = "up" /\ clt'[slot].st = "INVALID")
  <2>1. UNCHANGED <<st, outq, pending, link, slot, wire, tags, upset>>
    BY <1>3 DEF Elsewhere, client, connection
  <2>2. link = "up" => clt'[slot] = clt[slot] /\ sendq'[slot] = sendq[slot]
    <3>. SUFFICES ASSUME link = "up"
                  PROVE  clt'[slot] = clt[slot] /\ sendq'[slot] = sendq[slot]
      OBVIOUS
    <3>0. slot \in Conn /\ clt \in [Conn -> Client] /\ sendq \in [Conn -> Seq(Message)]
      BY Linked DEF CltInv, Inv, TypeOK
    <3>1. ASSUME Restart \/ Close(slot)
          PROVE  FALSE
      BY <1>3, <3>0, <3>1 DEF Restart, Close, Free
    <3>2. ASSUME NEW c \in Conn \ {slot}, Close(c)
          PROVE  clt'[slot] = clt[slot] /\ sendq'[slot] = sendq[slot]
      BY <3>0, <3>2 DEF Close
    <3>. QED
      BY <3>1, <3>2 DEF Elsewhere
  <2>3. CltTypeOK'
    BY <2>1, <2>2 DEF CltInv, CltTypeOK, Open
  <2>4. Unique(tags, wire, outq)' /\ (\A x \in Range(wire) \cup Range(outq) : Typed(x))'
    BY <2>1 DEF CltInv, Typed
  <2>5. (Calm => Settled)'
    <3>1. SUFFICES ASSUME Calm
                   PROVE  Settled'
      BY <2>1 DEF Calm
    <3>2. clt'[slot] = clt[slot] /\ sendq'[slot] = sendq[slot] /\ Settled
      BY <2>2, <3>1 DEF Calm, CltInv
    <3>. QED
      BY <2>1, <3>2 DEF Settled, Sent
  <2>. QED
    BY <1>1, <2>3, <2>4, <2>5 DEF CltInv
<1>. QED
  BY <1>2, <1>3

LEMMA StutterInv ==
  ASSUME CltInv, UNCHANGED sessionVars
  PROVE  CltInv'
<1>1. UNCHANGED <<vars, clt, sendq, st, outq, pending, link, slot, wire, tags, upset>>
  BY DEF sessionVars, client, connection, vars
<1>2. Inv'
  BY <1>1, NextInv DEF CltInv
<1>. QED
  BY <1>1, <1>2 DEF CltInv, CltTypeOK, Calm, Settled, Sent, Open, Typed

-----------------------------------------------------------------------------
(* The theorems *)

LEMMA CltInitInv == CltInit => CltInv
<1>. SUFFICES ASSUME CltInit
              PROVE  CltInv
  OBVIOUS
<1>1. Inv
  BY InitInv DEF CltInit
<1>2. CltTypeOK
  BY DEF CltInit, CltTypeOK, States
<1>3. Unique(tags, wire, outq) /\ ~Calm /\ Range(wire) = {} /\ Range(outq) = {}
  BY UniqueNone, NothingSent DEF CltInit, Calm
<1>. QED
  BY <1>1, <1>2, <1>3 DEF CltInv

LEMMA CltNextInv == CltInv /\ [CltNext]_sessionVars => CltInv'
<1>. SUFFICES ASSUME CltInv, [CltNext]_sessionVars
              PROVE  CltInv'
  OBVIOUS
<1>1. CASE Disconnect \/ Exit
  BY <1>1, UnlinkedInv DEF Disconnect, Exit
<1>. QED
  BY <1>1, CommandInv, ConnectInv, SendInv, IgnoreInv, ProcessInv, TimesOutInv, HandleInv,
     ElsewhereInv, StutterInv DEF CltNext, ClientStep

(* The invariant holds in every reachable state.                            *)
THEOREM CltInvariance == CltSpec => []CltInv
<1>1. CltInit => CltInv
  BY CltInitInv
<1>2. CltInv /\ [CltNext]_sessionVars => CltInv'
  BY CltNextInv
<1>. QED  BY <1>1, <1>2, PTL DEF CltSpec

(* The client keeps its session state, queue and pending list well-formed,  *)
(* has a connection exactly when cfg.st is not CLT_INVALID (connect_srv and *)
(* disconnect_srv in cltmain.c), and for every answer that is on its way    *)
(* there is the transaction id of one request.                              *)
THEOREM CltTypeCorrect == CltSpec => []CltTypeOK
<1>1. CltInv => CltTypeOK
  BY DEF CltInv
<1>. QED  BY <1>1, CltInvariance, PTL

(* Reading the answers on their way takes the client to the state that the  *)
(* server has it in (srvmain.c:559-644 and process_srvmsg in cltmain.c),    *)
(* for any number of requests, answers and reconnects: unless an answer     *)
(* came too late, requests were left over from an earlier connection, or    *)
(* the key of the account is not supported.                                 *)
THEOREM StaysInStep == CltSpec => []InStep
<1>1. CltInv => InStep
  BY DEF CltInv, Calm, Settled, InStep
<1>. QED  BY <1>1, CltInvariance, PTL
=============================================================================
