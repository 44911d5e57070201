--------------------------- MODULE HttpdConnProofs ---------------------------
(***************************************************************************)
(* Proofs about HttpdConn, for any plans of the clients, any POST buffer   *)
(* and any number of pieces of a file:                                     *)
(*   - TypeOK, for every client;                                           *)
(*   - OnceEach, for every client: files are released; orderly requests    *)
(*     are answered, and their handlers told, once;                        *)
(*   - every step of a connection is one that HttpdExchange allows, which  *)
(*     promises something to the clients whose requests fit (Fits).        *)
(***************************************************************************)
EXTENDS HttpdConn, TLAPS

-----------------------------------------------------------------------------
(* The inductive invariants. *)

\* The client is at token cOff of request cReq, or has sent them all.
At(r, off) ==
  /\ r \in 1..(Len(reqs) + 1)
  /\ off \in Nat
  /\ r <= Len(reqs) => off <= reqs[r].body
  /\ r > Len(reqs) => off = 0

\* The server reads behind the client, and never past what it has sent.
PosInv ==
  /\ At(cReq, cOff)
  /\ At(sReq, sOff)
  /\ sReq < cReq \/ (sReq = cReq /\ sOff <= cOff)

\* A client that waits has sent a request only after one that keeps the connection.
ClientInv ==
  waits => \A r \in 1..Len(reqs) :
             r < cReq - 1 \/ (r = cReq - 1 /\ cOff > 0) => reqs[r].chunked

Answered(r) == \E i \in 1..Len(answers) : answers[i] = r

\* The head of request r has been read.
Behind(r, req, off) == r < req \/ (r = req /\ off > 0)
HeadRead(r) == Behind(r, sReq, sOff)

\* The body of the current request, on a connection that is not kept, is read
\* up to here, and its handler was called at its end and not before.
OnLastBody ==
  /\ postLen = reqs[url].body
  /\ \/ sReq = url /\ sOff = received + 1 /\ ~Answered(url)
        /\ (cgi # None => reqs[url].cgi = "eat")
     \/ sReq = url + 1 /\ sOff = 0 /\ received = postLen
        /\ (waits \/ url = Len(reqs)) /\ (cgi = url \/ Answered(url))

CurrentInv ==
  /\ url # None => url \in 1..Len(reqs) /\ HeadRead(url)
  /\ cgi # None => /\ cgi = url /\ chunked = reqs[url].chunked
                   /\ Orderly(url) => ~Answered(url)
  /\ postLen < 0 => received = 0 /\ cgi = None /\ ~disconAfterSent
  /\ postLen > 0 /\ url # None =>
       IF reqs[url].chunked THEN chunked /\ ~Answered(url)
       ELSE ~chunked /\ (Orderly(url) => buffLen <= received /\ OnLastBody)

AnswersInv ==
  /\ \A i \in 1..Len(answers) : answers[i] \in 1..Len(reqs) /\ HeadRead(answers[i])
  /\ HandledOnce

ClosingInv ==
  /\ disconAfterSent => /\ url # None /\ Answered(url) /\ ~reqs[url].chunked
                        /\ Orderly(url) => cgi = None
  /\ needsClose => disconAfterSent
  /\ open => aborts = 0
  /\ AbortedOnce

OnceInv == ClientInv /\ CurrentInv /\ AnswersInv /\ ClosingInv /\ FileReleased

-----------------------------------------------------------------------------
(* The plan, and reading along it. *)

LEMMA PlanType ==
  ASSUME TypeOK
  PROVE  /\ reqs \in Seq(Requests) /\ waits \in BOOLEAN /\ Len(reqs) \in Nat
         /\ \A r \in 1..Len(reqs) :
              /\ reqs[r] \in Requests /\ reqs[r].body \in Nat
              /\ reqs[r].cgi \in {"simple", "stream", "eat"} /\ reqs[r].chunked \in BOOLEAN
<1>1. reqs \in Seq(Requests) /\ waits \in BOOLEAN
  BY ConnAssumption DEF TypeOK
<1>2. Len(reqs) \in Nat /\ \A r \in 1..Len(reqs) : reqs[r] \in Requests
  BY <1>1
<1> QED
  BY <1>1, <1>2 DEF Requests

\* What is read has been sent, and reading it does not pass the client.
LEMMA ReadsSent ==
  ASSUME TypeOK, PosInv, Reads
  PROVE  /\ sReq \in 1..Len(reqs) /\ sOff \in 0..reqs[sReq].body
         /\ TokenRead /\ reqs' = reqs /\ cReq' = cReq /\ cOff' = cOff => PosInv'
<1>1. /\ Len(reqs) \in Nat
      /\ \A r \in 1..Len(reqs) : reqs[r].body \in Nat
  BY PlanType
<1>2. /\ sReq \in 1..Len(reqs) /\ sOff \in 0..reqs[sReq].body
      /\ sReq < cReq \/ (sReq = cReq /\ sOff < cOff)
  BY <1>1 DEF Reads, PosInv, At, TypeOK
<1>3. ASSUME TokenRead, reqs' = reqs, cReq' = cReq, cOff' = cOff PROVE PosInv'
  <2>1. At(cReq, cOff)'
    BY <1>3 DEF At, PosInv
  <2>2. CASE sOff = reqs[sReq].body
    <3>1. sReq' = sReq + 1 /\ sOff' = 0 /\ sReq < cReq
      BY <1>1, <1>2, <1>3, <2>2 DEF TokenRead, PosInv, At
    <3>2. At(sReq, sOff)'
      BY <1>1, <1>2, <1>3, <3>1 DEF At
    <3> QED
      BY <1>2, <1>3, <2>1, <3>1, <3>2 DEF PosInv, At
  <2>3. CASE sOff # reqs[sReq].body
    <3>1. sReq' = sReq /\ sOff' = sOff + 1
      BY <1>3, <2>3 DEF TokenRead
    <3>2. At(sReq, sOff)'
      BY <1>1, <1>2, <1>3, <2>3, <3>1 DEF At
    <3> QED
      BY <1>2, <1>3, <2>1, <3>1, <3>2 DEF PosInv, At
  <2> QED
    BY <2>2, <2>3
<1> QED
  BY <1>2, <1>3

LEMMA PosFrame ==
  ASSUME PosInv, client' = client, sReq' = sReq, sOff' = sOff PROVE PosInv'
  BY DEF PosInv, At, client

LEMMA HangUpPos == ASSUME PosInv, HangUp PROVE PosInv'
  BY DEF PosInv, At, HangUp

LEMMA SendTokenPos ==
  ASSUME TypeOK, PosInv, SendToken PROVE PosInv'
<1>1. /\ Len(reqs) \in Nat
      /\ \A r \in 1..Len(reqs) : reqs[r].body \in Nat
  BY PlanType
<1>2. cReq \in 1..Len(reqs) /\ cOff \in 0..reqs[cReq].body
  BY <1>1 DEF SendToken, PosInv, At
<1>3. reqs' = reqs /\ sReq' = sReq /\ sOff' = sOff
  BY DEF SendToken
<1>4. \/ cReq' = cReq + 1 /\ cOff' = 0
      \/ cReq' = cReq /\ cOff' = cOff + 1 /\ cOff < reqs[cReq].body
  BY <1>1, <1>2 DEF SendToken
<1>5. At(cReq, cOff)' /\ At(sReq, sOff)'
  BY <1>1, <1>2, <1>3, <1>4 DEF At, PosInv
<1> QED
  BY <1>2, <1>3, <1>4, <1>5 DEF PosInv, At

-----------------------------------------------------------------------------
(* Type correctness. *)

\* What a call of a handler sets.
CallType ==
  /\ cgi \in Nat /\ calls \in Nat /\ fileOpen \in BOOLEAN
  /\ chunked \in BOOLEAN /\ disconAfterSent \in BOOLEAN
  /\ postLen \in Nat \union {-1} /\ received \in Nat
  /\ unsent \in BOOLEAN /\ needWriteDone \in BOOLEAN
  /\ answers \in Seq(Nat)

LEMMA CallCgiType ==
  ASSUME TypeOK, NEW r \in Nat, NEW n \in Nat, NEW len \in Nat, NEW got \in Nat,
         NEW ch \in BOOLEAN, CallCgi(r, n, len, got, ch)
  PROVE  CallType'
<1>1. answers' \in Seq(Nat)
  BY DEF CallCgi, TypeOK
<1> QED
  BY <1>1 DEF CallCgi, CallType, TypeOK, None

LEMMA NoUrlType ==
  ASSUME TypeOK, NEW len \in Nat, NEW got \in Nat, NEW ch \in BOOLEAN, NoUrl(len, got, ch)
  PROVE  CallType'
  BY DEF NoUrl, CallType, TypeOK, handler

LEMMA StepTypeOK ==
  ASSUME TypeOK, PosInv, [Next]_vars PROVE TypeOK' /\ PosInv'
<1>1. /\ Len(reqs) \in Nat
      /\ \A r \in 1..Len(reqs) : reqs[r].body \in Nat /\ reqs[r].chunked \in BOOLEAN
  BY PlanType
<1> USE ConnAssumption DEF None
<1>2. CASE SendToken
  <2>1. cReq' \in Nat /\ cOff' \in Nat
    BY <1>2 DEF SendToken, TypeOK
  <2> QED
    BY <1>2, <2>1, SendTokenPos DEF SendToken, TypeOK, handler, flags, post
<1>3. CASE HangUp
  <2>1. TypeOK'
    <3>1. UNCHANGED <<reqs, waits, cReq, cOff, sReq, sOff, open, receiving, url, junk>>
          /\ UNCHANGED <<postLen, received, buffLen, cgi, calls, fileOpen, answers>>
          /\ UNCHANGED <<chunked, disconAfterSent, unsent, needWriteDone, needsClose, aborts>>
      BY <1>3 DEF HangUp, handler, flags, post
    <3>2. clientOpen' \in BOOLEAN
      BY <1>3 DEF HangUp
    <3> QED
      BY <3>1, <3>2 DEF TypeOK
  <2> QED
    BY <1>3, <2>1, HangUpPos
<1>4. ASSUME Reads, TokenRead, client' = client,
             open' \in BOOLEAN, receiving' \in BOOLEAN, url' \in Nat, junk' \in BOOLEAN,
             buffLen' \in 0..PostLen, needsClose' \in BOOLEAN, aborts' \in Nat, CallType'
      PROVE  TypeOK' /\ PosInv'
  <2>1. PosInv'
    BY <1>4, ReadsSent DEF client
  <2>2. sReq' \in Nat /\ sOff' \in Nat
    BY <1>4 DEF TokenRead, TypeOK
  <2> QED
    BY <1>4, <2>1, <2>2 DEF TypeOK, CallType, client
<1>5. CASE ReadHead
  <2>1. sReq \in 1..Len(reqs)
    BY <1>5, ReadsSent DEF ReadHead
  <2>2. /\ reqs[sReq].body \in Nat /\ sReq \in Nat /\ received \in Nat
        /\ (~junk /\ reqs[sReq].chunked) \in BOOLEAN
    BY <1>1, <2>1 DEF TypeOK
  <2>3. CallType'
    BY <1>5, <2>2, CallCgiType, NoUrlType DEF ReadHead
  <2>4. url' \in Nat /\ buffLen' \in 0..PostLen
    BY <1>5, <2>2 DEF ReadHead
  <2> QED
    BY <1>4, <1>5, <2>3, <2>4 DEF ReadHead, TypeOK
<1>6. CASE ReadJunk
  <2>1. CallType'
    BY <1>6 DEF ReadJunk, TypeOK, CallType, handler, flags, post
  <2> QED
    BY <1>4, <1>6, <2>1 DEF ReadJunk, TypeOK, post
<1>7. CASE ReadBody
  <2>1. postLen \in Nat /\ received + 1 \in Nat /\ chunked \in BOOLEAN
        /\ calls + 1 \in Nat /\ cgi \in Nat /\ url \in Nat
    BY <1>7 DEF ReadBody, TypeOK
  <2>2. CASE ~BufferFull
    <3>1. CallType'
      BY <1>7, <2>1, <2>2 DEF ReadBody, TypeOK, CallType, handler, flags
    <3>2. buffLen' \in 0..PostLen
      BY <1>7, <2>1, <2>2 DEF ReadBody, BufferFull, TypeOK
    <3> QED
      BY <1>4, <1>7, <3>1, <3>2 DEF ReadBody, TypeOK
  <2>3. CASE BufferFull
    <3>1. CallType'
      BY <1>7, <2>1, <2>3, CallCgiType, NoUrlType DEF ReadBody
    <3>2. buffLen' \in 0..PostLen
      BY <1>7, <2>3 DEF ReadBody
    <3> QED
      BY <1>4, <1>7, <3>1, <3>2 DEF ReadBody, TypeOK
  <2> QED
    BY <2>2, <2>3
<1>8. CASE ReadUnexpected
  <2>1. aborts' \in Nat /\ fileOpen' \in BOOLEAN
    BY <1>8 DEF ReadUnexpected, closeConnection, TypeOK
  <2>2. CallType'
    BY <1>8, <2>1 DEF ReadUnexpected, TypeOK, CallType, flags, post
  <2> QED
    BY <1>4, <1>8, <2>1, <2>2 DEF ReadUnexpected, closeConnection, TypeOK, post
<1>9. CASE EndRecv
  <2>1. TypeOK'
    BY <1>9 DEF EndRecv, TypeOK, client, handler, flags, post
  <2> QED
    BY <1>9, <2>1, PosFrame DEF EndRecv
<1>10. CASE RecvFails
  <2>1. aborts' \in Nat /\ fileOpen' \in BOOLEAN
    BY <1>10 DEF RecvFails, closeConnection, TypeOK
  <2>2. TypeOK'
    BY <1>10, <2>1 DEF RecvFails, closeConnection, TypeOK, client, flags, post
  <2> QED
    BY <1>10, <2>2, PosFrame DEF RecvFails
<1>11. CASE CloseSent
  <2>1. aborts' \in Nat /\ fileOpen' \in BOOLEAN
    BY <1>11 DEF CloseSent, closeConnection, TypeOK
  <2>2. TypeOK'
    BY <1>11, <2>1 DEF CloseSent, closeConnection, TypeOK, client, flags, post
  <2> QED
    BY <1>11, <2>2, PosFrame DEF CloseSent
<1>12. CASE Disconnect
  <2>1. TypeOK'
    BY <1>12 DEF Disconnect, TypeOK, client, handler, flags, post
  <2> QED
    BY <1>12, <2>1, PosFrame DEF Disconnect
<1>13. CASE Continue
  <2>1. answers' \in Seq(Nat)
    <3>1. answers' = answers \/ answers' = Append(answers, cgi)
      BY <1>13 DEF Continue, handler
    <3>2. answers \in Seq(Nat) /\ cgi \in Nat
      BY DEF TypeOK
    <3> QED
      BY <3>1, <3>2
  <2>2. calls' \in Nat /\ fileOpen' \in BOOLEAN /\ cgi' \in Nat
    BY <1>13 DEF Continue, TypeOK, handler
  <2>3. chunked' \in BOOLEAN /\ disconAfterSent' \in BOOLEAN /\ needWriteDone' \in BOOLEAN
    BY <1>13 DEF Continue, TypeOK, flags
  <2>4. postLen' \in Nat \union {-1} /\ received' \in Nat /\ buffLen' \in 0..PostLen
    BY <1>13 DEF Continue, TypeOK, post
  <2> QED
    <3>1. TypeOK'
      BY <1>13, <2>1, <2>2, <2>3, <2>4 DEF Continue, TypeOK, client
    <3> QED
      BY <1>13, <3>1, PosFrame DEF Continue
<1>14. CASE UNCHANGED vars
  <2>1. TypeOK'
    BY <1>14 DEF vars, TypeOK, client, handler, flags, post
  <2> QED
    BY <1>14, <2>1, PosFrame DEF vars
<1> QED
  BY <1>2, <1>3, <1>5, <1>6, <1>7, <1>8, <1>9, <1>10, <1>11, <1>12, <1>13, <1>14
  DEF Next, Server

LEMMA InitTypeOK == Init => TypeOK /\ PosInv
<1> SUFFICES ASSUME Init PROVE TypeOK /\ PosInv
  OBVIOUS
<1>1. TypeOK
  <2>1. PICK p \in Plans : reqs = p.reqs /\ waits = p.waits
    BY DEF Init
  <2>2. p \in [reqs : Seq(Requests), waits : BOOLEAN]
    BY ConnAssumption
  <2>3. p = [reqs |-> reqs, waits |-> waits]
    BY <2>1, <2>2
  <2>4. [reqs |-> reqs, waits |-> waits] \in Plans
    BY <2>3
  <2>5. answers \in Seq(Nat)
    BY DEF Init
  <2>6. postLen \in Nat \union {-1} /\ buffLen \in 0..PostLen
    BY ConnAssumption DEF Init
  <2> QED
    BY <2>4, <2>5, <2>6 DEF Init, TypeOK, None
<1>2. Len(reqs) \in Nat /\ \A r \in 1..Len(reqs) : reqs[r].body \in Nat
  BY <1>1, PlanType
<1> QED
  BY <1>1, <1>2 DEF Init, PosInv, At

\* Every variable keeps to its range, and the server reads no token that was not
\* sent, whatever the client sends and whenever it hangs up.
THEOREM TypeCorrect == Spec => []TypeOK
<1>1. TypeOK /\ PosInv /\ [Next]_vars => TypeOK' /\ PosInv'
  BY StepTypeOK
<1> QED
  BY <1>1, InitTypeOK, PTL DEF Spec

-----------------------------------------------------------------------------
(* Each once. *)

\* The plan does not change, nor what it makes of its requests.
LEMMA OrderlyStays ==
  ASSUME reqs' = reqs, waits' = waits, NEW r \in Nat
  PROVE  /\ Orderly(r)' <=> Orderly(r)
         /\ reqs[r].chunked => Orderly(r)
  BY DEF Orderly

LEMMA ClientStep ==
  ASSUME TypeOK, PosInv, ClientInv, [Next]_vars PROVE ClientInv'
<1>1. CASE client' = client
  BY <1>1 DEF client, ClientInv
<1>2. CASE HangUp
  BY <1>2 DEF HangUp, ClientInv
<1>3. CASE SendToken
  <2>1. /\ cReq \in Nat /\ cOff \in Nat /\ reqs' = reqs /\ waits' = waits
        /\ \/ cReq' = cReq + 1 /\ cOff' = 0
           \/ cReq' = cReq /\ cOff' = cOff + 1
    BY <1>3 DEF SendToken, TypeOK
  <2>2. waits /\ cReq > 1 /\ cOff = 0 => reqs[cReq - 1].chunked
    BY <1>3 DEF SendToken, MaySend
  <2>3. Len(reqs) \in Nat
    BY PlanType
  <2> SUFFICES ASSUME waits, NEW r \in 1..Len(reqs),
                      r < cReq' - 1 \/ (r = cReq' - 1 /\ cOff' > 0)
               PROVE  reqs[r].chunked
    BY <2>1 DEF ClientInv
  <2>4. r <= cReq - 1
    BY <2>1, <2>3
  <2>5. CASE r = cReq - 1 /\ cOff = 0
    BY <2>1, <2>2, <2>3, <2>5
  <2>6. CASE r < cReq - 1 \/ cOff > 0
    BY <2>1, <2>3, <2>4, <2>6 DEF ClientInv
  <2> QED
    BY <2>1, <2>3, <2>4, <2>5, <2>6
<1>4. CASE Server
  BY <1>1, <1>4
  DEF Server, ReadHead, ReadJunk, ReadBody, ReadUnexpected, EndRecv, RecvFails, CloseSent,
      Disconnect, Continue
<1> QED
  BY <1>1, <1>2, <1>3, <1>4 DEF Next, vars

\* Nothing follows the body of a request that ends the connection.
LEMMA NothingFollows ==
  ASSUME TypeOK, PosInv, ClientInv, url \in 1..Len(reqs), ~reqs[url].chunked,
         sReq = url + 1, sOff = 0, waits \/ url = Len(reqs)
  PROVE  ~Reads
<1>1. Len(reqs) \in Nat /\ cReq \in Nat /\ cOff \in Nat /\ url \in Nat
  BY PlanType DEF TypeOK
<1>2. CASE waits
  <2>1. ~(url < cReq - 1) /\ ~(url = cReq - 1 /\ cOff > 0)
    BY <1>2 DEF ClientInv
  <2>2. cReq = url + 1 /\ cOff = 0
    BY <1>1, <2>1 DEF PosInv
  <2> QED
    BY <1>1, <2>2 DEF Reads
<1>3. CASE url = Len(reqs)
  <2>1. cReq = url + 1 /\ cOff = 0
    BY <1>1, <1>3 DEF PosInv, At
  <2> QED
    BY <1>1, <2>1 DEF Reads
<1> QED
  BY <1>2, <1>3

\* Heads that were read stay read.
LEMMA HeadsStay ==
  ASSUME TypeOK, PosInv, TokenRead, NEW r \in Nat, HeadRead(r)
  PROVE  HeadRead(r)'
<1>1. sReq \in Nat /\ sOff \in Nat
  BY DEF TypeOK
<1> QED
  BY <1>1 DEF TokenRead, HeadRead, Behind

LEMMA AnswerAppended ==
  ASSUME TypeOK, HandledOnce, reqs' = reqs, waits' = waits,
         NEW r \in Nat, Orderly(r) => ~Answered(r), answers' = Append(answers, r)
  PROVE  /\ HandledOnce' /\ Answered(r)'
         /\ Len(answers') = Len(answers) + 1 /\ answers'[Len(answers) + 1] = r
         /\ \A i \in 1..Len(answers) : answers'[i] = answers[i]
<1>1. answers \in Seq(Nat) /\ Len(answers) \in Nat
  BY DEF TypeOK
<1>2. /\ Len(answers') = Len(answers) + 1 /\ answers'[Len(answers) + 1] = r
      /\ \A i \in 1..Len(answers) : answers'[i] = answers[i]
  BY <1>1
<1>3. Answered(r)'
  BY <1>1, <1>2 DEF Answered
<1>4. ASSUME NEW i \in 1..Len(answers'), NEW j \in 1..Len(answers'), i # j,
             answers'[i] = answers'[j]
      PROVE  ~Orderly(answers'[i])
  <2>1. i \in 1..Len(answers) \/ i = Len(answers) + 1
    BY <1>1, <1>2
  <2>2. j \in 1..Len(answers) \/ j = Len(answers) + 1
    BY <1>1, <1>2
  <2> QED
    BY <1>2, <1>4, <2>1, <2>2 DEF HandledOnce, Answered
<1>5. HandledOnce'
  BY <1>4 DEF HandledOnce, Orderly
<1> QED
  BY <1>2, <1>3, <1>5

\* The answers after a step that reads or not, and answers r or not.
LEMMA AnswersStep ==
  ASSUME TypeOK, PosInv, AnswersInv, reqs' = reqs, waits' = waits,
         TokenRead \/ (sReq' = sReq /\ sOff' = sOff),
         \/ answers' = answers
         \/ \E r \in 1..Len(reqs) :
              /\ HeadRead(r)' /\ (Orderly(r) => ~Answered(r))
              /\ answers' = Append(answers, r)
  PROVE  AnswersInv'
<1>1. Len(reqs) \in Nat /\ Len(answers) \in Nat
  BY PlanType DEF TypeOK
<1>2. \A r \in Nat : HeadRead(r) => Behind(r, sReq', sOff')
  BY HeadsStay DEF HeadRead
<1>3. \A i \in 1..Len(answers) :
        answers[i] \in 1..Len(reqs) /\ Behind(answers[i], sReq', sOff')
  BY <1>1, <1>2 DEF AnswersInv
<1>4. CASE answers' = answers
  BY <1>3, <1>4 DEF AnswersInv, HandledOnce, HeadRead, Orderly
<1>5. CASE answers' # answers
  <2>1. PICK r \in 1..Len(reqs) :
          /\ HeadRead(r)' /\ (Orderly(r) => ~Answered(r))
          /\ answers' = Append(answers, r)
    BY <1>5
  <2>2. r \in Nat
    BY <1>1
  <2>3. /\ HandledOnce'
        /\ Len(answers') = Len(answers) + 1 /\ answers'[Len(answers) + 1] = r
        /\ \A i \in 1..Len(answers) : answers'[i] = answers[i]
    BY <2>1, <2>2, AnswerAppended DEF AnswersInv
  <2>4. ASSUME NEW i \in 1..Len(answers')
        PROVE  answers'[i] \in 1..Len(reqs) /\ Behind(answers'[i], sReq', sOff')
    <3>1. i \in 1..Len(answers) \/ i = Len(answers) + 1
      BY <1>1, <2>3
    <3>2. CASE i \in 1..Len(answers)
      BY <1>3, <2>3, <3>2 DEF HeadRead
    <3>3. CASE i = Len(answers) + 1
      BY <2>1, <2>3, <3>3 DEF HeadRead
    <3> QED
      BY <3>1, <3>2, <3>3
  <2> QED
    BY <2>3, <2>4 DEF AnswersInv, HeadRead
<1> QED
  BY <1>4, <1>5

\* Where the body of an orderly request r stands when its handler is called with
\* got of len tokens: at its end, unless the connection is kept, or the handler
\* waits.
CalledInTime(r, len, got) ==
  len > 0 /\ ~reqs[r].chunked /\ Orderly(r) =>
    /\ len = reqs[r].body
    /\ \/ sReq' = r /\ sOff' = got + 1 /\ reqs[r].cgi = "eat" /\ got # len
       \/ sReq' = r + 1 /\ sOff' = 0 /\ got = len /\ (waits \/ r = Len(reqs))

\* httpdRecvCb calls the handler of the current request.
LEMMA CallOnce ==
  ASSUME TypeOK, PosInv, OnceInv, open, TokenRead,
         NEW r \in 1..Len(reqs), url' = r, HeadRead(r)',
         Orderly(r) => ~Answered(r) /\ ~disconAfterSent,
         disconAfterSent => Answered(r),
         NEW n \in Nat, NEW len \in Nat, NEW got \in Nat,
         CallCgi(r, n, len, got, reqs[r].chunked), CalledInTime(r, len, got),
         client' = client, buffLen' = 0,
         open' = open, needsClose' = needsClose, aborts' = aborts
  PROVE  OnceInv'
<1> USE DEF OnceInv
<1>1. /\ r \in Nat /\ r # None /\ reqs[r].chunked \in BOOLEAN
      /\ reqs' = reqs /\ waits' = waits /\ answers \in Seq(Nat)
  BY PlanType DEF TypeOK, None, client
<1>2. ClientInv'
  BY DEF ClientInv, client
<1>3. AnswersInv'
  <2>1. answers' = answers \/ answers' = Append(answers, r)
    BY DEF CallCgi
  <2> QED
    BY <1>1, <2>1, AnswersStep
<1>4. Orderly(url)' <=> Orderly(r)
  BY <1>1, OrderlyStays DEF Orderly
<1>5. reqs[r].chunked => Orderly(r)
  BY <1>1, OrderlyStays
<1>6. aborts' = 0 /\ (needsClose' => disconAfterSent)
  BY DEF ClosingInv
<1>7. CASE IsDone(r, n, len, got)
  <2>1. /\ cgi' = None /\ ~chunked' /\ (disconAfterSent' <=> ~reqs[r].chunked)
        /\ fileOpen' = FALSE /\ answers' = Append(answers, r)
        /\ reqs[r].chunked => postLen' = -1 /\ received' = 0
        /\ ~reqs[r].chunked => postLen' = len /\ received' = got
    BY <1>1, <1>7 DEF CallCgi
  <2>2. Answered(r)'
    BY <1>1, <2>1, AnswerAppended DEF AnswersInv
  <2>3. ClosingInv' /\ FileReleased'
    BY <1>1, <1>5, <1>6, <2>1, <2>2 DEF ClosingInv, AbortedOnce, FileReleased, Answered
  <2>4. ~reqs[r].chunked /\ len > 0 /\ Orderly(r) => OnLastBody'
    <3> SUFFICES ASSUME ~reqs[r].chunked, len > 0, Orderly(r) PROVE OnLastBody'
      OBVIOUS
    <3>1. sReq' = r + 1 /\ sOff' = 0 /\ got = len /\ (waits \/ r = Len(reqs)) /\ len = reqs[r].body
      BY <1>7 DEF CalledInTime, IsDone
    <3> QED
      BY <1>1, <2>1, <2>2, <3>1 DEF OnLastBody, Answered
  <2>5. CurrentInv'
    <3>1. HeadRead(url)' /\ url' \in 1..Len(reqs')
      BY <1>1 DEF HeadRead
    <3>2. CASE reqs[r].chunked
      BY <1>1, <2>1, <3>1, <3>2 DEF CurrentInv
    <3>3. CASE ~reqs[r].chunked
      BY <1>1, <1>4, <2>1, <2>4, <3>1, <3>3 DEF CurrentInv
    <3> QED
      BY <3>2, <3>3
  <2> QED
    BY <1>2, <1>3, <2>3, <2>5
<1>8. CASE ~IsDone(r, n, len, got)
  <2>1. /\ cgi' = r /\ chunked' = reqs[r].chunked /\ disconAfterSent' = disconAfterSent
        /\ fileOpen' = (reqs[r].cgi = "stream") /\ answers' = answers
        /\ postLen' = len /\ received' = got
    BY <1>1, <1>8 DEF CallCgi
  <2>2. Answered(url)' <=> Answered(r)
    BY <2>1 DEF Answered
  <2>3. ClosingInv' /\ FileReleased'
    <3>1. FileReleased'
      BY <1>1, <2>1 DEF FileReleased
    <3>2. ClosingInv'
      BY <1>1, <1>4, <1>5, <1>6, <2>1, <2>2 DEF ClosingInv, AbortedOnce
    <3> QED
      BY <3>1, <3>2
  <2>4. ~reqs[r].chunked /\ len > 0 /\ Orderly(r) => OnLastBody'
    BY <1>1, <2>1, <2>2 DEF CalledInTime, OnLastBody, Answered
  <2>5. CurrentInv'
    <3>1. HeadRead(url)' /\ url' \in 1..Len(reqs')
      BY <1>1 DEF HeadRead
    <3> QED
      BY <1>1, <1>4, <1>5, <2>1, <2>2, <2>4, <3>1 DEF CurrentInv
  <2> QED
    BY <1>2, <1>3, <2>3, <2>5
<1> QED
  BY <1>7, <1>8

LEMMA ReadHeadOnce == ASSUME TypeOK, PosInv, OnceInv, ReadHead PROVE OnceInv'
<1> USE DEF OnceInv
<1>1. /\ sReq \in 1..Len(reqs) /\ sReq \in Nat /\ sReq # None
      /\ sOff = 0 /\ reqs[sReq].body \in Nat /\ reqs[sReq].chunked \in BOOLEAN
      /\ open /\ postLen < 0 /\ TokenRead /\ client' = client /\ reqs' = reqs /\ waits' = waits
      /\ received = 0 /\ cgi = None /\ ~disconAfterSent
  BY ReadsSent, PlanType DEF ReadHead, Reads, CurrentInv, client, None
<1>2. Behind(sReq, sReq', sOff')
  BY <1>1 DEF TokenRead, Behind
<1>3. ~Answered(sReq)
  BY <1>1 DEF AnswersInv, Answered, HeadRead, Behind
<1>4. CASE reqs[sReq].body = 0 /\ ~junk
  <2>1. /\ url' = sReq /\ CallCgi(sReq, 1, 0, 0, reqs[sReq].chunked)
        /\ buffLen' = 0 /\ open' = open /\ needsClose' = needsClose /\ aborts' = aborts
    BY <1>1, <1>4 DEF ReadHead
  <2>2. CalledInTime(sReq, 0, 0)
    BY DEF CalledInTime
  <2>3. PICK r \in 1..Len(reqs) : r = sReq
    BY <1>1
  <2>4. HeadRead(r)'
    BY <1>2, <2>3 DEF HeadRead
  <2> QED
    BY <1>1, <1>3, <2>1, <2>2, <2>3, <2>4, CallOnce
<1>5. CASE ~(reqs[sReq].body = 0 /\ ~junk)
  <2>1. /\ url' = (IF junk THEN None ELSE sReq)
        /\ postLen' = reqs[sReq].body /\ received' = 0
        /\ chunked' = (~junk /\ reqs[sReq].chunked)
        /\ cgi' = None /\ fileOpen' = fileOpen /\ answers' = answers
        /\ disconAfterSent' = FALSE /\ buffLen' = 0
        /\ open' = open /\ needsClose' = needsClose /\ aborts' = aborts
    BY <1>1, <1>5 DEF ReadHead, NoUrl, handler
  <2>2. ClientInv' /\ AnswersInv'
    BY <1>1, <2>1, AnswersStep DEF ClientInv, client
  <2>3. ClosingInv' /\ FileReleased'
    BY <1>1, <2>1 DEF ClosingInv, AbortedOnce, FileReleased
  <2>4. CASE junk
    BY <1>1, <2>1, <2>2, <2>3, <2>4 DEF CurrentInv
  <2>5. CASE ~junk
    <3>1. url' = sReq /\ HeadRead(url)' /\ ~Answered(url)'
      BY <1>2, <1>3, <2>1, <2>5 DEF HeadRead, Answered
    <3>2. reqs[sReq].body > 0 => sReq' = sReq /\ sOff' = 1
      BY <1>1 DEF TokenRead
    <3>3. CurrentInv'
      BY <1>1, <2>1, <2>5, <3>1, <3>2 DEF CurrentInv, OnLastBody
    <3> QED
      BY <2>2, <2>3, <3>3
  <2> QED
    BY <2>4, <2>5
<1> QED
  BY <1>4, <1>5

\* While an orderly request is read, its handler has not answered yet; on a
\* connection that is not kept it is called before the end of the body only if
\* it waits for it.
LEMMA BodyUnfinished ==
  ASSUME TypeOK, PosInv, OnceInv, Reads, postLen > 0, url # None
  PROVE  /\ url \in 1..Len(reqs) /\ chunked = reqs[url].chunked
         /\ disconAfterSent => Answered(url)
         /\ Orderly(url) => ~Answered(url) /\ ~disconAfterSent
         /\ Orderly(url) /\ ~reqs[url].chunked =>
              /\ postLen = reqs[url].body /\ buffLen <= received
              /\ sReq = url /\ sOff = received + 1
              /\ cgi # None => reqs[url].cgi = "eat"
<1> USE DEF OnceInv
<1>1. url \in 1..Len(reqs) /\ reqs[url].chunked \in BOOLEAN /\ chunked \in BOOLEAN
  BY PlanType DEF CurrentInv, TypeOK
<1>2. CASE reqs[url].chunked
  BY <1>1, <1>2 DEF CurrentInv, ClosingInv
<1>3. CASE ~reqs[url].chunked /\ ~Orderly(url)
  BY <1>1, <1>3 DEF CurrentInv, ClosingInv
<1>4. CASE ~reqs[url].chunked /\ Orderly(url)
  <2>1. ~chunked /\ buffLen <= received /\ OnLastBody
    BY <1>4 DEF CurrentInv
  <2>2. ~(sReq = url + 1 /\ sOff = 0 /\ (waits \/ url = Len(reqs)))
    BY <1>1, <1>4, NothingFollows
  <2>3. /\ sReq = url /\ sOff = received + 1 /\ ~Answered(url)
        /\ postLen = reqs[url].body /\ (cgi # None => reqs[url].cgi = "eat")
    BY <2>1, <2>2 DEF OnLastBody
  <2>4. chunked = reqs[url].chunked
    BY <1>1, <1>4, <2>1
  <2> QED
    BY <1>1, <1>4, <2>1, <2>3, <2>4 DEF ClosingInv
<1> QED
  BY <1>1, <1>2, <1>3, <1>4

LEMMA ReadBodyOnce ==
  ASSUME TypeOK, PosInv, OnceInv, ReadBody PROVE OnceInv'
<1> USE DEF OnceInv
<1>1. /\ Reads /\ open /\ postLen > 0 /\ postLen \in Nat /\ received \in Nat /\ buffLen \in Nat
      /\ sReq \in 1..Len(reqs) /\ sReq \in Nat /\ sOff \in Nat /\ TokenRead
      /\ client' = client /\ reqs' = reqs /\ waits' = waits
      /\ open' = open /\ url' = url /\ needsClose' = needsClose /\ aborts' = aborts
  BY ReadsSent, ConnAssumption DEF ReadBody, Reads, TypeOK, client
<1>2. ClientInv'
  BY <1>1 DEF ClientInv, client
<1>3. url # None => url \in 1..Len(reqs) /\ HeadRead(url)'
  <2> SUFFICES ASSUME url # None PROVE url \in 1..Len(reqs) /\ HeadRead(url)'
    OBVIOUS
  <2>1. url \in 1..Len(reqs) /\ HeadRead(url) /\ url \in Nat
    BY DEF CurrentInv, TypeOK
  <2>2. PICK r \in Nat : r = url /\ HeadRead(r)
    BY <2>1
  <2>3. HeadRead(r)'
    BY <1>1, <2>2, HeadsStay
  <2> QED
    BY <1>1, <2>1, <2>2, <2>3 DEF HeadRead
<1>7. Orderly(url)' <=> Orderly(url)
  BY <1>1 DEF Orderly
<1>4. CASE ~BufferFull
  <2>1. /\ received' = received + 1 /\ buffLen' = buffLen + 1 /\ postLen' = postLen
        /\ cgi' = cgi /\ fileOpen' = fileOpen /\ answers' = answers
        /\ chunked' = chunked /\ disconAfterSent' = disconAfterSent
    BY <1>4 DEF ReadBody, handler, flags
  <2>2. AnswersInv' /\ ClosingInv' /\ FileReleased'
    BY <1>1, <2>1, AnswersStep DEF ClosingInv, AbortedOnce, FileReleased, Answered, Orderly
  <2>3. CurrentInv'
    <3>1. CASE url = None
      BY <1>1, <2>1, <3>1 DEF CurrentInv
    <3>2. CASE url # None
      <4>1. Orderly(url) /\ ~reqs[url].chunked =>
              /\ sReq' = url /\ sOff' = received' + 1 /\ postLen = reqs[url].body
              /\ buffLen' <= received' /\ (cgi # None => reqs[url].cgi = "eat")
        BY <1>1, <1>4, <2>1, <3>2, BodyUnfinished DEF BufferFull, TokenRead
      <4>2. (Orderly(url) => ~Answered(url)') /\ chunked' = reqs[url].chunked
        BY <1>1, <2>1, <3>2, BodyUnfinished DEF Answered
      <4>3. reqs[url].chunked => Orderly(url)
        BY DEF Orderly
      <4>4. reqs[url].chunked \in BOOLEAN
        BY <1>3, <3>2, PlanType
      <4>5. Orderly(url) /\ ~reqs[url].chunked => buffLen' <= received' /\ OnLastBody'
        BY <1>1, <2>1, <4>1, <4>2 DEF OnLastBody
      <4> QED
        BY <1>1, <1>3, <1>7, <2>1, <3>2, <4>2, <4>3, <4>4, <4>5 DEF CurrentInv
    <3> QED
      BY <3>1, <3>2
  <2> QED
    BY <1>2, <2>2, <2>3
<1>5. CASE BufferFull /\ url = None
  <2>1. /\ NoUrl(postLen, received + 1, chunked) /\ buffLen' = 0 /\ cgi = None
    BY <1>5 DEF ReadBody, CurrentInv
  <2>2. /\ cgi' = cgi /\ fileOpen' = fileOpen /\ answers' = answers
        /\ disconAfterSent' = disconAfterSent /\ postLen' = postLen
    BY <2>1 DEF NoUrl, handler
  <2>3. AnswersInv' /\ ClosingInv' /\ FileReleased'
    BY <1>1, <2>2, AnswersStep DEF ClosingInv, AbortedOnce, FileReleased, Answered, Orderly
  <2>4. CurrentInv'
    BY <1>1, <1>5, <2>1, <2>2 DEF CurrentInv
  <2> QED
    BY <1>2, <2>3, <2>4
<1>6. CASE BufferFull /\ url # None
  <2>1. PICK r \in 1..Len(reqs) : r = url
    BY <1>3, <1>6
  <2>2. /\ chunked = reqs[r].chunked
        /\ Orderly(r) => ~Answered(r) /\ ~disconAfterSent
        /\ disconAfterSent => Answered(r)
        /\ Orderly(r) /\ ~reqs[r].chunked =>
             /\ postLen = reqs[r].body /\ buffLen <= received
             /\ sReq = r /\ sOff = received + 1
    BY <1>1, <1>6, <2>1, BodyUnfinished
  <2>3. HeadRead(r)' /\ url' = r /\ buffLen' = 0
    BY <1>1, <1>3, <1>6, <2>1 DEF ReadBody, HeadRead
  <2>4. PICK n \in Nat : CallCgi(r, n, postLen, received + 1, reqs[r].chunked)
    <3>1. 1 \in Nat /\ calls + 1 \in Nat
      BY DEF TypeOK
    <3> QED
      BY <1>6, <2>1, <2>2, <3>1 DEF ReadBody, CurrentInv
  <2>5. CalledInTime(r, postLen, received + 1)
    <3> SUFFICES ASSUME ~reqs[r].chunked, Orderly(r)
                 PROVE  \/ sReq' = r /\ sOff' = received + 2 /\ reqs[r].cgi = "eat"
                           /\ received + 1 # postLen
                        \/ sReq' = r + 1 /\ sOff' = 0 /\ received + 1 = postLen
                           /\ (waits \/ r = Len(reqs))
      BY <1>1, <2>2 DEF CalledInTime
    <3>1. /\ reqs[r].cgi = "eat" \/ postLen <= PostLen
          /\ waits \/ r = Len(reqs)
      BY <1>1, <2>2 DEF Orderly
    <3>2. CASE received + 1 = postLen
      BY <1>1, <2>2, <3>1, <3>2 DEF TokenRead
    <3>3. CASE received + 1 # postLen
      <4>1. received + 1 < postLen
        BY <1>1, <2>1, <2>2, <3>3, ReadsSent
      <4>2. postLen > PostLen
        BY <1>1, <1>6, <2>2, <3>3, <4>1, ConnAssumption DEF BufferFull
      <4> QED
        BY <1>1, <2>2, <3>1, <3>3, <4>2, ConnAssumption DEF TokenRead
    <3> QED
      BY <3>2, <3>3
  <2>6. received + 1 \in Nat
    BY <1>1
  <2> QED
    BY <1>1, <2>2, <2>3, <2>4, <2>5, <2>6, CallOnce
<1> QED
  BY <1>4, <1>5, <1>6

\* httpdContinue calls the handler of the current request.
LEMMA ContinueOnce == ASSUME TypeOK, PosInv, OnceInv, Continue PROVE OnceInv'
<1> USE DEF OnceInv
<1>1. /\ client' = client /\ reqs' = reqs /\ waits' = waits /\ sReq' = sReq /\ sOff' = sOff
      /\ open' = open /\ url' = url /\ needsClose' = needsClose /\ aborts' = aborts
      /\ ~disconAfterSent /\ open
  BY DEF Continue, Writable, client
<1>2. ClientInv'
  BY <1>1 DEF ClientInv, client
<1>5. Orderly(url)' <=> Orderly(url)
  BY <1>1 DEF Orderly
<1>3. CASE cgi = None
  <2>1. /\ cgi' = cgi /\ fileOpen' = fileOpen /\ answers' = answers /\ chunked' = chunked
        /\ disconAfterSent' = disconAfterSent
        /\ postLen' = postLen /\ received' = received /\ buffLen' = buffLen
    BY <1>3 DEF Continue, post, handler, flags
  <2>2. AnswersInv' /\ ClosingInv' /\ FileReleased'
    BY <1>1, <2>1, AnswersStep DEF ClosingInv, AbortedOnce, FileReleased, Answered, Orderly
  <2>3. CurrentInv'
    BY <1>1, <1>5, <2>1 DEF CurrentInv, OnLastBody, Answered, HeadRead
  <2> QED
    BY <1>2, <2>2, <2>3
<1>4. CASE cgi # None
  <2>1. PICK r \in 1..Len(reqs) : r = cgi
    BY <1>4 DEF CurrentInv
  <2>2. /\ r \in Nat /\ r # None /\ reqs[r].chunked \in BOOLEAN
        /\ postLen \in Nat /\ received \in Nat /\ buffLen \in Nat /\ chunked \in BOOLEAN
        /\ answers \in Seq(Nat)
    BY <1>4, <2>1, PlanType, ConnAssumption DEF CurrentInv, TypeOK
  <2>3. /\ url = r /\ HeadRead(r) /\ (chunked <=> reqs[r].chunked)
        /\ Orderly(r) => ~Answered(r)
        /\ reqs[r].chunked => Orderly(r)
    BY <1>4, <2>1, <2>2 DEF CurrentInv, Orderly
  <2>4. HeadRead(r)' /\ HeadRead(url)'
    BY <1>1, <2>3 DEF HeadRead
  <2>5. CASE IsDone(r, calls + 1, postLen, received)
    <3>1. /\ cgi' = None /\ ~chunked' /\ (disconAfterSent' <=> ~reqs[r].chunked)
          /\ ~fileOpen' /\ answers' = Append(answers, r)
          /\ reqs[r].chunked => postLen' = -1 /\ received' = 0
          /\ ~reqs[r].chunked => postLen' = postLen /\ received' = received /\ buffLen' = buffLen
      BY <1>4, <2>1, <2>3, <2>5 DEF Continue, post
    <3>2. AnswersInv'
      BY <1>1, <2>3, <2>4, <3>1, AnswersStep
    <3>3. Answered(r)'
      BY <1>1, <2>2, <2>3, <3>1, AnswerAppended DEF AnswersInv
    <3>4. ClosingInv' /\ FileReleased'
      BY <1>1, <2>2, <2>3, <3>1, <3>3 DEF ClosingInv, AbortedOnce, FileReleased, Answered
    <3>5. CASE reqs[r].chunked
      BY <1>1, <1>2, <2>1, <2>2, <2>3, <2>4, <3>1, <3>2, <3>4, <3>5 DEF CurrentInv
    <3>6. CASE ~reqs[r].chunked
      <4>1. postLen > 0 /\ Orderly(r) => OnLastBody'
        <5> SUFFICES ASSUME postLen > 0, Orderly(r) PROVE OnLastBody'
          OBVIOUS
        <5>1. OnLastBody
          BY <2>2, <2>3, <3>6 DEF CurrentInv
        <5>2. ~(sReq = r /\ sOff = received + 1 /\ reqs[r].cgi = "eat" /\ postLen = reqs[r].body)
          <6>1. sReq = r => sOff <= reqs[r].body
            BY <2>2, PlanType DEF PosInv, At
          <6> QED
            BY <2>2, <2>5, <6>1, PlanType DEF IsDone
        <5>3. sReq = r + 1 /\ sOff = 0 /\ received = postLen /\ (waits \/ r = Len(reqs))
              /\ postLen = reqs[r].body
          BY <1>4, <2>1, <2>3, <5>1, <5>2 DEF OnLastBody
        <5> QED
          BY <1>1, <2>3, <3>1, <3>3, <3>6, <5>3 DEF OnLastBody, Answered
      <4>2. postLen > 0 /\ Orderly(r) => buffLen <= received
        BY <2>2, <2>3, <3>6 DEF CurrentInv
      <4> QED
        BY <1>1, <1>2, <1>5, <2>1, <2>2, <2>3, <2>4, <3>1, <3>2, <3>4, <3>6, <4>1, <4>2
        DEF CurrentInv
    <3> QED
      BY <3>5, <3>6
  <2>6. CASE ~IsDone(r, calls + 1, postLen, received)
    <3>1. /\ cgi' = cgi /\ (chunked' <=> chunked) /\ ~disconAfterSent'
          /\ fileOpen' = fileOpen /\ answers' = answers
          /\ postLen' = postLen /\ received' = received /\ buffLen' = buffLen
      BY <1>4, <2>1, <2>6, <2>2 DEF Continue, post, TypeOK
    <3>2. AnswersInv' /\ ClosingInv' /\ FileReleased'
      BY <1>1, <3>1, AnswersStep DEF ClosingInv, AbortedOnce, FileReleased, Answered, Orderly
    <3>3. chunked' = chunked
      BY <2>6, <2>1, <1>4, <2>2 DEF Continue
    <3>4. CurrentInv'
      BY <1>1, <1>5, <3>1, <3>3 DEF CurrentInv, OnLastBody, Answered, HeadRead
    <3> QED
      BY <1>2, <3>2, <3>4
  <2> QED
    BY <2>5, <2>6
<1> QED
  BY <1>3, <1>4

\* A handler that is told more than once has been started again.
MayHaveTold(times) == times > 1 => url # None /\ ~Orderly(url) /\ disconAfterSent

\* A step that reads no token and calls no handler, or the last call to one.
LEMMA FrameOnce ==
  ASSUME TypeOK, PosInv, OnceInv, ClientInv',
         reqs' = reqs, waits' = waits, sReq' = sReq, sOff' = sOff,
         url' = url, post' = post, cgi' = cgi, answers' = answers, flags' = flags,
         needsClose' => disconAfterSent,
         \/ open' = open /\ fileOpen' = fileOpen /\ aborts' = aborts
         \/ ~open' /\ ~fileOpen' /\ MayHaveTold(aborts')
  PROVE  OnceInv'
<1> USE DEF OnceInv
<1>1. AnswersInv'
  BY AnswersStep
<1>2. Orderly(url)' <=> Orderly(url)
  BY DEF Orderly
<1>3. CurrentInv'
  BY <1>2 DEF CurrentInv, OnLastBody, Answered, HeadRead, post, flags
<1>4. ClosingInv' /\ FileReleased'
  BY <1>2 DEF ClosingInv, AbortedOnce, MayHaveTold, FileReleased, Answered, flags, TypeOK
<1> QED
  BY <1>1, <1>3, <1>4

\* closeConnection: twice only when the connection was to be closed.
LEMMA ClosedOnce ==
  ASSUME TypeOK, OnceInv, open, NEW n \in Nat, n = 1 \/ needsClose, closeConnection(n)
  PROVE  ~open' /\ ~fileOpen' /\ MayHaveTold(aborts')
<1>1. ~open' /\ ~fileOpen'
  BY DEF closeConnection, OnceInv, FileReleased, None, TypeOK
<1>2. aborts' = IF cgi # None THEN n ELSE 0
  BY DEF closeConnection, OnceInv, ClosingInv
<1>3. n # 1 /\ cgi # None => url # None /\ ~Orderly(url) /\ disconAfterSent
  BY DEF OnceInv, ClosingInv
<1> QED
  BY <1>1, <1>2, <1>3 DEF MayHaveTold

LEMMA OnceStep ==
  ASSUME TypeOK, PosInv, OnceInv, [Next]_vars PROVE OnceInv'
<1>1. ClientInv'
  BY ClientStep DEF OnceInv
<1>2. needsClose => disconAfterSent
  BY DEF OnceInv, ClosingInv
<1>3. CASE SendToken \/ HangUp
  <2>1. /\ reqs' = reqs /\ waits' = waits /\ sReq' = sReq /\ sOff' = sOff
        /\ url' = url /\ post' = post /\ cgi' = cgi /\ answers' = answers /\ flags' = flags
        /\ needsClose' = needsClose /\ open' = open /\ fileOpen' = fileOpen /\ aborts' = aborts
    BY <1>3 DEF SendToken, HangUp, handler
  <2> QED
    BY <1>1, <1>2, <2>1, FrameOnce
<1>4. CASE ReadHead \/ ReadBody \/ Continue
  BY <1>4, ReadHeadOnce, ReadBodyOnce, ContinueOnce
<1>5. CASE ReadJunk \/ ReadUnexpected
  <2> USE DEF OnceInv
  <2>1. /\ reqs' = reqs /\ waits' = waits /\ TokenRead /\ open /\ postLen <= 0
        /\ url' = url /\ post' = post /\ cgi' = cgi /\ answers' = answers /\ flags' = flags
        /\ needsClose' = needsClose /\ postLen \in Nat \union {-1}
    BY <1>5 DEF ReadJunk, ReadUnexpected, Reads, handler, client, TypeOK
  <2>2. \/ open' = open /\ fileOpen' = fileOpen /\ aborts' = aborts
        \/ ~open' /\ ~fileOpen' /\ MayHaveTold(aborts')
    BY <1>5, ClosedOnce DEF ReadJunk, ReadUnexpected, Reads, handler
  <2>3. AnswersInv'
    BY <2>1, AnswersStep
  <2>4. ClosingInv' /\ FileReleased'
    <3>1. /\ disconAfterSent' = disconAfterSent /\ cgi' = cgi /\ reqs' = reqs /\ aborts = 0
          /\ Orderly(url)' <=> Orderly(url)
      BY <2>1 DEF ClosingInv, Orderly, flags
    <3>2. CASE open' = open /\ fileOpen' = fileOpen /\ aborts' = aborts
      BY <2>1, <3>1, <3>2 DEF ClosingInv, AbortedOnce, FileReleased, Answered
    <3>3. CASE ~open' /\ ~fileOpen' /\ MayHaveTold(aborts')
      BY <2>1, <3>1, <3>3 DEF ClosingInv, AbortedOnce, MayHaveTold, FileReleased, Answered
    <3> QED
      BY <2>2, <3>2, <3>3
  <2>5. url # None => HeadRead(url)'
    <3> SUFFICES ASSUME url # None PROVE HeadRead(url)'
      OBVIOUS
    <3>1. PICK r \in Nat : r = url /\ HeadRead(r)
      BY DEF CurrentInv, TypeOK
    <3> QED
      BY <2>1, <3>1, HeadsStay DEF HeadRead
  <2>6. CurrentInv'
    <3>1. Orderly(url)' <=> Orderly(url)
      BY <2>1 DEF Orderly
    <3> QED
      BY <2>1, <2>5, <3>1 DEF CurrentInv, Answered, post, flags
  <2> QED
    BY <1>1, <2>3, <2>4, <2>6
<1>6. CASE RecvFails \/ CloseSent
  <2>1. PICK n \in Nat : open /\ (n = 1 \/ needsClose) /\ closeConnection(n)
    BY <1>6 DEF RecvFails, CloseSent, Writable
  <2>2. ~open' /\ ~fileOpen' /\ MayHaveTold(aborts')
    BY <2>1, ClosedOnce
  <2> QED
    BY <1>1, <1>2, <1>6, <2>2, FrameOnce DEF RecvFails, CloseSent, Writable, client
<1>7. CASE EndRecv \/ Disconnect \/ UNCHANGED vars
  <2>1. /\ reqs' = reqs /\ waits' = waits /\ sReq' = sReq /\ sOff' = sOff
        /\ url' = url /\ post' = post /\ cgi' = cgi /\ answers' = answers /\ flags' = flags
        /\ open' = open /\ fileOpen' = fileOpen /\ aborts' = aborts
        /\ needsClose' => needsClose \/ disconAfterSent
    BY <1>7 DEF EndRecv, Disconnect, vars, client, handler
  <2> QED
    BY <1>1, <1>2, <2>1, FrameOnce
<1> QED
  BY <1>3, <1>4, <1>5, <1>6, <1>7 DEF Next, Server

\* Whatever requests a client sends, in what pieces they arrive, and whenever it
\* hangs up: no file is lost, no orderly request is answered twice, and only a
\* handler that was started again by a request that is not orderly can be told
\* twice that its connection is gone.
THEOREM EachOnce == Spec => []OnceEach
<1>1. Init => OnceInv
  <2> SUFFICES ASSUME Init PROVE OnceInv
    OBVIOUS
  <2>1. ClientInv
    BY DEF Init, ClientInv
  <2>2. AnswersInv
    BY DEF Init, AnswersInv, HandledOnce
  <2> QED
    BY <2>1, <2>2
    DEF Init, OnceInv, CurrentInv, ClosingInv, AbortedOnce, FileReleased, None
<1>2. TypeOK /\ PosInv /\ OnceInv /\ [Next]_vars => TypeOK' /\ PosInv' /\ OnceInv'
  BY StepTypeOK, OnceStep
<1>3. OnceInv => OnceEach
  BY DEF OnceInv, AnswersInv, ClosingInv, OnceEach
<1> QED
  BY <1>1, <1>2, <1>3, InitTypeOK, PTL DEF Spec

-----------------------------------------------------------------------------
(* The connection implements HttpdExchange: the invariant. *)

\* The request that is to be answered next.
Current == Len(answers) + 1

\* Requests are answered in order, and the client is at most one ahead.
InOrder ==
  /\ \A i \in 1..Len(answers) : answers[i] = i
  /\ cReq = Current \/ (cReq = Current + 1 /\ cOff = 0)

\* The four stages of a request: nothing was read of it; its body is being read;
\* its handler is at work; it was answered, and the connection is to be closed.
AtHead ==
  /\ sReq = Current /\ sOff = 0
  /\ cgi = None /\ ~junk /\ postLen = -1 /\ received = 0 /\ ~disconAfterSent

InBody ==
  /\ sReq = Current /\ sOff > 0
  /\ url = Current /\ ~junk /\ chunked = reqs[Current].chunked /\ ~disconAfterSent
  /\ postLen = reqs[Current].body /\ received = sOff - 1 /\ buffLen <= received
  /\ cgi = None \/ (cgi = Current /\ reqs[Current].cgi = "eat")

InCall ==
  /\ sReq = Current + 1 /\ sOff = 0
  /\ cReq = Current + 1
  /\ cgi = Current /\ ~junk /\ chunked = reqs[Current].chunked /\ ~disconAfterSent
  /\ postLen >= 0

AtEnd ==
  /\ sReq = Current /\ sOff = 0
  /\ cReq = Current /\ cOff = 0
  /\ Len(answers) > 0 /\ ~reqs[Len(answers)].chunked
  /\ cgi = None /\ ~junk /\ postLen >= 0 /\ disconAfterSent

ExchangeInv ==
  Fits =>
    /\ InOrder
    /\ AtHead \/ InBody \/ InCall \/ AtEnd
    /\ needsClose => disconAfterSent

-----------------------------------------------------------------------------
(* The connection implements HttpdExchange: the steps. *)

\* What a step of HttpdExchange is for a client whose requests fit.
Answers ==
  /\ open /\ Len(answers) < cReq - 1
  /\ answers' = Append(answers, Current)
  /\ cReq' = cReq /\ clientOpen' = clientOpen /\ open' = open

ExchangeStep ==
  \/ cReq' = cReq /\ answers' = answers /\ clientOpen' = clientOpen /\ open' = open
  \/ /\ clientOpen /\ cReq' = cReq + 1
     /\ answers' = answers /\ clientOpen' = clientOpen /\ open' = open
  \/ Answers
  \/ /\ clientOpen /\ ~clientOpen'
     /\ cReq' = cReq /\ answers' = answers /\ open' = open
  \/ /\ open /\ ~open' /\ (~clientOpen \/ Len(answers) = cReq - 1)
     /\ cReq' = cReq /\ answers' = answers /\ clientOpen' = clientOpen

LEMMA StepMaps ==
  ASSUME TypeOK, Fits, Fits', ExchangeStep
  PROVE  [Exchange!Next]_(Exchange!vars)
<1> USE DEF TypeOK, Exchange!Next, Exchange!Ask, Exchange!Answer, Exchange!Leave,
            Exchange!HangUp, Exchange!vars
<1>1. CASE cReq' = cReq /\ answers' = answers /\ clientOpen' = clientOpen /\ open' = open
  BY <1>1
<1>2. CASE /\ clientOpen /\ cReq' = cReq + 1
           /\ answers' = answers /\ clientOpen' = clientOpen /\ open' = open
  BY <1>2
<1>3. CASE Answers
  BY <1>3 DEF Answers, Current
<1>4. CASE /\ clientOpen /\ ~clientOpen'
           /\ cReq' = cReq /\ answers' = answers /\ open' = open
  BY <1>4
<1>5. CASE /\ open /\ ~open' /\ (~clientOpen \/ Len(answers) = cReq - 1)
           /\ cReq' = cReq /\ answers' = answers /\ clientOpen' = clientOpen
  BY <1>5
<1> QED
  BY <1>1, <1>2, <1>3, <1>4, <1>5 DEF ExchangeStep

\* Any other is promised nothing.
LEMMA ImpatientMaps ==
  ASSUME ~Fits, ~Fits' PROVE [Exchange!Next]_(Exchange!vars)
  BY DEF Exchange!vars

\* What the last call of a handler leaves, wherever it is made.
LEMMA Finished ==
  ASSUME TypeOK, Fits, ExchangeInv, client' = client,
         cReq = Current + 1, sReq' = Current + 1, sOff' = 0,
         answers' = Append(answers, Current), cgi' = None, ~junk', ~needsClose',
         IF reqs[Current].chunked
         THEN ~disconAfterSent' /\ postLen' = -1 /\ received' = 0
         ELSE disconAfterSent' /\ postLen' >= 0
  PROVE  ExchangeInv'
<1>1. /\ answers \in Seq(Nat) /\ Len(answers) \in Nat
      /\ InOrder /\ cOff = 0
      /\ reqs' = reqs /\ waits' = waits /\ cReq' = cReq /\ cOff' = cOff
  BY DEF TypeOK, ExchangeInv, InOrder, client
<1>2. /\ Len(answers') = Current /\ answers'[Current] = Current
      /\ \A i \in 1..Len(answers) : answers'[i] = answers[i]
  BY <1>1 DEF Current
<1>3. Current' = Current + 1
  BY <1>2 DEF Current
<1>4. InOrder'
  <2>1. ASSUME NEW i \in 1..Len(answers') PROVE answers'[i] = i
    <3>1. i \in 1..Len(answers) \/ i = Current
      BY <1>1, <1>2 DEF Current
    <3> QED
      BY <1>1, <1>2, <3>1 DEF InOrder
  <2> QED
    BY <1>1, <1>3, <2>1 DEF InOrder
<1>5. CASE reqs[Current].chunked
  BY <1>1, <1>3, <1>4, <1>5 DEF ExchangeInv, AtHead
<1>6. CASE ~reqs[Current].chunked
  <2>1. AtEnd'
    BY <1>1, <1>2, <1>3, <1>6 DEF AtEnd, Current
  <2> QED
    BY <1>1, <1>4, <2>1 DEF ExchangeInv
<1> QED
  BY <1>5, <1>6

LEMMA StageTypes ==
  ASSUME TypeOK, PosInv, Fits, ExchangeInv
  PROVE  /\ InOrder /\ Len(answers) \in Nat /\ Current \in Nat /\ Current # None
         /\ cReq \in Nat /\ cOff \in Nat /\ sReq \in Nat /\ sOff \in Nat
         /\ buffLen \in Nat /\ received \in Nat /\ postLen \in Nat \union {-1}
         /\ Current <= Len(reqs) =>
              /\ Current \in 1..Len(reqs)
              /\ reqs[Current].body \in Nat /\ reqs[Current].chunked \in BOOLEAN
              /\ reqs[Current].cgi \in {"simple", "stream", "eat"}
  BY PlanType, ConnAssumption DEF TypeOK, ExchangeInv, Current, None

\* Only at the head and in the body of the current request is anything to read.
LEMMA ReadsCurrent ==
  ASSUME TypeOK, PosInv, Fits, ExchangeInv, Reads
  PROVE  AtHead \/ InBody
  BY StageTypes DEF ExchangeInv, InOrder, InCall, AtEnd, Reads

LEMMA SendTokenExchange ==
  ASSUME TypeOK, PosInv, Fits, ExchangeInv, SendToken
  PROVE  ExchangeInv' /\ ExchangeStep
<1> USE StageTypes
<1>1. /\ reqs' = reqs /\ waits' = waits /\ answers' = answers /\ cgi' = cgi /\ clientOpen
      /\ sReq' = sReq /\ sOff' = sOff /\ junk' = junk /\ url' = url
      /\ postLen' = postLen /\ received' = received /\ buffLen' = buffLen
      /\ chunked' = chunked /\ disconAfterSent' = disconAfterSent /\ needsClose' = needsClose
      /\ clientOpen' = clientOpen /\ open' = open /\ cReq <= Len(reqs)
      /\ \/ cReq' = cReq + 1 /\ cOff' = 0
         \/ cReq' = cReq /\ cOff' = cOff + 1
  BY DEF SendToken, handler, post, flags
<1>2. cReq = Current /\ ~AtEnd
  <2>1. cReq > 1 /\ cOff = 0 =>
          reqs[cReq - 1].chunked /\ \E i \in 1..Len(answers) : answers[i] = cReq - 1
    BY DEF SendToken, MaySend, Fits
  <2>2. cReq # Current + 1
    BY <2>1 DEF InOrder, Current
  <2>3. ~AtEnd
    BY <2>1 DEF AtEnd, Current
  <2> QED
    BY <2>2, <2>3 DEF InOrder
<1>3. Current' = Current
  BY <1>1 DEF Current
<1>4. InOrder'
  BY <1>1, <1>2, <1>3 DEF InOrder
<1>5. (AtHead => AtHead') /\ (InBody => InBody')
  BY <1>1, <1>3 DEF AtHead, InBody
<1>6. ~InCall
  BY <1>2 DEF InCall
<1> QED
  BY <1>1, <1>2, <1>4, <1>5, <1>6 DEF ExchangeInv, ExchangeStep

\* A step that leaves the stage of the request alone.
LEMMA FrameExchange ==
  ASSUME Fits, ExchangeInv,
         reqs' = reqs /\ waits' = waits /\ cReq' = cReq /\ cOff' = cOff,
         sReq' = sReq /\ sOff' = sOff /\ url' = url /\ junk' = junk,
         post' = post /\ cgi' = cgi /\ answers' = answers /\ flags' = flags,
         needsClose' => disconAfterSent
  PROVE  ExchangeInv'
  BY DEF ExchangeInv, InOrder, AtHead, InBody, InCall, AtEnd, Current, post, flags

\* The last call leaves the connection for the next request, or to be closed.
LEMMA LastCall ==
  ASSUME NEW r, NEW n, NEW len \in Nat, NEW got, NEW ch \in BOOLEAN,
         CallCgi(r, n, len, got, ch), IsDone(r, n, len, got)
  PROVE  /\ answers' = Append(answers, r) /\ cgi' = None
         /\ IF ch THEN ~disconAfterSent' /\ postLen' = -1 /\ received' = 0
                  ELSE disconAfterSent' /\ postLen' >= 0
<1>1. CASE ch
  BY <1>1 DEF CallCgi
<1>2. CASE ~ch
  <2>1. answers' = Append(answers, r) /\ cgi' = None /\ postLen' = len
    BY <1>2 DEF CallCgi
  <2>2. disconAfterSent'
    BY <1>2, Zenon DEF CallCgi
  <2> QED
    BY <1>2, <2>1, <2>2
<1> QED
  BY <1>1, <1>2

LEMMA ReadHeadExchange ==
  ASSUME TypeOK, PosInv, Fits, ExchangeInv, ReadHead
  PROVE  ExchangeInv' /\ ExchangeStep
<1> USE StageTypes
<1>1. /\ Reads /\ open /\ sOff = 0 /\ TokenRead
      /\ client' = client /\ reqs' = reqs /\ waits' = waits /\ cReq' = cReq /\ cOff' = cOff
      /\ clientOpen' = clientOpen /\ open' = open /\ needsClose' = needsClose
      /\ buffLen' = 0 /\ ~junk'
  BY DEF ReadHead, Reads, client
<1>2. AtHead /\ sReq = Current /\ InOrder /\ ~needsClose
  BY <1>1, ReadsCurrent DEF InBody, AtHead, ExchangeInv
<1>3. Current \in 1..Len(reqs) /\ sOff \in 0..reqs[Current].body
  BY <1>1, <1>2, ReadsSent
<1>4. url' = Current
  BY <1>2 DEF ReadHead, AtHead
<1>5. CASE reqs[Current].body = 0
  <2>1. CallCgi(Current, 1, 0, 0, reqs[Current].chunked)
    BY <1>2, <1>3, <1>5 DEF ReadHead, AtHead
  <2>2. cReq = Current + 1 /\ sReq' = Current + 1 /\ sOff' = 0
    BY <1>1, <1>2, <1>3, <1>5 DEF TokenRead, PosInv, At, InOrder, Reads
  <2>3. CASE IsDone(Current, 1, 0, 0)
    <3>1. /\ answers' = Append(answers, Current) /\ cgi' = None
          /\ IF reqs[Current].chunked
             THEN ~disconAfterSent' /\ postLen' = -1 /\ received' = 0
             ELSE disconAfterSent' /\ postLen' >= 0
      <4>1. reqs[Current].chunked \in BOOLEAN /\ 0 \in Nat
        BY <1>3, PlanType
      <4> QED
        BY <2>1, <2>3, <4>1, LastCall
    <3> QED
      BY <1>1, <1>2, <2>2, <3>1, Finished DEF ExchangeStep, Answers, Current
  <2>4. CASE ~IsDone(Current, 1, 0, 0)
    <3>1. /\ answers' = answers /\ cgi' = Current /\ postLen' = 0
          /\ disconAfterSent' = disconAfterSent /\ chunked' = reqs[Current].chunked
      BY <1>3, <2>1, <2>4 DEF CallCgi
    <3>2. InCall' /\ InOrder'
      BY <1>1, <1>2, <1>3, <2>2, <3>1 DEF InCall, InOrder, AtHead, Current
    <3> QED
      BY <1>1, <1>2, <3>1, <3>2 DEF ExchangeInv, ExchangeStep
  <2> QED
    BY <2>3, <2>4
<1>6. CASE reqs[Current].body # 0
  <2>1. /\ postLen' = reqs[Current].body /\ received' = 0 /\ chunked' = reqs[Current].chunked
        /\ cgi' = cgi /\ answers' = answers /\ disconAfterSent' = disconAfterSent
    BY <1>2, <1>3, <1>6 DEF ReadHead, NoUrl, handler, AtHead
  <2>2. sReq' = Current /\ sOff' = 1
    BY <1>1, <1>2, <1>3, <1>6 DEF TokenRead
  <2>3. InBody' /\ InOrder'
    BY <1>1, <1>2, <1>3, <1>4, <2>1, <2>2 DEF InBody, InOrder, AtHead, Current
  <2> QED
    BY <1>1, <1>2, <2>1, <2>3 DEF ExchangeInv, ExchangeStep
<1> QED
  BY <1>5, <1>6

LEMMA ReadBodyExchange ==
  ASSUME TypeOK, PosInv, Fits, ExchangeInv, ReadBody
  PROVE  ExchangeInv' /\ ExchangeStep
<1> USE StageTypes
<1>1. /\ Reads /\ open /\ TokenRead
      /\ client' = client /\ reqs' = reqs /\ waits' = waits /\ cReq' = cReq /\ cOff' = cOff
      /\ clientOpen' = clientOpen /\ open' = open /\ needsClose' = needsClose
      /\ junk' = junk /\ url' = url
  BY DEF ReadBody, Reads, client
<1>2. InBody /\ sReq = Current /\ InOrder /\ ~needsClose
  BY <1>1, ReadsCurrent DEF ReadBody, InBody, AtHead, ExchangeInv
<1>3. Current \in 1..Len(reqs) /\ sOff \in 0..reqs[Current].body
  BY <1>1, <1>2, ReadsSent
<1>4. /\ url = Current /\ ~junk /\ chunked = reqs[Current].chunked /\ ~disconAfterSent
      /\ postLen = reqs[Current].body /\ received + 1 = sOff /\ buffLen <= received
      /\ cgi = None \/ (cgi = Current /\ reqs[Current].cgi = "eat")
  BY <1>2 DEF InBody
<1>5. reqs[Current].cgi = "eat" \/ reqs[Current].body <= PostLen
  BY <1>3 DEF Fits
<1>6. sOff # reqs[Current].body => sReq' = Current /\ sOff' = sOff + 1
  BY <1>1, <1>2 DEF TokenRead
<1>7. CASE ~BufferFull
  <2>1. /\ received' = received + 1 /\ buffLen' = buffLen + 1 /\ postLen' = postLen
        /\ cgi' = cgi /\ answers' = answers /\ chunked' = chunked
        /\ disconAfterSent' = disconAfterSent
    BY <1>7 DEF ReadBody, handler, flags
  <2>2. sOff # reqs[Current].body
    BY <1>4, <1>7 DEF BufferFull
  <2>3. Current' = Current /\ InOrder'
    BY <1>1, <1>2, <2>1 DEF InOrder, Current
  <2>4. sReq' = Current' /\ sOff' > 0 /\ received' = sOff' - 1 /\ buffLen' <= received'
    <3>1. sReq' = Current /\ sOff' = sOff + 1
      BY <1>6, <2>2
    <3>2. received + 1 = sOff /\ buffLen <= received
      BY <1>4
    <3>3. sOff \in Nat /\ received \in Nat /\ buffLen \in Nat
      OBVIOUS
    <3> QED
      BY ONLY <2>1, <2>3, <3>1, <3>2, <3>3
  <2>5. InBody'
    BY <1>1, <1>4, <2>1, <2>3, <2>4 DEF InBody
  <2> QED
    BY <1>1, <1>2, <2>1, <2>3, <2>5 DEF ExchangeInv, ExchangeStep
<1>8. CASE BufferFull
  <2>1. PICK n \in Nat : CallCgi(Current, n, postLen, received + 1, reqs[Current].chunked)
    <3>1. 1 \in Nat /\ calls + 1 \in Nat
      BY DEF TypeOK
    <3> QED
      BY <1>4, <1>8, <3>1 DEF ReadBody
  <2>2. buffLen' = 0
    BY <1>8 DEF ReadBody
  <2>3. CASE sOff = reqs[Current].body
    <3>1. cReq = Current + 1 /\ sReq' = Current + 1 /\ sOff' = 0
      BY <1>1, <1>2, <1>3, <2>3 DEF TokenRead, PosInv, At, InOrder, Reads
    <3>2. CASE IsDone(Current, n, postLen, received + 1)
      <4>1. /\ answers' = Append(answers, Current) /\ cgi' = None
            /\ IF reqs[Current].chunked
               THEN ~disconAfterSent' /\ postLen' = -1 /\ received' = 0
               ELSE disconAfterSent' /\ postLen' >= 0
        <5>1. reqs[Current].chunked \in BOOLEAN /\ postLen \in Nat
          BY <1>3, <1>4, PlanType
        <5> QED
          BY <2>1, <3>2, <5>1, LastCall
      <4> QED
        BY <1>1, <1>2, <1>4, <3>1, <4>1, Finished DEF ExchangeStep, Answers, Current
    <3>3. CASE ~IsDone(Current, n, postLen, received + 1)
      <4>1. /\ answers' = answers /\ cgi' = Current /\ postLen' = postLen
            /\ disconAfterSent' = disconAfterSent /\ chunked' = reqs[Current].chunked
        <5>1. reqs[Current].chunked \in BOOLEAN
          BY <1>3
        <5> QED
          BY ONLY <2>1, <3>3, <5>1 DEF CallCgi
      <4>2. InCall' /\ InOrder'
        BY <1>1, <1>2, <1>3, <1>4, <3>1, <4>1 DEF InCall, InOrder, Current
      <4> QED
        BY <1>1, <1>2, <4>1, <4>2 DEF ExchangeInv, ExchangeStep
    <3> QED
      BY <3>2, <3>3
  <2>4. CASE sOff # reqs[Current].body
    <3>1. reqs[Current].cgi = "eat"
      BY <1>3, <1>4, <1>5, <1>8, <2>4, ConnAssumption DEF BufferFull
    <3>2. ~IsDone(Current, n, postLen, received + 1)
      BY <1>4, <2>4, <3>1 DEF IsDone
    <3>3. /\ answers' = answers /\ cgi' = Current /\ postLen' = postLen
          /\ received' = received + 1
          /\ disconAfterSent' = disconAfterSent /\ chunked' = reqs[Current].chunked
      <4>1. reqs[Current].chunked \in BOOLEAN
        BY <1>3
      <4> QED
        BY ONLY <2>1, <3>2, <4>1 DEF CallCgi
    <3>4. Current' = Current /\ InOrder'
      BY <1>1, <1>2, <3>3 DEF InOrder, Current
    <3>5. sReq' = Current' /\ sOff' > 0 /\ received' = sOff' - 1 /\ buffLen' <= received'
      <4>1. sReq' = Current /\ sOff' = sOff + 1
        BY <1>6, <2>4
      <4>2. received + 1 = sOff /\ sOff \in Nat /\ received \in Nat
        BY <1>4
      <4> QED
        BY ONLY <2>2, <3>3, <3>4, <4>1, <4>2
    <3>6. InBody'
      BY <1>1, <1>4, <3>1, <3>3, <3>4, <3>5 DEF InBody
    <3> QED
      BY <1>1, <1>2, <3>3, <3>4, <3>6 DEF ExchangeInv, ExchangeStep
  <2> QED
    BY <2>3, <2>4
<1> QED
  BY <1>7, <1>8

LEMMA ContinueExchange ==
  ASSUME TypeOK, PosInv, Fits, ExchangeInv, Continue
  PROVE  ExchangeInv' /\ ExchangeStep
<1> USE StageTypes
<1>1. /\ client' = client /\ reqs' = reqs /\ waits' = waits /\ cReq' = cReq /\ cOff' = cOff
      /\ clientOpen' = clientOpen /\ open /\ open' = open /\ needsClose' = needsClose
      /\ ~needsClose /\ ~disconAfterSent
      /\ sReq' = sReq /\ sOff' = sOff /\ junk' = junk /\ url' = url
  BY DEF Continue, Writable, client
<1>2. CASE cgi = None
  <2>1. post' = post /\ cgi' = cgi /\ answers' = answers /\ flags' = flags
    BY <1>2 DEF Continue, handler
  <2> QED
    BY <1>1, <2>1, FrameExchange DEF ExchangeStep
<1>3. CASE cgi # None
  <2>1. InOrder /\ (InBody \/ InCall) /\ cgi = Current
    BY <1>1, <1>3 DEF ExchangeInv, AtHead, InBody, InCall, AtEnd
  <2>2. Current \in 1..Len(reqs) /\ chunked = reqs[Current].chunked /\ ~junk /\ postLen >= 0
    BY <2>1 DEF InBody, InCall, PosInv, At
  <2>3. CASE IsDone(Current, calls + 1, postLen, received)
    <3>1. InCall
      <4>1. InBody => reqs[Current].cgi = "eat" /\ received # postLen
        BY <1>3, <2>2 DEF InBody, PosInv, At
      <4> QED
        BY <2>1, <2>3, <4>1 DEF IsDone
    <3>2. /\ answers' = Append(answers, Current) /\ cgi' = None
          /\ IF reqs[Current].chunked
             THEN ~disconAfterSent' /\ postLen' = -1 /\ received' = 0
             ELSE disconAfterSent' /\ postLen' = postLen
      BY <1>3, <2>1, <2>2, <2>3 DEF Continue, post
    <3> QED
      BY <1>1, <2>1, <2>2, <3>1, <3>2, Finished DEF InCall, ExchangeStep, Answers, Current
  <2>4. CASE ~IsDone(Current, calls + 1, postLen, received)
    <3>1. /\ answers' = answers /\ cgi' = cgi /\ ~disconAfterSent' /\ chunked' = chunked
          /\ postLen' = postLen /\ received' = received /\ buffLen' = buffLen
      BY <1>3, <2>1, <2>2, <2>4 DEF Continue, post, TypeOK
    <3>2. (InBody => InBody') /\ (InCall => InCall') /\ InOrder'
      BY <1>1, <2>1, <3>1 DEF InBody, InCall, InOrder, Current
    <3> QED
      BY <1>1, <2>1, <3>1, <3>2 DEF ExchangeInv, ExchangeStep
  <2> QED
    BY <2>3, <2>4
<1> QED
  BY <1>2, <1>3

LEMMA ExchangeInvStep ==
  ASSUME TypeOK, PosInv, Fits, ExchangeInv, [Next]_vars
  PROVE  ExchangeInv' /\ ExchangeStep
<1>2. CASE SendToken
  BY <1>2, SendTokenExchange
<1>3. CASE HangUp
  <2>1. ExchangeInv'
    BY <1>3, FrameExchange DEF HangUp, handler, ExchangeInv
  <2> QED
    BY <1>3, <2>1 DEF HangUp, handler, ExchangeStep
<1>4. CASE ReadHead \/ ReadBody \/ Continue
  BY <1>4, ReadHeadExchange, ReadBodyExchange, ContinueExchange
<1>5. CASE ReadJunk \/ ReadUnexpected
  <2>1. /\ Reads /\ ((postLen < 0 /\ sOff > 0) \/ postLen = 0)
    BY <1>5 DEF ReadJunk, ReadUnexpected
  <2> QED
    BY <2>1, ReadsCurrent, StageTypes DEF AtHead, InBody, PosInv, At
<1>6. CASE RecvFails \/ CloseSent
  <2>1. /\ reqs' = reqs /\ waits' = waits /\ cReq' = cReq /\ cOff' = cOff /\ clientOpen' = clientOpen
        /\ sReq' = sReq /\ sOff' = sOff /\ url' = url /\ junk' = junk
        /\ post' = post /\ cgi' = cgi /\ answers' = answers /\ flags' = flags
        /\ needsClose' = needsClose /\ open /\ ~open'
    BY <1>6 DEF RecvFails, CloseSent, Writable, closeConnection, client
  <2>2. ~clientOpen \/ AtEnd
    BY <1>6 DEF RecvFails, CloseSent, ExchangeInv, AtHead, InBody, InCall
  <2>3. ~clientOpen \/ Len(answers) = cReq - 1
    BY <2>2, StageTypes DEF AtEnd, Current
  <2>4. ExchangeInv'
    BY <2>1, FrameExchange DEF ExchangeInv
  <2> QED
    BY <2>1, <2>3, <2>4 DEF ExchangeStep
<1>7. CASE EndRecv \/ Disconnect \/ UNCHANGED vars
  <2>1. /\ reqs' = reqs /\ waits' = waits /\ cReq' = cReq /\ cOff' = cOff /\ clientOpen' = clientOpen
        /\ sReq' = sReq /\ sOff' = sOff /\ url' = url /\ junk' = junk
        /\ post' = post /\ cgi' = cgi /\ answers' = answers /\ flags' = flags
        /\ open' = open /\ (needsClose' => needsClose \/ disconAfterSent)
    <3>1. CASE EndRecv
      BY <3>1 DEF EndRecv, client, handler
    <3>2. CASE Disconnect
      BY <3>2 DEF Disconnect, client, handler
    <3>3. CASE UNCHANGED vars
      BY <3>3 DEF vars, client, handler
    <3> QED
      BY <1>7, <3>1, <3>2, <3>3
  <2>2. ExchangeInv'
    BY <2>1, FrameExchange DEF ExchangeInv
  <2> QED
    BY <2>1, <2>2 DEF ExchangeStep
<1> QED
  BY <1>2, <1>3, <1>4, <1>5, <1>6, <1>7 DEF Next, Server

\* The plan does not change, nor whether it fits.
LEMMA FitsStays == ASSUME [Next]_vars PROVE Fits' <=> Fits
<1>1. reqs' = reqs /\ waits' = waits
  BY DEF Next, Server, SendToken, HangUp, ReadHead, ReadJunk, ReadBody, ReadUnexpected, EndRecv,
         RecvFails, CloseSent, Disconnect, Continue, vars, client
<1> QED
  BY <1>1 DEF Fits

\* A connection does what HttpdExchange allows, and nothing else: a client that
\* waits, and whose requests fit, gets the answers to its requests in order,
\* each once and only when it has sent the request, and is not hung up on
\* before.  (That the answers come in the end is for TLC: it needs the fairness.)
THEOREM ImplementsExchange == Spec => Exchange!SafeSpec
<1>1. Init => ExchangeInv /\ Exchange!Init
  <2> SUFFICES ASSUME Init PROVE ExchangeInv /\ Exchange!Init
    OBVIOUS
  <2>1. Exchange!Init
    BY DEF Init, Exchange!Init
  <2> QED
    BY <2>1 DEF Init, ExchangeInv, InOrder, AtHead, Current
<1>2. TypeOK /\ PosInv /\ ExchangeInv /\ [Next]_vars
        => TypeOK' /\ PosInv' /\ ExchangeInv' /\ [Exchange!Next]_(Exchange!vars)
  <2> SUFFICES ASSUME TypeOK, PosInv, ExchangeInv, [Next]_vars
               PROVE  /\ TypeOK' /\ PosInv' /\ ExchangeInv'
                      /\ [Exchange!Next]_(Exchange!vars)
    OBVIOUS
  <2>1. CASE Fits
    BY <2>1, StepTypeOK, FitsStays, ExchangeInvStep, StepMaps
  <2>2. CASE ~Fits
    BY <2>2, StepTypeOK, FitsStays, ImpatientMaps DEF ExchangeInv
  <2> QED
    BY <2>1, <2>2
<1> QED
  BY <1>1, <1>2, InitTypeOK, PTL DEF Spec, Exchange!SafeSpec
=============================================================================
