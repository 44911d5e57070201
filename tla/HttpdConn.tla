------------------------------ MODULE HttpdConn ------------------------------
(***************************************************************************)
(* One connection of the web server (libesphttpd): the parser in           *)
(* httpdRecvCb, the handlers it and httpdContinue call, and the loop of    *)
(* the server task that reads, notices that data was sent, and closes.     *)
(*                                                                         *)
(* The client follows a plan, a sequence of requests.  A request is a head *)
(* (one token) followed by `body` tokens; every token stands for a run of  *)
(* bytes without a line end.  Three kinds of handlers are used:            *)
(*   simple  answers in one call (onSetRelay, cgiRedirect, ...)            *)
(*   stream  answers in Pieces calls (cgiEspFsHook); the last may find the *)
(*           end of the file and send nothing                              *)
(*   eat     waits for the whole body, then answers (cgiNotFound)          *)
(***************************************************************************)
EXTENDS Integers, Sequences

CONSTANTS
  Plans,    \* what a client may have in mind: its requests, and whether it
            \* waits for the answer to one before it sends the next
  PostLen,  \* HTTPD_MAX_POST_LEN, in tokens
  Pieces    \* calls that a stream handler needs

Requests == [body : Nat, cgi : {"simple", "stream", "eat"},
             chunked : BOOLEAN,     \* HTTP/1.1 without Connection: close
             lastEmpty : BOOLEAN]   \* the last call of the handler sends nothing

ASSUME ConnAssumption ==
  /\ Plans \subseteq [reqs : Seq(Requests), waits : BOOLEAN]
  /\ PostLen \in Nat \ {0}
  /\ Pieces \in Nat \ {0}

None == 0   \* conn->cgi or conn->url is NULL

VARIABLES
  reqs, waits,    \* the plan of the client
  cReq, cOff,     \* the token the client sends next: 0 is the head
  clientOpen,
  sReq, sOff,     \* the token the server reads next
  open,           \* pRconn->fd is not -1
  receiving,      \* the server is in httpdRecvCb
  url,            \* the request whose head is in the buffer, or None
  cgi,            \* the request whose handler is set, or None
  junk,           \* the head buffer does not begin with a request line
  postLen, received, buffLen,  \* conn->post
  calls,          \* calls of the handler so far (its cgiData)
  fileOpen,       \* a stream handler holds its file
  chunked,        \* flag HFL_CHUNKED
  disconAfterSent,
  unsent,         \* there is something in the send buffer
  needWriteDone, needsClose,
  answers,        \* history: the requests answered
  aborts          \* history: calls of a handler with isConnectionClosed

client == <<reqs, waits, cReq, cOff, clientOpen>>
post == <<postLen, received, buffLen>>
flags == <<chunked, disconAfterSent>>
handler == <<cgi, calls, fileOpen, answers>>
vars == <<client, sReq, sOff, open, receiving, url, junk, post, handler, flags,
          unsent, needWriteDone, needsClose, aborts>>

Init ==
  /\ \E p \in Plans : reqs = p.reqs /\ waits = p.waits
  /\ cReq = 1 /\ cOff = 0 /\ clientOpen = TRUE
  /\ sReq = 1 /\ sOff = 0
  /\ open = TRUE
  /\ receiving = FALSE
  /\ url = None /\ cgi = None /\ junk = FALSE
  /\ postLen = -1 /\ received = 0 /\ buffLen = 0
  /\ calls = 0 /\ fileOpen = FALSE
  /\ chunked = FALSE /\ disconAfterSent = FALSE
  /\ unsent = FALSE
  /\ needWriteDone = FALSE /\ needsClose = FALSE
  /\ answers = <<>> /\ aborts = 0

-----------------------------------------------------------------------------
(* The client. *)

\* It sends a request at once, or when the one before has been answered by a
\* server that keeps the connection.
MaySend ==
  cReq > 1 /\ cOff = 0 /\ waits =>
    reqs[cReq - 1].chunked /\ \E i \in 1..Len(answers) : answers[i] = cReq - 1

SendToken ==
  /\ clientOpen
  /\ cReq <= Len(reqs)
  /\ MaySend
  /\ IF cOff = reqs[cReq].body
       THEN cReq' = cReq + 1 /\ cOff' = 0
       ELSE cReq' = cReq /\ cOff' = cOff + 1
  /\ UNCHANGED <<reqs, waits, clientOpen, sReq, sOff, open, receiving, url, junk, post,
                 handler, flags, unsent, needWriteDone, needsClose, aborts>>

HangUp ==
  /\ clientOpen
  /\ clientOpen' = FALSE
  /\ UNCHANGED <<reqs, waits, cReq, cOff, sReq, sOff, open, receiving, url, junk, post,
                 handler, flags, unsent, needWriteDone, needsClose, aborts>>

-----------------------------------------------------------------------------
(* Handlers. *)

\* The n-th call of the handler of request r, got of len body tokens received,
\* returns HTTPD_CGI_DONE (or else HTTPD_CGI_MORE).
IsDone(r, n, len, got) ==
  \/ reqs[r].cgi = "simple"
  \/ reqs[r].cgi = "stream" /\ n >= Pieces
  \/ reqs[r].cgi = "eat" /\ got = len

\* It puts something in the send buffer.
Sends(r, done) ==
  CASE reqs[r].cgi = "simple" -> TRUE
    [] reqs[r].cgi = "stream" -> ~(done /\ reqs[r].lastEmpty)
    [] reqs[r].cgi = "eat"    -> done

\* The call and, if it is the last, httpdCgiIsDone.  ch is the flag
\* HFL_CHUNKED; with it the connection is made ready for the next request and
\* the buffer sent, with the last chunk in it.
CallCgi(r, n, len, got, ch) ==
  LET done  == IsDone(r, n, len, got)
      reset == done /\ ch
  IN  /\ calls' = n
      /\ fileOpen' = (reqs[r].cgi = "stream" /\ ~done)
      /\ answers' = IF done THEN Append(answers, r) ELSE answers
      /\ cgi' = IF done THEN None ELSE r
      /\ chunked' = (ch /\ ~done)
      /\ disconAfterSent' = IF done THEN ~ch ELSE disconAfterSent
      /\ postLen' = IF reset THEN -1 ELSE len
      /\ received' = IF reset THEN 0 ELSE got
      /\ unsent' = (~reset /\ (unsent \/ Sends(r, done)))
      /\ needWriteDone' = (needWriteDone \/ reset)

\* httpdProcessRequest finds no URL and returns.
NoUrl(len, got, ch) ==
  /\ postLen' = len /\ received' = got
  /\ chunked' = ch
  /\ UNCHANGED <<handler, disconAfterSent, unsent, needWriteDone>>

-----------------------------------------------------------------------------
(* httpdRecvCb, one token at a time.  What arrives together is read       *)
(* together, so the end of a segment can be anywhere.                      *)

\* recv found data and the loop in httpdRecvCb comes to the next of it.
Reads ==
  /\ open
  /\ sReq < cReq \/ sOff < cOff

TokenRead ==
  IF sOff = reqs[sReq].body
    THEN sReq' = sReq + 1 /\ sOff' = 0
    ELSE sReq' = sReq /\ sOff' = sOff + 1

\* Mutant: the handler is called as soon as the head is complete.
ReadHead_Early ==
  /\ Reads /\ postLen < 0 /\ sOff = 0
  /\ TokenRead
  /\ receiving' = TRUE
  /\ url' = IF junk THEN None ELSE sReq
  /\ junk' = FALSE
  /\ buffLen' = 0
  /\ LET ch  == ~junk /\ reqs[sReq].chunked
         len == reqs[sReq].body
     IN  IF ~junk
           THEN CallCgi(sReq, 1, len, received, ch)
           ELSE NoUrl(len, received, ch)
  /\ UNCHANGED <<client, open, needsClose, aborts>>

\* The end of the head.
ReadHead ==
  /\ Reads /\ postLen < 0 /\ sOff = 0
  /\ TokenRead
  /\ receiving' = TRUE
  /\ url' = IF junk THEN None ELSE sReq
  /\ junk' = FALSE
  /\ buffLen' = 0
  /\ LET ch  == ~junk /\ reqs[sReq].chunked
         len == reqs[sReq].body
     IN  IF len = 0 /\ ~junk
           THEN CallCgi(sReq, 1, len, received, ch)
           ELSE NoUrl(len, received, ch)
  /\ UNCHANGED <<client, open, needsClose, aborts>>

\* The rest of a body whose handler is done becomes the beginning of a head.
ReadJunk ==
  /\ Reads /\ postLen < 0 /\ sOff > 0
  /\ TokenRead
  /\ receiving' = TRUE
  /\ junk' = TRUE
  /\ UNCHANGED <<client, open, url, post, handler, flags, unsent, needWriteDone,
                 needsClose, aborts>>

\* Mutant: only the end of the body counts.
BufferFull_End == received + 1 = postLen

\* The handler gets the body when it is complete or the buffer is full.
BufferFull ==
  \/ buffLen + 1 >= IF postLen > PostLen THEN PostLen ELSE postLen
  \/ received + 1 = postLen

ReadBody ==
  /\ Reads /\ postLen > 0
  /\ TokenRead
  /\ receiving' = TRUE
  /\ IF ~BufferFull
       THEN /\ received' = received + 1
            /\ buffLen' = buffLen + 1
            /\ UNCHANGED <<postLen, handler, flags, unsent, needWriteDone>>
       ELSE /\ buffLen' = 0
            /\ IF cgi # None
                 THEN CallCgi(cgi, calls + 1, postLen, received + 1, chunked)
                 ELSE IF url # None
                   THEN CallCgi(url, 1, postLen, received + 1, chunked)
                   ELSE NoUrl(postLen, received + 1, chunked)
  /\ UNCHANGED <<client, open, url, junk, needsClose, aborts>>

-----------------------------------------------------------------------------
(* The loop of the server task. *)

\* Mutant: the handler is not told.
closeConnection_Silent(n) ==
  /\ open' = FALSE
  /\ UNCHANGED <<fileOpen, aborts>>

\* closeConnection, n times: httpdDisconCb calls the handler once more.
closeConnection(n) ==
  /\ open' = FALSE
  /\ fileOpen' = (fileOpen /\ cgi = None)
  /\ aborts' = aborts + IF cgi # None THEN n ELSE 0

\* Data that no state of the parser expects: CallbackError.
ReadUnexpected ==
  /\ Reads /\ postLen = 0
  /\ TokenRead
  /\ closeConnection(1)
  /\ receiving' = FALSE
  /\ unsent' = FALSE
  /\ needWriteDone' = (needWriteDone \/ unsent)
  /\ UNCHANGED <<client, url, junk, post, cgi, calls, answers, flags, needsClose>>

\* The end of httpdRecvCb: httpdFlushSendBuffer.
EndRecv ==
  /\ open /\ receiving
  /\ receiving' = FALSE
  /\ unsent' = FALSE
  /\ needWriteDone' = (needWriteDone \/ unsent)
  /\ UNCHANGED <<client, sReq, sOff, open, url, junk, post, handler, flags,
                 needsClose, aborts>>

\* recv fails, as the client is gone.
RecvFails ==
  /\ open /\ ~receiving /\ ~clientOpen
  /\ closeConnection(1)
  /\ UNCHANGED <<client, sReq, sOff, receiving, url, junk, post, cgi, calls,
                 answers, flags, unsent, needWriteDone, needsClose>>

\* The socket is writable and somebody waits for that.
Writable == open /\ ~receiving /\ needWriteDone

\* The loop goes on to look for fd -1 in the set of readable sockets: whatever
\* it finds there, the connection may be closed again.
CloseSent ==
  /\ Writable /\ needsClose
  /\ needWriteDone' = FALSE
  /\ \E n \in {1, 2} : closeConnection(n)
  /\ UNCHANGED <<client, sReq, sOff, receiving, url, junk, post, cgi, calls,
                 answers, flags, unsent, needsClose>>

\* Mutant: httpdPlatDisconnect does not ask to be told when data was sent.
Disconnect_NoNotif ==
  /\ Writable /\ ~needsClose /\ disconAfterSent
  /\ needsClose' = TRUE
  /\ needWriteDone' = FALSE
  /\ UNCHANGED <<client, sReq, sOff, open, receiving, url, junk, post, handler,
                 flags, unsent, aborts>>

\* httpdContinue: httpdPlatDisconnect.
Disconnect ==
  /\ Writable /\ ~needsClose /\ disconAfterSent
  /\ needsClose' = TRUE
  /\ UNCHANGED <<client, sReq, sOff, open, receiving, url, junk, post, handler,
                 flags, unsent, needWriteDone, aborts>>

\* httpdContinue: the next call of the handler, if there is one.
Continue ==
  /\ Writable /\ ~needsClose /\ ~disconAfterSent
  /\ IF cgi = None
       THEN /\ needWriteDone' = FALSE
            /\ UNCHANGED <<post, handler, flags>>
       ELSE LET done == IsDone(cgi, calls + 1, postLen, received)
            IN  /\ calls' = calls + 1
                /\ fileOpen' = (fileOpen /\ ~done)
                /\ answers' = IF done THEN Append(answers, cgi) ELSE answers
                /\ cgi' = IF done THEN None ELSE cgi
                /\ chunked' = (chunked /\ ~done)
                /\ disconAfterSent' = (done /\ ~chunked)
                /\ needWriteDone' = (Sends(cgi, done) \/ (done /\ chunked))
                /\ IF done /\ chunked
                     THEN postLen' = -1 /\ received' = 0 /\ buffLen' = 0
                     ELSE UNCHANGED post
  /\ UNCHANGED <<client, sReq, sOff, open, receiving, url, junk, unsent,
                 needsClose, aborts>>

-----------------------------------------------------------------------------
Server ==
  \/ ReadHead \/ ReadJunk \/ ReadBody \/ ReadUnexpected
  \/ EndRecv \/ RecvFails
  \/ CloseSent \/ Disconnect \/ Continue

Next == SendToken \/ HangUp \/ Server

\* The server task looks at every socket in turn, and a client that does not
\* hang up takes what is sent to it.  The client promises nothing else.
Fairness == WF_vars(Server)

Spec == Init /\ [][Next]_vars
FairSpec == Spec /\ Fairness

-----------------------------------------------------------------------------
(* Properties. *)

TypeOK ==
  /\ [reqs |-> reqs, waits |-> waits] \in Plans
  /\ cReq \in Nat /\ cOff \in Nat /\ clientOpen \in BOOLEAN
  /\ sReq \in Nat /\ sOff \in Nat
  /\ open \in BOOLEAN /\ receiving \in BOOLEAN
  /\ url \in Nat /\ cgi \in Nat /\ junk \in BOOLEAN
  /\ postLen \in Nat \union {-1} /\ received \in Nat /\ buffLen \in 0..PostLen
  /\ calls \in Nat /\ fileOpen \in BOOLEAN
  /\ chunked \in BOOLEAN /\ disconAfterSent \in BOOLEAN
  /\ unsent \in BOOLEAN /\ needWriteDone \in BOOLEAN /\ needsClose \in BOOLEAN
  /\ answers \in Seq(Nat) /\ aborts \in Nat

\* A request that its handler deals with once, whatever it has left unread.
\* After a kept connection's request the state is reset.  If the connection is
\* not kept, the body fits the buffer, or its handler waits for the whole; and
\* no request follows it, unless it has no body: what comes behind a handler
\* that is done is taken for the rest of the body, and the handler called again.
Orderly(r) ==
  reqs[r].chunked \/ /\ reqs[r].cgi = "eat" \/ reqs[r].body <= PostLen
                     /\ waits \/ r = Len(reqs) \/ reqs[r].body = 0

\* libesphttpd README.md:356, a handler that has returned HTTPD_CGI_DONE is not
\* called again: no orderly request is answered twice.
HandledOnce ==
  \A i, j \in 1..Len(answers) :
    i # j /\ answers[i] = answers[j] => ~Orderly(answers[i])

\* A file that a stream handler has opened belongs to a live connection whose
\* handler will be called again: no path out of any request loses it.
FileReleased == fileOpen => open /\ cgi # None /\ reqs[cgi].cgi = "stream"

\* A handler is told at most once that its connection is gone, and frees what
\* it holds then: a second time it would free it again.  Only the handler of a
\* request that is not orderly can be told twice: it has been started again on
\* a connection that is already to be closed.
AbortedOnce == aborts > 1 => url # None /\ ~Orderly(url) /\ disconAfterSent

\* What happens once happens once, and what is open is closed, whatever a client
\* sends and whenever it hangs up.
OnceEach == HandledOnce /\ FileReleased /\ AbortedOnce

\* A client that may count on its answers: it waits for them, and each of its
\* bodies fits the buffer or has a handler that waits for the whole.
Fits ==
  waits /\ \A r \in 1..Len(reqs) : reqs[r].cgi = "eat" \/ reqs[r].body <= PostLen

\* A connection is what such a client takes it for.  Any other is promised
\* nothing, and seen as one that has not asked yet.
Exchange == INSTANCE HttpdExchange WITH
  asked   <- IF Fits THEN cReq - 1 ELSE 0,
  answers <- IF Fits THEN answers ELSE <<>>,
  left    <- Fits /\ ~clientOpen,
  open    <- Fits => open
Implements == Exchange!Spec

\* The last call of a handler on a connection that is not kept sends nothing:
\* there will be no notification.
SilentEnd ==
  answers # <<>> /\ LET r == reqs[answers[Len(answers)]]
                    IN  r.cgi = "stream" /\ r.lastEmpty /\ ~r.chunked

\* core/httpd.c:475, "Mark to get it killed after all data is sent": a connection
\* that cannot be used again is closed in the end.  After a silent end it is,
\* in general, only when the client hangs up.
ConnectionEnds ==
  /\ (disconAfterSent /\ ~SilentEnd) ~> ~open
  /\ (disconAfterSent /\ ~clientOpen) ~> ~open
=============================================================================
