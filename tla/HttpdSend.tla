------------------------------ MODULE HttpdSend ------------------------------
(***************************************************************************)
(* The send buffer of a connection (libesphttpd core/httpd.c): a handler   *)
(* puts status line, headers and body together with httpdSend, which drops *)
(* what does not fit; when the handler returns, httpdFlushSendBuffer       *)
(* closes the open chunk, adds the last chunk if the handler is done, and  *)
(* sends the buffer.  With chunked encoding six bytes are set aside for    *)
(* the size of a chunk, to be filled in by the flush.                      *)
(*                                                                         *)
(* Only lengths are modelled.  Handlers differ in what they leave free in  *)
(* the buffer: onCamCapture stays HTTPD_MAX_HEAD_LEN short, others do not  *)
(* look.                                                                   *)
(***************************************************************************)
EXTENDS Integers

CONSTANTS
  MaxBuff,   \* HTTPD_MAX_SENDBUFF_LEN
  Lens,      \* the lengths that handlers pass to httpdSend
  Reserves   \* numbers of bytes that handlers leave free; 0: do not look

ASSUME SendAssumption ==
  /\ MaxBuff \in Nat /\ MaxBuff <= 65535   \* what four hex digits can say
  /\ Lens \subseteq Nat
  /\ Reserves \subseteq Nat

VARIABLES
  sendBuffLen,  \* bytes in the buffer
  chunkHdr,     \* where the open chunk begins, or NoChunk
  chunked,      \* flag HFL_CHUNKED
  sendingBody,  \* flag HFL_SENDINGBODY
  phase,        \* "wait" (no handler runs), "cgi" (one does) or "done" (it
                \* has returned HTTPD_CGI_DONE: conn->cgi is NULL)
  reserve,      \* what the handler of this request leaves free
  accepted,     \* history: body bytes httpdSend took in the last call
  sent          \* history: what the last flush sent, and where it wrote

vars == <<sendBuffLen, chunkHdr, chunked, sendingBody, phase, reserve, accepted, sent>>

NoChunk == -1
CHUNK_SIZE_TEXT_LEN == 6   \* "0000\r\n"
CrLf == 2
LastChunk == 5             \* "0\r\n\r\n"
Nul == 1                   \* strcpy writes one byte more

\* A flush sends a chunk announced to have `declared` bytes, with or without
\* the CR LF behind it, and perhaps the last chunk.  It may leave `unsent`
\* bytes at the end of the buffer, and write a byte behind the buffer.
Flushes == [declared : Nat, crlf : BOOLEAN, last : BOOLEAN, unsent : Nat, overrun : BOOLEAN]
Nothing == [declared |-> 0, crlf |-> TRUE, last |-> FALSE, unsent |-> 0, overrun |-> FALSE]

Init ==
  /\ sendBuffLen = 0
  /\ chunkHdr = NoChunk
  /\ chunked \in BOOLEAN   \* set by the first line of the request
  /\ sendingBody = FALSE
  /\ phase = "wait"
  /\ reserve \in Reserves
  /\ accepted = 0
  /\ sent = Nothing

-----------------------------------------------------------------------------
(* httpdSend *)

OpensChunk == chunked /\ sendingBody /\ chunkHdr = NoChunk

\* What a call of httpdSend with n bytes adds to the buffer.
Needed(n) == n + IF OpensChunk THEN CHUNK_SIZE_TEXT_LEN ELSE 0

\* Mutant: the limit is checked before the chunk size is put in.
Dropped_Early(n) == n = 0 \/ sendBuffLen + n > MaxBuff

Dropped(n) == n = 0 \/ sendBuffLen + Needed(n) > MaxBuff

httpdSend(n) ==
  \/ Dropped(n) /\ UNCHANGED <<sendBuffLen, chunkHdr, accepted>>
  \/ /\ ~Dropped(n)
     /\ sendBuffLen' = sendBuffLen + Needed(n)
     /\ chunkHdr' = IF OpensChunk THEN sendBuffLen ELSE chunkHdr
     /\ accepted' = IF sendingBody THEN accepted + n ELSE accepted

\* The discipline of the handler, beyond what httpdSend checks.
LeavesReserve(n) == reserve > 0 => sendBuffLen + Needed(n) + reserve <= MaxBuff

-----------------------------------------------------------------------------
(* The handler. *)

\* httpdRecvCb or httpdContinue calls it with an empty buffer.
Call ==
  /\ phase = "wait"
  /\ phase' = "cgi"
  /\ sendBuffLen' = 0
  /\ accepted' = 0
  /\ UNCHANGED <<chunkHdr, chunked, sendingBody, reserve, sent>>

\* httpdStartResponse, httpdHeader; or body data after httpdEndHeaders.
Send(n) ==
  /\ phase = "cgi"
  /\ LeavesReserve(n)
  /\ httpdSend(n)
  /\ UNCHANGED <<chunked, sendingBody, phase, reserve, sent>>

httpdEndHeaders ==
  /\ phase = "cgi"
  /\ ~sendingBody
  /\ LeavesReserve(CrLf)
  /\ httpdSend(CrLf)
  /\ sendingBody' = TRUE
  /\ UNCHANGED <<chunked, phase, reserve, sent>>

-----------------------------------------------------------------------------
(* httpdFlushSendBuffer *)

\* The CR LF that ends a chunk goes through httpdSend, whose answer is ignored.
CrLfFits == sendBuffLen + CrLf <= MaxBuff
Closed == sendBuffLen + IF chunkHdr # NoChunk /\ CrLfFits THEN CrLf ELSE 0

\* Four hex digits of a number that is at most 65535 and may be negative.
HexDigits(i) == IF i < 0 THEN i + 65536 ELSE i

\* Mutant: the CR LF is counted as data.
Declared_WithCrLf == HexDigits(Closed - chunkHdr - CHUNK_SIZE_TEXT_LEN)

\* The size filled in: the length less the CR LF that is taken to be there.
Declared == HexDigits(Closed - chunkHdr - (CHUNK_SIZE_TEXT_LEN + CrLf))

\* Whether the flush adds the last chunk: room is asked for its five bytes ...
AddsLast(cgiIsNull) == chunked /\ sendingBody /\ cgiIsNull /\ Closed + LastChunk <= MaxBuff

\* ... but strcpy writes six.  With exactly five bytes free its NUL goes behind
\* sendBuff, onto the low byte of sendBuffLen.
Overruns(cgiIsNull) == AddsLast(cgiIsNull) /\ Closed + LastChunk + Nul > MaxBuff

\* The bytes left at the end of the buffer: none, but after that write the
\* length sent is the true one, if the compiler still holds it, or the one
\* whose low byte was cleared.
Unsent(cgiIsNull) == {0} \union IF Overruns(cgiIsNull) THEN {Closed % 256} ELSE {}

\* Mutant: the last chunk is left to the next flush, which finds the flags
\* cleared.
httpdFlushSendBuffer_NoLast(cgiIsNull) ==
  /\ sent' = IF chunkHdr # NoChunk
               THEN [Nothing EXCEPT !.declared = Declared, !.crlf = CrLfFits]
               ELSE Nothing
  /\ chunkHdr' = NoChunk
  /\ sendBuffLen' = 0

httpdFlushSendBuffer(cgiIsNull) ==
  /\ \E n \in Unsent(cgiIsNull) :
       sent' = [declared |-> IF chunkHdr # NoChunk THEN Declared ELSE 0,
                crlf |-> chunkHdr # NoChunk => CrLfFits,
                last |-> AddsLast(cgiIsNull) /\ n = 0,
                unsent |-> n,
                overrun |-> Overruns(cgiIsNull)]
  /\ chunkHdr' = NoChunk
  /\ sendBuffLen' = 0

\* The handler returns HTTPD_CGI_MORE.
More ==
  /\ phase = "cgi"
  /\ httpdFlushSendBuffer(FALSE)
  /\ phase' = "wait"
  /\ UNCHANGED <<chunked, sendingBody, reserve, accepted>>

\* The handler returns HTTPD_CGI_DONE: httpdCgiIsDone and the flush after it.
Done ==
  /\ phase = "cgi"
  /\ httpdFlushSendBuffer(TRUE)
  /\ phase' = "done"
  /\ UNCHANGED <<chunked, sendingBody, reserve, accepted>>

\* httpdCgiIsDone has cleared the flags: a connection with chunked encoding
\* takes the next request.  Any other is closed.
NextRequest ==
  /\ phase = "done"
  /\ chunked
  /\ chunked' \in BOOLEAN
  /\ reserve' \in Reserves
  /\ sendingBody' = FALSE
  /\ phase' = "wait"
  /\ accepted' = 0
  /\ sent' = Nothing
  /\ UNCHANGED <<sendBuffLen, chunkHdr>>

Next ==
  \/ Call
  \/ \E n \in Lens : Send(n)
  \/ httpdEndHeaders
  \/ More
  \/ Done
  \/ NextRequest

Spec == Init /\ [][Next]_vars

-----------------------------------------------------------------------------
(* Properties. *)

\* Types.  Of the buffer only what httpdSend asserts: it never counts more than
\* fits.  What strcpy writes behind the buffer is not counted.
TypeOK ==
  /\ sendBuffLen \in 0..MaxBuff
  /\ chunkHdr \in Nat \union {NoChunk}
  /\ chunked \in BOOLEAN /\ sendingBody \in BOOLEAN
  /\ phase \in {"wait", "cgi", "done"}
  /\ reserve \in Reserves
  /\ accepted \in Nat
  /\ sent \in Flushes

\* core/httpd.c:400-402, the size of a chunk counts the data and not the CR LF
\* written behind it: what httpdSend took for the body is what the client is
\* told to read, and the CR LF is where it looks for it; all of the buffer
\* (core/httpd.c:375) is sent.
ChunkFraming ==
  chunked /\ phase # "cgi" => sent.declared = accepted /\ sent.crlf /\ sent.unsent = 0

\* The handler leaves what the flush may need, one byte more than it asks for.
EnoughReserve == reserve >= CrLf + LastChunk + Nul

\* Every chunk of a handler that leaves eight bytes is framed well and sent
\* whole, and nothing is written behind the buffer, ...
CarefulFraming == EnoughReserve => ChunkFraming /\ ~sent.overrun

\* ... and its chunked response is ended by a last chunk when it is done, so
\* that the client does not wait for more on a connection that stays open.
CarefulEnds ==
  EnoughReserve /\ phase = "done" /\ chunked /\ sendingBody => sent.last
=============================================================================
