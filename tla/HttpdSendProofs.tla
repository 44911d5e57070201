--------------------------- MODULE HttpdSendProofs ---------------------------
(***************************************************************************)
(* Proofs about HttpdSend for every size of the buffer that four hex       *)
(* digits can express: what httpdSend counts stays in the buffer, and      *)
(* handlers that leave eight bytes of it free (CR LF, last chunk and its   *)
(* NUL) never break the framing or the end of a chunked response, and let  *)
(* nothing be written behind the buffer.                                   *)
(***************************************************************************)
EXTENDS HttpdSend, TLAPS

\* The open chunk lies in the buffer and holds at least its size field.
ChunkInv ==
  chunkHdr # NoChunk =>
    /\ chunked /\ sendingBody /\ phase = "cgi"
    /\ chunkHdr + CHUNK_SIZE_TEXT_LEN <= sendBuffLen

\* While a handler runs, the bytes taken for the body are those in the chunk.
AcceptedInv ==
  phase = "cgi" /\ chunked =>
    /\ chunkHdr = NoChunk => accepted = 0
    /\ chunkHdr # NoChunk => accepted = sendBuffLen - chunkHdr - CHUNK_SIZE_TEXT_LEN

\* What the flush may add still fits once a body has begun.
ReserveInv ==
  EnoughReserve /\ sendingBody => sendBuffLen + CrLf + LastChunk + Nul <= MaxBuff

IInv == TypeOK /\ ChunkInv /\ AcceptedInv

RInv == ReserveInv /\ CarefulFraming /\ CarefulEnds

-----------------------------------------------------------------------------
\* Four hex digits express every size that a chunk in the buffer can have.
LEMMA DeclaredIsSize ==
  ASSUME TypeOK, ChunkInv, chunkHdr # NoChunk, CrLfFits
  PROVE  Declared = sendBuffLen - chunkHdr - CHUNK_SIZE_TEXT_LEN
<1>1. Closed = sendBuffLen + CrLf /\ sendBuffLen \in Nat /\ chunkHdr \in Nat
  BY DEF Closed, TypeOK, NoChunk
<1>2. chunkHdr + CHUNK_SIZE_TEXT_LEN <= sendBuffLen
  BY DEF ChunkInv
<1> QED
  BY <1>1, <1>2 DEF Declared, HexDigits, CHUNK_SIZE_TEXT_LEN, CrLf

\* The size field is never negative, even where it is wrong.
LEMMA DeclaredRange ==
  ASSUME TypeOK, ChunkInv, chunkHdr # NoChunk
  PROVE  Declared \in Nat
<1>1. /\ sendBuffLen \in 0..MaxBuff /\ chunkHdr \in Nat
      /\ chunkHdr + CHUNK_SIZE_TEXT_LEN <= sendBuffLen
      /\ MaxBuff \in Nat /\ MaxBuff <= 65535
  BY SendAssumption DEF TypeOK, ChunkInv, NoChunk
<1>2. Closed = sendBuffLen \/ Closed = sendBuffLen + CrLf
  BY <1>1 DEF Closed
<1> QED
  BY <1>1, <1>2 DEF Declared, HexDigits, CHUNK_SIZE_TEXT_LEN, CrLf

-----------------------------------------------------------------------------
\* The mark of a missing chunk is no position in the buffer.
LEMMA NotNat == NoChunk \notin Nat
  BY DEF NoChunk

\* What a flush sends, as records.
LEMMA FlushRecords ==
  \A d, m \in Nat : \A c, l, o \in BOOLEAN :
    /\ [declared |-> d, crlf |-> c, last |-> l, unsent |-> m, overrun |-> o] \in Flushes
    /\ Nothing \in Flushes
  BY DEF Flushes, Nothing

\* One call of httpdSend while a handler runs.
LEMMA SendInv ==
  ASSUME IInv, phase = "cgi", NEW n \in Nat, httpdSend(n),
         UNCHANGED <<chunked, phase, reserve, sent>>,
         UNCHANGED sendingBody \/ (~sendingBody /\ sendingBody')
  PROVE  IInv'
<1>1. CASE Dropped(n)
  <2>1. UNCHANGED <<sendBuffLen, chunkHdr, accepted, chunked, phase, reserve, sent>>
    BY <1>1 DEF httpdSend
  <2>2. sendingBody => sendingBody'
    OBVIOUS
  <2>3. sendingBody' \in BOOLEAN
    BY DEF IInv, TypeOK
  <2>4. TypeOK'
    BY <2>1, <2>3 DEF IInv, TypeOK
  <2>5. ChunkInv'
    BY <2>1, <2>2 DEF IInv, ChunkInv
  <2>6. AcceptedInv'
    BY <2>1 DEF IInv, AcceptedInv
  <2> QED
    BY <2>4, <2>5, <2>6 DEF IInv
<1>2. CASE ~Dropped(n)
  <2>1. Needed(n) = n + IF OpensChunk THEN CHUNK_SIZE_TEXT_LEN ELSE 0
    BY Zenon DEF Needed
  <2>2. sendBuffLen \in Nat /\ MaxBuff \in Nat
    BY SendAssumption DEF IInv, TypeOK
  <2>3. n > 0 /\ sendBuffLen + Needed(n) <= MaxBuff /\ sendBuffLen \in Nat
    <3>1. n # 0 /\ ~(sendBuffLen + Needed(n) > MaxBuff)
      BY <1>2, Zenon DEF Dropped
    <3>2. Needed(n) \in Nat
      BY <2>1 DEF CHUNK_SIZE_TEXT_LEN
    <3> QED
      BY <2>2, <3>1, <3>2
  <2>4. /\ sendBuffLen' = sendBuffLen + Needed(n)
        /\ chunkHdr' = IF OpensChunk THEN sendBuffLen ELSE chunkHdr
        /\ accepted' = IF sendingBody THEN accepted + n ELSE accepted
    BY <1>2, Zenon DEF httpdSend
  <2>5. TypeOK'
    <3>1. sendBuffLen' \in 0..MaxBuff
      BY <2>2, <2>3, <2>4, <2>1 DEF CHUNK_SIZE_TEXT_LEN
    <3>2. chunkHdr' \in Nat \union {NoChunk} /\ accepted' \in Nat
      BY <2>2, <2>4 DEF IInv, TypeOK
    <3>3. /\ chunked' \in BOOLEAN /\ sendingBody' \in BOOLEAN
          /\ phase' \in {"wait", "cgi", "done"} /\ sent' \in Flushes
          /\ reserve' \in Reserves
      BY Zenon DEF IInv, TypeOK
    <3> QED
      BY <3>1, <3>2, <3>3 DEF TypeOK
  <2>6. ChunkInv'
    BY <2>3, <2>4, <2>1, NotNat DEF OpensChunk, IInv, TypeOK, ChunkInv, CHUNK_SIZE_TEXT_LEN
  <2>7. AcceptedInv'
    <3>1. CASE OpensChunk
      <4>1. chunked /\ sendingBody /\ chunkHdr = NoChunk
        BY <3>1 DEF OpensChunk
      <4>2. phase = "cgi" /\ chunked => accepted = 0
        BY <4>1 DEF IInv, AcceptedInv
      <4>3. accepted' = n
        BY <4>1, <4>2, <2>4, <2>3
      <4>4. chunkHdr' = sendBuffLen /\ chunkHdr' # NoChunk
        BY <3>1, <2>3, <2>4, NotNat
      <4> QED
        BY <2>3, <2>4, <2>1, <3>1, <4>3, <4>4 DEF AcceptedInv, CHUNK_SIZE_TEXT_LEN
    <3>2. CASE ~OpensChunk /\ sendingBody
      BY <2>3, <2>4, <2>1, <3>2, NotNat
      DEF OpensChunk, IInv, TypeOK, ChunkInv, AcceptedInv, CHUNK_SIZE_TEXT_LEN
    <3>3. CASE ~OpensChunk /\ ~sendingBody
      BY <2>3, <2>4, <2>1, <3>3, NotNat
      DEF OpensChunk, IInv, TypeOK, ChunkInv, AcceptedInv
    <3> QED
      BY <3>1, <3>2, <3>3
  <2> QED
    BY <2>5, <2>6, <2>7 DEF IInv
<1> QED
  BY <1>1, <1>2

LEMMA FlushInv ==
  ASSUME IInv, NEW null \in BOOLEAN, httpdFlushSendBuffer(null)
  PROVE  /\ sendBuffLen' = 0 /\ chunkHdr' = NoChunk
         /\ sent' \in Flushes
<1> DEFINE declared == IF chunkHdr # NoChunk THEN Declared ELSE 0
           crlf == chunkHdr # NoChunk => CrLfFits
<1>1. PICK n \in Unsent(null) :
        sent' = [declared |-> declared, crlf |-> crlf, last |-> AddsLast(null) /\ n = 0,
                 unsent |-> n, overrun |-> Overruns(null)]
  BY Zenon DEF httpdFlushSendBuffer
<1>2. declared \in Nat
  BY DeclaredRange DEF IInv
<1>3. n \in Nat
  <2>1. Closed \in Nat
    BY DEF Closed, CrLf, IInv, TypeOK
  <2>2. n = 0 \/ n = Closed % 256
    BY <1>1 DEF Unsent
  <2> QED
    BY <2>1, <2>2
<1>4. crlf \in BOOLEAN /\ (AddsLast(null) /\ n = 0) \in BOOLEAN /\ Overruns(null) \in BOOLEAN
  BY DEF CrLfFits, AddsLast, Overruns
<1> HIDE DEF declared, crlf
<1>5. sent' \in Flushes
  BY <1>1, <1>2, <1>3, <1>4, FlushRecords
<1> QED
  BY <1>5, Zenon DEF httpdFlushSendBuffer

LEMMA NextInv == IInv /\ [Next]_vars => IInv'
<1> SUFFICES ASSUME IInv, [Next]_vars PROVE IInv'
  OBVIOUS
<1>1. CASE Call
  BY <1>1, SendAssumption DEF Call, IInv, TypeOK, ChunkInv, AcceptedInv
<1>2. ASSUME NEW n \in Lens, Send(n) PROVE IInv'
  <2>1. n \in Nat
    BY SendAssumption
  <2> QED
    BY <1>2, <2>1, SendInv DEF Send
<1>3. CASE httpdEndHeaders
  <2>1. CrLf \in Nat
    BY DEF CrLf
  <2> QED
    BY <1>3, <2>1, SendInv DEF httpdEndHeaders
<1>4. CASE More \/ Done
  <2>1. /\ sendBuffLen' = 0 /\ chunkHdr' = NoChunk
        /\ sent' \in Flushes
    BY <1>4, FlushInv DEF More, Done
  <2>2. UNCHANGED <<chunked, sendingBody, reserve, accepted>> /\ phase' \in {"wait", "done"}
    <3>1. CASE More
      BY <3>1, Zenon DEF More
    <3>2. CASE Done
      BY <3>2, Zenon DEF Done
    <3> QED
      BY <1>4, <3>1, <3>2
  <2>3. 0 \in 0..MaxBuff
    BY SendAssumption
  <2>4. TypeOK'
    BY <2>1, <2>2, <2>3 DEF IInv, TypeOK
  <2> QED
    BY <2>1, <2>2, <2>4 DEF IInv, ChunkInv, AcceptedInv
<1>5. CASE NextRequest
  BY <1>5, FlushRecords DEF NextRequest, IInv, TypeOK, ChunkInv, AcceptedInv
<1>6. CASE UNCHANGED vars
  BY <1>6 DEF vars, IInv, TypeOK, ChunkInv, AcceptedInv
<1> QED
  BY <1>1, <1>2, <1>3, <1>4, <1>5, <1>6 DEF Next

\* Every reachable state satisfies the inductive invariant, whatever handlers do.
THEOREM Inductive == Spec => []IInv
<1>1. Init => IInv
  <2> SUFFICES ASSUME Init PROVE IInv
    OBVIOUS
  <2>1. sendBuffLen = 0 /\ chunkHdr = NoChunk /\ accepted = 0 /\ sent = Nothing
    BY DEF Init
  <2>2. /\ chunked \in BOOLEAN /\ sendingBody \in BOOLEAN
        /\ phase = "wait" /\ reserve \in Reserves
    BY DEF Init
  <2>3. Nothing \in Flushes
    BY FlushRecords
  <2>4. TypeOK
    BY <2>1, <2>2, <2>3, SendAssumption DEF TypeOK
  <2> QED
    BY <2>1, <2>2, <2>4 DEF IInv, ChunkInv, AcceptedInv
<1> QED
  BY <1>1, NextInv, PTL DEF Spec

\* The assertions of httpdSend hold for handlers that send without looking too:
\* what it counts stays in the buffer, and an open chunk's size is a number.
THEOREM TypeCorrect == Spec => []TypeOK
<1>1. IInv => TypeOK
  BY DEF IInv
<1> QED
  BY <1>1, Inductive, PTL

-----------------------------------------------------------------------------
\* The flush of a handler that has left the reserve: the last chunk fits with
\* its NUL, so that nothing is written behind the buffer and all of it is sent.
LEMMA FlushFraming ==
  ASSUME IInv, ReserveInv, EnoughReserve, chunked, phase = "cgi",
         NEW null \in BOOLEAN, httpdFlushSendBuffer(null)
  PROVE  /\ sent'.declared = accepted /\ sent'.crlf /\ sent'.unsent = 0 /\ ~sent'.overrun
         /\ sendingBody /\ null => sent'.last
<1>1. sendingBody => CrLfFits /\ ~(Closed + LastChunk + Nul > MaxBuff)
                     /\ Closed + LastChunk <= MaxBuff
  BY SendAssumption DEF ReserveInv, IInv, TypeOK, CrLfFits, Closed, CrLf, LastChunk, Nul
<1>2. ~Overruns(null) /\ (sendingBody /\ null => AddsLast(null))
  BY <1>1, Zenon DEF Overruns, AddsLast
<1>3. Unsent(null) = {0}
  BY <1>2 DEF Unsent
<1>4. sent' = [declared |-> IF chunkHdr # NoChunk THEN Declared ELSE 0,
               crlf |-> chunkHdr # NoChunk => CrLfFits,
               last |-> AddsLast(null) /\ 0 = 0, unsent |-> 0,
               overrun |-> Overruns(null)]
  <2>1. PICK n \in {0} :
          sent' = [declared |-> IF chunkHdr # NoChunk THEN Declared ELSE 0,
                   crlf |-> chunkHdr # NoChunk => CrLfFits,
                   last |-> AddsLast(null) /\ n = 0, unsent |-> n,
                   overrun |-> Overruns(null)]
    BY <1>3, Zenon DEF httpdFlushSendBuffer
  <2> QED
    BY <2>1
<1>5. (IF chunkHdr # NoChunk THEN Declared ELSE 0) = accepted
  <2>1. CASE chunkHdr = NoChunk
    BY <2>1 DEF IInv, AcceptedInv
  <2>2. CASE chunkHdr # NoChunk
    <3>1. CrLfFits
      BY <1>1, <2>2 DEF IInv, ChunkInv
    <3> QED
      BY <2>2, <3>1, DeclaredIsSize DEF IInv, AcceptedInv
  <2> QED
    BY <2>1, <2>2
<1>6. chunkHdr # NoChunk => CrLfFits
  BY <1>1 DEF IInv, ChunkInv
<1> QED
  BY <1>2, <1>4, <1>5, <1>6

\* Without chunked encoding there is no last chunk to write.
LEMMA FlushOfPlain ==
  ASSUME ~chunked, NEW null \in BOOLEAN, httpdFlushSendBuffer(null)
  PROVE  ~sent'.overrun
<1>1. ~Overruns(null)
  BY DEF Overruns, AddsLast
<1> QED
  BY <1>1 DEF httpdFlushSendBuffer

\* One call of httpdSend by a handler that leaves the reserve.
LEMMA SendReserveInv ==
  ASSUME IInv, ReserveInv, EnoughReserve, NEW n \in Nat, LeavesReserve(n), httpdSend(n)
  PROVE  sendBuffLen' + CrLf + LastChunk + Nul <= MaxBuff
<1>1. Needed(n) \in Nat /\ sendBuffLen \in Nat /\ reserve \in Nat
  BY SendAssumption DEF Needed, CHUNK_SIZE_TEXT_LEN, IInv, TypeOK
<1>2. sendBuffLen + Needed(n) + CrLf + LastChunk + Nul <= MaxBuff
  BY <1>1, SendAssumption DEF LeavesReserve, EnoughReserve, CrLf, LastChunk, Nul
<1>3. sendBuffLen' = sendBuffLen \/ sendBuffLen' = sendBuffLen + Needed(n)
  BY DEF httpdSend
<1> QED
  BY <1>1, <1>2, <1>3, SendAssumption DEF CrLf, LastChunk, Nul

LEMMA NextReserve == IInv /\ RInv /\ [Next]_vars => RInv'
<1> SUFFICES ASSUME IInv, RInv, [Next]_vars, EnoughReserve' PROVE RInv'
  BY DEF RInv, ReserveInv, CarefulFraming, CarefulEnds
<1> USE DEF CarefulFraming, CarefulEnds
<1>1. CASE Call
  <2>1. sendBuffLen \in Nat /\ EnoughReserve
    BY <1>1 DEF IInv, TypeOK, Call, EnoughReserve
  <2> QED
    BY <1>1, <2>1, SendAssumption
    DEF RInv, Call, ReserveInv, ChunkFraming, EnoughReserve, CrLf, LastChunk, Nul
<1>2. ASSUME NEW n \in Lens, Send(n) PROVE RInv'
  <2>1. EnoughReserve
    BY <1>2 DEF Send, EnoughReserve
  <2> QED
    BY <1>2, <2>1, SendReserveInv, SendAssumption DEF RInv, Send, ReserveInv, ChunkFraming
<1>3. CASE httpdEndHeaders
  <2>1. EnoughReserve /\ CrLf \in Nat
    BY <1>3 DEF httpdEndHeaders, EnoughReserve, CrLf
  <2>2. sendBuffLen' + CrLf + LastChunk + Nul <= MaxBuff
    BY <1>3, <2>1, SendReserveInv DEF RInv, httpdEndHeaders
  <2> QED
    BY <1>3, <2>1, <2>2 DEF RInv, httpdEndHeaders, ReserveInv, ChunkFraming
<1>4. CASE More \/ Done
  <2>1. phase = "cgi" /\ UNCHANGED <<chunked, sendingBody, reserve, accepted>>
    <3>1. CASE More
      BY <3>1, Zenon DEF More
    <3>2. CASE Done
      BY <3>2, Zenon DEF Done
    <3> QED
      BY <1>4, <3>1, <3>2
  <2>2. sendBuffLen' = 0 /\ EnoughReserve
    BY <1>4, <2>1 DEF More, Done, httpdFlushSendBuffer, EnoughReserve
  <2>3. ReserveInv'
    BY <2>1, <2>2, SendAssumption DEF RInv, ReserveInv, IInv, TypeOK, CrLf, LastChunk, Nul
  <2>4. chunked => /\ sent'.declared = accepted /\ sent'.crlf /\ sent'.unsent = 0
                   /\ ~sent'.overrun
                   /\ sendingBody /\ Done => sent'.last
    BY <1>4, <2>1, <2>2, FlushFraming DEF RInv, More, Done
  <2>5. phase' = "done" => Done
    <3>1. More => phase' = "wait"
      BY Zenon DEF More
    <3> QED
      BY <1>4, <3>1
  <2>6. ~chunked => ~sent'.overrun
    BY <1>4, FlushOfPlain DEF More, Done
  <2> QED
    BY <2>1, <2>3, <2>4, <2>5, <2>6 DEF RInv, ChunkFraming
<1>5. CASE NextRequest
  <2>1. ~sendingBody'
    BY <1>5 DEF NextRequest
  <2> QED
    BY <1>5, <2>1 DEF RInv, NextRequest, ReserveInv, ChunkFraming, Nothing
<1>6. CASE UNCHANGED vars
  BY <1>6 DEF RInv, vars, ReserveInv, ChunkFraming, EnoughReserve
<1> QED
  BY <1>1, <1>2, <1>3, <1>4, <1>5, <1>6 DEF Next

LEMMA ReserveInductive == Spec => []RInv
<1>1. Init => RInv
  BY DEF Init, RInv, CarefulFraming, CarefulEnds, ReserveInv, ChunkFraming, Nothing
<1> QED
  BY <1>1, NextReserve, Inductive, PTL DEF Spec

\* Eight free bytes are enough for the framing: every chunk of a handler that
\* leaves them announces what was accepted for it, is followed by its CR LF and
\* sent whole, and its flush writes nothing behind the buffer.
THEOREM FramingWithReserve == Spec => []CarefulFraming
<1>1. RInv => CarefulFraming
  BY DEF RInv
<1> QED
  BY <1>1, ReserveInductive, PTL

\* ... and for the last chunk, without which the client waits for ever.
THEOREM EndsWithReserve == Spec => []CarefulEnds
<1>1. RInv => CarefulEnds
  BY DEF RInv
<1> QED
  BY <1>1, ReserveInductive, PTL
=============================================================================
