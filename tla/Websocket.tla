------------------------------ MODULE Websocket ------------------------------
(***************************************************************************)
(* Websockets (util/cgiwebsocket.c): the parser of the frames that clients *)
(* send, the answers to control frames, the list of the open sockets and   *)
(* what an application does to them in its callbacks.                      *)
(*                                                                         *)
(* Only the task of the web server runs here: one call of a handler at a   *)
(* time, and the callbacks inside it.  What a client sends comes in pieces *)
(* that may end after any byte.                                            *)
(*                                                                         *)
(* A byte of a frame's head is what it says; a byte of payload or mask is  *)
(* a set, the exclusive or of two bytes their symmetric difference.  What  *)
(* is sent is a sequence of whole frames, heads of pongs and bytes.        *)
(***************************************************************************)
EXTENDS Integers, Sequences, FiniteSetsExt, SequencesExt

CONSTANTS
  Socks,      \* connections
  Cuts,       \* how many bytes may come at a time
  MaxActs     \* bound of what the application does of its own

NoSock == "no socket"

ASSUME SocketsAssumption ==
  /\ NoSock \notin Socks
  /\ Cuts \subseteq Nat \ {0}
  /\ MaxActs \in Nat

VARIABLES
  script,     \* the frames the clients send: sequences of records
              \* [fin, op, masked, form, len, comes]...
  wire,       \* ...and what is still to come of their bytes
  sock,       \* Websock, WebsockPriv and WebsockFrame
  llStart,    \* the list of sockets
  cur,        \* the connection whose piece is being read, or NoSock
  piece, at,  \* the piece, and the next byte to look at
  buf,        \* sendBuff: sent but not flushed
  said,       \* what was flushed to the client
  notify,     \* needWriteDoneNotif
  heard,      \* history: the bytes that recvCb got
  spoilt,     \* history: something was sent into the middle of a pong, or
              \* thrown away
  acts        \* counts what the application did

outVars == <<buf, said, notify, spoilt>>
wsVars == <<script, wire, sock, llStart, cur, piece, at, outVars, heard, acts>>

\* wsStatus
ST_FLAGS == 0
ST_LEN0 == 1
ST_LEN1 == 2
ST_LEN2 == 3
ST_LEN8 == 9
ST_MASK1 == 10
ST_MASK4 == 13
ST_PAYLOAD == 14

\* What malloc and memset make of Websock and its parts.
NewSock == [st |-> "open", status |-> ST_FLAGS, fin |-> FALSE, op |-> "continue",
            masked |-> FALSE, len7 |-> 0, len |-> 0, mask |-> <<{}, {}, {}, {}>>,
            maskCtr |-> 0, frameCont |-> FALSE, closedHere |-> FALSE]

Xor(a, b) == SymDiff(a, b)

-----------------------------------------------------------------------------
(* What clients send *)

Plain(k, j) == {<<"data", k, j>>}
MaskByte(k, j) == {<<"mask", k, j>>}

\* Frame k of a script: its length in seven bits, or in two or eight bytes more
\* behind 126 or 127.  Of a frame that is broken off only a part comes.
Encoded(frame, k) ==
  <<[fin |-> frame.fin, op |-> frame.op],
    [masked |-> frame.masked, len7 |-> IF frame.form = 7 THEN frame.len ELSE frame.form]>>
  \o (CASE frame.form = 7   -> <<>>
        [] frame.form = 126 -> <<frame.len \div 256, frame.len % 256>>
        [] frame.form = 127 -> <<0, 0, 0, 0, 0, 0, frame.len \div 256, frame.len % 256>>)
  \o (IF frame.masked THEN [j \in 1..4 |-> MaskByte(k, j)] ELSE <<>>)
  \o [j \in 1 .. frame.comes |->
        IF frame.masked THEN Xor(Plain(k, j), MaskByte(k, 1 + ((j - 1) % 4))) ELSE Plain(k, j)]

Bytes(frames) == FlattenSeq([k \in DOMAIN frames |-> Encoded(frames[k], k)])

-----------------------------------------------------------------------------
(* Sending *)

\* The middle of a pong: its head is sent, and bytes of it are to come.
InPong(s) == s.op = "ping" /\ s.status = ST_PAYLOAD /\ s.frameCont

\* httpdSend of a handler: it is flushed when the call ends.
Put(c, items) == buf' = [buf EXCEPT ![c] = @ \o items]

\* httpdFlushSendBuffer of connection c with more items behind what is there.
Flush(c, items) ==
  /\ said' = [said EXCEPT ![c] = @ \o buf[c] \o items]
  /\ buf' = [buf EXCEPT ![c] = <<>>]
  /\ notify' = [notify EXCEPT ![c] = @ \/ buf[c] \o items # <<>>]

Frame(what) == [kind |-> "frame", what |-> what, len |-> 0, byte |-> {}]
Pong(len) == [kind |-> "pong", what |-> "pong", len |-> len, byte |-> {}]
Byte(b) == [kind |-> "byte", what |-> "pong", len |-> 0, byte |-> b]

\* websockFree, behind closeCb: the first link to the socket goes to the next.
Unlinked(c) ==
  LET links == {i \in DOMAIN llStart : llStart[i] = c}
  IN IF links = {} THEN llStart ELSE RemoveAt(llStart, Min(links))

\* cgiWebsockBroadcast: httpdConnSendStart throws away what was not flushed.  It
\* comes behind items of connection c that are flushed first, if there are any.
Broadcast(open, c, items) ==
  LET first == items # <<>>
  IN /\ said' = [d \in Socks |-> said[d] \o (IF d = c /\ first THEN buf[c] \o items ELSE <<>>)
                                         \o (IF d \in open THEN <<Frame("broadcast")>> ELSE <<>>)]
     /\ buf' = [d \in Socks |-> IF d \in open \/ (d = c /\ first) THEN <<>> ELSE buf[d]]
     /\ notify' = [d \in Socks |-> notify[d] \/ d \in open \/ (d = c /\ first)]
     /\ spoilt' = [d \in Socks |-> spoilt[d] \/
                     (d \in open /\ ((buf[d] # <<>> /\ ~(d = c /\ first)) \/ InPong(sock[d])))]

\* Something that the application does of its own.
Act == acts < MaxActs /\ acts' = acts + 1

-----------------------------------------------------------------------------
(* cgiWebsocket *)

\* The first call: it is answered, and connCb is called before the socket is in
\* the list.
Upgrade(c) ==
  /\ cur = NoSock /\ sock[c].st = "none" /\ script[c] # <<>>
  /\ sock' = [sock EXCEPT ![c] = NewSock]
  /\ llStart' = Append(llStart, c)
  /\ \/ Flush(c, <<Frame("101")>>) /\ UNCHANGED <<spoilt, acts>>
     \/ Act /\ Broadcast(ToSet(llStart), c, <<Frame("101")>>)
  /\ UNCHANGED <<script, wire, cur, piece, at, heard>>

\* No request for a websocket, or no memory: the connection goes on without one.
NoUpgrade(c) ==
  /\ cur = NoSock /\ sock[c].st = "none" /\ script[c] # <<>>
  /\ sock' = [sock EXCEPT ![c].st = "refused"]
  /\ UNCHANGED <<script, wire, llStart, cur, piece, at, outVars, heard, acts>>

\* The call after the connection has closed.  In closeCb the socket is still
\* in the list, and takes no broadcast.
Closed(c) ==
  /\ cur = NoSock /\ sock[c].st \in {"open", "ending"}
  /\ sock' = [sock EXCEPT ![c].st = "closed"]
  /\ llStart' = IF sock[c].st = "open" THEN Unlinked(c) ELSE llStart
  /\ wire' = [wire EXCEPT ![c] = <<>>]
  /\ \/ UNCHANGED <<outVars, acts>>
     \/ sock[c].st = "open" /\ Act /\ Broadcast(ToSet(llStart) \ {c}, c, <<>>)
  /\ UNCHANGED <<script, cur, piece, at, heard>>

\* The answer to the call with a write notification: sentCb, in which the
\* application may send to all, or close the socket.
Sent(c) ==
  /\ cur = NoSock /\ sock[c].st = "open" /\ notify[c]
  /\ \/ notify' = [notify EXCEPT ![c] = FALSE] /\ UNCHANGED <<sock, buf, said, spoilt, acts>>
     \/ /\ Act
        /\ \/ Broadcast(ToSet(llStart), c, <<>>) /\ UNCHANGED sock
           \/ /\ Flush(c, <<Frame("close")>>)
              /\ spoilt' = [spoilt EXCEPT ![c] = @ \/ InPong(sock[c])]
              /\ sock' = [sock EXCEPT ![c].closedHere = TRUE]
  /\ UNCHANGED <<script, wire, llStart, cur, piece, at, heard>>

\* The connection of a socket that is done ends when what was written last is sent.
Disconnect(c) ==
  /\ cur = NoSock /\ sock[c].st = "ending" /\ notify[c]
  /\ sock' = [sock EXCEPT ![c].st = "closed"]
  /\ wire' = [wire EXCEPT ![c] = <<>>]
  /\ UNCHANGED <<script, llStart, cur, piece, at, outVars, heard, acts>>

-----------------------------------------------------------------------------
(* cgiWebSocketRecv *)

\* A piece of what the client sends.
Receive(c) ==
  /\ cur = NoSock /\ sock[c].st = "open" /\ wire[c] # <<>>
  /\ \E n \in Cuts :
       LET len == Min({n, Len(wire[c])})
       IN /\ piece' = SubSeq(wire[c], 1, len)
          /\ wire' = [wire EXCEPT ![c] = SubSeq(@, len + 1, Len(@))]
  /\ cur' = c /\ at' = 1
  /\ UNCHANGED <<script, sock, llStart, outVars, heard, acts>>

\* httpdRecvCb goes on calling cgiWebSocketRecv when the socket is done: its
\* cgiData is NULL then.
ReceiveNull(c) ==
  /\ cur = NoSock /\ sock[c].st = "ending" /\ wire[c] # <<>>
  /\ sock' = [sock EXCEPT ![c].st = "crashed"]
  /\ UNCHANGED <<script, wire, llStart, cur, piece, at, outVars, heard, acts>>

\* The state behind the length.
BehindLength(masked) == IF masked THEN ST_MASK1 ELSE ST_PAYLOAD

\* A byte of the head.
HeadByte(s, b) ==
  CASE s.status = ST_FLAGS ->
         [s EXCEPT !.maskCtr = 0, !.frameCont = FALSE, !.fin = b.fin, !.op = b.op,
                   !.status = ST_LEN0]
    [] s.status = ST_LEN0 ->
         [s EXCEPT !.masked = b.masked, !.len7 = b.len7,
                   !.len = IF b.len7 >= 126 THEN 0 ELSE b.len7,
                   !.status = IF b.len7 >= 126 THEN ST_LEN1 ELSE BehindLength(b.masked)]
    [] s.status \in ST_LEN1 .. ST_LEN8 ->
         [s EXCEPT !.len = 256 * @ + b,
                   !.status = IF @ = IF s.len7 = 126 THEN ST_LEN2 ELSE ST_LEN8
                              THEN BehindLength(s.masked) ELSE @ + 1]
    [] s.status \in ST_MASK1 .. ST_MASK4 ->
         [s EXCEPT !.mask[s.status - ST_MASK1 + 1] = b, !.status = @ + 1]
    [] s.status = ST_PAYLOAD -> s

Reading == cur # NoSock /\ at <= Len(piece)
ReadKeeps == UNCHANGED <<script, wire, cur, piece>>

\* What this turn of the loop makes of the byte, where the payload begins in the
\* piece, and how much of it there is.
Now == HeadByte(sock[cur], piece[at])
Start == at + IF sock[cur].status # ST_PAYLOAD THEN 1 ELSE 0
Sl == Min({Len(piece) - Start + 1, Now.len})

\* Mutant: every piece of a payload is unmasked from the first byte of the mask.
Unmasked_Anew(s, bytes) == [j \in DOMAIN bytes |-> Xor(bytes[j], s.mask[1 + ((j - 1) % 4)])]

Unmasked(s, bytes) == [j \in DOMAIN bytes |-> Xor(bytes[j], s.mask[1 + ((s.maskCtr + j - 1) % 4)])]

Payload == Unmasked(Now, SubSeq(piece, Start, Start + Sl - 1))

\* A turn that ends inside the head.
Header ==
  /\ Reading /\ Now.status # ST_PAYLOAD
  /\ sock' = [sock EXCEPT ![cur] = Now]
  /\ at' = at + 1
  /\ ReadKeeps /\ UNCHANGED <<llStart, outVars, heard, acts>>

\* The end of a turn with payload: the next frame, or more of this one.
After(s) == [s EXCEPT !.maskCtr = (@ + Sl) % 4, !.len = @ - Sl,
                      !.status = IF s.len = Sl THEN ST_FLAGS ELSE @,
                      !.frameCont = IF s.len = Sl THEN @ ELSE TRUE]
Consumed(s) == sock' = [sock EXCEPT ![cur] = After(s)] /\ at' = Start + Sl

\* HTTPD_CGI_DONE: the socket is freed, whatever is left of the piece.  In closeCb
\* it is in the list, and its connection is open.
Done(items) ==
  /\ sock' = [sock EXCEPT ![cur] = [NewSock EXCEPT !.st = "ending"]]
  /\ llStart' = Unlinked(cur)
  /\ cur' = NoSock /\ piece' = <<>> /\ at' = 1
  /\ \/ Flush(cur, items) /\ UNCHANGED <<spoilt, acts>>
     \/ Act /\ Broadcast(ToSet(llStart), cur, items)
  /\ UNCHANGED <<script, wire, heard>>

InPayload(ops) == Reading /\ Now.status = ST_PAYLOAD /\ Now.op \in ops

\* A ping: the head of the pong is sent with the first piece of its payload.
Ping ==
  /\ InPayload({"ping"}) /\ Now.len <= 125
  /\ Put(cur, (IF Now.frameCont THEN <<>> ELSE <<Pong(Now.len)>>)
              \o [j \in 1..Sl |-> Byte(Payload[j])])
  /\ Consumed(Now)
  /\ ReadKeeps /\ UNCHANGED <<llStart, said, notify, spoilt, heard, acts>>

LongPing == InPayload({"ping"}) /\ Now.len > 125 /\ Done(<<Frame("close")>>)

DataOps == {"text", "binary", "continue"}

\* recvCb gets what there is of the payload, and may answer, send to all
\* sockets, or close this one.
Data ==
  /\ InPayload(DataOps) /\ Now.masked
  /\ heard' = [heard EXCEPT ![cur] = @ \o Payload]
  /\ \/ Consumed(Now) /\ UNCHANGED <<outVars, acts>>
     \/ /\ Act
        /\ \/ Flush(cur, <<Frame("answer")>>) /\ UNCHANGED spoilt /\ Consumed(Now)
           \/ Broadcast(ToSet(llStart), cur, <<>>) /\ Consumed(Now)
           \/ /\ Flush(cur, <<Frame("close")>>) /\ UNCHANGED spoilt
              /\ Consumed([Now EXCEPT !.closedHere = TRUE])
  /\ ReadKeeps /\ UNCHANGED llStart

\* "We're a server; client should send us masked packets."
Unmasked1002 == InPayload(DataOps) /\ ~Now.masked /\ Done(<<Frame("close")>>)

\* A close frame is answered unless it is the answer to one.
CloseFrame ==
  /\ InPayload({"close"})
  /\ Done(IF Now.closedHere THEN <<>> ELSE <<Frame("close")>>)

\* Pongs and what is not known.
Ignored ==
  /\ InPayload({"pong", "unknown"})
  /\ Consumed(Now)
  /\ ReadKeeps /\ UNCHANGED <<llStart, outVars, heard, acts>>

\* The end of the piece; httpdRecvCb flushes.
PieceEnds ==
  /\ cur # NoSock /\ at > Len(piece)
  /\ Flush(cur, <<>>)
  /\ cur' = NoSock /\ piece' = <<>> /\ at' = 1
  /\ UNCHANGED <<script, wire, sock, llStart, spoilt, heard, acts>>

-----------------------------------------------------------------------------
WsInit(scripts) ==
  /\ script \in scripts
  /\ wire = [c \in Socks |-> Bytes(script[c])]
  /\ sock = [c \in Socks |-> [NewSock EXCEPT !.st = "none"]]
  /\ llStart = <<>> /\ cur = NoSock /\ piece = <<>> /\ at = 1
  /\ buf = [c \in Socks |-> <<>>] /\ said = buf /\ heard = buf
  /\ notify = [c \in Socks |-> FALSE] /\ spoilt = notify
  /\ acts = 0

WsNext ==
  /\ \A c \in Socks : sock[c].st # "crashed"
  /\ \/ \E c \in Socks : Upgrade(c) \/ NoUpgrade(c) \/ Closed(c) \/ Sent(c) \/ Disconnect(c)
                         \/ Receive(c) \/ ReceiveNull(c)
     \/ Header \/ Ping \/ LongPing \/ Data \/ Unmasked1002 \/ CloseFrame \/ Ignored
     \/ PieceEnds

-----------------------------------------------------------------------------
(* Properties *)

WsTypeOK ==
  /\ ToSet(llStart) \subseteq Socks /\ cur \in Socks \cup {NoSock}
  /\ \A c \in Socks : /\ sock[c].status \in ST_FLAGS .. ST_PAYLOAD
                      /\ sock[c].len \in Nat /\ sock[c].maskCtr \in 0..3

\* The list has the sockets that exist, each once: a broadcast reaches every one
\* of them and none that was freed (cgiwebsocket.c:155-168, :353-360).
ListIsOpen ==
  /\ ToSet(llStart) = {c \in Socks : sock[c].st = "open"}
  /\ IsInjective(llStart)

\* The frames up to the one that ends the socket.
Ends(frame) == \/ frame.op = "close" \/ (frame.op = "ping" /\ frame.len > 125)
               \/ (frame.op \in DataOps /\ ~frame.masked)
Counted(frames) ==
  LET ends == {k \in DOMAIN frames : Ends(frames[k])}
  IN IF ends = {} THEN frames ELSE SubSeq(frames, 1, Min(ends) - 1)

\* What an application is to hear of them, and what of pongs the client is to get.
ToHear(frames) ==
  FlattenSeq([k \in DOMAIN Counted(frames) |->
    IF frames[k].op \notin DataOps THEN <<>>
    ELSE [j \in 1 .. frames[k].comes |-> Plain(k, j)]])
ToEcho(frames) ==
  FlattenSeq([k \in DOMAIN Counted(frames) |->
    IF frames[k].op # "ping" THEN <<>>
    ELSE <<Pong(frames[k].len)>> \o [j \in 1 .. frames[k].comes |-> Byte(Plain(k, j))]])

\* What of pongs there is among the items sent.
Pongs(items) ==
  FlattenSeq([i \in DOMAIN items |-> IF items[i].kind = "frame" THEN <<>> ELSE <<items[i]>>])

Whole(items) ==
  \A p \in DOMAIN items : items[p].kind = "pong" =>
    \A q \in p + 1 .. Min({p + items[p].len, Len(items)}) : items[q].kind = "byte"

\* However the bytes of the frames are cut into pieces, the application hears
\* the payload of the data frames, unmasked, once and in order; and every ping gets
\* its pong, in whole, unless the application sent to the socket meanwhile
\* (cgiwebsocket.c:170-275).
FramesArrive ==
  \A c \in Socks :
    LET out == said[c] \o buf[c]
        allRead == sock[c].st = "open" /\ cur # c /\ wire[c] = <<>>
    IN /\ IsPrefix(heard[c], ToHear(script[c]))
       /\ allRead => heard[c] = ToHear(script[c])
       /\ ~spoilt[c] =>
            /\ IsPrefix(Pongs(out), ToEcho(script[c])) /\ Whole(out)
            /\ allRead => Pongs(out) = ToEcho(script[c])
=============================================================================
