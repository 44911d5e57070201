------------------------------ MODULE MCHandlers -----------------------------
(***************************************************************************)
(* An instance of Handlers: every text of up to five signs as a template,  *)
(* read two signs at a time into tokens of up to two, and answered with as *)
(* much as a call has room for, as the buffer has, or more; files of five  *)
(* bytes, in folders with and without an index, packed or not, served by   *)
(* every kind of route; uploads of up to five bytes; two sockets, of which *)
(* one gets up to three frames and the other does something of its own.    *)
(***************************************************************************)
EXTENDS Handlers

MCParts(name) == IF Len(name) = 1 THEN 2 ELSE 1

Texts == UNION {[1..n -> {"%", "a", "h:", "!"}] : n \in 0..5}

File(size, gzip) == [size |-> size, gzip |-> gzip]
TextFile(text) == [gzip |-> FALSE, text |-> text]

Url == [by |-> "url", base |-> <<>>, prefix |-> <<>>]
Asks(route, url) == [route |-> route, url |-> url, method |-> "GET",
                     hasAccept |-> TRUE, acceptsGzip |-> TRUE, length |-> 0]

GetDisks ==
  { (<<"index.htm">> :> File(n, FALSE)) @@ (<<"index.tpl">> :> File(1, FALSE))
    @@ (<<"d", "index.html">> :> File(3, g)) @@ (<<"d", "a.js", ".gz">> :> File(2, TRUE)) :
      n \in 0..5, g \in BOOLEAN }

Routes ==
  { Url, [by |-> "arg", base |-> <<"d">>, prefix |-> <<>>],
    [by |-> "arg", base |-> <<"index.tpl">>, prefix |-> <<>>],
    [by |-> "ex", base |-> <<"d">>, prefix |-> <<"static">>],
    [by |-> "ex", base |-> <<>>, prefix |-> <<"static">>],
    [by |-> "bare", base |-> <<>>, prefix |-> <<"static">>],
    [by |-> "ex", base |-> <<"index.tpl">>, prefix |-> <<"static">>] }

Urls == { <<>>, <<"d">>, <<"static">>, <<"static", "d">>, <<"a.js">>, <<"d", "a.js">>, <<"index.html">> }

GetRequests ==
  { [Asks(r, u) EXCEPT !.method = m, !.hasAccept = h, !.acceptsGzip = a] :
      r \in Routes, u \in Urls, m \in {"GET", "POST"}, h \in BOOLEAN, a \in BOOLEAN }

PutRequests ==
  { [route |-> r, url |-> <<"up.txt">>, filename |-> f, method |-> m, multipart |-> p,
     tooLong |-> t, length |-> n] :
      r \in {[by |-> "file", base |-> <<"index.tpl">>], [by |-> "folder", base |-> <<"d">>],
             [by |-> "folder", base |-> <<>>]},
      f \in {<<>>, <<"named.txt">>}, m \in {"PUT", "GET"}, p \in BOOLEAN, t \in BOOLEAN,
      n \in {0, 1, 5} }

Case(h, r, d) == [handler |-> h, request |-> r, disk |-> d]

MCCases ==
  { Case(h, r, d) : h \in {"espfs", "vfs"}, d \in GetDisks,
                    r \in {q \in GetRequests : q.acceptsGzip => q.hasAccept} }
  \cup { Case("upload", r, d) : d \in GetDisks, r \in PutRequests }
  \cup { Case(h, Asks(Url, <<"t.tpl">>), <<"t.tpl">> :> TextFile(text)) :
           h \in {"espfs template", "vfs template"}, text \in Texts }
  \cup { Case(h, Asks(Url, url), <<"index.tpl">> :> [gzip |-> gzip, text |-> <<"a">>]) :
           h \in {"espfs template", "vfs template"}, url \in {<<>>, <<"x">>}, gzip \in BOOLEAN }

\* Frames of every kind and with every form of length; a close frame, one that is not
\* masked and a long ping end the socket.  Clients mask their pings.
FrameOf(op, fin, masked, form, len, comes) ==
  [op |-> op, fin |-> fin, masked |-> masked, form |-> form, len |-> len, comes |-> comes]
Text3 == FrameOf("text", TRUE, TRUE, 7, 3, 3)
Empty == FrameOf("text", TRUE, TRUE, 7, 0, 0)
Binary5 == FrameOf("binary", FALSE, TRUE, 126, 5, 5)
Continue1 == FrameOf("continue", TRUE, TRUE, 127, 1, 1)
Ping2 == FrameOf("ping", TRUE, TRUE, 7, 2, 2)
Pong0 == FrameOf("pong", TRUE, FALSE, 7, 0, 0)
Close2 == FrameOf("close", TRUE, TRUE, 7, 2, 2)
Bare == FrameOf("text", TRUE, FALSE, 7, 1, 1)
LongPing300 == FrameOf("ping", TRUE, TRUE, 126, 300, 1)

MCScripts ==
  { [c \in Socks |-> IF c = "a" THEN frames ELSE <<Pong0>>] :
      frames \in { <<Binary5, Ping2, Continue1>>, <<Text3, Ping2, Empty>>, <<Ping2, Text3, Close2>>,
                   <<Empty, Bare>>, <<Pong0, Ping2, LongPing300>>, <<Continue1, Close2>> } }
=============================================================================
