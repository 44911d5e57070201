------------------------------ MODULE Handlers ------------------------------
(***************************************************************************)
(* The handlers that libesphttpd brings with it: one request for a file or *)
(* a template, or the sockets of cgiWebsocket.  All run in the task of the *)
(* web server; files and sockets share nothing but that task.              *)
(***************************************************************************)
EXTENDS Templates, Websocket

CONSTANTS
  Cases,     \* the requests: records of a handler, a request and a disk
  Scripts    \* the frames that clients send: functions from Socks

\* What a file system holds for a handler.
Files(h) ==
  IF h \in {"espfs template", "vfs template"}
  THEN [gzip : BOOLEAN, text : Seq(STRING)] ELSE [gzip : BOOLEAN, size : Nat]

ASSUME CasesAssumption ==
  \A c \in Cases :
    /\ c.handler \in {"espfs", "vfs", "upload", "espfs template", "vfs template"}
    /\ c.request.length \in Nat
    /\ c.disk \in [DOMAIN c.disk -> Files(c.handler)]

\* Frames that a client sends: a length takes as many bytes as its form says, and
\* pings are masked.  Only the last frame may be broken off, or one that ends the
\* socket.
FrameSet == [fin : BOOLEAN, op : DataOps \cup {"ping", "pong", "close", "unknown"},
             masked : BOOLEAN, form : {7, 126, 127}, len : Nat, comes : Nat]

ASSUME ScriptsAssumption ==
  \A s \in Scripts : \A c \in Socks :
    /\ s[c] \in Seq(FrameSet)
    /\ \A k \in DOMAIN s[c] :
         LET frame == s[c][k]
         IN /\ frame.len <= IF frame.form = 7 THEN 125 ELSE 65535
            /\ frame.comes <= frame.len
            /\ frame.comes < frame.len => k = Len(s[c]) \/ Ends(frame)
            /\ frame.op = "ping" => frame.masked

vars == <<tplAll, wsVars>>

\* No request, and nobody who wants a socket.
NoCase == [handler |-> "none", request |-> <<>>, disk |-> <<>>]
NoScript == [c \in Socks |-> <<>>]

Init == \/ TplInit(Cases) /\ WsInit({NoScript})
        \/ TplInit({NoCase}) /\ WsInit(Scripts)

Next == \/ TplNext /\ UNCHANGED wsVars
        \/ WsNext /\ UNCHANGED tplAll

Spec == Init /\ [][Next]_vars

-----------------------------------------------------------------------------
(* Properties *)

\* TYPE INVARIANT
TypeOK == (handler = "none" \/ TplTypeOK) /\ WsTypeOK

\* What a handler holds from one call to the next is given back exactly once,
\* whichever call is its last: the open file and the callback's state, and the
\* place in the list of sockets (httpd-espfs.c:323-329, cgiwebsocket.c:155-168).
GivenBack == HandlesClosed /\ ListIsOpen
=============================================================================
