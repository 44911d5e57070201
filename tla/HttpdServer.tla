----------------------------- MODULE HttpdServer -----------------------------
(***************************************************************************)
(* The task of the web server (core/httpd-freertos.c): how it starts,      *)
(* takes connections into its slots, goes round them with select, and is   *)
(* shut down by a datagram from another task.                              *)
(*                                                                         *)
(* What one connection does with its data is HttpdConn; here the parser    *)
(* and the handlers only choose one of the outcomes that concern the slot. *)
(* A client connects again and again; its current connection bears its     *)
(* name.                                                                   *)
(***************************************************************************)
EXTENDS Naturals, Sequences

CONSTANTS
  maxConnections,
  Clients,
  NoFd,            \* -1
  ShutdownSupport  \* CONFIG_ESPHTTPD_SHUTDOWN_SUPPORT

ASSUME ServerAssumption ==
  /\ maxConnections \in Nat \ {0}
  /\ NoFd \notin Clients
  /\ ShutdownSupport \in BOOLEAN

Slots == 1..maxConnections
Listening == {"select", "accept", "turn", "exit"}

\* RtosConnType with the part of its connData that outlives a call.  The handler
\* in connData.cgi may be one that was set for a connection before.
Rconn == [fd : Clients \union {NoFd}, needWriteDoneNotif : BOOLEAN, needsClose : BOOLEAN,
          cgi : {"none", "set", "old"}, disconAfterSent : BOOLEAN]

VARIABLES
  backlog,   \* connections that wait for accept, in their order
  gone,      \* clients that have hung up on the connection they have
  rconn,     \* pInstance->rconn
  pc, idx,             \* where the task is, and the slot it looks at
  readset, writeset,   \* what select has found
  datagram,   \* one has arrived at udpListenFd
  shutdown,   \* ctx->shutdown
  isShutdown,
  caller      \* the task in httpdPlatShutdown

sets == <<readset, writeset>>
stop == <<datagram, shutdown, isShutdown, caller>>
vars == <<backlog, gone, rconn, pc, idx, sets, stop>>

InSlot(c) == \E s \in Slots : rconn[s].fd = c
Queued(c) == \E i \in 1..Len(backlog) : backlog[i] = c

Init ==
  /\ backlog = <<>> /\ gone = {}
  /\ rconn = [s \in Slots |-> [fd |-> NoFd, needWriteDoneNotif |-> FALSE,
                needsClose |-> FALSE, cgi |-> "none", disconAfterSent |-> FALSE]]
  /\ pc = "init" /\ idx = 1
  /\ readset = {} /\ writeset = {}
  /\ datagram = FALSE /\ shutdown = FALSE /\ isShutdown = FALSE
  /\ caller = "away"

-----------------------------------------------------------------------------
(* Clients. *)

\* A connection waits in the queue of the listening socket, which is as long
\* as there are slots.
Connect(c) ==
  /\ pc \in Listening
  /\ ~Queued(c) /\ ~InSlot(c)
  /\ Len(backlog) < maxConnections
  /\ backlog' = Append(backlog, c)
  /\ UNCHANGED <<gone, rconn, pc, idx, sets, stop>>

\* A client that gives up in the queue still gets a slot, and leaves it then.
HangUp(c) ==
  /\ InSlot(c)
  /\ c \notin gone
  /\ gone' = gone \union {c}
  /\ UNCHANGED <<backlog, rconn, pc, idx, sets, stop>>

-----------------------------------------------------------------------------
(* The task. *)

\* Socket, bind and listen are tried until they succeed.
platHttpServerTaskInit ==
  /\ pc = "init"
  /\ pc' = "select"
  /\ UNCHANGED <<backlog, gone, rconn, idx, sets, stop>>

\* The port for the datagrams is taken: the task ends.
UdpBindFails ==
  /\ ShutdownSupport
  /\ pc = "init"
  /\ pc' = "dead"
  /\ UNCHANGED <<backlog, gone, rconn, idx, sets, stop>>

\* The condition of the loop in platHttpServerTask.
Again(shut) == IF shut THEN "exit" ELSE "select"

socketsFull == \A s \in Slots : rconn[s].fd # NoFd

\* Something is there that does not go away by itself.
Stirred ==
  \/ \E s \in Slots : rconn[s].fd # NoFd /\ (rconn[s].needWriteDoneNotif \/ rconn[s].fd \in gone)
  \/ ~socketsFull /\ backlog # <<>>
  \/ datagram

\* select waits without a limit until something it was asked for is there.  Every
\* client may have sent data; that one has sent none is an outcome of recv here.
Select ==
  /\ pc = "select"
  /\ readset' = {c \in Clients : InSlot(c)}
  /\ Stirred \/ readset' # {}
  /\ writeset' = {c \in Clients : \E s \in Slots : rconn[s].fd = c /\ rconn[s].needWriteDoneNotif}
  /\ shutdown' = (shutdown \/ datagram)
  /\ pc' = IF ~socketsFull /\ backlog # <<>> THEN "accept" ELSE "turn"
  /\ idx' = 1
  /\ UNCHANGED <<backlog, gone, rconn, datagram, isShutdown, caller>>

\* The rest of the round is left out.
AcceptFails ==
  /\ pc = "accept"
  /\ pc' = Again(shutdown)
  /\ readset' = {} /\ writeset' = {}
  /\ UNCHANGED <<backlog, gone, rconn, idx, stop>>

\* Mutant: connData is not cleared.
httpdConnectCb_Keeps(r) == r

httpdConnectCb(r) == [r EXCEPT !.cgi = "none", !.disconAfterSent = FALSE]

\* The first free slot.  There is one, or the listening socket would not have
\* been asked for.
Accept ==
  /\ pc = "accept"
  /\ \E s \in Slots :
       /\ rconn[s].fd = NoFd /\ \A t \in Slots : t < s => rconn[t].fd # NoFd
       /\ rconn' = [rconn EXCEPT ![s] = httpdConnectCb([@ EXCEPT !.fd = Head(backlog),
                                    !.needWriteDoneNotif = FALSE, !.needsClose = FALSE])]
  /\ backlog' = Tail(backlog)
  /\ pc' = "turn"
  /\ UNCHANGED <<gone, idx, sets, stop>>

\* Mutant: the descriptor is cleared to 0, which is not free.
closeConnection_Zero(r) ==
  [r EXCEPT !.fd = 0, !.needWriteDoneNotif = FALSE, !.cgi = IF @ = "set" THEN "old" ELSE @]

\* The handler is told (httpdDisconCb), and stays in connData.  What
\* needWriteDoneNotif holds in a free slot nobody sees; here it is FALSE.
closeConnection(r) ==
  [r EXCEPT !.fd = NoFd, !.needWriteDoneNotif = FALSE, !.cgi = IF @ = "set" THEN "old" ELSE @]

\* A call that reaches a handler: it wants another call or not, it has written
\* or not, and the connection may end with what was written.
Ran(r, more, written, last) ==
  [r EXCEPT !.cgi = IF more THEN "set" ELSE "none",
            !.needWriteDoneNotif = @ \/ written,
            !.disconAfterSent = @ \/ (last /\ ~more)]

Runs(r) == {Ran(r, more, written, last) : more, written, last \in BOOLEAN}

\* httpdSentCb, which never fails: hang up when all is sent (httpdPlatDisconnect),
\* or the next call of the handler.
httpdSentCb(r) ==
  IF r.disconAfterSent THEN {[r EXCEPT !.needsClose = TRUE, !.needWriteDoneNotif = TRUE]}
  ELSE IF r.cgi = "none" THEN {r}
  ELSE Runs(r)

\* httpdRecvCb: no data or a part of a request, a request of which the handler wants more
\* calls or none, or something nobody expects.
httpdRecvCb(r) == {r, closeConnection(r)} \union Runs(r)

\* The first half of a turn: what was written has been sent.
WriteSide(r) ==
  IF r.needWriteDoneNotif /\ r.fd \in writeset
    THEN LET told == [r EXCEPT !.needWriteDoneNotif = FALSE]
         IN  IF r.needsClose THEN {closeConnection(told)} ELSE httpdSentCb(told)
    ELSE {r}

\* Mutant: that recv answers 0 is no error.
ReadSide_Zero(r) ==
  IF r.fd \in readset
    THEN IF r.fd \in gone THEN {r} ELSE httpdRecvCb(r)
    ELSE {r}

\* The second half: recv gets data, or the end of the connection.  Behind a
\* connection that the first half has closed the loop asks for descriptor -1;
\* whatever it finds, closing again changes nothing here.
ReadSide(r) ==
  IF r.fd \in readset
    THEN IF r.fd \in gone THEN {closeConnection(r)} ELSE httpdRecvCb(r)
    ELSE {r}

NextSlot ==
  IF idx = maxConnections
    THEN pc' = Again(shutdown) /\ idx' = 1 /\ readset' = {} /\ writeset' = {}
    ELSE UNCHANGED <<pc, sets>> /\ idx' = idx + 1

Turn ==
  /\ pc = "turn"
  /\ IF rconn[idx].fd = NoFd
       THEN UNCHANGED <<rconn, gone>>
       ELSE \E written \in WriteSide(rconn[idx]) : \E read \in ReadSide(written) :
              /\ rconn' = [rconn EXCEPT ![idx] = read]
              /\ gone' = IF read.fd = NoFd THEN gone \ {rconn[idx].fd} ELSE gone
  /\ NextSlot
  /\ UNCHANGED <<backlog, stop>>

\* Mutant: the last slot is left out.
platHttpServerTaskDeinit_SkipsLast ==
  /\ pc = "exit"
  /\ backlog' = <<>> /\ gone' = {}
  /\ rconn' = [s \in Slots |-> IF s < maxConnections THEN closeConnection(rconn[s]) ELSE rconn[s]]
  /\ isShutdown' = TRUE
  /\ pc' = "gone"
  /\ UNCHANGED <<idx, sets, datagram, shutdown, caller>>

\* Both sockets are closed, and then every connection.
platHttpServerTaskDeinit ==
  /\ pc = "exit"
  /\ backlog' = <<>> /\ gone' = {}
  /\ rconn' = [s \in Slots |-> closeConnection(rconn[s])]
  /\ isShutdown' = TRUE
  /\ pc' = "gone"
  /\ UNCHANGED <<idx, sets, datagram, shutdown, caller>>

Server ==
  \/ platHttpServerTaskInit \/ Select \/ Accept \/ Turn \/ platHttpServerTaskDeinit

-----------------------------------------------------------------------------
(* httpdPlatShutdown, in another task: a datagram every 200 ms until the   *)
(* server says that it is down.  One that is lost changes nothing.         *)

CallShutdown ==
  /\ ShutdownSupport
  /\ caller = "away"
  /\ caller' = "waiting"
  /\ UNCHANGED <<backlog, gone, rconn, pc, idx, sets, datagram, shutdown, isShutdown>>

SendShutdown ==
  /\ caller = "waiting" /\ ~isShutdown
  /\ pc \in Listening
  /\ datagram' = TRUE
  /\ UNCHANGED <<backlog, gone, rconn, pc, idx, sets, shutdown, isShutdown, caller>>

ReturnShutdown ==
  /\ caller = "waiting" /\ isShutdown
  /\ caller' = "returned"
  /\ UNCHANGED <<backlog, gone, rconn, pc, idx, sets, datagram, shutdown, isShutdown>>

Next ==
  \/ Server \/ AcceptFails \/ UdpBindFails
  \/ \E c \in Clients : Connect(c) \/ HangUp(c)
  \/ CallShutdown \/ SendShutdown \/ ReturnShutdown

\* Nothing in the server sends an idle client away: that those who have a slot
\* leave it in the end is asked of them.  accept may fail any number of times,
\* but not always, and the same of datagrams.
Fairness ==
  /\ WF_vars(Server /\ (pc = "select" => Stirred))
  /\ SF_vars(Accept)
  /\ \A c \in Clients : WF_vars(HangUp(c))
  /\ WF_vars(SendShutdown) /\ WF_vars(ReturnShutdown)

Spec == Init /\ [][Next]_vars /\ Fairness

-----------------------------------------------------------------------------
(* Properties. *)

TypeOK ==
  /\ \A i \in 1..Len(backlog) : backlog[i] \in Clients
  /\ Len(backlog) <= maxConnections
  /\ gone \subseteq Clients
  /\ rconn \in [Slots -> Rconn]
  /\ pc \in {"init", "dead", "gone"} \union Listening
  /\ idx \in Slots
  /\ readset \subseteq Clients /\ writeset \subseteq Clients
  /\ datagram \in BOOLEAN /\ shutdown \in BOOLEAN /\ isShutdown \in BOOLEAN
  /\ caller \in {"away", "waiting", "returned"}

\* core/httpd-freertos.c:415, :455: a slot that is used again has nothing of the
\* connection before.  No client is answered by another's handler, is hung up on
\* because another's answer was over, or has two slots.
NothingInherited ==
  \A s \in Slots : rconn[s].fd # NoFd =>
    /\ rconn[s].cgi # "old"
    /\ rconn[s].needsClose => rconn[s].disconAfterSent
    /\ \A t \in Slots \ {s} : rconn[t].fd # rconn[s].fd

\* core/httpd-freertos.c:344: a client in the queue gets a slot, even if all are
\* taken when it comes, accept fails and others come again and again, as long
\* as those with a slot leave in the end.
Accepted == \A c \in Clients : Queued(c) ~> ~Queued(c)

\* core/httpd-freertos.c:866: whoever shuts the server down gets the word that
\* it is down, with every connection closed, whatever the server was doing and
\* although datagrams are lost; unless the server has never got its port.
ShutdownEnds ==
  caller = "waiting" ~>
    pc = "dead" \/ (caller = "returned" /\ \A s \in Slots : rconn[s].fd = NoFd)
=============================================================================
