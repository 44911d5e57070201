-------------------------- MODULE HttpdServerProofs --------------------------
(***************************************************************************)
(* Proofs about the task of the web server: its types, that a slot that is *)
(* used again has nothing of the connection before (NothingInherited), and *)
(* that who has shut the server down finds every connection closed, for    *)
(* every number of slots and clients.                                      *)
(*                                                                         *)
(* ServerInv is the inductive invariant: a client is in one place of the   *)
(* queue or in one slot, a handler left behind by closeConnection is only  *)
(* in a slot that is free, and the server says that it is down only when   *)
(* nothing is left.                                                        *)
(***************************************************************************)
EXTENDS HttpdServer, TLAPS

-----------------------------------------------------------------------------
(* The inductive invariant *)

\* The queue is a sequence of clients, which TypeOK says of its elements only.
TypeInv == TypeOK /\ backlog \in Seq(Clients)

\* What accept takes is there: nobody leaves the queue but through it.
PendingInv == pc = "accept" => backlog # <<>>

\* A client waits in one place of the queue or has one slot.
OneplaceInv ==
  /\ \A i, j \in 1..Len(backlog) : backlog[i] = backlog[j] => i = j
  /\ \A i \in 1..Len(backlog), s \in Slots : rconn[s].fd # backlog[i]
  /\ \A s, t \in Slots : rconn[s].fd = rconn[t].fd /\ rconn[s].fd # NoFd => s = t

\* What closeConnection and httpdSentCb leave in a slot.
CleanSlot(r) ==
  /\ r \in Rconn
  /\ r.cgi = "old" => r.fd = NoFd
  /\ r.needsClose => r.disconAfterSent

SlotInv == \A s \in Slots : CleanSlot(rconn[s])

\* The server is down when it says so.
DownInv ==
  /\ caller = "returned" => isShutdown
  /\ isShutdown => pc = "gone"
  /\ pc = "gone" => backlog = <<>> /\ \A s \in Slots : rconn[s].fd = NoFd

ServerInv == TypeInv /\ PendingInv /\ OneplaceInv /\ SlotInv /\ DownInv

-----------------------------------------------------------------------------
(* What one turn makes of a slot *)

\* closeConnection frees a slot and leaves what the next connection clears.
LEMMA CloseCleans ==
  ASSUME NEW r, CleanSlot(r)
  PROVE  CleanSlot(closeConnection(r)) /\ closeConnection(r).fd = NoFd
BY DEF CleanSlot, closeConnection, Rconn

\* A handler that runs keeps the slot with its connection.
LEMMA RunsKeep ==
  ASSUME NEW r, CleanSlot(r), NEW q \in Runs(r)
  PROVE  CleanSlot(q) /\ q.fd = r.fd
<1>1. PICK more \in BOOLEAN, written \in BOOLEAN, last \in BOOLEAN :
        q = Ran(r, more, written, last)
  BY DEF Runs
<1>2. q \in Rconn
  BY <1>1, Zenon DEF CleanSlot, Rconn, Ran
<1>3. q.cgi # "old" /\ q.fd = r.fd /\ q.needsClose = r.needsClose
  BY <1>1 DEF CleanSlot, Rconn, Ran
<1>4. r.disconAfterSent => q.disconAfterSent
  BY <1>1 DEF CleanSlot, Rconn, Ran
<1> QED
  BY <1>2, <1>3, <1>4 DEF CleanSlot

\* Whatever a turn does, the slot stays with its client or becomes free.
LEMMA TurnKeeps ==
  ASSUME NEW r, CleanSlot(r), readset \subseteq Clients, NoFd \notin Clients,
         NEW w \in WriteSide(r), NEW q \in ReadSide(w)
  PROVE  CleanSlot(q) /\ q.fd \in {r.fd, NoFd}
<1>1. CleanSlot(w) /\ w.fd \in {r.fd, NoFd}
  <2> DEFINE told == [r EXCEPT !.needWriteDoneNotif = FALSE]
  <2>1. CleanSlot(told) /\ told.fd = r.fd
    BY DEF CleanSlot, Rconn
  <2> DEFINE ends == [told EXCEPT !.needsClose = TRUE, !.needWriteDoneNotif = TRUE]
  <2>2. told.disconAfterSent => CleanSlot(ends) /\ ends.fd = r.fd
    BY <2>1 DEF CleanSlot, Rconn
  <2>3. w \in {r, closeConnection(told), ends, told} \union Runs(told)
        /\ (w = ends => told.disconAfterSent \/ w \in {r, told} \union Runs(told) \/ w = closeConnection(told))
    BY DEF WriteSide, httpdSentCb
  <2> HIDE DEF told, ends
  <2> QED
    BY <2>1, <2>2, <2>3, CloseCleans, RunsKeep
<1>2. q \in {w, closeConnection(w)} \union Runs(w)
  BY DEF ReadSide, httpdRecvCb
<1> QED
  BY <1>1, <1>2, CloseCleans, RunsKeep

-----------------------------------------------------------------------------
(* The initial states and the steps *)

LEMMA InitOK == Init => ServerInv
<1> SUFFICES ASSUME Init PROVE ServerInv
  OBVIOUS
<1> USE ServerAssumption DEF Init
<1>1. backlog \in Seq(Clients) /\ Len(backlog) = 0
  OBVIOUS
<1>2. \A s \in Slots : CleanSlot(rconn[s])
  BY DEF CleanSlot, Rconn
<1>3. rconn \in [Slots -> Rconn]
  BY DEF Rconn
<1>4. TypeInv
  <2>1. pc = "init" /\ caller = "away" /\ idx \in Slots /\ gone = {} /\ readset = {} /\ writeset = {}
    BY DEF Slots
  <2>2. datagram \in BOOLEAN /\ shutdown \in BOOLEAN /\ isShutdown \in BOOLEAN
    OBVIOUS
  <2> QED
    BY ONLY <1>1, <1>3, <2>1, <2>2, ServerAssumption DEF TypeInv, TypeOK
<1>5. PendingInv /\ DownInv
  BY DEF PendingInv, DownInv
<1>6. OneplaceInv
  BY <1>1 DEF OneplaceInv
<1>7. SlotInv
  BY <1>2 DEF SlotInv
<1> QED
  BY <1>4, <1>5, <1>6, <1>7 DEF ServerInv

\* A step that leaves queue and slots alone disturbs neither OneplaceInv nor
\* SlotInv, nor the typing of both.
LEMMA KeepPlaces ==
  ASSUME ServerInv, UNCHANGED <<backlog, rconn>>
  PROVE  OneplaceInv' /\ SlotInv' /\ (backlog \in Seq(Clients))'
         /\ (rconn \in [Slots -> Rconn])' /\ (Len(backlog) <= maxConnections)'
         /\ (\A i \in 1..Len(backlog) : backlog[i] \in Clients)'
BY DEF ServerInv, TypeInv, TypeOK, OneplaceInv, SlotInv, Slots

LEMMA ConnectOK ==
  ASSUME ServerInv, NEW c \in Clients, Connect(c) PROVE ServerInv'
<1> USE DEF Connect, stop, sets
<1>1. backlog' \in Seq(Clients) /\ Len(backlog') = Len(backlog) + 1
      /\ backlog'[Len(backlog) + 1] = c
      /\ \A i \in 1..Len(backlog) : backlog'[i] = backlog[i]
  BY DEF ServerInv, TypeInv
<1>2. Len(backlog) \in Nat
  BY DEF ServerInv, TypeInv
<1>3. TypeInv'
  BY <1>1, <1>2, ServerAssumption DEF ServerInv, TypeInv, TypeOK
<1>4. OneplaceInv'
  BY <1>1, <1>2 DEF ServerInv, OneplaceInv, Queued, InSlot
<1>5. PendingInv' /\ SlotInv' /\ DownInv'
  BY <1>1, <1>2 DEF ServerInv, PendingInv, SlotInv, DownInv, Listening
<1> QED
  BY <1>3, <1>4, <1>5 DEF ServerInv

LEMMA AcceptOK ==
  ASSUME ServerInv, Accept PROVE ServerInv'
<1> USE DEF Accept, stop, sets
<1>1. PICK s \in Slots :
        /\ rconn[s].fd = NoFd
        /\ rconn' = [rconn EXCEPT ![s] = httpdConnectCb([@ EXCEPT !.fd = Head(backlog),
                                     !.needWriteDoneNotif = FALSE, !.needsClose = FALSE])]
  BY DEF Accept
<1> DEFINE taken == httpdConnectCb([rconn[s] EXCEPT !.fd = Head(backlog),
                       !.needWriteDoneNotif = FALSE, !.needsClose = FALSE])
<1>2. backlog \in Seq(Clients) /\ backlog # <<>> /\ rconn \in [Slots -> Rconn]
  BY DEF ServerInv, PendingInv, TypeInv, TypeOK
<1>3. /\ backlog' \in Seq(Clients) /\ Len(backlog') = Len(backlog) - 1 /\ Len(backlog) \in Nat
      /\ Len(backlog) > 0
      /\ \A i \in 1..Len(backlog') : backlog'[i] = backlog[i + 1] /\ i + 1 \in 1..Len(backlog)
      /\ Head(backlog) = backlog[1] /\ 1 \in 1..Len(backlog) /\ Head(backlog) \in Clients
  BY <1>2
<1>4. CleanSlot(taken) /\ taken.fd = Head(backlog)
  <2> DEFINE fresh == [rconn[s] EXCEPT !.fd = Head(backlog),
                         !.needWriteDoneNotif = FALSE, !.needsClose = FALSE]
  <2>1. fresh \in Rconn /\ fresh.fd = Head(backlog) /\ ~fresh.needsClose
    <3>1. rconn[s] \in Rconn
      BY <1>2
    <3> QED
      BY ONLY <1>3, <3>1 DEF Rconn
  <2>2. taken = httpdConnectCb(fresh)
    OBVIOUS
  <2> HIDE DEF fresh, taken
  <2> QED
    BY <2>1, <2>2 DEF CleanSlot, Rconn, httpdConnectCb
<1>5. rconn' = [rconn EXCEPT ![s] = taken]
  BY <1>1
<1> HIDE DEF taken
<1>6. rconn' \in [Slots -> Rconn] /\ \A t \in Slots : rconn'[t] = IF t = s THEN taken ELSE rconn[t]
  BY <1>2, <1>4, <1>5 DEF CleanSlot
<1>7. TypeInv'
  BY <1>3, <1>6, ServerAssumption DEF ServerInv, TypeInv, TypeOK, Listening
<1>8. OneplaceInv'
  <2>1. \A i, j \in 1..Len(backlog') : backlog'[i] = backlog'[j] => i = j
    BY <1>3 DEF ServerInv, OneplaceInv
  <2>2. \A i \in 1..Len(backlog'), t \in Slots : rconn'[t].fd # backlog'[i]
    BY <1>3, <1>4, <1>6 DEF ServerInv, OneplaceInv
  <2>3. \A t \in Slots : t # s => rconn'[t].fd # Head(backlog)
    BY <1>3, <1>6 DEF ServerInv, OneplaceInv
  <2>4. \A t, u \in Slots : rconn'[t].fd = rconn'[u].fd /\ rconn'[t].fd # NoFd => t = u
    BY <1>4, <1>6, <2>3 DEF ServerInv, OneplaceInv
  <2> QED
    BY <2>1, <2>2, <2>4 DEF OneplaceInv
<1>9. SlotInv'
  BY <1>4, <1>6 DEF ServerInv, SlotInv
<1>10. PendingInv' /\ DownInv'
  BY DEF ServerInv, PendingInv, DownInv
<1> QED
  BY <1>7, <1>8, <1>9, <1>10 DEF ServerInv

LEMMA TurnOK ==
  ASSUME ServerInv, Turn PROVE ServerInv'
<1> USE DEF Turn, stop, sets
<1>1. idx \in Slots /\ rconn \in [Slots -> Rconn] /\ CleanSlot(rconn[idx])
      /\ readset \subseteq Clients /\ writeset \subseteq Clients /\ gone \subseteq Clients
  BY DEF ServerInv, TypeInv, TypeOK, SlotInv
<1>2. PICK read : /\ CleanSlot(read) /\ read.fd \in {rconn[idx].fd, NoFd}
                  /\ rconn' = [rconn EXCEPT ![idx] = read] /\ gone' \subseteq gone
  <2>1. CASE rconn[idx].fd = NoFd
    <3>1. rconn' = [rconn EXCEPT ![idx] = rconn[idx]]
      BY <1>1, <2>1
    <3> QED
      BY <1>1, <2>1, <3>1
  <2>2. CASE rconn[idx].fd # NoFd
    <3>1. PICK written \in WriteSide(rconn[idx]) : \E read \in ReadSide(written) :
            /\ rconn' = [rconn EXCEPT ![idx] = read]
            /\ gone' = IF read.fd = NoFd THEN gone \ {rconn[idx].fd} ELSE gone
      BY <2>2
    <3> QED
      BY <1>1, <3>1, TurnKeeps, ServerAssumption
  <2> QED
    BY <2>1, <2>2
<1>3. rconn' \in [Slots -> Rconn] /\ \A t \in Slots : rconn'[t] = IF t = idx THEN read ELSE rconn[t]
  BY <1>1, <1>2 DEF CleanSlot
<1>4. /\ idx' \in Slots /\ pc' \in {"turn", "select", "exit"}
      /\ readset' \subseteq Clients /\ writeset' \subseteq Clients
  BY <1>1, ServerAssumption DEF NextSlot, Again, Slots
<1>5. TypeInv'
  BY <1>1, <1>2, <1>3, <1>4 DEF ServerInv, TypeInv, TypeOK, Listening
<1>6. OneplaceInv'
  BY <1>1, <1>2, <1>3, ServerAssumption DEF ServerInv, OneplaceInv, TypeInv, TypeOK
<1>7. SlotInv'
  BY <1>2, <1>3 DEF ServerInv, SlotInv
<1>8. PendingInv' /\ DownInv'
  BY <1>4 DEF ServerInv, PendingInv, DownInv
<1> QED
  BY <1>5, <1>6, <1>7, <1>8 DEF ServerInv

LEMMA DeinitOK ==
  ASSUME ServerInv, platHttpServerTaskDeinit PROVE ServerInv'
<1> USE DEF platHttpServerTaskDeinit, sets
<1>1. \A s \in Slots : CleanSlot(closeConnection(rconn[s])) /\ closeConnection(rconn[s]).fd = NoFd
  BY CloseCleans DEF ServerInv, SlotInv
<1>2. rconn' \in [Slots -> Rconn] /\ \A s \in Slots : CleanSlot(rconn'[s]) /\ rconn'[s].fd = NoFd
  BY <1>1 DEF CleanSlot
<1>3. backlog' \in Seq(Clients) /\ Len(backlog') = 0
  OBVIOUS
<1>4. TypeInv'
  BY <1>2, <1>3, ServerAssumption DEF ServerInv, TypeInv, TypeOK
<1>5. OneplaceInv' /\ SlotInv' /\ PendingInv' /\ DownInv'
  BY <1>2, <1>3 DEF ServerInv, OneplaceInv, SlotInv, PendingInv, DownInv
<1> QED
  BY <1>4, <1>5 DEF ServerInv

\* Select, and whatever leaves queue and slots alone.
LEMMA RestOK ==
  ASSUME ServerInv,
         \/ platHttpServerTaskInit \/ UdpBindFails \/ Select \/ AcceptFails
         \/ \E c \in Clients : HangUp(c)
         \/ CallShutdown \/ SendShutdown \/ ReturnShutdown
         \/ UNCHANGED vars
  PROVE  ServerInv'
<1> USE DEF stop, sets
<1>1. UNCHANGED <<backlog, rconn>>
  BY DEF platHttpServerTaskInit, UdpBindFails, Select, AcceptFails, HangUp, CallShutdown,
         SendShutdown, ReturnShutdown, vars
<1>2. OneplaceInv' /\ SlotInv' /\ (backlog \in Seq(Clients))'
      /\ (rconn \in [Slots -> Rconn])' /\ (Len(backlog) <= maxConnections)'
      /\ (\A i \in 1..Len(backlog) : backlog[i] \in Clients)'
  BY <1>1, KeepPlaces
<1>3. TypeInv' /\ PendingInv' /\ DownInv'
  <2> USE <1>2, ServerAssumption DEF ServerInv, TypeInv, TypeOK, PendingInv, DownInv, Listening
  <2>1. CASE platHttpServerTaskInit \/ UdpBindFails
    BY <2>1 DEF platHttpServerTaskInit, UdpBindFails
  <2>2. CASE Select
    BY <2>2 DEF Select, Slots
  <2>3. CASE AcceptFails
    BY <2>3 DEF AcceptFails, Again
  <2>4. CASE \E c \in Clients : HangUp(c)
    BY <2>4 DEF HangUp
  <2>5. CASE CallShutdown \/ SendShutdown \/ ReturnShutdown
    <3>1. CASE CallShutdown
      BY <3>1 DEF CallShutdown
    <3>2. CASE SendShutdown
      BY <3>2 DEF SendShutdown
    <3>3. CASE ReturnShutdown
      BY <3>3 DEF ReturnShutdown
    <3> QED
      BY <2>5, <3>1, <3>2, <3>3
  <2>6. CASE UNCHANGED vars
    BY <2>6 DEF vars
  <2> QED
    BY <2>1, <2>2, <2>3, <2>4, <2>5, <2>6
<1> QED
  BY <1>2, <1>3 DEF ServerInv

LEMMA StepOK == ServerInv /\ [Next]_vars => ServerInv'
BY ConnectOK, AcceptOK, TurnOK, DeinitOK, RestOK DEF Next, Server

-----------------------------------------------------------------------------
(* Theorems *)

\* The queue, the slots and the sets of select hold what the task expects, for
\* every number of slots (core/httpd-freertos.c, platHttpServerTask).
THEOREM TypeCorrect == Spec => []TypeOK
<1>1. ServerInv => TypeOK
  BY DEF ServerInv, TypeInv
<1> QED
  BY <1>1, InitOK, StepOK, PTL DEF Spec

\* A slot that is used again has nothing of the connection before, and no two
\* slots the same connection (closeConnection, httpdConnectCb).
THEOREM SlotsAreClean == Spec => []NothingInherited
<1>1. ServerInv => NothingInherited
  BY DEF ServerInv, SlotInv, CleanSlot, OneplaceInv, NothingInherited
<1> QED
  BY <1>1, InitOK, StepOK, PTL DEF Spec

\* Nothing is left of the server for the caller of httpdPlatShutdown.
ReturnedMeansClosed ==
  caller = "returned" => backlog = <<>> /\ \A s \in Slots : rconn[s].fd = NoFd

\* httpdPlatShutdown returns only when every connection is closed and nobody
\* waits to be accepted: what ShutdownEnds promises is true when it comes.
THEOREM ShutdownClosesAll == Spec => []ReturnedMeansClosed
<1>1. ServerInv => ReturnedMeansClosed
  BY DEF ServerInv, DownInv, ReturnedMeansClosed
<1> QED
  BY <1>1, InitOK, StepOK, PTL DEF Spec
=============================================================================
