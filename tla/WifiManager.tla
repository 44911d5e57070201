----------------------------- MODULE WifiManager -----------------------------
(***************************************************************************)
(* The WiFi pages of libesphttpd (util/esp32_wifi.c): the scans for access *)
(* points and their results, together with the changes of the              *)
(* configuration (WifiConfig).                                             *)
(*                                                                         *)
(* The results of a scan are counted references: the global pointer holds  *)
(* one, every connection that still sends from them another, and whoever   *)
(* drops the last one frees them.                                          *)
(***************************************************************************)
EXTENDS WifiConfig

CONSTANTS
  Conns,        \* connections that may ask for the results
  Data,         \* memory for results: a set of positive numbers
  MaxRecords    \* bound of the access points found

ASSUME ManagerAssumption ==
  /\ IsFiniteSet(Conns)
  /\ Data # {} /\ Data \subseteq Nat \ {0}
  /\ MaxRecords \in Nat \ {0}

VARIABLES
  flag,         \* scan_in_progress
  scanTimer,    \* scan_timer is armed
  lastScan,     \* last_scan: in Data, or 0 for NULL
  refs,         \* the reference counts; what has none is free
  records,      \* num_records
  dataLock,     \* who holds data_lock
  iter,         \* the iterators of the connections; data is 0 for NULL
  eventTask     \* where the event loop is, and the local variable "new"

scanVars == <<flag, scanTimer, lastScan, refs, records, dataLock, iter>>
vars == <<driver, cfgVars, taskVars, scanVars, eventTask>>

NoIter == [data |-> 0, idx |-> 0]
Get(d) == [refs EXCEPT ![d] = @ + 1]
Put(d) == [refs EXCEPT ![d] = @ - 1]

-----------------------------------------------------------------------------
(* cgiWiFiScan *)

\* The first call of a connection; get_scan_data takes the lock and reads the
\* pointer, if there is one.
ScanPage(c) ==
  /\ web.at = "idle" /\ iter[c].data = 0 /\ received < MaxRequests
  /\ received' = received + 1
  /\ IF lastScan = 0
     THEN web' = [Idle EXCEPT !.at = "start", !.conn = c] /\ UNCHANGED dataLock
     ELSE /\ dataLock = "none" /\ dataLock' = "web"
          /\ web' = [Idle EXCEPT !.at = "get", !.conn = c, !.data = lastScan]
  /\ UNCHANGED <<driver, cfgVars, timerTask, flag, scanTimer, lastScan, refs, records,
                 iter, eventTask>>

\* get_scan_data counts the reference and gives the lock back; without memory
\* for the iterator the reference is dropped again.
GetData ==
  /\ web.at = "get"
  /\ dataLock' = "none"
  /\ \/ /\ refs' = Get(web.data)
        /\ iter' = [iter EXCEPT ![web.conn] = [data |-> web.data, idx |-> 0]]
        /\ At("send")
     \/ "alloc" \in Faults /\ Replies /\ UNCHANGED <<refs, iter>>
  /\ UNCHANGED <<driver, cfgVars, timerTask, received, flag, scanTimer, lastScan, records,
                 eventTask>>

\* One record is sent, none in the mode of an access point; after the last one
\* a new scan is started.
SendRecord(c) ==
  /\ \/ web.at = "send" /\ web.conn = c
     \/ web.at = "idle" /\ iter[c].data # 0
  /\ LET idx == IF driver.mode = "AP" THEN records[iter[c].data] ELSE iter[c].idx + 1
     IN /\ iter' = [iter EXCEPT ![c].idx = idx]
        /\ web' = IF idx >= records[iter[c].data]
                  THEN [Idle EXCEPT !.at = "start", !.conn = c] ELSE Idle
  /\ UNCHANGED <<driver, cfgVars, timerTask, received, flag, scanTimer, lastScan, refs,
                 records, dataLock, eventTask>>

\* The handler is done: the reference of the connection is dropped.
Drops(c) ==
  /\ refs' = IF iter[c].data # 0 THEN Put(iter[c].data) ELSE refs
  /\ iter' = [iter EXCEPT ![c] = NoIter]
  /\ Replies

PageEnds ==
  /\ web.at = "end" /\ Drops(web.conn)
  /\ UNCHANGED <<driver, cfgVars, timerTask, received, flag, scanTimer, lastScan, records,
                 dataLock, eventTask>>

\* A connection closes in the middle.
PageCloses(c) ==
  /\ web.at = "idle" /\ iter[c].data # 0 /\ Drops(c)
  /\ UNCHANGED <<driver, cfgVars, timerTask, received, flag, scanTimer, lastScan, records,
                 dataLock, eventTask>>

-----------------------------------------------------------------------------
(* wifi_start_scan *)

\* With the lock, in a stable state and with a station, the flag is set.
StartScan ==
  /\ web.at = "start"
  /\ IF cfgLock = "none" /\ State \in Stable /\ HasStation(driver.mode) /\ ~flag
     THEN flag' = TRUE /\ cfgLock' = "web" /\ At("scan")
     ELSE At("end") /\ UNCHANGED <<flag, cfgLock>>
  /\ UNCHANGED <<driver, bits, cfgState, cfgTimer, gaveUp, timerTask,
                 received, scanTimer, lastScan, refs, records, dataLock, iter, eventTask>>

\* Mutant: a scan that could not be started keeps the flag.
FlagAfterFailure_Kept == TRUE

FlagAfterFailure == FALSE

\* esp_wifi_scan_start; a scan that still runs is replaced.
ScanStarts ==
  /\ web.at = "scan"
  /\ \/ /\ driver' = [ScanStop(driver) EXCEPT !.scanning = TRUE]
        /\ At("timer")
        /\ UNCHANGED <<flag, cfgLock>>
     \/ /\ "scan" \in Faults
        /\ flag' = FlagAfterFailure /\ cfgLock' = "none" /\ At("end")
        /\ UNCHANGED driver
  /\ UNCHANGED <<bits, cfgState, cfgTimer, gaveUp, timerTask, received,
                 scanTimer, lastScan, refs, records, dataLock, iter, eventTask>>

\* xTimerReset, whose answer is ignored
TimerStarts ==
  /\ web.at = "timer"
  /\ scanTimer' \in {TRUE} \cup (IF "timer" \in Faults THEN {scanTimer} ELSE {})
  /\ cfgLock' = "none" /\ At("end")
  /\ UNCHANGED <<driver, bits, cfgState, cfgTimer, gaveUp, timerTask,
                 received, flag, lastScan, refs, records, dataLock, iter, eventTask>>

-----------------------------------------------------------------------------
(* handle_scan_timer *)

ScanTimer ==
  /\ timerTask = "idle" /\ scanTimer
  /\ scanTimer' = FALSE
  /\ timerTask' = IF flag THEN "stop scan" ELSE "idle"
  /\ UNCHANGED <<driver, cfgVars, web, received, flag, lastScan, refs, records, dataLock,
                 iter, eventTask>>

StopScan ==
  /\ timerTask = "stop scan"
  /\ driver' = ScanStop(driver)
  /\ timerTask' = "clear flag"
  /\ UNCHANGED <<cfgVars, web, received, scanVars, eventTask>>

ClearFlag ==
  /\ timerTask = "clear flag"
  /\ flag' = FALSE
  /\ timerTask' = "idle"
  /\ UNCHANGED <<driver, cfgVars, web, received, scanTimer, lastScan, refs, records,
                 dataLock, iter, eventTask>>

-----------------------------------------------------------------------------
(* wifi_scan_done *)

EventAt(place) == eventTask' = [eventTask EXCEPT !.at = place]

\* The event is ignored unless a scan is known; a scan that found nothing, or
\* whose results cannot be fetched, only ends; otherwise the results are
\* fetched into new memory, with one reference.
ScanDone ==
  /\ eventTask.at = "idle" /\ driver.events # <<>>
  /\ Head(driver.events) \in {"scan done", "scan failed"}
  /\ driver' = [driver EXCEPT !.events = Tail(@)]
  /\ \/ ~flag /\ UNCHANGED <<eventTask, refs, records>>
     \/ /\ flag /\ (Head(driver.events) = "scan failed" \/ "alloc" \in Faults)
        /\ EventAt("flag")
        /\ UNCHANGED <<refs, records>>
     \/ /\ flag /\ Head(driver.events) = "scan done"
        /\ \E d \in {x \in Data : refs[x] = 0}, n \in 1 .. MaxRecords :
             /\ refs' = [refs EXCEPT ![d] = 1]
             /\ records' = [records EXCEPT ![d] = n]
             /\ eventTask' = [at |-> "publish", data |-> d]
  /\ UNCHANGED <<cfgVars, taskVars, flag, scanTimer, lastScan, dataLock, iter>>

\* Mutant: the pointer is changed without the lock.
MayPublish_Always == TRUE

MayPublish == dataLock = "none"

\* The results become the last ones; they are dropped when the lock is not
\* there in time.
Publish ==
  /\ eventTask.at = "publish"
  /\ \/ /\ MayPublish
        /\ refs' = IF lastScan = 0 THEN Get(eventTask.data)
                   ELSE [Get(eventTask.data) EXCEPT ![lastScan] = @ - 1]
        /\ lastScan' = eventTask.data
     \/ dataLock # "none" /\ UNCHANGED <<refs, lastScan>>
  /\ EventAt("put")
  /\ UNCHANGED <<driver, cfgVars, taskVars, flag, scanTimer, records, dataLock, iter>>

PutNew ==
  /\ eventTask.at = "put"
  /\ refs' = Put(eventTask.data)
  /\ eventTask' = [at |-> "flag", data |-> 0]
  /\ UNCHANGED <<driver, cfgVars, taskVars, flag, scanTimer, lastScan, records, dataLock, iter>>

ScanOver ==
  /\ eventTask.at = "flag"
  /\ flag' = FALSE
  /\ EventAt("timer")
  /\ UNCHANGED <<driver, cfgVars, taskVars, scanTimer, lastScan, refs, records, dataLock, iter>>

TimerStops ==
  /\ eventTask.at = "timer"
  /\ scanTimer' = FALSE
  /\ EventAt("idle")
  /\ UNCHANGED <<driver, cfgVars, taskVars, flag, lastScan, refs, records, dataLock, iter>>

-----------------------------------------------------------------------------
(* The station *)

\* Nothing is under way; a first scan may have left its results.
Init ==
  /\ CfgInit
  /\ flag = FALSE /\ scanTimer = FALSE /\ dataLock = "none"
  /\ lastScan \in {0, CHOOSE d \in Data : TRUE}
  /\ refs = [d \in Data |-> IF d = lastScan THEN 1 ELSE 0]
  /\ records = [d \in Data |-> IF d = lastScan THEN MaxRecords ELSE 0]
  /\ iter = [c \in Conns |-> NoIter]
  /\ eventTask = [at |-> "idle", data |-> 0]

ScanUnchanged == UNCHANGED <<scanVars, eventTask>>

ConfigTask == (ConfigTimer \/ ConfigHandler) /\ ScanUnchanged
ScanTimerTask == ScanTimer \/ StopScan \/ ClearFlag
EventLoop ==
  \/ /\ eventTask.at = "idle" /\ StateEvent
     /\ UNCHANGED <<cfgState, cfgLock, cfgTimer, gaveUp, taskVars>>
     /\ ScanUnchanged
  \/ ScanDone \/ Publish \/ PutNew \/ ScanOver \/ TimerStops

\* The web server goes on with the request it works on.
WebGoesOn ==
  \/ (RequestApplied \/ UpdateTakes \/ UpdateStores) /\ ScanUnchanged
  \/ GetData \/ PageEnds \/ StartScan \/ ScanStarts \/ TimerStarts
  \/ \E c \in Conns : SendRecord(c)

Clients ==
  \/ (StartWps \/ \E r \in Requests : RequestComes(r)) /\ ScanUnchanged
  \/ \E c \in Conns : ScanPage(c) \/ PageCloses(c)

ScanCompletes == ScanEndsItself /\ UNCHANGED <<cfgVars, taskVars, scanVars, eventTask>>
Driver == /\ Joins \/ LosesLink \/ WpsEnds
          /\ UNCHANGED <<cfgVars, taskVars, scanVars, eventTask>>

Next ==
  ConfigTask \/ ScanTimerTask \/ EventLoop \/ WebGoesOn \/ Clients \/ Driver \/ ScanCompletes

\* The scheduler lets every task go on that can, and a timer that is armed
\* goes off.
Fairness == /\ WF_vars(ConfigTask) /\ WF_vars(ScanTimerTask)
            /\ WF_vars(EventLoop) /\ WF_vars(WebGoesOn)

\* A driver whose scan may hang
Spec == Init /\ [][Next]_vars /\ Fairness

\* A driver whose scans end
SpecAnswering == Spec /\ WF_vars(ScanCompletes)

-----------------------------------------------------------------------------
(* Properties *)

\* TYPE INVARIANT of the manager.
TypeOK ==
  /\ CfgTypeOK
  /\ \A d \in Data : refs[d] \in 0 .. Cardinality(Conns) + 2 /\ records[d] \in 0 .. MaxRecords
  /\ dataLock \in {"none", "web"} /\ lastScan \in Data \cup {0}
  /\ \A c \in Conns : iter[c].idx <= MaxRecords

\* The results of a scan have exactly as many references as holders: while
\* the pointer, a connection or the event loop has them they are not freed, not
\* even between get_scan_data's reading of the pointer and its counting, and
\* they are freed when nobody has them any more (esp32_wifi.c:217-357, :540-545).
ScanDataAlive ==
  /\ \A d \in Data :
       refs[d] = Cardinality({c \in Conns : iter[c].data = d})
                 + (IF lastScan = d THEN 1 ELSE 0) + (IF eventTask.data = d THEN 1 ELSE 0)
  /\ web.at = "get" => refs[web.data] > 0

\* A scan is not under way for ever, so that another one can be started
\* (esp32_wifi.c:352-357, :359-369).
ScanEnds == flag ~> ~flag
=============================================================================
