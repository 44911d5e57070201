-------------------------- MODULE WifiManagerProofs --------------------------
(***************************************************************************)
(* Proofs about the WiFi pages of libesphttpd: that a failed attempt sets  *)
(* the station back to what it was before (FallbackRestores), that the     *)
(* results of a scan have as many references as holders (ScanDataAlive),   *)
(* and the types, for every number of connections and every set of         *)
(* requests.                                                               *)
(*                                                                         *)
(* CfgInv is about cfg_state and its lock, ScanInv about the references.   *)
(***************************************************************************)
EXTENDS WifiManager, FiniteSetTheorems, TLAPS

-----------------------------------------------------------------------------
(* The inductive invariant of the configuration *)

Events == {"got ip", "disconnected", "wps success", "wps failed", "scan done", "scan failed"}
Drivers == [mode : Modes, sta : Networks, ap : ApConfigs, link : {"down", "joining", "up"},
            scanning : BOOLEAN, wps : BOOLEAN, events : Seq(Events)]
Bits == [connected : BOOLEAN, wpsSuccess : BOOLEAN, wpsFailed : BOOLEAN]

\* A configuration, or what stands where there is none.
AnyConfigs == [connect : BOOLEAN, mode : Modes, sta : Networks, ap : ApConfigs \cup {""}]
CfgStates == [state : States, saved : AnyConfigs, new : AnyConfigs, age : 0 .. CfgTimeout,
              before : AnyConfigs]
Places == {"idle", "mode", "update", "store", "get", "send", "start", "scan", "timer", "end"}
Webs == [at : Places, request : Requests \cup {[kind |-> "none"]}, cfg : AnyConfigs,
         conn : Conns \cup {""}, data : Data \cup {0}]

CfgTypeInv ==
  /\ driver \in Drivers /\ bits \in Bits /\ cfgState \in CfgStates
  /\ cfgLock \in {"none", "web", "timer"}
  /\ timerTask \in {"idle", "config", "stop scan", "clear flag"}
  /\ web \in Webs
  /\ web.at = "mode" => web.request \in Requests

\* Who holds the lock is where the lock is held.
LockInv ==
  /\ cfgLock = "timer" <=> timerTask = "config"
  /\ cfgLock = "web" <=> web.at \in {"store", "scan", "timer"}

\* What will be given to the driver is a configuration.
WholeInv ==
  /\ web.at \in {"mode", "update", "store"} => web.cfg \in Configs
  /\ web.at = "store" \/ State \notin Stable => cfgState.saved \in Configs
  /\ State \in {"update", "connecting"} => cfgState.new \in Configs

\* Going back to one configuration restores another.
Restores(saved, before) ==
  /\ saved.mode = before.mode
  /\ HasAp(before.mode) => saved.ap = before.ap
  /\ HasStation(before.mode) /\ before.connect => saved.sta = before.sta

\* An update that may fail
Ventures(c) == c.state = "update" /\ c.new.connect /\ c.new.mode \notin {"AP", "NULL"}

\* A request that turns WiFi off may overwrite the saved configuration in the
\* middle of an attempt; that attempt then never falls back, or the mode was off
\* when it began.
RestoreInv ==
  /\ State \in {"wps_active", "connecting", "fallback"} => driver.mode # "NULL"
  /\ State = "wps_start" => cfgState.before.mode = driver.mode
  /\ web.at = "store" =>
       /\ cfgState.saved.mode = driver.mode
       /\ State \notin Stable => web.cfg.mode = "NULL"
       /\ State \in Stable => Restores(cfgState.saved, cfgState.before)
  /\ web.at # "store" /\ (State \in {"wps_start", "wps_active", "connecting", "fallback"} \/ Ventures(cfgState)) =>
       Restores(cfgState.saved, cfgState.before)

CfgInv == CfgTypeInv /\ LockInv /\ WholeInv /\ RestoreInv

-----------------------------------------------------------------------------
(* The inductive invariant of the scans *)

\* Where a connection still has records to send.
Sending(c) == iter[c].data # 0 /\ ~(web.at \in {"start", "scan", "timer", "end"} /\ web.conn = c)

ScanTypeInv ==
  /\ refs \in [Data -> Nat] /\ records \in [Data -> 0 .. MaxRecords]
  /\ iter \in [Conns -> [data : Data \cup {0}, idx : 0 .. MaxRecords]]
  /\ dataLock \in {"none", "web"} /\ lastScan \in Data \cup {0}
  /\ eventTask \in [at : {"idle", "publish", "put", "flag", "timer"}, data : Data \cup {0}]
  /\ web.at \in {"get", "send", "start", "scan", "timer", "end"} => web.conn \in Conns

\* The event loop has results from the scan until it has given them away.
EventInv == eventTask.at \in {"publish", "put"} <=> eventTask.data # 0

\* get_scan_data is between its reading of the pointer and its counting.
GetInv ==
  /\ dataLock = "web" <=> web.at = "get"
  /\ web.at = "get" => lastScan = web.data /\ web.data # 0 /\ iter[web.conn].data = 0
  /\ web.at = "send" => iter[web.conn].data # 0

Holders(it, d) == {c \in Conns : it[c].data = d}
One(x, y) == IF x = y THEN 1 ELSE 0
CountInv ==
  \A d \in Data : refs[d] = Cardinality(Holders(iter, d)) + One(lastScan, d) + One(eventTask.data, d)

\* Results that somebody has are not overwritten, and are not empty.
RecordsInv ==
  /\ lastScan # 0 => records[lastScan] > 0
  /\ eventTask.data # 0 => records[eventTask.data] > 0
  /\ \A c \in Conns : Sending(c) => iter[c].idx < records[iter[c].data]

ScanInv == ScanTypeInv /\ EventInv /\ GetInv /\ CountInv /\ RecordsInv

-----------------------------------------------------------------------------
(* The driver *)

\* Scanning, the link and the events do not change what the driver is set to.
LEMMA DriverCalls ==
  ASSUME NEW d \in Drivers
  PROVE  /\ \A e \in Events : Post(d, e) \in Drivers /\ Post(d, e).mode = d.mode
         /\ Disconnect(d) \in Drivers /\ Disconnect(d).mode = d.mode
         /\ ScanStop(d) \in Drivers /\ ScanStop(d).mode = d.mode
<1>1. ASSUME NEW x \in Drivers, NEW e \in Events
      PROVE  Post(x, e) \in Drivers /\ Post(x, e).mode = x.mode
  <2>1. Append(x.events, e) \in Seq(Events)
    BY DEF Drivers
  <2> QED
    BY <2>1 DEF Post, Drivers
<1>2. [d EXCEPT !.link = "down"] \in Drivers /\ [d EXCEPT !.link = "down"].mode = d.mode
  BY DEF Drivers
<1>3. [d EXCEPT !.scanning = FALSE] \in Drivers /\ [d EXCEPT !.scanning = FALSE].mode = d.mode
  BY DEF Drivers
<1>4. Disconnect(d) \in Drivers /\ Disconnect(d).mode = d.mode
  BY <1>1, <1>2 DEF Disconnect, Events
<1>5. ScanStop(d) \in Drivers /\ ScanStop(d).mode = d.mode
  BY <1>1, <1>3 DEF ScanStop, Events
<1> QED
  BY <1>1, <1>4, <1>5

\* set_wifi_cfg sets what the configuration says.
LEMMA SetsCfg ==
  ASSUME NEW d \in Drivers, NEW c \in Configs
  PROVE  /\ SetWifiCfg(d, c) \in Drivers /\ SetWifiCfg(d, c).mode = c.mode
         /\ HasAp(c.mode) => SetWifiCfg(d, c).ap = c.ap
         /\ HasStation(c.mode) => SetWifiCfg(d, c).sta = c.sta
<1>1. CASE c.mode = "NULL"
  <2>1. Disconnect(d) \in Drivers
    BY DriverCalls
  <2> QED
    BY <1>1, <2>1 DEF SetWifiCfg, Drivers, HasAp, HasStation, Modes
<1>2. CASE c.mode # "NULL"
  BY <1>2 DEF SetWifiCfg, Drivers, Configs, HasAp, HasStation
<1> QED
  BY <1>1, <1>2

\* The configuration as it is, whole
LEMMA Current ==
  ASSUME CfgInv
  PROVE  GetWifiCfg \in Configs /\ GetWifiCfg.mode = driver.mode
BY DEF CfgInv, CfgTypeInv, GetWifiCfg, Configs, Drivers, Bits

-----------------------------------------------------------------------------
(* Frames: what does not disturb CfgInv *)

\* The end of an attempt
Ended(s) == [NoAttempt EXCEPT !.state = s]

LEMMA EndedOK ==
  ASSUME NEW s \in Stable
  PROVE  Ended(s) \in CfgStates /\ Ended(s).state = s /\ NoAttempt \in CfgStates
<1>1. Idle.cfg \in AnyConfigs
  BY ConfigAssumption DEF Idle, AnyConfigs, Modes
<1>2. 0 \in 0 .. CfgTimeout
  <2>1. CfgTimeout \in Nat
    BY ConfigAssumption
  <2> QED
    BY <2>1
<1> QED
  BY <1>1, <1>2 DEF Ended, NoAttempt, CfgStates, States, Stable

LEMMA IdleOK == Idle \in Webs /\ Idle.at = "idle"
BY ConfigAssumption DEF Idle, Webs, AnyConfigs, Modes, Places

\* Nothing of the attempt and of the request that changes it is touched.
LEMMA Aside ==
  ASSUME CfgInv, cfgState' = cfgState, driver' \in Drivers, driver'.mode = driver.mode,
         bits' \in Bits, cfgLock' \in {"none", "web", "timer"},
         timerTask' \in {"idle", "config", "stop scan", "clear flag"}, LockInv',
         \/ web' = web
         \/ web' \in Webs /\ web.at # "store" /\ web'.at \notin {"mode", "update", "store"}
  PROVE  CfgInv'
<1>1. CfgTypeInv'
  BY DEF CfgInv, CfgTypeInv
<1>2. WholeInv'
  BY DEF CfgInv, WholeInv, State
<1>3. RestoreInv'
  BY DEF CfgInv, RestoreInv, State
<1> QED
  BY <1>1, <1>2, <1>3 DEF CfgInv

\* The attempt is over.
LEMMA Settles ==
  ASSUME CfgTypeInv', LockInv', State' \in Stable, web'.at # "store",
         web'.at \in {"mode", "update"} => web'.cfg \in Configs
  PROVE  CfgInv'
BY DEF CfgInv, WholeInv, RestoreInv, Stable, Ventures, State

\* Arming the timer for a state of an attempt goes on with it or fails.
LEMMA ArmGoesOn ==
  ASSUME NEW c \in CfgStates, c.state \notin Stable, Arm(c)
  PROVE  cfgState' = c \/ cfgState' = Ended("failed")
<1>1. Become(c) => cfgState' = c
  BY DEF Become
<1>2. [c EXCEPT !.state = "failed"].state = "failed"
  BY DEF CfgStates
<1>3. Become([c EXCEPT !.state = "failed"]) => cfgState' = Ended("failed")
  BY <1>2 DEF Become, Ended, Stable
<1> QED
  BY <1>1, <1>3 DEF Arm

\* The handler of the timer gives the lock back, and the web server has not
\* stored in between.
LEMMA LeavesLock ==
  ASSUME CfgInv, timerTask = "config", Leaves
  PROVE  LockInv' /\ web' = web /\ web.at # "store" /\ cfgLock' = "none" /\ timerTask' = "idle"
BY DEF CfgInv, LockInv, Leaves

\* A handler that ends the attempt, or finds none
LEMMA LeavesInOK ==
  ASSUME CfgInv, timerTask = "config", NEW s \in Stable, LeavesIn(s),
         driver' \in Drivers, bits' \in Bits
  PROVE  CfgInv'
<1>1. cfgState' = Ended(s)
  <2>1. [cfgState EXCEPT !.state = s].state = s
    BY DEF CfgInv, CfgTypeInv, CfgStates
  <2> QED
    BY <2>1 DEF LeavesIn, Become, Ended
<1>2. cfgState' \in CfgStates /\ State' \in Stable
  BY <1>1, EndedOK DEF State
<1>3. Leaves
  BY DEF LeavesIn
<1>4. LockInv' /\ web' = web /\ web.at # "store" /\ cfgLock' = "none" /\ timerTask' = "idle"
  BY <1>3, LeavesLock
<1>5. CfgTypeInv'
  BY <1>2, <1>4 DEF CfgInv, CfgTypeInv
<1> QED
  BY <1>2, <1>4, <1>5, Settles DEF CfgInv, WholeInv

\* A handler that goes on to another state of the attempt, with the same saved
\* configuration
LEMMA LeavesForOK ==
  ASSUME CfgInv, timerTask = "config", State \notin Stable,
         NEW next \in {"wps_active", "update", "connecting", "fallback"},
         NEW c \in CfgStates, LeavesFor(next, c),
         c.saved = cfgState.saved, c.before = cfgState.before,
         next \in {"update", "connecting"} => c.new \in Configs,
         Restores(cfgState.saved, cfgState.before),
         next # "update" => driver'.mode # "NULL",
         driver' \in Drivers, bits' \in Bits
  PROVE  CfgInv'
<1> DEFINE goes == [c EXCEPT !.state = next]
<1>1. goes \in CfgStates /\ goes.state = next /\ goes.saved = c.saved
      /\ goes.before = c.before /\ goes.new = c.new
  BY DEF CfgStates, States
<1>2. Arm(goes) /\ Leaves
  BY DEF LeavesFor
<1> HIDE DEF goes
<1>3. cfgState' = goes \/ cfgState' = Ended("failed")
  BY <1>1, <1>2, ArmGoesOn DEF Stable
<1>4. LockInv' /\ web' = web /\ web.at # "store" /\ cfgLock' = "none" /\ timerTask' = "idle"
  BY <1>2, LeavesLock
<1>5. Ended("failed") \in CfgStates /\ Ended("failed").state = "failed"
  BY EndedOK DEF Stable
<1>6. CfgTypeInv'
  BY <1>1, <1>3, <1>4, <1>5 DEF CfgInv, CfgTypeInv
<1>7. CASE cfgState' = Ended("failed")
  BY <1>4, <1>5, <1>6, <1>7, Settles DEF CfgInv, WholeInv, Stable, State
<1>8. CASE cfgState' = goes
  <2>1. WholeInv'
    BY <1>1, <1>4, <1>8 DEF CfgInv, WholeInv, State
  <2>2. RestoreInv'
    BY <1>1, <1>4, <1>8 DEF RestoreInv, State, Ventures
  <2> QED
    BY <1>4, <1>6, <2>1, <2>2 DEF CfgInv
<1> QED
  BY <1>3, <1>7, <1>8

-----------------------------------------------------------------------------
(* The steps of the configuration *)

\* What a handler of the timer finds
LEMMA Handled ==
  ASSUME CfgInv, timerTask = "config"
  PROVE  /\ driver \in Drivers /\ bits \in Bits /\ cfgState \in CfgStates
         /\ State \notin Stable => cfgState.saved \in Configs
         /\ State \in {"update", "connecting"} => cfgState.new \in Configs
         /\ State \in {"wps_active", "connecting", "fallback"} => driver.mode # "NULL"
         /\ State \in {"wps_start", "wps_active", "connecting", "fallback"} \/ Ventures(cfgState) =>
              Restores(cfgState.saved, cfgState.before)
BY DEF CfgInv, CfgTypeInv, LockInv, WholeInv, RestoreInv

LEMMA WpsStartOK == ASSUME CfgInv, WpsStart PROVE CfgInv'
<1> DEFINE new == [GetWifiCfg EXCEPT !.sta = "", !.mode = "APSTA", !.connect = FALSE]
           c == [cfgState EXCEPT !.new = new, !.age = 0]
<1>1. timerTask = "config" /\ State = "wps_start" /\ LeavesFor("wps_active", c)
      /\ bits' = [bits EXCEPT !.wpsSuccess = FALSE, !.wpsFailed = FALSE]
  BY DEF WpsStart, Handles
<1>2. PICK runs \in BOOLEAN : driver' = [SetWifiCfg(driver, new) EXCEPT !.wps = runs]
  BY DEF WpsStart
<1>3. new \in Configs /\ new.mode = "APSTA"
  BY Current, ConfigAssumption DEF Configs, Modes
<1> HIDE DEF new
<1>4. driver' \in Drivers /\ driver'.mode = "APSTA"
  BY <1>1, <1>2, <1>3, Handled, SetsCfg DEF Drivers
<1>5. bits' \in Bits
  BY <1>1, Handled DEF Bits
<1>6. new \in AnyConfigs /\ 0 \in 0 .. CfgTimeout
  <2>1. CfgTimeout \in Nat
    BY ConfigAssumption
  <2>2. new \in AnyConfigs
    BY <1>3 DEF Configs, AnyConfigs
  <2> QED
    BY <2>1, <2>2
<1>7. c \in CfgStates /\ c.saved = cfgState.saved /\ c.before = cfgState.before
  BY <1>1, <1>6, Handled DEF CfgStates
<1> HIDE DEF c
<1> QED
  BY <1>1, <1>4, <1>5, <1>7, Handled, LeavesForOK DEF Stable

LEMMA WpsActiveOK == ASSUME CfgInv, WpsActive PROVE CfgInv'
<1> DEFINE new == [GetWifiCfg EXCEPT !.mode = "APSTA", !.connect = TRUE]
           c == [cfgState EXCEPT !.new = new]
<1>1. timerTask = "config" /\ State = "wps_active" /\ bits' = bits
      /\ driver' = [driver EXCEPT !.wps = @ /\ ~bits.wpsSuccess /\ ~TimedOut /\ ~bits.wpsFailed]
  BY DEF WpsActive, Handles
<1>2. driver' \in Drivers
  BY <1>1, Handled, Zenon DEF Drivers
<1>3. driver'.mode = driver.mode
  BY <1>1, Handled DEF Drivers
<1>4. new \in Configs
  BY Current DEF Configs, Modes
<1>5. c \in CfgStates /\ c.saved = cfgState.saved /\ c.before = cfgState.before /\ c.new = new
  BY <1>1, <1>4, Handled DEF CfgStates, Configs, AnyConfigs
<1>6. ~TimedOut => Waited \in CfgStates
                   /\ Waited.saved = cfgState.saved /\ Waited.before = cfgState.before
  <2>1. CfgTimeout \in Nat
    BY ConfigAssumption
  <2> QED
    BY <1>1, <2>1, Handled DEF Waited, TimedOut, CfgStates
<1>7. \/ LeavesFor("update", c) \/ LeavesFor("fallback", cfgState)
      \/ ~TimedOut /\ LeavesFor("wps_active", Waited)
  BY DEF WpsActive
<1> HIDE DEF new, c
<1>8. State \notin Stable /\ driver'.mode # "NULL" /\ bits' \in Bits
      /\ Restores(cfgState.saved, cfgState.before) /\ cfgState \in CfgStates
  BY <1>1, <1>3, Handled DEF Stable
<1>9. CASE LeavesFor("update", c)
  BY <1>1, <1>2, <1>4, <1>5, <1>8, <1>9, LeavesForOK
<1>10. CASE LeavesFor("fallback", cfgState)
  BY <1>1, <1>2, <1>8, <1>10, LeavesForOK
<1>11. CASE ~TimedOut /\ LeavesFor("wps_active", Waited)
  BY <1>1, <1>2, <1>6, <1>8, <1>11, LeavesForOK
<1> QED
  BY <1>7, <1>9, <1>10, <1>11

LEMMA UpdateOK == ASSUME CfgInv, Update PROVE CfgInv'
<1> DEFINE new == cfgState.new
           c == [cfgState EXCEPT !.age = 0]
<1>1. timerTask = "config" /\ State = "update" /\ bits' = bits
      /\ driver' = SetWifiCfg(Disconnect(ScanStop(driver)), new)
      /\ \/ LeavesIn("idle")
         \/ new.mode \notin {"AP", "NULL"} /\ new.connect /\ LeavesFor("connecting", c)
  BY DEF Update, Handles
<1>2. new \in Configs /\ bits \in Bits /\ cfgState \in CfgStates
  BY <1>1, Handled
<1>3. driver' \in Drivers /\ driver'.mode = new.mode
  BY <1>1, <1>2, Handled, DriverCalls, SetsCfg
<1>4. c \in CfgStates /\ c.saved = cfgState.saved /\ c.before = cfgState.before /\ c.new = new
  <2>1. 0 \in 0 .. CfgTimeout
    <3>1. CfgTimeout \in Nat
      BY ConfigAssumption
    <3> QED
      BY <3>1
  <2> QED
    BY <1>2, <2>1 DEF CfgStates
<1> HIDE DEF c
<1>5. CASE LeavesIn("idle")
  BY <1>1, <1>2, <1>3, <1>5, LeavesInOK DEF Stable
<1>6. CASE new.mode \notin {"AP", "NULL"} /\ new.connect /\ LeavesFor("connecting", c)
  <2>1. Ventures(cfgState)
    BY <1>1, <1>6 DEF Ventures, State
  <2>2. Restores(cfgState.saved, cfgState.before) /\ State \notin Stable
    BY <1>1, <2>1, Handled DEF Stable
  <2> QED
    BY <1>1, <1>2, <1>3, <1>4, <1>6, <2>2, LeavesForOK
<1> QED
  BY <1>1, <1>5, <1>6

LEMMA ConnectingOK == ASSUME CfgInv, Connecting PROVE CfgInv'
<1>1. timerTask = "config" /\ State = "connecting" /\ bits' = bits /\ driver' = driver
      /\ \/ LeavesIn("connected") \/ LeavesFor("fallback", cfgState)
         \/ ~TimedOut /\ LeavesFor("connecting", Waited)
  BY DEF Connecting, Handles
<1>2. /\ State \notin Stable /\ driver'.mode # "NULL" /\ bits' \in Bits /\ driver' \in Drivers
      /\ Restores(cfgState.saved, cfgState.before) /\ cfgState \in CfgStates
      /\ cfgState.new \in Configs
  BY <1>1, Handled DEF Stable
<1>3. ~TimedOut => Waited \in CfgStates /\ Waited.new = cfgState.new
                   /\ Waited.saved = cfgState.saved /\ Waited.before = cfgState.before
  <2>1. CfgTimeout \in Nat
    BY ConfigAssumption
  <2> QED
    BY <1>2, <2>1 DEF Waited, TimedOut, CfgStates
<1>4. CASE LeavesIn("connected")
  BY <1>1, <1>2, <1>4, LeavesInOK DEF Stable
<1>5. CASE LeavesFor("fallback", cfgState)
  BY <1>1, <1>2, <1>5, LeavesForOK
<1>6. CASE ~TimedOut /\ LeavesFor("connecting", Waited)
  BY <1>1, <1>2, <1>3, <1>6, LeavesForOK
<1> QED
  BY <1>1, <1>4, <1>5, <1>6

LEMMA FallbackOK == ASSUME CfgInv, Fallback PROVE CfgInv'
<1>1. timerTask = "config" /\ State = "fallback" /\ bits' = bits /\ LeavesIn("failed")
      /\ driver' = SetWifiCfg(Disconnect(driver), cfgState.saved)
  BY DEF Fallback, Handles
<1>2. driver' \in Drivers /\ bits' \in Bits
  BY <1>1, Handled, DriverCalls, SetsCfg DEF Stable
<1> QED
  BY <1>1, <1>2, LeavesInOK DEF Stable

LEMMA NothingToDoOK == ASSUME CfgInv, NothingToDo PROVE CfgInv'
BY Handled, LeavesInOK DEF NothingToDo

\* What a step may leave behind in the web server, when it is not storing
LEMMA ReplyOK ==
  ASSUME CfgInv, Replies, UNCHANGED <<driver, cfgVars, timerTask>>, web.at # "store",
         web.at \notin {"scan", "timer"}
  PROVE  CfgInv'
<1>1. web' \in Webs /\ web'.at = "idle"
  BY IdleOK DEF Replies
<1>2. LockInv'
  BY <1>1 DEF CfgInv, LockInv, cfgVars
<1> QED
  BY <1>1, <1>2, Aside DEF CfgInv, CfgTypeInv, cfgVars

LEMMA RequestComesOK ==
  ASSUME CfgInv, NEW r \in Requests, RequestComes(r) PROVE CfgInv'
<1> DEFINE cfg == [GetWifiCfg EXCEPT !.mode = "NULL"]
<1>1. cfg \in Configs /\ cfg \in AnyConfigs
  BY Current DEF Configs, AnyConfigs, Modes
<1>2. web' = [Idle EXCEPT !.at = "mode", !.request = r, !.cfg = cfg] /\ web.at = "idle"
      /\ UNCHANGED <<driver, bits, cfgState, cfgLock, timerTask>>
  BY DEF RequestComes, cfgVars
<1> HIDE DEF cfg
<1>3. web' \in Webs /\ web'.at = "mode" /\ web'.cfg = cfg /\ web'.request = r
  BY <1>1, <1>2, IdleOK DEF Webs, Places
<1>4. CfgTypeInv' /\ LockInv'
  BY <1>2, <1>3 DEF CfgInv, CfgTypeInv, LockInv
<1>5. WholeInv' /\ RestoreInv'
  BY <1>1, <1>2, <1>3 DEF CfgInv, WholeInv, RestoreInv, State
<1> QED
  BY <1>4, <1>5 DEF CfgInv

LEMMA RequestAppliedOK ==
  ASSUME CfgInv, RequestApplied PROVE CfgInv'
<1> DEFINE r == web.request
           cfg == [web.cfg EXCEPT !.mode = driver.mode]
           wants == CASE r.kind = "connect" -> [cfg EXCEPT !.sta = r.sta, !.connect = TRUE]
                      [] r.kind = "mode"    -> [cfg EXCEPT !.mode = r.mode]
                      [] r.kind = "ap"      -> [cfg EXCEPT !.ap = r.ap]
<1>1. web.at = "mode" /\ UNCHANGED <<driver, cfgVars, timerTask>>
      /\ (Replies \/ web' = [web EXCEPT !.at = "update", !.cfg = wants])
  BY DEF RequestApplied
<1>2. CASE Replies
  BY <1>1, <1>2, ReplyOK
<1>3. CASE web' = [web EXCEPT !.at = "update", !.cfg = wants]
  <2>1. web \in Webs /\ web.cfg \in Configs /\ driver.mode \in Modes /\ r \in Requests
    BY <1>1 DEF CfgInv, CfgTypeInv, WholeInv, Drivers
  <2>2. cfg \in Configs
    BY <2>1 DEF Configs
  <2> HIDE DEF cfg, r
  <2>3. wants \in Configs
    <3>1. CASE r.kind = "connect" /\ r.sta \in Networks
      BY <2>2, <3>1 DEF Configs
    <3>2. CASE r.kind = "mode" /\ r.mode \in Modes
      BY <2>2, <3>2 DEF Configs
    <3>3. CASE r.kind = "ap" /\ r.ap \in ApConfigs
      BY <2>2, <3>3 DEF Configs
    <3> QED
      BY <2>1, <3>1, <3>2, <3>3, ConfigAssumption
  <2> HIDE DEF wants
  <2>4. wants \in AnyConfigs
    BY <2>3 DEF Configs, AnyConfigs
  <2>5. web' \in Webs /\ web'.at = "update" /\ web'.cfg = wants
    BY <1>3, <2>1, <2>4 DEF Webs, Places
  <2>6. CfgTypeInv' /\ LockInv'
    BY <1>1, <2>5 DEF CfgInv, CfgTypeInv, LockInv, cfgVars
  <2>7. WholeInv' /\ RestoreInv'
    BY <1>1, <2>3, <2>5 DEF CfgInv, WholeInv, RestoreInv, State, cfgVars
  <2> QED
    BY <2>6, <2>7 DEF CfgInv
<1> QED
  BY <1>1, <1>2, <1>3

LEMMA UpdateTakesOK ==
  ASSUME CfgInv, UpdateTakes PROVE CfgInv'
<1> DEFINE cfg == [GetWifiCfg EXCEPT !.sta = IF bits.connected THEN @ ELSE ""]
<1>1. CASE Replies /\ UNCHANGED cfgVars
  BY <1>1, ReplyOK DEF UpdateTakes
<1>2. CASE /\ cfgLock = "none" /\ ~Refused(web.cfg)
           /\ cfgLock' = "web" /\ cfgState' = Saved(cfg) /\ web' = [web EXCEPT !.at = "store"]
           /\ UNCHANGED <<bits, cfgTimer, gaveUp>>
  <2>1. web.at = "update" /\ UNCHANGED <<driver, timerTask>> /\ web \in Webs
        /\ cfgState \in CfgStates /\ web.cfg \in Configs
    BY DEF UpdateTakes, CfgInv, CfgTypeInv, WholeInv
  <2>2. cfg \in Configs /\ cfg.mode = driver.mode
    BY Current, ConfigAssumption DEF Configs
  <2>3. Restores(cfg, GetWifiCfg)
    BY Current DEF Restores, GetWifiCfg
  <2> HIDE DEF cfg
  <2>4. web' \in Webs /\ web'.at = "store" /\ web'.cfg = web.cfg
    BY <1>2, <2>1 DEF Webs, Places
  <2>5. cfg \in AnyConfigs /\ GetWifiCfg \in AnyConfigs
    BY <2>2, Current DEF Configs, AnyConfigs
  <2>6. cfgState' \in CfgStates /\ State' = State /\ cfgState'.saved = cfg
        /\ cfgState'.new = cfgState.new
        /\ cfgState'.before = IF State \in Stable THEN GetWifiCfg ELSE cfgState.before
    BY <1>2, <2>1, <2>5 DEF CfgStates, Saved, State
  <2>7. CfgTypeInv' /\ LockInv'
    BY <1>2, <2>1, <2>4, <2>6 DEF CfgInv, CfgTypeInv, LockInv
  <2>8. WholeInv'
    BY <2>1, <2>2, <2>4, <2>6 DEF CfgInv, WholeInv
  <2>9. RestoreInv'
    <3>1. State \notin Stable => web.cfg.mode = "NULL"
      BY <1>2 DEF Refused
    <3> QED
      BY <2>1, <2>2, <2>3, <2>4, <2>6, <3>1, Current DEF CfgInv, RestoreInv, Stable
  <2> QED
    BY <2>7, <2>8, <2>9 DEF CfgInv
<1> QED
  BY <1>1, <1>2 DEF UpdateTakes, At

LEMMA UpdateStoresOK ==
  ASSUME CfgInv, UpdateStores PROVE CfgInv'
<1> DEFINE stored == [cfgState EXCEPT !.new = web.cfg]
           starts == [stored EXCEPT !.state = "update"]
<1>1. web.at = "store" /\ cfgLock' = "none" /\ UNCHANGED <<driver, bits, timerTask>>
      /\ web' = Idle /\ cfgState \in CfgStates
      /\ web.cfg \in Configs /\ cfgState.saved \in Configs
  BY DEF UpdateStores, Replies, CfgInv, CfgTypeInv, WholeInv
<1>2. web' \in Webs /\ web'.at = "idle"
  BY <1>1, IdleOK
<1>3. LockInv'
  BY <1>1, <1>2 DEF CfgInv, LockInv
<1>4. web.cfg \in AnyConfigs
  BY <1>1 DEF Configs, AnyConfigs
<1>5. /\ stored \in CfgStates /\ stored.state = State /\ stored.new = web.cfg
      /\ stored.saved = cfgState.saved /\ stored.before = cfgState.before
      /\ starts \in CfgStates /\ starts.state = "update" /\ starts.new = web.cfg
      /\ starts.saved = cfgState.saved /\ starts.before = cfgState.before
  BY <1>1, <1>4 DEF CfgStates, State, States
<1>6. ASSUME NEW s \in Stable, cfgState' = Ended(s) PROVE CfgInv'
  <2>1. cfgState' \in CfgStates /\ State' \in Stable
    BY <1>6, EndedOK DEF State
  <2>2. CfgTypeInv'
    BY <1>1, <1>2, <2>1 DEF CfgInv, CfgTypeInv
  <2> QED
    BY <1>2, <1>3, <2>1, <2>2, Settles
<1>7. CASE Arm(starts)
  <2>1. cfgState' = starts \/ cfgState' = Ended("failed")
    BY <1>5, <1>7, ArmGoesOn DEF Stable
  <2>2. CASE cfgState' = starts
    <3> HIDE DEF stored, starts
    <3>1. CfgTypeInv'
      BY <1>1, <1>2, <1>5, <2>2 DEF CfgInv, CfgTypeInv
    <3>2. WholeInv'
      BY <1>1, <1>2, <1>5, <2>2 DEF WholeInv, State
    <3>3. web.cfg.mode # "NULL" => Restores(cfgState.saved, cfgState.before)
      BY <1>1 DEF CfgInv, RestoreInv
    <3>4. RestoreInv'
      BY <1>2, <1>5, <2>2, <3>3 DEF RestoreInv, Ventures, State, Stable
    <3> QED
      BY <1>3, <3>1, <3>2, <3>4 DEF CfgInv
  <2> QED
    BY <1>6, <2>1, <2>2 DEF Stable
<1>8. CASE Become(stored) /\ ~Differs(web.cfg, cfgState.saved)
  <2>1. CASE State \in Stable
    <3>1. cfgState' = Ended(State)
      BY <1>5, <1>8, <2>1 DEF Become, Ended
    <3> QED
      BY <1>6, <2>1, <3>1
  <2>2. CASE State \notin Stable
    <3>1. cfgState' = stored
      BY <1>5, <1>8, <2>2 DEF Become
    <3>2. web.cfg.mode = "NULL" /\ cfgState.saved.mode = "NULL" /\ driver.mode = "NULL"
      BY <1>1, <1>8, <2>2 DEF CfgInv, RestoreInv, Differs
    <3>3. State \in {"wps_start", "update"}
      BY <1>1, <2>2, <3>2 DEF CfgInv, RestoreInv, CfgStates, States, Stable, State
    <3>4. State = "wps_start" => cfgState.before.mode = "NULL"
      BY <3>2 DEF CfgInv, RestoreInv
    <3> HIDE DEF stored, starts
    <3>5. CfgTypeInv'
      BY <1>1, <1>2, <1>5, <3>1 DEF CfgInv, CfgTypeInv
    <3>6. WholeInv'
      BY <1>1, <1>2, <1>5, <3>1 DEF WholeInv, State
    <3>7. RestoreInv'
      BY <1>1, <1>2, <1>5, <3>1, <3>2, <3>3, <3>4
         DEF RestoreInv, Ventures, State, Restores, HasAp, HasStation
    <3> QED
      BY <1>3, <3>5, <3>6, <3>7 DEF CfgInv
  <2> QED
    BY <2>1, <2>2
<1> QED
  BY <1>7, <1>8 DEF UpdateStores

LEMMA StartWpsOK ==
  ASSUME CfgInv, StartWps PROVE CfgInv'
<1> DEFINE c == [Saved(GetWifiCfg) EXCEPT !.state = "wps_start"]
<1>1. web.at = "idle" /\ State \in Stable /\ Arm(c)
      /\ UNCHANGED <<driver, bits, cfgLock, web, timerTask>> /\ cfgState \in CfgStates
  BY DEF StartWps, CfgInv, CfgTypeInv
<1>2. GetWifiCfg \in AnyConfigs /\ GetWifiCfg \in Configs
  BY Current DEF Configs, AnyConfigs
<1>3. c \in CfgStates /\ c.state = "wps_start" /\ c.saved = GetWifiCfg /\ c.before = GetWifiCfg
  BY <1>1, <1>2 DEF CfgStates, Saved, States
<1> HIDE DEF c
<1>4. cfgState' = c \/ cfgState' = Ended("failed")
  BY <1>1, <1>3, ArmGoesOn DEF Stable
<1>5. Ended("failed") \in CfgStates /\ Ended("failed").state = "failed"
  BY EndedOK DEF Stable
<1>6. CfgTypeInv' /\ LockInv'
  BY <1>1, <1>3, <1>4, <1>5 DEF CfgInv, CfgTypeInv, LockInv
<1>7. WholeInv'
  BY <1>1, <1>2, <1>3, <1>4, <1>5 DEF WholeInv, State, Stable
<1>8. RestoreInv'
  BY <1>1, <1>3, <1>4, <1>5, Current DEF RestoreInv, State, Stable, Ventures, Restores
<1> QED
  BY <1>6, <1>7, <1>8 DEF CfgInv

LEMMA ConfigTimerOK ==
  ASSUME CfgInv, ConfigTimer PROVE CfgInv'
<1>1. UNCHANGED <<driver, bits, cfgState, web>>
      /\ cfgLock' \in {"none", "web", "timer"} /\ timerTask' \in {"idle", "config"} /\ LockInv'
  BY DEF ConfigTimer, CfgInv, CfgTypeInv, LockInv
<1> QED
  BY <1>1, Aside DEF CfgInv, CfgTypeInv

-----------------------------------------------------------------------------
(* The other steps of the manager leave the attempt alone. *)

\* The driver and its events
LEMMA DriverOK ==
  ASSUME CfgInv,
         \/ (Joins \/ LosesLink \/ WpsEnds \/ ScanEndsItself)
            /\ UNCHANGED <<bits, cfgState, cfgLock, timerTask, web>>
         \/ StateEvent /\ UNCHANGED <<cfgState, cfgLock, timerTask, web>>
         \/ ScanDone
  PROVE  CfgInv'
<1>1. UNCHANGED <<cfgState, cfgLock, timerTask, web>> /\ driver \in Drivers /\ bits \in Bits
  BY DEF ScanDone, cfgVars, taskVars, CfgInv, CfgTypeInv
<1>2. ASSUME NEW d \in Drivers, d.mode = driver.mode, NEW e \in Events, Reports(d, e)
      PROVE  driver' \in Drivers /\ driver'.mode = driver.mode
  BY <1>2, DriverCalls DEF Reports
<1>3. ASSUME driver' = [driver EXCEPT !.events = Tail(@)], driver.events # <<>>
      PROVE  driver' \in Drivers /\ driver'.mode = driver.mode
  <2>1. Tail(driver.events) \in Seq(Events)
    BY <1>1, <1>3 DEF Drivers
  <2> QED
    BY <1>1, <1>3, <2>1 DEF Drivers
<1>4. driver' \in Drivers /\ driver'.mode = driver.mode
  <2>1. CASE Joins
    <3>1. [driver EXCEPT !.link = "up"] \in Drivers /\ [driver EXCEPT !.link = "up"].mode = driver.mode
      BY <1>1 DEF Drivers
    <3> QED
      BY <1>2, <2>1, <3>1 DEF Joins, Events
  <2>2. CASE LosesLink
    <3>1. [driver EXCEPT !.link = "down"] \in Drivers /\ [driver EXCEPT !.link = "down"].mode = driver.mode
      BY <1>1 DEF Drivers
    <3> QED
      BY <1>2, <2>2, <3>1 DEF LosesLink, Events
  <2>3. CASE WpsEnds
    <3> DEFINE got == [driver EXCEPT !.wps = FALSE, !.sta = WpsNetwork]
               not == [driver EXCEPT !.wps = FALSE]
    <3>1. got \in Drivers /\ got.mode = driver.mode /\ not \in Drivers /\ not.mode = driver.mode
      BY <1>1, ConfigAssumption DEF Drivers
    <3>2. Reports(got, "wps success") \/ Reports(not, "wps failed")
      BY <2>3 DEF WpsEnds
    <3> HIDE DEF got, not
    <3> QED
      BY <1>2, <3>1, <3>2 DEF Events
  <2>4. CASE ScanEndsItself
    <3>1. [driver EXCEPT !.scanning = FALSE] \in Drivers
          /\ [driver EXCEPT !.scanning = FALSE].mode = driver.mode
      BY <1>1 DEF Drivers
    <3> QED
      BY <1>2, <2>4, <3>1 DEF ScanEndsItself, Events
  <2> QED
    BY <1>3, <2>1, <2>2, <2>3, <2>4 DEF StateEvent, ScanDone
<1>5. bits' \in Bits
  <2>1. CASE StateEvent
    <3>1. Head(driver.events) \in {"got ip", "disconnected", "wps success", "wps failed"}
      <4>1. driver.events \in Seq(Events) /\ driver.events # <<>>
        BY <1>1, <2>1 DEF StateEvent, Drivers
      <4>2. Head(driver.events) \in Events
        BY <4>1
      <4> QED
        BY <2>1, <4>2 DEF StateEvent, Events
    <3> QED
      BY <1>1, <2>1, <3>1 DEF StateEvent, Bits
  <2> QED
    BY <1>1, <2>1 DEF ScanDone, cfgVars
<1> QED
  BY <1>1, <1>4, <1>5, Aside DEF CfgInv, CfgTypeInv, LockInv

\* The pages of the scans in the web server, and its timer
LEMMA PagesOK ==
  ASSUME CfgInv, lastScan \in Data \cup {0},
         \/ \E c \in Conns : ScanPage(c) \/ SendRecord(c) \/ PageCloses(c)
         \/ GetData \/ PageEnds \/ StartScan \/ ScanStarts \/ TimerStarts
         \/ ScanTimer \/ StopScan \/ ClearFlag
  PROVE  CfgInv'
<1>1. /\ driver \in Drivers /\ bits \in Bits /\ web \in Webs /\ LockInv
      /\ cfgLock \in {"none", "web", "timer"}
      /\ timerTask \in {"idle", "config", "stop scan", "clear flag"}
  BY DEF CfgInv, CfgTypeInv
<1>2. UNCHANGED <<bits, cfgState>>
  BY DEF ScanPage, SendRecord, PageCloses, GetData, PageEnds, StartScan, ScanStarts,
         TimerStarts, ScanTimer, StopScan, ClearFlag, cfgVars
<1>3. driver' \in Drivers /\ driver'.mode = driver.mode
  <2>1. CASE driver' = ScanStop(driver)
    BY <1>1, <2>1, DriverCalls
  <2>2. CASE driver' = [ScanStop(driver) EXCEPT !.scanning = TRUE]
    <3>1. ScanStop(driver) \in Drivers /\ ScanStop(driver).mode = driver.mode
      BY <1>1, DriverCalls
    <3> QED
      BY <2>2, <3>1 DEF Drivers
  <2> QED
    BY <1>1, <2>1, <2>2 DEF ScanPage, SendRecord, PageCloses, GetData, PageEnds, StartScan,
         ScanStarts, TimerStarts, ScanTimer, StopScan, ClearFlag
<1>4. ASSUME NEW c \in Conns
      PROVE  /\ [Idle EXCEPT !.at = "start", !.conn = c] \in Webs
             /\ [Idle EXCEPT !.at = "start", !.conn = c].at = "start"
             /\ [Idle EXCEPT !.at = "get", !.conn = c, !.data = lastScan] \in Webs
             /\ [Idle EXCEPT !.at = "get", !.conn = c, !.data = lastScan].at = "get"
  BY IdleOK DEF Webs, Places
<1>5. ASSUME NEW place \in Places
      PROVE  [web EXCEPT !.at = place] \in Webs /\ [web EXCEPT !.at = place].at = place
  BY <1>1 DEF Webs
<1>6. CASE \E c \in Conns : ScanPage(c) \/ SendRecord(c) \/ PageCloses(c)
  <2>1. web.at \in {"idle", "send"} /\ UNCHANGED <<cfgLock, timerTask>>
    BY <1>6 DEF ScanPage, SendRecord, PageCloses, cfgVars
  <2>2. web' \in Webs /\ web'.at \in {"idle", "start", "get"}
    <3>1. PICK c \in Conns : ScanPage(c) \/ SendRecord(c) \/ PageCloses(c)
      BY <1>6
    <3>2. \/ web' = Idle \/ web' = [Idle EXCEPT !.at = "start", !.conn = c]
          \/ web' = [Idle EXCEPT !.at = "get", !.conn = c, !.data = lastScan]
      BY <3>1 DEF ScanPage, SendRecord, PageCloses, Drops, Replies
    <3> QED
      BY <1>4, <3>2, IdleOK
  <2>3. LockInv'
    BY <1>1, <2>1, <2>2 DEF LockInv
  <2> QED
    BY <1>1, <1>2, <1>3, <2>1, <2>2, <2>3, Aside
<1>7. CASE GetData \/ PageEnds
  <2>1. web.at \in {"get", "end"} /\ UNCHANGED <<cfgLock, timerTask>>
    BY <1>7 DEF GetData, PageEnds, cfgVars
  <2>2. web' \in Webs /\ web'.at \in {"idle", "send"}
    BY <1>5, <1>7, IdleOK DEF GetData, PageEnds, Drops, Replies, At, Places
  <2>3. LockInv'
    BY <1>1, <2>1, <2>2 DEF LockInv
  <2> QED
    BY <1>1, <1>2, <1>3, <2>1, <2>2, <2>3, Aside
<1>8. CASE StartScan \/ ScanStarts \/ TimerStarts
  <2>1. web.at \in {"start", "scan", "timer"} /\ UNCHANGED timerTask
    BY <1>8 DEF StartScan, ScanStarts, TimerStarts
  <2>2. web' \in Webs /\ web'.at \in {"scan", "timer", "end"}
    BY <1>5, <1>8 DEF StartScan, ScanStarts, TimerStarts, At, Places
  <2>3. LockInv' /\ cfgLock' \in {"none", "web", "timer"}
    <3>1. CASE StartScan
      BY <1>1, <1>5, <3>1 DEF StartScan, At, LockInv, Places
    <3>2. CASE ScanStarts
      BY <1>1, <1>5, <3>2 DEF ScanStarts, At, LockInv, Places
    <3>3. CASE TimerStarts
      BY <1>1, <1>5, <3>3 DEF TimerStarts, At, LockInv, Places
    <3> QED
      BY <1>8, <3>1, <3>2, <3>3
  <2> QED
    BY <1>1, <1>2, <1>3, <2>1, <2>2, <2>3, Aside
<1>9. CASE ScanTimer \/ StopScan \/ ClearFlag
  <2>1. UNCHANGED <<cfgLock, web>>
        /\ timerTask # "config" /\ timerTask' \in {"idle", "stop scan", "clear flag"}
    BY <1>9 DEF ScanTimer, StopScan, ClearFlag, cfgVars
  <2>2. LockInv'
    BY <1>1, <2>1 DEF LockInv
  <2> QED
    BY <1>1, <1>2, <1>3, <2>1, <2>2, Aside
<1> QED
  BY <1>6, <1>7, <1>8, <1>9

LEMMA CfgUnchanged ==
  ASSUME CfgInv, UNCHANGED <<driver, bits, cfgState, cfgLock, timerTask, web>>
  PROVE  CfgInv'
BY Aside DEF CfgInv, CfgTypeInv, LockInv

LEMMA CfgStep ==
  ASSUME CfgInv, lastScan \in Data \cup {0}, [Next]_vars PROVE CfgInv'
<1>1. CASE ConfigTask
  BY <1>1, ConfigTimerOK, WpsStartOK, WpsActiveOK, UpdateOK, ConnectingOK, FallbackOK,
     NothingToDoOK DEF ConfigTask, ConfigHandler
<1>2. CASE ScanTimerTask
  BY <1>2, PagesOK DEF ScanTimerTask
<1>3. CASE EventLoop
  <2>1. CASE StateEvent /\ UNCHANGED <<cfgState, cfgLock, timerTask, web>>
    BY <2>1, DriverOK
  <2>2. CASE Publish \/ PutNew \/ ScanOver \/ TimerStops
    BY <2>2, CfgUnchanged DEF Publish, PutNew, ScanOver, TimerStops, cfgVars, taskVars
  <2> QED
    BY <1>3, <2>1, <2>2, DriverOK DEF EventLoop, taskVars
<1>4. CASE WebGoesOn
  BY <1>4, RequestAppliedOK, UpdateTakesOK, UpdateStoresOK, PagesOK DEF WebGoesOn
<1>5. CASE Clients
  BY <1>5, StartWpsOK, RequestComesOK, PagesOK DEF Clients
<1>6. CASE Driver \/ ScanCompletes
  BY <1>6, DriverOK DEF Driver, ScanCompletes, cfgVars, taskVars
<1>7. CASE UNCHANGED vars
  BY <1>7, CfgUnchanged DEF vars, cfgVars, taskVars
<1> QED
  BY <1>1, <1>2, <1>3, <1>4, <1>5, <1>6, <1>7 DEF Next

LEMMA CfgInitOK == Init => CfgInv
<1> SUFFICES ASSUME Init PROVE CfgInv
  OBVIOUS
<1>1. PICK sta \in Networks \ {WpsNetwork} :
       /\ driver = [mode |-> "APSTA", sta |-> sta, ap |-> CHOOSE a \in ApConfigs : TRUE,
                    link |-> IF sta = "" THEN "down" ELSE "up",
                    scanning |-> FALSE, wps |-> FALSE, events |-> <<>>]
       /\ bits = [connected |-> sta # "", wpsSuccess |-> FALSE, wpsFailed |-> FALSE]
  BY DEF Init, CfgInit
<1>2. (CHOOSE a \in ApConfigs : TRUE) \in ApConfigs
  BY ConfigAssumption
<1>3. driver \in Drivers
  <2>1. <<>> \in Seq(Events)
    OBVIOUS
  <2> QED
    BY <1>1, <1>2, <2>1 DEF Drivers, Modes
<1>4. bits \in Bits
  BY <1>1, Zenon DEF Bits
<1>5. cfgState \in CfgStates /\ State = "idle"
  BY EndedOK DEF Init, CfgInit, NoAttempt, State, Stable
<1>6. web \in Webs /\ web.at = "idle" /\ cfgLock = "none" /\ timerTask = "idle"
  BY IdleOK DEF Init, CfgInit
<1>7. CfgTypeInv /\ LockInv
  BY <1>3, <1>4, <1>5, <1>6 DEF CfgTypeInv, LockInv
<1>8. WholeInv /\ RestoreInv
  BY <1>5, <1>6 DEF WholeInv, RestoreInv, Stable, Ventures, State
<1> QED
  BY <1>7, <1>8 DEF CfgInv

-----------------------------------------------------------------------------
(* Counting the holders *)

\* There are no more holders than connections.
LEMMA HoldersBound ==
  ASSUME NEW it, NEW d
  PROVE  /\ IsFiniteSet(Holders(it, d)) /\ Cardinality(Holders(it, d)) \in Nat
         /\ Cardinality(Conns) \in Nat /\ Cardinality(Holders(it, d)) <= Cardinality(Conns)
<1>1. Holders(it, d) \in SUBSET Conns
  BY DEF Holders
<1>2. IsFiniteSet(Conns)
  BY ManagerAssumption
<1> QED
  BY <1>1, <1>2, FS_Subset, FS_CardinalityType

\* Who holds the same results as before is not counted anew.
LEMMA HoldersSame ==
  ASSUME NEW it, NEW it2, NEW d, \A c \in Conns : it2[c].data = d <=> it[c].data = d
  PROVE  Holders(it2, d) = Holders(it, d)
BY DEF Holders

\* One more connection that holds
LEMMA HoldersGain ==
  ASSUME NEW it, NEW it2, NEW d, NEW c \in Conns, it[c].data # d, it2[c].data = d,
         \A e \in Conns : e # c => it2[e].data = it[e].data
  PROVE  Cardinality(Holders(it2, d)) = Cardinality(Holders(it, d)) + 1
<1>1. Holders(it2, d) = Holders(it, d) \cup {c} /\ c \notin Holders(it, d)
  BY DEF Holders
<1>2. IsFiniteSet(Holders(it, d))
  BY HoldersBound
<1> HIDE DEF Holders
<1> QED
  BY ONLY <1>1, <1>2, FS_AddElement

\* What the pointer and the event loop add to the connections
LEMMA OneOK ==
  ASSUME NEW x, NEW y PROVE One(x, y) \in {0, 1} /\ (One(x, y) = 0 <=> x # y)
BY DEF One

\* Results without a reference are held by nobody.
LEMMA NoHolder ==
  ASSUME ScanInv, NEW d \in Data, refs[d] = 0
  PROVE  lastScan # d /\ eventTask.data # d /\ \A c \in Conns : iter[c].data # d
<1>1. Cardinality(Holders(iter, d)) = 0 /\ One(lastScan, d) = 0 /\ One(eventTask.data, d) = 0
  BY HoldersBound, OneOK DEF ScanInv, CountInv
<1>2. Holders(iter, d) = {}
  BY <1>1, HoldersBound, FS_EmptySet
<1> QED
  BY <1>1, <1>2, OneOK DEF Holders

\* Results that somebody holds have a reference.
LEMMA Held ==
  ASSUME ScanInv, NEW d \in Data,
         lastScan = d \/ eventTask.data = d \/ \E c \in Conns : iter[c].data = d
  PROVE  refs[d] > 0
BY NoHolder DEF ScanInv, ScanTypeInv

-----------------------------------------------------------------------------
(* The steps of the scans *)

\* Neither references nor results are touched, and the web server is on its way
\* through a request that changes the configuration, or starts a scan.
LEMMA ScanAside ==
  ASSUME ScanInv, UNCHANGED <<refs, records, iter, dataLock, lastScan, eventTask>>,
         \/ web' = web
         \/ web.at \in {"idle", "mode", "update", "store"}
            /\ web'.at \in {"idle", "mode", "update", "store"}
         \/ web.at \in {"start", "scan", "timer", "end"}
            /\ web'.at \in {"start", "scan", "timer", "end"} /\ web'.conn = web.conn
  PROVE  ScanInv'
<1>1. ScanTypeInv' /\ EventInv' /\ CountInv'
  BY DEF ScanInv, ScanTypeInv, EventInv, CountInv
<1>2. GetInv' /\ RecordsInv'
  BY DEF ScanInv, GetInv, RecordsInv, Sending
<1> QED
  BY <1>1, <1>2 DEF ScanInv

LEMMA ScanPageOK ==
  ASSUME ScanInv, NEW c \in Conns, ScanPage(c) PROVE ScanInv'
<1>1. web.at = "idle" /\ iter[c].data = 0
      /\ UNCHANGED <<refs, records, iter, lastScan, eventTask>>
      /\ \/ web' = [Idle EXCEPT !.at = "start", !.conn = c] /\ dataLock' = dataLock
         \/ web' = [Idle EXCEPT !.at = "get", !.conn = c, !.data = lastScan]
            /\ lastScan # 0 /\ dataLock' = "web"
  BY DEF ScanPage
<1>2. \/ web'.at = "start" /\ web'.conn = c /\ dataLock' = dataLock
      \/ web'.at = "get" /\ web'.conn = c /\ web'.data = lastScan /\ lastScan # 0 /\ dataLock' = "web"
  BY <1>1 DEF Idle
<1>3. ScanTypeInv' /\ EventInv' /\ CountInv'
  BY <1>1, <1>2 DEF ScanInv, ScanTypeInv, EventInv, CountInv
<1>4. GetInv' /\ RecordsInv'
  BY <1>1, <1>2 DEF ScanInv, GetInv, RecordsInv, Sending
<1> QED
  BY <1>3, <1>4 DEF ScanInv

LEMMA GetDataOK ==
  ASSUME ScanInv, web \in Webs, GetData PROVE ScanInv'
<1> DEFINE c == web.conn
           d == web.data
<1>1. /\ web.at = "get" /\ lastScan = d /\ d # 0 /\ d \in Data /\ c \in Conns /\ iter[c].data = 0
      /\ dataLock' = "none" /\ UNCHANGED <<lastScan, records, eventTask>>
  BY DEF GetData, ScanInv, GetInv, ScanTypeInv
<1>2. CASE Replies /\ UNCHANGED <<refs, iter>>
  <2>1. web'.at = "idle"
    BY <1>2, IdleOK DEF Replies
  <2>2. ScanTypeInv' /\ EventInv' /\ CountInv'
    BY <1>1, <1>2, <2>1 DEF ScanInv, ScanTypeInv, EventInv, CountInv
  <2>3. GetInv' /\ RecordsInv'
    BY <1>1, <1>2, <2>1 DEF ScanInv, GetInv, RecordsInv, Sending
  <2> QED
    BY <2>2, <2>3 DEF ScanInv
<1>3. CASE /\ refs' = Get(web.data)
           /\ iter' = [iter EXCEPT ![web.conn] = [data |-> web.data, idx |-> 0]]
           /\ At("send")
  <2>1. web'.at = "send" /\ web'.conn = c
    BY <1>3 DEF At, Webs
  <2>2. /\ iter'[c] = [data |-> d, idx |-> 0] /\ \A e \in Conns : e # c => iter'[e] = iter[e]
        /\ iter' \in [Conns -> [data : Data \cup {0}, idx : 0 .. MaxRecords]]
    <3>1. 0 \in 0 .. MaxRecords
      BY ManagerAssumption
    <3> QED
      BY <1>1, <1>3, <3>1 DEF ScanInv, ScanTypeInv
  <2>3. refs' \in [Data -> Nat] /\ \A x \in Data : refs'[x] = IF x = d THEN refs[x] + 1 ELSE refs[x]
    BY <1>1, <1>3 DEF ScanInv, ScanTypeInv, Get
  <2> HIDE DEF c, d
  <2>4. ScanTypeInv' /\ EventInv'
    BY <1>1, <2>1, <2>2, <2>3 DEF ScanInv, ScanTypeInv, EventInv
  <2>5. GetInv'
    BY <1>1, <2>1, <2>2 DEF GetInv
  <2>6. CountInv'
    <3> SUFFICES ASSUME NEW x \in Data
                 PROVE  refs'[x] = Cardinality(Holders(iter', x)) + One(lastScan', x)
                                   + One(eventTask'.data, x)
      BY DEF CountInv
    <3>1. CASE x = d
      <4>1. Cardinality(Holders(iter', x)) = Cardinality(Holders(iter, x)) + 1
        BY <1>1, <2>2, <3>1, HoldersGain
      <4> QED
        BY <1>1, <2>3, <3>1, <4>1, HoldersBound, OneOK DEF ScanInv, CountInv
    <3>2. CASE x # d
      <4>1. \A e \in Conns : iter'[e].data = x <=> iter[e].data = x
        BY <1>1, <2>2, <3>2, ManagerAssumption
      <4>2. Holders(iter', x) = Holders(iter, x)
        BY <4>1, HoldersSame
      <4> QED
        BY <1>1, <2>3, <3>2, <4>2 DEF ScanInv, CountInv
    <3> QED
      BY <3>1, <3>2
  <2>7. RecordsInv'
    BY <1>1, <2>1, <2>2 DEF ScanInv, RecordsInv, Sending
  <2> QED
    BY <2>4, <2>5, <2>6, <2>7 DEF ScanInv
<1> QED
  BY <1>2, <1>3 DEF GetData

LEMMA SendRecordOK ==
  ASSUME ScanInv, web \in Webs, NEW c \in Conns, SendRecord(c) PROVE ScanInv'
<1> DEFINE d == iter[c].data
           idx == IF driver.mode = "AP" THEN records[d] ELSE iter[c].idx + 1
<1>1. /\ \/ web.at = "send" /\ web.conn = c
         \/ web.at = "idle" /\ d # 0
      /\ iter' = [iter EXCEPT ![c].idx = idx]
      /\ web' = IF idx >= records[d] THEN [Idle EXCEPT !.at = "start", !.conn = c] ELSE Idle
      /\ UNCHANGED <<refs, records, dataLock, lastScan, eventTask>>
  BY DEF SendRecord
<1>2. d \in Data /\ Sending(c)
  BY <1>1 DEF ScanInv, ScanTypeInv, GetInv, Sending
<1>3. records[d] \in 0 .. MaxRecords /\ iter[c].idx \in 0 .. MaxRecords
      /\ iter[c].idx < records[d] /\ MaxRecords \in Nat
  BY <1>2, ManagerAssumption DEF ScanInv, ScanTypeInv, RecordsInv
<1>4. idx \in 0 .. MaxRecords
  BY <1>3
<1>5. /\ iter' \in [Conns -> [data : Data \cup {0}, idx : 0 .. MaxRecords]]
      /\ iter'[c].data = d /\ iter'[c].idx = idx
      /\ \A e \in Conns : e # c => iter'[e] = iter[e]
  BY <1>1, <1>4 DEF ScanInv, ScanTypeInv
<1>6. \/ web'.at = "start" /\ web'.conn = c
      \/ web'.at = "idle" /\ idx < records[d]
  <2>1. idx >= records[d] \/ idx < records[d]
    BY <1>3, <1>4
  <2> QED
    BY <1>1, <2>1 DEF Idle
<1> HIDE DEF idx
<1>7. ScanTypeInv' /\ EventInv'
  BY <1>1, <1>5, <1>6 DEF ScanInv, ScanTypeInv, EventInv
<1>8. GetInv'
  BY <1>1, <1>6 DEF ScanInv, GetInv
<1>9. CountInv'
  <2>1. \A x \in Data : Holders(iter', x) = Holders(iter, x)
    BY <1>5, HoldersSame
  <2> QED
    BY <1>1, <2>1 DEF ScanInv, CountInv
<1>10. RecordsInv'
  <2>1. \A e \in Conns : e # c /\ Sending(e)' => Sending(e)
    BY <1>1, <1>5, <1>6 DEF Sending
  <2>2. \A e \in Conns : e # c /\ Sending(e)' => iter'[e].idx < records'[iter'[e].data]
    BY <1>1, <1>5, <2>1 DEF ScanInv, RecordsInv
  <2>3. Sending(c)' => iter'[c].idx < records'[iter'[c].data]
    BY <1>1, <1>5, <1>6 DEF Sending
  <2> QED
    BY <1>1, <2>2, <2>3 DEF ScanInv, RecordsInv
<1> QED
  BY <1>7, <1>8, <1>9, <1>10 DEF ScanInv

\* The reference of a connection is dropped, if it has one.
LEMMA DropsOK ==
  ASSUME ScanInv, NEW c \in Conns, Drops(c),
         web.at = "idle" \/ (web.at = "end" /\ web.conn = c),
         UNCHANGED <<records, dataLock, lastScan, eventTask>>
  PROVE  ScanInv'
<1> DEFINE d == iter[c].data
<1>1. web'.at = "idle" /\ iter \in [Conns -> [data : Data \cup {0}, idx : 0 .. MaxRecords]]
      /\ refs \in [Data -> Nat] /\ d \in Data \cup {0}
  BY IdleOK DEF Drops, Replies, ScanInv, ScanTypeInv
<1>2. /\ iter'[c].data = 0 /\ \A e \in Conns : e # c => iter'[e] = iter[e]
      /\ iter' \in [Conns -> [data : Data \cup {0}, idx : 0 .. MaxRecords]]
  <2>1. NoIter \in [data : Data \cup {0}, idx : 0 .. MaxRecords] /\ NoIter.data = 0
    <3>1. 0 \in 0 .. MaxRecords
      BY ManagerAssumption
    <3> QED
      BY <3>1 DEF NoIter
  <2> QED
    BY <1>1, <2>1 DEF Drops
<1>3. 0 \notin Data
  BY ManagerAssumption
<1>4. d # 0 => refs[d] > 0
  BY <1>1, Held
<1>5. /\ refs' \in [Data -> Nat]
      /\ \A x \in Data : refs'[x] = IF x = d THEN refs[x] - 1 ELSE refs[x]
  BY <1>1, <1>3, <1>4 DEF Drops, Put
<1>6. ScanTypeInv' /\ EventInv' /\ GetInv'
  BY <1>1, <1>2, <1>5 DEF ScanInv, ScanTypeInv, EventInv, GetInv
<1>7. CountInv'
  <2> SUFFICES ASSUME NEW x \in Data
               PROVE  refs'[x] = Cardinality(Holders(iter', x)) + One(lastScan', x)
                                 + One(eventTask'.data, x)
    BY DEF CountInv
  <2>1. CASE x = d
    <3>1. Cardinality(Holders(iter, x)) = Cardinality(Holders(iter', x)) + 1
      <4>1. iter[c].data = x /\ iter'[c].data # x
        BY <1>2, <1>3, <2>1
      <4>2. \A e \in Conns : e # c => iter[e].data = iter'[e].data
        BY ONLY <1>2
      <4> QED
        BY ONLY <4>1, <4>2, HoldersGain, c \in Conns
    <3> QED
      BY <1>5, <2>1, <3>1, HoldersBound, OneOK DEF ScanInv, CountInv
  <2>2. CASE x # d
    <3>1. \A e \in Conns : iter'[e].data = x <=> iter[e].data = x
      BY <1>2, <1>3, <2>2
    <3>2. Holders(iter', x) = Holders(iter, x)
      BY <3>1, HoldersSame
    <3> QED
      BY <1>5, <2>2, <3>2 DEF ScanInv, CountInv
  <2> QED
    BY <2>1, <2>2
<1>8. RecordsInv'
  BY <1>1, <1>2 DEF ScanInv, RecordsInv, Sending
<1> QED
  BY <1>6, <1>7, <1>8 DEF ScanInv

LEMMA ScanDoneOK ==
  ASSUME ScanInv, ScanDone PROVE ScanInv'
<1>1. /\ eventTask.at = "idle" /\ eventTask.data = 0
      /\ UNCHANGED <<web, lastScan, dataLock, iter>>
  BY DEF ScanDone, taskVars, ScanInv, ScanTypeInv, EventInv
<1>2. CASE UNCHANGED <<eventTask, refs, records>>
  BY <1>1, <1>2, ScanAside
<1>3. CASE EventAt("flag") /\ UNCHANGED <<refs, records>>
  <2>1. eventTask' \in [at : {"idle", "publish", "put", "flag", "timer"}, data : Data \cup {0}]
        /\ eventTask'.at = "flag" /\ eventTask'.data = 0
    BY <1>1, <1>3 DEF EventAt, ScanInv, ScanTypeInv
  <2>2. ScanTypeInv' /\ EventInv' /\ CountInv'
    BY <1>1, <1>3, <2>1 DEF ScanInv, ScanTypeInv, EventInv, CountInv
  <2>3. GetInv' /\ RecordsInv'
    BY <1>1, <1>3, <2>1 DEF ScanInv, GetInv, RecordsInv, Sending
  <2> QED
    BY <2>2, <2>3 DEF ScanInv
<1>4. ASSUME NEW d \in Data, NEW n \in 1 .. MaxRecords, refs[d] = 0,
             refs' = [refs EXCEPT ![d] = 1], records' = [records EXCEPT ![d] = n],
             eventTask' = [at |-> "publish", data |-> d]
      PROVE  ScanInv'
  <2>1. lastScan # d /\ (\A c \in Conns : iter[c].data # d) /\ d # 0 /\ n \in 0 .. MaxRecords /\ n > 0
    BY <1>4, NoHolder, ManagerAssumption
  <2>2. refs' \in [Data -> Nat] /\ \A x \in Data : refs'[x] = IF x = d THEN 1 ELSE refs[x]
    BY <1>4 DEF ScanInv, ScanTypeInv
  <2>3. records' \in [Data -> 0 .. MaxRecords]
        /\ \A x \in Data : records'[x] = IF x = d THEN n ELSE records[x]
    BY <1>4, <2>1 DEF ScanInv, ScanTypeInv
  <2>4. ScanTypeInv' /\ EventInv' /\ GetInv'
    BY <1>1, <1>4, <2>1, <2>2, <2>3 DEF ScanInv, ScanTypeInv, EventInv, GetInv
  <2>5. CountInv'
    <3> SUFFICES ASSUME NEW x \in Data
                 PROVE  refs'[x] = Cardinality(Holders(iter', x)) + One(lastScan', x)
                                   + One(eventTask'.data, x)
      BY DEF CountInv
    <3>1. Holders(iter', x) = Holders(iter, x) /\ One(lastScan', x) = One(lastScan, x)
          /\ refs[x] = Cardinality(Holders(iter, x)) + One(lastScan, x) + One(eventTask.data, x)
      BY <1>1 DEF ScanInv, CountInv
    <3>2. One(eventTask.data, x) = 0 /\ One(eventTask'.data, x) = IF x = d THEN 1 ELSE 0
      BY <1>1, <1>4, ManagerAssumption DEF One
    <3> QED
      BY <1>4, <2>2, <3>1, <3>2, HoldersBound, OneOK
  <2>6. RecordsInv'
    <3>1. \A c \in Conns : iter[c].data # 0 => iter[c].data \in Data
      BY DEF ScanInv, ScanTypeInv
    <3>2. lastScan # 0 => lastScan \in Data
      BY DEF ScanInv, ScanTypeInv
    <3> QED
      BY <1>1, <1>4, <2>1, <2>3, <3>1, <3>2 DEF ScanInv, RecordsInv, Sending
  <2> QED
    BY <2>4, <2>5, <2>6 DEF ScanInv
<1> QED
  BY <1>2, <1>3, <1>4 DEF ScanDone

LEMMA PublishOK ==
  ASSUME ScanInv, Publish PROVE ScanInv'
<1> DEFINE d == eventTask.data
<1>1. /\ eventTask.at = "publish" /\ d # 0 /\ d \in Data
      /\ UNCHANGED <<web, records, dataLock, iter>>
      /\ refs \in [Data -> Nat] /\ lastScan \in Data \cup {0}
  BY DEF Publish, taskVars, ScanInv, ScanTypeInv, EventInv
<1>2. eventTask' \in [at : {"idle", "publish", "put", "flag", "timer"}, data : Data \cup {0}]
      /\ eventTask'.at = "put" /\ eventTask'.data = d
  BY DEF Publish, EventAt, ScanInv, ScanTypeInv
<1>3. CASE UNCHANGED <<refs, lastScan>>
  <2>1. ScanTypeInv' /\ EventInv' /\ CountInv'
    BY <1>1, <1>2, <1>3 DEF ScanInv, ScanTypeInv, EventInv, CountInv
  <2>2. GetInv' /\ RecordsInv'
    BY <1>1, <1>2, <1>3 DEF ScanInv, GetInv, RecordsInv, Sending
  <2> QED
    BY <2>1, <2>2 DEF ScanInv
<1>4. CASE /\ MayPublish /\ lastScan' = d
           /\ refs' = IF lastScan = 0 THEN Get(d) ELSE [Get(d) EXCEPT ![lastScan] = @ - 1]
  <2>1. 0 \notin Data
    BY ManagerAssumption
  <2>2. lastScan # 0 => refs[lastScan] > 0
    BY <1>1, Held
  <2>3. /\ refs' \in [Data -> Nat]
        /\ \A x \in Data : refs'[x] = refs[x] + One(d, x) - One(lastScan, x)
    <3>1. Get(d) \in [Data -> Nat] /\ \A x \in Data : Get(d)[x] = refs[x] + One(d, x)
      BY <1>1 DEF Get, One
    <3>2. CASE lastScan = 0
      BY <1>4, <2>1, <3>1, <3>2 DEF One
    <3>3. CASE lastScan # 0
      <4>1. refs' = [Get(d) EXCEPT ![lastScan] = @ - 1] /\ lastScan \in Data
        BY <1>1, <1>4, <3>3
      <4>2. Get(d)[lastScan] - 1 \in Nat
        BY <1>1, <2>2, <3>1, <3>3, <4>1, OneOK
      <4> HIDE DEF d
      <4>3. refs' \in [Data -> Nat]
            /\ \A x \in Data : refs'[x] = IF x = lastScan THEN Get(d)[x] - 1 ELSE Get(d)[x]
        BY <3>1, <4>1, <4>2
      <4> QED
        BY <1>1, <3>1, <4>3 DEF One
    <3> QED
      BY <3>2, <3>3
  <2>4. ScanTypeInv' /\ EventInv'
    BY <1>1, <1>2, <1>4, <2>3 DEF ScanInv, ScanTypeInv, EventInv
  <2>5. GetInv'
    BY <1>1, <1>4 DEF ScanInv, GetInv, MayPublish
  <2>6. CountInv'
    <3> SUFFICES ASSUME NEW x \in Data
                 PROVE  refs'[x] = Cardinality(Holders(iter', x)) + One(lastScan', x)
                                   + One(eventTask'.data, x)
      BY DEF CountInv
    <3>1. refs[x] = Cardinality(Holders(iter, x)) + One(lastScan, x) + One(d, x)
      BY DEF ScanInv, CountInv
    <3> HIDE DEF d
    <3> QED
      BY <1>1, <1>2, <1>4, <2>3, <3>1, HoldersBound, OneOK
  <2>7. RecordsInv'
    BY <1>1, <1>2, <1>4 DEF ScanInv, RecordsInv, Sending
  <2> QED
    BY <2>4, <2>5, <2>6, <2>7 DEF ScanInv
<1> QED
  BY <1>3, <1>4 DEF Publish

LEMMA PutNewOK ==
  ASSUME ScanInv, PutNew PROVE ScanInv'
<1> DEFINE d == eventTask.data
<1>1. /\ eventTask.at = "put" /\ d # 0 /\ d \in Data
      /\ eventTask' = [at |-> "flag", data |-> 0] /\ refs' = Put(d)
      /\ UNCHANGED <<web, records, lastScan, dataLock, iter>>
      /\ refs \in [Data -> Nat] /\ 0 \notin Data
  BY ManagerAssumption DEF PutNew, taskVars, ScanInv, ScanTypeInv, EventInv
<1>2. refs[d] > 0
  BY <1>1, Held
<1>3. refs' \in [Data -> Nat] /\ \A x \in Data : refs'[x] = IF x = d THEN refs[x] - 1 ELSE refs[x]
  BY <1>1, <1>2 DEF Put
<1>4. ScanTypeInv' /\ EventInv' /\ GetInv'
  BY <1>1, <1>3 DEF ScanInv, ScanTypeInv, EventInv, GetInv
<1>5. CountInv'
  <2> SUFFICES ASSUME NEW x \in Data
               PROVE  refs'[x] = Cardinality(Holders(iter', x)) + One(lastScan', x)
                                 + One(eventTask'.data, x)
    BY DEF CountInv
  <2>1. refs[x] = Cardinality(Holders(iter, x)) + One(lastScan, x) + One(d, x)
        /\ Holders(iter', x) = Holders(iter, x) /\ lastScan' = lastScan
    BY <1>1 DEF ScanInv, CountInv
  <2>2. One(eventTask'.data, x) = 0 /\ One(d, x) = IF x = d THEN 1 ELSE 0
    BY <1>1 DEF One
  <2> HIDE DEF d
  <2> QED
    BY <1>3, <2>1, <2>2, HoldersBound, OneOK
<1>6. RecordsInv'
  BY <1>1 DEF ScanInv, RecordsInv, Sending
<1> QED
  BY <1>4, <1>5, <1>6 DEF ScanInv

\* The event loop has given the results away.
LEMMA OverOK ==
  ASSUME ScanInv, ScanOver \/ TimerStops PROVE ScanInv'
<1>1. /\ eventTask' \in [at : {"idle", "publish", "put", "flag", "timer"}, data : Data \cup {0}]
      /\ eventTask'.at \in {"timer", "idle"} /\ eventTask'.data = eventTask.data
      /\ eventTask.at \in {"flag", "timer"}
      /\ UNCHANGED <<web, refs, records, lastScan, dataLock, iter>>
  BY DEF ScanOver, TimerStops, EventAt, taskVars, ScanInv, ScanTypeInv
<1>2. ScanTypeInv' /\ EventInv' /\ CountInv'
  BY <1>1 DEF ScanInv, ScanTypeInv, EventInv, CountInv
<1>3. GetInv' /\ RecordsInv'
  BY <1>1 DEF ScanInv, GetInv, RecordsInv, Sending
<1> QED
  BY <1>2, <1>3 DEF ScanInv

\* The web server while it changes the configuration or starts a scan
LEMMA WebAsideOK ==
  ASSUME ScanInv, web \in Webs,
         \/ \E r \in Requests : RequestComes(r) /\ ScanUnchanged
         \/ (RequestApplied \/ UpdateTakes \/ UpdateStores \/ StartWps) /\ ScanUnchanged
         \/ StartScan \/ ScanStarts \/ TimerStarts
  PROVE  ScanInv'
<1>1. UNCHANGED <<refs, records, iter, dataLock, lastScan, eventTask>>
  BY DEF ScanUnchanged, scanVars, StartScan, ScanStarts, TimerStarts
<1>2. CASE \E r \in Requests : RequestComes(r)
  <2>1. web.at = "idle" /\ web'.at = "mode"
    BY <1>2 DEF RequestComes, Idle
  <2> QED
    BY <1>1, <2>1, ScanAside
<1>3. CASE RequestApplied \/ UpdateTakes \/ UpdateStores
  <2>1. web.at \in {"mode", "update", "store"} /\ web'.at \in {"idle", "update", "store"}
    <3>1. CASE RequestApplied
      <4>1. web.at = "mode" /\ (web' = Idle \/ \E cfg : web' = [web EXCEPT !.at = "update", !.cfg = cfg])
        BY <3>1 DEF RequestApplied, Replies
      <4> QED
        BY <4>1, IdleOK DEF Webs
    <3>2. CASE UpdateTakes
      <4>1. web.at = "update" /\ (web' = Idle \/ web' = [web EXCEPT !.at = "store"])
        BY <3>2 DEF UpdateTakes, Replies, At
      <4> QED
        BY <4>1, IdleOK DEF Webs
    <3>3. CASE UpdateStores
      BY <3>3, IdleOK DEF UpdateStores, Replies
    <3> QED
      BY <1>3, <3>1, <3>2, <3>3
  <2> QED
    BY <1>1, <2>1, ScanAside
<1>4. CASE StartWps
  BY <1>1, <1>4, ScanAside DEF StartWps
<1>5. CASE StartScan \/ ScanStarts \/ TimerStarts
  <2>1. web.at \in {"start", "scan", "timer"} /\ web'.at \in {"scan", "timer", "end"}
        /\ web'.conn = web.conn
    BY <1>5 DEF StartScan, ScanStarts, TimerStarts, At, Webs
  <2> QED
    BY <1>1, <2>1, ScanAside
<1> QED
  BY <1>2, <1>3, <1>4, <1>5

LEMMA ScanStep ==
  ASSUME ScanInv, web \in Webs, [Next]_vars PROVE ScanInv'
<1>1. CASE ConfigTask \/ ScanTimerTask
  <2>1. UNCHANGED <<refs, records, iter, dataLock, lastScan, eventTask, web>>
    BY <1>1 DEF ConfigTask, ScanTimerTask, ScanUnchanged, scanVars, ScanTimer, StopScan, ClearFlag,
       ConfigTimer, ConfigHandler, WpsStart, WpsActive, Update, Connecting, Fallback, NothingToDo,
       LeavesFor, LeavesIn, Leaves
  <2> QED
    BY <2>1, ScanAside
<1>2. CASE EventLoop
  <2>1. CASE StateEvent /\ UNCHANGED taskVars /\ ScanUnchanged
    BY <2>1, ScanAside DEF ScanUnchanged, scanVars, taskVars
  <2> QED
    BY <1>2, <2>1, ScanDoneOK, PublishOK, PutNewOK, OverOK DEF EventLoop
<1>3. CASE WebGoesOn
  <2>1. CASE PageEnds
    <3>1. web.at = "end" /\ web.conn \in Conns /\ Drops(web.conn)
          /\ UNCHANGED <<records, dataLock, lastScan, eventTask>>
      BY <2>1 DEF PageEnds, ScanInv, ScanTypeInv
    <3> QED
      BY <3>1, DropsOK
  <2> QED
    BY <1>3, <2>1, WebAsideOK, GetDataOK, SendRecordOK DEF WebGoesOn
<1>4. CASE Clients
  <2>1. CASE \E c \in Conns : PageCloses(c)
    <3>1. PICK c \in Conns : PageCloses(c)
      BY <2>1
    <3> QED
      BY <3>1, DropsOK DEF PageCloses
  <2> QED
    BY <1>4, <2>1, WebAsideOK, ScanPageOK DEF Clients
<1>5. CASE Driver \/ ScanCompletes \/ UNCHANGED vars
  BY <1>5, ScanAside DEF Driver, ScanCompletes, vars, taskVars, scanVars
<1> QED
  BY <1>1, <1>2, <1>3, <1>4, <1>5 DEF Next

LEMMA ScanInitOK == Init => ScanInv
<1> SUFFICES ASSUME Init PROVE ScanInv
  OBVIOUS
<1>1. web.at = "idle" /\ eventTask = [at |-> "idle", data |-> 0] /\ dataLock = "none"
      /\ lastScan \in Data \cup {0} /\ 0 \notin Data
      /\ iter = [c \in Conns |-> [data |-> 0, idx |-> 0]]
      /\ refs = [d \in Data |-> IF d = lastScan THEN 1 ELSE 0]
      /\ records = [d \in Data |-> IF d = lastScan THEN MaxRecords ELSE 0]
  BY ManagerAssumption, IdleOK DEF Init, CfgInit, NoIter
<1>2. MaxRecords \in Nat /\ MaxRecords > 0
  BY ManagerAssumption
<1>3. ScanTypeInv /\ EventInv /\ GetInv
  BY <1>1, <1>2 DEF ScanTypeInv, EventInv, GetInv
<1>4. CountInv
  <2> SUFFICES ASSUME NEW d \in Data
               PROVE  refs[d] = Cardinality(Holders(iter, d)) + One(lastScan, d) + One(eventTask.data, d)
    BY DEF CountInv
  <2>1. Holders(iter, d) = {}
    BY <1>1 DEF Holders
  <2>2. Cardinality(Holders(iter, d)) = 0
    BY <2>1, FS_EmptySet
  <2> QED
    BY <1>1, <2>2 DEF One
<1>5. RecordsInv
  BY <1>1, <1>2 DEF RecordsInv, Sending
<1> QED
  BY <1>3, <1>4, <1>5 DEF ScanInv

-----------------------------------------------------------------------------
(* Theorems *)

Inv == CfgInv /\ ScanInv

\* Both invariants hold together: that of the configuration needs the pointer to
\* the results to be one, that of the scans the record of the web server.
THEOREM Inductive == Spec => []Inv
<1>1. Init => Inv
  BY CfgInitOK, ScanInitOK DEF Inv
<1>2. Inv /\ [Next]_vars => Inv'
  BY CfgStep, ScanStep DEF Inv, ScanInv, ScanTypeInv, CfgInv, CfgTypeInv
<1> QED
  BY <1>1, <1>2, PTL DEF Spec

\* The driver, cfg_state, its lock, the references and the iterators have the
\* values the code expects, for every number of connections.
THEOREM TypeCorrect == Spec => []TypeOK
<1>1. Inv => TypeOK
  <2> SUFFICES ASSUME Inv PROVE TypeOK
    OBVIOUS
  <2>1. CfgTypeOK
    <3>1. driver.mode \in Modes /\ driver.sta \in Networks /\ driver.ap \in ApConfigs
          /\ State \in States /\ cfgState.age \in 0 .. CfgTimeout
      BY DEF Inv, CfgInv, CfgTypeInv, Drivers, CfgStates, State
    <3>2. cfgLock \in {"none", "web", "timer"} /\ (cfgLock = "timer") = (timerTask = "config")
      BY DEF Inv, CfgInv, CfgTypeInv, LockInv
    <3> QED
      BY <3>1, <3>2 DEF CfgTypeOK
  <2>2. \A d \in Data : refs[d] \in 0 .. Cardinality(Conns) + 2 /\ records[d] \in 0 .. MaxRecords
    BY HoldersBound, OneOK DEF Inv, ScanInv, ScanTypeInv, CountInv
  <2>3. dataLock \in {"none", "web"} /\ lastScan \in Data \cup {0}
        /\ \A c \in Conns : iter[c].idx <= MaxRecords
    BY ManagerAssumption DEF Inv, ScanInv, ScanTypeInv
  <2> QED
    BY <2>1, <2>2, <2>3 DEF TypeOK
<1> QED
  BY <1>1, Inductive, PTL

\* Results of a scan are freed when the last who holds them lets go, and not
\* before, for every number of connections (get_scan_data, put_scan_data).
THEOREM ScanDataIsAlive == Spec => []ScanDataAlive
<1>1. Inv => ScanDataAlive
  <2> SUFFICES ASSUME Inv PROVE ScanDataAlive
    OBVIOUS
  <2>1. \A d \in Data :
          refs[d] = Cardinality({c \in Conns : iter[c].data = d})
                    + (IF lastScan = d THEN 1 ELSE 0) + (IF eventTask.data = d THEN 1 ELSE 0)
    BY DEF Inv, ScanInv, CountInv, Holders, One
  <2>2. web.at = "get" => refs[web.data] > 0
    BY Held DEF Inv, ScanInv, GetInv, ScanTypeInv
  <2> QED
    BY <2>1, <2>2 DEF ScanDataAlive
<1> QED
  BY <1>1, Inductive, PTL

\* When an attempt fails, the station is what it was before, even if a request
\* that turns WiFi off came in between (handle_config_timer, update_wifi).
THEOREM FallsBack == Spec => FallbackRestores
<1> DEFINE Restored ==
      Fallback => /\ driver'.mode = cfgState.before.mode
                  /\ HasAp(cfgState.before.mode) => driver'.ap = cfgState.before.ap
                  /\ HasStation(cfgState.before.mode) /\ cfgState.before.connect =>
                       driver'.sta = cfgState.before.sta
<1>1. Inv => Restored
  <2> SUFFICES ASSUME Inv, Fallback PROVE Restored
    OBVIOUS
  <2>1. timerTask = "config" /\ State = "fallback"
        /\ driver' = SetWifiCfg(Disconnect(driver), cfgState.saved)
    BY DEF Fallback, Handles
  <2>2. driver \in Drivers /\ cfgState.saved \in Configs
        /\ Restores(cfgState.saved, cfgState.before)
    BY <2>1, Handled DEF Inv, Stable
  <2> QED
    BY <2>1, <2>2, DriverCalls, SetsCfg DEF Restores
<1>2. Inv => [Restored]_driver
  BY <1>1
<1>3. [][Restored]_driver => FallbackRestores
  BY DEF FallbackRestores
<1> HIDE DEF Restored
<1> QED
  BY <1>2, <1>3, Inductive, PTL
=============================================================================
