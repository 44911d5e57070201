----------------------------- MODULE WifiConfig -----------------------------
(***************************************************************************)
(* The change of the WiFi configuration of util/esp32_wifi.c: a request    *)
(* asks for another network, mode or access point, or for WPS; a timer     *)
(* then takes cfg_state through its states, tries the new configuration    *)
(* and falls back to the saved one.                                        *)
(*                                                                         *)
(* Three tasks run: the web server works on one request at a time, the     *)
(* timer task on one timer at a time, the event loop on one event at a     *)
(* time.  The WiFi driver is outside: it connects, loses the connection,   *)
(* ends a scan or WPS on its own, and posts an event.  It is initialised,  *)
(* so that its getters and setters do not fail.                            *)
(***************************************************************************)
EXTENDS Integers, Sequences, FiniteSets

CONSTANTS
  Networks,      \* configurations of the station; "" is the cleared one
  WpsNetwork,    \* what WPS brings
  ApConfigs,     \* configurations of the access point
  Requests,      \* the requests that change the configuration
  CfgTimeout,    \* CFG_TIMEOUT in runs of the timer
  Faults,        \* which calls may fail: a subset of {"timer", "alloc", "scan"}
  MaxRequests, MaxEvents   \* bounds

VARIABLES
  driver,        \* the WiFi driver: its configuration, what it does, its events
  bits,          \* wifi_events
  cfgState,      \* cfg_state: its state, saved, new, age (how long its timestamp is
                 \* ago), and as history the configuration before the attempt
  cfgLock,       \* who holds cfg_state.lock: "none", "web" or "timer"
  cfgTimer,      \* config_timer is armed
  web,           \* the task of the web server, and the request it works on
  timerTask,     \* where the timer task is
  gaveUp,        \* the lock was busy and the timer could not be armed again
  received       \* how many requests came

cfgVars == <<bits, cfgState, cfgLock, cfgTimer, gaveUp>>
taskVars == <<web, timerTask, received>>

Modes == {"NULL", "STA", "AP", "APSTA"}
States == {"failed", "connected", "idle", "update", "wps_start", "wps_active",
           "connecting", "fallback"}
Stable == {"failed", "connected", "idle"}
Configs == [connect : BOOLEAN, mode : Modes, sta : Networks, ap : ApConfigs]

ASSUME ConfigAssumption ==
  /\ "" \in Networks /\ WpsNetwork \in Networks /\ ApConfigs # {}
  /\ CfgTimeout \in Nat
  /\ \A r \in Requests :
       \/ r.kind = "connect" /\ r.sta \in Networks
       \/ r.kind = "mode" /\ r.mode \in Modes
       \/ r.kind = "ap" /\ r.ap \in ApConfigs

-----------------------------------------------------------------------------
(* The WiFi driver *)

HasStation(mode) == mode \in {"STA", "APSTA"}
HasAp(mode) == mode \in {"AP", "APSTA"}

Post(d, event) == [d EXCEPT !.events = Append(@, event)]

\* esp_wifi_disconnect; the event comes later.
Disconnect(d) == LET off == [d EXCEPT !.link = "down"]
                 IN IF d.link = "up" THEN Post(off, "disconnected") ELSE off

\* esp_wifi_scan_stop
ScanStop(d) == IF d.scanning THEN Post([d EXCEPT !.scanning = FALSE], "scan failed") ELSE d

\* set_wifi_cfg
SetWifiCfg(d, cfg) ==
  IF cfg.mode = "NULL" THEN [Disconnect(d) EXCEPT !.mode = "NULL"]
  ELSE [d EXCEPT !.mode = cfg.mode,
                 !.ap = IF HasAp(cfg.mode) THEN cfg.ap ELSE @,
                 !.sta = IF HasStation(cfg.mode) THEN cfg.sta ELSE @,
                 !.link = IF cfg.connect /\ HasStation(cfg.mode) /\ @ = "down"
                          THEN "joining" ELSE @]

\* get_wifi_cfg, where no other task can come between its calls
GetWifiCfg == [connect |-> bits.connected, mode |-> driver.mode,
               sta |-> driver.sta, ap |-> driver.ap]

\* The driver posts an event of its own.
Reports(d, event) ==
  /\ Len(driver.events) < MaxEvents
  /\ driver' = Post(d, event)

Joins == driver.link = "joining" /\ Reports([driver EXCEPT !.link = "up"], "got ip")

LosesLink == /\ driver.link \in {"joining", "up"}
             /\ Reports([driver EXCEPT !.link = "down"], "disconnected")

ScanEndsItself ==
  /\ driver.scanning
  /\ \E event \in {"scan done", "scan failed"} :
       Reports([driver EXCEPT !.scanning = FALSE], event)

WpsEnds ==
  /\ driver.wps
  /\ \/ Reports([driver EXCEPT !.wps = FALSE, !.sta = WpsNetwork], "wps success")
     \/ Reports([driver EXCEPT !.wps = FALSE], "wps failed")

\* cgiWifiEventCb, for all events but the end of a scan
StateEvent ==
  /\ driver.events # <<>> /\ Head(driver.events) \notin {"scan done", "scan failed"}
  /\ driver' = [driver EXCEPT !.events = Tail(@)]
  /\ bits' = CASE Head(driver.events) = "got ip" -> [bits EXCEPT !.connected = TRUE]
               [] Head(driver.events) = "disconnected" -> [bits EXCEPT !.connected = FALSE]
               [] Head(driver.events) = "wps success" -> [bits EXCEPT !.wpsSuccess = TRUE]
               [] Head(driver.events) = "wps failed" -> [bits EXCEPT !.wpsFailed = TRUE]

-----------------------------------------------------------------------------
(* Requests *)

Idle == [at |-> "idle", request |-> [kind |-> "none"],
         cfg |-> [connect |-> FALSE, mode |-> "NULL", sta |-> "", ap |-> ""],
         conn |-> "", data |-> 0]

At(place) == web' = [web EXCEPT !.at = place]
Replies == web' = Idle

State == cfgState.state

\* What belongs to an attempt is forgotten when it is over: the next one writes
\* it before it is read.
NoAttempt == [state |-> "idle", saved |-> Idle.cfg, new |-> Idle.cfg, age |-> 0,
              before |-> Idle.cfg]
Become(c) == cfgState' = IF c.state \in Stable THEN [NoAttempt EXCEPT !.state = c.state] ELSE c

\* xTimerChangePeriod(config_timer, ...): it fails when the queue of the timer
\* task is full, and then the state is failed.
Arm(c) ==
  \/ cfgTimer' = TRUE /\ Become(c)
  \/ "timer" \in Faults /\ Become([c EXCEPT !.state = "failed"]) /\ UNCHANGED cfgTimer

\* The current configuration is saved, and what an attempt has to come back to
\* remembered.
Saved(cfg) == [cfgState EXCEPT !.saved = cfg,
                               !.before = IF State \in Stable THEN GetWifiCfg ELSE @]

\* cgiWiFiConnect, cgiWiFiSetMode and cgiWiFiAPSettings begin with the first
\* calls of get_wifi_cfg, without the lock ...
RequestComes(r) ==
  /\ web.at = "idle" /\ received < MaxRequests
  /\ web' = [Idle EXCEPT !.at = "mode", !.request = r, !.cfg = [GetWifiCfg EXCEPT !.mode = "NULL"]]
  /\ received' = received + 1
  /\ UNCHANGED <<driver, cfgVars, timerTask>>

\* ... and go on with its last one and with what the request changes.  The
\* mode of a station alone is only for one that is connected.
RequestApplied ==
  /\ web.at = "mode"
  /\ LET r == web.request
         cfg == [web.cfg EXCEPT !.mode = driver.mode]
         wants == CASE r.kind = "connect" -> [cfg EXCEPT !.sta = r.sta, !.connect = TRUE]
                    [] r.kind = "mode"    -> [cfg EXCEPT !.mode = r.mode]
                    [] r.kind = "ap"      -> [cfg EXCEPT !.ap = r.ap]
     IN IF r.kind = "mode" /\ r.mode = "STA" /\ ~bits.connected
        THEN Replies
        ELSE web' = [web EXCEPT !.at = "update", !.cfg = wants]
  /\ UNCHANGED <<driver, cfgVars, timerTask, received>>

\* Mutant: an attempt that is under way is no obstacle.
Refused_Never(cfg) == FALSE

\* update_wifi refuses to disturb an attempt, unless WiFi is to be off.
Refused(cfg) == cfg.mode # "NULL" /\ State \notin Stable

\* update_wifi: the lock is taken, for which it does not wait long, and the
\* current configuration saved.
UpdateTakes ==
  /\ web.at = "update"
  /\ \/ cfgLock = "timer" /\ Replies /\ UNCHANGED cfgVars
     \/ cfgLock = "none" /\ Refused(web.cfg) /\ Replies /\ UNCHANGED cfgVars
     \/ /\ cfgLock = "none" /\ ~Refused(web.cfg)
        /\ cfgLock' = "web"
        /\ cfgState' = Saved([GetWifiCfg EXCEPT !.sta = IF bits.connected THEN @ ELSE ""])
        /\ At("store")
        /\ UNCHANGED <<bits, cfgTimer, gaveUp>>
  /\ UNCHANGED <<driver, timerTask, received>>

Differs(a, b) == \/ a.mode # b.mode
                 \/ HasAp(a.mode) /\ a.ap # b.ap
                 \/ HasStation(a.mode) /\ a.sta # b.sta

\* update_wifi: the new configuration is stored, and if it is one, its update
\* started.
UpdateStores ==
  /\ web.at = "store"
  /\ LET stored == [cfgState EXCEPT !.new = web.cfg]
     IN IF Differs(web.cfg, cfgState.saved) THEN Arm([stored EXCEPT !.state = "update"])
        ELSE Become(stored) /\ UNCHANGED cfgTimer
  /\ cfgLock' = "none"
  /\ Replies
  /\ UNCHANGED <<driver, bits, gaveUp, timerTask, received>>

\* cgiWiFiStartWps; otherwise it changes nothing.
StartWps ==
  /\ web.at = "idle" /\ received < MaxRequests
  /\ cfgLock = "none" /\ State \in Stable
  /\ Arm([Saved(GetWifiCfg) EXCEPT !.state = "wps_start"])
  /\ received' = received + 1
  /\ UNCHANGED <<driver, bits, cfgLock, gaveUp, web, timerTask>>

-----------------------------------------------------------------------------
(* handle_config_timer *)

\* The timer goes off; without the lock it is armed again.
ConfigTimer ==
  /\ timerTask = "idle" /\ cfgTimer
  /\ IF cfgLock = "none"
     THEN /\ cfgTimer' = FALSE /\ cfgLock' = "timer" /\ timerTask' = "config"
          /\ UNCHANGED gaveUp
     ELSE /\ \/ cfgTimer' = TRUE /\ UNCHANGED gaveUp
             \/ "timer" \in Faults /\ cfgTimer' = FALSE /\ gaveUp' = TRUE
          /\ UNCHANGED <<cfgLock, timerTask>>
  /\ UNCHANGED <<driver, bits, cfgState, web, received>>

Handles(s) == timerTask = "config" /\ State = s

\* The handler leaves, with the timer armed again or not.
Leaves == cfgLock' = "none" /\ timerTask' = "idle" /\ UNCHANGED <<gaveUp, web, received>>
\* Mutant: the timer is not armed again.
LeavesFor_Once(next, c) == Become([c EXCEPT !.state = next]) /\ UNCHANGED cfgTimer /\ Leaves

LeavesFor(next, c) == Arm([c EXCEPT !.state = next]) /\ Leaves
LeavesIn(next) == Become([cfgState EXCEPT !.state = next]) /\ UNCHANGED cfgTimer /\ Leaves

\* Mutant: one run more.
TimedOut_After == cfgState.age > CfgTimeout

TimedOut == cfgState.age = CfgTimeout
Waited == [cfgState EXCEPT !.age = @ + 1]

\* cfg_state_wps_start; that WPS could not be started is overwritten by the
\* next state.
WpsStart ==
  /\ Handles("wps_start")
  /\ LET new == [GetWifiCfg EXCEPT !.sta = "", !.mode = "APSTA", !.connect = FALSE]
     IN /\ \E runs \in BOOLEAN : driver' = [SetWifiCfg(driver, new) EXCEPT !.wps = runs]
        /\ LeavesFor("wps_active", [cfgState EXCEPT !.new = new, !.age = 0])
  /\ bits' = [bits EXCEPT !.wpsSuccess = FALSE, !.wpsFailed = FALSE]

\* cfg_state_wps_active
WpsActive ==
  /\ Handles("wps_active")
  /\ IF bits.wpsSuccess
     THEN LeavesFor("update", [cfgState EXCEPT !.new = [GetWifiCfg EXCEPT !.mode = "APSTA",
                                                                         !.connect = TRUE]])
     ELSE IF TimedOut \/ bits.wpsFailed THEN LeavesFor("fallback", cfgState)
     ELSE LeavesFor("wps_active", Waited)
  /\ driver' = [driver EXCEPT !.wps = @ /\ ~bits.wpsSuccess /\ ~TimedOut /\ ~bits.wpsFailed]
  /\ UNCHANGED bits

\* cfg_state_update
Update ==
  /\ Handles("update")
  /\ LET new == cfgState.new
     IN /\ driver' = SetWifiCfg(Disconnect(ScanStop(driver)), new)
        /\ IF new.mode \in {"AP", "NULL"} \/ ~new.connect
           THEN LeavesIn("idle")
           ELSE LeavesFor("connecting", [cfgState EXCEPT !.age = 0])
  /\ UNCHANGED bits

\* cfg_state_connecting
Connecting ==
  /\ Handles("connecting")
  /\ IF bits.connected THEN LeavesIn("connected")
     ELSE IF TimedOut THEN LeavesFor("fallback", cfgState)
     ELSE LeavesFor("connecting", Waited)
  /\ UNCHANGED <<driver, bits>>

\* cfg_state_fallback
Fallback ==
  /\ Handles("fallback")
  /\ driver' = SetWifiCfg(Disconnect(driver), cfgState.saved)
  /\ LeavesIn("failed")
  /\ UNCHANGED bits

NothingToDo ==
  /\ timerTask = "config" /\ State \in Stable
  /\ LeavesIn(State)
  /\ UNCHANGED <<driver, bits>>

ConfigHandler ==
  WpsStart \/ WpsActive \/ Update \/ Connecting \/ Fallback \/ NothingToDo

-----------------------------------------------------------------------------
\* initCgiWifi, in a station that is an access point as well, and may be
\* connected already.
CfgInit ==
  /\ \E sta \in Networks \ {WpsNetwork} :
       /\ driver = [mode |-> "APSTA", sta |-> sta, ap |-> CHOOSE a \in ApConfigs : TRUE,
                    link |-> IF sta = "" THEN "down" ELSE "up",
                    scanning |-> FALSE, wps |-> FALSE, events |-> <<>>]
       /\ bits = [connected |-> sta # "", wpsSuccess |-> FALSE, wpsFailed |-> FALSE]
  /\ cfgState = NoAttempt
  /\ cfgLock = "none" /\ cfgTimer = FALSE
  /\ web = Idle /\ timerTask = "idle"
  /\ gaveUp = FALSE /\ received = 0

CfgTypeOK ==
  /\ driver.mode \in Modes /\ driver.sta \in Networks /\ driver.ap \in ApConfigs
  /\ State \in States /\ cfgState.age \in 0 .. CfgTimeout
  /\ cfgLock \in {"none", "web", "timer"} /\ (cfgLock = "timer") = (timerTask = "config")

\* When an attempt fails, the station is set back to the mode and the access
\* point it had before the attempt, and to the network if it had one
\* (handle_config_timer; esp32_wifi.c:655-673).
FallbackRestores ==
  [][Fallback => /\ driver'.mode = cfgState.before.mode
                 /\ HasAp(cfgState.before.mode) => driver'.ap = cfgState.before.ap
                 /\ HasStation(cfgState.before.mode) /\ cfgState.before.connect => driver'.sta = cfgState.before.sta]_driver

\* Every attempt ends: nobody is refused for ever because of an attempt that
\* nobody drives (esp32_wifi.c:663-664); the code names the one exception, a
\* timer that finds the lock taken and cannot be armed again (:683-685).
AttemptEnds == (State \notin Stable) ~> (State \in Stable \/ gaveUp)
=============================================================================
