------------------------------ MODULE Station ------------------------------
(***************************************************************************)
(* The boot of the station and its network: setup and app_main of main.c,  *)
(* init_wifi and its event handler (my_network.c), and the handlers of     *)
(* webserver.c that store what the next boot connects with.                *)
(*                                                                         *)
(* Three tasks run: main boots, the event loop of the system calls         *)
(* wifi_event_handler for what the WiFi driver reports, and the web server *)
(* works on one request at a time.  The power may fail between any two     *)
(* steps.  The driver and the non-volatile storage are outside: a write    *)
(* that was not committed may be lost with the power.                      *)
(*                                                                         *)
(* The configuration file is never written (save_config is only called     *)
(* from the main loop, which no boot reaches), so that every boot finds no *)
(* valid configuration and makes the default one.  onSetConfig and         *)
(* onGetConfig have no route in builtInUrls.                               *)
(***************************************************************************)
EXTENDS Integers, Sequences, FiniteSets

CONSTANTS
  Names,          \* texts of networks
  Passwords,      \* texts of passwords
  Garbage,        \* what a text on the stack may be before it is written
  Requests,       \* the requests that clients send
  MaxRequests, MaxRestarts, MaxEvents   \* bounds

VARIABLES
  boot,           \* where main is
  cfgValid,       \* config_check_valid(&cfg)
  wifiType,       \* WiFiConnType
  hasIp,          \* ipWiFi is not zero
  retry,          \* nWiFiRetry
  group,          \* evtgrpWiFi: "none", "exists" or "deleted"
  bits,           \* its bits
  handlers,       \* the event bases for which wifi_event_handler is registered
  driver,         \* the WiFi driver: "off", "ap", "idle", "connecting", "up"
  events,         \* the events of the driver that wait for the event loop
  nvs, flash,     \* the strings of NVS as they read, and as they are kept
  req,            \* the request that is worked on, or NoRequest
  sVal,           \* the buffer of onSetWiFi
  torn,           \* history: something spoilt the pair since it was last stored whole
  received, restarts   \* counters of the bounds

wifiVars == <<wifiType, hasIp, retry, group, bits, handlers, driver, events>>
nvsVars == <<nvs, flash, torn>>
webVars == <<req, sVal, received>>
vars == <<boot, cfgValid, wifiVars, nvsVars, webVars, restarts>>

NONE == "none"
NoRequest == [path |-> "none"]
MISSING == "missing"    \* an argument that is not there
EMPTY == "empty"        \* an argument without a value
Keys == {"WiFi_SSID", "WiFi_PASSWORD", "WiFi_password"}

\* Every request but /setwifi has no arguments that are looked at.
ASSUME StationAssumption ==
  /\ MISSING \notin Names \cup Passwords /\ EMPTY \notin Names \cup Passwords
  /\ Requests \subseteq
       [path : {"/setwifi"}, SSID : Names \cup {MISSING, EMPTY},
        password : Passwords \cup {MISSING, EMPTY}]
       \cup [path : {"/save", "/reset"}]

-----------------------------------------------------------------------------
(* main *)

Init ==
  /\ boot = "load" /\ cfgValid = FALSE
  /\ wifiType = "NOT_CONNECTED" /\ hasIp = FALSE /\ retry = 0
  /\ group = "none" /\ bits = {} /\ handlers = {}
  /\ driver = "off" /\ events = <<>>
  /\ nvs = [k \in Keys |-> NONE] /\ flash = nvs /\ torn = FALSE
  /\ req = NoRequest /\ sVal \in Garbage
  /\ received = 0 /\ restarts = 0

\* setup: load_config finds no file, init_config makes the default.
Load ==
  /\ boot = "load"
  /\ cfgValid' = TRUE
  /\ boot' = "wifi"
  /\ UNCHANGED <<wifiVars, nvsVars, webVars, restarts>>

\* setup: both strings are read into buffers whose lengths were never set, so
\* that a string that is there may be refused for its length.
FoundInNvs == nvs["WiFi_SSID"] # NONE /\ nvs["WiFi_PASSWORD"] # NONE

\* init_wifi(false, ssid, pass), up to its waiting
StartStation ==
  /\ boot = "wifi" /\ FoundInNvs
  /\ wifiType' = "NOT_CONNECTED" /\ hasIp' = FALSE
  /\ group' = "exists" /\ bits' = {}
  /\ handlers' = {"WIFI_EVENT", "IP_EVENT"}
  /\ driver' = "idle" /\ events' = <<"STA_START">>
  /\ boot' = "waiting"
  /\ UNCHANGED <<cfgValid, retry, nvsVars, webVars, restarts>>

\* init_wifi(true, "RemoteRelay", NULL)
StartAccessPoint ==
  /\ boot = "wifi"
  /\ handlers' = {"WIFI_EVENT"}
  /\ driver' = "ap"
  /\ wifiType' = "AP" /\ hasIp' = TRUE
  /\ boot' = "web"
  /\ UNCHANGED <<cfgValid, retry, group, bits, events, nvsVars, webVars, restarts>>

\* init_wifi, when xEventGroupWaitBits returns: a bit is set, or its time is up.
Waited ==
  /\ boot = "waiting"
  /\ wifiType' = IF "CONNECTED" \in bits THEN "STA" ELSE wifiType
  /\ boot' = "unregister_ip"
  /\ UNCHANGED <<cfgValid, hasIp, retry, group, bits, handlers, driver, events,
                 nvsVars, webVars, restarts>>

\* The end of init_wifi: unregistering waits for a handler that runs.
TearDown ==
  \/ /\ boot = "unregister_ip"
     /\ handlers' = handlers \ {"IP_EVENT"}
     /\ boot' = "unregister_wifi" /\ UNCHANGED group
  \/ /\ boot = "unregister_wifi"
     /\ handlers' = handlers \ {"WIFI_EVENT"}
     /\ boot' = "delete" /\ UNCHANGED group
  \/ /\ boot = "delete"
     /\ group' = "deleted"
     /\ boot' = "web" /\ UNCHANGED handlers

WifiDone ==
  /\ TearDown
  /\ UNCHANGED <<cfgValid, wifiType, hasIp, retry, bits, driver, events, nvsVars,
                 webVars, restarts>>

\* setup: setup_camera, init_webserver.
StartWeb ==
  /\ boot = "web" /\ boot' = "tasks"
  /\ UNCHANGED <<cfgValid, wifiVars, nvsVars, webVars, restarts>>

\* start_tasks; mqtt_app_start needs a valid configuration.
StartTasks ==
  /\ boot = "tasks" /\ cfgValid
  /\ boot' = "loop"
  /\ UNCHANGED <<cfgValid, wifiVars, nvsVars, webVars, restarts>>

\* Everything in memory is lost, and of the strings in NVS any that were not
\* committed.
Restart ==
  /\ restarts < MaxRestarts /\ restarts' = restarts + 1
  /\ \E lost \in SUBSET Keys :
       nvs' = [k \in Keys |-> IF k \in lost THEN flash[k] ELSE nvs[k]]
  /\ flash' = nvs'
  /\ torn' = (torn \/ req.path = "/setwifi, password" \/ nvs' # nvs)
  /\ boot' = "load" /\ cfgValid' = FALSE
  /\ wifiType' = "NOT_CONNECTED" /\ hasIp' = FALSE /\ retry' = 0
  /\ group' = "none" /\ bits' = {} /\ handlers' = {}
  /\ driver' = "off" /\ events' = <<>>
  /\ req' = NoRequest /\ sVal' \in Garbage
  /\ UNCHANGED received

\* app_main: the main loop waits on evtgrpMain, which nobody has created: the
\* kernel's assertion stops the station, which restarts.
MainLoop == boot = "loop" /\ Restart

\* The power fails.
PowerFails == Restart

-----------------------------------------------------------------------------
(* The WiFi driver and wifi_event_handler *)

Report(event) == Len(events) < MaxEvents /\ events' = Append(events, event)

\* External: an attempt fails or gets an address; a link may break.
Driver ==
  /\ \/ /\ driver = "connecting"
        /\ \/ driver' = "idle" /\ Report("STA_DISCONNECTED")
           \/ driver' = "up" /\ Report("STA_GOT_IP")
     \/ driver = "up" /\ driver' = "idle" /\ Report("STA_DISCONNECTED")
  /\ UNCHANGED <<boot, cfgValid, wifiType, hasIp, retry, group, bits, handlers,
                 nvsVars, webVars, restarts>>

\* The base of an event.
Base(event) == IF event = "STA_GOT_IP" THEN "IP_EVENT" ELSE "WIFI_EVENT"

\* Mutant: the last failure is not told to who waits.
GiveUp_Silently ==
  /\ retry' = 0
  /\ wifiType' = "NOT_CONNECTED" /\ hasIp' = FALSE
  /\ UNCHANGED <<bits, driver>>

\* The station has lost its network and does not try again.
GiveUp ==
  /\ wifiType' = "NOT_CONNECTED" /\ hasIp' = FALSE
  /\ bits' = bits \cup {"FAIL"}
  /\ retry' = 0
  /\ UNCHANGED driver

\* Mutant: one attempt too many.
MayRetry_Once_More == retry <= 3

MayRetry == retry < 3

\* wifi_event_handler, called by the event loop, or no handler is registered.
WifiEventHandler ==
  /\ events # <<>>
  /\ events' = Tail(events)
  /\ LET event == Head(events)
     IN \/ /\ Base(event) \notin handlers
           /\ UNCHANGED <<wifiType, hasIp, retry, bits, driver>>
        \/ /\ "WIFI_EVENT" \in handlers /\ event = "STA_START"
           /\ driver' = "connecting" /\ retry' = 0
           /\ UNCHANGED <<wifiType, hasIp, bits>>
        \/ /\ "WIFI_EVENT" \in handlers /\ event = "STA_DISCONNECTED" /\ MayRetry
           /\ driver' = "connecting" /\ retry' = retry + 1
           /\ UNCHANGED <<wifiType, hasIp, bits>>
        \/ /\ "WIFI_EVENT" \in handlers /\ event = "STA_DISCONNECTED" /\ ~MayRetry
           /\ GiveUp
        \/ /\ "IP_EVENT" \in handlers /\ event = "STA_GOT_IP"
           /\ hasIp' = TRUE /\ retry' = 0
           /\ bits' = bits \cup {"CONNECTED"}
           /\ UNCHANGED <<wifiType, driver>>
  /\ UNCHANGED <<boot, cfgValid, group, handlers, nvsVars, webVars, restarts>>

-----------------------------------------------------------------------------
(* The web server: it runs as soon as init_webserver has been called *)

Serves == boot \in {"tasks", "loop"}

Receive ==
  /\ Serves /\ req = NoRequest
  /\ received < MaxRequests /\ received' = received + 1
  /\ \E r \in Requests : req' = r
  /\ sVal' \in Garbage
  /\ UNCHANGED <<boot, cfgValid, wifiVars, nvsVars, restarts>>

Answered(damaged) ==
  /\ req' = NoRequest
  /\ torn' = damaged
  /\ UNCHANGED <<boot, cfgValid, wifiVars, flash, sVal, received, restarts>>

Store(key, text) == nvs' = [nvs EXCEPT ![key] = text]

\* Mutant: the password is kept under the name that onSetConfig uses.
PasswordKey_OfConfig == "WiFi_password"

PasswordKey == "WiFi_PASSWORD"

\* httpdFindArg returns -1 for an argument that is missing, which lenVal, a
\* size_t, takes for a length: the buffer is stored as it is.
InBuffer(arg) == IF arg = MISSING THEN sVal ELSE arg

\* onSetWiFi, set_wifi_params(SSID, NULL)
SetSsid ==
  /\ req.path = "/setwifi"
  /\ IF req.SSID = EMPTY
     THEN UNCHANGED nvs /\ Answered(torn)
     ELSE /\ Store("WiFi_SSID", InBuffer(req.SSID))
          /\ sVal' = InBuffer(req.SSID)
          /\ req' = [req EXCEPT !.path = "/setwifi, password"]
          /\ UNCHANGED <<boot, cfgValid, wifiVars, flash, torn, received, restarts>>

\* onSetWiFi, set_wifi_params(NULL, password)
SetPassword ==
  /\ req.path = "/setwifi, password"
  /\ IF req.password = EMPTY
     THEN UNCHANGED nvs
     ELSE Store(PasswordKey, InBuffer(req.password))
  /\ Answered(req.SSID \notin Names \/ req.password \notin Passwords)

\* onSave and onReset set bits of evtgrpMain, which nobody has created.
SaveOrReset ==
  /\ req.path \in {"/save", "/reset"}
  /\ Restart

Next ==
  \/ Load \/ StartStation \/ StartAccessPoint \/ Waited \/ WifiDone \/ StartWeb
  \/ StartTasks \/ MainLoop \/ PowerFails \/ Driver \/ WifiEventHandler
  \/ Receive \/ SetSsid \/ SetPassword \/ SaveOrReset

Spec == Init /\ [][Next]_vars

-----------------------------------------------------------------------------
(* Properties *)

\* TYPE INVARIANT of the boot, the network and the storage.
TypeOK ==
  /\ boot \in {"load", "wifi", "waiting", "unregister_ip", "unregister_wifi",
               "delete", "web", "tasks", "loop"}
  /\ wifiType \in {"NOT_CONNECTED", "AP", "STA"} /\ hasIp \in BOOLEAN
  /\ retry \in 0..3
  /\ group \in {"none", "exists", "deleted"}
  /\ bits \subseteq {"CONNECTED", "FAIL"}
  /\ handlers \subseteq {"WIFI_EVENT", "IP_EVENT"}
  /\ driver \in {"off", "ap", "idle", "connecting", "up"}
  /\ nvs \in [Keys -> Names \cup Passwords \cup Garbage \cup {NONE}]
  /\ cfgValid \in BOOLEAN /\ torn \in BOOLEAN

\* The event loop never calls a handler that would set bits of a group that is
\* not there yet or no more, whenever init_wifi gives up waiting
\* (my_network.c:340-342).
HandlerHasGroup ==
  driver # "ap" /\ handlers # {} => group = "exists"

\* While init_wifi waits, somebody still works on an answer or a bit is set:
\* the driver never rests with nothing to report and nobody told
\* (my_network.c:191-206).
WaiterIsTold ==
  boot = "waiting" /\ driver = "idle" /\ events = <<>> => bits # {}

\* init_wifi and its handler meet, in the event loop or on the other core: the
\* handler finds the group and the waiting task gets a verdict.
HandlerMeetsWaiter == HandlerHasGroup /\ WaiterIsTold

\* The network and the password that the next boot finds were sent by one
\* request, unless the last request left an argument out or met a restart; a
\* later whole request repairs the pair (webserver.c:40-123).
CredentialsTogether ==
  LET whole == {r \in Requests : /\ r.path = "/setwifi"
                                 /\ r.SSID \in Names /\ r.password \in Passwords}
  IN req = NoRequest /\ ~torn =>
       \/ nvs["WiFi_SSID"] = NONE /\ nvs["WiFi_PASSWORD"] = NONE
       \/ \E r \in whole : /\ nvs["WiFi_SSID"] = r.SSID
                           /\ nvs["WiFi_PASSWORD"] = r.password
=============================================================================
