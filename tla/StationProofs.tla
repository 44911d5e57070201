---------------------------- MODULE StationProofs ----------------------------
(***************************************************************************)
(* Proofs about what the station adds to its web server: its boot          *)
(* (Station) and the camera's frame, which the server and the MQTT task    *)
(* share (CameraCapture).                                                  *)
(*                                                                         *)
(* Of the boot: its types, that init_wifi and its event handler meet       *)
(* (HandlerMeetsWaiter), and that a network and its password are kept      *)
(* together (CredentialsTogether), for every set of requests and every     *)
(* number of restarts.                                                     *)
(* BootInv says what there is at each place of the boot; PairInv follows   *)
(* the two strings through the two steps of onSetWiFi.                     *)
(***************************************************************************)
EXTENDS Station, CameraCapture, TLAPS

-----------------------------------------------------------------------------
(* The inductive invariant *)

Both == {"WIFI_EVENT", "IP_EVENT"}
Reported == {"STA_START", "STA_DISCONNECTED", "STA_GOT_IP"}
Texts == Names \cup Passwords \cup Garbage \cup {NONE}

\* The types, with those of the events, the buffer and what is kept
TypeInv ==
  /\ TypeOK
  /\ events \in Seq(Reported)
  /\ sVal \in Names \cup Garbage
  /\ flash \in [Keys -> Texts]

\* Where the boot is, what is registered and exists
BootInv ==
  /\ boot \in {"load", "wifi"} => handlers = {} /\ driver = "off" /\ events = <<>>
  /\ boot \in {"waiting", "unregister_ip"} => handlers = Both
  /\ boot = "unregister_wifi" => handlers = {"WIFI_EVENT"}
  /\ boot = "delete" => handlers = {}
  /\ boot \in {"waiting", "unregister_ip", "unregister_wifi", "delete"} =>
       group = "exists" /\ driver # "ap"
  /\ boot \in {"web", "tasks", "loop"} =>
       handlers = {} \/ (driver = "ap" /\ events = <<>>)

\* The request that is worked on is one that came, or the rest of one.
ReqInv ==
  \/ req = NoRequest
  \/ req \in Requests
  \/ \E r \in Requests : /\ r.path = "/setwifi" /\ r.SSID # EMPTY
                         /\ req = [r EXCEPT !.path = "/setwifi, password"]

\* The strings of n were sent by one request, or there are none.
Pair(n) ==
  \/ n["WiFi_SSID"] = NONE /\ n["WiFi_PASSWORD"] = NONE
  \/ \E r \in Requests : /\ r.path = "/setwifi" /\ r.SSID \in Names /\ r.password \in Passwords
                         /\ n["WiFi_SSID"] = r.SSID /\ n["WiFi_PASSWORD"] = r.password

\* Only between the two steps of onSetWiFi the pair may be another one.
PairInv ==
  /\ ~torn /\ req.path # "/setwifi, password" => Pair(nvs)
  /\ req.path = "/setwifi, password" /\ req.SSID \in Names => nvs["WiFi_SSID"] = req.SSID

Inv == TypeInv /\ BootInv /\ WaiterIsTold /\ ReqInv /\ PairInv

-----------------------------------------------------------------------------
(* Frames *)

\* A step of the boot, the driver or the event loop leaves the strings alone.
LEMMA NvsAside ==
  ASSUME Inv, UNCHANGED <<nvsVars, webVars>>
  PROVE  ReqInv' /\ PairInv' /\ (sVal \in Names \cup Garbage)' /\ (flash \in [Keys -> Texts])'
         /\ (nvs \in [Keys -> Texts])' /\ (torn \in BOOLEAN)'
BY DEF Inv, TypeInv, TypeOK, Texts, ReqInv, PairInv, Pair, nvsVars, webVars

\* A step of the web server leaves the boot and the network alone.
LEMMA BootAside ==
  ASSUME Inv, UNCHANGED <<boot, cfgValid, wifiVars>>,
         (nvs \in [Keys -> Texts])', (torn \in BOOLEAN)',
         (sVal \in Names \cup Garbage)', (flash \in [Keys -> Texts])'
  PROVE  TypeInv' /\ BootInv' /\ WaiterIsTold'
BY DEF Inv, TypeInv, TypeOK, Texts, BootInv, WaiterIsTold, wifiVars

-----------------------------------------------------------------------------
(* The steps *)

LEMMA InitOK == Init => Inv
<1> SUFFICES ASSUME Init PROVE Inv
  OBVIOUS
<1>1. /\ boot = "load" /\ cfgValid = FALSE /\ wifiType = "NOT_CONNECTED" /\ hasIp = FALSE
      /\ retry = 0 /\ group = "none" /\ bits = {} /\ handlers = {} /\ driver = "off"
      /\ events = <<>> /\ nvs = [k \in Keys |-> NONE] /\ flash = nvs /\ torn = FALSE
      /\ req = NoRequest /\ sVal \in Garbage
  BY DEF Init
<1>2. nvs \in [Keys -> Texts] /\ events \in Seq(Reported) /\ retry \in 0..3
  BY <1>1 DEF Texts
<1>3. TypeInv
  BY <1>1, <1>2 DEF TypeInv, TypeOK, Texts
<1>4. BootInv /\ WaiterIsTold
  BY <1>1 DEF BootInv, WaiterIsTold
<1>5. ReqInv /\ PairInv
  BY <1>1 DEF ReqInv, PairInv, Pair, Keys, NoRequest
<1> QED
  BY <1>3, <1>4, <1>5 DEF Inv

\* setup and init_wifi
LEMMA BootOK ==
  ASSUME Inv,
         \/ Load \/ StartStation \/ StartAccessPoint \/ Waited \/ WifiDone \/ StartWeb \/ StartTasks
  PROVE  Inv'
<1>1. UNCHANGED <<nvsVars, webVars>> /\ retry' = retry
  BY DEF Load, StartStation, StartAccessPoint, Waited, WifiDone, StartWeb, StartTasks, wifiVars
<1>2. ReqInv' /\ PairInv' /\ (sVal \in Names \cup Garbage)' /\ (flash \in [Keys -> Texts])'
      /\ (nvs \in [Keys -> Texts])' /\ (torn \in BOOLEAN)'
  BY <1>1, NvsAside
<1>3. TypeInv' /\ BootInv' /\ WaiterIsTold'
  <2> USE <1>1, <1>2 DEF Inv, TypeInv, TypeOK, Texts, BootInv, WaiterIsTold, wifiVars
  <2>1. CASE Load
    BY <2>1 DEF Load
  <2>2. CASE StartStation
    <3>1. events' \in Seq(Reported) /\ events' # <<>>
      BY <2>2 DEF StartStation, Reported
    <3> QED
      BY <2>2, <3>1 DEF StartStation, Both
  <2>3. CASE StartAccessPoint
    BY <2>3 DEF StartAccessPoint
  <2>4. CASE Waited
    BY <2>4 DEF Waited
  <2>5. CASE WifiDone
    BY <2>5 DEF WifiDone, TearDown, Both
  <2>6. CASE StartWeb
    BY <2>6 DEF StartWeb
  <2>7. CASE StartTasks
    BY <2>7 DEF StartTasks
  <2> QED
    BY <2>1, <2>2, <2>3, <2>4, <2>5, <2>6, <2>7
<1> QED
  BY <1>2, <1>3 DEF Inv

\* The driver reports whenever it stops working on an answer.
LEMMA DriverOK == ASSUME Inv, Driver PROVE Inv'
<1>1. /\ UNCHANGED <<nvsVars, webVars>>
      /\ UNCHANGED <<boot, cfgValid, wifiType, hasIp, retry, group, bits, handlers>>
  BY DEF Driver
<1>2. ReqInv' /\ PairInv' /\ (sVal \in Names \cup Garbage)' /\ (flash \in [Keys -> Texts])'
      /\ (nvs \in [Keys -> Texts])' /\ (torn \in BOOLEAN)'
  BY <1>1, NvsAside
<1>3. PICK event \in Reported : events' = Append(events, event)
  BY DEF Driver, Report, Reported
<1>4. events' \in Seq(Reported) /\ events' # <<>>
  BY <1>3 DEF Inv, TypeInv
<1>5. driver \in {"connecting", "up"} /\ driver' \in {"idle", "up"}
  BY DEF Driver
<1>6. TypeInv'
  BY <1>1, <1>2, <1>4, <1>5 DEF Inv, TypeInv, TypeOK, Texts
<1>7. BootInv' /\ WaiterIsTold'
  BY <1>1, <1>4, <1>5 DEF Inv, BootInv, WaiterIsTold
<1> QED
  BY <1>2, <1>6, <1>7 DEF Inv

\* Every event that init_wifi waits for makes the driver try again or sets a bit.
LEMMA EventOK == ASSUME Inv, WifiEventHandler PROVE Inv'
<1> DEFINE event == Head(events)
<1>1. /\ UNCHANGED <<nvsVars, webVars>>
      /\ UNCHANGED <<boot, cfgValid, group, handlers>> /\ events # <<>> /\ events' = Tail(events)
  BY DEF WifiEventHandler
<1>2. ReqInv' /\ PairInv' /\ (sVal \in Names \cup Garbage)' /\ (flash \in [Keys -> Texts])'
      /\ (nvs \in [Keys -> Texts])' /\ (torn \in BOOLEAN)'
  BY <1>1, NvsAside
<1>3. events' \in Seq(Reported) /\ event \in Reported
  BY <1>1 DEF Inv, TypeInv
<1>4. /\ retry' \in 0..3
      /\ wifiType' \in {"NOT_CONNECTED", "AP", "STA"} /\ hasIp' \in BOOLEAN
      /\ bits \subseteq bits' /\ bits' \subseteq {"CONNECTED", "FAIL"}
  <2>1. retry \in 0..3 /\ wifiType \in {"NOT_CONNECTED", "AP", "STA"} /\ hasIp \in BOOLEAN
        /\ bits \subseteq {"CONNECTED", "FAIL"}
    BY DEF Inv, TypeInv, TypeOK
  <2>2. retry' \in {retry, 0} \/ (retry < 3 /\ retry' = retry + 1)
    BY DEF WifiEventHandler, GiveUp, MayRetry
  <2>3. wifiType' \in {wifiType, "NOT_CONNECTED"} /\ hasIp' \in {hasIp, TRUE, FALSE}
        /\ bits' \in {bits, bits \cup {"FAIL"}, bits \cup {"CONNECTED"}}
    BY DEF WifiEventHandler, GiveUp
  <2>4. retry' \in 0..3
    BY <2>1, <2>2
  <2> QED
    BY <2>1, <2>3, <2>4
<1>5. driver' \in {driver, "connecting"}
  BY DEF WifiEventHandler, GiveUp
<1>6. handlers = Both => bits' # {} \/ driver' = "connecting"
  BY <1>3 DEF WifiEventHandler, GiveUp, Both, Base, Reported
<1>7. TypeInv'
  BY <1>1, <1>2, <1>3, <1>4, <1>5 DEF Inv, TypeInv, TypeOK, Texts
<1>8. BootInv' /\ WaiterIsTold'
  BY <1>1, <1>5, <1>6 DEF Inv, BootInv, WaiterIsTold
<1> QED
  BY <1>2, <1>7, <1>8 DEF Inv

\* A restart forgets the boot; a pair that lost something is known to be torn.
LEMMA RestartOK == ASSUME Inv, Restart PROVE Inv'
<1>1. /\ boot' = "load" /\ cfgValid' = FALSE /\ wifiType' = "NOT_CONNECTED" /\ hasIp' = FALSE
      /\ retry' = 0 /\ group' = "none" /\ bits' = {} /\ handlers' = {} /\ driver' = "off"
      /\ events' = <<>> /\ req' = NoRequest /\ sVal' \in Garbage /\ flash' = nvs'
      /\ (torn' <=> torn \/ req.path = "/setwifi, password" \/ nvs' # nvs)
  BY DEF Restart
<1>2. nvs' \in [Keys -> Texts] /\ events' \in Seq(Reported) /\ retry' \in 0..3
  <2>1. nvs \in [Keys -> Texts] /\ flash \in [Keys -> Texts]
    BY DEF Inv, TypeInv, TypeOK, Texts
  <2>2. PICK lost \in SUBSET Keys :
          nvs' = [k \in Keys |-> IF k \in lost THEN flash[k] ELSE nvs[k]]
    BY DEF Restart
  <2>3. nvs' \in [Keys -> Texts]
    BY <2>1, <2>2
  <2>4. <<>> \in Seq(Reported) /\ 0 \in 0..3
    OBVIOUS
  <2>5. events' = <<>> /\ retry' = 0
    BY <1>1
  <2> QED
    BY ONLY <2>3, <2>4, <2>5
<1>3. torn' \in BOOLEAN
  BY DEF Restart
<1>4. TypeInv'
  BY <1>1, <1>2, <1>3 DEF TypeInv, TypeOK, Texts
<1>5. BootInv' /\ WaiterIsTold'
  BY <1>1 DEF BootInv, WaiterIsTold
<1>6. ReqInv' /\ PairInv'
  BY <1>1 DEF Inv, ReqInv, PairInv, Pair, NoRequest
<1> QED
  BY <1>4, <1>5, <1>6 DEF Inv

\* No request that comes is the rest of one.
LEMMA Shapes ==
  ASSUME NEW r \in Requests
  PROVE  /\ r.path \in {"/setwifi", "/save", "/reset"}
         /\ r.path = "/setwifi" =>
              /\ r.SSID \in Names \cup {MISSING, EMPTY}
              /\ r.password \in Passwords \cup {MISSING, EMPTY}
              /\ [r EXCEPT !.path = "/setwifi, password"].path = "/setwifi, password"
              /\ [r EXCEPT !.path = "/setwifi, password"].SSID = r.SSID
              /\ [r EXCEPT !.path = "/setwifi, password"].password = r.password
BY StationAssumption

\* Which of the two steps of onSetWiFi a request is at says where it comes from.
LEMMA Whence ==
  ASSUME Inv
  PROVE  /\ req.path = "/setwifi" => req \in Requests
         /\ req.path = "/setwifi, password" =>
              \E r \in Requests : /\ r.path = "/setwifi" /\ r.SSID # EMPTY
                                  /\ req = [r EXCEPT !.path = "/setwifi, password"]
<1>1. CASE req = NoRequest
  BY <1>1 DEF NoRequest
<1>2. CASE req \in Requests
  BY <1>2, Shapes
<1>3. ASSUME NEW r \in Requests, r.path = "/setwifi", r.SSID # EMPTY,
             req = [r EXCEPT !.path = "/setwifi, password"]
      PROVE  req.path = "/setwifi, password"
  BY <1>3, Shapes
<1> QED
  BY <1>1, <1>2, <1>3 DEF Inv, ReqInv

LEMMA ReceiveOK == ASSUME Inv, Receive PROVE Inv'
<1>1. UNCHANGED <<boot, cfgValid, wifiVars, nvsVars>> /\ req = NoRequest
      /\ req' \in Requests /\ sVal' \in Garbage
  BY DEF Receive
<1>2. TypeInv' /\ BootInv' /\ WaiterIsTold'
  BY <1>1, BootAside DEF Inv, TypeInv, TypeOK, Texts, nvsVars
<1>3. ReqInv' /\ PairInv'
  <2>1. req'.path # "/setwifi, password"
    BY <1>1, Shapes
  <2>2. req.path # "/setwifi, password"
    BY <1>1 DEF NoRequest
  <2> QED
    BY <1>1, <2>1, <2>2 DEF Inv, ReqInv, PairInv, Pair, nvsVars
<1> QED
  BY <1>2, <1>3 DEF Inv

\* What is stored in the place of an argument that is not there is the buffer.
LEMMA SetSsidOK == ASSUME Inv, SetSsid PROVE Inv'
<1>1. req \in Requests /\ req.path = "/setwifi"
  BY Whence DEF SetSsid
<1>2. CASE req.SSID = EMPTY
  <2>1. UNCHANGED <<boot, cfgValid, wifiVars, nvs, flash, torn, sVal>> /\ req' = NoRequest
    BY <1>2 DEF SetSsid, Answered
  <2>2. TypeInv' /\ BootInv' /\ WaiterIsTold'
    BY <2>1, BootAside DEF Inv, TypeInv, TypeOK, Texts
  <2>3. ReqInv' /\ PairInv'
    BY <1>1, <2>1 DEF Inv, ReqInv, PairInv, Pair, NoRequest
  <2> QED
    BY <2>2, <2>3 DEF Inv
<1>3. CASE req.SSID # EMPTY
  <2> DEFINE text == InBuffer(req.SSID)
  <2>1. /\ UNCHANGED <<boot, cfgValid, wifiVars, flash, torn>>
        /\ nvs' = [nvs EXCEPT !["WiFi_SSID"] = text] /\ sVal' = text
        /\ req' = [req EXCEPT !.path = "/setwifi, password"]
    BY <1>3 DEF SetSsid, Store
  <2>2. text \in Names \cup Garbage /\ (req.SSID \in Names => text = req.SSID)
    BY <1>1, <1>3, Shapes, StationAssumption DEF InBuffer, Inv, TypeInv
  <2> HIDE DEF text
  <2>3. nvs' \in [Keys -> Texts] /\ nvs'["WiFi_SSID"] = text
    BY <2>1, <2>2 DEF Inv, TypeInv, TypeOK, Texts, Keys
  <2>4. TypeInv' /\ BootInv' /\ WaiterIsTold'
    BY <2>1, <2>2, <2>3, BootAside DEF Inv, TypeInv, TypeOK, Texts
  <2>5. req'.path = "/setwifi, password" /\ req'.SSID = req.SSID
    BY <1>1, <2>1, Shapes
  <2>6. ReqInv' /\ PairInv'
    BY <1>1, <1>3, <2>1, <2>2, <2>3, <2>5 DEF ReqInv, PairInv
  <2> QED
    BY <2>4, <2>6 DEF Inv
<1> QED
  BY <1>2, <1>3

\* The second string goes with the first if the request had both.
LEMMA SetPasswordOK == ASSUME Inv, SetPassword PROVE Inv'
<1> DEFINE text == InBuffer(req.password)
<1>1. PICK r \in Requests : /\ r.path = "/setwifi" /\ r.SSID # EMPTY
                            /\ req = [r EXCEPT !.path = "/setwifi, password"]
  BY Whence DEF SetPassword
<1>2. req.SSID = r.SSID /\ req.password = r.password /\ req.path = "/setwifi, password"
      /\ r.password \in Passwords \cup {MISSING, EMPTY}
  BY <1>1, Shapes
<1>3. /\ UNCHANGED <<boot, cfgValid, wifiVars, flash, sVal>> /\ req' = NoRequest
      /\ (torn' <=> req.SSID \notin Names \/ req.password \notin Passwords)
      /\ \/ nvs' = nvs /\ req.password = EMPTY
         \/ nvs' = [nvs EXCEPT !["WiFi_PASSWORD"] = text] /\ req.password # EMPTY
  BY DEF SetPassword, Answered, Store, PasswordKey
<1>4. torn' \in BOOLEAN
  BY DEF SetPassword, Answered
<1>5. /\ req.password # EMPTY => text \in Names \cup Garbage \cup Passwords
      /\ req.password \in Passwords => text = req.password /\ req.password # EMPTY
  BY <1>2, StationAssumption DEF InBuffer, Inv, TypeInv
<1> HIDE DEF text
<1>6. /\ nvs' \in [Keys -> Texts]
      /\ nvs'["WiFi_SSID"] = nvs["WiFi_SSID"]
      /\ req.password \in Passwords => nvs'["WiFi_PASSWORD"] = req.password
  BY <1>3, <1>5 DEF Inv, TypeInv, TypeOK, Texts, Keys
<1>7. TypeInv' /\ BootInv' /\ WaiterIsTold'
  <2>1. sVal' \in Names \cup Garbage /\ flash' \in [Keys -> Texts]
    BY <1>3 DEF Inv, TypeInv
  <2>2. UNCHANGED <<boot, cfgValid, wifiVars>>
    BY <1>3
  <2> QED
    BY <1>4, <1>6, <2>1, <2>2, BootAside
<1>8. ~torn' => Pair(nvs')
  <2>1. req.SSID \in Names => nvs["WiFi_SSID"] = req.SSID
    BY <1>2 DEF Inv, PairInv
  <2>2. ~torn' => req.SSID \in Names /\ req.password \in Passwords
    BY <1>3
  <2>3. ASSUME req.SSID \in Names, req.password \in Passwords
        PROVE  r.SSID \in Names /\ r.password \in Passwords
               /\ nvs'["WiFi_SSID"] = r.SSID /\ nvs'["WiFi_PASSWORD"] = r.password
    BY <1>2, <1>6, <2>1, <2>3
  <2> QED
    BY <1>1, <2>2, <2>3 DEF Pair
<1>9. ReqInv' /\ PairInv'
  BY <1>3, <1>8 DEF ReqInv, PairInv, NoRequest
<1> QED
  BY <1>7, <1>9 DEF Inv

LEMMA StepOK == Inv /\ [Next]_vars => Inv'
<1> SUFFICES ASSUME Inv, [Next]_vars PROVE Inv'
  OBVIOUS
<1>1. CASE UNCHANGED vars
  <2>1. UNCHANGED <<boot, cfgValid, wifiVars, nvsVars, webVars>>
    BY <1>1 DEF vars
  <2> QED
    BY <2>1, NvsAside, BootAside DEF Inv
<1> QED
  BY <1>1, BootOK, DriverOK, EventOK, RestartOK, ReceiveOK, SetSsidOK, SetPasswordOK
     DEF Next, MainLoop, PowerFails, SaveOrReset

-----------------------------------------------------------------------------
(* Theorems *)

\* What holds at each place of the boot, and of the two strings between the
\* steps of onSetWiFi (main.c setup, my_network.c, webserver.c onSetWiFi).
THEOREM Inductive == Spec => []Inv
BY InitOK, StepOK, PTL DEF Spec

\* The boot, the network and the storage have the values the code expects, for
\* every set of requests, and however often the power fails.
THEOREM TypeCorrect == Spec => []TypeOK
<1>1. Inv => TypeOK
  BY DEF Inv, TypeInv
<1> QED
  BY <1>1, Inductive, PTL

\* Whenever init_wifi gives up waiting, its handler is not called without the
\* group of bits, and while it waits the driver works or a bit is set
\* (init_wifi, wifi_event_handler).
THEOREM HandlerMeets == Spec => []HandlerMeetsWaiter
<1>1. Inv => HandlerMeetsWaiter
  BY DEF Inv, TypeInv, TypeOK, BootInv, HandlerMeetsWaiter, HandlerHasGroup
<1> QED
  BY <1>1, Inductive, PTL

\* What the next boot connects with was sent by one request, unless the last
\* one left something out or the power failed (onSetWiFi, set_wifi_params).
THEOREM CredentialsAreTogether == Spec => []CredentialsTogether
<1>1. Inv => CredentialsTogether
  BY DEF Inv, PairInv, Pair, CredentialsTogether, NoRequest
<1> QED
  BY <1>1, Inductive, PTL

-----------------------------------------------------------------------------
(* The camera's frame *)

\* Who holds the mutex, task by task: the MQTT task exactly from xSemaphoreTake
\* to return_camera_fb, the server while it grabs.
HolderInv ==
  /\ mtxCam = "mqtt" <=> mqtt \in {"grab", "upload"}
  /\ httpd = "grab" => mtxCam = "httpd"

\* The frame is out only under the mutex, and no task that still has to grab
\* finds it out.
FrameInv ==
  /\ mtxCam = "free" => framesOut = 0
  /\ FrameIsThere
  /\ mqtt = "upload" => framesOut = 1

\* While the server is inside a capture handler, that connection is open.
ServingInv == httpd # "select" => serving \in Conns /\ conn[serving] = "open"

CamInv == CamTypeOK /\ HolderInv /\ FrameInv /\ ServingInv /\ SenderOwnsFrame

LEMMA CamInitInv == CamInit => CamInv
  BY CaptureAssumption
  DEF CamInit, CamInv, CamTypeOK, HolderInv, FrameInv, FrameIsThere, ServingInv,
      SenderOwnsFrame, FrameBuffers

\* What a further call of the handler does to the camera: it keeps the frame
\* and has more to send, or it gives back the frame and the mutex.
LEMMA PieceSent ==
  ASSUME CamInv, NEW c \in Conns, conn[c] = "sending", MiddlePiece(c) \/ LastPiece(c)
  PROVE  /\ left' \in [Conns -> Nat]
         /\ \A d \in Conns \ {c} : conn[d] # "sending"
         /\ httpd # "grab" /\ mqtt \notin {"grab", "upload"}
         /\ \/ MiddlePiece(c) /\ left'[c] > 0 /\ framesOut' = 1 /\ mtxCam' = "httpd"
            \/ LastPiece(c) /\ framesOut' = 0 /\ mtxCam' = "free"
<1>1. /\ framesOut = 1 /\ mtxCam = "httpd" /\ left[c] > 0
      /\ \A d \in Conns \ {c} : conn[d] # "sending"
  BY DEF CamInv, SenderOwnsFrame
<1>2. httpd # "grab" /\ mqtt \notin {"grab", "upload"}
  BY <1>1 DEF CamInv, HolderInv, FrameInv, FrameIsThere
<1>3. CASE MiddlePiece(c)
  BY <1>1, <1>2, <1>3 DEF MiddlePiece, CamInv, CamTypeOK, cameraVars
<1>4. CASE LastPiece(c)
  BY <1>1, <1>2, <1>4 DEF LastPiece, CamInv, CamTypeOK
<1> QED
  BY <1>3, <1>4

LEMMA CamServeInv == ASSUME CamInv, Serve PROVE CamInv'
<1> USE CaptureAssumption
    DEF CamInv, CamTypeOK, HolderInv, FrameInv, FrameIsThere, ServingInv,
        SenderOwnsFrame, FrameBuffers
<1>1. CASE HttpdTakesMutex
  BY <1>1 DEF HttpdTakesMutex
<1>2. ASSUME NEW n \in PictureSizes, FirstPiece(n) PROVE CamInv'
  <2>1. n \in Nat \ {0} /\ serving \in Conns /\ mtxCam = "httpd" /\ mqtt \notin {"grab", "upload"}
    BY <1>2 DEF FirstPiece
  <2>2. \A d \in Conns : conn[d] # "sending"
    BY <1>2 DEF FirstPiece
  <2>3. CASE n = 1
    BY <1>2, <2>1, <2>2, <2>3 DEF FirstPiece, IsAnswered
  <2>4. CASE n # 1
    BY <1>2, <2>1, <2>2, <2>4 DEF FirstPiece
  <2> QED
    BY <2>3, <2>4
<1>3. CASE HttpdGrabFails
  BY <1>3 DEF HttpdGrabFails, IsAnswered
<1>4. ASSUME NEW c \in Conns, SendMore(c) PROVE CamInv'
  <2>1. conn[c] = "sending" /\ (MiddlePiece(c) \/ LastPiece(c))
    BY <1>4 DEF SendMore
  <2>2. CASE MiddlePiece(c) /\ UNCHANGED conn
    BY <1>4, <2>1, <2>2, PieceSent DEF SendMore, MiddlePiece, cameraVars
  <2>3. CASE LastPiece(c) /\ IsAnswered(c)
    BY <1>4, <2>1, <2>3, PieceSent DEF SendMore, LastPiece, IsAnswered
  <2> QED
    BY <1>4, <2>2, <2>3 DEF SendMore
<1> QED
  BY <1>1, <1>2, <1>3, <1>4 DEF Serve

LEMMA CamClientsInv == ASSUME CamInv, Clients PROVE CamInv'
<1> USE CaptureAssumption
    DEF CamInv, CamTypeOK, HolderInv, FrameInv, FrameIsThere, ServingInv,
        SenderOwnsFrame, FrameBuffers
<1> SUFFICES ASSUME NEW c \in Conns,
                    Accept(c) \/ CaptureRequest(c) \/ CloseWhileSending(c) \/ Close(c)
             PROVE  CamInv'
  BY DEF Clients
<1>1. CASE Accept(c)
  BY <1>1 DEF Accept, cameraVars
<1>2. CASE CaptureRequest(c)
  BY <1>2 DEF CaptureRequest, cameraVars
<1>3. CASE CloseWhileSending(c)
  BY <1>3, PieceSent DEF CloseWhileSending
<1>4. CASE Close(c)
  BY <1>4 DEF Close, cameraVars
<1> QED
  BY <1>1, <1>2, <1>3, <1>4

LEMMA CamMqttInv == ASSUME CamInv, ImageCommand \/ Mqtt PROVE CamInv'
<1> USE CaptureAssumption
    DEF CamInv, CamTypeOK, HolderInv, FrameInv, FrameIsThere, ServingInv,
        SenderOwnsFrame, FrameBuffers, serverVars
<1>1. CASE ImageCommand
  BY <1>1 DEF ImageCommand, cameraVars
<1>2. CASE MqttTakesMutex
  BY <1>2 DEF MqttTakesMutex
<1>3. CASE MqttGrabs
  BY <1>3 DEF MqttGrabs
<1>4. CASE MqttGrabFails
  BY <1>4 DEF MqttGrabFails
<1>5. CASE UploadEnds
  BY <1>5 DEF UploadEnds
<1> QED
  BY <1>1, <1>2, <1>3, <1>4, <1>5 DEF Mqtt

\* Every reachable state satisfies the inductive invariant.
THEOREM CameraInductive == CamSpec => []CamInv
<1>1. CamInit => CamInv
  BY CamInitInv
<1>2. CamInv /\ [CamNext]_camVars => CamInv'
  <2> SUFFICES ASSUME CamInv, [CamNext]_camVars PROVE CamInv'
    OBVIOUS
  <2>1. CASE UNCHANGED camVars
    BY <2>1 DEF camVars, CamInv, CamTypeOK, HolderInv, FrameInv, FrameIsThere,
                ServingInv, SenderOwnsFrame
  <2> QED
    BY <2>1, CamServeInv, CamClientsInv, CamMqttInv DEF CamNext
<1> QED
  BY <1>1, <1>2, PTL DEF CamSpec

\* The variables keep to their ranges; in particular no more frames are
\* returned to the driver than were taken from it.
THEOREM CameraTypeCorrect == CamSpec => []CamTypeOK
<1>1. CamInv => CamTypeOK
  BY DEF CamInv
<1> QED
  BY <1>1, CameraInductive, PTL

\* A task that has been given the mutex never waits in the driver for a frame
\* that another task still has (main/cam.c, get_camera_fb).
THEOREM FrameAvailable == CamSpec => []FrameIsThere
<1>1. CamInv => FrameIsThere
  BY DEF CamInv, FrameInv
<1> QED
  BY <1>1, CameraInductive, PTL

\* Between two calls of onCamCapture the frame that is being sent stays with
\* its connection, the only one that sends.
THEOREM SenderKeepsFrame == CamSpec => []SenderOwnsFrame
<1>1. CamInv => SenderOwnsFrame
  BY DEF CamInv
<1> QED
  BY <1>1, CameraInductive, PTL
=============================================================================
