---------------------------- MODULE CameraCapture ----------------------------
(***************************************************************************)
(* The camera's only frame buffer and the two tasks that want it: the web  *)
(* server, whose handler onCamCapture (main/webserver.c) sends a picture   *)
(* in pieces over several calls, and the MQTT task, whose                  *)
(* process_image_cmd (main/mqtt.c) uploads one.  get_camera_fb and         *)
(* return_camera_fb (main/cam.c) bracket the use of a frame with mtxCam,   *)
(* which is not recursive.                                                 *)
(*                                                                         *)
(* One httpd task serves all connections: libesphttpd calls the handler    *)
(* when a request has come in, again each time the socket has taken what   *)
(* was sent, and once more when the connection is closed under it          *)
(* (core/httpd.c, core/httpd-freertos.c).  A handler that waits for mtxCam *)
(* stops the whole server.  Requests for a picture carry no body here (one *)
(* longer than the server's POST buffer would call the handler again for   *)
(* each buffer of it).                                                     *)
(***************************************************************************)
EXTENDS Naturals, FiniteSets

CONSTANTS
  Conns,         \* connection slots of the server
  PictureSizes,  \* how many send buffers a picture may fill
  NoConn         \* the server serves no connection

ASSUME CaptureAssumption ==
  /\ NoConn \notin Conns
  /\ PictureSizes \subseteq Nat \ {0}

VARIABLES
  conn,     \* each slot: "free", "open" (no handler), "sending" (onCamCapture
            \* returned MORE) or "closing" (answered, to be closed when sent)
  left,     \* connData->cgiData: pieces of the picture still to be sent
  httpd,    \* "select", "take" (in xSemaphoreTake) or "grab" (the mutex taken)
  serving,  \* the connection whose handler the server runs
  mqtt,     \* "idle", "take", "grab" or "upload"
  mtxCam,   \* "free", or the task that took it
  framesOut \* frames taken from the driver and not returned

camVars == <<conn, left, httpd, serving, mqtt, mtxCam, framesOut>>

serverVars == <<conn, left, httpd, serving>>
cameraVars == <<mtxCam, framesOut>>

FrameBuffers == 1   \* camera_config.fb_count

CamInit ==
  /\ conn = [c \in Conns |-> "free"]
  /\ left = [c \in Conns |-> 0]
  /\ httpd = "select"
  /\ serving = NoConn
  /\ mqtt = "idle"
  /\ mtxCam = "free"
  /\ framesOut = 0

-----------------------------------------------------------------------------
(* The web server. *)

Accept(c) ==
  /\ httpd = "select"
  /\ conn[c] = "free"
  /\ conn' = [conn EXCEPT ![c] = "open"]
  /\ UNCHANGED <<left, httpd, serving, mqtt, cameraVars>>

\* GET /capture: httpdProcessRequest clears cgiData and calls onCamCapture,
\* which calls get_camera_fb.
CaptureRequest(c) ==
  /\ httpd = "select"
  /\ conn[c] = "open"
  /\ httpd' = "take"
  /\ serving' = c
  /\ left' = [left EXCEPT ![c] = 0]
  /\ UNCHANGED <<conn, mqtt, cameraVars>>

HttpdTakesMutex ==
  /\ httpd = "take"
  /\ mtxCam = "free"
  /\ mtxCam' = "httpd"
  /\ httpd' = "grab"
  /\ UNCHANGED <<conn, left, serving, mqtt, framesOut>>

\* httpdCgiIsDone: a chunked response leaves the connection to the next
\* request, any other has it closed once the data is sent.
IsAnswered(c) == \E next \in {"open", "closing"} : conn' = [conn EXCEPT ![c] = next]

\* A picture of n buffers.  One that fits in a single buffer is sent and the
\* handler is done; of a longer one the first piece is sent.
FirstPiece(n) ==
  /\ httpd = "grab"
  /\ framesOut < FrameBuffers
  /\ framesOut' = framesOut + 1
  /\ IF n = 1 THEN IsAnswered(serving)
              ELSE conn' = [conn EXCEPT ![serving] = "sending"]
  /\ left' = [left EXCEPT ![serving] = n - 1]
  /\ httpd' = "select"
  /\ serving' = NoConn
  /\ UNCHANGED <<mqtt, mtxCam>>

\* esp_camera_fb_get returns NULL: the mutex is given back, status 300 sent.
HttpdGrabFails ==
  /\ httpd = "grab"
  /\ mtxCam' = "free"
  /\ IsAnswered(serving)
  /\ httpd' = "select"
  /\ serving' = NoConn
  /\ UNCHANGED <<left, mqtt, framesOut>>

\* Mutant: the last piece is sent as if another one followed.
MiddlePiece_OffByOne(c) ==
  /\ left[c] >= 1
  /\ left' = [left EXCEPT ![c] = @ - 1]
  /\ UNCHANGED cameraVars

\* onCamCapture called again: a piece in the middle, or the last one, after
\* which return_camera_fb gives back the frame and the mutex.
MiddlePiece(c) ==
  /\ left[c] > 1
  /\ left' = [left EXCEPT ![c] = @ - 1]
  /\ UNCHANGED cameraVars

LastPiece(c) ==
  /\ left[c] = 1
  /\ left' = [left EXCEPT ![c] = 0]
  /\ framesOut' = framesOut - 1
  /\ mtxCam' = "free"

\* The socket has taken the previous piece: httpdSentCb, httpdContinue.
SendMore(c) ==
  /\ httpd = "select"
  /\ conn[c] = "sending"
  /\ \/ MiddlePiece(c) /\ UNCHANGED conn
     \/ LastPiece(c) /\ IsAnswered(c)
  /\ UNCHANGED <<httpd, serving, mqtt>>

\* recv fails or returns 0: closeConnection, httpdDisconCb.  The handler is
\* called with isConnectionClosed set, does not look at it and produces one
\* more piece; then the slot is retired.
CloseWhileSending(c) ==
  /\ httpd = "select"
  /\ conn[c] = "sending"
  /\ MiddlePiece(c) \/ LastPiece(c)
  /\ conn' = [conn EXCEPT ![c] = "free"]
  /\ UNCHANGED <<httpd, serving, mqtt>>

\* The same without a handler, by the client or after the last data was sent.
Close(c) ==
  /\ httpd = "select"
  /\ conn[c] \in {"open", "closing"}
  /\ conn' = [conn EXCEPT ![c] = "free"]
  /\ UNCHANGED <<left, httpd, serving, mqtt, cameraVars>>

-----------------------------------------------------------------------------
(* The MQTT task. *)

\* A message with format JPEG: process_image_cmd calls get_camera_fb.
ImageCommand ==
  /\ mqtt = "idle"
  /\ mqtt' = "take"
  /\ UNCHANGED <<serverVars, cameraVars>>

MqttTakesMutex ==
  /\ mqtt = "take"
  /\ mtxCam = "free"
  /\ mtxCam' = "mqtt"
  /\ mqtt' = "grab"
  /\ UNCHANGED <<serverVars, framesOut>>

MqttGrabs ==
  /\ mqtt = "grab"
  /\ framesOut < FrameBuffers
  /\ framesOut' = framesOut + 1
  /\ mqtt' = "upload"
  /\ UNCHANGED <<serverVars, mtxCam>>

\* Mutant: the failure path forgets the mutex.
MqttGrabFails_Keeps ==
  /\ mqtt = "grab"
  /\ mqtt' = "idle"
  /\ UNCHANGED <<serverVars, cameraVars>>

MqttGrabFails ==
  /\ mqtt = "grab"
  /\ mtxCam' = "free"
  /\ mqtt' = "idle"
  /\ UNCHANGED <<serverVars, framesOut>>

\* Mutant: the mutex is given back, the frame is not.
UploadEnds_KeepsFrame ==
  /\ mqtt = "upload"
  /\ mtxCam' = "free"
  /\ mqtt' = "idle"
  /\ UNCHANGED <<serverVars, framesOut>>

\* http_post_cam_picture has returned, with or without success.
UploadEnds ==
  /\ mqtt = "upload"
  /\ framesOut' = framesOut - 1
  /\ mtxCam' = "free"
  /\ mqtt' = "idle"
  /\ UNCHANGED serverVars

-----------------------------------------------------------------------------
\* The server's own work, which needs no further event from a client.
Serve ==
  \/ HttpdTakesMutex
  \/ \E n \in PictureSizes : FirstPiece(n)
  \/ HttpdGrabFails
  \/ \E c \in Conns : SendMore(c)

Clients == \E c \in Conns :
  Accept(c) \/ CaptureRequest(c) \/ CloseWhileSending(c) \/ Close(c)

Mqtt == MqttTakesMutex \/ MqttGrabs \/ MqttGrabFails \/ UploadEnds

CamNext == Serve \/ Clients \/ ImageCommand \/ Mqtt

CamSpec == CamInit /\ [][CamNext]_camVars

(***************************************************************************)
(* Fairness: both tasks run, every socket that is being sent to becomes    *)
(* writable again (or is closed), and an upload ends, if only by its time  *)
(* limit.  A free mutex goes to a task that waits for it; strong fairness, *)
(* since FreeRTOS keeps the waiters in a queue.                            *)
(***************************************************************************)
CamFairSpec ==
  /\ CamSpec
  /\ WF_camVars(Serve) /\ WF_camVars(Mqtt)
  /\ SF_camVars(HttpdTakesMutex) /\ SF_camVars(MqttTakesMutex)
  /\ \A c \in Conns : WF_camVars(SendMore(c))

-----------------------------------------------------------------------------
(* Properties. *)

\* TYPE INVARIANT; the theorem CameraTypeCorrect.
CamTypeOK ==
  /\ conn \in [Conns -> {"free", "open", "sending", "closing"}]
  /\ left \in [Conns -> Nat]
  /\ httpd \in {"select", "take", "grab"}
  /\ serving \in Conns \union {NoConn}
  /\ mqtt \in {"idle", "take", "grab", "upload"}
  /\ mtxCam \in {"free", "httpd", "mqtt"}
  /\ framesOut \in 0..FrameBuffers

\* A task that has the mutex and asks the driver for a frame finds the buffer
\* there: whoever let go of the mutex had returned the frame.
FrameIsThere == httpd = "grab" \/ mqtt = "grab" => framesOut = 0

\* A connection that is sending a picture still owns the frame and the mutex,
\* between calls and whatever the MQTT task does, and no other connection is
\* sending: the buffer it reads from is not returned or refilled under it.
SenderOwnsFrame ==
  \A c \in Conns : conn[c] = "sending" =>
    /\ framesOut = 1 /\ mtxCam = "httpd" /\ left[c] > 0
    /\ \A d \in Conns : conn[d] = "sending" => d = c

\* The MQTT task does not keep the camera: every upload ends with the mutex
\* given back.
MqttReleases == mtxCam = "mqtt" ~> mtxCam = "free"

\* libesphttpd/README.md:300-302, "The webserver will send the partial data and
\* will call the CGI function again ... until the CGI function finally returns
\* with HTTPD_CGI_DONE": a transfer that has begun ends.
TransferEnds == \A c \in Conns : conn[c] = "sending" ~> conn[c] # "sending"
=============================================================================
