# Verification of RemoteRelayControlStation

TLA+ models of the firmware under `src/RemoteSwitch` (paths below are relative to
it), the TLC configurations that check them on small instances, and proofs that
TLAPS checks for every value of the constants.

The station is an ESP32 with a camera and relays. A web server (libesphttpd, kept in
`components/`) and an MQTT client take commands; FreeRTOS tasks carry them out.

    browser ──HTTP──> httpd task ── handlers of main/webserver.c ──> relays (main.c, relay.c)
                       (libesphttpd)   │        │        │              ^  mtxRelayTime
                                       │        │        └─> NVS, config file   │
                                       │        └──────────> OTA slots (cgiflash.c)
                                       └─> camera (cam.c) <── mtxCam ──┐   task_relay
    MQTT broker ──────> MQTT task ── process_image_cmd (mqtt.c) ───────┘

## 1. Inventory

| Component | State | Operations | Hard behaviour | What makes it correct |
|---|---|---|---|---|
| Relays: `main/relay.c`, `main.c:40-210`, `onSetRelay` | `Relays[]`, pins, `RelayTimemsRemain`, `mtxRelayTime` | `relay_switch`, `set_relay_state`, `set_timed_relay_state`, `task_relay` | two tasks, 200 ms pulses, one command path without a lock, clock of the task against its delays | coils are released, countdowns end on time, the reported state is the contact |
| Camera: `cam.c`, `onCamCapture`, `process_image_cmd` | one frame buffer, `mtxCam`, `cgiData` | `get_camera_fb`, `return_camera_fb`, the calls of the handler | the mutex is kept from one call of a handler to the next | every taker returns it, a frame being sent is not refilled |
| Send buffer: `core/httpd.c:290-475` | `sendBuff`, `chunkHdr`, flags | `httpdSend`, `httpdEndHeaders`, `httpdFlushSendBuffer` | limits of the buffer, sizes filled in later | chunks framed, responses ended, nothing written behind the buffer, for handlers that leave enough of it free |
| Connection: `core/httpd.c:470-926`, `core/httpd-freertos.c` | `conn->post`, `cgi`, `url`, flags, `needWriteDoneNotif` | `httpdRecvCb`, `httpdContinue`, `closeConnection`, the select loop | data, write notifications and closing in any order, handlers of many calls | each request answered once, no wait for ever, resources freed |
| Firmware update: `util/cgiflash.c` | OTA slots, OTA data, `UploadState`, `resetTimer` | `cgiUploadFirmware`, `cgiSetBoot`, `cgiEraseFlash`, `cgiRebootFirmware` | uploads on several connections, failed writes, loss of power | the device can always boot, a success tells of the client's own image |
| Server task: `core/httpd-freertos.c` | `rconn[]`, the listening sockets, `shutdown`, `isShutdown` | `platHttpServerTask`, `closeConnection`, `httpdPlatShutdown` | slots that are used again, failing `accept`, a shutdown by datagrams | no connection inherits from another, every client has its turn, a shutdown ends |
| Boot, configuration, main loop: `main.c`, `Config.c`, `webserver.c` | `cfg`, the config file, NVS, `evtgrpMain` | `setup`, `load_config`, `save_config`, `set_wifi_params`, `onReset`, `onSave` | power that fails between two steps, half-stored credentials | SSID and password belong together |
| WiFi: `my_network.c` | `WiFiConnType`, `ipWiFi`, `nWiFiRetry`, `evtgrpWiFi` | `init_wifi`, `wifi_event_handler` | events against the time limit of the wait | the handler meets the task that waits for it |
| MQTT: `mqtt.c` | topics, subscriptions | `mqtt_event_handler` | - | commands reach their processor |
| Stepper: `task_stepper.c` | `motstate`, `limitno` | the loop of `task_motor` | limit switches against commands | the motor never runs into a stop |
| Button debouncer | history bits per port | `button_process` and queries | - | one press, one report |
| Files over HTTP: `core/httpd-espfs.c`, `util/esp32_httpd_vfs.c` | open file, position, template state, `UploadState` | `serveStaticFile`, `cgiEspFsTemplate`, `cgiEspVfsGet`, `cgiEspVfsTemplate`, `cgiEspVfsUpload` | tokens cut by piece ends, errors and closing in the middle | what is sent is the file, an answer says what was written, files are closed |
| espfs, `mkespfsimage` | the image, open files | `handleFile`, `espFsOpen`, `espFsRead`, `espFsSeek` | reads of any size over a packed file | what is read is the file |
| heatshrink | window, bit state of encoder and decoder | `sink`, `poll`, `finish` | any cut of the input | decoding undoes encoding |
| Websockets: `util/cgiwebsocket.c` | frame parser, list of connections | receive, send, broadcast, close | frames cut anywhere, broadcasts from callbacks | frames heard and pings answered once, the list holds the open sockets |
| WiFi pages: `util/esp32_wifi.c` | scan data, `cfg_state`, timers | scan, connect, WPS | callbacks and timers against requests | an attempt ends, with the old network kept if it fails |
| Captive DNS, base64, sha1, auth | per call | pure functions and single calls | boundaries of packets and buffers | reference results |
| cJSON, greatest.h, image tools, web pages | - | - | - | vendored, build host or browser |

The snapshot does not build as it stands: `setup` in `main.c` declares `initConfig`
twice and holds two versions of its beginning, and `main/CMakeLists.txt:1` leaves out
`mqtt.c`, `cam.c`, `Config.c`, `webclient.c` and `task_stepper.c`, which the other files
call. The models take every file as it is written, and the parts of `setup` in their order.

`PROJECT.json` lists every component with its status, and under `hazards` the places that a
test would hardly reach, with the properties that cover them. Hazards that were met and that
no property covers have a note there that says why, and are told in section 6.

## 2. Plan

Modules, the most important behaviour first:

1. done: the station's own core, `RelayControl`, `CameraCapture`, `HttpdSend`, `HttpdConn` (implements
   `HttpdExchange`), `FirmwareUpdate`.
2. done: the rest of the station and of the library, `Station` (boot, network, credentials), `HttpdServer`
   (the server task), `WifiConfig` and `WifiManager` (`esp32_wifi.c`), `Handlers` (`FileHandlers`,
   `Templates`, `Websocket`), `EspFsSystem` (`EspFs`, `HeatshrinkEncoder`, `HeatshrinkDecoder`, `HeatshrinkTool`).
3. done: proofs about everything the station's own tasks share, and about the library's tasks around them
   (section 7): the modules of 1, the safety half of the refinement of `HttpdExchange`, `HttpdServer`, `Station`,
   `WifiConfig` and `WifiManager`.
4. done: proofs about the handlers that are called piece by piece: files, uploads, templates and sockets (`Handlers`).
5. not planned: what section 8 lists, and proofs about the codecs of `EspFsSystem` (end of section 7).

One passing run per component is the rule, and modules whose code runs by itself in one task
(`EspFsSystem`, `Handlers`) share one. Two runs show disagreements with what the code's documents
say; the others that were met are told in section 6.

## 3. Modules

A module's actions are named after the functions they stand for; `PROJECT.json` "map" gives
the lines of every definition. Definitions whose name contains `_` and whose comment
begins with "Mutant:" are plausible bugs: put in the place of the definition they vary, each makes one
property fail. They are not used by any specification.

### RelayControl

The tasks `httpd` and `task_relay` are program counters; every access to shared data is a
step, since the two cores run them in parallel. `mtx` is `mtxRelayTime`, `remain` is
`RelayTimemsRemain`, `state`, `pinA`, `pinB` are the relay's fields and pins. The locations
`setA … store` are the statements of `relay_switch`; a normal relay goes from `setA` to `store`.
`UntimedCommand` and `TimedCommand` are the two branches at the end of `onSetRelay`, reached with
what `Parsed` makes of the arguments (section 6). `ArmTimer` is
`set_timed_relay_state` after its `xSemaphoreTake`, `TakeMutex … Wake` one turn of `task_relay`.
`TakeNullMutex`: before `task_relay` has run, `mtxRelayTime` is NULL, and taking it fails an
assertion of the kernel. `Restart` keeps nothing but the armatures of latching relays.

Time is counted in periods of `task_relay` (100 ms) and passes when no task can run. `latch`
and `pulse` are the armature, which moves for sure under one coil for a whole pulse; with both
coils driven it may stay or move. `clean`, `manual` and `due` are history.

### CameraCapture

`conn` and `left` are a connection and `cgiData` (pieces still to be sent), `httpd` is where the
one server task is, `mqtt` where the MQTT task is, `mtxCam` the mutex, `framesOut` the driver's only
buffer (`fb_count = 1`). `FirstPiece`, `HttpdGrabFails`, `MiddlePiece`, `LastPiece` are the exits of
`onCamCapture`; `CloseWhileSending` is the call after a disconnection, which this handler takes
for another request for data. `get_camera_fb` takes the mutex and then asks the driver: two steps.

### HttpdSend

Only lengths. `Send` and `httpdEndHeaders` are what a handler does, `httpdSend` is the function,
`More` and `Done` its two returns with the flush that follows. `reserve` is the discipline of the
handler: `onCamCapture` keeps 1024 bytes free, most keep none. `strcpy` of the last chunk writes six bytes where the flush has
asked for five: `Overruns` is the write behind the buffer, `Unsent` what it may do to the length that is sent next.

### HttpdConn and HttpdExchange

`HttpdExchange` says what a client expects of one connection: answers in order, once, never
before the request was sent, and no hanging up on a client that waits. `HttpdConn` is the
implementation: the head parser and the POST buffer (`ReadHead`, `ReadJunk`, `ReadBody`, one token of
input at a time), the handlers (`CallCgi` with the `httpdCgiIsDone` behind it), the write notification
(`Continue`, `Disconnect`, `CloseSent`) and closing. A token is a run of bytes without a line end.
A `stream` handler may find the end of its file in its last call and send nothing (`lastEmpty`). The refinement maps `answers`, `open` and the number of requests sent; a client that does not wait
for its answers before it sends more, or has a body that fits neither the buffer nor a handler that waits for the whole of it
(`Fits`), is promised nothing and mapped to one that never asked.
`CloseSent` may call `closeConnection` twice: after closing, the loop tests descriptor -1 in the set of
readable sockets (`httpd-freertos.c:481`), whose answer is undefined.

### FirmwareUpdate

A call of a handler is a step, as the server is one task. `flash` is what each app partition
holds in each cell (a chunk of POST data), `boot` the choice in the OTA data, `up` the `UploadState` of each
connection. `Chunk` and `Write` are the loop of `cgiUploadFirmware` with its fall-through from
`FLST_START` to `FLST_WRITE`, `Finish` the end with `esp_ota_end` and `esp_ota_set_boot_partition`. The OTA
functions are external and modelled as they are used: `esp_ota_begin` refuses the running
partition and erases the slot, a write can fail and only clears bits, `esp_ota_end` verifies the image. `answer` is what a client is told of
its upload; `alone` and `changed` are history, whether another upload has touched the slot and whether the last call has.

### HttpdServer

The loop of `platHttpServerTask`: `Select`, `Accept` or `AcceptFails`, one `Turn` per slot with the write side
before the read side, and `platHttpServerTaskDeinit` when the datagram of `httpdPlatShutdown` has arrived. `rconn`
is the array of slots, with what a handler left in a connection's data as `cgi`, which is `"old"` after
closing until `httpdConnectCb` clears it. What the parser and the handlers do is reduced to their effects
on the slot (`Runs`, `httpdRecvCb`, `httpdSentCb`); `HttpdConn` has the rest. Clients come to the listening
socket's queue and hang up. The failing of `socket`, `bind` and `listen` is retried for ever and not a step; that of the
datagram socket's `bind` ends the task (`UdpBindFails`).

### Station

`boot` is where `main` is in `setup`, `init_wifi` and `app_main`; the event loop runs
`WifiEventHandler` for what `Driver` reports; the web server handles one request at a time
(`Receive`, `SetSsid`, `SetPassword`, `SaveOrReset`). `Waited` is the return of
`xEventGroupWaitBits`, with a bit or with the time limit, `TearDown` the unregistering of both handlers and the deletion of
the group. `nvs` is what reads return, `flash` what survives a `Restart`: any string that was set and not
committed may be lost. `Restart` happens at any time (`PowerFails`) and at the end of every boot (`MainLoop`,
section 6). `torn` is history: a request that was not whole, or a restart inside one.

### Handlers: FileHandlers, Templates and Websocket

`FileHandlers` has the calls of `cgiEspFsHook`, `cgiEspVfsGet` and `cgiEspVfsUpload`: `StaticFirst`, `VfsFirst`, `UploadFirst`
are first calls, `ServeNext`, `UploadNext` later ones, `ServeClosed`, `UploadClosed` the one after the
connection has closed, which may come between any two. `Filepath` is `getFilepath` of both files for
every kind of route, `Tried` and `FirstOf` are `tryOpenIndex`. `fwrite` writes into the buffer of stdio: what of it is lost when the
file is closed is chosen then (`Losses`). `Templates` adds `cgiEspFsTemplate` and
`cgiEspVfsTemplate`: `TemplateNext` reads a piece, and each turn of the loop over its characters is an
action; `Token` leaves the loop when the callback wants another call, and `chunkResume` makes the next call go on at
the same place. What a call sends goes into a buffer with room for `SendRoom` bytes (`used`), and is dropped when there is none, as `httpdSend`
does. `Expansion` says what a text stands for in either handler, read as a whole.

`Websocket` has `cgiWebsocket` (`Upgrade`, `Sent`, `Closed`) and the loop of `cgiWebSocketRecv`: `Header`
is a turn that ends inside the head of a frame, and `Ping`, `LongPing`, `Data`, `Unmasked1002`, `CloseFrame`,
`Ignored` are turns with payload, by opcode. In the callbacks the application answers, sends to all sockets
(`Broadcast`) or closes. A byte is a set and the mask a symmetric difference, so that a byte that is
unmasked with the wrong byte of the mask is told from the right one. `llStart` is the list, in order.
`Handlers` runs either a request for a file or the sockets.

### WifiConfig and WifiManager

Three tasks: the web server (`web`), the timer task (`timerTask`) and the event loop (`eventTask`), and a
`driver` that joins, loses the link, ends WPS and scans by itself and posts events. `WifiConfig` has
`update_wifi` (`RequestComes`, `UpdateTakes`, `UpdateStores`), `startWps` and `handle_config_timer`, one
action for each `case` of its `switch` (`WpsStart`, `WpsActive`, `Update`, `Connecting`, `Fallback`) between taking
the lock and leaving it. `WifiManager` adds the scans: `cgiWiFiStartScan` and `cgiWiFiScan` by their accesses to shared data
(`ScanPage`, `GetData`, `SendRecord`, `PageEnds`; `StartScan`, `ScanStarts`, `TimerStarts`), the timer that stops a hanging scan
(`ScanTimer`, `StopScan`, `ClearFlag`) and `wifi_scan_done` (`ScanDone`, `Publish`, `PutNew`, `ScanOver`,
`TimerStops`). `refs` are the reference counts of `kref.h`.

### EspFsSystem: EspFs, HeatshrinkEncoder, HeatshrinkDecoder, HeatshrinkTool

The encoder and the decoder are their state machines, one action per state (`StepSearch` with a step of its loop per action,
`YieldTagBit`, `YieldLiteral`, ...; `TagBit`, `YieldLiteralByte`, `BackrefIndexLsb`, ...), with `sink`, `poll` and `finish` as the
callers use them. `HeatshrinkTool` is the command line tool: it packs an input and unpacks the result, with the input and the output
cut into pieces of any of the sizes. `EspFs` is `mkespfsimage` (`TakeFile` ... `FinishArchive`), which makes an
image from a list of files, and `espfs.c` on the station, which opens, reads, seeks and closes them; a read
of a packed file is the loop of `espFsRead` (`FeedDecoder`, `PollDecoder`, `DecoderPolled`).

## 4. Runs

| Run | Instance | Distinct states | What it shows |
|---|---|---|---|
| `relay_both` | a latching and a normal relay, pulse of 2 periods, requests for relay 0, 1, 2, timed and untimed, one with a missing argument | 208419 | types; both coils are driven at once only by an untimed command; no coil stays on; `ReportIsTrue`: after a switch that no other overlapped the reported state is the contact, a counting relay is on unless an untimed command came later, and countdowns end on the period they should; all countdowns that no untimed command takes over end |
| `capture` | 3 connections, pictures of 1-3 pieces | 738 | whoever has the mutex finds the frame; a picture being sent keeps it; the MQTT task always gives the camera back |
| `send_buffer` | buffer of 24 bytes, pieces of 0, 1, 3, 4, 9 bytes, reserves 0, 7 and 8 | 2213 | what `httpdSend` counts stays in the buffer; eight bytes of reserve are enough for framing and ending and for the NUL behind the last chunk, seven are not |
| `conn_serves` | all plans of one or two requests with bodies of 0 to 4 tokens against a buffer of 2, three handlers of up to 3 calls, with and without a last call that sends nothing; clients that wait and clients that do not | 177442 | to a client that waits and whose requests fit, `HttpdConn` implements `HttpdExchange`; `OnceEach`: no request loses an open file, no orderly one is answered twice or told twice of a disconnection; connections are closed, but for a silent last call |
| `flash_update` | factory app and two slots, 2 connections, two images, 2 cells, uploads of up to 3 chunks, both builds | 201570 | the device boots; a success leaves the client's own image in its slot, unless another touched the slot and its own last write failed; the factory app is kept |
| `server_slots` | 2 slots, 3 clients that come again and again | 177868 | a slot that is used again has nothing of the connection before; every client in the queue gets a slot; a shutdown ends with all connections closed |
| `station_boot` | 2 networks, 2 restarts, 3 requests of 8 kinds, 2 events waiting | 154789 | the event handler finds the group and the waiting task gets its verdict; SSID and password were sent together |
| `wifi_manager` | 2 networks and the one of WPS, 2 access points, every mode, 2 requests, 2 connections that read scans, failing timers, allocations and scans | 472298 | the results of a scan live exactly as long as somebody holds them; a failed attempt restores what was there; attempts and scans end |
| `handlers` | every text of up to 5 signs as a template, files of 0-5 bytes against pieces of 2, every kind of route, uploads; callbacks that send 2, 7 or 8 bytes a call into room for 7; 2 sockets and 6 sequences of frames | 1054531 | files are served whole, and an upload is a success exactly if the file took all of it; a template becomes its expansion, unless a callback sends more than there is room for; files and sockets are given back once; frames are heard, and pings answered, however they are cut |
| `espfs` | windows of 16 bytes, 10 inputs and 10 lists of files over several windows, reads of 1, 7, 64 bytes, buffers of 1, 2, 64 bytes | 61282 | decoding undoes encoding; what is read is the file; the programs end |
| `capture_stuck` | 2 connections | violation | a second capture stops the server |
| `wifi_scan_hangs` | a driver whose scan may hang | violation | the timer that should stop a hanging scan may itself be stopped |

Bounds and why they are enough:

- `MaxLag` (RelayControl) bounds how late `task_relay` may be when a request is accepted. Every
  request can delay it by a pulse; without a bound it could fall behind for ever. One period late already gives
  back-to-back passes. The pulse of 2 periods is the code's (200 ms and 100 ms).
- Request times of 100, 150 and 650 ms are exactly one step, between two steps, and long enough for
  an untimed command to begin and finish while the countdown runs. `StackValues` is one
  value, 0: what the uninitialised buffer reads as.
- CameraCapture: three connections give a sender, a waiting one and one more; pictures of 1, 2 and 3 pieces have no,
  one or two later calls.
- HttpdSend: 24 bytes let six bytes of chunk size, CR LF and last chunk compete with data in every order; a handler
  leaves nothing, one byte too few, or enough.
- HttpdConn: a buffer of two tokens has bodies below, at and above its size; body 4 fills it twice. Two requests are
  one and what comes behind it; no plan is left out.
- FirmwareUpdate: two cells make half-written slots, two images make mixed ones, and three chunks an upload that is
  too long for its slot and fails at the end; connections and OTA slots are
  symmetric, and no property names one of them.
- HttpdServer: two slots and three clients let one wait with all slots taken, and a slot be freed and
  used again while the other is busy.
- Station: two restarts put one inside a request and one behind it; three requests are one that spoils the
  pair, one that repairs it and one more. `MaxEvents` bounds the queue of the event loop; an attempt and a broken link
  fill it.
- WifiManager: two requests are one under way and one that comes meanwhile; a third multiplies the states by more than
  ten and adds no new pair. `CfgTimeout` is one run of the timer: an attempt that ends in time and one that does not.
  Three pieces of memory for results are the published ones, those being filled and those that a slow connection
  still reads.
- Templates: pieces of two signs and tokens of two cut every token at every place; texts of five
  signs have two tokens, or one that is too long. A callback needs two calls for a name of one sign. Room for seven
  bytes is as much as a piece, a token and the shortest answer need, and less than two of the longer ones.
- Websocket: pieces of 1, 3 and 100 bytes begin and end at every byte; the frames have every form of length, are
  data, control or neither, and the sequences put a ping between and behind data. One act of the application
  (`MaxActs`) may come in any callback. Clients mask their pings (section 6).
- EspFsSystem: a window of 16 bytes with back references of 8 is the smallest that heatshrink allows; the files
  are two to four windows long, so that the encoder moves its buffer and the decoder's ring goes round. Blocks
  repeat within a window, over two, and not at all.

`CHECK_DEADLOCK FALSE` stands where the system may stop: a camera that is never given back, a
connection that is closed, a response that is done, a server that was shut down, a request that was served, a
tool that has ended, a station or a manager whose bounds of requests, restarts and events are used up. The runs of
`RelayControl` and `FirmwareUpdate` check for deadlock.

## 5. Fairness

- RelayControl: `WF(Httpd)`, `WF(TaskRelay)`, `WF(Tick)`. Both tasks have the same priority on a
  preemptive scheduler, a relay command takes no lock for ever, and time passes. Requests and restarts
  are never forced; `CountdownEnds` therefore asks that requests stop, and speaks of relays that no untimed command takes over.
- CameraCapture: both tasks run (`WF`), each socket that is sent to becomes writable or is closed, and a free mutex
  goes to a waiter (`SF` of the two takes), since FreeRTOS keeps waiters in a queue ordered by
  priority and time.
- HttpdConn: `WF(Server)` only. The client need not send, and may hang up.
- HttpdExchange: `WF` of answering, or of hanging up on a client that has left.
- HttpdServer: the task runs when select has something for it (`WF`); `accept` does not fail for ever
  (`SF(Accept)`); a client with a slot leaves in the end (`WF(HangUp)`): the server itself sends no idle client
  away, since `httpdPlatDisableTimeout` and with it every time limit is unimplemented
  (`httpd-freertos.c:74`). `httpdPlatShutdown` goes on sending datagrams, and one arrives (`WF(SendShutdown)`).
- WifiManager: the timer task, the event loop and a request that has begun go on (`WF`). `Spec` lets a scan
  hang, `SpecAnswering` adds that the driver ends its scans. Joining, losing the link and WPS may take for ever: an attempt
  ends by its own time limit.
- EspFsSystem: `mkespfsimage`, the tool and a read that has begun run on (`WF`); a caller need not read.

FirmwareUpdate, HttpdSend, Station and Handlers are checked for safety only.

## 6. Where code and documents part

Two runs show a disagreement; "findings" in `PROJECT.json` quotes the lines:

- `capture_stuck`: a second request for a picture waits inside the only server task for a mutex that the first connection's
  next call would give back (`webserver.c:383`);
- `wifi_scan_hangs`: `wifi_scan_done` clears `scan_in_progress` before it stops the timer, which by then may
  be the timer of the next scan (`esp32_wifi.c:353`).

Met while modelling, and without a run of their own:

Relays and camera:

- an untimed switch-on does not cancel a pending countdown, which ends it later (`main.c:51`, `:74` against `webserver.c:287`,
  "timems 0:forever"): relay 2 of `relay_both` goes off after `Post(2, 1, 150)` and `Post(2, 1, 0)`. `CountdownEnds` and `ReportIsTrue`
  leave such relays out, and no property says that they stay on;
- of two overlapping switches the state that is stored last is reported, whatever the armature did (`relay.c:43`), and after a boot
  a latching relay is reported off, whatever its position (`:23`): `ReportIsTrue` speaks of the time after a switch that nothing overlapped;
- a timed command between `main.c:176` and `:184` has its countdown erased, and the relay stays on (`ZeroTimers`); one before that takes
  a mutex that is NULL (`TakeNullMutex`). `CountdownEnds` begins when `task_relay` is past that place;
- a timed command switches the relay on whatever `state` it carries (`main.c:75` against
  `webserver.c:286`, "0:off 1:on"); `ArmTimer` does as the code does;
- `httpdFindArg` returns -1 for a missing argument (`httpd.c:157`), which `onSetRelay` stores in an unsigned
  `lenVal` and takes for found (`webserver.c:298`): it then reads the text of the previous
  argument; `Found` and `Parsed` model it;
- `onGetRelay` reads the state and the 64-bit countdown without the mutex (`webserver.c:351`);
- a picture of one piece, and a connection that closes while a picture is sent, leave `onCamCapture` without
  `return_camera_fb` (`webserver.c:407`, `httpd.c:904` against libesphttpd's `README.md:356`): frame and mutex are gone.

Connection and server:

- a handler that is done before the body is complete leaves the rest of it to be parsed as the next head, or, on a connection that
  is to be closed, is run again for it, answers again, and may be told of the end twice, since the loop tests the closed descriptor
  (`httpd.c:862`, `:870`, `httpd-freertos.c:481`; `README.md:356` promises one answer and one call to clean up). `Orderly` says for which
  requests this cannot happen, `OnceEach` that for those it does not; the run has the others too;
- the last call of `serveStaticFile` may send nothing, and a connection that is to be closed when its data is sent ("Mark to get it
  killed after all data is sent", `httpd.c:475`) then stays open until the client leaves (`httpd-espfs.c:201`): `SilentEnd` in `ConnectionEnds`;
- a full send buffer drops the CR LF of a chunk whose size is reduced all the same (`httpd.c:399`), and the
  last chunk (`:412`); with exactly five bytes free the NUL of `strcpy` goes onto the low byte of `sendBuffLen` (`:415`; `httpd.h:99-100`),
  and up to 255 bytes may not be sent. A handler that leaves eight bytes is safe from all three (`CarefulFraming`, `CarefulEnds`);
- a failed allocation of the POST buffer is reported by `httpdParseHeader` and ignored by its caller (`httpd.c:732`);
  a head longer than `HTTPD_MAX_HEAD_LEN` is cut and never ends (`httpd.c:822`);
- two servers that start together take the same port for their shutdown (`httpd-freertos.c:246`, a FIXME): the second
  ends without setting `isShutdown`, and `httpdPlatShutdown` waits for ever; a handler that asked for the shutdown
  would wait for itself; a failed `accept` leaves out the rest of the round; the branch for "all connections in use"
  and the one for a failing `httpdSentCb` cannot be reached; a `write` to a client that takes nothing stops
  the whole server (assumed to end).

Firmware update:

- `cgiUploadFirmware` ignores a failing `esp_ota_set_boot_partition` (`cgiflash.c:334`), so that a success does not mean that the new image is
  booted; `cgiSetBoot` answers an unknown partition with success (`:576`), where `espfs/flash/index.html:81` and `:114` say it was set;
- the state FLST_ERROR of a failing last write is overwritten by FLST_DONE (`cgiflash.c:294`): if another upload has completed its own
  image in the same slot meanwhile, `esp_ota_end` finds that one whole, and the client is told of a success with another's image in the slot.
  `SuccessIsOwn` says that this is the only case;
- an upload that is broken off or refused never calls `esp_ota_abort` (`cgiflash.c:161`); `cgiEraseFlash` reads the size of a
  partition that may be NULL (`:601`).

Boot, network, configuration:

- `evtgrpMain` is never created (`main.c:28`, used at 214, 219, 240): with the kernel's assertions on, the station
  restarts when `app_main` comes to its loop, or when `/save` or `/reset` is asked for before. `save_config` is thereby
  unreachable; it would truncate the file before it writes it (`Config.c:152`);
- a request without a password stores the SSID as the password, as above (`webserver.c:102`, `:109`); `CredentialsTogether`
  exempts such requests, and a restart between the two `nvs_set_str` (`webserver.c:51`), until a whole request comes;
- `nvs_get_str` gets lengths that were never set and may refuse a string that is there: the station then opens its own
  access point (`FoundInNvs`); `pdTICKS_TO_MS(10000)` is the wrong macro for the time limit of the wait (`my_network.c:322`);
- an address and four broken links before `init_wifi` wakes leave the type STA without an address; after the boot the
  handlers are unregistered (`my_network.c:341`), so that nobody updates `WiFiConnType` or joins again;
- `onSetConfig` and `onGetConfig` have no route; as they are, they write every character of a text to its first byte, compare
  `WiFi_SSID` with `strcmp` the wrong way round, and use another key for the password than `setup` reads.

Files and templates:

- `espFsStat` answers 1 for a file where `getFilepath` takes 1 for "none" (`httpd-espfs.c:214-262`): a route to a single file is not
  recognised; `Filepath` does as the code does;
- `cgiEspVfsTemplate` asks for the status of a name that was not written yet, ignores `getFilepath` and closes a file it has not got
  (`"crashed"`); `cgiEspVfsUpload` writes to a state that it could not allocate; `cgiEspVfsGet` reads an `Accept-Encoding` that may
  not be there (`SeesGzip`) and serves a file that is marked as packed without asking for it;
- a token that the end of a template cuts off is dropped, and the VFS version drops what is too long for a token;
- nobody looks at what `httpdSend` answers in the template handlers (`httpd-espfs.c:429`, `:441`, `:503-508`, `:528`): text or an answer that finds
  no room is missing from the page (`httpd.c:306`). It takes a callback that sends more than `AnswerRoom` in a call, 2042 - 1024 - 64 = 954 bytes
  on the station: 2048 less the head of a chunk, a piece of the file and a token;
- `cgiEspVfsUpload` takes what `fwrite` put into its buffer for written and does not look at what `fclose` says (`esp32_httpd_vfs.c:549`): a success may
  be told of a file that lacks its end (`upload.lost`); its `getFilepath` takes the length of a base path before it asks whether there is
  one (`:72`): a route without crashes (`Crash`);
- rewinding a packed file leaves the decoder as it is and puts the position on the byte of the sizes (`SeekTo`): nobody does it, and
  `Caller` leaves it out; `espFsInit` refuses an image without files; packing an empty file writes one byte into `malloc(0)`, and empty files
  are left out.

Websockets:

- the flag `WEBSOCK_FLAG_MORE` is "set if the data is not the final data in the message" (`cgiwebsocket.h:7`), but the pieces of a
  frame all carry the flag of the frame (`cgiwebsocket.c:258`): the first half of a last frame is called final.
  WEBSOCK_FLAG_BIN, "set if the data is binary" (`:8`), is not set for the continuation of a binary message. `heard` has the data alone;
- a close frame whose payload has not come is answered with two bytes from behind the piece (`:265`), and data behind a close frame
  that was served is given to `cgiWebSocketRecv` with no socket (`httpd.c:876`; `ReceiveNull`);
- "We assume the recvhdlr has sent something" (`httpd.c:881`): the answer to a close frame of the station's own sends
  nothing, and the connection stays open until the client leaves;
- a broadcast from a callback empties the send buffer of its own connection, with a pong that waits in it, and comes into the middle of a
  pong whose ping has come in part (`spoilt`); a ping that is not masked is answered through the mask of an earlier frame.

WiFi pages:

- a WPS that fails to start is noted and then overwritten with `wps_active` (`esp32_wifi.c:713-746`); a request for the mode NULL interrupts an
  attempt and leaves WPS on; in the mode AP `cgiWiFiConnect` answers OK and does nothing;
- the pages read the configuration without the lock before `update_wifi` stores it (`:1000`, `:1071`): a change that the timer makes in between is undone,
  and a station that connects meanwhile is switched over without being told to connect;
- a timer that finds the lock taken and cannot be armed again leaves the attempt where it is (`gaveUp`), as the comment at `:683` says;
  the answers of `xTimerReset` elsewhere are ignored.

## 7. Proofs

All are about the specifications that TLC checks, for every value of the constants that the
named assumption of the module allows. The pattern is the same: an inductive invariant that holds initially,
is kept by every action (one step of the proof each) and implies the property.

| Module | Assumption | Inductive invariant | Theorems |
|---|---|---|---|
| `RelayControlProofs` | `RelayAssumption`: any number of relays of either type, any requests for relays up to `N_RELAYS`, any pulse length and step | `IInv`: types; `LockInv` (who holds the mutex is where the tasks are); `WantInv` (`task_relay` only switches off); `CoilInv` (every energised coil has a task that will clear it). `ReportInv`, on top of it: `CommandInv`, `CountInv`, `ScheduleInv` (the passes that a countdown is still owed), `CleanInv` (how far a switch that nothing overlaps has come) | `TypeCorrect`, `MutexDiscipline` (`OnlyHolderSwitches`), `CoilsReleased`, `OpposedOnlyByUntimed`, `ReportsTruth` (`ReportIsTrue`) |
| `StationProofs`, on `CameraCapture` | `CaptureAssumption`: any connections, any picture sizes | `CamInv`: types; `HolderInv`, `FrameInv` (frame and mutex move together); `ServingInv`; `SenderOwnsFrame` | `CameraTypeCorrect`, `FrameAvailable` (`FrameIsThere`), `SenderKeepsFrame` (`SenderOwnsFrame`) |
| `HandlersProofs`, on `Handlers` | `FilesAssumption`, `TemplatesAssumption`, `SocketsAssumption`, `CasesAssumption`, `ScriptsAssumption`: any files, sizes, names and requests, any sockets and frames, cut anywhere | `FilesInv`: `CaseInv`, `OpenInv` (there is a handle exactly while a call is to come), `ServeInv`, `UploadInv` (how far an upload has come in a state), `TurnInv`, `PieceInv` (the buffer is the piece read last). `ExpandInv`, on top of it: `PassInv`, `SentInv` (what was sent, and what is still to be sent where the parser is, is what the text stands for). `LossInv` joins them: `RoomInv` (what a call has put into the send buffer is what it has passed, and something is only dropped in a call whose callback sent more than `AnswerRoom`); while nothing is dropped `ExpandInv`, and from then on that what was sent before begins the expansion. `WsInv`: `SockInv`, `ListInv`. `FramesInv`: `FrameTypes`, `WireInv`, `LenInv`, `SockFrames` (each parser is behind some frames and in the middle of one, and what was heard and answered goes up to there) | `TypeCorrect` (`TypeOK`), `FilesTold` (`FilesAsTold`), `AllGivenBack` (`GivenBack`), `TemplatesExpanded` (`TemplateIsExpansion`), `FramesHeardInOrder` (`FramesArrive`) |
| `HttpdSendProofs` | `SendAssumption`: any buffer up to 65535 bytes, any lengths | `IInv`: types, `ChunkInv` (the open chunk lies in the buffer), `AcceptedInv` (its length is what was accepted); `RInv` adds `ReserveInv`: CR LF, last chunk and its NUL still fit | `TypeCorrect`, `FramingWithReserve`, `EndsWithReserve` |
| `FirmwareUpdateProofs` | `UpdateAssumption`: any partitions, image size, connections, upload lengths | `Inv`: types; `WritersAllowed` (an upload that writes has a slot that may be written); `OwnCells` (a slot that nobody else has touched holds what its upload has written so far); `StillBoots`; `FactoryKept` | `TypeCorrect`, `AlwaysBoots`, `SuccessMeansOwn` (`SuccessIsOwn`), `FactoryUntouched` |
| `HttpdConnProofs` | `ConnAssumption`: any plans of clients, any POST buffer, any number of pieces of a file | `PosInv` (the server reads behind the client); `OnceInv` (`ClientInv`: a client that waits goes on only where the connection is kept; `CurrentInv`: the stages of a request on either kind of connection, `AnswersInv`, `ClosingInv`, `FileReleased`); `ExchangeInv` (a client that waits and whose requests fit is in one of four stages, and at most one request ahead) | `TypeCorrect`, `EachOnce` (`OnceEach`), `ImplementsExchange` (`Spec => Exchange!SafeSpec`) |
| `HttpdServerProofs` | `ServerAssumption`: any number of slots, any clients, with or without the support for a shutdown | `ServerInv`: types; `PendingInv` (who is to be accepted is in the queue); `OneplaceInv` (a client is in one place); `SlotInv` (what closing leaves in a slot); `DownInv` (when the server says that it is down) | `TypeCorrect`, `SlotsAreClean` (`NothingInherited`), `ShutdownClosesAll` |
| `StationProofs`, on `Station` | `StationAssumption`: any requests, any number of restarts and events | `Inv`: types; `BootInv` (what is registered and exists at each place of the boot); `WaiterIsTold`; `ReqInv` (a request that is worked on came as it is, or lost its first step); `PairInv` (the two strings between the steps of `onSetWiFi`) | `TypeCorrect`, `HandlerMeets` (`HandlerMeetsWaiter`), `CredentialsAreTogether` (`CredentialsTogether`) |
| `WifiManagerProofs` | `ConfigAssumption`, `ManagerAssumption`: any networks, access points, requests and time limit; finitely many connections, any memory for results | `CfgInv`: types; `LockInv`; `WholeInv` (what is given to the driver is a configuration); `RestoreInv` (what an attempt would come back to is what was before). `ScanInv`: types; `EventInv`; `GetInv` (`get_scan_data` between reading and counting); `CountInv`; `RecordsInv` (what somebody holds is not empty, and an iterator is inside it) | `TypeCorrect`, `ScanDataIsAlive` (`ScanDataAlive`), `FallsBack` (`FallbackRestores`, an action property) |

Why the strengthenings are needed:

- `NoCoilLeftOn` alone says that some task is in `relay_switch`, not that this task will clear the coil; `CoilInv`
  does, and survives another task clearing it first. `ReportIsTrue` compares a state with a contact when nobody
  switches: only `CleanInv` says why the contact is there at that time, namely by the ticks that the pulse has left and
  those the armature has moved. A countdown that keeps to the time of `task_relay` is an equation only at its end;
  `ScheduleInv` is what holds of it before and behind the turn of each pass.
- `FrameIsThere` depends on a chain (mutex free, hence no frame out) that only `FrameInv` carries from one
  holder to the next.
- `StillBoots` would fail for an upload that began before a reboot into its slot, if a restart did not end every
  upload: `WritersAllowed` carries that.
- `SuccessIsOwn` compares a slot with the image of the client that is told of a success, and the last write of that client may have failed.
  `OwnCells` follows the slot from the first chunk, for as long as nobody else touches it: a failed write then leaves it short,
  and `esp_ota_end` refuses it.
- `OnceEach` counts answers; that no request gets a second one depends on where in its request the server is whenever a
  handler may be called, from data as from a write notification: `CurrentInv`. For the refinement, that place is enough to tell
  which step of `HttpdExchange` an action is, if any: `ExchangeInv`.
- `NothingInherited` needs a client to be in one place before it gets a slot (`OneplaceInv`), and tells nothing of free slots,
  which `SlotInv` does.
- `HandlerHasGroup` follows from the order in which `init_wifi` creates, registers, unregisters and deletes, which only
  `BootInv` has whole. `CredentialsTogether` holds between requests; `PairInv` adds that after the first of the two steps
  the network is that of the request, so that the second completes its pair.
- `ScanDataAlive` at the step in which `get_scan_data` counts depends on the pointer not having moved since it was read: `data_lock`
  (`GetInv`). A reference that is put back is there because an iterator or the event loop is counted (`CountInv`).
- `FallbackRestores` compares with what was before the attempt, and a request for the mode NULL overwrites the saved
  configuration meanwhile; `RestoreInv` says why that is harmless: such an attempt never falls back, or WiFi was off when it began.
- `FilesAsTold` speaks of a response that has ended; `ServeInv` and `UploadInv` say at every call how position, size, state
  and what was written hang together. `GivenBack` counts handles, which only `OpenInv` ties to the call that is next.
- `TemplateIsExpansion` compares what was sent with the whole text when a template ends. At a turn of the loop, something has
  been passed and not sent: text that waits for its end (`InText`), the signs of a token (`InToken`), the parts of an answer
  that the callback still owes (`InAnswer`). `SentInv` has one equation for each, and `PassInv` says that no piece ends early, so
  that the pieces together are the text. Each of them needs that `httpdSend` had room for what it was given: `RoomInv` counts
  what a call has sent against the sign of the piece at which the loop is.
- `FramesArrive` says that what the application heard begins what it should hear, and is all of it once all was read. The parser holds a frame by a few numbers
  (`status`, `len`, `maskCtr`, `mask`); `SockFrames` says at which byte of which frame these numbers put it. A pong is sent
  before its bytes, so that the answers are whole but for the bytes that the frame still lacks (`WholeBut`).

`Bytes`, `ToHear` and `ToEcho` (folds over the frames) and `Expansion` (a recursive function of the text) are reasoned about
without an induction theorem, which would need an operator as its parameter. Where one would be used, the smallest counterexample is
taken (`Least`, from the well-foundedness of the natural numbers) and shown to have a smaller one; `Expansion` is defined from
the end of its text, and that it is defined at all is proved in this way.

What `Handlers` assumes of its surroundings: a token is answered in at least one call, because the callback is
called at least once (`Parts`), and the array for tokens has room for a sign; a client masks its pings (RFC 6455, 5.1);
a frame is as long as its form can say, and only the last one is broken off, or one at which the server ends the connection
and reads no further.

No plan of a client is excluded from the theorems of `HttpdConnProofs`. Since the code answers some requests more than once
(section 6), the properties themselves say what is promised to whom. `OnceEach` promises one answer to the request that is `Orderly`:
its connection is kept, or its body fits the buffer or its handler waits for the whole of it, and the client sends nothing behind
that body. `Exchange` promises order to a client that waits and whose requests `Fits` says to fit. That no file is lost
is promised to every client.

`StationAssumption` says that a missing and an empty argument are no texts, `ConfigAssumption` that the network without a name
and the one WPS finds are networks; the others only bound numbers from below and give requests their shape.

`RelayAssumption` keeps requests to relays up to `N_RELAYS`: the code has no upper check, and a
larger number indexes past `Relays`, which has no meaning to state.

Only model-checked:

- everything under fairness (`CountdownEnds`, `MqttReleases`, `ConnectionEnds`, `Accepted`, `ShutdownEnds`, `AttemptEnds`,
  `ScanEnds`, `ProgramsEnd`, and the liveness of `Implements`), which is out of the prover's reach;
- `RoundTrip` and `ReadIsFile`: what the decoder makes of the encoder's bits is a statement about both programs run to the end, by
  induction over the input and over the window it was packed with;
- `TypeOK` of `EspFsSystem`: that the position in a packed file stays within its size is what `ReadIsFile` says of its bytes.

## 8. Not modelled

- The radio, the file systems, the allocator and the JSON parser are outside; where a call of theirs may fail and
  the code looks at it, the failure is an alternative of the action. Contents of responses, header fields and routing are
  abstracted.
- Websockets: sending more than the send buffer holds, the text of close frames, and broadcasts from
  another task. The library takes the server's lock around each send, but walks the list without it, while
  `websockFree` unlinks (`cgiwebsocket.c:140-150`); no task of this firmware broadcasts.
- heatshrink with windows of more than 256 bytes, and without the index; what gzip packs is a given sequence of bytes.
- The stepper motor (not in the component's source list), the button debouncer (no caller), captive DNS (not started), base64, sha1
  and authentication (pure functions, no route asks for a password), the build without an operating system.
- Within the modelled components: `cancel_timed_relay` and `relay_timer_callback` have no callers; `onGetRelay`
  and the pages that only report change nothing; what `cgiSetBoot` answers is left out; the ESP8266 build of
  `cgiUploadFirmware` and uploads of file-system images do not exist in this firmware; the TLS build of the server differs in the names of its calls;
  the support for a shutdown is off by default (Kconfig) and modelled as on.

The reasons stand with each component in `PROJECT.json`.
