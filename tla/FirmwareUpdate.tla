--------------------------- MODULE FirmwareUpdate ---------------------------
(***************************************************************************)
(* Updates over the air (libesphttpd, util/cgiflash.c): uploads of new     *)
(* firmware on several connections at once, the choice of the partition    *)
(* that is booted, erasing data partitions, reboots and losses of power.   *)
(*                                                                         *)
(* The web server is one task: a call of a handler is one step.  A call of *)
(* cgiUploadFirmware gets one POST buffer of data, a chunk.  The OTA       *)
(* functions of ESP-IDF are modelled as the handlers use them.             *)
(***************************************************************************)
EXTENDS Naturals

CONSTANTS
  Conns,           \* connections to the server
  Apps, Factory,   \* the app partitions; the one that is no OTA slot
  Cells,           \* chunks in a whole image
  Images, Shipped, \* uploads that begin like an app; the one sold with the device
  NotAnImage,      \* an upload that does not
  MaxLen,          \* the longest upload, in chunks
  FactoryOptions,  \* values of CONFIG_ESPHTTPD_ALLOW_OTA_FACTORY_APP
  NoPart, Unknown  \* no partition is named; a name that no partition has

ASSUME UpdateAssumption ==
  /\ Factory \in Apps /\ NoPart \notin Apps /\ Unknown \notin Apps
  /\ Cells \in Nat \ {0} /\ MaxLen \in Nat
  /\ Shipped \in Images /\ NotAnImage \notin Images
  /\ "erased" \notin Images /\ "mixed" \notin Images
  /\ FactoryOptions \subseteq BOOLEAN

VARIABLES
  allowFactory,  \* the build option
  flash,         \* what the cells of each app partition hold
  boot,          \* the partition chosen by the OTA data
  running,       \* the partition the device runs from
  up,            \* the upload of each connection: its UploadState and its post;
                 \* history: alone, no other upload has touched its slot since
  timer,         \* resetTimer runs
  answer         \* the success that the last step has told a client of; history: what
                 \* it uploaded, alone, and whether the last call has changed the slot

vars == <<allowFactory, flash, boot, running, up, timer, answer>>

Partition == 1..Cells
Contents == Images \union {"erased", "mixed"}
Erased == [n \in Partition |-> "erased"]

NoUpload == [state |-> "none", part |-> NoPart, img |-> NotAnImage, len |-> 0, got |-> 0,
             alone |-> TRUE]
Nothing == [kind |-> "none", part |-> NoPart, img |-> NotAnImage, alone |-> TRUE, changed |-> FALSE]

\* esp_image_verify.
Whole(fl, p) == \E i \in Images : fl[p] = [n \in Partition |-> i]

Init ==
  /\ allowFactory \in FactoryOptions
  /\ running \in Apps /\ boot = running
  /\ flash = [p \in Apps |-> IF p \in {Factory, running}
                               THEN [n \in Partition |-> Shipped] ELSE Erased]
  /\ up = [c \in Conns |-> NoUpload]
  /\ timer = FALSE
  /\ answer = Nothing

-----------------------------------------------------------------------------
(* cgiUploadFirmware. *)

\* Mutant: the slot that is running is not spared.
MayUpdate_Running(p) == p \in Apps /\ (p # Factory \/ allowFactory)

\* Mutant: the subtype of the factory partition is always disguised.
MayUpdate_Factory(p) == p \in Apps /\ p # running

\* esp_ota_begin takes an OTA slot that is not running; with the build option
\* the factory partition passes for one.
MayUpdate(p) == p \in Apps /\ p # running /\ (p # Factory \/ allowFactory)

\* The partition named in the arguments, or else the next slot, which is one
\* that does not run.
Targets(name) ==
  IF name = NoPart THEN Apps \ {running, Factory}
  ELSE IF name = Unknown THEN {NoPart}
  ELSE {name}

FirstCall(part, img, len) ==
  [state |-> IF part = NoPart THEN "error" ELSE "start",
   part |-> part, img |-> img, len |-> len, got |-> 0, alone |-> TRUE]

\* esp_ota_write on flash that is not erased: it can only lose bits.
Programmed(old, img) == IF old \in {"erased", img} THEN img ELSE "mixed"

\* Mutant: a write that fails is not taken for the end of the upload.
Write_Early(u, n, fl, st, fl2) ==
  \/ /\ n \in Partition
     /\ fl2 = [fl EXCEPT ![u.part][n] = Programmed(fl[u.part][n], u.img)]
     /\ st = "done"
  \/ fl2 = fl /\ st = IF n = u.len THEN "done" ELSE "error"

\* FLST_WRITE with the n-th chunk: the state and the flash after it.  A write
\* may fail, and does when the partition is full; if it was the last, the end
\* of the data hides that.
Write(u, n, fl, st, fl2) ==
  \/ /\ n \in Partition
     /\ fl2 = [fl EXCEPT ![u.part][n] = Programmed(fl[u.part][n], u.img)]
     /\ st = IF n = u.len THEN "done" ELSE "write"
  \/ fl2 = fl /\ st = IF n = u.len THEN "done" ELSE "error"

\* Mutant: esp_ota_begin leaves the erasing to the writes, and they erase nothing.
Chunk_NoErase(u, n, st, fl2) ==
  \/ /\ u.state = "start" /\ u.img \in Images /\ MayUpdate(u.part)
     /\ Write(u, n, flash, st, fl2)
  \/ u.state \in {"start", "error"} /\ st = "error" /\ fl2 = flash
  \/ u.state = "write" /\ Write(u, n, flash, st, fl2)

\* The loop over the data of one call.  FLST_START falls through to FLST_WRITE
\* when the header is good and esp_ota_begin has erased the slot.
Chunk(u, n, st, fl2) ==
  \/ /\ u.state = "start" /\ u.img \in Images /\ MayUpdate(u.part)
     /\ Write(u, n, [flash EXCEPT ![u.part] = Erased], st, fl2)
  \/ u.state \in {"start", "error"} /\ st = "error" /\ fl2 = flash
  \/ u.state = "write" /\ Write(u, n, flash, st, fl2)

\* The last call verifies what is in the slot (esp_ota_end), makes it the one
\* to boot, which may fail, and answers.
Finish(u, st, fl2) ==
  /\ answer' = IF st = "done" /\ Whole(fl2, u.part)
                 THEN [kind |-> "upload", part |-> u.part, img |-> u.img, alone |-> u.alone,
                       changed |-> fl2 # flash]
                 ELSE Nothing
  /\ boot' \in IF st = "done" /\ Whole(fl2, u.part) THEN {u.part, boot} ELSE {boot}

\* All that counts of an upload in FLST_ERROR is how much is still to come.
Refused(u) == [NoUpload EXCEPT !.state = "error", !.len = u.len, !.got = u.got + 1]

\* The uploads when connection c goes on with v, and its call has changed slot part.
Uploading(c, v, part, changed) ==
  [d \in Conns |-> IF d = c THEN v
                   ELSE [up[d] EXCEPT !.alone = @ /\ ~(changed /\ up[d].part = part)]]

\* One call for upload u of connection c.
Call(c, u) ==
  \E st \in {"start", "write", "error", "done"} :
    /\ IF u.len = 0
         THEN st = u.state /\ UNCHANGED flash
         ELSE Chunk(u, u.got + 1, st, flash')
    /\ IF u.len = 0 \/ u.got + 1 = u.len
         THEN Finish(u, st, flash') /\ up' = Uploading(c, NoUpload, u.part, flash' # flash)
         ELSE /\ up' = Uploading(c, IF st = "error" THEN Refused(u)
                                    ELSE [u EXCEPT !.state = st, !.got = u.got + 1],
                                 u.part, flash' # flash)
              /\ answer' = Nothing /\ UNCHANGED boot
    /\ UNCHANGED <<allowFactory, running, timer>>

Upload(c) ==
  /\ up[c].state = "none"
  /\ \E name \in Apps \union {NoPart, Unknown}, img \in Images \union {NotAnImage},
        len \in 0..MaxLen :
        \E part \in Targets(name) : Call(c, FirstCall(part, img, len))

UploadMore(c) == up[c].state # "none" /\ Call(c, up[c])

\* The client hangs up: the slot stays as it is.
Abort(c) ==
  /\ up[c].state # "none"
  /\ up' = [up EXCEPT ![c] = NoUpload]
  /\ answer' = Nothing
  /\ UNCHANGED <<allowFactory, flash, boot, running, timer>>

-----------------------------------------------------------------------------
(* The other handlers. *)

\* esp_ota_set_boot_partition takes only a partition that holds an app, and
\* may fail.  The reply, which compares the two, is left out.
cgiSetBoot ==
  \E name \in Apps \union {NoPart, Unknown} :
    /\ boot' \in IF name \in Apps /\ Whole(flash, name) THEN {name, boot} ELSE {boot}
    /\ answer' = Nothing
    /\ UNCHANGED <<allowFactory, flash, running, up, timer>>

\* Without OTA data the factory partition is booted.
cgiEraseFlash ==
  \E name \in {"otadata", "data", NoPart}, ok \in BOOLEAN :
    /\ boot' = IF name = "otadata" /\ ok THEN Factory ELSE boot
    /\ answer' = Nothing
    /\ UNCHANGED <<allowFactory, flash, running, up, timer>>

cgiRebootFirmware ==
  /\ timer' = TRUE
  /\ answer' = Nothing
  /\ UNCHANGED <<allowFactory, flash, boot, running, up>>

\* The boot loader takes another app when the chosen one is not whole.
Bootable ==
  IF Whole(flash, boot) THEN {boot}
  ELSE IF \E p \in Apps : Whole(flash, p) THEN {p \in Apps : Whole(flash, p)}
  ELSE {NoPart}

Restart ==
  /\ running' \in Bootable
  /\ up' = [c \in Conns |-> NoUpload]
  /\ timer' = FALSE
  /\ answer' = Nothing
  /\ UNCHANGED <<allowFactory, flash, boot>>

resetTimerCb == timer /\ Restart

\* A data partition that does not exist: cgiEraseFlash reads through a null
\* pointer, and the device restarts.
EraseUnknown == Restart

PowerLoss == Restart

-----------------------------------------------------------------------------
Next ==
  \/ \E c \in Conns : Upload(c) \/ UploadMore(c) \/ Abort(c)
  \/ cgiSetBoot \/ cgiEraseFlash \/ cgiRebootFirmware
  \/ resetTimerCb \/ EraseUnknown \/ PowerLoss

Spec == Init /\ [][Next]_vars

-----------------------------------------------------------------------------
(* Properties. *)

\* Types.  Between two calls an upload has begun, failed or not, and has data
\* to come.
Uploads == [state : {"write", "error"}, part : Apps \union {NoPart},
            img : Images \union {NotAnImage}, len : 1..MaxLen, got : 1..MaxLen,
            alone : BOOLEAN]
Answers == [kind : {"none", "upload"}, part : Apps \union {NoPart},
            img : Images \union {NotAnImage}, alone : BOOLEAN, changed : BOOLEAN]
TypeOK ==
  /\ allowFactory \in FactoryOptions
  /\ flash \in [Apps -> [Partition -> Contents]]
  /\ boot \in Apps
  /\ running \in Apps \union {NoPart}
  /\ \A c \in Conns : up[c] = NoUpload \/ (up[c] \in Uploads /\ up[c].got < up[c].len)
  /\ DOMAIN up = Conns
  /\ timer \in BOOLEAN
  /\ answer \in Answers

\* Whatever uploads do to the slots at the same time, and wherever they break
\* off, the image that runs is never damaged: the device can always boot.
StillBoots == running \in Apps /\ Whole(flash, running)

\* What an upload that is called a success leaves in the slot is the client's own
\* image in whole, though every write may fail and others erase and write the slot
\* between its calls.  It is another's image only when another has touched the slot
\* and the last write of its own failed, which FLST_DONE hides
\* (cgiflash.c:284-298, :318-341).
SuccessIsOwn ==
  answer.kind = "upload" =>
    /\ answer.part \in Apps /\ Whole(flash, answer.part)
    /\ answer.alone \/ answer.changed =>
         flash[answer.part] = [n \in Partition |-> answer.img]

\* README-flash_api.md:35, only a build that allows it can touch the factory
\* partition, the last one to fall back to.
FactoryKept == ~allowFactory => flash[Factory] = [n \in Partition |-> Shipped]
=============================================================================
