------------------------ MODULE FirmwareUpdateProofs ------------------------
(* FirmwareUpdate for any number of connections and partitions, any images and
   any length: a device that is being updated can always boot. *)
EXTENDS FirmwareUpdate, TLAPS

\* An upload that writes has a slot that may be updated: esp_ota_begin said so,
\* and neither the slot that runs nor the build changes before the next boot.
WritersAllowed ==
  \A c \in Conns : up[c].state = "write" => MayUpdate(up[c].part) /\ up[c].img \in Images

\* A slot into which the first n chunks of an image were written.
Begun(img, n) == [m \in Partition |-> IF m <= n THEN img ELSE "erased"]

\* Where nobody else has been, the slot of an upload is as its own calls have left it.
OwnCells ==
  \A c \in Conns : up[c].state = "write" /\ up[c].alone =>
                     flash[up[c].part] = Begun(up[c].img, up[c].got)

Inv == TypeOK /\ WritersAllowed /\ OwnCells /\ StillBoots /\ FactoryKept

\* Between and within calls, what is known of an upload.
Sound(u) ==
  /\ u \in [state : {"start", "write", "error"}, part : Apps \union {NoPart},
            img : Images \union {NotAnImage}, len : 0..MaxLen, got : 0..MaxLen, alone : BOOLEAN]
  /\ u.state = "start" => u.part \in Apps /\ u.got = 0
  /\ u.state = "write" => MayUpdate(u.part) /\ u.img \in Images
  /\ u.state = "write" /\ u.alone => flash[u.part] = Begun(u.img, u.got)
  /\ u.got < u.len \/ u.len = 0

\* What a call may have done to the flash.
Harmless(fl) ==
  /\ fl \in [Apps -> [Partition -> Contents]]
  /\ \A p \in Apps : ~MayUpdate(p) => fl[p] = flash[p]

LEMMA ProgrammedType ==
  ASSUME NEW old, NEW img \in Images
  PROVE  Programmed(old, img) \in Contents
BY DEF Programmed, Contents

\* A write changes nothing but the slot of its upload.
LEMMA WriteHarmless ==
  ASSUME NEW u, NEW n, NEW fl, NEW st, NEW fl2,
         Harmless(fl), u.part \in Apps, MayUpdate(u.part), u.img \in Images,
         Write(u, n, fl, st, fl2)
  PROVE  Harmless(fl2) /\ st \in {"write", "error", "done"} /\ (n # u.len => st # "done")
<1>1. CASE fl2 = fl /\ st = IF n = u.len THEN "done" ELSE "error"
  BY <1>1
<1>2. CASE /\ n \in Partition
           /\ fl2 = [fl EXCEPT ![u.part][n] = Programmed(fl[u.part][n], u.img)]
           /\ st = IF n = u.len THEN "done" ELSE "write"
  <2> DEFINE old == fl[u.part]
             new == Programmed(old[n], u.img)
  <2>1. new \in Contents
    BY ProgrammedType
  <2>2. fl2 = [fl EXCEPT ![u.part] = [old EXCEPT ![n] = new]]
    BY <1>2
  <2>3. old \in [Partition -> Contents]
    BY DEF Harmless
  <2>4. [old EXCEPT ![n] = new] \in [Partition -> Contents]
    BY <1>2, <2>1, <2>3
  <2>5. fl2 \in [Apps -> [Partition -> Contents]]
    BY <2>2, <2>4 DEF Harmless
  <2>6. \A p \in Apps : p # u.part => fl2[p] = fl[p]
    BY <2>2 DEF Harmless
  <2>7. \A p \in Apps : ~MayUpdate(p) => fl2[p] = flash[p]
    BY <2>6 DEF Harmless
  <2> QED BY <1>2, <2>5, <2>7 DEF Harmless
<1> QED BY <1>1, <1>2 DEF Write

\* So does a call.
LEMMA ChunkHarmless ==
  ASSUME Inv, NEW u, Sound(u), u.len # 0, NEW n, NEW st, NEW fl2, Chunk(u, n, st, fl2)
  PROVE  /\ Harmless(fl2)
         /\ st \in {"write", "error", "done"} /\ (n # u.len => st # "done")
         /\ st \in {"write", "done"} => MayUpdate(u.part) /\ u.img \in Images
<1> USE UpdateAssumption
<1>0. Harmless(flash)
  BY DEF Inv, TypeOK, Harmless
<1>1. CASE /\ u.state = "start" /\ u.img \in Images /\ MayUpdate(u.part)
           /\ Write(u, n, [flash EXCEPT ![u.part] = Erased], st, fl2)
  <2>1. u.part \in Apps
    BY <1>1 DEF MayUpdate
  <2>2. Erased \in [Partition -> Contents]
    BY DEF Erased, Contents
  <2>3. Harmless([flash EXCEPT ![u.part] = Erased])
    BY <1>0, <1>1, <2>1, <2>2 DEF Harmless
  <2> QED BY <1>1, <2>1, <2>3, WriteHarmless
<1>2. CASE u.state \in {"start", "error"} /\ st = "error" /\ fl2 = flash
  BY <1>0, <1>2
<1>3. CASE u.state = "write" /\ Write(u, n, flash, st, fl2)
  <2>1. MayUpdate(u.part) /\ u.part \in Apps /\ u.img \in Images
    BY <1>3 DEF Sound, MayUpdate
  <2> QED BY <1>0, <1>3, <2>1, WriteHarmless
<1> QED BY <1>1, <1>2, <1>3 DEF Chunk

\* fl2 keeps the slot of u, which was written as far as chunk n, as an upload of its own
\* makes it, and what it completes is the client's image.
Continues(u, n, fl, st, fl2) ==
  /\ \A p \in Apps : p # u.part => fl2[p] = fl[p]
  /\ fl[u.part] = Begun(u.img, n) /\ st = "write" => fl2[u.part] = Begun(u.img, n + 1)
  /\ Whole(fl2, u.part) /\ (fl[u.part] = Begun(u.img, n) \/ fl2 # fl) =>
       fl2[u.part] = [m \in Partition |-> u.img]

\* A write does.
LEMMA WriteOwn ==
  ASSUME NEW u, NEW k \in Nat, NEW fl \in [Apps -> [Partition -> Contents]], NEW st, NEW fl2,
         u.part \in Apps, u.img \in Images, Write(u, k + 1, fl, st, fl2)
  PROVE  Continues(u, k, fl, st, fl2)
<1> USE UpdateAssumption
<1> DEFINE n == k + 1
<1>1. ASSUME NEW i \in Images, NEW m \in Partition,
             fl2[u.part] = [l \in Partition |-> i], fl2[u.part][m] \in {u.img, "erased", "mixed"}
      PROVE  fl2[u.part] = [l \in Partition |-> u.img]
  BY <1>1
<1>2. CASE fl2 = fl /\ st = IF n = u.len THEN "done" ELSE "error"
  <2>1. 1 \in Partition
    BY DEF Partition
  <2>2. fl[u.part] = Begun(u.img, k) => fl2[u.part][1] \in {u.img, "erased", "mixed"}
    BY <1>2, <2>1 DEF Begun
  <2> QED BY <1>1, <1>2, <2>1, <2>2 DEF Whole, Continues
<1>3. CASE /\ n \in Partition
           /\ fl2 = [fl EXCEPT ![u.part][n] = Programmed(fl[u.part][n], u.img)]
           /\ st = IF n = u.len THEN "done" ELSE "write"
  <2> DEFINE old == fl[u.part]
             new == Programmed(old[n], u.img)
  <2>1. fl2 = [fl EXCEPT ![u.part] = [old EXCEPT ![n] = new]] /\ old \in [Partition -> Contents]
    BY <1>3
  <2>2. fl2[u.part] = [old EXCEPT ![n] = new] /\ fl2[u.part][n] = new
    BY <1>3, <2>1
  <2>3. new \in {u.img, "erased", "mixed"} /\ (old[n] = "erased" => new = u.img)
    BY DEF Programmed
  <2>4. \A p \in Apps : p # u.part => fl2[p] = fl[p]
    BY <2>1
  <2>5. ASSUME old = Begun(u.img, k) PROVE fl2[u.part] = Begun(u.img, n)
    <3>1. old[n] = "erased"
      BY <1>3, <2>5 DEF Begun
    <3>2. new = u.img
      BY <2>3, <3>1
    <3>3. \A m \in Partition : [old EXCEPT ![n] = new][m] = Begun(u.img, n)[m]
      <4> TAKE m \in Partition
      <4>1. CASE m = n
        BY <2>1, <3>2, <4>1 DEF Begun
      <4>2. CASE m # n
        <5>1. [old EXCEPT ![n] = new][m] = old[m] /\ (m <= n <=> m <= k)
          BY <2>1, <4>2 DEF Partition
        <5> QED BY <2>5, <5>1 DEF Begun
      <4> QED BY <4>1, <4>2
    <3>4. DOMAIN [old EXCEPT ![n] = new] = Partition
      BY <2>1
    <3> QED BY <2>2, <3>3, <3>4 DEF Begun
  <2>6. Whole(fl2, u.part) => fl2[u.part] = [m \in Partition |-> u.img]
    BY <1>1, <1>3, <2>2, <2>3 DEF Whole
  <2> QED BY <2>4, <2>5, <2>6 DEF Continues
<1> QED BY <1>2, <1>3 DEF Write

\* So does a call.
LEMMA ChunkOwn ==
  ASSUME Inv, NEW u, Sound(u), u.len # 0, NEW st, NEW fl2, Chunk(u, u.got + 1, st, fl2)
  PROVE  /\ \A p \in Apps : p # u.part => fl2[p] = flash[p]
         /\ u.part \notin Apps => fl2 = flash
         /\ st = "write" /\ u.alone => fl2[u.part] = Begun(u.img, u.got + 1)
         /\ st = "done" /\ Whole(fl2, u.part) /\ (u.alone \/ fl2 # flash) =>
              fl2[u.part] = [m \in Partition |-> u.img]
<1> USE UpdateAssumption
<1>0. /\ flash \in [Apps -> [Partition -> Contents]]
      /\ u.got \in Nat
  BY DEF Inv, TypeOK, Sound
<1>1. CASE /\ u.state = "start" /\ u.img \in Images /\ MayUpdate(u.part)
           /\ Write(u, u.got + 1, [flash EXCEPT ![u.part] = Erased], st, fl2)
  <2> DEFINE fl == [flash EXCEPT ![u.part] = Erased]
  <2>1. u.part \in Apps /\ u.got = 0
    BY <1>1 DEF MayUpdate, Sound
  <2>2. fl \in [Apps -> [Partition -> Contents]] /\ (\A p \in Apps : p # u.part => fl[p] = flash[p])
    BY <1>0, <2>1 DEF Erased, Contents
  <2>3. Erased = Begun(u.img, 0)
    BY DEF Erased, Begun, Partition
  <2>4. fl[u.part] = Begun(u.img, u.got)
    BY <1>0, <2>1, <2>3
  <2>5. Write(u, u.got + 1, fl, st, fl2)
    BY <1>1
  <2> HIDE DEF fl
  <2>6. Continues(u, u.got, fl, st, fl2)
    BY <1>0, <1>1, <2>1, <2>2, <2>5, WriteOwn
  <2> QED BY <2>1, <2>2, <2>4, <2>6 DEF Continues
<1>2. CASE u.state \in {"start", "error"} /\ st = "error" /\ fl2 = flash
  BY <1>2
<1>3. CASE u.state = "write" /\ Write(u, u.got + 1, flash, st, fl2)
  <2>1. u.part \in Apps /\ u.img \in Images /\ (u.alone => flash[u.part] = Begun(u.img, u.got))
    BY <1>3 DEF Sound, MayUpdate
  <2>2. Write(u, u.got + 1, flash, st, fl2)
    BY <1>3
  <2>3. Continues(u, u.got, flash, st, fl2)
    BY <1>0, <2>1, <2>2, WriteOwn
  <2> QED BY <2>1, <2>3 DEF Continues
<1> QED BY <1>1, <1>2, <1>3 DEF Chunk

LEMMA NoUploadNone == NoUpload.state = "none" /\ NoUpload.part = NoPart
BY DEF NoUpload

\* What a call leaves of its upload, and what it answers.
LEMMA CallStep ==
  ASSUME Inv, NEW c \in Conns, NEW u, Sound(u), Call(c, u)
  PROVE  Inv' /\ SuccessIsOwn'
<1> USE UpdateAssumption
<1> DEFINE changed == flash' # flash
           more(st) == IF st = "error" THEN Refused(u) ELSE [u EXCEPT !.state = st, !.got = u.got + 1]
<1> PICK st \in {"start", "write", "error", "done"} :
      /\ IF u.len = 0
           THEN st = u.state /\ UNCHANGED flash
           ELSE Chunk(u, u.got + 1, st, flash')
      /\ IF u.len = 0 \/ u.got + 1 = u.len
           THEN Finish(u, st, flash') /\ up' = Uploading(c, NoUpload, u.part, changed)
           ELSE /\ up' = Uploading(c, more(st), u.part, changed)
                /\ answer' = Nothing /\ UNCHANGED boot
      /\ UNCHANGED <<allowFactory, running, timer>>
  BY DEF Call
<1>0. \A p : MayUpdate(p)' <=> MayUpdate(p)
  BY DEF MayUpdate
<1>1. /\ Harmless(flash')
      /\ st = "done" => u.part \in Apps
      /\ u.len # 0 /\ u.got + 1 # u.len =>
           /\ st \in {"write", "error"}
           /\ st = "write" => MayUpdate(u.part) /\ u.img \in Images
  <2>1. CASE u.len = 0
    BY <2>1 DEF Inv, TypeOK, Harmless, Sound
  <2>2. CASE u.len # 0
    BY <2>2, ChunkHarmless DEF MayUpdate
  <2> QED BY <2>1, <2>2
<1>2. /\ \A p \in Apps : p # u.part => flash'[p] = flash[p]
      /\ changed => u.part \in Apps
      /\ u.len # 0 /\ st = "write" /\ u.alone => flash'[u.part] = Begun(u.img, u.got + 1)
      /\ st = "done" /\ Whole(flash', u.part) /\ (u.alone \/ changed) =>
           flash'[u.part] = [m \in Partition |-> u.img]
  <2>1. CASE u.len = 0
    BY <2>1 DEF Sound
  <2>2. CASE u.len # 0
    <3>1. Chunk(u, u.got + 1, st, flash')
      BY <2>2
    <3>2. /\ \A p \in Apps : p # u.part => flash'[p] = flash[p]
          /\ u.part \notin Apps => flash' = flash
          /\ st = "write" /\ u.alone => flash'[u.part] = Begun(u.img, u.got + 1)
          /\ st = "done" /\ Whole(flash', u.part) /\ (u.alone \/ flash' # flash) =>
               flash'[u.part] = [m \in Partition |-> u.img]
      BY <2>2, <3>1, ChunkOwn
    <3> QED BY <3>2
  <2> QED BY <2>1, <2>2
<1> HIDE DEF changed, more
<1>3. StillBoots' /\ FactoryKept'
  <2>1. running \in Apps /\ ~MayUpdate(running) /\ running' = running
    BY DEF Inv, StillBoots, MayUpdate
  <2>2. flash'[running] = flash[running]
    BY <1>1, <2>1 DEF Harmless
  <2>3. StillBoots'
    BY <2>1, <2>2 DEF Inv, StillBoots, Whole, Partition
  <2>4. ~allowFactory => ~MayUpdate(Factory)
    BY DEF MayUpdate
  <2> QED BY <1>1, <2>3, <2>4 DEF Inv, FactoryKept, Harmless, Partition
<1>4. ASSUME NEW v, up' = Uploading(c, v, u.part, changed),
             v = NoUpload \/ (v \in Uploads /\ v.got < v.len),
             v.state = "write" => MayUpdate(v.part) /\ v.img \in Images,
             v.state = "write" /\ v.alone => flash'[v.part] = Begun(v.img, v.got),
             boot' \in Apps, answer' \in Answers
      PROVE  Inv'
  <2>1. ASSUME NEW d \in Conns, d # c
        PROVE  /\ up'[d] = NoUpload \/ (up'[d] \in Uploads /\ up'[d].got < up'[d].len)
               /\ up'[d].state = "write" => MayUpdate(up'[d].part) /\ up'[d].img \in Images
               /\ up'[d].state = "write" /\ up'[d].alone =>
                    flash'[up'[d].part] = Begun(up'[d].img, up'[d].got)
    <3> DEFINE a == up[d].alone /\ ~(changed /\ up[d].part = u.part)
    <3>1. up'[d] = [up[d] EXCEPT !.alone = a]
      BY <1>4, <2>1 DEF Uploading
    <3>2. CASE up[d] = NoUpload
      <4>1. a
        BY <1>2, <3>2 DEF NoUpload
      <4>2. up'[d] = NoUpload
        BY <3>1, <3>2, <4>1 DEF NoUpload
      <4> QED BY <4>2, NoUploadNone
    <3>3. CASE up[d] \in Uploads /\ up[d].got < up[d].len
      <4>1. a \in BOOLEAN
        BY <3>3 DEF Uploads
      <4> HIDE DEF a
      <4>2. /\ up'[d] \in Uploads /\ up'[d].got < up'[d].len /\ up'[d].alone = a
            /\ up'[d].state = up[d].state /\ up'[d].part = up[d].part
            /\ up'[d].img = up[d].img /\ up'[d].got = up[d].got
        BY <3>1, <3>3, <4>1 DEF Uploads
      <4>3. up[d].state = "write" => MayUpdate(up[d].part) /\ up[d].img \in Images /\ up[d].part \in Apps
        BY DEF Inv, WritersAllowed, MayUpdate
      <4>4. up[d].state = "write" /\ a => flash'[up[d].part] = flash[up[d].part]
        BY <1>2, <4>3 DEF a, changed
      <4>5. up[d].state = "write" /\ a => flash[up[d].part] = Begun(up[d].img, up[d].got)
        BY DEF Inv, OwnCells, a
      <4> QED BY <4>2, <4>3, <4>4, <4>5
    <3> QED BY <3>2, <3>3 DEF Inv, TypeOK
  <2>2. up'[c] = v /\ DOMAIN up' = Conns
    BY <1>4 DEF Uploading
  <2>3. TypeOK'
    <3>1. \A d \in Conns : up'[d] = NoUpload \/ (up'[d] \in Uploads /\ up'[d].got < up'[d].len)
      BY <1>4, <2>1, <2>2
    <3> QED BY <1>1, <1>3, <1>4, <2>2, <3>1 DEF Inv, TypeOK, Harmless, StillBoots
  <2>4. WritersAllowed'
    <3>1. \A d \in Conns : up'[d].state = "write" => MayUpdate(up'[d].part) /\ up'[d].img \in Images
      BY <1>4, <2>1, <2>2
    <3> QED BY <1>0, <3>1 DEF WritersAllowed
  <2>5. OwnCells'
    <3>1. \A d \in Conns : up'[d].state = "write" /\ up'[d].alone =>
                             flash'[up'[d].part] = Begun(up'[d].img, up'[d].got)
      BY <1>4, <2>1, <2>2
    <3> QED BY <3>1 DEF OwnCells, Begun, Partition
  <2> QED BY <1>3, <2>3, <2>4, <2>5 DEF Inv
<1>5. CASE u.len = 0 \/ u.got + 1 = u.len
  <2>1. Finish(u, st, flash') /\ up' = Uploading(c, NoUpload, u.part, changed)
    BY <1>5
  <2>2. boot' \in Apps
    BY <1>1, <2>1 DEF Finish, Inv, TypeOK
  <2>3. answer' \in Answers
    BY <1>1, <2>1 DEF Finish, Nothing, Answers, Sound
  <2>4. SuccessIsOwn'
    <3>1. CASE st = "done" /\ Whole(flash', u.part)
      <4>1. answer'.part = u.part /\ answer'.img = u.img /\ answer'.alone = u.alone /\ answer'.changed = changed
        BY <2>1, <3>1 DEF Finish, changed
      <4>2. Whole(flash, answer.part)' /\ answer'.part \in Apps
        BY <1>1, <3>1, <4>1 DEF Whole, Partition
      <4>3. answer'.alone \/ answer'.changed => flash'[answer'.part] = [m \in Partition |-> answer'.img]
        BY <1>2, <3>1, <4>1
      <4> QED BY <4>2, <4>3 DEF SuccessIsOwn, Partition
    <3>2. CASE ~(st = "done" /\ Whole(flash', u.part))
      BY <2>1, <3>2 DEF Finish, Nothing, SuccessIsOwn
    <3> QED BY <3>1, <3>2
  <2> QED BY <1>4, <2>1, <2>2, <2>3, <2>4, NoUploadNone
<1>6. CASE ~(u.len = 0 \/ u.got + 1 = u.len)
  <2>1. up' = Uploading(c, more(st), u.part, changed) /\ answer' = Nothing /\ boot' = boot
    BY <1>6
  <2>2. /\ u.len \in 1..MaxLen /\ u.got + 1 \in 1..MaxLen /\ u.got + 1 < u.len
        /\ u.part \in Apps \union {NoPart} /\ u.img \in Images \union {NotAnImage}
        /\ u.alone \in BOOLEAN
    BY <1>6 DEF Sound
  <2>3. st \in {"write", "error"} /\ (st = "write" => MayUpdate(u.part) /\ u.img \in Images)
    BY <1>1, <1>6
  <2>4. PICK v : v = more(st)
    OBVIOUS
  <2>5. CASE st = "error"
    <3>1. v = [state |-> "error", part |-> NoPart, img |-> NotAnImage, len |-> u.len,
               got |-> u.got + 1, alone |-> TRUE]
      BY <2>4, <2>5 DEF more, Refused, NoUpload
    <3>2. v \in Uploads /\ v.got < v.len /\ v.state # "write"
      BY <2>2, <3>1 DEF Uploads
    <3>3. answer' \in Answers /\ boot' \in Apps /\ SuccessIsOwn'
      BY <2>1 DEF Nothing, Answers, SuccessIsOwn, Inv, TypeOK
    <3> QED BY <1>4, <2>1, <2>4, <3>2, <3>3
  <2>6. CASE st = "write"
    <3>1. v = [state |-> "write", part |-> u.part, img |-> u.img, len |-> u.len,
               got |-> u.got + 1, alone |-> u.alone]
      BY <2>4, <2>6 DEF more, Sound
    <3>2. v \in Uploads /\ v.got < v.len /\ MayUpdate(v.part) /\ v.img \in Images
      BY <2>2, <2>3, <2>6, <3>1 DEF Uploads, MayUpdate
    <3>3. v.alone => flash'[v.part] = Begun(v.img, v.got)
      BY <1>2, <1>6, <2>6, <3>1
    <3>4. answer' \in Answers /\ boot' \in Apps /\ SuccessIsOwn'
      BY <2>1 DEF Nothing, Answers, SuccessIsOwn, Inv, TypeOK
    <3> QED BY <1>4, <2>1, <2>4, <3>2, <3>3, <3>4
  <2> QED BY <2>3, <2>5, <2>6
<1> QED BY <1>5, <1>6

\* The handlers that have nothing to do with an upload leave the flash alone.
LEMMA OtherStep ==
  ASSUME Inv, UNCHANGED <<allowFactory, flash>>,
         boot' \in Apps, running' \in Apps, Whole(flash, running'),
         timer' \in BOOLEAN,
         answer' = Nothing,
         \/ UNCHANGED <<running, up>>
         \/ \E c \in Conns : running' = running /\ up' = [up EXCEPT ![c] = NoUpload]
         \/ up' = [c \in Conns |-> NoUpload]
  PROVE  Inv' /\ SuccessIsOwn'
<1>1. StillBoots' /\ FactoryKept'
  BY DEF Inv, StillBoots, FactoryKept, Whole, Partition
<1>2. SuccessIsOwn'
  BY DEF SuccessIsOwn, Nothing
<1>3. TypeOK'
  <2>1. answer' \in Answers
    BY DEF Nothing, Answers
  <2> QED BY <2>1 DEF Inv, TypeOK
<1>4. WritersAllowed'
  BY NoUploadNone DEF Inv, TypeOK, WritersAllowed, MayUpdate
<1>5. OwnCells'
  BY NoUploadNone DEF Inv, TypeOK, OwnCells, Begun, Partition
<1> QED BY <1>1, <1>2, <1>3, <1>4, <1>5 DEF Inv

LEMMA RestartStep ==
  ASSUME Inv, Restart
  PROVE  Inv' /\ SuccessIsOwn'
<1>1. running \in Apps /\ Whole(flash, running)
  BY DEF Inv, StillBoots
<1>2. running' \in Apps /\ Whole(flash, running')
  BY <1>1 DEF Inv, TypeOK, Restart, Bootable
<1>3. boot' \in Apps
  BY DEF Inv, TypeOK, Restart
<1>4. answer' = Nothing
  BY DEF Restart
<1> QED BY <1>2, <1>3, <1>4, OtherStep DEF Restart

LEMMA Inductive ==
  /\ Init => Inv /\ SuccessIsOwn
  /\ Inv /\ SuccessIsOwn /\ [Next]_vars => Inv' /\ SuccessIsOwn'
<1> USE UpdateAssumption
<1>1. Init => Inv /\ SuccessIsOwn
  <2> SUFFICES ASSUME Init PROVE Inv /\ SuccessIsOwn
    OBVIOUS
  <2>1. flash \in [Apps -> [Partition -> Contents]]
    BY DEF Init, Erased, Contents
  <2>2. TypeOK
    BY <2>1 DEF Init, TypeOK, Nothing, Answers
  <2>3. WritersAllowed /\ OwnCells
    BY NoUploadNone DEF Init, WritersAllowed, OwnCells
  <2>4. StillBoots /\ FactoryKept
    BY DEF Init, StillBoots, FactoryKept, Whole
  <2>5. SuccessIsOwn
    BY DEF Init, SuccessIsOwn, Nothing
  <2> QED BY <2>2, <2>3, <2>4, <2>5 DEF Inv
<1>2. ASSUME Inv, SuccessIsOwn, [Next]_vars PROVE Inv' /\ SuccessIsOwn'
  <2> USE <1>2
  <2>0. running \in Apps /\ Whole(flash, running) /\ boot \in Apps /\ timer \in BOOLEAN
    BY DEF Inv, StillBoots, TypeOK
  <2>1. ASSUME NEW c \in Conns, Upload(c) PROVE Inv' /\ SuccessIsOwn'
    <3> PICK name \in Apps \union {NoPart, Unknown}, img \in Images \union {NotAnImage},
             len \in 0..MaxLen : \E part \in Targets(name) : Call(c, FirstCall(part, img, len))
      BY <2>1 DEF Upload
    <3> PICK part \in Targets(name) : Call(c, FirstCall(part, img, len))
      OBVIOUS
    <3>1. part \in Apps \union {NoPart}
      BY DEF Targets
    <3>2. Sound(FirstCall(part, img, len))
      BY <3>1 DEF Sound, FirstCall
    <3> QED BY <3>2, CallStep
  <2>2. ASSUME NEW c \in Conns, UploadMore(c) PROVE Inv' /\ SuccessIsOwn'
    <3>1. up[c] \in Uploads /\ up[c].got < up[c].len
      BY <2>2, NoUploadNone DEF UploadMore, Inv, TypeOK
    <3>2. up[c].state = "write" => MayUpdate(up[c].part) /\ up[c].img \in Images
      BY DEF Inv, WritersAllowed, TypeOK
    <3>3. Sound(up[c])
      BY <3>1, <3>2 DEF Sound, Uploads, Inv, OwnCells
    <3> QED BY <2>2, <3>3, CallStep DEF UploadMore
  <2>3. ASSUME NEW c \in Conns, Abort(c) PROVE Inv' /\ SuccessIsOwn'
    BY <2>0, <2>3, OtherStep DEF Abort, Nothing
  <2>4. ASSUME cgiSetBoot PROVE Inv' /\ SuccessIsOwn'
    <3>1. boot' \in Apps /\ answer' = Nothing
      BY <2>0, <2>4 DEF cgiSetBoot
    <3> QED BY <2>0, <2>4, <3>1, OtherStep DEF cgiSetBoot
  <2>5. ASSUME cgiEraseFlash PROVE Inv' /\ SuccessIsOwn'
    BY <2>0, <2>5, OtherStep DEF cgiEraseFlash, Nothing
  <2>6. ASSUME cgiRebootFirmware PROVE Inv' /\ SuccessIsOwn'
    BY <2>0, <2>6, OtherStep DEF cgiRebootFirmware, Nothing
  <2>7. ASSUME resetTimerCb \/ EraseUnknown \/ PowerLoss PROVE Inv' /\ SuccessIsOwn'
    BY <2>7, RestartStep DEF resetTimerCb, EraseUnknown, PowerLoss
  <2>8. CASE UNCHANGED vars
    <3>1. TypeOK' /\ WritersAllowed'
      BY <2>8 DEF vars, Inv, TypeOK, WritersAllowed, MayUpdate
    <3>2. OwnCells'
      BY <2>8 DEF vars, Inv, OwnCells, Begun, Partition
    <3>3. StillBoots' /\ FactoryKept'
      BY <2>8 DEF vars, Inv, StillBoots, FactoryKept, Whole, Partition
    <3>4. SuccessIsOwn'
      BY <2>8 DEF vars, SuccessIsOwn, Whole, Partition
    <3> QED BY <3>1, <3>2, <3>3, <3>4 DEF Inv
  <2> QED BY <2>1, <2>2, <2>3, <2>4, <2>5, <2>6, <2>7, <2>8 DEF Next
<1> QED BY <1>1, <1>2

\* The types of the update handlers, for every partition table.
THEOREM TypeCorrect == Spec => []TypeOK
<1>1. Inv => TypeOK
  BY DEF Inv
<1> QED BY Inductive, <1>1, PTL DEF Spec

\* Whatever cgiUploadFirmware is sent, on however many connections, and however
\* it is interrupted, the device can boot what it runs.
THEOREM AlwaysBoots == Spec => []StillBoots
<1>1. Inv => StillBoots
  BY DEF Inv
<1> QED BY Inductive, <1>1, PTL DEF Spec

\* An upload that cgiUploadFirmware calls a success has left the client's own image in
\* its slot, unless another touched the slot and its last write failed.
THEOREM SuccessMeansOwn == Spec => []SuccessIsOwn
BY Inductive, PTL DEF Spec

\* Without the build option no upload touches the factory partition.
THEOREM FactoryUntouched == Spec => []FactoryKept
<1>1. Inv => FactoryKept
  BY DEF Inv
<1> QED BY Inductive, <1>1, PTL DEF Spec
=============================================================================
