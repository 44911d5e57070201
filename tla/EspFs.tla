------------------------------- MODULE EspFs -------------------------------
(***************************************************************************)
(* The read-only file system of the web pages: mkespfsimage                *)
(* (espfs/mkespfsimage/main.c) makes its image on the host, espfs          *)
(* (espfs/src/espfs.c) reads it on the station.  The two only meet in the  *)
(* image, and, for a packed file, in the stream between the encoder and    *)
(* the decoder of heatshrink, whose state machines run here as they do     *)
(* under the two programs.                                                 *)
(*                                                                         *)
(* The image is a sequence of entries; headers, padding to four bytes and  *)
(* the entry that only says "last file" are abstracted to its order and    *)
(* its end.  One file is open at a time: open files share nothing but the  *)
(* image, which nobody writes.                                             *)
(***************************************************************************)
EXTENDS HeatshrinkEncoder, HeatshrinkDecoder

CONSTANTS
  Listings,     \* the lists of files mkespfsimage may be given: sequences of
                \* records [name, bytes, gzip], where gzip is what zlib makes
                \* of a file whose extension is listed, or <<>>
  Names,        \* names that are asked for
  ReadSizes,    \* lengths of a read
  Offsets       \* offsets of a seek

VARIABLES
  listing,      \* the files, in the order of stdin
  compType,     \* the option -c
  mk,           \* where mkespfsimage is
  file,         \* how many files it has taken
  inp,          \* what is left of the file, from inp on
  outsize,      \* what is left of the output buffer
  packed,       \* the output buffer
  image,        \* the entries written to stdout

  fs,           \* what espFsInit returned: NULL or the number of files
  fh,           \* the open file, or NULL
  rd,           \* the compressed read in progress
  result        \* the read that has just returned: where it began, the length
              
NULL == <<>>

mkVars == <<mk, file, inp, outsize, packed, image>>
hostVars == <<listing, compType, mkVars>>
readVars == <<fh, rd, result>>
fsVars == <<fs, readVars>>
fsAll == <<hostVars, fsVars, eVars, dVars>>

-----------------------------------------------------------------------------
(* mkespfsimage *)

File == listing[file]

\* The first byte of a packed file holds the sizes (*outp of
\* compressHeatshrink, parm of espFsOpen).
Parm == <<WindowBits, LookaheadBits>>

\* Mutant: what was packed is kept although the file grew.
Entry_KeepsHeader(f, compression, gzip, data) ==
  [name |-> f.name, compression |-> compression, gzip |-> gzip,
   data |-> IF Len(data) > Len(f.bytes) THEN f.bytes ELSE data,
   size |-> Len(f.bytes)]

\* handleFile: a file that does not get smaller is stored as it is.
Entry(f, compression, gzip, data) ==
  IF Len(data) > Len(f.bytes)
  THEN [name |-> f.name, compression |-> "NONE", gzip |-> FALSE,
        data |-> f.bytes, size |-> Len(f.bytes)]
  ELSE [name |-> f.name, compression |-> compression, gzip |-> gzip,
        data |-> data, size |-> Len(f.bytes)]

\* shouldCompressGzip: the extension of the file is in gzipExtensions.
ShouldCompressGzip(f) == f.gzip # <<>>

\* main, handleFile: the next file, to be stored or packed.
TakeFile ==
  /\ mk = "next" /\ file < Len(listing)
  /\ file' = file + 1
  /\ LET f == listing[file + 1]
     IN IF ShouldCompressGzip(f) \/ compType = "NONE"
        THEN /\ image' = Append(image,
                           IF ShouldCompressGzip(f) THEN Entry(f, "NONE", TRUE, f.gzip)
                                            ELSE Entry(f, "NONE", FALSE, f.bytes))
             /\ UNCHANGED <<mk, inp, outsize, packed, eVars>>
        ELSE /\ EncoderReset
             /\ inp' = f.bytes
             /\ packed' = <<Parm>>
             /\ outsize' = 2 * Len(f.bytes) - 1
             /\ mk' = "sink"
             /\ UNCHANGED image
  /\ UNCHANGED <<listing, compType, fsVars, dVars>>

\* compressHeatshrink, the head of its loop; insize is Len(inp).
Feed ==
  /\ mk = "sink"
  /\ EncoderSink(inp)
  /\ inp' = Rest(inp, Taken(inp))
  /\ mk' = IF inp' = <<>> THEN "finish" ELSE "poll"
  /\ UNCHANGED <<listing, compType, file, outsize, packed, image, fsVars, dVars>>

Finish ==
  /\ mk = "finish"
  /\ EncoderFinish
  /\ mk' = "poll"
  /\ UNCHANGED <<listing, compType, file, inp, outsize, packed, image, fsVars, dVars>>

Poll ==
  /\ mk = "poll"
  /\ EncoderPoll(outsize)
  /\ mk' = "polled"
  /\ UNCHANGED <<listing, compType, file, inp, outsize, packed, image, fsVars, dVars>>

\* The rest of the loop: MORE polls again, EMPTY goes on with the input, an
\* error gives the loop up.
Polled ==
  /\ mk = "polled" /\ ePoll # "running"
  /\ packed' = packed \o eOut
  /\ outsize' = outsize - Len(eOut)
  /\ mk' = IF ePoll = "MORE" THEN "poll"
           ELSE IF inp # <<>> THEN "sink" ELSE "store"
  /\ UNCHANGED <<listing, compType, file, inp, image, fsVars, eVars, dVars>>

\* handleFile, once compressHeatshrink has returned.
Store ==
  /\ mk = "store"
  /\ image' = Append(image, Entry(File, "HEATSHRINK", FALSE, packed))
  /\ mk' = "next"
  /\ UNCHANGED <<listing, compType, file, inp, outsize, packed, fsVars, eVars, dVars>>

\* finishArchive: the last entry ends the image.
FinishArchive ==
  /\ mk = "next" /\ file = Len(listing)
  /\ mk' = "done"
  /\ UNCHANGED <<listing, compType, file, inp, outsize, packed, image, fsVars, eVars, dVars>>

Host == TakeFile \/ Feed \/ Finish \/ Poll \/ Polled \/ Store \/ FinishArchive
        \/ (mk = "polled" /\ EncoderStep /\ UNCHANGED <<hostVars, fsVars, dVars>>)
-----------------------------------------------------------------------------
(* espfs *)

\* espFsInit: the walk over the image counts the entries before the last
\* one; it takes the first entry for a file without looking, so that an
\* image of no files does not end where it should and is refused.
espFsInit ==
  /\ mk = "done" /\ fs = NULL
  /\ image # <<>>
  /\ fs' = <<Len(image)>>
  /\ UNCHANGED <<hostVars, readVars, eVars, dVars>>

\* The first entry of that name, as the walks of espFsOpen and espFsStat
\* find it; 0 when they reach the last entry.
Lookup(name) ==
  LET at == {i \in DOMAIN image : image[i].name = name}
  IN IF at = {} THEN 0 ELSE Min(at)

\* espFsStat: only a file returns 1.
Stat(name) ==
  IF Lookup(name) = 0 THEN [found |-> FALSE, size |-> 0]
  ELSE [found |-> TRUE, size |-> image[Lookup(name)].size]

\* espFsOpen: a packed file starts after its first byte, with a decoder of
\* its own.
espFsOpen(name) ==
  LET i == Lookup(name)
      packedFile == image[i].compression = "HEATSHRINK"
  IN /\ fs # NULL /\ fh = NULL
     /\ IF i = 0 THEN UNCHANGED <<fh, dVars>>
        ELSE /\ fh' = [entry |-> i, posComp |-> IF packedFile THEN 1 ELSE 0,
                       posDecomp |-> 0]
             /\ IF packedFile THEN DecoderReset ELSE UNCHANGED dVars
     /\ UNCHANGED <<hostVars, fs, rd, result, eVars>>

Header == image[fh.entry]
Idle == fh # NULL /\ rd = NULL
Returned(from, len, bytes) ==
  result' = [entry |-> fh.entry, from |-> from, len |-> len, bytes |-> bytes]

\* espFsRead of a file that is stored as it is.
ReadStored(len) ==
  LET bytes == SubSeq(Header.data, fh.posComp + 1,
                      fh.posComp + Min({len, Len(Header.data) - fh.posComp}))
  IN /\ Idle /\ Header.compression = "NONE"
     /\ Returned(fh.posDecomp, len, bytes)
     /\ fh' = [fh EXCEPT !.posComp = @ + Len(bytes), !.posDecomp = @ + Len(bytes)]
     /\ UNCHANGED <<hostVars, fs, rd, eVars, dVars>>

\* espFsRead of a packed file: nothing is left to read, or the loop starts.
ReadPacked(len) ==
  /\ Idle /\ Header.compression = "HEATSHRINK"
  /\ IF fh.posDecomp = Header.size
     THEN Returned(fh.posDecomp, len, <<>>) /\ UNCHANGED rd
     ELSE /\ rd' = [at |-> "feed", len |-> len, from |-> fh.posDecomp,
                    decoded |-> <<>>, elen |-> 0]
          /\ result' = NULL
  /\ UNCHANGED <<hostVars, fs, fh, eVars, dVars>>

Reading(at) == rd # NULL /\ rd.at = at

\* The loop of espFsRead, its first half: up to sixteen bytes for the decoder.
FeedDecoder ==
  LET rest == Rest(Header.data, fh.posComp)
      ebuff == SubSeq(rest, 1, Min({16, Len(rest)}))
  IN /\ Reading("feed")
     /\ IF rest # <<>>
        THEN DecoderSink(ebuff) /\ fh' = [fh EXCEPT !.posComp = @ + DecoderTaken(ebuff)]
        ELSE UNCHANGED <<fh, dVars>>
     /\ rd' = [rd EXCEPT !.at = "poll", !.elen = Len(rest)]
     /\ UNCHANGED <<hostVars, fs, result, eVars>>

PollDecoder ==
  /\ Reading("poll")
  /\ DecoderPoll(rd.len - Len(rd.decoded))
  /\ rd' = [rd EXCEPT !.at = "polled"]
  /\ UNCHANGED <<hostVars, fs, fh, result, eVars>>

\* The read ends when no input was left before the poll.
ReadEnds == rd.elen = 0 \/ Len(rd.decoded) + Len(dOut) >= rd.len

\* Its second half: what was decoded, and the end of the read.
DecoderPolled ==
  /\ Reading("polled") /\ dPoll # "running"
  /\ fh' = [fh EXCEPT !.posDecomp = @ + Len(dOut)]
  /\ IF ReadEnds
     THEN /\ Returned(rd.from, rd.len, rd.decoded \o dOut)
          /\ rd' = NULL
     ELSE /\ rd' = [rd EXCEPT !.at = "feed", !.decoded = @ \o dOut]
          /\ UNCHANGED result
  /\ UNCHANGED <<hostVars, fs, eVars, dVars>>

\* Mutant: a step back beyond the start is not stopped there.
Clamped_OnlyAbove(position) == Min({position, Len(Header.data)})

\* A position that is not in the file becomes its start or its end.
Clamped(position) == Max({0, Min({position, Len(Header.data)})})

\* espFsSeek: where a seek puts the two positions, or nowhere.  Of a packed
\* file only its start can be reached, and that puts posComp on the byte of
\* the sizes and leaves the decoder as it is.
SeekTo(offset, mode) ==
  LET base == CASE mode = "SET" -> 0
                [] mode = "CUR" -> fh.posDecomp
                [] mode = "END" -> Len(Header.data)
      position == Clamped(base + offset)
  IN IF mode = "SET" /\ offset = 0 THEN <<0, 0>>
     ELSE IF mode = "CUR" /\ offset = 0 THEN <<fh.posComp, fh.posDecomp>>
     ELSE IF \/ Header.compression # "NONE"
             \/ mode = "SET" /\ offset < 0
             \/ mode = "END" /\ offset > 0
     THEN NULL ELSE <<position, position>>

espFsSeek(offset, mode) ==
  /\ Idle
  /\ LET to == SeekTo(offset, mode)
     IN /\ to # NULL
        /\ fh' = [fh EXCEPT !.posComp = to[1], !.posDecomp = to[2]]
  /\ result' = NULL
  /\ UNCHANGED <<hostVars, fs, rd, eVars, dVars>>

espFsClose ==
  /\ Idle
  /\ fh' = NULL /\ result' = NULL
  /\ UNCHANGED <<hostVars, fs, rd, eVars, dVars>>

\* The callers of espfs: they never go back in a packed file (none in src/
\* seeks at all but the unused VFS driver).
Caller ==
  \/ \E name \in Names : espFsOpen(name)
  \/ \E len \in ReadSizes : ReadStored(len) \/ ReadPacked(len)
  \/ \E offset \in Offsets, mode \in {"SET", "CUR", "END"} :
       /\ Idle
       /\ Header.compression = "HEATSHRINK" => ~(mode = "SET" /\ offset = 0)
       /\ espFsSeek(offset, mode)
  \/ espFsClose

Reader == FeedDecoder \/ PollDecoder \/ DecoderPolled
          \/ (Reading("polled") /\ DecoderStep
              /\ UNCHANGED <<hostVars, fsVars, eVars>>)
-----------------------------------------------------------------------------
FsInit(at, l, c) ==
  /\ listing = l /\ compType = c
  /\ mk = at /\ file = 0 /\ inp = <<>> /\ outsize = 0
  /\ packed = <<>> /\ image = <<>>
  /\ fs = NULL /\ fh = NULL /\ rd = NULL /\ result = NULL

FsNext == Host \/ espFsInit \/ Caller \/ Reader

-----------------------------------------------------------------------------
(* Properties *)

\* TYPE INVARIANT of the two state machines, the image and the open file.
FsTypeOK ==
  /\ EncoderTypeOK /\ DecoderTypeOK
  /\ mk \in {"off", "next", "sink", "finish", "poll", "polled", "store", "done"}
  /\ file \in 0 .. Len(listing) /\ Len(image) <= file /\ outsize \in Int
  /\ fs = NULL \/ fs = <<Len(image)>>
  /\ fh # NULL =>
       /\ fh.entry \in DOMAIN image
       /\ fh.posComp \in 0 .. Len(Header.data)
       /\ fh.posDecomp \in 0 .. Header.size
  /\ rd # NULL => fh # NULL

\* The bytes a reader of entry i should see.
ContentOf(i) == IF image[i].gzip THEN listing[i].gzip ELSE listing[i].bytes

\* A read returns the bytes that the file given to mkespfsimage has at the
\* position of the read, and returns less than it was asked for only at the
\* end of the file, which for a file without gzip is the size that espFsStat
\* gives: serveStaticFile takes a short read for the end.
ReadIsFile ==
  result # NULL =>
    LET content == ContentOf(result.entry)
        upto == result.from + Len(result.bytes)
    IN /\ result.bytes = SubSeq(content, result.from + 1, upto)
       /\ Len(result.bytes) < result.len =>
            /\ upto = Len(content)
            /\ ~image[result.entry].gzip =>
                 Stat(listing[result.entry].name) = [found |-> TRUE, size |-> upto]
=============================================================================
