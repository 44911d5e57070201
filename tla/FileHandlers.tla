---------------------------- MODULE FileHandlers ----------------------------
(***************************************************************************)
(* The handlers of libesphttpd that deal in files: cgiEspFsHook for espfs  *)
(* (core/httpd-espfs.c), and cgiEspVfsGet and cgiEspVfsUpload for the file *)
(* systems of the VFS (util/esp32_httpd_vfs.c).  This firmware routes all  *)
(* other URLs to cgiEspFsHook.                                             *)
(*                                                                         *)
(* One request is served.  Its handler is called until it says that it is  *)
(* done; between two calls the client may close the connection, and then   *)
(* the handler is called once more to clean up (HttpdConn).  What a call   *)
(* keeps for the next one is in cgiData.                                   *)
(*                                                                         *)
(* A path is the sequence of its segments.  The data of a file is its      *)
(* length here, and its text in Templates.                                 *)
(***************************************************************************)
EXTENDS Integers, Sequences, SequencesExt, FiniteSetsExt

CONSTANTS
  ChunkLen,     \* FILE_CHUNK_LEN
  Dotted        \* segments that contain a dot

ASSUME FilesAssumption == ChunkLen \in Nat \ {0}

VARIABLES
  handler,      \* which handler serves the request
  request,      \* its route, url, and what it says
  disk,         \* the files: a function from paths to [size, gzip] or texts
  call,         \* "first", "more", "inside" a call, or how the handler ended
  opened,       \* history: the path of the file that was opened, or none
  handles,      \* open file handles
  pos,          \* the position in the file
  reply,        \* the status that was sent, or 0
  gzipHeader,   \* Content-Encoding: gzip was sent
  sent,         \* how many bytes of the file were sent
  upload        \* UploadState, what the client has sent, and the answer; of
                \* its file, what was lost when it was closed (history)

fileVars == <<opened, handles, pos, reply, gzipHeader, sent>>
fixed == <<handler, request>>

-----------------------------------------------------------------------------
(* Paths *)

IsFile(path) == path \in DOMAIN disk
IsDir(path) == \E p \in DOMAIN disk : IsStrictPrefix(path, p)

\* getFilepath of httpd-espfs.c and of esp32_httpd_vfs.c: the url, a file or
\* folder that the route names with the url behind it, or the part of the url
\* below the route.  espFsStat answers 1 for a file, which httpd-espfs.c takes
\* for "no such file", so that there the url is always put behind the name.  A
\* "bare" route has httpdCgiEx and no base path.
Filepath(espfs) ==
  LET route == request.route
      below == SubSeq(request.url, Len(route.prefix) + 1, Len(request.url))
  IN CASE route.by = "url" -> request.url
       [] route.by = "arg" -> IF ~espfs /\ IsFile(route.base) THEN route.base
                              ELSE route.base \o request.url
       [] route.by = "ex"  -> IF IsFile(route.base) THEN route.base
                              ELSE route.base \o below
       [] route.by = "bare" -> below

IndexNames == <<"index.html", "index.htm", "index.tpl.html", "index.tpl">>

\* espFsOpen and, for what may be a folder, tryOpenIndex: the paths tried, in
\* their order.
Tried(path) ==
  <<path>> \o IF \E i \in DOMAIN path : path[i] \in Dotted THEN <<>>
              ELSE [i \in DOMAIN IndexNames |-> Append(path, IndexNames[i])]

\* The first of the paths that is a file, or none.
FirstOf(paths) ==
  LET found == {i \in DOMAIN paths : IsFile(paths[i])}
  IN IF found = {} THEN <<>> ELSE <<paths[Min(found)]>>

-----------------------------------------------------------------------------
(* How a call ends *)

Return(how) == call' = how

NotFound ==
  /\ Return("notfound")
  /\ UNCHANGED <<fixed, disk, fileVars, upload>>

Crash ==
  /\ Return("crashed")
  /\ UNCHANGED <<fixed, disk, fileVars, upload>>

\* The file is opened and the head of the response sent.
Respond(path, gzip) ==
  /\ opened' = <<path>> /\ handles' = handles + 1 /\ pos' = 0
  /\ reply' = 200 /\ gzipHeader' = gzip
  /\ Return("more")
  /\ UNCHANGED <<fixed, disk, sent, upload>>

\* The client is told that it has to accept gzip, and the file closed again.
Refuse(path) ==
  /\ opened' = <<path>> /\ reply' = 501
  /\ Return("done")
  /\ UNCHANGED <<fixed, disk, handles, pos, gzipHeader, sent, upload>>

-----------------------------------------------------------------------------
(* GET *)

\* serveStaticFile, its first call
StaticFirst ==
  LET found == FirstOf(Tried(Filepath(TRUE)))
  IN /\ handler = "espfs" /\ call = "first"
     /\ IF found = <<>> THEN NotFound
        ELSE LET gzip == disk[found[1]].gzip
             IN IF gzip /\ ~request.acceptsGzip THEN Refuse(found[1])
                ELSE Respond(found[1], gzip)

Compressed(path) == Append(path, ".gz")

\* What cgiEspVfsGet opens first: the file, or the index of the folder.  Of the
\* root nothing is left once its slash is cut off, and that is no folder.
VfsPath ==
  LET asked == Filepath(FALSE)
  IN IF asked # <<>> /\ IsDir(asked) THEN Append(asked, "index.html") ELSE asked

\* Whether strstr finds "gzip" in acceptEncodingBuffer, which is not
\* written when the header is not there.
SeesGzip == IF request.hasAccept THEN {request.acceptsGzip} ELSE BOOLEAN

\* cgiEspVfsGet, its first call: the path, or the same packed; only of a packed
\* file's name does it ask whether the client accepts it.  Its getFilepath takes
\* the length of a base path before it looks whether there is one.
VfsFirst ==
  /\ handler = "vfs" /\ call = "first"
  /\ IF request.method # "GET" THEN NotFound
     ELSE IF request.route.by = "bare" THEN Crash
     ELSE IF IsFile(VfsPath) THEN Respond(VfsPath, disk[VfsPath].gzip)
     ELSE IF ~IsFile(Compressed(VfsPath)) THEN NotFound
     ELSE \E sees \in SeesGzip :
            IF sees THEN Respond(Compressed(VfsPath), TRUE)
            ELSE Refuse(Compressed(VfsPath))

\* Mutant: every read is the last.
ReadEnds_Any(len) == len <= ChunkLen

\* A read that does not fill the buffer is the last.
ReadEnds(len) == len # ChunkLen

\* A further call of both: the next piece of the file.
ServeNext ==
  LET len == Min({ChunkLen, disk[opened[1]].size - pos})
  IN /\ handler \in {"espfs", "vfs"} /\ call = "more"
     /\ sent' = sent + len /\ pos' = pos + len
     /\ IF ReadEnds(len)
        THEN handles' = handles - 1 /\ Return("done")
        ELSE UNCHANGED handles /\ Return("more")
     /\ UNCHANGED <<fixed, disk, opened, reply, gzipHeader, upload>>

\* A call of either after the connection was closed.
ServeClosed ==
  /\ handler \in {"espfs", "vfs"} /\ call = "more"
  /\ handles' = handles - 1
  /\ Return("closed")
  /\ UNCHANGED <<fixed, disk, opened, pos, reply, gzipHeader, sent, upload>>

-----------------------------------------------------------------------------
(* cgiEspVfsUpload *)

\* Where the file goes: the file that the route names, or below its folder
\* the argument "filename" or else the url.
UploadPath ==
  IF request.route.by = "file" THEN request.route.base
  ELSE request.route.base \o
         (IF request.filename # <<>> THEN request.filename ELSE request.url)

\* What the first call makes of the request: multipart bodies, a route
\* without a name, a folder that cannot be made and a file that cannot be
\* opened are errors; a name that is too long leaves the state at its start.
UploadStarts ==
  IF request.multipart \/ request.route.base = <<>> THEN {"ERR"}
  ELSE IF request.tooLong THEN {"START"} ELSE {"WRITE", "ERR"}

\* The state after fwrite took count of len bytes into its buffer.
WriteState(state, len, count, received, written) ==
  IF written + count >= request.length THEN "DONE"
  ELSE IF count # len THEN "ERR" ELSE state

\* How many of the bytes that fwrite took are lost when the file is closed.
Losses(closes, written) == IF closes THEN 0 .. written ELSE {0}

\* The disk when a file holds size bytes; what waits in the buffer of stdio is not
\* counted, and nobody reads the file before it is closed.
Holding(path, size) ==
  [p \in DOMAIN disk \cup {path} |->
     IF p = path THEN [size |-> size, gzip |-> FALSE] ELSE disk[p]]

\* The part of a call that all calls share: len more bytes have come.  The last
\* call closes the file, and the flush that is part of it may lose bytes that
\* fwrite took; what fclose says of it nobody looks at.
Process(state, len, count, opensFile) ==
  LET received == upload.received + len
      writes == state = "WRITE"
      next == IF writes
              THEN WriteState(state, len, count, upload.received, upload.written)
              ELSE state
      open == handles + (IF opensFile THEN 1 ELSE 0)
      over == received = request.length
      written == upload.written + count
      file == IF opensFile THEN <<UploadPath>> ELSE opened
  IN /\ count <= len /\ (~writes => count = 0)
     /\ \E lost \in Losses(over /\ file # <<>>, written) :
          /\ upload' = [state |-> next, received |-> received,
                        written |-> written, lost |-> lost,
                        success |-> IF over THEN <<next = "DONE">> ELSE <<>>]
          /\ disk' = IF file = <<>> THEN disk
                     ELSE Holding(file[1], IF over THEN written - lost ELSE 0)
     /\ opened' = file
     /\ handles' = IF over THEN 0 ELSE open
     /\ Return(IF over THEN "done" ELSE "more")
     /\ UNCHANGED <<fixed, pos, reply, gzipHeader, sent>>

\* The pieces of the body that may come next.
Pieces == {len \in 0 .. ChunkLen : /\ upload.received + len <= request.length
                                   /\ len = 0 => request.length = 0}

\* The first call of cgiEspVfsUpload; opening the file empties it.  When the
\* state cannot be allocated, it is written to all the same.
UploadFirst ==
  /\ handler = "upload" /\ call = "first"
  /\ IF request.method \notin {"PUT", "POST"} THEN NotFound
     ELSE \/ Crash
          \/ \E state \in UploadStarts, len \in Pieces, count \in 0 .. ChunkLen :
               Process(state, len, count, state = "WRITE")

UploadNext ==
  /\ handler = "upload" /\ call = "more"
  /\ \E len \in Pieces, count \in 0 .. ChunkLen :
       /\ len > 0
       /\ Process(upload.state, len, count, FALSE)

\* What was written of the file stays.
UploadClosed ==
  /\ handler = "upload" /\ call = "more"
  /\ \E lost \in Losses(opened # <<>>, upload.written) :
       /\ upload' = [upload EXCEPT !.lost = lost]
       /\ disk' = IF opened = <<>> THEN disk ELSE Holding(opened[1], upload.written - lost)
  /\ handles' = 0
  /\ Return("closed")
  /\ UNCHANGED <<fixed, opened, pos, reply, gzipHeader, sent>>

FilesNext ==
  \/ StaticFirst \/ VfsFirst \/ ServeNext \/ ServeClosed
  \/ UploadFirst \/ UploadNext \/ UploadClosed

-----------------------------------------------------------------------------
(* Properties *)

\* A file that was served to its end was sent whole, said to be packed exactly
\* if it is or stands in for the file that was asked for under the name of its
\* packed form, and by cgiEspFsHook packed only to a client that accepts it
\* (httpd-espfs.c:105-211, esp32_httpd_vfs.c:91-218).
ServedWhole ==
  handler \in {"espfs", "vfs"} /\ call = "done" /\ reply = 200 =>
    LET file == disk[opened[1]]
    IN /\ sent = file.size
       /\ gzipHeader <=>
            file.gzip \/ (handler = "vfs" /\ opened[1] # VfsPath)
       /\ handler = "espfs" /\ gzipHeader => request.acceptsGzip

\* The answer to an upload says success exactly if the file was opened and took
\* all that the client sent: it holds that, less what was lost when it was
\* closed.  The answer does not say so: the result of fclose is not looked at
\* (esp32_httpd_vfs.c:525-561, fclose at :549).
UploadTruth ==
  upload.success # <<>> =>
    (upload.success[1] <=>
       opened # <<>> /\ disk[opened[1]].size + upload.lost = request.length)

\* What a client is told of a file is so: what it gets of one that is served, and
\* what it is told of one that it sent.
FilesAsTold == ServedWhole /\ UploadTruth
=============================================================================
