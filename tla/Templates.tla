------------------------------ MODULE Templates ------------------------------
(***************************************************************************)
(* The handlers that expand templates, cgiEspFsTemplate                    *)
(* (core/httpd-espfs.c) and cgiEspVfsTemplate (util/esp32_httpd_vfs.c):    *)
(* %name% in a file is replaced by what a callback sends for it, and %% by *)
(* a percent sign.  A token may lie across two pieces of the file, and the *)
(* callback of the first may ask to be called again, so that the parser    *)
(* stops in the middle of its buffer and goes on there in the next call.   *)
(*                                                                         *)
(* A text is a sequence of signs: "%", members of NameSigns, which a token *)
(* may contain, and others.  "h:" is one sign here: it asks for the HTML   *)
(* encoding of what follows it ("html:", "js:" and "j:" work likewise).    *)
(* A sign counts for one byte.                                             *)
(*                                                                         *)
(* What a call sends waits in the send buffer until it has returned.  What *)
(* has no room there is dropped, and no handler looks at the result.       *)
(***************************************************************************)
EXTENDS FileHandlers

CONSTANTS
  NameSigns,    \* signs that a token may contain
  TokenSize,    \* the size of the array token
  Parts(_),     \* in how many calls the callback answers a token
  PartLens,     \* the numbers of bytes that it may send in such a call
  SendRoom      \* HTTPD_MAX_SENDBUFF_LEN less the head of a chunk

ASSUME TemplatesAssumption ==
  /\ TokenSize \in Nat \ {0, 1}
  /\ \A n \in 0 .. TokenSize - 1 :
       \A name \in [1 .. n -> NameSigns] : Parts(name) \in Nat \ {0}
  /\ PartLens \subseteq Nat
  /\ SendRoom \in Nat

VARIABLES
  tokenPos,     \* tokenPos
  token,        \* the first tokenPos signs of token
  encoding,     \* tokEncode
  tplArg,       \* the state of the callback: the parts it has sent
  chunkResume,  \* chunk_resume
  buff,         \* buff
  x, sp, e,     \* the place in buff, and the text that was not sent yet
  used,         \* sendBuffLen less the head of a chunk, in the call under way
  output,       \* what was sent behind the head of the response, up to the first
                \* loss
  told,         \* how often the callback was told that the file ends
  answered,     \* history: the bytes that the callback had for this call
  dropped       \* history: its values when something was dropped

bufferVars == <<buff, x, sp, e>>
tokenVars == <<tokenPos, token, encoding, tplArg, chunkResume>>
sendVars == <<used, output, answered, dropped>>
tplVars == <<tokenVars, bufferVars, sendVars, told>>
tplAll == <<fixed, disk, call, fileVars, upload, tplVars>>

IsTemplate == handler \in {"espfs template", "vfs template"}
Text == disk[opened[1]].text

\* The text as it is, and what the callback sends for a token.
Raw(signs) == [i \in DOMAIN signs |-> [text |-> <<signs[i]>>, encoding |-> "-", part |-> 0]]
Part(name, enc, part) == [text |-> name, encoding |-> enc, part |-> part]
Substituted(name, enc, part) == <<Part(name, enc, part)>>
\* The parts that the callback still has to send for it.
Answer(name, enc, done) ==
  [k \in 1 .. Parts(name) - done |-> Part(name, enc, done + k)]

\* Text that comes behind a loss has no place in the output any more.
Buffered(text, n) ==
  /\ used' = used + n
  /\ output' = IF dropped = {} THEN output \o text ELSE output
  /\ UNCHANGED dropped

NoRoom == dropped' = dropped \cup {answered'} /\ UNCHANGED output

\* One call of httpdSend: all or nothing.
httpdSend(text, n) ==
  IF used + n <= SendRoom THEN Buffered(text, n) ELSE NoRoom /\ UNCHANGED used

\* Several calls of it, of which some may find room.
SendPieces(text, n) ==
  IF used + n <= SendRoom THEN Buffered(text, n) ELSE NoRoom /\ used' \in used .. SendRoom

\* The text that waits to be sent, if there is any.
SendText ==
  IF sp # 0 THEN httpdSend(Raw(SubSeq(buff, e + 1, e + sp)), sp)
  ELSE UNCHANGED <<used, output, dropped>>

-----------------------------------------------------------------------------
(* The first call *)

\* cgiEspFsTemplate; a packed file is no template.
TemplateFirst ==
  LET found == FirstOf(Tried(Filepath(TRUE)))
  IN /\ handler = "espfs template" /\ call = "first"
     /\ IF found = <<>> THEN NotFound
        ELSE IF disk[found[1]].gzip THEN NotFound
        ELSE Respond(found[1], FALSE)
     /\ UNCHANGED tplVars

\* cgiEspVfsTemplate looks at a file whose name was not written yet: by chance
\* it is there.  It opens the url itself; when that is no file, it closes the
\* handle it has not got.
VfsTemplateFirst ==
  /\ handler = "vfs template" /\ call = "first"
  /\ \/ NotFound
     \/ IF IsFile(request.url) /\ request.route.by # "bare"
        THEN Respond(request.url, FALSE) ELSE Crash
  /\ UNCHANGED tplVars

-----------------------------------------------------------------------------
(* A further call *)

\* The call reads the next piece, or goes on in the last one; the send buffer is
\* empty.
TemplateNext ==
  /\ IsTemplate /\ call = "more"
  /\ IF chunkResume
     THEN UNCHANGED <<pos, bufferVars>>
     ELSE LET len == Min({ChunkLen, Len(Text) - pos})
          IN /\ buff' = SubSeq(Text, pos + 1, pos + len)
             /\ pos' = pos + len
             /\ e' = 0 /\ sp' = 0 /\ x' = 0
  /\ used' = 0 /\ answered' = 0
  /\ Return("inside")
  /\ UNCHANGED <<fixed, disk, opened, handles, reply, gzipHeader, sent, upload,
                 tokenVars, output, told, dropped>>

\* Mutant: no room is kept for the end of the name.
Room_ForAll == tokenPos < TokenSize

\* Whether a sign fits into the token, before the zero that will end it.
Room == tokenPos < TokenSize - 1

Inside == IsTemplate /\ call = "inside" /\ x < Len(buff)
Sign == buff[x + 1]

\* What a turn of the loop leaves alone.
TurnKeeps == UNCHANGED <<fixed, disk, fileVars, upload, buff, told>>

\* "Inside ordinary text."
Ordinary ==
  /\ Inside /\ tokenPos = -1
  /\ UNCHANGED answered
  /\ IF Sign = "%"
     THEN SendText /\ sp' = 0 /\ tokenPos' = 0 /\ token' = <<>>
     ELSE sp' = sp + 1 /\ UNCHANGED <<used, output, dropped, tokenPos, token>>
  /\ x' = x + 1
  /\ UNCHANGED <<call, e, encoding, tplArg, chunkResume>> /\ TurnKeeps

\* "Go collect normal chars again."
BackToText == tokenPos' = -1 /\ e' = x + 1 /\ x' = x + 1 /\ UNCHANGED sp

\* The second sign of %%.
Escaped ==
  /\ Inside /\ tokenPos = 0 /\ Sign = "%"
  /\ UNCHANGED answered
  /\ httpdSend(Raw(<<"%">>), 1)
  /\ BackToText
  /\ UNCHANGED <<call, token, encoding, tplArg, chunkResume>> /\ TurnKeeps

\* Mutant: the prefix is cut off again in the call that goes on.
Named_Again == [enc |-> IF Head(token) = "h:" THEN "HTML" ELSE encoding,
                name |-> IF Head(token) = "h:" THEN Tail(token) ELSE token]

\* The name of a token and how what stands for it is encoded; only the first
\* call for it looks for a prefix.
Named ==
  IF chunkResume \/ handler = "vfs template"
  THEN [enc |-> encoding, name |-> token]
  ELSE IF Head(token) = "h:" THEN [enc |-> "HTML", name |-> Tail(token)]
  ELSE [enc |-> "PLAIN", name |-> token]

\* The end of a token: the callback sends a part, piece by piece if it is to be
\* encoded, and the loop is left while it wants to send more; cgiEspVfsTemplate
\* does not ask.
Token ==
  /\ Inside /\ tokenPos > 0 /\ Sign = "%"
  /\ token' = Named.name /\ encoding' = Named.enc
  /\ \E n \in PartLens :
       /\ answered' = answered + n
       /\ SendPieces(Substituted(Named.name, Named.enc, tplArg + 1), n)
  /\ IF handler = "espfs template" /\ tplArg + 1 < Parts(Named.name)
     THEN /\ tplArg' = tplArg + 1
          /\ chunkResume' = TRUE
          /\ Return("more")
          /\ UNCHANGED <<tokenPos, x, sp, e>>
     ELSE /\ tplArg' = 0
          /\ chunkResume' = FALSE
          /\ BackToText
          /\ UNCHANGED call
  /\ TurnKeeps

\* "looks like we collected some garbage": what was taken for a token is sent
\* as it is, in three pieces.
Garbage ==
  /\ Inside /\ handler = "espfs template" /\ tokenPos >= 0 /\ Sign # "%"
  /\ ~Room \/ Sign \notin NameSigns
  /\ UNCHANGED answered
  /\ SendPieces(Raw(<<"%">> \o token \o <<Sign>>), tokenPos + 2)
  /\ BackToText
  /\ UNCHANGED <<call, token, encoding, tplArg, chunkResume>> /\ TurnKeeps

\* A sign of a token; cgiEspVfsTemplate drops what the array has no room for.
Collect ==
  /\ Inside /\ tokenPos >= 0 /\ Sign # "%"
  /\ IF handler = "espfs template"
     THEN Room /\ Sign \in NameSigns
     ELSE TRUE
  /\ IF Room
     THEN tokenPos' = tokenPos + 1 /\ token' = Append(token, Sign)
     ELSE UNCHANGED <<tokenPos, token>>
  /\ x' = x + 1
  /\ UNCHANGED <<call, sp, e, encoding, tplArg, chunkResume, sendVars>> /\ TurnKeeps

\* The callback hears of the end of the file, and everything is given back.
CleanUp == told' = told + 1 /\ handles' = handles - 1

\* The end of a call: the rest of the piece is sent.
TemplateReturns ==
  /\ IsTemplate /\ call = "inside" /\ x = Len(buff)
  /\ UNCHANGED answered
  /\ SendText
  /\ IF ReadEnds(Len(buff))
     THEN CleanUp /\ Return("done")
     ELSE UNCHANGED <<told, handles>> /\ Return("more")
  /\ UNCHANGED <<fixed, disk, opened, pos, reply, gzipHeader, sent, upload,
                 tokenVars, bufferVars>>

\* Mutant: a connection that closes while a token is being answered keeps its
\* file open for the next call.
CloseCleans_Resumed == ~chunkResume

CloseCleans == TRUE

\* A call after the connection was closed.
TemplateClosed ==
  /\ IsTemplate /\ call = "more"
  /\ IF CloseCleans THEN CleanUp ELSE UNCHANGED <<told, handles>>
  /\ Return("closed")
  /\ UNCHANGED <<fixed, disk, opened, pos, reply, gzipHeader, sent, upload,
                 tokenVars, bufferVars, sendVars>>

-----------------------------------------------------------------------------
\* A request as HttpdConn hands it to a handler.
TplInit(cases) ==
  /\ \E c \in cases : handler = c.handler /\ request = c.request /\ disk = c.disk
  /\ call = "first"
  /\ opened = <<>> /\ handles = 0 /\ pos = 0
  /\ reply = 0 /\ gzipHeader = FALSE /\ sent = 0
  /\ upload = [state |-> "START", received |-> 0, written |-> 0, lost |-> 0,
             success |-> <<>>]
  /\ tokenPos = -1 /\ token = <<>> /\ encoding = "PLAIN" /\ tplArg = 0
  /\ chunkResume = FALSE
  /\ buff = <<>> /\ x = 0 /\ sp = 0 /\ e = 0
  /\ used = 0 /\ output = <<>> /\ told = 0 /\ answered = 0 /\ dropped = {}

TplNext ==
  \/ FilesNext /\ UNCHANGED tplVars
  \/ TemplateFirst \/ VfsTemplateFirst \/ TemplateNext \/ Ordinary \/ Escaped
  \/ Token \/ Garbage \/ Collect \/ TemplateReturns \/ TemplateClosed

-----------------------------------------------------------------------------
(* Properties *)

\* TYPE INVARIANT of the handlers of files.
TplTypeOK ==
  /\ call \in {"first", "more", "inside", "done", "closed", "notfound", "crashed"}
  /\ pos \in Nat /\ sent \in Nat /\ reply \in {0, 200, 501}
  /\ upload.state \in {"START", "WRITE", "DONE", "ERR"}
  /\ upload.written <= upload.received /\ upload.received <= request.length
  /\ tokenPos \in -1 .. TokenSize - 1
  /\ x \in 0 .. Len(buff) /\ sp >= 0 /\ e + sp <= Len(buff)
  /\ encoding \in {"PLAIN", "HTML"}
  /\ used \in 0 .. SendRoom

\* A file that was opened is closed exactly once, however the handler ends,
\* and the callback of a template is told the end exactly once
\* (httpd-espfs.c:323-329, :529-535, esp32_httpd_vfs.c:101-109).
HandlesClosed ==
  /\ handles \in {0, 1}
  /\ call \in {"done", "closed", "notfound", "crashed"} => handles = 0
  /\ told = IF IsTemplate /\ call \in {"done", "closed"} THEN 1 ELSE 0

\* Where the token that a percent sign at place i begins may end for a handler: at
\* the next one, or for cgiEspFsTemplate at a sign that it cannot take.
Ending(by, text, i) ==
  {j \in i + 1 .. Len(text) :
     \/ text[j] = "%"
     \/ by = "espfs template" /\ (text[j] \notin NameSigns \/ j - i >= TokenSize)}

\* What the signs from place i to the end of its token at place j stand for.
Meaning(by, text, i, j) ==
  LET name == SubSeq(text, i + 1, Min({j - 1, i + TokenSize - 1}))
      prefixed == Head(name) = "h:"
  IN IF text[j] # "%" THEN Raw(<<"%">> \o name \o <<text[j]>>)
     ELSE IF j = i + 1 THEN Raw(<<"%">>)
     ELSE IF by = "vfs template" THEN Substituted(name, "PLAIN", 1)
     ELSE IF prefixed THEN Answer(Tail(name), "HTML", 0)
     ELSE Answer(name, "PLAIN", 0)

\* What a text stands for, read from each of its places on.
Expansion(by, text) ==
  LET from[i \in 1 .. Len(text) + 1] ==
        IF i > Len(text) THEN <<>>
        ELSE IF text[i] # "%" THEN Raw(<<text[i]>>) \o from[i + 1]
        ELSE IF Ending(by, text, i) = {} THEN <<>>
        ELSE LET j == Min(Ending(by, text, i)) IN Meaning(by, text, i, j) \o from[j + 1]
  IN from

\* What the callback may send in one call so that all else finds room too: the piece
\* of the file that the call reads, and a token that an earlier piece began.
AnswerRoom == SendRoom - ChunkLen - TokenSize

\* What is sent does not depend on where the file is cut into pieces nor on
\* how often the callback asks to be called again: it is the expansion of
\* the whole text, whose last token may be unfinished and is then left out.
\* But nobody looks whether httpdSend had room (httpd-espfs.c:404-540,
\* httpd.c:306): then only the beginning is sure, and that happens in no call
\* but one in which the callback sent more than AnswerRoom.
TemplateIsExpansion ==
  IsTemplate /\ opened # <<>> =>
    /\ IsPrefix(output, Expansion(handler, Text)[1])
    /\ call = "done" /\ dropped = {} => output = Expansion(handler, Text)[1]
    /\ \A n \in dropped : n > AnswerRoom
=============================================================================
