--------------------------- MODULE HeatshrinkTool ---------------------------
(***************************************************************************)
(* The command line tool of heatshrink (espfs/heatshrink/src/heatshrink.c):*)
(* it packs its input with -e and unpacks it with -d.  The module runs the *)
(* one and then the other on its output, with buffers of any size: this is *)
(* where the two state machines are cut at every byte.                     *)
(*                                                                         *)
(* The io_handle buffers of the tool are the sequences they deliver.       *)
(***************************************************************************)
EXTENDS HeatshrinkEncoder, HeatshrinkDecoder

CONSTANTS
  Inputs,       \* what the tool may be given to pack
  Chunks,       \* how many bytes read() may return at a time
  BufferSizes   \* buffer_size: how many bytes a poll may return

VARIABLES
  tool,         \* where the tool is
  input,        \* the file to pack
  unread,       \* what handle_read has not delivered
  data,         \* what it has delivered and sink has not taken
  atEnd,        \* data_sz = 0: handle_read found the end
  bufferSize,   \* the size of out_buf
  stream,       \* the packed file
  output        \* the unpacked file

toolVars == <<tool, input, unread, data, atEnd, bufferSize, stream, output>>

\* handle_read: a read of up to a window, short when the file is a pipe.
HandleRead ==
  /\ \E n \in Chunks :
       LET m == Min({n, Window, Len(unread)})
       IN data' = SubSeq(unread, 1, m) /\ unread' = Rest(unread, m)
  /\ atEnd' = (unread = <<>>)
  /\ UNCHANGED <<input, bufferSize, stream, output>>

\* handle_sink, handle_close: what a poll returned is written, at the latest
\* when the tool ends.
HandleSink(written, bytes) == written \o bytes

\* encode, the head of its loop
EncodeRead ==
  /\ tool = "encode"
  /\ HandleRead
  /\ tool' = IF atEnd' THEN "encode_poll" ELSE "encode_sink"
  /\ UNCHANGED <<eVars, dVars>>

\* encoder_sink_read
EncodeSink ==
  /\ tool = "encode_sink"
  /\ EncoderSink(data)
  /\ data' = Rest(data, Taken(data))
  /\ tool' = "encode_poll"
  /\ UNCHANGED <<input, unread, atEnd, bufferSize, stream, output, dVars>>

EncodePoll ==
  /\ tool = "encode_poll"
  /\ EncoderPoll(bufferSize)
  /\ tool' = "encode_polled"
  /\ UNCHANGED <<input, unread, data, atEnd, bufferSize, stream, output, dVars>>

\* After a poll: poll again, finish, sink the rest of the chunk, or read on.
EncodePolled ==
  /\ tool = "encode_polled" /\ ePoll # "running"
  /\ stream' = HandleSink(stream, eOut)
  /\ \/ /\ ePoll = "MORE"
        /\ tool' = "encode_poll"
        /\ UNCHANGED eVars
     \/ /\ ePoll = "EMPTY" /\ atEnd /\ eOut = <<>>
        /\ EncoderFinish
        /\ tool' = IF eState' = "DONE" THEN "switch" ELSE "encode"
     \/ /\ ePoll = "EMPTY" /\ ~(atEnd /\ eOut = <<>>)
        /\ tool' = IF data = <<>> THEN "encode" ELSE "encode_sink"
        /\ UNCHANGED eVars
  /\ UNCHANGED <<input, unread, data, atEnd, bufferSize, output, dVars>>

\* The tool is called again, with -d and the packed file.
Switch ==
  /\ tool = "switch"
  /\ tool' = "decode"
  /\ unread' = stream /\ data' = <<>> /\ atEnd' = FALSE
  /\ UNCHANGED <<input, bufferSize, stream, output, eVars, dVars>>

\* decode, the head of its loop: at the end of the input the decoder must be
\* finished.
DecodeRead ==
  /\ tool = "decode"
  /\ HandleRead
  /\ tool' = IF ~atEnd' THEN "decode_sink"
             ELSE IF DecoderFinished THEN "end" ELSE "decode"
  /\ UNCHANGED <<eVars, dVars>>

\* decoder_sink_read
DecodeSink ==
  /\ tool = "decode_sink"
  /\ DecoderSink(data)
  /\ data' = Rest(data, DecoderTaken(data))
  /\ tool' = "decode_poll"
  /\ UNCHANGED <<input, unread, atEnd, bufferSize, stream, output, eVars>>

DecodePoll ==
  /\ tool = "decode_poll"
  /\ DecoderPoll(bufferSize)
  /\ tool' = "decode_polled"
  /\ UNCHANGED <<input, unread, data, atEnd, bufferSize, stream, output, eVars>>

DecodePolled ==
  /\ tool = "decode_polled" /\ dPoll # "running"
  /\ output' = HandleSink(output, dOut)
  /\ tool' = IF dPoll = "MORE" THEN "decode_poll"
             ELSE IF data # <<>> THEN "decode_sink" ELSE "decode"
  /\ UNCHANGED <<input, unread, data, atEnd, bufferSize, stream, eVars, dVars>>

Encode == EncodeRead \/ EncodeSink \/ EncodePoll \/ EncodePolled
          \/ (tool = "encode_polled" /\ EncoderStep /\ UNCHANGED <<toolVars, dVars>>)

Decode == DecodeRead \/ DecodeSink \/ DecodePoll \/ DecodePolled
          \/ (tool = "decode_polled" /\ DecoderStep /\ UNCHANGED <<toolVars, eVars>>)

ToolInit(at, bytes, size) ==
  /\ tool = at /\ input = bytes /\ unread = bytes
  /\ data = <<>> /\ atEnd = FALSE
  /\ bufferSize = size
  /\ stream = <<>> /\ output = <<>>

ToolNext == Encode \/ Switch \/ Decode

-----------------------------------------------------------------------------
(* Properties *)

\* What has been unpacked is a prefix of what was packed, and all of it when
\* both machines say that they are done: the zero bits that fill the last
\* byte (st_flush_bit_buffer) are never taken for a back reference.
OutputIsInput ==
  /\ IsPrefix(output, input)
  /\ tool = "end" => output = input

\* The window of the decoder holds the last bytes unpacked and the buffer of
\* the encoder the last bytes packed, so that a back reference means the same
\* bytes to both.
WindowsAgree ==
  LET FromEnd(s, i) == IF i >= Len(s) THEN 0 ELSE s[Len(s) - i]
      taken == Len(input) - Len(unread) - Len(data)
      given == SubSeq(input, 1, taken)
  IN /\ tool \in {"decode", "decode_sink", "decode_poll"} =>
          \A i \in 0 .. Window - 1 :
             dWindow[(dHead - 1 - i) % Window] = FromEnd(output, i)
     /\ tool \in {"encode", "encode_sink", "encode_polled"} =>
          \A i \in 0 .. Window + eSize - 1 :
             eBuffer[Window + eSize - 1 - i] = FromEnd(given, i)

\* Unpacking undoes packing, at the end and at every step of the way.
RoundTrip == OutputIsInput /\ WindowsAgree
=============================================================================
