----------------------------- MODULE EspFsSystem -----------------------------
(***************************************************************************)
(* The programs that pack and unpack files: the image made by mkespfsimage *)
(* and read by espfs, and the command line tool.  They use the same two    *)
(* state machines, one program at a time.                                  *)
(***************************************************************************)
EXTENDS EspFs, HeatshrinkTool

vars == <<fsAll, toolVars>>

\* The image is made and read...
ImageInit ==
  /\ \E l \in Listings, c \in {"NONE", "HEATSHRINK"} : FsInit("next", l, c)
  /\ ToolInit("off", <<>>, 1) /\ EncoderInit /\ DecoderInit

\* ...or the tool runs.
RunToolInit ==
  /\ \E bytes \in Inputs, size \in BufferSizes : ToolInit("encode", bytes, size)
  /\ FsInit("off", <<>>, "NONE") /\ EncoderInit /\ DecoderInit

Init == ImageInit \/ RunToolInit

Next == \/ FsNext /\ UNCHANGED toolVars
        \/ ToolNext /\ UNCHANGED <<hostVars, fsVars>>

\* Each program runs on; a caller of espfs may stop at any time, but a read
\* that has begun goes on.
Fairness ==
  /\ WF_vars(ToolNext /\ UNCHANGED <<hostVars, fsVars>>)
  /\ WF_vars(Host /\ UNCHANGED toolVars)
  /\ WF_vars(Reader /\ UNCHANGED toolVars)

Spec == Init /\ [][Next]_vars /\ Fairness

-----------------------------------------------------------------------------
(* Properties *)

\* TYPE INVARIANT
TypeOK == FsTypeOK /\ Len(stream) \in Nat

\* LIVENESS: the image gets made, the tool ends, and every read of a file
\* returns: no poll of either machine is repeated for ever
\* (the loops of compressHeatshrink, encode, decode and espFsRead).
ProgramsEnd ==
  /\ <>(tool = "end" \/ mk = "done")
  /\ rd # NULL ~> rd = NULL
=============================================================================
