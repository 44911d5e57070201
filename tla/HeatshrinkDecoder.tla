------------------------- MODULE HeatshrinkDecoder -------------------------
(***************************************************************************)
(* The decoder of heatshrink (espfs/heatshrink/src/heatshrink_decoder.c),  *)
(* which unpacks the web pages on the station while they are sent.  Its    *)
(* caller feeds it with sink and takes bytes with poll; a poll runs the    *)
(* state machine of the decoder until a state cannot be left.              *)
(*                                                                         *)
(* Windows of more than 256 bytes, whose indices take the states ..._MSB,  *)
(* are left out (SizesAssumption).                                         *)
(***************************************************************************)
EXTENDS HeatshrinkFormat

VARIABLES
  dState,       \* state
  dInput,       \* the input_size bytes of the input buffer
  dIndex,       \* input_index
  dBits,        \* the bits of current_byte from bit_index down
  dWindow,      \* the window buffer
  dHead,        \* head_index, modulo the window
  dOutIndex,    \* output_index
  dOutCount,    \* output_count
  dPoll,        \* "running", or what the last poll returned
  dRoom,        \* out_buf_size of the poll
  dOut          \* the bytes the poll has pushed

dInputVars == <<dInput, dIndex, dBits>>
dRef == <<dOutIndex, dOutCount>>
dVars == <<dState, dInputVars, dWindow, dHead, dRef, dPoll, dRoom, dOut>>

DecoderStates == {"TAG_BIT", "YIELD_LITERAL", "BACKREF_INDEX_LSB",
                  "BACKREF_COUNT_LSB", "YIELD_BACKREF"}

-----------------------------------------------------------------------------
(* heatshrink_decoder_alloc, heatshrink_decoder_reset *)
DecoderInit ==
  /\ dState = "TAG_BIT"
  /\ dInput = <<>> /\ dIndex = 0 /\ dBits = <<>>
  /\ dWindow = [p \in 0 .. Window - 1 |-> 0]
  /\ dHead = 0
  /\ dOutIndex = 0 /\ dOutCount = 0
  /\ dPoll = "EMPTY" /\ dRoom = 0 /\ dOut = <<>>

\* The same of a decoder that is allocated later.
DecoderReset ==
  /\ dState' = "TAG_BIT"
  /\ dInput' = <<>> /\ dIndex' = 0 /\ dBits' = <<>>
  /\ dWindow' = [p \in 0 .. Window - 1 |-> 0]
  /\ dHead' = 0
  /\ dOutIndex' = 0 /\ dOutCount' = 0
  /\ dPoll' = "EMPTY" /\ dRoom' = 0 /\ dOut' = <<>>

\* How many of the bytes heatshrink_decoder_sink takes: the buffer is only
\* empty again when its last byte has been read.
DecoderTaken(bytes) == Min({InputBuffer - Len(dInput), Len(bytes)})

(* heatshrink_decoder_sink *)
DecoderSink(bytes) ==
  /\ dInput' = dInput \o SubSeq(bytes, 1, DecoderTaken(bytes))
  /\ UNCHANGED <<dState, dIndex, dBits, dWindow, dHead, dRef, dPoll, dRoom, dOut>>

(* heatshrink_decoder_poll, its entry *)
DecoderPoll(room) ==
  /\ dPoll' = "running"
  /\ dRoom' = room
  /\ dOut' = <<>>
  /\ UNCHANGED <<dState, dInputVars, dWindow, dHead, dRef>>

\* heatshrink_decoder_finish returns HSDR_FINISH_DONE.
DecoderFinished == dState # "YIELD_BACKREF" /\ dInput = <<>>

-----------------------------------------------------------------------------
\* get_bits does not return NO_BITS.  A byte of input always has enough bits.
HasBits(count) == dInput # <<>> \/ Len(dBits) >= count

\* get_bits: the bits it finds, pulling a byte when those it has run out.
Pulled(count) == IF Len(dBits) >= count THEN dBits
                 ELSE dBits \o dInput[dIndex + 1]

GetBits(count) ==
  /\ dBits' = Rest(Pulled(count), count)
  /\ IF Len(dBits) >= count
     THEN UNCHANGED <<dInput, dIndex>>
     ELSE IF dIndex + 1 = Len(dInput)
     THEN dInput' = <<>> /\ dIndex' = 0
     ELSE dIndex' = dIndex + 1 /\ UNCHANGED dInput

GotBits(count) == Value(SubSeq(Pulled(count), 1, count))

Running(state) == dPoll = "running" /\ dState = state

\* The state cannot be left: the poll returns.
Stuck == /\ dPoll' = IF Len(dOut) = dRoom THEN "MORE" ELSE "EMPTY"
         /\ UNCHANGED <<dState, dInputVars, dWindow, dHead, dRef, dRoom, dOut>>

(* st_tag_bit *)
TagBit ==
  /\ Running("TAG_BIT")
  /\ \/ ~HasBits(1) /\ Stuck
     \/ /\ HasBits(1)
        /\ GetBits(1)
        /\ IF GotBits(1) = 1
           THEN dState' = "YIELD_LITERAL" /\ UNCHANGED dOutIndex
           ELSE dState' = "BACKREF_INDEX_LSB" /\ dOutIndex' = 0
        /\ UNCHANGED <<dWindow, dHead, dOutCount, dPoll, dRoom, dOut>>

(* st_yield_literal *)
YieldLiteralByte ==
  /\ Running("YIELD_LITERAL")
  /\ \/ (Len(dOut) = dRoom \/ ~HasBits(8)) /\ Stuck
     \/ /\ Len(dOut) < dRoom /\ HasBits(8)
        /\ GetBits(8)
        /\ dWindow' = [dWindow EXCEPT ![dHead] = GotBits(8)]
        /\ dHead' = (dHead + 1) % Window
        /\ dOut' = Append(dOut, GotBits(8))
        /\ dState' = "TAG_BIT"
        /\ UNCHANGED <<dRef, dPoll, dRoom>>

(* st_backref_index_lsb *)
BackrefIndexLsb ==
  /\ Running("BACKREF_INDEX_LSB")
  /\ \/ ~HasBits(WindowBits) /\ Stuck
     \/ /\ HasBits(WindowBits)
        /\ GetBits(WindowBits)
        /\ dOutIndex' = GotBits(WindowBits) + 1
        /\ dOutCount' = 0
        /\ dState' = "BACKREF_COUNT_LSB"
        /\ UNCHANGED <<dWindow, dHead, dPoll, dRoom, dOut>>

(* st_backref_count_lsb *)
BackrefCountLsb ==
  /\ Running("BACKREF_COUNT_LSB")
  /\ \/ ~HasBits(LookaheadBits) /\ Stuck
     \/ /\ HasBits(LookaheadBits)
        /\ GetBits(LookaheadBits)
        /\ dOutCount' = GotBits(LookaheadBits) + 1
        /\ dState' = "YIELD_BACKREF"
        /\ UNCHANGED <<dWindow, dHead, dOutIndex, dPoll, dRoom, dOut>>

\* The n bytes a back reference stands for: a reference shorter than n
\* repeats itself.
Referred(n) ==
  [i \in 1..n |-> dWindow[(dHead - dOutIndex + ((i - 1) % dOutIndex)) % Window]]

(* st_yield_backref *)
YieldBackref ==
  LET count == Min({dRoom - Len(dOut), dOutCount})
  IN /\ Running("YIELD_BACKREF")
     /\ \/ Len(dOut) = dRoom /\ Stuck
        \/ /\ Len(dOut) < dRoom
           /\ dOut' = dOut \o Referred(count)
           /\ dWindow' = [p \in DOMAIN dWindow |->
                            LET i == (p - dHead) % Window
                            IN IF i < count THEN Referred(count)[i + 1]
                                            ELSE dWindow[p]]
           /\ dHead' = (dHead + count) % Window
           /\ dOutCount' = dOutCount - count
           /\ dState' = IF dOutCount' = 0 THEN "TAG_BIT" ELSE "YIELD_BACKREF"
           /\ dPoll' = IF dOutCount' # 0 THEN "MORE" ELSE dPoll
           /\ UNCHANGED <<dInputVars, dOutIndex, dRoom>>

DecoderStep == TagBit \/ YieldLiteralByte \/ BackrefIndexLsb \/ BackrefCountLsb
               \/ YieldBackref

DecoderTypeOK ==
  /\ dState \in DecoderStates
  /\ Len(dInput) <= InputBuffer
  /\ IF dInput = <<>> THEN dIndex = 0 ELSE dIndex \in 0 .. Len(dInput) - 1
  /\ Len(dBits) < 8
  /\ dHead \in DOMAIN dWindow
  /\ dOutIndex \in 0 .. Window /\ dOutCount \in 0 .. Lookahead
  /\ dPoll \in {"running", "EMPTY", "MORE"}
  /\ dRoom \in Nat /\ Len(dOut) <= dRoom
=============================================================================
