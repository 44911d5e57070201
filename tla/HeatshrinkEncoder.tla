------------------------- MODULE HeatshrinkEncoder -------------------------
(***************************************************************************)
(* The encoder of heatshrink (espfs/heatshrink/src/heatshrink_encoder.c,   *)
(* built with HEATSHRINK_USE_INDEX), which packs the web pages on the host *)
(* that makes the image.  Its caller feeds it with sink, says with finish  *)
(* that nothing more comes, and takes compressed bytes with poll until a   *)
(* poll is EMPTY.                                                          *)
(*                                                                         *)
(* A poll runs the state machine of the encoder: each function st_...      *)
(* is an action, taken while ePoll is "running".                            *)
(***************************************************************************)
EXTENDS HeatshrinkFormat

VARIABLES
  eState,       \* state
  eBuffer,      \* buffer: a window of old input, then a window of new input
  eSize,        \* input_size
  eScan,        \* match_scan_index
  eMatchPos,    \* match_pos; match_index while find_longest_match runs
  eMatchLen,    \* match_length; match_maxlen while it runs
  ePos,         \* pos of find_longest_match
  eOutgoing,    \* the outgoing_bits_count bits of outgoing_bits
  eFinishing,   \* FLAG_IS_FINISHING
  eByte,        \* the bits of current_byte above bit_index
  eIndex,       \* search_index: the previous place of the byte at each place
  ePoll,        \* "running", or what the last poll returned
  eRoom,        \* out_buf_size of the poll
  eOut          \* the bytes the poll has pushed

eData == <<eBuffer, eSize, eScan, eIndex>>
eMatch == <<eMatchPos, eMatchLen, ePos, eOutgoing>>
eVars == <<eState, eData, eMatch, eFinishing, eByte, ePoll, eRoom, eOut>>

EncoderStates ==
  {"NOT_FULL", "FILLED", "SEARCH", "MATCHING", "YIELD_TAG_BIT", "YIELD_LITERAL",
   "YIELD_BR_INDEX", "YIELD_BR_LENGTH", "FLUSH_BITS", "SAVE_BACKLOG", "DONE"}

Places == 0 .. 2 * Window - 1

-----------------------------------------------------------------------------
(* heatshrink_encoder_alloc, heatshrink_encoder_reset *)
EncoderInit ==
  /\ eState = "NOT_FULL"
  /\ eBuffer = [p \in Places |-> 0]
  /\ eSize = 0 /\ eScan = 0
  /\ eMatchPos = 0 /\ eMatchLen = 0 /\ ePos = -1 /\ eOutgoing = <<>>
  /\ eFinishing = FALSE
  /\ eByte = <<>>
  /\ eIndex = <<>>
  /\ ePoll = "EMPTY" /\ eRoom = 0 /\ eOut = <<>>

\* The same of an encoder that is allocated later.
EncoderReset ==
  /\ eState' = "NOT_FULL"
  /\ eBuffer' = [p \in Places |-> 0]
  /\ eSize' = 0 /\ eScan' = 0
  /\ eMatchPos' = 0 /\ eMatchLen' = 0 /\ ePos' = -1 /\ eOutgoing' = <<>>
  /\ eFinishing' = FALSE
  /\ eByte' = <<>>
  /\ eIndex' = <<>>
  /\ ePoll' = "EMPTY" /\ eRoom' = 0 /\ eOut' = <<>>

\* Whether heatshrink_encoder_sink takes input.
EncoderTakes == ~eFinishing /\ eState = "NOT_FULL"

\* How many of the bytes it takes.
Taken(bytes) == Min({Window - eSize, Len(bytes)})

(* heatshrink_encoder_sink, when it returns HSER_SINK_OK *)
EncoderSink(bytes) ==
  LET from == Window + eSize
  IN /\ EncoderTakes
     /\ eBuffer' = [p \in Places |->
                      IF p \in from .. from + Taken(bytes) - 1
                      THEN bytes[p - from + 1] ELSE eBuffer[p]]
     /\ eSize' = eSize + Taken(bytes)
     /\ eState' = IF eSize' = Window THEN "FILLED" ELSE eState
     /\ UNCHANGED <<eScan, eIndex, eMatch, eFinishing, eByte, ePoll, eRoom, eOut>>

\* Mutant: finishing does not wake an encoder that waits for input.
EncoderFinish_KeepsState ==
  /\ eFinishing' = TRUE
  /\ UNCHANGED <<eState, eData, eMatch, eByte, ePoll, eRoom, eOut>>

(* heatshrink_encoder_finish *)
EncoderFinish ==
  /\ eFinishing' = TRUE
  /\ eState' = IF eState = "NOT_FULL" THEN "FILLED" ELSE eState
  /\ UNCHANGED <<eData, eMatch, eByte, ePoll, eRoom, eOut>>

(* heatshrink_encoder_poll, its entry *)
EncoderPoll(room) ==
  /\ ePoll' = IF room = 0 THEN "MISUSE" ELSE "running"
  /\ eRoom' = room
  /\ eOut' = <<>>
  /\ UNCHANGED <<eState, eData, eMatch, eFinishing, eByte>>

-----------------------------------------------------------------------------
\* can_take_byte
CanTakeByte == Len(eOut) < eRoom

\* push_bits: at most eight bits, which complete at most one byte.
PushBits(bits) ==
  LET all == eByte \o bits
  IN IF Len(all) >= 8
     THEN /\ eOut' = Append(eOut, SubSeq(all, 1, 8))
          /\ eByte' = Rest(all, 8)
     ELSE eByte' = all /\ UNCHANGED eOut

\* The end of the loop of heatshrink_encoder_poll: a state that could not be
\* left ends the poll when the output is full.
Step(state) ==
  /\ eState' = state
  /\ ePoll' = IF state = eState /\ Len(eOut') = eRoom THEN "MORE" ELSE ePoll
  /\ UNCHANGED <<eRoom, eFinishing>>

Polls(state) == ePoll = "running" /\ eState = state

NotFull ==
  /\ ePoll = "running" /\ eState \in {"NOT_FULL", "DONE"}
  /\ ePoll' = "EMPTY"
  /\ UNCHANGED <<eState, eData, eMatch, eFinishing, eByte, eRoom, eOut>>

\* do_indexing: for every place that holds input, the last place before it
\* that holds the same byte, or -1.
IndexOf(buffer, end) ==
  LET Same(q, p) == buffer[q] = buffer[p]
  IN [p \in 0 .. end - 1 |->
        IF \A q \in 0 .. p - 1 : ~Same(q, p) THEN -1
        ELSE CHOOSE q \in 0 .. p - 1 :
               Same(q, p) /\ \A r \in q + 1 .. p - 1 : ~Same(r, p)]

Filled ==
  /\ Polls("FILLED")
  /\ eIndex' = IndexOf(eBuffer, Window + eSize)
  /\ UNCHANGED <<eBuffer, eSize, eScan, eMatch, eByte, eOut>>
  /\ Step("SEARCH")

\* The end of the input that can be searched: without finishing, a whole
\* lookahead must follow.
Exhausted == eScan > eSize - (IF eFinishing THEN 1 ELSE Lookahead)

(* st_step_search: the end of the search, or a call of find_longest_match,
   which follows the index list from the place of the byte to encode *)
StepSearch ==
  /\ Polls("SEARCH")
  /\ UNCHANGED <<eData, eOutgoing, eByte, eOut>>
  /\ IF Exhausted
     THEN /\ UNCHANGED <<eMatchPos, eMatchLen, ePos>>
          /\ Step(IF eFinishing THEN "FLUSH_BITS" ELSE "SAVE_BACKLOG")
     ELSE /\ ePos' = eIndex[Window + eScan]
          /\ eMatchLen' = 0 /\ eMatchPos' = 0
          /\ Step("MATCHING")

\* The byte to encode, where the list ends, and how long a match may be.
End == Window + eScan
Start == End - Window
MaxLen == Min({Lookahead, eSize - eScan})

\* How many of the maxlen bytes from the byte to encode also stand at pos,
\* where at least one does.
MatchLength(pos) ==
  CHOOSE n \in 1 .. MaxLen :
    /\ \A i \in 1 .. n - 1 : eBuffer[pos + i] = eBuffer[End + i]
    /\ n = MaxLen \/ eBuffer[pos + n] # eBuffer[End + n]

\* find_longest_match, one turn of its loop: only a longer match than the one
\* known replaces it, and the longest that may be ends the loop.
TryMatch ==
  /\ Polls("MATCHING") /\ ePos >= Start
  /\ LET len == MatchLength(ePos)
     IN IF len > eMatchLen
        THEN /\ eMatchLen' = len /\ eMatchPos' = ePos
             /\ ePos' = IF len = MaxLen THEN -1 ELSE eIndex[ePos]
        ELSE ePos' = eIndex[ePos] /\ UNCHANGED <<eMatchLen, eMatchPos>>
  /\ UNCHANGED <<eState, eData, eOutgoing, eFinishing, eByte, ePoll, eRoom, eOut>>

\* break_even_point / 8: a shorter match takes less as literals.
BreakEven == (1 + WindowBits + LookaheadBits) \div 8

\* Its end, and that of st_step_search.
MatchFound ==
  /\ Polls("MATCHING") /\ ePos < Start
  /\ IF eMatchLen > BreakEven
     THEN /\ eMatchPos' = End - eMatchPos
          /\ UNCHANGED <<eScan, eMatchLen>>
     ELSE /\ eScan' = eScan + 1
          /\ eMatchLen' = 0
          /\ UNCHANGED eMatchPos
  /\ UNCHANGED <<eBuffer, eSize, eIndex, ePos, eOutgoing, eByte, eOut>>
  /\ Step("YIELD_TAG_BIT")

(* st_yield_tag_bit *)
YieldTagBit ==
  /\ Polls("YIELD_TAG_BIT")
  /\ UNCHANGED <<eData, eMatchPos, eMatchLen, ePos>>
  /\ \/ /\ ~CanTakeByte
        /\ UNCHANGED <<eOutgoing, eByte, eOut>>
        /\ Step("YIELD_TAG_BIT")
     \/ /\ CanTakeByte /\ eMatchLen = 0
        /\ PushBits(LITERAL_MARKER)
        /\ UNCHANGED eOutgoing
        /\ Step("YIELD_LITERAL")
     \/ /\ CanTakeByte /\ eMatchLen # 0
        /\ PushBits(BACKREF_MARKER)
        /\ eOutgoing' = Bits(eMatchPos - 1, WindowBits)
        /\ Step("YIELD_BR_INDEX")

\* push_literal_byte: the search has already stepped over the byte.
LiteralByte == eBuffer[Window + eScan - 1]

(* st_yield_literal *)
YieldLiteral ==
  /\ Polls("YIELD_LITERAL")
  /\ UNCHANGED <<eData, eMatch>>
  /\ \/ /\ ~CanTakeByte
        /\ UNCHANGED <<eByte, eOut>>
        /\ Step("YIELD_LITERAL")
     \/ /\ CanTakeByte
        /\ PushBits(Bits(LiteralByte, 8))
        /\ Step("SEARCH")

\* push_outgoing_bits: the next eight of the outgoing bits, or what is left.
PushOutgoing ==
  LET count == Min({8, Len(eOutgoing)})
  IN /\ PushBits(SubSeq(eOutgoing, 1, count))
     /\ eOutgoing' = Rest(eOutgoing, count)

(* st_yield_br_index *)
YieldBrIndex ==
  /\ Polls("YIELD_BR_INDEX")
  /\ UNCHANGED <<eData, eMatchPos, eMatchLen, ePos>>
  /\ \/ /\ ~CanTakeByte
        /\ UNCHANGED <<eOutgoing, eByte, eOut>>
        /\ Step("YIELD_BR_INDEX")
     \/ /\ CanTakeByte /\ eOutgoing # <<>>
        /\ PushOutgoing
        /\ Step("YIELD_BR_INDEX")
     \/ /\ CanTakeByte /\ eOutgoing = <<>>
        /\ eOutgoing' = Bits(eMatchLen - 1, LookaheadBits)
        /\ UNCHANGED <<eByte, eOut>>
        /\ Step("YIELD_BR_LENGTH")

(* st_yield_br_length *)
YieldBrLength ==
  /\ Polls("YIELD_BR_LENGTH")
  /\ UNCHANGED <<eBuffer, eSize, eIndex, eMatchPos, ePos>>
  /\ \/ /\ ~CanTakeByte
        /\ UNCHANGED <<eOutgoing, eByte, eOut, eScan, eMatchLen>>
        /\ Step("YIELD_BR_LENGTH")
     \/ /\ CanTakeByte /\ eOutgoing # <<>>
        /\ PushOutgoing
        /\ UNCHANGED <<eScan, eMatchLen>>
        /\ Step("YIELD_BR_LENGTH")
     \/ /\ CanTakeByte /\ eOutgoing = <<>>
        /\ eScan' = eScan + eMatchLen
        /\ eMatchLen' = 0
        /\ UNCHANGED <<eOutgoing, eByte, eOut>>
        /\ Step("SEARCH")

\* Mutant: the old input is thrown away instead of being kept for matches.
Shifted_NoBacklog ==
  [p \in Places |-> IF p >= Window /\ p + eScan \in Places
                    THEN eBuffer[p + eScan] ELSE eBuffer[p]]

\* What memmove leaves in the buffer: everything moved down by what has been
\* encoded; the end keeps its bytes.
Shifted == [p \in Places |-> IF p + eScan \in Places THEN eBuffer[p + eScan]
                                                     ELSE eBuffer[p]]

(* st_save_backlog, save_backlog *)
SaveBacklog ==
  /\ Polls("SAVE_BACKLOG")
  /\ eBuffer' = Shifted
  /\ eScan' = 0
  /\ eSize' = eSize - eScan
  /\ UNCHANGED <<eIndex, eMatch, eByte, eOut>>
  /\ Step("NOT_FULL")

(* st_flush_bit_buffer; the poll returns after it *)
FlushBits ==
  /\ Polls("FLUSH_BITS")
  /\ IF eByte # <<>> /\ CanTakeByte
     THEN eOut' = Append(eOut, eByte \o Bits(0, 8 - Len(eByte)))
     ELSE UNCHANGED eOut
  /\ eState' = IF eByte = <<>> \/ CanTakeByte THEN "DONE" ELSE "FLUSH_BITS"
  /\ ePoll' = "EMPTY"
  /\ UNCHANGED <<eData, eMatch, eFinishing, eByte, eRoom>>

EncoderStep ==
  \/ NotFull \/ Filled \/ StepSearch \/ TryMatch \/ MatchFound \/ YieldTagBit
  \/ YieldLiteral \/ YieldBrIndex \/ YieldBrLength \/ SaveBacklog \/ FlushBits

EncoderTypeOK ==
  /\ eState \in EncoderStates
  /\ DOMAIN eBuffer = Places
  /\ eSize \in 0..Window /\ eScan \in 0..Window
  /\ eMatchPos \in Places /\ ePos \in Places \cup {-1} /\ eMatchLen \in 0..Lookahead
  /\ Len(eOutgoing) <= WindowBits /\ Len(eByte) < 8
  /\ eFinishing \in BOOLEAN
  /\ ePoll \in {"running", "EMPTY", "MORE", "MISUSE"}
  /\ eRoom \in Nat /\ Len(eOut) <= eRoom
=============================================================================
