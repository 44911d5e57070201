-------------------------- MODULE HeatshrinkFormat --------------------------
(***************************************************************************)
(* What the encoder and the decoder of heatshrink agree on                 *)
(* (espfs/heatshrink/include/heatshrink_common.h): the sizes, and the bits *)
(* of a number.  A byte of the compressed stream is a tuple of eight bits, *)
(* the most significant first; a byte of a file is a number.               *)
(***************************************************************************)
EXTENDS Integers, Sequences, FiniteSetsExt, SequencesExt

CONSTANTS WindowBits,       \* window_sz2
          LookaheadBits,    \* lookahead_sz2
          InputBuffer       \* input_buffer_size of a decoder: 16 in espFsOpen

\* What heatshrink_encoder_alloc and heatshrink_decoder_alloc demand, but
\* that an index fits a byte.
ASSUME SizesAssumption ==
  /\ WindowBits \in 4..8
  /\ LookaheadBits \in 3..(WindowBits - 1)
  /\ InputBuffer \in Nat \ {0}

Window == 2^WindowBits
Lookahead == 2^LookaheadBits

LITERAL_MARKER == <<1>>
BACKREF_MARKER == <<0>>

\* The count low bits of n, and the number that bits stand for.
Bits(n, count) == [i \in 1..count |-> (n \div 2^(count - i)) % 2]
Value(bits) == FoldLeft(LAMBDA n, bit : 2 * n + bit, 0, bits)

\* What is left of a sequence after its first n members.
Rest(s, n) == SubSeq(s, n + 1, Len(s))
=============================================================================
