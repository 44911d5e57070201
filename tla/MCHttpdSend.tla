---------------------------- MODULE MCHttpdSend -----------------------------
(* Instances of HttpdSend for TLC: a buffer of 24 bytes, in which up to two
   chunks' worth of the six, two and five extra bytes compete with the data.
   A reserve of seven bytes is one too few. *)
EXTENDS HttpdSend

SomeLens == {0, 1, 3, 4, 9}
SomeReserves == {0, 7, 8}
=============================================================================
