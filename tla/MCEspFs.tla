------------------------------- MODULE MCEspFs -------------------------------
(***************************************************************************)
(* An instance of EspFsSystem: windows of 16 bytes with back references of *)
(* up to 8, the smallest that heatshrink allows.  The files are made of    *)
(* blocks that repeat within a window, across two and not at all, with     *)
(* zeros (an empty window is zeros too), and run over several windows.     *)
(***************************************************************************)
EXTENDS EspFsSystem

Zeros(n) == [i \in 1..n |-> 0]
Ones(n) == [i \in 1..n |-> 1]
Count(n) == [i \in 1..n |-> i]
Pair(n) == [i \in 1..n |-> IF i % 2 = 0 THEN 170 ELSE 85]

MCInputs ==
  { <<>>, <<0>>, Zeros(3), Zeros(40), Ones(37), Count(4) \o Count(4), Count(7) \o Count(7),
    Count(20) \o Count(20), Pair(19) \o Zeros(9) \o Pair(12),
    Count(9) \o Count(9) \o Zeros(2) \o Count(9) \o <<255>> }

MCFile(name, bytes, gzip) == [name |-> name, bytes |-> bytes, gzip |-> gzip]

MCListings ==
  { << MCFile("a", bytes, <<>>), MCFile("b", Count(3), gzip) >> :
      bytes \in {<<0>>, Ones(37), Pair(19) \o Zeros(9) \o Pair(12),
                 Count(9) \o Count(9) \o Zeros(2) \o Count(9) \o <<255>>},
      gzip \in {<<>>, <<31, 139>>} }
  \cup { << MCFile("a", Count(20) \o Count(20), <<>>), MCFile("b", Count(3), Ones(4)) >> }
  \cup { << MCFile("a", Pair(30), <<>>), MCFile("a", Ones(20), <<>>) >> }

MCNames == {"a", "b"}
MCReadSizes == {1, 7, 64}
MCOffsets == {-5, 0, 100}
MCChunks == {1, 16}
MCBufferSizes == {1, 2, 64}
=============================================================================
