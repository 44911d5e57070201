--------------------------- MODULE MCRelayControl ---------------------------
(* Instances of RelayControl for TLC. *)
EXTENDS RelayControl

LatchingAndNormal == <<"LATCHING", "NORMAL">>

Post(relayno, st, timems) == [relayno |-> relayno, state |-> st, timems |-> timems]

\* Requests for two relays, untimed on, and timed ones whose time is at, between
\* and well above steps of the countdown, long enough for an untimed command
\* to finish while the countdown runs.  Relay 0 is refused; the request without
\* time repeats the state as time.
TwoRelayRequests ==
  {Post(0, 1, 0), Post(1, 1, 100), Post(1, 0, Missing), Post(1, 1, 650),
   Post(2, 1, 150), Post(2, 1, 0)}

Garbage == {0}
=============================================================================
