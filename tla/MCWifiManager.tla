---------------------------- MODULE MCWifiManager ----------------------------
(***************************************************************************)
(* An instance of WifiManager: two networks besides the one of WPS, two    *)
(* configurations of the access point, every mode, two connections that    *)
(* read the results of scans.                                              *)
(***************************************************************************)
EXTENDS WifiManager

MCRequests ==
  { [kind |-> "connect", sta |-> "home"], [kind |-> "ap", ap |-> "ap2"] }
  \cup { [kind |-> "mode", mode |-> m] : m \in {"NULL", "STA", "AP", "APSTA"} }
=============================================================================
