------------------------------ MODULE MCStation ------------------------------
(***************************************************************************)
(* An instance of Station: two networks with their passwords, requests     *)
(* that are whole, lack an argument or have an empty one.                  *)
(***************************************************************************)
EXTENDS Station

SetWiFi(ssid, password) ==
  [path |-> "/setwifi", SSID |-> ssid, password |-> password]

MCRequests ==
  { SetWiFi("home", "secret"), SetWiFi("office", "key"),
    SetWiFi("home", MISSING), SetWiFi(MISSING, "key"), SetWiFi(EMPTY, "key"),
    SetWiFi("office", EMPTY),
    [path |-> "/save"], [path |-> "/reset"] }
=============================================================================
