-------------------------- MODULE MCFirmwareUpdate --------------------------
(* An instance of FirmwareUpdate for TLC: the partition table that libesphttpd
   recommends, a factory app and two slots.  The slots are alike. *)
EXTENDS FirmwareUpdate, TLC

CONSTANTS factory, ota0, ota1, c1, c2, shipped, new

Either == BOOLEAN
Alike == Permutations({c1, c2}) \union Permutations({ota0, ota1})
=============================================================================
