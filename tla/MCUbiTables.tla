---------------------------- MODULE MCUbiTables ----------------------------
(* Instances of UbiTables for TLC; the .cfg files give the constants. *)
EXTENDS UbiTables

Campaign(c, l, n, k) == [calls |-> c, losses |-> l, bad |-> n, kinds |-> k]

PowerLosses == {Campaign({"erase", "write", "swl"}, 2, 1, {"erase", "data"})}
BadBlocks == {Campaign({"erase", "write"}, 0, 3, {"erase", "area", "index"}),
              Campaign({"write"}, 2, 2, {"erase", "data"})}
Undisturbed == {Campaign({"erase"}, 0, 0, {})}
=============================================================================
