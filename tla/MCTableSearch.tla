--------------------------- MODULE MCTableSearch ---------------------------
(* Instances of TableSearch for TLC; the .cfg files give the constants. *)
EXTENDS TableSearch
=============================================================================
