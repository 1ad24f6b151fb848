---------------------------- MODULE MCOnfmStack -----------------------------
(* OnfmStack for TLC: one or two failing status reads in a call. *)
EXTENDS OnfmStack
MCFaults == {{i} : i \in 0 .. 8} \cup {{i, j} : i \in 1 .. 4, j \in 5 .. 6}
=============================================================================
