---------------------------- MODULE DurableCell ----------------------------
(***************************************************************************)
(* What a power-loss-recoverable table of OpenNFM promises its callers: one *)
(* value in RAM, one value that a restart brings back, and a commit that    *)
(* replaces the second by the first in one piece.  A power loss during a    *)
(* commit leaves either the old value or the new one, never a third.        *)
(* RootTable (core/ftl/ftl_root.c) is shown to implement it.                *)
(***************************************************************************)
CONSTANT Value

VARIABLES ram,       \* the table in RAM; while the power is off, `durable'
          durable,   \* the value a restart would load
          up         \* TRUE while the system is powered and mounted

vars == <<ram, durable, up>>

Init == /\ ram \in Value
        /\ durable = ram
        /\ up = TRUE

\* A caller changes the table in RAM.
Set == /\ up
       /\ ram' \in Value
       /\ UNCHANGED <<durable, up>>

\* A commit takes effect.
Commit == /\ up
          /\ durable' = ram
          /\ UNCHANGED <<ram, up>>

\* The power fails, possibly inside a commit.
PowerLoss == /\ up
             /\ up' = FALSE
             /\ durable' \in {durable, ram}
             /\ ram' = durable'

\* A restart loads the durable value.
Restart == /\ ~up
           /\ up' = TRUE
           /\ ram' = durable
           /\ UNCHANGED durable

Next == Set \/ Commit \/ PowerLoss \/ Restart

Spec == Init /\ [][Next]_vars
=============================================================================
