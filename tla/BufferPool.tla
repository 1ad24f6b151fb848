----------------------------- MODULE BufferPool -----------------------------
(***************************************************************************)
(* The page buffers of core/buf/buf_api.c that move between the USB         *)
(* interrupt, ONFM, UBI and back.  `used' is pb_pool_used as a set; buffers *)
(* are numbered from 0 and NULL stands for the null pointer and for memory  *)
(* that is not of the pool.                                                 *)
(***************************************************************************)
EXTENDS Integers

CONSTANT BUFFER_COUNT      \* TOTAL_DIE_COUNT * 2 + 2

ASSUME PoolAssumption == BUFFER_COUNT \in Nat \ {0} /\ BUFFER_COUNT % 2 = 0

Buffers == 0 .. BUFFER_COUNT - 1
NULL == -1

\* BUF_Allocate looks at 0, C/2, 1, C/2 + 1, ... (the two halves are in two
\* memories): the rank of a buffer in that order.
AllocRank(b) ==
  IF b < BUFFER_COUNT \div 2 THEN 2 * b ELSE 2 * (b - BUFFER_COUNT \div 2) + 1

\* The buffer that BUF_Allocate returns.
BUF_Allocate(used) ==
  IF used = Buffers THEN NULL
  ELSE CHOOSE b \in Buffers \ used :
         \A c \in Buffers \ used : AllocRank(b) <= AllocRank(c)

\* BUF_Free asserts that a buffer of the pool is in use, and ignores the rest.
FreeAsserts(used, b) == b = NULL \/ b \in used
BUF_Free(used, b) == used \ {b}
=============================================================================
