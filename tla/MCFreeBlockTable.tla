-------------------------- MODULE MCFreeBlockTable --------------------------
\* FreeBlockTable on a small instance: see MCFreeBlockTable.cfg.
EXTENDS FreeBlockTable
=============================================================================
