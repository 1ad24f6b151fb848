----------------------------- MODULE MCFtlMeta -----------------------------
\* FtlMeta on small instances: see MCFtlMeta*.cfg.
EXTENDS FtlMeta
=============================================================================
