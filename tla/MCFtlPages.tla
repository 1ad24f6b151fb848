---- MODULE MCFtlPages ----
(* Model checking of FtlPages: see MCFtlPages.cfg *)
EXTENDS FtlPages
====
