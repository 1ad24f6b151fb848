---------------------------- MODULE MCAnchorRing ----------------------------
(* AnchorRing on small instances: see MCAnchor*.cfg.                        *)
EXTENDS AnchorRing

Campaign(n, l, m, k) == [updates |-> n, losses |-> l, bad |-> m, kinds |-> k]

\* With power losses the ring does not wrap around: that is the case of MCAnchorWrap.cfg.
PassingCampaigns ==
  { Campaign(6, 3, 0, {}),
    Campaign(4, 2, 1, {"find", "previous"}),
    Campaign(9, 0, 3, {"find", "program", "previous"}) }

Wrapping == {Campaign(8, 1, 0, {})}
=============================================================================
