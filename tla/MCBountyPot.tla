---------------------------- MODULE MCBountyPot ----------------------------
(* Small instances of BountyPot: a two-tick day inside five ticks is        *)
(* enough for a window to open, be straddled, and open again.               *)
EXTENDS BountyPot

MCWorks == {0, 4}
MCGases == {1, 4}
MCFundings == {1, 3}
=============================================================================
