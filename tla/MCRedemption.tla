---------------------------- MODULE MCRedemption ----------------------------
(* Small instances of Redemption: a supply of a dozen, so every division    *)
(* has a remainder.                                                         *)
EXTENDS Redemption
=============================================================================
