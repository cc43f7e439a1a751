--------------------------- MODULE MCBondPricing ---------------------------
(* A small instance of BondPricing.  With W = 4 an answer of 4 is one       *)
(* dollar; 4, 8 and 24 are a jump away from each other.                     *)
EXTENDS BondPricing
=============================================================================
