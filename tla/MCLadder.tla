------------------------------ MODULE MCLadder ------------------------------
(* Small instances of Ladder: two cells of two ticks in each pool.          *)
EXTENDS Ladder, TLC
CONSTANTS hub, spoke
mcStart == (hub :> 2) @@ (spoke :> 2)
=============================================================================
