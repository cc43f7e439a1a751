------------------------------- MODULE Clock -------------------------------
(***************************************************************************)
(* The chain's time, which the feed, the gate, the purse and the vault's    *)
(* life read.                                                               *)
(***************************************************************************)
CONSTANT MaxTime    \* bound of the clock
VARIABLE now        \* block.timestamp
=============================================================================
