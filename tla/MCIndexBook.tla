---------------------------- MODULE MCIndexBook ----------------------------
(* Small instances of IndexBook.  The weights are the code's own numbers:   *)
(* the bands of one, two and three constituents all bind.                   *)
EXTENDS IndexBook
=============================================================================
