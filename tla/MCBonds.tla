------------------------------ MODULE MCBonds ------------------------------
(* Small instances of Bonds: one clock tick is a fraction of a day, an      *)
(* epoch and a vest, so windows expire, overlap and are straddled.          *)
EXTENDS Bonds
=============================================================================
