---------------------------- MODULE MCOracleGate ----------------------------
(* Small instances of OracleGate: a few ticks of clock, block numbers that  *)
(* wrap, and deviations on both sides of each bound.                        *)
EXTENDS OracleGate
=============================================================================
