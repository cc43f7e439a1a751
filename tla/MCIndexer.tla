----------------------------- MODULE MCIndexer -----------------------------
(* Two owners, a NAV of two steps.  The handlers take no branch on who an *)
(* owner is, so owners are symmetric.                                      *)
EXTENDS Indexer, TLC

CONSTANTS ann, bob

mcOwners == {ann, bob}
mcNavs == 1..2
Symmetry == Permutations(mcOwners)
=============================================================================
