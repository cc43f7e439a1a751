---------------------------- MODULE MCLifecycle ----------------------------
(* Two vaults, one constituent, two currencies.                             *)
EXTENDS Lifecycle
CONSTANTS v1, v2, s1, usdg, weth
mcLinks == {<<v1, "registry">>, <<v1, "bonds">>, <<v2, "registry">>}
mcGifts == {<<v1, s1>>, <<Adapter, Amps>>}
mcStandbys == {<<v1, v2>>}
mcSeeds == {Only(usdg, 1)}
============================================================================
