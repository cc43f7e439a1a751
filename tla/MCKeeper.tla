------------------------------ MODULE MCKeeper ------------------------------
(* A hub and one spoke, one constituent, a relayer with two places.        *)
EXTENDS Keeper, TLC

CONSTANTS hub, spoke, stock

mcPools == {hub, spoke}
mcEntries == {hub}
mcConstituents == {stock}
mcPoolOf == stock :> spoke
Clear == [p \in mcPools |-> "clear"]
Sky(g, f, m, b) == [gate |-> g, frozen |-> f, mood |-> m, pot |-> b]

Calm == Sky("GREEN", FALSE, Clear, "pays")
(* One sky per way a job can be refused. *)
mcSkies == { Calm,
             Sky("DEGRADED", FALSE, Clear, "pays"),
             Sky("DIVERGED", FALSE, [Clear EXCEPT ![spoke] = "full"], "dry") }
mcNight == { Sky("DEGRADED", FALSE, Clear, "pays") }
mcCalm == { Calm }
mcSlots == 1..2
=============================================================================
