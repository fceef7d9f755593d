-------------------------- MODULE MCAutostartLock --------------------------
(***************************************************************************)
(* Instances of AutostartLock: three proxies, ticks of five seconds.       *)
(***************************************************************************)
EXTENDS AutostartLock, TLC

CONSTANTS a1, a2, a3

MCProxies == {a1, a2, a3}
MCSymmetry == Permutations(MCProxies)
=============================================================================
