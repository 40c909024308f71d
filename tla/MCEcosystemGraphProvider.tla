----------------------- MODULE MCEcosystemGraphProvider -----------------------
(* Instances of EcosystemGraphProvider for TLC.                             *)
EXTENDS EcosystemGraphProvider, TLC

CONSTANTS u1, u2, c1, c2, c3

(* Every client is another user. *)
UserPerClient == c1 :> u1 @@ c2 :> u2

CallSymmetry == Permutations(Calls)
=============================================================================
