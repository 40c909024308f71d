------------------------ MODULE MCEcosystemGraphEditor ------------------------
(* Instances of EcosystemGraphEditor for TLC.                               *)
EXTENDS EcosystemGraphEditor, TLC

CONSTANTS u1, u2, c1, c2

(* Every client is another user. *)
UserPerClient == c1 :> u1 @@ c2 :> u2

CallSymmetry == Permutations(Calls)

(* The two clients change places together with their users. *)
Swap == u1 :> u2 @@ u2 :> u1 @@ c1 :> c2 @@ c2 :> c1
CallAndClientSymmetry ==
  CallSymmetry \cup {Swap} \cup {Swap @@ p : p \in CallSymmetry}
=============================================================================
