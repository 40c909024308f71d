------------------------ MODULE MCOrganizationMembership ------------------------
(* Instances of OrganizationMembership for TLC.                             *)
EXTENDS OrganizationMembership, TLC

CONSTANTS A, B, c1, c2, c3, c4

(* A public channel of the ecosystem, one of A by its row, and one of B    *)
(* that only its name relates to it.                                       *)
FirstChannels ==
  c1 :> [named |-> Ecosystem, public |-> TRUE, row |-> Ecosystem] @@
  c2 :> [named |-> A, public |-> FALSE, row |-> A] @@
  c3 :> [named |-> B, public |-> FALSE, row |-> NoOrg]

(* The user is listed, or beyond the page; so is the new channel. *)
FullOrEmpty == {Users, {}}
WithOrWithoutNew == {ChannelIDs, {c1, c2, c3}}

CallSymmetry == Permutations(Calls)
=============================================================================
