------------------------------- MODULE MCIssues -------------------------------
(* Instances of Issues for TLC.                                             *)
EXTENDS Issues, TLC

(* IDs, contents and requests are interchangeable: they are only compared. *)
IssuesSymmetry ==
  UNION {Permutations(S) : S \in {IssueIDs, UUIDs, Contents, Requests}}
=============================================================================
