----------------------------- MODULE MCIssueWizard -----------------------------
(* Instances of IssueWizard for TLC.                                        *)
EXTENDS IssueWizard, TLC

(* Users, slots, names and issues are interchangeable: they are only       *)
(* compared.                                                               *)
WizardSymmetry ==
  UNION {Permutations(S) : S \in {Users, Slots, Names, IssueIDs}}
=============================================================================
