-------------------------------- MODULE Playbook --------------------------------
(***************************************************************************)
(* CacaoPlaybook on the data of usePlaybookData: of the steps of the       *)
(* workflow and of the external references one each is on the screen, that *)
(* which an ObjectSelect or the hash of the url has chosen.                *)
(*                                                                         *)
(* A step stands for its id and a reference for its formatted name.  That  *)
(* a hash is itself the value of an option never happens, as it begins     *)
(* with #, so the effect of ObjectSelect does nothing.  The commands of a  *)
(* step are left out.                                                      *)
(***************************************************************************)
EXTENDS PaginatedTable

CONSTANTS
  WorkflowAt,   \* the steps each url answers with, in order
  StartAt,      \* the step the workflow starts with
  ReferencesAt  \* the external references, in order

ASSUME PlaybookAssumption ==
  \A u \in ValuesOf["url"] : /\ WorkflowAt[u] \in Seq(Range(WorkflowAt[u]))
                             /\ ReferencesAt[u] \in Seq(Range(ReferencesAt[u]))

VARIABLE playbook \* the state of CacaoPlaybook

(* Both selections are defaultSelectObject until there is data.            *)
NewPlaybook(urlHash) ==
  [step |-> Absent, reference |-> Absent,
   seen |-> urlHash,   \* urlHash in the last render
   touched |-> FALSE]  \* the selections were made since the hash chose one

WorkflowOf(answers) == IF answers = <<>> THEN <<>> ELSE WorkflowAt[Last(answers).params.url]
ReferencesOf(answers) == IF answers = <<>> THEN <<>> ELSE ReferencesAt[Last(answers).params.url]

FirstExternalReference(references) == IF references = <<>> THEN Absent ELSE Head(references)

(* The two effects of [data]: whatever was chosen, the first reference and *)
(* the step the workflow starts with are. *)
PlaybookReset(p, answers) ==
  [p EXCEPT !.reference = FirstExternalReference(ReferencesOf(answers)),
            !.step = StartAt[Last(answers).params.url],
            !.touched = TRUE]

(* Mutant: the effect of [urlHash] looks at the steps first. *)
HashSelectsStepFirst(p, answers, urlHash) ==
  LET references == ReferencesOf(answers)
      steps == WorkflowOf(answers)
  IN CASE FirstContained(steps, urlHash) # {} ->
            [p EXCEPT !.step = steps[Min(FirstContained(steps, urlHash))], !.touched = FALSE]
       [] FirstContained(references, urlHash) # {} ->
            [p EXCEPT !.reference = references[Min(FirstContained(references, urlHash))],
                      !.touched = FALSE]
       [] OTHER -> p

(* The effect of [urlHash]: a reference the hash contains, or else a step. *)
HashSelects(p, answers, urlHash) ==
  LET references == ReferencesOf(answers)
      steps == WorkflowOf(answers)
  IN CASE FirstContained(references, urlHash) # {} ->
            [p EXCEPT !.reference = references[Min(FirstContained(references, urlHash))],
                      !.touched = FALSE]
       [] FirstContained(references, urlHash) = {} /\ FirstContained(steps, urlHash) # {} ->
            [p EXCEPT !.step = steps[Min(FirstContained(steps, urlHash))], !.touched = FALSE]
       [] OTHER -> p

(* A render.  With data that comes after the hash the hash is not looked   *)
(* at again. *)
PlaybookRendered(p, answers, urlHash, answered) ==
  LET reset == IF answered THEN PlaybookReset(p, answers) ELSE p
      new == [reset EXCEPT !.seen = urlHash]
  IN IF urlHash = p.seen THEN new ELSE HashSelects(new, answers, urlHash)

(* onChange of the selects. *)
SelectStep(p, answers, step) ==
  IF step \in Range(WorkflowOf(answers)) THEN [p EXCEPT !.step = step, !.touched = TRUE] ELSE p
SelectReference(p, answers, reference) ==
  IF reference \in Range(ReferencesOf(answers))
  THEN [p EXCEPT !.reference = reference, !.touched = TRUE] ELSE p

(* The step and the reference on the screen. *)
PlaybookElements(p) == {p.step, p.reference} \ {Absent}
=============================================================================
