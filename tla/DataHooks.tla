------------------------------- MODULE DataHooks -------------------------------
(***************************************************************************)
(* The data hooks of the webapp (hooks/general.ts): an effect fetches      *)
(* what a widget shows whenever one of its dependencies changes, and a     *)
(* flag that the cleanup of the effect sets keeps the answer of an older   *)
(* fetch from the screen.                                                  *)
(*                                                                         *)
(* The life of one component with one of the hooks.  The answers come in   *)
(* any order, and any fetch may fail: fetch rejects, or                    *)
(* doFetchWithResponse throws a ClientError.  Widgets puts the steps       *)
(* together with what the widgets make of the answers.                     *)
(***************************************************************************)
EXTENDS Naturals, FiniteSetsExt, SequencesExt

CONSTANTS
  Hooks,     \* the hooks the component may use: records as below
  Values,    \* the values of the parameters
  ValuesOf,  \* those of each of them
  Absent,    \* a parameter that is undefined or empty
  MaxRenders, \* how often the parameters change
  MaxFetches  \* how many fetches of each hook are on their way at a time

VARIABLES
  hook,    \* the hook of this component
  mounted,
  params,  \* what the component passes to the hook in its last render
  renders,
  effect,  \* the last run of the effect, with what has become of its fetch
  fetches, \* the fetches on their way, with the flag of their closure
  shown    \* what the state of the hook was made from, in order

hookVars == <<hook, mounted, params, renders, effect, fetches, shown>>

(* What the fetch of a hook reads, what its effect depends on, the         *)
(* parameters without which it fetches nothing, what it does with an       *)
(* answer, and with a failure that comes "guarded" by the flag or not; and *)
(* the kind of its data, where a module is about it.                       *)
Hook(data, reads, deps, merge, failure) ==
  [data |-> data, reads |-> reads, deps |-> deps, needs |-> {},
   merge |-> merge, failure |-> failure]

FetchingData(data, reads, deps) == Hook(data, reads, deps, "replace", "unhandled")
Fetching(reads, deps) == FetchingData("other", reads, deps)

useSectionInfo == FetchingData("info", {"id", "url"}, {"id", "refresh"})
useGraphData == FetchingData("graph", {"url", "sectionUrlHash"}, {"url", "hash"})
useEcosystemGraphData == Fetching({"url"}, {"url"})
useTableData == Fetching({"url"}, {"url"})
useTextBoxData == Fetching({"url"}, {"url"})
useListData == Fetching({"url"}, {"url"})
useTimelineData == Fetching({"url"}, {"url"})
usePlaybookData == FetchingData("playbook", {"url"}, {"url"})
usePostData == FetchingData("posts", {"url"}, {"url"})
useChartData == Fetching({"url", "chartType"}, {"url"})
useExerciseData == Fetching({"url"}, {"url"})
usePolicyTemplateData == FetchingData("policy", {"url"}, {"url", "refresh"})
useBundleData == Fetching({"url"}, {"url"})
usePostsByIds == Fetching({"postIds"}, {"postIds"})
usePostsForTeam == Fetching({"teamId"}, {"teamId"})
useUserProps == Fetching({"userId"}, {"userId"})

(* Fetched once: the effect has no dependencies. *)
useChannelsList == Fetching({"params"}, {})
useAllUsersOptions == Fetching({"teamId"}, {})

(* The answer is pushed to the columns and rows that the state holds. *)
useSectionData == Hook("rows", {"url"}, {"url"}, "append", "unhandled")
usePaginatedTableData == Hook("rows", {"url"}, {"url"}, "append", "unhandled")

(* That a failure without a JSON message throws again is left out. *)
useNewsPostData ==
  Hook("news", {"url", "search", "offset", "limit"}, {"url", "search", "offset"},
       "replace", "guarded")

(* The catch sets notFoundWidgetChannel without a look at the flag. *)
useChannelById ==
  [Hook("other", {"channelId"}, {"channelId"}, "replace", "unguarded")
     EXCEPT !.needs = {"channelId"}]

DataHook ==
  {useSectionInfo, useGraphData, useEcosystemGraphData, useTableData, useTextBoxData,
   useListData, useTimelineData, usePlaybookData, usePostData, useChartData,
   useExerciseData, usePolicyTemplateData, useBundleData, usePostsByIds,
   usePostsForTeam, useUserProps, useChannelsList, useAllUsersOptions,
   useSectionData, usePaginatedTableData, useNewsPostData, useChannelById}

ASSUME HooksAssumption == Hooks \subseteq DataHook

------------------------------------------------------------------------------
Assignments(h) ==
  {p \in [h.reads \cup h.deps -> Values] : \A x \in DOMAIN p : p[x] \in ValuesOf[x]}

HookInit ==
  /\ hook \in Hooks
  /\ mounted = TRUE
  /\ params \in Assignments(hook)
  /\ renders = 0
  /\ effect = [run |-> 0, params |-> params, outcome |-> "none"]
  /\ fetches = {}
  /\ shown = <<>>

(* Mutant: the effect runs after the first render only. *)
EffectDueOnce == mounted /\ effect.run = 0

(* React runs the effect after the first render and after a render that    *)
(* changed a dependency.                                                   *)
EffectDue ==
  /\ mounted
  /\ \/ effect.run = 0
     \/ \E d \in hook.deps : params[d] # effect.params[d]

(* The cleanup of the effect. *)
Canceled(fs) == {[f EXCEPT !.isCanceled = TRUE] : f \in fs}

(* The component renders with other parameters. An effect that is due runs *)
(* before the next render.                                                 *)
Render(p) ==
  /\ mounted
  /\ ~EffectDue
  /\ renders < MaxRenders
  /\ p # params
  /\ params' = p
  /\ renders' = renders + 1
  /\ UNCHANGED <<hook, mounted, effect, fetches, shown>>

(* The runs of the effect are told apart by numbers not in use any more;   *)
(* no run has number 0.                                                    *)
NewRun ==
  LET used == {f.run : f \in fetches} \cup {shown[i].run : i \in DOMAIN shown} \cup {effect.run}
  IN CHOOSE n \in 1 .. Cardinality(used) + 1 : n \notin used

(* The cleanup of the last run, and the effect. *)
RunEffect ==
  LET fetching == \A d \in hook.needs : params[d] # Absent
      run == NewRun
  IN
  /\ EffectDue
  /\ Cardinality(fetches) < MaxFetches[hook]
  /\ effect' = [run |-> run, params |-> params,
                outcome |-> IF fetching THEN "pending" ELSE "none"]
  /\ fetches' = Canceled(fetches) \cup
                  {g \in {[run |-> run, params |-> params, isCanceled |-> FALSE]} : fetching}
  /\ UNCHANGED <<hook, mounted, params, renders, shown>>

Unmount ==
  /\ mounted
  /\ mounted' = FALSE
  /\ fetches' = Canceled(fetches)
  /\ UNCHANGED <<hook, params, renders, effect, shown>>

Receive(f, outcome) ==
  /\ fetches' = fetches \ {f}
  /\ effect' = IF f.run = effect.run THEN [effect EXCEPT !.outcome = outcome] ELSE effect
  /\ UNCHANGED <<hook, mounted, renders>>

State(f, found) == [run |-> f.run, params |-> f.params, found |-> found]

(* Mutant: a table keeps the rows of its first answer in front. *)
MergedInFront(h, old, new) == IF h.merge = "append" THEN <<new>> \o old ELSE <<new>>

(* The state after an answer. *)
Merged(h, old, new) == IF h.merge = "append" THEN Append(old, new) ELSE <<new>>

(* The rest of the async function after the await, and the render with     *)
(* the new state, in which the component may pass other parameters.  An    *)
(* answer without JSON is an empty one.                                    *)
Answer(f, p) ==
  /\ shown' = IF f.isCanceled THEN shown ELSE Merged(hook, shown, State(f, TRUE))
  /\ params' = IF f.isCanceled THEN params ELSE p
  /\ Receive(f, "answered")

(* The catch clause, where the hook has one: setState does nothing once    *)
(* the component is gone.  Without one the state stays what it was.        *)
Fail(f) ==
  /\ shown' = IF /\ mounted
                 /\ \/ hook.failure = "guarded" /\ ~f.isCanceled
                    \/ hook.failure = "unguarded"
              THEN <<State(f, FALSE)>>
              ELSE shown
  /\ Receive(f, "failed")
  /\ UNCHANGED params

------------------------------------------------------------------------------
(* "Solves the problem of switching to an empty RHS after a non-empty one":*)
(* once the fetch of the last run of the effect has been answered, what is *)
(* shown ends with its answer, whatever older fetches are answered or fail *)
(* later.                                                                  *)
LatestAnswerStays ==
  effect.outcome = "answered" /\ mounted =>
    shown # <<>> /\ Last(shown) = [run |-> effect.run, params |-> effect.params, found |-> TRUE]

(* The screen catches up with the parameters: again and again it shows     *)
(* what the current dependencies ask for, unless the component is gone or  *)
(* the fetch failed or was not made.                                       *)
CatchesUp ==
  []<>(\/ ~mounted
       \/ effect.outcome \in {"none", "failed"} /\ effect.run # 0 /\ ~EffectDue
       \/ shown # <<>> /\ \A d \in hook.deps : Last(shown).params[d] = params[d])
=============================================================================
