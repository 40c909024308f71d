----------------------------- MODULE Widgets_proofs -----------------------------
(***************************************************************************)
(* Proofs about a page with one widget, for every set of hooks, values,    *)
(* graphs and templates, and without the bounds of the runs.               *)
(***************************************************************************)
EXTENDS Widgets, FiniteSetTheorems, NaturalsInduction, WellFoundedInduction, TLAPS

------------------------------------------------------------------------------
(* The hook                                                                 *)

(* The flag guards what every hook but useChannelById does with a failure. *)
(* That of a form, graph or policy does nothing with one.                  *)
LEMMA GuardedHook ==
  ASSUME hook \in Hooks
  PROVE  /\ hook # useChannelById => hook.failure \in {"unhandled", "guarded"}
         /\ IsForm \/ IsGraph \/ IsPolicy => hook.failure = "unhandled" /\ hook.merge = "replace"
  BY HooksAssumption
  DEF DataHook, IsForm, IsGraph, IsPolicy, Hook, FetchingData, Fetching,
      useSectionInfo, useGraphData, useEcosystemGraphData, useTableData, useTextBoxData,
      useListData, useTimelineData, usePlaybookData, usePostData, useChartData,
      useExerciseData, usePolicyTemplateData, useBundleData, usePostsByIds,
      usePostsForTeam, useUserProps, useChannelsList, useAllUsersOptions,
      useSectionData, usePaginatedTableData, useNewsPostData, useChannelById
(* What the steps of the page do to the hook: nothing but to its           *)
(* parameters, or a step of the hook itself.                               *)
HookStep ==
  \/ UNCHANGED <<hook, mounted, effect, fetches, shown>>
  \/ RunEffect
  \/ Unmount
  \/ \E f \in fetches : (\E p : Answer(f, p)) \/ Fail(f)

(* Every step of the page is such a step. *)
LEMMA PageStep == [Next]_vars => HookStep
<1> SUFFICES ASSUME [Next]_vars PROVE HookStep
  OBVIOUS
<1>1. CASE UNCHANGED vars
  BY <1>1 DEF vars, hookVars, HookStep
<1>2. CASE OtherParams
  BY <1>2 DEF OtherParams, Render, HookStep
<1>3. CASE EffectRuns
  BY <1>3 DEF EffectRuns, HookStep
<1>4. CASE WidgetGone
  BY <1>4 DEF WidgetGone, HookStep
<1>5. CASE FetchEnds
  <2>1. PICK f \in fetches : AnswerReceived(f) \/ FetchFails(f)
    BY <1>5 DEF FetchEnds
  <2>2. CASE AnswerReceived(f)
    BY <2>2 DEF AnswerReceived, HookStep
  <2>3. CASE FetchFails(f)
    BY <2>3 DEF FetchFails, HookStep
  <2>4. QED
    BY <2>1, <2>2, <2>3
<1>6. CASE \E url \in Urls, hash \in Hashes : Navigate(url, hash)
  BY <1>6 DEF Navigate, HookStep
<1>7. CASE Rerender \/ TimerFires \/ ChangeChannel
  BY <1>7 DEF Rerender, TimerFires, ChangeChannel, Rendered, hookVars, HookStep
<1>8. CASE ChannelAdded
  BY <1>8 DEF ChannelAdded, hookVars, HookStep
<1>9. CASE \/ TableStep \/ GraphStep \/ FormStep \/ PlaybookStep \/ PostsStep
           \/ NewsStep \/ PolicyStep \/ PolicyServed
  BY <1>9 DEF TableStep, GraphStep, FormStep, PlaybookStep, PostsStep, NewsStep,
              PolicyStep, PolicyServed, hookVars, HookStep
<1>10. QED
  BY <1>1, <1>2, <1>3, <1>4, <1>5, <1>6, <1>7, <1>8, <1>9 DEF Next

(* The record of a hook in use is typed as far as its steps need it.       *)
HookTypeOK ==
  /\ hook \in Hooks
  /\ IsFiniteSet(fetches)
  /\ \A f \in fetches : DOMAIN f = {"run", "params", "isCanceled"}
  /\ DOMAIN effect = {"run", "params", "outcome"}
  /\ \E S : shown \in Seq(S)

(* A run of the effect has at most one fetch on its way; only that of the  *)
(* last run is not canceled, as long as the component is there, and the    *)
(* last run is pending as long as it is on its way.                        *)
OneFetchCounts ==
  /\ \A f, g \in fetches : f.run = g.run => f = g
  /\ \A f \in fetches :
       /\ ~f.isCanceled => f.run = effect.run /\ f.params = effect.params
       /\ f.run = effect.run =>
            effect.outcome = "pending" /\ (mounted => ~f.isCanceled)

HookInv == HookTypeOK /\ OneFetchCounts /\ LatestAnswerStays

(* The number of a new run is that of no fetch: one of one number more     *)
(* than are in use is free.                                                *)
LEMMA NewRunIsNew ==
  ASSUME HookTypeOK
  PROVE  /\ NewRun # effect.run
         /\ \A f \in fetches : NewRun # f.run
<1> DEFINE onTheirWay == {f.run : f \in fetches}
           inState == {shown[i].run : i \in DOMAIN shown}
           used == onTheirWay \cup inState \cup {effect.run}
           c == Cardinality(used)
<1>1. IsFiniteSet(onTheirWay)
  <2> DEFINE F == [f \in fetches |-> f.run]
  <2>1. F \in Surjection(fetches, onTheirWay)
    BY DEF Surjection
  <2>2. QED
    BY <2>1, FS_Surjection DEF HookTypeOK
<1>2. IsFiniteSet(inState)
  <2> DEFINE F == [i \in DOMAIN shown |-> shown[i].run]
  <2>1. F \in Surjection(DOMAIN shown, inState)
    BY DEF Surjection
  <2>2. IsFiniteSet(DOMAIN shown)
    <3>1. PICK S : shown \in Seq(S)
      BY DEF HookTypeOK
    <3>2. DOMAIN shown = 1 .. Len(shown) /\ Len(shown) \in Nat
      BY <3>1
    <3>3. QED
      BY <3>2, FS_Interval
  <2>3. QED
    BY <2>1, <2>2, FS_Surjection
<1>3. IsFiniteSet(used)
  BY <1>1, <1>2, FS_Union, FS_Singleton
<1>4. c \in Nat
  BY <1>3, FS_CardinalityType
<1>5. PICK n \in 1 .. c + 1 : n \notin used
  <2>1. SUFFICES ASSUME 1 .. c + 1 \subseteq used PROVE FALSE
    OBVIOUS
  <2>2. Cardinality(1 .. c + 1) = c + 1
    BY <1>4, FS_Interval
  <2>3. Cardinality(1 .. c + 1) <= c
    BY <1>3, <2>1, FS_Subset
  <2>4. QED
    BY <1>4, <2>2, <2>3
<1>6. NewRun \notin used
  BY <1>5 DEF NewRun
<1>7. QED
  BY <1>6

(* The cleanup of the effect cancels every fetch, and no more.             *)
LEMMA CanceledFetches ==
  ASSUME HookTypeOK, OneFetchCounts
  PROVE  /\ IsFiniteSet(Canceled(fetches))
         /\ \A g \in Canceled(fetches) :
              /\ DOMAIN g = {"run", "params", "isCanceled"}
              /\ g.isCanceled
              /\ \E f \in fetches : g.run = f.run
         /\ \A f, g \in Canceled(fetches) : f.run = g.run => f = g
<1> DEFINE F == [f \in fetches |-> [f EXCEPT !.isCanceled = TRUE]]
<1>1. F \in Surjection(fetches, Canceled(fetches))
  BY DEF Surjection, Canceled
<1>2. IsFiniteSet(Canceled(fetches))
  BY <1>1, FS_Surjection DEF HookTypeOK
<1>3. ASSUME NEW f \in fetches
      PROVE  LET g == [f EXCEPT !.isCanceled = TRUE]
             IN DOMAIN g = {"run", "params", "isCanceled"} /\ g.isCanceled /\ g.run = f.run
  BY DEF HookTypeOK
<1>4. ASSUME NEW f \in Canceled(fetches), NEW g \in Canceled(fetches), f.run = g.run
      PROVE  f = g
  <2>1. PICK a \in fetches : f = [a EXCEPT !.isCanceled = TRUE]
    BY DEF Canceled
  <2>2. PICK b \in fetches : g = [b EXCEPT !.isCanceled = TRUE]
    BY DEF Canceled
  <2>3. a.run = b.run
    BY <1>3, <1>4, <2>1, <2>2
  <2>4. QED
    BY <2>1, <2>2, <2>3 DEF OneFetchCounts
<1>5. QED
  BY <1>2, <1>3, <1>4 DEF Canceled

(* A fetch that ends leaves the record well typed and at most one fetch    *)
(* that counts.                                                            *)
LEMMA ReceiveKeeps ==
  ASSUME HookTypeOK, OneFetchCounts, NEW f \in fetches,
         NEW outcome, Receive(f, outcome)
  PROVE  /\ IsFiniteSet(fetches')
         /\ \A g \in fetches' : DOMAIN g = {"run", "params", "isCanceled"}
         /\ DOMAIN effect' = {"run", "params", "outcome"}
         /\ effect'.run = effect.run /\ effect'.params = effect.params
         /\ effect'.outcome = IF f.run = effect.run THEN outcome ELSE effect.outcome
         /\ OneFetchCounts'
<1>1. fetches' = fetches \ {f} /\ mounted' = mounted
  BY DEF Receive
<1>2. IsFiniteSet(fetches')
  BY <1>1, FS_RemoveElement DEF HookTypeOK
<1>3. /\ DOMAIN effect' = {"run", "params", "outcome"}
      /\ effect'.run = effect.run /\ effect'.params = effect.params
      /\ effect'.outcome = IF f.run = effect.run THEN outcome ELSE effect.outcome
  BY DEF Receive, HookTypeOK
<1>4. QED
  BY <1>1, <1>2, <1>3 DEF HookTypeOK, OneFetchCounts

(* A sequence stays one when the answer is merged into it, at its end.     *)
LEMMA MergedEndsWithAnswer ==
  ASSUME NEW h, NEW answer, \E S : shown \in Seq(S)
  PROVE  LET states == Merged(h, shown, answer)
         IN /\ \E S : states \in Seq(S)
            /\ states # <<>>
            /\ Last(states) = answer
<1>1. PICK S : shown \in Seq(S)
  OBVIOUS
<1> DEFINE T == S \cup {answer}
<1>2. shown \in Seq(T)
  BY <1>1
<1>3. /\ Append(shown, answer) \in Seq(T)
      /\ Len(Append(shown, answer)) = Len(shown) + 1
      /\ Append(shown, answer)[Len(shown) + 1] = answer
      /\ Len(shown) \in Nat
  BY <1>2
<1>4. /\ Append(shown, answer) # <<>>
      /\ Last(Append(shown, answer)) = answer
  BY <1>3 DEF Last
<1>5. /\ <<answer>> \in Seq(T)
      /\ <<answer>> # <<>>
      /\ Last(<<answer>>) = answer
  BY DEF Last
<1>6. QED
  BY <1>3, <1>4, <1>5 DEF Merged

(* The invariant of the hook is inductive, for every hook whose failures   *)
(* do nothing once it has run again.                                       *)
LEMMA HookInvInit == HookInit => HookInv
<1> SUFFICES ASSUME HookInit PROVE HookInv
  OBVIOUS
<1>1. shown \in Seq({})
  BY DEF HookInit
<1>2. QED
  BY <1>1, FS_EmptySet DEF HookInit, HookInv, HookTypeOK, OneFetchCounts, LatestAnswerStays

(* Every step of the hook keeps HookInv, for the guarded hooks: an answer  *)
(* is recorded only if its flag isCanceled is not set, which the cleanup   *)
(* of the next run of the effect does.                                     *)
LEMMA HookInvStep ==
  ASSUME hook # useChannelById, HookInv, HookStep
  PROVE  HookInv'
<1> USE DEF HookInv
<1>1. hook \in Hooks /\ hook.failure \in {"unhandled", "guarded"}
  BY GuardedHook DEF HookTypeOK
<1>2. CASE UNCHANGED <<hook, mounted, effect, fetches, shown>>
  BY <1>2 DEF HookTypeOK, OneFetchCounts, LatestAnswerStays
<1>3. CASE RunEffect
  <2>1. /\ NewRun # effect.run
        /\ \A f \in fetches : NewRun # f.run
    BY NewRunIsNew
  <2> DEFINE new == {g \in {[run |-> NewRun, params |-> params, isCanceled |-> FALSE]} :
                       \A d \in hook.needs : params[d] # Absent}
  <2>2. /\ effect' = [run |-> NewRun, params |-> params,
                      outcome |-> IF new # {} THEN "pending" ELSE "none"]
        /\ fetches' = Canceled(fetches) \cup new
        /\ UNCHANGED <<hook, mounted, shown>>
    BY <1>3 DEF RunEffect
  <2>3. new = {} \/ new = {[run |-> NewRun, params |-> params, isCanceled |-> FALSE]}
    OBVIOUS
  <2> HIDE DEF new
  <2>4. IsFiniteSet(fetches')
    <3>1. IsFiniteSet({})
      BY FS_EmptySet
    <3>2. IsFiniteSet({[run |-> NewRun, params |-> params, isCanceled |-> FALSE]})
      BY FS_Singleton
    <3>3. IsFiniteSet(new)
      BY <2>3, <3>1, <3>2
    <3>4. QED
      BY <2>2, <3>3, CanceledFetches, FS_Union
  <2>5. \A g \in new :
          /\ g.run = NewRun /\ g.params = params /\ ~g.isCanceled
          /\ DOMAIN g = {"run", "params", "isCanceled"}
    BY <2>3
  <2>6. HookTypeOK'
    BY <2>2, <2>4, <2>5, CanceledFetches DEF HookTypeOK
  <2>7. OneFetchCounts'
    <3>1. ASSUME NEW f \in Canceled(fetches)
          PROVE  f.isCanceled /\ f.run # NewRun
      <4>1. f.isCanceled /\ \E g \in fetches : f.run = g.run
        BY CanceledFetches DEF HookInv
      <4>2. QED
        BY <4>1, <2>1
    <3>2. \A f, g \in new : f = g /\ f.run = NewRun
      BY <2>3, <2>5
    <3>3. \A f, g \in Canceled(fetches) : f.run = g.run => f = g
      BY CanceledFetches DEF HookInv
    <3>4. \A f, g \in fetches' : f.run = g.run => f = g
      BY <2>2, <3>1, <3>2, <3>3
    <3>5. \A f \in fetches' : ~f.isCanceled \/ f.run = NewRun => f \in new
      BY <2>2, <3>1
    <3>6. new # {} => effect'.outcome = "pending"
      BY <2>2
    <3>7. QED
      BY <2>2, <2>5, <3>4, <3>5, <3>6 DEF OneFetchCounts
  <2>8. QED
    BY <2>2, <2>6, <2>7 DEF LatestAnswerStays
<1>4. CASE Unmount
  <2>1. IsFiniteSet(fetches')
    BY <1>4, CanceledFetches DEF Unmount
  <2>2. fetches' = Canceled(fetches)
    BY <1>4 DEF Unmount
  <2>3. UNCHANGED <<hook, effect, shown>> /\ mounted' = FALSE
    BY <1>4 DEF Unmount
  <2>4. HookTypeOK'
    BY <2>1, <2>2, <2>3, CanceledFetches DEF HookTypeOK
  <2>5. OneFetchCounts'
    BY <2>2, <2>3, CanceledFetches DEF OneFetchCounts
  <2>6. QED
    BY <2>3, <2>4, <2>5 DEF LatestAnswerStays
<1>5. CASE \E f \in fetches : (\E p : Answer(f, p)) \/ Fail(f)
  <2>1. PICK f \in fetches : (\E p : Answer(f, p)) \/ Fail(f)
    BY <1>5
  <2>2. CASE \E p : Answer(f, p)
    <3>1. Receive(f, "answered")
      BY <2>2 DEF Answer
    <3>2. shown' = IF f.isCanceled THEN shown ELSE Merged(hook, shown, State(f, TRUE))
      BY <2>2 DEF Answer
    <3>3. HookTypeOK'
      BY <3>1, <3>2, ReceiveKeeps, MergedEndsWithAnswer DEF HookTypeOK, Receive
    <3>4. LatestAnswerStays'
      <4> SUFFICES ASSUME effect'.outcome = "answered", mounted'
                   PROVE  /\ shown' # <<>>
                          /\ Last(shown') = [run |-> effect'.run, params |-> effect'.params,
                                            found |-> TRUE]
        BY DEF LatestAnswerStays
      <4>1. mounted /\ effect'.run = effect.run /\ effect'.params = effect.params
        BY <3>1, ReceiveKeeps DEF Receive
      <4>2. CASE f.run = effect.run
        <5>1. ~f.isCanceled /\ f.params = effect.params
          BY <4>1, <4>2 DEF OneFetchCounts
        <5>2. shown' # <<>> /\ Last(shown') = State(f, TRUE)
          BY <3>2, <5>1, MergedEndsWithAnswer DEF HookTypeOK
        <5>3. QED
          BY <4>1, <4>2, <5>1, <5>2 DEF State
      <4>3. CASE f.run # effect.run
        <5>1. f.isCanceled /\ effect.outcome = "answered"
          BY <3>1, <4>3, ReceiveKeeps DEF OneFetchCounts
        <5>2. QED
          BY <3>2, <4>1, <5>1 DEF LatestAnswerStays
      <4>4. QED
        BY <4>2, <4>3
    <3>5. QED
      BY <3>1, <3>3, <3>4, ReceiveKeeps
  <2>3. CASE Fail(f)
    <3>1. Receive(f, "failed")
      BY <2>3 DEF Fail
    <3>2. shown' \in {shown, <<State(f, FALSE)>>} /\ (f.isCanceled => shown' = shown)
      BY <1>1, <2>3 DEF Fail
    <3>3. <<State(f, FALSE)>> \in Seq({State(f, FALSE)})
      OBVIOUS
    <3>4. \E S : shown' \in Seq(S)
      BY <3>2, <3>3 DEF HookTypeOK
    <3>5. HookTypeOK'
      BY <3>1, <3>4, ReceiveKeeps DEF HookTypeOK, Receive
    <3>6. LatestAnswerStays'
      <4> SUFFICES ASSUME effect'.outcome = "answered", mounted'
                   PROVE  /\ shown' # <<>>
                          /\ Last(shown') = [run |-> effect'.run, params |-> effect'.params,
                                            found |-> TRUE]
        BY DEF LatestAnswerStays
      <4>1. mounted /\ effect'.run = effect.run /\ effect'.params = effect.params
        BY <3>1, ReceiveKeeps DEF Receive
      <4>2. f.run # effect.run /\ effect.outcome = "answered"
        BY <3>1, ReceiveKeeps
      <4>3. f.isCanceled
        BY <4>2 DEF OneFetchCounts
      <4>4. QED
        BY <3>2, <4>1, <4>2, <4>3 DEF LatestAnswerStays
    <3>7. QED
      BY <3>1, <3>5, <3>6, ReceiveKeeps
  <2>4. QED
    BY <2>1, <2>2, <2>3
<1>6. QED
  BY <1>2, <1>3, <1>4, <1>5 DEF HookStep

(* "Solves the problem of switching to an empty RHS after a non-empty one":*)
(* for every hook but useChannelById the latest answer stays on the screen.*)
THEOREM LatestAnswerStaysTheorem ==
  ASSUME useChannelById \notin Hooks
  PROVE  Spec => []LatestAnswerStays
<1>1. Init => HookInv
  BY HookInvInit DEF Init
<1>2. HookInv /\ [Next]_vars => HookInv'
  BY PageStep, HookInvStep DEF HookInv, HookTypeOK
<1>3. HookInv => LatestAnswerStays
  BY DEF HookInv
<1>4. QED
  BY <1>1, <1>2, <1>3, PTL DEF Spec

------------------------------------------------------------------------------
(* The box that creates a channel                                           *)

FormFields ==
  {"box", "channelName", "nameErrorMessage", "addChannelErrorMessage", "section",
   "channels", "sent", "creations", "taken", "created"}

SectionOfInfo == IF shown = <<>> THEN Absent ELSE Last(shown).params.id

(* The name in the form is a typed one, that of the section whose info was *)
(* answered last, or none of a section.                                    *)
ProposedName ==
  /\ form.box # "single" => form.channelName \in Typed
  /\ shown # <<>> => form.channelName \in Typed \cup {SectionOfInfo}

FormInv ==
  IsForm =>
    /\ hook \in Hooks
    /\ params \in BoxParams
    /\ \E S : shown \in Seq(S)
    /\ DOMAIN form = FormFields
    /\ ProposedName
    /\ NameBelongsToSection

(* A box is shown with the template of its section, and no request.        *)
LEMMA FormInvInit == Init => FormInv
<1> SUFFICES ASSUME Init, IsForm PROVE FormInv
  BY DEF FormInv
<1>1. /\ hook \in Hooks /\ params \in BoxParams /\ shown = <<>>
  BY DEF Init, HookInit
<1>2. shown \in Seq({})
  BY <1>1
<1>3. FormInit(params.id)
  BY DEF Init
<1>4. PICK box \in Boxes, taken \in SUBSET ValuesOf["id"] :
        form = [box |-> box, channelName |-> defaultName(box),
                nameErrorMessage |-> FALSE, addChannelErrorMessage |-> FALSE,
                section |-> params.id,
                channels |-> IF box = "list" THEN "none" ELSE "pending",
                sent |-> {}, creations |-> 0, taken |-> taken, created |-> {}]
  BY <1>3 DEF FormInit
<1>5. QED
  BY <1>1, <1>2, <1>4
  DEF FormInv, FormFields, ProposedName, NameBelongsToSection, defaultName, Typed

(* The steps of the user and of the form's requests. *)
LEMMA FormOwnStep ==
  ASSUME FormInv, IsForm, FormStep \/ ChannelAdded
  PROVE  FormInv'
<1> USE DEF FormInv
<1>1. params.id # Absent
  BY SectionAssumption DEF BoxParams
<1>2. CASE FormStep
  <2>1. UNCHANGED hookVars
    BY <1>2 DEF FormStep
  <2>2. CASE form' \in {ChannelsAnswered(form), ChannelsFailed(form)}
    BY <2>1, <2>2
    DEF hookVars, FormFields, ChannelsAnswered, ChannelsFailed, ProposedName, SectionOfInfo,
        NameBelongsToSection, IsForm
  <2>3. CASE \E name \in Typed : form' = handleChannelNameTemplateChange(form, name)
    BY <2>1, <2>3
    DEF hookVars, FormFields, handleChannelNameTemplateChange, ProposedName, SectionOfInfo,
        NameBelongsToSection, IsForm
  <2>4. CASE FormShown(form) /\ form' = createChannel(form, params.id, SectionOfInfo)
    <3> DEFINE c == [n |-> form.creations + 1, name |-> form.channelName, section |-> params.id,
                     named |-> params.id = SectionOfInfo]
    <3>1. CASE form' = [form EXCEPT !.nameErrorMessage = TRUE]
      BY <2>1, <3>1
      DEF hookVars, FormFields, ProposedName, SectionOfInfo, NameBelongsToSection, IsForm
    <3>2. CASE form' = [form EXCEPT !.creations = @ + 1, !.sent = @ \cup {c}]
      <4>1. c.named /\ c.name \notin Typed => c.name = c.section
        BY <1>1 DEF ProposedName, SectionOfInfo
      <4>2. /\ DOMAIN form' = FormFields
            /\ form'.sent = form.sent \cup {c}
            /\ \A x \in FormFields \ {"creations", "sent"} : form'[x] = form[x]
        BY <3>2 DEF FormFields
      <4> HIDE DEF c
      <4>3. /\ form'.box = form.box /\ form'.channelName = form.channelName
            /\ form'.created = form.created
        BY <4>2 DEF FormFields
      <4>4. QED
        BY <2>1, <4>1, <4>2, <4>3
        DEF hookVars, ProposedName, SectionOfInfo, NameBelongsToSection, IsForm
    <3>3. QED
      BY <2>4, <3>1, <3>2 DEF createChannel
  <2>5. QED
    BY <1>2, <2>2, <2>3, <2>4 DEF FormStep, SectionOfInfo
<1>3. CASE ChannelAdded
  <2>1. UNCHANGED <<hook, params, shown>>
    BY <1>3 DEF ChannelAdded, hookVars, Unmount
  <2>2. PICK r \in form.sent : form' \in {AddFailed(form, r), Added(form, r)}
    BY <1>3 DEF ChannelAdded
  <2>3. CASE form' = AddFailed(form, r)
    BY <2>1, <2>3
    DEF FormFields, AddFailed, ProposedName, SectionOfInfo, NameBelongsToSection, IsForm
  <2>4. CASE form' = Added(form, r)
    <3> DEFINE c == [name |-> r.name, section |-> r.section, named |-> r.named]
    <3>1. /\ DOMAIN form' = FormFields
          /\ form'.sent = form.sent \ {r}
          /\ form'.created = form.created \cup {c}
          /\ form'.box = form.box /\ form'.channelName = form.channelName
      BY <2>4 DEF Added, FormFields
    <3>2. c.named /\ c.name \notin Typed => c.name = c.section
      BY DEF NameBelongsToSection
    <3> HIDE DEF c
    <3>3. ProposedName' /\ NameBelongsToSection'
      BY <2>1, <3>1, <3>2 DEF ProposedName, SectionOfInfo, NameBelongsToSection, IsForm
    <3>4. QED
      BY <2>1, <3>1, <3>3
  <2>5. QED
    BY <2>2, <2>3, <2>4
<1>4. QED
  BY <1>2, <1>3

(* The steps of the page and of the hook: an answer has the section's name *)
(* proposed.                                                               *)
LEMMA FormOtherStep ==
  ASSUME FormInv, IsForm, [Next]_vars, ~FormStep, ~ChannelAdded
  PROVE  FormInv'
<1> USE DEF FormInv
<1>1. ~(IsPage \/ IsPolicy)
  BY DEF IsForm, IsPage, IsTable, IsGraph, IsPlaybook, IsPosts, IsNews, IsPolicy
<1>2. CASE FetchEnds
  <2>1. PICK f \in fetches : AnswerReceived(f) \/ FetchFails(f)
    BY <1>2 DEF FetchEnds
  <2>2. hook' = hook /\ params' = params
    BY <1>1, <2>1 DEF AnswerReceived, FetchFails, Answer, Fail, Receive
  <2>3. CASE shown' = shown /\ form' = form
    BY <2>2, <2>3 DEF ProposedName, SectionOfInfo, NameBelongsToSection, IsForm
  <2>4. CASE AnswerReceived(f) /\ ~f.isCanceled
    <3> DEFINE answer == State(f, TRUE)
    <3>1. shown' = Merged(hook, shown, answer) /\ form' = SectionInfoSet(form, f.params.id)
      BY <2>4 DEF AnswerReceived, Answer
    <3>2. \E S : shown' \in Seq(S)
      BY <3>1, MergedEndsWithAnswer
    <3>3. shown' # <<>> /\ Last(shown') = answer
      BY <3>1, MergedEndsWithAnswer
    <3>4. SectionOfInfo' = f.params.id
      BY <3>3 DEF SectionOfInfo, State
    <3>5. /\ DOMAIN form' = FormFields
          /\ form'.box = form.box /\ form'.sent = form.sent /\ form'.created = form.created
          /\ form'.channelName = IF form.box = "single" THEN f.params.id ELSE form.channelName
      BY <3>1 DEF SectionInfoSet, FormFields
    <3>6. QED
      BY <2>2, <3>2, <3>4, <3>5 DEF ProposedName, NameBelongsToSection, IsForm
  <2>5. \/ shown' = shown /\ form' = form
        \/ AnswerReceived(f) /\ ~f.isCanceled
    BY <2>1, GuardedHook DEF AnswerReceived, Answer, views, FetchFails, Fail
  <2>6. QED
    BY <2>3, <2>4, <2>5
<1>3. CASE OtherParams
  BY <1>3
  DEF OtherParams, Render, ProposedName, SectionOfInfo, NameBelongsToSection, IsForm
<1>4. CASE EffectRuns \/ WidgetGone \/ PolicyServed \/ UNCHANGED vars
  <2>1. UNCHANGED <<hook, params, shown, form>>
    BY <1>4 DEF EffectRuns, RunEffect, WidgetGone, Unmount, PolicyServed, vars, hookVars, views
  <2>2. QED
    BY <2>1 DEF ProposedName, SectionOfInfo, NameBelongsToSection, IsForm
<1>5. QED
  BY <1>1, <1>2, <1>3, <1>4
  DEF Next, Navigate, Rerender, TimerFires, ChangeChannel, TableStep, GraphStep,
      PlaybookStep, PostsStep, NewsStep, PolicyStep, IsPage

(* Only a box has the property, and a widget stays what it is.             *)
LEMMA FormInvStep == FormInv /\ [Next]_vars => FormInv'
<1> SUFFICES ASSUME FormInv, [Next]_vars PROVE FormInv'
  OBVIOUS
<1>1. hook' = hook
  BY PageStep DEF HookStep, RunEffect, Unmount, Answer, Fail, Receive
<1>2. CASE IsForm
  BY <1>2, FormOwnStep, FormOtherStep
<1>3. CASE ~IsForm
  BY <1>1, <1>3 DEF FormInv, IsForm
<1>4. QED
  BY <1>2, <1>3

(* A channel created under the name proposed has that of its own section.  *)
THEOREM NameBelongsToSectionTheorem == Spec => []NameBelongsToSection
<1>1. FormInv => NameBelongsToSection
  BY DEF FormInv, NameBelongsToSection
<1>2. QED
  BY <1>1, FormInvInit, FormInvStep, PTL DEF Spec

------------------------------------------------------------------------------
(* The graph                                                                *)

GraphFields ==
  {"of", "shared", "isUrlHashed", "marked", "stroke", "targetNode", "nodeInfo", "kept",
   "overtaken"}

(* The two properties of a graph g, the second with the node being drawn.  *)
Follows(g, answers) ==
  answers # <<>> /\ ~g.kept => g.of = Last(answers).params.url

StandsOut(g) ==
  LET n == g.targetNode IN
  n # Absent /\ ~g.kept /\ ~g.overtaken =>
    /\ n \in NodesAt[g.of]
    /\ g.isUrlHashed = {n}
    /\ g.stroke = n
    /\ g.marked \ {n} = Neighbours(g.of, n) \ {n}

GraphInv ==
  IsGraph /\ mounted =>
    /\ hook \in Hooks
    /\ \E S : shown \in Seq(S)
    /\ DOMAIN graph = GraphFields
    /\ Follows(graph, shown)
    /\ StandsOut(graph)

(* Marking a node that is drawn makes it, and only it, stand out.          *)
LEMMA MarkedNodeStandsOut ==
  ASSUME NEW g, DOMAIN g = GraphFields, NEW n
  PROVE  LET m == markNodesAndEdges(g, n) IN
         /\ DOMAIN m = GraphFields
         /\ m.of = g.of /\ m.kept = g.kept /\ m.overtaken = g.overtaken
         /\ m.targetNode = g.targetNode /\ m.shared = g.shared
         /\ n \in NodesAt[g.of] => m.isUrlHashed = {n}
         /\ m.stroke = n
         /\ m.marked \ {n} = Neighbours(g.of, n) \ {n}
  BY DEF markNodesAndEdges, GraphFields

(* A target that is drawn, or whose graph was put back, stands out, and so *)
(* does none.                                                              *)
LEMMA WithTargetStandsOut ==
  ASSUME NEW g, DOMAIN g = GraphFields, NEW n,
         n # Absent /\ ~g.kept => n \in NodesAt[g.of]
  PROVE  /\ DOMAIN WithTarget(g, n) = GraphFields
         /\ StandsOut(WithTarget(g, n))
         /\ WithTarget(g, n).of = g.of
         /\ WithTarget(g, n).kept = g.kept
<1> DEFINE new == [g EXCEPT !.targetNode = n, !.overtaken = FALSE]
<1>1. /\ DOMAIN new = GraphFields
      /\ new.of = g.of /\ new.kept = g.kept /\ new.targetNode = n /\ ~new.overtaken
  BY DEF GraphFields
<1>2. WithTarget(g, n) = IF n = Absent THEN new ELSE markNodesAndEdges(new, n)
  BY DEF WithTarget
<1> HIDE DEF new
<1>3. QED
  BY <1>1, <1>2, MarkedNodeStandsOut DEF StandsOut

(* The graph of an answer replaces the former one, with the node of the    *)
(* hash marked.                                                            *)
LEMMA FilledStandsOut ==
  ASSUME NEW g, DOMAIN g = GraphFields, NEW answer
  PROVE  LET f == Filled(g, answer)
             n == urlHashedNode(answer) IN
         /\ DOMAIN f = GraphFields
         /\ f.of = answer.params.url /\ ~f.kept
         /\ f.targetNode = g.targetNode /\ f.overtaken = g.overtaken
         /\ n \in NodesAt[answer.params.url] /\ g.targetNode = n => StandsOut(f)
<1> DEFINE fresh == [g EXCEPT !.shared = TRUE, !.of = answer.params.url, !.kept = FALSE,
                             !.isUrlHashed = {}, !.marked = {}, !.stroke = Absent]
           n == urlHashedNode(answer)
<1>1. /\ DOMAIN fresh = GraphFields
      /\ fresh.of = answer.params.url /\ fresh.kept = FALSE
      /\ fresh.targetNode = g.targetNode /\ fresh.overtaken = g.overtaken
  BY DEF GraphFields
<1>2. Filled(g, answer)
        = IF n \in NodesAt[answer.params.url] THEN markNodesAndEdges(fresh, n) ELSE fresh
  BY DEF Filled
<1> HIDE DEF fresh
<1>3. QED
  BY <1>1, <1>2, MarkedNodeStandsOut DEF StandsOut

(* The effect of [data], which takes the new graph or puts the former one  *)
(* back, leaves one target that stands out, or says kept or overtaken.     *)
LEMMA DataEffectKeeps ==
  ASSUME NEW g, DOMAIN g = GraphFields, StandsOut(g), NEW answer
  PROVE  LET d == DataEffect(g, answer) IN
         /\ DOMAIN d = GraphFields
         /\ StandsOut(d)
         /\ ~d.kept => d.of = answer.params.url
<1> DEFINE url == answer.params.url
           drawn == IF SameGraph(g, answer) THEN g ELSE Filled(g, answer)
           n == IF urlHashedNode(answer) \in NodesAt[url] THEN urlHashedNode(answer) ELSE Absent
           put == [markNodesAndEdges(g, g.targetNode) EXCEPT
                     !.kept = g.of # url,
                     !.overtaken = @ \/ g.targetNode \notin NodesAt[g.of]]
           late == [drawn EXCEPT !.overtaken = g.targetNode # Absent \/ @]
<1>1. DataEffect(g, answer) = IF n = g.targetNode THEN drawn ELSE IF n = Absent THEN put ELSE late
  BY DEF DataEffect
<1>2. /\ DOMAIN drawn = GraphFields
      /\ drawn.of = url
      /\ drawn.targetNode = g.targetNode /\ drawn.overtaken = g.overtaken
      /\ n = g.targetNode => StandsOut(drawn)
  <2>1. CASE SameGraph(g, answer)
    BY <2>1 DEF SameGraph
  <2>2. CASE ~SameGraph(g, answer)
    <3> DEFINE f == Filled(g, answer)
    <3>1. drawn = f
      BY <2>2
    <3>2. /\ DOMAIN f = GraphFields
          /\ f.of = url /\ f.targetNode = g.targetNode /\ f.overtaken = g.overtaken
          /\ urlHashedNode(answer) \in NodesAt[url] /\ g.targetNode = urlHashedNode(answer)
               => StandsOut(f)
      BY FilledStandsOut
    <3> HIDE DEF f, drawn
    <3>3. n = g.targetNode => StandsOut(f)
      BY <3>2 DEF StandsOut
    <3>4. QED
      BY <3>1, <3>2, <3>3
  <2>3. QED
    BY <2>1, <2>2
<1>3. CASE n = g.targetNode
  BY <1>1, <1>2, <1>3
<1>4. CASE n # g.targetNode /\ n = Absent
  <2> DEFINE m == markNodesAndEdges(g, g.targetNode)
  <2>1. /\ DOMAIN put = GraphFields
        /\ put.of = m.of /\ put.isUrlHashed = m.isUrlHashed /\ put.stroke = m.stroke
        /\ put.marked = m.marked /\ put.targetNode = m.targetNode
        /\ put.kept = (g.of # url)
        /\ put.overtaken = (m.overtaken \/ g.targetNode \notin NodesAt[g.of])
    BY MarkedNodeStandsOut DEF GraphFields
  <2>2. /\ m.of = g.of /\ m.overtaken = g.overtaken /\ m.targetNode = g.targetNode
        /\ g.targetNode \in NodesAt[g.of] => m.isUrlHashed = {g.targetNode}
        /\ m.stroke = g.targetNode
        /\ m.marked \ {g.targetNode} = Neighbours(g.of, g.targetNode) \ {g.targetNode}
    BY MarkedNodeStandsOut
  <2> HIDE DEF m, put
  <2>3. StandsOut(put) /\ (~put.kept => put.of = url)
    BY <2>1, <2>2 DEF StandsOut
  <2>4. QED
    BY <1>1, <1>4, <2>1, <2>3
<1>5. CASE n # g.targetNode /\ n # Absent
  <2>1. /\ DOMAIN late = GraphFields
        /\ late.of = url /\ late.targetNode = g.targetNode
        /\ g.targetNode # Absent => late.overtaken
    BY <1>2 DEF GraphFields
  <2>2. QED
    BY <1>1, <1>5, <2>1 DEF StandsOut
<1>6. QED
  BY <1>3, <1>4, <1>5

(* So does the effect of [hash], which marks the node of the hash.         *)
LEMMA HashEffectKeeps ==
  ASSUME NEW g, DOMAIN g = GraphFields, StandsOut(g), NEW answer,
         ~g.kept => g.of = answer.params.url, NEW hash
  PROVE  LET h == HashEffect(g, answer, hash) IN
         /\ DOMAIN h = GraphFields
         /\ StandsOut(h)
         /\ ~h.kept => h.of = answer.params.url
<1> DEFINE n == IF NodeIn[hash] \in NodesAt[answer.params.url] THEN NodeIn[hash] ELSE Absent
           new == IF hash = Absent THEN g ELSE WithTarget(g, n)
<1>1. /\ DOMAIN new = GraphFields
      /\ StandsOut(new)
      /\ new.of = g.of /\ new.kept = g.kept
  BY WithTargetStandsOut
<1>2. HashEffect(g, answer, hash) \in {new, [new EXCEPT !.nodeInfo = Absent]}
  BY DEF HashEffect
<1> HIDE DEF new
<1>3. QED
  BY <1>1, <1>2 DEF StandsOut, GraphFields

(* A render of the graph keeps both properties, with any answers: the      *)
(* first holds of the answers it was rendered with.                        *)
LEMMA GraphRenderedKeeps ==
  ASSUME NEW g, DOMAIN g = GraphFields, StandsOut(g), NEW answers, NEW hash
  PROVE  LET r == GraphRendered(g, answers, hash) IN
         /\ DOMAIN r = GraphFields
         /\ StandsOut(r)
         /\ Follows(r, answers)
<1>1. CASE answers = <<>>
  BY <1>1 DEF GraphRendered, Follows
<1>2. CASE answers # <<>>
  <2> DEFINE d == DataEffect(g, Last(answers))
  <2>1. /\ DOMAIN d = GraphFields
        /\ StandsOut(d)
        /\ ~d.kept => d.of = Last(answers).params.url
    BY DataEffectKeeps
  <2>2. GraphRendered(g, answers, hash) = HashEffect(d, Last(answers), hash)
    BY <1>2 DEF GraphRendered
  <2> HIDE DEF d
  <2>3. QED
    BY <2>1, <2>2, HashEffectKeeps DEF Follows
<1>3. QED
  BY <1>1, <1>2

(* So do the steps of the user.                                            *)
LEMMA GraphClicksKeep ==
  ASSUME NEW g, DOMAIN g = GraphFields, StandsOut(g), Follows(g, shown), NEW n,
         NEW h \in {SelectNode(g, shown, n), setTargetNodeId(g, n), onInfoClick(g, n),
                    ChannelEffect(g)}
  PROVE  DOMAIN h = GraphFields /\ StandsOut(h) /\ Follows(h, shown)
<1>1. \A id : LET i == [g EXCEPT !.nodeInfo = id] IN
              DOMAIN i = GraphFields /\ StandsOut(i) /\ Follows(i, shown)
  BY DEF StandsOut, Follows, GraphFields
<1>2. CASE h = SelectNode(g, shown, n)
  BY <1>2, WithTargetStandsOut DEF SelectNode, Follows
<1>3. CASE h = setTargetNodeId(g, n)
  BY <1>3, WithTargetStandsOut DEF setTargetNodeId, Follows
<1>4. CASE h = onInfoClick(g, n)
  BY <1>1, <1>4 DEF onInfoClick
<1>5. CASE h = ChannelEffect(g)
  <2> DEFINE i == [g EXCEPT !.nodeInfo = Absent]
  <2>1. DOMAIN i = GraphFields /\ Follows(i, shown)
    BY <1>1
  <2>2. h = WithTarget(i, Absent)
    BY <1>5 DEF ChannelEffect
  <2> HIDE DEF i
  <2>3. QED
    BY <2>1, <2>2, WithTargetStandsOut DEF Follows
<1>6. QED
  BY <1>2, <1>3, <1>4, <1>5

(* A graph is mounted without a target and without data.                   *)
LEMMA GraphInvInit == Init => GraphInv
<1> SUFFICES ASSUME Init, IsGraph PROVE GraphInv
  BY DEF GraphInv
<1>1. hook \in Hooks /\ shown = <<>> /\ graph = NewGraph
  BY DEF Init, HookInit
<1>2. shown \in Seq({})
  BY <1>1
<1>3. QED
  BY <1>1, <1>2 DEF GraphInv, NewGraph, GraphFields, Follows, StandsOut

(* Renders, clicks and answers keep GraphInv, by the lemmas above.         *)
LEMMA GraphInvStep == GraphInv /\ [Next]_vars => GraphInv'
<1> SUFFICES ASSUME GraphInv, [Next]_vars, IsGraph', mounted' PROVE GraphInv'
  BY DEF GraphInv
<1>1. hook' = hook /\ mounted
  BY PageStep DEF HookStep, RunEffect, Unmount, Answer, Fail, Receive
<1>2. /\ IsGraph
      /\ ~(IsTable \/ IsForm \/ IsPlaybook \/ IsPosts \/ IsNews \/ IsPolicy)
  BY <1>1 DEF IsGraph, IsTable, IsForm, IsPlaybook, IsPosts, IsNews, IsPolicy
<1>3. /\ hook \in Hooks
      /\ \E S : shown \in Seq(S)
      /\ DOMAIN graph = GraphFields
      /\ Follows(graph, shown)
      /\ StandsOut(graph)
  BY <1>1, <1>2 DEF GraphInv
<1>4. CASE shown' = shown /\ graph' = graph
  BY <1>1, <1>3, <1>4 DEF GraphInv
<1>5. CASE shown' = shown /\ \E hash : graph' = GraphRendered(graph, shown, hash)
  BY <1>1, <1>3, <1>5, GraphRenderedKeeps DEF GraphInv
<1>6. CASE FetchEnds
  <2>1. PICK f \in fetches : AnswerReceived(f) \/ FetchFails(f)
    BY <1>6 DEF FetchEnds
  <2>2. CASE FetchFails(f)
    BY <1>3, <1>4, <2>2, <1>2, GuardedHook DEF FetchFails, Fail
  <2>3. CASE AnswerReceived(f) /\ f.isCanceled
    BY <1>4, <2>3 DEF AnswerReceived, Answer, views
  <2>4. CASE AnswerReceived(f) /\ ~f.isCanceled
    <3> DEFINE states == Merged(hook, shown, State(f, TRUE))
    <3>1. shown' = states
      BY <2>4 DEF AnswerReceived, Answer
    <3>2. graph' = GraphRendered(WithAnswer(graph), states, nav.hash)
      BY <1>2, <2>4 DEF AnswerReceived, WidgetRendered
    <3>3. \E S : states \in Seq(S)
      BY <1>3, MergedEndsWithAnswer
    <3>4. DOMAIN WithAnswer(graph) = GraphFields /\ StandsOut(WithAnswer(graph))
      BY <1>3 DEF WithAnswer, GraphFields, StandsOut
    <3> HIDE DEF states
    <3>5. QED
      BY <1>1, <1>3, <3>1, <3>2, <3>3, <3>4, GraphRenderedKeeps DEF GraphInv
  <2>5. QED
    BY <2>1, <2>2, <2>3, <2>4
<1>7. CASE (\E url \in Urls, hash \in Hashes : Navigate(url, hash)) \/ Rerender \/ TimerFires
  BY <1>2, <1>4, <1>5, <1>7
  DEF Navigate, Rerender, TimerFires, Rendered, WidgetRendered, hookVars
<1>8. CASE GraphStep \/ ChangeChannel
  <2>1. CASE \E n : graph' \in {SelectNode(graph, shown, n), setTargetNodeId(graph, n),
                               onInfoClick(graph, n), ChannelEffect(graph)}
    <3>1. shown' = shown
      BY <1>8 DEF GraphStep, ChangeChannel, hookVars
    <3>2. QED
      BY <1>1, <1>3, <2>1, <3>1, GraphClicksKeep DEF GraphInv
  <2>2. QED
    BY <1>2, <1>5, <1>8, <2>1 DEF GraphStep, ChangeChannel, hookVars
<1>9. CASE \/ UNCHANGED vars \/ OtherParams \/ EffectRuns \/ WidgetGone \/ TableStep
           \/ FormStep \/ ChannelAdded \/ PlaybookStep \/ PostsStep \/ NewsStep
           \/ PolicyStep \/ PolicyServed
  BY <1>2, <1>4, <1>9
  DEF vars, views, hookVars, OtherParams, Render, EffectRuns, RunEffect, WidgetGone, Unmount,
      TableStep, FormStep, ChannelAdded, PlaybookStep, PostsStep, NewsStep, PolicyStep,
      PolicyServed
<1>10. QED
  BY <1>6, <1>7, <1>8, <1>9 DEF Next

(* The graph on the screen is that of the last answer, but for a graph     *)
(* that its target node kept there.                                        *)
THEOREM GraphFollowsDataTheorem == Spec => []GraphFollowsData
<1>1. GraphInv => GraphFollowsData
  BY DEF GraphInv, GraphFollowsData, Follows
<1>2. QED
  BY <1>1, GraphInvInit, GraphInvStep, PTL DEF Spec

(* The target node and its neighbours, and no others, stand out in it.     *)
THEOREM TargetStandsOutTheorem == Spec => []TargetStandsOut
<1>1. GraphInv => TargetStandsOut
  BY DEF GraphInv, TargetStandsOut, StandsOut
<1>2. QED
  BY <1>1, GraphInvInit, GraphInvStep, PTL DEF Spec

------------------------------------------------------------------------------
(* The policy                                                               *)

PolicyFields ==
  {"of", "messages", "screen", "requests", "removals", "export", "stored", "since", "calm"}
RemovalFields == {"n", "url", "body", "served", "shares", "of", "messages"}

Unserved(p, url) == {r \in p.requests : ~r.served /\ r.url = url}

PolicyTypeOK(p) ==
  /\ DOMAIN p = PolicyFields
  /\ p.removals \in Nat
  /\ \A r \in p.requests : DOMAIN r = RemovalFields /\ r.n \in 1 .. p.removals
  /\ \A r, q \in p.requests : r.n = q.n => r = q

(* As long as the removals go on calmly, what is on its way to a stored    *)
(* template brings nothing back, each removal nothing that an older one    *)
(* takes out, and nor does what the user sees, but for the mark.           *)
RemovalsShrink(p) ==
  p.calm =>
    \A url \in DOMAIN p.stored :
      /\ \A r \in Unserved(p, url) : r.body \subseteq p.stored[url]
      /\ \A r, q \in Unserved(p, url) : r.n < q.n => q.body \subseteq r.body
      /\ p.of = url =>
           /\ p.messages \ {Ongoing} \subseteq p.stored[url]
           /\ \A r \in Unserved(p, url) : p.messages \subseteq r.body

PolicyOK(p) == PolicyTypeOK(p) /\ RemovalsShrink(p)

(* The property, of two states of a policy. *)
NothingBack(p, q) == q.calm => \A url \in DOMAIN p.stored : q.stored[url] \subseteq p.stored[url]

PolicyInv == IsPolicy => PolicyOK(policy)

(* A render changes what is on the screen only. *)
LEMMA PolicyRenderedKeeps ==
  ASSUME NEW p, PolicyOK(p)
  PROVE  PolicyOK(PolicyRendered(p)) /\ NothingBack(p, PolicyRendered(p))
  BY DEF PolicyOK, PolicyTypeOK, PolicyFields, RemovalsShrink, Unserved, PolicyRendered, NothingBack

(* setTemplate leaves the removals what they are, but for the template they*)
(* share.                                                                  *)
LEMMA SetTemplateKeeps ==
  ASSUME NEW p, PolicyTypeOK(p), NEW of, NEW messages
  PROVE  LET q == setTemplate(p, of, messages) IN
         /\ PolicyTypeOK(q)
         /\ q.of = of /\ q.messages = messages
         /\ q.stored = p.stored /\ q.calm = p.calm
         /\ \A t \in q.requests :
              \E r \in p.requests :
                t.n = r.n /\ t.url = r.url /\ t.body = r.body /\ t.served = r.served
         /\ p.requests = {} => q.requests = {}
<1> DEFINE Copied(r) == IF r.shares THEN [r EXCEPT !.shares = FALSE, !.messages = p.messages] ELSE r
           q == setTemplate(p, of, messages)
<1>1. /\ DOMAIN q = PolicyFields
      /\ q.of = of /\ q.messages = messages
      /\ q.stored = p.stored /\ q.calm = p.calm /\ q.removals = p.removals
      /\ q.requests = {Copied(r) : r \in p.requests}
  BY DEF setTemplate, PolicyRendered, PolicyTypeOK, PolicyFields
<1>2. ASSUME NEW r \in p.requests
      PROVE  /\ DOMAIN Copied(r) = RemovalFields
             /\ Copied(r).n = r.n /\ Copied(r).url = r.url
             /\ Copied(r).body = r.body /\ Copied(r).served = r.served
  BY DEF PolicyTypeOK, RemovalFields
<1> HIDE DEF q, Copied
<1>3. PolicyTypeOK(q)
  BY <1>1, <1>2 DEF PolicyTypeOK
<1>4. QED
  BY <1>1, <1>2, <1>3 DEF q

(* A template that is answered is the stored one, or the end of the calm.  *)
LEMMA TemplateAnsweredKeeps ==
  ASSUME NEW p, PolicyOK(p), NEW url, NEW messages
  PROVE  LET q == TemplateAnswered(p, url, messages) IN PolicyOK(q) /\ NothingBack(p, q)
<1> DEFINE t == setTemplate(p, url, messages)
           q == TemplateAnswered(p, url, messages)
<1>1. /\ PolicyTypeOK(t)
      /\ t.of = url /\ t.messages = messages /\ t.stored = p.stored /\ t.calm = p.calm
      /\ p.requests = {} => t.requests = {}
  BY SetTemplateKeeps DEF PolicyOK
<1>2. q = [t EXCEPT !.calm = t.calm /\ p.requests = {} /\ messages = p.stored[url]]
  BY DEF TemplateAnswered
<1> HIDE DEF t, q
<1>3. /\ DOMAIN q = PolicyFields
      /\ q.calm = (t.calm /\ p.requests = {} /\ messages = p.stored[url])
      /\ q.of = t.of /\ q.messages = t.messages /\ q.stored = t.stored
      /\ q.requests = t.requests /\ q.removals = t.removals
  BY <1>1, <1>2 DEF PolicyTypeOK, PolicyFields
<1>4. PolicyTypeOK(q)
  BY <1>1, <1>3 DEF PolicyTypeOK
<1>5. RemovalsShrink(q)
  BY <1>1, <1>3 DEF RemovalsShrink, Unserved
<1>6. NothingBack(p, q)
  BY <1>1, <1>3 DEF NothingBack
<1>7. QED
  BY <1>4, <1>5, <1>6 DEF PolicyOK, q

(* A removal that stays calm is made from the template of its own section, *)
(* and takes out at least what the older ones do.                          *)
LEMMA RemoveKeeps ==
  ASSUME NEW p, PolicyOK(p), NEW post, NEW url
  PROVE  LET q == remove(p, post, url) IN PolicyOK(q) /\ NothingBack(p, q)
<1> DEFINE r == Removal(p, post, url)
           q == remove(p, post, url)
<1>1. /\ DOMAIN r = RemovalFields
      /\ r.n = p.removals + 1 /\ r.url = url /\ r.body = p.messages \ {post} /\ ~r.served
  BY DEF Removal, RemovalFields
<1> HIDE DEF r
<1>2. /\ DOMAIN q = PolicyFields
      /\ q.removals = p.removals + 1
      /\ q.messages = p.messages \ {post}
      /\ q.requests = p.requests \cup {r}
      /\ q.calm = (p.calm /\ p.of = url /\ (Ongoing \in p.messages => Ongoing \in p.stored[url]))
      /\ q.of = p.of /\ q.stored = p.stored
  BY DEF remove, r, PolicyOK, PolicyTypeOK, PolicyFields
<1> HIDE DEF q
<1>3. PolicyTypeOK(q)
  BY <1>1, <1>2 DEF PolicyOK, PolicyTypeOK
<1>4. RemovalsShrink(q)
  <2> SUFFICES ASSUME q.calm, NEW u \in DOMAIN q.stored
               PROVE  /\ \A x \in Unserved(q, u) : x.body \subseteq q.stored[u]
                      /\ \A x, y \in Unserved(q, u) : x.n < y.n => y.body \subseteq x.body
                      /\ q.of = u =>
                           /\ q.messages \ {Ongoing} \subseteq q.stored[u]
                           /\ \A x \in Unserved(q, u) : q.messages \subseteq x.body
    BY DEF RemovalsShrink
  <2>1. p.calm /\ p.of = url /\ (Ongoing \in p.messages => Ongoing \in p.stored[url])
    BY <1>2
  <2>2. CASE u # url
    <3>1. Unserved(q, u) = Unserved(p, u)
      BY <1>1, <1>2, <2>2 DEF Unserved
    <3>2. QED
      BY <1>2, <2>1, <2>2, <3>1 DEF PolicyOK, RemovalsShrink
  <2>3. CASE u = url
    <3>1. Unserved(q, u) = Unserved(p, u) \cup {r}
      BY <1>1, <1>2, <2>3 DEF Unserved
    <3>2. /\ p.messages \subseteq p.stored[u]
          /\ \A x \in Unserved(p, u) : p.messages \subseteq x.body
          /\ \A x \in Unserved(p, u) : x.body \subseteq p.stored[u]
          /\ \A x, y \in Unserved(p, u) : x.n < y.n => y.body \subseteq x.body
      BY <1>2, <2>1, <2>3 DEF PolicyOK, RemovalsShrink
    <3>3. \A x \in Unserved(p, u) : ~(r.n < x.n)
      BY <1>1 DEF PolicyOK, PolicyTypeOK, Unserved
    <3>4. ~(r.n < r.n)
      BY <1>1 DEF PolicyOK, PolicyTypeOK
    <3>5. QED
      BY <1>1, <1>2, <3>1, <3>2, <3>3, <3>4
  <2>4. QED
    BY <2>2, <2>3
<1>5. NothingBack(p, q)
  BY <1>2 DEF NothingBack
<1>6. QED
  BY <1>3, <1>4, <1>5 DEF PolicyOK, q

(* The oldest removal on its way is served. *)
LEMMA SaveServedKeeps ==
  ASSUME NEW p, PolicyOK(p), NEW r \in p.requests, ~r.served
  PROVE  LET q == SaveServed(p, r) IN PolicyOK(q) /\ NothingBack(p, q)
<1> DEFINE served == [r EXCEPT !.served = TRUE]
           q == SaveServed(p, r)
<1>1. /\ DOMAIN served = RemovalFields /\ served.served
      /\ served.n = r.n
  BY DEF PolicyOK, PolicyTypeOK, RemovalFields
<1> HIDE DEF served
<1>2. /\ DOMAIN q = PolicyFields
      /\ q.requests = (p.requests \ {r}) \cup {served}
      /\ q.calm = (p.calm /\ \A x \in p.requests : x.n < r.n => x.served)
      /\ q.of = p.of /\ q.messages = p.messages /\ q.removals = p.removals
      /\ q.stored = [p.stored EXCEPT ![r.url] = r.body]
  BY DEF SaveServed, Stores, served, PolicyOK, PolicyTypeOK, PolicyFields
<1> HIDE DEF q
<1>3. PolicyTypeOK(q)
  BY <1>1, <1>2 DEF PolicyOK, PolicyTypeOK
<1>4. \A u : Unserved(q, u) \subseteq Unserved(p, u) \ {r}
  BY <1>1, <1>2 DEF Unserved
<1>5. r \in Unserved(p, r.url)
  BY DEF Unserved
<1>6. p.calm => \A u \in DOMAIN p.stored : u = r.url => r.body \subseteq p.stored[u]
  BY <1>5 DEF PolicyOK, RemovalsShrink
<1>7. NothingBack(p, q)
  BY <1>2, <1>6 DEF NothingBack
<1>8. RemovalsShrink(q)
  <2> SUFFICES ASSUME q.calm, NEW u \in DOMAIN q.stored
               PROVE  /\ \A x \in Unserved(q, u) : x.body \subseteq q.stored[u]
                      /\ \A x, y \in Unserved(q, u) : x.n < y.n => y.body \subseteq x.body
                      /\ q.of = u =>
                           /\ q.messages \ {Ongoing} \subseteq q.stored[u]
                           /\ \A x \in Unserved(q, u) : q.messages \subseteq x.body
    BY DEF RemovalsShrink
  <2>1. p.calm /\ u \in DOMAIN p.stored
    BY <1>2
  <2>2. CASE u # r.url
    BY <1>2, <1>4, <2>1, <2>2 DEF PolicyOK, RemovalsShrink
  <2>3. CASE u = r.url
    <3>1. q.stored[u] = r.body
      BY <1>2, <2>1, <2>3
    <3>2. ASSUME NEW x \in Unserved(q, u) PROVE r.n < x.n
      <4>1. x \in p.requests /\ x # r /\ ~x.served
        BY <1>4 DEF Unserved
      <4>2. ~(x.n < r.n)
        BY <1>2, <4>1
      <4>3. QED
        BY <4>1, <4>2 DEF PolicyOK, PolicyTypeOK
    <3>3. \A x \in Unserved(q, u) : x.body \subseteq r.body
      BY <1>4, <1>5, <2>1, <2>3, <3>2 DEF PolicyOK, RemovalsShrink
    <3>4. p.of = u => p.messages \subseteq r.body
      BY <1>5, <2>1, <2>3 DEF PolicyOK, RemovalsShrink
    <3>5. QED
      BY <1>2, <1>4, <2>1, <3>1, <3>3, <3>4 DEF PolicyOK, RemovalsShrink
  <2>4. QED
    BY <2>2, <2>3
<1>9. QED
  BY <1>3, <1>7, <1>8 DEF PolicyOK, q

(* A removal that has ended is forgotten. *)
LEMMA SaveFailedKeeps ==
  ASSUME NEW p, PolicyOK(p), NEW r \in p.requests
  PROVE  LET q == SaveFailed(p, r) IN
         /\ PolicyOK(q) /\ NothingBack(p, q)
         /\ q.stored = p.stored /\ q.calm = p.calm /\ q.of = p.of /\ q.messages = p.messages
<1> DEFINE q == SaveFailed(p, r)
<1>1. /\ DOMAIN q = PolicyFields
      /\ q.requests = p.requests \ {r}
      /\ q.calm = p.calm /\ q.of = p.of /\ q.messages = p.messages
      /\ q.removals = p.removals /\ q.stored = p.stored
  BY DEF SaveFailed, PolicyOK, PolicyTypeOK, PolicyFields
<1> HIDE DEF q
<1>2. PolicyTypeOK(q)
  BY <1>1 DEF PolicyOK, PolicyTypeOK
<1>3. \A u : Unserved(q, u) \subseteq Unserved(p, u)
  BY <1>1 DEF Unserved
<1>4. RemovalsShrink(q)
  BY <1>1, <1>3 DEF PolicyOK, RemovalsShrink
<1>5. QED
  BY <1>1, <1>2, <1>4 DEF PolicyOK, NothingBack, q

(* Calmly, a reply puts back the template that is the state already. *)
LEMMA SaveRepliedKeeps ==
  ASSUME NEW p, PolicyOK(p), NEW r \in p.requests
  PROVE  LET q == SaveReplied(p, r) IN PolicyOK(q) /\ NothingBack(p, q)
<1> DEFINE rest == SaveFailed(p, r)
           of == IF r.shares THEN p.of ELSE r.of
           messages == IF r.shares THEN p.messages ELSE r.messages
           t == setTemplate(rest, of, messages)
           q == SaveReplied(p, r)
<1>1. /\ PolicyOK(rest) /\ rest.stored = p.stored /\ rest.calm = p.calm
      /\ rest.of = p.of /\ rest.messages = p.messages
  BY SaveFailedKeeps
<1>2. q \in {t, [t EXCEPT !.calm = t.calm /\ r.of = p.of /\ r.messages = p.messages]}
      /\ (r.shares => q = t)
      /\ (~r.shares => q = [t EXCEPT !.calm = t.calm /\ r.of = p.of /\ r.messages = p.messages])
  BY DEF SaveReplied, SaveFailed
<1> HIDE DEF rest
<1>3. /\ PolicyTypeOK(t)
      /\ t.of = of /\ t.messages = messages /\ t.stored = p.stored /\ t.calm = p.calm
      /\ \A x \in t.requests :
           \E y \in rest.requests : x.n = y.n /\ x.url = y.url /\ x.body = y.body /\ x.served = y.served
  BY <1>1, SetTemplateKeeps DEF PolicyOK
<1> HIDE DEF t, q
<1>4. /\ PolicyTypeOK(q)
      /\ q.of = of /\ q.messages = messages /\ q.stored = p.stored /\ q.requests = t.requests
      /\ q.calm => p.calm /\ of = p.of /\ messages = p.messages
  <2>1. CASE r.shares
    BY <1>2, <1>3, <2>1
  <2>2. CASE ~r.shares
    <3>1. /\ DOMAIN q = PolicyFields
          /\ q.calm = (t.calm /\ r.of = p.of /\ r.messages = p.messages)
          /\ q.of = t.of /\ q.messages = t.messages /\ q.stored = t.stored
          /\ q.requests = t.requests /\ q.removals = t.removals
      BY <1>2, <1>3, <2>2 DEF PolicyTypeOK, PolicyFields
    <3>2. QED
      BY <1>3, <2>2, <3>1 DEF PolicyTypeOK
  <2>3. QED
    BY <2>1, <2>2
<1>5. RemovalsShrink(q)
  <2> SUFFICES ASSUME q.calm, NEW u \in DOMAIN q.stored
               PROVE  /\ \A x \in Unserved(q, u) : x.body \subseteq q.stored[u]
                      /\ \A x, y \in Unserved(q, u) : x.n < y.n => y.body \subseteq x.body
                      /\ q.of = u =>
                           /\ q.messages \ {Ongoing} \subseteq q.stored[u]
                           /\ \A x \in Unserved(q, u) : q.messages \subseteq x.body
    BY DEF RemovalsShrink
  <2>1. /\ rest.calm /\ q.of = rest.of /\ q.messages = rest.messages /\ q.stored = rest.stored
    BY <1>1, <1>4
  <2>2. /\ \A x \in Unserved(rest, u) : x.body \subseteq rest.stored[u]
        /\ \A x, y \in Unserved(rest, u) : x.n < y.n => y.body \subseteq x.body
        /\ rest.of = u =>
             /\ rest.messages \ {Ongoing} \subseteq rest.stored[u]
             /\ \A x \in Unserved(rest, u) : rest.messages \subseteq x.body
    BY <1>1, <2>1 DEF PolicyOK, RemovalsShrink
  <2>3. \A x \in Unserved(q, u) : \E y \in Unserved(rest, u) : x.n = y.n /\ x.body = y.body
    BY <1>3, <1>4 DEF Unserved
  <2>4. QED
    BY <2>1, <2>2, <2>3
<1>6. NothingBack(p, q)
  BY <1>4 DEF NothingBack
<1>7. QED
  BY <1>4, <1>5, <1>6 DEF PolicyOK, q

(* The export of a policy waits for no removal, or ends the calm. *)
LEMMA ExportServedKeeps ==
  ASSUME NEW p, PolicyOK(p)
  PROVE  LET q == ExportServed(p) IN PolicyOK(q) /\ NothingBack(p, q)
<1> DEFINE q == ExportServed(p)
<1>1. /\ DOMAIN q = PolicyFields
      /\ q.requests = p.requests
      /\ q.calm = (p.calm /\ \A r \in p.requests : r.served)
      /\ q.of = p.of /\ q.messages = p.messages /\ q.removals = p.removals
      /\ q.stored = [p.stored EXCEPT ![p.export] = p.stored[p.export] \ {Ongoing}]
  BY DEF ExportServed, Stores, PolicyOK, PolicyTypeOK, PolicyFields
<1> HIDE DEF q
<1>2. PolicyTypeOK(q)
  BY <1>1 DEF PolicyOK, PolicyTypeOK
<1>3. q.calm => \A u : Unserved(q, u) = {}
  BY <1>1 DEF Unserved
<1>4. RemovalsShrink(q)
  <2>1. SUFFICES ASSUME q.calm, NEW u \in DOMAIN q.stored
                 PROVE  q.of = u => q.messages \ {Ongoing} \subseteq q.stored[u]
    BY <1>3 DEF RemovalsShrink
  <2>2. p.calm /\ u \in DOMAIN p.stored
    BY <1>1, <2>1
  <2>3. p.of = u => p.messages \ {Ongoing} \subseteq p.stored[u]
    BY <2>2 DEF PolicyOK, RemovalsShrink
  <2>4. p.stored[u] \ {Ongoing} \subseteq q.stored[u]
    BY <1>1, <2>2
  <2>5. QED
    BY <1>1, <2>3, <2>4
<1>5. NothingBack(p, q)
  BY <1>1 DEF NothingBack
<1>6. QED
  BY <1>2, <1>4, <1>5 DEF PolicyOK, q

(* What else the section and the hook do changes neither the template nor  *)
(* the removals.                                                           *)
LEMMA ExportKeeps ==
  ASSUME NEW p, PolicyOK(p), NEW url,
         NEW q \in {onExport(p, url), ExportFailed(p), TemplateAsked(p, url)}
  PROVE  PolicyOK(q) /\ NothingBack(p, q)
<1>1. /\ DOMAIN q = PolicyFields
      /\ q.requests = p.requests /\ q.calm = p.calm /\ q.of = p.of
      /\ q.messages = p.messages /\ q.removals = p.removals /\ q.stored = p.stored
  BY DEF onExport, ExportFailed, TemplateAsked, PolicyOK, PolicyTypeOK, PolicyFields
<1>2. QED
  BY <1>1 DEF PolicyOK, PolicyTypeOK, RemovalsShrink, Unserved, NothingBack

(* A policy is mounted without requests and without a template.            *)
LEMMA PolicyInvInit == Init => PolicyInv
  BY DEF Init, PolicyInv, PolicyOK, PolicyTypeOK, PolicyFields, RemovalsShrink, Unserved, NewPolicy

(* Removals, their requests, exports and templates keep PolicyInv, and     *)
(* nothing that was removed comes back.                                    *)
LEMMA PolicyInvStep ==
  ASSUME PolicyInv, [Next]_vars
  PROVE  PolicyInv' /\ (IsPolicy => NothingBack(policy, policy'))
<1>1. hook' = hook
  BY PageStep DEF HookStep, RunEffect, Unmount, Answer, Fail, Receive
<1>2. CASE ~IsPolicy
  BY <1>1, <1>2 DEF PolicyInv, IsPolicy
<1>3. CASE IsPolicy
  <2>1. PolicyOK(policy) /\ (IsPolicy' <=> IsPolicy)
    BY <1>1, <1>3 DEF PolicyInv, IsPolicy
  <2>2. SUFFICES PolicyOK(policy') /\ NothingBack(policy, policy')
    BY DEF PolicyInv
  <2>3. CASE policy' = policy
    BY <2>1, <2>3 DEF NothingBack
  <2>4. CASE OtherParams
    BY <1>3, <2>1, <2>4, PolicyRenderedKeeps DEF OtherParams
  <2>5. CASE EffectRuns
    BY <1>3, <2>1, <2>5, ExportKeeps DEF EffectRuns
  <2>6. CASE FetchEnds
    <3>1. PICK f \in fetches : AnswerReceived(f) \/ FetchFails(f)
      BY <2>6 DEF FetchEnds
    <3>2. \/ policy' = policy
          \/ \E url, messages : policy' = TemplateAnswered(policy, url, messages)
      BY <1>3, <3>1 DEF AnswerReceived, views, contents, FetchFails
    <3>3. QED
      BY <2>1, <2>3, <3>2, TemplateAnsweredKeeps
  <2>7. CASE PolicyStep
    <3>1. CASE \E post : policy' = remove(policy, post, params.url)
      BY <2>1, <3>1, RemoveKeeps
    <3>2. CASE policy' = PolicyRendered(policy)
      BY <2>1, <3>2, PolicyRenderedKeeps
    <3>3. CASE policy' = PolicyRendered(onExport(policy, params.url))
      <4> DEFINE p == onExport(policy, params.url)
      <4>1. PolicyOK(p) /\ NothingBack(policy, p)
        BY <2>1, ExportKeeps
      <4>2. p.stored = policy.stored
        BY <2>1 DEF onExport, PolicyOK, PolicyTypeOK, PolicyFields
      <4> HIDE DEF p
      <4>3. PolicyOK(policy') /\ NothingBack(p, policy')
        BY <3>3, <4>1, PolicyRenderedKeeps DEF p
      <4>4. QED
        BY <4>2, <4>3 DEF NothingBack
    <3>4. QED
      BY <2>7, <3>1, <3>2, <3>3 DEF PolicyStep
  <2>8. CASE PolicyServed
    <3>1. CASE \E r \in policy.requests : ~r.served /\ policy' = SaveServed(policy, r)
      BY <2>1, <3>1, SaveServedKeeps
    <3>2. CASE \E r \in policy.requests : policy' = SaveReplied(policy, r)
      BY <2>1, <3>2, SaveRepliedKeeps
    <3>3. CASE \E r \in policy.requests : policy' = SaveFailed(policy, r)
      BY <2>1, <3>3, SaveFailedKeeps
    <3>4. CASE policy' = ExportServed(policy)
      BY <2>1, <3>4, ExportServedKeeps
    <3>5. CASE policy' = ExportFailed(policy)
      BY <2>1, <3>5, ExportKeeps
    <3>6. QED
      BY <2>8, <3>1, <3>2, <3>3, <3>4, <3>5 DEF PolicyServed
  <2>9. ~(IsPage \/ IsForm)
    BY <1>3 DEF IsForm, IsPage, IsTable, IsGraph, IsPlaybook, IsPosts, IsNews, IsPolicy
  <2>10. CASE UNCHANGED vars \/ WidgetGone
    BY <2>3, <2>10 DEF WidgetGone, vars, views, contents
  <2>11. QED
    BY <2>4, <2>5, <2>6, <2>7, <2>8, <2>9, <2>10
    DEF Next, Navigate, Rerender, TimerFires, ChangeChannel, TableStep, GraphStep, FormStep,
        ChannelAdded, PlaybookStep, PostsStep, NewsStep, IsPage
<1>4. QED
  BY <1>2, <1>3

(* What was removed from a stored policy stays removed, and an exported one*)
(* exported, as long as the removals go on calmly.                         *)
THEOREM RemovedStaysRemovedTheorem == Spec => RemovedStaysRemoved
<1>1. PolicyInv /\ [Next]_vars
      => (IsPolicy /\ policy'.calm =>
            \A u \in DOMAIN policy.stored : policy'.stored[u] \subseteq policy.stored[u])
  BY PolicyInvStep DEF NothingBack
<1>2. PolicyInv /\ [Next]_vars => PolicyInv'
  BY PolicyInvStep
<1>3. QED
  BY <1>1, <1>2, PolicyInvInit, PTL DEF Spec, RemovedStaysRemoved

------------------------------------------------------------------------------
(* The news                                                                 *)

(* The smaller and the greater of two numbers. *)
LEMMA OfTwo ==
  ASSUME NEW x \in Int, NEW y \in Int
  PROVE  /\ Min({x, y}) = IF x <= y THEN x ELSE y
         /\ Max({x, y}) = IF x <= y THEN y ELSE x
<1>1. Min({x, y}) = IF x <= y THEN x ELSE y
  BY DEF Min
<1>2. Max({x, y}) = IF x <= y THEN y ELSE x
  BY DEF Max
<1>3. QED
  BY <1>1, <1>2

(* The first item of a sequence that a hash contains is one of its items.  *)
LEMMA FirstIsOne ==
  ASSUME NEW n \in Nat, NEW rows, DOMAIN rows = 1 .. n, NEW urlHash,
         FirstContained(rows, urlHash) # {}
  PROVE  Min(FirstContained(rows, urlHash)) \in 1 .. n
<1>1. PICK i \in FirstContained(rows, urlHash) : TRUE
  OBVIOUS
<1>2. i \in 1 .. n /\ FirstContained(rows, urlHash) \subseteq 1 .. n
  BY <1>1 DEF FirstContained
<1>3. \A j \in FirstContained(rows, urlHash) : j = i
  BY <1>2 DEF FirstContained
<1>4. FirstContained(rows, urlHash) = {i}
  BY <1>1, <1>3
<1>5. QED
  BY <1>2, <1>4 DEF Min

(* The posts of a first page are on the first page.                        *)
LEMMA FirstPage ==
  ASSUME NEW limit \in Nat \ {0}, NEW i \in 1 .. limit
  PROVE  PageOfPost(i, limit) = 1
<1>1. i - 1 \in 0 .. limit - 1
  OBVIOUS
<1>2. (i - 1) \div limit = 0
  BY <1>1
<1>3. QED
  BY <1>2 DEF PageOfPost

(* A page has a number, whatever the number of posts. *)
LEMMA PageType ==
  ASSUME NEW limit \in Nat \ {0}, NEW i \in Nat \ {0}
  PROVE  PageOfPost(i, limit) \in Nat \ {0}
<1>1. i - 1 \in Nat
  OBVIOUS
<1>2. (i - 1) \div limit \in Nat
  BY <1>1
<1>3. QED
  BY <1>2 DEF PageOfPost

(* The hook of the news. *)
LEMMA NewsHook ==
  ASSUME hook \in Hooks, IsNews
  PROVE  hook = useNewsPostData /\ hook # useChannelById
  BY HooksAssumption
  DEF DataHook, IsNews, Hook, FetchingData, Fetching,
      useSectionInfo, useGraphData, useEcosystemGraphData, useTableData, useTextBoxData,
      useListData, useTimelineData, usePlaybookData, usePostData, useChartData,
      useExerciseData, usePolicyTemplateData, useBundleData, usePostsByIds,
      usePostsForTeam, useUserProps, useChannelsList, useAllUsersOptions,
      useSectionData, usePaginatedTableData, useNewsPostData, useChannelById

(* No page but the first has the offset 0. *)
LEMMA NoZeroProduct ==
  ASSUME NEW x \in Nat \ {0}, NEW y \in Nat \ {0}
  PROVE  x * y # 0
  OBVIOUS

(* What the news are asked with. *)
IsQuery(q, limit) ==
  /\ DOMAIN q = {"url", "search", "offset", "limit"}
  /\ q.search \in ValuesOf["search"] /\ q.offset \in Nat
  /\ q.limit = limit /\ limit \in Nat \ {0}

NewsTypeOK ==
  /\ IsQuery(params, params.limit) /\ IsQuery(effect.params, params.limit)
  /\ \A f \in fetches : IsQuery(f.params, params.limit)
  /\ shown # <<>> => IsQuery(Last(shown).params, params.limit)
  /\ DOMAIN posts = {"currentPage", "seen", "touched", "strayed"}
  /\ posts.currentPage \in Nat \ {0}

(* The current page is the one asked for; if it is not the first, no other *)
(* search has been made since, and the answer that is shown has that page. *)
PageAsAsked ==
  ~posts.strayed =>
    /\ params.offset = (posts.currentPage - 1) * params.limit
    /\ posts.currentPage # 1 =>
         /\ params.search = effect.params.search
         /\ shown # <<>> /\ Last(shown).params.search = params.search
         /\ posts.currentPage <= PageOfPost(calcTotalItems(shown), params.limit)

NewsInv ==
  IsNews => HookInv /\ (mounted => NewsTypeOK /\ (~NewsFailed(shown) => PageAsAsked))

(* The posts of an answer fit on one page.  *)
LEMMA NewsOnePage ==
  ASSUME NEW answers, NEW limit, answers # <<>> => IsQuery(Last(answers).params, limit)
  PROVE  \E n \in Nat : DOMAIN NewsOf(answers) = 1 .. n /\ (answers # <<>> => n <= limit)
<1>1. CASE answers = <<>>
  BY <1>1 DEF NewsOf
<1>2. CASE answers # <<>>
  <2> DEFINE query == Last(answers).params
             found == NewsFor[query.search]
             last == Min({query.offset + query.limit, Len(found)})
  <2>1. IsQuery(query, limit)
    BY <1>2
  <2>2. PICK S : found \in Seq(S)
    BY <2>1, PostsAssumption DEF IsQuery
  <2>3. Len(found) \in Nat /\ query.offset \in Nat /\ query.limit \in Nat \ {0}
    BY <2>1, <2>2 DEF IsQuery
  <2> HIDE DEF query, found
  <2>4. last \in Nat /\ last <= query.offset + query.limit /\ last <= Len(found)
    <3>1. query.offset + query.limit \in Int /\ Len(found) \in Int
      BY <2>3
    <3>2. last = IF query.offset + query.limit <= Len(found)
                 THEN query.offset + query.limit ELSE Len(found)
      BY <3>1, OfTwo
    <3>3. QED
      BY <2>3, <3>2
  <2> HIDE DEF last
  <2>5. NewsOf(answers) = SubSeq(found, query.offset + 1, last)
    BY <1>2 DEF NewsOf, query, found, last
  <2>6. CASE query.offset + 1 <= last
    <3>1. DOMAIN SubSeq(found, query.offset + 1, last) = 1 .. last - query.offset
      BY <2>2, <2>3, <2>4, <2>6
    <3>2. last - query.offset \in Nat /\ last - query.offset <= limit
      BY <2>1, <2>3, <2>4, <2>6 DEF IsQuery
    <3>3. QED
      BY <2>5, <3>1, <3>2
  <2>7. CASE ~(query.offset + 1 <= last)
    <3>1. DOMAIN SubSeq(found, query.offset + 1, last) = 1 .. 0
      BY <2>2, <2>3, <2>4, <2>7
    <3>2. 0 \in Nat /\ 0 <= limit
      BY <2>1 DEF IsQuery
    <3>3. QED
      BY <2>5, <3>1, <3>2
  <2>8. QED
    BY <2>6, <2>7
<1>3. QED
  BY <1>1, <1>2

(* A link turns to the first page only. *)
LEMMA TurnsToFirst ==
  ASSUME NEW answers, NEW limit, answers # <<>> => IsQuery(Last(answers).params, limit),
         NEW urlHash, FirstContained(NewsOf(answers), urlHash) # {}
  PROVE  PageOfPost(Min(FirstContained(NewsOf(answers), urlHash)), limit) = 1
<1>1. PICK n \in Nat : DOMAIN NewsOf(answers) = 1 .. n /\ (answers # <<>> => n <= limit)
  BY NewsOnePage
<1>2. Min(FirstContained(NewsOf(answers), urlHash)) \in 1 .. n
  BY <1>1, FirstIsOne
<1>3. answers # <<>>
  <2>1. SUFFICES ASSUME answers = <<>> PROVE FALSE
    OBVIOUS
  <2>2. NewsOf(answers) = <<>>
    BY <2>1 DEF NewsOf
  <2>3. QED
    BY <2>2 DEF FirstContained
<1>4. limit \in Nat \ {0}
  BY <1>3 DEF IsQuery
<1>5. Min(FirstContained(NewsOf(answers), urlHash)) \in 1 .. limit
  BY <1>1, <1>2, <1>3, <1>4
<1>6. QED
  BY <1>4, <1>5, FirstPage

(* A render turns to the first page and asks for it, or does neither. *)
LEMMA NewsRenderKeeps ==
  ASSUME IsNews, NEW n, NEW url, NEW hash, NEW answers, NEW answered \in BOOLEAN, NEW changed,
         IsQuery(params, params.limit),
         answers # <<>> => IsQuery(Last(answers).params, params.limit),
         DOMAIN posts = {"currentPage", "seen", "touched", "strayed"},
         posts.currentPage \in Nat \ {0},
         ~NewsFailed(answers), ~answered => ~NewsFailed(shown),
         changed = (answered \/ hash # n.hash),
         params' = WrapperParams(url, n, hash, answers, changed),
         WidgetRendered(n, hash, answers, answered)
  PROVE  /\ IsQuery(params', params.limit) /\ params'.search = params.search
         /\ DOMAIN posts' = {"currentPage", "seen", "touched", "strayed"}
         /\ posts'.currentPage \in Nat \ {0}
         /\ \/ posts'.currentPage = 1 /\ params'.offset = 0
            \/ /\ params'.offset = params.offset
               /\ NewsFailed(shown) => posts'.currentPage = 1 /\ (~posts'.strayed => params.offset = 0)
               /\ ~NewsFailed(shown) => /\ posts'.currentPage = posts.currentPage
                                        /\ posts'.strayed = posts.strayed
<1> DEFINE urlHash == useUrlHash(hash, n.previousHash)
           ids == NewsOf(answers)
           query == [params EXCEPT !.url = url]
           newsPosts == IF NewsFailed(shown) THEN NewsPostsMounted(params) ELSE posts
           page == PageOfPost(Min(FirstContained(ids, urlHash)), params.limit)
<1>1. /\ IsQuery(query, params.limit) /\ query.search = params.search
      /\ query.offset = params.offset /\ query.limit = params.limit
  BY DEF IsQuery
<1>2. /\ DOMAIN newsPosts = {"currentPage", "seen", "touched", "strayed"}
      /\ newsPosts.currentPage \in Nat \ {0}
      /\ NewsFailed(shown) => newsPosts.currentPage = 1 /\ (~newsPosts.strayed => params.offset = 0)
      /\ ~NewsFailed(shown) => newsPosts = posts
  <2>1. LET m == NewsPostsMounted(params)
        IN /\ DOMAIN m = {"currentPage", "seen", "touched", "strayed"}
           /\ m.currentPage = 1 /\ (~m.strayed => params.offset = 0)
    BY DEF NewsPostsMounted, NewPosts
  <2>2. QED
    BY <2>1
<1>3. /\ ~IsGraph /\ ~IsPosts
  BY DEF IsNews, IsGraph, IsPosts
<1> HIDE DEF query, newsPosts
<1>4. params' = IF TurnsPage(posts, ids, urlHash, changed)
                THEN updatePage(query, PageOfPost(Min(FirstContained(ids, urlHash)), query.limit))
                ELSE query
  BY <1>3 DEF WrapperParams, query
<1>5. posts' = PostsRendered(newsPosts, ids, urlHash, changed, params.limit)
  BY <1>3 DEF WidgetRendered, newsPosts
<1>6. TurnsPage(newsPosts, ids, urlHash, changed) <=> TurnsPage(posts, ids, urlHash, changed)
  BY <1>2 DEF TurnsPage
<1>7. CASE TurnsPage(posts, ids, urlHash, changed)
  <2>1. page = 1
    BY <1>7, TurnsToFirst DEF TurnsPage
  <2> HIDE DEF page
  <2>2. params' = [query EXCEPT !.offset = (1 - 1) * query.limit]
    BY <1>1, <1>4, <1>7, <2>1 DEF page, updatePage
  <2>3. (1 - 1) * query.limit = 0
    BY <1>1 DEF IsQuery
  <2>4. posts' = [NewPosts EXCEPT !.seen = urlHash, !.currentPage = 1]
    BY <1>5, <1>6, <1>7, <2>1 DEF page, PostsRendered
  <2>5. params'.offset = 0 /\ params'.search = params.search /\ IsQuery(params', params.limit)
    BY <1>1, <2>2, <2>3 DEF IsQuery
  <2>6. /\ DOMAIN posts' = {"currentPage", "seen", "touched", "strayed"}
        /\ posts'.currentPage = 1 /\ posts'.strayed = FALSE
    BY <2>4 DEF NewPosts
  <2>7. QED
    BY <2>5, <2>6
<1>8. CASE ~TurnsPage(posts, ids, urlHash, changed)
  <2>1. params' = query
    BY <1>4, <1>8
  <2>2. posts' = [newsPosts EXCEPT !.seen = urlHash]
    BY <1>5, <1>6, <1>8 DEF PostsRendered
  <2>3. /\ DOMAIN posts' = {"currentPage", "seen", "touched", "strayed"}
        /\ posts'.currentPage = newsPosts.currentPage /\ posts'.strayed = newsPosts.strayed
    BY <1>2, <2>2
  <2>4. QED
    BY <1>1, <1>2, <2>1, <2>3
<1>9. QED
  BY <1>7, <1>8

(* The first page fits, whatever is shown. *)
LEMMA FirstPageFits ==
  ASSUME posts.currentPage = 1, params.offset = 0, params.limit \in Nat \ {0}
  PROVE  PageAsAsked
<1>1. (1 - 1) * params.limit = 0
  OBVIOUS
<1>2. QED
  BY <1>1 DEF PageAsAsked

(* The news start with the first page. *)
LEMMA NewsInvInit == Init => NewsInv
<1> SUFFICES ASSUME Init, IsNews PROVE HookInv /\ NewsTypeOK /\ PageAsAsked
  BY DEF NewsInv
<1>1. HookInv
  BY HookInvInit DEF Init
<1>2. hook = useNewsPostData
  BY <1>1, NewsHook DEF HookInv, HookTypeOK
<1>3. /\ params \in [{"url", "search", "offset", "limit"} -> Values]
      /\ params.search \in ValuesOf["search"] /\ params.limit \in ValuesOf["limit"]
      /\ params.offset = 0
  BY <1>2 DEF Init, HookInit, Assignments, useNewsPostData, Hook
<1>4. IsQuery(params, params.limit)
  BY <1>3, PostsAssumption DEF IsQuery
<1>5. /\ posts = NewPosts /\ effect.params = params /\ fetches = {} /\ shown = <<>>
  BY DEF Init, HookInit
<1>6. NewsTypeOK
  BY <1>4, <1>5 DEF NewsTypeOK, NewPosts
<1>7. QED
  BY <1>1, <1>3, <1>4, <1>5, <1>6, FirstPageFits DEF NewPosts, IsQuery

(* A render of the page with the data it has keeps the page that was asked *)
(* for the current one.                                                    *)
LEMMA NewsRenderedAgain ==
  ASSUME IsNews, HookInv, HookInv', NewsTypeOK, mounted, ~NewsFailed(shown) => PageAsAsked,
         NEW n, NEW url, NEW hash,
         params' = WrapperParams(url, n, hash, shown, hash # n.hash),
         WidgetRendered(n, hash, shown, FALSE),
         UNCHANGED <<hook, mounted, effect, fetches, shown>>
  PROVE  NewsInv'
<1>1. /\ ~IsGraph /\ ~IsPosts
  BY DEF IsNews, IsGraph, IsPosts
<1>2. CASE NewsFailed(shown)
  <2>1. params' = [params EXCEPT !.url = url]
    BY <1>1, <1>2 DEF WrapperParams
  <2>2. posts' = posts
    BY <1>1, <1>2 DEF WidgetRendered
  <2>3. IsQuery(params', params.limit)
    BY <2>1 DEF NewsTypeOK, IsQuery
  <2>4. params'.limit = params.limit
    BY <2>3 DEF IsQuery
  <2>5. QED
    BY <1>2, <2>2, <2>3, <2>4 DEF NewsInv, NewsTypeOK, IsNews
<1>3. CASE ~NewsFailed(shown)
  <2>1. /\ IsQuery(params', params.limit) /\ params'.search = params.search
        /\ DOMAIN posts' = {"currentPage", "seen", "touched", "strayed"}
        /\ posts'.currentPage \in Nat \ {0}
        /\ \/ posts'.currentPage = 1 /\ params'.offset = 0
           \/ /\ params'.offset = params.offset
              /\ posts'.currentPage = posts.currentPage /\ posts'.strayed = posts.strayed
    BY <1>3, NewsRenderKeeps DEF NewsTypeOK
  <2>2. params'.limit = params.limit /\ params.limit \in Nat \ {0}
    BY <2>1 DEF IsQuery
  <2>3. NewsTypeOK'
    BY <2>1, <2>2 DEF NewsTypeOK
  <2>4. PageAsAsked'
    <3>1. CASE posts'.currentPage = 1 /\ params'.offset = 0
      <4>1. (1 - 1) * params'.limit = 0
        BY <2>2
      <4>2. QED
        BY <3>1, <4>1 DEF PageAsAsked
    <3>2. CASE /\ params'.offset = params.offset
               /\ posts'.currentPage = posts.currentPage /\ posts'.strayed = posts.strayed
      BY <1>3, <2>1, <2>2, <3>2 DEF PageAsAsked, calcTotalItems
    <3>3. QED
      BY <2>1, <3>1, <3>2
  <2>5. QED
    BY <2>3, <2>4 DEF NewsInv
<1>4. QED
  BY <1>2, <1>3

(* An answer comes to the page it was asked for: of the last fetch, and of *)
(* the same search if the page is not the first.                           *)
LEMMA NewsAnswered ==
  ASSUME IsNews, HookInv, HookInv', NewsTypeOK, mounted, ~NewsFailed(shown) => PageAsAsked,
         NEW f \in fetches, AnswerReceived(f)
  PROVE  NewsInv'
<1> DEFINE states == Merged(hook, shown, State(f, TRUE))
<1>1. hook = useNewsPostData /\ IsPage /\ ~IsForm /\ ~IsPolicy
  BY NewsHook DEF HookInv, HookTypeOK, IsNews, IsPage, IsForm, IsPolicy
<1>2. /\ fetches' \subseteq fetches /\ mounted' = mounted /\ hook' = hook
      /\ effect'.params = effect.params
  BY ReceiveKeeps DEF AnswerReceived, Answer, HookInv, Receive
<1>3. CASE f.isCanceled
  <2>1. params' = params /\ shown' = shown /\ posts' = posts
    BY <1>3 DEF AnswerReceived, Answer, views, contents
  <2>2. NewsTypeOK'
    BY <1>2, <2>1 DEF NewsTypeOK
  <2>3. mounted' /\ ~NewsFailed(shown') => PageAsAsked'
    BY <1>2, <2>1 DEF PageAsAsked, calcTotalItems
  <2>4. QED
    BY <2>1, <2>2, <2>3 DEF NewsInv, NewsFailed
<1>4. CASE ~f.isCanceled
  <2>1. states = <<State(f, TRUE)>>
    BY <1>1 DEF Merged, useNewsPostData, Hook
  <2>2. states # <<>> /\ Last(states) = State(f, TRUE)
    BY MergedEndsWithAnswer DEF HookInv, HookTypeOK
  <2> HIDE DEF states
  <2>3. /\ Last(states).params = f.params /\ Last(states).found
        /\ f.params = effect.params
    BY <1>4, <2>2 DEF State, HookInv, OneFetchCounts
  <2>4. /\ shown' = states
        /\ params' = WrapperParams(params.url, nav, nav.hash, states, TRUE)
        /\ WidgetRendered(nav, nav.hash, states, TRUE)
    BY <1>1, <1>4 DEF AnswerReceived, Answer, states
  <2>5. ~NewsFailed(states) /\ IsQuery(Last(states).params, params.limit)
    BY <2>2, <2>3 DEF NewsFailed, NewsTypeOK
  <2>6. /\ IsQuery(params', params.limit) /\ params'.search = params.search
        /\ DOMAIN posts' = {"currentPage", "seen", "touched", "strayed"}
        /\ posts'.currentPage \in Nat \ {0}
        /\ \/ posts'.currentPage = 1 /\ params'.offset = 0
           \/ /\ params'.offset = params.offset
              /\ NewsFailed(shown) => posts'.currentPage = 1 /\ (~posts'.strayed => params.offset = 0)
              /\ ~NewsFailed(shown) => /\ posts'.currentPage = posts.currentPage
                                       /\ posts'.strayed = posts.strayed
    BY <2>4, <2>5, NewsRenderKeeps DEF NewsTypeOK
  <2>7. params'.limit = params.limit /\ params.limit \in Nat \ {0}
    BY <2>6 DEF IsQuery
  <2>8. NewsTypeOK'
    BY <1>2, <2>4, <2>5, <2>6, <2>7 DEF NewsTypeOK
  <2>9. PageAsAsked'
    <3>1. (1 - 1) * params'.limit = 0
      BY <2>7
    <3>2. CASE posts'.currentPage = 1 /\ (~posts'.strayed => params'.offset = 0)
      BY <3>1, <3>2 DEF PageAsAsked
    <3>3. CASE /\ params'.offset = params.offset /\ ~NewsFailed(shown)
               /\ posts'.currentPage = posts.currentPage /\ posts'.strayed = posts.strayed
      <4> SUFFICES ASSUME ~posts.strayed
                   PROVE  /\ params'.offset = (posts.currentPage - 1) * params'.limit
                          /\ posts.currentPage # 1 =>
                               /\ params'.search = effect'.params.search
                               /\ shown' # <<>> /\ Last(shown').params.search = params'.search
                               /\ posts.currentPage <= PageOfPost(calcTotalItems(shown'), params'.limit)
        BY <3>3 DEF PageAsAsked
      <4>1. params'.offset = (posts.currentPage - 1) * params'.limit
        BY <2>7, <3>3 DEF PageAsAsked
      <4>2. ASSUME posts.currentPage # 1
            PROVE  /\ params'.search = effect'.params.search
                   /\ Last(states).params.search = params'.search
                   /\ posts.currentPage <= PageOfPost(calcTotalItems(states), params'.limit)
        <5>1. /\ params.search = effect.params.search
              /\ shown # <<>> /\ Last(shown).params.search = params.search
              /\ posts.currentPage <= PageOfPost(calcTotalItems(shown), params.limit)
          BY <3>3, <4>2 DEF PageAsAsked
        <5>2. Last(states).params.search = Last(shown).params.search
          BY <2>3, <5>1
        <5>3. calcTotalItems(states) = calcTotalItems(shown)
          BY <2>2, <5>1, <5>2 DEF calcTotalItems
        <5>4. QED
          BY <1>2, <2>3, <2>6, <2>7, <5>1, <5>3
      <4>3. QED
        BY <2>2, <2>4, <4>1, <4>2
    <3>4. QED
      BY <2>6, <3>2, <3>3
  <2>10. QED
    BY <2>8, <2>9 DEF NewsInv
<1>5. QED
  BY <1>3, <1>4

(* A failure shows an Alert, or leaves everything as it is. *)
LEMMA NewsFailure ==
  ASSUME IsNews, HookInv, HookInv', NewsTypeOK, mounted, ~NewsFailed(shown) => PageAsAsked,
         NEW f \in fetches, FetchFails(f)
  PROVE  NewsInv'
<1>1. /\ fetches' \subseteq fetches /\ hook' = hook /\ effect'.params = effect.params
      /\ params' = params
  BY ReceiveKeeps DEF FetchFails, Fail, HookInv, Receive
<1>2. CASE shown' = shown
  <2>1. posts' = posts
    BY <1>2 DEF FetchFails
  <2>2. NewsTypeOK'
    BY <1>1, <1>2, <2>1 DEF NewsTypeOK
  <2>3. ~NewsFailed(shown') => PageAsAsked'
    BY <1>1, <1>2, <2>1 DEF PageAsAsked, calcTotalItems
  <2>4. QED
    BY <2>2, <2>3 DEF NewsInv
<1>3. CASE shown' # shown
  <2>1. shown' = <<State(f, FALSE)>>
    BY <1>3 DEF FetchFails, Fail
  <2>2. shown' # <<>> /\ Last(shown') = State(f, FALSE)
    BY <2>1 DEF Last
  <2>3. NewsFailed(shown') /\ Last(shown').params = f.params
    BY <2>2 DEF NewsFailed, State
  <2>4. posts' = NewPosts
    BY <1>3 DEF FetchFails
  <2>5. NewsTypeOK'
    BY <1>1, <2>3, <2>4 DEF NewsTypeOK, NewPosts
  <2>6. QED
    BY <2>3, <2>5 DEF NewsInv
<1>4. QED
  BY <1>2, <1>3

(* An effect that runs asks for the page that is current. *)
LEMMA NewsAsked ==
  ASSUME IsNews, HookInv, HookInv', NewsTypeOK, mounted, ~NewsFailed(shown) => PageAsAsked,
         EffectRuns
  PROVE  NewsInv'
<1>1. /\ effect'.params = params
      /\ UNCHANGED <<hook, params, mounted, shown, posts>>
  BY DEF EffectRuns, RunEffect
<1>2. \A f \in fetches' : IsQuery(f.params, params.limit)
  <2>1. \A f \in Canceled(fetches) : \E g \in fetches : f.params = g.params
    BY DEF Canceled, HookInv, HookTypeOK
  <2>2. \A f \in fetches' : f \in Canceled(fetches) \/ f.params = params
    BY DEF EffectRuns, RunEffect
  <2>3. QED
    BY <2>1, <2>2 DEF NewsTypeOK
<1>3. NewsTypeOK'
  BY <1>1, <1>2 DEF NewsTypeOK
<1>4. ~NewsFailed(shown') => PageAsAsked'
  BY <1>1 DEF PageAsAsked, calcTotalItems, NewsFailed
<1>5. QED
  BY <1>3, <1>4 DEF NewsInv

(* A click asks for the page it makes the current one.  A search on the    *)
(* first page asks for the first page. *)
LEMMA NewsTurned ==
  ASSUME IsNews, HookInv, HookInv', NewsTypeOK, ~NewsFailed(shown) => PageAsAsked, NewsStep
  PROVE  NewsInv'
<1>1. hook = useNewsPostData
  BY NewsHook DEF HookInv, HookTypeOK
<1>2. params.search = effect.params.search
  BY <1>1 DEF NewsStep, Settled, EffectDue, useNewsPostData, Hook
<1>3. /\ UNCHANGED <<hook, mounted, effect, fetches, shown>>
      /\ params.limit \in Nat \ {0}
  BY DEF NewsStep, NewsTypeOK, IsQuery
<1>4. CASE /\ ~NewsFailed(shown)
           /\ \E page \in 1 .. PageOfPost(calcTotalItems(shown), params.limit) :
                /\ params' = updatePage(params, page)
                /\ posts' = NewsTurnedTo(posts, params, shown, page)
  <2>1. PICK page \in 1 .. PageOfPost(calcTotalItems(shown), params.limit) :
               /\ params' = updatePage(params, page)
               /\ posts' = NewsTurnedTo(posts, params, shown, page)
    BY <1>4
  <2>2. page \in Nat \ {0} /\ page <= PageOfPost(calcTotalItems(shown), params.limit)
    OBVIOUS
  <2>3. (page - 1) * params.limit \in Nat
    BY <1>3, <2>2
  <2>4. /\ IsQuery(params', params.limit) /\ params'.offset = (page - 1) * params.limit
        /\ params'.search = params.search
    BY <2>1, <2>3 DEF updatePage, NewsTypeOK, IsQuery
  <2>5. /\ DOMAIN posts' = {"currentPage", "seen", "touched", "strayed"}
        /\ posts'.currentPage = page
        /\ ~posts'.strayed => shown = <<>> \/ Last(shown).params.search = params.search
    BY <2>1 DEF NewsTurnedTo, NewsTypeOK
  <2>6. params'.limit = params.limit
    BY <2>4 DEF IsQuery
  <2>7. NewsTypeOK'
    BY <1>3, <2>2, <2>4, <2>5, <2>6 DEF NewsTypeOK
  <2>8. shown = <<>> => page = 1
    <3>1. SUFFICES ASSUME shown = <<>> PROVE page = 1
      OBVIOUS
    <3>2. calcTotalItems(shown) = 1
      BY <3>1 DEF calcTotalItems
    <3>3. 1 \in 1 .. params.limit
      BY <1>3
    <3>4. QED
      BY <1>3, <2>2, <3>2, <3>3, FirstPage
  <2>9. PageAsAsked'
    BY <1>2, <1>3, <2>2, <2>4, <2>5, <2>6, <2>8 DEF PageAsAsked, calcTotalItems
  <2>10. QED
    BY <2>7, <2>9 DEF NewsInv
<1>5. CASE /\ \E value \in ValuesOf["search"] : params' = onSearch(params, value)
           /\ posts' = NewsSearched(posts, params)
  <2>1. /\ IsQuery(params', params.limit) /\ params'.offset = params.offset
    BY <1>5 DEF onSearch, NewsTypeOK, IsQuery
  <2>2. /\ DOMAIN posts' = {"currentPage", "seen", "touched", "strayed"}
        /\ posts'.currentPage = posts.currentPage
        /\ ~posts'.strayed => ~posts.strayed /\ params.offset = 0
    BY <1>5 DEF NewsSearched, NewsTypeOK
  <2>3. params'.limit = params.limit
    BY <2>1 DEF IsQuery
  <2>4. NewsTypeOK'
    BY <1>3, <2>1, <2>2, <2>3 DEF NewsTypeOK
  <2>5. ~NewsFailed(shown') => PageAsAsked'
    <3> SUFFICES ASSUME ~NewsFailed(shown), ~posts'.strayed
                 PROVE  posts'.currentPage = 1 /\ params'.offset = (1 - 1) * params'.limit
      BY <1>3 DEF PageAsAsked, NewsFailed
    <3>1. 0 = (posts.currentPage - 1) * params.limit
      BY <2>2 DEF PageAsAsked
    <3>2. posts.currentPage = 1
      <4>1. SUFFICES ASSUME posts.currentPage - 1 \in Nat \ {0} PROVE FALSE
        BY DEF NewsTypeOK
      <4>2. QED
        BY <1>3, <3>1, <4>1, NoZeroProduct
    <3>3. QED
      BY <1>3, <2>1, <2>2, <2>3, <3>2
  <2>6. QED
    BY <2>4, <2>5 DEF NewsInv
<1>6. QED
  BY <1>4, <1>5 DEF NewsStep

(* The invariant of the news is inductive. *)
LEMMA NewsInvStep ==
  ASSUME NewsInv, [Next]_vars
  PROVE  NewsInv'
<1>1. hook' = hook /\ (mounted' => mounted)
  <2>1. CASE \E f \in fetches : (\E p : Answer(f, p)) \/ Fail(f)
    <3>1. UNCHANGED <<hook, mounted>>
      BY <2>1 DEF Answer, Fail, Receive
    <3>2. QED
      BY <3>1
  <2>2. CASE RunEffect \/ Unmount \/ UNCHANGED <<hook, mounted, effect, fetches, shown>>
    BY <2>2 DEF RunEffect, Unmount
  <2>3. QED
    BY <2>1, <2>2, PageStep DEF HookStep
<1>2. CASE ~IsNews
  BY <1>1, <1>2 DEF NewsInv, IsNews
<1>3. CASE IsNews
  <2>1. HookInv /\ HookInv'
    BY <1>3, NewsHook, PageStep, HookInvStep DEF NewsInv, HookInv, HookTypeOK
  <2>2. CASE ~mounted
    BY <1>1, <2>1, <2>2 DEF NewsInv
  <2>3. CASE mounted
    <3>1. NewsTypeOK /\ (~NewsFailed(shown) => PageAsAsked)
      BY <1>3, <2>3 DEF NewsInv
    <3>2. ~IsTable /\ ~IsGraph /\ ~IsForm /\ ~IsPlaybook /\ ~IsPosts /\ ~IsPolicy /\ IsPage
      BY <1>3 DEF IsNews, IsTable, IsGraph, IsForm, IsPlaybook, IsPosts, IsPolicy, IsPage
    <3>3. CASE UNCHANGED <<hookVars, posts>>
      BY <2>1, <3>1, <3>3 DEF hookVars, NewsInv, NewsTypeOK, PageAsAsked, NewsFailed, calcTotalItems
    <3>4. CASE EffectRuns
      BY <1>3, <2>1, <2>3, <3>1, <3>4, NewsAsked
    <3>5. CASE WidgetGone
      BY <2>1, <3>5 DEF WidgetGone, Unmount, NewsInv
    <3>6. CASE FetchEnds
      BY <1>3, <2>1, <2>3, <3>1, <3>6, NewsAnswered, NewsFailure DEF FetchEnds
    <3>7. CASE NewsStep
      BY <1>3, <2>1, <3>1, <3>7, NewsTurned
    <3>8. CASE \/ \E url \in Urls, hash \in Hashes : Navigate(url, hash)
               \/ Rerender
      BY <1>3, <2>1, <2>3, <3>1, <3>8, NewsRenderedAgain DEF Navigate, Rerender, Rendered
    <3>9. CASE TimerFires
      <4>1. CASE UNCHANGED <<hookVars, contents>>
        BY <3>3, <4>1 DEF contents
      <4>2. CASE \E n : Rendered(n, params.url, Absent)
        BY <1>3, <2>1, <2>3, <3>1, <4>2, NewsRenderedAgain DEF Rendered
      <4>3. QED
        BY <3>9, <4>1, <4>2 DEF TimerFires
    <3>10. CASE ChangeChannel \/ UNCHANGED vars
      BY <3>3, <3>10 DEF ChangeChannel, contents, vars, views
    <3>11. QED
      BY <3>2, <3>4, <3>5, <3>6, <3>7, <3>8, <3>9, <3>10
      DEF Next, OtherParams, TableStep, GraphStep, FormStep, ChannelAdded, PlaybookStep,
          PostsStep, PolicyStep, PolicyServed
  <2>4. QED
    BY <2>2, <2>3
<1>4. QED
  BY <1>2, <1>3

(* The page of the news that is marked as current is the one that was      *)
(* asked for.                                                              *)
THEOREM NewsPageFitsTheorem == Spec => []NewsPageFits
<1>1. ASSUME NewsInv PROVE NewsPageFits
  <2> SUFFICES ASSUME IsNews, mounted, ~NewsFailed(shown), ~posts.strayed
               PROVE  PageOnScreen(posts, calcTotalItems(shown), params.limit) = posts.currentPage
    BY <1>1 DEF NewsInv, PageAsAsked, NewsPageFits
  <2>1. NewsTypeOK /\ PageAsAsked
    BY <1>1 DEF NewsInv
  <2> DEFINE last == PageOfPost(calcTotalItems(shown), params.limit)
  <2>2. posts.currentPage \in Nat \ {0} /\ params.limit \in Nat \ {0}
    BY <2>1 DEF NewsTypeOK, IsQuery
  <2>3. calcTotalItems(shown) \in Nat \ {0}
    <3>1. CASE shown = <<>>
      BY <3>1 DEF calcTotalItems
    <3>2. CASE shown # <<>>
      <4>1. PICK S : NewsFor[Last(shown).params.search] \in Seq(S)
        BY <2>1, <3>2, PostsAssumption DEF NewsTypeOK, IsQuery
      <4>2. Len(NewsFor[Last(shown).params.search]) \in Nat
        BY <4>1
      <4>3. QED
        <5> DEFINE n == Len(NewsFor[Last(shown).params.search])
        <5> HIDE DEF n
        <5>1. n \in Int /\ 1 \in Int /\ calcTotalItems(shown) = Max({1, n})
          BY <3>2, <4>2 DEF calcTotalItems, n
        <5>2. Max({1, n}) = IF 1 <= n THEN n ELSE 1
          BY <5>1, OfTwo
        <5>3. QED
          BY <5>1, <5>2
    <3>3. QED
      BY <3>1, <3>2
  <2>4. last \in Nat \ {0}
    BY <2>2, <2>3, PageType
  <2> HIDE DEF last
  <2>5. Max({1, last}) = last
    BY <2>4, OfTwo
  <2>6. posts.currentPage <= last
    BY <2>1, <2>2, <2>4 DEF PageAsAsked, last
  <2>7. Min({posts.currentPage, last}) = posts.currentPage
    BY <2>2, <2>4, <2>6, OfTwo
  <2>8. QED
    BY <2>5, <2>7 DEF PageOnScreen, last
<1>2. NewsInv /\ [Next]_vars => NewsInv'
  BY NewsInvStep
<1>3. QED
  BY <1>1, <1>2, NewsInvInit, PTL DEF Spec

------------------------------------------------------------------------------
(* The part that a link names                                               *)

(* The only first item that a hash contains. *)
LEMMA FirstIsOnly ==
  ASSUME NEW n \in Nat, NEW ids, DOMAIN ids = 1 .. n, NEW hash,
         NEW k \in FirstContained(ids, hash)
  PROVE  /\ k \in 1 .. n /\ ids[k] \in ContainedIn[hash]
         /\ FirstContained(ids, hash) = {k}
         /\ Min(FirstContained(ids, hash)) = k
<1>1. k \in 1 .. n /\ ids[k] \in ContainedIn[hash] /\ FirstContained(ids, hash) \subseteq 1 .. n
  BY DEF FirstContained
<1>2. \A j \in FirstContained(ids, hash) : j = k
  BY <1>1 DEF FirstContained
<1>3. FirstContained(ids, hash) = {k}
  BY <1>2
<1>4. QED
  BY <1>1, <1>3 DEF Min

(* An item that a hash contains comes at or after the first one.  *)
LEMMA FirstIsBefore ==
  ASSUME NEW n \in Nat, NEW ids, DOMAIN ids = 1 .. n, NEW hash,
         NEW j \in 1 .. n, ids[j] \in ContainedIn[hash],
         NEW k \in FirstContained(ids, hash)
  PROVE  k <= j
<1>1. k \in 1 .. n /\ \A i \in 1 .. k - 1 : ids[i] \notin ContainedIn[hash]
  BY DEF FirstContained
<1>2. QED
  BY <1>1

(* The empty hash contains none. *)
LEMMA NoneInAbsent ==
  ASSUME NEW ids
  PROVE  FirstContained(ids, Absent) = {}
BY RowsAssumption DEF FirstContained

(* The page of the table, the page of the list and the selections are that *)
(* of the part a hash names, unless the user has chosen another one since. *)
TableFits(t, rows, hash) ==
  ~t.touched =>
    \A k \in FirstContained(rows, hash) : rows[k] = hash => t.currentPage = pageOf(k)

PostsFit(p, ids, hash) ==
  ~p.touched =>
    \A k \in FirstContained(ids, hash) :
      ids[k] = hash => p.currentPage = PageOfPost(k, POSTS_PER_PAGE)

PlaybookFits(p, parts, hash) ==
  ~p.touched => \A k \in FirstContained(parts, hash) : parts[k] \in {p.step, p.reference}

PartsOf(answers) == ReferencesOf(answers) \o WorkflowOf(answers)

TableFields == {"currentPage", "same", "filteredRows", "seen", "sorter", "touched"}
PostsFields == {"currentPage", "seen", "touched", "strayed"}
PlaybookFields == {"step", "reference", "seen", "touched"}

(* A render keeps the page of the table right, if no other hash is looked  *)
(* at, and makes it right, if its effect looks at this one.                *)
LEMMA TableRenderFits ==
  ASSUME NEW t, DOMAIN t = TableFields, NEW n \in Nat, NEW rows, DOMAIN rows = 1 .. n,
         NEW link, NEW urlHash \in {link, Absent}, NEW changed,
         TableFits(t, rows, link) \/ (changed /\ urlHash = link)
  PROVE  TableFits(TableRendered(t, rows, urlHash, changed), rows, link)
<1> DEFINE new == TableRendered(t, rows, urlHash, changed)
<1> SUFFICES ASSUME ~new.touched, NEW k \in FirstContained(rows, link), rows[k] = link
             PROVE  new.currentPage = pageOf(k)
  BY DEF TableFits
<1>1. FirstContained(rows, link) = {k} /\ Min(FirstContained(rows, link)) = k
  BY FirstIsOnly
<1>2. CASE FirstContained(rows, urlHash) # {} /\ (changed \/ urlHash # t.seen)
  <2>1. urlHash = link
    BY <1>2, NoneInAbsent
  <2>2. new.currentPage = pageOf(Min(FirstContained(rows, urlHash)))
    BY <1>2 DEF TableRendered, TableFields
  <2>3. QED
    BY <1>1, <2>1, <2>2
<1>3. CASE ~(FirstContained(rows, urlHash) # {} /\ (changed \/ urlHash # t.seen))
  <2>1. new = [t EXCEPT !.seen = urlHash]
    BY <1>3 DEF TableRendered
  <2>2. new.touched = t.touched /\ new.currentPage = t.currentPage
    BY <2>1 DEF TableFields
  <2>3. TableFits(t, rows, link)
    BY <1>1, <1>3
  <2>4. QED
    BY <2>2, <2>3 DEF TableFits
<1>4. QED
  BY <1>2, <1>3

(* A render of the table leaves alone which rows it lists. *)
LEMMA TableRenderSame ==
  ASSUME NEW t, DOMAIN t = TableFields, NEW rows, NEW urlHash, NEW changed
  PROVE  LET new == TableRendered(t, rows, urlHash, changed)
         IN DOMAIN new = TableFields /\ new.same = t.same
BY DEF TableRendered, TableFields

(* The same of the list of posts. *)
LEMMA PostsRenderFit ==
  ASSUME NEW p, DOMAIN p = PostsFields, NEW n \in Nat, NEW ids, DOMAIN ids = 1 .. n,
         NEW link, NEW urlHash \in {link, Absent}, NEW changed,
         PostsFit(p, ids, link) \/ (changed /\ urlHash = link)
  PROVE  PostsFit(PostsRendered(p, ids, urlHash, changed, POSTS_PER_PAGE), ids, link)
<1> DEFINE new == PostsRendered(p, ids, urlHash, changed, POSTS_PER_PAGE)
<1> SUFFICES ASSUME ~new.touched, NEW k \in FirstContained(ids, link), ids[k] = link
             PROVE  new.currentPage = PageOfPost(k, POSTS_PER_PAGE)
  BY DEF PostsFit
<1>1. FirstContained(ids, link) = {k} /\ Min(FirstContained(ids, link)) = k
  BY FirstIsOnly
<1>2. CASE TurnsPage(p, ids, urlHash, changed)
  <2>1. urlHash = link
    BY <1>2, NoneInAbsent DEF TurnsPage
  <2>2. new.currentPage = PageOfPost(Min(FirstContained(ids, urlHash)), POSTS_PER_PAGE)
    BY <1>2 DEF PostsRendered, NewPosts
  <2>3. QED
    BY <1>1, <2>1, <2>2
<1>3. CASE ~TurnsPage(p, ids, urlHash, changed)
  <2>1. new = [p EXCEPT !.seen = urlHash]
    BY <1>3 DEF PostsRendered
  <2>2. new.touched = p.touched /\ new.currentPage = p.currentPage
    BY <2>1 DEF PostsFields
  <2>3. PostsFit(p, ids, link)
    BY <1>1, <1>3 DEF TurnsPage
  <2>4. QED
    BY <2>2, <2>3 DEF PostsFit
<1>4. QED
  BY <1>2, <1>3

LEMMA PostsRenderType ==
  ASSUME NEW p, DOMAIN p = PostsFields, NEW ids, NEW urlHash, NEW changed, NEW perPage
  PROVE  DOMAIN PostsRendered(p, ids, urlHash, changed, perPage) = PostsFields
BY DEF PostsRendered, PostsFields, NewPosts

(* The first of the references and then the steps that a hash contains.    *)
LEMMA FirstOfBoth ==
  ASSUME NEW S, NEW refs \in Seq(S), NEW steps \in Seq(S), NEW hash,
         NEW k \in FirstContained(refs \o steps, hash)
  PROVE  \/ /\ FirstContained(refs, hash) # {}
            /\ (refs \o steps)[k] = refs[Min(FirstContained(refs, hash))]
         \/ /\ FirstContained(refs, hash) = {}
            /\ FirstContained(steps, hash) # {}
            /\ (refs \o steps)[k] = steps[Min(FirstContained(steps, hash))]
<1> DEFINE m == Len(refs)
           n == Len(steps)
           both == refs \o steps
<1>1. /\ m \in Nat /\ n \in Nat /\ DOMAIN refs = 1 .. m /\ DOMAIN steps = 1 .. n
      /\ DOMAIN both = 1 .. m + n
      /\ \A i \in 1 .. m : both[i] = refs[i]
      /\ \A i \in 1 .. n : both[m + i] = steps[i]
  OBVIOUS
<1> HIDE DEF m, n, both
<1>2. /\ k \in 1 .. m + n /\ both[k] \in ContainedIn[hash]
      /\ \A i \in 1 .. k - 1 : both[i] \notin ContainedIn[hash]
  BY <1>1 DEF FirstContained, both
<1>3. CASE k <= m
  <2>1. k \in 1 .. m /\ both[k] = refs[k]
    BY <1>1, <1>2, <1>3
  <2>2. ASSUME NEW i \in 1 .. k - 1
        PROVE  refs[i] \notin ContainedIn[hash]
    <3>1. i \in 1 .. m /\ both[i] = refs[i]
      BY <1>1, <2>1
    <3>2. QED
      BY <1>2, <3>1
  <2>3. k \in FirstContained(refs, hash)
    BY <1>1, <1>2, <2>1, <2>2 DEF FirstContained
  <2>4. Min(FirstContained(refs, hash)) = k
    BY <1>1, <2>3, FirstIsOnly
  <2>5. QED
    BY <2>1, <2>3, <2>4 DEF both
<1>4. CASE ~(k <= m)
  <2> DEFINE j == k - m
  <2>1. j \in 1 .. n /\ k = m + j /\ both[k] = steps[j]
    <3>1. m \in Nat /\ n \in Nat /\ k \in 1 .. m + n
      BY <1>1, <1>2
    <3>2. j \in 1 .. n /\ k = m + j
      BY <1>4, <3>1
    <3> HIDE DEF j
    <3>3. both[m + j] = steps[j]
      BY <1>1, <3>2
    <3>4. QED
      BY <3>2, <3>3
  <2>2. FirstContained(refs, hash) = {}
    <3> SUFFICES ASSUME NEW i \in FirstContained(refs, hash) PROVE FALSE
      OBVIOUS
    <3>1. i \in 1 .. m /\ refs[i] \in ContainedIn[hash]
      BY <1>1 DEF FirstContained
    <3>2. i \in 1 .. k - 1
      BY <1>1, <1>2, <1>4, <3>1
    <3>3. QED
      BY <1>1, <1>2, <3>1, <3>2
  <2> HIDE DEF j
  <2>3. ASSUME NEW i \in 1 .. j - 1
        PROVE  steps[i] \notin ContainedIn[hash]
    <3>1. i \in 1 .. n /\ m + i \in 1 .. k - 1
      BY <1>1, <2>1
    <3>2. QED
      BY <1>1, <1>2, <3>1
  <2>4. j \in FirstContained(steps, hash)
    BY <1>1, <1>2, <2>1, <2>3 DEF FirstContained
  <2>5. Min(FirstContained(steps, hash)) = j
    BY <1>1, <2>4, FirstIsOnly
  <2>6. QED
    BY <2>1, <2>2, <2>4, <2>5 DEF both
<1>5. QED
  BY <1>3, <1>4

(* Both parts of a playbook are sequences. *)
AreParts(answers) ==
  \E S : ReferencesOf(answers) \in Seq(S) /\ WorkflowOf(answers) \in Seq(S)

(* The effect of the hash selects the part it names, if there is one. *)
LEMMA HashSelectsFits ==
  ASSUME NEW p, DOMAIN p = PlaybookFields, NEW answers, AreParts(answers), NEW urlHash
  PROVE  LET new == HashSelects(p, answers, urlHash)
         IN /\ DOMAIN new = PlaybookFields
            /\ new.seen = p.seen
            /\ PlaybookFits(new, PartsOf(answers), urlHash)
            /\ urlHash = Absent => new = p
<1> DEFINE refs == ReferencesOf(answers)
           steps == WorkflowOf(answers)
           new == HashSelects(p, answers, urlHash)
<1>1. PICK S : refs \in Seq(S) /\ steps \in Seq(S)
  BY DEF AreParts
<1>2. CASE FirstContained(refs, urlHash) # {}
  <2>1. new = [p EXCEPT !.reference = refs[Min(FirstContained(refs, urlHash))],
                        !.touched = FALSE]
    BY <1>2 DEF HashSelects
  <2>2. DOMAIN new = PlaybookFields /\ new.seen = p.seen
        /\ new.reference = refs[Min(FirstContained(refs, urlHash))]
    BY <2>1 DEF PlaybookFields
  <2>3. PlaybookFits(new, PartsOf(answers), urlHash)
    BY <1>1, <1>2, <2>2, FirstOfBoth DEF PlaybookFits, PartsOf
  <2>4. QED
    BY <1>2, <2>2, <2>3, NoneInAbsent
<1>3. CASE FirstContained(refs, urlHash) = {} /\ FirstContained(steps, urlHash) # {}
  <2>1. new = [p EXCEPT !.step = steps[Min(FirstContained(steps, urlHash))], !.touched = FALSE]
    BY <1>3 DEF HashSelects
  <2>2. DOMAIN new = PlaybookFields /\ new.seen = p.seen
        /\ new.step = steps[Min(FirstContained(steps, urlHash))]
    BY <2>1 DEF PlaybookFields
  <2>3. PlaybookFits(new, PartsOf(answers), urlHash)
    <3> HIDE DEF refs, steps, new
    <3>1. ASSUME NEW k \in FirstContained(refs \o steps, urlHash)
          PROVE  (refs \o steps)[k] = steps[Min(FirstContained(steps, urlHash))]
      <4>1. \/ /\ FirstContained(refs, urlHash) # {}
               /\ (refs \o steps)[k] = refs[Min(FirstContained(refs, urlHash))]
            \/ /\ FirstContained(refs, urlHash) = {}
               /\ FirstContained(steps, urlHash) # {}
               /\ (refs \o steps)[k] = steps[Min(FirstContained(steps, urlHash))]
        BY <1>1, <3>1, FirstOfBoth
      <4>2. QED
        BY <1>3, <4>1
    <3>2. QED
      BY <2>2, <3>1 DEF PlaybookFits, PartsOf, refs, steps
  <2>4. QED
    BY <1>3, <2>2, <2>3, NoneInAbsent
<1>4. CASE FirstContained(refs, urlHash) = {} /\ FirstContained(steps, urlHash) = {}
  <2>1. new = p
    BY <1>4 DEF HashSelects
  <2>2. QED
    BY <1>1, <1>4, <2>1, FirstOfBoth DEF PlaybookFits, PartsOf
<1>5. QED
  BY <1>2, <1>3, <1>4

(* A render of the playbook has the part selected that the last hash names,*)
(* and keeps any other one as long as no answer or other hash comes.       *)
LEMMA PlaybookRenderFits ==
  ASSUME NEW p, DOMAIN p = PlaybookFields, NEW answers, AreParts(answers), NEW urlHash,
         NEW answered \in BOOLEAN,
         ~answered => PlaybookFits(p, PartsOf(answers), p.seen)
  PROVE  LET new == PlaybookRendered(p, answers, urlHash, answered)
         IN /\ DOMAIN new = PlaybookFields
            /\ new.seen = urlHash
            /\ PlaybookFits(new, PartsOf(answers), urlHash)
            /\ \A link : /\ urlHash \in {link, Absent}
                         /\ ~answered => PlaybookFits(p, PartsOf(answers), link)
                         => PlaybookFits(new, PartsOf(answers), link)
<1> DEFINE reset == IF answered THEN PlaybookReset(p, answers) ELSE p
           kept == [reset EXCEPT !.seen = urlHash]
           new == PlaybookRendered(p, answers, urlHash, answered)
<1>1. /\ DOMAIN kept = PlaybookFields /\ kept.seen = urlHash
      /\ answered => kept.touched
      /\ ~answered => kept.touched = p.touched /\ kept.step = p.step /\ kept.reference = p.reference
  BY DEF PlaybookReset, PlaybookFields
<1>2. new = IF urlHash = p.seen THEN kept ELSE HashSelects(kept, answers, urlHash)
  BY DEF PlaybookRendered
<1> HIDE DEF kept, new
<1>3. ASSUME NEW link, ~answered => PlaybookFits(p, PartsOf(answers), link)
      PROVE  PlaybookFits(kept, PartsOf(answers), link)
  BY <1>1, <1>3 DEF PlaybookFits
<1>4. CASE urlHash = p.seen
  <2>1. new = kept
    BY <1>2, <1>4
  <2>2. PlaybookFits(kept, PartsOf(answers), urlHash)
    BY <1>3, <1>4
  <2>3. QED
    BY <1>1, <1>3, <2>1, <2>2 DEF new
<1>5. CASE urlHash # p.seen
  <2>1. /\ DOMAIN new = PlaybookFields /\ new.seen = urlHash
        /\ PlaybookFits(new, PartsOf(answers), urlHash)
        /\ urlHash = Absent => new = kept
    BY <1>1, <1>2, <1>5, HashSelectsFits
  <2>2. ASSUME NEW link, urlHash \in {link, Absent},
               ~answered => PlaybookFits(p, PartsOf(answers), link)
        PROVE  PlaybookFits(new, PartsOf(answers), link)
    <3>1. PlaybookFits(kept, PartsOf(answers), link)
      BY <1>3, <2>2
    <3>2. QED
      BY <2>1, <2>2, <3>1
  <2>3. QED
    BY <2>1, <2>2 DEF new
<1>6. QED
  BY <1>4, <1>5

(* The rows of a table, one answer after the other: an induction over sets *)
(* of numbers.                                                             *)

(* A set of numbers that has 0 and the successor of each has them all. *)
LEMMA Induction ==
  ASSUME NEW T, 0 \in T, \A n \in Nat : n \in T => n + 1 \in T
  PROVE  Nat \subseteq T
<1>1. SUFFICES ASSUME Nat \ T # {} PROVE FALSE
  OBVIOUS
<1>2. PICK n \in Nat \ T : \A m \in Nat \ T : ~(m < n)
  <2> DEFINE U == Nat \ T
  <2>1. U \subseteq Nat /\ U # {}
    BY <1>1
  <2>2. IsWellFoundedOn(OpToRel(<, Nat), Nat)
    BY NatLessThanWellFounded, Zenon
  <2>3. \E n \in U : \A m \in U : <<m, n>> \notin OpToRel(<, Nat)
    BY <2>1, <2>2, WFMin, Zenon
  <2>4. QED
    BY <2>1, <2>3 DEF OpToRel
<1>3. n - 1 \in Nat /\ n - 1 \in T
  BY <1>2
<1>4. QED
  BY <1>2, <1>3

(* FlattenSeq computes, for every number i, the first i sequences in one.  *)
Flattens(flat, seqs) ==
  flat = [i \in 1 .. Len(seqs) |-> IF i = 1 THEN seqs[i] ELSE flat[i - 1] \o seqs[i]]

(* What the recursive definition stands for. *)
LEMMA FlattenSeqIs ==
  ASSUME NEW seqs, Len(seqs) # 0
  PROVE  FlattenSeq(seqs) = (CHOOSE flat : Flattens(flat, seqs))[Len(seqs)]
BY DEF FlattenSeq, Flattens

(* The same up to the sequence m. *)
FlattensUpTo(flat, seqs, m) ==
  /\ DOMAIN flat = 1 .. m
  /\ \A i \in 1 .. m : flat[i] = IF i = 1 THEN seqs[i] ELSE flat[i - 1] \o seqs[i]

(* There is such a function: the recursion is well-founded. *)
LEMMA SomeFlatten ==
  ASSUME NEW seqs, Len(seqs) \in Nat
  PROVE  FlattensUpTo(CHOOSE flat : Flattens(flat, seqs), seqs, Len(seqs))
<1> DEFINE T == {m \in Nat : \E flat : FlattensUpTo(flat, seqs, m)}
<1>1. 0 \in T
  <2>1. FlattensUpTo([i \in 1 .. 0 |-> <<>>], seqs, 0)
    BY DEF FlattensUpTo
  <2>2. QED
    BY <2>1
<1>2. ASSUME NEW m \in Nat, m \in T PROVE m + 1 \in T
  <2>1. PICK flat : FlattensUpTo(flat, seqs, m)
    BY <1>2
  <2> DEFINE last == IF m + 1 = 1 THEN seqs[m + 1] ELSE flat[m] \o seqs[m + 1]
             more == [i \in 1 .. m + 1 |-> IF i = m + 1 THEN last ELSE flat[i]]
  <2>2. /\ DOMAIN more = 1 .. m + 1 /\ more[m + 1] = last
        /\ \A i \in 1 .. m : more[i] = flat[i]
    <3>1. m + 1 \in 1 .. m + 1 /\ \A i \in 1 .. m : i \in 1 .. m + 1 /\ i # m + 1
      OBVIOUS
    <3> HIDE DEF last
    <3>2. QED
      BY <3>1
  <2> HIDE DEF more
  <2>3. ASSUME NEW i \in 1 .. m + 1
        PROVE  more[i] = IF i = 1 THEN seqs[i] ELSE more[i - 1] \o seqs[i]
    <3>1. CASE i = m + 1
      <4>1. CASE i = 1
        BY <2>2, <3>1, <4>1
      <4>2. CASE i # 1
        <5>1. m \in 1 .. m /\ i - 1 = m /\ more[m] = flat[m]
          BY <2>2, <3>1, <4>2
        <5>2. QED
          BY <2>2, <3>1, <4>2, <5>1
      <4>3. QED
        BY <4>1, <4>2
    <3>2. CASE i # m + 1
      <4>1. i \in 1 .. m /\ more[i] = flat[i]
        BY <2>2, <3>2
      <4>2. CASE i = 1
        BY <2>1, <4>1, <4>2 DEF FlattensUpTo
      <4>3. CASE i # 1
        <5>1. i - 1 \in 1 .. m /\ more[i - 1] = flat[i - 1]
          BY <2>2, <4>1, <4>3
        <5>2. QED
          BY <2>1, <4>1, <4>3, <5>1 DEF FlattensUpTo
      <4>4. QED
        BY <4>2, <4>3
    <3>3. QED
      BY <3>1, <3>2
  <2>4. FlattensUpTo(more, seqs, m + 1)
    BY <2>2, <2>3 DEF FlattensUpTo
  <2>5. QED
    BY <2>4
<1>3. Len(seqs) \in T
  <2> HIDE DEF T
  <2>1. Nat \subseteq T
    BY <1>1, <1>2, Induction
  <2>2. QED
    BY <2>1
<1>4. PICK flat : FlattensUpTo(flat, seqs, Len(seqs))
  BY <1>3
<1> DEFINE g == [i \in 1 .. Len(seqs) |-> flat[i]]
<1>5. ASSUME NEW i \in 1 .. Len(seqs)
      PROVE  g[i] = IF i = 1 THEN seqs[i] ELSE g[i - 1] \o seqs[i]
  <2>1. CASE i = 1
    BY <1>4, <2>1 DEF FlattensUpTo
  <2>2. CASE i # 1
    <3>1. i - 1 \in 1 .. Len(seqs) /\ g[i - 1] = flat[i - 1] /\ g[i] = flat[i]
      BY <2>2
    <3>2. QED
      BY <1>4, <2>2, <3>1 DEF FlattensUpTo
  <2>3. QED
    BY <2>1, <2>2
<1>6. Flattens(g, seqs)
  BY <1>5 DEF Flattens
<1> DEFINE c == CHOOSE f : Flattens(f, seqs)
<1>7. Flattens(c, seqs)
  BY <1>6
<1> HIDE DEF c
<1>8. FlattensUpTo(c, seqs, Len(seqs))
  BY <1>7 DEF Flattens, FlattensUpTo
<1>9. QED
  BY <1>8 DEF c

(* Where the sequences agree, what they are flattened to does, and it is   *)
(* one. *)
LEMMA FlattensAgree ==
  ASSUME NEW S, NEW m \in Nat, NEW n \in Nat, m <= n, NEW f, NEW g, NEW s, NEW t,
         FlattensUpTo(f, s, m), FlattensUpTo(g, t, n),
         \A i \in 1 .. m : s[i] = t[i] /\ s[i] \in Seq(S)
  PROVE  \A i \in 1 .. m : f[i] = g[i] /\ f[i] \in Seq(S)
<1> DEFINE T == {i \in Nat : i \in 1 .. m => f[i] = g[i] /\ f[i] \in Seq(S)}
<1>1. 0 \in T
  OBVIOUS
<1>2. ASSUME NEW i \in Nat, i \in T PROVE i + 1 \in T
  <2> SUFFICES ASSUME i + 1 \in 1 .. m
               PROVE  f[i + 1] = g[i + 1] /\ f[i + 1] \in Seq(S)
    OBVIOUS
  <2>1. i + 1 \in 1 .. n /\ s[i + 1] = t[i + 1] /\ s[i + 1] \in Seq(S)
    OBVIOUS
  <2>2. /\ f[i + 1] = IF i + 1 = 1 THEN s[i + 1] ELSE f[(i + 1) - 1] \o s[i + 1]
        /\ g[i + 1] = IF i + 1 = 1 THEN t[i + 1] ELSE g[(i + 1) - 1] \o t[i + 1]
    BY <2>1 DEF FlattensUpTo
  <2>3. CASE i = 0
    BY <2>1, <2>2, <2>3
  <2>4. CASE i # 0
    <3>1. (i + 1) - 1 = i /\ i \in 1 .. m /\ i + 1 # 1
      BY <2>4
    <3>2. f[i] = g[i] /\ f[i] \in Seq(S)
      BY <1>2, <3>1
    <3>3. f[i + 1] = f[i] \o s[i + 1] /\ g[i + 1] = g[i] \o t[i + 1]
      BY <2>2, <3>1
    <3>4. f[i] \o s[i + 1] \in Seq(S)
      BY <2>1, <3>2
    <3>5. QED
      BY <2>1, <3>2, <3>3, <3>4
  <2>5. QED
    BY <2>3, <2>4
<1>3. QED
  <2> HIDE DEF T
  <2>1. Nat \subseteq T
    BY <1>1, <1>2, Induction
  <2>2. QED
    BY <2>1 DEF T

(* One more sequence comes after those before. *)
LEMMA FlattenAppend ==
  ASSUME NEW S, NEW seqs \in Seq(Seq(S)), NEW more \in Seq(S)
  PROVE  /\ FlattenSeq(seqs) \in Seq(S)
         /\ FlattenSeq(Append(seqs, more)) = FlattenSeq(seqs) \o more
<1> DEFINE all == Append(seqs, more)
           m == Len(seqs)
           f == CHOOSE flat : Flattens(flat, seqs)
           g == CHOOSE flat : Flattens(flat, all)
<1>1. /\ m \in Nat /\ Len(all) = m + 1 /\ all[m + 1] = more
      /\ \A i \in 1 .. m : all[i] = seqs[i] /\ seqs[i] \in Seq(S)
      /\ m = 0 => seqs = <<>>
  OBVIOUS
<1> HIDE DEF all, m
<1>2. FlattensUpTo(f, seqs, m) /\ FlattensUpTo(g, all, m + 1)
  BY <1>1, SomeFlatten DEF m
<1>3. FlattenSeq(all) = g[m + 1]
  BY <1>1, FlattenSeqIs
<1>4. CASE m = 0
  <2>1. FlattenSeq(seqs) = <<>>
    BY <1>1, <1>4 DEF FlattenSeq, m
  <2>2. g[m + 1] = more
    BY <1>1, <1>2, <1>4 DEF FlattensUpTo
  <2>3. <<>> \o more = more /\ <<>> \in Seq(S)
    OBVIOUS
  <2>4. QED
    BY <1>3, <2>1, <2>2, <2>3 DEF all
<1>5. CASE m # 0
  <2>1. FlattenSeq(seqs) = f[m]
    BY <1>5, FlattenSeqIs DEF m
  <2> HIDE DEF f, g
  <2>2. f[m] = g[m] /\ f[m] \in Seq(S)
    <3>1. /\ m \in Nat /\ m + 1 \in Nat /\ m <= m + 1 /\ m \in 1 .. m
          /\ \A i \in 1 .. m : seqs[i] = all[i] /\ seqs[i] \in Seq(S)
      BY <1>1, <1>5
    <3>2. \A i \in 1 .. m : f[i] = g[i] /\ f[i] \in Seq(S)
      BY <1>2, <3>1, FlattensAgree
    <3>3. QED
      BY <3>1, <3>2
  <2>3. g[m + 1] = g[m] \o more
    <3>1. m + 1 \in 1 .. m + 1 /\ m + 1 # 1 /\ (m + 1) - 1 = m
      BY <1>1, <1>5
    <3>2. g[m + 1] = g[(m + 1) - 1] \o all[m + 1]
      BY <1>2, <3>1 DEF FlattensUpTo
    <3>3. QED
      BY <1>1, <3>1, <3>2
  <2>4. QED
    BY <1>3, <2>1, <2>2, <2>3 DEF all
<1>6. QED
  BY <1>4, <1>5

(* What was answered is from the urls there are. *)
AreAnswers(answers) ==
  /\ \E S : answers \in Seq(S)
  /\ \A i \in DOMAIN answers : answers[i].params.url \in Urls

(* The rows of another answer come after those there are. *)
LEMMA RowsOfMore ==
  ASSUME NEW answers, AreAnswers(answers), NEW answer, answer.params.url \in Urls
  PROVE  \E S : /\ RowsOf(answers) \in Seq(S)
                /\ RowsAt[answer.params.url] \in Seq(S)
                /\ RowsOf(Append(answers, answer)) = RowsOf(answers) \o RowsAt[answer.params.url]
<1> DEFINE S == UNION {Range(RowsAt[u]) : u \in Urls}
           Rows(as) == [i \in DOMAIN as |-> RowsAt[as[i].params.url]]
           more == RowsAt[answer.params.url]
<1>1. ASSUME NEW u \in Urls PROVE RowsAt[u] \in Seq(S)
  <2>1. RowsAt[u] \in Seq(Range(RowsAt[u])) /\ Range(RowsAt[u]) \subseteq S
    BY RowsAssumption DEF Urls
  <2>2. QED
    BY <2>1
<1>2. PICK A : answers \in Seq(A)
  BY DEF AreAnswers
<1>3. /\ Len(answers) \in Nat /\ DOMAIN answers = 1 .. Len(answers)
      /\ DOMAIN Append(answers, answer) = 1 .. Len(answers) + 1
      /\ Append(answers, answer)[Len(answers) + 1] = answer
      /\ \A i \in 1 .. Len(answers) : Append(answers, answer)[i] = answers[i]
  BY <1>2
<1>4. Rows(answers) \in Seq(Seq(S)) /\ more \in Seq(S)
  <2> HIDE DEF S
  <2>1. \A i \in 1 .. Len(answers) : RowsAt[answers[i].params.url] \in Seq(S)
    BY <1>1, <1>3 DEF AreAnswers
  <2>2. QED
    BY <1>1, <1>3, <2>1
<1>5. Rows(Append(answers, answer)) = Append(Rows(answers), more)
  <2>1. Len(Rows(answers)) = Len(answers)
    BY <1>3
  <2> DEFINE l == Append(Rows(answers), more)
  <2>2. /\ DOMAIN l = 1 .. Len(answers) + 1 /\ l[Len(answers) + 1] = more
        /\ \A i \in 1 .. Len(answers) : l[i] = RowsAt[answers[i].params.url]
    BY <1>3, <1>4, <2>1
  <2>3. l = [i \in DOMAIN l |-> l[i]]
    <3>1. l \in Seq(Seq(S))
      <4> HIDE DEF S, Rows, more
      <4>1. QED
        BY <1>4
    <3> HIDE DEF l, S
    <3>2. QED
      BY <3>1
  <2> HIDE DEF l
  <2>4. \A i \in 1 .. Len(answers) + 1 :
          l[i] = RowsAt[Append(answers, answer)[i].params.url]
    BY <1>3, <2>2
  <2>5. QED
    BY <1>3, <2>2, <2>3, <2>4 DEF l
<1>6. QED
  <2> HIDE DEF S
  <2>1. /\ FlattenSeq(Rows(answers)) \in Seq(S)
        /\ FlattenSeq(Append(Rows(answers), more)) = FlattenSeq(Rows(answers)) \o more
    BY <1>4, FlattenAppend
  <2>2. QED
    BY <1>4, <1>5, <2>1 DEF RowsOf

HasParts == IsTable \/ IsPosts \/ IsPlaybook

(* The hooks of the widgets with parts. *)
LEMMA PartsHook ==
  ASSUME hook \in Hooks, HasParts
  PROVE  /\ hook.reads = {"url"} /\ hook.deps = {"url"} /\ hook.failure = "unhandled"
         /\ hook.merge = IF IsTable THEN "append" ELSE "replace"
         /\ hook # useChannelById
  BY HooksAssumption
  DEF DataHook, HasParts, IsTable, IsPosts, IsPlaybook, Hook, FetchingData, Fetching,
      useSectionInfo, useGraphData, useEcosystemGraphData, useTableData, useTextBoxData,
      useListData, useTimelineData, usePlaybookData, usePostData, useChartData,
      useExerciseData, usePolicyTemplateData, useBundleData, usePostsByIds,
      usePostsForTeam, useUserProps, useChannelsList, useAllUsersOptions,
      useSectionData, usePaginatedTableData, useNewsPostData, useChannelById

(* A widget is of one kind. *)
LEMMA OneKind ==
  ASSUME HasParts
  PROVE  /\ IsPage /\ ~IsGraph /\ ~IsForm /\ ~IsNews /\ ~IsPolicy
         /\ IsTable => ~IsPosts /\ ~IsPlaybook
         /\ IsPosts => ~IsPlaybook
BY DEF HasParts, IsPage, IsTable, IsPosts, IsPlaybook, IsGraph, IsForm, IsNews, IsPolicy

NavFields ==
  {"hash", "previousHash", "DOMReady", "timers", "link", "scrolled", "rushed", "missed"}

(* The hash of the url is the last link's, until a timer clears it; unless *)
(* there were timers of another link, all timers are those of the last     *)
(* one, and so is the previous hash once the hash is cleared.              *)
NavRight(n) ==
  /\ DOMAIN n = NavFields
  /\ \E S : n.timers \in Seq(S)
  /\ n.rushed \in BOOLEAN /\ n.missed \in BOOLEAN
  /\ n.hash # Absent => n.link = n.hash
  /\ n.link # Absent /\ ~n.rushed =>
       /\ \A i \in DOMAIN n.timers : n.timers[i] = n.link
       /\ n.hash = Absent => n.previousHash \in {n.link, Absent}

(* No timer fires, and clears the hash, before the effect has run. *)
NavOK == NavRight(nav) /\ (nav.hash = Absent /\ nav.link # Absent => ~EffectDue)

LinkTypeOK ==
  /\ \E u \in Urls : params = [url |-> u]
  /\ \A f \in fetches : f.params.url \in Urls
  /\ AreAnswers(shown)
  /\ IsTable => DOMAIN table = TableFields
  /\ IsPosts => DOMAIN posts = PostsFields
  /\ IsPlaybook => DOMAIN playbook = PlaybookFields

WidgetFits(t, po, pl, answers, hash) ==
  /\ IsTable /\ t.same => TableFits(t, RowsOf(answers), hash)
  /\ IsPosts => PostsFit(po, PostsOf(answers), hash)
  /\ IsPlaybook => PlaybookFits(pl, PartsOf(answers), hash)

(* The last link is followed: its hash is there, or was cleared by a timer *)
(* of its own that was not too early.                                      *)
Followed == nav.link # Absent /\ (nav.hash # Absent \/ (~nav.rushed /\ ~nav.missed))

(* The widget fits the last link that is followed.  Once its hash has been *)
(* cleared nothing but the previous hash may tell the effect of it: then   *)
(* the row is there, and posts are not about to be replaced.               *)
PartsOK ==
  /\ IsPlaybook => PlaybookFits(playbook, PartsOf(shown), playbook.seen)
  /\ Followed =>
       /\ WidgetFits(table, posts, playbook, shown, nav.link)
       /\ nav.hash = Absent =>
            /\ IsTable /\ table.same => nav.link \in Range(RowsOf(shown))
            /\ IsPosts => \A f \in fetches : f.isCanceled

LinkInv == HasParts => HookInv /\ (mounted => LinkTypeOK /\ NavOK /\ PartsOK)

(* What is shown is in sequences. *)
LEMMA AnswersAreParts ==
  ASSUME NEW answers, AreAnswers(answers), Urls # {}
  PROVE  /\ \E n \in Nat : DOMAIN RowsOf(answers) = 1 .. n /\ Len(RowsOf(answers)) = n
         /\ \E n \in Nat : DOMAIN PostsOf(answers) = 1 .. n /\ Len(PostsOf(answers)) = n
         /\ AreParts(answers)
<1>1. PICK u \in Urls : TRUE
  OBVIOUS
<1>2. PICK A : answers \in Seq(A)
  BY DEF AreAnswers
<1>3. \E n \in Nat : DOMAIN RowsOf(answers) = 1 .. n /\ Len(RowsOf(answers)) = n
  <2> DEFINE answer == [params |-> [url |-> u]]
  <2>1. answer.params.url \in Urls
    OBVIOUS
  <2>2. PICK S : RowsOf(answers) \in Seq(S)
    BY <2>1, RowsOfMore
  <2>3. QED
    BY <2>2
<1>4. CASE answers = <<>>
  <2>1. PostsOf(answers) = <<>> /\ ReferencesOf(answers) = <<>> /\ WorkflowOf(answers) = <<>>
    BY <1>4 DEF PostsOf, ReferencesOf, WorkflowOf
  <2>2. <<>> \in Seq({}) /\ DOMAIN <<>> = 1 .. 0 /\ 0 \in Nat
    OBVIOUS
  <2>3. \E n \in Nat : DOMAIN PostsOf(answers) = 1 .. n /\ Len(PostsOf(answers)) = n
    BY <2>1, <2>2
  <2>4. AreParts(answers)
    BY <2>1, <2>2 DEF AreParts
  <2>5. QED
    BY <1>3, <2>3, <2>4
<1>5. CASE answers # <<>>
  <2> DEFINE v == Last(answers).params.url
  <2>1. v \in Urls
    <3>1. Len(answers) \in DOMAIN answers
      BY <1>2, <1>5
    <3>2. QED
      BY <3>1 DEF AreAnswers, Last
  <2>2. /\ PostsOf(answers) = PostsAt[v] /\ ReferencesOf(answers) = ReferencesAt[v]
        /\ WorkflowOf(answers) = WorkflowAt[v]
    BY <1>5 DEF PostsOf, ReferencesOf, WorkflowOf
  <2> HIDE DEF v
  <2>3. PostsAt[v] \in Seq(Range(PostsAt[v]))
    BY <2>1, PostsAssumption DEF Urls
  <2>4. /\ WorkflowAt[v] \in Seq(Range(WorkflowAt[v]))
        /\ ReferencesAt[v] \in Seq(Range(ReferencesAt[v]))
    BY <2>1, PlaybookAssumption DEF Urls
  <2> DEFINE S == Range(WorkflowAt[v]) \cup Range(ReferencesAt[v])
  <2>5. WorkflowAt[v] \in Seq(S) /\ ReferencesAt[v] \in Seq(S)
    BY <2>4
  <2>6. \E n \in Nat : DOMAIN PostsOf(answers) = 1 .. n /\ Len(PostsOf(answers)) = n
    BY <2>2, <2>3
  <2>7. QED
    BY <1>3, <2>2, <2>5, <2>6 DEF AreParts
<1>6. QED
  BY <1>4, <1>5

(* A render of the page keeps the widget fit for the last link, or makes   *)
(* it fit.                                                                 *)
LEMMA RenderFits ==
  ASSUME hook \in Hooks, HasParts, LinkTypeOK, NEW n, NEW hash, NEW answers, AreAnswers(answers),
         NEW answered \in BOOLEAN, WidgetRendered(n, hash, answers, answered),
         IsPlaybook /\ ~answered => PlaybookFits(playbook, PartsOf(answers), playbook.seen)
  PROVE  LET urlHash == useUrlHash(hash, n.previousHash)
             changed == answered \/ hash # n.hash
         IN /\ IsTable => DOMAIN table' = TableFields /\ table'.same = table.same
            /\ IsPosts => DOMAIN posts' = PostsFields
            /\ IsPlaybook => DOMAIN playbook' = PlaybookFields
            /\ IsPlaybook => PlaybookFits(playbook', PartsOf(answers), playbook'.seen)
            /\ \A link :
                 /\ urlHash \in {link, Absent}
                 /\ \/ changed /\ urlHash = link
                    \/ /\ IsTable /\ table.same => TableFits(table, RowsOf(answers), link)
                       /\ IsPosts => PostsFit(posts, PostsOf(answers), link)
                       /\ IsPlaybook /\ ~answered => PlaybookFits(playbook, PartsOf(answers), link)
                 => WidgetFits(table', posts', playbook', answers, link)
<1> DEFINE urlHash == useUrlHash(hash, n.previousHash)
           changed == answered \/ hash # n.hash
<1>1. /\ \E m \in Nat : DOMAIN RowsOf(answers) = 1 .. m
      /\ \E m \in Nat : DOMAIN PostsOf(answers) = 1 .. m
      /\ AreParts(answers)
  BY AnswersAreParts DEF LinkTypeOK
<1>2. CASE IsTable
  <2>1. table' = TableRendered(table, RowsOf(answers), urlHash, changed) /\ DOMAIN table = TableFields
    BY <1>2 DEF WidgetRendered, LinkTypeOK
  <2>2. ~IsPosts /\ ~IsPlaybook
    BY <1>2, OneKind
  <2> HIDE DEF urlHash, changed
  <2>3. DOMAIN table' = TableFields /\ table'.same = table.same
    BY <2>1, TableRenderSame
  <2>4. ASSUME NEW link, urlHash \in {link, Absent}, table'.same,
               \/ changed /\ urlHash = link
               \/ table.same => TableFits(table, RowsOf(answers), link)
        PROVE  TableFits(table', RowsOf(answers), link)
    BY <1>1, <2>1, <2>3, <2>4, TableRenderFits
  <2>5. QED
    BY <1>2, <2>2, <2>3, <2>4 DEF WidgetFits, urlHash, changed
<1>3. CASE IsPosts
  <2>1. ~IsTable /\ ~IsPlaybook /\ ~IsNews
    BY <1>3, OneKind
  <2>2. posts' = PostsRendered(posts, PostsOf(answers), urlHash, changed, POSTS_PER_PAGE)
        /\ DOMAIN posts = PostsFields
    <3>1. DOMAIN posts = PostsFields
      BY <1>3 DEF LinkTypeOK
    <3>2. posts' = PostsRendered(posts, PostsOf(answers), urlHash, changed, POSTS_PER_PAGE)
      BY <1>3, <2>1 DEF WidgetRendered
    <3>3. QED
      BY <3>1, <3>2
  <2> HIDE DEF urlHash, changed
  <2>3. DOMAIN posts' = PostsFields
    BY <2>2, PostsRenderType
  <2>4. ASSUME NEW link, urlHash \in {link, Absent},
               (changed /\ urlHash = link) \/ PostsFit(posts, PostsOf(answers), link)
        PROVE  PostsFit(posts', PostsOf(answers), link)
    BY <1>1, <2>2, <2>4, PostsRenderFit
  <2>5. QED
    BY <1>3, <2>1, <2>3, <2>4 DEF WidgetFits, urlHash, changed
<1>4. CASE IsPlaybook
  <2>1. ~IsTable /\ ~IsPosts
    BY <1>4, OneKind
  <2>2. playbook' = PlaybookRendered(playbook, answers, urlHash, answered)
        /\ DOMAIN playbook = PlaybookFields
    BY <1>4 DEF WidgetRendered, LinkTypeOK
  <2> HIDE DEF urlHash
  <2>3. /\ DOMAIN playbook' = PlaybookFields
        /\ playbook'.seen = urlHash
        /\ PlaybookFits(playbook', PartsOf(answers), urlHash)
        /\ \A link : /\ urlHash \in {link, Absent}
                     /\ ~answered => PlaybookFits(playbook, PartsOf(answers), link)
                     => PlaybookFits(playbook', PartsOf(answers), link)
    BY <1>1, <1>4, <2>2, PlaybookRenderFits
  <2>4. QED
    BY <1>4, <2>1, <2>3 DEF WidgetFits, urlHash
<1>5. QED
  BY <1>2, <1>3, <1>4 DEF HasParts

(* A render of the page arms a timer of the hash, or of the previous one.  *)
LEMMA NavRender ==
  ASSUME NEW n, DOMAIN n = NavFields, \E S : n.timers \in Seq(S), NEW hash
  PROVE  LET new == PageRendered(n, hash)
         IN /\ DOMAIN new = NavFields
            /\ \E S : new.timers \in Seq(S)
            /\ new.hash = hash /\ new.link = n.link
            /\ new.rushed = n.rushed /\ new.missed = n.missed
            /\ new.previousHash \in {n.previousHash, Absent}
            /\ \A i \in DOMAIN new.timers :
                 \/ i \in DOMAIN n.timers /\ new.timers[i] = n.timers[i]
                 \/ new.timers[i] = hash /\ hash # Absent
                 \/ new.timers[i] = n.previousHash /\ hash = Absent
<1> DEFINE ready == n.DOMReady \/ hash \in Elements
           previous == IF n.previousHash \in Elements THEN n.previousHash ELSE Absent
           target == useUrlHash(hash, previous)
           armed == ready /\ target # Absent /\ Scrolls(n, hash, ready)
           timers == IF armed THEN Append(n.timers, target) ELSE n.timers
           new == PageRendered(n, hash)
<1>1. new = [n EXCEPT !.hash = hash, !.DOMReady = ready, !.previousHash = previous,
                      !.timers = timers]
  BY DEF PageRendered
<1>2. /\ DOMAIN new = NavFields
      /\ new.hash = hash /\ new.link = n.link /\ new.rushed = n.rushed /\ new.missed = n.missed
      /\ new.previousHash = previous /\ new.timers = timers
  <2> HIDE DEF ready, previous, timers, new
  <2>1. QED
    BY <1>1 DEF NavFields
<1>3. previous \in {n.previousHash, Absent}
  OBVIOUS
<1>4. target # Absent =>
        \/ target = hash /\ hash # Absent
        \/ target = n.previousHash /\ hash = Absent
  BY DEF useUrlHash
<1>5. PICK S : n.timers \in Seq(S)
  OBVIOUS
<1>6. CASE armed
  <2>1. timers = Append(n.timers, target) /\ target # Absent
    BY <1>6
  <2> HIDE DEF target, timers, armed
  <2> DEFINE T == S \cup {target}
  <2>2. n.timers \in Seq(T)
    BY <1>5
  <2>3. /\ timers \in Seq(T)
        /\ \A i \in DOMAIN timers :
             (i \in DOMAIN n.timers /\ timers[i] = n.timers[i]) \/ timers[i] = target
    BY <2>1, <2>2
  <2>4. QED
    BY <1>2, <1>3, <1>4, <2>1, <2>3
<1>7. CASE ~armed
  <2>1. timers = n.timers
    BY <1>7
  <2> HIDE DEF timers, armed
  <2>2. QED
    BY <1>2, <1>3, <1>5, <2>1
<1>8. QED
  BY <1>6, <1>7

(* A timer that fires is gone, and keeps its hash.  *)
LEMMA NavFires ==
  ASSUME NavRight(nav), nav.timers # <<>>
  PROVE  LET n == Fired(nav, Head(nav.timers))
         IN /\ DOMAIN n = NavFields
            /\ \E S : n.timers \in Seq(S)
            /\ n.rushed = nav.rushed /\ n.missed \in BOOLEAN /\ n.rushed \in BOOLEAN
            /\ n.hash = nav.hash /\ n.link = nav.link
            /\ n.link # Absent /\ ~n.rushed =>
                 /\ \A i \in DOMAIN n.timers : n.timers[i] = n.link
                 /\ n.previousHash = n.link
            /\ ~n.missed => ~nav.missed /\ (n.previousHash = n.link => ~TooEarly(n.link))
<1> DEFINE hash == Head(nav.timers)
           n == Fired(nav, hash)
           scrolled == nav.scrolled \/ (hash = nav.link /\ hash \in Elements)
           missed == nav.missed \/ (hash = nav.link /\ TooEarly(hash))
<1>1. n = [nav EXCEPT !.timers = Tail(nav.timers), !.previousHash = hash,
                      !.scrolled = scrolled, !.missed = missed]
  BY DEF Fired
<1>2. missed \in BOOLEAN
  OBVIOUS
<1>3. ~missed => ~nav.missed /\ (hash = nav.link => ~TooEarly(hash))
  OBVIOUS
<1>4. PICK S : nav.timers \in Seq(S)
  BY DEF NavRight
<1>5. /\ hash = nav.timers[1] /\ 1 \in DOMAIN nav.timers
      /\ Tail(nav.timers) \in Seq(S)
      /\ \A i \in DOMAIN Tail(nav.timers) :
           i + 1 \in DOMAIN nav.timers /\ Tail(nav.timers)[i] = nav.timers[i + 1]
  BY <1>4
<1> HIDE DEF hash, n, scrolled, missed
<1>6. /\ DOMAIN n = NavFields
      /\ n.timers = Tail(nav.timers) /\ n.previousHash = hash /\ n.missed = missed
      /\ n.rushed = nav.rushed /\ n.hash = nav.hash /\ n.link = nav.link
  BY <1>1 DEF NavRight, NavFields
<1>7. nav.rushed \in BOOLEAN
  BY DEF NavRight
<1>8. nav.link # Absent /\ ~nav.rushed =>
        /\ hash = nav.link
        /\ \A i \in DOMAIN Tail(nav.timers) : Tail(nav.timers)[i] = nav.link
  BY <1>5 DEF NavRight
<1>9. ~missed => ~nav.missed /\ (hash = nav.link => ~TooEarly(nav.link))
  BY <1>3
<1>10. QED
  BY <1>2, <1>5, <1>6, <1>7, <1>8, <1>9 DEF hash, n

(* The hash that a widget sees is that of the last link, or none.  *)
LEMMA SeenIsLink ==
  ASSUME NavRight(nav), Followed
  PROVE  useUrlHash(nav.hash, nav.previousHash) \in {nav.link, Absent}
         /\ (nav.hash # Absent => useUrlHash(nav.hash, nav.previousHash) = nav.link)
BY DEF NavRight, Followed, useUrlHash

LEMMA LinkInvInit == Init => LinkInv
<1> SUFFICES ASSUME Init, HasParts PROVE LinkInv
  BY DEF LinkInv
<1>1. HookInit /\ hook \in Hooks /\ shown = <<>> /\ fetches = {}
  BY DEF Init, HookInit
<1>2. HookInv
  BY <1>1, HookInvInit
<1>3. hook.reads = {"url"} /\ hook.deps = {"url"} /\ IsPage
  BY <1>1, PartsHook, OneKind
<1>4. PICK hash \in Hashes : nav = NewNav(hash)
  BY <1>3 DEF Init
<1>5. params \in [{"url"} -> Values] /\ params["url"] \in Urls
  BY <1>1, <1>3 DEF HookInit, Assignments, Urls
<1>6. params = [url |-> params["url"]]
  BY <1>5
<1>7. AreAnswers(shown)
  BY <1>1 DEF AreAnswers
<1>8. /\ RowsOf(shown) = <<>> /\ PostsOf(shown) = <<>> /\ PartsOf(shown) = <<>>
  <2>1. [i \in DOMAIN shown |-> RowsAt[shown[i].params.url]] = <<>>
    BY <1>1
  <2>2. RowsOf(shown) = <<>>
    BY <2>1 DEF RowsOf, FlattenSeq
  <2>3. PostsOf(shown) = <<>> /\ PartsOf(shown) = <<>>
    BY <1>1 DEF PostsOf, PartsOf, ReferencesOf, WorkflowOf
  <2>4. QED
    BY <2>2, <2>3
<1>9. ASSUME NEW h PROVE FirstContained(<<>>, h) = {}
  BY DEF FirstContained
<1>10. LinkTypeOK
  BY <1>1, <1>5, <1>6, <1>7
  DEF Init, LinkTypeOK, NewTable, NewPosts, NewPlaybook, TableFields, PostsFields, PlaybookFields
<1>11. NavOK
  <2>1. nav.timers = <<>> /\ nav.hash = hash /\ nav.link = hash /\ nav.rushed = FALSE
        /\ nav.missed = FALSE /\ DOMAIN nav = NavFields
    BY <1>4 DEF NewNav, NavFields
  <2>2. <<>> \in Seq({}) /\ DOMAIN <<>> = {}
    OBVIOUS
  <2>3. QED
    BY <2>1, <2>2 DEF NavOK, NavRight
<1>12. PartsOK
  <2>1. nav.hash = nav.link
    BY <1>4 DEF NewNav
  <2>2. QED
    BY <1>8, <1>9, <2>1
    DEF PartsOK, Followed, WidgetFits, TableFits, PostsFit, PlaybookFits
<1>13. QED
  BY <1>2, <1>10, <1>11, <1>12 DEF LinkInv

(* What the steps of a page with parts start from, and leave alone.        *)
LinkContext ==
  /\ HasParts /\ hook \in Hooks /\ HookInv /\ mounted
  /\ LinkTypeOK /\ NavOK /\ PartsOK
  /\ hook' = hook

(* The parameters of such a page are the url.  *)
LEMMA PartsParams ==
  ASSUME HasParts, NEW url, NEW n, NEW hash, NEW answers, NEW changed
  PROVE  WrapperParams(url, n, hash, answers, changed) = [url |-> url]
BY OneKind DEF WrapperParams

LEMMA SameKind ==
  ASSUME hook' = hook
  PROVE  /\ IsTable' = IsTable /\ IsPosts' = IsPosts /\ IsPlaybook' = IsPlaybook
         /\ HasParts' = HasParts
BY DEF IsTable, IsPosts, IsPlaybook, HasParts

(* The user follows a link, or goes elsewhere. *)
LEMMA NavigateKeepsLink ==
  ASSUME LinkContext, NEW url \in Urls, NEW hash, Navigate(url, hash)
  PROVE  LinkTypeOK' /\ NavOK' /\ PartsOK'
<1> USE DEF LinkContext
<1> DEFINE n == IF hash = Absent THEN [nav EXCEPT !.link = Absent, !.rushed = FALSE]
                ELSE [nav EXCEPT !.link = hash, !.scrolled = FALSE, !.missed = FALSE,
                                 !.rushed = \E i \in DOMAIN nav.timers : nav.timers[i] # hash]
<1>1. /\ nav' = PageRendered(n, hash)
      /\ params' = [url |-> url]
      /\ WidgetRendered(nav, hash, shown, FALSE)
      /\ UNCHANGED <<effect, fetches, shown, mounted>>
  <2>1. WrapperParams(url, nav, hash, shown, hash # nav.hash) = [url |-> url]
    BY PartsParams
  <2>2. QED
    BY <2>1 DEF Navigate
<1>2. /\ DOMAIN nav = NavFields /\ \E S : nav.timers \in Seq(S)
      /\ nav.rushed \in BOOLEAN /\ nav.missed \in BOOLEAN
  BY DEF NavOK, NavRight
<1>3. /\ DOMAIN n = NavFields /\ n.timers = nav.timers
      /\ n.link = hash /\ n.missed \in BOOLEAN /\ n.rushed \in BOOLEAN
      /\ hash # Absent /\ ~n.rushed => \A i \in DOMAIN n.timers : n.timers[i] = hash
  BY <1>2 DEF NavFields
<1> HIDE DEF n
<1>4. /\ DOMAIN nav' = NavFields
      /\ \E S : nav'.timers \in Seq(S)
      /\ nav'.hash = hash /\ nav'.link = hash
      /\ nav'.rushed = n.rushed /\ nav'.missed = n.missed
      /\ \A i \in DOMAIN nav'.timers :
           \/ i \in DOMAIN n.timers /\ nav'.timers[i] = n.timers[i]
           \/ nav'.timers[i] = hash /\ hash # Absent
           \/ nav'.timers[i] = n.previousHash /\ hash = Absent
  BY <1>1, <1>2, <1>3, NavRender
<1>5. NavOK'
  BY <1>3, <1>4 DEF NavOK, NavRight
<1>6. AreAnswers(shown) /\ (IsPlaybook => PlaybookFits(playbook, PartsOf(shown), playbook.seen))
  BY DEF LinkTypeOK, PartsOK
<1>7. /\ IsTable => DOMAIN table' = TableFields /\ table'.same = table.same
      /\ IsPosts => DOMAIN posts' = PostsFields
      /\ IsPlaybook => DOMAIN playbook' = PlaybookFields
      /\ IsPlaybook => PlaybookFits(playbook', PartsOf(shown), playbook'.seen)
      /\ \A link :
           /\ useUrlHash(hash, nav.previousHash) \in {link, Absent}
           /\ \/ hash # nav.hash /\ useUrlHash(hash, nav.previousHash) = link
              \/ /\ IsTable /\ table.same => TableFits(table, RowsOf(shown), link)
                 /\ IsPosts => PostsFit(posts, PostsOf(shown), link)
                 /\ IsPlaybook => PlaybookFits(playbook, PartsOf(shown), link)
           => WidgetFits(table', posts', playbook', shown, link)
  BY <1>1, <1>6, RenderFits
<1>8. LinkTypeOK'
  BY <1>1, <1>7, SameKind DEF LinkTypeOK
<1>9. hash # Absent => WidgetFits(table', posts', playbook', shown, hash)
  <2> SUFFICES ASSUME hash # Absent PROVE WidgetFits(table', posts', playbook', shown, hash)
    OBVIOUS
  <2>1. useUrlHash(hash, nav.previousHash) = hash
    BY DEF useUrlHash
  <2>2. CASE hash # nav.hash
    BY <1>7, <2>1, <2>2
  <2>3. CASE hash = nav.hash
    <3>1. nav.link = hash /\ Followed
      BY <2>3 DEF NavOK, NavRight, Followed
    <3>2. WidgetFits(table, posts, playbook, shown, hash)
      BY <3>1 DEF PartsOK
    <3>3. QED
      BY <1>7, <2>1, <3>2 DEF WidgetFits
  <2>4. QED
    BY <2>2, <2>3
<1>10. PartsOK'
  <2>1. shown' = shown
    BY <1>1
  <2>2. (IsPlaybook => PlaybookFits(playbook, PartsOf(shown), playbook.seen))'
    BY <1>7, <2>1, SameKind
  <2>3. Followed' => hash # Absent
    BY <1>4 DEF Followed
  <2>4. hash # Absent => WidgetFits(table, posts, playbook, shown, nav.link)'
    BY <1>4, <1>9, <2>1, SameKind DEF WidgetFits
  <2>5. QED
    BY <1>4, <2>2, <2>3, <2>4 DEF PartsOK
<1>11. QED
  BY <1>5, <1>8, <1>10

(* The page renders again. *)
LEMMA RerenderKeepsLink ==
  ASSUME LinkContext, Rerender
  PROVE  LinkTypeOK' /\ NavOK' /\ PartsOK'
<1> USE DEF LinkContext
<1>1. /\ nav' = PageRendered(nav, nav.hash)
      /\ params' = [url |-> params.url]
      /\ WidgetRendered(nav, nav.hash, shown, FALSE)
      /\ UNCHANGED <<effect, fetches, shown, mounted>>
  <2>1. WrapperParams(params.url, nav, nav.hash, shown, nav.hash # nav.hash) = [url |-> params.url]
    BY PartsParams
  <2>2. QED
    BY <2>1 DEF Rerender, Rendered
<1>2. /\ DOMAIN nav = NavFields /\ \E S : nav.timers \in Seq(S)
      /\ nav.rushed \in BOOLEAN /\ nav.missed \in BOOLEAN
  BY DEF NavOK, NavRight
<1>3. /\ DOMAIN nav' = NavFields
      /\ \E S : nav'.timers \in Seq(S)
      /\ nav'.hash = nav.hash /\ nav'.link = nav.link
      /\ nav'.rushed = nav.rushed /\ nav'.missed = nav.missed
      /\ nav'.previousHash \in {nav.previousHash, Absent}
      /\ \A i \in DOMAIN nav'.timers :
           \/ i \in DOMAIN nav.timers /\ nav'.timers[i] = nav.timers[i]
           \/ nav'.timers[i] = nav.hash /\ nav.hash # Absent
           \/ nav'.timers[i] = nav.previousHash /\ nav.hash = Absent
  BY <1>1, <1>2, NavRender
<1>4. params' = params
  BY <1>1 DEF LinkTypeOK
<1>5. NavOK'
  <2>1. NavRight(nav')
    <3>1. NavRight(nav)
      BY DEF NavOK
    <3>2. /\ nav.hash # Absent => nav.link = nav.hash
          /\ nav.link # Absent /\ ~nav.rushed =>
               /\ \A i \in DOMAIN nav.timers : nav.timers[i] = nav.link
               /\ nav.hash = Absent => nav.previousHash \in {nav.link, Absent}
      BY <3>1 DEF NavRight
    <3>3. CASE nav.previousHash # Absent \/ nav.hash # Absent
      BY <1>2, <1>3, <3>2, <3>3 DEF NavRight
    <3>4. CASE nav.previousHash = Absent /\ nav.hash = Absent
      BY <1>1, <1>2, <1>3, <3>2, <3>4 DEF NavRight, PageRendered, useUrlHash
    <3>5. QED
      BY <3>3, <3>4
  <2>2. QED
    BY <1>1, <1>3, <1>4, <2>1 DEF NavOK, EffectDue
<1>6. AreAnswers(shown) /\ (IsPlaybook => PlaybookFits(playbook, PartsOf(shown), playbook.seen))
  BY DEF LinkTypeOK, PartsOK
<1>7. /\ IsTable => DOMAIN table' = TableFields /\ table'.same = table.same
      /\ IsPosts => DOMAIN posts' = PostsFields
      /\ IsPlaybook => DOMAIN playbook' = PlaybookFields
      /\ IsPlaybook => PlaybookFits(playbook', PartsOf(shown), playbook'.seen)
      /\ \A link :
           /\ useUrlHash(nav.hash, nav.previousHash) \in {link, Absent}
           /\ WidgetFits(table, posts, playbook, shown, link)
           => WidgetFits(table', posts', playbook', shown, link)
  <2>1. \A link : WidgetFits(table, posts, playbook, shown, link) =>
          /\ IsTable /\ table.same => TableFits(table, RowsOf(shown), link)
          /\ IsPosts => PostsFit(posts, PostsOf(shown), link)
          /\ IsPlaybook => PlaybookFits(playbook, PartsOf(shown), link)
    BY DEF WidgetFits
  <2>2. QED
    BY <1>1, <1>6, <2>1, RenderFits
<1>8. LinkTypeOK'
  BY <1>1, <1>4, <1>7, SameKind DEF LinkTypeOK
<1>9. PartsOK'
  <2>1. Followed' = Followed
    BY <1>3 DEF Followed
  <2>2. Followed => WidgetFits(table', posts', playbook', shown, nav.link)
    BY <1>7, SeenIsLink DEF PartsOK, NavOK
  <2>3. Followed => WidgetFits(table, posts, playbook, shown, nav.link)'
    BY <1>1, <1>3, <2>2, SameKind DEF WidgetFits
  <2>4. (IsPlaybook => PlaybookFits(playbook, PartsOf(shown), playbook.seen))'
    BY <1>1, <1>7, SameKind
  <2>5. Followed /\ nav.hash = Absent =>
          /\ IsTable' /\ table'.same => nav.link \in Range(RowsOf(shown))
          /\ IsPosts' => \A f \in fetches : f.isCanceled
    BY <1>7, SameKind DEF PartsOK
  <2>6. QED
    BY <1>1, <1>3, <2>1, <2>3, <2>4, <2>5 DEF PartsOK
<1>10. QED
  BY <1>5, <1>8, <1>9

(* A timer fires: with a hash in the url the table or the list turns to    *)
(* the page of its part at this render, if it has not done so before.      *)
LEMMA TimerKeepsLink ==
  ASSUME LinkContext, TimerFires
  PROVE  LinkTypeOK' /\ NavOK' /\ PartsOK'
<1> USE DEF LinkContext
<1> DEFINE n == Fired(nav, Head(nav.timers))
<1>1. NavRight(nav) /\ nav.timers # <<>> /\ ~EffectDue
  BY DEF NavOK, TimerFires, Settled
<1>2. /\ DOMAIN n = NavFields
      /\ \E S : n.timers \in Seq(S)
      /\ n.rushed = nav.rushed /\ n.missed \in BOOLEAN /\ n.rushed \in BOOLEAN
      /\ n.hash = nav.hash /\ n.link = nav.link
      /\ n.link # Absent /\ ~n.rushed =>
           /\ \A i \in DOMAIN n.timers : n.timers[i] = n.link
           /\ n.previousHash = n.link
      /\ ~n.missed => ~nav.missed /\ (n.previousHash = n.link => ~TooEarly(n.link))
  BY <1>1, NavFires
<1>3. \/ nav.hash = Absent /\ nav' = n /\ UNCHANGED <<hookVars, table, graph, form, contents>>
      \/ nav.hash # Absent /\ nav' = PageRendered(n, Absent) /\ Rendered(n, params.url, Absent)
  BY DEF TimerFires
<1> HIDE DEF n
<1>4. CASE nav.hash = Absent
  <2>1. /\ nav' = n
        /\ UNCHANGED <<params, effect, fetches, shown, mounted, table, posts, playbook>>
    BY <1>3, <1>4 DEF hookVars, contents
  <2>2. NavRight(nav')
    BY <1>2, <1>4, <2>1 DEF NavRight
  <2>3. NavOK'
    BY <1>1, <2>1, <2>2 DEF NavOK, EffectDue
  <2>4. LinkTypeOK'
    BY <2>1, SameKind DEF LinkTypeOK
  <2>5. Followed' => Followed
    BY <1>2, <1>4, <2>1 DEF Followed
  <2>6. (WidgetFits(table, posts, playbook, shown, nav.link))'
          = WidgetFits(table, posts, playbook, shown, nav.link)
    BY <1>2, <2>1, SameKind DEF WidgetFits
  <2>7. PartsOK'
    BY <1>2, <1>4, <2>1, <2>5, <2>6, SameKind DEF PartsOK
  <2>8. QED
    BY <2>3, <2>4, <2>7
<1>5. CASE nav.hash # Absent
  <2>1. /\ nav' = PageRendered(n, Absent)
        /\ params' = [url |-> params.url]
        /\ WidgetRendered(n, Absent, shown, FALSE)
        /\ UNCHANGED <<effect, fetches, shown, mounted>>
    <3>1. WrapperParams(params.url, n, Absent, shown, Absent # n.hash) = [url |-> params.url]
      BY PartsParams
    <3>2. QED
      BY <1>3, <1>5, <3>1 DEF Rendered
  <2>2. /\ DOMAIN nav' = NavFields
        /\ \E S : nav'.timers \in Seq(S)
        /\ nav'.hash = Absent /\ nav'.link = n.link
        /\ nav'.rushed = n.rushed /\ nav'.missed = n.missed
        /\ nav'.previousHash \in {n.previousHash, Absent}
        /\ \A i \in DOMAIN nav'.timers :
             \/ i \in DOMAIN n.timers /\ nav'.timers[i] = n.timers[i]
             \/ nav'.timers[i] = n.previousHash
    BY <1>2, <2>1, NavRender
  <2>3. params' = params
    BY <2>1 DEF LinkTypeOK
  <2>4. NavRight(nav')
    BY <1>2, <2>2 DEF NavRight
  <2>5. NavOK'
    BY <1>1, <2>1, <2>3, <2>4 DEF NavOK, EffectDue
  <2>6. AreAnswers(shown) /\ (IsPlaybook => PlaybookFits(playbook, PartsOf(shown), playbook.seen))
    BY DEF LinkTypeOK, PartsOK
  <2>7. /\ IsTable => DOMAIN table' = TableFields /\ table'.same = table.same
        /\ IsPosts => DOMAIN posts' = PostsFields
        /\ IsPlaybook => DOMAIN playbook' = PlaybookFields
        /\ IsPlaybook => PlaybookFits(playbook', PartsOf(shown), playbook'.seen)
        /\ \A link : Absent # n.hash /\ useUrlHash(Absent, n.previousHash) = link
                       => WidgetFits(table', posts', playbook', shown, link)
    BY <2>1, <2>6, RenderFits
  <2>8. LinkTypeOK'
    BY <2>1, <2>3, <2>7, SameKind DEF LinkTypeOK
  <2>9. ASSUME Followed'
        PROVE  /\ (WidgetFits(table, posts, playbook, shown, nav.link))'
               /\ IsTable /\ table.same => nav.link \in Range(RowsOf(shown))
               /\ IsPosts => \A f \in fetches : f.isCanceled
    <3>1. n.link # Absent /\ ~n.rushed /\ ~n.missed /\ nav'.link = nav.link
      BY <1>2, <2>2, <2>9 DEF Followed
    <3>2. n.previousHash = n.link /\ ~TooEarly(n.link)
      BY <1>2, <3>1
    <3>3. useUrlHash(Absent, n.previousHash) = n.link
      BY <3>2 DEF useUrlHash
    <3>4. (WidgetFits(table, posts, playbook, shown, nav.link))'
      <4>1. WidgetFits(table', posts', playbook', shown, n.link)
        BY <1>2, <1>5, <2>7, <3>3
      <4>2. QED
        BY <2>1, <2>2, <4>1, SameKind DEF WidgetFits
    <3>5. IsTable /\ table.same => nav.link \in Range(RowsOf(shown))
      <4>1. nav.link \in Elements
        BY <1>2, <3>2 DEF TooEarly
      <4>2. SUFFICES ASSUME IsTable, table.same PROVE nav.link \in Range(RowsOf(shown))
        OBVIOUS
      <4>3. nav.link \in RowsShown(table, RowsOf(shown))
        BY <4>1, <4>2, OneKind DEF Elements
      <4>4. QED
        BY <4>2, <4>3 DEF RowsShown, Listed, Range
    <3>6. IsPosts => \A f \in fetches : f.isCanceled
      <4>1. IsPosts => effect.outcome # "pending"
        BY <3>2 DEF TooEarly
      <4>2. QED
        BY <4>1 DEF HookInv, OneFetchCounts
    <3>7. QED
      BY <3>4, <3>5, <3>6
  <2>10. (IsPlaybook => PlaybookFits(playbook, PartsOf(shown), playbook.seen))'
    BY <2>1, <2>7, SameKind
  <2>11. PartsOK'
    BY <1>2, <2>1, <2>2, <2>7, <2>9, <2>10, SameKind DEF PartsOK
  <2>12. QED
    BY <2>5, <2>8, <2>11
<1>6. QED
  BY <1>4, <1>5

(* The user chooses a page, a row, a step or a reference. *)
LEMMA ChoiceKeepsLink ==
  ASSUME LinkContext, TableStep \/ PlaybookStep \/ PostsStep
  PROVE  LinkTypeOK' /\ NavOK' /\ PartsOK'
<1> USE DEF LinkContext
<1>1. UNCHANGED <<params, effect, fetches, shown, mounted, nav>>
  BY DEF TableStep, PlaybookStep, PostsStep, hookVars
<1>2. NavOK' /\ Followed' = Followed
  BY <1>1 DEF NavOK, EffectDue, Followed
<1>3. CASE TableStep
  <2> DEFINE rows == RowsOf(shown)
             seen == useUrlHash(nav.hash, nav.previousHash)
  <2>1. IsTable /\ ~IsPosts /\ ~IsPlaybook /\ DOMAIN table = TableFields
    BY <1>3, OneKind DEF TableStep, LinkTypeOK
  <2>2. \/ \E sorter : table' = Sort(table, sorter)
        \/ \E page : table' = TableRendered(ChangePage(table, rows, page), rows, seen, FALSE)
        \/ \E found : table' = TableRendered(handleSearch(table, rows, found), rows, seen, FALSE)
    BY <1>3 DEF TableStep
  <2>3. \E m \in Nat : DOMAIN rows = 1 .. m
    BY AnswersAreParts DEF LinkTypeOK
  <2>4. Followed /\ table.same => TableFits(table, rows, nav.link)
    BY <2>1 DEF PartsOK, WidgetFits
  <2>5. Followed => seen \in {nav.link, Absent}
    BY SeenIsLink DEF NavOK, seen
  <2> HIDE DEF rows, seen
  <2>6. /\ DOMAIN table' = TableFields /\ (table'.same => table.same)
        /\ Followed /\ table'.same => TableFits(table', rows, nav.link)
    <3>1. CASE \E sorter : table' = Sort(table, sorter)
      BY <2>1, <2>4, <3>1 DEF Sort, TableFields, TableFits
    <3>2. ASSUME NEW t, DOMAIN t = TableFields, t.touched, t.same => table.same,
                 table' = TableRendered(t, rows, seen, FALSE)
          PROVE  /\ DOMAIN table' = TableFields /\ (table'.same => table.same)
                 /\ Followed => TableFits(table', rows, nav.link)
      <4>1. DOMAIN table' = TableFields /\ table'.same = t.same
        BY <3>2 DEF TableRendered, TableFields
      <4>2. TableFits(t, rows, nav.link)
        BY <3>2 DEF TableFits
      <4>3. QED
        BY <2>3, <2>5, <3>2, <4>1, <4>2, TableRenderFits
    <3>3. \A page : LET t == ChangePage(table, rows, page)
                    IN DOMAIN t = TableFields /\ t.touched /\ (t.same => table.same)
      BY <2>1 DEF ChangePage, TableFields
    <3>4. \A found : LET t == handleSearch(table, rows, found)
                     IN DOMAIN t = TableFields /\ t.touched /\ (t.same => table.same)
      BY <2>1 DEF handleSearch, TableFields
    <3>5. QED
      BY <2>2, <3>1, <3>2, <3>3, <3>4
  <2>7. LinkTypeOK'
    BY <1>1, <2>1, <2>6, SameKind DEF LinkTypeOK
  <2>8. PartsOK'
    <3>1. Followed => (WidgetFits(table, posts, playbook, shown, nav.link))'
      BY <1>1, <2>1, <2>6, SameKind DEF WidgetFits, rows
    <3>2. Followed /\ nav.hash = Absent /\ table'.same => nav.link \in Range(RowsOf(shown))
      BY <2>1, <2>6 DEF PartsOK
    <3>3. QED
      BY <1>1, <1>2, <2>1, <3>1, <3>2, SameKind DEF PartsOK
  <2>9. QED
    BY <1>2, <2>7, <2>8
<1>4. CASE PlaybookStep
  <2>1. IsPlaybook /\ ~IsPosts /\ ~IsTable /\ DOMAIN playbook = PlaybookFields
    BY <1>4, OneKind DEF PlaybookStep, LinkTypeOK
  <2>2. \/ playbook' = playbook
        \/ DOMAIN playbook' = PlaybookFields /\ playbook'.touched
    <3>1. PICK s : playbook' = SelectStep(playbook, shown, s) \/ playbook' = SelectReference(playbook, shown, s)
      BY <1>4 DEF PlaybookStep
    <3>2. QED
      BY <2>1, <3>1 DEF SelectStep, SelectReference, PlaybookFields
  <2>3. LinkTypeOK'
    BY <1>1, <2>1, <2>2, SameKind DEF LinkTypeOK
  <2>4. ASSUME NEW hash, PlaybookFits(playbook, PartsOf(shown), hash)
        PROVE  PlaybookFits(playbook', PartsOf(shown), hash)
    BY <2>2, <2>4 DEF PlaybookFits
  <2>5. PlaybookFits(playbook', PartsOf(shown), playbook'.seen)
    BY <2>1, <2>2 DEF PartsOK, PlaybookFits
  <2>6. PartsOK'
    BY <1>1, <1>2, <2>1, <2>4, <2>5, SameKind DEF PartsOK, WidgetFits
  <2>7. QED
    BY <1>2, <2>3, <2>6
<1>5. CASE PostsStep
  <2>1. IsPosts /\ ~IsPlaybook /\ ~IsTable /\ DOMAIN posts = PostsFields
    BY <1>5, OneKind DEF PostsStep, LinkTypeOK
  <2>2. DOMAIN posts' = PostsFields /\ posts'.touched
    BY <1>5, <2>1 DEF PostsStep, TurnTo, PostsFields
  <2>3. LinkTypeOK'
    BY <1>1, <2>1, <2>2, SameKind DEF LinkTypeOK
  <2>4. PartsOK'
    BY <1>1, <1>2, <2>1, <2>2, SameKind DEF PartsOK, WidgetFits, PostsFit
  <2>5. QED
    BY <1>2, <2>3, <2>4
<1>6. QED
  BY <1>3, <1>4, <1>5

(* A run of the effect with new parameters: there is a link's hash then.   *)
LEMMA EffectKeepsLink ==
  ASSUME LinkContext, EffectRuns
  PROVE  LinkTypeOK' /\ NavOK' /\ PartsOK'
<1> USE DEF LinkContext
<1>1. /\ UNCHANGED <<params, shown, mounted, nav, table, posts, playbook>>
      /\ EffectDue
      /\ \A g \in fetches' : g.params = params \/ \E f \in fetches : g.params = f.params
  <2>1. /\ UNCHANGED <<params, shown, mounted, nav, table, posts, playbook>>
        /\ EffectDue
        /\ fetches' \subseteq Canceled(fetches)
                      \cup {[run |-> NewRun, params |-> params, isCanceled |-> FALSE]}
    BY DEF EffectRuns, RunEffect
  <2>2. \A g \in Canceled(fetches) : \E f \in fetches : g.params = f.params
    BY DEF Canceled, HookInv, HookTypeOK
  <2>3. [run |-> NewRun, params |-> params, isCanceled |-> FALSE].params = params
    OBVIOUS
  <2>4. QED
    BY <2>1, <2>2, <2>3
<1>2. nav.hash # Absent \/ nav.link = Absent
  BY <1>1 DEF NavOK
<1>3. NavOK'
  BY <1>1, <1>2 DEF NavOK
<1>4. LinkTypeOK'
  <2>1. params.url \in Urls
    BY DEF LinkTypeOK
  <2>2. (\A f \in fetches : f.params.url \in Urls)'
    BY <1>1, <2>1 DEF LinkTypeOK
  <2>3. QED
    BY <1>1, <2>2, SameKind DEF LinkTypeOK
<1>5. PartsOK'
  BY <1>1, <1>2, SameKind DEF PartsOK, Followed, WidgetFits
<1>6. QED
  BY <1>3, <1>4, <1>5

(* Another answer comes after the rows there are, or in the place of the   *)
(* posts or of the playbook.                                               *)
LEMMA AnswerKeepsLink ==
  ASSUME LinkContext, NEW f \in fetches, AnswerReceived(f)
  PROVE  LinkTypeOK' /\ NavOK' /\ PartsOK'
<1> USE DEF LinkContext
<1> DEFINE states == Merged(hook, shown, State(f, TRUE))
           urlHash == useUrlHash(nav.hash, nav.previousHash)
<1>1. /\ nav' = nav /\ mounted' = mounted
      /\ fetches' \subseteq fetches
      /\ effect'.run = effect.run /\ effect'.params = effect.params
      /\ shown' = IF f.isCanceled THEN shown ELSE states
      /\ params' = params
      /\ f.isCanceled => UNCHANGED <<table, posts, playbook>>
      /\ ~f.isCanceled => WidgetRendered(nav, nav.hash, states, TRUE)
  <2>1. Answer(f, [url |-> params.url])
    <3>1. WrapperParams(params.url, nav, nav.hash, states, TRUE) = [url |-> params.url]
      BY OneKind DEF WrapperParams
    <3>2. QED
      BY <3>1, OneKind DEF AnswerReceived
  <2>2. params' = params
    BY <2>1 DEF Answer, LinkTypeOK
  <2>3. effect'.run = effect.run /\ effect'.params = effect.params
    BY <2>1, ReceiveKeeps DEF Answer, HookInv
  <2>4. nav' = nav /\ (f.isCanceled => UNCHANGED <<table, posts, playbook>>)
        /\ (~f.isCanceled => WidgetRendered(nav, nav.hash, states, TRUE))
    BY DEF AnswerReceived, views, contents
  <2>5. QED
    BY <2>1, <2>2, <2>3, <2>4 DEF Answer, Receive
<1>2. NavOK' /\ Followed' = Followed
  BY <1>1 DEF NavOK, EffectDue, Followed
<1>3. CASE f.isCanceled
  <2>1. /\ UNCHANGED <<shown, table, posts, playbook, params, nav>>
        /\ fetches' \subseteq fetches
    BY <1>1, <1>3
  <2> HIDE DEF states, urlHash
  <2>2. LinkTypeOK'
    BY <2>1, SameKind DEF LinkTypeOK
  <2>3. PartsOK'
    BY <1>2, <2>1, SameKind DEF PartsOK, WidgetFits
  <2>4. QED
    BY <1>2, <2>2, <2>3
<1>4. CASE ~f.isCanceled
  <2> DEFINE answer == State(f, TRUE)
  <2>1. f.params.url \in Urls /\ answer.params.url = f.params.url
    BY DEF LinkTypeOK, State
  <2>2. PICK A : shown \in Seq(A)
    BY DEF LinkTypeOK, AreAnswers
  <2>3. AreAnswers(states)
    <3> HIDE DEF answer
    <3> DEFINE B == A \cup {answer}
    <3>1. shown \in Seq(B) /\ answer \in B
      BY <2>2
    <3>2. AreAnswers(Append(shown, answer))
      <4>1. /\ Append(shown, answer) \in Seq(B)
            /\ \A k \in DOMAIN Append(shown, answer) :
                 \/ Append(shown, answer)[k] = answer
                 \/ k \in DOMAIN shown /\ Append(shown, answer)[k] = shown[k]
        BY <3>1
      <4>2. \A k \in DOMAIN shown : shown[k].params.url \in Urls
        BY DEF AreAnswers, LinkTypeOK
      <4>3. QED
        BY <2>1, <4>1, <4>2 DEF AreAnswers
    <3>3. AreAnswers(<<answer>>)
      <4>1. <<answer>> \in Seq(B) /\ DOMAIN <<answer>> = {1} /\ <<answer>>[1] = answer
        OBVIOUS
      <4>2. QED
        BY <2>1, <4>1 DEF AreAnswers
    <3>4. QED
      BY <3>2, <3>3 DEF Merged, answer
  <2>4. IsTable => states = Append(shown, answer)
    BY PartsHook DEF Merged
  <2> HIDE DEF states, answer
  <2>5. /\ IsTable => DOMAIN table' = TableFields /\ table'.same = table.same
        /\ IsPosts => DOMAIN posts' = PostsFields
        /\ IsPlaybook => DOMAIN playbook' = PlaybookFields
        /\ IsPlaybook => PlaybookFits(playbook', PartsOf(states), playbook'.seen)
        /\ \A link :
             /\ urlHash \in {link, Absent}
             /\ \/ urlHash = link
                \/ /\ IsTable /\ table.same => TableFits(table, RowsOf(states), link)
                   /\ IsPosts => PostsFit(posts, PostsOf(states), link)
             => WidgetFits(table', posts', playbook', states, link)
    BY <1>1, <1>4, <2>3, RenderFits
  <2>6. LinkTypeOK'
    BY <1>1, <1>4, <2>3, <2>5, SameKind DEF LinkTypeOK
  <2>7. \E S : /\ RowsOf(shown) \in Seq(S)
               /\ RowsAt[f.params.url] \in Seq(S)
               /\ IsTable => RowsOf(states) = RowsOf(shown) \o RowsAt[f.params.url]
    BY <2>1, <2>4, RowsOfMore DEF LinkTypeOK
  <2>8. PICK m \in Nat, n \in Nat :
          /\ DOMAIN RowsOf(shown) = 1 .. m
          /\ IsTable => /\ DOMAIN RowsOf(states) = 1 .. m + n
                        /\ \A i \in 1 .. m : RowsOf(states)[i] = RowsOf(shown)[i]
    <3>1. PICK S : /\ RowsOf(shown) \in Seq(S)
                   /\ RowsAt[f.params.url] \in Seq(S)
                   /\ IsTable => RowsOf(states) = RowsOf(shown) \o RowsAt[f.params.url]
      BY <2>7
    <3> DEFINE m == Len(RowsOf(shown))
               n == Len(RowsAt[f.params.url])
    <3>2. /\ m \in Nat /\ n \in Nat
          /\ DOMAIN RowsOf(shown) = 1 .. m
          /\ IsTable => /\ DOMAIN RowsOf(states) = 1 .. m + n
                        /\ \A i \in 1 .. m : RowsOf(states)[i] = RowsOf(shown)[i]
      BY <3>1
    <3>3. QED
      BY <3>2
  <2>9. ASSUME Followed, nav.hash = Absent
        PROVE  /\ urlHash \in {nav.link, Absent}
               /\ IsTable /\ table.same => /\ nav.link \in Range(RowsOf(states))
                                           /\ TableFits(table, RowsOf(states), nav.link)
               /\ ~IsPosts
    <3>1. urlHash \in {nav.link, Absent}
      BY <2>9, SeenIsLink DEF NavOK
    <3>2. ~IsPosts
      BY <1>4, <2>9 DEF PartsOK
    <3>3. SUFFICES ASSUME IsTable, table.same
                   PROVE  /\ nav.link \in Range(RowsOf(states))
                          /\ TableFits(table, RowsOf(states), nav.link)
      BY <3>1, <3>2
    <3>4. nav.link \in Range(RowsOf(shown)) /\ TableFits(table, RowsOf(shown), nav.link)
      BY <2>9, <3>3 DEF PartsOK, WidgetFits
    <3>5. PICK j \in 1 .. m : RowsOf(shown)[j] = nav.link /\ RowsOf(states)[j] = nav.link
      BY <2>8, <3>3, <3>4 DEF Range
    <3>6. j \in 1 .. m + n /\ DOMAIN RowsOf(states) = 1 .. m + n /\ m + n \in Nat
      BY <2>8, <3>3
    <3>7. ASSUME ~table.touched, NEW k \in FirstContained(RowsOf(states), nav.link),
                 RowsOf(states)[k] = nav.link
          PROVE  table.currentPage = pageOf(k)
      <4>1. nav.link \in ContainedIn[nav.link] /\ k \in 1 .. m + n
        BY <3>6, <3>7 DEF FirstContained
      <4>2. k <= j
        BY <3>5, <3>6, <4>1, FirstIsBefore
      <4>3. k \in 1 .. m /\ \A i \in 1 .. k : RowsOf(states)[i] = RowsOf(shown)[i]
        BY <2>8, <3>3, <4>1, <4>2
      <4>4. k \in FirstContained(RowsOf(shown), nav.link)
        BY <2>8, <3>6, <3>7, <4>3 DEF FirstContained
      <4>5. QED
        BY <3>4, <3>7, <4>3, <4>4 DEF TableFits
    <3>8. nav.link \in Range(RowsOf(states))
      BY <3>5, <3>6 DEF Range
    <3>9. QED
      BY <3>7, <3>8 DEF TableFits
  <2>10. Followed => WidgetFits(table', posts', playbook', states, nav.link)
    <3>1. CASE nav.hash # Absent
      BY <2>5, <3>1, SeenIsLink DEF NavOK
    <3>2. CASE nav.hash = Absent
      BY <2>5, <2>9, <3>2
    <3>3. QED
      BY <3>1, <3>2
  <2>11. shown' = states
    BY <1>1, <1>4
  <2>12. (IsPlaybook => PlaybookFits(playbook, PartsOf(shown), playbook.seen))'
    BY <2>5, <2>11, SameKind
  <2>13. Followed => (WidgetFits(table, posts, playbook, shown, nav.link))'
    BY <1>1, <2>10, <2>11, SameKind DEF WidgetFits
  <2>14. PartsOK'
    BY <1>1, <1>2, <2>5, <2>9, <2>11, <2>12, <2>13, SameKind DEF PartsOK
  <2>15. QED
    BY <1>2, <2>6, <2>14
<1>5. QED
  BY <1>3, <1>4

(* Every step of the page keeps LinkInv. *)
LEMMA LinkInvStep == LinkInv /\ [Next]_vars => LinkInv'
<1> SUFFICES ASSUME LinkInv, [Next]_vars, HasParts' PROVE LinkInv'
  BY DEF LinkInv
<1>1. HookStep
  BY PageStep
<1>2. hook' = hook /\ (mounted' => mounted)
  <2>1. CASE UNCHANGED <<hook, mounted, effect, fetches, shown>>
    BY <2>1
  <2>2. CASE RunEffect \/ Unmount
    BY <2>2 DEF RunEffect, Unmount
  <2>3. CASE \E f \in fetches : (\E p : Answer(f, p)) \/ Fail(f)
    <3>1. PICK f \in fetches : (\E p : Answer(f, p)) \/ Fail(f)
      BY <2>3
    <3>2. \E outcome : Receive(f, outcome)
      BY <3>1 DEF Answer, Fail
    <3>3. QED
      BY <3>2 DEF Receive
  <2>4. QED
    BY <1>1, <2>1, <2>2, <2>3 DEF HookStep
<1>3. HasParts /\ HookInv /\ hook \in Hooks
  BY <1>2, SameKind DEF LinkInv, HookInv, HookTypeOK
<1>4. HookInv'
  BY <1>1, <1>3, HookInvStep, PartsHook
<1> SUFFICES ASSUME mounted' PROVE LinkTypeOK' /\ NavOK' /\ PartsOK'
  BY <1>4 DEF LinkInv
<1>5. LinkContext
  BY <1>2, <1>3 DEF LinkContext, LinkInv
<1>6. IsPage /\ ~IsGraph /\ ~IsForm /\ ~IsNews /\ ~IsPolicy
  BY <1>3, OneKind
<1>7. CASE UNCHANGED vars
  <2>1. UNCHANGED <<params, effect, fetches, shown, mounted, nav, table, posts, playbook>>
    BY <1>7 DEF vars, hookVars, views, contents
  <2>2. LinkTypeOK'
    BY <1>2, <1>5, <2>1, SameKind DEF LinkContext, LinkTypeOK
  <2>3. NavOK'
    BY <1>2, <1>5, <2>1 DEF LinkContext, NavOK, EffectDue
  <2>4. PartsOK'
    BY <1>2, <1>5, <2>1, SameKind DEF LinkContext, PartsOK, Followed, WidgetFits
  <2>5. QED
    BY <2>2, <2>3, <2>4
<1>8. CASE EffectRuns
  BY <1>5, <1>8, EffectKeepsLink
<1>9. CASE WidgetGone
  BY <1>9 DEF WidgetGone, Unmount
<1>10. CASE FetchEnds
  <2>1. PICK f \in fetches : AnswerReceived(f) \/ FetchFails(f)
    BY <1>10 DEF FetchEnds
  <2>2. CASE AnswerReceived(f)
    BY <1>5, <2>2, AnswerKeepsLink
  <2>3. CASE FetchFails(f)
    <3>1. hook.failure = "unhandled"
      BY <1>3, PartsHook
    <3>2. /\ UNCHANGED <<params, shown, mounted, nav, table, posts, playbook>>
          /\ fetches' \subseteq fetches
      BY <1>6, <2>3, <3>1 DEF FetchFails, Fail, Receive
    <3>3. effect'.run = effect.run /\ effect'.params = effect.params
      BY <1>3, <2>3, ReceiveKeeps DEF FetchFails, Fail, HookInv
    <3>4. LinkTypeOK'
      BY <1>2, <1>5, <3>2, SameKind DEF LinkContext, LinkTypeOK
    <3>5. NavOK'
      BY <1>2, <1>5, <3>2, <3>3 DEF LinkContext, NavOK, EffectDue
    <3>6. PartsOK'
      BY <1>2, <1>5, <3>2, SameKind DEF LinkContext, PartsOK, Followed, WidgetFits
    <3>7. QED
      BY <3>4, <3>5, <3>6
  <2>4. QED
    BY <2>1, <2>2, <2>3
<1>11. CASE \E url \in Urls, hash \in Hashes : Navigate(url, hash)
  BY <1>5, <1>11, NavigateKeepsLink
<1>12. CASE Rerender
  BY <1>5, <1>12, RerenderKeepsLink
<1>13. CASE TimerFires
  BY <1>5, <1>13, TimerKeepsLink
<1>14. CASE ChangeChannel
  <2>1. /\ UNCHANGED <<params, effect, fetches, shown, mounted, table, posts, playbook>>
        /\ nav' = [nav EXCEPT !.previousHash = Absent]
    BY <1>14 DEF ChangeChannel, hookVars, contents
  <2>2. NavRight(nav)
    BY <1>5 DEF LinkContext, NavOK
  <2>3. /\ DOMAIN nav' = NavFields /\ nav'.previousHash = Absent
        /\ nav'.hash = nav.hash /\ nav'.timers = nav.timers /\ nav'.link = nav.link
        /\ nav'.rushed = nav.rushed /\ nav'.missed = nav.missed
    BY <2>1, <2>2 DEF NavRight, NavFields
  <2>4. NavRight(nav')
    BY <2>2, <2>3 DEF NavRight
  <2>5. LinkTypeOK'
    BY <1>2, <1>5, <2>1, SameKind DEF LinkContext, LinkTypeOK
  <2>6. NavOK'
    BY <1>2, <1>5, <2>1, <2>3, <2>4 DEF LinkContext, NavOK, EffectDue
  <2>7. PartsOK'
    BY <1>2, <1>5, <2>1, <2>3, SameKind DEF LinkContext, PartsOK, Followed, WidgetFits
  <2>8. QED
    BY <2>5, <2>6, <2>7
<1>15. CASE TableStep \/ PlaybookStep \/ PostsStep
  BY <1>5, <1>15, ChoiceKeepsLink
<1>16. CASE \/ OtherParams \/ GraphStep \/ FormStep \/ ChannelAdded
            \/ NewsStep \/ PolicyStep \/ PolicyServed
  BY <1>6, <1>16
  DEF OtherParams, GraphStep, FormStep, ChannelAdded, NewsStep, PolicyStep, PolicyServed
<1>17. QED
  BY <1>7, <1>8, <1>9, <1>10, <1>11, <1>12, <1>13, <1>14, <1>15, <1>16 DEF Next

(* A later row or post is on a later page, or on the same one.  *)
LEMMA PagesGrow ==
  ASSUME NEW perPage \in Nat \ {0}, NEW i \in Nat \ {0}, NEW n \in Nat, i <= n
  PROVE  /\ PageOfPost(i, perPage) \in Nat \ {0}
         /\ PageOfPost(n, perPage) \in Nat \ {0}
         /\ PageOfPost(i, perPage) <= PageOfPost(n, perPage)
<1> DEFINE q == (i - 1) \div perPage
           r == (n - 1) \div perPage
<1>1. /\ q \in Nat /\ perPage * q <= i - 1
      /\ r \in Nat /\ n - 1 < perPage * (r + 1)
  OBVIOUS
<1>2. q <= r
  <2> HIDE DEF q, r
  <2>1. SUFFICES ASSUME r + 1 <= q PROVE FALSE
    BY <1>1
  <2>2. perPage * (r + 1) <= perPage * q
    BY <1>1, <2>1
  <2>3. QED
    BY <1>1, <2>2
<1>3. QED
  BY <1>1, <1>2 DEF PageOfPost

(* The part is on the screen, if the widget fits its hash.  *)
LEMMA TableShowsPart ==
  ASSUME DOMAIN table = TableFields, table.same, ~table.touched, table.sorter = Absent,
         NEW n \in Nat, DOMAIN RowsOf(shown) = 1 .. n, Len(RowsOf(shown)) = n,
         NEW link, TableFits(table, RowsOf(shown), link),
         NEW i \in FirstContained(RowsOf(shown), link), RowsOf(shown)[i] = link
  PROVE  link \in RowsShown(table, RowsOf(shown))
<1> DEFINE rows == RowsOf(shown)
<1>1. i \in 1 .. n
  BY DEF FirstContained
<1>2. table.currentPage = pageOf(i) /\ Listed(table, rows) = rows
  BY DEF TableFits, Listed
<1>3. pageOf(i) = PageOfPost(i, ROW_PER_PAGE) /\ pageOf(n) = PageOfPost(n, ROW_PER_PAGE)
  BY DEF pageOf, PageOfPost
<1>4. /\ pageOf(i) \in Nat /\ pageOf(n) \in Nat
      /\ pageOf(i) <= pageOf(n)
  <2>1. ROW_PER_PAGE \in Nat \ {0} /\ i \in Nat \ {0} /\ i <= n
    BY <1>1, RowPerPageAssumption
  <2>2. /\ PageOfPost(i, ROW_PER_PAGE) \in Nat \ {0}
        /\ PageOfPost(n, ROW_PER_PAGE) \in Nat \ {0}
        /\ PageOfPost(i, ROW_PER_PAGE) <= PageOfPost(n, ROW_PER_PAGE)
    BY <2>1, PagesGrow
  <2>3. QED
    BY <1>3, <2>2
<1>5. LastPage(Len(rows)) = pageOf(n)
  BY <1>1 DEF LastPage
<1> HIDE DEF rows
<1>6. ShownPage(table, rows) = pageOf(i)
  BY <1>2, <1>4, <1>5 DEF ShownPage
<1>7. i \in DOMAIN rows /\ rows[i] = link
  BY <1>1 DEF rows
<1>8. QED
  BY <1>2, <1>6, <1>7 DEF RowsShown, Position, rows

LEMMA PostsShowPart ==
  ASSUME NEW p, NEW n \in Nat, NEW ids, DOMAIN ids = 1 .. n, Len(ids) = n, ~p.touched,
         NEW link, PostsFit(p, ids, link),
         NEW i \in FirstContained(ids, link), ids[i] = link
  PROVE  link \in PostsShown(p, ids)
<1> DEFINE page == PageOfPost(i, POSTS_PER_PAGE)
           last == PageOfPost(n, POSTS_PER_PAGE)
<1>1. i \in 1 .. n
  BY DEF FirstContained
<1>2. p.currentPage = page
  BY DEF PostsFit
<1>3. page \in Nat \ {0} /\ last \in Nat \ {0} /\ page <= last
  <2>1. POSTS_PER_PAGE \in Nat \ {0} /\ i \in Nat \ {0} /\ i <= n
    BY <1>1, PostsAssumption
  <2>2. QED
    BY <2>1, PagesGrow
<1> HIDE DEF page, last
<1>4. Max({1, last}) = last /\ Min({page, last}) = page
  <2>1. 1 \in Int /\ page \in Int /\ last \in Int /\ 1 <= last
    BY <1>3
  <2>2. Max({1, last}) = IF 1 <= last THEN last ELSE 1
    BY <2>1, OfTwo
  <2>3. Min({page, last}) = IF page <= last THEN page ELSE last
    BY <2>1, OfTwo
  <2>4. QED
    BY <1>3, <2>1, <2>2, <2>3
<1>5. PageOnScreen(p, Len(ids), POSTS_PER_PAGE) = page
  BY <1>2, <1>4 DEF PageOnScreen, last
<1>6. QED
  BY <1>1, <1>5 DEF PostsShown, page

(* A link to a row, a post or a part of a playbook turns the table or the  *)
(* list to its page, or selects it, however late the data arrive: unless   *)
(* the user chooses another one or has the table sorted, an earlier one's  *)
(* id is part of the hash, or timers of an earlier link, or one that fires *)
(* too early, clear it.                                                    *)
THEOREM LinkedPartIsShownTheorem == Spec => []LinkedPartIsShown
<1>1. ASSUME LinkInv PROVE LinkedPartIsShown
  <2> DEFINE parts ==
        CASE /\ IsTable /\ mounted /\ table.same
             /\ ~table.touched /\ table.sorter = Absent -> RowsOf(shown)
          [] IsPosts /\ mounted /\ ~posts.touched -> PostsOf(shown)
          [] IsPlaybook /\ mounted /\ ~playbook.touched -> ReferencesOf(shown) \o WorkflowOf(shown)
          [] OTHER -> <<>>
  <2> SUFFICES ASSUME ~nav.rushed, ~nav.missed,
                      NEW i \in FirstContained(parts, nav.link), parts[i] = nav.link
               PROVE  nav.link \in Elements
    BY DEF LinkedPartIsShown
  <2>1. nav.link # Absent
    BY NoneInAbsent
  <2>2. FirstContained(<<>>, nav.link) = {}
    BY DEF FirstContained
  <2>3. HasParts /\ mounted
    BY <2>2 DEF HasParts
  <2>4. LinkTypeOK /\ PartsOK /\ Followed
    BY <1>1, <2>1, <2>3 DEF LinkInv, Followed
  <2>5. WidgetFits(table, posts, playbook, shown, nav.link)
    BY <2>4 DEF PartsOK
  <2>6. /\ \E n \in Nat : DOMAIN RowsOf(shown) = 1 .. n /\ Len(RowsOf(shown)) = n
        /\ \E n \in Nat : DOMAIN PostsOf(shown) = 1 .. n /\ Len(PostsOf(shown)) = n
    BY <2>4, AnswersAreParts DEF LinkTypeOK
  <2>7. CASE IsTable
    <3>1. ~IsPosts /\ ~IsPlaybook /\ ~IsNews /\ ~IsGraph
      BY <2>3, <2>7, OneKind
    <3>2. table.same /\ ~table.touched /\ table.sorter = Absent /\ parts = RowsOf(shown)
      BY <2>2, <2>7, <3>1
    <3>3. DOMAIN table = TableFields /\ TableFits(table, RowsOf(shown), nav.link)
      BY <2>4, <2>5, <2>7, <3>2 DEF LinkTypeOK, WidgetFits
    <3> HIDE DEF parts
    <3>4. nav.link \in RowsShown(table, RowsOf(shown))
      BY <2>6, <3>2, <3>3, TableShowsPart
    <3>5. QED
      BY <2>7, <3>1, <3>4 DEF Elements
  <2>8. CASE IsPosts
    <3>1. ~IsTable /\ ~IsPlaybook /\ ~IsNews /\ ~IsGraph
      BY <2>3, <2>8, OneKind
    <3>2. ~posts.touched /\ parts = PostsOf(shown)
      BY <2>2, <2>8, <3>1
    <3>3. PostsFit(posts, PostsOf(shown), nav.link)
      BY <2>5, <2>8 DEF WidgetFits
    <3> HIDE DEF parts
    <3>4. nav.link \in PostsShown(posts, PostsOf(shown))
      BY <2>6, <3>2, <3>3, PostsShowPart
    <3>5. QED
      BY <2>8, <3>1, <3>4 DEF Elements
  <2>9. CASE IsPlaybook
    <3>1. ~IsTable /\ ~IsPosts /\ ~IsNews /\ ~IsGraph
      BY <2>3, <2>9, OneKind
    <3>2. ~playbook.touched /\ parts = PartsOf(shown)
      BY <2>2, <2>9, <3>1 DEF PartsOf
    <3>3. PlaybookFits(playbook, PartsOf(shown), nav.link)
      BY <2>5, <2>9 DEF WidgetFits
    <3> HIDE DEF parts
    <3>4. nav.link \in {playbook.step, playbook.reference}
      BY <3>2, <3>3 DEF PlaybookFits
    <3>5. nav.link \in PlaybookElements(playbook)
      BY <2>1, <3>4 DEF PlaybookElements
    <3>6. QED
      BY <2>9, <3>1, <3>5 DEF Elements
  <2>10. QED
    BY <2>3, <2>7, <2>8, <2>9 DEF HasParts
<1>2. LinkInv /\ [Next]_vars => LinkInv'
  BY LinkInvStep
<1>3. QED
  BY <1>1, <1>2, LinkInvInit, PTL DEF Spec

=============================================================================
