------------------------------ MODULE IssueWizard ------------------------------
(***************************************************************************)
(* The wizard that creates and updates issues: scenario_wizard_modal.tsx,  *)
(* its five steps, the pages that hold it, and the calls it makes.         *)
(*                                                                         *)
(* A user is on the page of the ecosystem, whose wizard creates, on that of*)
(* an issue, whose wizard updates, or away.  The wizard keeps the data it  *)
(* will send; the step that is shown has a copy of its part.  A click on   *)
(* Create starts a chain of calls, save and channel, one on Update the call*)
(* update, and one on Delete the chain delete and archive.  A chain goes on*)
(* when its page is left.                                                  *)
(*                                                                         *)
(* The provider's handlers are one step here; Issues has them in detail.   *)
(* The page of an issue is there once its issue has been fetched.  Error   *)
(* messages are left out.                                                  *)
(***************************************************************************)
EXTENDS FiniteSets, Naturals, Sequences

CONSTANTS
  Users,
  IssueIDs,
  Names,     \* names that an issue may have
  BadNames,  \* names that isNameCorrect refuses
  Texts,     \* objectives, and the contents of the items of lists
  Elements,  \* the elements of issues
  Options,   \* those that the organizations list now
  Blank,     \* the empty text
  Away,      \* no page with a wizard
  Ecosystem, \* the page of the ecosystem
  Slots,     \* bound: the chains that are under way at one time
  MaxEdits,  \* bound: the edits of one visit
  MaxVisits, \* bound: the visits of a user to pages
  MaxItems,  \* bound: the items of a list
  MaxFaults  \* bound: the calls that fail or are lost

ASSUME IssueWizardAssumption ==
  /\ Blank \notin Names \cup BadNames \cup Texts
  /\ Names \cap BadNames = {}
  /\ {Away, Ecosystem} \cap IssueIDs = {} /\ Away # Ecosystem
  /\ Options \subseteq Elements
  /\ MaxEdits \in Nat /\ MaxVisits \in Nat /\ MaxItems \in Nat
  /\ MaxFaults \in Nat

VARIABLES
  issue,  \* the stored issues, by ID
  live,   \* how many channels that are not archived an issue has
  user,   \* the page of each user, with its wizard
  chain,  \* the chains under way, by slot
  spoilt, \* issues one of whose calls failed, or deleted while being created
  faults  \* the calls that have failed or been lost

vars == <<issue, live, user, chain, spoilt, faults>>

emptyWizardData ==
  [name |-> Blank, objectives |-> Blank, outcomes |-> <<>>, roles |-> <<>>,
   elements |-> {}, attachments |-> <<>>]

Parts == DOMAIN emptyWizardData

(* The part of the data that each step edits; the first has the name, too. *)
getSteps == <<"objectives", "outcomes", "roles", "elements", "attachments">>

Stored == DOMAIN issue

(* The items but x.  SelectSeq as a function, for the proofs. *)
Without(items, x) ==
  LET kept[n \in 0 .. Len(items)] ==
        IF n = 0 THEN <<>>
        ELSE IF items[n] = x THEN kept[n - 1] ELSE Append(kept[n - 1], items[n])
  IN kept[Len(items)]

Filled(items) == Without(items, Blank)

(* The issue that handleOk sends: fillOutcomes and fillAttachments. *)
Submitted(data) ==
  [data EXCEPT !.outcomes = Filled(@), !.attachments = Filled(@)]

(* refreshWizardData: nothing before the organizations are loaded; elements*)
(* that they no longer list are dropped.                                   *)
refreshWizardData(prefill, options) ==
  IF options THEN [prefill EXCEPT !.elements = @ \cap Options]
  ELSE emptyWizardData

(* The wizard w with step k shown: the step copies its part, if it is not  *)
(* the first, which follows the data.  The fourth cannot be shown without  *)
(* its options: the page crashes.                                          *)
setCurrent(w, k) ==
  IF k = 4 /\ ~w.options THEN [w EXCEPT !.page = Away]
  ELSE IF k = w.current THEN w
  ELSE [w EXCEPT !.current = k,
                 !.local = IF k = 1 THEN <<>> ELSE w.data[getSteps[k]]]

(* Mutant: a cancelled wizard keeps what was typed. *)
cleanModalKeepingData(w) ==
  setCurrent([w EXCEPT !.visible = FALSE, !.touched = {}], 1)

(* Mutant: a closed wizard stays at its step. *)
cleanModalAtItsStep(w) ==
  [w EXCEPT !.visible = FALSE, !.touched = {},
            !.data = refreshWizardData(w.prefill, w.options)]

(* A closed wizard starts over. *)
cleanModal(w) ==
  [setCurrent(w, 1) EXCEPT !.visible = FALSE, !.touched = {},
                           !.data = refreshWizardData(w.prefill, w.options)]

(* A page that has just been opened. *)
Opened(page, prefill, visit) ==
  [page |-> page, visit |-> visit, edits |-> 0, visible |-> FALSE, options |-> FALSE,
   prefill |-> prefill, data |-> emptyWizardData, current |-> 1,
   local |-> <<>>, touched |-> {}]

DataOf(id) == [p \in Parts |-> issue[id][p]]

PrefillOf(page) == IF page \in Stored THEN DataOf(page) ELSE emptyWizardData

(* navigateToUrl: user u goes to a page, if that is not where u is.  The   *)
(* issue that a chain leads to is fetched at once.                         *)
Navigate(u, page) ==
  IF user[u].page = page THEN user
  ELSE [user EXCEPT ![u] = Opened(page, PrefillOf(page), @.visit + 1)]

(* One issue was stored earlier, with an element that has been deleted. *)
Init ==
  /\ \E id \in IssueIDs, n \in Names, t \in Texts :
       /\ issue = [i \in {id} |->
            [name |-> n, objectives |-> t, outcomes |-> <<t>>, roles |-> <<t>>,
             elements |-> Elements, attachments |-> <<t>>, deleted |-> FALSE]]
       /\ live = [i \in {id} |-> 1]
  /\ user = [u \in Users |-> Opened(Away, emptyWizardData, 0)]
  /\ chain = [s \in {} |-> 0]
  /\ spoilt = {} /\ faults = 0

------------------------------------------------------------------------------
(* Pages. *)

Enter(u, page) ==
  /\ user[u].page = Away /\ user[u].visit < MaxVisits
  /\ page \in Stored \cup {Ecosystem}
  /\ user' = Navigate(u, page)

Leave(u) ==
  /\ user[u].page # Away
  /\ user' = Navigate(u, Away)

(* useStepData has fetched the elements of the organizations, and the data *)
(* is refreshed.                                                           *)
OrganizationsLoaded(u) ==
  LET w == user[u] IN
  /\ w.page # Away /\ ~w.options
  /\ user' = [user EXCEPT ![u] =
       [w EXCEPT !.options = TRUE, !.touched = {},
                 !.data = refreshWizardData(w.prefill, TRUE)]]

------------------------------------------------------------------------------
(* The wizard. *)

(* The wizard of a page is shown: a click on Create, or on the pencil. *)
triggerEdit(u) ==
  /\ user[u].page # Away /\ ~user[u].visible
  /\ user' = [user EXCEPT ![u].visible = TRUE]

Showing(u) == user[u].page # Away /\ user[u].visible

(* Previous and Next. *)
StepTo(u, k) ==
  /\ Showing(u)
  /\ k \in {user[u].current - 1, user[u].current + 1} \cap 1 .. Len(getSteps)
  /\ user' = [user EXCEPT ![u] = setCurrent(@, k)]

handleCancel(u) ==
  /\ Showing(u)
  /\ user' = [user EXCEPT ![u] = cleanModal(@)]

(* An edit at step k that puts value into a part of the data. *)
SetWizardData(u, k, part, value) ==
  LET w == user[u] IN
  /\ Showing(u) /\ w.current = k /\ w.edits < MaxEdits
  /\ user' = [user EXCEPT ![u] =
       [w EXCEPT !.data[part] = value, !.touched = @ \cup {part},
                 !.edits = @ + 1, !.local = IF k = 1 THEN @ ELSE value]]

ObjectivesStep(u) ==
  \/ \E n \in Names \cup BadNames \cup {Blank} : SetWizardData(u, 1, "name", n)
  \/ \E t \in Texts \cup {Blank} : SetWizardData(u, 1, "objectives", t)

TechnologyStep(u) ==
  \E values \in SUBSET Options : SetWizardData(u, 4, "elements", values)

(* The items of a list: an item is changed, or Removed(i, items) are left. *)
ListStep(u, k, Removed(_, _)) ==
  LET items == user[u].local IN
  /\ user[u].current = k
  /\ \E i \in DOMAIN items :
       \/ \E t \in Texts \cup {Blank} :
            SetWizardData(u, k, getSteps[k], [items EXCEPT ![i] = t])
       \/ SetWizardData(u, k, getSteps[k], Removed(i, items))

(* Outcomes and attachments are removed by their text, *)
RemovedText(i, items) == Without(items, items[i])
OutcomesStep(u) == ListStep(u, 2, RemovedText)
AttachmentsStep(u) == ListStep(u, 5, RemovedText)

(* roles one by one. *)
RemovedAt(i, items) ==
  SubSeq(items, 1, i - 1) \o SubSeq(items, i + 1, Len(items))
RolesStep(u) == ListStep(u, 3, RemovedAt)

(* A blank item is added; the data will have it when an item is changed. *)
AddItem(u) ==
  LET w == user[u] IN
  /\ Showing(u) /\ w.current \in {2, 3, 5}
  /\ Len(w.local) < MaxItems
  /\ user' = [user EXCEPT ![u].local = Append(@, Blank)]

------------------------------------------------------------------------------
(* Chains of calls.  A call waits, and then has its answer. *)

Calls == {"save", "channel", "update", "delete", "archive"}
Answers == {"none", "ok", "error"}

UnderWay == DOMAIN chain
Put(s, c) == [r \in UnderWay \cup {s} |-> IF r = s THEN c ELSE chain[r]]
Gone(s) == [r \in UnderWay \ {s} |-> chain[r]]

(* A chain of user u about issue id that starts with a call.  A call update*)
(* remembers what its wizard was filled with, and which parts the user has *)
(* left alone since it was opened.                                         *)
Call(u, call, id) ==
  LET w == user[u] IN
  [user |-> u, visit |-> w.visit, call |-> call, answer |-> "none", id |-> id,
   sent |-> IF call = "delete" THEN emptyWizardData ELSE Submitted(w.data),
   prefill |-> IF call = "update" THEN w.prefill ELSE emptyWizardData,
   untouched |-> IF call = "update" /\ w.options THEN Parts \ w.touched ELSE {}]

(* isOk. *)
isOk(u) == user[u].data.name \notin BadNames

(* Create and Update, disabled without a name; both can be clicked again   *)
(* while a chain is under way.                                             *)
handleOk(u, s) ==
  LET page == user[u].page IN
  /\ Showing(u) /\ user[u].data.name # Blank
  /\ IF ~isOk(u)
     THEN /\ user' = [user EXCEPT ![u] = setCurrent(@, 1)]
          /\ UNCHANGED chain
     ELSE /\ s \notin UnderWay
          /\ chain' = Put(s, IF page = Ecosystem THEN Call(u, "save", Away)
                             ELSE Call(u, "update", page))
          /\ UNCHANGED user

(* Delete, on the page of an issue. *)
onDelete(u, s) ==
  /\ user[u].page \in Stored /\ ~user[u].visible
  /\ s \notin UnderWay
  /\ chain' = Put(s, Call(u, "delete", user[u].page))
  /\ UNCHANGED user

(* The wizard that started chain c, as F makes it, if it is still there. *)
WizardOf(c, F(_)) ==
  IF user[c.user].page # Away /\ user[c.user].visit = c.visit
  THEN [user EXCEPT ![c.user] = F(@)]
  ELSE user

(* The issue is stored: saveIssue goes on to its channel, *)
Saved(s) ==
  /\ chain[s].call = "save" /\ chain[s].answer = "ok"
  /\ chain' = Put(s, [chain[s] EXCEPT !.call = "channel", !.answer = "none"])
  /\ UNCHANGED <<user, spoilt, faults>>

(* and then to the page of the issue, wherever the user is. *)
ChannelAdded(s) ==
  LET c == chain[s] IN
  /\ c.call = "channel" /\ c.answer = "ok"
  /\ chain' = Gone(s)
  /\ user' = Navigate(c.user, c.id)
  /\ UNCHANGED <<spoilt, faults>>

(* editIssue closes the wizard and gives the page what was stored. *)
Updated(s) ==
  LET c == chain[s] IN
  /\ c.call = "update" /\ c.answer = "ok"
  /\ chain' = Gone(s)
  /\ user' = WizardOf(c, LAMBDA w : cleanModal([w EXCEPT !.prefill = c.sent]))
  /\ UNCHANGED <<spoilt, faults>>

(* Mutant: the chain ends with the issue's deletion. *)
DeletedOnly(s) ==
  /\ chain[s].call = "delete" /\ chain[s].answer = "ok"
  /\ chain' = Gone(s)
  /\ user' = Navigate(chain[s].user, Away)
  /\ UNCHANGED <<spoilt, faults>>

Deleted(s) ==
  /\ chain[s].call = "delete" /\ chain[s].answer = "ok"
  /\ chain' = Put(s, [chain[s] EXCEPT !.call = "archive", !.answer = "none"])
  /\ UNCHANGED <<user, spoilt, faults>>

Archived(s) ==
  /\ chain[s].call = "archive" /\ chain[s].answer = "ok"
  /\ chain' = Gone(s)
  /\ user' = Navigate(chain[s].user, Away)
  /\ UNCHANGED <<spoilt, faults>>

(* Call c fails, or its answer is lost. *)
Spoil(c) ==
  /\ spoilt' = spoilt \cup (IF c.call = "update" THEN {} ELSE {c.id} \cap IssueIDs)
  /\ faults < MaxFaults /\ faults' = faults + 1

(* An error ends a chain; saveIssue and editIssue show the first step. *)
Failed(s) ==
  LET c == chain[s] IN
  /\ c.answer = "error"
  /\ chain' = Gone(s)
  /\ user' = IF c.call \in {"save", "channel", "update"}
             THEN WizardOf(c, LAMBDA w : setCurrent(w, 1)) ELSE user
  /\ UNCHANGED <<spoilt, faults>>

(* The connection is lost, before or after the call is served: the error   *)
(* has no JSON for the handlers of saveIssue and editIssue, which throw.   *)
Lost(s) ==
  /\ chain' = Gone(s)
  /\ UNCHANGED user
  /\ Spoil(chain[s])

------------------------------------------------------------------------------
(* The provider and the plugin serve the calls. *)

(* The answer to update has what was stored, the one to save the new ID.   *)
AnswerWith(s, answer, id) ==
  chain' = Put(s, [chain[s] EXCEPT !.answer = answer, !.id = id,
                     !.sent = IF chain[s].call = "update" THEN @ ELSE emptyWizardData,
                     !.prefill = emptyWizardData, !.untouched = {}])

(* The issue is stored under a new ID, *)
ServeSave(s, id) ==
  LET c == chain[s] IN
  /\ c.call = "save" /\ id \in IssueIDs \ Stored
  /\ \A i \in Stored : issue[i].name # c.sent.name
  /\ issue' = [i \in Stored \cup {id} |-> IF i # id THEN issue[i] ELSE
       [p \in Parts \cup {"deleted"} |-> IF p = "deleted" THEN FALSE ELSE c.sent[p]]]
  /\ live' = [i \in Stored \cup {id} |-> IF i = id THEN 0 ELSE live[i]]
  /\ AnswerWith(s, "ok", id)
  /\ UNCHANGED <<spoilt, faults>>

(* unless any stored issue has the name, deleted ones included. *)
ServeRefused(s) ==
  LET c == chain[s] IN
  /\ c.call = "save"
  /\ \E i \in Stored : issue[i].name = c.sent.name
  /\ AnswerWith(s, "error", c.id)
  /\ UNCHANGED <<issue, live, spoilt, faults>>

ServeChannel(s) ==
  /\ chain[s].call = "channel"
  /\ live' = [live EXCEPT ![chain[s].id] = @ + 1]
  /\ AnswerWith(s, "ok", chain[s].id)
  /\ UNCHANGED <<issue, spoilt, faults>>

ServeUpdate(s) ==
  LET c == chain[s] IN
  /\ c.call = "update"
  /\ issue' = [issue EXCEPT ![c.id] =
       [p \in DOMAIN @ |-> IF p \in Parts THEN c.sent[p] ELSE @[p]]]
  /\ AnswerWith(s, "ok", c.id)
  /\ UNCHANGED <<live, spoilt, faults>>

ServeDelete(s) ==
  LET id == chain[s].id IN
  /\ chain[s].call = "delete"
  /\ issue' = [issue EXCEPT ![id].deleted = TRUE]
  /\ spoilt' = IF \E r \in UnderWay : chain[r].call \in {"save", "channel"} /\ chain[r].id = id
               THEN spoilt \cup {id} ELSE spoilt
  /\ AnswerWith(s, "ok", id)
  /\ UNCHANGED <<live, faults>>

ServeArchive(s) ==
  /\ chain[s].call = "archive"
  /\ live' = [live EXCEPT ![chain[s].id] = 0]
  /\ AnswerWith(s, "ok", chain[s].id)
  /\ UNCHANGED <<issue, spoilt, faults>>

(* The call fails.  DeleteIssue answers with 200 all the same. *)
ServeFails(s) ==
  LET c == chain[s] IN
  /\ AnswerWith(s, IF c.call = "delete" THEN "ok" ELSE "error", c.id)
  /\ Spoil(c)
  /\ UNCHANGED <<issue, live>>

------------------------------------------------------------------------------
Browse(u) == \/ \E page \in IssueIDs \cup {Ecosystem} : Enter(u, page)
             \/ Leave(u) \/ OrganizationsLoaded(u)

Wizard(u) == \/ triggerEdit(u) \/ handleCancel(u) \/ AddItem(u)
             \/ \E k \in DOMAIN getSteps : StepTo(u, k)
             \/ ObjectivesStep(u) \/ OutcomesStep(u) \/ RolesStep(u)
             \/ TechnologyStep(u) \/ AttachmentsStep(u)

Serve(s) == \/ \E id \in IssueIDs : ServeSave(s, id)
            \/ ServeRefused(s) \/ ServeChannel(s) \/ ServeUpdate(s)
            \/ ServeDelete(s) \/ ServeArchive(s) \/ ServeFails(s)

Receive(s) == Saved(s) \/ ChannelAdded(s) \/ Updated(s) \/ Deleted(s)
              \/ Archived(s) \/ Failed(s) \/ Lost(s)

Next ==
  \/ \E u \in Users : (Browse(u) \/ Wizard(u)) /\ UNCHANGED <<issue, live, chain, spoilt, faults>>
  \/ \E u \in Users, s \in Slots :
       (handleOk(u, s) \/ onDelete(u, s)) /\ UNCHANGED <<issue, live, spoilt, faults>>
  \/ \E s \in UnderWay : chain[s].answer = "none" /\ Serve(s) /\ UNCHANGED user
  \/ \E s \in UnderWay : Receive(s) /\ UNCHANGED <<issue, live>>

Spec == Init /\ [][Next]_vars

------------------------------------------------------------------------------
(* What the step on the screen shows is what will be sent, blank items     *)
(* aside. *)
ShowsData(w) ==
  LET part == getSteps[w.current] IN
  CASE w.current = 1 -> TRUE
    [] w.current = 4 -> w.local = w.data.elements
    [] OTHER -> Filled(w.local) = Filled(w.data[part])

(* A wizard on the screen stops showing what it will send in one case only:*)
(* the organizations arrive late and refresh its data.  No late answer, no *)
(* cancelled wizard and no change of step has that effect.                 *)
WhatIsShownIsSent ==
  [][\A u \in Users :
       LET w == user[u] IN
       ShowsData(w) /\ user'[u].options = w.options => ShowsData(user'[u])]_vars

(* The update of a served submission keeps what its user left alone, if the *)
(* issue is still what the wizard was filled with.                          *)
UntouchedPartsStay ==
  \A s \in UnderWay :
    LET c == chain[s] IN
    c.call = "update" /\ c.answer = "none" /\ ServeUpdate(s) =>
      (c.prefill = DataOf(c.id) =>
         \A p \in c.untouched :
           issue'[c.id][p] = refreshWizardData(c.prefill, TRUE)[p])

(* What a user leaves alone stays as it is: when an update is served, and  *)
(* the issue is still what the wizard was filled with, the parts not edited*)
(* since the wizard was opened keep their value, however often it was      *)
(* cancelled, refused or updated before; deleted elements aside.           *)
UntouchedPartsSurvive == [][UntouchedPartsStay]_vars

(* An issue has one channel that is not archived, and a deleted issue none,*)
(* once its chains are over: unless a call failed or was lost, or it was   *)
(* deleted while its creation was under way.                               *)
AChannelPerIssue ==
  \A id \in Stored \ spoilt :
    (\A s \in UnderWay : chain[s].id = id => chain[s].call = "update") =>
      live[id] = IF issue[id].deleted THEN 0 ELSE 1
=============================================================================
