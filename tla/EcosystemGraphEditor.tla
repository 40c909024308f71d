------------------------- MODULE EcosystemGraphEditor -------------------------
(***************************************************************************)
(* The editors of the ecosystem graph, composed with the data provider:    *)
(* EcosystemGraphWrapper (webapp, widgets/graph/wrappers/ecosystem_graph_  *)
(* wrapper.tsx), the EditableGraph it renders and the calls of clients/    *)
(* external_client.ts.                                                     *)
(*                                                                         *)
(* A client is one mount of the wrapper: opening the dialog again is       *)
(* another client.  Every callback, effect, timer and continuation after   *)
(* an await is an action of its own, as the browser runs them; requests    *)
(* travel through the provider's `call'.                                   *)
(***************************************************************************)
EXTENDS EcosystemGraphProvider

CONSTANTS
  AutoSaves,       \* the values systemConfig.ecosystemGraphAutoSave may have
  AutoSaveDelay,   \* max(systemConfig.ecosystemGraphAutoSaveDelay, 1)
  RESET_LOCK_DELAY \* how long a refused client shows Busy

ASSUME EditorAssumption ==
  /\ AutoSaves \in SUBSET BOOLEAN \ {{}}
  /\ AutoSaveDelay \in LockDelays \ {0}
  /\ RESET_LOCK_DELAY \in Nat \ {0}

VARIABLES
  editor, \* the component state of each client
  pending \* what each request in flight will be followed by

clientVars == <<editor, pending>>
editorVars == <<now, lockOwner, lockExpiresAt, graph, call, editor, pending>>

(* The functions that await the requests of a closing editor.              *)
Closings == {"updateGraphClose", "closeEditMode"}

(* The state of an editor before it is mounted; then it is loading, open   *)
(* and, in the end, gone.  In place of NoNodes the code has undefined.     *)
ClosedEditor ==
  [phase |-> "closed",
   autoSave |-> FALSE, \* the configuration its page was loaded with
   serverGraphData |-> NoNodes,
   updatedData |-> NoNodes, \* what the wrapper saves: updatedDataRef
   shown |-> NoNodes,       \* what EditableGraph draws: its nodes and edges
   isEditing |-> FALSE,
   lockStatus |-> "NotRequested", \* or "Acquired", "Busy"
   intervalDue |-> 0,  \* next tick of the interval, 0 without one
   busyUntil |-> 0]    \* when Busy is reset, 0 without a timeout

(* The function that awaits a request, refreshLock, updateGraph or one of  *)
(* Closings, with the graph its closure captured.                          *)
NotPending == [fn |-> "none", graph |-> NoNodes]

EditorInit ==
  /\ ProviderInit
  /\ editor = [c \in Clients |-> ClosedEditor]
  /\ pending = [k \in Calls |-> NotPending]

Await(k, fn, captured) ==
  pending' = [pending EXCEPT ![k] = [fn |-> fn, graph |-> captured]]

(* refreshEcosystemGraphLock(url, userID, autoSaveDelay, data). *)
Refresh(k, c, data) == RequestLock(k, c, data, AutoSaveDelay)

(* Mutant: the timeout is armed again by every refusal. *)
WithLockStatusRearmed(ed, status) ==
  [ed EXCEPT !.lockStatus = status,
             !.busyUntil = IF status = "Busy" THEN now + RESET_LOCK_DELAY ELSE 0]

(* setLockStatus, with the effect that arms a timeout when the status      *)
(* becomes Busy and clears it when the status changes again.               *)
WithLockStatus(ed, status) ==
  [ed EXCEPT !.lockStatus = status,
             !.busyUntil = IF status # "Busy" THEN 0
                           ELSE IF ed.lockStatus = "Busy" THEN ed.busyUntil
                           ELSE now + RESET_LOCK_DELAY]

(* The reply to refreshEcosystemGraphLock as its callers see it: only a    *)
(* 409 is a refusal, every other status counts as success.                 *)
LockAcquired(k) == call[k].stage \in {"ok", "error"}

(* setState does nothing once the component is gone. *)
SetEditor(c, ed) ==
  editor' = IF editor[c].phase = "gone" THEN editor
            ELSE [editor EXCEPT ![c] = ed]

editEnabled(c) ==
  editor[c].phase = "open" /\ editor[c].lockStatus = "Acquired"

(* c has asked to stop editing and has not had the answer. *)
Closing(c) == \E k \in Outstanding(c) : pending[k].fn \in Closings

------------------------------------------------------------------------------
(* Mounting, loading, unmounting.                                           *)

(* The dialog opens.  Each page has read the system configuration once;    *)
(* pages of before and after a change of it edit side by side.             *)
Mount(c) ==
  /\ editor[c].phase = "closed"
  /\ \E auto \in AutoSaves :
       editor' = [editor EXCEPT ![c].phase = "loading", ![c].autoSave = auto]
  /\ UNCHANGED <<now, lockOwner, lockExpiresAt, graph, call, pending>>

(* useEcosystemGraphData fetches the graph, once per mount; the effects    *)
(* that follow fill updatedData from it, and EditableGraph its nodes.      *)
Load(c) ==
  /\ editor[c].phase = "loading"
  /\ editor' = [editor EXCEPT ![c].phase = "open",
                              ![c].serverGraphData = graph,
                              ![c].updatedData = graph,
                              ![c].shown = graph]
  /\ UNCHANGED <<now, lockOwner, lockExpiresAt, graph, call, pending>>

(* Mutant: the cleanup saves whatever the configuration says. *)
DestroySaving(c, k) ==
  /\ editor[c].phase \in {"loading", "open"}
  /\ call[k].stage = "idle"
  /\ editor' = [editor EXCEPT ![c].phase = "gone", ![c].busyUntil = 0]
  /\ Refresh(k, c, editor[c].updatedData)
  /\ Await(k, "updateGraphClose", editor[c].updatedData)

(* The cleanup effect.  Its closure is the first render's, where           *)
(* intervalID is undefined: clearInterval clears nothing.                  *)
Destroy(c, k) ==
  /\ editor[c].phase \in {"loading", "open"}
  /\ call[k].stage = "idle"
  /\ editor' = [editor EXCEPT ![c].phase = "gone", ![c].busyUntil = 0]
  /\ \/ /\ editor[c].autoSave
        /\ Refresh(k, c, editor[c].updatedData)
        /\ Await(k, "updateGraphClose", editor[c].updatedData)
     \/ /\ ~editor[c].autoSave
        /\ RequestDropLock(k, c)
        /\ Await(k, "closeEditMode", NoNodes)

------------------------------------------------------------------------------
(* What the user does.                                                      *)

(* Mutant: the lock is asked for once and never refreshed. *)
ClickEditWithoutInterval(c, k) ==
  /\ editor[c].phase = "open"
  /\ editor[c].lockStatus = "NotRequested"
  /\ ~editor[c].isEditing
  /\ call[k].stage = "idle"
  /\ editor' = [editor EXCEPT ![c].isEditing = TRUE]
  /\ Refresh(k, c, NoNodes)
  /\ Await(k, "refreshLock", NoNodes)

(* The Edit button, with the effect on isEditing: the previous interval is *)
(* cleared, the lock asked for, and a new interval started.                *)
ClickEdit(c, k) ==
  /\ editor[c].phase = "open"
  /\ editor[c].lockStatus = "NotRequested"
  /\ ~editor[c].isEditing
  /\ call[k].stage = "idle"
  /\ editor' = [editor EXCEPT ![c].isEditing = TRUE,
                              ![c].intervalDue = now + AutoSaveDelay]
  /\ Refresh(k, c, NoNodes)
  /\ Await(k, "refreshLock", NoNodes)

(* addChildNode, onConnect: the element is added to what is shown, and to  *)
(* updatedData as it stands.                                               *)
AddElement(c, e) ==
  /\ editEnabled(c)
  /\ e \notin editor[c].shown
  /\ editor' = [editor EXCEPT ![c].shown = @ \cup {e},
                              ![c].updatedData = @ \cup {e}]
  /\ UNCHANGED <<now, lockOwner, lockExpiresAt, graph, call, pending>>

(* updateNodeData: updatedData takes every node that is shown. *)
ChangeNode(c, e) ==
  /\ editEnabled(c)
  /\ e \notin editor[c].shown
  /\ editor' = [editor EXCEPT ![c].shown = @ \cup {e},
                              ![c].updatedData = editor[c].shown \cup {e}]
  /\ UNCHANGED <<now, lockOwner, lockExpiresAt, graph, call, pending>>

(* The Save button, and its entry "Save and stop editing". *)
ClickSave(c, k) ==
  /\ editEnabled(c)
  /\ call[k].stage = "idle"
  /\ Refresh(k, c, editor[c].updatedData)
  /\ \/ Await(k, "updateGraph", editor[c].updatedData)
     \/ Await(k, "updateGraphClose", editor[c].updatedData)
  /\ UNCHANGED editor

(* The entry "Stop editing without saving", absent with autosave: resetData*)
(* is the one of the current render.                                       *)
ClickStop(c, k) ==
  /\ ~editor[c].autoSave
  /\ editEnabled(c)
  /\ call[k].stage = "idle"
  /\ RequestDropLock(k, c)
  /\ Await(k, "closeEditMode", editor[c].serverGraphData)
  /\ UNCHANGED editor

------------------------------------------------------------------------------
(* Timers.                                                                  *)

(* The interval: updateGraph with autosave, else refreshLock.  It outlives *)
(* the edit session and the component.                                     *)
IntervalFires(c, k) ==
  /\ editor[c].intervalDue = now
  /\ now # 0
  /\ call[k].stage = "idle"
  /\ editor' = [editor EXCEPT ![c].intervalDue = now + AutoSaveDelay]
  /\ \/ /\ editor[c].autoSave
        /\ Refresh(k, c, editor[c].updatedData)
        /\ Await(k, "updateGraph", editor[c].updatedData)
     \/ /\ ~editor[c].autoSave
        /\ Refresh(k, c, NoNodes)
        /\ Await(k, "refreshLock", NoNodes)

(* The timeout armed when the status became Busy. *)
BusyTimeout(c) ==
  /\ editor[c].busyUntil = now
  /\ now # 0
  /\ editor' = [editor EXCEPT ![c] = WithLockStatus(@, "NotRequested")]
  /\ UNCHANGED <<now, lockOwner, lockExpiresAt, graph, call, pending>>

(* Time passes when no timer is due: a timer fires in the instant it is    *)
(* due, its delay being part of MaxRoundTrip.                              *)
Elapse ==
  /\ now # 0 => \A c \in Clients : now \notin {editor[c].intervalDue, editor[c].busyUntil}
  /\ Tick
  /\ UNCHANGED clientVars

------------------------------------------------------------------------------
(* The continuations after each await.                                      *)

Done(k) == pending' = [pending EXCEPT ![k] = NotPending]

(* A failed connection throws: the rest of the function does not run. *)
Throws(k) ==
  /\ \/ call[k].stage = "lost"
     \/ call[k].stage = "error" /\ call[k].endpoint = "drop_lock"
  /\ Receive(k)
  /\ Done(k)
  /\ UNCHANGED editor

(* Mutant: a refusal is not shown. *)
AfterRefreshIgnoringRefusal(k) ==
  LET c == call[k].from IN
  /\ pending[k].fn \in {"refreshLock", "updateGraph"}
  /\ \/ /\ LockAcquired(k)
        /\ SetEditor(c, WithLockStatus(editor[c], "Acquired"))
     \/ /\ call[k].stage = "conflict"
        /\ UNCHANGED editor
  /\ Receive(k)
  /\ Done(k)

(* The rest of refreshLock, and of updateGraph without close.              *)
(* setServerGraphData makes the effect on serverGraphData reset            *)
(* updatedData to the graph that was sent.                                 *)
AfterRefresh(k) ==
  LET c == call[k].from
      ed == editor[c]
      saved == IF pending[k].fn = "refreshLock" THEN ed
               ELSE [ed EXCEPT !.serverGraphData = pending[k].graph,
                               !.updatedData = pending[k].graph]
  IN
  /\ pending[k].fn \in {"refreshLock", "updateGraph"}
  /\ \/ /\ LockAcquired(k)
        /\ SetEditor(c, WithLockStatus(saved, "Acquired"))
     \/ /\ call[k].stage = "conflict"
        /\ SetEditor(c, [WithLockStatus(ed, "Busy") EXCEPT !.isEditing = FALSE])
  /\ Receive(k)
  /\ Done(k)

(* Mutant: a refused save is tried again before the lock is dropped. *)
AfterClosingSaveRetrying(k) ==
  /\ pending[k].fn = "updateGraphClose"
  /\ call[k].endpoint = "lock"
  /\ \/ LockAcquired(k) /\ RequestDropLock(k, call[k].from)
     \/ /\ call[k].stage = "conflict"
        /\ Refresh(k, call[k].from, pending[k].graph)
  /\ UNCHANGED clientVars

(* updateGraph(true): whatever the reply, it drops the lock and awaits. *)
AfterClosingSave(k) ==
  /\ pending[k].fn = "updateGraphClose"
  /\ call[k].endpoint = "lock"
  /\ call[k].stage \in {"ok", "conflict", "error"}
  /\ RequestDropLock(k, call[k].from)
  /\ UNCHANGED clientVars

(* The rest of updateGraph(true) and of closeEditMode, once the lock is    *)
(* dropped.  closeEditMode also resets what is shown.                      *)
AfterDrop(k) ==
  LET c == call[k].from
      ed == [WithLockStatus(editor[c], "NotRequested") EXCEPT !.isEditing = FALSE]
      reset == [ed EXCEPT !.updatedData = pending[k].graph,
                          !.shown = pending[k].graph]
  IN
  /\ call[k].endpoint = "drop_lock"
  /\ call[k].stage = "ok"
  /\ SetEditor(c, IF pending[k].fn = "closeEditMode" THEN reset ELSE ed)
  /\ Receive(k)
  /\ Done(k)

------------------------------------------------------------------------------
ServeOrLose(k) ==
  /\ Serve(k) \/ LoseRequest(k)
  /\ UNCHANGED clientVars

Continue(k) ==
  Throws(k) \/ AfterRefresh(k) \/ AfterClosingSave(k) \/ AfterDrop(k)

UserAction(c) ==
  \/ Mount(c)
  \/ \E e \in Edits : AddElement(c, e) \/ ChangeNode(c, e)
  \/ \E k \in Calls :
       Destroy(c, k) \/ ClickEdit(c, k) \/ ClickSave(c, k) \/ ClickStop(c, k)

Timer(c) == BusyTimeout(c) \/ \E k \in Calls : IntervalFires(c, k)

EditorNext ==
  \/ \E c \in Clients : UserAction(c) \/ Load(c) \/ Timer(c)
  \/ \E k \in Calls : ServeOrLose(k) \/ Continue(k)
  \/ Elapse

EditorSpec == EditorInit /\ [][EditorNext]_editorVars

------------------------------------------------------------------------------
(* A client that may edit, and has not asked to stop, holds an unexpired   *)
(* lease: its interval renews the lease in time, and nothing another       *)
(* client does takes it away.                                              *)
EditorHoldsLock ==
  \A c \in Clients :
    editEnabled(c) /\ ~Closing(c) =>
      lockOwner = UserOf[c] /\ now <= lockExpiresAt

(* An edit that was stored stays stored: no save overwrites it with a graph*)
(* loaded before it. (No edit here deletes anything.)                      *)
SavedWorkSurvives == [][graph \subseteq graph']_editorVars

(* Without autosave a user who only looks, in all its clients, takes no    *)
(* lease and changes no graph, not even by leaving: whoever does has been  *)
(* in an edit session, which its interval tells, or saves automatically.   *)
ViewersChangeNothing ==
  [][graph' # graph \/ lockOwner' \notin {NoOne, lockOwner} =>
       \E c \in Clients :
         /\ UserOf[c] = lockOwner'
         /\ editor[c].intervalDue # 0 \/ editor[c].autoSave
    ]_editorVars

------------------------------------------------------------------------------
(* Liveness.                                                                *)

(* The provider serves what it received, the browser runs continuations    *)
(* and due timers, and time goes on however fast the user clicks.  Nothing *)
(* makes the user act.                                                     *)
Fairness ==
  /\ \A k \in Calls : WF_editorVars(Serve(k) /\ UNCHANGED clientVars)
  /\ \A k \in Calls : WF_editorVars(Continue(k))
  /\ \A c \in Clients : WF_editorVars(Load(c)) /\ SF_editorVars(Timer(c))
  /\ SF_editorVars(Elapse)

FairEditorSpec == EditorSpec /\ Fairness

(* A click on Edit is answered: the client gets the lock, is told it is    *)
(* busy, or leaves.                                                        *)
EditAnswered ==
  \A c \in Clients :
    editor[c].isEditing /\ editor[c].lockStatus = "NotRequested"
      ~> \/ editor[c].lockStatus # "NotRequested"
         \/ ~editor[c].isEditing
         \/ editor[c].phase = "gone"

(* A refused client can try again: Busy is reset, provided the clock of    *)
(* the instance runs that far.                                             *)
BusyClears ==
  \A c \in Clients :
    editor[c].lockStatus = "Busy" /\ editor[c].busyUntil \in 1 .. MaxTime
      ~> editor[c].lockStatus # "Busy" \/ editor[c].phase = "gone"

(* Leaving the editor ends: the chain save, drop, reset is not left        *)
(* half-way.                                                               *)
ClosingEnds ==
  \A k \in Calls : pending[k].fn \in Closings ~> pending[k].fn = "none"
=============================================================================
