---------------------------- MODULE EditableGraph ----------------------------
(***************************************************************************)
(* One mount of the editable ecosystem graph, with the graph's structure:  *)
(* EditableGraph (webapp, widgets/graph/editable_graph.tsx), the data that *)
(* its parent saves (wrappers/ecosystem_graph_wrapper.tsx) and the tables  *)
(* of the provider, whose edges refer to nodes by foreign keys.            *)
(*                                                                         *)
(* Who holds the lock, and when, is the matter of EcosystemGraphEditor:    *)
(* here nobody else wants it.  What is followed is a graph from the screen *)
(* to the database and back: `shown' is what ReactFlow draws,              *)
(* `updatedData' what the parent will send, and every handler changes both *)
(* in its own way.                                                         *)
(***************************************************************************)
EXTENDS Naturals

CONSTANTS
  NodeIDs, EdgeIDs, \* the identifiers uuidv4 may return, and root
  root,             \* the node that is always there in a new graph
  NoID,             \* an absent parent or selection
  Contents,         \* label, description and kind of a node, as one value
  NewContent,       \* those of a node that was just made
  EdgeKinds,
  managedBy,        \* EDGE_TYPE_MANAGED_BY
  InitialGraphs,    \* what may be stored when the editor is opened
  Calls,            \* the requests in flight at once
  MaxFaults,        \* failed requests and lost connections
  MaxEdits          \* edits of the user

VARIABLES
  shown,           \* nodes and edges of EditableGraph
  updatedData,     \* what the wrapper saves
  serverGraphData, \* what the wrapper takes for stored
  selected,        \* the id of nodeSelectionData, or of edgeSelectionData
  lockStatus, isEditing,
  interval,        \* whether the interval has been started
  autoSave,        \* systemConfig.ecosystemGraphAutoSave
  mounted,
  call,            \* the requests, with what awaits them
  stored,          \* the tables of the provider
  faults, edits,
  spoilt           \* whether shown and updatedData may have come apart

graphVars == <<shown, updatedData, serverGraphData, selected>>
modeVars == <<lockStatus, isEditing, interval, autoSave, mounted>>
vars == <<graphVars, modeVars, call, stored, faults, edits, spoilt>>

PartialFunctions(S, T) == UNION {[D -> T] : D \in SUBSET S}

Edge == [source : NodeIDs, target : NodeIDs, kind : EdgeKinds]
Edges == PartialFunctions(EdgeIDs, Edge)

(* What travels and is stored; the browser draws nodes with their parents. *)
EcosystemGraph == [nodes : PartialFunctions(NodeIDs, Contents), edges : Edges]
NoGraph == [nodes |-> <<>>, edges |-> <<>>]

(* Edges join nodes of their graph: what the foreign keys of the table of  *)
(* edges ask for.                                                          *)
Joined(g) ==
  \A e \in DOMAIN g.edges :
    {g.edges[e].source, g.edges[e].target} \subseteq DOMAIN g.nodes

ASSUME EditableGraphAssumption ==
  /\ root \in NodeIDs
  /\ NoID \notin NodeIDs \cup EdgeIDs
  /\ NodeIDs \cap EdgeIDs = {}
  /\ NewContent \in Contents
  /\ managedBy \in EdgeKinds
  /\ InitialGraphs \subseteq {g \in EcosystemGraph : Joined(g)}
  /\ {MaxFaults, MaxEdits} \subseteq Nat

Without(f, S) == [x \in DOMAIN f \ S |-> f[x]]
With(f, x, value) == [y \in DOMAIN f \cup {x} |-> IF y = x THEN value ELSE f[y]]

(* The edges at one of the nodes in S. *)
EdgesAt(edges, S) ==
  {e \in DOMAIN edges : {edges[e].source, edges[e].target} \cap S # {}}

(* updateGraph: what is sent of a graph. *)
mappedData(g) ==
  [nodes |-> [n \in DOMAIN g.nodes |-> g.nodes[n].content], edges |-> g.edges]

(* resetData: what updatedData becomes for a graph of the provider.        *)
resetData(d) ==
  [nodes |-> [n \in DOMAIN d.nodes |-> [content |-> d.nodes[n], parent |-> NoID]],
   edges |-> d.edges]

Closings == {"updateGraphClose", "closeEditMode"}

(* A call that awaits nothing; graph is what is sent, or what              *)
(* closeEditMode resets to.                                                *)
Idle == [fn |-> "none", endpoint |-> "lock", stage |-> "idle", graph |-> NoGraph]

------------------------------------------------------------------------------
(* The effects that follow a change.                                        *)

RootGraph ==
  [nodes |-> [n \in {root} |-> [content |-> NewContent, parent |-> NoID]],
   edges |-> <<>>]

(* When the sync effect takes the parent's data: on a reset, or when less  *)
(* than two nodes are shown and they are not those of the parent.          *)
TakesParentData(sh, data, resetNodes) ==
  \/ resetNodes
  \/ /\ \A m, n \in DOMAIN sh.nodes : m = n
     /\ DOMAIN sh.nodes = {} \/ DOMAIN sh.nodes # DOMAIN data.nodes

ParentData(data) == IF DOMAIN data.nodes = {} THEN RootGraph ELSE data

(* What is shown, and the data to save, after the effect.                  *)
RenderedShown(sh, data, resetNodes) ==
  IF TakesParentData(sh, data, resetNodes) THEN ParentData(data) ELSE sh

RenderedData(sh, data, resetNodes) ==
  IF TakesParentData(sh, data, resetNodes) THEN ParentData(data) ELSE data

(* Handlers have left sh and data, and the effect runs. *)
Render(sh, data, resetNodes) ==
  /\ shown' = RenderedShown(sh, data, resetNodes)
  /\ updatedData' = RenderedData(sh, data, resetNodes)

EditorInit ==
  /\ stored \in InitialGraphs
  /\ serverGraphData = stored
  /\ updatedData = ParentData(resetData(stored))
  /\ shown = updatedData
  /\ selected = NoID
  /\ lockStatus = "NotRequested"
  /\ isEditing = FALSE
  /\ interval = FALSE
  /\ autoSave \in BOOLEAN
  /\ mounted = TRUE
  /\ call = [k \in Calls |-> Idle]
  /\ faults = 0
  /\ edits = 0
  /\ spoilt = FALSE

editEnabled == mounted /\ lockStatus = "Acquired"

------------------------------------------------------------------------------
(* Editing.                                                                 *)

(* What carries an identifier: uuidv4 returns one that nothing carries, and*)
(* which one makes no difference.                                          *)
UsedNodes ==
  DOMAIN shown.nodes \cup DOMAIN updatedData.nodes \cup DOMAIN serverGraphData.nodes
    \cup DOMAIN stored.nodes \cup {selected}
    \cup UNION {DOMAIN call[k].graph.nodes : k \in Calls}
UsedEdges ==
  DOMAIN shown.edges \cup DOMAIN updatedData.edges \cup DOMAIN serverGraphData.edges
    \cup DOMAIN stored.edges \cup {selected}
    \cup UNION {DOMAIN call[k].graph.edges : k \in Calls}

FreshNodes == NodeIDs \ UsedNodes
FreshEdges == EdgeIDs \ UsedEdges
newNode == CHOOSE n \in FreshNodes : TRUE
newEdge == CHOOSE e \in FreshEdges : TRUE

Edited ==
  /\ edits < MaxEdits
  /\ edits' = edits + 1
  /\ UNCHANGED <<serverGraphData, modeVars, call, stored, faults>>

NewEdge(s, t) == [source |-> s, target |-> t, kind |-> managedBy]

WithChild(g, p, n, e) ==
  [nodes |-> With(g.nodes, n, [content |-> NewContent, parent |-> p]),
   edges |-> With(g.edges, e, NewEdge(p, n))]

(* An edge drawn from p to the canvas makes a node there. *)
addChildNode(p) ==
  /\ editEnabled
  /\ p \in DOMAIN shown.nodes
  /\ FreshNodes # {}
  /\ FreshEdges # {}
  /\ Render(WithChild(shown, p, newNode, newEdge),
            WithChild(updatedData, p, newNode, newEdge), FALSE)
  /\ UNCHANGED <<selected, spoilt>>
  /\ Edited

(* addEdge of ReactFlow: two nodes are joined once in a direction. *)
HasEdge(g, s, t) ==
  \E e \in DOMAIN g.edges : g.edges[e].source = s /\ g.edges[e].target = t

(* An edge drawn from one node to another.  It is always added to the data *)
(* to save, also when it is not drawn for there is one already.            *)
onConnect(s, t) ==
  /\ editEnabled
  /\ {s, t} \subseteq DOMAIN shown.nodes
  /\ FreshEdges # {}
  /\ Render(IF HasEdge(shown, s, t) THEN shown
            ELSE [shown EXCEPT !.edges = With(@, newEdge, NewEdge(s, t))],
            [updatedData EXCEPT !.edges = With(@, newEdge, NewEdge(s, t))],
            FALSE)
  /\ spoilt' = (spoilt \/ HasEdge(shown, s, t))
  /\ UNCHANGED selected
  /\ Edited

onNodeClick(n) ==
  /\ mounted
  /\ edits < MaxEdits
  /\ n \in DOMAIN shown.nodes
  /\ selected' = n
  /\ UNCHANGED <<shown, updatedData, serverGraphData, modeVars, call, stored, faults, edits, spoilt>>

onEdgeClick(e) ==
  /\ mounted
  /\ edits < MaxEdits
  /\ e \in DOMAIN shown.edges
  /\ selected' = e
  /\ UNCHANGED <<shown, updatedData, serverGraphData, modeVars, call, stored, faults, edits, spoilt>>

(* updateNodeData({label, ...}): the data to save takes every node that is *)
(* shown, and keeps its edges.                                             *)
updateNodeData(content) ==
  LET nodes == [shown.nodes EXCEPT ![selected].content = content] IN
  /\ editEnabled
  /\ selected \in DOMAIN shown.nodes
  /\ Render([shown EXCEPT !.nodes = nodes],
            [updatedData EXCEPT !.nodes = nodes], FALSE)
  /\ UNCHANGED <<selected, spoilt>>
  /\ Edited

(* Mutant: the children keep the parent that is gone. *)
OrphanedAsIs(nodes, n) == [m \in DOMAIN nodes \ {n} |-> nodes[m]]

(* The nodes without n, whose children go to its parent. *)
Orphaned(nodes, n) ==
  [m \in DOMAIN nodes \ {n} |->
     IF nodes[m].parent = n
     THEN [nodes[m] EXCEPT !.parent = nodes[n].parent]
     ELSE nodes[m]]

(* Mutant: the data to save keeps the edges at the node. *)
DeleteNodeKeepingEdges ==
  LET n == selected
      nodes == Orphaned(shown.nodes, n) IN
  /\ editEnabled
  /\ n \in DOMAIN shown.nodes \ {root}
  /\ Render([nodes |-> nodes, edges |-> Without(shown.edges, EdgesAt(shown.edges, {n}))],
            [updatedData EXCEPT !.nodes = nodes], FALSE)
  /\ selected' = NoID
  /\ UNCHANGED spoilt
  /\ Edited

(* updateNodeData({delete}), whose button the root does not have. *)
DeleteNode ==
  LET n == selected
      nodes == Orphaned(shown.nodes, n) IN
  /\ editEnabled
  /\ n \in DOMAIN shown.nodes \ {root}
  /\ Render([nodes |-> nodes, edges |-> Without(shown.edges, EdgesAt(shown.edges, {n}))],
            [nodes |-> nodes,
             edges |-> Without(updatedData.edges, EdgesAt(updatedData.edges, {n}))],
            FALSE)
  /\ selected' = NoID
  /\ UNCHANGED spoilt
  /\ Edited

(* updateEdgeData: the data to save takes every edge that is shown, and    *)
(* keeps its nodes.                                                        *)
ReplaceEdges(edges) ==
  /\ editEnabled
  /\ selected \in EdgeIDs
  /\ Render([shown EXCEPT !.edges = edges], [updatedData EXCEPT !.edges = edges], FALSE)
  /\ UNCHANGED spoilt
  /\ Edited

updateEdgeData(kind) ==
  /\ ReplaceEdges([e \in DOMAIN shown.edges |->
                     IF e = selected THEN [shown.edges[e] EXCEPT !.kind = kind]
                     ELSE shown.edges[e]])
  /\ UNCHANGED selected

DeleteEdge ==
  /\ ReplaceEdges(Without(shown.edges, {selected}))
  /\ selected' = NoID

(* The node n with those inside it: ReactFlow deletes them together.       *)
Descendants(nodes, n) ==
  {m \in DOMAIN nodes :
     \A S \in SUBSET DOMAIN nodes :
       n \in S /\ (\A x \in DOMAIN nodes : nodes[x].parent \in S => x \in S)
         => m \in S}

(* The key by which ReactFlow deletes what is selected.  It is not turned  *)
(* off, so it works on any node, outside of edit mode, too, and only on    *)
(* what is shown.                                                          *)
KeyDelete ==
  /\ mounted
  /\ \/ \E n \in DOMAIN shown.nodes :
          LET gone == Descendants(shown.nodes, n) IN
          shown' = [nodes |-> Without(shown.nodes, gone),
                    edges |-> Without(shown.edges, EdgesAt(shown.edges, gone))]
     \/ \E e \in DOMAIN shown.edges :
          shown' = [shown EXCEPT !.edges = Without(@, {e})]
  /\ spoilt' = TRUE
  /\ UNCHANGED <<updatedData, selected>>
  /\ Edited

------------------------------------------------------------------------------
(* Saving, closing and the timer.                                           *)

Request(k, fn, endpoint, g) ==
  /\ call[k].stage = "idle"
  /\ call' = [call EXCEPT ![k] =
                [fn |-> fn, endpoint |-> endpoint, stage |-> "sent", graph |-> g]]
  /\ UNCHANGED <<stored, faults, edits, spoilt>>

(* The Edit button, with the effect on isEditing. *)
ClickEdit(k) ==
  /\ mounted
  /\ lockStatus = "NotRequested"
  /\ ~isEditing
  /\ isEditing' = TRUE
  /\ interval' = TRUE
  /\ Request(k, "refreshLock", "lock", NoGraph)
  /\ UNCHANGED <<graphVars, lockStatus, autoSave, mounted>>

(* The Save button and its entry "Save and stop editing". *)
ClickSave(k) ==
  /\ editEnabled
  /\ \E fn \in {"updateGraph", "updateGraphClose"} :
       Request(k, fn, "lock", mappedData(updatedData))
  /\ UNCHANGED <<graphVars, modeVars>>

(* The entry "Stop editing without saving", absent with autosave. *)
ClickStop(k) ==
  /\ editEnabled
  /\ ~autoSave
  /\ Request(k, "closeEditMode", "drop_lock", serverGraphData)
  /\ selected' = NoID
  /\ UNCHANGED <<shown, updatedData, serverGraphData, modeVars>>

(* Mutant: the interval saves the data its closure saw, not the ref's. *)
IntervalFiresStale(k) ==
  /\ interval
  /\ \/ autoSave /\ Request(k, "updateGraph", "lock", serverGraphData)
     \/ ~autoSave /\ Request(k, "refreshLock", "lock", NoGraph)
  /\ UNCHANGED <<graphVars, modeVars>>

(* The interval, which nothing stops. *)
IntervalFires(k) ==
  /\ interval
  /\ \/ autoSave /\ Request(k, "updateGraph", "lock", mappedData(updatedData))
     \/ ~autoSave /\ Request(k, "refreshLock", "lock", NoGraph)
  /\ UNCHANGED <<graphVars, modeVars>>

(* The cleanup effect. *)
Destroy(k) ==
  /\ mounted
  /\ mounted' = FALSE
  /\ \/ autoSave /\ Request(k, "updateGraphClose", "lock", mappedData(updatedData))
     \/ ~autoSave /\ Request(k, "closeEditMode", "drop_lock", NoGraph)
  /\ UNCHANGED <<graphVars, lockStatus, isEditing, interval, autoSave>>

------------------------------------------------------------------------------
(* The provider, which gives the lock to its only user.                     *)

(* SaveEcosystemGraph replaces both tables; a request without nodes saves  *)
(* nothing.                                                                *)
Saved(g) == IF DOMAIN g.nodes # {} THEN g ELSE stored

Answer(k, stage) ==
  /\ call[k].stage = "sent"
  /\ call' = [call EXCEPT ![k].stage = stage]
  /\ UNCHANGED <<graphVars, modeVars, edits, spoilt>>

(* The request is served.  A graph with an edge to a node that it lacks    *)
(* violates a foreign key: the transaction is rolled back.                 *)
Serve(k) ==
  /\ \/ /\ call[k].endpoint = "lock" /\ Joined(call[k].graph)
        /\ stored' = Saved(call[k].graph)
        /\ Answer(k, "ok")
     \/ /\ call[k].endpoint = "lock" /\ ~Joined(call[k].graph)
        /\ stored' = stored
        /\ Answer(k, "error")
     \/ /\ call[k].endpoint = "drop_lock"
        /\ stored' = stored
        /\ Answer(k, "ok")
  /\ UNCHANGED faults

(* The database fails, or the connection before the request is served or   *)
(* after.                                                                  *)
ServeFails(k) ==
  /\ faults < MaxFaults
  /\ faults' = faults + 1
  /\ \/ \E stage \in {"error", "lost"} : stored' = stored /\ Answer(k, stage)
     \/ /\ call[k].endpoint = "lock" /\ Joined(call[k].graph)
        /\ stored' = Saved(call[k].graph)
        /\ Answer(k, "lost")

------------------------------------------------------------------------------
(* The continuations.  An unmounted component keeps its state.              *)

Done(k) ==
  /\ call' = [call EXCEPT ![k] = Idle]
  /\ UNCHANGED <<selected, interval, autoSave, mounted, stored, faults, edits>>

(* A lost connection throws, and so does a drop that fails. *)
Throws(k) ==
  /\ \/ call[k].stage = "lost"
     \/ call[k].stage = "error" /\ call[k].endpoint = "drop_lock"
  /\ Done(k)
  /\ UNCHANGED <<shown, updatedData, serverGraphData, lockStatus, isEditing, spoilt>>

Replied(k, fns, endpoint) ==
  /\ call[k].fn \in fns
  /\ call[k].endpoint = endpoint
  /\ call[k].stage \in {"ok"} \cup IF endpoint = "lock" THEN {"error"} ELSE {}

(* What is shown once the lock is acquired: the effect runs when edit mode *)
(* is entered.                                                             *)
ShownEditing ==
  IF lockStatus = "Acquired" THEN shown ELSE RenderedShown(shown, updatedData, FALSE)

(* The rest of refreshLock. *)
AfterRefreshLock(k) ==
  /\ Replied(k, {"refreshLock"}, "lock")
  /\ \/ /\ mounted
        /\ lockStatus' = "Acquired"
        /\ shown' = ShownEditing
        /\ updatedData' = IF lockStatus = "Acquired" THEN updatedData
                          ELSE RenderedData(shown, updatedData, FALSE)
     \/ ~mounted /\ UNCHANGED <<shown, updatedData, lockStatus>>
  /\ Done(k)
  /\ UNCHANGED <<serverGraphData, isEditing, spoilt>>

(* The rest of updateGraph: what was sent is taken for what is stored, also*)
(* after a failure, and the data to save is reset to it.  What was edited  *)
(* since is shown, but no longer in the data to save.                      *)
AfterUpdateGraph(k) ==
  /\ Replied(k, {"updateGraph"}, "lock")
  /\ \/ /\ mounted
        /\ lockStatus' = "Acquired"
        /\ serverGraphData' = call[k].graph
        /\ Render(ShownEditing, resetData(call[k].graph), FALSE)
        /\ spoilt' = (spoilt \/ mappedData(updatedData) # call[k].graph)
     \/ ~mounted /\ UNCHANGED <<shown, updatedData, serverGraphData, lockStatus, spoilt>>
  /\ Done(k)
  /\ UNCHANGED isEditing

(* The rest of updateGraph(true) drops the lock. *)
AfterClosingSave(k) ==
  /\ Replied(k, {"updateGraphClose"}, "lock")
  /\ call' = [call EXCEPT ![k].endpoint = "drop_lock", ![k].stage = "sent"]
  /\ UNCHANGED <<graphVars, modeVars, stored, faults, edits, spoilt>>

(* And once it is dropped, edit mode ends; closeEditMode also resets the   *)
(* data, and what is shown, to what was taken for stored at the click.     *)
AfterDrop(k) ==
  /\ Replied(k, Closings, "drop_lock")
  /\ \/ /\ mounted
        /\ lockStatus' = "NotRequested"
        /\ isEditing' = FALSE
        /\ IF call[k].fn = "closeEditMode"
           THEN Render(shown, resetData(call[k].graph), TRUE)
           ELSE IF lockStatus = "Acquired" THEN Render(shown, updatedData, FALSE)
           ELSE UNCHANGED <<shown, updatedData>>
     \/ ~mounted /\ UNCHANGED <<shown, updatedData, lockStatus, isEditing>>
  /\ Done(k)
  /\ UNCHANGED <<serverGraphData, spoilt>>

Continue(k) ==
  \/ Throws(k) \/ AfterRefreshLock(k) \/ AfterUpdateGraph(k)
  \/ AfterClosingSave(k) \/ AfterDrop(k)

------------------------------------------------------------------------------
EditNodes ==
  \/ \E p \in NodeIDs : addChildNode(p)
  \/ \E s, t \in NodeIDs : onConnect(s, t)
  \/ \E c \in Contents : updateNodeData(c)
  \/ \E d \in EdgeKinds : updateEdgeData(d)
  \/ DeleteNode \/ DeleteEdge \/ KeyDelete

Select ==
  \/ \E n \in NodeIDs : onNodeClick(n)
  \/ \E e \in EdgeIDs : onEdgeClick(e)

Click(k) == ClickEdit(k) \/ ClickSave(k) \/ ClickStop(k) \/ Destroy(k)

GraphNext ==
  \/ EditNodes \/ Select
  \/ \E k \in Calls :
       Click(k) \/ IntervalFires(k) \/ Serve(k) \/ ServeFails(k) \/ Continue(k)

GraphSpec == EditorInit /\ [][GraphNext]_vars

(* Requests are served, continuations run, and the interval fires when it  *)
(* is time.                                                                *)
FairGraphSpec ==
  /\ GraphSpec
  /\ \A k \in Calls :
       /\ WF_vars(Serve(k))
       /\ WF_vars(Continue(k))
       /\ SF_vars(IntervalFires(k))

------------------------------------------------------------------------------
(* The next save sends what is on the screen, though every handler keeps   *)
(* the two in step by itself.  There are three exceptions, after which     *)
(* spoilt is TRUE: an edit between a save and its reply, the key that      *)
(* deletes, and two nodes joined twice.                                    *)
WhatIsShownIsSaved == ~spoilt => mappedData(shown) = mappedData(updatedData)

(* Deletions leave no edge and no node hanging: edges join nodes that are  *)
(* shown, a node's parent is shown (ReactFlow breaks otherwise), and what  *)
(* is sent violates no foreign key, so that no save is refused for it and  *)
(* lost, with the user told "Saved!".  The exceptions are the same.        *)
GraphIsSound ==
  ~spoilt =>
    /\ Joined(shown) /\ Joined(serverGraphData)
    /\ \A g \in {shown, updatedData} : \A n \in DOMAIN g.nodes :
         g.nodes[n].parent \in DOMAIN g.nodes \cup {NoID}
    /\ \A k \in Calls : Joined(call[k].graph)

(* "The graph will be automatically saved periodically to prevent losing   *)
(* data": with autosave, and except for what spoilt tells, what is shown   *)
(* is stored in the end, whichever requests fail in between.               *)
EditsGetStored ==
  autoSave /\ interval /\ mappedData(shown) # stored
    ~> mappedData(shown) = stored \/ spoilt
=============================================================================
