------------------------------- MODULE GraphView -------------------------------
(***************************************************************************)
(* Graph, the read-only graph of a section, on the data of useGraphData.   *)
(* The nodes and edges on the screen are a copy of the data, in which the  *)
(* target node, its edges and its neighbours stand out.                    *)
(***************************************************************************)
EXTENDS DataHooks

CONSTANTS
  NodesAt, \* the nodes of the graph each url answers with, {} for Absent
  EdgesAt, \* their edges, pairs of nodes
  NodeIn,  \* the node a hash contains the id of, or Absent
  InfoIn   \* whether a hash is that of a node's info

VARIABLE graph \* the state of Graph

NewGraph ==
  [of |-> Absent,      \* the url of the answer nodes and edges were copied from
   shared |-> FALSE,   \* that is the last answer, so that the edges are its own
   isUrlHashed |-> {}, \* the nodes that are marked as the target
   marked |-> {},      \* and as neighbours
   stroke |-> Absent,  \* the node whose edges are coloured
   targetNode |-> Absent,
   nodeInfo |-> Absent,  \* the hash that is the id of the info in the drawer
   kept |-> FALSE,       \* the graph of another section was put back
   overtaken |-> FALSE]  \* the target is older than the marks, or is not drawn

Neighbours(url, n) ==
  {m \in NodesAt[url] : <<n, m>> \in EdgesAt[url] \/ <<m, n>> \in EdgesAt[url]}

(* Mutant: the marks of the last target stay. *)
markNodesAndEdgesToo(g, n) ==
  [g EXCEPT !.stroke = n,
            !.isUrlHashed = @ \cup ({n} \cap NodesAt[g.of]),
            !.marked = @ \cup Neighbours(g.of, n)]

(* A neighbour that becomes the target stays marked. *)
markNodesAndEdges(g, n) ==
  [g EXCEPT !.stroke = n,
            !.isUrlHashed = {n} \cap NodesAt[g.of],
            !.marked = Neighbours(g.of, n) \cup (@ \cap {n})]

(* The node of an answer that fillNodes marked: the one in the hash of the *)
(* location when the effect ran.                                           *)
urlHashedNode(answer) == NodeIn[answer.params.sectionUrlHash]

(* setNodes and setEdges with the answer, and with the marks it came with. *)
Filled(g, answer) ==
  LET fresh == [g EXCEPT !.shared = TRUE, !.of = answer.params.url, !.kept = FALSE,
                         !.isUrlHashed = {}, !.marked = {}, !.stroke = Absent]
      n == urlHashedNode(answer)
  IN IF n \in NodesAt[answer.params.url] THEN markNodesAndEdges(fresh, n) ELSE fresh

(* isEqual of the ids of the nodes, and of the edges with their style; the *)
(* edges on the screen are objects of the answer they come from.           *)
SameGraph(g, answer) ==
  /\ g.of = answer.params.url
  /\ g.shared \/ g.stroke = Filled(g, answer).stroke

(* Mutant: the nodes and edges are set once. *)
DataEffectOnce(g, answer) == IF g.of # Absent THEN g ELSE Filled(g, answer)

(* The effect of [data].  With a target and no node in the answer for it   *)
(* the nodes of the render before are marked, and set again.               *)
DataEffect(g, answer) ==
  LET drawn == IF SameGraph(g, answer) THEN g ELSE Filled(g, answer)
      n == IF urlHashedNode(answer) \in NodesAt[answer.params.url]
           THEN urlHashedNode(answer) ELSE Absent
  IN IF n = g.targetNode THEN drawn
     ELSE IF n = Absent
     THEN [markNodesAndEdges(g, g.targetNode) EXCEPT
             !.kept = g.of # answer.params.url,
             !.overtaken = @ \/ g.targetNode \notin NodesAt[g.of]]
     ELSE [drawn EXCEPT !.overtaken = g.targetNode # Absent \/ @]

(* setTargetNode, and the effect of [targetNode].  The node that the list  *)
(* shows as selected follows it.                                           *)
WithTarget(g, n) ==
  LET new == [g EXCEPT !.targetNode = n, !.overtaken = FALSE]
  IN IF n = Absent THEN new ELSE markNodesAndEdges(new, n)

(* The effect of [sectionUrlHash, data]: a node in the hash becomes the    *)
(* target, any other hash takes the target away; that of a node's info     *)
(* opens the drawer, too, with an id that repeats the section, so that no  *)
(* hash is that of the element.                                            *)
HashEffect(g, answer, hash) ==
  LET n == IF NodeIn[hash] \in NodesAt[answer.params.url] THEN NodeIn[hash] ELSE Absent
      new == IF hash = Absent THEN g ELSE WithTarget(g, n)
  IN IF hash # Absent /\ InfoIn[hash] /\ n # Absent
     THEN [new EXCEPT !.nodeInfo = Absent]
     ELSE new

(* The answers become the state of the hook. *)
WithAnswer(g) == [g EXCEPT !.shared = FALSE]

(* A render of GraphWrapper, which lays the data out anew. *)
GraphRendered(g, answers, hash) ==
  IF answers = <<>> THEN g
  ELSE HashEffect(DataEffect(g, Last(answers)), Last(answers), hash)

(* The node is chosen in the list, which holds the nodes of the data. *)
SelectNode(g, answers, n) ==
  IF answers # <<>> /\ n \in NodesAt[Last(answers).params.url]
  THEN WithTarget(g, n)
  ELSE g

(* A click on a node, or View connections in its menu. *)
setTargetNodeId(g, n) == IF n \in NodesAt[g.of] THEN WithTarget(g, n) ELSE g

onInfoClick(g, n) ==
  LET ids == {h \in DOMAIN InfoIn : InfoIn[h] /\ NodeIn[h] = n} IN
  IF n \notin NodesAt[g.of] THEN g
  ELSE [g EXCEPT !.nodeInfo = IF ids = {} THEN Absent ELSE CHOOSE h \in ids : TRUE]

(* The effect of [channelId]. *)
ChannelEffect(g) ==
  WithTarget([g EXCEPT !.nodeInfo = Absent], Absent)
=============================================================================
