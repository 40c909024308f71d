------------------------ MODULE EditableGraph_proofs ------------------------
(***************************************************************************)
(* Proofs about one mount of the editable graph, for any identifiers, any  *)
(* number of requests in flight, of edits and of failures.                 *)
(*                                                                         *)
(* Every handler changes what is shown and what is saved by itself.  That  *)
(* the two stay in step follows from their types alone; that deletions     *)
(* leave nothing hanging needs to know that no node is inside itself.      *)
(***************************************************************************)
EXTENDS EditableGraph, TLAPS

Node == [content : Contents, parent : NodeIDs \cup {NoID}]
Drawing == [nodes : PartialFunctions(NodeIDs, Node), edges : Edges]

CallRecords ==
  [fn : {"none", "refreshLock", "updateGraph"} \cup Closings,
   endpoint : {"lock", "drop_lock"}, stage : {"idle", "sent", "ok", "error", "lost"},
   graph : EcosystemGraph]

GraphTypeOK ==
  /\ {shown, updatedData} \subseteq Drawing
  /\ {serverGraphData, stored} \subseteq EcosystemGraph
  /\ call \in [Calls -> CallRecords]

(* The nodes are inside of one another, or of none, and none is inside of  *)
(* itself: of any of them, some are inside of no other of these.           *)
Inside(nodes) == \A n \in DOMAIN nodes : nodes[n].parent \in DOMAIN nodes \cup {NoID}
Acyclic(nodes) ==
  \A S \in SUBSET DOMAIN nodes : S # {} => \E n \in S : nodes[n].parent \notin S

Sound(g) == Inside(g.nodes) /\ Acyclic(g.nodes) /\ Joined(g)

SoundInv ==
  ~spoilt => /\ Sound(shown) /\ Sound(updatedData) /\ Joined(serverGraphData)
             /\ \A k \in Calls : Joined(call[k].graph)

GraphInv == GraphTypeOK /\ WhatIsShownIsSaved /\ SoundInv

------------------------------------------------------------------------------
(* Partial functions and graphs.                                            *)

(* A partial function is a function of its own domain. *)
LEMMA PartialFunctionsDef ==
  ASSUME NEW S, NEW T, NEW f
  PROVE  f \in PartialFunctions(S, T) <=> DOMAIN f \subseteq S /\ f \in [DOMAIN f -> T]
  BY DEF PartialFunctions

(* What is put into a partial function on two sets, or taken out of it,   *)
(* leaves one.                                                             *)
LEMMA WithType ==
  ASSUME NEW S, NEW T, NEW f \in PartialFunctions(S, T), NEW x \in S, NEW v \in T
  PROVE  With(f, x, v) \in PartialFunctions(S, T)
<1>1. DOMAIN f \subseteq S /\ \A y \in DOMAIN f : f[y] \in T
  BY PartialFunctionsDef
<1>2. With(f, x, v) \in [DOMAIN f \cup {x} -> T]
  BY <1>1 DEF With
<1>3. QED
  BY <1>1, <1>2, PartialFunctionsDef DEF With

(* The same for what is left of it. *)
LEMMA WithoutType ==
  ASSUME NEW S, NEW T, NEW f \in PartialFunctions(S, T), NEW X
  PROVE  Without(f, X) \in PartialFunctions(S, T)
<1>1. DOMAIN f \subseteq S /\ \A y \in DOMAIN f : f[y] \in T
  BY PartialFunctionsDef
<1>2. Without(f, X) \in [DOMAIN f \ X -> T]
  BY <1>1 DEF Without
<1>3. QED
  BY <1>1, <1>2, PartialFunctionsDef DEF Without

(* What a drawing is made of. *)
LEMMA DrawingDef ==
  ASSUME NEW g
  PROVE  g \in Drawing <=> /\ g = [nodes |-> g.nodes, edges |-> g.edges]
                           /\ g.nodes \in PartialFunctions(NodeIDs, Node)
                           /\ g.edges \in Edges
  BY DEF Drawing

(* What is sent of two drawings is the same when they have the same nodes, *)
(* whatever their parents, and the same edges.                             *)
LEMMA MappedDataEqual ==
  ASSUME NEW g, NEW h
  PROVE  mappedData(g) = mappedData(h) <=>
           /\ DOMAIN g.nodes = DOMAIN h.nodes
           /\ \A n \in DOMAIN g.nodes : g.nodes[n].content = h.nodes[n].content
           /\ g.edges = h.edges
<1> DEFINE contents(x) == [n \in DOMAIN x.nodes |-> x.nodes[n].content]
<1>1. /\ DOMAIN contents(g) = DOMAIN g.nodes
      /\ DOMAIN contents(h) = DOMAIN h.nodes
      /\ \A n \in DOMAIN g.nodes : contents(g)[n] = g.nodes[n].content
      /\ \A n \in DOMAIN h.nodes : contents(h)[n] = h.nodes[n].content
  OBVIOUS
<1>2. ASSUME DOMAIN g.nodes = DOMAIN h.nodes,
             \A n \in DOMAIN g.nodes : g.nodes[n].content = h.nodes[n].content
      PROVE  contents(g) = contents(h)
  BY <1>2
<1>3. /\ mappedData(g) = [nodes |-> contents(g), edges |-> g.edges]
      /\ mappedData(h) = [nodes |-> contents(h), edges |-> h.edges]
  BY DEF mappedData
<1> HIDE DEF contents
<1>4. mappedData(g) = mappedData(h) <=> contents(g) = contents(h) /\ g.edges = h.edges
  BY <1>3
<1>5. QED
  BY <1>1, <1>2, <1>4

(* What is sent of a drawing is a graph, joined when the drawing is. *)
LEMMA MappedDataType ==
  ASSUME NEW g \in Drawing
  PROVE  /\ mappedData(g) \in EcosystemGraph
         /\ Joined(g) => Joined(mappedData(g))
<1>1. /\ DOMAIN g.nodes \subseteq NodeIDs
      /\ \A n \in DOMAIN g.nodes : g.nodes[n] \in Node
      /\ g.edges \in Edges
  BY PartialFunctionsDef DEF Drawing
<1> DEFINE f == [n \in DOMAIN g.nodes |-> g.nodes[n].content]
<1>2. DOMAIN f = DOMAIN g.nodes /\ f \in [DOMAIN g.nodes -> Contents]
  BY <1>1 DEF Node
<1>3. mappedData(g) = [nodes |-> f, edges |-> g.edges]
  BY DEF mappedData
<1> HIDE DEF f
<1>4. f \in PartialFunctions(NodeIDs, Contents)
  BY <1>1, <1>2, PartialFunctionsDef
<1>5. QED
  BY <1>1, <1>2, <1>3, <1>4 DEF EcosystemGraph, Joined

(* A graph of the provider is drawn with all that it has, and no parents. *)
LEMMA ResetDataType ==
  ASSUME NEW d \in EcosystemGraph
  PROVE  /\ resetData(d) \in Drawing
         /\ mappedData(resetData(d)) = d
         /\ Joined(d) => Sound(resetData(d))
<1>1. /\ d = [nodes |-> d.nodes, edges |-> d.edges]
      /\ DOMAIN d.nodes \subseteq NodeIDs
      /\ d.nodes \in [DOMAIN d.nodes -> Contents]
      /\ d.edges \in Edges
  BY PartialFunctionsDef DEF EcosystemGraph
<1> DEFINE f == [n \in DOMAIN d.nodes |-> [content |-> d.nodes[n], parent |-> NoID]]
<1>2. /\ DOMAIN f = DOMAIN d.nodes
      /\ f \in [DOMAIN d.nodes -> Node]
      /\ \A n \in DOMAIN f : f[n].content = d.nodes[n] /\ f[n].parent = NoID
  BY <1>1 DEF Node
<1>3. resetData(d) = [nodes |-> f, edges |-> d.edges]
  BY DEF resetData
<1> HIDE DEF f
<1>4. f \in PartialFunctions(NodeIDs, Node)
  BY <1>1, <1>2, PartialFunctionsDef
<1>5. resetData(d) \in Drawing
  BY <1>1, <1>3, <1>4 DEF Drawing
<1>6. mappedData(resetData(d)) = d
  <2>1. mappedData(resetData(d)) = [nodes |-> [n \in DOMAIN f |-> f[n].content], edges |-> d.edges]
    BY <1>3 DEF mappedData
  <2>2. [n \in DOMAIN f |-> f[n].content] = d.nodes
    BY <1>1, <1>2
  <2>3. QED
    BY <1>1, <2>1, <2>2
<1>7. Inside(f) /\ Acyclic(f)
  BY <1>1, <1>2, EditableGraphAssumption DEF Inside, Acyclic
<1>8. Joined(d) => Joined(resetData(d))
  BY <1>2, <1>3 DEF Joined
<1>9. QED
  BY <1>3, <1>5, <1>6, <1>7, <1>8 DEF Sound

------------------------------------------------------------------------------
(* The effect that follows a change.                                        *)

(* The graph with nothing but the root is a sound one. *)
LEMMA RootGraphSound == RootGraph \in Drawing /\ Sound(RootGraph)
<1> DEFINE f == [n \in {root} |-> [content |-> NewContent, parent |-> NoID]]
<1>1. /\ DOMAIN f = {root}
      /\ f \in [{root} -> Node]
      /\ f[root].parent = NoID
      /\ root \in NodeIDs /\ root # NoID
  BY EditableGraphAssumption DEF Node
<1>2. RootGraph = [nodes |-> f, edges |-> <<>>]
  BY DEF RootGraph
<1> HIDE DEF f
<1>3. f \in PartialFunctions(NodeIDs, Node)
  BY <1>1, PartialFunctionsDef
<1>4. DOMAIN <<>> = {} /\ <<>> \in Edges
  <2>1. DOMAIN <<>> = {} /\ <<>> \in [{} -> Edge]
    OBVIOUS
  <2>2. QED
    BY <2>1, PartialFunctionsDef DEF Edges
<1>5. Inside(f) /\ Acyclic(f)
  BY <1>1 DEF Inside, Acyclic
<1>6. QED
  BY <1>2, <1>3, <1>4, <1>5 DEF Drawing, Sound, Joined

(* So is what the effect takes of a sound one. *)
LEMMA ParentDataSound ==
  ASSUME NEW data \in Drawing
  PROVE  /\ ParentData(data) \in Drawing
         /\ Sound(data) => Sound(ParentData(data))
  BY RootGraphSound DEF ParentData

(* After the effect what is shown and what is saved agree if they did      *)
(* before it, or were reset, and they are sound if they were.              *)
LEMMA RenderedKeeps ==
  ASSUME NEW sh \in Drawing, NEW data \in Drawing, NEW reset \in BOOLEAN
  PROVE  LET sh2 == RenderedShown(sh, data, reset)
             data2 == RenderedData(sh, data, reset)
         IN /\ sh2 \in Drawing /\ data2 \in Drawing
            /\ reset \/ mappedData(sh) = mappedData(data) => mappedData(sh2) = mappedData(data2)
            /\ Sound(data) /\ (reset \/ Sound(sh)) => Sound(sh2) /\ Sound(data2)
<1>1. CASE TakesParentData(sh, data, reset)
  BY <1>1, ParentDataSound DEF RenderedShown, RenderedData
<1>2. CASE ~TakesParentData(sh, data, reset)
  <2>1. ~reset
    BY <1>2 DEF TakesParentData
  <2>2. QED
    BY <1>2, <2>1 DEF RenderedShown, RenderedData
<1>3. QED
  BY <1>1, <1>2

(* The same when the data to save are reset between the effect and the     *)
(* next to what would be sent of them: an empty graph gets its root twice. *)
LEMMA RenderedTwice ==
  ASSUME NEW sh \in Drawing, NEW data \in Drawing, NEW reset \in Drawing,
         mappedData(sh) = mappedData(data), mappedData(reset) = mappedData(data)
  PROVE  LET sh2 == RenderedShown(sh, data, FALSE)
         IN mappedData(RenderedShown(sh2, reset, FALSE)) = mappedData(RenderedData(sh2, reset, FALSE))
<1> DEFINE sh2 == RenderedShown(sh, data, FALSE)
<1>1. sh2 \in Drawing /\ mappedData(sh2) = mappedData(RenderedData(sh, data, FALSE))
  BY RenderedKeeps
<1>2. CASE RenderedData(sh, data, FALSE) = data
  <2>1. mappedData(sh2) = mappedData(reset)
    BY <1>1, <1>2
  <2>2. QED
    BY <1>1, <2>1, RenderedKeeps
<1>3. CASE RenderedData(sh, data, FALSE) # data
  <2>1. DOMAIN data.nodes = {} /\ sh2 = RootGraph
    BY <1>3 DEF RenderedData, RenderedShown, ParentData
  <2>2. DOMAIN reset.nodes = {} /\ DOMAIN RootGraph.nodes = {root}
    BY <2>1, MappedDataEqual DEF RootGraph
  <2>3. TakesParentData(sh2, reset, FALSE)
    BY <2>1, <2>2 DEF TakesParentData
  <2>4. QED
    BY <2>3 DEF RenderedShown, RenderedData
<1>4. QED
  BY <1>2, <1>3

(* Handlers that change both and leave the rest to the effect. *)
LEMMA RenderKeeps ==
  ASSUME NEW sh \in Drawing, NEW data \in Drawing, Render(sh, data, FALSE)
  PROVE  /\ {shown', updatedData'} \subseteq Drawing
         /\ mappedData(sh) = mappedData(data) => mappedData(shown') = mappedData(updatedData')
         /\ Sound(sh) /\ Sound(data) => Sound(shown') /\ Sound(updatedData')
  BY RenderedKeeps DEF Render

------------------------------------------------------------------------------
(* What the handlers make of a graph.                                       *)

(* A node made inside of another is drawn with its edge. *)
LEMMA WithChildKeeps ==
  ASSUME NEW g \in Drawing, NEW p \in NodeIDs,
         NEW n \in NodeIDs \ DOMAIN g.nodes, NEW e \in EdgeIDs \ DOMAIN g.edges
  PROVE  /\ WithChild(g, p, n, e) \in Drawing
         /\ p \in DOMAIN g.nodes /\ Sound(g) => Sound(WithChild(g, p, n, e))
<1> DEFINE child == [content |-> NewContent, parent |-> p]
           nodes == With(g.nodes, n, child)
           edges == With(g.edges, e, NewEdge(p, n))
<1>1. /\ g.nodes \in PartialFunctions(NodeIDs, Node) /\ DOMAIN g.nodes \subseteq NodeIDs
      /\ g.edges \in PartialFunctions(EdgeIDs, Edge)
  BY PartialFunctionsDef DEF Drawing, Edges
<1>2. child \in Node /\ NewEdge(p, n) \in Edge
  BY <1>1, EditableGraphAssumption DEF Node, NewEdge, Edge
<1>3. WithChild(g, p, n, e) = [nodes |-> nodes, edges |-> edges]
  BY DEF WithChild
<1>4. /\ nodes \in PartialFunctions(NodeIDs, Node)
      /\ DOMAIN nodes = DOMAIN g.nodes \cup {n}
      /\ nodes[n] = child
      /\ \A m \in DOMAIN g.nodes : nodes[m] = g.nodes[m]
  <2>1. nodes \in PartialFunctions(NodeIDs, Node)
    BY <1>1, <1>2, WithType
  <2>2. QED
    BY <2>1 DEF With
<1>5. /\ edges \in PartialFunctions(EdgeIDs, Edge)
      /\ DOMAIN edges = DOMAIN g.edges \cup {e}
      /\ edges[e] = NewEdge(p, n)
      /\ \A x \in DOMAIN g.edges : edges[x] = g.edges[x]
  <2>1. edges \in PartialFunctions(EdgeIDs, Edge)
    BY <1>1, <1>2, WithType
  <2>2. QED
    BY <2>1 DEF With
<1>6. child.parent = p /\ NewEdge(p, n).source = p /\ NewEdge(p, n).target = n
  BY DEF NewEdge
<1> HIDE DEF child, nodes, edges
<1>7. WithChild(g, p, n, e) \in Drawing
  BY <1>3, <1>4, <1>5 DEF Drawing, Edges
<1>8. ASSUME p \in DOMAIN g.nodes, Sound(g) PROVE Sound(WithChild(g, p, n, e))
  <2>1. Inside(nodes)
    BY <1>4, <1>6, <1>8 DEF Sound, Inside
  <2>2. Acyclic(nodes)
    <3>1. SUFFICES ASSUME NEW S \in SUBSET DOMAIN nodes, S # {}
                   PROVE  \E m \in S : nodes[m].parent \notin S
      BY DEF Acyclic
    <3>2. CASE S \ {n} = {}
      BY <1>4, <1>6, <1>8, <3>1, <3>2
    <3>3. CASE S \ {n} # {}
      <4>1. PICK m \in S \ {n} : g.nodes[m].parent \notin S \ {n}
        BY <1>4, <1>8, <3>1, <3>3 DEF Sound, Acyclic
      <4>2. m \in DOMAIN g.nodes /\ g.nodes[m].parent # n
        <5>1. m \in DOMAIN g.nodes
          BY <1>4, <3>1, <4>1
        <5>2. QED
          BY <1>8, <5>1, EditableGraphAssumption DEF Sound, Inside
      <4>3. QED
        BY <1>4, <4>1, <4>2
    <3>4. QED
      BY <3>2, <3>3
  <2>3. Joined(WithChild(g, p, n, e))
    BY <1>3, <1>4, <1>5, <1>6, <1>8 DEF Sound, Joined
  <2>4. QED
    BY <1>3, <2>1, <2>2, <2>3 DEF Sound
<1>9. QED
  BY <1>7, <1>8

(* An edge drawn between two nodes. *)
LEMMA WithEdgeKeeps ==
  ASSUME NEW g \in Drawing, NEW s \in NodeIDs, NEW t \in NodeIDs,
         NEW e \in EdgeIDs \ DOMAIN g.edges
  PROVE  LET h == [g EXCEPT !.edges = With(@, e, NewEdge(s, t))]
         IN /\ h \in Drawing
            /\ h = [nodes |-> g.nodes, edges |-> With(g.edges, e, NewEdge(s, t))]
            /\ {s, t} \subseteq DOMAIN g.nodes /\ Sound(g) => Sound(h)
<1> DEFINE edges == With(g.edges, e, NewEdge(s, t))
           h == [g EXCEPT !.edges = With(@, e, NewEdge(s, t))]
<1>1. /\ g.nodes \in PartialFunctions(NodeIDs, Node) /\ DOMAIN g.nodes \subseteq NodeIDs
      /\ g.edges \in PartialFunctions(EdgeIDs, Edge)
  BY PartialFunctionsDef DEF Drawing, Edges
<1>2. NewEdge(s, t) \in Edge /\ NewEdge(s, t).source = s /\ NewEdge(s, t).target = t
  BY <1>1, EditableGraphAssumption DEF NewEdge, Edge
<1>3. /\ edges \in PartialFunctions(EdgeIDs, Edge)
      /\ DOMAIN edges = DOMAIN g.edges \cup {e}
      /\ edges[e] = NewEdge(s, t)
      /\ \A x \in DOMAIN g.edges : edges[x] = g.edges[x]
  <2>1. edges \in PartialFunctions(EdgeIDs, Edge)
    BY <1>1, <1>2, WithType
  <2>2. QED
    BY <2>1 DEF With
<1>4. h = [nodes |-> g.nodes, edges |-> edges]
  BY DrawingDef
<1> HIDE DEF edges, h
<1>5. h \in Drawing
  BY <1>1, <1>3, <1>4 DEF Drawing, Edges
<1>6. {s, t} \subseteq DOMAIN g.nodes /\ Sound(g) => Sound(h)
  BY <1>2, <1>3, <1>4 DEF Sound, Joined
<1>7. QED
  BY <1>4, <1>5, <1>6 DEF h, edges

(* The nodes without n, whose children are inside of what n was inside of. *)
LEMMA OrphanedKeeps ==
  ASSUME NEW nodes \in PartialFunctions(NodeIDs, Node), NEW n \in DOMAIN nodes
  PROVE  /\ Orphaned(nodes, n) \in PartialFunctions(NodeIDs, Node)
         /\ DOMAIN Orphaned(nodes, n) = DOMAIN nodes \ {n}
         /\ Inside(nodes) /\ Acyclic(nodes) =>
              Inside(Orphaned(nodes, n)) /\ Acyclic(Orphaned(nodes, n))
<1> DEFINE left == Orphaned(nodes, n)
           moved(m) == [nodes[m] EXCEPT !.parent = nodes[n].parent]
<1>1. DOMAIN nodes \subseteq NodeIDs /\ \A m \in DOMAIN nodes : nodes[m] \in Node
  BY PartialFunctionsDef
<1>2. \A m \in DOMAIN nodes : moved(m) \in Node /\ moved(m).parent = nodes[n].parent
  BY <1>1 DEF Node
<1> HIDE DEF moved
<1>3. /\ DOMAIN left = DOMAIN nodes \ {n}
      /\ \A m \in DOMAIN nodes \ {n} :
           left[m] = IF nodes[m].parent = n THEN moved(m) ELSE nodes[m]
  BY DEF Orphaned, moved
<1>4. left \in [DOMAIN nodes \ {n} -> Node]
  BY <1>1, <1>2 DEF Orphaned, moved
<1> HIDE DEF left
<1>5. left \in PartialFunctions(NodeIDs, Node)
  BY <1>1, <1>3, <1>4, PartialFunctionsDef
<1>6. ASSUME Inside(nodes), Acyclic(nodes)
      PROVE  Inside(left) /\ Acyclic(left)
  <2>1. nodes[n].parent # n
    <3>1. \E m \in {n} : nodes[m].parent \notin {n}
      BY <1>6 DEF Acyclic
    <3>2. QED
      BY <3>1
  <2>2. \A m \in DOMAIN left :
          left[m].parent = IF nodes[m].parent = n THEN nodes[n].parent ELSE nodes[m].parent
    BY <1>2, <1>3
  <2>3. Inside(left)
    BY <1>3, <1>6, <2>1, <2>2 DEF Inside
  <2>4. Acyclic(left)
    <3>1. SUFFICES ASSUME NEW S \in SUBSET DOMAIN left, S # {}
                   PROVE  \E m \in S : left[m].parent \notin S
      BY DEF Acyclic
    <3>2. S \subseteq DOMAIN nodes /\ n \notin S
      BY <1>3
    <3>3. PICK y \in S : nodes[y].parent \notin S
      BY <1>6, <3>1, <3>2 DEF Acyclic
    <3>4. PICK x \in S \cup {n} : nodes[x].parent \notin S \cup {n}
      <4>1. S \cup {n} \in SUBSET DOMAIN nodes /\ S \cup {n} # {}
        BY <3>2
      <4>2. QED
        BY <1>6, <4>1 DEF Acyclic
    <3>5. CASE nodes[y].parent # n
      BY <2>2, <3>3, <3>5
    <3>6. CASE nodes[y].parent = n /\ x = n
      BY <2>2, <3>3, <3>4, <3>6
    <3>7. CASE x # n
      BY <2>2, <3>4, <3>7
    <3>8. QED
      BY <3>5, <3>6, <3>7
  <2>5. QED
    BY <2>3, <2>4
<1>7. QED
  BY <1>3, <1>5, <1>6 DEF left

------------------------------------------------------------------------------
(* The invariant.                                                           *)

(* A call that awaits nothing has a graph without nodes. *)
LEMMA IdleType ==
  /\ NoGraph \in EcosystemGraph /\ Joined(NoGraph)
  /\ Idle \in CallRecords /\ Idle.graph = NoGraph
<1>1. DOMAIN <<>> = {} /\ <<>> \in [{} -> Contents] /\ <<>> \in [{} -> Edge]
  OBVIOUS
<1>2. <<>> \in PartialFunctions(NodeIDs, Contents) /\ <<>> \in Edges
  BY <1>1, PartialFunctionsDef DEF Edges
<1>3. NoGraph \in EcosystemGraph /\ Joined(NoGraph)
  BY <1>1, <1>2 DEF NoGraph, EcosystemGraph, Joined
<1>4. QED
  BY <1>3 DEF Idle, CallRecords

(* The editor opens with what is stored. *)
LEMMA GraphInvInit == EditorInit => GraphInv
<1> SUFFICES ASSUME EditorInit PROVE GraphInv
  OBVIOUS
<1>1. stored \in EcosystemGraph /\ Joined(stored)
  BY EditableGraphAssumption DEF EditorInit
<1>2. resetData(stored) \in Drawing /\ Sound(resetData(stored))
  BY <1>1, ResetDataType
<1>3. shown = updatedData /\ updatedData \in Drawing /\ Sound(updatedData)
  BY <1>2, ParentDataSound DEF EditorInit
<1>4. call \in [Calls -> CallRecords] /\ \A k \in Calls : call[k] = Idle
  BY IdleType DEF EditorInit
<1>5. GraphTypeOK
  BY <1>1, <1>3, <1>4 DEF GraphTypeOK, EditorInit
<1>6. WhatIsShownIsSaved
  BY <1>3 DEF WhatIsShownIsSaved
<1>7. SoundInv
  BY <1>1, <1>3, <1>4, IdleType DEF SoundInv, EditorInit
<1>8. QED
  BY <1>5, <1>6, <1>7 DEF GraphInv

(* A handler whose two graphs are sound and agree, or after which they are *)
(* taken not to, keeps the invariant.                                      *)
LEMMA EditedKeeps ==
  ASSUME GraphInv, Edited, NEW sh \in Drawing, NEW data \in Drawing, Render(sh, data, FALSE),
         ~spoilt' => /\ ~spoilt /\ mappedData(sh) = mappedData(data)
                     /\ Sound(sh) /\ Sound(data)
  PROVE  GraphInv'
<1>1. UNCHANGED <<serverGraphData, call, stored>>
  BY DEF Edited
<1>2. GraphTypeOK'
  BY <1>1, RenderKeeps DEF GraphInv, GraphTypeOK
<1>3. WhatIsShownIsSaved'
  BY RenderKeeps DEF WhatIsShownIsSaved
<1>4. SoundInv'
  BY <1>1, RenderKeeps DEF GraphInv, SoundInv
<1>5. QED
  BY <1>2, <1>3, <1>4 DEF GraphInv

(* What the invariant says of the two graphs. *)
LEMMA Agree ==
  ASSUME GraphInv
  PROVE  /\ shown \in Drawing /\ updatedData \in Drawing
         /\ DOMAIN shown.nodes \subseteq NodeIDs
         /\ ~spoilt =>
              /\ DOMAIN shown.nodes = DOMAIN updatedData.nodes
              /\ \A n \in DOMAIN shown.nodes :
                   shown.nodes[n].content = updatedData.nodes[n].content
              /\ shown.edges = updatedData.edges
              /\ mappedData(shown) = mappedData(updatedData)
              /\ Sound(shown) /\ Sound(updatedData)
<1>1. shown \in Drawing /\ updatedData \in Drawing
  BY DEF GraphInv, GraphTypeOK
<1>2. DOMAIN shown.nodes \subseteq NodeIDs
  BY <1>1, PartialFunctionsDef DEF Drawing
<1>3. ~spoilt => mappedData(shown) = mappedData(updatedData)
  BY DEF GraphInv, WhatIsShownIsSaved
<1>4. ~spoilt => Sound(shown) /\ Sound(updatedData)
  BY DEF GraphInv, SoundInv
<1>5. QED
  BY <1>1, <1>2, <1>3, <1>4, MappedDataEqual

(* The new identifiers are new. *)
LEMMA NewIsFresh ==
  /\ FreshNodes # {} =>
       newNode \in NodeIDs \ (DOMAIN shown.nodes \cup DOMAIN updatedData.nodes)
  /\ FreshEdges # {} =>
       newEdge \in EdgeIDs \ (DOMAIN shown.edges \cup DOMAIN updatedData.edges)
<1>1. FreshNodes # {} => newNode \in FreshNodes
  BY DEF newNode
<1>2. FreshEdges # {} => newEdge \in FreshEdges
  BY DEF newEdge
<1>3. QED
  BY <1>1, <1>2 DEF FreshNodes, FreshEdges, UsedNodes, UsedEdges

(* New nodes and edges. *)
LEMMA AddKeeps ==
  ASSUME GraphInv, NEW p \in NodeIDs, NEW t \in NodeIDs, addChildNode(p) \/ onConnect(p, t)
  PROVE  GraphInv'
<1>1. CASE addChildNode(p)
  <2> DEFINE sh == WithChild(shown, p, newNode, newEdge)
             data == WithChild(updatedData, p, newNode, newEdge)
  <2>1. /\ p \in DOMAIN shown.nodes /\ Edited /\ spoilt' = spoilt
        /\ Render(sh, data, FALSE) /\ FreshNodes # {} /\ FreshEdges # {}
    BY <1>1 DEF addChildNode
  <2>2. PICK n, e : n = newNode /\ e = newEdge
    OBVIOUS
  <2>3. /\ n \in NodeIDs \ (DOMAIN shown.nodes \cup DOMAIN updatedData.nodes)
        /\ e \in EdgeIDs \ (DOMAIN shown.edges \cup DOMAIN updatedData.edges)
    BY <2>1, <2>2, NewIsFresh
  <2>4. sh \in Drawing /\ data \in Drawing
    BY <2>2, <2>3, Agree, WithChildKeeps
  <2>5. ASSUME ~spoilt PROVE Sound(sh) /\ Sound(data)
    BY <2>1, <2>2, <2>3, <2>5, Agree, WithChildKeeps
  <2>6. ASSUME ~spoilt PROVE mappedData(sh) = mappedData(data)
    <3>1. /\ sh.nodes = With(shown.nodes, n, [content |-> NewContent, parent |-> p])
          /\ data.nodes = With(updatedData.nodes, n, [content |-> NewContent, parent |-> p])
          /\ sh.edges = data.edges
      BY <2>2, <2>6, Agree DEF WithChild
    <3>2. /\ DOMAIN sh.nodes = DOMAIN data.nodes
          /\ \A m \in DOMAIN sh.nodes : sh.nodes[m].content = data.nodes[m].content
      <4> HIDE DEF sh, data
      <4>1. QED
        BY <2>6, <3>1, Agree DEF With
    <3>3. QED
      BY <3>1, <3>2, MappedDataEqual
  <2> HIDE DEF sh, data
  <2>7. QED
    BY <2>1, <2>4, <2>5, <2>6, EditedKeeps
<1>2. CASE onConnect(p, t)
  <2> DEFINE joined(g, e) == [g EXCEPT !.edges = With(@, e, NewEdge(p, t))]
  <2>1. PICK e : e = newEdge
    OBVIOUS
  <2> DEFINE sh == IF HasEdge(shown, p, t) THEN shown ELSE joined(shown, e)
             data == joined(updatedData, e)
  <2>2. /\ {p, t} \subseteq DOMAIN shown.nodes /\ Edited
        /\ spoilt' = (spoilt \/ HasEdge(shown, p, t))
        /\ Render(sh, data, FALSE) /\ FreshEdges # {}
    BY <1>2, <2>1 DEF onConnect
  <2>3. e \in EdgeIDs \ DOMAIN shown.edges /\ e \in EdgeIDs \ DOMAIN updatedData.edges
    BY <2>1, <2>2, NewIsFresh
  <2>4. /\ joined(shown, e) \in Drawing /\ data \in Drawing
        /\ joined(shown, e) = [nodes |-> shown.nodes,
                               edges |-> With(shown.edges, e, NewEdge(p, t))]
        /\ data = [nodes |-> updatedData.nodes,
                   edges |-> With(updatedData.edges, e, NewEdge(p, t))]
    BY <2>3, Agree, WithEdgeKeeps
  <2>5. ASSUME ~spoilt PROVE Sound(joined(shown, e)) /\ Sound(data)
    <3>1. /\ {p, t} \subseteq DOMAIN shown.nodes /\ {p, t} \subseteq DOMAIN updatedData.nodes
          /\ Sound(shown) /\ Sound(updatedData)
          /\ shown \in Drawing /\ updatedData \in Drawing
      BY <2>2, <2>5, Agree
    <3>2. Sound(joined(shown, e))
      BY <2>3, <3>1, WithEdgeKeeps
    <3>3. Sound(data)
      BY <2>3, <3>1, WithEdgeKeeps
    <3>4. QED
      BY <3>2, <3>3
  <2>6. ASSUME ~spoilt PROVE mappedData(joined(shown, e)) = mappedData(data)
    <3> HIDE DEF joined, data
    <3>1. QED
      BY <2>4, <2>6, Agree, MappedDataEqual
  <2>7. /\ sh \in Drawing
        /\ ~HasEdge(shown, p, t) => sh = joined(shown, e)
    BY <2>4, Agree
  <2> HIDE DEF sh, data, joined
  <2>8. QED
    BY <2>2, <2>4, <2>5, <2>6, <2>7, EditedKeeps
<1>3. QED
  BY <1>1, <1>2

(* The edges of g without those at n are edges of the nodes but n. *)
LEMMA WithoutNode ==
  ASSUME NEW g \in Drawing, NEW n \in DOMAIN g.nodes
  PROVE  LET h == [nodes |-> Orphaned(g.nodes, n),
                   edges |-> Without(g.edges, EdgesAt(g.edges, {n}))]
         IN h \in Drawing /\ (Sound(g) => Sound(h))
<1> DEFINE nodes == Orphaned(g.nodes, n)
           edges == Without(g.edges, EdgesAt(g.edges, {n}))
           h == [nodes |-> nodes, edges |-> edges]
<1>1. g.nodes \in PartialFunctions(NodeIDs, Node) /\ g.edges \in Edges
  BY DEF Drawing
<1>2. h \in Drawing
  BY <1>1, OrphanedKeeps, WithoutType DEF Drawing, Edges
<1>3. ASSUME Sound(g) PROVE Joined(h)
  <2>1. DOMAIN edges = {e \in DOMAIN g.edges : n \notin {g.edges[e].source, g.edges[e].target}}
    BY DEF Without, EdgesAt
  <2>2. \A e \in DOMAIN edges : edges[e] = g.edges[e]
    BY DEF Without
  <2>3. DOMAIN nodes = DOMAIN g.nodes \ {n}
    BY <1>1, OrphanedKeeps
  <2> HIDE DEF nodes, edges
  <2>4. QED
    BY <1>3, <2>1, <2>2, <2>3 DEF Sound, Joined
<1>4. QED
  BY <1>1, <1>2, <1>3, OrphanedKeeps DEF Sound

(* Changes and deletions of nodes. *)
LEMMA NodeKeeps ==
  ASSUME GraphInv, NEW content \in Contents, updateNodeData(content) \/ DeleteNode
  PROVE  GraphInv'
<1>1. CASE updateNodeData(content)
  <2> DEFINE nodes == [shown.nodes EXCEPT ![selected].content = content]
             sh == [shown EXCEPT !.nodes = nodes]
             data == [updatedData EXCEPT !.nodes = nodes]
  <2>1. /\ selected \in DOMAIN shown.nodes /\ Edited /\ spoilt' = spoilt
        /\ Render(sh, data, FALSE)
    BY <1>1 DEF updateNodeData
  <2>2. /\ shown = [nodes |-> shown.nodes, edges |-> shown.edges]
        /\ updatedData = [nodes |-> updatedData.nodes, edges |-> updatedData.edges]
        /\ shown.nodes \in PartialFunctions(NodeIDs, Node)
        /\ shown.edges \in Edges /\ updatedData.edges \in Edges
    BY Agree, DrawingDef
  <2>3. /\ sh = [nodes |-> nodes, edges |-> shown.edges]
        /\ data = [nodes |-> nodes, edges |-> updatedData.edges]
    BY <2>2
  <2>4. /\ DOMAIN nodes = DOMAIN shown.nodes
        /\ nodes \in [DOMAIN shown.nodes -> Node]
        /\ \A n \in DOMAIN nodes : nodes[n].parent = shown.nodes[n].parent
    <3>1. \A n \in DOMAIN shown.nodes : shown.nodes[n] \in Node
      BY <2>2, PartialFunctionsDef
    <3>2. /\ [shown.nodes[selected] EXCEPT !.content = content] \in Node
          /\ [shown.nodes[selected] EXCEPT !.content = content].parent
               = shown.nodes[selected].parent
      BY <2>1, <3>1 DEF Node
    <3>3. QED
      BY <2>1, <3>1, <3>2
  <2> HIDE DEF nodes, sh, data
  <2>5. nodes \in PartialFunctions(NodeIDs, Node)
    BY <2>2, <2>4, PartialFunctionsDef
  <2>6. sh \in Drawing /\ data \in Drawing
    BY <2>2, <2>3, <2>5 DEF Drawing
  <2>7. ASSUME ~spoilt PROVE Sound(sh) /\ Sound(data) /\ mappedData(sh) = mappedData(data)
    <3>1. sh = data /\ sh.nodes = nodes /\ sh.edges = shown.edges /\ Sound(shown)
      BY <2>3, <2>7, Agree
    <3>2. Inside(nodes) /\ Acyclic(nodes) /\ Joined(sh)
      BY <2>4, <3>1 DEF Sound, Inside, Acyclic, Joined
    <3>3. QED
      BY <3>1, <3>2 DEF Sound
  <2>8. QED
    BY <2>1, <2>6, <2>7, EditedKeeps
<1>2. CASE DeleteNode
  <2>1. PICK n : n = selected
    OBVIOUS
  <2> DEFINE nodes == Orphaned(shown.nodes, n)
             left(g) == [nodes |-> nodes, edges |-> Without(g.edges, EdgesAt(g.edges, {n}))]
  <2>2. /\ n \in DOMAIN shown.nodes /\ Edited /\ spoilt' = spoilt
        /\ Render(left(shown), left(updatedData), FALSE)
    BY <1>2, <2>1 DEF DeleteNode
  <2>3. left(shown) \in Drawing /\ (Sound(shown) => Sound(left(shown)))
    BY <2>2, Agree, WithoutNode
  <2>4. left(updatedData) \in Drawing
    BY <2>2, Agree, OrphanedKeeps, WithoutType DEF Drawing, Edges
  <2>5. ~spoilt => left(shown) = left(updatedData) /\ Sound(shown)
    BY Agree
  <2> HIDE DEF left
  <2>6. QED
    BY <2>2, <2>3, <2>4, <2>5, EditedKeeps
<1>3. QED
  BY <1>1, <1>2

(* Changes and deletions of edges that leave their ends where they were. *)
LEMMA ReplaceEdgesKeeps ==
  ASSUME GraphInv, NEW edges \in Edges, ReplaceEdges(edges),
         DOMAIN edges \subseteq DOMAIN shown.edges,
         \A e \in DOMAIN edges : /\ edges[e].source = shown.edges[e].source
                                 /\ edges[e].target = shown.edges[e].target
  PROVE  GraphInv'
<1> DEFINE sh == [shown EXCEPT !.edges = edges]
           data == [updatedData EXCEPT !.edges = edges]
<1>1. Edited /\ spoilt' = spoilt /\ Render(sh, data, FALSE)
  BY DEF ReplaceEdges
<1>2. /\ shown = [nodes |-> shown.nodes, edges |-> shown.edges]
      /\ updatedData = [nodes |-> updatedData.nodes, edges |-> updatedData.edges]
      /\ shown.nodes \in PartialFunctions(NodeIDs, Node)
      /\ updatedData.nodes \in PartialFunctions(NodeIDs, Node)
  BY Agree, DrawingDef
<1>3. /\ sh = [nodes |-> shown.nodes, edges |-> edges]
      /\ data = [nodes |-> updatedData.nodes, edges |-> edges]
  BY <1>2
<1>4. sh \in Drawing /\ data \in Drawing
  BY <1>2, <1>3 DEF Drawing
<1> HIDE DEF sh, data
<1>5. ASSUME ~spoilt PROVE mappedData(sh) = mappedData(data)
  BY <1>3, <1>5, Agree, MappedDataEqual
<1>6. ASSUME ~spoilt PROVE Sound(sh) /\ Sound(data)
  <2>1. Joined(shown) /\ DOMAIN shown.nodes = DOMAIN updatedData.nodes
    BY <1>6, Agree DEF Sound
  <2>2. Joined(sh) /\ Joined(data)
    BY <1>3, <2>1 DEF Joined
  <2>3. QED
    BY <1>3, <1>6, <2>2, Agree DEF Sound
<1>7. QED
  BY <1>1, <1>4, <1>5, <1>6, EditedKeeps

(* An edge gets another kind, or is deleted: in both copies, or spoilt. *)
LEMMA EdgeKeeps ==
  ASSUME GraphInv, NEW kind \in EdgeKinds, updateEdgeData(kind) \/ DeleteEdge
  PROVE  GraphInv'
<1>1. shown.edges \in PartialFunctions(EdgeIDs, Edge)
  BY Agree DEF Drawing, Edges
<1>2. CASE updateEdgeData(kind)
  <2> DEFINE edges == [e \in DOMAIN shown.edges |->
                         IF e = selected THEN [shown.edges[e] EXCEPT !.kind = kind]
                         ELSE shown.edges[e]]
  <2>1. \A e \in DOMAIN shown.edges :
          LET changed == [shown.edges[e] EXCEPT !.kind = kind]
          IN /\ shown.edges[e] \in Edge /\ changed \in Edge
             /\ changed.source = shown.edges[e].source
             /\ changed.target = shown.edges[e].target
    <3>1. \A e \in DOMAIN shown.edges : shown.edges[e] \in Edge
      BY <1>1, PartialFunctionsDef
    <3>2. QED
      BY <3>1 DEF Edge
  <2>2. /\ DOMAIN edges = DOMAIN shown.edges
        /\ edges \in [DOMAIN shown.edges -> Edge]
        /\ \A e \in DOMAIN edges : /\ edges[e].source = shown.edges[e].source
                                   /\ edges[e].target = shown.edges[e].target
    BY <2>1
  <2>3. ReplaceEdges(edges)
    BY <1>2 DEF updateEdgeData
  <2> HIDE DEF edges
  <2>4. edges \in Edges
    BY <1>1, <2>2, PartialFunctionsDef DEF Edges
  <2>5. QED
    BY <2>2, <2>3, <2>4, ReplaceEdgesKeeps
<1>3. CASE DeleteEdge
  <2> DEFINE edges == Without(shown.edges, {selected})
  <2>1. /\ DOMAIN edges \subseteq DOMAIN shown.edges
        /\ \A e \in DOMAIN edges : edges[e] = shown.edges[e]
    BY DEF Without
  <2>2. edges \in Edges
    BY <1>1, WithoutType DEF Edges
  <2>3. ReplaceEdges(edges)
    BY <1>3 DEF DeleteEdge
  <2> HIDE DEF edges
  <2>4. QED
    BY <2>1, <2>2, <2>3, ReplaceEdgesKeeps
<1>4. QED
  BY <1>2, <1>3

(* The key that deletes spoils what is shown. *)
LEMMA KeyDeleteKeeps == ASSUME GraphInv, KeyDelete PROVE GraphInv'
<1>1. /\ shown = [nodes |-> shown.nodes, edges |-> shown.edges]
      /\ shown.nodes \in PartialFunctions(NodeIDs, Node)
      /\ shown.edges \in PartialFunctions(EdgeIDs, Edge)
  BY Agree, DrawingDef DEF Edges
<1>2. shown' \in Drawing
  <2>1. CASE \E n \in DOMAIN shown.nodes :
               shown' = [nodes |-> Without(shown.nodes, Descendants(shown.nodes, n)),
                         edges |-> Without(shown.edges,
                                           EdgesAt(shown.edges, Descendants(shown.nodes, n)))]
    BY <1>1, <2>1, WithoutType DEF Drawing, Edges
  <2>2. CASE \E e \in DOMAIN shown.edges :
               shown' = [shown EXCEPT !.edges = Without(@, {e})]
    <3>1. PICK e : shown' = [shown EXCEPT !.edges = Without(@, {e})]
      BY <2>2
    <3>2. shown' = [nodes |-> shown.nodes, edges |-> Without(shown.edges, {e})]
      BY <1>1, <3>1
    <3>3. QED
      BY <1>1, <3>2, WithoutType DEF Drawing, Edges
  <2>3. QED
    BY <2>1, <2>2 DEF KeyDelete
<1>3. spoilt' /\ UNCHANGED <<updatedData, serverGraphData, call, stored>>
  BY DEF KeyDelete, Edited
<1>4. QED
  BY <1>2, <1>3 DEF GraphInv, GraphTypeOK, WhatIsShownIsSaved, SoundInv

------------------------------------------------------------------------------
(* Requests and replies.                                                    *)

(* A request carries a graph that violates no foreign key. *)
LEMMA RequestKeeps ==
  ASSUME GraphInv, NEW k \in Calls, NEW fn \in {"refreshLock", "updateGraph"} \cup Closings,
         NEW endpoint \in {"lock", "drop_lock"}, NEW g \in EcosystemGraph,
         Request(k, fn, endpoint, g), ~spoilt => Joined(g),
         UNCHANGED <<shown, updatedData, serverGraphData>>
  PROVE  GraphInv'
<1> DEFINE new == [fn |-> fn, endpoint |-> endpoint, stage |-> "sent", graph |-> g]
<1>1. call' = [call EXCEPT ![k] = new] /\ UNCHANGED <<stored, spoilt>>
  BY DEF Request
<1>2. new \in CallRecords /\ new.graph = g
  BY DEF CallRecords
<1> HIDE DEF new
<1>3. call \in [Calls -> CallRecords]
  BY DEF GraphInv, GraphTypeOK
<1>4. /\ call' \in [Calls -> CallRecords]
      /\ \A j \in Calls : call'[j] = IF j = k THEN new ELSE call[j]
  BY <1>1, <1>2, <1>3
<1>5. GraphTypeOK'
  BY <1>1, <1>4 DEF GraphInv, GraphTypeOK
<1>6. SoundInv'
  BY <1>1, <1>2, <1>4 DEF GraphInv, SoundInv
<1>7. QED
  BY <1>1, <1>5, <1>6 DEF GraphInv, WhatIsShownIsSaved

(* What a save sends breaks no foreign key. *)
LEMMA SaveSound ==
  ASSUME GraphInv
  PROVE  /\ mappedData(updatedData) \in EcosystemGraph
         /\ ~spoilt => Joined(mappedData(updatedData))
  BY Agree, MappedDataType DEF Sound

(* The clicks and the interval that send a request change no graph. *)
LEMMA ClickKeeps ==
  ASSUME GraphInv, NEW k \in Calls, Click(k) \/ IntervalFires(k)
  PROVE  GraphInv'
<1>1. serverGraphData \in EcosystemGraph /\ (~spoilt => Joined(serverGraphData))
  BY DEF GraphInv, GraphTypeOK, SoundInv
<1>2. CASE ClickEdit(k)
  BY <1>2, RequestKeeps, IdleType DEF ClickEdit, graphVars
<1>3. CASE ClickSave(k)
  BY <1>3, RequestKeeps, SaveSound DEF ClickSave, graphVars, Closings
<1>4. CASE ClickStop(k)
  BY <1>1, <1>4, RequestKeeps DEF ClickStop, Closings
<1>5. CASE Destroy(k)
  BY <1>5, RequestKeeps, SaveSound, IdleType DEF Destroy, graphVars, Closings
<1>6. CASE IntervalFires(k)
  BY <1>6, RequestKeeps, SaveSound, IdleType DEF IntervalFires, graphVars
<1>7. QED
  BY <1>2, <1>3, <1>4, <1>5, <1>6 DEF Click

(* The provider only changes what is stored, and how far the request is. *)
LEMMA ServeKeeps ==
  ASSUME GraphInv, NEW k \in Calls, Serve(k) \/ ServeFails(k)
  PROVE  GraphInv'
<1>1. PICK stage \in {"ok", "error", "lost"} :
        /\ call' = [call EXCEPT ![k].stage = stage]
        /\ UNCHANGED <<shown, updatedData, serverGraphData, spoilt>>
        /\ stored' \in {stored, Saved(call[k].graph)}
  BY DEF Serve, ServeFails, Answer, graphVars
<1>2. call \in [Calls -> CallRecords] /\ stored \in EcosystemGraph
  BY DEF GraphInv, GraphTypeOK
<1>3. /\ [call[k] EXCEPT !.stage = stage] \in CallRecords
      /\ [call[k] EXCEPT !.stage = stage].graph = call[k].graph
      /\ call[k].graph \in EcosystemGraph
  BY <1>2 DEF CallRecords
<1>4. /\ call' \in [Calls -> CallRecords]
      /\ \A j \in Calls : call'[j].graph = call[j].graph
  BY <1>1, <1>2, <1>3
<1>5. stored' \in EcosystemGraph
  BY <1>1, <1>2, <1>3 DEF Saved
<1>6. QED
  BY <1>1, <1>4, <1>5 DEF GraphInv, GraphTypeOK, WhatIsShownIsSaved, SoundInv

(* A reply leaves its call with nothing to await. *)
LEMMA DoneKeeps ==
  ASSUME GraphInv, NEW k \in Calls, Done(k)
  PROVE  /\ call' \in [Calls -> CallRecords]
         /\ \A j \in Calls : call'[j].graph \in {call[j].graph, NoGraph}
         /\ (\A j \in Calls : Joined(call[j].graph)) => \A j \in Calls : Joined(call'[j].graph)
<1>1. call' = [call EXCEPT ![k] = Idle] /\ call \in [Calls -> CallRecords]
  BY DEF Done, GraphInv, GraphTypeOK
<1>2. \A j \in Calls : call'[j] = IF j = k THEN Idle ELSE call[j]
  BY <1>1
<1>3. QED
  BY <1>1, <1>2, IdleType

(* What is shown once the lock is acquired, and what is then saved.        *)
LEMMA ShownEditingKeeps ==
  ASSUME GraphInv
  PROVE  /\ ShownEditing \in Drawing
         /\ ~spoilt => Sound(ShownEditing)
<1>1. ShownEditing \in {shown, RenderedShown(shown, updatedData, FALSE)}
  BY DEF ShownEditing
<1>2. QED
  BY <1>1, Agree, RenderedKeeps

(* The replies that neither reset the graph nor change what is stored. *)
LEMMA ReplyKeeps ==
  ASSUME GraphInv, NEW k \in Calls, Throws(k) \/ AfterRefreshLock(k) \/ AfterClosingSave(k)
  PROVE  GraphInv'
<1>1. CASE Throws(k)
  BY <1>1, DoneKeeps DEF Throws, Done, GraphInv, GraphTypeOK, WhatIsShownIsSaved, SoundInv
<1>2. CASE AfterRefreshLock(k)
  <2> DEFINE sh == RenderedShown(shown, updatedData, FALSE)
             data == RenderedData(shown, updatedData, FALSE)
  <2>1. /\ \/ shown' = shown /\ updatedData' = updatedData
           \/ shown' = sh /\ updatedData' = data
        /\ Done(k) /\ UNCHANGED <<serverGraphData, spoilt, stored>>
    BY <1>2 DEF AfterRefreshLock, ShownEditing, Done
  <2>2. /\ sh \in Drawing /\ data \in Drawing
        /\ ~spoilt => mappedData(sh) = mappedData(data) /\ Sound(sh) /\ Sound(data)
    BY Agree, RenderedKeeps
  <2> HIDE DEF sh, data
  <2>3. /\ shown' \in Drawing /\ updatedData' \in Drawing
        /\ ~spoilt => /\ mappedData(shown') = mappedData(updatedData')
                      /\ Sound(shown') /\ Sound(updatedData')
    BY <2>1, <2>2, Agree
  <2>4. QED
    BY <2>1, <2>3, DoneKeeps DEF GraphInv, GraphTypeOK, WhatIsShownIsSaved, SoundInv
<1>3. CASE AfterClosingSave(k)
  <2> DEFINE new == [call[k] EXCEPT !.endpoint = "drop_lock", !.stage = "sent"]
  <2>1. /\ call' = [call EXCEPT ![k].endpoint = "drop_lock", ![k].stage = "sent"]
        /\ UNCHANGED <<shown, updatedData, serverGraphData, spoilt, stored>>
    BY <1>3 DEF AfterClosingSave, graphVars
  <2>2. call \in [Calls -> CallRecords]
    BY DEF GraphInv, GraphTypeOK
  <2>3. new \in CallRecords /\ new.graph = call[k].graph
    BY <2>2 DEF CallRecords
  <2>4. call' = [call EXCEPT ![k] = new]
    BY <2>1, <2>2
  <2> HIDE DEF new
  <2>5. /\ call' \in [Calls -> CallRecords]
        /\ \A j \in Calls : call'[j].graph = call[j].graph
    BY <2>2, <2>3, <2>4
  <2>6. QED
    BY <2>1, <2>5 DEF GraphInv, GraphTypeOK, WhatIsShownIsSaved, SoundInv
<1>4. QED
  BY <1>1, <1>2, <1>3

(* After a save the data to save are what was sent, which is what is shown *)
(* unless it was edited since.                                             *)
LEMMA UpdateKeeps ==
  ASSUME GraphInv, NEW k \in Calls, AfterUpdateGraph(k)
  PROVE  GraphInv'
<1>1. Done(k) /\ stored' = stored
  BY DEF AfterUpdateGraph, Done
<1>2. CASE ~mounted
  <2>1. UNCHANGED <<shown, updatedData, serverGraphData, spoilt>>
    BY <1>2 DEF AfterUpdateGraph
  <2>2. QED
    BY <1>1, <2>1, DoneKeeps DEF GraphInv, GraphTypeOK, WhatIsShownIsSaved, SoundInv
<1>3. CASE mounted
  <2>1. PICK g : g = call[k].graph
    OBVIOUS
  <2> DEFINE data == resetData(g)
  <2>2. /\ serverGraphData' = g /\ Render(ShownEditing, data, FALSE)
        /\ spoilt' = (spoilt \/ mappedData(updatedData) # g)
    BY <1>3, <2>1 DEF AfterUpdateGraph
  <2>3. g \in EcosystemGraph /\ (~spoilt => Joined(g))
    BY <2>1 DEF GraphInv, GraphTypeOK, CallRecords, SoundInv
  <2>4. /\ data \in Drawing /\ mappedData(data) = g
        /\ ~spoilt => Sound(data)
    BY <2>3, ResetDataType
  <2> HIDE DEF data
  <2>5. /\ {shown', updatedData'} \subseteq Drawing
        /\ ~spoilt => Sound(shown') /\ Sound(updatedData')
    BY <2>2, <2>4, ShownEditingKeeps, RenderKeeps
  <2>6. ASSUME ~spoilt' PROVE mappedData(shown') = mappedData(updatedData')
    <3>1. mappedData(shown) = mappedData(updatedData) /\ mappedData(data) = mappedData(updatedData)
      BY <2>2, <2>4, <2>6, Agree
    <3>2. CASE ShownEditing = shown
      BY <2>2, <2>4, <3>1, <3>2, Agree, RenderKeeps
    <3>3. CASE ShownEditing = RenderedShown(shown, updatedData, FALSE)
      BY <2>2, <2>4, <3>1, <3>3, Agree, RenderedTwice DEF Render
    <3>4. QED
      BY <3>2, <3>3 DEF ShownEditing
  <2>7. GraphTypeOK'
    BY <1>1, <2>2, <2>3, <2>5, DoneKeeps DEF GraphInv, GraphTypeOK
  <2>8. SoundInv'
    BY <1>1, <2>2, <2>3, <2>5, DoneKeeps DEF GraphInv, SoundInv
  <2>9. QED
    BY <2>6, <2>7, <2>8 DEF GraphInv, WhatIsShownIsSaved
<1>4. QED
  BY <1>2, <1>3

(* The end of edit mode, with a reset or without. *)
LEMMA DropKeeps ==
  ASSUME GraphInv, NEW k \in Calls, AfterDrop(k)
  PROVE  GraphInv'
<1>1. Done(k) /\ UNCHANGED <<serverGraphData, spoilt, stored>>
  BY DEF AfterDrop, Done
<1>2. SUFFICES /\ {shown', updatedData'} \subseteq Drawing
               /\ ~spoilt => /\ mappedData(shown') = mappedData(updatedData')
                             /\ Sound(shown') /\ Sound(updatedData')
  BY <1>1, DoneKeeps DEF GraphInv, GraphTypeOK, WhatIsShownIsSaved, SoundInv
<1>3. CASE UNCHANGED <<shown, updatedData>>
  BY <1>3, Agree
<1>4. CASE Render(shown, updatedData, FALSE)
  BY <1>4, Agree, RenderKeeps
<1>5. CASE Render(shown, resetData(call[k].graph), TRUE)
  <2>1. PICK g : g = call[k].graph
    OBVIOUS
  <2> DEFINE data == resetData(g)
  <2>2. Render(shown, data, TRUE)
    BY <1>5, <2>1
  <2>3. g \in EcosystemGraph /\ (~spoilt => Joined(g))
    BY <2>1 DEF GraphInv, GraphTypeOK, CallRecords, SoundInv
  <2>4. data \in Drawing /\ (~spoilt => Sound(data))
    BY <2>3, ResetDataType
  <2> HIDE DEF data
  <2>5. PICK sh2, data2 : /\ sh2 = RenderedShown(shown, data, TRUE)
                          /\ data2 = RenderedData(shown, data, TRUE)
    OBVIOUS
  <2>6. /\ sh2 \in Drawing /\ data2 \in Drawing
        /\ mappedData(sh2) = mappedData(data2)
        /\ ~spoilt => Sound(sh2) /\ Sound(data2)
    BY <2>4, <2>5, Agree, RenderedKeeps
  <2>7. shown' = sh2 /\ updatedData' = data2
    BY <2>2, <2>5 DEF Render
  <2>8. QED
    BY <2>6, <2>7
<1>6. QED
  BY <1>3, <1>4, <1>5 DEF AfterDrop

------------------------------------------------------------------------------
(* The invariant is inductive. *)
LEMMA GraphInvStep == GraphInv /\ [GraphNext]_vars => GraphInv'
<1> SUFFICES ASSUME GraphInv, [GraphNext]_vars PROVE GraphInv'
  OBVIOUS
<1>1. CASE EditNodes
  <2>1. \A p \in NodeIDs : addChildNode(p) => GraphInv'
    BY AddKeeps
  <2>2. \A s, t \in NodeIDs : onConnect(s, t) => GraphInv'
    BY AddKeeps
  <2>3. DeleteNode => GraphInv'
    BY NodeKeeps, EditableGraphAssumption
  <2>4. DeleteEdge => GraphInv'
    BY EdgeKeeps, EditableGraphAssumption
  <2>5. QED
    BY <1>1, <2>1, <2>2, <2>3, <2>4, NodeKeeps, EdgeKeeps, KeyDeleteKeeps DEF EditNodes
<1>2. CASE Select \/ UNCHANGED vars
  <2>1. UNCHANGED <<shown, updatedData, serverGraphData, call, stored, spoilt>>
    BY <1>2 DEF Select, onNodeClick, onEdgeClick, vars, graphVars
  <2>2. QED
    BY <2>1 DEF GraphInv, GraphTypeOK, WhatIsShownIsSaved, SoundInv
<1>3. ASSUME NEW k \in Calls, Click(k) \/ IntervalFires(k) PROVE GraphInv'
  BY <1>3, ClickKeeps
<1>4. ASSUME NEW k \in Calls, Serve(k) \/ ServeFails(k) PROVE GraphInv'
  BY <1>4, ServeKeeps
<1>5. ASSUME NEW k \in Calls, Continue(k) PROVE GraphInv'
  BY <1>5, ReplyKeeps, UpdateKeeps, DropKeeps DEF Continue
<1>6. QED
  BY <1>1, <1>2, <1>3, <1>4, <1>5 DEF GraphNext

(* Every state is well typed: what is drawn, saved and sent are graphs.    *)
THEOREM GraphTypeCorrect == GraphSpec => []GraphTypeOK
<1>1. GraphInv => GraphTypeOK
  BY DEF GraphInv
<1>2. QED
  BY <1>1, GraphInvInit, GraphInvStep, PTL DEF GraphSpec

(* The next save sends what is on the screen, but for the exceptions. *)
THEOREM WhatIsShownIsSavedTheorem == GraphSpec => []WhatIsShownIsSaved
<1>1. GraphInv => WhatIsShownIsSaved
  BY DEF GraphInv
<1>2. QED
  BY <1>1, GraphInvInit, GraphInvStep, PTL DEF GraphSpec

(* With the same exceptions, deletions leave no edge and no node hanging,  *)
(* on the screen and in what is sent.                                      *)
THEOREM GraphIsSoundTheorem == GraphSpec => []GraphIsSound
<1>1. GraphInv => GraphIsSound
  BY DEF GraphInv, SoundInv, GraphIsSound, Sound, Inside
<1>2. QED
  BY <1>1, GraphInvInit, GraphInvStep, PTL DEF GraphSpec
=============================================================================
