--------------------------- MODULE MCEditableGraph ---------------------------
(* An instance of EditableGraph for TLC.                                    *)
EXTENDS EditableGraph, TLC

CONSTANTS n1, e1

(* Nothing is stored, or two nodes with an edge.                            *)
SmallGraphs ==
  {NoGraph,
   [nodes |-> root :> NewContent @@ n1 :> NewContent,
    edges |-> e1 :> [source |-> root, target |-> n1, kind |-> managedBy]]}
=============================================================================
