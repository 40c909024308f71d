------------------------------- MODULE MCWidgets -------------------------------
(* Instances of Widgets for TLC.                                            *)
EXTENDS Widgets

CONSTANTS a, b, i, leaf, x, y

(* The hooks whose every write to the state is guarded by the flag; hooks  *)
(* with the same record are one.                                           *)
GuardedHooks == DataHook \ {useChannelById}

TwoFetches == [h \in GuardedHooks |-> IF h \in {useGraphData, usePolicyTemplateData} THEN 1 ELSE 2]

Parameters ==
  {"id", "url", "refresh", "hash", "sectionUrlHash", "chartType", "postIds", "teamId",
   "userId", "params", "search", "offset", "limit"}

ParameterValues ==
  [p \in Parameters |->
     IF p \in {"id", "url"} THEN {a, b}
     ELSE IF p \in {"hash", "sectionUrlHash"} THEN {a, i, Absent}
     ELSE IF p = "limit" THEN {2}
     ELSE IF p = "offset" THEN {0, 2}
     ELSE {a, Absent}]

(* Two tables; the hash of row i contains the id of row x, too. *)
TwoTables == [u \in {a, b} |-> IF u = a THEN <<x, a>> ELSE <<y, i>>]
RowsOfHashes ==
  [h \in {a, i, Absent} |-> IF h = i THEN {i, x} ELSE {h} \ {Absent}]
(* A column sorts the second row of each table before the first. *)
OneSorter == {[r \in {a, i, x, y} |-> IF r \in {a, i} THEN 1 ELSE 2]}
TwoSearches == {{}, {a, i}, {a, i, x, y}}

(* Two graphs, one with an edge; i is the info of a. *)
TwoGraphs == [u \in {a, b, Absent} |-> IF u = a THEN {a, leaf} ELSE {u} \ {Absent}]
OneEdge == [u \in {a, b, Absent} |-> IF u = a THEN {<<a, leaf>>} ELSE {}]
NodesOfHashes == [h \in {a, i, Absent} |-> IF h = i THEN a ELSE h]
TwoWorkflows == [u \in {a, b} |-> IF u = a THEN <<x, a>> ELSE <<y>>]
TwoStarts == [u \in {a, b} |-> IF u = a THEN x ELSE y]
SameReferences == [u \in {a, b} |-> <<leaf, i>>]
(* Post a is one of both sections, on another page of each. *)
TwoPosts == [u \in {a, b} |-> IF u = a THEN <<x, a>> ELSE <<a, y>>]
NewsOfSearches == [q \in {a, Absent} |-> IF q = a THEN <<a>> ELSE <<a, x, i>>]
TwoTemplates == [u \in {a, b} |-> IF u = a THEN {x, leaf, Ongoing} ELSE {Ongoing}]
InfoHashes == [h \in {a, i, Absent} |-> h = i]
=============================================================================
