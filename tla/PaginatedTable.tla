---------------------------- MODULE PaginatedTable ----------------------------
(***************************************************************************)
(* PaginatedTable on the data of usePaginatedTableData or useSectionData.  *)
(* Both hooks push the rows of an answer to the array their state holds,   *)
(* so the array stays the same one, also when another section's rows are   *)
(* added to it.  The effect of a link looks for the row in that array,     *)
(* whatever order antd shows the rows in.                                  *)
(***************************************************************************)
EXTENDS DataHooks

CONSTANTS
  ROW_PER_PAGE,
  RowsAt,     \* the ids of the rows each url answers with, in order
  Searches,   \* the ids of the rows that the texts one may search for find
  Sorters,    \* the orders the columns have rows in: each row's rank
  ContainedIn \* the row ids a hash contains, none if it is not that of a row

ASSUME RowPerPageAssumption == ROW_PER_PAGE \in Nat \ {0}

(* An empty hash contains no id: the effects return at once. *)
ASSUME RowsAssumption ==
  /\ \A u \in ValuesOf["url"] : RowsAt[u] \in Seq(Range(RowsAt[u]))
  /\ ContainedIn[Absent] = {}
  /\ Sorters \subseteq [UNION {Range(RowsAt[u]) : u \in ValuesOf["url"]} -> Nat]
  /\ Absent \notin Sorters

VARIABLE table \* the state of PaginatedTable

NewTable ==
  [currentPage |-> 1,
   same |-> TRUE,        \* filteredRows is the array data.rows
   filteredRows |-> <<>>, \* and what it holds otherwise
   seen |-> Absent,      \* urlHash in the last render
   sorter |-> Absent,    \* the column antd sorts by, Absent: none
   touched |-> FALSE]    \* the user has chosen the rows since the effect did

(* The rows of the state of the hook. *)
RowsOf(answers) == FlattenSeq([i \in DOMAIN answers |-> RowsAt[answers[i].params.url]])

Listed(t, rows) == IF t.same THEN rows ELSE t.filteredRows

pageOf(i) == 1 + ((i - 1) \div ROW_PER_PAGE)

(* The first row the hash contains, wherever in it. *)
FirstContained(rows, urlHash) ==
  {i \in DOMAIN rows : /\ rows[i] \in ContainedIn[urlHash]
                       /\ \A j \in 1 .. i - 1 : rows[j] \notin ContainedIn[urlHash]}

(* Mutant: the effect of [urlHash, hash]. *)
TableRenderedOnLinks(t, rows, urlHash, changed) ==
  LET found == FirstContained(rows, urlHash)
      new == [t EXCEPT !.seen = urlHash]
  IN IF urlHash # t.seen /\ found # {}
     THEN [new EXCEPT !.currentPage = pageOf(Min(found)), !.touched = FALSE]
     ELSE new

(* A render with the effect of [urlHash, hash, data].  That of [data.rows] *)
(* runs after the first render only.                                       *)
TableRendered(t, rows, urlHash, changed) ==
  LET found == FirstContained(rows, urlHash)
      new == [t EXCEPT !.seen = urlHash]
  IN IF (changed \/ urlHash # t.seen) /\ found # {}
     THEN [new EXCEPT !.currentPage = pageOf(Min(found)), !.touched = FALSE]
     ELSE new

(* The page antd shows: the last one if there is no such page. *)
LastPage(n) == IF n = 0 THEN 1 ELSE pageOf(n)
ShownPage(t, rows) ==
  LET last == LastPage(Len(Listed(t, rows)))
  IN IF t.currentPage > last THEN last ELSE t.currentPage

(* Where antd puts the ith row: its sort is stable. *)
Position(t, listed, i) ==
  IF t.sorter = Absent THEN i
  ELSE LET rank(j) == t.sorter[listed[j]]
       IN 1 + Cardinality({j \in DOMAIN listed :
                \/ rank(j) < rank(i)
                \/ rank(j) = rank(i) /\ j < i})

RowsShown(t, rows) ==
  LET listed == Listed(t, rows)
  IN {listed[i] : i \in {j \in DOMAIN listed : pageOf(Position(t, listed, j)) = ShownPage(t, rows)}}

(* A click on the header of a column.  antd keeps the sorter, and the page: *)
(* PaginatedTable is not rendered, and no effect runs.                     *)
Sort(t, sorter) == [t EXCEPT !.sorter = sorter]

(* onChange of the pagination. *)
ChangePage(t, rows, page) ==
  [t EXCEPT !.currentPage = page, !.touched = TRUE]

(* handleSearch: a copy of the rows found, of all for the empty text. *)
handleSearch(t, rows, found) ==
  [t EXCEPT !.same = FALSE, !.touched = TRUE,
            !.filteredRows = SelectSeq(rows, LAMBDA r : r \in found)]
=============================================================================
