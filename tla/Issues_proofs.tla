---------------------------- MODULE Issues_proofs ----------------------------
(***************************************************************************)
(* Proofs about the issues, for any number of issues, items, copies and    *)
(* requests that overtake each other.                                      *)
(***************************************************************************)
EXTENDS Issues, FiniteSetTheorems, TLAPS

(* Storing an issue replaces its items by rows that fillIssue may give.    *)
LEMMA StoreIssueRows ==
  ASSUME IssuesTypeOK, NEW r \in Requests, StoreIssue(r)
  PROVE  \E rows \in SUBSET Item :
           /\ FillIssue(request[r].id, request[r].body, request[r].old, rows)
           /\ item' = (item \ ItemsOf(request[r].id)) \cup rows
           /\ used' = used \cup {x.id : x \in rows}
<1>1. request[r].id \in IssueIDs
  BY DEF StoreIssue, IssuesTypeOK, RequestRecords, Serving
<1>2. Rows(request[r].id) \subseteq SUBSET Item
  BY <1>1 DEF Rows, Item
<1>3. PICK rows \in Rows(request[r].id) :
           /\ FillIssue(request[r].id, request[r].body, request[r].old, rows)
           /\ item' = (item \ ItemsOf(request[r].id)) \cup rows
           /\ used' = used \cup {x.id : x \in rows}
  BY Zenon DEF StoreIssue
<1>4. QED
  BY <1>2, <1>3

(* At the start the tables are empty. *)
LEMMA TypeInit == Init => IssuesTypeOK
  BY DEF Init, IssuesTypeOK, Stored, Serving

(* A request that begins is one more, a request that ends one less.        *)
LEMMA BeginType ==
  ASSUME IssuesTypeOK, NEW r \in Requests, NEW record \in RequestRecords,
         \A x \in record.old : x.issue = record.id,
         Begin(r, record), UNCHANGED <<issue, item, used>>
  PROVE  IssuesTypeOK'
<1>1. /\ Serving' = Serving \cup {r}
      /\ \A q \in Serving' : request'[q] = IF q = r THEN record ELSE request[q]
  BY DEF Begin, Serving
<1>2. request' \in [Serving' -> RequestRecords]
  BY <1>1 DEF Begin, IssuesTypeOK
<1>3. QED
  BY <1>1, <1>2 DEF IssuesTypeOK, Stored

(* What is left of the requests when one of them ends. *)
LEMMA EndType ==
  ASSUME IssuesTypeOK, NEW r \in Requests, End(r)
  PROVE  /\ Serving' = Serving \ {r}
         /\ \A q \in Serving' : request'[q] = request[q]
         /\ request' \in [Serving' -> RequestRecords]
<1>1. /\ Serving' = Serving \ {r}
      /\ \A q \in Serving' : request'[q] = request[q]
  BY DEF End, Serving
<1>2. QED
  BY <1>1 DEF End, IssuesTypeOK

(* Every step of the handlers keeps the variables well typed. *)
LEMMA TypeStep ==
  ASSUME IssuesTypeOK, [Next]_vars
  PROVE  IssuesTypeOK'
<1>1. ASSUME NEW r \in Requests, NEW id \in IssueIDs, NEW name \in Names,
             NEW body \in Bodies, SaveIssue(r, id, name, body)
      PROVE  IssuesTypeOK'
  <2>1. [id |-> id, name |-> name, body |-> body, old |-> {}] \in RequestRecords
    BY DEF RequestRecords
  <2>2. QED
    BY <1>1, <2>1, BeginType DEF SaveIssue
<1>2. ASSUME NEW r \in Requests, NEW id \in IssueIDs, NEW name \in Names,
             NEW body \in Bodies, UpdateIssue(r, id, name, body)
      PROVE  IssuesTypeOK'
  <2>1. PICK old \in {ItemsOf(id), {}} :
          Begin(r, [id |-> id, name |-> name, body |-> body, old |-> old])
    BY <1>2 DEF UpdateIssue
  <2>2. old \in SUBSET Item /\ \A x \in old : x.issue = id
    BY DEF ItemsOf, IssuesTypeOK
  <2>3. [id |-> id, name |-> name, body |-> body, old |-> old] \in RequestRecords
    BY <2>2 DEF RequestRecords
  <2>4. QED
    BY <1>2, <2>1, <2>2, <2>3, BeginType DEF UpdateIssue
<1>3. ASSUME NEW r \in Requests, StoreIssue(r) PROVE IssuesTypeOK'
  <2>1. PICK rows \in SUBSET Item :
          /\ item' = (item \ ItemsOf(request[r].id)) \cup rows
          /\ used' = used \cup {x.id : x \in rows}
    BY <1>3, StoreIssueRows
  <2>2. item' \subseteq Item /\ used' \subseteq UUIDs
    BY <2>1 DEF IssuesTypeOK, Item
  <2>3. Stored' \subseteq IssueIDs /\ issue' \in [Stored' -> Issue]
    <3>1. request[r] \in RequestRecords
      BY <1>3 DEF StoreIssue, IssuesTypeOK
    <3>2. Stored' = Stored \cup {request[r].id}
      BY <1>3 DEF StoreIssue, Stored
    <3>3. QED
      BY <1>3, <3>1, <3>2 DEF StoreIssue, IssuesTypeOK, RequestRecords, Issue, Stored
  <2>4. End(r)
    BY <1>3 DEF StoreIssue
  <2>5. QED
    BY <2>2, <2>3, <2>4, EndType DEF IssuesTypeOK
<1>4. ASSUME NEW r \in Requests, StoreFails(r) PROVE IssuesTypeOK'
  BY <1>4, EndType DEF StoreFails, IssuesTypeOK, Stored
<1>5. ASSUME NEW id \in IssueIDs, DeleteIssue(id) PROVE IssuesTypeOK'
  BY <1>5 DEF DeleteIssue, IssuesTypeOK, Stored, Issue, Serving
<1>6. CASE UNCHANGED vars
  BY <1>6 DEF vars, IssuesTypeOK, Stored, Serving
<1>7. QED
  BY <1>1, <1>2, <1>3, <1>4, <1>5, <1>6 DEF Next

(* Type correctness, and that a request reads items of its own issue.      *)
THEOREM IssuesTypeCorrect == Spec => []IssuesTypeOK
  BY TypeInit, TypeStep, PTL DEF Spec

------------------------------------------------------------------------------
(* IDs of items.                                                            *)

(* No ID is in use that was not generated. *)
Generated == \A x \in Known : x.id \in used

(* fillIssue gives an item a new ID or brings a known item back unchanged. *)
LEMMA FilledIsNewOrKnown ==
  ASSUME IssuesTypeOK, NEW r \in Serving, NEW rows \in SUBSET Item,
         FillIssue(request[r].id, request[r].body, request[r].old, rows),
         NEW x \in rows
  PROVE  x \in request[r].old \/ x.id \notin used
<1> DEFINE ids == {z.id : z \in {y \in rows : y.content = x.content}}
           oldIDs == {z.id : z \in {y \in request[r].old : y.content = x.content}}
<1>1. x \in Item /\ x.issue = request[r].id /\ x.id \in ids
  BY DEF FillIssue
<1>2. x.content \in Contents
  BY <1>1 DEF Item
<1>3. ids \subseteq oldIDs \/ ids \cap used = {}
  BY <1>2 DEF FillIssue
<1>4. CASE ids \subseteq oldIDs
  <2>1. PICK y \in request[r].old : y.content = x.content /\ y.id = x.id
    BY <1>1, <1>4
  <2>2. y \in Item /\ y.issue = x.issue
    BY <1>1, <2>1 DEF IssuesTypeOK, RequestRecords
  <2>3. y = x
    BY <1>1, <2>1, <2>2 DEF Item
  <2>4. QED
    BY <2>1, <2>3
<1>5. CASE ids \cap used = {}
  BY <1>1, <1>5
<1>6. QED
  BY <1>3, <1>4, <1>5

(* Only storing an issue makes items known. *)
LEMMA KnownStep ==
  ASSUME IssuesTypeOK, [Next]_vars
  PROVE  \/ Known' \subseteq Known /\ used' = used
         \/ \E r \in Requests : StoreIssue(r)
<1>1. ASSUME NEW r \in Requests, NEW record, record.old \subseteq Known,
             Begin(r, record), UNCHANGED <<item, used>>
      PROVE  Known' \subseteq Known /\ used' = used
  <2>1. /\ Serving' = Serving \cup {r}
        /\ \A q \in Serving' : request'[q] = IF q = r THEN record ELSE request[q]
    BY <1>1 DEF Begin, Serving
  <2>2. \A q \in Serving' : request'[q].old \subseteq Known
    BY <1>1, <2>1 DEF Known
  <2>3. QED
    BY <1>1, <2>2 DEF Known
<1>2. ASSUME NEW r \in Requests, NEW id \in IssueIDs, NEW name \in Names,
             NEW body \in Bodies, SaveIssue(r, id, name, body)
      PROVE  Known' \subseteq Known /\ used' = used
  <2>1. [id |-> id, name |-> name, body |-> body, old |-> {}].old \subseteq Known
    OBVIOUS
  <2>2. QED
    BY <1>1, <1>2, <2>1 DEF SaveIssue
<1>3. ASSUME NEW r \in Requests, NEW id \in IssueIDs, NEW name \in Names,
             NEW body \in Bodies, UpdateIssue(r, id, name, body)
      PROVE  Known' \subseteq Known /\ used' = used
  <2>1. PICK old \in {ItemsOf(id), {}} :
          Begin(r, [id |-> id, name |-> name, body |-> body, old |-> old])
    BY <1>3 DEF UpdateIssue
  <2>2. [id |-> id, name |-> name, body |-> body, old |-> old].old \subseteq Known
    BY DEF ItemsOf, Known
  <2>3. QED
    BY <1>1, <1>3, <2>1, <2>2 DEF UpdateIssue
<1>4. ASSUME NEW r \in Requests, StoreFails(r)
      PROVE  Known' \subseteq Known /\ used' = used
  BY <1>4, EndType DEF StoreFails, Known
<1>5. ASSUME NEW id \in IssueIDs, DeleteIssue(id)
      PROVE  Known' \subseteq Known /\ used' = used
  BY <1>5 DEF DeleteIssue, Known, Serving
<1>6. CASE UNCHANGED vars
  BY <1>6 DEF vars, Known, Serving
<1>7. QED
  BY <1>2, <1>3, <1>4, <1>5, <1>6 DEF Next

(* Storing an issue keeps IDs generated and unambiguous.                   *)
LEMMA StoreIssueIDs ==
  ASSUME IssuesTypeOK, Generated, ItemIDsMeanOneItem,
         NEW r \in Requests, StoreIssue(r)
  PROVE  Generated' /\ ItemIDsMeanOneItem'
<1>1. PICK rows \in SUBSET Item :
        /\ FillIssue(request[r].id, request[r].body, request[r].old, rows)
        /\ item' = (item \ ItemsOf(request[r].id)) \cup rows
        /\ used' = used \cup {x.id : x \in rows}
  BY StoreIssueRows
<1>2. Known' \subseteq Known \cup rows
  <2>1. End(r)
    BY DEF StoreIssue
  <2>2. QED
    BY <1>1, <2>1, EndType DEF Known
<1>3. \A x \in rows : x \in Known \/ x.id \notin used
  <2>1. r \in Serving
    BY DEF StoreIssue
  <2>2. request[r].old \subseteq Known
    BY <2>1 DEF Known
  <2>3. QED
    BY <1>1, <2>1, <2>2, FilledIsNewOrKnown
<1>4. \A x, y \in rows : x.id = y.id => x = y
  BY <1>1 DEF FillIssue
<1>5. Generated'
  BY <1>1, <1>2 DEF Generated
<1>6. \A x, y \in Known \cup rows : x.id = y.id => x = y
  BY <1>3, <1>4 DEF Generated, ItemIDsMeanOneItem
<1>7. QED
  BY <1>2, <1>5, <1>6 DEF ItemIDsMeanOneItem

(* A hyperlink to an item never comes to lead to another one, whatever the *)
(* order in which updates read and store.                                  *)
THEOREM ItemIDsAreUnambiguous == Spec => []ItemIDsMeanOneItem
<1>1. Init => Generated /\ ItemIDsMeanOneItem
  BY DEF Init, Generated, ItemIDsMeanOneItem, Known, Serving
<1>2. IssuesTypeOK /\ Generated /\ ItemIDsMeanOneItem /\ [Next]_vars
        => Generated' /\ ItemIDsMeanOneItem'
  BY KnownStep, StoreIssueIDs DEF Generated, ItemIDsMeanOneItem
<1>3. QED
  BY <1>1, <1>2, IssuesTypeCorrect, PTL DEF Spec

------------------------------------------------------------------------------
(* Deletion.                                                                *)

(* A deleted issue stays deleted, whatever updates were on their way.      *)
THEOREM DeletionIsFinal == Spec => DeletedStaysDeleted
<1>1. IssuesTypeOK /\ [Next]_vars
        => [\A id \in Stored :
              issue[id].deleted => id \in DOMAIN issue' /\ issue'[id].deleted]_vars
  <2>1. SUFFICES ASSUME IssuesTypeOK, Next, NEW id \in Stored, issue[id].deleted
        PROVE  id \in DOMAIN issue' /\ issue'[id].deleted
    BY DEF Stored
  <2>2. ASSUME NEW r \in Requests, StoreIssue(r)
        PROVE  id \in DOMAIN issue' /\ issue'[id].deleted
    BY <2>1, <2>2 DEF StoreIssue, Stored
  <2>3. ASSUME NEW d \in IssueIDs, DeleteIssue(d)
        PROVE  id \in DOMAIN issue' /\ issue'[id].deleted
    BY <2>1, <2>3 DEF DeleteIssue, Stored, IssuesTypeOK, Issue
  <2>4. CASE issue' = issue
    BY <2>1, <2>4 DEF Stored
  <2>5. QED
    BY <2>1, <2>2, <2>3, <2>4 DEF Next, SaveIssue, UpdateIssue, StoreFails
<1>2. QED
  BY <1>1, IssuesTypeCorrect, PTL DEF Spec, DeletedStaysDeleted
(* What fillIssue gives the only old item of a content: its own ID.        *)
LEMMA OnlyOldKeepsID ==
  ASSUME NEW id, NEW body, NEW old, NEW rows, FillIssue(id, body, old, rows),
         NEW x \in old, x.content \in Contents, body[x.content] > 0,
         \A y \in old : y.content = x.content => y = x
  PROVE  \E y \in rows : y.issue = id /\ y.content = x.content /\ y.id = x.id
<1> DEFINE ids == {y.id : y \in {z \in rows : z.content = x.content}}
           oldIDs == {y.id : y \in {z \in old : z.content = x.content}}
<1>1. oldIDs = {x.id}
  OBVIOUS
<1>2. Cardinality(ids) = 1 /\ ids \subseteq oldIDs
  BY <1>1 DEF FillIssue
<1>3. ids # {}
  <2> HIDE DEF ids
  <2> QED BY <1>2, FS_EmptySet
<1>4. PICK y \in rows : y.content = x.content /\ y.id \in oldIDs
  BY <1>2, <1>3
<1>5. QED
  BY <1>1, <1>4 DEF FillIssue

(* An item whose content is unchanged and is the only one of that content  *)
(* keeps its ID when an update stores what it read.                        *)
THEOREM UnchangedKeepTheirIDs == Spec => UnchangedItemsKeepID
<1>1. ASSUME IssuesTypeOK, NEW r \in Serving, StoreIssue(r),
             NEW x \in request[r].old, request[r].body[x.content] > 0,
             \A y \in request[r].old : y.content = x.content => y = x
      PROVE  x \in item'
  <2>1. r \in Requests /\ x \in Item /\ x.issue = request[r].id
    BY <1>1 DEF IssuesTypeOK, RequestRecords
  <2>2. PICK rows \in SUBSET Item :
             /\ FillIssue(request[r].id, request[r].body, request[r].old, rows)
             /\ item' = (item \ ItemsOf(request[r].id)) \cup rows
    BY <1>1, <2>1, StoreIssueRows
  <2>3. x.content \in Contents
    BY <2>1 DEF Item
  <2>4. PICK y \in rows :
             y.issue = request[r].id /\ y.content = x.content /\ y.id = x.id
    BY <1>1, <2>2, <2>3, OnlyOldKeepsID
  <2>5. y = x
    BY <2>1, <2>2, <2>4 DEF Item
  <2>6. QED
    BY <2>2, <2>4, <2>5
<1>2. IssuesTypeOK /\ [Next]_vars => [UnchangedStay]_vars
  BY <1>1 DEF UnchangedStay
<1>3. QED
  BY <1>2, TypeInit, TypeStep, PTL DEF Spec, UnchangedItemsKeepID
=============================================================================
