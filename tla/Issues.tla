-------------------------------- MODULE Issues --------------------------------
(***************************************************************************)
(* The issues of the data provider: controller/issue.go over the tables of *)
(* repository/issue.go.                                                    *)
(*                                                                         *)
(* The outcomes, attachments and roles of an issue are its items, one kind *)
(* for the three, whose code is the same: an item has a content (a role's  *)
(* is its user) and an ID, which hyperlinks carry.  Elements, whose IDs    *)
(* the client gives, and the other texts of an issue are left out.         *)
(*                                                                         *)
(* A transaction is one step: it starts by writing the issue's row, which  *)
(* makes transactions on one issue wait for each other.  What a handler    *)
(* reads, it reads before its transaction.                                 *)
(***************************************************************************)
EXTENDS FiniteSets, Naturals

CONSTANTS
  IssueIDs,  \* the UUIDs that issues may get
  UUIDs,     \* the UUIDs that items may get
  Names,     \* the names of issues
  Contents,  \* the contents of items
  MaxCopies, \* bound: how often one content may be in an issue
  Requests   \* bound: the requests that are served at one time

ASSUME IssuesAssumption == MaxCopies \in Nat

VARIABLES
  issue,   \* the rows of CSFDP_Issue, by ID
  item,    \* the rows of the tables of items
  used,    \* the UUIDs that GenerateUUID has returned for items
  request  \* what each request being served has read and will write

vars == <<issue, item, used, request>>

Issue == [name : Names, deleted : BOOLEAN]
Item == [issue : IssueIDs, content : Contents, id : UUIDs]

(* How often each content is in the body of a request. *)
Bodies == [Contents -> 0 .. MaxCopies]

Stored == DOMAIN issue

(* Mutant: the WHERE is missing. *)
ItemsOfAll(id) == item

(* The items of an issue, as SELECT and DELETE find them. *)
ItemsOf(id) == {x \in item : x.issue = id}

(* What SaveIssue, or UpdateIssue, brings to its transaction. *)
RequestRecords ==
  [id : IssueIDs, name : Names, body : Bodies, old : SUBSET Item]

(* A request that is not in `request' is not being served. *)
Serving == DOMAIN request
Begin(r, record) ==
  request' = [q \in Serving \cup {r} |-> IF q = r THEN record ELSE request[q]]
End(r) == request' = [q \in Serving \ {r} |-> request[q]]

Init ==
  /\ issue = [id \in {} |-> 0]
  /\ item = {}
  /\ used = {}
  /\ request = [r \in {} |-> 0]

(* ExistsIssueByName, which finds deleted issues, too. *)
ExistsIssueByName(name) == \E id \in Stored : issue[id].name = name

(* Mutant: items keep their IDs by position, whatever has changed. *)
FillIssueByPosition(id, body, old, rows) ==
  /\ \A x \in rows : x.issue = id
  /\ \A c \in Contents :
       LET ids == {x.id : x \in {y \in rows : y.content = c}}
           oldIDs == {x.id : x \in old}
       IN  IF oldIDs # {} /\ body[c] > 0
           THEN Cardinality(ids) = 1 /\ ids \subseteq oldIDs
           ELSE Cardinality(ids) = body[c] /\ ids \cap used = {}
  /\ \A x, y \in rows : x.id = y.id => x = y

(* Mutant: the IDs of the old items are not looked for. *)
FillIssueAnew(id, body, old, rows) ==
  /\ \A x \in rows : x.issue = id
  /\ \A c \in Contents :
       LET ids == {x.id : x \in {y \in rows : y.content = c}}
       IN  Cardinality(ids) = body[c] /\ ids \cap used = {}
  /\ \A x, y \in rows : x.id = y.id => x = y

(* fillIssue may give the items of a body the IDs in rows: the ID of an old*)
(* item of the same content, all its copies the same one, or new UUIDs.    *)
(* Which of several old items is found depends on the order of a SELECT.   *)
FillIssue(id, body, old, rows) ==
  /\ \A x \in rows : x.issue = id
  /\ \A c \in Contents :
       LET ids == {x.id : x \in {y \in rows : y.content = c}}
           oldIDs == {x.id : x \in {y \in old : y.content = c}}
       IN  IF oldIDs # {} /\ body[c] > 0
           THEN Cardinality(ids) = 1 /\ ids \subseteq oldIDs
           ELSE Cardinality(ids) = body[c] /\ ids \cap used = {}
  /\ \A x, y \in rows : x.id = y.id => x = y

(* The rows that replace the items of issue id. *)
Rows(id) == SUBSET [issue : {id}, content : Contents, id : UUIDs]

------------------------------------------------------------------------------
(* SaveIssue, to its transaction: a name that exists is refused. *)
SaveIssue(r, id, name, body) ==
  /\ r \notin Serving
  /\ ~ExistsIssueByName(name)
  /\ id \notin Stored
  /\ \A q \in Serving : request[q].id # id
  /\ Begin(r, [id |-> id, name |-> name, body |-> body, old |-> {}])
  /\ UNCHANGED <<issue, item, used>>

(* UpdateIssue, to its transaction: it reads the issue, and goes on with an*)
(* empty one if that fails.  The body is of the issue its URL names, and   *)
(* of one that is stored: for others the transaction changes nothing.      *)
UpdateIssue(r, id, name, body) ==
  /\ r \notin Serving
  /\ id \in Stored
  /\ \E old \in {ItemsOf(id), {}} :
       Begin(r, [id |-> id, name |-> name, body |-> body, old |-> old])
  /\ UNCHANGED <<issue, item, used>>

(* Mutant: the update stores DeleteAt, which the body does not have. *)
StoreIssueUndeleting(r) ==
  LET req == request[r] IN
  /\ r \in Serving
  /\ \E rows \in Rows(req.id) :
       /\ FillIssue(req.id, req.body, req.old, rows)
       /\ item' = (item \ ItemsOf(req.id)) \cup rows
       /\ used' = used \cup {x.id : x \in rows}
  /\ issue' = [id \in Stored \cup {req.id} |->
       IF id = req.id THEN [name |-> req.name, deleted |-> FALSE] ELSE issue[id]]
  /\ End(r)

(* The transactions of the two: the row is inserted, or its name updated,  *)
(* and its items are replaced.                                             *)
StoreIssue(r) ==
  LET req == request[r]
      deleted == req.id \in Stored /\ issue[req.id].deleted
  IN
  /\ r \in Serving
  /\ \E rows \in Rows(req.id) :
       /\ FillIssue(req.id, req.body, req.old, rows)
       /\ item' = (item \ ItemsOf(req.id)) \cup rows
       /\ used' = used \cup {x.id : x \in rows}
  /\ issue' = [id \in Stored \cup {req.id} |->
       IF id = req.id THEN [name |-> req.name, deleted |-> deleted] ELSE issue[id]]
  /\ End(r)

(* The transaction fails and is rolled back. *)
StoreFails(r) ==
  /\ r \in Serving
  /\ End(r)
  /\ UNCHANGED <<issue, item, used>>

(* DeleteIssue: one statement that stamps the row; the items stay. *)
DeleteIssue(id) ==
  /\ id \in Stored
  /\ issue' = [issue EXCEPT ![id].deleted = TRUE]
  /\ UNCHANGED <<item, used, request>>

Next ==
  \/ \E r \in Requests, id \in IssueIDs, name \in Names, body \in Bodies :
       SaveIssue(r, id, name, body) \/ UpdateIssue(r, id, name, body)
  \/ \E r \in Requests : StoreIssue(r) \/ StoreFails(r)
  \/ \E id \in IssueIDs : DeleteIssue(id)

Spec == Init /\ [][Next]_vars

------------------------------------------------------------------------------
(* Every variable holds a value of its kind. *)
IssuesTypeOK ==
  /\ Stored \subseteq IssueIDs
  /\ issue \in [Stored -> Issue]
  /\ item \subseteq Item
  /\ used \subseteq UUIDs
  /\ Serving \subseteq Requests
  /\ request \in [Serving -> RequestRecords]
  /\ \A r \in Serving : \A x \in request[r].old : x.issue = request[r].id

(* The items in the tables and those a request has read and may write back.*)
Known == item \cup UNION {request[r].old : r \in Serving}

(* An ID of an item means one content of one issue: a hyperlink never comes*)
(* to lead elsewhere, however updates overtake each other.                 *)
ItemIDsMeanOneItem == \A x, y \in Known : x.id = y.id => x = y

(* A deleted issue stays deleted: an update that was on its way does not   *)
(* bring it back.                                                          *)
DeletedStaysDeleted ==
  [][\A id \in Stored :
       issue[id].deleted => id \in DOMAIN issue' /\ issue'[id].deleted]_vars

(* The update of a request that stores what it read, nothing having come   *)
(* between, keeps the items that are the only ones of their contents.      *)
UnchangedStay ==
  \A r \in Serving :
    LET req == request[r] IN
    StoreIssue(r) /\ req.old = ItemsOf(req.id) =>
      \A x \in req.old :
        /\ req.body[x.content] > 0
        /\ \A y \in req.old : y.content = x.content => y = x
        => x \in item'

(* "UUIDs are kept when possible, unless the data of an item changed":     *)
(* when an update stores what it read before, no other update having come  *)
(* between, an item that is the only one of its content stays as it was.   *)
UnchangedItemsKeepID == [][UnchangedStay]_vars
=============================================================================
