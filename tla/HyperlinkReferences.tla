-------------------------- MODULE HyperlinkReferences --------------------------
(***************************************************************************)
(* How the webapp turns the reference in a chat message, &(Org.Section.X), *)
(* into a link: helpers/parser/posts_parser.ts and the posts parsers of    *)
(* the widgets.                                                            *)
(*                                                                         *)
(* A reference is the sequence of its tokens.  What is fetched on the way  *)
(* is a constant, and any one of the fetches may fail: "channel" and       *)
(* "object" tell where the user is, "rows" the objects of a section and    *)
(* "data" what a widget shows.  An exception is the value Thrown.  Names   *)
(* that the code compares in lower case are in one case here.              *)
(***************************************************************************)
EXTENDS Naturals, Sequences, SequencesExt, FiniteSets

CONSTANTS
  Organizations, \* the configuration: organizations with sections and widgets
  Rows,          \* the objects of a section, by the id of the section
  Contents,      \* what a widget shows, by <<id of the object, name of the widget>>
  Channels,      \* the channels: [parentId, sectionId], or Nothing for a plain one
  Includes,      \* <<text, part>>: text contains the part
  Starts,        \* <<text, part>>: text starts with the part
  Nothing,       \* undefined and null
  Thrown         \* an exception

IsList(s) == s \in Seq(ToSet(s)) /\ ToSet(s) \cap {Nothing, Thrown} = {}

(* Organizations, their sections and the objects of these come in lists.   *)
ASSUME ListsAssumption ==
  /\ IsList(Organizations)
  /\ \A o \in ToSet(Organizations) : IsList(o.sections)
  /\ \A id \in DOMAIN Rows : IsList(Rows[id])

(* What the code takes for granted of the configuration and the channels,  *)
(* and a theorem states as its assumptions: a name tells organizations     *)
(* apart, and the sections of one, an id all sections; and the channel of  *)
(* an object has the ids of both.                                          *)
Unambiguous ==
  \A o, p \in ToSet(Organizations) :
    /\ o.name = p.name => o = p
    /\ \A s \in ToSet(o.sections), t \in ToSet(p.sections) :
         /\ s.id = t.id => o = p /\ s = t
         /\ o = p /\ s.name = t.name => s = t

ChannelsHaveObjects ==
  \A c \in DOMAIN Channels : Channels[c] # Nothing =>
    \E o \in ToSet(Organizations) : \E s \in ToSet(o.sections) :
      /\ s.id = Channels[c].parentId /\ s.id \in DOMAIN Rows
      /\ \E r \in ToSet(Rows[s.id]) : r.id = Channels[c].sectionId

HasPart(text, part) == text = part \/ <<text, part>> \in Includes
Begins(text, part) == text = part \/ <<text, part>> \in Starts

(* Array.find: the first one, or undefined. *)
Find(s, Test(_)) ==
  LET found == {i \in DOMAIN s : Test(s[i])}
  IN IF found = {} THEN Nothing ELSE s[Min(found)]

FindNamed(s, name) == Find(s, LAMBDA x : x.name = name)

------------------------------------------------------------------------------
(* config/config.ts and hooks/config.ts *)
getOrganizationById(id) == Find(Organizations, LAMBDA o : o.id = id)
getOrganizationByName(name) == FindNamed(Organizations, name)
getOrganizationBySectionId(id) ==
  Find(Organizations, LAMBDA o : \E s \in ToSet(o.sections) : s.id = id)

(* The first one of all sections is in the first organization with one.    *)
getSection(id) ==
  LET organization == getOrganizationBySectionId(id) IN
  IF organization = Nothing THEN Nothing
  ELSE Find(organization.sections, LAMBDA s : s.id = id)

isSectionByName(name) ==
  \E o \in ToSet(Organizations) : \E s \in ToSet(o.sections) : s.name = name

------------------------------------------------------------------------------
(* The widgets of an issue, which the configuration does not list. *)
Objectives == "Objectives and research area"
Outcomes == "Outcomes"
Roles == "Participants and roles"
Elements == "Support technology data"
Attachments == "Attachments"

WidgetOf(name, type) == [name |-> name, type |-> type]

getDefaultsWidgets(isRhs) ==
  <<WidgetOf(Objectives, "TextBox"),
    WidgetOf(Outcomes, "List"),
    WidgetOf(Roles, "PaginatedTable"),
    WidgetOf(Elements, IF isRhs THEN "Accordion" ELSE "PaginatedTable"),
    WidgetOf(Attachments, "List")>>

getDefaultWidgetByName(name, isRhs) == FindNamed(getDefaultsWidgets(isRhs), name)

IdOf(x) == IF x = Nothing THEN Nothing ELSE x.id

(* The answer for a widget of an object, or for one of an organization.    *)
Fetched(failing, object, widget) ==
  LET key == <<IdOf(object), widget.name>> IN
  IF failing = "data" \/ key \notin DOMAIN Contents THEN Thrown ELSE Contents[key]

(* A column of a table holds the value, in that row. *)
Holds(row, column, value) == column \in DOMAIN row.cells /\ value \in row.cells[column]

(* The rows that the elements of an issue make. *)
ElementCells(element) ==
  [Organization |-> {getOrganizationById(element.organizationId).name},
   Name |-> {element.name},
   Description |-> {element.description} \ {Nothing}]

------------------------------------------------------------------------------
(* parseRhsReference: where the user is.  The channel must belong to a     *)
(* section, or the destructuring throws.                                   *)
RhsFails(channel, failing) ==
  Channels[channel] = Nothing \/ failing \in {"channel", "object"}

RhsOf(channel, failing) ==
  IF RhsFails(channel, failing) THEN Thrown
  ELSE LET section == getSection(Channels[channel].parentId) IN
       [organization |-> getOrganizationBySectionId(section.id),
        section |-> section,
        object |-> Find(Rows[section.id], LAMBDA r : r.id = Channels[channel].sectionId)]

IsRhsReference(rhs, tokens) == tokens # <<>> /\ Head(tokens) = rhs.object.name
IsPartialRhsReference(rhs, tokens) ==
  /\ tokens # <<>>
  /\ ~IsRhsReference(rhs, tokens)
  /\ HasPart(rhs.object.name, Head(tokens))

(* A reference that starts with the name of the object of the channel is   *)
(* made absolute.                                                          *)
AbsoluteTokens(rhs, tokens) ==
  IF IsRhsReference(rhs, tokens)
  THEN <<rhs.organization.name, rhs.section.name>> \o tokens
  ELSE tokens

------------------------------------------------------------------------------
(* Anchors.  The one of an item is its id: list-item-, table-row- and the  *)
(* other prefixes tell nothing apart.                                      *)
WidgetAnchor(name, reference) ==
  <<"widget", name, IdOf(reference.object), IdOf(reference.section)>>
ItemAnchor(id) == <<"item", id>>

(* A widget whose item is not found is linked itself. *)
AnchorOf(found, widgetHash) ==
  IF found \in {Nothing, Thrown} THEN IF found = Thrown THEN Thrown ELSE widgetHash
  ELSE ItemAnchor(found.id)

(* Mutant: the item must be the text of the token. *)
parseListExactly(tokens, items, widgetHash) ==
  IF tokens = <<>> THEN widgetHash
  ELSE IF items = Thrown THEN Thrown
  ELSE AnchorOf(Find(items, LAMBDA i : \E t \in i.texts : t = tokens[1]), widgetHash)

(* An item that starts with the token: the suggestions cut long texts.     *)
parseListWidgetId(tokens, items, widgetHash) ==
  IF tokens = <<>> THEN widgetHash
  ELSE IF items = Thrown THEN Thrown
  ELSE AnchorOf(Find(items, LAMBDA i : \E t \in i.texts : Begins(t, tokens[1])), widgetHash)

(* The label or the text of an item. *)
parseTimelineWidgetId(tokens, items, widgetHash) ==
  IF tokens = <<>> THEN widgetHash
  ELSE IF items = Thrown THEN Thrown
  ELSE AnchorOf(Find(items, LAMBDA i : tokens[1] \in i.texts), widgetHash)

(* The first row with the value in the column.  One token is not enough.   *)
parseTableWidgetId(tokens, table, widgetHash) ==
  IF Len(tokens) < 2 THEN widgetHash
  ELSE IF table = Thrown THEN Thrown
  ELSE AnchorOf(Find(table.rows, LAMBDA r : Holds(r, tokens[1], tokens[2])), widgetHash)

parseRolesWidgetId(roles, column, value) == Find(roles, LAMBDA r : Holds(r, column, value))

(* For a value without an element, or for no value, the name of the        *)
(* organization of undefined is read.                                      *)
parseElementsWidgetId(elements, column, value) ==
  LET Matches(e) ==
        /\ column \in DOMAIN ElementCells(e)
        /\ \E text \in ElementCells(e)[column] :
             text = value \/ (column = "Description" /\ Begins(text, value))
      element == Find(elements, Matches)
  IN IF element = Nothing /\ column = "Organization" THEN Thrown ELSE element

parsePaginatedTableWidgetId(tokens, name, isIssues, data, widgetHash) ==
  LET value == IF Len(tokens) > 1 THEN tokens[2] ELSE Nothing IN
  IF tokens = <<>> \/ ~isIssues THEN widgetHash
  ELSE IF data = Thrown THEN Thrown
  ELSE AnchorOf(CASE name = Roles -> parseRolesWidgetId(data.rows, tokens[1], value)
                  [] name = Elements -> parseElementsWidgetId(data, tokens[1], value)
                  [] OTHER -> Nothing,
                widgetHash)

(* The description of the graph, a node, or the info of either.            *)
NodeAnchor(tokens, id, anchor, widgetHash) ==
  IF Len(tokens) = 2
  THEN IF tokens[2] = "Description" THEN <<"info", id>> ELSE widgetHash
  ELSE anchor

parseGraphWidgetId(tokens, graph, reference, widgetHash) ==
  IF tokens = <<>> THEN widgetHash
  ELSE IF graph = Thrown THEN Thrown
  ELSE IF graph.description # Nothing /\ graph.description = tokens[1]
       THEN NodeAnchor(tokens, graph.description, <<"description", IdOf(reference.object)>>, widgetHash)
  ELSE LET node == Find(graph.nodes, LAMBDA n : n.label = tokens[1]) IN
       IF node = Nothing THEN widgetHash
       ELSE NodeAnchor(tokens, node.id, ItemAnchor(node.id), widgetHash)

parseTextBoxWidgetId(value, text, widgetHash) ==
  IF value /\ text = Thrown THEN Thrown ELSE widgetHash

(* The type of the widget says which parser takes the rest of the tokens;  *)
(* an accordion has none of its own outside the issues, and other types    *)
(* have no anchor.                                                         *)
parseWidgetHashByType(reference, tokens, widget, isIssues, value, data) ==
  LET widgetHash == WidgetAnchor(widget.name, reference) IN
  CASE widget.type = "Graph" -> parseGraphWidgetId(tokens, data, reference, widgetHash)
    [] widget.type = "PaginatedTable" ->
         parsePaginatedTableWidgetId(tokens, widget.name, isIssues, data, widgetHash)
    [] widget.type = "List" -> parseListWidgetId(tokens, data, widgetHash)
    [] widget.type = "Table" -> parseTableWidgetId(tokens, data, widgetHash)
    [] widget.type = "TextBox" -> parseTextBoxWidgetId(value, data, widgetHash)
    [] widget.type = "Timeline" -> parseTimelineWidgetId(tokens, data, widgetHash)
    [] widget.type = "Accordion" -> widgetHash
    [] OTHER -> Nothing

(* The widget of the section, of the issues, or of the organization.       *)
WidgetNamed(reference, name, isRhs) ==
  LET ofSection == IF reference.section = Nothing THEN Nothing
                   ELSE FindNamed(reference.section.widgets, name)
      ofIssues == IF reference.organization.isEcosystem
                  THEN getDefaultWidgetByName(name, isRhs) ELSE Nothing
  IN
  IF ofSection # Nothing THEN [widget |-> ofSection, isIssues |-> FALSE]
  ELSE [widget |-> IF ofIssues # Nothing THEN ofIssues
                   ELSE FindNamed(reference.organization.widgets, name),
        isIssues |-> reference.organization.isEcosystem]

(* parseWidgetHash up to the accordion of the issues: the reference with   *)
(* its anchor.                                                             *)
WithHash(reference, hash) ==
  IF hash = Thrown THEN Thrown ELSE [reference EXCEPT !.hash = hash]

HashOf(named, reference, tokens, value, failing) ==
  IF named.widget = Nothing THEN reference.hash
  ELSE parseWidgetHashByType(reference, Tail(tokens), named.widget, named.isIssues, value,
                             Fetched(failing, reference.object, named.widget))

WithWidgetHash(reference, tokens, isRhs, value, failing) ==
  IF tokens = <<>> THEN reference
  ELSE WithHash(reference, HashOf(WidgetNamed(reference, Head(tokens), isRhs),
                                  reference, tokens, value, failing))

(* An element of the issue in the accordion of the RHS: the rest of the    *)
(* tokens is about the object that the element stands for, and without     *)
(* an anchor of its own the reference is forwarded to that object.         *)
ElementReference(element) ==
  [organization |-> getOrganizationById(element.organizationId),
   section |-> getSection(element.parentId), object |-> element, hash |-> Nothing]

Forwarded(reference, nested) ==
  IF nested = Thrown THEN Thrown
  ELSE IF nested.hash # Nothing THEN [reference EXCEPT !.hash = nested.hash]
  ELSE [reference EXCEPT !.object = nested.object]

parseAccordionWidgetId(reference, tokens, elements, widgetHash, value, failing) ==
  LET element == FindNamed(elements, tokens[1]) IN
  IF tokens = <<>> THEN [reference EXCEPT !.hash = widgetHash]
  ELSE IF elements = Thrown THEN Thrown
  ELSE IF element = Nothing THEN [reference EXCEPT !.hash = widgetHash]
  ELSE Forwarded(reference, WithWidgetHash(ElementReference(element), Tail(tokens), FALSE,
                                           value, failing))

(* The elements of an issue, if the widget is their accordion. *)
ElementsAccordion(named) ==
  named.widget # Nothing /\ named.isIssues /\ named.widget.type = "Accordion"

parseWidgetHash(reference, tokens, isRhs, value, failing) ==
  LET named == WidgetNamed(reference, Head(tokens), isRhs) IN
  IF ElementsAccordion(named)
  THEN parseAccordionWidgetId(reference, Tail(tokens),
                              Fetched(failing, reference.object, named.widget),
                              WidgetAnchor(named.widget.name, reference), value, failing)
  ELSE WithWidgetHash(reference, tokens, isRhs, value, failing)

------------------------------------------------------------------------------
NoReference ==
  [organization |-> Nothing, section |-> Nothing, object |-> Nothing, hash |-> Nothing]

(* The row with the name, of a fetch that may fail. *)
parseObject(section, name, failing) ==
  IF failing = "rows" THEN Nothing ELSE FindNamed(Rows[section.id], name)

(* Mutant: the reference is returned whatever it holds. *)
AfterErrorKeeping(reference) == reference

(* After an exception: what was resolved before it, if anything was.       *)
AfterError(reference) == IF reference.organization = Nothing THEN Nothing ELSE reference

Caught(before, reference) == IF reference = Thrown THEN AfterError(before) ELSE reference

(* Organization, section, object, widget: as far as the tokens lead.  A    *)
(* second token that names no section is a widget of the organization.     *)
parseTokensToHyperlinkReference(tokens, isRhs, value, failing) ==
  LET organization == getOrganizationByName(tokens[1])
      atOrganization == [NoReference EXCEPT !.organization = organization]
      section == FindNamed(organization.sections, tokens[2])
      atSection == [atOrganization EXCEPT !.section = section]
      object == parseObject(section, tokens[3], failing)
      atObject == [atSection EXCEPT !.object = object]
      Widget(at, i) ==
        Caught(at, parseWidgetHash(at, SubSeq(tokens, i, Len(tokens)), isRhs, value, failing))
  IN
  IF tokens = <<>> THEN NoReference
  ELSE IF organization = Nothing THEN AfterError(NoReference)
  ELSE IF Len(tokens) = 1 THEN atOrganization
  ELSE IF ~isSectionByName(tokens[2]) THEN Widget(atOrganization, 2)
  ELSE IF section = Nothing THEN AfterError(atOrganization)
  ELSE IF Len(tokens) = 2 THEN atSection
  ELSE IF object = Nothing THEN AfterError(atSection)
  ELSE IF Len(tokens) = 3 THEN atObject
  ELSE Widget(atObject, 4)
=============================================================================
