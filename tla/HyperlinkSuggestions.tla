------------------------- MODULE HyperlinkSuggestions -------------------------
(***************************************************************************)
(* What the webapp offers for a reference that is being typed:             *)
(* helpers/parser/suggestions_parser.ts and the suggestions parsers of the *)
(* widgets.                                                                *)
(*                                                                         *)
(* A suggestion is its text with the thing it stands for, which the code   *)
(* keeps as the id of the suggestion.  A list of suggestions is their set: *)
(* nothing but the first of a graph depends on the order.                  *)
(***************************************************************************)
EXTENDS HyperlinkReferences

CONSTANT Ellipsed \* the cut form of the long texts of lists

Suggestion(text, thing) == [text |-> text, thing |-> thing]

getEllipsedText(text) == IF text \in DOMAIN Ellipsed THEN Ellipsed[text] ELSE text

Like(suggestions, hint) == {s \in suggestions : HasPart(s.text, hint)}

(* An organization, a section, an object or an item of a widget. *)
Thing(id) == <<"thing", id>>

(* Things with a name, and the ones whose name contains the hint. *)
Named(things) == {Suggestion(x.name, Thing(x.id)) : x \in ToSet(things)}
NamedLike(things, hint) == Like(Named(things), hint)

(* A widget of an object; a column, a header or the name of a graph's      *)
(* description is a text without a thing.                                  *)
WidgetThing(name, object) == <<"widget", name, IdOf(object)>>

WidgetSuggestions(widgets, object) ==
  {Suggestion(w.name, WidgetThing(w.name, object)) : w \in {v \in ToSet(widgets) : v.name # Nothing}}

ColumnSuggestions(columns) == {Suggestion(c, Nothing) : c \in columns}
CellSuggestions(rows, column) ==
  UNION {{Suggestion(v, Thing(r.id)) : v \in r.cells[column]} : r \in ToSet(rows)}

(* The items by their texts. *)
TextSuggestions(items) ==
  UNION {{Suggestion(t, Thing(i.id)) : t \in i.texts} : i \in ToSet(items)}
Cut(suggestions) == {Suggestion(getEllipsedText(s.text), s.thing) : s \in suggestions}

buildWidgets(organization, section, isRhs) ==
  IF organization.isEcosystem
  THEN getDefaultsWidgets(isRhs) \o section.widgets
  ELSE section.widgets

(* The tokens after the first that is the name of the widget. *)
getWidgetTokens(tokens, widget) ==
  LET at == {i \in DOMAIN tokens : tokens[i] = widget.name}
      first == CHOOSE i \in at : \A j \in at : i <= j
  IN IF at = {} THEN tokens ELSE SubSeq(tokens, first + 1, Len(tokens))

------------------------------------------------------------------------------
(* The parsers of the widgets.  Each takes the rest of the tokens as a     *)
(* hint, or, where the reference ends with the separator, the tokens after *)
(* the name of the widget.                                                 *)

(* Long texts are cut. *)
parseListWidgetSuggestionsWithHint(rest, items) ==
  IF Len(rest) > 1 THEN {}
  ELSE IF items = Thrown THEN Thrown
  ELSE Cut(Like(TextSuggestions(items), rest[1]))

parseListWidgetSuggestions(widgetTokens, items) ==
  IF Len(widgetTokens) >= 1 THEN {}
  ELSE IF items = Thrown THEN Thrown
  ELSE Cut(TextSuggestions(items))

(* Labels and texts, which are not cut. *)
parseTimelineWidgetSuggestionsWithHint(rest, items) ==
  IF Len(rest) > 1 THEN {}
  ELSE IF items = Thrown THEN Thrown
  ELSE Like(TextSuggestions(items), rest[1])

parseTimelineWidgetSuggestions(widgetTokens, items) ==
  IF Len(widgetTokens) >= 1 THEN {}
  ELSE IF items = Thrown THEN Thrown
  ELSE TextSuggestions(items)

(* The columns for a hint, or the values of one for two. *)
ColumnsOrCellsWithHint(rest, table) ==
  IF Len(rest) = 1 THEN ColumnSuggestions({c \in table.columns : HasPart(c, rest[1])})
  ELSE IF rest[1] \notin table.columns THEN {}
  ELSE Like(CellSuggestions(table.rows, rest[1]), rest[2])

(* The values of the column that the last token names, or the columns. *)
CellsOrColumns(last, table) ==
  IF last \in table.columns THEN CellSuggestions(table.rows, last)
  ELSE ColumnSuggestions(table.columns)

parseTableWidgetSuggestionsWithHint(rest, table) ==
  IF Len(rest) > 2 THEN {}
  ELSE IF table = Thrown THEN Thrown
  ELSE ColumnsOrCellsWithHint(rest, table)

(* After the name of a row nothing comes. *)
parseTableWidgetSuggestions(widgetTokens, last, table) ==
  IF Len(widgetTokens) >= 2 THEN {}
  ELSE IF table = Thrown THEN Thrown
  ELSE IF last \notin table.columns /\ \E r \in ToSet(table.rows) : r.name = last THEN {}
  ELSE CellsOrColumns(last, table)

parseRolesWidgetSuggestionsWithHint(rest, roles) == ColumnsOrCellsWithHint(rest, roles)
parseRolesWidgetSuggestions(last, roles) == CellsOrColumns(last, roles)

(* The elements of an issue as a table. *)
ElementsTable(elements) ==
  [columns |-> {"Organization", "Name", "Description"},
   rows |-> [i \in DOMAIN elements |->
               [id |-> elements[i].id, cells |-> ElementCells(elements[i])]]]

parseElementsWidgetSuggestionsWithHint(rest, elements) ==
  ColumnsOrCellsWithHint(rest, ElementsTable(elements))
parseElementsWidgetSuggestions(last, elements) ==
  CellsOrColumns(last, ElementsTable(elements))

(* Only the issues have suggestions for theirs: the roles and the elements.*)
parsePaginatedTableWidgetSuggestionsWithHint(rest, name, isIssues, data) ==
  IF ~isIssues \/ Len(rest) > 2 THEN {}
  ELSE IF data = Thrown THEN Thrown
  ELSE CASE name = Roles -> parseRolesWidgetSuggestionsWithHint(rest, data)
         [] name = Elements -> parseElementsWidgetSuggestionsWithHint(rest, data)
         [] OTHER -> {}

parsePaginatedTableWidgetSuggestions(widgetTokens, last, name, isIssues, data) ==
  IF ~isIssues \/ Len(widgetTokens) >= 2 THEN {}
  ELSE IF data = Thrown THEN Thrown
  ELSE CASE name = Roles -> parseRolesWidgetSuggestions(last, data)
         [] name = Elements -> parseElementsWidgetSuggestions(last, data)
         [] OTHER -> {}

InfoSuggestion(node) == Suggestion("Description", <<"info", node.id>>)

NodeSuggestions(nodes) == {Suggestion(n.label, Thing(n.id)) : n \in ToSet(nodes)}

GraphDescription(graph, object) ==
  {Suggestion(graph.description, <<"description", IdOf(object)>>)
     : d \in {graph.description} \ {Nothing}}

parseGraphWidgetSuggestionsWithHint(rest, graph, object) ==
  LET target == Find(graph.nodes, LAMBDA n : HasPart(n.label, rest[1])) IN
  IF Len(rest) > 2 THEN {}
  ELSE IF graph = Thrown THEN Thrown
  ELSE IF Len(rest) = 1
       THEN Like(NodeSuggestions(graph.nodes) \cup GraphDescription(graph, object), rest[1])
  ELSE IF target # Nothing /\ HasPart("Description", rest[2])
       THEN {InfoSuggestion(target)}
  ELSE {}

(* The node is the first of the suggestions for the hint.  Inside an       *)
(* accordion these are names of widgets, and no node is found.             *)
parseGraphWidgetSuggestions(widgetTokens, graph, h) ==
  LET node == Find(graph.nodes, LAMBDA n : Suggestion(n.label, Thing(n.id)) \in h.suggestions) IN
  IF Len(widgetTokens) >= 2 THEN {}
  ELSE IF graph = Thrown THEN Thrown
  ELSE IF widgetTokens # <<>> /\ h.suggestions # {}
       THEN IF node = Nothing THEN {} ELSE {InfoSuggestion(node)}
  ELSE NodeSuggestions(graph.nodes) \cup GraphDescription(graph, h.object)

(* What a widget shows.  For a list or a paginated table of an issue it is *)
(* a part of the issue; the others of an issue have none.                  *)
Suggested(failing, h) ==
  IF /\ failing # "data"
     /\ h.organization.isEcosystem
     /\ h.widget.type \in {"List", "PaginatedTable"}
     /\ h.widget.name \notin {Outcomes, Attachments, Roles, Elements}
  THEN <<>>
  ELSE Fetched(failing, h.object, h.widget)

(* A text box, an accordion and the types without a parser have none.      *)
ByTypeWithHint(h, rest, data) ==
  LET isIssues == h.organization.isEcosystem IN
  CASE h.widget.type = "Graph" -> parseGraphWidgetSuggestionsWithHint(rest, data, h.object)
    [] h.widget.type = "Table" -> parseTableWidgetSuggestionsWithHint(rest, data)
    [] h.widget.type = "PaginatedTable" ->
         parsePaginatedTableWidgetSuggestionsWithHint(rest, h.widget.name, isIssues, data)
    [] h.widget.type = "List" -> parseListWidgetSuggestionsWithHint(rest, data)
    [] h.widget.type = "Timeline" -> parseTimelineWidgetSuggestionsWithHint(rest, data)
    [] OTHER -> {}

ByType(h, tokens, data) ==
  LET widgetTokens == getWidgetTokens(tokens, h.widget)
      isIssues == h.organization.isEcosystem
  IN
  CASE h.widget.type = "Graph" -> parseGraphWidgetSuggestions(widgetTokens, data, h)
    [] h.widget.type = "Table" -> parseTableWidgetSuggestions(widgetTokens, Last(tokens), data)
    [] h.widget.type = "PaginatedTable" ->
         parsePaginatedTableWidgetSuggestions(widgetTokens, Last(tokens), h.widget.name,
                                              isIssues, data)
    [] h.widget.type = "List" -> parseListWidgetSuggestions(widgetTokens, data)
    [] h.widget.type = "Timeline" -> parseTimelineWidgetSuggestions(widgetTokens, data)
    [] OTHER -> {}

------------------------------------------------------------------------------
(* The steps, from the organization to the widget.  A step takes a token,  *)
(* narrows the suggestions to its hint and looks up the exact name.        *)
NoSuggestion ==
  [organization |-> Nothing, section |-> Nothing, object |-> Nothing, widget |-> Nothing,
   suggestions |-> {}, taken |-> 0, thrown |-> FALSE]

parseOrganizationSuggestions(h, token) ==
  [h EXCEPT !.organization = getOrganizationByName(token), !.taken = 1,
            !.suggestions = NamedLike(Organizations, token)]

parseSectionSuggestions(h, token) ==
  IF h.organization = Nothing THEN [h EXCEPT !.thrown = TRUE]
  ELSE [h EXCEPT !.section = FindNamed(h.organization.sections, token), !.taken = 2,
                 !.suggestions = NamedLike(h.organization.sections, token)]

parseObjectSuggestions(h, token, failing) ==
  IF h.section = Nothing \/ failing = "rows" THEN [h EXCEPT !.thrown = TRUE]
  ELSE [h EXCEPT !.object = FindNamed(Rows[h.section.id], token), !.taken = 3,
                 !.suggestions = NamedLike(Rows[h.section.id], token)]

(* A section without widgets leaves the suggestions what they were. *)
parseWidgetSuggestions(h, token, isRhs) ==
  LET widgets == buildWidgets(h.organization, h.section, isRhs) IN
  IF widgets = <<>> THEN [h EXCEPT !.taken = 4]
  ELSE [h EXCEPT !.widget = FindNamed(widgets, token), !.taken = 4,
                 !.suggestions = Like(WidgetSuggestions(widgets, h.object), token)]

(* The object that an element of an issue stands for. *)
ElementAsObject(element) ==
  [NoSuggestion EXCEPT !.organization = getOrganizationById(element.organizationId),
                       !.section = getSection(element.parentId), !.object = element]

OfElementWithHint(nested, rest, failing) ==
  IF Len(rest) = 2 THEN nested.suggestions
  ELSE IF nested.widget = Nothing THEN Thrown
  ELSE ByTypeWithHint(nested, SubSeq(rest, 3, Len(rest)), Suggested(failing, nested))

parseAccordionWidgetSuggestionsWithHint(rest, elements, failing) ==
  LET element == FindNamed(elements, rest[1]) IN
  IF elements = Thrown THEN Thrown
  ELSE IF Len(rest) = 1 THEN NamedLike(elements, rest[1])
  ELSE IF element = Nothing THEN {}
  ELSE OfElementWithHint(parseWidgetSuggestions(ElementAsObject(element), rest[2], FALSE),
                         rest, failing)

OfElement(h, widgetTokens, tokens, failing) ==
  LET nested == parseWidgetSuggestions(h, widgetTokens[2], FALSE) IN
  IF Len(widgetTokens) = 1 THEN WidgetSuggestions(h.section.widgets, h.object)
  ELSE IF nested.widget = Nothing THEN Thrown
  ELSE ByType(nested, tokens, Suggested(failing, nested))

parseAccordionWidgetSuggestions(widgetTokens, tokens, elements, failing) ==
  LET element == FindNamed(elements, widgetTokens[1]) IN
  IF elements = Thrown THEN Thrown
  ELSE IF widgetTokens = <<>> THEN Named(elements)
  ELSE IF element = Nothing THEN {}
  ELSE OfElement(ElementAsObject(element), widgetTokens, tokens, failing)

IsIssuesAccordion(h) == h.widget.type = "Accordion" /\ h.organization.isEcosystem

WithSuggestions(h, suggestions) ==
  IF suggestions = Thrown THEN [h EXCEPT !.thrown = TRUE]
  ELSE [h EXCEPT !.suggestions = suggestions, !.taken = 5]

parseWidgetElementSuggestionsWithHint(h, rest, failing) ==
  WithSuggestions(h,
    IF h.widget = Nothing THEN Thrown
    ELSE IF IsIssuesAccordion(h)
         THEN parseAccordionWidgetSuggestionsWithHint(rest, Fetched(failing, h.object, h.widget), failing)
    ELSE ByTypeWithHint(h, rest, Suggested(failing, h)))

(* The steps over the tokens there are, up to one that throws: what the    *)
(* steps before it suggested is kept.                                      *)
Climb(tokens, isRhs, failing) ==
  LET Step(h, token) ==
        CASE h.thrown -> h
          [] h.taken = 0 -> parseOrganizationSuggestions(h, token)
          [] h.taken = 1 -> parseSectionSuggestions(h, token)
          [] h.taken = 2 -> parseObjectSuggestions(h, token, failing)
          [] h.taken = 3 -> parseWidgetSuggestions(h, token, isRhs)
      Rest(h) ==
        IF h.thrown \/ Len(tokens) <= 4 THEN h
        ELSE parseWidgetElementSuggestionsWithHint(h, SubSeq(tokens, 5, Len(tokens)), failing)
  IN Rest(FoldLeft(Step, NoSuggestion, SubSeq(tokens, 1, IF Len(tokens) < 4 THEN Len(tokens) ELSE 4)))

(* Where the user is, and the organizations. *)
getAllSuggestionsForNoHint(rhs) ==
  IF rhs = Thrown THEN Thrown
  ELSE {Suggestion(rhs.object.name, Thing(rhs.object.id))} \cup Named(Organizations)

(* After the separator: all that comes next.  Nothing catches an exception *)
(* here.                                                                   *)
updateIfEndsWithTokenSeparator(h, rhs, tokens, isRhs, failing) ==
  IF h.organization = Nothing THEN getAllSuggestionsForNoHint(rhs)
  ELSE IF h.section = Nothing THEN Named(h.organization.sections)
  ELSE IF h.object = Nothing
       THEN IF failing = "rows" THEN Thrown ELSE Named(Rows[h.section.id])
  ELSE IF h.widget = Nothing
       THEN LET widgets == buildWidgets(h.organization, h.section, isRhs)
            IN IF widgets = <<>> THEN h.suggestions ELSE WidgetSuggestions(widgets, h.object)
  ELSE IF IsIssuesAccordion(h)
       THEN parseAccordionWidgetSuggestions(getWidgetTokens(tokens, h.widget), tokens,
                           Fetched(failing, h.object, h.widget), failing)
  ELSE ByType(h, tokens, Suggested(failing, h))

parseTokensToSuggestions(tokens, dot, rhs, isRhs, failing) ==
  LET AtEnd(h) == IF h.thrown \/ ~dot THEN h.suggestions
                  ELSE updateIfEndsWithTokenSeparator(h, rhs, tokens, isRhs, failing)
  IN AtEnd(Climb(tokens, isRhs, failing))

(* The suggestions for a reference, in a channel; Thrown when they do not  *)
(* come.                                                                   *)
SuggestionsAt(rhs, tokens, dot, failing) ==
  LET AndHere(suggestions) ==
        IF suggestions # Thrown /\ IsPartialRhsReference(rhs, tokens)
        THEN suggestions \cup {Suggestion(rhs.object.name, Thing(rhs.object.id))}
        ELSE suggestions
  IN
  IF rhs = Thrown THEN Thrown
  ELSE IF tokens = <<>> THEN getAllSuggestionsForNoHint(rhs)
  ELSE AndHere(parseTokensToSuggestions(AbsoluteTokens(rhs, tokens), dot, rhs,
                                        IsRhsReference(rhs, tokens), failing))

getSuggestions(tokens, dot, channel, failing) ==
  SuggestionsAt(RhsOf(channel, failing), tokens, dot, failing)
=============================================================================
