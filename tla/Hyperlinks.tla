------------------------------ MODULE Hyperlinks ------------------------------
(***************************************************************************)
(* A chat message with a hyperlink, from the first key to the posted link: *)
(* the suggestions are fetched while the user types (hooks/suggestions.ts, *)
(* components/chat/suggestions.tsx), one is accepted, and the reference is *)
(* resolved when the message is posted (hooks/posts.ts, helpers/posts.ts). *)
(*                                                                         *)
(* The reference of the composer is its tokens and whether it ends with    *)
(* the separator.  Answers to the suggestions come in any order, fetches   *)
(* fail, and the channel that the local storage names may change at any    *)
(* time, from this tab or another.  A message has one reference here: the  *)
(* code resolves the references of a message one after the other, each on  *)
(* its own.                                                                *)
(***************************************************************************)
EXTENDS HyperlinkSuggestions

CONSTANTS
  Pieces,     \* the tokens of the texts that have the separator inside
  Typed,      \* what the user types as a token
  MaxTyped,   \* how many tokens the user types
  MaxTokens,  \* how long a reference grows
  MaxRequests, \* how many requests for suggestions are on their way
  MaxSwitches \* how often the user changes the channel

(* A text is split into tokens, at least one. *)
ASSUME PiecesAssumption ==
  \A text \in DOMAIN Pieces : Pieces[text] \in Seq(ToSet(Pieces[text])) \ {<<>>}

VARIABLES
  channel,  \* the channel the local storage names
  switches, \* how often it changed
  composer, \* the reference that is being typed
  requests, \* the suggestions that are being fetched
  offered,  \* the suggestions that the list shows
  post      \* the message once it is posted

vars == <<channel, switches, composer, requests, offered, post>>

------------------------------------------------------------------------------
Failures == {"none", "channel", "object", "rows", "data"}

Tokens(text) == IF text \in DOMAIN Pieces THEN Pieces[text] ELSE <<text>>

Request(c) == [tokens |-> c.tokens, dot |-> c.dot, channel |-> channel]

SuggestionsFor(r, failing) == getSuggestions(r.tokens, r.dot, r.channel, failing)

(* accepted: how many of the first tokens come from suggestions that were  *)
(* up to date; things: what the last of them stood for.                    *)
NewReference == [tokens |-> <<>>, dot |-> FALSE, typed |-> 0, accepted |-> 0, things |-> {}]

Init ==
  /\ channel \in DOMAIN Channels
  /\ switches = 0
  /\ composer = NewReference
  /\ requests = {[tokens |-> <<>>, dot |-> FALSE, channel |-> channel]}
  /\ offered = {}
  /\ post = Nothing

Composing == post = Nothing

(* The tokens before the one that a key or a suggestion sets. *)
Before == IF composer.dot \/ composer.tokens = <<>> THEN composer.tokens
          ELSE Front(composer.tokens)

Least(a, b) == IF a <= b THEN a ELSE b

(* handleInput: every change of the text asks for suggestions. *)
Input(c) ==
  /\ Cardinality(requests) < MaxRequests
  /\ composer' = c
  /\ requests' = requests \cup {Request(c)}
  /\ UNCHANGED <<channel, switches, offered, post>>

Type(text) ==
  /\ Composing
  /\ composer.typed < MaxTyped
  /\ Len(Before) < MaxTokens
  /\ Input([composer EXCEPT !.tokens = Append(Before, text), !.dot = FALSE, !.typed = @ + 1,
                            !.accepted = Least(@, Len(Before))])

TypeSeparator ==
  /\ Composing
  /\ composer.tokens # <<>>
  /\ ~composer.dot
  /\ Len(composer.tokens) < MaxTokens
  /\ Input([composer EXCEPT !.dot = TRUE])

(* setData with the answer, unless it is an exception. *)
Answer(r, failing) ==
  /\ Composing
  /\ requests' = requests \ {r}
  /\ \E suggestions \in {SuggestionsFor(r, failing)} :
       offered' = IF suggestions = Thrown THEN offered ELSE suggestions
  /\ UNCHANGED <<channel, switches, composer, post>>

(* The suggestions are those of the reference as it is, in this channel,   *)
(* and no fetch failed.                                                    *)
UpToDate == offered = SuggestionsFor(Request(composer), "none")

(* onClick: only the text goes into the textarea, after the last separator *)
(* or in the place of the last token.  The list is unmounted, and with it  *)
(* its requests.                                                           *)
Accept(text) ==
  LET tokens == Before \o Tokens(text)
      trusted == UpToDate /\ composer.accepted >= Len(Before)
  IN
  /\ Composing
  /\ composer' = [composer EXCEPT
       !.tokens = tokens,
       !.dot = \E long \in DOMAIN Ellipsed : Ellipsed[long] = text,
       !.accepted = IF trusted THEN Len(tokens) ELSE Least(@, Len(Before)),
       !.things = {s.thing : s \in {t \in offered : t.text = text}}]
  /\ offered' = {}
  /\ requests' = {}
  /\ UNCHANGED <<channel, switches, post>>

(* The user goes to another channel: what was offered here may mean        *)
(* something else there.                                                   *)
SwitchChannel(c) ==
  /\ c # channel
  /\ switches < MaxSwitches
  /\ ~Composing => post.outcome = "resolving"
  /\ channel' = c
  /\ switches' = switches + 1
  /\ composer' = [composer EXCEPT !.accepted = 0, !.things = {}]
  /\ UNCHANGED <<requests, offered, post>>

(* messageWillBePosted up to its first await, which reads the channel.  The *)
(* textarea is empty again.                                                *)
Post(value) ==
  /\ Composing
  /\ post' = [tokens |-> composer.tokens, value |-> value, channel |-> channel,
              things |-> IF composer.accepted = Len(composer.tokens) THEN composer.things ELSE {},
              outcome |-> "resolving", failing |-> "none", link |-> Nothing]
  /\ composer' = NewReference
  /\ requests' = {}
  /\ offered' = {}
  /\ UNCHANGED <<channel, switches>>

(* What becomes of a reference: a link, the text as it is, or an exception.*)
Linked(page, anchor) == [outcome |-> "linked", link |-> [page |-> page, anchor |-> anchor]]
Unlinked == [outcome |-> "unlinked", link |-> Nothing]
Rejected == [outcome |-> "rejected", link |-> Nothing]

(* buildHyperlinkFromReference; in the RHS the name of the channel is read *)
(* now.                                                                    *)
HyperlinkFromRhs(reference) ==
  IF reference.hash = Nothing /\ reference.object = Nothing THEN Rejected
  ELSE Linked(<<"rhs", channel>>,
              IF reference.hash = Nothing THEN <<"header", reference.object.id>>
              ELSE reference.hash)

HyperlinkFromObjectPage(reference) ==
  CASE reference.organization = Nothing -> Rejected
    [] reference.organization # Nothing /\ reference.section = Nothing ->
         Linked(<<"organization", reference.organization.id>>, reference.hash)
    [] reference.section # Nothing /\ reference.object = Nothing ->
         Linked(<<"section", reference.section.id>>, Nothing)
    [] OTHER -> Linked(<<"object", reference.object.id, reference.section.id>>, reference.hash)

buildHyperlinkFromReference(reference, isRhs) ==
  IF reference = Nothing THEN Unlinked
  ELSE IF isRhs THEN HyperlinkFromRhs(reference)
  ELSE HyperlinkFromObjectPage(reference)

LinkFrom(rhs, p, isRhs, failing) ==
  buildHyperlinkFromReference(
    parseTokensToHyperlinkReference(AbsoluteTokens(rhs, p.tokens), isRhs, p.value, failing), isRhs)

buildHyperlinkFromMatch(p, failing) ==
  LET rhs == RhsOf(p.channel, failing) IN
  IF RhsFails(p.channel, failing) THEN Rejected
  ELSE LinkFrom(rhs, p, IsRhsReference(rhs, p.tokens), failing)

(* The rest of messageWillBePosted: its promise is rejected, or the        *)
(* message goes out with or without a link.                                *)
Resolve ==
  /\ ~Composing
  /\ post.outcome = "resolving"
  /\ \E failing \in Failures : \E result \in {buildHyperlinkFromMatch(post, failing)} :
       post' = [post EXCEPT !.outcome = result.outcome, !.failing = failing, !.link = result.link]
  /\ UNCHANGED <<channel, switches, composer, requests, offered>>

Next ==
  \/ \E text \in Typed : Type(text)
  \/ TypeSeparator
  \/ \E r \in requests, failing \in Failures : Answer(r, failing)
  \/ \E s \in offered : Accept(s.text)
  \/ \E c \in DOMAIN Channels : SwitchChannel(c)
  \/ \E value \in BOOLEAN : Post(value)
  \/ Resolve

Spec == Init /\ [][Next]_vars

------------------------------------------------------------------------------
(* The pages: which objects a page shows, with the widgets it has for each.*)
(* The page of an issue has its widgets and those of its section; the RHS  *)
(* of an issue has its widgets and, in the accordion, its elements.        *)
Shown(object, section, widgets) == [object |-> object, section |-> section, widgets |-> widgets]

IsIssues(section) == getOrganizationBySectionId(section.id).isEcosystem

OnObjectPage(object, section) ==
  {Shown(object, section,
         (IF IsIssues(section) THEN getDefaultsWidgets(FALSE) ELSE <<>>) \o section.widgets)}

OnRhs(object, section) ==
  IF ~IsIssues(section) THEN {Shown(object, section, section.widgets)}
  ELSE {Shown(object, section, getDefaultsWidgets(TRUE))} \cup
       {Shown(e, getSection(e.parentId), getSection(e.parentId).widgets) :
          e \in ToSet(Contents[<<object.id, Elements>>])}

On(page) ==
  CASE page[1] = "object" ->
         LET section == getSection(page[3])
         IN OnObjectPage(Find(Rows[section.id], LAMBDA r : r.id = page[2]), section)
    [] page[1] = "rhs" /\ Channels[page[2]] # Nothing ->
         LET rhs == RhsOf(page[2], "none") IN OnRhs(rhs.object, rhs.section)
    [] OTHER -> {}

ItemIds(object, widget) ==
  LET data == Contents[<<object.id, widget.name>>] IN
  CASE widget.type \in {"List", "Timeline"} -> {i.id : i \in ToSet(data)}
    [] widget.type = "Graph" -> {n.id : n \in ToSet(data.nodes)}
    [] widget.type = "PaginatedTable" /\ widget.name = Elements -> {e.id : e \in ToSet(data)}
    [] widget.type = "Table" \/ (widget.type = "PaginatedTable" /\ widget.name = Roles) ->
         {r.id : r \in ToSet(data.rows)}
    [] OTHER -> {}

IsShown(anchor, page) ==
  \E s \in On(page) :
    CASE anchor[1] = "header" -> anchor[2] = s.object.id
      [] anchor[1] = "widget" ->
           /\ anchor[3] = s.object.id /\ anchor[4] = s.section.id
           /\ \E w \in ToSet(s.widgets) : w.name = anchor[2]
      [] anchor[1] \in {"item", "info"} ->
           \E w \in ToSet(s.widgets) : anchor[2] \in ItemIds(s.object, w)
      [] anchor[1] = "description" -> anchor[2] = s.object.id

(* What an anchor stands for. *)
ThingOf(anchor) ==
  CASE anchor[1] \in {"header", "item"} -> Thing(anchor[2])
    [] anchor[1] = "widget" -> <<"widget", anchor[2], anchor[3]>>
    [] OTHER -> anchor

(* Where the user of a link arrives: at the anchor, or at the page if the  *)
(* page does not show the anchor.                                          *)
Destination(link) ==
  LET page == link.page
      anchor == link.anchor
  IN
  IF anchor # Nothing /\ IsShown(anchor, page) THEN ThingOf(anchor)
  ELSE IF page[1] # "rhs" THEN Thing(page[2])
  ELSE IF Channels[page[2]] = Nothing THEN Nothing ELSE Thing(Channels[page[2]].sectionId)

(* Columns are no things, and widgets of types without a parser are        *)
(* offered but have no anchor: their link leads to the object.             *)
Linkable(thing) ==
  /\ thing # Nothing
  /\ thing \notin {WidgetThing(w.name, o) :
       w \in {v \in UNION {ToSet(s.widgets) : s \in UNION {ToSet(g.sections) : g \in ToSet(Organizations)}} :
                v.type \notin {"Graph", "PaginatedTable", "List", "Table", "TextBox", "Timeline", "Accordion"}},
       o \in UNION {ToSet(Rows[i]) : i \in DOMAIN Rows}}

------------------------------------------------------------------------------
(* What the two parsers of a widget take for granted of its contents, and  *)
(* the theorems about them state as their assumptions.                     *)

(* The text has no separator inside. *)
Whole(text) == text \notin DOMAIN Pieces

(* What is left of a text by the cut and the separators is how it begins,   *)
(* and no other item begins like that.                                      *)
PiecesTell(items) ==
  \A i, j \in ToSet(items) : \A t \in i.texts, u \in j.texts :
    LET piece == Tokens(getEllipsedText(t))[1]
    IN Begins(t, piece) /\ (Begins(u, piece) => t = u \/ i.id = j.id)

TextsWhole(items) == \A i \in ToSet(items) : \A t \in i.texts : Whole(t)

(* Every row has a cell of every column. *)
IsTableData(table) ==
  IsList(table.rows) /\ \A r \in ToSet(table.rows) : table.columns \subseteq DOMAIN r.cells

CellsWhole(table) ==
  \A r \in ToSet(table.rows) : \A c \in table.columns : \A v \in r.cells[c] : Whole(v)

(* The texts are whole, and no description begins as another's whole text.  *)
ElementsTell(elements) ==
  \A e, f \in ToSet(elements) :
    /\ \A c \in DOMAIN ElementCells(e) : \A v \in ElementCells(e)[c] : Whole(v)
    /\ e.description # Nothing /\ f.description # Nothing /\ Begins(f.description, e.description) =>
         e.description = f.description \/ e.id = f.id

(* The labels and the description are whole, no label contains another one  *)
(* or the description, and "Description" is one token.                      *)
GraphTells(graph) ==
  /\ IsList(graph.nodes)
  /\ \A n \in ToSet(graph.nodes) :
       /\ Whole(n.label)
       /\ \A m \in ToSet(graph.nodes) : HasPart(m.label, n.label) => m.label = n.label
       /\ ~HasPart(n.label, graph.description)
  /\ Whole(graph.description) /\ Whole("Description")

------------------------------------------------------------------------------
(* What you accept is where you arrive: a message whose tokens all come    *)
(* from suggestions that were up to date links to a thing the accepted     *)
(* text stood for, if no fetch fails and the channel is the same to the    *)
(* end.  Only texts go from the one half of the code to the other: the     *)
(* suggestions parsers and the posts parsers have to agree at every level, *)
(* for every type of widget, in the RHS and outside, and the page has to   *)
(* show the anchor.                                                        *)
AcceptedLeadsThere ==
  /\ post # Nothing
  /\ post.outcome # "resolving"
  /\ post.failing = "none"
  /\ post.things # {} /\ \A t \in post.things : Linkable(t)
  /\ channel = post.channel
  => post.outcome = "linked" /\ Destination(post.link) \in post.things

(* A reference that leads nowhere does not stop the message ("return       *)
(* match"): a message with at least one token is rejected only if a fetch  *)
(* failed or the channel belongs to no section.                            *)
WrongReferencesStillPost ==
  post # Nothing /\ post.outcome = "rejected" =>
    \/ post.tokens = <<>>
    \/ post.failing # "none"
    \/ Channels[post.channel] = Nothing
=============================================================================
