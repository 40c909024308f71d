---------------------------- MODULE Hyperlinks_proofs ----------------------------
(***************************************************************************)
(* Proofs about messages with hyperlinks, for any configuration, objects,  *)
(* channels, contents, texts and failures, and without the bounds of the   *)
(* run: what becomes of a reference when its message is posted, and that   *)
(* for every type of widget what is suggested is what is found.            *)
(***************************************************************************)
EXTENDS Hyperlinks, NaturalsInduction, SequenceTheorems, WellFoundedInduction, TLAPS

------------------------------------------------------------------------------
(* Array.find                                                               *)

(* The least of some numbers is one of them. *)
LEMMA LeastIsOne ==
  ASSUME NEW S, S \subseteq Nat, S # {}
  PROVE  Min(S) \in S
<1>1. IsWellFoundedOn(OpToRel(<, Nat), Nat)
  BY NatLessThanWellFounded, Zenon
<1>2. PICK m \in S : \A j \in S : <<j, m>> \notin OpToRel(<, Nat)
  BY <1>1, WFMin, Zenon
<1>3. \A j \in S : ~(j < m)
  BY <1>2 DEF OpToRel
<1>4. \A j \in S : m <= j
  BY <1>3
<1>5. QED
  BY <1>4 DEF Min

(* The thing with a name, if a list has one. *)
LEMMA FindsNamed ==
  ASSUME NEW s, IsList(s), NEW x \in ToSet(s)
  PROVE  /\ FindNamed(s, x.name) \in ToSet(s)
         /\ FindNamed(s, x.name).name = x.name
         /\ FindNamed(s, x.name) # Nothing
<1> DEFINE found == {j \in DOMAIN s : s[j].name = x.name}
<1>1. found # {} /\ found \subseteq Nat /\ found \subseteq DOMAIN s
  BY DEF IsList, ToSet
<1>2. FindNamed(s, x.name) = s[Min(found)]
  BY <1>1 DEF FindNamed, Find
<1>3. Min(found) \in found
  BY <1>1, LeastIsOne
<1>4. QED
  BY <1>2, <1>3 DEF IsList, ToSet

(* The thing with an id. *)
LEMMA FindsId ==
  ASSUME NEW s, IsList(s), NEW x \in ToSet(s)
  PROVE  LET y == Find(s, LAMBDA z : z.id = x.id)
         IN y \in ToSet(s) /\ y.id = x.id /\ y # Nothing
<1> DEFINE found == {j \in DOMAIN s : s[j].id = x.id}
<1>1. found # {} /\ found \subseteq Nat /\ found \subseteq DOMAIN s
  BY DEF IsList, ToSet
<1>2. Find(s, LAMBDA z : z.id = x.id) = s[Min(found)]
  BY <1>1 DEF Find
<1>3. Min(found) \in found
  BY <1>1, LeastIsOne
<1>4. QED
  BY <1>2, <1>3 DEF IsList, ToSet

(* The organization of a section, and the section, by its id. *)
LEMMA FindsSection ==
  ASSUME Unambiguous, NEW o \in ToSet(Organizations), NEW s \in ToSet(o.sections)
  PROVE  getOrganizationBySectionId(s.id) = o /\ getSection(s.id) = s
<1> DEFINE orgs == Organizations
           found == {j \in DOMAIN orgs : \E t \in ToSet(orgs[j].sections) : t.id = s.id}
<1>1. IsList(orgs) /\ IsList(o.sections)
  BY ListsAssumption
<1>2. found # {} /\ found \subseteq Nat
  <2>1. PICK i \in DOMAIN orgs : orgs[i] = o
    BY <1>1 DEF IsList, ToSet
  <2>2. i \in found
    BY <2>1
  <2>3. QED
    BY <1>1, <2>2 DEF IsList
<1>3. getOrganizationBySectionId(s.id) = orgs[Min(found)]
  BY <1>2 DEF getOrganizationBySectionId, Find
<1>4. Min(found) \in found
  BY <1>2, LeastIsOne
<1>5. orgs[Min(found)] \in ToSet(orgs)
  BY <1>4 DEF ToSet
<1>6. getOrganizationBySectionId(s.id) = o
  BY <1>3, <1>4, <1>5 DEF Unambiguous
<1>7. o # Nothing
  BY <1>1 DEF IsList
<1>8. getSection(s.id) = Find(o.sections, LAMBDA z : z.id = s.id)
  BY <1>6, <1>7 DEF getSection
<1>9. getSection(s.id) \in ToSet(o.sections) /\ getSection(s.id).id = s.id
  <2> DEFINE section == Find(o.sections, LAMBDA z : z.id = s.id)
  <2>1. section \in ToSet(o.sections) /\ section.id = s.id
    BY <1>1, FindsId
  <2>2. QED
    BY <1>8, <2>1
<1>10. QED
  BY <1>6, <1>9 DEF Unambiguous

------------------------------------------------------------------------------
(* Parsing                                                                  *)

ReferenceFields == {"organization", "section", "object", "hash"}

(* The widget of a reference adds an anchor or another object to it, and   *)
(* takes nothing away.                                                     *)
Narrows(new, old) ==
  /\ DOMAIN new = ReferenceFields
  /\ new.organization = old.organization
  /\ old.object # Nothing => new.hash # Nothing \/ new.object # Nothing

LEMMA HashNarrows ==
  ASSUME NEW reference, DOMAIN reference = ReferenceFields,
         NEW tokens, NEW isRhs, NEW value, NEW failing
  PROVE  LET new == WithWidgetHash(reference, tokens, isRhs, value, failing)
         IN new = Thrown \/ (Narrows(new, reference) /\ new.object = reference.object)
<1> DEFINE hash == HashOf(WidgetNamed(reference, Head(tokens), isRhs),
                          reference, tokens, value, failing)
           new == WithWidgetHash(reference, tokens, isRhs, value, failing)
<1>1. new = reference \/ new = WithHash(reference, hash)
  BY DEF WithWidgetHash
<1> HIDE DEF hash
<1>2. new = reference \/ new = Thrown \/ new = [reference EXCEPT !.hash = hash]
  BY <1>1 DEF WithHash
<1> HIDE DEF new
<1>3. QED
  BY <1>2 DEF Narrows, ReferenceFields, new

LEMMA WidgetNarrows ==
  ASSUME NEW reference, DOMAIN reference = ReferenceFields,
         NEW tokens, NEW isRhs, NEW value, NEW failing
  PROVE  LET new == parseWidgetHash(reference, tokens, isRhs, value, failing)
         IN new = Thrown \/ Narrows(new, reference)
<1> DEFINE named == WidgetNamed(reference, Head(tokens), isRhs)
           elements == Fetched(failing, reference.object, named.widget)
           anchor == WidgetAnchor(named.widget.name, reference)
           new == parseWidgetHash(reference, tokens, isRhs, value, failing)
<1>1. CASE ~ElementsAccordion(named)
  BY <1>1, HashNarrows DEF parseWidgetHash
<1>2. CASE ElementsAccordion(named)
  <2>1. new = parseAccordionWidgetId(reference, Tail(tokens), elements, anchor, value, failing)
    BY <1>2 DEF parseWidgetHash
  <2> DEFINE rest == Tail(tokens)
             element == FindNamed(elements, rest[1])
             nested == WithWidgetHash(ElementReference(element), Tail(rest), FALSE, value, failing)
  <2>2. \/ new = [reference EXCEPT !.hash = anchor]
        \/ new = Thrown
        \/ element # Nothing /\ new = Forwarded(reference, nested)
    BY <2>1 DEF parseAccordionWidgetId
  <2>3. DOMAIN ElementReference(element) = ReferenceFields
        /\ ElementReference(element).object = element
    BY DEF ElementReference, ReferenceFields
  <2>4. nested = Thrown \/ nested.object = element
    <3> DEFINE ofElement == ElementReference(element)
               isFalse == FALSE
    <3>1. DOMAIN ofElement = ReferenceFields
      BY <2>3
    <3> HIDE DEF ofElement, rest, isFalse
    <3>2. LET hash == WithWidgetHash(ofElement, Tail(rest), isFalse, value, failing)
          IN hash = Thrown \/ hash.object = ofElement.object
      BY <3>1, HashNarrows
    <3>3. LET hash == WithWidgetHash(ofElement, Tail(rest), FALSE, value, failing)
          IN hash = Thrown \/ hash.object = ofElement.object
      BY <3>2, Zenon DEF isFalse
    <3>4. QED
      BY <2>3, <3>3, Zenon DEF ofElement
  <2> HIDE DEF named, elements, anchor, new, rest, element, nested
  <2>5. \/ new = [reference EXCEPT !.hash = anchor]
        \/ new = Thrown
        \/ nested.hash # Nothing /\ new = [reference EXCEPT !.hash = nested.hash]
        \/ element # Nothing /\ new = [reference EXCEPT !.object = element]
    BY <2>2, <2>4 DEF Forwarded
  <2>6. QED
    BY <2>5 DEF Narrows, ReferenceFields, new
<1>3. QED
  BY <1>1, <1>2

(* A widget that cannot be resolved leaves what was resolved before it.     *)
LEMMA WidgetIsCaught ==
  ASSUME NEW at, DOMAIN at = ReferenceFields, at.organization # Nothing,
         NEW rest, NEW isRhs, NEW value, NEW failing
  PROVE  LET new == Caught(at, parseWidgetHash(at, rest, isRhs, value, failing))
         IN Narrows(new, at)
<1> DEFINE hash == parseWidgetHash(at, rest, isRhs, value, failing)
<1>1. hash = Thrown \/ Narrows(hash, at)
  BY WidgetNarrows
<1> HIDE DEF hash
<1>2. Caught(at, hash) = at \/ Narrows(Caught(at, hash), at)
  BY <1>1 DEF Caught, AfterError
<1>3. QED
  BY <1>2 DEF Narrows, hash

(* A reference that is resolved at all has at least its organization.       *)
LEMMA ReferenceHasOrganization ==
  ASSUME NEW tokens, tokens # <<>>, NEW isRhs, NEW value, NEW failing
  PROVE  LET reference == parseTokensToHyperlinkReference(tokens, isRhs, value, failing)
         IN reference = Nothing \/ reference.organization # Nothing
<1> DEFINE organization == getOrganizationByName(tokens[1])
           atOrganization == [NoReference EXCEPT !.organization = organization]
           section == FindNamed(organization.sections, tokens[2])
           atSection == [atOrganization EXCEPT !.section = section]
           object == parseObject(section, tokens[3], failing)
           atObject == [atSection EXCEPT !.object = object]
           Widget(at, i) ==
             Caught(at, parseWidgetHash(at, SubSeq(tokens, i, Len(tokens)), isRhs, value, failing))
           reference == parseTokensToHyperlinkReference(tokens, isRhs, value, failing)
<1>1. \/ reference = AfterError(NoReference)
      \/ organization # Nothing /\
           reference \in {atOrganization, AfterError(atOrganization), Widget(atOrganization, 2),
                          atSection, AfterError(atSection), atObject, Widget(atObject, 4)}
  BY DEF parseTokensToHyperlinkReference
<1> HIDE DEF reference, organization, section, object
<1>2. AfterError(NoReference) = Nothing
  BY DEF AfterError, NoReference
<1>3. ASSUME organization # Nothing,
             NEW at \in {atOrganization, atSection, atObject}
      PROVE  /\ at.organization = organization /\ DOMAIN at = ReferenceFields
             /\ AfterError(at) = at
  BY <1>3 DEF NoReference, ReferenceFields, AfterError
<1> HIDE DEF atOrganization, atSection, atObject
<1>4. ASSUME organization # Nothing,
             NEW at \in {atOrganization, atSection, atObject}, NEW i
      PROVE  Widget(at, i).organization = organization
  BY <1>3, <1>4, WidgetIsCaught DEF Narrows
<1> HIDE DEF Widget
<1>5. QED
  BY <1>1, <1>2, <1>3, <1>4 DEF reference

------------------------------------------------------------------------------
(* Where the user is                                                        *)

(* The channel of an object has the object, its section and organization.   *)
LEMMA ObjectOfChannel ==
  ASSUME Unambiguous, ChannelsHaveObjects, NEW channelId \in DOMAIN Channels,
         Channels[channelId] # Nothing
  PROVE  LET rhs == RhsOf(channelId, "none") IN
         /\ rhs.organization \in ToSet(Organizations)
         /\ rhs.section \in ToSet(rhs.organization.sections)
         /\ rhs.section.id \in DOMAIN Rows
         /\ rhs.object \in ToSet(Rows[rhs.section.id])
<1> DEFINE rhs == RhsOf(channelId, "none")
           parent == Channels[channelId].parentId
           child == Channels[channelId].sectionId
<1> DEFINE Section(s) == /\ s.id = parent /\ s.id \in DOMAIN Rows
                         /\ \E r \in ToSet(Rows[s.id]) : r.id = child
<1>0. PICK o \in ToSet(Organizations) : \E s \in ToSet(o.sections) : Section(s)
  BY DEF ChannelsHaveObjects
<1>1. PICK s \in ToSet(o.sections) : Section(s)
  BY <1>0
<1>2. getSection(parent) = s /\ getOrganizationBySectionId(s.id) = o
  BY <1>1, FindsSection
<1>3. rhs = [organization |-> o, section |-> s,
             object |-> Find(Rows[s.id], LAMBDA r : r.id = child)]
  BY <1>2 DEF RhsOf, RhsFails
<1>4. PICK x \in ToSet(Rows[s.id]) : x.id = child
  BY <1>1
<1>5. Find(Rows[s.id], LAMBDA z : z.id = x.id) \in ToSet(Rows[s.id])
  BY <1>1, <1>4, FindsId, ListsAssumption
<1>6. rhs.object \in ToSet(Rows[s.id])
  BY <1>3, <1>4, <1>5
<1>7. QED
  BY <1>1, <1>3, <1>6

(* The reference that is made absolute leads to an object, and to an        *)
(* anchor or to an object that can be opened.                               *)
LEMMA RhsReferenceIsFound ==
  ASSUME Unambiguous, NEW o \in ToSet(Organizations), NEW s \in ToSet(o.sections),
         s.id \in DOMAIN Rows, NEW r \in ToSet(Rows[s.id]),
         NEW T, NEW tokens \in Seq(T), tokens # <<>>, Head(tokens) = r.name,
         NEW isRhs, NEW value
  PROVE  LET reference == parseTokensToHyperlinkReference(<<o.name, s.name>> \o tokens,
                                                          isRhs, value, "none")
         IN reference.hash # Nothing \/ reference.object # Nothing
<1> DEFINE absolute == <<o.name, s.name>> \o tokens
           object == FindNamed(Rows[s.id], r.name)
           atOrganization == [NoReference EXCEPT !.organization = o]
           atSection == [atOrganization EXCEPT !.section = s]
           atObject == [atSection EXCEPT !.object = object]
           widget == Caught(atObject, parseWidgetHash(atObject,
                       SubSeq(absolute, 4, Len(absolute)), isRhs, value, "none"))
           reference == parseTokensToHyperlinkReference(absolute, isRhs, value, "none")
<1>1. /\ absolute # <<>> /\ Len(absolute) >= 3 /\ Len(absolute) \in Nat
      /\ absolute[1] = o.name /\ absolute[2] = s.name /\ absolute[3] = r.name
  <2>1. tokens \in Seq(T \cup {o.name, s.name}) /\ <<o.name, s.name>> \in Seq(T \cup {o.name, s.name})
    OBVIOUS
  <2>2. Len(tokens) >= 1 /\ Head(tokens) = tokens[1] /\ Len(tokens) \in Nat
    OBVIOUS
  <2>3. QED
    BY <2>1, <2>2
<1>2. getOrganizationByName(o.name) = o
  BY FindsNamed, ListsAssumption DEF getOrganizationByName, Unambiguous
<1>3. FindNamed(o.sections, s.name) = s
  BY FindsNamed, ListsAssumption DEF Unambiguous
<1>4. object # Nothing /\ parseObject(s, r.name, "none") = object
  BY FindsNamed, ListsAssumption DEF parseObject
<1>5. o # Nothing /\ s # Nothing /\ isSectionByName(s.name)
  BY ListsAssumption DEF IsList, isSectionByName
<1> HIDE DEF absolute, object
<1>6. reference = atObject \/ reference = widget
  <2>1. /\ getOrganizationByName(absolute[1]) = o
        /\ isSectionByName(absolute[2]) /\ FindNamed(o.sections, absolute[2]) = s
        /\ parseObject(s, absolute[3], "none") = object
    BY <1>1, <1>2, <1>3, <1>4, <1>5
  <2>2. absolute # <<>> /\ Len(absolute) # 1 /\ Len(absolute) # 2
    BY <1>1
  <2>3. o # Nothing /\ s # Nothing /\ object # Nothing
    BY <1>4, <1>5
  <2> HIDE DEF widget, atObject
  <2>4. reference = IF Len(absolute) = 3 THEN atObject ELSE widget
    BY <2>1, <2>2, <2>3 DEF parseTokensToHyperlinkReference, widget, atObject
  <2>5. QED
    BY <2>4
<1> HIDE DEF reference
<1>7. /\ DOMAIN atObject = ReferenceFields /\ atObject.organization = o
      /\ atObject.object = object
  BY DEF NoReference, ReferenceFields
<1> HIDE DEF atObject
<1>8. Narrows(widget, atObject)
  BY <1>5, <1>7, WidgetIsCaught
<1> HIDE DEF widget
<1>9. QED
  BY <1>4, <1>6, <1>7, <1>8 DEF Narrows, reference, absolute

------------------------------------------------------------------------------
(* Links                                                                    *)

(* A list of whatever it holds. *)
Listed(s) == s \in Seq(ToSet(s))

(* With an answer to every fetch, a reference in a channel of an object is  *)
(* linked or left as it is.                                                 *)
LEMMA ReferencePosts ==
  ASSUME Unambiguous, ChannelsHaveObjects,
         NEW p, p.channel \in DOMAIN Channels, Channels[p.channel] # Nothing,
         Listed(p.tokens), p.tokens # <<>>
  PROVE  buildHyperlinkFromMatch(p, "none").outcome # "rejected"
<1> DEFINE rhs == RhsOf(p.channel, "none")
           isRhs == IsRhsReference(rhs, p.tokens)
           absolute == AbsoluteTokens(rhs, p.tokens)
           reference == parseTokensToHyperlinkReference(absolute, isRhs, p.value, "none")
<1>1. /\ rhs.organization \in ToSet(Organizations)
      /\ rhs.section \in ToSet(rhs.organization.sections)
      /\ rhs.section.id \in DOMAIN Rows
      /\ rhs.object \in ToSet(Rows[rhs.section.id])
  BY ObjectOfChannel
<1>2. buildHyperlinkFromMatch(p, "none") = buildHyperlinkFromReference(reference, isRhs)
  <2> HIDE DEF rhs
  <2>1. ~RhsFails(p.channel, "none")
    BY DEF RhsFails
  <2>2. buildHyperlinkFromMatch(p, "none") = LinkFrom(rhs, p, isRhs, "none")
    BY <2>1 DEF buildHyperlinkFromMatch, rhs
  <2>3. QED
    BY <2>2 DEF LinkFrom
<1>3. \A page, anchor : Linked(page, anchor).outcome = "linked"
  BY DEF Linked
<1>4. Unlinked.outcome = "unlinked"
  BY DEF Unlinked
<1>5. CASE isRhs
  <2>1. absolute = <<rhs.organization.name, rhs.section.name>> \o p.tokens
    BY <1>5 DEF AbsoluteTokens
  <2>2. Head(p.tokens) = rhs.object.name
    BY <1>5 DEF IsRhsReference
  <2>3. reference.hash # Nothing \/ reference.object # Nothing
    <3> HIDE DEF rhs, isRhs
    <3>1. QED
      BY <1>1, <2>1, <2>2, RhsReferenceIsFound DEF Listed
  <2> HIDE DEF reference
  <2>4. \/ buildHyperlinkFromReference(reference, isRhs) = Unlinked
        \/ buildHyperlinkFromReference(reference, isRhs) = HyperlinkFromRhs(reference)
    BY <1>5 DEF buildHyperlinkFromReference
  <2>5. HyperlinkFromRhs(reference).outcome = "linked"
    BY <2>3, <1>3 DEF HyperlinkFromRhs
  <2>6. QED
    BY <1>2, <1>4, <2>4, <2>5
<1>6. CASE ~isRhs
  <2>1. absolute = p.tokens
    BY <1>6 DEF AbsoluteTokens
  <2>2. reference = Nothing \/ reference.organization # Nothing
    <3> HIDE DEF rhs, isRhs
    <3>1. QED
      BY <2>1, ReferenceHasOrganization
  <2> HIDE DEF reference
  <2>3. \/ buildHyperlinkFromReference(reference, isRhs) = Unlinked
        \/ /\ reference.organization # Nothing
           /\ buildHyperlinkFromReference(reference, isRhs) = HyperlinkFromObjectPage(reference)
    BY <1>6, <2>2 DEF buildHyperlinkFromReference
  <2>4. ASSUME reference.organization # Nothing
        PROVE  HyperlinkFromObjectPage(reference).outcome = "linked"
    BY <2>4, <1>3 DEF HyperlinkFromObjectPage
  <2>5. QED
    BY <1>2, <1>4, <2>3, <2>4
<1>7. QED
  BY <1>5, <1>6

------------------------------------------------------------------------------
(* Messages                                                                 *)

PostFields == {"tokens", "value", "channel", "things", "outcome", "failing", "link"}

(* What the composer holds is a list, and the message has it and the        *)
(* channel the local storage named.                                         *)
ComposerOK == "tokens" \in DOMAIN composer /\ Listed(composer.tokens)

MessageOK ==
  post # Nothing =>
    /\ DOMAIN post = PostFields
    /\ Listed(post.tokens)
    /\ post.channel \in DOMAIN Channels

MessageInv ==
  /\ channel \in DOMAIN Channels
  /\ ComposerOK
  /\ MessageOK
  /\ WrongReferencesStillPost

LEMMA ListsAreListed ==
  ASSUME NEW S, NEW s \in Seq(S)
  PROVE  Listed(s)
BY DEF Listed, ToSet

LEMMA ListedJoin ==
  ASSUME NEW s, Listed(s), NEW t, Listed(t)
  PROVE  Listed(s \o t)
<1>1. s \in Seq(ToSet(s) \cup ToSet(t)) /\ t \in Seq(ToSet(s) \cup ToSet(t))
  BY DEF Listed
<1>2. s \o t \in Seq(ToSet(s) \cup ToSet(t))
  BY <1>1
<1>3. QED
  BY <1>2, ListsAreListed

LEMMA OneIsListed ==
  ASSUME NEW x PROVE Listed(<<x>>)
<1>1. <<x>> \in Seq({x})
  OBVIOUS
<1>2. QED
  BY <1>1, ListsAreListed

LEMMA NoneIsListed == Listed(<<>>)
<1>1. <<>> \in Seq({})
  OBVIOUS
<1>2. QED
  BY <1>1, ListsAreListed

LEMMA BeforeIsListed ==
  ASSUME ComposerOK PROVE Listed(Before)
<1>1. ASSUME composer.tokens # <<>>
      PROVE  Front(composer.tokens) \in Seq(ToSet(composer.tokens))
  BY <1>1 DEF ComposerOK, Listed, Front
<1>2. Before = composer.tokens \/ (composer.tokens # <<>> /\ Before = Front(composer.tokens))
  BY DEF Before
<1>3. QED
  BY <1>1, <1>2, ListsAreListed DEF ComposerOK

LEMMA InitMessages == Init => MessageInv
  BY NoneIsListed DEF Init, NewReference, MessageInv, ComposerOK, MessageOK, WrongReferencesStillPost

LEMMA NextMessages ==
  ASSUME Unambiguous, ChannelsHaveObjects, MessageInv, [Next]_vars
  PROVE  MessageInv'
<1> USE DEF MessageInv
<1>1. ASSUME NEW text \in Typed, Type(text) PROVE MessageInv'
  <2>1. Append(Before, text) = Before \o <<text>>
    BY BeforeIsListed DEF Listed
  <2>2. Listed(Append(Before, text))
    BY <2>1, BeforeIsListed, OneIsListed, ListedJoin
  <2>3. ComposerOK'
    BY <1>1, <2>2 DEF Type, Input, ComposerOK
  <2>4. QED
    BY <1>1, <2>3 DEF Type, Input, MessageOK, WrongReferencesStillPost
<1>2. ASSUME TypeSeparator PROVE MessageInv'
  BY <1>2 DEF TypeSeparator, Input, ComposerOK, MessageOK, WrongReferencesStillPost
<1>3. ASSUME NEW r, NEW failing, Answer(r, failing) PROVE MessageInv'
  BY <1>3 DEF Answer, ComposerOK, MessageOK, WrongReferencesStillPost
<1>4. ASSUME NEW text, Accept(text) PROVE MessageInv'
  <2>1. Listed(Tokens(text))
    BY OneIsListed, PiecesAssumption DEF Tokens, Listed
  <2>2. Listed(Before \o Tokens(text))
    BY <2>1, BeforeIsListed, ListedJoin
  <2>3. ComposerOK'
    BY <1>4, <2>2 DEF Accept, ComposerOK
  <2>4. QED
    BY <1>4, <2>3 DEF Accept, MessageOK, WrongReferencesStillPost
<1>5. ASSUME NEW c \in DOMAIN Channels, SwitchChannel(c) PROVE MessageInv'
  BY <1>5 DEF SwitchChannel, ComposerOK, MessageOK, WrongReferencesStillPost
<1>6. ASSUME NEW value, Post(value) PROVE MessageInv'
  <2>1. ComposerOK'
    BY <1>6, NoneIsListed DEF Post, NewReference, ComposerOK
  <2>2. MessageOK'
    BY <1>6 DEF Post, ComposerOK, MessageOK, PostFields
  <2>3. WrongReferencesStillPost'
    BY <1>6 DEF Post, WrongReferencesStillPost
  <2>4. QED
    BY <1>6, <2>1, <2>2, <2>3 DEF Post
<1>7. ASSUME Resolve PROVE MessageInv'
  <2>1. PICK failing \in Failures :
          LET result == buildHyperlinkFromMatch(post, failing) IN
          post' = [post EXCEPT !.outcome = result.outcome, !.failing = failing, !.link = result.link]
    BY <1>7 DEF Resolve
  <2>2. post # Nothing
    BY <1>7 DEF Resolve, Composing
  <2>3. /\ DOMAIN post' = PostFields
        /\ post'.tokens = post.tokens /\ post'.channel = post.channel /\ post'.failing = failing
        /\ post'.outcome = buildHyperlinkFromMatch(post, failing).outcome
    BY <2>1, <2>2 DEF MessageOK, PostFields
  <2>4. MessageOK'
    BY <2>2, <2>3 DEF MessageOK
  <2>5. ASSUME post.tokens # <<>>, failing = "none", Channels[post.channel] # Nothing
        PROVE  buildHyperlinkFromMatch(post, failing).outcome # "rejected"
    BY <2>2, <2>5, ReferencePosts DEF MessageOK
  <2>6. WrongReferencesStillPost'
    BY <2>3, <2>5 DEF WrongReferencesStillPost
  <2>7. QED
    BY <1>7, <2>4, <2>6 DEF Resolve, ComposerOK
<1>8. ASSUME UNCHANGED vars PROVE MessageInv'
  BY <1>8 DEF vars, ComposerOK, MessageOK, WrongReferencesStillPost
<1>9. QED
  BY <1>1, <1>2, <1>3, <1>4, <1>5, <1>6, <1>7, <1>8 DEF Next

(* A message with a reference that leads nowhere still goes out: in a       *)
(* channel of an object and with an answer to every fetch, no reference     *)
(* with at least one token rejects the promise of messageWillBePosted,      *)
(* whatever the configuration, the widgets, the suggestions that were       *)
(* accepted and the channel the user goes to while it is resolved.          *)
THEOREM WrongReferencesStillPostTheorem ==
  ASSUME Unambiguous, ChannelsHaveObjects
  PROVE  Spec => []WrongReferencesStillPost
<1>1. MessageInv /\ [Next]_vars => MessageInv'
  BY NextMessages
<1>2. MessageInv => WrongReferencesStillPost
  BY DEF MessageInv
<1>3. QED
  BY <1>1, <1>2, InitMessages, PTL DEF Spec

------------------------------------------------------------------------------
(* Widgets: what one half of the code suggests of a widget, the other finds *)
(*                                                                          *)
(* Before are the tokens between the name of the widget and the one the     *)
(* user is at, of which the hint is what is typed, or Nothing after the     *)
(* separator; to accept a text puts its tokens after those before.          *)

(* The anchor is that of a thing that was suggested by this text.           *)
Leads(suggestions, text, anchor) ==
  \E s \in suggestions : s.text = text /\ s.thing = ThingOf(anchor)

LEMMA ItemStandsForThing ==
  ASSUME NEW id PROVE ThingOf(ItemAnchor(id)) = Thing(id)
BY DEF ThingOf, ItemAnchor

LEMMA LeadsToItem ==
  ASSUME NEW suggestions, NEW text, NEW id, Suggestion(text, Thing(id)) \in suggestions
  PROVE  Leads(suggestions, text, ItemAnchor(id))
BY ItemStandsForThing DEF Leads, Suggestion

(* The first of those that an Array.find takes. *)
LEMMA FirstOfFound ==
  ASSUME NEW s, IsList(s), NEW found \in SUBSET DOMAIN s, found # {}
  PROVE  Min(found) \in found /\ s[Min(found)] \in ToSet(s) /\ s[Min(found)] \notin {Nothing, Thrown}
<1>1. found \subseteq Nat
  BY DEF IsList
<1>2. Min(found) \in found
  BY <1>1, LeastIsOne
<1>3. QED
  BY <1>2 DEF IsList, ToSet

(* Short references. *)
LEMMA PairOf ==
  ASSUME NEW x, NEW y
  PROVE  <<x>> \o <<y>> = <<x, y>> /\ Append(<<x>>, y) = <<x, y>>
<1> DEFINE S == {x, y}
           one == <<x>> \o <<y>>
           two == Append(<<x>>, y)
           pair == <<x, y>>
<1>1. pair \in Seq(S) /\ Len(pair) = 2 /\ pair[1] = x /\ pair[2] = y
  OBVIOUS
<1>2. one \in Seq(S) /\ Len(one) = 2 /\ one[1] = x /\ one[2] = y
  OBVIOUS
<1>3. two \in Seq(S) /\ Len(two) = 2 /\ two[1] = x /\ two[2] = y
  OBVIOUS
<1> HIDE DEF S, one, two, pair
<1>4. one = pair
  BY <1>1, <1>2
<1>5. two = pair
  BY <1>1, <1>3
<1>6. QED
  BY <1>4, <1>5 DEF one, two, pair

LEMMA AtMostOne ==
  ASSUME NEW n \in Nat, n <= 1, n # 0 PROVE n = 1
OBVIOUS

LEMMA OneIsItsFirst ==
  ASSUME NEW s, Listed(s), Len(s) = 1
  PROVE  s = <<s[1]>> /\ Last(s) = s[1]
BY DEF Listed, Last

LEMMA OneAndOne ==
  ASSUME NEW before, Listed(before), Len(before) = 1, NEW text
  PROVE  before \o <<text>> = <<before[1], text>>
<1>1. before = <<before[1]>>
  BY OneIsItsFirst
<1>2. QED
  BY <1>1, PairOf

LEMMA WithHint ==
  ASSUME NEW before, Listed(before), NEW hint
  PROVE  /\ Len(before) \in Nat /\ (before = <<>> <=> Len(before) = 0)
         /\ Len(Append(before, hint)) = Len(before) + 1
         /\ before = <<>> => Append(before, hint)[1] = hint
         /\ Len(before) = 1 => Append(before, hint)[1] = before[1] /\ Append(before, hint)[2] = hint
<1>1. before \in Seq(ToSet(before) \cup {hint})
  BY DEF Listed
<1>2. Len(before) \in Nat /\ (before = <<>> <=> Len(before) = 0)
      /\ Len(Append(before, hint)) = Len(before) + 1
  BY <1>1
<1>3. ASSUME before = <<>> PROVE Append(before, hint)[1] = hint
  BY <1>1, <1>3
<1>4. ASSUME Len(before) = 1 PROVE Append(before, hint) = <<before[1], hint>>
  <2>1. before = <<before[1]>>
    BY <1>4, OneIsItsFirst
  <2>2. QED
    BY <2>1, PairOf
<1>5. QED
  BY <1>2, <1>3, <1>4

(* Accepted as the first token.                                             *)
LEMMA NoneAndText ==
  ASSUME NEW text PROVE <<>> \o Tokens(text) = Tokens(text)
<1>1. Listed(Tokens(text))
  BY OneIsListed, PiecesAssumption DEF Tokens, Listed
<1>2. QED
  BY <1>1 DEF Listed

ListSuggestions(before, hint, items) ==
  IF hint = Nothing THEN parseListWidgetSuggestions(before, items)
  ELSE parseListWidgetSuggestionsWithHint(Append(before, hint), items)

(* A text that a list suggests, cut and split as it may be, leads to an     *)
(* item that was suggested by it, for any list: parseListWidgetSuggestions  *)
(* and parseListWidgetId agree as long as the pieces tell the items apart.  *)
THEOREM ListSuggestionsLeadThere ==
  ASSUME NEW items, items # Thrown, IsList(items), PiecesTell(items),
         NEW before, Listed(before), NEW hint, NEW hash,
         NEW s \in ListSuggestions(before, hint, items)
  PROVE  Leads(ListSuggestions(before, hint, items), s.text,
               parseListWidgetId(before \o Tokens(s.text), items, hash))
<1> DEFINE texts == IF hint = Nothing THEN TextSuggestions(items)
                    ELSE Like(TextSuggestions(items), hint)
           tokens == Tokens(s.text)
           found == {k \in DOMAIN items : \E t \in items[k].texts : Begins(t, tokens[1])}
           anchor == parseListWidgetId(tokens, items, hash)
<1>1. ListSuggestions(before, hint, items) = Cut(texts) /\ before = <<>>
  BY WithHint DEF ListSuggestions, parseListWidgetSuggestions, parseListWidgetSuggestionsWithHint
<1>2. before \o tokens = tokens
  BY <1>1, NoneAndText
<1>3. PICK o \in texts : s = Suggestion(getEllipsedText(o.text), o.thing)
  BY <1>1 DEF Cut
<1>4. PICK i \in ToSet(items) : \E t \in i.texts : o = Suggestion(t, Thing(i.id))
  BY DEF TextSuggestions, Like
<1>5. PICK t \in i.texts : o = Suggestion(t, Thing(i.id))
  BY <1>4
<1>6. tokens[1] = Tokens(getEllipsedText(t))[1] /\ s.text = getEllipsedText(t) /\ s.thing = Thing(i.id)
  BY <1>3, <1>5 DEF Suggestion
<1>7. tokens # <<>>
  BY PiecesAssumption DEF Tokens
<1>8. found # {} /\ found \in SUBSET DOMAIN items
  BY <1>6 DEF PiecesTell, ToSet, IsList
<1> DEFINE j == items[Min(found)]
<1>9. /\ j \in ToSet(items) /\ j \notin {Nothing, Thrown}
      /\ \E u \in j.texts : Begins(u, tokens[1])
  <2>1. Min(found) \in found /\ j \in ToSet(items) /\ j \notin {Nothing, Thrown}
    <3> HIDE DEF found
    <3>1. QED
      BY <1>8, FirstOfFound
  <2>2. QED
    BY <2>1
<1>10. anchor = ItemAnchor(j.id)
  BY <1>7, <1>8, <1>9 DEF parseListWidgetId, Find, AnchorOf
<1> HIDE DEF j, found
<1>11. PICK u \in j.texts : Begins(u, tokens[1])
  BY <1>9
<1>12. t = u \/ i.id = j.id
  BY <1>6, <1>9, <1>11 DEF PiecesTell
<1>13. CASE i.id = j.id
  BY <1>1, <1>2, <1>6, <1>10, <1>13, ItemStandsForThing DEF Leads
<1>14. CASE t = u
  <2> DEFINE other == Suggestion(t, Thing(j.id))
  <2>1. other \in TextSuggestions(items)
    BY <1>9, <1>14 DEF TextSuggestions
  <2>2. other.text = o.text
    BY <1>5 DEF Suggestion
  <2>3. other \in texts
    BY <2>1, <2>2 DEF Like
  <2>4. Suggestion(getEllipsedText(other.text), other.thing) \in Cut(texts)
    BY <2>3 DEF Cut
  <2>5. other.text = t /\ other.thing = Thing(j.id)
    BY DEF Suggestion
  <2>6. Suggestion(getEllipsedText(t), Thing(j.id)) \in Cut(texts)
    BY <2>4, <2>5
  <2>7. QED
    BY <1>1, <1>2, <1>6, <1>10, <2>6, ItemStandsForThing DEF Leads, Suggestion
<1>15. QED
  BY <1>12, <1>13, <1>14

TimelineSuggestions(before, hint, items) ==
  IF hint = Nothing THEN parseTimelineWidgetSuggestions(before, items)
  ELSE parseTimelineWidgetSuggestionsWithHint(Append(before, hint), items)

(* A label or a text that a timeline suggests leads to an item that was     *)
(* suggested by it, for any timeline whose texts are not split.             *)
THEOREM TimelineSuggestionsLeadThere ==
  ASSUME NEW items, items # Thrown, IsList(items), TextsWhole(items),
         NEW before, Listed(before), NEW hint, NEW hash,
         NEW s \in TimelineSuggestions(before, hint, items)
  PROVE  Leads(TimelineSuggestions(before, hint, items), s.text,
               parseTimelineWidgetId(before \o Tokens(s.text), items, hash))
<1> DEFINE texts == IF hint = Nothing THEN TextSuggestions(items)
                    ELSE Like(TextSuggestions(items), hint)
           found == {k \in DOMAIN items : s.text \in items[k].texts}
           j == items[Min(found)]
<1>1. TimelineSuggestions(before, hint, items) = texts /\ before = <<>>
  BY WithHint DEF TimelineSuggestions, parseTimelineWidgetSuggestions,
                  parseTimelineWidgetSuggestionsWithHint
<1>2. PICK i \in ToSet(items) : \E t \in i.texts : s = Suggestion(t, Thing(i.id))
  BY <1>1 DEF TextSuggestions, Like
<1>3. s.text \in i.texts
  BY <1>2 DEF Suggestion
<1>4. before \o Tokens(s.text) = <<s.text>>
  BY <1>1, <1>2, <1>3, NoneAndText DEF TextsWhole, Whole, Tokens
<1>5. found # {} /\ found \in SUBSET DOMAIN items
  BY <1>3 DEF ToSet, IsList
<1>6. j \in ToSet(items) /\ j \notin {Nothing, Thrown} /\ s.text \in j.texts
  <2>1. Min(found) \in found /\ j \in ToSet(items) /\ j \notin {Nothing, Thrown}
    <3> HIDE DEF found
    <3>1. QED
      BY <1>5, FirstOfFound
  <2>2. QED
    BY <2>1
<1>7. parseTimelineWidgetId(<<s.text>>, items, hash) = ItemAnchor(j.id)
  BY <1>5, <1>6 DEF parseTimelineWidgetId, Find, AnchorOf
<1> HIDE DEF j, found
<1> DEFINE other == Suggestion(s.text, Thing(j.id))
<1>8. other \in TextSuggestions(items)
  BY <1>6 DEF TextSuggestions
<1>9. other.text = s.text /\ other.thing = Thing(j.id)
  BY DEF Suggestion
<1>10. other \in texts
  BY <1>1, <1>8, <1>9 DEF Like
<1>11. QED
  BY <1>1, <1>4, <1>7, <1>9, <1>10, ItemStandsForThing DEF Leads

(* The cells and the columns of a table, after the name of its widget.      *)
CellSuggested(before, hint, name, table) ==
  IF hint = Nothing THEN CellsOrColumns(IF before = <<>> THEN name ELSE Last(before), table)
  ELSE ColumnsOrCellsWithHint(Append(before, hint), table)

(* What stands for a row is a cell of the column that the token before      *)
(* names.                                                                   *)
LEMMA CellsOfColumn ==
  ASSUME NEW table, NEW before, Listed(before), Len(before) <= 1, NEW hint,
         NEW name, name \notin table.columns,
         NEW s \in CellSuggested(before, hint, name, table), s.thing # Nothing
  PROVE  LET cells == CellSuggestions(table.rows, before[1]) IN
         /\ Len(before) = 1 /\ before[1] \in table.columns
         /\ CellSuggested(before, hint, name, table) =
              IF hint = Nothing THEN cells ELSE Like(cells, hint)
<1> DEFINE column == before[1]
           cells == IF hint = Nothing THEN CellSuggestions(table.rows, column)
                    ELSE Like(CellSuggestions(table.rows, column), hint)
<1>1. \A C : s \notin ColumnSuggestions(C)
  BY DEF ColumnSuggestions, Suggestion
<1>2. /\ Len(before) \in Nat /\ (before = <<>> <=> Len(before) = 0)
      /\ Len(before) = 1 => Last(before) = column
  BY WithHint, OneIsItsFirst
<1>3. CASE hint = Nothing
  <2> DEFINE last == IF before = <<>> THEN name ELSE Last(before)
  <2>1. CellSuggested(before, hint, name, table) = CellsOrColumns(last, table)
    BY <1>3 DEF CellSuggested
  <2>2. last \in table.columns /\ CellsOrColumns(last, table) = CellSuggestions(table.rows, last)
    BY <1>1, <2>1 DEF CellsOrColumns
  <2>3. before # <<>>
    BY <2>2
  <2>4. Len(before) = 1
    <3>1. Len(before) # 0
      BY <1>2, <2>3
    <3>2. QED
      BY <1>2, <3>1, AtMostOne, Zenon
  <2>5. QED
    BY <1>2, <1>3, <2>1, <2>2, <2>3, <2>4
<1>4. CASE hint # Nothing
  <2> DEFINE rest == Append(before, hint)
  <2>0. /\ Len(rest) = Len(before) + 1
        /\ Len(before) = 1 => rest[1] = column /\ rest[2] = hint
    BY WithHint
  <2> HIDE DEF rest
  <2>1. CellSuggested(before, hint, name, table) = ColumnsOrCellsWithHint(rest, table)
    BY <1>4 DEF CellSuggested, rest
  <2>2. Len(rest) # 1 /\ rest[1] \in table.columns
    BY <1>1, <2>1 DEF ColumnsOrCellsWithHint
  <2>3. ColumnsOrCellsWithHint(rest, table) = Like(CellSuggestions(table.rows, rest[1]), rest[2])
    BY <2>2 DEF ColumnsOrCellsWithHint
  <2>4. Len(before) = 1
    <3>1. Len(before) # 0
      BY <2>0, <2>2
    <3>2. QED
      BY <1>2, <3>1, AtMostOne, Zenon
  <2>5. QED
    BY <1>4, <2>0, <2>1, <2>2, <2>3, <2>4
<1>5. QED
  BY <1>3, <1>4

(* And the first row with that cell was suggested by it, too.               *)
LEMMA CellsLeadThere ==
  ASSUME NEW table, IsTableData(table), CellsWhole(table),
         NEW before, Listed(before), Len(before) <= 1, NEW hint,
         NEW name, name \notin table.columns,
         NEW s \in CellSuggested(before, hint, name, table), s.thing # Nothing
  PROVE  LET row == parseRolesWidgetId(table.rows, before[1], s.text) IN
         /\ before \o Tokens(s.text) = <<before[1], s.text>>
         /\ before[1] \in table.columns
         /\ row \in ToSet(table.rows) /\ row \notin {Nothing, Thrown}
         /\ Suggestion(s.text, Thing(row.id)) \in CellSuggested(before, hint, name, table)
<1> DEFINE column == before[1]
           cells == IF hint = Nothing THEN CellSuggestions(table.rows, column)
                    ELSE Like(CellSuggestions(table.rows, column), hint)
           found == {k \in DOMAIN table.rows : Holds(table.rows[k], column, s.text)}
           row == table.rows[Min(found)]
<1>2. Len(before) = 1 /\ column \in table.columns /\ CellSuggested(before, hint, name, table) = cells
  BY CellsOfColumn
<1>3. s \in CellSuggestions(table.rows, column)
  BY <1>2 DEF Like
<1>4. PICK r \in ToSet(table.rows) : \E v \in r.cells[column] : s = Suggestion(v, Thing(r.id))
  BY <1>3 DEF CellSuggestions
<1>5. s.text \in r.cells[column] /\ Whole(s.text)
  BY <1>2, <1>4 DEF Suggestion, CellsWhole
<1>6. Holds(r, column, s.text)
  BY <1>2, <1>5 DEF Holds, IsTableData
<1>7. found # {} /\ found \in SUBSET DOMAIN table.rows
  BY <1>6 DEF ToSet, IsList, IsTableData
<1>8. row \in ToSet(table.rows) /\ row \notin {Nothing, Thrown} /\ Holds(row, column, s.text)
  <2>1. Min(found) \in found /\ row \in ToSet(table.rows) /\ row \notin {Nothing, Thrown}
    <3> HIDE DEF found
    <3>1. QED
      BY <1>7, FirstOfFound DEF IsTableData
  <2>2. QED
    BY <2>1
<1>9. parseRolesWidgetId(table.rows, column, s.text) = row
  BY <1>7 DEF parseRolesWidgetId, Find
<1>10. before \o Tokens(s.text) = <<column, s.text>>
  BY <1>2, <1>5, OneAndOne DEF Whole, Tokens
<1> HIDE DEF row, found
<1> DEFINE other == Suggestion(s.text, Thing(row.id))
<1>11. other \in CellSuggestions(table.rows, column)
  BY <1>8 DEF CellSuggestions, Holds
<1>12. other.text = s.text
  BY DEF Suggestion
<1>13. other \in cells
  BY <1>2, <1>11, <1>12 DEF Like
<1>14. QED
  BY <1>2, <1>8, <1>9, <1>10, <1>13

LEMMA NotTwo ==
  ASSUME NEW n \in Nat, ~(n >= 2) PROVE n <= 1
OBVIOUS

LEMMA NotMoreThanTwo ==
  ASSUME NEW n \in Nat, NEW m, m = n + 1, ~(m > 2) PROVE n <= 1
OBVIOUS

TableSuggestions(before, hint, name, table) ==
  IF hint = Nothing
  THEN parseTableWidgetSuggestions(before, IF before = <<>> THEN name ELSE Last(before), table)
  ELSE parseTableWidgetSuggestionsWithHint(Append(before, hint), table)

(* A cell that a table suggests leads to a row that was suggested by it,    *)
(* for any table with whole texts of which no column is called like the     *)
(* widget, which the suggestions would take for the column.                 *)
THEOREM TableSuggestionsLeadThere ==
  ASSUME NEW table, table # Thrown, IsTableData(table), CellsWhole(table),
         NEW before, Listed(before), NEW hint, NEW name, name \notin table.columns, NEW hash,
         NEW s \in TableSuggestions(before, hint, name, table), s.thing # Nothing
  PROVE  Leads(TableSuggestions(before, hint, name, table), s.text,
               parseTableWidgetId(before \o Tokens(s.text), table, hash))
<1> DEFINE row == parseRolesWidgetId(table.rows, before[1], s.text)
           tokens == <<before[1], s.text>>
<1>1. Len(before) <= 1
  <2>1. Len(before) \in Nat /\ Len(Append(before, hint)) = Len(before) + 1
    BY WithHint
  <2>2. ~(Len(before) >= 2) \/ ~(Len(Append(before, hint)) > 2)
    BY DEF TableSuggestions, parseTableWidgetSuggestions, parseTableWidgetSuggestionsWithHint
  <2>3. QED
    BY <2>1, <2>2, NotTwo, NotMoreThanTwo, Zenon
<1>2. TableSuggestions(before, hint, name, table) = CellSuggested(before, hint, name, table)
  BY DEF TableSuggestions, parseTableWidgetSuggestions, parseTableWidgetSuggestionsWithHint,
         CellSuggested
<1>3. /\ before \o Tokens(s.text) = tokens
      /\ row \in ToSet(table.rows) /\ row \notin {Nothing, Thrown}
      /\ Suggestion(s.text, Thing(row.id)) \in CellSuggested(before, hint, name, table)
  BY <1>1, <1>2, CellsLeadThere
<1> HIDE DEF row
<1>4. parseTableWidgetId(tokens, table, hash) = AnchorOf(row, hash)
  BY DEF parseTableWidgetId, parseRolesWidgetId, row
<1>5. AnchorOf(row, hash) = ItemAnchor(row.id)
  BY <1>3 DEF AnchorOf
<1>6. QED
  BY <1>2, <1>3, <1>4, <1>5, LeadsToItem

(* What an issue suggests of its roles and elements.                        *)
PaginatedTableSuggestions(before, hint, name, data) ==
  IF hint = Nothing
  THEN parsePaginatedTableWidgetSuggestions(
         before, IF before = <<>> THEN name ELSE Last(before), name, TRUE, data)
  ELSE parsePaginatedTableWidgetSuggestionsWithHint(Append(before, hint), name, TRUE, data)

LEMMA PaginatedTableTwoTokens ==
  ASSUME NEW before, Listed(before), NEW hint, NEW name, NEW data,
         NEW s \in PaginatedTableSuggestions(before, hint, name, data)
  PROVE  Len(before) <= 1
<1>1. Len(before) \in Nat /\ Len(Append(before, hint)) = Len(before) + 1
  BY WithHint
<1>2. ~(Len(before) >= 2) \/ ~(Len(Append(before, hint)) > 2)
  BY DEF PaginatedTableSuggestions, parsePaginatedTableWidgetSuggestions,
         parsePaginatedTableWidgetSuggestionsWithHint
<1>3. QED
  BY <1>1, <1>2, NotTwo, NotMoreThanTwo, Zenon

(* A user or a role that an issue suggests of its participants leads to a   *)
(* row that was suggested by it.                                            *)
THEOREM RolesSuggestionsLeadThere ==
  ASSUME NEW roles, roles # Thrown, IsTableData(roles), CellsWhole(roles), Roles \notin roles.columns,
         NEW before, Listed(before), NEW hint, NEW hash,
         NEW s \in PaginatedTableSuggestions(before, hint, Roles, roles), s.thing # Nothing
  PROVE  Leads(PaginatedTableSuggestions(before, hint, Roles, roles), s.text,
               parsePaginatedTableWidgetId(before \o Tokens(s.text), Roles, TRUE, roles, hash))
<1> DEFINE row == parseRolesWidgetId(roles.rows, before[1], s.text)
           tokens == <<before[1], s.text>>
<1>1. Len(before) <= 1
  BY PaginatedTableTwoTokens
<1>0. Roles # Elements
  BY DEF Roles, Elements
<1>2. PaginatedTableSuggestions(before, hint, Roles, roles) = CellSuggested(before, hint, Roles, roles)
  BY <1>0 DEF PaginatedTableSuggestions, parsePaginatedTableWidgetSuggestions,
         parsePaginatedTableWidgetSuggestionsWithHint, parseRolesWidgetSuggestions,
         parseRolesWidgetSuggestionsWithHint, CellSuggested
<1>3. /\ before \o Tokens(s.text) = tokens
      /\ row \in ToSet(roles.rows) /\ row \notin {Nothing, Thrown}
      /\ Suggestion(s.text, Thing(row.id)) \in CellSuggested(before, hint, Roles, roles)
  BY <1>1, <1>2, CellsLeadThere
<1>4. parsePaginatedTableWidgetId(tokens, Roles, TRUE, roles, hash) = AnchorOf(row, hash)
  <2>1. Len(tokens) > 1 /\ tokens # <<>> /\ tokens[1] = before[1] /\ tokens[2] = s.text
    OBVIOUS
  <2> HIDE DEF tokens
  <2>2. QED
    BY <1>0, <2>1 DEF parsePaginatedTableWidgetId
<1> HIDE DEF row
<1>5. AnchorOf(row, hash) = ItemAnchor(row.id)
  BY <1>3 DEF AnchorOf
<1>6. QED
  BY <1>2, <1>3, <1>4, <1>5, LeadsToItem

(* A name, an organization or a description that an issue suggests of its   *)
(* elements leads to an element that was suggested by it; the posts parser  *)
(* takes a description that only begins like the token, too.                *)
THEOREM ElementsSuggestionsLeadThere ==
  ASSUME NEW elements, elements # Thrown, IsList(elements), ElementsTell(elements),
         NEW before, Listed(before), NEW hint, NEW hash,
         NEW s \in PaginatedTableSuggestions(before, hint, Elements, elements), s.thing # Nothing
  PROVE  Leads(PaginatedTableSuggestions(before, hint, Elements, elements), s.text,
               parsePaginatedTableWidgetId(before \o Tokens(s.text), Elements, TRUE, elements, hash))
<1> DEFINE column == before[1]
           table == ElementsTable(elements)
           all == CellSuggestions(table.rows, column)
           cells == IF hint = Nothing THEN all ELSE Like(all, hint)
           tokens == <<column, s.text>>
           Matches(e) ==
             /\ column \in DOMAIN ElementCells(e)
             /\ \E text \in ElementCells(e)[column] :
                  text = s.text \/ (column = "Description" /\ Begins(text, s.text))
           found == {k \in DOMAIN elements : Matches(elements[k])}
           f == elements[Min(found)]
<1>0. Roles # Elements
  BY DEF Roles, Elements
<1>1. Len(before) <= 1
  BY PaginatedTableTwoTokens
<1>2. PaginatedTableSuggestions(before, hint, Elements, elements)
        = CellSuggested(before, hint, Elements, table)
  BY <1>0 DEF PaginatedTableSuggestions, parsePaginatedTableWidgetSuggestions,
         parsePaginatedTableWidgetSuggestionsWithHint, parseElementsWidgetSuggestions,
         parseElementsWidgetSuggestionsWithHint, CellSuggested
<1>3. Elements \notin table.columns
  BY DEF ElementsTable, Elements
<1>4. Len(before) = 1 /\ column \in table.columns /\ CellSuggested(before, hint, Elements, table) = cells
  <2> HIDE DEF table
  <2>1. QED
    BY <1>1, <1>2, <1>3, CellsOfColumn
<1>5. /\ DOMAIN table.rows = DOMAIN elements
      /\ \A k \in DOMAIN elements :
           table.rows[k].id = elements[k].id /\ table.rows[k].cells = ElementCells(elements[k])
  BY DEF ElementsTable
<1>6. \A e : DOMAIN ElementCells(e) = table.columns
  BY DEF ElementCells, ElementsTable
<1>7. ASSUME NEW x
      PROVE  x \in all <=> \E e \in ToSet(elements) : \E v \in ElementCells(e)[column] :
                             x = Suggestion(v, Thing(e.id))
  <2> HIDE DEF table
  <2>1. x \in all <=> \E r \in ToSet(table.rows) : \E v \in r.cells[column] :
                        x = Suggestion(v, Thing(r.id))
    BY DEF CellSuggestions
  <2>2. ToSet(table.rows) = {table.rows[k] : k \in DOMAIN elements}
        /\ ToSet(elements) = {elements[k] : k \in DOMAIN elements}
    BY <1>5 DEF ToSet
  <2>3. QED
    BY <1>5, <2>1, <2>2
<1> HIDE DEF table, all
<1>8. PICK e \in ToSet(elements) : \E v \in ElementCells(e)[column] : s = Suggestion(v, Thing(e.id))
  <2>1. s \in all
    BY <1>2, <1>4 DEF Like
  <2>2. QED
    BY <1>7, <2>1
<1>9. s.text \in ElementCells(e)[column] /\ Whole(s.text) /\ s.thing = Thing(e.id)
  BY <1>4, <1>6, <1>8 DEF Suggestion, ElementsTell
<1>10. before \o Tokens(s.text) = tokens
  BY <1>4, <1>9, OneAndOne DEF Whole, Tokens
<1>11. found # {} /\ found \in SUBSET DOMAIN elements
  <2>1. Matches(e)
    BY <1>4, <1>6, <1>9
  <2>2. QED
    BY <2>1 DEF ToSet
<1>12. f \in ToSet(elements) /\ f \notin {Nothing, Thrown} /\ Matches(f)
  <2> HIDE DEF Matches
  <2>1. Min(found) \in found /\ f \in ToSet(elements) /\ f \notin {Nothing, Thrown}
    <3> HIDE DEF found
    <3>1. QED
      BY <1>11, FirstOfFound
  <2>2. QED
    BY <2>1
<1>13. parseElementsWidgetId(elements, column, s.text) = f
  <2>1. Find(elements, Matches) = f
    BY <1>11 DEF Find
  <2> HIDE DEF f, found
  <2>2. QED
    BY <1>12, <2>1 DEF parseElementsWidgetId
<1> HIDE DEF f, found
<1>14. parsePaginatedTableWidgetId(tokens, Elements, TRUE, elements, hash) = ItemAnchor(f.id)
  <2>1. Len(tokens) > 1 /\ tokens # <<>> /\ tokens[1] = column /\ tokens[2] = s.text
    OBVIOUS
  <2> HIDE DEF tokens
  <2>2. parsePaginatedTableWidgetId(tokens, Elements, TRUE, elements, hash) = AnchorOf(f, hash)
    BY <1>0, <1>13, <2>1 DEF parsePaginatedTableWidgetId
  <2>3. QED
    BY <1>12, <2>2 DEF AnchorOf
<1> DEFINE other == Suggestion(s.text, Thing(f.id))
<1>15. other \in cells
  <2>1. CASE s.text \in ElementCells(f)[column]
    <3>1. other \in all
      BY <1>7, <1>12, <2>1
    <3>2. other.text = s.text
      BY DEF Suggestion
    <3>3. QED
      BY <1>2, <1>4, <3>1, <3>2 DEF Like
  <2>2. CASE s.text \notin ElementCells(f)[column]
    <3>1. PICK text \in ElementCells(f)[column] : column = "Description" /\ Begins(text, s.text)
      BY <1>12, <2>2
    <3>2. /\ s.text = e.description /\ e.description # Nothing
          /\ text = f.description /\ f.description # Nothing
      BY <1>9, <3>1 DEF ElementCells
    <3>3. e.id = f.id
      BY <1>12, <2>2, <3>1, <3>2 DEF ElementsTell
    <3>4. s = other
      BY <1>8, <1>9, <3>3 DEF Suggestion
    <3>5. QED
      BY <1>2, <1>4, <3>4
  <2>3. QED
    BY <2>1, <2>2
<1>16. QED
  BY <1>2, <1>4, <1>10, <1>14, <1>15, LeadsToItem

(* What the suggestions of a graph have to start with. *)
LabelOrDescription(text, graph) ==
  \/ text # Nothing /\ text = graph.description
  \/ \E n \in ToSet(graph.nodes) : n.label = text

(* The node that the posts parser finds for a token, and the one that the   *)
(* suggestions find.                                                        *)
NodeNamed(graph, text) == Find(graph.nodes, LAMBDA n : n.label = text)
NodeWith(graph, text) == Find(graph.nodes, LAMBDA n : HasPart(n.label, text))

LEMMA OneNodeForLabel ==
  ASSUME NEW graph, GraphTells(graph), NEW text, \E n \in ToSet(graph.nodes) : n.label = text
  PROVE  /\ NodeNamed(graph, text) \in ToSet(graph.nodes) /\ NodeNamed(graph, text) # Nothing
         /\ NodeNamed(graph, text).label = text
         /\ NodeWith(graph, text) = NodeNamed(graph, text)
<1> DEFINE found == {k \in DOMAIN graph.nodes : graph.nodes[k].label = text}
<1>1. found # {} /\ found \in SUBSET DOMAIN graph.nodes
  BY DEF ToSet
<1>2. Min(found) \in found /\ graph.nodes[Min(found)] \in ToSet(graph.nodes)
      /\ graph.nodes[Min(found)] \notin {Nothing, Thrown}
  <2> HIDE DEF found
  <2>1. QED
    BY <1>1, FirstOfFound DEF GraphTells
<1>3. NodeNamed(graph, text) = graph.nodes[Min(found)]
  BY <1>1 DEF NodeNamed, Find
<1>4. {k \in DOMAIN graph.nodes : HasPart(graph.nodes[k].label, text)} = found
  BY DEF GraphTells, HasPart, ToSet
<1>5. NodeWith(graph, text) = graph.nodes[Min(found)]
  BY <1>1, <1>4 DEF NodeWith, Find
<1>6. QED
  BY <1>2, <1>3, <1>5

LEMMA SomeLike ==
  ASSUME NEW suggestions, NEW t \in suggestions PROVE Like(suggestions, t.text) # {}
BY DEF Like, HasPart

LEMMA ParsedGraph ==
  ASSUME NEW graph, graph # Thrown, NEW tokens, tokens # <<>>, NEW reference, NEW hash,
         ~(graph.description # Nothing /\ graph.description = tokens[1]),
         NodeNamed(graph, tokens[1]) # Nothing
  PROVE  parseGraphWidgetId(tokens, graph, reference, hash) =
           NodeAnchor(tokens, NodeNamed(graph, tokens[1]).id,
                      ItemAnchor(NodeNamed(graph, tokens[1]).id), hash)
BY DEF parseGraphWidgetId, NodeNamed

LEMMA SuggestedInfo ==
  ASSUME NEW graph, graph # Thrown, NEW rest, Len(rest) = 2, NEW object
  PROVE  parseGraphWidgetSuggestionsWithHint(rest, graph, object) =
           IF NodeWith(graph, rest[1]) # Nothing /\ HasPart("Description", rest[2])
           THEN {InfoSuggestion(NodeWith(graph, rest[1]))} ELSE {}
BY DEF parseGraphWidgetSuggestionsWithHint, NodeWith

(* After the separator the parser looks the node up in what was suggested   *)
(* for the tokens before.                                                   *)
GraphSuggestions(before, hint, graph, object) ==
  IF hint = Nothing
  THEN parseGraphWidgetSuggestions(before, graph,
         [object |-> object,
          suggestions |-> IF before = <<>> THEN {}
                          ELSE parseGraphWidgetSuggestionsWithHint(before, graph, object)])
  ELSE parseGraphWidgetSuggestionsWithHint(Append(before, hint), graph, object)

(* A node, the description of the graph, and the info of a node that were   *)
(* suggested are what the text leads to, for any graph of which no label or *)
(* description contains another.                                            *)
THEOREM GraphSuggestionsLeadThere ==
  ASSUME NEW graph, graph # Thrown, GraphTells(graph),
         NEW before, Listed(before), before # <<>> => LabelOrDescription(before[1], graph),
         NEW hint, NEW reference, NEW hash,
         NEW s \in GraphSuggestions(before, hint, graph, reference.object)
  PROVE  Leads(GraphSuggestions(before, hint, graph, reference.object), s.text,
               parseGraphWidgetId(before \o Tokens(s.text), graph, reference, hash))
<1> DEFINE object == reference.object
           things == NodeSuggestions(graph.nodes) \cup GraphDescription(graph, object)
           suggestions == GraphSuggestions(before, hint, graph, object)
<1>1. /\ Len(before) \in Nat /\ (before = <<>> <=> Len(before) = 0)
      /\ Len(Append(before, hint)) = Len(before) + 1
      /\ before = <<>> => Append(before, hint)[1] = hint
      /\ Len(before) = 1 => Append(before, hint)[1] = before[1] /\ Append(before, hint)[2] = hint
  BY WithHint
<1>3. CASE before = <<>>
  <2>1. s \in things /\ suggestions = IF hint = Nothing THEN things ELSE Like(things, hint)
    <3>1. CASE hint = Nothing
      BY <1>1, <1>3, <3>1 DEF GraphSuggestions, parseGraphWidgetSuggestions
    <3>2. CASE hint # Nothing
      <4>1. suggestions = parseGraphWidgetSuggestionsWithHint(Append(before, hint), graph, object)
        BY <3>2 DEF GraphSuggestions
      <4>2. Len(Append(before, hint)) = 1 /\ Append(before, hint)[1] = hint
        BY <1>1, <1>3
      <4>3. suggestions = Like(things, hint)
        BY <4>1, <4>2 DEF parseGraphWidgetSuggestionsWithHint
      <4>4. QED
        BY <3>2, <4>3 DEF Like
    <3>3. QED
      BY <3>1, <3>2
  <2>2. ASSUME NEW x \in things, x.text = s.text PROVE x \in suggestions
    BY <2>1, <2>2 DEF Like
  <2>3. CASE graph.description # Nothing /\ graph.description = s.text
    <3> DEFINE anchor == <<"description", IdOf(object)>>
    <3>1. before \o Tokens(s.text) = <<s.text>>
      BY <1>3, <2>3, NoneAndText DEF GraphTells, Whole, Tokens
    <3>2. parseGraphWidgetId(<<s.text>>, graph, reference, hash) = anchor
      BY <2>3 DEF parseGraphWidgetId, NodeAnchor
    <3>3. Suggestion(s.text, anchor) \in suggestions
      <4>1. Suggestion(s.text, anchor) \in things
        BY <2>3 DEF GraphDescription
      <4>2. Suggestion(s.text, anchor).text = s.text
        BY DEF Suggestion
      <4>3. QED
        BY <2>2, <4>1, <4>2
    <3>4. ThingOf(anchor) = anchor
      BY DEF ThingOf
    <3>5. QED
      BY <3>1, <3>2, <3>3, <3>4 DEF Leads, Suggestion
  <2>4. CASE ~(graph.description # Nothing /\ graph.description = s.text)
    <3>1. s \in NodeSuggestions(graph.nodes)
      BY <2>1, <2>4 DEF GraphDescription, Suggestion
    <3>2. PICK n \in ToSet(graph.nodes) : s = Suggestion(n.label, Thing(n.id))
      BY <3>1 DEF NodeSuggestions
    <3>3. s.text = n.label
      BY <3>2 DEF Suggestion
    <3>4. before \o Tokens(s.text) = <<s.text>>
      BY <1>3, <3>3, NoneAndText DEF GraphTells, Whole, Tokens
    <3> DEFINE m == NodeNamed(graph, s.text)
               token == <<s.text>>
    <3>5. m \in ToSet(graph.nodes) /\ m # Nothing /\ m.label = s.text
      BY <3>3, OneNodeForLabel
    <3>6. parseGraphWidgetId(token, graph, reference, hash) = ItemAnchor(m.id)
      <4>1. token # <<>> /\ token[1] = s.text /\ Len(token) # 2
        OBVIOUS
      <4> HIDE DEF token
      <4>2. parseGraphWidgetId(token, graph, reference, hash)
              = NodeAnchor(token, m.id, ItemAnchor(m.id), hash)
        BY <2>4, <3>5, <4>1, ParsedGraph
      <4>3. QED
        BY <4>1, <4>2 DEF NodeAnchor
    <3> HIDE DEF m
    <3>7. Suggestion(s.text, Thing(m.id)) \in suggestions
      <4>1. Suggestion(s.text, Thing(m.id)) \in things
        BY <3>5 DEF NodeSuggestions
      <4>2. Suggestion(s.text, Thing(m.id)).text = s.text
        BY DEF Suggestion
      <4>3. QED
        BY <2>2, <4>1, <4>2
    <3>8. QED
      BY <3>4, <3>6, <3>7, LeadsToItem
  <2>5. QED
    BY <2>3, <2>4
<1>4. CASE before # <<>>
  <2> DEFINE label == before[1]
             m == NodeWith(graph, label)
  <2>1. Len(before) <= 1
    <3>1. ~(Len(before) >= 2) \/ ~(Len(Append(before, hint)) > 2)
      BY DEF GraphSuggestions, parseGraphWidgetSuggestions, parseGraphWidgetSuggestionsWithHint
    <3>2. QED
      BY <1>1, <3>1, NotTwo, NotMoreThanTwo, Zenon
  <2>2. Len(before) = 1
    BY <1>1, <1>4, <2>1, AtMostOne, Zenon
  <2>3. m # Nothing /\ suggestions = {InfoSuggestion(m)}
    <3>1. CASE hint = Nothing
      <4> DEFINE h == [object |-> object, suggestions |-> Like(things, label)]
                 Told(n) == Suggestion(n.label, Thing(n.id)) \in h.suggestions
      <4>1. parseGraphWidgetSuggestionsWithHint(before, graph, object) = Like(things, label)
        BY <2>2 DEF parseGraphWidgetSuggestionsWithHint
      <4>2. suggestions = parseGraphWidgetSuggestions(before, graph, h)
        BY <1>4, <3>1, <4>1 DEF GraphSuggestions
      <4>3. \A k \in DOMAIN graph.nodes : Told(graph.nodes[k]) <=> HasPart(graph.nodes[k].label, label)
        BY DEF Like, NodeSuggestions, Suggestion, ToSet
      <4>4. Find(graph.nodes, Told) = m
        BY <4>3 DEF Find, NodeWith
      <4>5. h.suggestions # {}
        <5>1. CASE label # Nothing /\ label = graph.description
          <6>1. Suggestion(label, <<"description", IdOf(object)>>) \in things
            BY <5>1 DEF GraphDescription
          <6>2. Suggestion(label, <<"description", IdOf(object)>>).text = label
            BY DEF Suggestion
          <6> HIDE DEF things, label
          <6>3. Like(things, label) # {}
            BY <6>1, <6>2, SomeLike
          <6>4. QED
            BY <6>3
        <5>2. CASE \E n \in ToSet(graph.nodes) : n.label = label
          <6>1. PICK n \in ToSet(graph.nodes) : n.label = label
            BY <5>2
          <6>2. Suggestion(n.label, Thing(n.id)) \in things
            BY DEF NodeSuggestions
          <6>3. Suggestion(n.label, Thing(n.id)).text = label
            BY <6>1 DEF Suggestion
          <6> HIDE DEF things, label
          <6>4. Like(things, label) # {}
            BY <6>2, <6>3, SomeLike
          <6>5. QED
            BY <6>4
        <5>3. QED
          BY <1>4, <5>1, <5>2 DEF LabelOrDescription
      <4> HIDE DEF h, m
      <4>6. suggestions = IF m = Nothing THEN {} ELSE {InfoSuggestion(m)}
        BY <1>4, <2>2, <4>2, <4>4, <4>5 DEF parseGraphWidgetSuggestions
      <4>7. QED
        BY <4>6
    <3>2. CASE hint # Nothing
      <4> DEFINE rest == Append(before, hint)
      <4>1. Len(rest) = 2 /\ rest[1] = label
        BY <1>1, <2>2
      <4>2. suggestions = parseGraphWidgetSuggestionsWithHint(rest, graph, object)
        BY <3>2 DEF GraphSuggestions
      <4> HIDE DEF rest, suggestions
      <4>3. suggestions = IF m # Nothing /\ HasPart("Description", rest[2])
                          THEN {InfoSuggestion(m)} ELSE {}
        BY <4>1, <4>2, SuggestedInfo
      <4>4. s \in suggestions
        BY DEF suggestions
      <4>5. QED
        BY <4>3, <4>4
    <3>3. QED
      BY <3>1, <3>2
  <2>4. s = InfoSuggestion(m)
    BY <2>3
  <2>5. \E n \in ToSet(graph.nodes) : n.label = label
    <3>1. CASE label = graph.description
      <4>1. {k \in DOMAIN graph.nodes : HasPart(graph.nodes[k].label, label)} = {}
        BY <3>1 DEF GraphTells, ToSet
      <4>2. m = Nothing
        BY <4>1 DEF Find, NodeWith
      <4>3. QED
        BY <2>3, <4>2
    <3>2. QED
      BY <1>4, <3>1 DEF LabelOrDescription
  <2>6. m = NodeNamed(graph, label) /\ graph.description # label
    <3>1. m = NodeNamed(graph, label)
      BY <2>5, OneNodeForLabel
    <3>2. graph.description # label
      BY <2>5 DEF GraphTells, HasPart
    <3>3. QED
      BY <3>1, <3>2
  <2> HIDE DEF m
  <2>7. s.text = "Description" /\ s.thing = <<"info", m.id>>
    BY <2>4 DEF InfoSuggestion, Suggestion
  <2>8. before \o Tokens(s.text) = <<label, "Description">>
    BY <2>2, <2>7, OneAndOne DEF GraphTells, Whole, Tokens
  <2> DEFINE tokens == <<label, "Description">>
  <2>9. Len(tokens) = 2 /\ tokens # <<>> /\ tokens[1] = label /\ tokens[2] = "Description"
    OBVIOUS
  <2> HIDE DEF tokens
  <2>10. parseGraphWidgetId(tokens, graph, reference, hash) = <<"info", m.id>>
    <3>1. parseGraphWidgetId(tokens, graph, reference, hash)
            = NodeAnchor(tokens, m.id, ItemAnchor(m.id), hash)
      BY <2>3, <2>6, <2>9, ParsedGraph
    <3>2. QED
      BY <2>9, <3>1 DEF NodeAnchor
  <2>11. ThingOf(<<"info", m.id>>) = <<"info", m.id>>
    BY DEF ThingOf
  <2>12. QED
    BY <2>7, <2>8, <2>10, <2>11 DEF Leads, tokens
<1>5. QED
  BY <1>3, <1>4

=============================================================================
