-------------------------------- MODULE Widgets --------------------------------
(***************************************************************************)
(* A page with one widget: the data hook of the widget, what the widget    *)
(* makes of the answers, and the hash of the url (hooks/browser.ts), which *)
(* names an element to scroll to and to mark.                              *)
(*                                                                         *)
(* The hook tells the widget: PaginatedTable, Graph, CacaoPlaybook,        *)
(* SocialMediaPosts, News, Policy, the box that creates a channel, or one  *)
(* whose state is that of its hook.  The page stays mounted when the user  *)
(* goes on to another section.                                             *)
(***************************************************************************)
EXTENDS PaginatedTable, GraphView, ChannelForm, Playbook, Posts, Policy

CONSTANT MaxNavigations \* how often the user follows a link or goes elsewhere

VARIABLE nav \* the hash, and the state of useScrollIntoView

contents == <<playbook, posts, policy>>
views == <<table, graph, form, contents, nav>>
vars == <<hookVars, views>>

IsTable == hook.data = "rows"
IsGraph == hook.data = "graph"
IsForm == hook.data = "info"
IsPlaybook == hook.data = "playbook"
IsPosts == hook.data = "posts"
IsNews == hook.data = "news"
IsPolicy == hook.data = "policy"
IsPage == IsTable \/ IsGraph \/ IsPlaybook \/ IsPosts \/ IsNews

Hashes == ValuesOf["sectionUrlHash"]
Urls == ValuesOf["url"]

(* SingleChannelBox passes its section and the section's url, no refresh. *)
BoxParams == {[id |-> s, url |-> s, refresh |-> Absent] : s \in ValuesOf["id"]}

(* A page is loaded with any hash; previousHash is cleared by the effect   *)
(* of the first render.                                                    *)
NewNav(hash) ==
  [hash |-> hash,
   previousHash |-> Absent, \* in the local storage
   DOMReady |-> FALSE,
   timers |-> <<>>,    \* the hashes that timers are to scroll to, in order
   link |-> hash,      \* the last link the user followed
   scrolled |-> FALSE, \* the page was scrolled to it
   rushed |-> FALSE,   \* it was followed while timers were running
   missed |-> FALSE]   \* its timer fired too early

Init ==
  /\ HookInit
  /\ table = IF IsTable THEN NewTable ELSE Absent
  /\ graph = IF IsGraph THEN NewGraph ELSE Absent
  /\ IF IsForm THEN FormInit(params.id) ELSE form = Absent
  /\ IsForm => params \in BoxParams
  /\ \E hash \in Hashes :
       /\ nav = NewNav(IF IsPage THEN hash ELSE Absent)
       /\ IsGraph => params.hash = hash /\ params.sectionUrlHash = hash
       /\ IsNews => params.search = Absent /\ params.offset = 0
       /\ IsPolicy => params.refresh = Absent
       /\ ~IsPage => hash = Absent
  /\ playbook = IF IsPlaybook THEN NewPlaybook(nav.hash) ELSE Absent
  /\ posts = IF IsPosts \/ IsNews THEN NewPosts ELSE Absent
  /\ policy = IF IsPolicy THEN NewPolicy ELSE Absent

------------------------------------------------------------------------------
(* The hash (hooks/browser.ts) *)

useUrlHash(hash, previousHash) == IF hash # Absent THEN hash ELSE previousHash

(* The elements with an id that are on the page: the rows or posts of the  *)
(* page of the table or list, the nodes of the graph and the info of one,  *)
(* the selections of the playbook.                                         *)
Elements ==
  CASE IsTable -> RowsShown(table, RowsOf(shown))
    [] IsPlaybook -> PlaybookElements(playbook)
    [] IsPosts -> PostsShown(posts, PostsOf(shown))
    [] IsNews -> Range(NewsOf(shown))
    [] IsGraph -> NodesAt[graph.of] \cup ({graph.nodeInfo} \ {Absent})
    [] OTHER -> {}

(* Mutant: the effect depends on DOMReady only. *)
ScrollsOnce(n, hash, ready) == ready # n.DOMReady

(* The effect of [hash, DOMReady] of useScrollIntoView is due. *)
Scrolls(n, hash, ready) == hash # n.hash \/ ready # n.DOMReady

(* A render of the page: useDOMReadyById finds the element, useCleanUrlHash*)
(* forgets a previous hash without element, and a timer is armed to scroll.*)
(* No timer is ever cleared.                                               *)
PageRendered(n, hash) ==
  LET ready == n.DOMReady \/ hash \in Elements
      previous == IF n.previousHash \in Elements THEN n.previousHash ELSE Absent
      target == useUrlHash(hash, previous)
  IN [n EXCEPT !.hash = hash, !.DOMReady = ready, !.previousHash = previous,
               !.timers = IF ready /\ target # Absent /\ Scrolls(n, hash, ready)
                          THEN Append(@, target) ELSE @]

(* The parameters of the hook after a render of the wrapper and its        *)
(* effects: that of NewsPosts may turn the page.                           *)
WrapperParams(url, n, hash, answers, changed) ==
  CASE IsGraph -> [url |-> url, hash |-> useUrlHash(hash, n.previousHash), sectionUrlHash |-> hash]
    [] IsNews ->
         LET query == [params EXCEPT !.url = url]
             urlHash == useUrlHash(hash, n.previousHash)
         IN IF ~NewsFailed(answers) /\ TurnsPage(posts, NewsOf(answers), urlHash, changed)
            THEN updatePage(query, PageOfPost(Min(FirstContained(NewsOf(answers), urlHash)), query.limit))
            ELSE query
    [] OTHER -> [url |-> url]

(* The widget in a render with that hash; n is the state before the        *)
(* effects of the page.  After an error NewsPosts is there anew.           *)
WidgetRendered(n, hash, answers, answered) ==
  LET urlHash == useUrlHash(hash, n.previousHash)
      changed == answered \/ hash # n.hash
      newsPosts == IF NewsFailed(shown) THEN NewsPostsMounted(params) ELSE posts
  IN
  /\ table' = IF IsTable THEN TableRendered(table, RowsOf(answers), urlHash, changed) ELSE table
  /\ graph' = IF IsGraph
              THEN GraphRendered(IF answered THEN WithAnswer(graph) ELSE graph, answers, hash)
              ELSE graph
  /\ playbook' = IF IsPlaybook THEN PlaybookRendered(playbook, answers, urlHash, answered) ELSE playbook
  /\ posts' = CASE IsPosts -> PostsRendered(posts, PostsOf(answers), urlHash, changed, POSTS_PER_PAGE)
               [] IsNews /\ ~NewsFailed(answers) ->
                    PostsRendered(newsPosts, NewsOf(answers), urlHash, changed, params.limit)
               [] OTHER -> posts

(* The page and the widget in it render. *)
Rendered(n, url, hash) ==
  /\ params' = WrapperParams(url, n, hash, shown, hash # n.hash)
  /\ WidgetRendered(n, hash, shown, FALSE)
  /\ UNCHANGED <<hook, mounted, effect, fetches, shown, form, policy>>

Settled == mounted /\ ~EffectDue

(* The user follows a link, or goes to a section without one.              *)
Navigate(url, hash) ==
  LET n == IF hash = Absent THEN [nav EXCEPT !.link = Absent, !.rushed = FALSE]
           ELSE [nav EXCEPT !.link = hash, !.scrolled = FALSE, !.missed = FALSE,
                            !.rushed = \E i \in DOMAIN nav.timers : nav.timers[i] # hash]
  IN
  /\ IsPage /\ Settled
  /\ renders < MaxNavigations
  /\ <<url, hash>> # <<params.url, nav.hash>>
  /\ renders' = renders + 1
  /\ nav' = PageRendered(n, hash)
  /\ params' = WrapperParams(url, nav, hash, shown, hash # nav.hash)
  /\ WidgetRendered(nav, hash, shown, FALSE)
  /\ UNCHANGED <<hook, mounted, effect, fetches, shown, form, policy>>

(* The page renders for another reason.  *)
Rerender ==
  /\ IsPage /\ Settled
  /\ nav' = PageRendered(nav, nav.hash)
  /\ Rendered(nav, params.url, nav.hash)
  /\ UNCHANGED renders

(* useDOMReadyById renders every half second until the element is there.   *)
(* That it loses patience after 1000 times is left out.                    *)
Poll == ~nav.DOMReady /\ nav.hash # Absent /\ Rerender

(* The element is not there yet, or is one of posts that others are about  *)
(* to replace. *)
TooEarly(hash) == hash \notin Elements \/ (IsPosts /\ effect.outcome = "pending")

(* A timer scrolls to its element, if it is there, and keeps its hash.     *)
Fired(n, hash) ==
  [n EXCEPT !.timers = Tail(@), !.previousHash = hash,
            !.scrolled = @ \/ (hash = n.link /\ hash \in Elements),
            !.missed = @ \/ (hash = n.link /\ TooEarly(hash))]

(* Then it clears the hash of the url, and the page renders if it had one. *)
TimerFires ==
  /\ IsPage /\ Settled
  /\ nav.timers # <<>>
  /\ LET n == Fired(nav, Head(nav.timers)) IN
     IF nav.hash = Absent
     THEN /\ nav' = n
          /\ UNCHANGED <<hookVars, table, graph, form, contents>>
     ELSE /\ nav' = PageRendered(n, Absent)
          /\ Rendered(n, params.url, Absent)
          /\ UNCHANGED renders

(* The user switches channel next to the page: useCleanUrlHashOnChannelChange. *)
ChangeChannel ==
  /\ IsPage /\ Settled
  /\ nav' = [nav EXCEPT !.previousHash = Absent]
  /\ graph' = IF IsGraph THEN ChannelEffect(graph) ELSE graph
  /\ UNCHANGED <<hookVars, table, form, contents>>

------------------------------------------------------------------------------
(* The user and the table *)

TableStep ==
  /\ IsTable /\ Settled
  /\ LET rows == RowsOf(shown)
         seen == useUrlHash(nav.hash, nav.previousHash)
     IN
     \/ \E page \in 1 .. LastPage(Len(Listed(table, rows))) :
          table' = TableRendered(ChangePage(table, rows, page), rows, seen, FALSE)
     \/ /\ rows # <<>>
        /\ \E sorter \in Sorters \cup {Absent} : table' = Sort(table, sorter)
     \/ /\ rows # <<>>
        /\ \E found \in Searches :
             table' = TableRendered(handleSearch(table, rows, found), rows, seen, FALSE)
  /\ UNCHANGED <<hookVars, graph, form, contents, nav>>

(* The user and the graph.  The panel's button lays it out the other way,  *)
(* which renders the wrapper.                                              *)
GraphStep ==
  /\ IsGraph /\ Settled
  /\ \/ /\ \E n \in UNION {NodesAt[u] : u \in Urls} :
             \/ graph' = SelectNode(graph, shown, n)
             \/ graph' = setTargetNodeId(graph, n)
             \/ graph' = onInfoClick(graph, n)
        /\ UNCHANGED params
     \/ /\ graph' = GraphRendered(graph, shown, nav.hash)
        /\ params' = WrapperParams(params.url, nav, nav.hash, shown, FALSE)
  /\ UNCHANGED <<hook, mounted, renders, effect, fetches, shown, table, form, contents, nav>>

(* The user and the box. *)
FormStep ==
  /\ IsForm /\ Settled
  /\ \/ /\ form.channels = "pending"
        /\ form' \in {ChannelsAnswered(form), ChannelsFailed(form)}
     \/ /\ FormShown(form)
        /\ \E name \in Typed : form' = handleChannelNameTemplateChange(form, name)
     \/ /\ FormShown(form) /\ form.creations < MaxCreations
        /\ form' = createChannel(form, params.id,
             IF shown = <<>> THEN Absent ELSE Last(shown).params.id)
  /\ UNCHANGED <<hookVars, table, graph, contents, nav>>

(* The answers to its requests.  The user is taken to a new channel; that  *)
(* leaves a page, while the RHS stays.                                     *)
ChannelAdded ==
  /\ IsForm
  /\ \E r \in form.sent :
       \/ /\ form' = AddFailed(form, r)
          /\ UNCHANGED hookVars
       \/ /\ form' = Added(form, r)
          /\ Unmount \/ UNCHANGED hookVars
  /\ UNCHANGED <<table, graph, contents, nav>>

(* The user and the selects of the playbook. *)
PlaybookStep ==
  /\ IsPlaybook /\ Settled
  /\ \/ \E step \in Range(WorkflowOf(shown)) : playbook' = SelectStep(playbook, shown, step)
     \/ \E reference \in Range(ReferencesOf(shown)) :
          playbook' = SelectReference(playbook, shown, reference)
  /\ UNCHANGED <<hookVars, table, graph, form, posts, policy, nav>>

(* The user and the pages of the posts. *)
PostsStep ==
  /\ IsPosts /\ Settled
  /\ \E page \in 1 .. PageOfPost(Len(PostsOf(shown)), POSTS_PER_PAGE) : posts' = TurnTo(posts, page)
  /\ UNCHANGED <<hookVars, table, graph, form, playbook, policy, nav>>

(* The user and the news: antd has a click on the page it shows do nothing.*)
NewsStep ==
  /\ IsNews /\ Settled
  /\ renders < MaxRenders
  /\ renders' = renders + 1
  /\ \/ /\ ~NewsFailed(shown)
        /\ \E page \in 1 .. PageOfPost(calcTotalItems(shown), params.limit) :
             /\ page # PageOnScreen(posts, calcTotalItems(shown), params.limit)
             /\ params' = updatePage(params, page)
             /\ posts' = NewsTurnedTo(posts, params, shown, page)
     \/ /\ \E value \in ValuesOf["search"] : params' = onSearch(params, value)
        /\ posts' = NewsSearched(posts, params)
  /\ UNCHANGED <<hook, mounted, effect, fetches, shown, table, graph, form, playbook, policy, nav>>

(* The user and the policy: the section's button exports it and has its    *)
(* template fetched again.                                                 *)
PolicyStep ==
  /\ IsPolicy /\ Settled
  /\ \/ /\ policy.removals < MaxRemovals
        /\ \E post \in policy.screen \ {Ongoing} : policy' = remove(policy, post, params.url)
        /\ UNCHANGED params
     \/ /\ policy' = PolicyRendered(policy)
        /\ UNCHANGED params
     \/ /\ policy.export = "none"
        /\ policy' = PolicyRendered(onExport(policy, params.url))
        /\ \E r \in ValuesOf["refresh"] \ {params.refresh} : params' = [params EXCEPT !.refresh = r]
  /\ UNCHANGED <<hook, mounted, renders, effect, fetches, shown, table, graph, form, playbook, posts, nav>>

(* Its requests, which go on when it is gone. *)
PolicyServed ==
  /\ IsPolicy
  /\ \/ \E r \in policy.requests :
          \/ ~r.served /\ policy' = SaveServed(policy, r)
          \/ r.served /\ mounted /\ policy' = SaveReplied(policy, r)
          \/ policy' = SaveFailed(policy, r)
     \/ /\ policy.export \notin {"none", "done"}
        /\ policy' \in {ExportServed(policy), ExportFailed(policy)}
  /\ UNCHANGED <<hookVars, table, graph, form, playbook, posts, nav>>

------------------------------------------------------------------------------
(* The steps of the hook, with the render of the widget after an answer. *)
AnswerReceived(f) ==
  LET states == Merged(hook, shown, State(f, TRUE)) IN
  /\ Answer(f, IF IsPage THEN WrapperParams(params.url, nav, nav.hash, states, TRUE) ELSE params)
  /\ UNCHANGED nav
  /\ IF f.isCanceled THEN UNCHANGED views
     ELSE /\ WidgetRendered(nav, nav.hash, states, TRUE)
          /\ form' = IF IsForm THEN SectionInfoSet(form, f.params.id) ELSE form
          /\ IF IsPolicy
             THEN \E messages \in policy.since :
                    policy' = TemplateAnswered(policy, f.params.url, messages)
             ELSE UNCHANGED policy

(* The Alert takes the place of NewsPosts. *)
FetchFails(f) ==
  /\ Fail(f)
  /\ posts' = IF IsNews /\ shown' # shown THEN NewPosts ELSE posts
  /\ UNCHANGED <<table, graph, form, playbook, policy, nav>>

(* The component gets other parameters; a page does by Navigate.  Only the *)
(* export of a policy has it refreshed.                                    *)
OtherParams ==
  /\ ~IsPage
  /\ IsForm \/ IsPolicy => renders < MaxNavigations
  /\ \E p \in Assignments(hook) :
       /\ IsForm => p \in BoxParams
       /\ IsPolicy => p.refresh = params.refresh
       /\ Render(p)
  /\ policy' = IF IsPolicy THEN PolicyRendered(policy) ELSE policy
  /\ UNCHANGED <<table, graph, form, playbook, posts, nav>>

(* The state of the widget goes with it; the requests of a form or policy  *)
(* go on.                                                                  *)
WidgetGone ==
  /\ Unmount
  /\ table' = Absent /\ graph' = Absent /\ playbook' = Absent /\ posts' = Absent
  /\ nav' = NewNav(Absent)
  /\ UNCHANGED <<form, policy>>

EffectRuns ==
  /\ RunEffect
  /\ policy' = IF IsPolicy THEN TemplateAsked(policy, params.url) ELSE policy
  /\ UNCHANGED <<table, graph, form, playbook, posts, nav>>

FetchEnds == \E f \in fetches : AnswerReceived(f) \/ FetchFails(f)

Next ==
  \/ OtherParams
  \/ EffectRuns
  \/ WidgetGone
  \/ FetchEnds
  \/ \E url \in Urls, hash \in Hashes : Navigate(url, hash)
  \/ Rerender
  \/ TimerFires
  \/ ChangeChannel
  \/ TableStep
  \/ GraphStep
  \/ FormStep
  \/ ChannelAdded
  \/ PlaybookStep
  \/ PostsStep
  \/ NewsStep
  \/ PolicyStep
  \/ PolicyServed

Spec == Init /\ [][Next]_vars

(* The browser runs effects and timers, and every fetch ends. *)
Fairness ==
  /\ WF_vars(EffectRuns)
  /\ WF_vars(FetchEnds)
  /\ WF_vars(Poll)
  /\ WF_vars(TimerFires)

FairSpec == Spec /\ Fairness

------------------------------------------------------------------------------
(* A link to a row, a post, or a part of a playbook turns the table or the *)
(* list to its page, or selects it, however late the data arrive: unless   *)
(* the user chooses another one or has the table sorted (the effect counts *)
(* the rows in their own order), an earlier one's id is part of the hash,  *)
(* or timers of an earlier link, or one that fires too early, clear it.    *)
(* A playbook whose data come after the link selects its defaults.         *)
LinkedPartIsShown ==
  LET parts ==
        CASE /\ IsTable /\ mounted /\ table.same
             /\ ~table.touched /\ table.sorter = Absent -> RowsOf(shown)
          [] IsPosts /\ mounted /\ ~posts.touched -> PostsOf(shown)
          [] IsPlaybook /\ mounted /\ ~playbook.touched -> ReferencesOf(shown) \o WorkflowOf(shown)
          [] OTHER -> <<>>
  IN
  /\ ~nav.rushed /\ ~nav.missed
  /\ \E i \in FirstContained(parts, nav.link) : parts[i] = nav.link
  => nav.link \in Elements

(* The page of the news that is marked as current is the one that was      *)
(* asked for, through links, clicks, searches and answers; unless a search *)
(* was made on a later page, the page chosen is that of another search's   *)
(* result, or an error has come in between (strayed).                      *)
NewsPageFits ==
  IsNews /\ mounted /\ ~NewsFailed(shown) /\ ~posts.strayed =>
    params.offset
      = (PageOnScreen(posts, calcTotalItems(shown), params.limit) - 1) * params.limit

(* The page scrolls to the element of the last link once it is there:      *)
(* unless timers of an earlier link are still running (rushed), or, as     *)
(* DOMReady is never reset, its own fires too early (missed).              *)
LinkIsReached ==
  []<>(\/ ~mounted
       \/ nav.scrolled \/ nav.rushed \/ nav.missed
       \/ nav.link \notin Elements)

(* The graph on the screen is that of the last answer, unless a target     *)
(* node made the effect of [data] put the former one back (kept).          *)
GraphFollowsData ==
  IsGraph /\ mounted /\ shown # <<>> /\ ~graph.kept => graph.of = Last(shown).params.url

(* The target node, and only it, is marked as such, its edges are coloured *)
(* and its neighbours marked, through fetches that overlap, links and      *)
(* clicks; unless a late answer brought the marks of an older link, or the *)
(* graph of a section that does not have the node was put back.            *)
TargetStandsOut ==
  IsGraph /\ mounted /\ graph.targetNode # Absent /\ ~graph.kept /\ ~graph.overtaken =>
    /\ graph.isUrlHashed = {graph.targetNode}
    /\ graph.stroke = graph.targetNode
    /\ graph.marked \ {graph.targetNode}
         = Neighbours(graph.of, graph.targetNode) \ {graph.targetNode}

(* A channel that is created under the name proposed has the name of its   *)
(* own section, once the section's info has been answered.                 *)
NameBelongsToSection ==
  IsForm =>
    \A c \in form.sent \cup form.created :
      c.named /\ c.name \notin Typed => c.name = c.section

(* A message that was removed from a stored policy does not come back, and *)
(* an exported policy stays exported: as long as removals are served in    *)
(* order, none is made from another section's, an unexported or a stale    *)
(* template, and none is under way when a template arrives (calm).         *)
RemovedStaysRemoved ==
  [][IsPolicy /\ policy'.calm => \A u \in DOMAIN policy.stored : policy'.stored[u] \subseteq policy.stored[u]]_vars
=============================================================================
