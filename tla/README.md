# Verification of HOOD Alliances

TLA+ models of the program under `src/alliances`, the TLC configurations that
check them, and TLAPS proofs. "Code" below is that program; paths are relative
to `src/alliances`.

## 1. The system

Alliances extends a Mattermost server for organizations that work together in
"ecosystems". It has three programs:

- **the plugin** (`all-data/server`, Go): lives in the Mattermost server, keeps
  two tables of its own (`CSA_Channel`, `CSA_Backlinks`) in Mattermost's
  database, changes channels, memberships, sidebar categories and posts through
  the Mattermost API;
- **the data provider** (`all-data-provider`, Go): a REST service with a
  PostgreSQL database (`CSFDP_*` tables) for issues, the ecosystem graph and the
  lock on that graph;
- **the webapp** (`all-data/webapp/src`, TypeScript/React): runs in each user's
  browser, calls both.

### Inventory

| Component | State | Operations | Hard behaviour | What makes it correct |
|---|---|---|---|---|
| Lock table (`repository/cache.go`) | one row: owner, expiry | GetLock, DropLock | the clock is read before the SQL that compares with it | a lease passes on only when it has expired |
| Ecosystem graph endpoints (`controller/ecosystem_graph.go`, `repository/ecosystem_graph.go`) | node and edge tables | get, refresh_lock (which saves), drop_lock | the lock is checked in one transaction and the graph saved in another; requests interleave, fail, get lost, overtake | the graph is replaced only under the lease |
| Ecosystem graph editor (`ecosystem_graph_wrapper.tsx`, `editable_graph.tsx`) | per mount: server copy, data to save, what is drawn, edit mode, lock status, interval, timeout | mount, load, edit, save, stop, unmount, two timers, the continuations of every `await` | stale closures, timers that outlive their component, replies that meet newer state, replies that never come | who may edit holds the lease; what was saved stays; every click is answered |
| Issues (`controller/issue.go`, `repository/issue.go`) | issue rows, child rows | create, update, delete | name check and insert apart; old items read outside the transaction that replaces them | an item's ID never means another item; unchanged items keep theirs; deleted issues stay deleted |
| Schema migrations (`config/db`, `server/sqlstore`) | schema, stored version, cluster mutex | run at every start | crashes, failed queries, servers that start together | the stored version tells the schema; a later start succeeds |
| Data hooks (`hooks/general.ts`) | per hook: what is shown, fetches in flight | effects run when dependencies change, answers and failures | answers come in any order, after newer fetches or after unmounting | the newest answer is what stays on the screen, and it comes |
| Hyperlinks and suggestions (`helpers/parser`, `hooks/suggestions.ts`, `helpers/posts.ts`) | the text typed, suggestions shown, requests in flight, the channel in the local storage | type, fetch, accept, post | suggestions and links are resolved by two separate descents through the same pages; fetches fail half way | an accepted suggestion links to what was suggested; a wrong reference does not stop a message |
| Issue wizard (`widgets/wizard`, `ecosystem_sections_widgets_container.tsx`) | the wizard's data, each step's own copy, chains of calls | open, walk through the steps, create, update, delete, leave, return | chains of calls to two programs that go on when the page is left | what is shown is what is sent; an issue has one channel as long as it lives |
| Organization membership (`app/event_service.go`, `lhs.tsx`, reset command) | channel memberships, the user's property `orgId`, the picker on the page | UserAdded, SetOrganizations, reset, archive; choose, confirm, close | loops of API calls whose errors are dropped, while channels are made and archived | the user ends in the channels of its organization and of no other; the page shows what is stored |
| Channel creation (`sqlstore/channel_store.go`, `single_channel_box.tsx`, `channel_box.tsx`) | `CSA_Channel`, Mattermost channels, the boxes' forms | create, add existing, archive | a Mattermost channel created inside an open transaction of another store; names and lists that arrive late | a channel has its section's name; its members are those of its organization |
| Sidebar categories (`app/category_service.go`) | a user's categories | clean, set up, migrate, add | a clean of a dozen calls, over an API without versions | a clean leaves a tidy sidebar |
| Widgets with a state of their own (`paginated_table`, `graph`, `cacao_playbook`, `social_media_posts`, `news`, `policy`, `hooks/browser.ts`) | page, order, search, selection, marks, the policy's template; timers, the hash and the previous hash | answers of the hook, links, clicks, pages, sorting, searches, removals, export | effects that run in every render over the closure of that render; timers that nothing clears | a link shows and reaches its element; one target stands out; what was removed stays removed |
| Backlinks (`app/channel_service.go`) | `CSA_Backlinks` | add on post, read, delete lazily | a failed read of a post counts as a deleted post | a link in a post is found from its element |
| Configuration, routing, slash commands, charts, build tools | none, or one guarded pointer | reads, formatting, wiring | none that a model checker reaches | |

### How they interact

The webapp's editor calls the provider's three graph endpoints over HTTP; only
other editors share that state. The issue wizard saves, updates and deletes
issues in the provider and adds and archives their channels in the plugin, in
chains that nothing makes atomic. The hooks read everything the pages show from
the provider and from the plugin, and the widgets react to their answers, to the
hash of the url and to the user; a user's messages pass through a hook that
fetches from both to turn references into links. The plugin reads configuration that bounds the
editor's delays (`ecosystemGraphAutoSave`, `ecosystemGraphAutoSaveDelay`). The
plugin and the provider have the same migration code over separate databases.
Channels, memberships, categories and backlinks are changed by HTTP handlers and
by Mattermost hooks of the plugin, all concurrent, with the database's transactions
and Mattermost's API as the only order. Within the provider every request is a
goroutine; the repositories share one connection pool and no lock.

## 2. Modules

```
LeasedGraph                      abstract: one lease, one graph
   ^ refines
CacheRepository                  the lock table
   ^ EXTENDS
EcosystemGraphProvider           the three handlers and the requests in flight
   ^ EXTENDS                 ^ EXTENDS
EcosystemGraphEditor         MCEcosystemGraphProvider
   ^ EXTENDS
MCEcosystemGraphEditor, EcosystemGraph_proofs

EditableGraph <- MCEditableGraph, EditableGraph_proofs
Migrations <- MCMigrations, Migrations_proofs
Issues <- MCIssues, Issues_proofs
IssueWizard <- MCIssueWizard, IssueWizard_proofs
HyperlinkReferences <- HyperlinkSuggestions <- Hyperlinks
   <- MCHyperlinks, Hyperlinks_proofs
SidebarCategories <- PluginChannels <- OrganizationMembership
   <- MCOrganizationMembership, OrganizationMembership_proofs

DataHooks <- PaginatedTable, GraphView, ChannelForm, Policy
PaginatedTable <- Playbook, Posts
all of these <- Widgets <- MCWidgets, Widgets_proofs
```

**CacheRepository** is `repository/cache.go` for its only key,
`ecosystem-graph`. `lockOwner` and `lockExpiresAt` are the row (`NoOne`: no row).
`CanLock` is the insert-or-update's condition, with the clock that was read
*before* it; `DropLock` deletes by owner whatever the expiry.

**EcosystemGraphProvider** adds `graph` (the node and edge tables) and `call`,
the requests in flight. A handler is as many steps as it has points where other
requests can come between: `GetLockReadClock`, then `GetLockGrant` or
`GetLockConflict` (the transaction of the lock), then `SaveEcosystemGraph` (the
transaction of the graph), or `DropLockEcosystemGraph`. `DatabaseError` may
happen instead of any of them; what was committed before it stays.
`LoseRequest` loses the request before it arrives or its answer after. `older`
gives each request those of the same client it has to wait for when `InOrder` is
TRUE. `MaxRoundTrip` bounds the life of a request.

In this module a graph is the set of edits it carries over the graph the system started with,
which has at least two nodes, so that a payload that holds it is never empty of
nodes. This is enough to tell which work a save stores and which it overwrites.

**EcosystemGraphEditor** is one mount of `EcosystemGraphWrapper` per client,
over the provider's `call`; two clients may be of one user. `editor[c]` is the
component's state and refs; `pending[k]` is the function that awaits request
`k`, with the data its closure captured. The actions are the code's event
handlers (`ClickEdit`, `ClickSave`, `ClickStop`, `AddElement`, `ChangeNode`),
effects (`Load`, `Destroy`), timers (`IntervalFires`, `BusyTimeout`) and
continuations (`AfterRefresh`, `AfterClosingSave`, `AfterDrop`, `Throws`). What
each closure sees is modelled: the interval reads the newest data through
`updatedDataRef`; `Destroy` is the first render's cleanup, whose `intervalID` is
undefined, so it never clears the interval; `AfterRefresh` resets `updatedData`
to what was *sent*.

**EditableGraph** is one mount of `EditableGraph` inside its wrapper, with the
graph's structure instead of time and the lock: nodes with parents, edges, the
two copies that every handler changes in its own way (`shown` is what ReactFlow
draws, `updatedData` what the wrapper saves), the effect that takes the parent's
data, the save menu, and the provider's two tables with their foreign keys. Both
modules have the chain of calls of a save: `EcosystemGraphEditor` asks who may
save when, `EditableGraph` what is saved. `spoilt` is set in the three cases
in which the code lets the two copies come apart: an edit between a save and its
reply is shown but no longer in the data to save; ReactFlow's Delete key works
at any time and on `shown` only; two nodes joined twice get an edge that is saved
but not drawn.

**Migrations** is `RunMigrations` of both programs. A version is counted, not
spelled; a migration is the set of objects it makes, split by whether their
statements carry `IF NOT EXISTS`. One migration is one transaction, which is
what PostgreSQL makes of it: `Migrate` commits objects and version together, or
`MigrateFails` rolls back and the process gives up. `GetCurrentVersion` reads
outside any transaction; `GetCurrentVersionFails` is the query that fails, which
the code takes for a new database. `ProviderScript` and `PluginScript` are the
two lists of migrations. Without the mutex, two transactions that meet wait for
each other's locks, so their order is that of their commits, and one of them may
get an error, which is a `MigrateFails`.

**Issues** is `controller/issue.go` over the tables of `repository/issue.go`.
Outcomes, attachments and roles are treated by the same code three times and are
one kind of `Item`: a content and an ID. None of their tables has a primary key;
rows that agree in everything are one element of `item`. `SaveIssue` and
`UpdateIssue` are the handlers up to their transaction: the look for the name,
or the read of the old items, which may fail unnoticed (`old` is then empty).
`StoreIssue` is the transaction of either, one step because it starts with a
write to the issue's row, on which other transactions on that issue wait; or
`StoreFails`. `FillIssue` says which IDs `fillIssue` may choose: new ones that
were never returned before, which is what `GenerateUUID` is for, or that of an
old item of the same content. `DeleteIssue` stamps the row and leaves the items.
An update is of the issue that its URL names, as the webapp sends it.

**DataHooks** is one component with any of the hooks of `hooks/general.ts`
that fetch in an effect. A hook is a record of data: the parameters that it
reads, those its effect depends on, those it needs before it fetches, how an
answer is merged with what is shown, and what a failure does. `Render` gives it
other parameters, `RunEffect` cleans up after the last run (the flag `isCanceled`
of its closure) and fetches, `Answer` and `Fail` are the continuations of any
fetch in flight, in any order. `DataHook` is the set of all 22.
`useChannelById` ignores the flag in its `catch` (`general.ts:683`), so that a
late failure replaces what a newer fetch brought; it is described in the module
and left out of the run and of the theorem, for `LatestAnswerStays` would fail.

**Widgets** is a page with one widget over such a hook, and the url's hash. The
widget's own state is in a module each, as pure functions from its state to the
next; `Widgets` says when they are applied. A render, an answer and a click are
one step together with the effects that React runs after them, as no timer or
answer comes between. `PageRendered` and `TimerFires` are `hooks/browser.ts`:
the search for the element in the DOM, the timers that scroll, keep the hash in
the local storage and clear it.

- **PaginatedTable**: the page of the table, the search, the column antd sorts
  by, and the effect that turns the page to the row of the hash. antd keeps the
  sorting to itself: a click on a column renders neither the component nor its
  effects, and it leaves the number of the page. A column's order is a rank for
  every row (`Sorters`), and `Position` is where antd's stable sort puts a row.
- **Posts**: `SocialMediaPosts`, and `News` with its query in the wrapper and
  its page in `NewsPosts`, which is mounted anew after an error.
- **Playbook**: the two selects of `CacaoPlaybook`, whose defaults come after
  the data and whose links come with the hash.
- **GraphView**: `Graph`, its target node, the marks on the nodes, the colour
  of the edges, and the three effects that write them; `kept` and `overtaken`
  say when they have put an older graph or older marks back.
- **ChannelForm**: `SingleChannelBox` and `ChannelBox`, the proposed name, the
  list of channels, and the requests to create one.
- **Policy**: the template as changed in place by removals, the requests that
  send it, the export; the server's templates.

**SidebarCategories** has what `category_service.go` makes of a sidebar, as
operators on sets of categories. **PluginChannels** adds the tables and the
handler that creates a channel, a step for every call of the Mattermost API that
another handler can tell apart: the search for a name, `CreateChannel`, the
members, the row, the category. **OrganizationMembership** adds
`SetOrganizations`, `UserAdded`, the reset command and `LHSView`'s picker, call by
call as well. The clean of the sidebar, which both handlers run, is twelve steps
(`CleanStep`): the categories are read by the caller, the rows by the clean; each
row without an organization is linked; the organization is read and decides
between setting up and purging. Setting up reads the categories again, creates
those missing one by one, reads them a third time and writes them, filed by the
rows that were read before the linking. Purging creates the ecosystem's category
if the caller saw none, reads the rows again, empties the categories the *caller*
read, and deletes them by a statement on Mattermost's own tables. Steps of other
handlers come between any two of these. What a handler has read is in its `call`
(`cats`, `rows`, `todo`) for as long as the code uses it.

Each call may fail; where the code drops the error the handler goes on (the
members joined and left, a row that cannot be linked, a category that cannot be
created), and elsewhere it ends where it is. Mattermost lists users and public
channels by the page, and the code asks for one page of 200: `UserPages` and
`ChannelPages` are what that page may hold. A user of an organization who is
beyond the page when a channel of it is created is never added to it
(`channel_store.go:329`), and no call fails. `spoilt` names the users for whom
the code itself breaks the rule, with the channel for which it does, or with the
reason in the comment of the property. It is not empty at first when a channel's
organization is still implicit: a user who chose a single organization before that
channel had its row is not in it, and the clean that gives the row does not join
anybody.

**HyperlinkReferences**, **HyperlinkSuggestions** and **Hyperlinks** are the
two halves of hyperlinks. A reference is a sequence of tokens, names of things
and free texts; `Includes` and `Starts` say which text contains or begins which.
`HyperlinkReferences` is `posts_parser.ts` with the parsers of all widgets: it
descends from organization to section, object, widget and element, and ends in
a link or in an exception (`Thrown`), also when a fetch fails.
`HyperlinkSuggestions` is `suggestions_parser.ts` with its own parsers of the
same widgets; a suggestion carries the thing it stands for. `Hyperlinks` is the
text box and the tabs: typing, the requests for suggestions in flight, accepting
one, switching channel (which writes the local storage that the parsers read)
and posting. The page's side says which anchors a page shows, so that a link
that leads nowhere is told from one that leads to its thing.

**IssueWizard** is the wizard's window, the two pages that have it, and the
chains behind its buttons: save and add the channel, update, delete and archive.
`wizardData` is what is sent, `local` the copy that the step on the screen made
when it was mounted. A chain goes on after its page is left; `Lost` ends
it, since the error of a lost connection is no JSON and makes the handler of the
error throw. The provider's handlers are one step here, their detail being in
`Issues`. One user is enough to interleave chains, since they outlive the
wizard; two tabs race in the same way. Error messages are left out.

Operators that follow the comment "Mutant:" are not part of the specifications:
each is a plausible bug in the definition after it, used to see that a property
notices.

## 3. Runs

| Run | Instance | Shows |
|---|---|---|
| `provider` | 2 users, 2 requests in flight, database errors, losses | types; `LeaseRespected`; `SaverHoldsLock`; the handlers implement `LeasedGraph` |
| `editor` | 2 users, each with or without autosave, 2 requests, clock to 5 | `EditorHoldsLock` under autosave and by `refreshLock` alone; users who only look change nothing |
| `editor_live` | 2 users, errors, clock to 3 | a click on Edit is answered; Busy is reset; the chain of a closing save ends |
| `graph` | 3 nodes, 2 edges, 2 edits, 1 failed or lost request | what is shown is what is saved, it breaks no foreign key, and autosave stores it in the end |
| `migrations` | 2 servers, mutex, read errors, database errors, crashes | `SchemaMatchesVersion`, `VersionNeverGoesBack`, `UpIsMigrated`, every server comes up |
| `issues` | 2 issues, 2 requests, 3 UUIDs, 2 contents of up to 2 copies, failures | `ItemIDsMeanOneItem`, `DeletedStaysDeleted`, `UnchangedItemsKeepID` |
| `wizard` | 1 user, 2 issues, 1 fault, 1 edit, leaving and returning | `AChannelPerIssue`, `WhatIsShownIsSent`, `UntouchedPartsSurvive` |
| `widgets` | any hook with its widget, 2 urls, 3 hashes, 1 navigation, 2 changes of parameters | the nine properties of the hooks and widgets |
| `hyperlinks` | 3 channels, 1 switch, references of up to 7 tokens, 2 requests, failed fetches | `AcceptedLeadsThere`, `WrongReferencesStillPost` |
| `membership` | 1 user, 2 organizations and the ecosystem, 4 channels, pages with and without the user and the new channel, 2 requests, 1 failure | `MembersFollowOrganization`, `PickerShowsStored`, `CleanTidies` |

Two runs show a disagreement of the code with what it says of itself:

| Run | Property that fails | How |
|---|---|---|
| `editor_stale_save` | `SavedWorkSurvives` | unmounting an editor that never held the lock takes it and saves the copy loaded at mount over newer work |
| `migrations_read_error` | `FailedReadIsTransient` | one failed query of the version at start makes every later start fail |

The properties:

- `LeaseRespected`: the lease changes owner only after its expiry.
- `SaverHoldsLock`: a handler about to save still holds the lease it checked in
  an earlier transaction. This is not obvious: another request of the same user
  could drop it, or it could expire. It holds because requests of a client are
  in order, a round trip is shorter than the extra lease time, and the lease is
  bound to a user with one client. `LeasedGraphSpec` is the same as refinement.
- `EditorHoldsLock`: relates the browser's belief to the provider's table
  through two timers, their replies and the clock.
- `SavedWorkSurvives`: edits only add here, so a save that removes one
  overwrites work.
- `ViewersChangeNothing`: what the provider sees of a client that only looks.
- `EditAnswered`, `BusyClears`, `ClosingEnds`: liveness of the editor, checked
  with failed requests. When the answer to the first lock request is lost, only
  a later tick of the interval ends the wait; the wrapper arms it in edit mode
  with autosave (`updateGraph`) and without (`refreshLock`). No property says
  that edit mode is entered on a grant only, as the comment at
  `external_client.ts:196` has it: line 202 takes every failure but a 409 for the
  grant, and what is left without failures is that line. Such an editor stores
  nothing over another's lease, since each save asks for the lock (`SaverHoldsLock`).
- `WhatIsShownIsSaved`, `GraphIsSound`, `EditsGetStored`: every handler of the
  editable graph changes two copies by two rules (a deleted node's children go to
  its parent, its edges go). The copies agree up to what is sent, and the copy
  that is sent breaks no foreign key: such a save would be refused, and the user
  told "Saved!" all the same. All three except `spoilt`.
- `SchemaMatchesVersion`, `VersionNeverGoesBack`, `EveryServerComesUp`: the
  three parts of "a failed start leaves nothing behind". All three are stated
  for as long as no read of the version has failed, as `migrations_read_error`
  shows they must. `UpIsMigrated` holds even after that, and without a mutex.
- `LatestAnswerStays`, `CatchesUp`: what is shown comes from no fetch older than
  one whose answer was shown, and once the parameters rest, the screen follows
  them (or the failure of their fetch). `CatchesUp` is about the parameters an
  effect depends on; a hook that reads more (the URL of `useSectionInfo`, the
  limit of `useNewsPostData`, the type of `useChartData`) does not notice a
  change of that alone.
- `LinkedPartIsShown`, `LinkIsReached`: a link to a row, a post, a step or a
  reference turns the page or selects it however late the data come, and the
  page scrolls there. Excepted are the user's own later choice (`touched`), a
  table that is sorted by a column, since the effect counts the rows in the order
  of the data and antd shows them in another (`paginated_table.tsx:207`; the page
  that comes is then the wrong one, and the run finds it if the exception is left
  out), an ID
  that is part of another hash (`same`), a link followed while timers of an
  earlier one were running (`rushed`), and one whose timer fires before its
  element is there, since `DOMReady` is never reset, or while the posts it is
  among are about to be replaced (`missed`).
- `GraphFollowsData`, `TargetStandsOut`: three effects write what is drawn. The
  exceptions are the code's: the effect of `[data]` marks the nodes of its
  closure and puts them back over those it has just set (`kept`), and the marks of
  an answer may be those of an older link, or of a node that the graph put back
  does not have (`overtaken`; the second case shows with three navigations only).
- `NewsPageFits`: two components keep a page and an offset, and four events move
  them. `strayed` is a search made on a later page, a click on a page of another
  search's result, or an error in between.
- `NameBelongsToSection`: for channels created under the name proposed and after
  the section's info came. That a section gets no second channel is not stated:
  the form is there until the list of the section's channels has come, and after
  that it is a guard of the form.
- `RemovedStaysRemoved`: `calm` excepts removals that are served out of order or
  made from a stale, unexported or another section's template, and a template
  that arrives while one is under way.
- `MembersFollowOrganization`, `PickerShowsStored`, `CleanTidies`: the first
  relates a stored property to memberships that a loop of calls changes before
  it, the second the page to the property, the third a sidebar to the channels'
  rows at the end of a clean's calls. `spoilt` has the exceptions: a failure in
  the loop, two choices at a time, a channel that is half created or whose
  organization is implicit while the channels are listed, and, for that channel
  alone, one created when the user was beyond the page of users; for the page, a
  choice that fails, two at a time, a choice before the properties came, and a
  reset. `CleanTidies` is about a clean that ends over the sidebar, the rows and
  the user's channels that it read last and wrote: one that something changed
  meanwhile loses the change or fails. It has exceptions of its own. For a user of
  all the organizations an organization keeps its channels in the default category
  if its own could not be created, or was deleted by another clean of the user, a
  purge that was slow (`"purged"`). For any other user a channel of the ecosystem
  that was in a category which is purged falls back to the default one: the code
  moves those of the default category only, and empties the others. And a purge
  that had to create the ecosystem's category moves the ecosystem's channels into
  a value that it never writes (`category_service.go:329` and `:348`), so they
  stay in the default category until the next clean.
- `AcceptedLeadsThere`: the two descents agree. It is stated for suggestions
  that belong to the text they are accepted in (answers to two keys may come in
  the other order, and a failed fetch leaves the suggestions of the level
  before), for a channel that no other tab switches between the two reads of the
  local storage, and for names of which none begins another, since the parsers
  take the first thing whose name starts with the text. Widgets without a parser
  of their own are suggested, and link to the object.
- `WrongReferencesStillPost`: an exception half way leaves the message's text.
  Excepted are an empty reference, a channel without a section and a channel
  that cannot be fetched, which do reject the message.
- `AChannelPerIssue`: once no chain is under way, the issues that are not
  deleted are the ones with a channel, one each. Excepted are issues one of
  whose calls failed, for nothing repairs them: an issue whose channel could not
  be added keeps none, since a retry is told that the name is taken;
  `DeleteIssue` answers 200 when it fails, and the channels are archived; a
  deletion by somebody else between the two calls of a creation leaves a live
  channel.
- `WhatIsShownIsSent`: except for the step in which the organizations arrive
  while the user types, after which the shown step keeps an input that the data
  has lost.
- `UntouchedPartsSurvive`: for wizards that were filled. Before the
  organizations are loaded the wizard of an issue is empty, and Update stores
  that.
- `ItemIDsMeanOneItem`: hyperlinks carry the IDs of items. An update that read
  before others were stored writes back IDs that have gone out of use; they must
  not have come to mean something else.
- `DeletedStaysDeleted`: an update that read before the deletion comes after it.
- `UnchangedItemsKeepID`: the comment of `fillIssue`, for an item that is the
  only one of its content and an update whose read did not fail and that no other
  one overtook. No condition can be dropped: copies of a content all get one ID,
  updates that overlap may bring back an older ID, and an update whose read failed
  renews all IDs.

### Bounds

- *Clients and users.* The lock is a matter of two owners; a third user only
  repeats the second. (The theorems are for any number.)
- *`Calls`* is the number of requests in flight at once. Two let every pair of
  handlers interleave, one user's save with another's lock or drop. The runs
  with liveness use one to stay without symmetry; the editor's own callbacks
  still interleave around it.
- *Time.* One unit is the longest round trip (`MaxRoundTrip` = 1). The lock's
  extra time is one unit too, the least that covers it (the code has 30 seconds
  for a round trip of seconds); the interval is two units and the maximum one or
  two, so that leases expire, are renewed in time, and delays above the maximum
  occur. `MaxTime` lets an interval fire at least twice in `editor`, and a lease
  expire and be taken by another in all runs. The states that are lost are those
  in which more time passed.
- *`Edits`.* Two edits tell a save with one of them from a save with both.
  Where no property looks at the graph there are none.
- *`graph`*: two edits make a node and delete or change it, or join two nodes
  twice; one request at a time, since the lock's owner is not in question and
  the edit between a save and its reply still happens; one fault.
- *`issues`*: two requests are what overtaking takes; three UUIDs let an issue
  with two items have one renewed, or two issues an item each and one renewed. A
  request for which no UUID is left can only fail. Names are one, since no
  property tells them apart.
- *`MaxFaults`* in `migrations`: one failed read, one failed transaction, two
  crashes: a crash of a server that was restarted after a crash is included.
- *`Failures`* is empty in `editor`: the client takes every failed reply but a
  409 for a granted lock (`external_client.ts:202`), so `EditorHoldsLock` is true
  only while no request fails. One case is not a rare one: a configured
  delay over the provider's maximum of 30 minutes makes every lock request fail
  with 500. The run has one client per user for a similar reason: the lock is the
  user's, and closing one of a user's two editors drops it under the other.
- *`widgets`*: two changes of the parameters put three fetches in flight, which
  is what an overtaken answer that was itself overtaken takes; one navigation
  makes a first and a second link; a row, post or node to a page, so that every
  element has a page of its own; one column, which sorts the rows of both tables
  the other way round; two removals and two creations overlap.
- *`membership`*: one user, as no rule relates two; a channel of each
  organization, one of the ecosystem and one to be created; one archived, that of
  an organization or the one that was created (which may be public); two
  requests of any kind at a time, one failure anywhere. A page of users has the
  user or not, and a page of public channels the new channel or not: where the
  page ends decides nothing else. `Resettable`: an administrator resets only users
  of the organization `A`, the one new channels may belong to and that has a row at
  first; every other reset leads to the same record, without an organization, and
  leaving them out keeps the states few.
- *`hyperlinks`*: one typed piece (`MaxTyped`) in an otherwise accepted
  reference; seven tokens reach the deepest element; two requests overtake.
- *`wizard`*: two issues, two good names and a bad one, two elements of which
  one is in the list to choose from, two slots for chains; one edit, one further
  visit and one fault let every pair of chains meet in every order.
- `CHECK_DEADLOCK FALSE` in every run: a system whose clients have left, whose
  clock has reached `MaxTime` or whose servers are all up does stop.
- `SYMMETRY` over request identifiers, in `issues` also over IDs and contents,
  which are only compared; in no run with liveness.

### In order or not

`InOrder` TRUE says that a client's requests are served and answered one after
the other. The browser does not guarantee it: it may use two connections. It is
what happens as long as a user waits for an answer before closing, since the
interval is minutes and a round trip seconds. All runs assume it, and so do the
theorems that name `OneRequestAtATime` or `EditorsKeepTheirLeases`; without it `SaverHoldsLock` is false
(`drop_lock` served between the two transactions of a save). `LeaseRespected`
and the types are proved without it.

A timer fires in the instant it is due, its lateness being counted in the round
trip, and no client loads a graph in more than one step.

## 4. Fairness

`EcosystemGraphEditor!Fairness`: weak fairness of serving a request and of
continuing after an answer (goroutines are scheduled, and the event loop runs
resolved promises), and of loading; strong fairness of timers and of the clock,
for either can be disabled for an instant by other activity but comes back. No
fairness for any user's action, for losing a request or for errors.

`Migrations!Fairness`: weak fairness of each server's next step, `OnActivate`
included (a plugin that failed is activated again, and a container restarted),
strong fairness of `Lock`, since the cluster mutex polls, and weak fairness of
the mutex's expiry. None for failures, and these are bounded: the claim is that
servers come up once failures stop.

`Widgets!Fairness`: weak fairness of running a due effect (React does so after
the render), of the end of every fetch, by an answer or a failure, of the poll
for an element (`useDOMReadyById` arms a timer in every render until it is there)
and of timers.

`EditableGraph!FairGraphSpec`: weak fairness of serving a request and of its
continuation, strong fairness of the interval, which is disabled while the one
slot for requests is taken. None for edits, clicks or faults.

## 5. Proofs

All theorems hold for every value of the constants, with the modules' named
assumptions, none of which says more than the code's constants and IDs do (a
user ID is not the absent owner, a delay is a natural number, ...).

**EcosystemGraph_proofs**, about the provider first. The lemmas `ServeFrame`,
`ServeOwn`, `ClientFrame` and `ClientOwn` say once what a step does to its own
request and to the others; all proofs about the provider and the editors use
them instead of the actions.

- `ProviderTypeCorrect`. `ProviderTypeOK` is not inductive: that `graph` stays a
  set of edits needs that the request being saved has nodes, which is
  `SavesNodes`, an invariant of its own.
- `LeaseIsRespected`. The inductive invariant is `TimeInv`: a request lives
  between its sending and `MaxRoundTrip` later (`InTime`), and the clock a
  handler has read is not in the future (`ClockRead`). Then a lease that was
  over by that clock is over now.
- `SaverHoldsTheLock`, assuming `OneRequestAtATime`. The inductive invariant
  adds: of two requests of a client one waits for the other (`Ordered`), a
  request being served waits for none (`StartedIsOldest`), and a handler about
  to save holds a lease that lasts as long as its request can
  (`GrantedHolds`). The grant takes it: expiry is the clock plus the delay plus
  the extra time, the clock is after the sending, and the extra time covers a
  round trip. Afterwards only the owner's own requests could take it away, and
  those wait.
- `ProviderImplementsLeasedGraph`, under the same assumption: every step of the
  handlers is a step of `LeasedGraph` or leaves its variables alone. The save
  needs `SaverHoldsLock`, the grant `ClockRead`.

**Migrations_proofs**: `MigrationsTypeCorrect`; `ServersServeACompleteSchema`,
by the invariant `Covered` (nothing is ever dropped, and the database has all
that its version, and each server's belief, stand for); `SchemaFollowsVersion`
and `VersionOnlyGrows` under `UseMutex`, by `Exclusive` (who reads or migrates
holds the mutex) and `InStep` (so its belief is the stored version).

**Issues_proofs**: `IssuesTypeCorrect`, `DeletionIsFinal`, and
`ItemIDsAreUnambiguous`. That the *stored* items have distinct IDs is not
inductive, since an update may write back what it read long ago. The invariant
is `ItemIDsMeanOneItem` over `Known`, the stored items and those that requests
have read, with `Generated`: every known ID has been returned by `GenerateUUID`,
so that a new one is none of them. `UnchangedKeepTheirIDs` follows from the same
invariant (`OnlyOldKeepsID`): the ID an update looks up for a content is that of
the one item that has the content.

**EcosystemGraph_proofs**, about the editors, for any number of clients and
requests:

- `EditorImplementsProvider`, without an assumption: every step of the editors
  is a step of `ProviderSpec` or leaves its variables alone. What is proved of
  the provider's clients holds of these.
- `ViewersChangeNothingTheorem`, assuming `OneRequestAtATime`. `SessionInv` says
  what a browser has under way: before its first click on Edit an editor has no
  request (`Dormant`), a request that carries a graph or a delay belongs to an
  editor that has clicked or is gone (`RequestsOK`, `LockNeedsSession`). With
  `LeaseInv`, a step that changes the graph or takes the lease is then that of a
  session.
- `EditorHoldsTheLock`, assuming `EditorsKeepTheirLeases`: `OneRequestAtATime`
  and `NothingFails`, that no request fails and the configured delay is one the
  provider takes. Both parts of the latter are needed, since the client takes
  every other answer than a 409 for a grant; with them it enters edit mode on a
  grant (`EditModeEntered`). That an editor's lease is unexpired is not inductive: a tick of the clock
  must not end it. `Held(c)` says that it lasts until the next refresh, or one
  that is under way, has made its round trip; `EditorInv` has it for whoever was
  granted a lock and not yet told so (`GrantedIsHeld`) and for whoever may edit
  (`AcquiredIsHeld`), with what keeps the refreshes coming: no interval is late
  (`IntervalAhead`), answers come in order (`AnsweredInOrder`), and a request that
  is awaited is followed by another in time (`Covered`).

The steps of the browser are of six kinds (`EditorStepKinds`: `Local`, `Sent`,
`Answered`, `AfterClosingSave`, `ServeOrLose`, `Elapse`), and every invariant is
proved once per kind.

**Widgets_proofs**, for any hooks, parameters, graphs, news, policies, and any
number of fetches, links and clicks:

- `LatestAnswerStaysTheorem`, assuming `useChannelById \notin Hooks`. `HookInv`:
  of the fetches in flight at most one counts (`OneFetchCounts`), the rest have
  their flag set; no two have the number of one run, and the one that counts is
  younger than what is shown.
- `NameBelongsToSectionTheorem`, by `FormInv`.
- `GraphFollowsDataTheorem` and `TargetStandsOutTheorem`, by `GraphInv`: after
  each of the three effects the target stands out or an exception is recorded. The
  proof found the second case of `overtaken`, which the run's one navigation does
  not reach.
- `RemovedStaysRemovedTheorem`, by `PolicyInv`: of the removals that are under
  way each later one sends less (`RemovalsShrink`), and what is sent is part of
  what is stored (`NothingBack`).
- `NewsPageFitsTheorem`, by `NewsInv`: the page in `NewsPosts` and the offset in
  the wrapper's query agree before and after every render (`PageAsAsked`), which
  is arithmetic on pages and offsets.
- `LinkedPartIsShownTheorem`, by `LinkInv`, for tables, playbooks and posts of any
  length, sorted or not, and any hashes and ids that contain each other. `NavRight` follows the
  hash: until a timer clears it the url has the last link's, and unless timers of
  an earlier link were still armed, all timers and the previous hash are its.
  `PartsOK` says of the last link that is followed that each widget fits it
  (`TableFits`, `PostsFit`, `PlaybookFits`): the page that shows is that of the
  first part whose id the hash contains, whatever the order in which data, the
  link and renders came. The hard case is a link whose hash has been cleared: an
  answer that comes then moves the part to another page and no effect follows.
  The invariant has the part in the rows already (later rows are appended, and
  do not move it), and no fetch of posts that still counts. The proof found that
  the property, as the run had checked it, was wrong for a post that two sections
  have on different pages when the timer fires before the new section's answer;
  `TooEarly` now says so, and the run has such a post. That a table's rows are the
  answers' rows one after the other (`RowsOfMore`) is an induction over a set of
  numbers, as in IssueWizard_proofs.

Assumptions on the constants: a hook is one of the 22 (`HooksAssumption`), a
section has an ID (`SectionAssumption`), a page of news has room for one and a
search finds a list (`PostsAssumption`); rows, steps, references and posts come
in lists, a column ranks the rows, and an empty hash contains no id
(`RowsAssumption`, `PlaybookAssumption`).

**EditableGraph_proofs**, for any identifiers, contents, requests, edits and
failures: `GraphTypeCorrect`, `WhatIsShownIsSavedTheorem` and
`GraphIsSoundTheorem`, by `GraphInv`. That the two copies stay in step follows
from the types, edit by edit: each changes both, or marks `spoilt`. Soundness is
not inductive. Deleting a node gives its children to its parent, and if a node
could be inside itself, or two inside each other, the deletion would leave a
child that refers to the node deleted. `Sound` therefore says that a node's
parent is a node (`Inside`), that of any set of nodes one is inside no other of
the set (`Acyclic`, well-foundedness without recursion), and that an edge's ends
are nodes (`Joined`); and `SoundInv` has the last for what is on the way to the
provider and for what it has answered, since an answer becomes the graph.

**OrganizationMembership_proofs**, for any users, organizations, channels,
requests in flight and failures:

- `MembersFollowOrganizationTheorem`. Four handlers meet in this property and
  `MembersInv` has a part for each. `ChoosersFollow`: a user in the middle of
  `SetOrganizations` is in the right channels but for those of the list still to
  be joined or left, and that list has the organizations the channels have now.
  `CreationsFollow`: the members of a channel being created and those still to
  be added are the users of its organization, but for those beyond the page of
  users (`Missed`), and nobody lists channels meanwhile unnoticed; then
  `InsertRow` makes it a channel of the organization without anyone having to
  move. `JoinersOK`: what `UserAdded` joins belongs to no organization.
  `LinkersOK`: a channel that a clean is still to give its organization has none,
  or has it already from another clean (`Linkable`). `SettledFollow` is the
  property for everybody who is not in the loop of `SetOrganizations`. The proof
  is one lemma per step; steps that change neither channels nor members are all of
  one kind (`HarmlessKeeps`, `QuietKeeps`), and so are those of a clean that only
  read or change the sidebar (`CleanStepKeeps`).
- `PickerShowsStoredTheorem`, by `PickersFollow`. The page believes three
  sources: the properties fetched at first, the user's own choice, which is shown
  before the plugin has stored it, and the answer to a password. `ChoicesOK`
  says for each why it cannot be out of date: at most one choice is on its way;
  a choice that is shown early is the one on its way; and all the organizations,
  which alone need the password, are stored only over none or over themselves
  (`GetUser` refuses a user of an existing organization), so that properties
  fetched before, or a modal closed while its answer is awaited, do no harm.
- `CleanTidiesTheorem`, by `SidebarInv`. A clean writes by ID what it read some
  calls before, creates categories one at a time, and deletes by ID. `CatsOK` says
  that IDs tell categories apart in every sidebar and in everything a handler has
  read, that no category of an organization is the default one, and that no ID is
  over the last one given, so that a category created next gets one of its own
  (`CreatedOK`). `ReadOK` adds, for the clean of a user of all the organizations,
  that each organization has a category or is one of those to be created, and at
  the end that it has found one for each, unless a call failed or another clean of
  the same user has purged it (`Excused`). What the other handlers may do to
  a sidebar between two calls is one formula for all of them (`SidebarsGo`):
  categories keep their names, a new one has a new ID, and none is lost to whoever
  creates the missing ones unnoticed (`Evolves`). `FilingFiles` and `PurgingPurges`
  are then facts about the two updates: a channel that is in none of the categories
  written is seen in the default one, and which channels that can be is the content
  of the property. `FilingTidies` and `DeletingTidies` state them of the last
  steps of the two kinds of clean, and `OnlyTheLastEnds` that no other step is one.

Assumptions: the ecosystem is an organization, and no organization, no row and
all of them are none; organizations and channels are finitely many, and no
organization is called "Channels" as Mattermost's default category is; the pages
that Mattermost returns are sets of users and of channels, any of them
(`OrganizationsAssumption`, `PluginAssumption`).

**IssueWizard_proofs**, for any users, issues, names, elements, edits, visits,
failures and number of chains under way:

- `AChannelPerIssueTheorem`, by `ChannelInv`. The property speaks of issues with
  no chain of theirs left; the invariant says what it is that each chain under
  way still owes. At most one chain creates an issue's channel (`OneCreation`),
  and the issue has its channel when that call has been answered, not before
  (`CreationOK`); a deletion that has archived leaves no channel (`DeletionOK`);
  and `Complete` is the property with what the chains still owe: a deleted issue
  whose channel lives is one that some chain will archive (`WillArchive`).
- `WhatIsShownIsSentTheorem` and `UntouchedPartsSurviveTheorem`, by `WizardInv`.
  The parts a user has not touched since the wizard was opened are those
  `refreshWizardData` filled in (`AsPrefilled`), in every wizard, through every
  cancelled or refused edit, and in every update that was sent (`SentOK`).
  Sending drops blank items, so this needs that what is stored has none
  (`NoBlanks`), and that dropping them twice is dropping them once.

The last is a fact about a recursive definition, `Without`, and is proved by
induction although no induction theorem of the library can be used: the numbers
for which it holds are a *set*, a set of naturals that is not empty has a least
member (`NatMin`, from the library's `WFMin`), and so a set with 0 and every
successor is all of `Nat` (`Induction`). `Without` is in the model in place of
`SelectSeq`, whose definition the provers cannot expand.

**Hyperlinks_proofs**, for any configuration, objects, widgets, contents, texts
and channels, and without the bounds of the run:
`WrongReferencesStillPostTheorem`. The parser catches every exception, and what it
gives back is what was resolved before it. A reference that does not start with
the name of the channel's object needs an organization to become a link, and has
one or is nothing at all (`ReferenceHasOrganization`): whatever the parser of a
widget does, it only adds an anchor or an object to a reference (`WidgetNarrows`,
also through the accordion, whose elements are parsed again with a reference of
their own). One that does start with that name is made absolute, and needs an
object or an anchor. That it has one (`RhsReferenceIsFound`) is where the two
halves of the code meet: `parseRhsReference` finds the organization and the section
by ids and writes their *names* into the reference, and the parser finds them
again by name. So the theorem has two hypotheses, which the instance of the run
satisfies: names tell organizations, and the sections of one, apart and an id all
sections (`Unambiguous`), and the channel of an object has the ids of a section and
of one of its objects (`ChannelsHaveObjects`). Nothing in the code enforces
either: of two organizations with one name the first is found, in which the
section may not exist, and then the message of the second is rejected.
`MessageInv` adds what the message takes from the composer and from the storage.

Six more theorems of the module are the core of `AcceptedLeadsThere`: for each
type of widget that has parsers, the parser of the suggestions and the parser of
the posted reference, which are written independently and share only texts, agree
for *any contents*: whatever text `s` is suggested after the tokens `before` (with
a hint, or right after the separator), what the posts parser finds for `before`
and the tokens of `s` is a thing that was suggested by that text (`Leads`).
`ListSuggestionsLeadThere` goes through the cut of long texts and through separators
inside a text; `TimelineSuggestionsLeadThere`, `TableSuggestionsLeadThere`,
`RolesSuggestionsLeadThere` (cells with several values),
`ElementsSuggestionsLeadThere` (cells computed from the elements, descriptions
matched by how they begin) and `GraphSuggestionsLeadThere` (a node found by
containment on one side and by equality on the other) complete them. Their
hypotheses are what the parsers take for granted of contents, by name in
`Hyperlinks`: `PiecesTell`, `TextsWhole`, `CellsWhole`, `ElementsTell`,
`GraphTells`; and for a table that no column is called like the widget, which
`parseTableWidgetSuggestions` would take for the column. TLC checks on every run
that the contents of the instance are such (`InstanceAssumption`). Nothing in the
code enforces them: of two nodes of which one label contains the other, the info
that is suggested after the shorter label is that of whichever comes first.

Only model-checked: all liveness (fairness and ENABLED are out of the prover's
reach), `CatchesUp` and `LinkIsReached` with it; and of `AcceptedLeadsThere` the
two descents from the organization to the widget, with the pages that show the
anchors: the theorems above start at a widget.

## 6. What is not modelled

- The statements *inside* `SaveEcosystemGraph` and the two selects of
  `GetEcosystemGraph`: a reader between them can see edges of one graph and
  nodes of another. Layout.
- Of hyperlinks: more than one reference in a message, keys that only move the
  cursor or close the list, the cutting of the text at the symbols; comparison
  ignores case in the code and texts are abstract here. The organization and the
  section of an element are taken to exist.
- `useChannelById` in a run; hooks without a fetch.
- Widgets without a state of their own beyond that of their hook; dialogs of
  export, the commands a playbook's step copies, toasts; that the search for an
  element in the DOM gives up after 1000 times; the modal of steps
  (`steps_modal.tsx`), which nothing uses.
- Of the plugins: the lists of users and channels beyond the one page that is
  fetched are in the model where they matter (`Missed`), but that a channel's posts
  are its newest 200 (`post_service.go:46`) is not; adding a channel that exists,
  the cutting of channel names to 64 characters, several teams, what a user does to
  the sidebar by hand.
- That somebody on the page of an issue just saved makes a second channel for it
  (`single_channel_box.tsx`) before `addChannel` has answered the wizard; in the
  model of the wizard only wizards make channels.
- Backlinks: one insertion per post, and one deletion when a post cannot be
  read, which no step in between could change.
- Of issues: elements, whose IDs the client gives; updates whose body names
  another issue than their URL, which would hand the IDs of one issue to the
  other; that names are unique, which nothing in the code enforces.
- MySQL for the plugin, where CREATE and ALTER commit at once.
- The width of `ExpiresAt`, a 32-bit column.
- The components marked `not_modelled` in `PROJECT.json`, with their reasons:
  routing, formatting, configuration that is read once, and tools.

## 7. Plan

In this order, the behaviour most worth checking first:

1. (done) `LeasedGraph`, `CacheRepository`, `EcosystemGraphProvider`,
   `EcosystemGraphEditor`, and the proofs about the lease.
2. (done) `Migrations` and its proofs.
3. (done) `Issues` and its proofs.
4. (done) `DataHooks`, `Hyperlinks`, `IssueWizard`.
5. (done) `SidebarCategories`, `PluginChannels`, `OrganizationMembership`.
6. (done) `EditableGraph`: the graph's structure from the screen to the tables.
7. (done) `Widgets` with its six widgets, over `DataHooks`.
8. (done) Proofs about the editors, the hooks and the widgets.
9. (done) Proofs about `EditableGraph`, `OrganizationMembership`, `IssueWizard`,
   the parts of the widgets, the posting of references and the parsers of the
   widgets. Left: `AcceptedLeadsThere` above the widgets, which holds for names
   of which none begins another; a proof would have to carry that through both
   descents.
10. Left for later: save and load of the graph at the level of statements, with
    isolation, refining the atomic graph; backlinks.
