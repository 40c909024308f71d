---------------------------- MODULE PluginChannels ----------------------------
(***************************************************************************)
(* The channels of the organizations: the table CSA_Channel of the plugin, *)
(* the channels, members, user properties and sidebars of Mattermost, and  *)
(* the widgets of the webapp that create channels.                         *)
(*                                                                         *)
(* A handler takes a step for every call of the plugin API and every       *)
(* statement whose effect or result another handler can tell apart; the    *)
(* steps of the requests interleave.                                       *)
(***************************************************************************)
EXTENDS SidebarCategories, FiniteSets

CONSTANTS
  Users,
  ChannelIDs,      \* IDs of channels
  InitialChannels, \* the channels there are at first, and for each of them
                   \* whose name it contains, if it is public, and its row
  InitialOrgs,     \* the organizations users may have chosen before
  Names,           \* the organizations whose names the names of new channels contain
  MaxArchived,     \* bounds how many channels are archived
  Archivable,      \* bounds which ones
  All,             \* the organization ID "all"
  UserPages,       \* the users that the first page of GetUsersInTeam may list
  ChannelPages,    \* and the public channels of GetPublicChannelsForTeam's
  Calls,           \* the requests that may be on their way at a time
  MaxCalls,        \* bounds how many requests are made
  MaxFaults,       \* bounds how many API calls and statements fail
  createChannelPatience

ASSUME PluginAssumption ==
  /\ All \notin Organizations \cup {NoOrg, NoRow}
  /\ createChannelPatience \in Nat \ {0}
  /\ MaxCalls \in Nat /\ MaxFaults \in Nat /\ MaxArchived \in Nat
  /\ IsFiniteSet(ChannelIDs)
  /\ UserPages \subseteq SUBSET Users /\ ChannelPages \subseteq SUBSET ChannelIDs
  /\ Names \subseteq Organizations \cup {NoOrg}
  /\ \A c \in DOMAIN InitialChannels :
       InitialChannels[c] \in [named : Organizations \cup {NoOrg}, public : BOOLEAN,
                               row : Organizations \cup {NoOrg, NoRow}]

VARIABLES
  channel, \* the channels of Mattermost
  row,     \* the OrganizationID in CSA_Channel
  members, \* the members of the channels
  orgId,   \* the property orgId of the users
  sidebar, \* the categories of the users
  lastID,  \* the last ID given to a category
  call,    \* the requests, how far their handlers are and what they know
  made,    \* the requests made
  faults,  \* the calls and statements that failed
  spoilt   \* what no longer follows the organization of whom, and why not

sidebars == <<sidebar, lastID>>
tables == <<channel, row, members, orgId, sidebars>>
pluginVars == <<tables, call, made, faults, spoilt>>

------------------------------------------------------------------------------
States == {"absent", "open", "archived"}
NoChannel == [state |-> "absent", named |-> NoOrg, number |-> 0, public |-> FALSE]
Existing == {c \in ChannelIDs : channel[c].state # "absent"}
named == [c \in ChannelIDs |-> channel[c].named]
mine(u) == {c \in ChannelIDs : u \in members[c]}
NoRows == [c \in ChannelIDs |-> NoRow]

Idle ==
  [stage |-> "idle", kind |-> "none", user |-> "none", org |-> NoOrg,
   password |-> "none",
   name |-> NoChannel, channel |-> "none", todo |-> {}, cats |-> {}, rows |-> NoRows]

Ended == {"idle", "ok", "failed"}
Active(k) == call[k].stage \notin Ended

(* Whoever chose an organization while that of a channel was implicit is   *)
(* not in that channel.                                                    *)
PluginInit ==
  LET first == DOMAIN InitialChannels IN
  /\ channel = [c \in ChannelIDs |->
       IF c \in first
       THEN [NoChannel EXCEPT !.state = "open", !.named = InitialChannels[c].named,
                              !.public = InitialChannels[c].public]
       ELSE NoChannel]
  /\ row = [c \in ChannelIDs |-> IF c \in first THEN InitialChannels[c].row ELSE NoRow]
  /\ orgId \in [Users -> InitialOrgs]
  /\ members = [c \in ChannelIDs |-> {u \in Users :
       orgId[u] # NoOrg /\ row[c] \notin {NoRow, Ecosystem} /\ orgId[u] \in {row[c], All}}]
  /\ sidebar = [u \in Users |-> EmptySidebar]
  /\ lastID = DefaultID
  /\ call = [k \in Calls |-> Idle]
  /\ made = 0
  /\ faults = 0
  /\ spoilt = {u \in Users : orgId[u] \notin {NoOrg, All} /\ \E c \in ChannelIDs : row[c] = NoOrg}
                \X {"raced"}

(* A request of the webapp. *)
Send(request) ==
  /\ made < MaxCalls
  /\ made' = made + 1
  /\ \E k \in Calls : call[k] = Idle /\ call' = [call EXCEPT ![k] = request]

Request(kind, stage, u, org) ==
  [Idle EXCEPT !.stage = stage, !.kind = kind, !.user = u, !.org = org]

(* The handler of k goes on to a stage with what it knows.  When it has    *)
(* ended, only the answer to a choice is left: those to the other requests *)
(* change nothing that is modelled.                                        *)
Answer(k, stage) ==
  IF call[k].kind = "set"
  THEN [Request("set", stage, call[k].user, call[k].org) EXCEPT !.password = call[k].password]
  ELSE Idle

Go(k, stage, known) ==
  call' = [call EXCEPT ![k] =
    IF stage \in Ended THEN Answer(k, stage) ELSE [known EXCEPT !.stage = stage]]

Fault == faults < MaxFaults /\ faults' = faults + 1 /\ UNCHANGED made
NoFault == UNCHANGED <<made, faults>>
Faults(n) == faults + n <= MaxFaults /\ faults' = faults + n /\ UNCHANGED made
At(k, kinds, stage) == call[k].kind \in kinds /\ call[k].stage = stage

------------------------------------------------------------------------------
(* The button of the channel widgets: they show to a user of the           *)
(* organization or of all, or in the ecosystem.  ChannelBox and            *)
(* SingleChannelBox create private channels, PaginatedTable and the issue  *)
(* wizard public ones in the ecosystem.  The name is proposed after the    *)
(* organization, and the user may change it.                               *)
createChannel(u, org, n, public) ==
  /\ orgId[u] \in {org, All} \/ org = Ecosystem
  /\ public => org = Ecosystem
  /\ Send([Request("add", "name", u, org) EXCEPT
             !.name = [NoChannel EXCEPT !.named = n, !.public = public]])
  /\ UNCHANGED <<tables, faults, spoilt>>

Taken(n, i) == \E c \in Existing : channel[c].named = n /\ channel[c].number = i

(* createAndAddChannel looks for a name that no channel has, the archived  *)
(* ones included: the name itself, then with a counter.                    *)
GetChannelByName(k) ==
  LET n == call[k].name.named
      free == {i \in 0 .. createChannelPatience : ~Taken(n, i)}
  IN
  /\ At(k, {"add"}, "name")
  /\ IF free = {} THEN Go(k, "failed", Idle)
     ELSE Go(k, "create", [call[k] EXCEPT !.name.number = Min(free)])
  /\ NoFault
  /\ UNCHANGED <<tables, spoilt>>

(* Mattermost refuses a name that was taken meanwhile. *)
CreateChannel(k) ==
  LET new == call[k].name IN
  /\ At(k, {"add"}, "create")
  /\ \/ /\ ~Taken(new.named, new.number)
        /\ \E c \in ChannelIDs :
             /\ channel[c].state = "absent"
             /\ channel' = [channel EXCEPT ![c] = [new EXCEPT !.state = "open"]]
             /\ Go(k, "members", [call[k] EXCEPT !.channel = c])
        /\ NoFault
     \/ /\ Taken(new.named, new.number)
        /\ Go(k, "failed", Idle)
        /\ NoFault
        /\ UNCHANGED channel
     \/ /\ Fault
        /\ Go(k, "failed", Idle)
        /\ UNCHANGED channel
  /\ UNCHANGED <<row, members, orgId, sidebars, spoilt>>

(* What goes wrong with the membership of u. *)
Spoil(users, why) == spoilt' = spoilt \cup (users \X {why})

(* The users that are choosing an organization: their channels are listed, *)
(* and the choice is not stored yet.                                       *)
Choosing == {call[k].user : k \in {j \in Calls : call[j].stage = "leaving"}}

(* The users are those of one page of 200. *)
getOrganizationMembers(page, org) == {u \in page : orgId[u] \in {org, All}}

(* The members of the organization that a page leaves out. *)
Beyond(page, org) == {u \in Users \ page : orgId[u] \in {org, All}}

(* The members are read once; a user who chooses the organization right    *)
(* then is missed by both, and one beyond the page is not added at all.    *)
ReadMembers(k) ==
  LET org == call[k].org IN
  /\ At(k, {"add"}, "members")
  /\ \/ \E page \in UserPages :
          /\ Go(k, "adding", [call[k] EXCEPT !.todo = getOrganizationMembers(page, org)])
          /\ NoFault
          /\ spoilt' = spoilt \cup (Choosing \X {"raced"})
                            \cup (Beyond(page, org) \X {call[k].channel})
     \/ Fault /\ Go(k, "failed", Idle) /\ UNCHANGED spoilt
  /\ UNCHANGED tables

(* AddChannelMember for each of them; an error leaves the channel behind,  *)
(* without a row.                                                          *)
AddMember(k) ==
  LET c == call[k].channel IN
  /\ At(k, {"add"}, "adding")
  /\ \E u \in call[k].todo :
       \/ /\ members' = [members EXCEPT ![c] = @ \cup {u}]
          /\ Go(k, "adding", [call[k] EXCEPT !.todo = @ \ {u}])
          /\ NoFault
       \/ Fault /\ Go(k, "failed", Idle) /\ UNCHANGED members
  /\ UNCHANGED <<channel, row, orgId, sidebars, spoilt>>

(* The row is inserted, and the transaction ends. *)
InsertRow(k) ==
  /\ At(k, {"add"}, "adding")
  /\ call[k].todo = {}
  /\ \/ /\ row' = [row EXCEPT ![call[k].channel] = call[k].org]
        /\ Go(k, "categories", call[k])
        /\ NoFault
     \/ Fault /\ Go(k, "failed", Idle) /\ UNCHANGED row
  /\ UNCHANGED <<channel, members, orgId, sidebars, spoilt>>

(* addChannelToCategory for the user who created the channel: the          *)
(* categories are read, and written in a later step.  No category of the   *)
(* organization is only logged, and so is a failure.                       *)
ReadCategoriesToAdd(k) ==
  LET u == call[k].user
      cats == GetChannelSidebarCategories(sidebar[u], mine(u))
  IN
  /\ At(k, {"add"}, "categories")
  /\ \/ HasCategory(cats, call[k].org) /\ Go(k, "file", [call[k] EXCEPT !.cats = cats]) /\ NoFault
     \/ ~HasCategory(cats, call[k].org) /\ Go(k, "ok", Idle) /\ NoFault
     \/ Fault /\ Go(k, "ok", Idle)
  /\ UNCHANGED <<tables, spoilt>>

addChannelToCategory(k) ==
  LET u == call[k].user
      cats == call[k].cats
      target == Named(cats, call[k].org)
      update == {IF c \in target THEN [c EXCEPT !.channels = @ \cup {call[k].channel}] ELSE c
                   : c \in cats}
  IN
  /\ At(k, {"add"}, "file")
  /\ \/ /\ CanUpdate(sidebar[u], update)
        /\ sidebar' = [sidebar EXCEPT ![u] = UpdateChannelSidebarCategories(@, update)]
        /\ NoFault
     \/ ~CanUpdate(sidebar[u], update) /\ NoFault /\ UNCHANGED sidebar
     \/ Fault /\ UNCHANGED sidebar
  /\ Go(k, "ok", Idle)
  /\ UNCHANGED <<channel, row, members, orgId, lastID, spoilt>>

(* ArchiveChannels and ArchiveIssueChannels delete the channels of a       *)
(* section, one after the other; those that fail are logged.               *)
ArchiveChannel(c) ==
  /\ c \in Archivable
  /\ channel[c].state = "open"
  /\ row[c] # NoRow
  /\ Cardinality({d \in ChannelIDs : channel[d].state = "archived"}) < MaxArchived
  /\ channel' = [channel EXCEPT ![c].state = "archived"]
  /\ UNCHANGED <<row, members, orgId, sidebars, call, made, faults, spoilt>>

AddChannelStep(k) ==
  \/ GetChannelByName(k)
  \/ CreateChannel(k)
  \/ ReadMembers(k)
  \/ AddMember(k)
  \/ InsertRow(k)
  \/ ReadCategoriesToAdd(k)
  \/ addChannelToCategory(k)
=============================================================================
