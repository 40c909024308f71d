------------------------- MODULE OrganizationMembership -------------------------
(***************************************************************************)
(* A user chooses an organization: LHSView of the webapp, the handlers     *)
(* SetOrganizations and UserAdded of the plugin (app/event_service.go),    *)
(* and the channels and sidebars they keep in line with the choice.        *)
(*                                                                         *)
(* A behaviour is one page load of every user.  userAdded is sent after    *)
(* the load and after every change of the channel, so at any time.         *)
(***************************************************************************)
EXTENDS PluginChannels

CONSTANT Resettable \* bounds the organizations a user is reset from

VARIABLE picker \* the state of LHSView of every user

vars == <<pluginVars, picker>>

(* The organizations to choose from, and those a user can be of. *)
organizations == Organizations \ {Ecosystem}
Selectable == organizations \cup {All}

(* fetch: the fetch of the properties is due, has been answered with an    *)
(* organization that is on its way, or is done.                            *)
Fetches == {"due", "done", NoOrg} \cup Selectable
NewPicker ==
  [props |-> NoOrg, fetch |-> "due", selected |-> NoOrg, disabled |-> FALSE,
   modal |-> FALSE, invalid |-> FALSE]

Init == PluginInit /\ picker = [u \in Users |-> NewPicker]

------------------------------------------------------------------------------
(* LHSView *)

isUserOrgIDValid(p) == p.props \in Selectable

(* With a valid organization the label stands in place of the select. *)
IsLabel(p) == isUserOrgIDValid(p) /\ p.selected # NoOrg

(* setUserProps and the effect it triggers. *)
WithProps(p, org) ==
  IF org \in Selectable THEN [p EXCEPT !.props = org, !.selected = org, !.disabled = TRUE]
  ELSE [p EXCEPT !.props = org]

(* getUserProps of useUserProps: read by the plugin, and answered later. *)
GetUserProps(u) ==
  /\ picker[u].fetch = "due"
  /\ picker' = [picker EXCEPT ![u].fetch = orgId[u]]
  /\ UNCHANGED pluginVars

SetUserProps(u) ==
  LET p == picker[u] IN
  /\ p.fetch \notin {"due", "done"}
  /\ picker' = [picker EXCEPT ![u] = WithProps([p EXCEPT !.fetch = "done"], p.fetch)]
  /\ IF p.fetch \in Selectable /\ p.selected # NoOrg THEN Spoil({u}, "picker")
     ELSE UNCHANGED spoilt
  /\ UNCHANGED <<tables, call, made, faults>>

Setting(u) == {k \in Calls : Active(k) /\ call[k].kind = "set" /\ call[k].user = u}

Unanswered(u) == {k \in Calls : call[k].kind = "set" /\ call[k].user = u}

(* Two choices of one user at work, or on their way, at a time. *)
Overlapping(u) ==
  spoilt' = spoilt \cup {<<u, "raced">> : k \in Setting(u)}
                   \cup {<<u, "picker">> : k \in Unanswered(u)}

SetOrganization(u, org, password) ==
  /\ Send([Request("set", "user", u, org) EXCEPT !.password = password])
  /\ Overlapping(u)

(* Mutant: the choice is shown when the modal closes as well. *)
closeModalKeeping(u) ==
  /\ picker[u].modal
  /\ picker' = [picker EXCEPT ![u] =
       [@ EXCEPT !.modal = FALSE, !.disabled = TRUE, !.invalid = FALSE]]
  /\ UNCHANGED pluginVars

closeModal(u) ==
  /\ picker[u].modal
  /\ picker' = [picker EXCEPT ![u] =
       [@ EXCEPT !.modal = FALSE, !.selected = NoOrg, !.disabled = FALSE, !.invalid = FALSE]]
  /\ UNCHANGED pluginVars

(* A choice, and the effect on selectedObject: all the organizations need  *)
(* the password; any other is sent, not awaited, and shown at once.        *)
SelectOrganization(u, org) ==
  LET p == picker[u] IN
  /\ ~IsLabel(p) /\ ~p.disabled /\ ~p.modal
  /\ org # p.props
  /\ IF org = All
     THEN /\ picker' = [picker EXCEPT ![u].selected = All, ![u].modal = TRUE]
          /\ UNCHANGED pluginVars
     ELSE /\ SetOrganization(u, org, "none")
          /\ picker' = [picker EXCEPT ![u] = WithProps(p, org)]
          /\ UNCHANGED <<tables, faults>>

(* Confirm: onFinish up to its await.  The button stays enabled. *)
ConfirmPassword(u, password) ==
  /\ picker[u].modal /\ ~picker[u].invalid
  /\ SetOrganization(u, picker[u].selected, password)
  /\ UNCHANGED <<tables, faults, picker>>

(* A change of the form resets isPasswordInvalid. *)
TypePassword(u) ==
  /\ picker[u].modal /\ picker[u].invalid
  /\ picker' = [picker EXCEPT ![u].invalid = FALSE]
  /\ UNCHANGED pluginVars

(* The answer: onFinish after its await.  That to any other organization   *)
(* is not awaited, and a failure leaves the choice on the screen.          *)
SetOrganizationAnswered(k) ==
  LET u == call[k].user
      ok == call[k].stage = "ok"
  IN
  /\ call[k].kind = "set" /\ call[k].stage \in {"ok", "failed"}
  /\ picker' = [picker EXCEPT ![u] =
       IF call[k].password = "none" THEN @
       ELSE IF ok THEN WithProps([@ EXCEPT !.modal = FALSE], call[k].org)
       ELSE [@ EXCEPT !.invalid = TRUE]]
  /\ spoilt' = spoilt \cup {<<u, "picker">> : x \in {y \in {u} : ~ok /\ call[k].password = "none"}}
  /\ call' = [call EXCEPT ![k] = Idle]
  /\ UNCHANGED <<tables, made, faults>>

(* useUserAdded *)
userAdded(u) ==
  /\ Send(Request("added", "categories", u, NoOrg))
  /\ UNCHANGED <<tables, faults, spoilt, picker>>

(* The command that resets the organization of a user; the page of the     *)
(* user goes on to show the old one.                                       *)
ResetUserOrganization(u) ==
  /\ orgId[u] # NoOrg
  /\ orgId[u] \in Resettable
  /\ orgId' = [orgId EXCEPT ![u] = NoOrg]
  /\ Spoil({u}, "picker")
  /\ UNCHANGED <<channel, row, members, sidebars, call, made, faults, picker>>

------------------------------------------------------------------------------
(* SetOrganizations *)

(* The password, and the user: one whose organization still exists keeps   *)
(* it.  A user of all the organizations may choose another one.            *)
GetUser(k) ==
  LET u == call[k].user
      refused == (call[k].org = All /\ call[k].password # "right") \/ orgId[u] \in Organizations
  IN
  /\ At(k, {"set"}, "user")
  /\ \/ Go(k, IF refused THEN "failed" ELSE "channels", call[k]) /\ NoFault
     \/ Fault /\ Go(k, "failed", Idle)
  /\ UNCHANGED <<tables, spoilt, picker>>

(* The channels in CSA_Channel but those of the ecosystem, each with its   *)
(* organization.  A channel that is being created, with its members read   *)
(* and its row still missing, is missed; one whose row has no organization *)
(* yet is taken for that of another.                                       *)
ListChannels(k) ==
  LET u == call[k].user
      listed == {<<c, row[c]>> : c \in {x \in Existing : row[x] \notin {NoRow, Ecosystem}}}
      halfway == \E j \in Calls : At(j, {"add"}, "adding")
      implicit == \E c \in Existing : row[c] = NoOrg
  IN
  /\ At(k, {"set"}, "channels")
  /\ \/ /\ Go(k, "leaving", [call[k] EXCEPT !.todo = listed])
        /\ spoilt' = spoilt \cup {<<u, "raced">> : x \in {y \in {u} : halfway \/ implicit}}
        /\ NoFault
     \/ Fault /\ Go(k, "failed", Idle) /\ UNCHANGED spoilt
  /\ UNCHANGED <<tables, picker>>

(* Mutant: the channels of the other organizations are not left. *)
MembersAfterJoinOnly(ms, u, joins) == IF joins THEN ms \cup {u} ELSE ms

MembersAfter(ms, u, joins) == IF joins THEN ms \cup {u} ELSE ms \ {u}

(* AddChannelMember or DeleteChannelMember for one of the channels; an     *)
(* error is dropped.  Mattermost adds nobody to an archived channel.       *)
JoinOrLeave(k) ==
  LET u == call[k].user IN
  /\ At(k, {"set"}, "leaving")
  /\ \E x \in call[k].todo :
       LET c == x[1]
           joins == call[k].org \in {All, x[2]}
           refused == joins /\ channel[c].state = "archived"
       IN
       /\ Go(k, "leaving", [call[k] EXCEPT !.todo = @ \ {x}])
       /\ \/ /\ members' = IF refused THEN members
                           ELSE [members EXCEPT ![c] = MembersAfter(@, u, joins)]
             /\ NoFault
             /\ UNCHANGED spoilt
          \/ Fault /\ Spoil({u}, "raced") /\ UNCHANGED members
  /\ UNCHANGED <<channel, row, orgId, sidebars, picker>>

(* UpdateUser.  A failure after the channels were joined and left keeps    *)
(* the old organization.                                                   *)
UpdateUser(k) ==
  LET u == call[k].user IN
  /\ At(k, {"set"}, "leaving")
  /\ call[k].todo = {}
  /\ \/ /\ orgId' = [orgId EXCEPT ![u] = call[k].org]
        /\ Go(k, "categories", call[k])
        /\ NoFault
        /\ UNCHANGED spoilt
     \/ Fault /\ Go(k, "failed", Idle) /\ Spoil({u}, "raced") /\ UNCHANGED orgId
  /\ UNCHANGED <<channel, row, members, sidebars, picker>>

------------------------------------------------------------------------------
(* cleanCategories, at the end of SetOrganizations and at the start of     *)
(* UserAdded                                                               *)

Cleaning == {"set", "added"}

(* The caller reads the categories, *)
GetCategories(k) ==
  LET u == call[k].user IN
  /\ At(k, Cleaning, "categories")
  /\ \/ /\ Go(k, "clean", [call[k] EXCEPT !.cats =
             GetChannelSidebarCategories(sidebar[u], mine(u))])
        /\ NoFault
     \/ Fault /\ Go(k, "failed", Idle)
  /\ UNCHANGED <<tables, spoilt, picker>>

(* Where the handler goes on after cleanCategories, and as what. *)
AfterClean(k) == IF call[k].kind = "set" THEN "ok" ELSE "public"
Forgetting(k) == [call[k] EXCEPT !.cats = {}, !.rows = NoRows]

(* and the clean the rows. *)
cleanCategories(k) ==
  /\ At(k, Cleaning, "clean")
  /\ \/ Go(k, "linking", [call[k] EXCEPT !.rows = row, !.todo = ToMigrate(row, named)]) /\ NoFault
     \/ Fault /\ Go(k, "failed", Idle)
  /\ UNCHANGED <<tables, spoilt, picker>>

(* migrateImplicitOrgChannels; a failure is only logged. *)
LinkChannelToOrganization(k) ==
  /\ At(k, Cleaning, "linking")
  /\ \E c \in call[k].todo :
       /\ Go(k, "linking", [call[k] EXCEPT !.todo = @ \ {c}])
       /\ \/ row' = [row EXCEPT ![c] = named[c]] /\ NoFault
          \/ Fault /\ UNCHANGED row
  /\ UNCHANGED <<channel, members, orgId, sidebars, spoilt, picker>>

(* The strategy depends on the organization of now.  A user without one is *)
(* left alone.                                                             *)
ChooseStrategy(k) ==
  LET org == orgId[call[k].user]
      purge == IF HasCategory(call[k].cats, Ecosystem) THEN "rows" ELSE "purge"
  IN
  /\ At(k, Cleaning, "linking")
  /\ call[k].todo = {}
  /\ \/ org = NoOrg /\ Go(k, AfterClean(k), Forgetting(k)) /\ NoFault
     \/ org = All /\ Go(k, "setup", [call[k] EXCEPT !.cats = {}]) /\ NoFault
     \/ org \notin {NoOrg, All} /\ Go(k, purge, [call[k] EXCEPT !.rows = NoRows]) /\ NoFault
     \/ Fault /\ Go(k, "failed", Idle)
  /\ UNCHANGED <<tables, spoilt, picker>>

(* buildOrganizationCategory and CreateChannelSidebarCategory.  When the   *)
(* channels of the user cannot be read the category has none.              *)
CreateCategory(u, org) ==
  \E chans \in {buildOrganizationCategory(org, mine(u), named), {}} :
    /\ IF chans = {} /\ buildOrganizationCategory(org, mine(u), named) # {} THEN Fault ELSE NoFault
    /\ lastID' = lastID + 1
    /\ sidebar' = [sidebar EXCEPT ![u] = CreateChannelSidebarCategory(@, lastID + 1, org, chans)]

(* setupCategories for a user of all the organizations: the categories are *)
(* read, and those missing created, in the order of the configuration; a   *)
(* failure is only logged.                                                 *)
setupCategories(k) ==
  LET u == call[k].user IN
  /\ At(k, Cleaning, "setup")
  /\ \/ /\ Go(k, "creating", [call[k] EXCEPT !.todo =
             Missing(GetChannelSidebarCategories(sidebar[u], mine(u)))])
        /\ NoFault
     \/ Fault /\ Go(k, "failed", Idle)
  /\ UNCHANGED <<tables, spoilt, picker>>

CreateMissing(k) ==
  LET org == CHOOSE o \in call[k].todo : TRUE IN
  /\ At(k, Cleaning, "creating")
  /\ call[k].todo # {}
  /\ Go(k, "creating", [call[k] EXCEPT !.todo = @ \ {org}])
  /\ CreateCategory(call[k].user, org) \/ (Fault /\ UNCHANGED sidebars)
  /\ UNCHANGED <<channel, row, members, orgId, spoilt, picker>>

(* setupOrganizationCategories reads them again and files the channels by  *)
(* the rows, which were read before the migration.                         *)
ReadCategoriesToFile(k) ==
  LET u == call[k].user IN
  /\ At(k, Cleaning, "creating")
  /\ call[k].todo = {}
  /\ \/ /\ Go(k, "filing", [call[k] EXCEPT !.cats =
             GetChannelSidebarCategories(sidebar[u], mine(u))])
        /\ NoFault
     \/ Fault /\ Go(k, "failed", Idle)
  /\ UNCHANGED <<tables, spoilt, picker>>

(* UpdateChannelSidebarCategories, and where the handler goes on. *)
Update(k, update, stage, known) ==
  LET u == call[k].user IN
  /\ \/ /\ CanUpdate(sidebar[u], update)
        /\ sidebar' = [sidebar EXCEPT ![u] = UpdateChannelSidebarCategories(@, update)]
        /\ Go(k, stage, known)
        /\ NoFault
     \/ ~CanUpdate(sidebar[u], update) /\ Go(k, "failed", Idle) /\ NoFault /\ UNCHANGED sidebar
     \/ Fault /\ Go(k, "failed", Idle) /\ UNCHANGED sidebar
  /\ UNCHANGED <<channel, row, members, orgId, lastID, spoilt, picker>>

FileChannels(k) ==
  /\ At(k, Cleaning, "filing")
  /\ Update(k, setupOrganizationCategories(call[k].cats, call[k].rows), AfterClean(k), Forgetting(k))

(* purgeNonEcosystemCategories for any other user: the category of the     *)
(* ecosystem is created if the caller has read none,                       *)
CreateEcosystem(k) ==
  /\ At(k, Cleaning, "purge")
  /\ \/ CreateCategory(call[k].user, Ecosystem) /\ Go(k, "rows", call[k])
     \/ Fault /\ Go(k, "failed", Idle) /\ UNCHANGED sidebars
  /\ UNCHANGED <<channel, row, members, orgId, spoilt, picker>>

(* the rows are read again,                                                *)
GetAllChannels(k) ==
  /\ At(k, Cleaning, "rows")
  /\ \/ Go(k, "purging", [call[k] EXCEPT !.rows = row]) /\ NoFault
     \/ Fault /\ Go(k, "failed", Idle)
  /\ UNCHANGED <<tables, spoilt, picker>>

(* the categories the caller has read are emptied,                         *)
PurgeCategories(k) ==
  /\ At(k, Cleaning, "purging")
  /\ Update(k, purgeNonEcosystemCategories(call[k].cats, call[k].rows), "leftovers", call[k])

(* and deleted; another clean of the user may just have found or created   *)
(* them.                                                                   *)
DeleteCategories(k) ==
  LET u == call[k].user
      over == {c.id : c \in Leftovers(call[k].cats)}
      creating == \E j \in Calls : call[j].stage = "creating" /\ call[j].user = u
  IN
  /\ At(k, Cleaning, "leftovers")
  /\ \/ /\ sidebar' = [sidebar EXCEPT ![u] = {c \in @ : c.id \notin over}]
        /\ Spoil({v \in {u} : creating /\ sidebar'[v] # sidebar[v]}, "purged")
        /\ Go(k, AfterClean(k), Forgetting(k))
        /\ NoFault
     \/ Fault /\ Go(k, "failed", Idle) /\ UNCHANGED <<sidebar, spoilt>>
  /\ UNCHANGED <<channel, row, members, orgId, lastID, picker>>

CleanStep(k) ==
  \/ GetCategories(k) \/ cleanCategories(k) \/ LinkChannelToOrganization(k) \/ ChooseStrategy(k)
  \/ setupCategories(k) \/ CreateMissing(k) \/ ReadCategoriesToFile(k) \/ FileChannels(k)
  \/ CreateEcosystem(k) \/ GetAllChannels(k) \/ PurgeCategories(k) \/ DeleteCategories(k)

------------------------------------------------------------------------------
(* UserAdded after cleanCategories: the user joins the public channels     *)
(* that are no channels of an organization, the ecosystem excepted, those  *)
(* of one page of 200.  One that fails, or was archived meanwhile, ends the*)
(* handler.                                                                *)
ListPublicChannels(k) ==
  /\ At(k, {"added"}, "public")
  /\ \/ /\ \E page \in ChannelPages : Go(k, "joining", [call[k] EXCEPT !.todo =
             {c \in page : /\ channel[c].state = "open" /\ channel[c].public
                           /\ row[c] \in {NoRow, Ecosystem}}])
        /\ NoFault
     \/ Fault /\ Go(k, "failed", Idle)
  /\ UNCHANGED <<tables, spoilt, picker>>

JoinPublicChannel(k) ==
  /\ At(k, {"added"}, "joining")
  /\ \/ /\ call[k].todo = {}
        /\ Go(k, "ok", Idle)
        /\ NoFault
        /\ UNCHANGED members
     \/ \E c \in call[k].todo :
          \/ /\ channel[c].state = "open"
             /\ members' = [members EXCEPT ![c] = @ \cup {call[k].user}]
             /\ Go(k, "joining", [call[k] EXCEPT !.todo = @ \ {c}])
             /\ NoFault
          \/ channel[c].state = "archived" /\ Go(k, "failed", Idle) /\ NoFault /\ UNCHANGED members
          \/ Fault /\ Go(k, "failed", Idle) /\ UNCHANGED members
  /\ UNCHANGED <<channel, row, orgId, sidebars, spoilt, picker>>

------------------------------------------------------------------------------
Next ==
  \/ \E u \in Users :
       \/ GetUserProps(u) \/ SetUserProps(u)
       \/ \E org \in Selectable : SelectOrganization(u, org)
       \/ \E password \in {"right", "wrong"} : ConfirmPassword(u, password)
       \/ TypePassword(u) \/ closeModal(u)
       \/ userAdded(u) \/ ResetUserOrganization(u)
       \/ \E org \in Organizations, n \in Names, public \in BOOLEAN :
            createChannel(u, org, n, public) /\ UNCHANGED picker
  \/ \E c \in ChannelIDs : ArchiveChannel(c) /\ UNCHANGED picker
  \/ \E k \in Calls :
       \/ AddChannelStep(k) /\ UNCHANGED picker
       \/ GetUser(k) \/ ListChannels(k) \/ JoinOrLeave(k) \/ UpdateUser(k)
       \/ CleanStep(k)
       \/ ListPublicChannels(k) \/ JoinPublicChannel(k)
       \/ SetOrganizationAnswered(k)

Spec == Init /\ [][Next]_vars

------------------------------------------------------------------------------
(* "This will automatically join and leave the organization channels based *)
(* on the org ID passed": whoever has an organization, and no choice on    *)
(* the way, is in the open channels of that organization and in those of   *)
(* no other one.  Not so (spoilt) after a failure in the loop, which is    *)
(* dropped, after two choices at a time, for a channel whose members were  *)
(* read before the choice was stored and whose row was missing or whose    *)
(* organization implicit when the channels were listed; nor for a channel  *)
(* that was created when the user was beyond the page of users.            *)
MembersFollowOrganization ==
  \A u \in Users : <<u, "raced">> \notin spoilt /\ Setting(u) = {} /\ orgId[u] # NoOrg =>
    \A c \in ChannelIDs :
      channel[c].state = "open" /\ row[c] \in organizations /\ <<u, c>> \notin spoilt =>
        (u \in members[c] <=> orgId[u] \in {row[c], All})

(* LHSView shows the stored organization, or lets the user choose; unless  *)
(* a choice on its way, one that failed, two at a time, one made before    *)
(* the properties of the user were fetched, or a reset by an administrator *)
(* come between.                                                           *)
PickerShowsStored ==
  \A u \in Users : <<u, "picker">> \notin spoilt /\ Unanswered(u) = {} /\ picker[u].disabled =>
    picker[u].selected = orgId[u]

(* A sidebar as the user sees it. *)
Seen(cats, u) == GetChannelSidebarCategories(cats, mine(u))

(* After a clean of the sidebar a user of all the organizations finds none *)
(* of their channels in the default category, unless the category of the   *)
(* organization was not found: it could not be created, or another clean   *)
(* of the user has deleted it meanwhile.                                   *)
Filed(u, known, cats) ==
  \A c \in cats : \A x \in c.channels :
    c.id = DefaultID /\ row[x] \in Organizations =>
      ~HasCategory(known, row[x]) /\ (faults > 0 \/ <<u, "purged">> \in spoilt)

(* Any other user has left the default category, without channels of the   *)
(* ecosystem, and those of the ecosystem; but a channel of the ecosystem   *)
(* that was in a category purged is in the default category again.         *)
Purged(known, cats) ==
  \A c \in cats :
    /\ c.id # DefaultID => c.name = Ecosystem
    /\ c.id = DefaultID =>
         \A x \in c.channels : row[x] = Ecosystem => \E d \in Leftovers(known) : x \in d.channels

(* "Purge all organization specific categories, bar the ecosystem category *)
(* which is kept", and the channels of the ecosystem go there; the channels*)
(* of a user of all the organizations go to the categories of theirs.  So  *)
(* it is at the end of a clean, whatever came between its calls, if the    *)
(* sidebar, the rows and the user's channels are those it read last and    *)
(* wrote; but for one that had to create the ecosystem category: the       *)
(* channels it moves there are not written.                                *)
Tidied(k) ==
  LET u == call[k].user
      known == call[k].cats
      rows == call[k].rows
  IN
  call'[k].stage = AfterClean(k) /\ row = rows =>
    /\ call[k].stage = "filing" /\ Seen(sidebar[u], u) = known =>
         Filed(u, known, Seen(sidebar'[u], u))
    /\ /\ call[k].stage = "leftovers" /\ HasCategory(known, Ecosystem)
       /\ sidebar[u] = purgeNonEcosystemCategories(known, rows)
       /\ \A x \in mine(u) : \E c \in known : x \in c.channels
       => Purged(known, Seen(sidebar'[u], u))

CleanTidies == [][\A k \in Calls : Tidied(k)]_vars
=============================================================================
