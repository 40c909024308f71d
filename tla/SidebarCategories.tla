--------------------------- MODULE SidebarCategories ---------------------------
(***************************************************************************)
(* What the plugin makes of a user's sidebar (app/category_service.go).    *)
(* A sidebar is a set of categories; the one with DefaultID is the         *)
(* Channels category of Mattermost, every other one is a custom category.  *)
(* An organization stands for its ID and for its name, as the code finds   *)
(* the category of an organization by its name; named tells which          *)
(* organization's name the display name of a channel contains.             *)
(***************************************************************************)
EXTENDS Naturals, FiniteSetsExt

CONSTANTS
  Organizations, \* the organizations of the platform configuration
  Ecosystem,     \* the one that is the ecosystem
  NoOrg,         \* the empty organization ID
  NoRow          \* a channel that is not in CSA_Channel

ASSUME OrganizationsAssumption ==
  /\ Ecosystem \in Organizations
  /\ {NoOrg, NoRow} \cap Organizations = {}
  /\ NoOrg # NoRow
  /\ "Channels" \notin Organizations
  /\ IsFiniteSet(Organizations)

DefaultID == 0
NoName == "Channels"
EmptySidebar == {[id |-> DefaultID, name |-> NoName, channels |-> {}]}

HasCategory(cats, org) == \E c \in cats : c.name = org

(* GetChannelSidebarCategories: Mattermost lists the channels the user is  *)
(* in, and those of no category in the default one.                        *)
GetChannelSidebarCategories(cats, mine) ==
  {[c EXCEPT !.channels =
      (@ \cap mine) \cup
      {x \in mine : c.id = DefaultID /\ \A d \in cats : x \notin d.channels}] : c \in cats}

(* CreateChannelSidebarCategory: the channels leave the categories they    *)
(* were in.                                                                *)
CreateChannelSidebarCategory(cats, id, org, chans) ==
  {[c EXCEPT !.channels = @ \ chans] : c \in cats} \cup
  {[id |-> id, name |-> org, channels |-> chans]}

(* UpdateChannelSidebarCategories replaces the channels of the categories  *)
(* it is given, all or none: it fails if one of them is gone.              *)
CanUpdate(cats, update) == \A u \in update : \E c \in cats : c.id = u.id
UpdateChannelSidebarCategories(cats, update) ==
  update \cup {c \in cats : \A u \in update : u.id # c.id}

(* buildOrganizationCategory takes the channels by their names. *)
buildOrganizationCategory(org, mine, named) == {c \in mine : named[c] = org}

(* setupCategories creates a category for every organization that has none. *)
Missing(cats) == {org \in Organizations : ~HasCategory(cats, org)}

(* setupOrganizationCategories, for a user of all the organizations: the   *)
(* channels of the organizations leave the default category for the one of *)
(* their organization.                                                     *)
setupOrganizationCategories(cats, row) ==
  LET skippedIds == UNION {{x \in c.channels : row[x] \in Organizations} :
                             c \in {d \in cats : d.id = DefaultID}}
  IN {[c EXCEPT !.channels =
         IF c.id = DefaultID THEN @ \ skippedIds
         ELSE @ \cup {x \in skippedIds : row[x] = c.name}] : c \in cats}

(* The first category with the name of an organization, if there is one.   *)
Named(cats, org) ==
  LET found == {c \in cats : c.name = org}
  IN {c \in found : \A d \in found : c.id <= d.id}

(* The category purgeNonEcosystemCategories keeps; one it created just now *)
(* has no ID yet and is not in its list.                                   *)
Kept(cats) == Named(cats, Ecosystem)

(* Mutant: only the first of the categories that are left over goes. *)
LeftoversFirst(cats) ==
  LET over == {c \in cats : c.id # DefaultID} \ Kept(cats)
  IN {c \in over : \A d \in over : c.id <= d.id}

Leftovers(cats) == {c \in cats : c.id # DefaultID} \ Kept(cats)

(* purgeNonEcosystemCategories: the default category keeps the channels of *)
(* the organizations and gives those of the ecosystem to its category; the *)
(* other custom categories are emptied, and deleted after the update.      *)
purgeNonEcosystemCategories(cats, row) ==
  LET default == UNION {c.channels : c \in {d \in cats : d.id = DefaultID}}
      moved == {x \in default : row[x] = Ecosystem}
  IN {[c EXCEPT !.channels =
         IF c.id = DefaultID THEN {x \in @ : row[x] \notin {Ecosystem, NoRow}}
         ELSE IF c \in Kept(cats) THEN @ \cup moved ELSE {}] : c \in cats}

(* migrateImplicitOrgChannels: the channels without an organization whose  *)
(* names contain that of one.                                              *)
ToMigrate(row, named) == {c \in DOMAIN row : row[c] = NoOrg /\ named[c] # NoOrg}
=============================================================================
