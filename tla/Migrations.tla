------------------------------ MODULE Migrations ------------------------------
(***************************************************************************)
(* The schema migrations, which the plugin (server/sqlstore) and the data  *)
(* provider (config/db) both run when they start, over a list of           *)
(* migrations each.  The plugin takes a cluster mutex, the provider none.  *)
(*                                                                         *)
(* A migration and the new version are committed in one transaction; on    *)
(* PostgreSQL, modelled here, CREATE and ALTER belong to it.  Versions are *)
(* counted: migration n leads from version n - 1 to version n.             *)
(***************************************************************************)
EXTENDS Naturals, Sequences

CONSTANTS
  Servers,   \* the processes that migrate the same database
  NoServer,  \* nobody holds the mutex
  Script,    \* the migrations, each with the objects it adds
  UseMutex,  \* whether the caller of RunMigrations holds the cluster mutex
  MaxFaults  \* bound: how many failures of each kind happen

FaultKinds == {"read", "database", "crash"}

(* `create' are objects made by CREATE ... IF NOT EXISTS, `add' those made *)
(* by statements that fail when the object is there.                       *)
Objects == UNION {Script[n].create \cup Script[n].add : n \in DOMAIN Script}

ASSUME MigrationsAssumption ==
  /\ NoServer \notin Servers
  /\ Script \in Seq([create : SUBSET Objects, add : SUBSET Objects])
  /\ UseMutex \in BOOLEAN
  /\ MaxFaults \in [FaultKinds -> Nat]

(* No object is made by two migrations. *)
ASSUME ScriptAssumption ==
  \A m, n \in DOMAIN Script :
    m < n => (Script[m].create \cup Script[m].add) \cap Script[n].add = {}

VARIABLES
  version, \* the DatabaseVersion row of the system table, 0 without it
  schema,  \* the objects that are in the database
  mutex,   \* the server that holds CSA_dbMutex
  server,  \* what each server is at, and its local currentSchemaVersion
  faults   \* how many failures of each kind have happened

vars == <<version, schema, mutex, server, faults>>

Stages == {"down", "locking", "reading", "migrating", "up"}

(* Mutant: the last migration is forgotten. *)
LatestVersionBeforeLast == IF Script = <<>> THEN 0 ELSE Len(Script) - 1

LatestVersion == Len(Script)

(* The objects of the database after the first v migrations. *)
SchemaOf(v) == UNION {Script[n].create \cup Script[n].add : n \in 1 .. v}

Init ==
  /\ version \in 0 .. LatestVersion
  /\ schema = SchemaOf(version)
  /\ mutex = NoServer
  /\ server = [s \in Servers |-> [stage |-> "down", current |-> 0]]
  /\ faults = [kind \in FaultKinds |-> 0]

MoveTo(s, stage) == server' = [server EXCEPT ![s].stage = stage]

Unlock(s) == mutex' = IF mutex = s THEN NoServer ELSE mutex

Fault(kind) ==
  /\ faults[kind] < MaxFaults[kind]
  /\ faults' = [faults EXCEPT ![kind] = @ + 1]

------------------------------------------------------------------------------
(* Mutant: the migrations run without the mutex. *)
OnActivateUnlocked(s) ==
  /\ server[s].stage = "down"
  /\ MoveTo(s, "reading")
  /\ UNCHANGED <<version, schema, mutex, faults>>

(* The server starts, or starts again. *)
OnActivate(s) ==
  /\ server[s].stage = "down"
  /\ MoveTo(s, IF UseMutex THEN "locking" ELSE "reading")
  /\ UNCHANGED <<version, schema, mutex, faults>>

Lock(s) ==
  /\ server[s].stage = "locking"
  /\ mutex = NoServer
  /\ mutex' = s
  /\ MoveTo(s, "reading")
  /\ UNCHANGED <<version, schema, faults>>

(* The version is read before, and outside, all the transactions. *)
GetCurrentVersion(s) ==
  /\ server[s].stage = "reading"
  /\ server' = [server EXCEPT ![s] = [stage |-> "migrating", current |-> version]]
  /\ UNCHANGED <<version, schema, mutex, faults>>

(* When the query fails its value is empty, which is looked at before its  *)
(* error: the database counts as new.                                      *)
GetCurrentVersionFails(s) ==
  /\ server[s].stage = "reading"
  /\ Fault("read")
  /\ server' = [server EXCEPT ![s] = [stage |-> "migrating", current |-> 0]]
  /\ UNCHANGED <<version, schema, mutex>>

(* s has a migration to run: the one from its own current version. *)
Pending(s) == server[s].stage = "migrating" /\ server[s].current < LatestVersion
NextVersion(s) == server[s].current + 1

(* A statement of the migration finds its object made already. *)
Clashes(s) == Script[NextVersion(s)].add \cap schema # {}

(* Mutant: the version stored is the one the migration starts from. *)
MigrateStoringFrom(s) ==
  /\ Pending(s)
  /\ ~Clashes(s)
  /\ schema' = schema \cup Script[NextVersion(s)].create \cup Script[NextVersion(s)].add
  /\ version' = server[s].current
  /\ server' = [server EXCEPT ![s].current = NextVersion(s)]
  /\ UNCHANGED <<mutex, faults>>

(* Mutant: the loop skips a version. *)
MigrateCountingTwice(s) ==
  /\ Pending(s)
  /\ ~Clashes(s)
  /\ schema' = schema \cup Script[NextVersion(s)].create \cup Script[NextVersion(s)].add
  /\ version' = NextVersion(s)
  /\ server' = [server EXCEPT ![s].current = NextVersion(s) + 1]
  /\ UNCHANGED <<mutex, faults>>

(* migrate: one transaction that makes the objects and stores the version. *)
Migrate(s) ==
  /\ Pending(s)
  /\ ~Clashes(s)
  /\ schema' = schema \cup Script[NextVersion(s)].create \cup Script[NextVersion(s)].add
  /\ version' = NextVersion(s)
  /\ server' = [server EXCEPT ![s].current = NextVersion(s)]
  /\ UNCHANGED <<mutex, faults>>

(* The transaction fails and is rolled back, and the server gives up: for a*)
(* statement that clashes, or for an error of the database.                *)
MigrateFails(s) ==
  /\ Pending(s)
  /\ \/ Clashes(s) /\ UNCHANGED faults
     \/ Fault("database")
  /\ MoveTo(s, "down")
  /\ Unlock(s)
  /\ UNCHANGED <<version, schema>>

(* Mutant: the mutex is not given back. *)
ActivatedStillLocked(s) ==
  /\ server[s].stage = "migrating"
  /\ server[s].current >= LatestVersion
  /\ MoveTo(s, "up")
  /\ UNCHANGED <<version, schema, mutex, faults>>

(* RunMigrations has nothing left to run. *)
Activated(s) ==
  /\ server[s].stage = "migrating"
  /\ server[s].current >= LatestVersion
  /\ MoveTo(s, "up")
  /\ Unlock(s)
  /\ UNCHANGED <<version, schema, faults>>

(* The process dies; an open transaction is rolled back. *)
Crash(s) ==
  /\ server[s].stage # "down"
  /\ Fault("crash")
  /\ MoveTo(s, "down")
  /\ UNCHANGED <<version, schema, mutex>>

(* The mutex of a process that died expires. *)
MutexExpires ==
  /\ mutex # NoServer
  /\ server[mutex].stage \in {"down", "locking"}
  /\ mutex' = NoServer
  /\ UNCHANGED <<version, schema, server, faults>>

Run(s) ==
  \/ OnActivate(s) \/ Lock(s) \/ GetCurrentVersion(s)
  \/ Migrate(s) \/ MigrateFails(s) \/ Activated(s)

Next ==
  \/ \E s \in Servers : Run(s) \/ GetCurrentVersionFails(s) \/ Crash(s)
  \/ MutexExpires

Spec == Init /\ [][Next]_vars

------------------------------------------------------------------------------
(* Every variable holds a value of its kind. *)
MigrationsTypeOK ==
  /\ version \in 0 .. LatestVersion
  /\ schema \subseteq Objects
  /\ mutex \in Servers \cup {NoServer}
  /\ server \in [Servers -> [stage : Stages, current : 0 .. LatestVersion]]
  /\ faults \in [FaultKinds -> Nat]

(* No server took the database for a new one because it could not read. *)
VersionWasRead == faults["read"] = 0

(* The version that is stored tells what is in the database, wherever a    *)
(* server has failed, died or been overtaken by another, as long as        *)
(* GetCurrentVersion has not mistaken the database for a new one.          *)
SchemaMatchesVersion == VersionWasRead => schema = SchemaOf(version)

(* A server answers requests over a complete schema only, and it stays     *)
(* complete whatever other servers run, even those that start over.        *)
UpIsMigrated ==
  \A s \in Servers : server[s].stage = "up" => schema = Objects

(* The stored version never goes back, so no migration runs twice, unless  *)
(* it could not be read.                                                   *)
VersionNeverGoesBack == [][VersionWasRead => version' >= version]_vars

(* Servers are started again when they are down; the rest runs by itself.  *)
Fairness ==
  /\ \A s \in Servers : WF_vars(Run(s)) /\ SF_vars(Lock(s))
  /\ WF_vars(MutexExpires)

FairSpec == Spec /\ Fairness

(* However servers fail or die, a later start succeeds: no failed migration*)
(* leaves the database in a state no server can start from.                *)
EveryServerComesUp ==
  \A s \in Servers : <>[](server[s].stage = "up") \/ <>~VersionWasRead

(* "failed retrieving the DatabaseVersion key": a version that cannot be   *)
(* read stops this start of the server, and a later one succeeds.          *)
FailedReadIsTransient == \A s \in Servers : <>[](server[s].stage = "up")

------------------------------------------------------------------------------
(* The migrations of the provider, and of the plugin on PostgreSQL.        *)

ProviderScript ==
  << [create |-> {"CSFDP_System", "CSFDP_Issue"}, add |-> {}],
     [create |-> {}, add |-> {}],
     [create |-> {}, add |-> {"CSFDP_Issue.DeleteAt"}],
     [create |-> {"CSFDP_Policy"}, add |-> {}],
     [create |-> {"CSFDP_Ecosystem_Graph", "CSFDP_Locks"}, add |-> {}] >>

PluginScript ==
  << [create |-> {"CSA_System", "CSA_Channel"}, add |-> {}],
     [create |-> {}, add |-> {}],
     [create |-> {}, add |-> {}],
     [create |-> {}, add |-> {"CSA_Channel.OrganizationID"}],
     [create |-> {"CSA_Backlinks"}, add |-> {"CSA_Backlinks_idx"}] >>
=============================================================================
