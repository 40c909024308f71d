-------------------------- MODULE Migrations_proofs --------------------------
(***************************************************************************)
(* Proofs about the schema migrations, for any number of servers, any      *)
(* script and any number of failures.                                      *)
(***************************************************************************)
EXTENDS Migrations, TLAPS

(* What the migration to version n makes. *)
ObjectsOf(n) == Script[n].create \cup Script[n].add

(* The script's length is a number, and its migrations make objects only. *)
LEMMA ScriptType ==
  /\ LatestVersion \in Nat
  /\ DOMAIN Script = 1 .. LatestVersion
  /\ \A n \in 1 .. LatestVersion : ObjectsOf(n) \subseteq Objects
<1>1. LatestVersion \in Nat /\ DOMAIN Script = 1 .. LatestVersion
  BY MigrationsAssumption DEF LatestVersion
<1>2. QED
  BY <1>1 DEF Objects, ObjectsOf

(* One more migration makes its own objects, and the last one completes.   *)
LEMMA SchemaOfNext ==
  /\ \A n \in 0 .. LatestVersion : SchemaOf(n) \subseteq Objects
  /\ \A n \in 0 .. LatestVersion :
       n + 1 \in 0 .. LatestVersion
         => SchemaOf(n + 1) = SchemaOf(n) \cup ObjectsOf(n + 1)
  /\ SchemaOf(LatestVersion) = Objects
<1>1. \A n \in 0 .. LatestVersion : SchemaOf(n) \subseteq Objects
  <2>1. TAKE n \in 0 .. LatestVersion
  <2>2. 1 .. n \subseteq DOMAIN Script
    BY ScriptType
  <2>3. QED
    BY <2>2 DEF SchemaOf, Objects
<1>2. ASSUME NEW n \in 0 .. LatestVersion
      PROVE  SchemaOf(n + 1) = SchemaOf(n) \cup ObjectsOf(n + 1)
  <2>1. 1 .. (n + 1) = (1 .. n) \cup {n + 1}
    BY ScriptType
  <2>2. QED
    BY <2>1, Zenon DEF SchemaOf, ObjectsOf
<1>3. SchemaOf(LatestVersion) = Objects
  BY ScriptType, Zenon DEF SchemaOf, Objects
<1>4. QED
  BY <1>1, <1>2, <1>3

------------------------------------------------------------------------------
(* Types.                                                                   *)

(* The numbers and records a server keeps. *)
ServerRecords == [stage : Stages, current : 0 .. LatestVersion]

(* At the start every server is down. *)
LEMMA TypeInit == Init => MigrationsTypeOK
<1>1. SUFFICES ASSUME Init PROVE MigrationsTypeOK
  OBVIOUS
<1>2. version \in 0 .. LatestVersion /\ schema \subseteq Objects
  BY <1>1, SchemaOfNext DEF Init
<1>3. server \in [Servers -> ServerRecords]
  BY <1>1, ScriptType DEF Init, ServerRecords, Stages
<1>4. QED
  BY <1>1, <1>2, <1>3 DEF Init, MigrationsTypeOK, ServerRecords

(* Every step keeps the types. *)
LEMMA TypeStep ==
  ASSUME MigrationsTypeOK, [Next]_vars
  PROVE  MigrationsTypeOK'
<1> USE DEF MigrationsTypeOK, MoveTo, Unlock, Stages
<1>1. ASSUME NEW s \in Servers, OnActivate(s) PROVE MigrationsTypeOK'
  BY <1>1 DEF OnActivate
<1>2. ASSUME NEW s \in Servers, Lock(s) PROVE MigrationsTypeOK'
  BY <1>2 DEF Lock
<1>3. ASSUME NEW s \in Servers, GetCurrentVersion(s) PROVE MigrationsTypeOK'
  BY <1>3 DEF GetCurrentVersion
<1>4. ASSUME NEW s \in Servers, GetCurrentVersionFails(s) PROVE MigrationsTypeOK'
  BY <1>4, ScriptType DEF GetCurrentVersionFails, Fault, FaultKinds
<1>5. ASSUME NEW s \in Servers, Migrate(s) PROVE MigrationsTypeOK'
  <2>1. NextVersion(s) \in 1 .. LatestVersion
    BY <1>5, ScriptType DEF Migrate, Pending, NextVersion
  <2>2. schema' \subseteq Objects
    BY <1>5, <2>1, ScriptType DEF Migrate, ObjectsOf
  <2>3. version' \in 0 .. LatestVersion
        /\ server' \in [Servers -> [stage : Stages, current : 0 .. LatestVersion]]
    BY <1>5, <2>1, ScriptType, NextVersion(s) \in 0 .. LatestVersion DEF Migrate
  <2>4. QED
    BY <1>5, <2>2, <2>3 DEF Migrate
<1>6. ASSUME NEW s \in Servers, MigrateFails(s) PROVE MigrationsTypeOK'
  BY <1>6 DEF MigrateFails, Fault, FaultKinds
<1>7. ASSUME NEW s \in Servers, Activated(s) PROVE MigrationsTypeOK'
  BY <1>7 DEF Activated
<1>8. ASSUME NEW s \in Servers, Crash(s) PROVE MigrationsTypeOK'
  BY <1>8 DEF Crash, Fault, FaultKinds
<1>9. CASE MutexExpires
  BY <1>9 DEF MutexExpires
<1>10. CASE UNCHANGED vars
  BY <1>10 DEF vars
<1>11. QED
  BY <1>1, <1>2, <1>3, <1>4, <1>5, <1>6, <1>7, <1>8, <1>9, <1>10 DEF Next, Run

(* Type correctness, whatever the script and the failures. *)
THEOREM MigrationsTypeCorrect == Spec => []MigrationsTypeOK
  BY TypeInit, TypeStep, PTL DEF Spec

------------------------------------------------------------------------------
(* What is in the database.                                                 *)

(* The database holds all that the stored version stands for, and all that *)
(* a server believes it holds.                                             *)
Covered ==
  /\ SchemaOf(version) \subseteq schema
  /\ \A s \in Servers :
       /\ server[s].stage = "migrating" => SchemaOf(server[s].current) \subseteq schema
       /\ server[s].stage = "up" => Objects \subseteq schema

(* Every step keeps the database covered: no object is ever taken away.    *)
LEMMA CoveredStep ==
  ASSUME MigrationsTypeOK, Covered, [Next]_vars
  PROVE  Covered'
<1> USE DEF MigrationsTypeOK, MoveTo, Covered
<1>1. ASSUME NEW s \in Servers, OnActivate(s) PROVE Covered'
  BY <1>1 DEF OnActivate
<1>2. ASSUME NEW s \in Servers, Lock(s) PROVE Covered'
  BY <1>2 DEF Lock
<1>3. ASSUME NEW s \in Servers, GetCurrentVersion(s) PROVE Covered'
  BY <1>3 DEF GetCurrentVersion
<1>4. ASSUME NEW s \in Servers, GetCurrentVersionFails(s) PROVE Covered'
  <2>1. SchemaOf(0) = {}
    BY DEF SchemaOf
  <2>2. QED
    BY <1>4, <2>1 DEF GetCurrentVersionFails
<1>5. ASSUME NEW s \in Servers, Migrate(s) PROVE Covered'
  <2>1. /\ server[s].current \in 0 .. LatestVersion
        /\ server[s].current + 1 \in 0 .. LatestVersion
        /\ server[s].stage = "migrating"
    BY <1>5, ScriptType DEF Migrate, Pending
  <2>2. schema' = schema \cup ObjectsOf(server[s].current + 1)
    BY <1>5 DEF Migrate, NextVersion, ObjectsOf
  <2>3. SchemaOf(server[s].current + 1) \subseteq schema'
    BY <2>1, <2>2, SchemaOfNext
  <2>4. /\ version' = server[s].current + 1
        /\ \A r \in Servers : server'[r].stage = server[r].stage
        /\ \A r \in Servers \ {s} : server'[r] = server[r]
        /\ server'[s].current = server[s].current + 1
    BY <1>5 DEF Migrate, NextVersion
  <2>5. QED
    BY <2>2, <2>3, <2>4
<1>6. ASSUME NEW s \in Servers, MigrateFails(s) PROVE Covered'
  BY <1>6 DEF MigrateFails
<1>7. ASSUME NEW s \in Servers, Activated(s) PROVE Covered'
  <2>1. server[s].current = LatestVersion
    BY <1>7, ScriptType DEF Activated
  <2>2. QED
    BY <1>7, <2>1, SchemaOfNext DEF Activated
<1>8. ASSUME NEW s \in Servers, Crash(s) PROVE Covered'
  BY <1>8 DEF Crash
<1>9. CASE MutexExpires
  BY <1>9 DEF MutexExpires
<1>10. CASE UNCHANGED vars
  BY <1>10 DEF vars
<1>11. QED
  BY <1>1, <1>2, <1>3, <1>4, <1>5, <1>6, <1>7, <1>8, <1>9, <1>10 DEF Next, Run

(* A server is up over a complete schema only, with or without the mutex,  *)
(* whatever fails.                                                         *)
THEOREM ServersServeACompleteSchema == Spec => []UpIsMigrated
<1>1. Init => Covered
  BY DEF Init, Covered
<1>2. MigrationsTypeOK /\ Covered => UpIsMigrated
  BY DEF MigrationsTypeOK, Covered, UpIsMigrated
<1>3. QED
  BY <1>1, <1>2, CoveredStep, MigrationsTypeCorrect, PTL DEF Spec

------------------------------------------------------------------------------
(* Under the mutex.                                                         *)

(* A server that reads the version or migrates holds the mutex.            *)
Exclusive ==
  \A s \in Servers : server[s].stage \in {"reading", "migrating"} => mutex = s

(* The version a server counts on is still the one that is stored, and the *)
(* stored one tells what is in the database.                               *)
InStep ==
  VersionWasRead =>
    /\ schema = SchemaOf(version)
    /\ \A s \in Servers :
         server[s].stage = "migrating" => server[s].current = version

(* The mutex is taken before and given back after, and expires only for a  *)
(* server that died.                                                       *)
LEMMA ExclusiveStep ==
  ASSUME UseMutex, MigrationsTypeOK, Exclusive, [Next]_vars
  PROVE  Exclusive'
<1> USE DEF MigrationsTypeOK, MoveTo, Unlock, Exclusive
<1>1. ASSUME NEW s \in Servers, OnActivate(s) PROVE Exclusive'
  BY <1>1 DEF OnActivate
<1>2. ASSUME NEW s \in Servers, Lock(s) PROVE Exclusive'
  BY <1>2, MigrationsAssumption DEF Lock
<1>3. ASSUME NEW s \in Servers, GetCurrentVersion(s) PROVE Exclusive'
  BY <1>3 DEF GetCurrentVersion
<1>4. ASSUME NEW s \in Servers, GetCurrentVersionFails(s) PROVE Exclusive'
  BY <1>4 DEF GetCurrentVersionFails
<1>5. ASSUME NEW s \in Servers, Migrate(s) PROVE Exclusive'
  BY <1>5 DEF Migrate, Pending
<1>6. ASSUME NEW s \in Servers, MigrateFails(s) PROVE Exclusive'
  BY <1>6 DEF MigrateFails, Pending
<1>7. ASSUME NEW s \in Servers, Activated(s) PROVE Exclusive'
  BY <1>7 DEF Activated
<1>8. ASSUME NEW s \in Servers, Crash(s) PROVE Exclusive'
  BY <1>8 DEF Crash
<1>9. CASE MutexExpires
  BY <1>9, MigrationsAssumption DEF MutexExpires
<1>10. CASE UNCHANGED vars
  BY <1>10 DEF vars
<1>11. QED
  BY <1>1, <1>2, <1>3, <1>4, <1>5, <1>6, <1>7, <1>8, <1>9, <1>10 DEF Next, Run

(* With the mutex nobody else moves the version a server counts on.        *)
LEMMA InStepStep ==
  ASSUME MigrationsTypeOK, Exclusive, InStep, [Next]_vars
  PROVE  InStep'
<1> USE DEF MigrationsTypeOK, MoveTo, InStep, VersionWasRead, FaultKinds
<1>1. ASSUME NEW s \in Servers, OnActivate(s) PROVE InStep'
  BY <1>1 DEF OnActivate
<1>2. ASSUME NEW s \in Servers, Lock(s) PROVE InStep'
  BY <1>2 DEF Lock
<1>3. ASSUME NEW s \in Servers, GetCurrentVersion(s) PROVE InStep'
  BY <1>3 DEF GetCurrentVersion
<1>4. ASSUME NEW s \in Servers, GetCurrentVersionFails(s) PROVE InStep'
  BY <1>4 DEF GetCurrentVersionFails, Fault
<1>5. ASSUME NEW s \in Servers, Migrate(s) PROVE InStep'
  <2>1. SUFFICES ASSUME VersionWasRead
        PROVE  /\ schema' = SchemaOf(version')
               /\ \A r \in Servers :
                    server'[r].stage = "migrating" => server'[r].current = version'
    BY <1>5 DEF Migrate
  <2>2. /\ server[s].current = version
        /\ version + 1 \in 0 .. LatestVersion
        /\ server[s].stage = "migrating"
    BY <1>5, <2>1, ScriptType DEF Migrate, Pending
  <2>3. schema' = SchemaOf(version) \cup ObjectsOf(version + 1)
        /\ version' = version + 1
    BY <1>5, <2>1, <2>2 DEF Migrate, NextVersion, ObjectsOf
  <2>4. schema' = SchemaOf(version')
    BY <2>2, <2>3, SchemaOfNext
  <2>5. \A r \in Servers \ {s} : server'[r].stage # "migrating"
    BY <1>5, <2>2 DEF Migrate, Exclusive
  <2>6. server'[s].current = version'
    BY <1>5 DEF Migrate
  <2>7. QED
    BY <2>4, <2>5, <2>6
<1>6. ASSUME NEW s \in Servers, MigrateFails(s) PROVE InStep'
  BY <1>6 DEF MigrateFails, Fault
<1>7. ASSUME NEW s \in Servers, Activated(s) PROVE InStep'
  BY <1>7 DEF Activated
<1>8. ASSUME NEW s \in Servers, Crash(s) PROVE InStep'
  BY <1>8 DEF Crash, Fault
<1>9. CASE MutexExpires
  BY <1>9 DEF MutexExpires
<1>10. CASE UNCHANGED vars
  BY <1>10 DEF vars
<1>11. QED
  BY <1>1, <1>2, <1>3, <1>4, <1>5, <1>6, <1>7, <1>8, <1>9, <1>10 DEF Next, Run

(* The two facts hold in every behaviour in which the mutex is used.       *)
LEMMA MutexCorrect ==
  ASSUME UseMutex
  PROVE  Spec => [](MigrationsTypeOK /\ Exclusive /\ InStep)
<1>1. Init => Exclusive /\ InStep
  BY DEF Init, Exclusive, InStep
<1>2. Exclusive /\ MigrationsTypeOK /\ [Next]_vars => Exclusive'
  BY ExclusiveStep
<1>3. QED
  BY <1>1, <1>2, InStepStep, MigrationsTypeCorrect, PTL DEF Spec

(* Under the mutex the stored version tells the schema, until it cannot be *)
(* read: crashes and failed transactions never part them.                  *)
THEOREM SchemaFollowsVersion ==
  ASSUME UseMutex
  PROVE  Spec => []SchemaMatchesVersion
<1>1. InStep => SchemaMatchesVersion
  BY DEF InStep, SchemaMatchesVersion
<1>2. QED
  BY <1>1, MutexCorrect, PTL

(* Under the mutex no migration runs a second time, until the version      *)
(* cannot be read.                                                         *)
THEOREM VersionOnlyGrows ==
  ASSUME UseMutex
  PROVE  Spec => VersionNeverGoesBack
<1>1. MigrationsTypeOK /\ InStep /\ [Next]_vars
        => [VersionWasRead => version' >= version]_vars
  <2>1. SUFFICES ASSUME MigrationsTypeOK, InStep, Next, VersionWasRead
        PROVE  version' >= version
    OBVIOUS
  <2>2. version' = version \/ \E s \in Servers : Migrate(s)
    BY <2>1 DEF Next, Run, OnActivate, Lock, GetCurrentVersion,
        GetCurrentVersionFails, MigrateFails, Activated, Crash, MutexExpires
  <2>3. version \in Nat
    BY <2>1, ScriptType DEF MigrationsTypeOK
  <2>4. QED
    BY <2>1, <2>2, <2>3 DEF InStep, Migrate, Pending, NextVersion
<1>2. QED
  BY <1>1, MutexCorrect, PTL DEF Spec, VersionNeverGoesBack
=============================================================================
