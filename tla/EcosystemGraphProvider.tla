------------------------ MODULE EcosystemGraphProvider ------------------------
(***************************************************************************)
(* The ecosystem graph of the data provider: the request handlers of       *)
(* controller/ecosystem_graph.go over the lease table of repository/       *)
(* cache.go and the graph tables of repository/ecosystem_graph.go.         *)
(*                                                                         *)
(* A handler is not atomic.  RefreshLockEcosystemGraph reads the clock,    *)
(* then commits the lease in one transaction, then saves the graph in      *)
(* another; the requests of all clients interleave between those steps.    *)
(* The save itself is one transaction and is atomic here.                  *)
(*                                                                         *)
(* A graph is the set of the edits it carries over the graph the system    *)
(* started with: enough to tell which work a save stores or overwrites.    *)
(***************************************************************************)
EXTENDS CacheRepository, FiniteSets

CONSTANTS
  Clients,      \* mounted editors that call the provider
  UserOf,       \* the user logged in at each client
  Edits,        \* the edits a graph may carry
  NoNodes,      \* a request body without nodes
  LockDelays,   \* the lockDelays clients ask for
  Calls,        \* bound: identifiers of the requests in flight at one time
  InOrder,      \* whether a client's requests are served and answered in order
  Failures,     \* which failures happen: a subset of {"error", "lost"}
  MaxRoundTrip, \* a request is sent, served and answered within this time
  MaxTime       \* bound: the clock stops here

ASSUME UserOfAssumption == UserOf \in [Clients -> Users]
ASSUME NoNodesAssumption == \A g \in SUBSET Edits : NoNodes # g
ASSUME ProviderAssumption ==
  /\ LockDelays \subseteq Nat
  /\ InOrder \in BOOLEAN
  /\ MaxRoundTrip \in Nat
  /\ MaxTime \in Nat
  /\ NoOne \notin Clients

VARIABLES
  graph, \* the rows of the node and edge tables
  call   \* the requests in flight

providerVars == <<now, lockOwner, lockExpiresAt, graph, call>>

Graphs == SUBSET Edits
Payloads == {NoNodes} \cup Graphs

(* "sent": on its way.  "clocked": GetLock has read the clock.  "granted": *)
(* the lease is committed, the save still to run.  Then the answer: 200,   *)
(* 409, 500, or none because the connection failed.                        *)
Answers == {"ok", "conflict", "error", "lost"}
Stages == {"idle", "sent", "clocked", "granted"} \cup Answers

CallRecords ==
  [stage : Stages,
   from : Clients \cup {NoOne},
   endpoint : {"lock", "drop_lock"},
   data : Payloads,
   lockDelay : LockDelays \cup {0},
   sentAt : Nat,
   older : SUBSET Calls,  \* requests of the same client sent before, unanswered
   currentUnix : Nat,     \* GetLock's locals
   expiresAt : Nat]

NoCall ==
  [stage |-> "idle", from |-> NoOne, endpoint |-> "lock", data |-> NoNodes,
   lockDelay |-> 0, sentAt |-> 0, older |-> {}, currentUnix |-> 0,
   expiresAt |-> 0]

(* The requests of client c that have not been answered. *)
Outstanding(c) == {k \in Calls : call[k].stage # "idle" /\ call[k].from = c}

(* The user a request names. *)
Caller(k) == UserOf[call[k].from]

(* With ordered delivery the provider starts on a request once the client  *)
(* has the answers to all it sent before.                                  *)
MayStart(k) == call[k].stage = "sent" /\ (InOrder => call[k].older = {})

MoveTo(k, stage) == call' = [call EXCEPT ![k].stage = stage]

ProviderInit ==
  /\ now = 0
  /\ LockInit
  /\ graph = {}
  /\ call = [k \in Calls |-> NoCall]

------------------------------------------------------------------------------
(* The clients' side of a request.                                          *)

(* c sends a request as k, which is free or whose answer c consumes first. *)
Request(k, c, endpoint, data, lockDelay) ==
  /\ \/ call[k].stage = "idle"
     \/ call[k].stage \in Answers /\ call[k].from = c
  /\ call' = [j \in Calls |->
       IF j = k
       THEN [NoCall EXCEPT !.stage = "sent", !.from = c,
                           !.endpoint = endpoint, !.data = data,
                           !.lockDelay = lockDelay, !.sentAt = now,
                           !.older = Outstanding(c) \ {k}]
       ELSE [call[j] EXCEPT !.older = @ \ {k}]]
  /\ UNCHANGED <<now, lockOwner, lockExpiresAt, graph>>

RequestLock(k, c, data, lockDelay) == Request(k, c, "lock", data, lockDelay)
RequestDropLock(k, c) == Request(k, c, "drop_lock", NoNodes, 0)

(* The client consumes the answer to k. *)
Receive(k) ==
  /\ call[k].stage \in Answers
  /\ call' = [j \in Calls |->
       IF j = k THEN NoCall ELSE [call[j] EXCEPT !.older = @ \ {k}]]
  /\ UNCHANGED <<now, lockOwner, lockExpiresAt, graph>>

(* The connection fails before the request arrives, or before its answer. *)
LoseRequest(k) ==
  /\ "lost" \in Failures
  /\ call[k].stage \in {"sent", "ok", "conflict", "error"}
  /\ MoveTo(k, "lost")
  /\ UNCHANGED <<now, lockOwner, lockExpiresAt, graph>>

------------------------------------------------------------------------------
(* RefreshLockEcosystemGraph.                                               *)

(* GetLock up to its SQL: it reads the clock. *)
GetLockReadClock(k) ==
  /\ MayStart(k)
  /\ call[k].endpoint = "lock"
  /\ ~TooLong(call[k].lockDelay)
  /\ call' = [call EXCEPT ![k].stage = "clocked",
                          ![k].currentUnix = now,
                          ![k].expiresAt = ExpiresAt(call[k].lockDelay)]
  /\ UNCHANGED <<now, lockOwner, lockExpiresAt, graph>>

(* GetLock refuses the delay: an error, not a conflict. *)
GetLockTooLong(k) ==
  /\ MayStart(k)
  /\ call[k].endpoint = "lock"
  /\ TooLong(call[k].lockDelay)
  /\ MoveTo(k, "error")
  /\ UNCHANGED <<now, lockOwner, lockExpiresAt, graph>>

(* What the handler does with a lease it obtained: save the nodes it was   *)
(* given, or, when there are none, answer.                                 *)
AfterLock(k) == IF call[k].data = NoNodes THEN "ok" ELSE "granted"

(* GetLock's SQL takes or renews the lease. *)
GetLockGrant(k) ==
  /\ call[k].stage = "clocked"
  /\ CanLock(Caller(k), call[k].currentUnix)
  /\ UpsertLock(Caller(k), call[k].expiresAt)
  /\ call' = [call EXCEPT ![k].stage = AfterLock(k),
                          ![k].currentUnix = 0, ![k].expiresAt = 0]
  /\ UNCHANGED <<now, graph>>

(* Mutant: the handler goes on to save although no row was affected. *)
GetLockConflictIgnored(k) ==
  /\ call[k].stage = "clocked"
  /\ ~CanLock(Caller(k), call[k].currentUnix)
  /\ MoveTo(k, AfterLock(k))
  /\ UNCHANGED <<now, lockOwner, lockExpiresAt, graph>>

(* GetLock's SQL affects no row: 409. *)
GetLockConflict(k) ==
  /\ call[k].stage = "clocked"
  /\ ~CanLock(Caller(k), call[k].currentUnix)
  /\ call' = [call EXCEPT ![k].stage = "conflict",
                          ![k].currentUnix = 0, ![k].expiresAt = 0]
  /\ UNCHANGED <<now, lockOwner, lockExpiresAt, graph>>

(* SaveEcosystemGraph: the tables are emptied and filled with the payload. *)
SaveEcosystemGraph(k) ==
  /\ call[k].stage = "granted"
  /\ graph' = call[k].data
  /\ MoveTo(k, "ok")
  /\ UNCHANGED <<now, lockOwner, lockExpiresAt>>

------------------------------------------------------------------------------
(* DropLockEcosystemGraph.                                                  *)
DropLockEcosystemGraph(k) ==
  /\ MayStart(k)
  /\ call[k].endpoint = "drop_lock"
  /\ DropLock(Caller(k))
  /\ MoveTo(k, "ok")
  /\ UNCHANGED <<now, graph>>

(* A database error in any of the transactions: it rolls back, the handler *)
(* answers 500, and what an earlier transaction committed stays.           *)
DatabaseError(k) ==
  /\ "error" \in Failures
  /\ MayStart(k) \/ call[k].stage \in {"clocked", "granted"}
  /\ call' = [call EXCEPT ![k].stage = "error",
                          ![k].currentUnix = 0, ![k].expiresAt = 0]
  /\ UNCHANGED <<now, lockOwner, lockExpiresAt, graph>>

(* Time passes, but no request lives longer than MaxRoundTrip. *)
Tick ==
  /\ now < MaxTime
  /\ \A k \in Calls :
       call[k].stage # "idle" => now < call[k].sentAt + MaxRoundTrip
  /\ now' = now + 1
  /\ UNCHANGED <<lockOwner, lockExpiresAt, graph, call>>

Serve(k) ==
  \/ GetLockReadClock(k)
  \/ GetLockTooLong(k)
  \/ GetLockGrant(k)
  \/ GetLockConflict(k)
  \/ SaveEcosystemGraph(k)
  \/ DropLockEcosystemGraph(k)
  \/ DatabaseError(k)

(* Clients that send any request at any time. *)
ProviderNext ==
  \/ \E k \in Calls :
       \/ \E c \in Clients, data \in Payloads, lockDelay \in LockDelays :
            RequestLock(k, c, data, lockDelay)
       \/ \E c \in Clients : RequestDropLock(k, c)
       \/ Receive(k)
       \/ LoseRequest(k)
       \/ Serve(k)
  \/ Tick

ProviderSpec == ProviderInit /\ [][ProviderNext]_providerVars

------------------------------------------------------------------------------
(* Every variable holds a value of its kind. *)
ProviderTypeOK ==
  /\ now \in Nat
  /\ lockOwner \in Users \cup {NoOne}
  /\ lockExpiresAt \in Nat
  /\ graph \in Graphs
  /\ call \in [Calls -> CallRecords]
  /\ \A k \in Calls : call[k].stage # "idle" => call[k].from \in Clients

(* A handler that is about to save still holds the lease it checked in the *)
(* transaction before: RefreshLockEcosystemGraph checks in GetLock and     *)
(* writes in SaveEcosystemGraph, with other requests in between.           *)
SaverHoldsLock ==
  \A k \in Calls :
    call[k].stage = "granted" =>
      lockOwner = Caller(k) /\ now <= lockExpiresAt

(* The lease passes from one user to another only after it has expired by  *)
(* the clock, however long before its SQL GetLock read that clock, and     *)
(* whatever requests are lost, fail or overtake each other.                *)
LeaseRespected ==
  [][(lockOwner # NoOne /\ lockOwner' \notin {NoOne, lockOwner})
       => lockExpiresAt < now]_providerVars

(* The handlers, with their separate transactions, implement the abstract  *)
(* leased graph.                                                           *)
Leased == INSTANCE LeasedGraph WITH
  MaxLease <- MAX_LOCK_TIME + LOCK_TIME_EXTRA_TIME
LeasedGraphSpec == Leased!Spec
=============================================================================
