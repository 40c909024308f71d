-------------------------- MODULE EcosystemGraph_proofs --------------------------
(***************************************************************************)
(* Proofs about the lock and the ecosystem graph in the provider, for      *)
(* every set of clients, edits, delays and requests in flight, and without *)
(* a bound on the clock that matters (MaxTime is any natural number), and  *)
(* about the editors together with it.                                     *)
(*                                                                         *)
(* LeaseRespected holds however requests overtake each other.  That a save *)
(* runs under the lease, and with it the refinement of LeasedGraph, needs  *)
(* the three assumptions of OneRequestAtATime: a client's requests are     *)
(* served one after the other, each client is the only one of its user,    *)
(* and a request does not outlive the extra time of the lease.             *)
(*                                                                         *)
(* The editors are clients of the provider: every one of their steps is a  *)
(* step of ProviderSpec or none of the provider's business, so what is     *)
(* proved of the lease in the first part holds here, too.                  *)
(***************************************************************************)
EXTENDS EcosystemGraphEditor, TLAPS

------------------------------------------------------------------------------
(* Type correctness.                                                        *)

(* RefreshLockEcosystemGraph saves only a payload with nodes.  The type of *)
(* graph rests on it: without it ProviderTypeOK is not inductive.          *)
SavesNodes == \A k \in Calls : call[k].stage = "granted" => call[k].data # NoNodes

(* The initial state is well typed. *)
LEMMA TypeInit == ProviderInit => ProviderTypeOK
  BY NoNodesAssumption, LockTimesAssumption, ProviderAssumption
  DEF ProviderInit, LockInit, ProviderTypeOK, CallRecords, NoCall, Stages,
      Answers, Payloads, Graphs

(* A request is well typed, and so is every one it is sent behind. *)
LEMMA TypeRequest ==
  ASSUME ProviderTypeOK,
         NEW k \in Calls, NEW c \in Clients,
         NEW endpoint \in {"lock", "drop_lock"}, NEW data \in Payloads,
         NEW lockDelay \in LockDelays \cup {0},
         Request(k, c, endpoint, data, lockDelay)
  PROVE  ProviderTypeOK'
<1>1. [NoCall EXCEPT !.stage = "sent", !.from = c, !.endpoint = endpoint,
                     !.data = data, !.lockDelay = lockDelay, !.sentAt = now,
                     !.older = Outstanding(c) \ {k}] \in CallRecords
  BY DEF ProviderTypeOK, NoCall, CallRecords, Stages, Outstanding, Payloads
<1>2. ASSUME NEW j \in Calls
      PROVE  [call[j] EXCEPT !.older = @ \ {k}] \in CallRecords
  BY DEF ProviderTypeOK, CallRecords
<1>3. call' \in [Calls -> CallRecords]
  BY <1>1, <1>2 DEF Request
<1>4. \A j \in Calls : call'[j].stage # "idle" => call'[j].from \in Clients
  BY DEF Request, ProviderTypeOK, CallRecords, NoCall
<1>5. QED
  BY <1>3, <1>4 DEF Request, ProviderTypeOK

(* Consuming an answer leaves every record well typed. *)
LEMMA TypeReceive ==
  ASSUME ProviderTypeOK, NEW k \in Calls, Receive(k)
  PROVE  ProviderTypeOK'
<1>1. NoCall \in CallRecords
  BY ProviderAssumption DEF NoCall, CallRecords, Stages, Payloads
<1>2. ASSUME NEW j \in Calls
      PROVE  [call[j] EXCEPT !.older = @ \ {k}] \in CallRecords
  BY DEF ProviderTypeOK, CallRecords
<1>3. call' \in [Calls -> CallRecords]
  BY <1>1, <1>2 DEF Receive
<1>4. \A j \in Calls : call'[j].stage # "idle" => call'[j].from \in Clients
  BY DEF Receive, ProviderTypeOK, CallRecords, NoCall
<1>5. QED
  BY <1>3, <1>4 DEF Receive, ProviderTypeOK

(* The expiry that GetLock computes is a time. *)
LEMMA ExpiresAtType ==
  ASSUME now \in Nat, NEW lockDelay \in LockDelays \cup {0}
  PROVE  ExpiresAt(lockDelay) \in Nat
  BY LockTimesAssumption, ProviderAssumption DEF ExpiresAt

(* What a handler does to the record of its request is well typed. *)
LEMMA ProgressType ==
  ASSUME call \in [Calls -> CallRecords], NEW k \in Calls,
         NEW stage \in Stages, NEW currentUnix \in Nat, NEW expiresAt \in Nat
  PROVE  [call EXCEPT ![k].stage = stage, ![k].currentUnix = currentUnix,
                      ![k].expiresAt = expiresAt] \in [Calls -> CallRecords]
<1> DEFINE r == [call[k] EXCEPT !.stage = stage, !.currentUnix = currentUnix,
                                !.expiresAt = expiresAt]
<1>1. [call[k] EXCEPT !.stage = stage] \in CallRecords
  BY DEF CallRecords
<1>2. [call[k] EXCEPT !.stage = stage, !.currentUnix = currentUnix] \in CallRecords
  BY <1>1 DEF CallRecords
<1>3. r \in CallRecords
  BY <1>2 DEF CallRecords
<1>4. [call EXCEPT ![k].stage = stage, ![k].currentUnix = currentUnix,
                   ![k].expiresAt = expiresAt] = [call EXCEPT ![k] = r]
  OBVIOUS
<1>5. QED
  BY <1>3, <1>4

(* So is a change of its stage alone. *)
LEMMA MoveToType ==
  ASSUME call \in [Calls -> CallRecords], NEW k \in Calls,
         NEW stage \in Stages, MoveTo(k, stage)
  PROVE  call' \in [Calls -> CallRecords]
<1>1. [call[k] EXCEPT !.stage = stage] \in CallRecords
  BY DEF CallRecords
<1>2. QED
  BY <1>1 DEF MoveTo

(* A step of a handler keeps the variables well typed. *)
LEMMA TypeServe ==
  ASSUME ProviderTypeOK, SavesNodes, NEW k \in Calls, Serve(k)
  PROVE  ProviderTypeOK'
<1> USE DEF ProviderTypeOK
<1>1. CASE GetLockReadClock(k)
  <2>1. ExpiresAt(call[k].lockDelay) \in Nat
    BY ExpiresAtType DEF CallRecords
  <2>2. call' \in [Calls -> CallRecords]
    BY <1>1, <2>1, ProgressType DEF GetLockReadClock, Stages
  <2>3. QED
    BY <1>1, <2>2 DEF GetLockReadClock, MayStart
<1>2. CASE GetLockTooLong(k)
  <2>1. call' \in [Calls -> CallRecords]
    BY <1>2, MoveToType DEF GetLockTooLong, Stages, Answers
  <2>2. QED
    BY <1>2, <2>1 DEF GetLockTooLong, MayStart, MoveTo
<1>3. CASE GetLockGrant(k)
  <2>1. call' \in [Calls -> CallRecords]
    BY <1>3, ProgressType DEF GetLockGrant, AfterLock, Stages, Answers
  <2>2. Caller(k) \in Users /\ call[k].expiresAt \in Nat
    BY <1>3, UserOfAssumption DEF GetLockGrant, Caller, CallRecords
  <2>3. QED
    BY <1>3, <2>1, <2>2 DEF GetLockGrant, UpsertLock
<1>4. CASE GetLockConflict(k)
  <2>1. call' \in [Calls -> CallRecords]
    BY <1>4, ProgressType DEF GetLockConflict, Stages, Answers
  <2>2. QED
    BY <1>4, <2>1 DEF GetLockConflict
<1>5. CASE SaveEcosystemGraph(k)
  <2>1. call' \in [Calls -> CallRecords]
    BY <1>5, MoveToType DEF SaveEcosystemGraph, Stages, Answers
  <2>2. graph' \in Graphs
    BY <1>5 DEF SaveEcosystemGraph, SavesNodes, CallRecords, Payloads
  <2>3. QED
    BY <1>5, <2>1, <2>2 DEF SaveEcosystemGraph, MoveTo
<1>6. CASE DropLockEcosystemGraph(k)
  <2>1. call' \in [Calls -> CallRecords]
    BY <1>6, MoveToType DEF DropLockEcosystemGraph, Stages, Answers
  <2>2. QED
    BY <1>6, <2>1
    DEF DropLockEcosystemGraph, DropLock, lockVars, MayStart, MoveTo
<1>7. CASE DatabaseError(k)
  <2>1. call' \in [Calls -> CallRecords]
    BY <1>7, ProgressType DEF DatabaseError, Stages, Answers
  <2>2. QED
    BY <1>7, <2>1 DEF DatabaseError, MayStart
<1>8. QED
  BY <1>1, <1>2, <1>3, <1>4, <1>5, <1>6, <1>7 DEF Serve

(* What a step on behalf of one request does to the record of another:     *)
(* nothing, but that it may leave the other with fewer ones before it.     *)
Untouched(j) ==
  /\ call'[j].stage = call[j].stage
  /\ call'[j].from = call[j].from
  /\ call'[j].data = call[j].data
  /\ call'[j].lockDelay = call[j].lockDelay
  /\ call'[j].sentAt = call[j].sentAt
  /\ call'[j].older \subseteq call[j].older
  /\ call'[j].currentUnix = call[j].currentUnix
  /\ call'[j].expiresAt = call[j].expiresAt

(* Serving one request leaves the others alone. *)
LEMMA ServeFrame ==
  ASSUME ProviderTypeOK, NEW k \in Calls, NEW j \in Calls \ {k}, Serve(k)
  PROVE  call'[j] = call[j]
<1> USE DEF ProviderTypeOK, MoveTo
<1>1. CASE GetLockReadClock(k)  BY <1>1 DEF GetLockReadClock
<1>2. CASE GetLockTooLong(k)  BY <1>2 DEF GetLockTooLong
<1>3. CASE GetLockGrant(k)  BY <1>3 DEF GetLockGrant
<1>4. CASE GetLockConflict(k)  BY <1>4 DEF GetLockConflict
<1>5. CASE SaveEcosystemGraph(k)  BY <1>5 DEF SaveEcosystemGraph
<1>6. CASE DropLockEcosystemGraph(k)  BY <1>6 DEF DropLockEcosystemGraph
<1>7. CASE DatabaseError(k)  BY <1>7 DEF DatabaseError
<1>8. QED
  BY <1>1, <1>2, <1>3, <1>4, <1>5, <1>6, <1>7 DEF Serve

(* What a step of a handler does to the record of its own request.         *)
LEMMA ServeOwn ==
  ASSUME ProviderTypeOK, NEW k \in Calls, Serve(k)
  PROVE  /\ call[k].stage \in {"sent", "clocked", "granted"}
         /\ call'[k].stage \in {"clocked", "granted"} \cup Answers
         /\ call'[k].from = call[k].from
         /\ call'[k].data = call[k].data
         /\ call'[k].lockDelay = call[k].lockDelay
         /\ call'[k].sentAt = call[k].sentAt
         /\ call'[k].older = call[k].older
         /\ call'[k].stage = "clocked" => GetLockReadClock(k)
         /\ call'[k].stage = "granted" => GetLockGrant(k)
         /\ now' = now
<1> USE DEF ProviderTypeOK, CallRecords, MoveTo, MayStart, Answers
<1>1. CASE GetLockReadClock(k)  BY <1>1 DEF GetLockReadClock
<1>2. CASE GetLockTooLong(k)  BY <1>2 DEF GetLockTooLong
<1>3. CASE GetLockGrant(k)  BY <1>3 DEF GetLockGrant, AfterLock
<1>4. CASE GetLockConflict(k)  BY <1>4 DEF GetLockConflict
<1>5. CASE SaveEcosystemGraph(k)  BY <1>5 DEF SaveEcosystemGraph
<1>6. CASE DropLockEcosystemGraph(k)  BY <1>6 DEF DropLockEcosystemGraph
<1>7. CASE DatabaseError(k)  BY <1>7 DEF DatabaseError
<1>8. QED
  BY <1>1, <1>2, <1>3, <1>4, <1>5, <1>6, <1>7 DEF Serve

(* A step of a client concerns one request: the others are left alone, but *)
(* for the older requests they wait for.                                   *)
LEMMA ClientFrame ==
  ASSUME ProviderTypeOK, NEW k \in Calls, NEW j \in Calls \ {k},
         \/ \E c \in Clients, endpoint \in {"lock", "drop_lock"},
               data \in Payloads, lockDelay \in LockDelays \cup {0} :
               Request(k, c, endpoint, data, lockDelay)
         \/ Receive(k)
         \/ LoseRequest(k)
  PROVE  Untouched(j)
<1>1. call[j] \in CallRecords
  BY DEF ProviderTypeOK
<1>2. call'[j] = [call[j] EXCEPT !.older = @ \ {k}] \/ call'[j] = call[j]
  BY DEF Request, Receive, LoseRequest, MoveTo, ProviderTypeOK
<1>3. QED
  BY <1>1, <1>2 DEF Untouched, CallRecords

(* What a client's step does to the record of its own request. *)
LEMMA ClientOwn ==
  ASSUME ProviderTypeOK, NEW k \in Calls,
         \/ \E c \in Clients, endpoint \in {"lock", "drop_lock"},
               data \in Payloads, lockDelay \in LockDelays \cup {0} :
               Request(k, c, endpoint, data, lockDelay)
         \/ Receive(k)
         \/ LoseRequest(k)
  PROVE  /\ call'[k].stage \notin {"clocked", "granted"}
         /\ UNCHANGED <<now, lockOwner, lockExpiresAt, graph>>
<1>1. CASE LoseRequest(k)
  BY <1>1 DEF LoseRequest, MoveTo, ProviderTypeOK, CallRecords
<1>2. CASE Receive(k)
  BY <1>2 DEF Receive, NoCall
<1>3. ASSUME NEW c \in Clients, NEW endpoint \in {"lock", "drop_lock"},
             NEW data \in Payloads, NEW lockDelay \in LockDelays \cup {0},
             Request(k, c, endpoint, data, lockDelay)
      PROVE  /\ call'[k].stage \notin {"clocked", "granted"}
             /\ UNCHANGED <<now, lockOwner, lockExpiresAt, graph>>
  BY <1>3 DEF Request, NoCall
<1>4. QED
  BY <1>1, <1>2, <1>3

(* Every step but a tick of the clock is on behalf of one request.         *)
LEMMA StepOfOneCall ==
  ASSUME ProviderNext
  PROVE  \/ Tick
         \/ \E k \in Calls :
              \/ \E c \in Clients, endpoint \in {"lock", "drop_lock"},
                    data \in Payloads, lockDelay \in LockDelays \cup {0} :
                    Request(k, c, endpoint, data, lockDelay)
              \/ Receive(k)
              \/ LoseRequest(k)
              \/ Serve(k)
  BY DEF ProviderNext, RequestLock, RequestDropLock, Payloads

(* No step of the provider brings a request without nodes to its save. *)
LEMMA SavesNodesStep ==
  ASSUME ProviderTypeOK, SavesNodes, ProviderNext
  PROVE  SavesNodes'
<1>1. ASSUME Tick PROVE SavesNodes'
  BY <1>1 DEF Tick, SavesNodes
<1>2. ASSUME NEW k \in Calls, Serve(k) PROVE SavesNodes'
  <2>1. ASSUME call'[k].stage = "granted"
        PROVE  call'[k].data # NoNodes
    <3>1. GetLockGrant(k) /\ call'[k].data = call[k].data
      BY <1>2, <2>1, ServeOwn
    <3>2. call'[k].stage = AfterLock(k)
      BY <3>1 DEF GetLockGrant, ProviderTypeOK, CallRecords
    <3>3. QED
      BY <2>1, <3>1, <3>2 DEF AfterLock
  <2>2. QED
    BY <1>2, <2>1, ServeFrame DEF SavesNodes
<1>3. ASSUME NEW k \in Calls,
             \/ \E c \in Clients, endpoint \in {"lock", "drop_lock"},
                   data \in Payloads, lockDelay \in LockDelays \cup {0} :
                   Request(k, c, endpoint, data, lockDelay)
             \/ Receive(k)
             \/ LoseRequest(k)
      PROVE  SavesNodes'
  <2>1. call'[k].stage # "granted"
    BY <1>3, ClientOwn
  <2>2. \A j \in Calls \ {k} : Untouched(j)
    BY <1>3, ClientFrame
  <2>3. QED
    BY <2>1, <2>2 DEF SavesNodes, Untouched
<1>4. QED
  BY <1>1, <1>2, <1>3, StepOfOneCall

(* A step of the provider or of its clients keeps the variables well typed.*)
LEMMA TypeStep ==
  ASSUME ProviderTypeOK, SavesNodes, ProviderNext
  PROVE  ProviderTypeOK'
<1>1. ASSUME NEW k \in Calls, NEW c \in Clients, NEW data \in Payloads,
             NEW lockDelay \in LockDelays, RequestLock(k, c, data, lockDelay)
      PROVE  ProviderTypeOK'
  BY <1>1, TypeRequest DEF RequestLock
<1>2. ASSUME NEW k \in Calls, NEW c \in Clients, RequestDropLock(k, c)
      PROVE  ProviderTypeOK'
  BY <1>2, TypeRequest DEF RequestDropLock, Payloads
<1>3. ASSUME NEW k \in Calls, LoseRequest(k)
      PROVE  ProviderTypeOK'
  <2>1. call' \in [Calls -> CallRecords]
    BY <1>3, MoveToType DEF LoseRequest, ProviderTypeOK, Stages, Answers
  <2>2. QED
    BY <1>3, <2>1 DEF LoseRequest, ProviderTypeOK, MoveTo
<1>4. ASSUME Tick PROVE ProviderTypeOK'
  BY <1>4 DEF Tick, ProviderTypeOK
<1>5. QED
  BY <1>1, <1>2, <1>3, <1>4, TypeReceive, TypeServe DEF ProviderNext

(* Type correctness: whatever the clients send, and whatever is lost or    *)
(* fails, the tables hold a lease of a known user and a graph.             *)
THEOREM ProviderTypeCorrect == ProviderSpec => []ProviderTypeOK
<1>1. ProviderInit => ProviderTypeOK /\ SavesNodes
  BY TypeInit DEF ProviderInit, SavesNodes, NoCall
<1>2. ProviderTypeOK /\ SavesNodes /\ [ProviderNext]_providerVars
      => ProviderTypeOK' /\ SavesNodes'
  BY TypeStep, SavesNodesStep DEF providerVars, ProviderTypeOK, SavesNodes
<1>3. QED
  BY <1>1, <1>2, PTL DEF ProviderSpec

------------------------------------------------------------------------------
(* The lease. *)

OneRequestAtATime ==
  /\ InOrder
  /\ \A c, d \in Clients : UserOf[c] = UserOf[d] => c = d
  /\ MaxRoundTrip <= LOCK_TIME_EXTRA_TIME

Active(k) == call[k].stage # "idle"

(* No request lives longer than the round trip. *)
InTime ==
  \A k \in Calls :
    Active(k) => /\ call[k].sentAt <= now
                 /\ now <= call[k].sentAt + MaxRoundTrip

(* The clock that GetLock has read is between the sending and now, and the *)
(* expiry it computed lies ahead of that clock.                            *)
ClockRead ==
  \A k \in Calls :
    call[k].stage = "clocked" =>
      /\ call[k].sentAt <= call[k].currentUnix
      /\ call[k].currentUnix <= now
      /\ call[k].currentUnix + LOCK_TIME_EXTRA_TIME <= call[k].expiresAt
      /\ call[k].expiresAt
           <= call[k].currentUnix + MAX_LOCK_TIME + LOCK_TIME_EXTRA_TIME

(* Of two requests of one client, one was sent while the other was on its  *)
(* way, and waits for it.                                                  *)
Ordered ==
  \A j, k \in Calls :
    j # k /\ Active(j) /\ Active(k) /\ call[j].from = call[k].from
      => j \in call[k].older \/ k \in call[j].older

(* A request that is being served waits for none. *)
StartedIsOldest ==
  \A k \in Calls :
    call[k].stage \in {"clocked", "granted"} => call[k].older = {}

(* A handler about to save holds a lease that outlasts its request. *)
GrantedHolds ==
  \A k \in Calls :
    call[k].stage = "granted" =>
      /\ lockOwner = Caller(k)
      /\ call[k].sentAt + MaxRoundTrip <= lockExpiresAt

------------------------------------------------------------------------------
(* Time.                                                                    *)

TimeInv == ProviderTypeOK /\ SavesNodes /\ InTime /\ ClockRead

(* At the start no request is in flight. *)
LEMMA TimeInit == ProviderInit => TimeInv
  BY TypeInit DEF ProviderInit, TimeInv, SavesNodes, InTime, ClockRead,
      Active, NoCall

(* What the requests' lifetimes keep, when the clients act. *)
LEMMA InTimeStep ==
  ASSUME TimeInv, ProviderNext
  PROVE  InTime'
<1> USE DEF TimeInv, InTime, Active
<1>1. ASSUME Tick PROVE InTime'
  BY <1>1, ProviderAssumption DEF Tick, ProviderTypeOK, CallRecords
<1>2. ASSUME NEW k \in Calls, Serve(k) PROVE InTime'
  BY <1>2, ServeOwn, ServeFrame
<1>3. ASSUME NEW k \in Calls, Receive(k) PROVE InTime'
  <2>1. \A j \in Calls \ {k} : Untouched(j)
    BY <1>3, ClientFrame
  <2>2. call'[k].stage = "idle" /\ now' = now
    BY <1>3 DEF Receive, NoCall
  <2>3. QED
    BY <2>1, <2>2 DEF Untouched
<1>4. ASSUME NEW k \in Calls, LoseRequest(k) PROVE InTime'
  <2>1. \A j \in Calls \ {k} : Untouched(j)
    BY <1>4, ClientFrame
  <2>2. call'[k].sentAt = call[k].sentAt /\ now' = now /\ Active(k)
    BY <1>4 DEF LoseRequest, MoveTo, ProviderTypeOK, CallRecords
  <2>3. QED
    BY <2>1, <2>2 DEF Untouched
<1>5. ASSUME NEW k \in Calls, NEW c \in Clients,
             NEW endpoint \in {"lock", "drop_lock"},
             NEW data \in Payloads, NEW lockDelay \in LockDelays \cup {0},
             Request(k, c, endpoint, data, lockDelay)
      PROVE  InTime'
  <2>1. \A j \in Calls \ {k} : Untouched(j)
    BY <1>5, ClientFrame
  <2>2. call'[k].sentAt = now /\ now' = now /\ now \in Nat
    BY <1>5 DEF Request, NoCall, ProviderTypeOK
  <2>3. QED
    BY <2>1, <2>2, ProviderAssumption DEF Untouched
<1>6. QED
  BY <1>1, <1>2, <1>3, <1>4, <1>5, StepOfOneCall

(* A lockDelay is a number, that of a drop included. *)
LEMMA LockDelayType ==
  ASSUME NEW lockDelay \in LockDelays \cup {0}
  PROVE  lockDelay \in Nat
  BY ProviderAssumption

(* The expiry GetLock computes lies as far ahead of its clock as it may.   *)
LEMMA ClockReadStep ==
  ASSUME TimeInv, ProviderNext
  PROVE  ClockRead'
<1> USE DEF TimeInv, ClockRead
<1>1. ASSUME Tick PROVE ClockRead'
  BY <1>1 DEF Tick, ProviderTypeOK, CallRecords
<1>2. ASSUME NEW k \in Calls, Serve(k) PROVE ClockRead'
  <2>1. SUFFICES ASSUME call'[k].stage = "clocked"
        PROVE  /\ call'[k].sentAt <= call'[k].currentUnix
               /\ call'[k].currentUnix <= now'
               /\ call'[k].currentUnix + LOCK_TIME_EXTRA_TIME <= call'[k].expiresAt
               /\ call'[k].expiresAt
                    <= call'[k].currentUnix + MAX_LOCK_TIME + LOCK_TIME_EXTRA_TIME
    BY <1>2, ServeOwn, ServeFrame
  <2>2. GetLockReadClock(k) /\ call'[k].sentAt = call[k].sentAt /\ now' = now
    BY <1>2, <2>1, ServeOwn
  <2>3. /\ call'[k].currentUnix = now
        /\ call'[k].expiresAt = ExpiresAt(call[k].lockDelay)
        /\ call[k].lockDelay <= MAX_LOCK_TIME
        /\ call[k].lockDelay \in Nat
        /\ call[k].sentAt <= now
    <3>1. call[k].lockDelay \in Nat
      BY LockDelayType DEF ProviderTypeOK, CallRecords
    <3>2. /\ call'[k].currentUnix = now
          /\ call'[k].expiresAt = ExpiresAt(call[k].lockDelay)
      BY <2>2, <3>1 DEF GetLockReadClock, ProviderTypeOK, CallRecords
    <3>3. call[k].lockDelay <= MAX_LOCK_TIME
      BY <2>2, <3>1, LockTimesAssumption DEF GetLockReadClock, TooLong
    <3>4. call[k].sentAt <= now
      BY <2>2 DEF GetLockReadClock, MayStart, InTime, Active
    <3>5. QED
      BY <3>1, <3>2, <3>3, <3>4
  <2>4. QED
    BY <2>2, <2>3, LockTimesAssumption DEF ExpiresAt, ProviderTypeOK
<1>3. ASSUME NEW k \in Calls,
             \/ \E c \in Clients, endpoint \in {"lock", "drop_lock"},
                   data \in Payloads, lockDelay \in LockDelays \cup {0} :
                   Request(k, c, endpoint, data, lockDelay)
             \/ Receive(k)
             \/ LoseRequest(k)
      PROVE  ClockRead'
  <2>1. \A j \in Calls \ {k} : Untouched(j)
    BY <1>3, ClientFrame
  <2>2. call'[k].stage # "clocked" /\ now' = now
    BY <1>3, ClientOwn
  <2>3. QED
    BY <2>1, <2>2 DEF Untouched
<1>4. QED
  BY <1>1, <1>2, <1>3, StepOfOneCall

(* Every step of the handlers and clients keeps the facts about time. *)
LEMMA TimeStep ==
  ASSUME TimeInv, [ProviderNext]_providerVars
  PROVE  TimeInv'
<1>1. CASE ProviderNext
  BY <1>1, TypeStep, SavesNodesStep, InTimeStep, ClockReadStep DEF TimeInv
<1>2. CASE UNCHANGED providerVars
  BY <1>2 DEF providerVars, TimeInv, ProviderTypeOK, SavesNodes, InTime,
      ClockRead, Active
<1>3. QED
  BY <1>1, <1>2

(* The facts about time hold in every behaviour. *)
LEMMA TimeCorrect == ProviderSpec => []TimeInv
  BY TimeInit, TimeStep, PTL DEF ProviderSpec

(* The lease changes hands only when it has expired: by the clock GetLock  *)
(* read before its SQL, and so by the clock when the SQL runs.             *)
THEOREM LeaseIsRespected == ProviderSpec => LeaseRespected
<1>1. TimeInv /\ [ProviderNext]_providerVars
      => [(lockOwner # NoOne /\ lockOwner' \notin {NoOne, lockOwner})
            => lockExpiresAt < now]_providerVars
  <2>1. SUFFICES ASSUME TimeInv, ProviderNext, lockOwner # NoOne,
                        lockOwner' \notin {NoOne, lockOwner}
                 PROVE  lockExpiresAt < now
    OBVIOUS
  <2>2. PICK k \in Calls : Serve(k)
    BY <2>1, StepOfOneCall, ClientOwn DEF Tick, TimeInv
  <2>3. GetLockGrant(k)
    BY <2>1, <2>2 DEF Serve, GetLockReadClock, GetLockTooLong, GetLockConflict,
        SaveEcosystemGraph, DropLockEcosystemGraph, DropLock, lockVars,
        DatabaseError
  <2>4. lockExpiresAt < call[k].currentUnix
    BY <2>1, <2>3 DEF GetLockGrant, CanLock, UpsertLock
  <2>5. call[k].currentUnix <= now /\ call[k].currentUnix \in Nat
    BY <2>1, <2>3
    DEF GetLockGrant, TimeInv, ClockRead, ProviderTypeOK, CallRecords
  <2>6. QED
    BY <2>1, <2>4, <2>5 DEF TimeInv, ProviderTypeOK
<1>2. QED
  BY <1>1, TimeCorrect, PTL DEF ProviderSpec, LeaseRespected

------------------------------------------------------------------------------
(* The save under the lease, with one request at a time.                    *)

LeaseInv == TimeInv /\ Ordered /\ StartedIsOldest /\ GrantedHolds

(* At the start nothing is ordered, started or granted. *)
LEMMA LeaseInit == ProviderInit => LeaseInv
  BY TimeInit DEF ProviderInit, LeaseInv, Ordered, StartedIsOldest,
      GrantedHolds, Active, NoCall

(* Requests of one client stay ordered: a new one comes after all others.  *)
LEMMA OrderedStep ==
  ASSUME TimeInv, Ordered, ProviderNext
  PROVE  Ordered'
<1> USE DEF TimeInv, Ordered, Active
<1>1. ASSUME Tick PROVE Ordered'
  BY <1>1 DEF Tick
<1>2. ASSUME NEW k \in Calls, Serve(k) PROVE Ordered'
  <2>1. \A j \in Calls : /\ Active(j)' => Active(j)
                        /\ call'[j].from = call[j].from
                        /\ call'[j].older = call[j].older
    BY <1>2, ServeOwn, ServeFrame
  <2>2. QED
    BY <2>1
<1>3. ASSUME NEW k \in Calls, Receive(k) PROVE Ordered'
  <2>1. ~Active(k)'
    BY <1>3 DEF Receive, NoCall
  <2>2. ASSUME NEW j \in Calls \ {k}
        PROVE  /\ Active(j)' => Active(j)
               /\ call'[j].from = call[j].from
               /\ call'[j].older = call[j].older \ {k}
    BY <1>3 DEF Receive, ProviderTypeOK, CallRecords
  <2>3. QED
    BY <2>1, <2>2
<1>4. ASSUME NEW k \in Calls, LoseRequest(k) PROVE Ordered'
  <2>1. \A j \in Calls : /\ Active(j)' => Active(j)
                        /\ call'[j].from = call[j].from
                        /\ call'[j].older = call[j].older
    BY <1>4 DEF LoseRequest, MoveTo, ProviderTypeOK, CallRecords
  <2>2. QED
    BY <2>1
<1>5. ASSUME NEW k \in Calls, NEW c \in Clients,
             NEW endpoint \in {"lock", "drop_lock"},
             NEW data \in Payloads, NEW lockDelay \in LockDelays \cup {0},
             Request(k, c, endpoint, data, lockDelay)
      PROVE  Ordered'
  <2>1. ASSUME NEW j \in Calls \ {k}
        PROVE  /\ Active(j)' => Active(j)
               /\ call'[j].from = call[j].from
               /\ call'[j].older = call[j].older \ {k}
    BY <1>5 DEF Request, ProviderTypeOK, CallRecords
  <2>2. call'[k].from = c /\ call'[k].older = Outstanding(c) \ {k}
    BY <1>5 DEF Request, NoCall
  <2>3. ASSUME NEW j \in Calls \ {k}, Active(j)', call'[j].from = c
        PROVE  j \in call'[k].older
    BY <2>1, <2>2, <2>3 DEF Outstanding
  <2>4. QED
    BY <2>1, <2>2, <2>3
<1>6. QED
  BY <1>1, <1>2, <1>3, <1>4, <1>5, StepOfOneCall

(* MayStart is the only way to be served; no request becomes older later. *)
LEMMA StartedIsOldestStep ==
  ASSUME InOrder, TimeInv, StartedIsOldest, ProviderNext
  PROVE  StartedIsOldest'
<1> USE DEF TimeInv, StartedIsOldest
<1>1. ASSUME Tick PROVE StartedIsOldest'
  BY <1>1 DEF Tick
<1>2. ASSUME NEW k \in Calls, Serve(k) PROVE StartedIsOldest'
  <2>1. call'[k].stage = "clocked" => call[k].older = {}
    BY <1>2, ServeOwn DEF GetLockReadClock, MayStart
  <2>2. call'[k].stage = "granted" => call[k].older = {}
    BY <1>2, ServeOwn DEF GetLockGrant
  <2>3. QED
    BY <1>2, <2>1, <2>2, ServeOwn, ServeFrame
<1>3. ASSUME NEW k \in Calls,
             \/ \E c \in Clients, endpoint \in {"lock", "drop_lock"},
                   data \in Payloads, lockDelay \in LockDelays \cup {0} :
                   Request(k, c, endpoint, data, lockDelay)
             \/ Receive(k)
             \/ LoseRequest(k)
      PROVE  StartedIsOldest'
  <2>1. \A j \in Calls \ {k} : Untouched(j)
    BY <1>3, ClientFrame
  <2>2. call'[k].stage \notin {"clocked", "granted"}
    BY <1>3, ClientOwn
  <2>3. QED
    BY <2>1, <2>2 DEF Untouched
<1>4. QED
  BY <1>1, <1>2, <1>3, StepOfOneCall

(* While one request of a client is being served, none of its others is.   *)
LEMMA ServedAlone ==
  ASSUME InOrder, TimeInv, Ordered, StartedIsOldest,
         NEW j \in Calls, NEW k \in Calls, j # k,
         MayStart(j) \/ call[j].stage \in {"clocked", "granted"},
         call[k].stage = "granted"
  PROVE  call[j].from # call[k].from
  BY DEF Ordered, Active, StartedIsOldest, MayStart

(* So the other request that changes the lease is of another user. *)
LEMMA OtherUser ==
  ASSUME OneRequestAtATime, TimeInv, Ordered, StartedIsOldest,
         NEW j \in Calls, NEW k \in Calls, j # k,
         MayStart(j) \/ call[j].stage \in {"clocked", "granted"},
         call[k].stage = "granted"
  PROVE  Caller(j) # Caller(k)
<1>1. call[j].from # call[k].from
  BY ServedAlone DEF OneRequestAtATime
<1>2. call[j].from \in Clients /\ call[k].from \in Clients
  BY DEF TimeInv, ProviderTypeOK, MayStart
<1>3. QED
  BY <1>1, <1>2 DEF OneRequestAtATime, Caller

(* No request takes the lease from a handler that is about to save. *)
LEMMA LeaseKept ==
  ASSUME OneRequestAtATime, LeaseInv,
         NEW j \in Calls, NEW k \in Calls, j # k, Serve(j),
         call[k].stage = "granted"
  PROVE  UNCHANGED lockVars
<1> USE DEF LeaseInv, TimeInv
<1>1. lockOwner = Caller(k) /\ call[k].sentAt + MaxRoundTrip <= lockExpiresAt
  BY DEF GrantedHolds
<1>2. CASE GetLockGrant(j)
  <2>1. Caller(j) # Caller(k)
    BY <1>2, OtherUser DEF GetLockGrant
  <2>2. Caller(k) # NoOne
    BY NoOneAssumption, UserOfAssumption DEF Caller, ProviderTypeOK
  <2>3. lockExpiresAt < call[j].currentUnix
    BY <1>1, <1>2, <2>1, <2>2 DEF GetLockGrant, CanLock
  <2>4. call[j].currentUnix <= now
    BY <1>2 DEF GetLockGrant, ClockRead
  <2>5. now <= call[k].sentAt + MaxRoundTrip
    BY DEF InTime, Active
  <2>6. /\ call[j].currentUnix \in Nat /\ call[k].sentAt \in Nat
        /\ now \in Nat /\ lockExpiresAt \in Nat
    BY DEF ProviderTypeOK, CallRecords
  <2>7. QED
    BY <1>1, <2>3, <2>4, <2>5, <2>6, ProviderAssumption
<1>3. CASE DropLockEcosystemGraph(j)
  <2>1. Caller(j) # Caller(k)
    BY <1>3, OtherUser DEF DropLockEcosystemGraph
  <2>2. QED
    BY <1>1, <1>3, <2>1 DEF DropLockEcosystemGraph, DropLock, lockVars
<1>4. QED
  BY <1>2, <1>3 DEF Serve, GetLockReadClock, GetLockTooLong, GetLockConflict,
      SaveEcosystemGraph, DatabaseError, lockVars

(* Between the commit of the lease and the save nobody takes the lease.   *)
LEMMA GrantedHoldsStep ==
  ASSUME OneRequestAtATime, LeaseInv, ProviderNext
  PROVE  GrantedHolds'
<1> USE DEF LeaseInv, TimeInv, GrantedHolds
<1>1. ASSUME Tick PROVE GrantedHolds'
  BY <1>1 DEF Tick, Caller
<1>2. ASSUME NEW j \in Calls, Serve(j) PROVE GrantedHolds'
  <2>1. SUFFICES ASSUME NEW k \in Calls, call'[k].stage = "granted"
                 PROVE  /\ lockOwner' = Caller(k)'
                        /\ call'[k].sentAt + MaxRoundTrip <= lockExpiresAt'
    OBVIOUS
  <2>2. CASE k = j
    <3>1. /\ GetLockGrant(k)
          /\ call'[k].from = call[k].from
          /\ call'[k].sentAt = call[k].sentAt
      BY <1>2, <2>1, <2>2, ServeOwn
    <3>2. lockOwner' = Caller(k)' /\ lockExpiresAt' = call[k].expiresAt
      BY <3>1 DEF GetLockGrant, UpsertLock, Caller
    <3>3. /\ call[k].sentAt <= call[k].currentUnix
          /\ call[k].currentUnix + LOCK_TIME_EXTRA_TIME <= call[k].expiresAt
      BY <3>1 DEF GetLockGrant, ClockRead
    <3>4. /\ call[k].sentAt \in Nat /\ call[k].currentUnix \in Nat
          /\ call[k].expiresAt \in Nat
      BY DEF ProviderTypeOK, CallRecords
    <3>5. QED
      BY <3>1, <3>2, <3>3, <3>4, ProviderAssumption, LockTimesAssumption
      DEF OneRequestAtATime
  <2>3. CASE k # j
    <3>1. call'[k] = call[k]
      BY <1>2, <2>3, ServeFrame
    <3>2. UNCHANGED lockVars
      BY <1>2, <2>1, <2>3, <3>1, LeaseKept
    <3>3. QED
      BY <2>1, <3>1, <3>2 DEF lockVars, Caller
  <2>4. QED
    BY <2>2, <2>3
<1>3. ASSUME NEW j \in Calls,
             \/ \E c \in Clients, endpoint \in {"lock", "drop_lock"},
                   data \in Payloads, lockDelay \in LockDelays \cup {0} :
                   Request(j, c, endpoint, data, lockDelay)
             \/ Receive(j)
             \/ LoseRequest(j)
      PROVE  GrantedHolds'
  <2>1. \A k \in Calls \ {j} : Untouched(k)
    BY <1>3, ClientFrame
  <2>2. call'[j].stage # "granted" /\ UNCHANGED <<lockOwner, lockExpiresAt>>
    BY <1>3, ClientOwn
  <2>3. QED
    BY <2>1, <2>2 DEF Untouched, Caller
<1>4. QED
  BY <1>1, <1>2, <1>3, StepOfOneCall

(* Every step keeps the strengthened invariant. *)
LEMMA LeaseStep ==
  ASSUME OneRequestAtATime, LeaseInv, [ProviderNext]_providerVars
  PROVE  LeaseInv'
<1>1. CASE ProviderNext
  BY <1>1, TimeStep, OrderedStep, StartedIsOldestStep, GrantedHoldsStep
  DEF LeaseInv, OneRequestAtATime
<1>2. CASE UNCHANGED providerVars
  BY <1>2, TimeStep DEF providerVars, LeaseInv, Ordered, StartedIsOldest,
      GrantedHolds, Active, Caller
<1>3. QED
  BY <1>1, <1>2

(* The strengthened invariant holds in every behaviour. *)
LEMMA LeaseCorrect ==
  ASSUME OneRequestAtATime
  PROVE  ProviderSpec => []LeaseInv
<1>1. LeaseInv /\ [ProviderNext]_providerVars => LeaseInv'
  BY LeaseStep
<1>2. QED
  BY <1>1, LeaseInit, PTL DEF ProviderSpec

(* A handler about to save is still under an unexpired lease. *)
LEMMA GrantedInForce ==
  ASSUME LeaseInv, NEW k \in Calls, call[k].stage = "granted"
  PROVE  lockOwner = Caller(k) /\ now <= lockExpiresAt
<1>1. /\ lockOwner = Caller(k)
      /\ call[k].sentAt + MaxRoundTrip <= lockExpiresAt
      /\ now <= call[k].sentAt + MaxRoundTrip
  BY DEF LeaseInv, TimeInv, GrantedHolds, InTime, Active
<1>2. now \in Nat /\ call[k].sentAt \in Nat /\ lockExpiresAt \in Nat
  BY DEF LeaseInv, TimeInv, ProviderTypeOK, CallRecords
<1>3. QED
  BY <1>1, <1>2, ProviderAssumption

(* The check in GetLock's transaction still holds in SaveEcosystemGraph's, *)
(* as long as a client's requests do not overlap and are quick.            *)
THEOREM SaverHoldsTheLock ==
  ASSUME OneRequestAtATime
  PROVE  ProviderSpec => []SaverHoldsLock
<1>1. LeaseInv => SaverHoldsLock
  BY GrantedInForce DEF SaverHoldsLock
<1>2. QED
  BY <1>1, LeaseCorrect, PTL

------------------------------------------------------------------------------
(* The refinement.                                                          *)

(* Every step of a handler is a step of the lease or stutters. *)
LEMMA ServeRefines ==
  ASSUME OneRequestAtATime, LeaseInv, NEW k \in Calls, Serve(k),
         ProviderTypeOK'
  PROVE  Leased!Next \/ UNCHANGED Leased!vars
<1> USE DEF LeaseInv, TimeInv
<1>1. CASE GetLockGrant(k)
  <2>1. Caller(k) \in Users
    BY <1>1, UserOfAssumption DEF GetLockGrant, Caller, ProviderTypeOK
  <2>2. /\ call[k].currentUnix \in Nat /\ call[k].expiresAt \in Nat
        /\ call[k].sentAt \in Nat /\ now \in Nat /\ lockExpiresAt \in Nat
    BY DEF ProviderTypeOK, CallRecords
  <2>3. /\ call[k].sentAt <= call[k].currentUnix
        /\ call[k].currentUnix <= now
        /\ call[k].currentUnix + LOCK_TIME_EXTRA_TIME <= call[k].expiresAt
        /\ call[k].expiresAt
             <= call[k].currentUnix + MAX_LOCK_TIME + LOCK_TIME_EXTRA_TIME
        /\ now <= call[k].sentAt + MaxRoundTrip
    BY <1>1 DEF GetLockGrant, ClockRead, InTime, Active
  <2>4. call[k].expiresAt \in now .. now + (MAX_LOCK_TIME + LOCK_TIME_EXTRA_TIME)
    BY <2>2, <2>3, ProviderAssumption, LockTimesAssumption
    DEF OneRequestAtATime
  <2>5. ASSUME NEW v \in Users \ {Caller(k)} PROVE ~Leased!Holds(v)
    <3>1. lockOwner = v => lockExpiresAt < call[k].currentUnix
      BY <1>1, <2>5, NoOneAssumption DEF GetLockGrant, CanLock
    <3>2. QED
      BY <2>2, <2>3, <3>1 DEF Leased!Holds
  <2>6. Leased!Acquire(Caller(k))
    BY <1>1, <2>4, <2>5 DEF Leased!Acquire, GetLockGrant, UpsertLock
  <2>7. QED
    BY <2>1, <2>6 DEF Leased!Next
<1>2. CASE SaveEcosystemGraph(k)
  <2>1. Caller(k) \in Users
    BY <1>2, UserOfAssumption DEF SaveEcosystemGraph, Caller, ProviderTypeOK
  <2>2. Leased!Holds(Caller(k))
    BY <1>2, GrantedInForce DEF SaveEcosystemGraph, Leased!Holds
  <2>3. Leased!Write(Caller(k))
    BY <1>2, <2>2 DEF Leased!Write, SaveEcosystemGraph, ProviderTypeOK
  <2>4. QED
    BY <2>1, <2>3 DEF Leased!Next
<1>3. CASE DropLockEcosystemGraph(k)
  <2>1. Caller(k) \in Users
    BY <1>3, UserOfAssumption
    DEF DropLockEcosystemGraph, MayStart, Caller, ProviderTypeOK
  <2>2. Leased!Release(Caller(k)) \/ UNCHANGED Leased!vars
    BY <1>3 DEF DropLockEcosystemGraph, DropLock, lockVars, Leased!Release,
        Leased!vars
  <2>3. QED
    BY <2>1, <2>2 DEF Leased!Next
<1>4. QED
  BY <1>1, <1>2, <1>3 DEF Serve, GetLockReadClock, GetLockTooLong,
      GetLockConflict, DatabaseError, Leased!vars

(* Handlers that read the clock, commit the lease and save the graph in    *)
(* steps of their own implement a lease and a graph that change at once.   *)
THEOREM ProviderImplementsLeasedGraph ==
  ASSUME OneRequestAtATime
  PROVE  ProviderSpec => LeasedGraphSpec
<1>1. ProviderInit => Leased!Init
  BY DEF ProviderInit, LockInit, Leased!Init, Graphs
<1>2. LeaseInv /\ LeaseInv' /\ [ProviderNext]_providerVars
      => [Leased!Next]_(Leased!vars)
  <2>1. SUFFICES ASSUME LeaseInv, LeaseInv', [ProviderNext]_providerVars
                 PROVE  Leased!Next \/ UNCHANGED Leased!vars
    OBVIOUS
  <2>2. CASE UNCHANGED providerVars
    BY <2>2 DEF providerVars, Leased!vars
  <2>3. CASE Tick
    BY <2>3 DEF Tick, Leased!Tick, Leased!Next
  <2>4. ASSUME NEW k \in Calls, Serve(k)
        PROVE  Leased!Next \/ UNCHANGED Leased!vars
    BY <2>1, <2>4, ServeRefines DEF LeaseInv, TimeInv
  <2>5. ASSUME NEW k \in Calls,
               \/ \E c \in Clients, endpoint \in {"lock", "drop_lock"},
                     data \in Payloads, lockDelay \in LockDelays \cup {0} :
                     Request(k, c, endpoint, data, lockDelay)
               \/ Receive(k)
               \/ LoseRequest(k)
        PROVE  UNCHANGED Leased!vars
    BY <2>1, <2>5, ClientOwn DEF LeaseInv, TimeInv, Leased!vars
  <2>6. QED
    BY <2>1, <2>2, <2>3, <2>4, <2>5, StepOfOneCall
<1>3. QED
  BY <1>1, <1>2, LeaseCorrect, PTL DEF ProviderSpec, LeasedGraphSpec, Leased!Spec

------------------------------------------------------------------------------
(* The editors and the provider                                            *)

Refreshes == {"refreshLock", "updateGraph"}

EditorRecords ==
  [phase : {"closed", "loading", "open", "gone"}, autoSave : BOOLEAN,
   serverGraphData : Payloads, updatedData : Payloads, shown : Payloads,
   isEditing : BOOLEAN, lockStatus : {"NotRequested", "Acquired", "Busy"},
   intervalDue : Nat, busyUntil : Nat]

PendingRecords == [fn : {"none"} \cup Refreshes \cup Closings, graph : Payloads]

(* An open editor has a graph, and a request of its that will reset it to  *)
(* one does.                                                               *)
EditorTypeOK ==
  /\ editor \in [Clients -> EditorRecords]
  /\ pending \in [Calls -> PendingRecords]
  /\ \A c \in Clients :
       editor[c].phase = "open" =>
         {editor[c].serverGraphData, editor[c].updatedData, editor[c].shown} \subseteq Graphs
  /\ \A c \in Clients : \A k \in Outstanding(c) :
       editor[c].phase = "open" /\ pending[k].fn \in {"updateGraph", "closeEditMode"} =>
         pending[k].graph \in Graphs

(* Before the first click on Edit an editor sends nothing but on leaving.  *)
Dormant ==
  \A c \in Clients :
    /\ editor[c].phase \in {"closed", "loading"} => editor[c].intervalDue = 0
    /\ editor[c].phase # "gone" /\ editor[c].intervalDue = 0 =>
         Outstanding(c) = {} /\ editor[c].lockStatus = "NotRequested"

(* The delay of an interval is a positive number, and one of the delays. *)
LEMMA DelayType == AutoSaveDelay \in LockDelays /\ AutoSaveDelay \in Nat \ {0}
  BY EditorAssumption, ProviderAssumption

------------------------------------------------------------------------------
(* The editors are clients of the provider.                                 *)

(* Every step is one of ProviderNext, or leaves the provider alone. *)
LEMMA EditorIsClient ==
  ASSUME ProviderTypeOK, EditorTypeOK, EditorNext
  PROVE  [ProviderNext]_providerVars
<1> USE DEF providerVars
<1>1. ASSUME NEW c \in Clients, NEW k \in Calls, NEW data \in Payloads, Refresh(k, c, data)
      PROVE  ProviderNext
  BY <1>1, DelayType DEF Refresh, ProviderNext
<1>2. ASSUME NEW c \in Clients, NEW k \in Calls, RequestDropLock(k, c)
      PROVE  ProviderNext
  BY <1>2 DEF ProviderNext
<1>3. ASSUME NEW k \in Calls, Receive(k) \/ Serve(k) \/ LoseRequest(k)
      PROVE  ProviderNext
  BY <1>3 DEF ProviderNext
<1>4. \A c \in Clients : editor[c].updatedData \in Payloads
  BY DEF EditorTypeOK, EditorRecords
<1>5. ASSUME NEW c \in Clients, UserAction(c) PROVE [ProviderNext]_providerVars
  <2>1. CASE Mount(c) \/ \E e \in Edits : AddElement(c, e) \/ ChangeNode(c, e)
    BY <2>1 DEF Mount, AddElement, ChangeNode
  <2>2. CASE \E k \in Calls :
               Destroy(c, k) \/ ClickEdit(c, k) \/ ClickSave(c, k) \/ ClickStop(c, k)
    BY <1>1, <1>2, <1>4, <2>2 DEF Destroy, ClickEdit, ClickSave, ClickStop, Payloads
  <2>3. QED
    BY <1>5, <2>1, <2>2 DEF UserAction
<1>6. ASSUME NEW c \in Clients, Load(c) \/ Timer(c) PROVE [ProviderNext]_providerVars
  BY <1>1, <1>4, <1>6 DEF Load, Timer, BusyTimeout, IntervalFires, Payloads
<1>7. ASSUME NEW k \in Calls, Continue(k) PROVE [ProviderNext]_providerVars
  <2>1. CASE Throws(k) \/ AfterRefresh(k) \/ AfterDrop(k)
    BY <1>3, <2>1 DEF Throws, AfterRefresh, AfterDrop
  <2>2. CASE AfterClosingSave(k)
    BY <1>2, <2>2 DEF AfterClosingSave, ProviderTypeOK
  <2>3. QED
    BY <1>7, <2>1, <2>2 DEF Continue
<1>8. ASSUME NEW k \in Calls, ServeOrLose(k) PROVE ProviderNext
  BY <1>3, <1>8 DEF ServeOrLose
<1>9. Elapse => ProviderNext
  BY DEF Elapse, ProviderNext
<1>10. QED
  BY <1>5, <1>6, <1>7, <1>8, <1>9 DEF EditorNext

------------------------------------------------------------------------------
(* Type correctness.                                                        *)

(* A reply sets the state of an open or loading editor. *)
LEMMA SetEditorType ==
  ASSUME editor \in [Clients -> EditorRecords], NEW c \in Clients,
         NEW ed \in EditorRecords, SetEditor(c, ed)
  PROVE  editor' \in [Clients -> EditorRecords]
  BY DEF SetEditor

(* setLockStatus changes the status and the timeout. *)
LEMMA WithLockStatusType ==
  ASSUME now \in Nat, NEW ed \in EditorRecords,
         NEW status \in {"NotRequested", "Acquired", "Busy"}
  PROVE  LET new == WithLockStatus(ed, status)
         IN /\ new \in EditorRecords
            /\ new.lockStatus = status
            /\ new.phase = ed.phase /\ new.autoSave = ed.autoSave
            /\ new.intervalDue = ed.intervalDue /\ new.isEditing = ed.isEditing
            /\ new.serverGraphData = ed.serverGraphData
            /\ new.updatedData = ed.updatedData /\ new.shown = ed.shown
<1> DEFINE until == IF status # "Busy" THEN 0
                    ELSE IF ed.lockStatus = "Busy" THEN ed.busyUntil
                    ELSE now + RESET_LOCK_DELAY
<1>1. until \in Nat
  BY EditorAssumption DEF EditorRecords
<1>2. WithLockStatus(ed, status) = [ed EXCEPT !.lockStatus = status, !.busyUntil = until]
  BY DEF WithLockStatus
<1> HIDE DEF until
<1>3. QED
  BY <1>1, <1>2 DEF EditorRecords

(* The records of the editors and of their requests stay well typed. *)
LEMMA RecordsStep ==
  ASSUME ProviderTypeOK, EditorTypeOK, EditorNext
  PROVE  /\ editor' \in [Clients -> EditorRecords]
         /\ pending' \in [Calls -> PendingRecords]
<1> USE DEF EditorTypeOK
<1>1. now \in Nat /\ graph \in Payloads /\ AutoSaveDelay \in Nat /\ NoNodes \in Payloads
  BY DelayType DEF ProviderTypeOK, Payloads
<1>2. \A c \in Clients : editor[c] \in EditorRecords
  OBVIOUS
<1>3. ASSUME NEW k \in Calls, NEW fn \in {"none"} \cup Refreshes \cup Closings,
             NEW g \in Payloads, Await(k, fn, g)
      PROVE  pending' \in [Calls -> PendingRecords]
  BY <1>3 DEF Await, PendingRecords
<1>4. ASSUME NEW k \in Calls, Done(k) PROVE pending' \in [Calls -> PendingRecords]
  BY <1>1, <1>4 DEF Done, NotPending, PendingRecords
<1>5. ASSUME NEW c \in Clients, UserAction(c)
      PROVE  /\ editor' \in [Clients -> EditorRecords]
             /\ pending' \in [Calls -> PendingRecords]
  <2>1. CASE Mount(c)
    <3>1. \A auto \in AutoSaves : auto \in BOOLEAN
      BY EditorAssumption
    <3>2. PICK auto \in AutoSaves :
            editor' = [editor EXCEPT ![c].phase = "loading", ![c].autoSave = auto]
      BY <2>1 DEF Mount
    <3>3. [editor[c] EXCEPT !.phase = "loading", !.autoSave = auto] \in EditorRecords
      BY <1>2, <3>1 DEF EditorRecords
    <3>4. QED
      BY <2>1, <3>2, <3>3 DEF Mount
  <2>2. CASE \E e \in Edits : AddElement(c, e) \/ ChangeNode(c, e)
    <3>1. PICK e \in Edits : AddElement(c, e) \/ ChangeNode(c, e)
      BY <2>2
    <3>2. editor[c].updatedData \in Graphs /\ editor[c].shown \in Graphs
      BY <3>1 DEF AddElement, ChangeNode, editEnabled
    <3>3. /\ editor[c].updatedData \cup {e} \in Payloads
          /\ editor[c].shown \cup {e} \in Payloads
      BY <3>2 DEF Graphs, Payloads
    <3>4. /\ [editor[c] EXCEPT !.shown = @ \cup {e}, !.updatedData = @ \cup {e}]
               \in EditorRecords
          /\ [editor[c] EXCEPT !.shown = @ \cup {e}, !.updatedData = editor[c].shown \cup {e}]
               \in EditorRecords
      BY <1>2, <3>3 DEF EditorRecords
    <3>5. UNCHANGED pending
      BY <3>1 DEF AddElement, ChangeNode
    <3>6. editor' \in [Clients -> EditorRecords]
      BY <3>1, <3>4 DEF AddElement, ChangeNode
    <3>7. QED
      BY <3>5, <3>6
  <2>3. CASE \E k \in Calls : Destroy(c, k) \/ ClickSave(c, k) \/ ClickStop(c, k)
    BY <1>1, <1>2, <1>3, <2>3
    DEF Destroy, ClickSave, ClickStop, EditorRecords, Refreshes, Closings
  <2>4. CASE \E k \in Calls : ClickEdit(c, k)
    <3>1. now + AutoSaveDelay \in Nat
      BY <1>1
    <3>2. [editor[c] EXCEPT !.isEditing = TRUE, !.intervalDue = now + AutoSaveDelay]
            \in EditorRecords
      BY <1>2, <3>1 DEF EditorRecords
    <3>3. editor' \in [Clients -> EditorRecords]
      BY <2>4, <3>2 DEF ClickEdit
    <3>4. pending' \in [Calls -> PendingRecords]
      BY <1>1, <1>3, <2>4 DEF ClickEdit, Refreshes
    <3>5. QED
      BY <3>3, <3>4
  <2>5. QED
    BY <1>5, <2>1, <2>2, <2>3, <2>4 DEF UserAction
<1>6. ASSUME NEW c \in Clients, Load(c) \/ Timer(c)
      PROVE  /\ editor' \in [Clients -> EditorRecords]
             /\ pending' \in [Calls -> PendingRecords]
  <2>1. CASE Load(c)
    <3>1. [editor[c] EXCEPT !.phase = "open", !.serverGraphData = graph,
                            !.updatedData = graph, !.shown = graph] \in EditorRecords
      BY <1>1, <1>2 DEF EditorRecords
    <3>2. editor' = [editor EXCEPT ![c] = [editor[c] EXCEPT !.phase = "open",
                       !.serverGraphData = graph, !.updatedData = graph, !.shown = graph]]
      BY <2>1 DEF Load
    <3>3. QED
      BY <2>1, <3>1, <3>2 DEF Load
  <2>2. CASE BusyTimeout(c)
    BY <1>1, <1>2, <2>2, WithLockStatusType DEF BusyTimeout
  <2>3. CASE \E k \in Calls : IntervalFires(c, k)
    <3>1. now + AutoSaveDelay \in Nat
      BY <1>1
    <3>2. [editor[c] EXCEPT !.intervalDue = now + AutoSaveDelay] \in EditorRecords
      BY <1>2, <3>1 DEF EditorRecords
    <3>3. editor' \in [Clients -> EditorRecords]
      BY <2>3, <3>2 DEF IntervalFires
    <3>4. editor[c].updatedData \in Payloads
      BY <1>2 DEF EditorRecords
    <3>5. pending' \in [Calls -> PendingRecords]
      BY <1>1, <1>3, <2>3, <3>4 DEF IntervalFires, Refreshes
    <3>6. QED
      BY <3>3, <3>5
  <2>4. QED
    BY <1>6, <2>1, <2>2, <2>3 DEF Timer
<1>7. ASSUME NEW k \in Calls, Continue(k)
      PROVE  /\ editor' \in [Clients -> EditorRecords]
             /\ pending' \in [Calls -> PendingRecords]
  <2>1. CASE Throws(k) \/ AfterClosingSave(k)
    BY <1>4, <1>7, <2>1 DEF Throws, AfterClosingSave, clientVars
  <2>2. CASE AfterRefresh(k)
    <3> DEFINE c == call[k].from
               ed == editor[c]
               saved == IF pending[k].fn = "refreshLock" THEN ed
                        ELSE [ed EXCEPT !.serverGraphData = pending[k].graph,
                                        !.updatedData = pending[k].graph]
    <3>1. c \in Clients
      BY <2>2 DEF AfterRefresh, LockAcquired, ProviderTypeOK
    <3>2. ed \in EditorRecords /\ pending[k].graph \in Payloads
      BY <3>1 DEF PendingRecords
    <3>3. saved \in EditorRecords
      BY <3>2 DEF EditorRecords
    <3>4. ASSUME SetEditor(c, WithLockStatus(saved, "Acquired"))
          PROVE  editor' \in [Clients -> EditorRecords]
      BY <1>1, <3>1, <3>3, <3>4, SetEditorType, WithLockStatusType
    <3>5. ASSUME SetEditor(c, [WithLockStatus(ed, "Busy") EXCEPT !.isEditing = FALSE])
          PROVE  editor' \in [Clients -> EditorRecords]
      <4>1. WithLockStatus(ed, "Busy") \in EditorRecords
        BY <1>1, <3>2, WithLockStatusType
      <4>2. [WithLockStatus(ed, "Busy") EXCEPT !.isEditing = FALSE] \in EditorRecords
        BY <4>1 DEF EditorRecords
      <4>3. QED
        BY <3>1, <3>5, <4>2, SetEditorType
    <3>6. editor' \in [Clients -> EditorRecords]
      BY <2>2, <3>4, <3>5 DEF AfterRefresh
    <3>7. QED
      BY <1>4, <2>2, <3>6 DEF AfterRefresh
  <2>3. CASE AfterDrop(k)
    <3> DEFINE c == call[k].from
               ed == [WithLockStatus(editor[c], "NotRequested") EXCEPT !.isEditing = FALSE]
               reset == [ed EXCEPT !.updatedData = pending[k].graph, !.shown = pending[k].graph]
    <3>1. c \in Clients
      BY <2>3 DEF AfterDrop, ProviderTypeOK
    <3>2. WithLockStatus(editor[c], "NotRequested") \in EditorRecords
      BY <1>1, <3>1, WithLockStatusType
    <3>3. ed \in EditorRecords /\ pending[k].graph \in Payloads
      BY <3>2 DEF EditorRecords, PendingRecords
    <3> HIDE DEF ed
    <3>4. reset \in EditorRecords
      BY <3>3 DEF EditorRecords
    <3>5. SetEditor(c, reset) \/ SetEditor(c, ed)
      BY <2>3 DEF AfterDrop, ed
    <3>6. QED
      BY <1>4, <2>3, <3>1, <3>3, <3>4, <3>5, SetEditorType DEF AfterDrop
  <2>4. QED
    BY <1>7, <2>1, <2>2, <2>3 DEF Continue
<1>8. (Elapse \/ \E k \in Calls : ServeOrLose(k)) => UNCHANGED clientVars
  BY DEF Elapse, ServeOrLose
<1>9. QED
  BY <1>5, <1>6, <1>7, <1>8 DEF EditorNext, clientVars

------------------------------------------------------------------------------
(* The kinds of steps, as far as the lock is concerned.                     *)

OthersStay(c) == \A d \in Clients \ {c} : editor'[d] = editor[d]

GraphsOf(c) == {editor[c].serverGraphData, editor[c].updatedData, editor[c].shown}

(* Nothing is sent: the dialog opens, loads or is edited, or Busy is over. *)
Local(c) ==
  /\ UNCHANGED <<providerVars, pending>>
  /\ OthersStay(c)
  /\ editor'[c].intervalDue = editor[c].intervalDue
  /\ editor'[c].lockStatus \in {editor[c].lockStatus, "NotRequested"}
  /\ editor[c].phase # "closed" => editor'[c].autoSave = editor[c].autoSave
  /\ \/ editor'[c].phase = editor[c].phase
     \/ editor[c].phase = "closed" /\ editor'[c].phase = "loading"
     \/ editor[c].phase = "loading" /\ editor'[c].phase = "open"
  /\ editor'[c].phase = "open" => GraphsOf(c)' \subseteq Graphs

(* c sends a request: with the tick of an interval, from edit mode, or when*)
(* it goes.                                                                *)
Sent(c, k) ==
  /\ call[k].stage = "idle"
  /\ OthersStay(c)
  /\ editor'[c].lockStatus = editor[c].lockStatus
  /\ editor'[c].autoSave = editor[c].autoSave
  /\ editor'[c].phase = "open" => editor[c].phase = "open" /\ GraphsOf(c)' = GraphsOf(c)
  /\ \A j \in Calls \ {k} : pending'[j] = pending[j]
  /\ editor'[c].phase = "open" /\ pending'[k].fn \in {"updateGraph", "closeEditMode"} =>
       pending'[k].graph \in Graphs
  /\ \E data \in Payloads :
       \/ Request(k, c, "lock", data, AutoSaveDelay) /\ pending'[k].fn \in Refreshes \cup Closings
       \/ Request(k, c, "drop_lock", data, 0) /\ pending'[k].fn \in Closings
  /\ \/ /\ editor'[c].phase = editor[c].phase
        /\ editor[c].phase = "open" \/ editor[c].intervalDue # 0
        /\ editor'[c].intervalDue = now + AutoSaveDelay
        /\ \E data \in Payloads : Request(k, c, "lock", data, AutoSaveDelay)
     \/ /\ editEnabled(c) /\ editor' = editor
     \/ /\ editor'[c].phase = "gone" /\ editor'[c].intervalDue = editor[c].intervalDue
        /\ pending'[k].fn \in Closings
        /\ ~editor[c].autoSave => \E data \in Payloads : Request(k, c, "drop_lock", data, 0)

(* The answer to a request of c arrives. *)
Answered(c, k) ==
  /\ call[k].from = c
  /\ Receive(k)
  /\ Done(k)
  /\ OthersStay(c)
  /\ editor'[c].phase = editor[c].phase
  /\ editor'[c].autoSave = editor[c].autoSave
  /\ editor'[c].intervalDue = editor[c].intervalDue
  /\ editor'[c].phase = "open" => GraphsOf(c)' \subseteq Graphs
  /\ \/ editor[c].phase = "gone"
     \/ call[k].stage \in {"lost", "error"} /\ editor' = editor
     \/ /\ pending[k].fn \in Refreshes /\ call[k].stage \in {"ok", "error"}
        /\ editor'[c].lockStatus = "Acquired"
     \/ /\ pending[k].fn \in Refreshes /\ call[k].stage = "conflict"
        /\ editor'[c].lockStatus = "Busy"
     \/ /\ call[k].endpoint = "drop_lock" /\ call[k].stage = "ok"
        /\ editor'[c].lockStatus = "NotRequested"

(* Opening the dialog, loading and editing send nothing. *)
LEMMA LocalSteps ==
  ASSUME ProviderTypeOK, EditorTypeOK, NEW c \in Clients,
         \/ Mount(c) \/ Load(c) \/ BusyTimeout(c)
         \/ \E e \in Edits : AddElement(c, e) \/ ChangeNode(c, e)
  PROVE  Local(c)
<1> USE DEF EditorTypeOK
<1>1. editor[c] \in EditorRecords
  OBVIOUS
<1>2. CASE Mount(c)
  <2>1. PICK auto \in AutoSaves :
          editor' = [editor EXCEPT ![c].phase = "loading", ![c].autoSave = auto]
    BY <1>2 DEF Mount
  <2>2. editor'[c] = [editor[c] EXCEPT !.phase = "loading", !.autoSave = auto]
    BY <2>1
  <2>3. OthersStay(c)
    BY <2>1 DEF OthersStay
  <2>4. QED
    BY <1>1, <1>2, <2>2, <2>3 DEF Mount, Local, EditorRecords, providerVars
<1>3. CASE Load(c)
  BY <1>1, <1>3
  DEF Load, Local, OthersStay, GraphsOf, EditorRecords, providerVars, ProviderTypeOK
<1>4. CASE BusyTimeout(c)
  <2>1. now \in Nat
    BY DEF ProviderTypeOK
  <2>2. editor'[c] = WithLockStatus(editor[c], "NotRequested")
    BY <1>4 DEF BusyTimeout
  <2>3. QED
    BY <1>1, <1>4, <2>1, <2>2, WithLockStatusType
    DEF BusyTimeout, Local, OthersStay, GraphsOf, providerVars
<1>5. ASSUME NEW e \in Edits, AddElement(c, e) \/ ChangeNode(c, e)
      PROVE  Local(c)
  <2>1. editor[c].phase = "open" /\ GraphsOf(c) \subseteq Graphs
    BY <1>5 DEF AddElement, ChangeNode, editEnabled, GraphsOf
  <2>2. /\ editor[c].updatedData \cup {e} \in Graphs
        /\ editor[c].shown \cup {e} \in Graphs
        /\ editor[c].serverGraphData \in Graphs
    BY <2>1 DEF GraphsOf, Graphs
  <2>3. CASE AddElement(c, e)
    BY <1>1, <2>1, <2>2, <2>3
    DEF AddElement, Local, OthersStay, GraphsOf, EditorRecords, providerVars
  <2>4. CASE ChangeNode(c, e)
    BY <1>1, <2>1, <2>2, <2>4
    DEF ChangeNode, Local, OthersStay, GraphsOf, EditorRecords, providerVars
  <2>5. QED
    BY <1>5, <2>3, <2>4
<1>6. QED
  BY <1>2, <1>3, <1>4, <1>5

(* What an editor sends, and when. *)
LEMMA SendingSteps ==
  ASSUME ProviderTypeOK, EditorTypeOK, NEW c \in Clients, NEW k \in Calls,
         \/ Destroy(c, k) \/ ClickEdit(c, k) \/ ClickSave(c, k) \/ ClickStop(c, k)
         \/ IntervalFires(c, k)
  PROVE  Sent(c, k)
<1> USE DEF EditorTypeOK
<1>1. /\ editor[c] \in EditorRecords
      /\ editor[c].updatedData \in Payloads
      /\ NoNodes \in Payloads
  BY DEF EditorRecords, Payloads
<1>2. ASSUME NEW fn, NEW g, Await(k, fn, g)
      PROVE  /\ \A j \in Calls \ {k} : pending'[j] = pending[j]
             /\ pending'[k].fn = fn /\ pending'[k].graph = g
  BY <1>2 DEF Await
<1> USE DEF Refresh, RequestLock, RequestDropLock, Refreshes, Closings
<1>3. CASE Destroy(c, k)
  <2>1. /\ OthersStay(c)
        /\ editor'[c] = [editor[c] EXCEPT !.phase = "gone", !.busyUntil = 0]
        /\ call[k].stage = "idle"
    BY <1>3 DEF Destroy, OthersStay
  <2>2. /\ editor'[c].phase = "gone"
        /\ editor'[c].lockStatus = editor[c].lockStatus
        /\ editor'[c].autoSave = editor[c].autoSave
        /\ editor'[c].intervalDue = editor[c].intervalDue
    BY <1>1, <2>1 DEF EditorRecords
  <2>3. CASE editor[c].autoSave
    BY <1>1, <1>2, <1>3, <2>1, <2>2, <2>3 DEF Destroy, Sent
  <2>4. CASE ~editor[c].autoSave
    BY <1>1, <1>2, <1>3, <2>1, <2>2, <2>4 DEF Destroy, Sent
  <2>5. QED
    BY <2>3, <2>4
<1>4. CASE ClickEdit(c, k)
  <2>1. /\ OthersStay(c)
        /\ editor'[c] = [editor[c] EXCEPT !.isEditing = TRUE, !.intervalDue = now + AutoSaveDelay]
        /\ call[k].stage = "idle" /\ editor[c].phase = "open"
    BY <1>4 DEF ClickEdit, OthersStay
  <2>2. QED
    BY <1>1, <1>2, <1>4, <2>1 DEF ClickEdit, Sent, EditorRecords, GraphsOf
<1>5. CASE ClickSave(c, k)
  <2>1. OthersStay(c) /\ GraphsOf(c)' = GraphsOf(c)
    BY <1>5 DEF ClickSave, OthersStay, GraphsOf
  <2>2. editor[c].updatedData \in Graphs
    BY <1>5 DEF ClickSave, editEnabled
  <2>3. QED
    BY <1>1, <1>2, <1>5, <2>1, <2>2 DEF ClickSave, Sent, editEnabled
<1>6. CASE ClickStop(c, k)
  <2>1. OthersStay(c) /\ GraphsOf(c)' = GraphsOf(c)
    BY <1>6 DEF ClickStop, OthersStay, GraphsOf
  <2>2. editor[c].serverGraphData \in Graphs
    BY <1>6 DEF ClickStop, editEnabled
  <2>3. QED
    BY <1>1, <1>2, <1>6, <2>1, <2>2 DEF ClickStop, Sent, editEnabled
<1>7. CASE IntervalFires(c, k)
  <2>1. /\ OthersStay(c)
        /\ editor'[c] = [editor[c] EXCEPT !.intervalDue = now + AutoSaveDelay]
        /\ call[k].stage = "idle" /\ editor[c].intervalDue # 0
    BY <1>7 DEF IntervalFires, OthersStay
  <2>2. /\ editor'[c].phase = editor[c].phase
        /\ editor'[c].lockStatus = editor[c].lockStatus
        /\ editor'[c].autoSave = editor[c].autoSave
        /\ editor'[c].intervalDue = now + AutoSaveDelay
        /\ GraphsOf(c)' = GraphsOf(c)
    BY <1>1, <2>1 DEF EditorRecords, GraphsOf
  <2>3. editor[c].phase = "open" => editor[c].updatedData \in Graphs
    OBVIOUS
  <2>4. QED
    BY <1>1, <1>2, <1>7, <2>1, <2>2, <2>3 DEF IntervalFires, Sent
<1>8. QED
  BY <1>3, <1>4, <1>5, <1>6, <1>7

(* What the answers to its requests do to an editor. *)
LEMMA AnswerSteps ==
  ASSUME ProviderTypeOK, EditorTypeOK, NEW k \in Calls,
         Throws(k) \/ AfterRefresh(k) \/ AfterDrop(k)
  PROVE  \E c \in Clients : Answered(c, k)
<1> USE DEF EditorTypeOK
<1> DEFINE g == pending[k].graph
<1>a. call[k].stage # "idle"
  BY DEF Throws, AfterRefresh, AfterDrop, LockAcquired
<1>b. PICK c \in Clients : call[k].from = c
  BY <1>a DEF ProviderTypeOK
<1>1. /\ now \in Nat /\ editor[c] \in EditorRecords
      /\ k \in Outstanding(c) /\ g \in Payloads
  BY <1>a, <1>b DEF ProviderTypeOK, Outstanding, PendingRecords
<1>2. Receive(k) /\ Done(k)
  BY DEF Throws, AfterRefresh, AfterDrop
<1>3. ASSUME NEW ed \in EditorRecords, SetEditor(c, ed),
             ed.phase = editor[c].phase, ed.autoSave = editor[c].autoSave,
             ed.intervalDue = editor[c].intervalDue,
             ed.phase = "open" =>
               {ed.serverGraphData, ed.updatedData, ed.shown} \subseteq Graphs
      PROVE  /\ OthersStay(c)
             /\ editor'[c].phase = editor[c].phase
             /\ editor'[c].autoSave = editor[c].autoSave
             /\ editor'[c].intervalDue = editor[c].intervalDue
             /\ editor'[c].phase = "open" =>
                  {editor'[c].serverGraphData, editor'[c].updatedData, editor'[c].shown}
                    \subseteq Graphs
             /\ editor[c].phase # "gone" => editor'[c].lockStatus = ed.lockStatus
  <2>1. OthersStay(c)
    BY <1>1, <1>3 DEF SetEditor, OthersStay
  <2>2. CASE editor[c].phase = "gone"
    <3>1. editor' = editor
      BY <1>3, <2>2 DEF SetEditor
    <3>2. QED
      BY <2>1, <2>2, <3>1
  <2>3. CASE editor[c].phase # "gone"
    <3>1. editor'[c] = ed
      BY <1>1, <1>3, <2>3 DEF SetEditor
    <3>2. editor'[c].phase = "open" =>
            {editor'[c].serverGraphData, editor'[c].updatedData, editor'[c].shown}
              \subseteq Graphs
      BY <1>3, <3>1
    <3>3. QED
      BY <1>3, <2>1, <3>1, <3>2
  <2>4. QED
    BY <2>2, <2>3
<1>4. CASE Throws(k)
  <2>1. editor' = editor /\ call[k].stage \in {"lost", "error"}
    BY <1>4 DEF Throws
  <2>2. GraphsOf(c)' = GraphsOf(c)
    BY <2>1, <1>2 DEF GraphsOf
  <2>3. editor[c].phase = "open" => GraphsOf(c) \subseteq Graphs
    BY <1>1 DEF GraphsOf
  <2>4. QED
    BY <1>b, <1>2, <2>1, <2>2, <2>3 DEF Answered, OthersStay
<1>5. CASE AfterRefresh(k)
  <2> DEFINE saved == IF pending[k].fn = "refreshLock" THEN editor[c]
                      ELSE [editor[c] EXCEPT !.serverGraphData = g, !.updatedData = g]
             acquired == WithLockStatus(saved, "Acquired")
             busy == [WithLockStatus(editor[c], "Busy") EXCEPT !.isEditing = FALSE]
  <2>1. pending[k].fn \in Refreshes
    BY <1>5 DEF AfterRefresh, Refreshes
  <2>2. /\ saved \in EditorRecords
        /\ saved.phase = editor[c].phase /\ saved.autoSave = editor[c].autoSave
        /\ saved.intervalDue = editor[c].intervalDue
    BY <1>1 DEF EditorRecords
  <2>3. saved.phase = "open" =>
          {saved.serverGraphData, saved.updatedData, saved.shown} \subseteq Graphs
    BY <1>1, <1>5 DEF AfterRefresh, EditorRecords
  <2> HIDE DEF saved
  <2>4. ASSUME LockAcquired(k), SetEditor(c, acquired)
        PROVE  Answered(c, k)
    <3>1. /\ acquired \in EditorRecords /\ acquired.lockStatus = "Acquired"
          /\ acquired.phase = saved.phase /\ acquired.autoSave = saved.autoSave
          /\ acquired.intervalDue = saved.intervalDue
          /\ acquired.serverGraphData = saved.serverGraphData
          /\ acquired.updatedData = saved.updatedData /\ acquired.shown = saved.shown
      BY <1>1, <2>2, WithLockStatusType
    <3> HIDE DEF acquired
    <3>2. /\ OthersStay(c)
          /\ editor'[c].phase = editor[c].phase
          /\ editor'[c].autoSave = editor[c].autoSave
          /\ editor'[c].intervalDue = editor[c].intervalDue
          /\ editor'[c].phase = "open" => GraphsOf(c)' \subseteq Graphs
          /\ editor[c].phase # "gone" => editor'[c].lockStatus = "Acquired"
      BY <1>3, <2>2, <2>3, <2>4, <3>1 DEF GraphsOf
    <3>3. QED
      BY <1>b, <1>2, <2>1, <2>4, <3>2 DEF Answered, LockAcquired
  <2>5. ASSUME call[k].stage = "conflict", SetEditor(c, busy)
        PROVE  Answered(c, k)
    <3> DEFINE shown == WithLockStatus(editor[c], "Busy")
    <3>1. /\ shown \in EditorRecords /\ shown.lockStatus = "Busy"
          /\ shown.phase = editor[c].phase /\ shown.autoSave = editor[c].autoSave
          /\ shown.intervalDue = editor[c].intervalDue
          /\ shown.serverGraphData = editor[c].serverGraphData
          /\ shown.updatedData = editor[c].updatedData /\ shown.shown = editor[c].shown
      BY <1>1, WithLockStatusType
    <3> HIDE DEF shown
    <3>2. busy = [shown EXCEPT !.isEditing = FALSE]
      BY DEF shown
    <3> HIDE DEF busy
    <3>3. /\ busy \in EditorRecords /\ busy.lockStatus = "Busy"
          /\ busy.phase = editor[c].phase /\ busy.autoSave = editor[c].autoSave
          /\ busy.intervalDue = editor[c].intervalDue
          /\ busy.serverGraphData = editor[c].serverGraphData
          /\ busy.updatedData = editor[c].updatedData /\ busy.shown = editor[c].shown
      BY <3>1, <3>2 DEF EditorRecords
    <3>4. /\ OthersStay(c)
          /\ editor'[c].phase = editor[c].phase
          /\ editor'[c].autoSave = editor[c].autoSave
          /\ editor'[c].intervalDue = editor[c].intervalDue
          /\ editor'[c].phase = "open" => GraphsOf(c)' \subseteq Graphs
          /\ editor[c].phase # "gone" => editor'[c].lockStatus = "Busy"
      BY <1>1, <1>3, <2>5, <3>3 DEF GraphsOf
    <3>5. QED
      BY <1>b, <1>2, <2>1, <2>5, <3>4 DEF Answered
  <2>6. QED
    BY <1>b, <1>5, <2>4, <2>5 DEF AfterRefresh, saved
<1>6. CASE AfterDrop(k)
  <2> DEFINE status == WithLockStatus(editor[c], "NotRequested")
             ed == [status EXCEPT !.isEditing = FALSE]
             reset == [ed EXCEPT !.updatedData = g, !.shown = g]
  <2>1. /\ status \in EditorRecords /\ status.lockStatus = "NotRequested"
        /\ status.phase = editor[c].phase /\ status.autoSave = editor[c].autoSave
        /\ status.intervalDue = editor[c].intervalDue
        /\ status.serverGraphData = editor[c].serverGraphData
        /\ status.updatedData = editor[c].updatedData /\ status.shown = editor[c].shown
    BY <1>1, WithLockStatusType
  <2>2. SetEditor(c, IF pending[k].fn = "closeEditMode" THEN reset ELSE ed)
    BY <1>b, <1>6 DEF AfterDrop
  <2> HIDE DEF status
  <2>3. /\ ed \in EditorRecords /\ ed.lockStatus = "NotRequested"
        /\ ed.phase = editor[c].phase /\ ed.autoSave = editor[c].autoSave
        /\ ed.intervalDue = editor[c].intervalDue
        /\ ed.serverGraphData = editor[c].serverGraphData
        /\ ed.updatedData = editor[c].updatedData /\ ed.shown = editor[c].shown
    BY <2>1 DEF EditorRecords
  <2> HIDE DEF ed
  <2>4. /\ reset \in EditorRecords /\ reset.lockStatus = "NotRequested"
        /\ reset.phase = editor[c].phase /\ reset.autoSave = editor[c].autoSave
        /\ reset.intervalDue = editor[c].intervalDue
        /\ reset.serverGraphData = editor[c].serverGraphData
        /\ reset.updatedData = g /\ reset.shown = g
    BY <1>1, <2>3 DEF EditorRecords
  <2> HIDE DEF reset
  <2>5. /\ OthersStay(c)
        /\ editor'[c].phase = editor[c].phase
        /\ editor'[c].autoSave = editor[c].autoSave
        /\ editor'[c].intervalDue = editor[c].intervalDue
        /\ editor'[c].phase = "open" => GraphsOf(c)' \subseteq Graphs
        /\ editor[c].phase # "gone" => editor'[c].lockStatus = "NotRequested"
    <3>1. CASE pending[k].fn = "closeEditMode"
      BY <1>1, <1>3, <2>2, <2>4, <3>1 DEF GraphsOf
    <3>2. CASE pending[k].fn # "closeEditMode"
      BY <1>1, <1>3, <2>2, <2>3, <3>2 DEF GraphsOf
    <3>3. QED
      BY <3>1, <3>2
  <2>6. QED
    BY <1>b, <1>2, <1>6, <2>5 DEF AfterDrop, Answered
<1>7. QED
  BY <1>4, <1>5, <1>6

(* Every step is of one of these kinds, the second request of a closing    *)
(* save, the provider's, or a tick.                                        *)
LEMMA EditorStepKinds ==
  ASSUME ProviderTypeOK, EditorTypeOK, EditorNext
  PROVE  \/ \E c \in Clients : Local(c) \/ \E k \in Calls : Sent(c, k)
         \/ \E c \in Clients, k \in Calls : Answered(c, k)
         \/ \E k \in Calls : AfterClosingSave(k) \/ ServeOrLose(k)
         \/ Elapse
<1>1. ASSUME NEW c \in Clients, UserAction(c) \/ Load(c) \/ Timer(c)
      PROVE  Local(c) \/ \E k \in Calls : Sent(c, k)
  BY <1>1, LocalSteps, SendingSteps DEF UserAction, Timer
<1>2. ASSUME NEW k \in Calls, Continue(k)
      PROVE  AfterClosingSave(k) \/ \E c \in Clients : Answered(c, k)
  BY <1>2, AnswerSteps DEF Continue
<1>3. QED
  BY <1>1, <1>2 DEF EditorNext

------------------------------------------------------------------------------
(* What a step does to the requests in flight.                              *)

(* The record of j is the same, but that j no longer waits for k. *)
Behind(j, k) ==
  /\ call'[j].stage = call[j].stage
  /\ call'[j].from = call[j].from
  /\ call'[j].endpoint = call[j].endpoint
  /\ call'[j].lockDelay = call[j].lockDelay
  /\ call'[j].sentAt = call[j].sentAt
  /\ call'[j].currentUnix = call[j].currentUnix
  /\ call'[j].expiresAt = call[j].expiresAt
  /\ call'[j].older = call[j].older \ {k}

(* A record that loses k from the requests before it. *)
LEMMA BehindRecord ==
  ASSUME ProviderTypeOK, NEW j \in Calls, NEW k,
         call'[j] = [call[j] EXCEPT !.older = @ \ {k}]
  PROVE  Behind(j, k)
  BY DEF ProviderTypeOK, CallRecords, Behind

(* A new request waits for all the others of its client. *)
LEMMA RequestEffect ==
  ASSUME ProviderTypeOK, NEW k \in Calls, NEW c \in Clients, NEW endpoint, NEW data,
         NEW lockDelay, Request(k, c, endpoint, data, lockDelay)
  PROVE  /\ call'[k].stage = "sent" /\ call'[k].from = c
         /\ call'[k].endpoint = endpoint /\ call'[k].lockDelay = lockDelay
         /\ call'[k].sentAt = now /\ call'[k].older = Outstanding(c) \ {k}
         /\ \A j \in Calls \ {k} : Behind(j, k)
         /\ \A d \in Clients \ {c} : Outstanding(d)' = Outstanding(d)
         /\ Outstanding(c)' = Outstanding(c) \cup {k}
         /\ UNCHANGED <<now, lockOwner, lockExpiresAt, graph>>
<1>1. call'[k] = [NoCall EXCEPT !.stage = "sent", !.from = c,
                           !.endpoint = endpoint, !.data = data,
                           !.lockDelay = lockDelay, !.sentAt = now,
                           !.older = Outstanding(c) \ {k}]
  BY DEF Request
<1>2. \A j \in Calls \ {k} : call'[j] = [call[j] EXCEPT !.older = @ \ {k}]
  BY DEF Request
<1>3. \A j \in Calls \ {k} : Behind(j, k)
  BY <1>2, BehindRecord
<1>4. /\ call'[k].stage = "sent" /\ call'[k].from = c
      /\ call'[k].endpoint = endpoint /\ call'[k].lockDelay = lockDelay
      /\ call'[k].sentAt = now /\ call'[k].older = Outstanding(c) \ {k}
  BY <1>1 DEF NoCall
<1>5. call[k].stage = "idle" \/ call[k].from = c
  BY DEF Request
<1>6. \A d \in Clients \ {c} : Outstanding(d)' = Outstanding(d)
  BY <1>3, <1>4, <1>5 DEF Outstanding, Behind
<1>7. Outstanding(c)' = Outstanding(c) \cup {k}
  BY <1>3, <1>4 DEF Outstanding, Behind
<1>8. QED
  BY <1>3, <1>4, <1>6, <1>7 DEF Request

(* An answer that arrives frees its request. *)
LEMMA ReceiveEffect ==
  ASSUME ProviderTypeOK, NEW k \in Calls, NEW c \in Clients, Receive(k), call[k].from = c
  PROVE  /\ call'[k].stage = "idle"
         /\ call[k].stage \in Answers /\ k \in Outstanding(c)
         /\ \A j \in Calls \ {k} : Behind(j, k)
         /\ \A d \in Clients \ {c} : Outstanding(d)' = Outstanding(d)
         /\ Outstanding(c)' = Outstanding(c) \ {k}
         /\ UNCHANGED <<now, lockOwner, lockExpiresAt, graph>>
<1>1. \A j \in Calls \ {k} : Behind(j, k)
  BY BehindRecord DEF Receive
<1>2. call'[k].stage = "idle" /\ call[k].stage \in Answers
  BY DEF Receive, NoCall
<1>3. QED
  BY <1>1, <1>2 DEF Receive, Outstanding, Behind, Answers

(* Serving or losing a request changes its stage, and GetLock's locals. *)
LEMMA ServeEffect ==
  ASSUME ProviderTypeOK, NEW k \in Calls, ServeOrLose(k)
  PROVE  /\ call[k].stage \in {"sent", "clocked", "granted"} \cup Answers
         /\ call'[k].stage \in {"clocked", "granted"} \cup Answers
         /\ call'[k].from = call[k].from /\ call'[k].endpoint = call[k].endpoint
         /\ call'[k].lockDelay = call[k].lockDelay
         /\ call'[k].sentAt = call[k].sentAt /\ call'[k].older = call[k].older
         /\ \A j \in Calls \ {k} : call'[j] = call[j]
         /\ \A d \in Clients : Outstanding(d)' = Outstanding(d)
         /\ UNCHANGED <<now, editor, pending>>
<1>1. CASE Serve(k)
  <2> USE DEF ProviderTypeOK, CallRecords, MoveTo, MayStart, Answers
  <2>1. call'[k].endpoint = call[k].endpoint
    <3>1. CASE GetLockReadClock(k)  BY <3>1 DEF GetLockReadClock
    <3>2. CASE GetLockTooLong(k)  BY <3>2 DEF GetLockTooLong
    <3>3. CASE GetLockGrant(k)  BY <3>3 DEF GetLockGrant
    <3>4. CASE GetLockConflict(k)  BY <3>4 DEF GetLockConflict
    <3>5. CASE SaveEcosystemGraph(k)  BY <3>5 DEF SaveEcosystemGraph
    <3>6. CASE DropLockEcosystemGraph(k)  BY <3>6 DEF DropLockEcosystemGraph
    <3>7. CASE DatabaseError(k)  BY <3>7 DEF DatabaseError
    <3>8. QED
      BY <1>1, <3>1, <3>2, <3>3, <3>4, <3>5, <3>6, <3>7 DEF Serve
  <2>2. \A j \in Calls \ {k} : call'[j] = call[j]
    BY <1>1, ServeFrame
  <2>3. QED
    BY <1>1, <2>1, <2>2, ServeOwn DEF Outstanding, ServeOrLose, clientVars
<1>2. CASE LoseRequest(k)
  BY <1>2 DEF ServeOrLose, LoseRequest, MoveTo, ProviderTypeOK, CallRecords, Answers,
      Outstanding, clientVars
<1>3. QED
  BY <1>1, <1>2 DEF ServeOrLose

(* What every kind of step leaves of the requests and their followers. *)
LEMMA SentEffect ==
  ASSUME ProviderTypeOK, NEW c \in Clients, NEW k \in Calls, Sent(c, k)
  PROVE  /\ call'[k].stage = "sent" /\ call'[k].from = c
         /\ call'[k].sentAt = now /\ call'[k].older = Outstanding(c) \ {k}
         /\ k \notin Outstanding(c)
         /\ call'[k].endpoint = "lock" =>
              /\ call'[k].lockDelay = AutoSaveDelay
              /\ pending'[k].fn \in Refreshes \cup Closings
         /\ call'[k].endpoint # "lock" =>
              call'[k].endpoint = "drop_lock" /\ pending'[k].fn \in Closings
         /\ \A j \in Calls \ {k} : Behind(j, k)
         /\ \A d \in Clients \ {c} : Outstanding(d)' = Outstanding(d)
         /\ Outstanding(c)' = Outstanding(c) \cup {k}
         /\ UNCHANGED <<now, lockOwner, lockExpiresAt, graph>>
<1>1. PICK data \in Payloads :
        \/ Request(k, c, "lock", data, AutoSaveDelay) /\ pending'[k].fn \in Refreshes \cup Closings
        \/ Request(k, c, "drop_lock", data, 0) /\ pending'[k].fn \in Closings
  BY DEF Sent
<1>2. call[k].stage = "idle"
  BY DEF Sent
<1>3. CASE Request(k, c, "lock", data, AutoSaveDelay) /\ pending'[k].fn \in Refreshes \cup Closings
  BY <1>2, <1>3, RequestEffect DEF Outstanding
<1>4. CASE Request(k, c, "drop_lock", data, 0) /\ pending'[k].fn \in Closings
  BY <1>2, <1>4, RequestEffect DEF Outstanding
<1>5. QED
  BY <1>1, <1>3, <1>4

(* A closing save has its request replaced by the drop of the lock. *)
LEMMA ClosingSaveEffect ==
  ASSUME ProviderTypeOK, NEW k \in Calls, AfterClosingSave(k)
  PROVE  \E c \in Clients :
         /\ call[k].from = c /\ k \in Outstanding(c) /\ call[k].stage \in Answers
         /\ call'[k].stage = "sent" /\ call'[k].from = c
         /\ call'[k].endpoint = "drop_lock" /\ pending[k].fn \in Closings
         /\ call'[k].sentAt = now
         /\ \A j \in Calls \ {k} : Behind(j, k)
         /\ \A d \in Clients : Outstanding(d)' = Outstanding(d)
         /\ UNCHANGED <<now, lockOwner, lockExpiresAt, graph, editor, pending>>
<1>1. PICK c \in Clients : call[k].from = c
  BY DEF AfterClosingSave, ProviderTypeOK
<1>2. /\ call[k].stage \in Answers /\ call[k].stage # "idle"
      /\ pending[k].fn \in Closings
      /\ UNCHANGED <<editor, pending>>
      /\ Request(k, c, "drop_lock", NoNodes, 0)
  BY <1>1 DEF AfterClosingSave, Answers, Closings, clientVars, RequestDropLock
<1>3. k \in Outstanding(c)
  BY <1>1, <1>2 DEF Outstanding
<1>4. QED
  BY <1>1, <1>2, <1>3, RequestEffect

------------------------------------------------------------------------------
(* What holds of the editors whatever fails or overtakes.                   *)

(* A function awaits every request in flight, and only a function that     *)
(* closes awaits a drop; a lock is asked for the delay of an interval.     *)
RequestsOK ==
  \A k \in Calls :
    /\ ~Active(k) => pending[k].fn = "none"
    /\ Active(k) => pending[k].fn \in Refreshes \cup Closings
    /\ Active(k) /\ call[k].endpoint = "drop_lock" => pending[k].fn \in Closings
    /\ Active(k) /\ call[k].endpoint = "lock" => call[k].lockDelay = AutoSaveDelay
    /\ call[k].stage \in {"clocked", "granted"} => call[k].endpoint = "lock"
    /\ call[k].stage = "clocked" =>
         call[k].expiresAt = call[k].currentUnix + AutoSaveDelay + LOCK_TIME_EXTRA_TIME

(* Whoever asks for the lock is or was in an edit session, or saves        *)
(* automatically.                                                          *)
LockNeedsSession ==
  \A c \in Clients : \A k \in Outstanding(c) :
    call[k].endpoint = "lock" => editor[c].intervalDue # 0 \/ editor[c].autoSave

SessionInv == TimeInv /\ EditorTypeOK /\ Dormant /\ RequestsOK /\ LockNeedsSession

(* At the start no editor is mounted. *)
LEMMA SessionInit == EditorInit => SessionInv
<1> SUFFICES ASSUME EditorInit PROVE SessionInv
  OBVIOUS
<1>1. TimeInv
  BY TimeInit DEF EditorInit
<1>2. \A k \in Calls : call[k] = NoCall
  BY DEF EditorInit, ProviderInit
<1>3. \A c \in Clients : Outstanding(c) = {}
  BY <1>2 DEF Outstanding, NoCall
<1>4. ClosedEditor \in EditorRecords /\ NotPending \in PendingRecords
  BY DEF ClosedEditor, EditorRecords, NotPending, PendingRecords, Payloads
<1>5. EditorTypeOK
  BY <1>3, <1>4 DEF EditorInit, EditorTypeOK, ClosedEditor
<1>6. Dormant
  BY <1>3 DEF EditorInit, Dormant, ClosedEditor
<1>7. RequestsOK
  BY <1>2 DEF EditorInit, RequestsOK, Active, NoCall, NotPending
<1>8. QED
  BY <1>1, <1>3, <1>5, <1>6, <1>7 DEF SessionInv, LockNeedsSession

(* The graphs of the open editors and of the requests that reset them. *)
LEMMA EditorTypeStep ==
  ASSUME SessionInv, EditorNext
  PROVE  EditorTypeOK'
<1> USE DEF SessionInv, TimeInv
<1> DEFINE Open(c) == editor[c].phase = "open" => GraphsOf(c) \subseteq Graphs
           Resets(c, k) == editor[c].phase = "open" /\ pending[k].fn \in {"updateGraph", "closeEditMode"} =>
                             pending[k].graph \in Graphs
<1>1. \A c \in Clients : Open(c) /\ \A k \in Outstanding(c) : Resets(c, k)
  BY DEF EditorTypeOK, GraphsOf
<1>2. SUFFICES \A c \in Clients : Open(c)' /\ \A k \in Outstanding(c)' : Resets(c, k)'
  BY RecordsStep DEF EditorTypeOK, GraphsOf
<1>3. ASSUME NEW c \in Clients, Local(c)
      PROVE  \A d \in Clients : Open(d)' /\ \A k \in Outstanding(d)' : Resets(d, k)'
  <2>1. \A d \in Clients : Outstanding(d)' = Outstanding(d)
    BY <1>3 DEF Local, Outstanding, providerVars
  <2>2. ASSUME NEW d \in Clients \ {c} PROVE Open(d)' /\ \A k \in Outstanding(d)' : Resets(d, k)'
    BY <1>1, <1>3, <2>1 DEF Local, OthersStay, GraphsOf
  <2>3. Open(c)'
    BY <1>3 DEF Local
  <2>4. ASSUME NEW k \in Outstanding(c)', editor'[c].phase = "open" PROVE editor[c].phase = "open"
    BY <1>3, <2>1, <2>4 DEF Local, Dormant
  <2>5. \A k \in Outstanding(c)' : Resets(c, k)'
    BY <1>1, <1>3, <2>1, <2>4 DEF Local
  <2>6. QED
    BY <2>2, <2>3, <2>5
<1>4. ASSUME NEW c \in Clients, NEW k \in Calls, Sent(c, k)
      PROVE  \A d \in Clients : Open(d)' /\ \A j \in Outstanding(d)' : Resets(d, j)'
  <2>1. ASSUME NEW d \in Clients \ {c} PROVE Open(d)' /\ \A j \in Outstanding(d)' : Resets(d, j)'
    <3>1. /\ editor'[d] = editor[d] /\ Outstanding(d)' = Outstanding(d)
          /\ k \notin Outstanding(d)
      BY <1>4, SentEffect DEF Sent, OthersStay, Outstanding
    <3>2. \A j \in Outstanding(d) : pending'[j] = pending[j]
      BY <1>4, <3>1 DEF Sent, Outstanding
    <3>3. QED
      BY <1>1, <3>1, <3>2 DEF GraphsOf
  <2>2. Open(c)'
    BY <1>1, <1>4 DEF Sent
  <2>3. ASSUME NEW j \in Outstanding(c)' PROVE Resets(c, j)'
    <3>1. j \in Outstanding(c) \cup {k}
      BY <1>4, SentEffect
    <3>2. CASE j = k
      BY <1>4, <3>2 DEF Sent
    <3>3. CASE j # k
      <4>1. pending'[j] = pending[j] /\ j \in Outstanding(c)
        BY <1>4, <3>1, <3>3 DEF Sent, Outstanding
      <4>2. QED
        BY <1>1, <1>4, <4>1 DEF Sent
    <3>4. QED
      BY <3>2, <3>3
  <2>4. QED
    BY <2>1, <2>2, <2>3
<1>5. ASSUME NEW c \in Clients, NEW k \in Calls, Answered(c, k)
      PROVE  \A d \in Clients : Open(d)' /\ \A j \in Outstanding(d)' : Resets(d, j)'
  <2>1. ASSUME NEW d \in Clients, NEW j \in Outstanding(d)'
        PROVE  j \in Outstanding(d) /\ pending'[j] = pending[j]
    <3>1. /\ \A e \in Clients \ {c} : Outstanding(e)' = Outstanding(e)
          /\ Outstanding(c)' = Outstanding(c) \ {k} /\ k \in Outstanding(c)
      BY <1>5, ReceiveEffect DEF Answered
    <3>2. j \in Outstanding(d) /\ j # k /\ j \in Calls
      BY <2>1, <3>1 DEF Outstanding
    <3>3. QED
      BY <1>5, <3>2 DEF Answered, Done
  <2>2. ASSUME NEW d \in Clients \ {c} PROVE editor'[d] = editor[d] /\ GraphsOf(d)' = GraphsOf(d)
    BY <1>5 DEF Answered, OthersStay, GraphsOf
  <2>3. Open(c)' /\ editor'[c].phase = editor[c].phase
    BY <1>5 DEF Answered
  <2>4. QED
    BY <1>1, <2>1, <2>2, <2>3
<1>6. ASSUME UNCHANGED <<editor, pending>>, \A d \in Clients : Outstanding(d)' = Outstanding(d)
      PROVE  \A d \in Clients : Open(d)' /\ \A j \in Outstanding(d)' : Resets(d, j)'
  BY <1>1, <1>6 DEF GraphsOf
<1>7. ASSUME NEW k \in Calls, AfterClosingSave(k) \/ ServeOrLose(k)
      PROVE  UNCHANGED <<editor, pending>> /\ \A d \in Clients : Outstanding(d)' = Outstanding(d)
  BY <1>7, ServeEffect, ClosingSaveEffect
<1>8. ASSUME Elapse
      PROVE  UNCHANGED <<editor, pending>> /\ \A d \in Clients : Outstanding(d)' = Outstanding(d)
  BY <1>8 DEF Elapse, Tick, clientVars, Outstanding
<1>9. QED
  BY <1>3, <1>4, <1>5, <1>6, <1>7, <1>8, EditorStepKinds

(* Before its first session an editor has no interval, no request on its   *)
(* way and no status.                                                      *)
LEMMA DormantStep ==
  ASSUME SessionInv, EditorNext
  PROVE  Dormant'
<1> USE DEF SessionInv, TimeInv
<1>1. SUFFICES ASSUME NEW d \in Clients
               PROVE  /\ editor'[d].phase \in {"closed", "loading"} => editor'[d].intervalDue = 0
                      /\ editor'[d].phase # "gone" /\ editor'[d].intervalDue = 0 =>
                           Outstanding(d)' = {} /\ editor'[d].lockStatus = "NotRequested"
  BY DEF Dormant
<1>2. /\ editor[d].phase \in {"closed", "loading"} => editor[d].intervalDue = 0
      /\ editor[d].phase # "gone" /\ editor[d].intervalDue = 0 =>
           Outstanding(d) = {} /\ editor[d].lockStatus = "NotRequested"
  BY DEF Dormant
<1>3. ASSUME editor'[d] = editor[d], Outstanding(d)' = Outstanding(d)
      PROVE  /\ editor'[d].phase \in {"closed", "loading"} => editor'[d].intervalDue = 0
             /\ editor'[d].phase # "gone" /\ editor'[d].intervalDue = 0 =>
                  Outstanding(d)' = {} /\ editor'[d].lockStatus = "NotRequested"
  BY <1>2, <1>3
<1>4. ASSUME NEW c \in Clients, Local(c)
      PROVE  /\ editor'[d].phase \in {"closed", "loading"} => editor'[d].intervalDue = 0
             /\ editor'[d].phase # "gone" /\ editor'[d].intervalDue = 0 =>
                  Outstanding(d)' = {} /\ editor'[d].lockStatus = "NotRequested"
  <2>1. Outstanding(d)' = Outstanding(d)
    BY <1>4 DEF Local, Outstanding, providerVars
  <2>2. CASE d = c
    BY <1>2, <1>4, <2>1, <2>2 DEF Local
  <2>3. CASE d # c
    BY <1>3, <1>4, <2>1, <2>3 DEF Local, OthersStay
  <2>4. QED
    BY <2>2, <2>3
<1>5. ASSUME NEW c \in Clients, NEW k \in Calls, Sent(c, k)
      PROVE  /\ editor'[d].phase \in {"closed", "loading"} => editor'[d].intervalDue = 0
             /\ editor'[d].phase # "gone" /\ editor'[d].intervalDue = 0 =>
                  Outstanding(d)' = {} /\ editor'[d].lockStatus = "NotRequested"
  <2>1. CASE d = c
    <3>1. now + AutoSaveDelay # 0
      BY DelayType DEF ProviderTypeOK
    <3>2. CASE /\ editor'[c].phase = editor[c].phase
               /\ editor[c].phase = "open" \/ editor[c].intervalDue # 0
               /\ editor'[c].intervalDue = now + AutoSaveDelay
      BY <1>2, <2>1, <3>1, <3>2
    <3>3. CASE editEnabled(c) /\ editor' = editor
      BY <1>2, <2>1, <3>3 DEF editEnabled
    <3>4. CASE editor'[c].phase = "gone"
      BY <2>1, <3>4
    <3>5. QED
      BY <1>5, <3>2, <3>3, <3>4 DEF Sent
  <2>2. CASE d # c
    BY <1>3, <1>5, <2>2, SentEffect DEF Sent, OthersStay
  <2>3. QED
    BY <2>1, <2>2
<1>6. ASSUME NEW c \in Clients, NEW k \in Calls, Answered(c, k)
      PROVE  /\ editor'[d].phase \in {"closed", "loading"} => editor'[d].intervalDue = 0
             /\ editor'[d].phase # "gone" /\ editor'[d].intervalDue = 0 =>
                  Outstanding(d)' = {} /\ editor'[d].lockStatus = "NotRequested"
  <2>1. CASE d = c
    <3>1. k \in Outstanding(c)
      BY <1>6, ReceiveEffect DEF Answered
    <3>2. QED
      BY <1>2, <1>6, <2>1, <3>1 DEF Answered
  <2>2. CASE d # c
    BY <1>3, <1>6, <2>2, ReceiveEffect DEF Answered, OthersStay
  <2>3. QED
    BY <2>1, <2>2
<1>7. ASSUME NEW k \in Calls, AfterClosingSave(k) \/ ServeOrLose(k)
      PROVE  editor'[d] = editor[d] /\ Outstanding(d)' = Outstanding(d)
  BY <1>7, ServeEffect, ClosingSaveEffect
<1>8. ASSUME Elapse PROVE editor'[d] = editor[d] /\ Outstanding(d)' = Outstanding(d)
  BY <1>8 DEF Elapse, Tick, clientVars, Outstanding
<1>9. QED
  BY <1>3, <1>4, <1>5, <1>6, <1>7, <1>8, EditorStepKinds

(* The steps of the provider keep what a request was sent with, and GetLock*)
(* reads its clock once.                                                   *)
LEMMA ClockedDelay ==
  ASSUME ProviderTypeOK, NEW k \in Calls, ServeOrLose(k)
  PROVE  /\ call'[k].stage \in {"clocked", "granted"} =>
              call[k].endpoint = "lock" \/ call[k].stage = "clocked"
         /\ call'[k].stage = "clocked" =>
              call'[k].expiresAt = call'[k].currentUnix + call[k].lockDelay + LOCK_TIME_EXTRA_TIME
<1> USE DEF ProviderTypeOK
<1>1. CASE LoseRequest(k)
  BY <1>1 DEF LoseRequest, MoveTo
<1>2. CASE Serve(k)
  <2>1. ASSUME call'[k].stage = "clocked"
        PROVE  /\ call[k].endpoint = "lock"
               /\ call'[k].expiresAt = call'[k].currentUnix + call[k].lockDelay + LOCK_TIME_EXTRA_TIME
    <3>1. GetLockReadClock(k)
      BY <1>2, <2>1, ServeOwn
    <3>2. call'[k] = [call[k] EXCEPT !.stage = "clocked", !.currentUnix = now,
                                     !.expiresAt = ExpiresAt(call[k].lockDelay)]
      BY <3>1 DEF GetLockReadClock
    <3>3. call'[k].currentUnix = now /\ call'[k].expiresAt = ExpiresAt(call[k].lockDelay)
      BY <3>2 DEF CallRecords
    <3>4. QED
      BY <3>1, <3>3 DEF GetLockReadClock, ExpiresAt
  <2>2. call'[k].stage = "granted" => call[k].stage = "clocked"
    BY <1>2, ServeOwn DEF GetLockGrant
  <2>3. QED
    BY <2>1, <2>2
<1>3. QED
  BY <1>1, <1>2 DEF ServeOrLose

(* Every request is awaited by the function that sent it. *)
LEMMA RequestsStep ==
  ASSUME SessionInv, EditorNext
  PROVE  RequestsOK'
<1> USE DEF SessionInv, TimeInv
<1> DEFINE OK(k) ==
             /\ ~Active(k) => pending[k].fn = "none"
             /\ Active(k) => pending[k].fn \in Refreshes \cup Closings
             /\ Active(k) /\ call[k].endpoint = "drop_lock" => pending[k].fn \in Closings
             /\ Active(k) /\ call[k].endpoint = "lock" => call[k].lockDelay = AutoSaveDelay
             /\ call[k].stage \in {"clocked", "granted"} => call[k].endpoint = "lock"
             /\ call[k].stage = "clocked" =>
                  call[k].expiresAt = call[k].currentUnix + AutoSaveDelay + LOCK_TIME_EXTRA_TIME
<1>1. \A k \in Calls : OK(k)
  BY DEF RequestsOK
<1>2. SUFFICES \A k \in Calls : OK(k)'
  BY DEF RequestsOK
<1>3. ASSUME NEW j \in Calls, NEW k, Behind(j, k), pending'[j] = pending[j]
      PROVE  OK(j)'
  BY <1>1, <1>3 DEF Behind, Active
<1>4. ASSUME NEW j \in Calls, call'[j] = call[j], pending'[j] = pending[j]
      PROVE  OK(j)'
  BY <1>1, <1>4 DEF Active
<1>5. CASE Elapse \/ \E c \in Clients : Local(c)
  BY <1>4, <1>5 DEF Elapse, Tick, clientVars, Local, providerVars
<1>6. ASSUME NEW c \in Clients, NEW k \in Calls, Sent(c, k)
      PROVE  \A j \in Calls : OK(j)'
  <2>1. OK(k)'
    BY <1>6, SentEffect DEF Active
  <2>2. \A j \in Calls \ {k} : Behind(j, k) /\ pending'[j] = pending[j]
    BY <1>6, SentEffect DEF Sent
  <2>3. QED
    BY <1>3, <2>1, <2>2
<1>7. ASSUME NEW c \in Clients, NEW k \in Calls, Answered(c, k)
      PROVE  \A j \in Calls : OK(j)'
  <2>1. call'[k].stage = "idle" /\ \A j \in Calls \ {k} : Behind(j, k)
    BY <1>7, ReceiveEffect DEF Answered
  <2>2. /\ pending'[k].fn = "none"
        /\ \A j \in Calls \ {k} : pending'[j] = pending[j]
    BY <1>7 DEF Answered, Done, NotPending, EditorTypeOK
  <2>3. OK(k)'
    BY <2>1, <2>2 DEF Active
  <2>4. QED
    BY <1>3, <2>1, <2>2, <2>3
<1>8. ASSUME NEW k \in Calls, AfterClosingSave(k)
      PROVE  \A j \in Calls : OK(j)'
  BY <1>3, <1>8, ClosingSaveEffect DEF Active
<1>9. ASSUME NEW k \in Calls, ServeOrLose(k)
      PROVE  \A j \in Calls : OK(j)'
  <2>1. \A j \in Calls \ {k} : call'[j] = call[j] /\ pending'[j] = pending[j]
    BY <1>9, ServeEffect
  <2>2. /\ Active(k) /\ Active(k)' /\ pending'[k] = pending[k]
        /\ call'[k].endpoint = call[k].endpoint /\ call'[k].lockDelay = call[k].lockDelay
    BY <1>9, ServeEffect DEF Active, Answers
  <2>3. call'[k].stage = "clocked" => call[k].endpoint = "lock"
    BY <1>1, <1>9, ClockedDelay
  <2>4. OK(k)'
    BY <1>1, <1>9, <2>2, <2>3, ClockedDelay
  <2>5. QED
    BY <1>4, <2>1, <2>4
<1>10. QED
  BY <1>5, <1>6, <1>7, <1>8, <1>9, EditorStepKinds

(* A lock is asked for with an interval running, or by autosave.           *)
LEMMA LockNeedsSessionStep ==
  ASSUME SessionInv, EditorNext
  PROVE  LockNeedsSession'
<1> USE DEF SessionInv, TimeInv
<1>1. SUFFICES ASSUME NEW d \in Clients, NEW j \in Outstanding(d)',
                      call'[j].endpoint = "lock"
               PROVE  editor'[d].intervalDue # 0 \/ editor'[d].autoSave
  BY DEF LockNeedsSession
<1>2. ASSUME j \in Outstanding(d), call[j].endpoint = "lock"
      PROVE  editor[d].intervalDue # 0 \/ editor[d].autoSave
  BY <1>2 DEF LockNeedsSession
<1>3. j \in Calls
  BY DEF Outstanding
<1>4. CASE Elapse
  BY <1>1, <1>2, <1>4 DEF Elapse, Tick, clientVars, Outstanding
<1>5. ASSUME NEW c \in Clients, Local(c)
      PROVE  editor'[d].intervalDue # 0 \/ editor'[d].autoSave
  <2>1. j \in Outstanding(d) /\ call[j].endpoint = "lock"
    BY <1>1, <1>5 DEF Local, Outstanding, providerVars
  <2>2. CASE d = c
    <3>1. editor[c].phase # "closed" \/ editor[c].intervalDue # 0
      BY <2>1, <2>2 DEF Dormant
    <3>2. QED
      BY <1>2, <1>5, <2>1, <2>2, <3>1 DEF Local
  <2>3. CASE d # c
    BY <1>2, <1>5, <2>1, <2>3 DEF Local, OthersStay
  <2>4. QED
    BY <2>2, <2>3
<1>6. ASSUME NEW c \in Clients, NEW k \in Calls, Sent(c, k)
      PROVE  editor'[d].intervalDue # 0 \/ editor'[d].autoSave
  <2>1. CASE d # c
    <3>1. j \in Outstanding(d) /\ j # k /\ editor'[d] = editor[d]
      BY <1>1, <1>6, <2>1, SentEffect DEF Sent, OthersStay, Outstanding
    <3>2. call[j].endpoint = "lock"
      BY <1>1, <1>3, <1>6, <3>1, SentEffect DEF Behind
    <3>3. QED
      BY <1>2, <3>1, <3>2
  <2>2. CASE d = c
    <3>1. editor'[c].autoSave = editor[c].autoSave
      BY <1>6 DEF Sent
    <3>2. now + AutoSaveDelay # 0
      BY DelayType DEF ProviderTypeOK
    <3>3. CASE editor'[c].intervalDue = now + AutoSaveDelay
      BY <2>2, <3>2, <3>3
    <3>4. CASE editEnabled(c) /\ editor' = editor
      BY <2>2, <3>4 DEF editEnabled, Dormant
    <3>5. CASE /\ editor'[c].intervalDue = editor[c].intervalDue
               /\ ~editor[c].autoSave => \E data \in Payloads : Request(k, c, "drop_lock", data, 0)
      <4>1. CASE j # k
        <5>1. j \in Outstanding(c) /\ call[j].endpoint = "lock"
          BY <1>1, <1>3, <1>6, <2>2, <4>1, SentEffect DEF Behind
        <5>2. QED
          BY <1>2, <2>2, <3>1, <3>5, <5>1
      <4>2. CASE j = k /\ ~editor[c].autoSave
        <5>1. call'[k].endpoint = "drop_lock"
          BY <3>5, <4>2, RequestEffect
        <5>2. QED
          BY <1>1, <4>2, <5>1
      <4>3. QED
        BY <2>2, <3>1, <4>1, <4>2
    <3>6. QED
      BY <1>6, <3>3, <3>4, <3>5 DEF Sent
  <2>3. QED
    BY <2>1, <2>2
<1>7. ASSUME NEW c \in Clients, NEW k \in Calls, Answered(c, k)
      PROVE  editor'[d].intervalDue # 0 \/ editor'[d].autoSave
  <2>1. j \in Outstanding(d) /\ call[j].endpoint = "lock"
    <3>1. call'[k].stage = "idle" /\ \A i \in Calls \ {k} : Behind(i, k)
      BY <1>7, ReceiveEffect DEF Answered
    <3>2. j # k
      BY <1>1, <3>1 DEF Outstanding
    <3>3. QED
      BY <1>1, <1>3, <3>1, <3>2 DEF Outstanding, Behind
  <2>2. /\ editor'[d].intervalDue = editor[d].intervalDue
        /\ editor'[d].autoSave = editor[d].autoSave
    BY <1>7 DEF Answered, OthersStay
  <2>3. QED
    BY <1>2, <2>1, <2>2
<1>8. ASSUME NEW k \in Calls, AfterClosingSave(k) \/ ServeOrLose(k)
      PROVE  editor'[d].intervalDue # 0 \/ editor'[d].autoSave
  <2>1. j \in Outstanding(d) /\ editor'[d] = editor[d]
    BY <1>1, <1>8, ServeEffect, ClosingSaveEffect
  <2>2. call[j].endpoint = "lock"
    BY <1>1, <1>3, <1>8, ServeEffect, ClosingSaveEffect DEF Behind
  <2>3. QED
    BY <1>2, <2>1, <2>2
<1>9. QED
  BY <1>4, <1>5, <1>6, <1>7, <1>8, EditorStepKinds

(* Every step keeps the invariant. *)
LEMMA SessionStep ==
  ASSUME SessionInv, [EditorNext]_editorVars
  PROVE  SessionInv'
<1> USE DEF SessionInv
<1>1. CASE EditorNext
  <2>1. TimeInv'
    BY <1>1, EditorIsClient, TimeStep DEF TimeInv
  <2>2. QED
    BY <1>1, <2>1, EditorTypeStep, DormantStep, RequestsStep, LockNeedsSessionStep
<1>2. CASE UNCHANGED editorVars
  <2>1. TimeInv'
    BY <1>2, TimeStep DEF editorVars, providerVars
  <2>2. QED
    BY <1>2, <2>1 DEF editorVars, EditorTypeOK, Dormant, RequestsOK, LockNeedsSession,
        Outstanding, Active
<1>3. QED
  BY <1>1, <1>2

(* The invariant holds in every behaviour. *)
LEMMA SessionCorrect == EditorSpec => []SessionInv
<1>1. SessionInv /\ [EditorNext]_editorVars => SessionInv'
  BY SessionStep
<1>2. QED
  BY <1>1, SessionInit, PTL DEF EditorSpec

(* The editors are clients of the provider: all that holds of it, for any  *)
(* clients, holds of it with them.                                         *)
THEOREM EditorImplementsProvider == EditorSpec => ProviderSpec
<1>1. EditorInit => ProviderInit
  BY DEF EditorInit
<1>2. SessionInv /\ [EditorNext]_editorVars => [ProviderNext]_providerVars
  BY EditorIsClient DEF SessionInv, TimeInv, editorVars, providerVars
<1>3. QED
  BY <1>1, <1>2, SessionCorrect, PTL DEF EditorSpec, ProviderSpec

(* A user who only looks takes no lease and changes no graph: whoever does *)
(* holds the lease, asked for it, and could only do so after a click on    *)
(* Edit or with autosave.                                                  *)
THEOREM ViewersChangeNothingTheorem ==
  ASSUME OneRequestAtATime
  PROVE  EditorSpec => ViewersChangeNothing
<1> DEFINE Changed == graph' # graph \/ lockOwner' \notin {NoOne, lockOwner}
           InSession == \E c \in Clients :
                          /\ UserOf[c] = lockOwner'
                          /\ editor[c].intervalDue # 0 \/ editor[c].autoSave
<1>1. SessionInv /\ LeaseInv /\ [EditorNext]_editorVars => [Changed => InSession]_editorVars
  <2>1. SUFFICES ASSUME SessionInv, LeaseInv, EditorNext, Changed
                 PROVE  InSession
    BY DEF editorVars
  <2>2. ProviderTypeOK
    BY <2>1 DEF SessionInv, TimeInv
  <2>3. [ProviderNext]_providerVars
    BY <2>1, EditorIsClient DEF SessionInv, TimeInv
  <2>4. PICK k \in Calls : Serve(k)
    BY <2>1, <2>2, <2>3, StepOfOneCall, ClientOwn DEF Tick, providerVars
  <2>5. CASE GetLockGrant(k)
    <3>1. call[k].stage = "clocked" /\ lockOwner' = Caller(k)
      BY <2>5 DEF GetLockGrant, UpsertLock
    <3>2. call[k].from \in Clients /\ k \in Outstanding(call[k].from)
      BY <2>2, <3>1 DEF ProviderTypeOK, Outstanding
    <3>3. call[k].endpoint = "lock"
      BY <2>1, <3>1 DEF SessionInv, RequestsOK
    <3>4. QED
      BY <2>1, <3>1, <3>2, <3>3 DEF SessionInv, LockNeedsSession, Caller
  <2>6. CASE SaveEcosystemGraph(k)
    <3>1. call[k].stage = "granted" /\ lockOwner' = lockOwner
      BY <2>6 DEF SaveEcosystemGraph
    <3>2. lockOwner = Caller(k)
      BY <2>1, <3>1 DEF LeaseInv, GrantedHolds
    <3>3. call[k].from \in Clients /\ k \in Outstanding(call[k].from)
      BY <2>2, <3>1 DEF ProviderTypeOK, Outstanding
    <3>4. call[k].endpoint = "lock"
      BY <2>1, <3>1 DEF SessionInv, RequestsOK
    <3>5. QED
      BY <2>1, <3>1, <3>2, <3>3, <3>4 DEF SessionInv, LockNeedsSession, Caller
  <2>7. QED
    BY <2>1, <2>4, <2>5, <2>6 DEF Serve, GetLockReadClock, GetLockTooLong, GetLockConflict,
        DropLockEcosystemGraph, DropLock, lockVars, DatabaseError
<1>2. EditorSpec => []LeaseInv
  BY EditorImplementsProvider, LeaseCorrect, PTL
<1>3. QED
  BY <1>1, <1>2, SessionCorrect, PTL DEF EditorSpec, ViewersChangeNothing

------------------------------------------------------------------------------
(* Without failures.                                                        *)

(* No connection and no transaction fails, and the interval is no longer   *)
(* than the longest lease: a lockDelay over MAX_LOCK_TIME is answered with *)
(* a 500, which the client takes for success.                              *)
NothingFails == Failures = {} /\ AutoSaveDelay <= MAX_LOCK_TIME

NoErrors == \A k \in Calls : call[k].stage \notin {"error", "lost"}

(* So every answer is a 200 or a 409. *)
LEMMA NoErrorsStep ==
  ASSUME NothingFails, SessionInv, NoErrors, [EditorNext]_editorVars
  PROVE  NoErrors'
<1> USE DEF SessionInv, TimeInv, NoErrors
<1>1. ASSUME NEW k, \A j \in Calls \ {k} : Behind(j, k),
             k \in Calls => call'[k].stage \in {"idle", "sent"}
      PROVE  NoErrors'
  BY <1>1 DEF Behind
<1>2. CASE UNCHANGED editorVars \/ Elapse \/ \E c \in Clients : Local(c)
  BY <1>2 DEF editorVars, Elapse, Tick, Local, providerVars
<1>3. ASSUME NEW c \in Clients, NEW k \in Calls, Sent(c, k) \/ Answered(c, k)
      PROVE  NoErrors'
  BY <1>1, <1>3, SentEffect, ReceiveEffect DEF Answered
<1>4. ASSUME NEW k \in Calls, AfterClosingSave(k)
      PROVE  NoErrors'
  BY <1>1, <1>4, ClosingSaveEffect
<1>5. ASSUME NEW k \in Calls, ServeOrLose(k)
      PROVE  NoErrors'
  <2>1. \A j \in Calls \ {k} : call'[j] = call[j]
    BY <1>5, ServeEffect
  <2>2. Serve(k) /\ ~DatabaseError(k)
    BY <1>5 DEF ServeOrLose, LoseRequest, DatabaseError, NothingFails
  <2>3. ~GetLockTooLong(k)
    <3>1. GetLockTooLong(k) => call[k].lockDelay = AutoSaveDelay
      BY DEF GetLockTooLong, MayStart, RequestsOK, Active
    <3>2. QED
      BY <3>1, DelayType, LockTimesAssumption DEF NothingFails, GetLockTooLong, TooLong
  <2>4. call'[k].stage \notin {"error", "lost"}
    <3> USE DEF ProviderTypeOK, CallRecords, MoveTo
    <3>1. CASE GetLockReadClock(k)  BY <3>1 DEF GetLockReadClock
    <3>2. CASE GetLockGrant(k)  BY <3>2 DEF GetLockGrant, AfterLock
    <3>3. CASE GetLockConflict(k)  BY <3>3 DEF GetLockConflict
    <3>4. CASE SaveEcosystemGraph(k)  BY <3>4 DEF SaveEcosystemGraph
    <3>5. CASE DropLockEcosystemGraph(k)  BY <3>5 DEF DropLockEcosystemGraph
    <3>6. QED
      BY <2>2, <2>3, <3>1, <3>2, <3>3, <3>4, <3>5 DEF Serve
  <2>5. QED
    BY <2>1, <2>4
<1>6. QED
  BY <1>2, <1>3, <1>4, <1>5, EditorStepKinds

(* A client enters edit mode when the 200 to its request for the lock      *)
(* arrives.                                                                *)
LEMMA EditModeEntered ==
  ASSUME SessionInv, NoErrors, EditorNext, NEW d \in Clients,
         editEnabled(d)', ~editEnabled(d)
  PROVE  \E k \in Outstanding(d) :
           /\ Answered(d, k)
           /\ pending[k].fn \in Refreshes
           /\ call[k].endpoint = "lock"
           /\ call[k].stage = "ok"
           /\ call'[k].stage = "idle"
<1> USE DEF SessionInv, TimeInv
<1>1. editor'[d].phase = "open" /\ editor'[d].lockStatus = "Acquired"
  BY DEF editEnabled
<1>2. editor'[d] # editor[d]
  BY DEF editEnabled
<1>3. ASSUME NEW c \in Clients, Local(c) PROVE FALSE
  <2>1. d = c
    BY <1>2, <1>3 DEF Local, OthersStay
  <2>2. editor[c].lockStatus = "Acquired" /\ editor[c].phase = "loading"
    BY <1>1, <1>3, <2>1 DEF Local, editEnabled
  <2>3. QED
    BY <2>2 DEF Dormant
<1>4. ASSUME NEW c \in Clients, NEW k \in Calls, Sent(c, k) PROVE FALSE
  BY <1>1, <1>2, <1>4 DEF Sent, OthersStay, editEnabled
<1>5. ASSUME NEW k \in Calls, AfterClosingSave(k) \/ ServeOrLose(k) PROVE FALSE
  BY <1>2, <1>5, ServeEffect, ClosingSaveEffect
<1>6. ~Elapse
  BY <1>2 DEF Elapse, clientVars
<1>7. PICK c \in Clients, k \in Calls : Answered(c, k)
  BY <1>3, <1>4, <1>5, <1>6, EditorStepKinds
<1>8. d = c /\ k \in Outstanding(c) /\ call'[k].stage = "idle" /\ call[k].stage \in Answers
  BY <1>2, <1>7, ReceiveEffect DEF Answered, OthersStay
<1>9. pending[k].fn \in Refreshes /\ call[k].stage = "ok"
  BY <1>1, <1>2, <1>7, <1>8 DEF Answered, NoErrors, editEnabled
<1>10. call[k].endpoint = "lock"
  BY <1>8, <1>9 DEF RequestsOK, Active, Answers, Refreshes, Closings, ProviderTypeOK, CallRecords
<1>11. QED
  BY <1>7, <1>8, <1>9, <1>10

------------------------------------------------------------------------------
(* The lease of an editor.                                                  *)

(* A client's requests are served and answered one after the other, every  *)
(* client is another user's, a round trip is covered by the extra time of  *)
(* the lease, and nothing fails.                                           *)
EditorsKeepTheirLeases == OneRequestAtATime /\ NothingFails

(* A request for the lock that may still be granted. *)
Awaiting(k) == call[k].endpoint = "lock" /\ call[k].stage \in {"sent", "clocked"}

(* The next tick of an interval is due within one delay. *)
IntervalAhead ==
  \A c \in Clients :
    editor[c].intervalDue # 0 =>
      now <= editor[c].intervalDue /\ editor[c].intervalDue <= now + AutoSaveDelay

(* A request has its 200 only after those sent before have their answers. *)
AnsweredInOrder == \A k \in Calls : call[k].stage = "ok" => call[k].older = {}

(* The lease that a request for the lock obtains lasts until the next tick *)
(* of the interval, or until the request that a tick has sent since.       *)
Covered ==
  \A c \in Clients : \A k \in Outstanding(c) :
    Awaiting(k) /\ editor[c].intervalDue # 0 =>
      \/ editor[c].intervalDue <= call[k].sentAt + AutoSaveDelay
      \/ \E j \in Outstanding(c) :
           /\ Awaiting(j)
           /\ k \in call[j].older
           /\ call[j].sentAt <= call[k].sentAt + AutoSaveDelay

(* The lease is c's and lasts until a refresh of it has made its round     *)
(* trip: the one of the next tick, or one on its way.                      *)
Held(c) ==
  /\ lockOwner = UserOf[c]
  /\ \/ editor[c].intervalDue + MaxRoundTrip <= lockExpiresAt
     \/ \E j \in Outstanding(c) :
          Awaiting(j) /\ call[j].sentAt + MaxRoundTrip <= lockExpiresAt

(* It is held from the grant, before the client knows, ... *)
GrantedIsHeld ==
  \A c \in Clients : \A k \in Outstanding(c) :
    /\ call[k].endpoint = "lock"
    /\ call[k].stage \in {"granted", "ok"}
    /\ editor[c].intervalDue # 0
    => Held(c)

(* ... until the client asks to stop. *)
AcquiredIsHeld == \A c \in Clients : editEnabled(c) /\ ~Closing(c) => Held(c)

(* What the lease rests on, and the lease. *)
Underway == SessionInv /\ LeaseInv /\ NoErrors /\ IntervalAhead /\ AnsweredInOrder /\ Covered
EditorInv == Underway /\ GrantedIsHeld /\ AcquiredIsHeld

(* The times and delays are numbers. *)
LEMMA Times ==
  ASSUME SessionInv
  PROVE  /\ now \in Nat /\ lockExpiresAt \in Nat
         /\ AutoSaveDelay \in Nat \ {0} /\ MaxRoundTrip \in Nat
         /\ LOCK_TIME_EXTRA_TIME \in Nat
         /\ \A c \in Clients : editor[c].intervalDue \in Nat
         /\ \A k \in Calls : /\ call[k].sentAt \in Nat /\ call[k].currentUnix \in Nat
                             /\ call[k].expiresAt \in Nat
  BY DelayType, ProviderAssumption, LockTimesAssumption
  DEF SessionInv, TimeInv, ProviderTypeOK, CallRecords, EditorTypeOK, EditorRecords

(* An interval is never late. *)
LEMMA IntervalAheadStep ==
  ASSUME SessionInv, IntervalAhead, EditorNext
  PROVE  IntervalAhead'
<1> USE DEF IntervalAhead
<1>1. SUFFICES ASSUME NEW d \in Clients, editor'[d].intervalDue # 0
               PROVE  /\ now' <= editor'[d].intervalDue
                      /\ editor'[d].intervalDue <= now' + AutoSaveDelay
  OBVIOUS
<1>2. ASSUME UNCHANGED now, editor'[d].intervalDue = editor[d].intervalDue
      PROVE  /\ now' <= editor'[d].intervalDue
             /\ editor'[d].intervalDue <= now' + AutoSaveDelay
  BY <1>1, <1>2
<1>3. CASE Elapse
  <2>1. now' = now + 1 /\ editor'[d] = editor[d] /\ (now # 0 => now # editor[d].intervalDue)
    BY <1>3 DEF Elapse, Tick, clientVars
  <2>2. QED
    BY <1>1, <2>1, Times
<1>4. ASSUME NEW c \in Clients, Local(c)
      PROVE  UNCHANGED now /\ editor'[d].intervalDue = editor[d].intervalDue
  BY <1>4 DEF Local, OthersStay, providerVars
<1>5. ASSUME NEW c \in Clients, NEW k \in Calls, Sent(c, k)
      PROVE  /\ now' <= editor'[d].intervalDue
             /\ editor'[d].intervalDue <= now' + AutoSaveDelay
  <2>1. now' = now
    BY <1>5, SentEffect DEF SessionInv, TimeInv
  <2>2. CASE editor'[d].intervalDue = now + AutoSaveDelay
    BY <2>1, <2>2, Times
  <2>3. CASE editor'[d].intervalDue = editor[d].intervalDue
    BY <1>2, <2>1, <2>3
  <2>4. QED
    BY <1>5, <2>2, <2>3 DEF Sent, OthersStay
<1>6. ASSUME NEW c \in Clients, NEW k \in Calls, Answered(c, k)
      PROVE  UNCHANGED now /\ editor'[d].intervalDue = editor[d].intervalDue
  BY <1>6, ReceiveEffect DEF Answered, OthersStay, SessionInv, TimeInv
<1>7. ASSUME NEW k \in Calls, AfterClosingSave(k) \/ ServeOrLose(k)
      PROVE  UNCHANGED now /\ editor'[d].intervalDue = editor[d].intervalDue
  BY <1>7, ServeEffect, ClosingSaveEffect DEF SessionInv, TimeInv
<1>8. QED
  BY <1>2, <1>3, <1>4, <1>5, <1>6, <1>7, EditorStepKinds DEF SessionInv, TimeInv

(* With ordered delivery no request is started on before the older ones    *)
(* have their answers.                                                     *)
LEMMA AnsweredInOrderStep ==
  ASSUME InOrder, SessionInv, LeaseInv, AnsweredInOrder, EditorNext
  PROVE  AnsweredInOrder'
<1> USE DEF AnsweredInOrder, SessionInv, TimeInv
<1>1. CASE Elapse \/ \E c \in Clients : Local(c)
  BY <1>1 DEF Elapse, Tick, Local, providerVars
<1>2. ASSUME NEW k \in Calls, \A j \in Calls \ {k} : Behind(j, k),
             call'[k].stage \in {"idle", "sent"}
      PROVE  AnsweredInOrder'
  BY <1>2 DEF Behind
<1>3. ASSUME NEW c \in Clients, NEW k \in Calls, Sent(c, k) \/ Answered(c, k)
      PROVE  AnsweredInOrder'
  BY <1>2, <1>3, SentEffect, ReceiveEffect DEF Answered
<1>4. ASSUME NEW k \in Calls, AfterClosingSave(k)
      PROVE  AnsweredInOrder'
  BY <1>2, <1>4, ClosingSaveEffect
<1>5. ASSUME NEW k \in Calls, ServeOrLose(k)
      PROVE  AnsweredInOrder'
  <2>1. call'[k].older = call[k].older /\ \A j \in Calls \ {k} : call'[j] = call[j]
    BY <1>5, ServeEffect
  <2>2. ASSUME call'[k].stage = "ok" PROVE call[k].older = {}
    <3>1. Serve(k)
      BY <1>5, <2>2 DEF ServeOrLose, LoseRequest, MoveTo, ProviderTypeOK, CallRecords
    <3>2. MayStart(k) \/ call[k].stage \in {"clocked", "granted"}
      BY <3>1 DEF Serve, GetLockReadClock, GetLockTooLong, GetLockGrant, GetLockConflict,
          SaveEcosystemGraph, DropLockEcosystemGraph, DatabaseError
    <3>3. QED
      BY <3>2 DEF MayStart, LeaseInv, StartedIsOldest
  <2>3. QED
    BY <2>1, <2>2
<1>6. QED
  BY <1>1, <1>3, <1>4, <1>5, EditorStepKinds

(* The request of a tick replaces the requests sent before as the one that *)
(* carries the lease on.                                                   *)
LEMMA CoveredStep ==
  ASSUME EditorsKeepTheirLeases, Underway, EditorNext
  PROVE  Covered'
<1> USE DEF Underway, SessionInv, TimeInv
<1> DEFINE Replaced(c, k) == \E j \in Outstanding(c) :
                               /\ Awaiting(j)
                               /\ k \in call[j].older
                               /\ call[j].sentAt <= call[k].sentAt + AutoSaveDelay
           Cover(c, k) == \/ editor[c].intervalDue <= call[k].sentAt + AutoSaveDelay
                          \/ Replaced(c, k)
<1>1. SUFFICES ASSUME NEW d \in Clients, NEW i \in Outstanding(d)', Awaiting(i)',
                      editor'[d].intervalDue # 0
               PROVE  Cover(d, i)'
  BY DEF Covered
<1>2. ASSUME i \in Outstanding(d), Awaiting(i), editor[d].intervalDue # 0
      PROVE  Cover(d, i)
  BY <1>2 DEF Covered
<1>3. i \in Calls
  BY DEF Outstanding
<1>4. CASE Elapse
  BY <1>1, <1>2, <1>4 DEF Elapse, Tick, clientVars, Outstanding, Awaiting
<1>5. ASSUME NEW c \in Clients, Local(c) PROVE Cover(d, i)'
  <2>1. call' = call /\ editor'[d].intervalDue = editor[d].intervalDue
    BY <1>5 DEF Local, OthersStay, providerVars
  <2>2. QED
    BY <1>1, <1>2, <2>1 DEF Outstanding, Awaiting
\* A step that leaves the awaited requests of d and its interval as they are.
<1>6. ASSUME NEW k, ~Awaiting(k) \/ k \notin Outstanding(d),
             \A j \in Calls \ {k} : Behind(j, k), i # k,
             Outstanding(d) \ {k} \subseteq Outstanding(d)', i \in Outstanding(d),
             editor'[d].intervalDue = editor[d].intervalDue
      PROVE  Cover(d, i)'
  <2>1. Awaiting(i) /\ call'[i].sentAt = call[i].sentAt
    BY <1>1, <1>3, <1>6 DEF Behind, Awaiting
  <2>2. Cover(d, i)
    BY <1>1, <1>2, <1>6, <2>1
  <2>3. ASSUME Replaced(d, i) PROVE Replaced(d, i)'
    <3>1. PICK j \in Outstanding(d) : /\ Awaiting(j) /\ i \in call[j].older
                                      /\ call[j].sentAt <= call[i].sentAt + AutoSaveDelay
      BY <2>3
    <3>2. j # k /\ j \in Calls /\ j \in Outstanding(d)'
      BY <1>6, <3>1 DEF Outstanding
    <3>3. Awaiting(j)' /\ i \in call'[j].older /\ call'[j].sentAt = call[j].sentAt
      BY <1>6, <3>1, <3>2 DEF Behind, Awaiting
    <3>4. QED
      BY <2>1, <3>1, <3>2, <3>3
  <2>4. QED
    BY <1>6, <2>1, <2>2, <2>3
<1>7. ASSUME NEW c \in Clients, NEW k \in Calls, Sent(c, k) PROVE Cover(d, i)'
  <2> USE SentEffect
  <2>1. CASE d # c
    BY <1>1, <1>6, <1>7, <2>1 DEF Sent, OthersStay, Outstanding
  <2>2. CASE d = c /\ editor'[c].intervalDue = editor[c].intervalDue /\ i # k
    <3>1. i \in Outstanding(c)
      BY <1>1, <1>7, <2>2
    <3>2. QED
      BY <1>6, <1>7, <2>2, <3>1
  <2>3. CASE d = c /\ editor'[c].intervalDue = editor[c].intervalDue /\ i = k
    BY <1>1, <1>7, <2>3 DEF IntervalAhead
  <2>4. CASE d = c /\ editor'[c].intervalDue = now + AutoSaveDelay /\ i = k
    BY <1>7, <2>4, Times
  <2>5. CASE /\ d = c /\ i # k /\ editor'[c].intervalDue = now + AutoSaveDelay
             /\ \E data \in Payloads : Request(k, c, "lock", data, AutoSaveDelay)
             /\ editor[c].phase = "open" \/ editor[c].intervalDue # 0
    <3>1. i \in Outstanding(c)
      BY <1>1, <1>7, <2>5
    <3>2. editor[c].intervalDue # 0
      BY <2>5, <3>1 DEF Dormant
    <3>3. Behind(i, k)
      BY <1>3, <1>7, <2>5
    <3>4. Awaiting(i) /\ call'[i].sentAt = call[i].sentAt
      BY <1>1, <3>3 DEF Behind, Awaiting
    <3>5. call'[k].endpoint = "lock" /\ call'[k].stage = "sent" /\ call'[k].sentAt = now
          /\ i \in call'[k].older /\ k \in Outstanding(c)'
      BY <1>7, <2>5, <3>1, RequestEffect
    <3>6. CASE editor[c].intervalDue <= call[i].sentAt + AutoSaveDelay
      <4>1. now <= call[i].sentAt + AutoSaveDelay
        BY <1>3, <3>2, <3>6, Times DEF IntervalAhead
      <4>2. QED
        BY <2>5, <3>4, <3>5, <4>1 DEF Awaiting
    <3>7. CASE Replaced(c, i)
      <4>1. PICK j \in Outstanding(c) : /\ Awaiting(j) /\ i \in call[j].older
                                        /\ call[j].sentAt <= call[i].sentAt + AutoSaveDelay
        BY <3>7
      <4>2. j # k /\ j \in Calls /\ j \in Outstanding(c)'
        BY <1>7, <4>1 DEF Outstanding
      <4>3. Awaiting(j)' /\ i \in call'[j].older /\ call'[j].sentAt = call[j].sentAt
        BY <1>7, <2>5, <4>1, <4>2 DEF Behind, Awaiting
      <4>4. QED
        BY <2>5, <3>4, <4>1, <4>2, <4>3
    <3>8. QED
      BY <1>2, <2>5, <3>1, <3>2, <3>4, <3>6, <3>7
  <2>6. QED
    BY <1>7, <2>1, <2>2, <2>3, <2>4, <2>5 DEF Sent
<1>8. ASSUME NEW c \in Clients, NEW k \in Calls, Answered(c, k) PROVE Cover(d, i)'
  <2>1. /\ ~Awaiting(k) /\ \A j \in Calls \ {k} : Behind(j, k)
        /\ Outstanding(d) \ {k} \subseteq Outstanding(d)'
        /\ i \in Outstanding(d) /\ i # k
    BY <1>1, <1>8, ReceiveEffect DEF Answered, Awaiting, Answers, Outstanding
  <2>2. editor'[d].intervalDue = editor[d].intervalDue
    BY <1>8 DEF Answered, OthersStay
  <2>3. QED
    BY <1>6, <2>1, <2>2
<1>9. ASSUME NEW k \in Calls, AfterClosingSave(k) PROVE Cover(d, i)'
  <2>1. /\ ~Awaiting(k) /\ ~Awaiting(k)' /\ \A j \in Calls \ {k} : Behind(j, k)
        /\ Outstanding(d)' = Outstanding(d) /\ editor'[d] = editor[d]
    BY <1>9, ClosingSaveEffect DEF Awaiting, Answers
  <2>2. QED
    BY <1>1, <1>6, <2>1
<1>10. ASSUME NEW k \in Calls, ServeOrLose(k) PROVE Cover(d, i)'
  <2>1. /\ \A j \in Calls \ {k} : call'[j] = call[j]
        /\ call'[k].endpoint = call[k].endpoint /\ call'[k].sentAt = call[k].sentAt
        /\ call'[k].older = call[k].older
        /\ Outstanding(d)' = Outstanding(d) /\ editor'[d] = editor[d]
    BY <1>10, ServeEffect
  <2>2. Serve(k)
    BY <1>10 DEF ServeOrLose, LoseRequest, EditorsKeepTheirLeases, NothingFails
  <2>3. Awaiting(k) => call[k].older = {}
    BY <2>2 DEF Awaiting, Serve, GetLockReadClock, GetLockTooLong, GetLockGrant,
        GetLockConflict, SaveEcosystemGraph, DropLockEcosystemGraph, DatabaseError, MayStart,
        LeaseInv, StartedIsOldest, EditorsKeepTheirLeases, OneRequestAtATime
  <2>4. Awaiting(i)
    <3>1. CASE i = k
      BY <1>1, <2>1, <2>2, <3>1, ServeOwn DEF Awaiting, GetLockReadClock, MayStart, Answers
    <3>2. CASE i # k
      BY <1>1, <1>3, <2>1, <3>2 DEF Awaiting
    <3>3. QED
      BY <3>1, <3>2
  <2>5. Cover(d, i) /\ i \in Outstanding(d) /\ call'[i].sentAt = call[i].sentAt
    BY <1>1, <1>2, <1>3, <2>1, <2>4
  <2>6. ASSUME Replaced(d, i) PROVE Replaced(d, i)'
    <3>1. PICK j \in Outstanding(d) : /\ Awaiting(j) /\ i \in call[j].older
                                      /\ call[j].sentAt <= call[i].sentAt + AutoSaveDelay
      BY <2>6
    <3>2. j # k /\ call'[j] = call[j] /\ j \in Outstanding(d)'
      BY <2>1, <2>3, <3>1 DEF Outstanding
    <3>3. QED
      BY <2>5, <3>1, <3>2 DEF Awaiting
  <2>7. QED
    BY <2>1, <2>5, <2>6
<1>11. QED
  BY <1>4, <1>5, <1>7, <1>8, <1>9, <1>10, EditorStepKinds

(* A lease that is held is in force. *)
LEMMA HeldInForce ==
  ASSUME Underway, NEW c \in Clients, Held(c), editor[c].intervalDue # 0
  PROVE  lockOwner = UserOf[c] /\ now <= lockExpiresAt
<1>1. CASE editor[c].intervalDue + MaxRoundTrip <= lockExpiresAt
  BY <1>1, Times DEF Held, Underway, IntervalAhead
<1>2. ASSUME NEW j \in Outstanding(c), call[j].sentAt + MaxRoundTrip <= lockExpiresAt
      PROVE  now <= lockExpiresAt
  <2>1. j \in Calls /\ now <= call[j].sentAt + MaxRoundTrip
    BY DEF Outstanding, Underway, SessionInv, TimeInv, InTime, Active
  <2>2. QED
    BY <1>2, <2>1, Times DEF Underway
<1>3. QED
  BY <1>1, <1>2 DEF Held

(* It stays held while neither the lease nor the interval changes and the  *)
(* requests that carry it on are under way.                                *)
LEMMA HeldKept ==
  ASSUME NEW c \in Clients, Held(c), UNCHANGED <<lockOwner, lockExpiresAt>>,
         editor'[c].intervalDue = editor[c].intervalDue,
         \A j \in Outstanding(c) :
           Awaiting(j) =>
             j \in Outstanding(c)' /\ Awaiting(j)' /\ call'[j].sentAt = call[j].sentAt
  PROVE  Held(c)'
  BY DEF Held

(* The lease that GetLock grants is held. *)
LEMMA GrantIsHeld ==
  ASSUME EditorsKeepTheirLeases, Underway, NEW c \in Clients, NEW k \in Outstanding(c),
         GetLockGrant(k), ServeOrLose(k), editor[c].intervalDue # 0
  PROVE  Held(c)'
<1> USE DEF Underway, SessionInv, TimeInv
<1>1. k \in Calls /\ call[k].from = c /\ call[k].stage = "clocked"
  BY DEF Outstanding, GetLockGrant
<1>2. lockOwner' = UserOf[c] /\ lockExpiresAt' = call[k].expiresAt
  BY <1>1 DEF GetLockGrant, UpsertLock, Caller
<1>3. /\ call[k].expiresAt = call[k].currentUnix + AutoSaveDelay + LOCK_TIME_EXTRA_TIME
      /\ call[k].sentAt <= call[k].currentUnix
      /\ MaxRoundTrip <= LOCK_TIME_EXTRA_TIME
  BY <1>1 DEF RequestsOK, ClockRead, EditorsKeepTheirLeases, OneRequestAtATime
<1>4. Awaiting(k) /\ call[k].older = {}
  BY <1>1 DEF Awaiting, RequestsOK, LeaseInv, StartedIsOldest
<1>5. editor' = editor /\ Outstanding(c)' = Outstanding(c)
      /\ \A j \in Calls \ {k} : call'[j] = call[j]
  BY <1>1, ServeEffect
<1>6. CASE editor[c].intervalDue <= call[k].sentAt + AutoSaveDelay
  <2>1. editor[c].intervalDue + MaxRoundTrip <= call[k].expiresAt
    BY <1>1, <1>3, <1>6, Times
  <2>2. QED
    BY <1>2, <1>5, <2>1 DEF Held
<1>7. ASSUME NEW j \in Outstanding(c), Awaiting(j), k \in call[j].older,
             call[j].sentAt <= call[k].sentAt + AutoSaveDelay
      PROVE  Held(c)'
  <2>1. j \in Calls /\ j # k
    BY <1>4, <1>7 DEF Outstanding
  <2>2. call[j].sentAt + MaxRoundTrip <= call[k].expiresAt
    BY <1>1, <1>3, <1>7, <2>1, Times
  <2>3. Awaiting(j)' /\ call'[j].sentAt = call[j].sentAt /\ j \in Outstanding(c)'
    BY <1>5, <1>7, <2>1 DEF Awaiting
  <2>4. QED
    BY <1>2, <2>2, <2>3 DEF Held
<1>8. QED
  BY <1>4, <1>6, <1>7 DEF Covered

(* No handler takes a held lease from c, but one that drops it for c. *)
LEMMA HeldServe ==
  ASSUME EditorsKeepTheirLeases, Underway, NoErrors', NEW c \in Clients, Held(c),
         editor[c].intervalDue # 0, NEW k \in Calls, ServeOrLose(k),
         k \in Outstanding(c) /\ MayStart(k) => call[k].endpoint # "drop_lock"
  PROVE  Held(c)'
<1> USE DEF Underway, SessionInv, TimeInv
<1>1. /\ editor' = editor /\ Outstanding(c)' = Outstanding(c)
      /\ \A j \in Calls \ {k} : call'[j] = call[j]
      /\ call'[k].sentAt = call[k].sentAt /\ call'[k].endpoint = call[k].endpoint
  BY ServeEffect
<1>2. Serve(k)
  BY DEF ServeOrLose, LoseRequest, EditorsKeepTheirLeases, NothingFails
<1>3. lockOwner = UserOf[c] /\ now <= lockExpiresAt
  BY HeldInForce
<1>4. call[k].from \in Clients /\ UserOf[c] # NoOne
  <2>1. call[k].stage # "idle"
    BY <1>2, ServeOwn
  <2>2. QED
    BY <2>1, NoOneAssumption, UserOfAssumption DEF ProviderTypeOK
<1>5. ASSUME UNCHANGED <<lockOwner, lockExpiresAt>>,
             k \in Outstanding(c) /\ Awaiting(k) => Awaiting(k)'
      PROVE  Held(c)'
  <2>1. \A j \in Outstanding(c) :
          Awaiting(j) =>
            j \in Outstanding(c)' /\ Awaiting(j)' /\ call'[j].sentAt = call[j].sentAt
    BY <1>1, <1>5 DEF Awaiting, Outstanding
  <2>2. QED
    BY <1>1, <1>5, <2>1, HeldKept
<1>6. CASE GetLockReadClock(k)
  <2>1. Awaiting(k)'
    BY <1>1, <1>6 DEF GetLockReadClock, Awaiting, ProviderTypeOK, CallRecords
  <2>2. QED
    BY <1>5, <1>6, <2>1 DEF GetLockReadClock
<1>7. CASE GetLockTooLong(k) \/ DatabaseError(k)
  <2>1. ~DatabaseError(k)
    BY DEF DatabaseError, EditorsKeepTheirLeases, NothingFails
  <2>2. call'[k].stage = "error"
    BY <1>7, <2>1 DEF GetLockTooLong, MoveTo, ProviderTypeOK, CallRecords
  <2>3. QED
    BY <2>2 DEF NoErrors
<1>8. CASE GetLockGrant(k)
  <2>1. CASE call[k].from = c
    BY <1>8, <2>1, GrantIsHeld DEF GetLockGrant, Outstanding
  <2>2. CASE call[k].from # c
    <3>1. Caller(k) # lockOwner
      BY <1>3, <1>4, <2>2 DEF Caller, EditorsKeepTheirLeases, OneRequestAtATime
    <3>2. lockExpiresAt < call[k].currentUnix /\ call[k].currentUnix <= now
      BY <1>3, <1>4, <1>8, <3>1 DEF GetLockGrant, CanLock, ClockRead
    <3>3. QED
      BY <1>3, <3>2, Times
  <2>3. QED
    BY <2>1, <2>2
<1>9. CASE GetLockConflict(k)
  <2>1. call[k].from # c
    BY <1>3, <1>9 DEF GetLockConflict, CanLock, Caller
  <2>2. QED
    BY <1>5, <1>9, <2>1 DEF GetLockConflict, Outstanding
<1>10. CASE SaveEcosystemGraph(k)
  BY <1>5, <1>10 DEF SaveEcosystemGraph, Awaiting
<1>11. CASE DropLockEcosystemGraph(k)
  <2>1. call[k].from # c
    BY <1>11 DEF DropLockEcosystemGraph, MayStart, Outstanding
  <2>2. lockOwner # Caller(k)
    BY <1>3, <1>4, <2>1 DEF Caller, EditorsKeepTheirLeases, OneRequestAtATime
  <2>3. UNCHANGED <<lockOwner, lockExpiresAt>>
    BY <1>11, <2>2 DEF DropLockEcosystemGraph, DropLock, lockVars
  <2>4. QED
    BY <1>5, <2>1, <2>3 DEF Outstanding
<1>12. QED
  BY <1>2, <1>6, <1>7, <1>8, <1>9, <1>10, <1>11 DEF Serve

(* Nor does anything a client does. *)
LEMMA HeldStep ==
  ASSUME EditorsKeepTheirLeases, Underway, NoErrors', EditorNext, NEW d \in Clients, Held(d),
         editor[d].intervalDue # 0,
         \A k \in Outstanding(d) : MayStart(k) => call[k].endpoint # "drop_lock"
  PROVE  Held(d)'
<1> USE DEF Underway, SessionInv, TimeInv
<1>1. CASE Elapse
  BY <1>1, HeldKept DEF Elapse, Tick, clientVars, Outstanding, Awaiting
<1>2. ASSUME NEW c \in Clients, Local(c) PROVE Held(d)'
  <2>1. /\ UNCHANGED <<call, lockOwner, lockExpiresAt>>
        /\ editor'[d].intervalDue = editor[d].intervalDue
    BY <1>2 DEF Local, OthersStay, providerVars
  <2>2. QED
    BY <2>1, HeldKept DEF Outstanding, Awaiting
<1>3. ASSUME NEW k \in Calls, ~Awaiting(k) \/ k \notin Outstanding(d),
             \A j \in Calls \ {k} : Behind(j, k),
             Outstanding(d) \ {k} \subseteq Outstanding(d)'
      PROVE  \A j \in Outstanding(d) :
               Awaiting(j) =>
                 j \in Outstanding(d)' /\ Awaiting(j)' /\ call'[j].sentAt = call[j].sentAt
  <2>1. SUFFICES ASSUME NEW j \in Outstanding(d), Awaiting(j)
                 PROVE  j \in Outstanding(d)' /\ Awaiting(j)' /\ call'[j].sentAt = call[j].sentAt
    OBVIOUS
  <2>2. j # k /\ j \in Calls
    BY <1>3, <2>1 DEF Outstanding
  <2>3. QED
    BY <1>3, <2>1, <2>2 DEF Behind, Awaiting
<1>4. ASSUME NEW c \in Clients, NEW k \in Calls, Sent(c, k) PROVE Held(d)'
  <2>1. /\ k \notin Outstanding(d)
        /\ \A j \in Calls \ {k} : Behind(j, k)
        /\ Outstanding(d) \ {k} \subseteq Outstanding(d)'
        /\ UNCHANGED <<lockOwner, lockExpiresAt>>
    BY <1>4, SentEffect DEF Sent, Outstanding
  <2>2. CASE editor'[d].intervalDue = editor[d].intervalDue
    BY <1>3, <2>1, <2>2, HeldKept
  <2>3. CASE d = c /\ \E data \in Payloads : Request(k, c, "lock", data, AutoSaveDelay)
    <3>1. CASE editor[c].intervalDue + MaxRoundTrip <= lockExpiresAt
      <4>1. now + MaxRoundTrip <= lockExpiresAt
        BY <2>3, <3>1, Times DEF IntervalAhead
      <4>2. /\ k \in Outstanding(c)' /\ call'[k].endpoint = "lock"
            /\ call'[k].stage = "sent" /\ call'[k].sentAt = now
        BY <2>3, RequestEffect
      <4>3. QED
        BY <2>1, <2>3, <4>1, <4>2 DEF Held, Awaiting
    <3>2. ASSUME NEW j \in Outstanding(c), Awaiting(j),
                 call[j].sentAt + MaxRoundTrip <= lockExpiresAt
          PROVE  Held(d)'
      BY <1>3, <2>1, <2>3, <3>2 DEF Held
    <3>3. QED
      BY <2>3, <3>1, <3>2 DEF Held
  <2>4. QED
    BY <1>4, <2>2, <2>3 DEF Sent, OthersStay
<1>5. ASSUME NEW c \in Clients, NEW k \in Calls, Answered(c, k) PROVE Held(d)'
  <2>1. /\ ~Awaiting(k) /\ \A j \in Calls \ {k} : Behind(j, k)
        /\ Outstanding(d) \ {k} \subseteq Outstanding(d)'
        /\ UNCHANGED <<lockOwner, lockExpiresAt>>
    BY <1>5, ReceiveEffect DEF Answered, Awaiting, Answers
  <2>2. editor'[d].intervalDue = editor[d].intervalDue
    BY <1>5 DEF Answered, OthersStay
  <2>3. QED
    BY <1>3, <2>1, <2>2, HeldKept
<1>6. ASSUME NEW k \in Calls, AfterClosingSave(k) PROVE Held(d)'
  <2>1. /\ ~Awaiting(k) /\ \A j \in Calls \ {k} : Behind(j, k)
        /\ Outstanding(d) \ {k} \subseteq Outstanding(d)'
        /\ UNCHANGED <<lockOwner, lockExpiresAt, editor>>
    BY <1>6, ClosingSaveEffect DEF Awaiting, Answers
  <2>2. QED
    BY <1>3, <2>1, HeldKept
<1>7. ASSUME NEW k \in Calls, ServeOrLose(k) PROVE Held(d)'
  BY <1>7, HeldServe
<1>8. QED
  BY <1>1, <1>2, <1>4, <1>5, <1>6, <1>7, EditorStepKinds

(* A session starts with a click on Edit, before which nothing is on its   *)
(* way: whoever has a request in flight and an interval had it before.     *)
LEMMA IntervalRunning ==
  ASSUME SessionInv, EditorNext, NEW d \in Clients,
         Outstanding(d) # {}, editor'[d].intervalDue # 0
  PROVE  editor[d].intervalDue # 0
<1> USE DEF SessionInv, TimeInv
<1>1. ASSUME NEW c \in Clients, NEW k \in Calls, Sent(c, k)
      PROVE  editor[d].intervalDue # 0
  <2>1. CASE d = c /\ (editor[c].phase = "open" \/ editor[c].intervalDue # 0)
    BY <2>1 DEF Dormant
  <2>2. CASE editor'[d].intervalDue = editor[d].intervalDue
    BY <2>2
  <2>3. QED
    BY <1>1, <2>1, <2>2 DEF Sent, OthersStay
<1>2. ASSUME \/ \E c \in Clients : Local(c)
             \/ \E c \in Clients, k \in Calls : Answered(c, k)
      PROVE  editor[d].intervalDue # 0
  BY <1>2 DEF Local, Answered, OthersStay
<1>3. ASSUME \/ Elapse
             \/ \E k \in Calls : AfterClosingSave(k) \/ ServeOrLose(k)
      PROVE  editor[d].intervalDue # 0
  BY <1>3 DEF Elapse, AfterClosingSave, ServeOrLose, clientVars
<1>4. QED
  BY <1>1, <1>2, <1>3, EditorStepKinds

(* A granted request of c keeps any drop of c's from being started on. *)
LEMMA NoDropBehindGrant ==
  ASSUME EditorsKeepTheirLeases, Underway, NEW d \in Clients, NEW k \in Outstanding(d),
         call[k].endpoint = "lock", call[k].stage \in {"granted", "ok"}
  PROVE  \A j \in Outstanding(d) : MayStart(j) => call[j].endpoint # "drop_lock"
<1> SUFFICES ASSUME NEW j \in Outstanding(d), MayStart(j), call[j].endpoint = "drop_lock"
             PROVE  FALSE
  OBVIOUS
<1>1. j # k /\ j \in Calls /\ k \in Calls /\ Active(j) /\ Active(k)
      /\ call[j].from = call[k].from
  BY DEF Outstanding, Active
<1>2. call[j].older = {}
  BY DEF MayStart, EditorsKeepTheirLeases, OneRequestAtATime
<1>3. call[k].older = {}
  BY <1>1 DEF Underway, LeaseInv, StartedIsOldest, AnsweredInOrder
<1>4. QED
  BY <1>1, <1>2, <1>3 DEF Underway, LeaseInv, Ordered

(* A client stops closing when the answer it awaits to close arrives. *)
LEMMA ClosingEndsByAnswer ==
  ASSUME SessionInv, EditorNext, NEW d \in Clients, Closing(d), ~Closing(d)'
  PROVE  \E k \in Calls : Answered(d, k) /\ pending[k].fn \in Closings
<1> USE DEF SessionInv, TimeInv
<1>1. PICK k \in Outstanding(d) : pending[k].fn \in Closings
  BY DEF Closing
<1>2. k \notin Outstanding(d)' \/ pending'[k].fn \notin Closings
  BY DEF Closing
<1>3. k \in Calls /\ call[k].stage # "idle" /\ call[k].from = d
  BY <1>1 DEF Outstanding
<1>4. ASSUME NEW c \in Clients, Local(c) PROVE FALSE
  BY <1>1, <1>2, <1>4 DEF Local, Outstanding, providerVars
<1>5. ASSUME NEW c \in Clients, NEW j \in Calls, Sent(c, j) PROVE FALSE
  <2>1. j # k
    BY <1>3, <1>5 DEF Sent
  <2>2. pending'[k] = pending[k] /\ k \in Outstanding(d)'
    BY <1>1, <1>3, <1>5, <2>1, SentEffect DEF Sent
  <2>3. QED
    BY <1>1, <1>2, <2>2
<1>6. ASSUME NEW j \in Calls, AfterClosingSave(j) \/ ServeOrLose(j) PROVE FALSE
  BY <1>1, <1>2, <1>6, ServeEffect, ClosingSaveEffect
<1>7. ~Elapse
  BY <1>1, <1>2 DEF Elapse, Tick, clientVars, Outstanding
<1>8. PICK c \in Clients, j \in Calls : Answered(c, j)
  BY <1>4, <1>5, <1>6, <1>7, EditorStepKinds
<1>9. CASE j = k
  BY <1>1, <1>3, <1>8, <1>9 DEF Answered
<1>10. CASE j # k
  <2>1. pending'[k] = pending[k]
    BY <1>3, <1>8, <1>10 DEF Answered, Done
  <2>2. k \in Outstanding(d)'
    BY <1>1, <1>8, <1>10, ReceiveEffect DEF Answered
  <2>3. QED
    BY <1>1, <1>2, <2>1, <2>2
<1>11. QED
  BY <1>9, <1>10

(* A lease that was granted is held until the client knows. *)
LEMMA GrantedIsHeldStep ==
  ASSUME EditorsKeepTheirLeases, EditorInv, NoErrors', EditorNext
  PROVE  GrantedIsHeld'
<1> USE DEF EditorInv
<1>1. SUFFICES ASSUME NEW d \in Clients, NEW k \in Outstanding(d)',
                      call'[k].endpoint = "lock", call'[k].stage \in {"granted", "ok"},
                      editor'[d].intervalDue # 0
               PROVE  Held(d)'
  BY DEF GrantedIsHeld
<1>2. k \in Calls /\ call'[k].from = d
  BY DEF Outstanding
<1>3. ProviderTypeOK /\ SessionInv
  BY DEF Underway, SessionInv, TimeInv
<1>4. ASSUME k \in Outstanding(d), call[k].endpoint = "lock",
             call[k].stage \in {"granted", "ok"}
      PROVE  Held(d)'
  <2>1. editor[d].intervalDue # 0
    BY <1>1, <1>3, <1>4, IntervalRunning
  <2>2. Held(d)
    BY <1>4, <2>1 DEF GrantedIsHeld
  <2>3. \A j \in Outstanding(d) : MayStart(j) => call[j].endpoint # "drop_lock"
    BY <1>4, NoDropBehindGrant
  <2>4. QED
    BY <2>1, <2>2, <2>3, HeldStep
<1>5. ASSUME NEW j, \A i \in Calls \ {j} : Behind(i, j),
             call'[j].stage \in {"idle", "sent"}
      PROVE  Held(d)'
  <2>1. Behind(k, j)
    BY <1>1, <1>2, <1>5
  <2>2. k \in Outstanding(d) /\ call[k].endpoint = "lock" /\ call[k].stage \in {"granted", "ok"}
    BY <1>1, <1>2, <2>1 DEF Behind, Outstanding
  <2>3. QED
    BY <1>4, <2>2
<1>6. CASE Elapse \/ \E c \in Clients : Local(c)
  <2>1. call' = call
    BY <1>6 DEF Elapse, Tick, Local, providerVars
  <2>2. QED
    BY <1>1, <1>4, <2>1 DEF Outstanding
<1>7. ASSUME NEW c \in Clients, NEW j \in Calls, Sent(c, j) \/ Answered(c, j)
      PROVE  Held(d)'
  BY <1>3, <1>5, <1>7, SentEffect, ReceiveEffect DEF Answered
<1>8. ASSUME NEW j \in Calls, AfterClosingSave(j)
      PROVE  Held(d)'
  BY <1>3, <1>5, <1>8, ClosingSaveEffect
<1>9. ASSUME NEW j \in Calls, ServeOrLose(j)
      PROVE  Held(d)'
  <2>1. /\ \A i \in Calls \ {j} : call'[i] = call[i]
        /\ call'[j].endpoint = call[j].endpoint
        /\ Outstanding(d)' = Outstanding(d)
    BY <1>3, <1>9, ServeEffect
  <2>2. CASE k # j \/ call[j].stage \in {"granted", "ok"}
    BY <1>1, <1>2, <1>4, <2>1, <2>2
  <2>3. CASE k = j /\ call[j].stage \notin {"granted", "ok"}
    <3>1. Serve(j)
      BY <1>9 DEF ServeOrLose, LoseRequest, EditorsKeepTheirLeases, NothingFails
    <3>2. GetLockGrant(j)
      <4> USE DEF ProviderTypeOK, CallRecords, MoveTo
      <4>1. ~GetLockReadClock(j)  BY <1>1, <1>3, <2>3 DEF GetLockReadClock
      <4>2. ~GetLockTooLong(j)  BY <1>1, <1>3, <2>3 DEF GetLockTooLong
      <4>3. ~GetLockConflict(j)  BY <1>1, <1>3, <2>3 DEF GetLockConflict
      <4>4. ~SaveEcosystemGraph(j)  BY <2>3 DEF SaveEcosystemGraph
      <4>5. ~DropLockEcosystemGraph(j)  BY <1>1, <2>1, <2>3 DEF DropLockEcosystemGraph
      <4>6. ~DatabaseError(j)  BY <1>1, <1>3, <2>3 DEF DatabaseError
      <4>7. QED
        BY <3>1, <4>1, <4>2, <4>3, <4>4, <4>5, <4>6 DEF Serve
    <3>3. editor[d].intervalDue # 0 /\ j \in Outstanding(d)
      BY <1>1, <1>3, <1>9, <2>1, <2>3, ServeEffect
    <3>4. QED
      BY <1>9, <3>2, <3>3, GrantIsHeld
  <2>4. QED
    BY <2>2, <2>3
<1>10. QED
  BY <1>3, <1>6, <1>7, <1>8, <1>9, EditorStepKinds DEF SessionInv

(* A client in edit mode that has not asked to stop keeps its lease. *)
LEMMA AcquiredIsHeldStep ==
  ASSUME EditorsKeepTheirLeases, EditorInv, NoErrors', EditorNext
  PROVE  AcquiredIsHeld'
<1> USE DEF EditorInv
<1>1. SUFFICES ASSUME NEW d \in Clients, editEnabled(d)', ~Closing(d)'
               PROVE  Held(d)'
  BY DEF AcquiredIsHeld
<1>2. SessionInv /\ NoErrors /\ Dormant /\ RequestsOK /\ ProviderTypeOK
  BY DEF Underway, SessionInv, TimeInv
<1>3. ~Closing(d)
  <2>1. SUFFICES ASSUME Closing(d) PROVE FALSE
    OBVIOUS
  <2>2. PICK k \in Calls : Answered(d, k) /\ pending[k].fn \in Closings
    BY <1>1, <1>2, <2>1, ClosingEndsByAnswer
  <2>3. QED
    BY <1>1, <1>2, <2>2 DEF Answered, editEnabled, NoErrors, Closings, Refreshes
<1>4. ASSUME Held(d), editor[d].intervalDue # 0
      PROVE  Held(d)'
  <2>1. ASSUME NEW k \in Outstanding(d), call[k].endpoint = "drop_lock"
        PROVE  FALSE
    BY <1>2, <1>3, <2>1 DEF Closing, RequestsOK, Active, Outstanding
  <2>2. QED
    BY <1>4, <2>1, HeldStep
<1>5. CASE editEnabled(d)
  <2>1. editor[d].intervalDue # 0
    BY <1>2, <1>5 DEF editEnabled, Dormant
  <2>2. QED
    BY <1>3, <1>4, <1>5, <2>1 DEF AcquiredIsHeld
<1>6. CASE ~editEnabled(d)
  <2>1. PICK k \in Outstanding(d) :
          Answered(d, k) /\ call[k].endpoint = "lock" /\ call[k].stage = "ok"
    BY <1>1, <1>2, <1>6, EditModeEntered
  <2>2. editor[d].intervalDue # 0
    BY <1>1, <1>2, <2>1 DEF Answered, editEnabled, Dormant
  <2>3. Held(d)
    BY <2>1, <2>2 DEF GrantedIsHeld
  <2>4. QED
    BY <1>4, <2>2, <2>3
<1>7. QED
  BY <1>5, <1>6

(* At the start nobody holds or asks for anything. *)
LEMMA EditorInvInit == EditorInit => EditorInv
<1> SUFFICES ASSUME EditorInit PROVE EditorInv
  OBVIOUS
<1>1. SessionInv /\ LeaseInv
  BY SessionInit, LeaseInit DEF EditorInit
<1>2. \A k \in Calls : call[k].stage = "idle"
  BY DEF EditorInit, ProviderInit, NoCall
<1>3. \A c \in Clients : /\ Outstanding(c) = {} /\ editor[c].intervalDue = 0
                         /\ editor[c].phase = "closed"
  BY <1>2 DEF EditorInit, ClosedEditor, Outstanding
<1>4. NoErrors /\ AnsweredInOrder
  BY <1>2 DEF NoErrors, AnsweredInOrder
<1>5. IntervalAhead /\ Covered /\ GrantedIsHeld /\ AcquiredIsHeld
  BY <1>3 DEF IntervalAhead, Covered, GrantedIsHeld, AcquiredIsHeld, editEnabled
<1>6. QED
  BY <1>1, <1>4, <1>5 DEF EditorInv, Underway

(* Every step keeps the lease. *)
LEMMA EditorInvStep ==
  ASSUME EditorsKeepTheirLeases, EditorInv, [EditorNext]_editorVars
  PROVE  EditorInv'
<1> USE DEF EditorInv, Underway
<1>1. SessionInv' /\ NoErrors'
  BY SessionStep, NoErrorsStep DEF EditorsKeepTheirLeases
<1>2. LeaseInv'
  <2>1. [ProviderNext]_providerVars
    BY EditorIsClient DEF SessionInv, TimeInv, editorVars, providerVars
  <2>2. QED
    BY <2>1, LeaseStep DEF EditorsKeepTheirLeases
<1>3. CASE EditorNext
  <2>1. InOrder
    BY DEF EditorsKeepTheirLeases, OneRequestAtATime
  <2>2. IntervalAhead' /\ AnsweredInOrder' /\ Covered'
    BY <1>3, <2>1, IntervalAheadStep, AnsweredInOrderStep, CoveredStep
  <2>3. GrantedIsHeld' /\ AcquiredIsHeld'
    BY <1>1, <1>3, GrantedIsHeldStep, AcquiredIsHeldStep
  <2>4. QED
    BY <1>1, <1>2, <2>2, <2>3
<1>4. CASE UNCHANGED editorVars
  <2>1. IntervalAhead' /\ AnsweredInOrder' /\ Covered'
    BY <1>4 DEF editorVars, IntervalAhead, AnsweredInOrder, Covered, Awaiting, Outstanding
  <2>2. \A c \in Clients : Held(c) => Held(c)'
    BY <1>4 DEF editorVars, Held, Awaiting, Outstanding
  <2>3. GrantedIsHeld' /\ AcquiredIsHeld'
    BY <1>4, <2>2 DEF editorVars, GrantedIsHeld, AcquiredIsHeld, editEnabled, Closing, Outstanding
  <2>4. QED
    BY <1>1, <1>2, <2>1, <2>3
<1>5. QED
  BY <1>3, <1>4

(* A client that may edit, and has not asked to stop, holds an unexpired   *)
(* lease, for any number of clients and requests and any delays: the       *)
(* refresh a tick of the interval sends is granted before the lease that   *)
(* the previous one obtained runs out.                                     *)
THEOREM EditorHoldsTheLock ==
  ASSUME EditorsKeepTheirLeases
  PROVE  EditorSpec => []EditorHoldsLock
<1>1. EditorInv /\ [EditorNext]_editorVars => EditorInv'
  BY EditorInvStep
<1>2. EditorInv => EditorHoldsLock
  <2>1. SUFFICES ASSUME EditorInv, NEW c \in Clients, editEnabled(c), ~Closing(c)
                 PROVE  lockOwner = UserOf[c] /\ now <= lockExpiresAt
    BY DEF EditorHoldsLock
  <2>2. editor[c].intervalDue # 0
    BY <2>1 DEF editEnabled, EditorInv, Underway, SessionInv, Dormant
  <2>3. QED
    BY <2>1, <2>2, HeldInForce DEF EditorInv, AcquiredIsHeld
<1>3. QED
  BY <1>1, <1>2, EditorInvInit, PTL DEF EditorSpec
=============================================================================
