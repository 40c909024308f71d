--------------------------- MODULE CacheRepository ---------------------------
(***************************************************************************)
(* The lease table CSFDP_Locks of all-data-provider/repository/cache.go.   *)
(* Every caller passes the same key, "ecosystem-graph", so the table is    *)
(* the one row of that key: its Owner (NoOne when the row is absent) and   *)
(* its ExpiresAt.  Times, lockDelay included, are in the unit of `now';    *)
(* the code's unit is the second.                                          *)
(*                                                                         *)
(* Each SQL statement here is alone in its transaction, hence atomic.      *)
(***************************************************************************)
EXTENDS Naturals

CONSTANTS
  Users,               \* owners: Mattermost user IDs
  NoOne,               \* no owner: the row does not exist
  MAX_LOCK_TIME,       \* the longest lockDelay accepted
  LOCK_TIME_EXTRA_TIME \* added to every lockDelay

ASSUME NoOneAssumption == NoOne \notin Users
ASSUME LockTimesAssumption ==
  /\ MAX_LOCK_TIME \in Nat
  /\ LOCK_TIME_EXTRA_TIME \in Nat

VARIABLES
  now,          \* the provider's clock, time.Now().Unix()
  lockOwner,    \* CSFDP_Locks.Owner
  lockExpiresAt \* CSFDP_Locks.ExpiresAt

lockVars == <<lockOwner, lockExpiresAt>>

LockInit ==
  /\ lockOwner = NoOne
  /\ lockExpiresAt = 0

(* GetLock refuses, with an error, a lockDelay over the maximum. *)
TooLong(lockDelay) == lockDelay > MAX_LOCK_TIME

(* Mutant: the seconds that cover the round trip of a refresh are missing. *)
ExpiresAtWithoutExtra(lockDelay) == now + lockDelay

(* Mutant: the times are taken from the clock, not added to it. *)
ExpiresAtBefore(lockDelay) == now - lockDelay - LOCK_TIME_EXTRA_TIME

(* The expiry GetLock computes from the clock, before it runs its SQL. *)
ExpiresAt(lockDelay) == now + lockDelay + LOCK_TIME_EXTRA_TIME

(* Mutant: <= for <. *)
CanLockAtExpiry(owner, currentUnix) ==
  lockOwner \in {NoOne, owner} \/ lockExpiresAt <= currentUnix

(* The insert finds no row, or ON CONFLICT a row its WHERE lets it update: *)
(* one that had expired at currentUnix, or one that is already the owner's.*)
CanLock(owner, currentUnix) ==
  \/ lockOwner = NoOne
  \/ lockExpiresAt < currentUnix
  \/ lockOwner = owner

(* The insert-or-update of GetLock, when it affects the row. *)
UpsertLock(owner, expiresAt) ==
  /\ lockOwner' = owner
  /\ lockExpiresAt' = expiresAt

(* DropLock deletes the row if it is the owner's, whatever its expiry. *)
DropLock(owner) ==
  \/ /\ lockOwner = owner
     /\ lockOwner' = NoOne
     /\ lockExpiresAt' = 0
  \/ /\ lockOwner # owner
     /\ UNCHANGED lockVars
=============================================================================
