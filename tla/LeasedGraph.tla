----------------------------- MODULE LeasedGraph -----------------------------
(***************************************************************************)
(* What the data provider promises about the ecosystem graph, with no      *)
(* request, transaction or message in sight: one lease, held by at most    *)
(* one user at a time, and a graph that only the user holding an unexpired *)
(* lease can replace.                                                      *)
(***************************************************************************)
EXTENDS Naturals

CONSTANTS
  Users,   \* the users that may hold the lease
  NoOne,   \* the owner of a lease that nobody holds
  Graphs,  \* the graphs that can be stored
  MaxLease \* the longest lease that is ever granted

VARIABLES
  now,            \* the clock
  lockOwner,      \* the user holding the lease, or NoOne
  lockExpiresAt,  \* the last instant at which the lease is honoured
  graph           \* the stored graph

vars == <<now, lockOwner, lockExpiresAt, graph>>

(* The lease of u is in force. *)
Holds(u) == lockOwner = u /\ now <= lockExpiresAt

Init ==
  /\ now = 0
  /\ lockOwner = NoOne
  /\ lockExpiresAt = 0
  /\ graph \in Graphs

(* u takes a lease nobody else has in force, or renews its own; a renewal  *)
(* may end sooner than the lease it replaces.                              *)
Acquire(u) ==
  /\ \A v \in Users \ {u} : ~Holds(v)
  /\ lockOwner' = u
  /\ lockExpiresAt' \in now .. now + MaxLease
  /\ UNCHANGED <<now, graph>>

(* u gives its lease back. *)
Release(u) ==
  /\ lockOwner = u
  /\ lockOwner' = NoOne
  /\ lockExpiresAt' = 0
  /\ UNCHANGED <<now, graph>>

(* u replaces the graph while its lease is in force. *)
Write(u) ==
  /\ Holds(u)
  /\ graph' \in Graphs
  /\ UNCHANGED <<now, lockOwner, lockExpiresAt>>

Tick ==
  /\ now' = now + 1
  /\ UNCHANGED <<lockOwner, lockExpiresAt, graph>>

Next ==
  \/ \E u \in Users : Acquire(u) \/ Release(u) \/ Write(u)
  \/ Tick

Spec == Init /\ [][Next]_vars
=============================================================================
