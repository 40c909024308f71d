-------------------------- MODULE IssueWizard_proofs --------------------------
(***************************************************************************)
(* Proofs about the issue wizard, for any users, issues, texts and number  *)
(* of chains of calls under way: every issue ends with its one channel,    *)
(* the wizard sends what it shows, and what a user leaves alone stays.     *)
(***************************************************************************)
EXTENDS IssueWizard, NaturalsInduction, WellFoundedInduction, TLAPS

------------------------------------------------------------------------------
(* Lists without an item.  The induction is one over sets of numbers.      *)

(* A set of numbers that is not empty has a least one. *)
LEMMA NatMin ==
  ASSUME NEW T, T \subseteq Nat, T # {}
  PROVE  \E n \in T : \A m \in T : ~(m < n)
<1>1. IsWellFoundedOn(OpToRel(<, Nat), Nat)
  BY NatLessThanWellFounded, Zenon
<1>2. \E n \in T : \A m \in T : <<m, n>> \notin OpToRel(<, Nat)
  BY <1>1, WFMin, Zenon
<1>3. QED
  BY <1>2 DEF OpToRel

(* A set that has 0 and the successor of each of its numbers has them all. *)
LEMMA Induction ==
  ASSUME NEW T, 0 \in T, \A n \in Nat : n \in T => n + 1 \in T
  PROVE  Nat \subseteq T
<1>1. SUFFICES ASSUME Nat \ T # {} PROVE FALSE
  OBVIOUS
<1>2. PICK n \in Nat \ T : \A m \in Nat \ T : ~(m < n)
  BY <1>1, NatMin
<1>3. n - 1 \in Nat /\ n - 1 \in T
  BY <1>2
<1>4. QED
  BY <1>2, <1>3

(* Without computes, for every number n, the first n items without x.      *)
Keeps(kept, items, x) ==
  kept = [n \in 0 .. Len(items) |->
            IF n = 0 THEN <<>>
            ELSE IF items[n] = x THEN kept[n - 1] ELSE Append(kept[n - 1], items[n])]

(* What the recursive definition stands for. *)
LEMMA WithoutIsKept ==
  ASSUME NEW items, NEW x
  PROVE  Without(items, x) = (CHOOSE kept : Keeps(kept, items, x))[Len(items)]
BY DEF Without, Keeps

(* The same up to the item m, one item after the other. *)
KeepsUpTo(kept, items, x, m) ==
  /\ DOMAIN kept = 0 .. m
  /\ kept[0] = <<>>
  /\ \A n \in Nat : n < m =>
       kept[n + 1] = IF items[n + 1] = x THEN kept[n] ELSE Append(kept[n], items[n + 1])

(* There is such a function: the recursion is well-founded. *)
LEMMA SomeKept ==
  ASSUME NEW items, NEW x, Len(items) \in Nat
  PROVE  Keeps(CHOOSE kept : Keeps(kept, items, x), items, x)
<1> DEFINE T == {m \in Nat : \E kept : KeepsUpTo(kept, items, x, m)}
<1>1. 0 \in T
  <2>1. KeepsUpTo([n \in 0 .. 0 |-> <<>>], items, x, 0)
    BY DEF KeepsUpTo
  <2>2. QED BY <2>1
<1>2. ASSUME NEW m \in Nat, m \in T PROVE m + 1 \in T
  <2>1. PICK kept : KeepsUpTo(kept, items, x, m)
    BY <1>2
  <2> DEFINE last == IF items[m + 1] = x THEN kept[m] ELSE Append(kept[m], items[m + 1])
             more == [n \in 0 .. m + 1 |-> IF n = m + 1 THEN last ELSE kept[n]]
  <2>2. KeepsUpTo(more, items, x, m + 1)
    <3>1. DOMAIN more = 0 .. m + 1 /\ more[m + 1] = last
      OBVIOUS
    <3>2. \A n \in 0 .. m : more[n] = kept[n]
      OBVIOUS
    <3> HIDE DEF more
    <3>3. ASSUME NEW n \in Nat, n < m + 1
          PROVE  more[n + 1] = IF items[n + 1] = x THEN more[n]
                               ELSE Append(more[n], items[n + 1])
      <4>1. CASE n = m
        BY <3>1, <3>2, <4>1
      <4>2. CASE n < m
        BY <2>1, <3>2, <4>2 DEF KeepsUpTo
      <4>3. QED BY <3>3, <4>1, <4>2
    <3>4. QED
      BY <2>1, <3>1, <3>2, <3>3 DEF KeepsUpTo
  <2>3. QED BY <2>2
<1>3. Len(items) \in T
  <2> HIDE DEF T
  <2>1. Nat \subseteq T
    BY <1>1, <1>2, Induction
  <2>2. QED BY <2>1
<1>4. PICK kept : KeepsUpTo(kept, items, x, Len(items))
  BY <1>3
<1> DEFINE g == [n \in 0 .. Len(items) |-> kept[n]]
<1>5. ASSUME NEW n \in 0 .. Len(items)
      PROVE  g[n] = IF n = 0 THEN <<>>
                    ELSE IF items[n] = x THEN g[n - 1] ELSE Append(g[n - 1], items[n])
  <2>1. CASE n = 0
    BY <1>4, <2>1 DEF KeepsUpTo
  <2>2. CASE n # 0
    <3> DEFINE k == n - 1
    <3>1. k \in Nat /\ k + 1 = n /\ k < Len(items) /\ k \in 0 .. Len(items)
      BY <2>2
    <3>2. kept[k + 1] = IF items[k + 1] = x THEN kept[k] ELSE Append(kept[k], items[k + 1])
      BY <1>4, <3>1 DEF KeepsUpTo
    <3>3. QED BY <2>2, <3>1, <3>2
  <2>3. QED BY <2>1, <2>2
<1>6. Keeps(g, items, x)
  BY <1>5 DEF Keeps
<1>7. QED
  BY <1>6

(* Without returns the last value of such a function. *)
LEMMA KeptIs ==
  ASSUME NEW items, NEW x, Len(items) \in Nat
  PROVE  \E kept : /\ KeepsUpTo(kept, items, x, Len(items))
                   /\ Without(items, x) = kept[Len(items)]
<1> DEFINE kept == CHOOSE kept : Keeps(kept, items, x)
<1>1. Keeps(kept, items, x)
  BY SomeKept
<1> HIDE DEF kept
<1>2. KeepsUpTo(kept, items, x, Len(items))
  <2>1. DOMAIN kept = 0 .. Len(items) /\ kept[0] = <<>>
    BY <1>1 DEF Keeps
  <2>2. ASSUME NEW n \in Nat, n < Len(items)
        PROVE  kept[n + 1] = IF items[n + 1] = x THEN kept[n]
                             ELSE Append(kept[n], items[n + 1])
    <3>1. n + 1 \in 0 .. Len(items) /\ n + 1 # 0 /\ (n + 1) - 1 = n
      BY <2>2
    <3>2. QED BY <1>1, <3>1 DEF Keeps
  <2>3. QED BY <2>1, <2>2 DEF KeepsUpTo
<1>3. Without(items, x) = kept[Len(items)]
  BY WithoutIsKept DEF kept
<1>4. QED BY <1>2, <1>3

(* Where two lists agree, what is kept of them does. *)
LEMMA KeptUnique ==
  ASSUME NEW a, NEW b, NEW x, NEW f, NEW g, NEW m \in Nat,
         KeepsUpTo(f, a, x, m), KeepsUpTo(g, b, x, m),
         \A n \in 1 .. m : a[n] = b[n]
  PROVE  f[m] = g[m]
<1> DEFINE T == {n \in Nat : n <= m => f[n] = g[n]}
<1>1. 0 \in T
  BY DEF KeepsUpTo
<1>2. ASSUME NEW n \in Nat, n \in T PROVE n + 1 \in T
  <2>1. SUFFICES ASSUME n + 1 <= m PROVE f[n + 1] = g[n + 1]
    OBVIOUS
  <2>2. f[n] = g[n] /\ a[n + 1] = b[n + 1] /\ n < m /\ n + 1 \in 1 .. m
    BY <1>2, <2>1
  <2>3. QED
    BY <2>2 DEF KeepsUpTo
<1>3. Nat \subseteq T
  <2> HIDE DEF T
  <2> QED BY <1>1, <1>2, Induction
<1>4. QED
  BY <1>3

(* Nothing is kept of nothing. *)
LEMMA WithoutEmpty == ASSUME NEW x PROVE Without(<<>>, x) = <<>>
<1>1. Len(<<>>) = 0
  OBVIOUS
<1>2. QED
  BY <1>1, KeptIs DEF KeepsUpTo

(* An item that is added is kept, unless it is x. *)
LEMMA WithoutAppend ==
  ASSUME NEW S, NEW items \in Seq(S), NEW x, NEW y \in S
  PROVE  Without(Append(items, y), x)
           = IF y = x THEN Without(items, x) ELSE Append(Without(items, x), y)
<1> DEFINE more == Append(items, y)
           m == Len(items)
<1>1. /\ m \in Nat /\ Len(more) = m + 1 /\ more[m + 1] = y
      /\ \A n \in 1 .. m : more[n] = items[n]
  OBVIOUS
<1> HIDE DEF more, m
<1>2. PICK f : KeepsUpTo(f, more, x, m + 1) /\ Without(more, x) = f[m + 1]
  <2>1. Len(more) \in Nat
    BY <1>1
  <2>2. QED BY <1>1, <2>1, KeptIs
<1>3. PICK g : KeepsUpTo(g, items, x, m) /\ Without(items, x) = g[m]
  BY <1>1, KeptIs DEF m
<1> DEFINE h == [n \in 0 .. m |-> f[n]]
<1>4. KeepsUpTo(h, more, x, m)
  <2>1. DOMAIN h = 0 .. m /\ \A n \in 0 .. m : h[n] = f[n]
    OBVIOUS
  <2> HIDE DEF h
  <2>2. ASSUME NEW n \in Nat, n < m
        PROVE  h[n + 1] = IF more[n + 1] = x THEN h[n] ELSE Append(h[n], more[n + 1])
    <3>1. n \in 0 .. m /\ n + 1 \in 0 .. m /\ n < m + 1
      BY <1>1, <2>2
    <3>2. QED BY <1>2, <2>1, <3>1 DEF KeepsUpTo
  <2>3. h[0] = <<>>
    BY <1>1, <1>2, <2>1 DEF KeepsUpTo
  <2>4. QED BY <2>1, <2>2, <2>3 DEF KeepsUpTo
<1>5. h[m] = f[m]
  BY <1>1
<1> HIDE DEF h
<1>6. f[m] = g[m]
  BY <1>1, <1>3, <1>4, <1>5, KeptUnique
<1>7. f[m + 1] = IF y = x THEN f[m] ELSE Append(f[m], y)
  <2>1. m < m + 1
    BY <1>1
  <2>2. QED BY <1>1, <1>2, <2>1 DEF KeepsUpTo
<1>8. QED
  BY <1>2, <1>3, <1>6, <1>7 DEF more

(* What is left is a list, and nothing is left to remove. *)
LEMMA WithoutType ==
  ASSUME NEW S, NEW items \in Seq(S), NEW x
  PROVE  /\ Without(items, x) \in Seq(S)
         /\ Without(Without(items, x), x) = Without(items, x)
<1>1. Len(items) \in Nat /\ \A n \in 1 .. Len(items) : items[n] \in S
  OBVIOUS
<1>2. PICK f : KeepsUpTo(f, items, x, Len(items)) /\ Without(items, x) = f[Len(items)]
  BY <1>1, KeptIs
<1> DEFINE T == {n \in Nat : n <= Len(items) =>
                   f[n] \in Seq(S) /\ Without(f[n], x) = f[n]}
<1>3. 0 \in T
  <2>1. f[0] = <<>> /\ <<>> \in Seq(S)
    BY <1>2 DEF KeepsUpTo
  <2>2. QED BY <2>1, WithoutEmpty
<1>4. ASSUME NEW n \in Nat, n \in T PROVE n + 1 \in T
  <2>1. SUFFICES ASSUME n + 1 <= Len(items)
                 PROVE  f[n + 1] \in Seq(S) /\ Without(f[n + 1], x) = f[n + 1]
    OBVIOUS
  <2>2. /\ f[n] \in Seq(S) /\ Without(f[n], x) = f[n] /\ items[n + 1] \in S
        /\ n < Len(items)
    BY <1>1, <1>4, <2>1
  <2>3. f[n + 1] = IF items[n + 1] = x THEN f[n] ELSE Append(f[n], items[n + 1])
    BY <1>2, <2>2 DEF KeepsUpTo
  <2>4. CASE items[n + 1] = x
    BY <2>2, <2>3, <2>4
  <2>5. CASE items[n + 1] # x
    BY <2>2, <2>3, <2>5, WithoutAppend
  <2>6. QED BY <2>4, <2>5
<1>5. Nat \subseteq T
  <2> HIDE DEF T
  <2> QED BY <1>3, <1>4, Induction
<1>6. QED
  BY <1>1, <1>2, <1>5

------------------------------------------------------------------------------
(* The chains and the channels. *)

CallFields ==
  {"user", "visit", "call", "answer", "id", "sent", "prefill", "untouched"}

IsCall(c) == DOMAIN c = CallFields /\ c.call \in Calls /\ c.answer \in Answers

(* A call save has no issue before it is stored; the others that concern a *)
(* channel have a stored one. *)
CallsOK ==
  \A s \in UnderWay :
    /\ IsCall(chain[s])
    /\ chain[s].call \in {"channel", "delete", "archive"} => chain[s].id \in Stored
    /\ chain[s].call = "save" =>
         IF chain[s].answer = "ok" THEN chain[s].id \in Stored ELSE chain[s].id = Away

StoredOK ==
  /\ Stored \subseteq IssueIDs
  /\ live \in [Stored -> Nat]
  /\ \A id \in Stored : /\ DOMAIN issue[id] = Parts \cup {"deleted"}
                        /\ issue[id].deleted \in BOOLEAN

Creates(s, id) == chain[s].call \in {"save", "channel"} /\ chain[s].id = id
Deletes(s, id) == chain[s].call \in {"delete", "archive"} /\ chain[s].id = id

(* No issue is created by two chains. *)
OneCreation ==
  \A id \in Stored : \A r, s \in UnderWay : Creates(r, id) /\ Creates(s, id) => r = s

(* An issue whose creation is under way has its channel when that call is  *)
(* answered, not before.                                                   *)
CreationOK(s, id) ==
  /\ ~issue[id].deleted /\ chain[s].answer # "error"
  /\ live[id] = IF chain[s].call = "channel" /\ chain[s].answer = "ok" THEN 1 ELSE 0

DeletionOK(s, id) ==
  /\ chain[s].answer # "error"
  /\ chain[s].call = "archive" \/ chain[s].answer = "ok" => issue[id].deleted
  /\ chain[s].call = "archive" /\ chain[s].answer = "ok" => live[id] = 0

(* The chain in slot s will archive the channels of an issue. *)
WillArchive(s, id) ==
  /\ Deletes(s, id)
  /\ chain[s].answer = IF chain[s].call = "delete" THEN "ok" ELSE "none"

(* Once created, an issue has its channel until it is deleted, and none    *)
(* after that, unless a chain has still to archive it.                     *)
Complete(id) ==
  (\A s \in UnderWay : ~Creates(s, id)) =>
    IF issue[id].deleted THEN live[id] = 0 \/ \E s \in UnderWay : WillArchive(s, id)
    ELSE live[id] = 1

ChannelsFollow ==
  \A id \in Stored \ spoilt :
    /\ \A s \in UnderWay : Creates(s, id) => CreationOK(s, id)
    /\ \A s \in UnderWay : Deletes(s, id) => DeletionOK(s, id)
    /\ Complete(id)

ChannelInv == CallsOK /\ StoredOK /\ OneCreation /\ ChannelsFollow

------------------------------------------------------------------------------
(* What becomes of the chains. *)

(* The chains but the one in slot s stay as they are. *)
OthersStay(s) == \A r \in UnderWay \ {s} : r \in UnderWay' /\ chain'[r] = chain[r]

(* A call is answered. *)
LEMMA CallAnswered ==
  ASSUME NEW s \in UnderWay, IsCall(chain[s]), NEW answer \in Answers, NEW id,
         AnswerWith(s, answer, id)
  PROVE  /\ UnderWay' = UnderWay /\ OthersStay(s) /\ IsCall(chain'[s])
         /\ chain'[s].call = chain[s].call
         /\ chain'[s].answer = answer /\ chain'[s].id = id
<1> DEFINE d == [chain[s] EXCEPT !.answer = answer, !.id = id,
                     !.sent = IF chain[s].call = "update" THEN @ ELSE emptyWizardData,
                     !.prefill = emptyWizardData, !.untouched = {}]
<1>1. /\ DOMAIN d = CallFields /\ d.call = chain[s].call
      /\ d.answer = answer /\ d.id = id
  BY DEF IsCall, CallFields
<1>2. chain' = Put(s, d)
  BY DEF AnswerWith
<1> HIDE DEF d
<1>3. UnderWay' = UnderWay /\ chain'[s] = d /\ OthersStay(s)
  BY <1>2 DEF Put, UnderWay, OthersStay
<1>4. QED
  BY <1>1, <1>3 DEF IsCall

(* A chain goes on to its next call. *)
LEMMA CallFollows ==
  ASSUME NEW s \in UnderWay, IsCall(chain[s]), NEW call \in Calls,
         chain' = Put(s, [chain[s] EXCEPT !.call = call, !.answer = "none"])
  PROVE  /\ UnderWay' = UnderWay /\ OthersStay(s) /\ IsCall(chain'[s])
         /\ chain'[s].call = call
         /\ chain'[s].answer = "none" /\ chain'[s].id = chain[s].id
<1> DEFINE d == [chain[s] EXCEPT !.call = call, !.answer = "none"]
<1>1. /\ DOMAIN d = CallFields /\ d.call = call
      /\ d.answer = "none" /\ d.id = chain[s].id
  BY DEF IsCall, CallFields
<1> HIDE DEF d
<1>2. UnderWay' = UnderWay /\ chain'[s] = d /\ OthersStay(s)
  BY DEF Put, UnderWay, OthersStay, d
<1>3. QED
  BY <1>1, <1>2 DEF IsCall, Answers

(* A chain starts. *)
LEMMA CallStarts ==
  ASSUME NEW s, s \notin UnderWay, NEW u, NEW call \in Calls, NEW id,
         chain' = Put(s, Call(u, call, id))
  PROVE  /\ UnderWay' = UnderWay \cup {s} /\ OthersStay(s) /\ IsCall(chain'[s])
         /\ chain'[s].call = call
         /\ chain'[s].answer = "none" /\ chain'[s].id = id
<1>1. UnderWay' = UnderWay \cup {s} /\ chain'[s] = Call(u, call, id) /\ OthersStay(s)
  BY DEF Put, UnderWay, OthersStay
<1>2. QED
  BY <1>1 DEF IsCall, CallFields, Answers, Call

(* A chain ends. *)
LEMMA CallEnds ==
  ASSUME NEW s \in UnderWay, chain' = Gone(s)
  PROVE  UnderWay' = UnderWay \ {s} /\ OthersStay(s)
BY DEF Gone, UnderWay, OthersStay

------------------------------------------------------------------------------
(* The steps of the users. *)

(* A chain starts. *)
LEMMA StartKeeps ==
  ASSUME ChannelInv, NEW s, s \notin UnderWay, NEW u, NEW call, NEW id,
         \/ call = "save" /\ id = Away
         \/ call = "update"
         \/ call = "delete" /\ id \in Stored,
         chain' = Put(s, Call(u, call, id)), UNCHANGED <<issue, live, spoilt>>
  PROVE  ChannelInv'
<1>1. call \in Calls
  BY DEF Calls
<1>2. /\ UnderWay' = UnderWay \cup {s} /\ OthersStay(s) /\ IsCall(chain'[s])
      /\ chain'[s].call = call
      /\ chain'[s].answer = "none" /\ chain'[s].id = id
  BY <1>1, CallStarts
<1>3. Stored' = Stored /\ Away \notin Stored
  BY IssueWizardAssumption DEF Stored, ChannelInv, StoredOK
<1>4. CallsOK'
  BY <1>2, <1>3 DEF ChannelInv, CallsOK, OthersStay
<1>5. StoredOK'
  BY <1>3 DEF ChannelInv, StoredOK
<1>6. \A i \in Stored : ~Creates(s, i)'
  BY <1>2, <1>3 DEF Creates
<1>7. OneCreation'
  BY <1>2, <1>3, <1>6 DEF ChannelInv, OneCreation, OthersStay, Creates
<1>8. ASSUME NEW i \in Stored \ spoilt
      PROVE  /\ \A r \in UnderWay' : Creates(r, i)' => CreationOK(r, i)'
             /\ \A r \in UnderWay' : Deletes(r, i)' => DeletionOK(r, i)'
             /\ Complete(i)'
  <2>1. \A r \in UnderWay : /\ Creates(r, i)' <=> Creates(r, i)
                            /\ CreationOK(r, i)' <=> CreationOK(r, i)
                            /\ Deletes(r, i)' <=> Deletes(r, i)
                            /\ DeletionOK(r, i)' <=> DeletionOK(r, i)
                            /\ WillArchive(r, i)' <=> WillArchive(r, i)
    BY <1>2 DEF OthersStay, Creates, CreationOK, Deletes, DeletionOK, WillArchive
  <2>2. Deletes(s, i)' => DeletionOK(s, i)'
    BY <1>2 DEF Deletes, DeletionOK
  <2>3. QED
    BY <1>2, <1>6, <2>1, <2>2 DEF ChannelInv, ChannelsFollow, Complete
<1>9. QED
  BY <1>3, <1>4, <1>5, <1>7, <1>8 DEF ChannelInv, ChannelsFollow

------------------------------------------------------------------------------
(* The answers. *)

(* A chain ends that has done its work, or whose issue is spoilt. *)
LEMMA EndKeeps ==
  ASSUME ChannelInv, NEW s \in UnderWay, chain' = Gone(s),
         UNCHANGED <<issue, live>>, spoilt \subseteq spoilt',
         chain[s].id \in Stored \ spoilt' =>
           \/ chain[s].call = "update"
           \/ chain[s].call \in {"channel", "archive"} /\ chain[s].answer = "ok"
  PROVE  ChannelInv'
<1>1. UnderWay' = UnderWay \ {s} /\ OthersStay(s)
  BY CallEnds
<1>2. Stored' = Stored
  BY DEF Stored
<1>3. CallsOK' /\ StoredOK'
  BY <1>1, <1>2 DEF ChannelInv, CallsOK, StoredOK, OthersStay
<1>4. OneCreation'
  BY <1>1, <1>2 DEF ChannelInv, OneCreation, OthersStay, Creates
<1>5. ASSUME NEW i \in Stored \ spoilt'
      PROVE  /\ \A r \in UnderWay' : Creates(r, i)' => CreationOK(r, i)'
             /\ \A r \in UnderWay' : Deletes(r, i)' => DeletionOK(r, i)'
             /\ Complete(i)'
  <2>1. \A r \in UnderWay' : /\ Creates(r, i)' <=> Creates(r, i)
                             /\ CreationOK(r, i)' <=> CreationOK(r, i)
                             /\ Deletes(r, i)' <=> Deletes(r, i)
                             /\ DeletionOK(r, i)' <=> DeletionOK(r, i)
                             /\ WillArchive(r, i)' <=> WillArchive(r, i)
    BY <1>1 DEF OthersStay, Creates, CreationOK, Deletes, DeletionOK, WillArchive
  <2>2. /\ \A r \in UnderWay : Creates(r, i) => CreationOK(r, i)
        /\ \A r \in UnderWay : Deletes(r, i) => DeletionOK(r, i)
        /\ Complete(i)
    BY DEF ChannelInv, ChannelsFollow
  <2>3. CASE Creates(s, i)
    <3>1. ~issue[i].deleted /\ live[i] = 1
      BY <2>2, <2>3 DEF Creates, CreationOK
    <3>2. Complete(i)'
      BY <3>1 DEF Complete
    <3>3. QED
      BY <1>1, <2>1, <2>2, <3>2
  <2>4. CASE ~Creates(s, i)
    <3>1. WillArchive(s, i) => FALSE
      BY DEF WillArchive, Deletes
    <3>2. Complete(i)'
      BY <1>1, <2>1, <2>2, <2>4, <3>1 DEF Complete
    <3>3. QED
      BY <1>1, <2>1, <2>2, <3>2
  <2>5. QED
    BY <2>3, <2>4
<1>6. QED
  BY <1>2, <1>3, <1>4, <1>5 DEF ChannelInv, ChannelsFollow

(* A chain goes on to its second call. *)
LEMMA FollowKeeps ==
  ASSUME ChannelInv, NEW s \in UnderWay, chain[s].answer = "ok",
         NEW call,
         \/ chain[s].call = "save" /\ call = "channel"
         \/ chain[s].call = "delete" /\ call = "archive",
         chain' = Put(s, [chain[s] EXCEPT !.call = call, !.answer = "none"]),
         UNCHANGED <<issue, live, spoilt>>
  PROVE  ChannelInv'
<1>1. call \in Calls /\ IsCall(chain[s])
  BY DEF Calls, ChannelInv, CallsOK
<1>2. /\ UnderWay' = UnderWay /\ OthersStay(s) /\ IsCall(chain'[s])
      /\ chain'[s].call = call
      /\ chain'[s].answer = "none" /\ chain'[s].id = chain[s].id
  BY <1>1, CallFollows
<1>3. Stored' = Stored /\ chain[s].id \in Stored
  BY DEF Stored, ChannelInv, CallsOK
<1>4. CallsOK' /\ StoredOK'
  BY <1>2, <1>3 DEF ChannelInv, CallsOK, StoredOK, OthersStay
<1>5. \A i \in Stored : \A r \in UnderWay : /\ Creates(r, i)' <=> Creates(r, i)
                                            /\ Deletes(r, i)' <=> Deletes(r, i)
  BY <1>2 DEF OthersStay, Creates, Deletes
<1>6. OneCreation'
  BY <1>2, <1>3, <1>5 DEF ChannelInv, OneCreation
<1>7. ASSUME NEW i \in Stored \ spoilt
      PROVE  /\ \A r \in UnderWay : Creates(r, i) => CreationOK(r, i)'
             /\ \A r \in UnderWay : Deletes(r, i) => DeletionOK(r, i)'
             /\ Complete(i)'
  <2>1. /\ \A r \in UnderWay : Creates(r, i) => CreationOK(r, i)
        /\ \A r \in UnderWay : Deletes(r, i) => DeletionOK(r, i)
        /\ Complete(i)
    BY DEF ChannelInv, ChannelsFollow
  <2>2. \A r \in UnderWay : Creates(r, i) => CreationOK(r, i)'
    BY <1>2, <2>1 DEF OthersStay, Creates, CreationOK
  <2>3. \A r \in UnderWay : Deletes(r, i) => DeletionOK(r, i)'
    BY <1>2, <2>1 DEF OthersStay, Deletes, DeletionOK
  <2>4. \A r \in UnderWay : WillArchive(r, i) => WillArchive(r, i)'
    BY <1>2 DEF OthersStay, Deletes, WillArchive
  <2>5. QED
    BY <1>2, <1>5, <2>1, <2>2, <2>3, <2>4 DEF Complete
<1>8. QED
  BY <1>2, <1>3, <1>4, <1>5, <1>6, <1>7 DEF ChannelInv, ChannelsFollow

(* An answer that arrives. *)
LEMMA ReceiveKeeps ==
  ASSUME ChannelInv, NEW s \in UnderWay, Receive(s), UNCHANGED <<issue, live>>
  PROVE  ChannelInv'
<1>1. chain[s].id \in Stored => chain[s].id \in IssueIDs
  BY DEF ChannelInv, StoredOK
<1>2. CASE Saved(s)
  BY <1>2, FollowKeeps DEF Saved
<1>3. CASE Deleted(s)
  BY <1>3, FollowKeeps DEF Deleted
<1>4. CASE ChannelAdded(s)
  BY <1>4, EndKeeps DEF ChannelAdded
<1>5. CASE Updated(s)
  <2>1. chain[s].call = "update" /\ chain' = Gone(s) /\ UNCHANGED spoilt
    BY <1>5 DEF Updated
  <2>2. QED
    BY <2>1, EndKeeps
<1>6. CASE Archived(s)
  BY <1>6, EndKeeps DEF Archived
<1>7. CASE Failed(s)
  <2>1. chain[s].answer = "error" /\ chain' = Gone(s) /\ UNCHANGED spoilt
    BY <1>7 DEF Failed
  <2>2. chain[s].id \in Stored \ spoilt => chain[s].call = "update"
    <3>1. ASSUME NEW i \in Stored \ spoilt
          PROVE  ~Creates(s, i) /\ ~Deletes(s, i)
      BY <2>1, <3>1 DEF ChannelInv, ChannelsFollow, CreationOK, DeletionOK
    <3>2. chain[s].call \in Calls
      BY DEF ChannelInv, CallsOK, IsCall
    <3>3. QED
      BY <3>1, <3>2 DEF Creates, Deletes, Calls
  <2>3. QED
    BY <2>1, <2>2, EndKeeps
<1>8. CASE Lost(s)
  BY <1>1, <1>8, EndKeeps DEF Lost, Spoil
<1>9. QED
  BY <1>2, <1>3, <1>4, <1>5, <1>6, <1>7, <1>8 DEF Receive

------------------------------------------------------------------------------
(* The provider and the plugin. *)

(* An answer that leaves the tables alone, or changes only the texts of an *)
(* issue. *)
LEMMA AnswerKeeps ==
  ASSUME ChannelInv, NEW s \in UnderWay, NEW answer \in {"ok", "error"},
         AnswerWith(s, answer, chain[s].id),
         chain[s].call = "save" => answer = "error",
         DOMAIN issue' = Stored, live' = live, spoilt \subseteq spoilt',
         \A i \in Stored : /\ DOMAIN issue'[i] = DOMAIN issue[i]
                           /\ issue'[i].deleted = issue[i].deleted,
         chain[s].call # "update" /\ chain[s].id \in Stored => chain[s].id \in spoilt',
         chain[s].answer = "none"
  PROVE  ChannelInv'
<1>1. /\ UnderWay' = UnderWay /\ OthersStay(s) /\ IsCall(chain'[s])
      /\ chain'[s].call = chain[s].call
      /\ chain'[s].answer = answer /\ chain'[s].id = chain[s].id
  BY CallAnswered DEF ChannelInv, CallsOK, Answers
<1>2. Stored' = Stored
  BY DEF Stored
<1>3. CallsOK'
  BY <1>1, <1>2 DEF ChannelInv, CallsOK, OthersStay
<1>4. StoredOK'
  BY <1>2 DEF ChannelInv, StoredOK
<1>5. \A i \in Stored : \A r \in UnderWay : /\ Creates(r, i)' <=> Creates(r, i)
                                            /\ Deletes(r, i)' <=> Deletes(r, i)
  BY <1>1 DEF OthersStay, Creates, Deletes
<1>6. OneCreation'
  BY <1>1, <1>2, <1>5 DEF ChannelInv, OneCreation
<1>7. ASSUME NEW i \in Stored \ spoilt'
      PROVE  /\ \A r \in UnderWay : Creates(r, i) => CreationOK(r, i)'
             /\ \A r \in UnderWay : Deletes(r, i) => DeletionOK(r, i)'
             /\ Complete(i)'
  <2>1. /\ \A r \in UnderWay : Creates(r, i) => CreationOK(r, i)
        /\ \A r \in UnderWay : Deletes(r, i) => DeletionOK(r, i)
        /\ Complete(i)
    BY DEF ChannelInv, ChannelsFollow
  <2>2. ~Creates(s, i) /\ ~Deletes(s, i)
    BY DEF Creates, Deletes
  <2>3. \A r \in UnderWay : Creates(r, i) => CreationOK(r, i)'
    BY <1>1, <2>1, <2>2 DEF OthersStay, CreationOK
  <2>4. \A r \in UnderWay : Deletes(r, i) => DeletionOK(r, i)'
    BY <1>1, <2>1, <2>2 DEF OthersStay, DeletionOK
  <2>5. \A r \in UnderWay : WillArchive(r, i) => WillArchive(r, i)'
    BY <1>1, <2>2 DEF OthersStay, Deletes, WillArchive
  <2>6. QED
    BY <1>1, <1>5, <2>1, <2>3, <2>4, <2>5 DEF Complete
<1>8. QED
  BY <1>1, <1>2, <1>3, <1>4, <1>5, <1>6, <1>7 DEF ChannelInv, ChannelsFollow

(* The new issue has no channel, and no other chain knows it. *)
LEMMA ServeSaveKeeps ==
  ASSUME ChannelInv, NEW s \in UnderWay, chain[s].answer = "none",
         NEW new \in IssueIDs, ServeSave(s, new)
  PROVE  ChannelInv'
<1>1. /\ UnderWay' = UnderWay /\ OthersStay(s) /\ IsCall(chain'[s])
      /\ chain[s].call = "save" /\ chain'[s].call = "save"
      /\ chain'[s].answer = "ok" /\ chain'[s].id = new
  BY CallAnswered DEF ServeSave, ChannelInv, CallsOK, Answers
<1>2. /\ Stored' = Stored \cup {new} /\ new \notin Stored
      /\ \A i \in Stored : issue'[i] = issue[i] /\ live'[i] = live[i]
      /\ DOMAIN issue'[new] = Parts \cup {"deleted"} /\ issue'[new].deleted = FALSE
      /\ live'[new] = 0 /\ DOMAIN live' = Stored'
      /\ spoilt' = spoilt
  <2>1. "deleted" \in Parts \cup {"deleted"}
    OBVIOUS
  <2>2. QED
    BY <2>1 DEF ServeSave, Stored
<1>3. StoredOK'
  <2>1. live' = [i \in Stored \cup {new} |-> IF i = new THEN 0 ELSE live[i]]
    BY DEF ServeSave
  <2>2. live' \in [Stored' -> Nat]
    BY <1>2, <2>1 DEF ChannelInv, StoredOK
  <2>3. QED
    BY <1>2, <2>2 DEF ChannelInv, StoredOK
<1>4. Away \notin Stored \cup {new} /\ chain[s].id = Away
  BY <1>1, <1>2, IssueWizardAssumption DEF ChannelInv, StoredOK, CallsOK
<1>5. CallsOK'
  BY <1>1, <1>2 DEF ChannelInv, CallsOK, OthersStay
<1>6. \A r \in UnderWay \ {s} : ~Creates(r, new)' /\ ~Deletes(r, new)'
  BY <1>1, <1>2, <1>4 DEF ChannelInv, CallsOK, OthersStay, Creates, Deletes, IsCall
<1>7. \A i \in Stored : /\ ~Creates(s, i) /\ ~Creates(s, i)'
                        /\ ~Deletes(s, i) /\ ~Deletes(s, i)'
  BY <1>1, <1>2, <1>4 DEF Creates, Deletes
<1>8. \A i \in Stored : \A r \in UnderWay : /\ Creates(r, i)' <=> Creates(r, i)
                                            /\ Deletes(r, i)' <=> Deletes(r, i)
  BY <1>1, <1>7 DEF OthersStay, Creates, Deletes
<1>9. OneCreation'
  BY <1>1, <1>2, <1>6, <1>8 DEF ChannelInv, OneCreation
<1>10. ASSUME NEW i \in Stored \ spoilt
       PROVE  /\ \A r \in UnderWay : Creates(r, i) => CreationOK(r, i)'
              /\ \A r \in UnderWay : Deletes(r, i) => DeletionOK(r, i)'
              /\ Complete(i)'
  <2>1. /\ \A r \in UnderWay : Creates(r, i) => CreationOK(r, i)
        /\ \A r \in UnderWay : Deletes(r, i) => DeletionOK(r, i)
        /\ Complete(i)
    BY DEF ChannelInv, ChannelsFollow
  <2>2. \A r \in UnderWay : Creates(r, i) => CreationOK(r, i)'
    BY <1>1, <1>2, <1>7, <2>1 DEF OthersStay, CreationOK
  <2>3. \A r \in UnderWay : Deletes(r, i) => DeletionOK(r, i)'
    BY <1>1, <1>2, <1>7, <2>1 DEF OthersStay, DeletionOK
  <2>4. \A r \in UnderWay : WillArchive(r, i) => WillArchive(r, i)'
    BY <1>1, <1>7 DEF OthersStay, Deletes, WillArchive
  <2>5. QED
    BY <1>1, <1>2, <1>8, <2>1, <2>2, <2>3, <2>4 DEF Complete
<1>11. /\ \A r \in UnderWay : Creates(r, new)' => CreationOK(r, new)'
       /\ \A r \in UnderWay : Deletes(r, new)' => DeletionOK(r, new)'
       /\ Complete(new)'
  <2>1. Creates(s, new)' /\ ~Deletes(s, new)' /\ CreationOK(s, new)'
    BY <1>1, <1>2 DEF Creates, Deletes, CreationOK
  <2>2. QED
    BY <1>1, <1>6, <2>1 DEF Complete
<1>12. QED
  BY <1>1, <1>2, <1>3, <1>5, <1>8, <1>9, <1>10, <1>11 DEF ChannelInv, ChannelsFollow

(* The only chain that creates the issue gives it its channel. *)
LEMMA ServeChannelKeeps ==
  ASSUME ChannelInv, NEW s \in UnderWay, chain[s].answer = "none", ServeChannel(s)
  PROVE  ChannelInv'
<1> DEFINE id == chain[s].id
<1>1. /\ UnderWay' = UnderWay /\ OthersStay(s) /\ IsCall(chain'[s])
      /\ chain[s].call = "channel" /\ chain'[s].call = "channel"
      /\ chain'[s].answer = "ok" /\ chain'[s].id = id
  BY CallAnswered DEF ServeChannel, ChannelInv, CallsOK, Answers
<1>2. /\ Stored' = Stored /\ id \in Stored /\ issue' = issue /\ spoilt' = spoilt
      /\ live' \in [Stored -> Nat] /\ live'[id] = live[id] + 1
      /\ \A i \in Stored \ {id} : live'[i] = live[i]
  BY <1>1 DEF ServeChannel, Stored, ChannelInv, CallsOK, StoredOK
<1>3. CallsOK' /\ StoredOK'
  BY <1>1, <1>2 DEF ChannelInv, CallsOK, StoredOK, OthersStay
<1>4. \A i \in Stored : \A r \in UnderWay : /\ Creates(r, i)' <=> Creates(r, i)
                                            /\ Deletes(r, i)' <=> Deletes(r, i)
  BY <1>1 DEF OthersStay, Creates, Deletes
<1>5. OneCreation'
  BY <1>1, <1>2, <1>4 DEF ChannelInv, OneCreation
<1>6. Creates(s, id) /\ ~Deletes(s, id)
  BY <1>1 DEF Creates, Deletes
<1>7. ASSUME NEW i \in Stored \ spoilt
      PROVE  /\ \A r \in UnderWay : Creates(r, i) => CreationOK(r, i)'
             /\ \A r \in UnderWay : Deletes(r, i) => DeletionOK(r, i)'
             /\ Complete(i)'
  <2>1. /\ \A r \in UnderWay : Creates(r, i) => CreationOK(r, i)
        /\ \A r \in UnderWay : Deletes(r, i) => DeletionOK(r, i)
        /\ Complete(i)
    BY DEF ChannelInv, ChannelsFollow
  <2>2. CASE i = id
    <3>1. ~issue[i].deleted /\ live[i] = 0
      BY <1>1, <1>6, <2>1, <2>2 DEF CreationOK
    <3>2. CreationOK(s, i)'
      BY <1>1, <1>2, <2>2, <3>1 DEF CreationOK
    <3>3. \A r \in UnderWay : Creates(r, i) => r = s
      BY <1>2, <1>6, <2>2 DEF ChannelInv, OneCreation
    <3>4. \A r \in UnderWay : Deletes(r, i) => DeletionOK(r, i)'
      BY <1>1, <1>2, <1>6, <2>1, <2>2, <3>1 DEF OthersStay, DeletionOK
    <3>5. QED
      BY <1>1, <1>2, <1>4, <1>6, <2>2, <3>2, <3>3, <3>4 DEF Complete
  <2>3. CASE i # id
    <3>1. \A r \in UnderWay : Creates(r, i) => CreationOK(r, i)'
      BY <1>1, <1>2, <2>1, <2>3 DEF OthersStay, Creates, CreationOK
    <3>2. \A r \in UnderWay : Deletes(r, i) => DeletionOK(r, i)'
      BY <1>1, <1>2, <2>1, <2>3 DEF OthersStay, Deletes, DeletionOK
    <3>3. \A r \in UnderWay : WillArchive(r, i) => WillArchive(r, i)'
      BY <1>1, <2>3 DEF OthersStay, Deletes, WillArchive
    <3>4. QED
      BY <1>1, <1>2, <1>4, <2>1, <2>3, <3>1, <3>2, <3>3 DEF Complete
  <2>4. QED
    BY <2>2, <2>3
<1>8. QED
  BY <1>1, <1>2, <1>3, <1>4, <1>5, <1>7 DEF ChannelInv, ChannelsFollow

(* Nobody is creating the issue any more, or it is spoilt; and the chain   *)
(* goes on to archive its channel.                                         *)
LEMMA ServeDeleteKeeps ==
  ASSUME ChannelInv, NEW s \in UnderWay, chain[s].answer = "none", ServeDelete(s)
  PROVE  ChannelInv'
<1> DEFINE id == chain[s].id
<1>1. /\ UnderWay' = UnderWay /\ OthersStay(s) /\ IsCall(chain'[s])
      /\ chain[s].call = "delete" /\ chain'[s].call = "delete"
      /\ chain'[s].answer = "ok" /\ chain'[s].id = id
  BY CallAnswered DEF ServeDelete, ChannelInv, CallsOK, Answers
<1>2. /\ Stored' = Stored /\ id \in Stored /\ live' = live /\ spoilt \subseteq spoilt'
      /\ DOMAIN issue'[id] = DOMAIN issue[id] /\ issue'[id].deleted = TRUE
      /\ \A i \in Stored \ {id} : issue'[i] = issue[i]
  <2>1. id \in Stored
    BY <1>1 DEF ChannelInv, CallsOK
  <2>2. "deleted" \in DOMAIN issue[id]
    BY <2>1 DEF ChannelInv, StoredOK
  <2>3. QED
    BY <2>1, <2>2 DEF ServeDelete, Stored
<1>3. CallsOK' /\ StoredOK'
  <2>1. CallsOK'
    BY <1>1, <1>2 DEF ChannelInv, CallsOK, OthersStay
  <2>2. \A i \in Stored : /\ DOMAIN issue'[i] = DOMAIN issue[i]
                         /\ issue'[i].deleted \in BOOLEAN
    BY <1>2 DEF ChannelInv, StoredOK
  <2>3. QED
    BY <1>2, <2>1, <2>2 DEF ChannelInv, StoredOK
<1>4. \A i \in Stored : \A r \in UnderWay : /\ Creates(r, i)' <=> Creates(r, i)
                                            /\ Deletes(r, i)' <=> Deletes(r, i)
  BY <1>1 DEF OthersStay, Creates, Deletes
<1>5. OneCreation'
  BY <1>1, <1>2, <1>4 DEF ChannelInv, OneCreation
<1>6. ~Creates(s, id) /\ WillArchive(s, id)' /\ Deletes(s, id)
  BY <1>1 DEF Creates, Deletes, WillArchive
<1>7. ASSUME NEW i \in Stored \ spoilt'
      PROVE  /\ \A r \in UnderWay : Creates(r, i) => CreationOK(r, i)'
             /\ \A r \in UnderWay : Deletes(r, i) => DeletionOK(r, i)'
             /\ Complete(i)'
  <2>1. /\ \A r \in UnderWay : Creates(r, i) => CreationOK(r, i)
        /\ \A r \in UnderWay : Deletes(r, i) => DeletionOK(r, i)
        /\ Complete(i)
    BY <1>2 DEF ChannelInv, ChannelsFollow
  <2>2. CASE i = id
    <3>1. \A r \in UnderWay : ~Creates(r, i)
      BY <2>2 DEF ServeDelete, Creates
    <3>2. \A r \in UnderWay : Deletes(r, i) => DeletionOK(r, i)'
      BY <1>1, <1>2, <2>1, <2>2 DEF OthersStay, DeletionOK
    <3>3. QED
      BY <1>1, <1>2, <1>6, <2>2, <3>1, <3>2 DEF Complete
  <2>3. CASE i # id
    <3>1. \A r \in UnderWay : Creates(r, i) => CreationOK(r, i)'
      BY <1>1, <1>2, <2>1, <2>3 DEF OthersStay, Creates, CreationOK
    <3>2. \A r \in UnderWay : Deletes(r, i) => DeletionOK(r, i)'
      BY <1>1, <1>2, <2>1, <2>3 DEF OthersStay, Deletes, DeletionOK
    <3>3. \A r \in UnderWay : WillArchive(r, i) => WillArchive(r, i)'
      BY <1>1, <2>3 DEF OthersStay, Deletes, WillArchive
    <3>4. QED
      BY <1>1, <1>2, <1>4, <2>1, <2>3, <3>1, <3>2, <3>3 DEF Complete
  <2>4. QED
    BY <2>2, <2>3
<1>8. QED
  BY <1>1, <1>2, <1>3, <1>4, <1>5, <1>7 DEF ChannelInv, ChannelsFollow

(* The issue is deleted by then, so that nobody is creating it. *)
LEMMA ServeArchiveKeeps ==
  ASSUME ChannelInv, NEW s \in UnderWay, chain[s].answer = "none", ServeArchive(s)
  PROVE  ChannelInv'
<1> DEFINE id == chain[s].id
<1>1. /\ UnderWay' = UnderWay /\ OthersStay(s) /\ IsCall(chain'[s])
      /\ chain[s].call = "archive" /\ chain'[s].call = "archive"
      /\ chain'[s].answer = "ok" /\ chain'[s].id = id
  BY CallAnswered DEF ServeArchive, ChannelInv, CallsOK, Answers
<1>2. /\ Stored' = Stored /\ id \in Stored /\ issue' = issue /\ spoilt' = spoilt
      /\ live' \in [Stored -> Nat] /\ live'[id] = 0
      /\ \A i \in Stored \ {id} : live'[i] = live[i]
  BY <1>1 DEF ServeArchive, Stored, ChannelInv, CallsOK, StoredOK
<1>3. CallsOK' /\ StoredOK'
  BY <1>1, <1>2 DEF ChannelInv, CallsOK, StoredOK, OthersStay
<1>4. \A i \in Stored : \A r \in UnderWay : /\ Creates(r, i)' <=> Creates(r, i)
                                            /\ Deletes(r, i)' <=> Deletes(r, i)
  BY <1>1 DEF OthersStay, Creates, Deletes
<1>5. OneCreation'
  BY <1>1, <1>2, <1>4 DEF ChannelInv, OneCreation
<1>6. ~Creates(s, id) /\ Deletes(s, id)
  BY <1>1 DEF Creates, Deletes
<1>7. ASSUME NEW i \in Stored \ spoilt
      PROVE  /\ \A r \in UnderWay : Creates(r, i) => CreationOK(r, i)'
             /\ \A r \in UnderWay : Deletes(r, i) => DeletionOK(r, i)'
             /\ Complete(i)'
  <2>1. /\ \A r \in UnderWay : Creates(r, i) => CreationOK(r, i)
        /\ \A r \in UnderWay : Deletes(r, i) => DeletionOK(r, i)
        /\ Complete(i)
    BY DEF ChannelInv, ChannelsFollow
  <2>2. CASE i = id
    <3>1. issue[i].deleted
      BY <1>1, <1>6, <2>1, <2>2 DEF DeletionOK
    <3>2. \A r \in UnderWay : ~Creates(r, i)
      BY <2>1, <3>1 DEF CreationOK
    <3>3. \A r \in UnderWay : Deletes(r, i) => DeletionOK(r, i)'
      BY <1>1, <1>2, <2>1, <2>2, <3>1 DEF OthersStay, DeletionOK
    <3>4. QED
      BY <1>1, <1>2, <2>2, <3>1, <3>2, <3>3 DEF Complete
  <2>3. CASE i # id
    <3>1. \A r \in UnderWay : Creates(r, i) => CreationOK(r, i)'
      BY <1>1, <1>2, <2>1, <2>3 DEF OthersStay, Creates, CreationOK
    <3>2. \A r \in UnderWay : Deletes(r, i) => DeletionOK(r, i)'
      BY <1>1, <1>2, <2>1, <2>3 DEF OthersStay, Deletes, DeletionOK
    <3>3. \A r \in UnderWay : WillArchive(r, i) => WillArchive(r, i)'
      BY <1>1, <2>3 DEF OthersStay, Deletes, WillArchive
    <3>4. QED
      BY <1>1, <1>2, <1>4, <2>1, <2>3, <3>1, <3>2, <3>3 DEF Complete
  <2>4. QED
    BY <2>2, <2>3
<1>8. QED
  BY <1>1, <1>2, <1>3, <1>4, <1>5, <1>7 DEF ChannelInv, ChannelsFollow

(* Any call that is served, refused or fails. *)
LEMMA ServeKeeps ==
  ASSUME ChannelInv, NEW s \in UnderWay, chain[s].answer = "none", Serve(s)
  PROVE  ChannelInv'
<1>1. /\ Stored \subseteq IssueIDs /\ chain[s].call \in Calls
      /\ chain[s].call = "save" => chain[s].id \notin Stored
  BY IssueWizardAssumption DEF ChannelInv, StoredOK, CallsOK, IsCall
<1>2. CASE ServeRefused(s)
  BY <1>1, <1>2, AnswerKeeps DEF ServeRefused, Stored
<1>3. CASE ServeUpdate(s)
  <2>1. /\ DOMAIN issue' = Stored
        /\ \A i \in Stored : /\ DOMAIN issue'[i] = DOMAIN issue[i]
                             /\ issue'[i].deleted = issue[i].deleted
    <3>1. "deleted" \notin Parts
      BY DEF Parts, emptyWizardData
    <3>2. \A i \in Stored : "deleted" \in DOMAIN issue[i]
      BY DEF ChannelInv, StoredOK
    <3>3. \A i \in Stored :
            issue'[i] = IF i = chain[s].id
                        THEN [p \in DOMAIN issue[i] |->
                                IF p \in Parts THEN chain[s].sent[p] ELSE issue[i][p]]
                        ELSE issue[i]
      BY <1>3 DEF ServeUpdate, Stored
    <3>4. QED
      BY <1>3, <3>1, <3>2, <3>3 DEF ServeUpdate, Stored
  <2>2. QED
    BY <1>3, <2>1, AnswerKeeps DEF ServeUpdate
<1>4. CASE ServeFails(s)
  <2>1. /\ UNCHANGED <<issue, live>> /\ spoilt \subseteq spoilt'
        /\ chain[s].call # "update" /\ chain[s].id \in Stored => chain[s].id \in spoilt'
    BY <1>1, <1>4 DEF ServeFails, Spoil
  <2>2. PICK answer \in {"ok", "error"} :
          /\ AnswerWith(s, answer, chain[s].id)
          /\ chain[s].call = "save" => answer = "error"
    BY <1>4 DEF ServeFails
  <2>3. QED
    BY <2>1, <2>2, AnswerKeeps DEF Stored
<1>5. QED
  BY <1>2, <1>3, <1>4, ServeSaveKeeps, ServeChannelKeeps, ServeDeleteKeeps, ServeArchiveKeeps
  DEF Serve

------------------------------------------------------------------------------
(* The invariant implies the property: without a chain nothing is under    *)
(* way.                                                                    *)
LEMMA ChannelInvSuffices == ChannelInv => AChannelPerIssue
  BY DEF ChannelInv, ChannelsFollow, Complete, Creates, Deletes, WillArchive, AChannelPerIssue

(* The issue of the initial state has its channel. *)
LEMMA ChannelInit == Init => ChannelInv
<1> SUFFICES ASSUME Init PROVE ChannelInv
  OBVIOUS
<1>1. PICK id \in IssueIDs, n \in Names, t \in Texts :
        /\ issue = [i \in {id} |->
             [name |-> n, objectives |-> t, outcomes |-> <<t>>, roles |-> <<t>>,
              elements |-> Elements, attachments |-> <<t>>, deleted |-> FALSE]]
        /\ live = [i \in {id} |-> 1]
  BY DEF Init
<1>2. UnderWay = {} /\ Stored = {id} /\ issue[id].deleted = FALSE /\ live[id] = 1
  BY <1>1 DEF Init, UnderWay, Stored
<1>3. DOMAIN issue[id] = Parts \cup {"deleted"}
  BY <1>1 DEF Parts, emptyWizardData
<1>4. live \in [Stored -> Nat]
  BY <1>1, <1>2
<1>5. QED
  BY <1>2, <1>3, <1>4
  DEF ChannelInv, CallsOK, StoredOK, OneCreation, ChannelsFollow, Complete

(* Every step keeps it. *)
LEMMA ChannelStep == ChannelInv /\ [Next]_vars => ChannelInv'
<1> SUFFICES ASSUME ChannelInv, [Next]_vars PROVE ChannelInv'
  OBVIOUS
<1>1. CASE UNCHANGED <<issue, live, chain, spoilt>>
  <2>1. UnderWay' = UnderWay /\ Stored' = Stored
    BY <1>1 DEF UnderWay, Stored
  <2>2. /\ CallsOK' <=> CallsOK
        /\ StoredOK' <=> StoredOK
        /\ OneCreation' <=> OneCreation
    BY <1>1, <2>1 DEF CallsOK, StoredOK, OneCreation, Creates
  <2>3. \A i \in Stored : \A r \in UnderWay :
          /\ Creates(r, i)' <=> Creates(r, i)
          /\ CreationOK(r, i)' <=> CreationOK(r, i)
          /\ Deletes(r, i)' <=> Deletes(r, i)
          /\ DeletionOK(r, i)' <=> DeletionOK(r, i)
          /\ WillArchive(r, i)' <=> WillArchive(r, i)
    BY <1>1 DEF Creates, CreationOK, Deletes, DeletionOK, WillArchive
  <2>4. ChannelsFollow' <=> ChannelsFollow
    BY <1>1, <2>1, <2>3 DEF ChannelsFollow, Complete
  <2>5. QED
    BY <2>2, <2>4 DEF ChannelInv
<1>2. ASSUME NEW u \in Users, NEW s \in Slots, handleOk(u, s) \/ onDelete(u, s),
             UNCHANGED <<issue, live, spoilt>>
      PROVE  ChannelInv'
  <2>1. CASE UNCHANGED chain
    BY <1>1, <1>2, <2>1
  <2>2. ASSUME ~UNCHANGED chain
        PROVE  /\ s \notin UnderWay
               /\ \/ chain' = Put(s, Call(u, "save", Away))
                  \/ chain' = Put(s, Call(u, "update", user[u].page))
                  \/ /\ user[u].page \in Stored
                     /\ chain' = Put(s, Call(u, "delete", user[u].page))
    BY <1>2, <2>2 DEF handleOk, onDelete
  <2>3. QED
    BY <1>2, <2>1, <2>2, StartKeeps
<1>3. QED
  BY <1>1, <1>2, ServeKeeps, ReceiveKeeps DEF Next, vars

(* Every issue has one channel that is not archived, and a deleted one     *)
(* none, when its chains are over: for any users, names and issues and any *)
(* number of creations, updates and deletions that overlap, are repeated   *)
(* or fail, but for the issues that are spoilt.                            *)
THEOREM AChannelPerIssueTheorem == Spec => []AChannelPerIssue
<1>1. QED
  BY ChannelInit, ChannelStep, ChannelInvSuffices, PTL DEF Spec

------------------------------------------------------------------------------
(* The data of the wizards. *)

WizardFields ==
  {"page", "visit", "edits", "visible", "options", "prefill", "data",
   "current", "local", "touched"}

Lists == {"outcomes", "roles", "attachments"}
Items == Texts \cup {Blank}

DataOK(d) == DOMAIN d = Parts /\ \A p \in Lists : d[p] \in Seq(Items)

(* Nothing is left for Submitted to drop. *)
NoBlanks(d) == Filled(d.outcomes) = d.outcomes /\ Filled(d.attachments) = d.attachments

(* The parts that are not in touched are those of the data prefill. *)
AsPrefilled(d, touched, prefill) ==
  \A p \in Parts \ touched : d[p] = refreshWizardData(prefill, TRUE)[p]

WizardShape(w) ==
  /\ DOMAIN w = WizardFields /\ w.current \in 1 .. 5
  /\ DataOK(w.data) /\ DataOK(w.prefill) /\ NoBlanks(w.prefill)
  /\ w.current \in {2, 3, 5} => w.local \in Seq(Items)

WizardOK(w) ==
  WizardShape(w) /\ (w.options => AsPrefilled(w.data, w.touched, w.prefill))

(* What a call update sends is what the wizard was filled with, but for    *)
(* the parts that were edited. *)
SentOK(c) ==
  /\ DataOK(c.sent) /\ NoBlanks(c.sent) /\ c.untouched \subseteq Parts
  /\ \A p \in c.untouched : c.sent[p] = refreshWizardData(c.prefill, TRUE)[p]

IssueOK(i) == (\A p \in Lists : issue[i][p] \in Seq(Items)) /\ NoBlanks(issue[i])

WizardsOK ==
  /\ DOMAIN user = Users
  /\ \A u \in Users : WizardOK(user[u]) /\ user[u].page \in Stored \cup {Away, Ecosystem}

SubmissionsOK ==
  \A s \in UnderWay : /\ SentOK(chain[s])
                      /\ chain[s].call = "update" => chain[s].id \in Stored

WizardInv == WizardsOK /\ SubmissionsOK /\ \A i \in Stored : IssueOK(i)

(* The names of the parts. *)
LEMMA PartNames ==
  /\ Parts = {"name", "objectives", "outcomes", "roles", "elements", "attachments"}
  /\ Lists \subseteq Parts
  /\ \A k \in 1 .. 5 : getSteps[k] \in Parts
  /\ getSteps[1] = "objectives" /\ getSteps[2] = "outcomes" /\ getSteps[3] = "roles"
  /\ getSteps[4] = "elements" /\ getSteps[5] = "attachments"
<1>1. Parts = {"name", "objectives", "outcomes", "roles", "elements", "attachments"}
  BY DEF Parts, emptyWizardData
<1>2. /\ getSteps[1] = "objectives" /\ getSteps[2] = "outcomes" /\ getSteps[3] = "roles"
      /\ getSteps[4] = "elements" /\ getSteps[5] = "attachments"
  BY DEF getSteps
<1>3. \A k \in 1 .. 5 : k = 1 \/ k = 2 \/ k = 3 \/ k = 4 \/ k = 5
  OBVIOUS
<1>4. QED
  BY <1>1, <1>2, <1>3 DEF Lists

(* The data of a wizard without an issue. *)
LEMMA EmptyOK == DataOK(emptyWizardData) /\ NoBlanks(emptyWizardData)
<1>1. /\ emptyWizardData.outcomes = <<>> /\ emptyWizardData.roles = <<>>
      /\ emptyWizardData.attachments = <<>> /\ <<>> \in Seq(Items)
  BY DEF emptyWizardData
<1>2. QED
  BY <1>1, WithoutEmpty DEF DataOK, NoBlanks, Filled, Parts, Lists

(* Blank items are dropped once. *)
LEMMA FilledOnce ==
  ASSUME NEW items \in Seq(Items)
  PROVE  /\ Filled(items) \in Seq(Items) /\ Filled(Filled(items)) = Filled(items)
         /\ Filled(Append(items, Blank)) = Filled(items)
         /\ Append(items, Blank) \in Seq(Items)
<1>1. Blank \in Items
  BY DEF Items
<1>2. QED
  BY <1>1, WithoutType, WithoutAppend DEF Filled

(* What is sent has no blank items. *)
LEMMA SubmittedOK ==
  ASSUME NEW d, DataOK(d)
  PROVE  /\ DataOK(Submitted(d)) /\ NoBlanks(Submitted(d))
         /\ Submitted(d).outcomes = Filled(d.outcomes)
         /\ Submitted(d).attachments = Filled(d.attachments)
         /\ \A p \in Parts \ {"outcomes", "attachments"} : Submitted(d)[p] = d[p]
<1>1. /\ DOMAIN Submitted(d) = Parts
      /\ Submitted(d).outcomes = Filled(d.outcomes)
      /\ Submitted(d).attachments = Filled(d.attachments)
      /\ \A p \in Parts \ {"outcomes", "attachments"} : Submitted(d)[p] = d[p]
  BY PartNames DEF Submitted, DataOK
<1>2. \A p \in Lists : Submitted(d)[p] \in Seq(Items)
  BY <1>1, FilledOnce, PartNames DEF DataOK, Lists
<1>3. NoBlanks(Submitted(d))
  BY <1>1, FilledOnce DEF NoBlanks, DataOK, Lists
<1>4. QED
  BY <1>1, <1>2, <1>3 DEF DataOK

(* Data that is refreshed keeps its lists. *)
LEMMA RefreshedOK ==
  ASSUME NEW d, DataOK(d), NEW options
  PROVE  /\ DataOK(refreshWizardData(d, options))
         /\ \A p \in Parts \ {"elements"} : refreshWizardData(d, TRUE)[p] = d[p]
<1> DEFINE e == [d EXCEPT !.elements = @ \cap Options]
<1>1. DOMAIN e = Parts /\ \A p \in Parts \ {"elements"} : e[p] = d[p]
  BY DEF DataOK
<1>2. DataOK(e)
  BY <1>1, PartNames DEF DataOK, Lists
<1>3. refreshWizardData(d, options) = e \/ refreshWizardData(d, options) = emptyWizardData
  BY DEF refreshWizardData
<1>4. refreshWizardData(d, TRUE) = e
  BY DEF refreshWizardData
<1>5. QED
  BY <1>1, <1>2, <1>3, <1>4, EmptyOK

(* The data of an issue that is stored. *)
LEMMA StoredDataOK ==
  ASSUME NEW i \in Stored, IssueOK(i)
  PROVE  DataOK(DataOf(i)) /\ NoBlanks(DataOf(i))
BY PartNames DEF IssueOK, DataOf, DataOK, NoBlanks, Lists

------------------------------------------------------------------------------
(* What becomes of a wizard. *)

(* The wizard v that w has become is well formed, is on no new page, and   *)
(* shows its data if w did.                                                *)
Follows(w, v) ==
  /\ WizardOK(v) /\ v.page \in {w.page, Away}
  /\ ShowsData(w) /\ v.options = w.options => ShowsData(v)

(* At the first step there is nothing to compare. *)
LEMMA FirstStepShows ==
  ASSUME NEW w, w.current = 1
  PROVE  ShowsData(w)
BY DEF ShowsData

(* A step that is shown anew has the data. *)
LEMMA SetCurrentOK ==
  ASSUME NEW w, WizardShape(w), NEW k \in 1 .. 5
  PROVE  LET v == setCurrent(w, k) IN
         /\ WizardShape(v)
         /\ v.data = w.data /\ v.touched = w.touched /\ v.prefill = w.prefill
         /\ v.options = w.options
         /\ v.page \in {w.page, Away}
         /\ k = 1 => v.current = 1 /\ v.page = w.page
         /\ ShowsData(w) => ShowsData(v)
<1> DEFINE v == setCurrent(w, k)
<1>1. CASE k = 4 /\ ~w.options
  <2>1. v = [w EXCEPT !.page = Away]
    BY <1>1 DEF setCurrent
  <2>2. /\ DOMAIN v = WizardFields /\ v.page = Away
        /\ \A f \in WizardFields \ {"page"} : v[f] = w[f]
    BY <2>1 DEF WizardShape, WizardFields
  <2> HIDE DEF v
  <2>3. /\ v.data = w.data /\ v.touched = w.touched /\ v.prefill = w.prefill
        /\ v.options = w.options /\ v.current = w.current /\ v.local = w.local
    BY <2>2 DEF WizardFields
  <2>4. WizardShape(v)
    BY <2>2, <2>3 DEF WizardShape
  <2>5. ShowsData(w) => ShowsData(v)
    BY <2>3 DEF ShowsData
  <2>6. QED
    BY <1>1, <2>2, <2>3, <2>4, <2>5 DEF v
<1>2. CASE ~(k = 4 /\ ~w.options) /\ k = w.current
  BY <1>2 DEF setCurrent
<1>3. CASE ~(k = 4 /\ ~w.options) /\ k # w.current
  <2> DEFINE local == IF k = 1 THEN <<>> ELSE w.data[getSteps[k]]
  <2>1. v = [w EXCEPT !.current = k, !.local = local]
    BY <1>3 DEF setCurrent
  <2> HIDE DEF local
  <2>2. /\ DOMAIN v = WizardFields /\ v.current = k /\ v.local = local
        /\ \A f \in WizardFields \ {"current", "local"} : v[f] = w[f]
    BY <2>1 DEF WizardShape, WizardFields
  <2> HIDE DEF v
  <2>3. /\ v.data = w.data /\ v.touched = w.touched /\ v.prefill = w.prefill
        /\ v.options = w.options /\ v.page = w.page
    BY <2>2 DEF WizardFields
  <2>4. k \in {2, 3, 5} => local \in Seq(Items)
    <3>1. k \in {2, 3, 5} => getSteps[k] \in Lists /\ k # 1
      BY PartNames DEF Lists
    <3>2. QED
      BY <3>1 DEF local, WizardShape, DataOK
  <2>5. WizardShape(v)
    BY <2>2, <2>3, <2>4 DEF WizardShape
  <2>6. ShowsData(v)
    BY <2>2, <2>3, PartNames DEF ShowsData, local
  <2>7. QED
    BY <2>2, <2>3, <2>5, <2>6 DEF v
<1>4. QED
  BY <1>1, <1>2, <1>3

(* A closed wizard has the data it was filled with, at its first step. *)
LEMMA CleanModalOK ==
  ASSUME NEW w, WizardShape(w)
  PROVE  LET v == cleanModal(w) IN
         WizardOK(v) /\ v.page = w.page /\ v.options = w.options /\ ShowsData(v)
<1> DEFINE first == setCurrent(w, 1)
           data == refreshWizardData(w.prefill, w.options)
           v == cleanModal(w)
<1>1. /\ WizardShape(first) /\ first.current = 1 /\ first.prefill = w.prefill
      /\ first.options = w.options /\ first.page = w.page
  BY SetCurrentOK
<1>2. DataOK(data)
  BY RefreshedOK DEF WizardShape
<1>3. v = [first EXCEPT !.visible = FALSE, !.touched = {}, !.data = data]
  BY DEF cleanModal
<1> HIDE DEF first, data
<1>4. /\ DOMAIN v = WizardFields /\ v.touched = {} /\ v.data = data
      /\ v.current = 1 /\ v.prefill = w.prefill
      /\ v.options = w.options /\ v.page = w.page
  BY <1>1, <1>3 DEF WizardShape, WizardFields
<1> HIDE DEF v
<1>5. WizardShape(v)
  BY <1>1, <1>2, <1>4 DEF WizardShape
<1>6. v.options => AsPrefilled(v.data, v.touched, v.prefill)
  BY <1>4 DEF AsPrefilled, data, refreshWizardData
<1>7. ShowsData(v)
  BY <1>4, FirstStepShows
<1>8. QED
  BY <1>4, <1>5, <1>6, <1>7 DEF WizardOK, v

(* A page that was opened. *)
LEMMA OpenedOK ==
  ASSUME NEW page, NEW prefill, DataOK(prefill), NoBlanks(prefill), NEW visit
  PROVE  LET v == Opened(page, prefill, visit) IN
         WizardOK(v) /\ v.page = page /\ ShowsData(v)
<1> DEFINE v == Opened(page, prefill, visit)
<1>1. /\ DOMAIN v = WizardFields /\ v.current = 1 /\ v.prefill = prefill
      /\ v.data = emptyWizardData /\ v.options = FALSE /\ v.page = page
  BY DEF Opened, WizardFields
<1> HIDE DEF v
<1>2. WizardOK(v)
  BY <1>1, EmptyOK DEF WizardOK, WizardShape
<1>3. QED
  BY <1>1, <1>2, FirstStepShows DEF v

------------------------------------------------------------------------------
(* What the users do to the wizards. *)

OnlyUser(u) == DOMAIN user' = Users /\ \A q \in Users \ {u} : user'[q] = user[q]

(* The wizard of one user changes. *)
LEMMA OneUser ==
  ASSUME WizardsOK, NEW u, NEW v, user' = [user EXCEPT ![u] = v]
  PROVE  OnlyUser(u) /\ (u \in Users => user'[u] = v)
BY DEF WizardsOK, OnlyUser

(* An edit changes a part of the data and what is shown of it. *)
LEMMA SetKeeps ==
  ASSUME WizardsOK, NEW u \in Users, NEW k \in 1 .. 5, NEW part \in Parts, NEW value,
         part \in Lists => value \in Seq(Items),
         k # 1 => part = getSteps[k],
         SetWizardData(u, k, part, value)
  PROVE  OnlyUser(u) /\ Follows(user[u], user'[u])
<1> DEFINE w == user[u]
           data == [w.data EXCEPT ![part] = value]
           touched == w.touched \cup {part}
           local == IF k = 1 THEN w.local ELSE value
           v == [w EXCEPT !.data[part] = value, !.touched = @ \cup {part},
                          !.edits = @ + 1, !.local = IF k = 1 THEN @ ELSE value]
<1>1. WizardOK(w) /\ w.current = k
  BY DEF WizardsOK, SetWizardData
<1>2. OnlyUser(u) /\ user'[u] = v
  <2>1. user' = [user EXCEPT ![u] = v]
    BY DEF SetWizardData
  <2> HIDE DEF v
  <2>2. QED
    BY <2>1, OneUser
<1>3. /\ DOMAIN v = WizardFields /\ v.data = data /\ v.touched = touched
      /\ v.local = local /\ v.current = k /\ v.prefill = w.prefill
      /\ v.options = w.options /\ v.page = w.page
  BY <1>1 DEF WizardOK, WizardShape, WizardFields
<1>4. /\ DataOK(data) /\ data[part] = value
      /\ \A p \in Parts \ {part} : data[p] = w.data[p]
  BY <1>1 DEF WizardOK, WizardShape, DataOK
<1> HIDE DEF v, data
<1>5. WizardShape(v)
  <2>1. k \in {2, 3, 5} => local \in Seq(Items)
    <3>1. k \in {2, 3, 5} => getSteps[k] \in Lists /\ k # 1
      BY PartNames DEF Lists
    <3>2. QED
      BY <3>1
  <2>2. QED
    BY <1>1, <1>3, <1>4, <2>1 DEF WizardOK, WizardShape
<1>6. v.options => AsPrefilled(v.data, v.touched, v.prefill)
  BY <1>1, <1>3, <1>4 DEF WizardOK, AsPrefilled
<1>7. ShowsData(v)
  BY <1>3, <1>4, PartNames DEF ShowsData
<1>8. QED
  BY <1>2, <1>3, <1>5, <1>6, <1>7 DEF Follows, WizardOK

(* The edits of a list leave a list. *)
LEMMA ListStepKeeps ==
  ASSUME WizardsOK, NEW u \in Users,
         OutcomesStep(u) \/ RolesStep(u) \/ AttachmentsStep(u)
  PROVE  OnlyUser(u) /\ Follows(user[u], user'[u])
<1> DEFINE items == user[u].local
<1>1. PICK k \in {2, 3, 5} :
        /\ user[u].current = k
        /\ \E i \in DOMAIN items :
             \/ \E t \in Texts \cup {Blank} :
                  SetWizardData(u, k, getSteps[k], [items EXCEPT ![i] = t])
             \/ SetWizardData(u, k, getSteps[k], RemovedText(i, items))
             \/ SetWizardData(u, k, getSteps[k], RemovedAt(i, items))
  BY DEF OutcomesStep, RolesStep, AttachmentsStep, ListStep
<1>2. PICK i \in DOMAIN items :
        \/ \E t \in Items : SetWizardData(u, k, getSteps[k], [items EXCEPT ![i] = t])
        \/ SetWizardData(u, k, getSteps[k], RemovedText(i, items))
        \/ SetWizardData(u, k, getSteps[k], RemovedAt(i, items))
  BY <1>1 DEF Items
<1>3. items \in Seq(Items)
  BY <1>1 DEF WizardsOK, WizardOK, WizardShape
<1>4. /\ k \in 1 .. 5 /\ getSteps[k] \in Parts
      /\ i \in 1 .. Len(items)
  BY <1>2, <1>3, PartNames
<1> HIDE DEF items
<1>5. ASSUME NEW t \in Items PROVE [items EXCEPT ![i] = t] \in Seq(Items)
  BY <1>3, <1>4
<1>6. RemovedText(i, items) \in Seq(Items)
  BY <1>3, WithoutType DEF RemovedText
<1>7. RemovedAt(i, items) \in Seq(Items)
  BY <1>3, <1>4 DEF RemovedAt
<1>8. PICK value \in Seq(Items) : SetWizardData(u, k, getSteps[k], value)
  BY <1>2, <1>5, <1>6, <1>7
<1>9. QED
  BY <1>4, <1>8, SetKeeps

(* The other edits. *)
LEMMA TextStepKeeps ==
  ASSUME WizardsOK, NEW u \in Users, ObjectivesStep(u) \/ TechnologyStep(u)
  PROVE  OnlyUser(u) /\ Follows(user[u], user'[u])
<1>1. CASE ObjectivesStep(u)
  <2>1. PICK part \in {"name", "objectives"} : \E value : SetWizardData(u, 1, part, value)
    BY <1>1 DEF ObjectivesStep
  <2>2. part \in Parts /\ part \notin Lists
    BY PartNames DEF Lists
  <2>3. QED
    BY <2>1, <2>2, SetKeeps
<1>2. CASE TechnologyStep(u)
  <2>1. PICK value : SetWizardData(u, 4, "elements", value)
    BY <1>2 DEF TechnologyStep
  <2>2. "elements" \in Parts /\ "elements" \notin Lists /\ "elements" = getSteps[4]
    BY PartNames DEF Lists
  <2>3. QED
    BY <2>1, <2>2, SetKeeps
<1>3. QED
  BY <1>1, <1>2

(* A blank item is shown and not sent. *)
LEMMA AddItemKeeps ==
  ASSUME WizardsOK, NEW u \in Users, AddItem(u)
  PROVE  OnlyUser(u) /\ Follows(user[u], user'[u])
<1> DEFINE w == user[u]
           v == [w EXCEPT !.local = Append(@, Blank)]
<1>1. WizardOK(w) /\ w.current \in {2, 3, 5} /\ w.local \in Seq(Items)
  BY DEF WizardsOK, WizardOK, WizardShape, AddItem
<1>2. OnlyUser(u) /\ user'[u] = v
  <2>1. user' = [user EXCEPT ![u] = v]
    BY DEF AddItem
  <2> HIDE DEF v
  <2>2. QED
    BY <2>1, OneUser
<1>3. /\ DOMAIN v = WizardFields /\ v.data = w.data /\ v.touched = w.touched
      /\ v.local = Append(w.local, Blank) /\ v.current = w.current
      /\ v.prefill = w.prefill /\ v.options = w.options /\ v.page = w.page
  BY <1>1 DEF WizardOK, WizardShape, WizardFields
<1> HIDE DEF v
<1>4. Filled(v.local) = Filled(w.local) /\ v.local \in Seq(Items)
  BY <1>1, <1>3, FilledOnce
<1>5. WizardOK(v)
  BY <1>1, <1>3, <1>4 DEF WizardOK, WizardShape
<1>6. ShowsData(w) => ShowsData(v)
  BY <1>1, <1>3, <1>4 DEF ShowsData
<1>7. QED
  BY <1>2, <1>3, <1>5, <1>6 DEF Follows

(* All wizards are well formed after a step, on pages there are, and show  *)
(* their data if they did.                                                 *)
Moved ==
  /\ DOMAIN user' = Users
  /\ \A u \in Users :
       /\ WizardOK(user'[u]) /\ user'[u].page \in Stored \cup {Away, Ecosystem}
       /\ ShowsData(user[u]) /\ user'[u].options = user[u].options => ShowsData(user'[u])

(* Nobody's wizard changes, or that of one user. *)
LEMMA MovedOne ==
  ASSUME WizardsOK, NEW u, OnlyUser(u), u \in Users => Follows(user[u], user'[u])
  PROVE  Moved
BY DEF WizardsOK, OnlyUser, Follows, Moved

(* Nobody's wizard changes. *)
LEMMA MovedNone ==
  ASSUME WizardsOK, UNCHANGED user
  PROVE  Moved
BY DEF WizardsOK, Moved

(* A user goes to a page. *)
LEMMA NavigateKeeps ==
  ASSUME WizardInv, NEW u, NEW page \in Stored \cup {Away, Ecosystem},
         user' = Navigate(u, page)
  PROVE  Moved
<1> DEFINE prefill == PrefillOf(page)
           v == Opened(page, prefill, user[u].visit + 1)
<1>1. DataOK(prefill) /\ NoBlanks(prefill)
  BY EmptyOK, StoredDataOK DEF PrefillOf, WizardInv
<1> HIDE DEF prefill
<1>2. WizardOK(v) /\ v.page = page /\ ShowsData(v)
  BY <1>1, OpenedOK
<1>3. CASE UNCHANGED user
  BY <1>3, MovedNone DEF WizardInv
<1>4. CASE user' = [user EXCEPT ![u] = v]
  <2> HIDE DEF v
  <2>1. OnlyUser(u) /\ (u \in Users => user'[u] = v)
    BY <1>4, OneUser DEF WizardInv
  <2>2. QED
    BY <1>2, <2>1 DEF WizardInv, WizardsOK, OnlyUser, Moved
<1>5. QED
  BY <1>3, <1>4 DEF Navigate, prefill

(* The elements of the organizations arrive. *)
LEMMA OrganizationsLoadedKeeps ==
  ASSUME WizardsOK, NEW u \in Users, OrganizationsLoaded(u)
  PROVE  OnlyUser(u) /\ Follows(user[u], user'[u])
<1> DEFINE w == user[u]
           data == refreshWizardData(w.prefill, TRUE)
           v == [w EXCEPT !.options = TRUE, !.touched = {}, !.data = data]
<1>1. WizardOK(w) /\ w.options # TRUE
  BY DEF WizardsOK, OrganizationsLoaded
<1>2. OnlyUser(u) /\ user'[u] = v
  <2>1. user' = [user EXCEPT ![u] = v]
    BY DEF OrganizationsLoaded
  <2> HIDE DEF v
  <2>2. QED
    BY <2>1, OneUser
<1>3. DataOK(data)
  BY <1>1, RefreshedOK DEF WizardOK, WizardShape
<1> HIDE DEF data
<1>4. /\ DOMAIN v = WizardFields /\ v.data = data /\ v.touched = {}
      /\ v.local = w.local /\ v.current = w.current /\ v.prefill = w.prefill
      /\ v.options = TRUE /\ v.page = w.page
  BY <1>1 DEF WizardOK, WizardShape, WizardFields
<1> HIDE DEF v
<1>5. WizardOK(v)
  BY <1>1, <1>3, <1>4 DEF WizardOK, WizardShape, AsPrefilled, data
<1>6. QED
  BY <1>1, <1>2, <1>4, <1>5 DEF Follows

(* The wizard of a page is shown. *)
LEMMA TriggerEditKeeps ==
  ASSUME WizardsOK, NEW u \in Users, triggerEdit(u)
  PROVE  OnlyUser(u) /\ Follows(user[u], user'[u])
<1> DEFINE w == user[u]
           v == [w EXCEPT !.visible = TRUE]
<1>1. WizardOK(w)
  BY DEF WizardsOK
<1>2. OnlyUser(u) /\ user'[u] = v
  <2>1. user' = [user EXCEPT ![u] = v]
    BY DEF triggerEdit
  <2> HIDE DEF v
  <2>2. QED
    BY <2>1, OneUser
<1>3. /\ DOMAIN v = WizardFields /\ v.data = w.data /\ v.touched = w.touched
      /\ v.local = w.local /\ v.current = w.current /\ v.prefill = w.prefill
      /\ v.options = w.options /\ v.page = w.page
  BY <1>1 DEF WizardOK, WizardShape, WizardFields
<1> HIDE DEF v
<1>4. WizardOK(v)
  BY <1>1, <1>3 DEF WizardOK, WizardShape
<1>5. ShowsData(w) => ShowsData(v)
  BY <1>3 DEF ShowsData
<1>6. QED
  BY <1>2, <1>3, <1>4, <1>5 DEF Follows

(* Another step is shown, or the first one again. *)
LEMMA SetCurrentKeeps ==
  ASSUME WizardsOK, NEW u, NEW k \in 1 .. 5,
         user' = [user EXCEPT ![u] = setCurrent(@, k)]
  PROVE  OnlyUser(u) /\ (u \in Users => Follows(user[u], user'[u]))
<1> DEFINE v == setCurrent(user[u], k)
<1>1. OnlyUser(u) /\ (u \in Users => user'[u] = v)
  <2>1. user' = [user EXCEPT ![u] = v]
    OBVIOUS
  <2> HIDE DEF v
  <2>2. QED
    BY <2>1, OneUser
<1>2. ASSUME u \in Users PROVE Follows(user[u], v)
  <2>1. WizardOK(user[u])
    BY <1>2 DEF WizardsOK
  <2>2. /\ WizardShape(v)
        /\ v.data = user[u].data /\ v.touched = user[u].touched
        /\ v.prefill = user[u].prefill /\ v.options = user[u].options
        /\ v.page \in {user[u].page, Away}
        /\ ShowsData(user[u]) => ShowsData(v)
    BY <2>1, SetCurrentOK DEF WizardOK
  <2> HIDE DEF v
  <2>3. QED
    BY <2>1, <2>2 DEF Follows, WizardOK
<1>3. QED
  BY <1>1, <1>2

(* A click on Cancel. *)
LEMMA CancelKeeps ==
  ASSUME WizardsOK, NEW u \in Users, handleCancel(u)
  PROVE  OnlyUser(u) /\ Follows(user[u], user'[u])
<1> DEFINE v == cleanModal(user[u])
<1>1. OnlyUser(u) /\ user'[u] = v
  <2>1. user' = [user EXCEPT ![u] = v]
    BY DEF handleCancel
  <2> HIDE DEF v
  <2>2. QED
    BY <2>1, OneUser
<1>2. WizardShape(user[u])
  BY DEF WizardsOK, WizardOK
<1>3. WizardOK(v) /\ v.page = user[u].page /\ v.options = user[u].options /\ ShowsData(v)
  BY <1>2, CleanModalOK
<1>4. QED
  BY <1>1, <1>3 DEF Follows

(* Whatever a user does on the pages and in the wizard. *)
LEMMA UserMoves ==
  ASSUME WizardInv, NEW u \in Users, Browse(u) \/ Wizard(u)
  PROVE  Moved
<1>1. CASE Browse(u)
  <2>1. ASSUME NEW page, Enter(u, page) PROVE Moved
    BY <2>1, NavigateKeeps DEF Enter
  <2>2. CASE Leave(u)
    BY <2>2, NavigateKeeps DEF Leave
  <2>3. CASE OrganizationsLoaded(u)
    BY <2>3, OrganizationsLoadedKeeps, MovedOne DEF WizardInv
  <2>4. QED
    BY <1>1, <2>1, <2>2, <2>3 DEF Browse
<1>2. CASE Wizard(u)
  <2>1. CASE triggerEdit(u)
    BY <2>1, TriggerEditKeeps, MovedOne DEF WizardInv
  <2>2. CASE handleCancel(u)
    BY <2>2, CancelKeeps, MovedOne DEF WizardInv
  <2>3. CASE AddItem(u)
    BY <2>3, AddItemKeeps, MovedOne DEF WizardInv
  <2>4. ASSUME NEW k, StepTo(u, k) PROVE Moved
    <3>1. k \in 1 .. 5 /\ user' = [user EXCEPT ![u] = setCurrent(@, k)]
      BY <2>4 DEF StepTo, getSteps
    <3>2. QED
      BY <3>1, SetCurrentKeeps, MovedOne DEF WizardInv
  <2>5. CASE ObjectivesStep(u) \/ TechnologyStep(u)
    BY <2>5, TextStepKeeps, MovedOne DEF WizardInv
  <2>6. CASE OutcomesStep(u) \/ RolesStep(u) \/ AttachmentsStep(u)
    BY <2>6, ListStepKeeps, MovedOne DEF WizardInv
  <2>7. QED
    BY <1>2, <2>1, <2>2, <2>3, <2>4, <2>5, <2>6 DEF Wizard
<1>3. QED
  BY <1>1, <1>2

(* A click on Create, Update or Delete leaves the wizard, or shows its     *)
(* first step. *)
LEMMA ClickMoves ==
  ASSUME WizardInv, NEW u \in Users, NEW s, handleOk(u, s) \/ onDelete(u, s)
  PROVE  Moved
<1>1. UNCHANGED user \/ user' = [user EXCEPT ![u] = setCurrent(@, 1)]
  BY DEF handleOk, onDelete
<1>2. QED
  BY <1>1, MovedNone, MovedOne, SetCurrentKeeps DEF WizardInv

(* An update that is answered closes the wizard that sent it, if that is   *)
(* still there. *)
LEMMA UpdatedMoves ==
  ASSUME WizardInv, NEW s \in UnderWay, Updated(s)
  PROVE  Moved
<1> DEFINE u == chain[s].user
           w == [user[u] EXCEPT !.prefill = chain[s].sent]
           v == cleanModal(w)
<1>1. UNCHANGED user \/ user' = [user EXCEPT ![u] = v]
  BY DEF Updated, WizardOf
<1>2. ASSUME u \in Users PROVE Follows(user[u], v)
  <2>1. WizardOK(user[u]) /\ SentOK(chain[s])
    BY <1>2 DEF WizardInv, WizardsOK, SubmissionsOK
  <2>2. /\ DOMAIN w = WizardFields /\ w.prefill = chain[s].sent
        /\ w.data = user[u].data /\ w.current = user[u].current
        /\ w.local = user[u].local /\ w.page = user[u].page
    BY <2>1 DEF WizardOK, WizardShape, WizardFields
  <2> HIDE DEF w
  <2>3. WizardShape(w)
    BY <2>1, <2>2 DEF WizardOK, WizardShape, SentOK
  <2>4. WizardOK(v) /\ v.page = w.page /\ ShowsData(v)
    BY <2>3, CleanModalOK
  <2> HIDE DEF v
  <2>5. QED
    BY <2>2, <2>4 DEF Follows
<1>3. CASE UNCHANGED user
  BY <1>3, MovedNone DEF WizardInv
<1>4. CASE user' = [user EXCEPT ![u] = v]
  <2> HIDE DEF v
  <2>1. OnlyUser(u) /\ (u \in Users => user'[u] = v)
    BY <1>4, OneUser DEF WizardInv
  <2>2. QED
    BY <1>2, <2>1, MovedOne DEF WizardInv
<1>5. QED
  BY <1>1, <1>3, <1>4

(* Whatever answer arrives. *)
LEMMA ReceiveMoves ==
  ASSUME WizardInv, CallsOK, NEW s \in UnderWay, Receive(s)
  PROVE  Moved
<1>1. CASE ChannelAdded(s)
  <2>1. chain[s].id \in Stored /\ user' = Navigate(chain[s].user, chain[s].id)
    BY <1>1 DEF ChannelAdded, CallsOK
  <2>2. QED
    BY <2>1, NavigateKeeps
<1>2. CASE Archived(s)
  BY <1>2, NavigateKeeps DEF Archived
<1>3. CASE Failed(s)
  <2> DEFINE u == chain[s].user
  <2>1. UNCHANGED user \/ user' = [user EXCEPT ![u] = setCurrent(@, 1)]
    BY <1>3 DEF Failed, WizardOf
  <2>2. QED
    BY <2>1, MovedNone, MovedOne, SetCurrentKeeps DEF WizardInv
<1>4. CASE Saved(s) \/ Deleted(s) \/ Lost(s)
  BY <1>4, MovedNone DEF Saved, Deleted, Lost, WizardInv
<1>5. QED
  BY <1>1, <1>2, <1>3, <1>4, UpdatedMoves DEF Receive

(* Whatever happens. *)
LEMMA NextMoves ==
  ASSUME WizardInv, CallsOK, [Next]_vars
  PROVE  Moved
BY UserMoves, ClickMoves, ReceiveMoves, MovedNone DEF Next, vars, WizardInv

------------------------------------------------------------------------------
(* What the calls send, and what is stored. *)

(* What a call sends stays what it was, or is not needed any more. *)
LEMMA AnswerSends ==
  ASSUME NEW s \in UnderWay, IsCall(chain[s]), SentOK(chain[s]),
         NEW answer \in Answers, NEW id, AnswerWith(s, answer, id)
  PROVE  SentOK(chain'[s])
<1> DEFINE sent == IF chain[s].call = "update" THEN chain[s].sent ELSE emptyWizardData
           d == [chain[s] EXCEPT !.answer = answer, !.id = id, !.sent = sent,
                     !.prefill = emptyWizardData, !.untouched = {}]
<1> HIDE DEF sent
<1>1. d.sent = sent /\ d.untouched = {}
  BY DEF IsCall, CallFields
<1>2. chain' = Put(s, d)
  BY DEF AnswerWith, sent
<1> HIDE DEF d
<1>3. chain'[s] = d
  BY <1>2 DEF Put, UnderWay
<1>4. DataOK(sent) /\ NoBlanks(sent)
  BY EmptyOK DEF sent, SentOK
<1>5. QED
  BY <1>1, <1>3, <1>4 DEF SentOK

(* A call sends what is in the wizard that starts it. *)
LEMMA StartSends ==
  ASSUME WizardsOK, NEW u \in Users, NEW call, NEW id
  PROVE  SentOK(Call(u, call, id))
<1> DEFINE w == user[u]
           c == Call(u, call, id)
<1>1. WizardOK(w) /\ DataOK(w.data) /\ DataOK(w.prefill) /\ NoBlanks(w.prefill)
  BY DEF WizardsOK, WizardOK, WizardShape
<1>2. /\ c.sent = IF call = "delete" THEN emptyWizardData ELSE Submitted(w.data)
      /\ c.untouched = IF call = "update" /\ w.options THEN Parts \ w.touched ELSE {}
      /\ call = "update" => c.prefill = w.prefill
  BY DEF Call
<1> HIDE DEF c
<1>3. DataOK(c.sent) /\ NoBlanks(c.sent)
  BY <1>1, <1>2, SubmittedOK, EmptyOK
<1>4. ASSUME NEW p \in c.untouched
      PROVE  c.sent[p] = refreshWizardData(c.prefill, TRUE)[p]
  <2>1. /\ c.sent = Submitted(w.data) /\ c.prefill = w.prefill
        /\ w.data[p] = refreshWizardData(w.prefill, TRUE)[p] /\ p \in Parts
    BY <1>1, <1>2 DEF WizardOK, AsPrefilled
  <2>2. CASE p \notin {"outcomes", "attachments"}
    <3>1. Submitted(w.data)[p] = w.data[p]
      BY <1>1, <2>1, <2>2, SubmittedOK
    <3>2. QED
      BY <2>1, <3>1
  <2>3. CASE p \in {"outcomes", "attachments"}
    <3>1. c.sent[p] = Filled(w.data[p])
      BY <1>1, <2>1, <2>3, SubmittedOK
    <3>2. w.data[p] = w.prefill[p]
      BY <1>1, <2>1, <2>3, RefreshedOK
    <3>3. Filled(w.prefill[p]) = w.prefill[p]
      BY <1>1, <2>3 DEF NoBlanks
    <3>4. QED
      BY <2>1, <3>1, <3>2, <3>3
  <2>4. QED
    BY <2>2, <2>3
<1>5. QED
  BY <1>2, <1>3, <1>4 DEF SentOK, c

(* What is stored is what was sent. *)
LEMMA ServeStores ==
  ASSUME WizardInv, StoredOK, NEW s \in UnderWay, Serve(s)
  PROVE  Stored \subseteq Stored' /\ \A i \in Stored' : IssueOK(i)'
<1>1. SentOK(chain[s]) /\ \A i \in Stored : IssueOK(i)
  BY DEF WizardInv, SubmissionsOK
<1>2. CASE UNCHANGED issue
  BY <1>1, <1>2 DEF Stored, IssueOK
<1>3. ASSUME NEW new, ServeSave(s, new)
      PROVE  Stored \subseteq Stored' /\ \A i \in Stored' : IssueOK(i)'
  <2>1. /\ Stored' = Stored \cup {new} /\ new \notin Stored
        /\ \A i \in Stored : issue'[i] = issue[i]
        /\ \A p \in Parts \ {"deleted"} : issue'[new][p] = chain[s].sent[p]
    BY <1>3 DEF ServeSave, Stored
  <2>2. IssueOK(new)'
    BY <1>1, <2>1, PartNames DEF IssueOK, SentOK, DataOK, NoBlanks, Lists
  <2>3. \A i \in Stored : IssueOK(i)'
    BY <1>1, <2>1 DEF IssueOK
  <2>4. QED
    BY <2>1, <2>2, <2>3
<1>4. CASE ServeUpdate(s)
  <2>0. PICK id : id = chain[s].id
    OBVIOUS
  <2>1. id \in Stored /\ Parts \subseteq DOMAIN issue[id]
    BY <1>4, <2>0 DEF ServeUpdate, WizardInv, SubmissionsOK, StoredOK
  <2>2. /\ Stored' = Stored /\ \A i \in Stored \ {id} : issue'[i] = issue[i]
        /\ \A p \in Parts : issue'[id][p] = chain[s].sent[p]
    BY <1>4, <2>0, <2>1 DEF ServeUpdate, Stored
  <2>3. IssueOK(id)'
    BY <1>1, <2>2, PartNames DEF IssueOK, SentOK, DataOK, NoBlanks, Lists
  <2>4. \A i \in Stored \ {id} : IssueOK(i)'
    BY <1>1, <2>2 DEF IssueOK
  <2>5. QED
    BY <2>1, <2>2, <2>3, <2>4
<1>5. CASE ServeDelete(s)
  <2>1. /\ Stored' = Stored
        /\ \A i \in Stored : \A p \in Parts : issue'[i][p] = issue[i][p]
    BY <1>5, PartNames DEF ServeDelete, Stored
  <2>2. \A i \in Stored : IssueOK(i)'
    BY <1>1, <2>1, PartNames DEF IssueOK, NoBlanks, Lists
  <2>3. QED
    BY <2>1, <2>2
<1>6. QED
  BY <1>2, <1>3, <1>4, <1>5 DEF Serve, ServeRefused, ServeChannel, ServeArchive, ServeFails

(* The other chains send what they sent. *)
LEMMA OthersSend ==
  ASSUME SubmissionsOK, Stored \subseteq Stored', NEW s, OthersStay(s),
         UnderWay' \subseteq UnderWay \cup {s},
         s \in UnderWay' => /\ SentOK(chain'[s])
                            /\ chain'[s].call = "update" => chain'[s].id \in Stored'
  PROVE  SubmissionsOK'
<1>1. ASSUME NEW r \in UnderWay', r # s
      PROVE  SentOK(chain'[r]) /\ (chain'[r].call = "update" => chain'[r].id \in Stored')
  <2>1. r \in UnderWay /\ chain'[r] = chain[r]
    BY <1>1 DEF OthersStay
  <2>2. QED
    BY <2>1 DEF SubmissionsOK
<1>2. QED
  BY <1>1 DEF SubmissionsOK

(* A call that is answered. *)
LEMMA ServeSends ==
  ASSUME WizardInv, CallsOK, Stored \subseteq Stored', NEW s \in UnderWay, Serve(s)
  PROVE  SubmissionsOK'
<1>1. IsCall(chain[s]) /\ SentOK(chain[s])
      /\ (chain[s].call = "update" => chain[s].id \in Stored)
  BY DEF CallsOK, WizardInv, SubmissionsOK
<1>2. PICK answer \in Answers : \E id :
        AnswerWith(s, answer, id) /\ (chain[s].call = "update" => id = chain[s].id)
  BY DEF Serve, ServeSave, ServeRefused, ServeChannel, ServeUpdate, ServeDelete,
         ServeArchive, ServeFails, Answers
<1>3. PICK id : AnswerWith(s, answer, id) /\ (chain[s].call = "update" => id = chain[s].id)
  BY <1>2
<1>4. /\ UnderWay' = UnderWay /\ OthersStay(s)
      /\ chain'[s].call = chain[s].call /\ chain'[s].id = id
  BY <1>1, <1>3, CallAnswered
<1>5. SentOK(chain'[s])
  BY <1>1, <1>3, AnswerSends
<1>6. QED
  BY <1>1, <1>3, <1>4, <1>5, OthersSend DEF WizardInv

(* An answer that arrives. *)
LEMMA ReceiveSends ==
  ASSUME WizardInv, CallsOK, Stored \subseteq Stored', NEW s \in UnderWay, Receive(s)
  PROVE  SubmissionsOK'
<1>1. CASE chain' = Gone(s)
  BY <1>1, CallEnds, OthersSend DEF WizardInv
<1>2. ASSUME NEW call \in Calls, call # "update",
             chain' = Put(s, [chain[s] EXCEPT !.call = call, !.answer = "none"])
      PROVE  SubmissionsOK'
  <2> DEFINE d == [chain[s] EXCEPT !.call = call, !.answer = "none"]
  <2>1. IsCall(chain[s]) /\ SentOK(chain[s])
    BY DEF CallsOK, WizardInv, SubmissionsOK
  <2>2. /\ d.sent = chain[s].sent /\ d.untouched = chain[s].untouched
        /\ d.prefill = chain[s].prefill
    BY <2>1 DEF IsCall, CallFields
  <2>3. UnderWay' = UnderWay /\ OthersStay(s) /\ chain'[s].call = call
    BY <1>2, <2>1, CallFollows
  <2> HIDE DEF d
  <2>4. chain'[s] = d
    BY <1>2 DEF Put, UnderWay, d
  <2>5. SentOK(chain'[s])
    BY <2>1, <2>2, <2>4 DEF SentOK
  <2>6. QED
    BY <1>2, <2>3, <2>5, OthersSend DEF WizardInv
<1>3. QED
  BY <1>1, <1>2
  DEF Receive, Saved, ChannelAdded, Updated, Deleted, Archived, Failed, Lost, Calls

(* A chain that starts. *)
LEMMA ClickSends ==
  ASSUME WizardInv, Stored \subseteq Stored', NEW u \in Users, NEW s,
         handleOk(u, s) \/ onDelete(u, s)
  PROVE  SubmissionsOK'
<1>1. CASE UNCHANGED chain
  BY <1>1 DEF WizardInv, SubmissionsOK, UnderWay
<1>2. ASSUME ~UNCHANGED chain
      PROVE  SubmissionsOK'
  <2>1. PICK call \in Calls : \E id :
          /\ s \notin UnderWay /\ chain' = Put(s, Call(u, call, id))
          /\ call = "update" => id \in Stored
    <3>1. user[u].page \in Stored \cup {Away, Ecosystem}
      BY DEF WizardInv, WizardsOK
    <3>2. QED
      BY <1>2, <3>1 DEF handleOk, onDelete, Showing, Calls
  <2>2. PICK id : /\ s \notin UnderWay /\ chain' = Put(s, Call(u, call, id))
                  /\ call = "update" => id \in Stored
    BY <2>1
  <2>3. /\ UnderWay' = UnderWay \cup {s} /\ OthersStay(s)
        /\ chain'[s].call = call /\ chain'[s].id = id
    BY <2>2, CallStarts
  <2>4. chain'[s] = Call(u, call, id)
    BY <2>2 DEF Put
  <2>5. SentOK(chain'[s])
    BY <2>4, StartSends DEF WizardInv
  <2>6. QED
    BY <2>2, <2>3, <2>5, OthersSend DEF WizardInv
<1>3. QED
  BY <1>1, <1>2

(* The texts of the initial state are not blank. *)
LEMMA WizardInit == Init => WizardInv
<1> SUFFICES ASSUME Init PROVE WizardInv
  OBVIOUS
<1>1. PICK id \in IssueIDs, n \in Names, t \in Texts :
        issue = [i \in {id} |->
          [name |-> n, objectives |-> t, outcomes |-> <<t>>, roles |-> <<t>>,
           elements |-> Elements, attachments |-> <<t>>, deleted |-> FALSE]]
  BY DEF Init
<1>2. /\ Stored = {id} /\ issue[id].outcomes = <<t>> /\ issue[id].roles = <<t>>
      /\ issue[id].attachments = <<t>>
  BY <1>1 DEF Stored
<1>3. t \in Items /\ t # Blank /\ <<t>> \in Seq(Items)
  BY IssueWizardAssumption DEF Items
<1>4. Filled(<<t>>) = <<t>>
  <2>1. PICK none \in Seq(Items) : none = <<>>
    <3>1. <<>> \in Seq(Items)
      OBVIOUS
    <3>2. QED
      BY <3>1, Zenon
  <2>2. Without(Append(none, t), Blank) = Append(Without(none, Blank), t)
    BY <1>3, WithoutAppend
  <2>3. Append(none, t) = <<t>> /\ Without(none, Blank) = none
    BY <2>1, WithoutEmpty
  <2>4. QED
    BY <2>2, <2>3 DEF Filled
<1>5. \A i \in Stored : IssueOK(i)
  BY <1>2, <1>3, <1>4 DEF IssueOK, NoBlanks, Lists
<1>6. WizardsOK
  <2>1. user = [u \in Users |-> Opened(Away, emptyWizardData, 0)]
    BY DEF Init
  <2>2. WizardOK(Opened(Away, emptyWizardData, 0))
        /\ Opened(Away, emptyWizardData, 0).page = Away
    BY EmptyOK, OpenedOK
  <2>3. QED
    BY <2>1, <2>2 DEF WizardsOK
<1>7. SubmissionsOK
  BY DEF Init, SubmissionsOK, UnderWay
<1>8. QED
  BY <1>5, <1>6, <1>7 DEF WizardInv

(* Every step keeps the invariant. *)
LEMMA WizardStep ==
  ASSUME WizardInv, ChannelInv, [Next]_vars
  PROVE  WizardInv'
<1>1. CallsOK /\ StoredOK
  BY DEF ChannelInv
<1>2. Stored \subseteq Stored' /\ \A i \in Stored' : IssueOK(i)'
  <2>1. CASE UNCHANGED issue
    BY <2>1 DEF Stored, IssueOK, WizardInv
  <2>2. ASSUME NEW s \in UnderWay, Serve(s)
        PROVE  Stored \subseteq Stored' /\ \A i \in Stored' : IssueOK(i)'
    BY <1>1, <2>2, ServeStores
  <2>3. QED
    BY <2>1, <2>2 DEF Next, vars
<1>3. WizardsOK'
  BY <1>1, <1>2, NextMoves DEF Moved, WizardsOK
<1>4. SubmissionsOK'
  <2>1. CASE UNCHANGED chain
    BY <1>2, <2>1 DEF WizardInv, SubmissionsOK, UnderWay
  <2>2. QED
    BY <1>1, <1>2, <2>1, ServeSends, ReceiveSends, ClickSends DEF Next, vars
<1>5. QED
  BY <1>2, <1>3, <1>4 DEF WizardInv

(* A wizard on the screen stops showing what it will send in one case only,*)
(* when the organizations arrive late: for any texts, edits, answers and   *)
(* failures, late, cancelled or repeated.                                  *)
THEOREM WhatIsShownIsSentTheorem == Spec => WhatIsShownIsSent
<1>1. ChannelInv /\ WizardInv /\ [Next]_vars =>
        [\A u \in Users :
           LET w == user[u] IN
           ShowsData(w) /\ user'[u].options = w.options => ShowsData(user'[u])]_vars
  BY NextMoves DEF Moved, ChannelInv
<1>2. QED
  BY <1>1, ChannelInit, ChannelStep, WizardInit, WizardStep, PTL DEF Spec, WhatIsShownIsSent

(* The parts that the user has left alone are stored as the wizard was     *)
(* filled with them, for any texts, however often the wizard was edited,   *)
(* cancelled, refused or updated, and however late the update is served.   *)
THEOREM UntouchedPartsSurviveTheorem == Spec => UntouchedPartsSurvive
<1>1. ASSUME ChannelInv, WizardInv, NEW s \in UnderWay,
             chain[s].call = "update", ServeUpdate(s), NEW p \in chain[s].untouched
      PROVE  issue'[chain[s].id][p] = refreshWizardData(chain[s].prefill, TRUE)[p]
  <2>1. /\ chain[s].id \in Stored /\ p \in Parts
        /\ chain[s].sent[p] = refreshWizardData(chain[s].prefill, TRUE)[p]
    BY <1>1 DEF WizardInv, SubmissionsOK, SentOK
  <2>2. p \in DOMAIN issue[chain[s].id]
    BY <1>1, <2>1 DEF ChannelInv, StoredOK
  <2>3. issue'[chain[s].id][p] = chain[s].sent[p]
    BY <1>1, <2>1, <2>2 DEF ServeUpdate, Stored
  <2>4. QED
    BY <2>1, <2>3
<1>2. ChannelInv /\ WizardInv /\ [Next]_vars => [UntouchedPartsStay]_vars
  BY <1>1 DEF UntouchedPartsStay
<1>3. QED
  BY <1>2, ChannelInit, ChannelStep, WizardInit, WizardStep, PTL
  DEF Spec, UntouchedPartsSurvive
=============================================================================
