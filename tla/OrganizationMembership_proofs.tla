--------------------- MODULE OrganizationMembership_proofs ---------------------
(***************************************************************************)
(* Proofs about the choice of an organization, for any number of users,    *)
(* organizations, channels, requests in flight and failures.               *)
(*                                                                         *)
(* The channels follow the choice through three handlers that interleave:  *)
(* SetOrganizations lists the channels and joins or leaves them one by     *)
(* one, AddChannel reads the members once and adds them one by one, and    *)
(* the cleaning of the sidebar gives a channel an organization.  The       *)
(* invariant says what each of them still has to do, and that whoever is   *)
(* missed by one of them is known to be.                                   *)
(***************************************************************************)
EXTENDS OrganizationMembership, WellFoundedInduction, TLAPS

CallFields ==
  {"stage", "kind", "user", "org", "password", "name", "channel", "todo", "cats", "rows"}
ChannelFields == {"state", "named", "number", "public"}

(* What a handler may rely on. *)
CallOK(r) ==
  /\ DOMAIN r = CallFields
  /\ r.kind = "set" => r.user \in Users /\ r.org \in Selectable
  /\ r.stage \in {"user", "channels", "leaving"} => r.kind = "set"
  /\ r.stage = "joining" => r.kind = "added"
  /\ r.stage \in {"name", "create", "members", "adding"} =>
       /\ r.kind = "add" /\ r.org \in Organizations
       /\ DOMAIN r.name = ChannelFields
       /\ r.name.named \in Organizations \cup {NoOrg}
       /\ r.name.public => r.org = Ecosystem

(* A channel that is absent has no members and no row. *)
TablesOK ==
  /\ DOMAIN channel = ChannelIDs /\ DOMAIN row = ChannelIDs
  /\ DOMAIN members = ChannelIDs /\ DOMAIN orgId = Users
  /\ \A c \in ChannelIDs :
       /\ DOMAIN channel[c] = ChannelFields
       /\ channel[c].named \in Organizations \cup {NoOrg}
       /\ channel[c].state = "absent" => row[c] = NoRow /\ members[c] = {}

CallsOK == DOMAIN call = Calls /\ \A k \in Calls : CallOK(call[k])

Raced(u) == <<u, "raced">> \in spoilt
Missed(u, c) == <<u, c>> \in spoilt

OneChoice ==
  \A j, k \in Calls :
    /\ call[j].user = call[k].user /\ ~Raced(call[k].user)
    /\ {j, k} \subseteq Setting(call[k].user)
    => j = k

Ours(c) == channel[c].state = "open" /\ row[c] \in organizations
Implicit(c) == channel[c].state # "absent" /\ row[c] = NoOrg
Follows(u, org, c) == u \in members[c] <=> org \in {row[c], All}

(* Whoever is not choosing is in the right channels, and in those without  *)
(* an organization only with all of them.                                  *)
SettledFollow ==
  \A u \in Users \ Choosing : ~Raced(u) /\ orgId[u] # NoOrg =>
    \A c \in ChannelIDs : ~Missed(u, c) =>
      /\ Ours(c) => Follows(u, orgId[u], c)
      /\ Implicit(c) /\ channel[c].state = "open" => orgId[u] = All /\ u \in members[c]

(* Whoever is choosing is in the right channels but for those to be joined *)
(* or left.                                                                *)
ChoosersFollow ==
  \A k \in Calls : call[k].stage = "leaving" =>
    /\ \A x \in call[k].todo : x[1] \in ChannelIDs /\ row[x[1]] # NoRow
    /\ ~Raced(call[k].user) =>
         /\ \A x \in call[k].todo : x[2] = row[x[1]]
         /\ \A c \in ChannelIDs :
              /\ ~Implicit(c)
              /\ Ours(c) => <<c, row[c]>> \in call[k].todo \/ Follows(call[k].user, call[k].org, c)

(* A channel between its creation and its row. *)
Creating(k) == call[k].stage \in {"members", "adding"}

(* Its members and those to be added are those of the organization, but    *)
(* for users beyond the page; nobody chooses meanwhile unnoticed.          *)
CreationsFollow ==
  \A k \in Calls : Creating(k) =>
    LET c == call[k].channel IN
    /\ c \in ChannelIDs /\ channel[c].state # "absent" /\ row[c] = NoRow
    /\ channel[c].public => call[k].org = Ecosystem
    /\ call[k].stage = "members" /\ ~channel[c].public => members[c] = {}
    /\ call[k].stage = "adding" =>
         /\ \A u \in Choosing : Raced(u)
         /\ ~channel[c].public =>
              \A u \in Users : ~Raced(u) /\ ~Missed(u, c) /\ orgId[u] # NoOrg =>
                (u \in members[c] \cup call[k].todo <=> orgId[u] \in {call[k].org, All})

OneCreation ==
  \A j, k \in Calls : Creating(j) /\ Creating(k) /\ call[j].channel = call[k].channel => j = k

(* The public channels that everybody joins belong to no organization. *)
JoinersOK ==
  \A k \in Calls : call[k].stage = "joining" =>
    \A c \in call[k].todo :
      c \in ChannelIDs /\ channel[c].public /\ channel[c].state # "absent"
      /\ row[c] \in {NoRow, Ecosystem}

(* The channels a clean gives their organizations: another one may have    *)
(* given them the same.                                                    *)
Linkable(c) == c \in ChannelIDs /\ named[c] # NoOrg /\ row[c] \in {NoOrg, named[c]}
LinkersOK ==
  \A k \in Calls : call[k].stage = "linking" => \A c \in call[k].todo : Linkable(c)

MembersInv ==
  /\ TablesOK /\ CallsOK /\ OneChoice /\ SettledFollow
  /\ ChoosersFollow /\ CreationsFollow /\ OneCreation /\ JoinersOK /\ LinkersOK

------------------------------------------------------------------------------
(* Requests.                                                                *)

(* What a handler knows after a step: one that has ended leaves at most    *)
(* the answer to a choice.                                                 *)
LEMMA GoStage ==
  ASSUME CallsOK, NEW k \in Calls, NEW stage, NEW known, DOMAIN known = CallFields,
         Go(k, stage, known)
  PROVE  /\ DOMAIN call' = Calls
         /\ \A j \in Calls \ {k} : call'[j] = call[j]
         /\ DOMAIN call'[k] = CallFields
         /\ stage \in Ended /\ call[k].kind = "set" =>
              /\ call'[k].stage = stage
              /\ call'[k].kind = call[k].kind /\ call'[k].user = call[k].user
              /\ call'[k].org = call[k].org /\ call'[k].password = call[k].password
         /\ stage \in Ended /\ call[k].kind # "set" =>
              call'[k].stage = "idle" /\ call'[k].kind = "none"
         /\ stage \notin Ended => /\ call'[k].stage = stage
                                  /\ \A f \in CallFields \ {"stage"} : call'[k][f] = known[f]
<1> DEFINE ended == [Request("set", stage, call[k].user, call[k].org)
                       EXCEPT !.password = call[k].password]
           going == [known EXCEPT !.stage = stage]
<1>1. call' = [call EXCEPT ![k] =
        IF stage \in Ended THEN IF call[k].kind = "set" THEN ended ELSE Idle ELSE going]
  BY DEF Go, Answer
<1>2. /\ DOMAIN ended = CallFields /\ ended.stage = stage
      /\ ended.kind = "set" /\ ended.user = call[k].user
      /\ ended.org = call[k].org /\ ended.password = call[k].password
  BY DEF Request, Idle, CallFields
<1>3. /\ DOMAIN going = CallFields /\ going.stage = stage
      /\ \A f \in CallFields \ {"stage"} : going[f] = known[f]
  BY DEF CallFields
<1>4. DOMAIN Idle = CallFields /\ Idle.stage = "idle" /\ Idle.kind = "none"
  BY DEF Idle, CallFields
<1> HIDE DEF ended, going
<1>5. /\ DOMAIN call' = Calls
      /\ \A j \in Calls : call'[j] =
           IF j = k THEN IF stage \in Ended THEN IF call[k].kind = "set" THEN ended ELSE Idle
                         ELSE going
           ELSE call[j]
  BY <1>1 DEF CallsOK
<1>6. QED
  BY <1>2, <1>3, <1>4, <1>5

(* A step that leaves the channels alone, but for an organization of those *)
(* that had none, and that begins none of the loops but that of UserAdded. *)
LEMMA HarmlessKeeps ==
  ASSUME MembersInv, NEW k \in Calls,
         DOMAIN call' = Calls, \A j \in Calls \ {k} : call'[j] = call[j],
         CallOK(call'[k]),
         call'[k].stage \notin {"leaving", "members", "adding"},
         call'[k].stage = "joining" =>
           \A c \in call'[k].todo : c \in ChannelIDs /\ channel[c].public
                                    /\ channel[c].state # "absent" /\ row[c] \in {NoRow, Ecosystem},
         call[k].stage = "leaving" => <<call[k].user, "raced">> \in spoilt',
         spoilt \subseteq spoilt',
         call'[k].kind = "set" /\ call'[k].stage \notin Ended =>
           \/ call'[k].user = call[k].user /\ k \in Setting(call[k].user)
           \/ Setting(call'[k].user) # {} => <<call'[k].user, "raced">> \in spoilt',
         UNCHANGED <<channel, members, orgId>>,
         call'[k].stage = "linking" => \A c \in call'[k].todo : Linkable(c),
         DOMAIN row' = ChannelIDs,
         \A c \in ChannelIDs : row'[c] = row[c] \/ (row[c] = NoOrg /\ row'[c] = named[c])
  PROVE  MembersInv'
<1> USE OrganizationsAssumption
<1>0. /\ \A c \in ChannelIDs : named[c] \in Organizations \cup {NoOrg}
      /\ named' = named
  BY DEF MembersInv, TablesOK, named
<1>1. /\ TablesOK /\ CallsOK /\ OneChoice /\ SettledFollow
      /\ ChoosersFollow /\ CreationsFollow /\ OneCreation /\ JoinersOK /\ LinkersOK
  BY DEF MembersInv
<1>2. \A u : ~Raced(u)' => ~Raced(u)
  BY DEF Raced
<1>3. TablesOK'
  BY <1>1 DEF TablesOK
<1>4. CallsOK'
  BY <1>1 DEF CallsOK
<1>5. OneChoice'
  <2>1. SUFFICES ASSUME NEW i \in Calls, NEW j \in Calls, NEW u,
                        call'[i].user = u, call'[j].user = u, ~Raced(u)',
                        {i, j} \subseteq Setting(u)'
                 PROVE  i = j
    BY DEF OneChoice
  <2>2. \A l \in Calls \ {k} : l \in Setting(u)' => l \in Setting(u) /\ call[l].user = u
    BY DEF Setting, Active
  <2>3. k \in Setting(u)' => call'[k].kind = "set" /\ call'[k].stage \notin Ended /\ call'[k].user = u
    BY DEF Setting, Active
  <2>4. k \in Setting(u)' => k \in Setting(u) \/ Setting(u) = {}
    BY <2>1, <2>3 DEF Raced
  <2>5. \A l \in Setting(u) : l \in Calls /\ call[l].user = u
    BY DEF Setting
  <2>6. QED
    BY <1>1, <1>2, <2>1, <2>2, <2>4, <2>5 DEF OneChoice
<1>6. Choosing' \subseteq Choosing /\ \A u \in Choosing \ Choosing' : Raced(u)'
  BY DEF Choosing, Raced
<1>7. SettledFollow'
  <2>1. SUFFICES ASSUME NEW u \in Users \ Choosing', ~Raced(u)', orgId[u] # NoOrg,
                        NEW c \in ChannelIDs, ~Missed(u, c)'
                 PROVE  /\ Ours(c)' => Follows(u, orgId[u], c)'
                        /\ Implicit(c)' /\ channel[c].state = "open" =>
                             orgId[u] = All /\ u \in members[c]
    BY DEF SettledFollow
  <2>2. /\ Ours(c) => Follows(u, orgId[u], c)
        /\ Implicit(c) /\ channel[c].state = "open" => orgId[u] = All /\ u \in members[c]
    BY <1>1, <1>2, <1>6, <2>1 DEF SettledFollow, Missed
  <2>3. CASE row'[c] = row[c]
    BY <2>2, <2>3 DEF Ours, Implicit, Follows
  <2>4. CASE row[c] = NoOrg
    BY <1>0, <2>2, <2>4 DEF Ours, Implicit, Follows
  <2>5. QED
    BY <2>3, <2>4
<1>8. ChoosersFollow'
  <2>1. SUFFICES ASSUME NEW j \in Calls, NEW r, r = call[j], call'[j] = r, r.stage = "leaving"
                 PROVE  /\ \A x \in r.todo : x[1] \in ChannelIDs /\ row'[x[1]] # NoRow
                        /\ ~Raced(r.user)' =>
                             /\ \A x \in r.todo : x[2] = row'[x[1]]
                             /\ \A c \in ChannelIDs :
                                  /\ ~Implicit(c)'
                                  /\ Ours(c)' => <<c, row'[c]>> \in r.todo \/ Follows(r.user, r.org, c)'
    <3>1. ASSUME NEW j \in Calls, call'[j].stage = "leaving"
          PROVE  \E r : r = call[j] /\ call'[j] = r /\ r.stage = "leaving"
      BY <3>1
    <3>2. QED
      BY <3>1 DEF ChoosersFollow, Raced, Follows
  <2>2. \A x \in r.todo : x[1] \in ChannelIDs /\ row[x[1]] # NoRow
    BY <1>1, <2>1 DEF ChoosersFollow
  <2>3. ASSUME ~Raced(r.user)'
        PROVE  /\ \A x \in r.todo : x[2] = row[x[1]]
               /\ \A c \in ChannelIDs :
                    /\ ~Implicit(c)
                    /\ Ours(c) => <<c, row[c]>> \in r.todo \/ Follows(r.user, r.org, c)
    <3>1. ~Raced(call[j].user)
      BY <1>2, <2>1, <2>3
    <3>2. QED
      BY <1>1, <2>1, <3>1 DEF ChoosersFollow
  <2>4. ASSUME ~Raced(r.user)', NEW c \in ChannelIDs PROVE row'[c] = row[c]
    BY <1>1, <2>3, <2>4 DEF TablesOK, Implicit
  <2>5. QED
    BY <1>0, <2>2, <2>3, <2>4 DEF Implicit, Ours, Follows
<1>9. CreationsFollow'
  <2>1. SUFFICES ASSUME NEW j \in Calls \ {k}, Creating(j)
                 PROVE  LET c == call[j].channel IN
                        /\ c \in ChannelIDs /\ channel[c].state # "absent" /\ row'[c] = NoRow
                        /\ channel[c].public => call[j].org = Ecosystem
                        /\ call[j].stage = "members" /\ ~channel[c].public => members[c] = {}
                        /\ call[j].stage = "adding" =>
                             /\ \A u \in Choosing' : Raced(u)'
                             /\ ~channel[c].public =>
                                  \A u \in Users : ~Raced(u)' /\ ~Missed(u, c)' /\ orgId[u] # NoOrg =>
                                    (u \in members[c] \cup call[j].todo
                                       <=> orgId[u] \in {call[j].org, All})
    <3>1. ASSUME NEW j \in Calls, Creating(j)' PROVE j # k /\ call'[j] = call[j]
      BY <3>1 DEF Creating
    <3>2. QED
      BY <3>1 DEF CreationsFollow, Creating, Missed
  <2>2. (\A u \in Choosing : Raced(u) => Raced(u)') /\ \A u, c : ~Missed(u, c)' => ~Missed(u, c)
    BY <1>2 DEF Missed
  <2>3. QED
    BY <1>1, <1>2, <1>6, <2>1, <2>2 DEF CreationsFollow
<1>10. OneCreation'
  BY <1>1 DEF OneCreation, Creating
<1>11. JoinersOK'
  BY <1>1 DEF JoinersOK
<1>12. LinkersOK'
  <2>1. \A c : Linkable(c) => Linkable(c)'
    BY <1>0 DEF Linkable
  <2>2. QED
    BY <1>1, <2>1 DEF LinkersOK
<1>13. QED
  BY <1>3, <1>4, <1>5, <1>7, <1>8, <1>9, <1>10, <1>11, <1>12 DEF MembersInv

(* Such a step of a handler. *)
LEMMA GoKeeps ==
  ASSUME MembersInv, NEW k \in Calls,
         NEW stage, stage \notin {"leaving", "members", "adding", "joining"},
         NEW known, DOMAIN known = CallFields, Go(k, stage, known),
         stage \notin Ended =>
           /\ Active(k)
           /\ known.kind = call[k].kind /\ known.user = call[k].user /\ known.org = call[k].org
           /\ stage \in {"user", "channels"} => known.kind = "set"
           /\ stage \in {"name", "create"} =>
                /\ known.kind = "add" /\ known.org \in Organizations
                /\ DOMAIN known.name = ChannelFields
                /\ known.name.named \in Organizations \cup {NoOrg}
                /\ known.name.public => known.org = Ecosystem
           /\ stage = "linking" => \A c \in known.todo : Linkable(c),
         call[k].stage = "leaving" => <<call[k].user, "raced">> \in spoilt',
         spoilt \subseteq spoilt',
         UNCHANGED <<channel, members, orgId>>,
         DOMAIN row' = ChannelIDs,
         \A c \in ChannelIDs : row'[c] = row[c] \/ (row[c] = NoOrg /\ row'[c] = named[c])
  PROVE  MembersInv'
<1>1. CallsOK /\ CallOK(call[k])
  BY DEF MembersInv, CallsOK
<1>2. /\ DOMAIN call' = Calls
      /\ \A j \in Calls \ {k} : call'[j] = call[j]
      /\ DOMAIN call'[k] = CallFields
      /\ stage \in Ended /\ call[k].kind = "set" =>
           /\ call'[k].stage = stage
           /\ call'[k].kind = call[k].kind /\ call'[k].user = call[k].user
           /\ call'[k].org = call[k].org
      /\ stage \in Ended /\ call[k].kind # "set" =>
           call'[k].stage = "idle" /\ call'[k].kind = "none"
      /\ stage \notin Ended => /\ call'[k].stage = stage
                               /\ \A f \in CallFields \ {"stage"} : call'[k][f] = known[f]
  BY <1>1, GoStage
<1>3. stage \notin Ended =>
        /\ call'[k].kind = known.kind /\ call'[k].user = known.user
        /\ call'[k].org = known.org /\ call'[k].name = known.name
        /\ call'[k].todo = known.todo
  BY <1>2 DEF CallFields
<1>4. /\ CallOK(call'[k])
      /\ call'[k].stage \notin {"leaving", "members", "adding", "joining"}
      /\ call'[k].stage = "linking" => \A c \in call'[k].todo : Linkable(c)
      /\ call'[k].kind = "set" /\ call'[k].stage \notin Ended =>
           call'[k].user = call[k].user /\ k \in Setting(call[k].user)
  <2>1. CASE stage \in Ended
    BY <1>1, <1>2, <2>1 DEF CallOK, Ended
  <2>2. CASE stage \notin Ended
    BY <1>1, <1>2, <1>3, <2>2 DEF CallOK, Setting
  <2>3. QED
    BY <2>1, <2>2
<1>5. QED
  BY <1>2, <1>4, HarmlessKeeps

(* The steps of a clean: where it goes on, and which channels it still has *)
(* to give their organizations. *)
CleanStages ==
  {"categories", "clean", "linking", "setup", "creating", "filing", "purge", "rows", "purging",
   "leftovers"}

(* What a handler knows of its request does not change. *)
Same(q, r) ==
  /\ DOMAIN q = CallFields
  /\ q.kind = r.kind /\ q.user = r.user /\ q.org = r.org /\ q.password = r.password

LEMMA SameIsKept ==
  ASSUME NEW r, DOMAIN r = CallFields
  PROVE  /\ Same(r, r) /\ DOMAIN Idle = CallFields
         /\ \A cats, rows, todo :
              /\ Same([r EXCEPT !.cats = cats], r) /\ Same([r EXCEPT !.rows = rows], r)
              /\ Same([r EXCEPT !.todo = todo], r) /\ [r EXCEPT !.todo = todo].todo = todo
              /\ Same([r EXCEPT !.cats = cats, !.rows = rows], r)
              /\ Same([r EXCEPT !.rows = rows, !.todo = todo], r)
              /\ [r EXCEPT !.rows = rows, !.todo = todo].todo = todo
BY DEF Same, CallFields, Idle

(* How a step of a clean goes on. *)
CleanGo(k, stage, known) ==
  /\ Go(k, stage, known)
  /\ DOMAIN known = CallFields
  /\ \/ stage = "failed" /\ known = Idle
     \/ Same(known, call[k]) /\ stage \in CleanStages \cup {AfterClean(k)}
  /\ stage = "linking" =>
       \/ known.todo = ToMigrate(row, named)
       \/ call[k].stage = "linking" /\ known.todo \subseteq call[k].todo

LEMMA CleanGoes ==
  ASSUME CallsOK, NEW k \in Calls, CleanStep(k)
  PROVE  /\ call[k].stage \in CleanStages /\ call[k].kind \in Cleaning
         /\ \E stage, known : CleanGo(k, stage, known)
<1>1. DOMAIN call[k] = CallFields
  BY DEF CallsOK, CallOK
<1>2. ASSUME Go(k, "failed", Idle) PROVE CleanGo(k, "failed", Idle)
  BY <1>1, <1>2, SameIsKept DEF CleanGo
<1>3. ASSUME NEW stage \in CleanStages \cup {AfterClean(k)}, stage # "linking", NEW known,
             Same(known, call[k]), Go(k, stage, known)
      PROVE  CleanGo(k, stage, known)
  BY <1>3 DEF CleanGo, Same
<1>4. ASSUME NEW stage \in CleanStages \cup {AfterClean(k)}, stage # "linking", NEW cats, NEW rows,
             \/ Go(k, stage, call[k]) \/ Go(k, stage, [call[k] EXCEPT !.cats = cats])
             \/ Go(k, stage, [call[k] EXCEPT !.rows = rows])
             \/ Go(k, stage, [call[k] EXCEPT !.todo = cats])
             \/ Go(k, stage, [call[k] EXCEPT !.cats = cats, !.rows = rows])
      PROVE  \E known : CleanGo(k, stage, known)
  BY <1>1, <1>3, <1>4, SameIsKept
<1>5. AfterClean(k) # "linking"
  BY DEF AfterClean
<1>6. CASE GetCategories(k)
  <2>1. PICK cats : Go(k, "clean", [call[k] EXCEPT !.cats = cats]) \/ Go(k, "failed", Idle)
    BY <1>6 DEF GetCategories
  <2>2. QED
    BY <1>2, <1>4, <1>6, <2>1 DEF GetCategories, At, CleanStages
<1>7. CASE cleanCategories(k)
  <2> DEFINE known == [call[k] EXCEPT !.rows = row, !.todo = ToMigrate(row, named)]
  <2>1. Same(known, call[k]) /\ known.todo = ToMigrate(row, named)
    BY <1>1, SameIsKept
  <2>2. Go(k, "linking", known) \/ Go(k, "failed", Idle)
    BY <1>7 DEF cleanCategories
  <2> HIDE DEF known
  <2>3. Go(k, "linking", known) => CleanGo(k, "linking", known)
    BY <2>1 DEF CleanGo, Same, CleanStages
  <2>4. QED
    BY <1>2, <1>7, <2>2, <2>3 DEF cleanCategories, At, CleanStages
<1>8. CASE LinkChannelToOrganization(k)
  <2>1. PICK todo : todo \subseteq call[k].todo /\ Go(k, "linking", [call[k] EXCEPT !.todo = todo])
    BY <1>8 DEF LinkChannelToOrganization
  <2> DEFINE known == [call[k] EXCEPT !.todo = todo]
  <2>2. Same(known, call[k]) /\ known.todo = todo
    BY <1>1, SameIsKept
  <2>3. Go(k, "linking", known)
    BY <2>1
  <2> HIDE DEF known
  <2>4. CleanGo(k, "linking", known)
    BY <1>8, <2>1, <2>2, <2>3 DEF CleanGo, Same, CleanStages, LinkChannelToOrganization, At
  <2>5. QED
    BY <1>8, <2>4 DEF LinkChannelToOrganization, At, CleanStages
<1>9. CASE ChooseStrategy(k)
  <2>1. PICK cats, rows :
          \/ Go(k, AfterClean(k), [call[k] EXCEPT !.cats = cats, !.rows = rows])
          \/ Go(k, "setup", [call[k] EXCEPT !.cats = cats])
          \/ Go(k, "rows", [call[k] EXCEPT !.rows = rows])
          \/ Go(k, "purge", [call[k] EXCEPT !.rows = rows])
          \/ Go(k, "failed", Idle)
    BY <1>9 DEF ChooseStrategy, Forgetting
  <2>2. QED
    BY <1>2, <1>4, <1>5, <1>9, <2>1 DEF ChooseStrategy, At, CleanStages
<1>10. CASE setupCategories(k) \/ CreateMissing(k) \/ ReadCategoriesToFile(k)
  <2>1. PICK todo : \/ Go(k, "creating", [call[k] EXCEPT !.todo = todo])
                    \/ Go(k, "filing", [call[k] EXCEPT !.cats = todo])
                    \/ Go(k, "failed", Idle)
    BY <1>10 DEF setupCategories, CreateMissing, ReadCategoriesToFile
  <2>2. QED
    BY <1>2, <1>4, <1>10, <2>1
    DEF setupCategories, CreateMissing, ReadCategoriesToFile, At, CleanStages
<1>11. CASE FileChannels(k) \/ PurgeCategories(k)
  <2>1. PICK cats, rows :
          \/ Go(k, AfterClean(k), [call[k] EXCEPT !.cats = cats, !.rows = rows])
          \/ Go(k, "leftovers", call[k])
          \/ Go(k, "failed", Idle)
    BY <1>11 DEF FileChannels, PurgeCategories, Update, Forgetting
  <2>2. QED
    BY <1>2, <1>4, <1>5, <1>11, <2>1 DEF FileChannels, PurgeCategories, At, CleanStages
<1>12. CASE CreateEcosystem(k) \/ GetAllChannels(k)
  <2>1. PICK rows : \/ Go(k, "rows", call[k]) \/ Go(k, "failed", Idle)
                    \/ Go(k, "purging", [call[k] EXCEPT !.rows = rows])
    BY <1>12 DEF CreateEcosystem, GetAllChannels
  <2>2. QED
    BY <1>2, <1>4, <1>12, <2>1 DEF CreateEcosystem, GetAllChannels, At, CleanStages
<1>13. CASE DeleteCategories(k)
  <2>1. PICK cats, rows :
          \/ Go(k, AfterClean(k), [call[k] EXCEPT !.cats = cats, !.rows = rows])
          \/ Go(k, "failed", Idle)
    BY <1>13 DEF DeleteCategories, Forgetting
  <2>2. QED
    BY <1>2, <1>4, <1>5, <1>13, <2>1 DEF DeleteCategories, At, CleanStages
<1>14. QED
  BY <1>6, <1>7, <1>8, <1>9, <1>10, <1>11, <1>12, <1>13 DEF CleanStep

(* What it leaves alone: a channel without an organization gets that of    *)
(* its name.                                                               *)
LEMMA CleanLeaves ==
  ASSUME MembersInv, NEW k \in Calls, CleanStep(k)
  PROVE  /\ UNCHANGED <<channel, members, orgId, picker>> /\ spoilt \subseteq spoilt'
         /\ DOMAIN row' = ChannelIDs
         /\ \A c \in ChannelIDs : row'[c] = row[c] \/ (row[c] = NoOrg /\ row'[c] = named[c])
<1>1. DOMAIN row = ChannelIDs
  BY DEF MembersInv, TablesOK
<1>2. /\ UNCHANGED <<channel, members, orgId, picker>> /\ spoilt \subseteq spoilt'
      /\ \/ UNCHANGED row
         \/ call[k].stage = "linking" /\ \E c \in call[k].todo : row' = [row EXCEPT ![c] = named[c]]
  BY DEF CleanStep, GetCategories, cleanCategories, LinkChannelToOrganization, ChooseStrategy,
     setupCategories, CreateMissing, ReadCategoriesToFile, FileChannels, CreateEcosystem,
     GetAllChannels, PurgeCategories, DeleteCategories, Update, Spoil, At, tables
<1>3. \A c \in call[k].todo : call[k].stage = "linking" => Linkable(c)
  BY DEF MembersInv, LinkersOK
<1>4. QED
  BY <1>1, <1>2, <1>3 DEF Linkable

LEMMA CleanStepKeeps ==
  ASSUME MembersInv, NEW k \in Calls, CleanStep(k)
  PROVE  MembersInv'
<1>1. PICK stage, known : CleanGo(k, stage, known)
  BY CleanGoes DEF MembersInv
<1>2. /\ CallOK(call[k]) /\ call[k].stage \in CleanStages /\ call[k].kind \in Cleaning
  BY CleanGoes DEF MembersInv, CallsOK
<1>3. \A c \in ToMigrate(row, named) : Linkable(c)
  BY DEF ToMigrate, Linkable, MembersInv, TablesOK
<1>4. stage = "linking" => \A c \in known.todo : Linkable(c)
  BY <1>1, <1>3 DEF CleanGo, MembersInv, LinkersOK
<1>5. /\ UNCHANGED <<channel, members, orgId>> /\ spoilt \subseteq spoilt'
      /\ DOMAIN row' = ChannelIDs
      /\ \A c \in ChannelIDs : row'[c] = row[c] \/ (row[c] = NoOrg /\ row'[c] = named[c])
  BY CleanLeaves
<1>6. /\ stage \notin {"leaving", "members", "adding", "joining", "user", "channels", "name", "create"}
      /\ call[k].stage # "leaving" /\ Active(k)
      /\ stage \notin Ended => /\ known.kind = call[k].kind /\ known.user = call[k].user
                               /\ known.org = call[k].org
  BY <1>1, <1>2 DEF CleanGo, CleanStages, AfterClean, Active, Ended, Same
<1>7. QED
  BY <1>1, <1>4, <1>5, <1>6, GoKeeps DEF CleanGo

(* Nothing happens to the channels and their rows. *)
LEMMA RowsStay ==
  ASSUME TablesOK, UNCHANGED row
  PROVE  /\ DOMAIN row' = ChannelIDs
         /\ \A c \in ChannelIDs : row'[c] = row[c] \/ (row[c] = NoOrg /\ row'[c] = named[c])
BY DEF TablesOK

(* The first step of a choice. *)
LEMMA GetUserKeeps ==
  ASSUME MembersInv, NEW k \in Calls, GetUser(k)
  PROVE  MembersInv'
<1>1. TablesOK /\ CallOK(call[k]) /\ DOMAIN call[k] = CallFields /\ DOMAIN Idle = CallFields
  BY DEF MembersInv, CallsOK, CallOK, Idle, CallFields
<1>2. /\ Go(k, "failed", call[k]) \/ Go(k, "channels", call[k]) \/ Go(k, "failed", Idle)
      /\ call[k].kind = "set" /\ call[k].stage = "user" /\ Active(k)
      /\ UNCHANGED <<spoilt, channel, members, orgId, row>>
  BY DEF GetUser, At, tables, Active, Ended
<1>3. QED
  BY <1>1, <1>2, GoKeeps, RowsStay DEF Ended

(* What is left of the handlers that create and join channels. *)
LEMMA ChannelStepKeeps ==
  ASSUME MembersInv, NEW k \in Calls,
         \/ GetChannelByName(k) \/ ReadCategoriesToAdd(k) \/ addChannelToCategory(k)
         \/ /\ Go(k, "failed", Idle) \/ (Go(k, "ok", Idle) /\ UNCHANGED spoilt)
            /\ call[k].stage # "leaving" \/ <<call[k].user, "raced">> \in spoilt'
            /\ spoilt \subseteq spoilt'
            /\ UNCHANGED <<channel, row, members, orgId>>
  PROVE  MembersInv'
<1>1. TablesOK /\ CallOK(call[k]) /\ DOMAIN call[k] = CallFields /\ DOMAIN Idle = CallFields
  BY DEF MembersInv, CallsOK, CallOK, Idle, CallFields
<1>2. ASSUME NEW stage \in {"ok", "failed"}, Go(k, stage, Idle),
             call[k].stage # "leaving" \/ <<call[k].user, "raced">> \in spoilt',
             spoilt \subseteq spoilt', UNCHANGED <<channel, row, members, orgId>>
      PROVE  MembersInv'
  BY <1>1, <1>2, GoKeeps, RowsStay DEF Ended
<1>3. CASE GetChannelByName(k)
  <2>1. PICK number :
          /\ Go(k, "failed", Idle) \/ Go(k, "create", [call[k] EXCEPT !.name.number = number])
          /\ call[k].stage = "name" /\ Active(k)
          /\ UNCHANGED <<spoilt, channel, members, orgId, row>>
    BY <1>3 DEF GetChannelByName, At, tables, Active, Ended
  <2> DEFINE known == [call[k] EXCEPT !.name.number = number]
  <2>2. /\ DOMAIN known = CallFields
        /\ known.kind = call[k].kind /\ known.user = call[k].user /\ known.org = call[k].org
        /\ known.name = [call[k].name EXCEPT !.number = number]
    BY <1>1 DEF CallFields
  <2>3. DOMAIN call[k].name = ChannelFields
    BY <1>1, <2>1 DEF CallOK
  <2>4. /\ DOMAIN known.name = ChannelFields
        /\ known.name.named = call[k].name.named /\ known.name.public = call[k].name.public
    BY <2>2, <2>3 DEF ChannelFields
  <2> HIDE DEF known
  <2>5. CASE Go(k, "failed", Idle)
    BY <1>2, <2>1, <2>5
  <2>6. CASE Go(k, "create", known)
    <3>1. /\ known.kind = "add" /\ known.org \in Organizations
          /\ known.name.named \in Organizations \cup {NoOrg}
          /\ known.name.public => known.org = Ecosystem
      BY <1>1, <2>1, <2>2, <2>4 DEF CallOK
    <3>2. /\ DOMAIN row' = ChannelIDs
          /\ \A c \in ChannelIDs : row'[c] = row[c]
      BY <1>1, <2>1 DEF TablesOK
    <3>3. QED
      BY <2>1, <2>2, <2>4, <2>6, <3>1, <3>2, GoKeeps DEF Ended
  <2>7. QED
    BY <2>1, <2>5, <2>6 DEF known
<1>4. CASE ReadCategoriesToAdd(k)
  <2>1. PICK cats :
          /\ Go(k, "ok", Idle) \/ Go(k, "file", [call[k] EXCEPT !.cats = cats])
          /\ call[k].stage = "categories" /\ Active(k)
          /\ UNCHANGED <<spoilt, channel, members, orgId, row>>
    BY <1>4 DEF ReadCategoriesToAdd, At, tables, Active, Ended
  <2> DEFINE known == [call[k] EXCEPT !.cats = cats]
  <2>2. /\ DOMAIN known = CallFields
        /\ known.kind = call[k].kind /\ known.user = call[k].user /\ known.org = call[k].org
    BY <1>1 DEF CallFields
  <2> HIDE DEF known
  <2>3. CASE Go(k, "ok", Idle)
    BY <1>2, <2>1, <2>3
  <2>4. CASE Go(k, "file", known)
    BY <1>1, <2>1, <2>2, <2>4, GoKeeps, RowsStay DEF Ended
  <2>5. QED
    BY <2>1, <2>3, <2>4 DEF known
<1>5. CASE addChannelToCategory(k)
  BY <1>2, <1>5 DEF addChannelToCategory, At
<1>6. QED
  BY <1>2, <1>3, <1>4, <1>5

(* Requests are sent, and their answers received. *)
LEMMA SendKeeps ==
  ASSUME MembersInv, NEW request, CallOK(request),
         request.stage \in {"user", "name", "categories"},
         request.kind = "set" => spoilt \cup {<<request.user, "raced">> :
                                                k \in Setting(request.user)} \subseteq spoilt',
         spoilt \subseteq spoilt', Send(request), UNCHANGED <<channel, row, members, orgId>>
  PROVE  MembersInv'
<1>1. PICK k \in Calls : call[k] = Idle /\ call' = [call EXCEPT ![k] = request]
  BY DEF Send
<1>2. TablesOK /\ DOMAIN call = Calls
  BY DEF MembersInv, CallsOK
<1>3. /\ DOMAIN call' = Calls /\ call'[k] = request
      /\ \A j \in Calls \ {k} : call'[j] = call[j]
  BY <1>1, <1>2
<1>4. call[k].stage = "idle"
  BY <1>1 DEF Idle
<1>5. request.kind = "set" /\ Setting(request.user) # {} => <<request.user, "raced">> \in spoilt'
  OBVIOUS
<1>6. QED
  BY <1>2, <1>3, <1>4, <1>5, HarmlessKeeps DEF TablesOK

(* An answer that is received ends a request that did nothing any more. *)
LEMMA AnsweredKeeps ==
  ASSUME MembersInv, NEW k \in Calls, call[k].stage \in {"ok", "failed"},
         call' = [call EXCEPT ![k] = Idle], spoilt \subseteq spoilt',
         UNCHANGED <<channel, row, members, orgId>>
  PROVE  MembersInv'
<1>1. TablesOK /\ DOMAIN call = Calls
  BY DEF MembersInv, CallsOK
<1>2. /\ DOMAIN call' = Calls /\ call'[k] = Idle
      /\ \A j \in Calls \ {k} : call'[j] = call[j]
  BY <1>1
<1>3. CallOK(Idle) /\ Idle.stage = "idle" /\ Idle.kind = "none"
  BY DEF Idle, CallOK, CallFields
<1>4. QED
  BY <1>1, <1>2, <1>3, HarmlessKeeps DEF TablesOK

------------------------------------------------------------------------------
(* The creation of a channel.                                               *)

(* A channel is created for nobody. *)
LEMMA CreateChannelKeeps ==
  ASSUME MembersInv, NEW k \in Calls, CreateChannel(k)
  PROVE  MembersInv'
<1> USE OrganizationsAssumption
<1>1. /\ TablesOK /\ CallsOK /\ OneChoice /\ SettledFollow
      /\ ChoosersFollow /\ CreationsFollow /\ OneCreation /\ JoinersOK /\ LinkersOK
      /\ CallOK(call[k]) /\ call[k].stage = "create"
  BY DEF MembersInv, CallsOK, CreateChannel, At
<1>2. CASE Go(k, "failed", Idle) /\ UNCHANGED channel
  BY <1>1, <1>2, ChannelStepKeeps DEF CreateChannel
<1>3. CASE \E c \in ChannelIDs :
             /\ channel[c].state = "absent"
             /\ channel' = [channel EXCEPT ![c] = [call[k].name EXCEPT !.state = "open"]]
             /\ Go(k, "members", [call[k] EXCEPT !.channel = c])
  <2>1. PICK c \in ChannelIDs :
             /\ channel[c].state = "absent"
             /\ channel' = [channel EXCEPT ![c] = [call[k].name EXCEPT !.state = "open"]]
             /\ Go(k, "members", [call[k] EXCEPT !.channel = c])
    BY <1>3
  <2>2. UNCHANGED <<row, members, orgId, spoilt>>
    BY DEF CreateChannel
  <2>3. /\ call[k].kind = "add" /\ call[k].org \in Organizations
        /\ DOMAIN call[k].name = ChannelFields /\ call[k].name.named \in Organizations \cup {NoOrg}
        /\ call[k].name.public => call[k].org = Ecosystem
        /\ DOMAIN call[k] = CallFields
    BY <1>1 DEF CallOK
  <2> DEFINE known == [call[k] EXCEPT !.channel = c]
             new == [call[k].name EXCEPT !.state = "open"]
  <2>4. /\ DOMAIN known = CallFields /\ known.kind = "add" /\ known.org = call[k].org
        /\ known.channel = c /\ known.name = call[k].name
    BY <2>3 DEF CallFields
  <2>5. /\ DOMAIN new = ChannelFields /\ new.state = "open"
        /\ new.named = call[k].name.named /\ new.public = call[k].name.public
    BY <2>3 DEF ChannelFields
  <2>6. Go(k, "members", known) /\ channel' = [channel EXCEPT ![c] = new]
    BY <2>1
  <2> HIDE DEF known, new
  <2>7. /\ DOMAIN call' = Calls /\ \A j \in Calls \ {k} : call'[j] = call[j]
        /\ DOMAIN call'[k] = CallFields /\ call'[k].stage = "members"
        /\ call'[k].kind = "add" /\ call'[k].org = call[k].org
        /\ call'[k].channel = c /\ call'[k].name = call[k].name
    BY <1>1, <2>4, <2>6, GoStage DEF Ended, CallFields
  <2>8. /\ DOMAIN channel' = ChannelIDs
        /\ \A d \in ChannelIDs : channel'[d] = IF d = c THEN new ELSE channel[d]
    BY <1>1, <2>6 DEF TablesOK
  <2>9. row[c] = NoRow /\ members[c] = {}
    BY <1>1, <2>1 DEF TablesOK
  <2>10. TablesOK'
    BY <1>1, <2>2, <2>3, <2>5, <2>8 DEF TablesOK
  <2>11. CallsOK'
    BY <1>1, <2>3, <2>7 DEF CallsOK, CallOK
  <2>12. Choosing' = Choosing /\ \A u : Setting(u)' = Setting(u)
    BY <1>1, <2>3, <2>7 DEF Choosing, Setting, Active, CallOK
  <2>13. OneChoice'
    BY <1>1, <2>2, <2>3, <2>7, <2>12 DEF OneChoice, Setting, Raced
  <2>14. SettledFollow'
    BY <1>1, <2>2, <2>8, <2>9, <2>12 DEF SettledFollow, Ours, Implicit, Follows, Raced, Missed, organizations
  <2>15. ChoosersFollow'
    BY <1>1, <2>2, <2>7, <2>8, <2>9 DEF ChoosersFollow, Ours, Implicit, Follows, Raced, organizations
  <2>16. CreationsFollow'
    BY <1>1, <2>1, <2>2, <2>3, <2>5, <2>7, <2>8, <2>9, <2>12 DEF CreationsFollow, Creating, Raced, Missed
  <2>17. OneCreation'
    BY <1>1, <2>1, <2>7 DEF OneCreation, CreationsFollow, Creating
  <2>18. JoinersOK'
    BY <1>1, <2>1, <2>2, <2>7, <2>8 DEF JoinersOK
  <2>19. LinkersOK'
    <3>1. \A d \in ChannelIDs : named[d] = channel[d].named /\ named'[d] = channel'[d].named
      BY DEF named
    <3>2. channel[c].named \in Organizations \cup {NoOrg}
      BY <1>1 DEF TablesOK
    <3>3. ASSUME NEW d, Linkable(d) PROVE Linkable(d)'
      BY <2>2, <2>8, <2>9, <3>1, <3>2, <3>3 DEF Linkable
    <3>4. QED
      BY <1>1, <2>7, <3>3 DEF LinkersOK
  <2>20. QED
    BY <2>10, <2>11, <2>13, <2>14, <2>15, <2>16, <2>17, <2>18, <2>19 DEF MembersInv
<1>4. QED
  BY <1>2, <1>3 DEF CreateChannel

(* Its members are read while nobody chooses unnoticed. *)
LEMMA ReadMembersKeeps ==
  ASSUME MembersInv, NEW k \in Calls, ReadMembers(k)
  PROVE  MembersInv'
<1> USE OrganizationsAssumption
<1>1. /\ TablesOK /\ CallsOK /\ OneChoice /\ SettledFollow
      /\ ChoosersFollow /\ CreationsFollow /\ OneCreation /\ JoinersOK /\ LinkersOK
      /\ CallOK(call[k]) /\ call[k].stage = "members"
      /\ UNCHANGED <<channel, row, members, orgId>>
  BY DEF MembersInv, CallsOK, ReadMembers, At, tables
<1>2. CASE Go(k, "failed", Idle) /\ UNCHANGED spoilt
  BY <1>1, <1>2, ChannelStepKeeps
<1>3. ASSUME NEW page \in UserPages,
             Go(k, "adding", [call[k] EXCEPT !.todo = getOrganizationMembers(page, call[k].org)]),
             spoilt' = spoilt \cup (Choosing \X {"raced"})
                              \cup (Beyond(page, call[k].org) \X {call[k].channel})
      PROVE  MembersInv'
  <2>1. DOMAIN call[k] = CallFields /\ call[k].kind = "add"
    BY <1>1 DEF CallOK
  <2> DEFINE users == getOrganizationMembers(page, call[k].org)
             known == [call[k] EXCEPT !.todo = users]
  <2>2. /\ DOMAIN known = CallFields /\ known.kind = "add" /\ known.org = call[k].org
        /\ known.channel = call[k].channel /\ known.name = call[k].name /\ known.todo = users
    BY <2>1 DEF CallFields
  <2>3. \A u \in Users : <<u, call[k].channel>> \notin spoilt' =>
          (u \in users <=> orgId[u] \in {call[k].org, All})
    BY <1>3 DEF getOrganizationMembers, Beyond
  <2>4. Go(k, "adding", known)
    BY <1>3
  <2> HIDE DEF known, users
  <2>5. /\ DOMAIN call' = Calls /\ \A j \in Calls \ {k} : call'[j] = call[j]
        /\ DOMAIN call'[k] = CallFields /\ call'[k].stage = "adding"
        /\ call'[k].kind = "add" /\ call'[k].org = call[k].org /\ call'[k].todo = users
        /\ call'[k].channel = call[k].channel /\ call'[k].name = call[k].name
    BY <1>1, <2>2, <2>4, GoStage DEF Ended, CallFields
  <2>6. CallsOK'
    BY <1>1, <2>5 DEF CallsOK, CallOK
  <2>7. Choosing' = Choosing /\ \A u : Setting(u)' = Setting(u)
    BY <1>1, <2>1, <2>5 DEF Choosing, Setting, Active
  <2>8. /\ \A u : (~Raced(u)' => ~Raced(u)) /\ (u \in Choosing => Raced(u)')
        /\ \A u, c : ~Missed(u, c)' => ~Missed(u, c)
    BY <1>3 DEF Raced, Missed
  <2>9. TablesOK'
    BY <1>1 DEF TablesOK
  <2>10. OneChoice'
    BY <1>1, <2>1, <2>5, <2>7, <2>8 DEF OneChoice, Setting
  <2>11. SettledFollow'
    BY <1>1, <2>7, <2>8 DEF SettledFollow, Ours, Implicit, Follows
  <2>12. ChoosersFollow'
    BY <1>1, <2>5, <2>8 DEF ChoosersFollow, Ours, Implicit, Follows
  <2>13. CreationsFollow'
    <3>1. SUFFICES ASSUME NEW j \in Calls, NEW r, r = call'[j], r.stage \in {"members", "adding"}
                   PROVE  LET c == r.channel IN
                          /\ c \in ChannelIDs /\ channel[c].state # "absent" /\ row[c] = NoRow
                          /\ channel[c].public => r.org = Ecosystem
                          /\ r.stage = "members" /\ ~channel[c].public => members[c] = {}
                          /\ r.stage = "adding" =>
                               /\ \A u \in Choosing : Raced(u)'
                               /\ ~channel[c].public =>
                                    \A u \in Users : ~Raced(u)' /\ ~Missed(u, c)' /\ orgId[u] # NoOrg =>
                                      (u \in members[c] \cup r.todo <=> orgId[u] \in {r.org, All})
      BY <1>1, <2>7 DEF CreationsFollow, Creating, Missed
    <3>2. CASE j # k
      BY <1>1, <2>5, <2>8, <3>1, <3>2 DEF CreationsFollow, Creating
    <3>3. CASE j = k
      BY <1>1, <2>3, <2>5, <2>8, <3>1, <3>3 DEF CreationsFollow, Creating, Missed
    <3>4. QED
      BY <3>2, <3>3
  <2>14. OneCreation'
    BY <1>1, <2>5 DEF OneCreation, Creating
  <2>15. JoinersOK'
    BY <1>1, <2>5 DEF JoinersOK
  <2>16. LinkersOK'
    BY <1>1, <2>5 DEF LinkersOK, Linkable, named
  <2>17. QED
    BY <2>6, <2>9, <2>10, <2>11, <2>12, <2>13, <2>14, <2>15, <2>16 DEF MembersInv
<1>4. QED
  BY <1>2, <1>3 DEF ReadMembers

(* They are added one by one. *)
LEMMA AddMemberKeeps ==
  ASSUME MembersInv, NEW k \in Calls, AddMember(k)
  PROVE  MembersInv'
<1> USE OrganizationsAssumption
<1>1. /\ TablesOK /\ CallsOK /\ OneChoice /\ SettledFollow
      /\ ChoosersFollow /\ CreationsFollow /\ OneCreation /\ JoinersOK /\ LinkersOK
      /\ CallOK(call[k]) /\ call[k].stage = "adding"
      /\ UNCHANGED <<channel, row, orgId, spoilt>>
  BY DEF MembersInv, CallsOK, AddMember, At
<1>2. CASE Go(k, "failed", Idle) /\ UNCHANGED members
  BY <1>1, <1>2, ChannelStepKeeps
<1>3. CASE \E u \in call[k].todo :
             /\ members' = [members EXCEPT ![call[k].channel] = @ \cup {u}]
             /\ Go(k, "adding", [call[k] EXCEPT !.todo = @ \ {u}])
  <2>1. PICK u \in call[k].todo :
             /\ members' = [members EXCEPT ![call[k].channel] = @ \cup {u}]
             /\ Go(k, "adding", [call[k] EXCEPT !.todo = @ \ {u}])
    BY <1>3
  <2>2. DOMAIN call[k] = CallFields /\ call[k].kind = "add"
    BY <1>1 DEF CallOK
  <2> DEFINE known == [call[k] EXCEPT !.todo = @ \ {u}]
  <2>3. /\ DOMAIN known = CallFields /\ known.kind = "add" /\ known.org = call[k].org
        /\ known.channel = call[k].channel /\ known.name = call[k].name
        /\ known.todo = call[k].todo \ {u}
    BY <2>2 DEF CallFields
  <2>4. Go(k, "adding", known)
    BY <2>1
  <2> HIDE DEF known
  <2>5. /\ DOMAIN call' = Calls /\ \A j \in Calls \ {k} : call'[j] = call[j]
        /\ DOMAIN call'[k] = CallFields /\ call'[k].stage = "adding"
        /\ call'[k].kind = "add" /\ call'[k].org = call[k].org
        /\ call'[k].todo = call[k].todo \ {u}
        /\ call'[k].channel = call[k].channel /\ call'[k].name = call[k].name
    BY <1>1, <2>3, <2>4, GoStage DEF Ended, CallFields
  <2>6. PICK c \in ChannelIDs : c = call[k].channel /\ channel[c].state # "absent" /\ row[c] = NoRow
    BY <1>1 DEF CreationsFollow, Creating
  <2>7. /\ DOMAIN members' = ChannelIDs
        /\ members'[c] = members[c] \cup {u}
        /\ \A d \in ChannelIDs \ {c} : members'[d] = members[d]
    BY <1>1, <2>1, <2>6 DEF TablesOK
  <2>8. CallsOK'
    BY <1>1, <2>5 DEF CallsOK, CallOK
  <2>9. Choosing' = Choosing /\ \A v : Setting(v)' = Setting(v)
    BY <1>1, <2>2, <2>5 DEF Choosing, Setting, Active
  <2>10. TablesOK'
    BY <1>1, <2>6, <2>7 DEF TablesOK
  <2>11. OneChoice'
    BY <1>1, <2>2, <2>5, <2>9 DEF OneChoice, Setting, Raced
  <2>12. SettledFollow'
    BY <1>1, <2>6, <2>7, <2>9 DEF SettledFollow, Ours, Implicit, Follows, Raced, Missed, organizations
  <2>13. ChoosersFollow'
    BY <1>1, <2>5, <2>6, <2>7 DEF ChoosersFollow, Ours, Implicit, Follows, Raced, organizations
  <2>14. CreationsFollow'
    <3>1. SUFFICES ASSUME NEW j \in Calls, NEW r, r = call'[j], r.stage \in {"members", "adding"}
                   PROVE  LET d == r.channel IN
                          /\ d \in ChannelIDs /\ channel[d].state # "absent" /\ row[d] = NoRow
                          /\ channel[d].public => r.org = Ecosystem
                          /\ r.stage = "members" /\ ~channel[d].public => members'[d] = {}
                          /\ r.stage = "adding" =>
                               /\ \A v \in Choosing : Raced(v)
                               /\ ~channel[d].public =>
                                    \A v \in Users : ~Raced(v) /\ ~Missed(v, d) /\ orgId[v] # NoOrg =>
                                      (v \in members'[d] \cup r.todo <=> orgId[v] \in {r.org, All})
      BY <1>1, <2>9 DEF CreationsFollow, Creating, Raced, Missed
    <3>2. CASE j # k
      <4>1. r = call[j] /\ r.channel \in ChannelIDs /\ r.channel # c
        BY <1>1, <2>5, <2>6, <3>1, <3>2 DEF CreationsFollow, OneCreation, Creating
      <4>2. QED
        BY <1>1, <2>7, <3>1, <4>1 DEF CreationsFollow, Creating
    <3>3. CASE j = k
      <4>1. members'[c] \cup r.todo = members[c] \cup call[k].todo
        BY <2>1, <2>5, <2>7, <3>1, <3>3
      <4>2. r.channel = c /\ r.org = call[k].org /\ r.stage = "adding"
        BY <2>5, <2>6, <3>1, <3>3
      <4>3. QED
        BY <1>1, <2>6, <4>1, <4>2 DEF CreationsFollow, Creating
    <3>4. QED
      BY <3>2, <3>3
  <2>15. OneCreation'
    BY <1>1, <2>5 DEF OneCreation, Creating
  <2>16. JoinersOK'
    BY <1>1, <2>5 DEF JoinersOK
  <2>17. LinkersOK'
    BY <1>1, <2>5 DEF LinkersOK, Linkable, named
  <2>18. QED
    BY <2>8, <2>10, <2>11, <2>12, <2>13, <2>14, <2>15, <2>16, <2>17 DEF MembersInv
<1>4. QED
  BY <1>2, <1>3 DEF AddMember

(* The row comes last, when all of them are members. *)
LEMMA InsertRowKeeps ==
  ASSUME MembersInv, NEW k \in Calls, InsertRow(k)
  PROVE  MembersInv'
<1> USE OrganizationsAssumption
<1>1. /\ TablesOK /\ CallsOK /\ OneChoice /\ SettledFollow
      /\ ChoosersFollow /\ CreationsFollow /\ OneCreation /\ JoinersOK /\ LinkersOK
      /\ CallOK(call[k]) /\ call[k].stage = "adding" /\ call[k].todo = {}
      /\ UNCHANGED <<channel, members, orgId, spoilt>>
  BY DEF MembersInv, CallsOK, InsertRow, At
<1>2. CASE Go(k, "failed", Idle) /\ UNCHANGED row
  BY <1>1, <1>2, ChannelStepKeeps
<1>3. CASE row' = [row EXCEPT ![call[k].channel] = call[k].org] /\ Go(k, "categories", call[k])
  <2>1. PICK c \in ChannelIDs, org \in Organizations :
          /\ c = call[k].channel /\ org = call[k].org
          /\ channel[c].state # "absent" /\ row[c] = NoRow
    BY <1>1 DEF CreationsFollow, Creating, CallOK
  <2>2. /\ channel[c].public => org = Ecosystem
        /\ \A u \in Choosing : Raced(u)
        /\ ~channel[c].public =>
             \A u \in Users : ~Raced(u) /\ ~Missed(u, c) /\ orgId[u] # NoOrg =>
               (u \in members[c] <=> orgId[u] \in {org, All})
    BY <1>1, <2>1 DEF CreationsFollow, Creating
  <2>3. /\ DOMAIN row' = ChannelIDs /\ row'[c] = org
        /\ \A d \in ChannelIDs \ {c} : row'[d] = row[d]
    BY <1>1, <1>3, <2>1 DEF TablesOK
  <2>4. DOMAIN call[k] = CallFields /\ call[k].kind = "add"
    BY <1>1 DEF CallOK
  <2>5. /\ DOMAIN call' = Calls /\ \A j \in Calls \ {k} : call'[j] = call[j]
        /\ DOMAIN call'[k] = CallFields /\ call'[k].stage = "categories"
        /\ call'[k].kind = "add"
    <3>1. /\ DOMAIN call' = Calls /\ \A j \in Calls \ {k} : call'[j] = call[j]
          /\ DOMAIN call'[k] = CallFields /\ call'[k].stage = "categories"
          /\ \A f \in CallFields \ {"stage"} : call'[k][f] = call[k][f]
      BY <1>1, <1>3, <2>4, GoStage DEF Ended
    <3>2. QED
      BY <2>4, <3>1 DEF CallFields
  <2>6. CallsOK'
    BY <1>1, <2>5 DEF CallsOK, CallOK
  <2>7. Choosing' = Choosing /\ \A v : Setting(v)' = Setting(v)
    BY <1>1, <2>4, <2>5 DEF Choosing, Setting, Active
  <2>8. TablesOK'
    BY <1>1, <2>1, <2>3 DEF TablesOK
  <2>9. OneChoice'
    BY <1>1, <2>4, <2>5, <2>7 DEF OneChoice, Setting, Raced
  <2>10. SettledFollow'
    <3>1. SUFFICES ASSUME NEW u \in Users \ Choosing, ~Raced(u), orgId[u] # NoOrg, NEW d \in ChannelIDs,
                          ~Missed(u, d)
                   PROVE  /\ Ours(d)' => Follows(u, orgId[u], d)'
                          /\ Implicit(d)' /\ channel[d].state = "open" =>
                               orgId[u] = All /\ u \in members[d]
      BY <1>1, <2>7 DEF SettledFollow, Raced, Missed, Follows
    <3>2. CASE d = c
      BY <1>1, <2>1, <2>2, <2>3, <3>1, <3>2 DEF Ours, Implicit, Follows, organizations
    <3>3. CASE d # c
      BY <1>1, <2>3, <3>1, <3>3 DEF SettledFollow, Ours, Implicit, Follows
    <3>4. QED
      BY <3>2, <3>3
  <2>11. ChoosersFollow'
    <3>1. SUFFICES ASSUME NEW j \in Calls, NEW r, r = call[j], r.stage = "leaving"
                   PROVE  /\ \A x \in r.todo : x[1] \in ChannelIDs /\ row'[x[1]] # NoRow
                          /\ Raced(r.user)
      BY <1>1, <2>5 DEF ChoosersFollow, Raced
    <3>2. \A x \in r.todo : x[1] \in ChannelIDs /\ row[x[1]] # NoRow
      BY <1>1, <3>1 DEF ChoosersFollow
    <3>3. r.user \in Choosing
      BY <3>1 DEF Choosing
    <3>4. QED
      BY <2>2, <2>3, <3>2, <3>3
  <2>12. CreationsFollow'
    <3>1. SUFFICES ASSUME NEW j \in Calls \ {k}, NEW r, r = call[j], r.stage \in {"members", "adding"}
                   PROVE  LET d == r.channel IN
                          /\ d \in ChannelIDs /\ channel[d].state # "absent" /\ row'[d] = NoRow
                          /\ channel[d].public => r.org = Ecosystem
                          /\ r.stage = "members" /\ ~channel[d].public => members[d] = {}
                          /\ r.stage = "adding" =>
                               /\ \A v \in Choosing : Raced(v)
                               /\ ~channel[d].public =>
                                    \A v \in Users : ~Raced(v) /\ ~Missed(v, d) /\ orgId[v] # NoOrg =>
                                      (v \in members[d] \cup r.todo <=> orgId[v] \in {r.org, All})
      BY <1>1, <2>5, <2>7 DEF CreationsFollow, Creating, Raced, Missed
    <3>2. r.channel \in ChannelIDs /\ r.channel # c
      BY <1>1, <2>1, <3>1 DEF CreationsFollow, OneCreation, Creating
    <3>3. QED
      BY <1>1, <2>3, <3>1, <3>2 DEF CreationsFollow, Creating
  <2>13. OneCreation'
    BY <1>1, <2>5 DEF OneCreation, Creating
  <2>14. JoinersOK'
    <3>1. \A j \in Calls : call'[j].stage = "joining" => call'[j] = call[j]
      BY <2>5
    <3>2. \A d \in ChannelIDs :
            channel[d].public /\ row[d] \in {NoRow, Ecosystem} => row'[d] \in {NoRow, Ecosystem}
      BY <2>2, <2>3
    <3>3. QED
      BY <1>1, <3>1, <3>2 DEF JoinersOK
  <2>15. LinkersOK'
    <3>1. ASSUME NEW d, Linkable(d) PROVE Linkable(d)'
      BY <1>1, <2>1, <2>3, <3>1 DEF Linkable, named, TablesOK
    <3>2. QED
      BY <1>1, <2>5, <3>1 DEF LinkersOK
  <2>16. QED
    BY <2>6, <2>8, <2>9, <2>10, <2>11, <2>12, <2>13, <2>14, <2>15 DEF MembersInv
<1>4. QED
  BY <1>2, <1>3 DEF InsertRow

------------------------------------------------------------------------------
(* The choice of an organization.                                           *)

(* The channels to join or leave are listed. *)
LEMMA ListChannelsKeeps ==
  ASSUME MembersInv, NEW k \in Calls, ListChannels(k)
  PROVE  MembersInv'
<1> USE OrganizationsAssumption
<1> DEFINE listed == {<<c, row[c]>> : c \in {x \in Existing : row[x] \notin {NoRow, Ecosystem}}}
           halfway == \E j \in Calls : At(j, {"add"}, "adding")
           implicit == \E c \in Existing : row[c] = NoOrg
<1>1. PICK u :
      /\ u = call[k].user
      /\ TablesOK /\ CallsOK /\ OneChoice /\ SettledFollow
      /\ ChoosersFollow /\ CreationsFollow /\ OneCreation /\ JoinersOK /\ LinkersOK
      /\ CallOK(call[k]) /\ call[k].stage = "channels"
      /\ UNCHANGED <<channel, row, members, orgId>>
  BY DEF MembersInv, CallsOK, ListChannels, At, tables
<1>2. CASE Go(k, "failed", Idle) /\ UNCHANGED spoilt
  BY <1>1, <1>2, ChannelStepKeeps
<1>3. CASE /\ Go(k, "leaving", [call[k] EXCEPT !.todo = listed])
           /\ spoilt' = spoilt \cup {<<u, "raced">> : x \in {y \in {u} : halfway \/ implicit}}
  <2>1. DOMAIN call[k] = CallFields /\ call[k].kind = "set"
    BY <1>1 DEF CallOK
  <2>2. /\ \A v : ~Raced(v)' => ~Raced(v)
        /\ \A v, c : ~Missed(v, c)' => ~Missed(v, c)
        /\ halfway \/ implicit => Raced(u)'
    BY <1>3 DEF Raced, Missed
  <2> DEFINE known == [call[k] EXCEPT !.todo = listed]
  <2>3. /\ DOMAIN known = CallFields /\ known.kind = "set" /\ known.org = call[k].org
        /\ known.user = u /\ known.todo = listed
    BY <1>1, <2>1 DEF CallFields
  <2>4. Go(k, "leaving", known)
    BY <1>3
  <2> HIDE DEF known
  <2>5. /\ DOMAIN call' = Calls /\ \A j \in Calls \ {k} : call'[j] = call[j]
        /\ DOMAIN call'[k] = CallFields /\ call'[k].stage = "leaving"
        /\ call'[k].kind = "set" /\ call'[k].org = call[k].org
        /\ call'[k].user = u /\ call'[k].todo = listed
    BY <1>1, <2>3, <2>4, GoStage DEF Ended, CallFields
  <2>6. CallsOK'
    BY <1>1, <2>5 DEF CallsOK, CallOK
  <2>7. Choosing' = Choosing \cup {u}
    BY <1>1, <2>5 DEF Choosing
  <2>8. \A v : Setting(v)' = Setting(v)
    BY <1>1, <2>1, <2>5 DEF Setting, Active, Ended
  <2>9. /\ \A x \in listed : x[1] \in ChannelIDs /\ x[2] = row[x[1]] /\ row[x[1]] # NoRow
        /\ \A c \in ChannelIDs : Ours(c) => <<c, row[c]>> \in listed
    BY <1>1 DEF Existing, Ours, organizations
  <2>10. \A c \in ChannelIDs : Implicit(c) => implicit
    BY DEF Implicit, Existing
  <2>11. \A j \in Calls : call[j].stage = "adding" => halfway
    BY <1>1 DEF At, CallsOK, CallOK
  <2> HIDE DEF listed, halfway, implicit
  <2>12. TablesOK'
    BY <1>1 DEF TablesOK
  <2>13. OneChoice'
    BY <1>1, <2>1, <2>2, <2>5, <2>8 DEF OneChoice, Setting
  <2>14. SettledFollow'
    BY <1>1, <2>2, <2>7 DEF SettledFollow, Ours, Implicit, Follows
  <2>15. ChoosersFollow'
    <3>1. SUFFICES ASSUME NEW j \in Calls, NEW r, r = call'[j], r.stage = "leaving"
                   PROVE  /\ \A x \in r.todo : x[1] \in ChannelIDs /\ row[x[1]] # NoRow
                          /\ ~Raced(r.user)' =>
                               /\ \A x \in r.todo : x[2] = row[x[1]]
                               /\ \A c \in ChannelIDs :
                                    /\ ~Implicit(c)
                                    /\ Ours(c) => <<c, row[c]>> \in r.todo \/ Follows(r.user, r.org, c)
      BY <1>1 DEF ChoosersFollow, Ours, Implicit, Follows, Raced
    <3>2. CASE j # k
      BY <1>1, <2>2, <2>5, <3>1, <3>2 DEF ChoosersFollow
    <3>3. CASE j = k
      BY <2>2, <2>5, <2>9, <2>10, <3>1, <3>3
    <3>4. QED
      BY <3>2, <3>3
  <2>16. CreationsFollow'
    <3>1. SUFFICES ASSUME NEW j \in Calls \ {k}, NEW r, r = call[j], r.stage \in {"members", "adding"}
                   PROVE  LET c == r.channel IN
                          /\ c \in ChannelIDs /\ channel[c].state # "absent" /\ row[c] = NoRow
                          /\ channel[c].public => r.org = Ecosystem
                          /\ r.stage = "members" /\ ~channel[c].public => members[c] = {}
                          /\ r.stage = "adding" =>
                               /\ \A v \in Choosing' : Raced(v)'
                               /\ ~channel[c].public =>
                                    \A v \in Users : ~Raced(v)' /\ ~Missed(v, c)' /\ orgId[v] # NoOrg =>
                                      (v \in members[c] \cup r.todo <=> orgId[v] \in {r.org, All})
      BY <1>1, <2>5 DEF CreationsFollow, Creating, Missed
    <3>2. r.stage = "adding" => \A v \in Choosing \cup {u} : Raced(v)'
      BY <1>1, <2>2, <2>11, <3>1 DEF CreationsFollow, Creating
    <3>3. QED
      BY <1>1, <2>2, <2>7, <3>1, <3>2 DEF CreationsFollow, Creating
  <2>17. OneCreation'
    BY <1>1, <2>5 DEF OneCreation, Creating
  <2>18. JoinersOK'
    BY <1>1, <2>5 DEF JoinersOK
  <2>19. LinkersOK'
    BY <1>1, <2>5 DEF LinkersOK, Linkable, named
  <2>20. QED
    BY <2>6, <2>12, <2>13, <2>14, <2>15, <2>16, <2>17, <2>18, <2>19 DEF MembersInv
<1>4. QED
  BY <1>1, <1>2, <1>3 DEF ListChannels

(* They are joined or left one by one. *)
LEMMA JoinOrLeaveKeeps ==
  ASSUME MembersInv, NEW k \in Calls, JoinOrLeave(k)
  PROVE  MembersInv'
<1> USE OrganizationsAssumption
<1>1. PICK u, x :
      /\ u = call[k].user /\ x \in call[k].todo
      /\ TablesOK /\ CallsOK /\ OneChoice /\ SettledFollow
      /\ ChoosersFollow /\ CreationsFollow /\ OneCreation /\ JoinersOK /\ LinkersOK
      /\ CallOK(call[k]) /\ call[k].kind = "set" /\ call[k].stage = "leaving"
      /\ UNCHANGED <<channel, row, orgId>>
      /\ Go(k, "leaving", [call[k] EXCEPT !.todo = @ \ {x}])
      /\ \/ /\ members' = IF call[k].org \in {All, x[2]} /\ channel[x[1]].state = "archived"
                          THEN members
                          ELSE [members EXCEPT ![x[1]] =
                                  MembersAfter(@, u, call[k].org \in {All, x[2]})]
            /\ UNCHANGED spoilt
         \/ Spoil({u}, "raced") /\ UNCHANGED members
  BY DEF MembersInv, CallsOK, JoinOrLeave, At
<1>2. PICK c \in ChannelIDs : c = x[1] /\ row[c] # NoRow /\ channel[c].state # "absent"
  BY <1>1 DEF ChoosersFollow, TablesOK
<1>3. DOMAIN call[k] = CallFields /\ u \in Users
  BY <1>1 DEF CallOK
<1> DEFINE known == [call[k] EXCEPT !.todo = @ \ {x}]
<1>4. /\ DOMAIN known = CallFields /\ known.kind = "set" /\ known.org = call[k].org
      /\ known.user = u /\ known.todo = call[k].todo \ {x}
  BY <1>1, <1>3 DEF CallFields
<1>5. Go(k, "leaving", known)
  BY <1>1
<1> HIDE DEF known
<1>6. /\ DOMAIN call' = Calls /\ \A j \in Calls \ {k} : call'[j] = call[j]
      /\ DOMAIN call'[k] = CallFields /\ call'[k].stage = "leaving"
      /\ call'[k].kind = "set" /\ call'[k].org = call[k].org
      /\ call'[k].user = u /\ call'[k].todo = call[k].todo \ {x}
  BY <1>1, <1>4, <1>5, GoStage DEF Ended, CallFields
<1>7. /\ \A v : ~Raced(v)' => ~Raced(v)
      /\ \A v, d : ~Missed(v, d)' => ~Missed(v, d)
  BY <1>1 DEF Raced, Missed, Spoil
<1>8. /\ DOMAIN members' = ChannelIDs
      /\ \A d \in ChannelIDs \ {c} : members'[d] = members[d]
      /\ \A v \in Users \ {u} : v \in members'[c] <=> v \in members[c]
      /\ ~Raced(u)' /\ channel[c].state = "open" =>
           (u \in members'[c] <=> call[k].org \in {All, x[2]})
  <2>1. CASE members' = members /\ (Raced(u)' \/ channel[c].state = "archived")
    BY <1>1, <2>1 DEF TablesOK
  <2>2. CASE members' = [members EXCEPT ![c] = MembersAfter(@, u, call[k].org \in {All, x[2]})]
    BY <1>1, <2>2 DEF TablesOK, MembersAfter
  <2>3. Spoil({u}, "raced") => Raced(u)'
    BY DEF Spoil, Raced
  <2>4. QED
    BY <1>1, <1>2, <2>1, <2>2, <2>3
<1>9. CallsOK'
  BY <1>1, <1>3, <1>6 DEF CallsOK, CallOK
<1>10. Choosing' = Choosing /\ u \in Choosing
  BY <1>1, <1>6 DEF Choosing
<1>11. \A v : Setting(v)' = Setting(v)
  BY <1>1, <1>6 DEF Setting, Active, Ended
<1>12. TablesOK'
  BY <1>1, <1>2, <1>8 DEF TablesOK
<1>13. OneChoice'
  BY <1>1, <1>6, <1>7, <1>11 DEF OneChoice, Setting
<1>14. SettledFollow'
  BY <1>1, <1>7, <1>8, <1>10 DEF SettledFollow, Ours, Implicit, Follows
<1>15. ChoosersFollow'
  <2>1. SUFFICES ASSUME NEW j \in Calls, NEW r, r = call'[j], r.stage = "leaving"
                 PROVE  /\ \A y \in r.todo : y[1] \in ChannelIDs /\ row[y[1]] # NoRow
                        /\ ~Raced(r.user)' =>
                             /\ \A y \in r.todo : y[2] = row[y[1]]
                             /\ \A d \in ChannelIDs :
                                  /\ ~Implicit(d)
                                  /\ Ours(d) => \/ <<d, row[d]>> \in r.todo
                                                \/ r.user \in members'[d] <=> r.org \in {row[d], All}
    BY <1>1 DEF ChoosersFollow, Ours, Implicit, Follows, Raced
  <2>2. CASE j # k
    <3>1. r = call[j]
      BY <1>6, <2>1, <2>2
    <3>2. ~Raced(r.user) => r.user # u
      BY <1>1, <2>1, <2>2, <3>1 DEF OneChoice, Setting, Active, Ended, CallsOK, CallOK
    <3>3. r.user \in Users
      BY <1>1, <2>1, <3>1 DEF CallsOK, CallOK
    <3>4. QED
      BY <1>1, <1>7, <1>8, <2>1, <3>1, <3>2, <3>3 DEF ChoosersFollow, Follows
  <2>3. CASE j = k
    <3>1. /\ r.user = u /\ r.org = call[k].org /\ r.todo = call[k].todo \ {x}
      BY <1>6, <2>1, <2>3
    <3>2. \A y \in call[k].todo : y[1] \in ChannelIDs /\ row[y[1]] # NoRow
      BY <1>1 DEF ChoosersFollow
    <3>3. ASSUME ~Raced(u)'
          PROVE  /\ \A y \in call[k].todo : y[2] = row[y[1]]
                 /\ \A d \in ChannelIDs :
                      /\ ~Implicit(d)
                      /\ Ours(d) => \/ <<d, row[d]>> \in call[k].todo
                                    \/ u \in members[d] <=> call[k].org \in {row[d], All}
      BY <1>1, <1>7, <3>3 DEF ChoosersFollow, Follows
    <3>4. ASSUME ~Raced(u)', NEW d \in ChannelIDs, Ours(d)
          PROVE  \/ <<d, row[d]>> \in call[k].todo \ {x}
                 \/ u \in members'[d] <=> call[k].org \in {row[d], All}
      <4>1. CASE d = c
        BY <1>1, <1>2, <1>8, <3>3, <3>4, <4>1 DEF Ours
      <4>2. CASE d # c
        <5>1. <<d, row[d]>> # x
          BY <1>2, <4>2
        <5>2. QED
          BY <1>8, <3>3, <3>4, <4>2, <5>1
      <4>3. QED
        BY <4>1, <4>2
    <3>5. QED
      BY <3>1, <3>2, <3>3, <3>4
  <2>4. QED
    BY <2>2, <2>3
<1>16. CreationsFollow'
  <2>1. SUFFICES ASSUME NEW j \in Calls \ {k}, NEW r, r = call[j], r.stage \in {"members", "adding"}
                 PROVE  LET d == r.channel IN
                        /\ d \in ChannelIDs /\ channel[d].state # "absent" /\ row[d] = NoRow
                        /\ channel[d].public => r.org = Ecosystem
                        /\ r.stage = "members" /\ ~channel[d].public => members'[d] = {}
                        /\ r.stage = "adding" =>
                             /\ \A v \in Choosing : Raced(v)'
                             /\ ~channel[d].public =>
                                  \A v \in Users : ~Raced(v)' /\ ~Missed(v, d)' /\ orgId[v] # NoOrg =>
                                    (v \in members'[d] \cup r.todo <=> orgId[v] \in {r.org, All})
    BY <1>1, <1>6, <1>10 DEF CreationsFollow, Creating, Missed
  <2>2. r.channel \in ChannelIDs \ {c}
    BY <1>1, <1>2, <2>1 DEF CreationsFollow, Creating
  <2>3. \A v : Raced(v) => Raced(v)'
    BY <1>7
  <2>4. QED
    BY <1>1, <1>7, <1>8, <2>1, <2>2, <2>3 DEF CreationsFollow, Creating
<1>17. OneCreation'
  BY <1>1, <1>6 DEF OneCreation, Creating
<1>18. JoinersOK'
  BY <1>1, <1>6 DEF JoinersOK
<1>19. LinkersOK'
  BY <1>1, <1>6 DEF LinkersOK, Linkable, named
<1>20. QED
  BY <1>9, <1>12, <1>13, <1>14, <1>15, <1>16, <1>17, <1>18, <1>19 DEF MembersInv

(* The choice is stored when none is left. *)
LEMMA UpdateUserKeeps ==
  ASSUME MembersInv, NEW k \in Calls, UpdateUser(k)
  PROVE  MembersInv'
<1> USE OrganizationsAssumption
<1>1. PICK u, org :
      /\ u = call[k].user /\ org = call[k].org
      /\ TablesOK /\ CallsOK /\ OneChoice /\ SettledFollow
      /\ ChoosersFollow /\ CreationsFollow /\ OneCreation /\ JoinersOK /\ LinkersOK
      /\ CallOK(call[k]) /\ call[k].kind = "set" /\ call[k].stage = "leaving"
      /\ call[k].todo = {}
      /\ UNCHANGED <<channel, row, members>>
  BY DEF MembersInv, CallsOK, UpdateUser, At
<1>2. CASE Go(k, "failed", Idle) /\ Spoil({u}, "raced") /\ UNCHANGED orgId
  <2>1. spoilt \subseteq spoilt' /\ <<u, "raced">> \in spoilt'
    BY <1>2 DEF Spoil
  <2>2. QED
    BY <1>1, <1>2, <2>1, ChannelStepKeeps
<1>3. CASE /\ orgId' = [orgId EXCEPT ![u] = org]
           /\ Go(k, "categories", call[k])
           /\ UNCHANGED spoilt
  <2>1. DOMAIN call[k] = CallFields /\ u \in Users
    BY <1>1 DEF CallOK
  <2>2. /\ DOMAIN call' = Calls /\ \A j \in Calls \ {k} : call'[j] = call[j]
        /\ DOMAIN call'[k] = CallFields /\ call'[k].stage = "categories"
        /\ call'[k].kind = "set" /\ call'[k].org = org /\ call'[k].user = u
    BY <1>1, <1>3, <2>1, GoStage DEF Ended, CallFields
  <2>3. /\ DOMAIN orgId' = Users /\ orgId'[u] = org
        /\ \A v \in Users \ {u} : orgId'[v] = orgId[v]
    BY <1>1, <1>3, <2>1 DEF TablesOK
  <2>4. ASSUME ~Raced(u), NEW c \in ChannelIDs
        PROVE  ~Implicit(c) /\ (Ours(c) => Follows(u, org, c))
    BY <1>1, <2>4 DEF ChoosersFollow
  <2>5. CallsOK'
    BY <1>1, <2>1, <2>2 DEF CallsOK, CallOK
  <2>6. u \in Choosing /\ Choosing' \subseteq Choosing /\ Choosing \subseteq Choosing' \cup {u}
    BY <1>1, <2>2 DEF Choosing
  <2>7. \A v : Setting(v)' = Setting(v)
    BY <1>1, <2>2 DEF Setting, Active, Ended
  <2>8. TablesOK'
    BY <1>1, <2>3 DEF TablesOK
  <2>9. OneChoice'
    BY <1>1, <1>3, <2>2, <2>7 DEF OneChoice, Setting, Raced
  <2>10. SettledFollow'
    <3>1. SUFFICES ASSUME NEW v \in Users \ Choosing', ~Raced(v), NEW o, o = orgId'[v], o # NoOrg,
                          NEW c \in ChannelIDs, ~Missed(v, c)
                   PROVE  /\ Ours(c) => Follows(v, o, c)
                          /\ Implicit(c) /\ channel[c].state = "open" => o = All /\ v \in members[c]
      BY <1>1, <1>3 DEF SettledFollow, Ours, Implicit, Follows, Raced, Missed
    <3>2. CASE v = u
      BY <2>3, <2>4, <3>1, <3>2
    <3>3. CASE v # u
      BY <1>1, <2>3, <2>6, <3>1, <3>3 DEF SettledFollow
    <3>4. QED
      BY <3>2, <3>3
  <2>11. ChoosersFollow'
    BY <1>1, <1>3, <2>2 DEF ChoosersFollow, Ours, Implicit, Follows, Raced
  <2>12. CreationsFollow'
    <3>1. SUFFICES ASSUME NEW j \in Calls \ {k}, NEW r, r = call[j], r.stage \in {"members", "adding"}
                   PROVE  LET d == r.channel IN
                          /\ d \in ChannelIDs /\ channel[d].state # "absent" /\ row[d] = NoRow
                          /\ channel[d].public => r.org = Ecosystem
                          /\ r.stage = "members" /\ ~channel[d].public => members[d] = {}
                          /\ r.stage = "adding" =>
                               /\ \A v \in Choosing' : Raced(v)
                               /\ ~channel[d].public =>
                                    \A v \in Users : ~Raced(v) /\ ~Missed(v, d) /\ orgId'[v] # NoOrg =>
                                      (v \in members[d] \cup r.todo <=> orgId'[v] \in {r.org, All})
      BY <1>1, <1>3, <2>2 DEF CreationsFollow, Creating, Raced, Missed
    <3>2. r.stage = "adding" => Raced(u)
      BY <1>1, <2>6, <3>1 DEF CreationsFollow, Creating
    <3>3. QED
      BY <1>1, <2>3, <2>6, <3>1, <3>2 DEF CreationsFollow, Creating
  <2>13. OneCreation'
    BY <1>1, <2>2 DEF OneCreation, Creating
  <2>14. JoinersOK'
    BY <1>1, <2>2 DEF JoinersOK
  <2>15. LinkersOK'
    BY <1>1, <2>2 DEF LinkersOK, Linkable, named
  <2>16. QED
    BY <2>5, <2>8, <2>9, <2>10, <2>11, <2>12, <2>13, <2>14, <2>15 DEF MembersInv
<1>4. QED
  BY <1>1, <1>2, <1>3 DEF UpdateUser

------------------------------------------------------------------------------
(* The steps of the others.                                                 *)

(* A channel is archived, a user loses the organization, or nothing of it  *)
(* happens.                                                                *)
LEMMA QuietKeeps ==
  ASSUME MembersInv, UNCHANGED <<row, members, call>>, spoilt \subseteq spoilt',
         DOMAIN channel' = ChannelIDs,
         \A c \in ChannelIDs :
           /\ DOMAIN channel'[c] = ChannelFields
           /\ channel'[c].named = channel[c].named /\ channel'[c].public = channel[c].public
           /\ \/ channel'[c].state = channel[c].state
              \/ channel[c].state = "open" /\ channel'[c].state = "archived",
         DOMAIN orgId' = Users, \A u \in Users : orgId'[u] \in {orgId[u], NoOrg}
  PROVE  MembersInv'
<1>1. /\ TablesOK /\ CallsOK /\ OneChoice /\ SettledFollow
      /\ ChoosersFollow /\ CreationsFollow /\ OneCreation /\ JoinersOK /\ LinkersOK
  BY DEF MembersInv
<1>2. /\ \A u : (~Raced(u)' => ~Raced(u)) /\ (Raced(u) => Raced(u)')
      /\ \A u, c : ~Missed(u, c)' => ~Missed(u, c)
  BY DEF Raced, Missed
<1>3. \A c \in ChannelIDs : /\ Ours(c)' => Ours(c)
                            /\ Implicit(c)' <=> Implicit(c)
                            /\ channel'[c].state = "absent" <=> channel[c].state = "absent"
                            /\ channel'[c].state = "open" => channel[c].state = "open"
  BY DEF Ours, Implicit
<1>4. \A u, org : \A c \in ChannelIDs : Follows(u, org, c)' <=> Follows(u, org, c)
  <2>1. TAKE u, org
  <2>2. TAKE c \in ChannelIDs
  <2>3. QED
    BY DEF Follows
<1>5. TablesOK'
  BY <1>1, <1>3 DEF TablesOK
<1>6. CallsOK'
  BY <1>1 DEF CallsOK
<1>7. OneChoice'
  BY <1>1, <1>2 DEF OneChoice, Setting, Active
<1>8. Choosing' = Choosing
  BY DEF Choosing
<1>9. SettledFollow'
  <2>1. SUFFICES ASSUME NEW u \in Users \ Choosing, ~Raced(u)', orgId'[u] # NoOrg,
                        NEW c \in ChannelIDs, ~Missed(u, c)'
                 PROVE  /\ Ours(c) => Follows(u, orgId[u], c)
                        /\ Implicit(c) /\ channel[c].state = "open" =>
                             orgId[u] = All /\ u \in members[c]
    BY <1>3, <1>4, <1>8 DEF SettledFollow, Follows
  <2>2. QED
    BY <1>1, <1>2, <2>1 DEF SettledFollow
<1>10. ChoosersFollow'
  <2>1. SUFFICES ASSUME NEW j \in Calls, NEW r, r = call[j], r.stage = "leaving"
                 PROVE  /\ \A x \in r.todo : x[1] \in ChannelIDs /\ row[x[1]] # NoRow
                        /\ ~Raced(r.user)' =>
                             /\ \A x \in r.todo : x[2] = row[x[1]]
                             /\ \A c \in ChannelIDs :
                                  /\ ~Implicit(c)
                                  /\ Ours(c) => <<c, row[c]>> \in r.todo \/ Follows(r.user, r.org, c)
    BY <1>3, <1>4 DEF ChoosersFollow, Raced, Follows
  <2>2. QED
    BY <1>1, <1>2, <2>1 DEF ChoosersFollow
<1>11. CreationsFollow'
  <2>1. SUFFICES ASSUME NEW j \in Calls, NEW r, r = call[j], r.stage \in {"members", "adding"}
                 PROVE  LET d == r.channel IN
                        /\ d \in ChannelIDs /\ channel[d].state # "absent" /\ row[d] = NoRow
                        /\ channel[d].public => r.org = Ecosystem
                        /\ r.stage = "members" /\ ~channel[d].public => members[d] = {}
                        /\ r.stage = "adding" =>
                             /\ \A v \in Choosing : Raced(v)
                             /\ ~channel[d].public =>
                                  \A v \in Users : ~Raced(v) /\ ~Missed(v, d) /\ orgId'[v] # NoOrg =>
                                    (v \in members[d] \cup r.todo <=> orgId'[v] \in {r.org, All})
    BY <1>2, <1>3, <1>8 DEF CreationsFollow, Creating
  <2>2. QED
    BY <1>1, <2>1 DEF CreationsFollow, Creating
<1>12. OneCreation'
  BY <1>1 DEF OneCreation, Creating
<1>13. JoinersOK'
  BY <1>1, <1>3 DEF JoinersOK
<1>14. LinkersOK'
  <2>1. \A d : Linkable(d) => Linkable(d)'
    BY DEF Linkable, named
  <2>2. QED
    BY <1>1, <2>1 DEF LinkersOK
<1>15. QED
  BY <1>5, <1>6, <1>7, <1>9, <1>10, <1>11, <1>12, <1>13, <1>14 DEF MembersInv

(* ArchiveChannels, ArchiveIssueChannels, and the command that resets the  *)
(* organization.                                                           *)
LEMMA ArchiveOrResetKeeps ==
  ASSUME MembersInv,
         \/ \E c \in ChannelIDs : ArchiveChannel(c)
         \/ \E u \in Users : ResetUserOrganization(u)
  PROVE  MembersInv'
<1>1. TablesOK
  BY DEF MembersInv
<1>2. ASSUME NEW c \in ChannelIDs, ArchiveChannel(c) PROVE MembersInv'
  <2> DEFINE archived == [channel[c] EXCEPT !.state = "archived"]
  <2>1. channel' = [channel EXCEPT ![c] = archived] /\ channel[c].state = "open"
    BY <1>2 DEF ArchiveChannel
  <2>2. /\ DOMAIN archived = ChannelFields /\ archived.named = channel[c].named
        /\ archived.public = channel[c].public /\ archived.state = "archived"
    BY <1>1 DEF TablesOK, ChannelFields
  <2> HIDE DEF archived
  <2>3. /\ DOMAIN channel' = ChannelIDs /\ channel'[c] = archived
        /\ \A d \in ChannelIDs \ {c} : channel'[d] = channel[d]
    BY <1>1, <2>1 DEF TablesOK
  <2>4. UNCHANGED <<row, members, call, orgId, spoilt>>
    BY <1>2 DEF ArchiveChannel
  <2>5. QED
    BY <1>1, <2>1, <2>2, <2>3, <2>4, QuietKeeps DEF TablesOK
<1>3. ASSUME NEW u \in Users, ResetUserOrganization(u) PROVE MembersInv'
  <2>1. /\ UNCHANGED <<channel, row, members, call>> /\ spoilt \subseteq spoilt'
        /\ orgId' = [orgId EXCEPT ![u] = NoOrg]
    BY <1>3 DEF ResetUserOrganization, Spoil
  <2>2. QED
    BY <1>1, <2>1, QuietKeeps DEF TablesOK
<1>4. QED
  BY <1>2, <1>3

(* UserAdded lists the public channels that belong to no organization.     *)
LEMMA ListPublicChannelsKeeps ==
  ASSUME MembersInv, NEW k \in Calls, ListPublicChannels(k)
  PROVE  MembersInv'
<1>1. /\ TablesOK /\ CallsOK /\ CallOK(call[k]) /\ call[k].stage = "public" /\ call[k].kind = "added"
      /\ UNCHANGED <<channel, row, members, orgId, spoilt>>
  BY DEF MembersInv, CallsOK, ListPublicChannels, At, tables
<1>2. CASE Go(k, "failed", Idle)
  BY <1>1, <1>2, ChannelStepKeeps
<1>3. ASSUME NEW page \in ChannelPages,
             Go(k, "joining", [call[k] EXCEPT !.todo =
               {c \in page : /\ channel[c].state = "open" /\ channel[c].public
                             /\ row[c] \in {NoRow, Ecosystem}}])
      PROVE  MembersInv'
  <2> DEFINE listed == {c \in page : /\ channel[c].state = "open" /\ channel[c].public
                                     /\ row[c] \in {NoRow, Ecosystem}}
             known == [call[k] EXCEPT !.todo = listed]
  <2>0. Go(k, "joining", known) /\ page \subseteq ChannelIDs
    BY <1>3, PluginAssumption
  <2>1. DOMAIN known = CallFields /\ known.kind = "added" /\ known.todo = listed
    BY <1>1 DEF CallFields, CallOK
  <2> HIDE DEF known
  <2>2. /\ DOMAIN call' = Calls /\ \A j \in Calls \ {k} : call'[j] = call[j]
        /\ DOMAIN call'[k] = CallFields /\ call'[k].stage = "joining"
        /\ call'[k].kind = "added" /\ call'[k].todo = listed
    BY <1>1, <2>0, <2>1, GoStage DEF Ended, CallFields
  <2>3. \A c \in listed : c \in ChannelIDs /\ channel[c].public
                          /\ channel[c].state # "absent" /\ row[c] \in {NoRow, Ecosystem}
    BY <2>0
  <2> HIDE DEF listed
  <2>4. CallOK(call'[k])
    BY <2>2 DEF CallOK
  <2>5. QED
    BY <1>1, <2>2, <2>3, <2>4, HarmlessKeeps DEF TablesOK
<1>4. QED
  BY <1>2, <1>3 DEF ListPublicChannels

(* They are joined one by one, whatever organization the user has. *)
LEMMA JoinPublicChannelKeeps ==
  ASSUME MembersInv, NEW k \in Calls, JoinPublicChannel(k)
  PROVE  MembersInv'
<1> USE OrganizationsAssumption
<1>1. PICK u :
      /\ u = call[k].user
      /\ TablesOK /\ CallsOK /\ OneChoice /\ SettledFollow
      /\ ChoosersFollow /\ CreationsFollow /\ OneCreation /\ JoinersOK /\ LinkersOK
      /\ CallOK(call[k]) /\ call[k].stage = "joining"
      /\ UNCHANGED <<channel, row, orgId, spoilt>>
  BY DEF MembersInv, CallsOK, JoinPublicChannel, At
<1>2. CASE (Go(k, "failed", Idle) \/ Go(k, "ok", Idle)) /\ UNCHANGED members
  BY <1>1, <1>2, ChannelStepKeeps
<1>3. ASSUME NEW c \in call[k].todo,
             members' = [members EXCEPT ![c] = @ \cup {u}],
             Go(k, "joining", [call[k] EXCEPT !.todo = @ \ {c}])
      PROVE  MembersInv'
  <2>1. /\ c \in ChannelIDs /\ channel[c].public /\ channel[c].state # "absent"
        /\ row[c] \in {NoRow, Ecosystem}
    BY <1>1, <1>3 DEF JoinersOK
  <2>2. DOMAIN call[k] = CallFields /\ call[k].kind = "added"
    BY <1>1 DEF CallOK
  <2> DEFINE known == [call[k] EXCEPT !.todo = @ \ {c}]
  <2>3. DOMAIN known = CallFields /\ known.kind = "added" /\ known.todo = call[k].todo \ {c}
    BY <2>2 DEF CallFields
  <2>4. Go(k, "joining", known)
    BY <1>3
  <2> HIDE DEF known
  <2>5. /\ DOMAIN call' = Calls /\ \A j \in Calls \ {k} : call'[j] = call[j]
        /\ DOMAIN call'[k] = CallFields /\ call'[k].stage = "joining"
        /\ call'[k].kind = "added" /\ call'[k].todo = call[k].todo \ {c}
    BY <1>1, <2>3, <2>4, GoStage DEF Ended, CallFields
  <2>6. /\ DOMAIN members' = ChannelIDs
        /\ \A d \in ChannelIDs \ {c} : members'[d] = members[d]
    BY <1>1, <1>3, <2>1 DEF TablesOK
  <2>7. CallsOK'
    BY <1>1, <2>5 DEF CallsOK, CallOK
  <2>8. Choosing' = Choosing /\ \A v : Setting(v)' = Setting(v)
    BY <1>1, <2>2, <2>5 DEF Choosing, Setting, Active
  <2>9. TablesOK'
    BY <1>1, <2>1, <2>6 DEF TablesOK
  <2>10. OneChoice'
    BY <1>1, <2>2, <2>5, <2>8 DEF OneChoice, Setting, Raced
  <2>11. SettledFollow'
    BY <1>1, <2>1, <2>6, <2>8 DEF SettledFollow, Ours, Implicit, Follows, Raced, Missed, organizations
  <2>12. ChoosersFollow'
    BY <1>1, <2>1, <2>5, <2>6 DEF ChoosersFollow, Ours, Implicit, Follows, Raced, organizations
  <2>13. CreationsFollow'
    <3>1. SUFFICES ASSUME NEW j \in Calls \ {k}, NEW r, r = call[j], r.stage \in {"members", "adding"}
                   PROVE  LET d == r.channel IN
                          /\ d \in ChannelIDs /\ channel[d].state # "absent" /\ row[d] = NoRow
                          /\ channel[d].public => r.org = Ecosystem
                          /\ r.stage = "members" /\ ~channel[d].public => members'[d] = {}
                          /\ r.stage = "adding" =>
                               /\ \A v \in Choosing : Raced(v)
                               /\ ~channel[d].public =>
                                    \A v \in Users : ~Raced(v) /\ ~Missed(v, d) /\ orgId[v] # NoOrg =>
                                      (v \in members'[d] \cup r.todo <=> orgId[v] \in {r.org, All})
      BY <1>1, <2>5, <2>8 DEF CreationsFollow, Creating, Raced, Missed
    <3>2. QED
      BY <1>1, <2>1, <2>6, <3>1 DEF CreationsFollow, Creating
  <2>14. OneCreation'
    BY <1>1, <2>5 DEF OneCreation, Creating
  <2>15. JoinersOK'
    BY <1>1, <2>5 DEF JoinersOK
  <2>16. LinkersOK'
    BY <1>1, <2>5 DEF LinkersOK, Linkable, named
  <2>17. QED
    BY <2>7, <2>9, <2>10, <2>11, <2>12, <2>13, <2>14, <2>15, <2>16 DEF MembersInv
<1>4. QED
  BY <1>1, <1>2, <1>3 DEF JoinPublicChannel

------------------------------------------------------------------------------
(* The page of the user.                                                    *)

PickerFields == {"props", "fetch", "selected", "disabled", "modal", "invalid"}

(* Only an organization to choose is sent. *)
PickersOK ==
  /\ DOMAIN picker = Users
  /\ \A u \in Users : LET p == picker[u] IN
       /\ DOMAIN p = PickerFields
       /\ p.disabled \in BOOLEAN /\ p.modal \in BOOLEAN
       /\ p.selected \in Selectable \cup {NoOrg}
       /\ p.modal => p.selected \in Selectable

(* The page p becomes q when the organization org is shown. *)
ShownAs(q, p, org) ==
  /\ DOMAIN q = PickerFields
  /\ q.modal = p.modal /\ q.fetch = p.fetch
  /\ q.selected = IF org \in Selectable THEN org ELSE p.selected
  /\ q.disabled = IF org \in Selectable THEN TRUE ELSE p.disabled

(* So it is after the properties, or a choice. *)
LEMMA Shown ==
  ASSUME NEW p, NEW org, DOMAIN p = PickerFields
  PROVE  ShownAs(WithProps(p, org), p, org)
<1> DEFINE shown == [p EXCEPT !.props = org, !.selected = org, !.disabled = TRUE]
           kept == [p EXCEPT !.props = org]
<1>1. /\ DOMAIN shown = PickerFields /\ shown.modal = p.modal /\ shown.fetch = p.fetch
      /\ shown.selected = org /\ shown.disabled = TRUE
  BY DEF PickerFields
<1>2. /\ DOMAIN kept = PickerFields /\ kept.modal = p.modal /\ kept.fetch = p.fetch
      /\ kept.selected = p.selected /\ kept.disabled = p.disabled
  BY DEF PickerFields
<1>3. WithProps(p, org) = IF org \in Selectable THEN shown ELSE kept
  BY DEF WithProps
<1> HIDE DEF shown, kept
<1>4. QED
  BY <1>1, <1>2, <1>3 DEF ShownAs

(* What the steps of the page make of it. *)
LEMMA PickerSteps ==
  ASSUME PickersOK, NEW u \in Users
  PROVE  /\ GetUserProps(u) \/ (\E org \in Selectable : SelectOrganization(u, org))
              \/ TypePassword(u) \/ closeModal(u) \/ SetUserProps(u)
            => /\ DOMAIN picker' = Users
               /\ \A v \in Users \ {u} : picker'[v] = picker[v]
               /\ DOMAIN picker'[u] = PickerFields
         /\ GetUserProps(u) => /\ picker'[u].modal = picker[u].modal
                               /\ picker'[u].disabled = picker[u].disabled
                               /\ picker'[u].selected = picker[u].selected
                               /\ picker'[u].fetch = orgId[u]
         /\ TypePassword(u) => /\ picker'[u].modal = picker[u].modal
                               /\ picker'[u].disabled = picker[u].disabled
                               /\ picker'[u].selected = picker[u].selected
                               /\ picker'[u].fetch = picker[u].fetch
         /\ closeModal(u) => /\ picker'[u].modal = FALSE /\ picker'[u].disabled = FALSE
                             /\ picker'[u].selected = NoOrg
                             /\ picker'[u].fetch = picker[u].fetch
         /\ SetUserProps(u) =>
              /\ picker'[u].modal = picker[u].modal
              /\ picker'[u].fetch = "done"
              /\ LET org == picker[u].fetch IN
                 /\ picker'[u].selected = IF org \in Selectable THEN org ELSE picker[u].selected
                 /\ picker'[u].disabled = IF org \in Selectable THEN TRUE ELSE picker[u].disabled
         /\ \A org \in Selectable : SelectOrganization(u, org) =>
              /\ ~picker[u].disabled /\ ~picker[u].modal
              /\ picker'[u].modal = (org = All)
              /\ picker'[u].fetch = picker[u].fetch
              /\ picker'[u].selected = org
              /\ picker'[u].disabled = (org # All)
<1> DEFINE p == picker[u]
           Becomes(q) == picker' = [picker EXCEPT ![u] = q]
<1>1. DOMAIN picker = Users /\ DOMAIN p = PickerFields
      /\ p.disabled \in BOOLEAN /\ p.modal \in BOOLEAN
  BY DEF PickersOK
<1>2. ASSUME NEW q, Becomes(q)
      PROVE  /\ DOMAIN picker' = Users /\ picker'[u] = q
             /\ \A v \in Users \ {u} : picker'[v] = picker[v]
  BY <1>1, <1>2
<1>3. ASSUME GetUserProps(u)
      PROVE  LET q == [p EXCEPT !.fetch = orgId[u]] IN
             /\ Becomes(q) /\ DOMAIN q = PickerFields
             /\ q.modal = p.modal /\ q.disabled = p.disabled /\ q.selected = p.selected
             /\ q.fetch = orgId[u]
  BY <1>1, <1>3 DEF GetUserProps, PickerFields
<1>4. ASSUME TypePassword(u)
      PROVE  LET q == [p EXCEPT !.invalid = FALSE] IN
             /\ Becomes(q) /\ DOMAIN q = PickerFields
             /\ q.modal = p.modal /\ q.disabled = p.disabled /\ q.selected = p.selected
             /\ q.fetch = p.fetch
  BY <1>1, <1>4 DEF TypePassword, PickerFields
<1>5. ASSUME closeModal(u)
      PROVE  LET q == [p EXCEPT !.modal = FALSE, !.selected = NoOrg, !.disabled = FALSE,
                               !.invalid = FALSE] IN
             /\ Becomes(q) /\ DOMAIN q = PickerFields
             /\ q.modal = FALSE /\ q.disabled = FALSE /\ q.selected = NoOrg
             /\ q.fetch = p.fetch
  BY <1>1, <1>5 DEF closeModal, PickerFields
<1>6. ASSUME SetUserProps(u)
      PROVE  LET d == [p EXCEPT !.fetch = "done"] IN
             /\ Becomes(WithProps(d, p.fetch)) /\ DOMAIN d = PickerFields
             /\ d.modal = p.modal /\ d.disabled = p.disabled /\ d.selected = p.selected
             /\ d.fetch = "done"
  BY <1>1, <1>6 DEF SetUserProps, PickerFields
<1>7. ASSUME NEW org \in Selectable, SelectOrganization(u, org), org = All
      PROVE  LET q == [p EXCEPT !.selected = All, !.modal = TRUE] IN
             /\ Becomes(q) /\ DOMAIN q = PickerFields
             /\ ~p.disabled /\ ~p.modal
             /\ q.modal = TRUE /\ q.disabled = p.disabled /\ q.selected = All
             /\ q.fetch = p.fetch
  BY <1>1, <1>7 DEF SelectOrganization, PickerFields
<1>8. ASSUME NEW org \in Selectable, SelectOrganization(u, org), org # All
      PROVE  Becomes(WithProps(p, org)) /\ ~p.disabled /\ ~p.modal
  BY <1>8 DEF SelectOrganization
<1> HIDE DEF p, Becomes
<1>9. ASSUME GetUserProps(u)
      PROVE  /\ DOMAIN picker' = Users /\ \A v \in Users \ {u} : picker'[v] = picker[v]
             /\ DOMAIN picker'[u] = PickerFields
             /\ picker'[u].modal = p.modal /\ picker'[u].disabled = p.disabled
             /\ picker'[u].selected = p.selected /\ picker'[u].fetch = orgId[u]
  BY <1>2, <1>3, <1>9
<1>10. ASSUME TypePassword(u)
      PROVE  /\ DOMAIN picker' = Users /\ \A v \in Users \ {u} : picker'[v] = picker[v]
             /\ DOMAIN picker'[u] = PickerFields
             /\ picker'[u].modal = p.modal /\ picker'[u].disabled = p.disabled
             /\ picker'[u].selected = p.selected /\ picker'[u].fetch = p.fetch
  BY <1>2, <1>4, <1>10
<1>11. ASSUME closeModal(u)
      PROVE  /\ DOMAIN picker' = Users /\ \A v \in Users \ {u} : picker'[v] = picker[v]
             /\ DOMAIN picker'[u] = PickerFields
             /\ picker'[u].modal = FALSE /\ picker'[u].disabled = FALSE
             /\ picker'[u].selected = NoOrg /\ picker'[u].fetch = p.fetch
  BY <1>2, <1>5, <1>11
<1>12. ASSUME SetUserProps(u)
      PROVE  /\ DOMAIN picker' = Users /\ \A v \in Users \ {u} : picker'[v] = picker[v]
             /\ DOMAIN picker'[u] = PickerFields
             /\ picker'[u].modal = p.modal /\ picker'[u].fetch = "done"
             /\ picker'[u].selected = IF p.fetch \in Selectable THEN p.fetch ELSE p.selected
             /\ picker'[u].disabled = IF p.fetch \in Selectable THEN TRUE ELSE p.disabled
  <2>1. PICK d, org, q :
          /\ org = p.fetch /\ q = WithProps(d, org) /\ Becomes(q)
          /\ DOMAIN d = PickerFields
          /\ d.modal = p.modal /\ d.disabled = p.disabled /\ d.selected = p.selected
          /\ d.fetch = "done"
    BY <1>6, <1>12
  <2>2. /\ DOMAIN picker' = Users /\ \A v \in Users \ {u} : picker'[v] = picker[v]
        /\ picker'[u] = q
    BY <1>2, <2>1
  <2>3. ShownAs(q, d, org)
    BY <2>1, Shown
  <2>4. QED
    BY <2>1, <2>2, <2>3 DEF ShownAs
<1>13. ASSUME NEW org \in Selectable, SelectOrganization(u, org)
      PROVE  /\ DOMAIN picker' = Users /\ \A v \in Users \ {u} : picker'[v] = picker[v]
             /\ DOMAIN picker'[u] = PickerFields
             /\ ~p.disabled /\ ~p.modal
             /\ picker'[u].modal = (org = All) /\ picker'[u].disabled = (org # All)
             /\ picker'[u].selected = org /\ picker'[u].fetch = p.fetch
  <2>1. CASE org = All
    BY <1>1, <1>2, <1>7, <1>13, <2>1
  <2>2. CASE org # All
    <3>1. PICK d, q : d = p /\ q = WithProps(d, org) /\ Becomes(q) /\ ~p.disabled /\ ~p.modal
      BY <1>8, <1>13, <2>2
    <3>2. /\ DOMAIN picker' = Users /\ \A v \in Users \ {u} : picker'[v] = picker[v]
          /\ picker'[u] = q /\ DOMAIN d = PickerFields
      BY <1>1, <1>2, <3>1 DEF p
    <3>3. ShownAs(q, d, org)
      BY <3>1, <3>2, Shown
    <3>4. QED
      BY <1>1, <1>13, <2>2, <3>1, <3>2, <3>3 DEF ShownAs
  <2>3. QED
    BY <2>1, <2>2
<1>14. QED
  BY <1>9, <1>10, <1>11, <1>12, <1>13 DEF p

(* What the answer makes of it. *)
LEMMA AnswerShown ==
  ASSUME PickersOK, CallsOK, NEW k \in Calls, SetOrganizationAnswered(k), NEW u, u = call[k].user
  PROVE  /\ u \in Users /\ DOMAIN picker' = Users
         /\ \A v \in Users \ {u} : picker'[v] = picker[v]
         /\ DOMAIN picker'[u] = PickerFields
         /\ picker'[u].fetch = picker[u].fetch
         /\ IF call[k].password # "none" /\ call[k].stage = "ok"
            THEN /\ picker'[u].modal = FALSE /\ picker'[u].disabled = TRUE
                 /\ picker'[u].selected = call[k].org
            ELSE /\ picker'[u].modal = picker[u].modal
                 /\ picker'[u].disabled = picker[u].disabled
                 /\ picker'[u].selected = picker[u].selected
<1>1. PICK p, org :
      /\ p = picker[u] /\ org = call[k].org /\ org \in Selectable /\ u \in Users
      /\ DOMAIN picker = Users /\ DOMAIN p = PickerFields
  BY DEF PickersOK, CallsOK, CallOK, SetOrganizationAnswered
<1> DEFINE closed == [p EXCEPT !.modal = FALSE]
           refused == [p EXCEPT !.invalid = TRUE]
<1>2. /\ DOMAIN closed = PickerFields /\ closed.modal = FALSE /\ closed.fetch = p.fetch
      /\ DOMAIN refused = PickerFields /\ refused.modal = p.modal /\ refused.fetch = p.fetch
      /\ refused.disabled = p.disabled /\ refused.selected = p.selected
  BY <1>1 DEF PickerFields
<1>3. picker' = [picker EXCEPT ![u] =
        IF call[k].password = "none" THEN p
        ELSE IF call[k].stage = "ok" THEN WithProps(closed, org)
        ELSE refused]
  BY <1>1 DEF SetOrganizationAnswered
<1> HIDE DEF closed, refused
<1>4. ShownAs(WithProps(closed, org), closed, org)
  BY <1>2, Shown
<1>5. PICK q : q = WithProps(closed, org)
  OBVIOUS
<1>6. /\ DOMAIN picker' = Users /\ \A v \in Users \ {u} : picker'[v] = picker[v]
      /\ picker'[u] = IF call[k].password = "none" THEN p
                      ELSE IF call[k].stage = "ok" THEN q
                      ELSE refused
  BY <1>1, <1>3, <1>5
<1>7. ShownAs(q, closed, org)
  BY <1>4, <1>5
<1>8. QED
  BY <1>1, <1>2, <1>6, <1>7 DEF ShownAs

(* The steps that leave the page alone. *)
LEMMA OtherSteps ==
  ASSUME Next
  PROVE  \/ UNCHANGED picker
         \/ \E u \in Users :
              \/ GetUserProps(u) \/ TypePassword(u) \/ closeModal(u) \/ SetUserProps(u)
              \/ \E org \in Selectable : SelectOrganization(u, org)
         \/ \E k \in Calls : SetOrganizationAnswered(k)
<1>1. ASSUME NEW k \in Calls, CleanStep(k)
      PROVE  UNCHANGED picker
  BY <1>1 DEF CleanStep, GetCategories, cleanCategories, LinkChannelToOrganization, ChooseStrategy,
     setupCategories, CreateMissing, ReadCategoriesToFile, FileChannels, CreateEcosystem,
     GetAllChannels, PurgeCategories, DeleteCategories, Update
<1>2. ASSUME NEW k \in Calls,
             \/ GetUser(k) \/ ListChannels(k) \/ JoinOrLeave(k) \/ UpdateUser(k)
             \/ ListPublicChannels(k) \/ JoinPublicChannel(k)
      PROVE  UNCHANGED picker
  BY <1>2 DEF GetUser, ListChannels, JoinOrLeave, UpdateUser, ListPublicChannels, JoinPublicChannel
<1>3. ASSUME NEW u \in Users,
             \/ \E password \in {"right", "wrong"} : ConfirmPassword(u, password)
             \/ userAdded(u) \/ ResetUserOrganization(u)
      PROVE  UNCHANGED picker
  BY <1>3 DEF ConfirmPassword, userAdded, ResetUserOrganization
<1>4. QED
  BY <1>1, <1>2, <1>3 DEF Next

(* The types of the page are kept by every step. *)
LEMMA PickersKeep ==
  ASSUME PickersOK, CallsOK, [Next]_vars
  PROVE  PickersOK'
<1>1. CASE UNCHANGED picker
  BY <1>1 DEF PickersOK
<1>2. ASSUME NEW u \in Users,
             \/ GetUserProps(u) \/ TypePassword(u) \/ closeModal(u) \/ SetUserProps(u)
             \/ \E org \in Selectable : SelectOrganization(u, org)
      PROVE  PickersOK'
  <2>1. /\ DOMAIN picker' = Users
        /\ \A v \in Users \ {u} : picker'[v] = picker[v]
        /\ DOMAIN picker'[u] = PickerFields
    BY <1>2, PickerSteps
  <2>2. /\ picker'[u].disabled \in BOOLEAN /\ picker'[u].modal \in BOOLEAN
        /\ picker'[u].selected \in Selectable \cup {NoOrg}
        /\ picker'[u].modal => picker'[u].selected \in Selectable
    <3>1. /\ picker[u].disabled \in BOOLEAN /\ picker[u].modal \in BOOLEAN
          /\ picker[u].selected \in Selectable \cup {NoOrg}
          /\ picker[u].modal => picker[u].selected \in Selectable
      BY DEF PickersOK
    <3>2. CASE GetUserProps(u)
      BY <3>1, <3>2, PickerSteps
    <3>3. CASE TypePassword(u)
      BY <3>1, <3>3, PickerSteps
    <3>4. CASE closeModal(u)
      BY <3>1, <3>4, PickerSteps
    <3>5. CASE SetUserProps(u)
      BY <3>1, <3>5, PickerSteps
    <3>6. CASE \E org \in Selectable : SelectOrganization(u, org)
      BY <3>1, <3>6, PickerSteps
    <3>7. QED
      BY <1>2, <3>2, <3>3, <3>4, <3>5, <3>6
  <2>3. QED
    BY <2>1, <2>2 DEF PickersOK
<1>3. ASSUME NEW k \in Calls, SetOrganizationAnswered(k)
      PROVE  PickersOK'
  <2>1. PICK u, org : u = call[k].user /\ org = call[k].org /\ org \in Selectable
    BY <1>3 DEF CallsOK, CallOK, SetOrganizationAnswered
  <2>2. /\ u \in Users /\ DOMAIN picker' = Users
        /\ \A v \in Users \ {u} : picker'[v] = picker[v]
        /\ DOMAIN picker'[u] = PickerFields
        /\ \/ /\ picker'[u].modal = FALSE /\ picker'[u].disabled = TRUE
              /\ picker'[u].selected = org
           \/ /\ picker'[u].modal = picker[u].modal
              /\ picker'[u].disabled = picker[u].disabled
              /\ picker'[u].selected = picker[u].selected
    BY <1>3, <2>1, AnswerShown
  <2>3. QED
    BY <2>1, <2>2 DEF PickersOK
<1>4. QED
  BY <1>1, <1>2, <1>3, OtherSteps DEF vars

------------------------------------------------------------------------------
(* The theorem about the channels.                                          *)

(* The invariant holds at first.  A user of a single organization does not *)
(* follow it where a channel has none yet.                                 *)
LEMMA MembersInvInit ==
  ASSUME Init
  PROVE  MembersInv /\ PickersOK
<1> USE OrganizationsAssumption, PluginAssumption
<1> DEFINE first == DOMAIN InitialChannels
           opened(c) == [NoChannel EXCEPT !.state = "open", !.named = InitialChannels[c].named,
                                          !.public = InitialChannels[c].public]
<1>1. /\ channel = [c \in ChannelIDs |-> IF c \in first THEN opened(c) ELSE NoChannel]
      /\ row = [c \in ChannelIDs |-> IF c \in first THEN InitialChannels[c].row ELSE NoRow]
      /\ orgId \in [Users -> InitialOrgs]
      /\ members = [c \in ChannelIDs |-> {u \in Users :
           orgId[u] # NoOrg /\ row[c] \notin {NoRow, Ecosystem} /\ orgId[u] \in {row[c], All}}]
      /\ call = [k \in Calls |-> Idle]
      /\ spoilt = {u \in Users : orgId[u] \notin {NoOrg, All} /\ \E c \in ChannelIDs : row[c] = NoOrg}
                    \X {"raced"}
      /\ picker = [u \in Users |-> NewPicker]
  BY DEF Init, PluginInit
<1>2. \A c \in ChannelIDs \cap first :
        /\ DOMAIN opened(c) = ChannelFields /\ opened(c).state = "open"
        /\ opened(c).named \in Organizations \cup {NoOrg}
  <2>1. ASSUME NEW c \in ChannelIDs \cap first
        PROVE  /\ DOMAIN opened(c) = ChannelFields /\ opened(c).state = "open"
               /\ opened(c).named = InitialChannels[c].named
    BY DEF NoChannel, ChannelFields
  <2>2. QED
    BY <2>1
<1>3. /\ DOMAIN NoChannel = ChannelFields /\ NoChannel.state = "absent"
      /\ NoChannel.named = NoOrg
  BY DEF NoChannel, ChannelFields
<1> HIDE DEF opened
<1>4. \A k \in Calls : call[k] = Idle
  BY <1>1
<1>5. Idle.stage = "idle" /\ Idle.kind = "none" /\ CallOK(Idle)
  BY DEF Idle, CallOK, CallFields
<1>6. TablesOK
  BY <1>1, <1>2, <1>3 DEF TablesOK
<1>7. CallsOK
  BY <1>1, <1>4, <1>5 DEF CallsOK
<1>8. OneChoice
  BY <1>4, <1>5 DEF OneChoice, Setting
<1>9. SettledFollow
  <2>1. SUFFICES ASSUME NEW u \in Users, ~Raced(u), orgId[u] # NoOrg, NEW c \in ChannelIDs
                 PROVE  /\ Ours(c) => Follows(u, orgId[u], c)
                        /\ Implicit(c) => orgId[u] = All /\ u \in members[c]
    BY DEF SettledFollow
  <2>2. u \notin {v \in Users : orgId[v] \notin {NoOrg, All} /\ \E d \in ChannelIDs : row[d] = NoOrg}
    BY <1>1, <2>1 DEF Raced
  <2>3. row[c] = NoOrg => orgId[u] = All
    BY <2>1, <2>2
  <2>4. u \in members[c] <=>
          row[c] \notin {NoRow, Ecosystem} /\ orgId[u] \in {row[c], All}
    BY <1>1, <2>1
  <2>5. QED
    BY <2>3, <2>4 DEF Ours, Implicit, Follows, organizations
<1>10. ChoosersFollow
  BY <1>4, <1>5 DEF ChoosersFollow
<1>11. CreationsFollow
  BY <1>4, <1>5 DEF CreationsFollow, Creating
<1>12. OneCreation
  BY <1>4, <1>5 DEF OneCreation, Creating
<1>13. JoinersOK
  BY <1>4, <1>5 DEF JoinersOK
<1>14. PickersOK
  <2>1. /\ DOMAIN NewPicker = PickerFields /\ NewPicker.modal = FALSE
        /\ NewPicker.disabled = FALSE /\ NewPicker.selected = NoOrg
    BY DEF NewPicker, PickerFields
  <2>2. QED
    BY <1>1, <2>1 DEF PickersOK
<1>15. LinkersOK
  BY <1>4, <1>5 DEF LinkersOK
<1>16. QED
  BY <1>6, <1>7, <1>8, <1>9, <1>10, <1>11, <1>12, <1>13, <1>14, <1>15 DEF MembersInv

(* A choice is sent. *)
LEMMA SetOrganizationKeeps ==
  ASSUME MembersInv, NEW u \in Users, NEW org \in Selectable, NEW password,
         SetOrganization(u, org, password), UNCHANGED <<channel, row, members, orgId>>
  PROVE  MembersInv'
<1> DEFINE request == [Request("set", "user", u, org) EXCEPT !.password = password]
<1>1. /\ DOMAIN request = CallFields /\ request.stage = "user" /\ request.kind = "set"
      /\ request.user = u /\ request.org = org
  BY DEF Request, Idle, CallFields
<1>2. Send(request) /\ Overlapping(u)
  BY DEF SetOrganization
<1> HIDE DEF request
<1>3. CallOK(request)
  BY <1>1 DEF CallOK
<1>4. /\ spoilt \subseteq spoilt'
      /\ spoilt \cup {<<u, "raced">> : k \in Setting(u)} \subseteq spoilt'
  BY <1>2 DEF Overlapping
<1>5. QED
  BY <1>1, <1>2, <1>3, <1>4, SendKeeps

(* Every step keeps it. *)
LEMMA MembersInvStep ==
  ASSUME MembersInv, PickersOK, [Next]_vars
  PROVE  MembersInv'
<1>1. TablesOK /\ CallsOK /\ DOMAIN orgId = Users
  BY DEF MembersInv, TablesOK
<1>2. ASSUME UNCHANGED <<channel, row, members, orgId, call>>, spoilt \subseteq spoilt'
      PROVE  MembersInv'
  BY <1>1, <1>2, QuietKeeps DEF TablesOK
<1>3. CASE UNCHANGED vars
  BY <1>2, <1>3 DEF vars, pluginVars, tables
<1>4. ASSUME NEW u \in Users, GetUserProps(u) \/ TypePassword(u) \/ closeModal(u) \/ SetUserProps(u)
      PROVE  MembersInv'
  BY <1>2, <1>4 DEF GetUserProps, TypePassword, closeModal, SetUserProps, Spoil, pluginVars, tables
<1>5. ASSUME NEW u \in Users, NEW org \in Selectable, SelectOrganization(u, org)
      PROVE  MembersInv'
  <2>1. \/ UNCHANGED pluginVars
        \/ SetOrganization(u, org, "none") /\ UNCHANGED tables
    BY <1>5 DEF SelectOrganization
  <2>2. CASE UNCHANGED pluginVars
    BY <1>2, <2>2 DEF pluginVars, tables
  <2>3. CASE SetOrganization(u, org, "none") /\ UNCHANGED tables
    BY <1>5, <2>3, SetOrganizationKeeps DEF tables
  <2>4. QED
    BY <2>1, <2>2, <2>3
<1>6. ASSUME NEW u \in Users, NEW password, ConfirmPassword(u, password)
      PROVE  MembersInv'
  <2>1. PICK org : org = picker[u].selected /\ org \in Selectable
    BY <1>6 DEF ConfirmPassword, PickersOK
  <2>2. SetOrganization(u, org, password) /\ UNCHANGED <<channel, row, members, orgId>>
    BY <1>6, <2>1 DEF ConfirmPassword, tables
  <2>3. QED
    BY <2>1, <2>2, SetOrganizationKeeps
<1>7. ASSUME NEW u \in Users, userAdded(u)
      PROVE  MembersInv'
  <2> DEFINE request == Request("added", "categories", u, NoOrg)
  <2>1. request.stage = "categories" /\ request.kind = "added" /\ DOMAIN request = CallFields
    BY DEF Request, Idle, CallFields
  <2>2. Send(request) /\ UNCHANGED <<channel, row, members, orgId, spoilt>>
    BY <1>7 DEF userAdded, tables
  <2> HIDE DEF request
  <2>3. CallOK(request)
    BY <2>1 DEF CallOK
  <2>4. QED
    BY <2>1, <2>2, <2>3, SendKeeps
<1>8. ASSUME NEW u \in Users, NEW org \in Organizations, NEW n \in Names, NEW public \in BOOLEAN,
             createChannel(u, org, n, public)
      PROVE  MembersInv'
  <2> DEFINE new == [NoChannel EXCEPT !.named = n, !.public = public]
             request == [Request("add", "name", u, org) EXCEPT !.name = new]
  <2>1. DOMAIN new = ChannelFields /\ new.named = n /\ new.public = public
    BY DEF NoChannel, ChannelFields
  <2>2. /\ DOMAIN request = CallFields /\ request.stage = "name" /\ request.kind = "add"
        /\ request.org = org /\ request.name = new
    BY DEF Request, Idle, CallFields
  <2>3. /\ Send(request) /\ (public => org = Ecosystem)
        /\ UNCHANGED <<channel, row, members, orgId, spoilt>>
    BY <1>8 DEF createChannel, tables
  <2> HIDE DEF request, new
  <2>4. CallOK(request)
    BY <1>8, <2>1, <2>2, <2>3, PluginAssumption DEF CallOK
  <2>5. QED
    BY <2>2, <2>3, <2>4, SendKeeps
<1>9. ASSUME NEW k \in Calls, AddChannelStep(k)
      PROVE  MembersInv'
  BY <1>9, ChannelStepKeeps, CreateChannelKeeps, ReadMembersKeeps, AddMemberKeeps, InsertRowKeeps
  DEF AddChannelStep
<1>10. ASSUME NEW k \in Calls, SetOrganizationAnswered(k)
       PROVE  MembersInv'
  <2>1. /\ call[k].stage \in {"ok", "failed"} /\ call' = [call EXCEPT ![k] = Idle]
        /\ spoilt \subseteq spoilt' /\ UNCHANGED <<channel, row, members, orgId>>
    BY <1>10 DEF SetOrganizationAnswered, tables
  <2>2. QED
    BY <2>1, AnsweredKeeps
<1>11. QED
  BY <1>3, <1>4, <1>5, <1>6, <1>7, <1>8, <1>9, <1>10, GetUserKeeps, CleanStepKeeps, ListChannelsKeeps,
     JoinOrLeaveKeeps, UpdateUserKeeps, ArchiveOrResetKeeps, ListPublicChannelsKeeps,
     JoinPublicChannelKeeps
  DEF Next

(* "This will automatically join and leave the organization channels":     *)
(* whoever has an organization and no choice on the way is in its open     *)
(* channels and in those of no other, whatever the handlers of the others  *)
(* do meanwhile, unless a failure, one of the races, or for a channel the  *)
(* limit of the page its first members were read from is to blame.         *)
THEOREM MembersFollowOrganizationTheorem == Spec => []MembersFollowOrganization
<1>1. Init => MembersInv /\ PickersOK
  BY MembersInvInit
<1>2. MembersInv /\ PickersOK /\ [Next]_vars => (MembersInv /\ PickersOK)'
  BY MembersInvStep, PickersKeep DEF MembersInv
<1>3. MembersInv => MembersFollowOrganization
  <2>1. SUFFICES ASSUME MembersInv, NEW u \in Users, ~Raced(u), Setting(u) = {}, orgId[u] # NoOrg,
                        NEW c \in ChannelIDs, Ours(c), ~Missed(u, c)
                 PROVE  Follows(u, orgId[u], c)
    BY DEF MembersFollowOrganization, Raced, Missed, Ours, Follows
  <2>2. u \notin Choosing
    BY <2>1 DEF Choosing, Setting, Active, Ended, MembersInv, CallsOK, CallOK
  <2>3. QED
    BY <2>1, <2>2 DEF MembersInv, SettledFollow
<1>4. QED
  BY <1>1, <1>2, <1>3, PTL DEF Spec

------------------------------------------------------------------------------
(* What the page shows.                                                     *)

(* The stages of a handler that has stored the choice. *)
Stored == CleanStages \cup {"ok"}

(* The page of a user, the stored organization and the choice on its way:  *)
(* what is shown without a choice on its way is stored; all the            *)
(* organizations are stored only over none, or over themselves, so that    *)
(* neither the properties that are fetched nor a choice that is confirmed  *)
(* while the modal closes can differ from what is stored.                  *)
ChoicesOK(u) ==
  LET p == picker[u] IN
  /\ \A j, k \in Unanswered(u) : j = k
  /\ p.modal => p.selected = All /\ ~p.disabled
  /\ ~p.disabled /\ ~p.modal => p.selected = NoOrg
  /\ p.disabled =>
       /\ p.selected \in Selectable
       /\ p.selected = orgId[u] \/ \E k \in Unanswered(u) : call[k].password = "none"
  /\ ~p.disabled /\ p.fetch \in Selectable \ {"due", "done"} => p.fetch = orgId[u]
  /\ \A k \in Unanswered(u) :
       /\ IF call[k].password = "none" THEN p.disabled /\ p.selected = call[k].org
          ELSE call[k].org = All
       /\ call[k].stage \in {"channels", "leaving"} => orgId[u] \notin Organizations
       /\ call[k].stage \in Stored => orgId[u] = call[k].org

PickersFollow == \A u \in Users : <<u, "picker">> \notin spoilt => ChoicesOK(u)

(* Whoever nothing happened to. *)
LEMMA UntouchedUser ==
  ASSUME NEW u, ChoicesOK(u), picker'[u] = picker[u], orgId'[u] = orgId[u],
         Unanswered(u)' = Unanswered(u), \A k \in Unanswered(u) : call'[k] = call[k]
  PROVE  ChoicesOK(u)'
BY DEF ChoicesOK

(* A step of the page that sends nothing. *)
LEMMA PageKeeps ==
  ASSUME NEW u \in Users, ChoicesOK(u), PickersOK, <<u, "picker">> \notin spoilt',
         UNCHANGED <<orgId, call>>,
         \/ GetUserProps(u) \/ TypePassword(u) \/ closeModal(u) \/ SetUserProps(u)
         \/ SelectOrganization(u, All)
  PROVE  ChoicesOK(u)'
<1> USE OrganizationsAssumption, PluginAssumption
<1>1. Unanswered(u)' = Unanswered(u) /\ \A k \in Unanswered(u) : call'[k] = call[k]
  BY DEF Unanswered
<1>2. NoOrg \notin Selectable /\ All \in Selectable
  BY DEF Selectable, organizations
<1>3. CASE GetUserProps(u) \/ TypePassword(u)
  <2>1. /\ picker'[u].disabled = picker[u].disabled /\ picker'[u].modal = picker[u].modal
        /\ picker'[u].selected = picker[u].selected
        /\ picker'[u].fetch \in {picker[u].fetch, orgId[u]}
    BY <1>3, PickerSteps
  <2>2. QED
    BY <1>1, <2>1 DEF ChoicesOK
<1>4. CASE closeModal(u)
  <2>1. picker[u].modal
    BY <1>4 DEF closeModal
  <2>2. /\ ~picker[u].disabled
        /\ \A k \in Unanswered(u) : call[k].password # "none"
    BY <2>1 DEF ChoicesOK
  <2>3. /\ picker'[u].modal = FALSE /\ picker'[u].disabled = FALSE
        /\ picker'[u].selected = NoOrg /\ picker'[u].fetch = picker[u].fetch
    BY <1>4, PickerSteps
  <2>4. QED
    BY <1>1, <2>2, <2>3 DEF ChoicesOK
<1>5. CASE SetUserProps(u)
  <2>1. PICK org :
          /\ org = picker[u].fetch /\ org \notin {"due", "done"}
          /\ org \in Selectable => picker[u].selected = NoOrg
    BY <1>5 DEF SetUserProps, Spoil
  <2>2. CASE org \in Selectable
    <3>1. /\ ~picker[u].disabled /\ ~picker[u].modal /\ orgId[u] = org
          /\ \A k \in Unanswered(u) : call[k].password # "none"
      BY <1>2, <2>1, <2>2 DEF ChoicesOK
    <3>2. /\ picker'[u].disabled = TRUE /\ picker'[u].modal = picker[u].modal
          /\ picker'[u].selected = org
      BY <1>5, <2>1, <2>2, PickerSteps
    <3>3. QED
      BY <1>1, <2>2, <3>1, <3>2 DEF ChoicesOK
  <2>3. CASE org \notin Selectable
    <3>1. /\ picker'[u].disabled = picker[u].disabled /\ picker'[u].modal = picker[u].modal
          /\ picker'[u].selected = picker[u].selected /\ picker'[u].fetch = "done"
      BY <1>5, <2>1, <2>3, PickerSteps
    <3>2. QED
      BY <1>1, <3>1 DEF ChoicesOK
  <2>4. QED
    BY <2>2, <2>3
<1>6. CASE SelectOrganization(u, All)
  <2>1. /\ ~picker[u].disabled /\ ~picker[u].modal
        /\ picker'[u].modal /\ ~picker'[u].disabled
        /\ picker'[u].selected = All /\ picker'[u].fetch = picker[u].fetch
    BY <1>2, <1>6, PickerSteps
  <2>2. QED
    BY <1>1, <2>1 DEF ChoicesOK
<1>7. QED
  BY <1>3, <1>4, <1>5, <1>6

(* A choice is sent: no other one of the user is on its way. *)
LEMMA SentKeeps ==
  ASSUME NEW u \in Users, ChoicesOK(u), CallsOK, <<u, "picker">> \notin spoilt',
         NEW org \in Selectable, NEW password, SetOrganization(u, org, password), UNCHANGED orgId,
         \/ /\ password = "none" /\ picker'[u].fetch = picker[u].fetch
            /\ ~picker'[u].modal /\ picker'[u].disabled /\ picker'[u].selected = org
         \/ password # "none" /\ org = All /\ picker'[u] = picker[u]
  PROVE  ChoicesOK(u)'
<1> DEFINE request == [Request("set", "user", u, org) EXCEPT !.password = password]
<1>1. /\ request.stage = "user" /\ request.kind = "set" /\ request.user = u
      /\ request.org = org /\ request.password = password
  BY DEF Request, Idle
<1>2. PICK k \in Calls : call' = [call EXCEPT ![k] = request]
  BY DEF SetOrganization, Send
<1> HIDE DEF request
<1>3. Unanswered(u) = {}
  BY DEF SetOrganization, Overlapping
<1>4. /\ DOMAIN call' = Calls /\ call'[k] = request
      /\ \A j \in Calls \ {k} : call'[j] = call[j]
  BY <1>2 DEF CallsOK
<1>5. Unanswered(u)' = {k}
  BY <1>1, <1>3, <1>4 DEF Unanswered
<1>6. CASE password = "none"
  BY <1>1, <1>4, <1>5, <1>6 DEF ChoicesOK, Stored, CleanStages
<1>7. CASE password # "none"
  BY <1>1, <1>3, <1>4, <1>5, <1>7 DEF ChoicesOK, Stored, CleanStages
<1>8. QED
  BY <1>6, <1>7

(* The answer is received. *)
LEMMA ReceivedKeeps ==
  ASSUME NEW u \in Users, ChoicesOK(u), PickersOK, CallsOK, <<u, "picker">> \notin spoilt',
         NEW k \in Calls, SetOrganizationAnswered(k)
  PROVE  ChoicesOK(u)'
<1>1. /\ call[k].kind = "set" /\ call[k].stage \in {"ok", "failed"}
      /\ UNCHANGED orgId /\ call' = [call EXCEPT ![k] = Idle]
  BY DEF SetOrganizationAnswered, tables
<1>2. /\ DOMAIN call' = Calls /\ call'[k] = Idle
      /\ \A j \in Calls \ {k} : call'[j] = call[j]
  BY <1>1 DEF CallsOK
<1>3. Unanswered(u)' = Unanswered(u) \ {k}
  BY <1>2 DEF Unanswered, Idle
<1>4. CASE call[k].user # u
  <2>1. PICK v : v = call[k].user /\ v # u
    BY <1>4
  <2>2. \A w \in Users \ {v} : picker'[w] = picker[w]
    BY <2>1, AnswerShown
  <2>3. k \notin Unanswered(u) /\ \A j \in Unanswered(u) : j \in Calls
    BY <1>4 DEF Unanswered
  <2>4. QED
    BY <1>1, <1>2, <1>3, <2>1, <2>2, <2>3, UntouchedUser
<1>5. CASE call[k].user = u
  <2>1. k \in Unanswered(u) /\ Unanswered(u)' = {}
    BY <1>1, <1>3, <1>5 DEF Unanswered, ChoicesOK
  <2>2. call[k].password = "none" => call[k].stage = "ok"
    BY <1>1, <1>5 DEF SetOrganizationAnswered
  <2>3. /\ picker'[u].fetch = picker[u].fetch
        /\ IF call[k].password # "none" /\ call[k].stage = "ok"
           THEN /\ picker'[u].modal = FALSE /\ picker'[u].disabled = TRUE
                /\ picker'[u].selected = call[k].org
           ELSE /\ picker'[u].modal = picker[u].modal
                /\ picker'[u].disabled = picker[u].disabled
                /\ picker'[u].selected = picker[u].selected
    BY <1>5, AnswerShown
  <2>4. call[k].kind = "set" => call[k].org \in Selectable
    BY DEF CallsOK, CallOK
  <2>5. CASE call[k].password = "none"
    BY <1>1, <2>1, <2>2, <2>3, <2>5 DEF ChoicesOK, Stored, CleanStages
  <2>6. CASE call[k].password # "none" /\ call[k].stage = "ok"
    BY <1>1, <2>1, <2>3, <2>4, <2>6 DEF ChoicesOK, Stored, CleanStages
  <2>7. CASE call[k].password # "none" /\ call[k].stage # "ok"
    BY <1>1, <2>1, <2>3, <2>7 DEF ChoicesOK
  <2>8. QED
    BY <2>5, <2>6, <2>7
<1>6. QED
  BY <1>4, <1>5

(* A handler goes on with its request; one that has ended leaves at most   *)
(* the answer to a choice.                                                 *)
Goes(k, stage) ==
  /\ DOMAIN call' = Calls
  /\ \A j \in Calls \ {k} : call'[j] = call[j]
  /\ \/ stage \in Ended /\ call[k].kind # "set" /\ call'[k].kind = "none"
     \/ /\ call'[k].stage = stage
        /\ call'[k].kind = call[k].kind /\ call'[k].user = call[k].user
        /\ call'[k].org = call[k].org /\ call'[k].password = call[k].password

(* So it does when it keeps what it knows, or has ended. *)
LEMMA GoesOn ==
  ASSUME CallsOK, NEW k \in Calls, NEW stage, NEW known, Go(k, stage, known),
         Same(known, call[k]) \/ (known = Idle /\ stage \in Ended)
  PROVE  Goes(k, stage)
<1>1. DOMAIN known = CallFields
  BY DEF Same, Idle, CallFields
<1>2. /\ DOMAIN call' = Calls
      /\ \A j \in Calls \ {k} : call'[j] = call[j]
      /\ stage \in Ended /\ call[k].kind = "set" =>
           /\ call'[k].stage = stage
           /\ call'[k].kind = call[k].kind /\ call'[k].user = call[k].user
           /\ call'[k].org = call[k].org /\ call'[k].password = call[k].password
      /\ stage \in Ended /\ call[k].kind # "set" => call'[k].kind = "none"
      /\ stage \notin Ended => /\ call'[k].stage = stage
                               /\ \A f \in CallFields \ {"stage"} : call'[k][f] = known[f]
  BY <1>1, GoStage
<1>3. stage \notin Ended => /\ call'[k].kind = known.kind /\ call'[k].user = known.user
                            /\ call'[k].org = known.org /\ call'[k].password = known.password
  BY <1>2 DEF CallFields
<1>4. QED
  BY <1>2, <1>3 DEF Goes, Same

(* The steps of the handlers. *)
Handles(k) ==
  \/ AddChannelStep(k)
  \/ GetUser(k) \/ ListChannels(k) \/ JoinOrLeave(k) \/ UpdateUser(k)
  \/ CleanStep(k)
  \/ ListPublicChannels(k) \/ JoinPublicChannel(k)

(* The steps of AddChannel, one by one. *)
LEMMA AddChannelGoes ==
  ASSUME CallsOK, NEW k \in Calls, AddChannelStep(k)
  PROVE  \E stage : Goes(k, stage)
<1>1. DOMAIN call[k] = CallFields
  BY DEF CallsOK, CallOK
<1>2. ASSUME NEW stage, Go(k, stage, Idle), stage \in {"ok", "failed"} PROVE Goes(k, stage)
  BY <1>2, GoesOn DEF Ended
<1>3. ASSUME NEW stage, NEW known, Go(k, stage, known), Same(known, call[k]) PROVE Goes(k, stage)
  BY <1>3, GoesOn
<1>4. CASE GetChannelByName(k)
  <2>1. PICK number :
          \/ Go(k, "failed", Idle)
          \/ Go(k, "create", [call[k] EXCEPT !.name.number = number])
    BY <1>4 DEF GetChannelByName
  <2> DEFINE known == [call[k] EXCEPT !.name.number = number]
  <2>2. Same(known, call[k])
    BY <1>1 DEF Same, CallFields
  <2> HIDE DEF known
  <2>3. QED
    BY <1>2, <1>3, <2>1, <2>2 DEF known
<1>5. CASE CreateChannel(k)
  <2>1. PICK c : \/ Go(k, "failed", Idle)
                 \/ Go(k, "members", [call[k] EXCEPT !.channel = c])
    BY <1>5 DEF CreateChannel
  <2>2. Same([call[k] EXCEPT !.channel = c], call[k])
    BY <1>1 DEF Same, CallFields
  <2>3. QED
    BY <1>2, <1>3, <2>1, <2>2
<1>6. CASE ReadMembers(k) \/ AddMember(k)
  <2>1. PICK todo : \/ Go(k, "failed", Idle)
                    \/ Go(k, "adding", [call[k] EXCEPT !.todo = todo])
    BY <1>6 DEF ReadMembers, AddMember
  <2>2. Same([call[k] EXCEPT !.todo = todo], call[k])
    BY <1>1 DEF Same, CallFields
  <2>3. QED
    BY <1>2, <1>3, <2>1, <2>2
<1>7. CASE InsertRow(k)
  <2>1. Go(k, "failed", Idle) \/ Go(k, "categories", call[k])
    BY <1>7 DEF InsertRow
  <2>2. Same(call[k], call[k])
    BY <1>1 DEF Same
  <2>3. QED
    BY <1>2, <1>3, <2>1, <2>2
<1>8. CASE ReadCategoriesToAdd(k)
  <2>1. PICK cats : Go(k, "ok", Idle) \/ Go(k, "file", [call[k] EXCEPT !.cats = cats])
    BY <1>8 DEF ReadCategoriesToAdd
  <2>2. Same([call[k] EXCEPT !.cats = cats], call[k])
    BY <1>1 DEF Same, CallFields
  <2>3. QED
    BY <1>2, <1>3, <2>1, <2>2
<1>9. CASE addChannelToCategory(k)
  BY <1>2, <1>9 DEF addChannelToCategory
<1>10. QED
  BY <1>4, <1>5, <1>6, <1>7, <1>8, <1>9 DEF AddChannelStep

(* All of them keep their request; how that of a choice goes on. *)
LEMMA HandlerSteps ==
  ASSUME CallsOK, NEW k \in Calls, Handles(k), NEW u, u = call[k].user
  PROVE  \E stage :
           /\ Goes(k, stage)
           /\ \/ /\ UNCHANGED orgId
                 /\ call[k].kind = "set" =>
                      \/ stage = "failed"
                      \/ stage = "channels" /\ orgId[u] \notin Organizations
                      \/ stage = "leaving" /\ call[k].stage \in {"channels", "leaving"}
                      \/ stage \in Stored /\ call[k].stage \in Stored
              \/ /\ call[k].kind = "set" /\ call[k].stage = "leaving" /\ stage = "categories"
                 /\ orgId' = [orgId EXCEPT ![u] = call[k].org]
<1>1. DOMAIN call[k] = CallFields
  BY DEF CallsOK, CallOK
<1>2. ASSUME NEW stage, Go(k, stage, Idle), stage \in {"ok", "failed"} PROVE Goes(k, stage)
  BY <1>2, GoesOn DEF Ended
<1>3. ASSUME NEW stage, NEW known, Go(k, stage, known), Same(known, call[k]) PROVE Goes(k, stage)
  BY <1>3, GoesOn
<1>4. Same(call[k], call[k])
  BY <1>1 DEF Same
<1>5. CASE AddChannelStep(k)
  <2>1. UNCHANGED orgId /\ call[k].kind = "add"
    BY <1>5 DEF AddChannelStep, GetChannelByName, CreateChannel, ReadMembers, AddMember, InsertRow,
       ReadCategoriesToAdd, addChannelToCategory, At, tables
  <2>2. QED
    BY <1>5, <2>1, AddChannelGoes
<1>6. CASE GetUser(k)
  <2>1. /\ UNCHANGED orgId
        /\ \/ Go(k, "failed", call[k]) \/ Go(k, "failed", Idle)
           \/ Go(k, "channels", call[k]) /\ orgId[u] \notin Organizations
    BY <1>6 DEF GetUser, tables
  <2>2. QED
    BY <1>2, <1>3, <1>4, <2>1
<1>7. CASE ListChannels(k) \/ JoinOrLeave(k)
  <2>1. PICK todo :
          /\ UNCHANGED orgId /\ call[k].stage \in {"channels", "leaving"}
          /\ Go(k, "failed", Idle) \/ Go(k, "leaving", [call[k] EXCEPT !.todo = todo])
    BY <1>7 DEF ListChannels, JoinOrLeave, At, tables
  <2>2. Same([call[k] EXCEPT !.todo = todo], call[k])
    BY <1>1 DEF Same, CallFields
  <2>3. QED
    BY <1>2, <1>3, <2>1, <2>2
<1>8. CASE UpdateUser(k)
  <2>1. /\ call[k].kind = "set" /\ call[k].stage = "leaving"
        /\ \/ Go(k, "failed", Idle) /\ UNCHANGED orgId
           \/ Go(k, "categories", call[k]) /\ orgId' = [orgId EXCEPT ![u] = call[k].org]
    BY <1>8 DEF UpdateUser, At
  <2>2. QED
    BY <1>2, <1>3, <1>4, <2>1
<1>9. CASE CleanStep(k)
  <2>1. PICK stage, known : CleanGo(k, stage, known)
    BY <1>9, CleanGoes
  <2>2. UNCHANGED orgId /\ call[k].stage \in CleanStages
    BY <1>9, CleanGoes DEF CleanStep, GetCategories, cleanCategories, LinkChannelToOrganization,
       ChooseStrategy, setupCategories, CreateMissing, ReadCategoriesToFile, FileChannels,
       CreateEcosystem, GetAllChannels, PurgeCategories, DeleteCategories, Update, tables
  <2>3. Goes(k, stage)
    BY <1>2, <1>3, <2>1 DEF CleanGo
  <2>4. QED
    BY <2>1, <2>2, <2>3 DEF Stored, AfterClean, CleanGo
<1>10. CASE ListPublicChannels(k) \/ JoinPublicChannel(k)
  <2>1. PICK todo :
          /\ UNCHANGED orgId /\ call[k].kind = "added"
          /\ \/ Go(k, "failed", Idle) \/ Go(k, "ok", Idle)
             \/ Go(k, "joining", [call[k] EXCEPT !.todo = todo])
    BY <1>10 DEF ListPublicChannels, JoinPublicChannel, At, tables
  <2>2. Same([call[k] EXCEPT !.todo = todo], call[k])
    BY <1>1 DEF Same, CallFields
  <2>3. QED
    BY <1>2, <1>3, <2>1, <2>2
<1>11. QED
  BY <1>5, <1>6, <1>7, <1>8, <1>9, <1>10 DEF Handles

(* A step of a handler, that of the choice of the user or another. *)
LEMMA HandlerKeeps ==
  ASSUME NEW u \in Users, ChoicesOK(u), TablesOK, CallsOK, NEW k \in Calls, Handles(k),
         picker'[u] = picker[u]
  PROVE  ChoicesOK(u)'
<1> USE OrganizationsAssumption, PluginAssumption
<1>0. PICK v, org : v = call[k].user /\ org = call[k].org
  OBVIOUS
<1>1. PICK stage :
        /\ v = call[k].user /\ org = call[k].org
        /\ Goes(k, stage)
        /\ \/ /\ UNCHANGED orgId
              /\ call[k].kind = "set" =>
                   \/ stage = "failed"
                   \/ stage = "channels" /\ orgId[v] \notin Organizations
                   \/ stage = "leaving" /\ call[k].stage \in {"channels", "leaving"}
                   \/ stage \in Stored /\ call[k].stage \in Stored
           \/ /\ call[k].kind = "set" /\ call[k].stage = "leaving" /\ stage = "categories"
              /\ orgId' = [orgId EXCEPT ![v] = org]
  BY <1>0, HandlerSteps
<1>2. Unanswered(u)' = Unanswered(u)
  <2>1. \A j \in Calls :
          \/ call'[j].kind = call[j].kind /\ call'[j].user = call[j].user
          \/ call[j].kind # "set" /\ call'[j].kind # "set"
    BY <1>1 DEF Goes
  <2>2. QED
    BY <2>1 DEF Unanswered
<1>3. CASE k \notin Unanswered(u)
  <2>1. \A j \in Unanswered(u) : call'[j] = call[j]
    BY <1>1, <1>3 DEF Goes, Unanswered
  <2>2. orgId'[u] = orgId[u]
    BY <1>1, <1>3 DEF Unanswered, TablesOK
  <2>3. QED
    BY <1>2, <2>1, <2>2, UntouchedUser
<1>4. CASE k \in Unanswered(u)
  <2>1. /\ call[k].kind = "set" /\ v = u /\ Unanswered(u) = {k}
    BY <1>1, <1>4 DEF Unanswered, ChoicesOK
  <2>2. /\ call'[k].stage = stage /\ call'[k].org = org
        /\ call'[k].password = call[k].password
    BY <1>1, <2>1 DEF Goes
  <2>3. CASE /\ UNCHANGED orgId
             /\ \/ stage = "failed"
                \/ stage = "channels" /\ orgId[u] \notin Organizations
                \/ stage = "leaving" /\ call[k].stage \in {"channels", "leaving"}
                \/ stage \in Stored /\ call[k].stage \in Stored
    <3>1. /\ stage \in {"channels", "leaving"} => orgId[u] \notin Organizations
          /\ stage \in Stored => orgId[u] = org
      BY <1>1, <1>4, <2>1, <2>3 DEF ChoicesOK, Stored, CleanStages
    <3>2. QED
      BY <1>1, <1>2, <1>4, <2>1, <2>2, <2>3, <3>1 DEF ChoicesOK
  <2>4. CASE /\ call[k].stage = "leaving" /\ stage = "categories"
             /\ orgId' = [orgId EXCEPT ![u] = org]
    <3>1. orgId'[u] = org /\ orgId[u] \notin Organizations
      BY <1>4, <2>4 DEF ChoicesOK, TablesOK
    <3>2. call[k].password = "none" => picker[u].disabled
      BY <1>4 DEF ChoicesOK
    <3>3. CASE call[k].password = "none"
      BY <1>1, <1>2, <1>4, <2>1, <2>2, <2>4, <3>1, <3>2, <3>3 DEF ChoicesOK, Stored, CleanStages
    <3>4. CASE call[k].password # "none"
      <4>1. org = All
        BY <1>1, <1>4, <3>4 DEF ChoicesOK
      <4>2. picker[u].disabled => picker[u].selected = All
        BY <2>1, <3>1, <3>4 DEF ChoicesOK, Selectable, organizations
      <4>3. ~picker[u].disabled /\ picker[u].fetch \in Selectable \ {"due", "done"}
              => picker[u].fetch = All
        BY <3>1 DEF ChoicesOK, Selectable, organizations
      <4>4. QED
        BY <1>1, <1>2, <1>4, <2>1, <2>2, <2>4, <3>1, <3>4, <4>1, <4>2, <4>3
        DEF ChoicesOK, Stored, CleanStages, Selectable
    <3>5. QED
      BY <3>3, <3>4
  <2>5. QED
    BY <1>1, <2>1, <2>3, <2>4
<1>5. QED
  BY <1>3, <1>4

(* What is spoilt stays so. *)
LEMMA SpoiltGrows ==
  ASSUME [Next]_vars
  PROVE  spoilt \subseteq spoilt'
<1>1. CASE UNCHANGED vars
  BY <1>1 DEF vars, pluginVars
<1>2. ASSUME NEW u \in Users,
             \/ GetUserProps(u) \/ SetUserProps(u)
             \/ \E org \in Selectable : SelectOrganization(u, org)
             \/ \E password : ConfirmPassword(u, password)
             \/ TypePassword(u) \/ closeModal(u)
             \/ userAdded(u) \/ ResetUserOrganization(u)
             \/ \E org, n, public : createChannel(u, org, n, public)
      PROVE  spoilt \subseteq spoilt'
  BY <1>2 DEF GetUserProps, SetUserProps, SelectOrganization, ConfirmPassword, TypePassword,
     closeModal, userAdded, ResetUserOrganization, createChannel, SetOrganization, Overlapping,
     Spoil, pluginVars
<1>3. ASSUME NEW k \in Calls, AddChannelStep(k)
      PROVE  spoilt \subseteq spoilt'
  BY <1>3 DEF AddChannelStep, GetChannelByName, CreateChannel, ReadMembers, AddMember, InsertRow,
     ReadCategoriesToAdd, addChannelToCategory, Spoil
<1>4. ASSUME NEW k \in Calls,
             \/ GetUser(k) \/ ListChannels(k) \/ JoinOrLeave(k) \/ UpdateUser(k)
             \/ CleanStep(k)
             \/ ListPublicChannels(k) \/ JoinPublicChannel(k)
             \/ SetOrganizationAnswered(k)
      PROVE  spoilt \subseteq spoilt'
  BY <1>4 DEF GetUser, ListChannels, JoinOrLeave, UpdateUser, ListPublicChannels,
     JoinPublicChannel, SetOrganizationAnswered, CleanStep, GetCategories, cleanCategories,
     LinkChannelToOrganization, ChooseStrategy, setupCategories, CreateMissing,
     ReadCategoriesToFile, FileChannels, CreateEcosystem, GetAllChannels, PurgeCategories,
     DeleteCategories, Update, Spoil, tables
<1>5. ASSUME NEW c \in ChannelIDs, ArchiveChannel(c)
      PROVE  spoilt \subseteq spoilt'
  BY <1>5 DEF ArchiveChannel
<1>6. QED
  BY <1>1, <1>2, <1>3, <1>4, <1>5 DEF Next

(* A step of another user or of the plugin that concerns no choice. *)
LEMMA RequestKeeps ==
  ASSUME NEW u \in Users, ChoicesOK(u), CallsOK, picker'[u] = picker[u], orgId'[u] = orgId[u],
         NEW request, Send(request), request.kind # "set" \/ request.user # u
  PROVE  ChoicesOK(u)'
<1>1. PICK k \in Calls : call[k] = Idle /\ call' = [call EXCEPT ![k] = request]
  BY DEF Send
<1>2. /\ DOMAIN call' = Calls /\ call'[k] = request
      /\ \A j \in Calls \ {k} : call'[j] = call[j]
  BY <1>1 DEF CallsOK
<1>3. call[k].kind = "none"
  BY <1>1 DEF Idle
<1>4. Unanswered(u)' = Unanswered(u) /\ k \notin Unanswered(u)
  BY <1>2, <1>3 DEF Unanswered
<1>5. \A j \in Unanswered(u) : call'[j] = call[j]
  BY <1>2, <1>4 DEF Unanswered
<1>6. QED
  BY <1>4, <1>5, UntouchedUser

(* Every step keeps what the page shows in line with what is stored. *)
LEMMA PickersFollowStep ==
  ASSUME PickersFollow, PickersOK, TablesOK, CallsOK, [Next]_vars
  PROVE  PickersFollow'
<1>1. SUFFICES ASSUME NEW u \in Users, <<u, "picker">> \notin spoilt'
               PROVE  ChoicesOK(u)'
  BY DEF PickersFollow
<1>2. ChoicesOK(u)
  BY <1>1, SpoiltGrows DEF PickersFollow
<1>3. ASSUME UNCHANGED call, picker'[u] = picker[u], orgId'[u] = orgId[u]
      PROVE  ChoicesOK(u)'
  BY <1>2, <1>3, UntouchedUser DEF Unanswered
<1>4. CASE UNCHANGED vars
  BY <1>3, <1>4 DEF vars, pluginVars, tables
<1>5. ASSUME NEW v \in Users, GetUserProps(v) \/ TypePassword(v) \/ closeModal(v) \/ SetUserProps(v)
      PROVE  ChoicesOK(u)'
  <2>1. UNCHANGED <<orgId, call>>
    BY <1>5 DEF GetUserProps, TypePassword, closeModal, SetUserProps, pluginVars, tables
  <2>2. v # u => picker'[u] = picker[u]
    BY <1>5, PickerSteps
  <2>3. QED
    BY <1>1, <1>2, <1>3, <1>5, <2>1, <2>2, PageKeeps
<1>6. ASSUME NEW v \in Users, NEW org \in Selectable, SelectOrganization(v, org)
      PROVE  ChoicesOK(u)'
  <2>1. UNCHANGED orgId
    BY <1>6 DEF SelectOrganization, pluginVars, tables
  <2>2. v # u => picker'[u] = picker[u]
    BY <1>6, PickerSteps
  <2>3. CASE org = All
    <3>1. UNCHANGED call
      BY <1>6, <2>3 DEF SelectOrganization, pluginVars
    <3>2. QED
      BY <1>1, <1>2, <1>3, <1>6, <2>1, <2>2, <2>3, <3>1, PageKeeps
  <2>4. CASE org # All
    <3>1. SetOrganization(v, org, "none")
      BY <1>6, <2>4 DEF SelectOrganization
    <3>2. CASE v = u
      <4>1. /\ ~picker'[u].modal /\ picker'[u].disabled
            /\ picker'[u].fetch = picker[u].fetch /\ picker'[u].selected = org
        BY <1>6, <2>4, <3>2, PickerSteps
      <4>2. QED
        BY <1>1, <1>2, <2>1, <3>1, <3>2, <4>1, SentKeeps
    <3>3. CASE v # u
      <4> DEFINE request == [Request("set", "user", v, org) EXCEPT !.password = "none"]
      <4>1. request.user = v /\ Send(request)
        BY <3>1 DEF SetOrganization, Request, Idle
      <4> HIDE DEF request
      <4>2. QED
        BY <1>2, <2>1, <2>2, <3>3, <4>1, RequestKeeps
    <3>4. QED
      BY <3>2, <3>3
  <2>5. QED
    BY <2>3, <2>4
<1>7. ASSUME NEW v \in Users, NEW password \in {"right", "wrong"}, ConfirmPassword(v, password)
      PROVE  ChoicesOK(u)'
  <2>1. PICK org :
          /\ org = picker[v].selected /\ org \in Selectable
          /\ picker[v].modal /\ SetOrganization(v, org, password) /\ UNCHANGED <<orgId, picker>>
    BY <1>7 DEF ConfirmPassword, PickersOK, tables
  <2>2. CASE v = u
    <3>1. org = All
      BY <1>2, <2>1, <2>2 DEF ChoicesOK
    <3>2. QED
      BY <1>1, <1>2, <1>7, <2>1, <2>2, <3>1, SentKeeps
  <2>3. CASE v # u
    <3> DEFINE request == [Request("set", "user", v, org) EXCEPT !.password = password]
    <3>1. request.user = v /\ Send(request)
      BY <2>1 DEF SetOrganization, Request, Idle
    <3> HIDE DEF request
    <3>2. QED
      BY <1>2, <2>1, <2>3, <3>1, RequestKeeps
  <2>4. QED
    BY <2>2, <2>3
<1>8. ASSUME NEW v \in Users, userAdded(v)
      PROVE  ChoicesOK(u)'
  <2> DEFINE request == Request("added", "categories", v, NoOrg)
  <2>1. request.kind = "added" /\ Send(request) /\ UNCHANGED <<orgId, picker>>
    BY <1>8 DEF userAdded, Request, Idle, tables
  <2> HIDE DEF request
  <2>2. QED
    BY <1>2, <2>1, RequestKeeps
<1>9. ASSUME NEW v \in Users, NEW org, NEW n, NEW public, createChannel(v, org, n, public),
             UNCHANGED picker
      PROVE  ChoicesOK(u)'
  <2> DEFINE request == [Request("add", "name", v, org) EXCEPT
                           !.name = [NoChannel EXCEPT !.named = n, !.public = public]]
  <2>1. request.kind = "add" /\ Send(request) /\ UNCHANGED orgId
    BY <1>9 DEF createChannel, Request, Idle, tables
  <2> HIDE DEF request
  <2>2. QED
    BY <1>2, <1>9, <2>1, RequestKeeps
<1>10. ASSUME NEW v \in Users, ResetUserOrganization(v)
       PROVE  ChoicesOK(u)'
  <2>1. v # u
    BY <1>1, <1>10 DEF ResetUserOrganization, Spoil
  <2>2. orgId'[u] = orgId[u] /\ UNCHANGED <<call, picker>>
    BY <1>10, <2>1 DEF ResetUserOrganization, TablesOK
  <2>3. QED
    BY <1>3, <2>2
<1>11. ASSUME NEW c \in ChannelIDs, ArchiveChannel(c), UNCHANGED picker
       PROVE  ChoicesOK(u)'
  BY <1>3, <1>11 DEF ArchiveChannel
<1>12. ASSUME NEW k \in Calls, Handles(k), UNCHANGED picker
       PROVE  ChoicesOK(u)'
  BY <1>2, <1>12, HandlerKeeps
<1>13. ASSUME NEW k \in Calls,
              \/ GetUser(k) \/ ListChannels(k) \/ JoinOrLeave(k) \/ UpdateUser(k)
              \/ CleanStep(k)
              \/ ListPublicChannels(k) \/ JoinPublicChannel(k)
       PROVE  Handles(k) /\ UNCHANGED picker
  BY <1>13 DEF Handles, GetUser, ListChannels, JoinOrLeave, UpdateUser, ListPublicChannels,
     JoinPublicChannel, CleanStep, GetCategories, cleanCategories, LinkChannelToOrganization,
     ChooseStrategy, setupCategories, CreateMissing, ReadCategoriesToFile, FileChannels,
     CreateEcosystem, GetAllChannels, PurgeCategories, DeleteCategories, Update
<1>14. ASSUME NEW k \in Calls, AddChannelStep(k)
       PROVE  Handles(k)
  BY <1>14 DEF Handles
<1>15. ASSUME NEW k \in Calls, SetOrganizationAnswered(k)
       PROVE  ChoicesOK(u)'
  BY <1>1, <1>2, <1>15, ReceivedKeeps
<1>16. QED
  BY <1>4, <1>5, <1>6, <1>7, <1>8, <1>9, <1>10, <1>11, <1>12, <1>13, <1>14, <1>15 DEF Next

(* LHSView shows the organization that is stored whenever it offers no     *)
(* choice: neither the answer to a choice nor the properties that were     *)
(* fetched meanwhile put another one on the screen, unless one of the      *)
(* races that are named is to blame.                                       *)
THEOREM PickerShowsStoredTheorem == Spec => []PickerShowsStored
<1> DEFINE Inv == MembersInv /\ PickersOK /\ PickersFollow
<1>1. Init => Inv
  <2>1. SUFFICES ASSUME Init, NEW u \in Users PROVE ChoicesOK(u)
    BY MembersInvInit DEF PickersFollow
  <2>2. /\ picker[u].modal = FALSE /\ picker[u].disabled = FALSE
        /\ picker[u].selected = NoOrg /\ picker[u].fetch = "due"
    BY <2>1 DEF Init, NewPicker
  <2>3. \A k \in Calls : call[k].kind = "none"
    BY <2>1 DEF Init, PluginInit, Idle
  <2>4. QED
    BY <2>2, <2>3 DEF ChoicesOK, Unanswered
<1>2. Inv /\ [Next]_vars => Inv'
  BY MembersInvStep, PickersKeep, PickersFollowStep DEF MembersInv
<1>3. Inv => PickerShowsStored
  BY DEF PickersFollow, ChoicesOK, PickerShowsStored
<1>4. QED
  BY <1>1, <1>2, <1>3, PTL DEF Spec
------------------------------------------------------------------------------
(* Sidebars.  A clean reads a user's categories in one step and writes     *)
(* them in another.  That the user's channels are then where they belong   *)
(* takes that the categories can be told apart by their IDs: by them they  *)
(* are replaced, deleted and kept.                                         *)

(* What a category is made of. *)
CategoryFields == {"id", "name", "channels"}

(* Categories as Mattermost keeps and returns them, the last ID it has     *)
(* given being n: every one has an ID of its own, and the default category *)
(* is named after no organization.                                         *)
CatsOK(cats, n) ==
  /\ \A c \in cats : DOMAIN c = CategoryFields /\ c.id \in Nat /\ c.id <= n
  /\ \A c, d \in cats : c.id = d.id => c = d
  /\ \A c \in cats : c.id = DefaultID => c.name \notin Organizations

(* A sidebar has the default category too. *)
SidebarOK(cats, n) == CatsOK(cats, n) /\ \E c \in cats : c.id = DefaultID

(* The categories of new are among those of cats, under the same names. *)
NamedAs(new, cats) == \A c \in new : \E d \in cats : c.id = d.id /\ c.name = d.name

(* A category that is in both has one name. *)
Agree(new, cats) == \A c \in new, d \in cats : c.id = d.id => c.name = d.name

(* Why the category of an organization may be missing after setupCategories. *)
Excused(failed, harmed, u) == failed > 0 \/ <<u, "purged">> \in harmed

(* What a handler has read is of that form; the one that creates the       *)
(* missing categories knows them, and the one that files the channels has  *)
(* found all of them.                                                      *)
ReadOK(r) ==
  /\ r.stage \notin Ended => r.user \in Users
  /\ CatsOK(r.cats, lastID)
  /\ r.user \in Users => Agree(r.cats, sidebar[r.user])
  /\ r.stage = "creating" =>
       /\ r.todo \subseteq Organizations
       /\ \A org \in Organizations :
            Excused(faults, spoilt, r.user) \/ org \in r.todo \/ HasCategory(sidebar[r.user], org)
  /\ r.stage = "filing" =>
       \A org \in Organizations : Excused(faults, spoilt, r.user) \/ HasCategory(r.cats, org)

SidebarInv ==
  /\ faults \in Nat /\ lastID \in Nat
  /\ DOMAIN sidebar = Users /\ \A u \in Users : SidebarOK(sidebar[u], lastID)
  /\ \A k \in Calls : ReadOK(call[k])

(* A set of numbers that is not empty has a least one. *)
LEMMA NatMin ==
  ASSUME NEW T, T \subseteq Nat, T # {}
  PROVE  \E n \in T : \A m \in T : ~(m < n)
<1>1. IsWellFoundedOn(OpToRel(<, Nat), Nat)
  BY NatLessThanWellFounded, Zenon
<1>2. \E n \in T : \A m \in T : <<m, n>> \notin OpToRel(<, Nat)
  BY <1>1, WFMin, Zenon
<1>3. QED
  BY <1>2 DEF OpToRel

(* Categories whose channels alone have changed. *)
LEMMA Reshaped ==
  ASSUME NEW cats, NEW n, CatsOK(cats, n), NEW f, DOMAIN f = cats,
         \A c \in cats : DOMAIN f[c] = CategoryFields /\ f[c].id = c.id /\ f[c].name = c.name
  PROVE  LET new == {f[c] : c \in cats} IN
         CatsOK(new, n) /\ NamedAs(new, cats) /\ NamedAs(cats, new)
BY DEF CatsOK, NamedAs

(* Names that are kept are still found. *)
LEMMA StillNamed ==
  ASSUME NEW cats, NEW new, NamedAs(cats, new), NEW org, HasCategory(cats, org)
  PROVE  HasCategory(new, org)
BY DEF NamedAs, HasCategory

(* What GetChannelSidebarCategories returns. *)
LEMMA SeenOK ==
  ASSUME NEW cats, NEW n, CatsOK(cats, n), NEW m
  PROVE  LET seen == GetChannelSidebarCategories(cats, m) IN
         /\ CatsOK(seen, n) /\ NamedAs(seen, cats) /\ NamedAs(cats, seen)
         /\ SidebarOK(cats, n) => SidebarOK(seen, n)
<1> DEFINE f == [c \in cats |->
                   [c EXCEPT !.channels =
                     (@ \cap m) \cup
                     {x \in m : c.id = DefaultID /\ \A d \in cats : x \notin d.channels}]]
<1>1. GetChannelSidebarCategories(cats, m) = {f[c] : c \in cats}
  BY DEF GetChannelSidebarCategories
<1>2. \A c \in cats : DOMAIN f[c] = CategoryFields /\ f[c].id = c.id /\ f[c].name = c.name
  BY DEF CatsOK, CategoryFields
<1>3. DOMAIN f = cats
  OBVIOUS
<1> HIDE DEF f
<1>4. LET new == {f[c] : c \in cats} IN
      CatsOK(new, n) /\ NamedAs(new, cats) /\ NamedAs(cats, new)
  BY <1>2, <1>3, Reshaped
<1>5. QED
  BY <1>1, <1>4 DEF SidebarOK, NamedAs

(* A category as it is seen: its own channels, and perhaps those of no     *)
(* category.                                                               *)
LEMMA SeenElements ==
  ASSUME NEW cats, NEW n, CatsOK(cats, n), NEW m, NEW c \in GetChannelSidebarCategories(cats, m)
  PROVE  \E d \in cats :
           /\ c.id = d.id /\ c.name = d.name
           /\ \A x \in c.channels : /\ x \in m
                                    /\ x \in d.channels \/ \A e \in cats : x \notin e.channels
<1>1. PICK d \in cats :
        c = [d EXCEPT !.channels =
               (@ \cap m) \cup {x \in m : d.id = DefaultID /\ \A e \in cats : x \notin e.channels}]
  BY DEF GetChannelSidebarCategories
<1>2. DOMAIN d = CategoryFields
  BY DEF CatsOK
<1>3. /\ c.id = d.id /\ c.name = d.name
      /\ c.channels = (d.channels \cap m) \cup
           {x \in m : d.id = DefaultID /\ \A e \in cats : x \notin e.channels}
  BY <1>1, <1>2 DEF CategoryFields
<1>4. QED
  BY <1>3

(* Whatever channel the user is in is seen in some category. *)
LEMMA EverythingIsSeen ==
  ASSUME NEW cats, NEW n, SidebarOK(cats, n), NEW m, NEW x \in m
  PROVE  \E c \in GetChannelSidebarCategories(cats, m) : x \in c.channels
<1> DEFINE g(d) == [d EXCEPT !.channels =
               (@ \cap m) \cup {y \in m : d.id = DefaultID /\ \A e \in cats : y \notin e.channels}]
<1>1. \A d \in cats :
        g(d).channels = (d.channels \cap m) \cup
           {y \in m : d.id = DefaultID /\ \A e \in cats : y \notin e.channels}
  BY DEF SidebarOK, CatsOK, CategoryFields
<1>2. \A d \in cats : g(d) \in GetChannelSidebarCategories(cats, m)
  BY DEF GetChannelSidebarCategories
<1> HIDE DEF g
<1>3. \E d \in cats : x \in g(d).channels
  BY <1>1 DEF SidebarOK
<1>4. QED
  BY <1>2, <1>3

(* Categories may be deleted, *)
LEMMA SubsetOK ==
  ASSUME NEW cats, NEW n, CatsOK(cats, n), NEW some, some \subseteq cats
  PROVE  CatsOK(some, n) /\ NamedAs(some, cats)
BY DEF CatsOK, NamedAs

(* replaced by categories of the same names, *)
LEMMA UpdateOK ==
  ASSUME NEW cats, NEW n, SidebarOK(cats, n), NEW update, CatsOK(update, n),
         CanUpdate(cats, update), Agree(update, cats)
  PROVE  LET new == UpdateChannelSidebarCategories(cats, update) IN
         SidebarOK(new, n) /\ NamedAs(new, cats) /\ NamedAs(cats, new)
<1> DEFINE new == UpdateChannelSidebarCategories(cats, update)
<1>1. /\ \A c \in new : c \in update \/ (c \in cats /\ \A u \in update : u.id # c.id)
      /\ update \subseteq new
      /\ \A c \in cats : c \in new \/ \E u \in update : u.id = c.id
  BY DEF UpdateChannelSidebarCategories
<1> HIDE DEF new
<1>2. CatsOK(new, n)
  BY <1>1 DEF CatsOK, SidebarOK
<1>3. \E c \in new : c.id = DefaultID
  BY <1>1 DEF SidebarOK
<1>4. NamedAs(new, cats)
  BY <1>1 DEF NamedAs, CanUpdate, Agree
<1>5. NamedAs(cats, new)
  BY <1>1 DEF NamedAs, Agree
<1>6. QED
  BY <1>2, <1>3, <1>4, <1>5 DEF SidebarOK, new

(* and created with a new ID. *)
LEMMA CreatedOK ==
  ASSUME NEW cats, NEW last \in Nat, SidebarOK(cats, last), NEW org \in Organizations, NEW chans
  PROVE  LET new == CreateChannelSidebarCategory(cats, last + 1, org, chans) IN
         /\ SidebarOK(new, last + 1) /\ NamedAs(cats, new) /\ HasCategory(new, org)
         /\ \A c \in new : last < c.id \/ \E d \in cats : c.id = d.id /\ c.name = d.name
<1> DEFINE f == [c \in cats |-> [c EXCEPT !.channels = @ \ chans]]
           left == {f[c] : c \in cats}
           added == [id |-> last + 1, name |-> org, channels |-> chans]
           new == CreateChannelSidebarCategory(cats, last + 1, org, chans)
<1>1. new = left \cup {added}
  BY DEF CreateChannelSidebarCategory
<1>2. CatsOK(left, last) /\ NamedAs(left, cats) /\ NamedAs(cats, left)
  <2>1. \A c \in cats : DOMAIN f[c] = CategoryFields /\ f[c].id = c.id /\ f[c].name = c.name
    BY DEF SidebarOK, CatsOK, CategoryFields
  <2>2. PICK n : n = last
    OBVIOUS
  <2>3. DOMAIN f = cats /\ CatsOK(cats, n)
    BY <2>2 DEF SidebarOK
  <2> HIDE DEF f
  <2>4. CatsOK(left, n) /\ NamedAs(left, cats) /\ NamedAs(cats, left)
    BY <2>1, <2>3, Reshaped
  <2>5. QED
    BY <2>2, <2>4
<1>3. DOMAIN added = CategoryFields /\ added.id = last + 1 /\ added.name = org
  BY DEF CategoryFields
<1> HIDE DEF left, added, new
<1>4. CatsOK(new, last + 1)
  <2>1. \A c \in left : DOMAIN c = CategoryFields /\ c.id \in Nat /\ c.id <= last /\ c.id # last + 1
    BY <1>2 DEF CatsOK
  <2>2. \A c \in new : DOMAIN c = CategoryFields /\ c.id \in Nat /\ c.id <= last + 1
    BY <1>1, <1>3, <2>1
  <2>3. \A c, d \in new : c.id = d.id => c = d
    BY <1>1, <1>2, <1>3, <2>1 DEF CatsOK
  <2>4. \A c \in new : c.id = DefaultID => c.name \notin Organizations
    BY <1>1, <1>2, <1>3 DEF CatsOK, DefaultID
  <2>5. QED
    BY <2>2, <2>3, <2>4 DEF CatsOK
<1>5. \E c \in new : c.id = DefaultID
  BY <1>1, <1>2 DEF SidebarOK, NamedAs
<1>6. HasCategory(new, org)
  BY <1>1, <1>3 DEF HasCategory
<1>7. NamedAs(cats, new)
  BY <1>1, <1>2 DEF NamedAs
<1>8. \A c \in new : last < c.id \/ \E d \in cats : c.id = d.id /\ c.name = d.name
  BY <1>1, <1>2, <1>3 DEF NamedAs
<1>9. QED
  BY <1>4, <1>5, <1>6, <1>7, <1>8 DEF SidebarOK, new

(* The updates leave every category its ID and name. *)
LEMMA FiledOK ==
  ASSUME NEW cats, NEW n, CatsOK(cats, n), NEW rows
  PROVE  LET new == setupOrganizationCategories(cats, rows) IN
         CatsOK(new, n) /\ NamedAs(new, cats) /\ NamedAs(cats, new)
<1> DEFINE skipped == UNION {{x \in c.channels : rows[x] \in Organizations} :
                               c \in {d \in cats : d.id = DefaultID}}
           f == [c \in cats |-> [c EXCEPT !.channels =
                   IF c.id = DefaultID THEN @ \ skipped
                   ELSE @ \cup {x \in skipped : rows[x] = c.name}]]
<1>1. setupOrganizationCategories(cats, rows) = {f[c] : c \in cats}
  BY DEF setupOrganizationCategories
<1>2. \A c \in cats : DOMAIN f[c] = CategoryFields /\ f[c].id = c.id /\ f[c].name = c.name
  BY DEF CatsOK, CategoryFields
<1>3. DOMAIN f = cats
  OBVIOUS
<1> HIDE DEF f
<1>4. QED
  BY <1>1, <1>2, <1>3, Reshaped

LEMMA PurgedOK ==
  ASSUME NEW cats, NEW n, CatsOK(cats, n), NEW rows
  PROVE  LET new == purgeNonEcosystemCategories(cats, rows) IN
         CatsOK(new, n) /\ NamedAs(new, cats) /\ NamedAs(cats, new)
<1> DEFINE default == UNION {c.channels : c \in {d \in cats : d.id = DefaultID}}
           moved == {x \in default : rows[x] = Ecosystem}
           f == [c \in cats |-> [c EXCEPT !.channels =
                   IF c.id = DefaultID THEN {x \in @ : rows[x] \notin {Ecosystem, NoRow}}
                   ELSE IF c \in Kept(cats) THEN @ \cup moved ELSE {}]]
<1>1. purgeNonEcosystemCategories(cats, rows) = {f[c] : c \in cats}
  BY DEF purgeNonEcosystemCategories
<1>2. \A c \in cats : DOMAIN f[c] = CategoryFields /\ f[c].id = c.id /\ f[c].name = c.name
  BY DEF CatsOK, CategoryFields
<1>3. DOMAIN f = cats
  OBVIOUS
<1> HIDE DEF f
<1>4. QED
  BY <1>1, <1>2, <1>3, Reshaped

(* How a step may change the sidebars: the categories keep their names, or *)
(* are new, and whoever creates the missing ones loses none unnoticed.     *)
Creator(u) == \E j \in Calls : call[j].stage = "creating" /\ call[j].user = u

Evolves(u) ==
  /\ \A c \in sidebar'[u] : lastID < c.id \/ \E d \in sidebar[u] : c.id = d.id /\ c.name = d.name
  /\ NamedAs(sidebar[u], sidebar'[u]) \/ <<u, "purged">> \in spoilt' \/ ~Creator(u)

SidebarsGo ==
  /\ faults' \in Nat /\ faults <= faults' /\ lastID' \in Nat /\ lastID <= lastID'
  /\ spoilt \subseteq spoilt'
  /\ DOMAIN sidebar' = Users
  /\ \A u \in Users : SidebarOK(sidebar'[u], lastID') /\ Evolves(u)

(* What was read stays sound, *)
LEMMA ReadsStay ==
  ASSUME SidebarInv, SidebarsGo, NEW k \in Calls
  PROVE  /\ CatsOK(call[k].cats, lastID')
         /\ call[k].user \in Users => Agree(call[k].cats, sidebar'[call[k].user])
<1>1. \A c \in call[k].cats : DOMAIN c = CategoryFields /\ c.id \in Nat /\ c.id <= lastID
  BY DEF SidebarInv, ReadOK, CatsOK
<1>2. CatsOK(call[k].cats, lastID')
  <2>1. \A c \in call[k].cats : DOMAIN c = CategoryFields /\ c.id \in Nat /\ c.id <= lastID'
    BY <1>1 DEF SidebarInv, SidebarsGo
  <2>2. QED
    BY <2>1 DEF SidebarInv, ReadOK, CatsOK
<1>3. ASSUME NEW u \in Users, u = call[k].user, NEW c \in call[k].cats, NEW d \in sidebar'[u],
             c.id = d.id
      PROVE  c.name = d.name
  <2>1. ~(lastID < d.id)
    BY <1>1, <1>3 DEF SidebarInv
  <2>2. PICK e \in sidebar[u] : d.id = e.id /\ d.name = e.name
    BY <1>3, <2>1 DEF SidebarsGo, Evolves
  <2>3. Agree(call[k].cats, sidebar[u])
    BY <1>3 DEF SidebarInv, ReadOK
  <2>4. QED
    BY <1>3, <2>2, <2>3 DEF Agree
<1>4. QED
  BY <1>2, <1>3 DEF Agree

(* by the handlers that rest; and whoever waits for a category still does. *)
LEMMA RestingReads ==
  ASSUME SidebarInv, SidebarsGo, NEW k \in Calls, call'[k] = call[k]
  PROVE  ReadOK(call[k])'
<1>1. ReadOK(call[k])
  BY DEF SidebarInv
<1>2. /\ CatsOK(call[k].cats, lastID')
      /\ call[k].user \in Users => Agree(call[k].cats, sidebar'[call[k].user])
  BY ReadsStay
<1>3. \A u : Excused(faults, spoilt, u) => Excused(faults', spoilt', u)
  BY DEF Excused, SidebarInv, SidebarsGo
<1>4. ASSUME call[k].stage = "creating", NEW org \in Organizations,
             HasCategory(sidebar[call[k].user], org)
      PROVE  Excused(faults', spoilt', call[k].user) \/ HasCategory(sidebar'[call[k].user], org)
  <2>1. call[k].user \in Users /\ Creator(call[k].user)
    BY <1>1, <1>4 DEF ReadOK, Ended, Creator
  <2>2. \/ NamedAs(sidebar[call[k].user], sidebar'[call[k].user])
        \/ Excused(faults', spoilt', call[k].user)
    BY <2>1 DEF SidebarsGo, Evolves, Excused
  <2>3. QED
    BY <1>4, <2>2, StillNamed
<1>5. call[k].stage = "creating" =>
        /\ call[k].todo \subseteq Organizations
        /\ \A org \in Organizations :
             Excused(faults', spoilt', call[k].user) \/ org \in call[k].todo
               \/ HasCategory(sidebar'[call[k].user], org)
  BY <1>1, <1>3, <1>4 DEF ReadOK
<1>6. call[k].stage = "filing" =>
        \A org \in Organizations :
          Excused(faults', spoilt', call[k].user) \/ HasCategory(call[k].cats, org)
  BY <1>1, <1>3 DEF ReadOK
<1>7. call[k].stage \notin Ended => call[k].user \in Users
  BY <1>1 DEF ReadOK
<1>8. PICK r : r = call[k] /\ r = call'[k]
  OBVIOUS
<1>9. QED
  BY <1>2, <1>5, <1>6, <1>7, <1>8 DEF ReadOK, Excused

(* A handler goes on with categories that are sound, *)
LEMMA GoReads ==
  ASSUME SidebarInv, CallsOK, SidebarsGo, NEW k \in Calls, NEW stage, NEW known,
         DOMAIN known = CallFields, Go(k, stage, known),
         stage \notin Ended =>
           /\ known.user \in Users /\ CatsOK(known.cats, lastID')
           /\ Agree(known.cats, sidebar'[known.user]),
         stage = "creating" =>
           /\ known.todo \subseteq Organizations
           /\ \A org \in Organizations :
                \/ Excused(faults', spoilt', known.user)
                \/ org \in known.todo
                \/ HasCategory(sidebar'[known.user], org),
         stage = "filing" =>
           \A org \in Organizations :
             Excused(faults', spoilt', known.user) \/ HasCategory(known.cats, org)
  PROVE  SidebarInv'
<1>1. \A j \in Calls \ {k} : ReadOK(call[j])'
  BY GoStage, RestingReads
<1>2. CASE stage \notin Ended
  <2>1. /\ call'[k].stage = stage /\ call'[k].user = known.user
        /\ call'[k].cats = known.cats /\ call'[k].todo = known.todo
    BY <1>2, GoStage DEF CallFields
  <2>2. ReadOK(call[k])'
    BY <1>2, <2>1 DEF ReadOK, Excused
  <2>3. QED
    BY <1>1, <2>2 DEF SidebarInv, SidebarsGo
<1>3. CASE stage \in Ended
  <2>1. call' = [call EXCEPT ![k] = Answer(k, stage)]
    BY <1>3 DEF Go
  <2>2. call'[k] = Answer(k, stage)
    BY <2>1 DEF CallsOK
  <2>3. Answer(k, stage).cats = {} /\ Answer(k, stage).stage \in Ended
    BY <1>3 DEF Answer, Request, Idle, Ended
  <2>4. CatsOK({}, lastID') /\ \A s : Agree({}, s)
    BY DEF CatsOK, Agree
  <2>5. call'[k].cats = {} /\ call'[k].stage \in Ended
    BY <2>2, <2>3
  <2>6. ReadOK(call[k])'
    BY <2>4, <2>5 DEF ReadOK, Ended
  <2>7. QED
    BY <1>1, <2>6 DEF SidebarInv, SidebarsGo
<1>4. QED
  BY <1>2, <1>3

(* or with those it had, or none. *)
LEMMA GoReadsOn ==
  ASSUME SidebarInv, CallsOK, SidebarsGo, NEW k \in Calls, NEW stage, NEW known,
         DOMAIN known = CallFields, Go(k, stage, known),
         stage \notin {"creating", "filing"},
         \/ stage \in Ended
         \/ /\ Active(k) /\ known.user = call[k].user
            /\ known.cats = {} \/ known.cats = call[k].cats
  PROVE  SidebarInv'
<1>1. CatsOK({}, lastID') /\ \A s : Agree({}, s)
  BY DEF CatsOK, Agree
<1>2. Active(k) => call[k].user \in Users
  BY DEF Active, SidebarInv, ReadOK
<1>3. stage \notin Ended => /\ known.user \in Users /\ CatsOK(known.cats, lastID')
                            /\ Agree(known.cats, sidebar'[known.user])
  BY <1>1, <1>2, ReadsStay
<1>4. QED
  BY <1>3, GoReads

(* A new request has read none, *)
LEMMA SentReads ==
  ASSUME SidebarInv, CallsOK, SidebarsGo, NEW request, request.user \in Users, request.cats = {},
         request.stage \notin {"creating", "filing"}, Send(request)
  PROVE  SidebarInv'
<1>1. PICK k \in Calls : call' = [call EXCEPT ![k] = request]
  BY DEF Send
<1>2. call'[k] = request /\ \A j \in Calls \ {k} : call'[j] = call[j]
  BY <1>1 DEF CallsOK
<1>3. \A j \in Calls \ {k} : ReadOK(call[j])'
  BY <1>2, RestingReads
<1>4. CatsOK({}, lastID') /\ \A s : Agree({}, s)
  BY DEF CatsOK, Agree
<1>5. ReadOK(call[k])'
  BY <1>2, <1>4 DEF ReadOK
<1>6. QED
  BY <1>3, <1>5 DEF SidebarInv, SidebarsGo

(* and one that is answered has forgotten them. *)
LEMMA AnsweredReads ==
  ASSUME SidebarInv, CallsOK, SidebarsGo, NEW k \in Calls, call' = [call EXCEPT ![k] = Idle]
  PROVE  SidebarInv'
<1>1. call'[k] = Idle /\ \A j \in Calls \ {k} : call'[j] = call[j]
  BY DEF CallsOK
<1>2. Idle.stage = "idle" /\ Idle.cats = {}
  BY DEF Idle
<1>3. \A j \in Calls \ {k} : ReadOK(call[j])'
  BY <1>1, RestingReads
<1>4. CatsOK({}, lastID') /\ \A s : Agree({}, s)
  BY DEF CatsOK, Agree
<1>5. call'[k].stage = "idle" /\ call'[k].cats = {}
  BY <1>1, <1>2
<1>6. ReadOK(call[k])'
  BY <1>4, <1>5 DEF ReadOK, Ended
<1>7. QED
  BY <1>3, <1>6 DEF SidebarInv, SidebarsGo

(* The sidebars go on when they rest, *)
LEMMA SidebarsRest ==
  ASSUME SidebarInv, faults' = faults \/ Fault \/ NoFault, spoilt \subseteq spoilt',
         UNCHANGED sidebars
  PROVE  SidebarsGo
<1>1. faults' \in Nat /\ faults <= faults' /\ UNCHANGED <<sidebar, lastID>>
  BY DEF SidebarInv, Fault, NoFault, sidebars
<1>2. \A u \in Users : Evolves(u)
  BY <1>1 DEF Evolves, NamedAs
<1>3. QED
  BY <1>1, <1>2 DEF SidebarsGo, SidebarInv

(* when one of them is changed, *)
LEMMA OneSidebar ==
  ASSUME SidebarInv, Fault \/ NoFault, spoilt \subseteq spoilt', UNCHANGED lastID,
         NEW u \in Users, NEW new, SidebarOK(new, lastID), sidebar' = [sidebar EXCEPT ![u] = new],
         NamedAs(new, sidebar[u]),
         NamedAs(sidebar[u], new) \/ <<u, "purged">> \in spoilt' \/ ~Creator(u)
  PROVE  SidebarsGo
<1>1. /\ faults' \in Nat /\ faults <= faults' /\ lastID' = lastID /\ lastID \in Nat
      /\ DOMAIN sidebar' = Users /\ sidebar'[u] = new
      /\ \A v \in Users \ {u} : sidebar'[v] = sidebar[v]
  BY DEF SidebarInv, Fault, NoFault
<1>2. \A v \in Users : SidebarOK(sidebar'[v], lastID)
  BY <1>1 DEF SidebarInv
<1>3. Evolves(u)
  BY <1>1 DEF Evolves, NamedAs
<1>4. \A v \in Users \ {u} : Evolves(v)
  BY <1>1 DEF Evolves, NamedAs
<1>5. QED
  BY <1>1, <1>2, <1>3, <1>4 DEF SidebarsGo

(* and when a category is created. *)
LEMMA CategoryCreated ==
  ASSUME SidebarInv, UNCHANGED spoilt, NEW u \in Users, NEW org \in Organizations,
         CreateCategory(u, org)
  PROVE  SidebarsGo /\ HasCategory(sidebar'[u], org) /\ NamedAs(sidebar[u], sidebar'[u])
<1>1. PICK chans :
        /\ Fault \/ NoFault
        /\ lastID' = lastID + 1
        /\ sidebar' = [sidebar EXCEPT ![u] =
             CreateChannelSidebarCategory(@, lastID + 1, org, chans)]
  BY DEF CreateCategory
<1>2. PICK old, new : /\ old = sidebar[u]
                      /\ new = CreateChannelSidebarCategory(old, lastID + 1, org, chans)
  OBVIOUS
<1>3. /\ faults' \in Nat /\ faults <= faults' /\ lastID \in Nat
      /\ DOMAIN sidebar' = Users /\ sidebar'[u] = new
      /\ \A v \in Users \ {u} : sidebar'[v] = sidebar[v]
  BY <1>1, <1>2 DEF SidebarInv, Fault, NoFault
<1>4. PICK last \in Nat : last = lastID
  BY <1>3
<1>5. /\ SidebarOK(new, last + 1) /\ NamedAs(old, new) /\ HasCategory(new, org)
      /\ \A c \in new : last < c.id \/ \E d \in old : c.id = d.id /\ c.name = d.name
  <2>1. SidebarOK(old, last)
    BY <1>2, <1>4 DEF SidebarInv
  <2>2. new = CreateChannelSidebarCategory(old, last + 1, org, chans)
    BY <1>2, <1>4
  <2>3. QED
    BY <2>1, <2>2, CreatedOK
<1>6. \A v \in Users : SidebarOK(sidebar'[v], lastID')
  <2>1. \A v \in Users \ {u} : SidebarOK(sidebar[v], lastID)
    BY DEF SidebarInv
  <2>2. \A v \in Users \ {u} : SidebarOK(sidebar[v], lastID + 1)
    BY <1>3, <2>1 DEF SidebarOK, CatsOK
  <2>3. QED
    BY <1>1, <1>3, <1>4, <1>5, <2>2
<1>7. Evolves(u)
  BY <1>2, <1>3, <1>4, <1>5 DEF Evolves
<1>8. \A v \in Users \ {u} : Evolves(v)
  BY <1>3 DEF Evolves, NamedAs
<1>9. QED
  BY <1>1, <1>2, <1>3, <1>5, <1>6, <1>7, <1>8 DEF SidebarsGo

(* What a handler at work has read, of whose sidebar. *)
LEMMA AtWork ==
  ASSUME SidebarInv, CallsOK, NEW k \in Calls, Active(k)
  PROVE  LET u == call[k].user IN
         /\ u \in Users /\ DOMAIN call[k] = CallFields /\ DOMAIN Idle = CallFields
         /\ SidebarOK(sidebar[u], lastID) /\ CatsOK(call[k].cats, lastID)
         /\ Agree(call[k].cats, sidebar[u])
BY DEF SidebarInv, ReadOK, Active, CallsOK, CallOK, Idle, CallFields

(* What is read now agrees with what is there. *)
LEMMA SeenAgrees ==
  ASSUME NEW cats, NEW n, SidebarOK(cats, n), NEW m
  PROVE  LET seen == GetChannelSidebarCategories(cats, m) IN
         CatsOK(seen, n) /\ Agree(seen, cats) /\ NamedAs(cats, seen)
<1> DEFINE seen == GetChannelSidebarCategories(cats, m)
<1>1. CatsOK(seen, n) /\ NamedAs(seen, cats) /\ NamedAs(cats, seen)
  BY SeenOK DEF SidebarOK
<1> HIDE DEF seen
<1>2. Agree(seen, cats)
  BY <1>1 DEF NamedAs, Agree, SidebarOK, CatsOK
<1>3. QED
  BY <1>1, <1>2 DEF seen

(* The steps that neither read nor write categories, *)
LEMMA QuietReads ==
  ASSUME SidebarInv, CallsOK, NEW k \in Calls, Active(k), UNCHANGED sidebars, Fault \/ NoFault,
         spoilt \subseteq spoilt', NEW stage, stage \notin {"creating", "filing"},
         \/ stage \in Ended /\ Go(k, stage, Idle)
         \/ Go(k, stage, call[k])
         \/ \E x : Go(k, stage, [call[k] EXCEPT !.todo = x])
         \/ \E x : Go(k, stage, [call[k] EXCEPT !.rows = x])
         \/ \E x, y : Go(k, stage, [call[k] EXCEPT !.rows = x, !.todo = y])
         \/ Go(k, stage, [call[k] EXCEPT !.cats = {}])
         \/ Go(k, stage, Forgetting(k))
         \/ \E x : Go(k, stage, [call[k] EXCEPT !.channel = x])
         \/ \E x : Go(k, stage, [call[k] EXCEPT !.name.number = x])
  PROVE  SidebarInv'
<1>1. DOMAIN call[k] = CallFields /\ DOMAIN Idle = CallFields
  BY AtWork
<1>2. SidebarsGo
  BY SidebarsRest
<1>3. CASE stage \in Ended /\ Go(k, stage, Idle)
  BY <1>1, <1>2, <1>3, GoReadsOn
<1>4. CASE Go(k, stage, call[k])
  BY <1>1, <1>2, <1>4, GoReadsOn
<1>5. ASSUME NEW x, NEW y, NEW known, Go(k, stage, known),
             \/ known = [call[k] EXCEPT !.todo = x]
             \/ known = [call[k] EXCEPT !.rows = x]
             \/ known = [call[k] EXCEPT !.rows = x, !.todo = y]
             \/ known = [call[k] EXCEPT !.cats = {}]
             \/ known = Forgetting(k)
             \/ known = [call[k] EXCEPT !.channel = x]
             \/ known = [call[k] EXCEPT !.name.number = x]
      PROVE  SidebarInv'
  <2>1. /\ DOMAIN known = CallFields /\ known.user = call[k].user
        /\ known.cats = {} \/ known.cats = call[k].cats
    BY <1>1, <1>5 DEF CallFields, Forgetting
  <2>2. QED
    BY <1>2, <1>5, <2>1, GoReadsOn
<1>6. QED
  BY <1>3, <1>4, <1>5

(* among them some of the clean; *)
LEMMA QuietCleanReads ==
  ASSUME SidebarInv, CallsOK, NEW k \in Calls,
         \/ cleanCategories(k) \/ LinkChannelToOrganization(k) \/ ChooseStrategy(k)
         \/ GetAllChannels(k)
  PROVE  SidebarInv'
<1>1. /\ Active(k) /\ UNCHANGED <<sidebars, spoilt>> /\ (Fault \/ NoFault)
  BY DEF cleanCategories, LinkChannelToOrganization, ChooseStrategy, GetAllChannels, At, Active,
     Ended, tables
<1>2. CASE cleanCategories(k) \/ LinkChannelToOrganization(k) \/ GetAllChannels(k)
  <2>1. PICK stage \in {"linking", "purging", "failed"} :
          \/ stage \in Ended /\ Go(k, stage, Idle)
          \/ \E x : Go(k, stage, [call[k] EXCEPT !.todo = x])
          \/ \E x : Go(k, stage, [call[k] EXCEPT !.rows = x])
          \/ \E x, y : Go(k, stage, [call[k] EXCEPT !.rows = x, !.todo = y])
    BY <1>2 DEF cleanCategories, LinkChannelToOrganization, GetAllChannels, Ended
  <2>2. QED
    BY <1>1, <2>1, QuietReads
<1>3. CASE ChooseStrategy(k)
  <2>1. PICK stage \in {AfterClean(k), "setup", "purge", "rows", "failed"} :
          \/ stage \in Ended /\ Go(k, stage, Idle)
          \/ \E x : Go(k, stage, [call[k] EXCEPT !.rows = x])
          \/ Go(k, stage, [call[k] EXCEPT !.cats = {}])
          \/ Go(k, stage, Forgetting(k))
    BY <1>3 DEF ChooseStrategy, Ended
  <2>2. stage \notin {"creating", "filing"}
    BY <2>1 DEF AfterClean
  <2>3. QED
    BY <1>1, <2>1, <2>2, QuietReads
<1>4. QED
  BY <1>2, <1>3

(* those that read them, *)
LEMMA CategoriesRead ==
  ASSUME SidebarInv, CallsOK, NEW k \in Calls,
         GetCategories(k) \/ ReadCategoriesToAdd(k) \/ ReadCategoriesToFile(k)
  PROVE  SidebarInv'
<1> DEFINE u == call[k].user
           seen == GetChannelSidebarCategories(sidebar[u], mine(u))
           known == [call[k] EXCEPT !.cats = seen]
<1>1. Active(k) /\ UNCHANGED <<sidebars, spoilt>> /\ (Fault \/ NoFault)
  BY DEF GetCategories, ReadCategoriesToAdd, ReadCategoriesToFile, At, tables, Active, Ended
<1>2. /\ u \in Users /\ DOMAIN call[k] = CallFields /\ DOMAIN Idle = CallFields
      /\ SidebarOK(sidebar[u], lastID)
  BY <1>1, AtWork
<1>3. SidebarsGo /\ lastID' = lastID /\ sidebar' = sidebar
  BY <1>1, SidebarsRest DEF sidebars
<1>4. CatsOK(seen, lastID') /\ Agree(seen, sidebar'[u]) /\ NamedAs(sidebar[u], seen)
  BY <1>2, <1>3, SeenAgrees
<1>5. PICK stage \in {"clean", "file", "filing", "ok", "failed"} :
        \/ /\ Go(k, stage, known)
           /\ stage = "filing" => call[k].stage = "creating" /\ call[k].todo = {}
        \/ stage \in Ended /\ Go(k, stage, Idle)
  BY DEF GetCategories, ReadCategoriesToAdd, ReadCategoriesToFile, Ended, At
<1>6. DOMAIN known = CallFields /\ known.user = u /\ known.cats = seen
  BY <1>2 DEF CallFields
<1>7. ASSUME call[k].stage = "creating", call[k].todo = {}, NEW org \in Organizations
      PROVE  Excused(faults', spoilt', u) \/ HasCategory(seen, org)
  <2>1. Excused(faults, spoilt, u) \/ HasCategory(sidebar[u], org)
    BY <1>7 DEF SidebarInv, ReadOK
  <2>2. Excused(faults, spoilt, u) => Excused(faults', spoilt', u)
    BY <1>3 DEF Excused, SidebarInv, SidebarsGo
  <2>3. QED
    BY <1>4, <2>1, <2>2, StillNamed
<1> HIDE DEF known, seen
<1>8. CASE /\ Go(k, stage, known)
           /\ stage = "filing" => call[k].stage = "creating" /\ call[k].todo = {}
  <2>1. stage = "filing" =>
          \A org \in Organizations : Excused(faults', spoilt', u) \/ HasCategory(known.cats, org)
    BY <1>6, <1>7, <1>8
  <2>2. /\ known.user \in Users /\ CatsOK(known.cats, lastID')
        /\ Agree(known.cats, sidebar'[known.user])
    BY <1>2, <1>4, <1>6
  <2>3. QED
    BY <1>3, <1>6, <1>8, <2>1, <2>2, GoReads DEF Excused
<1>9. CASE stage \in Ended /\ Go(k, stage, Idle)
  BY <1>2, <1>3, <1>9, GoReadsOn DEF Ended
<1>10. QED
  BY <1>5, <1>8, <1>9

(* those that create them, *)
LEMMA MissingRead ==
  ASSUME SidebarInv, CallsOK, NEW k \in Calls, setupCategories(k)
  PROVE  SidebarInv'
<1> DEFINE u == call[k].user
           seen == GetChannelSidebarCategories(sidebar[u], mine(u))
           known == [call[k] EXCEPT !.todo = Missing(seen)]
<1>1. /\ Active(k) /\ UNCHANGED <<sidebars, spoilt>> /\ (Fault \/ NoFault)
      /\ Go(k, "creating", known) \/ Go(k, "failed", Idle)
  BY DEF setupCategories, At, tables, Active, Ended
<1>2. /\ u \in Users /\ DOMAIN call[k] = CallFields /\ DOMAIN Idle = CallFields
      /\ SidebarOK(sidebar[u], lastID)
  BY <1>1, AtWork
<1>3. SidebarsGo /\ sidebar' = sidebar
  BY <1>1, SidebarsRest DEF sidebars
<1>4. DOMAIN known = CallFields /\ known.user = u /\ known.cats = call[k].cats
        /\ known.todo = Missing(seen)
  BY <1>2 DEF CallFields
<1>5. \A org \in Organizations : org \in Missing(seen) \/ HasCategory(sidebar'[u], org)
  <2>1. NamedAs(seen, sidebar[u])
    BY <1>2, SeenOK DEF SidebarOK
  <2> HIDE DEF seen
  <2>2. QED
    BY <1>3, <2>1, StillNamed DEF Missing
<1>6. Missing(seen) \subseteq Organizations
  BY DEF Missing
<1> HIDE DEF known, seen
<1>7. CatsOK(known.cats, lastID') /\ Agree(known.cats, sidebar'[u])
  BY <1>2, <1>3, <1>4, ReadsStay
<1>8. CASE Go(k, "creating", known)
  BY <1>2, <1>3, <1>4, <1>5, <1>6, <1>7, <1>8, GoReads
<1>9. CASE Go(k, "failed", Idle)
  BY <1>2, <1>3, <1>9, GoReadsOn DEF Ended
<1>10. QED
  BY <1>1, <1>8, <1>9

LEMMA CreateMissingReads ==
  ASSUME SidebarInv, CallsOK, NEW k \in Calls, CreateMissing(k)
  PROVE  SidebarInv'
<1> DEFINE u == call[k].user
           org == CHOOSE o \in call[k].todo : TRUE
           known == [call[k] EXCEPT !.todo = @ \ {org}]
<1>1. /\ Active(k) /\ UNCHANGED spoilt /\ call[k].stage = "creating" /\ org \in call[k].todo
      /\ Go(k, "creating", known)
      /\ CreateCategory(u, org) \/ (Fault /\ UNCHANGED sidebars)
  BY DEF CreateMissing, At, Active, Ended
<1>2. /\ u \in Users /\ DOMAIN call[k] = CallFields
      /\ call[k].todo \subseteq Organizations
      /\ \A o \in Organizations :
           Excused(faults, spoilt, u) \/ o \in call[k].todo \/ HasCategory(sidebar[u], o)
  BY <1>1, AtWork DEF SidebarInv, ReadOK
<1>3. DOMAIN known = CallFields /\ known.user = u /\ known.cats = call[k].cats
        /\ known.todo = call[k].todo \ {org}
  BY <1>2 DEF CallFields
<1> HIDE DEF known, org
<1>4. org \in Organizations
  BY <1>1, <1>2
<1>5. SidebarsGo
  BY <1>1, <1>2, <1>4, SidebarsRest, CategoryCreated
<1>6. \A o \in Organizations :
        Excused(faults', spoilt', u) \/ o \in known.todo \/ HasCategory(sidebar'[u], o)
  <2>1. Excused(faults, spoilt, u) => Excused(faults', spoilt', u)
    BY <1>5 DEF Excused, SidebarInv, SidebarsGo
  <2>2. CASE CreateCategory(u, org)
    <3>1. HasCategory(sidebar'[u], org) /\ NamedAs(sidebar[u], sidebar'[u])
      BY <1>1, <1>2, <1>4, <2>2, CategoryCreated
    <3>2. QED
      BY <1>2, <1>3, <2>1, <3>1, StillNamed
  <2>3. CASE Fault
    BY <2>3 DEF Fault, Excused, SidebarInv
  <2>4. QED
    BY <1>1, <2>2, <2>3
<1>7. CatsOK(known.cats, lastID') /\ Agree(known.cats, sidebar'[u])
  BY <1>2, <1>3, <1>5, ReadsStay
<1>8. QED
  BY <1>1, <1>2, <1>3, <1>5, <1>6, <1>7, GoReads

LEMMA CreateEcosystemReads ==
  ASSUME SidebarInv, CallsOK, NEW k \in Calls, CreateEcosystem(k)
  PROVE  SidebarInv'
<1> DEFINE u == call[k].user
<1>1. /\ Active(k) /\ UNCHANGED spoilt
      /\ \/ CreateCategory(u, Ecosystem) /\ Go(k, "rows", call[k])
         \/ Fault /\ Go(k, "failed", Idle) /\ UNCHANGED sidebars
  BY DEF CreateEcosystem, At, Active, Ended
<1>2. u \in Users /\ DOMAIN call[k] = CallFields /\ DOMAIN Idle = CallFields
  BY <1>1, AtWork
<1>3. SidebarsGo
  BY <1>1, <1>2, OrganizationsAssumption, SidebarsRest, CategoryCreated
<1>4. QED
  BY <1>1, <1>2, <1>3, GoReadsOn DEF Ended

(* those that update them, *)
LEMMA UpdateReads ==
  ASSUME SidebarInv, CallsOK, NEW k \in Calls, Active(k), NEW update, NEW stage, NEW known,
         CatsOK(update, lastID), NamedAs(update, call[k].cats),
         Update(k, update, stage, known), stage \notin {"creating", "filing"},
         known = call[k] \/ known = Forgetting(k)
  PROVE  SidebarInv'
<1> DEFINE u == call[k].user
           new == UpdateChannelSidebarCategories(sidebar[u], update)
<1>1. /\ u \in Users /\ DOMAIN call[k] = CallFields /\ DOMAIN Idle = CallFields
      /\ SidebarOK(sidebar[u], lastID) /\ Agree(call[k].cats, sidebar[u])
  BY AtWork
<1>2. /\ Fault \/ NoFault
      /\ UNCHANGED <<lastID, spoilt>>
      /\ \/ /\ CanUpdate(sidebar[u], update)
            /\ sidebar' = [sidebar EXCEPT ![u] = new]
            /\ Go(k, stage, known)
         \/ UNCHANGED sidebar /\ Go(k, "failed", Idle)
  BY DEF Update
<1>3. Agree(update, sidebar[u])
  BY <1>1 DEF Agree, NamedAs
<1>4. CanUpdate(sidebar[u], update) =>
        SidebarOK(new, lastID) /\ NamedAs(new, sidebar[u]) /\ NamedAs(sidebar[u], new)
  BY <1>1, <1>3, UpdateOK
<1>5. DOMAIN known = CallFields /\ known.user = u /\ (known.cats = {} \/ known.cats = call[k].cats)
  BY <1>1 DEF CallFields, Forgetting
<1> HIDE DEF new
<1>6. CASE /\ CanUpdate(sidebar[u], update)
           /\ sidebar' = [sidebar EXCEPT ![u] = new]
           /\ Go(k, stage, known)
  <2>1. SidebarsGo
    BY <1>1, <1>2, <1>4, <1>6, OneSidebar
  <2>2. QED
    BY <1>5, <1>6, <2>1, GoReadsOn
<1>7. CASE UNCHANGED sidebar /\ Go(k, "failed", Idle)
  <2>1. SidebarsGo
    BY <1>2, <1>7, SidebarsRest DEF sidebars
  <2>2. QED
    BY <1>1, <1>7, <2>1, GoReadsOn DEF Ended
<1>8. QED
  BY <1>2, <1>6, <1>7

LEMMA UpdatesRead ==
  ASSUME SidebarInv, CallsOK, NEW k \in Calls, FileChannels(k) \/ PurgeCategories(k)
  PROVE  SidebarInv'
<1> DEFINE filed == setupOrganizationCategories(call[k].cats, call[k].rows)
           purged == purgeNonEcosystemCategories(call[k].cats, call[k].rows)
<1>1. /\ Active(k)
      /\ \/ Update(k, filed, AfterClean(k), Forgetting(k))
         \/ Update(k, purged, "leftovers", call[k])
  BY DEF FileChannels, PurgeCategories, At, Active, Ended
<1>2. CatsOK(call[k].cats, lastID)
  BY <1>1, AtWork
<1>3. /\ CatsOK(filed, lastID) /\ NamedAs(filed, call[k].cats)
      /\ CatsOK(purged, lastID) /\ NamedAs(purged, call[k].cats)
  BY <1>2, FiledOK, PurgedOK
<1>4. AfterClean(k) \notin {"creating", "filing"}
  BY DEF AfterClean
<1> HIDE DEF filed, purged
<1>5. QED
  BY <1>1, <1>3, <1>4, UpdateReads

(* the one that deletes them, *)
LEMMA DeleteReads ==
  ASSUME SidebarInv, CallsOK, NEW k \in Calls, DeleteCategories(k)
  PROVE  SidebarInv'
<1> DEFINE u == call[k].user
           over == {c.id : c \in Leftovers(call[k].cats)}
           left == {c \in sidebar[u] : c.id \notin over}
<1>1. /\ Active(k) /\ UNCHANGED lastID
      /\ Fault \/ NoFault
      /\ \/ /\ sidebar' = [sidebar EXCEPT ![u] = left]
            /\ Spoil({v \in {u} : Creator(u) /\ sidebar'[v] # sidebar[v]}, "purged")
            /\ Go(k, AfterClean(k), Forgetting(k))
         \/ UNCHANGED <<sidebar, spoilt>> /\ Go(k, "failed", Idle)
  BY DEF DeleteCategories, At, Active, Ended, Creator
<1>2. /\ u \in Users /\ DOMAIN call[k] = CallFields /\ DOMAIN Idle = CallFields
      /\ SidebarOK(sidebar[u], lastID)
  BY <1>1, AtWork
<1>3. SidebarOK(left, lastID) /\ NamedAs(left, sidebar[u])
  <2>1. DefaultID \notin over
    BY DEF Leftovers
  <2> HIDE DEF over
  <2>2. \E c \in left : c.id = DefaultID
    BY <1>2, <2>1 DEF SidebarOK
  <2>3. left \subseteq sidebar[u]
    OBVIOUS
  <2> HIDE DEF left
  <2>4. QED
    BY <1>2, <2>2, <2>3, SubsetOK DEF SidebarOK
<1>4. CASE /\ sidebar' = [sidebar EXCEPT ![u] = left]
           /\ Spoil({v \in {u} : Creator(u) /\ sidebar'[v] # sidebar[v]}, "purged")
           /\ Go(k, AfterClean(k), Forgetting(k))
  <2> HIDE DEF left
  <2>1. sidebar'[u] = left
    BY <1>2, <1>4 DEF SidebarInv
  <2>2. spoilt \subseteq spoilt'
    BY <1>4 DEF Spoil
  <2>3. NamedAs(sidebar[u], left) \/ <<u, "purged">> \in spoilt' \/ ~Creator(u)
    <3>1. left = sidebar[u] => NamedAs(sidebar[u], left)
      BY DEF NamedAs
    <3>2. left # sidebar[u] /\ Creator(u) => <<u, "purged">> \in spoilt'
      BY <1>4, <2>1 DEF Spoil
    <3>3. QED
      BY <3>1, <3>2
  <2>4. SidebarsGo
    BY <1>1, <1>2, <1>3, <1>4, <2>2, <2>3, OneSidebar
  <2>5. PICK stage, known :
          /\ stage = AfterClean(k) /\ known = Forgetting(k)
          /\ stage \notin {"creating", "filing"}
    BY DEF AfterClean
  <2>6. DOMAIN known = CallFields /\ known.user = u /\ known.cats = {}
    BY <1>2, <2>5 DEF Forgetting, CallFields
  <2>7. QED
    BY <1>1, <1>4, <2>4, <2>5, <2>6, GoReadsOn
<1>5. CASE UNCHANGED <<sidebar, spoilt>> /\ Go(k, "failed", Idle)
  <2>1. SidebarsGo
    BY <1>1, <1>5, SidebarsRest DEF sidebars
  <2>2. QED
    BY <1>2, <1>5, <2>1, GoReadsOn DEF Ended
<1>6. QED
  BY <1>1, <1>4, <1>5

(* and the one that files a new channel. *)
LEMMA AddedReads ==
  ASSUME SidebarInv, CallsOK, NEW k \in Calls, addChannelToCategory(k)
  PROVE  SidebarInv'
<1> DEFINE u == call[k].user
           cats == call[k].cats
           target == Named(cats, call[k].org)
           f == [c \in cats |->
                   IF c \in target THEN [c EXCEPT !.channels = @ \cup {call[k].channel}] ELSE c]
           update == {f[c] : c \in cats}
           new == UpdateChannelSidebarCategories(sidebar[u], update)
<1>1. /\ Active(k) /\ UNCHANGED <<lastID, spoilt>>
      /\ Fault \/ NoFault
      /\ Go(k, "ok", Idle)
      /\ \/ CanUpdate(sidebar[u], update) /\ sidebar' = [sidebar EXCEPT ![u] = new]
         \/ UNCHANGED sidebar
  BY DEF addChannelToCategory, At, Active, Ended
<1>2. /\ u \in Users /\ DOMAIN Idle = CallFields
      /\ CatsOK(cats, lastID) /\ Agree(cats, sidebar[u]) /\ SidebarOK(sidebar[u], lastID)
  BY <1>1, AtWork
<1>3. CatsOK(update, lastID) /\ NamedAs(update, cats)
  <2>1. \A c \in cats : DOMAIN f[c] = CategoryFields /\ f[c].id = c.id /\ f[c].name = c.name
    BY <1>2 DEF CatsOK, CategoryFields
  <2>2. DOMAIN f = cats
    OBVIOUS
  <2> HIDE DEF f, cats
  <2>3. QED
    BY <1>2, <2>1, <2>2, Reshaped
<1> HIDE DEF update
<1>4. Agree(update, sidebar[u])
  BY <1>2, <1>3 DEF Agree, NamedAs
<1>5. CanUpdate(sidebar[u], update) =>
        SidebarOK(new, lastID) /\ NamedAs(new, sidebar[u]) /\ NamedAs(sidebar[u], new)
  BY <1>2, <1>4, <1>3, UpdateOK
<1> HIDE DEF new
<1>6. SidebarsGo
  BY <1>1, <1>2, <1>5, OneSidebar, SidebarsRest DEF sidebars
<1>7. QED
  BY <1>1, <1>2, <1>6, GoReadsOn DEF Ended

(* The sidebars stay sound through every step. *)
LEMMA SidebarInvInit ==
  ASSUME Init
  PROVE  SidebarInv
<1>1. /\ faults = 0 /\ lastID = 0 /\ sidebar = [u \in Users |-> EmptySidebar]
      /\ \A k \in Calls : call[k] = Idle
  BY DEF Init, PluginInit, DefaultID
<1>2. Idle.stage = "idle" /\ Idle.cats = {}
  BY DEF Idle
<1>3. CatsOK({}, 0) /\ SidebarOK(EmptySidebar, 0) /\ \A s : Agree({}, s)
  BY OrganizationsAssumption
  DEF SidebarOK, CatsOK, EmptySidebar, DefaultID, NoName, CategoryFields, Agree
<1>4. QED
  BY <1>1, <1>2, <1>3 DEF SidebarInv, ReadOK, Ended

LEMMA HandlerReads ==
  ASSUME SidebarInv, CallsOK, spoilt \subseteq spoilt', NEW k \in Calls, Handles(k)
  PROVE  SidebarInv'
<1>1. ASSUME \/ GetChannelByName(k) \/ CreateChannel(k) \/ ReadMembers(k) \/ AddMember(k)
             \/ InsertRow(k)
      PROVE  SidebarInv'
  <2>1. PICK stage \in {"create", "members", "adding", "categories", "failed"} :
          \/ stage \in Ended /\ Go(k, stage, Idle)
          \/ Go(k, stage, call[k])
          \/ \E x : Go(k, stage, [call[k] EXCEPT !.todo = x])
          \/ \E x : Go(k, stage, [call[k] EXCEPT !.channel = x])
          \/ \E x : Go(k, stage, [call[k] EXCEPT !.name.number = x])
    BY <1>1 DEF GetChannelByName, CreateChannel, ReadMembers, AddMember, InsertRow, Ended
  <2>2. Active(k) /\ UNCHANGED sidebars /\ (Fault \/ NoFault)
    BY <1>1 DEF GetChannelByName, CreateChannel, ReadMembers, AddMember, InsertRow, At, Active, Ended,
       tables
  <2>3. QED
    BY <2>1, <2>2, QuietReads
<1>2. CASE AddChannelStep(k)
  BY <1>1, <1>2, CategoriesRead, AddedReads DEF AddChannelStep
<1>3. CASE GetUser(k) \/ ListChannels(k) \/ JoinOrLeave(k) \/ UpdateUser(k)
  <2>1. PICK stage \in {"channels", "leaving", "categories", "failed"} :
          \/ stage \in Ended /\ Go(k, stage, Idle)
          \/ Go(k, stage, call[k])
          \/ \E x : Go(k, stage, [call[k] EXCEPT !.todo = x])
    BY <1>3 DEF GetUser, ListChannels, JoinOrLeave, UpdateUser, Ended
  <2>2. Active(k) /\ UNCHANGED sidebars /\ (Fault \/ NoFault)
    BY <1>3 DEF GetUser, ListChannels, JoinOrLeave, UpdateUser, At, Active, Ended, tables
  <2>3. QED
    BY <2>1, <2>2, QuietReads
<1>4. CASE ListPublicChannels(k) \/ JoinPublicChannel(k)
  <2>1. PICK stage \in {"joining", "ok", "failed"} :
          \/ stage \in Ended /\ Go(k, stage, Idle)
          \/ \E x : Go(k, stage, [call[k] EXCEPT !.todo = x])
    BY <1>4 DEF ListPublicChannels, JoinPublicChannel, Ended
  <2>2. Active(k) /\ UNCHANGED sidebars /\ (Fault \/ NoFault)
    BY <1>4 DEF ListPublicChannels, JoinPublicChannel, At, Active, Ended, tables
  <2>3. QED
    BY <2>1, <2>2, QuietReads
<1>5. CASE CleanStep(k)
  BY <1>5, QuietCleanReads, CategoriesRead, MissingRead, CreateMissingReads, CreateEcosystemReads,
     UpdatesRead, DeleteReads DEF CleanStep
<1>6. QED
  BY <1>2, <1>3, <1>4, <1>5 DEF Handles

LEMMA SidebarInvStep ==
  ASSUME SidebarInv, CallsOK, [Next]_vars
  PROVE  SidebarInv'
<1>1. spoilt \subseteq spoilt'
  BY SpoiltGrows
<1>2. ASSUME UNCHANGED <<call, sidebars, faults>>
      PROVE  SidebarInv'
  <2>1. SidebarsGo /\ UNCHANGED <<call, sidebar, lastID, faults>>
    BY <1>1, <1>2, SidebarsRest DEF sidebars
  <2>2. \A k \in Calls : ReadOK(call[k])'
    BY <2>1, RestingReads
  <2>3. QED
    BY <2>1, <2>2 DEF SidebarInv, SidebarsGo
<1>3. CASE UNCHANGED vars
  BY <1>2, <1>3 DEF vars, pluginVars, tables
<1>4. ASSUME NEW request, request.user \in Users, request.cats = {},
             request.stage \in {"user", "categories", "name"}, Send(request),
             UNCHANGED <<tables, faults>>
      PROVE  SidebarInv'
  <2>1. SidebarsGo
    BY <1>1, <1>4, SidebarsRest DEF tables
  <2>2. QED
    BY <1>4, <2>1, SentReads
<1>5. ASSUME NEW u \in Users, NEW org, NEW password, SetOrganization(u, org, password),
             UNCHANGED <<tables, faults>>
      PROVE  SidebarInv'
  <2> DEFINE request == [Request("set", "user", u, org) EXCEPT !.password = password]
  <2>1. request.user = u /\ request.cats = {} /\ request.stage = "user" /\ Send(request)
    BY <1>5 DEF SetOrganization, Request, Idle
  <2> HIDE DEF request
  <2>2. QED
    BY <1>4, <1>5, <2>1
<1>6. ASSUME NEW u \in Users,
             \/ GetUserProps(u) \/ SetUserProps(u) \/ TypePassword(u) \/ closeModal(u)
             \/ ResetUserOrganization(u)
      PROVE  SidebarInv'
  BY <1>2, <1>6 DEF GetUserProps, SetUserProps, TypePassword, closeModal, ResetUserOrganization,
     pluginVars, tables
<1>7. ASSUME NEW u \in Users, NEW org \in Selectable, SelectOrganization(u, org)
      PROVE  SidebarInv'
  BY <1>2, <1>5, <1>7 DEF SelectOrganization, pluginVars, tables
<1>8. ASSUME NEW u \in Users, NEW password \in {"right", "wrong"}, ConfirmPassword(u, password)
      PROVE  SidebarInv'
  BY <1>5, <1>8 DEF ConfirmPassword
<1>9. ASSUME NEW u \in Users, userAdded(u)
      PROVE  SidebarInv'
  <2> DEFINE request == Request("added", "categories", u, NoOrg)
  <2>1. request.user = u /\ request.cats = {} /\ request.stage = "categories" /\ Send(request)
    BY <1>9 DEF userAdded, Request, Idle
  <2> HIDE DEF request
  <2>2. QED
    BY <1>4, <1>9, <2>1 DEF userAdded
<1>10. ASSUME NEW u \in Users, NEW org, NEW n, NEW public, createChannel(u, org, n, public)
       PROVE  SidebarInv'
  <2> DEFINE request == [Request("add", "name", u, org) EXCEPT
                           !.name = [NoChannel EXCEPT !.named = n, !.public = public]]
  <2>1. request.user = u /\ request.cats = {} /\ request.stage = "name" /\ Send(request)
    BY <1>10 DEF createChannel, Request, Idle
  <2> HIDE DEF request
  <2>2. QED
    BY <1>4, <1>10, <2>1 DEF createChannel
<1>11. ASSUME NEW c \in ChannelIDs, ArchiveChannel(c)
       PROVE  SidebarInv'
  BY <1>2, <1>11 DEF ArchiveChannel
<1>12. ASSUME NEW k \in Calls, SetOrganizationAnswered(k)
       PROVE  SidebarInv'
  <2>1. SidebarsGo
    BY <1>1, <1>12, SidebarsRest DEF SetOrganizationAnswered, tables
  <2>2. QED
    BY <1>12, <2>1, AnsweredReads DEF SetOrganizationAnswered
<1>13. QED
  BY <1>1, <1>3, <1>6, <1>7, <1>8, <1>9, <1>10, <1>11, <1>12, HandlerReads DEF Next, Handles

(* After setupOrganizationCategories a channel that is still seen in the   *)
(* default category has no category to go to.                              *)
LEMMA FilingFiles ==
  ASSUME NEW known, NEW n, CatsOK(known, n), NEW m, \A x \in m : \E d \in known : x \in d.channels, NEW rows,
         NEW c \in GetChannelSidebarCategories(setupOrganizationCategories(known, rows), m),
         NEW x \in c.channels, c.id = DefaultID, rows[x] \in Organizations
  PROVE  ~HasCategory(known, rows[x])
<1> DEFINE skipped == UNION {{y \in d.channels : rows[y] \in Organizations} :
                               d \in {e \in known : e.id = DefaultID}}
           g(d) == [d EXCEPT !.channels =
                      IF d.id = DefaultID THEN @ \ skipped
                      ELSE @ \cup {y \in skipped : rows[y] = d.name}]
           new == setupOrganizationCategories(known, rows)
<1>1. new = {g(d) : d \in known}
  BY DEF setupOrganizationCategories
<1>2. \A d \in known :
        /\ g(d).id = d.id
        /\ g(d).channels = IF d.id = DefaultID THEN d.channels \ skipped
                           ELSE d.channels \cup {y \in skipped : rows[y] = d.name}
  BY DEF CatsOK, CategoryFields
<1>3. \A y : y \in skipped <=> \E d \in known : d.id = DefaultID /\ y \in d.channels
                                             /\ rows[y] \in Organizations
  OBVIOUS
<1> HIDE DEF skipped, g
<1>4. CatsOK(new, n)
  BY FiledOK
<1> HIDE DEF new
<1>5. PICK e \in new : c.id = e.id /\ x \in m /\ (x \in e.channels \/ \A d \in new : x \notin d.channels)
  BY <1>4, SeenElements DEF new
<1>6. x \notin e.channels
  <2>1. PICK d \in known : e = g(d)
    BY <1>1, <1>5
  <2>2. QED
    BY <1>2, <1>3, <1>5, <2>1
<1>7. \A d \in known : x \notin g(d).channels
  BY <1>1, <1>5, <1>6
<1>8. x \in skipped
  BY <1>2, <1>3, <1>5, <1>7
<1>9. \A d \in known : d.name = rows[x] => d.id # DefaultID
  BY DEF CatsOK
<1>10. QED
  BY <1>2, <1>7, <1>8, <1>9 DEF HasCategory

(* The purge keeps a category if there is one of the ecosystem: the first. *)
LEMMA OneIsKept ==
  ASSUME NEW known, NEW n, CatsOK(known, n), HasCategory(known, Ecosystem)
  PROVE  \E c \in Kept(known) : c \in known /\ c.name = Ecosystem
<1> DEFINE ids == {c.id : c \in {d \in known : d.name = Ecosystem}}
<1>1. ids \subseteq Nat /\ ids # {}
  BY DEF CatsOK, HasCategory
<1>2. PICK i \in ids : \A j \in ids : ~(j < i)
  <2> HIDE DEF ids
  <2>1. QED
    BY <1>1, NatMin
<1>3. PICK c \in known : c.name = Ecosystem /\ c.id = i
  BY <1>2
<1>4. \A d \in known : d.name = Ecosystem => c.id <= d.id
  BY <1>1, <1>2, <1>3
<1>5. QED
  BY <1>3, <1>4 DEF Kept, Named

(* After purgeNonEcosystemCategories and the deletion. *)
PurgedOf(known, rows) ==
  {c \in purgeNonEcosystemCategories(known, rows) :
     c.id \notin {d.id : d \in Leftovers(known)}}

(* Categories of the ecosystem are left, and its channels are in them. *)
LEMMA PurgingPurges ==
  ASSUME NEW known, NEW n, CatsOK(known, n), HasCategory(known, Ecosystem),
         NEW m, \A x \in m : \E d \in known : x \in d.channels, NEW rows,
         NEW c \in GetChannelSidebarCategories(PurgedOf(known, rows), m)
  PROVE  /\ c.id # DefaultID => c.name = Ecosystem
         /\ c.id = DefaultID =>
              \A x \in c.channels : rows[x] = Ecosystem => \E d \in Leftovers(known) : x \in d.channels
<1> USE OrganizationsAssumption
<1> DEFINE new == PurgedOf(known, rows)
           default == UNION {d.channels : d \in {e \in known : e.id = DefaultID}}
           moved == {x \in default : rows[x] = Ecosystem}
           g(d) == [d EXCEPT !.channels =
                      IF d.id = DefaultID THEN {x \in @ : rows[x] \notin {Ecosystem, NoRow}}
                      ELSE IF d \in Kept(known) THEN @ \cup moved ELSE {}]
<1>1. purgeNonEcosystemCategories(known, rows) = {g(d) : d \in known}
  BY DEF purgeNonEcosystemCategories
<1>2. \A d \in known :
        /\ g(d).id = d.id /\ g(d).name = d.name
        /\ g(d).channels = IF d.id = DefaultID THEN {x \in d.channels : rows[x] \notin {Ecosystem, NoRow}}
                           ELSE IF d \in Kept(known) THEN d.channels \cup moved ELSE {}
  BY DEF CatsOK, CategoryFields
<1>3. \A x : x \in moved <=> \E d \in known : d.id = DefaultID /\ x \in d.channels
                                           /\ rows[x] = Ecosystem
  OBVIOUS
<1> HIDE DEF moved, g
<1>4. /\ \A d \in known : d.id # DefaultID /\ d \notin Kept(known) => d \in Leftovers(known)
      /\ \A d \in Leftovers(known) : d \in known /\ d.id # DefaultID /\ d \notin Kept(known)
      /\ \A d \in Kept(known) : d \in known /\ d.name = Ecosystem
  BY DEF Leftovers, Kept, Named
<1>5. \A e : e \in new <=> \E d \in known : e = g(d) /\ \A l \in Leftovers(known) : l.id # d.id
  <2>1. \A e : e \in new <=> /\ e \in purgeNonEcosystemCategories(known, rows)
                             /\ \A l \in Leftovers(known) : l.id # e.id
    BY DEF PurgedOf
  <2>2. \A e : e \in purgeNonEcosystemCategories(known, rows) <=> \E d \in known : e = g(d)
    BY <1>1
  <2>3. ASSUME NEW e, NEW d \in known, e = g(d)
        PROVE  e \in new <=> \A l \in Leftovers(known) : l.id # d.id
    <3>1. e.id = d.id
      BY <1>2, <2>3
    <3>2. e \in purgeNonEcosystemCategories(known, rows)
      BY <2>2, <2>3
    <3>3. QED
      BY <2>1, <3>1, <3>2
  <2>4. QED
    BY <2>1, <2>2, <2>3
<1>6. CatsOK(new, n)
  BY PurgedOK, SubsetOK DEF PurgedOf
<1> HIDE DEF new
<1>7. PICK e \in new :
        /\ c.id = e.id /\ c.name = e.name
        /\ \A x \in c.channels : x \in m /\ (x \in e.channels \/ \A d \in new : x \notin d.channels)
  BY <1>6, SeenElements DEF new
<1>8. PICK d \in known : e = g(d) /\ \A l \in Leftovers(known) : l.id # d.id
  BY <1>5, <1>7
<1>9. c.id # DefaultID => c.name = Ecosystem
  BY <1>2, <1>4, <1>7, <1>8
<1>10. ASSUME NEW x \in c.channels, c.id = DefaultID, rows[x] = Ecosystem
       PROVE  \E l \in Leftovers(known) : x \in l.channels
  <2>1. x \in m /\ \A f \in new : x \notin f.channels
    BY <1>2, <1>7, <1>8, <1>10
  <2>2. PICK h \in Kept(known) : h \in known /\ h.name = Ecosystem
    BY OneIsKept
  <2>3. h.id # DefaultID
    BY <2>2 DEF CatsOK
  <2>4. \A l \in Leftovers(known) : l.id # h.id
    BY <1>4, <2>2 DEF CatsOK
  <2>5. g(h) \in new
    BY <1>5, <2>2, <2>4
  <2>6. x \notin moved
    BY <1>2, <2>1, <2>2, <2>3, <2>5
  <2>7. PICK f \in known : x \in f.channels
    BY <2>1
  <2>8. f.id # DefaultID
    BY <1>3, <1>10, <2>6, <2>7
  <2>9. CASE f \in Kept(known)
    <3>1. \A l \in Leftovers(known) : l.id # f.id
      BY <1>4, <2>9 DEF CatsOK
    <3>2. g(f) \in new /\ x \in g(f).channels
      BY <1>2, <1>5, <2>7, <2>8, <2>9, <3>1
    <3>3. QED
      BY <2>1, <3>2
  <2>10. CASE f \notin Kept(known)
    BY <1>4, <2>7, <2>8, <2>10
  <2>11. QED
    BY <2>9, <2>10
<1>11. QED
  BY <1>9, <1>10

(* The last step of a clean whose reads still hold: after the update of    *)
(* setupOrganizationCategories,                                            *)
LEMMA FilingTidies ==
  ASSUME SidebarInv, CallsOK, NEW k \in Calls, FileChannels(k)
  PROVE  Tidied(k)
<1>1. PICK u, known, rows : u = call[k].user /\ known = call[k].cats /\ rows = call[k].rows
  OBVIOUS
<1>2. call[k].stage = "filing" /\ Active(k)
  BY DEF FileChannels, At, Active, Ended
<1>3. SUFFICES ASSUME call'[k].stage = AfterClean(k), row = rows, Seen(sidebar[u], u) = known
               PROVE  Filed(u, known, Seen(sidebar'[u], u))
  BY <1>1, <1>2 DEF Tidied
<1> DEFINE m == mine(u)
           update == setupOrganizationCategories(known, rows)
<1>4. /\ u \in Users /\ DOMAIN call[k] = CallFields /\ DOMAIN Idle = CallFields
      /\ SidebarOK(sidebar[u], lastID) /\ CatsOK(known, lastID)
  BY <1>1, <1>2, AtWork
<1>5. PICK s, n : s = sidebar[u] /\ n = lastID
  OBVIOUS
<1>6. known = GetChannelSidebarCategories(s, m) /\ SidebarOK(s, n) /\ CatsOK(known, n)
  BY <1>3, <1>4, <1>5 DEF Seen
<1> HIDE DEF m
<1>7. \A x \in m : \E c \in known : x \in c.channels
  BY <1>6, EverythingIsSeen
<1>8. CatsOK(update, n) /\ NamedAs(known, update) /\ NamedAs(s, known)
  BY <1>6, FiledOK, SeenOK DEF SidebarOK
<1>9. sidebar'[u] = update
  <2>1. ~Go(k, "failed", Idle)
    BY <1>2, <1>3, <1>4, GoStage DEF AfterClean, FileChannels, At, Cleaning, Ended
  <2>2. sidebar' = [sidebar EXCEPT ![u] = UpdateChannelSidebarCategories(@, update)]
    BY <1>1, <2>1 DEF FileChannels, Update
  <2>3. \A c \in s : \E d \in update : d.id = c.id
    BY <1>8 DEF NamedAs
  <2> HIDE DEF update
  <2>4. UpdateChannelSidebarCategories(s, update) = update
    BY <2>3 DEF UpdateChannelSidebarCategories
  <2>5. QED
    BY <1>4, <1>5, <2>2, <2>4 DEF SidebarInv
<1>10. SUFFICES ASSUME NEW c \in GetChannelSidebarCategories(update, m), NEW x \in c.channels,
                       c.id = DefaultID, rows[x] \in Organizations
                PROVE  ~HasCategory(known, rows[x]) /\ (faults > 0 \/ <<u, "purged">> \in spoilt)
  BY <1>3, <1>9 DEF Filed, Seen, m
<1>11. ~HasCategory(known, rows[x])
  BY <1>6, <1>7, <1>10, FilingFiles
<1>12. Excused(faults, spoilt, u)
  BY <1>1, <1>2, <1>10, <1>11 DEF SidebarInv, ReadOK
<1>13. QED
  BY <1>11, <1>12 DEF Excused

(* and after the deletion of purgeNonEcosystemCategories. *)
LEMMA DeletingTidies ==
  ASSUME SidebarInv, CallsOK, NEW k \in Calls, DeleteCategories(k)
  PROVE  Tidied(k)
<1>1. PICK u, known, rows : u = call[k].user /\ known = call[k].cats /\ rows = call[k].rows
  OBVIOUS
<1>2. call[k].stage = "leftovers" /\ Active(k)
  BY DEF DeleteCategories, At, Active, Ended
<1> DEFINE m == mine(u)
<1>3. SUFFICES ASSUME call'[k].stage = AfterClean(k), row = rows, HasCategory(known, Ecosystem),
                      sidebar[u] = purgeNonEcosystemCategories(known, rows),
                      \A x \in m : \E c \in known : x \in c.channels
               PROVE  Purged(known, Seen(sidebar'[u], u))
  BY <1>1, <1>2 DEF Tidied
<1>4. /\ u \in Users /\ DOMAIN call[k] = CallFields /\ DOMAIN Idle = CallFields
      /\ CatsOK(known, lastID)
  BY <1>1, <1>2, AtWork
<1>5. PICK n : CatsOK(known, n)
  BY <1>4
<1>6. sidebar'[u] = PurgedOf(known, rows)
  <2>1. ~Go(k, "failed", Idle)
    BY <1>2, <1>3, <1>4, GoStage DEF AfterClean, DeleteCategories, At, Cleaning, Ended
  <2>2. sidebar' = [sidebar EXCEPT ![u] = {c \in @ : c.id \notin {d.id : d \in Leftovers(known)}}]
    BY <1>1, <2>1 DEF DeleteCategories
  <2>3. QED
    BY <1>3, <1>4, <2>2 DEF PurgedOf, SidebarInv
<1> HIDE DEF m
<1>7. ASSUME NEW c \in GetChannelSidebarCategories(PurgedOf(known, rows), m)
      PROVE  /\ c.id # DefaultID => c.name = Ecosystem
             /\ c.id = DefaultID =>
                  \A x \in c.channels : rows[x] = Ecosystem =>
                    \E d \in Leftovers(known) : x \in d.channels
  <2>1. HasCategory(known, Ecosystem)
    BY <1>3
  <2>2. \A x \in m : \E d \in known : x \in d.channels
    BY <1>3
  <2>3. QED
    BY <1>5, <1>7, <2>1, <2>2, PurgingPurges
<1>8. QED
  BY <1>3, <1>6, <1>7 DEF Purged, Seen, m

(* No other step ends a clean that has come so far. *)
LEMMA OnlyTheLastEnds ==
  ASSUME CallsOK, [Next]_vars, NEW k \in Calls, call[k].stage \in {"filing", "leftovers"},
         call'[k].stage = AfterClean(k)
  PROVE  FileChannels(k) \/ DeleteCategories(k)
<1>1. call'[k].stage # call[k].stage
  BY DEF AfterClean
<1>2. call'[k] # call[k]
  BY <1>1
<1>3. ~UNCHANGED vars
  BY <1>2 DEF vars, pluginVars
<1>4. ASSUME NEW request, Send(request)
      PROVE  FALSE
  <2>1. PICK j \in Calls : call[j] = Idle /\ call' = [call EXCEPT ![j] = request]
    BY <1>4 DEF Send
  <2>2. j # k
    BY <2>1 DEF Idle
  <2>3. QED
    BY <1>2, <2>1, <2>2 DEF CallsOK
<1>5. ASSUME NEW u \in Users,
             \/ GetUserProps(u) \/ SetUserProps(u)
             \/ \E org \in Selectable : SelectOrganization(u, org)
             \/ \E password \in {"right", "wrong"} : ConfirmPassword(u, password)
             \/ TypePassword(u) \/ closeModal(u)
             \/ userAdded(u) \/ ResetUserOrganization(u)
             \/ \E org \in Organizations, n \in Names, public \in BOOLEAN :
                  createChannel(u, org, n, public)
      PROVE  FALSE
  BY <1>2, <1>4, <1>5 DEF GetUserProps, SetUserProps, SelectOrganization, ConfirmPassword,
     TypePassword, closeModal, userAdded, ResetUserOrganization, createChannel, SetOrganization,
     pluginVars
<1>6. ASSUME NEW c \in ChannelIDs, ArchiveChannel(c)
      PROVE  FALSE
  BY <1>2, <1>6 DEF ArchiveChannel
<1>7. ASSUME NEW j \in Calls, SetOrganizationAnswered(j)
      PROVE  FALSE
  <2>1. j # k /\ call' = [call EXCEPT ![j] = Idle]
    BY <1>7 DEF SetOrganizationAnswered
  <2>2. QED
    BY <1>2, <2>1 DEF CallsOK
<1>8. PICK j \in Calls : Handles(j)
  BY <1>3, <1>5, <1>6, <1>7 DEF Next, Handles
<1>9. j = k
  BY <1>2, <1>8, HandlerSteps DEF Goes
<1>10. \/ FileChannels(k) \/ DeleteCategories(k)
       \/ call[k].stage \in {"name", "create", "members", "adding", "categories", "file", "user",
                             "channels", "leaving", "clean", "linking", "setup", "creating", "purge",
                             "rows", "purging", "public", "joining"}
  BY <1>8, <1>9 DEF Handles, AddChannelStep, GetChannelByName, CreateChannel, ReadMembers, AddMember,
     InsertRow, ReadCategoriesToAdd, addChannelToCategory, GetUser, ListChannels, JoinOrLeave,
     UpdateUser, CleanStep, GetCategories, cleanCategories, LinkChannelToOrganization,
     ChooseStrategy, setupCategories, CreateMissing, ReadCategoriesToFile, CreateEcosystem,
     GetAllChannels, PurgeCategories, ListPublicChannels, JoinPublicChannel, At
<1>11. QED
  BY <1>10

(* What CleanTidies says of a step. *)
AllTidied == \A k \in Calls : Tidied(k)

(* A clean of the sidebar leaves every channel where it belongs if what it *)
(* read last still holds when it ends: after the purge of all but the      *)
(* category of the ecosystem, and after channels were filed under          *)
(* organizations whose categories could not be created, or were deleted by *)
(* another clean of the user.                                              *)
THEOREM CleanTidiesTheorem == Spec => CleanTidies
<1> DEFINE Inv == MembersInv /\ PickersOK /\ SidebarInv
<1>1. Init => Inv
  BY MembersInvInit, SidebarInvInit
<1>2. Inv /\ [Next]_vars => Inv'
  BY MembersInvStep, PickersKeep, SidebarInvStep DEF MembersInv
<1>3. Inv /\ [Next]_vars => AllTidied
  <2>1. SUFFICES ASSUME Inv, [Next]_vars, NEW k \in Calls PROVE Tidied(k)
    BY DEF AllTidied
  <2>2. CASE call[k].stage \in {"filing", "leftovers"} /\ call'[k].stage = AfterClean(k)
    BY <2>1, <2>2, OnlyTheLastEnds, FilingTidies, DeletingTidies DEF MembersInv
  <2>3. QED
    BY <2>2 DEF Tidied
<1>4. QED
  BY <1>1, <1>2, <1>3, PTL DEF Spec, CleanTidies, AllTidied
=============================================================================
