----------------------------- MODULE MCHyperlinks -----------------------------
(* An instance of Hyperlinks for TLC: an ecosystem with one issue, a company *)
(* with one incident that is an element of the issue, and widgets of every  *)
(* type that has a parser.  No name contains another at its level, and no   *)
(* text starts another.                                                     *)
EXTENDS Hyperlinks

Issues == [id |-> "s0", name |-> "Issues", widgets |-> <<WidgetOf(Nothing, "channel")>>]

Incidents ==
  [id |-> "s1", name |-> "Incidents",
   widgets |-> <<WidgetOf("Actions", "List"), WidgetOf("Observed", "Table"),
                 WidgetOf("Events", "Timeline"), WidgetOf("System", "Graph"),
                 WidgetOf("Summary", "TextBox"), WidgetOf("Trend", "chart"),
                 WidgetOf(Nothing, "channels")>>]

TheOrganizations ==
  <<[id |-> "o0", name |-> "Ecosystem", isEcosystem |-> TRUE, sections |-> <<Issues>>,
     widgets |-> <<>>],
    [id |-> "o1", name |-> "Company", isEcosystem |-> FALSE, sections |-> <<Incidents>>,
     widgets |-> <<WidgetOf("Notes", "TextBox")>>]>>

TheRows == [s0 |-> <<[id |-> "i1", name |-> "Breach"]>>,
            s1 |-> <<[id |-> "p1", name |-> "Phishing"], [id |-> "p2", name |-> "Outage"]>>]

TheChannels == [war |-> [parentId |-> "s0", sectionId |-> "i1"],
                incident |-> [parentId |-> "s1", sectionId |-> "p1"],
                town |-> Nothing]

Item(id, texts) == [id |-> id, texts |-> texts]
Row(id, cells) == [id |-> id, name |-> Nothing, cells |-> cells]

OfIncident(p) ==
  (<<p, "Actions">> :> <<Item(p \o "a1", {"isolate"}), Item(p \o "a2", {"restore all"})>> @@
   <<p, "Observed">> :> [columns |-> {"host", "port"},
                         rows |-> <<Row(p \o "r1", [host |-> {"mail"}, port |-> {"25"}]),
                                    Row(p \o "r2", [host |-> {"web"}, port |-> {"25"}])>>] @@
   <<p, "Events">> :> <<Item(p \o "e1", {"day 1", "click"}), Item(p \o "e2", {"day 2", "report"})>> @@
   <<p, "System">> :> [description |-> "Overview",
                       nodes |-> <<[id |-> p \o "n1", label |-> "server"],
                                   [id |-> p \o "n2", label |-> "laptop"]>>] @@
   <<p, "Summary">> :> "text" @@ <<p, "Trend">> :> "chart")

(* The other incident has nothing in its widgets yet. *)
OfEmptyIncident(p) ==
  (<<p, "Actions">> :> <<>> @@ <<p, "Observed">> :> [columns |-> {}, rows |-> <<>>] @@
   <<p, "Events">> :> <<>> @@ <<p, "System">> :> [description |-> Nothing, nodes |-> <<>>] @@
   <<p, "Summary">> :> "" @@ <<p, "Trend">> :> "chart")

TheContents ==
  OfIncident("p1") @@ OfEmptyIncident("p2") @@
  (<<"i1", Objectives>> :> "text" @@
   <<"i1", Outcomes>> :> <<Item("u1", {"contained"}), Item("u2", {"a very long outcome"})>> @@
   <<"i1", Attachments>> :> <<Item("t1", {"report.pdf"}), Item("t2", {"log.txt"})>> @@
   <<"i1", Roles>> :> [columns |-> {"User", "Roles"},
                       rows |-> <<Row("l1", [User |-> {"ann"}, Roles |-> {"lead", "scribe"}]),
                                  Row("l2", [User |-> {"bob"}, Roles |-> {"scribe"}])>>] @@
   <<"i1", Elements>> :> <<[id |-> "p1", name |-> "Phishing", organizationId |-> "o1",
                            parentId |-> "s1", description |-> "mails to all"]>>)

TheEllipsed == "a very long outcome" :> "a very long..."
ThePieces == "a very long..." :> <<"a very long">> @@ "report.pdf" :> <<"report", "pdf">> @@
             "log.txt" :> <<"log", "txt">>

TheStarts == {<<"a very long outcome", "a very long">>, <<"report.pdf", "report">>,
              <<"log.txt", "log">>, <<"Breach", "Br">>, <<"restore all", "restore">>}
TheIncludes == TheStarts \cup {<<"contained", "ain">>, <<"mails to all", "all">>,
                               <<"restore all", "all">>, <<"Observed", "serve">>, <<"server", "serve">>}

(* The instance is one of those that Hyperlinks_proofs is about. *)
ASSUME InstanceAssumption ==
  /\ Unambiguous /\ ChannelsHaveObjects
  /\ \A key \in DOMAIN TheContents :
       LET name == key[2]
           data == TheContents[key]
       IN
       /\ name \in {"Actions", Outcomes, Attachments} => IsList(data) /\ PiecesTell(data)
       /\ name = "Events" => IsList(data) /\ TextsWhole(data)
       /\ name \in {"Observed", Roles} =>
            IsTableData(data) /\ CellsWhole(data) /\ name \notin data.columns
       /\ name = Elements => IsList(data) /\ ElementsTell(data)
       /\ name = "System" => GraphTells(data)
=============================================================================
