--------------------------------- MODULE Policy ---------------------------------
(***************************************************************************)
(* Policy on the data of usePolicyTemplateData: the messages of a policy   *)
(* template, which the user removes one by one.  PolicyRemove takes the    *)
(* message out of the template it was rendered with, in place, sends the   *)
(* whole template, and makes a copy of it the state when the reply comes.  *)
(* The section that shows the policy can mark it as exported.              *)
(*                                                                         *)
(* A template is the set of its messages, those of all six sections in     *)
(* one, and of the mark Ongoing until it is exported.                      *)
(***************************************************************************)
EXTENDS DataHooks

CONSTANTS
  MessagesAt, \* the template of each url
  Ongoing,
  MaxRemovals

VARIABLE policy \* the state of Policy, its requests, and what is stored

NewPolicy ==
  [of |-> Absent,        \* the url of the template, Absent if it is the empty one
   messages |-> {},
   screen |-> {},        \* the template as of the last render
   requests |-> {},      \* the removals whose promise is pending
   removals |-> 0,
   export |-> "none",    \* then the url of the policy, then "done"
   stored |-> MessagesAt, \* the templates the server has
   since |-> {},         \* and has had since the last fetch was sent
   calm |-> TRUE]        \* no template was overtaken or sent amiss, see below

(* A render. *)
PolicyRendered(p) == [p EXCEPT !.screen = p.messages]

(* setTemplate with another object.  The removals that share the present   *)
(* one keep it as it is. *)
setTemplate(p, of, messages) ==
  PolicyRendered(
    [p EXCEPT !.of = of, !.messages = messages,
              !.requests = {IF r.shares THEN [r EXCEPT !.shares = FALSE, !.messages = p.messages]
                            ELSE r : r \in @}])

(* The fetch is sent. *)
TemplateAsked(p, url) == [p EXCEPT !.since = {p.stored[url]}]

(* The effect of [data].  An answer that a removal has overtaken brings    *)
(* the message back. *)
TemplateAnswered(p, url, messages) ==
  [setTemplate(p, url, messages) EXCEPT
     !.calm = @ /\ p.requests = {} /\ messages = p.stored[url]]

Removal(p, post, url) ==
  [n |-> p.removals + 1, url |-> url, body |-> p.messages \ {post}, served |-> FALSE,
   shares |-> TRUE, of |-> p.of, messages |-> {}]

(* Mutant: the message is taken out of a copy. *)
removeFromCopy(p, post, url) ==
  [p EXCEPT !.removals = @ + 1,
            !.requests = @ \cup {[Removal(p, post, url) EXCEPT
                                    !.shares = FALSE, !.messages = p.messages \ {post}]},
            !.calm = @ /\ p.of = url /\ (Ongoing \in p.messages => Ongoing \in p.stored[url])]

(* remove up to its request.  It goes to the section on the page, whose    *)
(* template may not be there yet, and sends the mark, too. *)
remove(p, post, url) ==
  [p EXCEPT !.removals = @ + 1,
            !.messages = @ \ {post},
            !.requests = @ \cup {Removal(p, post, url)},
            !.calm = @ /\ p.of = url /\ (Ongoing \in p.messages => Ongoing \in p.stored[url])]

Stores(p, url, messages) ==
  [p EXCEPT !.stored[url] = messages,
            !.since = IF url = effect.params.url THEN @ \cup {messages} ELSE @]

(* The server stores the template it is sent, whatever it replaces.        *)
(* Removals may come in another order. *)
SaveServed(p, r) ==
  [Stores(p, r.url, r.body) EXCEPT
     !.requests = (@ \ {r}) \cup {[r EXCEPT !.served = TRUE]},
     !.calm = @ /\ \A q \in p.requests : q.n < r.n => q.served]

(* The reply: a copy of the template of the removal becomes the state. *)
SaveReplied(p, r) ==
  LET rest == [p EXCEPT !.requests = @ \ {r}]
  IN IF r.shares THEN setTemplate(rest, p.of, p.messages)
     ELSE [setTemplate(rest, r.of, r.messages) EXCEPT
             !.calm = @ /\ r.of = p.of /\ r.messages = p.messages]

(* The request fails or its reply is lost: the message is out of the       *)
(* template, yet on the screen. *)
SaveFailed(p, r) == [p EXCEPT !.requests = @ \ {r}]

(* onExport: the field is updated without an await. *)
onExport(p, url) == [p EXCEPT !.export = url]
ExportServed(p) ==
  [Stores(p, p.export, p.stored[p.export] \ {Ongoing}) EXCEPT
     !.export = "done",
     !.calm = @ /\ \A r \in p.requests : r.served]
ExportFailed(p) == [p EXCEPT !.export = "done"]
=============================================================================
