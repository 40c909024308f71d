------------------------------ MODULE ChannelForm ------------------------------
(***************************************************************************)
(* The form that creates a channel for a section.  SingleChannelBox        *)
(* proposes a name made from the section's info, which useSectionInfo      *)
(* fetches, and is there as long as useChannelsList found no channel;      *)
(* ChannelBox proposes none and is always there.                           *)
(***************************************************************************)
EXTENDS DataHooks

CONSTANTS
  Boxes,      \* the kinds of boxes: "single", "list"
  MaxCreations \* how often Create is clicked with a correct name

ASSUME SectionAssumption == Absent \notin ValuesOf["id"]

VARIABLE form \* the state of the box, and the channels the provider stores

(* A section stands for its name.  Before its info is there the name       *)
(* proposed is "undefined"; what a user types may be too long or hold      *)
(* characters that isChannelNameCorrect refuses.                           *)
Typed == {"", "typed", "incorrect"}
isChannelNameCorrect(name) == name # "incorrect"
defaultName(box) == IF box = "single" THEN "undefined" ELSE ""

FormInit(section) ==
  \E box \in Boxes, taken \in SUBSET ValuesOf["id"] :
    /\ box = "list" => taken = {} \* its form does not ask for the channels
    /\ form = [box |-> box,
               channelName |-> defaultName(box),
               nameErrorMessage |-> FALSE, addChannelErrorMessage |-> FALSE,
               section |-> section, \* useChannelsList keeps that of its first render
               channels |-> IF box = "list" THEN "none" ELSE "pending",
               sent |-> {}, creations |-> 0,
               taken |-> taken,     \* the sections that have a channel
               created |-> {}]      \* the channels of this form

(* The answer of the fetch of channels.  One without items, a failure and  *)
(* no answer so far look the same.                                         *)
ChannelsAnswered(f) ==
  [f EXCEPT !.channels = IF f.section \in f.taken THEN "some" ELSE "none"]
ChannelsFailed(f) == [f EXCEPT !.channels = "failed"]

FormShown(f) == f.box = "list" \/ f.channels # "some"

(* Mutant: a name is proposed only once. *)
SectionInfoSetOnce(f, section) ==
  IF f.box = "single" /\ f.channelName = "undefined"
  THEN [f EXCEPT !.channelName = section] ELSE f

(* The effect of [sectionInfo].  An error message stays. *)
SectionInfoSet(f, section) ==
  IF f.box = "single" THEN [f EXCEPT !.channelName = section] ELSE f

handleChannelNameTemplateChange(f, name) ==
  [f EXCEPT !.channelName = name, !.nameErrorMessage = FALSE, !.addChannelErrorMessage = FALSE]

(* createChannel up to its request.  Nothing keeps a second click from     *)
(* sending it again; the section is the one of the page by now.  named:    *)
(* its info has been answered.                                             *)
createChannel(f, section, info) ==
  IF f.channelName = "" \/ ~isChannelNameCorrect(f.channelName)
  THEN [f EXCEPT !.nameErrorMessage = TRUE]
  ELSE [f EXCEPT !.creations = @ + 1,
                 !.sent = @ \cup {[n |-> f.creations + 1, name |-> f.channelName, section |-> section,
                   named |-> section = info]}]

(* The plugin stores the channel, whatever channels the section has. *)
Added(f, r) ==
  [f EXCEPT !.sent = @ \ {r},
            !.taken = @ \cup {r.section},
            !.created = @ \cup {[name |-> r.name, section |-> r.section, named |-> r.named]}]

AddFailed(f, r) == [f EXCEPT !.sent = @ \ {r}, !.addChannelErrorMessage = TRUE]
=============================================================================
