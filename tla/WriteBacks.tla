----------------------------- MODULE WriteBacks -----------------------------
(***************************************************************************)
(* What the host writes back to a ticket: the labels of a claim, the one    *)
(* living comment of a run (src/git/sticky.ts), the comments of an abstention*)
(* and of a rebase, through the adapters of src/trackers/.  Any call of a   *)
(* tracker's command may fail, before or after it took effect; the host may *)
(* stop between two calls; people label the ticket, comment on it and remove*)
(* comments.                                                                *)
(*                                                                          *)
(* An operation is the sequence of calls it makes.  A comment is known by   *)
(* the idempotency key in its marker.  Bodies are left out.                 *)
(***************************************************************************)
EXTENDS Naturals, Sequences, FiniteSets, SequencesExt

CONSTANTS
  Adapters,    \* [kind, unseen, cadence]: own comments dropped as an ignored author's; Jira's mode
  MaxFaults, MaxPeople     \* bounds: failing calls and restarts; changes by people

VARIABLES
  adapter,
  labels,      \* on the ticket
  posts,       \* key -> comments ever posted under it
  marked,      \* the keys whose marker is on the ticket
  page,        \* whether the ticket has comments for more than a page, and the keys whose marker is past the first
  posted,      \* the adapter's memory: key -> "none", or the id it got, real or not
  disk, held,  \* the queue's entry, and the copy an operation works on
  plan,        \* the calls the operation still has to make
  tags,        \* the tags Azure's read-modify-write works on
  faults, people,
  excuses      \* key -> times a post was repeated for a reason outside the host
vars == <<adapter, labels, posts, marked, page, posted, disk, held, plan, tags, faults, people, excuses>>

Keys       == {"sticky", "abstention", "rebase"}
CLAIM_DROP == {"ready", "triage"}
NoEntry    == [there |-> FALSE, sticky |-> "none", miles |-> {}]

-----------------------------------------------------------------------------
(* The operations as sequences of calls. *)

Call(fn, add, drop, arg) == [fn |-> fn, add |-> add, drop |-> drop, arg |-> arg]
Edit(add, drop) ==
  CASE adapter.kind = "azure-devops" -> <<Call("read", {}, {}, ""), Call("write", add, drop, "")>>
    [] adapter.kind = "local"        -> <<>>
    [] OTHER                         -> <<Call("edit", add, drop, "")>>
addLabel(l)    == Edit({l}, {})
removeLabel(l) == Edit({}, {l})

acknowledge ==
  CASE adapter.kind \in {"github", "gitlab"} -> <<Call("react", {}, {}, "")>>
    [] adapter.kind = "azure-devops" -> Edit({"progress"}, CLAIM_DROP) \o <<Call("move", {}, {}, "")>>
    [] adapter.kind = "jira"  -> removeLabel("ready") \o addLabel("progress") \o <<Call("move", {}, {}, "")>>
    [] OTHER -> <<>>

(* Jira has no lookup, and in its cadence posts none of the keys in use.    *)
comment(k) ==
  CASE adapter.kind = "local" -> <<>>
    [] adapter.kind = "jira"  -> IF adapter.cadence THEN <<>> ELSE <<Call("post", {}, {}, k)>>
    [] OTHER -> <<Call("lookup", {}, {}, k), Call("post", {}, {}, k)>>

Save == <<Call("save", {}, {}, "")>>
claimTicket == removeLabel("ready") \o addLabel("progress") \o acknowledge
Body(name) ==
  CASE name = "claim"   -> claimTicket
    [] name = "abstain" -> claimTicket \o comment("abstention") \o addLabel("triage")
    [] name = "rebase"  -> addLabel("rebase") \o comment("rebase")
    [] OTHER            -> <<Call("upsert", {}, {}, name)>>
Unlabel == <<Call("drop", {}, {"abandoned"}, "")>>

(* Defect: a claim that abstains returns before its entry is saved.         *)
OperationUnsaved(name) ==
  CASE name = "retry" -> Save \o Unlabel [] name = "abstain" -> Body(name) [] OTHER -> Body(name) \o Save

Operation(name) == IF name = "retry" THEN Save \o Unlabel ELSE Body(name) \o Save

-----------------------------------------------------------------------------
Idle == plan = <<>>
Goes(p) == plan' = p /\ IF p = <<>> THEN held' = NoEntry /\ tags' = {} ELSE TRUE
Here(fn) == ~Idle /\ Head(plan).fn = fn
Now == Head(plan)

(* A ticket is claimed off the list of the open ones that are ready.        *)
Begin ==
  /\ Idle
  /\ \E name \in {"claim", "abstain", "publish", "land", "rebase", "retry"} :
       /\ IF name \in {"claim", "abstain"} THEN "ready" \in labels /\ ~disk.there ELSE disk.there
       /\ plan' = Operation(name)
       /\ held' = IF name \in {"claim", "abstain"} THEN [NoEntry EXCEPT !.there = TRUE] ELSE disk
  /\ UNCHANGED <<adapter, labels, posts, marked, posted, disk, tags, faults, people, excuses, page>>

(* A comment comes on the first page or, where there are more and the oldest*)
(* come first, past it.                                                     *)
Paged(k) == page' \in {[page EXCEPT !.past = @ \ {k}]} \cup (IF page.full THEN {[page EXCEPT !.past = @ \cup {k}]} ELSE {})

(* The effect a call has on the ticket.                                     *)
Effect ==
  CASE Now.fn = "edit"  -> labels' = (labels \ Now.drop) \cup Now.add /\ UNCHANGED <<posts, marked, page>>
    [] Now.fn = "write" -> labels' = (tags \ Now.drop) \cup Now.add /\ UNCHANGED <<posts, marked, page>>
    [] Now.fn = "post"  -> /\ posts' = [posts EXCEPT ![Now.arg] = @ + 1] /\ Paged(Now.arg)
                           /\ marked' = IF adapter.kind = "jira" THEN marked ELSE marked \cup {Now.arg}
                           /\ UNCHANGED labels
    [] OTHER            -> UNCHANGED <<labels, posts, marked, page>>

Plain == {"edit", "write", "move", "react"}
Does ==
  /\ ~Idle /\ Now.fn \in Plain /\ Effect /\ plan' = Tail(plan)
  /\ UNCHANGED <<adapter, posted, disk, held, tags, faults, people, excuses>>

readTags ==
  /\ Here("read") /\ tags' = labels /\ plan' = Tail(plan)
  /\ UNCHANGED <<adapter, labels, posts, marked, posted, disk, held, faults, people, excuses, page>>

(* Defect: the adapter trusts its own memory and never looks at the ticket. *)
FindNowhere(k) == FALSE

(* A lookup sees one page of the comments, without those of ignored authors.*)
getComments == IF adapter.unseen THEN {} ELSE marked \ page.past

findIdempotentComment(k) == k \in getComments

(* comment(): the memory, then the lookup; a failed listing finds nothing.  *)
Lookup ==
  /\ Here("lookup")
  /\ LET k == Now.arg IN
       \/ /\ posted[k] # "none" /\ plan' = SubSeq(plan, 3, Len(plan)) /\ UNCHANGED <<posted, faults, excuses>>
       \/ /\ posted[k] = "none" /\ findIdempotentComment(k)
          /\ posted' = [posted EXCEPT ![k] = "real"] /\ plan' = SubSeq(plan, 3, Len(plan)) /\ UNCHANGED <<faults, excuses>>
       \/ /\ posted[k] = "none" /\ ~findIdempotentComment(k) /\ plan' = Tail(plan)
          /\ excuses' = [excuses EXCEPT ![k] = @ + (IF posts[k] > 0 /\ (adapter.unseen \/ k \notin marked \ page.past) THEN 1 ELSE 0)]
          /\ UNCHANGED <<posted, faults>>
       \/ /\ posted[k] = "none" /\ faults < MaxFaults /\ faults' = faults + 1 /\ plan' = Tail(plan)
          /\ excuses' = [excuses EXCEPT ![k] = @ + 1] /\ UNCHANGED posted
  /\ UNCHANGED <<adapter, labels, posts, marked, page, disk, held, tags, people>>

(* The answer may carry no comment id; the key stands in for one then.      *)
Post ==
  /\ Here("post") /\ plan' = Tail(plan)
  /\ IF posted[Now.arg] # "none" THEN UNCHANGED <<labels, posts, marked, page, posted>>
     ELSE Effect /\ \E id \in {"real", "key"} : posted' = [posted EXCEPT ![Now.arg] = id]
  /\ UNCHANGED <<adapter, disk, held, tags, faults, people, excuses>>

CanEdit == adapter.kind \in {"github", "azure-devops"}

(* upsertStickyComment: once per milestone; the first posts, the later edit.*)
Upsert ==
  /\ Here("upsert")
  /\ LET m == Now.arg IN
       plan' = IF m \in held.miles THEN Tail(plan)
               ELSE IF held.sticky = "none" THEN comment("sticky") \o <<Call("record", {}, {}, m)>> \o Tail(plan)
               ELSE (IF held.sticky # "" /\ CanEdit THEN <<Call("editComment", {}, {}, m)>> ELSE <<>>)
                    \o <<Call("record", {}, {}, m)>> \o Tail(plan)
  /\ UNCHANGED <<adapter, labels, posts, marked, posted, disk, held, tags, faults, people, excuses, page>>

(* The new body has no marker.  An id that is only the key is refused.      *)
editComment ==
  /\ Here("editComment") /\ held.sticky = "real"
  /\ marked' = marked \ {"sticky"} /\ plan' = Tail(plan)
  /\ UNCHANGED <<adapter, labels, posts, posted, disk, held, tags, faults, people, excuses, page>>

EditRefused ==
  /\ Here("editComment") /\ held.sticky = "key" /\ Goes(<<>>)
  /\ UNCHANGED <<adapter, labels, posts, marked, posted, disk, faults, people, excuses, page>>

Record ==
  /\ Here("record") /\ plan' = Tail(plan)
  /\ held' = [held EXCEPT !.miles = @ \cup {Now.arg},
                          !.sticky = IF @ # "none" THEN @ ELSE IF posted["sticky"] = "none" THEN "" ELSE posted["sticky"]]
  /\ UNCHANGED <<adapter, labels, posts, marked, posted, disk, tags, faults, people, excuses, page>>

writeQueue ==
  /\ Here("save") /\ disk' = held /\ Goes(Tail(plan))
  /\ IF Len(plan) > 1 THEN UNCHANGED <<held, tags>> ELSE TRUE
  /\ UNCHANGED <<adapter, labels, posts, marked, posted, faults, people, excuses, page>>

(* retry: the entry's reference is a bare number on GitHub, which its own   *)
(* adapter refuses; the failure is swallowed, like any other.               *)
RetryUnlabels ==
  /\ Here("drop") /\ Goes(<<>>)
  /\ labels' \in IF adapter.kind \in {"github", "local"} THEN {labels} ELSE {labels, labels \ Now.drop}
  /\ UNCHANGED <<adapter, posts, marked, posted, disk, faults, people, excuses, page>>

(* A call exits with an error, its effect there or not: the operation throws*)
(* and what it held is gone; a reaction's failure is swallowed.             *)
Fails ==
  /\ faults < MaxFaults /\ ~Idle /\ Now.fn \in {"edit", "write", "move", "read", "post", "editComment", "save"}
  /\ Now.fn = "post" => posted[Now.arg] = "none"
  /\ faults' = faults + 1 /\ Goes(<<>>)
  /\ \/ Effect
     \/ UNCHANGED <<labels, posts, marked, page>>
  /\ excuses' = IF Now.fn = "post" /\ adapter.kind = "jira" THEN [excuses EXCEPT ![Now.arg] = @ + 1] ELSE excuses
  /\ UNCHANGED <<adapter, posted, disk, people>>

Restart ==
  /\ faults < MaxFaults /\ faults' = faults + 1
  /\ posted' = [k \in Keys |-> "none"] /\ Goes(<<>>)
  /\ excuses' = IF adapter.kind = "jira" THEN [k \in Keys |-> excuses[k] + 1] ELSE excuses
  /\ UNCHANGED <<adapter, labels, posts, marked, page, disk, people>>

(* A person labels the ticket, removes a comment, or comments are made for  *)
(* more than a page: markers stay on the first, or, newest first, get past it*)
Person ==
  /\ people < MaxPeople /\ people' = people + 1
  /\ \/ \E l \in {"ready", "abandoned"} : labels' = labels \cup {l} /\ UNCHANGED <<marked, page>>
     \/ \E k \in marked : marked' = marked \ {k} /\ UNCHANGED <<labels, page>>
     \/ \E new \in {{}, marked} : page' = [full |-> TRUE, past |-> page.past \cup new] /\ UNCHANGED <<labels, marked>>
  /\ UNCHANGED <<adapter, posts, posted, disk, held, plan, tags, faults, excuses>>

Init ==
  /\ adapter \in Adapters
  /\ labels = {"ready"} /\ posts = [k \in Keys |-> 0] /\ marked = {} /\ posted = [k \in Keys |-> "none"]
  /\ disk = NoEntry /\ held = NoEntry /\ plan = <<>> /\ tags = {} /\ faults = 0 /\ people = 0
  /\ excuses = [k \in Keys |-> 0] /\ page = [full |-> FALSE, past |-> {}]

Next ==
  \/ Begin \/ Does \/ readTags \/ Lookup \/ Post \/ Upsert \/ editComment \/ EditRefused \/ Record \/ writeQueue
  \/ RetryUnlabels \/ Fails \/ Restart \/ Person
Spec == Init /\ [][Next]_vars

-----------------------------------------------------------------------------
(* src/trackers/github.ts:241: a comment is posted once, however often its  *)
(* operation is repeated, but for a lookup that failed or was blind, a      *)
(* marker past the first page of comments or that people or an edit removed,*)
(* and Jira, which looks nothing up.                                        *)
CommentedOnce == \A k \in Keys : posts[k] <= 1 + excuses[k]

(* src/scheduler/claim.ts:90: a ticket that is neither ready nor in the     *)
(* queue was dropped by a claim that failed half-way, not by Azure's write  *)
(* of the tags it has read.                                                 *)
LostOnlyHalfWay == Idle /\ ~disk.there /\ "ready" \notin labels => faults > 0

(* What the factory tells a tracker is told, and once.                       *)
ToldOnce == CommentedOnce /\ LostOnlyHalfWay
=============================================================================
