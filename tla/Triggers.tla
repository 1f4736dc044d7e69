------------------------------ MODULE Triggers ------------------------------
(***************************************************************************)
(* Who put the trigger label on a ticket, and is that person allowed to     *)
(* start a run: labelerOf and isAuthorized of the adapters in src/trackers/.*)
(* People edit the labels and are given and lose their role between the     *)
(* questions.  An answer of the tracker is one page of what it keeps.       *)
(***************************************************************************)
EXTENDS Naturals, Sequences, FiniteSets, SequencesExt

CONSTANTS
  Kinds, People, Allowed,   \* adapters; people; the allow list of the configuration
  Page, MaxEvents, MaxRoles \* entries of an answer; bounds: label edits, role changes

VARIABLES
  kind,    \* of the adapter asked
  events,  \* label edits in order: who, what the labels were before and after
  role,    \* person -> the tracker's word on the person
  roles,   \* GitHub's cache of it, "unset" when nothing is kept
  changes, \* role changes so far
  answer   \* the last question: the trigger's labeler by the tracker's own book, and the outcome
vars == <<kind, events, role, roles, changes, answer>>

Trigger == "ready"
Names   == {Trigger, "other"}
Nobody  == "nobody"
NoAnswer == [asked |-> FALSE, by |-> Nobody, login |-> Nobody, ok |-> FALSE, truly |-> FALSE, stale |-> FALSE]

labels == IF events = <<>> THEN {} ELSE Last(events).after

Answered == SubSeq(events, 1, IF Len(events) < Page THEN Len(events) ELSE Page)

(* Defect: the first labeler keeps the credit.                              *)
Earliest(hits) == IF hits = <<>> THEN Nobody ELSE Head(hits).who

(* The newest entry of the page that a test accepts names the labeler.      *)
Newest(hits) == IF hits = <<>> THEN Nobody ELSE Last(hits).who

AddedTrigger(e) == Trigger \in e.after /\ Trigger \notin e.before
HasTrigger(e)   == Trigger \in e.after

(* GitHub's and GitLab's logs have an entry per label; Azure's updates and  *)
(* Jira's change log have the whole value, whatever of it was changed.      *)
labelerOf ==
  IF kind \in {"github", "gitlab"} THEN Newest(SelectSeq(Answered, AddedTrigger))
  ELSE Newest(SelectSeq(Answered, HasTrigger))

roleName(p) == IF roles[p] # "unset" THEN roles[p] ELSE role[p]

(* The allow list is enough on GitHub and GitLab; Azure and Jira want both, *)
(* and the role as well.                                                    *)
roleAllows(p)     == role[p] = "write"
AllowedAndRole(p) == p \in Allowed /\ roleAllows(p)
isAuthorized(p) ==
  CASE kind = "github" -> p \in Allowed \/ roleName(p) = "write"
    [] kind = "gitlab" -> p \in Allowed \/ roleAllows(p)
    [] OTHER           -> AllowedAndRole(p)

Trusted(p) == IF kind \in {"github", "gitlab"} THEN p \in Allowed \/ roleAllows(p) ELSE AllowedAndRole(p)

-----------------------------------------------------------------------------
EditLabels ==
  /\ Len(events) < MaxEvents
  /\ \E p \in People, l \in Names :
       events' = Append(events, [who |-> p, before |-> labels,
                                 after |-> IF l \in labels THEN labels \ {l} ELSE labels \cup {l}])
  /\ UNCHANGED <<kind, role, roles, changes, answer>>

ChangeRole ==
  /\ changes < MaxRoles /\ changes' = changes + 1
  /\ \E p \in People : role' = [role EXCEPT ![p] = IF @ = "write" THEN "read" ELSE "write"]
  /\ UNCHANGED <<kind, events, roles, answer>>

(* GitHub's labelerOf asks for the role too, so that either fills the cache;*)
(* a call that fails is kept as no role for the life of the process.        *)
Ask ==
  /\ Trigger \in labels
  /\ LET p  == labelerOf
         by == Last(SelectSeq(events, AddedTrigger)).who
     IN /\ answer' = [asked |-> TRUE, by |-> by, login |-> p, ok |-> p # Nobody /\ isAuthorized(p),
                      truly |-> Trusted(by), stale |-> p # Nobody /\ kind = "github" /\ roleName(p) # role[p]]
        /\ roles' = IF kind = "github" /\ p # Nobody THEN [roles EXCEPT ![p] = roleName(p)] ELSE roles
  /\ UNCHANGED <<kind, events, role, changes>>

RoleLookupFails ==
  /\ Trigger \in labels /\ kind = "github" /\ labelerOf # Nobody /\ roles[labelerOf] = "unset"
  /\ roles' = [roles EXCEPT ![labelerOf] = ""] /\ answer' = NoAnswer
  /\ UNCHANGED <<kind, events, role, changes>>

Init ==
  /\ kind \in Kinds /\ events = <<>> /\ role \in [People -> {"read", "write"}]
  /\ roles = [p \in People |-> "unset"] /\ changes = 0 /\ answer = NoAnswer
Next == EditLabels \/ ChangeRole \/ Ask \/ RoleLookupFails
Spec == Init /\ [][Next]_vars

-----------------------------------------------------------------------------
(* src/trackers/github.ts:206: a yes stands for a person of trust who put   *)
(* the label there, but for a longer history than one page, a role kept     *)
(* since before it changed, and Azure and Jira, which name whoever edited   *)
(* any label last while the trigger was on.                                 *)
AuthorizedByTrusted ==
  answer.asked /\ answer.ok /\ Len(events) <= Page =>
    \/ answer.truly
    \/ answer.stale
    \/ kind \in {"azure-devops", "jira"} /\ answer.login # answer.by
=============================================================================
