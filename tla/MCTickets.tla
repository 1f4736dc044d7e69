--------------------------------- MODULE MCTickets ---------------------------------
(***************************************************************************)
(* What follows tickets around their runs, each on its own: the queue and    *)
(* everybody who rewrites it, the land and rebase cycles of published        *)
(* branches, the labels and comments written back to a tracker, who set off  *)
(* a trigger, the poll for changed tickets, and the worktrees a ticket is    *)
(* built in.                                                                *)
(***************************************************************************)
EXTENDS QueueClaims, TLC

CONSTANTS
  Entries, Busy, None, MaxCycles, MaxRounds, MaxBase, MaxPatch,  \* LandCycle
  MaxDeeds,   \* bound: of landings, cycles, revisions and deletions
  Adapters, MaxFaults, MaxPeople,                                \* WriteBacks
  Kinds, Persons, Allowed, Page, MaxEvents, MaxRoles,             \* Triggers
  Trackers, Overlap, Retries, MaxClock,                          \* Polling
  Runs, run1, run2, Ticket, TreeKinds, MaxWork, MaxOps           \* Workspaces

ASSUME LandAssumption ==
  /\ MaxCycles \in Nat /\ MaxRounds \in Nat /\ MaxBase \in Nat
  /\ MaxPatch \in Nat /\ MaxPatch >= 2
  /\ Busy \subseteq Entries

ASSUME PollingAssumption ==
  /\ Trackers \in Seq({Trackers[i] : i \in DOMAIN Trackers})
  /\ Overlap \in Nat

ASSUME WorkspacesAssumption == IsFiniteSet(Runs) /\ "nobody" \notin Runs /\ MaxWork \in Nat

ASSUME TriggersAssumption ==
  Kinds \subseteq {"github", "gitlab", "azure-devops", "jira"} /\ Page \in Nat

VARIABLES
  which,  \* the component that runs; the queue's variables are QueueClaims' own
  base, fetched, entry, branch, remote, job, revising,
  adapter, labels, posts, marked, page, posted, disk, held, plan, tags, faults, people, excuses,
  kind, events, role, roles, changes, answer,
  clock, changed, marks, drain, running, outlasted,
  kinds, config, private, tree, tip, published, lock, run, row, op, ops, lost, unwritten

queueVars == vars
landVars == <<base, fetched, entry, branch, remote, job, revising>>
writeBacksVars == <<adapter, labels, posts, marked, page, posted, disk, held, plan, tags, faults, people, excuses>>
triggersVars == <<kind, events, role, roles, changes, answer>>
pollingVars == <<clock, changed, marks, drain, running, outlasted>>
workspacesVars == <<kinds, config, private, tree, tip, published, lock, run, row, op, ops, lost, unwritten>>

-----------------------------------------------------------------------------
(* Trackers.                                                               *)
MCAdapters ==
  {[kind |-> k, unseen |-> FALSE, cadence |-> FALSE] : k \in {"github", "gitlab", "azure-devops", "jira", "local"}}
  \cup {[kind |-> "github", unseen |-> TRUE, cadence |-> FALSE], [kind |-> "jira", unseen |-> FALSE, cadence |-> TRUE]}
MCTrackers == <<[id |-> "github", windowed |-> FALSE], [id |-> "jira", windowed |-> TRUE]>>

-----------------------------------------------------------------------------
(* Workspaces: two tickets, of the kinds of worktree there are.            *)
MCTicket == (run1 :> "A") @@ (run2 :> "B")
Of(x, y) == ("A" :> x) @@ ("B" :> y)
MCKinds  == {Of("path", "sibling"), Of("slug", "herdr"), Of("main", "path")}

-----------------------------------------------------------------------------
(* The components.                                                         *)

L == INSTANCE LandCycle
B == INSTANCE WriteBacks
T == INSTANCE Triggers WITH People <- Persons
P == INSTANCE Polling
W == INSTANCE Workspaces WITH kind <- kinds, entry <- row, Kinds <- TreeKinds, pushed <- published

Idle == "idle"
queueIdle == Init /\ label = [t \in Tickets |-> "none"]
landIdle ==
  /\ base = Idle /\ fetched = Idle /\ entry = Idle /\ branch = Idle /\ remote = Idle /\ job = Idle
  /\ revising = Idle
writeBacksIdle ==
  /\ adapter = Idle /\ labels = Idle /\ posts = Idle /\ marked = Idle /\ page = Idle /\ posted = Idle /\ disk = Idle
  /\ held = Idle /\ plan = Idle /\ tags = Idle /\ faults = Idle /\ people = Idle /\ excuses = Idle
triggersIdle == kind = Idle /\ events = Idle /\ role = Idle /\ roles = Idle /\ changes = Idle /\ answer = Idle
pollingIdle == clock = Idle /\ changed = Idle /\ marks = Idle /\ drain = Idle /\ running = Idle /\ outlasted = Idle
workspacesIdle ==
  /\ kinds = Idle /\ config = Idle /\ private = Idle /\ tree = Idle /\ tip = Idle /\ published = Idle
  /\ lock = Idle /\ run = Idle /\ row = Idle /\ op = Idle /\ ops = Idle /\ lost = Idle /\ unwritten = Idle

(* One of them, alone.                                                      *)
TicketsInit ==
  \/ which = "queue" /\ Init /\ landIdle /\ writeBacksIdle /\ triggersIdle /\ pollingIdle /\ workspacesIdle
  \/ which = "land" /\ L!Init /\ queueIdle /\ writeBacksIdle /\ triggersIdle /\ pollingIdle /\ workspacesIdle
  \/ which = "writeBacks" /\ B!Init /\ queueIdle /\ landIdle /\ triggersIdle /\ pollingIdle /\ workspacesIdle
  \/ which = "triggers" /\ T!Init /\ queueIdle /\ landIdle /\ writeBacksIdle /\ pollingIdle /\ workspacesIdle
  \/ which = "polling" /\ P!Init /\ queueIdle /\ landIdle /\ writeBacksIdle /\ triggersIdle /\ workspacesIdle
  \/ which = "workspaces" /\ W!Init /\ queueIdle /\ landIdle /\ writeBacksIdle /\ triggersIdle /\ pollingIdle

TicketsNext ==
  /\ UNCHANGED which
  /\ \/ which = "queue" /\ Next /\ UNCHANGED <<landVars, writeBacksVars, triggersVars, pollingVars, workspacesVars>>
     \/ which = "land" /\ L!Next /\ UNCHANGED <<queueVars, writeBacksVars, triggersVars, pollingVars, workspacesVars>>
     \/ which = "writeBacks" /\ B!Next /\ UNCHANGED <<queueVars, landVars, triggersVars, pollingVars, workspacesVars>>
     \/ which = "triggers" /\ T!Next /\ UNCHANGED <<queueVars, landVars, writeBacksVars, pollingVars, workspacesVars>>
     \/ which = "polling" /\ P!Next /\ UNCHANGED <<queueVars, landVars, writeBacksVars, triggersVars, workspacesVars>>
     \/ which = "workspaces" /\ W!Next /\ UNCHANGED <<queueVars, landVars, writeBacksVars, triggersVars, pollingVars>>

ticketsVars == <<which, queueVars, landVars, writeBacksVars, triggersVars, pollingVars, workspacesVars>>
TicketsSpec == TicketsInit /\ [][TicketsNext]_ticketsVars

(* The callers of the queue do the same things.                             *)
Interchangeable == Permutations(Callers)

----------------------------------------------------------------------------
(* Any MaxDeeds deeds of people and of the host, in any order, or fewer when *)
(* two of them are landings.                                                 *)
FewDeeds == 
  which = "land" =>
    \A e \in Busy :
      LET deeds == Len(base) + entry[e].rounds + Cardinality(DOMAIN branch[e]) + (IF remote[e] = {} THEN 1 ELSE 0)
      IN  deeds <= MaxDeeds + 1 /\ (deeds > MaxDeeds => Len(base) <= 1)
(* What an entry says of its landing agrees with the base up to its mark.    *)
EntryTellsLanding == which = "land" => L!EntryTellsLanding
(* A rebase never writes over the branch of an open pull request.            *)
OpenBranchKept == [][which = "land" => L!BranchKept]_landVars
(* What the factory tells a tracker is told, and once.                       *)
ToldOnce == which = "writeBacks" => B!ToldOnce
(* A trigger is authorized only for someone who was trusted.                 *)
AuthorizedByTrusted == which = "triggers" => T!AuthorizedByTrusted
(* No change of a ticket is missed between two polls.                        *)
PollSeesAll == which = "polling" => P!PollSeesAll
(* No command removes work nobody else has, and no entry names a tree that is *)
(* gone.                                                                    *)
TreesAreKept == which = "workspaces" => W!TreesAreKept
=============================================================================
