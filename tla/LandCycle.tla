----------------------------- MODULE LandCycle -----------------------------
(***************************************************************************)
(* What becomes of published work: it lands in the base, in one shape or    *)
(* another (src/git/reconcile.ts); a landing may put the others in conflict *)
(* and start a rebase (src/scheduler/land-reconcile.ts, rebase-cycle.ts);   *)
(* a review event may start a revision (src/scheduler/revise-cycle.ts).     *)
(* People work on the same remote at the same time.                         *)
(*                                                                          *)
(* The work of an entry is a set of patches (patch-ids): a commit has one   *)
(* of them, a squash the set of all.                                        *)
(*                                                                          *)
(* A definition whose comment begins with "Defect" is wrong on purpose and  *)
(* unused: the properties are tested by putting it in place of the next.    *)
(***************************************************************************)
EXTENDS Naturals, Sequences, FiniteSets

CONSTANTS
  Entries,     \* tickets of one repository, all published at the start
  Busy,        \* bound: entries that more happens to than a merge
  None,        \* no entry
  MaxCycles,   \* rebaseMaxCycles
  MaxRounds,   \* reviseMaxRounds
  MaxBase,     \* bound: commits that reach the base
  MaxPatch     \* bound: patches of an entry

VARIABLES
  base,     \* what reached the remote base branch, in order
  fetched,  \* how much of it origin/<base> shows locally
  entry,    \* queue entries
  branch,   \* local branches of an entry by their suffix -r<n>, 0 for none
  remote,   \* which of them the remote has
  job,      \* the reconcile, afterLand or rebase that is running
  revising  \* entries whose run is resumed for a review event

vars == <<base, fetched, entry, branch, remote, job, revising>>

Patches == 1..MaxPatch
Suffixes == 0..(MaxCycles + 1)

(* One landing, of work of an entry or of nobody's.  merged: the branch     *)
(* whose head it made an ancestor; ids: patch-ids of its commits; hits:     *)
(* entries it is a look-alike of, since it touches their files and cites    *)
(* them, or has half of their lines; clash: entries whose branch, cut       *)
(* before, it conflicts with.                                               *)
Landing == [entry : Entries \cup {None}, merged : Suffixes \cup {None},
            patches : SUBSET Patches, ids : SUBSET SUBSET Patches,
            hits : SUBSET Entries, clash : SUBSET Entries]

Entry == [state : {"published", "needs-rebase", "landed", "closed", "human-owned"},
          as : {"", "clean", "partial", "human-modified"},
          suffix : Suffixes, count : 0..MaxCycles, recon : 0..MaxBase,
          judged : SUBSET Patches, rounds : 0..MaxRounds]

Branch == [onto : 0..MaxBase, patches : SUBSET Patches]

(* others: afterLand's, or the command's, entries not looked at yet; after: *)
(* whether afterLand follows; suffix: of the branch being cut.              *)
Job == [pc : {"idle", "fetch", "decide", "after", "cut", "verify"},
        e : Entries \cup {None}, todo : SUBSET Entries, others : SUBSET Entries,
        after : BOOLEAN, suffix : Suffixes]

TypeOK ==
  /\ base \in Seq(Landing) /\ Len(base) <= MaxBase
  /\ fetched \in 0..Len(base)
  /\ entry \in [Entries -> Entry]
  /\ \A e \in Entries : /\ DOMAIN branch[e] \subseteq Suffixes
                        /\ \A s \in DOMAIN branch[e] : branch[e][s] \in Branch
                        /\ entry[e].suffix \in DOMAIN branch[e]
                        /\ remote[e] \subseteq DOMAIN branch[e]
  /\ job \in Job
  /\ revising \subseteq Entries

-----------------------------------------------------------------------------
(* People.                                                                  *)

(* The original work: two checkpoints, {1, 2}.                              *)
Original == {1, 2}

Land(l) ==
  /\ Len(base) < MaxBase
  /\ base' = Append(base, l)
  /\ UNCHANGED <<fetched, entry, branch, remote, job, revising>>

(* A pull request is merged, squashed, or a part of it picked.              *)
MergeCommit(e, clash) ==
  \E s \in remote[e] :
    LET P == branch[e][s].patches IN
    Land([entry |-> e, merged |-> s, patches |-> P, hits |-> {},
          ids |-> {{p} : p \in P}, clash |-> clash])

(* One commit with the lines of several, half of which may be those judged. *)
Squash(e, clash) ==
  \E s \in remote[e], hits \in SUBSET {e} :
    LET P == branch[e][s].patches IN
    Land([entry |-> e, merged |-> None, patches |-> P, hits |-> hits,
          ids |-> {P}, clash |-> clash])

Pick(e, clash) ==
  \E s \in remote[e] : \E p \in branch[e][s].patches :
    Land([entry |-> e, merged |-> None, patches |-> {p}, hits |-> {},
          ids |-> {{p}}, clash |-> clash])

(* An entry's own work, rewritten by somebody.                              *)
Stray(e) ==
  Land([entry |-> None, merged |-> None, patches |-> {}, hits |-> {e},
        ids |-> {}, clash |-> {}])

DeleteBranch(e) ==
  /\ remote[e] # {}
  /\ remote' = [remote EXCEPT ![e] = {}]
  /\ UNCHANGED <<base, fetched, entry, branch, job, revising>>

(* Somebody commits in the worktree, which stays on the first branch, and    *)
(* pushes.                                                                   *)
ForeignCommit(e) ==
  /\ \E p \in Patches \ branch[e][0].patches :
       branch' = [branch EXCEPT ![e][0].patches = @ \cup {p}]
  /\ UNCHANGED <<base, fetched, entry, remote, job, revising>>

-----------------------------------------------------------------------------
(* landReconcile, under the repository lock.                                *)

NoJob == [pc |-> "idle", e |-> None, todo |-> {}, others |-> {},
          after |-> FALSE, suffix |-> 0]

PublishedOnes == {e \in Entries : entry[e].state = "published"}

(* /factory reconcile takes what is published now; the scheduler takes one  *)
(* entry and goes on to afterLand.                                          *)
Reconcile ==
  /\ job.pc = "idle"
  /\ \/ /\ PublishedOnes # {}
        /\ job' = [NoJob EXCEPT !.pc = "fetch", !.todo = PublishedOnes,
                                !.others = PublishedOnes]
     \/ \E e \in Entries :
          job' = [NoJob EXCEPT !.pc = "fetch", !.todo = {e},
                               !.others = Entries, !.after = TRUE]
  /\ UNCHANGED <<base, fetched, entry, branch, remote, revising>>

NextEntry(j) ==
  IF j.todo = {} THEN NoJob ELSE [j EXCEPT !.pc = "fetch", !.e = None]

(* An entry that is not published any more, or a fetch that fails, leaves   *)
(* it as it is.                                                             *)
Fetch ==
  /\ job.pc = "fetch"
  /\ \E e \in job.todo :
       LET rest == [job EXCEPT !.todo = @ \ {e}] IN
       \/ job' = NextEntry(rest) /\ UNCHANGED fetched
       \/ /\ entry[e].state = "published"
          /\ fetched' = Len(base)
          /\ job' = [rest EXCEPT !.pc = "decide", !.e = e]
  /\ UNCHANGED <<base, entry, branch, remote, revising>>

Window(e) == (entry[e].recon + 1)..fetched

(* Patch-ids tell the work of an entry from the work of another.             *)
IdsOf(e, i) == IF base[i].entry = e THEN base[i].ids ELSE {}

WindowIds(e) == UNION {IdsOf(e, i) : i \in Window(e)}

(* Commits of the worktree that hostCommits lacks: of a person, and of a     *)
(* revision too, since watchPublished leaves hostCommits alone.              *)
Foreign(e) == ~(branch[e][0].patches \subseteq Original)

(* The judged head is an ancestor of the base: work of the run, which is on *)
(* the first branch, merged with at least the commits judged.               *)
IsAncestor(e) ==
  \E i \in 1..fetched : /\ base[i].entry = e /\ base[i].merged = 0
                        /\ entry[e].judged \subseteq base[i].patches

(* hostCommits of the entry are the original ones: no cycle records others. *)
HostIds == {{h} : h \in Original}

(* Defect: one patch in the base is enough.                                 *)
RecognisedAny(e) ==
  IF IsAncestor(e) \/ entry[e].judged \in WindowIds(e)
     \/ HostIds \cap WindowIds(e) # {}
  THEN "clean"
  ELSE IF \E i \in Window(e) : e \in base[i].hits THEN "human-modified"
  ELSE ""

Recognised(e) ==
  IF IsAncestor(e) \/ entry[e].judged \in WindowIds(e)
     \/ HostIds \subseteq WindowIds(e)
  THEN "clean"
  ELSE IF HostIds \cap WindowIds(e) # {} THEN "partial"
  ELSE IF \E i \in Window(e) : e \in base[i].hits THEN "human-modified"
  ELSE ""

(* merge-tree against origin/<base>.                                        *)
Conflicts(e) ==
  \E i \in (branch[e][entry[e].suffix].onto + 1)..fetched : e \in base[i].clash

MarkNeedsRebase(es, e) ==
  [o \in Entries |->
     IF o \in job.others \ {e} /\ es[o].state = "published" /\ Conflicts(o)
     THEN [es[o] EXCEPT !.state = "needs-rebase"] ELSE es[o]]

(* Defect: the window ends at what the remote has by now.                   *)
DecideAtTip ==
  /\ job.pc = "decide"
  /\ LET e == job.e IN
     /\ Recognised(e) = ""
     /\ entry' = [entry EXCEPT ![e].recon = Len(base)]
     /\ job' = NextEntry(job)
  /\ UNCHANGED <<base, fetched, branch, remote, revising>>

Decide ==
  /\ job.pc = "decide"
  /\ LET e == job.e
         as == Recognised(e)
         seen == [entry EXCEPT ![e].recon = fetched] IN
     \/ /\ as # ""
        /\ entry' = MarkNeedsRebase([seen EXCEPT ![e].state = "landed",
                                                 ![e].as = as], e)
        /\ job' = IF job.after
                  THEN [job EXCEPT !.pc = "after", !.others = @ \ {e}, !.e = None]
                  ELSE NextEntry(job)
     \/ /\ as = ""
        /\ entry' = seen
        /\ job' = NextEntry(job)
     \/ /\ as = "" /\ entry[e].suffix \notin remote[e]  \* and abandonDays old
        /\ entry' = [seen EXCEPT ![e].state = "closed"]
        /\ job' = NextEntry(job)
  /\ UNCHANGED <<base, fetched, branch, remote, revising>>

-----------------------------------------------------------------------------
(* afterLand and the rebase cycle.                                          *)

Cycle(o, n) ==
  [job EXCEPT !.pc = "cut", !.e = o, !.suffix = n, !.others = @ \ {o}]

CutSuffix(o) ==
  LET n == entry[o].count + 1
      current == entry[o].suffix IN
  IF current + 1 > n THEN current + 1 ELSE n

CyclesLeft(e) == entry[e].count < MaxCycles

(* The start of the cycle: at its limit it gives up, and on a worktree with *)
(* commits of somebody else it hands the entry over.                        *)
StartCycle(es, o) ==
  \/ /\ ~CyclesLeft(o)
     /\ entry' = es
     /\ job' = [job EXCEPT !.others = @ \ {o}, !.e = None]
     /\ UNCHANGED fetched
  \/ /\ CyclesLeft(o) /\ fetched' = Len(base)
     /\ IF Foreign(o)
        THEN /\ entry' = [es EXCEPT ![o].state = "human-owned"]
             /\ job' = [job EXCEPT !.others = @ \ {o}, !.e = None]
        ELSE entry' = es /\ job' = Cycle(o, CutSuffix(o))

(* Each entry in conflict with what has landed; the cycle only if it is     *)
(* automatic and its workspace is known.                                    *)
AfterLand ==
  /\ job.pc = "after"
  /\ \/ job.others = {} /\ job' = NoJob /\ UNCHANGED <<entry, fetched>>
     \/ \E o \in job.others :
          LET marked == [entry EXCEPT ![o].state = "needs-rebase"] IN
          IF entry[o].state = "needs-rebase"
             \/ (entry[o].state = "published" /\ Conflicts(o))
          THEN \/ /\ entry' = marked
                  /\ job' = [job EXCEPT !.others = @ \ {o}]
                  /\ UNCHANGED fetched
               \/ StartCycle(marked, o)
          ELSE /\ job' = [job EXCEPT !.others = @ \ {o}]
               /\ UNCHANGED <<entry, fetched>>
  /\ UNCHANGED <<base, branch, remote, revising>>

(* /factory rebase, on an entry in whatever state.                          *)
RebaseCommand(e) ==
  /\ job.pc = "idle"
  /\ LET here == [NoJob EXCEPT !.pc = "after", !.others = {e}] IN
     \/ /\ ~CyclesLeft(e) /\ UNCHANGED <<entry, job, fetched>>
     \/ /\ CyclesLeft(e) /\ fetched' = Len(base)
        /\ IF Foreign(e)
           THEN /\ entry' = [entry EXCEPT ![e].state = "human-owned"]
                /\ UNCHANGED job
           ELSE /\ job' = [here EXCEPT !.pc = "cut", !.e = e, !.others = {},
                                       !.suffix = CutSuffix(e)]
                /\ UNCHANGED entry
  /\ UNCHANGED <<base, branch, remote, revising>>

CycleOver ==
  IF job.others = {} THEN NoJob
  ELSE [job EXCEPT !.pc = "after", !.e = None, !.suffix = 0]

(* The branch as rebased onto what is fetched: the same patches, or, after   *)
(* a conflict that was resolved, one of them (bound: 2) changed.             *)
Rebased(b) ==
  {[b EXCEPT !.onto = Len(base), !.patches = P] :
     P \in {b.patches} \cup {(b.patches \ {2}) \cup {q} :
                               q \in Patches \ b.patches}}

(* Defect: rebases the branch the pull request shows.                        *)
CutInPlace ==
  /\ job.pc = "cut"
  /\ \E new \in Rebased(branch[job.e][entry[job.e].suffix]) :
       branch' = [branch EXCEPT ![job.e][entry[job.e].suffix] = new]
  /\ job' = CycleOver
  /\ UNCHANGED <<base, fetched, entry, remote, revising>>

WithBranch(o, n, new) ==
  [branch EXCEPT ![o] = [s \in DOMAIN @ \cup {n} |-> IF s = n THEN new ELSE branch[o][s]]]

(* Under the lock.  A suffix that is taken fails the cycle, and a conflict   *)
(* nobody resolves leaves the new branch behind where the old one is.        *)
Cut ==
  /\ job.pc = "cut"
  /\ LET o == job.e
         n == job.suffix
         old == branch[o][entry[o].suffix] IN
     \/ /\ n \in DOMAIN branch[o]
        /\ job' = CycleOver
        /\ UNCHANGED <<fetched, branch>>
     \/ /\ n \notin DOMAIN branch[o] /\ fetched' = Len(base)
        /\ \/ /\ branch' = WithBranch(o, n, old)
              /\ job' = CycleOver
           \/ \E new \in Rebased(old) :
                /\ branch' = WithBranch(o, n, new)
                /\ job' = [job EXCEPT !.pc = "verify"]
     \/ job' = NoJob /\ UNCHANGED <<fetched, branch>>    \* the lock times out
  /\ UNCHANGED <<base, entry, remote, revising>>

(* Checks, review, judge and, if the caller has one, publish: any of them    *)
(* may fail.  What was judged and committed is recorded as it was.           *)
Verify ==
  /\ job.pc = "verify"
  /\ job' = CycleOver
  /\ LET o == job.e IN
     /\ remote' \in {remote, [remote EXCEPT ![o] = @ \cup {job.suffix}]}
     /\ \/ entry' = entry   \* and a crash after the push
        \/ entry' = [entry EXCEPT ![o].suffix = job.suffix, ![o].count = @ + 1,
                                  ![o].state = "published"]
  /\ UNCHANGED <<base, fetched, branch, revising>>

-----------------------------------------------------------------------------
(* watchPublished.                                                           *)

(* An event the caller's memory has not seen resumes the run, as long as     *)
(* rounds are left.                                                          *)
Watch(e) ==
  /\ e \notin revising
  /\ \/ /\ Foreign(e)
        /\ entry' = [entry EXCEPT ![e].state = "human-owned"]
        /\ UNCHANGED revising
     \/ /\ ~Foreign(e) /\ entry[e].rounds < MaxRounds
        /\ revising' = revising \cup {e}
        /\ UNCHANGED entry
  /\ UNCHANGED <<base, fetched, branch, remote, job>>

(* The resume throws, or ends without a new head, or with one that is then   *)
(* republished, which only then the entry records.                           *)
Revised(e) ==
  /\ e \in revising
  /\ revising' = revising \ {e}
  /\ LET done == [entry EXCEPT ![e].rounds = @ + 1] IN
     \/ entry' \in {entry, done} /\ UNCHANGED <<branch, remote>>
     \/ \E p \in Patches \ branch[e][0].patches :
          LET P == branch[e][0].patches \cup {p} IN
          /\ branch' = [branch EXCEPT ![e][0].patches = P]
          /\ entry' = [done EXCEPT ![e].judged = P]
          /\ remote' = [remote EXCEPT ![e] = @ \cup {0}]
  /\ UNCHANGED <<base, fetched, job>>

(* A crash.                                                                  *)
Restart ==
  /\ job # NoJob \/ revising # {}
  /\ job' = NoJob
  /\ revising' = {}
  /\ UNCHANGED <<base, fetched, entry, branch, remote>>

-----------------------------------------------------------------------------
Init ==
  /\ base = <<>> /\ fetched = 0
  /\ entry = [e \in Entries |->
                [state |-> "published", as |-> "", suffix |-> 0, count |-> 0,
                 recon |-> 0, judged |-> Original, rounds |-> 0]]
  /\ branch = [e \in Entries |->
                 [s \in {0} |-> [onto |-> 0, patches |-> Original]]]
  /\ remote = [e \in Entries |-> {0}]
  /\ job = NoJob
  /\ revising = {}

People ==
  \/ \E e \in Entries, clash \in SUBSET Busy :
       \/ MergeCommit(e, clash \ {e})
       \/ e \in Busy /\ (Squash(e, clash \ {e}) \/ Pick(e, clash \ {e}))
  \/ \E e \in Busy : Stray(e) \/ DeleteBranch(e) \/ ForeignCommit(e)

Next ==
  \/ People
  \/ Reconcile \/ Fetch \/ Decide \/ AfterLand \/ Cut \/ Verify \/ Restart
  \/ \E e \in Busy : RebaseCommand(e) \/ Watch(e) \/ Revised(e)

Spec == Init /\ [][Next]_vars

-----------------------------------------------------------------------------
(* Properties.                                                               *)

(* An entry said to have landed clean has all its original work in the base: *)
(* squashed, merged, picked in parts over several windows, rebased before or  *)
(* revised meanwhile (git/reconcile.ts landReconcile).                       *)
CleanIsWhole ==
  \A e \in Entries : entry[e].as = "clean" =>
    Original \subseteq UNION {base[i].patches : i \in {j \in 1..Len(base) : base[j].entry = e}}

(* Every commit of the base that shows work of an entry is behind its mark   *)
(* only if the entry was recognised by it: the window that is decided on and *)
(* the mark that ends it are the same fetch, whatever lands in between.      *)
NothingSkipped ==
  \A e \in Entries : entry[e].as = "" =>
    \A i \in 1..entry[e].recon :
      e \notin base[i].hits /\ IdsOf(e, i) \cap HostIds = {}

(* What the entry says of its landing agrees with the base up to the mark.  *)
EntryTellsLanding == CleanIsWhole /\ NothingSkipped

(* A branch that a pull request may show is never rebased: a cycle, tried    *)
(* again after a failure or a crash too, leaves every branch there is as it  *)
(* was (rebase-cycle.ts: "Never rebases the open-PR branch in place").        *)
BranchKept ==
  \A e \in Entries : \A s \in DOMAIN branch[e] :
    /\ s \in DOMAIN branch'[e]
    /\ branch'[e][s].onto = branch[e][s].onto
    /\ branch[e][s].patches \subseteq branch'[e][s].patches
=============================================================================
