---------------------------- MODULE TicketsProofs ---------------------------
(***************************************************************************)
(* What is proved of the components of MCTickets around the queue: the land *)
(* and rebase cycles of a ticket's branch, the worktrees it is built in,    *)
(* the poll that finds it, the trigger that sets off its run, and the       *)
(* write-backs that tell its tracker.                                       *)
(***************************************************************************)
EXTENDS MCTickets, TLAPS, WellFoundedInduction, SequenceTheorems, FiniteSetTheorems

-----------------------------------------------------------------------------
(* The land and rebase cycles.                                              *)

(* What an entry and its first branch have: the original work, judged and   *)
(* committed; one branch for every rebase that was recorded.                *)
Own(e) ==
  /\ L!Original \subseteq entry[e].judged
  /\ 0 \in DOMAIN branch[e] /\ L!Original \subseteq branch[e][0].patches
  /\ entry[e].suffix = entry[e].count
  /\ entry[e].recon <= fetched
  /\ e \in revising => entry[e].rounds < MaxRounds

(* A patch-id is that of a part of what landed.                             *)
IdsAreParts == \A i \in 1..Len(base) : \A id \in base[i].ids : id \subseteq base[i].patches

(* What a job has in its hands.                                             *)
JobSound ==
  /\ job.pc \in {"decide", "cut", "verify"} => job.e \in Entries
  /\ job.pc \in {"cut", "verify"} => /\ entry[job.e].count < MaxCycles
                                     /\ job.suffix = entry[job.e].count + 1
  /\ job.pc = "verify" => job.suffix \in DOMAIN branch[job.e]

LandSound ==
  /\ L!TypeOK
  /\ DOMAIN branch = Entries /\ DOMAIN remote = Entries
  /\ \A e \in Entries : Own(e)
  /\ IdsAreParts
  /\ JobSound
  /\ L!EntryTellsLanding

LandHolds == which = "land" => LandSound

(* An entry of which nothing but the state has changed.                     *)
SameWork(x, y) ==
  /\ y.as = x.as /\ y.suffix = x.suffix /\ y.count = x.count
  /\ y.recon = x.recon /\ y.judged = x.judged /\ y.rounds = x.rounds

LandStates == {"published", "needs-rebase", "landed", "closed", "human-owned"}

LEMMA StateChange ==
  ASSUME NEW x \in L!Entry, NEW st \in LandStates
  PROVE  [x EXCEPT !.state = st] \in L!Entry /\ SameWork(x, [x EXCEPT !.state = st])
  BY DEF L!Entry, SameWork, LandStates

LEMMA EntryFields ==
  ASSUME NEW x \in L!Entry
  PROVE  /\ x.state \in LandStates /\ x.as \in {"", "clean", "partial", "human-modified"}
         /\ x.suffix \in 0..(MaxCycles + 1) /\ x.count \in 0..MaxCycles
         /\ x.recon \in 0..MaxBase /\ x.judged \subseteq L!Patches /\ x.rounds \in 0..MaxRounds
  BY DEF L!Entry, LandStates, L!Suffixes

(* A step that leaves the base, the branches and what is said of the work.  *)
LEMMA LandQuiet ==
  ASSUME LandSound, UNCHANGED <<base, branch>>,
         fetched' \in {fetched, Len(base)},
         entry' \in [Entries -> L!Entry],
         \A o \in Entries : SameWork(entry[o], entry'[o]),
         revising' \subseteq Entries, \A o \in revising' : entry[o].rounds < MaxRounds,
         DOMAIN remote' = Entries, \A o \in Entries : remote'[o] \subseteq DOMAIN branch[o],
         job' \in L!Job, JobSound'
  PROVE  LandSound'
<1>1. /\ fetched \in 0..Len(base) /\ Len(base) \in Nat /\ fetched' \in 0..Len(base)
      /\ fetched <= fetched' /\ Len(base) <= MaxBase
  BY DEF LandSound, L!TypeOK
<1>2. L!TypeOK'
  <2>1. \A o \in Entries : entry'[o].suffix \in DOMAIN branch[o]
    BY DEF LandSound, L!TypeOK, SameWork
  <2>2. QED
    BY <1>1, <2>1 DEF LandSound, L!TypeOK, L!Landing, L!Branch, L!Job, L!Entry, L!Suffixes, L!Patches
<1>3. \A o \in Entries : Own(o)'
  <2> SUFFICES ASSUME NEW o \in Entries PROVE Own(o)'
    OBVIOUS
  <2>1. Own(o) /\ SameWork(entry[o], entry'[o])
    BY DEF LandSound
  <2>2. entry[o].recon <= fetched'
    <3>1. entry[o] \in L!Entry
      BY DEF LandSound, L!TypeOK
    <3>2. entry[o].recon \in Nat
      <4>1. entry[o].recon \in 0..MaxBase
        BY <3>1, EntryFields
      <4>2. MaxBase \in Nat
        BY LandAssumption
      <4>3. QED
        BY <4>1, <4>2
    <3>3. entry[o].recon <= fetched
      BY <2>1 DEF Own
    <3>4. QED
      BY <1>1, <3>2, <3>3
  <2>3. QED
    BY <2>1, <2>2 DEF Own, SameWork, L!Original
<1>4. IdsAreParts'
  BY DEF LandSound, IdsAreParts
<1>5. L!EntryTellsLanding'
  <2>1. \A o \in Entries : entry'[o].as = entry[o].as /\ entry'[o].recon = entry[o].recon
    BY DEF SameWork
  <2>2. L!CleanIsWhole'
    BY <2>1 DEF LandSound, L!EntryTellsLanding, L!CleanIsWhole, L!Original
  <2>3. L!NothingSkipped'
    BY <2>1 DEF LandSound, L!EntryTellsLanding, L!NothingSkipped, L!IdsOf, L!HostIds, L!Original
  <2>4. QED
    BY <2>2, <2>3 DEF L!EntryTellsLanding
<1>6. QED
  BY <1>2, <1>3, <1>4, <1>5 DEF LandSound

(* What is behind the mark of an entry has been fetched.                    *)
LEMMA InsideMark ==
  ASSUME NEW r, NEW f, NEW n \in Nat, NEW m \in Nat,
         r \in 0..m, f \in 0..n, r <= f, NEW i \in 1..r
  PROVE  r \in Nat /\ f \in Nat /\ i \in 1..n /\ i \in 1..f
  OBVIOUS

LEMMA MarkBounds ==
  ASSUME LandSound, NEW o \in Entries, NEW i \in 1..entry[o].recon
  PROVE  i \in 1..Len(base) /\ i \in 1..fetched /\ entry[o].recon \in Nat
<1>1. entry[o].recon \in 0..MaxBase /\ entry[o].recon <= fetched
  BY EntryFields DEF LandSound, L!TypeOK, Own
<1>2. fetched \in 0..Len(base) /\ Len(base) \in Nat
  BY DEF LandSound, L!TypeOK
<1>3. QED
  BY <1>1, <1>2, InsideMark, LandAssumption

(* A landing, whose patch-ids are those of its patches.                     *)
LEMMA LandAppended ==
  ASSUME LandSound, NEW l \in L!Landing, \A id \in l.ids : id \subseteq l.patches,
         L!Land(l)
  PROVE  LandSound'
<1> DEFINE n == Len(base)
<1>1. /\ base' = Append(base, l) /\ n < MaxBase
      /\ UNCHANGED <<fetched, entry, branch, remote, job, revising>>
  BY DEF L!Land
<1>2. base \in Seq(L!Landing) /\ n \in Nat /\ fetched \in 0..n
  BY DEF LandSound, L!TypeOK
<1>3. /\ base' \in Seq(L!Landing) /\ Len(base') = n + 1 /\ base'[n + 1] = l
      /\ \A i \in 1..n : base'[i] = base[i]
  BY <1>1, <1>2
<1>4. MaxBase \in Nat
  BY LandAssumption
<1> HIDE DEF n
<1>5. Len(base') <= MaxBase /\ fetched \in 0..Len(base')
  BY <1>1, <1>2, <1>3, <1>4
<1>6. L!TypeOK'
  BY <1>1, <1>3, <1>5
  DEF LandSound, L!TypeOK, L!Landing, L!Branch, L!Job, L!Entry, L!Suffixes, L!Patches
<1>7. \A o \in Entries : Own(o)'
  BY <1>1 DEF LandSound, Own, L!Original
<1>8. IdsAreParts'
  <2>1. \A i \in 1..n : \A id \in base[i].ids : id \subseteq base[i].patches
    BY DEF LandSound, IdsAreParts, n
  <2>2. \A i \in 1..(n + 1) : i \in 1..n \/ i = n + 1
    BY <1>2
  <2>3. QED
    BY <1>3, <2>1, <2>2 DEF IdsAreParts
<1>9. JobSound'
  BY <1>1 DEF LandSound, JobSound
<1>10. L!CleanIsWhole'
  <2> SUFFICES ASSUME NEW o \in Entries, entry[o].as = "clean", NEW p \in L!Original
               PROVE  \E i \in 1..Len(base') : base'[i].entry = o /\ p \in base'[i].patches
    BY <1>1 DEF L!CleanIsWhole, L!Original
  <2>1. PICK i \in 1..n : base[i].entry = o /\ p \in base[i].patches
    BY DEF LandSound, L!EntryTellsLanding, L!CleanIsWhole, n
  <2>2. i \in 1..Len(base') /\ base'[i] = base[i]
    BY <1>2, <1>3
  <2>3. QED
    BY <2>1, <2>2
<1>11. L!NothingSkipped'
  <2> SUFFICES ASSUME NEW o \in Entries, entry[o].as = "", NEW i \in 1..entry[o].recon
               PROVE  o \notin base'[i].hits /\ L!IdsOf(o, i)' \cap L!HostIds = {}
    BY <1>1 DEF L!NothingSkipped, L!HostIds, L!Original
  <2>1. o \notin base[i].hits /\ L!IdsOf(o, i) \cap L!HostIds = {}
    BY DEF LandSound, L!EntryTellsLanding, L!NothingSkipped
  <2>3. i \in 1..n
    BY MarkBounds DEF n
  <2>4. base'[i] = base[i]
    BY <1>3, <2>3
  <2>5. QED
    BY <2>1, <2>4 DEF L!IdsOf
<1>12. QED
  BY <1>1, <1>6, <1>7, <1>8, <1>9, <1>10, <1>11 DEF LandSound, L!EntryTellsLanding

(* What people do to the base.                                              *)
LEMMA LandMerged ==
  ASSUME LandSound, NEW o \in Entries, NEW clash \in SUBSET Entries,
         L!MergeCommit(o, clash) \/ L!Squash(o, clash) \/ L!Pick(o, clash) \/ L!Stray(o)
  PROVE  LandSound'
<1>1. \A s \in remote[o] : s \in L!Suffixes /\ branch[o][s].patches \subseteq L!Patches
  BY DEF LandSound, L!TypeOK, L!Branch
<1>2. CASE L!MergeCommit(o, clash)
  <2>1. PICK s \in remote[o] :
          L!Land([entry |-> o, merged |-> s, patches |-> branch[o][s].patches, hits |-> {},
                  ids |-> {{p} : p \in branch[o][s].patches}, clash |-> clash])
    BY <1>2 DEF L!MergeCommit
  <2> DEFINE Q == branch[o][s].patches
             l == [entry |-> o, merged |-> s, patches |-> Q, hits |-> {},
                   ids |-> {{p} : p \in Q}, clash |-> clash]
  <2>2. Q \subseteq L!Patches /\ s \in L!Suffixes
    BY <1>1
  <2> HIDE DEF Q
  <2>3. l \in L!Landing /\ \A id \in l.ids : id \subseteq l.patches
    BY <2>2 DEF L!Landing
  <2>4. L!Land(l)
    BY <2>1 DEF Q
  <2> HIDE DEF l
  <2>5. QED
    BY <2>3, <2>4, LandAppended
<1>3. CASE L!Squash(o, clash)
  <2>1. PICK s \in remote[o], hits \in SUBSET {o} :
          L!Land([entry |-> o, merged |-> None, patches |-> branch[o][s].patches, hits |-> hits,
                  ids |-> {branch[o][s].patches}, clash |-> clash])
    BY <1>3 DEF L!Squash
  <2> DEFINE Q == branch[o][s].patches
             l == [entry |-> o, merged |-> None, patches |-> Q, hits |-> hits,
                   ids |-> {Q}, clash |-> clash]
  <2>2. Q \subseteq L!Patches
    BY <1>1
  <2> HIDE DEF Q
  <2>3. l \in L!Landing /\ \A id \in l.ids : id \subseteq l.patches
    BY <2>2 DEF L!Landing
  <2>4. L!Land(l)
    BY <2>1 DEF Q
  <2> HIDE DEF l
  <2>5. QED
    BY <2>3, <2>4, LandAppended
<1>4. CASE L!Pick(o, clash)
  <2>1. PICK s \in remote[o] : \E p \in branch[o][s].patches :
          L!Land([entry |-> o, merged |-> None, patches |-> {p}, hits |-> {},
                  ids |-> {{p}}, clash |-> clash])
    BY <1>4 DEF L!Pick
  <2> PICK p \in branch[o][s].patches :
          L!Land([entry |-> o, merged |-> None, patches |-> {p}, hits |-> {},
                  ids |-> {{p}}, clash |-> clash])
    BY <2>1
  <2> DEFINE l == [entry |-> o, merged |-> None, patches |-> {p}, hits |-> {},
                   ids |-> {{p}}, clash |-> clash]
  <2>2. p \in L!Patches
    BY <1>1, <2>1
  <2>3. l \in L!Landing /\ \A id \in l.ids : id \subseteq l.patches
    BY <2>2 DEF L!Landing
  <2>4. L!Land(l)
    OBVIOUS
  <2> HIDE DEF l
  <2>5. QED
    BY <2>3, <2>4, LandAppended
<1>5. CASE L!Stray(o)
  <2> DEFINE l == [entry |-> None, merged |-> None, patches |-> {}, hits |-> {o},
                   ids |-> {}, clash |-> {}]
  <2>1. l \in L!Landing /\ \A id \in l.ids : id \subseteq l.patches
    BY DEF L!Landing
  <2>2. L!Land(l)
    BY <1>5 DEF L!Stray
  <2> HIDE DEF l
  <2>3. QED
    BY <2>1, <2>2, LandAppended
<1>6. QED
  BY <1>2, <1>3, <1>4, <1>5
(* No job, or the turn of the next entry.                                   *)
LEMMA NextTurn ==
  ASSUME NEW j \in L!Job
  PROVE  /\ L!NoJob \in L!Job /\ L!NoJob.pc = "idle"
         /\ L!NextEntry(j) \in L!Job /\ L!NextEntry(j).pc \in {"idle", "fetch"}
<1>1. L!NoJob \in L!Job /\ L!NoJob.pc = "idle"
  <2>1. 0 \in L!Suffixes
    BY LandAssumption DEF L!Suffixes
  <2>2. QED
    BY <2>1 DEF L!NoJob, L!Job
<1>2. CASE j.todo = {}
  BY <1>1, <1>2 DEF L!NextEntry
<1>3. CASE j.todo # {}
  BY <1>1, <1>3 DEF L!NextEntry, L!Job
<1>4. QED
  BY <1>1, <1>2, <1>3

(* People delete a branch; the scheduler starts; it fetches.                *)
LEMMA LandDeleted ==
  ASSUME LandSound, NEW e \in Entries, L!DeleteBranch(e)
  PROVE  LandSound'
<1>1. /\ UNCHANGED <<base, fetched, entry, branch, job, revising>>
      /\ remote' = [remote EXCEPT ![e] = {}]
  BY DEF L!DeleteBranch
<1>2. DOMAIN remote' = Entries /\ \A o \in Entries : remote'[o] \subseteq DOMAIN branch[o]
  BY <1>1 DEF LandSound, L!TypeOK
<1>3. /\ \A o \in Entries : SameWork(entry[o], entry'[o])
      /\ \A o \in revising' : entry[o].rounds < MaxRounds
      /\ entry' \in [Entries -> L!Entry] /\ revising' \subseteq Entries
      /\ job' \in L!Job /\ JobSound'
  BY <1>1 DEF LandSound, L!TypeOK, SameWork, Own, JobSound, L!Job, L!Entry, L!Suffixes, L!Patches
<1>4. QED
  BY <1>1, <1>2, <1>3, LandQuiet

LEMMA LandReconciles ==
  ASSUME LandSound, L!Reconcile
  PROVE  LandSound'
<1>1. UNCHANGED <<base, fetched, entry, branch, remote, revising>>
  BY DEF L!Reconcile
<1>2. job' \in L!Job /\ job'.pc = "fetch"
  <2> DEFINE p == L!PublishedOnes
             n == L!NoJob
  <2>0. p \in SUBSET Entries /\ n \in L!Job
    BY NextTurn DEF L!PublishedOnes, LandSound, L!TypeOK
  <2> HIDE DEF p, n
  <2>1. CASE job' = [n EXCEPT !.pc = "fetch", !.todo = p, !.others = p]
    BY <2>0, <2>1 DEF L!Job
  <2>2. ASSUME NEW e \in Entries,
               job' = [n EXCEPT !.pc = "fetch", !.todo = {e}, !.others = Entries,
                                !.after = TRUE]
        PROVE  job' \in L!Job /\ job'.pc = "fetch"
    BY <2>0, <2>2 DEF L!Job
  <2>3. QED
    BY <2>1, <2>2 DEF L!Reconcile, p, n
<1>3. JobSound'
  BY <1>2 DEF JobSound
<1>4. /\ \A o \in Entries : SameWork(entry[o], entry'[o])
      /\ \A o \in revising' : entry[o].rounds < MaxRounds
      /\ entry' \in [Entries -> L!Entry] /\ revising' \subseteq Entries
      /\ DOMAIN remote' = Entries /\ \A o \in Entries : remote'[o] \subseteq DOMAIN branch[o]
  BY <1>1 DEF LandSound, L!TypeOK, SameWork, Own, L!Entry, L!Suffixes, L!Patches
<1>5. QED
  BY <1>1, <1>2, <1>3, <1>4, LandQuiet

LEMMA LandFetches ==
  ASSUME LandSound, L!Fetch
  PROVE  LandSound'
<1>1. UNCHANGED <<base, entry, branch, remote, revising>>
  BY DEF L!Fetch
<1>2. PICK e \in job.todo :
        \/ /\ job' = L!NextEntry([job EXCEPT !.todo = @ \ {e}]) /\ UNCHANGED fetched
        \/ /\ fetched' = Len(base)
           /\ job' = [[job EXCEPT !.todo = @ \ {e}] EXCEPT !.pc = "decide", !.e = e]
  BY DEF L!Fetch
<1> DEFINE rest == [job EXCEPT !.todo = @ \ {e}]
<1>3. job \in L!Job /\ e \in Entries
  BY DEF LandSound, L!TypeOK, L!Job
<1>4. rest \in L!Job
  BY <1>3 DEF L!Job
<1>5. [rest EXCEPT !.pc = "decide", !.e = e] \in L!Job
  BY <1>3, <1>4 DEF L!Job
<1>6. /\ [rest EXCEPT !.pc = "decide", !.e = e].pc = "decide"
      /\ [rest EXCEPT !.pc = "decide", !.e = e].e = e
  BY <1>4 DEF L!Job
<1> HIDE DEF rest
<1>7. job' \in L!Job /\ JobSound' /\ fetched' \in {fetched, Len(base)}
  <2>1. CASE job' = L!NextEntry(rest) /\ UNCHANGED fetched
    BY <1>4, <2>1, NextTurn DEF JobSound
  <2>2. CASE fetched' = Len(base) /\ job' = [rest EXCEPT !.pc = "decide", !.e = e]
    BY <1>3, <1>5, <1>6, <2>2 DEF JobSound
  <2>3. QED
    BY <1>2, <2>1, <2>2 DEF rest
<1>8. /\ \A o \in Entries : SameWork(entry[o], entry'[o])
      /\ \A o \in revising' : entry[o].rounds < MaxRounds
      /\ entry' \in [Entries -> L!Entry] /\ revising' \subseteq Entries
      /\ DOMAIN remote' = Entries /\ \A o \in Entries : remote'[o] \subseteq DOMAIN branch[o]
  BY <1>1 DEF LandSound, L!TypeOK, SameWork, Own, L!Entry, L!Suffixes, L!Patches
<1>9. QED
  BY <1>1, <1>7, <1>8, LandQuiet
LEMMA Numbers ==
  ASSUME LandSound
  PROVE  /\ fetched \in Nat /\ Len(base) \in Nat /\ fetched \in 0..Len(base)
         /\ fetched <= fetched
         /\ \A o \in Entries : entry[o].recon \in Nat
<1>1. fetched \in 0..Len(base) /\ Len(base) \in Nat
  BY DEF LandSound, L!TypeOK
<1>2. ASSUME NEW o \in Entries
      PROVE  entry[o].recon \in Nat
  <2>1. entry[o].recon \in 0..MaxBase
    BY EntryFields DEF LandSound, L!TypeOK
  <2>2. MaxBase \in Nat
    BY LandAssumption
  <2>3. QED
    BY <2>1, <2>2
<1>3. QED
  BY <1>1, <1>2

LEMMA WholeOf ==
  ASSUME LandSound, NEW o \in Entries, entry[o].as = "clean", NEW p \in L!Original
  PROVE  \E i \in 1..Len(base) : base[i].entry = o /\ p \in base[i].patches
<1>1. L!CleanIsWhole
  BY DEF LandSound, L!EntryTellsLanding
<1>2. p \in UNION {base[i].patches : i \in {j \in 1..Len(base) : base[j].entry = o}}
  BY <1>1 DEF L!CleanIsWhole
<1>3. QED
  BY <1>2

LEMMA BeyondMark ==
  ASSUME NEW r \in Nat, NEW f \in Nat, NEW i \in 1..f, i \notin 1..r
  PROVE  i \in (r + 1)..f
  OBVIOUS

(* What an entry is recognised as is what the base shows of it: clean only  *)
(* if all its original work is there, nothing only if the window shows none *)
(* of it.                                                                   *)
LEMMA Recognition ==
  ASSUME LandSound, NEW e \in Entries
  PROVE  /\ L!Recognised(e) \in {"", "clean", "partial", "human-modified"}
         /\ L!Recognised(e) = "clean" =>
              \A h \in L!Original :
                \E i \in 1..Len(base) : base[i].entry = e /\ h \in base[i].patches
         /\ L!Recognised(e) = "" =>
              \A i \in L!Window(e) :
                e \notin base[i].hits /\ L!IdsOf(e, i) \cap L!HostIds = {}
<1>1. /\ Len(base) \in Nat /\ fetched \in 0..Len(base)
      /\ entry[e].recon \in Nat /\ L!Original \subseteq entry[e].judged
  <2>1. Len(base) \in Nat /\ fetched \in 0..Len(base) /\ L!Original \subseteq entry[e].judged
    BY DEF LandSound, L!TypeOK, Own
  <2>2. entry[e].recon \in 0..MaxBase /\ MaxBase \in Nat
    BY EntryFields, LandAssumption DEF LandSound, L!TypeOK
  <2>3. QED
    BY <2>1, <2>2
<1>2. \A i \in L!Window(e) : i \in 1..Len(base)
  <2> DEFINE r == entry[e].recon
             n == Len(base)
  <2>1. n \in Nat /\ fetched \in 0..n /\ r \in Nat
    BY <1>1
  <2> HIDE DEF r, n
  <2>2. \A i \in (r + 1)..fetched : i \in 1..n
    BY <2>1
  <2>3. QED
    BY <2>2 DEF L!Window, r, n
<1>3. \A i \in L!Window(e) : \A id \in L!IdsOf(e, i) :
        base[i].entry = e /\ id \subseteq base[i].patches
  BY <1>2 DEF LandSound, IdsAreParts, L!IdsOf
<1>4. ASSUME L!Recognised(e) = "clean", NEW h \in L!Original
      PROVE  \E i \in 1..Len(base) : base[i].entry = e /\ h \in base[i].patches
  <2>1. CASE L!IsAncestor(e)
    <3>1. PICK i \in 1..fetched : base[i].entry = e /\ entry[e].judged \subseteq base[i].patches
      BY <2>1 DEF L!IsAncestor
    <3>2. i \in 1..Len(base)
      BY <1>1, <3>1
    <3>3. QED
      BY <1>1, <3>1, <3>2
  <2>2. CASE entry[e].judged \in L!WindowIds(e)
    <3>1. PICK i \in L!Window(e) : entry[e].judged \in L!IdsOf(e, i)
      BY <2>2 DEF L!WindowIds
    <3>2. QED
      BY <1>1, <1>2, <1>3, <3>1
  <2>3. CASE L!HostIds \subseteq L!WindowIds(e)
    <3>1. {h} \in L!WindowIds(e)
      BY <2>3 DEF L!HostIds
    <3>2. PICK i \in L!Window(e) : {h} \in L!IdsOf(e, i)
      BY <3>1 DEF L!WindowIds
    <3>3. QED
      BY <1>2, <1>3, <3>2
  <2>4. QED
    BY <1>4, <2>1, <2>2, <2>3 DEF L!Recognised
<1>5. ASSUME L!Recognised(e) = "", NEW i \in L!Window(e)
      PROVE  e \notin base[i].hits /\ L!IdsOf(e, i) \cap L!HostIds = {}
  <2>1. L!HostIds \cap L!WindowIds(e) = {} /\ ~(\E j \in L!Window(e) : e \in base[j].hits)
    BY <1>5 DEF L!Recognised
  <2>2. L!IdsOf(e, i) \subseteq L!WindowIds(e)
    BY DEF L!WindowIds
  <2>3. QED
    BY <2>1, <2>2
<1>6. L!Recognised(e) \in {"", "clean", "partial", "human-modified"}
  BY DEF L!Recognised
<1>7. QED
  BY <1>4, <1>5, <1>6
(* What is decided of an entry: its mark is what was fetched, and what it is*)
(* said to have landed as is what it was recognised as.                     *)
LEMMA Decided ==
  ASSUME LandSound, NEW e \in Entries,
         UNCHANGED <<base, fetched, branch, remote, revising>>,
         job' \in L!Job, JobSound', entry' \in [Entries -> L!Entry],
         \A o \in Entries \ {e} : SameWork(entry[o], entry'[o]),
         entry'[e].suffix = entry[e].suffix, entry'[e].count = entry[e].count,
         entry'[e].judged = entry[e].judged, entry'[e].rounds = entry[e].rounds,
         entry'[e].recon = fetched,
         \/ L!Recognised(e) = "" /\ entry'[e].as = entry[e].as
         \/ L!Recognised(e) # "" /\ entry'[e].as = L!Recognised(e)
  PROVE  LandSound'
<1>3. \A o \in Entries : /\ entry'[o].suffix = entry[o].suffix /\ entry'[o].count = entry[o].count
                         /\ entry'[o].judged = entry[o].judged
                         /\ entry'[o].rounds = entry[o].rounds
                         /\ entry'[o].recon \in {fetched, entry[o].recon}
  <2> SUFFICES ASSUME NEW o \in Entries
               PROVE  /\ entry'[o].suffix = entry[o].suffix /\ entry'[o].count = entry[o].count
                      /\ entry'[o].judged = entry[o].judged
                      /\ entry'[o].rounds = entry[o].rounds
                      /\ entry'[o].recon \in {fetched, entry[o].recon}
    OBVIOUS
  <2>1. CASE o = e
    BY <2>1
  <2>2. CASE o # e
    BY <2>2 DEF SameWork
  <2>3. QED
    BY <2>1, <2>2
<1>4. L!TypeOK'
  BY <1>3 DEF LandSound, L!TypeOK, L!Landing, L!Branch, L!Suffixes, L!Patches, L!Entry, L!Job
<1>5. ASSUME NEW o \in Entries
      PROVE  Own(o)'
  <2>1. Own(o) /\ fetched \in Nat
    BY Numbers DEF LandSound
  <2>2. entry'[o].recon <= fetched
    <3>1. CASE entry'[o].recon = fetched
      <4>1. fetched <= fetched
        BY Numbers
      <4>2. QED
        BY <3>1, <4>1
    <3>2. CASE entry'[o].recon = entry[o].recon
      BY <2>1, <3>2 DEF Own
    <3>3. QED
      BY <1>3, <3>1, <3>2
  <2>3. QED
    BY <1>3, <2>1, <2>2 DEF Own, L!Original
<1>6. IdsAreParts'
  BY DEF LandSound, IdsAreParts
<1>7. L!CleanIsWhole'
  <2> SUFFICES ASSUME NEW o \in Entries, entry'[o].as = "clean"
               PROVE  L!Original \subseteq
                        UNION {base'[i].patches : i \in {j \in 1..Len(base') : base'[j].entry = o}}
    BY ZenonT(30) DEF L!CleanIsWhole, L!Original
  <2> SUFFICES ASSUME NEW p \in L!Original
               PROVE  \E i \in 1..Len(base) : base[i].entry = o /\ p \in base[i].patches
    <3>1. base' = base
      OBVIOUS
    <3>2. QED
      BY <3>1
  <2>1. CASE entry[o].as = "clean"
    BY <2>1, WholeOf
  <2>2. CASE entry[o].as # "clean"
    <3>1. o = e /\ L!Recognised(e) = "clean"
      BY <2>2 DEF SameWork
    <3>2. QED
      BY <3>1, Recognition
  <2>3. QED
    BY <2>1, <2>2
<1>8. L!NothingSkipped'
  <2> SUFFICES ASSUME NEW o \in Entries, entry'[o].as = "", NEW i \in 1..entry'[o].recon
               PROVE  o \notin base[i].hits /\ L!IdsOf(o, i) \cap L!HostIds = {}
    BY DEF L!NothingSkipped, L!HostIds, L!Original, L!IdsOf
  <2>1. entry[o].as = ""
    BY DEF SameWork
  <2>2. CASE i \in 1..entry[o].recon
    BY <2>1, <2>2 DEF LandSound, L!EntryTellsLanding, L!NothingSkipped
  <2>3. CASE i \notin 1..entry[o].recon
    <3>1. o = e /\ L!Recognised(e) = "" /\ i \in 1..fetched
      BY <2>3 DEF SameWork
    <3>3. i \in L!Window(e)
      BY <2>3, <3>1, Numbers, BeyondMark DEF L!Window
    <3>4. QED
      BY <3>1, <3>3, Recognition
  <2>4. QED
    BY <2>2, <2>3
<1>9. QED
  BY <1>4, <1>5, <1>6, <1>7, <1>8 DEF LandSound, L!EntryTellsLanding
(* The entry as it stands once it is decided on.                            *)
LEMMA MarkedEntry ==
  ASSUME NEW x \in L!Entry, NEW r \in 0..MaxBase, NEW y, y = [x EXCEPT !.recon = r]
  PROVE  /\ y \in L!Entry /\ y.as = x.as /\ y.recon = r
         /\ y.suffix = x.suffix /\ y.count = x.count
         /\ y.judged = x.judged /\ y.rounds = x.rounds
  BY DEF L!Entry

LEMMA LandDecides ==
  ASSUME LandSound, L!Decide
  PROVE  LandSound'
<1> DEFINE e == job.e
           as == L!Recognised(e)
           x == [entry[e] EXCEPT !.recon = fetched]
           seen == [entry EXCEPT ![e].recon = fetched]
           y == [[x EXCEPT !.state = "landed"] EXCEPT !.as = as]
           landed == [seen EXCEPT ![e].state = "landed", ![e].as = as]
<1>1. /\ job.pc = "decide" /\ UNCHANGED <<base, fetched, branch, remote, revising>>
      /\ \/ /\ as # "" /\ entry' = L!MarkNeedsRebase(landed, e)
            /\ job' = IF job.after
                      THEN [job EXCEPT !.pc = "after", !.others = @ \ {e}, !.e = None]
                      ELSE L!NextEntry(job)
         \/ as = "" /\ entry' = seen /\ job' = L!NextEntry(job)
         \/ as = "" /\ entry' = [seen EXCEPT ![e].state = "closed"] /\ job' = L!NextEntry(job)
  BY DEF L!Decide
<1>2. e \in Entries /\ job \in L!Job /\ entry \in [Entries -> L!Entry]
  BY <1>1 DEF LandSound, JobSound, L!TypeOK
<1>3. entry[e] \in L!Entry /\ fetched \in 0..MaxBase /\ as \in {"", "clean", "partial", "human-modified"}
  <2>1. fetched \in 0..Len(base) /\ Len(base) <= MaxBase /\ Len(base) \in Nat
    BY DEF LandSound, L!TypeOK
  <2>2. fetched \in 0..MaxBase
    BY <2>1, LandAssumption
  <2>3. QED
    BY <1>2, <2>2, Recognition
<1>4. /\ x \in L!Entry /\ x.as = entry[e].as /\ x.recon = fetched
      /\ x.suffix = entry[e].suffix /\ x.count = entry[e].count
      /\ x.judged = entry[e].judged /\ x.rounds = entry[e].rounds
  <2> DEFINE w == entry[e]
  <2>1. w \in L!Entry /\ fetched \in 0..MaxBase /\ x = [w EXCEPT !.recon = fetched]
    BY <1>3
  <2> HIDE DEF w, x
  <2>2. /\ x \in L!Entry /\ x.as = w.as /\ x.recon = fetched
        /\ x.suffix = w.suffix /\ x.count = w.count
        /\ x.judged = w.judged /\ x.rounds = w.rounds
    BY <2>1, MarkedEntry
  <2>3. QED
    BY <2>2 DEF w
<1>5. /\ seen \in [Entries -> L!Entry] /\ seen[e] = x
      /\ \A o \in Entries \ {e} : seen[o] = entry[o]
  <2> HIDE DEF e
  <2>1. seen = [entry EXCEPT ![e] = x]
    BY <1>2
  <2> HIDE DEF x, seen
  <2>2. QED
    BY <1>2, <1>4, <2>1
<1>6. job' \in L!Job /\ JobSound'
  <2>1. [job EXCEPT !.pc = "after", !.others = @ \ {e}, !.e = None] \in L!Job
    BY <1>2 DEF L!Job
  <2>2. [job EXCEPT !.pc = "after", !.others = @ \ {e}, !.e = None].pc = "after"
    BY <1>2 DEF L!Job
  <2>3. job' \in L!Job /\ job'.pc \in {"after", "idle", "fetch"}
    BY <1>1, <1>2, <2>1, <2>2, NextTurn
  <2>4. QED
    BY <2>3 DEF JobSound
<1> HIDE DEF e, as, x, seen
<1>7. CASE as # "" /\ entry' = L!MarkNeedsRebase(landed, e)
  <2>1. [x EXCEPT !.state = "landed"] \in L!Entry /\ SameWork(x, [x EXCEPT !.state = "landed"])
    BY <1>4, StateChange DEF LandStates
  <2> DEFINE z == [x EXCEPT !.state = "landed"]
  <2>2. y = [z EXCEPT !.as = as] /\ z \in L!Entry /\ SameWork(x, z)
    BY <2>1
  <2> HIDE DEF z, y
  <2>3. /\ y \in L!Entry /\ y.as = as /\ y.recon = fetched
        /\ y.suffix = entry[e].suffix /\ y.count = entry[e].count
        /\ y.judged = entry[e].judged /\ y.rounds = entry[e].rounds
    <3>1. as \in {"clean", "partial", "human-modified"}
      BY <1>3, <1>7
    <3>2. /\ y \in L!Entry /\ y.as = as /\ y.recon = z.recon
          /\ y.suffix = z.suffix /\ y.count = z.count
          /\ y.judged = z.judged /\ y.rounds = z.rounds
      <4>1. z \in L!Entry /\ y = [z EXCEPT !.as = as]
        BY <2>2
      <4>2. QED
        BY <3>1, <4>1 DEF L!Entry
    <3>3. QED
      BY <1>4, <2>2, <3>2 DEF SameWork
  <2>4. /\ landed \in [Entries -> L!Entry] /\ landed[e] = y
        /\ \A o \in Entries \ {e} : landed[o] = entry[o]
    <3>1. landed = [seen EXCEPT ![e] = y]
      BY <1>2, <1>5 DEF y
    <3> HIDE DEF landed
    <3>2. QED
      BY <1>2, <1>5, <2>3, <3>1
  <2> HIDE DEF landed
  <2>5. entry' = [o \in Entries |->
                    IF o \in job.others \ {e} /\ landed[o].state = "published" /\ L!Conflicts(o)
                    THEN [landed[o] EXCEPT !.state = "needs-rebase"] ELSE landed[o]]
    BY <1>7 DEF L!MarkNeedsRebase
  <2>6. \A o \in Entries : /\ [landed[o] EXCEPT !.state = "needs-rebase"] \in L!Entry
                           /\ SameWork(landed[o], [landed[o] EXCEPT !.state = "needs-rebase"])
    BY <2>4, StateChange DEF LandStates
  <2>7. entry' \in [Entries -> L!Entry] /\ entry'[e] = y
    BY <1>2, <2>4, <2>5, <2>6
  <2>8. \A o \in Entries \ {e} : SameWork(entry[o], entry'[o])
    <3> SUFFICES ASSUME NEW o \in Entries \ {e} PROVE SameWork(entry[o], entry'[o])
      OBVIOUS
    <3>1. entry'[o] \in {landed[o], [landed[o] EXCEPT !.state = "needs-rebase"]}
      BY <2>5
    <3>2. SameWork(landed[o], entry'[o])
      BY <2>6, <3>1 DEF SameWork
    <3>3. QED
      BY <2>4, <3>2
  <2>9. QED
    BY <1>1, <1>2, <1>6, <1>7, <2>3, <2>7, <2>8, Decided DEF as
<1>8. CASE as = "" /\ entry' = seen
  <2>1. \A o \in Entries \ {e} : SameWork(entry[o], entry'[o])
    BY <1>5, <1>8 DEF SameWork
  <2>2. QED
    BY <1>1, <1>2, <1>4, <1>5, <1>6, <1>8, <2>1, Decided DEF as
<1>9. CASE as = "" /\ entry' = [seen EXCEPT ![e].state = "closed"]
  <2> DEFINE z == [x EXCEPT !.state = "closed"]
  <2>1. z \in L!Entry /\ SameWork(x, z)
    BY <1>4, StateChange DEF LandStates
  <2>2. entry' = [seen EXCEPT ![e] = z]
    BY <1>2, <1>5, <1>9
  <2> HIDE DEF z
  <2>3. entry' \in [Entries -> L!Entry] /\ entry'[e] = z /\ \A o \in Entries \ {e} : entry'[o] = entry[o]
    BY <1>2, <1>5, <2>1, <2>2
  <2>4. \A o \in Entries \ {e} : SameWork(entry[o], entry'[o])
    BY <2>3 DEF SameWork
  <2>5. /\ entry'[e].as = entry[e].as /\ entry'[e].recon = fetched
        /\ entry'[e].suffix = entry[e].suffix /\ entry'[e].count = entry[e].count
        /\ entry'[e].judged = entry[e].judged /\ entry'[e].rounds = entry[e].rounds
    BY <1>4, <2>1, <2>3 DEF SameWork
  <2>6. QED
    BY <1>1, <1>2, <1>6, <1>9, <2>3, <2>4, <2>5, Decided DEF as
<1>10. QED
  BY <1>1, <1>7, <1>8, <1>9
(* The suffix of the next cycle is one more than the cycles there were.     *)
LEMMA NextSuffix ==
  ASSUME LandSound, NEW o \in Entries, L!CyclesLeft(o)
  PROVE  /\ L!CutSuffix(o) = entry[o].count + 1 /\ L!CutSuffix(o) \in L!Suffixes
         /\ entry[o].count < MaxCycles
<1>1. entry[o].count \in 0..MaxCycles /\ entry[o].suffix = entry[o].count
  BY EntryFields DEF LandSound, L!TypeOK, Own
<1>2. MaxCycles \in Nat /\ entry[o].count < MaxCycles
  BY LandAssumption DEF L!CyclesLeft
<1> DEFINE c == entry[o].count
<1>3. c \in 0..MaxCycles /\ MaxCycles \in Nat /\ c < MaxCycles
  BY <1>1, <1>2
<1> HIDE DEF c
<1>4. c + 1 \in 0..(MaxCycles + 1) /\ ~(c + 1 > c + 1)
  BY <1>3
<1>5. L!CutSuffix(o) = c + 1
  BY <1>1, <1>4 DEF L!CutSuffix, c
<1>6. QED
  BY <1>3, <1>4, <1>5 DEF c, L!Suffixes

(* A job that goes on to the next entry, or begins a cycle.                 *)
LEMMA JobGoesOn ==
  ASSUME NEW j \in L!Job, NEW o \in Entries
  PROVE  /\ [j EXCEPT !.others = @ \ {o}] \in L!Job
         /\ [j EXCEPT !.others = @ \ {o}].pc = j.pc
         /\ [j EXCEPT !.others = @ \ {o}, !.e = None] \in L!Job
         /\ [j EXCEPT !.others = @ \ {o}, !.e = None].pc = j.pc
  BY DEF L!Job

(* An entry's state changes, or nothing of it.                              *)
LEMMA OneState ==
  ASSUME NEW es \in [Entries -> L!Entry], NEW o \in Entries, NEW st \in LandStates
  PROVE  /\ [es EXCEPT ![o].state = st] \in [Entries -> L!Entry]
         /\ \A q \in Entries : SameWork(es[q], [es EXCEPT ![o].state = st][q])
<1> DEFINE x == es[o]
           y == [x EXCEPT !.state = st]
           fs == [es EXCEPT ![o].state = st]
<1>1. y \in L!Entry /\ SameWork(x, y)
  BY StateChange
<1>2. fs = [es EXCEPT ![o] = y]
  OBVIOUS
<1> HIDE DEF y, fs
<1>3. fs \in [Entries -> L!Entry] /\ fs[o] = y /\ \A q \in Entries : q # o => fs[q] = es[q]
  BY <1>1, <1>2
<1>4. \A q \in Entries : SameWork(es[q], fs[q])
  <2> SUFFICES ASSUME NEW q \in Entries PROVE SameWork(es[q], fs[q])
    OBVIOUS
  <2>1. CASE q = o
    BY <1>1, <1>3, <2>1
  <2>2. CASE q # o
    BY <1>3, <2>2 DEF SameWork
  <2>3. QED
    BY <2>1, <2>2
<1>5. QED
  BY <1>3, <1>4 DEF fs

LEMMA SameTwice ==
  ASSUME NEW x, NEW y, NEW z, SameWork(x, y), SameWork(y, z)
  PROVE  SameWork(x, z)
  BY DEF SameWork

(* A cycle starts, or is not to be.                                         *)
LEMMA LandStarts ==
  ASSUME LandSound, UNCHANGED <<base, branch, remote, revising>>,
         NEW es \in [Entries -> L!Entry], \A q \in Entries : SameWork(entry[q], es[q]),
         NEW o \in Entries, job.pc = "after", L!StartCycle(es, o)
  PROVE  LandSound'
<1>1. job \in L!Job
  BY DEF LandSound, L!TypeOK
<1> DEFINE gone == [job EXCEPT !.others = @ \ {o}, !.e = None]
           human == [es EXCEPT ![o].state = "human-owned"]
<1>2. gone \in L!Job /\ gone.pc = "after"
  BY <1>1, JobGoesOn
<1>3. human \in [Entries -> L!Entry] /\ \A q \in Entries : SameWork(es[q], human[q])
  BY OneState DEF LandStates
<1>4. \A q \in Entries : SameWork(entry[q], human[q])
  <2> HIDE DEF human
  <2>1. QED
    BY <1>3, SameTwice
<1> HIDE DEF gone, human
<1>5. /\ fetched' \in {fetched, Len(base)}
      /\ entry' \in [Entries -> L!Entry] /\ \A q \in Entries : SameWork(entry[q], entry'[q])
      /\ job' \in L!Job /\ JobSound'
  <2>1. CASE ~L!CyclesLeft(o) /\ entry' = es /\ job' = gone /\ UNCHANGED fetched
    BY <1>2, <2>1 DEF JobSound
  <2>2. CASE fetched' = Len(base) /\ entry' = human /\ job' = gone
    BY <1>2, <1>3, <1>4, <2>2 DEF JobSound
  <2>3. CASE L!CyclesLeft(o) /\ fetched' = Len(base) /\ entry' = es /\ job' = L!Cycle(o, L!CutSuffix(o))
    <3>1. /\ L!CutSuffix(o) = entry[o].count + 1 /\ L!CutSuffix(o) \in L!Suffixes
          /\ entry[o].count < MaxCycles
      BY <2>3, NextSuffix
    <3> DEFINE rest == job.others \ {o}
               n == L!CutSuffix(o)
    <3>2. /\ rest \in SUBSET Entries /\ n \in L!Suffixes
          /\ job' = [job EXCEPT !.pc = "cut", !.e = o, !.suffix = n, !.others = rest]
      BY <1>1, <2>3, <3>1 DEF L!Cycle, L!Job
    <3> HIDE DEF rest, n
    <3>3. job' \in L!Job /\ job'.pc = "cut" /\ job'.e = o /\ job'.suffix = n
      BY <1>1, <3>2 DEF L!Job
    <3>4. entry'[o].count = entry[o].count
      BY <2>3 DEF SameWork
    <3>5. JobSound'
      BY <3>1, <3>3, <3>4 DEF JobSound, n
    <3>6. QED
      BY <2>3, <3>3, <3>5
  <2>4. QED
    BY <2>1, <2>2, <2>3 DEF L!StartCycle, gone, human
<1>6. /\ revising' \subseteq Entries /\ \A q \in revising' : entry[q].rounds < MaxRounds
      /\ DOMAIN remote' = Entries /\ \A q \in Entries : remote'[q] \subseteq DOMAIN branch[q]
  BY DEF LandSound, L!TypeOK, Own
<1>7. QED
  BY <1>5, <1>6, LandQuiet

LEMMA LandFollows ==
  ASSUME LandSound, L!AfterLand
  PROVE  LandSound'
<1>1. job \in L!Job /\ entry \in [Entries -> L!Entry]
  BY DEF LandSound, L!TypeOK
<1>2. job.pc = "after" /\ UNCHANGED <<base, branch, remote, revising>>
  BY DEF L!AfterLand
<1>3. /\ revising' \subseteq Entries /\ \A q \in revising' : entry[q].rounds < MaxRounds
      /\ DOMAIN remote' = Entries /\ \A q \in Entries : remote'[q] \subseteq DOMAIN branch[q]
  BY <1>2 DEF LandSound, L!TypeOK, Own
<1>4. CASE job' = L!NoJob /\ UNCHANGED <<entry, fetched>>
  <2>1. job' \in L!Job /\ JobSound'
    BY <1>1, <1>4, NextTurn DEF JobSound
  <2>2. \A q \in Entries : SameWork(entry[q], entry'[q])
    BY <1>4 DEF SameWork
  <2>3. QED
    BY <1>1, <1>2, <1>3, <1>4, <2>1, <2>2, LandQuiet
<1>5. ASSUME NEW o \in job.others,
             LET conflicting == [entry EXCEPT ![o].state = "needs-rebase"] IN
             \/ entry' = conflicting /\ job' = [job EXCEPT !.others = @ \ {o}] /\ UNCHANGED fetched
             \/ L!StartCycle(conflicting, o)
             \/ job' = [job EXCEPT !.others = @ \ {o}] /\ UNCHANGED <<entry, fetched>>
      PROVE  LandSound'
  <2> DEFINE conflicting == [entry EXCEPT ![o].state = "needs-rebase"]
             next == [job EXCEPT !.others = @ \ {o}]
  <2>1. o \in Entries
    BY <1>1 DEF L!Job
  <2>2. next \in L!Job /\ next.pc = "after"
    BY <1>1, <1>2, <2>1, JobGoesOn
  <2>3. conflicting \in [Entries -> L!Entry] /\ \A q \in Entries : SameWork(entry[q], conflicting[q])
    BY <1>1, <2>1, OneState DEF LandStates
  <2>4. \A q \in Entries : SameWork(entry[q], entry[q])
    BY DEF SameWork
  <2> HIDE DEF conflicting, next
  <2>5. CASE L!StartCycle(conflicting, o)
    BY <1>2, <2>1, <2>3, <2>5, LandStarts
  <2>6. CASE entry' \in {conflicting, entry} /\ job' = next /\ UNCHANGED fetched
    <3>1. JobSound' /\ job' \in L!Job
      BY <2>2, <2>6 DEF JobSound
    <3>2. entry' \in [Entries -> L!Entry] /\ \A q \in Entries : SameWork(entry[q], entry'[q])
      BY <1>1, <2>3, <2>4, <2>6
    <3>3. QED
      BY <1>2, <1>3, <2>6, <3>1, <3>2, LandQuiet
  <2>7. QED
    BY <1>5, <2>5, <2>6 DEF conflicting, next
<1>6. QED
  BY <1>4, <1>5 DEF L!AfterLand

(* The command of a person.                                                 *)
LEMMA LandRebased ==
  ASSUME LandSound, NEW e \in Entries, L!RebaseCommand(e)
  PROVE  LandSound'
<1>1. job \in L!Job /\ entry \in [Entries -> L!Entry] /\ L!NoJob \in L!Job
  BY NextTurn DEF LandSound, L!TypeOK
<1>2. job.pc = "idle" /\ UNCHANGED <<base, branch, remote, revising>>
  BY DEF L!RebaseCommand
<1>3. /\ revising' \subseteq Entries /\ \A q \in revising' : entry[q].rounds < MaxRounds
      /\ DOMAIN remote' = Entries /\ \A q \in Entries : remote'[q] \subseteq DOMAIN branch[q]
  BY <1>2 DEF LandSound, L!TypeOK, Own
<1>4. \A q \in Entries : SameWork(entry[q], entry[q])
  BY DEF SameWork
<1> DEFINE human == [entry EXCEPT ![e].state = "human-owned"]
<1>5. human \in [Entries -> L!Entry] /\ \A q \in Entries : SameWork(entry[q], human[q])
  BY <1>1, OneState DEF LandStates
<1> HIDE DEF human
<1>6. CASE UNCHANGED job /\ entry' \in {entry, human} /\ fetched' \in {fetched, Len(base)}
  <2>1. JobSound' /\ job' \in L!Job
    BY <1>1, <1>2, <1>6 DEF JobSound
  <2>2. entry' \in [Entries -> L!Entry] /\ \A q \in Entries : SameWork(entry[q], entry'[q])
    BY <1>1, <1>4, <1>5, <1>6
  <2>3. QED
    BY <1>2, <1>3, <1>6, <2>1, <2>2, LandQuiet
<1> DEFINE n == L!CutSuffix(e)
           here == [L!NoJob EXCEPT !.pc = "after", !.others = {e}]
<1>7. CASE /\ L!CyclesLeft(e) /\ fetched' = Len(base) /\ UNCHANGED entry
           /\ job' = [here EXCEPT !.pc = "cut", !.e = e, !.others = {}, !.suffix = n]
  <2>1. n = entry[e].count + 1 /\ n \in L!Suffixes /\ entry[e].count < MaxCycles
    BY <1>7, NextSuffix
  <2>2. here \in L!Job
    <3> DEFINE k == L!NoJob
    <3>1. k \in L!Job
      BY <1>1
    <3> HIDE DEF k
    <3>2. [k EXCEPT !.pc = "after", !.others = {e}] \in L!Job
      BY <3>1 DEF L!Job
    <3>3. QED
      BY <3>2 DEF k
  <2>3. entry'[e].count = entry[e].count
    BY <1>7
  <2>4. job' = [here EXCEPT !.pc = "cut", !.e = e, !.others = {}, !.suffix = n]
    BY <1>7
  <2> HIDE DEF here, n
  <2>5. job' \in L!Job /\ job'.pc = "cut" /\ job'.e = e /\ job'.suffix = n
    BY <2>1, <2>2, <2>4 DEF L!Job
  <2>6. JobSound'
    BY <2>1, <2>3, <2>5 DEF JobSound
  <2>7. QED
    BY <1>1, <1>2, <1>3, <1>4, <1>7, <2>5, <2>6, LandQuiet
<1>8. QED
  BY <1>6, <1>7 DEF L!RebaseCommand, human

(* A crash, a person who is waited for, a branch that fails to be cut.      *)
LEMMA LandRestarts ==
  ASSUME LandSound, L!Restart
  PROVE  LandSound'
<1>1. UNCHANGED <<base, fetched, entry, branch, remote>> /\ job' = L!NoJob /\ revising' = {}
  BY DEF L!Restart
<1>2. job' \in L!Job /\ JobSound'
  BY <1>1, NextTurn DEF JobSound, LandSound, L!TypeOK
<1>3. /\ \A o \in Entries : SameWork(entry[o], entry'[o])
      /\ \A o \in revising' : entry[o].rounds < MaxRounds
      /\ entry' \in [Entries -> L!Entry] /\ revising' \subseteq Entries
      /\ DOMAIN remote' = Entries /\ \A o \in Entries : remote'[o] \subseteq DOMAIN branch[o]
  BY <1>1 DEF LandSound, L!TypeOK, SameWork, Own, L!Entry, L!Suffixes, L!Patches
<1>4. QED
  BY <1>1, <1>2, <1>3, LandQuiet

LEMMA LandWatches ==
  ASSUME LandSound, NEW e \in Entries, L!Watch(e)
  PROVE  LandSound'
<1>1. UNCHANGED <<base, fetched, branch, remote, job>>
  BY DEF L!Watch
<1>2. entry \in [Entries -> L!Entry] /\ revising \subseteq Entries /\ job \in L!Job
  BY DEF LandSound, L!TypeOK
<1> DEFINE human == [entry EXCEPT ![e].state = "human-owned"]
<1>3. human \in [Entries -> L!Entry] /\ \A q \in Entries : SameWork(entry[q], human[q])
  BY <1>2, OneState DEF LandStates
<1>4. \A q \in Entries : SameWork(entry[q], entry[q])
  BY DEF SameWork
<1> HIDE DEF human
<1>5. entry' \in {entry, human} /\ revising' \in {revising, revising \cup {e}}
  BY DEF L!Watch, human
<1>6. entry' \in [Entries -> L!Entry] /\ \A q \in Entries : SameWork(entry[q], entry'[q])
  BY <1>2, <1>3, <1>4, <1>5
<1>7. revising' \subseteq Entries /\ \A q \in revising' : entry[q].rounds < MaxRounds
  BY <1>2 DEF L!Watch, LandSound, Own
<1>8. JobSound'
  BY <1>1, <1>6 DEF LandSound, JobSound, SameWork
<1>9. DOMAIN remote' = Entries /\ \A q \in Entries : remote'[q] \subseteq DOMAIN branch[q]
  BY <1>1 DEF LandSound, L!TypeOK
<1>10. QED
  BY <1>1, <1>2, <1>6, <1>7, <1>8, <1>9, LandQuiet

(* A step that keeps what the branches have and only adds to it.            *)
LEMMA LandGrows ==
  ASSUME LandSound, UNCHANGED base, fetched' \in {fetched, Len(base)},
         DOMAIN branch' = Entries, L!BranchKept,
         \A o \in Entries : /\ DOMAIN branch'[o] \subseteq L!Suffixes
                            /\ \A s \in DOMAIN branch'[o] : branch'[o][s] \in L!Branch,
         DOMAIN remote' = Entries, \A o \in Entries : remote'[o] \subseteq DOMAIN branch'[o],
         entry' \in [Entries -> L!Entry],
         \A o \in Entries : /\ entry'[o].as = entry[o].as /\ entry'[o].recon = entry[o].recon
                            /\ entry'[o].suffix = entry'[o].count
                            /\ entry'[o].suffix \in DOMAIN branch'[o]
                            /\ L!Original \subseteq entry'[o].judged,
         revising' \subseteq Entries, \A o \in revising' : entry'[o].rounds < MaxRounds,
         job' \in L!Job, JobSound'
  PROVE  LandSound'
<1>1. /\ fetched \in 0..Len(base) /\ Len(base) \in Nat /\ fetched' \in 0..Len(base)
      /\ fetched <= fetched' /\ Len(base) <= MaxBase
  BY DEF LandSound, L!TypeOK
<1>2. L!TypeOK'
  BY <1>1 DEF LandSound, L!TypeOK, L!Landing, L!Branch, L!Job, L!Entry, L!Suffixes, L!Patches
<1>3. ASSUME NEW o \in Entries
      PROVE  Own(o)'
  <2>1. Own(o)
    BY DEF LandSound
  <2>2. entry[o].recon <= fetched'
    <3>1. entry[o].recon \in Nat /\ entry[o].recon <= fetched
      BY <2>1, Numbers DEF Own
    <3>2. QED
      BY <1>1, <3>1
  <2>3. /\ 0 \in DOMAIN branch'[o] /\ branch[o][0].patches \subseteq branch'[o][0].patches
    BY <2>1 DEF L!BranchKept, Own
  <2>4. QED
    BY <2>1, <2>2, <2>3 DEF Own, L!Original
<1>4. IdsAreParts'
  BY DEF LandSound, IdsAreParts
<1>5. L!EntryTellsLanding'
  <2>1. \A o \in Entries : entry'[o].as = entry[o].as /\ entry'[o].recon = entry[o].recon
    OBVIOUS
  <2>2. L!CleanIsWhole'
    BY <2>1 DEF LandSound, L!EntryTellsLanding, L!CleanIsWhole, L!Original
  <2>3. L!NothingSkipped'
    BY <2>1 DEF LandSound, L!EntryTellsLanding, L!NothingSkipped, L!IdsOf, L!HostIds, L!Original
  <2>4. QED
    BY <2>2, <2>3 DEF L!EntryTellsLanding
<1>6. QED
  BY <1>2, <1>3, <1>4, <1>5 DEF LandSound

(* The first branch gains a patch.                                          *)
LEMMA FirstGrows ==
  ASSUME LandSound, NEW e \in Entries, NEW Q \in SUBSET L!Patches,
         branch[e][0].patches \subseteq Q, branch' = [branch EXCEPT ![e][0].patches = Q]
  PROVE  /\ DOMAIN branch' = Entries /\ L!BranchKept
         /\ \A o \in Entries : /\ DOMAIN branch'[o] = DOMAIN branch[o]
                               /\ \A s \in DOMAIN branch'[o] : branch'[o][s] \in L!Branch
<1> DEFINE b == branch[e]
           x == b[0]
           y == [x EXCEPT !.patches = Q]
           c == [b EXCEPT ![0] = y]
<1>1. DOMAIN branch = Entries /\ 0 \in DOMAIN b /\ \A s \in DOMAIN b : b[s] \in L!Branch
  BY DEF LandSound, L!TypeOK, Own
<1>2. y \in L!Branch /\ y.onto = x.onto /\ y.patches = Q
  BY <1>1 DEF L!Branch
<1>3. branch' = [branch EXCEPT ![e] = c]
  BY <1>1
<1>4. x.patches \subseteq Q /\ x = b[0]
  OBVIOUS
<1> HIDE DEF x, y
<1>5. /\ DOMAIN c = DOMAIN b /\ c[0] = y
      /\ \A s \in DOMAIN b : s # 0 => c[s] = b[s]
  BY <1>1
<1> HIDE DEF c
<1>6. DOMAIN branch' = Entries /\ branch'[e] = c /\ \A o \in Entries : o # e => branch'[o] = branch[o]
  BY <1>1, <1>3
<1>7. /\ DOMAIN branch'[e] = DOMAIN b
      /\ \A s \in DOMAIN b : /\ branch'[e][s] \in L!Branch
                             /\ branch'[e][s].onto = b[s].onto
                             /\ b[s].patches \subseteq branch'[e][s].patches
  <2> SUFFICES ASSUME NEW s \in DOMAIN b
               PROVE  c[s] \in L!Branch /\ c[s].onto = b[s].onto /\ b[s].patches \subseteq c[s].patches
    BY <1>5, <1>6
  <2>1. CASE s = 0
    BY <1>2, <1>4, <1>5, <2>1
  <2>2. CASE s # 0
    BY <1>1, <1>5, <2>2
  <2>3. QED
    BY <2>1, <2>2
<1>8. \A o \in Entries : o # e => \A s \in DOMAIN branch[o] : branch[o][s] \in L!Branch
  BY DEF LandSound, L!TypeOK
<1>9. L!BranchKept
  <2> SUFFICES ASSUME NEW o \in Entries, NEW s \in DOMAIN branch[o]
               PROVE  /\ s \in DOMAIN branch'[o] /\ branch'[o][s].onto = branch[o][s].onto
                      /\ branch[o][s].patches \subseteq branch'[o][s].patches
    BY DEF L!BranchKept
  <2>1. CASE o = e
    BY <1>7, <2>1
  <2>2. CASE o # e
    BY <1>6, <2>2
  <2>3. QED
    BY <2>1, <2>2
<1>10. QED
  BY <1>6, <1>7, <1>8, <1>9

(* Somebody commits in the worktree.                                        *)
LEMMA LandForeign ==
  ASSUME LandSound, NEW e \in Entries, L!ForeignCommit(e)
  PROVE  LandSound' /\ L!BranchKept
<1>1. PICK p \in L!Patches : branch' = [branch EXCEPT ![e][0].patches = @ \cup {p}]
  BY DEF L!ForeignCommit
<1> DEFINE Q == branch[e][0].patches \cup {p}
<1>2. UNCHANGED <<base, fetched, entry, remote, job, revising>>
  BY DEF L!ForeignCommit
<1>3. branch[e][0] \in L!Branch
  BY DEF LandSound, L!TypeOK, Own
<1>4. Q \in SUBSET L!Patches /\ branch[e][0].patches \subseteq Q
  BY <1>3 DEF L!Branch
<1>5. branch' = [branch EXCEPT ![e][0].patches = Q]
  BY <1>1
<1> HIDE DEF Q
<1>6. /\ DOMAIN branch' = Entries /\ L!BranchKept
      /\ \A o \in Entries : /\ DOMAIN branch'[o] = DOMAIN branch[o]
                            /\ \A s \in DOMAIN branch'[o] : branch'[o][s] \in L!Branch
  BY <1>4, <1>5, FirstGrows
<1>7. /\ DOMAIN remote' = Entries /\ entry' \in [Entries -> L!Entry] /\ revising' \subseteq Entries
      /\ job' \in L!Job /\ fetched' \in {fetched, Len(base)}
  BY <1>2 DEF LandSound, L!TypeOK
<1>8. \A o \in Entries : /\ entry'[o].suffix = entry'[o].count
                         /\ entry'[o].suffix \in DOMAIN branch'[o]
                         /\ remote'[o] \subseteq DOMAIN branch'[o]
                         /\ DOMAIN branch'[o] \subseteq L!Suffixes
                         /\ L!Original \subseteq entry'[o].judged
  BY <1>2, <1>6 DEF LandSound, L!TypeOK, Own
<1>9. (\A o \in revising' : entry'[o].rounds < MaxRounds) /\ JobSound'
  BY <1>2, <1>6, <1>7 DEF LandSound, Own, JobSound
<1>10. LandSound'
  BY <1>2, <1>6, <1>7, <1>8, <1>9, LandGrows
<1>11. QED
  BY <1>6, <1>10

LEMMA OneMore ==
  ASSUME NEW m \in Nat, NEW c \in 0..m, c < m
  PROVE  c + 1 \in 0..m
  OBVIOUS

LEMMA SameBranches ==
  ASSUME LandSound, UNCHANGED branch
  PROVE  /\ DOMAIN branch' = Entries /\ L!BranchKept
         /\ \A o \in Entries : /\ DOMAIN branch'[o] \subseteq L!Suffixes
                               /\ \A s \in DOMAIN branch'[o] : branch'[o][s] \in L!Branch
  BY DEF LandSound, L!TypeOK, L!BranchKept, L!Suffixes, L!Branch

(* A revision ends: a round more, and the head it was republished with.     *)
LEMMA LandRevised ==
  ASSUME LandSound, NEW e \in Entries, L!Revised(e)
  PROVE  LandSound' /\ L!BranchKept
<1> DEFINE x == entry[e]
           b0 == branch[e][0].patches
           y == [x EXCEPT !.rounds = @ + 1]
           done == [entry EXCEPT ![e].rounds = @ + 1]
<1>1. UNCHANGED <<base, fetched, job>> /\ revising' = revising \ {e}
  BY DEF L!Revised
<1>2. /\ entry \in [Entries -> L!Entry] /\ x \in L!Entry /\ x.rounds < MaxRounds
      /\ L!Original \subseteq x.judged /\ L!Original \subseteq b0
  BY DEF LandSound, L!TypeOK, Own, L!Revised
<1>3. y \in L!Entry /\ y.as = x.as /\ y.recon = x.recon /\ y.suffix = x.suffix
      /\ y.count = x.count /\ y.judged = x.judged
  <2> DEFINE r == x.rounds + 1
  <2>1. r \in 0..MaxRounds
    BY <1>2, EntryFields, LandAssumption, OneMore
  <2>2. y = [x EXCEPT !.rounds = r]
    OBVIOUS
  <2> HIDE DEF r, x, y
  <2>3. QED
    BY <1>2, <2>1, <2>2 DEF L!Entry
<1>4. done = [entry EXCEPT ![e] = y]
  BY <1>2
<1> HIDE DEF y, done
<1>5. done \in [Entries -> L!Entry] /\ done[e] = y /\ \A o \in Entries : o # e => done[o] = entry[o]
  BY <1>2, <1>3, <1>4
<1>6. /\ revising' \subseteq Entries /\ job' \in L!Job /\ fetched' \in {fetched, Len(base)}
      /\ \A o \in revising' : o # e /\ entry[o].rounds < MaxRounds
  BY <1>1 DEF LandSound, L!TypeOK, Own
<1>7. CASE entry' \in {entry, done} /\ UNCHANGED <<branch, remote>>
  <2>1. \A o \in Entries : /\ entry'[o].as = entry[o].as /\ entry'[o].recon = entry[o].recon
                           /\ entry'[o].suffix = entry[o].suffix /\ entry'[o].count = entry[o].count
                           /\ entry'[o].judged = entry[o].judged
                           /\ o # e => entry'[o] = entry[o]
    BY <1>3, <1>5, <1>7
  <2>2. entry' \in [Entries -> L!Entry]
    BY <1>2, <1>5, <1>7
  <2>3. \A o \in Entries : /\ entry'[o].suffix = entry'[o].count
                           /\ entry'[o].suffix \in DOMAIN branch'[o]
                           /\ L!Original \subseteq entry'[o].judged
                           /\ remote'[o] \subseteq DOMAIN branch'[o]
    BY <1>7, <2>1 DEF LandSound, L!TypeOK, Own
  <2>4. JobSound' /\ DOMAIN remote' = Entries
    BY <1>1, <1>7, <2>1 DEF LandSound, JobSound
  <2>5. \A o \in revising' : entry'[o].rounds < MaxRounds
    BY <1>6, <2>1
  <2>6. LandSound'
    BY <1>1, <1>6, <1>7, <2>1, <2>2, <2>3, <2>4, <2>5, LandGrows, SameBranches
  <2>7. QED
    BY <1>7, <2>6, SameBranches
<1>8. ASSUME NEW p \in L!Patches \ b0,
             branch' = [branch EXCEPT ![e][0].patches = b0 \cup {p}],
             entry' = [done EXCEPT ![e].judged = b0 \cup {p}],
             remote' = [remote EXCEPT ![e] = @ \cup {0}]
      PROVE  LandSound' /\ L!BranchKept
  <2> DEFINE Q == b0 \cup {p}
             z == [y EXCEPT !.judged = Q]
  <2>1. branch[e][0] \in L!Branch /\ 0 \in DOMAIN branch[e]
    BY DEF LandSound, L!TypeOK, Own
  <2>2. Q \in SUBSET L!Patches /\ branch[e][0].patches \subseteq Q /\ L!Original \subseteq Q
    BY <1>2, <2>1 DEF L!Branch
  <2>3. branch' = [branch EXCEPT ![e][0].patches = Q]
    BY <1>8
  <2>4. entry' = [done EXCEPT ![e] = z]
    BY <1>5, <1>8
  <2> HIDE DEF Q
  <2>5. /\ DOMAIN branch' = Entries /\ L!BranchKept
        /\ \A o \in Entries : /\ DOMAIN branch'[o] = DOMAIN branch[o]
                              /\ \A s \in DOMAIN branch'[o] : branch'[o][s] \in L!Branch
    BY <2>2, <2>3, FirstGrows
  <2>6. z \in L!Entry /\ z.as = x.as /\ z.recon = x.recon /\ z.suffix = x.suffix
        /\ z.count = x.count /\ z.judged = Q
    BY <1>3, <2>2 DEF L!Entry
  <2> HIDE DEF z
  <2>7. entry' \in [Entries -> L!Entry] /\ entry'[e] = z /\ \A o \in Entries : o # e => entry'[o] = entry[o]
    BY <1>5, <2>4, <2>6
  <2>8. \A o \in Entries : /\ entry'[o].as = entry[o].as /\ entry'[o].recon = entry[o].recon
                           /\ entry'[o].suffix = entry[o].suffix /\ entry'[o].count = entry[o].count
                           /\ L!Original \subseteq entry'[o].judged
    BY <2>2, <2>6, <2>7 DEF LandSound, Own
  <2>9. \A o \in Entries : /\ entry'[o].suffix = entry'[o].count
                           /\ entry'[o].suffix \in DOMAIN branch'[o]
                           /\ DOMAIN branch'[o] \subseteq L!Suffixes
    BY <2>5, <2>8 DEF LandSound, L!TypeOK, Own
  <2>10. DOMAIN remote' = Entries /\ \A o \in Entries : remote'[o] \subseteq DOMAIN branch'[o]
    BY <1>8, <2>1, <2>5 DEF LandSound, L!TypeOK
  <2>11. JobSound' /\ \A o \in revising' : entry'[o].rounds < MaxRounds
    BY <1>1, <1>6, <2>5, <2>7, <2>8 DEF LandSound, JobSound
  <2>12. LandSound'
    BY <1>1, <1>6, <2>5, <2>7, <2>8, <2>9, <2>10, <2>11, LandGrows
  <2>13. QED
    BY <2>5, <2>12
<1>9. QED
  BY <1>7, <1>8 DEF L!Revised, done

LEMMA CycleEnds ==
  ASSUME LandSound
  PROVE  L!CycleOver \in L!Job /\ L!CycleOver.pc \in {"idle", "after"}
<1>1. job \in L!Job /\ L!NoJob \in L!Job /\ L!NoJob.pc = "idle"
  BY NextTurn DEF LandSound, L!TypeOK
<1>2. 0 \in L!Suffixes
  BY LandAssumption DEF L!Suffixes
<1> DEFINE k == [job EXCEPT !.pc = "after", !.e = None, !.suffix = 0]
<1>3. k \in L!Job /\ k.pc = "after"
  BY <1>1, <1>2 DEF L!Job
<1> HIDE DEF k
<1>4. L!CycleOver \in {L!NoJob, k}
  BY DEF L!CycleOver, k
<1>5. QED
  BY <1>1, <1>3, <1>4

(* The branch that was cut is checked, and the entry shows it or the cycle  *)
(* has failed.                                                              *)
LEMMA LandVerified ==
  ASSUME LandSound, L!Verify
  PROVE  LandSound' /\ L!BranchKept
<1> DEFINE o == job.e
           n == job.suffix
           x == entry[o]
           c == x.count + 1
           y == [x EXCEPT !.suffix = n, !.count = c, !.state = "published"]
           shown == [entry EXCEPT ![o].suffix = n, ![o].count = @ + 1, ![o].state = "published"]
<1>1. /\ UNCHANGED <<base, fetched, branch, revising>> /\ job' = L!CycleOver
      /\ remote' \in {remote, [remote EXCEPT ![o] = @ \cup {n}]}
      /\ entry' \in {entry, shown} /\ job.pc = "verify"
  BY DEF L!Verify
<1>2. /\ job \in L!Job /\ entry \in [Entries -> L!Entry] /\ o \in Entries
      /\ n = c /\ x.count < MaxCycles /\ n \in DOMAIN branch[o] /\ n \in L!Suffixes
  BY <1>1 DEF LandSound, L!TypeOK, JobSound, L!Job
<1>3. c \in 0..MaxCycles
  BY <1>2, EntryFields, LandAssumption, OneMore
<1>4. shown = [entry EXCEPT ![o] = y]
  BY <1>2
<1>5. x \in L!Entry
  BY <1>2
<1> HIDE DEF c, x, n, o, shown
<1>6. /\ y \in L!Entry /\ y.as = x.as /\ y.recon = x.recon /\ y.judged = x.judged
      /\ y.rounds = x.rounds /\ y.suffix = n /\ y.count = n
  BY <1>2, <1>3, <1>5 DEF L!Entry
<1> HIDE DEF y
<1>7. /\ shown \in [Entries -> L!Entry] /\ shown[o] = y
      /\ \A q \in Entries : q # o => shown[q] = entry[q]
  BY <1>2, <1>4, <1>6
<1>8. \A q \in Entries : /\ shown[q].as = entry[q].as /\ shown[q].recon = entry[q].recon
                         /\ shown[q].judged = entry[q].judged
                         /\ shown[q].rounds = entry[q].rounds
                         /\ shown[q].suffix = shown[q].count
                         /\ shown[q].suffix \in DOMAIN branch[q]
  <2> SUFFICES ASSUME NEW q \in Entries
               PROVE  /\ shown[q].as = entry[q].as /\ shown[q].recon = entry[q].recon
                      /\ shown[q].judged = entry[q].judged
                      /\ shown[q].rounds = entry[q].rounds
                      /\ shown[q].suffix = shown[q].count
                      /\ shown[q].suffix \in DOMAIN branch[q]
    OBVIOUS
  <2>1. CASE q = o
    BY <1>2, <1>6, <1>7, <2>1 DEF x
  <2>2. CASE q # o
    BY <1>7, <2>2 DEF LandSound, L!TypeOK, Own
  <2>3. QED
    BY <2>1, <2>2
<1>9. \A q \in Entries : /\ entry'[q].as = entry[q].as /\ entry'[q].recon = entry[q].recon
                         /\ entry'[q].rounds = entry[q].rounds
                         /\ L!Original \subseteq entry'[q].judged
                         /\ entry'[q].suffix = entry'[q].count
                         /\ entry'[q].suffix \in DOMAIN branch[q]
  <2>1. CASE entry' = entry
    BY <2>1 DEF LandSound, L!TypeOK, Own
  <2>2. CASE entry' = shown
    BY <1>8, <2>2 DEF LandSound, Own
  <2>3. QED
    BY <1>1, <2>1, <2>2
<1>10. entry' \in [Entries -> L!Entry]
  BY <1>1, <1>2, <1>7
<1>11. DOMAIN remote' = Entries /\ \A q \in Entries : remote'[q] \subseteq DOMAIN branch[q]
  BY <1>1, <1>2 DEF LandSound, L!TypeOK
<1>12. job' \in L!Job /\ JobSound'
  BY <1>1, CycleEnds DEF JobSound
<1>13. /\ revising' \subseteq Entries /\ \A q \in revising' : entry'[q].rounds < MaxRounds
  BY <1>1, <1>9 DEF LandSound, L!TypeOK, Own
<1>14. L!BranchKept /\ DOMAIN branch' = Entries
       /\ \A q \in Entries : /\ DOMAIN branch'[q] \subseteq L!Suffixes
                             /\ \A s \in DOMAIN branch'[q] : branch'[q][s] \in L!Branch
  BY <1>1, SameBranches
<1>15. LandSound'
  BY <1>1, <1>9, <1>10, <1>11, <1>12, <1>13, <1>14, LandGrows
<1>16. QED
  BY <1>14, <1>15

(* A branch is cut beside those there are.                                  *)
LEMMA BranchAdded ==
  ASSUME LandSound, NEW o \in Entries, NEW n \in L!Suffixes, n \notin DOMAIN branch[o],
         NEW new \in L!Branch, branch' = L!WithBranch(o, n, new)
  PROVE  /\ DOMAIN branch' = Entries /\ L!BranchKept /\ n \in DOMAIN branch'[o]
         /\ \A q \in Entries : /\ DOMAIN branch[q] \subseteq DOMAIN branch'[q]
                               /\ DOMAIN branch'[q] \subseteq L!Suffixes
                               /\ \A s \in DOMAIN branch'[q] : branch'[q][s] \in L!Branch
<1> DEFINE b == branch[o]
           c == [s \in DOMAIN b \cup {n} |-> IF s = n THEN new ELSE b[s]]
<1>1. DOMAIN branch = Entries /\ DOMAIN b \subseteq L!Suffixes /\ \A s \in DOMAIN b : b[s] \in L!Branch
  BY DEF LandSound, L!TypeOK
<1>2. branch' = [branch EXCEPT ![o] = c]
  BY DEF L!WithBranch
<1>3. /\ DOMAIN c = DOMAIN b \cup {n} /\ c[n] = new /\ \A s \in DOMAIN b : c[s] = b[s]
  OBVIOUS
<1> HIDE DEF c
<1>4. DOMAIN branch' = Entries /\ branch'[o] = c /\ \A q \in Entries : q # o => branch'[q] = branch[q]
  BY <1>1, <1>2
<1>5. L!BranchKept
  <2> SUFFICES ASSUME NEW q \in Entries, NEW s \in DOMAIN branch[q]
               PROVE  s \in DOMAIN branch'[q] /\ branch'[q][s] = branch[q][s]
    BY DEF L!BranchKept
  <2>1. QED
    BY <1>3, <1>4
<1>6. ASSUME NEW q \in Entries
      PROVE  /\ DOMAIN branch[q] \subseteq DOMAIN branch'[q]
             /\ DOMAIN branch'[q] \subseteq L!Suffixes
             /\ \A s \in DOMAIN branch'[q] : branch'[q][s] \in L!Branch
  <2>1. CASE q = o
    <3>1. \A s \in DOMAIN c : c[s] \in L!Branch
      BY <1>1, <1>3
    <3>2. QED
      BY <1>1, <1>3, <1>4, <2>1, <3>1
  <2>2. CASE q # o
    BY <1>4, <2>2 DEF LandSound, L!TypeOK
  <2>3. QED
    BY <2>1, <2>2
<1>7. QED
  BY <1>3, <1>4, <1>5, <1>6

LEMMA RebasedBranch ==
  ASSUME LandSound, NEW b \in L!Branch, NEW new \in L!Rebased(b)
  PROVE  new \in L!Branch
<1>1. PICK Q \in {b.patches} \cup {(b.patches \ {2}) \cup {q} : q \in L!Patches \ b.patches} :
        new = [b EXCEPT !.onto = Len(base), !.patches = Q]
  BY DEF L!Rebased
<1> DEFINE n == Len(base)
<1>2. n \in 0..MaxBase
  <2>1. n \in Nat /\ n <= MaxBase /\ MaxBase \in Nat
    BY LandAssumption DEF LandSound, L!TypeOK
  <2> HIDE DEF n
  <2>2. QED
    BY <2>1
<1>3. Q \in SUBSET L!Patches
  BY DEF L!Branch
<1>4. new = [b EXCEPT !.onto = n, !.patches = Q]
  BY <1>1
<1> HIDE DEF n
<1>5. QED
  BY <1>2, <1>3, <1>4 DEF L!Branch

LEMMA LandCut ==
  ASSUME LandSound, L!Cut
  PROVE  LandSound' /\ L!BranchKept
<1> DEFINE o == job.e
           n == job.suffix
           old == branch[o][entry[o].suffix]
<1>1. job.pc = "cut" /\ UNCHANGED <<base, entry, remote, revising>>
  BY DEF L!Cut
<1>2. /\ job \in L!Job /\ entry \in [Entries -> L!Entry] /\ o \in Entries /\ n \in L!Suffixes
      /\ entry[o].count < MaxCycles /\ n = entry[o].count + 1 /\ old \in L!Branch
  BY <1>1 DEF LandSound, L!TypeOK, JobSound, L!Job
<1>3. /\ DOMAIN remote' = Entries /\ revising' \subseteq Entries /\ entry' \in [Entries -> L!Entry]
      /\ \A q \in revising' : entry'[q].rounds < MaxRounds
      /\ \A q \in Entries : /\ entry'[q].as = entry[q].as /\ entry'[q].recon = entry[q].recon
                            /\ entry'[q].suffix = entry'[q].count
                            /\ entry'[q].suffix \in DOMAIN branch[q]
                            /\ L!Original \subseteq entry'[q].judged
                            /\ remote'[q] \subseteq DOMAIN branch[q]
  BY <1>1 DEF LandSound, L!TypeOK, Own
<1>4. ASSUME fetched' \in {fetched, Len(base)}, DOMAIN branch' = Entries, L!BranchKept,
             \A q \in Entries : /\ DOMAIN branch[q] \subseteq DOMAIN branch'[q]
                                /\ DOMAIN branch'[q] \subseteq L!Suffixes
                                /\ \A s \in DOMAIN branch'[q] : branch'[q][s] \in L!Branch,
             job' \in L!Job, JobSound'
      PROVE  LandSound' /\ L!BranchKept
  <2>1. \A q \in Entries : /\ entry'[q].suffix \in DOMAIN branch'[q]
                           /\ remote'[q] \subseteq DOMAIN branch'[q]
    BY <1>3, <1>4
  <2>2. LandSound'
    BY <1>1, <1>3, <1>4, <2>1, LandGrows
  <2>3. QED
    BY <1>4, <2>2
<1>5. /\ L!CycleOver \in L!Job /\ L!CycleOver.pc \in {"idle", "after"}
      /\ L!NoJob \in L!Job /\ L!NoJob.pc = "idle"
  BY <1>2, CycleEnds, NextTurn
<1>6. CASE job' \in {L!CycleOver, L!NoJob} /\ UNCHANGED <<fetched, branch>>
  <2>1. job' \in L!Job /\ JobSound'
    BY <1>5, <1>6 DEF JobSound
  <2>2. \A q \in Entries : DOMAIN branch[q] \subseteq DOMAIN branch'[q]
    BY <1>6
  <2>3. QED
    BY <1>4, <1>6, <2>1, <2>2, SameBranches
<1>7. CASE /\ n \notin DOMAIN branch[o] /\ fetched' = Len(base)
           /\ branch' = L!WithBranch(o, n, old) /\ job' = L!CycleOver
  <2>1. job' \in L!Job /\ JobSound'
    BY <1>5, <1>7 DEF JobSound
  <2> HIDE DEF o, n, old
  <2>2. QED
    BY <1>2, <1>4, <1>7, <2>1, BranchAdded
<1>8. ASSUME n \notin DOMAIN branch[o], fetched' = Len(base), NEW new \in L!Rebased(old),
             branch' = L!WithBranch(o, n, new), job' = [job EXCEPT !.pc = "verify"]
      PROVE  LandSound' /\ L!BranchKept
  <2>1. new \in L!Branch
    BY <1>2, RebasedBranch
  <2> HIDE DEF old
  <2>2. job' \in L!Job /\ job'.e = o /\ job'.suffix = n
    BY <1>2, <1>8 DEF L!Job
  <2> HIDE DEF o, n
  <2>3. /\ DOMAIN branch' = Entries /\ L!BranchKept /\ n \in DOMAIN branch'[o]
        /\ \A q \in Entries : /\ DOMAIN branch[q] \subseteq DOMAIN branch'[q]
                              /\ DOMAIN branch'[q] \subseteq L!Suffixes
                              /\ \A s \in DOMAIN branch'[q] : branch'[q][s] \in L!Branch
    BY <1>2, <1>8, <2>1, BranchAdded
  <2>4. JobSound'
    BY <1>1, <1>2, <2>2, <2>3 DEF JobSound
  <2>5. QED
    BY <1>4, <1>8, <2>2, <2>3, <2>4
<1>9. QED
  BY <1>1, <1>6, <1>7, <1>8 DEF L!Cut

(* Every step of the cycles and of the people.                              *)
LEMMA LandStep ==
  ASSUME LandSound, L!Next
  PROVE  LandSound' /\ L!BranchKept
<1>1. Busy \subseteq Entries
  BY LandAssumption
<1>2. CASE L!People
  <2>1. ASSUME NEW e \in Entries, NEW clash \in SUBSET Busy,
               L!MergeCommit(e, clash \ {e}) \/ L!Squash(e, clash \ {e}) \/ L!Pick(e, clash \ {e})
        PROVE  LandSound' /\ L!BranchKept
    <3>1. clash \ {e} \in SUBSET Entries
      BY <1>1
    <3>2. LandSound'
      BY <2>1, <3>1, LandMerged
    <3>3. UNCHANGED branch
      BY <2>1 DEF L!MergeCommit, L!Squash, L!Pick, L!Land
    <3>4. QED
      BY <3>2, <3>3, SameBranches
  <2>2. ASSUME NEW e \in Busy, L!Stray(e)
        PROVE  LandSound' /\ L!BranchKept
    <3>1. LandSound'
      BY <1>1, <2>2, LandMerged
    <3>2. UNCHANGED branch
      BY <2>2 DEF L!Stray, L!Land
    <3>3. QED
      BY <3>1, <3>2, SameBranches
  <2>3. ASSUME NEW e \in Busy, L!DeleteBranch(e)
        PROVE  LandSound' /\ L!BranchKept
    <3>1. LandSound'
      BY <1>1, <2>3, LandDeleted
    <3>2. UNCHANGED branch
      BY <2>3 DEF L!DeleteBranch
    <3>3. QED
      BY <3>1, <3>2, SameBranches
  <2>4. ASSUME NEW e \in Busy, L!ForeignCommit(e)
        PROVE  LandSound' /\ L!BranchKept
    BY <1>1, <2>4, LandForeign
  <2>5. QED
    BY <1>2, <2>1, <2>2, <2>3, <2>4 DEF L!People
<1>3. CASE L!Reconcile \/ L!Fetch \/ L!Decide \/ L!AfterLand \/ L!Restart
  <2>1. LandSound'
    BY <1>3, LandReconciles, LandFetches, LandDecides, LandFollows, LandRestarts
  <2>2. UNCHANGED branch
    BY <1>3 DEF L!Reconcile, L!Fetch, L!Decide, L!AfterLand, L!Restart
  <2>3. QED
    BY <2>1, <2>2, SameBranches
<1>4. CASE L!Cut \/ L!Verify
  BY <1>4, LandCut, LandVerified
<1>5. ASSUME NEW e \in Busy, L!RebaseCommand(e) \/ L!Watch(e)
      PROVE  LandSound' /\ L!BranchKept
  <2>1. LandSound'
    BY <1>1, <1>5, LandRebased, LandWatches
  <2>2. UNCHANGED branch
    BY <1>5 DEF L!RebaseCommand, L!Watch
  <2>3. QED
    BY <2>1, <2>2, SameBranches
<1>6. ASSUME NEW e \in Busy, L!Revised(e)
      PROVE  LandSound' /\ L!BranchKept
  BY <1>1, <1>6, LandRevised
<1>7. QED
  BY <1>2, <1>3, <1>4, <1>5, <1>6 DEF L!Next

LEMMA LandBegins ==
  ASSUME L!Init
  PROVE  LandSound
<1> DEFINE x == [state |-> "published", as |-> "", suffix |-> 0, count |-> 0,
                 recon |-> 0, judged |-> L!Original, rounds |-> 0]
           b == [onto |-> 0, patches |-> L!Original]
<1>1. /\ base = <<>> /\ fetched = 0 /\ job = L!NoJob /\ revising = {}
      /\ entry = [e \in Entries |-> x]
      /\ branch = [e \in Entries |-> [s \in {0} |-> b]]
      /\ remote = [e \in Entries |-> {0}]
  BY DEF L!Init
<1>2. /\ L!Original \subseteq L!Patches /\ 0 \in 0..MaxCycles /\ 0 \in 0..MaxBase
      /\ 0 \in 0..MaxRounds /\ 0 \in L!Suffixes
  BY LandAssumption DEF L!Original, L!Patches, L!Suffixes
<1>3. x \in L!Entry /\ b \in L!Branch
  BY <1>2 DEF L!Entry, L!Branch
<1>4. /\ x.judged = L!Original /\ x.suffix = 0 /\ x.count = 0 /\ x.recon = 0 /\ x.as = ""
      /\ b.patches = L!Original
  OBVIOUS
<1> HIDE DEF x, b
<1>5. \A e \in Entries : entry[e] = x /\ DOMAIN branch[e] = {0} /\ branch[e][0] = b /\ remote[e] = {0}
  BY <1>1
<1>6. L!NoJob \in L!Job /\ L!NoJob.pc = "idle"
  <2>1. QED
    BY <1>2 DEF L!NoJob, L!Job
<1>7. Len(base) = 0 /\ base \in Seq(L!Landing)
  BY <1>1
<1>8. Len(base) <= MaxBase /\ fetched \in 0..Len(base)
  BY <1>1, <1>7, LandAssumption
<1>9. L!TypeOK
  BY <1>1, <1>2, <1>3, <1>4, <1>5, <1>6, <1>7, <1>8 DEF L!TypeOK
<1>10. \A e \in Entries : Own(e)
  <2> SUFFICES ASSUME NEW e \in Entries PROVE Own(e)
    OBVIOUS
  <2>1. /\ entry[e].judged = L!Original /\ branch[e][0].patches = L!Original /\ 0 \in DOMAIN branch[e]
        /\ entry[e].suffix = 0 /\ entry[e].count = 0 /\ entry[e].recon = 0 /\ e \notin revising
    BY <1>1, <1>4, <1>5
  <2>2. entry[e].recon <= fetched
    <3>1. 0 <= 0
      OBVIOUS
    <3>2. QED
      BY <1>1, <2>1, <3>1
  <2>3. QED
    BY <2>1, <2>2 DEF Own
<1>11. IdsAreParts /\ JobSound
  BY <1>1, <1>6, <1>7 DEF IdsAreParts, JobSound
<1>12. L!EntryTellsLanding
  <2>1. \A e \in Entries : entry[e].as = "" /\ entry[e].recon = 0
    BY <1>4, <1>5
  <2>2. L!CleanIsWhole
    BY <2>1 DEF L!CleanIsWhole
  <2>3. 1..0 = {}
    OBVIOUS
  <2>4. L!NothingSkipped
    BY <2>1, <2>3, Zenon DEF L!NothingSkipped
  <2>5. QED
    BY <2>2, <2>4 DEF L!EntryTellsLanding
<1>13. QED
  BY <1>1, <1>9, <1>10, <1>11, <1>12 DEF LandSound

(* In every run of the land and rebase cycles.                              *)
LEMMA LandHoldsAlways == TicketsSpec => []LandHolds
<1>1. TicketsInit => LandHolds
  BY LandBegins DEF TicketsInit, LandHolds
<1>2. LandHolds /\ [TicketsNext]_ticketsVars => LandHolds'
  <2> SUFFICES ASSUME LandHolds, [TicketsNext]_ticketsVars, which = "land"
               PROVE  LandSound'
    BY DEF LandHolds, TicketsNext, ticketsVars
  <2>1. LandSound
    BY DEF LandHolds
  <2>2. CASE UNCHANGED ticketsVars
    <3>1. UNCHANGED <<base, fetched, entry, branch, remote, job, revising>>
      BY <2>2 DEF ticketsVars, landVars
    <3>2. /\ \A o \in Entries : SameWork(entry[o], entry'[o])
          /\ \A o \in revising' : entry[o].rounds < MaxRounds
          /\ entry' \in [Entries -> L!Entry] /\ revising' \subseteq Entries
          /\ DOMAIN remote' = Entries /\ \A o \in Entries : remote'[o] \subseteq DOMAIN branch[o]
      BY <2>1, <3>1 DEF LandSound, L!TypeOK, SameWork, Own, L!Entry, L!Suffixes, L!Patches
    <3>3. job' \in L!Job /\ JobSound'
      BY <2>1, <3>1 DEF LandSound, L!TypeOK, JobSound
    <3>4. QED
      BY <2>1, <3>1, <3>2, <3>3, LandQuiet
  <2>3. CASE TicketsNext
    BY <2>1, <2>3, LandStep DEF TicketsNext
  <2>4. QED
    BY <2>2, <2>3
<1>3. QED
  BY <1>1, <1>2, PTL DEF TicketsSpec

(* The land and rebase cycles keep the types of what they write.            *)
THEOREM LandTypes == TicketsSpec => [](which = "land" => L!TypeOK)
<1>1. LandHolds => (which = "land" => L!TypeOK)
  BY DEF LandHolds, LandSound
<1>2. QED
  BY <1>1, LandHoldsAlways, PTL

(* An entry that landed clean has all its work in the base, in whatever     *)
(* parts it came; and what shows work of an entry is behind its mark only if*)
(* it was recognised.                                                       *)
THEOREM EntryTellsLandingAlways == TicketsSpec => []EntryTellsLanding
<1>1. LandHolds => EntryTellsLanding
  BY DEF LandHolds, LandSound, EntryTellsLanding
<1>2. QED
  BY <1>1, LandHoldsAlways, PTL

(* No cycle, no revision and no crash takes from a branch that is there.    *)
THEOREM OpenBranchKeptAlways == TicketsSpec => OpenBranchKept
<1>1. LandHolds /\ [TicketsNext]_ticketsVars => [which = "land" => L!BranchKept]_landVars
  <2> SUFFICES ASSUME LandHolds, [TicketsNext]_ticketsVars, which = "land", ~UNCHANGED landVars
               PROVE  L!BranchKept
    OBVIOUS
  <2>1. L!Next
    BY DEF TicketsNext, ticketsVars
  <2>2. QED
    BY <2>1, LandStep DEF LandHolds
<1>2. QED
  BY <1>1, LandHoldsAlways, PTL DEF TicketsSpec, OpenBranchKept

-----------------------------------------------------------------------------
(* The worktrees.                                                           *)

First == {<<t, 0>> : t \in W!WorkedOn}
Seen  == First \cup {W!Shared, W!Own, <<"herdr", 0>>, <<"layers", 0>>}
Tree  == [there : BOOLEAN, listed : BOOLEAN, locked : BOOLEAN, meta : BOOLEAN, dirty : BOOLEAN,
          branch : {W!NoBranch} \cup First]
Places == {"idle", "creating", "adding", "sealing", "failed", "provisioned", "setup", "installing",
           "work", "checked", "committing", "refused", "over"}
Runner == [at : Places, branch : {W!NoBranch} \cup First, sha : SUBSET Seen, clean : SUBSET Seen]
Row   == [closed : BOOLEAN, named : BOOLEAN]
Op    == [kind : {"none", "gc", "drop", "sibling"}, todo : Seq(W!WorkedOn), done : SUBSET W!WorkedOn,
          tip : Nat, book : [W!WorkedOn -> Row]]

TreeTypes ==
  /\ config \subseteq Seen
  /\ private \in [W!WorkedOn -> BOOLEAN]
  /\ tree \in [W!WorkedOn -> Tree]
  /\ tip \in [W!Branches -> Nat] /\ published \in [W!Branches -> Nat]
  /\ run \in [Runs -> Runner]
  /\ row \in [W!WorkedOn -> Row]
  /\ op \in Op
  /\ unwritten \subseteq W!WorkedOn

(* A ticket's first branch is there with its tree, and bounded.             *)
Stands(t) ==
  /\ tree[t].there <=> tip[<<t, 0>>] # W!NoTip
  /\ tree[t].there => tree[t].branch = <<t, 0>>
  /\ tree[t].dirty => tip[<<t, 0>>] < MaxWork
  /\ tip[<<t, 0>>] <= W!NoTip
  /\ kinds[t] = "main" => tree[t].there

(* Who writes trees and configuration holds the repository's lock.          *)
Locks(r) ==
  /\ run[r].at \in {"creating", "adding", "sealing", "installing", "committing"} => lock = r
  /\ run[r].at \in {"creating", "adding", "sealing"} => kinds[Ticket[r]] \notin {"main", "herdr"}
  /\ run[r].at = "adding" => ~tree[Ticket[r]].there
  /\ run[r].at \notin {"idle", "creating", "failed"} => run[r].branch = <<Ticket[r], 0>>

Removing == op.kind \in {"drop", "sibling"}
Collecting == op.kind = "gc"
Gone(t) == t \in unwritten \cup op.done

(* What an operation has found out still holds when it acts on it.          *)
Operates ==
  /\ ~Collecting => op.done = {}
  /\ Removing =>
       LET t == Head(op.todo) IN
       /\ op.todo = <<t>> /\ t \in W!WorkedOn /\ tree[t].there
       /\ op.tip <= tip[<<t, 0>>] /\ op.tip <= published[<<t, 0>>]
       /\ op.kind = "sibling" => kinds[t] = "sibling"
  /\ Collecting =>
       /\ \A i \in 1..Len(op.todo) : /\ tree[op.todo[i]].there \/ op.todo[i] \in unwritten
                                     /\ op.todo[i] \notin op.done
       /\ \A i, j \in 1..Len(op.todo) : op.todo[i] = op.todo[j] => i = j

(* An entry, on disk or in a collection's copy, names a tree that is there. *)
NamesTree(t) ==
  /\ row[t].named => (tree[t].there \/ Gone(t)) /\ kinds[t] # "sibling"
  /\ Collecting /\ op.book[t].named => (tree[t].there \/ Gone(t)) /\ kinds[t] # "sibling"

(* A tree that is being made is made by one run, and no collection that     *)
(* would not be remembered is to remove it.                                 *)
Making(r) == run[r].at \in {"sealing", "provisioned"}
Makes(r) ==
  LET t == Ticket[r] IN
  Making(r) /\ kinds[t] \notin {"main", "sibling"} /\ t \notin unwritten =>
    /\ tree[t].there
    /\ row[t].named => t \in op.done
    /\ Collecting => /\ op.book[t].named => t \in op.done
                     /\ \A i \in 1..Len(op.todo) : op.todo[i] # t
    /\ \A other \in Runs : Ticket[other] = t /\ Making(other) => other = r

Kept ==
  /\ TreeTypes
  /\ \A t \in W!WorkedOn : Stands(t) /\ NamesTree(t)
  /\ \A r \in Runs : Locks(r) /\ Makes(r)
  /\ Operates
  /\ W!UnpushedIsKept
KeptHolds == which = "workspaces" => Kept

LEMMA TreeBounds ==
  /\ W!NoTip \in Nat /\ W!NoTip # 0 /\ MaxWork \in Nat
  /\ \A n \in Nat : n < MaxWork => n + 1 <= W!NoTip /\ n + 1 # W!NoTip /\ n # W!NoTip
  BY WorkspacesAssumption DEF W!NoTip

LEMMA SameCount == \A set : W!Cardinality(set) = Cardinality(set)
  BY DEF W!Cardinality, Cardinality

LEMMA FirstBranches ==
  ASSUME NEW t \in W!WorkedOn
  PROVE  /\ <<t, 0>> \in W!Branches /\ <<t, 0>> \in First /\ <<t, 0>> \in Seen
         /\ \A other : <<other, 0>> = <<t, 0>> => other = t
<1>1. W!Cardinality(Runs) \in Nat
  BY WorkspacesAssumption, SameCount, FS_CardinalityType
<1>2. 0 \in 0 .. W!Cardinality(Runs)
  BY <1>1
<1>3. QED
  BY <1>2 DEF W!Branches, First, Seen

(* The first name of a branch is free whenever its ticket has no tree.      *)
LEMMA FirstIsFree ==
  ASSUME NEW t \in W!WorkedOn, tip[<<t, 0>>] = W!NoTip
  PROVE  W!chooseBranch(t) = <<t, 0>>
<1> DEFINE N == 0 .. W!Cardinality(Runs)
           Free(n) == tip[<<t, n>>] = W!NoTip /\ \A m \in 0 .. n - 1 : tip[<<t, m>>] # W!NoTip
<1>1. W!Cardinality(Runs) \in Nat
  BY WorkspacesAssumption, SameCount, FS_CardinalityType
<1>2. 0 \in N /\ Free(0)
  BY <1>1
<1>3. \A n \in N : n # 0 => ~Free(n)
  <2> SUFFICES ASSUME NEW n \in N, n # 0 PROVE ~Free(n)
    OBVIOUS
  <2>1. 0 \in 0 .. n - 1
    BY <1>1
  <2>2. QED
    BY <2>1
<1>4. W!chooseBranch(t) = <<t, CHOOSE n \in N : Free(n)>>
  BY DEF W!chooseBranch
<1> HIDE DEF N, Free
<1>5. (CHOOSE n \in N : Free(n)) = 0
  BY <1>2, <1>3
<1>6. QED
  BY <1>4, <1>5

(* A set of tickets as a sequence: each of them once.                       *)
LEMMA AsSequence ==
  ASSUME NEW set, set \subseteq W!WorkedOn
  PROVE  /\ W!SetToSeq(set) \in Seq(W!WorkedOn)
         /\ \A i \in 1..Len(W!SetToSeq(set)) : W!SetToSeq(set)[i] \in set
         /\ \A i, j \in 1..Len(W!SetToSeq(set)) : W!SetToSeq(set)[i] = W!SetToSeq(set)[j] => i = j
<1>1. IsFiniteSet(W!WorkedOn)
  <2> DEFINE f == [r \in Runs |-> Ticket[r]]
  <2>1. f \in Surjection(Runs, W!WorkedOn)
    BY DEF Surjection, W!WorkedOn
  <2>2. QED
    BY <2>1, FS_Surjection, WorkspacesAssumption
<1>2. IsFiniteSet(set)
  BY <1>1, FS_Subset
<1> DEFINE n == Cardinality(set)
<1>3. n \in Nat /\ ExistsBijection(1..n, set)
  BY <1>2, FS_CardinalityType
<1> HIDE DEF n
<1>4. PICK g \in [1..n -> set] : W!IsInjective(g)
  BY <1>3 DEF ExistsBijection, Bijection, Injection, IsInjective, W!IsInjective
<1> DEFINE s == W!SetToSeq(set)
<1>5. s = CHOOSE f \in [1..n -> set] : W!IsInjective(f)
  BY SameCount DEF W!SetToSeq, n
<1> HIDE DEF s
<1>6. s \in [1..n -> set] /\ W!IsInjective(s)
  BY <1>4, <1>5
<1>7. s \in Seq(set) /\ Len(s) = n /\ DOMAIN s = 1..n
  BY <1>3, <1>6
<1>8. s \in Seq(W!WorkedOn)
  BY <1>7
<1>9. QED
  BY <1>6, <1>7, <1>8 DEF s, W!IsInjective

LEMMA ItsTicket ==
  ASSUME NEW r \in Runs
  PROVE  Ticket[r] \in W!WorkedOn
  BY DEF W!WorkedOn

(* A step of one run, or of nobody's, that makes and removes no tree.       *)
LEMMA Moves ==
  ASSUME Kept, NEW r, TreeTypes', Operates',
         kinds' = kinds, unwritten' = unwritten, lost' = lost,
         op' = op \/ (~Collecting /\ op'.kind # "gc" /\ op'.done = {}),
         \A t \in W!WorkedOn : tree'[t].there = tree[t].there /\ row'[t].named = row[t].named,
         \A t \in W!WorkedOn : Stands(t)',
         \A o \in Runs : o # r => run'[o] = run[o] /\ (lock = o => lock' = o),
         r \in Runs => /\ Locks(r)'
                       /\ run'[r].at \in {"sealing", "provisioned"} => Making(r) \/ kinds[Ticket[r]] = "main"
  PROVE  Kept'
<1>1. \A o \in Runs : Making(o)' => Making(o) \/ kinds[Ticket[o]] = "main"
  BY DEF Making
<1>2. \A t \in W!WorkedOn : NamesTree(t)'
  <2>1. op'.done = op.done /\ (op'.kind = "gc" => op' = op)
    BY DEF Kept, Operates
  <2>2. \A t \in W!WorkedOn : NamesTree(t)
    BY DEF Kept
  <2>3. QED
    BY <2>1, <2>2 DEF NamesTree, Gone, Collecting
<1>3. \A o \in Runs : Makes(o)'
  <2> SUFFICES ASSUME NEW o \in Runs PROVE Makes(o)'
    OBVIOUS
  <2>1. op'.done = op.done /\ (op'.kind = "gc" => op' = op)
    BY DEF Kept, Operates
  <2>2. Makes(o) /\ Ticket[o] \in W!WorkedOn
    BY ItsTicket DEF Kept
  <2>3. QED
    BY <1>1, <2>1, <2>2 DEF Makes, Collecting
<1>4. \A o \in Runs : Locks(o)'
  <2> SUFFICES ASSUME NEW o \in Runs, o # r PROVE Locks(o)'
    OBVIOUS
  <2>1. Locks(o) /\ Ticket[o] \in W!WorkedOn
    BY ItsTicket DEF Kept
  <2>2. QED
    BY <2>1 DEF Locks
<1>5. W!UnpushedIsKept'
  BY DEF Kept, W!UnpushedIsKept
<1>6. QED
  BY <1>2, <1>3, <1>4, <1>5 DEF Kept

(* What an operation has found out holds while branches only grow.          *)
LEMMA StillOperates ==
  ASSUME Kept, op' = op, kinds' = kinds, unwritten' = unwritten,
         \A t \in W!WorkedOn : tree'[t].there = tree[t].there,
         tip' \in [W!Branches -> Nat], published' \in [W!Branches -> Nat],
         \A t \in W!WorkedOn : tip[<<t, 0>>] <= tip'[<<t, 0>>] /\ published[<<t, 0>>] <= published'[<<t, 0>>]
  PROVE  Operates'
<1>1. Operates /\ op \in Op /\ tip \in [W!Branches -> Nat] /\ published \in [W!Branches -> Nat]
  BY DEF Kept, TreeTypes
<1>2. Removing => Operates'
  <2> SUFFICES ASSUME Removing PROVE Operates'
    OBVIOUS
  <2> DEFINE t == Head(op.todo)
             b == <<t, 0>>
  <2>1. /\ op.todo = <<t>> /\ t \in W!WorkedOn /\ tree[t].there
        /\ op.tip <= tip[b] /\ op.tip <= published[b]
        /\ op.kind = "sibling" => kinds[t] = "sibling"
        /\ op.done = {} /\ ~Collecting
    BY <1>1 DEF Operates, Removing, Collecting
  <2>2. op.tip \in Nat /\ b \in W!Branches
    BY <1>1, <2>1, FirstBranches DEF Op
  <2> HIDE DEF b
  <2>3. tip[b] <= tip'[b] /\ published[b] <= published'[b]
    BY <2>1 DEF b
  <2>4. op.tip <= tip'[b] /\ op.tip <= published'[b]
    BY <1>1, <2>1, <2>2, <2>3
  <2>5. QED
    BY <2>1, <2>4 DEF Operates, Removing, Collecting, b
<1>3. ~Removing => Operates'
  <2>1. \A i \in 1..Len(op.todo) : op.todo[i] \in W!WorkedOn
    BY <1>1 DEF Op
  <2>2. QED
    BY <1>1, <2>1 DEF Operates, Removing, Collecting
<1>4. QED
  BY <1>2, <1>3

(* The same, when branches, entries and operations are as they were.        *)
LEMMA Steps ==
  ASSUME Kept, NEW r, TreeTypes',
         kinds' = kinds, unwritten' = unwritten, lost' = lost, op' = op, tip' = tip, published' = published,
         \A t \in W!WorkedOn : /\ tree'[t].there = tree[t].there /\ row'[t].named = row[t].named
                               /\ tree[t].there => tree'[t].branch = tree[t].branch
                               /\ tree'[t].dirty => tree[t].dirty,
         \A o \in Runs : o # r => run'[o] = run[o] /\ (lock = o => lock' = o),
         r \in Runs => /\ Locks(r)'
                       /\ run'[r].at \in {"sealing", "provisioned"} => Making(r) \/ kinds[Ticket[r]] = "main"
  PROVE  Kept'
<1>1. \A t \in W!WorkedOn : Stands(t)'
  BY DEF Kept, Stands
<1>2. Operates'
  <2>1. \A t \in W!WorkedOn : tip[<<t, 0>>] \in Nat /\ published[<<t, 0>>] \in Nat
    BY FirstBranches DEF Kept, TreeTypes
  <2>2. QED
    BY <2>1, StillOperates DEF TreeTypes
<1>3. QED
  BY <1>1, <1>2, Moves

LEMMA Types == Kept => TreeTypes
  BY DEF Kept

(* A run moves.                                                             *)
LEMMA AtMoves ==
  ASSUME TreeTypes, NEW r \in Runs, NEW where \in Places, W!At(r, where)
  PROVE  /\ run' \in [Runs -> Runner]
         /\ run'[r].at = where /\ run'[r].branch = run[r].branch
         /\ \A o \in Runs : o # r => run'[o] = run[o]
<1> DEFINE x == [run[r] EXCEPT !.at = where]
<1>1. run[r] \in Runner /\ run \in [Runs -> Runner]
  BY DEF TreeTypes
<1>2. x \in Runner /\ x.at = where /\ x.branch = run[r].branch
  BY <1>1 DEF Runner
<1>3. run' = [run EXCEPT ![r] = x]
  BY DEF W!At
<1> HIDE DEF x
<1>4. QED
  BY <1>1, <1>2, <1>3

LEMMA LockTaken ==
  ASSUME Kept, NEW r \in Runs, NEW from \in Places, NEW to \in Places, W!TakeLock(r, from, to), kinds' = kinds,
         from = "idle" => to = "creating" /\ kinds[Ticket[r]] \notin {"main", "herdr"},
         from # "idle" => from \in {"setup", "checked"} /\ to \in {"installing", "committing"}
  PROVE  Kept'
<1>1. /\ run[r].at = from /\ lock = "nobody" /\ lock' = r /\ W!At(r, to)
      /\ UNCHANGED <<config, private, tree, tip, published, row, op, ops, lost, unwritten>>
  BY DEF W!TakeLock, W!Nobody
<1>2. /\ run' \in [Runs -> Runner] /\ run'[r].at = to /\ run'[r].branch = run[r].branch
      /\ \A o \in Runs : o # r => run'[o] = run[o]
  BY <1>1, AtMoves, Types
<1>3. TreeTypes'
  BY <1>1, <1>2, Types DEF TreeTypes
<1>4. Locks(r)'
  <2>1. Locks(r)
    BY DEF Kept
  <2>2. QED
    BY <1>1, <1>2, <2>1 DEF Locks
<1>5. \A o \in Runs : lock # o
  BY <1>1, WorkspacesAssumption
<1>6. \A t \in W!WorkedOn : /\ tree'[t].there = tree[t].there /\ row'[t].named = row[t].named
                            /\ tree[t].there => tree'[t].branch = tree[t].branch
                            /\ tree'[t].dirty => tree[t].dirty
  BY <1>1
<1>7. run'[r].at \notin {"sealing", "provisioned"}
  BY <1>2
<1>8. QED
  BY <1>1, <1>2, <1>3, <1>4, <1>5, <1>6, <1>7, Steps

LEMMA ConfigTypes ==
  ASSUME TreeTypes, NEW t \in W!WorkedOn
  PROVE  W!computeConfigSha(t) \subseteq Seen /\ W!Edits(t) \subseteq Seen
  BY DEF TreeTypes, W!computeConfigSha, W!Edits, Seen

LEMMA PrunedTrees ==
  ASSUME NEW trees \in [W!WorkedOn -> Tree]
  PROVE  /\ W!Pruned(trees) \in [W!WorkedOn -> Tree]
         /\ \A t \in W!WorkedOn :
              /\ W!Pruned(trees)[t].there = trees[t].there
              /\ trees[t].there => W!Pruned(trees)[t] = trees[t]
              /\ W!Pruned(trees)[t].dirty => trees[t].dirty
<1>1. W!NoTree \in Tree /\ W!NoTree.there = FALSE /\ W!NoTree.dirty = FALSE
  BY DEF W!NoTree, Tree
<1>2. \A t \in W!WorkedOn : trees[t] \in Tree /\ trees[t].there \in BOOLEAN
  BY DEF Tree
<1>3. \A t \in W!WorkedOn :
        W!Pruned(trees)[t] = IF trees[t].there \/ trees[t].locked THEN trees[t] ELSE W!NoTree
  BY DEF W!Pruned
<1>4. W!Pruned(trees) \in [W!WorkedOn -> Tree]
  BY <1>1, <1>2 DEF W!Pruned
<1>5. QED
  BY <1>1, <1>2, <1>3, <1>4

LEMMA KeptChecks ==
  ASSUME Kept, NEW r \in Runs, W!CreateChecks(r)
  PROVE  Kept'
<1> DEFINE t == Ticket[r]
<1>1. /\ t \in W!WorkedOn /\ TreeTypes /\ Stands(t) /\ Locks(r) /\ run[r].at = "creating"
      /\ UNCHANGED <<config, private, tip, published, row, op, ops, lost, unwritten, kinds>>
  BY ItsTicket DEF Kept, W!CreateChecks
<1>2. lock = r /\ kinds[t] \notin {"main", "herdr"}
  BY <1>1 DEF Locks
<1>3. run[r] \in Runner /\ run \in [Runs -> Runner] /\ tree \in [W!WorkedOn -> Tree] /\ tree[t].there \in BOOLEAN
  BY <1>1 DEF TreeTypes, Tree
<1>4. CASE tree[t].there
  <2>1. run' = [run EXCEPT ![r].at = "failed"] /\ lock' = "nobody" /\ tree' = W!Pruned(tree)
    BY <1>4 DEF W!CreateChecks, W!Nobody
  <2>2. W!At(r, "failed") /\ "failed" \in Places
    BY <2>1 DEF W!At, Places
  <2>3. /\ run' \in [Runs -> Runner] /\ run'[r].at = "failed"
        /\ \A o \in Runs : o # r => run'[o] = run[o]
    BY <1>1, <2>2, AtMoves
  <2>4. /\ tree' \in [W!WorkedOn -> Tree]
        /\ \A o \in W!WorkedOn : /\ tree'[o].there = tree[o].there
                                 /\ tree[o].there => tree'[o] = tree[o]
                                 /\ tree'[o].dirty => tree[o].dirty
    BY <1>3, <2>1, PrunedTrees
  <2>5. TreeTypes'
    BY <1>1, <2>3, <2>4 DEF TreeTypes
  <2>6. Locks(r)'
    BY <2>3 DEF Locks
  <2>7. QED
    BY <1>1, <1>2, <2>3, <2>4, <2>5, <2>6, Steps
<1>5. CASE ~tree[t].there
  <2> DEFINE x == [run[r] EXCEPT !.at = "adding", !.branch = <<t, 0>>]
             trees == [tree EXCEPT ![t] = W!NoTree]
  <2>1. W!chooseBranch(t) = <<t, 0>>
    BY <1>1, <1>5, FirstIsFree DEF Stands
  <2>2. run' = [run EXCEPT ![r] = x] /\ lock' = lock /\ tree' = W!Pruned(trees)
    BY <1>5, <2>1 DEF W!CreateChecks
  <2>3. x \in Runner /\ x.at = "adding" /\ x.branch = <<t, 0>>
    BY <1>1, <1>3, FirstBranches DEF Runner, Places
  <2> HIDE DEF x
  <2>4. run' \in [Runs -> Runner] /\ run'[r] = x /\ \A o \in Runs : o # r => run'[o] = run[o]
    BY <1>3, <2>2, <2>3
  <2>5. W!NoTree \in Tree /\ W!NoTree.there = FALSE /\ W!NoTree.dirty = FALSE
    BY DEF W!NoTree, Tree
  <2>6. /\ trees \in [W!WorkedOn -> Tree] /\ trees[t] = W!NoTree
        /\ \A o \in W!WorkedOn : o # t => trees[o] = tree[o]
    BY <1>1, <1>3, <2>5
  <2> HIDE DEF trees
  <2>7. /\ tree' \in [W!WorkedOn -> Tree]
        /\ \A o \in W!WorkedOn : /\ tree'[o].there = trees[o].there
                                 /\ trees[o].there => tree'[o] = trees[o]
                                 /\ tree'[o].dirty => trees[o].dirty
    BY <2>2, <2>6, PrunedTrees
  <2>8. \A o \in W!WorkedOn : /\ tree'[o].there = tree[o].there
                              /\ tree[o].there => tree'[o].branch = tree[o].branch
                              /\ tree'[o].dirty => tree[o].dirty
    BY <1>1, <1>3, <1>5, <2>5, <2>6, <2>7
  <2>9. TreeTypes'
    BY <1>1, <2>4, <2>7 DEF TreeTypes
  <2>10. Locks(r)'
    BY <1>1, <1>2, <1>5, <2>2, <2>3, <2>4, <2>8 DEF Locks
  <2>11. run'[r].at \notin {"sealing", "provisioned"}
    BY <2>3, <2>4
  <2>12. QED
    BY <1>1, <2>2, <2>4, <2>8, <2>9, <2>10, <2>11, Steps
<1>6. QED
  BY <1>4, <1>5

LEMMA KeptSeals ==
  ASSUME Kept, NEW r \in Runs, W!CreateSeals(r)
  PROVE  Kept'
<1> DEFINE t == Ticket[r]
           y == [tree[t] EXCEPT !.locked = TRUE, !.meta = ~private[t]]
           w == IF private[t] THEN "failed" ELSE "provisioned"
           x == [run[r] EXCEPT !.at = w, !.sha = W!computeConfigSha(t), !.clean = W!Edits(t)]
<1>1. /\ t \in W!WorkedOn /\ TreeTypes /\ Locks(r) /\ run[r].at = "sealing"
      /\ tree' = [tree EXCEPT ![t] = y] /\ run' = [run EXCEPT ![r] = x] /\ lock' = "nobody"
      /\ UNCHANGED <<config, private, tip, published, row, op, ops, lost, unwritten, kinds>>
  BY ItsTicket DEF Kept, W!CreateSeals, W!Nobody
<1>2. /\ run[r] \in Runner /\ run \in [Runs -> Runner] /\ tree \in [W!WorkedOn -> Tree] /\ tree[t] \in Tree
      /\ private[t] \in BOOLEAN
  BY <1>1 DEF TreeTypes
<1>3. y \in Tree /\ y.there = tree[t].there /\ y.branch = tree[t].branch /\ y.dirty = tree[t].dirty
  BY <1>2 DEF Tree
<1>4. w \in {"failed", "provisioned"} /\ w \in Places
  BY DEF Places
<1>5. W!computeConfigSha(t) \in SUBSET Seen /\ W!Edits(t) \in SUBSET Seen
  BY <1>1, ConfigTypes
<1>6. x \in Runner /\ x.at = w /\ x.branch = run[r].branch
  BY <1>2, <1>4, <1>5 DEF Runner
<1> HIDE DEF y, w, x
<1>7. /\ run' \in [Runs -> Runner] /\ run'[r] = x /\ \A o \in Runs : o # r => run'[o] = run[o]
      /\ tree' \in [W!WorkedOn -> Tree] /\ tree'[t] = y /\ \A o \in W!WorkedOn : o # t => tree'[o] = tree[o]
  BY <1>1, <1>2, <1>3, <1>6
<1>8. \A o \in W!WorkedOn : /\ tree'[o].there = tree[o].there
                            /\ tree[o].there => tree'[o].branch = tree[o].branch
                            /\ tree'[o].dirty => tree[o].dirty
  BY <1>3, <1>7
<1>9. TreeTypes'
  BY <1>1, <1>7 DEF TreeTypes
<1>10. lock = r /\ Locks(r)' /\ Making(r)
  BY <1>1, <1>4, <1>6, <1>7 DEF Locks, Making
<1>11. QED
  BY <1>1, <1>7, <1>8, <1>9, <1>10, Steps

(* The steps of a run that writes neither its tree's place nor a branch.    *)
LEMMA KeptOwnSteps ==
  ASSUME Kept, kinds' = kinds, NEW r \in Runs,
         \/ W!SetupEnds(r) \/ W!assertNoDrift(r)
         \/ W!CreateStarts(r) \/ W!SetupStarts(r) \/ W!CheckpointLocks(r)
  PROVE  Kept'
<1>1. CASE W!CreateStarts(r)
  BY <1>1, LockTaken DEF W!CreateStarts, Places
<1>2. CASE W!SetupStarts(r)
  BY <1>2, LockTaken DEF W!SetupStarts, Places
<1>3. CASE W!CheckpointLocks(r)
  BY <1>3, LockTaken DEF W!CheckpointLocks, Places
<1>4. CASE W!SetupEnds(r) \/ W!assertNoDrift(r)
  <2>1. PICK where \in {"work", "failed", "checked", "refused"} : W!At(r, where)
    BY <1>4 DEF W!SetupEnds, W!assertNoDrift
  <2>2. where \in Places
    BY DEF Places
  <2>3. /\ run' \in [Runs -> Runner] /\ run'[r].at = where /\ run'[r].branch = run[r].branch
        /\ \A o \in Runs : o # r => run'[o] = run[o]
    BY <2>1, <2>2, AtMoves, Types
  <2>4. /\ UNCHANGED <<config, private, tree, tip, published, row, op, ops, lost, unwritten>>
        /\ run[r].at \in {"installing", "work"}
        /\ run[r].at = "installing" \/ lock' = lock
    BY <1>4 DEF W!SetupEnds, W!assertNoDrift
  <2>5. Locks(r) /\ TreeTypes
    BY DEF Kept
  <2>6. \A o \in Runs : o # r /\ lock = o => lock' = o
    BY <2>4, <2>5 DEF Locks
  <2>7. TreeTypes'
    BY <2>3, <2>4, <2>5 DEF TreeTypes
  <2>8. Locks(r)'
    BY <2>3, <2>4, <2>5 DEF Locks
  <2>9. run'[r].at \notin {"sealing", "provisioned"}
    BY <2>3
  <2>10. QED
    BY <2>3, <2>4, <2>6, <2>7, <2>8, <2>9, Steps
<1>5. QED
  BY <1>1, <1>2, <1>3, <1>4

LEMMA KeptMain ==
  ASSUME Kept, kinds' = kinds, NEW r \in Runs, W!workspaceOnMainCheckout(r)
  PROVE  Kept'
<1> DEFINE t == Ticket[r]
           x == [at |-> "provisioned", branch |-> tree[t].branch, sha |-> {<<"layers", 0>>}, clean |-> W!Edits(t)]
<1>1. /\ t \in W!WorkedOn /\ TreeTypes /\ Stands(t) /\ kinds[t] = "main" /\ run' = [run EXCEPT ![r] = x]
      /\ UNCHANGED <<config, private, tree, tip, published, lock, row, op, ops, lost, unwritten>>
  BY ItsTicket DEF Kept, W!workspaceOnMainCheckout
<1>2. tree[t].branch = <<t, 0>>
  BY <1>1 DEF Stands
<1>3. x \in Runner /\ x.at = "provisioned" /\ x.branch = <<t, 0>>
  BY <1>1, <1>2, ConfigTypes, FirstBranches DEF Runner, Places, Seen
<1> HIDE DEF x
<1>4. run' \in [Runs -> Runner] /\ run'[r] = x /\ \A o \in Runs : o # r => run'[o] = run[o]
  BY <1>1, <1>3 DEF TreeTypes
<1>5. TreeTypes'
  BY <1>1, <1>4 DEF TreeTypes
<1>6. Locks(r)'
  BY <1>3, <1>4 DEF Locks
<1>7. QED
  BY <1>1, <1>4, <1>5, <1>6, Steps

LEMMA KeptWorks ==
  ASSUME Kept, kinds' = kinds, NEW r \in Runs, W!Works(r)
  PROVE  Kept'
<1> DEFINE t == Ticket[r]
           y == [tree[t] EXCEPT !.dirty = TRUE]
<1>1. /\ t \in W!WorkedOn /\ TreeTypes /\ Locks(r) /\ run[r].at = "work" /\ tree[t].there
      /\ tip[run[r].branch] < MaxWork /\ tree' = [tree EXCEPT ![t] = y]
      /\ UNCHANGED <<config, private, tip, published, lock, run, row, op, ops, lost, unwritten>>
  BY ItsTicket DEF Kept, W!Works
<1>2. tree[t] \in Tree /\ tree \in [W!WorkedOn -> Tree]
  BY <1>1 DEF TreeTypes
<1>3. y \in Tree /\ y.there = tree[t].there /\ y.branch = tree[t].branch
  BY <1>2 DEF Tree
<1> HIDE DEF y
<1>4. /\ tree' \in [W!WorkedOn -> Tree] /\ tree'[t] = y /\ \A o \in W!WorkedOn : o # t => tree'[o] = tree[o]
  BY <1>1, <1>2, <1>3
<1>5. TreeTypes'
  BY <1>1, <1>4 DEF TreeTypes
<1>6. tip[<<t, 0>>] < MaxWork
  BY <1>1 DEF Locks
<1>7. \A o \in W!WorkedOn : tree'[o].there = tree[o].there /\ row'[o].named = row[o].named
  BY <1>1, <1>3, <1>4
<1>8. \A o \in W!WorkedOn : Stands(o)'
  <2> SUFFICES ASSUME NEW o \in W!WorkedOn PROVE Stands(o)'
    OBVIOUS
  <2>1. Stands(o)
    BY DEF Kept
  <2>2. QED
    BY <1>1, <1>3, <1>4, <1>6, <2>1 DEF Stands
<1>9. Operates'
  <2>1. \A o \in W!WorkedOn : tip[<<o, 0>>] \in Nat /\ published[<<o, 0>>] \in Nat
    BY <1>1, FirstBranches DEF TreeTypes
  <2>2. QED
    BY <1>1, <1>7, <2>1, StillOperates DEF TreeTypes
<1>10. Locks(r)' /\ (run'[r].at \notin {"sealing", "provisioned"})
  BY <1>1 DEF Locks
<1>11. QED
  BY <1>1, <1>5, <1>7, <1>8, <1>9, <1>10, Moves

(* Edits of configuration and closed entries concern no tree.               *)
LEMMA KeptEdits ==
  ASSUME Kept, kinds' = kinds, W!Edit \/ \E t \in W!WorkedOn : W!Closes(t)
  PROVE  Kept'
<1>1. TreeTypes
  BY DEF Kept
<1>2. /\ config' \subseteq Seen /\ private' \in [W!WorkedOn -> BOOLEAN] /\ row' \in [W!WorkedOn -> Row]
      /\ \A o \in W!WorkedOn : row'[o].named = row[o].named
      /\ UNCHANGED <<tree, tip, published, lock, run, op, lost, unwritten>>
  <2>1. CASE W!Edit
    <3>1. config' \subseteq Seen
      BY <1>1, <2>1 DEF W!Edit, TreeTypes, Seen
    <3>2. private' \in [W!WorkedOn -> BOOLEAN]
      <4>1. private' = private \/ \E r \in Runs : private' = [private EXCEPT ![Ticket[r]] = TRUE]
        BY <2>1 DEF W!Edit, W!Editors
      <4>2. QED
        BY <1>1, <4>1 DEF TreeTypes
    <3>3. QED
      BY <1>1, <2>1, <3>1, <3>2 DEF W!Edit, TreeTypes
  <2>2. ASSUME NEW t \in W!WorkedOn, W!Closes(t)
        PROVE  /\ row' \in [W!WorkedOn -> Row]
               /\ \A o \in W!WorkedOn : row'[o].named = row[o].named
    <3> DEFINE e == [row[t] EXCEPT !.closed = TRUE]
    <3>1. row[t] \in Row /\ row \in [W!WorkedOn -> Row] /\ row' = [row EXCEPT ![t] = e]
      BY <1>1, <2>2 DEF TreeTypes, W!Closes
    <3>2. e \in Row /\ e.named = row[t].named
      BY <3>1 DEF Row
    <3> HIDE DEF e
    <3>3. QED
      BY <3>1, <3>2
  <2>3. QED
    BY <1>1, <2>1, <2>2 DEF W!Closes, TreeTypes
<1>3. TreeTypes'
  BY <1>1, <1>2 DEF TreeTypes
<1>4. "nobody" \notin Runs
  BY WorkspacesAssumption
<1>5. QED
  BY <1>2, <1>3, <1>4, Steps

LEMMA KeptCommits ==
  ASSUME Kept, kinds' = kinds, NEW r \in Runs, W!checkpointCommit(r)
  PROVE  Kept'
<1> DEFINE t == Ticket[r]
           b == <<t, 0>>
           y == [tree[t] EXCEPT !.dirty = FALSE]
           w == IF tree[t].there THEN "work" ELSE "failed"
           n == tip[b] + 1
<1>1. /\ t \in W!WorkedOn /\ TreeTypes /\ Locks(r) /\ Stands(t) /\ run[r].at = "committing"
      /\ lock' = "nobody" /\ W!At(r, w) /\ tree' = [tree EXCEPT ![t] = y]
      /\ UNCHANGED <<config, private, published, row, op, ops, lost, unwritten>>
  BY ItsTicket DEF Kept, W!checkpointCommit, W!Nobody
<1>2. /\ tree[t] \in Tree /\ tree \in [W!WorkedOn -> Tree] /\ b \in W!Branches
      /\ tip \in [W!Branches -> Nat] /\ published \in [W!Branches -> Nat] /\ tip[b] \in Nat
  BY <1>1, FirstBranches DEF TreeTypes
<1>3. y \in Tree /\ y.there = tree[t].there /\ y.branch = tree[t].branch /\ y.dirty = FALSE
  BY <1>2 DEF Tree
<1>4. \/ tip' = tip
      \/ tip' = [tip EXCEPT ![b] = n] /\ tree[t].there /\ tree[t].dirty
  <2>1. tip' = IF tree[t].there /\ tree[t].dirty
               THEN [tip EXCEPT ![tree[t].branch] = tip[tree[t].branch] + 1] ELSE tip
    BY DEF W!checkpointCommit
  <2>2. tree[t].there => tree[t].branch = b
    BY <1>1 DEF Stands
  <2>3. QED
    BY <2>1, <2>2
<1>5. w \in {"work", "failed"} /\ w \in Places
  BY DEF Places
<1> HIDE DEF y, w, b, n
<1>6. /\ tree' \in [W!WorkedOn -> Tree] /\ tree'[t] = y /\ \A o \in W!WorkedOn : o # t => tree'[o] = tree[o]
  BY <1>1, <1>2, <1>3
<1>7. /\ run' \in [Runs -> Runner] /\ run'[r].at = w /\ run'[r].branch = run[r].branch
      /\ \A o \in Runs : o # r => run'[o] = run[o]
  BY <1>1, <1>5, AtMoves
<1>8. /\ tip' \in [W!Branches -> Nat] /\ tip[b] <= tip'[b]
      /\ \A o \in W!WorkedOn : o # t => tip'[<<o, 0>>] = tip[<<o, 0>>]
      /\ tip'[b] = W!NoTip <=> tip[b] = W!NoTip
      /\ tip'[b] <= W!NoTip
  <2>1. tip[b] <= W!NoTip
    BY <1>1 DEF Stands, b
  <2>2. CASE tip' = tip
    BY <1>2, <2>1, <2>2
  <2>3. CASE tip' = [tip EXCEPT ![b] = n] /\ tree[t].there /\ tree[t].dirty
    <3>1. tip[b] < MaxWork
      BY <1>1, <2>3 DEF Stands, b
    <3>2. n \in Nat /\ n <= W!NoTip /\ n # W!NoTip /\ tip[b] # W!NoTip /\ tip[b] <= n
      BY <1>2, <3>1, TreeBounds DEF n
    <3>3. tip' \in [W!Branches -> Nat] /\ tip'[b] = n
      BY <1>2, <2>3, <3>2
    <3>4. \A o \in W!WorkedOn : o # t => tip'[<<o, 0>>] = tip[<<o, 0>>]
      BY <1>1, <1>2, <2>3, FirstBranches DEF b
    <3>5. QED
      BY <3>2, <3>3, <3>4
  <2>4. QED
    BY <1>4, <2>2, <2>3
<1>9. TreeTypes'
  BY <1>1, <1>6, <1>7, <1>8 DEF TreeTypes
<1>10. \A o \in W!WorkedOn : tree'[o].there = tree[o].there /\ row'[o].named = row[o].named
  BY <1>1, <1>3, <1>6
<1>11. \A o \in W!WorkedOn : Stands(o)'
  <2> SUFFICES ASSUME NEW o \in W!WorkedOn PROVE Stands(o)'
    OBVIOUS
  <2>1. Stands(o)
    BY DEF Kept
  <2>2. CASE o = t
    BY <1>1, <1>3, <1>6, <1>8, <2>2 DEF Stands, b
  <2>3. CASE o # t
    BY <1>6, <1>8, <2>1, <2>3 DEF Stands
  <2>4. QED
    BY <2>2, <2>3
<1>12. Operates'
  <2>1. \A o \in W!WorkedOn : /\ tip[<<o, 0>>] <= tip'[<<o, 0>>]
                              /\ published[<<o, 0>>] <= published'[<<o, 0>>]
    <3> SUFFICES ASSUME NEW o \in W!WorkedOn
                 PROVE  tip[<<o, 0>>] <= tip'[<<o, 0>>] /\ published[<<o, 0>>] <= published'[<<o, 0>>]
      OBVIOUS
    <3>1. <<o, 0>> \in W!Branches
      BY FirstBranches
    <3>2. tip[<<o, 0>>] \in Nat /\ published[<<o, 0>>] \in Nat
      BY <1>2, <3>1
    <3>3. tip[<<o, 0>>] <= tip'[<<o, 0>>]
      <4>1. CASE o = t
        BY <1>8, <4>1 DEF b
      <4>2. CASE o # t
        BY <1>8, <3>2, <4>2
      <4>3. QED
        BY <4>1, <4>2
    <3>4. QED
      BY <1>1, <3>2, <3>3
  <2>2. QED
    BY <1>1, <1>2, <1>8, <1>10, <2>1, StillOperates
<1>13. \A o \in Runs : o # r => run'[o] = run[o] /\ (lock = o => lock' = o)
  BY <1>1, <1>7 DEF Locks
<1>14. Locks(r)' /\ run'[r].at \notin {"sealing", "provisioned"}
  BY <1>1, <1>5, <1>7 DEF Locks
<1>15. QED
  BY <1>1, <1>9, <1>10, <1>11, <1>12, <1>13, <1>14, Moves

LEMMA KeptPublishes ==
  ASSUME Kept, kinds' = kinds, NEW r \in Runs, W!publish(r)
  PROVE  Kept'
<1> DEFINE t == Ticket[r]
           b == <<t, 0>>
<1>1. /\ t \in W!WorkedOn /\ TreeTypes /\ Locks(r) /\ Stands(t) /\ run[r].at = "work"
      /\ UNCHANGED <<config, private, tree, tip, lock, row, op, ops, lost, unwritten>>
  BY ItsTicket DEF Kept, W!publish
<1>2. PICK where \in {"over", "refused"} : W!At(r, where)
  BY DEF W!publish
<1>3. where \in Places
  BY DEF Places
<1>4. /\ run' \in [Runs -> Runner] /\ run'[r].at = where /\ run'[r].branch = run[r].branch
      /\ \A o \in Runs : o # r => run'[o] = run[o]
  BY <1>1, <1>2, <1>3, AtMoves
<1>5. published' = published \/ published' = [published EXCEPT ![b] = tip[b]]
  BY <1>1 DEF W!publish, Stands
<1>6. /\ b \in W!Branches /\ tip \in [W!Branches -> Nat] /\ published \in [W!Branches -> Nat]
  BY <1>1, FirstBranches DEF TreeTypes
<1> HIDE DEF b
<1>7. published' \in [W!Branches -> Nat]
  BY <1>5, <1>6
<1>8. TreeTypes'
  BY <1>1, <1>4, <1>7 DEF TreeTypes
<1>9. \A o \in W!WorkedOn : Stands(o)'
  BY <1>1 DEF Kept, Stands
<1>10. Operates'
  <2>1. Operates
    BY DEF Kept
  <2>2. CASE Removing
    <3> DEFINE u == Head(op.todo)
               c == <<u, 0>>
    <3>1. /\ op.todo = <<u>> /\ u \in W!WorkedOn /\ tree[u].there
          /\ op.tip <= tip[c] /\ op.tip <= published[c]
          /\ op.kind = "sibling" => kinds[u] = "sibling"
          /\ op.done = {} /\ ~Collecting
      BY <2>1, <2>2 DEF Operates, Removing, Collecting
    <3>2. c \in W!Branches
      BY <3>1, FirstBranches
    <3> HIDE DEF c
    <3>3. op.tip <= published'[c]
      BY <1>5, <1>6, <3>1, <3>2
    <3>4. QED
      BY <1>1, <3>1, <3>3 DEF Operates, Removing, Collecting, c
  <2>3. CASE ~Removing
    BY <1>1, <2>1, <2>3 DEF Operates, Removing, Collecting
  <2>4. QED
    BY <2>2, <2>3
<1>11. Locks(r)' /\ run'[r].at \notin {"sealing", "provisioned"}
  BY <1>1, <1>4 DEF Locks
<1>12. QED
  BY <1>1, <1>4, <1>8, <1>9, <1>10, <1>11, Moves

(* A tree is made where there was none.                                     *)
MakesTree(r, t) ==
  /\ t = Ticket[r] /\ ~tree[t].there /\ kinds[t] # "main"
  /\ tree'[t].there /\ tree'[t].branch = <<t, 0>> /\ ~tree'[t].dirty /\ tip'[<<t, 0>>] = 0
  /\ \A o \in Runs : o # r => run'[o] = run[o] /\ (Ticket[o] = t => run[o].at # "adding")
  /\ \A o \in W!WorkedOn : o # t => /\ tree'[o] = tree[o] /\ tip'[<<o, 0>>] = tip[<<o, 0>>]
                                    /\ published'[<<o, 0>>] = published[<<o, 0>>]
  /\ lock' = lock /\ row' = row /\ op' = op /\ unwritten' = unwritten /\ lost' = lost

LEMMA Created ==
  ASSUME Kept, kinds' = kinds, NEW r \in Runs, NEW t, MakesTree(r, t), Locks(r)', TreeTypes'
  PROVE  Kept'
<1> USE DEF MakesTree
<1>1. t \in W!WorkedOn
  BY ItsTicket
<1>2. /\ Operates /\ \A o \in W!WorkedOn : Stands(o) /\ NamesTree(o)
      /\ \A o \in Runs : Locks(o) /\ Makes(o)
  BY DEF Kept
<1>3. \A o \in W!WorkedOn : Stands(o)'
  <2> SUFFICES ASSUME NEW o \in W!WorkedOn PROVE Stands(o)'
    OBVIOUS
  <2>1. CASE o = t
    <3>1. 0 <= W!NoTip /\ W!NoTip # 0
      BY TreeBounds
    <3>2. QED
      BY <2>1, <3>1 DEF Stands
  <2>2. CASE o # t
    BY <1>2, <2>2 DEF Stands
  <2>3. QED
    BY <2>1, <2>2
<1>4. \A o \in W!WorkedOn : NamesTree(o)'
  BY <1>2 DEF NamesTree, Gone, Collecting
<1>5. \A o \in Runs : Locks(o)'
  <2> SUFFICES ASSUME NEW o \in Runs, o # r PROVE Locks(o)'
    OBVIOUS
  <2>1. Locks(o) /\ Ticket[o] \in W!WorkedOn /\ run'[o] = run[o]
    BY <1>2, ItsTicket
  <2>2. run[o].at = "adding" => tree'[Ticket[o]] = tree[Ticket[o]]
    BY <2>1
  <2>3. QED
    BY <2>1, <2>2 DEF Locks
<1>6. Operates'
  <2>1. CASE Removing
    <3> DEFINE u == Head(op.todo)
    <3>1. u \in W!WorkedOn /\ u # t
      BY <1>2, <2>1 DEF Operates
    <3>2. tree'[u] = tree[u] /\ tip'[<<u, 0>>] = tip[<<u, 0>>] /\ published'[<<u, 0>>] = published[<<u, 0>>]
      BY <3>1
    <3>3. QED
      BY <1>2, <2>1, <3>1, <3>2 DEF Operates, Removing, Collecting
  <2>2. CASE ~Removing
    <3>1. \A i \in 1..Len(op.todo) : op.todo[i] \in W!WorkedOn
      BY DEF Kept, TreeTypes, Op
    <3>2. \A i \in 1..Len(op.todo) : tree[op.todo[i]].there => tree'[op.todo[i]].there
      BY <3>1
    <3>3. QED
      BY <1>2, <2>2, <3>2 DEF Operates, Removing, Collecting
  <2>3. QED
    BY <2>1, <2>2
<1>7. \A o \in Runs : o # r => (Making(o)' <=> Making(o))
  BY DEF Making
<1>8. ASSUME kinds[t] \notin {"main", "sibling"}, t \notin unwritten
      PROVE  \A o \in Runs : Ticket[o] = t => ~Making(o)
  BY <1>2, <1>8 DEF Makes
<1>9. \A o \in Runs : Makes(o)'
  <2> SUFFICES ASSUME NEW o \in Runs, kinds[Ticket[o]] \notin {"main", "sibling"}, Ticket[o] \notin unwritten,
                      Making(o)'
               PROVE  /\ tree'[Ticket[o]].there
                      /\ row[Ticket[o]].named => Ticket[o] \in op.done
                      /\ Collecting => /\ op.book[Ticket[o]].named => Ticket[o] \in op.done
                                       /\ \A i \in 1..Len(op.todo) : op.todo[i] # Ticket[o]
                      /\ \A other \in Runs : Ticket[other] = Ticket[o] /\ Making(other)' => other = o
    BY DEF Makes, Collecting
  <2>1. CASE o = r
    <3>1. NamesTree(t) /\ ~tree[t].there /\ t \notin unwritten
      BY <1>1, <1>2, <2>1
    <3>2. /\ row[t].named => t \in op.done
          /\ Collecting /\ op.book[t].named => t \in op.done
      BY <3>1 DEF NamesTree, Gone
    <3>3. Collecting => \A i \in 1..Len(op.todo) : op.todo[i] # t
      BY <1>2, <3>1 DEF Operates
    <3>4. \A other \in Runs : Ticket[other] = t /\ Making(other)' => other = r
      BY <1>7, <1>8, <2>1
    <3>5. QED
      BY <2>1, <3>2, <3>3, <3>4
  <2>2. CASE o # r
    <3>1. Making(o) /\ Makes(o)
      BY <1>2, <1>7, <2>2
    <3>2. Ticket[o] # t /\ Ticket[o] \in W!WorkedOn
      BY <1>8, <3>1, ItsTicket
    <3>3. \A other \in Runs : Ticket[other] = Ticket[o] /\ Making(other)' => Making(other)
      BY <1>7, <3>2
    <3>4. QED
      BY <3>1, <3>2, <3>3 DEF Makes
  <2>3. QED
    BY <2>1, <2>2
<1>10. W!UnpushedIsKept'
  BY DEF Kept, W!UnpushedIsKept
<1>11. QED
  BY <1>3, <1>4, <1>5, <1>6, <1>9, <1>10 DEF Kept

(* A branch is cut.                                                         *)
LEMMA BranchCut ==
  ASSUME NEW f \in [W!Branches -> Nat], NEW t \in W!WorkedOn
  PROVE  /\ [f EXCEPT ![<<t, 0>>] = 0] \in [W!Branches -> Nat]
         /\ [f EXCEPT ![<<t, 0>>] = 0][<<t, 0>>] = 0
         /\ \A o \in W!WorkedOn : o # t => [f EXCEPT ![<<t, 0>>] = 0][<<o, 0>>] = f[<<o, 0>>]
<1> DEFINE b == <<t, 0>>
<1>1. b \in W!Branches /\ \A o \in W!WorkedOn : o # t => <<o, 0>> # b
  BY FirstBranches
<1> HIDE DEF b
<1>2. /\ [f EXCEPT ![b] = 0] \in [W!Branches -> Nat] /\ [f EXCEPT ![b] = 0][b] = 0
      /\ \A c : c # b => [f EXCEPT ![b] = 0][c] = f[c]
  BY <1>1
<1>3. QED
  BY <1>1, <1>2 DEF b

LEMMA KeptAdds ==
  ASSUME Kept, kinds' = kinds, NEW r \in Runs, W!CreateAdds(r)
  PROVE  Kept'
<1> DEFINE t == Ticket[r]
           b == run[r].branch
           y == [W!NoTree EXCEPT !.there = TRUE, !.listed = TRUE, !.branch = b]
<1>1. /\ t \in W!WorkedOn /\ TreeTypes /\ Locks(r) /\ run[r].at = "adding" /\ W!At(r, "sealing")
      /\ tree' = [tree EXCEPT ![t] = y] /\ tip' = [tip EXCEPT ![b] = 0] /\ published' = [published EXCEPT ![b] = 0]
      /\ config' = config \cup {b} /\ private' = [private EXCEPT ![t] = FALSE]
      /\ UNCHANGED <<lock, row, op, ops, lost, unwritten>>
  BY ItsTicket DEF Kept, W!CreateAdds
<1>2. b = <<t, 0>> /\ lock = r /\ kinds[t] # "main" /\ ~tree[t].there
  BY <1>1 DEF Locks
<1>3. "sealing" \in Places
  BY DEF Places
<1>4. /\ run' \in [Runs -> Runner] /\ run'[r].at = "sealing" /\ run'[r].branch = b
      /\ \A o \in Runs : o # r => run'[o] = run[o]
  BY <1>1, <1>3, AtMoves
<1>5. y \in Tree /\ y.there /\ y.branch = <<t, 0>> /\ ~y.dirty
  BY <1>1, <1>2, FirstBranches DEF Tree, W!NoTree
<1> HIDE DEF y
<1>6. /\ tree' \in [W!WorkedOn -> Tree] /\ tree'[t] = y /\ \A o \in W!WorkedOn : o # t => tree'[o] = tree[o]
  BY <1>1, <1>5 DEF TreeTypes
<1>7. /\ tip' \in [W!Branches -> Nat] /\ published' \in [W!Branches -> Nat] /\ tip'[<<t, 0>>] = 0
      /\ \A o \in W!WorkedOn : o # t => /\ tip'[<<o, 0>>] = tip[<<o, 0>>]
                                        /\ published'[<<o, 0>>] = published[<<o, 0>>]
  BY <1>1, <1>2, BranchCut DEF TreeTypes
<1>8. TreeTypes'
  <2>1. config' \subseteq Seen /\ private' \in [W!WorkedOn -> BOOLEAN]
    BY <1>1, <1>2, FirstBranches DEF TreeTypes
  <2>2. QED
    BY <1>1, <1>4, <1>6, <1>7, <2>1 DEF TreeTypes
<1>9. \A o \in Runs : o # r => run[o].at # "adding"
  <2>1. \A o \in Runs : Locks(o)
    BY DEF Kept
  <2>2. QED
    BY <1>2, <2>1 DEF Locks
<1>10. Locks(r)'
  BY <1>1, <1>2, <1>4 DEF Locks
<1>11. MakesTree(r, t)
  BY <1>1, <1>2, <1>4, <1>5, <1>6, <1>7, <1>9 DEF MakesTree
<1> HIDE DEF b, t
<1>12. QED
  BY <1>8, <1>10, <1>11, Created

LEMMA KeptHerdr ==
  ASSUME Kept, kinds' = kinds, NEW r \in Runs, W!HerdrCreates(r)
  PROVE  Kept'
<1> DEFINE t == Ticket[r]
           b == W!chooseBranch(t)
           y == [W!NoTree EXCEPT !.there = TRUE, !.branch = b]
           x == [at |-> "provisioned", branch |-> b, sha |-> {<<"herdr", 0>>}, clean |-> W!Edits(t)]
<1>1. /\ t \in W!WorkedOn /\ TreeTypes /\ Stands(t) /\ kinds[t] = "herdr" /\ ~tree[t].there
      /\ run' = [run EXCEPT ![r] = x]
      /\ tree' = [tree EXCEPT ![t] = y] /\ tip' = [tip EXCEPT ![b] = 0] /\ published' = [published EXCEPT ![b] = 0]
      /\ UNCHANGED <<config, private, lock, row, op, ops, lost, unwritten>>
  BY ItsTicket DEF Kept, W!HerdrCreates
<1>2. b = <<t, 0>>
  BY <1>1, FirstIsFree DEF Stands
<1>3. y \in Tree /\ y.there /\ y.branch = <<t, 0>> /\ ~y.dirty
  BY <1>1, <1>2, FirstBranches DEF Tree, W!NoTree
<1>4. x \in Runner /\ x.at = "provisioned" /\ x.branch = <<t, 0>>
  BY <1>1, <1>2, ConfigTypes, FirstBranches DEF Runner, Places, Seen
<1> HIDE DEF y, x
<1>5. run' \in [Runs -> Runner] /\ run'[r] = x /\ \A o \in Runs : o # r => run'[o] = run[o]
  BY <1>1, <1>4 DEF TreeTypes
<1>6. /\ tree' \in [W!WorkedOn -> Tree] /\ tree'[t] = y /\ \A o \in W!WorkedOn : o # t => tree'[o] = tree[o]
  BY <1>1, <1>3 DEF TreeTypes
<1>7. /\ tip' \in [W!Branches -> Nat] /\ published' \in [W!Branches -> Nat] /\ tip'[<<t, 0>>] = 0
      /\ \A o \in W!WorkedOn : o # t => /\ tip'[<<o, 0>>] = tip[<<o, 0>>]
                                        /\ published'[<<o, 0>>] = published[<<o, 0>>]
  BY <1>1, <1>2, BranchCut DEF TreeTypes
<1>8. TreeTypes'
  BY <1>1, <1>5, <1>6, <1>7 DEF TreeTypes
<1>9. \A o \in Runs : Ticket[o] = t => run[o].at # "adding"
  <2>1. \A o \in Runs : Locks(o)
    BY DEF Kept
  <2>2. QED
    BY <1>1, <2>1 DEF Locks
<1>10. Locks(r)'
  BY <1>4, <1>5 DEF Locks
<1>11. MakesTree(r, t)
  BY <1>1, <1>2, <1>3, <1>5, <1>6, <1>7, <1>9 DEF MakesTree
<1> HIDE DEF b, t
<1>12. QED
  BY <1>8, <1>10, <1>11, Created

LEMMA KeptBinds ==
  ASSUME Kept, kinds' = kinds, NEW r \in Runs, W!bindQueueRun(r)
  PROVE  Kept'
<1> DEFINE t == Ticket[r]
           e == [closed |-> FALSE, named |-> TRUE]
<1>1. /\ t \in W!WorkedOn /\ TreeTypes /\ run[r].at = "provisioned" /\ row \in [W!WorkedOn -> Row]
      /\ row' = IF kinds[t] = "sibling" THEN row ELSE [row EXCEPT ![t] = e]
      /\ UNCHANGED <<config, private, tree, tip, published, lock, op, ops, lost, unwritten>>
  BY ItsTicket DEF Kept, TreeTypes, W!bindQueueRun
<1>2. PICK where \in {"work", "setup"} : W!At(r, where)
  BY DEF W!bindQueueRun
<1>3. where \in Places
  BY DEF Places
<1>4. /\ run' \in [Runs -> Runner] /\ run'[r].at = where /\ run'[r].branch = run[r].branch
      /\ \A o \in Runs : o # r => run'[o] = run[o]
  BY <1>1, <1>2, <1>3, AtMoves
<1>5. e \in Row /\ e.named
  BY DEF Row
<1> HIDE DEF e
<1>6. /\ row' \in [W!WorkedOn -> Row]
      /\ \A o \in W!WorkedOn : o # t \/ kinds[t] = "sibling" => row'[o] = row[o]
  BY <1>1, <1>5
<1>7. TreeTypes'
  BY <1>1, <1>4, <1>6 DEF TreeTypes
<1>8. Making(r) /\ \A o \in Runs : Making(o)' => Making(o) /\ o # r
  BY <1>1, <1>4 DEF Making
<1>9. \A o \in W!WorkedOn : Stands(o) /\ NamesTree(o)
  BY DEF Kept
<1>10. kinds[t] # "sibling" => tree[t].there \/ Gone(t)
  <2>1. Makes(r) /\ Stands(t)
    BY <1>1 DEF Kept
  <2>2. QED
    BY <1>8, <2>1 DEF Makes, Stands, Gone
<1>11. \A o \in W!WorkedOn : Stands(o)'
  BY <1>1, <1>9 DEF Stands
<1>12. \A o \in W!WorkedOn : NamesTree(o)'
  <2> SUFFICES ASSUME NEW o \in W!WorkedOn PROVE NamesTree(o)'
    OBVIOUS
  <2>1. CASE o # t \/ kinds[t] = "sibling"
    BY <1>1, <1>6, <1>9, <2>1 DEF NamesTree, Gone, Collecting
  <2>2. CASE o = t /\ kinds[t] # "sibling"
    BY <1>1, <1>9, <1>10, <2>2 DEF NamesTree, Gone, Collecting
  <2>3. QED
    BY <2>1, <2>2
<1>13. \A o \in Runs : Makes(o)'
  <2> SUFFICES ASSUME NEW o \in Runs PROVE Makes(o)'
    OBVIOUS
  <2>1. Makes(o) /\ Ticket[o] \in W!WorkedOn
    BY ItsTicket DEF Kept
  <2>2. CASE Ticket[o] # t \/ kinds[t] = "sibling"
    <3>1. row'[Ticket[o]] = row[Ticket[o]]
      BY <1>6, <2>1, <2>2
    <3>2. QED
      BY <1>1, <1>8, <2>1, <3>1 DEF Makes, Collecting
  <2>3. CASE Ticket[o] = t /\ kinds[t] # "sibling"
    BY <1>1, <1>8, <2>1, <2>3 DEF Makes
  <2>4. QED
    BY <2>2, <2>3
<1>14. \A o \in Runs : Locks(o)'
  <2> SUFFICES ASSUME NEW o \in Runs PROVE Locks(o)'
    OBVIOUS
  <2>1. Locks(o)
    BY DEF Kept
  <2>2. QED
    BY <1>1, <1>4, <2>1 DEF Locks
<1>15. Operates' /\ W!UnpushedIsKept'
  BY <1>1 DEF Kept, Operates, Removing, Collecting, W!UnpushedIsKept
<1>16. QED
  BY <1>7, <1>11, <1>12, <1>13, <1>14, <1>15 DEF Kept

LEMMA NoOpTypes ==
  /\ W!NoOp \in Op /\ W!NoOp.kind = "none" /\ W!NoOp.done = {}
  /\ W!NoOp.todo = <<>> /\ W!NoOp.book = [t \in W!WorkedOn |-> W!NoEntry] /\ W!NoEntry \in Row
<1>1. W!NoEntry \in Row
  BY DEF W!NoEntry, Row
<1>2. [t \in W!WorkedOn |-> W!NoEntry] \in [W!WorkedOn -> Row]
  BY <1>1
<1>3. <<>> \in Seq(W!WorkedOn)
  OBVIOUS
<1>4. QED
  BY <1>1, <1>2, <1>3, TreeBounds DEF W!NoOp, Op

LEMMA NothingOperates ==
  ASSUME op' = W!NoOp
  PROVE  Operates' /\ op' \in Op /\ op'.done = {} /\ op'.kind = "none"
  BY NoOpTypes DEF Operates, Removing, Collecting

LEMMA KeptCrash ==
  ASSUME Kept, kinds' = kinds, W!Crash
  PROVE  Kept'
<1>1. /\ TreeTypes /\ op' = W!NoOp /\ unwritten' = unwritten \cup op.done
      /\ UNCHANGED <<config, private, tree, tip, published, row, lost>>
  BY DEF Kept, W!Crash
<1>2. Operates' /\ op' \in Op /\ op'.done = {} /\ op'.kind = "none"
  BY <1>1, NothingOperates
<1>3. /\ run' \in [Runs -> Runner]
      /\ \A r \in Runs : /\ run'[r].branch = run[r].branch
                         /\ run'[r].at \notin {"creating", "adding", "sealing", "installing", "committing", "provisioned"}
                         /\ run'[r].at \notin {"idle", "creating", "failed"} => run[r].at \notin {"idle", "creating", "failed"}
  <2> DEFINE X(r) == CASE run[r].at \in {"checked", "committing", "installing"} -> [run[r] EXCEPT !.at = "work"]
                       [] run[r].at \in {"creating", "adding", "sealing", "provisioned"} -> [run[r] EXCEPT !.at = "failed"]
                       [] OTHER -> run[r]
  <2>1. run' = [r \in Runs |-> X(r)]
    BY DEF W!Crash
  <2>2. ASSUME NEW r \in Runs
        PROVE  /\ X(r) \in Runner /\ X(r).branch = run[r].branch
               /\ X(r).at \notin {"creating", "adding", "sealing", "installing", "committing", "provisioned"}
               /\ X(r).at \notin {"idle", "creating", "failed"} => run[r].at \notin {"idle", "creating", "failed"}
    <3>1. run[r] \in Runner
      BY <1>1 DEF TreeTypes
    <3>2. CASE run[r].at \in {"checked", "committing", "installing"}
      <4>1. X(r) = [run[r] EXCEPT !.at = "work"]
        BY <3>2
      <4>2. QED
        BY <3>1, <3>2, <4>1 DEF Runner, Places
    <3>3. CASE run[r].at \in {"creating", "adding", "sealing", "provisioned"}
      <4>1. X(r) = [run[r] EXCEPT !.at = "failed"]
        BY <3>3
      <4>2. QED
        BY <3>1, <3>3, <4>1 DEF Runner, Places
    <3>4. CASE run[r].at \notin {"checked", "committing", "installing", "creating", "adding", "sealing", "provisioned"}
      <4>1. X(r) = run[r]
        BY <3>4
      <4>2. QED
        BY <3>1, <3>4, <4>1
    <3>5. QED
      BY <3>2, <3>3, <3>4
  <2> HIDE DEF X
  <2>3. QED
    BY <2>1, <2>2
<1>4. TreeTypes'
  BY <1>1, <1>2, <1>3 DEF TreeTypes, Op
<1>5. \A o \in W!WorkedOn : Stands(o)' /\ NamesTree(o)'
  <2>1. \A o \in W!WorkedOn : Stands(o) /\ NamesTree(o)
    BY DEF Kept
  <2>2. QED
    BY <1>1, <1>2, <2>1 DEF Stands, NamesTree, Gone, Collecting
<1>6. \A r \in Runs : Locks(r)' /\ Makes(r)'
  <2>1. \A r \in Runs : Locks(r)
    BY DEF Kept
  <2>2. QED
    BY <1>3, <2>1 DEF Locks, Makes, Making
<1>7. W!UnpushedIsKept'
  BY <1>1 DEF Kept, W!UnpushedIsKept
<1>8. QED
  BY <1>2, <1>4, <1>5, <1>6, <1>7 DEF Kept

(* A drop or a removal that may go on has found nothing unpushed.           *)
LEMMA RemovalBegins ==
  ASSUME Kept, NEW t \in W!WorkedOn, NEW name \in {"drop", "sibling"},
         name = "sibling" => kinds[t] = "sibling", kinds' = kinds, tree' = tree, tip' = tip, published' = published,
         tree[t].there, W!RemovalAllowed(t, FALSE),
         op' = [W!NoOp EXCEPT !.kind = name, !.todo = <<t>>, !.tip = tip[tree[t].branch]]
  PROVE  Operates' /\ op' \in Op /\ op'.done = {} /\ op'.kind # "gc"
<1> DEFINE b == <<t, 0>>
<1>1. tree[t].branch = b /\ b \in W!Branches
  BY FirstBranches DEF Kept, Stands
<1>2. tip[b] \in Nat /\ published[b] \in Nat
  BY <1>1 DEF Kept, TreeTypes
<1>3. tip[b] <= published[b]
  BY <1>1, <1>2 DEF W!RemovalAllowed, W!Unpushed
<1> HIDE DEF b
<1> DEFINE n == tip[b]
           s == <<t>>
<1>4. op' = [W!NoOp EXCEPT !.kind = name, !.todo = s, !.tip = n]
  BY <1>1
<1>5. s \in Seq(W!WorkedOn) /\ Head(s) = t /\ n \in Nat
  BY <1>2
<1> HIDE DEF n, s
<1>6. op'.kind = name /\ op'.todo = s /\ op'.tip = n /\ op'.done = {} /\ op' \in Op
  BY <1>4, <1>5, NoOpTypes DEF Op
<1>7. QED
  BY <1>2, <1>3, <1>5, <1>6 DEF Operates, Removing, Collecting, n, s, b

LEMMA KeptDrop ==
  ASSUME Kept, kinds' = kinds, NEW t \in W!WorkedOn, W!runDrop(t)
  PROVE  Kept'
<1> DEFINE e == [row[t] EXCEPT !.closed = TRUE]
<1>1. /\ TreeTypes /\ op.kind = "none" /\ row' = [row EXCEPT ![t] = e] /\ row \in [W!WorkedOn -> Row]
      /\ UNCHANGED <<config, private, tree, tip, published, lock, run, lost, unwritten>>
  BY DEF W!runDrop, Kept, TreeTypes
<1>2. e \in Row /\ e.named = row[t].named
  BY <1>1 DEF Row
<1> HIDE DEF e
<1>3. row' \in [W!WorkedOn -> Row] /\ \A o \in W!WorkedOn : row'[o].named = row[o].named
  BY <1>1, <1>2
<1>4. Operates' /\ op' \in Op /\ op'.done = {} /\ op'.kind # "gc"
  <2>1. CASE tree[t].there /\ W!RemovalAllowed(t, FALSE)
    <3>1. op' = [W!NoOp EXCEPT !.kind = "drop", !.todo = <<t>>, !.tip = tip[tree[t].branch]]
      BY <2>1 DEF W!runDrop
    <3>2. QED
      BY <1>1, <2>1, <3>1, RemovalBegins
  <2>2. CASE ~(tree[t].there /\ W!RemovalAllowed(t, FALSE))
    <3>1. op' = W!NoOp
      BY <2>2 DEF W!runDrop
    <3>2. QED
      BY <3>1, NothingOperates
  <2>3. QED
    BY <2>1, <2>2
<1>5. TreeTypes'
  BY <1>1, <1>3, <1>4 DEF TreeTypes
<1>6. \A o \in W!WorkedOn : Stands(o)'
  BY <1>1 DEF Kept, Stands
<1>7. ~Collecting /\ "nobody" \notin Runs
  BY <1>1, WorkspacesAssumption DEF Collecting
<1>8. QED
  BY <1>1, <1>3, <1>4, <1>5, <1>6, <1>7, Moves

LEMMA KeptSiblings ==
  ASSUME Kept, kinds' = kinds, NEW r \in Runs, W!removeSiblings(r)
  PROVE  Kept'
<1> DEFINE t == Ticket[r]
<1>1. /\ t \in W!WorkedOn /\ TreeTypes /\ op.kind = "none" /\ kinds[t] = "sibling" /\ tree[t].there
      /\ UNCHANGED <<config, private, tree, tip, published, lock, run, row, lost, unwritten>>
  BY ItsTicket DEF W!removeSiblings, Kept
<1>2. Operates' /\ op' \in Op /\ op'.done = {} /\ op'.kind # "gc"
  <2>1. CASE W!RemovalAllowed(t, FALSE)
    <3>1. op' = [W!NoOp EXCEPT !.kind = "sibling", !.todo = <<t>>, !.tip = tip[tree[t].branch]]
      BY <2>1 DEF W!removeSiblings
    <3>2. QED
      BY <1>1, <2>1, <3>1, RemovalBegins
  <2>2. CASE ~W!RemovalAllowed(t, FALSE)
    <3>1. op' = W!NoOp
      BY <2>2 DEF W!removeSiblings
    <3>2. QED
      BY <3>1, NothingOperates
  <2>3. QED
    BY <2>1, <2>2
<1>3. TreeTypes'
  BY <1>1, <1>2 DEF TreeTypes
<1>4. \A o \in W!WorkedOn : Stands(o)'
  BY <1>1 DEF Kept, Stands
<1>5. ~Collecting /\ "nobody" \notin Runs
  BY <1>1, WorkspacesAssumption DEF Collecting
<1>6. QED
  BY <1>1, <1>2, <1>3, <1>4, <1>5, Moves

(* What is left when a tree and its branch are removed.                     *)
LEMMA RemovesTree ==
  ASSUME Kept, NEW t \in W!WorkedOn, NEW force, tree[t].there, W!Removes(t, force)
  PROVE  /\ config' \subseteq Seen /\ private' \in [W!WorkedOn -> BOOLEAN]
         /\ tree' \in [W!WorkedOn -> Tree] /\ tip' \in [W!Branches -> Nat]
         /\ published' = published /\ run' = run
         /\ ~tree'[t].there /\ ~tree'[t].dirty /\ tip'[<<t, 0>>] = W!NoTip
         /\ \A o \in W!WorkedOn : o # t => /\ tree'[o].there = tree[o].there
                                           /\ tree[o].there => tree'[o].branch = tree[o].branch
                                           /\ tree'[o].dirty => tree[o].dirty
                                           /\ tip'[<<o, 0>>] = tip[<<o, 0>>]
<1> DEFINE b == <<t, 0>>
           trees == [tree EXCEPT ![t] = W!NoTree]
<1>1. TreeTypes /\ tree[t].branch = b /\ b \in W!Branches
  BY FirstBranches DEF Kept, Stands
<1>2. /\ tree' = W!Pruned(trees) /\ tip' = [tip EXCEPT ![b] = W!NoTip]
      /\ config' = config \ {b} /\ private' = [private EXCEPT ![t] = FALSE]
      /\ published' = published /\ run' = run
  BY <1>1 DEF W!Removes
<1>3. W!NoTree \in Tree /\ W!NoTree.there = FALSE /\ W!NoTree.dirty = FALSE
  BY DEF W!NoTree, Tree
<1>4. /\ trees \in [W!WorkedOn -> Tree] /\ trees[t] = W!NoTree
      /\ \A o \in W!WorkedOn : o # t => trees[o] = tree[o]
  BY <1>1, <1>3 DEF TreeTypes
<1>5. \A o \in W!WorkedOn : o # t => <<o, 0>> # b /\ <<o, 0>> \in W!Branches
  BY FirstBranches
<1> HIDE DEF trees, b
<1>6. /\ tree' \in [W!WorkedOn -> Tree]
      /\ \A o \in W!WorkedOn : /\ tree'[o].there = trees[o].there
                               /\ trees[o].there => tree'[o] = trees[o]
                               /\ tree'[o].dirty => trees[o].dirty
  BY <1>2, <1>4, PrunedTrees
<1>7. /\ tip' \in [W!Branches -> Nat] /\ tip'[b] = W!NoTip
      /\ \A o \in W!WorkedOn : o # t => tip'[<<o, 0>>] = tip[<<o, 0>>]
  BY <1>1, <1>2, <1>5, TreeBounds DEF TreeTypes
<1>8. config' \subseteq Seen /\ private' \in [W!WorkedOn -> BOOLEAN]
  BY <1>1, <1>2 DEF TreeTypes
<1>9. /\ ~tree'[t].there /\ ~tree'[t].dirty
      /\ \A o \in W!WorkedOn : o # t => /\ tree'[o].there = tree[o].there
                                        /\ tree[o].there => tree'[o].branch = tree[o].branch
                                        /\ tree'[o].dirty => tree[o].dirty
  BY <1>3, <1>4, <1>6
<1>10. QED
  BY <1>2, <1>6, <1>7, <1>8, <1>9 DEF b

(* What git refuses to remove stays where it is.                            *)
LEMMA RefusesTree ==
  ASSUME Kept, NEW t \in W!WorkedOn, W!Refused(t)
  PROVE  /\ UNCHANGED <<config, private, tip, published, run, lost>>
         /\ tree' \in [W!WorkedOn -> Tree]
         /\ \A o \in W!WorkedOn : /\ tree'[o].there = tree[o].there
                                  /\ tree'[o].branch = tree[o].branch
                                  /\ tree'[o].dirty = tree[o].dirty
<1> DEFINE l == tree[t].locked /\ kinds[t] \in {"slug", "main"}
           y == [tree[t] EXCEPT !.locked = l]
<1>1. TreeTypes
  BY DEF Kept
<1>2. tree[t] \in Tree /\ tree \in [W!WorkedOn -> Tree]
  BY <1>1 DEF TreeTypes
<1>3. tree' = [tree EXCEPT ![t] = y] /\ UNCHANGED <<config, private, tip, published, run, lost>>
  BY DEF W!Refused
<1>4. l \in BOOLEAN
  OBVIOUS
<1> HIDE DEF l
<1>5. /\ y \in Tree /\ y.there = tree[t].there /\ y.branch = tree[t].branch /\ y.dirty = tree[t].dirty
  BY <1>2, <1>4 DEF Tree
<1> HIDE DEF y
<1>6. QED
  BY <1>2, <1>3, <1>5

(* After a removal, what concerns only trees, runs and the lock.            *)
LEMMA RemovedTree ==
  ASSUME Kept, kinds' = kinds, lock' = lock, run' = run, NEW t \in W!WorkedOn, kinds[t] # "main",
         ~tree'[t].there, ~tree'[t].dirty, tip'[<<t, 0>>] = W!NoTip,
         \A o \in W!WorkedOn : o # t => /\ tree'[o].there = tree[o].there
                                        /\ tree[o].there => tree'[o].branch = tree[o].branch
                                        /\ tree'[o].dirty => tree[o].dirty
                                        /\ tip'[<<o, 0>>] = tip[<<o, 0>>]
  PROVE  /\ \A o \in W!WorkedOn : Stands(o)'
         /\ \A r \in Runs : Locks(r)' /\ (Making(r)' <=> Making(r))
<1>1. /\ \A o \in W!WorkedOn : Stands(o)
      /\ \A r \in Runs : Locks(r) /\ Ticket[r] \in W!WorkedOn
  BY ItsTicket DEF Kept
<1>2. ASSUME NEW o \in W!WorkedOn PROVE Stands(o)'
  <2>1. CASE o = t
    <3>1. W!NoTip <= W!NoTip
      BY TreeBounds
    <3>2. QED
      BY <2>1, <3>1 DEF Stands
  <2>2. CASE o # t
    BY <1>1, <2>2 DEF Stands
  <2>3. QED
    BY <2>1, <2>2
<1>3. ASSUME NEW r \in Runs PROVE Locks(r)'
  <2>1. tree'[Ticket[r]].there => tree[Ticket[r]].there
    BY <1>1
  <2>2. QED
    BY <1>1, <2>1 DEF Locks
<1>4. QED
  BY <1>2, <1>3 DEF Making

LEMMA KeptRemoves ==
  ASSUME Kept, kinds' = kinds, W!RemoveOne
  PROVE  Kept'
<1> DEFINE t == Head(op.todo)
<1>1. PICK known \in W!Known(t) :
        /\ TreeTypes /\ Removing /\ op' = W!NoOp /\ UNCHANGED <<lock, row>>
        /\ IF known /\ W!GitRemoves(t, FALSE)
           THEN W!Removes(t, FALSE) /\ unwritten' = unwritten \cup {u \in {t} : op.kind = "drop"}
           ELSE W!Refused(t) /\ unwritten' = unwritten
  BY DEF Kept, W!RemoveOne, Removing, W!Ends
<1>2. /\ t \in W!WorkedOn /\ op.done = {} /\ ~Collecting
      /\ op.tip <= tip[<<t, 0>>] /\ op.tip <= published[<<t, 0>>]
      /\ op.kind = "sibling" => kinds[t] = "sibling"
  BY <1>1 DEF Kept, Operates, Removing, Collecting
<1>3. Operates' /\ op' \in Op /\ op'.done = {} /\ op'.kind = "none"
  BY <1>1, NothingOperates
<1> HIDE DEF t
<1>4. CASE known /\ W!GitRemoves(t, FALSE)
  <2>1. /\ W!Removes(t, FALSE) /\ tree[t].there /\ kinds[t] # "main"
        /\ kinds[t] = "sibling" \/ t \in unwritten'
        /\ \A o \in W!WorkedOn : o # t => (o \in unwritten' <=> o \in unwritten)
        /\ unwritten \subseteq unwritten' /\ unwritten' \subseteq W!WorkedOn
    BY <1>1, <1>2, <1>4 DEF W!GitRemoves, W!LockInTree, Removing, TreeTypes
  <2>2. /\ config' \subseteq Seen /\ private' \in [W!WorkedOn -> BOOLEAN]
        /\ tree' \in [W!WorkedOn -> Tree] /\ tip' \in [W!Branches -> Nat]
        /\ published' = published /\ run' = run
        /\ ~tree'[t].there /\ ~tree'[t].dirty /\ tip'[<<t, 0>>] = W!NoTip
        /\ \A o \in W!WorkedOn : o # t => /\ tree'[o].there = tree[o].there
                                          /\ tree[o].there => tree'[o].branch = tree[o].branch
                                          /\ tree'[o].dirty => tree[o].dirty
                                          /\ tip'[<<o, 0>>] = tip[<<o, 0>>]
    BY <1>1, <1>2, <1>4, <2>1, RemovesTree
  <2>3. TreeTypes'
    BY <1>1, <1>3, <2>1, <2>2 DEF TreeTypes
  <2>4. /\ \A o \in W!WorkedOn : Stands(o)'
        /\ \A r \in Runs : Locks(r)' /\ (Making(r)' <=> Making(r))
    BY <1>1, <1>2, <2>1, <2>2, RemovedTree
  <2>5. \A o \in W!WorkedOn : NamesTree(o)'
    <3>1. \A o \in W!WorkedOn : NamesTree(o)
      BY DEF Kept
    <3>2. QED
      BY <1>1, <1>2, <1>3, <2>1, <2>2, <3>1 DEF NamesTree, Gone, Collecting
  <2>6. \A r \in Runs : Makes(r)'
    <3> SUFFICES ASSUME NEW r \in Runs PROVE Makes(r)'
      OBVIOUS
    <3>1. Makes(r) /\ Ticket[r] \in W!WorkedOn
      BY ItsTicket DEF Kept
    <3>2. CASE Ticket[r] = t
      BY <2>1, <3>2 DEF Makes
    <3>3. CASE Ticket[r] # t
      BY <1>1, <1>2, <1>3, <2>2, <2>4, <3>1, <3>3 DEF Makes, Collecting
    <3>4. QED
      BY <3>2, <3>3
  <2>7. W!UnpushedIsKept'
    <3> DEFINE b == <<t, 0>>
               new == {[branch |-> b, by |-> op.kind, raced |-> tip[b] # op.tip] : x \in {y \in {1} : W!Unpushed(t)}}
    <3>1. tree[t].branch = b /\ b \in W!Branches
      BY <1>2, <2>1, FirstBranches DEF Kept, Stands
    <3>2. tip[b] \in Nat /\ published[b] \in Nat /\ op.tip \in Nat
      BY <1>1, <3>1 DEF TreeTypes, Op
    <3>3. lost' = lost \cup new
      BY <1>1, <1>4, <3>1 DEF W!Removes
    <3>4. W!Unpushed(t) => tip[b] # op.tip
      BY <1>2, <3>1, <3>2 DEF W!Unpushed
    <3> DEFINE z == [branch |-> b, by |-> op.kind, raced |-> tip[b] # op.tip]
    <3>5. \A l \in new : l.raced
      <4>1. z.raced = (tip[b] # op.tip)
        OBVIOUS
      <4>2. \A l \in new : l = z /\ W!Unpushed(t)
        OBVIOUS
      <4> HIDE DEF new, z
      <4>3. QED
        BY <4>1, <4>2, <3>4
    <3> HIDE DEF new
    <3>6. QED
      BY <3>3, <3>5 DEF Kept, W!UnpushedIsKept
  <2>8. QED
    BY <1>3, <2>3, <2>4, <2>5, <2>6, <2>7 DEF Kept
<1>5. CASE ~(known /\ W!GitRemoves(t, FALSE))
  <2>1. /\ UNCHANGED <<config, private, tip, published, run, lost>>
        /\ tree' \in [W!WorkedOn -> Tree]
        /\ \A o \in W!WorkedOn : /\ tree'[o].there = tree[o].there
                                 /\ tree'[o].branch = tree[o].branch
                                 /\ tree'[o].dirty = tree[o].dirty
    BY <1>1, <1>2, <1>5, RefusesTree
  <2>2. unwritten' = unwritten
    BY <1>1, <1>5
  <2>3. TreeTypes'
    BY <1>1, <1>3, <2>1, <2>2 DEF TreeTypes
  <2>4. \A o \in W!WorkedOn : Stands(o)'
    BY <2>1 DEF Kept, Stands
  <2>5. "nobody" \notin Runs
    BY WorkspacesAssumption
  <2>6. QED
    BY <1>1, <1>2, <1>3, <2>1, <2>3, <2>4, <2>5, <2>2, Moves
<1>6. QED
  BY <1>4, <1>5

(* A collection reads the queue.                                            *)
LEMMA KeptCollects ==
  ASSUME Kept, kinds' = kinds, W!runGc
  PROVE  Kept'
<1> DEFINE set == {t \in W!WorkedOn : row[t].closed /\ row[t].named}
           s == W!SetToSeq(set)
<1>1. /\ TreeTypes /\ op.kind = "none" /\ op.done = {}
      /\ op' = [W!NoOp EXCEPT !.kind = "gc", !.book = row, !.todo = s]
      /\ UNCHANGED <<config, private, tree, tip, published, lock, run, row, lost, unwritten>>
  BY DEF W!runGc, Kept, Operates, Collecting
<1>2. /\ s \in Seq(W!WorkedOn)
      /\ \A i \in 1..Len(s) : s[i] \in set
      /\ \A i, j \in 1..Len(s) : s[i] = s[j] => i = j
  BY AsSequence
<1> HIDE DEF s
<1>3. /\ op'.kind = "gc" /\ op'.book = row /\ op'.todo = s /\ op'.done = {} /\ op' \in Op
  BY <1>1, <1>2, NoOpTypes DEF Op, TreeTypes
<1>4. TreeTypes'
  BY <1>1, <1>3 DEF TreeTypes
<1>5. \A o \in W!WorkedOn : row[o].named => (tree[o].there \/ o \in unwritten) /\ kinds[o] # "sibling"
  BY <1>1 DEF Kept, NamesTree, Gone
<1>6. Operates'
  <2>1. \A i \in 1..Len(s) : tree[s[i]].there \/ s[i] \in unwritten
    BY <1>2, <1>5
  <2>2. QED
    BY <1>1, <1>2, <1>3, <2>1 DEF Operates, Removing, Collecting
<1>7. \A o \in W!WorkedOn : Stands(o)' /\ NamesTree(o)'
  BY <1>1, <1>3, <1>5 DEF Kept, Stands, NamesTree, Gone, Collecting
<1>8. \A r \in Runs : Locks(r)'
  BY <1>1 DEF Kept, Locks
<1>9. \A r \in Runs : Makes(r)'
  <2> SUFFICES ASSUME NEW r \in Runs PROVE Makes(r)'
    OBVIOUS
  <2>1. Makes(r)
    BY DEF Kept
  <2>2. \A o \in Runs : Making(o)' <=> Making(o)
    BY <1>1 DEF Making
  <2>3. ~row[Ticket[r]].named => \A i \in 1..Len(s) : s[i] # Ticket[r]
    BY <1>2
  <2>4. QED
    BY <1>1, <1>3, <2>1, <2>2, <2>3 DEF Makes, Collecting
<1>10. W!UnpushedIsKept'
  BY <1>1 DEF Kept, W!UnpushedIsKept
<1>11. QED
  BY <1>4, <1>6, <1>7, <1>8, <1>9, <1>10 DEF Kept

LEMMA KeptWrites ==
  ASSUME Kept, kinds' = kinds, W!GcWrites
  PROVE  Kept'
<1>1. /\ TreeTypes /\ Collecting /\ op' = W!NoOp /\ row' = W!Written(op.book, op.done)
      /\ UNCHANGED <<config, private, tree, tip, published, lock, run, lost, unwritten>>
  BY DEF Kept, W!GcWrites, Collecting, W!Ends
<1>2. Operates' /\ op' \in Op /\ op'.done = {} /\ op'.kind = "none"
  BY <1>1, NothingOperates
<1>3. /\ row' \in [W!WorkedOn -> Row]
      /\ \A o \in W!WorkedOn : row'[o].named => op.book[o].named /\ o \notin op.done
  <2> DEFINE e(o) == [op.book[o] EXCEPT !.named = @ /\ o \notin op.done]
  <2>1. row' = [o \in W!WorkedOn |-> e(o)]
    BY <1>1 DEF W!Written
  <2>2. ASSUME NEW o \in W!WorkedOn
        PROVE  e(o) \in Row /\ (e(o).named => op.book[o].named /\ o \notin op.done)
    <3> DEFINE n == op.book[o].named /\ o \notin op.done
    <3>1. op.book[o] \in Row /\ n \in BOOLEAN
      BY <1>1 DEF TreeTypes, Op
    <3>2. e(o) = [op.book[o] EXCEPT !.named = n]
      OBVIOUS
    <3> HIDE DEF e, n
    <3>3. e(o) \in Row /\ e(o).named = n
      BY <3>1, <3>2 DEF Row
    <3>4. QED
      BY <3>3 DEF n
  <2> HIDE DEF e
  <2>3. QED
    BY <2>1, <2>2
<1>4. TreeTypes'
  BY <1>1, <1>2, <1>3 DEF TreeTypes
<1>5. \A o \in W!WorkedOn : Stands(o)' /\ NamesTree(o)'
  BY <1>1, <1>2, <1>3 DEF Kept, Stands, NamesTree, Gone, Collecting
<1>6. \A r \in Runs : Locks(r)'
  BY <1>1 DEF Kept, Locks
<1>7. \A r \in Runs : Makes(r)'
  <2> SUFFICES ASSUME NEW r \in Runs PROVE Makes(r)'
    OBVIOUS
  <2>1. Makes(r) /\ Ticket[r] \in W!WorkedOn
    BY ItsTicket DEF Kept
  <2>2. \A o \in Runs : Making(o)' <=> Making(o)
    BY <1>1 DEF Making
  <2>3. QED
    BY <1>1, <1>2, <1>3, <2>1, <2>2 DEF Makes, Collecting
<1>8. W!UnpushedIsKept'
  BY <1>1 DEF Kept, W!UnpushedIsKept
<1>9. QED
  BY <1>2, <1>4, <1>5, <1>6, <1>7, <1>8 DEF Kept

(* A sequence without its first.                                            *)
LEMMA TailOf ==
  ASSUME NEW S, NEW s \in Seq(S), s # <<>>
  PROVE  /\ Len(s) \in Nat /\ Len(s) >= 1 /\ Head(s) = s[1] /\ s[1] \in S /\ 1 \in 1..Len(s)
         /\ Tail(s) \in Seq(S) /\ Len(Tail(s)) = Len(s) - 1
         /\ \A i \in 1..(Len(s) - 1) : Tail(s)[i] = s[i + 1]
  OBVIOUS

(* What a collection has left to do when its first tree is done.            *)
LEMMA NextOfCollection ==
  ASSUME Kept, Collecting, op.todo # <<>>
  PROVE  /\ op \in Op /\ Head(op.todo) \in W!WorkedOn /\ Head(op.todo) = op.todo[1]
         /\ 1 \in 1..Len(op.todo) /\ Tail(op.todo) \in Seq(W!WorkedOn)
         /\ \A i \in 1..Len(Tail(op.todo)) :
              /\ i + 1 \in 1..Len(op.todo) /\ Tail(op.todo)[i] = op.todo[i + 1]
              /\ Tail(op.todo)[i] # Head(op.todo)
         /\ \A i, j \in 1..Len(Tail(op.todo)) : Tail(op.todo)[i] = Tail(op.todo)[j] => i = j
<1> DEFINE s == op.todo
<1>1. op \in Op
  BY DEF Kept, TreeTypes
<1>2. \A i, j \in 1..Len(s) : s[i] = s[j] => i = j
  BY DEF Kept, Operates
<1>3. s \in Seq(W!WorkedOn) /\ s # <<>>
  BY <1>1 DEF Op
<1> HIDE DEF s
<1>4. /\ Len(s) \in Nat /\ Len(s) >= 1 /\ Head(s) = s[1] /\ s[1] \in W!WorkedOn /\ 1 \in 1..Len(s)
      /\ Tail(s) \in Seq(W!WorkedOn) /\ Len(Tail(s)) = Len(s) - 1
      /\ \A i \in 1..(Len(s) - 1) : Tail(s)[i] = s[i + 1]
  BY <1>3, TailOf
<1>5. \A i \in 1..Len(Tail(s)) : i + 1 \in 1..Len(s) /\ i + 1 # 1 /\ i \in 1..(Len(s) - 1)
  BY <1>4
<1>6. \A i, j \in 1..Len(Tail(s)) : i + 1 = j + 1 => i = j
  OBVIOUS
<1>7. \A i \in 1..Len(Tail(s)) : Tail(s)[i] = s[i + 1] /\ Tail(s)[i] # s[1]
  BY <1>2, <1>4, <1>5
<1>8. \A i, j \in 1..Len(Tail(s)) : Tail(s)[i] = Tail(s)[j] => i = j
  <2> SUFFICES ASSUME NEW i \in 1..Len(Tail(s)), NEW j \in 1..Len(Tail(s)), s[i + 1] = s[j + 1] PROVE i = j
    BY <1>7
  <2>1. i + 1 = j + 1
    BY <1>2, <1>5
  <2>2. QED
    BY <2>1, <1>6
<1>9. QED
  BY <1>1, <1>4, <1>5, <1>7, <1>8 DEF s

LEMMA KeptGcRemoves ==
  ASSUME Kept, kinds' = kinds, W!GcRemoves
  PROVE  Kept'
<1> DEFINE t == Head(op.todo)
           rest == Tail(op.todo)
<1>1. PICK known \in W!Known(t) :
      /\ TreeTypes /\ Collecting /\ op.todo # <<>> /\ UNCHANGED <<lock, row>>
      /\ IF known /\ W!GitRemoves(t, TRUE)
         THEN /\ W!Removes(t, TRUE) /\ op' = [op EXCEPT !.todo = rest, !.done = @ \cup {t}]
              /\ unwritten' = unwritten
         ELSE W!Refused(t) /\ op' = W!NoOp /\ unwritten' = unwritten \cup op.done
  BY DEF Kept, W!GcRemoves, Collecting, W!Ends
<1>2. /\ op \in Op /\ t \in W!WorkedOn /\ t = op.todo[1]
      /\ 1 \in 1..Len(op.todo) /\ rest \in Seq(W!WorkedOn)
      /\ \A i \in 1..Len(rest) : i + 1 \in 1..Len(op.todo) /\ rest[i] = op.todo[i + 1] /\ rest[i] # t
      /\ \A i, j \in 1..Len(rest) : rest[i] = rest[j] => i = j
  BY <1>1, NextOfCollection
<1>3. \A i \in 1..Len(op.todo) : (tree[op.todo[i]].there \/ op.todo[i] \in unwritten) /\ op.todo[i] \notin op.done
  BY <1>1 DEF Kept, Operates
<1>4. /\ \A o \in W!WorkedOn : Stands(o) /\ NamesTree(o)
      /\ \A r \in Runs : Locks(r) /\ Makes(r) /\ Ticket[r] \in W!WorkedOn
  BY ItsTicket DEF Kept
<1> HIDE DEF t, rest
<1>5. CASE known /\ W!GitRemoves(t, TRUE)
  <2>1. /\ tree[t].there /\ kinds[t] # "main" /\ W!Removes(t, TRUE) /\ unwritten' = unwritten
        /\ op' = [op EXCEPT !.todo = rest, !.done = @ \cup {t}]
    BY <1>1, <1>5 DEF W!GitRemoves
  <2>2. /\ op' \in Op /\ op'.kind = "gc" /\ op'.book = op.book /\ op'.todo = rest /\ op'.done = op.done \cup {t}
    <3> DEFINE d == op.done \cup {t}
    <3>1. d \subseteq W!WorkedOn
      BY <1>2 DEF Op
    <3>2. op' = [op EXCEPT !.todo = rest, !.done = d]
      BY <2>1
    <3> HIDE DEF d
    <3>3. /\ op' \in Op /\ op'.kind = op.kind /\ op'.book = op.book /\ op'.todo = rest /\ op'.done = d
      BY <1>2, <3>1, <3>2 DEF Op
    <3>4. QED
      BY <1>1, <3>3 DEF d, Collecting
  <2>3. /\ config' \subseteq Seen /\ private' \in [W!WorkedOn -> BOOLEAN]
        /\ tree' \in [W!WorkedOn -> Tree] /\ tip' \in [W!Branches -> Nat]
        /\ published' = published /\ run' = run
        /\ ~tree'[t].there /\ ~tree'[t].dirty /\ tip'[<<t, 0>>] = W!NoTip
        /\ \A o \in W!WorkedOn : o # t => /\ tree'[o].there = tree[o].there
                                          /\ tree[o].there => tree'[o].branch = tree[o].branch
                                          /\ tree'[o].dirty => tree[o].dirty
                                          /\ tip'[<<o, 0>>] = tip[<<o, 0>>]
    BY <1>2, <2>1, RemovesTree
  <2>4. TreeTypes'
    BY <1>1, <2>1, <2>2, <2>3 DEF TreeTypes
  <2>5. /\ \A o \in W!WorkedOn : Stands(o)'
        /\ \A r \in Runs : Locks(r)' /\ (Making(r)' <=> Making(r))
    BY <1>1, <1>2, <2>1, <2>3, RemovedTree
  <2>6. \A o \in W!WorkedOn : NamesTree(o)'
    BY <1>1, <1>4, <2>1, <2>2, <2>3 DEF NamesTree, Gone, Collecting
  <2>7. Operates'
    <3>1. \A i \in 1..Len(rest) : rest[i] \in W!WorkedOn
      BY <1>2
    <3>2. \A i \in 1..Len(rest) : (tree'[rest[i]].there \/ rest[i] \in unwritten') /\ rest[i] \notin op'.done
      <4> SUFFICES ASSUME NEW i \in 1..Len(rest)
                   PROVE  (tree'[rest[i]].there \/ rest[i] \in unwritten') /\ rest[i] \notin op'.done
        OBVIOUS
      <4> DEFINE u == rest[i]
      <4>1. u \in W!WorkedOn /\ u # t /\ u = op.todo[i + 1] /\ i + 1 \in 1..Len(op.todo)
        BY <1>2, <3>1
      <4>2. (tree[u].there \/ u \in unwritten) /\ u \notin op.done
        BY <1>3, <4>1
      <4> HIDE DEF u
      <4>3. (tree'[u].there \/ u \in unwritten') /\ u \notin op'.done
        BY <2>1, <2>2, <2>3, <4>1, <4>2
      <4>4. QED
        BY <4>3 DEF u
    <3>3. QED
      BY <1>2, <2>2, <3>2 DEF Operates, Removing, Collecting
  <2>8. \A r \in Runs : Makes(r)'
    <3> SUFFICES ASSUME NEW r \in Runs, Making(r), kinds[Ticket[r]] \notin {"main", "sibling"},
                        Ticket[r] \notin unwritten
                 PROVE  Makes(r)'
      BY <2>1, <2>5 DEF Makes
    <3> DEFINE u == Ticket[r]
    <3>1. /\ u \in W!WorkedOn /\ tree[u].there /\ (row[u].named => u \in op.done)
          /\ op.book[u].named => u \in op.done
          /\ \A i \in 1..Len(op.todo) : op.todo[i] # u
          /\ \A other \in Runs : Ticket[other] = u /\ Making(other) => other = r
      BY <1>1, <1>4 DEF Makes
    <3>2. u # t /\ \A i \in 1..Len(rest) : rest[i] # u
      BY <1>2, <3>1
    <3> HIDE DEF u
    <3>3. tree'[u].there
      BY <2>3, <3>1, <3>2
    <3>4. QED
      BY <1>1, <2>2, <2>5, <3>1, <3>2, <3>3 DEF Makes, Collecting, u
  <2>9. W!UnpushedIsKept'
    <3> DEFINE b == tree[t].branch
               z == [branch |-> b, by |-> op.kind, raced |-> tip[b] # op.tip]
               new == {[branch |-> b, by |-> op.kind, raced |-> tip[b] # op.tip] : x \in {y \in {1} : W!Unpushed(t)}}
    <3>1. lost' = lost \cup new
      BY <2>1 DEF W!Removes
    <3>2. z.by = "gc" /\ \A l \in new : l = z
      BY <1>1 DEF Collecting
    <3> HIDE DEF new, z
    <3>3. QED
      BY <3>1, <3>2 DEF Kept, W!UnpushedIsKept
  <2>10. QED
    BY <2>4, <2>5, <2>6, <2>7, <2>8, <2>9 DEF Kept
<1>6. CASE ~(known /\ W!GitRemoves(t, TRUE))
  <2>1. /\ UNCHANGED <<config, private, tip, published, run, lost>>
        /\ tree' \in [W!WorkedOn -> Tree]
        /\ \A o \in W!WorkedOn : /\ tree'[o].there = tree[o].there
                                 /\ tree'[o].branch = tree[o].branch
                                 /\ tree'[o].dirty = tree[o].dirty
    BY <1>1, <1>2, <1>6, RefusesTree
  <2>2. op' = W!NoOp /\ unwritten' = unwritten \cup op.done /\ UNCHANGED <<lock, row, run, kinds>>
    BY <1>1, <1>6, <2>1
  <2>3. Operates' /\ op' \in Op /\ op'.done = {} /\ op'.kind = "none"
    BY <2>2, NothingOperates
  <2>4. TreeTypes'
    <3>1. unwritten' \subseteq W!WorkedOn
      BY <1>1, <1>2, <2>2 DEF TreeTypes, Op
    <3>2. QED
      BY <1>1, <2>1, <2>2, <2>3, <3>1 DEF TreeTypes
  <2>5. \A o \in W!WorkedOn : Stands(o)'
    BY <1>4, <2>1, <2>2 DEF Stands
  <2>6. \A o \in W!WorkedOn : NamesTree(o)'
    BY <1>4, <2>1, <2>2, <2>3 DEF NamesTree, Gone, Collecting
  <2>7. \A r \in Runs : Locks(r)' /\ (Making(r)' <=> Making(r))
    BY <1>4, <2>1, <2>2 DEF Locks, Making
  <2>8. \A r \in Runs : Makes(r)'
    BY <1>4, <2>1, <2>2, <2>3, <2>7 DEF Makes, Collecting
  <2>9. W!UnpushedIsKept'
    BY <2>1 DEF Kept, W!UnpushedIsKept
  <2>10. QED
    BY <2>3, <2>4, <2>5, <2>6, <2>7, <2>8, <2>9 DEF Kept
<1>7. QED
  BY <1>5, <1>6

LEMMA KeptStep ==
  ASSUME Kept, W!Next
  PROVE  Kept'
<1>1. ASSUME NEW r \in Runs, W!CreateStarts(r) PROVE Kept'
  <2>1. kinds' = kinds
    BY <1>1 DEF W!CreateStarts, W!TakeLock
  <2>2. QED
    BY <1>1, <2>1, KeptOwnSteps
<1>2. ASSUME NEW r \in Runs, W!SetupStarts(r) PROVE Kept'
  <2>1. kinds' = kinds
    BY <1>2 DEF W!SetupStarts, W!TakeLock
  <2>2. QED
    BY <1>2, <2>1, KeptOwnSteps
<1>3. ASSUME NEW r \in Runs, W!CheckpointLocks(r) PROVE Kept'
  <2>1. kinds' = kinds
    BY <1>3 DEF W!CheckpointLocks, W!TakeLock
  <2>2. QED
    BY <1>3, <2>1, KeptOwnSteps
<1>4. ASSUME NEW r \in Runs, W!SetupEnds(r) \/ W!assertNoDrift(r) PROVE Kept'
  <2>1. kinds' = kinds
    BY <1>4 DEF W!SetupEnds, W!assertNoDrift
  <2>2. QED
    BY <1>4, <2>1, KeptOwnSteps
<1>5. ASSUME NEW r \in Runs, W!CreateChecks(r) PROVE Kept'
  BY <1>5, KeptChecks
<1>6. ASSUME NEW r \in Runs, W!CreateSeals(r) PROVE Kept'
  BY <1>6, KeptSeals
<1>7. ASSUME NEW r \in Runs, W!CreateAdds(r) PROVE Kept'
  <2>1. kinds' = kinds
    BY <1>7 DEF W!CreateAdds
  <2>2. QED
    BY <1>7, <2>1, KeptAdds
<1>8. ASSUME NEW r \in Runs, W!HerdrCreates(r) PROVE Kept'
  <2>1. kinds' = kinds
    BY <1>8 DEF W!HerdrCreates
  <2>2. QED
    BY <1>8, <2>1, KeptHerdr
<1>9. ASSUME NEW r \in Runs, W!workspaceOnMainCheckout(r) PROVE Kept'
  <2>1. kinds' = kinds
    BY <1>9 DEF W!workspaceOnMainCheckout
  <2>2. QED
    BY <1>9, <2>1, KeptMain
<1>10. ASSUME NEW r \in Runs, W!bindQueueRun(r) PROVE Kept'
  <2>1. kinds' = kinds
    BY <1>10 DEF W!bindQueueRun
  <2>2. QED
    BY <1>10, <2>1, KeptBinds
<1>11. ASSUME NEW r \in Runs, W!Works(r) PROVE Kept'
  <2>1. kinds' = kinds
    BY <1>11 DEF W!Works
  <2>2. QED
    BY <1>11, <2>1, KeptWorks
<1>12. ASSUME NEW r \in Runs, W!checkpointCommit(r) PROVE Kept'
  <2>1. kinds' = kinds
    BY <1>12 DEF W!checkpointCommit
  <2>2. QED
    BY <1>12, <2>1, KeptCommits
<1>13. ASSUME NEW r \in Runs, W!publish(r) PROVE Kept'
  <2>1. kinds' = kinds
    BY <1>13 DEF W!publish
  <2>2. QED
    BY <1>13, <2>1, KeptPublishes
<1>14. ASSUME NEW r \in Runs, W!removeSiblings(r) PROVE Kept'
  <2>1. kinds' = kinds
    BY <1>14 DEF W!removeSiblings
  <2>2. QED
    BY <1>14, <2>1, KeptSiblings
<1>15. ASSUME NEW t \in W!WorkedOn, W!Closes(t) PROVE Kept'
  <2>1. kinds' = kinds
    BY <1>15 DEF W!Closes
  <2>2. QED
    BY <1>15, <2>1, KeptEdits
<1>16. ASSUME NEW t \in W!WorkedOn, W!runDrop(t) PROVE Kept'
  <2>1. kinds' = kinds
    BY <1>16 DEF W!runDrop
  <2>2. QED
    BY <1>16, <2>1, KeptDrop
<1>17. CASE W!Edit
  <2>1. kinds' = kinds
    BY <1>17 DEF W!Edit
  <2>2. QED
    BY <1>17, <2>1, KeptEdits
<1>18. CASE W!Crash
  <2>1. kinds' = kinds
    BY <1>18 DEF W!Crash
  <2>2. QED
    BY <1>18, <2>1, KeptCrash
<1>19. CASE W!RemoveOne
  <2>1. kinds' = kinds
    BY <1>19 DEF W!RemoveOne
  <2>2. QED
    BY <1>19, <2>1, KeptRemoves
<1>20. CASE W!runGc
  <2>1. kinds' = kinds
    BY <1>20 DEF W!runGc
  <2>2. QED
    BY <1>20, <2>1, KeptCollects
<1>21. CASE W!GcRemoves
  <2>1. kinds' = kinds
    BY <1>21 DEF W!GcRemoves
  <2>2. QED
    BY <1>21, <2>1, KeptGcRemoves
<1>22. CASE W!GcWrites
  <2>1. kinds' = kinds
    BY <1>22 DEF W!GcWrites
  <2>2. QED
    BY <1>22, <2>1, KeptWrites
<1>23. QED
  BY <1>1, <1>2, <1>3, <1>4, <1>5, <1>6, <1>7, <1>8, <1>9, <1>10, <1>11, <1>12, <1>13, <1>14, <1>15, <1>16,
     <1>17, <1>18, <1>19, <1>20, <1>21, <1>22 DEF W!Next

LEMMA KeptAtFirst ==
  ASSUME W!Init
  PROVE  Kept
<1> DEFINE x(t) == IF kinds[t] = "main" THEN [W!NoTree EXCEPT !.there = TRUE, !.listed = TRUE, !.branch = <<t, 0>>]
                   ELSE W!NoTree
<1>1. /\ config = {} /\ private = [t \in W!WorkedOn |-> FALSE] /\ lock = W!Nobody
      /\ tree = [t \in W!WorkedOn |-> x(t)]
      /\ tip = [b \in W!Branches |-> IF kinds[b[1]] = "main" /\ b[2] = 0 THEN 0 ELSE W!NoTip]
      /\ published = [b \in W!Branches |-> 0] /\ run = [r \in Runs |-> W!NewRun]
      /\ row = [t \in W!WorkedOn |-> W!NoEntry]
      /\ op = W!NoOp /\ lost = {} /\ unwritten = {}
  BY DEF W!Init
<1>2. ASSUME NEW t \in W!WorkedOn
      PROVE  /\ x(t) \in Tree /\ ~x(t).dirty /\ (x(t).there <=> kinds[t] = "main")
             /\ x(t).there => x(t).branch = <<t, 0>>
  <2>1. <<t, 0>> \in First
    BY FirstBranches
  <2>2. W!NoTree \in Tree /\ W!NoTree.there = FALSE /\ W!NoTree.dirty = FALSE
    BY DEF W!NoTree, Tree
  <2>3. CASE kinds[t] = "main"
    <3> DEFINE b == <<t, 0>>
    <3>1. x(t) = [W!NoTree EXCEPT !.there = TRUE, !.listed = TRUE, !.branch = b]
      BY <2>3
    <3>2. b \in First
      BY <2>1
    <3> HIDE DEF b, x
    <3>3. x(t) \in Tree /\ ~x(t).dirty /\ x(t).there /\ x(t).branch = b
      BY <2>2, <3>1, <3>2 DEF Tree
    <3>4. QED
      BY <2>3, <3>3 DEF b
  <2>4. CASE kinds[t] # "main"
    <3>1. x(t) = W!NoTree
      BY <2>4
    <3>2. QED
      BY <2>2, <2>4, <3>1
  <2>5. QED
    BY <2>3, <2>4
<1> HIDE DEF x
<1>3. \A t \in W!WorkedOn : tree[t] = x(t)
  BY <1>1
<1>4. tree \in [W!WorkedOn -> Tree]
  BY <1>1, <1>2
<1>5. /\ tip \in [W!Branches -> Nat] /\ published \in [W!Branches -> Nat]
      /\ \A t \in W!WorkedOn : tip[<<t, 0>>] = IF kinds[t] = "main" THEN 0 ELSE W!NoTip
  <2>1. \A t \in W!WorkedOn : <<t, 0>> \in W!Branches /\ <<t, 0>>[1] = t /\ <<t, 0>>[2] = 0
    BY FirstBranches
  <2>2. QED
    BY <1>1, <2>1, TreeBounds
<1>6. /\ \A r \in Runs : run[r] = W!NewRun
      /\ W!NewRun \in Runner /\ W!NewRun.at = "idle"
  BY <1>1 DEF W!NewRun, Runner, Places
<1>7. /\ op \in Op /\ op.kind = "none" /\ op.done = {} /\ W!NoEntry \in Row
      /\ \A t \in W!WorkedOn : ~row[t].named
  BY <1>1, NoOpTypes DEF W!NoEntry
<1>8. TreeTypes
  BY <1>1, <1>4, <1>5, <1>6, <1>7 DEF TreeTypes
<1>9. \A t \in W!WorkedOn : Stands(t)
  <2> SUFFICES ASSUME NEW t \in W!WorkedOn PROVE Stands(t)
    OBVIOUS
  <2> DEFINE n == tip[<<t, 0>>]
  <2>1. n = IF kinds[t] = "main" THEN 0 ELSE W!NoTip
    BY <1>5
  <2> HIDE DEF n
  <2>2. n <= W!NoTip /\ (n # W!NoTip <=> kinds[t] = "main")
    BY <2>1, TreeBounds
  <2>3. ~tree[t].dirty /\ (tree[t].there <=> kinds[t] = "main") /\ (tree[t].there => tree[t].branch = <<t, 0>>)
    BY <1>2, <1>3
  <2>4. QED
    BY <2>2, <2>3 DEF Stands, n
<1>10. \A t \in W!WorkedOn : NamesTree(t)
  BY <1>7 DEF NamesTree, Collecting
<1>11. \A r \in Runs : Locks(r) /\ Makes(r)
  BY <1>6 DEF Locks, Makes, Making
<1>12. Operates
  BY <1>7 DEF Operates, Collecting, Removing
<1>13. W!UnpushedIsKept
  BY <1>1 DEF W!UnpushedIsKept
<1>14. QED
  BY <1>8, <1>9, <1>10, <1>11, <1>12, <1>13 DEF Kept

LEMMA KeptHoldsAlways == TicketsSpec => []KeptHolds
<1>1. TicketsInit => KeptHolds
  BY KeptAtFirst DEF TicketsInit, KeptHolds
<1>2. KeptHolds /\ [TicketsNext]_ticketsVars => KeptHolds'
  <2> SUFFICES ASSUME KeptHolds, [TicketsNext]_ticketsVars, which' = "workspaces"
               PROVE  Kept'
    BY DEF KeptHolds
  <2>1. CASE UNCHANGED ticketsVars
    <3>1. which' = which /\ UNCHANGED workspacesVars
      BY <2>1 DEF ticketsVars
    <3>2. Kept
      BY <3>1 DEF KeptHolds
    <3>3. TreeTypes' /\ Operates' /\ W!UnpushedIsKept'
      BY <3>1, <3>2 DEF workspacesVars, Kept, TreeTypes, Operates, Removing, Collecting, W!UnpushedIsKept
    <3>4. \A t \in W!WorkedOn : Stands(t)' /\ NamesTree(t)'
      BY <3>1, <3>2 DEF workspacesVars, Kept, Stands, NamesTree, Gone, Collecting
    <3>5. \A r \in Runs : Locks(r)' /\ Makes(r)'
      BY <3>1, <3>2 DEF workspacesVars, Kept, Locks, Makes, Making, Collecting
    <3>6. QED
      BY <3>3, <3>4, <3>5 DEF Kept
  <2>2. CASE TicketsNext
    <3>1. which' = which /\ Kept /\ W!Next
      BY <2>2 DEF TicketsNext, KeptHolds
    <3>2. QED
      BY <3>1, KeptStep
  <2>3. QED
    BY <2>1, <2>2
<1>3. QED
  BY <1>1, <1>2, PTL DEF TicketsSpec

(* A drop or the removal of a sibling takes a branch whose commits the      *)
(* remote lacks only when they came after its check, and a queue entry names*)
(* a worktree that is there, or one that a collection removed and did not   *)
(* live to write back: for every number of runs, tickets, commits and       *)
(* operations, in any order with the runs' own steps and crashes.           *)
THEOREM TreesAreKeptAlways == TicketsSpec => []TreesAreKept
<1>1. KeptHolds => TreesAreKept
  BY DEF KeptHolds, Kept, NamesTree, Gone, TreesAreKept, W!TreesAreKept, W!EntryNamesATree
<1>2. QED
  BY <1>1, KeptHoldsAlways, PTL

-----------------------------------------------------------------------------
(* Polling.                                                                 *)

Registry == {Trackers[i] : i \in DOMAIN Trackers}
Drain    == [left : Seq(Registry), unwindowed : BOOLEAN, since : Nat, tries : Nat,
             listing : [got : BOOLEAN, tickets : SUBSET P!Ids, at : Nat]]

PollTypes ==
  /\ clock \in Nat
  /\ changed \in [P!Ids -> Nat] /\ marks \in [P!Ids -> Nat]
  /\ outlasted \in [P!Ids -> BOOLEAN]
  /\ \A id \in P!Ids : changed[id] <= clock /\ marks[id] <= clock
  /\ drain \in Drain

(* What waits for a poll is not older than the next poll's window.          *)
Sees(id) ==
  changed[id] # 0 /\ ~outlasted[id] => changed[id] >= P!Since(marks[id])

(* What a drain asks for begins at the mark or before it; and once it has   *)
(* taken what it was given, what still waits came after its listing.        *)
Drains ==
  P!Draining =>
    /\ drain.since <= P!Since(marks[P!It.id])
    /\ drain.unwindowed => drain.since = 0
    /\ drain.listing.got =>
         /\ drain.listing.at <= clock
         /\ drain.listing.tickets = {} =>
              \/ outlasted[P!It.id] /\ ~drain.unwindowed
              \/ changed[P!It.id] = 0
              \/ changed[P!It.id] >= drain.listing.at

Polled == PollTypes /\ (\A id \in P!Ids : Sees(id)) /\ Drains

PollingHolds == which = "polling" => Polled

(* The window of a mark begins at it or before.                             *)
LEMMA SinceBounds ==
  ASSUME NEW m \in Nat
  PROVE  /\ P!Since(m) \in Nat /\ P!Since(m) <= m /\ P!Since(0) = 0
         /\ \A n \in Nat : m <= n => P!Since(m) <= P!Since(n)
         /\ \A n \in Nat : m <= n + Overlap => P!Since(m) <= n
  BY PollingAssumption DEF P!Since

(* The next tracker's turn: nothing is listed yet, and the window is the one*)
(* of its mark, but in a session's first drain.                             *)
LEMMA TurnOf ==
  ASSUME PollTypes, NEW left \in Seq(Registry), NEW unwindowed \in BOOLEAN
  PROVE  /\ P!StartFor(left, unwindowed) \in Drain
         /\ P!StartFor(left, unwindowed).left = left
         /\ ~P!StartFor(left, unwindowed).listing.got
         /\ left # <<>> =>
              /\ Head(left).id \in P!Ids
              /\ P!StartFor(left, unwindowed).since <= P!Since(marks[Head(left).id])
              /\ P!StartFor(left, unwindowed).unwindowed = unwindowed
              /\ unwindowed => P!StartFor(left, unwindowed).since = 0
<1>1. P!NoListing \in [got : BOOLEAN, tickets : SUBSET P!Ids, at : Nat] /\ ~P!NoListing.got
  BY DEF P!NoListing
<1>2. CASE left = <<>>
  BY <1>1, <1>2 DEF P!StartFor, P!NoDrain, Drain
<1>3. CASE left # <<>>
  <2>1. Head(left) \in Registry
    BY <1>3
  <2>2. Head(left).id \in P!Ids
    BY <2>1 DEF Registry, P!Ids
  <2>3. marks[Head(left).id] \in Nat
    BY <2>2 DEF PollTypes
  <2>4. DEFINE s == IF unwindowed \/ marks[Head(left).id] = 0 THEN 0
                    ELSE P!Since(marks[Head(left).id])
  <2>5. s \in Nat /\ s <= P!Since(marks[Head(left).id]) /\ (unwindowed => s = 0)
    BY <2>3, SinceBounds
  <2>6. P!StartFor(left, unwindowed) =
          [left |-> left, unwindowed |-> unwindowed, tries |-> 0,
           listing |-> P!NoListing, since |-> s]
    BY <1>3 DEF P!StartFor
  <2> HIDE DEF s
  <2>7. QED
    BY <1>1, <2>2, <2>5, <2>6 DEF Drain
<1>4. QED
  BY <1>2, <1>3

(* A step that gives nobody the turn and changes neither marks nor listing. *)
LEMMA NoDrainFacts == P!NoDrain \in Drain /\ P!NoDrain.left = <<>>
  BY DEF P!NoDrain, P!NoListing, Drain

(* What the rest of a drain is.                                             *)
LEMMA ItFacts ==
  ASSUME PollTypes, P!Draining
  PROVE  /\ P!It.id \in P!Ids /\ drain.left \in Seq(Registry)
         /\ Tail(drain.left) \in Seq(Registry)
<1>1. drain.left \in Seq(Registry) /\ drain.left # <<>>
  BY DEF PollTypes, Drain, P!Draining
<1>2. Head(drain.left) \in Registry /\ Tail(drain.left) \in Seq(Registry)
  BY <1>1
<1>3. QED
  BY <1>1, <1>2 DEF P!It, Registry, P!Ids

(* A new turn, or none, with marks and tickets as they were.                *)
LEMMA PolledTurn ==
  ASSUME Polled, UNCHANGED <<clock, changed, marks, outlasted>>,
         \/ drain' = P!NoDrain
         \/ \E left \in Seq(Registry), unwindowed \in BOOLEAN :
              drain' = P!StartFor(left, unwindowed)
  PROVE  Polled'
<1>1. CASE drain' = P!NoDrain
  BY <1>1, NoDrainFacts
  DEF Polled, PollTypes, Sees, Drains, P!Draining, P!Since, P!Ids
<1>2. ASSUME NEW left \in Seq(Registry), NEW unwindowed \in BOOLEAN,
             drain' = P!StartFor(left, unwindowed)
      PROVE  Polled'
  <2>1. PollTypes
    BY DEF Polled
  <2>2. /\ drain' \in Drain /\ drain'.left = left /\ ~drain'.listing.got
        /\ left # <<>> =>
             /\ drain'.since <= P!Since(marks[Head(left).id])
             /\ drain'.unwindowed = unwindowed
             /\ unwindowed => drain'.since = 0
    BY <1>2, <2>1, TurnOf
  <2>3. PollTypes'
    BY <2>1, <2>2 DEF PollTypes, P!Ids
  <2>4. \A id \in P!Ids : Sees(id)'
    BY DEF Polled, Sees, P!Since
  <2>5. Drains'
    BY <2>2 DEF Drains, P!Draining, P!It, P!Since
  <2>6. QED
    BY <2>3, <2>4, <2>5 DEF Polled, P!Ids
<1>3. QED
  BY <1>1, <1>2

(* Time passes.                                                             *)
LEMMA PolledTick ==
  ASSUME Polled, P!Tick
  PROVE  Polled'
<1>1. /\ clock' = clock + 1 /\ UNCHANGED <<changed, marks, drain, outlasted>>
  BY DEF P!Tick
<1>2. PollTypes'
  BY <1>1 DEF Polled, PollTypes, P!Ids
<1>3. \A id \in P!Ids : Sees(id)'
  BY <1>1 DEF Polled, Sees, P!Since
<1>4. Drains'
  <2>1. P!Draining => drain.listing.at \in Nat /\ clock \in Nat
    BY DEF Polled, PollTypes, Drain
  <2>2. QED
    BY <1>1, <2>1 DEF Polled, Drains, P!Draining, P!It, P!Since
<1>5. QED
  BY <1>2, <1>3, <1>4 DEF Polled, P!Ids

(* A ticket is labelled: it is as new as can be.                            *)
LEMMA PolledLabel ==
  ASSUME Polled, P!GetsLabel
  PROVE  Polled'
<1>1. PICK x \in P!Ids : changed' = [changed EXCEPT ![x] = clock]
  BY DEF P!GetsLabel
<1>2. UNCHANGED <<clock, marks, drain, outlasted>>
  BY DEF P!GetsLabel
<1>3. PollTypes'
  BY <1>1, <1>2 DEF Polled, PollTypes, P!Ids
<1>4. \A id \in P!Ids : Sees(id)'
  <2> SUFFICES ASSUME NEW id \in P!Ids PROVE Sees(id)'
    BY DEF P!Ids
  <2>1. /\ marks[id] \in Nat /\ marks[id] <= clock /\ clock \in Nat
        /\ changed'[id] = IF id = x THEN clock ELSE changed[id]
        /\ Sees(id)
    BY <1>1 DEF Polled, PollTypes
  <2>2. P!Since(marks[id]) <= clock
    BY <2>1, SinceBounds
  <2>3. QED
    BY <1>2, <2>1, <2>2 DEF Sees, P!Since
<1>5. Drains'
  <2> SUFFICES ASSUME P!Draining PROVE Drains'
    BY <1>2 DEF Drains, P!Draining
  <2>1. P!It.id \in P!Ids /\ drain.listing.at \in Nat /\ clock \in Nat
    BY ItFacts DEF Polled, PollTypes, Drain
  <2>2. changed'[P!It.id] \in {clock, changed[P!It.id]}
    BY <1>1, <2>1 DEF Polled, PollTypes
  <2>3. Drains
    BY DEF Polled
  <2>4. QED
    BY <1>2, <2>1, <2>2, <2>3 DEF Drains, P!Draining, P!It, P!Since
<1>6. QED
  BY <1>3, <1>4, <1>5 DEF Polled, P!Ids

(* A listing leaves out only what is older than the window, and that, while *)
(* the mark is sound, is nothing.                                           *)
LEMMA PolledList ==
  ASSUME Polled, P!listWithBackoff
  PROVE  Polled'
<1>1. /\ P!Draining
      /\ drain' = [drain EXCEPT !.listing = [got |-> TRUE, tickets |-> P!Listed, at |-> clock]]
      /\ UNCHANGED <<clock, changed, marks, outlasted>>
  BY DEF P!listWithBackoff
<1>2. /\ P!It.id \in P!Ids /\ PollTypes /\ drain \in Drain /\ clock \in Nat
      /\ Drains /\ Sees(P!It.id)
  BY <1>1, ItFacts DEF Polled, PollTypes
<1>3. P!Listed \subseteq P!Ids
  BY <1>2 DEF P!Listed
<1>4. /\ drain' \in Drain /\ drain'.left = drain.left /\ drain'.since = drain.since
      /\ drain'.unwindowed = drain.unwindowed
      /\ drain'.listing.tickets = P!Listed /\ drain'.listing.at = clock
  BY <1>1, <1>2, <1>3 DEF Drain
<1>5. PollTypes'
  BY <1>1, <1>2, <1>4 DEF PollTypes, P!Ids
<1>6. \A id \in P!Ids : Sees(id)'
  BY <1>1 DEF Polled, Sees, P!Since
<1>7. Drains'
  <2>1. P!It' = P!It /\ P!Draining'
    BY <1>1, <1>4 DEF P!It, P!Draining
  <2>2. P!Listed = {} =>
          \/ outlasted[P!It.id] /\ ~drain.unwindowed
          \/ changed[P!It.id] = 0
          \/ changed[P!It.id] >= clock
    <3> SUFFICES ASSUME P!Listed = {}, changed[P!It.id] # 0
                 PROVE  outlasted[P!It.id] /\ ~drain.unwindowed
      OBVIOUS
    <3>1. ~(changed[P!It.id] >= drain.since)
      BY DEF P!Listed
    <3>2. /\ changed[P!It.id] \in Nat /\ drain.since \in Nat /\ marks[P!It.id] \in Nat
          /\ P!Since(marks[P!It.id]) \in Nat
      BY <1>2, SinceBounds DEF PollTypes, Drain
    <3>3. ~drain.unwindowed
      BY <3>1, <3>2, <1>1, <1>2 DEF Drains
    <3>4. drain.since <= P!Since(marks[P!It.id])
      BY <1>1, <1>2 DEF Drains
    <3>5. ~Sees(P!It.id) \/ outlasted[P!It.id]
      BY <3>1, <3>2, <3>4 DEF Sees
    <3>6. QED
      BY <3>3, <3>5, <1>2
  <2>3. QED
    BY <1>1, <1>2, <1>4, <2>1, <2>2 DEF Drains, P!Since
<1>8. QED
  BY <1>5, <1>6, <1>7 DEF Polled, P!Ids

(* A rate limit, or the tracker's turn is over.                             *)
LEMMA PolledLimited ==
  ASSUME Polled, P!RateLimited
  PROVE  Polled'
<1>1. /\ P!Draining /\ ~drain.listing.got
      /\ UNCHANGED <<clock, changed, marks, outlasted>>
      /\ \/ drain' = P!StartFor(Tail(drain.left), drain.unwindowed)
         \/ drain' = [drain EXCEPT !.tries = @ + 1]
  BY DEF P!RateLimited
<1>2. PollTypes /\ Tail(drain.left) \in Seq(Registry) /\ drain.unwindowed \in BOOLEAN
  BY <1>1, ItFacts DEF Polled, PollTypes, Drain
<1>3. CASE drain' = [drain EXCEPT !.tries = @ + 1]
  <2>1. /\ drain' \in Drain /\ drain'.left = drain.left /\ drain'.since = drain.since
        /\ drain'.unwindowed = drain.unwindowed /\ drain'.listing = drain.listing
    <3>1. drain \in Drain /\ drain.tries \in Nat /\ drain.tries + 1 \in Nat
      BY <1>2 DEF PollTypes, Drain
    <3>2. drain' = [drain EXCEPT !.tries = drain.tries + 1]
      BY <1>3
    <3>3. QED
      BY <3>1, <3>2 DEF Drain
  <2>2. QED
    BY <1>1, <2>1
    DEF Polled, PollTypes, Sees, Drains, P!Draining, P!It, P!Since, P!Ids
<1>4. QED
  BY <1>1, <1>2, <1>3, PolledTurn

(* The tickets of a listing are claimed: none waits any more.               *)
LEMMA PolledClaim ==
  ASSUME Polled, P!onTicket
  PROVE  Polled'
<1>1. /\ P!Draining /\ changed' = [changed EXCEPT ![P!It.id] = 0]
      /\ drain' = [drain EXCEPT !.listing.tickets = {}]
      /\ UNCHANGED <<clock, marks, outlasted>>
  BY DEF P!onTicket
<1>2. P!It.id \in P!Ids /\ PollTypes /\ drain \in Drain /\ Drains
  BY <1>1, ItFacts DEF Polled, PollTypes
<1>3. /\ drain' \in Drain /\ drain'.left = drain.left /\ drain'.since = drain.since
      /\ drain'.unwindowed = drain.unwindowed /\ drain'.listing.got = drain.listing.got
      /\ drain'.listing.at = drain.listing.at
  <2> DEFINE taken == [drain.listing EXCEPT !.tickets = {}]
  <2>1. drain.listing \in [got : BOOLEAN, tickets : SUBSET P!Ids, at : Nat]
    BY <1>2 DEF Drain
  <2>2. /\ taken \in [got : BOOLEAN, tickets : SUBSET P!Ids, at : Nat]
        /\ taken.got = drain.listing.got /\ taken.at = drain.listing.at
    BY <2>1
  <2>3. drain' = [drain EXCEPT !.listing = taken]
    BY <1>1, <1>2 DEF Drain
  <2> HIDE DEF taken
  <2>4. drain' \in Drain /\ drain'.listing = taken
    BY <1>2, <2>2, <2>3 DEF Drain
  <2>5. QED
    BY <1>2, <2>2, <2>3, <2>4 DEF Drain
<1>4. \A id \in P!Ids : changed'[id] = IF id = P!It.id THEN 0 ELSE changed[id]
  BY <1>1, <1>2 DEF PollTypes
<1>5. PollTypes'
  <2>1. changed' \in [P!Ids -> Nat]
    BY <1>1, <1>2 DEF PollTypes
  <2>2. QED
    BY <1>1, <1>2, <1>3, <1>4, <2>1 DEF PollTypes, P!Ids
<1>6. \A id \in P!Ids : Sees(id)'
  BY <1>1, <1>4 DEF Polled, Sees, P!Since
<1>7. Drains'
  BY <1>1, <1>2, <1>3, <1>4 DEF Drains, P!Draining, P!It, P!Since
<1>8. QED
  BY <1>5, <1>6, <1>7 DEF Polled, P!Ids

(* The mark is written: what still waits came after the listing, which is   *)
(* not older than the window of the new mark, or the drain is on record as  *)
(* having outlasted the overlap.                                            *)
LEMMA PolledMark ==
  ASSUME Polled, P!writeWatermark
  PROVE  Polled'
<1> DEFINE x == P!It.id
<1>1. /\ P!Draining /\ drain.listing.got /\ drain.listing.tickets = {}
      /\ marks' = [marks EXCEPT ![x] = clock]
      /\ outlasted' = [outlasted EXCEPT ![x] = (@ /\ ~drain.unwindowed) \/ clock > drain.listing.at + Overlap]
      /\ drain' = P!StartFor(Tail(drain.left), drain.unwindowed)
      /\ UNCHANGED <<clock, changed>>
  BY DEF P!writeWatermark
<1>2. /\ x \in P!Ids /\ PollTypes /\ drain \in Drain /\ Drains
      /\ Tail(drain.left) \in Seq(Registry) /\ drain.unwindowed \in BOOLEAN
      /\ clock \in Nat /\ drain.listing.at \in Nat
  BY <1>1, ItFacts DEF Polled, PollTypes, Drain
<1>3. \A id \in P!Ids : marks'[id] = IF id = x THEN clock ELSE marks[id]
  BY <1>1, <1>2 DEF PollTypes
<1>4. \A id \in P!Ids :
        outlasted'[id] = IF id = x THEN (outlasted[x] /\ ~drain.unwindowed)
                                         \/ clock > drain.listing.at + Overlap
                         ELSE outlasted[id]
  BY <1>1, <1>2 DEF PollTypes
<1>5. /\ drain' \in Drain /\ drain'.left = Tail(drain.left) /\ ~drain'.listing.got
      /\ Tail(drain.left) # <<>> =>
           /\ Head(Tail(drain.left)).id \in P!Ids
           /\ drain'.since <= P!Since(marks[Head(Tail(drain.left)).id])
           /\ drain'.unwindowed = drain.unwindowed
           /\ drain.unwindowed => drain'.since = 0
  BY <1>1, <1>2, TurnOf
<1>6. PollTypes'
  <2>1. marks' \in [P!Ids -> Nat] /\ outlasted' \in [P!Ids -> BOOLEAN]
    BY <1>1, <1>2 DEF PollTypes
  <2>2. \A id \in P!Ids : marks'[id] <= clock
    BY <1>2, <1>3 DEF PollTypes
  <2>3. QED
    BY <1>1, <1>2, <1>5, <2>1, <2>2 DEF PollTypes, P!Ids
<1> HIDE DEF x
<1>7. \A id \in P!Ids : Sees(id)'
  <2> SUFFICES ASSUME NEW id \in P!Ids PROVE Sees(id)'
    BY DEF P!Ids
  <2>1. CASE id # x
    BY <1>1, <1>3, <1>4, <2>1 DEF Polled, Sees, P!Since
  <2>2. CASE id = x
    <3> SUFFICES ASSUME changed[x] # 0, ~outlasted'[x]
                 PROVE  changed[x] >= P!Since(clock)
      BY <1>1, <1>2, <1>3, <2>2 DEF Sees, P!Since
    <3>1. ~(outlasted[x] /\ ~drain.unwindowed) /\ ~(clock > drain.listing.at + Overlap)
      BY <1>2, <1>4
    <3>2. changed[x] \in Nat /\ changed[x] >= drain.listing.at
      BY <1>1, <1>2, <3>1 DEF Drains, PollTypes, x
    <3>3. P!Since(clock) \in Nat /\ P!Since(clock) <= drain.listing.at
      <4> DEFINE a == drain.listing.at
      <4>1. clock \in Nat /\ a \in Nat /\ Overlap \in Nat /\ ~(clock > a + Overlap)
        BY <1>2, <3>1, PollingAssumption
      <4> HIDE DEF a
      <4>2. clock <= a + Overlap
        BY <4>1
      <4>3. P!Since(clock) \in Nat /\ P!Since(clock) <= a
        BY <4>1, <4>2, SinceBounds, Zenon
      <4>4. QED
        BY <4>3 DEF a
    <3>4. QED
      BY <1>2, <3>2, <3>3
  <2>3. QED
    BY <2>1, <2>2
<1>8. Drains'
  <2> SUFFICES ASSUME Tail(drain.left) # <<>>
               PROVE  drain'.since <= P!Since(marks'[Head(Tail(drain.left)).id])
    BY <1>5 DEF Drains, P!Draining, P!It, P!Since
  <2> DEFINE y == Head(Tail(drain.left)).id
  <2>1. /\ y \in P!Ids /\ drain'.since <= P!Since(marks[y]) /\ drain'.since \in Nat
    BY <1>5 DEF Drain
  <2> HIDE DEF y
  <2>2. /\ marks[y] \in Nat /\ marks[y] <= clock /\ marks'[y] \in {clock, marks[y]}
    BY <1>2, <1>3, <2>1 DEF PollTypes
  <2>3. /\ P!Since(marks[y]) \in Nat /\ P!Since(clock) \in Nat
        /\ P!Since(marks[y]) <= P!Since(clock)
    BY <1>2, <2>2, SinceBounds
  <2>4. drain'.since <= P!Since(marks'[y])
    BY <2>1, <2>2, <2>3
  <2>5. QED
    BY <2>4 DEF y
<1>9. QED
  BY <1>6, <1>7, <1>8 DEF Polled, P!Ids

(* In every run of the polling component.                                   *)
LEMMA PollingHoldsAlways == TicketsSpec => []PollingHolds
<1>1. TicketsInit => PollingHolds
  <2> SUFFICES ASSUME TicketsInit, which = "polling" PROVE Polled
    BY DEF PollingHolds
  <2>1. P!Init
    BY DEF TicketsInit
  <2>2. QED
    BY <2>1, NoDrainFacts
    DEF P!Init, Polled, PollTypes, Sees, Drains, P!Draining
<1>2. PollingHolds /\ [TicketsNext]_ticketsVars => PollingHolds'
  <2> SUFFICES ASSUME PollingHolds, [TicketsNext]_ticketsVars, which = "polling"
               PROVE  Polled'
    BY DEF PollingHolds, TicketsNext, ticketsVars
  <2>1. Polled
    BY DEF PollingHolds
  <2>2. CASE UNCHANGED ticketsVars
    BY <2>1, <2>2
    DEF ticketsVars, pollingVars, Polled, PollTypes, Sees, Drains, P!Draining,
        P!It, P!Since, P!Ids
  <2>3. CASE P!Next
    <3>1. Trackers \in Seq(Registry)
      BY PollingAssumption DEF Registry
    <3>2. CASE P!start \/ P!intervalTick \/ P!Throws \/ P!Crash
      BY <2>1, <3>1, <3>2, PolledTurn DEF P!start, P!intervalTick, P!Throws, P!Crash
    <3>3. QED
      BY <2>1, <2>3, <3>2, PolledTick, PolledLabel, PolledList, PolledLimited,
         PolledClaim, PolledMark DEF P!Next
  <2>4. QED
    BY <2>2, <2>3 DEF TicketsNext
<1>3. QED
  BY <1>1, <1>2, PTL DEF TicketsSpec

(* The next poll lists every ticket that waits, whatever changed while the  *)
(* drain before it went on, for every registry, overlap and number of       *)
(* attempts, unless that drain outlasted the overlap.                       *)
THEOREM PollSeesAllAlways == TicketsSpec => []PollSeesAll
<1>1. PollingHolds => PollSeesAll
  BY DEF PollingHolds, Polled, Sees, PollSeesAll, P!PollSeesAll, P!Ids
<1>2. QED
  BY <1>1, PollingHoldsAlways, PTL

-----------------------------------------------------------------------------
(* Triggers.                                                                *)

LabelEdit == [who : Persons, before : SUBSET T!Names, after : SUBSET T!Names]

Triggered ==
  /\ kind \in Kinds /\ events \in Seq(LabelEdit)
  /\ T!AuthorizedByTrusted

TriggersHold == which = "triggers" => Triggered

(* The page of an answer is the whole history while that fits.              *)
LEMMA WholeHistory ==
  ASSUME events \in Seq(LabelEdit), Len(events) <= Page
  PROVE  T!Answered = events
<1> DEFINE n == Len(events)
<1>1. SubSeq(events, 1, n) = events
  OBVIOUS
<1>2. n \in Nat /\ Page \in Nat /\ n <= Page
  BY TriggersAssumption
<1> HIDE DEF n
<1>3. n < Page \/ n = Page
  BY <1>2
<1>4. T!Answered = SubSeq(events, 1, n)
  BY <1>3 DEF T!Answered, n
<1>5. QED
  BY <1>1, <1>4

(* GitHub and GitLab name the last one who added the trigger; the others     *)
(* may name somebody else, and then say so.                                 *)
LEMMA TriggeredAsk ==
  ASSUME Triggered, T!Ask
  PROVE  T!AuthorizedByTrusted'
<1> DEFINE hits == SelectSeq(events, T!AddedTrigger)
           by   == T!Last(hits).who
           p    == T!labelerOf
<1>1. /\ answer' = [asked |-> TRUE, by |-> by, login |-> p,
                     ok |-> p # T!Nobody /\ T!isAuthorized(p), truly |-> T!Trusted(by),
                     stale |-> p # T!Nobody /\ kind = "github" /\ T!roleName(p) # role[p]]
      /\ UNCHANGED <<kind, events, role, changes>>
  BY DEF T!Ask
<1>2. kind \in {"github", "gitlab"} /\ Len(events) <= Page => p = IF hits = <<>> THEN T!Nobody ELSE by
  BY WholeHistory DEF T!labelerOf, T!Newest, Triggered
<1> HIDE DEF hits, by, p
<1>3. QED
  BY <1>1, <1>2, TriggersAssumption
  DEF Triggered, T!AuthorizedByTrusted, T!isAuthorized, T!Trusted, T!roleName,
      T!roleAllows, T!AllowedAndRole

(* In every run of the triggers component.                                  *)
LEMMA TriggersHoldAlways == TicketsSpec => []TriggersHold
<1>1. TicketsInit => TriggersHold
  BY DEF TicketsInit, TriggersHold, Triggered, T!Init, T!NoAnswer, T!AuthorizedByTrusted
<1>2. TriggersHold /\ [TicketsNext]_ticketsVars => TriggersHold'
  <2> SUFFICES ASSUME TriggersHold, [TicketsNext]_ticketsVars, which = "triggers"
               PROVE  Triggered'
    BY DEF TriggersHold, TicketsNext, ticketsVars
  <2>1. Triggered
    BY DEF TriggersHold
  <2>2. CASE UNCHANGED ticketsVars
    BY <2>1, <2>2 DEF ticketsVars, triggersVars, Triggered, T!AuthorizedByTrusted
  <2>3. CASE T!EditLabels
    <3>1. PICK q \in Persons, l \in T!Names :
            events' = Append(events, [who |-> q, before |-> T!labels,
                                      after |-> IF l \in T!labels THEN T!labels \ {l}
                                                ELSE T!labels \cup {l}])
      BY <2>3 DEF T!EditLabels
    <3>2. UNCHANGED <<kind, answer>>
      BY <2>3 DEF T!EditLabels
    <3>3. T!labels \subseteq T!Names
      <4>1. CASE events = <<>>
        BY <4>1 DEF T!labels
      <4>2. CASE events # <<>>
        <5>1. events[Len(events)] \in LabelEdit
          BY <2>1, <4>2 DEF Triggered
        <5>2. QED
          BY <4>2, <5>1 DEF T!labels, T!Last, LabelEdit
      <4>3. QED
        BY <4>1, <4>2
    <3>4. events' \in Seq(LabelEdit) /\ Len(events') = Len(events) + 1
      <4> DEFINE e == [who |-> q, before |-> T!labels,
                       after |-> IF l \in T!labels THEN T!labels \ {l}
                                 ELSE T!labels \cup {l}]
      <4>1. e \in LabelEdit
        BY <3>3 DEF LabelEdit
      <4> HIDE DEF e
      <4>2. events' = Append(events, e)
        BY <3>1 DEF e
      <4>3. QED
        BY <2>1, <4>1, <4>2 DEF Triggered
    <3>5. Len(events) <= Page \/ ~(Len(events') <= Page)
      BY <2>1, <3>4, TriggersAssumption DEF Triggered
    <3>6. QED
      BY <2>1, <3>2, <3>4, <3>5 DEF Triggered, T!AuthorizedByTrusted
  <2>4. CASE T!ChangeRole
    BY <2>1, <2>4 DEF T!ChangeRole, Triggered, T!AuthorizedByTrusted
  <2>5. CASE T!Ask
    BY <2>1, <2>5, TriggeredAsk DEF T!Ask, Triggered
  <2>6. CASE T!RoleLookupFails
    BY <2>1, <2>6 DEF T!RoleLookupFails, T!NoAnswer, Triggered, T!AuthorizedByTrusted
  <2>7. QED
    BY <2>2, <2>3, <2>4, <2>5, <2>6 DEF TicketsNext, T!Next
<1>3. QED
  BY <1>1, <1>2, PTL DEF TicketsSpec

(* A yes of an adapter stands for a person of trust who put the trigger     *)
(* there, or is one of the cases named: a history longer than a page, a role*)
(* kept too long, Azure and Jira's last editor.                             *)
THEOREM AuthorizedByTrustedAlways == TicketsSpec => []AuthorizedByTrusted
<1>1. TriggersHold => AuthorizedByTrusted
  BY DEF TriggersHold, Triggered, AuthorizedByTrusted
<1>2. QED
  BY <1>1, TriggersHoldAlways, PTL

-----------------------------------------------------------------------------
(* What is told to a tracker.                                               *)

Fns   == {"read", "write", "edit", "react", "move", "lookup", "post", "upsert", "editComment",
          "record", "save", "drop"}
Args  == {"", "sticky", "abstention", "rebase", "publish", "land"}
Marks == {"ready", "triage", "progress", "rebase", "abandoned"}
ACall == [fn : Fns, add : SUBSET Marks, drop : SUBSET Marks, arg : Args]

(* A lookup is followed by its post, and a post, but on Jira, preceded by   *)
(* its lookup.                                                              *)
LookedUp(p, i) == i - 1 \in 1..Len(p) /\ p[i - 1].fn = "lookup" /\ p[i - 1].arg = p[i].arg
Paired(p) ==
  /\ p \in Seq(ACall)
  /\ \A i \in 1..Len(p) :
       /\ p[i].fn = "lookup" => /\ i + 1 \in 1..Len(p)
                                /\ p[i + 1].fn = "post" /\ p[i + 1].arg = p[i].arg
       /\ p[i].fn = "post" /\ adapter.kind # "jira" => LookedUp(p, i)
       /\ p[i].fn \in {"lookup", "post"} => p[i].arg \in B!Keys

(* The calls of a claim, which ends with its entry saved.                   *)
Claims(p) ==
  /\ \A i \in 1..Len(p) : p[i].fn \in B!Plain \cup {"read", "lookup", "post", "save"}
  /\ p # <<>> => p[Len(p)].fn = "save"

(* A comment that was posted is one that is remembered, or excused.         *)
Excused(k) == posted[k] # "none" \/ posts[k] <= excuses[k]

Told ==
  /\ plan = <<>> \/ held.there
  /\ posts \in [B!Keys -> Nat] /\ excuses \in [B!Keys -> Nat]
  /\ DOMAIN posted = B!Keys
  /\ B!CommentedOnce
  /\ adapter.kind = "jira" => \A k \in B!Keys : Excused(k)
  /\ \/ Paired(plan)
     \/ /\ plan \in Seq(ACall) /\ plan # <<>> /\ Head(plan).fn = "post" /\ Paired(Tail(plan))
        /\ Head(plan).arg \in B!Keys /\ Excused(Head(plan).arg)
  /\ ~disk.there => /\ Claims(plan)
                    /\ plan = <<>> /\ "ready" \notin labels => faults > 0
  /\ faults \in Nat
ToldHolds == which = "writeBacks" => Told

LEMMA Shifted ==
  ASSUME NEW m \in Nat, NEW n \in Nat, NEW j \in 1..n
  PROVE  /\ j + 1 \in 1..n => m + j + 1 \in 1..(m + n) /\ m + j + 1 = m + (j + 1)
         /\ j - 1 \in 1..n => (m + j) - 1 \in 1..(m + n) /\ (m + j) - 1 = m + (j - 1)
  OBVIOUS

(* Operations are put together of calls and of comments.                    *)
LEMMA Joined ==
  ASSUME NEW p, NEW q, Paired(p), Paired(q)
  PROVE  Paired(p \o q)
<1> DEFINE r == p \o q
           m == Len(p)
           n == Len(q)
<1>1. p \in Seq(ACall) /\ q \in Seq(ACall) /\ m \in Nat /\ n \in Nat
  BY DEF Paired
<1>2. /\ r \in Seq(ACall) /\ Len(r) = m + n
      /\ \A i \in 1..m : r[i] = p[i]
      /\ \A i \in 1..n : r[m + i] = q[i]
  BY <1>1
<1> HIDE DEF r, m, n
<1>3. ASSUME NEW i \in 1..m
      PROVE  /\ r[i].fn = "lookup" => /\ i + 1 \in 1..Len(r)
                                      /\ r[i + 1].fn = "post" /\ r[i + 1].arg = r[i].arg
             /\ r[i].fn = "post" /\ adapter.kind # "jira" => LookedUp(r, i)
             /\ r[i].fn \in {"lookup", "post"} => r[i].arg \in B!Keys
  <2>1. /\ p[i].fn = "lookup" => /\ i + 1 \in 1..m
                                 /\ p[i + 1].fn = "post" /\ p[i + 1].arg = p[i].arg
        /\ p[i].fn = "post" /\ adapter.kind # "jira" =>
             i - 1 \in 1..m /\ p[i - 1].fn = "lookup" /\ p[i - 1].arg = p[i].arg
        /\ p[i].fn \in {"lookup", "post"} => p[i].arg \in B!Keys
    BY <1>3 DEF Paired, LookedUp, m
  <2>2. /\ r[i] = p[i]
        /\ i + 1 \in 1..m => i + 1 \in 1..Len(r) /\ r[i + 1] = p[i + 1]
        /\ i - 1 \in 1..m => i - 1 \in 1..Len(r) /\ r[i - 1] = p[i - 1]
    BY <1>1, <1>2
  <2>3. QED
    BY <2>1, <2>2 DEF LookedUp
<1>4. ASSUME NEW j \in 1..n
      PROVE  /\ r[m + j].fn = "lookup" => /\ m + j + 1 \in 1..Len(r)
                                          /\ r[m + j + 1].fn = "post" /\ r[m + j + 1].arg = r[m + j].arg
             /\ r[m + j].fn = "post" /\ adapter.kind # "jira" => LookedUp(r, m + j)
             /\ r[m + j].fn \in {"lookup", "post"} => r[m + j].arg \in B!Keys
  <2>1. /\ q[j].fn = "lookup" => /\ j + 1 \in 1..n
                                 /\ q[j + 1].fn = "post" /\ q[j + 1].arg = q[j].arg
        /\ q[j].fn = "post" /\ adapter.kind # "jira" =>
             j - 1 \in 1..n /\ q[j - 1].fn = "lookup" /\ q[j - 1].arg = q[j].arg
        /\ q[j].fn \in {"lookup", "post"} => q[j].arg \in B!Keys
    BY <1>4 DEF Paired, LookedUp, n
  <2>2. /\ r[m + j] = q[j]
        /\ j + 1 \in 1..n => m + j + 1 \in 1..Len(r) /\ r[m + j + 1] = q[j + 1]
        /\ j - 1 \in 1..n => (m + j) - 1 \in 1..Len(r) /\ r[(m + j) - 1] = q[j - 1]
    <3>1. /\ j + 1 \in 1..n => m + j + 1 \in 1..Len(r) /\ m + j + 1 = m + (j + 1)
          /\ j - 1 \in 1..n => (m + j) - 1 \in 1..Len(r) /\ (m + j) - 1 = m + (j - 1)
      BY <1>1, <1>2, Shifted
    <3>2. QED
      BY <1>2, <3>1
  <2> DEFINE i == m + j
  <2>3. /\ q[j].fn = "lookup" => /\ i + 1 \in 1..Len(r)
                                 /\ r[i + 1].fn = "post" /\ r[i + 1].arg = q[j].arg
        /\ q[j].fn = "post" /\ adapter.kind # "jira" =>
             i - 1 \in 1..Len(r) /\ r[i - 1].fn = "lookup" /\ r[i - 1].arg = q[j].arg
        /\ q[j].fn \in {"lookup", "post"} => q[j].arg \in B!Keys
        /\ r[i] = q[j]
    <3>1. CASE q[j].fn = "lookup"
      <4>1. r[i + 1] = q[j + 1] /\ i + 1 \in 1..Len(r)
        BY <2>1, <2>2, <3>1
      <4>2. QED
        BY <2>1, <2>2, <3>1, <4>1
    <3>2. CASE q[j].fn = "post" /\ adapter.kind # "jira"
      <4>1. j - 1 \in 1..n
        BY <2>1, <3>2, Zenon
      <4>2. r[i - 1] = q[j - 1] /\ i - 1 \in 1..Len(r)
        BY <2>2, <4>1
      <4>3. QED
        BY <2>1, <2>2, <3>2, <4>2
    <3>3. CASE q[j].fn # "lookup" /\ ~(q[j].fn = "post" /\ adapter.kind # "jira")
      BY <2>1, <2>2, <3>3
    <3>4. QED
      BY <3>1, <3>2, <3>3
  <2> HIDE DEF i
  <2>4. QED
    BY <2>3 DEF LookedUp, i
<1>5. \A i \in 1..Len(r) : i \in 1..m \/ \E j \in 1..n : i = m + j
  <2> SUFFICES ASSUME NEW i \in 1..Len(r), i \notin 1..m
               PROVE  \E j \in 1..n : i = m + j
    OBVIOUS
  <2>1. i - m \in 1..n /\ i = m + (i - m)
    BY <1>1, <1>2
  <2>2. QED
    BY <2>1
<1>6. Paired(r)
  <2>1. ASSUME NEW i \in 1..Len(r)
        PROVE  /\ r[i].fn = "lookup" => /\ i + 1 \in 1..Len(r)
                                        /\ r[i + 1].fn = "post" /\ r[i + 1].arg = r[i].arg
               /\ r[i].fn = "post" /\ adapter.kind # "jira" => LookedUp(r, i)
               /\ r[i].fn \in {"lookup", "post"} => r[i].arg \in B!Keys
    <3>1. CASE i \in 1..m
      BY <1>3, <3>1
    <3>2. CASE i \notin 1..m
      <4>1. PICK j \in 1..n : i = m + j
        BY <1>5, <3>2
      <4>2. QED
        BY <1>4, <4>1
    <3>3. QED
      BY <3>1, <3>2
  <2>2. QED
    BY <1>2, <2>1 DEF Paired
<1>7. QED
  BY <1>6 DEF r

LEMMA JoinedFns ==
  ASSUME NEW p \in Seq(ACall), NEW q \in Seq(ACall), NEW F,
         \A i \in 1..Len(p) : p[i].fn \in F, \A i \in 1..Len(q) : q[i].fn \in F
  PROVE  /\ p \o q \in Seq(ACall)
         /\ \A i \in 1..Len(p \o q) : (p \o q)[i].fn \in F
<1>1. \A i \in 1..Len(p \o q) :
        \/ i \in 1..Len(p) /\ (p \o q)[i] = p[i]
        \/ i - Len(p) \in 1..Len(q) /\ (p \o q)[i] = q[i - Len(p)]
  OBVIOUS
<1>2. QED
  BY <1>1

LEMMA StillMore ==
  ASSUME NEW S, NEW s \in Seq(S), s # <<>>, Len(s) # 1
  PROVE  /\ Tail(s) # <<>> /\ Head(Tail(s)) = s[2] /\ Len(s) >= 2
         /\ Tail(s)[Len(Tail(s))] = s[Len(s)]
<1>1. /\ Len(s) \in Nat /\ Len(s) >= 2
      /\ Tail(s) \in Seq(S) /\ Len(Tail(s)) = Len(s) - 1
      /\ \A i \in 1..(Len(s) - 1) : Tail(s)[i] = s[i + 1]
  <2>1. /\ Len(s) \in Nat /\ Len(s) >= 1
        /\ Tail(s) \in Seq(S) /\ Len(Tail(s)) = Len(s) - 1
        /\ \A i \in 1..(Len(s) - 1) : Tail(s)[i] = s[i + 1]
    BY TailOf, Zenon
  <2>2. Len(s) >= 2
    BY <2>1
  <2>3. QED
    BY <2>1, <2>2
<1>2. 1 \in 1..(Len(s) - 1) /\ Len(s) - 1 \in 1..(Len(s) - 1) /\ (Len(s) - 1) + 1 = Len(s) /\ 1 + 1 = 2
  BY <1>1
<1>3. Tail(s) # <<>>
  <2>1. Len(<<>>) = 0
    OBVIOUS
  <2> DEFINE v == Tail(s)
             n == Len(s)
  <2>2. Len(v) = n - 1 /\ n \in Nat /\ n >= 2
    BY <1>1
  <2> HIDE DEF v, n
  <2>3. Len(v) # 0
    BY <2>2
  <2>4. v # <<>>
    BY <2>1, <2>3
  <2>5. QED
    BY <2>4 DEF v
<1>4. Head(Tail(s)) = Tail(s)[1]
  BY <1>1, <1>3, TailOf
<1>5. QED
  BY <1>1, <1>2, <1>3, <1>4

(* One call, a comment, and what comes after the first.                     *)
LEMMA OneCall ==
  ASSUME NEW fn \in Fns, NEW add \in SUBSET Marks, NEW drop \in SUBSET Marks,
         NEW arg \in Args, fn \notin {"lookup", "post"}
  PROVE  Paired(<<B!Call(fn, add, drop, arg)>>)
<1> DEFINE c == B!Call(fn, add, drop, arg)
<1>1. c \in ACall /\ c.fn = fn
  BY DEF B!Call, ACall
<1> HIDE DEF c
<1>2. <<c>> \in Seq(ACall) /\ Len(<<c>>) = 1 /\ <<c>>[1] = c
  BY <1>1
<1>3. \A i \in 1..Len(<<c>>) : <<c>>[i] = c
  BY <1>2
<1>4. Paired(<<c>>)
  BY <1>1, <1>2, <1>3 DEF Paired
<1>5. QED
  BY <1>4 DEF c

LEMMA AComment ==
  ASSUME NEW k \in B!Keys
  PROVE  Paired(B!comment(k))
<1> DEFINE l == B!Call("lookup", {}, {}, k)
           c == B!Call("post", {}, {}, k)
<1>1. l \in ACall /\ l.fn = "lookup" /\ l.arg = k /\ c \in ACall /\ c.fn = "post" /\ c.arg = k
  <2>1. k \in Args /\ {} \in SUBSET Marks /\ "lookup" \in Fns /\ "post" \in Fns
    BY DEF B!Keys, Args, Fns
  <2>2. l \in ACall /\ c \in ACall
    BY <2>1 DEF B!Call, ACall
  <2>3. QED
    BY <2>2 DEF B!Call
<1> HIDE DEF l, c
<1>2. CASE adapter.kind = "local"
  <2>1. Paired(<<>>)
    BY DEF Paired
  <2>2. QED
    BY <1>2, <2>1 DEF B!comment
<1>3. CASE adapter.kind = "jira"
  <2>1. Paired(<<>>)
    BY DEF Paired
  <2>2. Paired(<<c>>)
    <3>1. <<c>> \in Seq(ACall) /\ \A i \in 1..Len(<<c>>) : <<c>>[i] = c
      BY <1>1
    <3>2. QED
      BY <1>1, <1>3, <3>1 DEF Paired
  <2>3. QED
    BY <1>3, <2>1, <2>2 DEF B!comment, c
<1>4. CASE adapter.kind \notin {"local", "jira"}
  <2> DEFINE s == <<l, c>>
  <2>1. s \in Seq(ACall) /\ Len(s) = 2 /\ s[1] = l /\ s[2] = c
    BY <1>1
  <2> HIDE DEF s
  <2>2. \A i \in 1..2 : i = 1 \/ i = 2
    OBVIOUS
  <2>3. 1 + 1 = 2 /\ 2 - 1 = 1 /\ 1 \in 1..2 /\ 2 \in 1..2
    OBVIOUS
  <2>4. ASSUME NEW i \in 1..2
        PROVE  /\ s[i].fn = "lookup" => /\ i + 1 \in 1..2
                                        /\ s[i + 1].fn = "post" /\ s[i + 1].arg = s[i].arg
               /\ s[i].fn = "post" => i - 1 \in 1..2 /\ s[i - 1].fn = "lookup" /\ s[i - 1].arg = s[i].arg
               /\ s[i].arg \in B!Keys
    BY <1>1, <2>1, <2>2, <2>3
  <2>5. Paired(s)
    BY <2>1, <2>4 DEF Paired, LookedUp
  <2>6. QED
    BY <1>4, <2>5 DEF B!comment, s, l, c
<1>5. QED
  BY <1>2, <1>3, <1>4

LEMMA RestOf ==
  ASSUME NEW p, Paired(p), p # <<>>, Head(p).fn # "lookup"
  PROVE  Paired(Tail(p))
<1> DEFINE t == Tail(p)
           n == Len(p)
<1>1. /\ p \in Seq(ACall) /\ t \in Seq(ACall) /\ n \in Nat /\ n >= 1 /\ Len(t) = n - 1
      /\ p[1].fn # "lookup" /\ \A i \in 1..(n - 1) : t[i] = p[i + 1]
  BY DEF Paired
<1> HIDE DEF t
<1>2. ASSUME NEW i \in 1..(n - 1)
      PROVE  /\ t[i].fn = "lookup" => /\ i + 1 \in 1..(n - 1)
                                      /\ t[i + 1].fn = "post" /\ t[i + 1].arg = t[i].arg
             /\ t[i].fn = "post" /\ adapter.kind # "jira" =>
                  i - 1 \in 1..(n - 1) /\ t[i - 1].fn = "lookup" /\ t[i - 1].arg = t[i].arg
             /\ t[i].fn \in {"lookup", "post"} => t[i].arg \in B!Keys
  <2>1. i + 1 \in 1..n /\ (i + 1) - 1 = i
    BY <1>1
  <2>2. /\ p[i + 1].fn = "lookup" => /\ (i + 1) + 1 \in 1..n
                                     /\ p[(i + 1) + 1].fn = "post" /\ p[(i + 1) + 1].arg = p[i + 1].arg
        /\ p[i + 1].fn = "post" /\ adapter.kind # "jira" =>
             p[i].fn = "lookup" /\ p[i].arg = p[i + 1].arg
        /\ p[i + 1].fn \in {"lookup", "post"} => p[i + 1].arg \in B!Keys
    BY <2>1 DEF Paired, LookedUp, n
  <2>3. t[i] = p[i + 1]
    BY <1>1
  <2>4. (i + 1) + 1 \in 1..n => i + 1 \in 1..(n - 1) /\ t[i + 1] = p[(i + 1) + 1]
    BY <1>1
  <2>5. i # 1 => i - 1 \in 1..(n - 1) /\ t[i - 1] = p[i]
    <3>1. i # 1 => i - 1 \in 1..(n - 1) /\ (i - 1) + 1 = i
      BY <1>1
    <3>2. QED
      BY <1>1, <3>1
  <2>6. i = 1 => p[i].fn # "lookup"
    BY <1>1
  <2> HIDE DEF n
  <2>7. t[i].fn = "lookup" => /\ i + 1 \in 1..(n - 1)
                              /\ t[i + 1].fn = "post" /\ t[i + 1].arg = t[i].arg
    BY <2>2, <2>3, <2>4
  <2>8. t[i].fn = "post" /\ adapter.kind # "jira" =>
          i - 1 \in 1..(n - 1) /\ t[i - 1].fn = "lookup" /\ t[i - 1].arg = t[i].arg
    BY <2>2, <2>3, <2>5, <2>6
  <2>9. QED
    BY <2>2, <2>3, <2>7, <2>8
<1>3. Paired(t)
  BY <1>1, <1>2 DEF Paired, LookedUp
<1>4. QED
  BY <1>3 DEF t

LEMMA RestOfLookup ==
  ASSUME NEW p, Paired(p), p # <<>>, Head(p).fn = "lookup"
  PROVE  /\ Tail(p) \in Seq(ACall) /\ Tail(p) # <<>>
         /\ Head(Tail(p)).fn = "post" /\ Head(Tail(p)).arg = Head(p).arg
         /\ Head(p).arg \in B!Keys
         /\ Paired(Tail(Tail(p))) /\ SubSeq(p, 3, Len(p)) = Tail(Tail(p))
<1> DEFINE n == Len(p)
           t == SubSeq(p, 3, n)
<1>1. p \in Seq(ACall) /\ n \in Nat /\ n >= 1 /\ p[1] = Head(p) /\ 1 \in 1..n
  BY DEF Paired
<1>2. 2 \in 1..n /\ p[2].fn = "post" /\ p[2].arg = p[1].arg /\ p[1].arg \in B!Keys
  <2>1. 1 + 1 = 2
    OBVIOUS
  <2>2. QED
    BY <1>1, <2>1 DEF Paired, n
<1>3. /\ Tail(p) \in Seq(ACall) /\ Len(Tail(p)) = n - 1 /\ Tail(p)[1] = p[2] /\ n >= 2
  BY <1>1, <1>2
<1>4. /\ t \in Seq(ACall) /\ Len(t) = n - 2 /\ \A i \in 1..(n - 2) : t[i] = p[i + 2]
  BY <1>1, <1>3
<1>5. t = Tail(Tail(p))
  <2> DEFINE u == Tail(Tail(p))
  <2>1. u \in Seq(ACall) /\ Len(u) = n - 2 /\ \A i \in 1..(n - 2) : u[i] = p[i + 2]
    <3>1. \A i \in 1..(n - 1) : Tail(p)[i] = p[i + 1]
      BY <1>1, <1>3
    <3> DEFINE v == Tail(p)
    <3>2. v \in Seq(ACall) /\ Len(v) = n - 1 /\ \A i \in 1..(n - 1) : v[i] = p[i + 1]
      BY <1>3, <3>1
    <3> HIDE DEF v
    <3>3. Tail(v) \in Seq(ACall) /\ Len(Tail(v)) = n - 2 /\ \A i \in 1..(n - 2) : Tail(v)[i] = v[i + 1]
      <4>1. v # <<>>
        <5>1. Len(<<>>) = 0
          OBVIOUS
        <5>2. QED
          BY <1>3, <3>2, <5>1
      <4>2. /\ Tail(v) \in Seq(ACall) /\ Len(Tail(v)) = Len(v) - 1
            /\ \A i \in 1..(Len(v) - 1) : Tail(v)[i] = v[i + 1]
        BY <3>2, <4>1, TailOf
      <4>3. Len(v) - 1 = n - 2
        BY <1>1, <3>2
      <4> HIDE DEF n
      <4>4. QED
        BY <4>2, <4>3
    <3>4. \A i \in 1..(n - 2) : i + 1 \in 1..(n - 1) /\ (i + 1) + 1 = i + 2
      BY <1>1, <1>3
    <3>5. \A i \in 1..(n - 2) : Tail(v)[i] = p[i + 2]
      BY <3>2, <3>3, <3>4
    <3>6. QED
      BY <3>3, <3>5 DEF v
  <2> HIDE DEF t, u
  <2>2. t = u
    BY <1>4, <2>1, SeqEqual
  <2>3. QED
    BY <2>2 DEF u
<1> HIDE DEF t
<1>6. ASSUME NEW i \in 1..(n - 2)
      PROVE  /\ t[i].fn = "lookup" => /\ i + 1 \in 1..(n - 2)
                                      /\ t[i + 1].fn = "post" /\ t[i + 1].arg = t[i].arg
             /\ t[i].fn = "post" /\ adapter.kind # "jira" =>
                  i - 1 \in 1..(n - 2) /\ t[i - 1].fn = "lookup" /\ t[i - 1].arg = t[i].arg
             /\ t[i].fn \in {"lookup", "post"} => t[i].arg \in B!Keys
  <2>1. i + 2 \in 1..n /\ (i + 2) - 1 = i + 1
    BY <1>1, <1>3
  <2>2. /\ p[i + 2].fn = "lookup" => /\ (i + 2) + 1 \in 1..n
                                     /\ p[(i + 2) + 1].fn = "post" /\ p[(i + 2) + 1].arg = p[i + 2].arg
        /\ p[i + 2].fn = "post" /\ adapter.kind # "jira" =>
             p[i + 1].fn = "lookup" /\ p[i + 1].arg = p[i + 2].arg
        /\ p[i + 2].fn \in {"lookup", "post"} => p[i + 2].arg \in B!Keys
    BY <2>1 DEF Paired, LookedUp, n
  <2>3. t[i] = p[i + 2]
    BY <1>4
  <2>4. (i + 2) + 1 \in 1..n => i + 1 \in 1..(n - 2) /\ t[i + 1] = p[(i + 2) + 1]
    <3>1. (i + 2) + 1 \in 1..n => i + 1 \in 1..(n - 2) /\ (i + 1) + 2 = (i + 2) + 1
      BY <1>1, <1>3
    <3>2. QED
      BY <1>4, <3>1
  <2>5. i # 1 => i - 1 \in 1..(n - 2) /\ t[i - 1] = p[i + 1]
    <3>1. i # 1 => i - 1 \in 1..(n - 2) /\ (i - 1) + 2 = i + 1
      BY <1>1, <1>3
    <3>2. QED
      BY <1>4, <3>1
  <2>6. i = 1 => p[i + 1].fn # "lookup"
    BY <1>2
  <2> HIDE DEF n
  <2>7. t[i].fn = "lookup" => /\ i + 1 \in 1..(n - 2)
                              /\ t[i + 1].fn = "post" /\ t[i + 1].arg = t[i].arg
    BY <2>2, <2>3, <2>4
  <2>8. t[i].fn = "post" /\ adapter.kind # "jira" =>
          i - 1 \in 1..(n - 2) /\ t[i - 1].fn = "lookup" /\ t[i - 1].arg = t[i].arg
    BY <2>2, <2>3, <2>5, <2>6
  <2>9. QED
    BY <2>2, <2>3, <2>7, <2>8
<1>7. Paired(t)
  BY <1>4, <1>6 DEF Paired, LookedUp
<1>8. Tail(p) # <<>> /\ Head(Tail(p)) = p[2]
  BY <1>1, <1>3, StillMore DEF n
<1>9. QED
  BY <1>1, <1>2, <1>3, <1>5, <1>7, <1>8 DEF t, n

(* The calls an operation of a claim is made of.                            *)
ClaimFns == B!Plain \cup {"read", "lookup", "post", "save"}
OfClaim(p) == Paired(p) /\ \A i \in 1..Len(p) : p[i].fn \in ClaimFns

LEMMA OfClaimJoined ==
  ASSUME NEW p, NEW q, OfClaim(p), OfClaim(q)
  PROVE  OfClaim(p \o q)
<1>1. p \in Seq(ACall) /\ q \in Seq(ACall)
  BY DEF OfClaim, Paired
<1>2. Paired(p \o q)
  BY Joined DEF OfClaim
<1>3. \A i \in 1..Len(p \o q) : (p \o q)[i].fn \in ClaimFns
  BY <1>1, JoinedFns DEF OfClaim
<1>4. QED
  BY <1>2, <1>3 DEF OfClaim

LEMMA NoCalls == OfClaim(<<>>)
<1>1. <<>> \in Seq(ACall) /\ 1..Len(<<>>) = {}
  OBVIOUS
<1>2. QED
  BY <1>1 DEF OfClaim, Paired

LEMMA PlainCall ==
  ASSUME NEW fn \in B!Plain \cup {"read", "save"}, NEW add \in SUBSET Marks, NEW drop \in SUBSET Marks
  PROVE  OfClaim(<<B!Call(fn, add, drop, "")>>)
<1> DEFINE c == B!Call(fn, add, drop, "")
<1>1. fn \in Fns /\ fn \notin {"lookup", "post"} /\ fn \in ClaimFns /\ "" \in Args
  BY DEF B!Plain, Fns, ClaimFns, Args
<1>2. Paired(<<c>>)
  BY <1>1, OneCall
<1>3. c.fn = fn
  BY DEF B!Call
<1> HIDE DEF c
<1>4. Len(<<c>>) = 1 /\ \A i \in 1..Len(<<c>>) : <<c>>[i] = c
  OBVIOUS
<1>5. OfClaim(<<c>>)
  BY <1>1, <1>2, <1>3, <1>4 DEF OfClaim
<1>6. QED
  BY <1>5 DEF c

LEMMA CommentOfClaim ==
  ASSUME NEW k \in B!Keys
  PROVE  OfClaim(B!comment(k))
<1> DEFINE l == B!Call("lookup", {}, {}, k)
           c == B!Call("post", {}, {}, k)
<1>1. l.fn \in ClaimFns /\ c.fn \in ClaimFns
  BY DEF B!Call, ClaimFns
<1>2. B!comment(k) \in {<<>>, <<c>>, <<l, c>>}
  BY DEF B!comment
<1> HIDE DEF l, c
<1>3. \A p \in {<<>>, <<c>>, <<l, c>>} : \A i \in 1..Len(p) : p[i].fn \in ClaimFns
  <2>1. \A i \in 1..Len(<<>>) : <<>>[i].fn \in ClaimFns
    OBVIOUS
  <2>2. \A i \in 1..Len(<<c>>) : <<c>>[i].fn \in ClaimFns
    BY <1>1
  <2>3. \A i \in 1..Len(<<l, c>>) : <<l, c>>[i].fn \in ClaimFns
    <3>1. Len(<<l, c>>) = 2 /\ <<l, c>>[1] = l /\ <<l, c>>[2] = c /\ \A i \in 1..2 : i = 1 \/ i = 2
      OBVIOUS
    <3>2. QED
      BY <1>1, <3>1
  <2>4. QED
    BY <2>1, <2>2, <2>3
<1>4. QED
  BY <1>2, <1>3, AComment DEF OfClaim

LEMMA EditOfClaim ==
  ASSUME NEW add \in SUBSET Marks, NEW drop \in SUBSET Marks
  PROVE  OfClaim(B!Edit(add, drop))
<1> DEFINE r == B!Call("read", {}, {}, "")
           w == B!Call("write", add, drop, "")
           d == B!Call("edit", add, drop, "")
<1>1. OfClaim(<<r>>) /\ OfClaim(<<w>>) /\ OfClaim(<<d>>) /\ OfClaim(<<>>)
  BY PlainCall, NoCalls DEF B!Plain
<1>2. B!Edit(add, drop) \in {<<>>, <<d>>, <<r, w>>}
  BY DEF B!Edit
<1> HIDE DEF r, w, d
<1>3. <<r, w>> = <<r>> \o <<w>>
  <2> DEFINE S == {r, w}
  <2>1. <<r>> \in Seq(S) /\ <<w>> \in Seq(S) /\ <<r, w>> \in Seq(S)
    OBVIOUS
  <2>2. Len(<<r, w>>) = 2 /\ Len(<<r>> \o <<w>>) = 2
    BY <2>1
  <2>3. \A i \in 1..2 : <<r, w>>[i] = (<<r>> \o <<w>>)[i]
    BY <2>1
  <2>4. <<r>> \o <<w>> \in Seq(S)
    BY <2>1
  <2> HIDE DEF S
  <2>5. QED
    BY <2>1, <2>2, <2>3, <2>4, SeqEqual
<1>4. OfClaim(<<r, w>>)
  BY <1>1, <1>3, OfClaimJoined
<1>5. QED
  BY <1>1, <1>2, <1>4

LEMMA ClaimTicketOfClaim == OfClaim(B!claimTicket)
<1>1. /\ OfClaim(B!removeLabel("ready")) /\ OfClaim(B!addLabel("progress"))
      /\ OfClaim(B!Edit({"progress"}, B!CLAIM_DROP))
  <2>1. {"ready"} \in SUBSET Marks /\ {"progress"} \in SUBSET Marks /\ B!CLAIM_DROP \in SUBSET Marks
        /\ {} \in SUBSET Marks
    BY DEF Marks, B!CLAIM_DROP
  <2>2. QED
    BY <2>1, EditOfClaim DEF B!removeLabel, B!addLabel
<1>2. OfClaim(<<B!Call("react", {}, {}, "")>>) /\ OfClaim(<<B!Call("move", {}, {}, "")>>)
  BY PlainCall DEF B!Plain
<1>3. OfClaim(B!acknowledge)
  <2>1. OfClaim(B!Edit({"progress"}, B!CLAIM_DROP) \o <<B!Call("move", {}, {}, "")>>)
    BY <1>1, <1>2, OfClaimJoined
  <2>2. OfClaim(B!removeLabel("ready") \o B!addLabel("progress") \o <<B!Call("move", {}, {}, "")>>)
    BY <1>1, <1>2, OfClaimJoined
  <2>3. QED
    BY <1>2, <2>1, <2>2, NoCalls DEF B!acknowledge
<1>4. QED
  BY <1>1, <1>3, OfClaimJoined DEF B!claimTicket

LEMMA SavedLast ==
  ASSUME NEW p, OfClaim(p)
  PROVE  OfClaim(p \o B!Save) /\ Claims(p \o B!Save) /\ p \o B!Save # <<>>
<1> DEFINE c == B!Call("save", {}, {}, "")
<1>1. OfClaim(<<c>>)
  BY PlainCall
<1>2. c.fn = "save"
  BY DEF B!Call
<1>3. B!Save = <<c>>
  BY DEF B!Save
<1> HIDE DEF c
<1>4. p \in Seq(ACall) /\ <<c>> \in Seq(ACall)
  BY <1>1 DEF OfClaim, Paired
<1>5. Len(p \o <<c>>) = Len(p) + 1 /\ (p \o <<c>>)[Len(p) + 1] = c
  BY <1>4
<1>6. p \o <<c>> # <<>>
  <2>1. Len(<<>>) = 0 /\ Len(p) \in Nat
    BY <1>4
  <2> DEFINE q == p \o <<c>>
             n == Len(p)
  <2>2. Len(q) = n + 1
    BY <1>5
  <2> HIDE DEF q, n
  <2>3. q # <<>>
    BY <2>1, <2>2 DEF n
  <2>4. QED
    BY <2>3 DEF q
<1>7. OfClaim(p \o <<c>>)
  BY <1>1, OfClaimJoined
<1>8. Claims(p \o <<c>>)
  BY <1>2, <1>5, <1>7 DEF Claims, OfClaim, ClaimFns
<1>9. QED
  BY <1>3, <1>6, <1>7, <1>8

LEMMA OperationPaired ==
  ASSUME NEW name \in {"claim", "abstain", "publish", "land", "rebase", "retry"}
  PROVE  /\ Paired(B!Operation(name)) /\ B!Operation(name) # <<>>
         /\ name \in {"claim", "abstain"} => Claims(B!Operation(name))
<1>1. OfClaim(B!addLabel("triage")) /\ OfClaim(B!addLabel("rebase"))
  <2>1. {"triage"} \in SUBSET Marks /\ {"rebase"} \in SUBSET Marks /\ {} \in SUBSET Marks
    BY DEF Marks
  <2>2. QED
    BY <2>1, EditOfClaim DEF B!addLabel
<1>2. OfClaim(B!comment("abstention")) /\ OfClaim(B!comment("rebase"))
  BY CommentOfClaim DEF B!Keys
<1>3. CASE name \in {"claim", "abstain", "rebase"}
  <2>1. OfClaim(B!Body(name))
    <3>1. OfClaim(B!claimTicket \o B!comment("abstention") \o B!addLabel("triage"))
      BY <1>1, <1>2, ClaimTicketOfClaim, OfClaimJoined
    <3>2. OfClaim(B!addLabel("rebase") \o B!comment("rebase"))
      BY <1>1, <1>2, OfClaimJoined
    <3>3. QED
      BY <1>3, <3>1, <3>2, ClaimTicketOfClaim DEF B!Body
  <2>2. B!Operation(name) = B!Body(name) \o B!Save
    BY <1>3 DEF B!Operation
  <2>3. QED
    BY <2>1, <2>2, SavedLast DEF OfClaim
<1>4. CASE name \in {"publish", "land"}
  <2> DEFINE u == B!Call("upsert", {}, {}, name)
             s == B!Call("save", {}, {}, "")
  <2>1. Paired(<<u>>)
    <3>1. name \in Args /\ "upsert" \in Fns /\ {} \in SUBSET Marks
      BY <1>4 DEF Args, Fns
    <3>2. QED
      BY <3>1, OneCall
  <2>2. Paired(<<s>>)
    BY PlainCall DEF OfClaim
  <2>3. B!Operation(name) = <<u>> \o <<s>>
    BY <1>4 DEF B!Operation, B!Body, B!Save
  <2> HIDE DEF u, s
  <2>4. Paired(<<u>> \o <<s>>)
    BY <2>1, <2>2, Joined
  <2>5. <<u>> \o <<s>> # <<>>
    OBVIOUS
  <2>6. QED
    BY <1>4, <2>3, <2>4, <2>5
<1>5. CASE name = "retry"
  <2> DEFINE d == B!Call("drop", {}, {"abandoned"}, "")
             s == B!Call("save", {}, {}, "")
  <2>1. Paired(<<d>>)
    <3>1. "" \in Args /\ "drop" \in Fns /\ {} \in SUBSET Marks /\ {"abandoned"} \in SUBSET Marks
      BY DEF Args, Fns, Marks
    <3>2. QED
      BY <3>1, OneCall
  <2>2. Paired(<<s>>)
    BY PlainCall DEF OfClaim
  <2>3. B!Operation(name) = <<s>> \o <<d>>
    BY <1>5 DEF B!Operation, B!Unlabel, B!Save
  <2> HIDE DEF d, s
  <2>4. Paired(<<s>> \o <<d>>)
    BY <2>1, <2>2, Joined
  <2>5. <<s>> \o <<d>> # <<>>
    OBVIOUS
  <2>6. QED
    BY <1>5, <2>3, <2>4, <2>5
<1>6. QED
  BY <1>3, <1>4, <1>5

(* What is left of a claim's calls after one of them.                       *)
LEMMA RestOfClaim ==
  ASSUME NEW p \in Seq(ACall), p # <<>>, Claims(p), Head(p).fn # "save"
  PROVE  Claims(Tail(p)) /\ Tail(p) # <<>>
<1>1. /\ Len(p) \in Nat /\ Head(p) = p[1] /\ Tail(p) \in Seq(ACall) /\ Len(Tail(p)) = Len(p) - 1
      /\ \A i \in 1..(Len(p) - 1) : Tail(p)[i] = p[i + 1]
  BY TailOf, Zenon
<1>2. Len(p) # 1
  BY <1>1 DEF Claims
<1>3. Tail(p) # <<>> /\ Tail(p)[Len(Tail(p))] = p[Len(p)]
  BY <1>2, StillMore, Zenon
<1>4. \A i \in 1..Len(Tail(p)) : i + 1 \in 1..Len(p) /\ Tail(p)[i] = p[i + 1]
  BY <1>1
<1>5. QED
  BY <1>3, <1>4 DEF Claims

LEMMA ToldNext ==
  ASSUME adapter' = adapter,
         plan' = <<>> \/ held'.there,
         posts' \in [B!Keys -> Nat], excuses' \in [B!Keys -> Nat], DOMAIN posted' = B!Keys,
         \A k \in B!Keys : posts'[k] <= 1 + excuses'[k],
         adapter.kind = "jira" => \A k \in B!Keys : posted'[k] # "none" \/ posts'[k] <= excuses'[k],
         \/ Paired(plan')
         \/ /\ plan' \in Seq(ACall) /\ plan' # <<>> /\ Head(plan').fn = "post" /\ Paired(Tail(plan'))
            /\ Head(plan').arg \in B!Keys
            /\ posted'[Head(plan').arg] # "none" \/ posts'[Head(plan').arg] <= excuses'[Head(plan').arg],
         ~disk'.there => Claims(plan'),
         ~disk'.there /\ plan' = <<>> /\ "ready" \notin labels' => faults' > 0,
         faults' \in Nat
  PROVE  Told'
<1>1. /\ Paired(plan') => Paired(plan)'
      /\ Paired(Tail(plan')) => Paired(Tail(plan))'
  BY DEF Paired, LookedUp
<1>2. QED
  BY <1>1 DEF Told, Excused, Claims, B!CommentedOnce

(* A step that makes the first call of a plan, with the ticket's comments as*)
(* they were.                                                               *)
LEMMA AfterCall ==
  ASSUME Told, plan # <<>>, Head(plan).fn # "lookup"
  PROVE  /\ plan \in Seq(ACall) /\ Head(plan) \in ACall /\ held.there
         /\ Paired(Tail(plan))
         /\ ~disk.there => /\ Head(plan).fn \in ClaimFns
                           /\ Head(plan).fn # "save" => Claims(Tail(plan)) /\ Tail(plan) # <<>>
<1>1. plan \in Seq(ACall) /\ held.there
  BY DEF Told, Paired
<1>2. Head(plan) = plan[1] /\ Head(plan) \in ACall /\ 1 \in 1..Len(plan)
  BY <1>1, TailOf
<1>3. Paired(Tail(plan))
  BY RestOf DEF Told
<1>4. ~disk.there => Head(plan).fn \in ClaimFns
  BY <1>2 DEF Told, Claims, ClaimFns
<1>5. ~disk.there /\ Head(plan).fn # "save" => Claims(Tail(plan)) /\ Tail(plan) # <<>>
  BY <1>1, RestOfClaim DEF Told
<1>6. QED
  BY <1>1, <1>2, <1>3, <1>4, <1>5

LEMMA TalliesKept ==
  ASSUME Told
  PROVE  /\ posts \in [B!Keys -> Nat] /\ excuses \in [B!Keys -> Nat] /\ DOMAIN posted = B!Keys
         /\ \A k \in B!Keys : posts[k] <= 1 + excuses[k]
         /\ adapter.kind = "jira" => \A k \in B!Keys : posted[k] # "none" \/ posts[k] <= excuses[k]
         /\ faults \in Nat
  BY DEF Told, B!CommentedOnce, Excused

LEMMA ToldBegin ==
  ASSUME Told, B!Begin
  PROVE  Told'
<1>1. PICK name \in {"claim", "abstain", "publish", "land", "rebase", "retry"} :
        /\ IF name \in {"claim", "abstain"} THEN "ready" \in labels /\ ~disk.there ELSE disk.there
        /\ plan' = B!Operation(name)
        /\ held' = IF name \in {"claim", "abstain"} THEN [B!NoEntry EXCEPT !.there = TRUE] ELSE disk
  BY DEF B!Begin
<1>2. /\ Paired(plan') /\ plan' # <<>>
      /\ name \in {"claim", "abstain"} => Claims(plan')
  BY <1>1, OperationPaired
<1>3. held'.there
  <2>1. [B!NoEntry EXCEPT !.there = TRUE].there
    BY DEF B!NoEntry
  <2>2. QED
    BY <1>1, <2>1
<1>4. /\ adapter' = adapter /\ posts' = posts /\ excuses' = excuses /\ posted' = posted /\ disk' = disk
      /\ faults' = faults
  BY DEF B!Begin
<1>5. ~disk'.there => Claims(plan')
  BY <1>1, <1>2, <1>4
<1>6. QED
  BY <1>2, <1>3, <1>4, <1>5, ToldNext, TalliesKept

LEMMA ToldPlain ==
  ASSUME Told, B!Does \/ B!readTags \/ B!editComment \/ B!Record
  PROVE  Told'
<1>1. /\ plan # <<>> /\ Head(plan).fn \in {"edit", "write", "move", "react", "read", "editComment", "record"}
      /\ plan' = Tail(plan)
      /\ adapter' = adapter /\ posts' = posts /\ excuses' = excuses /\ posted' = posted /\ disk' = disk
      /\ faults' = faults
  <2>1. CASE B!Does
    BY <2>1 DEF B!Does, B!Idle, B!Now, B!Plain, B!Effect
  <2>2. CASE B!readTags \/ B!editComment \/ B!Record
    BY <2>2 DEF B!readTags, B!editComment, B!Record, B!Here, B!Idle
  <2>3. QED
    BY <2>1, <2>2
<1>2. held'.there = held.there
  <2>1. CASE B!Record
    <3> DEFINE m == held.miles \cup {Head(plan).arg}
               s == IF held.sticky # "none" THEN held.sticky
                    ELSE IF posted["sticky"] = "none" THEN "" ELSE posted["sticky"]
    <3>1. held' = [held EXCEPT !.miles = m, !.sticky = s]
      BY <2>1 DEF B!Record, B!Now
    <3> HIDE DEF m, s
    <3>2. QED
      BY <3>1
  <2>2. CASE B!Does \/ B!readTags \/ B!editComment
    BY <2>2 DEF B!Does, B!readTags, B!editComment
  <2>3. QED
    BY <2>1, <2>2
<1>3. held.there /\ Paired(plan')
  BY <1>1, AfterCall
<1>4. ~disk'.there => Claims(plan') /\ plan' # <<>>
  BY <1>1, AfterCall
<1>5. QED
  BY <1>1, <1>2, <1>3, <1>4, ToldNext, TalliesKept

LEMMA ToldLookup ==
  ASSUME Told, B!Lookup
  PROVE  Told'
<1> DEFINE k == Head(plan).arg
           rest == SubSeq(plan, 3, Len(plan))
<1>1. /\ plan # <<>> /\ Head(plan).fn = "lookup"
      /\ adapter' = adapter /\ posts' = posts /\ disk' = disk /\ held' = held /\ labels' = labels
  BY DEF B!Lookup, B!Here, B!Idle
<1>2. Paired(plan)
  BY <1>1 DEF Told
<1>3. /\ Tail(plan) \in Seq(ACall) /\ Tail(plan) # <<>>
      /\ Head(Tail(plan)).fn = "post" /\ Head(Tail(plan)).arg = k
      /\ k \in B!Keys
      /\ Paired(Tail(Tail(plan))) /\ rest = Tail(Tail(plan))
  BY <1>1, <1>2, RestOfLookup
<1>4. ~disk.there => Claims(Tail(plan)) /\ Claims(rest) /\ rest # <<>>
  <2>1. ~disk.there => Claims(Tail(plan))
    BY <1>1, <1>2, RestOfClaim DEF Told, Paired
  <2>2. QED
    BY <1>3, <2>1, RestOfClaim
<1>5. held'.there
  BY <1>1 DEF Told
<1> HIDE DEF k, rest
<1>7. CASE plan' = rest /\ posted[k] # "none" /\ UNCHANGED <<posted, faults, excuses>>
  <2>1. Paired(plan') /\ (~disk'.there => Claims(plan') /\ plan' # <<>>)
    BY <1>1, <1>3, <1>4, <1>7
  <2>2. QED
    BY <1>1, <1>5, <1>7, <2>1, ToldNext, TalliesKept
<1>8. CASE plan' = rest /\ posted' = [posted EXCEPT ![k] = "real"] /\ UNCHANGED <<faults, excuses>>
  <2>1. Paired(plan') /\ (~disk'.there => Claims(plan') /\ plan' # <<>>)
    BY <1>1, <1>3, <1>4, <1>8
  <2>2. /\ DOMAIN posted' = B!Keys
        /\ adapter.kind = "jira" => \A i \in B!Keys : posted'[i] # "none" \/ posts[i] <= excuses[i]
    BY <1>8, TalliesKept
  <2>3. QED
    BY <1>1, <1>5, <1>8, <2>1, <2>2, ToldNext, TalliesKept
<1>9. CASE /\ plan' = Tail(plan) /\ posted' = posted /\ faults' \in Nat
           /\ excuses' \in [B!Keys -> Nat] /\ posts[k] <= excuses'[k]
           /\ \A i \in B!Keys : excuses[i] <= excuses'[i]
  <2>1. /\ \A i \in B!Keys : posts[i] <= 1 + excuses'[i]
        /\ adapter.kind = "jira" => \A i \in B!Keys : posted[i] # "none" \/ posts[i] <= excuses'[i]
    BY <1>9, TalliesKept
  <2>2. ~disk'.there => Claims(plan') /\ plan' # <<>>
    BY <1>1, <1>3, <1>4, <1>9
  <2>3. QED
    BY <1>1, <1>3, <1>5, <1>9, <2>1, <2>2, ToldNext, TalliesKept
<1>10. ASSUME NEW n \in {0, 1}, posts[k] > 0 => n = 1,
              excuses' = [excuses EXCEPT ![k] = @ + n]
       PROVE  /\ excuses' \in [B!Keys -> Nat] /\ posts[k] <= excuses'[k]
              /\ \A i \in B!Keys : excuses[i] <= excuses'[i]
  <2>1. excuses \in [B!Keys -> Nat] /\ posts[k] \in Nat /\ k \in B!Keys /\ posts[k] <= 1 + excuses[k]
    BY <1>3, TalliesKept
  <2>2. /\ excuses' \in [B!Keys -> Nat] /\ excuses'[k] = excuses[k] + n
        /\ \A i \in B!Keys : i # k => excuses'[i] = excuses[i]
    BY <1>10, <2>1
  <2>3. posts[k] <= excuses'[k]
    <3>1. excuses[k] \in Nat
      BY <2>1
    <3>2. QED
      BY <1>10, <2>1, <2>2, <3>1
  <2>4. \A i \in B!Keys : excuses[i] <= excuses'[i]
    BY <2>1, <2>2
  <2>5. QED
    BY <2>2, <2>3, <2>4
<1>11. CASE /\ ~B!findIdempotentComment(k) /\ plan' = Tail(plan) /\ UNCHANGED <<posted, faults>>
            /\ excuses' = [excuses EXCEPT ![k] = @ + (IF posts[k] > 0 /\ (adapter.unseen \/ k \notin marked \ page.past) THEN 1 ELSE 0)]
  <2> DEFINE n == IF posts[k] > 0 /\ (adapter.unseen \/ k \notin marked \ page.past) THEN 1 ELSE 0
  <2>1. n \in {0, 1} /\ (posts[k] > 0 => n = 1) /\ excuses' = [excuses EXCEPT ![k] = @ + n]
    BY <1>11 DEF B!findIdempotentComment, B!getComments
  <2> HIDE DEF n
  <2>2. QED
    BY <1>9, <1>10, <1>11, <2>1, TalliesKept
<1>12. CASE /\ faults' = faults + 1 /\ plan' = Tail(plan) /\ posted' = posted
            /\ excuses' = [excuses EXCEPT ![k] = @ + 1]
  BY <1>9, <1>10, <1>12, TalliesKept
<1>13. QED
  <2>1. \/ /\ posted[k] # "none" /\ plan' = rest /\ UNCHANGED <<posted, faults, excuses>>
        \/ /\ posted' = [posted EXCEPT ![k] = "real"] /\ plan' = rest /\ UNCHANGED <<faults, excuses>>
        \/ /\ ~B!findIdempotentComment(k) /\ plan' = Tail(plan)
           /\ excuses' = [excuses EXCEPT ![k] = @ + (IF posts[k] > 0 /\ (adapter.unseen \/ k \notin marked \ page.past) THEN 1 ELSE 0)]
           /\ UNCHANGED <<posted, faults>>
        \/ /\ faults' = faults + 1 /\ plan' = Tail(plan)
           /\ excuses' = [excuses EXCEPT ![k] = @ + 1] /\ UNCHANGED posted
    BY Zenon DEF B!Lookup, B!Now, k, rest
  <2>2. QED
    BY <1>7, <1>8, <1>11, <1>12, <2>1

(* One comment more.                                                        *)
LEMMA OneMorePost ==
  ASSUME Told, NEW k \in B!Keys, posts[k] <= excuses[k],
         posts' = [posts EXCEPT ![k] = @ + 1]
  PROVE  /\ posts' \in [B!Keys -> Nat] /\ posts'[k] = posts[k] + 1
         /\ \A i \in B!Keys : i # k => posts'[i] = posts[i]
         /\ \A i \in B!Keys : posts'[i] <= 1 + excuses[i]
<1>1. /\ posts \in [B!Keys -> Nat] /\ excuses \in [B!Keys -> Nat]
      /\ \A i \in B!Keys : posts[i] <= 1 + excuses[i]
  BY TalliesKept
<1>2. /\ posts' \in [B!Keys -> Nat] /\ posts'[k] = posts[k] + 1
      /\ \A i \in B!Keys : i # k => posts'[i] = posts[i]
  BY <1>1
<1>3. posts[k] + 1 <= 1 + excuses[k]
  BY <1>1
<1>4. QED
  BY <1>1, <1>2, <1>3

(* A post that is about to be made is excused.                              *)
LEMMA AboutToPost ==
  ASSUME Told, plan # <<>>, Head(plan).fn = "post", posted[Head(plan).arg] = "none"
  PROVE  Head(plan).arg \in B!Keys /\ posts[Head(plan).arg] <= excuses[Head(plan).arg]
<1>1. CASE Paired(plan)
  <2>1. plan \in Seq(ACall)
    BY <1>1 DEF Paired
  <2>2. Head(plan) = plan[1] /\ 1 \in 1..Len(plan)
    BY <2>1, TailOf
  <2>3. 1 - 1 \notin 1..Len(plan)
    BY <2>1
  <2>4. plan[1].arg \in B!Keys /\ adapter.kind = "jira"
    BY <1>1, <2>2, <2>3 DEF Paired, LookedUp
  <2>5. QED
    BY <2>2, <2>4 DEF Told, Excused
<1>2. CASE ~Paired(plan)
  BY <1>2 DEF Told, Excused
<1>3. QED
  BY <1>1, <1>2

LEMMA ToldPost ==
  ASSUME Told, B!Post
  PROVE  Told'
<1> DEFINE k == Head(plan).arg
<1>1. /\ plan # <<>> /\ Head(plan).fn = "post" /\ plan' = Tail(plan)
      /\ adapter' = adapter /\ excuses' = excuses /\ disk' = disk /\ held' = held /\ faults' = faults
  BY DEF B!Post, B!Here, B!Idle
<1>2. /\ held'.there /\ Paired(plan')
      /\ ~disk'.there => Claims(plan') /\ plan' # <<>>
  BY <1>1, AfterCall
<1>3. CASE posted[k] # "none"
  <2>1. posts' = posts /\ posted' = posted
    BY <1>3 DEF B!Post, B!Now
  <2>2. QED
    BY <1>1, <1>2, <2>1, ToldNext, TalliesKept
<1>4. CASE posted[k] = "none"
  <2>1. k \in B!Keys /\ posts[k] <= excuses[k]
    BY <1>1, <1>4, AboutToPost
  <2>2. PICK id \in {"real", "key"} : posted' = [posted EXCEPT ![k] = id]
    BY <1>4 DEF B!Post, B!Now
  <2>3. posts' = [posts EXCEPT ![k] = @ + 1]
    BY <1>1, <1>4 DEF B!Post, B!Now, B!Effect
  <2> HIDE DEF k
  <2>4. /\ posts' \in [B!Keys -> Nat]
        /\ \A i \in B!Keys : i # k => posts'[i] = posts[i]
        /\ \A i \in B!Keys : posts'[i] <= 1 + excuses[i]
    BY <2>1, <2>3, OneMorePost
  <2>5. /\ DOMAIN posted' = B!Keys /\ posted'[k] # "none"
        /\ \A i \in B!Keys : i # k => posted'[i] = posted[i]
    BY <2>1, <2>2, TalliesKept
  <2>6. adapter.kind = "jira" => \A i \in B!Keys : posted'[i] # "none" \/ posts'[i] <= excuses[i]
    BY <2>4, <2>5, TalliesKept
  <2>7. QED
    BY <1>1, <1>2, <2>4, <2>5, <2>6, ToldNext, TalliesKept
<1>5. QED
  BY <1>3, <1>4

(* The comment of a milestone, posted or edited, is no part of a claim.     *)
LEMMA ToldUpsert ==
  ASSUME Told, B!Upsert
  PROVE  Told'
<1> DEFINE m == Head(plan).arg
           r == <<B!Call("record", {}, {}, m)>>
           e == <<B!Call("editComment", {}, {}, m)>>
           t == Tail(plan)
<1>1. /\ plan # <<>> /\ Head(plan).fn = "upsert"
      /\ adapter' = adapter /\ posts' = posts /\ excuses' = excuses /\ disk' = disk /\ held' = held
      /\ posted' = posted /\ faults' = faults
  BY DEF B!Upsert, B!Here, B!Idle
<1>2. held'.there /\ Paired(t) /\ Head(plan) \in ACall
  BY <1>1, AfterCall
<1>3. disk'.there
  BY <1>1, AfterCall DEF ClaimFns, B!Plain
<1>4. Paired(r) /\ Paired(e)
  <2>1. m \in Args /\ {} \in SUBSET Marks /\ "record" \in Fns /\ "editComment" \in Fns
    BY <1>2 DEF ACall, Fns
  <2>2. QED
    BY <2>1, OneCall
<1>5. Paired(B!comment("sticky")) /\ Paired(<<>>)
  BY AComment, NoCalls DEF B!Keys, OfClaim
<1>6. plan' \in {t, B!comment("sticky") \o r \o t, e \o r \o t, <<>> \o r \o t}
  BY DEF B!Upsert, B!Now
<1> HIDE DEF m, r, e, t
<1>7. Paired(plan')
  BY <1>2, <1>4, <1>5, <1>6, Joined
<1>8. QED
  BY <1>1, <1>2, <1>3, <1>7, ToldNext, TalliesKept

LEMMA ToldSave ==
  ASSUME Told, B!writeQueue
  PROVE  Told'
<1>1. /\ plan # <<>> /\ Head(plan).fn = "save" /\ plan' = Tail(plan) /\ disk' = held
      /\ Len(plan) > 1 => held' = held
      /\ adapter' = adapter /\ posts' = posts /\ excuses' = excuses /\ posted' = posted /\ faults' = faults
  BY DEF B!writeQueue, B!Here, B!Idle, B!Goes
<1>2. plan \in Seq(ACall) /\ held.there /\ Paired(plan')
  BY <1>1, AfterCall
<1>3. plan' = <<>> \/ held'.there
  <2>1. CASE Len(plan) > 1
    BY <1>1, <1>2, <2>1
  <2>2. CASE ~(Len(plan) > 1)
    <3>1. Tail(plan) \in Seq(ACall) /\ Len(Tail(plan)) = 0
      <4>1. Len(plan) \in Nat /\ Len(plan) >= 1 /\ Tail(plan) \in Seq(ACall) /\ Len(Tail(plan)) = Len(plan) - 1
        BY <1>1, <1>2, TailOf, Zenon
      <4>2. QED
        BY <2>2, <4>1
    <3>2. Tail(plan) = <<>>
      BY <3>1, EmptySeq
    <3>3. QED
      BY <1>1, <3>2
  <2>3. QED
    BY <2>1, <2>2
<1>4. disk'.there
  BY <1>1, <1>2
<1>5. QED
  BY <1>1, <1>2, <1>3, <1>4, ToldNext, TalliesKept

LEMMA ToldEnds ==
  ASSUME Told, B!EditRefused \/ B!RetryUnlabels
  PROVE  Told'
<1>1. /\ plan # <<>> /\ Head(plan).fn \in {"editComment", "drop"} /\ plan' = <<>>
      /\ adapter' = adapter /\ posts' = posts /\ excuses' = excuses /\ posted' = posted /\ faults' = faults
      /\ disk' = disk
  BY DEF B!EditRefused, B!RetryUnlabels, B!Here, B!Idle, B!Goes
<1>2. disk'.there
  BY <1>1, AfterCall DEF ClaimFns, B!Plain
<1>3. Paired(plan')
  BY <1>1, NoCalls DEF OfClaim
<1>4. QED
  BY <1>1, <1>2, <1>3, ToldNext, TalliesKept

LEMMA ToldFails ==
  ASSUME Told, B!Fails
  PROVE  Told'
<1> DEFINE k == Head(plan).arg
<1>1. /\ plan # <<>> /\ plan' = <<>> /\ faults' = faults + 1
      /\ adapter' = adapter /\ posted' = posted /\ disk' = disk
      /\ Head(plan).fn = "post" => posted[k] = "none"
  BY DEF B!Fails, B!Idle, B!Goes, B!Now
<1>2. faults' \in Nat /\ faults' > 0
  BY <1>1, TalliesKept
<1>3. Paired(plan') /\ Claims(plan')
  <2>1. 1..Len(<<>>) = {}
    OBVIOUS
  <2>2. QED
    BY <1>1, <2>1, NoCalls DEF OfClaim, Claims
<1>4. CASE Head(plan).fn # "post"
  <2>1. posts' = posts /\ excuses' = excuses
    BY <1>4 DEF B!Fails, B!Effect, B!Now
  <2>2. QED
    BY <1>1, <1>2, <1>3, <2>1, ToldNext, TalliesKept
<1>5. CASE Head(plan).fn = "post"
  <2>1. k \in B!Keys /\ posts[k] <= excuses[k]
    BY <1>1, <1>5, AboutToPost
  <2>2. posts' = posts \/ posts' = [posts EXCEPT ![k] = @ + 1]
    BY <1>5 DEF B!Fails, B!Effect, B!Now
  <2>3. excuses' = IF adapter.kind = "jira" THEN [excuses EXCEPT ![k] = @ + 1] ELSE excuses
    BY <1>5 DEF B!Fails, B!Now
  <2> HIDE DEF k
  <2>4. /\ posts' \in [B!Keys -> Nat] /\ posts'[k] <= posts[k] + 1
        /\ \A i \in B!Keys : i # k => posts'[i] = posts[i]
        /\ \A i \in B!Keys : posts'[i] <= 1 + excuses[i]
    <3>1. CASE posts' = posts
      BY <2>1, <3>1, TalliesKept
    <3>2. CASE posts' = [posts EXCEPT ![k] = @ + 1]
      <4>1. /\ posts' \in [B!Keys -> Nat] /\ posts'[k] = posts[k] + 1
            /\ \A i \in B!Keys : i # k => posts'[i] = posts[i]
            /\ \A i \in B!Keys : posts'[i] <= 1 + excuses[i]
        BY <2>1, <3>2, OneMorePost
      <4>2. posts'[k] \in Nat
        BY <2>1, <4>1
      <4>3. posts'[k] <= posts[k] + 1
        BY <4>1, <4>2
      <4>4. QED
        BY <4>1, <4>3
    <3>3. QED
      BY <2>2, <3>1, <3>2
  <2>5. /\ excuses' \in [B!Keys -> Nat] /\ \A i \in B!Keys : excuses[i] <= excuses'[i]
        /\ adapter.kind = "jira" => excuses'[k] = excuses[k] + 1
    BY <2>1, <2>3, TalliesKept
  <2>6. \A i \in B!Keys : posts'[i] <= 1 + excuses'[i]
    BY <2>4, <2>5, TalliesKept
  <2>7. adapter.kind = "jira" => \A i \in B!Keys : posted'[i] # "none" \/ posts'[i] <= excuses'[i]
    <3> SUFFICES ASSUME adapter.kind = "jira", NEW i \in B!Keys
                 PROVE  posted[i] # "none" \/ posts'[i] <= excuses'[i]
      BY <1>1
    <3>1. CASE i = k
      <4>1. posts'[k] <= posts[k] + 1 /\ excuses'[k] = excuses[k] + 1 /\ posts[k] <= excuses[k]
            /\ posts[k] \in Nat /\ excuses[k] \in Nat /\ posts'[k] \in Nat
        BY <2>1, <2>4, <2>5, TalliesKept
      <4>2. QED
        BY <3>1, <4>1
    <3>2. CASE i # k
      <4>1. posts'[i] = posts[i] /\ excuses[i] <= excuses'[i]
            /\ posts[i] \in Nat /\ excuses[i] \in Nat /\ excuses'[i] \in Nat
        BY <2>4, <2>5, <3>2, TalliesKept
      <4>2. posted[i] # "none" \/ posts[i] <= excuses[i]
        BY TalliesKept
      <4>3. QED
        BY <4>1, <4>2
    <3>3. QED
      BY <3>1, <3>2
  <2>8. QED
    BY <1>1, <1>2, <1>3, <2>4, <2>5, <2>6, <2>7, ToldNext, TalliesKept
<1>6. QED
  BY <1>4, <1>5

LEMMA ToldRestart ==
  ASSUME Told, B!Restart
  PROVE  Told'
<1>1. /\ plan' = <<>> /\ faults' = faults + 1
      /\ adapter' = adapter /\ posts' = posts /\ posted' = [k \in B!Keys |-> "none"] /\ disk' = disk
      /\ excuses' = IF adapter.kind = "jira" THEN [k \in B!Keys |-> excuses[k] + 1] ELSE excuses
  BY DEF B!Restart, B!Goes
<1>2. faults' \in Nat /\ faults' > 0
  BY <1>1, TalliesKept
<1>3. Paired(plan') /\ Claims(plan')
  <2>1. 1..Len(<<>>) = {}
    OBVIOUS
  <2>2. QED
    BY <1>1, <2>1, NoCalls DEF OfClaim, Claims
<1>4. CASE adapter.kind = "jira"
  <2>1. excuses' \in [B!Keys -> Nat] /\ \A k \in B!Keys : excuses'[k] = excuses[k] + 1
    BY <1>1, <1>4, TalliesKept
  <2>2. \A k \in B!Keys : posts[k] <= excuses'[k] /\ posts[k] <= 1 + excuses'[k]
    BY <2>1, TalliesKept
  <2>3. DOMAIN posted' = B!Keys
    BY <1>1
  <2>4. QED
    BY <1>1, <1>2, <1>3, <2>1, <2>2, <2>3, ToldNext, TalliesKept
<1>5. CASE adapter.kind # "jira"
  <2>1. DOMAIN posted' = B!Keys /\ excuses' = excuses
    BY <1>1, <1>5
  <2>2. QED
    BY <1>1, <1>2, <1>3, <1>5, <2>1, ToldNext, TalliesKept
<1>6. QED
  BY <1>4, <1>5

LEMMA ToldPerson ==
  ASSUME Told, B!Person
  PROVE  Told'
<1>1. /\ adapter' = adapter /\ posts' = posts /\ posted' = posted /\ disk' = disk /\ held' = held
      /\ plan' = plan /\ faults' = faults /\ excuses' = excuses /\ labels \subseteq labels'
  BY DEF B!Person
<1>2. /\ ~disk'.there => Claims(plan')
      /\ ~disk'.there /\ plan' = <<>> /\ "ready" \notin labels' => faults' > 0
      /\ plan' = <<>> \/ held'.there
  BY <1>1 DEF Told
<1>3. \/ Paired(plan')
      \/ /\ plan' \in Seq(ACall) /\ plan' # <<>> /\ Head(plan').fn = "post" /\ Paired(Tail(plan'))
         /\ Head(plan').arg \in B!Keys
         /\ posted'[Head(plan').arg] # "none" \/ posts'[Head(plan').arg] <= excuses'[Head(plan').arg]
  BY <1>1 DEF Told, Excused
<1>4. QED
  BY <1>1, <1>2, <1>3, ToldNext, TalliesKept

LEMMA ToldStep ==
  ASSUME Told, B!Next
  PROVE  Told'
<1>1. CASE B!Begin
  BY <1>1, ToldBegin
<1>2. CASE B!Does \/ B!readTags \/ B!editComment \/ B!Record
  BY <1>2, ToldPlain
<1>3. CASE B!Lookup
  BY <1>3, ToldLookup
<1>4. CASE B!Post
  BY <1>4, ToldPost
<1>5. CASE B!Upsert
  BY <1>5, ToldUpsert
<1>6. CASE B!writeQueue
  BY <1>6, ToldSave
<1>7. CASE B!EditRefused \/ B!RetryUnlabels
  BY <1>7, ToldEnds
<1>8. CASE B!Fails
  BY <1>8, ToldFails
<1>9. CASE B!Restart
  BY <1>9, ToldRestart
<1>10. CASE B!Person
  BY <1>10, ToldPerson
<1>11. QED
  BY <1>1, <1>2, <1>3, <1>4, <1>5, <1>6, <1>7, <1>8, <1>9, <1>10 DEF B!Next

LEMMA ToldHoldsAlways == TicketsSpec => []ToldHolds
<1>1. TicketsInit => ToldHolds
  <2> SUFFICES ASSUME TicketsInit, which = "writeBacks" PROVE Told
    BY DEF ToldHolds
  <2>1. B!Init
    BY DEF TicketsInit
  <2>2. Paired(plan) /\ Claims(plan)
    <3>1. plan = <<>> /\ 1..Len(<<>>) = {}
      BY <2>1 DEF B!Init
    <3>2. QED
      BY <3>1, NoCalls DEF OfClaim, Claims
  <2>3. QED
    BY <2>1, <2>2 DEF B!Init, Told, Excused, B!CommentedOnce
<1>2. ToldHolds /\ [TicketsNext]_ticketsVars => ToldHolds'
  <2> SUFFICES ASSUME ToldHolds, [TicketsNext]_ticketsVars, which' = "writeBacks"
               PROVE  Told'
    BY DEF ToldHolds
  <2>1. CASE UNCHANGED ticketsVars
    <3>1. which' = which /\ UNCHANGED writeBacksVars
      BY <2>1 DEF ticketsVars
    <3>2. Told
      BY <3>1 DEF ToldHolds
    <3>3. /\ Paired(plan) => Paired(plan)'
          /\ Paired(Tail(plan)) => Paired(Tail(plan))'
      BY <3>1 DEF writeBacksVars, Paired, LookedUp
    <3>4. QED
      BY <3>1, <3>2, <3>3 DEF writeBacksVars, Told, Excused, Claims, B!CommentedOnce
  <2>2. CASE TicketsNext
    <3>1. which' = which /\ Told /\ B!Next
      BY <2>2 DEF TicketsNext, ToldHolds
    <3>2. QED
      BY <3>1, ToldStep
  <2>3. QED
    BY <2>1, <2>2
<1>3. QED
  BY <1>1, <1>2, PTL DEF TicketsSpec

(* A comment is posted once, but for the excuses there are, and a ticket    *)
(* that is neither ready nor in the queue was dropped by a call that failed,*)
(* whatever operations, failures, restarts and people follow each other.    *)
THEOREM ToldOnceAlways == TicketsSpec => []ToldOnce
<1>1. ToldHolds => ToldOnce
  BY DEF ToldHolds, Told, ToldOnce, B!ToldOnce, B!LostOnlyHalfWay, B!Idle
<1>2. QED
  BY <1>1, ToldHoldsAlways, PTL
=============================================================================
