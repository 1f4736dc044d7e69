------------------------------ MODULE Polling -------------------------------
(***************************************************************************)
(* What a poll gets to see (src/scheduler/poller.ts, watermark.ts): every   *)
(* tracker is listed in the registry's order, from five minutes before the  *)
(* mark that the last complete drain of it left.  Time passes between any   *)
(* two calls.  A session's first drain is not windowed.                     *)
(***************************************************************************)
EXTENDS Naturals, Sequences

CONSTANTS
  Trackers,            \* sequence of [id, windowed]: the registry, and whether list honours updatedSince
  Overlap, Retries,    \* five minutes; five attempts
  MaxClock             \* bound

VARIABLES
  clock,
  changed,  \* id -> when its ticket was last given the label, 0 for none to take
  marks,    \* id -> the watermark file, 0 for none
  drain,    \* the drain under way: trackers left, first of the session or not, attempts, the listing
  running,  \* the session polls
  outlasted \* id -> a drain of it took longer than the overlap between its list and its mark
vars == <<clock, changed, marks, drain, running, outlasted>>

Ids == {Trackers[i].id : i \in DOMAIN Trackers}
NoListing == [got |-> FALSE, tickets |-> {}, at |-> 0]
NoDrain   == [left |-> <<>>, unwindowed |-> FALSE, since |-> 0, tries |-> 0, listing |-> NoListing]
Draining  == drain.left # <<>>
It        == Head(drain.left)

(* Defect: the window starts at the mark itself.                            *)
SinceNoOverlap(mark) == mark

Since(mark) == IF mark > Overlap THEN mark - Overlap ELSE 0

(* The window is read once, before the first attempt.                       *)
StartFor(left, unwindowed) ==
  IF left = <<>> THEN NoDrain
  ELSE [left |-> left, unwindowed |-> unwindowed, tries |-> 0, listing |-> NoListing,
        since |-> IF unwindowed \/ marks[Head(left).id] = 0 THEN 0 ELSE Since(marks[Head(left).id])]

Tick ==
  /\ clock < MaxClock /\ clock' = clock + 1 /\ UNCHANGED <<changed, marks, drain, running, outlasted>>

GetsLabel ==
  /\ \E id \in Ids : changed' = [changed EXCEPT ![id] = clock]
  /\ UNCHANGED <<clock, marks, drain, running, outlasted>>

start ==
  /\ ~running /\ running' = TRUE /\ drain' = StartFor(Trackers, TRUE)
  /\ UNCHANGED <<clock, changed, marks, outlasted>>

(* The timer's call returns while the one before it still works.            *)
intervalTick ==
  /\ running /\ ~Draining /\ drain' = StartFor(Trackers, FALSE)
  /\ UNCHANGED <<clock, changed, marks, running, outlasted>>

Listed == {id \in {It.id} : changed[id] # 0 /\ (It.windowed => changed[id] >= drain.since)}
listWithBackoff ==
  /\ Draining /\ ~drain.listing.got
  /\ drain' = [drain EXCEPT !.listing = [got |-> TRUE, tickets |-> Listed, at |-> clock]]
  /\ UNCHANGED <<clock, changed, marks, running, outlasted>>

(* A rate limit is waited out; the fifth leaves the tracker and its mark.   *)
RateLimited ==
  /\ Draining /\ ~drain.listing.got
  /\ drain' = IF drain.tries + 1 = Retries THEN StartFor(Tail(drain.left), drain.unwindowed)
              ELSE [drain EXCEPT !.tries = @ + 1]
  /\ UNCHANGED <<clock, changed, marks, running, outlasted>>

onTicket ==
  /\ Draining /\ drain.listing.tickets # {}
  /\ changed' = [changed EXCEPT ![It.id] = 0]
  /\ drain' = [drain EXCEPT !.listing.tickets = {}]
  /\ UNCHANGED <<clock, marks, running, outlasted>>

(* Any other error of a list or a claim ends the drain, the later trackers'  *)
(* turns with it; in start it ends the session's polling.                   *)
Throws ==
  /\ Draining /\ (drain.listing.got => drain.listing.tickets # {})
  /\ running' = ~drain.unwindowed /\ drain' = NoDrain
  /\ UNCHANGED <<clock, changed, marks, outlasted>>

writeWatermark ==
  /\ Draining /\ drain.listing.got /\ drain.listing.tickets = {}
  /\ marks' = [marks EXCEPT ![It.id] = clock]
  /\ outlasted' = [outlasted EXCEPT ![It.id] = (@ /\ ~drain.unwindowed) \/ clock > drain.listing.at + Overlap]
  /\ drain' = StartFor(Tail(drain.left), drain.unwindowed)
  /\ UNCHANGED <<clock, changed, running>>

Crash ==
  /\ running /\ running' = FALSE /\ drain' = NoDrain /\ UNCHANGED <<clock, changed, marks, outlasted>>

Init ==
  /\ clock = 1 /\ changed = [id \in Ids |-> 0] /\ marks = [id \in Ids |-> 0] /\ drain = NoDrain
  /\ running = FALSE /\ outlasted = [id \in Ids |-> FALSE]

Next ==
  \/ Tick \/ GetsLabel \/ start \/ intervalTick \/ listWithBackoff \/ RateLimited \/ onTicket \/ Throws
  \/ writeWatermark \/ Crash
Spec == Init /\ [][Next]_vars

-----------------------------------------------------------------------------
(* src/scheduler/poller.ts:78: the mark is the end of the drain, so a ticket*)
(* labelled while the drain went on is older than it; the next poll still   *)
(* lists every ticket that waits, unless the drain outlasted the overlap.   *)
PollSeesAll ==
  \A i \in DOMAIN Trackers :
    LET id == Trackers[i].id
    IN changed[id] # 0 /\ Trackers[i].windowed /\ ~outlasted[id] =>
         \/ marks[id] = 0 \/ changed[id] >= Since(marks[id])
         \/ Draining /\ id \in drain.listing.tickets
=============================================================================
