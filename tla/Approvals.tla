----------------------------- MODULE Approvals -----------------------------
(***************************************************************************)
(* The approvals of one run: requests of its workers in approvals/pending,  *)
(* tokens in approvals/granted.  A worker's guard takes a token for a       *)
(* destructive call (src/safety/tokens.ts, layer-c.ts, guard.ts) or the     *)
(* worker asks for one (src/worker/request-approval.ts); /factory grant     *)
(* (src/commands/grant.ts) and the dispatcher (src/safety/dispatch.ts) mint *)
(* them.  Guard and minting run in different processes and meet in files.   *)
(*                                                                          *)
(* A definition whose comment begins with "Defect" is wrong on purpose and  *)
(* unused: the properties are tested by putting it in place of the next.    *)
(***************************************************************************)
EXTENDS Naturals, FiniteSets

CONSTANTS
  Workers,     \* worker processes alive at a time, the slots of a fusion say
  Calls,       \* tool calls that layer C lets through with a token only
  Local,       \* those that are localDestructiveOnly
  Requests,    \* request ids, each used once
  Tokens,      \* token ids, each used once
  None,        \* no call, no request, no token
  MaxCrashes   \* bound: ends of the controller's process

ASSUME ApprovalAssumption ==
  /\ Local \subseteq Calls
  /\ None \notin Calls \cup Requests \cup Tokens
  /\ IsFiniteSet(Tokens)
  /\ MaxCrashes \in Nat

VARIABLES
  pending,   \* requests whose file is in approvals/pending
  denied,    \* requests with a file in approvals/denied
  request,   \* what the file of a request says
  granted,   \* tokens under their own name in approvals/granted
  token,     \* what the file of a token says, wherever it is by now
  guard,     \* the guard of each worker
  grant,     \* the command /factory grant
  disp,      \* the dispatcher
  hist       \* history, read by properties and bounds only

vars == <<pending, denied, request, granted, token, guard, grant, disp, hist>>

(* call: stands for op and argsHash; full: written to its end, not just     *)
(* created; fresh: expiresAt not passed.                                    *)
Token == [call : Calls \cup {None}, full : BOOLEAN, fresh : BOOLEAN]

(* todo: the names of its listing not looked at yet; claim: the token it    *)
(* has renamed; found: history, the names of the listing but for those that *)
(* were gone when it came to them.                                          *)
Guard == [pc : {"idle", "take", "claimed"},
          call : Calls \cup {None}, todo : SUBSET Tokens,
          claim : Tokens \cup {None}, found : SUBSET Tokens]

Grant == [pc : {"idle", "confirm", "fill"}, req : Requests \cup {None},
          tok : Tokens \cup {None}]

Dispatcher == [pc : {"idle", "next", "decide", "deny", "fill", "consume"},
               todo : SUBSET Requests, req : Requests \cup {None},
               tok : Tokens \cup {None}, seen : SUBSET Requests,
               stopped : BOOLEAN, returned : BOOLEAN]

(* asked, minted: ids used up; used: how often a token was taken; torn: was *)
(* unlinked as unreadable; orphaned: its taker was killed; ran: how often   *)
(* layer C let a call through; approved: by the operator, or by the dispatcher, who  *)
(* may for local calls only; auto: tokens of the dispatcher for a request;  *)
(* crashes: of the controller.                                              *)
History == [asked : SUBSET Requests, minted : SUBSET Tokens,
            used : [Tokens -> Nat], torn : SUBSET Tokens,
            orphaned : SUBSET Tokens, ran : [Calls -> Nat],
            approved : [Calls -> Nat], auto : [Requests -> Nat],
            crashes : Nat]

TypeOK ==
  /\ pending \subseteq Requests /\ denied \subseteq Requests
  /\ request \in [Requests -> Calls \cup {None}]
  /\ granted \subseteq Tokens
  /\ token \in [Tokens -> Token]
  /\ guard \in [Workers -> Guard]
  /\ grant \in Grant /\ disp \in Dispatcher /\ hist \in History

-----------------------------------------------------------------------------
(* The guard of a worker.  take lists the directory, moves files out of it  *)
(* and back into it; a file it has moved out nobody else can reach, so what *)
(* it does with that one is a single step.                                  *)

Idle == [pc |-> "idle", call |-> None, todo |-> {}, claim |-> None,
         found |-> {}]

(* Layers A and B have let the call pass; take lists approvals/granted.     *)
TakeToken(w, c) ==
  /\ guard[w].pc = "idle"
  /\ guard' = [guard EXCEPT ![w] = [Idle EXCEPT !.pc = "take", !.call = c,
                                                !.todo = granted,
                                                !.found = granted]]
  /\ UNCHANGED <<pending, denied, request, granted, token, grant, disp, hist>>

(* The rename claims a token, unless somebody else has it.                  *)
(* Defect: the token is copied, not moved.                                  *)
ClaimCopy(w) ==
  /\ guard[w].pc = "take"
  /\ \E t \in guard[w].todo :
       IF t \in granted
       THEN guard' = [guard EXCEPT ![w].pc = "claimed", ![w].claim = t,
                                   ![w].todo = @ \ {t}]
       ELSE guard' = [guard EXCEPT ![w].todo = @ \ {t},
                                   ![w].found = @ \ {t}]
  /\ UNCHANGED <<pending, denied, request, granted, token, grant, disp, hist>>

Claim(w) ==
  /\ guard[w].pc = "take"
  /\ \E t \in guard[w].todo :
       IF t \in granted
       THEN /\ granted' = granted \ {t}
            /\ guard' = [guard EXCEPT ![w].pc = "claimed", ![w].claim = t,
                                      ![w].todo = @ \ {t}]
       ELSE /\ guard' = [guard EXCEPT ![w].todo = @ \ {t},
                                      ![w].found = @ \ {t}]
            /\ UNCHANGED granted
  /\ UNCHANGED <<pending, denied, request, token, grant, disp, hist>>

(* verifyToken, and that it is for this call.                               *)
Opens(t, c) == token[t].full /\ token[t].fresh /\ token[t].call = c

Unclaimed(w) == [guard EXCEPT ![w].pc = "take", ![w].claim = None]

(* A file that does not parse is unlinked: one that is being written, too.  *)
Discard(w) ==
  /\ guard[w].pc = "claimed" /\ ~token[guard[w].claim].full
  /\ guard' = Unclaimed(w)
  /\ hist' = [hist EXCEPT !.torn = @ \cup {guard[w].claim}]
  /\ UNCHANGED <<pending, denied, request, granted, token, grant, disp>>

Useless(w) == /\ guard[w].pc = "claimed" /\ token[guard[w].claim].full
              /\ ~Opens(guard[w].claim, guard[w].call)

(* restoreClaim.                                                            *)
(* Defect: a token for another call is not put back.                        *)
RestoreForgets(w) ==
  /\ Useless(w)
  /\ guard' = Unclaimed(w)
  /\ UNCHANGED <<pending, denied, request, granted, token, grant, disp, hist>>

Restore(w) ==
  /\ Useless(w)
  /\ granted' = granted \cup {guard[w].claim}
  /\ guard' = Unclaimed(w)
  /\ UNCHANGED <<pending, denied, request, token, grant, disp, hist>>

(* The claim is unlinked and layer C content.  Layer D may still refuse the *)
(* call; the token is gone all the same.                                    *)
Spend(w) ==
  /\ guard[w].pc = "claimed" /\ Opens(guard[w].claim, guard[w].call)
  /\ guard' = [guard EXCEPT ![w] = Idle]
  /\ hist' = [hist EXCEPT !.used[guard[w].claim] = @ + 1,
                          !.ran[guard[w].call] = @ + 1]
  /\ UNCHANGED <<pending, denied, request, granted, token, grant, disp>>

(* Nothing left to look at: layer C blocks the call.                        *)
(* Defect: blocked after the first look that did not help.                  *)
RefuseEarly(w) ==
  /\ guard[w].pc = "take" /\ guard[w].todo # guard[w].found
  /\ guard' = [guard EXCEPT ![w] = Idle]
  /\ UNCHANGED <<pending, denied, request, granted, token, grant, disp, hist>>

Refuse(w) ==
  /\ guard[w].pc = "take" /\ guard[w].todo = {}
  /\ guard' = [guard EXCEPT ![w] = Idle]
  /\ UNCHANGED <<pending, denied, request, granted, token, grant, disp, hist>>

(* The stage's deadline or a cancel kills the worker's process group; the   *)
(* next worker starts with nothing.  What it had claimed stays behind under *)
(* a name that no listing looks at.  (Killed elsewhere it leaves nothing.)  *)
Kill(w) ==
  /\ guard[w].pc = "claimed"
  /\ guard' = [guard EXCEPT ![w] = Idle]
  /\ hist' = [hist EXCEPT !.orphaned = @ \cup {guard[w].claim}]
  /\ UNCHANGED <<pending, denied, request, granted, token, grant, disp>>

(* The worker asks, under an id of its own, for whatever call it likes.     *)
RequestApproval ==
  /\ \E r \in Requests \ hist.asked, c \in Calls :
       /\ pending' = pending \cup {r}
       /\ request' = [request EXCEPT ![r] = c]
       /\ hist' = [hist EXCEPT !.asked = @ \cup {r}]
  /\ UNCHANGED <<denied, granted, token, guard, grant, disp>>

-----------------------------------------------------------------------------
(* mintToken: writeFile creates the file and then fills it.                 *)
Create(t, c) ==
  /\ t \in Tokens \ hist.minted
  /\ granted' = granted \cup {t}
  /\ token' = [token EXCEPT ![t] = [call |-> c, full |-> FALSE, fresh |-> TRUE]]

Fill(t) == token' = [token EXCEPT ![t].full = TRUE]

Expire ==
  /\ \E t \in (granted \cup {guard[w].claim : w \in Workers}) \ {None} :
       token[t].fresh /\ token' = [token EXCEPT ![t].fresh = FALSE]
  /\ UNCHANGED <<pending, denied, request, granted, guard, grant, disp, hist>>

-----------------------------------------------------------------------------
(* /factory grant.  It shows the request whose name the listing has first,  *)
(* and leaves the request where it is.                                      *)

NoGrant == [pc |-> "idle", req |-> None, tok |-> None]

GrantRead ==
  /\ grant.pc = "idle"
  /\ \E r \in pending : grant' = [NoGrant EXCEPT !.pc = "confirm", !.req = r]
  /\ UNCHANGED <<pending, denied, request, granted, token, guard, disp, hist>>

GrantConfirmed ==
  /\ grant.pc = "confirm"
  /\ \E t \in Tokens :
       /\ Create(t, request[grant.req])
       /\ grant' = [grant EXCEPT !.pc = "fill", !.tok = t]
       /\ hist' = [hist EXCEPT !.minted = @ \cup {t},
                               !.approved[request[grant.req]] = @ + 1]
  /\ UNCHANGED <<pending, denied, request, guard, disp>>

GrantRefused ==
  /\ grant.pc = "confirm"
  /\ grant' = NoGrant
  /\ UNCHANGED <<pending, denied, request, granted, token, guard, disp, hist>>

(* The token is complete; what resumeRun makes of the run is Engine's.      *)
GrantFill ==
  /\ grant.pc = "fill"
  /\ Fill(grant.tok) /\ grant' = NoGrant
  /\ UNCHANGED <<pending, denied, request, granted, guard, disp, hist>>

-----------------------------------------------------------------------------
(* The dispatcher: ticks run one after the other, each over a listing.      *)

NoDispatch == [pc |-> "idle", todo |-> {}, req |-> None, tok |-> None,
               seen |-> {}, stopped |-> FALSE, returned |-> FALSE]

DispatchUnchanged == UNCHANGED <<request, guard, grant>>

Tick ==
  /\ disp.pc = "idle" /\ ~disp.stopped
  /\ disp' = [disp EXCEPT !.pc = "next", !.todo = pending]
  /\ UNCHANGED <<pending, denied, granted, token, hist>> /\ DispatchUnchanged

Tried == [disp EXCEPT !.pc = "next", !.req = None, !.tok = None]

(* A request seen before, or gone since the listing, is passed over.        *)
DispatchNext ==
  /\ disp.pc = "next"
  /\ \/ disp.todo = {} /\ disp' = [disp EXCEPT !.pc = "idle"]
     \/ \E r \in disp.todo :
          disp' = IF r \in disp.seen \/ r \notin pending
                  THEN [disp EXCEPT !.todo = @ \ {r}]
                  ELSE [disp EXCEPT !.todo = @ \ {r}, !.pc = "decide",
                                    !.req = r]
  /\ UNCHANGED <<pending, denied, granted, token, hist>> /\ DispatchUnchanged

(* The callback throws: the request stays for /factory grant.               *)
CallbackThrows ==
  /\ disp.pc = "decide"
  /\ disp' = Tried
  /\ UNCHANGED <<pending, denied, granted, token, hist>> /\ DispatchUnchanged

(* It refuses, or approves something else than the request.                 *)
CallbackRefuses ==
  /\ disp.pc = "decide"
  /\ disp' = [disp EXCEPT !.pc = "deny"]
  /\ UNCHANGED <<pending, denied, granted, token, hist>> /\ DispatchUnchanged

Deny ==
  /\ disp.pc = "deny"
  /\ denied' = denied \cup {disp.req}
  /\ disp' = [disp EXCEPT !.pc = "consume"]
  /\ UNCHANGED <<pending, granted, token, hist>> /\ DispatchUnchanged

(* It approves what is not local: left to /factory grant.                   *)
Skip ==
  /\ disp.pc = "decide" /\ request[disp.req] \notin Local
  /\ disp' = [Tried EXCEPT !.seen = @ \cup {disp.req}]
  /\ UNCHANGED <<pending, denied, granted, token, hist>> /\ DispatchUnchanged

CountLocal(r) ==
  [c \in Calls |-> hist.approved[c] +
                     (IF c = request[r] /\ c \in Local THEN 1 ELSE 0)]

(* It approves: a bash token for the command, whatever the label says.      *)
(* Defect: whatever the command is.                                         *)
AutoGrantAny ==
  /\ disp.pc = "decide"
  /\ \E t \in Tokens :
       /\ Create(t, request[disp.req])
       /\ disp' = [disp EXCEPT !.pc = "fill", !.tok = t]
       /\ hist' = [hist EXCEPT !.minted = @ \cup {t},
                               !.auto[disp.req] = @ + 1,
                               !.approved = CountLocal(disp.req)]
  /\ UNCHANGED <<pending, denied>> /\ DispatchUnchanged

AutoGrant ==
  /\ disp.pc = "decide" /\ request[disp.req] \in Local
  /\ \E t \in Tokens :
       /\ Create(t, request[disp.req])
       /\ disp' = [disp EXCEPT !.pc = "fill", !.tok = t]
       /\ hist' = [hist EXCEPT !.minted = @ \cup {t},
                               !.auto[disp.req] = @ + 1,
                               !.approved = CountLocal(disp.req)]
  /\ UNCHANGED <<pending, denied>> /\ DispatchUnchanged

(* Defect: the request is neither removed nor remembered.                   *)
AutoGrantFillOnly ==
  /\ disp.pc = "fill"
  /\ Fill(disp.tok)
  /\ disp' = Tried
  /\ UNCHANGED <<pending, denied, granted, hist>> /\ DispatchUnchanged

AutoGrantFill ==
  /\ disp.pc = "fill"
  /\ Fill(disp.tok)
  /\ disp' = [disp EXCEPT !.pc = "consume"]
  /\ UNCHANGED <<pending, denied, granted, hist>> /\ DispatchUnchanged

ConsumePending ==
  /\ disp.pc = "consume"
  /\ pending' = pending \ {disp.req}
  /\ disp' = [Tried EXCEPT !.seen = @ \cup {disp.req}]
  /\ UNCHANGED <<denied, granted, token, hist>> /\ DispatchUnchanged

(* stop() bars new ticks, waits for the one in flight, and returns.         *)
Stop ==
  /\ ~disp.stopped
  /\ disp' = [disp EXCEPT !.stopped = TRUE]
  /\ UNCHANGED <<pending, denied, granted, token, hist>> /\ DispatchUnchanged

StopReturns ==
  /\ disp.stopped /\ ~disp.returned /\ disp.pc = "idle"
  /\ disp' = [disp EXCEPT !.returned = TRUE]
  /\ UNCHANGED <<pending, denied, granted, token, hist>> /\ DispatchUnchanged

(* The controller's process ends and the next one registers a dispatcher.   *)
Crash ==
  /\ hist.crashes < MaxCrashes
  /\ grant' = NoGrant /\ disp' = NoDispatch
  /\ hist' = [hist EXCEPT !.crashes = @ + 1]
  /\ UNCHANGED <<pending, denied, request, granted, token, guard>>

-----------------------------------------------------------------------------
Init ==
  /\ pending = {} /\ denied = {} /\ granted = {}
  /\ request = [r \in Requests |-> None]
  /\ token = [t \in Tokens |-> [call |-> None, full |-> FALSE,
                                fresh |-> FALSE]]
  /\ guard = [w \in Workers |-> Idle]
  /\ grant = NoGrant /\ disp = NoDispatch
  /\ hist = [asked |-> {}, minted |-> {}, used |-> [t \in Tokens |-> 0],
             torn |-> {}, orphaned |-> {}, ran |-> [c \in Calls |-> 0],
             approved |-> [c \in Calls |-> 0],
             auto |-> [r \in Requests |-> 0], crashes |-> 0]

Worker(w) ==
  \/ \E c \in Calls : TakeToken(w, c)
  \/ Claim(w) \/ Discard(w) \/ Restore(w) \/ Spend(w) \/ Refuse(w)
  \/ Kill(w)

Operator == GrantRead \/ GrantConfirmed \/ GrantRefused \/ GrantFill

Dispatch ==
  \/ Tick \/ DispatchNext \/ CallbackThrows \/ CallbackRefuses \/ Deny
  \/ Skip \/ AutoGrant \/ AutoGrantFill \/ ConsumePending \/ Stop
  \/ StopReturns

Next == (\E w \in Workers : Worker(w)) \/ RequestApproval \/ Operator
        \/ Dispatch \/ Crash \/ Expire

Spec == Init /\ [][Next]_vars

-----------------------------------------------------------------------------
(* Properties.                                                              *)

(* A token opens the way for one call, once: whoever else lists it, claims  *)
(* it for a look or puts it back (fileTokenSource.take).                    *)
UsedOnce == \A t \in Tokens : hist.used[t] <= 1

(* A destructive call goes through as often as it was approved for this run *)
(* and no more; the dispatcher's approval counts for local commands only    *)
(* (tests/unit/safety/dispatch.test.ts: "never auto-grants git push ...").  *)
RunsWithinApprovals == \A c \in Calls : hist.ran[c] <= hist.approved[c]

(* No token gets lost between minting and use: it is in its place or in the *)
(* hands of a guard, unless a guard met it half-written or was killed with  *)
(* it.                                                                      *)
TokenKept ==
  hist.minted = granted \cup {t \in Tokens : hist.used[t] > 0}
                \cup ({guard[w].claim : w \in Workers} \ {None})
                \cup hist.torn \cup hist.orphaned

(* A guard refuses a call only if it found no token for it: a token that is *)
(* good now, and was listed, was another's claim when it came to it.        *)
RefusedWithoutToken ==
  [][\A w \in Workers :
       guard[w].pc = "take" /\ guard'[w].pc = "idle" =>
         \A t \in guard[w].found \cap granted' : ~Opens(t, guard[w].call)]_vars

(* Once stop() has returned, the dispatcher mints nothing and decides       *)
(* nothing more (tests/unit/safety/dispatch.test.ts: "stops without leaking *)
(* grants after stop()").                                                   *)
StoppedIsQuiet ==
  [][disp.returned /\ disp'.returned =>
       hist'.auto = hist.auto /\ denied' = denied /\ pending \subseteq pending']_vars

(* The dispatcher decides on a request once, for or against, as long as its *)
(* process lives: it must not come back to one whose token is already used. *)
DecidesOnce ==
  hist.crashes = 0 =>
    \A r \in Requests :
      hist.auto[r] + (IF r \in denied THEN 1 ELSE 0) <= 1

(* Approvals are counted: as many calls as were approved, each token and    *)
(* each request once.                                                       *)
ApprovalsCount == UsedOnce /\ RunsWithinApprovals /\ DecidesOnce
=============================================================================
