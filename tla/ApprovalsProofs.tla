-------------------------- MODULE ApprovalsProofs --------------------------
(***************************************************************************)
(* What is proved of Approvals, for any workers, calls, requests and        *)
(* tokens: its types and its safety properties, the counting one included.  *)
(*                                                                          *)
(* A token is in one place at a time: under its own name, in one guard's    *)
(* claim, or gone.  From that follow that it opens once and that approvals, *)
(* which are as many as tokens minted, bound the calls let through.         *)
(***************************************************************************)
EXTENDS Approvals, TLAPS, FiniteSetTheorems

(* A guard has a claim at one point, and a call while it is at work.        *)
GuardShape ==
  \A w \in Workers : /\ guard[w].pc = "claimed" <=> guard[w].claim # None
                     /\ guard[w].pc # "idle" => guard[w].call \in Calls

(* What the operator's command and the dispatcher have at hand.             *)
HostShape ==
  /\ \A r \in pending : r \in hist.asked /\ request[r] \in Calls
  /\ grant.pc = "confirm" =>
       grant.req \in hist.asked /\ request[grant.req] \in Calls
  /\ disp.pc \in {"decide", "deny", "fill", "consume"} => disp.req \in pending

Typed == TypeOK /\ GuardShape /\ HostShape

LEMMA CountUp ==
  ASSUME NEW S, NEW f \in [S -> Nat], NEW x
  PROVE  [f EXCEPT ![x] = @ + 1] \in [S -> Nat]
<1>1. \A y \in S : f[y] + 1 \in Nat
  OBVIOUS
<1> QED  BY <1>1

LEMMA InitTyped == Init => Typed
  BY ApprovalAssumption
     DEF Init, Typed, TypeOK, GuardShape, HostShape, Token, Guard, Grant,
         Dispatcher, History, Idle, NoGrant, NoDispatch

(* A guard's step changes its own record, the directory and the history.    *)
LEMMA WorkerTyped ==
  ASSUME Typed, NEW w \in Workers, Worker(w)
  PROVE  Typed'
<1> USE ApprovalAssumption DEF Typed, TypeOK
<1>0. guard[w] \in Guard
  OBVIOUS
<1>1. SUFFICES /\ granted' \subseteq Tokens
               /\ guard' \in [Workers -> Guard] /\ GuardShape'
               /\ hist' \in History /\ hist'.asked = hist.asked
               /\ UNCHANGED <<pending, denied, request, token, grant, disp>>
  BY DEF HostShape
<1>2. ASSUME NEW g \in Guard, guard' = [guard EXCEPT ![w] = g],
             g.pc = "claimed" <=> g.claim # None, g.pc # "idle" => g.call \in Calls
      PROVE  guard' \in [Workers -> Guard] /\ GuardShape'
  BY <1>2 DEF GuardShape
<1>3. ASSUME NEW c \in Calls, TakeToken(w, c)
      PROVE  /\ granted' \subseteq Tokens
             /\ guard' \in [Workers -> Guard] /\ GuardShape'
             /\ hist' \in History /\ hist'.asked = hist.asked
             /\ UNCHANGED <<pending, denied, request, token, grant, disp>>
  <2> DEFINE g == [Idle EXCEPT !.pc = "take", !.call = c, !.todo = granted,
                               !.found = granted]
  <2>1. g \in Guard /\ g.pc = "take" /\ g.claim = None /\ g.call = c
    BY DEF Guard, Idle
  <2> QED  BY <1>2, <1>3, <2>1 DEF TakeToken
<1>4. CASE Claim(w)
  <2> PICK t \in guard[w].todo :
        IF t \in granted
        THEN /\ granted' = granted \ {t}
             /\ guard' = [guard EXCEPT ![w].pc = "claimed", ![w].claim = t,
                                       ![w].todo = @ \ {t}]
        ELSE /\ guard' = [guard EXCEPT ![w].todo = @ \ {t},
                                       ![w].found = @ \ {t}]
             /\ UNCHANGED granted
    BY <1>4 DEF Claim
  <2>1. t \in Tokens
    BY <1>0 DEF Guard
  <2>2. CASE t \in granted
    <3> DEFINE g == [guard[w] EXCEPT !.pc = "claimed", !.claim = t,
                                     !.todo = @ \ {t}]
    <3>1. g \in Guard /\ g.pc = "claimed" /\ g.claim = t /\ g.call = guard[w].call
      BY <1>0, <2>1 DEF Guard
    <3>2. guard' = [guard EXCEPT ![w] = g]
      BY <2>2
    <3>3. g.call \in Calls
      BY <3>1, <1>4 DEF Claim, GuardShape
    <3> QED  BY <1>2, <1>4, <2>1, <2>2, <3>1, <3>2, <3>3 DEF Claim
  <2>3. CASE t \notin granted
    <3> DEFINE g == [guard[w] EXCEPT !.todo = @ \ {t}, !.found = @ \ {t}]
    <3>1. g \in Guard /\ g.pc = guard[w].pc /\ g.claim = guard[w].claim
            /\ g.call = guard[w].call
      BY <1>0 DEF Guard
    <3>2. guard' = [guard EXCEPT ![w] = g]
      BY <2>3
    <3>3. /\ g.pc = "claimed" <=> g.claim # None
          /\ g.pc # "idle" => g.call \in Calls
      BY <3>1, <1>4 DEF Claim, GuardShape
    <3> QED  BY <1>2, <1>4, <2>3, <3>1, <3>2, <3>3 DEF Claim
  <2> QED  BY <2>2, <2>3
<1>5. ASSUME guard[w].pc = "claimed"
      PROVE  /\ guard[w].claim \in Tokens /\ guard[w].call \in Calls
             /\ guard' = Unclaimed(w) =>
                  guard' \in [Workers -> Guard] /\ GuardShape'
             /\ guard' = [guard EXCEPT ![w] = Idle] =>
                  guard' \in [Workers -> Guard] /\ GuardShape'
  <2>1. guard[w].claim \in Tokens /\ guard[w].call \in Calls
    BY <1>0, <1>5 DEF GuardShape, Guard
  <2> DEFINE g == [guard[w] EXCEPT !.pc = "take", !.claim = None]
  <2>2. g \in Guard /\ g.pc = "take" /\ g.claim = None /\ g.call = guard[w].call
    BY <1>0 DEF Guard
  <2>3. Unclaimed(w) = [guard EXCEPT ![w] = g]
    BY DEF Unclaimed
  <2>4. Idle \in Guard /\ Idle.pc = "idle" /\ Idle.claim = None
    BY DEF Idle, Guard
  <2> QED  BY <1>2, <2>1, <2>2, <2>3, <2>4
<1>6. CASE Discard(w)
  BY <1>5, <1>6 DEF Discard, History
<1>7. CASE Restore(w)
  BY <1>5, <1>7 DEF Restore, Useless
<1>8. CASE Spend(w)
  <2> DEFINE used == [hist.used EXCEPT ![guard[w].claim] = @ + 1]
             ran  == [hist.ran EXCEPT ![guard[w].call] = @ + 1]
  <2>0. hist.used \in [Tokens -> Nat] /\ hist.ran \in [Calls -> Nat]
    BY DEF History
  <2>2. used \in [Tokens -> Nat] /\ ran \in [Calls -> Nat]
    BY <2>0, CountUp
  <2>3. hist' = [hist EXCEPT !.used = used, !.ran = ran]
    BY <1>8 DEF Spend
  <2> HIDE DEF used, ran
  <2>1. hist' \in History /\ hist'.asked = hist.asked
    BY <2>2, <2>3 DEF History
  <2> QED  BY <1>5, <1>8, <2>1 DEF Spend
<1>9. CASE Refuse(w)
  <2>1. Idle \in Guard /\ Idle.pc = "idle" /\ Idle.claim = None
    BY DEF Idle, Guard
  <2> QED  BY <1>2, <1>9, <2>1 DEF Refuse
<1>10. CASE Kill(w)
  BY <1>5, <1>10 DEF Kill, History
<1> QED  BY <1>3, <1>4, <1>6, <1>7, <1>8, <1>9, <1>10 DEF Worker

LEMMA AskTyped == Typed /\ RequestApproval => Typed'
<1> SUFFICES ASSUME Typed, RequestApproval PROVE Typed'
  OBVIOUS
<1> USE DEF Typed, TypeOK
<1> PICK r \in Requests \ hist.asked, c \in Calls :
      /\ pending' = pending \cup {r}
      /\ request' = [request EXCEPT ![r] = c]
      /\ hist' = [hist EXCEPT !.asked = @ \cup {r}]
  BY DEF RequestApproval
<1>1. hist' \in History /\ hist'.asked = hist.asked \cup {r}
  BY DEF History
<1>2. /\ pending' \subseteq Requests
      /\ request' \in [Requests -> Calls \cup {None}]
      /\ UNCHANGED <<denied, granted, token, guard, grant, disp>>
  BY DEF RequestApproval
<1>3. \A s \in hist.asked : request'[s] = request[s]
  BY DEF History
<1>4. GuardShape'
  BY <1>2 DEF GuardShape
<1>5. HostShape'
  BY <1>1, <1>2, <1>3 DEF HostShape
<1> QED  BY <1>1, <1>2, <1>4, <1>5

LEMMA ExpireTyped == Typed /\ Expire => Typed'
<1> SUFFICES ASSUME Typed, Expire PROVE Typed'
  OBVIOUS
<1> PICK t : token' = [token EXCEPT ![t].fresh = FALSE]
  BY DEF Expire
<1>1. token' \in [Tokens -> Token]
  BY DEF Typed, TypeOK, Token
<1> QED  BY <1>1 DEF Expire, Typed, TypeOK, GuardShape, HostShape

(* Whoever mints: the token's file, and the history it is counted in.       *)
LEMMA CreateTyped ==
  ASSUME Typed, NEW t, NEW c \in Calls, Create(t, c)
  PROVE  granted' \subseteq Tokens /\ token' \in [Tokens -> Token]
  BY DEF Create, Typed, TypeOK, Token

LEMMA FillTyped ==
  ASSUME Typed, NEW t, Fill(t)
  PROVE  token' \in [Tokens -> Token]
  BY DEF Fill, Typed, TypeOK, Token

LEMMA OperatorTyped == Typed /\ Operator => Typed'
<1> SUFFICES ASSUME Typed, Operator PROVE Typed'
  OBVIOUS
<1>1. CASE GrantRead
  BY <1>1 DEF GrantRead, Typed, TypeOK, GuardShape, HostShape, Grant, NoGrant
<1>2. CASE GrantConfirmed
  <2>1. PICK t \in Tokens :
          /\ Create(t, request[grant.req])
          /\ grant' = [grant EXCEPT !.pc = "fill", !.tok = t]
          /\ hist' = [hist EXCEPT !.minted = @ \cup {t},
                                  !.approved[request[grant.req]] = @ + 1]
    BY <1>2 DEF GrantConfirmed
  <2>2. request[grant.req] \in Calls
    BY <1>2 DEF GrantConfirmed, Typed, HostShape
  <2>3. granted' \subseteq Tokens /\ token' \in [Tokens -> Token]
    BY <2>1, <2>2, CreateTyped
  <2>4. grant' \in Grant /\ grant'.pc = "fill"
    BY <2>1 DEF Typed, TypeOK, Grant
  <2>5. hist \in History /\ hist.approved \in [Calls -> Nat]
    BY DEF Typed, TypeOK, History
  <2> DEFINE minted == hist.minted \cup {t}
             approved == [hist.approved EXCEPT ![request[grant.req]] = @ + 1]
  <2>6. minted \subseteq Tokens /\ approved \in [Calls -> Nat]
    BY <2>5, CountUp DEF History
  <2>7. hist' = [hist EXCEPT !.minted = minted, !.approved = approved]
    BY <2>1
  <2> HIDE DEF minted, approved
  <2>8. hist' \in History /\ hist'.asked = hist.asked
    BY <2>5, <2>6, <2>7 DEF History
  <2> QED  BY <1>2, <2>3, <2>4, <2>8
           DEF GrantConfirmed, Typed, TypeOK, GuardShape, HostShape
<1>3. CASE GrantRefused
  BY <1>3 DEF GrantRefused, Typed, TypeOK, GuardShape, HostShape, Grant, NoGrant
<1>4. CASE GrantFill
  BY <1>4, FillTyped
     DEF GrantFill, Typed, TypeOK, GuardShape, HostShape, Grant, NoGrant
<1> QED  BY <1>1, <1>2, <1>3, <1>4 DEF Operator

LEMMA DispatchTyped == Typed /\ Dispatch => Typed'
<1> SUFFICES ASSUME Typed, Dispatch PROVE Typed'
  OBVIOUS
<1> USE DEF Typed, TypeOK, GuardShape, HostShape, DispatchUnchanged
<1>1. CASE Tick
  BY <1>1 DEF Tick, Dispatcher
<1>2. CASE DispatchNext
  <2>1. CASE disp' = [disp EXCEPT !.pc = "idle"]
    BY <1>2, <2>1 DEF DispatchNext, Dispatcher
  <2>2. ASSUME NEW r \in disp.todo, disp' = [disp EXCEPT !.todo = @ \ {r}]
        PROVE  Typed'
    BY <1>2, <2>2 DEF DispatchNext, Dispatcher
  <2>3. ASSUME NEW r \in pending,
               disp' = [disp EXCEPT !.todo = @ \ {r}, !.pc = "decide",
                                    !.req = r]
        PROVE  Typed'
    <3>1. disp' \in Dispatcher /\ disp'.req = r
      BY <2>3 DEF Dispatcher
    <3> QED  BY <1>2, <3>1 DEF DispatchNext
  <2> QED  BY <1>2, <2>1, <2>2, <2>3 DEF DispatchNext
<1>3. CASE CallbackThrows
  BY <1>3 DEF CallbackThrows, Tried, Dispatcher
<1>4. CASE CallbackRefuses
  BY <1>4 DEF CallbackRefuses, Dispatcher
<1>5. CASE Deny
  BY <1>5 DEF Deny, Dispatcher
<1>6. CASE Skip
  BY <1>6 DEF Skip, Tried, Dispatcher
<1>7. CASE AutoGrant
  <2>1. PICK t \in Tokens :
          /\ Create(t, request[disp.req])
          /\ disp' = [disp EXCEPT !.pc = "fill", !.tok = t]
          /\ hist' = [hist EXCEPT !.minted = @ \cup {t},
                                  !.auto[disp.req] = @ + 1,
                                  !.approved = CountLocal(disp.req)]
    BY <1>7 DEF AutoGrant
  <2>2. disp.req \in pending /\ disp.req \in Requests /\ request[disp.req] \in Calls
    BY <1>7 DEF AutoGrant
  <2>3. granted' \subseteq Tokens /\ token' \in [Tokens -> Token]
    BY <2>1, <2>2, CreateTyped
  <2>4. disp' \in Dispatcher /\ disp'.req = disp.req
    BY <2>1 DEF Dispatcher
  <2>5. /\ hist \in History
        /\ hist.auto \in [Requests -> Nat] /\ hist.approved \in [Calls -> Nat]
    BY DEF History
  <2> DEFINE minted == hist.minted \cup {t}
             auto == [hist.auto EXCEPT ![disp.req] = @ + 1]
             approved == CountLocal(disp.req)
  <2>6. \A c \in Calls, b \in BOOLEAN :
          hist.approved[c] + (IF b THEN 1 ELSE 0) \in Nat
    BY <2>5
  <2>7. /\ minted \subseteq Tokens
        /\ auto \in [Requests -> Nat] /\ approved \in [Calls -> Nat]
    BY <2>5, <2>6, CountUp DEF CountLocal, History
  <2>8. hist' = [hist EXCEPT !.minted = minted, !.auto = auto,
                             !.approved = approved]
    BY <2>1
  <2> HIDE DEF minted, auto, approved
  <2>9. hist' \in History /\ hist'.asked = hist.asked
    BY <2>5, <2>7, <2>8 DEF History
  <2> QED  BY <1>7, <2>2, <2>3, <2>4, <2>9 DEF AutoGrant
<1>8. CASE AutoGrantFill
  BY <1>8, FillTyped DEF AutoGrantFill, Dispatcher
<1>9. CASE ConsumePending
  BY <1>9 DEF ConsumePending, Tried, Dispatcher
<1>10. CASE Stop
  BY <1>10 DEF Stop, Dispatcher
<1>11. CASE StopReturns
  BY <1>11 DEF StopReturns, Dispatcher
<1> QED  BY <1>1, <1>2, <1>3, <1>4, <1>5, <1>6, <1>7, <1>8, <1>9, <1>10, <1>11
         DEF Dispatch

LEMMA CrashTyped == Typed /\ Crash => Typed'
  BY DEF Crash, Typed, TypeOK, GuardShape, HostShape, NoGrant, NoDispatch,
         Grant, Dispatcher, History

LEMMA NextTyped == Typed /\ [Next]_vars => Typed'
<1> SUFFICES ASSUME Typed, [Next]_vars PROVE Typed'
  OBVIOUS
<1>1. CASE UNCHANGED vars
  BY <1>1 DEF vars, Typed, TypeOK, GuardShape, HostShape
<1> QED  BY <1>1, WorkerTyped, AskTyped, OperatorTyped, DispatchTyped,
            CrashTyped, ExpireTyped DEF Next

(* The variables stay within their types.                                   *)
THEOREM TypeCorrect == Spec => []TypeOK
<1>1. Spec => []Typed
  BY InitTyped, NextTyped, PTL DEF Spec
<1> QED  BY <1>1, PTL DEF Typed

-----------------------------------------------------------------------------
(* Where the tokens are.                                                    *)

Claims == {guard[w].claim : w \in Workers} \ {None}

OnePlace ==
  /\ granted \cup Claims \subseteq hist.minted
  /\ \A w \in Workers : guard[w].claim \notin granted \ {None}
  /\ \A v, w \in Workers :
       guard[v].claim = guard[w].claim /\ guard[v].claim # None => v = w

FreshOnes ==
  \A t \in Tokens : t \in granted \cup Claims \/ t \notin hist.minted
                    => hist.used[t] = 0

Located == OnePlace /\ FreshOnes /\ UsedOnce /\ TokenKept

(* A step that moves no token.                                              *)
Unmoved ==
  /\ granted' = granted /\ hist'.minted = hist.minted
  /\ hist'.used = hist.used /\ hist'.torn = hist.torn
  /\ hist'.orphaned = hist.orphaned
  /\ \A w \in Workers : guard'[w].claim = guard[w].claim

LEMMA UnmovedLocated == Located /\ Unmoved => Located'
<1> SUFFICES ASSUME Located, Unmoved PROVE Located'
  OBVIOUS
<1>1. Claims' = Claims
  BY DEF Claims, Unmoved
<1>2. OnePlace'
  BY <1>1 DEF Located, OnePlace, Unmoved
<1>3. FreshOnes'
  BY <1>1 DEF Located, FreshOnes, Unmoved
<1>4. UsedOnce'
  BY DEF Located, UsedOnce, Unmoved
<1>5. TokenKept'
  BY <1>1 DEF Located, TokenKept, Claims, Unmoved
<1> QED  BY <1>2, <1>3, <1>4, <1>5 DEF Located

(* A new token was in no place before.                                      *)
LEMMA CreateLocated ==
  ASSUME Typed, Located, NEW t, NEW c, Create(t, c), guard' = guard,
         hist'.minted = hist.minted \cup {t}, hist'.used = hist.used,
         hist'.torn = hist.torn, hist'.orphaned = hist.orphaned
  PROVE  Located'
<1>1. t \in Tokens /\ t \notin hist.minted /\ granted' = granted \cup {t}
  BY DEF Create
<1>2. Claims' = Claims /\ t \notin Claims
  BY <1>1 DEF Claims, Located, OnePlace
<1>3. OnePlace'
  BY <1>1, <1>2 DEF Located, OnePlace, Claims
<1>4. FreshOnes'
  BY <1>1, <1>2 DEF Located, FreshOnes
<1>5. UsedOnce'
  BY DEF Located, UsedOnce
<1>6. TokenKept'
  BY <1>1, <1>2 DEF Located, TokenKept, Claims
<1> QED  BY <1>3, <1>4, <1>5, <1>6 DEF Located

(* Taking a token from the directory.                                       *)
LEMMA ClaimLocated ==
  ASSUME Typed, Located, NEW w \in Workers, Claim(w)
  PROVE  Located'
<1>0. guard \in [Workers -> Guard] /\ guard[w].claim = None
        /\ granted \subseteq Tokens /\ None \notin Tokens
  BY ApprovalAssumption DEF Claim, Typed, TypeOK, GuardShape
<1>1. PICK t \in guard[w].todo :
        IF t \in granted
        THEN /\ granted' = granted \ {t}
             /\ guard' = [guard EXCEPT ![w].pc = "claimed", ![w].claim = t,
                                       ![w].todo = @ \ {t}]
        ELSE /\ guard' = [guard EXCEPT ![w].todo = @ \ {t},
                                       ![w].found = @ \ {t}]
             /\ UNCHANGED granted
  BY DEF Claim
<1>2. CASE t \notin granted
  <2>1. Unmoved
    BY <1>0, <1>1, <1>2 DEF Claim, Unmoved, Guard
  <2> QED  BY <2>1, UnmovedLocated
<1>3. CASE t \in granted
  <2>1. /\ granted' = granted \ {t} /\ hist' = hist
        /\ guard'[w].claim = t
        /\ \A v \in Workers \ {w} : guard'[v].claim = guard[v].claim
    BY <1>0, <1>1, <1>3 DEF Claim, Guard
  <2>2. t # None /\ t \in Tokens /\ t \in hist.minted /\ t \notin Claims
    BY <1>0, <1>3 DEF Located, OnePlace, Claims
  <2>3. Claims' = Claims \cup {t}
    BY <1>0, <2>1, <2>2 DEF Claims
  <2>4. OnePlace'
    BY <2>1, <2>2, <2>3 DEF Located, OnePlace, Claims
  <2>5. FreshOnes'
    BY <1>3, <2>1, <2>2, <2>3 DEF Located, FreshOnes
  <2>6. UsedOnce'
    BY <2>1 DEF Located, UsedOnce
  <2>7. TokenKept'
    BY <1>3, <2>1, <2>2, <2>3 DEF Located, TokenKept, Claims
  <2> QED  BY <2>4, <2>5, <2>6, <2>7 DEF Located
<1> QED  BY <1>2, <1>3

(* Letting go of a claim, four ways.                                        *)
LEMMA ReleaseLocated ==
  ASSUME Typed, Located, NEW w \in Workers,
         Discard(w) \/ Restore(w) \/ Spend(w) \/ Kill(w)
  PROVE  Located'
<1> DEFINE t == guard[w].claim
<1>0. /\ guard \in [Workers -> Guard] /\ hist \in History
      /\ t # None /\ t \in Tokens
  BY DEF Typed, TypeOK, GuardShape, Guard, Discard, Restore, Useless, Spend, Kill
<1>1. /\ guard'[w].claim = None
      /\ \A v \in Workers \ {w} : guard'[v].claim = guard[v].claim
  BY <1>0 DEF Discard, Restore, Spend, Kill, Unclaimed, Idle, Guard
<1>2. t \in Claims /\ t \in hist.minted /\ t \notin granted /\ hist.used[t] = 0
  BY <1>0 DEF Claims, Located, OnePlace, FreshOnes
<1>3. Claims' = Claims \ {t}
  BY <1>0, <1>1 DEF Claims, Located, OnePlace
<1>4. /\ hist'.minted = hist.minted
      /\ granted' = granted \/ granted' = granted \cup {t}
      /\ \A u \in Tokens \ {t} : hist'.used[u] = hist.used[u]
      /\ granted' # granted => hist' = hist
      /\ hist'.used[t] \in {0, 1}
  <2>1. CASE Discard(w) \/ Kill(w)
    BY <1>0, <1>2, <2>1 DEF Discard, Kill, History
  <2>2. CASE Restore(w)
    BY <1>0, <1>2, <2>2 DEF Restore
  <2>3. CASE Spend(w)
    <3>1. /\ hist'.minted = hist.minted /\ granted' = granted
          /\ hist'.used = [hist.used EXCEPT ![t] = @ + 1]
          /\ hist'.torn = hist.torn /\ hist'.orphaned = hist.orphaned
      BY <1>0, <2>3 DEF Spend, History
    <3>2. hist.used \in [Tokens -> Nat]
      BY <1>0 DEF History
    <3>3. hist'.used[t] = hist.used[t] + 1
      BY <1>0, <3>1, <3>2
    <3>4. hist'.used[t] \in {0, 1}
      BY <1>2, <3>3
    <3> QED  BY <3>1, <3>2, <3>4
  <2> QED  BY <2>1, <2>2, <2>3
<1>5. OnePlace'
  BY <1>0, <1>1, <1>2, <1>3, <1>4 DEF Located, OnePlace, Claims
<1>6. FreshOnes'
  BY <1>2, <1>3, <1>4 DEF Located, FreshOnes
<1>7. UsedOnce'
  BY <1>4 DEF Located, UsedOnce
<1>8. TokenKept'
  <2>1. CASE Discard(w)
    BY <1>0, <1>2, <1>3, <2>1 DEF Discard, Located, TokenKept, Claims, History
  <2>2. CASE Restore(w)
    BY <1>0, <1>2, <1>3, <2>2 DEF Restore, Located, TokenKept, Claims
  <2>3. CASE Spend(w)
    <3>1. /\ hist'.minted = hist.minted /\ granted' = granted
          /\ hist'.used = [hist.used EXCEPT ![t] = @ + 1]
          /\ hist'.torn = hist.torn /\ hist'.orphaned = hist.orphaned
      BY <1>0, <2>3 DEF Spend, History
    <3>2. hist.used \in [Tokens -> Nat]
      BY <1>0 DEF History
    <3>3. hist'.used[t] = hist.used[t] + 1
      BY <1>0, <3>1, <3>2
    <3>4. hist'.used[t] = 1
      BY <1>2, <3>3
    <3>5. {u \in Tokens : hist'.used[u] > 0}
            = {u \in Tokens : hist.used[u] > 0} \cup {t}
      BY <1>0, <1>4, <3>4
    <3> QED  BY <1>2, <1>3, <3>1, <3>5 DEF Located, TokenKept, Claims
  <2>4. CASE Kill(w)
    BY <1>0, <1>2, <1>3, <2>4 DEF Kill, Located, TokenKept, Claims, History
  <2> QED  BY <2>1, <2>2, <2>3, <2>4
<1> QED  BY <1>5, <1>6, <1>7, <1>8 DEF Located

LEMMA NextLocated == Typed /\ Located /\ [Next]_vars => Located'
<1> SUFFICES ASSUME Typed, Located, [Next]_vars PROVE Located'
  OBVIOUS
<1>0. hist \in History /\ guard \in [Workers -> Guard]
  BY DEF Typed, TypeOK
<1>1. CASE UNCHANGED vars
  BY <1>1, UnmovedLocated DEF vars, Unmoved
<1>2. ASSUME NEW w \in Workers, Worker(w)
      PROVE  Located'
  <2>1. ASSUME NEW c \in Calls, TakeToken(w, c)
        PROVE  Unmoved
    <3>1. guard[w].claim = None
      BY <2>1 DEF TakeToken, Typed, GuardShape
    <3> QED  BY <1>0, <2>1, <3>1 DEF TakeToken, Unmoved, Idle
  <2>2. ASSUME Refuse(w)
        PROVE  Unmoved
    <3>1. guard[w].claim = None
      BY <2>2 DEF Refuse, Typed, GuardShape
    <3> QED  BY <1>0, <2>2, <3>1 DEF Refuse, Unmoved, Idle
  <2> QED  BY <1>2, <2>1, <2>2, UnmovedLocated, ClaimLocated, ReleaseLocated
           DEF Worker
<1>3. CASE RequestApproval
  <2>1. Unmoved
    BY <1>0, <1>3 DEF RequestApproval, Unmoved, History
  <2> QED  BY <2>1, UnmovedLocated
<1>4. CASE GrantConfirmed
  <2>1. PICK t \in Tokens :
          /\ Create(t, request[grant.req])
          /\ hist' = [hist EXCEPT !.minted = @ \cup {t},
                                  !.approved[request[grant.req]] = @ + 1]
    BY <1>4 DEF GrantConfirmed
  <2> QED  BY <1>0, <1>4, <2>1, CreateLocated DEF GrantConfirmed, History
<1>5. CASE AutoGrant
  <2>1. PICK t \in Tokens :
          /\ Create(t, request[disp.req])
          /\ hist' = [hist EXCEPT !.minted = @ \cup {t},
                                  !.auto[disp.req] = @ + 1,
                                  !.approved = CountLocal(disp.req)]
    BY <1>5 DEF AutoGrant
  <2> QED  BY <1>0, <1>5, <2>1, CreateLocated
           DEF AutoGrant, DispatchUnchanged, History
<1>6. CASE Crash
  <2>1. Unmoved
    BY <1>0, <1>6 DEF Crash, Unmoved, History
  <2> QED  BY <2>1, UnmovedLocated
<1>7. ASSUME hist' = hist, granted' = granted, guard' = guard
      PROVE  Located'
  BY <1>7, UnmovedLocated DEF Unmoved
<1>8. CASE Expire
  BY <1>7, <1>8 DEF Expire
<1>9. CASE Operator
  BY <1>4, <1>7, <1>9 DEF Operator, GrantRead, GrantRefused, GrantFill
<1>10. CASE Dispatch
  BY <1>5, <1>7, <1>10
     DEF Dispatch, Tick, DispatchNext, CallbackThrows, CallbackRefuses, Deny,
         Skip, AutoGrantFill, ConsumePending, Stop, StopReturns,
         DispatchUnchanged
<1> QED  BY <1>1, <1>2, <1>3, <1>6, <1>8, <1>9, <1>10 DEF Next

LEMMA InitLocated == Init => Located
  BY DEF Init, Located, OnePlace, FreshOnes, UsedOnce, TokenKept, Claims, Idle

LEMMA LocatedAlways == Spec => [](Typed /\ Located)
  BY InitTyped, NextTyped, InitLocated, NextLocated, PTL DEF Spec

(* A token opens the way for one call, whoever looks at it.                 *)
THEOREM UsedOnceAlways == Spec => []UsedOnce
  BY LocatedAlways, PTL DEF Located

(* And none gets lost but by a guard that meets it half-written or is       *)
(* killed with it.                                                          *)
THEOREM TokenKeptAlways == Spec => []TokenKept
  BY LocatedAlways, PTL DEF Located

-----------------------------------------------------------------------------
(* What the counters count.                                                 *)

For(c)  == {t \in hist.minted : token[t].call = c}
Gone(c) == {t \in hist.minted : token[t].call = c /\ hist.used[t] > 0}

Counted ==
  \A c \in Calls : /\ hist.approved[c] = Cardinality(For(c))
                   /\ hist.ran[c] = Cardinality(Gone(c))

LEMMA MintedFinite ==
  ASSUME Typed, NEW S \in SUBSET hist.minted
  PROVE  IsFiniteSet(S) /\ Cardinality(S) \in Nat
<1>1. S \subseteq Tokens
  BY DEF Typed, TypeOK, History
<1>2. IsFiniteSet(S)
  BY <1>1, ApprovalAssumption, FS_Subset
<1> QED  BY <1>2, FS_CardinalityType

LEMMA InitCounted == Init => Counted
  BY FS_EmptySet DEF Init, Counted, For, Gone

(* A step that neither mints nor uses a token.                              *)
LEMMA SameCounted ==
  ASSUME Counted, hist'.minted = hist.minted, hist'.used = hist.used,
         hist'.ran = hist.ran, hist'.approved = hist.approved,
         \A t \in hist.minted : token'[t].call = token[t].call
  PROVE  Counted'
<1>1. \A c \in Calls : For(c)' = For(c) /\ Gone(c)' = Gone(c)
  BY DEF For, Gone
<1> QED  BY <1>1 DEF Counted

LEMMA CreateCounted ==
  ASSUME Typed, Located, Counted, NEW t, NEW k \in Calls, Create(t, k),
         hist'.minted = hist.minted \cup {t}, hist'.used = hist.used,
         hist'.ran = hist.ran,
         \A c \in Calls : hist'.approved[c] =
                            hist.approved[c] + (IF c = k THEN 1 ELSE 0)
  PROVE  Counted'
<1>1. /\ t \in Tokens /\ t \notin hist.minted /\ hist.used[t] = 0
      /\ token'[t].call = k
      /\ \A s \in hist.minted : token'[s].call = token[s].call
  BY DEF Create, Typed, TypeOK, History, Located, FreshOnes
<1>2. ASSUME NEW c \in Calls
      PROVE  /\ hist'.approved[c] = Cardinality(For(c)')
             /\ hist'.ran[c] = Cardinality(Gone(c)')
  <2>1. Gone(c)' = Gone(c)
    BY <1>1 DEF Gone
  <2>2. For(c)' = IF c = k THEN For(c) \cup {t} ELSE For(c)
    BY <1>1 DEF For
  <2>3. For(c) \in SUBSET hist.minted /\ t \notin For(c)
    BY <1>1 DEF For
  <2>4. IsFiniteSet(For(c)) /\ Cardinality(For(c)) \in Nat
    BY <2>3, MintedFinite
  <2>5. Cardinality(For(c) \cup {t}) = Cardinality(For(c)) + 1
    BY <2>3, <2>4, FS_AddElement
  <2>6. hist.approved[c] = Cardinality(For(c)) /\ hist.ran[c] = Cardinality(Gone(c))
    BY DEF Counted
  <2> QED  BY <2>1, <2>2, <2>4, <2>5, <2>6
<1> QED  BY <1>2 DEF Counted

(* What a guard spends was unused, and for the call it lets through.        *)
LEMMA SpendCounted ==
  ASSUME Typed, Located, Counted, NEW w \in Workers, Spend(w)
  PROVE  Counted'
<1> DEFINE t == guard[w].claim
           k == guard[w].call
<1>0. guard[w] \in Guard /\ hist \in History /\ t # None /\ t \in Tokens /\ k \in Calls
  BY DEF Typed, TypeOK, GuardShape, Guard, Spend
<1>1. t \in hist.minted /\ hist.used[t] = 0 /\ token[t].call = k
  BY <1>0 DEF Spend, Opens, Located, OnePlace, FreshOnes, Claims
<1>2. /\ hist'.minted = hist.minted /\ token' = token
      /\ hist'.approved = hist.approved
      /\ hist'.used = [hist.used EXCEPT ![t] = @ + 1]
      /\ hist'.ran = [hist.ran EXCEPT ![k] = @ + 1]
  BY <1>0 DEF Spend, History
<1>3. hist.used \in [Tokens -> Nat] /\ hist.ran \in [Calls -> Nat]
  BY <1>0 DEF History
<1>4. /\ hist'.used[t] = 1
      /\ \A s \in Tokens \ {t} : hist'.used[s] = hist.used[s]
  BY <1>0, <1>1, <1>2, <1>3
<1>5. ASSUME NEW c \in Calls
      PROVE  /\ hist'.approved[c] = Cardinality(For(c)')
             /\ hist'.ran[c] = Cardinality(Gone(c)')
  <2>1. For(c)' = For(c)
    BY <1>2 DEF For
  <2>2. Gone(c)' = IF c = k THEN Gone(c) \cup {t} ELSE Gone(c)
    <3>1. hist.minted \subseteq Tokens
      BY <1>0 DEF History
    <3> QED  BY <1>1, <1>2, <1>4, <3>1 DEF Gone
  <2>3. Gone(c) \in SUBSET hist.minted /\ t \notin Gone(c)
    BY <1>1 DEF Gone
  <2>4. IsFiniteSet(Gone(c)) /\ Cardinality(Gone(c)) \in Nat
    BY <2>3, MintedFinite
  <2>5. Cardinality(Gone(c) \cup {t}) = Cardinality(Gone(c)) + 1
    BY <2>3, <2>4, FS_AddElement
  <2>6. hist.approved[c] = Cardinality(For(c)) /\ hist.ran[c] = Cardinality(Gone(c))
    BY DEF Counted
  <2>7. hist'.ran[c] = IF c = k THEN hist.ran[c] + 1 ELSE hist.ran[c]
    BY <1>0, <1>2, <1>3
  <2> QED  BY <1>2, <2>1, <2>2, <2>5, <2>6, <2>7
<1> QED  BY <1>5 DEF Counted

LEMMA NextCounted == Typed /\ Located /\ Counted /\ [Next]_vars => Counted'
<1> SUFFICES ASSUME Typed, Located, Counted, [Next]_vars PROVE Counted'
  OBVIOUS
<1>0. /\ hist \in History /\ guard \in [Workers -> Guard]
      /\ token \in [Tokens -> Token] /\ hist.minted \subseteq Tokens
      /\ hist.approved \in [Calls -> Nat]
  BY DEF Typed, TypeOK, History
<1>1. ASSUME hist' = hist, \A t \in Tokens : token'[t].call = token[t].call
      PROVE  Counted'
  BY <1>0, <1>1, SameCounted
<1>2. CASE UNCHANGED vars
  BY <1>1, <1>2 DEF vars
<1>3. ASSUME NEW w \in Workers, Worker(w)
      PROVE  Counted'
  <2>1. CASE Discard(w) \/ Kill(w)
    <3>1. /\ hist'.minted = hist.minted /\ hist'.used = hist.used
          /\ hist'.ran = hist.ran /\ hist'.approved = hist.approved
          /\ token' = token
      BY <1>0, <2>1 DEF Discard, Kill, History
    <3> QED  BY <3>1, SameCounted
  <2> QED  BY <1>1, <1>3, <2>1, SpendCounted
           DEF Worker, TakeToken, Claim, Restore, Refuse
<1>4. CASE RequestApproval
  <2>1. /\ hist'.minted = hist.minted /\ hist'.used = hist.used
        /\ hist'.ran = hist.ran /\ hist'.approved = hist.approved
        /\ token' = token
    BY <1>0, <1>4 DEF RequestApproval, History
  <2> QED  BY <2>1, SameCounted
<1>5. CASE Crash
  <2>1. /\ hist'.minted = hist.minted /\ hist'.used = hist.used
        /\ hist'.ran = hist.ran /\ hist'.approved = hist.approved
        /\ token' = token
    BY <1>0, <1>5 DEF Crash, History
  <2> QED  BY <2>1, SameCounted
<1>6. CASE Expire
  BY <1>0, <1>1, <1>6 DEF Expire, Token
<1>7. ASSUME NEW t, Fill(t)
      PROVE  \A s \in Tokens : token'[s].call = token[s].call
  BY <1>0, <1>7 DEF Fill, Token
<1>8. CASE GrantConfirmed
  <2> DEFINE k == request[grant.req]
  <2>1. PICK t \in Tokens :
          /\ Create(t, k)
          /\ hist' = [hist EXCEPT !.minted = @ \cup {t}, !.approved[k] = @ + 1]
    BY <1>8 DEF GrantConfirmed
  <2>2. k \in Calls
    BY <1>8 DEF GrantConfirmed, Typed, HostShape
  <2>3. /\ hist'.minted = hist.minted \cup {t} /\ hist'.used = hist.used
        /\ hist'.ran = hist.ran
        /\ hist'.approved = [hist.approved EXCEPT ![k] = @ + 1]
    BY <1>0, <2>1 DEF History
  <2>4. \A c \in Calls : hist'.approved[c] =
                           hist.approved[c] + (IF c = k THEN 1 ELSE 0)
    BY <1>0, <2>2, <2>3
  <2> QED  BY <2>1, <2>2, <2>3, <2>4, CreateCounted
<1>9. CASE AutoGrant
  <2> DEFINE k == request[disp.req]
  <2>1. PICK t \in Tokens :
          /\ Create(t, k)
          /\ hist' = [hist EXCEPT !.minted = @ \cup {t},
                                  !.auto[disp.req] = @ + 1,
                                  !.approved = CountLocal(disp.req)]
    BY <1>9 DEF AutoGrant
  <2>2. k \in Calls /\ k \in Local
    BY <1>9, ApprovalAssumption DEF AutoGrant
  <2>3. /\ hist'.minted = hist.minted \cup {t} /\ hist'.used = hist.used
        /\ hist'.ran = hist.ran /\ hist'.approved = CountLocal(disp.req)
    BY <1>0, <2>1 DEF History
  <2>4. \A c \in Calls : hist'.approved[c] =
                           hist.approved[c] + (IF c = k THEN 1 ELSE 0)
    BY <2>2, <2>3 DEF CountLocal
  <2> QED  BY <2>1, <2>2, <2>3, <2>4, CreateCounted
<1>10. CASE Operator
  BY <1>1, <1>7, <1>8, <1>10 DEF Operator, GrantRead, GrantRefused, GrantFill
<1>11. CASE Dispatch
  BY <1>1, <1>7, <1>9, <1>11
     DEF Dispatch, Tick, DispatchNext, CallbackThrows, CallbackRefuses, Deny,
         Skip, AutoGrantFill, ConsumePending, Stop, StopReturns
<1> QED  BY <1>2, <1>3, <1>4, <1>5, <1>6, <1>10, <1>11 DEF Next

LEMMA CountedBounds == Typed /\ Counted => RunsWithinApprovals
<1> SUFFICES ASSUME Typed, Counted, NEW c \in Calls
             PROVE  hist.ran[c] <= hist.approved[c]
  BY DEF RunsWithinApprovals
<1>1. /\ For(c) \in SUBSET hist.minted /\ Gone(c) \in SUBSET hist.minted
      /\ Gone(c) \subseteq For(c)
  BY DEF For, Gone
<1>2. Cardinality(Gone(c)) <= Cardinality(For(c))
  BY <1>1, MintedFinite, FS_Subset
<1> QED  BY <1>2 DEF Counted

(* No call goes through oftener than it was approved, and a remote one only *)
(* by the operator's approval.                                              *)
THEOREM RunsWithinApprovalsAlways == Spec => []RunsWithinApprovals
<1>1. Spec => [](Typed /\ Located /\ Counted)
  BY LocatedAlways, InitTyped, InitLocated, InitCounted, NextTyped, NextLocated,
     NextCounted, PTL DEF Spec
<1> QED  BY <1>1, CountedBounds, PTL

-----------------------------------------------------------------------------
(* What the dispatcher decides, until its process first ends.               *)

(* A request still there to decide on has not been decided on.              *)
Undecided(r) == hist.auto[r] = 0 /\ r \notin denied

Deciding ==
  hist.crashes = 0 =>
    /\ \A r \in Requests : hist.auto[r] + (IF r \in denied THEN 1 ELSE 0) <= 1
    /\ \A r \in Requests :
         r \notin hist.asked
         \/ (r \in pending /\ ~(disp.req = r /\ disp.pc \in {"fill", "consume"}))
         => Undecided(r)

LEMMA InitDeciding == Init => Deciding
  BY DEF Init, Deciding, Undecided, NoDispatch

LEMMA NextDeciding == Typed /\ Deciding /\ [Next]_vars => Deciding'
<1> SUFFICES ASSUME Typed, Deciding, [Next]_vars PROVE Deciding'
  OBVIOUS
<1>0. /\ hist \in History /\ hist.auto \in [Requests -> Nat]
      /\ disp \in Dispatcher /\ hist.crashes \in Nat
  BY DEF Typed, TypeOK, History
<1>1. ASSUME hist'.auto = hist.auto, hist'.asked = hist.asked,
             hist'.crashes = hist.crashes, pending' \subseteq pending,
             denied' = denied,
             \A r \in pending' : disp.req = r /\ disp.pc \in {"fill", "consume"}
                            => disp'.req = r /\ disp'.pc \in {"fill", "consume"}
      PROVE  Deciding'
  BY <1>1 DEF Deciding, Undecided
<1>2. CASE UNCHANGED vars
  BY <1>1, <1>2 DEF vars
<1>3. ASSUME NEW w \in Workers, Worker(w)
      PROVE  Deciding'
  <2>1. /\ hist'.auto = hist.auto /\ hist'.asked = hist.asked
        /\ hist'.crashes = hist.crashes
        /\ UNCHANGED <<pending, denied, disp>>
    BY <1>0, <1>3 DEF Worker, TakeToken, Claim, Discard, Restore, Spend, Refuse,
                      Kill, History
  <2> QED  BY <1>1, <2>1
<1>4. CASE RequestApproval
  <2>1. PICK r \in Requests \ hist.asked :
          /\ pending' = pending \cup {r}
          /\ hist' = [hist EXCEPT !.asked = @ \cup {r}]
    BY <1>4 DEF RequestApproval
  <2>2. /\ hist'.auto = hist.auto /\ hist'.crashes = hist.crashes
        /\ hist'.asked = hist.asked \cup {r}
        /\ denied' = denied /\ disp' = disp
    BY <1>0, <1>4, <2>1 DEF RequestApproval, History
  <2> QED  BY <2>1, <2>2 DEF Deciding, Undecided
<1>5. CASE Operator
  <2>1. /\ hist'.auto = hist.auto /\ hist'.asked = hist.asked
        /\ hist'.crashes = hist.crashes
        /\ UNCHANGED <<pending, denied, disp>>
    BY <1>0, <1>5 DEF Operator, GrantRead, GrantConfirmed, GrantRefused,
                      GrantFill, History
  <2> QED  BY <1>1, <2>1
<1>6. CASE Crash
  BY <1>0, <1>6 DEF Crash, Deciding, History
<1>7. CASE Expire
  BY <1>1, <1>7 DEF Expire
<1>8. CASE Deny
  <2>1. /\ disp.req \in pending /\ disp.req \in Requests
        /\ disp.req \in hist.asked /\ disp.pc = "deny"
    BY <1>8 DEF Deny, Typed, TypeOK, HostShape
  <2>2. /\ denied' = denied \cup {disp.req} /\ hist' = hist
        /\ pending' = pending /\ disp'.pc = "consume" /\ disp'.req = disp.req
    BY <1>0, <1>8 DEF Deny, Dispatcher
  <2> QED  BY <1>0, <2>1, <2>2 DEF Deciding, Undecided
<1>9. CASE AutoGrant
  <2>1. /\ disp.req \in pending /\ disp.req \in Requests
        /\ disp.req \in hist.asked /\ disp.pc = "decide"
    BY <1>9 DEF AutoGrant, Typed, TypeOK, HostShape
  <2>2. PICK t \in Tokens :
          /\ disp' = [disp EXCEPT !.pc = "fill", !.tok = t]
          /\ hist' = [hist EXCEPT !.minted = @ \cup {t},
                                  !.auto[disp.req] = @ + 1,
                                  !.approved = CountLocal(disp.req)]
    BY <1>9 DEF AutoGrant
  <2>3. /\ hist'.auto = [hist.auto EXCEPT ![disp.req] = @ + 1]
        /\ hist'.asked = hist.asked /\ hist'.crashes = hist.crashes
        /\ pending' = pending /\ denied' = denied
        /\ disp'.pc = "fill" /\ disp'.req = disp.req
    BY <1>0, <1>9, <2>2 DEF AutoGrant, History, Dispatcher
  <2>4. /\ hist'.auto[disp.req] = hist.auto[disp.req] + 1
        /\ \A r \in Requests \ {disp.req} : hist'.auto[r] = hist.auto[r]
    BY <1>0, <2>1, <2>3
  <2> QED  BY <1>0, <2>1, <2>3, <2>4 DEF Deciding, Undecided
<1>10. CASE ConsumePending
  <2>1. /\ pending' = pending \ {disp.req} /\ hist' = hist /\ denied' = denied
    BY <1>10 DEF ConsumePending
  <2> QED  BY <1>1, <2>1
<1>11. CASE Tick \/ DispatchNext \/ CallbackThrows \/ CallbackRefuses \/ Skip
            \/ AutoGrantFill \/ Stop \/ StopReturns
  <2>1. UNCHANGED <<hist, pending, denied>>
    BY <1>11 DEF Tick, DispatchNext, CallbackThrows, CallbackRefuses, Skip,
                 AutoGrantFill, Stop, StopReturns
  <2>2. disp.pc \in {"fill", "consume"} =>
          disp'.req = disp.req /\ disp'.pc \in {"fill", "consume"}
    BY <1>0, <1>11 DEF Tick, DispatchNext, CallbackThrows, CallbackRefuses, Skip,
                       AutoGrantFill, Stop, StopReturns, Tried, Dispatcher
  <2> QED  BY <1>1, <2>1, <2>2
<1> QED  BY <1>2, <1>3, <1>4, <1>5, <1>6, <1>7, <1>8, <1>9, <1>10, <1>11
         DEF Next, Dispatch

(* While its process lives, the dispatcher decides on a request once.       *)
THEOREM DecidesOnceAlways == Spec => []DecidesOnce
<1>1. Spec => [](Typed /\ Deciding)
  BY InitTyped, NextTyped, InitDeciding, NextDeciding, PTL DEF Spec
<1>2. Deciding => DecidesOnce
  BY DEF Deciding, DecidesOnce
<1> QED  BY <1>1, <1>2, PTL

-----------------------------------------------------------------------------
(* The dispatcher at rest.                                                  *)

Halted == disp.returned => disp.stopped /\ disp.pc = "idle"

LEMMA NextHalted == Typed /\ Halted /\ [Next]_vars => Halted'
<1> SUFFICES ASSUME Typed, Halted, [Next]_vars PROVE Halted'
  OBVIOUS
<1>0. disp \in Dispatcher
  BY DEF Typed, TypeOK
<1>1. CASE disp' = disp
  BY <1>1 DEF Halted
<1>2. CASE Dispatch
  BY <1>0, <1>2
     DEF Dispatch, Tick, DispatchNext, CallbackThrows, CallbackRefuses, Deny,
         Skip, AutoGrant, AutoGrantFill, ConsumePending, Stop, StopReturns,
         Tried, Dispatcher, Halted
<1>3. CASE Crash
  BY <1>3 DEF Crash, NoDispatch, Halted
<1> QED  BY <1>1, <1>2, <1>3
         DEF Next, Worker, TakeToken, Claim, Discard, Restore, Spend, Refuse,
             Kill, RequestApproval, Operator, GrantRead, GrantConfirmed,
             GrantRefused, GrantFill, Expire, vars

(* Once stop() has returned, nothing is minted, denied or removed.          *)
THEOREM StoppedIsQuietAlways == Spec => StoppedIsQuiet
<1> DEFINE Quiet == disp.returned /\ disp'.returned =>
             hist'.auto = hist.auto /\ denied' = denied /\ pending \subseteq pending'
<1>1. Init => Halted
  BY DEF Init, NoDispatch, Halted
<1>2. Spec => [](Typed /\ Halted)
  BY <1>1, InitTyped, NextTyped, NextHalted, PTL DEF Spec
<1>3. Typed /\ Halted /\ [Next]_vars => Quiet
  <2> SUFFICES ASSUME Typed, Halted, [Next]_vars, disp.returned, disp'.returned
               PROVE  hist'.auto = hist.auto /\ denied' = denied
                      /\ pending \subseteq pending'
    OBVIOUS
  <2>1. disp.pc = "idle" /\ hist \in History
    BY DEF Halted, Typed, TypeOK
  <2>2. CASE Dispatch
    BY <2>1, <2>2
       DEF Dispatch, Tick, DispatchNext, CallbackThrows, CallbackRefuses, Deny,
           Skip, AutoGrant, AutoGrantFill, ConsumePending, Stop, StopReturns
  <2>3. CASE RequestApproval
    BY <2>1, <2>3 DEF RequestApproval, History
  <2>4. ASSUME NEW w \in Workers, Worker(w)
        PROVE  hist'.auto = hist.auto /\ UNCHANGED <<denied, pending>>
    BY <2>1, <2>4 DEF Worker, TakeToken, Claim, Discard, Restore, Spend, Refuse,
                      Kill, History
  <2>5. CASE Operator
    BY <2>1, <2>5 DEF Operator, GrantRead, GrantConfirmed, GrantRefused,
                      GrantFill, History
  <2>6. CASE Crash
    BY <2>1, <2>6 DEF Crash, History
  <2>7. CASE Expire \/ UNCHANGED vars
    BY <2>7 DEF Expire, vars
  <2> QED  BY <2>2, <2>3, <2>4, <2>5, <2>6, <2>7 DEF Next
<1> QED  BY <1>2, <1>3, PTL DEF Spec, StoppedIsQuiet

-----------------------------------------------------------------------------
(* What a guard knows of the tokens it has looked at: they are gone, or     *)
(* complete and no good for its call, and neither changes.                  *)

Looked ==
  /\ hist.torn \subseteq hist.minted \ (granted \cup Claims)
  /\ \A w \in Workers : guard[w].pc # "idle" =>
       /\ guard[w].found \subseteq hist.minted
       /\ \A t \in guard[w].found \ (guard[w].todo \cup {guard[w].claim}) :
            t \in hist.torn
            \/ (token[t].full /\ ~Opens(t, guard[w].call))

LEMMA InitLooked == Init => Looked
  BY DEF Init, Looked, Idle

(* A step that moves no token can make one that is no good no better.       *)
LEMMA StillLooked ==
  ASSUME Looked, Unmoved,
         \A w \in Workers :
           guard'[w].pc = "idle" \/ guard'[w] = guard[w]
           \/ (guard'[w].found = guard'[w].todo /\ guard'[w].found \subseteq hist.minted),
         \A t \in hist.minted : token[t].full =>
           /\ token'[t].full /\ token'[t].call = token[t].call
           /\ token'[t].fresh => token[t].fresh
  PROVE  Looked'
<1>1. Claims' = Claims
  BY DEF Claims, Unmoved
<1>2. hist'.torn = hist.torn /\ hist'.minted = hist.minted /\ granted' = granted
  BY DEF Unmoved
<1>3. ASSUME NEW t \in hist.minted, NEW c, token[t].full, ~Opens(t, c)
      PROVE  token'[t].full /\ ~(token'[t].fresh /\ token'[t].call = c)
  BY <1>3 DEF Opens
<1>4. ASSUME NEW w \in Workers, guard'[w].pc # "idle"
      PROVE  /\ guard'[w].found \subseteq hist.minted
             /\ \A t \in guard'[w].found \ (guard'[w].todo \cup {guard'[w].claim}) :
                  t \in hist.torn
                  \/ (token'[t].full
                      /\ ~(token'[t].fresh /\ token'[t].call = guard'[w].call))
  <2>1. CASE guard'[w] = guard[w]
    <3>1. /\ guard[w].found \subseteq hist.minted
          /\ \A t \in guard[w].found \ (guard[w].todo \cup {guard[w].claim}) :
               t \in hist.torn \/ (token[t].full /\ ~Opens(t, guard[w].call))
      BY <1>4, <2>1 DEF Looked
    <3> QED  BY <1>3, <2>1, <3>1
  <2> QED  BY <1>4, <2>1
<1> QED  BY <1>1, <1>2, <1>4 DEF Looked, Opens

(* A guard's step other than taking a listing.                              *)
LEMMA ClaimLooked ==
  ASSUME Typed, Located, Looked, NEW w \in Workers, Claim(w)
  PROVE  Looked'
<1>0. /\ guard \in [Workers -> Guard] /\ guard[w].claim = None
      /\ guard[w].pc = "take" /\ token' = token /\ hist' = hist
  BY DEF Claim, Typed, TypeOK, GuardShape
<1>1. PICK t \in guard[w].todo :
        IF t \in granted
        THEN /\ granted' = granted \ {t}
             /\ guard' = [guard EXCEPT ![w].pc = "claimed", ![w].claim = t,
                                       ![w].todo = @ \ {t}]
        ELSE /\ guard' = [guard EXCEPT ![w].todo = @ \ {t},
                                       ![w].found = @ \ {t}]
             /\ UNCHANGED granted
  BY DEF Claim
<1>2. /\ granted' \cup Claims' \subseteq granted \cup Claims
      /\ \A v \in Workers \ {w} : guard'[v] = guard[v]
      /\ guard'[w].call = guard[w].call /\ guard'[w].found \subseteq guard[w].found
      /\ guard'[w].found \ (guard'[w].todo \cup {guard'[w].claim})
           \subseteq guard[w].found \ (guard[w].todo \cup {guard[w].claim})
  <2>0. t \in Tokens /\ None \notin Tokens
    BY <1>0, ApprovalAssumption DEF Guard
  <2>1. CASE t \in granted
    BY <1>0, <1>1, <2>0, <2>1 DEF Guard, Claims
  <2>2. CASE t \notin granted
    BY <1>0, <1>1, <2>0, <2>2 DEF Guard, Claims
  <2> QED  BY <2>1, <2>2
<1> QED  BY <1>0, <1>2 DEF Looked, Opens

LEMMA ReleaseLooked ==
  ASSUME Typed, Located, Looked, NEW w \in Workers,
         Discard(w) \/ Restore(w) \/ Spend(w) \/ Kill(w)
  PROVE  Looked'
<1> DEFINE t == guard[w].claim
<1>0. /\ guard \in [Workers -> Guard] /\ hist \in History
      /\ t # None /\ t \in Tokens /\ guard[w].pc = "claimed" /\ token' = token
  BY DEF Typed, TypeOK, GuardShape, Guard, Discard, Restore, Useless, Spend, Kill
<1>1. /\ t \in Claims /\ t \in hist.minted /\ t \notin granted
      /\ \A v \in Workers \ {w} : guard[v].claim # t
  BY <1>0 DEF Claims, Located, OnePlace
<1>2. guard'[w].claim = None /\ \A v \in Workers \ {w} : guard'[v] = guard[v]
  BY <1>0 DEF Discard, Restore, Spend, Kill, Unclaimed, Idle, Guard
<1>3. Claims' = Claims \ {t}
  BY <1>0, <1>1, <1>2 DEF Claims
<1>4. hist'.minted = hist.minted
  BY <1>0 DEF Discard, Restore, Spend, Kill, History
<1>5. CASE Spend(w) \/ Kill(w)
  <2>1. hist'.torn = hist.torn /\ granted' = granted /\ guard'[w].pc = "idle"
    <3>1. CASE Spend(w)
      BY <1>0, <3>1 DEF Spend, History, Idle
    <3>2. CASE Kill(w)
      BY <1>0, <3>2 DEF Kill, History, Idle
    <3> QED  BY <1>5, <3>1, <3>2
  <2> QED  BY <1>0, <1>2, <1>3, <1>4, <2>1 DEF Looked, Opens
<1>6. ASSUME guard' = Unclaimed(w)
      PROVE  /\ guard'[w].found = guard[w].found /\ guard'[w].todo = guard[w].todo
             /\ guard'[w].call = guard[w].call
  BY <1>0, <1>6 DEF Unclaimed, Guard
<1>7. CASE Discard(w)
  <2>1. hist'.torn = hist.torn \cup {t} /\ granted' = granted
    BY <1>0, <1>7 DEF Discard, History
  <2> QED  BY <1>0, <1>1, <1>2, <1>3, <1>4, <1>6, <1>7, <2>1
           DEF Discard, Looked, Opens
<1>8. CASE Restore(w)
  <2>1. hist'.torn = hist.torn /\ granted' = granted \cup {t}
    BY <1>0, <1>8 DEF Restore
  <2>2. token[t].full /\ ~Opens(t, guard[w].call)
    BY <1>8 DEF Restore, Useless
  <2> QED  BY <1>0, <1>1, <1>2, <1>3, <1>4, <1>6, <1>8, <2>1, <2>2
           DEF Restore, Looked, Opens
<1> QED  BY <1>5, <1>7, <1>8

LEMMA CreateLooked ==
  ASSUME Typed, Located, Looked, NEW t, NEW c, Create(t, c), guard' = guard,
         hist'.minted = hist.minted \cup {t}, hist'.torn = hist.torn
  PROVE  Looked'
<1>1. /\ t \in Tokens /\ t \notin hist.minted /\ granted' = granted \cup {t}
      /\ \A s \in hist.minted : token'[s] = token[s]
  BY DEF Create, Typed, TypeOK, History
<1>2. Claims' = Claims
  BY DEF Claims
<1> QED  BY <1>1, <1>2 DEF Looked, Opens

LEMMA NextLooked == Typed /\ Located /\ Looked /\ [Next]_vars => Looked'
<1> SUFFICES ASSUME Typed, Located, Looked, [Next]_vars PROVE Looked'
  OBVIOUS
<1>0. /\ hist \in History /\ guard \in [Workers -> Guard]
      /\ token \in [Tokens -> Token] /\ hist.minted \subseteq Tokens
  BY DEF Typed, TypeOK, History
<1>1. ASSUME hist'.minted = hist.minted, hist'.used = hist.used,
             hist'.torn = hist.torn, hist'.orphaned = hist.orphaned,
             UNCHANGED <<granted, token, guard>>
      PROVE  Looked'
  BY <1>1, StillLooked DEF Unmoved
<1>2. CASE UNCHANGED vars
  BY <1>1, <1>2 DEF vars
<1>3. ASSUME NEW w \in Workers, Worker(w)
      PROVE  Looked'
  <2>1. ASSUME NEW c \in Calls, TakeToken(w, c)
        PROVE  Looked'
    <3>1. guard[w].claim = None /\ granted \subseteq hist.minted
      BY <2>1 DEF TakeToken, Typed, GuardShape, Located, OnePlace
    <3>2. Unmoved /\ token' = token
      BY <1>0, <2>1, <3>1 DEF TakeToken, Unmoved, Idle
    <3>3. \A v \in Workers :
            guard'[v] = guard[v]
            \/ (guard'[v].found = guard'[v].todo
                /\ guard'[v].found \subseteq hist.minted)
      BY <1>0, <2>1, <3>1 DEF TakeToken, Idle
    <3> QED  BY <3>2, <3>3, StillLooked
  <2>2. ASSUME Refuse(w)
        PROVE  Looked'
    <3>1. guard[w].claim = None
      BY <2>2 DEF Refuse, Typed, GuardShape
    <3>2. Unmoved /\ token' = token
      BY <1>0, <2>2, <3>1 DEF Refuse, Unmoved, Idle
    <3>3. \A v \in Workers : guard'[v] = guard[v] \/ guard'[v].pc = "idle"
      BY <1>0, <2>2 DEF Refuse, Idle
    <3> QED  BY <3>2, <3>3, StillLooked
  <2> QED  BY <1>3, <2>1, <2>2, ClaimLooked, ReleaseLooked DEF Worker
<1>4. ASSUME NEW t, Fill(t), UNCHANGED <<granted, guard, hist>>
      PROVE  Looked'
  <2>1. Unmoved /\ guard' = guard
    BY <1>4 DEF Unmoved
  <2>2. \A s \in hist.minted : token[s].full =>
           /\ token'[s].full /\ token'[s].call = token[s].call
           /\ token'[s].fresh => token[s].fresh
    BY <1>0, <1>4 DEF Fill, Token
  <2> QED  BY <2>1, <2>2, StillLooked
<1>5. CASE Expire
  <2>1. Unmoved /\ guard' = guard
    BY <1>5 DEF Expire, Unmoved
  <2>2. \A s \in hist.minted : token[s].full =>
           /\ token'[s].full /\ token'[s].call = token[s].call
           /\ token'[s].fresh => token[s].fresh
    BY <1>0, <1>5 DEF Expire, Token
  <2> QED  BY <2>1, <2>2, StillLooked
<1>6. CASE RequestApproval \/ Crash
  BY <1>0, <1>1, <1>6 DEF RequestApproval, Crash, History
<1>7. CASE GrantConfirmed
  <2>1. PICK t \in Tokens :
          /\ Create(t, request[grant.req])
          /\ hist' = [hist EXCEPT !.minted = @ \cup {t},
                                  !.approved[request[grant.req]] = @ + 1]
    BY <1>7 DEF GrantConfirmed
  <2> QED  BY <1>0, <1>7, <2>1, CreateLooked DEF GrantConfirmed, History
<1>8. CASE AutoGrant
  <2>1. PICK t \in Tokens :
          /\ Create(t, request[disp.req])
          /\ hist' = [hist EXCEPT !.minted = @ \cup {t},
                                  !.auto[disp.req] = @ + 1,
                                  !.approved = CountLocal(disp.req)]
    BY <1>8 DEF AutoGrant
  <2> QED  BY <1>0, <1>8, <2>1, CreateLooked
           DEF AutoGrant, DispatchUnchanged, History
<1>9. CASE Operator
  BY <1>1, <1>4, <1>7, <1>9 DEF Operator, GrantRead, GrantRefused, GrantFill
<1>10. CASE Dispatch
  BY <1>1, <1>4, <1>8, <1>10
     DEF Dispatch, Tick, DispatchNext, CallbackThrows, CallbackRefuses, Deny,
         Skip, AutoGrantFill, ConsumePending, Stop, StopReturns,
         DispatchUnchanged
<1> QED  BY <1>2, <1>3, <1>5, <1>6, <1>9, <1>10 DEF Next

(* A guard refuses a call only when no token it listed is good for it.      *)
THEOREM RefusedWithoutTokenAlways == Spec => RefusedWithoutToken
<1> DEFINE Refused(w) == guard[w].pc = "take" /\ guard'[w].pc = "idle" =>
             \A t \in guard[w].found \cap granted' : ~Opens(t, guard[w].call)
<1>1. Spec => [](Typed /\ Located /\ Looked)
  BY InitTyped, NextTyped, InitLocated, NextLocated, InitLooked, NextLooked,
     PTL DEF Spec
<1>2. Typed /\ Located /\ Looked /\ [Next]_vars => \A w \in Workers : Refused(w)
  <2> SUFFICES ASSUME Typed, Located, Looked, [Next]_vars, NEW w \in Workers,
                      guard[w].pc = "take", guard'[w].pc = "idle"
               PROVE  \A t \in guard[w].found \cap granted' :
                        ~Opens(t, guard[w].call)
    OBVIOUS
  <2>0. guard \in [Workers -> Guard] /\ guard[w].claim = None
    BY DEF Typed, TypeOK, GuardShape
  <2>1. PICK v \in Workers : Worker(v)
    BY DEF Next, RequestApproval, Operator, GrantRead, GrantConfirmed,
           GrantRefused, GrantFill, Dispatch, Tick, DispatchNext, CallbackThrows,
           CallbackRefuses, Deny, Skip, AutoGrant, AutoGrantFill, ConsumePending,
           Stop, StopReturns, DispatchUnchanged, Crash, Expire, vars
  <2>2. v = w
    BY <2>0, <2>1 DEF Worker, TakeToken, Claim, Discard, Restore, Spend, Refuse,
                      Kill, Unclaimed, Idle
  <2>3. ~Claim(w)
    <3> SUFFICES ASSUME Claim(w) PROVE FALSE
      OBVIOUS
    <3>1. PICK t \in guard[w].todo :
            \/ guard' = [guard EXCEPT ![w].pc = "claimed", ![w].claim = t,
                                      ![w].todo = @ \ {t}]
            \/ guard' = [guard EXCEPT ![w].todo = @ \ {t},
                                      ![w].found = @ \ {t}]
      BY DEF Claim
    <3>2. guard'[w].pc \in {"claimed", "take"}
      BY <2>0, <3>1 DEF Guard
    <3> QED  BY <3>2
  <2>4. Refuse(w)
    BY <2>1, <2>2, <2>3 DEF Worker, TakeToken, Discard, Restore, Useless, Spend,
                            Kill
  <2>5. /\ guard[w].todo = {} /\ granted' = granted
        /\ granted \subseteq Tokens /\ None \notin Tokens
    BY <2>4, ApprovalAssumption DEF Refuse, Typed, TypeOK
  <2> QED  BY <2>0, <2>5 DEF Looked
<1> QED  BY <1>1, <1>2, PTL DEF Spec, RefusedWithoutToken


(* No token, call or request is counted twice, for any number of guards.    *)
THEOREM ApprovalsCountAlways == Spec => []ApprovalsCount
  BY UsedOnceAlways, RunsWithinApprovalsAlways, DecidesOnceAlways, PTL
     DEF ApprovalsCount
=============================================================================
