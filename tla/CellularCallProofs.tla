------------------------- MODULE CellularCallProofs -------------------------
(***************************************************************************)
(* What holds of CellularCall for any modems, sessions and durations.      *)
(***************************************************************************)
EXTENDS CellularCall, PaidCallProofs

-----------------------------------------------------------------------------
(* What Core's steps do to the Agent: nothing.                             *)

\* The steps of Core's goroutines, their requests' fate included.
CoreAlone ==
  \/ \E s \in Session : SessionStep(s)
  \/ \E s \in Session, k \in Kind : Lose(s, k) \/ Decline(s, k)
  \/ CoreCrash
  \/ \E e \in Equipment : MediaLost(e)

\* Nothing in Core touches the manager, its store or the modems.
LEMMA CoreStepLeavesAgent ==
  ASSUME CoreAlone
  PROVE  UNCHANGED vars
<1>1. ASSUME NEW s \in Session, SessionStep(s)
      PROVE  UNCHANGED vars
  BY <1>1 DEF SessionStep, PrepareBegin, PrepareReady, PrepareFailed, Beat,
     BrowserLeaves, Expire, DeleteCheck, DeleteRemove, StartCall, CallActive,
     CallUncertain, CallRefused, UserHangup, HeartbeatLost, EndConfirmed,
     EndUnconfirmed, Renew, Renewed, RenewFailed, agentVars
<1> QED
  BY <1>1 DEF CoreAlone, Lose, Decline, CoreCrash, MediaLost, agentVars

\* A request of a session with its identity is one the Agent accepts.
LEMMA AgentStepImplements ==
  ASSUME CTypeOK, NEW s \in Session, AgentStep(s)
  PROVE  Next
<1>1. /\ session[s].modem \in Equipment /\ session[s].inv \in Invocation
      /\ session[s].inv.target \in Target /\ s \in Lease
  BY DEF CTypeOK, SessionState, Invocation, Session
<1> QED
  BY <1>1 DEF AgentStep, DeliverStart, RunStart, DeliverRenew, DeliverHangup,
     Next, StartStep

\* Time passes for the Agent as in PaidCall, or not at all.
LEMMA CTickImplements ==
  ASSUME TypeOK, CTick
  PROVE  [Next]_vars
<1>1. CASE \E e \in Equipment : ttl[e] > 0 \/ attempts[e].wait > 0
  BY <1>1 DEF CTick, Tick, Next
<1>2. CASE ~\E e \in Equipment : ttl[e] > 0 \/ attempts[e].wait > 0
  <2>1. \A e \in Equipment : ttl[e] = 0 /\ attempts[e].wait = 0
    <3>1. \A e \in Equipment : ttl[e] \in Nat /\ attempts[e].wait \in Nat
      <4>1. \A e \in Equipment : ttl[e] \in Nat /\ attempts[e] \in [delay : Nat, wait : Nat]
        BY DEF TypeOK
      <4> QED BY <4>1
    <3> TAKE e \in Equipment
    <3>2. ~(ttl[e] > 0) /\ ~(attempts[e].wait > 0)
      BY <1>2
    <3> QED BY <3>1, <3>2
  <2>2. ttl' = ttl
    BY <2>1 DEF CTick, Elapse, Less, TypeOK
  <2>3. attempts' = attempts
    <3>1. \A e \in Equipment : [attempts[e] EXCEPT !.wait = Less(@)] = attempts[e]
      BY <2>1 DEF Less, TypeOK
    <3> QED BY <3>1 DEF CTick, Elapse, TypeOK
  <2> QED BY <2>2, <2>3 DEF CTick, Elapse, vars, modemVars
<1> QED BY <1>1, <1>2

\* Every step of the composition is a step of PaidCall or none.
LEMMA CNextImplements ==
  ASSUME CTypeOK, TypeOK, [CNext]_cvars
  PROVE  [Next]_vars
<1>1. CASE CoreAlone
  BY <1>1, CoreStepLeavesAgent
<1>2. CASE \E s \in Session : AgentStep(s)
  BY <1>2, AgentStepImplements
<1>3. CASE AgentAlone \/ AgentCrash
  BY <1>3 DEF AgentAlone, AgentCrash, Next
<1>4. CASE CTick
  BY <1>4, CTickImplements
<1>5. CASE UNCHANGED cvars
  BY <1>5 DEF cvars
<1> QED
  BY <1>1, <1>2, <1>3, <1>4, <1>5 DEF CNext, CoreAlone

-----------------------------------------------------------------------------
(* Types of Core's state.                                                  *)

\* One request is replaced by another.
LEMMA RpcType ==
  ASSUME CTypeOK, NEW s \in Session, NEW k \in Kind, NEW r \in Request,
         rpc' = [rpc EXCEPT ![s][k] = r]
  PROVE  rpc' \in [Session -> [Kind -> Request]]
  BY DEF CTypeOK

\* The requests that the operators on requests form.
LEMMA RequestForms ==
  ASSUME CTypeOK, NEW s \in Session, NEW k \in Kind
  PROVE  /\ Idle \in Request /\ Sent(s) \in Request /\ Forgotten(s, k) \in Request
         /\ rpc[s][k] \in Request
         /\ \A r \in {"sent", "running", "ok", "refused", "error"} :
              [rpc[s][k] EXCEPT !.at = r] \in Request
<1>1. rpc[s][k] \in Request
  BY DEF CTypeOK
<1> QED BY <1>1 DEF Request, Idle, Sent, Forgotten

\* Media is freed or taken.
LEMMA MediaType ==
  ASSUME CTypeOK, NEW s \in Session,
         FreeMedia(s) \/ UNCHANGED media
           \/ media' = [media EXCEPT ![session[s].modem] = s]
  PROVE  media' \in [Equipment -> Session \cup {Unowned}]
  BY DEF CTypeOK, FreeMedia, SessionState

\* What the handlers of Core make of a session's record.
LEMMA SessionRecords ==
  ASSUME NEW r \in SessionState
  PROVE  /\ \A p \in Phase :
              /\ [r EXCEPT !.phase = p] \in SessionState
              /\ [r EXCEPT !.phase = p, !.preparing = FALSE] \in SessionState
              /\ [r EXCEPT !.phase = p, !.browser = FALSE] \in SessionState
              /\ [r EXCEPT !.phase = p, !.terminal = TRUE, !.browser = FALSE]
                   \in SessionState
              /\ [r EXCEPT !.phase = p, !.hangupStarted = TRUE] \in SessionState
              /\ [r EXCEPT !.phase = p, !.hangupStarted = TRUE, !.renewing = FALSE]
                   \in SessionState
              /\ \A n \in Nat : [r EXCEPT !.phase = p, !.renewIn = n] \in SessionState
              /\ \A op \in Operation : [r EXCEPT !.phase = p, !.inv.op = op] \in SessionState
              /\ \A u \in BOOLEAN, n \in Nat :
                   [r EXCEPT !.phase = p, !.preparing = TRUE, !.current = u, !.beat = n]
                     \in SessionState
         /\ [r EXCEPT !.preparing = FALSE] \in SessionState
         /\ [r EXCEPT !.browser = FALSE] \in SessionState
         /\ [r EXCEPT !.deleting = TRUE] \in SessionState
         /\ [r EXCEPT !.deleting = FALSE, !.browser = FALSE] \in SessionState
         /\ [r EXCEPT !.renewing = TRUE] \in SessionState
         /\ [r EXCEPT !.renewing = FALSE] \in SessionState
         /\ [r EXCEPT !.current = FALSE] \in SessionState
         /\ \A n \in Nat :
              /\ [r EXCEPT !.browser = TRUE, !.beat = n] \in SessionState
              /\ [r EXCEPT !.renewing = FALSE, !.renewIn = n] \in SessionState
         /\ \A m, n \in Nat : [r EXCEPT !.beat = m, !.renewIn = n] \in SessionState
         /\ r.beat \in Nat /\ r.renewIn \in Nat
  BY DEF SessionState, Invocation

\* The handlers of Core preserve the types.
LEMMA SessionStepType ==
  ASSUME CTypeOK, TypeOK, NEW s \in Session, SessionStep(s)
  PROVE  CTypeOK'
<1>1. session' \in [Session -> SessionState]
  <2>1. /\ session \in [Session -> SessionState] /\ session[s] \in SessionState
        /\ HeartbeatTimeout \in Nat /\ RenewEvery \in Nat /\ up \in BOOLEAN
    BY TimerAssumption DEF CTypeOK, TypeOK
  <2>2. {"preparing", "ready", "starting", "active", "uncertain", "ending",
         "hangup_unconfirmed", "ended", "failed", "expired"} \subseteq Phase
    BY DEF Phase
  <2>3. \E r \in SessionState : session' = [session EXCEPT ![s] = r]
    <3>1. CASE PrepareBegin(s) \/ PrepareReady(s) \/ PrepareFailed(s)
      BY <2>1, <2>2, <3>1, SessionRecords DEF PrepareBegin, PrepareReady, PrepareFailed
    <3>2. CASE Beat(s) \/ BrowserLeaves(s)
      BY <2>1, <2>2, <3>2, SessionRecords DEF Beat, BrowserLeaves
    <3>3. CASE Expire(s) \/ DeleteCheck(s) \/ DeleteRemove(s)
      BY <2>1, <2>2, <3>3, SessionRecords DEF Expire, DeleteCheck, DeleteRemove
    <3>4. CASE (\E op \in Operation : StartCall(s, op)) \/ CallActive(s)
      BY <2>1, <2>2, <3>4, SessionRecords DEF StartCall, CallActive
    <3>5. CASE CallUncertain(s) \/ CallRefused(s)
      BY <2>1, <2>2, <3>5, SessionRecords DEF CallUncertain, CallRefused
    <3>6. CASE UserHangup(s) \/ HeartbeatLost(s)
      BY <2>1, <2>2, <3>6, SessionRecords DEF UserHangup, HeartbeatLost, Ending
    <3>7. CASE EndConfirmed(s) \/ EndUnconfirmed(s)
      BY <2>1, <2>2, <3>7, SessionRecords DEF EndConfirmed, EndUnconfirmed
    <3>8. CASE Renew(s) \/ Renewed(s)
      BY <2>1, <3>8, SessionRecords DEF Renew, Renewed
    <3>9. CASE RenewFailed(s)
      BY <2>1, <2>2, <3>9, SessionRecords DEF RenewFailed, Ending
    <3> QED BY <3>1, <3>2, <3>3, <3>4, <3>5, <3>6, <3>7, <3>8, <3>9 DEF SessionStep
  <2> QED BY <2>1, <2>3
<1>2. rpc' \in [Session -> [Kind -> Request]]
  <2>1. {"start", "renew", "hangup"} = Kind
    BY DEF Kind
  <2>2. \/ UNCHANGED rpc
        \/ \E k \in Kind : \/ rpc' = [rpc EXCEPT ![s][k] = Sent(s)]
                           \/ rpc' = [rpc EXCEPT ![s][k] = Forgotten(s, k)]
        \/ rpc' = [rpc EXCEPT ![s]["renew"] = Forgotten(s, "renew"),
                              ![s]["hangup"] = Sent(s)]
    BY <2>1 DEF SessionStep, PrepareBegin, PrepareReady, PrepareFailed, Beat,
     BrowserLeaves, Expire, DeleteCheck, DeleteRemove, StartCall, CallActive,
     CallUncertain, CallRefused, UserHangup, HeartbeatLost, EndConfirmed,
     EndUnconfirmed, Renew, Renewed, RenewFailed, Send, Return
  <2>3. CASE rpc' = [rpc EXCEPT ![s]["renew"] = Forgotten(s, "renew"),
                               ![s]["hangup"] = Sent(s)]
    BY <2>1, <2>3, RequestForms DEF CTypeOK
  <2> QED BY <2>2, <2>3, RpcType, RequestForms DEF CTypeOK
<1>3. registered' \subseteq Session
  BY DEF CTypeOK, SessionStep, PrepareBegin, PrepareReady, PrepareFailed, Beat,
     BrowserLeaves, Expire, DeleteCheck, DeleteRemove, StartCall, CallActive,
     CallUncertain, CallRefused, UserHangup, HeartbeatLost, EndConfirmed,
     EndUnconfirmed, Renew, Renewed, RenewFailed
<1>4. media' \in [Equipment -> Session \cup {Unowned}]
  <2>1. FreeMedia(s) \/ UNCHANGED media
           \/ media' = [media EXCEPT ![session[s].modem] = s]
    BY DEF SessionStep, PrepareBegin, PrepareReady, PrepareFailed, Beat,
     BrowserLeaves, Expire, DeleteCheck, DeleteRemove, StartCall, CallActive,
     CallUncertain, CallRefused, UserHangup, HeartbeatLost, EndConfirmed,
     EndUnconfirmed, Renew, Renewed, RenewFailed
  <2> QED BY <2>1, MediaType
<1> QED BY <1>1, <1>2, <1>3, <1>4 DEF CTypeOK

\* So do the Agent's answers and what becomes of a request.
LEMMA AgentStepType ==
  ASSUME CTypeOK, NEW s \in Session,
         \/ AgentStep(s)
         \/ \E k \in Kind : Lose(s, k) \/ Decline(s, k)
  PROVE  CTypeOK'
<1>1. UNCHANGED coreVars
  BY DEF AgentStep, DeliverStart, RunStart, DeliverRenew, DeliverHangup, Lose, Decline
<1>2. {"start", "renew", "hangup"} = Kind
  BY DEF Kind
<1>3. \/ UNCHANGED rpc
      \/ \E k \in Kind : rpc' = [rpc EXCEPT ![s][k] = Idle]
      \/ \E k \in Kind, r \in {"sent", "running", "ok", "refused", "error"} :
           rpc' = [rpc EXCEPT ![s][k] = [rpc[s][k] EXCEPT !.at = r]]
  <2>1. ASSUME NEW k \in Kind, NEW r \in {"ok", "refused", "error"}, Answer(s, k, r)
        PROVE  \/ rpc' = [rpc EXCEPT ![s][k] = Idle]
               \/ rpc' = [rpc EXCEPT ![s][k] = [rpc[s][k] EXCEPT !.at = r]]
    BY <2>1 DEF Answer
  <2>2. CASE RunStart(s)
    BY <1>2, <2>1, <2>2 DEF RunStart, NotCreated
  <2>3. CASE DeliverRenew(s) \/ DeliverHangup(s)
    BY <1>2, <2>1, <2>3 DEF DeliverRenew, DeliverHangup
  <2>4. CASE DeliverStart(s)
    BY <1>2, <2>4 DEF DeliverStart
  <2>5. CASE \E k \in Kind : Lose(s, k)
    BY <2>5 DEF Lose
  <2>6. CASE \E k \in Kind : Decline(s, k)
    BY <2>1, <2>6 DEF Decline
  <2> QED BY <2>2, <2>3, <2>4, <2>5, <2>6 DEF AgentStep
<1>4. rpc' \in [Session -> [Kind -> Request]]
  BY <1>3, RpcType, RequestForms DEF CTypeOK
<1> QED BY <1>1, <1>4 DEF CTypeOK, coreVars

\* So do crashes, lost media and the clock.
LEMMA OutsideType ==
  ASSUME CTypeOK,
         \/ AgentAlone \/ AgentCrash \/ CoreCrash \/ CTick
         \/ \E e \in Equipment : MediaLost(e)
         \/ UNCHANGED cvars
  PROVE  CTypeOK'
<1>1. CASE AgentAlone \/ UNCHANGED cvars
  BY <1>1 DEF AgentAlone, coreVars, cvars, CTypeOK
<1>2. CASE \E e \in Equipment : MediaLost(e)
  BY <1>2 DEF MediaLost, CTypeOK
<1>3. CASE AgentCrash
  <2>1. session' \in [Session -> SessionState]
    BY <1>3, SessionRecords DEF AgentCrash, CTypeOK
  <2>2. rpc' \in [Session -> [Kind -> Request]]
    BY <1>3, RequestForms DEF AgentCrash, CTypeOK
  <2> QED BY <1>3, <2>1, <2>2 DEF AgentCrash, CTypeOK
<1>4. CASE CoreCrash
  <2>1. ASSUME NEW s \in Session
        PROVE  [Fresh(session[s].modem, session[s].inv) EXCEPT !.phase = "failed"]
                 \in SessionState
    <3>1. session[s].modem \in Equipment /\ session[s].inv \in Invocation
      BY DEF CTypeOK, SessionState
    <3> QED BY <3>1 DEF Fresh, SessionState, Phase
  <2>2. session' \in [Session -> SessionState]
    BY <1>4, <2>1 DEF CoreCrash, CTypeOK
  <2>3. rpc' \in [Session -> [Kind -> Request]]
    BY <1>4, RequestForms DEF CoreCrash
  <2> QED BY <1>4, <2>2, <2>3 DEF CoreCrash, CTypeOK
<1>5. CASE CTick
  <2>1. \A n \in Nat : Less(n) \in Nat
    BY DEF Less
  <2>2. session' \in [Session -> SessionState]
    BY <1>5, <2>1, SessionRecords DEF CTick, CTypeOK
  <2> QED BY <1>5, <2>2 DEF CTick, CTypeOK
<1> QED BY <1>1, <1>2, <1>3, <1>4, <1>5

-----------------------------------------------------------------------------
(* The composition implements PaidCall.                                    *)

\* What the composition keeps of Core's and of the Agent's state.
CIInv == IInv /\ CTypeOK

\* It holds when nothing has happened yet.
LEMMA InitCIInv == CInit => CIInv
<1> SUFFICES ASSUME CInit PROVE CIInv
  OBVIOUS
<1>1. IInv
  BY InitIInv DEF CInit
<1>2. session \in [Session -> SessionState]
  <2>1. PICK modem \in [Session -> Equipment], inv \in [Session -> Invocation] :
          session = [s \in Session |-> Fresh(modem[s], inv[s])]
    BY DEF CInit
  <2>2. \A e \in Equipment, i \in Invocation : Fresh(e, i) \in SessionState
    BY DEF Fresh, SessionState, Phase
  <2> QED BY <2>1, <2>2
<1>3. rpc \in [Session -> [Kind -> Request]]
  BY DEF CInit, Idle, Request
<1> QED BY <1>1, <1>2, <1>3 DEF CIInv, CTypeOK, CInit

\* Every step preserves it.
LEMMA NextCIInv == CIInv /\ [CNext]_cvars => CIInv'
<1> SUFFICES ASSUME CIInv, [CNext]_cvars PROVE CIInv'
  OBVIOUS
<1>1. TypeOK /\ CTypeOK
  BY DEF CIInv, IInv
<1>2. IInv'
  BY <1>1, CNextImplements, NextIInv DEF CIInv
<1>3. CTypeOK'
  BY <1>1, SessionStepType, AgentStepType, OutsideType DEF CNext
<1> QED BY <1>2, <1>3 DEF CIInv

\* The invariant in every behaviour of the composition.
THEOREM CInvariance == CSpec => []CIInv
  BY InitCIInv, NextCIInv, PTL DEF CSpec

\* The types of Core's state, whatever the constants.
THEOREM CTypeCorrect == CSpec => []CTypeOK
  BY CInvariance, PTL DEF CIInv

\* Whatever Core, its browsers and the links do, the Agent with its store and
\* the modems behaves as PaidCall says.
THEOREM PaidCallImplemented == CSpec => ImplementsPaidCall
<1>1. CInit => Init
  BY DEF CInit
<1>2. CIInv /\ [CNext]_cvars => [Next]_vars
  BY CNextImplements DEF CIInv, IInv
<1> QED
  BY <1>1, <1>2, CInvariance, PTL DEF CSpec, Spec, ImplementsPaidCall

\* Hence, without call waiting, the composition keeps the billing hold.
THEOREM HoldKept ==
  ASSUME CallWaiting = FALSE
  PROVE  CSpec => ImplementsHold
  BY PaidCallImplemented, HoldImplemented, PTL DEF ImplementsPaidCall

-----------------------------------------------------------------------------
(* Starts, retries and renewals: a session is offered for another start    *)
(* only if no start of it is left anywhere, and an ended one is never      *)
(* renewed.                                                                *)

\* A session whose hangup was confirmed has been removed for good.
EndedInv ==
  \A s \in Session : session[s].terminal => s \notin registered /\ session[s].phase # "none"

\* beginCall is at work on a start of this session.
StartOf(s) ==
  busy.stage \in {"preflighted", "armed", "written"} /\ busy.inv.lease = s

\* The session may be offered for a start, now or when its preparation ends.
Offered(s) == session[s].preparing \/ session[s].phase \in {"none", "ready"}

\* A session keeps its lease and its modem, at the Agent too.
IdentityInv ==
  /\ \A s \in Session : session[s].inv.lease = s
  /\ \A s \in Session : StartOf(s) => busy.modem = session[s].modem
  /\ \A e \in Equipment :
       lease[e] # NoLease => session[lease[e].lease].modem = e

\* No start of an offered session is on its way anywhere, and the Agent works
\* on a start exactly while its request is running.
UnstartedInv ==
  \A s \in Session :
    /\ Offered(s) => rpc[s]["start"] = Idle
    /\ session[s].preparing => session[s].phase # "ready"
    /\ StartOf(s) <=> (rpc[s]["start"].at = "running")

\* A start that was not made, has not arrived, was refused or has not been
\* written to the modem yet has placed no call.
NoCallYet(s) ==
  \/ Offered(s) \/ rpc[s]["start"].at \in {"sent", "refused"}
  \/ StartOf(s) /\ busy.stage # "written"

RefusedInv == \A s \in Session : NoCallYet(s) => ~OwnsCall(s)

StartInv == IdentityInv /\ UnstartedInv /\ RefusedInv

-----------------------------------------------------------------------------
(* What a step does to a session.                                          *)

\* A handler changes one session and the requests of that session only.
LEMMA SessionStepFrame ==
  ASSUME CTypeOK, NEW s \in Session, SessionStep(s),
         NEW o \in Session \ {s}
  PROVE  session'[o] = session[o] /\ rpc'[o] = rpc[o]
<1>1. session'[o] = session[o]
  BY DEF CTypeOK, SessionStep, PrepareBegin, PrepareReady, PrepareFailed, Beat, BrowserLeaves,
     Expire, DeleteCheck, DeleteRemove, StartCall, CallActive, CallUncertain,
     CallRefused, UserHangup, HeartbeatLost, EndConfirmed, EndUnconfirmed,
     Renew, Renewed, RenewFailed
<1>2. rpc'[o] = rpc[o]
  BY DEF CTypeOK, Send, Return, SessionStep, PrepareBegin, PrepareReady, PrepareFailed, Beat, BrowserLeaves,
     Expire, DeleteCheck, DeleteRemove, StartCall, CallActive, CallUncertain,
     CallRefused, UserHangup, HeartbeatLost, EndConfirmed, EndUnconfirmed,
     Renew, Renewed, RenewFailed
<1> QED BY <1>1, <1>2

\* It keeps the session's identity, and only these handlers end a session,
\* begin its preparation or offer it for a start.
LEMMA SessionStepFields ==
  ASSUME CTypeOK, NEW s \in Session, SessionStep(s)
  PROVE  /\ session'[s].modem = session[s].modem
         /\ session'[s].inv.lease = session[s].inv.lease
         /\ session'[s].terminal => session[s].terminal \/ EndConfirmed(s)
         /\ session'[s].preparing => session[s].preparing \/ PrepareBegin(s)
         /\ session'[s].phase = "ready" =>
              session[s].phase = "ready" \/ PrepareReady(s) \/ CallRefused(s)
         /\ session'[s].phase = "none" => session[s].phase = "none"
<1>0. session \in [Session -> SessionState] /\ session[s] \in SessionState
  BY DEF CTypeOK
<1>1. CASE PrepareBegin(s) \/ PrepareReady(s) \/ PrepareFailed(s)
  <2>1. CASE PrepareBegin(s)
    BY <1>0, <2>1 DEF PrepareBegin, SessionState
  <2>2. CASE PrepareReady(s)
    BY <1>0, <2>2 DEF PrepareReady, SessionState
  <2>3. CASE PrepareFailed(s)
    BY <1>0, <2>3 DEF PrepareFailed, SessionState
  <2> QED BY <1>1, <2>1, <2>2, <2>3
<1>2. CASE Beat(s) \/ BrowserLeaves(s)
  BY <1>0, <1>2 DEF Beat, BrowserLeaves, SessionState, Invocation
<1>3. CASE Expire(s) \/ DeleteCheck(s) \/ DeleteRemove(s)
  BY <1>0, <1>3 DEF Expire, DeleteCheck, DeleteRemove, SessionState, Invocation
<1>4. CASE (\E op \in Operation : StartCall(s, op)) \/ CallActive(s)
  <2>1. CASE CallActive(s)
    BY <1>0, <2>1 DEF CallActive, SessionState
  <2>2. ASSUME NEW op \in Operation, StartCall(s, op)
        PROVE  session'[s] = [session[s] EXCEPT !.phase = "starting",
                                !.inv = [session[s].inv EXCEPT !.op = op]]
    BY <1>0, <2>2 DEF StartCall
  <2>3. \A op \in Operation : [session[s].inv EXCEPT !.op = op].lease = session[s].inv.lease
    BY <1>0 DEF SessionState, Invocation
  <2> QED BY <1>0, <1>4, <2>1, <2>2, <2>3 DEF SessionState
<1>5. CASE CallUncertain(s) \/ CallRefused(s)
  BY <1>0, <1>5 DEF CallUncertain, CallRefused, SessionState, Invocation
<1>6. CASE UserHangup(s) \/ HeartbeatLost(s)
  <2>1. session'[s] = [session[s] EXCEPT !.phase = "ending", !.hangupStarted = TRUE]
    BY <1>0, <1>6 DEF UserHangup, HeartbeatLost, Ending
  <2> QED BY <1>0, <2>1 DEF SessionState
<1>7. CASE EndConfirmed(s) \/ EndUnconfirmed(s)
  BY <1>0, <1>7 DEF EndConfirmed, EndUnconfirmed, SessionState, Invocation
<1>8. CASE Renew(s) \/ Renewed(s)
  BY <1>0, <1>8 DEF Renew, Renewed, SessionState, Invocation
<1>9. CASE RenewFailed(s)
  <2>1. CASE InCall(s) /\ ~session[s].hangupStarted
    <3>1. session'[s] = [session[s] EXCEPT !.phase = "ending", !.hangupStarted = TRUE,
                                          !.renewing = FALSE]
      BY <1>0, <1>9, <2>1 DEF RenewFailed, Ending
    <3> QED BY <1>0, <2>1, <3>1 DEF SessionState, Invocation, InCall
  <2>2. CASE ~(InCall(s) /\ ~session[s].hangupStarted)
    BY <1>0, <1>9, <2>2 DEF RenewFailed, SessionState, Invocation
  <2> QED BY <2>1, <2>2
<1> QED BY <1>1, <1>2, <1>3, <1>4, <1>5, <1>6, <1>7, <1>8, <1>9 DEF SessionStep

\* A session takes no further part once its hangup was confirmed.
LEMMA SessionStepEnded ==
  ASSUME CTypeOK, EndedInv, NEW s \in Session, SessionStep(s)
  PROVE  EndedInv'
<1>0. session \in [Session -> SessionState] /\ session[s] \in SessionState
  BY DEF CTypeOK
<1>1. registered' \subseteq registered \cup {s}
  BY DEF SessionStep, PrepareBegin, PrepareReady, PrepareFailed, Beat, BrowserLeaves,
     Expire, DeleteCheck, DeleteRemove, StartCall, CallActive, CallUncertain,
     CallRefused, UserHangup, HeartbeatLost, EndConfirmed, EndUnconfirmed,
     Renew, Renewed, RenewFailed
<1>2. session'[s].terminal => s \notin registered' /\ session'[s].phase # "none"
  <2>1. CASE EndConfirmed(s)
    BY <1>0, <2>1 DEF EndConfirmed, SessionState
  <2>2. CASE session[s].terminal
    <3>1. session[s].phase # "none" /\ s \notin registered
      BY <2>2 DEF EndedInv
    <3>2. ~PrepareBegin(s)
      BY <3>1 DEF PrepareBegin
    <3>3. s \notin registered'
      BY <3>1, <3>2 DEF SessionStep, PrepareReady, PrepareFailed, Beat, BrowserLeaves,
     Expire, DeleteCheck, DeleteRemove, StartCall, CallActive, CallUncertain,
     CallRefused, UserHangup, HeartbeatLost, EndConfirmed, EndUnconfirmed,
     Renew, Renewed, RenewFailed
    <3> QED BY <3>1, <3>3, SessionStepFields
  <2> QED BY <2>1, <2>2, SessionStepFields
<1> QED BY <1>1, <1>2, SessionStepFrame DEF EndedInv

\* A crash of the Agent and the clock leave a session's record alone but for
\* its timers and its link to the Agent's process.
LEMMA ClockFrame ==
  ASSUME CTypeOK, AgentCrash \/ CTick, NEW s \in Session
  PROVE  /\ session'[s].phase = session[s].phase
         /\ session'[s].terminal = session[s].terminal
         /\ session'[s].preparing = session[s].preparing
         /\ session'[s].modem = session[s].modem
         /\ session'[s].inv = session[s].inv
<1>1. session[s] \in SessionState
  BY DEF CTypeOK
<1>2. \/ session'[s] = [session[s] EXCEPT !.current = FALSE]
      \/ \E m, n \in Nat : session'[s] = [session[s] EXCEPT !.beat = m, !.renewIn = n]
  <2>1. CASE AgentCrash
    BY <2>1 DEF AgentCrash
  <2>2. CASE CTick
    <3>1. session'[s] = [session[s] EXCEPT !.beat = Less(session[s].beat),
                                          !.renewIn = Less(session[s].renewIn)]
      BY <2>2 DEF CTick
    <3>2. Less(session[s].beat) \in Nat /\ Less(session[s].renewIn) \in Nat
      BY <1>1 DEF SessionState, Less
    <3> QED BY <3>1, <3>2
  <2> QED BY <2>1, <2>2
<1> QED BY <1>1, <1>2 DEF SessionState

-----------------------------------------------------------------------------
(* An ended session is never renewed.                                      *)

\* Ended sessions stay removed.
LEMMA NextEnded ==
  ASSUME CTypeOK, EndedInv, [CNext]_cvars
  PROVE  EndedInv'
<1>1. CASE \E s \in Session : SessionStep(s)
  BY <1>1, SessionStepEnded
<1>2. CASE \/ \E s \in Session : AgentStep(s)
           \/ \E s \in Session, k \in Kind : Lose(s, k) \/ Decline(s, k)
           \/ \E e \in Equipment : MediaLost(e)
           \/ AgentAlone \/ UNCHANGED cvars
  <2>1. UNCHANGED <<session, registered>>
    BY <1>2 DEF AgentStep, DeliverStart, RunStart, DeliverRenew, DeliverHangup,
       Lose, Decline, MediaLost, AgentAlone, coreVars, cvars
  <2> QED BY <2>1 DEF EndedInv
<1>3. CASE AgentCrash \/ CTick
  <2>1. ASSUME NEW s \in Session
        PROVE  session'[s].terminal = session[s].terminal /\ session'[s].phase = session[s].phase
    BY <1>3, ClockFrame
  <2> QED BY <1>3, <2>1 DEF EndedInv, AgentCrash, CTick
<1>4. CASE CoreCrash
  BY <1>4 DEF CoreCrash, EndedInv
<1> QED BY <1>1, <1>2, <1>3, <1>4 DEF CNext

\* The Agent's side and a lost connection touch only requests under way.
LEMMA AgentRequest ==
  ASSUME NEW o \in Session,
         AgentStep(o) \/ \E k \in Kind : Lose(o, k) \/ Decline(o, k)
  PROVE  \/ UNCHANGED rpc
         \/ \E k \in Kind : /\ rpc[o][k] # Idle
                            /\ \E r : rpc' = [rpc EXCEPT ![o][k] = r]
<1>1. {"start", "renew", "hangup"} = Kind
  BY DEF Kind
<1>2. \A k \in Kind : rpc[o][k].at \in {"sent", "running"} => rpc[o][k] # Idle
  BY DEF Idle
<1>3. \A k \in Kind, r \in {"ok", "refused", "error"} :
        Answer(o, k, r) => \E q : rpc' = [rpc EXCEPT ![o][k] = q]
  BY DEF Answer
<1>4. CASE RunStart(o)
  <2>1. UNCHANGED rpc \/ \E r \in {"ok", "refused", "error"} : Answer(o, "start", r)
    BY <1>4 DEF RunStart, NotCreated
  <2> QED BY <1>1, <1>2, <1>3, <1>4, <2>1 DEF RunStart
<1>5. CASE DeliverStart(o)
  <2>1. \E q : rpc' = [rpc EXCEPT ![o]["start"] = q]
    BY <1>5 DEF DeliverStart
  <2> QED BY <1>1, <1>2, <1>5, <2>1 DEF DeliverStart
<1>6. CASE DeliverRenew(o)
  BY <1>1, <1>2, <1>3, <1>6 DEF DeliverRenew
<1>7. CASE DeliverHangup(o)
  <2>1. \E r \in {"ok", "refused", "error"} : Answer(o, "hangup", r)
    BY <1>7 DEF DeliverHangup
  <2> QED BY <1>1, <1>2, <1>3, <1>7, <2>1 DEF DeliverHangup
<1>8. ASSUME NEW k \in Kind, Lose(o, k) \/ Decline(o, k)
      PROVE  rpc[o][k] # Idle /\ \E q : rpc' = [rpc EXCEPT ![o][k] = q]
  <2>1. CASE Lose(o, k)
    <3>1. [at |-> "sent", wait |-> FALSE].at = "sent"
      OBVIOUS
    <3>2. rpc[o][k] # Idle
      BY <1>2, <2>1, <3>1 DEF Lose
    <3>3. rpc' = [rpc EXCEPT ![o][k] = Idle]
      BY <2>1, Zenon DEF Lose
    <3> QED BY <3>2, <3>3
  <2>2. CASE Decline(o, k)
    <3>1. \E r \in {"ok", "refused", "error"} : Answer(o, k, r)
      BY <2>2 DEF Decline
    <3> QED BY <1>2, <1>3, <2>2, <3>1 DEF Decline
  <2> QED BY <1>8, <2>1, <2>2
<1> QED BY <1>4, <1>5, <1>6, <1>7, <1>8 DEF AgentStep

\* Only the sweep's decision to renew sends a renewal.
LEMMA RenewalSent ==
  ASSUME CTypeOK, [CNext]_cvars, NEW s \in Session, SendsRenewal(s)
  PROVE  Renew(s)
<1>0. /\ rpc[s]["renew"] = Idle /\ rpc'[s]["renew"] # rpc[s]["renew"]
      /\ rpc'[s]["renew"] # Idle
      /\ {"start", "renew", "hangup"} = Kind
  BY DEF SendsRenewal, Idle, Kind
<1>1. ASSUME NEW o \in Session, SessionStep(o)
      PROVE  Renew(s)
  <2>1. o = s
    BY <1>0, <1>1, SessionStepFrame
  <2>2. ~Returns(s, "renew", "ok") /\ ~Returns(s, "renew", "error")
    BY <1>0 DEF Returns, Idle
  <2> QED
    BY <1>0, <1>1, <2>1, <2>2 DEF CTypeOK, Send, Return, SessionStep,
     PrepareBegin, PrepareReady, PrepareFailed, Beat, BrowserLeaves,
     Expire, DeleteCheck, DeleteRemove, StartCall, CallActive, CallUncertain,
     CallRefused, UserHangup, HeartbeatLost, EndConfirmed, EndUnconfirmed,
     Renewed, RenewFailed
<1>2. ASSUME NEW o \in Session,
             AgentStep(o) \/ \E k \in Kind : Lose(o, k) \/ Decline(o, k)
      PROVE  FALSE
  <2>1. \/ UNCHANGED rpc
        \/ \E k \in Kind : /\ rpc[o][k] # Idle
                           /\ \E r : rpc' = [rpc EXCEPT ![o][k] = r]
    BY <1>0, <1>2, AgentRequest
  <2> QED BY <1>0, <2>1 DEF CTypeOK
<1>3. CASE AgentCrash \/ CoreCrash
  <2>1. rpc[s]["renew"].at = "idle"
    BY <1>0 DEF Idle
  <2>2. CASE AgentCrash
    <3>1. rpc'[s]["renew"] = rpc[s]["renew"]
      BY <1>0, <2>1, <2>2 DEF AgentCrash
    <3> QED BY <1>0, <3>1
  <2>3. CASE CoreCrash
    <3>1. rpc'[s]["renew"] = Forgotten(s, "renew")
      BY <1>0, <2>3 DEF CoreCrash
    <3>2. Forgotten(s, "renew") = Idle
      BY <2>1 DEF Forgotten
    <3> QED BY <1>0, <3>1, <3>2
  <2> QED BY <1>3, <2>2, <2>3
<1>4. CASE AgentAlone \/ CTick \/ UNCHANGED cvars \/ \E e \in Equipment : MediaLost(e)
  BY <1>0, <1>4 DEF AgentAlone, CTick, cvars, MediaLost
<1> QED BY <1>1, <1>2, <1>3, <1>4 DEF CNext

\* Once its hangup was confirmed a session is never renewed.
THEOREM NeverRenewedAfterEnd == CSpec => NoRenewalAfterEnd
<1>1. CInit => EndedInv
  BY DEF CInit, EndedInv, Fresh
<1>2. CIInv /\ EndedInv /\ [CNext]_cvars => EndedInv'
  BY NextEnded DEF CIInv
<1>3. CIInv /\ EndedInv /\ [CNext]_cvars
        => [\A s \in Session : session[s].terminal => ~SendsRenewal(s)]_cvars
  BY RenewalSent DEF CIInv, EndedInv, Renew, Known
<1> QED
  BY <1>1, <1>2, <1>3, CInvariance, PTL DEF CSpec, NoRenewalAfterEnd

-----------------------------------------------------------------------------
(* A session offered for a start is unstarted: steps that start nothing.   *)

\* The Agent makes no call and no record, and whether it is at work on a
\* start does not change.
QuietAgent ==
  /\ \/ busy' = busy
     \/ /\ busy.stage \notin {"preflighted", "armed", "written"}
        /\ busy'.stage \notin {"preflighted", "armed", "written"}
  /\ \A f \in Equipment : Live(f)' => Live(f)
  /\ \A f \in Equipment : lease'[f] \in {lease[f], NoLease}

\* The session keeps its identity and does not come closer to a start.
StartKept(s) ==
  /\ session'[s].modem = session[s].modem
  /\ session'[s].inv.lease = session[s].inv.lease
  /\ Offered(s)' => rpc'[s]["start"] = Idle
  /\ session'[s].preparing => session'[s].phase # "ready"
  /\ (rpc'[s]["start"].at = "running") <=> (rpc[s]["start"].at = "running")
  /\ Offered(s)' \/ rpc'[s]["start"].at \in {"sent", "refused"}
       => Offered(s) \/ rpc[s]["start"].at \in {"sent", "refused"}

\* Such steps preserve the invariant.
LEMMA QuietKeeps ==
  ASSUME CIInv, StartInv, QuietAgent, \A s \in Session : StartKept(s)
  PROVE  StartInv'
<1>1. \A s \in Session : (StartOf(s)' <=> StartOf(s)) /\ (StartOf(s) => busy' = busy)
  BY DEF QuietAgent, StartOf
<1>2. \A s \in Session : OwnsCall(s)' => OwnsCall(s)
  BY DEF QuietAgent, OwnsCall
<1>3. \A e \in Equipment : lease[e] # NoLease => lease[e].lease \in Session
  BY InvocationFields DEF CIInv, IInv, TypeOK, Session
<1>4. IdentityInv'
  <2>1. \A e \in Equipment : lease'[e] # NoLease => lease'[e] = lease[e]
    BY DEF QuietAgent
  <2> QED BY <1>1, <1>3, <2>1 DEF StartInv, IdentityInv, StartKept
<1>5. UnstartedInv'
  BY <1>1 DEF StartInv, UnstartedInv, StartKept
<1>6. RefusedInv'
  <2> SUFFICES ASSUME NEW s \in Session, NoCallYet(s)'
               PROVE  NoCallYet(s)
    BY <1>2 DEF StartInv, RefusedInv
  <2> QED BY <1>1 DEF NoCallYet, StartKept
<1> QED BY <1>4, <1>5, <1>6 DEF StartInv

\* The Agent's other operations, the carrier, the clock and Core leave it quiet.
LEMMA QuietSteps ==
  ASSUME CIInv,
         \/ CoreAlone \/ AgentAlone \/ CTick \/ UNCHANGED cvars
         \/ \E s \in Session : DeliverRenew(s) \/ DeliverHangup(s)
  PROVE  QuietAgent
<1>0. /\ TypeOK /\ CTypeOK
      /\ {"preflighted", "armed", "written"} \cap {"free", "auxiliary", "scan"} = {}
  BY DEF CIInv, IInv
<1>1. CASE CoreAlone \/ UNCHANGED cvars
  <2>1. UNCHANGED vars
    BY <1>1, CoreStepLeavesAgent DEF cvars
  <2> QED BY <2>1 DEF vars, QuietAgent, Live
<1>2. CASE CTick
  BY <1>2 DEF CTick, Elapse, modemVars, QuietAgent, Live
<1>3. ASSUME NEW e \in Equipment,
             \/ Ring(e) \/ PeerEnds(e) \/ SecondCall(e) \/ Reject(e)
             \/ SweepConfirmed(e) \/ SweepDeferred(e)
             \/ \E t \in Target : HangupConfirmed(e, t) \/ HangupUnconfirmed(e, t)
             \/ \E t \in Target : Replace(e, t)
      PROVE  QuietAgent
  <2>1. busy' = busy
    BY <1>3 DEF Ring, PeerEnds, SecondCall, Reject, SweepConfirmed, SweepDeferred,
       HangupConfirmed, HangupUnconfirmed, Replace
  <2>2. UNCHANGED lease \/ lease' = [lease EXCEPT ![e] = NoLease]
    BY <1>3 DEF Ring, PeerEnds, SecondCall, Reject, SweepConfirmed, SweepDeferred,
       HangupConfirmed, HangupUnconfirmed, Replace, ClearTarget, DeleteRecord, storeVars
  <2>3. UNCHANGED call \/ \E c \in {"idle", "ringing"} : call' = [call EXCEPT ![e] = c]
    BY <1>3 DEF Ring, PeerEnds, SecondCall, Reject, SweepConfirmed, SweepDeferred,
       HangupConfirmed, HangupUnconfirmed, Replace, ModemIdle, ModemUnconfirmed
  <2> QED BY <1>0, <2>1, <2>2, <2>3 DEF QuietAgent, TypeOK, Live
<1>4. ASSUME \/ \E e \in Equipment : BeginAuxiliary(e)
             \/ BeginScan \/ EndCallback \/ Restart
      PROVE  QuietAgent
  <2>1. UNCHANGED <<lease, call>>
    BY <1>4 DEF BeginAuxiliary, BeginScan, EndCallback, Restart, storeVars, modemVars
  <2>2. \/ busy' = busy
        \/ busy.stage \in {"free", "auxiliary", "scan"} /\ busy'.stage \in {"free", "auxiliary", "scan"}
    BY <1>4 DEF BeginAuxiliary, BeginScan, EndCallback, Restart, Free, Scan
  <2> QED BY <1>0, <2>1, <2>2 DEF QuietAgent, Live
<1>5. ASSUME NEW e \in Equipment, NEW id \in Lease, NEW t \in Target, RenewLease(e, id, t)
      PROVE  QuietAgent
  BY <1>5 DEF RenewLease, modemVars, QuietAgent, Live
<1>6. ASSUME NEW s \in Session, DeliverRenew(s) \/ DeliverHangup(s)
      PROVE  QuietAgent
  <2>1. session[s].modem \in Equipment /\ session[s].inv.target \in Target /\ s \in Lease
    BY <1>0 DEF CTypeOK, SessionState, Invocation, Session
  <2> QED BY <1>3, <1>5, <1>6, <2>1 DEF DeliverRenew, DeliverHangup
<1> QED BY <1>1, <1>2, <1>3, <1>4, <1>5, <1>6 DEF AgentAlone

\* A request that is forgotten goes on if it was under way, or is over.
LEMMA ForgottenAt ==
  ASSUME CTypeOK, NEW s \in Session, NEW k \in Kind
  PROVE  /\ rpc[s][k].at \in {"sent", "running"} => Forgotten(s, k).at = rpc[s][k].at
         /\ rpc[s][k].at \notin {"sent", "running"} => Forgotten(s, k) = Idle
         /\ Idle.at = "idle"
<1>1. rpc[s][k] \in Request
  BY DEF CTypeOK
<1> QED BY <1>1 DEF Request, Forgotten, Idle

\* Handlers that have nothing to do with the start leave its request alone.
LEMMA StartUntouched ==
  ASSUME CTypeOK, NEW s \in Session,
         \/ PrepareBegin(s) \/ PrepareReady(s) \/ PrepareFailed(s)
         \/ Beat(s) \/ BrowserLeaves(s)
         \/ Expire(s) \/ DeleteCheck(s) \/ DeleteRemove(s)
         \/ UserHangup(s) \/ HeartbeatLost(s)
         \/ EndConfirmed(s) \/ EndUnconfirmed(s)
         \/ Renew(s) \/ Renewed(s) \/ RenewFailed(s)
  PROVE  rpc'[s]["start"] = rpc[s]["start"]
<1>1. /\ {"start", "renew", "hangup"} = Kind
      /\ rpc \in [Session -> [Kind -> Request]]
  BY DEF CTypeOK, Kind
<1>2. \/ UNCHANGED rpc
      \/ \E k \in {"renew", "hangup"} : \E r : rpc' = [rpc EXCEPT ![s][k] = r]
      \/ \E q, r : rpc' = [rpc EXCEPT ![s]["renew"] = q, ![s]["hangup"] = r]
  BY DEF PrepareBegin, PrepareReady, PrepareFailed, Beat, BrowserLeaves, Expire,
     DeleteCheck, DeleteRemove, UserHangup, HeartbeatLost, EndConfirmed,
     EndUnconfirmed, Renew, Renewed, RenewFailed, Send, Return
<1> QED BY <1>1, <1>2

\* A handler of Core brings a session closer to a start only by sending one
\* for an unstarted session, or by offering it again after a refusal.
LEMMA SessionStepKeeps ==
  ASSUME CTypeOK, UnstartedInv, NEW s \in Session, SessionStep(s)
  PROVE  StartKept(s)
<1>0. /\ session \in [Session -> SessionState] /\ session[s] \in SessionState
      /\ rpc \in [Session -> [Kind -> Request]] /\ "start" \in Kind
      /\ Offered(s) => rpc[s]["start"] = Idle
      /\ session[s].preparing => session[s].phase # "ready"
      /\ Idle.at = "idle"
  BY DEF CTypeOK, UnstartedInv, Kind, Idle
<1>1. CASE \E op \in Operation : StartCall(s, op)
  <2>1. session'[s].phase = "starting" /\ session'[s].preparing = session[s].preparing
        /\ session[s].phase = "ready"
    BY <1>0, <1>1 DEF StartCall, SessionState
  <2>2. rpc'[s]["start"].at \in {"sent", "error"}
    BY <1>0, <1>1 DEF StartCall, Send, Sent
  <2> QED
    BY <1>0, <2>1, <2>2, SessionStepFields DEF StartKept, Offered
<1>2. CASE CallActive(s) \/ CallUncertain(s) \/ CallRefused(s)
  <2>1. rpc'[s]["start"] = Forgotten(s, "start")
    BY <1>0, <1>2 DEF CallActive, CallUncertain, CallRefused, Return
  <2>2. rpc[s]["start"] # Idle
    BY <1>0, <1>2 DEF CallActive, CallUncertain, CallRefused, Returns, Idle
  <2>3. session'[s].preparing = session[s].preparing
    BY <1>0, <1>2 DEF CallActive, CallUncertain, CallRefused, SessionState
  <2>4. CASE CallRefused(s)
    <3>1. rpc[s]["start"].at = "refused"
      BY <2>4 DEF CallRefused, Returns
    <3>2. rpc'[s]["start"] = Idle
      BY <1>0, <2>1, <3>1, ForgottenAt
    <3> QED
      BY <1>0, <2>2, <2>3, <3>1, <3>2, SessionStepFields DEF StartKept, Offered
  <2>5. CASE CallActive(s) \/ CallUncertain(s)
    <3>1. session'[s].phase \in {"active", "uncertain"}
      BY <1>0, <2>5 DEF CallActive, CallUncertain, SessionState
    <3> QED
      BY <1>0, <2>1, <2>2, <2>3, <3>1, ForgottenAt, SessionStepFields DEF StartKept, Offered
  <2> QED BY <1>2, <2>4, <2>5
<1>3. CASE PrepareBegin(s) \/ PrepareReady(s)
  <2>1. rpc'[s]["start"] = rpc[s]["start"] /\ Offered(s)
    BY <1>3, StartUntouched DEF PrepareBegin, PrepareReady, Offered
  <2>2. session'[s].preparing => session'[s].phase # "ready"
    <3>1. CASE PrepareBegin(s)
      BY <1>0, <3>1 DEF PrepareBegin, SessionState
    <3>2. CASE PrepareReady(s)
      BY <1>0, <3>2 DEF PrepareReady, SessionState
    <3> QED BY <1>3, <3>1, <3>2
  <2> QED BY <1>0, <2>1, <2>2, SessionStepFields DEF StartKept
<1>4. CASE /\ ~\E op \in Operation : StartCall(s, op)
           /\ ~(CallActive(s) \/ CallUncertain(s) \/ CallRefused(s))
           /\ ~(PrepareBegin(s) \/ PrepareReady(s))
  <2>1. rpc'[s]["start"] = rpc[s]["start"]
    BY <1>4, StartUntouched DEF SessionStep
  <2> QED BY <1>0, <1>4, <2>1, SessionStepFields DEF StartKept, Offered
<1> QED BY <1>1, <1>2, <1>3, <1>4

\* Nothing else but the Agent's start steps and its crash brings any session
\* closer to a start.
LEMMA OtherStepKeeps ==
  ASSUME CTypeOK, UnstartedInv, NEW s \in Session,
         \/ \E o \in Session : DeliverRenew(o) \/ DeliverHangup(o)
         \/ \E o \in Session, k \in Kind : Lose(o, k) \/ Decline(o, k)
         \/ \E e \in Equipment : MediaLost(e)
         \/ AgentAlone \/ CTick \/ UNCHANGED cvars
  PROVE  StartKept(s)
<1>0. /\ rpc \in [Session -> [Kind -> Request]] /\ {"start", "renew", "hangup"} = Kind
      /\ Offered(s) => rpc[s]["start"] = Idle
      /\ session[s].preparing => session[s].phase # "ready"
      /\ Idle.at = "idle"
  BY DEF CTypeOK, UnstartedInv, Kind, Idle
<1>1. /\ session'[s].modem = session[s].modem
      /\ session'[s].inv.lease = session[s].inv.lease
      /\ session'[s].preparing = session[s].preparing
      /\ session'[s].phase = session[s].phase
  <2>1. CASE CTick
    BY <2>1, ClockFrame
  <2>2. CASE ~CTick
    BY <2>2 DEF DeliverRenew, DeliverHangup, Lose, Decline, MediaLost, AgentAlone,
       coreVars, cvars
  <2> QED BY <2>1, <2>2
<1>2. \/ rpc'[s]["start"] = rpc[s]["start"]
      \/ rpc[s]["start"].at = "sent" /\ rpc'[s]["start"].at \in {"idle", "refused"}
  <2>1. CASE CTick \/ AgentAlone \/ UNCHANGED cvars \/ \E e \in Equipment : MediaLost(e)
    BY <2>1 DEF CTick, AgentAlone, cvars, MediaLost
  <2>2. ASSUME NEW o \in Session, DeliverRenew(o) \/ DeliverHangup(o)
        PROVE  rpc'[s]["start"] = rpc[s]["start"]
    <3>1. \E k \in {"renew", "hangup"} : \E r : rpc' = [rpc EXCEPT ![o][k] = r]
      BY <2>2 DEF DeliverRenew, DeliverHangup, Answer
    <3> QED BY <1>0, <3>1
  <2>3. ASSUME NEW o \in Session, NEW k \in Kind, Lose(o, k) \/ Decline(o, k)
        PROVE  \/ rpc'[s]["start"] = rpc[s]["start"]
               \/ rpc[s]["start"].at = "sent" /\ rpc'[s]["start"].at \in {"idle", "refused"}
    <3>1. \E r : rpc' = [rpc EXCEPT ![o][k] = r]
      BY <2>3, Zenon DEF Lose, Decline, Answer
    <3>2. CASE o # s \/ k # "start"
      BY <1>0, <3>1, <3>2
    <3>3. CASE Lose(s, "start")
      <4>1. rpc[s]["start"].at = "sent" /\ rpc'[s]["start"] = Idle
        BY <1>0, <3>3 DEF Lose
      <4> QED BY <1>0, <4>1
    <3>4. CASE Decline(s, "start")
      <4>1. /\ rpc[s]["start"].at = "sent" /\ rpc[s]["start"] \in Request
            /\ \/ rpc'[s]["start"] = Idle
               \/ rpc'[s]["start"] = [rpc[s]["start"] EXCEPT !.at = "refused"]
        BY <1>0, <3>4 DEF Decline, Answer
      <4> QED BY <1>0, <4>1 DEF Request
    <3> QED BY <2>3, <3>2, <3>3, <3>4
  <2> QED BY <2>1, <2>2, <2>3
<1> QED BY <1>0, <1>1, <1>2 DEF StartKept, Offered

\* Core's restart offers nothing and lets the requests under way go on.
LEMMA CoreCrashKeeps ==
  ASSUME CTypeOK, UnstartedInv, NEW s \in Session, CoreCrash
  PROVE  StartKept(s)
<1>0. /\ session[s] \in SessionState /\ "start" \in Kind
      /\ Offered(s) => rpc[s]["start"] = Idle
      /\ Idle.at = "idle"
  BY DEF CTypeOK, UnstartedInv, Kind, Idle
<1>1. rpc'[s]["start"] = Forgotten(s, "start")
  BY <1>0 DEF CoreCrash
<1>2. CASE session[s].phase = "none"
  <2>1. session'[s] = session[s]
    BY <1>2 DEF CoreCrash
  <2> QED
    BY <1>0, <1>1, <1>2, <2>1, ForgottenAt DEF StartKept, Offered
<1>3. CASE session[s].phase # "none"
  <2>1. session'[s] = [Fresh(session[s].modem, session[s].inv) EXCEPT !.phase = "failed"]
    BY <1>3 DEF CoreCrash
  <2>2. /\ session'[s].modem = session[s].modem /\ session'[s].inv = session[s].inv
        /\ session'[s].phase = "failed" /\ ~session'[s].preparing
    BY <1>0, <2>1 DEF Fresh
  <2> QED BY <1>0, <1>1, <2>2, ForgottenAt DEF StartKept, Offered
<1> QED BY <1>2, <1>3

-----------------------------------------------------------------------------
(* A session offered for a start is unstarted: the start itself.           *)

\* What is unaffected by the Agent's side of a start.
LEMMA StartFrame ==
  ASSUME CTypeOK, StartInv, UNCHANGED session, NEW o \in Session,
         \A s \in Session \ {o} : rpc'[s] = rpc[s],
         rpc[o]["start"] # Idle,
         \A s \in Session \ {o} : StartOf(s)' <=> StartOf(s),
         \A s \in Session \ {o} : StartOf(s) => busy' = busy,
         StartOf(o)' => busy'.modem = session[o].modem,
         StartOf(o)' <=> (rpc'[o]["start"].at = "running"),
         \A s \in Session \ {o} : OwnsCall(s)' => OwnsCall(s),
         rpc'[o]["start"].at = "refused" => ~OwnsCall(o)',
         StartOf(o)' /\ busy'.stage # "written" => ~OwnsCall(o)',
         rpc'[o]["start"].at # "sent",
         \A e \in Equipment : lease'[e] # NoLease => session[lease'[e].lease].modem = e
  PROVE  StartInv'
<1>1. \A s \in Session : Offered(s)' <=> Offered(s)
  BY DEF Offered
<1>2. IdentityInv'
  BY DEF StartInv, IdentityInv
<1>3. UnstartedInv'
  BY <1>1 DEF StartInv, UnstartedInv
<1>4. RefusedInv'
  <2> SUFFICES ASSUME NEW s \in Session, NoCallYet(s)'
               PROVE  ~OwnsCall(s)'
    BY DEF RefusedInv
  <2>1. CASE s = o
    <3>1. ~Offered(o)'
      BY <1>1 DEF StartInv, UnstartedInv
    <3> QED BY <2>1, <3>1 DEF NoCallYet
  <2>2. CASE s # o
    <3>1. NoCallYet(s)
      BY <1>1, <2>2 DEF NoCallYet
    <3> QED BY <2>2, <3>1 DEF StartInv, RefusedInv
  <2> QED BY <2>1, <2>2
<1> QED BY <1>2, <1>3, <1>4 DEF StartInv

\* The Agent takes a start up.
LEMMA DeliverStartKeeps ==
  ASSUME CIInv, StartInv, NEW o \in Session, DeliverStart(o)
  PROVE  StartInv'
<1>0. /\ CTypeOK /\ UNCHANGED session /\ "start" \in Kind
      /\ rpc \in [Session -> [Kind -> Request]] /\ rpc[o]["start"] \in Request
      /\ rpc[o]["start"].at = "sent" /\ Idle.at = "idle"
      /\ UNCHANGED <<lease, call>>
  BY DEF CIInv, CTypeOK, DeliverStart, BeginPreflight, coreVars, modemVars, Kind, Idle
<1>1. /\ rpc'[o]["start"].at = "running"
      /\ \A s \in Session \ {o} : rpc'[s] = rpc[s]
  BY <1>0 DEF DeliverStart, Request
<1>2. /\ busy.stage = "free"
      /\ busy'.stage = "preflighted" /\ busy'.modem = session[o].modem
      /\ busy'.inv.lease = o
  BY DEF DeliverStart, BeginPreflight, Free, StartInv, IdentityInv
<1>3. \A s \in Session : ~StartOf(s) /\ (StartOf(s)' <=> s = o)
  BY <1>2 DEF StartOf
<1>4. \A s \in Session : OwnsCall(s)' <=> OwnsCall(s)
  BY <1>0 DEF OwnsCall, Live
<1>5. ~OwnsCall(o)
  BY <1>0 DEF StartInv, RefusedInv, NoCallYet
<1>6. \A e \in Equipment : lease'[e] # NoLease => session[lease'[e].lease].modem = e
  BY <1>0 DEF StartInv, IdentityInv
<1> QED BY <1>0, <1>1, <1>2, <1>3, <1>4, <1>5, <1>6, StartFrame

\* The Agent's start, from Store.Begin to its answer, for the session whose
\* request is running.
LEMMA RunStartKeeps ==
  ASSUME CallWaiting = FALSE, CIInv, StartInv, NEW o \in Session, RunStart(o)
  PROVE  StartInv'
<1> DEFINE e == busy.modem
<1>0. /\ CTypeOK /\ TypeOK /\ UNCHANGED session /\ "start" \in Kind
      /\ rpc \in [Session -> [Kind -> Request]] /\ rpc[o]["start"] \in Request
      /\ rpc[o]["start"].at = "running" /\ Idle.at = "idle"
      /\ rpc[o]["start"] # Idle
  BY DEF CIInv, IInv, CTypeOK, RunStart, coreVars, Kind, Idle
<1>1. /\ StartOf(o) /\ ~Offered(o)
      /\ e = session[o].modem /\ e \in Equipment
      /\ busy.inv.lease = o /\ busy.inv # NoLease
  <2>1. StartOf(o) /\ ~Offered(o) /\ e = session[o].modem
    BY <1>0 DEF StartInv, UnstartedInv, IdentityInv
  <2> QED BY <1>0, <2>1, StartOpFields, InvocationFields DEF StartOf
<1>2. \A s \in Session \ {o} : ~StartOf(s)
  BY <1>1 DEF StartOf
<1>3. /\ \A f \in Equipment : Live(f) => lease[f] # NoLease
      /\ \A f \in Equipment : ~waiting[f]
      /\ busy.stage \in {"armed", "written"} => lease[e] = busy.inv
  BY DEF CIInv, IInv, SingleCallInv, LockHolderInv
\* The call is not up yet, or its record is not the session's.
<1>4. /\ busy.stage \in {"preflighted", "armed"} => ~OwnsCall(o)
      /\ call[e] = "idle" => ~OwnsCall(o)
  <2>1. busy.stage \in {"preflighted", "armed"} => ~OwnsCall(o)
    BY <1>1 DEF StartInv, RefusedInv, NoCallYet
  <2>2. OwnsCall(o) => Live(e)
    BY <1>1 DEF OwnsCall, StartInv, IdentityInv
  <2> QED BY <2>1, <2>2 DEF Live
<1>5. \/ BeginArm \/ StartWrite \/ BeginNotCreated \/ BeginNotAllowed
      \/ StartRefused \/ AnswerChanged \/ StartConfirm \/ StartUncertain
  BY DEF RunStart
\* What happens to the modem's record.
<1>6. \/ UNCHANGED lease
      \/ lease' = [lease EXCEPT ![e] = NoLease]
      \/ lease' = [lease EXCEPT ![e] = busy.inv] /\ lease[e] = NoLease /\ UNCHANGED call
  BY <1>5 DEF BeginArm, StartWrite, BeginNotCreated, BeginNotAllowed, StartRefused,
     AnswerChanged, StartConfirm, StartUncertain, CreateRecord, ClearTarget,
     DeleteRecord, storeVars, modemVars
<1>7. \A f \in Equipment : lease'[f] # NoLease => session[lease'[f].lease].modem = f
  BY <1>0, <1>1, <1>6 DEF TypeOK, StartInv, IdentityInv
<1>8. CASE StartWrite /\ UNCHANGED rpc
  <2>1. /\ UNCHANGED lease /\ busy.stage = "armed" /\ busy' = [busy EXCEPT !.stage = "written"]
        /\ \A f \in Equipment \ {e} : call'[f] = call[f]
    BY <1>0, <1>8 DEF StartWrite, TypeOK
  <2>2. busy'.stage = "written" /\ busy'.modem = e /\ busy'.inv = busy.inv
    BY <1>0, <1>1, <2>1, StartOpFields DEF StartOp
  <2>3. \A s \in Session \ {o} : OwnsCall(s)' => OwnsCall(s)
    BY <1>1, <1>3, <2>1 DEF OwnsCall, Live
  <2>4. \A s \in Session : StartOf(s)' <=> s = o
    BY <1>1, <2>2 DEF StartOf
  <2> QED BY <1>0, <1>1, <1>2, <1>7, <1>8, <2>2, <2>3, <2>4, StartFrame
<1>9. CASE BeginArm /\ UNCHANGED rpc
  <2>1. /\ lease' = [lease EXCEPT ![e] = busy.inv] /\ lease[e] = NoLease /\ UNCHANGED call
        /\ busy.stage = "preflighted" /\ busy' = [busy EXCEPT !.stage = "armed"]
    BY <1>9 DEF BeginArm, CreateRecord, modemVars
  <2>2. busy'.stage = "armed" /\ busy'.modem = e /\ busy'.inv = busy.inv
    BY <1>0, <1>1, <2>1, StartOpFields DEF StartOp
  <2>3. \A s \in Session : OwnsCall(s)' => OwnsCall(s)
    BY <1>0, <1>1, <1>3, <2>1 DEF TypeOK, OwnsCall, Live
  <2>4. \A s \in Session : StartOf(s)' <=> s = o
    BY <1>1, <2>2 DEF StartOf
  <2> QED BY <1>0, <1>1, <1>2, <1>4, <1>7, <1>9, <2>1, <2>2, <2>3, <2>4, StartFrame
<1>10. ASSUME NEW r \in {"ok", "refused", "error"}, Answer(o, "start", r),
              \/ BeginNotCreated
              \/ (BeginNotAllowed \/ StartRefused \/ AnswerChanged) /\ r = "refused"
              \/ (StartConfirm \/ StartUncertain) /\ r # "refused"
       PROVE  StartInv'
  <2>1. busy' = Free /\ UNCHANGED call
    BY <1>10 DEF BeginNotCreated, BeginNotAllowed, StartRefused, AnswerChanged,
       StartConfirm, StartUncertain, modemVars
  <2>2. \A s \in Session : ~StartOf(s)'
    BY <2>1 DEF StartOf, Free
  <2>3. \A s \in Session : OwnsCall(s)' => OwnsCall(s)
    BY <1>0, <1>1, <1>3, <1>6, <2>1 DEF TypeOK, OwnsCall, Live
  <2>4. /\ rpc'[o]["start"].at \in {r, "idle"}
        /\ \A s \in Session \ {o} : rpc'[s] = rpc[s]
    BY <1>0, <1>10 DEF Answer, Request
  <2>5. r = "refused" => ~OwnsCall(o)
    <3>1. r = "refused" =>
            busy.stage \in {"preflighted", "armed"} \/ call[e] = "idle"
      BY <1>1, <1>3, <1>10 DEF BeginNotCreated, BeginNotAllowed, StartRefused, AnswerChanged
    <3> QED BY <1>4, <3>1
  <2> QED BY <1>0, <1>1, <1>2, <1>7, <2>2, <2>3, <2>4, <2>5, StartFrame
<1>11. NotCreated \subseteq {"ok", "refused", "error"}
  BY DEF NotCreated
<1> QED BY <1>8, <1>9, <1>10, <1>11 DEF RunStart

\* The Agent's process goes down: nothing it was asked for is under way.
LEMMA AgentCrashKeeps ==
  ASSUME CIInv, StartInv, AgentCrash
  PROVE  StartInv'
<1>0. /\ CTypeOK /\ "start" \in Kind /\ Idle.at = "idle"
      /\ UNCHANGED <<lease, call>> /\ busy' = Free
  BY DEF CIInv, AgentCrash, Crash, storeVars, modemVars, Kind, Idle
<1>1. \A s \in Session : ~StartOf(s)' /\ (OwnsCall(s)' => OwnsCall(s))
  BY <1>0 DEF StartOf, Free, OwnsCall, Live
<1>2. ASSUME NEW s \in Session
      PROVE  /\ session'[s].modem = session[s].modem
             /\ session'[s].inv = session[s].inv
             /\ session'[s].phase = session[s].phase
             /\ session'[s].preparing = session[s].preparing
             /\ Offered(s)' <=> Offered(s)
  BY <1>0, ClockFrame DEF Offered
<1>3. ASSUME NEW s \in Session
      PROVE  \/ /\ rpc[s]["start"].at \in {"sent", "running"}
                /\ rpc'[s]["start"].at \in {"error", "idle"}
             \/ /\ rpc[s]["start"].at \notin {"sent", "running"}
                /\ rpc'[s]["start"] = rpc[s]["start"]
  <2>1. rpc[s]["start"] \in Request
    BY <1>0 DEF CTypeOK
  <2> QED BY <1>0, <2>1 DEF AgentCrash, Request
<1>4. IdentityInv'
  <2>1. \A e \in Equipment : lease[e] # NoLease => lease[e].lease \in Session
    BY InvocationFields DEF CIInv, IInv, TypeOK, Session
  <2> QED BY <1>0, <1>1, <1>2, <2>1 DEF StartInv, IdentityInv
<1>5. UnstartedInv'
  BY <1>0, <1>1, <1>2, <1>3 DEF StartInv, UnstartedInv
<1>6. RefusedInv'
  BY <1>1, <1>2, <1>3 DEF StartInv, RefusedInv, NoCallYet
<1> QED BY <1>4, <1>5, <1>6 DEF StartInv

\* Every step preserves the invariant.
LEMMA NextStartInv ==
  ASSUME CallWaiting = FALSE, CIInv, StartInv, [CNext]_cvars
  PROVE  StartInv'
<1>0. CTypeOK /\ UnstartedInv
  BY DEF CIInv, StartInv
<1>1. ASSUME NEW o \in Session, SessionStep(o)
      PROVE  StartInv'
  <2>1. StartKept(o)
    BY <1>0, <1>1, SessionStepKeeps
  <2>2. ASSUME NEW s \in Session \ {o}
        PROVE  StartKept(s)
    <3>1. session'[s] = session[s] /\ rpc'[s] = rpc[s]
      BY <1>0, <1>1, SessionStepFrame
    <3> QED BY <1>0, <3>1 DEF StartKept, Offered, UnstartedInv
  <2> QED BY <1>1, <2>1, <2>2, QuietSteps, QuietKeeps DEF CoreAlone
<1>2. ASSUME \/ \E o \in Session : DeliverRenew(o) \/ DeliverHangup(o)
             \/ \E o \in Session, k \in Kind : Lose(o, k) \/ Decline(o, k)
             \/ \E e \in Equipment : MediaLost(e)
             \/ AgentAlone \/ CTick \/ UNCHANGED cvars
      PROVE  StartInv'
  <2>1. \A s \in Session : StartKept(s)
    BY <1>0, <1>2, OtherStepKeeps
  <2>2. QuietAgent
    BY <1>2, QuietSteps DEF CoreAlone
  <2> QED BY <2>1, <2>2, QuietKeeps
<1>3. CASE CoreCrash
  BY <1>0, <1>3, CoreCrashKeeps, QuietSteps, QuietKeeps DEF CoreAlone
<1> QED
  BY <1>1, <1>2, <1>3, DeliverStartKeeps, RunStartKeeps, AgentCrashKeeps DEF CNext, AgentStep

\* Without call waiting, whatever is lost, repeated, late or crashed, a
\* session offered for a start has no start on its way and no call: trying a
\* start again never places a second one.
THEOREM RetryIsSafe ==
  ASSUME CallWaiting = FALSE
  PROVE  CSpec => []ReadyMeansUnstarted
<1>1. CInit => StartInv
  <2> SUFFICES ASSUME CInit PROVE StartInv
    OBVIOUS
  <2>1. ASSUME NEW s \in Session
        PROVE  session[s].phase = "none" /\ ~session[s].preparing /\ session[s].inv.lease = s
    BY DEF CInit, Fresh
  <2>2. /\ \A s \in Session : rpc[s]["start"] = Idle /\ ~StartOf(s) /\ ~OwnsCall(s)
        /\ \A e \in Equipment : lease[e] = NoLease
        /\ Idle.at # "running"
    BY DEF CInit, Init, Kind, Idle, StartOf, Free, OwnsCall
  <2> QED
    BY <2>1, <2>2 DEF StartInv, IdentityInv, UnstartedInv, RefusedInv
<1>2. CIInv /\ StartInv /\ [CNext]_cvars => StartInv'
  BY NextStartInv
<1>3. StartInv => ReadyMeansUnstarted
  BY DEF StartInv, UnstartedInv, RefusedInv, NoCallYet, Offered, ReadyMeansUnstarted
<1> QED BY <1>1, <1>2, <1>3, CInvariance, PTL DEF CSpec
=============================================================================
