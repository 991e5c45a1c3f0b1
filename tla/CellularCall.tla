---------------------------- MODULE CellularCall ----------------------------
(***************************************************************************)
(* Core's cellular calls (go-runtime/internal/cellularmedia) composed with *)
(* the paid-call manager of the Agent that owns the modems (PaidCall).     *)
(*                                                                         *)
(* Every request to the Agent runs in a goroutine of its own: it gives up  *)
(* on a timeout or a lost connection, while the request may still be under *)
(* way or queued behind the Agent's operationMu and be executed later.     *)
(* session.mu is held only between the network calls, so each handler is   *)
(* split exactly there.                                                    *)
(*                                                                         *)
(* The browser's canary, PCM and resume tickets are left out: a connected  *)
(* browser is one that has passed the canary.                              *)
(***************************************************************************)
EXTENDS PaidCall

CONSTANTS
  Unowned,                      \* no media session
  HeartbeatTimeout, RenewEvery

ASSUME TimerAssumption ==
  /\ HeartbeatTimeout \in Nat \ {0} /\ RenewEvery \in Nat
  /\ Unowned \notin Lease

\* The id of a session is the id of the lease its call has at the Agent.
Session == Lease

VARIABLES
  session,      \* what Core's goroutines know of each session
  registered,   \* Service.sessions: the sessions lookups and the sweep find
  rpc,          \* the requests of each session to the Agent
  media         \* the session whose media the Agent serves, per modem

coreVars  == <<session, registered, media>>
agentVars == vars
cvars     == <<session, registered, rpc, media, vars>>

Phase == {"none", "preparing", "ready", "starting", "active", "uncertain",
          "ending", "hangup_unconfirmed", "ended", "failed", "expired"}

\* current: does the session's target name the running Agent process?
SessionState ==
  [phase : Phase, modem : Equipment, inv : Invocation, hangupStarted : BOOLEAN,
   preparing : BOOLEAN, renewing : BOOLEAN, terminal : BOOLEAN,
   deleting : BOOLEAN, browser : BOOLEAN, current : BOOLEAN,
   beat : Nat, renewIn : Nat]

Fresh(e, inv) ==
  [phase |-> "none", modem |-> e, inv |-> inv, hangupStarted |-> FALSE,
   preparing |-> FALSE, renewing |-> FALSE, terminal |-> FALSE,
   deleting |-> FALSE, browser |-> FALSE, current |-> FALSE,
   beat |-> 0, renewIn |-> 0]

Kind    == {"start", "renew", "hangup"}
Request == [at : {"idle", "sent", "running", "ok", "refused", "error"},
            wait : BOOLEAN]
Idle    == [at |-> "idle", wait |-> FALSE]

\* The modem, card and direction of a session are those it will be prepared
\* for.
CInit ==
  /\ Init
  /\ \E modem \in [Session -> Equipment], inv \in [Session -> Invocation] :
       /\ \A s \in Session : inv[s].lease = s
       /\ session = [s \in Session |-> Fresh(modem[s], inv[s])]
  /\ registered = {}
  /\ rpc        = [s \in Session |-> [k \in Kind |-> Idle]]
  /\ media      = [e \in Equipment |-> Unowned]

-----------------------------------------------------------------------------
(* ExecuteModem.                                                           *)

\* A request for another process generation, or with no Agent connected,
\* fails in Core.
Sent(s) == [at |-> IF up /\ session[s].current THEN "sent" ELSE "error",
            wait |-> TRUE]

\* One request of a kind is under way at a time (a bound: the user may click
\* "hang up" again while a hangup is running).
Send(s, k) ==
  /\ rpc[s][k] = Idle
  /\ rpc' = [rpc EXCEPT ![s][k] = Sent(s)]

\* The answer reaches the goroutine that waits for it, or nobody.
Answer(s, k, result) ==
  rpc' = [rpc EXCEPT ![s][k] =
            IF @.wait THEN [@ EXCEPT !.at = result] ELSE Idle]

\* What ExecuteModem can return now; giving up is an error that is no answer.
Returns(s, k, result) ==
  /\ rpc[s][k].wait
  /\ \/ rpc[s][k].at = result
     \/ result = "error" /\ rpc[s][k].at \in {"sent", "running"}

\* The request after its goroutine stopped waiting: an unanswered one goes on.
Forgotten(s, k) ==
  IF rpc[s][k].at \in {"sent", "running"} THEN [rpc[s][k] EXCEPT !.wait = FALSE]
                                          ELSE Idle

Return(s, k) == rpc' = [rpc EXCEPT ![s][k] = Forgotten(s, k)]

\* An abandoned request may also never arrive.
Lose(s, k) ==
  /\ rpc[s][k] = [at |-> "sent", wait |-> FALSE]
  /\ rpc' = [rpc EXCEPT ![s][k] = Idle]
  /\ UNCHANGED <<coreVars, agentVars>>

-----------------------------------------------------------------------------
(* The life of a session up to the start of its call.                      *)

Known(s) == s \in registered

\* Service.stopMedia.
FreeMedia(s) ==
  media' = [e \in Equipment |-> IF media[e] = s THEN Unowned ELSE media[e]]

PrepareBegin(s) ==
  /\ session[s].phase = "none"
  /\ session' = [session EXCEPT ![s].phase = "preparing", ![s].preparing = TRUE,
                                ![s].current = up, ![s].beat = HeartbeatTimeout]
  /\ registered' = registered \cup {s}
  /\ UNCHANGED <<rpc, media, agentVars>>

\* The Agent serves the media of one session per modem.  The goroutine that
\* prepares does not look whether the session was hung up or deleted meanwhile.
PrepareReady(s) ==
  /\ session[s].preparing
  /\ up /\ session[s].current /\ media[session[s].modem] = Unowned
  /\ media' = [media EXCEPT ![session[s].modem] = s]
  /\ session' = [session EXCEPT ![s].phase = "ready", ![s].preparing = FALSE]
  /\ UNCHANGED <<registered, rpc, agentVars>>

PrepareFailed(s) ==
  /\ session[s].preparing
  /\ session' = [session EXCEPT ![s].preparing = FALSE]
  /\ registered' = registered \ {s}
  /\ UNCHANGED <<rpc, media, agentVars>>

\* A browser connects, or a frame or evidence of a connected one arrives.
Beat(s) ==
  /\ Known(s) /\ ~session[s].terminal
  /\ session[s].phase \notin {"preparing", "expired", "ended"}
  /\ session' = [session EXCEPT ![s].browser = TRUE, ![s].beat = HeartbeatTimeout]
  /\ UNCHANGED <<registered, rpc, media, agentVars>>

BrowserLeaves(s) ==
  /\ session[s].browser
  /\ session' = [session EXCEPT ![s].browser = FALSE]
  /\ UNCHANGED <<registered, rpc, media, agentVars>>

\* sweep: nobody started the call within prepareTTL.
Expire(s) ==
  /\ Known(s) /\ session[s].phase = "ready"
  /\ session' = [session EXCEPT ![s].phase = "expired", ![s].browser = FALSE]
  /\ registered' = registered \ {s}
  /\ FreeMedia(s)
  /\ UNCHANGED <<rpc, agentVars>>

\* DELETE looks at the phase, releases session.mu and then removes.
DeleteCheck(s) ==
  /\ Known(s)
  /\ session[s].phase \notin {"active", "starting", "uncertain", "ending"}
  /\ session' = [session EXCEPT ![s].deleting = TRUE]
  /\ UNCHANGED <<registered, rpc, media, agentVars>>

DeleteRemove(s) ==
  /\ session[s].deleting
  /\ session' = [session EXCEPT ![s].deleting = FALSE, ![s].browser = FALSE]
  /\ registered' = registered \ {s}
  /\ FreeMedia(s)
  /\ UNCHANGED <<rpc, agentVars>>

-----------------------------------------------------------------------------
(* startCall and answerIncoming.                                           *)

\* A start is tried again under an operation identifier of its own.
StartCall(s, op) ==
  /\ Known(s) /\ session[s].phase = "ready"
  /\ session[s].browser /\ session[s].beat > 0
  /\ session' = [session EXCEPT ![s].phase = "starting", ![s].inv.op = op]
  /\ Send(s, "start")
  /\ UNCHANGED <<registered, media, agentVars>>

\* Whatever has become of the session meanwhile, the goroutine of its start
\* writes the phase.
CallActive(s) ==
  /\ Returns(s, "start", "ok")
  /\ session' = [session EXCEPT ![s].phase = "active", ![s].renewIn = RenewEvery]
  /\ Return(s, "start")
  /\ UNCHANGED <<registered, media, agentVars>>

\* Mutant: no answer is taken for a refusal.
MutantCallUncertain(s) ==
  /\ Returns(s, "start", "error")
  /\ session' = [session EXCEPT ![s].phase = "ready"]
  /\ Return(s, "start")
  /\ UNCHANGED <<registered, media, agentVars>>

CallUncertain(s) ==
  /\ Returns(s, "start", "error")
  /\ session' = [session EXCEPT ![s].phase = "uncertain", ![s].renewIn = 0]
  /\ Return(s, "start")
  /\ UNCHANGED <<registered, media, agentVars>>

\* A definite refusal: a dial may be tried again, an answer is over.
CallRefused(s) ==
  /\ Returns(s, "start", "refused")
  /\ Return(s, "start")
  /\ \/ /\ session[s].inv.dir = "out"
        /\ session' = [session EXCEPT ![s].phase = "ready"]
        /\ UNCHANGED <<registered, media>>
     \/ /\ session[s].inv.dir = "in"
        /\ session' = [session EXCEPT ![s].phase = "failed", ![s].browser = FALSE]
        /\ registered' = registered \ {s}
        /\ FreeMedia(s)
  /\ UNCHANGED agentVars

-----------------------------------------------------------------------------
(* hangup and its callers.                                                 *)

\* The first half of hangup, up to its request.
Ending(s) == [session[s] EXCEPT !.phase = "ending", !.hangupStarted = TRUE]

UserHangup(s) ==
  /\ Known(s) /\ ~session[s].terminal
  /\ session' = [session EXCEPT ![s] = Ending(s)]
  /\ Send(s, "hangup")
  /\ UNCHANGED <<registered, media, agentVars>>

InCall(s) == session[s].phase \in {"active", "uncertain"}

\* sweep: the browser has not been heard of for heartbeatTimeout.
HeartbeatLost(s) ==
  /\ Known(s) /\ InCall(s)
  /\ session[s].beat = 0 /\ ~session[s].hangupStarted
  /\ session' = [session EXCEPT ![s] = Ending(s)]
  /\ Send(s, "hangup")
  /\ UNCHANGED <<registered, media, agentVars>>

\* Mutant: the ended session stays in Service.sessions.
MutantEndConfirmed(s) ==
  /\ Returns(s, "hangup", "ok")
  /\ session' = [session EXCEPT ![s].phase = "ended", ![s].terminal = TRUE,
                                ![s].browser = FALSE]
  /\ FreeMedia(s)
  /\ Return(s, "hangup")
  /\ UNCHANGED <<registered, agentVars>>

EndConfirmed(s) ==
  /\ Returns(s, "hangup", "ok")
  /\ session' = [session EXCEPT ![s].phase = "ended", ![s].terminal = TRUE,
                                ![s].browser = FALSE]
  /\ registered' = registered \ {s}
  /\ FreeMedia(s)
  /\ Return(s, "hangup")
  /\ UNCHANGED agentVars

EndUnconfirmed(s) ==
  /\ Returns(s, "hangup", "error")
  /\ session' = [session EXCEPT ![s].phase = "hangup_unconfirmed", ![s].browser = FALSE]
  /\ FreeMedia(s)
  /\ Return(s, "hangup")
  /\ UNCHANGED <<registered, agentVars>>

-----------------------------------------------------------------------------
(* sweep and renew.                                                        *)
\* Mutant: the heartbeat is not looked at.
MutantRenew(s) ==
  /\ Known(s) /\ InCall(s) /\ ~session[s].renewing
  /\ session[s].renewIn = 0
  /\ session' = [session EXCEPT ![s].renewing = TRUE]
  /\ Send(s, "renew")
  /\ UNCHANGED <<registered, media, agentVars>>

Renew(s) ==
  /\ Known(s) /\ InCall(s) /\ ~session[s].renewing
  /\ session[s].renewIn = 0 /\ session[s].beat > 0
  /\ session' = [session EXCEPT ![s].renewing = TRUE]
  /\ Send(s, "renew")
  /\ UNCHANGED <<registered, media, agentVars>>

Renewed(s) ==
  /\ Returns(s, "renew", "ok")
  /\ session' = [session EXCEPT ![s].renewing = FALSE,
                                ![s].renewIn = IF InCall(s) THEN RenewEvery ELSE @]
  /\ Return(s, "renew")
  /\ UNCHANGED <<registered, media, agentVars>>

\* A failed renewal ends the call, unless a hangup was begun before.
RenewFailed(s) ==
  /\ Returns(s, "renew", "error")
  /\ IF InCall(s) /\ ~session[s].hangupStarted
     THEN /\ session' = [session EXCEPT ![s] = [Ending(s) EXCEPT !.renewing = FALSE]]
          /\ rpc[s]["hangup"] = Idle
          /\ rpc' = [rpc EXCEPT ![s]["renew"] = Forgotten(s, "renew"),
                                ![s]["hangup"] = Sent(s)]
     ELSE /\ session' = [session EXCEPT ![s].renewing = FALSE]
          /\ Return(s, "renew")
  /\ UNCHANGED <<registered, media, agentVars>>

-----------------------------------------------------------------------------
(* The Agent's side of the requests.                                       *)

DeliverStart(s) ==
  /\ rpc[s]["start"].at = "sent"
  /\ BeginPreflight(session[s].modem, session[s].inv)
  /\ rpc' = [rpc EXCEPT ![s]["start"].at = "running"]
  /\ UNCHANGED coreVars

\* What Begin answers when it creates no record.
NotCreated ==
  LET record == lease[busy.modem] IN
    IF record = NoLease THEN {"error"}
    ELSE IF record = busy.inv THEN {"ok", "error"} ELSE {"refused", "error"}

RunStart(s) ==
  /\ rpc[s]["start"].at = "running"
  /\ \/ (BeginArm \/ StartWrite) /\ UNCHANGED rpc
     \/ BeginNotCreated /\ \E r \in NotCreated : Answer(s, "start", r)
     \/ (BeginNotAllowed \/ StartRefused \/ AnswerChanged) /\ Answer(s, "start", "refused")
     \/ StartConfirm /\ Answer(s, "start", "ok")
     \/ StartUncertain /\ Answer(s, "start", "error")
  /\ UNCHANGED coreVars

\* Mutant: the Agent extends whatever record the modem has.
MutantDeliverRenew(s) ==
  /\ rpc[s]["renew"].at = "sent"
  /\ up /\ busy = Free /\ lease[session[s].modem] # NoLease
  /\ ttl' = [ttl EXCEPT ![session[s].modem] = LeaseDuration]
  /\ Answer(s, "renew", "ok")
  /\ UNCHANGED <<coreVars, lease, attempts, busy, up, started, modemVars>>

DeliverRenew(s) ==
  /\ rpc[s]["renew"].at = "sent"
  /\ RenewLease(session[s].modem, s, session[s].inv.target)
  /\ Answer(s, "renew", "ok")
  /\ UNCHANGED coreVars

\* The Agent answers without having done anything: all its operation slots
\* are taken, the modem cannot be used, a renewal finds no record to extend.
Decline(s, k) ==
  /\ rpc[s][k].at = "sent"
  /\ Answer(s, k, IF k = "start" THEN "refused" ELSE "error")
  /\ UNCHANGED <<coreVars, agentVars>>

\* Confirmed only if the record is gone as well.
DeliverHangup(s) ==
  /\ rpc[s]["hangup"].at = "sent"
  /\ LET e == session[s].modem
         t == session[s].inv.target IN
       \/ /\ HangupConfirmed(e, t)
          /\ Answer(s, "hangup", IF lease'[e] = NoLease THEN "ok" ELSE "error")
       \/ HangupUnconfirmed(e, t) /\ Answer(s, "hangup", "error")
  /\ UNCHANGED coreVars

\* The Agent's other operations and steps, and those of the carrier.
AgentAlone ==
  /\ \/ \E e \in Equipment : \/ SweepConfirmed(e) \/ SweepDeferred(e)
                             \/ Reject(e) \/ BeginAuxiliary(e)
                             \/ Ring(e) \/ PeerEnds(e) \/ SecondCall(e)
                             \/ \E t \in Target : Replace(e, t)
     \/ BeginScan \/ EndCallback \/ Restart
  /\ UNCHANGED <<coreVars, rpc>>

-----------------------------------------------------------------------------
(* Crashes, lost media and time.                                           *)

\* Requests under way fail, and the session's target is a process that is
\* no more.
AgentCrash ==
  /\ Crash
  /\ session' = [s \in Session |-> [session[s] EXCEPT !.current = FALSE]]
  /\ rpc' = [s \in Session |-> [k \in Kind |->
               IF rpc[s][k].at \in {"sent", "running"}
               THEN IF rpc[s][k].wait THEN [rpc[s][k] EXCEPT !.at = "error"] ELSE Idle
               ELSE rpc[s][k]]]
  /\ media' = [e \in Equipment |-> Unowned]
  /\ UNCHANGED registered

\* Sessions live in memory only.  Requests already sent go on.
CoreCrash ==
  /\ registered # {}
  /\ registered' = {}
  /\ session' = [s \in Session |->
       IF session[s].phase = "none" THEN session[s]
       ELSE [Fresh(session[s].modem, session[s].inv) EXCEPT !.phase = "failed"]]
  /\ rpc' = [s \in Session |-> [k \in Kind |-> Forgotten(s, k)]]
  /\ media' = [e \in Equipment |-> Unowned]
  /\ UNCHANGED agentVars

MediaLost(e) ==
  /\ media[e] # Unowned
  /\ media' = [media EXCEPT ![e] = Unowned]
  /\ UNCHANGED <<session, registered, rpc, agentVars>>

\* Core waits 30 s for a start and the record, armed later, lasts 30 s:
\* Core has given up before the arming time is over.
StartWaitsEnd ==
  busy.stage \in {"armed", "written"} /\ ttl[busy.modem] = 1
    => ~rpc[busy.inv.lease]["start"].wait

CTick ==
  /\ \/ \E e \in Equipment : ttl[e] > 0 \/ attempts[e].wait > 0
     \/ \E s \in Session : session[s].beat > 0 \/ session[s].renewIn > 0
  /\ StartWaitsEnd
  /\ Elapse
  /\ session' = [s \in Session |->
       [session[s] EXCEPT !.beat = Less(@), !.renewIn = Less(@)]]
  /\ UNCHANGED <<registered, rpc, media>>

-----------------------------------------------------------------------------
SessionStep(s) ==
  \/ PrepareBegin(s) \/ PrepareReady(s) \/ PrepareFailed(s)
  \/ Beat(s) \/ BrowserLeaves(s)
  \/ Expire(s) \/ DeleteCheck(s) \/ DeleteRemove(s)
  \/ (\E op \in Operation : StartCall(s, op)) \/ CallActive(s) \/ CallUncertain(s) \/ CallRefused(s)
  \/ UserHangup(s) \/ HeartbeatLost(s)
  \/ EndConfirmed(s) \/ EndUnconfirmed(s)
  \/ Renew(s) \/ Renewed(s) \/ RenewFailed(s)

AgentStep(s) == DeliverStart(s) \/ RunStart(s) \/ DeliverRenew(s) \/ DeliverHangup(s)

CNext ==
  \/ \E s \in Session : SessionStep(s) \/ AgentStep(s)
  \/ \E s \in Session, k \in Kind : Lose(s, k) \/ Decline(s, k)
  \/ \E e \in Equipment : MediaLost(e)
  \/ AgentAlone \/ AgentCrash \/ CoreCrash \/ CTick

CSpec == CInit /\ [][CNext]_cvars

-----------------------------------------------------------------------------
(* Fairness: nothing of Core's.  The Agent is restarted, finishes what     *)
(* holds its lock and sweeps (see PaidCall), and time runs.                *)

CFairness ==
  /\ WF_cvars(Restart /\ UNCHANGED <<coreVars, rpc>>)
  /\ WF_cvars(CTick)
  /\ WF_cvars(\E s \in Session : RunStart(s))
  /\ WF_cvars(EndCallback /\ UNCHANGED <<coreVars, rpc>>)
  /\ \A e \in Equipment : SF_cvars(SweepConfirmed(e) /\ UNCHANGED <<coreVars, rpc>>)

CFairSpec == CSpec /\ CFairness

-----------------------------------------------------------------------------
(* Properties.                                                             *)

\* The values every variable of Core ranges over.
CTypeOK ==
  /\ session \in [Session -> SessionState]
  /\ registered \subseteq Session
  /\ rpc \in [Session -> [Kind -> Request]]
  /\ media \in [Equipment -> Session \cup {Unowned}]

\* A modem carries a paid call under the lease of this session.
OwnsCall(s) == \E e \in Equipment : Live(e) /\ lease[e] # NoLease /\ lease[e].lease = s

\* A session is offered for a start only if no earlier start of it can still
\* reach the Agent and none of it has become a call: trying again after a
\* refusal never places a second call.
ReadyMeansUnstarted ==
  \A s \in Session :
    session[s].phase = "ready" => rpc[s]["start"] = Idle /\ ~OwnsCall(s)

\* A renewal is sent in this step.
SendsRenewal(s) == rpc[s]["renew"] = Idle /\ rpc'[s]["renew"].wait

\* Once its hangup was confirmed a session is never renewed again, even if
\* the answer to its start arrives afterwards and makes it active.
NoRenewalAfterEnd ==
  [][\A s \in Session : session[s].terminal => ~SendsRenewal(s)]_cvars

\* "critically, never renew again": after a hangup that ended without
\* confirmation only the Agent's lease decides how long the call lasts.
NoRenewalAfterHangup ==
  [][\A s \in Session :
       session[s].hangupStarted /\ ~rpc[s]["hangup"].wait => ~SendsRenewal(s)]_cvars

\* "physically hangs up the exact call": a hangup asked for one session never
\* ends the call of another one.
HangupEndsExactCall ==
  [][\A s, other \in Session :
       /\ rpc[s]["hangup"].at = "sent" /\ rpc'[s]["hangup"].at # "sent"
       /\ OwnsCall(other) /\ ~OwnsCall(other)'
       => s = other]_cvars

\* What Core and the links do to the Agent, the manager and the store can do.
ImplementsPaidCall == Spec

\* If no browser is heard of any more and the cards stay where they are, every
\* modem ends up idle, whatever Core, the link and the Agent's process do and
\* whichever requests are on the way.
UnattendedCallEnds ==
  <>[](/\ \A s \in Session : session[s].beat = 0
       /\ \A e \in Equipment : lease[e] # NoLease => lease[e].target = target[e])
    => \A e \in Equipment : <>[]~Live(e)
=============================================================================
