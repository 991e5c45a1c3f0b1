---------------------------- MODULE IncomingCall ----------------------------
(***************************************************************************)
(* Who may answer or reject a ring: the claims of Core's cellular service  *)
(* (go-runtime/internal/cellularmedia), over what RingHistory promises of  *)
(* the call history.                                                       *)
(*                                                                         *)
(* A browser operation claims a ring, prepares a media session (to answer  *)
(* it) and asks the Agent.  Claims and sessions live in Core's memory; a   *)
(* claim keeps other operations away until the fate of the ring is known.  *)
(* Each operation is tried once, an answer perhaps again while it is under *)
(* way.  The session's own life is CellularCall's: here it is reduced to   *)
(* what the claim depends on.                                              *)
(***************************************************************************)
EXTENDS RingHistory

CONSTANTS Operation,            \* what browsers ask for
          NoRing, NoClaim

VARIABLES
  live,         \* the ring is fresh and its modem is the one connected
  claims,       \* Service.claims
  op,           \* what Core's goroutines know of each operation
  rpc,          \* the operation's request to the Agent
  issued        \* the operations asked of the Agent, a history variable

claimVars == <<claims, op, rpc, issued>>
ivars     == <<hvars, live, claimVars>>

Claim == [by : Operation, state : {"claiming", "active", "uncertain", "terminal"}]

ASSUME ClaimAssumption == NoClaim \notin Claim

\* Phases of a session; a rejection, which has none, is "asking", "rejected",
\* "uncertain" or "gone".
Phase == {"none", "preparing", "ready", "starting", "active", "uncertain",
          "ending", "hangup_unconfirmed", "asking", "rejected", "gone"}

\* mark: the history is still to be told of the outcome
OpState == [ring : Ring \cup {NoRing}, action : {"answer", "reject"},
            phase : Phase, mark : BOOLEAN]

NoOp == [ring |-> NoRing, action |-> "answer", phase |-> "none", mark |-> FALSE]

IInit ==
  /\ HInit
  /\ live = [r \in Ring |-> FALSE]
  /\ claims = [r \in Ring |-> NoClaim]
  /\ op = [o \in Operation |-> NoOp]
  /\ rpc = [o \in Operation |-> "idle"]
  /\ issued = {}

-----------------------------------------------------------------------------
(* The history and the link.                                               *)

\* The Agent's events; only Core itself writes "rejected".
RingStep ==
  /\ \E r \in Ring : Rings(r) \/ Taken(r) \/ Ends(r)
  /\ \A r \in Ring : story'[r] = "rejected" => story[r] = "rejected"
  /\ UNCHANGED <<live, claimVars>>

\* Events refresh a ring for eight seconds; connections come and go.
LivenessChanges ==
  /\ \E r \in Ring : live' = [live EXCEPT ![r] = ~@]
  /\ UNCHANGED <<hvars, claimVars>>

\* Service.liveIncoming
LiveIncoming(r) == call[r] = "ringing" /\ live[r]

-----------------------------------------------------------------------------
(* Claims.                                                                 *)

\* Service.releaseClaim and finishClaim do nothing to another's claim.
Claims(r, o)   == claims[r] # NoClaim /\ claims[r].by = o
Released(r, o) == IF Claims(r, o) THEN [claims EXCEPT ![r] = NoClaim] ELSE claims
Finished(r, o, s) ==
  IF Claims(r, o) THEN [claims EXCEPT ![r].state = s] ELSE claims

GoesTo(o, phase) == op' = [op EXCEPT ![o].phase = phase]

Ask(o) == rpc' = [rpc EXCEPT ![o] = "sent"] /\ issued' = issued \cup {o}

\* Service.claimIncoming for a ring nobody has claimed; a rejection is sent
\* at once.
ClaimIncoming(o, r, action) ==
  /\ op[o].phase = "none"
  /\ claims[r] = NoClaim /\ LiveIncoming(r)
  /\ claims' = [claims EXCEPT ![r] = [by |-> o, state |-> "claiming"]]
  /\ op' = [op EXCEPT ![o] =
              [ring |-> r, action |-> action, mark |-> FALSE,
               phase |-> IF action = "reject" THEN "asking" ELSE "preparing"]]
  /\ IF action = "reject" THEN Ask(o) ELSE UNCHANGED <<rpc, issued>>
  /\ UNCHANGED <<hvars, live>>

PrepareReady(o) ==
  /\ op[o].phase = "preparing"
  /\ GoesTo(o, "ready")
  /\ UNCHANGED <<hvars, live, claims, rpc, issued>>

\* The session goes without a call: preparation fails, the browser deletes
\* it, or nobody answers for two minutes.
SessionGone(o) ==
  /\ op[o].phase \in {"preparing", "ready", "hangup_unconfirmed"}
  /\ GoesTo(o, "gone")
  /\ claims' = Released(op[o].ring, o)
  /\ UNCHANGED <<hvars, live, rpc, issued>>

\* Service.answerIncoming looks at the ring and the session, not at the claim.
AnswerIncoming(o) ==
  /\ op[o].phase = "ready" /\ LiveIncoming(op[o].ring)
  /\ GoesTo(o, "starting") /\ Ask(o)
  /\ UNCHANGED <<hvars, live, claims>>

\* The same request for a ring that is not live (any more): before the phase
\* is looked at, the claim is released, and the session stays.
AnswerStale(o) ==
  /\ op[o].action = "answer"
  /\ op[o].phase \notin {"none", "preparing", "gone"}
  /\ ~LiveIncoming(op[o].ring)
  /\ claims' = Released(op[o].ring, o)
  /\ UNCHANGED <<hvars, live, op, rpc, issued>>

\* The Agent carries out a request, or refuses it before it does anything, or
\* neither can be told.
Execute(o) ==
  /\ rpc[o] = "sent"
  /\ \E answer \in {"ok", "refused", "error"} : rpc' = [rpc EXCEPT ![o] = answer]
  /\ UNCHANGED <<hvars, live, claims, op, issued>>

Waiting(o) == op[o].phase \in {"starting", "asking"}

\* The request was carried out: an answer settles its claim at once, a
\* rejection when the history has been told of it.
ReplyOk(o) ==
  /\ Waiting(o) /\ rpc[o] = "ok"
  /\ op' = [op EXCEPT ![o].mark = TRUE,
                      ![o].phase = IF op[o].action = "answer" THEN "active" ELSE "rejected"]
  /\ claims' = IF op[o].action = "answer" THEN Finished(op[o].ring, o, "active") ELSE claims
  /\ UNCHANGED <<hvars, live, rpc, issued>>

\* Store.markCellularAction, which leaves alone what is over already.
Mark(r, outcome) ==
  CASE outcome = "answered" /\ call[r] = "ringing" -> Becomes(r, "taken", "answered")
    [] outcome = "rejected" /\ call[r] = "ringing" -> Becomes(r, "over", "rejected")
    [] outcome = "ended" /\ call[r] \in {"ringing", "taken"} -> Becomes(r, "over", "ended")
    [] OTHER -> UNCHANGED hvars

TellHistory(o) ==
  /\ op[o].mark
  /\ op' = [op EXCEPT ![o].mark = FALSE]
  /\ \/ op[o].phase = "rejected" /\ Mark(op[o].ring, "rejected")
        /\ claims' = Finished(op[o].ring, o, "terminal")
     \/ op[o].phase = "gone" /\ Mark(op[o].ring, "ended") /\ UNCHANGED claims
     \/ op[o].phase \notin {"rejected", "gone"}
        /\ Mark(op[o].ring, "answered") /\ UNCHANGED claims
  /\ UNCHANGED <<live, rpc, issued>>

\* Refused before anything was done: another attempt is allowed.
ReplyRefused(o) ==
  /\ Waiting(o) /\ rpc[o] = "refused"
  /\ GoesTo(o, "gone")
  /\ claims' = Released(op[o].ring, o)
  /\ UNCHANGED <<hvars, live, rpc, issued>>

\* An error that decides nothing, or no answer within 30 seconds; the request
\* may still be carried out.
ReplyUncertain(o) ==
  /\ Waiting(o)
  /\ GoesTo(o, "uncertain")
  /\ claims' = Finished(op[o].ring, o, "uncertain")
  /\ UNCHANGED <<hvars, live, rpc, issued>>

\* Service.hangup, and the Agent's confirmation or not.
HangUp(o) ==
  /\ op[o].action = "answer" /\ op[o].phase \in {"active", "uncertain"}
  /\ ~op[o].mark
  /\ GoesTo(o, "ending")
  /\ UNCHANGED <<hvars, live, claims, rpc, issued>>

HangUpEnds(o) ==
  /\ op[o].phase = "ending"
  /\ \/ op' = [op EXCEPT ![o].phase = "gone", ![o].mark = TRUE]
     \/ GoesTo(o, "hangup_unconfirmed")
  /\ UNCHANGED <<hvars, live, claims, rpc, issued>>

\* Mutant: an old claim is dropped, whatever has become of it.
MutantSweepable(r) == TRUE

\* Mutant: a claim that was settled lasts as long as the record of its ring.
MutantForgettable(r) ==
  claims[r].state \in {"uncertain", "active"} => call[r] = "unknown"

\* What is uncertain stays claimed until the ring is over.
Sweepable(r) ==
  claims[r].state \in {"uncertain", "active"} => call[r] \in {"unknown", "over"}

\* The claims' part of Service.sweep, two minutes after their last change;
\* preparing and rejecting take less.
SweepClaim(r) ==
  /\ claims[r] # NoClaim
  /\ op[claims[r].by].phase \notin {"preparing", "asking"}
  /\ ~op[claims[r].by].mark
  /\ Sweepable(r)
  /\ claims' = [claims EXCEPT ![r] = NoClaim]
  /\ UNCHANGED <<hvars, live, op, rpc, issued>>

\* Claims, sessions and waiting goroutines are gone; requests are under way.
CoreRestarts ==
  /\ op' = [o \in Operation |->
              IF op[o].phase = "none" THEN op[o]
              ELSE [op[o] EXCEPT !.phase = "gone", !.mark = FALSE]]
  /\ claims' = [r \in Ring |-> NoClaim]
  /\ UNCHANGED <<hvars, live, rpc, issued>>

OpStep(o) ==
  \/ \E r \in Ring, a \in {"answer", "reject"} : ClaimIncoming(o, r, a)
  \/ PrepareReady(o) \/ SessionGone(o)  \/ AnswerIncoming(o) \/ AnswerStale(o)
  \/ Execute(o)      \/ ReplyOk(o)      \/ TellHistory(o)    \/ ReplyRefused(o)
  \/ ReplyUncertain(o) \/ HangUp(o)     \/ HangUpEnds(o)

INext ==
  \/ RingStep \/ LivenessChanges \/ CoreRestarts
  \/ \E o \in Operation : OpStep(o)
  \/ \E r \in Ring : SweepClaim(r)

ISpec == IInit /\ [][INext]_ivars

\* Requests time out, the history is told and the sweep goes on.
IFairness ==
  /\ \A o \in Operation :
       /\ WF_ivars(PrepareReady(o) \/ SessionGone(o))
       /\ WF_ivars(ReplyOk(o) \/ ReplyRefused(o) \/ ReplyUncertain(o))
       /\ WF_ivars(TellHistory(o))
  /\ \A r \in Ring : WF_ivars(SweepClaim(r))

IFairSpec == ISpec /\ IFairness

-----------------------------------------------------------------------------
(* Properties.                                                             *)

\* Types of all variables.
ITypeOK ==
  /\ call \in [Ring -> {"unknown", "ringing", "taken", "over", "lost"}]
  /\ story \in [Ring -> {"none", "ringing", "answered", "missed", "rejected",
                         "ended", "interrupted"}]
  /\ live \in [Ring -> BOOLEAN]
  /\ claims \in [Ring -> Claim \cup {NoClaim}]
  /\ op \in [Operation -> OpState]
  /\ rpc \in [Operation -> {"idle", "sent", "ok", "refused", "error"}]
  /\ issued \subseteq Operation

\* A rejection the Agent may have carried out is never sent again by another
\* operation: not while it is under way, not when its answer is lost, and not
\* after its claim has been swept away.
RejectNeverRepeated ==
  [][\A o, p \in Operation :
       /\ o \in issued /\ p \in issued' \ issued
       /\ op[o].action = "reject" /\ op'[p].action = "reject"
       /\ op[o].ring = op'[p].ring
       => op[o].phase = "gone"]_ivars

\* A ring that is over does not stay claimed: nothing that goes wrong with its
\* operation keeps Core busy, which would keep updates away.
ClaimsEnd ==
  \A r \in Ring : call[r] = "over" ~> (claims[r] = NoClaim \/ call[r] # "over")
=============================================================================
