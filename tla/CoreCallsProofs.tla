-------------------------- MODULE CoreCallsProofs --------------------------
(***************************************************************************)
(* What holds of the parts of Core's cellular service beside CellularCall, *)
(* for any browsers, sessions, quotas and limits: the claims of rings      *)
(* (IncomingCall), the audio of sessions (MediaBridge) and the loan of a   *)
(* modem's data (DataSession).                                             *)
(***************************************************************************)
EXTENDS MCCoreCalls, TLAPS

-----------------------------------------------------------------------------
(* Claims of rings: types.                                                 *)

CallState == {"unknown", "ringing", "taken", "over", "lost"}
StoryState == {"none", "ringing", "answered", "missed", "rejected", "ended", "interrupted"}

\* The history: a ring that is known stays known and never rings again.
HistoryMoves ==
  /\ call' \in [Ring -> CallState] /\ story' \in [Ring -> StoryState]
  /\ \A r \in Ring : /\ call[r] # "unknown" => call'[r] # "unknown"
                     /\ call[r] \notin {"unknown", "ringing"} => call'[r] # "ringing"

LEMMA HistoryTypes == ITypeOK => call \in [Ring -> CallState] /\ story \in [Ring -> StoryState]
BY DEF ITypeOK, CallState, StoryState

LEMMA BecomesMoves ==
  ASSUME ITypeOK, NEW r, NEW c \in CallState, NEW s \in StoryState, Becomes(r, c, s),
         c # "unknown", c = "ringing" => call[r] = "unknown"
  PROVE  HistoryMoves
BY HistoryTypes DEF Becomes, HistoryMoves

LEMMA HistoryStays == ASSUME ITypeOK, UNCHANGED hvars PROVE HistoryMoves
BY HistoryTypes DEF hvars, HistoryMoves

LEMMA RingMoves ==
  ASSUME ITypeOK, NEW r \in Ring, Rings(r) \/ Taken(r) \/ Ends(r)
  PROVE  HistoryMoves
<1>1. CASE Rings(r)
  BY <1>1, BecomesMoves DEF Rings, CallState, StoryState
<1>2. CASE Taken(r)
  BY <1>2, BecomesMoves DEF Taken, CallState, StoryState
<1>3. CASE Ends(r)
  <2>1. story[r] \in StoryState
    BY HistoryTypes
  <2>2. Ending(story[r]) \subseteq StoryState
    BY <2>1 DEF Ending, StoryState
  <2>3. PICK s \in Ending(story[r]), c \in {"over", "lost"} : Becomes(r, c, s)
    BY <1>3 DEF Ends
  <2> QED BY <2>2, <2>3, BecomesMoves DEF CallState
<1> QED BY <1>1, <1>2, <1>3

LEMMA MarkMoves ==
  ASSUME ITypeOK, NEW r, NEW outcome \in {"answered", "rejected", "ended"}, Mark(r, outcome)
  PROVE  HistoryMoves
<1>1. \/ Becomes(r, "taken", "answered") \/ Becomes(r, "over", "rejected")
      \/ Becomes(r, "over", "ended") \/ UNCHANGED hvars
  BY DEF Mark
<1> QED BY <1>1, BecomesMoves, HistoryStays DEF CallState, StoryState

\* The types that the history does not keep.
ClaimTypes ==
  /\ live \in [Ring -> BOOLEAN]
  /\ claims \in [Ring -> Claim \cup {NoClaim}]
  /\ op \in [Operation -> OpState]
  /\ rpc \in [Operation -> {"idle", "sent", "ok", "refused", "error"}]
  /\ issued \subseteq Operation

LEMMA TypesOfParts == HistoryMoves /\ ClaimTypes' => ITypeOK'
BY DEF HistoryMoves, ClaimTypes, ITypeOK, CallState, StoryState

LEMMA ReleasedIs ==
  ASSUME ITypeOK, NEW r, NEW o
  PROVE  /\ Released(r, o) \in [Ring -> Claim \cup {NoClaim}]
         /\ \A q \in Ring, p \in Operation : p # o /\ Claims(q, p) => Released(r, o)[q] = claims[q]
BY DEF ITypeOK, Released, Claims

LEMMA FinishedIs ==
  ASSUME ITypeOK, NEW r, NEW o, NEW s \in {"active", "uncertain", "terminal"}
  PROVE  /\ Finished(r, o, s) \in [Ring -> Claim \cup {NoClaim}]
         /\ \A q \in Ring, p \in Operation :
              p # o /\ Claims(q, p) => Finished(r, o, s)[q] = claims[q]
         /\ r \in Ring /\ Claims(r, o) =>
              Finished(r, o, s)[r].by = o /\ Finished(r, o, s)[r].state = s
                /\ Finished(r, o, s)[r] \in Claim
<1>1. claims \in [Ring -> Claim \cup {NoClaim}]
  BY DEF ITypeOK
<1>2. CASE ~Claims(r, o)
  BY <1>1, <1>2 DEF Finished
<1>3. CASE Claims(r, o) /\ r \notin Ring
  <2>1. Finished(r, o, s) = claims
    BY <1>1, <1>3 DEF Finished
  <2> QED BY <1>1, <1>3, <2>1
<1>4. CASE Claims(r, o) /\ r \in Ring
  <2>1. claims[r] \in Claim /\ claims[r].by = o
    BY <1>1, <1>4 DEF Claims
  <2>2. /\ [claims[r] EXCEPT !.state = s] \in Claim
        /\ [claims[r] EXCEPT !.state = s].by = o /\ [claims[r] EXCEPT !.state = s].state = s
    BY <2>1 DEF Claim
  <2>3. Finished(r, o, s) = [claims EXCEPT ![r] = [claims[r] EXCEPT !.state = s]]
    BY <1>4 DEF Finished
  <2> QED BY <1>1, <1>4, <2>1, <2>2, <2>3 DEF Claims
<1> QED BY <1>2, <1>3, <1>4

LEMMA GoesToIs ==
  ASSUME ITypeOK, NEW o \in Operation, NEW phase \in Phase, GoesTo(o, phase)
  PROVE  /\ op' \in [Operation -> OpState]
         /\ \A p \in Operation : p # o => op'[p] = op[p]
         /\ op'[o].phase = phase /\ op'[o].action = op[o].action
         /\ op'[o].ring = op[o].ring /\ op'[o].mark = op[o].mark
BY DEF ITypeOK, GoesTo, OpState

-----------------------------------------------------------------------------
(* Claims of rings: the inductive invariant.                               *)

\* The ring r of rejection o is known, and while it is still offered o has
\* its claim, which the sweep leaves alone.
Guarded(o, r) ==
  /\ call[r] # "unknown"
  /\ call[r] = "ringing" =>
       /\ Claims(r, o)
       /\ op[o].phase = "uncertain" => claims[r].state = "uncertain"
       /\ op[o].phase = "rejected" => op[o].mark

Rejects(o) == op[o].action = "reject" /\ op[o].phase # "gone"

RejectOK(o) ==
  Rejects(o) =>
    /\ op[o].phase \in {"asking", "rejected", "uncertain"}
    /\ op[o].ring \in Ring
    /\ \A r \in Ring : r = op[o].ring => Guarded(o, r)

RejectInv == \A o \in Operation : RejectOK(o)

\* What neither touches the operation nor its claim keeps it so.
LEMMA RejectKept ==
  ASSUME NEW o \in Operation, RejectOK(o), op'[o] = op[o], HistoryMoves,
         \A r \in Ring : Claims(r, o) => claims'[r] = claims[r]
  PROVE  RejectOK(o)'
BY DEF RejectOK, Rejects, Guarded, Claims, HistoryMoves

\* A step of operation o is all that can disturb it.
LEMMA OwnStep ==
  ASSUME ITypeOK, RejectInv, NEW o \in Operation, HistoryMoves,
         \A p \in Operation : p # o => op'[p] = op[p],
         \A r \in Ring, p \in Operation : p # o /\ Claims(r, p) => claims'[r] = claims[r],
         RejectOK(o)'
  PROVE  RejectInv'
BY RejectKept DEF RejectInv

LEMMA ClaimKeeps ==
  ASSUME ITypeOK, RejectInv, NEW o \in Operation, NEW r \in Ring,
         NEW a \in {"answer", "reject"}, ClaimIncoming(o, r, a)
  PROVE  ITypeOK' /\ RejectInv'
<1> DEFINE new == [ring |-> r, action |-> a, mark |-> FALSE,
                   phase |-> IF a = "reject" THEN "asking" ELSE "preparing"]
<1>1. /\ claims[r] = NoClaim /\ call[r] = "ringing" /\ UNCHANGED hvars /\ live' = live
      /\ claims' = [claims EXCEPT ![r] = [by |-> o, state |-> "claiming"]]
      /\ op' = [op EXCEPT ![o] = new]
      /\ \/ rpc' = rpc /\ issued' = issued
         \/ rpc' = [rpc EXCEPT ![o] = "sent"] /\ issued' = issued \cup {o}
  BY DEF ClaimIncoming, LiveIncoming, Ask
<1>2. HistoryMoves
  BY <1>1, HistoryStays
<1>3. new \in OpState /\ [by |-> o, state |-> "claiming"] \in Claim
  BY DEF OpState, Phase, Claim
<1>4. new.ring = r /\ new.action = a /\ new.phase \in {"asking", "preparing"}
      /\ (a = "reject" => new.phase = "asking")
  OBVIOUS
<1> HIDE DEF new
<1>5. /\ op' \in [Operation -> OpState] /\ op'[o] = new
      /\ \A p \in Operation : p # o => op'[p] = op[p]
  BY <1>1, <1>3 DEF ITypeOK
<1>6. /\ claims' \in [Ring -> Claim \cup {NoClaim}]
      /\ claims'[r] = [by |-> o, state |-> "claiming"]
      /\ \A q \in Ring : q # r => claims'[q] = claims[q]
  BY <1>1, <1>3 DEF ITypeOK
<1>7. ClaimTypes'
  BY <1>1, <1>5, <1>6 DEF ITypeOK, ClaimTypes
<1>8. \A q \in Ring, p \in Operation : p # o /\ Claims(q, p) => claims'[q] = claims[q]
  BY <1>1, <1>6 DEF Claims
<1>9. RejectOK(o)'
  <2>1. SUFFICES ASSUME Rejects(o)' PROVE Guarded(o, r)' /\ op'[o].phase = "asking"
    BY <1>4, <1>5 DEF RejectOK
  <2>2. op'[o].phase = "asking"
    BY <1>4, <1>5, <2>1 DEF Rejects
  <2>3. call'[r] # "unknown"
    BY <1>1 DEF hvars
  <2>4. Claims(r, o)'
    BY <1>3, <1>6, ClaimAssumption DEF Claims
  <2> QED BY <2>2, <2>3, <2>4 DEF Guarded
<1> QED BY <1>2, <1>5, <1>7, <1>8, <1>9, TypesOfParts, OwnStep

\* A session of an answer is of no concern to rejections: they have none.
LEMMA AnswerOnly ==
  ASSUME RejectInv, NEW o \in Operation,
         op[o].phase \notin {"asking", "rejected", "uncertain", "gone"}
  PROVE  op[o].action # "reject"
BY DEF RejectInv, RejectOK, Rejects

\* A step that moves o's phase and perhaps its claim, but not the history.
LEMMA PhaseMoves ==
  ASSUME ITypeOK, RejectInv, NEW o \in Operation, UNCHANGED <<hvars, live>>,
         \/ rpc' = rpc /\ issued' = issued
         \/ rpc' = [rpc EXCEPT ![o] = "sent"] /\ issued' = issued \cup {o},
         claims' \in [Ring -> Claim \cup {NoClaim}],
         \A r \in Ring, p \in Operation : p # o /\ Claims(r, p) => claims'[r] = claims[r],
         op' \in [Operation -> OpState], \A p \in Operation : p # o => op'[p] = op[p],
         RejectOK(o)'
  PROVE  ITypeOK' /\ RejectInv'
<1>1. HistoryMoves
  BY HistoryStays
<1>2. ClaimTypes'
  BY DEF ITypeOK, ClaimTypes
<1> QED BY <1>1, <1>2, TypesOfParts, OwnStep

LEMMA SessionKeeps ==
  ASSUME ITypeOK, RejectInv, NEW o \in Operation,
         \/ PrepareReady(o) \/ SessionGone(o) \/ AnswerIncoming(o) \/ AnswerStale(o)
         \/ HangUp(o) \/ HangUpEnds(o)
  PROVE  ITypeOK' /\ RejectInv'
<1>0. /\ claims \in [Ring -> Claim \cup {NoClaim}] /\ op \in [Operation -> OpState]
      /\ {"ready", "gone", "starting", "ending", "hangup_unconfirmed"} \subseteq Phase
  BY DEF ITypeOK, Phase
<1>1. /\ op[o].action # "reject"
      /\ UNCHANGED <<hvars, live>>
      /\ \/ rpc' = rpc /\ issued' = issued
         \/ rpc' = [rpc EXCEPT ![o] = "sent"] /\ issued' = issued \cup {o}
      /\ claims' = claims \/ claims' = Released(op[o].ring, o)
  BY AnswerOnly DEF PrepareReady, SessionGone, AnswerIncoming, AnswerStale, HangUp, HangUpEnds,
     Ask
<1>2. \/ op' = op \/ (\E phase \in Phase : GoesTo(o, phase))
      \/ op' = [op EXCEPT ![o].phase = "gone", ![o].mark = TRUE]
  BY <1>0 DEF PrepareReady, SessionGone, AnswerIncoming, AnswerStale, HangUp, HangUpEnds
<1>3. /\ op' \in [Operation -> OpState] /\ \A p \in Operation : p # o => op'[p] = op[p]
      /\ op'[o].action # "reject"
  <2>1. CASE op' = op
    BY <1>0, <1>1, <2>1
  <2>2. ASSUME NEW phase \in Phase, GoesTo(o, phase)
        PROVE  /\ op' \in [Operation -> OpState]
               /\ \A p \in Operation : p # o => op'[p] = op[p]
               /\ op'[o].action # "reject"
    BY <1>1, <2>2, GoesToIs
  <2>3. CASE op' = [op EXCEPT ![o].phase = "gone", ![o].mark = TRUE]
    <3>1. [op[o] EXCEPT !.phase = "gone", !.mark = TRUE] \in OpState
      BY <1>0 DEF OpState
    <3>2. op' = [op EXCEPT ![o] = [op[o] EXCEPT !.phase = "gone", !.mark = TRUE]]
      BY <1>0, <2>3
    <3>3. op'[o].action = op[o].action
      BY <1>0, <3>2 DEF OpState
    <3> QED BY <1>0, <1>1, <3>1, <3>2, <3>3
  <2> QED BY <1>2, <2>1, <2>2, <2>3
<1>4. RejectOK(o)'
  BY <1>3 DEF RejectOK, Rejects
<1>5. /\ claims' \in [Ring -> Claim \cup {NoClaim}]
      /\ \A r \in Ring, p \in Operation : p # o /\ Claims(r, p) => claims'[r] = claims[r]
  BY <1>0, <1>1, ReleasedIs
<1> QED BY <1>1, <1>3, <1>4, <1>5, PhaseMoves

\* The answer of the Agent, or none.
LEMMA ReplyKeeps ==
  ASSUME ITypeOK, RejectInv, NEW o \in Operation,
         ReplyOk(o) \/ ReplyRefused(o) \/ ReplyUncertain(o)
  PROVE  ITypeOK' /\ RejectInv'
<1>0. /\ claims \in [Ring -> Claim \cup {NoClaim}] /\ op \in [Operation -> OpState]
      /\ op[o].action \in {"answer", "reject"}
  BY DEF ITypeOK, OpState
<1>1. /\ UNCHANGED <<hvars, live>> /\ rpc' = rpc /\ issued' = issued
      /\ op[o].phase \in {"starting", "asking"}
  BY DEF ReplyOk, ReplyRefused, ReplyUncertain, Waiting
<1>2. CASE ReplyRefused(o)
  <2>1. GoesTo(o, "gone") /\ claims' = Released(op[o].ring, o) /\ "gone" \in Phase
    BY <1>2 DEF ReplyRefused, Phase
  <2>2. RejectOK(o)'
    BY <2>1, GoesToIs DEF RejectOK, Rejects
  <2> QED BY <1>1, <2>1, <2>2, GoesToIs, ReleasedIs, PhaseMoves
<1>3. CASE ReplyUncertain(o)
  <2>1. /\ GoesTo(o, "uncertain") /\ claims' = Finished(op[o].ring, o, "uncertain")
        /\ "uncertain" \in Phase
    BY <1>3 DEF ReplyUncertain, Phase
  <2>2. /\ op' \in [Operation -> OpState] /\ \A p \in Operation : p # o => op'[p] = op[p]
        /\ op'[o].phase = "uncertain" /\ op'[o].action = op[o].action
        /\ op'[o].ring = op[o].ring
    BY <2>1, GoesToIs
  <2>3. /\ claims' \in [Ring -> Claim \cup {NoClaim}]
        /\ \A r \in Ring, p \in Operation : p # o /\ Claims(r, p) => claims'[r] = claims[r]
        /\ \A r \in Ring : r = op[o].ring /\ Claims(r, o)
              => claims'[r].by = o /\ claims'[r].state = "uncertain" /\ claims'[r] \in Claim
    BY <2>1, FinishedIs
  <2>4. ASSUME op[o].action = "reject", NEW r \in Ring, r = op[o].ring
        PROVE  Guarded(o, r)'
    <3>1. Guarded(o, r)
      BY <1>1, <2>4 DEF RejectInv, RejectOK, Rejects
    <3> QED BY <1>1, <2>2, <2>3, <2>4, <3>1, ClaimAssumption DEF Guarded, Claims, hvars
  <2>5. RejectOK(o)'
    BY <1>1, <2>2, <2>4 DEF RejectInv, RejectOK, Rejects
  <2> QED BY <1>1, <2>2, <2>3, <2>5, PhaseMoves
<1>4. CASE ReplyOk(o)
  <2> DEFINE phase == IF op[o].action = "answer" THEN "active" ELSE "rejected"
             new   == [op[o] EXCEPT !.mark = TRUE, !.phase = phase]
  <2>1. /\ op' = [op EXCEPT ![o] = new]
        /\ claims' = IF op[o].action = "answer" THEN Finished(op[o].ring, o, "active")
                     ELSE claims
    BY <1>0, <1>4 DEF ReplyOk
  <2>2. phase \in Phase /\ (op[o].action = "reject" => phase = "rejected")
    BY DEF Phase
  <2> HIDE DEF phase
  <2>3. /\ new \in OpState /\ new.action = op[o].action /\ new.ring = op[o].ring
        /\ new.phase = phase /\ new.mark
    BY <1>0, <2>2 DEF OpState
  <2> HIDE DEF new
  <2>4. /\ op' \in [Operation -> OpState] /\ \A p \in Operation : p # o => op'[p] = op[p]
        /\ op'[o] = new
    BY <1>0, <2>1, <2>3
  <2>5. /\ claims' \in [Ring -> Claim \cup {NoClaim}]
        /\ \A r \in Ring, p \in Operation : p # o /\ Claims(r, p) => claims'[r] = claims[r]
    BY <1>0, <2>1, FinishedIs
  <2>6. ASSUME op[o].action = "reject", NEW r \in Ring, r = op[o].ring
        PROVE  Guarded(o, r)'
    <3>1. Guarded(o, r) /\ claims' = claims
      BY <1>1, <2>1, <2>6 DEF RejectInv, RejectOK, Rejects
    <3>2. op'[o].phase = "rejected" /\ op'[o].mark
      BY <2>2, <2>3, <2>4, <2>6
    <3> QED BY <1>1, <3>1, <3>2 DEF Guarded, Claims, hvars
  <2>7. op[o].action = "reject" => op[o].ring \in Ring
    BY <1>1 DEF RejectInv, RejectOK, Rejects
  <2>8. RejectOK(o)'
    BY <2>2, <2>3, <2>4, <2>6, <2>7 DEF RejectOK, Rejects
  <2> QED BY <1>1, <2>4, <2>5, <2>8, PhaseMoves
<1> QED BY <1>2, <1>3, <1>4

\* The history is told: a rejected ring is over from then on.
LEMMA TellKeeps ==
  ASSUME ITypeOK, RejectInv, NEW o \in Operation, TellHistory(o)
  PROVE  ITypeOK' /\ RejectInv'
<1>0. /\ claims \in [Ring -> Claim \cup {NoClaim}] /\ op \in [Operation -> OpState]
  BY DEF ITypeOK
<1>1. /\ op' \in [Operation -> OpState] /\ \A p \in Operation : p # o => op'[p] = op[p]
      /\ op'[o].phase = op[o].phase /\ op'[o].action = op[o].action
      /\ op'[o].ring = op[o].ring
  BY <1>0 DEF TellHistory, OpState
<1>2. /\ UNCHANGED <<live, rpc, issued>>
      /\ claims' = claims \/ claims' = Finished(op[o].ring, o, "terminal")
      /\ op[o].phase # "rejected" => claims' = claims
      /\ \E outcome \in {"answered", "rejected", "ended"} :
           /\ Mark(op[o].ring, outcome)
           /\ op[o].phase = "rejected" => outcome = "rejected"
  BY DEF TellHistory
<1>3. PICK outcome \in {"answered", "rejected", "ended"} :
           /\ Mark(op[o].ring, outcome)
           /\ op[o].phase = "rejected" => outcome = "rejected"
  BY <1>2
<1>4. HistoryMoves
  BY <1>3, MarkMoves
<1>5. /\ claims' \in [Ring -> Claim \cup {NoClaim}]
      /\ \A r \in Ring, p \in Operation : p # o /\ Claims(r, p) => claims'[r] = claims[r]
  BY <1>0, <1>2, FinishedIs
<1>6. ASSUME Rejects(o), NEW r \in Ring, r = op[o].ring PROVE Guarded(o, r)'
  <2>1. Guarded(o, r) /\ op[o].phase \in {"asking", "rejected", "uncertain"}
    BY <1>6 DEF RejectInv, RejectOK
  <2>2. CASE op[o].phase = "rejected"
    <3>1. call'[r] # "ringing"
      <4>1. Mark(r, "rejected")
        BY <1>3, <1>6, <2>2
      <4>2. CASE call[r] = "ringing"
        <5>1. Becomes(r, "over", "rejected")
          BY <4>1, <4>2 DEF Mark
        <5> QED BY <5>1, HistoryTypes DEF Becomes
      <4>3. CASE call[r] # "ringing"
        BY <1>4, <2>1, <4>3 DEF HistoryMoves, Guarded
      <4> QED BY <4>2, <4>3
    <3> QED BY <1>4, <2>1, <3>1 DEF Guarded, HistoryMoves
  <2>3. CASE op[o].phase # "rejected"
    BY <1>1, <1>2, <1>4, <2>1, <2>3 DEF Guarded, HistoryMoves, Claims
  <2> QED BY <2>2, <2>3
<1>7. RejectOK(o)'
  BY <1>1, <1>6 DEF RejectInv, RejectOK, Rejects
<1>8. ClaimTypes'
  BY <1>1, <1>2, <1>5 DEF ITypeOK, ClaimTypes
<1> QED BY <1>1, <1>4, <1>5, <1>7, <1>8, TypesOfParts, OwnStep

\* The other steps: the Agent's, the history's, the sweep and a restart.
LEMMA OtherKeeps ==
  ASSUME ITypeOK, RejectInv,
         \/ RingStep \/ LivenessChanges \/ CoreRestarts
         \/ (\E o \in Operation : Execute(o)) \/ (\E r \in Ring : SweepClaim(r))
         \/ UNCHANGED ivars
  PROVE  ITypeOK' /\ RejectInv'
<1>1. ASSUME op' = op, claims' = claims, HistoryMoves, ClaimTypes' PROVE ITypeOK' /\ RejectInv'
  BY <1>1, TypesOfParts, RejectKept DEF RejectInv
<1>2. CASE RingStep
  <2>1. HistoryMoves
    BY <1>2, RingMoves DEF RingStep
  <2> QED BY <1>1, <1>2, <2>1 DEF RingStep, claimVars, ClaimTypes, ITypeOK
<1>3. CASE LivenessChanges
  <2>1. HistoryMoves
    BY <1>3, HistoryStays DEF LivenessChanges
  <2>2. live' \in [Ring -> BOOLEAN]
    BY <1>3 DEF LivenessChanges, ITypeOK
  <2> QED BY <1>1, <1>3, <2>1, <2>2 DEF LivenessChanges, claimVars, ClaimTypes, ITypeOK
<1>4. ASSUME NEW o \in Operation, Execute(o) PROVE ITypeOK' /\ RejectInv'
  <2>1. HistoryMoves
    BY <1>4, HistoryStays DEF Execute
  <2> QED BY <1>1, <1>4, <2>1 DEF Execute, ClaimTypes, ITypeOK
<1>5. CASE UNCHANGED ivars
  <2>1. HistoryMoves
    BY <1>5, HistoryStays DEF ivars
  <2> QED BY <1>1, <1>5, <2>1 DEF ivars, claimVars, ClaimTypes, ITypeOK
<1>6. CASE CoreRestarts
  <2>1. HistoryMoves
    BY <1>6, HistoryStays DEF CoreRestarts
  <2>2. \A o \in Operation : op[o] \in OpState
    BY DEF ITypeOK
  <2>3. \A o \in Operation :
          /\ [op[o] EXCEPT !.phase = "gone", !.mark = FALSE] \in OpState
          /\ [op[o] EXCEPT !.phase = "gone", !.mark = FALSE].phase = "gone"
    BY <2>2 DEF OpState, Phase
  <2>4. /\ op' \in [Operation -> OpState]
        /\ \A o \in Operation : op'[o].phase = "gone" \/ (op'[o] = op[o] /\ op[o].phase = "none")
    BY <1>6, <2>2, <2>3 DEF CoreRestarts
  <2>5. ClaimTypes'
    BY <1>6, <2>4 DEF CoreRestarts, ClaimTypes, ITypeOK
  <2>6. RejectInv'
    BY <2>4 DEF RejectInv, RejectOK, Rejects
  <2> QED BY <2>1, <2>5, <2>6, TypesOfParts
<1>7. ASSUME NEW r \in Ring, SweepClaim(r) PROVE ITypeOK' /\ RejectInv'
  <2>1. HistoryMoves
    BY <1>7, HistoryStays DEF SweepClaim
  <2>2. /\ claims' \in [Ring -> Claim \cup {NoClaim}] /\ op' = op
        /\ \A q \in Ring : q # r => claims'[q] = claims[q]
    BY <1>7 DEF SweepClaim, ITypeOK
  <2>3. ClaimTypes'
    BY <1>7, <2>2 DEF SweepClaim, ClaimTypes, ITypeOK
  <2>4. ASSUME NEW o \in Operation PROVE RejectOK(o)'
    <3>1. CASE ~Claims(r, o)
      BY <2>1, <2>2, <3>1, RejectKept DEF RejectInv
    <3>2. CASE Claims(r, o)
      <4>1. /\ op[o].phase # "asking" /\ ~op[o].mark
            /\ claims[r].state = "uncertain" => call[r] \in {"unknown", "over"}
        BY <1>7, <3>2 DEF SweepClaim, Claims, Sweepable
      <4>2. ASSUME Rejects(o), r = op[o].ring PROVE call[r] # "ringing"
        BY <4>1, <4>2 DEF RejectInv, RejectOK, Guarded
      <4>3. ASSUME Rejects(o), NEW q \in Ring, q = op[o].ring PROVE Guarded(o, q)'
        <5>1. Guarded(o, q)
          BY <4>3 DEF RejectInv, RejectOK
        <5>2. CASE q = r
          BY <2>1, <4>2, <4>3, <5>1, <5>2 DEF Guarded, HistoryMoves
        <5>3. CASE q # r
          BY <2>1, <2>2, <5>1, <5>3 DEF Guarded, HistoryMoves, Claims
        <5> QED BY <5>2, <5>3
      <4> QED BY <2>2, <4>3 DEF RejectInv, RejectOK, Rejects
    <3> QED BY <3>1, <3>2
  <2> QED BY <2>1, <2>3, <2>4, TypesOfParts DEF RejectInv
<1> QED BY <1>2, <1>3, <1>4, <1>5, <1>6, <1>7

LEMMA ClaimStep == ITypeOK /\ RejectInv /\ [INext]_ivars => ITypeOK' /\ RejectInv'
<1> SUFFICES ASSUME ITypeOK, RejectInv, [INext]_ivars PROVE ITypeOK' /\ RejectInv'
  OBVIOUS
<1>1. ASSUME NEW o \in Operation, OpStep(o) PROVE ITypeOK' /\ RejectInv'
  BY <1>1, ClaimKeeps, SessionKeeps, ReplyKeeps, TellKeeps, OtherKeeps DEF OpStep
<1> QED BY <1>1, OtherKeeps DEF INext

LEMMA ClaimInit == IInit => ITypeOK /\ RejectInv
<1> SUFFICES ASSUME IInit PROVE ITypeOK /\ RejectInv
  OBVIOUS
<1>1. NoOp \in OpState /\ NoOp.action = "answer"
  BY DEF NoOp, OpState, Phase
<1>2. ITypeOK
  BY <1>1 DEF IInit, HInit, ITypeOK
<1>3. RejectInv
  BY <1>1 DEF IInit, RejectInv, RejectOK, Rejects
<1> QED BY <1>2, <1>3

\* Only a rejection that claims its ring is asked of the Agent.
LEMMA RejectionAsked ==
  ASSUME ITypeOK, RejectInv, INext, NEW p \in Operation, p \in issued' \ issued,
         op'[p].action = "reject"
  PROVE  \E r \in Ring : claims[r] = NoClaim /\ call[r] = "ringing" /\ op'[p].ring = r
<1>1. op \in [Operation -> OpState]
  BY DEF ITypeOK
<1>2. \/ \E o \in Operation, r \in Ring, a \in {"answer", "reject"} : ClaimIncoming(o, r, a)
      \/ \E o \in Operation : AnswerIncoming(o)
  BY DEF INext, OpStep, RingStep, LivenessChanges, CoreRestarts, claimVars, SweepClaim,
     PrepareReady, SessionGone, AnswerStale, Execute, ReplyOk, TellHistory, ReplyRefused,
     ReplyUncertain, HangUp, HangUpEnds
<1>3. ASSUME NEW o \in Operation, AnswerIncoming(o) PROVE FALSE
  <2>1. issued' = issued \cup {o} /\ GoesTo(o, "starting") /\ op[o].phase = "ready"
        /\ "starting" \in Phase
    BY <1>3 DEF AnswerIncoming, Ask, Phase
  <2>2. op'[o].action = op[o].action
    BY <2>1, GoesToIs
  <2> QED BY <2>1, <2>2, AnswerOnly
<1>4. ASSUME NEW o \in Operation, NEW r \in Ring, NEW a \in {"answer", "reject"},
             ClaimIncoming(o, r, a)
      PROVE  claims[r] = NoClaim /\ call[r] = "ringing" /\ op'[p].ring = r
  <2>1. o = p
    BY <1>4 DEF ClaimIncoming, Ask
  <2> QED BY <1>1, <1>4, <2>1 DEF ClaimIncoming, LiveIncoming
<1> QED BY <1>2, <1>3, <1>4

\* The types of claims, operations and what they may do to the history.
THEOREM ClaimTypeCorrect == ISpec => []ITypeOK
BY ClaimInit, ClaimStep, PTL DEF ISpec

\* A rejection the Agent may have carried out is never sent again by another
\* operation, for any browsers and rings (claimIncoming, sweep, the order of
\* marking and finishing in rejectIncoming).
THEOREM RejectedOnce == ISpec => RejectNeverRepeated
<1>1. ASSUME ITypeOK, RejectInv, [INext]_ivars, NEW o \in Operation, NEW p \in Operation,
             o \in issued, p \in issued' \ issued,
             op[o].action = "reject", op'[p].action = "reject", op[o].ring = op'[p].ring
      PROVE  op[o].phase = "gone"
  <2>1. INext
    BY <1>1 DEF ivars, claimVars
  <2>2. PICK r \in Ring : claims[r] = NoClaim /\ call[r] = "ringing" /\ op'[p].ring = r
    BY <1>1, <2>1, RejectionAsked
  <2> QED BY <1>1, <2>2 DEF RejectInv, RejectOK, Rejects, Guarded, Claims
<1>2. ITypeOK /\ RejectInv /\ [INext]_ivars =>
        [\A o, p \in Operation :
           /\ o \in issued /\ p \in issued' \ issued
           /\ op[o].action = "reject" /\ op'[p].action = "reject"
           /\ op[o].ring = op'[p].ring
           => op[o].phase = "gone"]_ivars
  BY <1>1
<1> QED BY <1>2, ClaimInit, ClaimStep, PTL DEF ISpec, RejectNeverRepeated

-----------------------------------------------------------------------------
(* MediaBridge: types.                                                     *)

LEMMA MInitTypeOK == MInit => MTypeOK
BY MediaAssumption DEF MInit, MTypeOK

\* The broker's sets only ever hold sessions.
LEMMA RemovedTypes ==
  ASSUME MTypeOK, NEW set, Removed(set)
  PROVE  /\ reservations' \subseteq Session /\ signalled' \subseteq Session
         /\ unclosed' \subseteq Session
BY DEF MTypeOK, Removed

\* Core's goroutine of a session and its broker.
LEMMA CoreStepTypeOK ==
  ASSUME MTypeOK, NEW s \in Session,
         \/ ReserveMedia(s) \/ PrepareFails(s) \/ PrepareSucceeds(s) \/ Acquire(s)
         \/ EndMedia(s) \/ ClosePeer(s)
  PROVE  MTypeOK'
<1> USE DEF MTypeOK, managerVars, brokerVars, CoreGoesTo
<1>1. CASE ReserveMedia(s)
  BY <1>1 DEF ReserveMedia, Expired
<1>2. CASE PrepareFails(s)
  BY <1>2, RemovedTypes DEF PrepareFails
<1>3. CASE PrepareSucceeds(s)
  <2>1. /\ reservations' \subseteq Session /\ signalled' \subseteq Session
        /\ unclosed' \subseteq Session
    BY <1>3, RemovedTypes DEF PrepareSucceeds
  <2> QED BY <1>3, <2>1 DEF PrepareSucceeds
<1>4. CASE Acquire(s)
  BY <1>4 DEF Acquire
<1>5. CASE EndMedia(s)
  BY <1>5, RemovedTypes DEF EndMedia
<1>6. CASE ClosePeer(s)
  BY <1>6 DEF ClosePeer
<1> QED BY <1>1, <1>2, <1>3, <1>4, <1>5, <1>6

\* The broker's handler of the Agent's socket.
LEMMA HandlerStepTypeOK ==
  ASSUME MTypeOK, NEW s \in Session,
         \/ Handshake(s) \/ Attach(s) \/ Acknowledge(s) \/ Announce(s) \/ ServeEnds(s)
         \/ MediaBreaks(s)
  PROVE  MTypeOK'
<1> USE DEF MTypeOK, managerVars, brokerVars, HandlerGoesTo
<1>1. CASE Handshake(s)
  <2>1. /\ reservations' \subseteq Session /\ signalled' \subseteq Session
        /\ unclosed' \subseteq Session
    BY <1>1, RemovedTypes DEF Handshake
  <2> QED BY <1>1, <2>1 DEF Handshake
<1>2. CASE Attach(s)
  <2>1. /\ reservations' \subseteq Session /\ signalled' \subseteq Session
        /\ unclosed' \subseteq Session
    BY <1>2, RemovedTypes DEF Attach
  <2> QED BY <1>2, <2>1 DEF Attach
<1>3. CASE Acknowledge(s)
  BY <1>3 DEF Acknowledge
<1>4. CASE Announce(s)
  BY <1>4 DEF Announce
<1>5. CASE ServeEnds(s) \/ MediaBreaks(s)
  BY <1>5 DEF ServeEnds, MediaBreaks
<1> QED BY <1>1, <1>2, <1>3, <1>4, <1>5

\* The Agent's goroutine of a session.
LEMMA AgentStepTypeOK ==
  ASSUME MTypeOK, NEW s \in Session,
         \/ AgentPrepare(s) \/ OpenAudio(s) \/ DialSucceeds(s) \/ DialFails(s)
         \/ InsertSession(s) \/ RunEnds(s) \/ AudioFails(s) \/ RunReturns(s)
  PROVE  MTypeOK'
<1> USE DEF MTypeOK, brokerVars, PrepGoesTo, GivesUp
<1>1. CASE AgentPrepare(s) \/ OpenAudio(s)
  BY <1>1 DEF AgentPrepare, OpenAudio
<1>2. CASE DialSucceeds(s) \/ DialFails(s)
  BY <1>2 DEF DialSucceeds, DialFails
<1>3. CASE InsertSession(s)
  BY <1>3, MediaAssumption DEF InsertSession, MayInsert
<1>4. CASE RunEnds(s) \/ AudioFails(s)
  BY <1>4 DEF RunEnds, AudioFails, CloseTransport
<1>5. CASE RunReturns(s)
  BY <1>5, MediaAssumption DEF RunReturns
<1> QED BY <1>1, <1>2, <1>3, <1>4, <1>5

\* Requests and events that end sessions from outside.
LEMMA StopStepTypeOK ==
  ASSUME MTypeOK, (\E s \in Session : StopAgentMedia(s)) \/ DisconnectMedia \/ CloseManager
  PROVE  MTypeOK'
<1> USE DEF MTypeOK, managerVars, brokerVars, CoreGoesTo, PrepGoesTo, CloseTransport
<1>1. ASSUME NEW s \in Session, StopAgentMedia(s) PROVE MTypeOK'
  <2>1. /\ reservations' \subseteq Session /\ signalled' \subseteq Session
        /\ unclosed' \subseteq Session
    BY <1>1, RemovedTypes DEF StopAgentMedia
  <2> QED BY <1>1, <2>1 DEF StopAgentMedia
<1>2. CASE DisconnectMedia
  BY <1>2, RemovedTypes DEF DisconnectMedia
<1>3. CASE CloseManager
  BY <1>3 DEF CloseManager
<1> QED BY <1>1, <1>2, <1>3

LEMMA MStepTypeOK == MTypeOK /\ [MNext]_mvars => MTypeOK'
<1> SUFFICES ASSUME MTypeOK, [MNext]_mvars PROVE MTypeOK'
  OBVIOUS
<1>1. CASE UNCHANGED mvars
  BY <1>1 DEF mvars, brokerVars, managerVars, MTypeOK
<1>2. ASSUME NEW s \in Session, SessionStep(s) PROVE MTypeOK'
  BY <1>2, CoreStepTypeOK, HandlerStepTypeOK, AgentStepTypeOK, StopStepTypeOK DEF SessionStep
<1> QED BY <1>1, <1>2, StopStepTypeOK DEF MNext

\* The types of all variables of the bridge; the modem's owner is a session
\* that has not returned.
THEOREM MediaTypeCorrect == MSpec => []MTypeOK
BY MInitTypeOK, MStepTypeOK, PTL DEF MSpec

-----------------------------------------------------------------------------
(* The modem's audio has one owner.                                        *)

\* Only the goroutine of the session that inserts itself begins to run.
LEMMA AudioStep ==
  ASSUME MTypeOK, AudioIsOwned, [MNext]_mvars
  PROVE  AudioIsOwned'
<1>0. prep \in [Session -> {"none", "opening", "dialing", "dialed", "running", "closing",
                            "over"}]
  BY DEF MTypeOK
<1>1. CASE UNCHANGED <<prep, owner>>
  BY <1>1 DEF AudioIsOwned
<1>2. ASSUME NEW s \in Session, InsertSession(s) PROVE AudioIsOwned'
  BY <1>0, <1>2, MediaAssumption
  DEF InsertSession, MayInsert, GivesUp, PrepGoesTo, AudioIsOwned
<1>3. ASSUME NEW s \in Session, RunReturns(s) PROVE AudioIsOwned'
  BY <1>0, <1>3 DEF RunReturns, PrepGoesTo, AudioIsOwned
<1>4. ASSUME owner' = owner, NEW s \in Session, NEW ph, ph # "running",
             PrepGoesTo(s, ph)
      PROVE  AudioIsOwned'
  BY <1>0, <1>4 DEF PrepGoesTo, AudioIsOwned
<1>5. \/ UNCHANGED <<prep, owner>>
      \/ \E s \in Session : InsertSession(s) \/ RunReturns(s)
      \/ owner' = owner /\ \E s \in Session : \E ph : ph # "running" /\ PrepGoesTo(s, ph)
  <2>1. CASE UNCHANGED mvars
    BY <2>1 DEF mvars, managerVars
  <2>2. ASSUME NEW s \in Session,
               \/ ReserveMedia(s) \/ PrepareFails(s) \/ PrepareSucceeds(s) \/ Acquire(s)
               \/ EndMedia(s) \/ ClosePeer(s) \/ Handshake(s) \/ Attach(s)
               \/ Acknowledge(s) \/ Announce(s) \/ ServeEnds(s) \/ MediaBreaks(s)
        PROVE  UNCHANGED <<prep, owner>>
    BY <2>2 DEF ReserveMedia, PrepareFails, PrepareSucceeds, Acquire, EndMedia, ClosePeer,
       Handshake, Attach, Acknowledge, Announce, ServeEnds, MediaBreaks, managerVars
  <2>3. ASSUME NEW s \in Session,
               \/ AgentPrepare(s) \/ OpenAudio(s) \/ DialSucceeds(s) \/ DialFails(s)
        PROVE  owner' = owner /\ \E ph : ph # "running" /\ PrepGoesTo(s, ph)
    BY <2>3 DEF AgentPrepare, OpenAudio, DialSucceeds, DialFails, GivesUp
  <2>4. ASSUME NEW s \in Session, RunEnds(s) \/ AudioFails(s)
        PROVE  owner' = owner /\ \E ph : ph # "running" /\ PrepGoesTo(s, ph)
    BY <2>4 DEF RunEnds, AudioFails, CloseTransport
  <2>5. ASSUME NEW s \in Session, StopAgentMedia(s)
        PROVE  /\ owner' = owner
               /\ prep' = prep \/ \E ph : ph # "running" /\ PrepGoesTo(s, ph)
    BY <2>5 DEF StopAgentMedia, CloseTransport
  <2>6. CASE DisconnectMedia
    BY <2>6 DEF DisconnectMedia, managerVars
  <2>7. CASE CloseManager
    <3>1. /\ owner' = owner
          /\ prep' = prep \/ (owner \in Session /\ PrepGoesTo(owner, "closing"))
      BY <2>7 DEF CloseManager, CloseTransport, MTypeOK
    <3> QED BY <3>1
  <2> QED BY <2>1, <2>2, <2>3, <2>4, <2>5, <2>6, <2>7 DEF MNext, SessionStep
<1> QED BY <1>1, <1>2, <1>3, <1>4, <1>5

\* The modem's audio is carried by the session that owns the modem, though
\* preparations overlap (Manager.prepare, Manager.stop).
THEOREM ModemAudioIsOwned == MSpec => []AudioIsOwned
<1>1. MInit => AudioIsOwned
  BY DEF MInit, AudioIsOwned
<1> QED BY <1>1, AudioStep, MediaTypeCorrect, PTL DEF MSpec

-----------------------------------------------------------------------------
(* A revoked peer is closed.                                               *)

\* Removing reservations leaves their peers to the goroutine that does it.
LEMMA RemovedKeeps ==
  ASSUME RevokedPeerIsClosed, NEW set, Removed(set), media' \subseteq media,
         attached' = attached
  PROVE  RevokedPeerIsClosed'
BY DEF RevokedPeerIsClosed, Removed

LEMMA PeerStep ==
  ASSUME RevokedPeerIsClosed, [MNext]_mvars
  PROVE  RevokedPeerIsClosed'
<1>1. CASE UNCHANGED mvars
  BY <1>1 DEF mvars, brokerVars, RevokedPeerIsClosed
<1>2. ASSUME NEW s \in Session,
             \/ PrepareFails(s) \/ PrepareSucceeds(s) \/ EndMedia(s)
      PROVE  RevokedPeerIsClosed'
  BY <1>2, RemovedKeeps DEF PrepareFails, PrepareSucceeds, EndMedia
<1>3. ASSUME NEW s \in Session, ReserveMedia(s) PROVE RevokedPeerIsClosed'
  BY <1>3 DEF ReserveMedia, Expired, RevokedPeerIsClosed
<1>4. ASSUME NEW s \in Session, Handshake(s) PROVE RevokedPeerIsClosed'
  BY <1>4 DEF Handshake, Removed, RevokedPeerIsClosed
<1>5. ASSUME NEW s \in Session, Attach(s) PROVE RevokedPeerIsClosed'
  BY <1>5 DEF Attach, Removed, Expired, RevokedPeerIsClosed
<1>6. ASSUME NEW s \in Session, ClosePeer(s) \/ Acknowledge(s) PROVE RevokedPeerIsClosed'
  BY <1>6 DEF ClosePeer, Acknowledge, RevokedPeerIsClosed
<1>7. ASSUME NEW s \in Session, Announce(s) \/ ServeEnds(s) \/ MediaBreaks(s)
      PROVE  RevokedPeerIsClosed'
  BY <1>7 DEF Announce, ServeEnds, MediaBreaks, brokerVars, RevokedPeerIsClosed
<1>8. ASSUME UNCHANGED brokerVars, media' \subseteq media PROVE RevokedPeerIsClosed'
  BY <1>8 DEF brokerVars, RevokedPeerIsClosed
<1>9. ASSUME NEW s \in Session,
             \/ Acquire(s) \/ AgentPrepare(s) \/ OpenAudio(s) \/ DialSucceeds(s)
             \/ DialFails(s) \/ InsertSession(s) \/ RunEnds(s) \/ AudioFails(s)
             \/ RunReturns(s)
      PROVE  UNCHANGED brokerVars /\ media' \subseteq media
  BY <1>9 DEF Acquire, AgentPrepare, OpenAudio, DialSucceeds, DialFails, InsertSession,
     RunEnds, AudioFails, RunReturns, CloseTransport
<1>10. ASSUME NEW s \in Session, StopAgentMedia(s) PROVE RevokedPeerIsClosed'
  <2>1. media' \subseteq media /\ attached' = attached
    BY <1>10 DEF StopAgentMedia, CloseTransport
  <2>2. Removed({s}) \/ UNCHANGED brokerVars
    BY <1>10 DEF StopAgentMedia, brokerVars
  <2> QED BY <1>8, <2>1, <2>2, RemovedKeeps
<1>11. CASE DisconnectMedia
  BY <1>11, RemovedKeeps DEF DisconnectMedia
<1>12. CASE CloseManager
  <2>1. UNCHANGED brokerVars /\ media' \subseteq media
    BY <1>12 DEF CloseManager, CloseTransport
  <2> QED BY <1>8, <2>1
<1> QED BY <1>1, <1>2, <1>3, <1>4, <1>5, <1>6, <1>7, <1>8, <1>9, <1>10, <1>11, <1>12
        DEF MNext, SessionStep

\* A socket that was attached does not outlive its reservation, unless the
\* goroutine that revoked it is still to close it (Broker.ServeHTTP, Revoke,
\* DisconnectAgent).
THEOREM PeersOfRevokedAreClosed == MSpec => []RevokedPeerIsClosed
<1>1. MInit => RevokedPeerIsClosed
  BY DEF MInit, RevokedPeerIsClosed
<1> QED BY <1>1, PeerStep, PTL DEF MSpec

-----------------------------------------------------------------------------
(* The budget: the inductive invariant.                                    *)

Budget == [limit : Limits, used : Nat, uncertain : Nat, grant : Loan \cup {NoLoan},
           max : 0..Quota, got : 0..Quota]

\* A session that Core knows has the grant, and reads and writes while it may;
\* the grant that is being settled is of a session Core does not know.
GrantInv ==
  /\ \A s \in Loan : Registered(s) => budget.grant = s
  /\ \A s \in Loan : donors[s].io => donors[s].phase \in {"ready", "draining"}
  /\ settling => budget.grant # NoLoan /\ \A s \in Loan : ~Registered(s)

\* What is counted is covered by what is charged and granted, within the limit.
Covers(b, c) ==
  /\ b.got <= b.max /\ b.used <= c
  /\ c <= (b.used + b.uncertain) + (b.max - b.got)
  /\ (b.used + b.uncertain) + (b.max - b.got) <= b.limit

\* A session that Core knows agrees with its grant, and beside what it has not
\* told the budget yet everything counted is charged.
Follows(d, b, c) ==
  /\ d.max = b.max /\ d.recorded = b.got
  /\ b.got <= d.used /\ d.used <= b.max
  /\ b.used + (d.used - b.got) <= c
  /\ c <= (b.used + b.uncertain) + (d.used - b.got)

CountInv ==
  /\ budget.grant = NoLoan => budget.max = 0 /\ budget.got = 0
  /\ Covers(budget, counted)
  /\ \A s \in Loan : Registered(s) => Follows(donors[s], budget, counted)

MoneyInv ==
  /\ budget \in Budget /\ donors \in [Loan -> Donor]
  /\ settling \in BOOLEAN /\ counted \in Nat
  /\ GrantInv /\ CountInv

-----------------------------------------------------------------------------
(* The bearer and the stream: the inductive invariant.                     *)

AgentTypes ==
  /\ item \in Loan \cup {NoLoan} /\ cleanup \in Loan \cup {NoLoan} /\ ended \subseteq Loan
  /\ bearer \in Bearer \cup {0} /\ usable \in BOOLEAN
  /\ stream \in Stream

\* A dial that may still be entered, and an open stream, are of the modem's
\* session and of the bearer that is up.
StreamInv ==
  /\ item = NoLoan \/ cleanup = NoLoan
  /\ stream.phase = "open" => stream.current
  /\ stream.current => stream.loan # NoLoan /\ stream.loan \in {item, cleanup}
  /\ stream.current => stream.bearer = bearer

BearerInv == AgentTypes /\ StreamInv

\* The requests and the processes.
RequestTypes ==
  /\ prepare \in [Loan -> {"none", "sent", "ok", "waiting", "failed"}]
  /\ halt \in [Loan -> {"none", "sent", "ok", "failed"}]
  /\ process \in 1..MaxProcess /\ target \in [Loan -> 1..MaxProcess]
  /\ voice \in BOOLEAN

DataInv == MoneyInv /\ BearerInv /\ RequestTypes

LEMMA DataNumbers ==
  /\ Quota \in Nat /\ Quota > 0 /\ MaxProcess \in Nat /\ 1 \in 1..MaxProcess
  /\ MaxLoan \in Nat /\ 0 \in 0..Quota /\ \A limit \in Limits : limit \in Nat
<1>1. {Quota, Flush, MaxProcess} \subseteq Nat \ {0} /\ MaxLoan \in Nat
      /\ Limits \subseteq Nat \ {0}
  BY DataAssumption
<1>2. Quota \in Nat \ {0} /\ MaxProcess \in Nat \ {0}
  BY <1>1
<1> QED BY <1>1, <1>2

LEMMA DataInvSays == DataInv => DTypeOK /\ EveryByteCharged /\ StreamsOnCurrentBearer
<1> SUFFICES ASSUME DataInv PROVE DTypeOK /\ EveryByteCharged /\ StreamsOnCurrentBearer
  OBVIOUS
<1>1. DTypeOK
  BY DEF DataInv, MoneyInv, Budget, BearerInv, AgentTypes, RequestTypes, DTypeOK
<1>2. EveryByteCharged
  BY DEF DataInv, MoneyInv, CountInv, Covers, EveryByteCharged, Committed, Reserved
<1>3. StreamsOnCurrentBearer
  BY DEF DataInv, BearerInv, StreamInv, StreamsOnCurrentBearer
<1> QED BY <1>1, <1>2, <1>3

LEMMA DataInit == DInit => DataInv
<1> SUFFICES ASSUME DInit PROVE DataInv
  OBVIOUS
<1> USE DataNumbers
<1>1. /\ budget \in Budget /\ budget.used = 0 /\ budget.uncertain = 0
      /\ budget.grant = NoLoan /\ budget.max = 0 /\ budget.got = 0
      /\ budget.limit \in Nat
  BY DEF DInit, Budget
<1>2. /\ donors \in [Loan -> Donor] /\ \A s \in Loan : ~Registered(s) /\ ~donors[s].io
  BY DEF DInit, Donor, Idle, Registered
<1>3. settling = FALSE /\ counted = 0
  BY DEF DInit
<1>4. MoneyInv
  <2>1. Covers(budget, counted)
    BY <1>1, <1>3 DEF Covers
  <2>2. GrantInv /\ CountInv
    BY <1>1, <1>2, <1>3, <2>1 DEF GrantInv, CountInv
  <2> QED BY <1>1, <1>2, <1>3, <2>2 DEF MoneyInv
<1>5. BearerInv
  BY DEF DInit, BearerInv, AgentTypes, StreamInv, NoStream, Stream, NoLoan
<1>6. RequestTypes
  BY DEF DInit, RequestTypes
<1> QED BY <1>4, <1>5, <1>6 DEF DataInv

-----------------------------------------------------------------------------
(* The money.                                                              *)

moneyVars == <<budget, counted, donors, settling>>

LEMMA MoneyUnchanged == ASSUME MoneyInv, UNCHANGED moneyVars PROVE MoneyInv'
BY DEF moneyVars, MoneyInv, GrantInv, CountInv, Registered

\* The numbers of a budget.
LEMMA BudgetNumbers ==
  ASSUME NEW b \in Budget
  PROVE  /\ b.used \in Nat /\ b.uncertain \in Nat /\ b.max \in Nat /\ b.got \in Nat
         /\ b.limit \in Nat /\ b.max <= Quota /\ Quota \in Nat
BY DataNumbers DEF Budget

\* A session that Core knows goes from one phase to another.
LEMMA PhaseStep ==
  ASSUME MoneyInv, NEW s \in Loan, Registered(s),
         NEW phase \in {"reserved", "preparing", "deferred", "ready", "draining",
                        "stopping", "closing"},
         donors[s].io => phase \in {"ready", "draining"},
         DonorGoesTo(s, phase), UNCHANGED <<budget, counted, settling>>
  PROVE  MoneyInv'
<1>1. donors \in [Loan -> Donor]
  BY DEF MoneyInv
<1>2. /\ donors' \in [Loan -> Donor]
      /\ \A t \in Loan : t # s => donors'[t] = donors[t]
      /\ donors'[s].phase = phase /\ donors'[s].io = donors[s].io
      /\ donors'[s].max = donors[s].max /\ donors'[s].used = donors[s].used
      /\ donors'[s].recorded = donors[s].recorded
  BY <1>1 DEF DonorGoesTo, Donor
<1>3. \A t \in Loan : Registered(t)' <=> Registered(t)
  BY <1>2 DEF Registered
<1>4. GrantInv'
  BY <1>2, <1>3 DEF MoneyInv, GrantInv
<1>5. CountInv'
  BY <1>2, <1>3 DEF MoneyInv, CountInv, Follows
<1> QED BY <1>2, <1>4, <1>5 DEF MoneyInv

\* Nobody but the session of the grant is known to Core.
LEMMA OneSession ==
  ASSUME MoneyInv, NEW s \in Loan, Registered(s)
  PROVE  /\ budget.grant = s /\ ~settling
         /\ \A t \in Loan : t # s => ~Registered(t)
BY DEF MoneyInv, GrantInv

LEMMA ConfigureKeeps ==
  ASSUME MoneyInv, NEW limit \in Limits, NEW reset \in BOOLEAN, Configure(limit, reset)
  PROVE  MoneyInv'
<1>1. budget \in Budget /\ limit \in Nat /\ counted \in Nat
  BY DataNumbers DEF MoneyInv
<1>2. UNCHANGED <<donors, settling>>
  BY DEF Configure, donorVars
<1>3. \A t \in Loan : Registered(t)' <=> Registered(t)
  BY <1>2 DEF Registered
<1>4. CASE reset
  <2>1. /\ budget.grant = NoLoan /\ counted' = 0
        /\ budget' = [budget EXCEPT !.limit = limit, !.used = 0, !.uncertain = 0]
    BY <1>4 DEF Configure
  <2>2. /\ budget' \in Budget /\ budget'.limit = limit /\ budget'.used = 0
        /\ budget'.uncertain = 0 /\ budget'.grant = NoLoan
        /\ budget'.max = budget.max /\ budget'.got = budget.got
    BY <1>1, <2>1 DEF Budget
  <2>3. budget.max = 0 /\ budget.got = 0
    BY <2>1 DEF MoneyInv, CountInv
  <2>4. \A t \in Loan : ~Registered(t)
    BY <2>1 DEF MoneyInv, GrantInv, Loan, NoLoan
  <2>5. Covers(budget', counted')
    BY <1>1, <2>1, <2>2, <2>3 DEF Covers
  <2> QED BY <1>2, <1>3, <2>1, <2>2, <2>3, <2>4, <2>5 DEF MoneyInv, GrantInv, CountInv
<1>5. CASE ~reset
  <2>1. /\ limit >= Committed + Reserved /\ counted' = counted
        /\ budget' = [budget EXCEPT !.limit = limit]
    BY <1>5 DEF Configure
  <2>2. /\ budget' \in Budget /\ budget'.limit = limit /\ budget'.used = budget.used
        /\ budget'.uncertain = budget.uncertain /\ budget'.grant = budget.grant
        /\ budget'.max = budget.max /\ budget'.got = budget.got
    BY <1>1, <2>1 DEF Budget
  <2>3. Covers(budget', counted')
    BY <1>1, <2>1, <2>2, BudgetNumbers DEF MoneyInv, CountInv, Covers, Committed, Reserved
  <2>4. \A t \in Loan : Registered(t)' => Follows(donors[t], budget, counted)'
    BY <1>2, <1>3, <2>1, <2>2 DEF MoneyInv, CountInv, Follows
  <2>5. GrantInv'
    BY <1>2, <1>3, <2>2 DEF MoneyInv, GrantInv
  <2> QED BY <1>2, <2>1, <2>2, <2>3, <2>4, <2>5 DEF MoneyInv, CountInv
<1> QED BY <1>4, <1>5

\* What a lost session may have used is charged.
LEMMA SettledKeeps == ASSUME MoneyInv, Settled PROVE MoneyInv'
<1>1. budget \in Budget /\ counted \in Nat
  BY DEF MoneyInv
<1>2. settling' = FALSE /\ UNCHANGED <<donors, counted>>
  BY DEF Settled
<1>3. \A t \in Loan : ~Registered(t) /\ ~Registered(t)'
  BY <1>2 DEF Settled, MoneyInv, GrantInv, Registered
<1>4. CASE UNCHANGED budget
  BY <1>2, <1>3, <1>4 DEF MoneyInv, GrantInv, CountInv
<1>5. CASE budget' = GrantEnds(budget, TRUE)
  <2>1. /\ budget.got <= budget.max
        /\ budget.max - budget.got \in Nat
    BY <1>1, BudgetNumbers DEF MoneyInv, CountInv, Covers
  <2> DEFINE charged == budget.uncertain + (budget.max - budget.got)
  <2>4. charged \in Nat
    BY <1>1, <2>1, BudgetNumbers
  <2>5. budget' = [budget EXCEPT !.uncertain = charged, !.grant = NoLoan, !.max = 0,
                                 !.got = 0]
    BY <1>5 DEF GrantEnds
  <2> HIDE DEF charged
  <2>6. /\ budget' \in Budget /\ budget'.limit = budget.limit /\ budget'.used = budget.used
        /\ budget'.uncertain = charged
        /\ budget'.grant = NoLoan /\ budget'.max = 0 /\ budget'.got = 0
    BY <1>1, <2>4, <2>5, DataNumbers DEF Budget
  <2>2. /\ budget' \in Budget /\ budget'.limit = budget.limit /\ budget'.used = budget.used
        /\ budget'.uncertain = budget.uncertain + (budget.max - budget.got)
        /\ budget'.grant = NoLoan /\ budget'.max = 0 /\ budget'.got = 0
    BY <2>6 DEF charged
  <2>3. Covers(budget', counted')
    BY <1>1, <1>2, <2>1, <2>2, BudgetNumbers DEF MoneyInv, CountInv, Covers
  <2> QED BY <1>2, <1>3, <2>2, <2>3 DEF MoneyInv, GrantInv, CountInv
<1> QED BY <1>4, <1>5 DEF Settled

\* A session reserves no more than the limit leaves.
LEMMA ReserveKeeps == ASSUME MoneyInv, NEW s \in Loan, Reserve(s) PROVE MoneyInv'
<1>1. budget \in Budget /\ counted \in Nat /\ donors \in [Loan -> Donor]
  BY DEF MoneyInv
<1> DEFINE remaining == budget.limit - Committed
           max == IF Quota > remaining THEN remaining ELSE Quota
<1>2. /\ budget.grant = NoLoan /\ budget.limit > Committed /\ ~settling
      /\ budget' = [budget EXCEPT !.grant = s, !.got = 0, !.max = max]
      /\ donors' = [donors EXCEPT ![s] = [Idle("reserved") EXCEPT !.max = max]]
      /\ settling' = settling /\ counted' = counted
      /\ \A t \in Loan : ~Registered(t)
  BY DEF Reserve
<1>3. max \in 0..Quota /\ max <= remaining
  BY <1>1, <1>2, BudgetNumbers DEF Committed
<1> HIDE DEF max
<1>4. budget.max = 0 /\ budget.got = 0
  BY <1>2 DEF MoneyInv, CountInv
<1>5. /\ budget' \in Budget /\ budget'.limit = budget.limit /\ budget'.used = budget.used
      /\ budget'.uncertain = budget.uncertain
      /\ budget'.grant = s /\ budget'.max = max /\ budget'.got = 0
  BY <1>1, <1>2, <1>3, DataNumbers DEF Budget
<1>6. /\ donors' \in [Loan -> Donor] /\ \A t \in Loan : t # s => donors'[t] = donors[t]
      /\ donors'[s].max = max /\ donors'[s].used = 0 /\ donors'[s].recorded = 0
      /\ ~donors'[s].io
  <2>1. [Idle("reserved") EXCEPT !.max = max] \in Donor
    BY <1>3, DataNumbers DEF Idle, Donor
  <2> QED BY <1>1, <1>2, <2>1 DEF Idle
<1>7. \A t \in Loan : t # s => ~Registered(t)'
  BY <1>2, <1>6 DEF Registered
<1>8. Covers(budget, counted)'
  BY <1>1, <1>2, <1>3, <1>4, <1>5, BudgetNumbers DEF MoneyInv, CountInv, Covers, Committed
<1>9. Follows(donors[s], budget, counted)'
  BY <1>1, <1>2, <1>3, <1>4, <1>5, <1>6, BudgetNumbers
  DEF MoneyInv, CountInv, Covers, Follows
<1>10. s # NoLoan
  BY DEF Loan, NoLoan
<1>11. GrantInv'
  BY <1>2, <1>5, <1>6, <1>7 DEF MoneyInv, GrantInv
<1> QED BY <1>1, <1>2, <1>5, <1>6, <1>7, <1>8, <1>9, <1>10, <1>11 DEF MoneyInv, CountInv

\* A read or write ends: what it moved is counted, and recorded when it is due.
LEMMA EndIOKeeps == ASSUME MoneyInv, NEW s \in Loan, EndIO(s) PROVE MoneyInv'
<1> DEFINE donor == donors[s]
           full  == donor.used = donor.max
           used  == IF full THEN donor.used ELSE donor.used + 1
           due   == used - donor.recorded >= Flush
           Counts(recorded, ends) ==
             donors' = [donors EXCEPT ![s] =
               [donor EXCEPT !.io = FALSE, !.used = used, !.recorded = recorded,
                             !.phase = IF @ = "ready" /\ ends THEN "draining" ELSE @]]
<1>1. budget \in Budget /\ counted \in Nat /\ donors \in [Loan -> Donor]
  BY DEF MoneyInv
<1>2. /\ donor \in Donor /\ donor.io /\ donor.phase \in {"ready", "draining"}
      /\ settling' = settling /\ counted' = counted + (used - donor.used)
      /\ \/ budget' = Recorded(used) /\ Counts(used, full)
         \/ UNCHANGED budget /\ Counts(donor.recorded, full \/ due)
  BY <1>1 DEF EndIO, MoneyInv, GrantInv
<1>3. Registered(s)
  BY <1>2 DEF Registered
<1>4. /\ budget.grant = s /\ ~settling /\ \A t \in Loan : t # s => ~Registered(t)
      /\ Follows(donor, budget, counted) /\ Covers(budget, counted) /\ s # NoLoan
  BY <1>3, OneSession DEF MoneyInv, CountInv, Loan, NoLoan
<1>5. /\ donor.used \in Nat /\ donor.max \in Nat /\ donor.recorded \in Nat
      /\ donor.recorded \in 0..Quota
  BY <1>2, DataNumbers DEF Donor
<1>6. /\ used \in Nat /\ donor.used <= used /\ used <= budget.max
      /\ used \in 0..Quota /\ donor.recorded \in 0..Quota
  <2>1. budget.max \in Nat /\ budget.max <= Quota /\ Quota \in Nat
    BY <1>1, BudgetNumbers
  <2>2. donor.used <= donor.max /\ donor.max = budget.max
    BY <1>4, <1>5, <2>1 DEF Follows
  <2>3. CASE full
    BY <1>5, <2>1, <2>2, <2>3
  <2>4. CASE ~full
    BY <1>5, <2>1, <2>2, <2>4
  <2> QED BY <2>3, <2>4
<1> HIDE DEF used, due, full
<1>7. counted' \in Nat
  BY <1>1, <1>2, <1>5, <1>6
<1>8. ASSUME NEW recorded \in 0..Quota, NEW ends \in BOOLEAN, Counts(recorded, ends)
      PROVE  /\ donors' \in [Loan -> Donor]
             /\ \A t \in Loan : t # s => donors'[t] = donors[t]
             /\ donors'[s].used = used /\ donors'[s].recorded = recorded
             /\ donors'[s].max = donor.max /\ ~donors'[s].io
             /\ donors'[s].phase \in {"ready", "draining"}
  <2> DEFINE phase == IF donor.phase = "ready" /\ ends THEN "draining" ELSE donor.phase
             next  == [donor EXCEPT !.io = FALSE, !.used = used, !.recorded = recorded,
                                    !.phase = phase]
  <2>1. phase \in {"ready", "draining"}
    BY <1>2
  <2>2. donors' = [donors EXCEPT ![s] = next]
    BY <1>8
  <2> HIDE DEF phase
  <2>3. /\ next \in Donor /\ next.used = used /\ next.recorded = recorded
        /\ next.max = donor.max /\ ~next.io /\ next.phase = phase
    BY <1>2, <1>6, <1>8, <2>1 DEF Donor
  <2> HIDE DEF next
  <2> QED BY <1>1, <2>1, <2>2, <2>3
<1>9. ASSUME donors' \in [Loan -> Donor], \A t \in Loan : t # s => donors'[t] = donors[t],
             ~donors'[s].io, donors'[s].phase \in {"ready", "draining"},
             budget' \in Budget, budget'.grant = s,
             Covers(budget, counted)', Follows(donors[s], budget, counted)'
      PROVE  MoneyInv'
  <2>1. \A t \in Loan : t # s => ~Registered(t)'
    BY <1>4, <1>9 DEF Registered
  <2>2. GrantInv'
    BY <1>2, <1>4, <1>9, <2>1 DEF MoneyInv, GrantInv
  <2>3. CountInv'
    BY <1>4, <1>9, <2>1 DEF CountInv
  <2> QED BY <1>2, <1>4, <1>7, <1>9, <2>2, <2>3 DEF MoneyInv
<1>10. CASE budget' = Recorded(used) /\ Counts(used, full)
  <2>1. full \in BOOLEAN
    BY DEF full
  <2>2. /\ donors' \in [Loan -> Donor] /\ \A t \in Loan : t # s => donors'[t] = donors[t]
        /\ donors'[s].used = used /\ donors'[s].recorded = used
        /\ donors'[s].max = donor.max /\ ~donors'[s].io
        /\ donors'[s].phase \in {"ready", "draining"}
    BY <1>6, <1>8, <1>10, <2>1
  <2> DEFINE told == budget.used + (used - budget.got)
  <2>3. told \in Nat
    BY <1>1, <1>4, <1>5, <1>6, BudgetNumbers DEF Follows
  <2>4. budget' = [budget EXCEPT !.used = told, !.got = used]
    BY <1>10 DEF Recorded
  <2> HIDE DEF told
  <2>5. /\ budget' \in Budget /\ budget'.used = told /\ budget'.got = used
        /\ budget'.limit = budget.limit /\ budget'.uncertain = budget.uncertain
        /\ budget'.grant = budget.grant /\ budget'.max = budget.max
    BY <1>1, <1>6, <2>3, <2>4 DEF Budget
  <2> USE DEF told
  <2>6. Covers(budget, counted)'
    BY <1>1, <1>2, <1>4, <1>5, <1>6, <2>5, BudgetNumbers DEF Covers, Follows
  <2>7. Follows(donors[s], budget, counted)'
    BY <1>1, <1>2, <1>4, <1>5, <1>6, <2>2, <2>5, BudgetNumbers DEF Covers, Follows
  <2> QED BY <1>4, <1>9, <2>2, <2>5, <2>6, <2>7
<1>11. CASE UNCHANGED budget /\ Counts(donor.recorded, full \/ due)
  <2>2. /\ donors' \in [Loan -> Donor] /\ \A t \in Loan : t # s => donors'[t] = donors[t]
        /\ donors'[s].used = used /\ donors'[s].recorded = donor.recorded
        /\ donors'[s].max = donor.max /\ ~donors'[s].io
        /\ donors'[s].phase \in {"ready", "draining"}
    BY <1>6, <1>8, <1>11
  <2>6. Covers(budget, counted)'
    BY <1>1, <1>2, <1>4, <1>5, <1>6, <1>11, BudgetNumbers DEF Covers, Follows
  <2>7. Follows(donors[s], budget, counted)'
    BY <1>1, <1>2, <1>4, <1>5, <1>6, <1>11, <2>2, BudgetNumbers DEF Covers, Follows
  <2> QED BY <1>1, <1>4, <1>9, <1>11, <2>2, <2>6, <2>7
<1> QED BY <1>2, <1>10, <1>11

\* A session that was stopped is charged for what it counted.
LEMMA StopAnsweredKeeps == ASSUME MoneyInv, NEW s \in Loan, StopAnswered(s) PROVE MoneyInv'
<1>1. budget \in Budget /\ counted \in Nat /\ donors \in [Loan -> Donor] /\ Registered(s)
      /\ donors[s].phase = "stopping"
  BY DEF MoneyInv, StopAnswered, Registered
<1>2. counted' = counted /\ settling' = settling
  BY DEF StopAnswered
<1>3. CASE DonorGoesTo(s, "closing") /\ UNCHANGED budget
  <2>1. ~donors[s].io
    BY <1>1 DEF MoneyInv, GrantInv
  <2> QED BY <1>1, <1>2, <1>3, <2>1, PhaseStep
<1>4. CASE /\ donors' = [donors EXCEPT ![s] = Idle("gone")]
           /\ budget' = GrantEnds(Recorded(donors[s].used), FALSE)
  <2> DEFINE told == budget.used + (donors[s].used - budget.got)
  <2>1. /\ Follows(donors[s], budget, counted) /\ Covers(budget, counted) /\ ~settling
        /\ donors[s] \in Donor
    BY <1>1, OneSession DEF MoneyInv, CountInv
  <2>2. donors[s].used \in 0..Quota /\ donors[s].used \in Nat
    BY <2>1, DataNumbers DEF Donor
  <2>3. told \in Nat
    BY <1>1, <2>1, <2>2, BudgetNumbers DEF Follows
  <2>4. /\ budget' \in Budget /\ budget'.used = told /\ budget'.limit = budget.limit
        /\ budget'.uncertain = budget.uncertain
        /\ budget'.grant = NoLoan /\ budget'.max = 0 /\ budget'.got = 0
    <3> DEFINE b == Recorded(donors[s].used)
    <3>1. b = [budget EXCEPT !.used = told, !.got = donors[s].used]
      BY DEF Recorded
    <3>2. /\ b \in Budget /\ b.used = told /\ b.limit = budget.limit
          /\ b.uncertain = budget.uncertain
      <4> HIDE DEF told, b
      <4> QED BY <1>1, <2>2, <2>3, <3>1 DEF Budget
    <3>3. budget' = [b EXCEPT !.uncertain = @ + 0, !.grant = NoLoan, !.max = 0, !.got = 0]
      BY <1>4 DEF GrantEnds
    <3> HIDE DEF told, b
    <3>4. b.uncertain + 0 = budget.uncertain /\ budget.uncertain \in Nat
      BY <1>1, <3>2, BudgetNumbers
    <3>5. budget' = [b EXCEPT !.uncertain = budget.uncertain, !.grant = NoLoan, !.max = 0,
                              !.got = 0]
      BY <3>3, <3>4
    <3> QED BY <3>2, <3>4, <3>5, DataNumbers DEF Budget
  <2>5. Covers(budget, counted)'
    BY <1>1, <1>2, <2>1, <2>2, <2>4, BudgetNumbers DEF Covers, Follows
  <2>6. /\ donors' \in [Loan -> Donor] /\ \A t \in Loan : t # s => donors'[t] = donors[t]
        /\ donors'[s].phase = "gone" /\ ~donors'[s].io
    <3>1. Idle("gone") \in Donor
      BY DataNumbers DEF Idle, Donor
    <3> QED BY <1>1, <1>4, <3>1 DEF Idle
  <2>7. \A t \in Loan : ~Registered(t)'
    BY <1>1, <2>6, OneSession DEF Registered
  <2>8. GrantInv' /\ CountInv'
    BY <1>2, <2>1, <2>4, <2>5, <2>6, <2>7 DEF MoneyInv, GrantInv, CountInv
  <2> QED BY <1>1, <1>2, <2>4, <2>6, <2>8 DEF MoneyInv
<1> QED BY <1>3, <1>4 DEF StopAnswered

\* A restart of Core leaves the grant to be settled.
LEMMA CoreForgetsKeeps == ASSUME MoneyInv, CoreForgets PROVE MoneyInv'
<1>1. budget' = budget /\ counted' = counted /\ settling' = FALSE
      /\ donors' = [s \in Loan |-> IF Registered(s) THEN Idle("gone") ELSE donors[s]]
      /\ donors \in [Loan -> Donor]
  BY DEF CoreForgets, budgetVars, MoneyInv
<1>2. Idle("gone") \in Donor
  BY DataNumbers DEF Idle, Donor
<1>3. /\ donors' \in [Loan -> Donor] /\ \A s \in Loan : ~Registered(s)'
      /\ \A s \in Loan : donors'[s].io => donors[s].io /\ donors'[s] = donors[s]
  BY <1>1, <1>2 DEF Registered, Idle
<1> QED BY <1>1, <1>3 DEF MoneyInv, GrantInv, CountInv

\* The other steps of Core only move a session on, or begin or give up settling.
LEMMA CoreStepKeepsMoney == ASSUME MoneyInv, NEW s \in Loan, CoreSteps(s) PROVE MoneyInv'
<1> USE DEF budgetVars, Registered
<1>0. /\ donors \in [Loan -> Donor]
      /\ donors[s].io => donors[s].phase \in {"ready", "draining"}
  BY DEF MoneyInv, GrantInv
<1>1. CASE SendPrepare(s)
  BY <1>0, <1>1, PhaseStep DEF SendPrepare
<1>2. CASE PrepareAnswered(s)
  BY <1>0, <1>2, PhaseStep DEF PrepareAnswered
<1>3. CASE StopSession(s)
  BY <1>0, <1>3, PhaseStep DEF StopSession
<1>4. CASE AskStop(s)
  BY <1>0, <1>4, PhaseStep DEF AskStop
<1>5. CASE BeginIO(s)
  <2>1. /\ donors' \in [Loan -> Donor] /\ \A t \in Loan : t # s => donors'[t] = donors[t]
        /\ donors'[s].phase = "ready" /\ donors'[s].max = donors[s].max
        /\ donors'[s].used = donors[s].used /\ donors'[s].recorded = donors[s].recorded
    BY <1>0, <1>5 DEF BeginIO, Donor
  <2>2. /\ budget' = budget /\ counted' = counted /\ settling' = settling
        /\ donors[s].phase = "ready"
    BY <1>5 DEF BeginIO
  <2>3. \A t \in Loan : Registered(t)' <=> Registered(t)
    BY <2>1, <2>2
  <2> HIDE DEF Registered
  <2>4. GrantInv'
    BY <2>1, <2>2, <2>3 DEF MoneyInv, GrantInv
  <2>5. CountInv'
    BY <2>1, <2>2, <2>3 DEF MoneyInv, CountInv, Follows
  <2> QED BY <2>1, <2>2, <2>4, <2>5 DEF MoneyInv
<1> QED BY <1>1, <1>2, <1>3, <1>4, <1>5, ReserveKeeps, EndIOKeeps, StopAnsweredKeeps
        DEF CoreSteps

LEMMA MoneyStep == ASSUME MoneyInv, [DNext]_dvars PROVE MoneyInv'
<1>1. CASE UNCHANGED dvars
  BY <1>1, MoneyUnchanged DEF dvars, budgetVars, donorVars, moneyVars
<1>2. ASSUME NEW limit \in Limits, NEW reset \in BOOLEAN, Configure(limit, reset)
      PROVE  MoneyInv'
  BY <1>2, ConfigureKeeps
<1>3. CASE Settle
  <2>1. /\ budget' = budget /\ counted' = counted /\ donors' = donors /\ settling' = TRUE
        /\ budget.grant # NoLoan /\ ~Registered(budget.grant)
    BY <1>3 DEF Settle, budgetVars
  <2>2. \A s \in Loan : ~Registered(s) /\ ~Registered(s)'
    BY <2>1 DEF MoneyInv, GrantInv, Registered
  <2>3. GrantInv' /\ CountInv'
    BY <2>1, <2>2 DEF MoneyInv, GrantInv, CountInv
  <2> QED BY <2>1, <2>3 DEF MoneyInv
<1>4. CASE GivesUpSettling
  BY <1>4 DEF GivesUpSettling, budgetVars, MoneyInv, GrantInv, CountInv, Registered
<1>5. CASE CallBegins \/ CallEnds \/ BearerLost \/ AgentRestarts
  BY <1>5, MoneyUnchanged
  DEF CallBegins, CallEnds, BearerLost, AgentRestarts, budgetVars, donorVars, moneyVars
<1>6. CASE OpenFails \/ OpenEnters \/ StreamEnds
  BY <1>6, MoneyUnchanged
  DEF OpenFails, OpenEnters, StreamEnds, StreamBecomes, budgetVars, donorVars, moneyVars
<1>7. ASSUME NEW s \in Loan, AgentSteps(s) PROVE MoneyInv'
  <2>1. UNCHANGED moneyVars
    BY <1>7 DEF AgentSteps, AgentPrepares, AgentStops, Terminates, WatchCloses, WatchCleans,
       WatchFails, WatchInvalidated, Recover, OpenBegins, StreamBecomes, budgetVars,
       donorVars, moneyVars
  <2> QED BY <2>1, MoneyUnchanged
<1> QED BY <1>1, <1>2, <1>3, <1>4, <1>5, <1>6, <1>7, SettledKeeps, CoreForgetsKeeps,
           CoreStepKeepsMoney DEF DNext

-----------------------------------------------------------------------------
(* The bearer.                                                             *)

LEMMA BearerUnchanged == ASSUME BearerInv, UNCHANGED agentVars PROVE BearerInv'
BY DEF agentVars, BearerInv, AgentTypes, StreamInv

LEMMA NoStreamSays ==
  NoStream \in Stream /\ ~NoStream.current /\ NoStream.phase # "open"
BY DEF NoStream, Stream, NoLoan

\* When the modem's session closes its streams, nothing is left that could be
\* entered.
LEMMA StreamsClosed ==
  ASSUME BearerInv, NEW s \in Loan, s \in {item, cleanup} \/ stream.loan = s,
         CloseStreams(s)
  PROVE  stream' \in Stream /\ ~stream'.current /\ stream'.phase # "open"
<1>1. stream \in Stream
  BY DEF BearerInv, AgentTypes
<1>2. CASE stream.loan = s /\ stream.phase = "open"
  BY <1>2, NoStreamSays DEF CloseStreams, StreamClosed
<1>3. CASE stream.loan = s /\ stream.phase # "open"
  <2>1. stream' = [stream EXCEPT !.current = FALSE]
    BY <1>3 DEF CloseStreams, StreamClosed
  <2> QED BY <1>1, <1>3, <2>1 DEF Stream
<1>4. CASE stream.loan # s
  <2>1. stream' = stream
    BY <1>4 DEF CloseStreams
  <2>2. ~stream.current
    BY <1>4 DEF BearerInv, StreamInv, Loan, NoLoan
  <2>3. stream.phase # "open"
    BY <2>2 DEF BearerInv, StreamInv
  <2> QED BY <1>1, <2>1, <2>2, <2>3
<1> QED BY <1>2, <1>3, <1>4

\* Without a stream that may be entered, session and bearer may change.
LEMMA QuietBearer ==
  ASSUME AgentTypes', item' = NoLoan \/ cleanup' = NoLoan,
         ~stream'.current, stream'.phase # "open"
  PROVE  BearerInv'
BY DEF BearerInv, StreamInv

LEMMA NewBearerIs == NewBearer => bearer' \in Bearer /\ usable' \in BOOLEAN
<1>1. 1 \in Bearer /\ 2 \in Bearer
  BY DEF Bearer
<1>2. \E b \in Bearer : b # stream.bearer
  <2>1. CASE stream.bearer = 1
    BY <1>1, <2>1
  <2>2. CASE stream.bearer # 1
    BY <1>1, <2>2
  <2> QED BY <2>1, <2>2
<1>3. (CHOOSE b \in Bearer : b # stream.bearer) \in Bearer
  BY <1>2
<1> QED BY <1>3 DEF NewBearer

LEMMA AgentStepKeepsBearer == ASSUME BearerInv, NEW s \in Loan, AgentSteps(s) PROVE BearerInv'
<1>0. AgentTypes /\ (item = NoLoan \/ cleanup = NoLoan)
  BY DEF BearerInv, StreamInv
<1>1. CASE AgentPrepares(s)
  <2>1. CASE UNCHANGED agentVars
    BY <2>1, BearerUnchanged
  <2>2. CASE ~Occupied /\ NewBearer /\ item' = s /\ UNCHANGED <<cleanup, ended, stream>>
    <3>1. ~stream.current /\ stream.phase # "open" /\ cleanup = NoLoan
      BY <2>2 DEF Occupied, BearerInv, StreamInv
    <3>2. AgentTypes'
      BY <1>0, <2>2, NewBearerIs DEF AgentTypes
    <3> QED BY <2>2, <3>1, <3>2, QuietBearer
  <2> QED BY <1>1, <2>1, <2>2 DEF AgentPrepares, agentVars
<1>2. CASE AgentStops(s)
  <2>1. CASE UNCHANGED agentVars
    BY <2>1, BearerUnchanged
  <2>2. CASE /\ s \in {item, cleanup} /\ ended' = ended \cup {s} /\ CloseStreams(s)
             /\ TornDown \/ StillUp(s)
    <3>1. stream' \in Stream /\ ~stream'.current /\ stream'.phase # "open"
      BY <2>2, StreamsClosed
    <3>2. AgentTypes' /\ item' = NoLoan
      BY <1>0, <2>2, <3>1 DEF AgentTypes, TornDown, StillUp
    <3> QED BY <3>1, <3>2, QuietBearer
  <2> QED BY <1>2, <2>1, <2>2 DEF AgentStops, agentVars
<1>3. CASE Terminates(s)
  BY <1>3 DEF Terminates, BearerInv, AgentTypes, StreamInv
<1>4. CASE WatchCloses(s) \/ WatchInvalidated(s)
  <2>1. /\ stream.loan = s /\ CloseStreams(s)
        /\ UNCHANGED <<item, cleanup, ended, bearer, usable>>
    BY <1>4 DEF WatchCloses, WatchInvalidated
  <2>2. stream' \in Stream /\ ~stream'.current /\ stream'.phase # "open"
    BY <2>1, StreamsClosed
  <2>3. AgentTypes'
    BY <1>0, <2>1, <2>2 DEF AgentTypes
  <2> QED BY <1>0, <2>1, <2>2, <2>3, QuietBearer
<1>5. CASE WatchCleans(s) \/ WatchFails(s)
  <2>1. /\ s \in {item, cleanup} /\ ended' = ended /\ CloseStreams(s)
        /\ TornDown \/ StillUp(s)
    BY <1>5 DEF WatchCleans, WatchFails
  <2>2. stream' \in Stream /\ ~stream'.current /\ stream'.phase # "open"
    BY <2>1, StreamsClosed
  <2>3. AgentTypes' /\ item' = NoLoan
    BY <1>0, <2>1, <2>2 DEF AgentTypes, TornDown, StillUp
  <2> QED BY <2>2, <2>3, QuietBearer
<1>6. CASE Recover(s)
  <2>1. /\ item = s /\ CloseStreams(s) /\ UNCHANGED <<item, cleanup, ended>>
        /\ \/ usable' = FALSE /\ bearer' \in {bearer, 0}
           \/ NewBearer
    BY <1>6 DEF Recover
  <2>2. stream' \in Stream /\ ~stream'.current /\ stream'.phase # "open"
    BY <2>1, StreamsClosed
  <2>3. AgentTypes'
    BY <1>0, <2>1, <2>2, NewBearerIs DEF AgentTypes
  <2> QED BY <1>0, <2>1, <2>2, <2>3, QuietBearer
<1>7. CASE OpenBegins(s)
  <2>1. /\ item = s /\ UNCHANGED <<item, cleanup, ended, bearer, usable>>
        /\ stream' = [loan |-> s, phase |-> "dialing", bearer |-> bearer, current |-> TRUE]
    BY <1>7 DEF OpenBegins, StreamBecomes
  <2>2. /\ stream' \in Stream /\ stream'.loan = s /\ stream'.bearer = bearer
        /\ stream'.phase # "open"
    BY <1>0, <2>1 DEF AgentTypes, Stream
  <2>3. s # NoLoan
    BY DEF Loan, NoLoan
  <2> QED BY <1>0, <2>1, <2>2, <2>3 DEF BearerInv, AgentTypes, StreamInv
<1> QED BY <1>1, <1>2, <1>3, <1>4, <1>5, <1>6, <1>7 DEF AgentSteps

LEMMA BearerStep == ASSUME BearerInv, [DNext]_dvars PROVE BearerInv'
<1>0. AgentTypes /\ (item = NoLoan \/ cleanup = NoLoan)
  BY DEF BearerInv, StreamInv
<1>1. CASE UNCHANGED agentVars
  BY <1>1, BearerUnchanged
<1>2. CASE CallBegins
  <2>1. CASE UNCHANGED agentVars
    BY <2>1, BearerUnchanged
  <2>2. CASE /\ item # NoLoan /\ item' = NoLoan /\ cleanup' = item
             /\ UNCHANGED <<ended, bearer, usable, stream>>
    <3>1. stream.current => stream.loan = item
      BY <2>2 DEF BearerInv, StreamInv
    <3> QED BY <2>2, <3>1 DEF BearerInv, AgentTypes, StreamInv
  <2> QED BY <1>2, <2>1, <2>2 DEF CallBegins, agentVars
<1>3. CASE BearerLost
  BY <1>3 DEF BearerLost, BearerInv, AgentTypes, StreamInv
<1>4. CASE AgentRestarts
  <2>1. AgentTypes'
    BY <1>4, NoStreamSays DEF AgentRestarts, AgentTypes
  <2> QED BY <1>4, <2>1, NoStreamSays, QuietBearer DEF AgentRestarts
<1>5. CASE stream' = NoStream /\ UNCHANGED <<item, cleanup, ended, bearer, usable>>
  <2>1. AgentTypes'
    BY <1>0, <1>5, NoStreamSays DEF AgentTypes
  <2> QED BY <1>0, <1>5, <2>1, NoStreamSays, QuietBearer
<1>6. CASE OpenEnters
  <2>1. CASE MayEnter
    <3>1. /\ stream' = [stream EXCEPT !.phase = "open"] /\ stream.current
          /\ UNCHANGED <<item, cleanup, ended, bearer, usable>>
      BY <1>6, <2>1 DEF OpenEnters, StreamBecomes, MayEnter
    <3>2. /\ stream' \in Stream /\ stream'.loan = stream.loan
          /\ stream'.bearer = stream.bearer /\ stream'.current = stream.current
      BY <1>0, <3>1 DEF AgentTypes, Stream
    <3> QED BY <3>1, <3>2 DEF BearerInv, AgentTypes, StreamInv
  <2> QED BY <1>5, <1>6, <2>1 DEF OpenEnters, StreamBecomes
<1>7. CASE OpenFails \/ StreamEnds
  BY <1>5, <1>7 DEF OpenFails, StreamEnds, StreamBecomes
<1>8. ASSUME NEW s \in Loan, CoreSteps(s) PROVE UNCHANGED agentVars
  BY <1>8 DEF CoreSteps, Reserve, SendPrepare, PrepareAnswered, BeginIO, EndIO, StopSession,
     AskStop, StopAnswered
<1>9. CASE \/ UNCHANGED dvars \/ CallEnds \/ Settle \/ Settled \/ GivesUpSettling
           \/ CoreForgets
           \/ \E limit \in Limits, reset \in BOOLEAN : Configure(limit, reset)
  <2>1. UNCHANGED agentVars
    BY <1>9 DEF dvars, CallEnds, Settle, Settled, GivesUpSettling, CoreForgets, Configure
  <2> QED BY <1>1, <2>1
<1> QED BY <1>1, <1>2, <1>3, <1>4, <1>6, <1>7, <1>8, <1>9, AgentStepKeepsBearer DEF DNext

-----------------------------------------------------------------------------
(* The requests, and the theorems.                                         *)

LEMMA RequestStep == ASSUME RequestTypes, [DNext]_dvars PROVE RequestTypes'
<1> USE DEF RequestTypes
<1>1. ASSUME NEW s \in Loan, CoreSteps(s) PROVE RequestTypes'
  <2>1. CASE Reserve(s)
    BY <2>1 DEF Reserve
  <2>2. CASE SendPrepare(s)
    BY <2>2 DEF SendPrepare
  <2>3. CASE AskStop(s)
    BY <2>3 DEF AskStop
  <2>4. CASE PrepareAnswered(s) \/ BeginIO(s) \/ EndIO(s) \/ StopSession(s) \/ StopAnswered(s)
    <3>1. UNCHANGED <<prepare, halt, process, target, voice>>
      BY <2>4 DEF PrepareAnswered, BeginIO, EndIO, StopSession, StopAnswered
    <3> QED BY <3>1
  <2> QED BY <1>1, <2>1, <2>2, <2>3, <2>4 DEF CoreSteps
<1>2. ASSUME NEW s \in Loan, AgentSteps(s) PROVE RequestTypes'
  BY <1>2 DEF AgentSteps, AgentPrepares, AgentStops, Terminates, WatchCloses, WatchCleans,
     WatchFails, WatchInvalidated, Recover, OpenBegins, StreamBecomes
<1>3. CASE AgentRestarts
  <2>1. process' \in 1..MaxProcess
    BY <1>3, DataNumbers DEF AgentRestarts
  <2> QED BY <1>3, <2>1 DEF AgentRestarts
<1>4. CASE Settle
  BY <1>4 DEF Settle
<1>5. CASE CallBegins \/ CallEnds
  BY <1>5 DEF CallBegins, CallEnds
<1>6. CASE UNCHANGED <<prepare, halt, process, target, voice>>
  BY <1>6
<1>7. CASE \/ UNCHANGED dvars \/ Settled \/ GivesUpSettling \/ CoreForgets \/ BearerLost
           \/ OpenFails \/ OpenEnters \/ StreamEnds
           \/ \E limit \in Limits, reset \in BOOLEAN : Configure(limit, reset)
  BY <1>6, <1>7 DEF dvars, Settled, GivesUpSettling, CoreForgets, BearerLost, OpenFails,
     OpenEnters, StreamEnds, StreamBecomes, Configure
<1> QED BY <1>1, <1>2, <1>3, <1>4, <1>5, <1>7 DEF DNext

\* The inductive invariant of the data sessions.
THEOREM DataInvariant == DSpec => []DataInv
<1>1. DataInv /\ [DNext]_dvars => DataInv'
  BY MoneyStep, BearerStep, RequestStep DEF DataInv
<1> QED BY DataInit, <1>1, PTL DEF DSpec

\* The types of all variables, the budget's numbers among them: what a session
\* counts never passes its quota, and no charge is negative.
THEOREM DataTypeCorrect == DSpec => []DTypeOK
BY DataInvariant, DataInvSays, PTL

\* Everything counted is recorded, charged as uncertain or covered by the grant,
\* within the user's limit, for every quota, limit and flush size and whatever
\* fails or restarts (RecordDonor, recoverDonor, the order of session.stop).
THEOREM DataIsCharged == DSpec => []EveryByteCharged
BY DataInvariant, DataInvSays, PTL

\* No open stream outlives the bearer it was dialled over (the epoch in
\* Manager.open and dataSession.closeStreams).
THEOREM StreamsFollowBearer == DSpec => []StreamsOnCurrentBearer
BY DataInvariant, DataInvSays, PTL

-----------------------------------------------------------------------------
(* The three parts side by side, as they are checked together.             *)

\* Every behaviour of the parts together is one of each part, whose variables
\* keep their types.
THEOREM CoreTypeCorrect == MCSpec => []CoreTypeOK
<1>1. MCSpec => ISpec
  <2>1. MCInit => IInit
    BY DEF MCInit
  <2>2. [MCNext]_<<ivars, mvars, dvars, focus>> => [INext]_ivars
    BY DEF MCNext
  <2> QED BY <2>1, <2>2, PTL DEF MCSpec, ISpec
<1>2. MCSpec => MSpec
  <2>1. MCInit => MInit
    BY DEF MCInit
  <2>2. [MCNext]_<<ivars, mvars, dvars, focus>> => [MNext]_mvars
    BY DEF MCNext
  <2> QED BY <2>1, <2>2, PTL DEF MCSpec, MSpec
<1>3. MCSpec => DSpec
  <2>1. MCInit => DInit
    BY DEF MCInit
  <2>2. [MCNext]_<<ivars, mvars, dvars, focus>> => [DNext]_dvars
    BY DEF MCNext
  <2> QED BY <2>1, <2>2, PTL DEF MCSpec, DSpec
<1>4. ITypeOK /\ MTypeOK /\ DTypeOK => CoreTypeOK
  BY DEF CoreTypeOK
<1> QED
  BY <1>1, <1>2, <1>3, <1>4,
     ClaimTypeCorrect, MediaTypeCorrect, DataTypeCorrect, PTL
=============================================================================
