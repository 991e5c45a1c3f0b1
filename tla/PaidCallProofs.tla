--------------------------- MODULE PaidCallProofs ---------------------------
(***************************************************************************)
(* What holds of PaidCall for any modems, identifiers and durations.       *)
(***************************************************************************)
EXTENDS PaidCall, TLAPS

\* The modem part of the argument: without a second call nothing waits behind
\* a call, and every paid call has its record.
SingleCallInv ==
  ~CallWaiting => \A e \in Equipment : ~waiting[e] /\ (Live(e) => lease[e] # NoLease)

\* The invariant the steps preserve together.
IInv == /\ TypeOK /\ LockHolderInv /\ SingleCallInv
        /\ StartedOncePerLease /\ FreshLeaseHasNoBackoff

\* The fields of a start's identity; no identity is the missing record.
LEMMA InvocationFields ==
  ASSUME NEW inv \in Invocation
  PROVE  /\ inv.lease \in Lease /\ inv.op \in Operation
         /\ inv.target \in Target /\ inv.dir \in Direction
         /\ inv # NoLease
  BY NoLeaseAssumption DEF Invocation

\* At each stage of beginCall the lock holder is a start, with a modem and an
\* identity of its own.
LEMMA StartOpFields ==
  ASSUME TypeOK, busy.stage \in {"preflighted", "armed", "written"}
  PROVE  /\ busy \in StartOp
         /\ busy.modem \in Equipment /\ busy.inv \in Invocation
  BY DEF TypeOK, StartOp, AuxOp, Free, Scan

\* beginHangupAttempt's doubling stays in the natural numbers.
LEMMA NextDelayType ==
  ASSUME NEW d \in Nat
  PROVE  NextDelay(d) \in Nat
  BY DurationAssumption DEF NextDelay

\* A manager opened on an empty store satisfies the invariant.
LEMMA InitIInv == Init => IInv
  BY NoLeaseAssumption, DurationAssumption
  DEF Init, IInv, TypeOK, LockHolderInv, StartedOncePerLease,
      FreshLeaseHasNoBackoff, SingleCallInv, Live, NoAttempt, Free, CallState

-----------------------------------------------------------------------------
(* A start, from its preflight to its end.                                 *)

\* Reading the call status before Store.Begin preserves the invariant.
LEMMA PreflightIInv ==
  ASSUME IInv, NEW e \in Equipment, NEW inv \in Invocation, BeginPreflight(e, inv)
  PROVE  IInv'
<1>1. StartAllowed(e, inv) \in BOOLEAN
  BY DEF StartAllowed, SingleIncoming
<1>2. busy' \in StartOp /\ busy'.stage = "preflighted"
  BY <1>1 DEF BeginPreflight, StartOp
<1> QED
  BY <1>2 DEF IInv, TypeOK, LockHolderInv, SingleCallInv, StartedOncePerLease,
     FreshLeaseHasNoBackoff, BeginPreflight, modemVars, Live

\* So does every later step of beginCall, successful or not.
LEMMA StartStepIInv ==
  ASSUME IInv, StartStep
  PROVE  IInv'
<1> DEFINE e == busy.modem
           inv == busy.inv
<1>0. /\ busy.stage \in {"preflighted", "armed", "written"}
      /\ busy \in StartOp /\ e \in Equipment /\ inv \in Invocation
      /\ inv.lease \in Lease /\ inv.target \in Target /\ inv # NoLease
  <2>1. busy.stage \in {"preflighted", "armed", "written"}
    BY DEF StartStep, BeginNotCreated, BeginArm, BeginNotAllowed, StartRefused,
           StartWrite, StartConfirm, StartUncertain, AnswerChanged
  <2> QED BY <2>1, StartOpFields, InvocationFields DEF IInv
<1>1. CASE BeginNotCreated \/ StartUncertain
  BY <1>1 DEF IInv, TypeOK, LockHolderInv, SingleCallInv, StartedOncePerLease, Free,
     FreshLeaseHasNoBackoff, BeginNotCreated, StartUncertain, modemVars, Live
<1>2. CASE BeginArm
  BY <1>0, <1>2, DurationAssumption, NoLeaseAssumption
  DEF IInv, TypeOK, LockHolderInv, SingleCallInv, StartedOncePerLease, FreshLeaseHasNoBackoff,
      BeginArm, CreateRecord, modemVars, NoAttempt, StartOp, Live
<1>3. CASE BeginNotAllowed
  <2>1. busy' = Free /\ lease[e] = NoLease /\ UNCHANGED <<up, modemVars>>
        /\ attempts' = [attempts EXCEPT ![e] = NoAttempt]
    BY <1>3 DEF BeginNotAllowed
  <2>2. CASE UNCHANGED storeVars
    BY <1>0, <2>1, <2>2
    DEF IInv, TypeOK, LockHolderInv, SingleCallInv, StartedOncePerLease,
        FreshLeaseHasNoBackoff, modemVars, storeVars, NoAttempt, Free, Live
  <2>3. CASE /\ lease'   = [lease EXCEPT ![e] = inv]
             /\ ttl'     = [ttl EXCEPT ![e] = ArmingDuration]
             /\ started' = [started EXCEPT ![e] = 0]
    BY <1>0, <2>1, <2>3, DurationAssumption
    DEF IInv, TypeOK, LockHolderInv, SingleCallInv, StartedOncePerLease,
        FreshLeaseHasNoBackoff, modemVars, NoAttempt, Free, Live
  <2> QED BY <1>3, <2>2, <2>3 DEF BeginNotAllowed
<1>4. CASE StartRefused \/ AnswerChanged
  <2>1. /\ busy' = Free /\ UNCHANGED <<attempts, up, modemVars>>
        /\ DeleteRecord(e) \/ UNCHANGED storeVars
    BY <1>4 DEF StartRefused, AnswerChanged, ClearTarget
  <2>2. ~CallWaiting => ~Live(e)
    BY <1>0, <1>4 DEF IInv, LockHolderInv, SingleCallInv, StartRefused,
       AnswerChanged, Live
  <2>3. TypeOK'
    BY <1>0, <2>1 DEF IInv, TypeOK, DeleteRecord, modemVars, storeVars, Free
  <2>4. (StartedOncePerLease /\ FreshLeaseHasNoBackoff)'
    BY <1>0, <2>1 DEF IInv, TypeOK, StartedOncePerLease,
       FreshLeaseHasNoBackoff, DeleteRecord, modemVars, storeVars
  <2>5. SingleCallInv'
    BY <1>0, <2>1, <2>2 DEF IInv, TypeOK, SingleCallInv, DeleteRecord,
       modemVars, storeVars, Live
  <2> QED BY <2>1, <2>3, <2>4, <2>5 DEF IInv, LockHolderInv, Free
<1>5. CASE StartWrite
  <2>1. /\ busy.stage = "armed" /\ busy' = [busy EXCEPT !.stage = "written"]
        /\ started' = [started EXCEPT ![e] = @ + 1]
        /\ \/ \E c \in CallState : call' = [call EXCEPT ![e] = c]
           \/ UNCHANGED call
        /\ UNCHANGED <<lease, ttl, attempts, up, waiting, target>>
    BY <1>0, <1>5 DEF StartWrite, CallState, IInv, TypeOK
  <2>2. busy' \in StartOp /\ busy'.stage = "written" /\ busy'.modem = e
        /\ busy'.inv = inv
    BY <1>0, <2>1 DEF StartOp
  <2>3. TypeOK'
    BY <1>0, <2>1, <2>2 DEF IInv, TypeOK
  <2>4. LockHolderInv' /\ StartedOncePerLease' /\ FreshLeaseHasNoBackoff'
    BY <1>0, <2>1, <2>2 DEF IInv, TypeOK, LockHolderInv, StartedOncePerLease,
       FreshLeaseHasNoBackoff
  <2>5. SingleCallInv'
    BY <1>0, <2>1 DEF IInv, TypeOK, LockHolderInv, SingleCallInv, Live
  <2> QED BY <2>3, <2>4, <2>5 DEF IInv
<1>6. CASE StartConfirm
  BY <1>0, <1>6, DurationAssumption
  DEF IInv, TypeOK, LockHolderInv, SingleCallInv, StartedOncePerLease, FreshLeaseHasNoBackoff,
      StartConfirm, Renewable, modemVars, Free, Live
<1> QED
  BY <1>1, <1>2, <1>3, <1>4, <1>5, <1>6 DEF StartStep

-----------------------------------------------------------------------------
(* The operations on a call, the callbacks and the watchdog.               *)

\* Renewing a lease extends it and forgets the failed hangups.
LEMMA RenewIInv ==
  ASSUME IInv, NEW e \in Equipment, NEW id \in Lease, NEW t \in Target,
         RenewLease(e, id, t)
  PROVE  IInv'
  BY DurationAssumption
  DEF IInv, TypeOK, LockHolderInv, SingleCallInv, StartedOncePerLease,
      FreshLeaseHasNoBackoff, RenewLease, Renewable, modemVars, NoAttempt,
      Free, Live

\* A verified hangup, whatever it does to the record, under a free lock.
LEMMA HangupIInv ==
  ASSUME IInv, NEW e \in Equipment, NEW t \in Target,
         HangupConfirmed(e, t) \/ HangupUnconfirmed(e, t)
  PROVE  IInv'
<1>1. /\ busy = Free /\ UNCHANGED <<attempts, busy, up, target>>
      /\ \/ ModemIdle(e) /\ DeleteRecord(e)
         \/ ModemUnconfirmed(e) /\ UNCHANGED storeVars
  <2>1. CASE HangupConfirmed(e, t)
    <3>1. DeleteRecord(e) \/ UNCHANGED storeVars
      BY <2>1 DEF HangupConfirmed, ClearTarget
    <3>2. ModemUnconfirmed(e) /\ ModemIdle(e)
      BY <2>1 DEF HangupConfirmed, ModemUnconfirmed
    <3> QED BY <2>1, <3>1, <3>2 DEF HangupConfirmed
  <2>2. CASE HangupUnconfirmed(e, t)
    BY <2>2 DEF HangupUnconfirmed
  <2> QED BY <2>1, <2>2
<1>2. TypeOK'
  <2>1. call' \in [Equipment -> CallState] /\ waiting' \in [Equipment -> BOOLEAN]
    BY <1>1 DEF IInv, TypeOK, ModemIdle, ModemUnconfirmed, CallState
  <2>2. /\ lease' \in [Equipment -> Invocation \cup {NoLease}]
        /\ ttl' \in [Equipment -> Nat] /\ started' \in [Equipment -> Nat]
    BY <1>1 DEF IInv, TypeOK, DeleteRecord, storeVars
  <2> QED BY <1>1, <2>1, <2>2 DEF IInv, TypeOK
<1>3. (LockHolderInv /\ StartedOncePerLease /\ FreshLeaseHasNoBackoff)'
  BY <1>1 DEF IInv, TypeOK, LockHolderInv, StartedOncePerLease,
     FreshLeaseHasNoBackoff, DeleteRecord, storeVars, Free
<1>4. SingleCallInv'
  BY <1>1 DEF IInv, TypeOK, SingleCallInv, DeleteRecord, ModemIdle,
     ModemUnconfirmed, storeVars, Live
<1> QED BY <1>2, <1>3, <1>4 DEF IInv

\* Rejecting a call and beginning or ending a callback under operationMu.
LEMMA CallbackIInv ==
  ASSUME IInv,
         \/ \E e \in Equipment : Reject(e) \/ BeginAuxiliary(e)
         \/ BeginScan \/ EndCallback
  PROVE  IInv'
<1>1. CASE \E e \in Equipment : Reject(e)
  BY <1>1 DEF IInv, TypeOK, LockHolderInv, SingleCallInv, StartedOncePerLease,
     FreshLeaseHasNoBackoff, Reject, storeVars, CallState, Free, Live
<1>2. CASE \E e \in Equipment : BeginAuxiliary(e)
  BY <1>2 DEF IInv, TypeOK, LockHolderInv, SingleCallInv, StartedOncePerLease,
     FreshLeaseHasNoBackoff, BeginAuxiliary, AuxOp, storeVars, modemVars, Live
<1>3. CASE BeginScan
  BY <1>3 DEF IInv, TypeOK, LockHolderInv, SingleCallInv, StartedOncePerLease,
     FreshLeaseHasNoBackoff, BeginScan, Scan, storeVars, modemVars, Live
<1>4. CASE EndCallback
  BY <1>4 DEF IInv, TypeOK, LockHolderInv, SingleCallInv, StartedOncePerLease,
     FreshLeaseHasNoBackoff, EndCallback, Free, storeVars, modemVars, Live
<1> QED BY <1>1, <1>2, <1>3, <1>4

\* One record's turn in the watchdog's sweep, confirmed or deferred.
LEMMA SweepIInv ==
  ASSUME IInv, NEW e \in Equipment, SweepConfirmed(e) \/ SweepDeferred(e)
  PROVE  IInv'
<1>1. CASE SweepConfirmed(e)
  <2>1. TypeOK'
    BY <1>1 DEF IInv, TypeOK, SweepConfirmed, DeleteRecord, ModemIdle,
       NoAttempt, CallState
  <2>2. (LockHolderInv /\ StartedOncePerLease /\ FreshLeaseHasNoBackoff)'
    BY <1>1 DEF IInv, TypeOK, LockHolderInv, StartedOncePerLease,
       FreshLeaseHasNoBackoff, SweepConfirmed, DeleteRecord, Free, NoAttempt
  <2>3. SingleCallInv'
    BY <1>1 DEF IInv, TypeOK, SingleCallInv, SweepConfirmed, DeleteRecord,
       ModemIdle, Live
  <2> QED BY <2>1, <2>2, <2>3 DEF IInv
<1>2. CASE SweepDeferred(e)
  <2>1. /\ busy = Free /\ UNCHANGED <<storeVars, busy, up, target>>
        /\ ModemUnconfirmed(e) \/ UNCHANGED <<call, waiting>>
        /\ ttl[e] = 0 /\ DeferHangup(e)
    BY <1>2 DEF SweepDeferred, HangupDue
  <2>2. NextDelay(attempts[e].delay) \in Nat
    BY NextDelayType DEF IInv, TypeOK
  <2>3. TypeOK'
    BY <2>1, <2>2 DEF IInv, TypeOK, DeferHangup, ModemUnconfirmed, ModemIdle,
       storeVars, CallState
  <2>4. (LockHolderInv /\ StartedOncePerLease /\ FreshLeaseHasNoBackoff)'
    BY <2>1 DEF IInv, TypeOK, LockHolderInv, StartedOncePerLease,
       FreshLeaseHasNoBackoff, DeferHangup, storeVars, Free
  <2>5. SingleCallInv'
    BY <2>1 DEF IInv, TypeOK, SingleCallInv, ModemUnconfirmed, ModemIdle,
       storeVars, Live
  <2> QED BY <2>3, <2>4, <2>5 DEF IInv
<1> QED BY <1>1, <1>2

-----------------------------------------------------------------------------
(* The process, the clock and the outside world.                           *)

\* A crash loses the lock and the attempt table, never a record.
LEMMA ProcessIInv ==
  ASSUME IInv, Crash \/ Restart
  PROVE  IInv'
<1>1. CASE Crash
  BY <1>1 DEF IInv, TypeOK, LockHolderInv, SingleCallInv, StartedOncePerLease,
     FreshLeaseHasNoBackoff, Crash, NoAttempt, Free, storeVars, modemVars, Live
<1>2. CASE Restart
  BY <1>2 DEF IInv, TypeOK, LockHolderInv, SingleCallInv, StartedOncePerLease,
     FreshLeaseHasNoBackoff, Restart, storeVars, modemVars, Live
<1> QED BY <1>1, <1>2

\* The passing of time: a deadline that has not come leaves no back-off behind.
LEMMA TickIInv ==
  ASSUME IInv, Tick
  PROVE  IInv'
<1>1. \A n \in Nat : Less(n) \in Nat /\ (Less(n) > 0 => n > 0)
  BY DEF Less
<1>2. \A e \in Equipment : attempts'[e] = [attempts[e] EXCEPT !.wait = Less(@)]
  BY DEF Tick, Elapse
<1>3. TypeOK'
  BY <1>1, <1>2 DEF IInv, TypeOK, Tick, Elapse, modemVars
<1>4. FreshLeaseHasNoBackoff'
  <2> SUFFICES ASSUME NEW e \in Equipment, lease[e] # NoLease, ttl'[e] > 0
               PROVE  attempts'[e] = NoAttempt
    BY DEF FreshLeaseHasNoBackoff, Tick, Elapse
  <2>1. ttl[e] > 0
    BY <1>1 DEF IInv, TypeOK, Tick, Elapse
  <2> QED
    BY <1>2, <2>1 DEF IInv, FreshLeaseHasNoBackoff, NoAttempt, Less
<1> QED
  BY <1>3, <1>4 DEF IInv, LockHolderInv, SingleCallInv, StartedOncePerLease,
     Tick, Elapse, modemVars, Live

\* None of these touches the Agent, and none makes a modem carry a paid call.
LEMMA EnvironmentIInv ==
  ASSUME IInv, NEW e \in Equipment,
         \/ Ring(e) \/ PeerEnds(e) \/ SecondCall(e)
         \/ \E t \in Target : Replace(e, t)
  PROVE  IInv'
<1>1. UNCHANGED <<lease, ttl, started, attempts, busy, up>>
  BY DEF Ring, PeerEnds, SecondCall, Replace, storeVars
<1>2. /\ \E c \in CallState : call' = [call EXCEPT ![e] = c]
      /\ \E w \in BOOLEAN : waiting' = [waiting EXCEPT ![e] = w]
      /\ target' \in [Equipment -> Target]
  <2>1. call = [call EXCEPT ![e] = call[e]] /\ waiting = [waiting EXCEPT ![e] = waiting[e]]
        /\ call[e] \in CallState /\ waiting[e] \in BOOLEAN
    BY DEF IInv, TypeOK
  <2>2. CASE Ring(e) \/ PeerEnds(e) \/ SecondCall(e)
    BY <2>1, <2>2 DEF IInv, TypeOK, Ring, PeerEnds, SecondCall, CallState
  <2>3. CASE \E t \in Target : Replace(e, t)
    BY <2>1, <2>3 DEF IInv, TypeOK, Replace, ModemUnconfirmed, ModemIdle, CallState
  <2> QED BY <2>2, <2>3
<1>3. \A f \in Equipment : Live(f)' => Live(f)
  <2>1. CASE Ring(e) \/ PeerEnds(e) \/ SecondCall(e)
    BY <2>1 DEF IInv, TypeOK, Ring, PeerEnds, SecondCall, Live
  <2>2. CASE \E t \in Target : Replace(e, t)
    BY <2>2 DEF IInv, TypeOK, Replace, ModemUnconfirmed, ModemIdle, Live
  <2> QED BY <2>1, <2>2
<1>4. ~CallWaiting /\ (\A f \in Equipment : ~waiting[f])
        => \A f \in Equipment : ~waiting'[f]
  <2>1. CASE Ring(e) \/ PeerEnds(e) \/ SecondCall(e)
    BY <2>1 DEF IInv, TypeOK, Ring, PeerEnds, SecondCall
  <2>2. CASE \E t \in Target : Replace(e, t)
    BY <2>2 DEF IInv, TypeOK, Replace, ModemUnconfirmed, ModemIdle
  <2> QED BY <2>1, <2>2
<1>5. TypeOK'
  BY <1>1, <1>2 DEF IInv, TypeOK
<1>6. LockHolderInv'
  BY <1>1, <1>3, StartOpFields DEF IInv, LockHolderInv
<1>7. SingleCallInv'
  BY <1>1, <1>3, <1>4 DEF IInv, SingleCallInv
<1> QED
  BY <1>1, <1>5, <1>6, <1>7 DEF IInv, StartedOncePerLease, FreshLeaseHasNoBackoff

\* A step that changes nothing.
LEMMA StutterIInv ==
  ASSUME IInv, UNCHANGED vars
  PROVE  IInv'
  BY DEF IInv, TypeOK, LockHolderInv, SingleCallInv, StartedOncePerLease,
     FreshLeaseHasNoBackoff, vars, Live

\* Every step preserves the invariant.
LEMMA NextIInv == IInv /\ [Next]_vars => IInv'
  BY PreflightIInv, StartStepIInv, RenewIInv, HangupIInv, CallbackIInv,
     SweepIInv, ProcessIInv, TickIInv, EnvironmentIInv, StutterIInv DEF Next

\* The strengthened invariant holds in every behaviour of the manager, the
\* modems and the carrier.
THEOREM Invariance == Spec => []IInv
<1>1. Init => IInv
  BY InitIInv
<1>2. IInv /\ [Next]_vars => IInv'
  BY NextIInv
<1> QED BY <1>1, <1>2, PTL DEF Spec

-----------------------------------------------------------------------------
(* The results.                                                            *)

\* The types, whatever the constants.
THEOREM TypeCorrect == Spec => []TypeOK
  BY Invariance, PTL DEF IInv

\* What an operation relies on between its steps under operationMu.
THEOREM LockHolderCorrect == Spec => []LockHolderInv
  BY Invariance, PTL DEF IInv

\* Under one record the modem is told to dial or answer at most once.
THEOREM StartedOnce == Spec => []StartedOncePerLease
  BY Invariance, PTL DEF IInv

\* A record in force never waits for the back-off of an earlier one.
THEOREM NoStaleBackoff == Spec => []FreshLeaseHasNoBackoff
  BY Invariance, PTL DEF IInv

\* Without call waiting no paid call is ever without its durable record.
THEOREM PaidCallLeased ==
  ASSUME CallWaiting = FALSE
  PROVE  Spec => []PaidCallAlwaysLeased
<1>1. IInv => PaidCallAlwaysLeased
  BY DEF IInv, SingleCallInv, PaidCallAlwaysLeased
<1> QED BY <1>1, Invariance, PTL

\* Nor does an SMS, SIM or scan operation ever meet a paid call.
THEOREM AuxiliaryExcluded ==
  ASSUME CallWaiting = FALSE
  PROVE  Spec => []NoAuxiliaryOnPaidCall
<1>1. IInv => NoAuxiliaryOnPaidCall
  <2> SUFFICES ASSUME IInv PROVE NoAuxiliaryOnPaidCall
    OBVIOUS
  <2>1. busy.stage = "auxiliary" => busy.modem \in Equipment
    BY DEF IInv, TypeOK, StartOp, AuxOp, Free, Scan
  <2> QED BY <2>1 DEF IInv, SingleCallInv, LockHolderInv, NoAuxiliaryOnPaidCall
<1> QED BY <1>1, Invariance, PTL

-----------------------------------------------------------------------------
(* An expired record stays expired.                                        *)

\* What a step may do to one record's deadline.
NotRevived(e) == lease[e] # NoLease /\ ttl[e] = 0 /\ lease'[e] # NoLease => ttl'[e] = 0

\* A deadline is set only where there was no record, or one that was in force.
LEMMA DeadlineSet ==
  ASSUME TypeOK, NEW f \in Equipment, NEW d, lease[f] = NoLease \/ ttl[f] > 0,
         lease' = lease \/ (lease[f] = NoLease /\ \E x : lease' = [lease EXCEPT ![f] = x]),
         ttl' = [ttl EXCEPT ![f] = d]
  PROVE  \A e \in Equipment : NotRevived(e)
<1> SUFFICES ASSUME NEW e \in Equipment PROVE NotRevived(e)
  OBVIOUS
<1>1. CASE e = f
  BY <1>1 DEF NotRevived, TypeOK
<1>2. CASE e # f
  BY <1>2 DEF NotRevived, TypeOK
<1> QED BY <1>1, <1>2

LEMMA RecordDeleted ==
  ASSUME TypeOK, NEW f \in Equipment, DeleteRecord(f)
  PROVE  \A e \in Equipment : NotRevived(e)
BY DEF DeleteRecord, NotRevived, TypeOK

LEMMA DeadlineKept == ttl' = ttl => \A e \in Equipment : NotRevived(e)
BY DEF NotRevived

LEMMA StepNotRevives ==
  ASSUME IInv, [Next]_vars
  PROVE  \A e \in Equipment : NotRevived(e)
<1>0. TypeOK /\ (busy.stage \in {"preflighted", "armed", "written"} => busy.modem \in Equipment)
  BY StartOpFields DEF IInv
<1>1. CASE \/ \E e \in Equipment, inv \in Invocation : BeginPreflight(e, inv)
           \/ \E e \in Equipment : Reject(e) \/ BeginAuxiliary(e)
           \/ BeginScan \/ EndCallback \/ Crash \/ Restart
           \/ \E e \in Equipment : Ring(e) \/ PeerEnds(e) \/ SecondCall(e) \/ SweepDeferred(e)
           \/ \E e \in Equipment, t \in Target : Replace(e, t) \/ HangupUnconfirmed(e, t)
           \/ UNCHANGED vars
  <2>1. ttl' = ttl
    BY <1>1 DEF BeginPreflight, Reject, BeginAuxiliary, BeginScan, EndCallback, Crash,
       Restart, Ring, PeerEnds, SecondCall, SweepDeferred, Replace, HangupUnconfirmed, vars,
       storeVars
  <2> QED BY <2>1, DeadlineKept
<1>2. CASE Tick
  BY <1>0, <1>2 DEF Tick, Elapse, Less, NotRevived, TypeOK
<1>3. ASSUME NEW e \in Equipment, NEW id \in Lease, NEW t \in Target, RenewLease(e, id, t)
      PROVE  \A f \in Equipment : NotRevived(f)
  BY <1>0, <1>3, DeadlineSet DEF RenewLease, Renewable
<1>4. ASSUME NEW e \in Equipment, \/ SweepConfirmed(e)
                                  \/ \E t \in Target : HangupConfirmed(e, t)
      PROVE  \A f \in Equipment : NotRevived(f)
  <2>1. DeleteRecord(e) \/ ttl' = ttl
    BY <1>4 DEF SweepConfirmed, HangupConfirmed, ClearTarget, storeVars
  <2> QED BY <1>0, <2>1, RecordDeleted, DeadlineKept
<1>5. CASE StartStep
  <2>1. CASE BeginNotCreated \/ StartWrite \/ StartUncertain
    <3>1. ttl' = ttl
      BY <2>1 DEF BeginNotCreated, StartWrite, StartUncertain
    <3> QED BY <3>1, DeadlineKept
  <2>2. CASE StartRefused \/ AnswerChanged
    <3>1. busy.modem \in Equipment /\ (DeleteRecord(busy.modem) \/ ttl' = ttl)
      BY <1>0, <2>2 DEF StartRefused, AnswerChanged, ClearTarget, storeVars
    <3> QED BY <1>0, <3>1, RecordDeleted, DeadlineKept
  <2>3. CASE BeginArm
    <3>1. /\ busy.modem \in Equipment /\ lease[busy.modem] = NoLease
          /\ lease' = [lease EXCEPT ![busy.modem] = busy.inv]
          /\ ttl' = [ttl EXCEPT ![busy.modem] = ArmingDuration]
      BY <1>0, <2>3 DEF BeginArm, CreateRecord
    <3> QED BY <1>0, <3>1, DeadlineSet
  <2>4. CASE BeginNotAllowed
    <3>1. /\ busy.modem \in Equipment /\ lease[busy.modem] = NoLease
          /\ \/ ttl' = ttl
             \/ /\ lease' = [lease EXCEPT ![busy.modem] = busy.inv]
                /\ ttl' = [ttl EXCEPT ![busy.modem] = ArmingDuration]
      BY <1>0, <2>4 DEF BeginNotAllowed, storeVars
    <3> QED BY <1>0, <3>1, DeadlineSet, DeadlineKept
  <2>5. CASE StartConfirm
    <3>1. /\ busy.modem \in Equipment /\ ttl[busy.modem] > 0 /\ lease' = lease
          /\ ttl' = [ttl EXCEPT ![busy.modem] = LeaseDuration]
      BY <1>0, <2>5 DEF StartConfirm, Renewable
    <3> QED BY <1>0, <3>1, DeadlineSet
  <2> QED BY <1>5, <2>1, <2>2, <2>3, <2>4, <2>5 DEF StartStep
<1> QED BY <1>1, <1>2, <1>3, <1>4, <1>5 DEF Next

\* A record whose time has run out is never extended: not by a renewal racing
\* the watchdog, a late confirmation or a repeated start (Store.Renew, Store.Begin).
THEOREM ExpiredStaysExpired == Spec => ExpiredNeverRevived
<1>1. IInv /\ [Next]_vars =>
        [\A e \in Equipment :
           lease[e] # NoLease /\ ttl[e] = 0 /\ lease'[e] # NoLease => ttl'[e] = 0]_vars
  BY StepNotRevives DEF NotRevived
<1> QED BY <1>1, Invariance, PTL DEF Spec, ExpiredNeverRevived

-----------------------------------------------------------------------------
(* The refinement: the manager and its store implement the billing hold.   *)

Held(e) == lease[e] # NoLease

\* A step that touches one modem, arms it only as it is, lets it be billed only
\* under a record and clears the record only of an idle modem, is a step of
\* the hold or none.
LEMMA HoldStep ==
  ASSUME NEW e \in Equipment,
         \A f \in Equipment : f # e => Held(f)' = Held(f) /\ Live(f)' = Live(f),
         ~Held(e) /\ Held(e)' => Live(e)' = Live(e),
         ~Live(e) /\ Live(e)' => Held(e) /\ Held(e)',
         Held(e) /\ ~Held(e)' => ~Live(e)'
  PROVE  [Hold!HNext]_(Hold!hvars)
<1> DEFINE held   == {f \in Equipment : lease[f] # NoLease}
           billed == {f \in Equipment : Live(f)}
<1>1. CASE Held(e)' = Held(e) /\ Live(e)' = Live(e)
  <2>1. held' = held /\ billed' = billed
    BY <1>1 DEF Held
  <2> QED BY <2>1 DEF Hold!hvars
<1>2. CASE ~Held(e) /\ Held(e)'
  <2>1. e \notin held /\ held' = held \cup {e} /\ billed' = billed
    BY <1>2 DEF Held
  <2> QED BY <2>1 DEF Hold!HNext, Hold!Hold
<1>3. CASE Held(e) /\ Held(e)' /\ ~Live(e) /\ Live(e)'
  <2>1. e \in held /\ billed' = billed \cup {e} /\ held' = held
    BY <1>3 DEF Held
  <2> QED BY <2>1 DEF Hold!HNext, Hold!StartBilling
<1>4. CASE Held(e) /\ ~Held(e)'
  <2>1. e \in held /\ held' = held \ {e} /\ billed' = billed \ {e}
    BY <1>4 DEF Held
  <2> QED BY <2>1 DEF Hold!HNext, Hold!Release
<1>5. CASE Held(e)' = Held(e) /\ Live(e) /\ ~Live(e)'
  <2>1. e \in billed /\ billed' = billed \ {e} /\ held' = held
    BY <1>5 DEF Held
  <2> QED BY <2>1 DEF Hold!HNext, Hold!StopBilling
<1> QED BY <1>1, <1>2, <1>3, <1>4, <1>5 DEF Live, Held

\* A step that leaves records and calls alone.
LEMMA HoldStutter ==
  ASSUME UNCHANGED <<lease, call>>
  PROVE  [Hold!HNext]_(Hold!hvars)
  BY DEF Hold!hvars, Live

\* The steps of a start.
LEMMA StartStepHolds ==
  ASSUME CallWaiting = FALSE, IInv, StartStep
  PROVE  [Hold!HNext]_(Hold!hvars)
<1> DEFINE e == busy.modem
<1>0. /\ busy.stage \in {"preflighted", "armed", "written"}
      /\ e \in Equipment /\ busy.inv \in Invocation /\ busy.inv # NoLease
  <2>1. busy.stage \in {"preflighted", "armed", "written"}
    BY DEF StartStep, BeginNotCreated, BeginArm, BeginNotAllowed, StartRefused,
           StartWrite, StartConfirm, StartUncertain, AnswerChanged
  <2> QED BY <2>1, StartOpFields, InvocationFields DEF IInv
<1>1. CASE BeginNotCreated \/ StartConfirm \/ StartUncertain
  BY <1>1, HoldStutter DEF BeginNotCreated, StartConfirm, StartUncertain, modemVars
<1>2. CASE BeginArm \/ BeginNotAllowed
  <2>1. UNCHANGED call /\ (lease' = [lease EXCEPT ![e] = busy.inv] \/ UNCHANGED lease)
    BY <1>2 DEF BeginArm, BeginNotAllowed, CreateRecord, modemVars, storeVars
  <2> QED BY <1>0, <2>1, HoldStep DEF Held, Live, IInv, TypeOK
<1>3. CASE StartRefused \/ AnswerChanged
  <2>1. UNCHANGED call /\ (lease' = [lease EXCEPT ![e] = NoLease] \/ UNCHANGED lease)
    BY <1>3 DEF StartRefused, AnswerChanged, ClearTarget, DeleteRecord,
       modemVars, storeVars
  <2>2. ~Live(e)
    BY <1>0, <1>3 DEF IInv, LockHolderInv, SingleCallInv, StartRefused,
       AnswerChanged, Live
  <2> QED BY <1>0, <2>1, <2>2, HoldStep DEF Held, Live, IInv, TypeOK
<1>4. CASE StartWrite
  <2>1. /\ UNCHANGED lease
        /\ \/ \E c \in CallState : call' = [call EXCEPT ![e] = c]
           \/ UNCHANGED call
    BY <1>0, <1>4 DEF StartWrite, CallState, IInv, TypeOK
  <2>2. Held(e)
    BY <1>0, <1>4 DEF IInv, LockHolderInv, StartWrite, Held
  <2> QED BY <1>0, <2>1, <2>2, HoldStep DEF Held, Live, IInv, TypeOK
<1> QED BY <1>1, <1>2, <1>3, <1>4 DEF StartStep

\* A hangup of one modem, by Core or the watchdog, with or without a record
\* cleared.
LEMMA HangupHolds ==
  ASSUME IInv, NEW e \in Equipment,
         \/ ModemIdle(e) /\ DeleteRecord(e)
         \/ (ModemUnconfirmed(e) \/ UNCHANGED call) /\ UNCHANGED lease
  PROVE  [Hold!HNext]_(Hold!hvars)
<1>1. \/ call' = [call EXCEPT ![e] = "idle"] /\ lease' = [lease EXCEPT ![e] = NoLease]
      \/ (call' = [call EXCEPT ![e] = "idle"] \/ UNCHANGED call) /\ UNCHANGED lease
  BY DEF ModemIdle, ModemUnconfirmed, DeleteRecord
<1> QED BY <1>1, HoldStep DEF Held, Live, IInv, TypeOK

\* The carrier's steps.
LEMMA CarrierHolds ==
  ASSUME IInv, NEW e \in Equipment, Ring(e) \/ PeerEnds(e) \/ Reject(e)
  PROVE  [Hold!HNext]_(Hold!hvars)
<1>1. UNCHANGED lease /\ \E c \in {"idle", "ringing"} : call' = [call EXCEPT ![e] = c]
  BY DEF Ring, PeerEnds, Reject, storeVars
<1> QED BY <1>1, HoldStep DEF Held, Live, IInv, TypeOK

\* Every step of the manager, the modems and the carrier.
LEMMA NextHolds ==
  ASSUME CallWaiting = FALSE, IInv, [Next]_vars
  PROVE  [Hold!HNext]_(Hold!hvars)
<1>1. CASE \/ \E e \in Equipment, inv \in Invocation : BeginPreflight(e, inv)
           \/ \E e \in Equipment, id \in Lease, t \in Target : RenewLease(e, id, t)
           \/ \E e \in Equipment : BeginAuxiliary(e)
           \/ BeginScan \/ EndCallback \/ Crash \/ Restart \/ Tick
           \/ \E e \in Equipment : SecondCall(e)
           \/ UNCHANGED vars
  <2>1. UNCHANGED <<lease, call>>
    BY <1>1 DEF BeginPreflight, RenewLease, BeginAuxiliary, BeginScan, EndCallback,
       Crash, Restart, Tick, Elapse, SecondCall, vars, storeVars, modemVars
  <2> QED BY <2>1, HoldStutter
<1>2. CASE StartStep
  BY <1>2, StartStepHolds
<1>3. ASSUME NEW e \in Equipment, NEW t \in Target,
             HangupConfirmed(e, t) \/ HangupUnconfirmed(e, t)
      PROVE  [Hold!HNext]_(Hold!hvars)
  <2>1. \/ ModemIdle(e) /\ DeleteRecord(e)
        \/ (ModemUnconfirmed(e) \/ UNCHANGED call) /\ UNCHANGED lease
    BY <1>3 DEF HangupConfirmed, HangupUnconfirmed, ClearTarget, storeVars,
       ModemUnconfirmed
  <2> QED BY <2>1, HangupHolds
<1>4. ASSUME NEW e \in Equipment, SweepConfirmed(e) \/ SweepDeferred(e)
      PROVE  [Hold!HNext]_(Hold!hvars)
  <2>1. \/ ModemIdle(e) /\ DeleteRecord(e)
        \/ (ModemUnconfirmed(e) \/ UNCHANGED call) /\ UNCHANGED lease
    BY <1>4 DEF SweepConfirmed, SweepDeferred, storeVars
  <2> QED BY <2>1, HangupHolds
<1>5. ASSUME NEW e \in Equipment, NEW t \in Target, Replace(e, t)
      PROVE  [Hold!HNext]_(Hold!hvars)
  <2>1. ModemUnconfirmed(e) /\ UNCHANGED lease
    BY <1>5 DEF Replace, storeVars
  <2> QED BY <2>1, HangupHolds
<1>6. ASSUME NEW e \in Equipment, Ring(e) \/ PeerEnds(e) \/ Reject(e)
      PROVE  [Hold!HNext]_(Hold!hvars)
  BY <1>6, CarrierHolds
<1> QED BY <1>1, <1>2, <1>3, <1>4, <1>5, <1>6 DEF Next

\* Without call waiting, the manager with its store keeps the billing hold:
\* billing starts only under a durable record, and the record is given up only
\* together with the end of the billing.
THEOREM HoldImplemented ==
  ASSUME CallWaiting = FALSE
  PROVE  Spec => ImplementsHold
<1>1. Init => Hold!HInit
  BY DEF Init, Hold!HInit, Live
<1>2. IInv /\ [Next]_vars => [Hold!HNext]_(Hold!hvars)
  BY NextHolds
<1> QED
  BY <1>1, <1>2, Invariance, PTL DEF Spec, ImplementsHold, Hold!HSpec
=============================================================================
