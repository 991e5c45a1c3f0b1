------------------------------ MODULE PaidCall ------------------------------
(***************************************************************************)
(* The Agent's paid-call manager and its durable lease store               *)
(* (go-runtime/internal/agentcall) together with the modems it drives      *)
(* (internal/agentat/call.go, behind agentmodem.Operator).                 *)
(*                                                                         *)
(* Manager.operationMu admits one operation at a time; `busy' is the       *)
(* operation holding it.  An operation that starts a call is split at the  *)
(* points where a crash, the carrier or the clock can come between two of  *)
(* its effects: status read, durable arm, ATD/ATA, confirmation.  Every    *)
(* other operation is one action.                                          *)
(*                                                                         *)
(* Time is what is left of each deadline: a lease with ttl 0 is one whose  *)
(* ExpiresAt is not after now.  AttachmentID and CardID are compared       *)
(* together everywhere in the code and are one `target' here.              *)
(***************************************************************************)
EXTENDS Naturals

CONSTANTS
  Equipment,                    \* modems, by equipment identity
  Lease, Operation,             \* lease and operation identifiers Core may send
  Target,                       \* (attachment, card) pairs a modem may present
  NoLease,                      \* "no record in the store"
  CallWaiting,                  \* may the carrier offer a second call?
  ArmingDuration, LeaseDuration, HangupRetryBase, HangupRetryMaximum

ASSUME DurationAssumption ==
  /\ ArmingDuration \in Nat \ {0} /\ LeaseDuration \in Nat \ {0}
  /\ HangupRetryBase \in Nat /\ HangupRetryMaximum \in Nat
  /\ HangupRetryBase <= HangupRetryMaximum
ASSUME CallWaitingAssumption == CallWaiting \in BOOLEAN

Direction == {"out", "in"}

\* The identity part of a lease Record; sameInvocation compares all of it.
Invocation == [lease : Lease, op : Operation, target : Target, dir : Direction]

ASSUME NoLeaseAssumption == NoLease \notin Invocation

VARIABLES
  lease,        \* durable store: the record of each modem, or NoLease
  ttl,          \* time left until the record's ExpiresAt
  attempts,     \* in memory: back-off of the watchdog's hangups per modem
  busy,         \* the operation that holds operationMu
  up,           \* is the Agent process running?
  started,      \* start commands written under the modem's current record
  call,         \* the modem's voice call
  waiting,      \* a second, waiting call on the modem
  target        \* what the modem presents now

storeVars == <<lease, ttl, started>>
modemVars == <<call, waiting, target>>
vars      == <<lease, ttl, attempts, busy, up, started, call, waiting, target>>

Free     == [stage |-> "free"]
StartOp  == [stage : {"preflighted", "armed", "written"}, modem : Equipment,
             inv : Invocation, allowed : BOOLEAN]
AuxOp    == [stage : {"auxiliary"}, modem : Equipment]
Scan     == [stage |-> "scan"]

CallState == {"idle", "ringing", "dialed", "answered"}
NoAttempt == [delay |-> 0, wait |-> 0]

\* A call this gateway placed or answered, hence one somebody pays for.
Live(e) == call[e] \in {"dialed", "answered"}

\* selectCallState over a single ringing record (exactIncoming).
SingleIncoming(e) == call[e] = "ringing" /\ ~waiting[e]

Init ==
  /\ lease    = [e \in Equipment |-> NoLease]
  /\ ttl      = [e \in Equipment |-> 0]
  /\ attempts = [e \in Equipment |-> NoAttempt]
  /\ busy     = Free
  /\ up       = TRUE
  /\ started  = [e \in Equipment |-> 0]
  /\ call     = [e \in Equipment |-> "idle"]
  /\ waiting  = [e \in Equipment |-> FALSE]
  /\ target \in [Equipment -> Target]

-----------------------------------------------------------------------------
(* The store.  A bolt transaction commits or fails as a whole.             *)

\* Store.Begin finding no record, followed by resetAttempts.
CreateRecord(e, inv) ==
  /\ lease'    = [lease EXCEPT ![e] = inv]
  /\ ttl'      = [ttl EXCEPT ![e] = ArmingDuration]
  /\ started'  = [started EXCEPT ![e] = 0]
  /\ attempts' = [attempts EXCEPT ![e] = NoAttempt]

\* Mutant: the deadline is not checked.
MutantRenewable(e, id, t) ==
  lease[e] # NoLease /\ lease[e].target = t /\ lease[e].lease = id

\* Store.Renew when identity and deadline allow it.
Renewable(e, id, t) ==
  /\ lease[e] # NoLease
  /\ lease[e].target = t /\ lease[e].lease = id
  /\ ttl[e] > 0

\* Store.ClearTarget: nothing to do without a record, refused for a record of
\* another target, and left alone when the transaction fails.
Clearable(e, t) == lease[e] # NoLease /\ lease[e].target = t

DeleteRecord(e) ==
  /\ lease'   = [lease EXCEPT ![e] = NoLease]
  /\ ttl'     = [ttl EXCEPT ![e] = 0]
  /\ started' = [started EXCEPT ![e] = 0]

ClearTarget(e, t) ==
  \/ Clearable(e, t) /\ DeleteRecord(e)
  \/ UNCHANGED storeVars

-----------------------------------------------------------------------------
(* Dial and answer: beginCall.                                             *)

\* The preflight verdict beginCall forms from the modem's call status.
StartAllowed(e, inv) ==
  IF inv.dir = "out" THEN call[e] = "idle" ELSE SingleIncoming(e)

BeginPreflight(e, inv) ==
  /\ up /\ busy = Free
  /\ inv.target = target[e]
  /\ busy' = [stage |-> "preflighted", modem |-> e, inv |-> inv,
              allowed |-> StartAllowed(e, inv)]
  /\ UNCHANGED <<lease, ttl, attempts, up, started, modemVars>>

\* Mutant: a repeated start goes on to the modem instead of being answered
\* from the record.
MutantBeginNotCreated ==
  /\ busy.stage = "preflighted"
  /\ busy' = IF lease[busy.modem] = busy.inv THEN [busy EXCEPT !.stage = "armed"]
                                             ELSE Free
  /\ UNCHANGED <<lease, ttl, attempts, up, started, modemVars>>

\* Begin found a record: the same invocation is answered from it, any other
\* one is a conflict; or the transaction failed.  The modem is not touched.
BeginNotCreated ==
  /\ busy.stage = "preflighted"
  /\ busy' = Free
  /\ UNCHANGED <<lease, ttl, attempts, up, started, modemVars>>

BeginArm ==
  /\ busy.stage = "preflighted" /\ busy.allowed
  /\ lease[busy.modem] = NoLease
  /\ CreateRecord(busy.modem, busy.inv)
  /\ busy' = [busy EXCEPT !.stage = "armed"]
  /\ UNCHANGED <<up, modemVars>>

\* Armed although the modem is not in the state the start needs: the record
\* is created and cleared again, and stays when clearing it fails.
BeginNotAllowed ==
  /\ busy.stage = "preflighted" /\ ~busy.allowed
  /\ LET e == busy.modem IN
       /\ lease[e] = NoLease
       /\ attempts' = [attempts EXCEPT ![e] = NoAttempt]
       /\ \/ UNCHANGED storeVars
          \/ /\ lease'   = [lease EXCEPT ![e] = busy.inv]
             /\ ttl'     = [ttl EXCEPT ![e] = ArmingDuration]
             /\ started' = [started EXCEPT ![e] = 0]
  /\ busy' = Free
  /\ UNCHANGED <<up, modemVars>>

\* ErrOperationTargetReplaced, ErrOperationUnavailable or, for an answer, a
\* fresh inventory without exactly the expected ringing call.
StartRefused ==
  /\ busy.stage = "armed"
  /\ ClearTarget(busy.modem, busy.inv.target)
  /\ busy' = Free
  /\ UNCHANGED <<attempts, up, modemVars>>

\* ATD or ATA goes out.  The modem may or may not act on it.
StartWrite ==
  /\ busy.stage = "armed"
  /\ LET e == busy.modem
         inv == busy.inv IN
       /\ target[e] = inv.target
       /\ \/ /\ inv.dir = "out"
             /\ call' = [call EXCEPT ![e] = IF @ = "idle" THEN "dialed" ELSE @]
          \/ /\ inv.dir = "in" /\ SingleIncoming(e)
             /\ call' = [call EXCEPT ![e] = "answered"]
          \/ /\ inv.dir = "out" \/ SingleIncoming(e)
             /\ UNCHANGED call
       /\ started' = [started EXCEPT ![e] = @ + 1]
  /\ busy' = [busy EXCEPT !.stage = "written"]
  /\ UNCHANGED <<lease, ttl, attempts, up, waiting, target>>

\* The operator reported success; the arming record becomes a 10 s lease
\* unless the arming time has run out meanwhile.
StartConfirm ==
  /\ busy.stage = "written"
  /\ LET e == busy.modem
         inv == busy.inv IN
       /\ inv.dir = "in" => call[e] = "answered" /\ ~waiting[e]
       /\ Renewable(e, inv.lease, inv.target)
       /\ ttl' = [ttl EXCEPT ![e] = LeaseDuration]
  /\ busy' = Free
  /\ UNCHANGED <<lease, attempts, up, started, modemVars>>

\* Mutant: any error releases the record.
MutantStartUncertain ==
  /\ busy.stage = "written"
  /\ ClearTarget(busy.modem, busy.inv.target)
  /\ busy' = Free
  /\ UNCHANGED <<attempts, up, modemVars>>

\* Any other error: the command may have been acted on, the record stays.
StartUncertain ==
  /\ busy.stage = "written"
  /\ busy' = Free
  /\ UNCHANGED <<lease, ttl, attempts, up, started, modemVars>>

\* After ATA the inventory is empty or no longer the single expected call:
\* AnswerIncoming returns ErrIncomingCallChanged and beginCall clears.
AnswerChanged ==
  /\ busy.stage = "written"
  /\ LET e == busy.modem IN
       /\ busy.inv.dir = "in"
       /\ \/ call[e] = "idle"
          \/ call[e] = "answered" /\ waiting[e]
       /\ ClearTarget(e, busy.inv.target)
  /\ busy' = Free
  /\ UNCHANGED <<attempts, up, modemVars>>

-----------------------------------------------------------------------------
(* The operations on a call in progress.                                   *)

RenewLease(e, id, t) ==
  /\ up /\ busy = Free
  /\ Renewable(e, id, t)
  /\ ttl'      = [ttl EXCEPT ![e] = LeaseDuration]
  /\ attempts' = [attempts EXCEPT ![e] = NoAttempt]
  /\ UNCHANGED <<lease, busy, up, started, modemVars>>

\* verifiedHangup saw two idle samples, before or after AT+CHUP / ATH.
ModemIdle(e) ==
  /\ call'    = [call EXCEPT ![e] = "idle"]
  /\ waiting' = [waiting EXCEPT ![e] = FALSE]

\* It did not: nothing happened, or the hangup took effect unseen.
ModemUnconfirmed(e) ==
  \/ ModemIdle(e)
  \/ UNCHANGED <<call, waiting>>

HangupConfirmed(e, t) ==
  /\ up /\ busy = Free
  /\ t = target[e]
  /\ ModemIdle(e)
  /\ ClearTarget(e, t)
  /\ UNCHANGED <<attempts, busy, up, target>>

HangupUnconfirmed(e, t) ==
  /\ up /\ busy = Free
  /\ t = target[e]
  /\ ModemUnconfirmed(e)
  /\ UNCHANGED <<storeVars, attempts, busy, up, target>>

\* Rejecting needs an Agent without any lease and the exact ringing call.
Reject(e) ==
  /\ up /\ busy = Free
  /\ \A f \in Equipment : lease[f] = NoLease
  /\ SingleIncoming(e)
  /\ call' = [call EXCEPT ![e] = "idle"]
  /\ UNCHANGED <<storeVars, attempts, busy, up, waiting, target>>

-----------------------------------------------------------------------------
(* SMS, SIM and scan operations run under the same lock.                   *)

\* Mutant: the lease is not looked up.
MutantBeginAuxiliary(e) ==
  /\ up /\ busy = Free
  /\ busy' = [stage |-> "auxiliary", modem |-> e]
  /\ UNCHANGED <<storeVars, attempts, up, modemVars>>

BeginAuxiliary(e) ==
  /\ up /\ busy = Free
  /\ lease[e] = NoLease
  /\ busy' = [stage |-> "auxiliary", modem |-> e]
  /\ UNCHANGED <<storeVars, attempts, up, modemVars>>

\* Mutant: one modem without a record is enough.
MutantBeginScan ==
  /\ up /\ busy = Free
  /\ \E e \in Equipment : lease[e] = NoLease
  /\ busy' = Scan
  /\ UNCHANGED <<storeVars, attempts, up, modemVars>>

BeginScan ==
  /\ up /\ busy = Free
  /\ \A e \in Equipment : lease[e] = NoLease
  /\ busy' = Scan
  /\ UNCHANGED <<storeVars, attempts, up, modemVars>>

EndCallback ==
  /\ busy.stage \in {"auxiliary", "scan"}
  /\ busy' = Free
  /\ UNCHANGED <<storeVars, attempts, up, modemVars>>

-----------------------------------------------------------------------------
(* The watchdog: one iteration of the loop in sweep.                       *)

\* Mutant: an expired record is hung up once.
MutantHangupDue(e) == lease[e] # NoLease /\ ttl[e] = 0 /\ attempts[e].delay = 0

HangupDue(e) == lease[e] # NoLease /\ ttl[e] = 0 /\ attempts[e].wait = 0

\* beginHangupAttempt doubles the delay up to its maximum.
NextDelay(d) ==
  IF d = 0 THEN HangupRetryBase
  ELSE IF 2 * d > HangupRetryMaximum THEN HangupRetryMaximum ELSE 2 * d

DeferHangup(e) ==
  LET d == NextDelay(attempts[e].delay)
  IN  attempts' = [attempts EXCEPT ![e] = [delay |-> d, wait |-> d]]

\* Mutant: one hangup that returned without an error clears the record.
MutantSweepConfirmed(e) ==
  /\ up /\ busy = Free
  /\ HangupDue(e)
  /\ target[e] = lease[e].target
  /\ ModemUnconfirmed(e)
  /\ DeleteRecord(e)
  /\ attempts' = [attempts EXCEPT ![e] = NoAttempt]
  /\ UNCHANGED <<busy, up, target>>

SweepConfirmed(e) ==
  /\ up /\ busy = Free
  /\ HangupDue(e)
  /\ target[e] = lease[e].target
  /\ ModemIdle(e)
  /\ DeleteRecord(e)
  /\ attempts' = [attempts EXCEPT ![e] = NoAttempt]
  /\ UNCHANGED <<busy, up, target>>

\* Replaced target, no terminal confirmation, or the record was not cleared.
SweepDeferred(e) ==
  /\ up /\ busy = Free
  /\ HangupDue(e)
  /\ IF target[e] = lease[e].target THEN ModemUnconfirmed(e)
                                    ELSE UNCHANGED <<call, waiting>>
  /\ DeferHangup(e)
  /\ UNCHANGED <<storeVars, busy, up, target>>

-----------------------------------------------------------------------------
(* The process, the clock and the outside world.                           *)

\* The store survives; the lock and the attempt table do not.
Crash ==
  /\ up
  /\ up' = FALSE
  /\ busy' = Free
  /\ attempts' = [e \in Equipment |-> NoAttempt]
  /\ UNCHANGED <<storeVars, modemVars>>

Restart ==
  /\ ~up
  /\ up' = TRUE
  /\ UNCHANGED <<storeVars, attempts, busy, modemVars>>

\* Mutant: the time left falls below zero.
MutantLess(n) == n - 1

Less(n) == IF n = 0 THEN 0 ELSE n - 1

\* What the passing of one unit of time does to the deadlines.
Elapse ==
  /\ ttl'      = [e \in Equipment |-> Less(ttl[e])]
  /\ attempts' = [e \in Equipment |-> [attempts[e] EXCEPT !.wait = Less(@)]]
  /\ UNCHANGED <<lease, busy, up, started, modemVars>>

Tick ==
  /\ \E e \in Equipment : ttl[e] > 0 \/ attempts[e].wait > 0
  /\ Elapse

Ring(e) ==
  /\ call[e] = "idle"
  /\ call' = [call EXCEPT ![e] = "ringing"]
  /\ UNCHANGED <<storeVars, attempts, busy, up, waiting, target>>

\* The peer ends the call or gives up; a waiting call then rings.
PeerEnds(e) ==
  /\ call[e] # "idle"
  /\ call'    = [call EXCEPT ![e] = IF waiting[e] THEN "ringing" ELSE "idle"]
  /\ waiting' = [waiting EXCEPT ![e] = FALSE]
  /\ UNCHANGED <<storeVars, attempts, busy, up, target>>

SecondCall(e) ==
  /\ CallWaiting
  /\ call[e] # "idle" /\ ~waiting[e]
  /\ waiting' = [waiting EXCEPT ![e] = TRUE]
  /\ UNCHANGED <<storeVars, attempts, busy, up, call, target>>

\* Re-enumeration or a card swap: the call may or may not survive it.
Replace(e, t) ==
  /\ t # target[e]
  /\ target' = [target EXCEPT ![e] = t]
  /\ ModemUnconfirmed(e)
  /\ UNCHANGED <<storeVars, attempts, busy, up>>

-----------------------------------------------------------------------------
StartStep == \/ BeginNotCreated \/ BeginArm \/ BeginNotAllowed
             \/ StartRefused \/ StartWrite
             \/ StartConfirm \/ StartUncertain \/ AnswerChanged

Next ==
  \/ \E e \in Equipment, inv \in Invocation : BeginPreflight(e, inv)
  \/ StartStep
  \/ \E e \in Equipment, id \in Lease, t \in Target : RenewLease(e, id, t)
  \/ \E e \in Equipment, t \in Target : HangupConfirmed(e, t)
                                        \/ HangupUnconfirmed(e, t)
  \/ \E e \in Equipment : Reject(e) \/ BeginAuxiliary(e)
  \/ BeginScan \/ EndCallback
  \/ \E e \in Equipment : SweepConfirmed(e) \/ SweepDeferred(e)
  \/ Crash \/ Restart \/ Tick
  \/ \E e \in Equipment : Ring(e) \/ PeerEnds(e) \/ SecondCall(e)
  \/ \E e \in Equipment, t \in Target : Replace(e, t)

Spec == Init /\ [][Next]_vars

-----------------------------------------------------------------------------
(* Fairness.  The process is restarted, the clock runs, and an operation   *)
(* that holds the lock ends: every AT exchange and callback has a timeout. *)
(* The 500 ms watchdog gets the (starvation-free) lock again and again,    *)
(* and a modem asked to hang up again and again confirms it at last.       *)

Fairness ==
  /\ WF_vars(Restart) /\ WF_vars(Tick) /\ WF_vars(EndCallback)
  /\ WF_vars(StartStep)
  /\ \A e \in Equipment : SF_vars(SweepConfirmed(e))

FairSpec == Spec /\ Fairness

-----------------------------------------------------------------------------
(* Properties.                                                             *)

\* The values every variable ranges over.
TypeOK ==
  /\ lease    \in [Equipment -> Invocation \cup {NoLease}]
  /\ ttl      \in [Equipment -> Nat]
  /\ attempts \in [Equipment -> [delay : Nat, wait : Nat]]
  /\ busy     \in {Free, Scan} \cup StartOp \cup AuxOp
  /\ up       \in BOOLEAN
  /\ started  \in [Equipment -> Nat]
  /\ call     \in [Equipment -> CallState]
  /\ waiting  \in [Equipment -> BOOLEAN]
  /\ target   \in [Equipment -> Target]

\* "The durable record is committed before ATD/ATA and is removed only after
\* fresh CLCC samples confirm that the physical modem is idle": no crash,
\* error path, hangup or watchdog pass leaves a paid call without a record.
PaidCallAlwaysLeased == \A e \in Equipment : Live(e) => lease[e] # NoLease

\* No SMS or SIM operation runs on a modem carrying a paid call, and no scan
\* runs while any modem does, even if the call's start never reported back.
NoAuxiliaryOnPaidCall ==
  /\ busy.stage = "auxiliary" => ~Live(busy.modem)
  /\ busy.stage = "scan" => \A e \in Equipment : ~Live(e)

\* What the holder of the lock relies on between two of its steps, while the
\* carrier, the clock and replacements of the modem go on: an armed start owns
\* its modem's record, nothing was written under it yet and no paid call is
\* up; a callback's modems have no record.
LockHolderInv ==
  /\ busy.stage \in {"armed", "written"} => lease[busy.modem] = busy.inv
  /\ busy.stage = "armed" => started[busy.modem] = 0
  /\ busy.stage = "armed" /\ ~CallWaiting => ~Live(busy.modem)
  /\ busy.stage = "auxiliary" => lease[busy.modem] = NoLease
  /\ busy.stage = "scan" => \A e \in Equipment : lease[e] = NoLease

\* However often a start is repeated, under one record the modem is told to
\* dial or answer at most once.
StartedOncePerLease == \A e \in Equipment : started[e] <= 1

\* The back-off of an earlier call's hangups never delays the first hangup
\* of a new one: a record in force has no attempt pending.
FreshLeaseHasNoBackoff ==
  \A e \in Equipment :
    lease[e] # NoLease /\ ttl[e] > 0 => attempts[e] = NoAttempt

\* A record whose time has run out is never extended, by a renewal racing
\* the watchdog, a late start confirmation or a repeated start.
ExpiredNeverRevived ==
  [][\A e \in Equipment :
       lease[e] # NoLease /\ ttl[e] = 0 /\ lease'[e] # NoLease
         => ttl'[e] = 0]_vars

\* The watchdog ends every expired call and clears its record, across crashes
\* and unconfirmed hangups, as long as the modem presents the same target.
ExpiredLeaseEnds ==
  \A e \in Equipment :
    (lease[e] # NoLease /\ ttl[e] = 0)
      ~> (lease[e] = NoLease \/ target[e] # lease[e].target)

\* The manager and its store implement the billing hold.
Hold == INSTANCE BillingHold WITH
          held   <- {e \in Equipment : lease[e] # NoLease},
          billed <- {e \in Equipment : Live(e)}

\* Every step of the Agent, the modems and the carrier is a step of the hold.
ImplementsHold == Hold!HSpec
=============================================================================
