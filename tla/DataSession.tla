---------------------------- MODULE DataSession ----------------------------
(***************************************************************************)
(* Borrowing a modem's mobile data: Core's sessions                        *)
(* (go-runtime/internal/cellulardata), the durable budget of the card they *)
(* charge (internal/egressconfig/donor_budget.go) and the Agent's manager  *)
(* that opens and closes the bearer (internal/agentdata), beside the calls *)
(* of the same modem.                                                      *)
(*                                                                         *)
(* One card in one modem.  Bytes are counted in units, and the budget is   *)
(* told after every Flush of them.  Of the streams, one at a time is       *)
(* followed.  Left out are renewal, which only moves an expiry that may    *)
(* come at any time here, the persistent connection that may share a       *)
(* bearer, and the shutdown of Core and Agent beside their restart.        *)
(* Core's admission lock is held while a lost session is settled.  What    *)
(* holds the Agent's operationMu is one action.                            *)
(***************************************************************************)
EXTENDS Naturals

CONSTANTS MaxLoan,              \* bound of the data sessions Core makes
          Quota,                \* what a session asks for
          Flush,                \* what is counted before the budget is told
          Limits,               \* limits the user may set
          MaxProcess            \* bound of the Agent's processes

ASSUME DataAssumption ==
  /\ MaxLoan \in Nat /\ {Quota, Flush, MaxProcess} \subseteq Nat \ {0}
  /\ Limits \subseteq Nat \ {0}

Loan   == 1..MaxLoan            \* numbered as they are made
NoLoan == 0
Bearer == 1..2                  \* of those up and stale, two can be told apart

VARIABLES
  budget,       \* the card's DonorBudget: durable
  donors,       \* Core's sessions
  settling,     \* recoverDonor is asking for the stop of a lost session
  counted,      \* by sessions since the last reset, a history variable
  prepare,      \* the prepare request of each session
  halt,         \* its stop request
  process,      \* the Agent's process
  target,       \* the process a session was made for
  item,         \* Manager.items of the modem
  cleanup,      \* Manager.cleanup of the modem
  ended,        \* sessions whose context is canceled
  bearer,       \* the bearer that is up, or 0
  usable,       \* it is neither invalidated nor being recovered
  stream,       \* a stream through the modem
  voice         \* a call is up on the modem

budgetVars == <<budget, counted>>
donorVars  == <<donors, settling>>
agentVars  == <<item, cleanup, ended, bearer, usable, stream>>
dvars == <<budgetVars, donorVars, prepare, halt, process, target, agentVars, voice>>

Donor == [phase : {"none", "reserved", "preparing", "deferred", "ready",
                   "draining", "stopping", "closing", "gone"},
          max : 0..Quota, used : 0..Quota, recorded : 0..Quota, io : BOOLEAN]

Idle(phase) == [phase |-> phase, max |-> 0, used |-> 0, recorded |-> 0, io |-> FALSE]

Stream   == [loan : Loan \cup {NoLoan}, phase : {"none", "dialing", "open"},
             bearer : Bearer \cup {0}, current : BOOLEAN]
NoStream == [loan |-> NoLoan, phase |-> "none", bearer |-> 0, current |-> FALSE]

DInit ==
  /\ budget \in [limit : Limits, used : {0}, uncertain : {0}, grant : {NoLoan},
                 max : {0}, got : {0}]
  /\ donors = [s \in Loan |-> Idle("none")]
  /\ settling = FALSE /\ counted = 0
  /\ prepare = [s \in Loan |-> "none"] /\ halt = [s \in Loan |-> "none"]
  /\ process = 1 /\ target = [s \in Loan |-> 1]
  /\ item = NoLoan /\ cleanup = NoLoan /\ ended = {}
  /\ bearer = 0 /\ usable = FALSE
  /\ stream = NoStream
  /\ voice = FALSE

-----------------------------------------------------------------------------
(* The budget.  A transaction commits or fails as a whole.                 *)

Committed == budget.used + budget.uncertain
Reserved  == budget.max - budget.got

\* Store.RecordDonor
Recorded(used) == [budget EXCEPT !.used = @ + (used - budget.got), !.got = used]

\* Mutant: what an interrupted session may have used is given back.
MutantGrantEnds(b, interrupted) == [b EXCEPT !.grant = NoLoan, !.max = 0, !.got = 0]

\* The end of a grant: what an interrupted session may have used is charged.
GrantEnds(b, interrupted) ==
  [b EXCEPT !.uncertain = @ + (IF interrupted THEN b.max - b.got ELSE 0),
            !.grant = NoLoan, !.max = 0, !.got = 0]

\* Store.ConfigureDonor; a reset starts the count anew.
Configure(limit, reset) ==
  /\ ~settling
  /\ IF reset
     THEN /\ budget.grant = NoLoan
          /\ budget' = [budget EXCEPT !.limit = limit, !.used = 0, !.uncertain = 0]
          /\ counted' = 0
     ELSE /\ limit >= Committed + Reserved
          /\ budget' = [budget EXCEPT !.limit = limit] /\ UNCHANGED counted
  /\ UNCHANGED <<donorVars, prepare, halt, process, target, agentVars, voice>>

-----------------------------------------------------------------------------
(* Core.                                                                   *)

Registered(s) == donors[s].phase \notin {"none", "gone"}

DonorGoesTo(s, phase) == donors' = [donors EXCEPT ![s].phase = phase]

\* Service.recoverDonor: a grant whose session this process does not know is
\* settled first, once its Agent has confirmed the stop.
Settle ==
  /\ ~settling /\ budget.grant # NoLoan /\ ~Registered(budget.grant)
  /\ target[budget.grant] = process
  /\ settling' = TRUE /\ halt' = [halt EXCEPT ![budget.grant] = "sent"]
  /\ UNCHANGED <<budgetVars, donors, prepare, process, target, agentVars, voice>>

Settled ==
  /\ settling /\ settling' = FALSE
  /\ IF halt[budget.grant] = "ok" THEN budget' = GrantEnds(budget, TRUE)
     ELSE UNCHANGED budget
  /\ UNCHANGED <<counted, donors, prepare, halt, process, target, agentVars, voice>>

GivesUpSettling ==
  /\ settling /\ settling' = FALSE
  /\ UNCHANGED <<budgetVars, donors, prepare, halt, process, target, agentVars, voice>>

\* Service.create: the grant is stored, the session published.
Reserve(s) ==
  /\ ~settling /\ \A t \in Loan : donors[t].phase = "none" <=> t >= s
  /\ \A t \in Loan : ~Registered(t)
  /\ budget.grant = NoLoan /\ budget.limit > Committed
  /\ LET remaining == budget.limit - Committed
         max == IF Quota > remaining THEN remaining ELSE Quota
     IN
     /\ budget' = [budget EXCEPT !.grant = s, !.got = 0, !.max = max]
     /\ donors' = [donors EXCEPT ![s] = [Idle("reserved") EXCEPT !.max = max]]
  /\ target' = [target EXCEPT ![s] = process]
  /\ UNCHANGED <<settling, counted, prepare, halt, process, agentVars, voice>>

\* session.prepareLocked, for the first time or after a call was in the way.
SendPrepare(s) ==
  /\ donors[s].phase \in {"reserved", "deferred"} /\ DonorGoesTo(s, "preparing")
  /\ prepare' = [prepare EXCEPT ![s] = "sent"]
  /\ UNCHANGED <<budgetVars, settling, halt, process, target, agentVars, voice>>

PrepareAnswered(s) ==
  /\ donors[s].phase = "preparing"
  /\ \/ prepare[s] = "ok"      /\ DonorGoesTo(s, "ready")
     \/ prepare[s] = "waiting" /\ DonorGoesTo(s, "deferred")
     \/ DonorGoesTo(s, "draining")          \* it failed, or no answer came
  /\ UNCHANGED <<budgetVars, settling, prepare, halt, process, target, agentVars, voice>>

\* quotaConn.beginIO: a read or write is noted before its bytes are counted.
BeginIO(s) ==
  /\ donors[s].phase = "ready" /\ ~donors[s].io
  /\ donors' = [donors EXCEPT ![s].io = TRUE]
  /\ UNCHANGED <<budgetVars, settling, prepare, halt, process, target, agentVars, voice>>

\* quotaConn.recordUsageLocked: what exceeds the quota is not counted and ends the
\* session, as does a budget that cannot be written.
EndIO(s) ==
  /\ donors[s].io
  /\ LET donor == donors[s]
         full  == donor.used = donor.max
         used  == IF full THEN donor.used ELSE donor.used + 1
         due   == used - donor.recorded >= Flush
         Counts(recorded, ends) ==
           donors' = [donors EXCEPT ![s] =
             [donor EXCEPT !.io = FALSE, !.used = used, !.recorded = recorded,
                           !.phase = IF @ = "ready" /\ ends THEN "draining" ELSE @]]
     IN
     /\ \/ due /\ budget.grant = s /\ budget' = Recorded(used) /\ Counts(used, full)
        \/ UNCHANGED budget /\ Counts(donor.recorded, full \/ due)
     /\ counted' = counted + (used - donor.used)
  /\ UNCHANGED <<settling, prepare, halt, process, target, agentVars, voice>>

\* session.stop, asked for or because it expired: no bytes from here on.
StopSession(s) ==
  /\ donors[s].phase \in {"deferred", "ready", "closing"} /\ DonorGoesTo(s, "draining")
  /\ UNCHANGED <<budgetVars, settling, prepare, halt, process, target, agentVars, voice>>

\* With no read or write under way the Agent is asked, unless it is another process.
AskStop(s) ==
  /\ donors[s].phase = "draining" /\ ~donors[s].io
  /\ IF target[s] = process
     THEN DonorGoesTo(s, "stopping") /\ halt' = [halt EXCEPT ![s] = "sent"]
     ELSE DonorGoesTo(s, "closing") /\ UNCHANGED halt
  /\ UNCHANGED <<budgetVars, settling, prepare, process, target, agentVars, voice>>

\* The grant ends with what was counted, or the session stays as it is.
StopAnswered(s) ==
  /\ donors[s].phase = "stopping"
  /\ \/ /\ halt[s] = "ok" /\ donors' = [donors EXCEPT ![s] = Idle("gone")]
        /\ budget' = GrantEnds(Recorded(donors[s].used), FALSE)
     \/ DonorGoesTo(s, "closing") /\ UNCHANGED budget
  /\ UNCHANGED <<counted, settling, prepare, halt, process, target, agentVars, voice>>

CoreForgets ==
  /\ donors' = [s \in Loan |-> IF Registered(s) THEN Idle("gone") ELSE donors[s]]
  /\ settling' = FALSE
  /\ UNCHANGED <<budgetVars, prepare, halt, process, target, agentVars, voice>>

-----------------------------------------------------------------------------
(* The Agent.                                                              *)

Alive(s) == s \notin ended

Occupied == item # NoLoan \/ cleanup # NoLoan

\* dataSession.closeStreams: open streams are closed, what is being dialled
\* belongs to an earlier epoch.
StreamClosed == IF stream.phase = "open" THEN NoStream ELSE [stream EXCEPT !.current = FALSE]
CloseStreams(s) == stream' = IF stream.loan = s THEN StreamClosed ELSE stream

\* The backend's PrepareData; what it made may be invalid again at once.
NewBearer ==
  /\ bearer' = CHOOSE b \in Bearer : b # stream.bearer
  /\ usable' \in BOOLEAN

\* Manager.prepare: a call in progress is answered as such and tried again later.
AgentPrepares(s) ==
  /\ prepare[s] = "sent" /\ target[s] = process
  /\ \/ /\ voice /\ prepare' = [prepare EXCEPT ![s] = "waiting"]
        /\ UNCHANGED <<item, bearer, usable>>
     \/ /\ ~voice /\ ~Occupied /\ NewBearer /\ item' = s
        /\ prepare' = [prepare EXCEPT ![s] = IF usable' THEN "ok" ELSE "failed"]
     \/ /\ ~voice /\ prepare' = [prepare EXCEPT ![s] = "failed"]
        /\ UNCHANGED <<item, bearer, usable>>
  /\ UNCHANGED <<budgetVars, donorVars, halt, process, target, cleanup, ended, stream,
                 voice>>

\* Manager.closeSession; StopData needs the modem free of calls and may fail.
TornDown ==
  ~voice /\ bearer' = 0 /\ usable' = FALSE /\ item' = NoLoan /\ cleanup' = NoLoan
StillUp(s) ==
  UNCHANGED bearer /\ usable' = FALSE /\ item' = NoLoan /\ cleanup' = s

\* Manager.stop
AgentStops(s) ==
  /\ halt[s] = "sent" /\ target[s] = process
  /\ \/ /\ ~Occupied /\ halt' = [halt EXCEPT ![s] = "ok"]
        /\ UNCHANGED <<item, cleanup, ended, bearer, usable, stream>>
     \/ /\ Occupied /\ s \notin {item, cleanup} /\ halt' = [halt EXCEPT ![s] = "failed"]
        /\ UNCHANGED <<item, cleanup, ended, bearer, usable, stream>>
     \/ /\ s \in {item, cleanup} /\ ended' = ended \cup {s} /\ CloseStreams(s)
        /\ \/ TornDown /\ halt' = [halt EXCEPT ![s] = "ok"]
           \/ StillUp(s)  /\ halt' = [halt EXCEPT ![s] = "failed"]
  /\ UNCHANGED <<budgetVars, donorVars, prepare, process, target, voice>>

\* It expires, or has used what it may.
Terminates(s) ==
  /\ item = s /\ Alive(s) /\ ended' = ended \cup {s}
  /\ UNCHANGED <<budgetVars, donorVars, prepare, halt, process, target, item, cleanup,
                 bearer, usable, stream, voice>>

\* Manager.watch closes the streams before it waits for operationMu ...
WatchCloses(s) ==
  /\ ~Alive(s) /\ stream.loan = s /\ stream.current /\ CloseStreams(s)
  /\ UNCHANGED <<budgetVars, donorVars, prepare, halt, process, target, item, cleanup,
                 ended, bearer, usable, voice>>

\* ... and tries to tear the session down until it succeeds.
WatchCleans(s) ==
  /\ ~Alive(s) /\ s \in {item, cleanup} /\ CloseStreams(s) /\ TornDown
  /\ UNCHANGED <<budgetVars, donorVars, prepare, halt, process, target, ended, voice>>
WatchFails(s) ==
  /\ ~Alive(s) /\ item = s /\ CloseStreams(s) /\ StillUp(s)
  /\ UNCHANGED <<budgetVars, donorVars, prepare, halt, process, target, ended, voice>>

\* Mutant: a call is admitted whatever is left of a data session.
MutantMayCall == TRUE

MayCall == cleanup = NoLoan

\* Manager.DoCall: a session that ended is in cleanup before a call is admitted.
CallBegins ==
  /\ ~voice
  /\ IF item # NoLoan /\ ~Alive(item)
     THEN item' = NoLoan /\ cleanup' = item /\ UNCHANGED voice
     ELSE MayCall /\ voice' = TRUE /\ UNCHANGED <<item, cleanup>>
  /\ UNCHANGED <<budgetVars, donorVars, prepare, halt, process, target, ended, bearer,
                 usable, stream>>

CallEnds ==
  /\ voice /\ voice' = FALSE
  /\ UNCHANGED <<budgetVars, donorVars, prepare, halt, process, target, agentVars>>

-----------------------------------------------------------------------------
(* The bearer is lost and made anew.                                       *)

BearerLost ==
  /\ usable /\ usable' = FALSE
  /\ UNCHANGED <<budgetVars, donorVars, prepare, halt, process, target, item, cleanup,
                 ended, bearer, stream, voice>>

\* Manager.waitForExpiry, told of it
WatchInvalidated(s) ==
  /\ item = s /\ Alive(s) /\ ~usable
  /\ stream.loan = s /\ stream.current /\ CloseStreams(s)
  /\ UNCHANGED <<budgetVars, donorVars, prepare, halt, process, target, item, cleanup,
                 ended, bearer, usable, voice>>

\* Manager.recoverConnection, every 30 s when the bearer or its health is lost
Recover(s) ==
  /\ item = s /\ Alive(s) /\ ~voice /\ CloseStreams(s)
  /\ \/ usable' = FALSE /\ bearer' \in {bearer, 0}      \* StopData or PrepareData failed
     \/ NewBearer
  /\ UNCHANGED <<budgetVars, donorVars, prepare, halt, process, target, item, cleanup,
                 ended, voice>>

-----------------------------------------------------------------------------
(* A stream: dialled without operationMu, entered with it.                 *)

StreamBecomes(st) ==
  /\ stream' = st
  /\ UNCHANGED <<budgetVars, donorVars, prepare, halt, process, target, item, cleanup,
                 ended, bearer, usable, voice>>

\* Manager.open, admitted.  A dial that comes to use a later bearer fails as well:
\* it is of an earlier epoch too.
OpenBegins(s) ==
  /\ prepare[s] = "ok" /\ item = s /\ Alive(s) /\ usable /\ stream = NoStream
  /\ StreamBecomes([loan |-> s, phase |-> "dialing", bearer |-> bearer, current |-> TRUE])

OpenFails == stream.phase = "dialing" /\ StreamBecomes(NoStream)

\* Mutant: the epoch is not looked at again.
MutantMayEnter == Alive(stream.loan) /\ usable

MayEnter == Alive(stream.loan) /\ stream.current /\ usable

OpenEnters ==
  /\ stream.phase = "dialing"
  /\ StreamBecomes(IF MayEnter THEN [stream EXCEPT !.phase = "open"] ELSE NoStream)

StreamEnds == stream.phase = "open" /\ StreamBecomes(NoStream)

-----------------------------------------------------------------------------
\* A new process of the Agent knows no session; requests to the old one fail.
AgentRestarts ==
  /\ process < MaxProcess /\ process' = process + 1
  /\ prepare' = [s \in Loan |-> IF prepare[s] = "sent" THEN "failed" ELSE prepare[s]]
  /\ halt' = [s \in Loan |-> IF halt[s] = "sent" THEN "failed" ELSE halt[s]]
  /\ item' = NoLoan /\ cleanup' = NoLoan /\ ended' = {}
  /\ bearer' = 0 /\ usable' = FALSE
  /\ stream' = NoStream
  /\ UNCHANGED <<budgetVars, donorVars, target, voice>>

CoreSteps(s) ==
  \/ Reserve(s) \/ SendPrepare(s) \/ PrepareAnswered(s) \/ BeginIO(s) \/ EndIO(s)
  \/ StopSession(s) \/ AskStop(s) \/ StopAnswered(s)

AgentSteps(s) ==
  \/ AgentPrepares(s) \/ AgentStops(s) \/ Terminates(s)
  \/ WatchCloses(s) \/ WatchCleans(s) \/ WatchFails(s) \/ WatchInvalidated(s) \/ Recover(s)
  \/ OpenBegins(s)

DNext ==
  \/ \E limit \in Limits, reset \in BOOLEAN : Configure(limit, reset)
  \/ Settle \/ Settled \/ GivesUpSettling \/ CoreForgets
  \/ CallBegins \/ CallEnds \/ BearerLost \/ AgentRestarts
  \/ OpenFails \/ OpenEnters \/ StreamEnds
  \/ \E s \in Loan : CoreSteps(s) \/ AgentSteps(s)

DSpec == DInit /\ [][DNext]_dvars

\* Calls end, and a teardown that is free to be tried is in the end done: the
\* watcher repeats it, and a modem that never again lets its data connection go
\* is not considered.
DFairness ==
  /\ WF_dvars(CallEnds)
  /\ \A s \in Loan : WF_dvars(WatchCleans(s))

DFairSpec == DSpec /\ DFairness

-----------------------------------------------------------------------------
\* Type of the variables.
DTypeOK ==
  /\ budget \in [limit : Limits, used : Nat, uncertain : Nat, grant : Loan \cup {NoLoan},
                 max : 0..Quota, got : 0..Quota]
  /\ donors \in [Loan -> Donor] /\ settling \in BOOLEAN /\ counted \in Nat
  /\ prepare \in [Loan -> {"none", "sent", "ok", "waiting", "failed"}]
  /\ halt \in [Loan -> {"none", "sent", "ok", "failed"}]
  /\ process \in 1..MaxProcess /\ target \in [Loan -> 1..MaxProcess]
  /\ {item, cleanup} \subseteq Loan \cup {NoLoan} /\ ended \subseteq Loan
  /\ bearer \in Bearer \cup {0} /\ {usable, voice} \subseteq BOOLEAN
  /\ stream \in Stream

\* Everything counted since the budget was last reset is recorded, charged as
\* uncertain or still covered by the grant, and all of that within the limit the
\* user set: whatever a stop, a failed write or a restart of either side leaves
\* behind (RecordDonor, recoverDonor, the order of session.stop).
EveryByteCharged ==
  /\ budget.used <= counted /\ counted <= Committed + Reserved
  /\ Committed + Reserved <= budget.limit

\* A stream that is open runs over the bearer that is up: none outlives the
\* bearer it was dialled over, however late its dial returned (the epoch in
\* Manager.open and dataSession.closeStreams).
StreamsOnCurrentBearer ==
  stream.phase = "open" => stream.bearer = bearer

\* A data session that has ended lets the modem go in the end, so that calls are
\* admitted again (Manager.watch beside Manager.DoCall).
CallsAdmittedAgain == \A s \in Loan : s \in ended ~> s \notin {item, cleanup}
=============================================================================
