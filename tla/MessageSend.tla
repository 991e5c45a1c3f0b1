---------------------------- MODULE MessageSend ----------------------------
(***************************************************************************)
(* Sending cellular messages: Core's handler and its record of operations  *)
(* (cellularmessages), the Agent's record (agentsms), the modem's port     *)
(* (agentat, cellulario), the history of messages (providermessages) and   *)
(* the permanent deletion of the line (linedeletion).                      *)
(*                                                                         *)
(* A message is paid for and must not be sent twice, whatever is repeated, *)
(* lost or restarted.  Both records are written before the first part of   *)
(* the message is handed to the modem and removed only when no part was:   *)
(* the whole protocol rests on what "no part was" means.  The line of the  *)
(* messages may be deleted for good only after they reached its history.   *)
(***************************************************************************)
EXTENDS Naturals, FiniteSets

CONSTANTS Message,              \* the operations of the line; an identity each
          SmsRequest,           \* HTTP requests at a time
          SmsAgent,             \* the Agents the card may be at
          Nothing,              \* no record, operation or Agent
          Parts,                \* parts of a message
          PrivatePort           \* whether the modem is behind a helper process

State3 == {"prepared", "uncertain", "submitted"}

Record3 == [state : State3, by : SmsAgent]

ASSUME SmsAssumption ==
  /\ Parts \in Nat \ {0} /\ PrivatePort \in BOOLEAN
  /\ Nothing \notin State3 \cup Record3

VARIABLES
  home,        \* the Agent whose modem holds the card
  record,      \* Core's record of an operation
  journal,     \* [SmsAgent -> [Message -> state of the Agent's record]]
  ask,         \* what a request at Core is about to do
  exec,        \* its execution at an Agent, or the answer under way
  shown,       \* [Message -> parts in the history of messages]
  known,       \* [Message -> parts whose event identity is known]
  listing,     \* the line in the catalog
  stage,       \* of the line's deletion
  keep,        \* the deletion retains the history
  barrier,     \* no operation of the line begins any more
  closed,      \* the history of the line takes no more events
  sent         \* how often the modem was handed a part

recordVars   == <<record, journal>>
requestVars  == <<ask, exec>>
historyStore == <<shown, known, closed>>
deletionVars == <<listing, stage, keep, barrier>>
svars == <<home, recordVars, requestVars, historyStore, deletionVars, sent>>

Part   == 1..Parts
Outcome == {"submitted", "unsent", "uncertain"}
Stage  == {"none", "prepared", "messages", "operations"}

Waiting == [phase |-> "idle", op |-> Nothing, reconcile |-> FALSE, target |-> Nothing, part |-> 0]
NoExec  == [step |-> "none", op |-> Nothing, agent |-> Nothing, part |-> 0]

\* What a request at Core is about to do, and how far its execution is.
AskState  == [phase : {"idle", "lookup", "begin", "asking", "persist"},
              op : Message \cup {Nothing}, reconcile : BOOLEAN,
              target : SmsAgent \cup {Nothing}, part : 0..Parts]
ExecState == [step : {"none", "begin", "receipt", "sending", "handed", "sent",
                      "failed", "doubtful"} \cup Outcome,
              op : Message \cup {Nothing}, agent : SmsAgent \cup {Nothing},
              part : 0..Parts]

STypeOK ==
  /\ home \in SmsAgent \cup {Nothing}
  /\ record \in [Message -> Record3 \cup {Nothing}]
  /\ journal \in [SmsAgent -> [Message -> State3 \cup {Nothing}]]
  /\ ask \in [SmsRequest -> AskState] /\ exec \in [SmsRequest -> ExecState]
  /\ shown \in [Message -> SUBSET Part] /\ known \in [Message -> SUBSET Part]
  /\ listing \in {"enabled", "bin", "gone"} /\ stage \in Stage
  /\ keep \in BOOLEAN /\ barrier \in BOOLEAN /\ closed \in BOOLEAN
  /\ sent \in [Message -> [Part -> 0..2]]

SInit ==
  /\ home = Nothing
  /\ record = [o \in Message |-> Nothing]
  /\ journal = [a \in SmsAgent |-> [o \in Message |-> Nothing]]
  /\ ask = [q \in SmsRequest |-> Waiting] /\ exec = [q \in SmsRequest |-> NoExec]
  /\ shown = [o \in Message |-> {}] /\ known = [o \in Message |-> {}]
  /\ listing = "enabled" /\ stage = "none"
  /\ keep = FALSE /\ barrier = FALSE /\ closed = FALSE
  /\ sent = [o \in Message |-> [p \in Part |-> 0]]

------------------------------------------------------------------------------
(* Core: the handler of POST .../messages, one transaction at a time.       *)

Finish(q) == ask' = [ask EXCEPT ![q] = Waiting]

\* The first execution or the reconciliation of an operation goes to Agent a.
Call(q, a, what) ==
  /\ ask' = [ask EXCEPT ![q].phase = "asking"]
  /\ exec' = [exec EXCEPT ![q] = [step |-> what, op |-> ask[q].op, agent |-> a, part |-> 0]]

\* A repeated request is answered from the record; nothing is sent.
Replay(q, prior) ==
  IF prior.state = "submitted" THEN ask' = [ask EXCEPT ![q].phase = "persist", ![q].part = 0]
                               ELSE Finish(q)

Marked(o, state) ==
  IF record[o] = Nothing THEN record ELSE [record EXCEPT ![o].state = state]

\* The line is looked up; a disabled one only answers what became of a message.
Post(q, o, reconcile) ==
  /\ ask[q] = Waiting /\ exec[q] = NoExec
  /\ listing = "enabled" \/ (listing = "bin" /\ reconcile)
  /\ ask' = [ask EXCEPT ![q] = [Waiting EXCEPT !.phase = "lookup", !.op = o, !.reconcile = reconcile]]
  /\ UNCHANGED <<home, recordVars, exec, historyStore, deletionVars, sent>>

Lookup(q) ==
  LET prior == record[ask[q].op]
      receipt == ask[q].reconcile /\ prior.state # "submitted"
  IN
  /\ ask[q].phase = "lookup"
  /\ \/ /\ prior # Nothing /\ receipt
        /\ Call(q, prior.by, "receipt")
     \/ /\ prior # Nothing /\ ~receipt
        /\ Replay(q, prior) /\ UNCHANGED exec
     \/ /\ prior = Nothing /\ (ask[q].reconcile \/ home = Nothing)
        /\ Finish(q) /\ UNCHANGED exec
     \/ /\ prior = Nothing /\ ~ask[q].reconcile /\ home # Nothing
        /\ ask' = [ask EXCEPT ![q].phase = "begin", ![q].target = home]
        /\ UNCHANGED exec
  /\ UNCHANGED <<home, recordVars, historyStore, deletionVars, sent>>

\* Another request may have begun the operation since the look-up, for the
\* same target or for another one: then it is replayed or a conflict.
Begin(q) ==
  LET o == ask[q].op
      fresh == ~barrier /\ record[o] = Nothing
  IN
  /\ ask[q].phase = "begin"
  /\ \/ /\ fresh
        /\ record' = [record EXCEPT ![o] = [state |-> "prepared", by |-> ask[q].target]]
        /\ Call(q, ask[q].target, "begin")
     \/ /\ ~barrier /\ record[o] # Nothing /\ record[o].by = ask[q].target
        /\ Replay(q, record[o]) /\ UNCHANGED <<record, exec>>
     \/ ~fresh /\ Finish(q) /\ UNCHANGED <<record, exec>>
  /\ UNCHANGED <<home, journal, historyStore, deletionVars, sent>>

\* The Agent's answer.  Only a send, not a receipt, takes a failure down.
Answered(q) ==
  LET o == ask[q].op
      answer == exec[q].step
  IN
  /\ ask[q].phase = "asking" /\ answer \in Outcome
  /\ exec' = [exec EXCEPT ![q] = NoExec]
  /\ \/ /\ answer = "submitted" /\ record[o] # Nothing
        /\ record' = Marked(o, "submitted")
        /\ ask' = [ask EXCEPT ![q].phase = "persist", ![q].part = 0]
     \/ /\ answer = "submitted" /\ record[o] = Nothing
        /\ Finish(q) /\ UNCHANGED record
     \/ /\ answer # "submitted"
        /\ record' = CASE ask[q].reconcile   -> record
                       [] answer = "unsent"  -> [record EXCEPT ![o] = Nothing]
                       [] OTHER              -> Marked(o, "uncertain")
        /\ Finish(q)
  /\ UNCHANGED <<home, journal, historyStore, deletionVars, sent>>

\* The Agent is offline or another process, the request times out or the
\* connection is lost before the request or after the answer.
NoAnswer(q) ==
  /\ ask[q].phase = "asking"
  /\ record' = IF ask[q].reconcile THEN record ELSE Marked(ask[q].op, "uncertain")
  /\ exec' = IF exec[q].step \in Outcome \cup {"begin", "receipt"}
             THEN [exec EXCEPT ![q] = NoExec] ELSE exec
  /\ Finish(q)
  /\ UNCHANGED <<home, journal, historyStore, deletionVars, sent>>

\* The submitted message enters the history, part by part; an event whose
\* identity is known already adds nothing.
Persist(q) ==
  LET o == ask[q].op
      p == ask[q].part + 1
  IN
  /\ ask[q].phase = "persist"
  /\ \/ /\ closed /\ p \notin shown[o]
        /\ Finish(q) /\ UNCHANGED <<shown, known>>
     \/ /\ ~closed \/ p \in shown[o]
        /\ shown' = IF p \in known[o] THEN shown ELSE [shown EXCEPT ![o] = @ \cup {p}]
        /\ known' = [known EXCEPT ![o] = @ \cup {p}]
        /\ IF p = Parts THEN Finish(q) ELSE ask' = [ask EXCEPT ![q].part = p]
  /\ UNCHANGED <<home, recordVars, exec, closed, deletionVars, sent>>

CoreRestarts ==
  /\ ask' = [q \in SmsRequest |-> Waiting]
  /\ exec' = [q \in SmsRequest |-> IF exec[q].step \in Outcome THEN NoExec ELSE exec[q]]
  /\ UNCHANGED <<home, recordVars, historyStore, deletionVars, sent>>

------------------------------------------------------------------------------
(* The Agent.                                                               *)

\* The answer of an execution that nobody waits for is dropped.
Reply(q, answer) ==
  exec' = IF ask[q].phase = "asking" THEN [exec EXCEPT ![q].step = answer]
                                     ELSE [exec EXCEPT ![q] = NoExec]

Noted(q) == journal[exec[q].agent][exec[q].op]
Note(q, state) == journal' = [journal EXCEPT ![exec[q].agent][exec[q].op] = state]

AgentBegin(q) ==
  /\ exec[q].step = "begin"
  /\ \/ Reply(q, "unsent") /\ UNCHANGED journal          \* too many operations
     \/ /\ Noted(q) = Nothing
        /\ Note(q, "prepared")
        /\ exec' = [exec EXCEPT ![q].step = "sending"]
     \/ /\ Noted(q) = "submitted"
        /\ Reply(q, "submitted") /\ UNCHANGED journal
     \/ /\ Noted(q) # Nothing                            \* or made for another attachment
        /\ Reply(q, "uncertain") /\ UNCHANGED journal
  /\ UNCHANGED <<home, record, ask, historyStore, deletionVars, sent>>

Receipt(q) ==
  /\ exec[q].step = "receipt"
  /\ Reply(q, IF Noted(q) = "submitted" THEN "submitted" ELSE "uncertain")
  /\ UNCHANGED <<home, recordVars, ask, historyStore, deletionVars, sent>>

\* A complete PDU is handed to the modem of the card.
HandPart(q) ==
  LET o == exec[q].op
      p == exec[q].part + 1
  IN
  /\ exec[q].step = "sending" /\ home = exec[q].agent
  /\ sent[o][p] < 2
  /\ sent' = [sent EXCEPT ![o][p] = @ + 1]
  /\ exec' = [exec EXCEPT ![q].step = "handed"]
  /\ UNCHANGED <<home, recordVars, ask, historyStore, deletionVars>>

PartAccepted(q) ==
  /\ exec[q].step = "handed"
  /\ exec' = [exec EXCEPT ![q].part = @ + 1,
                          ![q].step = IF exec[q].part + 1 = Parts THEN "sent" ELSE "sending"]
  /\ UNCHANGED <<home, recordVars, ask, historyStore, deletionVars, sent>>

\* Mutant: the error of a later part forgets the parts that went before it.
MutantPossiblySent(q) == {exec[q].step = "handed"}

\* What an error of the port says of the message: it may have been sent when
\* this part was handed over or an earlier part accepted.  A helper that dies
\* says nothing of the part it had.
PossiblySent(q) ==
  {exec[q].step = "handed" \/ exec[q].part > 0}
    \cup IF PrivatePort THEN {exec[q].part > 0} ELSE {}

\* The target was replaced, a call or the data connection is in the way, the
\* modem does not prompt, refuses the part or does not answer.
PartFails(q) ==
  /\ exec[q].step \in {"sending", "handed"}
  /\ \E possibly \in PossiblySent(q) :
       exec' = [exec EXCEPT ![q].step = IF possibly THEN "doubtful" ELSE "failed"]
  /\ UNCHANGED <<home, recordVars, ask, historyStore, deletionVars, sent>>

\* The Agent's record is brought up to date, or that fails, and the answer sent.
Conclude(q) ==
  /\ \/ exec[q].step = "sent"     /\ Note(q, "submitted") /\ Reply(q, "submitted")
     \/ exec[q].step = "doubtful" /\ Note(q, "uncertain") /\ Reply(q, "uncertain")
     \/ exec[q].step \in {"sent", "doubtful"} /\ UNCHANGED journal /\ Reply(q, "uncertain")
     \/ /\ exec[q].step = "failed"
        /\ Note(q, Nothing) \/ UNCHANGED journal
        /\ \E answer \in {"unsent", "uncertain"} : Reply(q, answer)
  /\ UNCHANGED <<home, record, ask, historyStore, deletionVars, sent>>

AgentCrashes(a) ==
  /\ exec' = [q \in SmsRequest |-> IF exec[q].agent = a THEN NoExec ELSE exec[q]]
  /\ exec' # exec
  /\ UNCHANGED <<home, recordVars, ask, historyStore, deletionVars, sent>>

MoveCard ==
  /\ home' \in SmsAgent \cup {Nothing} /\ home' # home
  /\ UNCHANGED <<recordVars, requestVars, historyStore, deletionVars, sent>>

------------------------------------------------------------------------------
(* The history and the permanent deletion of the line.                      *)

\* The user deletes what is shown; the event identities stay.
DeleteHistory(o, p) ==
  /\ p \in shown[o]
  /\ shown' = [shown EXCEPT ![o] = @ \ {p}]
  /\ UNCHANGED <<home, recordVars, requestVars, known, closed, deletionVars, sent>>

SetDeleted ==
  /\ \/ listing = "enabled" /\ listing' = "bin"
     \/ listing = "bin" /\ stage = "none" /\ listing' = "enabled"
  /\ UNCHANGED <<home, recordVars, requestVars, historyStore, stage, keep, barrier, sent>>

PrepareDeletion(k) ==
  /\ listing = "bin" /\ stage = "none"
  /\ stage' = "prepared" /\ keep' = k
  /\ UNCHANGED <<home, recordVars, requestVars, historyStore, listing, barrier, sent>>

\* Mutant: the history is not consulted before the barrier is set.
MutantResolved(o) == record[o] # Nothing => record[o].state = "submitted"

\* An operation is settled when all of its parts are in the history.
Resolved(o) == record[o] # Nothing => record[o].state = "submitted" /\ shown[o] = Part

PrepareLineDeletion ==
  /\ stage = "prepared" /\ ~barrier
  /\ \A o \in Message : Resolved(o)
  /\ barrier' = TRUE
  /\ UNCHANGED <<home, recordVars, requestVars, historyStore, listing, stage, keep, sent>>

\* A store is purged or retained, then the stage advances; the second may not
\* happen, and the step is repeated.
PurgeMessages ==
  /\ stage = "prepared" /\ barrier
  /\ closed' = TRUE
  /\ IF keep THEN UNCHANGED <<shown, known>>
             ELSE /\ shown' = [o \in Message |-> {}]
                  /\ known' = [o \in Message |-> known[o] \ shown[o]]
  /\ stage' \in {stage, "messages"}
  /\ UNCHANGED <<home, recordVars, requestVars, listing, keep, barrier, sent>>

PurgeOperations ==
  /\ stage = "messages" /\ barrier
  /\ record' = IF keep THEN record ELSE [o \in Message |-> Nothing]
  /\ stage' \in {stage, "operations"}
  /\ UNCHANGED <<home, journal, requestVars, historyStore, listing, keep, barrier, sent>>

FinalizeDeletion ==
  /\ stage = "operations" /\ listing = "bin"
  /\ listing' = "gone"
  /\ UNCHANGED <<home, recordVars, requestVars, historyStore, stage, keep, barrier, sent>>

------------------------------------------------------------------------------
SNext ==
  \/ \E q \in SmsRequest :
       \/ \E o \in Message, reconcile \in BOOLEAN : Post(q, o, reconcile)
       \/ Lookup(q) \/ Begin(q) \/ Answered(q) \/ NoAnswer(q) \/ Persist(q)
       \/ AgentBegin(q) \/ Receipt(q) \/ HandPart(q) \/ PartAccepted(q) \/ PartFails(q)
       \/ Conclude(q)
  \/ CoreRestarts \/ \E a \in SmsAgent : AgentCrashes(a)
  \/ MoveCard
  \/ \E o \in Message, p \in Part : DeleteHistory(o, p)
  \/ SetDeleted \/ \E k \in BOOLEAN : PrepareDeletion(k)
  \/ PrepareLineDeletion \/ PurgeMessages \/ PurgeOperations \/ FinalizeDeletion

SSpec == SInit /\ [][SNext]_svars

------------------------------------------------------------------------------
(* Properties.                                                              *)

\* A paid message is handed to the network once, however often its operation
\* is posted, at whichever Agent the card is, whatever crashes and whichever
\* answers are lost (the records of OperationStore.Begin and agentsms).
SentOnce == \A o \in Message, p \in Part : sent[o][p] <= 1

\* The barrier of a permanent deletion comes after everything that was sent for
\* the line: each message of which a part was sent is then complete in the
\* history, and nothing of the line is sent afterwards, by no request that
\* looked the line up before (PrepareLineDeletion).
DeletionIsFinal ==
  [][/\ barrier => sent' = sent
     /\ barrier' /\ ~barrier =>
          \A o \in Message : (\E p \in Part : sent[o][p] > 0) => shown[o] = Part]_svars
=============================================================================
