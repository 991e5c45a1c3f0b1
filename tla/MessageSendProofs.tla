-------------------------- MODULE MessageSendProofs --------------------------
(***************************************************************************)
(* What holds of MessageSend for any messages, requests, Agents and parts. *)
(***************************************************************************)
EXTENDS MessageSend, TLAPS

\* What the handler at Core and an execution at an Agent carry along.
ShapeOf(a, e) ==
  /\ a.phase # "idle" => a.op \in Message
  /\ a.phase = "begin" => a.target \in SmsAgent
  /\ a.phase = "persist" => a.part < Parts
  /\ e.step # "none" => e.op \in Message /\ e.agent \in SmsAgent
  /\ e.step = "begin" => e.part = 0
  /\ e.step \in {"sending", "handed"} => e.part < Parts
  /\ a.phase = "asking" /\ e.step # "none" => e.op = a.op

SmsShape == \A q \in SmsRequest : ShapeOf(ask[q], exec[q])

SmsTypes == STypeOK /\ SmsShape

\* Executions of a first request, to the answer that takes Core's record down.
Undecided == {"begin", "sending", "handed"}
Executing == Undecided \cup {"sent", "doubtful", "failed", "unsent"}

\* Somebody says that the message was submitted.
Submitted(o) ==
  \/ \E a \in SmsAgent : journal[a][o] = "submitted"
  \/ \E q \in SmsRequest : exec[q].op = o /\ exec[q].step = "submitted"
  \/ record[o] # Nothing /\ record[o].state = "submitted"

NoneSent(o) == \A p \in Part : sent[o][p] = 0
SomeSent(o) == \E p \in Part : sent[o][p] > 0

\* An operation is executed once at a time; it has Core's record meanwhile,
\* unless the records were purged behind a barrier.
OneExecution ==
  \A q, r \in SmsRequest :
    exec[q].step \in Executing /\ exec[r].step \in Executing /\ exec[q].op = exec[r].op
    => q = r

Recorded ==
  \A q \in SmsRequest :
    exec[q].step \in Executing => record[exec[q].op] # Nothing \/ barrier

OpenWhileUndecided ==
  \A q \in SmsRequest : exec[q].step \in Undecided => ~barrier

\* What an execution knows of the parts that were handed over.
PartsCounted(q) ==
  LET o == exec[q].op
      n == exec[q].part
  IN /\ exec[q].step \in {"begin", "failed", "unsent"} => NoneSent(o)
     /\ exec[q].step = "sending" =>
          \A p \in Part : p > n => sent[o][p] = 0
     /\ exec[q].step = "handed" =>
          sent[o][n + 1] = 1 /\ \A p \in Part : p > n + 1 => sent[o][p] = 0
     /\ exec[q].step = "sent" => SomeSent(o)

Counted == \A q \in SmsRequest : PartsCounted(q)

SentIsRecorded == \A o \in Message : SomeSent(o) => record[o] # Nothing \/ barrier

SubmittedIsOver ==
  \A o \in Message : Submitted(o) =>
    /\ SomeSent(o)
    /\ \A q \in SmsRequest : exec[q].op = o => exec[q].step \notin Undecided

SmsSafe ==
  /\ OneExecution /\ Recorded /\ OpenWhileUndecided /\ Counted
  /\ SentIsRecorded /\ SubmittedIsOver /\ SentOnce

SmsInv == SmsTypes /\ SmsSafe

-----------------------------------------------------------------------------
(* Types.                                                                  *)

LEMMA RestingTypes ==
  /\ Waiting \in AskState /\ NoExec \in ExecState /\ ShapeOf(Waiting, NoExec)
  /\ \A a \in AskState : ShapeOf(a, NoExec) <=>
       /\ a.phase # "idle" => a.op \in Message
       /\ a.phase = "begin" => a.target \in SmsAgent
       /\ a.phase = "persist" => a.part < Parts
  /\ \A a \in AskState, e \in ExecState : ShapeOf(a, e) => ShapeOf(Waiting, e)
BY SmsAssumption DEF Waiting, AskState, NoExec, ExecState, ShapeOf

LEMMA SmsInitTypes == SInit => SmsTypes
<1> SUFFICES ASSUME SInit PROVE SmsTypes
  OBVIOUS
<1>1. SmsShape /\ ask \in [SmsRequest -> AskState] /\ exec \in [SmsRequest -> ExecState]
  BY RestingTypes DEF SInit, SmsShape
<1>2. sent \in [Message -> [Part -> 0..2]]
  BY DEF SInit
<1> QED BY <1>1, <1>2 DEF SInit, SmsTypes, STypeOK, Stage

\* A step of one request that keeps the rest of the types.
LEMMA RequestTypes ==
  ASSUME SmsTypes, NEW q \in SmsRequest, NEW a \in AskState, NEW e \in ExecState,
         ask' = [ask EXCEPT ![q] = a], exec' = [exec EXCEPT ![q] = e], ShapeOf(a, e),
         record' \in [Message -> Record3 \cup {Nothing}],
         journal' \in [SmsAgent -> [Message -> State3 \cup {Nothing}]],
         sent' \in [Message -> [Part -> 0..2]],
         shown' \in [Message -> SUBSET Part], known' \in [Message -> SUBSET Part],
         UNCHANGED <<home, closed, deletionVars>>
  PROVE  SmsTypes'
<1>1. STypeOK'
  BY DEF SmsTypes, STypeOK, deletionVars
<1>2. SmsShape'
  BY DEF SmsTypes, STypeOK, SmsShape
<1> QED BY <1>1, <1>2 DEF SmsTypes

LEMMA PostTypes ==
  ASSUME SmsTypes, NEW q \in SmsRequest, NEW o \in Message, NEW reconcile \in BOOLEAN,
         Post(q, o, reconcile)
  PROVE  SmsTypes'
<1> DEFINE a == [Waiting EXCEPT !.phase = "lookup", !.op = o, !.reconcile = reconcile]
<1>1. a \in AskState /\ a.phase = "lookup" /\ a.op = o
  BY RestingTypes DEF AskState
<1>2. ShapeOf(a, NoExec)
  BY <1>1, RestingTypes
<1> HIDE DEF a
<1>3. ask' = [ask EXCEPT ![q] = a] /\ exec[q] = NoExec /\ exec' = exec
  BY DEF Post, a
<1>4. exec' = [exec EXCEPT ![q] = NoExec]
  BY <1>3 DEF SmsTypes, STypeOK
<1> QED BY <1>1, <1>2, <1>3, <1>4, RequestTypes, RestingTypes
        DEF Post, SmsTypes, STypeOK, recordVars, historyStore

LEMMA LookupTypes ==
  ASSUME SmsTypes, NEW q \in SmsRequest, Lookup(q)
  PROVE  SmsTypes'
<1>0. ask[q] \in AskState /\ exec[q] \in ExecState /\ ShapeOf(ask[q], exec[q])
      /\ ask[q].op \in Message /\ ask[q].phase = "lookup"
  BY DEF Lookup, SmsTypes, STypeOK, SmsShape, ShapeOf
<1>1. \E a \in AskState, e \in ExecState :
        ask' = [ask EXCEPT ![q] = a] /\ exec' = [exec EXCEPT ![q] = e] /\ ShapeOf(a, e)
  <2>1. CASE ask' = [ask EXCEPT ![q].phase = "begin", ![q].target = home]
             /\ home # Nothing /\ exec' = exec
    <3> DEFINE a == [ask[q] EXCEPT !.phase = "begin", !.target = home]
    <3>1. home \in SmsAgent
      BY <2>1 DEF SmsTypes, STypeOK
    <3>2. a \in AskState /\ ShapeOf(a, exec[q])
      BY <1>0, <3>1 DEF AskState, ShapeOf
    <3>3. ask' = [ask EXCEPT ![q] = a] /\ exec' = [exec EXCEPT ![q] = exec[q]]
      BY <1>0, <2>1 DEF SmsTypes, STypeOK
    <3> QED BY <1>0, <3>2, <3>3
  <2>2. CASE ask' = [ask EXCEPT ![q] = Waiting] /\ exec' = exec
    BY <1>0, <2>2, RestingTypes DEF SmsTypes, STypeOK
  <2>3. CASE ask' = [ask EXCEPT ![q].phase = "persist", ![q].part = 0] /\ exec' = exec
    <3> DEFINE a == [ask[q] EXCEPT !.phase = "persist", !.part = 0]
    <3>0. Parts \in Nat /\ 0 < Parts /\ 0 \in 0..Parts
      BY SmsAssumption
    <3>1. a \in AskState /\ ShapeOf(a, exec[q])
      BY <1>0, <3>0 DEF AskState, ShapeOf
    <3>2. ask' = [ask EXCEPT ![q] = a] /\ exec' = [exec EXCEPT ![q] = exec[q]]
      BY <1>0, <2>3 DEF SmsTypes, STypeOK
    <3> QED BY <1>0, <3>1, <3>2
  <2>4. CASE record[ask[q].op] # Nothing /\ Call(q, record[ask[q].op].by, "receipt")
    <3> DEFINE a == [ask[q] EXCEPT !.phase = "asking"]
               by == record[ask[q].op].by
               e == [step |-> "receipt", op |-> ask[q].op, agent |-> by, part |-> 0]
    <3>1. by \in SmsAgent
      BY <1>0, <2>4 DEF SmsTypes, STypeOK, Record3
    <3>2. a \in AskState /\ e \in ExecState /\ ShapeOf(a, e)
      BY <1>0, <3>1, SmsAssumption DEF AskState, ExecState, ShapeOf
    <3>3. ask' = [ask EXCEPT ![q] = a] /\ exec' = [exec EXCEPT ![q] = e]
      BY <1>0, <2>4 DEF SmsTypes, STypeOK, Call
    <3> QED BY <3>2, <3>3
  <2> QED BY <2>1, <2>2, <2>3, <2>4 DEF Lookup, Replay, Finish
<1> QED BY <1>1, RequestTypes
        DEF Lookup, SmsTypes, STypeOK, recordVars, historyStore

LEMMA BeginTypes ==
  ASSUME SmsTypes, NEW q \in SmsRequest, Begin(q)
  PROVE  SmsTypes'
<1>0. /\ ask[q] \in AskState /\ exec[q] \in ExecState /\ ShapeOf(ask[q], exec[q])
      /\ ask[q].op \in Message /\ ask[q].target \in SmsAgent
      /\ Parts \in Nat /\ 0 < Parts /\ 0 \in 0..Parts
  BY SmsAssumption DEF Begin, SmsTypes, STypeOK, SmsShape, ShapeOf
<1>1. \E a \in AskState, e \in ExecState :
        ask' = [ask EXCEPT ![q] = a] /\ exec' = [exec EXCEPT ![q] = e] /\ ShapeOf(a, e)
  <2>1. CASE ask' = [ask EXCEPT ![q] = Waiting] /\ exec' = exec
    BY <1>0, <2>1, RestingTypes DEF SmsTypes, STypeOK
  <2>2. CASE ask' = [ask EXCEPT ![q].phase = "persist", ![q].part = 0] /\ exec' = exec
    <3> DEFINE a == [ask[q] EXCEPT !.phase = "persist", !.part = 0]
    <3>1. a \in AskState /\ ShapeOf(a, exec[q])
      BY <1>0 DEF AskState, ShapeOf
    <3>2. ask' = [ask EXCEPT ![q] = a] /\ exec' = [exec EXCEPT ![q] = exec[q]]
      BY <1>0, <2>2 DEF SmsTypes, STypeOK
    <3> QED BY <1>0, <3>1, <3>2
  <2>3. CASE Call(q, ask[q].target, "begin")
    <3> DEFINE a == [ask[q] EXCEPT !.phase = "asking"]
               e == [step |-> "begin", op |-> ask[q].op, agent |-> ask[q].target, part |-> 0]
    <3>1. a \in AskState /\ e \in ExecState /\ ShapeOf(a, e)
      BY <1>0 DEF AskState, ExecState, ShapeOf
    <3>2. ask' = [ask EXCEPT ![q] = a] /\ exec' = [exec EXCEPT ![q] = e]
      BY <1>0, <2>3 DEF SmsTypes, STypeOK, Call
    <3> QED BY <3>1, <3>2
  <2> QED BY <2>1, <2>2, <2>3 DEF Begin, Replay, Finish
<1>2. [state |-> "prepared", by |-> ask[q].target] \in Record3
  BY <1>0 DEF Record3, State3
<1>3. record' \in [Message -> Record3 \cup {Nothing}]
  BY <1>0, <1>2 DEF Begin, SmsTypes, STypeOK
<1> QED BY <1>1, <1>3, RequestTypes
        DEF Begin, SmsTypes, STypeOK, historyStore

\* What becomes of a record that is brought up to date.
LEMMA MarkedTypes ==
  ASSUME STypeOK, NEW o \in Message, NEW state \in State3
  PROVE  /\ Marked(o, state) \in [Message -> Record3 \cup {Nothing}]
         /\ \A m \in Message : Marked(o, state)[m] = Nothing <=> record[m] = Nothing
         /\ \A m \in Message : m # o => Marked(o, state)[m] = record[m]
         /\ record[o] # Nothing => Marked(o, state)[o].state = state
<1>1. CASE record[o] = Nothing
  BY <1>1 DEF Marked, STypeOK
<1>2. CASE record[o] # Nothing
  <2>1. record[o] \in Record3
    BY <1>2 DEF STypeOK
  <2>2. [record[o] EXCEPT !.state = state] \in Record3
        /\ [record[o] EXCEPT !.state = state].state = state
    BY <2>1 DEF Record3
  <2>3. Marked(o, state) = [record EXCEPT ![o] = [record[o] EXCEPT !.state = state]]
    BY <1>2 DEF Marked
  <2> QED BY <1>2, <2>1, <2>2, <2>3, SmsAssumption DEF STypeOK
<1> QED BY <1>1, <1>2

LEMMA AnsweredTypes ==
  ASSUME SmsTypes, NEW q \in SmsRequest, Answered(q)
  PROVE  SmsTypes'
<1>0. /\ ask[q] \in AskState /\ ask[q].op \in Message /\ ShapeOf(ask[q], exec[q])
      /\ Parts \in Nat /\ 0 < Parts /\ 0 \in 0..Parts
  BY SmsAssumption DEF Answered, SmsTypes, STypeOK, SmsShape, ShapeOf
<1>1. \E a \in AskState : ask' = [ask EXCEPT ![q] = a] /\ ShapeOf(a, NoExec)
  <2>1. CASE ask' = [ask EXCEPT ![q] = Waiting]
    BY <2>1, RestingTypes
  <2>2. CASE ask' = [ask EXCEPT ![q].phase = "persist", ![q].part = 0]
    <3> DEFINE a == [ask[q] EXCEPT !.phase = "persist", !.part = 0]
    <3>1. a \in AskState /\ a.phase = "persist" /\ a.part = 0 /\ a.op \in Message
      BY <1>0 DEF AskState
    <3>2. ask' = [ask EXCEPT ![q] = a]
      BY <1>0, <2>2 DEF SmsTypes, STypeOK
    <3> QED BY <1>0, <3>1, <3>2, RestingTypes
  <2> QED BY <2>1, <2>2 DEF Answered, Finish
<1>2. record' \in [Message -> Record3 \cup {Nothing}]
  <2>1. \/ record' = record \/ record' = [record EXCEPT ![ask[q].op] = Nothing]
        \/ \E state \in State3 : record' = Marked(ask[q].op, state)
    BY DEF Answered, State3
  <2> QED BY <1>0, <2>1, MarkedTypes DEF SmsTypes, STypeOK
<1> QED BY <1>1, <1>2, RequestTypes, RestingTypes
        DEF Answered, SmsTypes, STypeOK, historyStore

LEMMA NoAnswerTypes ==
  ASSUME SmsTypes, NEW q \in SmsRequest, NoAnswer(q)
  PROVE  SmsTypes'
<1>0. ask[q].op \in Message /\ exec[q] \in ExecState /\ ask[q] \in AskState
      /\ ShapeOf(ask[q], exec[q])
  BY DEF NoAnswer, SmsTypes, STypeOK, SmsShape, ShapeOf
<1>1. \E e \in ExecState : exec' = [exec EXCEPT ![q] = e] /\ ShapeOf(Waiting, e)
  <2>1. CASE exec' = exec
    BY <1>0, <2>1, RestingTypes DEF SmsTypes, STypeOK
  <2>2. CASE exec' = [exec EXCEPT ![q] = NoExec]
    BY <2>2, RestingTypes
  <2> QED BY <2>1, <2>2 DEF NoAnswer
<1>2. record' \in [Message -> Record3 \cup {Nothing}]
  BY <1>0, MarkedTypes DEF NoAnswer, SmsTypes, STypeOK, State3
<1> QED BY <1>1, <1>2, RequestTypes, RestingTypes
        DEF NoAnswer, Finish, SmsTypes, STypeOK, historyStore

LEMMA PersistTypes ==
  ASSUME SmsTypes, NEW q \in SmsRequest, Persist(q)
  PROVE  SmsTypes'
<1> DEFINE p == ask[q].part + 1
<1>0. /\ ask[q] \in AskState /\ exec[q] \in ExecState /\ ShapeOf(ask[q], exec[q])
      /\ ask[q].op \in Message /\ ask[q].part \in 0..Parts /\ ask[q].part < Parts
      /\ Parts \in Nat
  BY SmsAssumption DEF Persist, SmsTypes, STypeOK, SmsShape, ShapeOf, AskState
<1>1. p \in Part /\ p \in 0..Parts /\ (p # Parts => p < Parts)
  BY <1>0 DEF Part
<1>2. \E a \in AskState : ask' = [ask EXCEPT ![q] = a] /\ ShapeOf(a, exec[q])
  <2>1. CASE ask' = [ask EXCEPT ![q] = Waiting]
    BY <1>0, <2>1, RestingTypes
  <2>2. CASE ask' = [ask EXCEPT ![q].part = p] /\ p # Parts
    <3> DEFINE a == [ask[q] EXCEPT !.part = p]
    <3>1. a \in AskState /\ ShapeOf(a, exec[q])
      BY <1>0, <1>1, <2>2 DEF AskState, ShapeOf
    <3>2. ask' = [ask EXCEPT ![q] = a]
      BY <1>0, <2>2 DEF SmsTypes, STypeOK
    <3> QED BY <3>1, <3>2
  <2> QED BY <2>1, <2>2 DEF Persist, Finish
<1>3. exec' = [exec EXCEPT ![q] = exec[q]]
  BY <1>0 DEF Persist, SmsTypes, STypeOK
<1>4. shown' \in [Message -> SUBSET Part] /\ known' \in [Message -> SUBSET Part]
  <2>0. shown \in [Message -> SUBSET Part] /\ known \in [Message -> SUBSET Part]
    BY DEF SmsTypes, STypeOK
  <2>1. shown[ask[q].op] \cup {p} \in SUBSET Part /\ known[ask[q].op] \cup {p} \in SUBSET Part
    BY <1>0, <1>1, <2>0
  <2>2. /\ shown' = shown \/ shown' = [shown EXCEPT ![ask[q].op] = shown[ask[q].op] \cup {p}]
        /\ known' = known \/ known' = [known EXCEPT ![ask[q].op] = known[ask[q].op] \cup {p}]
    BY DEF Persist
  <2> HIDE DEF p
  <2>3. ASSUME NEW f \in [Message -> SUBSET Part], NEW set \in SUBSET Part
        PROVE  [f EXCEPT ![ask[q].op] = set] \in [Message -> SUBSET Part]
    OBVIOUS
  <2> QED BY <2>0, <2>1, <2>2, <2>3
<1> QED BY <1>0, <1>2, <1>3, <1>4, RequestTypes
        DEF Persist, SmsTypes, STypeOK, recordVars

\* An answer ends the execution, or waits to be read.
LEMMA ReplyEffect ==
  ASSUME SmsTypes, NEW q \in SmsRequest, NEW answer \in Outcome, Reply(q, answer),
         exec[q].step # "none"
  PROVE  \E e \in ExecState :
           /\ exec' = [exec EXCEPT ![q] = e] /\ ShapeOf(ask[q], e)
           /\ e.step \in {"none", answer}
           /\ e.step = answer => e.op = exec[q].op
<1>0. ask[q] \in AskState /\ exec[q] \in ExecState /\ ShapeOf(ask[q], exec[q])
  BY DEF SmsTypes, STypeOK, SmsShape
<1>1. CASE exec' = [exec EXCEPT ![q] = NoExec]
  <2>1. NoExec.step = "none" /\ "none" \notin Outcome
    BY DEF NoExec, Outcome
  <2>2. ShapeOf(ask[q], NoExec)
    BY <1>0, RestingTypes DEF ShapeOf
  <2> QED BY <1>1, <2>1, <2>2, RestingTypes
<1>2. CASE exec' = [exec EXCEPT ![q].step = answer]
  <2> DEFINE e == [exec[q] EXCEPT !.step = answer]
  <2>1. e \in ExecState /\ e.step = answer /\ e.op = exec[q].op /\ e.agent = exec[q].agent
    BY <1>0 DEF ExecState
  <2>2. answer \notin {"begin", "sending", "handed"}
    BY DEF Outcome
  <2>3. ShapeOf(ask[q], e)
    BY <1>0, <2>1, <2>2 DEF ShapeOf
  <2>4. exec' = [exec EXCEPT ![q] = e]
    BY <1>2 DEF SmsTypes, STypeOK
  <2> QED BY <2>1, <2>3, <2>4
<1> QED BY <1>1, <1>2 DEF Reply

\* The Agent's record keeps its type.
LEMMA NoteTypes ==
  ASSUME SmsTypes, NEW q \in SmsRequest, exec[q].step # "none",
         NEW state \in State3 \cup {Nothing}, Note(q, state)
  PROVE  /\ journal' \in [SmsAgent -> [Message -> State3 \cup {Nothing}]]
         /\ \A a \in SmsAgent, o \in Message :
              journal'[a][o] = IF a = exec[q].agent /\ o = exec[q].op
                               THEN state ELSE journal[a][o]
<1>1. exec[q].agent \in SmsAgent /\ exec[q].op \in Message
  BY DEF SmsTypes, SmsShape, ShapeOf
<1>2. journal' = [journal EXCEPT ![exec[q].agent] =
                    [journal[exec[q].agent] EXCEPT ![exec[q].op] = state]]
  BY DEF Note
<1> QED BY <1>1, <1>2 DEF SmsTypes, STypeOK

\* A step of an execution that leaves the request at Core alone.
LEMMA ExecutionTypes ==
  ASSUME SmsTypes, NEW q \in SmsRequest, NEW e \in ExecState,
         exec' = [exec EXCEPT ![q] = e], ShapeOf(ask[q], e),
         journal' \in [SmsAgent -> [Message -> State3 \cup {Nothing}]],
         sent' \in [Message -> [Part -> 0..2]],
         UNCHANGED <<home, record, ask, historyStore, deletionVars>>
  PROVE  SmsTypes'
<1>1. ask[q] \in AskState /\ ask' = [ask EXCEPT ![q] = ask[q]]
  BY DEF SmsTypes, STypeOK
<1> QED BY <1>1, RequestTypes DEF SmsTypes, STypeOK, historyStore

LEMMA AgentBeginTypes ==
  ASSUME SmsTypes, NEW q \in SmsRequest, AgentBegin(q)
  PROVE  SmsTypes'
<1>0. /\ ask[q] \in AskState /\ exec[q] \in ExecState /\ ShapeOf(ask[q], exec[q])
      /\ exec[q].step = "begin" /\ Parts \in Nat /\ 0 < Parts
  BY SmsAssumption DEF AgentBegin, SmsTypes, STypeOK, SmsShape
<1>1. ASSUME NEW answer \in Outcome, Reply(q, answer)
      PROVE  \E e \in ExecState : exec' = [exec EXCEPT ![q] = e] /\ ShapeOf(ask[q], e)
  BY <1>0, <1>1, ReplyEffect
<1>2. CASE exec' = [exec EXCEPT ![q].step = "sending"] /\ Note(q, "prepared")
  <2> DEFINE e == [exec[q] EXCEPT !.step = "sending"]
  <2>1. e \in ExecState /\ ShapeOf(ask[q], e)
    BY <1>0 DEF ExecState, ShapeOf
  <2>2. exec' = [exec EXCEPT ![q] = e]
    BY <1>2 DEF SmsTypes, STypeOK
  <2>3. journal' \in [SmsAgent -> [Message -> State3 \cup {Nothing}]]
    BY <1>0, <1>2, NoteTypes DEF State3
  <2> QED BY <2>1, <2>2, <2>3, ExecutionTypes DEF AgentBegin, SmsTypes, STypeOK
<1>3. CASE journal' = journal /\ \E answer \in Outcome : Reply(q, answer)
  BY <1>1, <1>3, ExecutionTypes DEF AgentBegin, SmsTypes, STypeOK
<1> QED BY <1>2, <1>3 DEF AgentBegin, Outcome

LEMMA ReceiptTypes ==
  ASSUME SmsTypes, NEW q \in SmsRequest, Receipt(q)
  PROVE  SmsTypes'
<1>1. exec[q].step # "none" /\ \E answer \in Outcome : Reply(q, answer)
  BY DEF Receipt, Outcome
<1>2. \E e \in ExecState : exec' = [exec EXCEPT ![q] = e] /\ ShapeOf(ask[q], e)
  BY <1>1, ReplyEffect
<1> QED BY <1>2, ExecutionTypes DEF Receipt, SmsTypes, STypeOK, recordVars

\* What the steps that hand parts to the modem do to their execution.
LEMMA SendEffect ==
  ASSUME SmsTypes, NEW q \in SmsRequest, HandPart(q) \/ PartAccepted(q) \/ PartFails(q)
  PROVE  \E e \in ExecState :
           /\ exec' = [exec EXCEPT ![q] = e] /\ ShapeOf(ask[q], e)
           /\ e.op = exec[q].op
           /\ HandPart(q) => e.step = "handed" /\ e.part = exec[q].part
           /\ PartAccepted(q) => /\ e.part = exec[q].part + 1
                                 /\ e.step \in {"sending", "sent"}
           /\ PartFails(q) => \E possibly \in PossiblySent(q) :
                e.step = IF possibly THEN "doubtful" ELSE "failed"
<1>0. /\ ask[q] \in AskState /\ exec[q] \in ExecState /\ ShapeOf(ask[q], exec[q])
      /\ exec[q].part \in 0..Parts /\ exec[q].part < Parts /\ Parts \in Nat
      /\ exec[q].step \in {"sending", "handed"}
  BY SmsAssumption DEF HandPart, PartAccepted, PartFails, SmsTypes, STypeOK, SmsShape,
                       ShapeOf, ExecState
<1>1. CASE HandPart(q)
  <2> DEFINE e == [exec[q] EXCEPT !.step = "handed"]
  <2>1. e \in ExecState /\ ShapeOf(ask[q], e) /\ e.op = exec[q].op
        /\ e.step = "handed" /\ e.part = exec[q].part
    BY <1>0 DEF ExecState, ShapeOf
  <2>2. exec' = [exec EXCEPT ![q] = e] /\ exec[q].step = "sending"
    BY <1>1 DEF HandPart, SmsTypes, STypeOK
  <2>3. ~PartAccepted(q)
    BY <2>2 DEF PartAccepted
  <2>4. ~PartFails(q)
    <3>1. exec'[q].step = "handed"
      BY <2>1, <2>2 DEF SmsTypes, STypeOK
    <3>2. ASSUME PartFails(q) PROVE exec'[q].step \in {"doubtful", "failed"}
      BY <1>0, <3>2 DEF PartFails, SmsTypes, STypeOK
    <3> QED BY <3>1, <3>2
  <2> QED BY <2>1, <2>2, <2>3, <2>4
<1>2. CASE PartAccepted(q)
  <2> DEFINE n == exec[q].part + 1
             e == [exec[q] EXCEPT !.part = n,
                                  !.step = IF n = Parts THEN "sent" ELSE "sending"]
  <2>1. n \in 0..Parts /\ (n # Parts => n < Parts)
    BY <1>0
  <2>2. /\ e.part = n /\ e.op = exec[q].op /\ e.agent = exec[q].agent
        /\ e.step = IF n = Parts THEN "sent" ELSE "sending"
        /\ e \in ExecState
    BY <1>0, <2>1 DEF ExecState
  <2>3. ShapeOf(ask[q], e)
    BY <1>0, <2>1, <2>2 DEF ShapeOf
  <2>4. exec' = [exec EXCEPT ![q] = e] /\ exec[q].step = "handed"
    BY <1>2 DEF PartAccepted, SmsTypes, STypeOK
  <2>5. ~HandPart(q)
    BY <2>4 DEF HandPart
  <2>6. ~PartFails(q)
    <3>1. exec'[q].step \in {"sent", "sending"}
      BY <2>2, <2>4 DEF SmsTypes, STypeOK
    <3>2. ASSUME PartFails(q) PROVE exec'[q].step \in {"doubtful", "failed"}
      BY <1>0, <3>2 DEF PartFails, SmsTypes, STypeOK
    <3> QED BY <3>1, <3>2
  <2> QED BY <2>2, <2>3, <2>4, <2>5, <2>6
<1>3. CASE PartFails(q) /\ ~HandPart(q) /\ ~PartAccepted(q)
  <2>1. PICK possibly \in PossiblySent(q) :
          exec' = [exec EXCEPT ![q].step = IF possibly THEN "doubtful" ELSE "failed"]
    BY <1>3 DEF PartFails
  <2> DEFINE e == [exec[q] EXCEPT !.step = IF possibly THEN "doubtful" ELSE "failed"]
  <2>2. e \in ExecState /\ e.op = exec[q].op /\ e.agent = exec[q].agent
        /\ e.step = IF possibly THEN "doubtful" ELSE "failed"
    BY <1>0 DEF ExecState
  <2>3. ShapeOf(ask[q], e)
    BY <1>0, <2>2 DEF ShapeOf
  <2>4. exec' = [exec EXCEPT ![q] = e]
    BY <2>1 DEF SmsTypes, STypeOK
  <2> QED BY <1>3, <2>2, <2>3, <2>4
<1> QED BY <1>1, <1>2, <1>3

LEMMA SendTypes ==
  ASSUME SmsTypes, NEW q \in SmsRequest, HandPart(q) \/ PartAccepted(q) \/ PartFails(q)
  PROVE  SmsTypes'
<1>1. sent' \in [Message -> [Part -> 0..2]]
  <2>1. CASE sent' = sent
    BY <2>1 DEF SmsTypes, STypeOK
  <2>2. CASE HandPart(q)
    <3> DEFINE o == exec[q].op
               p == exec[q].part + 1
    <3>1. o \in Message /\ p \in Part
      BY <2>2, SmsAssumption
      DEF HandPart, SmsTypes, STypeOK, SmsShape, ShapeOf, ExecState, Part
    <3>2. sent[o] \in [Part -> 0..2] /\ sent[o][p] + 1 \in 0..2
      <4>1. sent[o][p] < 2
        BY <2>2 DEF HandPart
      <4> HIDE DEF o, p
      <4>2. sent[o] \in [Part -> 0..2] /\ sent[o][p] \in 0..2
        BY <3>1 DEF SmsTypes, STypeOK
      <4> QED BY <4>1, <4>2
    <3>3. sent' = [sent EXCEPT ![o] = [sent[o] EXCEPT ![p] = sent[o][p] + 1]]
      BY <2>2 DEF HandPart
    <3> HIDE DEF o, p
    <3> QED BY <3>1, <3>2, <3>3 DEF SmsTypes, STypeOK
  <2> QED BY <2>1, <2>2 DEF PartAccepted, PartFails
<1> QED BY <1>1, SendEffect, ExecutionTypes
        DEF HandPart, PartAccepted, PartFails, SmsTypes, STypeOK, recordVars

LEMMA ConcludeTypes ==
  ASSUME SmsTypes, NEW q \in SmsRequest, Conclude(q)
  PROVE  SmsTypes'
<1>1. exec[q].step # "none" /\ \E answer \in Outcome : Reply(q, answer)
  BY DEF Conclude, Outcome
<1>2. \E e \in ExecState : exec' = [exec EXCEPT ![q] = e] /\ ShapeOf(ask[q], e)
  BY <1>1, ReplyEffect
<1>3. journal' = journal \/ \E state \in State3 \cup {Nothing} : Note(q, state)
  BY DEF Conclude, State3
<1>4. journal' \in [SmsAgent -> [Message -> State3 \cup {Nothing}]]
  BY <1>1, <1>3, NoteTypes DEF SmsTypes, STypeOK
<1> QED BY <1>2, <1>4, ExecutionTypes DEF Conclude, SmsTypes, STypeOK

\* Restarts and crashes take requests and executions away.
LEMMA CrashTypes ==
  ASSUME SmsTypes, CoreRestarts \/ \E a \in SmsAgent : AgentCrashes(a)
  PROVE  SmsTypes'
<1>1. \A q \in SmsRequest : /\ ask[q] \in AskState /\ exec[q] \in ExecState
                            /\ ShapeOf(ask[q], exec[q])
  BY DEF SmsTypes, STypeOK, SmsShape
<1>2. \A q \in SmsRequest : /\ ask'[q] \in {Waiting, ask[q]} /\ exec'[q] \in {NoExec, exec[q]}
  BY DEF CoreRestarts, AgentCrashes
<1>3. \A q \in SmsRequest : ShapeOf(ask'[q], exec'[q])
  <2> SUFFICES ASSUME NEW q \in SmsRequest PROVE ShapeOf(ask'[q], exec'[q])
    OBVIOUS
  <2>1. ShapeOf(ask[q], NoExec)
    BY <1>1, RestingTypes DEF ShapeOf
  <2> QED BY <1>1, <1>2, <2>1, RestingTypes
<1>4. ask' \in [SmsRequest -> AskState] /\ exec' \in [SmsRequest -> ExecState]
  <2>1. ask' = [q \in SmsRequest |-> ask'[q]] /\ exec' = [q \in SmsRequest |-> exec'[q]]
    BY DEF CoreRestarts, AgentCrashes, SmsTypes, STypeOK
  <2> QED BY <1>1, <1>2, <2>1, RestingTypes
<1> QED BY <1>3, <1>4 DEF CoreRestarts, AgentCrashes, SmsTypes, STypeOK, SmsShape,
                          recordVars, historyStore, deletionVars

LEMMA HistoryTypes ==
  ASSUME SmsTypes,
         \/ MoveCard \/ SetDeleted \/ (\E k \in BOOLEAN : PrepareDeletion(k))
         \/ (\E o \in Message, p \in Part : DeleteHistory(o, p))
         \/ PrepareLineDeletion \/ PurgeMessages \/ PurgeOperations \/ FinalizeDeletion
  PROVE  SmsTypes'
<1> USE DEF SmsTypes, STypeOK, SmsShape, recordVars, requestVars, historyStore, deletionVars
<1>1. CASE MoveCard \/ SetDeleted
  BY <1>1 DEF MoveCard, SetDeleted
<1>2. CASE \E k \in BOOLEAN : PrepareDeletion(k)
  BY <1>2 DEF PrepareDeletion, Stage
<1>3. ASSUME NEW o \in Message, NEW p \in Part, DeleteHistory(o, p)
      PROVE  SmsTypes'
  <2>1. shown' \in [Message -> SUBSET Part]
    BY <1>3 DEF DeleteHistory
  <2> QED BY <1>3, <2>1 DEF DeleteHistory
<1>4. CASE PrepareLineDeletion \/ FinalizeDeletion
  BY <1>4 DEF PrepareLineDeletion, FinalizeDeletion
<1>5. CASE PurgeMessages
  <2>1. shown' \in [Message -> SUBSET Part] /\ known' \in [Message -> SUBSET Part]
    BY <1>5 DEF PurgeMessages
  <2> QED BY <1>5, <2>1 DEF PurgeMessages, Stage
<1>6. CASE PurgeOperations
  BY <1>6 DEF PurgeOperations, Stage
<1> QED BY <1>1, <1>2, <1>3, <1>4, <1>5, <1>6

\* The shape of requests and executions is kept by every step.
LEMMA SmsStepTypes == SmsTypes /\ [SNext]_svars => SmsTypes'
<1> SUFFICES ASSUME SmsTypes, [SNext]_svars PROVE SmsTypes'
  OBVIOUS
<1>1. CASE UNCHANGED svars
  BY <1>1 DEF svars, SmsTypes, STypeOK, SmsShape, recordVars, requestVars, historyStore,
              deletionVars
<1> QED BY <1>1, PostTypes, LookupTypes, BeginTypes, AnsweredTypes, NoAnswerTypes,
           PersistTypes, AgentBeginTypes, ReceiptTypes, SendTypes, ConcludeTypes,
           CrashTypes, HistoryTypes DEF SNext

\* The types of all variables (the records, the handlers, the history).
THEOREM SmsTypeCorrect == SSpec => []STypeOK
<1>1. SSpec => []SmsTypes
  BY SmsInitTypes, SmsStepTypes, PTL DEF SSpec
<1>2. SmsTypes => STypeOK
  BY DEF SmsTypes
<1> QED BY <1>1, <1>2, PTL

-----------------------------------------------------------------------------
(* A message is sent once.                                                 *)

LEMMA SmsInitSafe == SInit => SmsSafe
<1> SUFFICES ASSUME SInit PROVE SmsSafe
  OBVIOUS
<1>1. \A q \in SmsRequest : exec[q].step = "none"
  BY DEF SInit, NoExec
<1>2. \A o \in Message, p \in Part : sent[o][p] = 0
  BY DEF SInit
<1>3. \A o \in Message : ~Submitted(o)
  BY <1>1, SmsAssumption DEF SInit, Submitted, State3
<1> QED BY <1>1, <1>2, <1>3
        DEF SmsSafe, OneExecution, Recorded, OpenWhileUndecided, Counted, PartsCounted,
            SentIsRecorded, SubmittedIsOver, SentOnce, Executing, Undecided, SomeSent

LEMMA NoneOrSome ==
  ASSUME SmsInv, NEW o \in Message
  PROVE  NoneSent(o) <=> ~SomeSent(o)
<1> SUFFICES \A p \in Part : sent[o][p] \in 0..2
  BY DEF NoneSent, SomeSent
<1> QED BY DEF SmsInv, SmsTypes, STypeOK

\* A step that starts, advances and concludes nothing.
LEMMA QuietStep ==
  ASSUME SmsInv, sent' = sent, barrier' = barrier,
         \A q \in SmsRequest : exec'[q].step \in Executing => exec'[q] = exec[q],
         \A q \in SmsRequest : exec'[q] = exec[q] \/ exec'[q].step \notin Executing,
         \A o \in Message : record'[o] = Nothing => record[o] = Nothing,
         \A o \in Message : Submitted(o)' => Submitted(o),
         SmsTypes'
  PROVE  SmsSafe'
<1>0. \A q \in SmsRequest : exec'[q].step \in Executing => exec'[q].op \in Message
  BY DEF SmsTypes, SmsShape, ShapeOf, Executing, Undecided
<1>1. OneExecution'
  BY DEF SmsInv, SmsSafe, OneExecution
<1>2. Recorded'
  BY <1>0 DEF SmsInv, SmsSafe, Recorded
<1>3. OpenWhileUndecided'
  BY DEF SmsInv, SmsSafe, OpenWhileUndecided, Executing
<1>4. Counted'
  <2> SUFFICES ASSUME NEW q \in SmsRequest PROVE PartsCounted(q)'
    BY DEF Counted
  <2>1. PartsCounted(q)
    BY DEF SmsInv, SmsSafe, Counted
  <2>2. CASE exec'[q] = exec[q]
    BY <2>1, <2>2 DEF PartsCounted, NoneSent, SomeSent
  <2>3. CASE exec'[q].step \notin Executing
    BY <2>3 DEF PartsCounted, Executing, Undecided
  <2> QED BY <2>2, <2>3
<1>5. SentIsRecorded'
  BY DEF SmsInv, SmsSafe, SentIsRecorded, SomeSent
<1>6. SubmittedIsOver'
  BY DEF SmsInv, SmsSafe, SubmittedIsOver, SomeSent, Executing
<1>7. SentOnce'
  BY DEF SmsInv, SmsSafe, SentOnce
<1> QED BY <1>1, <1>2, <1>3, <1>4, <1>5, <1>6, <1>7 DEF SmsSafe

\* Steps of the handler that neither begin an operation nor settle its record.
LEMMA HandlerQuiet ==
  ASSUME SmsInv, SmsTypes', NEW q \in SmsRequest,
         \/ \E o \in Message, reconcile \in BOOLEAN : Post(q, o, reconcile)
         \/ Lookup(q) \/ Persist(q) \/ NoAnswer(q)
         \/ Begin(q) /\ UNCHANGED <<record, exec>>
  PROVE  SmsSafe'
<1>0. ask[q].phase # "idle" => ask[q].op \in Message
  BY DEF SmsInv, SmsTypes, SmsShape, ShapeOf
<1>1. /\ sent' = sent /\ barrier' = barrier /\ journal' = journal
      /\ \A r \in SmsRequest :
           exec'[r] = exec[r] \/ exec'[r].step \notin Executing \cup {"submitted"}
  <2>1. exec \in [SmsRequest -> ExecState]
    BY DEF SmsInv, SmsTypes, STypeOK
  <2>2. CASE Lookup(q)
    <3>1. exec' = exec \/ \E a : exec' = [exec EXCEPT ![q] =
            [step |-> "receipt", op |-> ask[q].op, agent |-> a, part |-> 0]]
      BY <2>2 DEF Lookup, Call
    <3> QED BY <2>1, <2>2, <3>1
            DEF Lookup, recordVars, deletionVars, Executing, Undecided
  <2>3. CASE NoAnswer(q)
    BY <2>1, <2>3 DEF NoAnswer, NoExec, deletionVars, Executing, Undecided
  <2>4. CASE ~Lookup(q) /\ ~NoAnswer(q)
    BY <2>4 DEF Post, Persist, Begin, recordVars, deletionVars
  <2> QED BY <2>2, <2>3, <2>4
<1>2. \A o \in Message : /\ record'[o] = Nothing => record[o] = Nothing
                         /\ record'[o] # Nothing /\ record'[o].state = "submitted"
                              => record[o] # Nothing /\ record[o].state = "submitted"
  <2>1. record' = record \/ (NoAnswer(q) /\ record' = Marked(ask[q].op, "uncertain"))
    BY DEF Post, Lookup, Persist, NoAnswer, Begin, recordVars
  <2>2. CASE NoAnswer(q) /\ record' = Marked(ask[q].op, "uncertain")
    <3>1. ask[q].op \in Message
      BY <1>0, <2>2 DEF NoAnswer
    <3> QED BY <2>2, <3>1, MarkedTypes DEF SmsInv, SmsTypes, State3
  <2> QED BY <2>1, <2>2
<1>3. \A o \in Message : Submitted(o)' => Submitted(o)
  BY <1>1, <1>2 DEF Submitted
<1> QED BY <1>1, <1>2, <1>3, QuietStep

\* Restarts, crashes, the history and the deletion up to its barrier.
LEMMA OthersQuiet ==
  ASSUME SmsInv, SmsTypes',
         \/ CoreRestarts \/ (\E a \in SmsAgent : AgentCrashes(a))
         \/ MoveCard \/ SetDeleted \/ (\E k \in BOOLEAN : PrepareDeletion(k))
         \/ (\E o \in Message, p \in Part : DeleteHistory(o, p))
         \/ PurgeMessages \/ FinalizeDeletion
  PROVE  SmsSafe'
<1>1. /\ sent' = sent /\ barrier' = barrier /\ journal' = journal /\ record' = record
      /\ \A q \in SmsRequest : exec'[q] \in {exec[q], NoExec}
  BY DEF CoreRestarts, AgentCrashes, MoveCard, SetDeleted, PrepareDeletion, DeleteHistory,
         PurgeMessages, FinalizeDeletion, recordVars, requestVars, deletionVars
<1>2. NoExec.step \notin Executing \cup {"submitted"}
  BY DEF NoExec, Executing, Undecided
<1>3. \A o \in Message : Submitted(o)' => Submitted(o)
  BY <1>1, <1>2 DEF Submitted
<1> QED BY <1>1, <1>2, <1>3, QuietStep

\* Core's record is written before the first execution is asked for.
LEMMA BeginSafe ==
  ASSUME SmsInv, SmsTypes', NEW q \in SmsRequest, Begin(q)
  PROVE  SmsSafe'
<1>0. PICK o \in Message : o = ask[q].op
  BY DEF Begin, SmsInv, SmsTypes, SmsShape, ShapeOf
<1>1. CASE UNCHANGED <<record, exec>>
  BY <1>1, HandlerQuiet
<1>2. CASE ~UNCHANGED <<record, exec>>
  <2>1. /\ ~barrier /\ record[o] = Nothing
        /\ record' = [record EXCEPT ![o] = [state |-> "prepared", by |-> ask[q].target]]
        /\ exec' = [exec EXCEPT ![q] = [step |-> "begin", op |-> o,
                                        agent |-> ask[q].target, part |-> 0]]
        /\ UNCHANGED <<journal, barrier, sent>>
    BY <1>0, <1>2 DEF Begin, Call, deletionVars
  <2>2. /\ exec'[q].step = "begin" /\ exec'[q].op = o
        /\ \A r \in SmsRequest \ {q} : exec'[r] = exec[r]
    BY <2>1 DEF SmsInv, SmsTypes, STypeOK
  <2>3. /\ record'[o] # Nothing /\ record'[o].state = "prepared"
        /\ \A m \in Message \ {o} : record'[m] = record[m]
    <3> DEFINE fresh == [state |-> "prepared", by |-> ask[q].target]
    <3>1. ask[q].target \in SmsAgent
      BY DEF Begin, SmsInv, SmsTypes, SmsShape, ShapeOf
    <3>2. fresh # Nothing /\ fresh.state = "prepared"
      BY <3>1, SmsAssumption DEF Record3, State3
    <3> HIDE DEF fresh
    <3>3. record' = [record EXCEPT ![o] = fresh]
      BY <2>1 DEF fresh
    <3> QED BY <3>2, <3>3 DEF SmsInv, SmsTypes, STypeOK
  <2>4. NoneSent(o)
    <3>1. ~SomeSent(o)
      BY <2>1 DEF SmsInv, SmsSafe, SentIsRecorded
    <3> QED BY <3>1, NoneOrSome
  <2>5. \A r \in SmsRequest : exec[r].op = o => exec[r].step \notin Executing
    BY <2>1 DEF SmsInv, SmsSafe, Recorded
  <2>6. ~Submitted(o) /\ ~SomeSent(o)
    BY <2>1 DEF SmsInv, SmsSafe, SubmittedIsOver, SentIsRecorded
  <2>7. ~Submitted(o)' /\ \A m \in Message : Submitted(m)' => Submitted(m)
    BY <2>1, <2>2, <2>3, <2>6 DEF Submitted
  <2>8. OneExecution' /\ OpenWhileUndecided'
    BY <2>1, <2>2, <2>5 DEF SmsInv, SmsSafe, OneExecution, OpenWhileUndecided
  <2>9. Recorded' /\ SentIsRecorded'
    BY <2>1, <2>2, <2>3, SmsTypes' DEF SmsInv, SmsSafe, Recorded, SentIsRecorded, SomeSent,
      SmsTypes, SmsShape, ShapeOf, Executing, Undecided
  <2>10. Counted' /\ SentOnce'
    <3>1. ASSUME NEW r \in SmsRequest \ {q} PROVE PartsCounted(r)'
      BY <2>1, <2>2 DEF SmsInv, SmsSafe, Counted, PartsCounted, NoneSent, SomeSent
    <3>2. PartsCounted(q)'
      BY <2>1, <2>2, <2>4 DEF PartsCounted, NoneSent
    <3> QED BY <2>1, <3>1, <3>2 DEF Counted, SmsInv, SmsSafe, SentOnce
  <2>11. SubmittedIsOver'
    BY <2>1, <2>2, <2>7 DEF SmsInv, SmsSafe, SubmittedIsOver, SomeSent
  <2> QED BY <2>8, <2>9, <2>10, <2>11 DEF SmsSafe
<1> QED BY <1>1, <1>2

\* The answer settles the record, or takes it down when nothing was sent.
LEMMA AnsweredSafe ==
  ASSUME SmsInv, SmsTypes', NEW q \in SmsRequest, Answered(q)
  PROVE  SmsSafe'
<1> DEFINE o == ask[q].op
<1>0. /\ o \in Message /\ exec[q].op = o /\ exec[q].step \in Outcome
      /\ UNCHANGED <<journal, barrier, sent>>
  BY DEF Answered, Outcome, SmsInv, SmsTypes, SmsShape, ShapeOf, deletionVars
<1>1. /\ exec'[q].step \notin Executing \cup {"submitted"}
      /\ \A r \in SmsRequest \ {q} : exec'[r] = exec[r]
  BY DEF Answered, NoExec, Executing, Undecided, SmsInv, SmsTypes, STypeOK
<1>2. CASE exec[q].step = "unsent" /\ record' = [record EXCEPT ![o] = Nothing]
  <2>1. record'[o] = Nothing /\ \A m \in Message \ {o} : record'[m] = record[m]
    BY <1>0, <1>2 DEF SmsInv, SmsTypes, STypeOK
  <2>2. NoneSent(o)
    BY <1>0, <1>2 DEF SmsInv, SmsSafe, Counted, PartsCounted
  <2>3. \A r \in SmsRequest \ {q} : exec[r].op = o => exec[r].step \notin Executing
    BY <1>0, <1>2 DEF SmsInv, SmsSafe, OneExecution, Executing
  <2>4. \A m \in Message : Submitted(m)' => Submitted(m)
    BY <1>0, <1>1, <2>1 DEF Submitted
  <2>5. OneExecution' /\ OpenWhileUndecided'
    BY <1>0, <1>1 DEF SmsInv, SmsSafe, OneExecution, OpenWhileUndecided, Executing
  <2>6. Recorded'
    <3> SUFFICES ASSUME NEW r \in SmsRequest, exec'[r].step \in Executing
                 PROVE  record'[exec'[r].op] # Nothing \/ barrier'
      BY DEF Recorded
    <3>1. r # q /\ exec'[r] = exec[r] /\ exec[r].op # o /\ exec[r].op \in Message
      BY <1>1, <2>3 DEF SmsInv, SmsTypes, SmsShape, ShapeOf, Executing, Undecided
    <3> QED BY <1>0, <2>1, <3>1 DEF SmsInv, SmsSafe, Recorded
  <2>7. SentIsRecorded' /\ SentOnce'
    BY <1>0, <2>1, <2>2 DEF SmsInv, SmsSafe, SentIsRecorded, SentOnce, SomeSent, NoneSent
  <2>8. Counted'
    <3> SUFFICES ASSUME NEW r \in SmsRequest PROVE PartsCounted(r)'
      BY DEF Counted
    <3>1. CASE r = q
      BY <1>1, <3>1 DEF PartsCounted, Executing, Undecided
    <3>2. CASE r # q
      BY <1>0, <1>1, <3>2 DEF SmsInv, SmsSafe, Counted, PartsCounted, NoneSent, SomeSent
    <3> QED BY <3>1, <3>2
  <2>9. SubmittedIsOver'
    BY <1>0, <1>1, <2>4 DEF SmsInv, SmsSafe, SubmittedIsOver, SomeSent, Executing
  <2> QED BY <2>5, <2>6, <2>7, <2>8, <2>9 DEF SmsSafe
<1>3. CASE record' = record \/ record' = Marked(o, "uncertain")
           \/ (exec[q].step = "submitted" /\ record' = Marked(o, "submitted"))
  <2>1. \A m \in Message : /\ record'[m] = Nothing => record[m] = Nothing
                           /\ record'[m] # Nothing /\ record'[m].state = "submitted"
                                => \/ record[m] # Nothing /\ record[m].state = "submitted"
                                   \/ m = o /\ exec[q].step = "submitted"
    BY <1>0, <1>3, MarkedTypes DEF SmsInv, SmsTypes, State3
  <2>2. \A m \in Message : Submitted(m)' => Submitted(m)
    BY <1>0, <1>1, <2>1 DEF Submitted
  <2> QED BY <1>0, <1>1, <2>1, <2>2, QuietStep
<1> QED BY <1>0, <1>2, <1>3 DEF Answered

\* An execution goes on: it stays the only one of its operation.  The steps
\* below say what they know of the parts that were sent.
LEMMA Advance ==
  ASSUME SmsInv, SmsTypes', NEW q \in SmsRequest,
         \A r \in SmsRequest \ {q} : exec'[r] = exec[r],
         exec[q].step \in Executing,
         exec'[q].step \in Executing => exec'[q].op = exec[q].op,
         exec'[q].step \in Undecided => exec[q].step \in Undecided,
         record' = record, barrier' = barrier
  PROVE  OneExecution' /\ Recorded' /\ OpenWhileUndecided'
<1>1. OneExecution'
  BY DEF SmsInv, SmsSafe, OneExecution
<1>2. Recorded'
  BY DEF SmsInv, SmsSafe, Recorded
<1>3. OpenWhileUndecided'
  BY DEF SmsInv, SmsSafe, OpenWhileUndecided
<1> QED BY <1>1, <1>2, <1>3

\* The same, when no part is handed over and the message is not submitted.
LEMMA AdvanceUnsent ==
  ASSUME SmsInv, SmsTypes', NEW q \in SmsRequest,
         \A r \in SmsRequest \ {q} : exec'[r] = exec[r],
         exec[q].step \in Executing,
         exec'[q].step \in Executing => exec'[q].op = exec[q].op,
         exec'[q].step \in Undecided => exec[q].step \in Undecided,
         record' = record, barrier' = barrier, sent' = sent,
         \A o \in Message : Submitted(o)' => Submitted(o),
         PartsCounted(q)'
  PROVE  SmsSafe'
<1>1. OneExecution' /\ Recorded' /\ OpenWhileUndecided'
  BY Advance
<1>2. Counted'
  BY DEF SmsInv, SmsSafe, Counted, PartsCounted, NoneSent, SomeSent
<1>3. SentIsRecorded' /\ SentOnce'
  BY DEF SmsInv, SmsSafe, SentIsRecorded, SentOnce, SomeSent
<1>4. SubmittedIsOver'
  <2> SUFFICES ASSUME NEW o \in Message, Submitted(o), NEW r \in SmsRequest, exec'[r].op = o
               PROVE  SomeSent(o)' /\ exec'[r].step \notin Undecided
    BY DEF SubmittedIsOver, SmsInv, SmsSafe, SomeSent
  <2>1. SomeSent(o)' /\ \A p \in SmsRequest : exec[p].op = o => exec[p].step \notin Undecided
    BY DEF SubmittedIsOver, SmsInv, SmsSafe, SomeSent
  <2> QED BY <2>1 DEF Executing
<1> QED BY <1>1, <1>2, <1>3, <1>4 DEF SmsSafe

\* The Agent refuses, begins, or has a record of the operation already.
LEMMA AgentBeginSafe ==
  ASSUME SmsInv, SmsTypes', NEW q \in SmsRequest, AgentBegin(q)
  PROVE  SmsSafe'
<1>0. /\ exec[q].step = "begin" /\ exec[q].op \in Message /\ exec[q].agent \in SmsAgent
      /\ exec[q].part = 0 /\ exec[q] \in ExecState /\ SmsTypes
      /\ NoneSent(exec[q].op)
      /\ record' = record /\ barrier' = barrier /\ sent' = sent
  BY DEF AgentBegin, SmsInv, SmsTypes, STypeOK, SmsShape, ShapeOf, SmsSafe, Counted,
         PartsCounted, deletionVars
<1>1. CASE exec' = [exec EXCEPT ![q].step = "sending"] /\ Note(q, "prepared")
  <2>1. /\ exec'[q].step = "sending" /\ exec'[q].op = exec[q].op /\ exec'[q].part = 0
        /\ \A r \in SmsRequest \ {q} : exec'[r] = exec[r]
    <3> DEFINE e == [exec[q] EXCEPT !.step = "sending"]
    <3>1. e.step = "sending" /\ e.op = exec[q].op /\ e.part = 0
      BY <1>0 DEF ExecState
    <3>2. exec' = [exec EXCEPT ![q] = e]
      BY <1>1 DEF SmsInv, SmsTypes, STypeOK
    <3> HIDE DEF e
    <3> QED BY <3>1, <3>2 DEF SmsInv, SmsTypes, STypeOK
  <2>2. \A a \in SmsAgent, o \in Message :
          journal'[a][o] = "submitted" => journal[a][o] = "submitted"
    <3>1. \A a \in SmsAgent, o \in Message :
            journal'[a][o] \in {"prepared", journal[a][o]}
      BY <1>0, <1>1, NoteTypes DEF State3
    <3> QED BY <3>1
  <2>3. \A o \in Message : Submitted(o)' => Submitted(o)
    BY <1>0, <2>1, <2>2 DEF Submitted
  <2>4. PartsCounted(q)'
    BY <1>0, <2>1 DEF PartsCounted, NoneSent
  <2> QED BY <1>0, <2>1, <2>3, <2>4, AdvanceUnsent DEF Executing, Undecided
<1>2. ASSUME NEW answer \in Outcome, Reply(q, answer), journal' = journal,
             answer = "submitted" => Noted(q) = "submitted"
      PROVE  SmsSafe'
  <2>1. PICK e \in ExecState : /\ exec' = [exec EXCEPT ![q] = e]
                               /\ e.step \in {"none", answer}
                               /\ e.step = answer => e.op = exec[q].op
    BY <1>0, <1>2, ReplyEffect
  <2>2. exec'[q] = e /\ \A r \in SmsRequest \ {q} : exec'[r] = exec[r]
    BY <2>1 DEF SmsInv, SmsTypes, STypeOK
  <2>3. \A o \in Message : Submitted(o)' => Submitted(o)
    BY <1>0, <1>2, <2>1, <2>2 DEF Submitted, Noted
  <2>4. PartsCounted(q)'
    BY <1>0, <2>1, <2>2 DEF PartsCounted, NoneSent, Outcome
  <2> QED BY <1>0, <2>1, <2>2, <2>3, <2>4, AdvanceUnsent DEF Executing, Undecided, Outcome
<1> QED BY <1>1, <1>2 DEF AgentBegin, Outcome

\* A receipt says what the Agent's record says.
LEMMA ReceiptSafe ==
  ASSUME SmsInv, SmsTypes', NEW q \in SmsRequest, Receipt(q)
  PROVE  SmsSafe'
<1>0. /\ exec[q].step = "receipt" /\ exec[q].op \in Message /\ exec[q].agent \in SmsAgent
      /\ SmsTypes
      /\ record' = record /\ barrier' = barrier /\ sent' = sent /\ journal' = journal
  BY DEF Receipt, SmsInv, SmsTypes, SmsShape, ShapeOf, recordVars, deletionVars
<1> DEFINE answer == IF Noted(q) = "submitted" THEN "submitted" ELSE "uncertain"
<1>1. PICK e \in ExecState : /\ exec' = [exec EXCEPT ![q] = e]
                             /\ e.step \in {"none", answer}
                             /\ e.step = answer => e.op = exec[q].op
  <2>1. answer \in Outcome /\ Reply(q, answer)
    BY DEF Receipt, Outcome
  <2> QED BY <1>0, <2>1, ReplyEffect
<1>2. exec'[q] = e /\ \A r \in SmsRequest \ {q} : exec'[r] = exec[r]
  BY <1>1 DEF SmsInv, SmsTypes, STypeOK
<1>3. \A o \in Message : Submitted(o)' => Submitted(o)
  BY <1>0, <1>1, <1>2 DEF Submitted, Noted
<1> QED BY <1>0, <1>1, <1>2, <1>3, QuietStep DEF Executing, Undecided

\* A part goes to the modem: no other execution can have sent it.
LEMMA HandPartSafe ==
  ASSUME SmsInv, SmsTypes', NEW q \in SmsRequest, HandPart(q)
  PROVE  SmsSafe'
<1>0. /\ exec[q].step = "sending" /\ SmsTypes
      /\ record' = record /\ barrier' = barrier /\ journal' = journal
  BY DEF HandPart, SmsInv, recordVars, deletionVars
<1>1. PICK e \in ExecState :
        /\ exec' = [exec EXCEPT ![q] = e] /\ e.op = exec[q].op
        /\ e.step = "handed" /\ e.part = exec[q].part
  BY <1>0, SendEffect
<1>2. exec'[q] = e /\ \A r \in SmsRequest \ {q} : exec'[r] = exec[r]
  BY <1>1 DEF SmsInv, SmsTypes, STypeOK
<1>3. PICK o \in Message, n \in Nat :
        o = exec[q].op /\ n = exec[q].part /\ n + 1 \in Part
  <2>1. exec[q].op \in Message /\ exec[q].part \in Nat /\ exec[q].part + 1 \in Part
    BY <1>0, SmsAssumption DEF SmsTypes, STypeOK, SmsShape, ShapeOf, ExecState, Part
  <2> QED BY <2>1
<1>4. \A p \in Part : p > n => sent[o][p] = 0
  BY <1>0, <1>3 DEF SmsInv, SmsSafe, Counted, PartsCounted
<1>5. /\ sent'[o][n + 1] = 1
      /\ \A m \in Message, p \in Part : m # o \/ p # n + 1 => sent'[m][p] = sent[m][p]
  <2>1. sent' = [sent EXCEPT ![o] = [sent[o] EXCEPT ![n + 1] = sent[o][n + 1] + 1]]
    BY <1>3 DEF HandPart
  <2>2. sent[o][n + 1] = 0
    BY <1>3, <1>4
  <2>3. sent \in [Message -> [Part -> 0..2]]
    BY <1>0 DEF SmsTypes, STypeOK
  <2> QED BY <1>3, <2>1, <2>2, <2>3
<1>6. \A r \in SmsRequest \ {q} : exec[r].op = o => exec[r].step \notin Executing
  BY <1>0, <1>3 DEF SmsInv, SmsSafe, OneExecution, Executing, Undecided
<1>7. OneExecution' /\ Recorded' /\ OpenWhileUndecided'
  BY <1>0, <1>1, <1>2, Advance DEF Executing, Undecided
<1>8. Counted'
  <2> SUFFICES ASSUME NEW r \in SmsRequest PROVE PartsCounted(r)'
    BY DEF Counted
  <2>1. CASE r = q
    BY <1>1, <1>2, <1>3, <1>4, <1>5, <2>1 DEF PartsCounted, Part
  <2>2. CASE r # q /\ exec[r].step \in Executing
    <3>1. exec[r].op \in Message \ {o} /\ exec'[r] = exec[r]
      BY <1>2, <1>6, <2>2 DEF SmsInv, SmsTypes, SmsShape, ShapeOf, Executing, Undecided
    <3>2. PartsCounted(r)
      BY DEF SmsInv, SmsSafe, Counted
    <3>3. \A p \in Part : sent'[exec[r].op][p] = sent[exec[r].op][p]
      BY <1>5, <3>1
    <3>4. exec[r].step = "handed" => exec[r].part + 1 \in Part
      BY <1>0, SmsAssumption DEF SmsTypes, STypeOK, SmsShape, ShapeOf, ExecState, Part
    <3> QED BY <3>1, <3>2, <3>3, <3>4 DEF PartsCounted, NoneSent, SomeSent
  <2>3. CASE r # q /\ exec[r].step \notin Executing
    BY <1>2, <2>3 DEF PartsCounted, Executing, Undecided
  <2> QED BY <2>1, <2>2, <2>3
<1>9. SentIsRecorded'
  <2>1. record[o] # Nothing \/ barrier
    BY <1>0, <1>3 DEF SmsInv, SmsSafe, Recorded, Executing, Undecided
  <2> QED BY <1>0, <1>5, <2>1 DEF SmsInv, SmsSafe, SentIsRecorded, SomeSent
<1>10. SubmittedIsOver'
  <2>1. ~Submitted(o)
    BY <1>0, <1>3 DEF SmsInv, SmsSafe, SubmittedIsOver, Undecided
  <2>2. \A m \in Message : Submitted(m)' => Submitted(m)
    BY <1>0, <1>1, <1>2 DEF Submitted
  <2>3. \A m \in Message \ {o} : SomeSent(m) => SomeSent(m)'
    BY <1>5 DEF SomeSent
  <2>4. \A r \in SmsRequest : exec'[r].op # o => exec'[r] = exec[r]
    BY <1>1, <1>2, <1>3
  <2> QED BY <2>1, <2>2, <2>3, <2>4 DEF SmsInv, SmsSafe, SubmittedIsOver
<1>11. SentOnce'
  BY <1>3, <1>5 DEF SmsInv, SmsSafe, SentOnce
<1> QED BY <1>7, <1>8, <1>9, <1>10, <1>11 DEF SmsSafe

\* The modem has accepted a part: the next one, or the message is sent.
LEMMA PartAcceptedSafe ==
  ASSUME SmsInv, SmsTypes', NEW q \in SmsRequest, PartAccepted(q)
  PROVE  SmsSafe'
<1>0. /\ exec[q].step = "handed" /\ SmsTypes
      /\ record' = record /\ barrier' = barrier /\ journal' = journal /\ sent' = sent
  BY DEF PartAccepted, SmsInv, recordVars, deletionVars
<1>1. PICK e \in ExecState :
        /\ exec' = [exec EXCEPT ![q] = e] /\ e.op = exec[q].op
        /\ e.step \in {"sending", "sent"} /\ e.part = exec[q].part + 1
  BY <1>0, SendEffect
<1>2. exec'[q] = e /\ \A r \in SmsRequest \ {q} : exec'[r] = exec[r]
  BY <1>1 DEF SmsInv, SmsTypes, STypeOK
<1>3. exec[q].op \in Message /\ exec[q].part + 1 \in Part
  BY <1>0, SmsAssumption DEF SmsTypes, STypeOK, SmsShape, ShapeOf, ExecState, Part
<1>4. PartsCounted(q)'
  <2>1. PartsCounted(q)
    BY DEF SmsInv, SmsSafe, Counted
  <2>2. sent[exec[q].op][exec[q].part + 1] = 1
    BY <1>0, <2>1 DEF PartsCounted
  <2>3. SomeSent(exec[q].op)
    BY <1>3, <2>2 DEF SomeSent
  <2> QED BY <1>0, <1>1, <1>2, <2>1, <2>3 DEF PartsCounted, SomeSent
<1>5. \A o \in Message : Submitted(o)' => Submitted(o)
  BY <1>0, <1>1, <1>2 DEF Submitted
<1> QED BY <1>0, <1>1, <1>2, <1>4, <1>5, AdvanceUnsent DEF Executing, Undecided

\* An error of the port says that nothing was sent only when nothing was: the
\* port tells which part it had, as it does without a helper process.
LEMMA PartFailsSafe ==
  ASSUME ~PrivatePort, SmsInv, SmsTypes', NEW q \in SmsRequest, PartFails(q)
  PROVE  SmsSafe'
<1>0. /\ exec[q].step \in {"sending", "handed"} /\ SmsTypes
      /\ record' = record /\ barrier' = barrier /\ journal' = journal /\ sent' = sent
  BY DEF PartFails, SmsInv, recordVars, deletionVars
<1>1. PICK e \in ExecState :
        /\ exec' = [exec EXCEPT ![q] = e] /\ e.op = exec[q].op
        /\ \E possibly \in PossiblySent(q) :
             e.step = IF possibly THEN "doubtful" ELSE "failed"
  BY <1>0, SendEffect
<1>2. exec'[q] = e /\ \A r \in SmsRequest \ {q} : exec'[r] = exec[r]
  BY <1>1 DEF SmsInv, SmsTypes, STypeOK
<1>3. e.step \in {"doubtful", "failed"}
  BY <1>1
<1>4. e.step = "failed" => exec[q].step = "sending" /\ ~(exec[q].part > 0)
  BY <1>0, <1>1 DEF PossiblySent
<1>5. PartsCounted(q)'
  <2>1. ASSUME e.step = "failed" PROVE NoneSent(exec[q].op)
    <3>1. \A p \in Part : p > exec[q].part => sent[exec[q].op][p] = 0
      BY <1>4, <2>1 DEF SmsInv, SmsSafe, Counted, PartsCounted
    <3>2. exec[q].part \in Nat
      BY <1>0, SmsAssumption DEF SmsTypes, STypeOK, ExecState
    <3>3. \A p \in Part : p > exec[q].part
      BY <1>4, <2>1, <3>2 DEF Part
    <3> QED BY <3>1, <3>3 DEF NoneSent
  <2> QED BY <1>0, <1>1, <1>2, <1>3, <2>1 DEF PartsCounted, NoneSent
<1>6. \A o \in Message : Submitted(o)' => Submitted(o)
  BY <1>0, <1>2, <1>3 DEF Submitted
<1> QED BY <1>0, <1>1, <1>2, <1>3, <1>5, <1>6, AdvanceUnsent DEF Executing, Undecided

\* The Agent's record and its answer say what became of the execution.
LEMMA ConcludeSafe ==
  ASSUME SmsInv, SmsTypes', NEW q \in SmsRequest, Conclude(q)
  PROVE  SmsSafe'
<1>0. /\ exec[q].step \in {"sent", "doubtful", "failed"} /\ SmsTypes
      /\ record' = record /\ barrier' = barrier /\ sent' = sent
  BY DEF Conclude, SmsInv, deletionVars
<1>1. PICK o \in Message : o = exec[q].op
  BY <1>0 DEF SmsTypes, SmsShape, ShapeOf
<1>2. PICK answer \in Outcome :
        /\ Reply(q, answer)
        /\ answer = "submitted" => exec[q].step = "sent"
        /\ answer = "unsent" => exec[q].step = "failed"
  BY DEF Conclude, Outcome
<1>3. PICK e \in ExecState : /\ exec' = [exec EXCEPT ![q] = e]
                             /\ e.step \in {"none", answer}
                             /\ e.step = answer => e.op = exec[q].op
  BY <1>0, <1>2, ReplyEffect
<1>4. exec'[q] = e /\ \A r \in SmsRequest \ {q} : exec'[r] = exec[r]
  BY <1>3 DEF SmsInv, SmsTypes, STypeOK
<1>5. \A a \in SmsAgent, m \in Message :
        journal'[a][m] = "submitted" =>
          journal[a][m] = "submitted" \/ (m = o /\ exec[q].step = "sent")
  <2>1. \/ journal' = journal
        \/ exec[q].step = "sent" /\ Note(q, "submitted")
        \/ Note(q, "uncertain") \/ Note(q, Nothing)
    BY DEF Conclude
  <2>2. \A state \in State3 \cup {Nothing} : Note(q, state) =>
          \A a \in SmsAgent, m \in Message :
            journal'[a][m] = IF a = exec[q].agent /\ m = o THEN state ELSE journal[a][m]
    BY <1>0, <1>1, NoteTypes
  <2> QED BY <2>1, <2>2, SmsAssumption DEF State3
<1>6. \A m \in Message : Submitted(m)' =>
        Submitted(m) \/ (m = o /\ exec[q].step = "sent")
  BY <1>0, <1>1, <1>2, <1>3, <1>4, <1>5 DEF Submitted
<1>7. \A r \in SmsRequest \ {q} : exec[r].op = o => exec[r].step \notin Executing
  BY <1>0, <1>1 DEF SmsInv, SmsSafe, OneExecution, Executing
<1>8. exec'[q].step \notin Undecided
  BY <1>3, <1>4 DEF Undecided, Outcome
<1>9. OneExecution' /\ Recorded' /\ OpenWhileUndecided'
  <2>1. exec'[q].step \in Executing => exec'[q].op = exec[q].op
    BY <1>3, <1>4 DEF Executing, Undecided
  <2> QED BY <1>0, <1>4, <1>8, <2>1, Advance DEF Executing
<1>10. Counted'
  <2>1. ASSUME NEW r \in SmsRequest \ {q} PROVE PartsCounted(r)'
    BY <1>0, <1>4 DEF SmsInv, SmsSafe, Counted, PartsCounted, NoneSent, SomeSent
  <2>2. PartsCounted(q)'
    <3>1. exec[q].step = "failed" => NoneSent(exec[q].op)
      BY DEF SmsInv, SmsSafe, Counted, PartsCounted
    <3> QED BY <1>0, <1>2, <1>3, <1>4, <3>1 DEF PartsCounted, NoneSent, Outcome
  <2> QED BY <2>1, <2>2 DEF Counted
<1>11. SentIsRecorded' /\ SentOnce'
  BY <1>0 DEF SmsInv, SmsSafe, SentIsRecorded, SentOnce, SomeSent
<1>12. SubmittedIsOver'
  <2>1. exec[q].step = "sent" => SomeSent(o)
    BY <1>1 DEF SmsInv, SmsSafe, Counted, PartsCounted
  <2>2. \A m \in Message : Submitted(m)' => SomeSent(m)'
    BY <1>0, <1>6, <2>1 DEF SmsInv, SmsSafe, SubmittedIsOver, SomeSent
  <2> SUFFICES ASSUME NEW m \in Message, Submitted(m)', NEW r \in SmsRequest,
                      exec'[r].op = m
               PROVE  exec'[r].step \notin Undecided
    BY <2>2 DEF SubmittedIsOver
  <2>3. CASE r = q
    BY <1>8, <2>3
  <2>4. CASE r # q /\ m = o
    BY <1>4, <1>7, <2>4 DEF Executing
  <2>5. CASE r # q /\ m # o
    BY <1>4, <1>6, <2>5 DEF SmsInv, SmsSafe, SubmittedIsOver
  <2> QED BY <2>3, <2>4, <2>5
<1> QED BY <1>9, <1>10, <1>11, <1>12 DEF SmsSafe

\* The barrier is set when every record is settled: nothing is undecided then.
LEMMA BarrierSafe ==
  ASSUME SmsInv, PrepareLineDeletion
  PROVE  /\ SmsSafe'
         /\ \A o \in Message : (\E p \in Part : sent[o][p] > 0) => shown[o] = Part
<1>1. /\ stage = "prepared" /\ ~barrier /\ barrier' /\ \A o \in Message : Resolved(o)
      /\ record' = record /\ journal' = journal /\ exec' = exec /\ sent' = sent
  BY DEF PrepareLineDeletion, recordVars, requestVars
<1>2. \A q \in SmsRequest : exec[q].step \notin Undecided
  <2> SUFFICES ASSUME NEW q \in SmsRequest, exec[q].step \in Undecided PROVE FALSE
    OBVIOUS
  <2>1. exec[q].op \in Message /\ record[exec[q].op] # Nothing
    BY <1>1 DEF SmsInv, SmsTypes, SmsShape, ShapeOf, SmsSafe, Recorded, Executing, Undecided
  <2>2. Submitted(exec[q].op)
    BY <1>1, <2>1 DEF Resolved, Submitted
  <2> QED BY <2>1, <2>2 DEF SmsInv, SmsSafe, SubmittedIsOver
<1>3. \A o \in Message : SomeSent(o) => shown[o] = Part
  BY <1>1 DEF SmsInv, SmsSafe, SentIsRecorded, Resolved
<1>4. OneExecution' /\ Recorded' /\ OpenWhileUndecided'
  BY <1>1, <1>2 DEF SmsInv, SmsSafe, OneExecution, Recorded, OpenWhileUndecided
<1>5. Counted' /\ SentIsRecorded' /\ SentOnce'
  BY <1>1 DEF SmsInv, SmsSafe, Counted, PartsCounted, NoneSent, SomeSent, SentIsRecorded,
              SentOnce
<1>6. SubmittedIsOver'
  BY <1>1 DEF SmsInv, SmsSafe, SubmittedIsOver, Submitted, SomeSent
<1> QED BY <1>3, <1>4, <1>5, <1>6 DEF SmsSafe, SomeSent

\* The records go only behind the barrier, where no operation begins.
LEMMA PurgeOperationsSafe ==
  ASSUME SmsInv, PurgeOperations
  PROVE  SmsSafe'
<1>1. /\ barrier /\ barrier' = barrier /\ journal' = journal /\ exec' = exec /\ sent' = sent
      /\ \A o \in Message : record'[o] \in {record[o], Nothing}
  BY DEF PurgeOperations, requestVars
<1>2. OneExecution' /\ Recorded' /\ OpenWhileUndecided'
  BY <1>1 DEF SmsInv, SmsSafe, OneExecution, Recorded, OpenWhileUndecided
<1>3. Counted' /\ SentIsRecorded' /\ SentOnce'
  BY <1>1 DEF SmsInv, SmsSafe, Counted, PartsCounted, NoneSent, SomeSent, SentIsRecorded,
              SentOnce
<1>4. \A o \in Message : Submitted(o)' => Submitted(o)
  BY <1>1 DEF Submitted
<1>5. SubmittedIsOver'
  BY <1>1, <1>4 DEF SmsInv, SmsSafe, SubmittedIsOver, SomeSent
<1> QED BY <1>2, <1>3, <1>5 DEF SmsSafe

\* Without a helper process every step keeps the invariant.
LEMMA SmsStepInv ==
  ASSUME ~PrivatePort
  PROVE  SmsInv /\ [SNext]_svars => SmsInv'
<1> SUFFICES ASSUME SmsInv, [SNext]_svars PROVE SmsInv'
  OBVIOUS
<1>1. SmsTypes'
  BY SmsStepTypes DEF SmsInv
<1>2. CASE UNCHANGED svars
  BY <1>2 DEF svars, recordVars, requestVars, deletionVars, SmsInv, SmsTypes, STypeOK,
     SmsShape, SmsSafe, OneExecution, Recorded, OpenWhileUndecided, Counted, PartsCounted,
     NoneSent, SomeSent, SentIsRecorded, SubmittedIsOver, Submitted, SentOnce, historyStore
<1>3. CASE SNext
  <2>1. SmsSafe'
    BY <1>1, <1>3, HandlerQuiet, OthersQuiet, BeginSafe, AnsweredSafe, AgentBeginSafe,
       ReceiptSafe, HandPartSafe, PartAcceptedSafe, PartFailsSafe, ConcludeSafe,
       BarrierSafe, PurgeOperationsSafe DEF SNext
  <2> QED BY <1>1, <2>1 DEF SmsInv
<1> QED BY <1>2, <1>3

LEMMA SmsInvariant ==
  ASSUME ~PrivatePort
  PROVE  SSpec => []SmsInv
<1>1. SInit => SmsInv
  BY SmsInitTypes, SmsInitSafe DEF SmsInv
<1> QED BY <1>1, SmsStepInv, PTL DEF SSpec

\* No part of a paid message is handed to the network twice, whatever is
\* repeated, lost, crashed or moved (OperationStore.Begin, agentsms), as long as
\* the modem's port says which part it had when it fails.
THEOREM MessageSentOnce ==
  ASSUME ~PrivatePort
  PROVE  SSpec => []SentOnce
<1>1. SmsInv => SentOnce
  BY DEF SmsInv, SmsSafe
<1> QED BY <1>1, SmsInvariant, PTL

\* Once the barrier of a line's deletion is set nothing of the line is sent, and
\* what was sent before is complete in the history (PrepareLineDeletion).
THEOREM LineDeletionIsFinal ==
  ASSUME ~PrivatePort
  PROVE  SSpec => DeletionIsFinal
<1> DEFINE Step == /\ barrier => sent' = sent
                   /\ barrier' /\ ~barrier =>
                        \A o \in Message : (\E p \in Part : sent[o][p] > 0) => shown[o] = Part
<1>1. SmsInv /\ [SNext]_svars => [Step]_svars
  <2> SUFFICES ASSUME SmsInv, SNext PROVE Step
    OBVIOUS
  <2>1. barrier => sent' = sent
    <3>1. sent' = sent \/ \E q \in SmsRequest : HandPart(q)
      BY DEF SNext, Post, Lookup, Begin, Answered, NoAnswer, Persist, AgentBegin, Receipt,
         PartAccepted, PartFails, Conclude, CoreRestarts, AgentCrashes, MoveCard,
         DeleteHistory, SetDeleted, PrepareDeletion, PrepareLineDeletion, PurgeMessages,
         PurgeOperations, FinalizeDeletion
    <3>2. ASSUME NEW q \in SmsRequest, HandPart(q) PROVE ~barrier
      BY <3>2 DEF HandPart, SmsInv, SmsSafe, OpenWhileUndecided, Undecided
    <3> QED BY <3>1, <3>2
  <2>2. barrier' /\ ~barrier => PrepareLineDeletion
    BY DEF SNext, Post, Lookup, Begin, Answered, NoAnswer, Persist, AgentBegin, Receipt,
       HandPart, PartAccepted, PartFails, Conclude, CoreRestarts, AgentCrashes, MoveCard,
       DeleteHistory, SetDeleted, PrepareDeletion, PurgeMessages, PurgeOperations,
       FinalizeDeletion, deletionVars
  <2> QED BY <2>1, <2>2, BarrierSafe
<1> QED BY <1>1, SmsInvariant, PTL DEF SSpec, DeletionIsFinal
=============================================================================
