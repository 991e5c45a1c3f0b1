-------------------------- MODULE ExitSwitchProofs --------------------------
(***************************************************************************)
(* What holds of ExitSwitch for any lines, selections, Applies and bounds. *)
(* At the end, that Core's parts together (MCCore) keep their types.       *)
(***************************************************************************)
EXTENDS MCCore, CellularCallProofs

-----------------------------------------------------------------------------
(* The inductive invariant.                                                *)

\* The helper works on an attempt that the journal holds in the same phase.
\* A release of an attempt that was to be published has seen that it was not.
JournalInv ==
  /\ journal.phase = "complete" => journal = Complete
  /\ journal.phase # "complete" => journal.document \in Document
  /\ helper.phase = "begin" => journal.phase = "complete"
  /\ helper.phase \in {"drain", "drained"} => journal.phase = "draining"
  /\ helper.phase \in {"publish", "confirm"} => journal.phase = "publishing"
  /\ helper.phase \in {"release", "released"} /\ journal.phase = "publishing"
       => desired = journal.previous

\* Each line of the attempt in the journal admits no call.
Closed == \A l \in journal.lines : drain[l] = journal.document.attempt

DrainInv ==
  /\ helper.phase = "released" => \A l \in helper.resumed : drain[l] = NoOne
  /\ helper.phase \in {"drained", "publish", "confirm"} => Closed
  /\ journal.phase = "publishing" => Closed \/ desired = journal.previous
  /\ journal.phase # "complete" => journal.previous # journal.document

\* The operation has yet to begin an attempt of its own.
Before == \/ helper.phase \in {"recover", "begin"}
          \/ helper.phase \in {"release", "released"} /\ ~helper.cleanup

\* An Apply that has not begun has left no trace.
ApplyInv ==
  /\ helper.caller \in Selection \cup UserApply \cup {NoOne}
  /\ \A u \in UserApply : u \notin applies =>
       desired.attempt # u /\ journal.document.attempt # u /\ helper.caller # u
  /\ helper.caller \in UserApply /\ Before =>
       desired.attempt # helper.caller /\ journal.document.attempt # helper.caller

\* Nothing was published for the selection, or is going to be.
Clear(s) == s \notin published /\ helper.caller # s /\ journal.document.attempt # s

LedgerInv ==
  \A s \in Selection :
    /\ selection[s].state \in {"none", "pending"} => selection[s].attempts = 0
    /\ selection[s].attempts = 0 => Clear(s)
    /\ selection[s].state = "canceled" => Clear(s)

\* Up to the publication, and once the attempt is rejected.
Unpublished ==
  \/ Before
  \/ helper.phase \in {"drain", "drained", "publish"}
  \/ helper.phase \in {"release", "released"} /\ helper.code = "rejected"

\* What Core's task waits for, and what a rejection tells it.
TaskInv ==
  /\ task # NoTask => task.of \in Selection /\ selection[task.of].state = "unknown"
  /\ helper.heard => task.phase = "waiting" /\ task.of = helper.caller
  /\ helper.caller \in Selection /\ selection[helper.caller].attempts = 1 /\ Unpublished
       => helper.caller \notin published
  /\ task.phase = "answered" /\ task.code = "rejected"
       /\ selection[task.of].attempts = 1 => Clear(task.of)

ExitSafe ==
  JournalInv /\ DrainInv /\ ApplyInv /\ LedgerInv /\ TaskInv /\ NoOrphanedDrain

-----------------------------------------------------------------------------
(* Types.                                                                  *)

LEMMA ExitConstants ==
  /\ NoHelp \in HelperState /\ NoTask \in TaskState /\ Complete \in JournalState
  /\ 1 \in 1..MaxRevision /\ 1 \in 1..MaxGeneration /\ 0 \in 0..MaxAttempts
  /\ NoDocument \in AnyDocument /\ NoDocument.attempt = NoOne
<1>1. 1 \in 1..MaxRevision /\ 1 \in 1..MaxGeneration /\ 0 \in 0..MaxAttempts
  BY ExitAssumption
<1>2. NoDocument \in AnyDocument /\ NoDocument.attempt = NoOne
  BY DEF AnyDocument, NoDocument
<1>3. NoHelp \in HelperState
  BY <1>1 DEF NoHelp, HelperState, Answers
<1>4. NoTask \in TaskState
  BY <1>2 DEF NoTask, TaskState, Answers
<1>5. Complete \in JournalState
  <2>1. [l \in Line |-> 1] \in [Line -> 1..MaxGeneration]
    BY <1>1
  <2> QED BY <1>2, <2>1 DEF Complete, JournalState, Results
<1> QED BY <1>1, <1>2, <1>3, <1>4, <1>5

\* The ways an operation of the helper goes on.
LEMMA ReplyType ==
  ASSUME XTypeOK, NEW code \in Answers, NEW document \in AnyDocument,
         Reply(code, document)
  PROVE  helper' \in HelperState /\ task' \in TaskState
<1>1. task \in TaskState
  BY DEF XTypeOK
<1>2. [task EXCEPT !.phase = "answered", !.code = code, !.answer = document] \in TaskState
  BY <1>1 DEF TaskState
<1> QED BY <1>1, <1>2, ExitConstants DEF Reply, Conclude

LEMMA GoesToType ==
  ASSUME XTypeOK,
         NEW phase \in {"recover", "release", "released", "begin", "drain", "drained",
                        "publish", "confirm"},
         HelperGoesTo(phase)
  PROVE  helper' \in HelperState /\ task' \in TaskState
BY DEF XTypeOK, HelperGoesTo, HelperState

LEMMA CleanType ==
  ASSUME XTypeOK, NEW code \in Answers, Clean(code)
  PROVE  helper' \in HelperState
BY DEF XTypeOK, Clean, HelperState

LEMMA ReleasedType ==
  ASSUME XTypeOK, NEW ok \in BOOLEAN, Released(ok)
  PROVE  helper' \in HelperState /\ task' \in TaskState
<1>1. /\ "failed" \in Answers /\ "applied" \in Answers /\ NoDocument \in AnyDocument
      /\ helper.code \in Answers /\ journal.document \in AnyDocument
  BY ExitConstants DEF XTypeOK, HelperState, JournalState, Answers
<1>2. \/ \E code \in Answers, document \in AnyDocument : Reply(code, document)
      \/ HelperGoesTo("begin")
  BY <1>1 DEF Released
<1> QED BY <1>2, ReplyType, GoesToType

LEMMA CoreTypes ==
  ASSUME XTypeOK, CoreStep
  PROVE  XTypeOK'
<1>0. /\ selection \in [Selection -> SelectionState] /\ task \in TaskState
      /\ helper \in HelperState
  BY DEF XTypeOK
<1>1. ASSUME NEW s \in Selection, Select(s) PROVE XTypeOK'
  <2>1. /\ desired \in AnyDocument /\ generation[Failing] \in 1..MaxGeneration
    BY ExitAssumption DEF XTypeOK, AnyDocument
  <2>2. [state |-> "pending", attempts |-> 0, expected |-> desired,
         provider |-> generation[Failing]] \in SelectionState
    BY <2>1, ExitConstants DEF SelectionState
  <2>3. selection' \in [Selection -> SelectionState]
    BY <1>0, <1>1, <2>2 DEF Select
  <2> QED BY <1>1, <2>3 DEF Select, XTypeOK, publicVars, providerVars
<1>2. ASSUME NEW s \in Selection,
             NEW state \in {"unknown", "applied", "canceled", "superseded"}
      PROVE  [selection EXCEPT ![s].state = state] \in [Selection -> SelectionState]
  <2>1. selection[s] \in SelectionState
    BY <1>0
  <2>2. [selection[s] EXCEPT !.state = state] \in SelectionState
    BY <2>1 DEF SelectionState
  <2> QED BY <1>0, <2>2
<1>3. ASSUME NEW s \in Selection, CancelUnattempted(s) \/ Supersede(s) PROVE XTypeOK'
  BY <1>2, <1>3 DEF CancelUnattempted, Supersede, XTypeOK, publicVars, providerVars
<1>4. ASSUME NEW s \in Selection, Claim(s) PROVE XTypeOK'
  <2>1. selection[s] \in SelectionState /\ selection[s].attempts + 1 \in 0..MaxAttempts
    BY <1>0, <1>4, ExitAssumption DEF Claim, MayAttempt, SelectionState
  <2>2. [selection[s] EXCEPT !.attempts = @ + 1, !.state = "unknown"] \in SelectionState
    BY <2>1 DEF SelectionState
  <2>3. selection' \in [Selection -> SelectionState]
    BY <1>0, <1>4, <2>2 DEF Claim
  <2>4. CASE /\ helper' = [NoHelp EXCEPT !.phase = "recover", !.caller = s,
                 !.revision = selection[s].expected.revision, !.heard = TRUE]
             /\ task' = [NoTask EXCEPT !.phase = "waiting", !.of = s]
    <3>1. selection[s].expected.revision \in 1..MaxRevision
      BY <2>1, ExitConstants DEF SelectionState, AnyDocument, Document, NoDocument
    <3>2. helper' \in HelperState
      BY <2>4, <3>1, ExitConstants DEF HelperState, Attempt
    <3>3. task' \in TaskState
      BY <2>4, ExitConstants DEF TaskState
    <3> QED BY <1>4, <2>3, <3>2, <3>3 DEF Claim, XTypeOK, publicVars, providerVars
  <2>5. CASE /\ task' = [NoTask EXCEPT !.phase = "answered", !.of = s, !.code = "failed"]
             /\ UNCHANGED helper
    <3>1. task' \in TaskState
      BY <2>5, ExitConstants DEF TaskState, Answers
    <3> QED BY <1>4, <2>3, <2>5, <3>1 DEF Claim, XTypeOK, publicVars, providerVars
  <2> QED BY <1>4, <2>4, <2>5 DEF Claim
<1>5. CASE RecordAnswer
  <2>1. CASE task.of \in Selection
    <3>1. PICK state \in Recorded(task.of) :
            selection' = [selection EXCEPT ![task.of].state = state]
      BY <1>5 DEF RecordAnswer
    <3>2. state \in {"unknown", "applied", "canceled", "superseded"}
      BY <3>1 DEF Recorded
    <3>3. selection' \in [Selection -> SelectionState]
      BY <1>2, <2>1, <3>1, <3>2
    <3> QED BY <1>5, <3>3, ExitConstants DEF RecordAnswer, XTypeOK, publicVars, providerVars
  <2>2. CASE task.of \notin Selection
    <3>1. selection' = selection
      BY <1>0, <1>5, <2>2 DEF RecordAnswer
    <3> QED BY <1>5, <3>1, ExitConstants DEF RecordAnswer, XTypeOK, publicVars, providerVars
  <2> QED BY <2>1, <2>2
<1>6. CASE LoseAnswer
  <2>1. helper' \in HelperState
    BY <1>0, <1>6 DEF LoseAnswer, HelperState
  <2> QED BY <1>6, <2>1, ExitConstants DEF LoseAnswer, XTypeOK, publicVars, providerVars
<1>7. CASE UserSaves
  BY <1>7, ExitAssumption DEF UserSaves, XTypeOK, managerVars, publicVars, providerVars
<1>8. ASSUME NEW u \in UserApply, UserApplies(u) PROVE XTypeOK'
  <2>1. helper' \in HelperState
    BY <1>8, ExitConstants DEF UserApplies, HelperState, Attempt, XTypeOK
  <2> QED BY <1>8, <2>1 DEF UserApplies, XTypeOK, managerVars, publicVars, providerVars
<1> QED BY <1>1, <1>3, <1>4, <1>5, <1>6, <1>7, <1>8 DEF CoreStep

LEMMA HelperTypes ==
  ASSUME XTypeOK, JournalInv, HelperStep
  PROVE  XTypeOK'
<1> USE DEF managerVars, publicVars, providerVars
<1>0. /\ helper \in HelperState /\ journal \in JournalState /\ task \in TaskState
      /\ drain \in [Line -> Attempt \cup {NoOne}] /\ runtime \in RuntimeState
      /\ desired \in Document /\ desired \in AnyDocument
      /\ generation \in [Line -> 1..MaxGeneration]
      /\ saved \in 1..MaxRevision
  BY DEF XTypeOK, AnyDocument
<1>1. /\ "failed" \in Answers /\ "applied" \in Answers /\ "rejected" \in Answers
      /\ "" \in Answers /\ NoDocument \in AnyDocument
  BY ExitConstants DEF Answers
<1>2. ASSUME NEW code \in Answers, NEW document \in AnyDocument, Reply(code, document)
      PROVE  helper' \in HelperState /\ task' \in TaskState
  BY <1>2, ReplyType
<1>3. ASSUME NEW ended \in SUBSET Line, NEW a \in Attempt \cup {NoOne},
             drain' = [l \in Line |-> IF l \in ended THEN a ELSE drain[l]]
      PROVE  drain' \in [Line -> Attempt \cup {NoOne}]
  BY <1>0, <1>3
<1>4. journal.document.attempt \in Attempt \cup {NoOne} /\ journal.lines \subseteq Line
  BY <1>0 DEF JournalState, AnyDocument, Document, NoDocument
<1>5. ASSUME NEW phase \in {"drained", "publishing", "confirmed"}, NEW result \in Results
      PROVE  /\ [journal EXCEPT !.phase = phase] \in JournalState
             /\ [journal EXCEPT !.phase = phase, !.result = result] \in JournalState
  BY <1>0 DEF JournalState
<1>6. runtime.outcome \in Results
  BY <1>0 DEF RuntimeState
<1>7. CASE ResumeAttempt
  <2>1. helper' \in HelperState
    BY <1>7, ExitConstants DEF ResumeAttempt, HelperState
  <2> QED BY <1>7, <2>1 DEF ResumeAttempt, XTypeOK
<1>8. CASE HelperCrashes
  BY <1>1, <1>2, <1>8 DEF HelperCrashes, XTypeOK
<1>9. CASE Recover
  <2>1. helper' \in HelperState /\ task' \in TaskState
    BY <1>1, <1>2, <1>9, GoesToType DEF Recover
  <2>2. journal' \in JournalState
    BY <1>0, <1>5, <1>6, <1>9 DEF Recover
  <2> QED BY <1>9, <2>1, <2>2 DEF Recover, XTypeOK
<1>10. CASE ReleaseLeases
  <2>1. ASSUME NEW reached \in SUBSET {l \in journal.lines :
                                         generation[l] = journal.providers[l]},
               NEW ended \in SUBSET {l \in reached : drain[l] = journal.document.attempt},
               NEW heard \in SUBSET ended,
               drain' = [l \in Line |-> IF l \in ended THEN NoOne ELSE drain[l]],
               journal' = [journal EXCEPT !.lines =
                 @ \ (reached \ {l \in reached : drain[l] = journal.document.attempt})],
               helper' = [helper EXCEPT !.phase = "released", !.resumed = heard],
               UNCHANGED task
        PROVE  /\ helper' \in HelperState /\ task' \in TaskState
               /\ journal' \in JournalState /\ drain' \in [Line -> Attempt \cup {NoOne}]
    <3>1. ended \subseteq Line /\ heard \subseteq Line
      BY <1>4
    <3>2. drain' \in [Line -> Attempt \cup {NoOne}]
      BY <1>3, <2>1, <3>1
    <3>3. journal' \in JournalState
      BY <1>0, <2>1 DEF JournalState
    <3>4. helper' \in HelperState
      BY <1>0, <2>1, <3>1 DEF HelperState
    <3> QED BY <1>0, <2>1, <3>2, <3>3, <3>4
  <2>2. CASE journal' = Complete /\ Released(TRUE) /\ UNCHANGED drain
    BY <1>10, <2>2, ReleasedType, ExitConstants DEF ReleaseLeases, XTypeOK
  <2>3. CASE Released(FALSE) /\ UNCHANGED <<journal, drain>>
    BY <1>10, <2>3, ReleasedType DEF ReleaseLeases, XTypeOK
  <2>4. \/ /\ helper' \in HelperState /\ task' \in TaskState
           /\ journal' \in JournalState /\ drain' \in [Line -> Attempt \cup {NoOne}]
        \/ journal' = Complete /\ Released(TRUE) /\ UNCHANGED drain
        \/ Released(FALSE) /\ UNCHANGED <<journal, drain>>
    BY <1>10, <2>1 DEF ReleaseLeases
  <2> QED BY <1>10, <2>2, <2>3, <2>4 DEF ReleaseLeases, XTypeOK
<1>11. CASE SaveRelease
  <2>1. [journal EXCEPT !.lines = StillHeld] \in JournalState
    BY <1>0 DEF JournalState, StillHeld
  <2>2. helper' \in HelperState /\ task' \in TaskState
    BY <1>11, ReleasedType DEF SaveRelease
  <2> QED BY <1>11, <2>1, <2>2, ExitConstants DEF SaveRelease, XTypeOK
<1>12. CASE BeginRefused
  BY <1>1, <1>2, <1>12 DEF BeginRefused, XTypeOK
<1>13. CASE BeginUnchanged
  <2>1. drain' \in [Line -> Attempt \cup {NoOne}]
    BY <1>3, <1>13 DEF BeginUnchanged
  <2>2. helper' \in HelperState /\ task' \in TaskState
    BY <1>0, <1>1, <1>2, <1>13 DEF BeginUnchanged
  <2> QED BY <1>13, <2>1, <2>2 DEF BeginUnchanged, XTypeOK
<1>14. CASE Begin
  <2>1. PICK present \in SUBSET Line :
         journal' = [phase |-> "draining",
           document |-> [attempt |-> helper.caller, revision |-> saved],
           lines |-> present, providers |-> generation, previous |-> desired,
           before |-> IF runtime.confirmed THEN runtime.applied ELSE NoDocument,
           result |-> "none"]
    BY <1>14 DEF Begin
  <2>2. helper.caller \in Attempt
    BY <1>0, <1>14 DEF Begin, HelperState
  <2>3. [attempt |-> helper.caller, revision |-> saved] \in AnyDocument
    BY <1>0, <2>2 DEF AnyDocument, Document
  <2>4. (IF runtime.confirmed THEN runtime.applied ELSE NoDocument) \in AnyDocument
    BY <1>0, <1>1 DEF RuntimeState
  <2>5. journal' \in JournalState
    BY <1>0, <2>1, <2>3, <2>4 DEF JournalState, Results
  <2>6. helper' \in HelperState /\ task' \in TaskState
    BY <1>14, GoesToType DEF Begin
  <2> QED BY <1>14, <2>5, <2>6 DEF Begin, XTypeOK
<1>15. CASE DrainLines
  <2>1. drain' \in [Line -> Attempt \cup {NoOne}]
    BY <1>0, <1>4, <1>15 DEF DrainLines
  <2>2. HelperGoesTo("drained") \/ (Clean("failed") /\ UNCHANGED task)
    BY <1>15 DEF DrainLines
  <2>3. helper' \in HelperState /\ task' \in TaskState
    BY <1>0, <1>1, <2>2, GoesToType, CleanType
  <2> QED BY <1>15, <2>1, <2>3 DEF DrainLines, XTypeOK
<1>16. CASE Refuse
  <2>1. journal' \in JournalState /\ helper' \in HelperState
    BY <1>1, <1>5, <1>6, <1>16, CleanType DEF Refuse
  <2> QED BY <1>16, <2>1 DEF Refuse, XTypeOK
<1>17. CASE AuthorizeAttempt
  <2>1. /\ journal' \in JournalState /\ helper' \in HelperState /\ task' \in TaskState
    BY <1>5, <1>6, <1>17, GoesToType DEF AuthorizeAttempt
  <2> QED BY <1>17, <2>1 DEF AuthorizeAttempt, XTypeOK
<1>18. CASE Publish
  <2>0. journal.document \in Document
    BY <1>18 DEF Publish, JournalInv
  <2>1. helper' \in HelperState /\ task' \in TaskState
    BY <1>1, <1>2, <1>18, GoesToType DEF Publish
  <2>2. desired' \in Document /\ published' \subseteq Selection
    BY <1>18, <2>0 DEF Publish, XTypeOK
  <2> QED BY <1>18, <2>1, <2>2 DEF Publish, XTypeOK
<1>19. CASE Confirm
  <2>1. /\ helper' \in HelperState /\ task' \in TaskState
    BY <1>0, <1>1, <1>2, <1>19, CleanType DEF Confirm
  <2>2. journal' \in JournalState
    BY <1>0, <1>5, <1>6, <1>19 DEF Confirm
  <2> QED BY <1>19, <2>1, <2>2 DEF Confirm, XTypeOK
<1> QED
  BY <1>7, <1>8, <1>9, <1>10, <1>11, <1>12, <1>13, <1>14, <1>15, <1>16, <1>17, <1>18,
     <1>19 DEF HelperStep

\* The runner and the providers.
LEMMA OtherTypes ==
  ASSUME XTypeOK, RunnerSettles \/ RunnerRestarts \/ \E l \in Line : ProviderRestarts(l)
  PROVE  XTypeOK'
<1> USE DEF managerVars, publicVars, providerVars
<1>0. /\ runtime \in RuntimeState /\ desired \in Document /\ desired \in AnyDocument
      /\ generation \in [Line -> 1..MaxGeneration]
  BY DEF XTypeOK, AnyDocument
<1>1. CASE RunnerSettles
  <2>1. runtime' \in RuntimeState
    BY <1>0, <1>1 DEF RunnerSettles, RuntimeState
  <2> QED BY <1>1, <2>1 DEF RunnerSettles, XTypeOK
<1>2. CASE RunnerRestarts
  <2>1. runtime' \in RuntimeState
    BY <1>0, <1>2, ExitConstants DEF RunnerRestarts, RuntimeState
  <2> QED BY <1>2, <2>1 DEF RunnerRestarts, XTypeOK
<1>3. ASSUME NEW l \in Line, ProviderRestarts(l) PROVE XTypeOK'
  <2>1. generation[l] + 1 \in 1..MaxGeneration
    BY <1>0, <1>3, ExitAssumption DEF ProviderRestarts
  <2>2. generation' \in [Line -> 1..MaxGeneration]
    BY <1>0, <1>3, <2>1 DEF ProviderRestarts
  <2> QED BY <1>3, <2>2 DEF ProviderRestarts, XTypeOK
<1> QED BY <1>1, <1>2, <1>3

-----------------------------------------------------------------------------
(* How an operation of the helper goes on.                                 *)

LEMMA NoHelpFields ==
  /\ NoHelp.phase = "idle" /\ NoHelp.caller = NoOne /\ NoHelp.heard = FALSE
  /\ NoTask.phase = "idle" /\ NoTask.of = NoOne
  /\ Complete.phase = "complete" /\ Complete.document.attempt = NoOne
  /\ Complete.lines = {}
  /\ NoOne \notin Selection /\ NoOne \notin UserApply /\ Selection \cap UserApply = {}
BY ExitAssumption DEF NoHelp, NoTask, Complete, NoDocument

LEMMA LedgerKept ==
  ASSUME LedgerInv, UNCHANGED selection,
         \A s \in Selection : Clear(s) => Clear(s)'
  PROVE  LedgerInv'
BY DEF LedgerInv

\* The answer reaches the task if it is still waiting.
LEMMA ReplyTask ==
  ASSUME XTypeOK, TaskInv, UNCHANGED selection, NEW code, NEW document,
         \A s \in Selection : Clear(s) => Clear(s)',
         Reply(code, document),
         \A s \in Selection :
           code = "rejected" /\ helper.caller = s /\ selection[s].attempts = 1 => Clear(s)'
  PROVE  TaskInv'
<1>1. helper' = NoHelp
  BY DEF Reply
<1>2. helper'.heard = FALSE /\ helper'.caller \notin Selection
  BY <1>1, NoHelpFields
<1>3. CASE ~helper.heard
  <2>1. task' = task
    BY <1>3 DEF Reply
  <2>2. task # NoTask => task.of \in Selection /\ selection[task.of].state = "unknown"
    BY DEF TaskInv
  <2>3. ASSUME task.phase = "answered", task.code = "rejected",
               selection[task.of].attempts = 1, NEW s \in Selection, task.of = s
        PROVE  Clear(s)'
    BY <2>3 DEF TaskInv
  <2>4. task.phase = "answered" => task # NoTask
    BY NoHelpFields
  <2> QED BY <1>2, <2>1, <2>2, <2>3, <2>4 DEF TaskInv, Clear
<1>4. CASE helper.heard
  <2>1. /\ task.phase = "waiting" /\ task.of = helper.caller /\ task # NoTask
        /\ task.of \in Selection /\ selection[task.of].state = "unknown"
    BY <1>4, NoHelpFields DEF TaskInv
  <2>2. task' = [task EXCEPT !.phase = "answered", !.code = code, !.answer = document]
    BY <1>4 DEF Reply, Conclude
  <2>3. task \in TaskState
    BY DEF XTypeOK
  <2>4. task'.of = task.of /\ task'.code = code
    BY <2>2, <2>3 DEF TaskState
  <2>5. ASSUME task'.code = "rejected", selection'[task'.of].attempts = 1,
               NEW s \in Selection, task'.of = s
        PROVE  Clear(s)'
    BY <2>1, <2>4, <2>5
  <2> QED BY <1>2, <2>1, <2>4, <2>5 DEF TaskInv, Clear
<1> QED BY <1>3, <1>4

\* The operation goes on, and does not come before its publication again.
LEMMA GoesOnTask ==
  ASSUME XTypeOK, TaskInv, UNCHANGED <<selection, task>>,
         \A s \in Selection : Clear(s) => Clear(s)',
         helper'.caller = helper.caller, helper'.heard = helper.heard,
         Unpublished' => Unpublished /\ published' = published
  PROVE  TaskInv'
<1>1. task # NoTask => task.of \in Selection /\ selection[task.of].state = "unknown"
  BY DEF TaskInv
<1>2. task.phase = "answered" => task # NoTask
  BY NoHelpFields
<1>3. ASSUME task.phase = "answered", task.code = "rejected",
             selection[task.of].attempts = 1, NEW s \in Selection, task.of = s
      PROVE  Clear(s)'
  BY <1>3 DEF TaskInv
<1>4. ASSUME helper.caller \in Selection, selection[helper.caller].attempts = 1, Unpublished'
      PROVE  helper.caller \notin published'
  BY <1>4 DEF TaskInv
<1>5. helper'.heard => task.phase = "waiting" /\ task.of = helper.caller
  BY DEF TaskInv
<1> QED BY <1>1, <1>2, <1>3, <1>4, <1>5 DEF TaskInv, Clear

\* The operation ends and leaves the journal as it is: a crash, a failure, a
\* rejection before anything began.
LEMMA ReplyKeeps ==
  ASSUME XTypeOK, ExitSafe, NEW code, NEW document, Reply(code, document),
         code = "rejected" => helper.phase = "begin",
         UNCHANGED <<selection, applies, journal, desired, drain, published>>
  PROVE  ExitSafe'
<1>1. helper' = NoHelp /\ helper'.phase = "idle" /\ helper'.caller = NoOne
  BY NoHelpFields DEF Reply
<1>2. JournalInv'
  BY <1>1 DEF ExitSafe, JournalInv
<1>3. DrainInv'
  BY <1>1 DEF ExitSafe, DrainInv, Closed
<1>4. ApplyInv'
  BY <1>1, NoHelpFields DEF ExitSafe, ApplyInv
<1>5. \A s \in Selection : Clear(s) => Clear(s)'
  BY <1>1, NoHelpFields DEF Clear
<1>6. LedgerInv'
  BY <1>5, LedgerKept DEF ExitSafe
<1>7. ASSUME NEW s \in Selection, code = "rejected", helper.caller = s,
             selection[s].attempts = 1
      PROVE  Clear(s)'
  <2>1. Unpublished /\ journal = Complete
    BY <1>7 DEF Unpublished, Before, ExitSafe, JournalInv
  <2>2. s \notin published
    BY <1>7, <2>1 DEF ExitSafe, TaskInv
  <2> QED BY <1>1, <2>1, <2>2, NoHelpFields DEF Clear
<1>8. TaskInv'
  BY <1>5, <1>7, ReplyTask DEF ExitSafe
<1>9. NoOrphanedDrain'
  BY DEF ExitSafe, NoOrphanedDrain
<1> QED BY <1>2, <1>3, <1>4, <1>6, <1>8, <1>9 DEF ExitSafe

\* The operation goes on; the ledgers of Core do not notice.
LEMMA GoesOnKeeps ==
  ASSUME XTypeOK, ExitSafe, UNCHANGED <<selection, task>>,
         helper'.caller = helper.caller, helper'.heard = helper.heard,
         \A s \in Selection : Clear(s) => Clear(s)',
         Unpublished' => Unpublished /\ published' = published,
         JournalInv', DrainInv', ApplyInv', NoOrphanedDrain'
  PROVE  ExitSafe'
BY LedgerKept, GoesOnTask DEF ExitSafe

LEMMA GoesToFields ==
  ASSUME XTypeOK, NEW phase, HelperGoesTo(phase)
  PROVE  /\ helper'.phase = phase /\ helper'.caller = helper.caller
         /\ helper'.heard = helper.heard /\ helper'.cleanup = helper.cleanup
         /\ helper'.code = helper.code /\ helper'.resumed = helper.resumed
         /\ UNCHANGED task
BY DEF XTypeOK, HelperGoesTo, HelperState

LEMMA CleanFields ==
  ASSUME XTypeOK, NEW code, Clean(code)
  PROVE  /\ helper'.phase = "release" /\ helper'.caller = helper.caller
         /\ helper'.heard = helper.heard /\ helper'.cleanup = TRUE
         /\ helper'.code = code
BY DEF XTypeOK, Clean, HelperState

\* The journal with another phase, the rest of it unchanged.
LEMMA JournalFields ==
  ASSUME XTypeOK, NEW phase, NEW result,
         \/ journal' = [journal EXCEPT !.phase = phase]
         \/ journal' = [journal EXCEPT !.phase = phase, !.result = result]
  PROVE  /\ journal'.phase = phase /\ journal'.document = journal.document
         /\ journal'.lines = journal.lines /\ journal'.previous = journal.previous
BY DEF XTypeOK, JournalState

-----------------------------------------------------------------------------
(* The helper's steps.                                                     *)

LEMMA RecoverSafe ==
  ASSUME XTypeOK, ExitSafe, Recover
  PROVE  ExitSafe'
<1> USE DEF publicVars, providerVars
<1>1. /\ helper.phase = "recover"
      /\ UNCHANGED <<applies, selection, desired, published, drain>>
  BY DEF Recover
<1>2. Before /\ Unpublished
  BY <1>1 DEF Before, Unpublished
<1>3. CASE Reply("failed", NoDocument) /\ UNCHANGED journal
  BY <1>1, <1>3, ReplyKeeps
<1>4. CASE journal.phase = "complete" /\ HelperGoesTo("begin") /\ UNCHANGED journal
  <2>1. /\ helper'.phase = "begin" /\ helper'.caller = helper.caller
        /\ helper'.heard = helper.heard /\ UNCHANGED task
    BY <1>4, GoesToFields
  <2>2. JournalInv' /\ DrainInv'
    BY <1>1, <1>4, <2>1 DEF ExitSafe, JournalInv, DrainInv, Closed
  <2>3. ApplyInv'
    BY <1>1, <1>2, <1>4, <2>1 DEF ExitSafe, ApplyInv
  <2>4. NoOrphanedDrain' /\ \A s \in Selection : Clear(s) => Clear(s)'
    BY <1>1, <1>4, <2>1 DEF ExitSafe, NoOrphanedDrain, Clear
  <2> QED BY <1>1, <1>2, <2>1, <2>2, <2>3, <2>4, GoesOnKeeps
<1>5. CASE /\ journal.phase # "complete" /\ ~NeedsConfirmation
           /\ HelperGoesTo("release") /\ UNCHANGED journal
  <2>1. /\ helper'.phase = "release" /\ helper'.caller = helper.caller
        /\ helper'.heard = helper.heard /\ UNCHANGED task
    BY <1>5, GoesToFields
  <2>2. JournalInv' /\ DrainInv'
    BY <1>1, <1>5, <2>1 DEF ExitSafe, JournalInv, DrainInv, Closed, NeedsConfirmation
  <2>3. ApplyInv'
    BY <1>1, <1>2, <1>5, <2>1 DEF ExitSafe, ApplyInv
  <2>4. NoOrphanedDrain' /\ \A s \in Selection : Clear(s) => Clear(s)'
    BY <1>1, <1>5, <2>1 DEF ExitSafe, NoOrphanedDrain, Clear
  <2> QED BY <1>1, <1>2, <2>1, <2>2, <2>3, <2>4, GoesOnKeeps
<1>6. CASE /\ NeedsConfirmation /\ HelperGoesTo("release")
           /\ journal' = [journal EXCEPT !.phase = "confirmed", !.result = runtime.outcome]
  <2>1. /\ helper'.phase = "release" /\ helper'.caller = helper.caller
        /\ helper'.heard = helper.heard /\ UNCHANGED task
    BY <1>6, GoesToFields
  <2>2. /\ journal'.phase = "confirmed" /\ journal'.document = journal.document
        /\ journal'.lines = journal.lines /\ journal'.previous = journal.previous
        /\ journal.phase = "publishing"
    BY <1>6, JournalFields DEF NeedsConfirmation
  <2>3. JournalInv' /\ DrainInv'
    BY <1>1, <2>1, <2>2 DEF ExitSafe, JournalInv, DrainInv, Closed
  <2>4. ApplyInv'
    BY <1>1, <1>2, <2>1, <2>2 DEF ExitSafe, ApplyInv
  <2>5. NoOrphanedDrain' /\ \A s \in Selection : Clear(s) => Clear(s)'
    BY <1>1, <2>1, <2>2 DEF ExitSafe, NoOrphanedDrain, Clear
  <2> QED BY <1>1, <1>2, <2>1, <2>3, <2>4, <2>5, GoesOnKeeps
<1> QED BY <1>3, <1>4, <1>5, <1>6 DEF Recover

\* The attempt in the journal is over: no provider is drained any more.
LEMMA CompletedSafe ==
  ASSUME XTypeOK, ExitSafe, helper.phase \in {"release", "released"},
         journal' = Complete, Released(TRUE), \A l \in Line : drain[l] = NoOne,
         UNCHANGED <<applies, selection, desired, published, drain>>
  PROVE  ExitSafe'
<1>1. /\ journal'.phase = "complete" /\ journal'.document.attempt = NoOne
      /\ journal'.lines = {}
  BY NoHelpFields
<1>2. NoOrphanedDrain'
  BY DEF NoOrphanedDrain
<1>3. CASE HelperGoesTo("begin") /\ ~helper.cleanup
  <2>1. /\ helper'.phase = "begin" /\ helper'.caller = helper.caller
        /\ helper'.heard = helper.heard /\ UNCHANGED task
    BY <1>3, GoesToFields
  <2>2. Before /\ Unpublished
    BY <1>3 DEF Before, Unpublished
  <2>3. JournalInv' /\ DrainInv'
    BY <1>1, <2>1 DEF JournalInv, DrainInv
  <2>4. ApplyInv'
    BY <1>1, <2>1, <2>2, NoHelpFields DEF ExitSafe, ApplyInv
  <2>5. \A s \in Selection : Clear(s) => Clear(s)'
    BY <1>1, <2>1, NoHelpFields DEF Clear
  <2> QED BY <1>2, <2>1, <2>2, <2>3, <2>4, <2>5, GoesOnKeeps
<1>4. ASSUME NEW code, NEW document, Reply(code, document),
             code = "rejected" => helper.cleanup /\ helper.code = "rejected"
      PROVE  ExitSafe'
  <2>1. helper' = NoHelp /\ helper'.phase = "idle" /\ helper'.caller = NoOne
    BY <1>4, NoHelpFields DEF Reply
  <2>2. JournalInv' /\ DrainInv'
    BY <1>1, <2>1 DEF JournalInv, DrainInv
  <2>3. ApplyInv'
    BY <1>1, <2>1, NoHelpFields DEF ExitSafe, ApplyInv
  <2>4. \A s \in Selection : Clear(s) => Clear(s)'
    BY <1>1, <2>1, NoHelpFields DEF Clear
  <2>5. ASSUME NEW s \in Selection, code = "rejected", helper.caller = s,
               selection[s].attempts = 1
        PROVE  Clear(s)'
    <3>1. Unpublished
      BY <1>4, <2>5 DEF Unpublished
    <3>2. s \notin published
      BY <2>5, <3>1 DEF ExitSafe, TaskInv
    <3> QED BY <1>1, <2>1, <3>2, NoHelpFields DEF Clear
  <2>6. TaskInv'
    BY <1>4, <2>4, <2>5, ReplyTask DEF ExitSafe
  <2> QED BY <1>2, <2>2, <2>3, <2>4, <2>6, LedgerKept DEF ExitSafe
<1>5. \/ HelperGoesTo("begin") /\ ~helper.cleanup
      \/ Reply(helper.code, journal.document) /\ helper.cleanup
      \/ Reply("applied", journal.document)
      \/ Reply("failed", NoDocument)
  BY DEF Released
<1> QED BY <1>3, <1>4, <1>5

\* A provider that no longer holds the lease is not held by it.
LEMMA ReleaseSafe ==
  ASSUME XTypeOK, ExitSafe, ReleaseLeases
  PROVE  ExitSafe'
<1>0. /\ helper.phase = "release"
      /\ UNCHANGED <<applies, selection, desired, published>>
  BY DEF ReleaseLeases, publicVars
<1>1. CASE Released(FALSE) /\ UNCHANGED <<journal, drain>>
  <2>1. Reply("failed", NoDocument)
    BY <1>1 DEF Released
  <2> QED BY <1>0, <1>1, <2>1, ReplyKeeps
<1>2. CASE journal.lines = {} /\ journal' = Complete /\ Released(TRUE) /\ UNCHANGED drain
  <2>1. \A l \in Line : drain[l] = NoOne
    BY <1>2 DEF ExitSafe, NoOrphanedDrain
  <2> QED BY <1>0, <1>2, <2>1, CompletedSafe
<1>3. ASSUME journal.lines # {},
             NEW reached \in SUBSET journal.lines,
             NEW held, held = {l \in reached : drain[l] = journal.document.attempt},
             NEW ended \in SUBSET held, NEW heard \in SUBSET ended,
             drain' = [l \in Line |-> IF l \in ended THEN NoOne ELSE drain[l]],
             journal' = [journal EXCEPT !.lines = @ \ (reached \ held)],
             helper' = [helper EXCEPT !.phase = "released", !.resumed = heard],
             UNCHANGED task
      PROVE  ExitSafe'
  <2>1. helper \in HelperState /\ journal \in JournalState /\ journal.lines \subseteq Line
    BY DEF XTypeOK, JournalState
  <2>2. /\ helper'.phase = "released" /\ helper'.resumed = heard
        /\ helper'.caller = helper.caller /\ helper'.heard = helper.heard
        /\ helper'.cleanup = helper.cleanup /\ helper'.code = helper.code
    BY <1>3, <2>1 DEF HelperState
  <2>3. /\ journal'.phase = journal.phase /\ journal'.document = journal.document
        /\ journal'.previous = journal.previous
        /\ journal'.lines = journal.lines \ (reached \ held)
    BY <1>3, <2>1 DEF JournalState
  <2>4. journal.phase # "complete"
    BY <1>3, NoHelpFields DEF ExitSafe, JournalInv
  <2>5. JournalInv'
    BY <1>0, <2>2, <2>3, <2>4 DEF ExitSafe, JournalInv
  <2>6. DrainInv'
    <3>1. \A l \in heard : drain'[l] = NoOne
      BY <1>3, <2>1
    <3>2. journal'.phase = "publishing" => desired' = journal'.previous
      BY <1>0, <2>3 DEF ExitSafe, JournalInv
    <3> QED BY <2>2, <2>3, <3>1, <3>2 DEF ExitSafe, DrainInv
  <2>7. ApplyInv'
    BY <1>0, <2>2, <2>3 DEF ExitSafe, ApplyInv, Before
  <2>8. NoOrphanedDrain'
    <3> SUFFICES ASSUME NEW l \in Line, drain'[l] # NoOne
                 PROVE  /\ journal'.phase # "complete" /\ l \in journal'.lines
                        /\ drain'[l] = journal'.document.attempt
      BY DEF NoOrphanedDrain
    <3>1. drain'[l] = drain[l]
      BY <1>3
    <3>2. l \in journal.lines /\ drain[l] = journal.document.attempt
      BY <3>1 DEF ExitSafe, NoOrphanedDrain
    <3> QED BY <1>3, <2>3, <2>4, <3>1, <3>2
  <2>9. \A s \in Selection : Clear(s) => Clear(s)'
    BY <1>0, <2>2, <2>3 DEF Clear
  <2>10. Unpublished' => Unpublished
    BY <1>0, <2>2 DEF Unpublished, Before
  <2> QED BY <1>0, <1>3, <2>2, <2>5, <2>6, <2>7, <2>8, <2>9, <2>10, GoesOnKeeps
<1>4. \/ Released(FALSE) /\ UNCHANGED <<journal, drain>>
      \/ journal.lines = {} /\ journal' = Complete /\ Released(TRUE) /\ UNCHANGED drain
      \/ /\ journal.lines # {}
         /\ \E reached \in SUBSET journal.lines :
              \E held \in {{l \in reached : drain[l] = journal.document.attempt}} :
              \E ended \in SUBSET held : \E heard \in SUBSET ended :
               /\ drain' = [l \in Line |-> IF l \in ended THEN NoOne ELSE drain[l]]
               /\ journal' = [journal EXCEPT !.lines = @ \ (reached \ held)]
               /\ helper' = [helper EXCEPT !.phase = "released", !.resumed = heard]
               /\ UNCHANGED task
  BY DEF ReleaseLeases
<1> QED BY <1>1, <1>2, <1>3, <1>4

LEMMA SaveReleaseSafe ==
  ASSUME XTypeOK, ExitSafe, SaveRelease
  PROVE  ExitSafe'
<1>0. /\ helper.phase = "released"
      /\ UNCHANGED <<applies, selection, desired, published, drain>>
  BY DEF SaveRelease, publicVars, providerVars
<1>1. ASSUME NEW l \in Line, drain[l] # NoOne
      PROVE  /\ l \in StillHeld /\ journal.phase # "complete"
             /\ drain[l] = journal.document.attempt
  BY <1>0, <1>1 DEF ExitSafe, NoOrphanedDrain, DrainInv, StillHeld
<1>2. CASE StillHeld = {}
  <2>1. journal' = Complete /\ Released(TRUE)
    BY <1>2 DEF SaveRelease
  <2> QED BY <1>0, <1>1, <1>2, <2>1, CompletedSafe
<1>3. CASE StillHeld # {}
  <2>1. /\ journal' = [journal EXCEPT !.lines = StillHeld] /\ Reply("failed", NoDocument)
    BY <1>3 DEF SaveRelease, Released
  <2>2. /\ journal'.phase = journal.phase /\ journal'.document = journal.document
        /\ journal'.previous = journal.previous /\ journal'.lines = StillHeld
    BY <2>1 DEF XTypeOK, JournalState
  <2>3. helper' = NoHelp /\ helper'.phase = "idle" /\ helper'.caller = NoOne
    BY <2>1, NoHelpFields DEF Reply
  <2>4. journal.phase # "complete"
    BY <1>3, NoHelpFields DEF StillHeld, ExitSafe, JournalInv
  <2>5. JournalInv'
    BY <2>2, <2>3, <2>4 DEF ExitSafe, JournalInv
  <2>6. DrainInv'
    BY <1>0, <2>2, <2>3 DEF ExitSafe, JournalInv, DrainInv
  <2>7. ApplyInv'
    BY <1>0, <2>2, <2>3, NoHelpFields DEF ExitSafe, ApplyInv
  <2>8. NoOrphanedDrain'
    BY <1>0, <1>1, <2>2 DEF NoOrphanedDrain
  <2>9. \A s \in Selection : Clear(s) => Clear(s)'
    BY <1>0, <2>2, <2>3, NoHelpFields DEF Clear
  <2>10. TaskInv'
    BY <1>0, <2>1, <2>9, ReplyTask DEF ExitSafe
  <2> QED BY <1>0, <2>5, <2>6, <2>7, <2>8, <2>9, <2>10, LedgerKept DEF ExitSafe
<1> QED BY <1>2, <1>3

LEMMA BeginSafe ==
  ASSUME XTypeOK, ExitSafe, BeginRefused \/ BeginUnchanged \/ Begin
  PROVE  ExitSafe'
<1> USE DEF publicVars, providerVars
<1>0. helper.phase = "begin" /\ journal.phase = "complete"
  BY DEF BeginRefused, BeginUnchanged, Begin, ExitSafe, JournalInv
<1>1. \A l \in Line : drain[l] = NoOne
  BY <1>0 DEF ExitSafe, NoOrphanedDrain
<1>2. CASE BeginRefused
  BY <1>0, <1>2, ReplyKeeps DEF BeginRefused
<1>3. CASE BeginUnchanged
  <2>1. drain' = drain
    BY <1>1, <1>3 DEF BeginUnchanged, XTypeOK
  <2> QED BY <1>3, <2>1, ReplyKeeps DEF BeginUnchanged
<1>4. CASE Begin
  <2>1. /\ helper'.phase = "drain" /\ helper'.caller = helper.caller
        /\ helper'.heard = helper.heard /\ UNCHANGED task
    BY <1>4, GoesToFields DEF Begin
  <2>2. /\ journal'.phase = "draining" /\ journal'.previous = desired
        /\ journal'.document = [attempt |-> helper.caller, revision |-> saved]
        /\ journal'.document.attempt = helper.caller
    BY <1>4 DEF Begin
  <2>3. UNCHANGED <<applies, selection, desired, published, drain>> /\ helper.caller # NoOne
    BY <1>4 DEF Begin
  <2>4. helper.caller \in Attempt /\ saved \in 1..MaxRevision
    BY <2>3 DEF XTypeOK, HelperState
  <2>5. desired.attempt # helper.caller
    <3>1. CASE helper.caller \in Selection
      BY <1>4, <3>1 DEF Begin
    <3>2. CASE helper.caller \in UserApply
      BY <1>0, <3>2 DEF ExitSafe, ApplyInv, Before
    <3> QED BY <2>3, <3>1, <3>2 DEF ExitSafe, ApplyInv
  <2>6. JournalInv'
    BY <2>1, <2>2, <2>4 DEF JournalInv, Document
  <2>7. DrainInv'
    BY <2>1, <2>2, <2>5 DEF DrainInv
  <2>8. ApplyInv'
    BY <2>1, <2>2, <2>3 DEF ExitSafe, ApplyInv, Before
  <2>9. NoOrphanedDrain'
    BY <1>1, <2>3 DEF NoOrphanedDrain
  <2>10. \A s \in Selection : Clear(s) => Clear(s)'
    BY <2>1, <2>2, <2>3 DEF Clear
  <2>11. Unpublished
    BY <1>0 DEF Unpublished, Before
  <2> QED BY <2>1, <2>3, <2>6, <2>7, <2>8, <2>9, <2>10, <2>11, GoesOnKeeps
<1> QED BY <1>2, <1>3, <1>4

LEMMA DrainSafe ==
  ASSUME XTypeOK, ExitSafe, DrainLines
  PROVE  ExitSafe'
<1>0. /\ helper.phase = "drain" /\ journal.phase = "draining"
      /\ UNCHANGED <<applies, selection, desired, published, journal>>
      /\ journal.lines \subseteq Line
  BY DEF DrainLines, publicVars, ExitSafe, JournalInv, XTypeOK, JournalState
<1>1. PICK closed \in SUBSET journal.lines :
        /\ drain' = [l \in Line |-> IF l \in closed
                       THEN journal.document.attempt ELSE drain[l]]
        /\ \/ closed = journal.lines /\ HelperGoesTo("drained")
           \/ Clean("failed") /\ UNCHANGED task
  <2>1. PICK drained \in SUBSET {l \in journal.lines :
               generation[l] = journal.providers[l] /\ drain[l] = NoOne} :
        \E heard \in SUBSET drained :
          IF heard = journal.lines
          THEN /\ drain' = [l \in Line |-> IF l \in drained
                              THEN journal.document.attempt ELSE drain[l]]
               /\ HelperGoesTo("drained")
          ELSE \E undone \in SUBSET heard :
               /\ drain' = [l \in Line |-> IF l \in drained \ undone
                              THEN journal.document.attempt ELSE drain[l]]
               /\ Clean("failed") /\ UNCHANGED task
    BY DEF DrainLines
  <2>2. PICK heard \in SUBSET drained :
          IF heard = journal.lines
          THEN /\ drain' = [l \in Line |-> IF l \in drained
                              THEN journal.document.attempt ELSE drain[l]]
               /\ HelperGoesTo("drained")
          ELSE \E undone \in SUBSET heard :
               /\ drain' = [l \in Line |-> IF l \in drained \ undone
                              THEN journal.document.attempt ELSE drain[l]]
               /\ Clean("failed") /\ UNCHANGED task
    BY <2>1
  <2>3. CASE heard = journal.lines
    <3>1. drained = journal.lines
      BY <2>3
    <3> QED BY <2>2, <2>3, <3>1
  <2>4. CASE heard # journal.lines
    <3>1. PICK undone \in SUBSET heard :
               /\ drain' = [l \in Line |-> IF l \in drained \ undone
                              THEN journal.document.attempt ELSE drain[l]]
               /\ Clean("failed") /\ UNCHANGED task
      BY <2>2, <2>4
    <3>2. drained \ undone \in SUBSET journal.lines
      OBVIOUS
    <3> QED BY <3>1, <3>2
  <2> QED BY <2>3, <2>4
<1>2. /\ helper'.caller = helper.caller /\ helper'.heard = helper.heard /\ UNCHANGED task
      /\ \/ helper'.phase = "drained" /\ closed = journal.lines
         \/ helper'.phase = "release" /\ helper'.cleanup = TRUE
  BY <1>1, GoesToFields, CleanFields
<1>3. JournalInv'
  BY <1>0, <1>2 DEF ExitSafe, JournalInv
<1>4. DrainInv'
  <2>1. helper'.phase = "drained" => \A l \in journal.lines : drain'[l] = journal.document.attempt
    BY <1>0, <1>1, <1>2
  <2> QED BY <1>0, <1>2, <2>1 DEF ExitSafe, DrainInv, Closed
<1>5. ApplyInv'
  BY <1>0, <1>2 DEF ExitSafe, ApplyInv, Before
<1>6. NoOrphanedDrain'
  BY <1>0, <1>1 DEF ExitSafe, NoOrphanedDrain
<1>7. \A s \in Selection : Clear(s) => Clear(s)'
  BY <1>0, <1>2 DEF Clear
<1>8. Unpublished
  BY <1>0 DEF Unpublished
<1> QED BY <1>0, <1>2, <1>3, <1>4, <1>5, <1>6, <1>7, <1>8, GoesOnKeeps

\* From the last checks to the runner's answer.
LEMMA PublishSafe ==
  ASSUME XTypeOK, ExitSafe, Refuse \/ AuthorizeAttempt \/ Publish \/ Confirm
  PROVE  ExitSafe'
<1> USE DEF managerVars, publicVars, providerVars
<1>1. CASE Refuse
  <2>0. /\ helper.phase = "drained" /\ journal.phase = "draining"
        /\ UNCHANGED <<applies, selection, task, desired, published, drain>>
    BY <1>1 DEF Refuse, ExitSafe, JournalInv
  <2>1. /\ helper'.phase = "release" /\ helper'.caller = helper.caller
        /\ helper'.heard = helper.heard /\ helper'.cleanup = TRUE
    BY <1>1, CleanFields DEF Refuse
  <2>2. /\ journal'.phase = "drained" /\ journal'.document = journal.document
        /\ journal'.lines = journal.lines /\ journal'.previous = journal.previous
    BY <1>1, JournalFields DEF Refuse
  <2>3. JournalInv' /\ DrainInv'
    BY <2>0, <2>1, <2>2 DEF ExitSafe, JournalInv, DrainInv, Closed
  <2>4. ApplyInv' /\ NoOrphanedDrain' /\ \A s \in Selection : Clear(s) => Clear(s)'
    BY <2>0, <2>1, <2>2 DEF ExitSafe, ApplyInv, Before, NoOrphanedDrain, Clear
  <2>5. Unpublished
    BY <2>0 DEF Unpublished
  <2> QED BY <2>0, <2>1, <2>3, <2>4, <2>5, GoesOnKeeps
<1>2. CASE AuthorizeAttempt
  <2>0. /\ helper.phase = "drained" /\ journal.phase = "draining"
        /\ UNCHANGED <<applies, selection, desired, published, drain>>
    BY <1>2 DEF AuthorizeAttempt, ExitSafe, JournalInv
  <2>1. /\ helper'.phase = "publish" /\ helper'.caller = helper.caller
        /\ helper'.heard = helper.heard /\ UNCHANGED task
    BY <1>2, GoesToFields DEF AuthorizeAttempt
  <2>2. /\ journal'.phase = "publishing" /\ journal'.document = journal.document
        /\ journal'.lines = journal.lines /\ journal'.previous = journal.previous
    BY <1>2, JournalFields DEF AuthorizeAttempt
  <2>3. JournalInv' /\ DrainInv'
    BY <2>0, <2>1, <2>2 DEF ExitSafe, JournalInv, DrainInv, Closed
  <2>4. ApplyInv' /\ NoOrphanedDrain' /\ \A s \in Selection : Clear(s) => Clear(s)'
    BY <2>0, <2>1, <2>2 DEF ExitSafe, ApplyInv, Before, NoOrphanedDrain, Clear
  <2>5. Unpublished
    BY <2>0 DEF Unpublished
  <2> QED BY <2>0, <2>1, <2>3, <2>4, <2>5, GoesOnKeeps
<1>3. CASE Confirm
  <2>0. /\ helper.phase = "confirm" /\ journal.phase = "publishing"
        /\ UNCHANGED <<applies, selection, desired, published, drain>>
    BY <1>3 DEF Confirm, ExitSafe, JournalInv
  <2>1. CASE Reply("failed", NoDocument) /\ UNCHANGED journal
    BY <2>0, <2>1, ReplyKeeps
  <2>2. CASE /\ journal' = [journal EXCEPT !.phase = "confirmed", !.result = runtime.outcome]
             /\ Clean(IF runtime.outcome = "applied" THEN "applied" ELSE "failed")
             /\ UNCHANGED task
    <3>1. /\ helper'.phase = "release" /\ helper'.caller = helper.caller
          /\ helper'.heard = helper.heard /\ helper'.cleanup = TRUE
          /\ helper'.code # "rejected"
      <4>1. Clean("applied") \/ Clean("failed")
        BY <2>2
      <4>2. /\ helper'.phase = "release" /\ helper'.caller = helper.caller
            /\ helper'.heard = helper.heard /\ helper'.cleanup = TRUE
        BY <4>1, CleanFields
      <4>3. helper'.code = "applied" \/ helper'.code = "failed"
        BY <4>1, CleanFields
      <4> QED BY <4>2, <4>3
    <3>2. /\ journal'.phase = "confirmed" /\ journal'.document = journal.document
          /\ journal'.lines = journal.lines /\ journal'.previous = journal.previous
      BY <2>2, JournalFields
    <3>3. JournalInv' /\ DrainInv'
      BY <2>0, <3>1, <3>2 DEF ExitSafe, JournalInv, DrainInv, Closed
    <3>4. ApplyInv' /\ NoOrphanedDrain' /\ \A s \in Selection : Clear(s) => Clear(s)'
      BY <2>0, <3>1, <3>2 DEF ExitSafe, ApplyInv, Before, NoOrphanedDrain, Clear
    <3>5. ~Unpublished'
      BY <3>1 DEF Unpublished, Before
    <3> QED BY <2>0, <2>2, <3>1, <3>3, <3>4, <3>5, GoesOnKeeps
  <2> QED BY <1>3, <2>1, <2>2 DEF Confirm
<1>4. CASE Publish
  <2>0. /\ helper.phase = "publish" /\ journal.phase = "publishing" /\ Closed
        /\ UNCHANGED <<applies, selection, journal, drain>>
    BY <1>4 DEF Publish, ExitSafe, JournalInv, DrainInv
  <2>1. CASE Reply("failed", NoDocument) /\ UNCHANGED publicVars
    BY <2>0, <2>1, ReplyKeeps
  <2>2. CASE /\ desired' = journal.document
             /\ published' = published \cup ({helper.caller} \cap Selection)
    <3>1. \A u \in UserApply : u \notin applies => desired'.attempt # u
      BY <2>2 DEF ExitSafe, ApplyInv
    <3>2. NoOrphanedDrain' /\ Closed'
      BY <2>0 DEF ExitSafe, NoOrphanedDrain, Closed
    <3>3. CASE HelperGoesTo("confirm")
      <4>1. /\ helper'.phase = "confirm" /\ helper'.caller = helper.caller
            /\ helper'.heard = helper.heard /\ UNCHANGED task
        BY <3>3, GoesToFields
      <4>2. JournalInv' /\ DrainInv'
        BY <2>0, <3>2, <4>1 DEF ExitSafe, JournalInv, DrainInv
      <4>3. ApplyInv' /\ \A s \in Selection : Clear(s) => Clear(s)'
        BY <2>0, <2>2, <3>1, <4>1 DEF ExitSafe, ApplyInv, Before, Clear
      <4>4. ~Unpublished'
        BY <4>1 DEF Unpublished, Before
      <4> QED BY <2>0, <3>2, <4>1, <4>2, <4>3, <4>4, GoesOnKeeps
    <3>4. CASE Reply("failed", NoDocument)
      <4>1. helper' = NoHelp /\ helper'.phase = "idle" /\ helper'.caller = NoOne
        BY <3>4, NoHelpFields DEF Reply
      <4>2. JournalInv' /\ DrainInv'
        BY <2>0, <3>2, <4>1 DEF ExitSafe, JournalInv, DrainInv
      <4>3. ApplyInv' /\ \A s \in Selection : Clear(s) => Clear(s)'
        BY <2>0, <2>2, <3>1, <4>1, NoHelpFields DEF ExitSafe, ApplyInv, Before, Clear
      <4>4. TaskInv'
        BY <2>0, <3>4, <4>3, ReplyTask DEF ExitSafe
      <4> QED BY <2>0, <3>2, <4>2, <4>3, <4>4, LedgerKept DEF ExitSafe
    <3> QED BY <1>4, <2>1, <3>3, <3>4 DEF Publish
  <2> QED BY <1>4, <2>1, <2>2 DEF Publish
<1> QED BY <1>1, <1>2, <1>3, <1>4

\* The helper's process ends, or takes up the attempt in its journal.
LEMMA HelperSafe ==
  ASSUME XTypeOK, ExitSafe, HelperStep
  PROVE  ExitSafe'
<1> USE DEF managerVars, publicVars, providerVars
<1>1. CASE HelperCrashes
  BY <1>1, ReplyKeeps DEF HelperCrashes
<1>2. CASE ResumeAttempt
  <2>1. /\ helper' = [NoHelp EXCEPT !.phase = "recover"] /\ helper = NoHelp
        /\ UNCHANGED <<applies, selection, task, journal, desired, published, drain>>
    BY <1>2 DEF ResumeAttempt
  <2>2. /\ helper'.phase = "recover" /\ helper'.caller = NoOne /\ helper.caller = NoOne
        /\ helper'.heard = FALSE /\ helper.heard = FALSE
    BY <2>1 DEF NoHelp
  <2>3. JournalInv' /\ DrainInv'
    BY <2>1, <2>2 DEF ExitSafe, JournalInv, DrainInv, Closed
  <2>4. ApplyInv' /\ NoOrphanedDrain' /\ \A s \in Selection : Clear(s) => Clear(s)'
    BY <2>1, <2>2, NoHelpFields DEF ExitSafe, ApplyInv, NoOrphanedDrain, Clear
  <2>5. TaskInv'
    BY <2>1, <2>2, NoHelpFields DEF ExitSafe, TaskInv, Clear
  <2> QED BY <2>1, <2>3, <2>4, <2>5, LedgerKept DEF ExitSafe
<1> QED
  BY <1>1, <1>2, RecoverSafe, ReleaseSafe, SaveReleaseSafe, BeginSafe, DrainSafe, PublishSafe
     DEF HelperStep

-----------------------------------------------------------------------------
(* Core's steps.                                                           *)

LEMMA ResolveSafe ==
  ASSUME XTypeOK, ExitSafe,
         RecordAnswer \/ \E s \in Selection : CancelUnattempted(s) \/ Supersede(s)
  PROVE  ExitSafe'
<1> USE DEF publicVars, providerVars
<1>0. selection \in [Selection -> SelectionState] /\ task \in TaskState
  BY DEF XTypeOK
<1>1. /\ UNCHANGED <<applies, helper, journal, desired, published, drain>>
      /\ task' = NoTask
  BY DEF RecordAnswer, CancelUnattempted, Supersede
<1>2. PICK s \in Selection, state \in {"unknown", "applied", "canceled", "superseded"} :
        /\ selection' = [selection EXCEPT ![s].state = state]
        /\ state = "canceled" => Clear(s)
  <2>1. ASSUME NEW s \in Selection, CancelUnattempted(s) PROVE Clear(s)
    BY <2>1 DEF CancelUnattempted, ExitSafe, LedgerInv
  <2>2. CASE RecordAnswer
    <3>1. task.of \in Selection
      BY <2>2, NoHelpFields DEF RecordAnswer, ExitSafe, TaskInv
    <3>2. PICK state \in Recorded(task.of) :
            selection' = [selection EXCEPT ![task.of].state = state]
      BY <2>2 DEF RecordAnswer
    <3>3. state \in {"unknown", "applied", "canceled", "superseded"}
      BY <3>2 DEF Recorded
    <3>4. ASSUME state = "canceled" PROVE Clear(task.of)
      <4>1. task.code = "rejected" /\ selection[task.of].attempts = 1
        BY <3>2, <3>4 DEF Recorded, RejectionCancels
      <4> QED BY <2>2, <4>1 DEF RecordAnswer, ExitSafe, TaskInv
    <3> QED BY <3>1, <3>2, <3>3, <3>4
  <2> QED BY <2>1, <2>2 DEF CancelUnattempted, Supersede
<1>3. /\ selection'[s].state = state /\ selection'[s].attempts = selection[s].attempts
      /\ \A t \in Selection : t # s => selection'[t] = selection[t]
  BY <1>0, <1>2 DEF SelectionState
<1>4. \A t \in Selection : Clear(t)' <=> Clear(t)
  BY <1>1 DEF Clear
<1>5. LedgerInv'
  BY <1>2, <1>3, <1>4 DEF ExitSafe, LedgerInv
<1>6. (JournalInv /\ DrainInv /\ ApplyInv /\ NoOrphanedDrain)'
  BY <1>1 DEF ExitSafe, JournalInv, DrainInv, Closed, ApplyInv, Before, NoOrphanedDrain
<1>7. helper.heard = FALSE
  <2>1. helper.heard \in BOOLEAN
    BY DEF XTypeOK, HelperState
  <2>2. task.phase # "waiting"
    BY NoHelpFields DEF RecordAnswer, CancelUnattempted, Supersede
  <2> QED BY <2>1, <2>2 DEF ExitSafe, TaskInv
<1>8. Unpublished' <=> Unpublished
  BY <1>1 DEF Unpublished, Before
<1>9. \A t \in Selection : selection'[t].attempts = selection[t].attempts
  BY <1>3
<1>10. TaskInv'
  BY <1>1, <1>7, <1>8, <1>9, NoHelpFields DEF ExitSafe, TaskInv
<1> QED BY <1>5, <1>6, <1>10 DEF ExitSafe

LEMMA SelectSafe ==
  ASSUME XTypeOK, ExitSafe, NEW s \in Selection, Select(s)
  PROVE  ExitSafe'
<1>0. /\ UNCHANGED <<applies, helper, task, journal, desired, published, drain>>
      /\ selection[s].state = "none" /\ Clear(s)
  BY DEF Select, publicVars, providerVars, ExitSafe, LedgerInv
<1>1. /\ selection'[s].state = "pending" /\ selection'[s].attempts = 0
      /\ \A t \in Selection : t # s => selection'[t] = selection[t]
  BY DEF Select, XTypeOK
<1>2. \A t \in Selection : Clear(t)' <=> Clear(t)
  BY <1>0 DEF Clear
<1>3. LedgerInv'
  BY <1>0, <1>1, <1>2 DEF ExitSafe, LedgerInv
<1>4. (JournalInv /\ DrainInv /\ ApplyInv /\ NoOrphanedDrain)'
  BY <1>0 DEF ExitSafe, JournalInv, DrainInv, Closed, ApplyInv, Before, NoOrphanedDrain
<1>5. Unpublished' <=> Unpublished
  BY <1>0 DEF Unpublished, Before
<1>6. helper.caller # s /\ (task # NoTask => task.of \in Selection \ {s})
  BY <1>0 DEF Clear, ExitSafe, TaskInv
<1>7. TaskInv'
  <2>1. helper.caller \in Selection => selection'[helper.caller] = selection[helper.caller]
    BY <1>1, <1>6
  <2>2. task # NoTask => selection'[task.of] = selection[task.of]
    BY <1>1, <1>6
  <2>3. task.phase = "answered" => task # NoTask
    BY NoHelpFields
  <2> QED BY <1>0, <1>5, <1>6, <2>1, <2>2, <2>3 DEF ExitSafe, TaskInv, Clear
<1> QED BY <1>3, <1>4, <1>7 DEF ExitSafe

\* The first claim finds nothing of the selection anywhere.
LEMMA ClaimSafe ==
  ASSUME XTypeOK, ExitSafe, NEW s \in Selection, Claim(s)
  PROVE  ExitSafe'
<1>0. /\ UNCHANGED <<applies, journal, desired, published, drain>> /\ task = NoTask
      /\ selection[s].state \in {"pending", "unknown"}
  BY DEF Claim, MayAttempt, Unresolved, publicVars, providerVars
<1>1. /\ selection'[s].state = "unknown" /\ selection'[s].attempts = selection[s].attempts + 1
      /\ selection[s].attempts \in Nat
      /\ \A t \in Selection : t # s => selection'[t] = selection[t]
  <2>1. selection \in [Selection -> SelectionState] /\ selection[s] \in SelectionState
    BY DEF XTypeOK
  <2>2. selection[s].attempts \in Nat
    BY <2>1 DEF SelectionState
  <2> QED BY <2>1, <2>2 DEF Claim, SelectionState
<1>2. selection'[s].attempts = 1 => Clear(s)
  BY <1>1 DEF ExitSafe, LedgerInv
<1>3. helper.heard = FALSE
  BY <1>0, NoHelpFields DEF XTypeOK, HelperState, ExitSafe, TaskInv
<1>4. NoOrphanedDrain'
  BY <1>0 DEF ExitSafe, NoOrphanedDrain
<1>5. CASE /\ helper = NoHelp
           /\ helper' = [NoHelp EXCEPT !.phase = "recover", !.caller = s,
                !.revision = selection[s].expected.revision, !.heard = TRUE]
           /\ task' = [NoTask EXCEPT !.phase = "waiting", !.of = s]
  <2>1. /\ helper'.phase = "recover" /\ helper'.caller = s
        /\ task'.phase = "waiting" /\ task'.of = s
    BY <1>5 DEF NoHelp, NoTask
  <2>2. JournalInv' /\ DrainInv'
    BY <1>0, <2>1 DEF ExitSafe, JournalInv, DrainInv, Closed
  <2>3. ApplyInv'
    BY <1>0, <2>1, NoHelpFields DEF ExitSafe, ApplyInv
  <2>4. \A t \in Selection : t # s /\ Clear(t) => Clear(t)'
    BY <1>0, <2>1 DEF Clear
  <2>5. LedgerInv'
    BY <1>1, <2>4 DEF ExitSafe, LedgerInv
  <2>6. TaskInv'
    BY <1>0, <1>1, <1>2, <2>1 DEF TaskInv, Clear
  <2> QED BY <1>4, <2>2, <2>3, <2>5, <2>6 DEF ExitSafe
<1>6. CASE /\ task' = [NoTask EXCEPT !.phase = "answered", !.of = s, !.code = "failed"]
           /\ UNCHANGED helper
  <2>1. task'.phase = "answered" /\ task'.of = s /\ task'.code = "failed"
    BY <1>6 DEF NoTask
  <2>2. (JournalInv /\ DrainInv /\ ApplyInv)'
    BY <1>0, <1>6 DEF ExitSafe, JournalInv, DrainInv, Closed, ApplyInv, Before
  <2>3. \A t \in Selection : Clear(t) <=> Clear(t)'
    BY <1>0, <1>6 DEF Clear
  <2>4. LedgerInv'
    BY <1>1, <2>3 DEF ExitSafe, LedgerInv
  <2>5. Unpublished' <=> Unpublished
    BY <1>6 DEF Unpublished, Before
  <2>6. ASSUME helper.caller \in Selection, selection'[helper.caller].attempts = 1, Unpublished
        PROVE  helper.caller \notin published
    BY <1>1, <1>2, <2>6 DEF ExitSafe, TaskInv, Clear
  <2>7. TaskInv'
    BY <1>0, <1>1, <1>3, <1>6, <2>1, <2>5, <2>6 DEF TaskInv
  <2> QED BY <1>4, <2>2, <2>4, <2>7 DEF ExitSafe
<1> QED BY <1>5, <1>6 DEF Claim

LEMMA CoreSafe ==
  ASSUME XTypeOK, ExitSafe, CoreStep
  PROVE  ExitSafe'
<1> USE DEF managerVars, publicVars, providerVars
<1>1. CASE LoseAnswer
  <2>1. /\ UNCHANGED <<applies, selection, journal, desired, published, drain>>
        /\ task' = NoTask
    BY <1>1 DEF LoseAnswer
  <2>2. /\ helper'.phase = helper.phase /\ helper'.caller = helper.caller
        /\ helper'.heard = FALSE /\ helper'.cleanup = helper.cleanup
        /\ helper'.code = helper.code /\ helper'.resumed = helper.resumed
    BY <1>1 DEF LoseAnswer, XTypeOK, HelperState
  <2>3. (JournalInv /\ DrainInv /\ ApplyInv /\ NoOrphanedDrain)'
    BY <2>1, <2>2 DEF ExitSafe, JournalInv, DrainInv, Closed, ApplyInv, Before,
                      NoOrphanedDrain
  <2>4. \A s \in Selection : Clear(s) => Clear(s)'
    BY <2>1, <2>2 DEF Clear
  <2>5. Unpublished' <=> Unpublished
    BY <2>2 DEF Unpublished, Before
  <2>6. TaskInv'
    BY <2>1, <2>2, <2>5, NoHelpFields DEF ExitSafe, TaskInv
  <2> QED BY <2>1, <2>3, <2>4, <2>6, LedgerKept DEF ExitSafe
<1>2. CASE UserSaves
  <2>1. UNCHANGED <<applies, selection, task, helper, journal, desired, published, drain>>
    BY <1>2 DEF UserSaves
  <2> QED BY <2>1 DEF ExitSafe, JournalInv, DrainInv, Closed, ApplyInv, Before,
                      NoOrphanedDrain, LedgerInv, TaskInv, Unpublished, Clear
<1>3. ASSUME NEW u \in UserApply, UserApplies(u) PROVE ExitSafe'
  <2>1. /\ UNCHANGED <<selection, task, journal, desired, published, drain>>
        /\ applies' = applies \cup {u} /\ u \notin applies /\ helper = NoHelp
    BY <1>3 DEF UserApplies
  <2>2. /\ helper'.phase = "recover" /\ helper'.caller = u /\ helper'.heard = FALSE
    BY <1>3 DEF UserApplies, NoHelp
  <2>3. JournalInv' /\ DrainInv' /\ NoOrphanedDrain'
    BY <2>1, <2>2 DEF ExitSafe, JournalInv, DrainInv, Closed, NoOrphanedDrain
  <2>4. ApplyInv'
    BY <2>1, <2>2 DEF ExitSafe, ApplyInv
  <2>5. \A s \in Selection : Clear(s) => Clear(s)'
    BY <2>1, <2>2, NoHelpFields DEF Clear
  <2>6. TaskInv'
    <3>1. task # NoTask => task.of \in Selection /\ selection[task.of].state = "unknown"
      BY DEF ExitSafe, TaskInv
    <3>2. task.phase = "answered" => task # NoTask
      BY NoHelpFields
    <3>3. ASSUME task.phase = "answered", task.code = "rejected",
                 selection[task.of].attempts = 1, NEW s \in Selection, task.of = s
          PROVE  Clear(s)'
      BY <2>5, <3>3 DEF ExitSafe, TaskInv
    <3> QED BY <2>1, <2>2, <3>1, <3>2, <3>3, NoHelpFields DEF TaskInv, Clear
  <2> QED BY <2>1, <2>3, <2>4, <2>5, <2>6, LedgerKept DEF ExitSafe
<1> QED BY <1>1, <1>2, <1>3, ResolveSafe, SelectSafe, ClaimSafe DEF CoreStep

-----------------------------------------------------------------------------
(* The theorems.                                                           *)

LEMMA ExitInit == XInit => XTypeOK /\ ExitSafe
<1> SUFFICES ASSUME XInit PROVE XTypeOK /\ ExitSafe
  OBVIOUS
<1>1. /\ desired \in Document /\ desired \in AnyDocument /\ desired.attempt = First
  BY ExitConstants DEF XInit, Document, Attempt, AnyDocument
<1>2. /\ selection \in [Selection -> SelectionState]
      /\ \A s \in Selection : selection[s].state = "none" /\ selection[s].attempts = 0
  <2>1. [state |-> "none", attempts |-> 0, expected |-> NoDocument, provider |-> 1]
          \in SelectionState
    BY ExitConstants DEF SelectionState
  <2> QED BY <2>1 DEF XInit
<1>3. runtime \in RuntimeState
  BY <1>1 DEF XInit, RuntimeState, Results
<1>4. drain \in [Line -> Attempt \cup {NoOne}] /\ generation \in [Line -> 1..MaxGeneration]
  BY ExitConstants DEF XInit
<1>5. XTypeOK
  BY <1>1, <1>2, <1>3, <1>4, ExitConstants DEF XInit, XTypeOK
<1>6. helper = NoHelp /\ journal = Complete /\ task = NoTask /\ published = {}
  BY DEF XInit
<1>7. JournalInv /\ DrainInv
  BY <1>6, NoHelpFields DEF JournalInv, DrainInv
<1>8. ApplyInv
  BY <1>1, <1>6, NoHelpFields, ExitAssumption DEF ApplyInv
<1>9. LedgerInv
  BY <1>2, <1>6, NoHelpFields DEF LedgerInv, Clear
<1>10. TaskInv
  BY <1>6, NoHelpFields DEF TaskInv
<1>11. NoOrphanedDrain
  BY DEF XInit, NoOrphanedDrain
<1> QED BY <1>5, <1>7, <1>8, <1>9, <1>10, <1>11 DEF ExitSafe

LEMMA ExitStep == XTypeOK /\ ExitSafe /\ [XNext]_xvars => (XTypeOK /\ ExitSafe)'
<1> SUFFICES ASSUME XTypeOK, ExitSafe, [XNext]_xvars PROVE (XTypeOK /\ ExitSafe)'
  OBVIOUS
<1>1. CASE CoreStep
  BY <1>1, CoreTypes, CoreSafe
<1>2. CASE HelperStep
  BY <1>2, HelperTypes, HelperSafe DEF ExitSafe
<1>3. ASSUME UNCHANGED <<applies, selection, task, helper, journal, desired, published, drain>>
      PROVE  ExitSafe'
  BY <1>3 DEF ExitSafe, JournalInv, DrainInv, Closed, ApplyInv, Before,
              NoOrphanedDrain, LedgerInv, TaskInv, Unpublished, Clear
<1>4. CASE RunnerSettles \/ RunnerRestarts \/ \E l \in Line : ProviderRestarts(l)
  BY <1>3, <1>4, OtherTypes
     DEF RunnerSettles, RunnerRestarts, ProviderRestarts, managerVars, publicVars, providerVars
<1>5. CASE UNCHANGED xvars
  BY <1>3, <1>5 DEF xvars, XTypeOK, managerVars, publicVars, providerVars
<1> QED BY <1>1, <1>2, <1>4, <1>5 DEF XNext

LEMMA ExitInvariance == XSpec => [](XTypeOK /\ ExitSafe)
BY ExitInit, ExitStep, PTL DEF XSpec

\* The ledger, the task, the helper, its journal, the runner and the leases
\* have their types; in particular only a complete document is published.
THEOREM ExitTypeCorrect == XSpec => []XTypeOK
BY ExitInvariance, PTL

\* For any number of lines, selections and Applies, and whatever crashes or
\* answers are lost: a provider that admits no calls is in the unfinished
\* attempt of the journal, whose recovery releases it.
THEOREM DrainsAreOwned == XSpec => []NoOrphanedDrain
<1>1. ExitSafe => NoOrphanedDrain
  BY DEF ExitSafe
<1> QED BY <1>1, ExitInvariance, PTL

\* From the publication of a document to the runner's answer, across crashes of
\* the helper, each line of the attempt admits no call.
THEOREM AdmissionStaysClosed == XSpec => []AdmissionClosedUntilConfirmed
<1>1. ExitSafe => AdmissionClosedUntilConfirmed
  BY DEF ExitSafe, DrainInv, Closed, AdmissionClosedUntilConfirmed
<1> QED BY <1>1, ExitInvariance, PTL

\* A selection that Core records as canceled was not published and never is.
THEOREM CancellationIsTrue == XSpec => []CanceledNeverPublished
<1>1. ExitSafe => CanceledNeverPublished
  BY DEF ExitSafe, LedgerInv, Clear, CanceledNeverPublished
<1> QED BY <1>1, ExitInvariance, PTL

-----------------------------------------------------------------------------
(* Core: its cellular calls and its switch of exits side by side, as they  *)
(* are checked together.                                                   *)

\* Every behaviour of the parts together is one of each part, whose variables
\* keep their types.
THEOREM CoreStateCorrect == MCSpec => []CoreStateOK
<1>1. MCSpec => CSpec
  <2>1. MCInit => CInit
    BY DEF MCInit
  <2>2. [MCNext]_<<cvars, xvars, focus>> => [CNext]_cvars
    BY DEF MCNext
  <2> QED BY <2>1, <2>2, PTL DEF MCSpec, CSpec
<1>2. MCSpec => XSpec
  <2>1. MCInit => XInit
    BY DEF MCInit
  <2>2. [MCNext]_<<cvars, xvars, focus>> => [XNext]_xvars
    BY DEF MCNext
  <2> QED BY <2>1, <2>2, PTL DEF MCSpec, XSpec
<1>3. CTypeOK /\ XTypeOK => CoreStateOK
  BY DEF CoreStateOK
<1> QED
  BY <1>1, <1>2, <1>3,
     CTypeCorrect, ExitTypeCorrect, PTL
=============================================================================
