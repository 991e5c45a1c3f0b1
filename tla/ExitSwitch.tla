----------------------------- MODULE ExitSwitch -----------------------------
(***************************************************************************)
(* Switching a country's shared exit to another node after failures        *)
(* blamed on the exit: Core's ledger of the selection                      *)
(* (internal/runtimereconcile), the privileged helper that applies it with *)
(* its journal (cmd/mdd-core/egress_attempt_unix.go,                       *)
(* provider_apply_helper_unix.go), the leases that drain the VoWiFi        *)
(* providers (providerapply/drain.go) and the runner that replaces the     *)
(* exit's process (internal/egressexec).  The user's own Apply goes        *)
(* through the same helper.                                                *)
(*                                                                         *)
(* One country whose exit is a subscription, one failing line.  A document *)
(* is known by its attempt and its configuration revision: a recovery      *)
(* renders the same document each time, a user's Apply never the same      *)
(* (RefreshID).  Each step of the helper ends before the next state it     *)
(* saves or publishes; where a step asks somebody else, the answer may be  *)
(* lost.                                                                   *)
(***************************************************************************)
EXTENDS Naturals, FiniteSets

CONSTANTS Line,                 \* the lines of the country
          Failing,              \* the line whose failures ask for a switch
          Selection,            \* failures that may each ask for one
          UserApply,            \* Applies of the user
          First,                \* the attempt that published the first document
          NoOne,
          MaxRevision, MaxAttempts, MaxGeneration          \* bounds

ASSUME ExitAssumption ==
  /\ Failing \in Line /\ NoOne \notin Selection \cup UserApply \cup {First}
  /\ Selection \cap UserApply = {} /\ First \notin Selection \cup UserApply
  /\ MaxRevision \in Nat \ {0} /\ MaxAttempts \in Nat \ {0}
  /\ MaxGeneration \in Nat \ {0}

VARIABLES
  saved,            \* revision of the saved exit configuration
  applies,          \* the Applies the user has asked for
  selection,        \* Core's ledger
  task,             \* Core's goroutine for a selection
  helper,           \* the helper's operation under its mutation lock
  journal,          \* egress-current.json
  desired,          \* the published document
  runtime,          \* the runner's status file
  drain,            \* the lease each provider keeps on its disk
  generation,       \* of each provider's process
  published         \* the selections ever published

managerVars  == <<selection, task>>
providerVars == <<drain, generation>>
publicVars   == <<desired, published>>
xvars == <<saved, applies, managerVars, helper, journal, publicVars, runtime,
           providerVars>>

Attempt    == Selection \cup UserApply \cup {First}
Document   == [attempt : Attempt, revision : 1..MaxRevision]
NoDocument == [attempt |-> NoOne, revision |-> 1]

AnyDocument == Document \cup {NoDocument}

Results == {"none", "applied", "unavailable", "restored"}
Answers == {"", "applied", "rejected", "failed"}

SelectionState ==
  [state : {"none", "pending", "unknown", "applied", "canceled", "superseded"},
   attempts : 0..MaxAttempts, expected : AnyDocument, provider : 1..MaxGeneration]
TaskState ==
  [phase : {"idle", "waiting", "answered"}, of : Selection \cup {NoOne},
   code : Answers, answer : AnyDocument]
HelperState ==
  [phase : {"idle", "recover", "release", "released", "begin", "drain", "drained",
            "publish", "confirm"},
   caller : Attempt \cup {NoOne}, revision : 1..MaxRevision, heard : BOOLEAN,
   cleanup : BOOLEAN, code : Answers, resumed : SUBSET Line]
JournalState ==
  [phase : {"draining", "drained", "publishing", "confirmed", "complete"},
   document : AnyDocument, lines : SUBSET Line, providers : [Line -> 1..MaxGeneration],
   previous : AnyDocument, before : AnyDocument, result : Results]
RuntimeState ==
  [confirmed : BOOLEAN, requested : Document, applied : AnyDocument,
   outcome : Results \ {"none"}]

NoHelp   == [phase |-> "idle", caller |-> NoOne, revision |-> 1,
             heard |-> FALSE, cleanup |-> FALSE, code |-> "", resumed |-> {}]
NoTask   == [phase |-> "idle", of |-> NoOne, code |-> "", answer |-> NoDocument]

\* A journal that is complete is not read beyond its phase; the rest is left out.
Complete == [phase |-> "complete", document |-> NoDocument, lines |-> {},
             providers |-> [l \in Line |-> 1], previous |-> NoDocument,
             before |-> NoDocument, result |-> "none"]

XInit ==
  /\ saved = 1 /\ applies = {}
  /\ desired = [attempt |-> First, revision |-> 1]
  /\ selection = [s \in Selection |-> [state |-> "none", attempts |-> 0,
                    expected |-> NoDocument, provider |-> 1]]
  /\ task = NoTask /\ helper = NoHelp
  /\ journal = Complete
  /\ runtime = [confirmed |-> TRUE, requested |-> desired, applied |-> desired,
                outcome |-> "applied"]
  /\ drain = [l \in Line |-> NoOne] /\ generation = [l \in Line |-> 1]
  /\ published = {}

-----------------------------------------------------------------------------
(* Core.                                                                   *)

Unresolved(s) == selection[s].state \in {"pending", "unknown"}

\* observeExitRecovery, when the failure asks for another node: nothing is
\* pending, the runner confirms the document of the saved configuration.
Select(s) ==
  /\ selection[s].state = "none" /\ \A t \in Selection : ~Unresolved(t)
  /\ runtime.confirmed /\ runtime.outcome = "applied"
  /\ runtime.applied = desired /\ desired.revision = saved
  /\ drain[Failing] = NoOne
  /\ selection' = [selection EXCEPT ![s] = [state |-> "pending", attempts |-> 0,
       expected |-> desired, provider |-> generation[Failing]]]
  /\ UNCHANGED <<saved, applies, task, helper, journal, publicVars, runtime,
                 providerVars>>

\* The line was disabled before the first attempt.
CancelUnattempted(s) ==
  /\ selection[s].state = "pending" /\ task = NoTask
  /\ selection' = [selection EXCEPT ![s].state = "canceled"]
  /\ UNCHANGED <<saved, applies, task, helper, journal, publicVars, runtime,
                 providerVars>>

\* retireSupersededSelection.
Supersede(s) ==
  /\ Unresolved(s) /\ task = NoTask
  /\ saved > selection[s].expected.revision /\ desired.revision = saved
  /\ desired.attempt # s
  /\ runtime.confirmed /\ runtime.outcome = "applied" /\ runtime.applied = desired
  /\ \A l \in Line : drain[l] = NoOne
  /\ selection' = [selection EXCEPT ![s].state = "superseded"]
  /\ UNCHANGED <<saved, applies, task, helper, journal, publicVars, runtime,
                 providerVars>>

Conclude(code, document) ==
  task' = [task EXCEPT !.phase = "answered", !.code = code, !.answer = document]

\* The bound is of the automatic attempts in the code, 5; the user may ask for
\* one more at a time.
MayAttempt(s) == Unresolved(s) /\ task = NoTask /\ selection[s].attempts < MaxAttempts

\* runExitSelection stores the attempt before it asks the helper, which refuses
\* a second operation, or is not there.
Claim(s) ==
  /\ MayAttempt(s)
  /\ selection' = [selection EXCEPT ![s].attempts = @ + 1, ![s].state = "unknown"]
  /\ \/ /\ helper = NoHelp
        /\ helper' = [NoHelp EXCEPT !.phase = "recover", !.caller = s,
             !.revision = selection[s].expected.revision, !.heard = TRUE]
        /\ task' = [NoTask EXCEPT !.phase = "waiting", !.of = s]
     \/ /\ task' = [NoTask EXCEPT !.phase = "answered", !.of = s, !.code = "failed"]
        /\ UNCHANGED helper
  /\ UNCHANGED <<saved, applies, journal, publicVars, runtime, providerVars>>

\* Mutant: any rejection cancels, also after an attempt of unknown outcome.
MutantRejectionCancels(s) == TRUE

\* Only the rejection of the first attempt shows that nothing was published.
RejectionCancels(s) == selection[s].attempts = 1

\* What the status file says when the answer is recorded counts; a node that
\* the user's own Apply chose may happen to be the requested one.
Recorded(s) ==
  CASE task.code = "rejected" /\ RejectionCancels(s) -> {"canceled"}
    [] task.code = "applied" /\ runtime.confirmed /\ runtime.outcome = "applied"
         /\ runtime.applied = task.answer ->
         IF task.answer.attempt = s THEN {"applied"} ELSE {"applied", "unknown"}
    [] OTHER -> {"unknown"}

RecordAnswer ==
  /\ task.phase = "answered"
  /\ \E state \in Recorded(task.of) :
       selection' = [selection EXCEPT ![task.of].state = state]
  /\ task' = NoTask
  /\ UNCHANGED <<saved, applies, helper, journal, publicVars, runtime,
                 providerVars>>

\* The call's deadline, a restart of Core, or a ledger written meanwhile.
LoseAnswer ==
  /\ task # NoTask
  /\ task' = NoTask /\ helper' = [helper EXCEPT !.heard = FALSE]
  /\ UNCHANGED <<saved, applies, selection, journal, publicVars, runtime,
                 providerVars>>

UserSaves ==
  /\ saved < MaxRevision /\ saved' = saved + 1
  /\ UNCHANGED <<applies, managerVars, helper, journal, publicVars, runtime,
                 providerVars>>

UserApplies(u) ==
  /\ u \notin applies /\ helper = NoHelp
  /\ applies' = applies \cup {u}
  /\ helper' = [NoHelp EXCEPT !.phase = "recover", !.caller = u, !.revision = saved]
  /\ UNCHANGED <<saved, managerVars, journal, publicVars, runtime, providerVars>>

-----------------------------------------------------------------------------
(* The helper: finish the attempt in the journal, then the new one.        *)

Reply(code, document) ==
  /\ helper' = NoHelp
  /\ IF helper.heard THEN Conclude(code, document) ELSE UNCHANGED task

HelperGoesTo(phase) == helper' = [helper EXCEPT !.phase = phase] /\ UNCHANGED task

\* resumeEgressAttempts, and a start of the helper's process.
ResumeAttempt ==
  /\ helper = NoHelp /\ journal.phase # "complete"
  /\ helper' = [NoHelp EXCEPT !.phase = "recover"]
  /\ UNCHANGED <<saved, applies, managerVars, journal, publicVars, runtime, providerVars>>

HelperCrashes ==
  /\ helper # NoHelp
  /\ Reply("failed", NoDocument)
  /\ UNCHANGED <<saved, applies, selection, journal, publicVars, runtime, providerVars>>

\* WaitForAttempt: the runner answers for this attempt; a runtime it says to
\* have restored is the one that was confirmed when the attempt began.
RunnerConfirms ==
  /\ runtime.confirmed /\ runtime.requested = journal.document
  /\ runtime.applied =
       IF runtime.outcome = "restored" THEN journal.before ELSE journal.document

NeedsConfirmation == journal.phase = "publishing" /\ desired # journal.previous

\* Mutant: an interrupted attempt is released whatever has been published.
MutantRecover ==
  /\ helper.phase = "recover"
  /\ HelperGoesTo(IF journal.phase = "complete" THEN "begin" ELSE "release")
  /\ UNCHANGED <<saved, applies, selection, journal, publicVars, runtime, providerVars>>

\* recoverEgressAttempt up to the release.
Recover ==
  /\ helper.phase = "recover"
  /\ \/ /\ journal.phase = "complete"
        /\ HelperGoesTo("begin") /\ UNCHANGED journal
     \/ /\ journal.phase # "complete" /\ ~NeedsConfirmation
        /\ HelperGoesTo("release") /\ UNCHANGED journal
     \/ /\ NeedsConfirmation /\ RunnerConfirms
        /\ journal' = [journal EXCEPT !.phase = "confirmed", !.result = runtime.outcome]
        /\ HelperGoesTo("release")
     \/ /\ NeedsConfirmation
        /\ Reply("failed", NoDocument) /\ UNCHANGED journal
  /\ UNCHANGED <<saved, applies, selection, publicVars, runtime, providerVars>>

\* What follows a release: the operation's own answer, or the operation that
\* found an unfinished attempt, unless that attempt had a result.
Released(ok) ==
  CASE ~ok -> Reply("failed", NoDocument)
    [] ok /\ helper.cleanup -> Reply(helper.code, journal.document)
    [] ok /\ ~helper.cleanup /\ journal.result = "none" -> HelperGoesTo("begin")
    [] ok /\ ~helper.cleanup /\ journal.result # "none" ->
         IF journal.result = "applied" /\ journal.document.revision = helper.revision
         THEN Reply("applied", journal.document)
         ELSE Reply("failed", NoDocument)

\* releaseEgressAttempt up to its second save.  The providers that answer with
\* their original generation are done with if the lease is gone, and else
\* asked to end it; not each one does, and not each one's answer arrives.
ReleaseLeases ==
  /\ helper.phase = "release"
  /\ \/ /\ journal.lines # {}
        /\ \E reached \in SUBSET {l \in journal.lines :
                                    generation[l] = journal.providers[l]} :
             LET held == {l \in reached : drain[l] = journal.document.attempt} IN
             \E ended \in SUBSET held : \E heard \in SUBSET ended :
               /\ drain' = [l \in Line |-> IF l \in ended THEN NoOne ELSE drain[l]]
               /\ journal' = [journal EXCEPT !.lines = @ \ (reached \ held)]
               /\ helper' = [helper EXCEPT !.phase = "released", !.resumed = heard]
               /\ UNCHANGED task
     \/ /\ journal.lines = {}
        /\ journal' = Complete
        /\ Released(TRUE) /\ UNCHANGED drain
     \/ /\ Released(FALSE) /\ UNCHANGED <<journal, drain>>
  /\ UNCHANGED <<saved, applies, selection, publicVars, runtime, generation>>

\* Mutant: the attempt is over when each provider was asked.
MutantStillHeld == {}

StillHeld == journal.lines \ helper.resumed

SaveRelease ==
  /\ helper.phase = "released"
  /\ journal' = IF StillHeld = {} THEN Complete ELSE [journal EXCEPT !.lines = StillHeld]
  /\ Released(StillHeld = {})
  /\ UNCHANGED <<saved, applies, selection, publicVars, runtime, providerVars>>

\* recoveryDocument: the document the failure was observed under is in force.
Observed(s) == desired = selection[s].expected

Clean(code) == helper' = [helper EXCEPT !.phase = "release", !.cleanup = TRUE, !.code = code]

\* The checks of applyEgress and prepareEgressAttempt, which saves the lines
\* whose provider is there and its generation before any of them is drained.
BeginRefused ==
  /\ helper.phase = "begin"
  /\ \/ helper.caller = NoOne /\ Reply("", NoDocument)
     \/ helper.caller # NoOne /\ Reply("failed", NoDocument)
     \/ /\ helper.revision # saved /\ helper.caller # NoOne
        /\ Reply("rejected", NoDocument)
     \* The policy, the line or the candidates changed.
     \/ /\ helper.caller \in Selection /\ helper.caller # desired.attempt
        /\ Reply("rejected", NoDocument)
  /\ UNCHANGED <<saved, applies, selection, journal, publicVars, runtime, providerVars>>

\* A repeated recovery whose document is in force only ends its lease.
BeginUnchanged ==
  /\ helper.phase = "begin" /\ helper.caller \in Selection
  /\ helper.revision = saved /\ desired.revision = saved
  /\ desired.attempt = helper.caller
  /\ runtime.confirmed /\ runtime.outcome = "applied" /\ runtime.applied = desired
  /\ \E ended \in SUBSET {l \in Line : drain[l] = helper.caller} :
       drain' = [l \in Line |-> IF l \in ended THEN NoOne ELSE drain[l]]
  /\ IF \E l \in Line : drain'[l] = helper.caller
     THEN Reply("failed", NoDocument)
     ELSE Reply("applied", desired)
  /\ UNCHANGED <<saved, applies, selection, journal, publicVars, runtime, generation>>

Begin ==
  /\ helper.phase = "begin" /\ helper.caller # NoOne /\ helper.revision = saved
  /\ helper.caller \in Selection =>
       /\ desired.revision = saved /\ desired.attempt # helper.caller
       /\ runtime.confirmed /\ runtime.outcome = "applied" /\ runtime.applied = desired
       /\ Observed(helper.caller)
  /\ \E present \in SUBSET Line :
       journal' = [phase |-> "draining",
         document |-> [attempt |-> helper.caller, revision |-> saved],
         lines |-> present, providers |-> generation, previous |-> desired,
         before |-> IF runtime.confirmed THEN runtime.applied ELSE NoDocument,
         result |-> "none"]
  /\ HelperGoesTo("drain")
  /\ UNCHANGED <<saved, applies, selection, publicVars, runtime, providerVars>>

\* Handler.Maintenance: the lines are drained in parallel; when one fails or
\* its answer is lost, those that answered are released, as far as they answer.
DrainLines ==
  /\ helper.phase = "drain"
  /\ \E drained \in SUBSET {l \in journal.lines :
         generation[l] = journal.providers[l] /\ drain[l] = NoOne} :
     \E heard \in SUBSET drained :
       IF heard = journal.lines
       THEN /\ drain' = [l \in Line |-> IF l \in drained
                           THEN journal.document.attempt ELSE drain[l]]
            /\ HelperGoesTo("drained")
       ELSE \E undone \in SUBSET heard :
            /\ drain' = [l \in Line |-> IF l \in drained \ undone
                           THEN journal.document.attempt ELSE drain[l]]
            /\ Clean("failed") /\ UNCHANGED task
  /\ UNCHANGED <<saved, applies, selection, journal, publicVars, runtime, generation>>

\* validateRecoveryPeers.
PeersDrained ==
  helper.caller \in Selection =>
    /\ \A l \in Line : drain[l] = helper.caller
    /\ generation[Failing] = selection[helper.caller].provider

Refuse ==
  /\ helper.phase = "drained"
  /\ journal' = [journal EXCEPT !.phase = "drained"]
  /\ \/ Clean("failed")
     \/ /\ helper.caller \in Selection \/ saved # helper.revision
        /\ Clean("rejected")
  /\ UNCHANGED <<saved, applies, managerVars, publicVars, runtime, providerVars>>

\* After the last checks the attempt is saved as publishing.
AuthorizeAttempt ==
  /\ helper.phase = "drained" /\ PeersDrained /\ saved = helper.revision
  /\ journal' = [journal EXCEPT !.phase = "publishing"]
  /\ HelperGoesTo("publish")
  /\ UNCHANGED <<saved, applies, selection, publicVars, runtime, providerVars>>

\* PublishOwned; an error may come after the document took effect.
Publish ==
  /\ helper.phase = "publish"
  /\ \/ /\ desired' = journal.document
        /\ published' = published \cup ({helper.caller} \cap Selection)
        /\ HelperGoesTo("confirm") \/ Reply("failed", NoDocument)
     \/ Reply("failed", NoDocument) /\ UNCHANGED publicVars
  /\ UNCHANGED <<saved, applies, selection, journal, runtime, providerVars>>

Confirm ==
  /\ helper.phase = "confirm"
  /\ \/ /\ RunnerConfirms
        /\ journal' = [journal EXCEPT !.phase = "confirmed", !.result = runtime.outcome]
        /\ Clean(IF runtime.outcome = "applied" THEN "applied" ELSE "failed")
        /\ UNCHANGED task
     \/ Reply("failed", NoDocument) /\ UNCHANGED journal
  /\ UNCHANGED <<saved, applies, selection, publicVars, runtime, providerVars>>

-----------------------------------------------------------------------------
(* The runner and the providers.                                           *)

\* executor.reconcile with a new document, or after its own restart.
RunnerSettles ==
  /\ runtime.requested # desired \/ ~runtime.confirmed
  /\ \E outcome \in Results \ {"none"} :
       /\ outcome = "restored" => runtime.applied \notin {NoDocument, desired}
       /\ runtime' = [confirmed |-> TRUE, requested |-> desired, outcome |-> outcome,
            applied |-> IF outcome = "restored" THEN runtime.applied ELSE desired]
  /\ UNCHANGED <<saved, applies, managerVars, helper, journal, publicVars, providerVars>>

RunnerRestarts ==
  /\ runtime.confirmed
  /\ runtime' = [runtime EXCEPT !.confirmed = FALSE, !.applied = NoDocument]
  /\ UNCHANGED <<saved, applies, managerVars, helper, journal, publicVars, providerVars>>

\* A provider's lease outlives its process.
ProviderRestarts(l) ==
  /\ \A k \in Line : generation[k] < MaxGeneration
  /\ generation' = [generation EXCEPT ![l] = @ + 1]
  /\ UNCHANGED <<saved, applies, managerVars, helper, journal, publicVars, runtime, drain>>

-----------------------------------------------------------------------------

CoreStep ==
  \/ \E s \in Selection :
       Select(s) \/ CancelUnattempted(s) \/ Supersede(s) \/ Claim(s)
  \/ RecordAnswer \/ LoseAnswer
  \/ UserSaves \/ \E u \in UserApply : UserApplies(u)

HelperStep ==
  \/ ResumeAttempt  \/ HelperCrashes \/ Recover   \/ ReleaseLeases \/ SaveRelease
  \/ BeginRefused   \/ BeginUnchanged \/ Begin    \/ DrainLines
  \/ Refuse         \/ AuthorizeAttempt     \/ Publish   \/ Confirm

XNext ==
  \/ CoreStep \/ HelperStep
  \/ RunnerSettles \/ RunnerRestarts \/ \E l \in Line : ProviderRestarts(l)

XSpec == XInit /\ [][XNext]_xvars

-----------------------------------------------------------------------------
(* Properties.                                                             *)

\* Types of all variables.
XTypeOK ==
  /\ saved \in 1..MaxRevision /\ applies \subseteq UserApply
  /\ selection \in [Selection -> SelectionState]
  /\ task \in TaskState /\ helper \in HelperState /\ journal \in JournalState
  /\ desired \in Document /\ runtime \in RuntimeState
  /\ drain \in [Line -> Attempt \cup {NoOne}]
  /\ generation \in [Line -> 1..MaxGeneration] /\ published \subseteq Selection

\* A selection that Core cancels, because the helper rejected it or the line
\* was disabled, was not published and never is: no lost answer, retry, crash
\* or Apply of the user in between makes a rejection mean anything else.
CanceledNeverPublished ==
  \A s \in Selection : selection[s].state = "canceled" => s \notin published

\* From the publication of a document until the runner's answer to it, across
\* crashes of the helper, each line of the attempt admits no call.
AdmissionClosedUntilConfirmed ==
  journal.phase = "publishing" /\ desired = journal.document =>
    \A l \in journal.lines : drain[l] = desired.attempt

\* No provider is drained for an attempt that nobody will release: the lines
\* that admit no calls are all in the unfinished attempt of the journal.
NoOrphanedDrain ==
  \A l \in Line : drain[l] # NoOne =>
    /\ journal.phase # "complete" /\ l \in journal.lines
    /\ drain[l] = journal.document.attempt
=============================================================================
