---------------------------- MODULE FactJournal ----------------------------
(***************************************************************************)
(* How Core keeps what a line's VoWiFi provider reports: the provider      *)
(* directory, the snapshot handler, the event store and the reducer the    *)
(* web UI reads.                                                           *)
(*                                                                         *)
(* A provider process reports complete snapshots of its layers.  Core      *)
(* compares one with what the reducer shows, stores in one transaction     *)
(* only the layers that differ (records) and the snapshot's identity       *)
(* (checkpoint), and only then feeds the records and the checkpoint to the *)
(* reducer.  A restart feeds it all records and the checkpoint again.      *)
(*                                                                         *)
(* One line and one producer role: roles own different layers and have     *)
(* bindings and checkpoints of their own.  A generation is a process with  *)
(* its provider identity.  A value stands for condition, availability,     *)
(* code and detail.  Records and requests are sets: the order of records   *)
(* in the store is not used.                                               *)
(***************************************************************************)
EXTENDS Naturals, FiniteSets

CONSTANTS Layer, Value, Generation,
          None,                 \* no generation, record, fact or checkpoint
          TTL,                  \* validity of a fact after it was received
          MaxTime,              \* bound of the clock
          MaxSeq,               \* bound of the snapshots of one process
          MaxSent,              \* bound of the snapshots on their way at a time
          MaxUnderWay           \* bound of these and the ones waiting in Core

VARIABLES
  clock,
  \* the provider processes
  reported,                     \* [Generation -> Nat] snapshots taken so far
  sent,                         \* snapshots on their way to Core
  received,                     \* [snap, at] decoded and waiting for handler.mu
  \* ProviderDirectory, in memory
  current,                      \* the registered generation
  seen,                         \* generations that have registered
  \* BoltStore, durable
  binding,                      \* the generation bound to the role
  streams,                      \* per layer, the epoch of each generation seen
  records,
  checkpoint,
  purged,                       \* the line's tombstone
  \* Reducer, in memory
  facts,                        \* [Layer -> fact or None]
  confirmed,                    \* [Generation -> Nat]
  \* where Core is: "starting" (ReplayInto), "serving" or, holding handler.mu
  \* and the line's lock, "accepting" a snapshot its transaction has committed
  phase,
  pending,                      \* records still to be applied in this phase
  confirming,                   \* the checkpoint that follows them
  deletion                      \* "none", "tombstone" or "done"

directory == <<current, seen>>
store == <<binding, streams, records, checkpoint, purged>>
reducer == <<facts, confirmed>>
job == <<phase, pending, confirming>>
requests == <<reported, sent, received>>
fvars == <<clock, requests, directory, store, reducer, job, deletion>>

Time == 0 .. MaxTime
Snapshot == [gen : Generation, seq : 1 .. MaxSeq, facts : [Layer -> Value]]
Record == [layer : Layer, gen : Generation, epoch : Nat, seq : Nat,
           value : Value, at : Time]
Checkpoint == [gen : Generation, seq : Nat, at : Time]
Fact == [gen : Generation, epoch : Nat, seq : Nat, value : Value, at : Time]

ASSUME FactAssumption ==
  /\ TTL \in Nat \ {0} /\ MaxTime \in Nat /\ MaxSeq \in Nat
  /\ MaxSent \in Nat /\ MaxUnderWay \in Nat
  /\ Layer # {}
  /\ None \notin Generation \cup Checkpoint \cup Fact
                    \cup [Layer -> Value] \cup [gen : Generation, seq : Nat]

\* generationClock: the current generation is the one seen at the last epoch.
Stream == [epoch : Nat, seen : [Generation -> Nat]]
NoStream == [epoch |-> 0, seen |-> [g \in Generation |-> 0]]

FInit ==
  /\ clock = 0
  /\ reported = [g \in Generation |-> 0]
  /\ sent = {} /\ received = {}
  /\ current = None /\ seen = {}
  /\ binding = None
  /\ streams = [l \in Layer |-> NoStream]
  /\ records = {} /\ checkpoint = None /\ purged = FALSE
  /\ facts = [l \in Layer |-> None]
  /\ confirmed = [g \in Generation |-> 0]
  /\ phase = "serving" /\ pending = {} /\ confirming = None
  /\ deletion = "none"

-----------------------------------------------------------------------------
(* The provider's registration and reporting loop.                         *)

\* Mutant: the process that is replaced is noted, not the one registering.
MutantRegister(g) ==
  /\ phase = "serving" /\ current # g /\ g \notin seen
  /\ current' = g /\ seen' = seen \cup {current}
  /\ UNCHANGED <<clock, requests, store, reducer, job, deletion>>

\* RegistrationHandler, Replace: a process that has not registered before
\* becomes current; for the current one nothing changes.  A change waits for
\* the line's lock, which the handler holds while it accepts.
Register(g) ==
  /\ phase = "serving"
  /\ current # g
  /\ g \notin seen
  /\ current' = g
  /\ seen' = seen \cup {g}
  /\ UNCHANGED <<clock, requests, store, reducer, job, deletion>>

\* A process that shuts down removes itself, and nobody else.
Deregister(g) ==
  /\ phase = "serving"
  /\ current = g
  /\ current' = None
  /\ UNCHANGED <<clock, requests, seen, store, reducer, job, deletion>>

\* registerAndReport: every snapshot is a new one with a new sequence, sent
\* once.  An attempt that timed out may still be under way.
Report(g, values) ==
  /\ reported[g] < MaxSeq
  /\ Cardinality(sent) < MaxSent
  /\ Cardinality(sent) + Cardinality(received) < MaxUnderWay
  /\ reported' = [reported EXCEPT ![g] = @ + 1]
  /\ sent' = sent \cup {[gen |-> g, seq |-> reported[g] + 1, facts |-> values]}
  /\ UNCHANGED <<clock, received, directory, store, reducer, job, deletion>>

\* ServeHTTP stamps the request before it asks for any lock.
Receive(s) ==
  /\ phase # "starting"
  /\ s \in sent
  /\ sent' = sent \ {s}
  /\ received' = received \cup {[snap |-> s, at |-> clock]}
  /\ UNCHANGED <<clock, reported, directory, store, reducer, job, deletion>>

\* The attempt ends before Core has read the request.
LoseReport(s) ==
  /\ s \in sent
  /\ sent' = sent \ {s}
  /\ UNCHANGED <<clock, reported, received, directory, store, reducer, job, deletion>>

-----------------------------------------------------------------------------
(* accept and AcceptSnapshot.                                              *)

Fresh(f, t) == t <= f.at + TTL

\* The layers that the reducer does not already show, at the time of receipt,
\* with this process's value.  An expired fact shows as unknown.
Changed(s, t) ==
  {l \in Layer : \/ facts[l] = None
                 \/ ~Fresh(facts[l], t)
                 \/ facts[l].gen # s.gen
                 \/ facts[l].value # s.facts[l]}

\* assignEpoch: a generation that was replaced in the layer may not return.
Assignable(l, g) == streams[l].seen[g] \in {0, streams[l].epoch}
Assigned(l, g) ==
  IF streams[l].seen[g] = 0 THEN streams[l].epoch + 1 ELSE streams[l].epoch

\* Mutant: a late snapshot of the process in use is not recognised.
MutantAcceptable(s, layers) ==
  /\ ~purged
  /\ binding # s.gen => layers = Layer
  /\ \A l \in layers : Assignable(l, s.gen)

\* Everything that can fail inside the transaction.
Acceptable(s, layers) ==
  /\ ~purged
  /\ binding # s.gen => layers = Layer
  /\ \A l \in layers : Assignable(l, s.gen)
  /\ checkpoint # None /\ checkpoint.gen = s.gen => s.seq > checkpoint.seq

NewRecords(s, t, layers) ==
  {[layer |-> l, gen |-> s.gen, epoch |-> Assigned(l, s.gen), seq |-> s.seq,
    value |-> s.facts[l], at |-> t] : l \in layers}

\* UseCurrent and the transaction, under the line's lock and handler.mu.
Accept(r) ==
  LET layers == Changed(r.snap, r.at)
      new == NewRecords(r.snap, r.at, layers)
      mark == [gen |-> r.snap.gen, seq |-> r.snap.seq, at |-> r.at]
  IN /\ phase = "serving"
     /\ r \in received
     /\ current = r.snap.gen
     /\ Acceptable(r.snap, layers)
     /\ received' = received \ {r}
     /\ binding' = r.snap.gen
     /\ streams' = [l \in Layer |->
                      IF l \in layers
                      THEN [epoch |-> Assigned(l, r.snap.gen),
                            seen |-> [streams[l].seen EXCEPT
                                        ![r.snap.gen] = Assigned(l, r.snap.gen)]]
                      ELSE streams[l]]
     /\ records' = records \cup new
     /\ checkpoint' = mark
     /\ phase' = "accepting" /\ pending' = new /\ confirming' = mark
     /\ UNCHANGED <<clock, reported, sent, directory, purged, reducer, deletion>>

\* 409: not current, or the transaction was rolled back.
Refuse(r) ==
  /\ phase = "serving"
  /\ r \in received
  /\ current # r.snap.gen \/ ~Acceptable(r.snap, Changed(r.snap, r.at))
  /\ received' = received \ {r}
  /\ UNCHANGED <<clock, reported, sent, directory, store, reducer, job, deletion>>

-----------------------------------------------------------------------------
(* The reducer is fed, after a transaction or at startup.                  *)

\* Mutant: sequences are not compared.
MutantOlder(a, b) == a.epoch < b.epoch

\* a precedes b in its layer.
Older(a, b) == a.epoch < b.epoch \/ (a.epoch = b.epoch /\ a.seq < b.seq)

FactOf(r) == [gen |-> r.gen, epoch |-> r.epoch, seq |-> r.seq,
              value |-> r.value, at |-> r.at]

\* Replay.Apply of one record.
Apply(r) ==
  /\ phase # "serving"
  /\ r \in pending
  /\ pending' = pending \ {r}
  /\ facts' = IF facts[r.layer] = None \/ Older(facts[r.layer], r)
              THEN [facts EXCEPT ![r.layer] = FactOf(r)]
              ELSE facts
  /\ UNCHANGED <<clock, requests, directory, store, confirmed, phase,
                 confirming, deletion>>

\* Reducer.Confirm: refreshes what this generation reported, once a sequence.
Refreshed(f, c) ==
  IF f # None /\ f.gen = c.gen /\ f.at < c.at THEN [f EXCEPT !.at = c.at] ELSE f

Confirm ==
  /\ phase # "serving" /\ pending = {}
  /\ IF confirming = None \/ confirming.seq <= confirmed[confirming.gen]
     THEN UNCHANGED reducer
     ELSE /\ facts' = [l \in Layer |-> Refreshed(facts[l], confirming)]
          /\ confirmed' = [confirmed EXCEPT ![confirming.gen] = confirming.seq]
  /\ phase' = "serving" /\ confirming' = None
  /\ UNCHANGED <<clock, requests, directory, store, pending, deletion>>

-----------------------------------------------------------------------------
(* Deletion of the line: LinePurger.PurgeLine, without handler.mu.  The    *)
(* guards of the deletion handler were evaluated before and hold no lock.  *)

PurgeStore ==
  /\ phase # "starting"
  /\ deletion # "done"
  /\ purged' = TRUE
  /\ binding' = None /\ checkpoint' = None /\ records' = {}
  /\ streams' = [l \in Layer |-> NoStream]
  /\ deletion' = "tombstone"
  /\ UNCHANGED <<clock, requests, directory, reducer, job>>

RemoveLine ==
  /\ phase # "starting"
  /\ deletion = "tombstone"
  /\ facts' = [l \in Layer |-> None]
  /\ confirmed' = [g \in Generation |-> 0]
  /\ deletion' = "done"
  /\ UNCHANGED <<clock, requests, directory, store, job>>

-----------------------------------------------------------------------------
\* Mutant: the checkpoint is not replayed.
MutantRestart ==
  /\ facts' = [l \in Layer |-> None]
  /\ confirmed' = [g \in Generation |-> 0]
  /\ current' = None /\ seen' = {} /\ received' = {}
  /\ phase' = "starting" /\ pending' = records /\ confirming' = None
  /\ UNCHANGED <<clock, reported, sent, store, deletion>>

\* Core's process ends; the next one opens the store and replays it before it
\* serves anybody.  A deletion that was interrupted is taken up again.
Restart ==
  /\ facts' = [l \in Layer |-> None]
  /\ confirmed' = [g \in Generation |-> 0]
  /\ current' = None /\ seen' = {}
  /\ received' = {}
  /\ phase' = "starting" /\ pending' = records /\ confirming' = checkpoint
  /\ UNCHANGED <<clock, reported, sent, store, deletion>>

FTick ==
  /\ clock < MaxTime
  /\ clock' = clock + 1
  /\ UNCHANGED <<requests, directory, store, reducer, job, deletion>>

FNext ==
  \/ \E g \in Generation : \/ Register(g) \/ Deregister(g)
                           \/ \E values \in [Layer -> Value] : Report(g, values)
  \/ \E s \in sent : Receive(s) \/ LoseReport(s)
  \/ \E r \in received : Accept(r) \/ Refuse(r)
  \/ \E r \in pending : Apply(r)
  \/ Confirm
  \/ PurgeStore \/ RemoveLine
  \/ Restart \/ FTick

FSpec == FInit /\ [][FNext]_fvars

-----------------------------------------------------------------------------
(* Properties.                                                             *)

\* Every variable has its type.
FTypeOK ==
  /\ clock \in Time
  /\ reported \in [Generation -> 0 .. MaxSeq]
  /\ sent \subseteq Snapshot
  /\ received \subseteq [snap : Snapshot, at : Time]
  /\ current \in Generation \cup {None} /\ seen \subseteq Generation
  /\ binding \in Generation \cup {None}
  /\ streams \in [Layer -> Stream]
  /\ records \subseteq Record
  /\ checkpoint \in Checkpoint \cup {None}
  /\ purged \in BOOLEAN
  /\ facts \in [Layer -> Fact \cup {None}]
  /\ confirmed \in [Generation -> Nat]
  /\ phase \in {"starting", "serving", "accepting"}
  /\ pending \subseteq Record
  /\ confirming \in Checkpoint \cup {None}
  /\ deletion \in {"none", "tombstone", "done"}

\* What the journal says a layer's newest record is.
Newest(l) ==
  LET own == {r \in records : r.layer = l}
  IN  CHOOSE r \in own : \A q \in own : ~Older(r, q)

\* The last accepted snapshot, as the changes in the journal tell it.
Recovered ==
  IF checkpoint = None THEN None ELSE [l \in Layer |-> Newest(l).value]

\* Whatever was lost, reordered, refused or crashed: while Core serves, every
\* layer it shows carries the value, and the process, of the snapshot it
\* accepted last; never a mixture of two snapshots or of two processes.
ServesLatestSnapshot ==
  phase = "serving" /\ ~purged =>
    LET snap == Recovered IN
      \A l \in Layer :
        IF snap = None THEN facts[l] = None
        ELSE /\ facts[l] # None
             /\ facts[l].value = snap[l]
             /\ facts[l].gen = checkpoint.gen

\* An unchanged layer stays valid as long as its last confirmation entitles
\* it to, also after a restart that knows the confirmation only from the
\* checkpoint.
FreshnessKept ==
  phase = "serving" /\ ~purged /\ checkpoint # None =>
    \A l \in Layer : facts[l].at >= checkpoint.at

\* The handler, the transaction, the reducer and the restart implement a
\* register that holds the newest snapshot of the newest process.
Promise == INSTANCE FactRegister WITH
  mark <- IF checkpoint = None THEN None
          ELSE [gen |-> checkpoint.gen, seq |-> checkpoint.seq],
  content <- Recovered, deleted <- purged,
  used <- {g \in Generation : \E l \in Layer : streams[l].seen[g] > 0}
ImplementsRegister == Promise!RSpec

\* "Late Agent/Provider events cannot recreate retired data": once a line has
\* been deleted the reducer knows nothing of it.
PurgedLineIsGone ==
  deletion = "done" => \A l \in Layer : facts[l] = None
=============================================================================
