# Specifications of the MDD SIM gateway

TLA+ modules, TLC configurations and TLAPS proofs for the Go runtime of this
repository (`go-runtime/`).  The gateway lets one server (Core) use SIM cards
and cellular modems that sit in other people's computers and phones (Agents):
it keeps VoWiFi lines registered through providers, and places and answers
ordinary cellular calls on the modems.  A cellular call costs money for every
second it is up, its two ends are different processes on different machines,
and everything between them may fail.  That is where the modelling starts.

## The system

| Part | State | Operations | Talks to |
|---|---|---|---|
| **agentcall** – Agent's paid-call manager | bolt store: one lease record per modem; attempt table; `operationMu` | dial, answer, reject, renew, hang up, DTMF, auxiliary and scan callbacks, 500 ms sweep | modem operator below it, Core above it |
| **agentat / agentmodem** – modem drivers | AT port owner, fresh CLCC inventories | ATD, ATA, CHUP/ATH with verification, SIM and SMS commands | the modem |
| **agentlink** – WebSocket between Agents and Core | connections, pending requests, topology, health sequences, credential and enrolment epochs | add/remove connection, round trip, event delivery and acknowledgement, disconnect, maintenance gate | every Core service and every Agent service |
| **cellularmedia** – Core's cellular calls | sessions (phase, lease, renewal and hangup flags, heartbeat), incoming claims, busy set | prepare, start, answer, reject, DTMF, renew, hang up, delete, 100/500 ms watchdog, stop media | agentlink, agentmedia, callhistory, the browser |
| **agentmedia** – Core's media broker and the Agent's media manager | reservations per session and equipment; one media session per equipment | reserve, attach, acquire, revoke, disconnect, purge | the Agent's WebSocket, the browser's WebSocket |
| **agentevents**, **cellularevents**, **callhistory** – from a ringing modem to the call history | the Agent's cursor, occurrence counters and outbox (durable); Core's source state and record per call (durable) | reconcile fences, observe a call, send, acknowledge, accept, mark answered or rejected | agentlink, cellularmedia, notifications, the browser |
| **exit selection** (**runtimereconcile**, Core's privileged helper, **egressexec**) – another node for a country's exit | Core's ledger of selections, the helper's journal, the published document, the runner's status, the drain lease of each provider | observe, claim, run, record; drain, publish, confirm, release, recover | providers, the runner, the user |
| **state** – component facts and their reduction to line state | latest fact per component, confirmations, validity | apply, confirm, view, evaluate, remove line | every producer of facts, the web UI |
| **recovery** – counting of exit failures, retry policy | tried nodes, strikes, campaign counters, backoff | begin campaign, record failure, classify, next delay | the VoWiFi provider runtime |
| **callsafety** – guard against dialling from an unsafe state | none (pure) | evaluate | Core's call endpoints |
| **agentsms**, **cellularmessages**, **providermessages** – messages | a record per operation in Core and in the Agent, the history of messages | send, replay, ask for a receipt, accept, delete, purge | agentlink, the modem's port, the browser |
| **notifications** | outbox | append, acknowledge, retry | push services |
| **agentdata**, **cellulardata**, **agentpolicy** | data sessions, desired policy | connect, disconnect, reconcile | modem, network stack |
| **agentrawusb**, **rawmodem**, **rawusb**, **agentusbip** | exported USB devices and their owners | export, attach, detach | provider host |
| **runtimereconcile**, **linecatalog**, **linedeletion**, **linebootstrap** | desired lines and what runs, receipts of deletions | reconcile, delete, restore, bootstrap | provider control, every store that knows the line |
| **providerdeploy**, **providerapply**, **providerconfig**, **providercontrol**, **providerfacts** | deployment journal, desired configuration | apply, roll back, report | provider containers |
| **systemupdate**, **updater**, **releaseinstall**, **systembackup**, **boltsnapshot** | update journal, backups | stage, install, roll back, snapshot | the host |
| **adminauth**, **mediaauth** | sessions, tickets | log in, issue, redeem, expire | the browser |
| **egress\***, **linuxdataguard**, **windowsdataguard** | routes and firewall rules | apply, probe | the host |
| **euiccprofiles**, **agentsim** | profile inventory and switches | list, enable, disable | the card |
| **providers/vowifi-go** | IMS registration, tunnel, media | register, call, rekey | carrier, vendored `upstream/` |
| **webui**, **android-agent**, **agent/cellular-io** | user interface, Android client, native AT and network helper | – | Core, Agent |

### How the parts of a cellular call interact

A browser asks Core to prepare a session: Core reserves media at the broker,
tells the Agent to open its audio (agentmedia) and waits until both ends are
connected.  Then the browser asks for the start.  Core sends the dial or answer
over agentlink; the Agent's manager writes a lease record, tells the modem, and
turns the 30 s arming record into a 10 s lease.  From then on Core renews the
lease every few seconds while the browser's heartbeat keeps arriving.  If Core,
the link, the browser or the Agent goes away, renewals stop, the record
expires, and the Agent's watchdog hangs the modem up until two fresh call
lists are empty.

### How a line's facts reach the user

A provider process registers with Core (**mediaauth**), then reports complete
snapshots of its layers every few seconds (**providerfacts**).  Core compares a
snapshot with what its reducer (**state**) shows, stores only the layers that
differ and the snapshot's identity in one bolt transaction (**events**), and
feeds the stored records to the reducer, which the web UI, the readiness of
operations and the reconciler read.  After a restart the journal is replayed.
Deleting a line purges the journal and the reducer one after the other.

### How a ring reaches a browser

The Agent's scanner compares each modem's call list with a durable cursor and
appends events, in the same transaction, to an outbox; a second modem, a new
card or a new presentation of the modem moves the fence and closes what was
open.  Events are sent over agentlink until Core acknowledges them.  Core keeps,
per ring, the newest state and the record the user sees (**callhistory**).  A
browser answers or rejects a fresh ring: **cellularmedia** claims it, prepares
media, asks the Agent, and tells the history what came of it; the claim keeps
other browsers away until the fate of the ring is known.

### How an exit is switched

Failures that are blamed on the exit of a country make Core select another node
and enter the selection in a durable ledger.  Core claims it, which counts the
attempt, and asks a privileged helper to apply the new document.  The helper
drains the providers of the country's lines, publishes the document, waits for
the runner to confirm it, and releases the leases; each of these phases is saved
before it begins, and a helper that starts finishes or rolls back what its
journal says.  The user's own Apply goes the same way and may come in between.

### How mobile data is borrowed

Core stores a grant on the card's budget, asks the Agent for a bearer, and hands out streams
through it, counting bytes and telling the budget now and then.  Stopping waits
for what is under way, asks the Agent, and ends the grant with what was counted.  A Core that
restarted settles a grant it does not know: it has its Agent confirm the stop and charges what
cannot be known as uncertain.  On the Agent, calls come first: they refuse or end
the preparation of data, and data that could not be torn down refuses them.

### How a message is sent

A browser posts an operation with an identity of its own and repeats it until it knows
what became of it.  Core looks for its record, finds the Agent that has the card, enters
a record and asks that Agent, which enters one, too, before its modem gets the
first part.  Both records are removed when the message was certainly not sent, and kept
otherwise: a repeated operation is then answered from the record, or by a receipt from the
Agent's.  What was submitted enters the history.  A line may be deleted for good when each
of its operations is settled; from then on none begins.

### What is hard about it

* A command that starts billing and the record that says so cannot be one
  atomic step; neither can a hangup and the removal of that record.
* Every request can be lost, answered late, or answered after its asker gave
  up; the asker then knows nothing.
* A crash of either side at any point, followed by a restart, must not leave
  an unattended call.
* The carrier acts on its own: it rings, hangs up, and offers second calls.
* The modem can be unplugged, re-enumerated or given another card in
  mid-operation.
* Timers run on both sides and race each other and late answers.
* Facts travel as changes against a reader's view, which expires, is rebuilt
  after a restart, and is fed outside the transaction that stored them.

### Properties that make the parts correct

* agentcall: a paid call always has a durable record; expired records are hung
  up in the end and never revived; one start command per record; SIM, SMS and
  scan operations never meet a paid call.
* cellularmedia: a session is renewed only while its browser is there and never
  after its hangup began; a session that ended has no live call behind it, or
  one that the Agent's lease will end; every session whose browser has gone
  ends.
* agentmedia: one media session per modem, no media without a current
  reservation, no reservation that outlives its Agent connection.
* agentlink: an answer reaches the request it belongs to or nobody; a revoked
  Agent has no connection; health reports never go back.
* state: facts never go back in epoch or sequence, stale facts are not shown
  as fresh, a confirmation refreshes only what it confirms.
* agentevents, callhistory: the end of a call reaches Core, whatever restarts
  or is exchanged; the history never tells a story that cannot have happened.
* claims of rings: no rejection is sent twice, and no claim stays for ever.
* messages: one that is paid for is sent once; a deleted line sends nothing more, and nothing
  that it sent is unaccounted for.
* agentdata, cellulardata: every byte counted is charged, whatever restarts; a stream uses the
  bearer that is up; a session that ended lets calls in again.
* exit selection: a switch that was refused was not and is not made; admission
  is closed while a document is unconfirmed, and opened again afterwards.
* recovery: strikes and campaigns end, every node gets its tries, one failure
  is counted once.

## Plan

| # | Modules | What | State |
|---|---|---|---|
| 1 | `PaidCall`, `BillingHold` | the Agent's paid-call manager, its store and the modems; abstractly, a hold for every paid call | done |
| 2 | `CellularCall` | Core's sessions and requests composed with `PaidCall` | done |
| 3 | `FactJournal`, `FactRegister` | provider directory, snapshot handler, event store, reducer; abstractly, a register of snapshots | done |
| 4 | `RingJournal`, `RingHistory`, `IncomingCall` | the Agent's journal of rings, delivery and acknowledgement, call history; abstractly, the stories a ring may have; over them the claims by browsers | done |
| 5 | `MediaBridge` | media broker and the Agent's media manager, with reservations, handshakes and audio | done |
| 6 | `AgentLink` | connections, credential epochs, pending requests, maintenance, restart of the Agent | done |
| 7 | `ExitSwitch` | the ledger of selections, the helper with its journal, drains and the runner | done |
| 8 | `DataSession` | borrowed mobile data beside calls: Core's sessions, the durable budget of the card, the Agent's bearer and streams | done |
| 9 | `MessageSend` | sending of messages: both records, the port, the history, the deletion of the line | done |
| 10 | provider deployment, received messages and their outboxes, update maintenance, availability intervals, the other purges of line deletion, raw USB | one module each, in this order | planned |

Abstract specifications: `BillingHold`, `FactRegister` and `RingHistory` exist; an
outbox that delivers every message once to a reader (for the message stores) is worth
stating.

Theorems, in order: types and safety of 1 and 2 and both refinements of 1 and 2; the invariant
and the refinement of 3; `RejectNeverRepeated` in 4; types and safety of 5 to 9; the invariant
of `RingJournal` and its refinement of `RingHistory`; the types of the sums that the runs check
(all done).  What remains to be proved comes with the modules of row 10.

## The modules

### PaidCall

`lease` and `ttl` are the bolt record of a modem and what is left until its
`ExpiresAt`; `attempts` is the watchdog's table; `busy` is the holder of
`operationMu`; `call` and `waiting` are the modem, `target` the attachment and card
it presents.  `started` is a ghost: start commands written under one record.
`beginCall` is split where something can come between two of its effects
(`BeginPreflight`, `BeginArm`, `StartWrite`, then `StartConfirm`, `StartUncertain`,
`StartRefused` or `AnswerChanged`); renewal, hangup, rejection and one iteration of
the sweep are one action each, because the lock is held and their only durable effect
is one transaction.  `Crash`, `Restart`, `Tick`, `Ring`, `PeerEnds`, `SecondCall` and
`Replace` are the environment.  A hangup that is not confirmed may have worked.

`BillingHold` is what all of this promises: a hold is taken before a call is paid
for, and dropped only when the modem is idle.

### CellularCall

EXTENDS `PaidCall`: every step of Core or the links leaves the Agent's variables
alone or takes one of the manager's actions, which is what `ImplementsPaidCall` checks
and `PaidCallImplemented` proves.  `session` is what Core's goroutines know,
`registered` the map in which lookups and the watchdog find sessions, `rpc` the
requests to the Agent, `media` the owner of a modem's audio.  A request is sent, runs,
is answered, and its asker may have given up (`wait`) at any point before that.  Each
handler is split exactly at its network calls, where `session.mu` is released.

Simplifications: at most one request of each kind per session is under way; the
browser's canary is part of `browser`; `prepare`'s reservation and acquisition are one
step (`PrepareReady`), the broker is planned; a session identifier is used once, as
the code draws it at random; the wait of 30 s for a start ends before the arming time
of 30 s, which begins later (`StartWaitsEnd`), so a start that Core still waits for
finds its record not yet expired; calls are prepared without call waiting.

### FactJournal

One line and one producer role.  `current` and `seen` are the provider directory,
`binding`, `streams`, `records`, `checkpoint` and `purged` the bolt buckets, `facts`
and `confirmed` the reducer.  `phase` says where Core is between the transaction of a
snapshot and the reducer's knowing all of it; `Restart` may come at every point.  Only
the layers that differ are stored (`Changed`), with the epoch their generation has in
the layer (`Assigned`).

Simplifications: a snapshot is sent once, as in the code, which draws a new sequence for
each attempt, so the branch of AcceptSnapshot for a repeated sequence is not reached;
condition, availability, code and detail of a layer are one value; the expiry of a directory
entry is left out because it only delays or refuses requests; the records form a
set, whose order the reducer does not use.  `deletion` follows
PurgeLine; the guards of the deletion handler hold no lock and are not modelled.

`FactRegister` is the promise: the newest complete snapshot of the newest process, and
no process that was replaced returns.

### RingJournal and RingHistory

`fence` and `line` are the modem, `cursor`, `occurrence` and `outbox` the Agent's bolt
store, `validated` and `scanned` the scanner's memory, `wire` events under way, `source`
and `record` Core's stores.  The outbox is a set, as is `wire`: the store's index holds an
identity once, and what is sent next is any of it.  `ReconcileFences` and `ObserveCall` are one transaction each.
`AgentRestarts` keeps the journal, `Disconnect`, `LoseEvent` and the repetition of what is in
`wire` are the link.  `AcceptEvent` is Core's whole handler: the fence of the connection, the
conflict of revisions, the change of the record, and the acknowledgement, which removes the
event from the outbox in the same step when it arrives.  `Mark` stands for the marks
that `IncomingCall` explains.

`RingHistory` is what a browser may believe: a ring is offered once, then taken or over; a
missed or rejected call was never taken.  The refinement maps `source` to what is offered
(`Shown`, `Calls`) and `record` to the story.

Simplifications: one modem; "active" stands for active and held; a topology report is the
fence it carries; a modem gives a lone call the same index, so a second call is another
presentation's business; SMS uses the same outbox and is left out.

### IncomingCall

EXTENDS `RingHistory`, so the history may do whatever it promises.  `claims` is
`Service.claims`, `op` what a browser's request does in Core, `rpc` its request to the
Agent, which may run after Core gave up.  A session's own life is `CellularCall`; here its
phases are only those the claim depends on.  `SweepClaim` is the sweep, once a second, with its
rules of which claims may go, `CoreRestarts` forgets everything in memory.

### MediaBridge

`reservations`, `attached`, `signalled` and `unclosed` are the broker, split at its lock:
`unclosed` are peers whose closing comes after the unlock.  `handler` is the handler of a
session's socket (`Handshake`, `Attach`, `Acknowledge`, `Announce`), `prep` the Agent's
goroutine of a preparation, split where its manager has no lock (`AgentPrepare`,
`OpenAudio`, `DialSucceeds`, `InsertSession`), `owner` the session it has for the modem, `core`
Core's own goroutine, which gives up after its timeouts.

### AgentLink

`conn` is an attempt to connect as the handler's goroutine sees it: the credential epoch is
noted, the credential looked up, the connection admitted under the lock, and removed in
steps of its own.  `request` is a round trip: a connection is chosen, the request registered
under the lock, written, answered, timed out or ended by the connection.  `inbox` and
`answers` are the socket.  `maintenance` is the holder of host or update maintenance; a
lease to restart the Agent lets its own request pass.  `client`, `workers` and `restarting` are
the Agent's process, which executes `Slots` requests at a time and accepts a restart only
when it executes nothing else.

### ExitSwitch

`selection` is the ledger, `task` Core's goroutine, `helper` the operation under the
helper's mutation lock and `journal` its file; `desired` is the published document,
`runtime` the runner's status, `drain` and `generation` the providers.  `HelperCrashes` may
come between any two saved steps, after which `ResumeAttempt` and `Recover` follow the
journal.  Where a step asks a provider, the provider may do it and the answer be lost.

Simplifications: one country and one failing line; a recovery renders the same document
each time, a user's Apply never the same; nodes, the counting of failures and the texts are left
out; a call to a provider takes effect before the next look at it; the complete journal's other
fields are dropped.

### DataSession

`budget` is the donor budget of a card in the configuration store, written in transactions
that commit or fail as a whole; `donors` are Core's sessions, with what they used and what of it
the budget was told; `settling` is the recovery of a grant whose session Core forgot.
`item` and `cleanup` are the Agent's manager, `ended` the sessions whose context is canceled,
`bearer` and `usable` the modem's data connection, `stream` a stream over it, `voice` a
call.  A read or write is `BeginIO`, `EndIO`, because a stop waits for what is under way.
A stream is dialled without the manager's lock and entered with it (`OpenBegins`,
`OpenEnters`), so the bearer, the session or the Agent may have changed in between: that is what
`MayEnter` looks at.  `CallBegins` is the voice side of `DoCall`: a session that ended is put into
`cleanup` first, and no call is admitted until the watcher has torn it down.
`counted` is a history variable.

Simplifications: one card and one modem; bytes are counted in units; of the streams one at a time
is followed; left out are renewal, which only moves an expiry that may come at any time,
the reservation of media at the broker (`MediaBridge`), the persistent connection that
may share a bearer, and orderly shutdown.  A dial that came to use a later bearer is taken to fail.

### MessageSend

`record` is Core's operation store, `journal` the Agent's, one for each Agent the card
may be at.  `ask` is the handler of a request, split at its transactions and at its network
call (`Lookup`, `Begin`, `Answered` or `NoAnswer`, `Persist`); `exec` is what the Agent does
for it, which goes on when the handler has given up.  `HandPart` hands one part to the modem;
`PartFails` is every error of the port, and `PossiblySent` what the port says of it, on
which everything rests.  `shown` and `known` are the records and the event identities of the
history: `DeleteHistory` removes the former only.  `listing` and `stage` are the
catalog's line and the receipt of its deletion, `barrier` and `closed` the marks in the
two message stores; each stage is a purge or a retention, then the receipt's own transaction, which may
not happen.  `sent` is a history variable.

Simplifications: one line; the target of an operation is its Agent, and that it was made by another
process or for another attachment is a choice (`Begin`, `AgentBegin`); disabling a line and
deleting it are one step; of the stages only the two that concern messages; a part is handed
over at most twice, as SentOnce is violated by then.

### MCAgent, MCCore and MCCoreCalls

Modules that share no state are checked in one run as a disjoint sum: a variable `focus`,
chosen at the start, says which of them moves.  A property of one of them is thus checked on
all of its behaviours, and fairness may be stated for all: a part that does not move stays in
its initial state, where none of its fair actions is enabled.  (MCAgent: PaidCall, MessageSend, AgentLink;
MCCore: CellularCall, ExitSwitch; MCCoreCalls: IncomingCall, MediaBridge, DataSession.)

## The runs

| Run | Instance | Shows |
|---|---|---|
| agent | 2 modems, 2 cards; 1 message of 2 parts, 2 Agents, 2 requests; 2 connections, 2 requests, 1 restart, 2 credentials | types; a paid call has a record (`PaidCallAlwaysLeased`); what a lock holder found out still holds when it acts (`LockHolderInv`); SMS, SIM and scan operations stay off a paid call; the billing hold is implemented; a message is sent once; the deletion of its line is final; a revoked Agent stays out; nobody but its holder uses the link under maintenance; no restart cuts work off |
| paid_call_identity | 1 modem, 2 leases, 2 operations, 2 cards, call waiting, fair | one start per record, no revival of an expired record, and every expired record's call ends |
| paid_call_second_call | 1 modem, call waiting | *violation*: a second call between ATA and its check makes the Agent clear the record of a call it has answered |
| core | 1 session, 2 cards; 2 lines, 1 selection, 1 Apply, 2 attempts | types; a session offered for a start has none under way; a session whose hangup was confirmed is not renewed; the manager's specification is kept; a refused switch is never made; admission is closed until confirmed; no lease is forgotten |
| cellular_liveness | 1 session, longer timers, fair | an unattended call ends |
| cellular_late_start | 1 session | *violation*: the answer to a start undoes a hangup that ended unconfirmed |
| cellular_exact_call | 2 sessions | *violation*: a late hangup ends the next session's call |
| facts_safety | 2 processes, 2 layers, 2 values | types; Core serves the snapshot accepted last, unmixed; freshness survives restarts; the register is implemented |
| ring_history | 1 modem, 2 cards (1 is called), 3 presentations and processes, fair | types; the end of a call is never lost; a revision names one event; what waits in the outbox is still true; the history refines `RingHistory`; calls end in Core, too |
| core_calls | 1 ring, 2 browser operations; 2 media sessions; 2 data sessions, 1 restart of the Agent, fair | types; a rejection is never repeated; claims end; a revoked peer is closed; audio belongs to the modem's owner and is released in the end; every byte counted is charged within the limit; streams run over the bearer that is up; calls are admitted again |
| message_twice | 1 message of 1 part, a helper process | *violation*: a message is sent twice after its helper died |
| facts_purge | 1 process | *violation*: a deleted line is served again |

Bounds.  Durations are 1 to 3 units: what matters is their order (base before maximum
back-off, renewal within a lease, arming at least as long as a lease, heartbeat
against renewal), and each cfg keeps the order it needs.  Two modems are enough for
locks, scans and "an Agent without any lease", two identifiers for every comparison of
identities.  Two sessions with every property are beyond TLC; the properties of one
session do not mention another, and the theorems hold for any number.  In FactJournal
`MaxTime` 2 with a validity of 1 lets facts expire and be confirmed, `MaxSeq` 2 gives each
process a later snapshot, `MaxUnderWay` 2 lets reports meet at the lock in either order
and `MaxSent` 1 of them on the way: a report overtaken on the way is refused like one
overtaken at the lock.  In RingJournal, `MaxEpoch` 3 lets the modem or the Agent come twice after
the first time, in either order; only one card is called, the other is what the modem may
be given instead; `MaxRevision` 2 gives a ring its start, its change and its end; `MaxWire` 2
lets two events under way overtake each other.
In IncomingCall one ring and two operations give every overlap of two claims; each session of
MediaBridge can meet one other.
In MessageSend two Agents let the card move between a send and its repetition, two requests let both
look before either begins, two parts let the second fail after the first; operations do not meet except at the
barrier, which quantifies over them.
In DataSession the limit and the quota of 2 units leave the second session less than it asks for,
`Flush` 2 lets bytes wait for the budget, `MaxProcess` 2 is a restart of the Agent during either
session; any number of bearers follow one another, of which two are told apart.
In AgentLink two connections replace one another, two credentials are
one revocation, two requests one that is in the way of the other; `Slots` is 1, so that
one of them waits.  In ExitSwitch `MaxAttempts` 2 stands for 5, a restart of one provider for
any number, and one selection with one Apply for everything that may come in between.

## Fairness

For the paid calls nothing is assumed of Core, of its browsers or of the link.  Of the Agent: its service
manager restarts it; time passes; an operation that holds the lock ends, since every
one runs under a timeout; and the watchdog, which runs every 500 ms, in the end finds the lock
free and the modem answering (strong fairness of `SweepConfirmed`, as the lock comes
and goes).  Without the last the modem refuses for ever and nobody can promise an end.

`RFairness`: the scanner keeps running (weak), connections are made again and
the topology reported; an event that is sent again and again arrives in the end (strong fairness
of sending and accepting the end of a given ring, as other events may come first and every
connection may break).  `IFairness`: a request to the Agent ends with an answer or its
timeout, and the sweep runs; nothing is assumed of browsers or of the Agent's execution.
`MFairness`: every goroutine goes on, since each wait has a timeout; that a message to stop
arrives is not assumed.  `DFairness`: calls end, and a teardown of a data session that can be
tried succeeds in the end; a modem that never lets its data connection go keeps calls out,
as the code intends.  MessageSend, AgentLink and ExitSwitch have safety properties only.

## What is proved

For every value of the constants, from the named assumptions in the modules: durations and bounds
are numbers, sets that must have members have them, and what stands for "none" or is not known yet (`Unknown`, `NoLease`, `None`, `Nothing`,
`NoConn`, `NoSession`, `NoClaim`) is none of the values it stands beside.  `ExitAssumption` also says
that the identities of selections, of the user's Applies and of the first document differ: the code
draws them at random.

Two kinds of theorem have a hypothesis, because the property is false without it and a run shows
that.  `PaidCallLeased`, `AuxiliaryExcluded`, `HoldImplemented`, `HoldKept` and `RetryIsSafe` assume
`CallWaiting = FALSE` (paid_call_second_call).  `MessageSentOnce` and `LineDeletionIsFinal` assume
`~PrivatePort`, a port whose errors say truly whether a part was handed over (message_twice).

* `PaidCallProofs`.  `PaidCallAlwaysLeased` is not inductive: that ATD or ATA may be
  written rests on the record armed before it, and that a record may be cleared when
  a start is refused rests on no call having come up since the preflight.
  `LockHolderInv` says both.  `IInv` joins it with the types, with the absence of a
  second call and the record of every paid call (`SingleCallInv`), with at most one start per record, and with the absence
  of an inherited back-off.  Its parts give `TypeCorrect`, `LockHolderCorrect`, `StartedOnce`,
  `NoStaleBackoff`, `PaidCallLeased` and `AuxiliaryExcluded`; for `HoldImplemented`
  `HoldStep` maps every action to a step of `BillingHold` or a stutter.  `ExpiredStaysExpired` goes through
  the places where a deadline is set: there was no record, or one in force (`DeadlineSet`).
* `CellularCallProofs`.  `CNextImplements` maps every step of the composition to a step of
  `PaidCall` or a stutter, so `IInv` is inherited (`CIInv`), and `CTypeCorrect`,
  `PaidCallImplemented` and `HoldKept` follow.  `NeverRenewedAfterEnd` needs `EndedInv`: a session whose
  hangup was confirmed is not registered, and never prepared again.  `RetryIsSafe` needs
  `StartInv`: sessions keep their lease and modem; an offered session has no start
  request anywhere, and the Agent works on a start exactly while its request runs; a
  start not yet written to the modem, or refused, owns no call.  Most steps leave all of
  that alone (`QuietAgent`, `StartKept`, `StartFrame`); the start's own steps are done
  one by one.
* `FactJournalProofs`.  `FTypeCorrect`: types through every transaction, replay, restart and deletion.
  `FactInv` says, while the line is not deleted: checkpoint, binding and streams agree (`BoundInv`); an
  epoch has one generation (`StreamsInv`); a record carries the epoch its layer
  assigned to its generation, layer, epoch and sequence identify it, and the newest record of each layer is
  the bound generation's (`RecordsInv`); the reducer shows per layer the newest record that is not pending
  (`ReducerInv`); a checkpoint still to be confirmed has not been confirmed before (`ConfirmedInv`); nothing is
  pending once Core serves.  From it
  `LatestSnapshotServed` and `FactsStayFresh`.  `StoreIsRegister` maps the transaction of a snapshot to the register's
  write, the binding of a process to its replacement, and everything else to a stutter.
* `RingJournalProofs`.  That the end of a call is never lost needs `EndInv`: a ring that the scanner no longer
  follows was never heard of, or its end waits in the outbox and is its newest event, or Core stored the end
  and nothing later is under way.  That in turn rests on these: what is known of a ring anywhere was counted by the
  modem (`KnownInv`); the cursor has the newest revision of its ring (`ReachedInv`); a ring
  whose card was lost is never followed again (`LostInv`); the record tells what the source
  shows (`SourceInv`); a revision names one event (`RevisionsIdentify`); and the
  cursor's ring is of the card presented last, and of the one the scanner found (`CardInv`).
  `RInv` joins them with the types and with `OutboxFollowsCursor`.  Most steps report `NothingNew`; a scan adds a
  `NewEvent`; the acceptance of an event goes through what may be stored (`StoreCases`).  From
  `RInv` follow `RingTypeCorrect`, `EndIsKept`, `RevisionsAreUnique` and `OutboxIsTrue`.  `HistoryIsTold`
  maps the acceptance of an event to an offer, a taking or an end of `RingHistory` or to a stutter (`StoreTells`), a
  mark to a taking or an end (`MarkTells`), and everything else to a stutter.
* `MessageSendProofs`.  `SmsInv` joins the types with `SmsSafe`: an operation is executed once at a time
  (`OneExecution`) and has Core's record meanwhile, unless it was purged behind the barrier (`Recorded`); there is no
  barrier while an execution is undecided (`OpenWhileUndecided`); an execution knows which parts were handed
  over (`Counted`); something sent leaves a record or the barrier (`SentIsRecorded`); a submitted record has
  a part sent and no undecided execution (`SubmittedIsOver`).
  From it `SmsTypeCorrect`, `MessageSentOnce` and `LineDeletionIsFinal`.
* `AgentLinkProofs`.  `LinkInv`: the epoch follows the credential except during a revocation (`EpochInv`); what
  an authorized handshake (`HandshakeInv`) and a registered connection (`RegisteredInv`) rest on; a started
  request keeps to a connection that was registered (`ChosenInv`); what travels over a connection was sent over it
  (`InboxInv`), and so was what a worker executes (`WorkersInv`).  From it `LinkTypeCorrect`,
  `RevokedAgentStaysOut`, `MaintenanceIsExclusive`, `AgentWorkIsOwned`.
* `ExitSwitchProofs`.  `ExitSafe`: the helper works on an attempt that the journal holds in the same phase, and
  releases an attempt still to be published only after it saw that it was not (`JournalInv`); every line is
  closed while publishing, unless the previous document is still in place (`DrainInv`); an Apply that has not
  begun left no trace (`ApplyInv`); a selection that has no attempt, or was canceled, is unpublished and nobody
  is at work on it (`LedgerInv`), and so is one whose first attempt was answered "rejected" (`TaskInv`).
  From it `ExitTypeCorrect`, `DrainsAreOwned`, `AdmissionStaysClosed`, `CancellationIsTrue`.
* `CoreCallsProofs`, three parts.  Claims: `RejectInv` says that the ring of a rejection that is not gone is
  known, and that while it still rings the rejection has its claim, which the sweep leaves alone (its outcome is
  uncertain, or the history is still to be told); with the fact that a known ring never rings again
  (`HistoryMoves`), `RejectedOnce`.  Audio: `MediaTypeCorrect`, `ModemAudioIsOwned` and
  `PeersOfRevokedAreClosed`, whose properties are inductive beside the types.  Data: `EveryByteCharged` needs `GrantInv`
  (a session that Core knows has the grant; a grant being settled is of none) and `CountInv` (such a session agrees with
  its grant, and beside what it has not told the budget yet everything counted is charged); the
  types of the numbers follow from the same, so they are proved together (`MoneyInv`).  `StreamsOnCurrentBearer` needs `StreamInv`:
  a dial that may still be entered is of the modem's session and of the bearer that is up.
* The sums.  `AgentTypeCorrect`, `CoreStateCorrect` and `CoreTypeCorrect`, at the end of `AgentLinkProofs`,
  `ExitSwitchProofs` and `CoreCallsProofs`, show that each behaviour of `MCAgent`, `MCCore` and `MCCoreCalls` is one
  of every part, so what is proved of the parts holds of the sums that the runs check.

TLC confirms each inductive invariant (`IInv`, `CIInv`, `EndedInv`, `StartInv`, `FactInv`, `RInv`, `SmsInv`, `LinkInv`, `ExitSafe`,
`RejectInv`, `DataInv`) on every reachable state of its component's instance in the runs.

Only model-checked: the liveness properties (`ExpiredLeaseEnds`, `UnattendedCallEnds`,
`CallsEnd`, `ClaimsEnd`, `AudioReleased`, `CallsAdmittedAgain`), which are beyond the prover.

## What the model shows about the code

Five places where the code does something else than its comments or its design say, each with a
run: the record cleared after an answer (paid_call_second_call), the hangup undone by a late
start (cellular_late_start), the hangup
without a lease identity (cellular_exact_call), the purge without a shared lock (facts_purge), the
message that a dying helper had and that counts as not sent (message_twice).  In the first three the Agent's
lease still bounds what it costs, and a restart of Core removes the purged line; a message sent twice is paid twice.

Further observations, without a run:

* A session whose start is uncertain is renewed while its browser is there, so the call, if there
  is one, lasts until somebody hangs up.
* `answerIncoming` never looks at the claim: an answer that comes late, after the sweep dropped the
  claim and another browser took it, still goes to the Agent, which refuses it if the
  call is no longer ringing.  A claim of an outcome that is known is swept only when the ring is idle or
  forgotten, not when its modem became unavailable; until then updates are refused.
* A request that timed out may still be executed by the Agent while Core holds maintenance;
  `WorkIsOwned` shows that no restart cuts it off.
* A provider that restarts while it is drained never shows its old generation again, so the
  attempt that drained it cannot complete and further Applies are refused until somebody
  intervenes (DEVELOPMENT.md describes this as intended).
* A read that brings more than a data session may still use is delivered, but counted only up
  to the quota, so what is relayed may exceed what is charged by what is in flight.
* A stop of a data session that overtakes its preparation finds nothing and succeeds; the late
  preparation then holds the modem until it expires, and Core's next one meets a conflict.
* After a restart of the Agent's process the stop of its earlier session is refused for ever, so
  the grant stays and neither a reset nor another session is possible for that card (a comment
  says that unknown stops retain the reservation).
* The barrier of a permanent deletion looks for submitted messages in what the history shows, so once the user has
  deleted a sent message from it the line can never be deleted for good.  As the deletion's receipt is written
  before the barrier is asked, and a line with an unfinished deletion cannot be restored, such a line stays in
  between; so does one with an operation that stays uncertain.
* A receipt can settle an operation as submitted, after which the loss of the original answer makes it uncertain
  again, until the next receipt.
* A runner that restarts after it rolled back applies the published document again, when the
  lines already admit calls.

## Not modelled

Everything in the table of the parts that has no module above; `PROJECT.json` gives the reason
for each.  In short: device and kernel input and output, parsing, rendering of configuration,
HTTP views, the user interfaces, and the vendored code are outside what these models
are for; the rest is in the plan.
