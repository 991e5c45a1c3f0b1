---------------------------- MODULE RingJournal ----------------------------
(***************************************************************************)
(* How a ringing modem reaches Core's call history                         *)
(* (go-runtime/internal/agentevents, cellularevents and callhistory).      *)
(*                                                                         *)
(* The Agent's scanner compares a modem's call list with a durable cursor  *)
(* and appends events to a durable outbox in the same transaction.  Events *)
(* of one ring carry its identity and a growing revision.  They are sent,  *)
(* and sent again, until Core acknowledges them; Core keeps per ring the   *)
(* newest state and the record the user sees.                              *)
(*                                                                         *)
(* One modem.  A fence is one presentation of it: attachment, card and SIM *)
(* session.  "active" stands for active and held; numbers, notifications   *)
(* and native call indices (a modem gives a lone call the same index) are  *)
(* left out.  The outbox, whose index holds an event's identity once, and  *)
(* the events under way are sets: no order of theirs is relied on.         *)
(***************************************************************************)
EXTENDS Naturals, FiniteSets

CONSTANTS Card,
          Called,               \* the cards somebody calls
          None,                 \* no fence, cursor, ring, source or connection
          Unknown,              \* no topology yet
          MaxEpoch,             \* bound of the modem's presentations and the
                                \* Agent's processes together
          MaxOccurrence,        \* bound of the rings of one card
          MaxRevision,          \* bound of a ring's events, its ends aside
          MaxWire               \* bound of the events under way

VARIABLES
  fence,        \* what the modem presents, None when it is absent
  presented,    \* number of presentations so far
  line,         \* the modem's call list
  cursor, occurrence, outbox,           \* the Agent's journal: durable
  process,      \* the Agent's process
  scanned,      \* the fence it reconciled last: events flow from then on
  validated,    \* the rings this process has seen
  connection,   \* the process whose connection Core has, or None
  reported,     \* the fence of that connection's topology
  wire,         \* events under way
  source, record                        \* Core's history: durable

modemVars   == <<fence, presented, line>>
journalVars == <<cursor, occurrence, outbox>>
processVars == <<process, scanned, validated>>
linkVars    == <<connection, reported, wire>>
historyVars == <<source, record>>
rvars == <<modemVars, journalVars, processVars, linkVars, historyVars>>

Fence  == [n : 1..MaxEpoch, card : Card]
Ring   == Card \X (1..MaxOccurrence)
Line   == {"idle", "ringing", "active"}
Closed == {"idle", "unavailable"}
State  == {"ringing_in", "active"} \cup Closed

Event == [ring : Ring, rev : Nat, state : State, fence : Fence]
\* The identity of an event is a digest of these three.
EventID(e) == <<e.ring, e.rev, e.state>>

Cursor == [fence : Fence, ring : Ring \cup {None}, rev : Nat,
           state : State \cup {"starting", "ambiguous", "detached"}]

\* event: the state of the event stored last, which identifies it with rev
Source == [rev : Nat, event : State, state : State, process : 1..MaxEpoch,
           fence : Fence]

ASSUME RingAssumption ==
  /\ Called \subseteq Card
  /\ MaxEpoch \in Nat \ {0} /\ MaxOccurrence \in Nat
  /\ MaxRevision \in Nat /\ MaxWire \in Nat
  /\ None \notin Ring /\ None \notin Fence /\ Unknown \notin Fence
  /\ None \notin Cursor /\ None \notin Source

Status == {"none", "ringing", "answered", "missed", "rejected", "ended",
           "interrupted"}
Over   == {"missed", "rejected", "ended", "interrupted"}

RInit ==
  /\ fence = None /\ presented = 0 /\ line = "idle"
  /\ cursor = None /\ occurrence = [c \in Card |-> 0] /\ outbox = {}
  /\ process = 1 /\ scanned = Unknown /\ validated = {}
  /\ connection = None /\ reported = Unknown /\ wire = {}
  /\ source = [r \in Ring |-> None] /\ record = [r \in Ring |-> "none"]

-----------------------------------------------------------------------------
(* The modem and its carrier.                                              *)

Attach ==
  /\ fence = None /\ presented + process < MaxEpoch
  /\ \E c \in Card : fence' = [n |-> presented + 1, card |-> c]
  /\ presented' = presented + 1
  /\ UNCHANGED <<line, journalVars, processVars, linkVars, historyVars>>

Detach ==
  /\ fence # None
  /\ fence' = None /\ line' = "idle"
  /\ UNCHANGED <<presented, journalVars, processVars, linkVars, historyVars>>

Carrier(from, to) ==
  /\ fence # None /\ line = from /\ line' = to
  /\ UNCHANGED <<fence, presented, journalVars, processVars, linkVars, historyVars>>

PeerRings   == Carrier("idle", "ringing") /\ fence.card \in Called
PeerGivesUp == Carrier("ringing", "idle")
Answered    == Carrier("ringing", "active")
PeerHangsUp == Carrier("active", "idle")

-----------------------------------------------------------------------------
(* The journal.                                                            *)

\* The outbox without the events of ring r that report a call going on.
Retired(box, r) == {e \in box : e.ring # r \/ e.state \in Closed}

\* Such events get the fence under which the ring was seen again.
Rebound(box, r, f) ==
  {IF e.ring = r /\ e.state \notin Closed THEN [e EXCEPT !.fence = f] ELSE e : e \in box}

Pending(r) == \E e \in outbox : e.ring = r

EventOf(c) == [ring |-> c.ring, rev |-> c.rev, state |-> c.state, fence |-> c.fence]

\* Mutant: a card that is presented again counts as another one.
MutantCursorAt(f) ==
  IF cursor # None /\ cursor.fence = f
  THEN cursor
  ELSE [fence |-> f, ring |-> None, rev |-> 0, state |-> "starting"]

\* The cursor a scan starts from: a cursor of another card is forgotten.
CursorAt(f) ==
  IF cursor # None /\ cursor.fence.card = f.card
  THEN [cursor EXCEPT !.fence = f]
  ELSE [fence |-> f, ring |-> None, rev |-> 0, state |-> "starting"]

\* The ring goes on: its waiting events are bound to the fence, and the
\* process vouches for it.
Continue(c, news) ==
  /\ cursor' = c
  /\ outbox' = Rebound(outbox, c.ring, c.fence) \cup news
  /\ validated' = validated \cup {c.ring}

\* Mutant: what was reported of the ring is not withdrawn.
MutantBecomesAmbiguous(c) ==
  /\ cursor' = [c EXCEPT !.state = "ambiguous"]
  /\ validated' = validated \ {c.ring}
  /\ UNCHANGED outbox

\* Nothing can be said of the ring any more.
BecomesAmbiguous(c) ==
  /\ cursor' = [c EXCEPT !.state = "ambiguous"]
  /\ outbox' = Retired(outbox, c.ring)
  /\ validated' = validated \ {c.ring}

\* Mutant: the end of a ring is not a revision of its own.
MutantObserveIdle(c) ==
  LET closed == [c EXCEPT !.state = "idle"] IN
  /\ line = "idle"
  /\ cursor' = closed
  /\ IF c.ring # None /\ c.state # "idle"
     THEN /\ outbox' = Retired(outbox, c.ring) \cup {EventOf(closed)}
          /\ validated' = validated \ {c.ring}
     ELSE UNCHANGED <<outbox, validated>>
  /\ UNCHANGED occurrence

ObserveIdle(c) ==
  LET closed == [c EXCEPT !.state = "idle", !.rev = c.rev + 1] IN
  /\ line = "idle"
  /\ IF c.ring # None /\ c.state # "idle"
     THEN /\ cursor' = closed
          /\ outbox' = Retired(outbox, c.ring) \cup {EventOf(closed)}
          /\ validated' = validated \ {c.ring}
     ELSE /\ cursor' = [c EXCEPT !.state = "idle"]
          /\ UNCHANGED <<outbox, validated>>
  /\ UNCHANGED occurrence

ObserveNewRing(c) ==
  LET n    == occurrence[c.fence.card] + 1
      ring == [c EXCEPT !.ring = <<c.fence.card, n>>, !.rev = 1,
                        !.state = "ringing_in"]
  IN
  /\ line = "ringing"
  /\ c.ring = None \/ c.state = "idle"
  /\ n <= MaxOccurrence
  /\ occurrence' = [occurrence EXCEPT ![c.fence.card] = n]
  /\ Continue(ring, {EventOf(ring)})

\* Every three seconds a ring without waiting events is reported again.
ObserveSameRing(c) ==
  LET again == [c EXCEPT !.rev = c.rev + 1] IN
  /\ line = "ringing"
  /\ c.ring # None /\ c.state = "ringing_in"
  /\ \/ Continue(c, {})
     \/ /\ ~Pending(c.ring) /\ c.rev < MaxRevision
        /\ Continue(again, {EventOf(again)})
  /\ UNCHANGED occurrence

ObserveActive(c) ==
  LET active == [c EXCEPT !.state = "active", !.rev = c.rev + 1] IN
  /\ line = "active"
  /\ c.ring # None /\ c.state # "idle" /\ c.rev < MaxRevision
  /\ Continue(active, {EventOf(active)})
  /\ UNCHANGED occurrence

ObserveOther(c) ==
  /\ \/ line = "ringing" /\ c.ring # None /\ c.state \notin {"idle", "ringing_in"}
     \/ line = "active" /\ (c.ring = None \/ c.state = "idle")
  /\ c.rev <= MaxRevision
  /\ BecomesAmbiguous(c)
  /\ UNCHANGED occurrence

\* One target of Scanner.scan: a fresh call list of the modem the topology
\* names, read under the paid-call manager's lock.
ObserveCall ==
  /\ fence # None /\ scanned = fence
  /\ LET c == CursorAt(fence) IN
       \/ ObserveIdle(c)     \/ ObserveNewRing(c) \/ ObserveSameRing(c)
       \/ ObserveActive(c)   \/ ObserveOther(c)
  /\ UNCHANGED <<modemVars, process, scanned, linkVars, historyVars>>

\* The scanner's topology is new: the device supervisor probed it since, or
\* the process has just started.
ReconcileFences ==
  LET present(c) == fence # None /\ fence.card = c
      lost == [cursor EXCEPT !.state = "unavailable", !.rev = cursor.rev + 1]
      kept(e) == present(e.ring[1]) \/ e.state \in Closed
  IN
  /\ scanned # fence
  /\ IF cursor = None
     THEN /\ outbox' = {e \in outbox : kept(e)}
          /\ UNCHANGED <<cursor, validated>>
     ELSE IF present(cursor.fence.card)
     THEN /\ outbox' = {e \in outbox : kept(e)}
          /\ validated' = IF cursor.fence = fence THEN validated
                          ELSE validated \ {cursor.ring}
          /\ UNCHANGED cursor
     ELSE /\ outbox' = {e \in outbox : kept(e)} \cup
               IF cursor.ring # None /\ cursor.state \notin {"idle", "detached"}
               THEN {EventOf(lost)} ELSE {}
          /\ validated' = validated \ {cursor.ring}
          /\ cursor' = [cursor EXCEPT !.state = "detached", !.ring = None, !.rev = 0]
  /\ scanned' = fence
  /\ UNCHANGED <<modemVars, occurrence, process, linkVars, historyVars>>

AgentRestarts ==
  /\ presented + process < MaxEpoch
  /\ process' = process + 1
  /\ scanned' = Unknown
  /\ validated' = {}
  /\ UNCHANGED <<modemVars, journalVars, connection, reported, wire, historyVars>>

-----------------------------------------------------------------------------
(* The link.                                                               *)

\* Server.add: a second connection of the Agent is refused.
Connect ==
  /\ connection = None
  /\ connection' = process /\ reported' = Unknown
  /\ UNCHANGED <<modemVars, journalVars, processVars, wire, historyVars>>

\* The connection is lost, or Core restarts.
Disconnect ==
  /\ connection # None
  /\ connection' = None /\ reported' = Unknown
  /\ UNCHANGED <<modemVars, journalVars, processVars, wire, historyVars>>

ReportTopology ==
  /\ connection = process /\ reported # fence
  /\ reported' = fence
  /\ UNCHANGED <<modemVars, journalVars, processVars, connection, wire, historyVars>>

\* Client.reportEvents: an event going on is sent only if this process has
\* seen its ring.
SendEvent ==
  /\ connection = process /\ scanned # Unknown /\ Cardinality(wire) < MaxWire
  /\ \E e \in outbox :
       LET m == [event |-> e, from |-> process] IN
       /\ e.state \in Closed \/ e.ring \in validated
       /\ m \notin wire
       /\ wire' = wire \cup {m}
  /\ UNCHANGED <<modemVars, journalVars, processVars, connection, reported,
                 historyVars>>

LoseEvent ==
  /\ \E m \in wire : wire' = wire \ {m}
  /\ UNCHANGED <<modemVars, journalVars, processVars, connection, reported,
                 historyVars>>

-----------------------------------------------------------------------------
(* Core's history.                                                         *)

\* Mutant: an answered call that ends is told as missed.
MutantRecordAfter(status, e, known) ==
  CASE e.state = "ringing_in" -> IF status = "none" THEN "ringing" ELSE status
    [] e.state = "active"     -> "answered"
    [] e.state \in Closed     -> "missed"

\* What an event makes of the record: startTx and updateRecordTx.
RecordAfter(status, e, known) ==
  CASE e.state = "ringing_in" -> IF status = "none" THEN "ringing" ELSE status
    [] e.state = "active"     -> "answered"
    [] e.state \in Closed /\ (~known \/ status \in Over) -> status
    [] e.state = "unavailable" /\ known /\ status \notin Over -> "interrupted"
    [] e.state = "idle" /\ known /\ status \notin Over ->
         IF status = "ringing" THEN "missed" ELSE "ended"

\* Mutant: a process is not told from another.
MutantSourceOf(m, state) ==
  [rev |-> m.event.rev, event |-> m.event.state, state |-> state,
   process |-> connection, fence |-> m.event.fence]

SourceOf(m, state) ==
  [rev |-> m.event.rev, event |-> m.event.state, state |-> state,
   process |-> m.from, fence |-> m.event.fence]

\* Store.AcceptCellularEvent.  An older event is inert, the same one again
\* renews the source, and a ring does not replace an answer or an end.
StoreEvent(m) ==
  LET r == m.event.ring  prior == source[r] IN
  \/ /\ prior # None /\ m.event.rev < prior.rev
     /\ UNCHANGED historyVars
  \/ /\ prior # None /\ m.event.rev = prior.rev
     /\ source' = IF prior.event = m.event.state /\ prior.state = m.event.state
                     /\ prior.state \notin Closed
                  THEN [source EXCEPT ![r] = SourceOf(m, prior.state)] ELSE source
     /\ UNCHANGED record
  \/ /\ prior # None /\ m.event.rev > prior.rev
     /\ m.event.state = "ringing_in" /\ prior.state \in {"active", "idle"}
     /\ source' = [source EXCEPT ![r] = SourceOf(m, prior.state)]
     /\ UNCHANGED record
  \/ /\ prior # None => m.event.rev > prior.rev
     /\ ~(m.event.state = "ringing_in" /\ prior # None
          /\ prior.state \in {"active", "idle"})
     /\ source' = [source EXCEPT ![r] = SourceOf(m, m.event.state)]
     /\ record' = [record EXCEPT ![r] = RecordAfter(@, m.event, prior # None)]

\* Mutant: the end of a call needs the topology, too.
MutantAcceptable(e) == reported = e.fence

\* Service.AcceptModemEvent: a call going on is taken only from the connected
\* process and for the topology it reported; the end of a call from anyone.
Acceptable(e) == e.state \in Closed \/ reported = e.fence
FromConnected(m) == m.event.state \in Closed \/ connection = m.from

\* Its answer, if it is not lost, takes the event out of the outbox of the
\* process that sent it, be it accepted or rejected for good.
Confirmed(m) ==
  \/ /\ m.from = process
     /\ outbox' = {e \in outbox : EventID(e) # EventID(m.event)}
  \/ UNCHANGED outbox

AcceptEvent ==
  /\ \E m \in wire :
       /\ wire' = wire \ {m}
       /\ \/ /\ FromConnected(m) /\ Acceptable(m.event)
             /\ StoreEvent(m) /\ Confirmed(m)
          \/ /\ ~FromConnected(m)
             /\ Confirmed(m) /\ UNCHANGED historyVars
          \/ /\ FromConnected(m) /\ ~Acceptable(m.event)        \* retried later
             /\ UNCHANGED <<outbox, historyVars>>
  /\ UNCHANGED <<modemVars, cursor, occurrence, processVars, connection, reported>>

\* Store.markCellularAction, whenever the Agent has carried out what a browser
\* asked for (IncomingCall).  It fails when the ring is over already.
Markable(r, to) ==
  /\ source[r] # None
  /\ source[r].state = "ringing_in" \/ (to = "ended" /\ source[r].state = "active")

Mark ==
  /\ \E r \in Ring, to \in {"answered", "rejected", "ended"} :
       /\ Markable(r, to)
       /\ source' = [source EXCEPT ![r].state =
                       IF to = "answered" THEN "active" ELSE "idle"]
       /\ record' = [record EXCEPT ![r] =
                       IF to # "answered" /\ @ \in Over THEN @ ELSE to]
  /\ UNCHANGED <<modemVars, journalVars, processVars, linkVars>>

-----------------------------------------------------------------------------

RNext ==
  \/ Attach \/ Detach
  \/ PeerRings \/ PeerGivesUp \/ Answered \/ PeerHangsUp
  \/ ReconcileFences \/ ObserveCall \/ AgentRestarts
  \/ Connect \/ Disconnect \/ ReportTopology
  \/ SendEvent \/ LoseEvent \/ AcceptEvent
  \/ Mark

RSpec == RInit /\ [][RNext]_rvars

\* The Agent goes on reconnecting, scanning and sending what it must; pings
\* find out a connection whose process is gone; the network does not lose
\* everything.  Nothing is asked of the modem.
EndOf(e, r) == e.ring = r /\ e.state \in Closed

RFairness ==
  /\ WF_rvars(Connect) /\ WF_rvars(Disconnect /\ connection # process)
  /\ WF_rvars(ReconcileFences) /\ WF_rvars(ObserveCall)
  /\ SF_rvars(AcceptEvent)
  /\ \A r \in Ring :
       /\ SF_rvars(SendEvent /\ \E m \in wire' \ wire : EndOf(m.event, r))
       /\ SF_rvars(AcceptEvent /\ \E m \in wire \ wire' : EndOf(m.event, r))

RFairSpec == RSpec /\ RFairness

-----------------------------------------------------------------------------
(* Properties.                                                             *)

\* Types of all variables.
RTypeOK ==
  /\ fence \in Fence \cup {None} /\ presented \in 0..MaxEpoch /\ line \in Line
  /\ cursor \in Cursor \cup {None}
  /\ occurrence \in [Card -> 0..MaxOccurrence]
  /\ outbox \subseteq Event
  /\ process \in 1..MaxEpoch
  /\ scanned \in Fence \cup {None, Unknown}
  /\ validated \subseteq Ring \cup {None}
  /\ connection \in 1..MaxEpoch \cup {None}
  /\ reported \in Fence \cup {None, Unknown}
  /\ wire \subseteq [event : Event, from : 1..MaxEpoch]
  /\ source \in [Ring -> Source \cup {None}]
  /\ record \in [Ring -> Status]

\* Every event that may still reach Core.
Events == outbox \cup {m.event : m \in wire}

\* The end of a call that Core takes for going on is never lost: the journal
\* still follows the call, or its end waits in the outbox with a revision that
\* Core will take.  Restarts of the Agent, lost acknowledgements, replugged
\* modems, exchanged cards and events withdrawn as ambiguous must not leave a
\* phantom call in the history.
EndNeverLost ==
  \A r \in Ring :
    source[r] # None /\ source[r].state \notin Closed =>
      \/ cursor # None /\ cursor.ring = r /\ cursor.state # "idle"
      \/ \E e \in outbox : EndOf(e, r) /\ e.rev > source[r].rev

\* A revision of a ring names one event, however often the Agent or its modem
\* restart: Core rejects another event of the same revision as a conflict, and
\* the Agent then drops it, be it the end of the call.
RevisionsIdentify ==
  \A e \in Events :
    /\ \A f \in Events : e.ring = f.ring /\ e.rev = f.rev => e.state = f.state
    /\ source[e.ring] # None /\ source[e.ring].rev = e.rev
       => source[e.ring].event = e.state

\* Of the calls going on, only the one the cursor follows can still be
\* reported, and never with a revision it has not reached: what a later scan
\* or another card has made untrue is withdrawn.
OutboxFollowsCursor ==
  \A e \in outbox :
    e.state \notin Closed =>
      /\ cursor # None /\ cursor.ring = e.ring
      /\ cursor.state \in {"ringing_in", "active"}
      /\ e.rev <= cursor.rev

\* What a browser is told of a ring with source s.
Shown(s) ==
  IF s = None THEN "unknown"
  ELSE CASE s.state = "ringing_in"  -> "ringing"
         [] s.state = "active"      -> "taken"
         [] s.state = "idle"        -> "over"
         [] s.state = "unavailable" -> "lost"

Calls == [r \in Ring |-> Shown(source[r])]

History == INSTANCE RingHistory WITH call <- Calls, story <- record

\* The history tells of every ring a story that RingHistory allows: neither an
\* event sent twice, nor one that overtakes another, nor the refreshes of a
\* modem that rings on after Core answered make it ring again.
ImplementsHistory == History!HSpec

\* Once the modem stays silent or away, Core learns that its calls are over,
\* though the connection fails again and again.
CallsEnd ==
  <>[](line = "idle") =>
  <>[](\A r \in Ring : source[r] # None => source[r].state \in Closed)
=============================================================================
