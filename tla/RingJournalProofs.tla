-------------------------- MODULE RingJournalProofs --------------------------
(***************************************************************************)
(* What RingJournal's runs show of small instances, for all of them: that  *)
(* the end of a call is never lost, and that the history tells RingHistory.*)
(***************************************************************************)
EXTENDS RingJournal, TLAPS

OnCursor(r) == cursor # None /\ cursor.ring = r
Followed(r) == OnCursor(r) /\ cursor.state # "idle"

\* No event of ring r is newer than revision n.
NoneAfter(r, n) == \A e \in Events : e.ring = r => e.rev <= n

\* The bound of presentations and processes, for the types.
EpochsLeft == presented + process <= MaxEpoch

\* A ring that is followed is of the card presented last, and once the
\* process has reconciled, of the card it found.
CardInv ==
  cursor # None /\ cursor.ring # None =>
    /\ cursor.ring[1] = cursor.fence.card
    /\ cursor.state # "detached"
    /\ scanned \notin {None, Unknown} => cursor.fence.card = scanned.card

\* What is known anywhere of a ring was counted.
KnownInv ==
  /\ \A e \in Events : e.ring[2] <= occurrence[e.ring[1]]
  /\ \A r \in Ring : source[r] # None \/ OnCursor(r) => r[2] <= occurrence[r[1]]

\* The cursor has the newest revision of its ring.
ReachedInv ==
  \A r \in Ring : OnCursor(r) =>
    /\ NoneAfter(r, cursor.rev)
    /\ source[r] # None => source[r].rev <= cursor.rev

\* A ring that is no longer followed has its end: in the outbox, as the
\* newest event, or in the history, after which nothing comes.
EndWaits(r) ==
  \E e \in outbox :
    /\ EndOf(e, r) /\ NoneAfter(r, e.rev)
    /\ source[r] # None => source[r].rev <= e.rev

EndStored(r) ==
  /\ source[r] # None /\ source[r].event \in Closed
  /\ NoneAfter(r, source[r].rev)

Unheard(r) == source[r] = None /\ \A e \in Events : e.ring # r

EndInv == \A r \in Ring : Followed(r) \/ Unheard(r) \/ EndWaits(r) \/ EndStored(r)

\* A ring whose card was lost is not followed again, and nothing comes after.
LostInv ==
  /\ \A e \in Events : e.state = "unavailable" =>
       ~OnCursor(e.ring) /\ NoneAfter(e.ring, e.rev)
  /\ \A r \in Ring : source[r] # None /\ source[r].state = "unavailable" =>
       ~OnCursor(r) /\ NoneAfter(r, source[r].rev)

\* The record tells what the source shows.
SourceInv ==
  \A r \in Ring :
    /\ source[r] = None => record[r] = "none"
    /\ source[r] # None =>
         /\ source[r].event \in Closed => source[r].state \in Closed
         /\ source[r].state = "ringing_in" => record[r] = "ringing"
         /\ source[r].state = "active" => record[r] = "answered"

\* What the history and the rings' ends say, without the rules of the outbox.
StoryInv == KnownInv /\ ReachedInv /\ EndInv /\ LostInv /\ SourceInv /\ RevisionsIdentify

RInv == RTypeOK /\ EpochsLeft /\ CardInv /\ StoryInv /\ OutboxFollowsCursor

-----------------------------------------------------------------------------
(* What the invariants rest on.                                            *)

\* Where types are all that matters.
LEMMA EventTypes ==
  ASSUME RTypeOK
  PROVE  /\ \A e \in Events : e \in Event /\ e.ring \in Ring /\ e.rev \in Nat /\ e.state \in State
         /\ \A r \in Ring : source[r] # None =>
              /\ source[r].rev \in Nat /\ source[r].state \in State
              /\ source[r].event \in State
         /\ cursor # None =>
              cursor \in Cursor /\ cursor.rev \in Nat /\ cursor.ring \in Ring \cup {None}
BY DEF RTypeOK, Events, Event, Source, Cursor

LEMMA RingTypes ==
  ASSUME RTypeOK, NEW r \in Ring
  PROVE  /\ r[1] \in Card /\ r[2] \in Nat /\ occurrence[r[1]] \in Nat
         /\ r = <<r[1], r[2]>>
BY RingAssumption DEF RTypeOK, Ring

\* Two events that Core cannot tell apart.
Same(d, e) == d.ring = e.ring /\ d.rev = e.rev /\ d.state = e.state

\* A step after which every event was there before, but for its fence.
Carried  == \A e \in Events' : \E d \in Events : Same(d, e)
EndsKept == \A e \in outbox : e.state \in Closed => e \in outbox'

LEMMA CarriedNoneAfter ==
  ASSUME Carried, NEW r, NEW n, NoneAfter(r, n)
  PROVE  NoneAfter(r, n)'
BY DEF Carried, NoneAfter, Same

\* A step that reports nothing new, forgets no end and follows the same ring.
LEMMA NothingNew ==
  ASSUME RTypeOK, RTypeOK', StoryInv, Carried, EndsKept,
         source' = source, record' = record, occurrence' = occurrence,
         \A r \in Ring : OnCursor(r)' => OnCursor(r) /\ cursor'.rev = cursor.rev,
         \A r \in Ring : Followed(r) => Followed(r)'
  PROVE  StoryInv'
<1> USE EventTypes DEF StoryInv
<1>1. KnownInv'
  BY DEF KnownInv, Carried, Same
<1>2. ReachedInv'
  BY CarriedNoneAfter DEF ReachedInv
<1>3. EndInv'
  <2> SUFFICES ASSUME NEW r \in Ring, ~Followed(r)
               PROVE  Unheard(r)' \/ EndWaits(r)' \/ EndStored(r)'
    BY DEF EndInv
  <2>1. CASE Unheard(r)
    BY <2>1 DEF Unheard, Carried, Same
  <2>2. CASE EndWaits(r)
    BY <2>2, CarriedNoneAfter DEF EndWaits, EndOf, EndsKept
  <2>3. CASE EndStored(r)
    BY <2>3, CarriedNoneAfter DEF EndStored
  <2>4. QED BY <2>1, <2>2, <2>3 DEF EndInv
<1>4. LostInv'
  <2>1. ASSUME NEW e \in Events', e.state = "unavailable"
        PROVE  ~OnCursor(e.ring)' /\ NoneAfter(e.ring, e.rev)'
    <3>1. PICK d \in Events : Same(d, e)
      BY DEF Carried
    <3>2. ~OnCursor(e.ring) /\ NoneAfter(e.ring, e.rev) /\ e.ring \in Ring
      BY <2>1, <3>1 DEF LostInv, Same
    <3>3. QED BY <3>2, CarriedNoneAfter
  <2>2. ASSUME NEW r \in Ring, source[r] # None, source[r].state = "unavailable"
        PROVE  ~OnCursor(r)' /\ NoneAfter(r, source[r].rev)'
    BY <2>2, CarriedNoneAfter DEF LostInv
  <2>3. QED BY <2>1, <2>2 DEF LostInv
<1>5. SourceInv'
  BY DEF SourceInv
<1>6. RevisionsIdentify'
  BY DEF RevisionsIdentify, Carried, Same
<1>7. QED BY <1>1, <1>2, <1>3, <1>4, <1>5, <1>6

\* A step that reports n, the newest event of the only ring that is followed.
CarriedOr(n) == \A e \in Events' : e = n \/ \E d \in Events : Same(d, e)

LEMMA OtherNoneAfter ==
  ASSUME NEW n, CarriedOr(n), NEW r, NEW k, r # n.ring, NoneAfter(r, k)
  PROVE  NoneAfter(r, k)'
BY DEF NoneAfter, CarriedOr, Same

LEMMA NewEvent ==
  ASSUME RTypeOK, RTypeOK', StoryInv, NEW n \in outbox', CarriedOr(n), EndsKept,
         source' = source, record' = record,
         \A c \in Card : occurrence'[c] >= occurrence[c],
         n.ring[2] <= occurrence'[n.ring[1]],
         \A e \in Events : e.ring = n.ring => e.rev < n.rev,
         source[n.ring] # None => source[n.ring].rev < n.rev,
         OnCursor(n.ring) \/ (source[n.ring] = None /\ \A e \in Events : e.ring # n.ring),
         \A r \in Ring : OnCursor(r)' => r = n.ring /\ cursor'.rev = n.rev,
         \A r \in Ring : Followed(r) => r = n.ring,
         n.state \in Closed \/ Followed(n.ring)',
         n.state = "unavailable" => ~OnCursor(n.ring)'
  PROVE  StoryInv'
<1> USE DEF StoryInv
<1>0. n \in Events' /\ n.ring \in Ring /\ n.rev \in Nat /\ n.state \in State
  BY DEF Events, RTypeOK, Event
<1>b. NoneAfter(n.ring, n.rev)'
  BY <1>0, EventTypes DEF NoneAfter, CarriedOr, Same
<1>1. KnownInv'
  <2>1. \A r \in Ring : r[2] <= occurrence[r[1]] => r[2] <= occurrence'[r[1]]
    BY RingAssumption DEF RTypeOK, Ring
  <2>2. ASSUME NEW e \in Events' PROVE e.ring[2] <= occurrence'[e.ring[1]]
    BY <2>1, EventTypes DEF KnownInv, CarriedOr, Same
  <2>3. QED BY <2>1, <2>2 DEF KnownInv
<1>2. ReachedInv'
  <2> SUFFICES ASSUME NEW r \in Ring, OnCursor(r)'
               PROVE  /\ \A e \in Events' : e.ring = r => e.rev <= cursor'.rev
                      /\ source[r] # None => source[r].rev <= cursor'.rev
    BY DEF ReachedInv, NoneAfter
  <2> QED BY <1>0, <1>b, EventTypes DEF NoneAfter
<1>3. EndInv'
  <2> SUFFICES ASSUME NEW r \in Ring
               PROVE  Followed(r)' \/ Unheard(r)' \/ EndWaits(r)' \/ EndStored(r)'
    BY DEF EndInv
  <2>1. CASE r = n.ring
    BY <2>1, <1>0, <1>b, EventTypes DEF EndWaits, EndOf
  <2>2. CASE r # n.ring
    <3>1. CASE Unheard(r)
      BY <2>2, <3>1 DEF Unheard, CarriedOr, Same
    <3>2. CASE EndWaits(r)
      BY <2>2, <3>2, OtherNoneAfter DEF EndWaits, EndOf, EndsKept
    <3>3. CASE EndStored(r)
      BY <2>2, <3>3, OtherNoneAfter DEF EndStored
    <3>4. QED BY <2>2, <3>1, <3>2, <3>3 DEF EndInv
  <2>3. QED BY <2>1, <2>2
<1>4. LostInv'
  <2>1. ASSUME NEW e \in Events', e.state = "unavailable"
        PROVE  ~OnCursor(e.ring)' /\ NoneAfter(e.ring, e.rev)'
    <3>1. CASE e = n
      BY <2>1, <3>1, <1>b
    <3>2. CASE e # n
      <4>1. PICK d \in Events : Same(d, e)
        BY <3>2 DEF CarriedOr
      <4>2. /\ ~OnCursor(e.ring) /\ NoneAfter(e.ring, e.rev) /\ e.ring \in Ring
            /\ e.ring # n.ring
        BY <2>1, <4>1, EventTypes DEF LostInv, Same
      <4>3. QED BY <4>2, OtherNoneAfter
    <3>3. QED BY <3>1, <3>2
  <2>2. ASSUME NEW r \in Ring, source[r] # None, source[r].state = "unavailable"
        PROVE  ~OnCursor(r)' /\ NoneAfter(r, source[r].rev)'
    <3>1. ~OnCursor(r) /\ NoneAfter(r, source[r].rev) /\ r # n.ring
      BY <2>2 DEF LostInv
    <3>2. QED BY <3>1, OtherNoneAfter
  <2>3. QED BY <2>1, <2>2 DEF LostInv
<1>5. SourceInv'
  BY DEF SourceInv
<1>6. RevisionsIdentify'
  <2>1. ASSUME NEW e \in Events', NEW f \in Events', e.ring = f.ring, e.rev = f.rev
        PROVE  e.state = f.state
    BY <2>1, <1>0, EventTypes DEF RevisionsIdentify, CarriedOr, Same
  <2>2. ASSUME NEW e \in Events', source[e.ring] # None, source[e.ring].rev = e.rev
        PROVE  source[e.ring].event = e.state
    BY <2>2, <1>0, EventTypes DEF RevisionsIdentify, CarriedOr, Same
  <2>3. QED BY <2>1, <2>2 DEF RevisionsIdentify
<1>7. QED BY <1>1, <1>2, <1>3, <1>4, <1>5, <1>6

-----------------------------------------------------------------------------
(* The journal.                                                            *)

LEMMA ReboundIs ==
  ASSUME NEW box, box \subseteq Event, NEW r, NEW f \in Fence
  PROVE  /\ Rebound(box, r, f) \subseteq Event
         /\ \A e \in Rebound(box, r, f) : \E d \in box : Same(d, e)
         /\ \A d \in box : d.state \in Closed => d \in Rebound(box, r, f)
BY DEF Rebound, Event, Same

\* The cursor c that a scan of the modem's fence starts from.
At(c) ==
  /\ c \in Cursor /\ c.fence \in Fence /\ c.fence = scanned /\ c.rev \in Nat
  /\ c.ring \in Ring \cup {None}
  /\ c.ring = None => \A r \in Ring : ~OnCursor(r)
  /\ c.ring # None =>
       /\ OnCursor(c.ring) /\ c.rev = cursor.rev /\ c.state = cursor.state
       /\ c.ring[1] = c.fence.card /\ c.state # "detached"

LEMMA CursorAtIs ==
  ASSUME RInv, fence # None, scanned = fence
  PROVE  At(CursorAt(fence))
<1>1. fence \in Fence /\ fence # Unknown /\ fence.card \in Card
  BY RingAssumption DEF RInv, RTypeOK, Fence
<1>2. CASE cursor # None /\ cursor.fence.card = fence.card
  <2>1. CursorAt(fence) = [cursor EXCEPT !.fence = fence] /\ cursor \in Cursor
    BY <1>2 DEF CursorAt, RInv, RTypeOK
  <2>2. CursorAt(fence) \in Cursor
    BY <1>1, <2>1 DEF Cursor
  <2>3. /\ CursorAt(fence).fence = fence /\ CursorAt(fence).ring = cursor.ring
        /\ CursorAt(fence).rev = cursor.rev /\ CursorAt(fence).state = cursor.state
    BY <2>1 DEF Cursor
  <2>4. CursorAt(fence).ring \in Ring \cup {None} /\ CursorAt(fence).rev \in Nat
    BY <2>2 DEF Cursor
  <2>5. cursor.ring # None => cursor.ring[1] = cursor.fence.card /\ cursor.state # "detached"
    BY <1>2 DEF RInv, CardInv
  <2>6. QED BY <1>1, <1>2, <2>2, <2>3, <2>4, <2>5, RingAssumption DEF At, OnCursor
<1>3. CASE ~(cursor # None /\ cursor.fence.card = fence.card)
  <2>1. CursorAt(fence) = [fence |-> fence, ring |-> None, rev |-> 0, state |-> "starting"]
    BY <1>3 DEF CursorAt
  <2>2. \A r \in Ring : ~OnCursor(r)
    BY <1>1, <1>3, RingAssumption DEF RInv, CardInv, OnCursor
  <2>3. QED BY <1>1, <2>1, <2>2 DEF At, Cursor
<1>4. QED BY <1>2, <1>3

\* A cursor with another state and revision.
LEMMA CursorWith ==
  ASSUME NEW c \in Cursor, NEW s \in State \cup {"starting", "ambiguous", "detached"}, NEW k \in Nat
  PROVE  /\ [c EXCEPT !.state = s, !.rev = k] \in Cursor
         /\ [c EXCEPT !.state = s, !.rev = k].ring = c.ring
         /\ [c EXCEPT !.state = s, !.rev = k].rev = k
         /\ [c EXCEPT !.state = s, !.rev = k].state = s
         /\ [c EXCEPT !.state = s, !.rev = k].fence = c.fence
         /\ [c EXCEPT !.state = s] \in Cursor
         /\ [c EXCEPT !.state = s].ring = c.ring
         /\ [c EXCEPT !.state = s].rev = c.rev
         /\ [c EXCEPT !.state = s].state = s
         /\ [c EXCEPT !.state = s].fence = c.fence
         /\ [c EXCEPT !.rev = k] \in Cursor
         /\ [c EXCEPT !.rev = k].ring = c.ring
         /\ [c EXCEPT !.rev = k].rev = k
         /\ [c EXCEPT !.rev = k].state = c.state
         /\ [c EXCEPT !.rev = k].fence = c.fence
BY DEF Cursor

ScanFrame == UNCHANGED <<modemVars, process, scanned, linkVars, historyVars>>

\* The cursor goes on to the next revision of its ring and reports it.
LEMMA ReportNext ==
  ASSUME RInv, RTypeOK', NEW c, At(c), c.ring # None, ScanFrame, occurrence' = occurrence,
         cursor' \in Cursor, cursor'.ring = c.ring, cursor'.rev = c.rev + 1,
         NEW n \in outbox', n.ring = c.ring, n.rev = c.rev + 1, n.state = cursor'.state,
         n.state \in {"idle", "ringing_in", "active"}, CarriedOr(n), EndsKept
  PROVE  StoryInv'
<1> USE DEF historyVars
<1>2. c.ring \in Ring /\ OnCursor(c.ring) /\ n.state # "unavailable"
  BY DEF At
<1>3. /\ \A e \in Events : e.ring = n.ring => e.rev < n.rev
      /\ source[n.ring] # None => source[n.ring].rev < n.rev
  BY <1>2, EventTypes DEF RInv, StoryInv, ReachedInv, NoneAfter, At
<1>4. n.ring[2] <= occurrence'[n.ring[1]]
  BY <1>2 DEF RInv, StoryInv, KnownInv
<1>5. \A k \in Card : occurrence'[k] >= occurrence[k]
  BY DEF RInv, RTypeOK
<1>6. n.state \in Closed \/ Followed(n.ring)'
  BY <1>2, RingAssumption DEF Closed, Followed, OnCursor
<1>7. /\ \A r \in Ring : OnCursor(r)' => r = n.ring /\ cursor'.rev = n.rev
      /\ \A r \in Ring : Followed(r) => r = n.ring
  BY <1>2 DEF Followed, OnCursor
<1>8. QED BY <1>2, <1>3, <1>4, <1>5, <1>6, <1>7, NewEvent DEF RInv, ScanFrame

LEMMA IdleKept ==
  ASSUME RInv, NEW c, At(c), ObserveIdle(c), ScanFrame
  PROVE  RInv'
<1> DEFINE closed == [c EXCEPT !.state = "idle", !.rev = c.rev + 1]
           n == EventOf(closed)
<1> USE DEF modemVars, linkVars, historyVars
<1>1. CASE c.ring # None /\ c.state # "idle"
  <2>1. /\ cursor' = closed /\ outbox' = Retired(outbox, c.ring) \cup {n}
        /\ validated' = validated \ {c.ring} /\ occurrence' = occurrence
    BY <1>1 DEF ObserveIdle
  <2>2. /\ closed \in Cursor /\ closed.ring = c.ring /\ closed.rev = c.rev + 1
        /\ closed.state = "idle" /\ closed.fence = c.fence
    <3>1. c \in Cursor /\ c.rev + 1 \in Nat /\ "idle" \in State
      BY DEF At, State, Closed
    <3>2. QED BY <3>1 DEF Cursor
  <2>3. n \in Event /\ n.ring = c.ring /\ n.rev = c.rev + 1 /\ n.state = "idle"
    BY <1>1, <2>2 DEF At, EventOf, Event, State, Closed
  <2>. HIDE DEF closed, n
  <2>4. RTypeOK'
    BY <2>1, <2>2, <2>3 DEF RInv, RTypeOK, ScanFrame, Retired
  <2>5. CardInv'
    BY <1>1, <2>1, <2>2 DEF CardInv, At, ScanFrame
  <2>6. StoryInv'
    <3>1. CarriedOr(n) /\ EndsKept /\ n \in outbox'
      BY <2>1 DEF CarriedOr, EndsKept, Events, Same, Retired, ScanFrame
    <3>2. QED BY <1>1, <2>1, <2>2, <2>3, <2>4, <3>1, ReportNext DEF ScanFrame, Closed
  <2>7. OutboxFollowsCursor'
    BY <1>1, <2>1, <2>2, <2>3 DEF RInv, OutboxFollowsCursor, Retired, At, OnCursor, Closed
  <2>8. QED BY <2>4, <2>5, <2>6, <2>7 DEF RInv, EpochsLeft, ScanFrame
<1>2. CASE ~(c.ring # None /\ c.state # "idle")
  <2>1. /\ cursor' = [c EXCEPT !.state = "idle"] /\ outbox' = outbox
        /\ validated' = validated /\ occurrence' = occurrence
    BY <1>2 DEF ObserveIdle
  <2>2. /\ cursor' \in Cursor /\ cursor'.ring = c.ring /\ cursor'.rev = c.rev
        /\ cursor'.state = "idle" /\ cursor'.fence = c.fence
    BY <2>1, CursorWith DEF At, State, Closed
  <2>4. RTypeOK'
    BY <2>1, <2>2 DEF RInv, RTypeOK, ScanFrame
  <2>5. CardInv'
    BY <1>2, <2>1, <2>2 DEF CardInv, At, ScanFrame
  <2>6. StoryInv'
    <3>1. Carried /\ EndsKept
      BY <2>1 DEF Carried, EndsKept, Events, Same, ScanFrame
    <3>2. \A r \in Ring : OnCursor(r)' => OnCursor(r) /\ cursor'.rev = cursor.rev
      BY <2>2, RingAssumption DEF At, OnCursor
    <3>3. \A r \in Ring : ~Followed(r)
      BY <1>2, RingAssumption DEF At, OnCursor, Followed
    <3>4. QED BY <2>1, <2>4, <3>1, <3>2, <3>3, NothingNew DEF RInv, ScanFrame
  <2>7. OutboxFollowsCursor'
    <3>1. \A e \in outbox : e.state \in Closed
      BY <1>2 DEF RInv, RTypeOK, Event, OutboxFollowsCursor, At, OnCursor
    <3>2. QED BY <2>1, <3>1 DEF OutboxFollowsCursor
  <2>8. QED BY <2>4, <2>5, <2>6, <2>7 DEF RInv, EpochsLeft, ScanFrame
<1>3. QED BY <1>1, <1>2

LEMMA NewRingKept ==
  ASSUME RInv, NEW c, At(c), ObserveNewRing(c), ScanFrame
  PROVE  RInv'
<1> SUFFICES ASSUME NEW k, k = occurrence[c.fence.card] + 1 PROVE RInv'
  OBVIOUS
<1> DEFINE ring == [c EXCEPT !.ring = <<c.fence.card, k>>, !.rev = 1, !.state = "ringing_in"]
           n == EventOf(ring)
<1> USE DEF modemVars, linkVars, historyVars
<1>1. /\ cursor' = ring /\ outbox' = Rebound(outbox, ring.ring, ring.fence) \cup {n}
      /\ validated' = validated \cup {ring.ring}
      /\ occurrence' = [occurrence EXCEPT ![c.fence.card] = k]
      /\ k <= MaxOccurrence /\ (c.ring = None \/ c.state = "idle")
  BY DEF ObserveNewRing, Continue
<1>2. /\ c.fence.card \in Card /\ occurrence[c.fence.card] \in Nat
      /\ k \in 1..MaxOccurrence /\ <<c.fence.card, k>> \in Ring
  BY <1>1, RingAssumption DEF At, RInv, RTypeOK, Fence, Ring
<1>3. /\ ring \in Cursor /\ ring.ring = <<c.fence.card, k>> /\ ring.rev = 1
      /\ ring.state = "ringing_in" /\ ring.fence = c.fence
  BY <1>2 DEF At, Cursor, State
<1>4. n \in Event /\ n.ring = <<c.fence.card, k>> /\ n.rev = 1 /\ n.state = "ringing_in"
  BY <1>2, <1>3 DEF EventOf, Event, Cursor, At, State
<1>. HIDE DEF ring, n
<1>5. /\ Rebound(outbox, ring.ring, ring.fence) \subseteq Event
      /\ \A e \in Rebound(outbox, ring.ring, ring.fence) : \E d \in outbox : Same(d, e)
      /\ \A d \in outbox : d.state \in Closed => d \in Rebound(outbox, ring.ring, ring.fence)
  BY <1>3, ReboundIs DEF RInv, RTypeOK, At
<1>6. RTypeOK'
  BY <1>1, <1>2, <1>3, <1>4, <1>5 DEF RInv, RTypeOK, ScanFrame
<1>7. CardInv'
  BY <1>1, <1>2, <1>3 DEF CardInv, At, ScanFrame
<1>8. n.ring \in Ring /\ source[n.ring] = None /\ \A e \in Events : e.ring # n.ring
  BY <1>2, <1>4 DEF RInv, StoryInv, KnownInv
<1>9. StoryInv'
  <2>1. CarriedOr(n) /\ EndsKept /\ n \in outbox'
    BY <1>1, <1>5 DEF CarriedOr, EndsKept, Events, Same, ScanFrame
  <2>2. \A r \in Ring : ~Followed(r)
    BY <1>1 DEF At, OnCursor, Followed
  <2>3. /\ \A r \in Ring : OnCursor(r)' => r = n.ring /\ cursor'.rev = n.rev
        /\ Followed(n.ring)'
    <3>1. /\ cursor' # None /\ cursor'.ring = n.ring /\ cursor'.rev = n.rev
          /\ cursor'.state # "idle"
      BY <1>1, <1>3, <1>4, RingAssumption
    <3>2. QED BY <3>1 DEF OnCursor, Followed
  <2>4. \A d \in Card : occurrence'[d] >= occurrence[d]
    BY <1>1, <1>2 DEF RInv, RTypeOK
  <2>5. n.ring[2] <= occurrence'[n.ring[1]]
    BY <1>1, <1>2, <1>4 DEF RInv, RTypeOK
  <2>6. n.state # "unavailable"
    BY <1>4
  <2>7. \A e \in Events : e.ring = n.ring => e.rev < n.rev
    BY <1>8
  <2>8. source' = source /\ record' = record
    BY DEF ScanFrame
  <2>9. QED BY <1>6, <1>8, <2>1, <2>2, <2>3, <2>4, <2>5, <2>6, <2>7, <2>8, NewEvent DEF RInv
<1>10. OutboxFollowsCursor'
  <2>1. \A e \in outbox : e.state \in Closed
    BY <1>1 DEF RInv, RTypeOK, Event, OutboxFollowsCursor, At, OnCursor
  <2>2. \A e \in outbox' : e = n \/ e.state \in Closed
    BY <1>1, <1>5, <2>1 DEF Same
  <2>3. QED BY <1>1, <1>3, <1>4, <2>2, RingAssumption DEF OutboxFollowsCursor
<1>11. QED BY <1>6, <1>7, <1>9, <1>10 DEF RInv, EpochsLeft, ScanFrame

\* The call goes on under the cursor d, as it was or with a new event.
LEMMA GoesOn ==
  ASSUME RInv, NEW c, At(c), c.ring # None, ScanFrame, occurrence' = occurrence,
         NEW d \in Cursor, d.ring = c.ring, d.fence = c.fence,
         d.state \in {"ringing_in", "active"}, d.rev \in {c.rev, c.rev + 1},
         c.state \in {"ringing_in", "active"} \/ \A e \in outbox : e.state \in Closed,
         NEW news, news \in {{}, {EventOf(d)}},
         d.rev = c.rev => news = {} /\ d.state = c.state,
         d.rev # c.rev => news = {EventOf(d)},
         Continue(d, news)
  PROVE  RInv'
<1> DEFINE n == EventOf(d)
<1> USE DEF modemVars, linkVars, historyVars
<1>1. /\ cursor' = d /\ outbox' = Rebound(outbox, d.ring, d.fence) \cup news
      /\ validated' = validated \cup {d.ring}
  BY DEF Continue
<1>2. n \in Event /\ n.ring = c.ring /\ n.rev = d.rev /\ n.state = d.state
  BY DEF At, EventOf, Event, State, Cursor
<1>3. n.state \in {"ringing_in", "active"} /\ news \subseteq {n}
  BY <1>2
<1>. HIDE DEF n
<1>4. /\ Rebound(outbox, d.ring, d.fence) \subseteq Event
      /\ \A e \in Rebound(outbox, d.ring, d.fence) : \E o \in outbox : Same(o, e)
      /\ \A o \in outbox : o.state \in Closed => o \in Rebound(outbox, d.ring, d.fence)
  BY ReboundIs DEF RInv, RTypeOK, At
<1>5. RTypeOK'
  BY <1>1, <1>2, <1>3, <1>4 DEF RInv, RTypeOK, ScanFrame, At
<1>6. CardInv'
  BY <1>1 DEF CardInv, At, ScanFrame
<1>7. StoryInv'
  <2>1. CASE d.rev = c.rev
    <3>1. Carried /\ EndsKept
      BY <1>1, <1>4, <2>1 DEF Carried, EndsKept, Events, Same, ScanFrame
    <3>2. \A r \in Ring : OnCursor(r)' => OnCursor(r) /\ cursor'.rev = cursor.rev
      BY <1>1, <2>1 DEF At, OnCursor
    <3>3. \A r \in Ring : Followed(r) => Followed(r)'
      BY <1>1, RingAssumption DEF At, OnCursor, Followed
    <3>4. QED BY <1>5, <3>1, <3>2, <3>3, NothingNew DEF RInv, ScanFrame
  <2>2. CASE d.rev # c.rev
    <3>1. CarriedOr(n) /\ EndsKept /\ n \in outbox'
      BY <1>1, <1>4, <2>2 DEF CarriedOr, EndsKept, Events, Same, ScanFrame, n
    <3>2. QED BY <1>1, <1>2, <1>3, <1>5, <2>2, <3>1, ReportNext
  <2>3. QED BY <2>1, <2>2
<1>8. OutboxFollowsCursor'
  <2>1. \A e \in outbox : e.state \notin Closed => e.ring = c.ring /\ e.rev <= c.rev
    BY DEF RInv, OutboxFollowsCursor, At, OnCursor
  <2>2. \A e \in outbox' : e.state \notin Closed => e.ring = c.ring /\ e.rev <= d.rev
    BY <1>1, <1>2, <1>3, <1>4, <2>1 DEF Same, RInv, RTypeOK, Event, At
  <2>3. QED BY <1>1, <2>2, RingAssumption DEF OutboxFollowsCursor
<1>9. QED BY <1>5, <1>6, <1>7, <1>8 DEF RInv, EpochsLeft, ScanFrame

LEMMA SameRingKept ==
  ASSUME RInv, NEW c, At(c), ObserveSameRing(c), ScanFrame
  PROVE  RInv'
<1> DEFINE again == [c EXCEPT !.rev = c.rev + 1]
<1>1. c.ring # None /\ c.state = "ringing_in" /\ occurrence' = occurrence
  BY DEF ObserveSameRing
<1>2. /\ again \in Cursor /\ again.ring = c.ring /\ again.fence = c.fence
      /\ again.state = c.state /\ again.rev = c.rev + 1
  BY DEF At, Cursor
<1>3. CASE Continue(c, {})
  BY <1>1, <1>3, GoesOn DEF At
<1>4. CASE Continue(again, {EventOf(again)})
  <2>. HIDE DEF again
  <2>1. again.rev # c.rev
    BY <1>2 DEF At
  <2>. QED BY <1>1, <1>2, <1>4, <2>1, GoesOn
<1>5. QED BY <1>3, <1>4 DEF ObserveSameRing

LEMMA ActiveKept ==
  ASSUME RInv, NEW c, At(c), ObserveActive(c), ScanFrame
  PROVE  RInv'
<1> DEFINE active == [c EXCEPT !.state = "active", !.rev = c.rev + 1]
<1>1. /\ c.ring # None /\ c.state # "idle" /\ occurrence' = occurrence
      /\ Continue(active, {EventOf(active)})
  BY DEF ObserveActive
<1>2. /\ active \in Cursor /\ active.ring = c.ring /\ active.fence = c.fence
      /\ active.state = "active" /\ active.rev = c.rev + 1
  <2>1. c \in Cursor /\ c.rev + 1 \in Nat /\ "active" \in State
    BY DEF At, State
  <2>2. QED BY <2>1 DEF Cursor
<1>3. c.state \in {"ringing_in", "active"} \/ \A e \in outbox : e.state \in Closed
  BY <1>1 DEF RInv, OutboxFollowsCursor, At, OnCursor
<1>. HIDE DEF active
<1>4. active.rev # c.rev
  BY <1>2 DEF At
<1>5. QED BY <1>1, <1>2, <1>3, <1>4, GoesOn

LEMMA OtherKept ==
  ASSUME RInv, NEW c, At(c), ObserveOther(c), ScanFrame
  PROVE  RInv'
<1> USE DEF modemVars, linkVars, historyVars
<1>1. /\ cursor' = [c EXCEPT !.state = "ambiguous"] /\ outbox' = Retired(outbox, c.ring)
      /\ validated' = validated \ {c.ring} /\ occurrence' = occurrence
  BY DEF ObserveOther, BecomesAmbiguous
<1>2. /\ cursor' \in Cursor /\ cursor'.ring = c.ring /\ cursor'.rev = c.rev
      /\ cursor'.state = "ambiguous" /\ cursor'.fence = c.fence
  BY <1>1 DEF At, Cursor
<1>3. RTypeOK'
  BY <1>1, <1>2 DEF RInv, RTypeOK, ScanFrame, Retired
<1>4. CardInv'
  BY <1>1, <1>2 DEF CardInv, At, ScanFrame
<1>5. StoryInv'
  <2>1. Carried /\ EndsKept
    BY <1>1 DEF Carried, EndsKept, Events, Same, ScanFrame, Retired
  <2>2. \A r \in Ring : OnCursor(r)' => OnCursor(r) /\ cursor'.rev = cursor.rev
    BY <1>2, RingAssumption DEF At, OnCursor
  <2>3. \A r \in Ring : Followed(r) => Followed(r)'
    BY <1>2, RingAssumption DEF At, OnCursor, Followed
  <2>4. QED BY <1>1, <1>3, <2>1, <2>2, <2>3, NothingNew DEF RInv, ScanFrame
<1>6. OutboxFollowsCursor'
  <2>1. \A e \in outbox : e.state \notin Closed => e.ring = c.ring
    BY DEF RInv, RTypeOK, Event, OutboxFollowsCursor, At, OnCursor
  <2>2. QED BY <1>1, <2>1 DEF OutboxFollowsCursor, Retired
<1>7. QED BY <1>3, <1>4, <1>5, <1>6 DEF RInv, EpochsLeft, ScanFrame

LEMMA ObserveKept == ASSUME RInv, ObserveCall PROVE RInv'
<1>1. fence # None /\ scanned = fence /\ ScanFrame
  BY DEF ObserveCall, ScanFrame
<1>2. At(CursorAt(fence))
  BY <1>1, CursorAtIs
<1>3. QED BY <1>1, <1>2, IdleKept, NewRingKept, SameRingKept, ActiveKept, OtherKept
         DEF ObserveCall

LEMMA ReconcileKept == ASSUME RInv, ReconcileFences PROVE RInv'
<1> DEFINE present(d) == fence # None /\ fence.card = d
           kept(e) == present(e.ring[1]) \/ e.state \in Closed
           lost == [cursor EXCEPT !.state = "unavailable", !.rev = cursor.rev + 1]
           reports == cursor.ring # None /\ cursor.state \notin {"idle", "detached"}
<1> USE DEF modemVars, linkVars, historyVars
<1>1. /\ scanned' = fence /\ occurrence' = occurrence /\ process' = process
      /\ source' = source /\ record' = record /\ wire' = wire
      /\ UNCHANGED <<modemVars, linkVars>>
  BY DEF ReconcileFences
<1>2. CASE cursor = None
  <2>1. outbox' = {e \in outbox : kept(e)} /\ cursor' = cursor /\ validated' = validated
    BY <1>2 DEF ReconcileFences
  <2>2. RTypeOK'
    BY <1>1, <2>1 DEF RInv, RTypeOK
  <2>3. Carried /\ EndsKept
    BY <1>1, <2>1 DEF Carried, EndsKept, Events, Same
  <2>4. StoryInv'
    BY <1>1, <2>1, <2>2, <2>3, NothingNew DEF RInv, OnCursor, Followed
  <2>5. CardInv' /\ OutboxFollowsCursor'
    BY <1>2, <2>1 DEF RInv, CardInv, OutboxFollowsCursor
  <2>6. QED BY <1>1, <2>2, <2>4, <2>5 DEF RInv, EpochsLeft
<1>3. CASE cursor # None /\ present(cursor.fence.card)
  <2>1. /\ outbox' = {e \in outbox : kept(e)} /\ cursor' = cursor
        /\ validated' \subseteq validated
    BY <1>3 DEF ReconcileFences
  <2>2. RTypeOK'
    BY <1>1, <2>1 DEF RInv, RTypeOK
  <2>3. Carried /\ EndsKept
    BY <1>1, <2>1 DEF Carried, EndsKept, Events, Same
  <2>4. StoryInv'
    BY <1>1, <2>1, <2>2, <2>3, NothingNew DEF RInv, OnCursor, Followed
  <2>5. CardInv'
    BY <1>1, <1>3, <2>1 DEF RInv, CardInv
  <2>6. OutboxFollowsCursor'
    BY <2>1 DEF RInv, OutboxFollowsCursor
  <2>7. QED BY <1>1, <2>2, <2>4, <2>5, <2>6 DEF RInv, EpochsLeft
<1>4. CASE cursor # None /\ ~present(cursor.fence.card)
  <2>1. /\ outbox' = {e \in outbox : kept(e)} \cup IF reports THEN {EventOf(lost)} ELSE {}
        /\ cursor' = [cursor EXCEPT !.state = "detached", !.ring = None, !.rev = 0]
        /\ validated' \subseteq validated
    BY <1>4 DEF ReconcileFences
  <2>2. cursor \in Cursor /\ cursor.rev \in Nat /\ cursor.ring \in Ring \cup {None}
    BY <1>4, EventTypes DEF RInv
  <2>3. cursor' \in Cursor /\ cursor'.ring = None
    BY <2>1, <2>2 DEF Cursor
  <2>4. \A r \in Ring : ~OnCursor(r)'
    BY <2>3, RingAssumption DEF OnCursor
  <2>5. \A e \in outbox : kept(e) => e.state \in Closed
    BY <1>4, <2>2, RingAssumption DEF RInv, RTypeOK, Event, OutboxFollowsCursor, CardInv
  <2>6. ASSUME NEW n, n = EventOf(lost), reports
        PROVE  RTypeOK' /\ StoryInv' /\ OutboxFollowsCursor'
    <3>1. cursor.rev + 1 \in Nat /\ "unavailable" \in State /\ cursor.ring \in Ring
      BY <2>2, <2>6 DEF State, Closed
    <3>2. /\ n \in Event /\ n.ring = cursor.ring /\ n.rev = cursor.rev + 1
          /\ n.state = "unavailable"
      BY <2>2, <2>6, <3>1 DEF EventOf, Event, Cursor
    <3>. HIDE DEF lost, kept
    <3>3. outbox' = {e \in outbox : kept(e)} \cup {n}
      BY <2>1, <2>6
    <3>4. RTypeOK'
      BY <1>1, <2>1, <2>3, <3>2, <3>3 DEF RInv, RTypeOK
    <3>5. CarriedOr(n) /\ n \in outbox'
      BY <1>1, <3>3 DEF CarriedOr, Events, Same
    <3>6. EndsKept
      BY <3>3 DEF EndsKept, kept
    <3>7. OnCursor(n.ring) /\ n.ring \in Ring
      BY <1>4, <3>1, <3>2 DEF OnCursor
    <3>8. /\ \A e \in Events : e.ring = n.ring => e.rev < n.rev
          /\ source[n.ring] # None => source[n.ring].rev < n.rev
      BY <2>2, <3>2, <3>7, EventTypes DEF RInv, StoryInv, ReachedInv, NoneAfter
    <3>9. n.ring[2] <= occurrence'[n.ring[1]] /\ n.state \in Closed
      BY <1>1, <3>2, <3>7 DEF RInv, StoryInv, KnownInv, Closed
    <3>10. \A d \in Card : occurrence'[d] >= occurrence[d]
      BY <1>1 DEF RInv, RTypeOK
    <3>11. /\ \A r \in Ring : Followed(r) => r = n.ring
           /\ ~OnCursor(n.ring)'
           /\ \A r \in Ring : OnCursor(r)' => r = n.ring /\ cursor'.rev = n.rev
      BY <2>4, <3>2, <3>7 DEF Followed, OnCursor
    <3>12. StoryInv'
      BY <1>1, <3>4, <3>5, <3>6, <3>7, <3>8, <3>9, <3>10, <3>11, NewEvent DEF RInv
    <3>13. OutboxFollowsCursor'
      BY <2>5, <3>2, <3>3 DEF OutboxFollowsCursor, Closed
    <3>14. QED BY <3>4, <3>12, <3>13
  <2>7. ASSUME ~reports
        PROVE  RTypeOK' /\ StoryInv' /\ OutboxFollowsCursor'
    <3>1. outbox' = {e \in outbox : kept(e)}
      BY <2>1, <2>7
    <3>2. RTypeOK'
      BY <1>1, <2>1, <2>3, <3>1 DEF RInv, RTypeOK
    <3>3. Carried /\ EndsKept
      BY <1>1, <3>1 DEF Carried, EndsKept, Events, Same
    <3>4. \A r \in Ring : ~Followed(r)
      BY <2>7, RingAssumption DEF RInv, CardInv, Followed, OnCursor
    <3>5. StoryInv'
      BY <1>1, <2>4, <3>2, <3>3, <3>4, NothingNew DEF RInv
    <3>6. OutboxFollowsCursor'
      BY <2>5, <3>1 DEF OutboxFollowsCursor
    <3>7. QED BY <3>2, <3>5, <3>6
  <2>8. CardInv'
    BY <2>3 DEF CardInv
  <2>9. QED BY <1>1, <2>6, <2>7, <2>8 DEF RInv, EpochsLeft
<1>5. QED BY <1>2, <1>3, <1>4

-----------------------------------------------------------------------------
(* The modem and the link.                                                 *)

\* A step of neither the journal nor the history.
LEMMA LinkKept ==
  ASSUME RInv, RTypeOK', EpochsLeft', UNCHANGED journalVars, UNCHANGED historyVars,
         scanned' \in {scanned, Unknown}, \A m \in wire' : m \in wire \/ m.event \in outbox
  PROVE  RInv'
<1> USE DEF journalVars, historyVars
<1>1. Carried /\ EndsKept
  BY DEF Carried, EndsKept, Events, Same
<1>2. StoryInv'
  BY <1>1, NothingNew DEF RInv, OnCursor, Followed
<1>3. CardInv' /\ OutboxFollowsCursor'
  BY DEF RInv, CardInv, OutboxFollowsCursor
<1>4. QED BY <1>2, <1>3 DEF RInv

LEMMA ModemKept ==
  ASSUME RInv, Attach \/ Detach \/ PeerRings \/ PeerGivesUp \/ Answered \/ PeerHangsUp
  PROVE  RInv'
<1>1. /\ UNCHANGED journalVars /\ UNCHANGED historyVars /\ scanned' = scanned
      /\ wire' = wire /\ process' = process
  BY DEF Attach, Detach, PeerRings, PeerGivesUp, Answered, PeerHangsUp, Carrier,
         journalVars, historyVars, processVars, linkVars
<1>2. RTypeOK' /\ EpochsLeft'
  <2>1. /\ presented' \in Nat /\ presented' + process <= MaxEpoch
        /\ fence' \in Fence \cup {None} /\ line' \in Line
    BY RingAssumption DEF RInv, RTypeOK, EpochsLeft, Line, Fence,
       Attach, Detach, PeerRings, PeerGivesUp, Answered, PeerHangsUp, Carrier
  <2>2. /\ UNCHANGED journalVars /\ UNCHANGED processVars /\ UNCHANGED linkVars
        /\ UNCHANGED historyVars
    BY DEF Attach, Detach, PeerRings, PeerGivesUp, Answered, PeerHangsUp, Carrier
  <2>3. presented' \in 0..MaxEpoch
    BY <2>1, RingAssumption DEF RInv, RTypeOK
  <2>4. QED BY <2>1, <2>2, <2>3, RingAssumption
           DEF RInv, RTypeOK, EpochsLeft, journalVars, processVars, linkVars, historyVars
<1>3. QED BY <1>1, <1>2, LinkKept

LEMMA RestartKept == ASSUME RInv, AgentRestarts PROVE RInv'
<1>1. /\ UNCHANGED <<modemVars, journalVars, historyVars, connection, reported, wire>>
      /\ process' = process + 1 /\ scanned' = Unknown /\ validated' = {}
      /\ presented + process < MaxEpoch
  BY DEF AgentRestarts
<1>2. RTypeOK' /\ EpochsLeft'
  BY <1>1, RingAssumption DEF RInv, RTypeOK, EpochsLeft, modemVars, journalVars, historyVars
<1>3. QED BY <1>1, <1>2, LinkKept

LEMMA TransportKept ==
  ASSUME RInv, Connect \/ Disconnect \/ ReportTopology \/ SendEvent \/ LoseEvent
  PROVE  RInv'
<1>1. UNCHANGED modemVars /\ UNCHANGED journalVars /\ UNCHANGED processVars /\ UNCHANGED historyVars
  BY DEF Connect, Disconnect, ReportTopology, SendEvent, LoseEvent
<1>2. /\ connection' \in 1..MaxEpoch \cup {None} /\ reported' \in Fence \cup {None, Unknown}
      /\ wire' \subseteq [event : Event, from : 1..MaxEpoch]
      /\ \A m \in wire' : m \in wire \/ m.event \in outbox
  <2>1. CASE Connect \/ Disconnect \/ ReportTopology
    BY <2>1 DEF Connect, Disconnect, ReportTopology, RInv, RTypeOK
  <2>2. CASE SendEvent
    <3>1. PICK e \in outbox : wire' = wire \cup {[event |-> e, from |-> process]}
      BY <2>2 DEF SendEvent
    <3>2. QED BY <2>2, <3>1 DEF SendEvent, RInv, RTypeOK
  <2>3. CASE LoseEvent
    BY <2>3 DEF LoseEvent, RInv, RTypeOK
  <2>4. QED BY <2>1, <2>2, <2>3
<1>3. RTypeOK' /\ EpochsLeft'
  BY <1>1, <1>2 DEF RInv, RTypeOK, EpochsLeft, modemVars, journalVars, processVars, historyVars
<1>4. QED BY <1>1, <1>2, <1>3, LinkKept DEF processVars

-----------------------------------------------------------------------------
(* Core's history.                                                         *)

LEMMA RecordTypes ==
  ASSUME NEW s \in Status, NEW e, e.state \in State, NEW known \in BOOLEAN
  PROVE  RecordAfter(s, e, known) \in Status
BY DEF RecordAfter, Status, Over, State, Closed

\* What the history may become by an event m: nothing new; the same event
\* again; a ring that does not replace what is known; or a newer state.
Kept(m, r) ==
  /\ source[r] # None /\ m.event.rev <= source[r].rev
  /\ source' = source /\ record' = record

Renewed(m, r) ==
  /\ source[r] # None /\ m.event.rev = source[r].rev /\ m.event.state = source[r].event
  /\ source' = [source EXCEPT ![r] = SourceOf(m, source[r].state)] /\ record' = record

Outlived(m, r) ==
  /\ source[r] # None /\ m.event.rev > source[r].rev
  /\ m.event.state = "ringing_in" /\ source[r].state \in {"active", "idle"}
  /\ source' = [source EXCEPT ![r] = SourceOf(m, source[r].state)] /\ record' = record

Newer(m, r) ==
  /\ source[r] # None => m.event.rev > source[r].rev
  /\ ~(m.event.state = "ringing_in" /\ source[r] # None /\ source[r].state \in {"active", "idle"})
  /\ source' = [source EXCEPT ![r] = SourceOf(m, m.event.state)]
  /\ record' = [record EXCEPT ![r] = RecordAfter(record[r], m.event, source[r] # None)]

LEMMA StoreCases ==
  ASSUME RTypeOK, NEW m \in wire, NEW r, r = m.event.ring, StoreEvent(m)
  PROVE  Kept(m, r) \/ Renewed(m, r) \/ Outlived(m, r) \/ Newer(m, r)
<1>1. m.event.rev \in Nat /\ (source[r] # None => source[r].rev \in Nat) /\ r \in Ring
  BY EventTypes DEF Events
<1>2. QED BY <1>1 DEF StoreEvent, Kept, Renewed, Outlived, Newer, historyVars

\* Whatever becomes of it, m is known afterwards, and nothing older is.
StoredOf(m, r, before, after) ==
  \/ after = before /\ before # None /\ m.event.rev <= before.rev
  \/ /\ after # None /\ after.rev = m.event.rev /\ after.event = m.event.state
     /\ before # None => before.rev <= after.rev

LEMMA StoreIs ==
  ASSUME RTypeOK, StoryInv, NEW m \in wire, NEW r, r = m.event.ring, StoreEvent(m)
  PROVE  /\ m.event \in Events /\ m.event \in Event /\ r \in Ring
         /\ source' \in [Ring -> Source \cup {None}] /\ record' \in [Ring -> Status]
         /\ \A q \in Ring : q # r => source'[q] = source[q] /\ record'[q] = record[q]
         /\ StoredOf(m, r, source[r], source'[r])
<1>1. /\ m.event \in Events /\ m.event \in Event /\ r \in Ring /\ m.event.rev \in Nat
      /\ m.event.state \in State /\ m.event.fence \in Fence /\ m.from \in 1..MaxEpoch
  BY DEF Events, RTypeOK, Event
<1>2. /\ source[r] # None =>
           source[r].rev \in Nat /\ source[r].state \in State /\ source[r].event \in State
      /\ source \in [Ring -> Source \cup {None}] /\ record \in [Ring -> Status]
  BY <1>1, EventTypes DEF RTypeOK
<1>3. ASSUME NEW s \in State
      PROVE  /\ SourceOf(m, s) \in Source /\ SourceOf(m, s) # None
             /\ SourceOf(m, s).rev = m.event.rev /\ SourceOf(m, s).event = m.event.state
             /\ SourceOf(m, s).state = s
  BY <1>1, RingAssumption DEF SourceOf, Source
<1>4. CASE Kept(m, r)
  BY <1>1, <1>2, <1>4 DEF Kept, StoredOf
<1>5. CASE Renewed(m, r)
  BY <1>1, <1>2, <1>3, <1>5 DEF Renewed, StoredOf
<1>6. CASE Outlived(m, r)
  BY <1>1, <1>2, <1>3, <1>6 DEF Outlived, StoredOf
<1>7. CASE Newer(m, r)
  <2>1. RecordAfter(record[r], m.event, source[r] # None) \in Status
    BY <1>1, <1>2, RecordTypes
  <2>2. QED BY <1>1, <1>2, <1>3, <1>7, <2>1 DEF Newer, StoredOf
<1>8. QED BY <1>1, <1>4, <1>5, <1>6, <1>7, StoreCases

\* The record tells what the source shows, and a lost call stays lost.
LEMMA StoredSource ==
  ASSUME RTypeOK, StoryInv, NEW m \in wire, NEW r, r = m.event.ring, StoreEvent(m)
  PROVE  /\ source'[r] = None => record'[r] = "none"
         /\ source'[r] # None =>
              /\ source'[r].event \in Closed => source'[r].state \in Closed
              /\ source'[r].state = "ringing_in" => record'[r] = "ringing"
              /\ source'[r].state = "active" => record'[r] = "answered"
              /\ source'[r].state = "unavailable" =>
                   \/ /\ source[r] # None /\ source[r].state = "unavailable"
                      /\ source'[r].rev = source[r].rev
                   \/ m.event.state = "unavailable" /\ source'[r].rev = m.event.rev
<1>1. /\ m.event \in Events /\ r \in Ring /\ m.event.rev \in Nat /\ m.event.state \in State
      /\ source[r] # None => source[r].rev \in Nat /\ source[r].state \in State
      /\ source \in [Ring -> Source \cup {None}] /\ record \in [Ring -> Status]
  BY EventTypes DEF RTypeOK, Events
<1>2. /\ source[r] = None => record[r] = "none"
      /\ source[r] # None =>
           /\ source[r].event \in Closed => source[r].state \in Closed
           /\ source[r].state = "ringing_in" => record[r] = "ringing"
           /\ source[r].state = "active" => record[r] = "answered"
           /\ source[r].state = "unavailable" => m.event.rev <= source[r].rev
  BY <1>1 DEF StoryInv, SourceInv, LostInv, NoneAfter
<1>3. ASSUME NEW s
      PROVE  /\ SourceOf(m, s).rev = m.event.rev /\ SourceOf(m, s).event = m.event.state
             /\ SourceOf(m, s).state = s
  BY DEF SourceOf
<1>4. CASE Kept(m, r)
  BY <1>1, <1>2, <1>4 DEF Kept
<1>5. CASE Renewed(m, r)
  <2>1. /\ source'[r] = SourceOf(m, source[r].state) /\ record' = record /\ source[r] # None
        /\ m.event.rev = source[r].rev /\ m.event.state = source[r].event
    BY <1>1, <1>5 DEF Renewed
  <2>2. source'[r] # None
    BY <2>1, StoreIs DEF StoredOf
  <2>3. QED BY <1>2, <1>3, <2>1, <2>2
<1>6. CASE Outlived(m, r)
  <2>1. /\ source'[r] = SourceOf(m, source[r].state) /\ record' = record /\ source[r] # None
        /\ m.event.state = "ringing_in" /\ source[r].state \in {"active", "idle"}
    BY <1>1, <1>6 DEF Outlived
  <2>2. source'[r] # None
    BY <2>1, StoreIs DEF StoredOf
  <2>3. QED BY <1>2, <1>3, <2>1, <2>2 DEF Closed
<1>7. CASE Newer(m, r)
  <2>1. /\ source'[r].rev = m.event.rev /\ source'[r].event = m.event.state
        /\ source'[r].state = m.event.state
        /\ record'[r] = RecordAfter(record[r], m.event, source[r] # None)
    BY <1>1, <1>3, <1>7 DEF Newer
  <2>2. source'[r] # None
    BY <1>7, StoreIs DEF StoredOf, Newer
  <2>3. m.event.state = "active" => record'[r] = "answered"
    BY <2>1 DEF RecordAfter, Closed
  <2>4. m.event.state = "ringing_in" => record'[r] = "ringing"
    BY <1>1, <1>2, <1>7, <2>1 DEF RecordAfter, Newer, State, Closed
  <2>5. QED BY <2>1, <2>2, <2>3, <2>4
<1>8. QED BY <1>4, <1>5, <1>6, <1>7, StoreCases

\* An event is stored, and its answer takes it alone out of the outbox.
LEMMA StoreKept ==
  ASSUME RTypeOK, RTypeOK', StoryInv, NEW m \in wire, StoreEvent(m),
         cursor' = cursor, occurrence' = occurrence, wire' \subseteq wire, outbox' \subseteq outbox,
         \A e \in outbox : EventID(e) # EventID(m.event) => e \in outbox'
  PROVE  StoryInv'
<1> DEFINE r == m.event.ring
<1> SUFFICES ASSUME NEW q, q = r PROVE StoryInv'
  OBVIOUS
<1>0. /\ m.event \in Events /\ q \in Ring /\ m.event.ring = q
      /\ \A o \in Ring : o # q => source'[o] = source[o] /\ record'[o] = record[o]
      /\ StoredOf(m, q, source[q], source'[q])
  BY StoreIs
<1>1. /\ m.event.rev \in Nat /\ m.event.state \in State
      /\ source[q] # None => source[q].rev \in Nat
      /\ source'[q] # None => source'[q].rev \in Nat
  BY <1>0, EventTypes DEF RTypeOK, Source
<1>2. Events' \subseteq Events
  BY DEF Events
<1>3. \A o, k : NoneAfter(o, k) => NoneAfter(o, k)'
  BY <1>2 DEF NoneAfter
<1>4. \A o : (OnCursor(o)' <=> OnCursor(o)) /\ (Followed(o)' <=> Followed(o))
  BY DEF OnCursor, Followed
<1>. USE DEF StoryInv
<1>5. KnownInv'
  BY <1>0, <1>2, <1>4 DEF KnownInv
<1>6. ReachedInv'
  BY <1>0, <1>1, <1>2, <1>4, EventTypes DEF ReachedInv, NoneAfter, StoredOf
<1>7. EndInv'
  <2> SUFFICES ASSUME NEW o \in Ring, ~Followed(o)
               PROVE  Unheard(o)' \/ EndWaits(o)' \/ EndStored(o)'
    BY <1>4 DEF EndInv
  <2>1. CASE o # q
    <3>1. CASE Unheard(o)
      BY <1>0, <1>2, <2>1, <3>1 DEF Unheard
    <3>2. CASE EndWaits(o)
      <4>1. PICK e \in outbox : /\ EndOf(e, o) /\ NoneAfter(o, e.rev)
                                /\ source[o] # None => source[o].rev <= e.rev
        BY <3>2 DEF EndWaits
      <4>2. e \in outbox' /\ NoneAfter(o, e.rev)'
        BY <1>0, <1>3, <2>1, <4>1 DEF EndOf, EventID
      <4>3. QED BY <1>0, <2>1, <4>1, <4>2 DEF EndWaits
    <3>3. CASE EndStored(o)
      BY <1>0, <1>3, <2>1, <3>3 DEF EndStored
    <3>4. QED BY <3>1, <3>2, <3>3 DEF EndInv
  <2>2. CASE o = q
    <3>1. ~Unheard(o)
      BY <1>0, <2>2 DEF Unheard
    <3>2. CASE EndWaits(o)
      <4>1. PICK e \in outbox : /\ EndOf(e, q) /\ NoneAfter(q, e.rev)
                                /\ source[q] # None => source[q].rev <= e.rev
        BY <2>2, <3>2 DEF EndWaits
      <4>2. /\ NoneAfter(q, e.rev)' /\ e.rev \in Nat /\ m.event.rev <= e.rev
            /\ source'[q] # None => source'[q].rev <= e.rev
        BY <1>0, <1>1, <1>3, <4>1, EventTypes DEF NoneAfter, StoredOf, Events
      <4>3. CASE e \in outbox'
        BY <2>2, <4>1, <4>2, <4>3 DEF EndWaits
      <4>4. CASE e \notin outbox'
        <5>1. m.event.rev = e.rev /\ m.event.state = e.state /\ m.event.state \in Closed
          BY <4>1, <4>4 DEF EventID, EndOf
        <5>2. source'[q] # None /\ source'[q].event = m.event.state /\ source'[q].rev = e.rev
          BY <1>0, <1>1, <4>1, <4>2, <5>1 DEF StoredOf, RevisionsIdentify
        <5>3. QED BY <2>2, <4>2, <5>1, <5>2 DEF EndStored
      <4>5. QED BY <4>3, <4>4
    <3>3. CASE EndStored(o)
      <4>1. source[q] # None /\ source[q].event \in Closed /\ m.event.rev <= source[q].rev
        BY <1>0, <2>2, <3>3 DEF EndStored, NoneAfter
      <4>2. /\ source'[q] # None /\ source'[q].rev = source[q].rev
            /\ source'[q].event = source[q].event
        BY <1>0, <1>1, <4>1 DEF StoredOf, RevisionsIdentify
      <4>3. QED BY <1>3, <2>2, <3>3, <4>1, <4>2 DEF EndStored
    <3>4. QED BY <3>1, <3>2, <3>3 DEF EndInv
  <2>3. QED BY <2>1, <2>2
<1>8. LostInv'
  <2>1. ASSUME NEW e \in Events', e.state = "unavailable"
        PROVE  ~OnCursor(e.ring)' /\ NoneAfter(e.ring, e.rev)'
    BY <1>2, <1>3, <1>4, <2>1 DEF LostInv
  <2>2. ASSUME NEW o \in Ring, source'[o] # None, source'[o].state = "unavailable"
        PROVE  ~OnCursor(o)' /\ NoneAfter(o, source[o].rev)'
    <3>1. CASE o # q
      BY <1>0, <1>3, <1>4, <2>2, <3>1 DEF LostInv
    <3>2. CASE o = q
      <4>1. \/ /\ source[q] # None /\ source[q].state = "unavailable"
               /\ source'[q].rev = source[q].rev
            \/ m.event.state = "unavailable" /\ source'[q].rev = m.event.rev
        BY <1>0, <2>2, <3>2, StoredSource
      <4>2. ~OnCursor(q) /\ NoneAfter(q, source'[q].rev)
        BY <1>0, <4>1 DEF LostInv
      <4>3. QED BY <1>2, <1>4, <3>2, <4>2 DEF NoneAfter
    <3>3. QED BY <3>1, <3>2
  <2>3. QED BY <2>1, <2>2 DEF LostInv
<1>9. SourceInv'
  BY <1>0, StoredSource DEF SourceInv
<1>10. RevisionsIdentify'
  <2>1. ASSUME NEW e \in Events', source'[e.ring] # None, source'[e.ring].rev = e.rev
        PROVE  source'[e.ring].event = e.state
    <3>1. e \in Events /\ e.ring \in Ring
      BY <1>2, EventTypes
    <3>2. QED BY <1>0, <2>1, <3>1 DEF RevisionsIdentify, StoredOf
  <2>2. QED BY <1>2, <2>1 DEF RevisionsIdentify
<1>11. QED BY <1>5, <1>6, <1>7, <1>8, <1>9, <1>10

LEMMA AcceptKept == ASSUME RInv, AcceptEvent PROVE RInv'
<1>1. /\ UNCHANGED <<modemVars, cursor, occurrence, connection, reported>>
      /\ UNCHANGED processVars
  BY DEF AcceptEvent
<1>2. PICK m \in wire :
        /\ wire' = wire \ {m}
        /\ \/ /\ FromConnected(m) /\ Acceptable(m.event)
              /\ StoreEvent(m) /\ Confirmed(m)
           \/ /\ ~FromConnected(m)
              /\ Confirmed(m) /\ UNCHANGED historyVars
           \/ /\ FromConnected(m) /\ ~Acceptable(m.event)
              /\ UNCHANGED <<outbox, historyVars>>
  BY DEF AcceptEvent
<1>3. /\ outbox' \subseteq outbox
      /\ \A e \in outbox : EventID(e) # EventID(m.event) => e \in outbox'
  BY <1>2 DEF Confirmed
<1>4. source' \in [Ring -> Source \cup {None}] /\ record' \in [Ring -> Status]
  BY <1>2, StoreIs DEF RInv, RTypeOK, historyVars
<1>5. RTypeOK'
  BY <1>1, <1>2, <1>3, <1>4 DEF RInv, RTypeOK, modemVars, processVars
<1>6. StoryInv'
  <2>1. CASE StoreEvent(m)
    BY <1>1, <1>2, <1>3, <1>5, <2>1, StoreKept DEF RInv
  <2>2. CASE UNCHANGED historyVars /\ (outbox' = outbox \/ ~FromConnected(m))
    <3>1. Carried
      BY <1>2, <1>3 DEF Carried, Events, Same
    <3>2. EndsKept
      BY <1>3, <2>2 DEF EndsKept, EventID, FromConnected
    <3>3. QED BY <1>1, <1>5, <2>2, <3>1, <3>2, NothingNew
             DEF RInv, OnCursor, Followed, historyVars
  <2>3. QED BY <1>2, <2>1, <2>2 DEF historyVars
<1>7. CardInv' /\ OutboxFollowsCursor'
  BY <1>1, <1>3 DEF RInv, CardInv, OutboxFollowsCursor, processVars
<1>8. QED BY <1>1, <1>5, <1>6, <1>7 DEF RInv, EpochsLeft, modemVars, processVars

\* Of the call that a browser's action was carried out for.
Marked(r, to) ==
  /\ source[r] # None /\ source[r].state \in {"ringing_in", "active"}
  /\ source[r].state = "active" => to = "ended"
  /\ source'[r] # None
  /\ source'[r].rev = source[r].rev /\ source'[r].event = source[r].event
  /\ source'[r].state = IF to = "answered" THEN "active" ELSE "idle"
  /\ \A q \in Ring : q # r => source'[q] = source[q] /\ record'[q] = record[q]
  /\ record'[r] = IF to # "answered" /\ record[r] \in Over THEN record[r] ELSE to
  /\ source' \in [Ring -> Source \cup {None}] /\ record' \in [Ring -> Status]

LEMMA MarkIs ==
  ASSUME RTypeOK, Mark
  PROVE  \E r \in Ring, to \in {"answered", "rejected", "ended"} : Marked(r, to)
<1>1. PICK r \in Ring, to \in {"answered", "rejected", "ended"} :
        /\ Markable(r, to)
        /\ source' = [source EXCEPT ![r].state = IF to = "answered" THEN "active" ELSE "idle"]
        /\ record' = [record EXCEPT ![r] = IF to # "answered" /\ @ \in Over THEN @ ELSE to]
  BY DEF Mark
<1>2. /\ source[r] # None /\ source[r] \in Source /\ source \in [Ring -> Source \cup {None}]
      /\ source[r].state \in {"ringing_in", "active"} /\ record \in [Ring -> Status]
      /\ source[r].state = "active" => to = "ended"
  BY <1>1 DEF Markable, RTypeOK
<1>3. {"active", "idle"} \subseteq State /\ {"answered", "rejected", "ended"} \subseteq Status
  BY DEF State, Closed, Status
<1>4. source'[r] = [source[r] EXCEPT !.state = IF to = "answered" THEN "active" ELSE "idle"]
  BY <1>1, <1>2
<1>5. /\ source'[r] \in Source
      /\ source'[r].rev = source[r].rev /\ source'[r].event = source[r].event
      /\ source'[r].state = IF to = "answered" THEN "active" ELSE "idle"
  BY <1>2, <1>3, <1>4 DEF Source
<1>6. QED BY <1>1, <1>2, <1>3, <1>5, RingAssumption DEF Marked

LEMMA MarkKept == ASSUME RInv, Mark PROVE RInv'
<1>1. PICK r \in Ring, to \in {"answered", "rejected", "ended"} : Marked(r, to)
  BY MarkIs DEF RInv
<1>2. /\ UNCHANGED modemVars /\ UNCHANGED journalVars /\ UNCHANGED processVars
      /\ UNCHANGED linkVars
  BY DEF Mark
<1>. USE DEF Marked
<1>5. RTypeOK'
  BY <1>1, <1>2 DEF RInv, RTypeOK, modemVars, journalVars, processVars, linkVars
<1>6. /\ Events' = Events
      /\ \A q, k : NoneAfter(q, k)' <=> NoneAfter(q, k)
      /\ \A q : (OnCursor(q)' <=> OnCursor(q)) /\ (Followed(q)' <=> Followed(q))
  BY <1>2 DEF Events, NoneAfter, OnCursor, Followed, journalVars, linkVars
<1>7. \A q \in Ring : /\ source'[q] = None <=> source[q] = None
                      /\ source[q] # None => /\ source'[q].rev = source[q].rev
                                             /\ source'[q].event = source[q].event
  BY <1>1
<1>. USE DEF RInv, StoryInv
<1>8. KnownInv'
  BY <1>2, <1>6, <1>7 DEF KnownInv, journalVars
<1>9. ReachedInv'
  BY <1>2, <1>6, <1>7 DEF ReachedInv, NoneAfter, journalVars
<1>10. EndInv'
  <2> SUFFICES ASSUME NEW q \in Ring, ~Followed(q)
               PROVE  Unheard(q)' \/ EndWaits(q)' \/ EndStored(q)'
    BY <1>6 DEF EndInv
  <2>1. CASE Unheard(q)
    BY <1>6, <1>7, <2>1 DEF Unheard
  <2>2. CASE EndWaits(q)
    BY <1>2, <1>6, <1>7, <2>2 DEF EndWaits, EndOf, NoneAfter, journalVars
  <2>3. CASE EndStored(q)
    BY <1>6, <1>7, <2>3 DEF EndStored, NoneAfter
  <2>4. QED BY <2>1, <2>2, <2>3 DEF EndInv
<1>11. LostInv'
  <2>1. ASSUME NEW e \in Events', e.state = "unavailable"
        PROVE  ~OnCursor(e.ring)' /\ NoneAfter(e.ring, e.rev)'
    BY <1>6, <2>1 DEF LostInv
  <2>2. ASSUME NEW q \in Ring, source'[q] # None, source'[q].state = "unavailable"
        PROVE  ~OnCursor(q)' /\ NoneAfter(q, source[q].rev)'
    BY <1>1, <1>6, <2>2 DEF LostInv
  <2>3. QED BY <2>1, <2>2 DEF LostInv
<1>12. SourceInv'
  BY <1>1, <1>7 DEF SourceInv, Closed
<1>13. RevisionsIdentify'
  BY <1>6, <1>7, EventTypes DEF RevisionsIdentify
<1>14. CardInv' /\ OutboxFollowsCursor'
  BY <1>2 DEF CardInv, OutboxFollowsCursor, journalVars, processVars
<1>15. QED BY <1>2, <1>5, <1>8, <1>9, <1>10, <1>11, <1>12, <1>13, <1>14
          DEF EpochsLeft, modemVars, processVars

-----------------------------------------------------------------------------
(* The invariant and what follows from it.                                 *)

LEMMA RingInit == RInit => RInv
<1> SUFFICES ASSUME RInit PROVE RInv
  OBVIOUS
<1>1. /\ cursor = None /\ outbox = {} /\ wire = {} /\ source = [r \in Ring |-> None]
      /\ record = [r \in Ring |-> "none"] /\ Events = {}
  BY DEF RInit, Events
<1>2. RTypeOK /\ EpochsLeft
  BY RingAssumption DEF RInit, RTypeOK, EpochsLeft, Line, Status
<1>3. CardInv /\ RevisionsIdentify /\ OutboxFollowsCursor
  BY <1>1 DEF CardInv, RevisionsIdentify, OutboxFollowsCursor
<1>4. KnownInv /\ ReachedInv /\ LostInv /\ SourceInv
  BY <1>1 DEF KnownInv, ReachedInv, LostInv, SourceInv, OnCursor
<1>5. EndInv
  BY <1>1 DEF EndInv, Unheard
<1>6. QED BY <1>2, <1>3, <1>4, <1>5 DEF RInv, StoryInv

LEMMA RingNext == RInv /\ [RNext]_rvars => RInv'
<1> SUFFICES ASSUME RInv, [RNext]_rvars PROVE RInv'
  OBVIOUS
<1>1. CASE Attach \/ Detach \/ PeerRings \/ PeerGivesUp \/ Answered \/ PeerHangsUp
  BY <1>1, ModemKept
<1>2. CASE ReconcileFences
  BY <1>2, ReconcileKept
<1>3. CASE ObserveCall
  BY <1>3, ObserveKept
<1>4. CASE AgentRestarts
  BY <1>4, RestartKept
<1>5. CASE Connect \/ Disconnect \/ ReportTopology \/ SendEvent \/ LoseEvent
  BY <1>5, TransportKept
<1>6. CASE AcceptEvent
  BY <1>6, AcceptKept
<1>7. CASE Mark
  BY <1>7, MarkKept
<1>8. CASE UNCHANGED rvars
  <2>1. RTypeOK' /\ EpochsLeft'
    BY <1>8 DEF RInv, RTypeOK, EpochsLeft, rvars, modemVars, journalVars, processVars,
                linkVars, historyVars
  <2>2. QED BY <1>8, <2>1, LinkKept DEF rvars, processVars, linkVars
<1>9. QED BY <1>1, <1>2, <1>3, <1>4, <1>5, <1>6, <1>7, <1>8 DEF RNext

THEOREM RingInvariant == RSpec => []RInv
BY RingInit, RingNext, PTL DEF RSpec

\* The modem, the journal, the events under way and the history have their
\* types, however often the Agent restarts and the card is exchanged.
THEOREM RingTypeCorrect == RSpec => []RTypeOK
<1>1. RInv => RTypeOK
  BY DEF RInv
<1>2. QED BY <1>1, RingInvariant, PTL

\* No restart, lost acknowledgement, replugged modem or withdrawn event
\* leaves a call in the history of which no end can come.
THEOREM EndIsKept == RSpec => []EndNeverLost
<1>1. RInv => EndNeverLost
  <2> SUFFICES ASSUME RInv, NEW r \in Ring, source[r] # None, source[r].state \notin Closed,
                      ~Followed(r)
               PROVE  \E e \in outbox : EndOf(e, r) /\ e.rev > source[r].rev
    BY DEF EndNeverLost, Followed, OnCursor
  <2>1. source[r].event \notin Closed /\ source[r].rev \in Nat
    BY EventTypes DEF RInv, StoryInv, SourceInv
  <2>2. ~Unheard(r) /\ ~EndStored(r)
    BY <2>1 DEF Unheard, EndStored
  <2>3. PICK e \in outbox : EndOf(e, r) /\ source[r].rev <= e.rev
    BY <2>2 DEF RInv, StoryInv, EndInv, EndWaits
  <2>4. e \in Events /\ e.rev \in Nat /\ e.ring = r /\ e.state \in Closed
    BY <2>3, EventTypes DEF Events, EndOf, RInv
  <2>5. source[r].rev # e.rev
    BY <2>1, <2>4 DEF RInv, StoryInv, RevisionsIdentify
  <2>6. QED BY <2>1, <2>3, <2>4, <2>5
<1>2. QED BY <1>1, RingInvariant, PTL

\* Core never meets two events of one revision, nor the Agent a conflict that
\* makes it drop an end.
THEOREM RevisionsAreUnique == RSpec => []RevisionsIdentify
<1>1. RInv => RevisionsIdentify
  BY DEF RInv, StoryInv
<1>2. QED BY <1>1, RingInvariant, PTL

\* What waits in the outbox of a call going on is true of the call that the
\* journal follows; everything else of that kind was withdrawn.
THEOREM OutboxIsTrue == RSpec => []OutboxFollowsCursor
<1>1. RInv => OutboxFollowsCursor
  BY DEF RInv
<1>2. QED BY <1>1, RingInvariant, PTL

-----------------------------------------------------------------------------
(* The history.                                                            *)

LEMMA ShownIs ==
  ASSUME NEW s
  PROVE  /\ s = None => Shown(s) = "unknown"
         /\ s # None /\ s.state = "ringing_in" => Shown(s) = "ringing"
         /\ s # None /\ s.state = "active" => Shown(s) = "taken"
         /\ s # None /\ s.state = "idle" => Shown(s) = "over"
         /\ s # None /\ s.state = "unavailable" => Shown(s) = "lost"
BY DEF Shown

\* A step that changes only ring r.
LEMMA RingBecomes ==
  ASSUME NEW r \in Ring, source' \in [Ring -> Source \cup {None}], record' \in [Ring -> Status],
         record \in [Ring -> Status],
         \A q \in Ring : q # r => source'[q] = source[q] /\ record'[q] = record[q],
         NEW c, c = Shown(source'[r]), NEW t, t = record'[r]
  PROVE  History!Becomes(r, c, t)
<1>1. Calls' = [Calls EXCEPT ![r] = c]
  <2>1. /\ Calls' = [q \in Ring |-> Shown(source'[q])]
        /\ Calls = [q \in Ring |-> Shown(source[q])]
    BY DEF Calls
  <2>2. \A q \in Ring : q # r => Shown(source'[q]) = Shown(source[q])
    OBVIOUS
  <2>3. QED BY <2>1, <2>2
<1>2. record' = [record EXCEPT ![r] = t]
  OBVIOUS
<1>3. QED BY <1>1, <1>2 DEF History!Becomes

LEMMA ShowsAgain ==
  ASSUME NEW r \in Ring, source' \in [Ring -> Source \cup {None}],
         \A q \in Ring : q # r => source'[q] = source[q],
         Shown(source'[r]) = Shown(source[r]), record' = record
  PROVE  UNCHANGED History!hvars
<1>1. Calls' = Calls
  <2>1. \A q \in Ring : Shown(source'[q]) = Shown(source[q])
    OBVIOUS
  <2>2. QED BY <2>1 DEF Calls
<1>2. QED BY <1>1 DEF History!hvars

\* What the record becomes when an end comes is one of RingHistory's endings.
LEMMA EndingIs ==
  ASSUME NEW s \in Status, NEW e, e.state \in Closed, NEW known \in BOOLEAN,
         ~known => s = "none"
  PROVE  RecordAfter(s, e, known) \in History!Ending(s)
BY DEF RecordAfter, History!Ending, Status, Over, Closed

LEMMA StoreTells ==
  ASSUME RInv, NEW m \in wire, StoreEvent(m)
  PROVE  History!HNext \/ UNCHANGED History!hvars
<1> SUFFICES ASSUME NEW r, r = m.event.ring PROVE History!HNext \/ UNCHANGED History!hvars
  OBVIOUS
<1>1. /\ m.event \in Events /\ m.event.state \in State /\ m.event.rev \in Nat /\ r \in Ring
      /\ source' \in [Ring -> Source \cup {None}] /\ record' \in [Ring -> Status]
      /\ record \in [Ring -> Status]
      /\ \A q \in Ring : q # r => source'[q] = source[q] /\ record'[q] = record[q]
      /\ StoredOf(m, r, source[r], source'[r])
      /\ source \in [Ring -> Source \cup {None}]
      /\ source[r] # None => source[r].state \in State /\ source[r].rev \in Nat
  BY StoreIs, EventTypes DEF RInv, RTypeOK, Event
<1>2. ASSUME NEW s PROVE SourceOf(m, s).state = s
  BY DEF SourceOf
<1>3. ASSUME source[r] # None, source'[r] # None,
             source'[r].state = source[r].state, record' = record
      PROVE  UNCHANGED History!hvars
  BY <1>1, <1>3, ShownIs, ShowsAgain DEF State, Closed
<1>4. CASE Kept(m, r)
  BY <1>1, <1>3, <1>4 DEF Kept
<1>5. CASE Renewed(m, r) \/ Outlived(m, r)
  <2>1. source'[r] = SourceOf(m, source[r].state) /\ source[r] # None /\ record' = record
    BY <1>1, <1>5 DEF Renewed, Outlived
  <2>2. QED BY <1>1, <1>2, <1>3, <2>1 DEF StoredOf
<1>6. CASE Newer(m, r)
  <2>1. /\ source'[r] = SourceOf(m, m.event.state)
        /\ record' = [record EXCEPT ![r] = RecordAfter(record[r], m.event, source[r] # None)]
    BY <1>1, <1>6 DEF Newer
  <2>2. source'[r] # None /\ source'[r].state = m.event.state
    BY <1>1, <1>2, <1>6, <2>1 DEF StoredOf, Newer
  <2>3. record'[r] = RecordAfter(record[r], m.event, source[r] # None) /\ record[r] \in Status
    BY <1>1, <2>1
  <2>4. source[r] = None => record[r] = "none"
    BY <1>1 DEF RInv, StoryInv, SourceInv
  <2>5. CASE m.event.state = "ringing_in"
    <3>1. record'[r] = "ringing"
      BY <1>1, <2>2, <2>5, StoredSource DEF RInv
    <3>2. CASE source[r] = None
      <4>1. History!Becomes(r, "ringing", "ringing")
        BY <1>1, <2>2, <2>5, <3>1, ShownIs, RingBecomes
      <4>2. Calls[r] = "unknown"
        BY <1>1, <3>2, ShownIs DEF Calls
      <4>3. QED BY <1>1, <4>1, <4>2 DEF History!HNext, History!Rings
    <3>3. CASE source[r] # None
      <4>1. source[r].state = "ringing_in"
        BY <1>1, <1>6, <2>5, <3>3 DEF Newer, RInv, StoryInv, LostInv, NoneAfter, State, Closed
      <4>2. record[r] = "ringing"
        BY <1>1, <3>3, <4>1 DEF RInv, StoryInv, SourceInv
      <4>3. record' = record
        BY <1>1, <2>1, <2>3, <3>1, <4>2
      <4>4. QED BY <1>3, <2>2, <2>5, <3>3, <4>1, <4>3
    <3>4. QED BY <3>2, <3>3
  <2>6. CASE m.event.state = "active"
    <3>1. record'[r] = "answered"
      BY <1>1, <2>2, <2>6, StoredSource DEF RInv
    <3>2. History!Becomes(r, "taken", "answered")
      BY <1>1, <2>2, <2>6, <3>1, ShownIs, RingBecomes
    <3>3. QED BY <1>1, <3>2 DEF History!HNext, History!Taken
  <2>7. CASE m.event.state \in Closed
    <3>1. PICK c : c = Shown(source'[r])
      OBVIOUS
    <3>2. c \in {"over", "lost"}
      BY <2>2, <2>7, <3>1, ShownIs DEF Closed
    <3>3. PICK t : t = record'[r]
      OBVIOUS
    <3>4. t \in History!Ending(record[r])
      BY <2>3, <2>4, <2>7, <3>3, EndingIs
    <3>5. History!Becomes(r, c, t)
      BY <1>1, <3>1, <3>3, RingBecomes
    <3>6. QED BY <1>1, <3>2, <3>4, <3>5 DEF History!HNext, History!Ends
  <2>8. QED BY <1>1, <2>5, <2>6, <2>7 DEF State
<1>7. QED BY <1>4, <1>5, <1>6, StoreCases DEF RInv

LEMMA MarkTells ==
  ASSUME RInv, Mark
  PROVE  History!HNext
<1>1. PICK r \in Ring, to \in {"answered", "rejected", "ended"} : Marked(r, to)
  BY MarkIs DEF RInv
<1>2. /\ record \in [Ring -> Status]
      /\ \/ record[r] = "ringing"
         \/ record[r] = "answered" /\ to = "ended"
  BY <1>1 DEF Marked, RInv, RTypeOK, StoryInv, SourceInv
<1>3. record'[r] = to
  BY <1>1, <1>2 DEF Marked, Over
<1>4. CASE to = "answered"
  <2>1. History!Becomes(r, "taken", "answered")
    BY <1>1, <1>2, <1>3, <1>4, ShownIs, RingBecomes DEF Marked
  <2>2. QED BY <2>1 DEF History!HNext, History!Taken
<1>5. CASE to # "answered"
  <2>1. History!Becomes(r, "over", to)
    BY <1>1, <1>2, <1>3, <1>5, ShownIs, RingBecomes DEF Marked
  <2>2. to \in History!Ending(record[r])
    BY <1>2, <1>5 DEF History!Ending
  <2>3. QED BY <2>1, <2>2 DEF History!HNext, History!Ends
<1>6. QED BY <1>4, <1>5

\* Whatever the modem, the Agent and the network do, the user's record of a
\* call tells a story that can have happened: it rings once at most, then
\* somebody has it or it is over, and what is over stays so.
THEOREM HistoryIsTold == RSpec => ImplementsHistory
<1>1. RInit => History!HInit
  BY ShownIs DEF RInit, History!HInit, Calls
<1>2. RInv /\ [RNext]_rvars => [History!HNext]_(History!hvars)
  <2> SUFFICES ASSUME RInv, [RNext]_rvars PROVE [History!HNext]_(History!hvars)
    OBVIOUS
  <2>1. CASE UNCHANGED historyVars
    <3>1. Calls' = Calls /\ record' = record
      BY <2>1 DEF historyVars, Calls
    <3>2. QED BY <3>1 DEF History!hvars
  <2>2. CASE AcceptEvent
    <3>1. PICK m \in wire : StoreEvent(m) \/ UNCHANGED historyVars
      BY <2>2 DEF AcceptEvent, historyVars
    <3>2. QED BY <2>1, <3>1, StoreTells
  <2>3. CASE Mark
    BY <2>3, MarkTells
  <2>4. QED BY <2>1, <2>2, <2>3 DEF RNext, rvars, Attach, Detach, PeerRings, PeerGivesUp, Answered,
           PeerHangsUp, Carrier, ReconcileFences, ObserveCall, AgentRestarts, Connect,
           Disconnect, ReportTopology, SendEvent, LoseEvent
<1>3. QED BY <1>1, <1>2, RingInvariant, PTL DEF RSpec, ImplementsHistory, History!HSpec
=============================================================================
