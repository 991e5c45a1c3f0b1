------------------------- MODULE FactJournalProofs -------------------------
(***************************************************************************)
(* What holds of FactJournal for any layers, values, processes and bounds. *)
(***************************************************************************)
EXTENDS FactJournal, TLAPS

-----------------------------------------------------------------------------
(* What the operators of a transaction return.                             *)

LEMMA AssignedType ==
  ASSUME NEW l \in Layer, NEW g \in Generation, streams[l] \in Stream
  PROVE  Assigned(l, g) \in Nat
BY DEF Assigned, Stream

LEMMA ChangedType ==
  ASSUME NEW s, NEW t
  PROVE  Changed(s, t) \subseteq Layer
BY DEF Changed

LEMMA NewRecordsType ==
  ASSUME streams \in [Layer -> Stream], NEW s \in Snapshot, NEW t \in Time,
         NEW layers, layers \subseteq Layer
  PROVE  NewRecords(s, t, layers) \subseteq Record
<1> SUFFICES ASSUME NEW l \in layers
             PROVE  [layer |-> l, gen |-> s.gen, epoch |-> Assigned(l, s.gen),
                     seq |-> s.seq, value |-> s.facts[l], at |-> t] \in Record
  BY DEF NewRecords
<1>1. s.gen \in Generation /\ s.seq \in Nat /\ s.facts[l] \in Value
  BY FactAssumption DEF Snapshot
<1>2. Assigned(l, s.gen) \in Nat
  BY <1>1, AssignedType
<1> QED BY <1>1, <1>2 DEF Record

\* The store after a transaction, the record sets named.
LEMMA AcceptTypes ==
  ASSUME FTypeOK, NEW r \in received, Accept(r)
  PROVE  /\ streams' \in [Layer -> Stream]
         /\ NewRecords(r.snap, r.at, Changed(r.snap, r.at)) \subseteq Record
         /\ checkpoint' \in Checkpoint
         /\ r.snap \in Snapshot /\ r.at \in Time
<1> DEFINE layers == Changed(r.snap, r.at)
<1>1. r.snap \in Snapshot /\ r.at \in Time
  BY DEF FTypeOK
<1>2. r.snap.gen \in Generation /\ r.snap.seq \in Nat
  BY <1>1, FactAssumption DEF Snapshot
<1>3. ASSUME NEW l \in Layer
      PROVE  [epoch |-> Assigned(l, r.snap.gen),
              seen |-> [streams[l].seen EXCEPT ![r.snap.gen] = Assigned(l, r.snap.gen)]]
                \in Stream
  <2>1. streams[l] \in Stream
    BY DEF FTypeOK
  <2>2. Assigned(l, r.snap.gen) \in Nat
    BY <1>2, <2>1, AssignedType
  <2> QED BY <2>1, <2>2 DEF Stream
<1>4. streams' \in [Layer -> Stream]
  BY <1>3 DEF Accept, FTypeOK
<1>5. checkpoint' \in Checkpoint
  BY <1>1, <1>2 DEF Accept, Checkpoint
<1> QED BY <1>1, <1>4, <1>5, NewRecordsType, ChangedType DEF FTypeOK

-----------------------------------------------------------------------------
(* Types.                                                                  *)

LEMMA FInitTypeOK == FInit => FTypeOK
<1> SUFFICES ASSUME FInit PROVE FTypeOK
  OBVIOUS
<1>1. 0 \in Time /\ 0 \in 0 .. MaxSeq
  BY FactAssumption DEF Time
<1>2. NoStream \in Stream
  BY DEF Stream, NoStream
<1>3. streams \in [Layer -> Stream]
  BY <1>2 DEF FInit
<1>4. facts \in [Layer -> Fact \cup {None}]
  BY DEF FInit
<1>5. /\ reported \in [Generation -> 0 .. MaxSeq]
      /\ confirmed \in [Generation -> Nat]
  BY <1>1 DEF FInit
<1> QED BY <1>1, <1>3, <1>4, <1>5 DEF FInit, FTypeOK

LEMMA ApplyTypeOK ==
  ASSUME FTypeOK, NEW r \in pending, Apply(r)
  PROVE  FTypeOK'
<1>1. r \in Record
  BY DEF FTypeOK
<1>2. FactOf(r) \in Fact /\ r.layer \in Layer
  BY <1>1 DEF FactOf, Record, Fact
<1> QED BY <1>1, <1>2 DEF Apply, FTypeOK, requests, directory, store

LEMMA ConfirmTypeOK ==
  ASSUME FTypeOK, Confirm
  PROVE  FTypeOK'
<1>1. ASSUME confirming # None, NEW l \in Layer
      PROVE  Refreshed(facts[l], confirming) \in Fact \cup {None}
  <2>1. confirming \in Checkpoint /\ confirming.at \in Time /\ facts[l] \in Fact \cup {None}
    BY <1>1 DEF FTypeOK, Checkpoint
  <2>2. facts[l] # None => [facts[l] EXCEPT !.at = confirming.at] \in Fact
    BY <2>1 DEF Fact
  <2> QED BY <2>1, <2>2 DEF Refreshed
<1>2. confirming # None => confirming.gen \in Generation /\ confirming.seq \in Nat
  BY DEF FTypeOK, Checkpoint
<1> QED BY <1>1, <1>2 DEF Confirm, FTypeOK, requests, directory, store, reducer

\* Type correctness, preserved by every step.
LEMMA FStepTypeOK == FTypeOK /\ [FNext]_fvars => FTypeOK'
<1> SUFFICES ASSUME FTypeOK, [FNext]_fvars PROVE FTypeOK'
  OBVIOUS
<1> USE DEF requests, directory, store, reducer, job
<1>1. ASSUME NEW g \in Generation, Register(g) PROVE FTypeOK'
  BY <1>1 DEF Register, FTypeOK
<1>2. ASSUME NEW g \in Generation, Deregister(g) PROVE FTypeOK'
  BY <1>2 DEF Deregister, FTypeOK
<1>3. ASSUME NEW g \in Generation, NEW values \in [Layer -> Value], Report(g, values)
      PROVE  FTypeOK'
  <2>1. reported[g] \in Nat /\ reported[g] + 1 \in 1 .. MaxSeq
    BY <1>3, FactAssumption DEF Report, FTypeOK
  <2>2. [gen |-> g, seq |-> reported[g] + 1, facts |-> values] \in Snapshot
    BY <2>1 DEF Snapshot
  <2>3. reported' \in [Generation -> 0 .. MaxSeq]
    BY <1>3, <2>1, FactAssumption DEF Report, FTypeOK
  <2> QED BY <1>3, <2>2, <2>3 DEF Report, FTypeOK
<1>4. ASSUME NEW s \in sent, Receive(s) \/ LoseReport(s) PROVE FTypeOK'
  BY <1>4 DEF Receive, LoseReport, FTypeOK
<1>5. ASSUME NEW r \in received, Accept(r) PROVE FTypeOK'
  <2>1. /\ streams' \in [Layer -> Stream]
        /\ NewRecords(r.snap, r.at, Changed(r.snap, r.at)) \subseteq Record
        /\ checkpoint' \in Checkpoint
        /\ r.snap \in Snapshot
    BY <1>5, AcceptTypes
  <2>2. r.snap.gen \in Generation
    BY <2>1 DEF Snapshot
  <2> QED BY <1>5, <2>1, <2>2 DEF Accept, FTypeOK
<1>6. ASSUME NEW r \in received, Refuse(r) PROVE FTypeOK'
  BY <1>6 DEF Refuse, FTypeOK
<1>7. ASSUME NEW r \in pending, Apply(r) PROVE FTypeOK'
  BY <1>7, ApplyTypeOK
<1>8. CASE Confirm
  BY <1>8, ConfirmTypeOK
<1>9. CASE PurgeStore
  BY <1>9 DEF PurgeStore, FTypeOK, Stream, NoStream
<1>10. CASE RemoveLine
  BY <1>10 DEF RemoveLine, FTypeOK
<1>11. CASE Restart
  BY <1>11 DEF Restart, FTypeOK
<1>12. CASE FTick
  BY <1>12, FactAssumption DEF FTick, FTypeOK, Time
<1>13. CASE UNCHANGED fvars
  BY <1>13 DEF fvars, FTypeOK
<1> QED
  BY <1>1, <1>2, <1>3, <1>4, <1>5, <1>6, <1>7, <1>8, <1>9, <1>10, <1>11, <1>12,
     <1>13 DEF FNext

\* The directory, the store, the reducer and the requests have their types.
THEOREM FTypeCorrect == FSpec => []FTypeOK
BY FInitTypeOK, FStepTypeOK, PTL DEF FSpec
-----------------------------------------------------------------------------
(* The journal and the reducer.  Until the line is purged, the records of  *)
(* a layer are in a total order by epoch and sequence, the newest of each  *)
(* layer is the bound generation's, and the reducer shows the newest one   *)
(* of those it has been fed.                                               *)

\* r is in R and every other record of its layer in R precedes it.
Top(r, R) == r \in R /\ \A q \in R : q.layer = r.layer /\ q # r => Older(q, r)

\* The three durable parts of the store agree; an epoch has one generation.
BoundInv ==
  /\ checkpoint = None => /\ binding = None /\ records = {}
                          /\ streams = [l \in Layer |-> NoStream]
  /\ checkpoint # None => /\ binding = checkpoint.gen /\ checkpoint.seq > 0
                          /\ \A l \in Layer : streams[l].epoch > 0
                          /\ \A l \in Layer : streams[l].seen[binding] = streams[l].epoch

StreamsInv ==
  \A l \in Layer : \A g, h \in Generation :
    /\ streams[l].seen[g] <= streams[l].epoch
    /\ streams[l].seen[g] = streams[l].seen[h] /\ streams[l].seen[g] > 0 => g = h

\* A record has its generation's epoch, and no sequence beyond the checkpoint.
EpochsInv ==
  \A r \in records : /\ r.epoch = streams[r.layer].seen[r.gen]
                     /\ r.epoch > 0
                     /\ (r.gen = binding => r.seq <= checkpoint.seq)

\* No two records of a layer have the same epoch and sequence.
KeysInv ==
  \A q, r \in records :
    q.layer = r.layer /\ q.epoch = r.epoch /\ q.seq = r.seq => q = r

\* The newest record of each layer is the bound generation's.
NewestInv ==
  checkpoint # None =>
    \A l \in Layer : \E r \in records :
      r.layer = l /\ r.gen = binding /\ Top(r, records)

RecordsInv == EpochsInv /\ KeysInv /\ NewestInv

\* The fact shows this record, refreshed or not.
Matches(f, r) ==
  /\ f.gen = r.gen /\ f.epoch = r.epoch /\ f.seq = r.seq /\ f.value = r.value
  /\ f.at >= r.at

\* The reducer after the records of R, in whatever order it was fed them.
Shows(l, R) ==
  \/ facts[l] = None /\ \A r \in R : r.layer # l
  \/ facts[l] # None /\ \E r \in R : r.layer = l /\ Matches(facts[l], r) /\ Top(r, R)

ReducerInv ==
  /\ pending \subseteq records
  /\ \A l \in Layer : Shows(l, records \ pending)

\* A checkpoint that is still to be confirmed has not been confirmed before.
ConfirmedInv ==
  /\ phase # "serving" => confirming = checkpoint
  /\ \A g \in Generation : confirmed[g] > 0 => \A l \in Layer : streams[l].seen[g] > 0
  /\ checkpoint # None =>
       /\ confirmed[checkpoint.gen] <= checkpoint.seq
       /\ phase # "serving" => confirmed[checkpoint.gen] < checkpoint.seq

FactInv ==
  /\ FTypeOK
  /\ deletion # "none" => purged
  /\ phase = "serving" => pending = {}
  /\ ~purged => BoundInv /\ StreamsInv /\ RecordsInv /\ ReducerInv /\ ConfirmedInv
  /\ FreshnessKept

-----------------------------------------------------------------------------
(* The order of the records of a layer.                                    *)

LEMMA TopUnique ==
  ASSUME NEW R, R \subseteq Record, NEW q \in R, NEW r \in R,
         q.layer = r.layer, Top(q, R), Top(r, R)
  PROVE  q = r
BY DEF Top, Older, Record

\* One more record, with a key of its own: it or the former top is the top.
LEMMA TopAdded ==
  ASSUME NEW R, R \subseteq Record, NEW r \in Record, NEW t \in R,
         t.layer = r.layer, Top(t, R),
         t.epoch = r.epoch /\ t.seq = r.seq => t = r
  PROVE  /\ Older(t, r) => Top(r, R \cup {r})
         /\ ~Older(t, r) => Top(t, R \cup {r})
<1>1. /\ t \in Record /\ t.epoch \in Nat /\ t.seq \in Nat
      /\ r.epoch \in Nat /\ r.seq \in Nat
  BY DEF Record
<1>2. ASSUME NEW q \in R PROVE q.epoch \in Nat /\ q.seq \in Nat
  BY DEF Record
<1>3. CASE Older(t, r)
  <2>1. ASSUME NEW q \in R, q.layer = r.layer PROVE Older(q, r)
    <3>1. q = t \/ Older(q, t)
      BY <2>1 DEF Top
    <3> QED BY <1>1, <1>2, <1>3, <3>1 DEF Older
  <2> QED BY <1>3, <2>1 DEF Top
<1>4. CASE ~Older(t, r)
  <2>1. t = r \/ Older(r, t)
    BY <1>1, <1>4 DEF Older
  <2> QED BY <2>1, <1>4 DEF Top
<1> QED BY <1>3, <1>4

LEMMA TopAbove ==
  ASSUME NEW R, NEW N, NEW r \in N,
         \A q \in R : q.layer = r.layer => Older(q, r),
         \A q \in N : q.layer = r.layer => q = r
  PROVE  Top(r, R \cup N)
BY DEF Top

\* The choice in Newest is the layer's only top record.
LEMMA NewestIsTop ==
  ASSUME FTypeOK, NEW l, NEW r \in records, r.layer = l, Top(r, records)
  PROVE  Newest(l) = r
<1> DEFINE own == {q \in records : q.layer = l}
<1> DEFINE P(p) == \A q \in own : ~Older(p, q)
<1>1. \A q \in records : q.epoch \in Nat /\ q.seq \in Nat
  BY DEF FTypeOK, Record
<1>2. r \in own /\ P(r)
  BY <1>1 DEF Top, Older
<1>3. ASSUME NEW p \in own, P(p) PROVE p = r
  BY <1>2, <1>3 DEF Top
<1>4. Newest(l) = CHOOSE p \in own : P(p)
  BY DEF Newest
<1>5. (CHOOSE p \in own : P(p)) \in own /\ P(CHOOSE p \in own : P(p))
  <2> HIDE DEF own, P
  <2> QED BY <1>2
<1> HIDE DEF P, own
<1> QED BY <1>3, <1>4, <1>5

-----------------------------------------------------------------------------
(* A transaction.                                                          *)

\* Every record of a transaction is newer than all the layer had.
LEMMA AcceptKind ==
  ASSUME FactInv, NEW r \in received, Accept(r)
  PROVE  /\ r.snap.gen \in Generation /\ r.snap.seq \in Nat /\ r.snap.seq > 0
         /\ \/ /\ checkpoint # None /\ binding = r.snap.gen
               /\ checkpoint.gen = r.snap.gen /\ r.snap.seq > checkpoint.seq
               /\ streams' = streams
               /\ \A l \in Layer : Assigned(l, r.snap.gen) = streams[l].epoch
            \/ /\ binding # r.snap.gen
               /\ Changed(r.snap, r.at) = Layer
               /\ \A l \in Layer :
                    /\ streams[l].seen[r.snap.gen] = 0
                    /\ Assigned(l, r.snap.gen) = streams[l].epoch + 1
<1> DEFINE g == r.snap.gen
<1> DEFINE layers == Changed(r.snap, r.at)
<1>1. FTypeOK /\ BoundInv /\ StreamsInv /\ Acceptable(r.snap, layers)
  BY DEF FactInv, Accept, Acceptable
<1>2. r.snap \in Snapshot /\ g \in Generation /\ r.snap.seq \in Nat /\ r.snap.seq > 0
  BY <1>1, FactAssumption DEF FTypeOK, Snapshot
<1>3. ASSUME NEW l \in Layer
      PROVE  /\ streams[l] = [epoch |-> streams[l].epoch, seen |-> streams[l].seen]
             /\ streams[l].epoch \in Nat /\ streams[l].seen[g] \in Nat
             /\ streams[l].seen \in [Generation -> Nat]
  BY <1>1, <1>2 DEF FTypeOK, Stream
<1>4. CASE binding = g
  <2>1. checkpoint # None
    BY <1>1, <1>2, <1>4, FactAssumption DEF BoundInv
  <2>2. checkpoint.gen = g /\ r.snap.seq > checkpoint.seq
    BY <1>1, <1>4, <2>1 DEF BoundInv, Acceptable
  <2>3. ASSUME NEW l \in Layer
        PROVE  streams[l].seen[g] = streams[l].epoch /\ Assigned(l, g) = streams[l].epoch
    BY <1>1, <1>3, <1>4, <2>1 DEF BoundInv, Assigned
  <2>4. ASSUME NEW l \in Layer
        PROVE  [epoch |-> Assigned(l, g),
                seen |-> [streams[l].seen EXCEPT ![g] = Assigned(l, g)]] = streams[l]
    <3>1. [streams[l].seen EXCEPT ![g] = Assigned(l, g)] = streams[l].seen
      BY <1>2, <1>3, <2>3
    <3> QED BY <1>3, <2>3, <3>1
  <2>5. streams' = [l \in Layer |-> streams[l]]
    BY <2>4 DEF Accept
  <2>6. streams' = streams
    BY <1>1, <2>5 DEF FTypeOK
  <2> QED BY <1>2, <1>4, <2>1, <2>2, <2>3, <2>6
<1>5. CASE binding # g
  <2>1. layers = Layer /\ \A l \in Layer : Assignable(l, g)
    BY <1>1, <1>5 DEF Acceptable
  <2>2. ASSUME NEW l \in Layer PROVE streams[l].seen[g] = 0
    <3>1. CASE checkpoint = None
      BY <1>1, <1>2, <3>1 DEF BoundInv, NoStream
    <3>2. CASE checkpoint # None
      <4>1. /\ binding \in Generation /\ streams[l].epoch > 0
            /\ streams[l].seen[binding] = streams[l].epoch
        BY <1>1, <3>2 DEF BoundInv, FTypeOK, Checkpoint
      <4>2. streams[l].seen[g] # streams[l].epoch
        BY <1>1, <1>2, <1>3, <1>5, <4>1 DEF StreamsInv
      <4> QED BY <2>1, <4>2 DEF Assignable
    <3> QED BY <3>1, <3>2
  <2>3. \A l \in Layer : Assigned(l, g) = streams[l].epoch + 1
    BY <2>2 DEF Assigned
  <2> QED BY <1>2, <1>5, <2>1, <2>2, <2>3
<1> QED BY <1>4, <1>5

LEMMA AcceptAbove ==
  ASSUME FactInv, NEW r \in received, Accept(r),
         NEW n \in NewRecords(r.snap, r.at, Changed(r.snap, r.at))
  PROVE  /\ n \in Record /\ n.layer \in Changed(r.snap, r.at)
         /\ n.gen = r.snap.gen /\ n.seq = r.snap.seq
         /\ n.epoch = Assigned(n.layer, r.snap.gen)
         /\ \A q \in records : q.layer = n.layer => Older(q, n)
         /\ \A m \in NewRecords(r.snap, r.at, Changed(r.snap, r.at)) :
               m.layer = n.layer => m = n
<1> DEFINE g == r.snap.gen
<1> DEFINE layers == Changed(r.snap, r.at)
<1>1. FTypeOK /\ BoundInv /\ StreamsInv /\ RecordsInv
  BY DEF FactInv, Accept, Acceptable
<1>2. n \in Record
  BY <1>1, AcceptTypes
<1>3. /\ n.layer \in layers /\ n.gen = g /\ n.seq = r.snap.seq
      /\ n.epoch = Assigned(n.layer, g)
      /\ \A m \in NewRecords(r.snap, r.at, layers) : m.layer = n.layer => m = n
  BY DEF NewRecords
<1>4. ASSUME NEW q \in records, q.layer = n.layer PROVE Older(q, n)
  <2> DEFINE l == n.layer
  <2>1. /\ q \in Record /\ l \in Layer /\ q.gen \in Generation
        /\ q.epoch \in Nat /\ q.seq \in Nat /\ n.epoch \in Nat /\ n.seq \in Nat
    BY <1>1, <1>2 DEF FTypeOK, Record
  <2>2. streams[l].epoch \in Nat /\ streams[l].seen \in [Generation -> Nat]
    BY <1>1, <2>1 DEF FTypeOK, Stream
  <2>3. q.epoch = streams[l].seen[q.gen] /\ q.epoch > 0
    BY <1>1, <1>4 DEF RecordsInv, EpochsInv
  <2>4. q.epoch <= streams[l].epoch
    BY <1>1, <2>1, <2>3 DEF StreamsInv
  <2>5. CASE n.epoch = streams[l].epoch + 1
    BY <2>1, <2>2, <2>4, <2>5 DEF Older
  <2>6. CASE /\ checkpoint # None /\ binding = g /\ r.snap.seq > checkpoint.seq
             /\ n.epoch = streams[l].epoch
    <3>1. CASE q.epoch < n.epoch
      BY <3>1 DEF Older
    <3>2. CASE q.epoch = n.epoch
      <4>1. streams[l].seen[binding] = streams[l].epoch /\ binding \in Generation
        BY <1>1, <2>1, <2>6 DEF BoundInv, FTypeOK, Checkpoint
      <4>2. q.gen = binding
        BY <1>1, <2>1, <2>3, <2>6, <3>2, <4>1 DEF StreamsInv
      <4>3. q.seq <= checkpoint.seq
        BY <1>1, <4>2 DEF RecordsInv, EpochsInv
      <4>4. checkpoint.seq \in Nat
        BY <1>1, <2>6 DEF FTypeOK, Checkpoint
      <4> QED BY <1>3, <2>1, <2>6, <3>2, <4>3, <4>4 DEF Older
    <3> QED BY <2>1, <2>2, <2>4, <2>6, <3>1, <3>2
  <2> QED BY <1>3, <2>1, <2>5, <2>6, AcceptKind
<1> QED BY <1>2, <1>3, <1>4

\* The store after a transaction: its parts, its streams, its records.
LEMMA AcceptBound ==
  ASSUME FactInv, NEW r \in received, Accept(r)
  PROVE  BoundInv' /\ StreamsInv'
<1> DEFINE g == r.snap.gen
<1>1. FTypeOK /\ BoundInv /\ StreamsInv
  BY DEF FactInv, Accept, Acceptable
<1>2. g \in Generation /\ r.snap.seq > 0
  BY AcceptKind
<1>3. checkpoint' # None /\ checkpoint'.gen = g /\ checkpoint'.seq = r.snap.seq
  BY <1>1, AcceptTypes, FactAssumption DEF Accept
<1>4. binding' = g
  BY DEF Accept
<1>5. ASSUME NEW l \in Layer
      PROVE  /\ streams[l].epoch \in Nat /\ streams[l].seen \in [Generation -> Nat]
             /\ \A h \in Generation : streams[l].seen[h] \in Nat
  BY <1>1 DEF FTypeOK, Stream
<1>6. CASE checkpoint # None /\ binding = g /\ streams' = streams
  BY <1>1, <1>2, <1>3, <1>4, <1>6 DEF BoundInv, StreamsInv
<1>7. CASE /\ Changed(r.snap, r.at) = Layer
           /\ \A l \in Layer : /\ streams[l].seen[g] = 0
                                /\ Assigned(l, g) = streams[l].epoch + 1
  <2>1. ASSUME NEW l \in Layer
        PROVE  /\ streams'[l].epoch = streams[l].epoch + 1
               /\ streams'[l].seen = [streams[l].seen EXCEPT ![g] = streams[l].epoch + 1]
    BY <1>7 DEF Accept
  <2>2. ASSUME NEW l \in Layer
        PROVE  /\ streams'[l].seen[g] = streams[l].epoch + 1
               /\ \A h \in Generation : h # g => streams'[l].seen[h] = streams[l].seen[h]
    BY <1>2, <1>5, <2>1
  <2>3. BoundInv'
    <3>1. ASSUME NEW l \in Layer
          PROVE  streams'[l].epoch > 0 /\ streams'[l].seen[binding'] = streams'[l].epoch
      <4>1. streams[l].epoch \in Nat
        BY <1>5
      <4>2. streams'[l].epoch = streams[l].epoch + 1
        BY <2>1
      <4>3. streams'[l].seen[g] = streams[l].epoch + 1
        BY <2>2
      <4> HIDE DEF g
      <4> QED BY <1>4, <4>1, <4>2, <4>3
    <3> QED BY <1>2, <1>3, <1>4, <3>1 DEF BoundInv
  <2>4. StreamsInv'
    <3> SUFFICES ASSUME NEW l \in Layer, NEW h \in Generation, NEW k \in Generation
                 PROVE  /\ streams'[l].seen[h] <= streams'[l].epoch
                        /\ streams'[l].seen[h] = streams'[l].seen[k] /\ streams'[l].seen[h] > 0
                             => h = k
      BY DEF StreamsInv
    <3>1. /\ streams[l].seen[h] <= streams[l].epoch /\ streams[l].seen[k] <= streams[l].epoch
          /\ streams[l].seen[h] = streams[l].seen[k] /\ streams[l].seen[h] > 0 => h = k
      BY <1>1 DEF StreamsInv
    <3>2. /\ streams[l].epoch \in Nat /\ streams[l].seen[h] \in Nat
          /\ streams[l].seen[k] \in Nat
      BY <1>5
    <3>3. /\ streams'[l].epoch = streams[l].epoch + 1
          /\ streams'[l].seen[h] = IF h = g THEN streams[l].epoch + 1 ELSE streams[l].seen[h]
          /\ streams'[l].seen[k] = IF k = g THEN streams[l].epoch + 1 ELSE streams[l].seen[k]
      BY <2>1, <2>2
    <3> QED BY <3>1, <3>2, <3>3
  <2> QED BY <2>3, <2>4
<1> QED BY <1>6, <1>7, AcceptKind

LEMMA AcceptRecords ==
  ASSUME FactInv, NEW r \in received, Accept(r)
  PROVE  RecordsInv'
<1> DEFINE g == r.snap.gen
<1> DEFINE layers == Changed(r.snap, r.at)
<1> DEFINE new == NewRecords(r.snap, r.at, layers)
<1>1. FTypeOK /\ BoundInv /\ StreamsInv /\ RecordsInv
  BY DEF FactInv, Accept, Acceptable
<1>2. g \in Generation /\ r.snap.seq \in Nat /\ layers \subseteq Layer
  BY AcceptKind, ChangedType
<1>3. checkpoint' # None /\ checkpoint'.gen = g /\ checkpoint'.seq = r.snap.seq
  BY <1>1, AcceptTypes, FactAssumption DEF Accept
<1>4. binding' = g /\ records' = records \cup new
  BY DEF Accept
<1>5. ASSUME NEW l \in Layer
      PROVE  /\ streams[l].epoch \in Nat /\ streams[l].seen \in [Generation -> Nat]
             /\ l \in layers => /\ streams'[l].epoch = Assigned(l, g)
                               /\ streams'[l].seen[g] = Assigned(l, g)
             /\ \A h \in Generation : h # g => streams'[l].seen[h] = streams[l].seen[h]
  <2>1. streams[l].epoch \in Nat /\ streams[l].seen \in [Generation -> Nat]
    BY <1>1 DEF FTypeOK, Stream
  <2>2. streams'[l] = IF l \in layers
                      THEN [epoch |-> Assigned(l, g),
                            seen |-> [streams[l].seen EXCEPT ![g] = Assigned(l, g)]]
                      ELSE streams[l]
    BY DEF Accept
  <2> QED BY <1>2, <2>1, <2>2
<1>6. ASSUME NEW n \in new
      PROVE  /\ n \in Record /\ n.layer \in layers /\ n.gen = g /\ n.seq = r.snap.seq
             /\ n.epoch = Assigned(n.layer, g)
             /\ \A q \in records : q.layer = n.layer => Older(q, n)
             /\ \A m \in new : m.layer = n.layer => m = n
  BY AcceptAbove
<1>7. ASSUME NEW q \in records'
      PROVE  /\ q.epoch = streams'[q.layer].seen[q.gen] /\ q.epoch > 0
             /\ q.gen = binding' => q.seq <= checkpoint'.seq
  <2>1. CASE q \in new
    <3>1. q.epoch = Assigned(q.layer, g) /\ q.layer \in Layer
      BY <1>2, <1>6, <2>1
    <3>2. Assigned(q.layer, g) > 0
      BY <1>1, <1>5, <3>1, AcceptKind DEF BoundInv
    <3> QED BY <1>2, <1>3, <1>5, <1>6, <2>1, <3>1, <3>2
  <2>2. CASE q \in records
    <3>0. q.layer \in Layer /\ q.gen \in Generation /\ q.seq \in Nat
      BY <1>1, <2>2 DEF FTypeOK, Record
    <3>1. /\ q.epoch > 0 /\ q.epoch = streams[q.layer].seen[q.gen]
          /\ q.gen = binding => q.seq <= checkpoint.seq
      BY <1>1, <2>2 DEF RecordsInv, EpochsInv
    <3>2. CASE checkpoint # None /\ binding = g /\ streams' = streams /\ r.snap.seq > checkpoint.seq
      <4>1. checkpoint.seq \in Nat
        BY <1>1, <3>2 DEF FTypeOK, Checkpoint
      <4> QED BY <1>2, <1>3, <1>4, <3>0, <3>1, <3>2, <4>1
    <3>3. CASE \A l \in Layer : streams[l].seen[g] = 0
      <4>1. q.gen # g
        BY <3>0, <3>1, <3>3
      <4> QED BY <1>4, <1>5, <3>0, <3>1, <4>1
    <3> QED BY <3>2, <3>3, AcceptKind
  <2> QED BY <1>4, <2>1, <2>2
<1>8. ASSUME NEW q \in records', NEW p \in records',
             q.layer = p.layer, q.epoch = p.epoch, q.seq = p.seq
      PROVE  q = p
  <2>1. /\ q.epoch \in Nat /\ q.seq \in Nat
    BY <1>1, <1>4, <1>6 DEF FTypeOK, Record
  <2> QED BY <1>1, <1>4, <1>6, <1>8, <2>1 DEF RecordsInv, KeysInv, Older
<1>9. ASSUME NEW l \in Layer
      PROVE  \E q \in records' : q.layer = l /\ q.gen = binding' /\ Top(q, records')
  <2>1. CASE l \in layers
    <3>1. PICK n \in new : n.layer = l
      <4> DEFINE m == [layer |-> l, gen |-> g, epoch |-> Assigned(l, g), seq |-> r.snap.seq,
                       value |-> r.snap.facts[l], at |-> r.at]
      <4>1. m \in new /\ m.layer = l
        BY <2>1 DEF NewRecords
      <4> QED BY <4>1
    <3>2. Top(n, records \cup new)
      BY <1>6, TopAbove
    <3> QED BY <1>4, <1>6, <3>1, <3>2
  <2>2. CASE l \notin layers
    <3>1. checkpoint # None /\ binding = g
      BY <2>2, AcceptKind
    <3>2. PICK q \in records : q.layer = l /\ q.gen = binding /\ Top(q, records)
      BY <1>1, <3>1 DEF RecordsInv, NewestInv
    <3>3. \A n \in new : n.layer # l
      BY <1>6, <2>2
    <3>4. Top(q, records')
      BY <1>4, <3>2, <3>3 DEF Top
    <3> QED BY <1>4, <3>1, <3>2, <3>4
  <2> QED BY <2>1, <2>2
<1>10. \A q \in records' : /\ q.epoch = streams'[q.layer].seen[q.gen] /\ q.epoch > 0
                           /\ q.gen = binding' => q.seq <= checkpoint'.seq
  BY <1>7
<1>11. \A q, p \in records' :
         q.layer = p.layer /\ q.epoch = p.epoch /\ q.seq = p.seq => q = p
  BY <1>8
<1>12. \A l \in Layer : \E q \in records' :
         q.layer = l /\ q.gen = binding' /\ Top(q, records)'
  BY <1>9 DEF Top, Older
<1> QED BY <1>10, <1>11, <1>12 DEF RecordsInv, EpochsInv, KeysInv, NewestInv

\* The reducer has not been fed the new records yet, and shows the others.
LEMMA AcceptReducer ==
  ASSUME FactInv, NEW r \in received, Accept(r)
  PROVE  ReducerInv' /\ ConfirmedInv'
<1> DEFINE g == r.snap.gen
<1> DEFINE new == NewRecords(r.snap, r.at, Changed(r.snap, r.at))
<1>1. FTypeOK /\ BoundInv /\ ReducerInv /\ ConfirmedInv /\ pending = {}
  BY DEF FactInv, Accept, Acceptable
<1>2. records' = records \cup new /\ pending' = new /\ facts' = facts
  BY DEF Accept, reducer
<1>3. new \cap records = {}
  <2> SUFFICES ASSUME NEW n \in new, n \in records PROVE FALSE
    OBVIOUS
  <2>1. Older(n, n) /\ n \in Record
    BY AcceptAbove
  <2> QED BY <2>1 DEF Older, Record
<1>4. records' \ pending' = records \ pending
  BY <1>1, <1>2, <1>3
<1>5. ReducerInv'
  <2>1. ASSUME NEW l \in Layer PROVE Shows(l, records \ pending)'
    BY <1>1, <1>2, <1>4 DEF ReducerInv, Shows, Top, Older, Matches
  <2> QED BY <1>2, <2>1 DEF ReducerInv
<1>6. confirmed' = confirmed /\ confirming' = checkpoint' /\ phase' = "accepting"
  BY DEF Accept, reducer
<1>7. checkpoint' # None /\ checkpoint'.gen = g /\ checkpoint'.seq = r.snap.seq
  BY <1>1, AcceptTypes, FactAssumption DEF Accept
<1>8. /\ g \in Generation /\ r.snap.seq \in Nat /\ r.snap.seq > 0
      /\ confirmed[g] \in Nat
  BY <1>1, AcceptKind DEF FTypeOK
<1>9. CASE /\ checkpoint # None /\ checkpoint.gen = g /\ r.snap.seq > checkpoint.seq
           /\ streams' = streams
  <2>1. checkpoint.seq \in Nat /\ confirmed[g] <= checkpoint.seq
    BY <1>1, <1>9 DEF ConfirmedInv, FTypeOK, Checkpoint
  <2>2. confirmed[g] < r.snap.seq
    BY <1>8, <1>9, <2>1
  <2>3. \A h \in Generation : confirmed[h] > 0 => \A l \in Layer : streams[l].seen[h] > 0
    BY <1>1 DEF ConfirmedInv
  <2> QED BY <1>5, <1>6, <1>7, <1>8, <1>9, <2>2, <2>3 DEF ConfirmedInv
<1>10. CASE /\ Changed(r.snap, r.at) = Layer
            /\ \A l \in Layer : /\ streams[l].seen[g] = 0
                                 /\ Assigned(l, g) = streams[l].epoch + 1
  <2>1. \A h \in Generation : confirmed[h] > 0 => \A l \in Layer : streams[l].seen[h] > 0
    BY <1>1 DEF ConfirmedInv
  <2>2. confirmed[g] = 0
    <3>1. PICK l \in Layer : TRUE
      BY FactAssumption
    <3> QED BY <1>8, <1>10, <2>1, <3>1
  <2>3. ASSUME NEW l \in Layer, NEW h \in Generation, confirmed[h] > 0
        PROVE  streams'[l].seen[h] > 0
    <3>1. h # g
      BY <2>2, <2>3
    <3>2. streams[l].seen \in [Generation -> Nat]
      BY <1>1 DEF FTypeOK, Stream
    <3>3. streams'[l].seen = [streams[l].seen EXCEPT ![g] = Assigned(l, g)]
      BY <1>10 DEF Accept
    <3>4. streams'[l].seen[h] = streams[l].seen[h]
      BY <1>8, <3>1, <3>2, <3>3
    <3> QED BY <2>1, <2>3, <3>4
  <2> QED BY <1>5, <1>6, <1>7, <1>8, <2>2, <2>3 DEF ConfirmedInv
<1> QED BY <1>9, <1>10, AcceptKind

LEMMA AcceptInv ==
  ASSUME FactInv, NEW r \in received, Accept(r)
  PROVE  FactInv'
<1>1. FTypeOK'
  BY FStepTypeOK DEF FactInv, FNext
<1>2. phase' = "accepting" /\ purged' = purged /\ deletion' = deletion
  BY DEF Accept
<1>3. BoundInv' /\ StreamsInv' /\ RecordsInv' /\ ReducerInv' /\ ConfirmedInv'
  BY AcceptBound, AcceptRecords, AcceptReducer
<1> QED BY <1>1, <1>2, <1>3 DEF FactInv, FreshnessKept

-----------------------------------------------------------------------------
(* The reducer is fed.                                                     *)

LEMMA FeedReducer ==
  ASSUME FactInv, NEW r \in pending, Apply(r), ~purged
  PROVE  ReducerInv'
<1> DEFINE R == records \ pending
<1> DEFINE l == r.layer
<1>1. FTypeOK /\ RecordsInv /\ ReducerInv
  BY DEF FactInv
<1>2. r \in records /\ r \in Record /\ l \in Layer
  BY <1>1 DEF ReducerInv, FTypeOK, Record
<1>3. records' = records /\ pending' = pending \ {r}
  BY DEF Apply, store
<1>4. records' \ pending' = R \cup {r} /\ R \subseteq Record /\ R \subseteq records
  BY <1>1, <1>2, <1>3 DEF FTypeOK
<1>5. facts \in [Layer -> Fact \cup {None}] /\ FactOf(r) \in Fact
  BY <1>1, <1>2 DEF FTypeOK, FactOf, Record, Fact
<1>6. FactOf(r) # None /\ Matches(FactOf(r), r)
  <2>1. r.at \in Nat
    BY <1>2, FactAssumption DEF Record, Time
  <2> QED BY <1>5, <2>1, FactAssumption DEF FactOf, Matches
<1>7. ASSUME NEW k \in Layer, k # l
      PROVE  Shows(k, records \ pending)'
  <2>1. Shows(k, R)
    BY <1>1 DEF ReducerInv
  <2>2. facts'[k] = facts[k]
    BY <1>2, <1>5, <1>7 DEF Apply
  <2>3. CASE facts[k] = None /\ \A q \in R : q.layer # k
    BY <1>4, <1>7, <2>2, <2>3 DEF Shows
  <2>4. CASE facts[k] # None /\ \E q \in R : q.layer = k /\ Matches(facts[k], q) /\ Top(q, R)
    <3>1. PICK q \in R : q.layer = k /\ Matches(facts[k], q) /\ Top(q, R)
      BY <2>4
    <3>2. Top(q, R \cup {r})
      BY <1>7, <3>1 DEF Top
    <3>3. \E p \in R \cup {r} : p.layer = k /\ Matches(facts'[k], p) /\ Top(p, R \cup {r})
      BY <2>2, <3>1, <3>2
    <3> QED BY <1>4, <2>2, <2>4, <3>3 DEF Shows, Top, Older, Matches
  <2> QED BY <2>1, <2>3, <2>4 DEF Shows
<1>8. Shows(l, records \ pending)'
  <2>1. Shows(l, R)
    BY <1>1, <1>2 DEF ReducerInv
  <2>2. SUFFICES \E p \in R \cup {r} :
                   /\ p.layer = l /\ facts'[l] # None
                   /\ Matches(facts'[l], p) /\ Top(p, R \cup {r})
    BY <1>4 DEF Shows, Top, Older, Matches
  <2>3. CASE facts[l] = None /\ \A q \in R : q.layer # l
    <3>1. facts'[l] = FactOf(r)
      BY <1>2, <1>5, <2>3 DEF Apply
    <3>2. Top(r, R \cup {r})
      BY <2>3 DEF Top
    <3> QED BY <1>6, <3>1, <3>2
  <2>4. CASE facts[l] # None /\ \E q \in R : q.layer = l /\ Matches(facts[l], q) /\ Top(q, R)
    <3>1. PICK q \in R : q.layer = l /\ Matches(facts[l], q) /\ Top(q, R)
      BY <2>4
    <3>2. Older(facts[l], r) <=> Older(q, r)
      BY <3>1 DEF Matches, Older
    <3>3. q.epoch = r.epoch /\ q.seq = r.seq => q = r
      BY <1>1, <1>2, <1>4, <3>1 DEF RecordsInv, KeysInv
    <3>4. /\ Older(q, r) => Top(r, R \cup {r})
          /\ ~Older(q, r) => Top(q, R \cup {r})
      BY <1>2, <1>4, <3>1, <3>3, TopAdded
    <3>5. CASE Older(q, r)
      <4>1. facts'[l] = FactOf(r)
        BY <1>2, <1>5, <3>2, <3>5 DEF Apply
      <4> QED BY <1>6, <3>4, <3>5, <4>1
    <3>6. CASE ~Older(q, r)
      <4>1. facts' = facts
        BY <2>4, <3>2, <3>6 DEF Apply
      <4> QED BY <2>4, <3>1, <3>4, <3>6, <4>1
    <3> QED BY <3>5, <3>6
  <2> QED BY <2>1, <2>3, <2>4 DEF Shows
<1>9. \A k \in Layer : Shows(k, records \ pending)'
  BY <1>7, <1>8
<1>10. pending' \subseteq records'
  BY <1>1, <1>3 DEF ReducerInv
<1> QED BY <1>9, <1>10 DEF ReducerInv

LEMMA ApplyInv ==
  ASSUME FactInv, NEW r \in pending, Apply(r)
  PROVE  FactInv'
<1>1. FTypeOK'
  BY ApplyTypeOK DEF FactInv
<1>2. UNCHANGED <<binding, streams, records, checkpoint, purged, confirmed, phase,
                  confirming, deletion>> /\ phase # "serving"
  BY DEF Apply, store
<1>3. ~purged => ReducerInv'
  BY FeedReducer
<1>4. ~purged => (BoundInv /\ StreamsInv /\ RecordsInv /\ ConfirmedInv)'
  BY <1>2 DEF FactInv, BoundInv, StreamsInv, RecordsInv, EpochsInv, KeysInv, NewestInv,
              Top, Older, ConfirmedInv
<1> QED BY <1>1, <1>2, <1>3, <1>4 DEF FactInv, FreshnessKept

\* While Core serves, the layer shows its newest record.
LEMMA ShownIsTop ==
  ASSUME FTypeOK, BoundInv, RecordsInv, ReducerInv, pending = {}, checkpoint # None,
         NEW l \in Layer
  PROVE  /\ facts[l] # None /\ facts[l] \in Fact
         /\ \E r \in records : /\ r.layer = l /\ r.gen = checkpoint.gen
                               /\ Top(r, records) /\ Matches(facts[l], r)
<1>1. PICK r \in records : r.layer = l /\ r.gen = binding /\ Top(r, records)
  BY DEF RecordsInv, NewestInv
<1>2. records \ pending = records
  OBVIOUS
<1>3. facts[l] # None
  BY <1>1, <1>2 DEF ReducerInv, Shows
<1>4. PICK q \in records : q.layer = l /\ Matches(facts[l], q) /\ Top(q, records)
  BY <1>2, <1>3 DEF ReducerInv, Shows
<1>5. q = r
  BY <1>1, <1>4, TopUnique DEF FTypeOK
<1>6. facts[l] \in Fact
  BY <1>3 DEF FTypeOK
<1> QED BY <1>1, <1>3, <1>4, <1>5, <1>6 DEF BoundInv

\* A confirmation takes effect, and changes nothing but the time of a fact.
LEMMA ConfirmInv ==
  ASSUME FactInv, Confirm
  PROVE  FactInv'
<1>1. FTypeOK'
  BY ConfirmTypeOK DEF FactInv
<1>2. /\ UNCHANGED <<binding, streams, records, checkpoint, purged, pending, deletion>>
      /\ phase # "serving" /\ phase' = "serving" /\ pending = {}
  BY DEF Confirm, store
<1>3. CASE purged
  BY <1>1, <1>2, <1>3 DEF FactInv, FreshnessKept
<1>4. CASE ~purged
  <2>1. FTypeOK /\ BoundInv /\ StreamsInv /\ RecordsInv /\ ReducerInv /\ ConfirmedInv
    BY <1>4 DEF FactInv
  <2>2. (BoundInv /\ StreamsInv /\ RecordsInv)'
    BY <1>2, <2>1 DEF BoundInv, StreamsInv, RecordsInv, EpochsInv, KeysInv, NewestInv,
                      Top, Older
  <2>3. CASE checkpoint = None
    <3>1. UNCHANGED reducer
      BY <1>2, <2>1, <2>3 DEF Confirm, ConfirmedInv
    <3>2. ReducerInv' /\ ConfirmedInv'
      BY <1>2, <2>1, <2>3, <3>1
         DEF reducer, ReducerInv, ConfirmedInv, Shows, Top, Older, Matches
    <3> QED BY <1>1, <1>2, <2>2, <2>3, <3>2 DEF FactInv, FreshnessKept
  <2>4. CASE checkpoint # None
    <3>1. /\ confirming = checkpoint /\ confirmed[checkpoint.gen] < checkpoint.seq
          /\ checkpoint.gen \in Generation /\ checkpoint.seq \in Nat
          /\ checkpoint.at \in Nat /\ checkpoint.seq > 0
          /\ confirmed \in [Generation -> Nat]
      BY <1>2, <2>1, <2>4, FactAssumption
         DEF ConfirmedInv, BoundInv, FTypeOK, Checkpoint, Time
    <3>2. /\ facts' = [l \in Layer |-> Refreshed(facts[l], checkpoint)]
          /\ confirmed' = [confirmed EXCEPT ![checkpoint.gen] = checkpoint.seq]
      <4>1. ~(confirming.seq <= confirmed[confirming.gen]) /\ confirming # None
        BY <2>4, <3>1
      <4> QED BY <3>1, <4>1 DEF Confirm
    <3>3. ASSUME NEW l \in Layer
          PROVE  /\ facts'[l] # None /\ facts'[l].at >= checkpoint.at
                 /\ \E r \in records : r.layer = l /\ Top(r, records) /\ Matches(facts'[l], r)
      <4>1. /\ facts[l] # None /\ facts[l] \in Fact
            /\ \E r \in records : /\ r.layer = l /\ r.gen = checkpoint.gen
                                  /\ Top(r, records) /\ Matches(facts[l], r)
        BY <1>2, <2>1, <2>4, ShownIsTop
      <4>2. PICK r \in records : /\ r.layer = l /\ r.gen = checkpoint.gen
                                /\ Top(r, records) /\ Matches(facts[l], r)
        BY <4>1
      <4>3. facts[l].gen = checkpoint.gen /\ facts[l].at \in Nat /\ r.at \in Nat
        BY <2>1, <4>1, <4>2, FactAssumption DEF Matches, Fact, Time, FTypeOK, Record
      <4>4. facts'[l] = IF facts[l].at < checkpoint.at
                        THEN [facts[l] EXCEPT !.at = checkpoint.at] ELSE facts[l]
        BY <3>2, <4>1, <4>3 DEF Refreshed
      <4>5. facts'[l] \in Fact
        <5>1. checkpoint.at \in Time
          BY <2>1, <2>4 DEF FTypeOK, Checkpoint
        <5> QED BY <4>1, <4>4, <5>1 DEF Fact
      <4>6. facts'[l].at >= checkpoint.at /\ Matches(facts'[l], r)
        <5>1. /\ facts'[l].gen = facts[l].gen /\ facts'[l].epoch = facts[l].epoch
              /\ facts'[l].seq = facts[l].seq /\ facts'[l].value = facts[l].value
              /\ facts'[l].at = IF facts[l].at < checkpoint.at THEN checkpoint.at
                                ELSE facts[l].at
          BY <4>1, <4>4 DEF Fact
        <5>2. facts[l].at >= r.at
          BY <4>2 DEF Matches
        <5> QED BY <3>1, <4>2, <4>3, <5>1, <5>2 DEF Matches
      <4> QED BY <4>2, <4>5, <4>6, FactAssumption
    <3>4. ReducerInv'
      <4>1. records' \ pending' = records
        BY <1>2
      <4>2. ASSUME NEW l \in Layer PROVE Shows(l, records \ pending)'
        BY <3>3, <4>1 DEF Shows, Top, Older, Matches
      <4> QED BY <1>2, <4>2 DEF ReducerInv
    <3>5. ConfirmedInv'
      <4>1. confirmed'[checkpoint.gen] = checkpoint.seq
        BY <3>1, <3>2
      <4>2. ASSUME NEW g \in Generation, confirmed'[g] > 0, NEW l \in Layer
            PROVE  streams[l].seen[g] > 0
        <5>1. CASE g = checkpoint.gen
          BY <2>1, <2>4, <5>1 DEF BoundInv
        <5>2. CASE g # checkpoint.gen
          <6>1. confirmed[g] > 0
            BY <3>1, <3>2, <4>2, <5>2
          <6> QED BY <2>1, <6>1 DEF ConfirmedInv
        <5> QED BY <5>1, <5>2
      <4> QED BY <1>2, <3>1, <4>1, <4>2 DEF ConfirmedInv
    <3>6. FreshnessKept'
      BY <1>2, <3>3 DEF FreshnessKept
    <3> QED BY <1>1, <1>2, <2>2, <3>4, <3>5, <3>6 DEF FactInv
  <2> QED BY <2>3, <2>4
<1> QED BY <1>3, <1>4

-----------------------------------------------------------------------------
(* The other steps.                                                        *)

\* Steps of the directory, the requests and the clock.
LEMMA FactQuiet ==
  ASSUME FactInv, FTypeOK', UNCHANGED <<store, reducer, job, deletion>>
  PROVE  FactInv'
<1> USE DEF store, reducer, job
<1>1. ~purged => (BoundInv /\ StreamsInv)'
  BY DEF FactInv, BoundInv, StreamsInv
<1>2. ~purged => RecordsInv'
  BY DEF FactInv, RecordsInv, EpochsInv, KeysInv, NewestInv, Top, Older
<1>3. ~purged => ReducerInv'
  BY DEF FactInv, ReducerInv, Shows, Top, Older, Matches
<1>4. ~purged => ConfirmedInv'
  BY DEF FactInv, ConfirmedInv
<1>5. FreshnessKept'
  BY DEF FactInv, FreshnessKept
<1> QED BY <1>1, <1>2, <1>3, <1>4, <1>5 DEF FactInv

LEMMA RestartInv ==
  ASSUME FactInv, FTypeOK', Restart
  PROVE  FactInv'
<1>1. /\ UNCHANGED <<binding, streams, records, checkpoint, purged, deletion>>
      /\ phase' = "starting" /\ pending' = records /\ confirming' = checkpoint
      /\ facts' = [l \in Layer |-> None] /\ confirmed' = [g \in Generation |-> 0]
  BY DEF Restart, store
<1>2. ~purged => (BoundInv /\ StreamsInv /\ RecordsInv)'
  BY <1>1 DEF FactInv, BoundInv, StreamsInv, RecordsInv, EpochsInv, KeysInv, NewestInv,
              Top, Older
<1>3. ReducerInv'
  <2>1. ASSUME NEW l \in Layer PROVE Shows(l, records \ pending)'
    BY <1>1 DEF Shows
  <2> QED BY <1>1, <2>1 DEF ReducerInv
<1>4. ~purged => ConfirmedInv'
  <2> SUFFICES ASSUME ~purged PROVE ConfirmedInv'
    OBVIOUS
  <2>1. checkpoint # None => /\ checkpoint.gen \in Generation /\ checkpoint.seq > 0
                             /\ checkpoint.seq \in Nat
    BY DEF FactInv, BoundInv, FTypeOK, Checkpoint
  <2> QED BY <1>1, <2>1 DEF ConfirmedInv
<1> QED BY <1>1, <1>2, <1>3, <1>4 DEF FactInv, FreshnessKept

LEMMA FactInit == FInit => FactInv
<1> SUFFICES ASSUME FInit PROVE FactInv
  OBVIOUS
<1>1. FTypeOK
  BY FInitTypeOK
<1>2. /\ records = {} /\ pending = {} /\ checkpoint = None /\ binding = None
      /\ phase = "serving" /\ deletion = "none"
      /\ streams = [l \in Layer |-> NoStream] /\ facts = [l \in Layer |-> None]
      /\ confirmed = [g \in Generation |-> 0]
  BY DEF FInit
<1>3. BoundInv /\ StreamsInv
  BY <1>2 DEF BoundInv, StreamsInv, NoStream
<1>4. RecordsInv
  BY <1>2 DEF RecordsInv, EpochsInv, KeysInv, NewestInv
<1>5. ReducerInv
  BY <1>2 DEF ReducerInv, Shows
<1>6. ConfirmedInv
  BY <1>2 DEF ConfirmedInv
<1> QED BY <1>1, <1>2, <1>3, <1>4, <1>5, <1>6 DEF FactInv, FreshnessKept

LEMMA FactStep == FactInv /\ [FNext]_fvars => FactInv'
<1> SUFFICES ASSUME FactInv, [FNext]_fvars PROVE FactInv'
  OBVIOUS
<1>0. FTypeOK'
  BY FStepTypeOK DEF FactInv
<1>1. ASSUME NEW g \in Generation,
             Register(g) \/ Deregister(g) \/ \E values \in [Layer -> Value] : Report(g, values)
      PROVE  FactInv'
  BY <1>0, <1>1, FactQuiet DEF Register, Deregister, Report, store, reducer, job
<1>2. ASSUME NEW s \in sent, Receive(s) \/ LoseReport(s) PROVE FactInv'
  BY <1>0, <1>2, FactQuiet DEF Receive, LoseReport, store, reducer, job
<1>3. ASSUME NEW r \in received, Accept(r) PROVE FactInv'
  BY <1>3, AcceptInv
<1>4. ASSUME NEW r \in received, Refuse(r) PROVE FactInv'
  BY <1>0, <1>4, FactQuiet DEF Refuse, store, reducer, job
<1>5. ASSUME NEW r \in pending, Apply(r) PROVE FactInv'
  BY <1>5, ApplyInv
<1>6. CASE Confirm
  BY <1>6, ConfirmInv
<1>7. CASE PurgeStore
  BY <1>0, <1>7 DEF PurgeStore, FactInv, FreshnessKept, job
<1>8. CASE RemoveLine
  BY <1>0, <1>8 DEF RemoveLine, FactInv, FreshnessKept, job, store
<1>9. CASE Restart
  BY <1>0, <1>9, RestartInv
<1>10. CASE FTick \/ UNCHANGED fvars
  BY <1>0, <1>10, FactQuiet DEF FTick, fvars, store, reducer, job
<1> QED
  BY <1>1, <1>2, <1>3, <1>4, <1>5, <1>6, <1>7, <1>8, <1>9, <1>10 DEF FNext

LEMMA FactInvariance == FSpec => []FactInv
BY FactInit, FactStep, PTL DEF FSpec

-----------------------------------------------------------------------------
(* What the web UI reads.                                                  *)

\* What the journal tells of the last accepted snapshot.
LEMMA RecoveredIsTop ==
  ASSUME FactInv, ~purged, checkpoint # None
  PROVE  /\ Recovered \in [Layer -> Value]
         /\ \A l \in Layer : \A r \in records :
               r.layer = l /\ Top(r, records) => Recovered[l] = r.value
<1>1. FTypeOK /\ RecordsInv
  BY DEF FactInv
<1>2. Recovered = [l \in Layer |-> Newest(l).value]
  BY DEF Recovered
<1>3. ASSUME NEW l \in Layer, NEW r \in records, r.layer = l, Top(r, records)
      PROVE  Newest(l) = r /\ r.value \in Value
  BY <1>1, <1>3, NewestIsTop DEF FTypeOK, Record
<1>4. ASSUME NEW l \in Layer PROVE Newest(l).value \in Value
  BY <1>1, <1>3 DEF RecordsInv, NewestInv
<1> QED BY <1>2, <1>3, <1>4

LEMMA ServesInv == FactInv => ServesLatestSnapshot
<1> SUFFICES ASSUME FactInv, phase = "serving", ~purged, NEW l \in Layer
             PROVE  IF Recovered = None THEN facts[l] = None
                    ELSE /\ facts[l] # None
                         /\ facts[l].value = Recovered[l]
                         /\ facts[l].gen = checkpoint.gen
  BY DEF ServesLatestSnapshot
<1>1. FTypeOK /\ BoundInv /\ RecordsInv /\ ReducerInv /\ pending = {}
  BY DEF FactInv
<1>2. CASE checkpoint = None
  <2>1. records \ pending = {}
    BY <1>1, <1>2 DEF BoundInv
  <2> QED BY <1>1, <1>2, <2>1 DEF Recovered, ReducerInv, Shows
<1>3. CASE checkpoint # None
  <2>1. Recovered # None
    BY <1>3, RecoveredIsTop, FactAssumption
  <2>2. facts[l] # None
    BY <1>1, <1>3, ShownIsTop
  <2>3. PICK r \in records : /\ r.layer = l /\ r.gen = checkpoint.gen
                            /\ Top(r, records) /\ Matches(facts[l], r)
    BY <1>1, <1>3, ShownIsTop
  <2>4. Recovered[l] = r.value
    BY <1>3, <2>3, RecoveredIsTop
  <2> QED BY <2>1, <2>2, <2>3, <2>4 DEF Matches
<1> QED BY <1>2, <1>3

\* For any number of processes, layers and snapshots, and whatever is lost,
\* reordered, refused or interrupted by a restart: while Core serves, it shows
\* in every layer the value, and the process, of the snapshot accepted last.
THEOREM LatestSnapshotServed == FSpec => []ServesLatestSnapshot
BY FactInvariance, ServesInv, PTL

\* A layer stays valid as long as the last confirmation entitles it to, also
\* after a restart that knows it only from the checkpoint.
THEOREM FactsStayFresh == FSpec => []FreshnessKept
<1>1. FactInv => FreshnessKept
  BY DEF FactInv
<1> QED BY <1>1, FactInvariance, PTL

-----------------------------------------------------------------------------
(* The store implements the register.                                      *)

\* Every step that leaves the store alone is a stutter of the register.
LEMMA StoreUnchanged ==
  ASSUME UNCHANGED store
  PROVE  UNCHANGED Promise!rvars
<1> USE DEF store
<1>1. Recovered' = Recovered
  BY DEF Recovered, Newest, Older
<1> QED BY <1>1 DEF Promise!rvars

LEMMA AcceptRegister ==
  ASSUME FactInv, FactInv', NEW r \in received, Accept(r)
  PROVE  Promise!RNext
<1> DEFINE g == r.snap.gen
<1> DEFINE used == {h \in Generation : \E l \in Layer : streams[l].seen[h] > 0}
<1> DEFINE mark == IF checkpoint = None THEN None
                   ELSE [gen |-> checkpoint.gen, seq |-> checkpoint.seq]
<1>1. FTypeOK /\ BoundInv /\ StreamsInv /\ ~purged /\ purged' = purged
  BY DEF FactInv, Accept, Acceptable
<1>2. g \in Generation /\ r.snap.seq \in Nat
  BY AcceptKind
<1>3. checkpoint' # None /\ checkpoint'.gen = g /\ checkpoint'.seq = r.snap.seq
  BY <1>1, AcceptTypes, FactAssumption DEF Accept
<1>4. mark' = [gen |-> g, seq |-> r.snap.seq] /\ mark' \in Promise!Mark
  BY <1>2, <1>3 DEF Promise!Mark
<1>5. Recovered' \in Promise!Content
  <2>1. (FactInv /\ ~purged /\ checkpoint # None => Recovered \in [Layer -> Value])'
    BY RecoveredIsTop, PTL
  <2> QED BY <1>1, <1>3, <2>1 DEF Promise!Content
<1>6. CASE /\ checkpoint # None /\ checkpoint.gen = g /\ r.snap.seq > checkpoint.seq
           /\ streams' = streams
  <2>1. mark # None /\ mark.gen = g /\ mark.seq = checkpoint.seq
    <3>1. mark = [gen |-> checkpoint.gen, seq |-> checkpoint.seq]
      BY <1>6
    <3>2. checkpoint.gen \in Generation /\ checkpoint.seq \in Nat
      BY <1>1, <1>6 DEF FTypeOK, Checkpoint
    <3>3. mark \in [gen : Generation, seq : Nat]
      BY <3>1, <3>2
    <3> QED BY <1>6, <3>1, <3>3, FactAssumption
  <2>2. used' = used
    BY <1>6
  <2> QED BY <1>1, <1>4, <1>5, <1>6, <2>1, <2>2 DEF Promise!RNext, Promise!Update
<1>7. CASE /\ Changed(r.snap, r.at) = Layer
           /\ \A l \in Layer : /\ streams[l].seen[g] = 0
                                /\ Assigned(l, g) = streams[l].epoch + 1
  <2>1. ASSUME NEW l \in Layer
        PROVE  /\ streams[l].epoch \in Nat /\ streams[l].seen \in [Generation -> Nat]
               /\ streams'[l].seen = [streams[l].seen EXCEPT ![g] = streams[l].epoch + 1]
    BY <1>1, <1>7 DEF FTypeOK, Stream, Accept
  <2>2. ASSUME NEW l \in Layer
        PROVE  /\ streams'[l].seen[g] > 0
               /\ \A h \in Generation : h # g => streams'[l].seen[h] = streams[l].seen[h]
    <3>1. streams[l].epoch \in Nat /\ streams[l].seen \in [Generation -> Nat]
      BY <2>1
    <3>2. streams'[l].seen = [streams[l].seen EXCEPT ![g] = streams[l].epoch + 1]
      BY <2>1
    <3>3. streams'[l].seen[g] = streams[l].epoch + 1
      BY <1>2, <3>1, <3>2
    <3> QED BY <3>1, <3>2, <3>3
  <2>3. used' = used \cup {g}
    BY <1>2, <2>2, FactAssumption
  <2>4. g \notin used
    BY <1>7
  <2> QED BY <1>1, <1>4, <1>5, <2>3, <2>4 DEF Promise!RNext, Promise!Replace
<1> QED BY <1>6, <1>7, AcceptKind

LEMMA PurgeRegister ==
  ASSUME PurgeStore
  PROVE  Promise!RNext
<1>1. checkpoint' = None /\ purged' = TRUE /\ streams' = [l \in Layer |-> NoStream]
  BY DEF PurgeStore
<1>2. Recovered' = None
  BY <1>1 DEF Recovered
<1>3. {g \in Generation : \E l \in Layer : streams'[l].seen[g] > 0} = {}
  BY <1>1 DEF NoStream
<1> QED BY <1>1, <1>2, <1>3 DEF Promise!RNext, Promise!Delete

\* The handler, the transaction, the reducer and the restart, for any number
\* of processes and snapshots, implement a register that holds the newest
\* snapshot of the newest process until the line is deleted: no snapshot of a
\* replaced process, and no late one of the current process, is ever taken.
THEOREM StoreIsRegister == FSpec => ImplementsRegister
<1>1. FInit => Promise!RInit
  <2> SUFFICES ASSUME FInit PROVE Promise!RInit
    OBVIOUS
  <2>1. checkpoint = None /\ purged = FALSE /\ streams = [l \in Layer |-> NoStream]
    BY DEF FInit
  <2>2. {g \in Generation : \E l \in Layer : streams[l].seen[g] > 0} = {}
    BY <2>1 DEF NoStream
  <2> QED BY <2>1, <2>2 DEF Promise!RInit, Recovered
<1>2. FactInv /\ FactInv' /\ [FNext]_fvars => [Promise!RNext]_(Promise!rvars)
  <2> SUFFICES ASSUME FactInv, FactInv', [FNext]_fvars
               PROVE  [Promise!RNext]_(Promise!rvars)
    OBVIOUS
  <2>1. ASSUME NEW r \in received, Accept(r) PROVE Promise!RNext
    BY <2>1, AcceptRegister
  <2>2. CASE PurgeStore
    BY <2>2, PurgeRegister
  <2>3. CASE ~PurgeStore /\ ~\E r \in received : Accept(r)
    <3>1. UNCHANGED store
      BY <2>3 DEF FNext, fvars, Register, Deregister, Report, Receive, LoseReport, Refuse,
                  Apply, Confirm, RemoveLine, Restart, FTick, store
    <3> QED BY <3>1, StoreUnchanged
  <2> QED BY <2>1, <2>2, <2>3
<1> QED BY <1>1, <1>2, FactInvariance, PTL DEF FSpec, ImplementsRegister, Promise!RSpec

=============================================================================
