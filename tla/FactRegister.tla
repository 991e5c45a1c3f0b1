---------------------------- MODULE FactRegister ----------------------------
(***************************************************************************)
(* What the event store promises about the facts of one line: it remembers *)
(* the newest complete snapshot, of the newest producer generation, until  *)
(* the line is deleted for good.                                           *)
(***************************************************************************)
EXTENDS Naturals

CONSTANTS Layer,                \* the layers a producer reports on
          Value,                \* what a layer may report
          Generation,           \* processes of the producer
          None                  \* no snapshot

VARIABLES mark,                 \* generation and sequence of the snapshot
          content,              \* what it says of each layer
          used,                 \* generations accepted so far
          deleted

rvars == <<mark, content, used, deleted>>

Mark == [gen : Generation, seq : Nat]
Content == [Layer -> Value]

RInit == mark = None /\ content = None /\ used = {} /\ deleted = FALSE

\* The generation in use reports again, later than before.
Update ==
  /\ ~deleted /\ mark # None
  /\ mark' \in Mark
  /\ mark'.gen = mark.gen /\ mark'.seq > mark.seq
  /\ content' \in Content
  /\ UNCHANGED <<used, deleted>>

\* A generation that never reported before replaces the one in use for ever.
Replace ==
  /\ ~deleted
  /\ mark' \in Mark
  /\ mark'.gen \notin used
  /\ content' \in Content
  /\ used' = used \cup {mark'.gen}
  /\ UNCHANGED deleted

Delete == mark' = None /\ content' = None /\ used' = {} /\ deleted' = TRUE

RNext == Update \/ Replace \/ Delete

RSpec == RInit /\ [][RNext]_rvars
=============================================================================
