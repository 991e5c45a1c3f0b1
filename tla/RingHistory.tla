----------------------------- MODULE RingHistory -----------------------------
(***************************************************************************)
(* What Core's history promises of a ring, whatever the modem, the Agent   *)
(* and the network do: it rings at most once, then somebody has it or it   *)
(* is over, and the record tells a story that can have happened.           *)
(***************************************************************************)
CONSTANTS Ring

VARIABLES
  call,         \* what browsers are offered or shown
  story         \* the user's record

hvars == <<call, story>>

HInit ==
  /\ call = [r \in Ring |-> "unknown"]
  /\ story = [r \in Ring |-> "none"]

Becomes(r, c, s) ==
  /\ call' = [call EXCEPT ![r] = c]
  /\ story' = [story EXCEPT ![r] = s]

Rings(r) == call[r] = "unknown" /\ Becomes(r, "ringing", "ringing")

\* Core may learn of the call only now, or think it over.
Taken(r) == Becomes(r, "taken", "answered")

\* "over" is what the modem reports, "lost" what the loss of its card says.
\* A missed or rejected call was never taken, and what is over for the user
\* stays so.  Of a call that Core heard of only when it was over, there need
\* not be a story.
Ending(s) ==
  CASE s = "ringing"  -> {"missed", "rejected", "ended", "interrupted"}
    [] s = "answered" -> {"ended", "interrupted"}
    [] s = "none"     -> {"none", "ended", "interrupted"}
    [] OTHER          -> {s}

Ends(r) == \E s \in Ending(story[r]), c \in {"over", "lost"} : Becomes(r, c, s)

HNext == \E r \in Ring : Rings(r) \/ Taken(r) \/ Ends(r)

HSpec == HInit /\ [][HNext]_hvars
=============================================================================
