---------------------------- MODULE BillingHold ----------------------------
(***************************************************************************)
(* What the Agent promises about carrier billing, without saying how.      *)
(*                                                                         *)
(* A modem may carry a call that this gateway placed or answered (billed). *)
(* The Agent keeps a durable hold per modem.  Billing can only start under *)
(* a hold, and the hold is given up only together with the end of the      *)
(* billing: whatever crashes, some durable record always says that the     *)
(* modem has to be hung up.  The carrier may end a call at any time.       *)
(***************************************************************************)

CONSTANT Equipment              \* the modems, by equipment identity

VARIABLES held,                 \* modems with a durable hold
          billed                \* modems carrying a call of ours

hvars == <<held, billed>>

HInit == held = {} /\ billed = {}

Hold(e) ==
  /\ e \notin held
  /\ held' = held \cup {e}
  /\ UNCHANGED billed

StartBilling(e) ==
  /\ e \in held
  /\ billed' = billed \cup {e}
  /\ UNCHANGED held

\* Giving up the hold implies that nothing is billed any more.
Release(e) ==
  /\ e \in held
  /\ held' = held \ {e}
  /\ billed' = billed \ {e}

StopBilling(e) ==
  /\ e \in billed
  /\ billed' = billed \ {e}
  /\ UNCHANGED held

HNext == \E e \in Equipment :
           Hold(e) \/ StartBilling(e) \/ Release(e) \/ StopBilling(e)

HSpec == HInit /\ [][HNext]_hvars
=============================================================================
