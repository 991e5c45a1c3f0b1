---------------------------- MODULE MCCoreCalls ----------------------------
(***************************************************************************)
(* The parts of Core's cellular service beside CellularCall: the claims of *)
(* rings (IncomingCall), the audio of sessions (MediaBridge) and the loan  *)
(* of a modem's data (DataSession).  They share no state; each behaviour   *)
(* is one of one of them.                                                  *)
(***************************************************************************)
EXTENDS IncomingCall, MediaBridge, DataSession

VARIABLE focus

MCInit == IInit /\ MInit /\ DInit /\ focus \in {"claims", "audio", "data"}

MCNext ==
  \/ focus = "claims" /\ INext /\ UNCHANGED <<mvars, dvars, focus>>
  \/ focus = "audio"  /\ MNext /\ UNCHANGED <<ivars, dvars, focus>>
  \/ focus = "data"   /\ DNext /\ UNCHANGED <<ivars, mvars, focus>>

\* A part that is not in focus stays as it is initially, where none of its fair
\* actions is enabled.
MCSpec ==
  /\ MCInit /\ [][MCNext]_<<ivars, mvars, dvars, focus>>
  /\ IFairness /\ MFairness /\ DFairness

\* Types of all variables.
CoreTypeOK == ITypeOK /\ MTypeOK /\ DTypeOK
=============================================================================
