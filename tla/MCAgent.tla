------------------------------ MODULE MCAgent ------------------------------
(***************************************************************************)
(* One Agent for TLC: its connection to Core (AgentLink), the paid calls   *)
(* of its modems (PaidCall) and the messages sent through them             *)
(* (MessageSend).  The three share no state; each behaviour is one of one  *)
(* of them.                                                                *)
(***************************************************************************)
EXTENDS PaidCall, MessageSend, AgentLink, TLC

VARIABLE focus

ModemSymmetry == Permutations(Equipment)

\* Where the calls are not in focus one initial target stands for all.
MCInit ==
  /\ Init /\ SInit /\ LInit /\ focus \in {"calls", "messages", "link"}
  /\ focus = "calls" \/ \A e \in Equipment : target[e] = CHOOSE t \in Target : TRUE

MCNext ==
  \/ focus = "calls"    /\ Next  /\ UNCHANGED <<svars, lvars, focus>>
  \/ focus = "messages" /\ SNext /\ UNCHANGED <<vars, lvars, focus>>
  \/ focus = "link"     /\ LNext /\ UNCHANGED <<vars, svars, focus>>

MCSpec == MCInit /\ [][MCNext]_<<vars, svars, lvars, focus>>

\* Types of all variables.
AgentTypeOK == TypeOK /\ STypeOK /\ LTypeOK
=============================================================================
