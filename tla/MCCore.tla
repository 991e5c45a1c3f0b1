------------------------------- MODULE MCCore -------------------------------
(***************************************************************************)
(* Core for TLC: its cellular calls on one modem (CellularCall) and its    *)
(* switch of exits (ExitSwitch).  They share no state; each behaviour is   *)
(* one of the one or of the other.                                         *)
(***************************************************************************)
EXTENDS CellularCall, ExitSwitch, TLC

VARIABLE focus

TargetSymmetry == Permutations(Target)

\* Where the calls are not in focus one initial session stands for all.
MCInit ==
  /\ CInit /\ XInit /\ focus \in {"calls", "exit"}
  /\ \/ focus = "calls"
     \/ \A s \in Session :
          session[s].inv.dir = "out" /\ session[s].inv.target = target[session[s].modem]

MCNext ==
  \/ focus = "calls" /\ CNext /\ UNCHANGED <<xvars, focus>>
  \/ focus = "exit"  /\ XNext /\ UNCHANGED <<cvars, focus>>

MCSpec == MCInit /\ [][MCNext]_<<cvars, xvars, focus>>

\* Types of all variables.
CoreStateOK == CTypeOK /\ XTypeOK
=============================================================================
