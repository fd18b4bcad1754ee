--------------------------- MODULE GenesisRuntime ---------------------------
(***************************************************************************)
(* GenesisRuntime (cogni_os/runtime.py): sessions and learning through the *)
(* one gate, in a process that may crash and be started again.             *)
(***************************************************************************)
EXTENDS FastWeightSessions, LearningState

CONSTANT Budgets        \* bound: <<session calls, learning calls, crashes>>

(* Who infers and compiles sessions is not who learns, and no one is None. *)
ASSUME CallersAssumption == Callers \cap Actors = {} /\ None \notin Callers \cup Actors

vars == <<gateVars, sessionVars, learningVars>>

Init ==
    /\ GateInit /\ SessionsInit /\ LearningInit
    /\ \E b \in Budgets : /\ sessionCalls = b[1]
                          /\ learningCalls = b[2]
                          /\ crashes = b[3]

(* A crash takes the whole process with it. *)
Restart ==
    /\ Crash
    /\ mode' = "INFERENCE" /\ requests' = {} /\ tasks' = {} /\ guard' = None
    /\ cache' = <<>> /\ bytes' = 0
    /\ active_session' = None /\ hooks' = {} /\ session_lock' = None
    /\ calibrated' = <<>> /\ crossed' = FALSE
    /\ core' = CoreBudget - 1
    /\ call' = [c \in Callers |-> IdleCall]
    /\ UNCHANGED sessionCalls

Next ==
    \/ SessionsNext /\ UNCHANGED learningVars
    \/ LearningNext /\ UNCHANGED sessionVars
    \/ Restart

Spec == Init /\ [][Next]_vars
=============================================================================
