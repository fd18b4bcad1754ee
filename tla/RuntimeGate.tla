---------------------------- MODULE RuntimeGate ----------------------------
(***************************************************************************)
(* What every operation of GenesisRuntime (cogni_os/runtime.py) passes     *)
(* through: the slots of the RhythmController and the lock of the          *)
(* VRAMGuard.  Rhythm models the controller in full; here it is the mode   *)
(* and who is inside a slot, with the modes of a night that differ for the *)
(* runtime: VALIDATING and PROMOTING are part of EVOLUTION, DRAINING ends  *)
(* in the critical section that starts it.  VRAMGuard.enforce holds its    *)
(* lock round the whole body also when no CUDA device is there.            *)
(***************************************************************************)
EXTENDS Naturals, Sequences, FiniteSets

CONSTANT None

VARIABLES mode,
          requests,     \* callers inside inference_slot
          tasks,        \* callers inside evolution_slot
          guard         \* the caller that holds VRAMGuard._lock, or None

gateVars == <<mode, requests, tasks, guard>>

GateModes == {"INFERENCE", "CHECKPOINTING", "EVOLUTION", "ROLLING_BACK"}

GateInit ==
    /\ mode = "INFERENCE"
    /\ requests = {}
    /\ tasks = {}
    /\ guard = None

InferenceSlot(c) ==
    /\ mode = "INFERENCE"
    /\ requests' = requests \cup {c}
    /\ UNCHANGED <<mode, tasks, guard>>

EvolutionSlot(c) ==
    /\ mode = "EVOLUTION"
    /\ tasks' = tasks \cup {c}
    /\ UNCHANGED <<mode, requests, guard>>

(* Seeded bug: the guard serialises nothing when no device is there. *)
Enforce_Unlocked(c) ==
    UNCHANGED gateVars

(* VRAMGuard.enforce is entered; admission was granted. *)
Enforce(c) ==
    /\ guard = None
    /\ guard' = c
    /\ UNCHANGED <<mode, requests, tasks>>

(* The with statement ends, by return or by exception: whatever c holds of *)
(* the guard and the slots is given back.                                  *)
Leave(c) ==
    /\ guard' = IF guard = c THEN None ELSE guard
    /\ requests' = requests \ {c}
    /\ tasks' = tasks \ {c}
    /\ UNCHANGED mode

(* Seeded bug: a night begins without looking at the active requests. *)
BeginNight_Undrained ==
    /\ mode = "INFERENCE"
    /\ mode' = "CHECKPOINTING"
    /\ UNCHANGED <<requests, tasks, guard>>

(* enter_evolution, first critical section. *)
BeginNight ==
    /\ mode = "INFERENCE"
    /\ requests = {}
    /\ mode' = "CHECKPOINTING"
    /\ UNCHANGED <<requests, tasks, guard>>

(* Its second critical section, or the way back when the callback raised. *)
EndCheckpoint(saved) ==
    /\ mode = "CHECKPOINTING"
    /\ mode' = IF saved THEN "EVOLUTION" ELSE "INFERENCE"
    /\ UNCHANGED <<requests, tasks, guard>>

BeginRollback ==
    /\ mode = "EVOLUTION"
    /\ mode' = "ROLLING_BACK"
    /\ UNCHANGED <<requests, tasks, guard>>

(* resume_inference, or the last transition of a rollback. *)
EndNight ==
    /\ mode \in {"EVOLUTION", "ROLLING_BACK"}
    /\ tasks = {}
    /\ mode' = "INFERENCE"
    /\ UNCHANGED <<requests, tasks, guard>>
=============================================================================
