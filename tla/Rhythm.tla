------------------------------- MODULE Rhythm -------------------------------
(***************************************************************************)
(* RhythmController (cogni_flow/rhythm.py): the mode machine that keeps    *)
(* daytime inference and night-time evolution apart.  Its methods are      *)
(* called by any number of threads; each critical section of the           *)
(* controller's RLock is one step, and what a caller does between two      *)
(* critical sections (the body of a slot, the checkpoint callback) is the  *)
(* time between two steps.  The callers here are arbitrary: any of them    *)
(* may ask for any transition at any time.  NightCycle restricts them to   *)
(* what the repository's own callers do.                                   *)
(*                                                                         *)
(* A call that raises without changing the controller is a step that does  *)
(* not happen.  The history list is append-only and never read by the      *)
(* code; it is left out.                                                   *)
(***************************************************************************)
EXTENDS Naturals, FiniteSets

CONSTANTS Requests,     \* activations of inference_slot
          Tasks,        \* activations of evolution_slot
          Callers       \* threads that may call enter_evolution

ASSUME ActivationsAssumption ==
    /\ IsFiniteSet(Requests)
    /\ IsFiniteSet(Tasks)

VARIABLES mode,
          active_requests,
          active_evolution_tasks,
          requests,         \* activations whose body is running
          tasks,
          checkpointing     \* callers inside their checkpoint callback

rhythmVars == <<mode, active_requests, active_evolution_tasks,
                requests, tasks, checkpointing>>
counts == <<active_requests, active_evolution_tasks>>

Modes == {"INFERENCE", "DRAINING", "CHECKPOINTING", "EVOLUTION",
          "VALIDATING", "PROMOTING", "ROLLING_BACK", "SAFE_MODE"}

Allowed ==
    {<<"INFERENCE", "DRAINING">>,         <<"INFERENCE", "SAFE_MODE">>,
     <<"DRAINING", "CHECKPOINTING">>,     <<"DRAINING", "INFERENCE">>,
     <<"DRAINING", "SAFE_MODE">>,         <<"CHECKPOINTING", "EVOLUTION">>,
     <<"CHECKPOINTING", "ROLLING_BACK">>, <<"CHECKPOINTING", "SAFE_MODE">>,
     <<"EVOLUTION", "VALIDATING">>,       <<"EVOLUTION", "INFERENCE">>,
     <<"EVOLUTION", "SAFE_MODE">>,        <<"VALIDATING", "PROMOTING">>,
     <<"VALIDATING", "EVOLUTION">>,       <<"VALIDATING", "ROLLING_BACK">>,
     <<"PROMOTING", "INFERENCE">>,        <<"PROMOTING", "ROLLING_BACK">>,
     <<"ROLLING_BACK", "EVOLUTION">>,     <<"ROLLING_BACK", "INFERENCE">>,
     <<"ROLLING_BACK", "SAFE_MODE">>,     <<"SAFE_MODE", "INFERENCE">>}

NightModes == {"EVOLUTION", "VALIDATING", "PROMOTING"}

(* Seeded bug: leaving for INFERENCE does not look at evolution tasks. *)
CanMove_IgnoresTasks(source, target) ==
    /\ <<source, target>> \in Allowed
    /\ target = "CHECKPOINTING" => active_requests = 0

(* The three checks of _transition_locked. *)
CanMove(source, target) ==
    /\ <<source, target>> \in Allowed
    /\ target = "CHECKPOINTING" => active_requests = 0
    /\ target = "INFERENCE" => active_evolution_tasks = 0

Init ==
    /\ mode = "INFERENCE"
    /\ active_requests = 0
    /\ active_evolution_tasks = 0
    /\ requests = {}
    /\ tasks = {}
    /\ checkpointing = {}

Transition(target) ==
    /\ CanMove(mode, target)
    /\ mode' = target
    /\ UNCHANGED <<counts, requests, tasks, checkpointing>>

BeginRequest(r) ==
    /\ r \notin requests
    /\ mode = "INFERENCE"
    /\ requests' = requests \cup {r}
    /\ active_requests' = active_requests + 1
    /\ UNCHANGED <<mode, active_evolution_tasks, tasks, checkpointing>>

(* The finally of inference_slot: the body has returned or raised. *)
EndRequest(r) ==
    /\ r \in requests
    /\ requests' = requests \ {r}
    /\ active_requests' = active_requests - 1
    /\ UNCHANGED <<mode, active_evolution_tasks, tasks, checkpointing>>

BeginTask(t) ==
    /\ t \notin tasks
    /\ mode \in NightModes
    /\ tasks' = tasks \cup {t}
    /\ active_evolution_tasks' = active_evolution_tasks + 1
    /\ UNCHANGED <<mode, active_requests, requests, checkpointing>>

(* Seeded bug: no finally, a body that raises is never counted out. *)
EndTask_NoFinally(t) ==
    /\ t \in tasks
    /\ tasks' = tasks \ {t}
    /\ active_evolution_tasks' \in {active_evolution_tasks, active_evolution_tasks - 1}
    /\ UNCHANGED <<mode, active_requests, requests, checkpointing>>

EndTask(t) ==
    /\ t \in tasks
    /\ tasks' = tasks \ {t}
    /\ active_evolution_tasks' = active_evolution_tasks - 1
    /\ UNCHANGED <<mode, active_requests, requests, checkpointing>>

(* enter_evolution, first critical section: DRAINING, then CHECKPOINTING. *)
EnterEvolution(c) ==
    /\ c \notin checkpointing
    /\ CanMove(mode, "DRAINING")
    /\ active_requests = 0
    /\ mode' = "CHECKPOINTING"
    /\ checkpointing' = checkpointing \cup {c}
    /\ UNCHANGED <<counts, requests, tasks>>

(* ... or DRAINING and back, because requests remain; the caller gets a    *)
(* RuntimeError either way.                                                *)
RejectEvolution(c) ==
    /\ c \notin checkpointing
    /\ CanMove(mode, "DRAINING")
    /\ active_requests > 0
    /\ mode' = IF CanMove("DRAINING", "INFERENCE") THEN "INFERENCE" ELSE "DRAINING"
    /\ UNCHANGED <<counts, requests, tasks, checkpointing>>

(* The callback returned.  The mode may have moved on meanwhile, in which  *)
(* case the transition is refused and the caller gets a RuntimeError.      *)
CheckpointDone(c) ==
    /\ c \in checkpointing
    /\ checkpointing' = checkpointing \ {c}
    /\ mode' = IF CanMove(mode, "EVOLUTION") THEN "EVOLUTION" ELSE mode
    /\ UNCHANGED <<counts, requests, tasks>>

(* The callback raised an Exception: ROLLING_BACK, then INFERENCE, either  *)
(* of which may be refused.                                                *)
CheckpointFailed(c) ==
    /\ c \in checkpointing
    /\ checkpointing' = checkpointing \ {c}
    /\ mode' = IF ~CanMove(mode, "ROLLING_BACK") THEN mode
               ELSE IF CanMove("ROLLING_BACK", "INFERENCE") THEN "INFERENCE"
               ELSE "ROLLING_BACK"
    /\ UNCHANGED <<counts, requests, tasks>>

(* The callback raised a BaseException that is no Exception: not handled.  *)
CheckpointAborted(c) ==
    /\ c \in checkpointing
    /\ checkpointing' = checkpointing \ {c}
    /\ UNCHANGED <<mode, counts, requests, tasks>>

ResumeInference ==
    /\ mode \in {"EVOLUTION", "PROMOTING"}
    /\ CanMove(mode, "INFERENCE")
    /\ mode' = "INFERENCE"
    /\ UNCHANGED <<counts, requests, tasks, checkpointing>>

Next ==
    \/ \E target \in Modes : Transition(target)
    \/ \E r \in Requests : BeginRequest(r) \/ EndRequest(r)
    \/ \E t \in Tasks : BeginTask(t) \/ EndTask(t)
    \/ \E c \in Callers :
          \/ EnterEvolution(c)
          \/ RejectEvolution(c)
          \/ CheckpointDone(c)
          \/ CheckpointFailed(c)
          \/ CheckpointAborted(c)
    \/ ResumeInference

Spec == Init /\ [][Next]_rhythmVars

-----------------------------------------------------------------------------
(* Every variable has its type. *)
TypeOK ==
    /\ mode \in Modes
    /\ active_requests \in Nat
    /\ active_evolution_tasks \in Nat
    /\ requests \subseteq Requests
    /\ tasks \subseteq Tasks
    /\ checkpointing \subseteq Callers

(* Inference and evolution never run at the same time, whatever the        *)
(* callers ask for: a request body runs only while the controller is in    *)
(* INFERENCE or on one of the two ways out of it that do not wait for      *)
(* requests, an evolution body never while inference is admitted or a      *)
(* checkpoint is being taken, and never both.  This is the promise of      *)
(* inference_slot, evolution_slot and the three checks of                  *)
(* _transition_locked together.                                            *)
DayNightExclusion ==
    /\ requests # {} => /\ tasks = {}
                        /\ mode \in {"INFERENCE", "DRAINING", "SAFE_MODE"}
    /\ tasks # {} => mode \in NightModes \cup {"ROLLING_BACK", "SAFE_MODE"}

(* The counters the checks read are the numbers of bodies really running.  *)
CountersExact ==
    /\ active_requests = Cardinality(requests)
    /\ active_evolution_tasks = Cardinality(tasks)

(* The inductive invariant of the controller: the exclusion that the two   *)
(* slots and _transition_locked keep needs their counters to be exact, and *)
(* nobody is counted twice or out without having been counted in.          *)
RhythmInv ==
    /\ TypeOK
    /\ CountersExact
    /\ DayNightExclusion

Gate == IF mode = "INFERENCE" THEN "day"
        ELSE IF mode \in NightModes THEN "night"
        ELSE "shut"

DN == INSTANCE DayNight WITH gate <- Gate

(* The controller implements the two-sided gate of DayNight: work of one   *)
(* kind is admitted only while its side is open, and a side opens only     *)
(* when no work of the other kind is running.                              *)
ImplementsDayNight == DN!Spec
=============================================================================
