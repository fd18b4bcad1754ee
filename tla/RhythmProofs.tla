---------------------------- MODULE RhythmProofs ----------------------------
(***************************************************************************)
(* Machine-checked facts about Rhythm, for any finite sets of slot         *)
(* activations and any set of callers: the type invariant, the exclusion   *)
(* of day and night work, and the refinement of DayNight.                  *)
(***************************************************************************)
EXTENDS Rhythm, FiniteSetTheorems, TLAPS

(* Counting one more activation, or one fewer, keeps a counter equal to    *)
(* the number of its running bodies (inference_slot and evolution_slot).   *)
LEMMA CountOneMore ==
    ASSUME NEW S, IsFiniteSet(S), NEW x, x \notin S
    PROVE  Cardinality(S \cup {x}) = Cardinality(S) + 1
  BY FS_AddElement

LEMMA CountOneLess ==
    ASSUME NEW S, IsFiniteSet(S), NEW x \in S
    PROVE  Cardinality(S \ {x}) = Cardinality(S) - 1
  BY FS_RemoveElement

(* A counter that is exact is zero exactly when nothing runs: what lets    *)
(* _transition_locked decide by reading counters.                          *)
LEMMA ZeroMeansNone ==
    ASSUME RhythmInv
    PROVE  /\ IsFiniteSet(requests) /\ IsFiniteSet(tasks)
           /\ active_requests = 0 <=> requests = {}
           /\ active_evolution_tasks = 0 <=> tasks = {}
<1>1. IsFiniteSet(requests) /\ IsFiniteSet(tasks)
  BY ActivationsAssumption, FS_Subset DEF RhythmInv, TypeOK
<1>2. QED
  BY <1>1, FS_EmptySet DEF RhythmInv, CountersExact

-----------------------------------------------------------------------------
(* Moving from one mode to another is what every critical section that is  *)
(* not a slot boundary does; one lemma covers them all.  The target must   *)
(* be compatible with the work in progress.                                *)
Compatible(target) ==
    /\ target \in Modes
    /\ requests # {} => target \in {"INFERENCE", "DRAINING", "SAFE_MODE"}
    /\ tasks # {} => target \in NightModes \cup {"ROLLING_BACK", "SAFE_MODE"}

(* A step that changes only the mode, to a compatible one, and the set of  *)
(* callers in a checkpoint keeps the invariant.                            *)
LEMMA ModeStep ==
    ASSUME RhythmInv, Compatible(mode'), checkpointing' \subseteq Callers,
           UNCHANGED <<counts, requests, tasks>>
    PROVE  RhythmInv'
  BY DEF RhythmInv, TypeOK, CountersExact, DayNightExclusion, Compatible,
         counts, NightModes

(* What _transition_locked allows is compatible with the work in progress: *)
(* the three checks are enough.                                            *)
LEMMA MoveIsCompatible ==
    ASSUME RhythmInv, NEW target, CanMove(mode, target)
    PROVE  Compatible(target)
<1>1. /\ active_requests = 0 <=> requests = {}
      /\ active_evolution_tasks = 0 <=> tasks = {}
  BY ZeroMeansNone
<1>2. target \in Modes
  BY DEF CanMove, Allowed, Modes
<1>3. requests # {} => target \in {"INFERENCE", "DRAINING", "SAFE_MODE"}
  BY <1>1 DEF RhythmInv, DayNightExclusion, CanMove, Allowed
<1>4. tasks # {} => target \in NightModes \cup {"ROLLING_BACK", "SAFE_MODE"}
  BY <1>1 DEF RhythmInv, DayNightExclusion, CanMove, Allowed, NightModes
<1>5. QED
  BY <1>2, <1>3, <1>4 DEF Compatible

(* Staying where one is is always compatible.                              *)
LEMMA StayIsCompatible ==
    ASSUME RhythmInv
    PROVE  Compatible(mode)
  BY DEF RhythmInv, TypeOK, DayNightExclusion, Compatible

LEMMA InitInv == Init => RhythmInv
<1>1. Cardinality({}) = 0
  BY FS_EmptySet
<1>2. QED
  BY <1>1 DEF Init, RhythmInv, TypeOK, CountersExact, DayNightExclusion,
              Modes, NightModes

LEMMA BeginRequestInv ==
    ASSUME RhythmInv, NEW r \in Requests, BeginRequest(r)
    PROVE  RhythmInv'
<1>1. IsFiniteSet(requests)
  BY ZeroMeansNone
<1>2. Cardinality(requests \cup {r}) = Cardinality(requests) + 1
  BY <1>1, CountOneMore DEF BeginRequest
<1>3. TypeOK'
  BY DEF RhythmInv, TypeOK, BeginRequest
<1>4. CountersExact'
  BY <1>2 DEF RhythmInv, TypeOK, CountersExact, BeginRequest
<1>5. tasks = {}
  BY DEF RhythmInv, DayNightExclusion, BeginRequest, NightModes
<1>6. DayNightExclusion'
  BY <1>5 DEF DayNightExclusion, BeginRequest
<1>7. QED
  BY <1>3, <1>4, <1>6 DEF RhythmInv

LEMMA EndRequestInv ==
    ASSUME RhythmInv, NEW r \in Requests, EndRequest(r)
    PROVE  RhythmInv'
<1>1. IsFiniteSet(requests) /\ IsFiniteSet(requests \ {r})
  BY ZeroMeansNone, FS_RemoveElement
<1>2. Cardinality(requests \ {r}) = Cardinality(requests) - 1
  BY <1>1, CountOneLess DEF EndRequest
<1>3. Cardinality(requests \ {r}) \in Nat
  BY <1>1, FS_CardinalityType
<1>4. CountersExact' /\ TypeOK'
  BY <1>2, <1>3 DEF RhythmInv, TypeOK, CountersExact, EndRequest
<1>5. DayNightExclusion'
  BY DEF RhythmInv, DayNightExclusion, EndRequest
<1>6. QED
  BY <1>4, <1>5 DEF RhythmInv

LEMMA BeginTaskInv ==
    ASSUME RhythmInv, NEW t \in Tasks, BeginTask(t)
    PROVE  RhythmInv'
<1>1. IsFiniteSet(tasks)
  BY ZeroMeansNone
<1>2. Cardinality(tasks \cup {t}) = Cardinality(tasks) + 1
  BY <1>1, CountOneMore DEF BeginTask
<1>3. TypeOK'
  BY DEF RhythmInv, TypeOK, BeginTask
<1>4. CountersExact'
  BY <1>2 DEF RhythmInv, TypeOK, CountersExact, BeginTask
<1>5. requests = {}
  BY DEF RhythmInv, DayNightExclusion, BeginTask, NightModes
<1>6. DayNightExclusion'
  BY <1>5 DEF DayNightExclusion, BeginTask
<1>7. QED
  BY <1>3, <1>4, <1>6 DEF RhythmInv

LEMMA EndTaskInv ==
    ASSUME RhythmInv, NEW t \in Tasks, EndTask(t)
    PROVE  RhythmInv'
<1>1. IsFiniteSet(tasks) /\ IsFiniteSet(tasks \ {t})
  BY ZeroMeansNone, FS_RemoveElement
<1>2. Cardinality(tasks \ {t}) = Cardinality(tasks) - 1
  BY <1>1, CountOneLess DEF EndTask
<1>3. Cardinality(tasks \ {t}) \in Nat
  BY <1>1, FS_CardinalityType
<1>4. CountersExact' /\ TypeOK'
  BY <1>2, <1>3 DEF RhythmInv, TypeOK, CountersExact, EndTask
<1>5. DayNightExclusion'
  BY DEF RhythmInv, DayNightExclusion, EndTask
<1>6. QED
  BY <1>4, <1>5 DEF RhythmInv

(* enter_evolution and the three ways its checkpoint callback ends.        *)
LEMMA EnterEvolutionInv ==
    ASSUME RhythmInv, NEW c \in Callers,
           \/ EnterEvolution(c)   \/ RejectEvolution(c)
           \/ CheckpointDone(c)   \/ CheckpointFailed(c)
           \/ CheckpointAborted(c)
    PROVE  RhythmInv'
<1>1. /\ active_requests = 0 <=> requests = {}
      /\ active_evolution_tasks = 0 <=> tasks = {}
  BY ZeroMeansNone
<1>2. checkpointing' \subseteq Callers /\ UNCHANGED <<counts, requests, tasks>>
  BY DEF RhythmInv, TypeOK, EnterEvolution, RejectEvolution, CheckpointDone,
         CheckpointFailed, CheckpointAborted
<1>3. Compatible(mode')
  <2>1. CASE EnterEvolution(c)
    <3>1. mode = "INFERENCE" /\ requests = {} /\ tasks = {}
      BY <1>1, <2>1 DEF EnterEvolution, CanMove, Allowed, RhythmInv,
                        DayNightExclusion, NightModes
    <3>2. QED
      BY <2>1, <3>1 DEF EnterEvolution, Compatible, Modes
  <2>2. CASE RejectEvolution(c)
    <3>1. mode = "INFERENCE" /\ tasks = {}
      BY <2>2 DEF RejectEvolution, CanMove, Allowed, RhythmInv,
                  DayNightExclusion, NightModes
    <3>2. mode' \in {"INFERENCE", "DRAINING"}
      BY <2>2 DEF RejectEvolution
    <3>3. QED
      BY <3>1, <3>2 DEF Compatible, Modes
  <2>3. CASE CheckpointDone(c)
    BY <2>3, MoveIsCompatible, StayIsCompatible DEF CheckpointDone
  <2>4. CASE CheckpointFailed(c)
    <3>1. CASE ~CanMove(mode, "ROLLING_BACK")
      BY <2>4, <3>1, StayIsCompatible DEF CheckpointFailed
    <3>2. CASE CanMove(mode, "ROLLING_BACK")
      <4>1. mode' = "ROLLING_BACK" \/ (mode' = "INFERENCE" /\ tasks = {})
        BY <1>1, <2>4, <3>2 DEF CheckpointFailed, CanMove
      <4>2. Compatible("ROLLING_BACK")
        BY <3>2, MoveIsCompatible
      <4>3. QED
        BY <4>1, <4>2 DEF Compatible, Modes
    <3>3. QED
      BY <3>1, <3>2
  <2>5. CASE CheckpointAborted(c)
    BY <2>5, StayIsCompatible DEF CheckpointAborted
  <2>6. QED
    BY <2>1, <2>2, <2>3, <2>4, <2>5
<1>4. QED
  BY <1>2, <1>3, ModeStep

LEMMA StepInv == RhythmInv /\ [Next]_rhythmVars => RhythmInv'
<1> SUFFICES ASSUME RhythmInv, [Next]_rhythmVars
             PROVE  RhythmInv'
  OBVIOUS
<1>1. ASSUME NEW target \in Modes, Transition(target)
      PROVE  RhythmInv'
  <2>1. Compatible(mode') /\ UNCHANGED <<counts, requests, tasks, checkpointing>>
    BY <1>1, MoveIsCompatible DEF Transition
  <2>2. checkpointing' \subseteq Callers
    BY <2>1 DEF RhythmInv, TypeOK
  <2>3. QED
    BY <2>1, <2>2, ModeStep
<1>2. ASSUME NEW r \in Requests, BeginRequest(r) \/ EndRequest(r)
      PROVE  RhythmInv'
  BY <1>2, BeginRequestInv, EndRequestInv
<1>3. ASSUME NEW t \in Tasks, BeginTask(t) \/ EndTask(t)
      PROVE  RhythmInv'
  BY <1>3, BeginTaskInv, EndTaskInv
<1>4. ASSUME NEW c \in Callers,
             \/ EnterEvolution(c)   \/ RejectEvolution(c)
             \/ CheckpointDone(c)   \/ CheckpointFailed(c)
             \/ CheckpointAborted(c)
      PROVE  RhythmInv'
  BY <1>4, EnterEvolutionInv
<1>5. CASE ResumeInference
  <2>1. Compatible(mode') /\ UNCHANGED <<counts, requests, tasks, checkpointing>>
    BY <1>5, MoveIsCompatible DEF ResumeInference
  <2>2. checkpointing' \subseteq Callers
    BY <2>1 DEF RhythmInv, TypeOK
  <2>3. QED
    BY <2>1, <2>2, ModeStep
<1>6. CASE UNCHANGED rhythmVars
  BY <1>6 DEF rhythmVars, counts, RhythmInv, TypeOK, CountersExact,
              DayNightExclusion
<1>7. QED
  BY <1>1, <1>2, <1>3, <1>4, <1>5, <1>6 DEF Next

(* RhythmInv is an invariant: every reachable controller state is well     *)
(* typed, its counters count the running bodies, and day and night work    *)
(* exclude each other.                                                     *)
THEOREM RhythmInvariant == Spec => []RhythmInv
  BY InitInv, StepInv, PTL DEF Spec

(* Type correctness of the controller. *)
THEOREM RhythmTypes == Spec => []TypeOK
<1>1. RhythmInv => TypeOK
  BY DEF RhythmInv
<1>2. QED
  BY <1>1, RhythmInvariant, PTL

(* The counters that _transition_locked and enter_evolution read are the   *)
(* numbers of bodies really running: neither slot loses or invents one.    *)
THEOREM CountersAreExact == Spec => []CountersExact
<1>1. RhythmInv => CountersExact
  BY DEF RhythmInv
<1>2. QED
  BY <1>1, RhythmInvariant, PTL

-----------------------------------------------------------------------------
(* The refinement.  A step that changes only the mode opens, shuts or      *)
(* keeps the gate of DayNight.                                             *)
LEMMA ModeStepRefines ==
    ASSUME RhythmInv, RhythmInv', UNCHANGED <<requests, tasks>>,
           mode' \in NightModes =>
               mode \in NightModes \/ (mode # "INFERENCE" /\ requests = {})
    PROVE  [DN!Next]_(DN!dnVars)
<1>1. CASE Gate' = Gate
  BY <1>1 DEF DN!dnVars
<1>2. CASE Gate' # Gate /\ mode' = "INFERENCE"
  <2>1. tasks = {}
    BY <1>2 DEF RhythmInv, DayNightExclusion, NightModes
  <2>2. Gate' = "day" /\ Gate # "day"
    BY <1>2 DEF Gate
  <2>3. DN!OpenDay
    BY <2>1, <2>2 DEF DN!OpenDay
  <2>4. QED
    BY <2>3 DEF DN!Next
<1>3. CASE Gate' # Gate /\ mode' \in NightModes
  <2>1. Gate' = "night"
    BY <1>3 DEF Gate, NightModes
  <2>2. mode \notin NightModes
    BY <1>3, <2>1 DEF Gate, NightModes
  <2>3. Gate = "shut" /\ requests = {}
    BY <2>2, <1>3 DEF Gate, NightModes
  <2>4. DN!OpenNight
    BY <2>1, <2>3 DEF DN!OpenNight
  <2>5. QED
    BY <2>4 DEF DN!Next
<1>4. CASE mode' # "INFERENCE" /\ mode' \notin NightModes
  <2>1. Gate' = "shut"
    BY <1>4 DEF Gate
  <2>2. DN!Shut
    BY <2>1 DEF DN!Shut
  <2>3. QED
    BY <2>2 DEF DN!Next
<1>5. QED
  BY <1>1, <1>2, <1>3, <1>4

(* A transition into night work starts from night work or from a mode no   *)
(* request can be running in.                                              *)
LEMMA NightIsEnteredQuiet ==
    ASSUME RhythmInv, NEW target \in NightModes, <<mode, target>> \in Allowed
    PROVE  mode \in NightModes \/ (mode # "INFERENCE" /\ requests = {})
  BY DEF RhythmInv, DayNightExclusion, NightModes, Allowed

LEMMA StepRefines ==
    ASSUME RhythmInv, RhythmInv', [Next]_rhythmVars
    PROVE  [DN!Next]_(DN!dnVars)
<1>1. ASSUME NEW target \in Modes, Transition(target)
      PROVE  [DN!Next]_(DN!dnVars)
  BY <1>1, NightIsEnteredQuiet, ModeStepRefines DEF Transition, CanMove
<1>2. ASSUME NEW r \in Requests, BeginRequest(r)
      PROVE  [DN!Next]_(DN!dnVars)
  <2>1. Gate = "day" /\ Gate' = Gate
    BY <1>2 DEF BeginRequest, Gate
  <2>2. DN!AdmitRequest(r)
    BY <1>2, <2>1 DEF BeginRequest, DN!AdmitRequest
  <2>3. QED
    BY <2>2 DEF DN!Next
<1>3. ASSUME NEW r \in Requests, EndRequest(r)
      PROVE  [DN!Next]_(DN!dnVars)
  <2>1. Gate' = Gate
    BY <1>3 DEF EndRequest, Gate
  <2>2. DN!FinishRequest(r)
    BY <1>3, <2>1 DEF EndRequest, DN!FinishRequest
  <2>3. QED
    BY <2>2 DEF DN!Next
<1>4. ASSUME NEW t \in Tasks, BeginTask(t)
      PROVE  [DN!Next]_(DN!dnVars)
  <2>1. Gate = "night" /\ Gate' = Gate
    BY <1>4 DEF BeginTask, Gate, NightModes
  <2>2. DN!AdmitTask(t)
    BY <1>4, <2>1 DEF BeginTask, DN!AdmitTask
  <2>3. QED
    BY <2>2 DEF DN!Next
<1>5. ASSUME NEW t \in Tasks, EndTask(t)
      PROVE  [DN!Next]_(DN!dnVars)
  <2>1. Gate' = Gate
    BY <1>5 DEF EndTask, Gate
  <2>2. DN!FinishTask(t)
    BY <1>5, <2>1 DEF EndTask, DN!FinishTask
  <2>3. QED
    BY <2>2 DEF DN!Next
<1>6. ASSUME NEW c \in Callers, EnterEvolution(c) \/ RejectEvolution(c)
      PROVE  [DN!Next]_(DN!dnVars)
  <2>1. mode' \notin NightModes /\ UNCHANGED <<requests, tasks>>
    BY <1>6 DEF EnterEvolution, RejectEvolution, NightModes
  <2>2. QED
    BY <2>1, ModeStepRefines
<1>7. ASSUME NEW c \in Callers, CheckpointDone(c)
      PROVE  [DN!Next]_(DN!dnVars)
  <2>1. CASE CanMove(mode, "EVOLUTION")
    BY <1>7, <2>1, NightIsEnteredQuiet, ModeStepRefines
       DEF CheckpointDone, CanMove, NightModes
  <2>2. CASE ~CanMove(mode, "EVOLUTION")
    BY <1>7, <2>2, ModeStepRefines DEF CheckpointDone
  <2>3. QED
    BY <2>1, <2>2
<1>8. ASSUME NEW c \in Callers, CheckpointFailed(c) \/ CheckpointAborted(c)
      PROVE  [DN!Next]_(DN!dnVars)
  <2>1. /\ mode' = mode \/ mode' \notin NightModes
        /\ UNCHANGED <<requests, tasks>>
    BY <1>8 DEF CheckpointFailed, CheckpointAborted, NightModes
  <2>2. QED
    BY <2>1, ModeStepRefines
<1>9. CASE ResumeInference
  BY <1>9, ModeStepRefines DEF ResumeInference, NightModes
<1>10. CASE UNCHANGED rhythmVars
  BY <1>10 DEF rhythmVars, DN!dnVars, Gate
<1>11. QED
  BY <1>1, <1>2, <1>3, <1>4, <1>5, <1>6, <1>7, <1>8, <1>9, <1>10 DEF Next

(* RhythmController implements the day/night gate of DayNight.             *)
THEOREM RhythmImplementsDayNight == Spec => ImplementsDayNight
<1>1. Init => DN!Init
  BY DEF Init, DN!Init, Gate
<1>2. RhythmInv /\ RhythmInv' /\ [Next]_rhythmVars => [DN!Next]_(DN!dnVars)
  BY StepRefines
<1>3. QED
  BY <1>1, <1>2, RhythmInvariant, PTL DEF Spec, ImplementsDayNight, DN!Spec
=============================================================================
