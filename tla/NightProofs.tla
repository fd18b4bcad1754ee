---------------------------- MODULE NightProofs ----------------------------
(***************************************************************************)
(* Machine-checked facts about NightCycle, for any finite sets of          *)
(* requests, runtime tasks and runners, any number of proposals and any    *)
(* set of calls that may raise: it implements Rhythm, so that what         *)
(* RhythmProofs shows holds of it; the night has one owner; every cycle    *)
(* hands the controller back; and a rollback leaves no candidate behind.   *)
(***************************************************************************)
EXTENDS NightCycle, FiniteSetTheorems, TLAPS

(* The slot activations the runners and the runtime can open, and the      *)
(* theorems of RhythmProofs about a controller with these activations.     *)
Slots == Consolidations \cup (Runners \X {"cycle", "patch"})
RP == INSTANCE RhythmProofs WITH Tasks <- Slots, Callers <- Runners

(* What RhythmProofs assumes of its constants holds here.                  *)
LEMMA FiniteActivations == RP!IsFiniteSet(Requests) /\ RP!IsFiniteSet(Slots)
<1>1. IsFiniteSet(Requests) /\ IsFiniteSet(Consolidations) /\ IsFiniteSet(Runners)
  BY NightCycleAssumption, FS_Subset
<1>2. IsFiniteSet(Runners \X {"cycle", "patch"})
  <2>1. IsFiniteSet({"cycle", "patch"})
    <3>1. {"cycle", "patch"} = {"cycle"} \cup {"patch"}
      OBVIOUS
    <3>2. IsFiniteSet({"cycle"}) /\ IsFiniteSet({"patch"})
      BY FS_Singleton
    <3>3. IsFiniteSet({"cycle"} \cup {"patch"})
      BY <3>2, FS_Union
    <3>4. QED
      BY <3>1, <3>3
  <2>2. QED
    BY <1>1, <2>1, FS_Product
<1>3. IsFiniteSet(Slots)
  BY <1>1, <1>2, FS_Union DEF Slots
<1>4. QED
  BY <1>1, <1>3 DEF IsFiniteSet, RP!IsFiniteSet

(* A runner that passes through one critical section of the controller, or *)
(* through none, makes a step of Rhythm.                                   *)
LEMMA CriticalSection ==
    ASSUME NEW w \in Runners,
           \/ UNCHANGED rhythm
           \/ \E target \in R!Modes : R!Transition(target)
           \/ \E slot \in {"cycle", "patch"} :
                 R!BeginTask(<<w, slot>>) \/ R!EndTask(<<w, slot>>)
           \/ R!EnterEvolution(w)     \/ R!RejectEvolution(w)
           \/ R!CheckpointDone(w)     \/ R!CheckpointFailed(w)
           \/ R!ResumeInference
    PROVE  [R!Next]_(R!rhythmVars)
<1>1. CASE UNCHANGED rhythm
  BY <1>1 DEF rhythm, R!rhythmVars
<1>2. CASE \E slot \in {"cycle", "patch"} :
                 R!BeginTask(<<w, slot>>) \/ R!EndTask(<<w, slot>>)
  BY <1>2 DEF R!Next
<1>3. QED
  BY <1>1, <1>2 DEF R!Next

(* That is all a runner ever does to the controller.                       *)
LEMMA StepIsRhythms ==
    ASSUME NEW w \in Runners, Step(w)
    PROVE  [R!Next]_(R!rhythmVars)
<1> USE DEF R!Modes
<1>1. CASE Tick(w) \/ GateClosed(w) \/ GateOpen(w) \/ InferenceActive(w) \/ RunCycle(w)
           \/ Mine(w) \/ Search(w) \/ Recover(w) \/ Propose(w) \/ Review(w) \/ Audit(w)
           \/ Handle(w) \/ Finish(w) \/ StartUp(w) \/ RecoveryAudited(w) \/ StartDaemon(w)
  BY <1>1, CriticalSection
     DEF Tick, GateClosed, GateOpen, InferenceActive, RunCycle, Mine, Search,
         Recover, Propose, Review, Audit, Handle, Finish, StartUp,
         RecoveryAudited, StartDaemon
<1>2. CASE Enter(w) \/ Checkpoint(w) \/ OpenSlot(w) \/ CloseSlot(w) \/ Resume(w)
  BY <1>2, CriticalSection DEF Enter, Checkpoint, OpenSlot, CloseSlot, Resume
<1>3. CASE Patch(w) \/ Policy(w) \/ Regress(w) \/ Install(w) \/ Health(w)
  BY <1>3, CriticalSection DEF Patch, Policy, Regress, Install, Health, Unwind
<1>4. CASE Rollback(w) \/ Undo(w) \/ Return(w) \/ Reraise(w) \/ Restore(w)
  BY <1>4, CriticalSection DEF Rollback, Undo, Return, Reraise, Restore
<1>5. QED
  BY <1>1, <1>2, <1>3, <1>4 DEF Step

(* The night path uses the controller only through its methods: every     *)
(* behaviour of NightCycle is one of Rhythm.                               *)
THEOREM NightImplementsRhythm == Spec => ImplementsRhythm
<1>1. Init => R!Init
  BY DEF Init
<1>2. [Next]_vars => [R!Next]_(R!rhythmVars)
  <2>1. ASSUME NEW w \in Runners, Turn(w)
        PROVE  [R!Next]_(R!rhythmVars)
    BY <2>1, StepIsRhythms DEF Turn
  <2>2. CASE World
    BY <2>2 DEF World, Request, Consolidate, IdleElapses, NoteActivity, R!Next,
                rhythm, R!rhythmVars
  <2>3. CASE UNCHANGED vars
    BY <2>3 DEF vars, rhythm, R!rhythmVars
  <2>4. QED
    BY <2>1, <2>2, <2>3 DEF Next
<1>3. QED
  BY <1>1, <1>2, PTL DEF Spec, ImplementsRhythm, R!Spec

(* RP instantiates the same controller as NightCycle's R.                  *)
LEMMA SameController == R!Spec => RP!Spec
<1>1. R!Init => RP!Init
  BY DEF R!Init, RP!Init
<1>2. [R!Next]_(R!rhythmVars) => [RP!Next]_(RP!rhythmVars)
  BY DEF Slots, R!Transition, RP!Transition, R!BeginRequest, RP!BeginRequest,
      R!EndRequest, RP!EndRequest, R!BeginTask, RP!BeginTask, R!EndTask, RP!EndTask,
      R!EnterEvolution, RP!EnterEvolution, R!RejectEvolution, RP!RejectEvolution,
      R!CheckpointDone, RP!CheckpointDone, R!CheckpointFailed, RP!CheckpointFailed,
      R!CheckpointAborted, RP!CheckpointAborted, R!ResumeInference, RP!ResumeInference,
      R!CanMove, RP!CanMove, R!Allowed, RP!Allowed, R!counts, RP!counts,
      R!Modes, RP!Modes, R!NightModes, RP!NightModes, R!Next, RP!Next,
      R!rhythmVars, RP!rhythmVars
<1>3. QED
  BY <1>1, <1>2, PTL DEF R!Spec, RP!Spec

(* Hence exact counters and the exclusion of day and night work hold of    *)
(* the night path, by the refinement and not by a second proof.            *)
THEOREM RhythmHoldsAtNight == Spec => []R!RhythmInv
<1>1. RP!Spec => []RP!RhythmInv
  BY FiniteActivations, RP!RhythmInvariant
<1>2. RP!RhythmInv <=> R!RhythmInv
  BY DEF Slots, R!RhythmInv, RP!RhythmInv, R!TypeOK, RP!TypeOK, R!CountersExact,
         RP!CountersExact, R!DayNightExclusion, RP!DayNightExclusion,
         R!Cardinality, RP!Cardinality, R!Modes, RP!Modes, R!NightModes, RP!NightModes
<1>3. QED
  BY <1>1, <1>2, SameController, NightImplementsRhythm, PTL DEF ImplementsRhythm

-----------------------------------------------------------------------------
(* The parts of the inductive invariant.  The first says which points each *)
(* kind of runner can reach.                                               *)
Places ==
    /\ \A w \in Harness : pc[w] \notin {"search", "recover", "ready", "recheck",
                                        "daemon", "started"}
    /\ \A w \in Workflow : pc[w] \in {"off", "gate", "peek", "enter", "checkpoint",
                                      "slot", "search", "audit", "unslot", "raise",
                                      "resume", "handle", "restore", "finish"}
    /\ \A w \in Startup : pc[w] \in {"off", "enter", "checkpoint", "slot", "recover",
                                     "unslot", "raise", "resume", "handle", "restore",
                                     "finish", "ready", "recheck", "daemon", "started"}

AtNight(w) == pc[w] \in NightPoints

(* The points whose mode nobody but the owner changes: a start that fails  *)
(* after its own night stops somebody else's only while that is in         *)
(* EVOLUTION.                                                              *)
Undisturbed == {"checkpoint", "regress", "install", "health", "rollback", "undo"}

(* The mode agrees with the position of the night's owner.  Only the       *)
(* Self-Harness leaves EVOLUTION for the modes of a promotion, and it is   *)
(* in PROMOTING after its patcher returns only if the patcher promoted.    *)
OwnsMode(w) ==
    /\ \/ mode \in ModesAt(pc[w])
       \/ unrecovered /\ mode = "SAFE_MODE" /\ pc[w] \notin Undisturbed
    /\ w \notin Harness => mode \in {"CHECKPOINTING", "EVOLUTION", "SAFE_MODE"}
    /\ pc[w] \in {"return", "audit"} /\ mode = "PROMOTING" => promoted[w]

(* Whoever is in the night owns the mode, and there is only one.           *)
OneOwner ==
    /\ \A w \in Runners : AtNight(w) => OwnsMode(w)
    /\ \A v, w \in Runners : AtNight(v) /\ AtNight(w) => v = w

(* The cycle locks are their runners', and a start-up never takes one.     *)
LockOfSchedulers ==
    /\ LockIsItsRunners
    /\ \A s \in Schedulers : cycle_lock[s] \notin Startup

(* A runner moves its own pc only; its promotion flag and the candidate    *)
(* change at few points.                                                   *)
LEMMA StepMovesItself ==
    ASSUME TypeOK, NEW w \in Runners, Step(w)
    PROVE  /\ pc' \in [Runners -> Points]
           /\ \A v \in Runners \ {w} : pc'[v] = pc[v] /\ promoted'[v] = promoted[v]
           /\ UNCHANGED promoted \/ pc[w] \in {"health", "finish"}
           /\ UNCHANGED candidate_live
                 \/ pc[w] \in {"install", "rollback", "undo", "finish"}
<1> USE DEF TypeOK, Points, Then, Goto, cycle
<1>1. CASE Tick(w) \/ GateClosed(w) \/ GateOpen(w) \/ InferenceActive(w) \/ RunCycle(w)
           \/ Finish(w) \/ StartUp(w) \/ RecoveryAudited(w) \/ StartDaemon(w)
  BY <1>1 DEF Tick, GateClosed, GateOpen, InferenceActive, RunCycle, Finish,
              StartUp, RecoveryAudited, StartDaemon
<1>2. CASE Enter(w) \/ Checkpoint(w) \/ Mine(w) \/ OpenSlot(w) \/ Search(w) \/ Recover(w)
  BY <1>2 DEF Enter, Checkpoint, Mine, OpenSlot, Search, Recover, AfterCheckpoint
<1>3. CASE Propose(w) \/ Review(w) \/ Audit(w) \/ Patch(w) \/ Policy(w) \/ Regress(w)
  BY <1>3 DEF Propose, Review, Audit, Patch, Policy, Regress
<1>4. CASE Install(w) \/ Health(w) \/ Rollback(w) \/ Undo(w)
  BY <1>4 DEF Install, Health, Rollback, Undo, CandidateLive
<1>5. CASE Return(w) \/ Reraise(w) \/ CloseSlot(w) \/ Resume(w) \/ Handle(w) \/ Restore(w)
  BY <1>5 DEF Return, Reraise, CloseSlot, Resume, Handle, Restore
<1>6. QED
  BY <1>1, <1>2, <1>3, <1>4, <1>5 DEF Step

(* Types are kept, given those of the controller.                          *)
LEMMA StepTypes ==
    ASSUME TypeOK, R!TypeOK', NEW w \in Runners, Turn(w)
    PROVE  TypeOK'
<1>1. pc' \in [Runners -> Points]
  BY StepMovesItself DEF Turn
<1>2. /\ cycle_lock' \in [Schedulers -> Runners \cup {None}]
      /\ idle' \in [Schedulers -> BOOLEAN]
      /\ drafts' \in [Runners -> 0..MaxProposals]
      /\ promoted' \in [Runners -> BOOLEAN]
      /\ candidate_live' \in BOOLEAN
      /\ daemon_running' \in BOOLEAN
  <2>0. SchedulerOf(w) \in Schedulers /\ "harness" \in Schedulers
    BY DEF SchedulerOf, Schedulers
  <2> USE DEF TypeOK, Then, Goto, cycle, scheduler, Release
  <2>1. CASE Tick(w) \/ GateClosed(w) \/ GateOpen(w) \/ RunCycle(w)
    BY <2>1, <2>0 DEF Tick, GateClosed, GateOpen, RunCycle
  <2>7. CASE InferenceActive(w)
    BY <2>7, <2>0 DEF InferenceActive
  <2>9. CASE Finish(w)
    <3>1. cycle_lock' \in [Schedulers -> Runners \cup {None}] /\ idle' \in [Schedulers -> BOOLEAN]
      BY <2>9, <2>0 DEF Finish
    <3>2. drafts' \in [Runners -> 0..MaxProposals]
      BY <2>9, NightCycleAssumption DEF Finish
    <3>3. promoted' \in [Runners -> BOOLEAN]
      BY <2>9 DEF Finish
    <3>4. candidate_live' \in BOOLEAN /\ daemon_running' \in BOOLEAN
      BY <2>9 DEF Finish
    <3>5. QED
      BY <3>1, <3>2, <3>3, <3>4
  <2>8. CASE StartUp(w) \/ RecoveryAudited(w) \/ StartDaemon(w)
    BY <2>8, <2>0 DEF StartUp, RecoveryAudited, StartDaemon
  <2>2. CASE Enter(w) \/ Checkpoint(w) \/ Mine(w) \/ OpenSlot(w) \/ Search(w) \/ Recover(w)
    BY <2>2 DEF Enter, Checkpoint, Mine, OpenSlot, Search, Recover
  <2>3. CASE Propose(w) \/ Review(w) \/ Audit(w) \/ Patch(w) \/ Policy(w) \/ Regress(w)
    BY <2>3, NightCycleAssumption DEF Propose, Review, Audit, Patch, Policy, Regress
  <2>4. CASE Install(w) \/ Health(w) \/ Rollback(w) \/ Undo(w)
    BY <2>4 DEF Install, Health, Rollback, Undo, CandidateLive
  <2>5. CASE Return(w) \/ Reraise(w) \/ CloseSlot(w) \/ Resume(w) \/ Handle(w) \/ Restore(w)
    BY <2>5 DEF Return, Reraise, CloseSlot, Resume, Handle, Restore
  <2>6. QED
    BY <2>1, <2>2, <2>3, <2>4, <2>5, <2>7, <2>8, <2>9 DEF Step, Turn
<1>3. promotion_enabled' \in BOOLEAN /\ unrecovered' \in BOOLEAN
  BY DEF TypeOK, Turn
<1>4. QED
  BY <1>1, <1>2, <1>3 DEF TypeOK

(* No runner strays to a point of another kind of runner.                  *)
LEMMA StepKeepsPlaces ==
    ASSUME TypeOK, Places, NEW w \in Runners, Step(w)
    PROVE  Places'
<1>1. \A v \in Runners \ {w} : pc'[v] = pc[v]
  BY StepMovesItself
<1>2. /\ w \in Harness => pc'[w] \notin {"search", "recover", "ready", "recheck",
                                        "daemon", "started"}
      /\ w \in Workflow => pc'[w] \in {"off", "gate", "peek", "enter", "checkpoint",
                                      "slot", "search", "audit", "unslot", "raise",
                                      "resume", "handle", "restore", "finish"}
      /\ w \in Startup => pc'[w] \in {"off", "enter", "checkpoint", "slot", "recover",
                                     "unslot", "raise", "resume", "handle", "restore",
                                     "finish", "ready", "recheck", "daemon", "started"}
  <2> USE NightCycleAssumption DEF TypeOK, Then, Goto, Places, Runners
  <2>1. CASE Tick(w) \/ GateClosed(w) \/ GateOpen(w) \/ InferenceActive(w) \/ RunCycle(w)
             \/ Finish(w) \/ StartUp(w) \/ RecoveryAudited(w) \/ StartDaemon(w)
    BY <2>1 DEF Tick, GateClosed, GateOpen, InferenceActive, RunCycle, Finish,
                StartUp, RecoveryAudited, StartDaemon
  <2>2. CASE Enter(w) \/ Checkpoint(w) \/ Mine(w) \/ OpenSlot(w) \/ Search(w) \/ Recover(w)
    BY <2>2 DEF Enter, Checkpoint, Mine, OpenSlot, Search, Recover, AfterCheckpoint
  <2>3. CASE Propose(w) \/ Review(w) \/ Audit(w) \/ Patch(w) \/ Policy(w) \/ Regress(w)
    BY <2>3 DEF Propose, Review, Audit, Patch, Policy, Regress
  <2>4. CASE Install(w) \/ Health(w) \/ Rollback(w) \/ Undo(w)
    BY <2>4 DEF Install, Health, Rollback, Undo, CandidateLive
  <2>5. CASE Return(w) \/ Reraise(w) \/ CloseSlot(w) \/ Resume(w) \/ Handle(w) \/ Restore(w)
    BY <2>5 DEF Return, Reraise, CloseSlot, Resume, Handle, Restore
  <2>6. QED
    BY <2>1, <2>2, <2>3, <2>4, <2>5 DEF Step
<1>3. QED
  BY <1>1, <1>2 DEF Places, Runners

-----------------------------------------------------------------------------
(* While somebody is in the night the mode is not INFERENCE, so that       *)
(* enter_evolution admits nobody else.                                     *)
LEMMA NoNightInTheDay ==
    ASSUME NEW w \in Runners, AtNight(w), OwnsMode(w)
    PROVE  mode # "INFERENCE"
  BY DEF AtNight, OwnsMode, ModesAt, NightPoints, Points, R!NightModes

(* Where no evolution task can run, the counter that guards the way back   *)
(* to INFERENCE is zero: neither a rejected nor a failed checkpoint gets   *)
(* stuck on its way.                                                       *)
LEMMA NoTaskUncounted ==
    ASSUME R!RhythmInv, mode \in {"INFERENCE", "CHECKPOINTING"}
    PROVE  active_evolution_tasks = 0
<1>1. tasks = {}
  BY DEF R!RhythmInv, R!DayNightExclusion, R!NightModes
<1>2. R!Cardinality({}) = 0
  BY FS_EmptySet DEF R!Cardinality, Cardinality
<1>3. QED
  BY <1>1, <1>2 DEF R!RhythmInv, R!CountersExact

(* What a runner outside the night does to the mode: nothing, unless it    *)
(* enters the night by day, or is a start whose audit failed.              *)
LEMMA OutsideTheNight ==
    ASSUME TypeOK, Places, R!RhythmInv, NEW w \in Runners, ~AtNight(w), Step(w)
    PROVE  \/ mode' = mode /\ ~AtNight(w)'
           \/ mode = "INFERENCE" /\ mode' = "CHECKPOINTING" /\ pc'[w] = "checkpoint"
           \/ /\ pc[w] = "recheck" /\ mode = "EVOLUTION" /\ mode' = "SAFE_MODE"
              /\ pc'[w] = "finish"
<1> USE DEF TypeOK, AtNight, NightPoints, Points, Then, Goto
<1>1. CASE Tick(w) \/ GateClosed(w) \/ GateOpen(w) \/ InferenceActive(w) \/ RunCycle(w)
           \/ Finish(w) \/ StartUp(w) \/ RecoveryAudited(w) \/ StartDaemon(w)
  BY <1>1 DEF Tick, GateClosed, GateOpen, InferenceActive, RunCycle, Finish,
              StartUp, RecoveryAudited, StartDaemon, rhythm
<1>2. CASE Enter(w)
  <2>1. CASE R!EnterEvolution(w) /\ Then(w, "checkpoint")
    BY <2>1 DEF R!EnterEvolution, R!CanMove, R!Allowed
  <2>2. CASE R!RejectEvolution(w) /\ Then(w, "finish")
    <3>1. mode = "INFERENCE"
      BY <2>2 DEF R!RejectEvolution, R!CanMove, R!Allowed
    <3>3. active_evolution_tasks = 0
      BY <3>1, NoTaskUncounted
    <3>4. R!CanMove("DRAINING", "INFERENCE")
      BY <3>3 DEF R!CanMove, R!Allowed
    <3>5. QED
      BY <2>2, <3>1, <3>4 DEF R!RejectEvolution
  <2>3. QED
    BY <1>2, <2>1, <2>2 DEF Enter, rhythm
<1>3. CASE Restore(w)
  <2>1. pc[w] = "recheck" /\ w \in Startup
    BY <1>3, NightCycleAssumption DEF Restore, Places, Runners
  <2>2. QED
    BY <1>3, <2>1, NightCycleAssumption DEF Restore, ActsOn, R!Transition, rhythm
<1>4. QED
  BY <1>1, <1>2, <1>3
     DEF Step, Checkpoint, Mine, OpenSlot, Search, Recover, Propose, Review, Audit, Patch,
         Policy, Regress, Install, Health, Rollback, Undo, Return, Reraise, CloseSlot,
         Resume, Handle

(* What the owner does: it goes to a point that fits the mode it leaves    *)
(* behind, or out of the night with the mode handed back.                  *)
LEMMA InsideTheNight ==
    ASSUME TypeOK, Places, R!RhythmInv, NEW w \in Runners, AtNight(w), OwnsMode(w), Turn(w)
    PROVE  IF AtNight(w)' THEN OwnsMode(w)'
           ELSE mode' \in {"INFERENCE", "SAFE_MODE"} \/ unrecovered'
<1>0. Step(w) /\ (unrecovered \/ Unrecovered(w) => unrecovered')
  BY DEF TypeOK, Turn
<1> USE DEF TypeOK, AtNight, NightPoints, Points, Then, Goto, OwnsMode, ModesAt,
            Undisturbed, R!NightModes, rhythm, cycle, scheduler
<1>1. CASE Checkpoint(w)
  <2>1. mode = "CHECKPOINTING"
    BY <1>1 DEF Checkpoint
  <2>2. active_evolution_tasks = 0
    BY <2>1, NoTaskUncounted
  <2>3. R!CanMove("ROLLING_BACK", "INFERENCE") /\ R!CanMove(mode, "EVOLUTION")
        /\ R!CanMove(mode, "ROLLING_BACK")
    BY <2>1, <2>2 DEF R!CanMove, R!Allowed
  <2>4. CASE R!CheckpointDone(w) /\ Then(w, AfterCheckpoint(w))
    BY <1>0, <2>3, <2>4 DEF R!CheckpointDone, AfterCheckpoint
  <2>5. CASE R!CheckpointFailed(w) /\ Then(w, "finish")
    BY <2>3, <2>5 DEF R!CheckpointFailed
  <2>6. QED
    BY <1>1, <2>4, <2>5 DEF Checkpoint
<1>2. CASE Mine(w) \/ OpenSlot(w)
  <2>1. CASE Mine(w)
    BY <2>1, <1>0 DEF Mine, Unrecovered
  <2>2. CASE OpenSlot(w)
    BY <2>2, <1>0 DEF OpenSlot, R!BeginTask
  <2>3. QED
    BY <1>2, <2>1, <2>2
<1>3. CASE Search(w) \/ Recover(w) \/ Review(w)
  BY <1>0, <1>3 DEF Search, Recover, Review
<1>4. CASE Propose(w) \/ Audit(w)
  BY <1>0, <1>4, NightCycleAssumption DEF Propose, Audit, Places, Runners
<1>5. CASE Patch(w) \/ Policy(w) \/ Regress(w)
  BY <1>0, <1>5, NightCycleAssumption DEF Patch, Policy, Regress, R!BeginTask, R!Transition, Places, Runners
<1>6. CASE Install(w)
  BY <1>0, <1>6, NightCycleAssumption DEF Install, Unwind, CandidateLive, R!Transition, Places, Runners
<1>7. CASE Health(w)
  BY <1>0, <1>7, NightCycleAssumption DEF Health, Unwind, R!Transition, Places, Runners
<1>8. CASE Rollback(w) \/ Undo(w)
  BY <1>0, <1>8, NightCycleAssumption DEF Rollback, Undo, CandidateLive, R!Transition, Places, Runners
<1>9. CASE Return(w) \/ Reraise(w) \/ CloseSlot(w)
  BY <1>0, <1>9 DEF Return, Reraise, CloseSlot, R!EndTask
<1>10. CASE Resume(w)
  BY <1>0, <1>10 DEF Resume, R!ResumeInference
<1>11. CASE Handle(w)
  BY <1>0, <1>11 DEF Handle, Unrecovered
<1>12. CASE Restore(w)
  <2>1. pc[w] = "restore"
    BY <1>12 DEF Restore
  <2>2. CASE mode \in {"VALIDATING", "PROMOTING"}
    BY <1>12, <2>1, <2>2 DEF Restore, ActsOn, R!Transition
  <2>3. CASE mode \in {"EVOLUTION", "ROLLING_BACK"}
    <3>1. pc'[w] = "finish" \/ (w \in Startup /\ mode' = "SAFE_MODE")
      BY <1>12, <2>3 DEF Restore, ActsOn
    <3>2. mode' \in {"INFERENCE", "SAFE_MODE"} \/ active_evolution_tasks > 0
      BY <1>12, <2>1, <2>3 DEF Restore, ActsOn, R!Transition
    <3>3. QED
      BY <1>0, <1>12, <2>1, <2>3, <3>1, <3>2 DEF Unrecovered, Restore
  <2>4. CASE mode = "SAFE_MODE"
    BY <1>0, <1>12, <2>1, <2>4 DEF Restore, ActsOn
  <2>5. QED
    BY <2>1, <2>2, <2>3, <2>4
<1>13. QED
  BY <1>0, <1>1, <1>2, <1>3, <1>4, <1>5, <1>6, <1>7, <1>8, <1>9, <1>10, <1>11, <1>12
     DEF Step, Tick, GateClosed, GateOpen, InferenceActive, RunCycle, Finish, StartUp,
         RecoveryAudited, StartDaemon, Enter

(* Together: no step of anyone disturbs the ownership of the night.        *)
LEMMA StepKeepsOwner ==
    ASSUME TypeOK, Places, R!RhythmInv, OneOwner, NEW w \in Runners, Turn(w)
    PROVE  OneOwner'
<1>0. Step(w) /\ (unrecovered \/ Unrecovered(w) => unrecovered')
  BY DEF TypeOK, Turn
<1>1. \A v \in Runners \ {w} : /\ AtNight(v)' <=> AtNight(v)
                              /\ pc'[v] = pc[v] /\ promoted'[v] = promoted[v]
  BY <1>0, StepMovesItself DEF AtNight
<1>2. CASE AtNight(w)
  <2>1. \A v \in Runners : AtNight(v)' => v = w
    BY <1>1, <1>2 DEF OneOwner
  <2>2. AtNight(w)' => OwnsMode(w)'
    BY <1>2, InsideTheNight DEF OneOwner
  <2>3. QED
    BY <2>1, <2>2 DEF OneOwner
<1>3. CASE ~AtNight(w)
  <2>1. ASSUME NEW v \in Runners, AtNight(v)
        PROVE  OwnsMode(v)' /\ ~AtNight(w)'
    <3>1. v # w /\ OwnsMode(v) /\ mode # "INFERENCE"
      BY <1>3, <2>1, NoNightInTheDay DEF OneOwner
    <3>2. CASE mode' = mode /\ ~AtNight(w)'
      BY <1>0, <1>1, <3>1, <3>2 DEF OwnsMode
    <3>3. CASE /\ pc[w] = "recheck" /\ mode = "EVOLUTION" /\ mode' = "SAFE_MODE"
               /\ pc'[w] = "finish"
      <4>1. unrecovered' /\ ~AtNight(w)'
        BY <1>0, <3>3 DEF Unrecovered, AtNight, NightPoints
      <4>2. pc[v] \notin Undisturbed
        BY <3>1, <3>3 DEF OwnsMode, ModesAt, Undisturbed
      <4>3. QED
        BY <1>1, <3>1, <3>3, <4>1, <4>2 DEF OwnsMode
    <3>4. QED
      BY <1>0, <1>3, <3>1, <3>2, <3>3, OutsideTheNight
  <2>2. AtNight(w)' => OwnsMode(w)'
    <3>1. AtNight(w)' => mode' = "CHECKPOINTING" /\ pc'[w] = "checkpoint"
      BY <1>0, <1>3, OutsideTheNight DEF AtNight, NightPoints
    <3>2. QED
      BY <3>1 DEF OwnsMode, ModesAt
  <2>3. QED
    BY <1>1, <2>1, <2>2 DEF OneOwner
<1>4. QED
  BY <1>2, <1>3

(* Whoever leaves the night last has handed the controller back.           *)
LEMMA StepHandsBack ==
    ASSUME TypeOK, Places, R!RhythmInv, OneOwner, HandedBackIfRecovered,
           NEW w \in Runners, Turn(w)
    PROVE  HandedBackIfRecovered'
<1>0. Step(w) /\ (unrecovered \/ Unrecovered(w) => unrecovered')
  BY DEF TypeOK, Turn
<1>1. \A v \in Runners \ {w} : pc'[v] = pc[v]
  BY <1>0, StepMovesItself
<1>2. CASE AtNight(w)
  BY <1>2, InsideTheNight DEF OneOwner, HandedBackIfRecovered, HandedBack, AtNight
<1>3. CASE ~AtNight(w)
  BY <1>0, <1>1, <1>3, OutsideTheNight
     DEF HandedBackIfRecovered, HandedBack, AtNight, NightPoints, Points
<1>4. QED
  BY <1>2, <1>3

(* The lock is taken when run_once starts and released on its every exit.  *)
LEMMA StepKeepsLock ==
    ASSUME TypeOK, Places, LockOfSchedulers, NEW w \in Runners, Step(w)
    PROVE  LockOfSchedulers'
<1>0. SchedulerOf(w) \in Schedulers
  BY DEF SchedulerOf, Schedulers
<1>1. \A v \in Runners \ {w} : pc'[v] = pc[v]
  BY StepMovesItself
<1>2. CASE Tick(w)
  <2>1. /\ w \notin Startup /\ pc'[w] = "gate"
        /\ cycle_lock[SchedulerOf(w)] = None
        /\ cycle_lock' = [cycle_lock EXCEPT ![SchedulerOf(w)] = w]
    BY <1>2 DEF Tick, Goto, TypeOK
  <2>2. QED
    BY <1>0, <1>1, <2>1, NightCycleAssumption
       DEF LockOfSchedulers, LockIsItsRunners, TypeOK, Runners
<1>3. CASE GateClosed(w) \/ InferenceActive(w) \/ Finish(w)
  <2>1. /\ w \notin Startup /\ pc[w] # "off" /\ pc'[w] = "off"
        /\ cycle_lock' = [cycle_lock EXCEPT ![SchedulerOf(w)] = None]
    BY <1>3 DEF GateClosed, InferenceActive, Finish, Release, Goto, TypeOK, Places
  <2>2. cycle_lock[SchedulerOf(w)] = w
    BY <2>1 DEF LockOfSchedulers, LockIsItsRunners, Runners
  <2>3. QED
    BY <1>0, <1>1, <2>1, <2>2, NightCycleAssumption
       DEF LockOfSchedulers, LockIsItsRunners, TypeOK, Runners
<1>4. CASE UNCHANGED cycle_lock /\ pc'[w] # "off" /\ (pc[w] # "off" \/ w \in Startup)
  BY <1>1, <1>4, NightCycleAssumption
     DEF LockOfSchedulers, LockIsItsRunners, TypeOK, Runners
<1>5. QED
  <2> USE DEF Then, Goto, scheduler, TypeOK
  <2>1. CASE GateOpen(w) \/ RunCycle(w) \/ StartUp(w) \/ RecoveryAudited(w) \/ StartDaemon(w)
    BY <2>1, <1>4 DEF GateOpen, RunCycle, StartUp, RecoveryAudited, StartDaemon
  <2>2. CASE Enter(w) \/ Checkpoint(w) \/ Mine(w) \/ OpenSlot(w) \/ Search(w) \/ Recover(w)
    BY <2>2, <1>4 DEF Enter, Checkpoint, Mine, OpenSlot, Search, Recover, AfterCheckpoint
  <2>3. CASE Propose(w) \/ Review(w) \/ Audit(w) \/ Patch(w) \/ Policy(w) \/ Regress(w)
    BY <2>3, <1>4 DEF Propose, Review, Audit, Patch, Policy, Regress
  <2>4. CASE Install(w) \/ Health(w) \/ Rollback(w) \/ Undo(w)
    BY <2>4, <1>4 DEF Install, Health, Rollback, Undo, CandidateLive
  <2>5. CASE Return(w) \/ Reraise(w) \/ CloseSlot(w) \/ Resume(w) \/ Handle(w) \/ Restore(w)
    BY <2>5, <1>4 DEF Return, Reraise, CloseSlot, Resume, Handle, Restore
  <2>6. QED
    BY <1>2, <1>3, <2>1, <2>2, <2>3, <2>4, <2>5 DEF Step

-----------------------------------------------------------------------------
(* No runner leads out of SAFE_MODE.                                       *)
LEMMA SafeModeIsFinal ==
    ASSUME TypeOK, NEW w \in Runners, Step(w), mode = "SAFE_MODE"
    PROVE  mode' = "SAFE_MODE"
<1> USE DEF R!Transition, R!CanMove, R!Allowed, rhythm
<1>1. CASE Tick(w) \/ GateClosed(w) \/ GateOpen(w) \/ InferenceActive(w) \/ RunCycle(w)
           \/ Mine(w) \/ Search(w) \/ Recover(w) \/ Propose(w) \/ Review(w) \/ Audit(w)
           \/ Handle(w) \/ Finish(w) \/ StartUp(w) \/ RecoveryAudited(w) \/ StartDaemon(w)
  BY <1>1 DEF Tick, GateClosed, GateOpen, InferenceActive, RunCycle, Mine, Search,
              Recover, Propose, Review, Audit, Handle, Finish, StartUp,
              RecoveryAudited, StartDaemon
<1>2. CASE Enter(w) \/ Checkpoint(w)
  BY <1>2 DEF Enter, Checkpoint, R!EnterEvolution, R!RejectEvolution,
              R!CheckpointDone, R!CheckpointFailed
<1>3. CASE OpenSlot(w) \/ CloseSlot(w) \/ Resume(w) \/ Return(w) \/ Reraise(w)
  BY <1>3 DEF OpenSlot, CloseSlot, Resume, Return, Reraise, R!BeginTask, R!EndTask,
              R!ResumeInference
<1>4. CASE Patch(w) \/ Policy(w) \/ Regress(w) \/ Install(w) \/ Health(w)
  BY <1>4 DEF Patch, Policy, Regress, Install, Health, Unwind, R!BeginTask
<1>5. CASE Rollback(w) \/ Undo(w) \/ Restore(w)
  BY <1>5 DEF Rollback, Undo, Restore
<1>6. QED
  BY <1>1, <1>2, <1>3, <1>4, <1>5 DEF Step

(* At these points there is only one thing to do.                          *)
LEMMA ActionAt ==
    ASSUME NEW w \in Runners, Step(w)
    PROVE  /\ pc[w] = "install" => Install(w)
           /\ pc[w] = "health" => Health(w)
           /\ pc[w] = "rollback" => Rollback(w)
           /\ pc[w] = "undo" => Undo(w)
           /\ pc[w] = "return" => Return(w)
           /\ pc[w] = "unslot" => CloseSlot(w)
           /\ pc[w] = "resume" => Resume(w)
           /\ pc[w] = "audit" => Audit(w)
           /\ pc[w] = "finish" => Finish(w)
  BY DEF Step, Tick, GateClosed, GateOpen, InferenceActive, RunCycle, Mine, Search, Recover,
         Propose, Review, Audit, Handle, Finish, StartUp, RecoveryAudited, StartDaemon,
         Enter, Checkpoint, OpenSlot, CloseSlot, Resume, Return, Reraise, Patch, Policy,
         Regress, Install, Rollback, Undo, Health, Restore

(* A candidate in the live tree is accounted for by a Self-Harness that    *)
(* will keep or remove it, unless something unforeseen was raised.         *)
Accounts(w) ==
    \/ pc[w] \in {"health", "rollback", "undo", "unslot", "resume", "finish"}
    \/ pc[w] \in {"return", "audit"} /\ promoted[w]

CandidateAccounted ==
    candidate_live /\ ~unrecovered /\ mode # "SAFE_MODE" => \E w \in Harness : Accounts(w)

(* Who puts a candidate into the live tree accounts for it.                *)
LEMMA InstallerAccounts ==
    ASSUME TypeOK, Places, NEW w \in Runners, Step(w), ~candidate_live, candidate_live'
    PROVE  w \in Harness /\ Accounts(w)'
<1>1. pc[w] \in {"install", "rollback", "undo", "finish"}
  BY StepMovesItself
<1>2. pc[w] # "finish"
  BY ActionAt DEF Finish
<1>3. w \in Harness
  BY <1>1, <1>2 DEF Places, Runners
<1>4. Install(w) \/ Rollback(w) \/ Undo(w)
  BY <1>1, <1>2, ActionAt
<1>5. QED
  BY <1>3, <1>4
     DEF Install, Rollback, Undo, CandidateLive, Goto, TypeOK, Accounts, Then, cycle

(* Who accounts for it goes on doing so until it is kept or gone.          *)
LEMMA HolderAccounts ==
    ASSUME TypeOK, NEW w \in Harness, Accounts(w), Turn(w), ~unrecovered'
    PROVE  Accounts(w)' \/ ~candidate_live' \/ mode' = "SAFE_MODE"
<1>0. Step(w) /\ ~Unrecovered(w) /\ w \in Runners
  BY DEF Turn, TypeOK, Runners
<1> USE DEF Accounts, TypeOK, Then, Goto, cycle
<1>1. CASE pc[w] = "health"
  BY <1>0, <1>1, ActionAt DEF Health
<1>2. CASE pc[w] \in {"rollback", "undo"}
  BY <1>0, <1>2, ActionAt DEF Rollback, Undo, CandidateLive, R!Transition
<1>3. CASE pc[w] \in {"unslot", "return"}
  BY <1>0, <1>3, ActionAt DEF CloseSlot, Return
<1>4. CASE pc[w] \in {"resume", "audit"}
  BY <1>0, <1>4, ActionAt, NightCycleAssumption DEF Resume, Audit, Unrecovered
<1>5. CASE pc[w] = "finish"
  BY <1>0, <1>5, ActionAt DEF Finish
<1>6. QED
  BY <1>1, <1>2, <1>3, <1>4, <1>5

LEMMA StepKeepsAccount ==
    ASSUME TypeOK, Places, CandidateAccounted, NEW w \in Runners, Turn(w)
    PROVE  CandidateAccounted'
<1>0. Step(w) /\ (unrecovered => unrecovered')
  BY DEF TypeOK, Turn
<1> SUFFICES ASSUME candidate_live', ~unrecovered', mode' # "SAFE_MODE"
             PROVE  \E v \in Harness : Accounts(v)'
  BY DEF CandidateAccounted
<1>1. CASE ~candidate_live
  BY <1>0, <1>1, InstallerAccounts
<1>2. CASE candidate_live
  <2>1. PICK v \in Harness : Accounts(v)
    BY <1>0, <1>2, SafeModeIsFinal DEF CandidateAccounted
  <2>2. CASE v = w
    BY <2>1, <2>2, HolderAccounts
  <2>3. CASE v # w
    <3>1. pc'[v] = pc[v] /\ promoted'[v] = promoted[v]
      BY <1>0, <2>3, StepMovesItself DEF Runners
    <3>2. QED
      BY <2>1, <3>1 DEF Accounts
  <2>4. QED
    BY <2>2, <2>3
<1>3. QED
  BY <1>1, <1>2

-----------------------------------------------------------------------------
(* The inductive invariant, relative to what Rhythm already guarantees.    *)
NightInv ==
    /\ TypeOK
    /\ Places
    /\ OneOwner
    /\ LockOfSchedulers
    /\ HandedBackIfRecovered
    /\ CandidateAccounted

LEMMA NightInitInv == Init => NightInv
<1> SUFFICES ASSUME Init PROVE NightInv
  OBVIOUS
<1>1. TypeOK
  <2>1. R!TypeOK
    BY DEF Init, R!Init, R!TypeOK, R!Modes
  <2>2. /\ pc \in [Runners -> Points]
        /\ cycle_lock \in [Schedulers -> Runners \cup {None}]
        /\ idle \in [Schedulers -> BOOLEAN]
        /\ drafts \in [Runners -> 0..MaxProposals]
        /\ promoted \in [Runners -> BOOLEAN]
    BY NightCycleAssumption DEF Init, Points
  <2>3. /\ candidate_live \in BOOLEAN /\ daemon_running \in BOOLEAN
        /\ promotion_enabled \in BOOLEAN /\ unrecovered \in BOOLEAN
    BY DEF Init
  <2>4. QED
    BY <2>1, <2>2, <2>3 DEF TypeOK
<1>2. Places /\ OneOwner
  BY DEF Init, Places, OneOwner, AtNight, NightPoints, Runners
<1>3. LockOfSchedulers
  BY NightCycleAssumption DEF Init, LockOfSchedulers, LockIsItsRunners, Runners
<1>4. HandedBackIfRecovered /\ CandidateAccounted
  BY DEF Init, R!Init, HandedBackIfRecovered, HandedBack, CandidateAccounted
<1>5. QED
  BY <1>1, <1>2, <1>3, <1>4 DEF NightInv

(* Requests, tasks of the runtime and time move neither mode nor runner.   *)
LEMMA WorldKeepsNight ==
    ASSUME NightInv, R!TypeOK', World \/ UNCHANGED vars
    PROVE  NightInv'
<1>1. /\ UNCHANGED <<mode, pc, cycle_lock, cycle, daemon_running, promotion_enabled, unrecovered>>
      /\ idle' \in [Schedulers -> BOOLEAN]
  BY DEF World, Request, Consolidate, IdleElapses, NoteActivity, R!BeginRequest,
         R!EndRequest, R!BeginTask, R!EndTask, vars, rhythm, scheduler, NightInv, TypeOK
<1>2. TypeOK'
  BY <1>1 DEF NightInv, TypeOK, cycle
<1>3. Places' /\ OneOwner'
  BY <1>1 DEF NightInv, Places, OneOwner, AtNight, OwnsMode, cycle
<1>4. LockOfSchedulers'
  BY <1>1 DEF NightInv, LockOfSchedulers, LockIsItsRunners
<1>5. HandedBackIfRecovered' /\ CandidateAccounted'
  BY <1>1 DEF NightInv, HandedBackIfRecovered, HandedBack, CandidateAccounted, Accounts, cycle
<1>6. QED
  BY <1>2, <1>3, <1>4, <1>5 DEF NightInv

LEMMA NightStepInv == NightInv /\ R!RhythmInv /\ R!RhythmInv' /\ [Next]_vars => NightInv'
<1> SUFFICES ASSUME NightInv, R!RhythmInv, R!RhythmInv', [Next]_vars
             PROVE  NightInv'
  OBVIOUS
<1>0. R!TypeOK'
  BY DEF R!RhythmInv
<1>1. ASSUME NEW w \in Runners, Turn(w)
      PROVE  NightInv'
  <2>1. Step(w)
    BY <1>1 DEF Turn
  <2>2. QED
    BY <1>0, <1>1, <2>1, StepTypes, StepKeepsPlaces, StepKeepsOwner, StepKeepsLock, StepHandsBack,
       StepKeepsAccount DEF NightInv
<1>2. QED
  BY <1>0, <1>1, WorldKeepsNight DEF Next

(* NightInv holds in every reachable state, together with Rhythm's.        *)
THEOREM NightInvariant == Spec => [](NightInv /\ R!RhythmInv)
  BY NightInitInv, NightStepInv, RhythmHoldsAtNight, PTL DEF Spec

(* The mode at the checkpoint is CHECKPOINTING, where nothing runs.        *)
LEMMA RestAtCheckpoint == NightInv /\ R!RhythmInv => CheckpointAtRest
<1> SUFFICES ASSUME NightInv, R!RhythmInv, NEW w \in Runners, pc[w] = "checkpoint"
             PROVE  requests = {} /\ tasks = {} /\ active_requests = 0
  BY DEF CheckpointAtRest
<1>1. mode = "CHECKPOINTING"
  BY DEF NightInv, OneOwner, AtNight, NightPoints, Points, OwnsMode, ModesAt, Undisturbed
<1>2. requests = {} /\ tasks = {}
  BY <1>1 DEF R!RhythmInv, R!DayNightExclusion, R!NightModes
<1>3. R!Cardinality({}) = 0
  BY FS_EmptySet DEF R!Cardinality, Cardinality
<1>4. QED
  BY <1>2, <1>3 DEF R!RhythmInv, R!CountersExact

(* The night has one owner, its checkpoint is taken at rest, and the cycle *)
(* lock is never left behind.                                              *)
THEOREM NightIsSound == Spec => []NightSound
<1>1. NightInv => NightHasOneOwner
  BY DEF NightInv, OneOwner, NightHasOneOwner, AtNight, OwnsMode
<1>2. NightInv /\ R!RhythmInv => NightSound
  BY <1>1, RestAtCheckpoint DEF NightInv, NightSound, LockOfSchedulers
<1>3. QED
  BY <1>2, NightInvariant, PTL

(* A cycle that is over has handed the controller back, whatever raised,   *)
(* while the database answers and no runtime task interferes.              *)
THEOREM NightIsHandedBack == Spec => []HandedBackIfRecovered
<1>1. NightInv => HandedBackIfRecovered
  BY DEF NightInv
<1>2. QED
  BY <1>1, NightInvariant, PTL

(* An except clause that restores the mode from ROLLING_BACK finds the     *)
(* live tree without a candidate.                                          *)
LEMMA RestoreFindsNoCandidate ==
    ASSUME NightInv, NEW w \in Runners \ Startup, pc[w] = "restore", mode = "ROLLING_BACK",
           ~unrecovered
    PROVE  ~candidate_live
<1>1. w \in Harness /\ AtNight(w)
  BY DEF NightInv, OneOwner, OwnsMode, AtNight, NightPoints, Points
<1>2. \A v \in Harness : ~Accounts(v)
  <2>1. SUFFICES ASSUME NEW v \in Harness, Accounts(v) PROVE FALSE
    OBVIOUS
  <2>2. v # w
    BY <2>1 DEF Accounts
  <2>3. ~AtNight(v)
    BY <1>1, <2>2 DEF NightInv, OneOwner, Runners
  <2>4. pc[v] = "finish"
    BY <2>1, <2>3 DEF Accounts, AtNight, NightPoints, Points
  <2>5. cycle_lock["harness"] = v /\ cycle_lock["harness"] = w
    BY <1>1, <2>4 DEF NightInv, LockOfSchedulers, LockIsItsRunners, SchedulerOf
  <2>6. QED
    BY <2>2, <2>5
<1>3. QED
  BY <1>2 DEF NightInv, CandidateAccounted

(* The other ways out of ROLLING_BACK take the candidate out themselves.   *)
LEMMA OnlyRestoreLeavesRollback ==
    ASSUME NightInv, NEW w \in Runners, Step(w), mode = "ROLLING_BACK",
           mode' \in {"EVOLUTION", "INFERENCE"}
    PROVE  ~candidate_live' \/ (Restore(w) /\ w \notin Startup)
<1>0. pc[w] \notin {"checkpoint", "regress"}
  BY DEF NightInv, OneOwner, AtNight, NightPoints, Points, OwnsMode, ModesAt
<1> USE DEF R!Transition, R!CanMove, R!Allowed, rhythm
<1>1. CASE Tick(w) \/ GateClosed(w) \/ GateOpen(w) \/ InferenceActive(w) \/ RunCycle(w)
           \/ Mine(w) \/ Search(w) \/ Recover(w) \/ Propose(w) \/ Review(w) \/ Audit(w)
           \/ Handle(w) \/ Finish(w) \/ StartUp(w) \/ RecoveryAudited(w) \/ StartDaemon(w)
  BY <1>1 DEF Tick, GateClosed, GateOpen, InferenceActive, RunCycle, Mine, Search,
              Recover, Propose, Review, Audit, Handle, Finish, StartUp,
              RecoveryAudited, StartDaemon
<1>2. CASE Enter(w) \/ Checkpoint(w) \/ Regress(w)
  BY <1>0, <1>2 DEF Enter, Checkpoint, Regress, R!EnterEvolution, R!RejectEvolution
<1>3. CASE OpenSlot(w) \/ CloseSlot(w) \/ Resume(w) \/ Return(w) \/ Reraise(w)
  BY <1>3 DEF OpenSlot, CloseSlot, Resume, Return, Reraise, R!BeginTask, R!EndTask,
              R!ResumeInference
<1>4. CASE Patch(w) \/ Policy(w) \/ Install(w) \/ Health(w)
  BY <1>4 DEF Patch, Policy, Install, Health, Unwind, R!BeginTask
<1>5. CASE Rollback(w) \/ Undo(w)
  BY <1>5 DEF Rollback, Undo, CandidateLive
<1>6. CASE Restore(w)
  BY <1>6 DEF Restore, ActsOn
<1>7. QED
  BY <1>1, <1>2, <1>3, <1>4, <1>5, <1>6 DEF Step

(* ROLLING_BACK is left for normal work only once the candidate is out of  *)
(* the live tree, and SAFE_MODE is final.                                  *)
THEOREM RollbackRestores == Spec => RollbackRestoresIfRecovered
<1>1. ASSUME NightInv, [Next]_vars
      PROVE  [/\ ~unrecovered /\ mode = "ROLLING_BACK" /\ mode' \in {"EVOLUTION", "INFERENCE"}
                   => ~candidate_live'
              /\ mode = "SAFE_MODE" => mode' = "SAFE_MODE"]_vars
  <2>1. CASE \E w \in Runners : Turn(w)
    <3>1. PICK w \in Runners : Turn(w)
      BY <2>1
    <3>2. TypeOK /\ Step(w)
      BY <1>1, <3>1 DEF NightInv, Turn
    <3>3. mode = "SAFE_MODE" => mode' = "SAFE_MODE"
      BY <3>2, SafeModeIsFinal
    <3>4. ASSUME ~unrecovered, mode = "ROLLING_BACK", mode' \in {"EVOLUTION", "INFERENCE"},
                 Restore(w), w \notin Startup
          PROVE  ~candidate_live'
      <4>1. w \in Runners \ Startup /\ UNCHANGED candidate_live /\ pc[w] = "restore"
        BY <1>1, <3>4 DEF Restore, Then, cycle, NightInv, Places, Runners, ActsOn
      <4>2. QED
        BY <1>1, <3>4, <4>1, RestoreFindsNoCandidate
    <3>5. QED
      BY <1>1, <3>2, <3>3, <3>4, OnlyRestoreLeavesRollback
  <2>2. CASE World \/ UNCHANGED vars
    <3>1. mode' = mode
      BY <2>2 DEF World, Request, Consolidate, IdleElapses, NoteActivity, R!BeginRequest,
         R!EndRequest, R!BeginTask, R!EndTask, vars, rhythm
    <3>2. QED
      BY <3>1
  <2>3. QED
    BY <1>1, <2>1, <2>2 DEF Next
<1>2. QED
  BY <1>1, NightInvariant, PTL DEF Spec, RollbackRestoresIfRecovered
=============================================================================
