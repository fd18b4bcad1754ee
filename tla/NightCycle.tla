----------------------------- MODULE NightCycle -----------------------------
(***************************************************************************)
(* The night path on one RhythmController: the idle scheduler, the         *)
(* Self-Harness cycle with its journaled patcher, the workflow search, the *)
(* journal recovery at start-up, inference requests and the runtime's own  *)
(* evolution tasks, each on threads of their own.                          *)
(*                                                                         *)
(* A runner's pc names the point its thread has reached; one step goes     *)
(* from one point where another thread can interfere to the next: a        *)
(* critical section of the controller, a call that may raise, the          *)
(* scheduler's reads.  Faults says which calls may raise.  What the        *)
(* journal does to the files is PromotionJournal's subject; here a         *)
(* promotion only leaves its candidate in the live tree or not.            *)
(***************************************************************************)
EXTENDS Naturals, FiniteSets

CONSTANTS Requests,         \* inference_slot activations
          Consolidations,   \* evolution_slot activations of the runtime itself
          Harness,          \* threads ticking the Self-Harness scheduler
          Workflow,         \* threads ticking the workflow-search scheduler
          Startup,          \* threads running ProductionSelfHarness.start
          MaxProposals,     \* bound: proposals of one cycle
          Faults,           \* the calls that may raise
          None

Runners == Harness \cup Workflow \cup Startup
FaultKinds == {"checkpoint", "query", "propose", "policy", "sandbox", "journal",
               "rollback", "undo", "audit", "search", "recovery"}

ASSUME NightCycleAssumption ==
    /\ IsFiniteSet(Requests \cup Consolidations \cup Runners)
    /\ MaxProposals \in Nat
    /\ Faults \subseteq FaultKinds
    /\ None \notin Runners
    /\ Harness \cap Workflow = {} /\ Startup \cap (Harness \cup Workflow) = {}

VARIABLES mode, active_requests, active_evolution_tasks,
          requests, tasks, checkpointing,
          pc,               \* where each runner is
          cycle_lock,       \* the holder of each scheduler's cycle lock
          idle,             \* has the scheduler's idle window elapsed?
          drafts,           \* proposals the runner has drawn this cycle
          promoted,         \* the runner's patcher reported a promotion
          candidate_live,   \* a candidate of the current cycle is in the live tree
          daemon_running,   \* ProductionSelfHarness.start has completed
          promotion_enabled,    \* attested promotion, or proposal-only
          unrecovered       \* something was raised that no except clause expects

R == INSTANCE Rhythm
     WITH Tasks <- Consolidations \cup (Runners \X {"cycle", "patch"}),
          Callers <- Runners

rhythm == <<mode, active_requests, active_evolution_tasks,
            requests, tasks, checkpointing>>
scheduler == <<cycle_lock, idle>>
cycle == <<drafts, promoted, candidate_live>>
vars == <<rhythm, pc, scheduler, cycle, daemon_running, promotion_enabled, unrecovered>>

Schedulers == {"harness", "workflow"}
SchedulerOf(w) == IF w \in Harness THEN "harness" ELSE "workflow"
MayRaise(call) == call \in Faults
Goto(w, point) == pc' = [pc EXCEPT ![w] = point]

Init ==
    /\ R!Init
    /\ pc = [w \in Runners |-> "off"]
    /\ cycle_lock = [s \in Schedulers |-> None]
    /\ idle = [s \in Schedulers |-> FALSE]
    /\ drafts = [w \in Runners |-> 0]
    /\ promoted = [w \in Runners |-> FALSE]
    /\ candidate_live = FALSE
    /\ daemon_running = (Startup = {})
    /\ promotion_enabled \in BOOLEAN
    /\ unrecovered = FALSE

-----------------------------------------------------------------------------
(* The environment: requests, the runtime's own tasks, and time.           *)

Request(r) ==
    /\ R!BeginRequest(r) \/ R!EndRequest(r)
    /\ UNCHANGED <<pc, scheduler, cycle, daemon_running>>

Consolidate(t) ==
    /\ R!BeginTask(t) \/ R!EndTask(t)
    /\ UNCHANGED <<pc, scheduler, cycle, daemon_running>>

IdleElapses(s) ==
    /\ ~idle[s]
    /\ idle' = [idle EXCEPT ![s] = TRUE]
    /\ UNCHANGED <<rhythm, pc, cycle_lock, cycle, daemon_running>>

(* note_activity, called around an observed workflow, or a clock going     *)
(* back.                                                                   *)
NoteActivity(s) ==
    /\ idle[s]
    /\ idle' = [idle EXCEPT ![s] = FALSE]
    /\ UNCHANGED <<rhythm, pc, cycle_lock, cycle, daemon_running>>

-----------------------------------------------------------------------------
(* IdleNightScheduler.run_once                                             *)

(* A tick that finds no idle window or a taken lock returns unchanged.     *)
Tick(w) ==
    LET s == SchedulerOf(w) IN
    /\ pc[w] = "off"
    /\ w \notin Startup
    /\ w \in Harness => daemon_running
    /\ idle[s]
    /\ cycle_lock[s] = None
    /\ cycle_lock' = [cycle_lock EXCEPT ![s] = w]
    /\ Goto(w, "gate")
    /\ UNCHANGED <<rhythm, idle, cycle, daemon_running>>

Release(w) == cycle_lock' = [cycle_lock EXCEPT ![SchedulerOf(w)] = None]

(* NOT_IDLE or MODE_BLOCKED. *)
GateClosed(w) ==
    /\ pc[w] = "gate"
    /\ ~idle[SchedulerOf(w)] \/ mode # "INFERENCE"
    /\ Release(w)
    /\ Goto(w, "off")
    /\ UNCHANGED <<rhythm, idle, cycle, daemon_running>>

GateOpen(w) ==
    /\ pc[w] = "gate"
    /\ idle[SchedulerOf(w)]
    /\ mode = "INFERENCE"
    /\ Goto(w, "peek")
    /\ UNCHANGED <<rhythm, scheduler, cycle, daemon_running>>

(* Seeded bug: the early return forgets the cycle lock. *)
InferenceActive_KeepsLock(w) ==
    /\ pc[w] = "peek"
    /\ active_requests > 0
    /\ idle' = [idle EXCEPT ![SchedulerOf(w)] = FALSE]
    /\ Goto(w, "off")
    /\ UNCHANGED <<rhythm, cycle_lock, cycle, daemon_running>>

InferenceActive(w) ==
    /\ pc[w] = "peek"
    /\ active_requests > 0
    /\ idle' = [idle EXCEPT ![SchedulerOf(w)] = FALSE]
    /\ Release(w)
    /\ Goto(w, "off")
    /\ UNCHANGED <<rhythm, cycle, daemon_running>>

RunCycle(w) ==
    /\ pc[w] = "peek"
    /\ active_requests = 0
    /\ Goto(w, "enter")
    /\ UNCHANGED <<rhythm, scheduler, cycle, daemon_running>>

(* The finally of run_once, whether the cycle returned or raised. *)
Finish(w) ==
    /\ pc[w] = "finish"
    /\ w \notin Startup
    /\ idle' = [idle EXCEPT ![SchedulerOf(w)] = FALSE]
    /\ Release(w)
    /\ drafts' = [drafts EXCEPT ![w] = 0]
    /\ promoted' = [promoted EXCEPT ![w] = FALSE]
    /\ candidate_live' = IF w \in Harness THEN FALSE ELSE candidate_live
    /\ Goto(w, "off")
    /\ UNCHANGED <<rhythm, daemon_running>>

-----------------------------------------------------------------------------
(* Entering the night, shared by SelfHarness.run_night_cycle,              *)
(* WorkflowEvolutionCoordinator.run and ProductionSelfHarness.start.       *)

(* What the runner does first once the mode is EVOLUTION. *)
AfterCheckpoint(w) == IF w \in Harness THEN "mine" ELSE "slot"

Then(w, point) ==
    /\ Goto(w, point)
    /\ UNCHANGED <<scheduler, cycle, daemon_running>>

Enter(w) ==
    /\ pc[w] = "enter"
    /\ \/ R!EnterEvolution(w) /\ Then(w, "checkpoint")
       \/ R!RejectEvolution(w) /\ Then(w, "finish")
       \/ ~R!CanMove(mode, "DRAINING") /\ UNCHANGED rhythm /\ Then(w, "finish")

(* Seeded bug: a failed checkpoint raises without rolling the mode back. *)
Checkpoint_NoRollback(w) ==
    /\ pc[w] = "checkpoint"
    /\ \/ R!CheckpointDone(w) /\ Then(w, AfterCheckpoint(w))
       \/ MayRaise("checkpoint") /\ R!CheckpointAborted(w) /\ Then(w, "finish")

Checkpoint(w) ==
    /\ pc[w] = "checkpoint"
    /\ \/ R!CheckpointDone(w) /\ Then(w, AfterCheckpoint(w))
       \/ MayRaise("checkpoint") /\ R!CheckpointFailed(w) /\ Then(w, "finish")

(* failures_since and mine_weaknesses run after enter_evolution and before *)
(* the try statement: an exception leaves run_night_cycle from here.       *)
Mine(w) ==
    /\ pc[w] = "mine"
    /\ Then(w, "slot") \/ (MayRaise("query") /\ Then(w, "finish"))
    /\ UNCHANGED rhythm

(* The slot is refused when another thread has meanwhile moved the mode.   *)
OpenSlot(w) ==
    /\ pc[w] = "slot"
    /\ \/ /\ R!BeginTask(<<w, "cycle">>)
          /\ Then(w, IF w \in Harness THEN "propose"
                     ELSE IF w \in Workflow THEN "search" ELSE "recover")
       \/ mode \notin R!NightModes /\ UNCHANGED rhythm /\ Then(w, "handle")

(* The optimizer's search, then its audit record. *)
Search(w) ==
    /\ pc[w] = "search"
    /\ Then(w, "audit") \/ (MayRaise("search") /\ Then(w, "raise"))
    /\ UNCHANGED rhythm

Recover(w) ==
    /\ pc[w] = "recover"
    /\ Then(w, "unslot") \/ (MayRaise("recovery") /\ Then(w, "raise"))
    /\ UNCHANGED rhythm

-----------------------------------------------------------------------------
(* SelfHarness.run_night_cycle, the loop over proposals                    *)

Propose(w) ==
    /\ pc[w] = "propose"
    /\ \/ /\ drafts[w] < MaxProposals
          /\ drafts' = [drafts EXCEPT ![w] = @ + 1]
          /\ Goto(w, IF promotion_enabled THEN "patch" ELSE "review")
          /\ UNCHANGED <<scheduler, promoted, candidate_live, daemon_running>>
       \/ Then(w, "unslot")
       \/ MayRaise("propose") /\ Then(w, "raise")
    /\ UNCHANGED rhythm

(* Proposal-only: the static checks and an audit record, no execution. *)
Review(w) ==
    /\ pc[w] = "review"
    /\ Then(w, "audit") \/ (MayRaise("policy") /\ Then(w, "raise"))
    /\ UNCHANGED rhythm

Audit(w) ==
    /\ pc[w] = "audit"
    /\ \/ Then(w, IF w \in Workflow \/ promoted[w] THEN "unslot" ELSE "propose")
       \/ MayRaise("audit") /\ Then(w, "raise")
    /\ UNCHANGED rhythm

-----------------------------------------------------------------------------
(* JournaledHarnessPatcher.validate_and_promote                            *)

Patch(w) ==
    /\ pc[w] = "patch"
    /\ \/ mode = "EVOLUTION" /\ R!BeginTask(<<w, "patch">>) /\ Then(w, "policy")
       \/ mode # "EVOLUTION" /\ UNCHANGED rhythm /\ Then(w, "raise")

Policy(w) ==
    /\ pc[w] = "policy"
    /\ \/ R!Transition("VALIDATING") /\ Then(w, "regress")
       \/ /\ MayRaise("policy") \/ mode # "EVOLUTION"
          /\ UNCHANGED rhythm
          /\ Then(w, "reraise")

(* The candidate's tests pass, fail, or cannot be run. *)
Regress(w) ==
    /\ pc[w] = "regress"
    /\ \/ R!Transition("PROMOTING") /\ Then(w, "install")
       \/ R!Transition("EVOLUTION") /\ Then(w, "return")
       \/ MayRaise("sandbox") /\ UNCHANGED rhythm /\ Then(w, "reraise")

(* The start of _rollback_after_exception. *)
Unwind == IF mode \in {"PROMOTING", "VALIDATING"} THEN R!Transition("ROLLING_BACK")
          ELSE UNCHANGED rhythm

CandidateLive(live) ==
    /\ candidate_live' = live
    /\ UNCHANGED <<scheduler, drafts, promoted, daemon_running>>

(* Journal, recheck the base, replace the file, verify: the exception may  *)
(* come before or after the replacement.                                   *)
Install(w) ==
    /\ pc[w] = "install"
    /\ \/ UNCHANGED rhythm /\ CandidateLive(TRUE) /\ Goto(w, "health")
       \/ /\ MayRaise("journal")
          /\ Unwind
          /\ \E live \in BOOLEAN : CandidateLive(live)
          /\ Goto(w, "undo")

(* The health check and the commit mark. *)
Health(w) ==
    /\ pc[w] = "health"
    /\ \/ /\ promoted' = [promoted EXCEPT ![w] = TRUE]
          /\ Goto(w, "return")
          /\ UNCHANGED <<rhythm, scheduler, drafts, candidate_live, daemon_running>>
       \/ R!Transition("ROLLING_BACK") /\ Then(w, "rollback")
       \/ MayRaise("sandbox") /\ Unwind /\ Then(w, "undo")

Rollback(w) ==
    /\ pc[w] = "rollback"
    /\ \/ R!Transition("EVOLUTION") /\ CandidateLive(FALSE) /\ Goto(w, "return")
       \/ /\ MayRaise("rollback")
          /\ UNCHANGED rhythm
          /\ \E live \in BOOLEAN : CandidateLive(live)
          /\ Goto(w, "undo")

(* Seeded bug: the except clause forgets to restore the file. *)
Undo_LeavesFile(w) ==
    /\ pc[w] = "undo"
    /\ R!Transition("EVOLUTION")
    /\ Then(w, "reraise")

(* _rollback_after_exception: restore the file, or give up in SAFE_MODE. *)
Undo(w) ==
    /\ pc[w] = "undo"
    /\ \/ R!Transition("EVOLUTION") /\ CandidateLive(FALSE)
       \/ /\ MayRaise("undo")
          /\ R!Transition("SAFE_MODE")
          /\ UNCHANGED <<scheduler, cycle, daemon_running>>
    /\ Goto(w, "reraise")

(* Leaving the patcher's slot, with a result or with an exception. *)
Return(w) ==
    /\ pc[w] = "return"
    /\ R!EndTask(<<w, "patch">>)
    /\ Then(w, "audit")

Reraise(w) ==
    /\ pc[w] = "reraise"
    /\ R!EndTask(<<w, "patch">>)
    /\ Then(w, "raise")

-----------------------------------------------------------------------------
(* Leaving the night.                                                      *)

CloseSlot(w) ==
    /\ pc[w] \in {"unslot", "raise"}
    /\ R!EndTask(<<w, "cycle">>)
    /\ Then(w, IF pc[w] = "unslot" THEN "resume" ELSE "handle")

(* Seeded bug: the mode is assigned, not asked for. *)
Resume_Assigns(w) ==
    /\ pc[w] = "resume"
    /\ mode' = "INFERENCE"
    /\ UNCHANGED <<active_requests, active_evolution_tasks, requests, tasks,
                   checkpointing>>
    /\ Then(w, IF w \in Startup THEN "ready" ELSE "finish")

(* Refused while a task of the runtime is still running. *)
Resume(w) ==
    /\ pc[w] = "resume"
    /\ \/ R!ResumeInference /\ Then(w, IF w \in Startup THEN "ready" ELSE "finish")
       \/ /\ mode \notin {"EVOLUTION", "PROMOTING"} \/ active_evolution_tasks > 0
          /\ UNCHANGED rhythm
          /\ Then(w, "handle")

(* The except clause of run_night_cycle audits before it restores the      *)
(* mode; the other two restore the mode at once.                           *)
Handle(w) ==
    /\ pc[w] = "handle"
    /\ \/ Then(w, "restore")
       \/ w \in Harness /\ MayRaise("audit") /\ Then(w, "finish")
    /\ UNCHANGED rhythm

(* Seeded bug: an exception of the regression sandbox is not foreseen. *)
ActsOn_NotValidating(w) ==
    IF w \in Harness THEN {"PROMOTING", "EVOLUTION", "ROLLING_BACK"} ELSE {"EVOLUTION"}

(* The modes an except clause acts on.  It looks at the mode, not at who   *)
(* entered it.                                                             *)
ActsOn(w) == IF w \in Harness
             THEN {"VALIDATING", "PROMOTING", "EVOLUTION", "ROLLING_BACK"}
             ELSE {"EVOLUTION"}

Restore(w) ==
    /\ pc[w] \in {"restore", "recheck"}
    /\ \/ /\ mode \in ActsOn(w) \cap {"VALIDATING", "PROMOTING"}
          /\ R!Transition("ROLLING_BACK")
          /\ Then(w, "restore")
       \/ /\ mode \in ActsOn(w) \cap {"EVOLUTION", "ROLLING_BACK"}
          /\ w \notin Startup
          /\ R!Transition("INFERENCE")
          /\ Then(w, "finish")
       \/ /\ mode \in ActsOn(w) \cap {"EVOLUTION", "ROLLING_BACK"}
          /\ w \notin Startup
          /\ active_evolution_tasks > 0        \* refused: raises once more
          /\ UNCHANGED rhythm
          /\ Then(w, "finish")
       \/ /\ mode \in ActsOn(w)
          /\ w \in Startup
          /\ R!Transition("SAFE_MODE")
          /\ Then(w, "finish")
       \/ /\ mode \notin ActsOn(w)
          /\ UNCHANGED rhythm
          /\ Then(w, "finish")

-----------------------------------------------------------------------------
(* ProductionSelfHarness.start; at "finish" the start has raised.  Its     *)
(* except clause also covers the audit that follows resume_inference       *)
(* ("recheck"), when the night is no longer its own.                       *)

(* With a prepared record in the journal, or without. *)
StartUp(w) ==
    /\ w \in Startup
    /\ pc[w] = "off"
    /\ Then(w, "enter") \/ Then(w, "daemon")
    /\ UNCHANGED rhythm

RecoveryAudited(w) ==
    /\ pc[w] = "ready"
    /\ Then(w, "daemon") \/ (MayRaise("audit") /\ Then(w, "recheck"))
    /\ UNCHANGED rhythm

StartDaemon(w) ==
    /\ pc[w] = "daemon"
    /\ daemon_running' = TRUE
    /\ idle' = [idle EXCEPT !["harness"] = FALSE]
    /\ Goto(w, "started")
    /\ UNCHANGED <<rhythm, cycle_lock, cycle>>

-----------------------------------------------------------------------------
Step(w) ==
    \/ Tick(w)       \/ GateClosed(w) \/ GateOpen(w)
    \/ InferenceActive(w)             \/ RunCycle(w)
    \/ Enter(w)      \/ Checkpoint(w) \/ Mine(w)     \/ OpenSlot(w)
    \/ Search(w)     \/ Recover(w)    \/ Propose(w)  \/ Review(w)
    \/ Audit(w)      \/ Patch(w)      \/ Policy(w)   \/ Regress(w)
    \/ Install(w)    \/ Health(w)     \/ Rollback(w) \/ Undo(w)
    \/ Return(w)     \/ Reraise(w)    \/ CloseSlot(w)
    \/ Resume(w)     \/ Handle(w)     \/ Restore(w)  \/ Finish(w)
    \/ StartUp(w)    \/ RecoveryAudited(w)           \/ StartDaemon(w)

(* What the except clauses do not recover from: an exception of the        *)
(* database, a night that is not over because a task of the runtime        *)
(* outlives it, and a start that puts somebody else's night in SAFE_MODE.  *)
Unrecovered(w) ==
    \/ pc[w] = "mine" /\ pc'[w] = "finish"
    \/ pc[w] = "audit" /\ pc'[w] = "raise"
    \/ pc[w] = "handle" /\ pc'[w] = "finish"
    \/ pc[w] = "resume" /\ pc'[w] = "handle"
    \/ pc[w] = "restore" /\ pc'[w] = "finish" /\ active_evolution_tasks > 0
    \/ pc[w] = "recheck" /\ mode' # mode

Turn(w) ==
    /\ Step(w)
    /\ unrecovered' = (unrecovered \/ Unrecovered(w))
    /\ UNCHANGED promotion_enabled

World ==
    /\ \/ \E r \in Requests : Request(r)
       \/ \E t \in Consolidations : Consolidate(t)
       \/ \E s \in Schedulers : IdleElapses(s) \/ NoteActivity(s)
    /\ UNCHANGED <<promotion_enabled, unrecovered>>

Next ==
    \/ \E w \in Runners : Turn(w)
    \/ World

Spec == Init /\ [][Next]_vars

(* A runner that has begun a cycle keeps running: the checkpoint, the      *)
(* model, the sandbox and the database all answer or time out.  Nothing    *)
(* obliges anyone to tick, nor a request or a task of the runtime to end.  *)
Running(w) == pc[w] # "off" /\ Turn(w)
FairSpec == Spec /\ \A w \in Runners : WF_vars(Running(w))

-----------------------------------------------------------------------------
Points == {"off", "gate", "peek", "enter", "checkpoint", "mine", "slot", "search",
           "recover", "propose", "review", "audit", "patch", "policy", "regress",
           "install", "health", "rollback", "undo", "return", "reraise", "unslot",
           "raise", "resume", "handle", "restore", "finish", "ready",
           "recheck", "daemon", "started"}

(* Every variable has its type. *)
TypeOK ==
    /\ R!TypeOK
    /\ pc \in [Runners -> Points]
    /\ cycle_lock \in [Schedulers -> Runners \cup {None}]
    /\ idle \in [Schedulers -> BOOLEAN]
    /\ drafts \in [Runners -> 0..MaxProposals]
    /\ promoted \in [Runners -> BOOLEAN]
    /\ candidate_live \in BOOLEAN
    /\ daemon_running \in BOOLEAN
    /\ promotion_enabled \in BOOLEAN
    /\ unrecovered \in BOOLEAN

(* Points of the night and the modes they may be reached in. *)
NightPoints == Points \ {"off", "gate", "peek", "enter", "finish", "ready",
                         "recheck", "daemon", "started"}
ModesAt(point) ==
    CASE point = "checkpoint" -> {"CHECKPOINTING"}
      [] point = "regress" -> {"VALIDATING"}
      [] point \in {"install", "health"} -> {"PROMOTING"}
      [] point \in {"rollback", "undo"} -> {"ROLLING_BACK"}
      [] point \in {"return", "audit", "unslot", "resume"} -> {"EVOLUTION", "PROMOTING"}
      [] point = "reraise" -> {"EVOLUTION", "VALIDATING", "SAFE_MODE"}
      [] point \in {"raise", "handle"} ->
            {"EVOLUTION", "VALIDATING", "PROMOTING", "SAFE_MODE"}
      [] point = "restore" -> R!NightModes \cup {"ROLLING_BACK", "SAFE_MODE"}
      [] OTHER -> {"EVOLUTION"}

(* The night has one owner, whose position and the mode agree: two         *)
(* schedulers and the start-up recovery may race for the same controller,  *)
(* but only the thread whose enter_evolution succeeded acts on the night   *)
(* modes, and no mode it depends on is changed under its feet, except for  *)
(* a start that fails after its own night and stops whoever's is running.  *)
NightHasOneOwner ==
    \A w \in Runners : pc[w] \in NightPoints =>
        /\ mode \in ModesAt(pc[w]) \/ (unrecovered /\ mode = "SAFE_MODE")
        /\ \A v \in Runners \ {w} : pc[v] \notin NightPoints

(* The state that is checkpointed is at rest: no request and no evolution  *)
(* task runs while the checkpoint callback does.                           *)
CheckpointAtRest ==
    (\E w \in Runners : pc[w] = "checkpoint") =>
        requests = {} /\ tasks = {} /\ active_requests = 0

(* These callers use the controller only through its methods: every step   *)
(* is one that Rhythm allows, so what RhythmProofs shows of Rhythm holds   *)
(* of the night path.                                                      *)
ImplementsRhythm == R!Spec

(* A cycle that is over has handed the controller back: with no runner in  *)
(* the night, the mode is INFERENCE again, or SAFE_MODE.                   *)
HandedBack ==
    (\A w \in Runners : pc[w] \notin NightPoints) => mode \in {"INFERENCE", "SAFE_MODE"}

(* ... at least while the database answers and no runtime task interferes. *)
HandedBackIfRecovered == ~unrecovered => HandedBack

(* ROLLING_BACK is left for normal work only once the candidate is out of  *)
(* the live tree, at least while the database answers; and failing closed  *)
(* is final: no caller ever leads out of SAFE_MODE.                        *)
RollbackRestoresIfRecovered ==
    [][/\ ~unrecovered /\ mode = "ROLLING_BACK" /\ mode' \in {"EVOLUTION", "INFERENCE"}
            => ~candidate_live'
       /\ mode = "SAFE_MODE" => mode' = "SAFE_MODE"]_vars

(* Whatever raises, the scheduler's lock is held exactly while its runner  *)
(* is inside run_once, so that another tick can run a cycle.               *)
LockIsItsRunners ==
    /\ \A s \in Schedulers : cycle_lock[s] # None =>
           pc[cycle_lock[s]] # "off" /\ SchedulerOf(cycle_lock[s]) = s
    /\ \A w \in Harness \cup Workflow : pc[w] # "off" => cycle_lock[SchedulerOf(w)] = w

(* scheduler.py run_once, cycle.py run_night_cycle and orchestrator.py run *)
(* on one controller: who owns the night, that what is checkpointed is at  *)
(* rest, and that the cycle lock is never left behind.                     *)
NightSound == TypeOK /\ NightHasOneOwner /\ CheckpointAtRest /\ LockIsItsRunners

(* Every night ends: inference is admitted again, or the system has        *)
(* stopped in SAFE_MODE, or something has happened that is not recovered.  *)
NightEnds == mode # "INFERENCE" ~> mode \in {"INFERENCE", "SAFE_MODE"} \/ unrecovered
=============================================================================
