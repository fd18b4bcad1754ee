# Cogni-OS 2.0 in TLA+

This directory holds a formal model of the parts of Cogni-OS in which several
threads, a crash or a failing call decide whether the system is correct: the
day/night controller and the night cycle, the promotion journal, the failure
capture, the arbitration of the one local compute slot, the three worker processes
(validation child, chat model, tensor worker), the chat turn with its
conversation, the runtime with its sessions, experts, domains and checkpoints,
the two bounded searches, and the launcher's session document.  TLC checks each
module on a small instance; TLAPS proves the safety of the controller and of the
night, of the journal, of the arbitration, of the validation child, of the tensor
service, of the runtime and of the launcher for every instance.
Paths are relative to the repository root (`cogni_flow/rhythm.py`).

## 1. Inventory

### 1.1 Components, their state and their operations

| Component | Code | State | Operations |
|---|---|---|---|
| RhythmController | `cogni_flow/rhythm.py` | mode, request and task counters, a reentrant lock | `transition`, `inference_slot`, `evolution_slot`, `enter_evolution`, `resume_inference` |
| SelfHarness cycle | `cogni_flow/cycle.py` | none of its own: the controller's mode, the patcher's files | `run_night_cycle` |
| Workflow search | `cogni_flow/orchestrator.py`, `aflow.py` | a bounded tree of evaluated workflows | `run`, `search` |
| IdleNightScheduler | `cogni_flow/scheduler.py` | idle window, a non-blocking cycle lock | `note_activity`, `run_once` |
| JournaledHarnessPatcher, BackupJournal | `cogni_flow/production.py` | metadata and backup files, the live source files | `validate_and_promote`, `prepare`, `mark`, `rollback`, `recover_incomplete` |
| ProductionSelfHarness | `cogni_flow/production.py` | the failure cursor, the daemon, the scheduler | `start`, `tick`, `_run_cycle`, `close` |
| FailureCaptureDaemon | `cogni_flow/daemon.py` | bounded queue, writer thread, error flag, counters | `start`, `stop`, `submit`, `flush`, `_writer_loop` |
| LogDB, BoundedLogDB | `cogni_flow/logdb.py`, `production.py` | failures and audit tables | `record_failure`, `failures_since`, `audit` |
| DemoHTTPServer | `cogni_demo/server.py` | the compute lock, the shutdown flag | `start_validation`, `start_agent_turn`, `start_evolution`, `request_shutdown`, `shutdown_components` |
| JobManager | `cogni_demo/server.py` | job status, the child process, a protocol queue | `start`, `cancel`, `shutdown`, `_run_job` |
| EvolutionController | `cogni_demo/server.py` | run status and its thread | `start`, `snapshot`, `shutdown`, `_run` |
| AgentManager, ConversationStore | `cogni_agent/manager.py`, `conversation.py` | turn status, cancel event, sessions | `start_turn`, `cancel`, `reset`, `stop_model`, `_run_turn`; `begin_user_turn`, `commit`, `abort` |
| ModelService | `cogni_agent/model_service.py` | worker process, request and result queues, request lock | `start`, `iter_generate_tokens`, `cancel`, `stop` |
| TensorService | `cogni_os/tensor_service.py` | worker process, two bounded queues, slots, two locks | `start`, `submit`, `infer`, `receive`, `pause`, `resume`, `stop`, `restart` |
| GenesisRuntime | `cogni_os/runtime.py`, `resources.py` | the VRAM guard's lock, the session lock, the stream state | `infer`, `compile_fast_weight_session`, `adapt_stream`, `expert_step`, `recruit_expert`, `consolidate_domain`, `checkpoint`, `restore_checkpoint` |
| Session overlays | `cogni_core/adaptation.py`, `routing.py`, `fast_weights.py`, `fp_ewc.py` | LRU cache with byte budget, active session, forward hooks, router | `admit`, `activate`, `discard`, `calibrate`, `route`, `optimizer_step` |
| Experts, swarm, domains | `cogni_core/experts.py`, `swarm.py`, `adaptation.py` | preallocated pool, stream state, FP-EWC snapshots and domain records | `route`, `recruit_`, `maintain_`, `consolidate` |
| Latent-state search | `cogni_core/search.py` | node arena, edge statistics, ring of ancestor handles | `search`, `add_children`, `retrieve` |
| AFlow search | `cogni_flow/aflow.py` | archive, credit, promotions | `search`, `validate` |
| Launcher | `cogni_demo/server.py` (`main`) | session document, port | `find_live_session`, `write_session_metadata`, `remove_session_metadata`, `main` |
| Cogni-Core numerics | `cogni_core/backbone.py`, `deq.py`, `meta_router.py`, `cts.py` | numerical | |

### 1.2 How they interact

- Every inference runs inside `RhythmController.inference_slot()`, every piece of
  evolution inside `evolution_slot()`; the schedulers and the start-up recovery
  call `enter_evolution`, the two cycles lead back with `resume_inference`.
- A `SelfHarness` cycle reads failures from the database, asks a model for
  proposals, and hands each to the patcher.  The default patcher audits a
  proposal and does nothing else; an attested one drives the controller through
  VALIDATING, PROMOTING and ROLLING_BACK while it writes the journal and the live
  files.
- Requests report failures to the daemon, whose writer thread fills the database
  that the next cycle queries from a cursor in time.
- HTTP worker threads start validations (a child process), chat turns and
  evolution cycles.  `DemoHTTPServer` serializes the starts with its compute lock
  and asks each manager whether it is active, under that manager's condition.
- The agent's turns and the evolution cycles generate with one `ModelService`, a
  worker process behind two queues.
- The runtime's day operations run in an inference slot, its night operations in
  an evolution slot, and both under the lock of the VRAM guard; a session's
  overlay is a set of forward hooks on modules that all callers share.  The
  checkpoint of a night is taken by the callback of `enter_evolution`.
- Instances of the product meet at a fixed port and a document on disk.

### 1.3 What is hard, and what makes each part correct

| Component | Hard behaviour | What correct means |
|---|---|---|
| RhythmController | any interleaving of its methods; the checkpoint callback runs outside the lock | day and night never overlap; the counters are exact |
| Night cycle | exceptions at every call, two schedulers and a recovery on one controller | one owner of the night; it is always handed back; failing closed is final |
| Journal | crashes between writes, failing writes, edits by others, a full journal | a promotion is atomic and its answer true; unknown contents survive; a start is never refused by a crash |
| Failure capture | start, stop and flush racing the writer; a full queue; a failing database | no accepted failure is lost in silence; stop and flush tell the truth |
| Compute arbitration | lock order of four locks, stale reads of activity | one compute mode at a time; no deadlock |
| JobManager | cancel, deadline, shutdown and the child's own end race for the verdict; messages may be dropped | success only with complete evidence; a child belongs to the active job; every job ends |
| AgentManager | cancel against the turn's own progress; a store that forgets | the verdict is true; the session is one of whole exchanges |
| ModelService, TensorService | stop and cancel during a request; late replies; full queues | a reply reaches the request it answers or nobody; slots come back; a pause holds |
| Runtime, sessions | hooks are global; eviction under an active session; the core is trained between admission and use | a solve runs under its own overlay; bounds hold; the composed norm stays below the margin |
| Experts, domains, checkpoints | a full pool or budget in the middle of a step; a crash between file and digest; a restore across the end of a night | counters exact; nothing released under a running step; what a night saves is at rest |
| Searches | the arena and the ring are full; sums overflow | statistics are those of the simulations run; lineage is true; the search returns |
| Launcher | races for port and document | the document names a server; nobody's live document is removed by one who has read it |

`PROJECT.json` lists every hazard with its line and the properties that watch it.

## 2. Modules

| Module | Models | Composes |
|---|---|---|
| `DayNight` | abstract: a gate that admits day work or night work | |
| `Rhythm` | `RhythmController` | implements `DayNight` |
| `NightCycle` | scheduler, harness cycle, workflow search, the patcher's modes, start-up recovery | instantiates `Rhythm`, implements it |
| `AtomicStore` | abstract: files changed entirely or not at all, with true answers | |
| `PromotionJournal` | `BackupJournal` and the file operations of the patcher | implements `AtomicStore` |
| `FailureCapture` | the daemon, the failures table, the cursor of `_run_cycle` | |
| `ComputeOwner` | the compute lock, the managers' conditions and activity | |
| `ModelService` | the service's calls, its worker process, the queues between them | |
| `Dialogue` | abstract: a conversation of complete exchanges, oldest forgotten first | |
| `AgentTurn` | `AgentManager`'s turn and the `ConversationStore` | implements `Dialogue` |
| `ValidationJob` | `JobManager`, its child and reader, the shutdown of the server | |
| `TensorService` | the tensor service's calls, its worker, slots and queues | |
| `LatentSearch` | `BoundedPUCTSearch` and its ancestor retriever | |
| `WorkflowSearch` | `AFlowOptimizer` and `WorkflowValidator` | |
| `RuntimeGate` | the controller's slots and the VRAM guard as the runtime meets them | |
| `FastWeightSessions` | overlays, router, projected core, `infer` and `compile_fast_weight_session` | extends `RuntimeGate` |
| `LearningState` | swarm, experts, domains, `checkpoint` and `restore_checkpoint` | extends `RuntimeGate` |
| `GenesisRuntime` | the runtime in a process that may crash | composes the two above |
| `LaunchSession` | `main` and the session document, several instances | |
| `RhythmProofs`, `NightProofs`, `JournalProofs`, `JobProofs`, `TensorProofs`, `RuntimeProofs` | the proofs about `Rhythm`, `NightCycle`, `PromotionJournal` and `FailureCapture`, `ValidationJob`, `TensorService`, `GenesisRuntime`, `LatentSearch` and `WorkflowSearch` | `NightProofs` instantiates `RhythmProofs` |
| `DemoProofs` | the proofs about `ComputeOwner` and `LaunchSession` | |
| `AgentProofs` | the proofs about `AgentTurn` over `Dialogue`, and about `ModelService` | |

`MC*` modules only give TLC its instance: sets of identities, sets of faults,
sets of uses; `MCSearches` runs the two searches, one per behaviour.
An operator named `X_Something` above an operator `X` is `X` with a
plausible bug; the specification does not use it.

### 2.1 Rhythm

A step is a critical section of the controller's lock.  `requests` and `tasks`
are the slot bodies that are running, `checkpointing` the callers inside their
checkpoint callback; the code has no such variables, the bodies are between
`__enter__` and `__exit__` of a context manager.  `CanMove` is
`_transition_locked` with its three checks; `Transition` lets any thread ask for
any mode at any time, which is more than the repository's callers do.  The
three ends of `enter_evolution` are `CheckpointDone`, `CheckpointFailed` (an
`Exception`) and `CheckpointAborted` (any other `BaseException`, which the code
does not catch).

### 2.2 NightCycle

Every thread that runs a night is a runner with a `pc`.  A step goes from one
point where another thread can interfere to the next; each call that may raise
has a raising disjunct when `Faults` names it.  `promotion_enabled` chooses the
assembly.  `unrecovered` records that something happened which no except clause
of the code expects (see `Unrecovered`): the database raising outside or after
the `try` block, a task of the runtime that outlives the cycle, or a start-up
failing after its night was handed back.  The properties that end in
`IfRecovered` hold up to that point; without it they are what the documents say,
and they do not hold (section 5).  `NightSound` is the type invariant, that the
cycle lock belongs to a thread inside `run_once`, that a night has one owner,
and that a checkpoint is taken at rest.

### 2.3 PromotionJournal

One step has at most one write.  `live`, `records` and `backups` survive
`Crash`; the rest is one thread's memory (the journal is used inside the night's
only evolution slot, or by `start` before anything else runs).  A write succeeds, fails
without effect ("early"), or fails after its effect ("late"): `os.replace` is
followed by an `fsync` of the directory, and both are inside the same function.
`env` is drawn once per behaviour and says which of these happen and where
another process may edit a file, so that one run covers three worlds.  `unseen` is a
history: the files edited between the last comparison and the write that relies on it
(`Windows`), which no step of the code can notice.  Contents
stand for SHA-256 digests.  `Logical` is what a restart would make of a file; with
it, the journal implements `AtomicStore`, in which "promoted" means that the file
has exactly the candidate and "rejected" that it is untouched.  `JournalSound`
joins the types, that every record has its backup, that the journal stays within
its bound, that nothing stays unresolved at rest, and that a start succeeds.

### 2.4 FailureCapture

A step is a critical section of the daemon's lock, an operation of the queue or a
database transaction.  Each `start` uses a fresh writer identity.  `accepted`,
`due`, `stored`, `late`, `lost` and `forgotten` are histories that the properties need.
`clock` is the time the failures are stamped with and the cutoff is read from; several
readings may be equal.  `use` says how many threads control the daemon and whether the
database may fail.  `forgotten` becomes true when a stop lets go of a writer that is
alive, which only two racing controllers reach, and false at a start that finds none
alive.  It is a history because the damage outlives the writer: a forgotten one counts
down, with `task_done`, the queue of the next start, so that a later `flush` may find
zero while a record is still in hand, after the forgotten writer has ended.  `lost`
holds what the database refused: a start clears `_writer_error`, so a flush that
was under way through stop and start returns without an exception although the failures it
waited for were refused in the epoch before.

### 2.5 ComputeOwner

A request is a route: a sequence of lock acquisitions, looks at a manager's
activity, and starts, in the order the code performs them, including the nested
calls (`start_agent_turn` calls `AgentManager.start_turn`, which asks the job and the
evolution manager again; the answer to a chat takes a snapshot).  Reentrant acquisitions are
left out.  `mix` is the set of kinds of requests that arrive together.

### 2.6 ModelService

The parent process holds the request lock, the current session and the stop
event; a session is a worker process with its two queues.  A step of the parent
lies between two points where another thread of it, or the worker, can
interfere; a worker takes a request, puts a token, ends a request or dies.
`use` is drawn once and says which threads use the service and whether they do
so `alone`, that is one call at a time, as the compute lock of the server makes
them.  The other uses (two callers at once, a stop during a call) are what the
class itself permits; its promises are weaker there: `ServiceSound` states
one resident model and a free lock for `use.alone`, a clean start and
`AnswersAreOwn` for all.
Tokens are numbered, so that a token of another request, a lost one and one out
of order are told apart.  Two costs of the code are visible in the behaviours and
are not properties: a stop during a call takes away the events its `finally` block uses,
so that the block raises and the request lock stays taken; and a caller that closes
the iterator at its last token waits for the whole drain timeout.

### 2.7 AgentTurn

One turn thread, the HTTP calls `start_turn`, `cancel` and `reset` between any
two of its steps, and the conversation store's budget: turns and characters, with
the eviction of the oldest exchanges.  The text of a message is its size.  The model
answers with chunks or raises, and a tool call is answered, refused or raises.
`Dialogue` is what a reader of the session may rely on: a question that was answered
stays with its answer, an unanswered one leaves no trace, and only the oldest
exchanges are forgotten.  An aborted turn may have evicted an older exchange when it
began; `Dialogue` allows that, because the code does not bring it back.

### 2.8 ValidationJob

A job has a runner, a child and a reader of the child's stdout, with the bounded
queue between the last two.  The child's output is a script of lines, of which a
growing part is written; the parser makes an event, a bad line or noise of each.
`Judged` is the runner's loop body against one message, `Judge` its verdict after the loop.
Cancel, the runtime limit, the child's exit and the shutdown of the server come
between any two steps.  "stop" is the thread that a shutdown request starts, "main"
the one that closes the server; when main is through the process is gone with all
threads, but not a child.  `unseen` names the jobs whose child a shutdown
could not know of, because they were started after it had looked, or had not
registered their child when it gave up waiting.

### 2.9 TensorService

Threads submit and receive under two locks; the worker takes a request, puts a
reply, or dies.  A tensor is the request it belongs to.  `pending` are the taken
slots, each with whether somebody still waits for its reply, `completed` the replies that
were read for another thread.  `lost` records replies that were thrown away while
their slot was taken: when calls of several threads overlap, a submission may drain
the very reply a receiver waits for, or a receiver may read one whose submission has
not registered it.  `alone` says that the calls to `submit` and `receive` come one
at a time, with any number of requests under way; then nothing is lost.

### 2.10 LatentSearch and WorkflowSearch

`LatentSearch` has the tree's arena, its visit counters and the ring of the
ancestor retriever as they are in `search.py`; scores and values only decide which
child is taken, so any of the favoured may be.  A handle is the index of its node,
so that a recycled slot can be told from the right one.  `WorkflowSearch` proposes,
validates, scores, archives and credits; `Valid` is translated from
`WorkflowValidator`, its topological sort included, and what it lets into the archive is
compared with a definition that knows of no sort: `Acyclic`, of any nodes one depends on
none of them.  Likewise the credit that walks up the parents (`Line`) is compared with
all that descends from a record (`Descendants`).  Scores are integers, sums of which become
infinite beyond `Largest`.

### 2.11 RuntimeGate, FastWeightSessions, LearningState, GenesisRuntime

`RuntimeGate` is `RhythmController` and `VRAMGuard` reduced to what an operation
of the runtime passes through: mode, who is in which slot, who holds the guard.
`FastWeightSessions` follows a caller through session lock, slot, guard and
hooks, in the order of the code's `with` statements, with an exception at each.
The router's operations run outside all of these locks and have none of their own, so
each access to its dictionary is a step: `Infer` pops the entry and `Reinsert` puts it
back; `Calibrate` pops, `CheckRoom` and `EvictOldest` loop, `Keep` inserts.  `crossed` is
a history: true from when one caller begins such an operation while another is in
the middle of one (`InRouter`), until a calibrate finds room with nobody else there.
`LearningState` follows an operation from its slot to the guard, to its body and out, and
`checkpoint` from collecting references to the digest on disk, in steps between
which other threads run, each of which may raise (`SaveFails`); `file`, `tmp` and `digest`
survive a crash.  What a failed `torch.save` leaves is `Torn`, which no restore can load.
The driver walks a
night: its checkpoint is the callback of `enter_evolution`, its restore the one
after a failed cycle.  `GenesisRuntime` lets sessions and learning meet at the gate.
Histories: `restored` (snapshots came from a file), `spoiled` (two checkpoints
overlapped, or one crashed or raised between `os.replace` and the end of the digest
file, and none has computed its digest alone since).

### 2.12 LaunchSession

An instance reads the document, pings the port, reuses or clears, builds its
components, binds, publishes, serves, closes and removes its document, or gives up
in between; it may die anywhere.  A token is the instance it belongs to.  `Close` shuts
the components down, or leaves them to a stop thread that is still at it, since
`shutdown_components` returns early; what that thread has not reached ends with the
process (`Exit`).
`seen` is a history: who answered, or was found serving, at an instance's latest look.
`punctual` says whether a serving instance answers a ping in time.

## 3. Runs

| Run | Instance | Shows |
|---|---|---|
| `rhythm` | 3 requests, 3 tasks, 2 callers | the inductive invariant of the proofs (exact counters, exclusion), refinement of `DayNight` |
| `night` | 2 harness threads, 1 workflow thread, 1 start-up, 1 request, 1 runtime task, 2 proposals, all faults, both assemblies | one owner, hand-back, rollback, SAFE_MODE, the cycle lock, termination, refinement of `Rhythm` |
| `journal` | 2 files, 2 versions and 1 foreign content, 2 records, 3 promotions, 1 crash, 3 environments | atomicity, bounded and complete records, recovery, what is overwritten, refinement of `AtomicStore` |
| `capture` | 1 controller with 2 failures, a failing database and 2 times, or 2 racing controllers with 1 failure and a failing database; 2 epochs, queue and table of 1 | truthful stop and flush, no silent loss, the cursor |
| `owner` | 3 HTTP threads, 3 mixes of requests | one compute mode, validation alone, answers |
| `service` | 2 callers and a stop in 3 uses, 2 requests of up to 2 tokens, queues of 2, 2 worker starts | own answers in order, no second model, nothing left from an earlier request |
| `turn` | 5 questions, 4 messages (the code's "turns") and 6 characters kept, texts of size 1 and 3, 2 continuations | whole exchanges, a true verdict, the partial answer gone, termination, refinement of `Dialogue` |
| `job` | 2 phases, queue of 4; 1 job with 12 outputs, 1 job while two threads shut down, 2 jobs while the server closes | a child is the active job's, success needs evidence, jobs end, a cancel is obeyed |
| `tensor` | 3 threads, one call at a time or overlapping, queues of 3, 2 slots, 5 requests, 2 workers | slots come back, no queue ever blocks the worker, a pause holds |
| `searches` | tree: width 2, depth 4, 12 nodes, 8 simulations, ring of 4; archive: 4 iterations, 3 entries, 8 workflows, scores -2, 1 and 3 with sums infinite beyond 3 | conservation of visits and credit, lineage, what is kept, termination |
| `runtime` | 2 callers with 2 sessions, 2 workers and the driver, 2 experts, 2 domains; 5 session calls, or 4 learning calls with a crash, or 1 session and 2 learning calls, or 2 and 1 with a crash | overlays, cache and router bounds, composed norm, pool and domains, files and digests, rest |
| `launch` | 3 instances, 2 retries, an old, a malformed or no document | the document, reuse, removal, nothing left behind |

### 3.1 Why the bounds are enough

- `rhythm`: the controller compares its counters with zero only; one body of each
  kind still running while another ends needs two, and three leave a margin.
  The proofs remove the bound.
- `night`: two threads of one scheduler compete for the cycle lock, the other
  scheduler and the start-up compete for the controller.  Two proposals give a
  cycle that promotes and then fails.  The proofs remove the bounds for all but
  termination.
- `journal`: three promotions over two records evict once with a prepared record
  next to a resolved one; two files let a record of one survive promotions of the
  other; the crash may fall anywhere, in recovery too, and in the third environment an
  edit as well.  The proofs remove the bounds.
- `capture`: a queue and a table of one are full with the first failure; two
  writers are two epochs, with a writer of the first alive in the second.  The harm
  that a forgotten writer does to the next one but one needs three writers, and is left
  to the proofs.
- `owner`: a cycle of waits needs two threads; a third makes a lock contended
  while the two race.  The proofs remove the bound for the safety.
- `service`: a full result queue blocks the worker with the second token; two
  starts give a late answer of the first worker a second one to disturb; two
  requests, an earlier one whose tokens a later one could receive.
- `turn`: five questions over four kept messages (two exchanges) evict by
  count, sizes 1 and 3 under 6 characters evict by size; of two continuations the
  second is the last.
- `job`: two phases are the least of which one can be out of order, repeated or
  left out; the queue holds more than a well-formed output, as in the code, and
  less than the longest bad one; a second job may start while the first is being cleared.
  The proofs remove the bounds for `ChildrenAreOwned` and `EvidenceDecides`.
- `tensor`: three submitters fill two slots; five requests let an expired one be
  followed by a pause, a resume and two more; the second worker shows what the
  first one leaves behind.  The proofs remove the bounds.
- `searches`: eight simulations fill twelve nodes at width two, so that later
  ones are frontier rollouts; the ring of four wraps while its handles are in use;
  two entries below one root are the shortest line of credit, and three scores
  overflow.
- `runtime`: the two kinds of operations share the mode, the slots and the guard only, so
  they are bounded separately with two budgets in which they meet; a second session evicts the
  first from a router of one and competes for three bytes; with five calls both sessions
  are compiled and routed while the other caller is in the router, which then exceeds its
  bound; two experts are a full pool with a pair to merge; four learning calls are a
  checkpoint that fails between the two files, one that makes the pair right again, a restore
  and a night's operation, with a crash between any two steps.  The proofs remove these bounds.
- `launch`: one instance serves, one replaces it, one looked before; the proofs
  remove the bound.

Threads, sessions and instances that the code does not tell apart are
interchangeable in `tensor`, `runtime` and `launch` (SYMMETRY), none of which
checks liveness.  `CHECK_DEADLOCK FALSE` is given where the bounds (promotions,
activations, failures, requests) or the end of the program let the system stop,
or where the program itself deadlocks (`owner`, whose subject is stated by
`AnsweredApart` instead).

### 3.2 Fairness

- `NightCycle`: a runner that has begun a cycle goes on; the model, the sandbox and
  the database answer or time out in the code.  Nothing obliges a scheduler to
  tick, a request or a runtime task to end.
- `FailureCapture`: the writer thread is scheduled and each transaction ends.
- `AgentTurn`: the turn's thread runs, and the model and the tools answer or raise
  (every wait of the model service has a timeout; a tool call is taken to end).  Nobody is obliged to cancel, reset or ask again.
- `ComputeOwner`: a thread that waits for a lock that is released again and again
  gets it (strong fairness per thread); managers' work may last for ever.
- `ValidationJob`: the runner and the readers are scheduled and the runtime limit passes in
  the end.  The child need not write, nor exit; the runner ends it.
- `MCSearches`: the one thread of a search runs, and proposer and evaluator answer
  or raise.
- `Rhythm`, `PromotionJournal`, `ModelService`, `TensorService`, `GenesisRuntime`,
  `LaunchSession`: none; their properties are of safety.

## 4. Proofs

`RhythmProofs` proves for any finite sets of activations and any callers:

- `RhythmInvariant`: `RhythmInv` (types, exact counters and exclusion together) is
  inductive.  The exclusion alone is not: `CanMove` reads the counters, so a
  counter that had drifted to zero would open the gate with a body still running.
- `RhythmTypes`, `CountersAreExact`: its other parts, on their own.
- `RhythmImplementsDayNight`: every step of the eight-mode controller is a step of
  the gate or a stutter.

The assumption is `ActivationsAssumption`, that the sets of activations are finite,
which a terminating process satisfies and which cardinalities need.

`DemoProofs` proves about `ComputeOwner`, for any HTTP threads, finitely many or not, and any
mixes of requests:

- `OwnerInductive`: `OwnerInv` is inductive.  Neither `OneComputeMode` nor
  `ValidationAlone` is, because a start does not look at what it relies on: the looks are
  several steps earlier.  `OwnerInv` adds what is true in between (`Entitled`): a
  request between its first step and its start holds the compute lock, every manager it
  has found idle still is, and a validation past its fifth step has no resident
  model.  The compute lock keeps the other starts out, and a manager becomes
  active by a start only.
- `OwnerIsSound` (types and `OneComputeMode`), `ValidationRunsAlone`: its parts.

What the argument needs to know of the code is in the four lemmas about the
routes: where each starts something, that it has looked at every manager before,
and that no with block is left before the start.  The managers' own conditions
play no part in it.  The assumption is `OwnerAssumption`: that no thread is called
`None`, and mixes are of known kinds.

`DemoProofs` proves about `LaunchSession`, for any launchers and any number of retries:

- `LaunchInductive`: `LaunchInv` is inductive.  `LaunchSound` is not by itself: that
  the document names a server survives a bind only because the port is held by exactly
  the instances between their bind and their close (`PortIsHeld`), and survives a
  removal because from its publication on the document is the server's own or gone
  (`DocumentIsOwn`); `PingsWhatItRead` and `ControlsAreBuilt` say what an instance has at
  each point.
- `LaunchIsSound` and `ReuseIsOfTheServer` follow from it.
- `RemovalIsUnaware` needs a second invariant on top, `AwareInv`: a server that
  was seen has served and will not publish again, and whoever is about to remove a
  document has not seen the server that it names, or has timed out on it.

The assumption is `LaunchAssumption`: names are different.

`RuntimeProofs` proves for any callers, workers, sessions, pool, budgets and crashes:

- `OverlaysAreOwn`: by `OverlayInv`, which adds to `OverlayIsOwn` that a caller inside
  a body holds the guard (so at most one is), and that compiling runs bare of hooks.
- `CheckpointIsAtRest`: by `RestInv`.  A worker's operation holds
  its slot from its call to its return, CHECKPOINTING leaves no slot occupied, and the
  driver restores in ROLLING_BACK only; so what changes state during a checkpoint
  can only be the restore that took no slot.
- `LearningStaysSound` (the pool's accounts, snapshots against records, projections,
  file against digest) and `GuardedStaysWhole`: by `LearningInv`.  `LearningIsSound` is not
  inductive, for two reasons.  A restore makes live what a file holds, so the files, and
  the data in the hands of a checkpoint or a restore, must be as sound as the live state
  (`FilesOK`, `PlaceOK`); and what an operation has read before its body must still be
  live at its end, which is so because whoever is inside holds the guard (`PlaceOK`).
  `PairOK` follows a checkpoint through its two files: while `spoiled` is false at most one
  is writing, and what it is about to record is the digest of the file that is there.
  A checkpoint that raises or dies there sets `spoiled`; one that computes its digest alone
  clears it, because from then on until it has recorded it no other can replace the file without
  setting it again.  The pool's
  lemmas (`OneFewer`, `MaintainedIsSound`, `RecruitedIsSound`, `UsedIsSound`) say that
  each operation of `experts.py` keeps `PoolOK`.
- `SolvesStayBelowMargin` (`ComposedBelowMargin`, a part of `SessionsAreSound`): by
  `CoreInv` on top of the first two invariants.  A caller on its way to a solve holds an
  inference slot, so the core is not trained under it, and it has been projected.
- `SessionsStaySound` (`SessionsAreSound`): by `SessionInv` on top of these.  What the
  cache keeps to (`Stored`: one entry per session, the exact byte count, both bounds) needs
  sums of sequences without induction over data: `SizeOf` is a recursive function, the
  functions that satisfy its equation are `Totals`, and an induction over the naturals by
  the well-foundedness of `<` gives what a concatenation weighs, from which `pop`
  (`PoppedIsOne`), eviction from the front (`SizeOfParts`) and `admit` (`AdmittedFits`)
  follow.  The entry in use is safe because an active session is that of the one caller
  inside (`ActiveIsHeld`), so none is active while a compilation admits, and `discard`
  refuses it.  The router needs an invariant of its own, `RouterInv`, since nothing but the
  accesses to its dictionary is atomic.  It counts the entries in the dictionary together
  with those in callers' hands (`InHand`: popped and to be put back, or about to be
  inserted).  Only a caller that has found room adds to that sum, and it is in hand itself, so the
  sum exceeds the bound by at most the other callers; if no operations have met, a caller
  in hand is the only one, and there is no excess (`Holds`).  How a step changes
  the number of hands is `HandMoves`, what it does to the dictionary `ForgottenOnce`, `PutOnce` and
  `TailOnce`.

`RuntimeProofs` proves about `LatentSearch`, the search that an inference runs under the
guard, for any width, depth, arena, ring capacity and number of simulations:

- `TreeStaysSound` (`TreeIsSound`): by `SearchInv`.  `TreeOK` says that a node is below its
  parent and one of its children by one edge only, `PathOK` that the edges of the simulation
  under way go down to one another, so that `Backup` credits a child exactly when it credits
  the edge to it and each node but the last with one edge (`OneEdgeToEach`,
  `TotalOfOneMore`).  A leaf that has been visited has no room below it (`Shut`), which is
  why a node is expanded by its first visit and its visits are one more than its edges'.
- `LineageSafe` is not about a step but about the walk of `retrieve` over the ring:
  `RingOK` says that a slot has the newest handle it was given, so a handle among the latest
  `Capacity` is in its slot and an older one is not (`SlotOfHandle`, by `RingOfHandles` on
  remainders).  An induction along the walk (`WalkMeetsAncestors`) gives that it meets the
  ancestors nearest first and stops at the first that has been evicted.

Its assumption is `SearchAssumption`, what `PUCTConfig` accepts.

`RuntimeProofs` proves about `WorkflowSearch`, for any workflows, budget and finite scores:

- `ArchiveStaysSound` (`ArchiveIsSound`): by `AFlowInv`, which adds to it where the search
  stands (`ArchiveAt`): an iteration under way has a parent and room for its result, and no
  record beats the best, so that a promotion is a record that beats all before it.  The rest
  is about data.  The sort that visits every node leaves no cycle: of any nodes the first
  that was visited depends on none of them (`ValidIsAcyclic`).  The walk up the
  parents passes exactly those the record descends from (`LineIsDescent`), and the new
  record descends from them, itself and nothing else (`DescentGrows`), so one visit and one
  score are added where one descendant is (`EarnedGrows`) unless the sum is infinite already.

The recursive functions (`Visited`, `Line`, `Earned`) are shown to exist before they are
used, and what they keep is an induction on the least counterexample (`FromBelow`).  The
assumption is `AFlowAssumption`: what `AFlowBudget` accepts, finite scores, and a length for
the nodes of a workflow whose fields are what they should be.

Assumptions about `GenesisRuntime`: `CallersAssumption` (who infers is not who learns, and none of them is
`None`), `LearningAssumption` (what `ExpertConfig` and the lifecycle accept, and that the
driver is no worker), `ThreadsAssumption` (callers are finitely many), `BudgetsAssumption` (norms and sizes are natural numbers, bounds are positive,
and the budgets are what the factory accepts).

`NightProofs` proves for any finite sets of runners, requests and runtime tasks, any
number of proposals, any faults and either assembly:

- `NightImplementsRhythm`: what a runner does in one step is one critical section of
  the controller or none, so `NightCycle` implements `Rhythm`; `RhythmHoldsAtNight` is
  the theorem of `RhythmProofs`, by instantiation, about the controller of the night.
- `NightInvariant`: `NightInv` and `RhythmInv` together are inductive.  What is added to
  the properties says which places each kind of runner can reach (`Places`), for each
  place the mode that the one owner of the night may rely on (`OneOwner`, `OwnsMode`), and
  where a candidate is live (`CandidateAccounted`).
- `NightIsSound`, `NightIsHandedBack`, `RollbackRestores` follow.

The assumption is `NightCycleAssumption`: names are different, the sets are finite.

`JournalProofs` proves for any files, versions and foreign contents, any number of
records and promotions and any set of environments:

- `JournalInvariant`: `JournalInv` is inductive.  `JournalSound` is not, because a write
  relies on what earlier steps found.  `HandOK` and `RecordsOK` tie the thread's locals to
  the record on disk, `BackupsOK` and `RoomOK` say what `prepare` has already secured,
  `LiveOK` that what was read of a live file still holds at the write, `PromptOK` and
  `CalmOK` what is known in environments without late failures and without any.
- `JournalIsSound`, `PromotedIsKept` and `OnlyKnownOverwritten` follow, without further
  hypotheses.  The last holds wherever files are edited: at a replacement or a restore
  either the content is what the comparison found, or it was edited since (`unseen`).
  That window is in the code; no lock closes it.
- `JournalImplementsStore` has a hypothesis on the environments: each environment either has late failures, of which the
  answer is "unknown" anyway, or no edits at the two writes, the health check and the
  commit.  The code does not look at the file again after its health check.  The
  environments of the run `journal` satisfy it.

`JournalProofs` proves about `FailureCapture`, for any failures, callers, writers and bounds:

- `CaptureInvariant`: `CaptureInv` is inductive.  `AccountOK` says that what was accepted is
  in the database, lost, queued or in a writer's hands; `CounterOK` that as long as no writer is
  forgotten only the known one lives, the count of unfinished tasks is exact, and a daemon
  without a writer has nothing queued; `PromiseOK` that a caller about to return
  (`Relies`) has nothing under way; `CursorOK` that the cursor is an earlier cutoff and
  what the cycle under way has not seen is not older than its own, or late.
- `CaptureIsSound`, with the count that `flush` waits for (`CounterIsExact`), and
  `ReturnsAreDrained` (`DrainedIfKnown`).

The attempt found two errors of an earlier form of the model that two writers and one kind
of fault at a time had hidden.  The bound `Capacity + 1` on the unfinished tasks is false with three
writers, and a truthful return needs more than that no forgotten writer is alive
at that moment (section 2.4).  The assumption is `CaptureAssumption`.

`JobProofs` proves for any number of jobs and phases, any scripts and uses:

- `JobInvariant`, `JobsOwnTheirChildren`: `JobInv` adds to the types the agreement of
  status, active job and the runners' places (`StatusOK`), that a runner never ends before
  its child (`ChildOK`), that one closer only takes the components down (`CloserOK`),
  and which jobs `unseen` names at each of its points (`UnseenOK`).
- `EvidenceAlwaysDecides`: `JobInv` with `OutputInv` is inductive.  `OutputInv` relates what
  the runner has counted, what is still in the queue and what the lines read so far say
  (`Events`).  As long as it has not noted a failure, either nothing was dropped and
  what it took was right (`Followed`), or what it took and what is queued are together
  too many (`Overrun`): a message is dropped only from a full queue, which holds more than
  a complete output has, so what was dropped cannot have mattered to the verdict.  In
  the other direction, output that is right so far is noted as no failure before the limit
  passes (`BelievedOK`).  At the verdict all that was written has been read and taken, and
  the two together say when it is complete.  `Events` is a recursive function; the three
  facts about it (`EventsAreSifted`, `EventsGrow`, `EventsAreLines`) are proved by
  `Induction`, which takes a set of numbers where the library takes an operator.

The assumptions are those of `ValidationJob`, among them that the queue has more places than
a complete output has events.  The proofs changed the model in two points.  A line of the
protocol now has a phase of at most `Phases`, which `cogni_demo/protocol.py` checks, and
without which the type invariant is not inductive.  And `Judged` asks its questions
one after the other, as the code does; written as a `CASE` whose arms overlap it
left open which of them counts.

`TensorProofs` proves for any threads, capacities and numbers of requests and workers:

- `TensorInvariant`: `TensorInv` is inductive.  The heart is that the requests, the one in
  the worker's hands and the responses are one queue in the order of the ids (`OrderOK`),
  each of which has a slot or is about to get the one that was kept free (`RoomOK`); as
  there are fewer slots than places in a queue, no put ever waits.  Neither
  `WorkerNeverWaits` nor `SlotsAreOwed` is inductive alone.
- `TensorIsSound`: `SlotsAreSound`, with the counting done by an injection of the queues'
  places into the slots (`QueueFitsSlots`).
- `PauseIsObeyed`: by `PauseOK`, which compares the ids of the last pause and resume
  with the ids still to be served.

The assumption is `TensorAssumption`.  It asks for at least one request id: with none
the type invariant is false, since a stop takes an id of its own.

`AgentProofs` proves about `AgentTurn`, for any questions, capacities and environments:

- `TurnsAreSound`: `TurnInv` is inductive.  `TurnSound` is not: the steps that change the
  store and the display trust the turn's own variables.  `PlaceOK` ties those to the place of
  the turn's thread, `StoreOK` says that the store alternates, that its last question is open
  exactly while the thread owes the answer, and which turns are gone from it; `DisplayOK`
  that one partial answer at most is on display, the newest message, while the thread
  writes it; `HonouredOK` that an acknowledged cancel is not followed by a success.
- `VerdictsAreTrue`: after a success the exchange is the last of the store, after a
  failure or a cancellation nothing of the turn is there.
- `TurnsImplementDialogue`: every step of a turn is a step of the abstract conversation
  or a stutter; a save that trims is the exchange kept and the oldest forgotten at once.

The loops that trim (`Settled`) are recursive functions, and what they keep is an induction:
the lemma `Induction` derives it from a least counterexample, with the library's facts about
well-founded relations that take no operator.  The assumption is `StoreAssumption`.

`AgentProofs` proves about `ModelService`, for any callers, numbers of requests, queues and
faults:

- `ServiceIsSound`: `ServiceInv` is inductive; `ServiceSound` is not.  Between two
  requests nothing in the service's state says that the worker is really at rest: it is so
  because the one caller inside has seen the end of its request, or has replaced the worker.
  `RestOK` says that the worker in service is at rest with empty queues, or held by that
  caller, whose request is queued, being worked on or answered, unless a caller gave up.
  `IdsOK` makes the numbers fresh (a request on its way has a number given out, and the one
  about to be put is on its way nowhere), `WaitOK` says what a waiting caller can still be
  sent, `OwnOK` that what it has taken is its own, `AloneOK` that one thread at a time is
  inside, and `WorkOK` and `ThreadsOK` what each place implies.
- `AnswersAreOwn`: a call that ends with an answer has all tokens of its own request
  and no others.

There is one lemma for each part and each kind of step (a step outside the worker, a spawn,
a stop, a put, a step of a worker, a cancellation).  The assumption is
`ServiceAssumption`.

Model-checked only:

- liveness under fairness, and with it ENABLED, which are out of the prover's reach:
  `NightEnds`, `AcceptedIsSettled`, `AnsweredApart`, `TurnEnds`, `JobsEnd` and
  `SearchesComplete`.  Every other property that a run checks is stated by a theorem.

## 5. Disagreements between the code and what it says

`PROJECT.json` quotes the lines.  Each is a named exception in a property of a
passing run; the property without its exception is violated by the same model.

| Exception | In | What the code does |
|---|---|---|
| `~unrecovered` | `HandedBackIfRecovered` | an exception of the failure query, raised before the `try`, strands the night |
| `~unrecovered` | `RollbackRestoresIfRecovered` | an audit that raises after a promotion is reported as a completed rollback |
| `Prompt` | `PromotedIsKeptIfPrompt` | a directory sync that fails leaves a record nobody resolves; the next start takes a reported promotion back |
| `forgotten` | `DrainedIfKnown`, `CounterIsExact` | a stop forgets the writer of a later start, which counts down the queue of the next |
| `lost` | `DrainedIfKnown` | a start clears the writer's error under a flush that is still waiting |
| `Apart` | `AnsweredApart` | two managers' conditions are taken in opposite orders and deadlock |
| the restore without a slot | `AtRestIsStill` | `restore_checkpoint` reads the mode twice; a night may end between |
| `~restored` | `LearningIsSound` | a restore replaces the snapshots and not the domain records; the next merge raises half done |
| `crossed` | `SessionsAreSound` | route pops and reinserts, calibrate checks and inserts, without a lock: the router exceeds `max_sessions` |
| `spoiled` | `LearningIsSound` | a checkpoint that raises or dies after `os.replace`, or overlaps another, leaves a file whose digest is not the recorded one |
| the unaware | `OnlyTheUnawareRemove` | a launcher removes a document it did not read |

One more is a matter of words: the session cache's comment trusts the day/night
controller to serialise sessions; what does so is the guard's lock, as the mutant
without it shows.

Other exceptions that a reader should know of: an edit in the window between digest
check and write (`unseen` in `UnknownNeverOverwritten`; it is lost in the code), failures still queued when a cycle takes its cutoff (`late` in
`FailureCapture`), a request that outlives the drain timeout (`gave_up` in
`ModelService`), a child that no shutdown could know of (`unseen` in `ValidationJob`),
replies lost among racing threads (`lost` in `TensorService`), a document that changed
after it was read (`ReusedIsTheServer`).

## 6. Not modelled

- Numerical code (`backbone.py`, `deq.py`, `meta_router.py`, `cts.py`): floating-point
  solvers and layers.  What they promise, a contractive operator once projected, is
  taken for granted where the runtime's modules apply them.
- The AST policy, the sandbox and the attestation: each is a verdict drawn at
  random, as are the model's proposals (`local_proposer.py`).
- Tools, prompting, parsing, configuration, command line, browser front end and
  desktop launcher: sequential, no state of their own.
- The SQLite file itself: a transaction happens entirely or not at all.
- In `AgentTurn`: a thread that cannot be created, shutdown, the eviction of whole
  sessions, the fields that only the display reads.  Of `EvolutionController`'s and
  `AgentManager`'s shutdown, `ValidationJob` has only that the server's waits for them.
- In `NightCycle`: a checkpoint callback that raises a `BaseException` and leaves
  CHECKPOINTING for good (`cogni_flow/rhythm.py:144`) is a step of `Rhythm` only.
- In `PromotionJournal`: temporary files of an interrupted replacement outside the
  journal directory (`cogni_flow/production.py:1127`), which no part of the program
  reads again, and the truth of "promoted" when the file is edited during the
  health check (`cogni_flow/production.py:775`).
- In `GenesisRuntime`: the memory arithmetic of the VRAM guard (a refusal at any
  time), and the norms of weights beyond "within its margin or not".  Of the router, which
  of two distributions of a session survives when a calibration overtakes a route.  Two
  checkpoints at once write the temporary file one after the other, not mixed, and a crash
  in the middle of writing a file leaves the earlier content; what a failing write
  leaves is modelled.
- In `LaunchSession`: components that a stop thread has not shut down when `main` returns
  end with the process; the validation child, which does not, is the subject of
  `ValidationJob`.

## 7. Plan

Done: 1 `Rhythm`; 2 `NightCycle`; 3 `PromotionJournal`; 4 `FailureCapture`;
5 `ComputeOwner`; 6 `AgentTurn` over `Dialogue`; 7 `ModelService`; 8 `ValidationJob`;
9 `TensorService`; 10 `LatentSearch` and `WorkflowSearch`; 11 `GenesisRuntime`;
12 `LaunchSession`; and the proofs of section 4.  Next, in this order:

13. An abstract channel (a request is answered with its own tokens, or not at all)
    that both `ModelService` and `TensorService` implement.
14. The shutdown of `AgentManager` and `EvolutionController`, joined to that of
    `ValidationJob`.
