---------------------------- MODULE ValidationJob ----------------------------
(***************************************************************************)
(* JobManager (cogni_demo/server.py): one validation at a time, run by a   *)
(* child process that reports over its stdout, and the shutdown of the     *)
(* server around it.                                                       *)
(*                                                                         *)
(* A job has a runner thread, a child and a reader of the child's stdout.  *)
(* What the child has written so far is the first written lines of its     *)
(* script; the script stays, so that a verdict can be compared with the    *)
(* output it is about.  A line is noise, bad (refused by the parser) or an *)
(* event.  PHASE_STAGES is 1 .. Phases.  Terminating a child ends it.      *)
(*                                                                         *)
(* Two threads take the server down: "stop", which a request or the        *)
(* watchdog starts, and "main", which closes the server when serving ends  *)
(* or is interrupted.  When main is through the process is gone, and with  *)
(* it every thread, but not a child.                                       *)
(*                                                                         *)
(* use, drawn once, says how many jobs are started, what their children    *)
(* may write and which threads take the server down.                       *)
(***************************************************************************)
EXTENDS Naturals, Sequences

CONSTANTS Uses,           \* how the server is used
          Phases,         \* number of PHASE_STAGES
          QueueSlots,     \* MAX_EVENT_QUEUE
          MaxJobs,        \* bound: jobs of any use
          None

Jobs == 1 .. MaxJobs
Closers == {"stop", "main"}
Active == {"starting", "running", "cancelling"}
Verdicts == {"cancelled", "failed", "succeeded"}
Kinds == {"phase", "result", "bad", "noise"}    \* what the parser makes of a line
Lines == [kind : Kinds, seq : Nat, stage : 0 .. Phases, progress : 0 .. 100]

(* The queue holds more messages than a well-formed output has events.  A  *)
(* phase that is none of PHASE_STAGES is bad: the parser refuses it.       *)
ASSUME JobAssumption ==
    /\ Phases \in Nat /\ MaxJobs \in Nat
    /\ QueueSlots \in Nat /\ QueueSlots > Phases + 1
    /\ Uses \subseteq [jobs : Jobs, scripts : SUBSET Seq(Lines), down : SUBSET Closers]
    /\ None \notin Nat

VARIABLES status, active_job, process, cancel_event,
          jobs,             \* jobs started
          pc,               \* where the runner of each job is
          seen,             \* its locals: what it has made of the messages
          verdict,          \* how it ends the job
          child, script, written,
          read,             \* lines the reader has taken
          messages,         \* the queue between reader and runner
          expired,          \* jobs whose runtime limit has passed
          closing,          \* where each closer is
          joined,           \* the job whose runner it waits for
          components_shutdown, serving, exited,
          unseen,           \* jobs a shutdown could not know of
          use

manager == <<status, active_job, process, cancel_event, jobs>>
runner == <<pc, seen, verdict, expired>>
worker == <<child, script, written, read, messages>>
server == <<closing, joined, components_shutdown, serving, exited, unseen, use>>
vars == <<manager, runner, worker, server>>

Fresh == [sequence |-> 1, phase |-> 0, progress |-> 0, terminals |-> 0,
          metrics |-> FALSE, failure |-> FALSE, terminated |-> FALSE]

Init ==
    /\ status = "ready" /\ active_job = None /\ process = None
    /\ cancel_event = FALSE /\ jobs = 0
    /\ pc = [j \in Jobs |-> "none"]
    /\ seen = [j \in Jobs |-> Fresh]
    /\ verdict = [j \in Jobs |-> "none"]
    /\ child = [j \in Jobs |-> "none"]
    /\ script = [j \in Jobs |-> <<>>]
    /\ written = [j \in Jobs |-> 0]
    /\ read = [j \in Jobs |-> 0]
    /\ messages = [j \in Jobs |-> <<>>]
    /\ expired = {}
    /\ closing = [c \in Closers |-> "no"]
    /\ joined = [c \in Closers |-> 0]
    /\ components_shutdown = FALSE /\ serving = TRUE /\ exited = FALSE
    /\ unseen = {}
    /\ use \in Uses

Up(j) == child[j] = "up"
Terminate(j) == child' = IF Up(j) THEN [child EXCEPT ![j] = "failed"] ELSE child
Transition(to) == status' = to
Goto(j, point) == pc' = [pc EXCEPT ![j] = point]

-----------------------------------------------------------------------------
(* Requests                                                                *)

Start ==
    /\ status \notin Active
    /\ jobs < use.jobs
    /\ jobs' = jobs + 1
    /\ cancel_event' = FALSE
    /\ active_job' = jobs + 1
    /\ Transition("starting")
    /\ Goto(jobs + 1, "launch")
    /\ unseen' = IF \E c \in Closers : closing[c] \in {"join", "kill", "done"}
                 THEN unseen \cup {jobs + 1} ELSE unseen
    /\ UNCHANGED <<process, seen, verdict, expired, worker,
                   closing, joined, components_shutdown, serving, exited, use>>

CancelActive ==
    /\ Transition("cancelling")
    /\ cancel_event' = TRUE

Cancel ==
    /\ status \in Active
    /\ CancelActive
    /\ UNCHANGED <<active_job, process, jobs, runner, worker, server>>

-----------------------------------------------------------------------------
(* _run_job                                                                *)

Decide(j, how) ==
    /\ verdict' = [verdict EXCEPT ![j] = how]
    /\ Goto(j, "finish")

Launch(j) ==
    /\ pc[j] = "launch"
    /\ \/ cancel_event /\ Decide(j, "cancelled")
       \/ ~cancel_event /\ Goto(j, "spawn") /\ UNCHANGED verdict
       \/ Goto(j, "raise") /\ UNCHANGED verdict
    /\ UNCHANGED <<manager, seen, expired, worker, server>>

Spawn(j) ==
    /\ pc[j] = "spawn"
    /\ \/ /\ \E s \in use.scripts : script' = [script EXCEPT ![j] = s]
          /\ child' = [child EXCEPT ![j] = "up"]
          /\ Goto(j, "adopt")
       \/ /\ Goto(j, "raise")
          /\ UNCHANGED <<script, child>>
    /\ UNCHANGED <<manager, seen, verdict, expired, written, read, messages, server>>

(* What the manager says of the job now covers up a cancel since Launch. *)
Adopt(j) ==
    /\ pc[j] = "adopt"
    /\ active_job = j
    /\ process' = j
    /\ Transition("running")
    /\ Goto(j, "loop") \/ Goto(j, "raise")      \* a reader cannot be started
    /\ UNCHANGED <<active_job, cancel_event, jobs, seen, verdict, expired, worker, server>>

Through(j) == ~Up(j) /\ read[j] = written[j] /\ messages[j] = <<>>

Stop(j, fails) ==
    /\ Terminate(j)
    /\ seen' = [seen EXCEPT ![j].terminated = TRUE, ![j].failure = @ \/ fails]
    /\ Goto(j, "take")

Iterate(j) ==
    /\ pc[j] = "loop"
    /\ ~Through(j)
    /\ LET may == ~seen[j].terminated
       IN  \/ may /\ cancel_event /\ Stop(j, FALSE)
           \/ may /\ ~cancel_event /\ j \in expired /\ Stop(j, TRUE)
           \/ /\ may => ~cancel_event /\ j \notin expired
              /\ Goto(j, "take")
              /\ UNCHANGED <<seen, child>>
    /\ UNCHANGED <<manager, verdict, expired, script, written, read, messages, server>>

(* One message against the state of the protocol. *)
Judged(s, m) ==
    LET counted == [s EXCEPT !.sequence = @ + 1]
        moved == [counted EXCEPT !.progress = m.progress]
        fails(t) == [t EXCEPT !.failure = TRUE]
        result == [moved EXCEPT !.terminals = @ + 1]
    IN  IF m.kind = "bad" \/ m.seq # s.sequence THEN fails(s)
        ELSE IF m.progress < s.progress THEN fails(counted)
        ELSE IF m.kind = "phase"
             THEN IF m.stage = s.phase + 1 THEN [moved EXCEPT !.phase = @ + 1]
                  ELSE fails(moved)
        ELSE IF s.phase # Phases THEN fails(result)
        ELSE [result EXCEPT !.metrics = TRUE]

Take(j) ==
    /\ pc[j] = "take"
    /\ Goto(j, "loop")
    /\ \/ /\ messages[j] = <<>>
          /\ UNCHANGED <<status, seen, messages>>
       \/ /\ messages[j] # <<>>
          /\ messages' = [messages EXCEPT ![j] = Tail(@)]
          /\ seen' = [seen EXCEPT ![j] = Judged(@, Head(messages[j]))]
          /\ status' = IF seen'[j].phase > seen[j].phase /\ active_job = j
                       THEN "running" ELSE status
    /\ UNCHANGED <<active_job, process, cancel_event, jobs, verdict, expired,
                   child, script, written, read, server>>

LoopEnds(j) ==
    /\ pc[j] = "loop"
    /\ Through(j)
    /\ Goto(j, "judge")
    /\ UNCHANGED <<manager, seen, verdict, expired, worker, server>>

Proper_AnyResult(s) == ~s.failure /\ s.metrics
Proper(s) == ~s.failure /\ s.terminals = 1 /\ s.metrics

Judge_AsksStatus(j) ==
    /\ pc[j] = "judge"
    /\ Decide(j, IF status = "cancelling" THEN "cancelled"
                 ELSE IF child[j] = "done" /\ Proper(seen[j]) THEN "succeeded"
                 ELSE "failed")
    /\ UNCHANGED <<manager, seen, expired, worker, server>>

Judge(j) ==
    /\ pc[j] = "judge"
    /\ Decide(j, IF cancel_event THEN "cancelled"
                 ELSE IF child[j] = "done" /\ Proper(seen[j]) THEN "succeeded"
                 ELSE "failed")
    /\ UNCHANGED <<manager, seen, expired, worker, server>>

Raise_LeavesChild(j) ==
    /\ pc[j] = "raise"
    /\ Decide(j, IF cancel_event THEN "cancelled" ELSE "failed")
    /\ UNCHANGED <<manager, seen, expired, worker, server>>

(* except BaseException *)
Raise(j) ==
    /\ pc[j] = "raise"
    /\ Terminate(j)
    /\ Decide(j, IF cancel_event THEN "cancelled" ELSE "failed")
    /\ UNCHANGED <<manager, seen, expired, script, written, read, messages, server>>

Finish(j) ==
    /\ pc[j] = "finish"
    /\ Goto(j, "clear")
    /\ \/ active_job = j /\ Transition(verdict[j]) /\ active_job' = None
       \/ active_job # j /\ UNCHANGED <<status, active_job>>
    /\ UNCHANGED <<process, cancel_event, jobs, seen, verdict, expired, worker, server>>

(* finally; the runner's locals are gone with it. *)
Clear(j) ==
    /\ pc[j] = "clear"
    /\ process' = IF process = j THEN None ELSE process
    /\ Goto(j, "over")
    /\ seen' = [seen EXCEPT ![j] = Fresh]
    /\ verdict' = [verdict EXCEPT ![j] = "none"]
    /\ expired' = expired \ {j}
    /\ messages' = [messages EXCEPT ![j] = <<>>]
    /\ UNCHANGED <<status, active_job, cancel_event, jobs, child, script, written, read,
                   server>>

Expire(j) ==
    /\ pc[j] \in {"loop", "take"} /\ j \notin expired
    /\ expired' = expired \cup {j}
    /\ UNCHANGED <<manager, pc, seen, verdict, worker, server>>

Runner(j) ==
    \/ Launch(j) \/ Spawn(j) \/ Adopt(j) \/ Iterate(j) \/ Take(j) \/ LoopEnds(j)
    \/ Judge(j) \/ Raise(j) \/ Finish(j) \/ Clear(j)

-----------------------------------------------------------------------------
(* The child and the reader of its stdout                                  *)

Write(j) ==
    /\ Up(j) /\ written[j] < Len(script[j])
    /\ written' = [written EXCEPT ![j] = @ + 1]
    /\ UNCHANGED <<manager, runner, child, script, read, messages, server>>

Exit(j) ==
    /\ Up(j)
    /\ \/ written[j] = Len(script[j]) /\ child' = [child EXCEPT ![j] = "done"]
       \/ child' = [child EXCEPT ![j] = "failed"]
    /\ UNCHANGED <<manager, runner, script, written, read, messages, server>>

(* A message that finds no room for a second is dropped. *)
Read(j) ==
    /\ pc[j] \in {"loop", "take"}
    /\ read[j] < written[j]
    /\ read' = [read EXCEPT ![j] = @ + 1]
    /\ LET line == script[j][read[j] + 1]
       IN  \/ line.kind = "noise" /\ UNCHANGED messages
           \/ /\ line.kind # "noise" /\ Len(messages[j]) < QueueSlots
              /\ messages' = [messages EXCEPT ![j] = Append(@, line)]
           \/ /\ line.kind # "noise" /\ Len(messages[j]) = QueueSlots
              /\ UNCHANGED messages
    /\ UNCHANGED <<manager, runner, child, script, written, server>>

-----------------------------------------------------------------------------
(* Shutdown                                                                *)

At(c, point) == closing' = [closing EXCEPT ![c] = point]

RequestShutdown ==
    /\ "stop" \in use.down /\ closing["stop"] = "no"
    /\ At("stop", "enter")
    /\ UNCHANGED <<manager, runner, worker, joined, components_shutdown, serving,
                   exited, unseen, use>>

(* serve_forever returns, or Ctrl-C ends it *)
CloseServer ==
    /\ "main" \in use.down /\ closing["main"] = "no"
    /\ At("main", "enter")
    /\ UNCHANGED <<manager, runner, worker, joined, components_shutdown, serving,
                   exited, unseen, use>>

EnterShutdown(c) ==
    /\ closing[c] = "enter"
    /\ components_shutdown' = TRUE
    /\ IF components_shutdown THEN At(c, "done")
       ELSE IF status \in Active THEN At(c, "cancel") ELSE At(c, "join")
    /\ joined' = [joined EXCEPT ![c] = jobs]
    /\ UNCHANGED <<manager, runner, worker, serving, exited, unseen, use>>

CancelForShutdown(c) ==
    /\ closing[c] = "cancel"
    /\ IF status \in Active THEN CancelActive ELSE UNCHANGED <<status, cancel_event>>
    /\ At(c, "join")
    /\ joined' = [joined EXCEPT ![c] = jobs]
    /\ UNCHANGED <<active_job, process, jobs, runner, worker, components_shutdown,
                   serving, exited, unseen, use>>

(* thread.join returns, or its timeout does *)
JoinRunner(c) ==
    /\ closing[c] = "join"
    /\ At(c, "kill")
    /\ LET j == joined[c]
       IN  unseen' = IF j # 0 /\ pc[j] \in {"launch", "spawn", "adopt"}
                     THEN unseen \cup {j} ELSE unseen
    /\ UNCHANGED <<manager, runner, worker, joined, components_shutdown, serving, exited, use>>

KillChild(c) ==
    /\ closing[c] = "kill"
    /\ At(c, "done")
    /\ joined' = [joined EXCEPT ![c] = 0]
    /\ IF process # None THEN Terminate(process) ELSE UNCHANGED child
    /\ UNCHANGED <<manager, runner, script, written, read, messages,
                   components_shutdown, serving, exited, unseen, use>>

StopServing ==
    /\ closing["stop"] = "done" /\ serving
    /\ serving' = FALSE
    /\ UNCHANGED <<manager, runner, worker, closing, joined, components_shutdown,
                   exited, unseen, use>>

ExitServer ==
    /\ closing["main"] = "done"
    /\ exited' = TRUE
    /\ UNCHANGED <<manager, runner, worker, closing, joined, components_shutdown,
                   serving, unseen, use>>

Closer(c) ==
    EnterShutdown(c) \/ CancelForShutdown(c) \/ JoinRunner(c) \/ KillChild(c)

Runners == \E j \in Jobs : Runner(j)
Limits == \E j \in Jobs : Expire(j)
Readers == \E j \in Jobs : Read(j)

(* After the exit children may run on, with nobody to see it. *)
Next ==
    /\ ~exited
    /\ \/ Start \/ Cancel
       \/ Runners \/ Limits \/ Readers
       \/ \E j \in Jobs : Write(j) \/ Exit(j)
       \/ RequestShutdown \/ CloseServer \/ StopServing \/ ExitServer
       \/ \E c \in Closers : Closer(c)

(* Threads run and a limit passes; a child need not end by itself. *)
Fairness ==
    WF_vars(~exited /\ Runners) /\ WF_vars(~exited /\ Limits) /\ WF_vars(~exited /\ Readers)

Spec == Init /\ [][Next]_vars /\ Fairness

-----------------------------------------------------------------------------
(* Properties                                                              *)

TypeOK ==
    /\ status \in {"ready"} \cup Active \cup Verdicts
    /\ active_job \in Jobs \cup {None} /\ process \in Jobs \cup {None}
    /\ cancel_event \in BOOLEAN /\ jobs \in 0 .. MaxJobs
    /\ pc \in [Jobs -> {"none", "launch", "spawn", "adopt", "loop", "take", "judge",
                        "raise", "finish", "clear", "over"}]
    /\ seen \in [Jobs -> [sequence : Nat \ {0}, phase : 0 .. Phases, progress : 0 .. 100,
                          terminals : Nat, metrics : BOOLEAN, failure : BOOLEAN,
                          terminated : BOOLEAN]]
    /\ verdict \in [Jobs -> Verdicts \cup {"none"}]
    /\ child \in [Jobs -> {"none", "up", "done", "failed"}]
    /\ script \in [Jobs -> use.scripts \cup {<<>>}]
    /\ {written, read} \subseteq [Jobs -> Nat] /\ messages \in [Jobs -> Seq(Lines)]
    /\ \A j \in Jobs : /\ read[j] <= written[j] /\ written[j] <= Len(script[j])
                       /\ Len(messages[j]) <= QueueSlots
    /\ expired \subseteq Jobs /\ unseen \subseteq Jobs
    /\ closing \in [Closers -> {"no", "enter", "cancel", "join", "kill", "done"}]
    /\ joined \in [Closers -> 0 .. MaxJobs]
    /\ {components_shutdown, serving, exited} \subseteq BOOLEAN

(* The child process exclusively owns CUDA: while the server lives, a child  *)
(* that runs is that of the active job, whose end is announced only when the *)
(* child is gone, and whatever ended it; the next job may start at once.     *)
OwnedByActiveJob == ~exited => \A j \in Jobs : Up(j) => active_job = j

(* When the server process has gone no child is left, unless a job was       *)
(* started after the shutdown had looked for one, its child was not yet      *)
(* known when the shutdown gave up waiting for the runner, or main left      *)
(* while another thread was still at the shutdown.                           *)
NothingLeft ==
    exited /\ closing["stop"] \notin {"cancel", "join", "kill"} =>
        \A j \in Jobs : Up(j) => j \in unseen

ChildrenAreOwned == TypeOK /\ OwnedByActiveJob /\ NothingLeft

(* What the first n lines of an output say, without the noise.               *)
Events(output, n) ==
    LET upto[i \in 0 .. n] ==
            IF i = 0 THEN <<>>
            ELSE IF output[i].kind = "noise" THEN upto[i - 1]
            ELSE Append(upto[i - 1], output[i])
    IN  upto[n]

(* What is complete: every phase once and in order, then one result,         *)
(* numbered from one, without anything bad, progress never falling.          *)
Right(events, i) ==
    /\ events[i].kind = IF i <= Phases THEN "phase" ELSE "result"
    /\ events[i].seq = i
    /\ i <= Phases => events[i].stage = i
    /\ i > 1 => events[i].progress >= events[i - 1].progress
WellFormed(events) ==
    Len(events) = Phases + 1 /\ \A i \in 1 .. Phases + 1 : Right(events, i)

(* A job is reported as succeeded only if its child wrote a complete output  *)
(* and exited with zero, although messages may be dropped on the way, and    *)
(* is reported so whenever it did and neither a cancel nor the limit came.   *)
EvidenceDecides ==
    [][\A j \in Jobs : pc[j] = "judge" /\ pc'[j] = "finish" =>
           LET good == child[j] = "done" /\ WellFormed(Events(script[j], written[j]))
           IN  /\ verdict'[j] = "succeeded" => good
               /\ good /\ ~cancel_event /\ j \notin expired => verdict'[j] = "succeeded"]_vars

(* A job ends, even if its child hangs; and a cancel that was accepted       *)
(* before the runner judged makes it end as cancelled, although the start of *)
(* the child overwrites what the cancel said.                                *)
Unjudged == {"launch", "spawn", "adopt", "loop", "take", "judge", "raise"}
JobsEnd ==
    \A j \in Jobs :
        /\ active_job = j ~> active_job # j \/ exited
        /\ active_job = j /\ cancel_event /\ pc[j] \in Unjudged
           ~> (active_job # j /\ verdict[j] = "cancelled") \/ exited
=============================================================================
