----------------------------- MODULE JobProofs -----------------------------
(***************************************************************************)
(* Machine-checked facts about ValidationJob, for any uses of the server,  *)
(* any number of jobs and any outputs of their children: one job owns the  *)
(* child that runs, and a shutdown leaves no child that it could know of;  *)
(* and success is reported for a complete output and nothing else.  The    *)
(* invariant adds what the manager's fields say about the place of each    *)
(* runner, what a shutdown knows at each of its steps, and what a runner   *)
(* has made of the lines read so far.                                      *)
(***************************************************************************)
EXTENDS ValidationJob, TLAPS, WellFoundedInduction

-----------------------------------------------------------------------------
(* The inductive invariant.                                                *)

(* Where a runner is while its job is the active one; before the manager   *)
(* knows its child; and where a closer is while it looks for the child.    *)
Early == {"launch", "spawn", "adopt"}
Working == Early \cup {"loop", "take", "judge", "raise", "finish"}
Middle == {"cancel", "join", "kill"}

(* Only the job started last is active, exactly while its runner works,    *)
(* and the status says so.                                                 *)
StatusOK ==
    /\ status \in Active <=> active_job # None
    /\ active_job # None => active_job = jobs
    /\ \A j \in Jobs : pc[j] \in Working <=> active_job = j
    /\ \A j \in Jobs : j > jobs => pc[j] = "none"
    /\ \A j \in Jobs : pc[j] = "finish" => verdict[j] \in Verdicts

(* A runner does not end before its child has, and from Adopt on the       *)
(* manager's process is that child.                                        *)
ChildOK ==
    \A j \in Jobs :
        /\ Up(j) => /\ pc[j] \in {"adopt", "loop", "take", "raise"}
                    /\ pc[j] # "adopt" => process = j
        /\ pc[j] \in {"none", "launch", "spawn"} => written[j] = 0

(* One closer takes the components down, any other passes it by.           *)
CloserOK ==
    /\ components_shutdown <=> \E c \in Closers : closing[c] \in Middle \cup {"done"}
    /\ \A c, d \in Closers : closing[c] \in Middle /\ closing[d] \in Middle => c = d
    /\ exited => closing["main"] = "done"

(* What is in unseen: jobs younger than the one a closer waits for; after  *)
(* the wait, every job whose child the manager does not know yet; after    *)
(* the kill, every job that has a child or may still get one.              *)
UnseenOK ==
    /\ \A c \in Closers : closing[c] = "join" =>
          /\ joined[c] <= jobs
          /\ \A j \in Jobs : joined[c] < j /\ j <= jobs => j \in unseen
    /\ \A c \in Closers : closing[c] = "kill" =>
          \A j \in Jobs : pc[j] \in Early => j \in unseen
    /\ (\E c \in Closers : closing[c] = "done") /\ (\A c \in Closers : closing[c] \notin Middle)
       => \A j \in Jobs : pc[j] \in Early \/ Up(j) => j \in unseen

JobInv == TypeOK /\ use \in Uses /\ StatusOK /\ ChildOK /\ CloserOK /\ UnseenOK

-----------------------------------------------------------------------------
(* Types.                                                                  *)

Views == [sequence : Nat \ {0}, phase : 0 .. Phases, progress : 0 .. 100,
          terminals : Nat, metrics : BOOLEAN, failure : BOOLEAN, terminated : BOOLEAN]

(* Whatever a message says, the runner's view of the output keeps its      *)
(* type: it counts no more phases than there are.                          *)
LEMMA JudgedType ==
    ASSUME NEW s \in Views, NEW m \in Lines
    PROVE  Judged(s, m) \in Views
<1> DEFINE Counted(t) == [t EXCEPT !.sequence = @ + 1]
           Moved(t) == [t EXCEPT !.progress = m.progress]
           Fails(t) == [t EXCEPT !.failure = TRUE]
           Ended(t) == [t EXCEPT !.terminals = @ + 1]
           Measured(t) == [t EXCEPT !.metrics = TRUE]
           Phased(t) == [t EXCEPT !.phase = @ + 1]
<1>1. \A t \in Views : Counted(t) \in Views /\ Counted(t).phase = t.phase
  BY DEF Views
<1>2. \A t \in Views : Moved(t) \in Views /\ Moved(t).phase = t.phase
  BY DEF Views, Lines
<1>3. \A t \in Views : Fails(t) \in Views
  BY DEF Views
<1>4. \A t \in Views : Ended(t) \in Views
  BY DEF Views
<1>5. \A t \in Views : Measured(t) \in Views
  BY DEF Views
<1>6. \A t \in Views : m.stage = t.phase + 1 => Phased(t) \in Views
  BY JobAssumption DEF Views, Lines
<1>7. \/ Judged(s, m) \in {Fails(s), Fails(Counted(s)), Fails(Moved(Counted(s))),
                           Fails(Ended(Moved(Counted(s)))),
                           Measured(Ended(Moved(Counted(s))))}
      \/ m.stage = s.phase + 1 /\ Judged(s, m) = Phased(Moved(Counted(s)))
  BY DEF Judged
<1> HIDE DEF Counted, Moved, Fails, Ended, Measured, Phased
<1>8. /\ Counted(s) \in Views /\ Moved(Counted(s)) \in Views
      /\ Ended(Moved(Counted(s))) \in Views /\ Moved(Counted(s)).phase = s.phase
  BY <1>1, <1>2, <1>4
<1>9. QED
  BY <1>3, <1>5, <1>6, <1>7, <1>8

(* What the bounds of the assumption say, as facts on naturals.            *)
LEMMA JobBounds ==
    /\ Phases \in Nat /\ MaxJobs \in Nat /\ QueueSlots \in Nat
    /\ Jobs = 1 .. MaxJobs
  BY JobAssumption DEF Jobs

(* Where a runner is, and how its child is.                                *)
Places == {"none", "launch", "spawn", "adopt", "loop", "take", "judge", "raise",
           "finish", "clear", "over"}
Fates == {"none", "up", "done", "failed"}

(* What a child may write are lines.                                       *)
LEMMA ScriptsAreLines ==
    ASSUME use \in Uses
    PROVE  use.jobs \in Jobs /\ use.scripts \subseteq Seq(Lines)
  BY JobAssumption

(* The use is drawn once.                                                  *)
LEMMA UseIsFixed ==
    ASSUME [Next]_vars
    PROVE  use' = use
<1>1. CASE Start \/ Cancel \/ RequestShutdown \/ CloseServer \/ StopServing \/ ExitServer \/ UNCHANGED vars
  BY <1>1 DEF Start, Cancel, RequestShutdown, CloseServer, StopServing, ExitServer, vars, server
<1>2. ASSUME NEW j \in Jobs, Runner(j)
      PROVE  use' = use
  BY <1>2 DEF Runner, Launch, Spawn, Adopt, Iterate, Take, LoopEnds, Judge, Raise, Finish, Clear, server
<1>3. ASSUME NEW j \in Jobs, Expire(j) \/ Read(j) \/ Write(j) \/ Exit(j)
      PROVE  use' = use
  BY <1>3 DEF Expire, Read, Write, Exit, server
<1>4. ASSUME NEW c \in Closers, Closer(c)
      PROVE  use' = use
  BY <1>4 DEF Closer, EnterShutdown, CancelForShutdown, JoinRunner, KillChild, server
<1>5. QED
  BY <1>1, <1>2, <1>3, <1>4 DEF Next, Runners, Limits, Readers

(* Every step keeps the types of the manager's own fields.                 *)
LEMMA ManagerTypes ==
    ASSUME TypeOK, use \in Uses, StatusOK, [Next]_vars
    PROVE  /\ status' \in {"ready"} \cup Active \cup Verdicts
           /\ active_job' \in Jobs \cup {None} /\ process' \in Jobs \cup {None}
           /\ cancel_event' \in BOOLEAN /\ jobs' \in 0 .. MaxJobs
           /\ expired' \subseteq Jobs /\ unseen' \subseteq Jobs
<1> USE DEF TypeOK, manager, runner, worker, server, Transition, Active, Verdicts
<1>1. CASE Start \/ Cancel
  <2>1. CASE Start
    <3>1. jobs + 1 \in Jobs /\ jobs + 1 \in 0 .. MaxJobs
      <4>1. use.jobs \in 1 .. MaxJobs /\ jobs \in 0 .. MaxJobs /\ jobs < use.jobs
        BY <2>1, ScriptsAreLines DEF Start, Jobs
      <4>2. QED
        BY <4>1, JobBounds DEF Jobs
    <3>2. QED
      BY <2>1, <3>1 DEF Start
  <2>2. CASE Cancel
    BY <2>2 DEF Cancel, CancelActive
  <2>3. QED
    BY <1>1, <2>1, <2>2
<1>2. ASSUME NEW j \in Jobs, Launch(j) \/ Spawn(j) \/ Adopt(j) \/ Iterate(j) \/ Take(j)
      PROVE  UNCHANGED <<active_job, cancel_event, jobs, expired, unseen, use>>
             /\ status' \in {status, "running"} /\ process' \in {process, j}
  BY <1>2 DEF Launch, Spawn, Adopt, Iterate, Take
<1>3. ASSUME NEW j \in Jobs, LoopEnds(j) \/ Judge(j) \/ Raise(j) \/ Finish(j) \/ Clear(j) \/ Expire(j)
      PROVE  UNCHANGED <<cancel_event, jobs, unseen, use>>
             /\ status' \in {status, verdict[j]} /\ (status' # status => pc[j] = "finish")
             /\ active_job' \in {active_job, None}
             /\ process' \in {process, None} /\ expired' \subseteq expired \cup {j}
  BY <1>3 DEF LoopEnds, Judge, Raise, Finish, Clear, Expire
<1>4. ASSUME NEW j \in Jobs, Read(j) \/ Write(j) \/ Exit(j)
      PROVE  UNCHANGED <<manager, expired, unseen, use>>
  BY <1>4 DEF Read, Write, Exit
<1>5. CASE RequestShutdown \/ CloseServer \/ StopServing \/ ExitServer
  BY <1>5 DEF RequestShutdown, CloseServer, StopServing, ExitServer
<1>6. ASSUME NEW c \in Closers, Closer(c)
      PROVE  UNCHANGED <<active_job, process, jobs, expired, use>>
             /\ status' \in {status, "cancelling"} /\ cancel_event' \in {cancel_event, TRUE}
             /\ unseen' \subseteq unseen \cup Jobs
  <2>1. joined[c] # 0 => joined[c] \in Jobs
    BY JobAssumption DEF Jobs
  <2>2. QED
    BY <1>6, <2>1 DEF Closer, EnterShutdown, CancelForShutdown, JoinRunner, KillChild, CancelActive
<1>7. CASE UNCHANGED vars
  BY <1>7 DEF vars
<1>8. CASE \E j \in Jobs : Runner(j) \/ Expire(j) \/ Read(j) \/ Write(j) \/ Exit(j)
  <2>1. PICK j \in Jobs : Runner(j) \/ Expire(j) \/ Read(j) \/ Write(j) \/ Exit(j)
    BY <1>8
  <2>2. CASE Launch(j) \/ Spawn(j) \/ Adopt(j) \/ Iterate(j) \/ Take(j)
    BY <1>2, <2>2
  <2>3. CASE LoopEnds(j) \/ Judge(j) \/ Raise(j) \/ Finish(j) \/ Clear(j) \/ Expire(j)
    <3>1. status' = status \/ (status' = verdict[j] /\ verdict[j] \in Verdicts)
      BY <1>3, <2>3 DEF StatusOK
    <3>2. status' \in {"ready"} \cup Active \cup Verdicts
      BY <3>1
    <3>3. expired' \subseteq Jobs /\ process' \in Jobs \cup {None} /\ active_job' \in Jobs \cup {None}
      BY <1>3, <2>3, SMTT(30)
    <3>4. UNCHANGED <<cancel_event, jobs, unseen>>
      BY <1>3, <2>3
    <3>5. QED
      BY <3>2, <3>3, <3>4
  <2>4. CASE Read(j) \/ Write(j) \/ Exit(j)
    BY <1>4, <2>4
  <2>5. QED
    BY <2>1, <2>2, <2>3, <2>4 DEF Runner
<1>9. CASE \E c \in Closers : Closer(c)
  BY <1>6, <1>9
<1>10. QED
  BY <1>1, <1>5, <1>7, <1>8, <1>9 DEF Next, Runners, Limits, Readers

(* Every step keeps the types of the runners, their verdicts, the children, *)
(* the closers and whatever else the threads of the server keep.           *)
LEMMA RunnerTypes ==
    ASSUME TypeOK, use \in Uses, [Next]_vars
    PROVE  /\ pc' \in [Jobs -> Places]
           /\ verdict' \in [Jobs -> Verdicts \cup {"none"}]
           /\ child' \in [Jobs -> Fates]
           /\ closing' \in [Closers -> {"no", "enter", "cancel", "join", "kill", "done"}]
           /\ joined' \in [Closers -> 0 .. MaxJobs]
           /\ components_shutdown' \in BOOLEAN /\ serving' \in BOOLEAN /\ exited' \in BOOLEAN
<1> USE DEF TypeOK, manager, runner, worker, server, Verdicts, Goto, Decide, Terminate, Places, Fates
<1>1. CASE Start \/ Cancel
  BY <1>1 DEF Start, Cancel
<1>2. ASSUME NEW j \in Jobs, Launch(j) \/ Spawn(j) \/ Adopt(j) \/ Iterate(j) \/ Take(j)
      PROVE  /\ pc' \in [Jobs -> Places]
             /\ verdict' \in [Jobs -> Verdicts \cup {"none"}]
             /\ child' \in [Jobs -> Fates]
             /\ UNCHANGED server
  BY <1>2, ZenonT(60) DEF Launch, Spawn, Adopt, Iterate, Stop, Take
<1>3. ASSUME NEW j \in Jobs, LoopEnds(j) \/ Judge(j) \/ Raise(j) \/ Finish(j) \/ Clear(j) \/ Expire(j)
      PROVE  /\ pc' \in [Jobs -> Places]
             /\ verdict' \in [Jobs -> Verdicts \cup {"none"}]
             /\ child' \in [Jobs -> Fates]
             /\ UNCHANGED server
  BY <1>3, ZenonT(60) DEF LoopEnds, Judge, Raise, Finish, Clear, Expire
<1>4. ASSUME NEW j \in Jobs, Read(j) \/ Write(j) \/ Exit(j)
      PROVE  /\ child' \in [Jobs -> Fates]
             /\ UNCHANGED <<pc, verdict, server>>
  BY <1>4 DEF Read, Write, Exit
<1>5. CASE RequestShutdown \/ CloseServer \/ StopServing \/ ExitServer
  BY <1>5, ZenonT(60) DEF RequestShutdown, CloseServer, StopServing, ExitServer, At, Closers
<1>6. ASSUME NEW c \in Closers, Closer(c)
      PROVE  /\ UNCHANGED <<pc, verdict, serving, exited>>
             /\ child' \in [Jobs -> Fates]
             /\ closing' \in [Closers -> {"no", "enter", "cancel", "join", "kill", "done"}]
             /\ joined' \in [Closers -> 0 .. MaxJobs]
             /\ components_shutdown' \in BOOLEAN
  <2>1. 0 \in 0 .. MaxJobs
    BY JobBounds
  <2>2. CASE EnterShutdown(c)
    BY <2>2 DEF EnterShutdown, At
  <2>3. CASE CancelForShutdown(c) \/ JoinRunner(c)
    BY <2>3, ZenonT(60) DEF CancelForShutdown, JoinRunner, At
  <2>4. CASE KillChild(c)
    BY <2>1, <2>4 DEF KillChild, At
  <2>5. QED
    BY <1>6, <2>2, <2>3, <2>4 DEF Closer
<1>7. CASE UNCHANGED vars
  BY <1>7 DEF vars
<1>8. QED
  BY <1>1, <1>2, <1>3, <1>4, <1>5, <1>6, <1>7 DEF Next, Runners, Runner, Limits, Readers

(* Every step keeps the types of what a job shows: a view only ever moves  *)
(* from one view to the next.                                              *)
LEMMA SeenTypes ==
    ASSUME TypeOK, [Next]_vars
    PROVE  seen' \in [Jobs -> Views]
<1> USE DEF manager, runner, worker, server
<1>0. seen \in [Jobs -> Views]
  BY DEF TypeOK, Views
<1>1. ASSUME NEW j \in Jobs, Take(j)
      PROVE  seen' \in [Jobs -> Views]
  <2>1. CASE messages[j] = <<>>
    BY <1>0, <1>1, <2>1 DEF Take
  <2>2. CASE messages[j] # <<>>
    <3>1. Head(messages[j]) \in Lines
      BY <2>2 DEF TypeOK
    <3>2. Judged(seen[j], Head(messages[j])) \in Views
      BY <1>0, <3>1, JudgedType
    <3>3. seen' = [seen EXCEPT ![j] = Judged(seen[j], Head(messages[j]))]
      BY <1>1, <2>2 DEF Take
    <3>4. QED
      BY <1>0, <3>2, <3>3
  <2>3. QED
    BY <2>1, <2>2
<1>2. ASSUME NEW j \in Jobs, Iterate(j)
      PROVE  seen' \in [Jobs -> Views]
  <2>1. ASSUME NEW fails \in BOOLEAN, Stop(j, fails)
        PROVE  seen' \in [Jobs -> Views]
    <3>1. \A s \in Views : \A b \in BOOLEAN :
             [s EXCEPT !.terminated = TRUE, !.failure = b] \in Views
      BY DEF Views
    <3>2. PICK b \in BOOLEAN : b = (seen[j].failure \/ fails)
      OBVIOUS
    <3>3. seen' = [seen EXCEPT ![j] = [seen[j] EXCEPT !.terminated = TRUE, !.failure = b]]
      BY <2>1, <3>2 DEF Stop
    <3>4. QED
      BY <1>0, <3>1, <3>3
  <2>2. QED
    BY <1>0, <1>2, <2>1 DEF Iterate
<1>3. ASSUME NEW j \in Jobs, Clear(j)
      PROVE  seen' \in [Jobs -> Views]
  <2>1. Fresh \in Views
    BY JobAssumption DEF Fresh, Views
  <2>2. QED
    BY <1>0, <1>3, <2>1 DEF Clear
<1>4. ASSUME NEW j \in Jobs, Launch(j) \/ Spawn(j) \/ Adopt(j) \/ LoopEnds(j) \/ Judge(j)
                             \/ Raise(j) \/ Finish(j) \/ Expire(j)
      PROVE  seen' = seen
  BY <1>4 DEF Launch, Spawn, Adopt, LoopEnds, Judge, Raise, Finish, Expire
<1>5. ASSUME NEW j \in Jobs, Read(j) \/ Write(j) \/ Exit(j)
      PROVE  seen' = seen
  BY <1>5 DEF Read, Write, Exit
<1>6. ASSUME NEW c \in Closers, Closer(c)
      PROVE  seen' = seen
  BY <1>6 DEF Closer, EnterShutdown, CancelForShutdown, JoinRunner, KillChild
<1>7. CASE Start \/ Cancel \/ RequestShutdown \/ CloseServer \/ StopServing \/ ExitServer
  BY <1>0, <1>7 DEF Start, Cancel, RequestShutdown, CloseServer, StopServing, ExitServer
<1>8. CASE UNCHANGED vars
  BY <1>0, <1>8 DEF vars
<1>9. QED
  BY <1>0, <1>1, <1>2, <1>3, <1>4, <1>5, <1>6, <1>7, <1>8
     DEF Next, Runners, Runner, Limits, Readers

(* How far the child and the reader are, and the queue between them.       *)
WiresOK ==
    /\ script \in [Jobs -> use.scripts \cup {<<>>}]
    /\ written \in [Jobs -> Nat] /\ read \in [Jobs -> Nat]
    /\ messages \in [Jobs -> Seq(Lines)]
    /\ \A j \in Jobs : /\ read[j] <= written[j] /\ written[j] <= Len(script[j])
                       /\ Len(messages[j]) <= QueueSlots

(* Every step keeps the positions in the two pipes in order: the reader never *)
(* gets ahead of the child, nor the child past the end of its script.      *)
LEMMA WorkerTypes ==
    ASSUME TypeOK, use \in Uses, ChildOK, [Next]_vars
    PROVE  WiresOK'
<1> USE DEF manager, runner, worker, server
<1>0. WiresOK /\ (\A j \in Jobs : script[j] \in Seq(Lines)) /\ use' = use
  <2>1. use' = use
    BY UseIsFixed
  <2>2. WiresOK
    BY DEF TypeOK, WiresOK
  <2>3. \A j \in Jobs : script[j] \in use.scripts \cup {<<>>}
    BY <2>2 DEF WiresOK
  <2>4. <<>> \in Seq(Lines)
    OBVIOUS
  <2>5. QED
    BY <2>1, <2>2, <2>3, <2>4, ScriptsAreLines
<1>1. ASSUME UNCHANGED <<script, written, read, messages>>
      PROVE  WiresOK'
  BY <1>0, <1>1 DEF WiresOK
<1>2. ASSUME NEW j \in Jobs, Spawn(j)
      PROVE  WiresOK'
  <2>1. CASE UNCHANGED script
    BY <1>1, <1>2, <2>1 DEF Spawn
  <2>2. CASE \E s \in use.scripts : script' = [script EXCEPT ![j] = s]
    <3>1. written[j] = 0 /\ read[j] = 0
      BY <1>0, <1>2 DEF Spawn, ChildOK, WiresOK
    <3>2. PICK s \in use.scripts : script' = [script EXCEPT ![j] = s]
      BY <2>2
    <3>3. Len(s) \in Nat
      BY ScriptsAreLines
    <3>4. QED
      BY <1>0, <1>2, <3>1, <3>2, <3>3 DEF Spawn, WiresOK
  <2>3. QED
    BY <1>2, <2>1, <2>2 DEF Spawn
<1>3. ASSUME NEW j \in Jobs, Take(j) \/ Clear(j)
      PROVE  WiresOK'
  <2>1. CASE UNCHANGED messages
    BY <1>1, <1>3, <2>1 DEF Take, Clear
  <2>2. CASE messages[j] # <<>> /\ messages' = [messages EXCEPT ![j] = Tail(@)]
    <3>1. /\ Tail(messages[j]) \in Seq(Lines)
          /\ Len(Tail(messages[j])) <= QueueSlots
      BY <1>0, <2>2, JobAssumption DEF WiresOK
    <3>2. UNCHANGED <<script, written, read>>
      BY <1>3 DEF Take, Clear
    <3>3. QED
      BY <1>0, <2>2, <3>1, <3>2 DEF WiresOK
  <2>3. CASE messages' = [messages EXCEPT ![j] = <<>>]
    <3>2. UNCHANGED <<script, written, read>>
      BY <1>3 DEF Take, Clear
    <3>3. QED
      BY <1>0, <2>3, <3>2, JobAssumption DEF WiresOK
  <2>4. QED
    BY <1>3, <2>1, <2>2, <2>3 DEF Take, Clear
<1>4. ASSUME NEW j \in Jobs, Write(j)
      PROVE  WiresOK'
  BY <1>0, <1>4 DEF Write, WiresOK
<1>5. ASSUME NEW j \in Jobs, Read(j)
      PROVE  WiresOK'
  <2>1. UNCHANGED <<script, written>> /\ read' = [read EXCEPT ![j] = @ + 1] /\ read[j] < written[j]
    BY <1>5 DEF Read
  <2>2. script[j][read[j] + 1] \in Lines
    BY <1>0, <2>1 DEF WiresOK
  <2>3. CASE UNCHANGED messages
    BY <1>0, <2>1, <2>3 DEF WiresOK
  <2>4. CASE /\ Len(messages[j]) < QueueSlots
             /\ messages' = [messages EXCEPT ![j] = Append(@, script[j][read[j] + 1])]
    <3>1. /\ Append(messages[j], script[j][read[j] + 1]) \in Seq(Lines)
          /\ Len(Append(messages[j], script[j][read[j] + 1])) <= QueueSlots
      BY <1>0, <2>2, <2>4, JobAssumption DEF WiresOK
    <3>2. QED
      BY <1>0, <2>1, <2>4, <3>1 DEF WiresOK
  <2>5. QED
    BY <1>5, <2>3, <2>4 DEF Read
<1>6. ASSUME NEW j \in Jobs, Launch(j) \/ Adopt(j) \/ Iterate(j) \/ LoopEnds(j) \/ Judge(j)
                             \/ Raise(j) \/ Finish(j) \/ Expire(j) \/ Exit(j)
      PROVE  UNCHANGED <<script, written, read, messages>>
  BY <1>6 DEF Launch, Adopt, Iterate, LoopEnds, Judge, Raise, Finish, Expire, Exit
<1>7. ASSUME NEW c \in Closers, Closer(c)
      PROVE  UNCHANGED <<script, written, read, messages>>
  BY <1>7 DEF Closer, EnterShutdown, CancelForShutdown, JoinRunner, KillChild
<1>8. CASE \/ Start \/ Cancel \/ RequestShutdown \/ CloseServer \/ StopServing \/ ExitServer
           \/ UNCHANGED vars
  BY <1>8, <1>1 DEF Start, Cancel, RequestShutdown, CloseServer, StopServing, ExitServer, vars
<1>9. QED
  BY <1>1, <1>2, <1>3, <1>4, <1>5, <1>6, <1>7, <1>8 DEF Next, Runners, Runner, Limits, Readers

-----------------------------------------------------------------------------
(* Every step preserves the invariant.                                     *)

(* An action of a runner, a child or a reader, and one that is not.        *)
OfJob(j) == Runner(j) \/ Expire(j) \/ Read(j) \/ Write(j) \/ Exit(j)
OfServer == RequestShutdown \/ CloseServer \/ StopServing \/ ExitServer

(* Every step keeps the status in agreement with the place of the runners. *)
LEMMA StatusStep ==
    ASSUME TypeOK, use \in Uses, StatusOK, [Next]_vars
    PROVE  StatusOK'
<1> USE DEF manager, runner, worker, server, Transition, Active, Verdicts, Working, Early, Goto, Decide
<1>0. jobs \in 0 .. MaxJobs /\ pc \in [Jobs -> Places] /\ Jobs = 1 .. MaxJobs /\ MaxJobs \in Nat
  BY JobBounds DEF TypeOK, Places, Fates
<1>1. ASSUME UNCHANGED <<status, active_job, jobs, pc, verdict>>
      PROVE  StatusOK'
  BY <1>1 DEF StatusOK
<1>2. CASE Start
  <2>1. jobs + 1 \in Jobs /\ None \notin Nat
    BY <1>0, <1>2, ScriptsAreLines, JobAssumption DEF Start
  <2>2. active_job = None
    BY <1>2 DEF Start, StatusOK
  <2>3. \A j \in Jobs : pc[j] \notin Working
    BY <2>2, <2>1, <1>0 DEF StatusOK
  <2>4. /\ pc' = [pc EXCEPT ![jobs + 1] = "launch"] /\ jobs' = jobs + 1
        /\ active_job' = jobs + 1 /\ status' = "starting" /\ verdict' = verdict
    BY <1>2 DEF Start
  <2>5. QED
    BY <1>0, <2>1, <2>3, <2>4 DEF StatusOK
<1>3. CASE Cancel
  BY <1>3 DEF Cancel, CancelActive, StatusOK
<1>4. ASSUME NEW j \in Jobs, Launch(j) \/ Spawn(j) \/ LoopEnds(j) \/ Judge(j) \/ Raise(j)
      PROVE  StatusOK'
  <2>1. \E to \in Working : pc' = [pc EXCEPT ![j] = to] /\ pc[j] \in Working
    BY <1>4 DEF Launch, Spawn, LoopEnds, Judge, Raise
  <2>2. UNCHANGED <<status, active_job, jobs>>
    BY <1>4 DEF Launch, Spawn, LoopEnds, Judge, Raise
  <2>3. \A k \in Jobs : pc'[k] = "finish" => verdict'[k] \in Verdicts
    <3>1. \/ verdict' = verdict /\ (pc'[j] # "finish")
          \/ verdict' = [verdict EXCEPT ![j] = verdict'[j]] /\ verdict'[j] \in Verdicts
      BY <1>0, <1>4, ZenonT(60) DEF Launch, Spawn, LoopEnds, Judge, Raise, TypeOK, Places
    <3>2. \A k \in Jobs : k # j => pc'[k] = pc[k] /\ verdict'[k] = verdict[k]
      BY <1>0, <2>1, <3>1 DEF TypeOK
    <3>3. QED
      BY <3>1, <3>2 DEF StatusOK
  <2>4. QED
    BY <1>0, <2>1, <2>2, <2>3 DEF StatusOK
<1>5. ASSUME NEW j \in Jobs, Adopt(j) \/ Iterate(j) \/ Take(j)
      PROVE  StatusOK'
  <2>1. \E to \in Working \ {"finish"} : pc' = [pc EXCEPT ![j] = to] /\ pc[j] \in Working
    BY <1>5 DEF Adopt, Iterate, Stop, Take
  <2>2. UNCHANGED <<active_job, jobs, verdict>>
    BY <1>5 DEF Adopt, Iterate, Take
  <2>3. status' = status \/ (status' = "running" /\ active_job = j)
    BY <1>5 DEF Adopt, Iterate, Take
  <2>4. active_job = j
    BY <2>1 DEF StatusOK
  <2>5. PICK to \in Working \ {"finish"} : pc' = [pc EXCEPT ![j] = to]
    BY <2>1
  <2>6. \A k \in Jobs : pc'[k] = IF k = j THEN to ELSE pc[k]
    BY <1>0, <2>5
  <2>7. status' \in Active <=> status \in Active
    BY <2>3, <2>1, <2>4, JobAssumption, JobBounds DEF StatusOK
  <2>8. QED
    BY <2>1, <2>2, <2>4, <2>5, <2>6, <2>7 DEF StatusOK
<1>6. ASSUME NEW j \in Jobs, Finish(j)
      PROVE  StatusOK'
  <2>1. active_job = j /\ verdict[j] \in Verdicts /\ pc[j] = "finish"
    BY <1>6 DEF Finish, StatusOK
  <2>2. /\ pc' = [pc EXCEPT ![j] = "clear"] /\ status' = verdict[j] /\ active_job' = None
        /\ UNCHANGED <<jobs, verdict>>
    BY <1>6, <2>1 DEF Finish
  <2>3. \A k \in Jobs : k # None
    BY JobAssumption, JobBounds
  <2>4. \A k \in Jobs : pc'[k] = IF k = j THEN "clear" ELSE pc[k]
    BY <1>0, <2>2
  <2>5. status' \notin Active
    BY <2>1, <2>2
  <2>6. \A k \in Jobs : pc'[k] \notin Working
    BY <2>1, <2>4 DEF StatusOK
  <2>7. j <= jobs
    BY <2>1, <1>0 DEF StatusOK
  <2>8. QED
    BY <1>0, <2>2, <2>3, <2>4, <2>5, <2>6, <2>7 DEF StatusOK
<1>7. ASSUME NEW j \in Jobs, Clear(j)
      PROVE  StatusOK'
  <2>1. /\ pc' = [pc EXCEPT ![j] = "over"] /\ verdict' = [verdict EXCEPT ![j] = "none"]
        /\ UNCHANGED <<status, active_job, jobs>> /\ pc[j] = "clear"
    BY <1>7 DEF Clear
  <2>2. /\ \A k \in Jobs : pc'[k] = IF k = j THEN "over" ELSE pc[k]
        /\ \A k \in Jobs : k # j => verdict'[k] = verdict[k]
    BY <1>0, <2>1 DEF TypeOK
  <2>3. j <= jobs
    BY <1>0, <2>1 DEF StatusOK
  <2>4. QED
    BY <1>0, <2>1, <2>2, <2>3 DEF StatusOK
<1>8. ASSUME NEW j \in Jobs, Expire(j) \/ Read(j) \/ Write(j) \/ Exit(j)
      PROVE  StatusOK'
  BY <1>1, <1>8 DEF Expire, Read, Write, Exit
<1>9. CASE OfServer \/ UNCHANGED vars
  BY <1>1, <1>9 DEF OfServer, RequestShutdown, CloseServer, StopServing, ExitServer, vars
<1>10. ASSUME NEW c \in Closers, Closer(c)
       PROVE  StatusOK'
  <2>1. UNCHANGED <<active_job, jobs, pc, verdict>>
    BY <1>10 DEF Closer, EnterShutdown, CancelForShutdown, JoinRunner, KillChild
  <2>2. status' = status \/ (status \in Active /\ status' = "cancelling")
    BY <1>10 DEF Closer, EnterShutdown, CancelForShutdown, JoinRunner, KillChild, CancelActive
  <2>3. QED
    BY <2>1, <2>2 DEF StatusOK
<1>11. QED
  BY <1>2, <1>3, <1>4, <1>5, <1>6, <1>7, <1>8, <1>9, <1>10
     DEF Next, Runners, Runner, Limits, Readers, OfServer

(* Every step keeps a child that is up under a runner that looks after it. *)
LEMMA ChildStep ==
    ASSUME TypeOK, use \in Uses, StatusOK, ChildOK, [Next]_vars
    PROVE  ChildOK'
<1> USE DEF manager, runner, worker, server, Goto, Decide, Up, Terminate
<1>0. /\ pc \in [Jobs -> Places] /\ child \in [Jobs -> Fates] /\ written \in [Jobs -> Nat]
      /\ process \in Jobs \cup {None} /\ jobs \in 0 .. MaxJobs
      /\ Jobs = 1 .. MaxJobs /\ MaxJobs \in Nat
  BY JobBounds DEF TypeOK, Places, Fates
<1>1. ASSUME UNCHANGED <<pc, process, written>>, \A k \in Jobs : child'[k] = "up" => child[k] = "up"
      PROVE  ChildOK'
  BY <1>1 DEF ChildOK
<1>2. CASE Start
  <2>1. jobs + 1 \in Jobs
    BY <1>0, <1>2, ScriptsAreLines DEF Start
  <2>2. pc[jobs + 1] = "none"
    BY <1>0, <2>1 DEF StatusOK
  <2>3. /\ pc' = [pc EXCEPT ![jobs + 1] = "launch"]
        /\ UNCHANGED <<process, child, written>>
    BY <1>2 DEF Start
  <2>4. QED
    BY <1>0, <2>1, <2>2, <2>3 DEF ChildOK
<1>3. ASSUME NEW j \in Jobs, Launch(j) \/ LoopEnds(j) \/ Judge(j) \/ Finish(j) \/ Take(j)
      PROVE  ChildOK'
  <2>1. UNCHANGED <<process, child, written>>
    BY <1>3 DEF Launch, LoopEnds, Judge, Finish, Take
  <2>2. \/ pc[j] \in {"launch", "judge", "finish"} /\ \E to \in Places : pc' = [pc EXCEPT ![j] = to]
        \/ pc[j] = "loop" /\ ~Up(j) /\ pc' = [pc EXCEPT ![j] = "judge"]
        \/ pc[j] = "take" /\ pc' = [pc EXCEPT ![j] = "loop"]
    BY <1>3 DEF Launch, LoopEnds, Through, Judge, Finish, Take, Places
  <2>3. ~Up(j) \/ pc[j] = "take"
    BY <1>3, <2>2 DEF ChildOK
  <2>4. pc[j] = "launch" => written[j] = 0
    BY DEF ChildOK
  <2>5. pc'[j] \in {"none", "launch", "spawn"} => pc[j] = "launch"
    BY <1>0, <1>3 DEF Launch, LoopEnds, Judge, Finish, Take
  <2>6. QED
    BY <1>0, <2>1, <2>2, <2>3, <2>4, <2>5 DEF ChildOK
<1>4. ASSUME NEW j \in Jobs, Spawn(j)
      PROVE  ChildOK'
  BY <1>0, <1>4 DEF Spawn, ChildOK
<1>5. ASSUME NEW j \in Jobs, Adopt(j)
      PROVE  ChildOK'
  <2>1. \A k \in Jobs \ {j} : pc[k] \notin Working
    BY <1>5 DEF Adopt, StatusOK
  <2>2. \A k \in Jobs \ {j} : ~Up(k)
    BY <2>1 DEF ChildOK, Working, Early
  <2>3. QED
    BY <1>0, <1>5, <2>2 DEF Adopt, ChildOK
<1>6. ASSUME NEW j \in Jobs, Iterate(j)
      PROVE  ChildOK'
  <2>1. /\ UNCHANGED <<process, written>> /\ pc[j] = "loop" /\ pc' = [pc EXCEPT ![j] = "take"]
    BY <1>6 DEF Iterate, Stop
  <2>2. \A k \in Jobs : child'[k] = "up" => child[k] = "up"
    BY <1>0, <1>6 DEF Iterate, Stop
  <2>3. QED
    BY <1>0, <2>1, <2>2 DEF ChildOK
<1>7. ASSUME NEW j \in Jobs, Raise(j)
      PROVE  ChildOK'
  BY <1>0, <1>7 DEF Raise, ChildOK
<1>8. ASSUME NEW j \in Jobs, Clear(j)
      PROVE  ChildOK'
  BY <1>0, <1>8 DEF Clear, ChildOK
<1>9. ASSUME NEW j \in Jobs, Expire(j) \/ Read(j) \/ Exit(j)
      PROVE  ChildOK'
  <2>1. UNCHANGED <<pc, process, written>>
    BY <1>9 DEF Expire, Read, Exit
  <2>2. \A k \in Jobs : child'[k] = "up" => child[k] = "up"
    BY <1>0, <1>9 DEF Expire, Read, Exit
  <2>3. QED
    BY <1>1, <2>1, <2>2
<1>10. ASSUME NEW j \in Jobs, Write(j)
       PROVE  ChildOK'
  BY <1>0, <1>10 DEF Write, ChildOK
<1>11. CASE OfServer \/ Cancel \/ UNCHANGED vars
  BY <1>1, <1>11 DEF OfServer, RequestShutdown, CloseServer, StopServing, ExitServer, Cancel, vars
<1>12. ASSUME NEW c \in Closers, Closer(c)
       PROVE  ChildOK'
  <2>1. UNCHANGED <<pc, process, written>>
    BY <1>12 DEF Closer, EnterShutdown, CancelForShutdown, JoinRunner, KillChild
  <2>2. \A k \in Jobs : child'[k] = "up" => child[k] = "up"
    BY <1>0, <1>12 DEF Closer, EnterShutdown, CancelForShutdown, JoinRunner, KillChild
  <2>3. QED
    BY <1>1, <2>1, <2>2
<1>13. QED
  BY <1>2, <1>3, <1>4, <1>5, <1>6, <1>7, <1>8, <1>9, <1>10, <1>11, <1>12
     DEF Next, Runners, Runner, Limits, Readers, OfServer

(* Every step keeps at most one closer between its entry and its end.      *)
LEMMA CloserStep ==
    ASSUME TypeOK, CloserOK, [Next]_vars
    PROVE  CloserOK'
<1> USE DEF manager, runner, worker, server, Middle, At
<1>0. closing \in [Closers -> {"no", "enter", "cancel", "join", "kill", "done"}]
  BY DEF TypeOK
<1>1. ASSUME UNCHANGED <<components_shutdown, closing, exited>>
      PROVE  CloserOK'
  BY <1>1 DEF CloserOK
<1>2. CASE Start \/ Cancel \/ StopServing \/ UNCHANGED vars
  BY <1>1, <1>2 DEF Start, Cancel, StopServing, vars
<1>3. CASE ExitServer
  BY <1>3 DEF ExitServer, CloserOK
<1>4. ASSUME NEW j \in Jobs, OfJob(j)
      PROVE  CloserOK'
  BY <1>1, <1>4 DEF OfJob, Runner, Launch, Spawn, Adopt, Iterate, Take, LoopEnds, Judge, Raise, Finish, Clear,
                    Expire, Read, Write, Exit
<1>5. CASE RequestShutdown \/ CloseServer
  <2>1. PICK c \in Closers : closing[c] = "no" /\ closing' = [closing EXCEPT ![c] = "enter"]
    BY <1>5 DEF RequestShutdown, CloseServer, Closers
  <2>2. \A d \in Closers : closing'[d] = IF d = c THEN "enter" ELSE closing[d]
    BY <1>0, <2>1
  <2>3. UNCHANGED <<components_shutdown, exited>>
    BY <1>5 DEF RequestShutdown, CloseServer
  <2>4. "main" \in Closers
    BY DEF Closers
  <2>5. QED
    BY <2>1, <2>2, <2>3, <2>4 DEF CloserOK
<1>6. ASSUME NEW c \in Closers, EnterShutdown(c)
      PROVE  CloserOK'
  <2>1. PICK to \in {"cancel", "join", "done"} : /\ closing' = [closing EXCEPT ![c] = to]
                                                 /\ components_shutdown <=> to = "done"
    BY <1>6 DEF EnterShutdown, TypeOK
  <2>2. \A d \in Closers : closing'[d] = IF d = c THEN to ELSE closing[d]
    BY <1>0, <2>1
  <2>3. components_shutdown' = TRUE /\ exited' = exited /\ closing[c] = "enter"
    BY <1>6 DEF EnterShutdown
  <2>4. "main" \in Closers
    BY DEF Closers
  <2>5. QED
    BY <2>1, <2>2, <2>3, <2>4 DEF CloserOK
<1>7. ASSUME NEW c \in Closers, CancelForShutdown(c) \/ JoinRunner(c) \/ KillChild(c)
      PROVE  CloserOK'
  <2>1. PICK to \in {"join", "kill", "done"} : /\ closing' = [closing EXCEPT ![c] = to]
                                               /\ closing[c] \in Middle
    BY <1>7 DEF CancelForShutdown, JoinRunner, KillChild
  <2>2. \A d \in Closers : closing'[d] = IF d = c THEN to ELSE closing[d]
    BY <1>0, <2>1
  <2>3. UNCHANGED <<components_shutdown, exited>>
    BY <1>7 DEF CancelForShutdown, JoinRunner, KillChild
  <2>4. "main" \in Closers
    BY DEF Closers
  <2>5. QED
    BY <2>1, <2>2, <2>3, <2>4 DEF CloserOK
<1>8. QED
  BY <1>2, <1>3, <1>4, <1>5, <1>6, <1>7
     DEF Next, Runners, Limits, Readers, OfJob, Closer

(* Every step keeps unseen a bound on the jobs whose children a shutdown can *)
(* miss.                                                                   *)
LEMMA UnseenStep ==
    ASSUME TypeOK, use \in Uses, StatusOK, ChildOK, CloserOK, UnseenOK, [Next]_vars
    PROVE  UnseenOK'
<1> USE DEF manager, runner, worker, server, Middle, Early, At, Up, Goto, Decide, Terminate
<1>0. /\ closing \in [Closers -> {"no", "enter", "cancel", "join", "kill", "done"}]
      /\ joined \in [Closers -> 0 .. MaxJobs]
      /\ pc \in [Jobs -> Places] /\ child \in [Jobs -> Fates]
      /\ jobs \in 0 .. MaxJobs /\ Jobs = 1 .. MaxJobs /\ MaxJobs \in Nat
  BY JobBounds DEF TypeOK, Places, Fates
(* A step of a job keeps what is known, if no runner gets early by it and  *)
(* only early ones get a child.                                            *)
<1>1. ASSUME UNCHANGED <<closing, joined, jobs, unseen>>,
             \A k \in Jobs : pc'[k] \in Early => pc[k] \in Early,
             \A k \in Jobs : child'[k] = "up" => child[k] = "up" \/ pc[k] \in Early
      PROVE  UnseenOK'
  BY <1>1 DEF UnseenOK
<1>2. CASE Start
  <2>1. jobs + 1 \in Jobs
    BY <1>0, <1>2, ScriptsAreLines DEF Start
  <2>2. /\ pc' = [pc EXCEPT ![jobs + 1] = "launch"] /\ jobs' = jobs + 1
        /\ UNCHANGED <<closing, joined, child>> /\ unseen \subseteq unseen'
        /\ (\E c \in Closers : closing[c] \in {"join", "kill", "done"}) => jobs + 1 \in unseen'
    BY <1>2 DEF Start
  <2>3. \A k \in Jobs : pc'[k] = IF k = jobs + 1 THEN "launch" ELSE pc[k]
    BY <1>0, <2>1, <2>2
  <2>4. QED
    BY <1>0, <2>2, <2>3 DEF UnseenOK
<1>3. ASSUME NEW j \in Jobs, Launch(j) \/ Spawn(j) \/ Adopt(j)
      PROVE  UnseenOK'
  <2>1. /\ UNCHANGED <<closing, joined, jobs, unseen>>
        /\ \A k \in Jobs : pc'[k] \in Early => pc[k] \in Early
        /\ \A k \in Jobs : child'[k] = "up" => child[k] = "up" \/ pc[k] \in Early
    BY <1>0, <1>3 DEF Launch, Spawn, Adopt
  <2>2. QED
    BY <1>1, <2>1
<1>4. ASSUME NEW j \in Jobs, Iterate(j) \/ Take(j) \/ LoopEnds(j) \/ Judge(j)
      PROVE  UnseenOK'
  <2>1. /\ UNCHANGED <<closing, joined, jobs, unseen>>
        /\ \A k \in Jobs : pc'[k] \in Early => pc[k] \in Early
        /\ \A k \in Jobs : child'[k] = "up" => child[k] = "up" \/ pc[k] \in Early
    BY <1>0, <1>4 DEF Iterate, Stop, Take, LoopEnds, Judge
  <2>2. QED
    BY <1>1, <2>1
<1>5. ASSUME NEW j \in Jobs, Raise(j) \/ Finish(j) \/ Clear(j) \/ Expire(j)
      PROVE  UnseenOK'
  <2>1. /\ UNCHANGED <<closing, joined, jobs, unseen>>
        /\ \A k \in Jobs : pc'[k] \in Early => pc[k] \in Early
        /\ \A k \in Jobs : child'[k] = "up" => child[k] = "up" \/ pc[k] \in Early
    BY <1>0, <1>5 DEF Raise, Finish, Clear, Expire
  <2>2. QED
    BY <1>1, <2>1
<1>6. ASSUME NEW j \in Jobs, Read(j) \/ Write(j) \/ Exit(j)
      PROVE  UnseenOK'
  <2>1. /\ UNCHANGED <<closing, joined, jobs, unseen, pc>>
        /\ \A k \in Jobs : child'[k] = "up" => child[k] = "up" \/ pc[k] \in Early
    BY <1>0, <1>6 DEF Read, Write, Exit
  <2>2. QED
    BY <1>1, <2>1
<1>7. CASE Cancel \/ StopServing \/ ExitServer \/ UNCHANGED vars
  BY <1>1, <1>7 DEF Cancel, StopServing, ExitServer, vars
<1>8. CASE RequestShutdown \/ CloseServer
  <2>1. PICK c \in Closers : closing[c] = "no" /\ closing' = [closing EXCEPT ![c] = "enter"]
    BY <1>8 DEF RequestShutdown, CloseServer, Closers
  <2>2. \A d \in Closers : closing'[d] = IF d = c THEN "enter" ELSE closing[d]
    BY <1>0, <2>1
  <2>3. UNCHANGED <<joined, jobs, unseen, pc, child>>
    BY <1>8 DEF RequestShutdown, CloseServer
  <2>4. QED
    BY <2>1, <2>2, <2>3 DEF UnseenOK
<1>9. ASSUME NEW c \in Closers, EnterShutdown(c)
      PROVE  UnseenOK'
  <2>1. PICK to \in {"cancel", "join", "done"} : /\ closing' = [closing EXCEPT ![c] = to]
                                                 /\ components_shutdown <=> to = "done"
    BY <1>9 DEF EnterShutdown, TypeOK
  <2>2. /\ \A d \in Closers : closing'[d] = IF d = c THEN to ELSE closing[d]
        /\ \A d \in Closers : joined'[d] = IF d = c THEN jobs ELSE joined[d]
    BY <1>0, <1>9, <2>1 DEF EnterShutdown
  <2>3. UNCHANGED <<jobs, unseen, pc, child>> /\ closing[c] = "enter"
    BY <1>9 DEF EnterShutdown
  <2>4. to = "done" => \E d \in Closers : d # c /\ closing[d] \in Middle \cup {"done"}
    BY <2>1, <2>3 DEF CloserOK
  <2>5. to # "done" => \A d \in Closers : closing[d] \notin Middle \cup {"done"}
    BY <2>1 DEF CloserOK
  <2>6. (\E d \in Closers : closing'[d] = "done") /\ (\A d \in Closers : closing'[d] \notin Middle)
        => (\E d \in Closers : closing[d] = "done") /\ (\A d \in Closers : closing[d] \notin Middle)
    BY <2>1, <2>2, <2>3, <2>4, <2>5
  <2>7. QED
    BY <1>0, <2>1, <2>2, <2>3, <2>6 DEF UnseenOK
<1>10. ASSUME NEW c \in Closers, CancelForShutdown(c)
       PROVE  UnseenOK'
  <2>1. /\ \A d \in Closers : closing'[d] = IF d = c THEN "join" ELSE closing[d]
        /\ \A d \in Closers : joined'[d] = IF d = c THEN jobs ELSE joined[d]
        /\ UNCHANGED <<jobs, unseen, pc, child>> /\ closing[c] = "cancel"
    BY <1>0, <1>10 DEF CancelForShutdown
  <2>2. QED
    BY <1>0, <2>1, SMTT(30) DEF UnseenOK
<1>11. ASSUME NEW c \in Closers, JoinRunner(c)
       PROVE  UnseenOK'
  <2>1. /\ \A d \in Closers : closing'[d] = IF d = c THEN "kill" ELSE closing[d]
        /\ UNCHANGED <<jobs, joined, pc, child>> /\ closing[c] = "join"
        /\ unseen \subseteq unseen'
        /\ joined[c] # 0 /\ pc[joined[c]] \in Early => joined[c] \in unseen'
    BY <1>0, <1>11 DEF JoinRunner
  <2>2. ASSUME NEW j \in Jobs, pc[j] \in Early
        PROVE  j \in unseen'
    <3>1. j = jobs
      BY <1>0, <2>2, JobAssumption DEF StatusOK, Working
    <3>2. CASE joined[c] < j
      <4>1. j <= jobs
        BY <1>0, <3>1
      <4>2. j \in unseen
        BY <2>1, <3>2, <4>1 DEF UnseenOK
      <4>3. QED
        BY <2>1, <4>2
    <3>3. CASE joined[c] = j
      BY <1>0, <2>1, <2>2, <3>3
    <3>4. QED
      BY <1>0, <2>1, <3>1, <3>2, <3>3 DEF UnseenOK
  <2>3. QED
    BY <2>1, <2>2 DEF UnseenOK
<1>12. ASSUME NEW c \in Closers, KillChild(c)
       PROVE  UnseenOK'
  <2>1. /\ \A d \in Closers : closing'[d] = IF d = c THEN "done" ELSE closing[d]
        /\ \A d \in Closers : d # c => joined'[d] = joined[d]
        /\ UNCHANGED <<jobs, unseen, pc>> /\ closing[c] = "kill"
    BY <1>0, <1>12 DEF KillChild
  <2>2. ASSUME NEW j \in Jobs, child'[j] = "up"
        PROVE  child[j] = "up" /\ process # j
    BY <1>0, <1>12, <2>2, JobAssumption DEF KillChild
  <2>3. \A j \in Jobs : pc[j] \in Early \/ child'[j] = "up" => j \in unseen
    BY <2>1, <2>2 DEF UnseenOK, ChildOK
  <2>4. QED
    BY <2>1, <2>3 DEF UnseenOK
<1>13. QED
  BY <1>2, <1>3, <1>4, <1>5, <1>6, <1>7, <1>8, <1>9, <1>10, <1>11, <1>12
     DEF Next, Runners, Runner, Limits, Readers, Closer

(* JobInv holds in every reachable state.                                  *)
THEOREM JobInvariant == Spec => []JobInv
<1>1. Init => JobInv
  <2> SUFFICES ASSUME Init
               PROVE  JobInv
    OBVIOUS
  <2> USE DEF Init
  <2>1. Fresh \in [sequence : Nat \ {0}, phase : 0 .. Phases, progress : 0 .. 100,
                   terminals : Nat, metrics : BOOLEAN, failure : BOOLEAN, terminated : BOOLEAN]
    BY JobBounds DEF Fresh
  <2>2. 0 \in 0 .. MaxJobs /\ QueueSlots >= 0
    BY JobBounds
  <2>3. /\ written \in [Jobs -> Nat] /\ read \in [Jobs -> Nat]
        /\ messages \in [Jobs -> Seq(Lines)] /\ script \in [Jobs -> use.scripts \cup {<<>>}]
        /\ seen \in [Jobs -> [sequence : Nat \ {0}, phase : 0 .. Phases, progress : 0 .. 100,
                              terminals : Nat, metrics : BOOLEAN, failure : BOOLEAN,
                              terminated : BOOLEAN]]
    BY <2>1
  <2>4. \A j \in Jobs : /\ read[j] <= written[j] /\ written[j] <= Len(script[j])
                        /\ Len(messages[j]) <= QueueSlots
    BY <2>2
  <2>5. TypeOK
    BY <2>2, <2>3, <2>4 DEF TypeOK
  <2>6. StatusOK
    BY JobAssumption DEF StatusOK, Active, Working, Early, Jobs
  <2>7. ChildOK /\ CloserOK /\ UnseenOK
    BY DEF ChildOK, Up, CloserOK, UnseenOK, Middle, Early
  <2>8. QED
    BY <2>5, <2>6, <2>7 DEF JobInv
<1>2. JobInv /\ [Next]_vars => JobInv'
  <2> SUFFICES ASSUME JobInv, [Next]_vars
               PROVE  JobInv'
    OBVIOUS
  <2> USE DEF JobInv
  <2>1. TypeOK'
    <3>1. WiresOK'
      BY WorkerTypes
    <3>2. seen' \in [Jobs -> Views]
      BY SeenTypes
    <3>3. QED
      BY <3>1, <3>2, ManagerTypes, RunnerTypes, UseIsFixed, ZenonT(60)
         DEF TypeOK, WiresOK, Views, Places, Fates
  <2>2. use' \in Uses
    BY UseIsFixed
  <2>3. QED
    BY <2>1, <2>2, StatusStep, ChildStep, CloserStep, UnseenStep
<1>3. QED
  BY <1>1, <1>2, PTL DEF Spec

(* A validation child that runs is that of the one active job while the    *)
(* server lives, and a shutdown leaves only children it could not know of. *)
THEOREM JobsOwnTheirChildren == Spec => []ChildrenAreOwned
<1>1. JobInv => ChildrenAreOwned
  <2> SUFFICES ASSUME JobInv
               PROVE  ChildrenAreOwned
    OBVIOUS
  <2>1. OwnedByActiveJob
    BY DEF JobInv, StatusOK, ChildOK, OwnedByActiveJob, Working, Early
  <2>2. NothingLeft
    <3>1. ASSUME exited, closing["stop"] \notin Middle
          PROVE  \A j \in Jobs : Up(j) => j \in unseen
      <4>1. closing["main"] = "done" /\ \A c \in Closers : closing[c] \notin Middle
        BY <3>1 DEF JobInv, CloserOK, Closers, Middle
      <4>2. QED
        BY <4>1 DEF JobInv, UnseenOK, Closers
    <3>2. QED
      BY <3>1 DEF NothingLeft, Middle
  <2>3. QED
    BY <2>1, <2>2 DEF JobInv, ChildrenAreOwned
<1>2. QED
  BY <1>1, JobInvariant, PTL

-----------------------------------------------------------------------------
(* Recursion over the lines of an output.                                  *)

(* A set of numbers that has 0, and with a number the next, has them all.  *)
LEMMA Induction ==
    ASSUME NEW T, 0 \in T, \A n \in Nat : n \in T => n + 1 \in T
    PROVE  \A n \in Nat : n \in T
<1> SUFFICES ASSUME NEW z \in Nat, z \notin T PROVE FALSE
  OBVIOUS
<1>1. PICK x \in Nat \ T : \A y \in Nat \ T : ~(<<y, x>> \in OpToRel(<, Nat))
  <2>1. Nat \ T \subseteq Nat /\ Nat \ T # {}
    OBVIOUS
  <2>2. QED
    BY <2>1, NatLessThanWellFounded, WFMin
<1>2. x # 0 /\ x - 1 \in Nat
  OBVIOUS
<1>3. x - 1 \in T
  <2>1. <<x - 1, x>> \in OpToRel(<, Nat)
    BY <1>2 DEF OpToRel
  <2>2. QED
    BY <1>1, <1>2, <2>1
<1>4. QED
  BY <1>2, <1>3

(* The events of the first lines of an output, line by line.               *)
Sifted(o, n, f) ==
    f = [i \in 0 .. n |->
            IF i = 0 THEN <<>>
            ELSE IF o[i].kind = "noise" THEN f[i - 1]
            ELSE Append(f[i - 1], o[i])]

LEMMA SiftedExists ==
    ASSUME NEW o, NEW n \in Nat
    PROVE  \E f : Sifted(o, n, f)
<1> DEFINE More(e, i) == IF o[i].kind = "noise" THEN e ELSE Append(e, o[i])
           T == {k \in Nat : \E f : Sifted(o, k, f)}
<1>1. 0 \in T
  <2>1. Sifted(o, 0, [i \in 0 .. 0 |-> <<>>])
    BY DEF Sifted
  <2>2. QED
    BY <2>1
<1>2. ASSUME NEW k \in Nat, k \in T
      PROVE  k + 1 \in T
  <2>1. PICK f : Sifted(o, k, f)
    BY <1>2
  <2> DEFINE g == [i \in 0 .. k + 1 |-> IF i <= k THEN f[i] ELSE More(f[k], k + 1)]
             h == [i \in 0 .. k + 1 |-> IF i = 0 THEN <<>> ELSE More(g[i - 1], i)]
  <2>2. \A i \in 0 .. k : f[i] = IF i = 0 THEN <<>> ELSE More(f[i - 1], i)
    BY <2>1 DEF Sifted
  <2>3. \A i \in 0 .. k + 1 : g[i] = h[i]
    <3> SUFFICES ASSUME NEW i \in 0 .. k + 1 PROVE g[i] = h[i]
      OBVIOUS
    <3>1. CASE i = 0
      BY <2>2, <3>1
    <3>2. CASE i \in 1 .. k
      <4>1. i - 1 \in 0 .. k + 1 /\ i - 1 <= k /\ i \in 0 .. k /\ i <= k /\ i # 0
        BY <3>2
      <4>2. g[i] = f[i] /\ g[i - 1] = f[i - 1]
        BY <4>1
      <4>3. f[i] = More(f[i - 1], i)
        BY <2>2, <4>1
      <4> HIDE DEF g, More
      <4>4. QED
        BY <4>1, <4>2, <4>3
    <3>3. CASE i = k + 1
      <4>1. i - 1 = k /\ i # 0 /\ ~(i <= k)
        BY <3>3
      <4>2. g[i] = More(f[k], i) /\ g[i - 1] = f[k]
        BY <3>3, <4>1
      <4> HIDE DEF g, More
      <4>3. QED
        BY <4>1, <4>2
    <3>4. QED
      BY <3>1, <3>2, <3>3
  <2>4. g = h
    <3>1. g = [i \in 0 .. k + 1 |-> g[i]] /\ h = [i \in 0 .. k + 1 |-> h[i]]
      OBVIOUS
    <3> HIDE DEF g, h
    <3>2. QED
      BY <2>3, <3>1
  <2>5. Sifted(o, k + 1, g)
    BY <2>4 DEF Sifted
  <2>6. QED
    BY <2>5
<1>3. n \in T
  <2> HIDE DEF T
  <2>1. QED
    BY <1>1, <1>2, Induction
<1>4. QED
  BY <1>3

LEMMA EventsAreSifted ==
    ASSUME NEW o, NEW n \in Nat
    PROVE  \E f : /\ Events(o, n) = f[n] /\ f[0] = <<>>
                  /\ \A i \in 1 .. n : f[i] = IF o[i].kind = "noise" THEN f[i - 1]
                                              ELSE Append(f[i - 1], o[i])
<1> DEFINE upto == CHOOSE f : Sifted(o, n, f)
<1>1. Sifted(o, n, upto)
  BY SiftedExists
<1>2. Events(o, n) = upto[n]
  BY DEF Events, Sifted
<1> HIDE DEF upto
<1>3. \A i \in 0 .. n : upto[i] = IF i = 0 THEN <<>>
                                  ELSE IF o[i].kind = "noise" THEN upto[i - 1]
                                  ELSE Append(upto[i - 1], o[i])
  BY <1>1 DEF Sifted
<1>4. 0 \in 0 .. n /\ \A i \in 1 .. n : i \in 0 .. n /\ i # 0
  OBVIOUS
<1>5. QED
  BY <1>2, <1>3, <1>4

(* The events grow by those of the next line.                              *)
LEMMA EventsGrow ==
    ASSUME NEW o
    PROVE  /\ Events(o, 0) = <<>>
           /\ \A n \in Nat : Events(o, n + 1) = IF o[n + 1].kind = "noise" THEN Events(o, n)
                                                ELSE Append(Events(o, n), o[n + 1])
<1>1. Events(o, 0) = <<>>
  <2>1. 0 \in Nat
    OBVIOUS
  <2>2. QED
    BY <2>1, EventsAreSifted
<1>2. ASSUME NEW n \in Nat
      PROVE  Events(o, n + 1) = IF o[n + 1].kind = "noise" THEN Events(o, n)
                                ELSE Append(Events(o, n), o[n + 1])
  <2> DEFINE More(e, i) == IF o[i].kind = "noise" THEN e ELSE Append(e, o[i])
  <2>1. PICK f : /\ Events(o, n) = f[n] /\ f[0] = <<>>
                 /\ \A i \in 1 .. n : f[i] = More(f[i - 1], i)
    BY EventsAreSifted
  <2>2. PICK g : /\ Events(o, n + 1) = g[n + 1] /\ g[0] = <<>>
                 /\ \A i \in 1 .. n + 1 : g[i] = More(g[i - 1], i)
    <3>1. n + 1 \in Nat
      OBVIOUS
    <3>2. QED
      BY <3>1, EventsAreSifted
  <2> DEFINE T == {k \in Nat : k <= n => f[k] = g[k]}
  <2>3. 0 \in T
    BY <2>1, <2>2
  <2>4. ASSUME NEW k \in Nat, k \in T
        PROVE  k + 1 \in T
    <3> SUFFICES ASSUME k + 1 <= n PROVE f[k + 1] = g[k + 1]
      OBVIOUS
    <3>1. k + 1 \in 1 .. n /\ k + 1 \in 1 .. n + 1 /\ (k + 1) - 1 = k /\ f[k] = g[k]
      BY <2>4
    <3> HIDE DEF More
    <3>2. f[k + 1] = More(f[k], k + 1) /\ g[k + 1] = More(g[k], k + 1)
      BY <2>1, <2>2, <3>1
    <3>3. QED
      BY <3>1, <3>2
  <2>5. \A k \in Nat : k \in T
    <3> HIDE DEF T
    <3>1. QED
      BY <2>3, <2>4, Induction
  <2>6. f[n] = g[n]
    BY <2>5
  <2>7. g[n + 1] = More(g[n], n + 1)
    <3>1. n + 1 \in 1 .. n + 1 /\ (n + 1) - 1 = n
      OBVIOUS
    <3> HIDE DEF More
    <3>2. QED
      BY <2>2, <3>1
  <2>8. QED
    BY <2>1, <2>2, <2>6, <2>7
<1>3. QED
  BY <1>1, <1>2

LEMMA EventsAreLines ==
    ASSUME NEW o \in Seq(Lines), NEW n \in 0 .. Len(o)
    PROVE  /\ Events(o, n) \in Seq(Lines)
           /\ \A i \in 1 .. Len(Events(o, n)) : Events(o, n)[i].kind # "noise"
<1> DEFINE Spoken(e) == e \in Seq(Lines) /\ \A i \in 1 .. Len(e) : e[i].kind # "noise"
           T == {k \in Nat : k <= Len(o) => Spoken(Events(o, k))}
<1>1. 0 \in T
  <2>1. Spoken(<<>>)
    OBVIOUS
  <2>2. QED
    BY <2>1, EventsGrow
<1>2. ASSUME NEW k \in Nat, k \in T
      PROVE  k + 1 \in T
  <2> SUFFICES ASSUME k + 1 <= Len(o) PROVE Spoken(Events(o, k + 1))
    OBVIOUS
  <2>1. Spoken(Events(o, k)) /\ o[k + 1] \in Lines
    BY <1>2
  <2>2. CASE o[k + 1].kind = "noise"
    BY <2>1, <2>2, EventsGrow
  <2>3. CASE o[k + 1].kind # "noise"
    <3>1. Events(o, k + 1) = Append(Events(o, k), o[k + 1])
      BY <2>3, EventsGrow
    <3>2. \A e \in Seq(Lines) : \A m \in Lines :
              Spoken(e) /\ m.kind # "noise" => Spoken(Append(e, m))
      OBVIOUS
    <3> HIDE DEF Spoken
    <3>3. Events(o, k) \in Seq(Lines)
      BY <2>1 DEF Spoken
    <3>4. QED
      BY <2>1, <2>3, <3>1, <3>2, <3>3
  <2>4. QED
    BY <2>2, <2>3
<1>3. \A k \in Nat : k \in T
  <2> HIDE DEF T
  <2>1. QED
    BY <1>1, <1>2, Induction
<1>4. QED
  BY <1>3
-----------------------------------------------------------------------------
(* What a runner makes of the output of its child.                         *)

(* A view s of the messages taken, a queue q of those to come, and the     *)
(* events e of the lines read, from which both come.                       *)
Taken(s) == s.sequence - 1

(* A view without a failure has counted what it took.                      *)
CountedOK(s) ==
    /\ Taken(s) = s.phase + s.terminals
    /\ s.terminals > 0 => s.phase = Phases
    /\ s.metrics <=> s.terminals > 0

(* Nothing was dropped, and what was taken was right.                      *)
Followed(s, q, e) ==
    /\ Len(e) = Taken(s) + Len(q)
    /\ \A k \in 1 .. Len(q) : q[k] = e[Taken(s) + k]
    /\ \A i \in 1 .. Taken(s) : Right(e, i)
    /\ s.progress = IF Taken(s) = 0 THEN 0 ELSE e[Taken(s)].progress

(* A message is dropped only when there are too many of them anyway.       *)
Overrun(s, q) == Taken(s) + Len(q) > Phases + 1

RightSoFar(e) == Len(e) <= Phases + 1 /\ \A i \in 1 .. Len(e) : Right(e, i)

EvidenceOK(s, q, e) ==
    /\ \A k \in 1 .. Len(q) : q[k].kind # "noise"
    /\ ~s.failure => CountedOK(s) /\ (Followed(s, q, e) \/ Overrun(s, q))

(* What is right so far has been taken for that, if there was time.        *)
BelievedOK(s, q, e) == RightSoFar(e) => ~s.failure /\ Followed(s, q, e)

(* The runner has seen nothing before its loop, and has seen all after it. *)
Before == {"none", "launch", "spawn", "adopt"}
During == {"loop", "take", "judge"}
OutputOK(j) ==
    /\ pc[j] \in Before => seen[j] = Fresh /\ messages[j] = <<>> /\ read[j] = 0
    /\ pc[j] \in During =>
           /\ EvidenceOK(seen[j], messages[j], Events(script[j], read[j]))
           /\ j \notin expired =>
                  BelievedOK(seen[j], messages[j], Events(script[j], read[j]))
    /\ pc[j] = "judge" => Through(j)
OutputInv == \A j \in Jobs : OutputOK(j)

(* One message against a view, field by field.                             *)
Expected(s, m) ==
    /\ m.seq = s.sequence /\ m.progress >= s.progress
    /\ \/ m.kind = "phase" /\ m.stage = s.phase + 1
       \/ m.kind = "result" /\ s.phase = Phases

LEMMA JudgedAsExpected ==
    ASSUME NEW s \in Views, NEW m \in Lines, m.kind # "noise"
    PROVE  LET t == Judged(s, m)
           IN  /\ ~t.failure <=> ~s.failure /\ Expected(s, m)
               /\ ~t.failure =>
                      /\ t.sequence = s.sequence + 1 /\ t.progress = m.progress
                      /\ m.kind = "phase" => /\ t.phase = s.phase + 1
                                             /\ t.terminals = s.terminals
                                             /\ t.metrics = s.metrics
                      /\ m.kind = "result" => /\ t.phase = s.phase
                                              /\ t.terminals = s.terminals + 1
                                              /\ t.metrics = TRUE
<1> DEFINE t == Judged(s, m)
           Counted(v) == [v EXCEPT !.sequence = @ + 1]
           Moved(v) == [v EXCEPT !.progress = m.progress]
           Fails(v) == [v EXCEPT !.failure = TRUE]
           Ended(v) == [v EXCEPT !.terminals = @ + 1]
           Measured(v) == [v EXCEPT !.metrics = TRUE]
           Phased(v) == [v EXCEPT !.phase = @ + 1]
           c == Counted(s)
           d == Moved(c)
           r == Ended(d)
<1>1. /\ c \in Views /\ c.sequence = s.sequence + 1 /\ c.phase = s.phase
      /\ c.terminals = s.terminals /\ c.metrics = s.metrics /\ c.failure = s.failure
  BY DEF Views
<1>2. m.kind \in {"phase", "result", "bad"} /\ m.progress \in 0 .. 100
  BY DEF Lines, Kinds
<1> HIDE DEF c
<1>3. /\ d \in Views /\ d.sequence = c.sequence /\ d.phase = c.phase
      /\ d.progress = m.progress
      /\ d.terminals = c.terminals /\ d.metrics = c.metrics /\ d.failure = c.failure
  BY <1>1, <1>2 DEF Views
<1> HIDE DEF d
<1>4. /\ r \in Views /\ r.sequence = d.sequence /\ r.phase = d.phase
      /\ r.progress = d.progress
      /\ r.terminals = d.terminals + 1 /\ r.metrics = d.metrics /\ r.failure = d.failure
  BY <1>3 DEF Views
<1> HIDE DEF r
<1>5. Fails(s).failure /\ Fails(c).failure /\ Fails(d).failure /\ Fails(r).failure
  BY <1>1, <1>3, <1>4 DEF Views
<1>6. /\ Phased(d).sequence = d.sequence /\ Phased(d).phase = d.phase + 1
      /\ Phased(d).progress = d.progress
      /\ Phased(d).terminals = d.terminals /\ Phased(d).metrics = d.metrics
      /\ Phased(d).failure = d.failure
  BY <1>3 DEF Views
<1>7. /\ Measured(r).sequence = r.sequence /\ Measured(r).phase = r.phase
      /\ Measured(r).progress = r.progress
      /\ Measured(r).terminals = r.terminals /\ Measured(r).metrics = TRUE
      /\ Measured(r).failure = r.failure
  BY <1>4 DEF Views
<1> DEFINE bad == m.kind = "bad" \/ m.seq # s.sequence
           back == m.progress < s.progress
           phase == m.kind = "phase"
           next == m.stage = s.phase + 1
           end == s.phase = Phases
<1>8. t = IF bad THEN Fails(s)
          ELSE IF back THEN Fails(c)
          ELSE IF phase THEN IF next THEN Phased(d) ELSE Fails(d)
          ELSE IF ~end THEN Fails(r)
          ELSE Measured(r)
  BY DEF Judged, c, d, r
<1>9. s.progress \in Nat /\ m.progress \in Nat
  BY <1>2 DEF Views
<1> HIDE DEF t, Fails, Phased, Measured, bad, back, phase, next, end
<1>10. CASE bad
  BY <1>5, <1>8, <1>10 DEF Expected, t, bad, back, phase, next, end
<1>11. CASE ~bad /\ back
  <2>1. t.failure
    BY <1>5, <1>8, <1>11
  <2>2. ~Expected(s, m)
    BY <1>9, <1>11 DEF Expected, bad, back, phase, next, end
  <2>3. QED
    BY <2>1, <2>2 DEF t
<1>12. CASE ~bad /\ ~back /\ phase /\ next
  <2>1. t = Phased(d)
    BY <1>8, <1>12
  <2>2. Expected(s, m)
    BY <1>9, <1>12 DEF Expected, bad, back, phase, next, end
  <2>3. /\ t.sequence = s.sequence + 1 /\ t.progress = m.progress
        /\ t.phase = s.phase + 1 /\ t.terminals = s.terminals /\ t.metrics = s.metrics
        /\ t.failure = s.failure
    BY <1>1, <1>3, <1>6, <2>1
  <2>4. QED
    BY <1>12, <2>2, <2>3 DEF t, phase
<1>13. CASE ~bad /\ ~back /\ phase /\ ~next
  <2>1. t = Fails(d)
    BY <1>8, <1>13
  <2>2. QED
    BY <1>5, <1>13, <2>1 DEF Expected, t, bad, back, phase, next, end
<1>14. CASE ~bad /\ ~back /\ ~phase /\ ~end
  <2>1. t = Fails(r)
    BY <1>8, <1>14
  <2>2. QED
    BY <1>5, <1>14, <2>1 DEF Expected, t, bad, back, phase, next, end
<1>15. CASE ~bad /\ ~back /\ ~phase /\ end
  <2>1. t = Measured(r)
    BY <1>8, <1>15
  <2>2. Expected(s, m)
    BY <1>2, <1>9, <1>15 DEF Expected, bad, back, phase, next, end
  <2>3. /\ t.sequence = s.sequence + 1 /\ t.progress = m.progress
        /\ t.phase = s.phase /\ t.terminals = s.terminals + 1 /\ t.metrics = TRUE
        /\ t.failure = s.failure
    BY <1>1, <1>3, <1>4, <1>7, <2>1
  <2>4. QED
    BY <1>15, <2>2, <2>3 DEF t, phase
<1>16. QED
  BY <1>10, <1>11, <1>12, <1>13, <1>14, <1>15

(* Numbers that the lemmas below compare.                                  *)
LEMMA ViewNumbers ==
    ASSUME NEW s \in Views
    PROVE  /\ Taken(s) \in Nat /\ s.sequence = Taken(s) + 1 /\ s.phase \in 0 .. Phases
           /\ s.terminals \in Nat /\ s.progress \in Nat /\ s.failure \in BOOLEAN
           /\ s.metrics \in BOOLEAN /\ Phases \in Nat
<1>1. /\ s.sequence \in Nat \ {0} /\ s.phase \in 0 .. Phases /\ s.progress \in 0 .. 100
      /\ s.terminals \in Nat /\ s.failure \in BOOLEAN /\ s.metrics \in BOOLEAN
  BY DEF Views
<1>2. s.phase \in 0 .. Phases /\ s.terminals \in Nat /\ s.failure \in BOOLEAN
      /\ s.metrics \in BOOLEAN
  BY <1>1
<1>3. s.progress \in Nat
  BY <1>1
<1>4. Taken(s) \in Nat /\ s.sequence = Taken(s) + 1
  BY <1>1 DEF Taken
<1>5. QED
  BY <1>2, <1>3, <1>4, JobBounds

(* Taking a message that was expected.                                     *)
LEMMA TakenIsRight ==
    ASSUME NEW s \in Views, NEW q \in Seq(Lines), q # <<>>, NEW e \in Seq(Lines),
           \A k \in 1 .. Len(q) : q[k].kind # "noise",
           CountedOK(s), ~s.failure, Expected(s, Head(q))
    PROVE  LET t == Judged(s, Head(q))
           IN  /\ ~t.failure /\ CountedOK(t)
               /\ Followed(s, q, e) => Followed(t, Tail(q), e)
               /\ Overrun(s, q) => Overrun(t, Tail(q))
<1> DEFINE m == Head(q)
           t == Judged(s, m)
           n == Taken(s)
<1>1. /\ m = q[1] /\ m \in Lines /\ m.kind # "noise" /\ Len(q) \in Nat /\ Len(q) >= 1
      /\ Tail(q) \in Seq(Lines) /\ Len(Tail(q)) = Len(q) - 1
      /\ \A k \in 1 .. Len(q) - 1 : Tail(q)[k] = q[k + 1]
  OBVIOUS
<1>2. m.kind \in {"phase", "result"} /\ m.stage \in 0 .. Phases /\ m.progress \in Nat
  <2>1. m.stage \in 0 .. Phases /\ m.progress \in 0 .. 100
    BY <1>1 DEF Lines
  <2>2. m.kind \in {"phase", "result"}
    BY DEF Expected
  <2>3. m.progress \in Nat
    <3> DEFINE g == m.progress
    <3>1. g \in 0 .. 100
      BY <2>1
    <3> HIDE DEF g
    <3>2. g \in Nat
      BY <3>1
    <3>3. QED
      BY <3>2 DEF g
  <2>4. QED
    BY <2>1, <2>2, <2>3
<1>3. /\ n \in Nat /\ s.sequence = n + 1 /\ s.phase \in 0 .. Phases
      /\ s.terminals \in Nat /\ s.progress \in Nat /\ s.metrics \in BOOLEAN /\ Phases \in Nat
  BY ViewNumbers
<1>4. /\ ~t.failure /\ t.sequence = s.sequence + 1 /\ t.progress = m.progress
      /\ m.kind = "phase" => /\ t.phase = s.phase + 1 /\ t.terminals = s.terminals
                             /\ t.metrics = s.metrics
      /\ m.kind = "result" => /\ t.phase = s.phase /\ t.terminals = s.terminals + 1
                              /\ t.metrics = TRUE
  BY <1>1, JudgedAsExpected
<1>5. /\ m.seq = n + 1 /\ m.progress >= s.progress
      /\ m.kind = "phase" => m.stage = s.phase + 1
      /\ m.kind = "result" => s.phase = Phases
  BY <1>3 DEF Expected
<1>6. n = s.phase + s.terminals /\ (s.terminals > 0 => s.phase = Phases)
      /\ (s.metrics <=> s.terminals > 0)
  BY DEF CountedOK
<1> HIDE DEF m, t, n
<1>7. Taken(t) = n + 1
  BY <1>3, <1>4 DEF Taken
<1>8. CountedOK(t)
  <2>1. CASE m.kind = "phase"
    <3>1. s.phase < Phases /\ s.terminals = 0
      BY <1>2, <1>3, <1>5, <1>6, <2>1
    <3>2. t.terminals = 0 /\ t.phase = s.phase + 1 /\ t.metrics = s.metrics
      BY <1>4, <2>1, <3>1
    <3>3. ~s.metrics
      BY <1>3, <1>6, <3>1
    <3>4. ~t.metrics
      BY <3>2, <3>3
    <3>5. QED
      BY <1>3, <1>6, <1>7, <3>1, <3>2, <3>4 DEF CountedOK
  <2>2. CASE m.kind = "result"
    <3>1. t.phase = Phases /\ t.terminals = s.terminals + 1 /\ s.phase = Phases
      BY <1>4, <1>5, <2>2
    <3>2. t.metrics
      BY <1>4, <2>2
    <3>3. QED
      BY <1>3, <1>6, <1>7, <3>1, <3>2, SMTT(30) DEF CountedOK
  <2>3. QED
    BY <1>2, <2>1, <2>2
<1>9. ASSUME Followed(s, q, e)
      PROVE  Followed(t, Tail(q), e)
  <2>1. /\ Len(e) = n + Len(q)
        /\ \A k \in 1 .. Len(q) : q[k] = e[n + k]
        /\ \A i \in 1 .. n : Right(e, i)
        /\ s.progress = IF n = 0 THEN 0 ELSE e[n].progress
    BY <1>9 DEF Followed, n
  <2>2. e[n + 1] = m
    BY <1>1, <2>1
  <2>3. Right(e, n + 1)
    <3>1. m.kind = IF n + 1 <= Phases THEN "phase" ELSE "result"
      BY <1>2, <1>3, <1>5, <1>6
    <3>2. n + 1 <= Phases => m.stage = n + 1
      BY <1>2, <1>3, <1>5, <1>6
    <3>3. n + 1 > 1 => m.progress >= e[(n + 1) - 1].progress
      BY <1>3, <1>5, <2>1
    <3>4. QED
      BY <1>5, <2>2, <3>1, <3>2, <3>3 DEF Right
  <2>4. \A i \in 1 .. n + 1 : Right(e, i)
    <3>1. \A i \in 1 .. n + 1 : i \in 1 .. n \/ i = n + 1
      BY <1>3
    <3>2. QED
      BY <2>1, <2>3, <3>1
  <2>5. \A k \in 1 .. Len(Tail(q)) : Tail(q)[k] = e[(n + 1) + k]
    <3> SUFFICES ASSUME NEW k \in 1 .. Len(Tail(q)) PROVE Tail(q)[k] = e[(n + 1) + k]
      OBVIOUS
    <3>1. k + 1 \in 1 .. Len(q) /\ k \in 1 .. Len(q) - 1 /\ n + (k + 1) = (n + 1) + k
      BY <1>1, <1>3
    <3>2. QED
      BY <1>1, <2>1, <3>1
  <2>6. Len(e) = (n + 1) + Len(Tail(q))
    BY <1>1, <1>3, <2>1
  <2>7. t.progress = e[n + 1].progress /\ n + 1 # 0
    BY <1>3, <1>4, <2>2
  <2>8. QED
    BY <1>7, <2>4, <2>5, <2>6, <2>7 DEF Followed
<1>10. ASSUME Overrun(s, q)
       PROVE  Overrun(t, Tail(q))
  <2>1. n + Len(q) > Phases + 1
    BY <1>10 DEF Overrun, n
  <2>2. QED
    BY <1>1, <1>3, <1>7, <2>1 DEF Overrun
<1>11. QED
  BY <1>4, <1>8, <1>9, <1>10 DEF t, m

LEMMA TakeEvidence ==
    ASSUME NEW s \in Views, NEW q \in Seq(Lines), q # <<>>, NEW e \in Seq(Lines),
           EvidenceOK(s, q, e)
    PROVE  /\ EvidenceOK(Judged(s, Head(q)), Tail(q), e)
           /\ BelievedOK(s, q, e) => BelievedOK(Judged(s, Head(q)), Tail(q), e)
<1> DEFINE m == Head(q)
           t == Judged(s, m)
           n == Taken(s)
<1>1. /\ m = q[1] /\ m \in Lines /\ Len(q) \in Nat /\ Len(q) >= 1
      /\ Len(Tail(q)) = Len(q) - 1
      /\ \A k \in 1 .. Len(q) - 1 : Tail(q)[k] = q[k + 1]
  OBVIOUS
<1>2. \A k \in 1 .. Len(q) : q[k].kind # "noise"
  BY DEF EvidenceOK
<1>3. ~t.failure <=> ~s.failure /\ Expected(s, m)
  <2>1. 1 \in 1 .. Len(q)
    BY <1>1
  <2>2. m.kind # "noise"
    BY <1>1, <1>2, <2>1
  <2>3. QED
    BY <1>1, <2>2, JudgedAsExpected
<1>4. \A k \in 1 .. Len(Tail(q)) : Tail(q)[k].kind # "noise"
  BY <1>1, <1>2
<1>5. ~t.failure => CountedOK(t) /\ (Followed(t, Tail(q), e) \/ Overrun(t, Tail(q)))
  <2> SUFFICES ASSUME ~t.failure
               PROVE  CountedOK(t) /\ (Followed(t, Tail(q), e) \/ Overrun(t, Tail(q)))
    OBVIOUS
  <2>1. ~s.failure /\ Expected(s, m)
    BY <1>3
  <2>2. CountedOK(s) /\ (Followed(s, q, e) \/ Overrun(s, q))
    BY <2>1 DEF EvidenceOK
  <2>3. QED
    BY <1>2, <2>1, <2>2, TakenIsRight
<1>6. EvidenceOK(t, Tail(q), e)
  BY <1>4, <1>5 DEF EvidenceOK
<1>7. ASSUME BelievedOK(s, q, e), RightSoFar(e)
      PROVE  ~t.failure /\ Followed(t, Tail(q), e)
  <2>1. ~s.failure /\ Followed(s, q, e) /\ CountedOK(s)
    BY <1>7 DEF BelievedOK, EvidenceOK
  <2>2. /\ n \in Nat /\ s.sequence = n + 1 /\ s.phase \in 0 .. Phases
        /\ s.terminals \in Nat /\ s.progress \in Nat /\ Phases \in Nat
    BY ViewNumbers
  <2>3. /\ Len(e) = n + Len(q) /\ e[n + 1] = m
        /\ s.progress = IF n = 0 THEN 0 ELSE e[n].progress
    BY <1>1, <2>1 DEF Followed
  <2>4. /\ n = s.phase + s.terminals /\ (s.terminals > 0 => s.phase = Phases)
    BY <2>1 DEF CountedOK
  <2>5. n + 1 \in 1 .. Len(e) /\ n + 1 <= Phases + 1
    BY <1>1, <1>7, <2>2, <2>3 DEF RightSoFar
  <2>6. Right(e, n + 1)
    BY <1>7, <2>5 DEF RightSoFar
  <2>8. m.progress \in 0 .. 100 /\ m.progress \in Nat
    <3>1. m.progress \in 0 .. 100
      BY <1>1 DEF Lines
    <3> DEFINE g == m.progress
    <3>2. g \in 0 .. 100
      BY <3>1
    <3> HIDE DEF g
    <3>3. g \in Nat
      BY <3>2
    <3>4. QED
      BY <3>1, <3>3 DEF g
  <2> HIDE DEF m, n
  <2>7. /\ m.kind = IF n + 1 <= Phases THEN "phase" ELSE "result"
        /\ m.seq = n + 1
        /\ n + 1 <= Phases => m.stage = n + 1
        /\ n + 1 > 1 => m.progress >= e[(n + 1) - 1].progress
    BY <2>3, <2>6 DEF Right
  <2>9. m.progress >= s.progress
    <3>1. CASE n = 0
      BY <2>2, <2>3, <2>8, <3>1
    <3>2. CASE n # 0
      <4>1. n + 1 > 1 /\ (n + 1) - 1 = n
        BY <2>2, <3>2
      <4>2. QED
        BY <2>3, <2>7, <3>2, <4>1
    <3>3. QED
      BY <3>1, <3>2
  <2>10. n + 1 <= Phases => s.phase = n
    BY <2>2, <2>4
  <2>11. ~(n + 1 <= Phases) => s.phase = Phases
    BY <2>2, <2>4, <2>5
  <2>12. Expected(s, m)
    BY <2>2, <2>7, <2>9, <2>10, <2>11 DEF Expected
  <2>13. QED
    BY <1>2, <2>1, <2>12, TakenIsRight DEF m
<1>8. QED
  BY <1>6, <1>7 DEF BelievedOK

(* A line more: it is queued, or dropped from a queue that is full.        *)
LEMMA ReadEvidence ==
    ASSUME NEW s \in Views, NEW q \in Seq(Lines), NEW e \in Seq(Lines),
           NEW m \in Lines, m.kind # "noise", NEW q2,
           q2 = Append(q, m) \/ (q2 = q /\ Len(q) = QueueSlots),
           EvidenceOK(s, q, e)
    PROVE  /\ EvidenceOK(s, q2, Append(e, m))
           /\ BelievedOK(s, q, e) => BelievedOK(s, q2, Append(e, m))
<1> DEFINE e2 == Append(e, m)
           n == Taken(s)
<1>1. /\ Len(e) \in Nat /\ Len(q) \in Nat /\ Len(e2) = Len(e) + 1 /\ e2[Len(e) + 1] = m
      /\ \A i \in 1 .. Len(e) : e2[i] = e[i]
  OBVIOUS
<1>2. n \in Nat /\ Phases \in Nat /\ QueueSlots > Phases + 1 /\ QueueSlots \in Nat
  BY ViewNumbers, JobAssumption
<1>3. \A i \in 1 .. Len(e) : Right(e2, i) <=> Right(e, i)
  <2> SUFFICES ASSUME NEW i \in 1 .. Len(e) PROVE Right(e2, i) <=> Right(e, i)
    OBVIOUS
  <2>1. e2[i] = e[i] /\ (i > 1 => e2[i - 1] = e[i - 1])
    BY <1>1
  <2> HIDE DEF e2
  <2>2. QED
    BY <2>1 DEF Right
<1>4. RightSoFar(e2) => RightSoFar(e)
  BY <1>1, <1>2, <1>3 DEF RightSoFar
<1>5. \A k \in 1 .. Len(q) : q[k].kind # "noise"
  BY DEF EvidenceOK
<1>6. CASE q2 = Append(q, m)
  <2>1. /\ Len(q2) = Len(q) + 1 /\ q2[Len(q) + 1] = m
        /\ \A k \in 1 .. Len(q) : q2[k] = q[k]
    BY <1>6
  <2>2. \A k \in 1 .. Len(q2) : k \in 1 .. Len(q) \/ k = Len(q) + 1
    BY <1>1, <2>1
  <2>3. \A k \in 1 .. Len(q2) : q2[k].kind # "noise"
    BY <1>5, <2>1, <2>2
  <2> HIDE DEF e2, n
  <2>4. ASSUME Followed(s, q, e)
        PROVE  Followed(s, q2, e2)
    <3>1. /\ Len(e) = n + Len(q)
          /\ \A k \in 1 .. Len(q) : q[k] = e[n + k]
          /\ \A i \in 1 .. n : Right(e, i)
          /\ s.progress = IF n = 0 THEN 0 ELSE e[n].progress
      BY <2>4 DEF Followed, n
    <3>2. \A k \in 1 .. Len(q2) : q2[k] = e2[n + k]
      <4> SUFFICES ASSUME NEW k \in 1 .. Len(q2) PROVE q2[k] = e2[n + k]
        OBVIOUS
      <4>1. CASE k \in 1 .. Len(q)
        <5>1. n + k \in 1 .. Len(e)
          BY <1>1, <1>2, <3>1, <4>1
        <5>2. QED
          BY <1>1, <2>1, <3>1, <4>1, <5>1
      <4>2. CASE k = Len(q) + 1
        <5>1. n + k = Len(e) + 1
          BY <1>1, <1>2, <3>1, <4>2
        <5>2. QED
          BY <1>1, <2>1, <4>2, <5>1
      <4>3. QED
        BY <2>2, <4>1, <4>2
    <3>3. \A i \in 1 .. n : Right(e2, i)
      <4>1. \A i \in 1 .. n : i \in 1 .. Len(e)
        BY <1>1, <1>2, <3>1
      <4>2. QED
        BY <1>3, <3>1, <4>1
    <3>4. n # 0 => e2[n] = e[n]
      BY <1>1, <1>2, <3>1
    <3>5. Len(e2) = n + Len(q2)
      BY <1>1, <1>2, <2>1, <3>1
    <3>6. QED
      BY <3>1, <3>2, <3>3, <3>4, <3>5 DEF Followed, n
  <2>5. Overrun(s, q) => Overrun(s, q2)
    BY <1>1, <1>2, <2>1 DEF Overrun, n
  <2>6. EvidenceOK(s, q2, e2)
    BY <2>3, <2>4, <2>5 DEF EvidenceOK
  <2>7. BelievedOK(s, q, e) => BelievedOK(s, q2, e2)
    BY <1>4, <2>4 DEF BelievedOK
  <2>8. QED
    BY <2>6, <2>7 DEF e2
<1>7. CASE q2 = q /\ Len(q) = QueueSlots
  <2>1. Overrun(s, q)
    BY <1>2, <1>7 DEF Overrun
  <2>2. EvidenceOK(s, q2, e2)
    BY <1>7, <2>1 DEF EvidenceOK
  <2>3. ASSUME BelievedOK(s, q, e), RightSoFar(e2)
        PROVE  FALSE
    <3>1. RightSoFar(e) /\ Followed(s, q, e)
      BY <1>4, <2>3 DEF BelievedOK
    <3>2. Len(e) = n + Len(q) /\ Len(e) <= Phases + 1
      BY <3>1 DEF Followed, RightSoFar
    <3>3. QED
      BY <1>1, <1>2, <1>7, <3>2
  <2>4. QED
    BY <2>2, <2>3 DEF BelievedOK
<1>8. QED
  BY <1>6, <1>7

-----------------------------------------------------------------------------
(* What every step leaves of it.                                           *)

(* What OutputOK(j) is about stays, but that the limit may pass and that a *)
(* child that runs may write or end.                                       *)
Still(j) ==
    /\ pc'[j] = pc[j] /\ seen'[j] = seen[j] /\ messages'[j] = messages[j]
    /\ script'[j] = script[j] /\ read'[j] = read[j]
    /\ j \in expired => j \in expired'
    /\ ~Up(j) => ~Up(j)' /\ written'[j] = written[j]

LEMMA StillOK ==
    ASSUME NEW j \in Jobs, OutputOK(j), Still(j)
    PROVE  OutputOK(j)'
<1>1. pc[j] \in Before => seen'[j] = Fresh /\ messages'[j] = <<>> /\ read'[j] = 0
  BY DEF OutputOK, Still
<1>2. pc[j] \in During =>
          /\ EvidenceOK(seen'[j], messages'[j], Events(script'[j], read'[j]))
          /\ j \notin expired' =>
                 BelievedOK(seen'[j], messages'[j], Events(script'[j], read'[j]))
  BY DEF OutputOK, Still
<1>3. pc[j] = "judge" => Through(j)'
  BY DEF OutputOK, Still, Through
<1>4. pc'[j] = pc[j]
  BY DEF Still
<1>5. QED
  BY <1>1, <1>2, <1>3, <1>4 DEF OutputOK

LEMMA OthersStill ==
    ASSUME TypeOK, NEW k \in Jobs, OfJob(k), NEW j \in Jobs, j # k
    PROVE  Still(j)
<1> USE DEF TypeOK, Still, manager, runner, worker, server, Goto, Decide, Terminate, Up
<1>1. CASE Launch(k) \/ Spawn(k) \/ Adopt(k)
  BY <1>1, SMTT(30) DEF Launch, Spawn, Adopt
<1>2. CASE Iterate(k) \/ Take(k)
  BY <1>2, SMTT(30) DEF Iterate, Stop, Take
<1>3. CASE LoopEnds(k) \/ Judge(k) \/ Raise(k)
  BY <1>3, ZenonT(60) DEF LoopEnds, Judge, Raise
<1>4. CASE Finish(k) \/ Clear(k) \/ Expire(k)
  BY <1>4 DEF Finish, Clear, Expire
<1>5. CASE Read(k) \/ Write(k) \/ Exit(k)
  BY <1>5 DEF Read, Write, Exit
<1>6. QED
  BY <1>1, <1>2, <1>3, <1>4, <1>5 DEF OfJob, Runner

LEMMA ServerStill ==
    ASSUME TypeOK, NEW j \in Jobs,
           Cancel \/ OfServer \/ UNCHANGED vars \/ \E c \in Closers : Closer(c)
    PROVE  Still(j)
<1> USE DEF TypeOK, manager, runner, worker, server
<1>1. CASE Cancel \/ OfServer \/ UNCHANGED vars
  BY <1>1 DEF Cancel, OfServer, RequestShutdown, CloseServer, StopServing, ExitServer,
              vars, Still, Up
<1>2. ASSUME NEW c \in Closers, Closer(c)
      PROVE  Still(j)
  <2>1. CASE EnterShutdown(c) \/ CancelForShutdown(c) \/ JoinRunner(c)
    BY <2>1 DEF EnterShutdown, CancelForShutdown, JoinRunner, Still, Up
  <2>2. CASE KillChild(c)
    BY <2>2 DEF KillChild, Terminate, Still, Up
  <2>3. QED
    BY <1>2, <2>1, <2>2 DEF Closer
<1>3. QED
  BY <1>1, <1>2

(* A runner that has seen nothing.                                         *)
LEMMA FreshEvidence ==
    /\ EvidenceOK(Fresh, <<>>, <<>>) /\ BelievedOK(Fresh, <<>>, <<>>)
<1>1. Taken(Fresh) = 0 /\ Len(<<>>) = 0
  BY DEF Taken, Fresh
<1>2. CountedOK(Fresh)
  BY <1>1 DEF CountedOK, Fresh
<1>3. Followed(Fresh, <<>>, <<>>)
  BY <1>1 DEF Followed, Fresh
<1>4. ~Fresh.failure
  BY DEF Fresh
<1>5. QED
  BY <1>1, <1>2, <1>3, <1>4 DEF EvidenceOK, BelievedOK

(* To terminate the child changes nothing of what the output shows.        *)
LEMMA StoppedEvidence ==
    ASSUME NEW s, NEW t, NEW q, NEW e, EvidenceOK(s, q, e),
           t.sequence = s.sequence, t.phase = s.phase, t.progress = s.progress,
           t.terminals = s.terminals, t.metrics = s.metrics,
           ~t.failure => ~s.failure
    PROVE  /\ EvidenceOK(t, q, e)
           /\ (~s.failure => ~t.failure) /\ BelievedOK(s, q, e) => BelievedOK(t, q, e)
<1>1. Taken(t) = Taken(s)
  BY DEF Taken
<1>2. CountedOK(s) => CountedOK(t)
  BY <1>1 DEF CountedOK
<1>3. Followed(s, q, e) => Followed(t, q, e)
  BY <1>1 DEF Followed
<1>4. Overrun(s, q) => Overrun(t, q)
  BY <1>1 DEF Overrun
<1>5. QED
  BY <1>2, <1>3, <1>4 DEF EvidenceOK, BelievedOK

(* What the reader has taken of a script are lines.                        *)
LEMMA ReadIsSpoken ==
    ASSUME JobInv, NEW j \in Jobs
    PROVE  /\ script[j] \in Seq(Lines) /\ read[j] \in 0 .. Len(script[j])
           /\ Events(script[j], read[j]) \in Seq(Lines)
           /\ seen[j] \in Views /\ messages[j] \in Seq(Lines)
<1>1. script[j] \in use.scripts \cup {<<>>} /\ use \in Uses
      /\ read[j] \in Nat /\ written[j] \in Nat
      /\ read[j] <= written[j] /\ written[j] <= Len(script[j])
  BY DEF JobInv, TypeOK
<1>2. script[j] \in Seq(Lines)
  <2>1. <<>> \in Seq(Lines)
    OBVIOUS
  <2>2. QED
    BY <1>1, <2>1, ScriptsAreLines
<1>3. read[j] \in 0 .. Len(script[j])
  BY <1>1, <1>2
<1>4. seen[j] \in Views /\ messages[j] \in Seq(Lines)
  BY DEF JobInv, TypeOK, Views
<1>5. QED
  BY <1>2, <1>3, <1>4, EventsAreLines

(* The steps of a runner that has not reached its loop or has left it.     *)
LEMMA OutsideStep ==
    ASSUME JobInv, NEW j \in Jobs, OutputOK(j),
           Launch(j) \/ Spawn(j) \/ Adopt(j) \/ Judge(j) \/ Raise(j) \/ Finish(j) \/ Clear(j)
    PROVE  OutputOK(j)'
<1> USE DEF runner, worker, Goto, Decide
<1>0. pc \in [Jobs -> Places]
  BY DEF JobInv, TypeOK, Places
<1>1. CASE Launch(j) \/ Spawn(j)
  <2>1. /\ pc'[j] \in {"spawn", "adopt", "raise", "finish"}
        /\ pc[j] \in Before /\ UNCHANGED <<seen, messages, read>>
    BY <1>0, <1>1 DEF Launch, Spawn, Before
  <2>2. seen'[j] = Fresh /\ messages'[j] = <<>> /\ read'[j] = 0
    BY <2>1 DEF OutputOK
  <2>3. QED
    BY <2>1, <2>2 DEF OutputOK, During
<1>2. CASE Adopt(j)
  <2>1. /\ pc'[j] \in {"loop", "raise"} /\ pc[j] \in Before
        /\ UNCHANGED <<seen, messages, read, script>>
    BY <1>0, <1>2 DEF Adopt, Before
  <2>2. seen'[j] = Fresh /\ messages'[j] = <<>> /\ Events(script'[j], read'[j]) = <<>>
    BY <2>1, EventsGrow DEF OutputOK
  <2>3. /\ EvidenceOK(seen'[j], messages'[j], Events(script'[j], read'[j]))
        /\ BelievedOK(seen'[j], messages'[j], Events(script'[j], read'[j]))
    BY <2>2, FreshEvidence
  <2>4. QED
    BY <2>1, <2>3 DEF OutputOK, Before
<1>3. CASE Judge(j) \/ Raise(j) \/ Finish(j) \/ Clear(j)
  <2>1. pc'[j] \in {"finish", "clear", "over"}
    BY <1>0, <1>3 DEF Judge, Raise, Finish, Clear
  <2>2. QED
    BY <2>1 DEF OutputOK, Before, During
<1>4. QED
  BY <1>1, <1>2, <1>3

(* A message, read or taken.                                               *)
LEMMA TakeStep ==
    ASSUME JobInv, NEW j \in Jobs, OutputOK(j), Take(j)
    PROVE  OutputOK(j)'
<1> DEFINE e == Events(script[j], read[j])
<1>1. /\ pc[j] = "take" /\ pc'[j] = "loop" /\ UNCHANGED <<script, read, expired>>
  BY DEF Take, Goto, JobInv, TypeOK
<1>2. /\ e \in Seq(Lines) /\ seen[j] \in Views /\ messages[j] \in Seq(Lines)
  BY ReadIsSpoken
<1>3. /\ EvidenceOK(seen[j], messages[j], e)
      /\ j \notin expired => BelievedOK(seen[j], messages[j], e)
  BY <1>1 DEF OutputOK, During
<1>4. /\ EvidenceOK(seen'[j], messages'[j], e)
      /\ j \notin expired => BelievedOK(seen'[j], messages'[j], e)
  <2>1. CASE messages[j] = <<>>
    <3>1. seen' = seen /\ messages' = messages
      BY <2>1 DEF Take
    <3>2. QED
      BY <1>3, <3>1
  <2>2. CASE messages[j] # <<>>
    <3>1. /\ seen'[j] = Judged(seen[j], Head(messages[j]))
          /\ messages'[j] = Tail(messages[j])
      BY <2>2 DEF Take, JobInv, TypeOK
    <3> HIDE DEF e
    <3>2. QED
      BY <1>2, <1>3, <2>2, <3>1, TakeEvidence
  <2>3. QED
    BY <2>1, <2>2
<1>5. Events(script'[j], read'[j]) = e
  BY <1>1
<1> HIDE DEF e
<1>6. QED
  BY <1>1, <1>4, <1>5 DEF OutputOK, Before

LEMMA ReadStep ==
    ASSUME JobInv, NEW j \in Jobs, OutputOK(j), Read(j)
    PROVE  OutputOK(j)'
<1> DEFINE e == Events(script[j], read[j])
           m == script[j][read[j] + 1]
           f == Events(script'[j], read'[j])
<1>1. /\ pc[j] \in {"loop", "take"} /\ UNCHANGED <<pc, seen, script, expired>>
      /\ read'[j] = read[j] + 1 /\ read[j] < written[j]
  BY DEF Read, JobInv, TypeOK, runner
<1>2. /\ e \in Seq(Lines) /\ seen[j] \in Views /\ messages[j] \in Seq(Lines)
      /\ script[j] \in Seq(Lines) /\ read[j] \in Nat
  BY ReadIsSpoken
<1>3. m \in Lines
  <2>1. written[j] \in Nat /\ written[j] <= Len(script[j])
    BY DEF JobInv, TypeOK
  <2>2. read[j] + 1 \in 1 .. Len(script[j])
    BY <1>1, <1>2, <2>1
  <2>3. QED
    BY <1>2, <2>2
<1>4. f = IF m.kind = "noise" THEN e ELSE Append(e, m)
  BY <1>1, <1>2, EventsGrow
<1>5. /\ EvidenceOK(seen[j], messages[j], e)
      /\ j \notin expired => BelievedOK(seen[j], messages[j], e)
  BY <1>1 DEF OutputOK, During
<1>6. \/ m.kind = "noise" /\ messages'[j] = messages[j]
      \/ m.kind # "noise" /\ messages'[j] = Append(messages[j], m)
      \/ m.kind # "noise" /\ messages'[j] = messages[j] /\ Len(messages[j]) = QueueSlots
  BY DEF Read, JobInv, TypeOK
<1>7. /\ EvidenceOK(seen'[j], messages'[j], f)
      /\ j \notin expired => BelievedOK(seen'[j], messages'[j], f)
  <2> HIDE DEF e, f, m
  <2>1. CASE m.kind = "noise" /\ messages'[j] = messages[j]
    BY <1>1, <1>4, <1>5, <2>1
  <2>2. CASE /\ m.kind # "noise"
             /\ \/ messages'[j] = Append(messages[j], m)
                \/ messages'[j] = messages[j] /\ Len(messages[j]) = QueueSlots
    <3>1. f = Append(e, m) /\ seen'[j] = seen[j]
      BY <1>1, <1>4, <2>2
    <3>2. /\ EvidenceOK(seen[j], messages'[j], Append(e, m))
          /\ BelievedOK(seen[j], messages[j], e) =>
                 BelievedOK(seen[j], messages'[j], Append(e, m))
      BY <1>2, <1>3, <1>5, <2>2, ReadEvidence
    <3>3. QED
      BY <1>5, <3>1, <3>2
  <2>3. QED
    BY <1>6, <2>1, <2>2
<1>8. QED
  BY <1>1, <1>7 DEF OutputOK, Before

(* The loop itself, where the child may be told to stop.                   *)
LEMMA LoopStep ==
    ASSUME JobInv, NEW j \in Jobs, OutputOK(j), Iterate(j) \/ LoopEnds(j)
    PROVE  OutputOK(j)'
<1> DEFINE e == Events(script[j], read[j])
<1>1. /\ EvidenceOK(seen[j], messages[j], e)
      /\ j \notin expired => BelievedOK(seen[j], messages[j], e)
  BY DEF OutputOK, During, Iterate, LoopEnds
<1>2. UNCHANGED <<script, read, messages, expired>> /\ Events(script'[j], read'[j]) = e
  BY DEF Iterate, LoopEnds, runner, worker
<1>3. pc \in [Jobs -> Places] /\ seen \in [Jobs -> Views]
  BY DEF JobInv, TypeOK, Places, Views
<1>4. CASE LoopEnds(j)
  <2>1. pc'[j] = "judge" /\ seen' = seen /\ Through(j) /\ UNCHANGED <<child, written>>
    BY <1>3, <1>4 DEF LoopEnds, Goto, worker
  <2>2. Through(j)'
    BY <1>2, <2>1 DEF Through, Up
  <2> HIDE DEF e
  <2>3. QED
    BY <1>1, <1>2, <2>1, <2>2 DEF OutputOK, Before
<1>5. CASE Iterate(j)
  <2>1. pc'[j] = "take"
    BY <1>3, <1>5 DEF Iterate, Stop, Goto
  <2>2. /\ EvidenceOK(seen'[j], messages[j], e)
        /\ j \notin expired => BelievedOK(seen'[j], messages[j], e)
    <3>1. CASE seen' = seen
      BY <1>1, <3>1
    <3>2. ASSUME NEW fails \in BOOLEAN, Stop(j, fails), fails => j \in expired
          PROVE  /\ EvidenceOK(seen'[j], messages[j], e)
                 /\ j \notin expired => BelievedOK(seen'[j], messages[j], e)
      <4> DEFINE s == seen[j]
                 t == seen'[j]
      <4>1. t = [s EXCEPT !.terminated = TRUE, !.failure = (s.failure \/ fails)]
        BY <1>3, <3>2 DEF Stop
      <4>2. s \in Views
        BY <1>3
      <4> HIDE DEF s, t
      <4>3. /\ t.sequence = s.sequence /\ t.phase = s.phase /\ t.progress = s.progress
            /\ t.terminals = s.terminals /\ t.metrics = s.metrics
        BY <4>1, <4>2 DEF Views
      <4>4. t.failure = (s.failure \/ fails)
        BY <4>1, <4>2 DEF Views
      <4>5. (~t.failure => ~s.failure) /\ (j \notin expired /\ ~s.failure => ~t.failure)
        BY <3>2, <4>4
      <4>6. /\ EvidenceOK(s, messages[j], e)
            /\ j \notin expired => BelievedOK(s, messages[j], e)
        BY <1>1 DEF s
      <4> HIDE DEF e
      <4>7. /\ EvidenceOK(t, messages[j], e)
            /\ j \notin expired => BelievedOK(t, messages[j], e)
        BY <4>3, <4>5, <4>6, StoppedEvidence
      <4>8. QED
        BY <4>7 DEF t
    <3>3. QED
      BY <1>5, <3>1, <3>2 DEF Iterate
  <2> HIDE DEF e
  <2>3. QED
    BY <1>2, <2>1, <2>2 DEF OutputOK, Before
<1>6. QED
  BY <1>4, <1>5

LEMMA OutputStep ==
    ASSUME JobInv, OutputInv, [Next]_vars
    PROVE  OutputInv'
<1> SUFFICES ASSUME NEW j \in Jobs PROVE OutputOK(j)'
  BY DEF OutputInv
<1>0. OutputOK(j) /\ TypeOK
  BY DEF OutputInv, JobInv
<1>1. CASE Start
  <2>1. UNCHANGED <<seen, messages, script, read, written, child, expired>>
        /\ pc' = [pc EXCEPT ![jobs + 1] = "launch"]
    BY <1>1 DEF Start, Goto, worker
  <2>2. CASE j = jobs + 1
    <3>1. pc[j] = "none" /\ pc'[j] = "launch"
      BY <2>1, <2>2 DEF JobInv, StatusOK, TypeOK, Jobs
    <3>2. QED
      BY <1>0, <2>1, <3>1 DEF OutputOK, Before, During
  <2>3. CASE j # jobs + 1
    <3>1. Still(j)
      BY <1>0, <2>1, <2>3 DEF Still, Up, TypeOK
    <3>2. QED
      BY <1>0, <3>1, StillOK
  <2>4. QED
    BY <2>2, <2>3
<1>2. CASE Cancel \/ OfServer \/ UNCHANGED vars \/ \E c \in Closers : Closer(c)
  BY <1>0, <1>2, ServerStill, StillOK
<1>3. ASSUME NEW k \in Jobs, OfJob(k)
      PROVE  OutputOK(j)'
  <2>1. CASE j # k
    BY <1>0, <1>3, <2>1, OthersStill, StillOK
  <2>2. CASE j = k
    <3>1. CASE Take(j) \/ Read(j) \/ Iterate(j) \/ LoopEnds(j)
      BY <1>0, <3>1, TakeStep, ReadStep, LoopStep
    <3>2. CASE \/ Launch(j) \/ Spawn(j) \/ Adopt(j) \/ Judge(j) \/ Raise(j)
               \/ Finish(j) \/ Clear(j)
      BY <1>0, <3>2, OutsideStep
    <3>3. CASE Expire(j) \/ Write(j) \/ Exit(j)
      <4>1. Still(j)
        BY <1>0, <3>3 DEF Expire, Write, Exit, Still, Up, TypeOK, manager, runner, worker, server
      <4>2. QED
        BY <1>0, <4>1, StillOK
    <3>4. QED
      BY <1>3, <2>2, <3>1, <3>2, <3>3 DEF OfJob, Runner
  <2>3. QED
    BY <2>1, <2>2
<1>4. QED
  BY <1>1, <1>2, <1>3 DEF Next, OfJob, OfServer, Runners, Limits, Readers

LEMMA OutputInit ==
    ASSUME Init
    PROVE  OutputInv
  BY DEF Init, OutputInv, OutputOK, Before, During

(* What the runner judges by.                                              *)
LEMMA JudgedByOutput ==
    ASSUME NEW s \in Views, NEW e \in Seq(Lines), EvidenceOK(s, <<>>, e)
    PROVE  /\ Proper(s) => WellFormed(e)
           /\ WellFormed(e) /\ BelievedOK(s, <<>>, e) => Proper(s)
<1> DEFINE n == Taken(s)
<1>1. /\ n \in Nat /\ s.sequence = n + 1 /\ s.phase \in 0 .. Phases
      /\ s.terminals \in Nat /\ Phases \in Nat
  BY ViewNumbers
<1>2. Len(<<>>) = 0 /\ Len(e) \in Nat
  OBVIOUS
<1>3. ASSUME Proper(s)
      PROVE  WellFormed(e)
  <2>1. CountedOK(s) /\ (Followed(s, <<>>, e) \/ Overrun(s, <<>>))
    BY <1>3 DEF Proper, EvidenceOK
  <2>2. n = Phases + 1
    BY <1>1, <1>3, <2>1 DEF Proper, CountedOK
  <2>3. ~Overrun(s, <<>>)
    BY <1>1, <1>2, <2>2 DEF Overrun
  <2>4. Len(e) = n /\ \A i \in 1 .. n : Right(e, i)
    BY <1>1, <1>2, <2>1, <2>3 DEF Followed
  <2>5. QED
    BY <2>2, <2>4 DEF WellFormed
<1>4. ASSUME WellFormed(e), BelievedOK(s, <<>>, e)
      PROVE  Proper(s)
  <2>1. Len(e) = Phases + 1 /\ RightSoFar(e)
    BY <1>1, <1>4 DEF WellFormed, RightSoFar
  <2>2. ~s.failure /\ Followed(s, <<>>, e) /\ CountedOK(s)
    BY <1>4, <2>1 DEF BelievedOK, EvidenceOK
  <2>3. n = Phases + 1
    BY <1>1, <1>2, <2>1, <2>2 DEF Followed
  <2>4. n = s.phase + s.terminals /\ (s.terminals > 0 => s.phase = Phases)
        /\ (s.metrics <=> s.terminals > 0)
    BY <2>2 DEF CountedOK
  <2> HIDE DEF n
  <2>5. s.terminals > 0
    BY <1>1, <2>3, <2>4
  <2>6. s.terminals = 1
    BY <1>1, <2>3, <2>4, <2>5
  <2>7. s.metrics
    BY <2>4, <2>5
  <2>8. QED
    BY <2>2, <2>6, <2>7 DEF Proper
<1>5. QED
  BY <1>3, <1>4

(* A job is reported as succeeded only for a complete output of a child    *)
(* that exited with zero, and is whenever it had that in time, uncancelled. *)
THEOREM EvidenceAlwaysDecides == Spec => EvidenceDecides
<1> DEFINE Decided(j) ==
        LET good == child[j] = "done" /\ WellFormed(Events(script[j], written[j]))
        IN  /\ verdict'[j] = "succeeded" => good
            /\ good /\ ~cancel_event /\ j \notin expired => verdict'[j] = "succeeded"
<1>1. ASSUME JobInv, OutputInv, [Next]_vars, NEW j \in Jobs, pc[j] = "judge", pc'[j] = "finish"
      PROVE  Decided(j)
  <2>1. Judge(j)
    <3>1. CASE \E k \in Jobs : OfJob(k)
      <4>1. PICK k \in Jobs : OfJob(k)
        BY <3>1
      <4>2. k = j
        <5>1. TypeOK /\ pc'[j] # pc[j]
          BY <1>1 DEF JobInv
        <5>2. QED
          BY <4>1, <5>1, OthersStill DEF Still
      <4>3. ~Read(j) /\ ~Write(j) /\ ~Exit(j) /\ ~Expire(j)
        BY <1>1 DEF Read, Write, Exit, Expire, runner
      <4>4. QED
        BY <1>1, <4>1, <4>2, <4>3 DEF OfJob, Runner, Launch, Spawn, Adopt, Iterate, Take,
              LoopEnds, Raise, Finish, Clear
    <3>2. CASE Cancel \/ OfServer \/ UNCHANGED vars \/ \E c \in Closers : Closer(c)
      <4>1. Still(j)
        BY <1>1, <3>2, ServerStill DEF JobInv
      <4>2. QED
        BY <1>1, <4>1 DEF Still
    <3>3. CASE Start
      BY <1>1, <3>3 DEF Start, Goto, JobInv, TypeOK
    <3>4. QED
      BY <1>1, <3>1, <3>2, <3>3 DEF Next, OfJob, OfServer, Runners, Limits, Readers
  <2> DEFINE e == Events(script[j], written[j])
  <2>2. /\ verdict \in [Jobs -> Verdicts \cup {"none"}] /\ seen[j] \in Views
        /\ e \in Seq(Lines) /\ read[j] = written[j] /\ messages[j] = <<>>
    <3>1. read[j] = written[j] /\ messages[j] = <<>>
      BY <1>1 DEF OutputInv, OutputOK, Through
    <3>2. QED
      BY <1>1, <3>1, ReadIsSpoken DEF JobInv, TypeOK
  <2>3. /\ EvidenceOK(seen[j], <<>>, e)
        /\ j \notin expired => BelievedOK(seen[j], <<>>, e)
    BY <1>1, <2>2 DEF OutputInv, OutputOK, During
  <2> HIDE DEF e
  <2>4. /\ Proper(seen[j]) => WellFormed(e)
        /\ j \notin expired /\ WellFormed(e) => Proper(seen[j])
    BY <2>2, <2>3, JudgedByOutput
  <2>5. verdict'[j] = IF cancel_event THEN "cancelled"
                      ELSE IF child[j] = "done" /\ Proper(seen[j]) THEN "succeeded"
                      ELSE "failed"
    BY <2>1, <2>2 DEF Judge, Decide
  <2>6. /\ verdict'[j] = "succeeded" => child[j] = "done" /\ WellFormed(e)
        /\ child[j] = "done" /\ WellFormed(e) /\ ~cancel_event /\ j \notin expired
               => verdict'[j] = "succeeded"
    BY <2>4, <2>5
  <2>7. QED
    BY <2>6 DEF e
<1>2. JobInv /\ OutputInv /\ [Next]_vars =>
          [\A j \in Jobs : pc[j] = "judge" /\ pc'[j] = "finish" => Decided(j)]_vars
  BY <1>1
<1>3. Init => OutputInv
  BY OutputInit
<1>4. JobInv /\ OutputInv /\ [Next]_vars => OutputInv'
  BY OutputStep
<1>5. QED
  BY <1>2, <1>3, <1>4, JobInvariant, PTL DEF Spec, EvidenceDecides
=============================================================================
