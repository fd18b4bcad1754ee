---------------------------- MODULE TensorService ----------------------------
(***************************************************************************)
(* TensorService (cogni_os/tensor_service.py): a worker process behind two *)
(* bounded queues, and the threads that send it requests.                  *)
(*                                                                         *)
(* A tensor is the request it belongs to.  Submitting takes the state      *)
(* lock, receiving the receive lock, and each reads the response queue     *)
(* under its own lock only.  A deadline may strike whenever a reply is     *)
(* waited for.  alone, drawn once, says whether the calls to submit and    *)
(* receive come one at a time, any number of requests under way, or all at *)
(* once; the service is started and stopped when nothing is under way.     *)
(***************************************************************************)
EXTENDS Naturals, FiniteSets, Sequences, Functions

CONSTANTS Threads,
          QueueCapacity,        \* of either queue
          MaxOutstanding,       \* slots
          MaxRequests,          \* bound: requests of one worker
          MaxStarts,            \* bound: workers
          None

Ids == 1 .. MaxRequests
Ready == 0                      \* the id of the first response
Ops == {"infer", "pause", "resume", "stop"}
Requests == [op : Ops, id : Ids]
Statuses == {"ok", "paused", "failed"}
Responses == [id : Ids \cup {Ready}, status : Statuses]

(* A worker has an id left for its stop.                                   *)
ASSUME TensorAssumption ==
    /\ QueueCapacity \in Nat /\ MaxRequests \in Nat \ {0} /\ MaxStarts \in Nat
    /\ MaxOutstanding \in 1 .. QueueCapacity - 1
    /\ None \notin Threads \cup Responses

VARIABLES starts,               \* workers started
          worker,               \* none, loading, serving, reply, leaving, dead
          paused, work,         \* worker: its flag, the response it is to put
          requests, responses,  \* the queues
          next_request_id,
          pending, completed,   \* slots; replies read for somebody else
          state_lock, receive_lock,
          pc, op, id,           \* where each thread is, with what
          last_pause,           \* the latest pause that has returned
          last_resume,          \* the latest resume that was sent
          lost,                 \* slots whose reply was thrown away
          alone

process == <<starts, worker, paused, work>>
wires == <<requests, responses>>
slots == <<next_request_id, pending, completed, lost>>
locks == <<state_lock, receive_lock>>
threads == <<pc, op, id>>
ghosts == <<last_pause, last_resume, alone>>
vars == <<process, wires, slots, locks, threads, ghosts>>

Init ==
    /\ starts = 0 /\ worker = "none" /\ paused = FALSE /\ work = None
    /\ requests = <<>> /\ responses = <<>>
    /\ next_request_id = 1 /\ pending = <<>> /\ completed = {} /\ lost = {}
    /\ state_lock = None /\ receive_lock = None
    /\ pc = [t \in Threads |-> "idle"]
    /\ op = [t \in Threads |-> "infer"]
    /\ id = [t \in Threads |-> Ready]
    /\ last_pause = 0 /\ last_resume = 0
    /\ alone \in BOOLEAN

Running == worker \notin {"none", "dead"}
Goto(t, point) == pc' = [pc EXCEPT ![t] = point]
Return(t) ==
    /\ Goto(t, "idle")
    /\ op' = [op EXCEPT ![t] = "infer"]
    /\ id' = [id EXCEPT ![t] = Ready]
Others(t) == \E u \in Threads \ {t} : pc[u] # "idle"
Lifecycle == \E u \in Threads : op[u] = "stop" \/ pc[u] = "ready"
Turn(t) == alone => \A u \in Threads \ {t} : pc[u] \in {"idle", "receive"}
MayEnter(t) == pc[t] = "idle" /\ ~Lifecycle /\ Turn(t)

Free(i) == pending' = Restrict(pending, DOMAIN pending \ {i})
Mark(i, waiting) == pending' = [j \in DOMAIN pending \cup {i} |->
                                    IF j = i THEN waiting ELSE pending[j]]

-----------------------------------------------------------------------------
(* start and stop                                                          *)

(* _dispose_transport *)
Dispose ==
    /\ worker' = "none" /\ paused' = FALSE /\ work' = None
    /\ requests' = <<>> /\ responses' = <<>>
    /\ pending' = <<>> /\ completed' = {} /\ lost' = {}
    /\ last_pause' = 0 /\ last_resume' = 0

(* The locks are free: whoever starts is alone.  A worker that runs is kept. *)
Start(t) ==
    /\ pc[t] = "idle" /\ ~Others(t)
    /\ ~Running /\ starts < MaxStarts
    /\ starts' = starts + 1
    /\ worker' = "loading" /\ paused' = FALSE /\ work' = None
    /\ requests' = <<>> /\ responses' = <<>>
    /\ next_request_id' = 1 /\ pending' = <<>> /\ completed' = {} /\ lost' = {}
    /\ last_pause' = 0 /\ last_resume' = 0
    /\ Goto(t, "ready")
    /\ UNCHANGED <<locks, op, id, alone>>

StartReady(t) ==
    /\ pc[t] = "ready"
    /\ responses # <<>> /\ Head(responses) = [id |-> Ready, status |-> "ok"]
    /\ responses' = Tail(responses)
    /\ Return(t)
    /\ UNCHANGED <<process, requests, slots, locks, ghosts>>

(* READY says the module cannot be built, or does not come. *)
StartFails(t) ==
    /\ pc[t] = "ready"
    /\ Dispose
    /\ Return(t)
    /\ UNCHANGED <<starts, next_request_id, locks, alone>>

(* Nothing is sent to a worker that has died. *)
Stop(t) ==
    /\ pc[t] = "idle" /\ ~Others(t)
    /\ \/ /\ Running
          /\ op' = [op EXCEPT ![t] = "stop"]
          /\ Goto(t, "drain")
          /\ state_lock' = t
          /\ UNCHANGED <<process, wires, slots, last_pause, last_resume>>
       \/ /\ worker = "dead"
          /\ Dispose
          /\ UNCHANGED <<starts, next_request_id, op, pc, state_lock>>
    /\ UNCHANGED <<receive_lock, id, alone>>

(* finally: whatever has become of the request *)
StopEnds(t) ==
    /\ pc[t] = "dispose"
    /\ Dispose
    /\ Return(t)
    /\ UNCHANGED <<starts, next_request_id, locks, alone>>

(* A call ends, with an answer or an error; stop goes on to the disposal. *)
Leave(t) ==
    IF op[t] = "stop" THEN Goto(t, "dispose") /\ UNCHANGED <<op, id>> ELSE Return(t)

-----------------------------------------------------------------------------
(* _submit_code                                                            *)

Submit(t) ==
    /\ MayEnter(t) /\ Running
    /\ next_request_id < MaxRequests            \* the last id is for a stop
    /\ state_lock = None
    /\ state_lock' = t
    /\ \E o \in Ops \ {"stop"} : op' = [op EXCEPT ![t] = o]
    /\ Goto(t, "drain")
    /\ UNCHANGED <<process, wires, slots, receive_lock, id, ghosts>>

(* _drain_available: the reply may be the one a receiver is waiting for *)
Drain(t) ==
    /\ pc[t] = "drain" /\ responses # <<>>
    /\ responses' = Tail(responses)
    /\ LET r == Head(responses)
           known == r.id \in DOMAIN pending
       IN  /\ completed' = IF known /\ pending[r.id] THEN completed \cup {r} ELSE completed
           /\ IF known /\ ~pending[r.id] THEN Free(r.id) ELSE UNCHANGED pending
    /\ UNCHANGED <<process, requests, next_request_id, lost, locks, threads, ghosts>>

Full == Cardinality(DOMAIN pending) >= MaxOutstanding

Put(t) ==
    /\ pc[t] = "drain" /\ responses = <<>>
    /\ ~Full /\ Len(requests) < QueueCapacity
    /\ requests' = Append(requests, [op |-> op[t], id |-> next_request_id])
    /\ id' = [id EXCEPT ![t] = next_request_id]
    /\ next_request_id' = next_request_id + 1
    /\ last_resume' = IF op[t] = "resume" THEN next_request_id ELSE last_resume
    /\ Goto(t, "register")
    /\ UNCHANGED <<process, responses, pending, completed, lost, locks, op,
                   last_pause, alone>>

PutRefused(t) ==
    /\ pc[t] = "drain" /\ responses = <<>>
    /\ Full \/ Len(requests) = QueueCapacity
    /\ next_request_id' = next_request_id + (IF Full THEN 0 ELSE 1)
    /\ state_lock' = None
    /\ Leave(t)
    /\ UNCHANGED <<process, wires, pending, completed, lost, receive_lock, ghosts>>

(* The worker may have answered by now. *)
Register(t) ==
    /\ pc[t] = "register"
    /\ Mark(id[t], TRUE)
    /\ state_lock' = None
    /\ Goto(t, "receive")
    /\ UNCHANGED <<process, wires, next_request_id, completed, lost, receive_lock,
                   op, id, ghosts>>

-----------------------------------------------------------------------------
(* receive                                                                 *)

Receive(t) ==
    /\ pc[t] = "receive" /\ Turn(t)
    /\ \/ /\ Running /\ receive_lock = None
          /\ receive_lock' = t
          /\ Goto(t, "look")
          /\ UNCHANGED <<op, id>>
       \/ ~Running /\ Leave(t) /\ UNCHANGED receive_lock
    /\ UNCHANGED <<process, wires, slots, state_lock, ghosts>>

Answered(t, r) ==
    /\ Free(id[t])
    /\ last_pause' = IF op[t] = "pause" /\ r.status = "ok" /\ id[t] > last_pause
                     THEN id[t] ELSE last_pause
    /\ receive_lock' = None
    /\ Leave(t)

Look(t) ==
    /\ pc[t] = "look"
    /\ LET mine == {r \in completed : r.id = id[t]}
       IN  \/ /\ mine = {}
              /\ Goto(t, "wire")
              /\ UNCHANGED <<pending, completed, receive_lock, op, id, last_pause>>
           \/ \E r \in mine : Answered(t, r) /\ completed' = completed \ {r}
    /\ UNCHANGED <<process, wires, next_request_id, lost, state_lock, last_resume, alone>>

(* A reply that is late frees its slot, one for somebody else is kept. *)
ReadWire(t) ==
    /\ pc[t] = "wire" /\ responses # <<>>
    /\ responses' = Tail(responses)
    /\ LET r == Head(responses)
           known == r.id \in DOMAIN pending
       IN  \/ /\ known /\ pending[r.id] /\ r.id = id[t]
              /\ Answered(t, r)
              /\ UNCHANGED <<completed, lost>>
           \/ /\ known /\ pending[r.id] /\ r.id # id[t]
              /\ completed' = completed \cup {r}
              /\ Goto(t, "look")
              /\ UNCHANGED <<pending, lost, receive_lock, op, id, last_pause>>
           \/ /\ known /\ ~pending[r.id]
              /\ Free(r.id)
              /\ Goto(t, "look")
              /\ UNCHANGED <<completed, lost, receive_lock, op, id, last_pause>>
           \/ /\ ~known                                  \* ProtocolError
              /\ lost' = lost \cup {r.id, id[t]}
              /\ receive_lock' = None
              /\ Leave(t)
              /\ UNCHANGED <<pending, completed, last_pause>>
    /\ UNCHANGED <<process, requests, next_request_id, state_lock, last_resume, alone>>

TimesOut_FreesSlot(t) ==
    /\ pc[t] = "wire"
    /\ Free(id[t])
    /\ receive_lock' = None
    /\ Leave(t)
    /\ UNCHANGED <<process, wires, next_request_id, completed, lost, state_lock, ghosts>>

TimesOut(t) ==
    /\ pc[t] = "wire"
    /\ IF id[t] \in DOMAIN pending THEN Mark(id[t], FALSE) ELSE UNCHANGED pending
    /\ lost' = IF \E r \in completed : r.id = id[t] THEN lost \cup {id[t]} ELSE lost
    /\ receive_lock' = None
    /\ Leave(t)
    /\ UNCHANGED <<process, wires, next_request_id, completed, state_lock, ghosts>>

(* ServiceNotRunningError: the slot is not marked *)
WorkerGone(t) ==
    /\ pc[t] = "wire" /\ responses = <<>> /\ ~Running
    /\ receive_lock' = None
    /\ Leave(t)
    /\ UNCHANGED <<process, wires, slots, state_lock, ghosts>>

-----------------------------------------------------------------------------
(* _tensor_service_worker                                                  *)

Loaded ==
    /\ worker = "loading"
    /\ \/ worker' = "serving" /\ responses' = <<[id |-> Ready, status |-> "ok"]>>
       \/ worker' = "leaving" /\ responses' = <<[id |-> Ready, status |-> "failed"]>>
    /\ UNCHANGED <<starts, paused, work, requests, slots, locks, threads, ghosts>>

Outcome_Unpaused(o) == IF o # "infer" THEN {"ok"} ELSE {"ok", "failed"}

(* A request is carried out; one to run the module, when it is not paused. *)
Outcome(o) ==
    IF o # "infer" THEN {"ok"} ELSE IF paused THEN {"paused"} ELSE {"ok", "failed"}

Serve ==
    /\ worker = "serving" /\ requests # <<>>
    /\ LET r == Head(requests)
       IN  /\ paused' = (r.op = "pause" \/ (paused /\ r.op # "resume"))
           /\ \E s \in Outcome(r.op) : work' = [id |-> r.id, status |-> s]
           /\ worker' = IF r.op = "stop" THEN "last" ELSE "reply"
    /\ requests' = Tail(requests)
    /\ UNCHANGED <<starts, responses, slots, locks, threads, ghosts>>

(* _put_worker_response: waits while the queue is full *)
Reply ==
    /\ worker \in {"reply", "last"}
    /\ Len(responses) < QueueCapacity
    /\ responses' = Append(responses, work)
    /\ work' = None
    /\ worker' = IF worker = "last" THEN "leaving" ELSE "serving"
    /\ UNCHANGED <<starts, paused, requests, slots, locks, threads, ghosts>>

(* It leaves after its last word, or dies. *)
Die ==
    /\ Running
    /\ worker' = "dead"
    /\ work' = None
    /\ UNCHANGED <<starts, paused, wires, slots, locks, threads, ghosts>>

Next ==
    \/ \E t \in Threads :
        \/ Start(t) \/ StartReady(t) \/ StartFails(t) \/ Stop(t) \/ StopEnds(t)
        \/ Submit(t) \/ Drain(t) \/ Put(t) \/ PutRefused(t) \/ Register(t)
        \/ Receive(t) \/ Look(t) \/ ReadWire(t) \/ TimesOut(t) \/ WorkerGone(t)
    \/ Loaded \/ Serve \/ Reply \/ Die

Spec == Init /\ [][Next]_vars

-----------------------------------------------------------------------------
(* Properties                                                              *)

TypeOK ==
    /\ starts \in 0 .. MaxStarts /\ paused \in BOOLEAN
    /\ worker \in {"none", "loading", "serving", "reply", "last", "leaving", "dead"}
    /\ work \in Responses \cup {None}
    /\ requests \in Seq(Requests) /\ responses \in Seq(Responses)
    /\ next_request_id \in 1 .. MaxRequests + 1
    /\ DOMAIN pending \subseteq Ids /\ \A i \in DOMAIN pending : pending[i] \in BOOLEAN
    /\ completed \subseteq Responses /\ lost \subseteq Ids
    /\ state_lock \in Threads \cup {None} /\ receive_lock \in Threads \cup {None}
    /\ pc \in [Threads -> {"idle", "ready", "drain", "register", "receive", "look",
                           "wire", "dispose"}]
    /\ op \in [Threads -> Ops] /\ id \in [Threads -> Ids \cup {Ready}]
    /\ last_pause \in Nat /\ last_resume \in Nat /\ alone \in BOOLEAN

IdsIn(queue) == {queue[i].id : i \in DOMAIN queue}
ToCome == IdsIn(requests) \cup IdsIn(responses)
              \cup (IF work = None THEN {} ELSE {work.id})
Waiting(i) == \E t \in Threads : id[t] = i /\ pc[t] \in {"receive", "look", "wire"}

(* While the worker lives, a slot is taken only for a reply that is still to *)
(* come, or that was read for a thread which is about to fetch it: late      *)
(* replies free their slots, whoever reads them.  When the calls come one    *)
(* at a time no slot is ever lost; when they overlap, one is lost when the   *)
(* reply a thread waits for is drained by a submission and the thread times  *)
(* out, and two when a reply is read before the submission registered it.    *)
SlotsAreOwed ==
    /\ Running => \A i \in DOMAIN pending :
                      \/ i \in ToCome
                      \/ i \in {r.id : r \in completed} /\ Waiting(i)
                      \/ i \in lost
    /\ alone => lost = {}

(* What is under way fits into the slots, so that the worker never waits for *)
(* room in a queue, however late the replies are read.                       *)
WorkerNeverWaits ==
    /\ Cardinality(DOMAIN pending) <= MaxOutstanding
    /\ Len(requests) + Len(responses) + Cardinality({work} \ {None})
           <= (IF worker = "none" \/ next_request_id = 1 THEN 1 ELSE MaxOutstanding)

SlotsAreSound == TypeOK /\ SlotsAreOwed /\ WorkerNeverWaits

(* Once a pause has returned no module runs before a resume is sent: what    *)
(* was submitted earlier has run, what comes later is refused, although the  *)
(* pause itself is only one more message in the queue.                       *)
PauseHolds ==
    [][worker = "serving" /\ worker' = "reply" =>
           LET r == Head(requests)
           IN  r.op = "infer" /\ last_pause > last_resume => work'.status = "paused"]_vars
=============================================================================
