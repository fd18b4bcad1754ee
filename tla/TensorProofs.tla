---------------------------- MODULE TensorProofs ----------------------------
(***************************************************************************)
(* Machine-checked facts about TensorService, for any number of threads,   *)
(* any capacity and any number of requests and workers: late replies give  *)
(* their slots back, the worker always finds room for its reply, and a     *)
(* pause that has returned holds.  The argument is that requests, the one  *)
(* in hand and the responses are one queue in the order of the ids, each   *)
(* of which has a slot or is just about to get one.                        *)
(***************************************************************************)
EXTENDS TensorService, FiniteSetTheorems, TLAPS

-----------------------------------------------------------------------------
(* The inductive invariant.                                                *)

(* A thread whose request is in the worker's hands or beyond; one that is  *)
(* between its request and its slot.                                       *)
Posted(t) == pc[t] \in {"register", "receive", "look", "wire"}
Registering == {id[t] : t \in {u \in Threads : pc[u] = "register"}}

(* Where the threads are and which lock each holds.  Starting and stopping *)
(* happen alone, and without a worker nobody is inside.                    *)
PlaceOK ==
    /\ \A t \in Threads :
          /\ pc[t] = "idle" => op[t] = "infer"
          /\ pc[t] = "dispose" => op[t] = "stop"
          /\ op[t] = "stop" => pc[t] # "ready"
          /\ state_lock = t <=> pc[t] \in {"drain", "register"}
          /\ receive_lock = t <=> pc[t] \in {"look", "wire"}
          /\ pc[t] = "ready" => next_request_id = 1
          /\ worker = "none" => pc[t] = "idle"
          /\ op[t] = "stop" \/ pc[t] = "ready" =>
                 \A u \in Threads \ {t} : pc[u] = "idle"
    /\ worker = "loading" => \E t \in Threads : pc[t] = "ready"
    /\ worker = "loading" => responses = <<>>

(* The ids: every posted request has one of its own, the next one is free, *)
(* and there is one left for the stop.                                     *)
IdsOK ==
    /\ \A t \in Threads : Posted(t) => id[t] \in Ids /\ id[t] < next_request_id
    /\ \A t, u \in Threads : Posted(t) /\ Posted(u) /\ t # u => id[t] # id[u]
    /\ \A t \in Threads : pc[t] = "drain" /\ op[t] # "stop" => next_request_id < MaxRequests
    /\ \/ worker = "none"
       \/ \E t \in Threads : op[t] = "stop" /\ pc[t] # "drain"
       \/ next_request_id <= MaxRequests

(* Requests, the one in hand and responses are one queue, in the order of  *)
(* the ids; the first response is that of the worker itself.               *)
OrderOK ==
    /\ \A i, j \in DOMAIN requests : i < j => requests[i].id < requests[j].id
    /\ \A i, j \in DOMAIN responses : i < j => responses[i].id < responses[j].id
    /\ \A i \in DOMAIN responses : \A j \in DOMAIN requests : responses[i].id < requests[j].id
    /\ work # None => /\ \A i \in DOMAIN responses : responses[i].id < work.id
                      /\ \A j \in DOMAIN requests : work.id < requests[j].id
                      /\ work.id < next_request_id /\ work.id \in Ids
    /\ work # None <=> worker \in {"reply", "last"}
    /\ \A i \in DOMAIN responses : responses[i].id < next_request_id
    /\ \A j \in DOMAIN requests : requests[j].id < next_request_id
    /\ \A r \in completed : /\ r.id < next_request_id
                            /\ \A j \in DOMAIN requests : r.id < requests[j].id
    /\ next_request_id = 1 => Len(responses) <= 1
    /\ Ready \in IdsIn(responses) => \E t \in Threads : pc[t] = "ready"
    /\ worker = "none" => requests = <<>> /\ responses = <<>>

(* What is under way has a slot, or is about to get the one kept free.     *)
RoomOK ==
    /\ ToCome \ {Ready} \subseteq DOMAIN pending \cup Registering
    /\ \A i \in DOMAIN pending : i < next_request_id
    /\ Cardinality(DOMAIN pending) <= MaxOutstanding
    /\ \A t \in Threads : pc[t] = "register" =>
           /\ id[t] \notin DOMAIN pending
           /\ Cardinality(DOMAIN pending) < MaxOutstanding

(* A response that is kept for its receiver does not come again.           *)
KeptOK == \A r \in completed : r.id \in Ids /\ r.id \notin ToCome

(* A slot that is waited for has somebody who waits, and a reply that is   *)
(* read before its slot is registered is known to be lost.                 *)
OwedOK ==
    Running =>
        /\ \A i \in DOMAIN pending : pending[i] => Waiting(i) \/ i \in lost
        /\ \A t \in Threads : pc[t] = "register" => id[t] \in ToCome \cup lost

(* One call at a time: nobody is inside but one, and what it waits for at  *)
(* the wire has not been read.                                             *)
AloneOK ==
    alone =>
        /\ \A t, u \in Threads : t # u /\ pc[t] \notin {"idle", "receive"} =>
               pc[u] \in {"idle", "receive"}
        /\ \A t \in Threads : pc[t] = "wire" => \A r \in completed : r.id # id[t]

(* A pause that is served holds until a resume with a higher id is sent.   *)
PauseOK ==
    /\ last_pause < next_request_id /\ last_resume < next_request_id
    /\ last_pause > last_resume => paused
    /\ \A k \in DOMAIN requests :
          /\ last_pause < requests[k].id
          /\ requests[k].op = "resume" => requests[k].id <= last_resume
    /\ \A t \in Threads : Posted(t) =>
          /\ \A k \in DOMAIN requests : requests[k].id = id[t] => requests[k].op = op[t]
          /\ id[t] \in IdsIn(requests) \/ \A k \in DOMAIN requests : id[t] < requests[k].id
          /\ op[t] = "pause" /\ id[t] \notin IdsIn(requests) /\ id[t] > last_resume => paused

TensorInv ==
    TypeOK /\ SlotsAreOwed /\ PlaceOK /\ IdsOK /\ OrderOK /\ RoomOK /\ KeptOK /\ OwedOK
    /\ AloneOK /\ PauseOK
-----------------------------------------------------------------------------
(* Types.                                                                  *)

(* What the bounds of the assumption say, as facts on naturals.            *)
LEMMA TensorBounds ==
    /\ MaxOutstanding \in Nat /\ MaxRequests \in Nat /\ MaxOutstanding >= 1 /\ MaxRequests >= 1
    /\ QueueCapacity \in Nat /\ MaxStarts \in Nat /\ MaxOutstanding < QueueCapacity
    /\ Ids = 1 .. MaxRequests /\ Ready \notin Ids /\ Ready = 0
    /\ None \notin Threads /\ None \notin Responses
  BY TensorAssumption DEF Ids, Ready

(* The first element of a queue, and what is left when it is taken.        *)
LEMMA TakeOne ==
    ASSUME NEW S, NEW s \in Seq(S), s # <<>>
    PROVE  /\ Head(s) \in S /\ Tail(s) \in Seq(S)
           /\ Len(s) \in Nat /\ Len(s) >= 1 /\ Len(Tail(s)) = Len(s) - 1
           /\ DOMAIN s = 1 .. Len(s) /\ DOMAIN Tail(s) = 1 .. (Len(s) - 1)
           /\ s[1] = Head(s) /\ 1 \in DOMAIN s
           /\ \A i \in DOMAIN Tail(s) : i + 1 \in DOMAIN s /\ Tail(s)[i] = s[i + 1]
           /\ \A i \in DOMAIN s : i = 1 \/ i - 1 \in DOMAIN Tail(s)
  OBVIOUS

(* A queue with one more element.                                          *)
LEMMA PutOne ==
    ASSUME NEW S, NEW s \in Seq(S), NEW x \in S
    PROVE  /\ Append(s, x) \in Seq(S) /\ Len(s) \in Nat
           /\ Len(Append(s, x)) = Len(s) + 1
           /\ DOMAIN s = 1 .. Len(s) /\ DOMAIN Append(s, x) = 1 .. (Len(s) + 1)
           /\ \A i \in DOMAIN s : i \in DOMAIN Append(s, x) /\ Append(s, x)[i] = s[i]
           /\ Len(s) + 1 \in DOMAIN Append(s, x) /\ Append(s, x)[Len(s) + 1] = x
           /\ \A i \in DOMAIN Append(s, x) : i = Len(s) + 1 \/ i \in DOMAIN s
  OBVIOUS

(* Taking the first element takes its id ...                               *)
LEMMA IdsTaken ==
    ASSUME NEW S, NEW s \in Seq(S), s # <<>>
    PROVE  IdsIn(s) = IdsIn(Tail(s)) \cup {Head(s).id}
  <1>1. \A x \in IdsIn(Tail(s)) : x \in IdsIn(s)
    BY TakeOne DEF IdsIn
  <1>2. Head(s).id \in IdsIn(s)
    BY TakeOne DEF IdsIn
  <1>3. ASSUME NEW i \in DOMAIN s
        PROVE  s[i].id \in IdsIn(Tail(s)) \cup {Head(s).id}
    <2>1. CASE i = 1
      BY <2>1, TakeOne
    <2>2. CASE i - 1 \in DOMAIN Tail(s)
      <3>1. Tail(s)[i - 1] = s[(i - 1) + 1] /\ (i - 1) + 1 = i
        BY <2>2, TakeOne
      <3>2. QED
        BY <2>2, <3>1 DEF IdsIn
    <2>3. QED
      BY <2>1, <2>2, TakeOne
  <1>4. QED
    BY <1>1, <1>2, <1>3 DEF IdsIn

(* ... and adding one adds its id.                                         *)
LEMMA IdsPut ==
    ASSUME NEW S, NEW s \in Seq(S), NEW x \in S
    PROVE  IdsIn(Append(s, x)) = IdsIn(s) \cup {x.id}
  <1>1. \A y \in IdsIn(s) : y \in IdsIn(Append(s, x))
    BY PutOne DEF IdsIn
  <1>2. x.id \in IdsIn(Append(s, x))
    BY PutOne DEF IdsIn
  <1>3. \A i \in DOMAIN Append(s, x) : Append(s, x)[i].id \in IdsIn(s) \cup {x.id}
    BY PutOne DEF IdsIn
  <1>4. QED
    BY <1>1, <1>2, <1>3 DEF IdsIn

(* What Leave does: a stop goes on, any other call ends.                   *)
LEMMA LeaveEffect ==
    ASSUME TypeOK, NEW t \in Threads, Leave(t)
    PROVE  /\ \A u \in Threads \ {t} : pc'[u] = pc[u] /\ op'[u] = op[u] /\ id'[u] = id[u]
           /\ op[t] = "stop" => pc'[t] = "dispose" /\ op'[t] = "stop"
           /\ op[t] # "stop" => pc'[t] = "idle" /\ op'[t] = "infer"
           /\ pc' \in [Threads -> {"idle", "ready", "drain", "register", "receive", "look",
                                   "wire", "dispose"}]
           /\ op' \in [Threads -> Ops] /\ id' \in [Threads -> Ids \cup {Ready}]
  BY DEF TypeOK, Leave, Goto, Return, Ops

(* What Return does.                                                       *)
LEMMA ReturnEffect ==
    ASSUME TypeOK, NEW t \in Threads, Return(t)
    PROVE  /\ \A u \in Threads \ {t} : pc'[u] = pc[u] /\ op'[u] = op[u] /\ id'[u] = id[u]
           /\ pc'[t] = "idle" /\ op'[t] = "infer"
           /\ pc' \in [Threads -> {"idle", "ready", "drain", "register", "receive", "look",
                                   "wire", "dispose"}]
           /\ op' \in [Threads -> Ops] /\ id' \in [Threads -> Ids \cup {Ready}]
  BY DEF TypeOK, Goto, Return, Ops

(* What Goto does.                                                         *)
LEMMA GotoEffect ==
    ASSUME TypeOK, NEW t \in Threads,
           NEW p \in {"idle", "ready", "drain", "register", "receive", "look", "wire", "dispose"},
           Goto(t, p)
    PROVE  /\ \A u \in Threads \ {t} : pc'[u] = pc[u]
           /\ pc'[t] = p
           /\ pc' \in [Threads -> {"idle", "ready", "drain", "register", "receive", "look",
                                   "wire", "dispose"}]
  BY DEF TypeOK, Goto

(* No thread but the starter is inside while the worker's own reply is     *)
(* awaited, so that whoever reads the wire reads a reply to a request.     *)
LEMMA ReplyIsToARequest ==
    ASSUME TypeOK, PlaceOK, OrderOK, NEW t \in Threads, pc[t] \in {"drain", "wire"},
           responses # <<>>
    PROVE  Head(responses).id \in Ids
  <1>1. ~ \E u \in Threads : pc[u] = "ready"
    BY DEF PlaceOK
  <1>2. Ready \notin IdsIn(responses)
    BY <1>1 DEF OrderOK
  <1>3. Head(responses).id \in IdsIn(responses) /\ Head(responses) \in Responses
    BY IdsTaken, TakeOne DEF TypeOK
  <1>4. QED
    BY <1>2, <1>3 DEF Responses

(* The id that is put is one of the worker's.                              *)
LEMMA NextIsAnId ==
    ASSUME TypeOK, PlaceOK, IdsOK, NEW t \in Threads, pc[t] = "drain"
    PROVE  next_request_id \in Ids /\ next_request_id + 1 \in 1 .. MaxRequests + 1
  <1>1. CASE op[t] = "stop"
    <2>1. \A u \in Threads \ {t} : op[u] = "infer"
      BY <1>1 DEF PlaceOK
    <2>2. ~ \E u \in Threads : op[u] = "stop" /\ pc[u] # "drain"
      BY <2>1
    <2>3. worker # "none"
      BY DEF PlaceOK
    <2>4. QED
      BY <2>2, <2>3, TensorBounds DEF IdsOK, TypeOK
  <1>2. CASE op[t] # "stop"
    BY <1>2, TensorBounds DEF IdsOK, TypeOK
  <1>3. QED
    BY <1>1, <1>2

(* The parts of the type invariant: the worker and the queues, the slots,  *)
(* and the threads.                                                        *)
ProcessTyped ==
    /\ starts \in 0 .. MaxStarts /\ paused \in BOOLEAN
    /\ worker \in {"none", "loading", "serving", "reply", "last", "leaving", "dead"}
    /\ work \in Responses \cup {None}
    /\ requests \in Seq(Requests) /\ responses \in Seq(Responses)

SlotsTyped ==
    /\ next_request_id \in 1 .. MaxRequests + 1
    /\ DOMAIN pending \subseteq Ids /\ \A i \in DOMAIN pending : pending[i] \in BOOLEAN
    /\ completed \subseteq Responses /\ lost \subseteq Ids
    /\ last_pause \in Nat /\ last_resume \in Nat /\ alone \in BOOLEAN

ThreadsTyped ==
    /\ state_lock \in Threads \cup {None} /\ receive_lock \in Threads \cup {None}
    /\ pc \in [Threads -> {"idle", "ready", "drain", "register", "receive", "look",
                           "wire", "dispose"}]
    /\ op \in [Threads -> Ops] /\ id \in [Threads -> Ids \cup {Ready}]

(* Every step keeps the types of the worker and of the queues.             *)
LEMMA ProcessTypes ==
    ASSUME TypeOK, PlaceOK, IdsOK, OrderOK, [Next]_vars
    PROVE  ProcessTyped'
  <1> USE DEF TypeOK, process, wires, vars
  <1>1. ASSUME NEW t \in Threads,
               Start(t) \/ StartFails(t) \/ Stop(t) \/ StopEnds(t)
        PROVE  ProcessTyped'
    <2>0. ProcessTyped /\ <<>> \in Seq(Requests) /\ <<>> \in Seq(Responses)
      BY DEF ProcessTyped
    <2>1. CASE Start(t)
      <3>1. starts' \in 0 .. MaxStarts
        BY <2>0, <2>1, TensorAssumption DEF Start, ProcessTyped
      <3>2. QED
        BY <2>0, <2>1, <3>1 DEF Start, ProcessTyped
    <2>2. CASE StartFails(t) \/ StopEnds(t)
      BY <2>0, <2>2 DEF StartFails, StopEnds, Dispose, ProcessTyped
    <2>3. CASE Stop(t)
      BY <2>0, <2>3 DEF Stop, Dispose, ProcessTyped
    <2>4. QED
      BY <1>1, <2>1, <2>2, <2>3
  <1>2. ASSUME NEW t \in Threads,
               StartReady(t) \/ Drain(t) \/ ReadWire(t)
        PROVE  ProcessTyped'
    <2>1. /\ responses' = Tail(responses) /\ responses # <<>>
          /\ UNCHANGED <<starts, worker, paused, work, requests>>
      BY <1>2 DEF StartReady, Drain, ReadWire
    <2>2. QED
      BY <2>1, TakeOne DEF ProcessTyped
  <1>3. ASSUME NEW t \in Threads, Put(t)
        PROVE  ProcessTyped'
    <2>1. [op |-> op[t], id |-> next_request_id] \in Requests
      BY <1>3, NextIsAnId DEF Put, Requests
    <2>2. QED
      BY <1>3, <2>1, PutOne DEF Put, ProcessTyped
  <1>4. ASSUME NEW t \in Threads,
               \/ Submit(t) \/ PutRefused(t) \/ Register(t) \/ Receive(t) \/ Look(t)
               \/ TimesOut(t) \/ WorkerGone(t)
        PROVE  ProcessTyped'
    BY <1>4 DEF Submit, PutRefused, Register, Receive, Look, TimesOut, WorkerGone, ProcessTyped
  <1>5. CASE Loaded
    <2>1. /\ [id |-> Ready, status |-> "ok"] \in Responses
          /\ [id |-> Ready, status |-> "failed"] \in Responses
      BY DEF Responses, Statuses
    <2>2. \A x \in Responses : <<x>> \in Seq(Responses)
      OBVIOUS
    <2>3. responses' \in Seq(Responses)
      BY <1>5, <2>1, <2>2 DEF Loaded
    <2>4. QED
      BY <1>5, <2>3 DEF Loaded, ProcessTyped
  <1>6. CASE Serve
    <2>1. PICK r \in Requests : r = Head(requests)
      BY <1>6, TakeOne DEF Serve
    <2>2. PICK s \in Outcome(r.op) : work' = [id |-> r.id, status |-> s]
      BY <1>6, <2>1 DEF Serve
    <2>3. s \in Statuses
      BY <2>2 DEF Outcome, Statuses
    <2>4. work' \in Responses
      BY <2>1, <2>2, <2>3 DEF Responses, Requests
    <2>5. QED
      BY <1>6, <2>4, TakeOne DEF Serve, ProcessTyped
  <1>7. CASE Reply
    <2>1. work \in Responses
      BY <1>7, TensorBounds DEF Reply, OrderOK
    <2>2. QED
      BY <1>7, <2>1, PutOne DEF Reply, ProcessTyped
  <1>8. CASE Die \/ UNCHANGED vars
    BY <1>8 DEF Die, ProcessTyped
  <1>9. QED
    BY <1>1, <1>2, <1>3, <1>4, <1>5, <1>6, <1>7, <1>8 DEF Next

(* Every step keeps the types of the threads and the locks.                *)
LEMMA ThreadTypes ==
    ASSUME TypeOK, PlaceOK, IdsOK, [Next]_vars
    PROVE  ThreadsTyped'
  <1> USE DEF locks, threads, vars
  <1>0. ThreadsTyped
    BY DEF TypeOK, ThreadsTyped
  <1>1. ASSUME NEW t \in Threads,
               \/ Start(t) \/ StartReady(t) \/ StartFails(t) \/ Stop(t) \/ StopEnds(t)
               \/ Submit(t) \/ Drain(t)
        PROVE  ThreadsTyped'
    <2> USE <1>0 DEF ThreadsTyped, Goto, Return, Ops
    <2>1. CASE Start(t) \/ StartReady(t)
      BY <1>1, <2>1 DEF Start, StartReady
    <2>2. CASE StartFails(t) \/ StopEnds(t)
      BY <1>1, <2>2 DEF StartFails, StopEnds
    <2>3. CASE Stop(t)
      BY <1>1, <2>3 DEF Stop
    <2>4. CASE Submit(t)
      BY <1>1, <2>4 DEF Submit
    <2>5. CASE Drain(t)
      BY <1>1, <2>5 DEF Drain
    <2>6. QED
      BY <1>1, <2>1, <2>2, <2>3, <2>4, <2>5
  <1>2. ASSUME NEW t \in Threads, Put(t) \/ PutRefused(t) \/ Register(t) \/ Receive(t)
        PROVE  ThreadsTyped'
    <2>1. CASE Put(t)
      BY <1>0, <2>1, NextIsAnId DEF Put, ThreadsTyped, Goto
    <2>2. CASE PutRefused(t)
      BY <1>0, <2>2, LeaveEffect DEF PutRefused, ThreadsTyped
    <2>3. CASE Register(t)
      BY <1>0, <2>3 DEF Register, ThreadsTyped, Goto
    <2>4. CASE Receive(t)
      BY <1>0, <2>4, LeaveEffect DEF Receive, ThreadsTyped, Goto
    <2>5. QED
      BY <1>2, <2>1, <2>2, <2>3, <2>4
  <1>3. ASSUME NEW t \in Threads, Look(t) \/ ReadWire(t) \/ TimesOut(t) \/ WorkerGone(t)
        PROVE  ThreadsTyped'
    <2>1. CASE Look(t)
      BY <1>0, <2>1, LeaveEffect DEF Look, Answered, ThreadsTyped, Goto
    <2>2. CASE ReadWire(t)
      BY <1>0, <2>2, LeaveEffect DEF ReadWire, Answered, ThreadsTyped, Goto
    <2>3. CASE TimesOut(t) \/ WorkerGone(t)
      BY <1>0, <2>3, LeaveEffect DEF TimesOut, WorkerGone, ThreadsTyped
    <2>4. QED
      BY <1>3, <2>1, <2>2, <2>3
  <1>4. CASE Loaded \/ Serve \/ Reply \/ Die \/ UNCHANGED vars
    BY <1>0, <1>4 DEF Loaded, Serve, Reply, Die, ThreadsTyped
  <1>5. QED
    BY <1>1, <1>2, <1>3, <1>4 DEF Next

(* What freeing and marking a slot do.                                     *)
LEMMA SlotEffect ==
    ASSUME TypeOK, NEW i \in Ids
    PROVE  /\ Free(i) => /\ DOMAIN pending' = DOMAIN pending \ {i}
                         /\ \A j \in DOMAIN pending' : pending'[j] = pending[j]
           /\ \A b \in BOOLEAN : Mark(i, b) =>
                 /\ DOMAIN pending' = DOMAIN pending \cup {i}
                 /\ pending'[i] = b
                 /\ \A j \in DOMAIN pending' \ {i} : pending'[j] = pending[j]
  BY DEF Free, Mark, Restrict, TypeOK

(* Every step keeps the types of the slots.                                *)
LEMMA SlotTypes ==
    ASSUME TypeOK, PlaceOK, IdsOK, OrderOK, [Next]_vars
    PROVE  SlotsTyped'
  <1> USE DEF slots, ghosts, vars
  <1>0. SlotsTyped
    BY DEF TypeOK, SlotsTyped
  <1>1. ASSUME NEW t \in Threads,
               Start(t) \/ StartReady(t) \/ StartFails(t) \/ Stop(t) \/ StopEnds(t) \/ Submit(t)
        PROVE  SlotsTyped'
    <2>0. /\ 1 \in 1 .. MaxRequests + 1 /\ 0 \in Nat
          /\ pending' = <<>> => DOMAIN pending' = {}
      BY TensorBounds
    <2>1. CASE Start(t)
      BY <1>0, <2>0, <2>1 DEF Start, SlotsTyped
    <2>2. CASE StartFails(t) \/ StopEnds(t)
      BY <1>0, <2>0, <2>2 DEF StartFails, StopEnds, Dispose, SlotsTyped
    <2>3. CASE Stop(t)
      BY <1>0, <2>0, <2>3 DEF Stop, Dispose, SlotsTyped
    <2>4. CASE StartReady(t) \/ Submit(t)
      BY <1>0, <2>4 DEF StartReady, Submit, SlotsTyped
    <2>5. QED
      BY <1>1, <2>1, <2>2, <2>3, <2>4
  <1>2. ASSUME NEW t \in Threads, Drain(t)
        PROVE  SlotsTyped'
    <2>1. PICK r \in Responses : r = Head(responses) /\ r.id \in Ids
      BY <1>2, ReplyIsToARequest, TakeOne DEF Drain, TypeOK
    <2>2. Free(r.id) => /\ DOMAIN pending' = DOMAIN pending \ {r.id}
                        /\ \A j \in DOMAIN pending' : pending'[j] = pending[j]
      BY <2>1, SlotEffect
    <2>3. QED
      BY <1>0, <1>2, <2>1, <2>2 DEF Drain, SlotsTyped
  <1>3. ASSUME NEW t \in Threads, Put(t) \/ PutRefused(t)
        PROVE  SlotsTyped'
    <2>1. next_request_id \in Nat /\ next_request_id \in Ids
          /\ next_request_id + 1 \in 1 .. MaxRequests + 1
      BY <1>3, NextIsAnId, TensorBounds DEF Put, PutRefused, TypeOK
    <2>2. CASE Put(t)
      BY <1>0, <2>1, <2>2 DEF Put, SlotsTyped
    <2>3. CASE PutRefused(t)
      BY <1>0, <2>1, <2>3 DEF PutRefused, SlotsTyped
    <2>4. QED
      BY <1>3, <2>2, <2>3
  <1>4. ASSUME NEW t \in Threads, Posted(t),
               Register(t) \/ TimesOut(t) \/ Receive(t) \/ WorkerGone(t)
        PROVE  SlotsTyped'
    <2>1. id[t] \in Ids
      BY <1>4 DEF IdsOK
    <2>2. CASE Receive(t) \/ WorkerGone(t)
      BY <1>0, <2>2 DEF Receive, WorkerGone, SlotsTyped
    <2>3. \A b \in BOOLEAN : Mark(id[t], b) =>
                 /\ DOMAIN pending' = DOMAIN pending \cup {id[t]}
                 /\ pending'[id[t]] = b
                 /\ \A j \in DOMAIN pending' \ {id[t]} : pending'[j] = pending[j]
      BY <2>1, SlotEffect
    <2>4. CASE Register(t)
      BY <1>0, <2>1, <2>3, <2>4 DEF Register, SlotsTyped
    <2>5. CASE TimesOut(t)
      BY <1>0, <2>1, <2>3, <2>5 DEF TimesOut, SlotsTyped
    <2>6. QED
      BY <1>4, <2>2, <2>4, <2>5
  <1>5. ASSUME NEW t \in Threads, Look(t)
        PROVE  SlotsTyped'
    <2>1. id[t] \in Ids /\ id[t] \in Nat
      BY <1>5, TensorBounds DEF IdsOK, Look, Posted
    <2>2. QED
      BY <1>0, <1>5, <2>1, SlotEffect DEF Look, Answered, SlotsTyped
  <1>6. ASSUME NEW t \in Threads, ReadWire(t)
        PROVE  SlotsTyped'
    <2>1. id[t] \in Ids /\ id[t] \in Nat
      BY <1>6, TensorBounds DEF IdsOK, ReadWire, Posted
    <2>2. PICK r \in Responses : r = Head(responses) /\ r.id \in Ids
      BY <1>6, ReplyIsToARequest, TakeOne DEF ReadWire, TypeOK
    <2>3. /\ Free(r.id) => /\ DOMAIN pending' = DOMAIN pending \ {r.id}
                           /\ \A j \in DOMAIN pending' : pending'[j] = pending[j]
          /\ Free(id[t]) => /\ DOMAIN pending' = DOMAIN pending \ {id[t]}
                            /\ \A j \in DOMAIN pending' : pending'[j] = pending[j]
      BY <2>1, <2>2, SlotEffect
    <2>4. QED
      BY <1>0, <1>6, <2>1, <2>2, <2>3 DEF ReadWire, Answered, SlotsTyped
  <1>7. CASE Loaded \/ Serve \/ Reply \/ Die \/ UNCHANGED vars
    BY <1>0, <1>7 DEF Loaded, Serve, Reply, Die, SlotsTyped
  <1>8. QED
    BY <1>1, <1>2, <1>3, <1>4, <1>5, <1>6, <1>7
       DEF Next, Posted, Register, TimesOut, Receive, WorkerGone

(* Every step keeps the type invariant.                                    *)
LEMMA TypeStep ==
    ASSUME TypeOK, PlaceOK, IdsOK, OrderOK, [Next]_vars
    PROVE  TypeOK'
  BY ProcessTypes, SlotTypes, ThreadTypes DEF TypeOK, ProcessTyped, SlotsTyped, ThreadsTyped

-----------------------------------------------------------------------------
(* Every step preserves the invariant: where the threads are.              *)

(* Every step of a thread leaves the others where they are.                *)
LEMMA PlaceStep ==
    ASSUME TypeOK, PlaceOK, OrderOK, [Next]_vars
    PROVE  PlaceOK'
  <1> USE DEF process, wires, slots, locks, threads, ghosts, vars
  <1>0. /\ pc \in [Threads -> {"idle", "ready", "drain", "register", "receive", "look",
                               "wire", "dispose"}]
        /\ op \in [Threads -> Ops] /\ id \in [Threads -> Ids \cup {Ready}]
        /\ None \notin Threads
    BY TensorBounds DEF TypeOK
  <1>1. ASSUME UNCHANGED <<state_lock, receive_lock, next_request_id, pc, op>>,
               worker' = "none" => worker = "none",
               worker' = "loading" => worker = "loading" /\ UNCHANGED responses
        PROVE  PlaceOK'
    BY <1>1 DEF PlaceOK
  <1>2. ASSUME NEW t \in Threads, Start(t)
        PROVE  PlaceOK'
    <2>1. /\ \A u \in Threads \ {t} : pc'[u] = pc[u] /\ pc[u] = "idle"
          /\ pc'[t] = "ready" /\ pc[t] = "idle"
          /\ UNCHANGED <<op, state_lock, receive_lock>> /\ worker' = "loading"
          /\ next_request_id' = 1 /\ responses' = <<>>
      BY <1>0, <1>2, GotoEffect DEF Start, Others, Goto
    <2>2. QED
      BY <2>1 DEF PlaceOK
  <1>3. ASSUME NEW t \in Threads, StartReady(t)
        PROVE  PlaceOK'
    <2>1. worker # "loading"
      BY <1>3 DEF StartReady, PlaceOK
    <2>2. UNCHANGED <<state_lock, receive_lock, next_request_id, worker>>
      BY <1>3 DEF StartReady
    <2>3. /\ \A u \in Threads \ {t} : pc'[u] = pc[u] /\ op'[u] = op[u]
          /\ pc'[t] = "idle" /\ op'[t] = "infer" /\ pc[t] = "ready"
      BY <1>3, ReturnEffect DEF StartReady
    <2>4. QED
      BY <2>1, <2>2, <2>3 DEF PlaceOK
  <1>4. ASSUME NEW t \in Threads, StartFails(t) \/ StopEnds(t)
        PROVE  PlaceOK'
    <2>1. /\ \A u \in Threads \ {t} : pc'[u] = pc[u] /\ op'[u] = op[u]
          /\ pc'[t] = "idle" /\ op'[t] = "infer" /\ pc[t] \in {"ready", "dispose"}
          /\ worker' = "none" /\ UNCHANGED <<state_lock, receive_lock>>
      BY <1>4, ReturnEffect DEF StartFails, StopEnds, Dispose
    <2>2. \A u \in Threads \ {t} : pc[u] = "idle" /\ op[u] = "infer"
      BY <2>1 DEF PlaceOK
    <2>3. QED
      BY <2>1, <2>2 DEF PlaceOK
  <1>5. ASSUME NEW t \in Threads, Stop(t)
        PROVE  PlaceOK'
    <2>1. \A u \in Threads : pc[u] = "idle" /\ op[u] = "infer"
      BY <1>5 DEF Stop, Others, PlaceOK
    <2>2. CASE Running /\ pc' # pc
      <3>1. /\ \A u \in Threads \ {t} : pc'[u] = pc[u] /\ op'[u] = op[u]
            /\ pc'[t] = "drain" /\ op'[t] = "stop" /\ state_lock' = t
            /\ UNCHANGED <<worker, receive_lock, responses>>
        BY <1>0, <1>5, <2>2 DEF Stop, Goto, Ops
      <3>2. worker # "loading" /\ worker # "none"
        BY <2>1, <2>2 DEF PlaceOK, Running
      <3>3. QED
        BY <2>1, <3>1, <3>2 DEF PlaceOK
    <2>3. CASE UNCHANGED pc
      <3>1. worker' = "none" /\ UNCHANGED <<op, state_lock, receive_lock>>
        <4>1. "drain" # "idle"
          OBVIOUS
        <4>2. ~ Goto(t, "drain")
          BY <1>0, <2>1, <2>3 DEF Goto
        <4>3. QED
          BY <1>5, <4>2 DEF Stop, Dispose
      <3>2. QED
        BY <2>1, <2>3, <3>1 DEF PlaceOK
    <2>4. QED
      BY <1>5, <2>2, <2>3 DEF Stop
  <1>6. ASSUME NEW t \in Threads, Submit(t)
        PROVE  PlaceOK'
    <2>1. /\ \A u \in Threads \ {t} : pc'[u] = pc[u] /\ op'[u] = op[u]
          /\ pc'[t] = "drain" /\ op'[t] # "stop" /\ pc[t] = "idle" /\ state_lock' = t
          /\ state_lock = None
          /\ UNCHANGED <<worker, receive_lock, next_request_id, responses>>
          /\ worker # "none" /\ \A u \in Threads : op[u] # "stop" /\ pc[u] # "ready"
      BY <1>0, <1>6 DEF Submit, Goto, Ops, MayEnter, Lifecycle, Running
    <2>2. QED
      BY <1>0, <2>1 DEF PlaceOK
  <1>7. ASSUME NEW t \in Threads, Put(t) \/ PutRefused(t) \/ Register(t)
        PROVE  PlaceOK'
    <2>1. /\ \A u \in Threads \ {t} : pc'[u] = pc[u] /\ op'[u] = op[u]
          /\ pc[t] \in {"drain", "register"} /\ pc'[t] \in {"register", "receive", "idle", "dispose"}
          /\ pc'[t] = "dispose" => op'[t] = "stop"
          /\ pc'[t] = "idle" => op'[t] = "infer"
          /\ op'[t] = "stop" => op[t] = "stop"
          /\ state_lock' = IF pc'[t] = "register" THEN state_lock ELSE None
          /\ UNCHANGED <<worker, receive_lock, responses>>
      <3>1. CASE Put(t)
        BY <1>0, <3>1 DEF Put, Goto
      <3>2. CASE PutRefused(t)
        BY <1>0, <3>2, LeaveEffect DEF PutRefused
      <3>3. CASE Register(t)
        BY <1>0, <3>3 DEF Register, Goto
      <3>4. QED
        BY <1>7, <3>1, <3>2, <3>3
    <2>2. \A u \in Threads : pc[u] # "ready"
      BY <2>1 DEF PlaceOK
    <2>3. QED
      BY <1>0, <2>1, <2>2 DEF PlaceOK
  <1>8. ASSUME NEW t \in Threads, Receive(t)
        PROVE  PlaceOK'
    <2>1. /\ \A u \in Threads \ {t} : pc'[u] = pc[u] /\ op'[u] = op[u]
          /\ pc[t] = "receive" /\ pc'[t] \in {"look", "idle", "dispose"}
          /\ pc'[t] = "dispose" => op'[t] = "stop"
          /\ pc'[t] = "idle" => op'[t] = "infer"
          /\ op'[t] = "stop" => op[t] = "stop"
          /\ IF pc'[t] = "look" THEN receive_lock = None /\ receive_lock' = t
                                ELSE UNCHANGED receive_lock
          /\ UNCHANGED <<worker, state_lock, responses, next_request_id>>
      <3>1. CASE Goto(t, "look")
        <4>1. pc'[t] = "look" /\ \A u \in Threads \ {t} : pc'[u] = pc[u]
          BY <3>1, GotoEffect
        <4>2. ~Leave(t)
          BY <4>1, LeaveEffect DEF Ops
        <4>3. QED
          BY <1>8, <4>1, <4>2 DEF Receive
      <3>2. CASE Leave(t) /\ UNCHANGED receive_lock
        BY <1>8, <3>2, LeaveEffect DEF Receive
      <3>3. QED
        BY <1>8, <3>1, <3>2 DEF Receive
    <2>2. \A u \in Threads : pc[u] # "ready"
      BY <2>1 DEF PlaceOK
    <2>3. QED
      BY <1>0, <2>1, <2>2 DEF PlaceOK
  <1>9. ASSUME NEW t \in Threads, Look(t) \/ ReadWire(t) \/ TimesOut(t) \/ WorkerGone(t)
        PROVE  PlaceOK'
    <2>1. /\ \A u \in Threads \ {t} : pc'[u] = pc[u] /\ op'[u] = op[u]
          /\ pc[t] \in {"look", "wire"} /\ pc'[t] \in {"look", "wire", "idle", "dispose"}
          /\ pc'[t] = "dispose" => op'[t] = "stop"
          /\ pc'[t] = "idle" => op'[t] = "infer"
          /\ op'[t] = "stop" => op[t] = "stop"
          /\ receive_lock' = IF pc'[t] \in {"look", "wire"} THEN receive_lock ELSE None
          /\ UNCHANGED <<worker, state_lock, next_request_id>>
      <3>1. CASE Look(t)
        <4>1. \/ Goto(t, "wire") /\ UNCHANGED <<op, receive_lock>>
              \/ Leave(t) /\ receive_lock' = None
          BY <3>1 DEF Look, Answered
        <4>2. UNCHANGED <<worker, state_lock, next_request_id>> /\ pc[t] = "look"
          BY <3>1 DEF Look
        <4>3. QED
          BY <4>1, <4>2, LeaveEffect, GotoEffect
      <3>2. CASE ReadWire(t)
        <4>1. \/ Goto(t, "look") /\ UNCHANGED <<op, receive_lock>>
              \/ Leave(t) /\ receive_lock' = None
          BY <3>2 DEF ReadWire, Answered
        <4>2. UNCHANGED <<worker, state_lock, next_request_id>> /\ pc[t] = "wire"
          BY <3>2 DEF ReadWire
        <4>3. QED
          BY <4>1, <4>2, LeaveEffect, GotoEffect
      <3>3. CASE TimesOut(t) \/ WorkerGone(t)
        BY <3>3, LeaveEffect DEF TimesOut, WorkerGone
      <3>4. QED
        BY <1>9, <3>1, <3>2, <3>3
    <2>2. \A u \in Threads : pc[u] # "ready"
      BY <2>1 DEF PlaceOK
    <2>3. worker # "loading"
      BY <2>2 DEF PlaceOK
    <2>4. QED
      BY <1>0, <2>1, <2>2, <2>3 DEF PlaceOK
  <1>10. ASSUME NEW t \in Threads, Drain(t)
        PROVE  PlaceOK'
    BY <1>1, <1>10 DEF Drain, PlaceOK
  <1>11. CASE Loaded \/ Serve \/ Reply \/ Die \/ UNCHANGED vars
    BY <1>1, <1>11 DEF Loaded, Serve, Reply, Die, PlaceOK
  <1>12. QED
    BY <1>2, <1>3, <1>4, <1>5, <1>6, <1>7, <1>8, <1>9, <1>10, <1>11 DEF Next

-----------------------------------------------------------------------------
(* The ids.                                                                *)

(* What a step of receive leaves alone: everybody else, and the request of *)
(* the thread itself while it stays inside; a stop goes on to its end.     *)
LEMMA ReceiverEffect ==
    ASSUME TypeOK, NEW t \in Threads,
           Receive(t) \/ Look(t) \/ ReadWire(t) \/ TimesOut(t) \/ WorkerGone(t)
    PROVE  /\ \A u \in Threads \ {t} : pc'[u] = pc[u] /\ op'[u] = op[u] /\ id'[u] = id[u]
           /\ pc[t] \in {"receive", "look", "wire"} /\ Posted(t)
           /\ pc'[t] \in {"look", "wire", "idle", "dispose"}
           /\ pc'[t] \in {"look", "wire"} => id'[t] = id[t] /\ op'[t] = op[t]
           /\ op[t] = "stop" => op'[t] = "stop"
           /\ UNCHANGED <<next_request_id, starts, worker, paused, work, requests, alone,
                          last_resume>>
  <1> USE DEF process, wires, slots, locks, threads, ghosts
  <1>1. \/ Leave(t)
        \/ Goto(t, "look") /\ UNCHANGED <<op, id>>
        \/ Goto(t, "wire") /\ UNCHANGED <<op, id>>
    <2>1. CASE Receive(t)
      BY <2>1 DEF Receive
    <2>2. CASE Look(t)
      BY <2>2 DEF Look, Answered
    <2>3. CASE ReadWire(t)
      BY <2>3 DEF ReadWire, Answered
    <2>4. CASE TimesOut(t) \/ WorkerGone(t)
      BY <2>4 DEF TimesOut, WorkerGone
    <2>5. QED
      BY <2>1, <2>2, <2>3, <2>4
  <1>2. /\ pc[t] \in {"receive", "look", "wire"}
        /\ UNCHANGED <<next_request_id, starts, worker, paused, work, requests, alone,
                       last_resume>>
    <2>1. CASE Receive(t)
      BY <2>1 DEF Receive
    <2>2. CASE Look(t)
      BY <2>2 DEF Look
    <2>3. CASE ReadWire(t)
      BY <2>3 DEF ReadWire
    <2>4. CASE TimesOut(t) \/ WorkerGone(t)
      BY <2>4 DEF TimesOut, WorkerGone
    <2>5. QED
      BY <2>1, <2>2, <2>3, <2>4
  <1>3. CASE Leave(t)
    BY <1>2, <1>3, LeaveEffect DEF Posted
  <1>4. CASE Goto(t, "look") /\ UNCHANGED <<op, id>>
    BY <1>2, <1>4, GotoEffect DEF Posted
  <1>5. CASE Goto(t, "wire") /\ UNCHANGED <<op, id>>
    BY <1>2, <1>5, GotoEffect DEF Posted
  <1>6. QED
    BY <1>1, <1>3, <1>4, <1>5

(* Every step keeps the ids apart, and one for the stop.                   *)
LEMMA IdsStep ==
    ASSUME TypeOK, PlaceOK, IdsOK, OrderOK, [Next]_vars
    PROVE  IdsOK'
  <1> USE DEF process, wires, slots, locks, threads, ghosts, vars
  <1>0. /\ pc \in [Threads -> {"idle", "ready", "drain", "register", "receive", "look",
                               "wire", "dispose"}]
        /\ op \in [Threads -> Ops] /\ id \in [Threads -> Ids \cup {Ready}]
        /\ next_request_id \in Nat /\ MaxRequests \in Nat /\ MaxRequests >= 1
        /\ Ids = 1 .. MaxRequests
    BY TensorBounds DEF TypeOK
  <1>1. ASSUME UNCHANGED <<next_request_id, pc, op, id>>,
               worker = "none" => worker' = "none"
        PROVE  IdsOK'
    BY <1>1 DEF IdsOK, Posted
  <1>2. ASSUME NEW t \in Threads, Start(t)
        PROVE  IdsOK'
    <2>1. /\ \A u \in Threads \ {t} : pc'[u] = pc[u] /\ pc[u] = "idle"
          /\ pc'[t] = "ready" /\ next_request_id' = 1
      BY <1>0, <1>2, GotoEffect DEF Start, Others
    <2>2. QED
      BY <1>0, <2>1 DEF IdsOK, Posted
  <1>3. ASSUME NEW t \in Threads, StartReady(t)
        PROVE  IdsOK'
    <2>1. /\ \A u \in Threads \ {t} : pc'[u] = pc[u] /\ op'[u] = op[u] /\ id'[u] = id[u]
          /\ pc'[t] = "idle" /\ pc[t] = "ready" /\ op[t] # "stop"
          /\ UNCHANGED <<next_request_id, worker>>
      BY <1>3, ReturnEffect DEF StartReady, PlaceOK
    <2>2. QED
      BY <1>0, <2>1 DEF IdsOK, Posted
  <1>4. ASSUME NEW t \in Threads, StartFails(t) \/ StopEnds(t)
        PROVE  IdsOK'
    <2>1. /\ \A u \in Threads \ {t} : pc'[u] = pc[u] /\ op'[u] = op[u] /\ id'[u] = id[u]
          /\ pc'[t] = "idle" /\ worker' = "none" /\ UNCHANGED next_request_id
          /\ pc[t] \in {"ready", "dispose"}
      BY <1>4, ReturnEffect DEF StartFails, StopEnds, Dispose
    <2>2. \A u \in Threads \ {t} : pc'[u] = "idle"
      BY <2>1 DEF PlaceOK
    <2>3. QED
      BY <1>0, <2>1, <2>2 DEF IdsOK, Posted
  <1>5. ASSUME NEW t \in Threads, Stop(t)
        PROVE  IdsOK'
    <2>1. \A u \in Threads : pc[u] = "idle" /\ op[u] = "infer"
      BY <1>5 DEF Stop, Others, PlaceOK
    <2>2. CASE worker' = "none" /\ UNCHANGED <<pc, op, id, next_request_id>>
      BY <1>0, <2>1, <2>2 DEF IdsOK, Posted
    <2>3. CASE /\ op' = [op EXCEPT ![t] = "stop"] /\ Goto(t, "drain")
               /\ UNCHANGED <<worker, next_request_id>>
      <3>1. /\ \A u \in Threads \ {t} : pc'[u] = pc[u] /\ op'[u] = op[u]
            /\ pc'[t] = "drain" /\ op'[t] = "stop"
        BY <1>0, <2>3, GotoEffect DEF Ops
      <3>2. QED
        BY <1>0, <2>1, <2>3, <3>1 DEF IdsOK, Posted
    <2>4. QED
      BY <1>5, <2>2, <2>3 DEF Stop, Dispose
  <1>6. ASSUME NEW t \in Threads, Submit(t)
        PROVE  IdsOK'
    <2>1. /\ \A u \in Threads \ {t} : pc'[u] = pc[u] /\ op'[u] = op[u] /\ id'[u] = id[u]
          /\ pc'[t] = "drain" /\ op'[t] # "stop" /\ pc[t] = "idle"
          /\ UNCHANGED <<worker, next_request_id>> /\ next_request_id < MaxRequests
      BY <1>0, <1>6 DEF Submit, Goto, Ops, MayEnter
    <2>2. op[t] # "stop"
      BY <2>1 DEF PlaceOK
    <2>3. QED
      BY <1>0, <2>1, <2>2 DEF IdsOK, Posted
  <1>7. ASSUME NEW t \in Threads, Put(t)
        PROVE  IdsOK'
    <2>1. /\ \A u \in Threads \ {t} : pc'[u] = pc[u] /\ op'[u] = op[u] /\ id'[u] = id[u]
          /\ pc[t] = "drain" /\ pc'[t] = "register" /\ op'[t] = op[t]
          /\ id'[t] = next_request_id /\ next_request_id' = next_request_id + 1
          /\ next_request_id \in Ids /\ UNCHANGED worker
      BY <1>0, <1>7, NextIsAnId DEF Put, Goto
    <2>2. \A u \in Threads \ {t} : pc[u] # "drain"
      BY <2>1, <1>0 DEF PlaceOK
    <2>3. op[t] # "stop" => next_request_id < MaxRequests
      BY <2>1 DEF IdsOK
    <2>4. QED
      BY <1>0, <2>1, <2>2, <2>3 DEF IdsOK, Posted
  <1>8. ASSUME NEW t \in Threads, PutRefused(t)
        PROVE  IdsOK'
    <2>1. /\ \A u \in Threads \ {t} : pc'[u] = pc[u] /\ op'[u] = op[u] /\ id'[u] = id[u]
          /\ pc[t] = "drain" /\ pc'[t] \in {"idle", "dispose"}
          /\ op[t] = "stop" => op'[t] = "stop" /\ pc'[t] = "dispose"
          /\ next_request_id' \in {next_request_id, next_request_id + 1} /\ UNCHANGED worker
      BY <1>0, <1>8, LeaveEffect DEF PutRefused
    <2>2. \A u \in Threads \ {t} : pc[u] # "drain"
      BY <2>1, <1>0 DEF PlaceOK
    <2>3. op[t] # "stop" => next_request_id < MaxRequests
      BY <2>1 DEF IdsOK
    <2>4. QED
      BY <1>0, <2>1, <2>2, <2>3 DEF IdsOK, Posted
  <1>9. ASSUME NEW t \in Threads, Register(t)
        PROVE  IdsOK'
    <2>1. /\ \A u \in Threads \ {t} : pc'[u] = pc[u]
          /\ pc[t] = "register" /\ pc'[t] = "receive"
          /\ UNCHANGED <<op, id, worker, next_request_id>>
      BY <1>0, <1>9 DEF Register, Goto
    <2>2. QED
      BY <1>0, <2>1 DEF IdsOK, Posted
  <1>10. ASSUME NEW t \in Threads,
                Receive(t) \/ Look(t) \/ ReadWire(t) \/ TimesOut(t) \/ WorkerGone(t)
        PROVE  IdsOK'
    BY <1>0, <1>10, ReceiverEffect DEF IdsOK, Posted
  <1>11. ASSUME NEW t \in Threads, Drain(t)
         PROVE  IdsOK'
    BY <1>1, <1>11 DEF Drain
  <1>12. CASE Loaded \/ Serve \/ Reply \/ Die \/ UNCHANGED vars
    BY <1>1, <1>12 DEF Loaded, Serve, Reply, Die, Running
  <1>13. QED
    BY <1>2, <1>3, <1>4, <1>5, <1>6, <1>7, <1>8, <1>9, <1>10, <1>11, <1>12 DEF Next

-----------------------------------------------------------------------------
(* The order of the queue.                                                 *)

(* The order does not depend on the threads, but for the starter.          *)
LEMMA OrderIsKept ==
    ASSUME TypeOK, OrderOK,
           UNCHANGED <<requests, responses, work, worker>>, completed' \subseteq completed,
           next_request_id' \in {next_request_id, next_request_id + 1},
           \A t \in Threads : pc[t] = "ready" => pc'[t] = "ready"
    PROVE  OrderOK'
  <1>0. /\ next_request_id \in Nat /\ next_request_id >= 1
        /\ \A r \in completed : r.id \in Nat
        /\ \A i \in DOMAIN responses : responses[i].id \in Nat
        /\ \A j \in DOMAIN requests : requests[j].id \in Nat
        /\ work # None => work.id \in Nat
    <2>1. \A i \in DOMAIN responses : responses[i] \in Responses
      BY DEF TypeOK
    <2>2. \A j \in DOMAIN requests : requests[j] \in Requests
      BY DEF TypeOK
    <2>3. QED
      BY <2>1, <2>2, TensorBounds DEF TypeOK, Requests, Responses
  <1>1. next_request_id' = 1 => next_request_id = 1
    BY <1>0
  <1>2. \A n \in Nat : n < next_request_id => n < next_request_id'
    BY <1>0
  <1>3. /\ \A i, j \in DOMAIN requests : i < j => requests[i].id < requests[j].id
        /\ \A i, j \in DOMAIN responses : i < j => responses[i].id < responses[j].id
        /\ \A i \in DOMAIN responses : \A j \in DOMAIN requests :
              responses[i].id < requests[j].id
        /\ work # None <=> worker \in {"reply", "last"}
        /\ worker = "none" => requests = <<>> /\ responses = <<>>
    BY DEF OrderOK
  <1>4. work # None => /\ \A i \in DOMAIN responses : responses[i].id < work.id
                       /\ \A j \in DOMAIN requests : work.id < requests[j].id
                       /\ work.id < next_request_id' /\ work.id \in Ids
    BY <1>0, <1>2 DEF OrderOK
  <1>5. /\ \A i \in DOMAIN responses : responses[i].id < next_request_id'
        /\ \A j \in DOMAIN requests : requests[j].id < next_request_id'
        /\ \A r \in completed : /\ r.id < next_request_id'
                                /\ \A j \in DOMAIN requests : r.id < requests[j].id
    BY <1>0, <1>2 DEF OrderOK
  <1>6. next_request_id' = 1 => Len(responses) <= 1
    BY <1>1 DEF OrderOK
  <1>7. (Ready \in IdsIn(responses))' => \E t \in Threads : pc'[t] = "ready"
    BY DEF OrderOK, IdsIn
  <1>8. QED
    BY <1>3, <1>4, <1>5, <1>6, <1>7 DEF OrderOK

(* Whoever reads a response keeps the order, though he keeps the response. *)
LEMMA OrderWhenRead ==
    ASSUME TypeOK, OrderOK, responses # <<>>, responses' = Tail(responses),
           UNCHANGED <<requests, work, worker, next_request_id>>,
           completed' \subseteq completed \cup {Head(responses)},
           \A t \in Threads : pc[t] = "ready" => pc'[t] = "ready" \/ next_request_id = 1
    PROVE  OrderOK'
  <1> DEFINE rest == Tail(responses)
  <1>0. /\ Head(responses) = responses[1] /\ 1 \in DOMAIN responses
        /\ \A i \in DOMAIN rest : i + 1 \in DOMAIN responses /\ rest[i] = responses[i + 1]
        /\ DOMAIN rest \subseteq Nat /\ Len(responses) \in Nat /\ Len(rest) = Len(responses) - 1
        /\ rest \in Seq(Responses)
    BY TakeOne DEF TypeOK
  <1>1. /\ \A i, j \in DOMAIN rest : i < j => rest[i].id < rest[j].id
        /\ \A i \in DOMAIN rest : \A j \in DOMAIN requests : rest[i].id < requests[j].id
        /\ work # None => \A i \in DOMAIN rest : rest[i].id < work.id
        /\ \A i \in DOMAIN rest : rest[i].id < next_request_id
    <2> HIDE DEF rest
    <2>1. \A i, j \in DOMAIN rest : i < j => i + 1 < j + 1
      BY <1>0
    <2>2. QED
      BY <1>0, <2>1 DEF OrderOK
  <1>2. /\ \A r \in completed' : /\ r.id < next_request_id
                                 /\ \A j \in DOMAIN requests : r.id < requests[j].id
    BY <1>0 DEF OrderOK
  <1>3. next_request_id = 1 => rest = <<>>
    <2>1. next_request_id = 1 => Len(rest) = 0
      BY <1>0 DEF OrderOK
    <2>2. QED
      BY <1>0, <2>1
  <1>4. next_request_id = 1 => Len(rest) <= 1
    BY <1>0 DEF OrderOK
  <1>5. Ready \in IdsIn(rest) => \E t \in Threads : pc'[t] = "ready"
    <2>1. CASE next_request_id = 1
      BY <1>3, <2>1 DEF IdsIn
    <2>2. CASE next_request_id # 1
      <3>1. IdsIn(rest) \subseteq IdsIn(responses)
        BY IdsTaken DEF TypeOK
      <3>2. QED
        BY <2>2, <3>1 DEF OrderOK
    <2>3. QED
      BY <2>1, <2>2
  <1>6. worker # "none"
    BY DEF OrderOK
  <1>7. responses' = rest
    OBVIOUS
  <1>8. (Ready \in IdsIn(responses))' => \E t \in Threads : pc'[t] = "ready"
    BY <1>5, <1>7 DEF IdsIn
  <1> HIDE DEF rest
  <1>9. QED
    BY <1>1, <1>2, <1>4, <1>6, <1>7, <1>8 DEF OrderOK

(* An empty service is in order.                                           *)
LEMMA OrderWhenEmpty ==
    ASSUME responses' = <<>>, requests' = <<>>, work' = None, completed' = {},
           worker' \notin {"reply", "last"}
    PROVE  OrderOK'
  BY DEF OrderOK, IdsIn

(* A worker that loads has nothing to do yet.                              *)
LEMMA LoadingIsEmpty ==
    ASSUME TypeOK, PlaceOK, OrderOK, worker = "loading"
    PROVE  /\ next_request_id = 1 /\ requests = <<>> /\ responses = <<>> /\ work = None
           /\ \E t \in Threads : pc[t] = "ready"
  <1>1. PICK u \in Threads : pc[u] = "ready"
    BY DEF PlaceOK
  <1>2. next_request_id = 1
    BY <1>1 DEF PlaceOK
  <1>3. \A j \in DOMAIN requests : requests[j] \in Requests
    BY DEF TypeOK
  <1>4. \A j \in DOMAIN requests : requests[j].id < 1 /\ requests[j].id \in Nat /\ requests[j].id >= 1
    BY <1>2, <1>3, TensorBounds DEF OrderOK, Requests
  <1>5. ASSUME NEW j \in DOMAIN requests
        PROVE  FALSE
    BY <1>4
  <1>6. requests = <<>>
    BY <1>5, TakeOne DEF TypeOK
  <1>7. QED
    BY <1>1, <1>2, <1>6 DEF PlaceOK, OrderOK

(* Every step keeps the queue in the order of the ids.                     *)
LEMMA OrderStep ==
    ASSUME TypeOK, PlaceOK, IdsOK, OrderOK, [Next]_vars
    PROVE  OrderOK'
  <1> USE DEF process, wires, slots, locks, threads, ghosts, vars
  <1>0. /\ pc \in [Threads -> {"idle", "ready", "drain", "register", "receive", "look",
                               "wire", "dispose"}]
        /\ next_request_id \in Nat /\ next_request_id >= 1
    BY TensorBounds DEF TypeOK
  <1>1. ASSUME NEW t \in Threads, Start(t) \/ StartFails(t) \/ StopEnds(t)
        PROVE  OrderOK'
    BY <1>1, OrderWhenEmpty DEF Start, StartFails, StopEnds, Dispose
  <1>2. ASSUME NEW t \in Threads, Stop(t)
        PROVE  OrderOK'
    <2>1. \A u \in Threads : pc[u] # "ready"
      BY <1>2 DEF Stop, Others
    <2>2. QED
      BY <1>2, <2>1, OrderWhenEmpty, OrderIsKept DEF Stop, Dispose
  <1>3. ASSUME NEW t \in Threads, Submit(t) \/ PutRefused(t) \/ Register(t)
        PROVE  OrderOK'
    <2>1. /\ \A u \in Threads \ {t} : pc'[u] = pc[u]
          /\ pc[t] # "ready"
          /\ UNCHANGED <<requests, responses, work, worker, completed>>
          /\ next_request_id' \in {next_request_id, next_request_id + 1}
      <3>1. CASE Submit(t)
        BY <1>0, <3>1, GotoEffect DEF Submit, MayEnter
      <3>2. CASE PutRefused(t)
        BY <1>0, <3>2, LeaveEffect DEF PutRefused
      <3>3. CASE Register(t)
        BY <1>0, <3>3, GotoEffect DEF Register
      <3>4. QED
        BY <1>3, <3>1, <3>2, <3>3
    <2>2. QED
      BY <2>1, OrderIsKept
  <1>4. ASSUME NEW t \in Threads, Receive(t) \/ Look(t) \/ TimesOut(t) \/ WorkerGone(t)
        PROVE  OrderOK'
    <2>1. UNCHANGED responses /\ completed' \subseteq completed
      BY <1>4 DEF Receive, Look, TimesOut, WorkerGone
    <2>2. QED
      BY <1>0, <1>4, <2>1, ReceiverEffect, OrderIsKept
  <1>5. ASSUME NEW t \in Threads, StartReady(t)
        PROVE  OrderOK'
    <2>1. \A u \in Threads : pc[u] = "ready" => next_request_id = 1
      BY DEF PlaceOK
    <2>2. QED
      BY <1>5, <2>1, OrderWhenRead DEF StartReady
  <1>6. ASSUME NEW t \in Threads, Drain(t) \/ ReadWire(t)
        PROVE  OrderOK'
    <2>1. \A u \in Threads : pc[u] = "ready" => next_request_id = 1
      BY DEF PlaceOK
    <2>2. CASE Drain(t)
      BY <2>2, <2>1, OrderWhenRead DEF Drain
    <2>3. CASE ReadWire(t)
      BY <2>3, <2>1, OrderWhenRead DEF ReadWire
    <2>4. QED
      BY <1>6, <2>2, <2>3
  <1>7. ASSUME NEW t \in Threads, Put(t)
        PROVE  OrderOK'
    <2>0. PICK r \in Requests : r.id = next_request_id /\ requests' = Append(requests, r)
      BY <1>7, NextIsAnId DEF Put, Requests, TypeOK
    <2>1. /\ r.id = next_request_id
          /\ requests' = Append(requests, r) /\ responses = <<>> /\ responses' = <<>>
          /\ next_request_id' = next_request_id + 1 /\ UNCHANGED <<work, worker, completed>>
      BY <1>7, <2>0 DEF Put
    <2>2. /\ DOMAIN requests = 1 .. Len(requests) /\ Len(requests) \in Nat
          /\ \A i \in DOMAIN requests : i < Len(requests) + 1 /\ requests'[i] = requests[i]
          /\ requests'[Len(requests) + 1].id = next_request_id
          /\ \A i \in DOMAIN requests' : i = Len(requests) + 1 \/ i \in DOMAIN requests
      BY <2>0, <2>1, PutOne DEF TypeOK
    <2>3. \A i \in DOMAIN requests : requests[i].id < next_request_id /\ requests[i].id \in Nat
      <3>1. \A i \in DOMAIN requests : requests[i] \in Requests
        BY DEF TypeOK
      <3>2. QED
        BY <3>1, TensorBounds DEF OrderOK, Requests
    <2>4. \A i, j \in DOMAIN requests' : i < j => requests'[i].id < requests'[j].id
      <3>1. \A i \in DOMAIN requests : i < Len(requests) + 1 /\ i \in Nat
        BY <2>2
      <3>2. \A i, j \in DOMAIN requests : i < j => requests[i].id < requests[j].id
        BY DEF OrderOK
      <3>3. QED
        BY <2>2, <2>3, <3>1, <3>2
    <2>5. \A j \in DOMAIN requests' : requests'[j].id < next_request_id'
      <3>1. next_request_id' = next_request_id + 1
        BY <2>1
      <3>2. QED
        BY <1>0, <2>2, <2>3, <3>1
    <2>6. \A c \in completed : /\ c.id < next_request_id'
                               /\ \A j \in DOMAIN requests' : c.id < requests'[j].id
      <3>1. \A c \in completed : c.id \in Nat /\ c.id < next_request_id
                                 /\ \A j \in DOMAIN requests : c.id < requests[j].id
        BY TensorBounds DEF TypeOK, Responses, OrderOK
      <3>2. next_request_id' = next_request_id + 1
        BY <2>1
      <3>3. QED
        BY <1>0, <2>2, <3>1, <3>2
    <2>7. work # None => /\ \A j \in DOMAIN requests' : work.id < requests'[j].id
                         /\ work.id < next_request_id' /\ work.id \in Ids
      <3>1. work # None => work.id \in Nat /\ work.id < next_request_id /\ work.id \in Ids
                           /\ \A j \in DOMAIN requests : work.id < requests[j].id
        BY TensorBounds DEF OrderOK
      <3>2. next_request_id' = next_request_id + 1
        BY <2>1
      <3>3. QED
        BY <1>0, <2>2, <3>1, <3>2
    <2>8. (work # None <=> worker \in {"reply", "last"}) /\ worker # "none"
      BY <1>7 DEF Put, OrderOK, PlaceOK
    <2>9. next_request_id' # 1
      BY <1>0, <2>1
    <2>10. QED
      BY <2>1, <2>4, <2>5, <2>6, <2>7, <2>8, <2>9 DEF OrderOK, IdsIn
  <1>8. CASE Loaded
    <2>1. /\ next_request_id = 1 /\ requests = <<>> /\ work = None
          /\ \E u \in Threads : pc[u] = "ready"
      BY <1>8, LoadingIsEmpty DEF Loaded
    <2>2. /\ responses' = <<responses'[1]>> /\ Len(responses') = 1 /\ DOMAIN responses' = {1}
          /\ responses'[1].id = Ready /\ worker' \notin {"reply", "last", "none"}
          /\ UNCHANGED <<work, requests, completed, next_request_id, pc>>
      BY <1>8 DEF Loaded
    <2>3. QED
      BY <2>1, <2>2, TensorBounds DEF OrderOK
  <1>9. CASE Serve
    <2>1. /\ worker = "serving" /\ requests # <<>> /\ requests' = Tail(requests)
          /\ work' = [id |-> Head(requests).id, status |-> work'.status]
          /\ worker' \in {"reply", "last"}
          /\ UNCHANGED <<responses, completed, next_request_id, pc>>
      BY <1>9 DEF Serve
    <2>2. /\ \A i \in DOMAIN requests' : i + 1 \in DOMAIN requests /\ requests'[i] = requests[i + 1]
                                         /\ i \in Nat /\ 1 < i + 1
          /\ requests[1] = Head(requests) /\ 1 \in DOMAIN requests /\ Head(requests) \in Requests
      BY <2>1, TakeOne DEF TypeOK
    <2>3. /\ work'.id = requests[1].id /\ work'.id \in Ids /\ work' # None
          /\ work'.id < next_request_id
      <3>1. work'.id = Head(requests).id
        BY <2>1
      <3>2. work' \in Responses
        <4>1. work' \in Responses \cup {None}
          BY <1>9, ProcessTypes DEF ProcessTyped, Next
        <4>2. PICK s : work' = [id |-> Head(requests).id, status |-> s]
          BY <2>1
        <4>3. s \in Statuses
          BY <1>9, <4>2 DEF Serve, Outcome, Statuses
        <4>4. QED
          BY <2>2, <4>2, <4>3 DEF Requests, Responses
      <3>3. QED
        BY <2>2, <3>1, <3>2, TensorBounds DEF OrderOK, Requests
    <2>4. /\ \A i, j \in DOMAIN requests' : i < j => requests'[i].id < requests'[j].id
          /\ \A j \in DOMAIN requests' : /\ work'.id < requests'[j].id
                                         /\ requests'[j].id < next_request_id
      <3>1. \A i, j \in DOMAIN requests' : i < j => i + 1 < j + 1
        BY <2>2
      <3>2. QED
        BY <2>2, <2>3, <3>1 DEF OrderOK
    <2>5. /\ \A i \in DOMAIN responses : /\ responses[i].id < work'.id
                                         /\ \A j \in DOMAIN requests' : responses[i].id < requests'[j].id
          /\ \A r \in completed : \A j \in DOMAIN requests' : r.id < requests'[j].id
      BY <2>2, <2>3 DEF OrderOK
    <2>6. (Ready \in IdsIn(responses))' => \E t \in Threads : pc'[t] = "ready"
      BY <2>1 DEF OrderOK, IdsIn
    <2>7. QED
      BY <2>1, <2>3, <2>4, <2>5, <2>6 DEF OrderOK
  <1>10. CASE Reply
    <2>1. /\ worker \in {"reply", "last"} /\ work # None /\ work \in Responses
          /\ responses' = Append(responses, work) /\ work' = None
          /\ worker' \in {"leaving", "serving"}
          /\ UNCHANGED <<requests, completed, next_request_id, pc>>
      BY <1>10 DEF Reply, OrderOK, TypeOK
    <2>2. /\ DOMAIN responses = 1 .. Len(responses) /\ Len(responses) \in Nat
          /\ \A i \in DOMAIN responses : i < Len(responses) + 1 /\ responses'[i] = responses[i]
                                         /\ i \in Nat
          /\ responses'[Len(responses) + 1] = work
          /\ \A i \in DOMAIN responses' : i = Len(responses) + 1 \/ i \in DOMAIN responses
      BY <2>1, PutOne DEF TypeOK
    <2>3. \A i, j \in DOMAIN responses' : i < j => responses'[i].id < responses'[j].id
      <3>1. /\ \A i, j \in DOMAIN responses : i < j => responses[i].id < responses[j].id
            /\ \A i \in DOMAIN responses : responses[i].id < work.id
        BY <2>1 DEF OrderOK
      <3>2. QED
        BY <2>2, <3>1
    <2>4. \A i \in DOMAIN responses' :
             /\ responses'[i].id < next_request_id
             /\ \A j \in DOMAIN requests : responses'[i].id < requests[j].id
      BY <2>1, <2>2 DEF OrderOK
    <2>5. next_request_id # 1
      BY <2>1, TensorBounds DEF OrderOK
    <2>6. (Ready \in IdsIn(responses))' => \E t \in Threads : pc'[t] = "ready"
      <3>1. IdsIn(Append(responses, work)) = IdsIn(responses) \cup {work.id}
        BY <2>1, IdsPut DEF TypeOK
      <3>2. work.id # Ready
        BY <2>1, TensorBounds DEF OrderOK
      <3>3. QED
        BY <2>1, <3>1, <3>2 DEF OrderOK, IdsIn
    <2>7. QED
      BY <2>1, <2>3, <2>4, <2>5, <2>6 DEF OrderOK
  <1>11. CASE Die
    <2>1. work' = None /\ worker' = "dead"
          /\ UNCHANGED <<requests, responses, completed, next_request_id, pc>>
      BY <1>11 DEF Die
    <2>2. (Ready \in IdsIn(responses))' => \E t \in Threads : pc'[t] = "ready"
      BY <2>1 DEF OrderOK, IdsIn
    <2>3. QED
      BY <2>1, <2>2 DEF OrderOK
  <1>12. CASE UNCHANGED vars
    BY <1>12, OrderIsKept
  <1>13. QED
    BY <1>1, <1>2, <1>3, <1>4, <1>5, <1>6, <1>7, <1>8, <1>9, <1>10, <1>11, <1>12 DEF Next

-----------------------------------------------------------------------------
(* What is to come, and the slots.                                         *)

(* What is read is not to come any more, and everything else still is.     *)
LEMMA ToComeWhenRead ==
    ASSUME TypeOK, OrderOK, responses # <<>>, responses' = Tail(responses),
           UNCHANGED <<requests, work>>
    PROVE  ToCome' = ToCome \ {Head(responses).id} /\ Head(responses).id \in ToCome
  <1>1. /\ Head(responses) = responses[1] /\ 1 \in DOMAIN responses
        /\ \A i \in DOMAIN Tail(responses) :
              i + 1 \in DOMAIN responses /\ Tail(responses)[i] = responses[i + 1] /\ 1 < i + 1
    BY TakeOne DEF TypeOK
  <1>2. /\ \A i \in DOMAIN responses : responses[i].id \in Nat
        /\ \A j \in DOMAIN requests : requests[j].id \in Nat
        /\ work # None => work.id \in Nat
    <2>1. /\ \A i \in DOMAIN responses : responses[i] \in Responses
          /\ \A j \in DOMAIN requests : requests[j] \in Requests
      BY DEF TypeOK
    <2>2. QED
      BY <2>1, TensorBounds DEF TypeOK, Requests, Responses
  <1>3. Head(responses).id \notin IdsIn(Tail(responses))
    BY <1>1, <1>2 DEF OrderOK, IdsIn
  <1>4. Head(responses).id \notin IdsIn(requests)
    BY <1>1, <1>2 DEF OrderOK, IdsIn
  <1>5. work # None => Head(responses).id # work.id
    BY <1>1, <1>2 DEF OrderOK
  <1>6. IdsIn(responses) = IdsIn(Tail(responses)) \cup {Head(responses).id}
    BY IdsTaken DEF TypeOK
  <1>7. /\ IdsIn(responses)' = IdsIn(Tail(responses)) /\ IdsIn(requests)' = IdsIn(requests)
        /\ work' = work
    BY DEF IdsIn
  <1>8. QED
    BY <1>3, <1>4, <1>5, <1>6, <1>7 DEF ToCome

(* What every step does to what is to come.                                *)
LEMMA ToComeSteps ==
    ASSUME TypeOK, PlaceOK, IdsOK, OrderOK
    PROVE  /\ UNCHANGED <<requests, responses, work>> => ToCome' = ToCome
           /\ requests' = <<>> /\ responses' = <<>> /\ work' = None => ToCome' = {}
           /\ Loaded => ToCome' = {Ready}
           /\ Serve => ToCome' = ToCome
           /\ Reply => ToCome' = ToCome
           /\ Die => ToCome' \subseteq ToCome
           /\ \A t \in Threads : Put(t) => ToCome' = ToCome \cup {next_request_id}
  <1>1. UNCHANGED <<requests, responses, work>> => ToCome' = ToCome
    BY DEF ToCome, IdsIn
  <1>2. requests' = <<>> /\ responses' = <<>> /\ work' = None => ToCome' = {}
    BY DEF ToCome, IdsIn
  <1>3. Loaded => ToCome' = {Ready}
    <2> SUFFICES ASSUME Loaded PROVE ToCome' = {Ready}
      OBVIOUS
    <2>1. /\ requests' = <<>> /\ work' = None /\ DOMAIN responses' = {1}
          /\ responses'[1].id = Ready
      BY LoadingIsEmpty DEF Loaded
    <2>2. IdsIn(responses)' = {Ready} /\ IdsIn(requests)' = {}
      BY <2>1 DEF IdsIn
    <2>3. QED
      BY <2>1, <2>2 DEF ToCome
  <1>4. Serve => ToCome' = ToCome
    <2> SUFFICES ASSUME Serve PROVE ToCome' = ToCome
      OBVIOUS
    <2>1. /\ work = None /\ requests # <<>> /\ requests' = Tail(requests) /\ responses' = responses
          /\ \E s \in Statuses : work' = [id |-> Head(requests).id, status |-> s]
      BY DEF Serve, OrderOK, Outcome, Statuses
    <2>2. Head(requests) \in Requests
      BY <2>1, TakeOne DEF TypeOK
    <2>3. work' \in Responses /\ work'.id = Head(requests).id
      BY <2>1, <2>2 DEF Responses, Requests
    <2>4. IdsIn(requests) = IdsIn(Tail(requests)) \cup {Head(requests).id}
      BY <2>1, IdsTaken DEF TypeOK
    <2>5. IdsIn(requests)' = IdsIn(Tail(requests)) /\ IdsIn(responses)' = IdsIn(responses)
      BY <2>1 DEF IdsIn
    <2>6. work' # None
      BY <2>3, TensorBounds
    <2>7. QED
      BY <2>1, <2>3, <2>4, <2>5, <2>6 DEF ToCome
  <1>5. Reply => ToCome' = ToCome
    <2> SUFFICES ASSUME Reply PROVE ToCome' = ToCome
      OBVIOUS
    <2>1. /\ work \in Responses /\ work # None /\ work' = None /\ responses' = Append(responses, work)
          /\ requests' = requests
      BY DEF Reply, OrderOK, TypeOK
    <2>2. IdsIn(Append(responses, work)) = IdsIn(responses) \cup {work.id}
      BY <2>1, IdsPut DEF TypeOK
    <2>3. IdsIn(responses)' = IdsIn(Append(responses, work)) /\ IdsIn(requests)' = IdsIn(requests)
      BY <2>1 DEF IdsIn
    <2>4. QED
      BY <2>1, <2>2, <2>3 DEF ToCome
  <1>6. Die => ToCome' \subseteq ToCome
    BY DEF Die, ToCome, IdsIn, wires
  <1>7. ASSUME NEW t \in Threads, Put(t)
        PROVE  ToCome' = ToCome \cup {next_request_id}
    <2>0. PICK r \in Requests : r.id = next_request_id /\ requests' = Append(requests, r)
      BY <1>7, NextIsAnId DEF Put, Requests, TypeOK
    <2>1. IdsIn(Append(requests, r)) = IdsIn(requests) \cup {next_request_id}
      BY <2>0, IdsPut DEF TypeOK
    <2>2. /\ IdsIn(requests)' = IdsIn(Append(requests, r)) /\ IdsIn(responses)' = IdsIn(responses)
          /\ work' = work
      BY <1>7, <2>0 DEF Put, IdsIn, process
    <2>3. QED
      BY <2>1, <2>2 DEF ToCome
  <1>8. QED
    BY <1>1, <1>2, <1>3, <1>4, <1>5, <1>6, <1>7

(* Every id to come is smaller than the next one.                          *)
LEMMA ToComeIsKnown ==
    ASSUME TypeOK, OrderOK
    PROVE  ToCome \subseteq Ids \cup {Ready} /\ \A i \in ToCome : i < next_request_id
  <1>1. /\ \A i \in DOMAIN responses : responses[i] \in Responses
        /\ \A j \in DOMAIN requests : requests[j] \in Requests
    BY DEF TypeOK
  <1>2. QED
    BY <1>1 DEF ToCome, IdsIn, OrderOK, Requests, Responses

(* Every step keeps the responses in store out of what is to come.         *)
LEMMA KeptStep ==
    ASSUME TypeOK, PlaceOK, IdsOK, OrderOK, KeptOK, [Next]_vars
    PROVE  KeptOK'
  <1> USE DEF process, wires, slots, locks, threads, ghosts, vars
  <1>1. ASSUME ToCome' \subseteq ToCome, completed' \subseteq completed
        PROVE  KeptOK'
    BY <1>1 DEF KeptOK
  <1>2. ASSUME completed' = {}
        PROVE  KeptOK'
    BY <1>2 DEF KeptOK
  <1>3. ASSUME NEW t \in Threads,
               \/ Start(t) \/ StartFails(t) \/ Stop(t) \/ StopEnds(t) \/ Submit(t)
               \/ PutRefused(t) \/ Register(t)
        PROVE  KeptOK'
    <2>1. CASE Start(t) \/ StartFails(t) \/ StopEnds(t)
      BY <1>2, <2>1 DEF Start, StartFails, StopEnds, Dispose
    <2>2. CASE Stop(t)
      BY <1>1, <1>2, <2>2, ToComeSteps DEF Stop, Dispose
    <2>3. CASE Submit(t) \/ PutRefused(t) \/ Register(t)
      BY <1>1, <2>3, ToComeSteps DEF Submit, PutRefused, Register
    <2>4. QED
      BY <1>3, <2>1, <2>2, <2>3
  <1>4. ASSUME NEW t \in Threads, Receive(t) \/ Look(t) \/ TimesOut(t) \/ WorkerGone(t)
        PROVE  KeptOK'
    BY <1>1, <1>4, ToComeSteps DEF Receive, Look, TimesOut, WorkerGone
  <1>5. ASSUME NEW t \in Threads, StartReady(t)
        PROVE  KeptOK'
    BY <1>1, <1>5, ToComeWhenRead DEF StartReady
  <1>6. ASSUME NEW t \in Threads, Drain(t) \/ ReadWire(t)
        PROVE  KeptOK'
    <2>1. ToCome' = ToCome \ {Head(responses).id}
      BY <1>6, ToComeWhenRead DEF Drain, ReadWire
    <2>2. Head(responses).id \in Ids
      BY <1>6, ReplyIsToARequest DEF Drain, ReadWire
    <2>3. completed' \subseteq completed \cup {Head(responses)}
      <3>1. CASE Drain(t)
        BY <3>1 DEF Drain
      <3>2. CASE ReadWire(t)
        BY <3>2 DEF ReadWire
      <3>3. QED
        BY <1>6, <3>1, <3>2
    <2>4. QED
      BY <2>1, <2>2, <2>3 DEF KeptOK
  <1>7. ASSUME NEW t \in Threads, Put(t)
        PROVE  KeptOK'
    <2>1. ToCome' = ToCome \cup {next_request_id} /\ completed' = completed
      BY <1>7, ToComeSteps DEF Put
    <2>2. \A r \in completed : r.id # next_request_id
      BY TensorBounds DEF OrderOK, TypeOK, Responses
    <2>3. QED
      BY <2>1, <2>2 DEF KeptOK
  <1>8. CASE Loaded \/ Serve \/ Reply \/ Die \/ UNCHANGED vars
    <2>1. completed' = completed
      BY <1>8 DEF Loaded, Serve, Reply, Die
    <2>2. ToCome' \subseteq ToCome \cup {Ready}
      BY <1>8, ToComeSteps
    <2>3. QED
      BY <2>1, <2>2, TensorBounds DEF KeptOK
  <1>9. QED
    BY <1>3, <1>4, <1>5, <1>6, <1>7, <1>8 DEF Next

(* Fewer slots are taken, but none of what is still to come.               *)
LEMMA RoomIsKept ==
    ASSUME TypeOK, RoomOK, ToCome' \subseteq ToCome \cup {Ready},
           DOMAIN pending' \subseteq DOMAIN pending,
           \A i \in DOMAIN pending \ DOMAIN pending' : i \notin ToCome',
           next_request_id' \in {next_request_id, next_request_id + 1},
           \A t \in Threads : pc'[t] = "register" <=> pc[t] = "register",
           \A t \in Threads : pc[t] = "register" => id'[t] = id[t]
    PROVE  RoomOK'
  <1>0. /\ next_request_id \in Nat /\ DOMAIN pending \subseteq Nat /\ MaxOutstanding \in Nat
    BY TensorBounds DEF TypeOK
  <1>1. /\ Cardinality(DOMAIN pending') \in Nat /\ Cardinality(DOMAIN pending) \in Nat
        /\ Cardinality(DOMAIN pending') <= Cardinality(DOMAIN pending)
    <2>1. IsFiniteSet(Ids)
      BY FS_Interval, TensorBounds
    <2>2. IsFiniteSet(DOMAIN pending)
      BY <2>1, FS_Subset DEF TypeOK
    <2>3. QED
      BY <2>2, FS_Subset, FS_CardinalityType
  <1>2. Registering' = Registering
    BY DEF Registering
  <1>3. ToCome' \ {Ready} \subseteq DOMAIN pending' \cup Registering'
    BY <1>2 DEF RoomOK
  <1>4. \A i \in DOMAIN pending' : i < next_request_id'
    BY <1>0 DEF RoomOK
  <1>5. Cardinality(DOMAIN pending') <= MaxOutstanding
    BY <1>0, <1>1 DEF RoomOK
  <1>6. \A t \in Threads : pc'[t] = "register" =>
            id'[t] \notin DOMAIN pending' /\ Cardinality(DOMAIN pending') < MaxOutstanding
    BY <1>0, <1>1 DEF RoomOK
  <1>7. QED
    BY <1>3, <1>4, <1>5, <1>6 DEF RoomOK

(* No slot is taken, and nothing is to come but the worker's own word.     *)
LEMMA RoomWhenEmpty ==
    ASSUME pending' = <<>>, ToCome' \subseteq {Ready}, \A t \in Threads : pc'[t] # "register"
    PROVE  RoomOK'
  <1>1. DOMAIN pending' = {} /\ Cardinality(DOMAIN pending') = 0
    BY FS_EmptySet
  <1>2. Registering' = {}
    BY DEF Registering
  <1>3. QED
    BY <1>1, <1>2, TensorBounds DEF RoomOK

(* Every step keeps the slots within their bound, and enough of them.      *)
LEMMA RoomStep ==
    ASSUME TypeOK, PlaceOK, IdsOK, OrderOK, KeptOK, RoomOK, [Next]_vars
    PROVE  RoomOK'
  <1> USE DEF process, wires, slots, locks, threads, ghosts, vars
  <1>0. /\ pc \in [Threads -> {"idle", "ready", "drain", "register", "receive", "look",
                               "wire", "dispose"}]
        /\ next_request_id \in Nat
    BY TensorBounds DEF TypeOK
  <1>1. ASSUME NEW t \in Threads, Start(t) \/ StartFails(t) \/ StopEnds(t)
        PROVE  RoomOK'
    <2>1. /\ \A u \in Threads \ {t} : pc[u] = "idle" /\ pc'[u] = pc[u]
          /\ pc'[t] \in {"idle", "ready"} /\ pending' = <<>>
          /\ requests' = <<>> /\ responses' = <<>> /\ work' = None
      <3>1. CASE Start(t)
        BY <3>1, GotoEffect DEF Start, Others
      <3>2. CASE StartFails(t) \/ StopEnds(t)
        BY <3>2, ReturnEffect DEF StartFails, StopEnds, Dispose, PlaceOK
      <3>3. QED
        BY <1>1, <3>1, <3>2
    <2>2. QED
      BY <2>1, ToComeSteps, RoomWhenEmpty
  <1>2. ASSUME NEW t \in Threads, Stop(t)
        PROVE  RoomOK'
    <2>1. \A u \in Threads : pc[u] = "idle"
      BY <1>2 DEF Stop, Others
    <2>2. CASE Dispose /\ UNCHANGED pc
      BY <2>1, <2>2, ToComeSteps, RoomWhenEmpty DEF Dispose
    <2>3. CASE Goto(t, "drain") /\ UNCHANGED <<requests, responses, work, pending, next_request_id>>
      BY <2>1, <2>3, GotoEffect, ToComeSteps, RoomIsKept
    <2>4. QED
      BY <1>2, <2>2, <2>3 DEF Stop
  <1>3. ASSUME NEW t \in Threads, Submit(t) \/ PutRefused(t)
        PROVE  RoomOK'
    <2>1. /\ \A u \in Threads \ {t} : pc'[u] = pc[u] /\ id'[u] = id[u]
          /\ pc[t] # "register" /\ pc'[t] # "register"
          /\ UNCHANGED <<requests, responses, work, pending>>
          /\ next_request_id' \in {next_request_id, next_request_id + 1}
      <3>1. CASE Submit(t)
        BY <1>0, <3>1, GotoEffect DEF Submit, MayEnter
      <3>2. CASE PutRefused(t)
        BY <1>0, <3>2, LeaveEffect DEF PutRefused
      <3>3. QED
        BY <1>3, <3>1, <3>2
    <2>2. QED
      BY <2>1, ToComeSteps, RoomIsKept
  <1>4. ASSUME NEW t \in Threads, StartReady(t)
        PROVE  RoomOK'
    <2>1. /\ \A u \in Threads \ {t} : pc'[u] = pc[u] /\ id'[u] = id[u]
          /\ pc[t] # "register" /\ pc'[t] # "register"
          /\ UNCHANGED <<pending, next_request_id>> /\ ToCome' \subseteq ToCome
      BY <1>4, ReturnEffect, ToComeWhenRead DEF StartReady
    <2>2. QED
      BY <2>1, RoomIsKept
  <1>5. ASSUME NEW t \in Threads, Drain(t)
        PROVE  RoomOK'
    <2>1. /\ ToCome' = ToCome \ {Head(responses).id} /\ Head(responses).id \in Ids
          /\ UNCHANGED <<pc, id, next_request_id>>
      BY <1>5, ToComeWhenRead, ReplyIsToARequest DEF Drain
    <2>2. DOMAIN pending' \in {DOMAIN pending, DOMAIN pending \ {Head(responses).id}}
      <3>1. Free(Head(responses).id) \/ UNCHANGED pending
        BY <1>5 DEF Drain
      <3>2. QED
        BY <2>1, <3>1, SlotEffect
    <2>3. QED
      BY <2>1, <2>2, RoomIsKept
  <1>6. ASSUME NEW t \in Threads, Put(t)
        PROVE  RoomOK'
    <2>1. /\ \A u \in Threads \ {t} : pc'[u] = pc[u] /\ id'[u] = id[u] /\ pc[u] # "register"
          /\ pc'[t] = "register" /\ id'[t] = next_request_id /\ pc[t] = "drain"
          /\ next_request_id' = next_request_id + 1 /\ pending' = pending
          /\ Cardinality(DOMAIN pending) < MaxOutstanding
          /\ ToCome' = ToCome \cup {next_request_id}
      <3>1. Cardinality(DOMAIN pending) \in Nat
        <4>1. IsFiniteSet(Ids)
          BY FS_Interval, TensorBounds
        <4>2. QED
          BY <4>1, FS_Subset, FS_CardinalityType DEF TypeOK
      <3>2. /\ \A u \in Threads \ {t} : pc'[u] = pc[u] /\ id'[u] = id[u] /\ pc[u] # "register"
            /\ pc'[t] = "register" /\ id'[t] = next_request_id /\ pc[t] = "drain"
            /\ next_request_id' = next_request_id + 1 /\ pending' = pending /\ ~Full
        BY <1>0, <1>6, GotoEffect DEF Put, PlaceOK, TypeOK
      <3>3. ToCome' = ToCome \cup {next_request_id}
        BY <1>6, ToComeSteps
      <3>4. QED
        BY <3>1, <3>2, <3>3, TensorBounds DEF Full
    <2>2. Registering = {} /\ Registering' = {next_request_id}
      BY <2>1 DEF Registering
    <2>3. \A i \in DOMAIN pending : i < next_request_id + 1 /\ i # next_request_id
      BY <1>0, TensorBounds DEF RoomOK, TypeOK
    <2>4. Cardinality(DOMAIN pending) <= MaxOutstanding
      BY DEF RoomOK
    <2>5. QED
      BY <2>1, <2>2, <2>3, <2>4 DEF RoomOK
  <1>7. ASSUME NEW t \in Threads, Register(t)
        PROVE  RoomOK'
    <2>1. /\ \A u \in Threads \ {t} : pc'[u] = pc[u] /\ pc[u] # "register"
          /\ pc'[t] = "receive" /\ pc[t] = "register"
          /\ UNCHANGED <<id, next_request_id>> /\ ToCome' = ToCome
      BY <1>0, <1>7, GotoEffect, ToComeSteps DEF Register, PlaceOK
    <2>2. id[t] \in Ids /\ id[t] < next_request_id
      BY <2>1 DEF IdsOK, Posted
    <2>3. DOMAIN pending' = DOMAIN pending \cup {id[t]}
      BY <1>7, <2>2, SlotEffect DEF Register
    <2>4. Registering = {id[t]} /\ Registering' = {}
      BY <2>1 DEF Registering
    <2>5. Cardinality(DOMAIN pending') <= MaxOutstanding
      <3>1. IsFiniteSet(Ids)
        BY FS_Interval, TensorBounds
      <3>2. IsFiniteSet(DOMAIN pending) /\ Cardinality(DOMAIN pending) \in Nat
        BY <3>1, FS_Subset, FS_CardinalityType DEF TypeOK
      <3>3. Cardinality(DOMAIN pending') <= Cardinality(DOMAIN pending) + 1
            /\ Cardinality(DOMAIN pending') \in Nat
        <4>1. Cardinality(DOMAIN pending \cup {id[t]}) \in
                  {Cardinality(DOMAIN pending), Cardinality(DOMAIN pending) + 1}
          BY <3>2, FS_AddElement
        <4>2. QED
          BY <2>3, <3>2, <4>1
      <3>4. Cardinality(DOMAIN pending) < MaxOutstanding
        BY <2>1 DEF RoomOK
      <3>5. QED
        BY <3>2, <3>3, <3>4, TensorBounds
    <2>6. QED
      BY <2>1, <2>2, <2>3, <2>4, <2>5 DEF RoomOK
  <1>8. ASSUME NEW t \in Threads,
               Receive(t) \/ Look(t) \/ ReadWire(t) \/ TimesOut(t) \/ WorkerGone(t)
        PROVE  RoomOK'
    <2>1. /\ \A u \in Threads \ {t} : pc'[u] = pc[u] /\ id'[u] = id[u]
          /\ pc[t] # "register" /\ pc'[t] # "register" /\ UNCHANGED next_request_id
          /\ id[t] \in Ids
      BY <1>8, ReceiverEffect DEF IdsOK
    <2>2. CASE Receive(t) \/ WorkerGone(t)
      <3>1. UNCHANGED <<requests, responses, work, pending>>
        BY <2>2 DEF Receive, WorkerGone
      <3>2. QED
        BY <2>1, <3>1, ToComeSteps, RoomIsKept
    <2>3. CASE TimesOut(t)
      <3>1. DOMAIN pending' = DOMAIN pending
        BY <2>1, <2>3, SlotEffect DEF TimesOut
      <3>2. UNCHANGED <<requests, responses, work>>
        BY <2>3 DEF TimesOut
      <3>3. QED
        BY <2>1, <3>1, <3>2, ToComeSteps, RoomIsKept
    <2>4. CASE Look(t)
      <3>1. \/ UNCHANGED pending
            \/ Free(id[t]) /\ \E r \in completed : r.id = id[t]
        BY <2>4 DEF Look, Answered
      <3>2. \/ DOMAIN pending' = DOMAIN pending
            \/ DOMAIN pending' = DOMAIN pending \ {id[t]} /\ id[t] \notin ToCome
        BY <2>1, <3>1, SlotEffect DEF KeptOK
      <3>3. ToCome' = ToCome
        BY <2>4, ToComeSteps DEF Look
      <3>4. QED
        BY <2>1, <3>2, <3>3, RoomIsKept
    <2>5. CASE ReadWire(t)
      <3>1. /\ ToCome' = ToCome \ {Head(responses).id} /\ Head(responses).id \in Ids
        BY <2>5, ToComeWhenRead, ReplyIsToARequest DEF ReadWire
      <3>2. Free(Head(responses).id) \/ UNCHANGED pending
        BY <2>5 DEF ReadWire, Answered
      <3>3. DOMAIN pending' \in {DOMAIN pending, DOMAIN pending \ {Head(responses).id}}
        BY <3>1, <3>2, SlotEffect
      <3>4. QED
        BY <2>1, <3>1, <3>3, RoomIsKept
    <2>6. QED
      BY <1>8, <2>2, <2>3, <2>4, <2>5
  <1>9. CASE Loaded \/ Serve \/ Reply \/ Die \/ UNCHANGED vars
    <2>1. UNCHANGED <<pending, next_request_id, pc, id>>
      BY <1>9 DEF Loaded, Serve, Reply, Die
    <2>2. ToCome' \subseteq ToCome \cup {Ready}
      BY <1>9, ToComeSteps
    <2>3. QED
      BY <2>1, <2>2, RoomIsKept
  <1>10. QED
    BY <1>1, <1>2, <1>3, <1>4, <1>5, <1>6, <1>7, <1>8, <1>9 DEF Next

-----------------------------------------------------------------------------
(* Calls that come one at a time.                                          *)

(* When a reply is read with no slot to belong to, its submission is about *)
(* to register it.                                                         *)
LEMMA EarlyReply ==
    ASSUME TypeOK, PlaceOK, OrderOK, RoomOK, responses # <<>>,
           NEW t \in Threads, pc[t] \in {"drain", "wire"},
           Head(responses).id \notin DOMAIN pending
    PROVE  \E u \in Threads : pc[u] = "register" /\ id[u] = Head(responses).id
  <1>1. Head(responses).id \in Ids
    BY ReplyIsToARequest
  <1>2. Head(responses).id \in ToCome
    BY IdsTaken DEF TypeOK, ToCome
  <1>3. Head(responses).id \in Registering
    BY <1>1, <1>2, TensorBounds DEF RoomOK
  <1>4. QED
    BY <1>3 DEF Registering

(* Every step keeps the calls apart, if they come one at a time.           *)
LEMMA AloneStep ==
    ASSUME TypeOK, PlaceOK, AloneOK, [Next]_vars
    PROVE  AloneOK'
  <1> USE DEF process, wires, slots, locks, threads, ghosts, vars
  <1>0. /\ pc \in [Threads -> {"idle", "ready", "drain", "register", "receive", "look",
                               "wire", "dispose"}]
    BY DEF TypeOK
  <1>1. ASSUME alone' = alone, completed' \subseteq completed, NEW t \in Threads,
               \A u \in Threads \ {t} : pc'[u] = pc[u] /\ id'[u] = id[u],
               \/ pc'[t] \in {"idle", "receive"}
               \/ pc[t] \notin {"idle", "receive"}
               \/ alone => \A u \in Threads \ {t} : pc[u] \in {"idle", "receive"},
               alone /\ pc'[t] = "wire" => \A r \in completed' : r.id # id'[t]
        PROVE  AloneOK'
    BY <1>1 DEF AloneOK
  <1>2. ASSUME NEW t \in Threads, Start(t) \/ StartFails(t) \/ StopEnds(t) \/ StartReady(t)
        PROVE  AloneOK'
    <2>1. CASE Start(t)
      BY <1>1, <2>1, GotoEffect DEF Start, Others
    <2>2. CASE StartFails(t) \/ StopEnds(t)
      BY <1>1, <2>2, ReturnEffect DEF StartFails, StopEnds, Dispose
    <2>3. CASE StartReady(t)
      BY <1>1, <2>3, ReturnEffect DEF StartReady
    <2>4. QED
      BY <1>2, <2>1, <2>2, <2>3
  <1>3. ASSUME NEW t \in Threads, Stop(t)
        PROVE  AloneOK'
    <2>1. \A u \in Threads : pc[u] = "idle"
      BY <1>3 DEF Stop, Others
    <2>2. CASE Goto(t, "drain") /\ UNCHANGED <<id, completed, alone>>
      BY <1>1, <2>1, <2>2, GotoEffect
    <2>3. CASE completed' = {} /\ UNCHANGED <<pc, id, alone>>
      BY <2>1, <2>3 DEF AloneOK
    <2>4. QED
      BY <1>3, <2>2, <2>3 DEF Stop, Dispose
  <1>4. ASSUME NEW t \in Threads, Submit(t) \/ Put(t) \/ PutRefused(t) \/ Register(t)
        PROVE  AloneOK'
    <2>1. CASE Submit(t)
      BY <1>1, <2>1, GotoEffect DEF Submit, MayEnter, Turn
    <2>2. CASE Put(t)
      BY <1>0, <1>1, <2>2, GotoEffect DEF Put, TypeOK
    <2>3. CASE PutRefused(t)
      BY <1>1, <2>3, LeaveEffect DEF PutRefused
    <2>4. CASE Register(t)
      BY <1>1, <2>4, GotoEffect DEF Register
    <2>5. QED
      BY <1>4, <2>1, <2>2, <2>3, <2>4
  <1>5. ASSUME NEW t \in Threads, Drain(t)
        PROVE  AloneOK'
    <2>1. pc[t] = "drain" /\ UNCHANGED <<pc, id, alone>>
      BY <1>5 DEF Drain
    <2>2. alone => \A u \in Threads : pc[u] # "wire"
      BY <2>1 DEF AloneOK
    <2>3. QED
      BY <2>1, <2>2 DEF AloneOK
  <1>6. ASSUME NEW t \in Threads, Receive(t)
        PROVE  AloneOK'
    <2>1. pc'[t] # "wire"
      <3>1. Goto(t, "look") \/ Leave(t)
        BY <1>6 DEF Receive
      <3>2. QED
        BY <3>1, GotoEffect, LeaveEffect
    <2>2. QED
      BY <1>1, <1>6, <2>1, ReceiverEffect DEF Receive, Turn
  <1>7. ASSUME NEW t \in Threads, Look(t)
        PROVE  AloneOK'
    <2>1. /\ pc[t] = "look" /\ completed' \subseteq completed
          /\ \/ /\ Goto(t, "wire") /\ id' = id
                /\ \A r \in completed : r.id # id[t]
             \/ Leave(t)
      BY <1>7 DEF Look, Answered
    <2>2. pc'[t] = "wire" => \A r \in completed' : r.id # id'[t]
      BY <2>1, LeaveEffect
    <2>3. QED
      BY <1>1, <1>7, <2>1, <2>2, ReceiverEffect
  <1>8. ASSUME NEW t \in Threads, ReadWire(t) \/ TimesOut(t) \/ WorkerGone(t)
        PROVE  AloneOK'
    <2>1. /\ pc[t] = "wire" /\ (Goto(t, "look") \/ Leave(t))
      <3>1. CASE ReadWire(t)
        BY <3>1 DEF ReadWire, Answered
      <3>2. CASE TimesOut(t) \/ WorkerGone(t)
        BY <3>2 DEF TimesOut, WorkerGone
      <3>3. QED
        BY <1>8, <3>1, <3>2
    <2>2. pc'[t] # "wire"
      BY <2>1, GotoEffect, LeaveEffect
    <2>3. alone => \A u \in Threads \ {t} : pc[u] \in {"idle", "receive"}
      BY <2>1 DEF AloneOK
    <2>4. alone' = alone /\ \A u \in Threads \ {t} : pc'[u] = pc[u]
      BY <1>8, ReceiverEffect
    <2>5. alone => \A u \in Threads \ {t} : pc'[u] \in {"idle", "receive"}
      BY <2>3, <2>4
    <2>6. QED
      BY <2>2, <2>4, <2>5 DEF AloneOK
  <1>9. CASE Loaded \/ Serve \/ Reply \/ Die \/ UNCHANGED vars
    <2>1. UNCHANGED <<alone, completed, pc, id>>
      BY <1>9 DEF Loaded, Serve, Reply, Die
    <2>2. QED
      BY <2>1 DEF AloneOK
  <1>10. QED
    BY <1>2, <1>3, <1>4, <1>5, <1>6, <1>7, <1>8, <1>9 DEF Next

-----------------------------------------------------------------------------
(* The slots and who is owed them.                                         *)

(* What a step keeps if it takes no reply and no slot away.                *)
LEMMA OwedIsKept ==
    ASSUME TypeOK, SlotsAreOwed, OwedOK, IdsOK, UNCHANGED <<alone, pending, completed, lost>>,
           Running' => Running /\ ToCome \ {Ready} \subseteq ToCome',
           Running' => \A t \in Threads :
              /\ pc[t] \in {"receive", "look", "wire"} =>
                    pc'[t] \in {"receive", "look", "wire"} /\ id'[t] = id[t]
              /\ pc'[t] = "register" => pc[t] = "register" /\ id'[t] = id[t]
    PROVE  SlotsAreOwed' /\ OwedOK'
  <1>1. \A i \in DOMAIN pending : i # Ready
    BY TensorBounds DEF TypeOK
  <1>2. \A t \in Threads : pc[t] = "register" => id[t] # Ready
    BY TensorBounds DEF IdsOK, Posted
  <1>3. Running' => \A i : Waiting(i) => Waiting(i)'
    BY DEF Waiting
  <1>4. SlotsAreOwed'
    BY <1>1, <1>3 DEF SlotsAreOwed
  <1>5. OwedOK'
    BY <1>2, <1>3 DEF OwedOK
  <1>6. QED
    BY <1>4, <1>5

(* Nothing is owed when no slot is taken.                                  *)
LEMMA OwedWhenEmpty ==
    ASSUME pending' = <<>>, lost' = {}, \A t \in Threads : pc'[t] # "register"
    PROVE  SlotsAreOwed' /\ OwedOK'
  <1>1. DOMAIN pending' = {}
    OBVIOUS
  <1>2. QED
    BY <1>1 DEF SlotsAreOwed, OwedOK

(* Every step keeps each slot owed to somebody, or lost when calls overlap. *)
LEMMA OwedStep ==
    ASSUME TypeOK, PlaceOK, IdsOK, OrderOK, RoomOK, AloneOK, SlotsAreOwed, OwedOK, [Next]_vars
    PROVE  SlotsAreOwed' /\ OwedOK'
  <1> USE DEF process, wires, slots, locks, threads, ghosts, vars
  <1>0. /\ pc \in [Threads -> {"idle", "ready", "drain", "register", "receive", "look",
                               "wire", "dispose"}]
    BY DEF TypeOK
  <1>1. ASSUME NEW t \in Threads, Start(t) \/ StartFails(t) \/ StopEnds(t)
        PROVE  SlotsAreOwed' /\ OwedOK'
    <2>1. /\ \A u \in Threads \ {t} : pc[u] = "idle" /\ pc'[u] = pc[u]
          /\ pc'[t] \in {"idle", "ready"} /\ pending' = <<>> /\ lost' = {}
      <3>1. CASE Start(t)
        BY <3>1, GotoEffect DEF Start, Others
      <3>2. CASE StartFails(t) \/ StopEnds(t)
        BY <3>2, ReturnEffect DEF StartFails, StopEnds, Dispose, PlaceOK
      <3>3. QED
        BY <1>1, <3>1, <3>2
    <2>2. QED
      BY <2>1, OwedWhenEmpty
  <1>2. ASSUME NEW t \in Threads, Stop(t)
        PROVE  SlotsAreOwed' /\ OwedOK'
    <2>1. \A u \in Threads : pc[u] = "idle"
      BY <1>2 DEF Stop, Others
    <2>2. CASE Dispose /\ UNCHANGED pc
      BY <2>1, <2>2, OwedWhenEmpty DEF Dispose
    <2>3. CASE Goto(t, "drain") /\ UNCHANGED <<process, wires, slots, id, alone>>
      <3>1. \A u \in Threads : pc'[u] \in {"idle", "drain"}
        BY <2>1, <2>3, GotoEffect
      <3>2. ToCome' = ToCome
        BY <2>3, ToComeSteps
      <3>3. QED
        BY <2>1, <2>3, <3>1, <3>2, OwedIsKept DEF Running
    <2>4. QED
      BY <1>2, <2>2, <2>3 DEF Stop
  <1>3. ASSUME NEW t \in Threads, Submit(t) \/ PutRefused(t) \/ StartReady(t)
        PROVE  SlotsAreOwed' /\ OwedOK'
    <2>1. /\ \A u \in Threads \ {t} : pc'[u] = pc[u] /\ id'[u] = id[u]
          /\ pc[t] \notin {"register", "receive", "look", "wire"} /\ pc'[t] # "register"
          /\ UNCHANGED <<alone, worker, pending, completed, lost>>
      <3>1. CASE Submit(t)
        BY <1>0, <3>1, GotoEffect DEF Submit, MayEnter
      <3>2. CASE PutRefused(t)
        BY <1>0, <3>2, LeaveEffect DEF PutRefused
      <3>3. CASE StartReady(t)
        BY <3>3, ReturnEffect DEF StartReady
      <3>4. QED
        BY <1>3, <3>1, <3>2, <3>3
    <2>2. ToCome \ {Ready} \subseteq ToCome'
      <3>1. CASE StartReady(t)
        BY <3>1, ToComeWhenRead DEF StartReady
      <3>2. CASE Submit(t) \/ PutRefused(t)
        BY <3>2, ToComeSteps DEF Submit, PutRefused
      <3>3. QED
        BY <1>3, <3>1, <3>2
    <2>3. QED
      BY <2>1, <2>2, OwedIsKept DEF Running
  <1>4. ASSUME NEW t \in Threads, Drain(t)
        PROVE  SlotsAreOwed' /\ OwedOK'
    <2>0. PICK r \in Responses : r = Head(responses) /\ r.id \in Ids
      BY <1>4, ReplyIsToARequest, TakeOne DEF Drain, TypeOK
    <2>1. /\ ToCome' = ToCome \ {r.id} /\ UNCHANGED <<pc, id, lost, alone, worker>>
          /\ pc[t] = "drain"
      BY <1>4, <2>0, ToComeWhenRead DEF Drain
    <2>2. \A u \in Threads : pc[u] # "register"
      BY <1>0, <2>1 DEF PlaceOK
    <2>3. r.id \in DOMAIN pending
      BY <1>4, <2>0, <2>1, <2>2, EarlyReply DEF Drain
    <2>4. \A i : Waiting(i)' <=> Waiting(i)
      BY <2>1 DEF Waiting
    <2>5. CASE pending[r.id]
      <3>1. completed' = completed \cup {r} /\ pending' = pending
        BY <1>4, <2>0, <2>3, <2>5 DEF Drain
      <3>2. Running => Waiting(r.id) \/ r.id \in lost
        BY <2>3, <2>5 DEF OwedOK
      <3>3. Running' <=> Running
        BY <2>1 DEF Running
      <3>4. SlotsAreOwed'
        BY <2>1, <2>4, <3>1, <3>2, <3>3 DEF SlotsAreOwed
      <3>5. OwedOK'
        BY <2>1, <2>2, <2>4, <3>1, <3>3 DEF OwedOK
      <3>6. QED
        BY <3>4, <3>5
    <2>6. CASE ~pending[r.id]
      <3>1. Free(r.id) /\ completed' = completed
        BY <1>4, <2>0, <2>3, <2>6 DEF Drain
      <3>2. /\ DOMAIN pending' = DOMAIN pending \ {r.id}
            /\ \A j \in DOMAIN pending' : pending'[j] = pending[j]
        BY <2>0, <3>1, SlotEffect
      <3>3. Running' <=> Running
        BY <2>1 DEF Running
      <3>4. SlotsAreOwed'
        BY <2>1, <2>4, <3>1, <3>2, <3>3 DEF SlotsAreOwed
      <3>5. OwedOK'
        BY <2>1, <2>2, <2>4, <3>2, <3>3 DEF OwedOK
      <3>6. QED
        BY <3>4, <3>5
    <2>7. QED
      BY <2>5, <2>6
  <1>5. ASSUME NEW t \in Threads, Put(t)
        PROVE  SlotsAreOwed' /\ OwedOK'
    <2>1. /\ \A u \in Threads \ {t} : pc'[u] = pc[u] /\ id'[u] = id[u]
          /\ pc'[t] = "register" /\ id'[t] = next_request_id /\ pc[t] = "drain"
          /\ UNCHANGED <<alone, worker, pending, completed, lost>>
      BY <1>0, <1>5 DEF Put, Goto, TypeOK
    <2>2. ToCome' = ToCome \cup {next_request_id}
      BY <1>5, ToComeSteps
    <2>3. \A i : Waiting(i) => Waiting(i)'
      BY <2>1 DEF Waiting
    <2>4. Running' <=> Running
      BY <2>1 DEF Running
    <2>5. SlotsAreOwed'
      BY <2>1, <2>2, <2>3, <2>4 DEF SlotsAreOwed
    <2>6. OwedOK'
      BY <2>1, <2>2, <2>3, <2>4 DEF OwedOK
    <2>7. QED
      BY <2>5, <2>6
  <1>6. ASSUME NEW t \in Threads, Register(t)
        PROVE  SlotsAreOwed' /\ OwedOK'
    <2>1. /\ \A u \in Threads \ {t} : pc'[u] = pc[u] /\ pc[u] # "register"
          /\ pc'[t] = "receive" /\ pc[t] = "register"
          /\ UNCHANGED <<id, alone, worker, completed, lost>> /\ ToCome' = ToCome
      BY <1>0, <1>6, GotoEffect, ToComeSteps DEF Register, PlaceOK
    <2>2. /\ DOMAIN pending' = DOMAIN pending \cup {id[t]} /\ pending'[id[t]] = TRUE
          /\ \A j \in DOMAIN pending' \ {id[t]} : pending'[j] = pending[j]
      <3>1. id[t] \in Ids
        BY <2>1 DEF IdsOK, Posted
      <3>2. QED
        BY <1>6, <3>1, SlotEffect DEF Register
    <2>3. Waiting(id[t])' /\ \A i : Waiting(i) => Waiting(i)'
      BY <2>1 DEF Waiting
    <2>4. Running' <=> Running
      BY <2>1 DEF Running
    <2>5. Running => id[t] \in ToCome \cup lost
      BY <2>1 DEF OwedOK
    <2>6. SlotsAreOwed'
      BY <2>1, <2>2, <2>3, <2>4, <2>5 DEF SlotsAreOwed
    <2>7. OwedOK'
      BY <2>1, <2>2, <2>3, <2>4 DEF OwedOK
    <2>8. QED
      BY <2>6, <2>7
  <1>7. ASSUME NEW t \in Threads, Receive(t) \/ WorkerGone(t)
        PROVE  SlotsAreOwed' /\ OwedOK'
    <2>1. /\ UNCHANGED <<alone, worker, pending, completed, lost, requests, responses, work>>
          /\ Running => Goto(t, "look") /\ id' = id
      BY <1>7 DEF Receive, WorkerGone
    <2>2. ToCome' = ToCome
      BY <2>1, ToComeSteps
    <2>3. Running => pc'[t] = "look" /\ id' = id
      BY <2>1, GotoEffect
    <2>4. QED
      BY <1>7, <2>1, <2>2, <2>3, ReceiverEffect, OwedIsKept DEF Running
  <1>8. ASSUME NEW t \in Threads, Look(t)
        PROVE  SlotsAreOwed' /\ OwedOK'
    <2>1. /\ UNCHANGED <<worker, alone, lost, requests, responses, work>> /\ pc[t] = "look"
          /\ \/ Goto(t, "wire") /\ UNCHANGED <<pending, completed, id>>
             \/ \E r \in completed : r.id = id[t] /\ Free(id[t]) /\ completed' = completed \ {r}
      BY <1>8 DEF Look, Answered
    <2>2. ToCome' = ToCome /\ (Running' <=> Running)
      BY <2>1, ToComeSteps DEF Running
    <2>3. CASE Goto(t, "wire") /\ UNCHANGED <<pending, completed, id>>
      BY <2>1, <2>2, <2>3, GotoEffect, OwedIsKept
    <2>4. ASSUME NEW r \in completed, r.id = id[t], Free(id[t]), completed' = completed \ {r}
          PROVE  SlotsAreOwed' /\ OwedOK'
      <3>1. /\ DOMAIN pending' = DOMAIN pending \ {id[t]}
            /\ \A j \in DOMAIN pending' : pending'[j] = pending[j]
        BY <1>8, <2>4, ReceiverEffect, SlotEffect DEF IdsOK
      <3>2. \A i : i # id[t] /\ Waiting(i) => Waiting(i)'
        BY <1>8, ReceiverEffect DEF Waiting
      <3>3. \A u \in Threads : pc'[u] = "register" => pc[u] = "register" /\ id'[u] = id[u]
        BY <1>8, ReceiverEffect
      <3>4. SlotsAreOwed'
        BY <2>1, <2>2, <2>4, <3>1, <3>2 DEF SlotsAreOwed
      <3>5. OwedOK'
        BY <2>1, <2>2, <3>1, <3>2, <3>3 DEF OwedOK
      <3>6. QED
        BY <3>4, <3>5
    <2>5. QED
      BY <2>1, <2>3, <2>4
  <1>9. ASSUME NEW t \in Threads, TimesOut(t)
        PROVE  SlotsAreOwed' /\ OwedOK'
    <2>1. /\ UNCHANGED <<worker, alone, completed, requests, responses, work>> /\ pc[t] = "wire"
          /\ IF id[t] \in DOMAIN pending THEN Mark(id[t], FALSE) ELSE UNCHANGED pending
          /\ lost' = IF \E r \in completed : r.id = id[t] THEN lost \cup {id[t]} ELSE lost
      BY <1>9 DEF TimesOut
    <2>2. ToCome' = ToCome /\ (Running' <=> Running)
      BY <2>1, ToComeSteps DEF Running
    <2>3. /\ DOMAIN pending' = DOMAIN pending
          /\ id[t] \in DOMAIN pending => pending'[id[t]] = FALSE
          /\ \A j \in DOMAIN pending \ {id[t]} : pending'[j] = pending[j]
      <3>1. id[t] \in Ids
        BY <1>9, ReceiverEffect DEF IdsOK
      <3>2. QED
        BY <2>1, <3>1, SlotEffect
    <2>4. \A i : i # id[t] /\ Waiting(i) => Waiting(i)'
      BY <1>9, ReceiverEffect DEF Waiting
    <2>5. \A u \in Threads : pc'[u] = "register" => pc[u] = "register" /\ id'[u] = id[u]
      BY <1>9, ReceiverEffect
    <2>6. lost \subseteq lost' /\ (id[t] \in {r.id : r \in completed} => id[t] \in lost')
      BY <2>1
    <2>7. alone => lost' = lost
      BY <2>1 DEF AloneOK
    <2>8. SlotsAreOwed'
      <3>1. \A i \in DOMAIN pending : Running =>
                \/ i \in ToCome
                \/ i \in {r.id : r \in completed} /\ Waiting(i)'
                \/ i \in lost'
        BY <2>4, <2>6 DEF SlotsAreOwed
      <3>2. alone => lost' = {}
        BY <2>7 DEF SlotsAreOwed
      <3>3. QED
        BY <2>1, <2>2, <2>3, <3>1, <3>2 DEF SlotsAreOwed
    <2>9. OwedOK'
      BY <2>1, <2>2, <2>3, <2>4, <2>5, <2>6 DEF OwedOK
    <2>10. QED
      BY <2>8, <2>9
  <1>10. ASSUME NEW t \in Threads, ReadWire(t)
         PROVE  SlotsAreOwed' /\ OwedOK'
    <2>0. PICK r \in Responses : r = Head(responses) /\ r.id \in Ids
      BY <1>10, ReplyIsToARequest, TakeOne DEF ReadWire, TypeOK
    <2>1. /\ ToCome' = ToCome \ {r.id} /\ UNCHANGED <<alone, worker>> /\ pc[t] = "wire"
          /\ id[t] \in Ids
      BY <1>10, <2>0, ToComeWhenRead, ReceiverEffect DEF ReadWire, IdsOK
    <2>2. Running' <=> Running
      BY <2>1 DEF Running
    <2>3. /\ \A i : i # id[t] /\ Waiting(i) => Waiting(i)'
          /\ Goto(t, "look") /\ id' = id => \A i : Waiting(i) => Waiting(i)'
          /\ \A u \in Threads : pc'[u] = "register" => pc[u] = "register" /\ id'[u] = id[u]
      BY <1>10, ReceiverEffect, GotoEffect DEF Waiting
    <2>4. CASE r.id \in DOMAIN pending /\ pending[r.id] /\ r.id = id[t]
      <3>1. Free(r.id) /\ UNCHANGED <<completed, lost>>
        BY <1>10, <2>0, <2>4 DEF ReadWire, Answered
      <3>2. /\ DOMAIN pending' = DOMAIN pending \ {r.id}
            /\ \A j \in DOMAIN pending' : pending'[j] = pending[j]
        BY <2>0, <3>1, SlotEffect
      <3>3. \A u \in Threads : pc[u] = "register" => id[u] # r.id
        BY <2>1, <2>4 DEF IdsOK, Posted
      <3>4. SlotsAreOwed'
        BY <2>1, <2>2, <2>3, <2>4, <3>1, <3>2 DEF SlotsAreOwed
      <3>5. OwedOK'
        BY <2>1, <2>2, <2>3, <2>4, <3>1, <3>2, <3>3 DEF OwedOK
      <3>6. QED
        BY <3>4, <3>5
    <2>5. CASE r.id \in DOMAIN pending /\ pending[r.id] /\ r.id # id[t]
      <3>1. /\ completed' = completed \cup {r} /\ UNCHANGED <<pending, lost, id>> /\ Goto(t, "look")
        BY <1>10, <2>0, <2>5 DEF ReadWire
      <3>2. Running => Waiting(r.id) \/ r.id \in lost
        BY <2>5 DEF OwedOK
      <3>3. \A u \in Threads : pc[u] = "register" => id[u] # r.id
        BY <2>5 DEF RoomOK
      <3>4. SlotsAreOwed'
        BY <2>1, <2>2, <2>3, <3>1, <3>2 DEF SlotsAreOwed
      <3>5. OwedOK'
        BY <2>1, <2>2, <2>3, <3>1, <3>3 DEF OwedOK
      <3>6. QED
        BY <3>4, <3>5
    <2>6. CASE r.id \in DOMAIN pending /\ ~pending[r.id]
      <3>1. Free(r.id) /\ UNCHANGED <<completed, lost, id>> /\ Goto(t, "look")
        BY <1>10, <2>0, <2>6 DEF ReadWire
      <3>2. /\ DOMAIN pending' = DOMAIN pending \ {r.id}
            /\ \A j \in DOMAIN pending' : pending'[j] = pending[j]
        BY <2>0, <3>1, SlotEffect
      <3>3. \A u \in Threads : pc[u] = "register" => id[u] # r.id
        BY <2>6 DEF RoomOK
      <3>4. SlotsAreOwed'
        BY <2>1, <2>2, <2>3, <3>1, <3>2 DEF SlotsAreOwed
      <3>5. OwedOK'
        BY <2>1, <2>2, <2>3, <3>1, <3>2, <3>3 DEF OwedOK
      <3>6. QED
        BY <3>4, <3>5
    <2>7. CASE r.id \notin DOMAIN pending
      <3>1. UNCHANGED <<pending, completed>> /\ lost' = lost \cup {r.id, id[t]}
        BY <1>10, <2>0, <2>7 DEF ReadWire
      <3>2. \E u \in Threads : pc[u] = "register" /\ id[u] = r.id
        BY <1>10, <2>0, <2>1, <2>7, EarlyReply DEF ReadWire
      <3>3. ~alone
        BY <2>1, <3>2 DEF AloneOK
      <3>4. SlotsAreOwed'
        BY <2>1, <2>2, <2>3, <3>1, <3>3 DEF SlotsAreOwed
      <3>5. OwedOK'
        BY <2>1, <2>2, <2>3, <3>1 DEF OwedOK
      <3>6. QED
        BY <3>4, <3>5
    <2>8. QED
      BY <2>4, <2>5, <2>6, <2>7
  <1>11. CASE Loaded \/ Serve \/ Reply \/ Die \/ UNCHANGED vars
    <2>1. UNCHANGED <<alone, pending, completed, lost, pc, id>>
      BY <1>11 DEF Loaded, Serve, Reply, Die
    <2>2. Running' => Running /\ ToCome \ {Ready} \subseteq ToCome'
      <3>1. CASE Loaded
        <4>1. ToCome = {}
          BY <3>1, LoadingIsEmpty DEF Loaded, ToCome, IdsIn
        <4>2. QED
          BY <3>1, <4>1 DEF Loaded, Running
      <3>2. CASE Serve \/ Reply
        BY <3>2, ToComeSteps DEF Serve, Reply, Running
      <3>3. CASE Die \/ UNCHANGED vars
        BY <3>3, ToComeSteps DEF Die, Running
      <3>4. QED
        BY <1>11, <3>1, <3>2, <3>3
    <2>3. QED
      BY <2>1, <2>2, OwedIsKept
  <1>12. QED
    BY <1>1, <1>2, <1>3, <1>4, <1>5, <1>6, <1>7, <1>8, <1>9, <1>10, <1>11 DEF Next

-----------------------------------------------------------------------------
(* Pauses.                                                                 *)

(* What a step keeps if nothing is put, served or answered by it.          *)
LEMMA PauseIsKept ==
    ASSUME TypeOK, PauseOK, UNCHANGED <<requests, paused, last_pause, last_resume>>,
           next_request_id' \in {next_request_id, next_request_id + 1},
           \A t \in Threads : Posted(t)' => Posted(t) /\ id'[t] = id[t] /\ op'[t] = op[t]
    PROVE  PauseOK'
  <1>1. /\ next_request_id \in Nat /\ last_pause \in Nat /\ last_resume \in Nat
    BY TensorBounds DEF TypeOK
  <1>2. last_pause < next_request_id' /\ last_resume < next_request_id'
    BY <1>1 DEF PauseOK
  <1>3. \A t \in Threads : Posted(t)' =>
          /\ \A k \in DOMAIN requests : requests[k].id = id'[t] => requests[k].op = op'[t]
          /\ id'[t] \in IdsIn(requests) \/ \A k \in DOMAIN requests : id'[t] < requests[k].id
          /\ op'[t] = "pause" /\ id'[t] \notin IdsIn(requests) /\ id'[t] > last_resume => paused
    BY DEF PauseOK
  <1>4. IdsIn(requests)' = IdsIn(requests)
    BY DEF IdsIn
  <1>5. QED
    BY <1>2, <1>3, <1>4 DEF PauseOK

(* Nothing is paused in an empty service.                                  *)
LEMMA PauseWhenEmpty ==
    ASSUME requests' = <<>>, last_pause' = 0, last_resume' = 0, next_request_id' \in Nat \ {0},
           \A t \in Threads : ~Posted(t)'
    PROVE  PauseOK'
  <1>1. DOMAIN requests' = {} /\ 0 < next_request_id'
    OBVIOUS
  <1>2. QED
    BY <1>1 DEF PauseOK

(* The answer to a pause: it was served, and all that are left came later. *)
LEMMA PauseIsAnswered ==
    ASSUME TypeOK, IdsOK, PauseOK, NEW t \in Threads, NEW r \in Responses, Answered(t, r),
           Posted(t), id[t] \notin IdsIn(requests), UNCHANGED <<requests, paused, last_resume>>,
           next_request_id' = next_request_id,
           \A u \in Threads : Posted(u)' => Posted(u) /\ id'[u] = id[u] /\ op'[u] = op[u]
    PROVE  PauseOK'
  <1>1. /\ next_request_id \in Nat /\ last_pause \in Nat /\ last_resume \in Nat
        /\ id[t] \in Nat /\ id[t] < next_request_id
    BY TensorBounds DEF TypeOK, IdsOK
  <1>2. /\ last_pause' \in {last_pause, id[t]}
        /\ last_pause' = id[t] => op[t] = "pause" \/ last_pause' = last_pause
    BY DEF Answered
  <1>3. /\ \A k \in DOMAIN requests : id[t] < requests[k].id
        /\ op[t] = "pause" /\ id[t] > last_resume => paused
    BY DEF PauseOK, IdsIn
  <1>4. /\ last_pause' < next_request_id' /\ last_resume < next_request_id'
        /\ last_pause' > last_resume => paused
        /\ \A k \in DOMAIN requests : last_pause' < requests[k].id
    BY <1>1, <1>2, <1>3 DEF PauseOK
  <1>5. \A u \in Threads : Posted(u)' =>
          /\ \A k \in DOMAIN requests : requests[k].id = id'[u] => requests[k].op = op'[u]
          /\ id'[u] \in IdsIn(requests) \/ \A k \in DOMAIN requests : id'[u] < requests[k].id
          /\ op'[u] = "pause" /\ id'[u] \notin IdsIn(requests) /\ id'[u] > last_resume => paused
    BY DEF PauseOK
  <1>6. IdsIn(requests)' = IdsIn(requests)
    BY DEF IdsIn
  <1>7. QED
    BY <1>4, <1>5, <1>6 DEF PauseOK

(* Every step keeps a pause in force until a resume is sent.               *)
LEMMA PauseStep ==
    ASSUME TypeOK, PlaceOK, IdsOK, OrderOK, KeptOK, PauseOK, [Next]_vars
    PROVE  PauseOK'
  <1> USE DEF process, wires, slots, locks, threads, ghosts, vars
  <1>0. /\ pc \in [Threads -> {"idle", "ready", "drain", "register", "receive", "look",
                               "wire", "dispose"}]
        /\ next_request_id \in Nat \ {0} /\ last_pause \in Nat /\ last_resume \in Nat
    BY TensorBounds DEF TypeOK
  <1>1. ASSUME NEW t \in Threads, Start(t) \/ StartFails(t) \/ StopEnds(t)
        PROVE  PauseOK'
    <2>1. /\ \A u \in Threads \ {t} : pc[u] = "idle" /\ pc'[u] = pc[u]
          /\ pc'[t] \in {"idle", "ready"} /\ requests' = <<>>
          /\ last_pause' = 0 /\ last_resume' = 0 /\ next_request_id' \in {1, next_request_id}
      <3>1. CASE Start(t)
        BY <3>1, GotoEffect DEF Start, Others
      <3>2. CASE StartFails(t) \/ StopEnds(t)
        BY <3>2, ReturnEffect DEF StartFails, StopEnds, Dispose, PlaceOK
      <3>3. QED
        BY <1>1, <3>1, <3>2
    <2>2. QED
      BY <1>0, <2>1, PauseWhenEmpty DEF Posted
  <1>2. ASSUME NEW t \in Threads, Stop(t)
        PROVE  PauseOK'
    <2>1. \A u \in Threads : pc[u] = "idle"
      BY <1>2 DEF Stop, Others
    <2>2. CASE Dispose /\ UNCHANGED <<pc, next_request_id>>
      BY <1>0, <2>1, <2>2, PauseWhenEmpty DEF Dispose, Posted
    <2>3. CASE Goto(t, "drain") /\ UNCHANGED <<process, wires, slots, id, last_pause, last_resume>>
      <3>1. \A u \in Threads : pc'[u] \in {"idle", "drain"}
        BY <2>1, <2>3, GotoEffect
      <3>2. QED
        BY <2>3, <3>1, PauseIsKept DEF Posted
    <2>4. QED
      BY <1>2, <2>2, <2>3 DEF Stop
  <1>3. ASSUME NEW t \in Threads, StartReady(t) \/ Submit(t) \/ PutRefused(t) \/ Register(t)
        PROVE  PauseOK'
    <2>1. /\ \A u \in Threads \ {t} : pc'[u] = pc[u] /\ id'[u] = id[u] /\ op'[u] = op[u]
          /\ Posted(t)' => Posted(t) /\ id'[t] = id[t] /\ op'[t] = op[t]
          /\ UNCHANGED <<requests, paused, last_pause, last_resume>>
          /\ next_request_id' \in {next_request_id, next_request_id + 1}
      <3>1. CASE StartReady(t)
        BY <3>1, ReturnEffect DEF StartReady, Posted
      <3>2. CASE Submit(t)
        BY <1>0, <3>2, GotoEffect DEF Submit, Posted, TypeOK
      <3>3. CASE PutRefused(t)
        BY <1>0, <3>3, LeaveEffect DEF PutRefused, Posted
      <3>4. CASE Register(t)
        BY <1>0, <3>4, GotoEffect DEF Register, Posted
      <3>5. QED
        BY <1>3, <3>1, <3>2, <3>3, <3>4
    <2>2. \A u \in Threads : Posted(u)' => Posted(u) /\ id'[u] = id[u] /\ op'[u] = op[u]
      BY <2>1 DEF Posted
    <2>3. QED
      BY <2>1, <2>2, PauseIsKept
  <1>4. ASSUME NEW t \in Threads, Put(t)
        PROVE  PauseOK'
    <2>0. PICK r \in Requests : /\ r.id = next_request_id /\ r.op = op[t]
                                /\ requests' = Append(requests, r)
      BY <1>4, NextIsAnId DEF Put, Requests, TypeOK
    <2>1. /\ \A u \in Threads \ {t} : pc'[u] = pc[u] /\ id'[u] = id[u] /\ op'[u] = op[u]
          /\ pc'[t] = "register" /\ id'[t] = next_request_id /\ op'[t] = op[t]
          /\ next_request_id' = next_request_id + 1 /\ UNCHANGED <<paused, last_pause>>
          /\ last_resume' = IF op[t] = "resume" THEN next_request_id ELSE last_resume
      BY <1>0, <1>4, GotoEffect DEF Put, TypeOK
    <2>2. /\ \A k \in DOMAIN requests : requests'[k] = requests[k] /\ k \in DOMAIN requests'
          /\ requests'[Len(requests) + 1].id = next_request_id
          /\ requests'[Len(requests) + 1].op = op[t]
          /\ \A k \in DOMAIN requests' : k = Len(requests) + 1 \/ k \in DOMAIN requests
      BY <2>0, PutOne DEF TypeOK
    <2>3. /\ \A k \in DOMAIN requests : requests[k].id < next_request_id /\ requests[k].id \in Nat
          /\ \A u \in Threads : Posted(u) => id[u] < next_request_id /\ id[u] \in Nat
      <3>1. \A k \in DOMAIN requests : requests[k] \in Requests
        BY DEF TypeOK
      <3>2. QED
        BY <3>1, TensorBounds DEF OrderOK, Requests, IdsOK
    <2>4. IdsIn(requests)' = IdsIn(requests) \cup {next_request_id}
      <3>1. IdsIn(Append(requests, r)) = IdsIn(requests) \cup {r.id}
        BY IdsPut DEF TypeOK
      <3>2. IdsIn(requests)' = IdsIn(Append(requests, r))
        BY <2>0 DEF IdsIn
      <3>3. QED
        BY <2>0, <3>1, <3>2
    <2>5. next_request_id' = next_request_id + 1
      BY <2>1
    <2>6. /\ last_pause' < next_request_id' /\ last_resume' < next_request_id'
          /\ last_pause' > last_resume' => paused'
      BY <1>0, <2>1 DEF PauseOK
    <2>7. \A k \in DOMAIN requests' :
             /\ last_pause' < requests'[k].id
             /\ requests'[k].op = "resume" => requests'[k].id <= last_resume'
      BY <1>0, <2>1, <2>2, <2>3 DEF PauseOK
    <2>8. ASSUME NEW u \in Threads, Posted(u)'
          PROVE  /\ \A k \in DOMAIN requests' : requests'[k].id = id'[u] => requests'[k].op = op'[u]
                 /\ \/ id'[u] \in IdsIn(requests)'
                    \/ \A k \in DOMAIN requests' : id'[u] < requests'[k].id
                 /\ op'[u] = "pause" /\ id'[u] \notin IdsIn(requests)' /\ id'[u] > last_resume'
                       => paused'
      <3>1. CASE u = t
        BY <2>1, <2>2, <2>3, <2>4, <3>1
      <3>2. CASE u # t
        <4>1. Posted(u) /\ id'[u] = id[u] /\ op'[u] = op[u]
          BY <2>1, <2>8, <3>2 DEF Posted
        <4>2. \A k \in DOMAIN requests' : requests'[k].id = id[u] => requests'[k].op = op[u]
          BY <1>0, <2>2, <2>3, <4>1 DEF PauseOK
        <4>3. \/ id[u] \in IdsIn(requests)'
              \/ \A k \in DOMAIN requests' : id[u] < requests'[k].id
          BY <2>2, <2>3, <2>4, <4>1 DEF PauseOK
        <4>4. op[u] = "pause" /\ id[u] \notin IdsIn(requests)' /\ id[u] > last_resume' => paused'
          BY <1>0, <2>1, <2>3, <2>4, <4>1 DEF PauseOK
        <4>5. QED
          BY <4>1, <4>2, <4>3, <4>4
      <3>3. QED
        BY <3>1, <3>2
    <2>9. QED
      BY <2>6, <2>7, <2>8 DEF PauseOK
  <1>5. ASSUME NEW t \in Threads, Receive(t) \/ TimesOut(t) \/ WorkerGone(t)
        PROVE  PauseOK'
    <2>1. UNCHANGED last_pause
      BY <1>5 DEF Receive, TimesOut, WorkerGone
    <2>2. \A u \in Threads : Posted(u)' => Posted(u) /\ id'[u] = id[u] /\ op'[u] = op[u]
      BY <1>5, ReceiverEffect DEF Posted
    <2>3. QED
      BY <1>5, <2>1, <2>2, ReceiverEffect, PauseIsKept
  <1>6. ASSUME NEW t \in Threads, Look(t)
        PROVE  PauseOK'
    <2>1. \A u \in Threads : Posted(u)' => Posted(u) /\ id'[u] = id[u] /\ op'[u] = op[u]
      BY <1>6, ReceiverEffect DEF Posted
    <2>2. \/ UNCHANGED last_pause
          \/ \E r \in completed : r.id = id[t] /\ Answered(t, r)
      BY <1>6 DEF Look
    <2>3. ASSUME NEW r \in completed, r.id = id[t], Answered(t, r)
          PROVE  PauseOK'
      <3>1. id[t] \notin IdsIn(requests) /\ r \in Responses
        BY <2>3 DEF KeptOK, ToCome, TypeOK
      <3>2. QED
        BY <1>6, <2>1, <2>3, <3>1, ReceiverEffect, PauseIsAnswered
    <2>4. QED
      BY <1>6, <2>1, <2>2, <2>3, ReceiverEffect, PauseIsKept
  <1>7. ASSUME NEW t \in Threads, ReadWire(t)
        PROVE  PauseOK'
    <2>0. PICK r \in Responses : r = Head(responses)
      BY <1>7, TakeOne DEF ReadWire, TypeOK
    <2>1. \A u \in Threads : Posted(u)' => Posted(u) /\ id'[u] = id[u] /\ op'[u] = op[u]
      BY <1>7, ReceiverEffect DEF Posted
    <2>2. \/ UNCHANGED last_pause
          \/ r.id = id[t] /\ Answered(t, r)
      BY <1>7, <2>0 DEF ReadWire
    <2>3. r.id \notin IdsIn(requests)
      <3>1. ToCome' = ToCome \ {r.id} /\ requests' = requests
        BY <1>7, <2>0, ToComeWhenRead DEF ReadWire
      <3>2. IdsIn(requests)' = IdsIn(requests)
        BY <3>1 DEF IdsIn
      <3>3. QED
        BY <3>1, <3>2 DEF ToCome
    <2>4. QED
      BY <1>7, <2>1, <2>2, <2>3, ReceiverEffect, PauseIsKept, PauseIsAnswered
  <1>8. CASE Serve
    <2>0. PICK r \in Requests : r = Head(requests)
      BY <1>8, TakeOne DEF Serve, TypeOK
    <2>1. /\ requests # <<>> /\ requests' = Tail(requests)
          /\ paused' = (r.op = "pause" \/ (paused /\ r.op # "resume"))
          /\ UNCHANGED <<next_request_id, last_pause, last_resume, pc, op, id>>
      BY <1>8, <2>0 DEF Serve
    <2>2. /\ \A k \in DOMAIN requests' : k + 1 \in DOMAIN requests /\ requests'[k] = requests[k + 1]
                                         /\ k \in Nat /\ 1 < k + 1
          /\ requests[1] = r /\ 1 \in DOMAIN requests
      BY <2>0, <2>1, TakeOne DEF TypeOK
    <2>3. /\ \A k \in DOMAIN requests' : r.id < requests'[k].id /\ requests'[k].id \in Nat
          /\ r.id \in Nat
      <3>1. \A k \in DOMAIN requests : requests[k] \in Requests
        BY DEF TypeOK
      <3>2. QED
        BY <2>2, <3>1, TensorBounds DEF OrderOK, Requests
    <2>4. IdsIn(requests) = IdsIn(requests)' \cup {r.id}
      <3>1. IdsIn(requests) = IdsIn(Tail(requests)) \cup {r.id}
        BY <2>0, <2>1, IdsTaken DEF TypeOK
      <3>2. IdsIn(requests)' = IdsIn(Tail(requests))
        BY <2>1 DEF IdsIn
      <3>3. QED
        BY <3>1, <3>2
    <2>5. last_pause < r.id /\ (r.op = "resume" => r.id <= last_resume)
      BY <2>2 DEF PauseOK
    <2>6. last_pause > last_resume => paused'
      <3>1. last_pause > last_resume => r.op # "resume"
        BY <1>0, <2>3, <2>5
      <3>2. last_pause > last_resume => paused
        BY DEF PauseOK
      <3>3. paused /\ r.op # "resume" => paused'
        BY <2>1
      <3>4. QED
        BY <3>1, <3>2, <3>3
    <2>7. \A k \in DOMAIN requests' :
             /\ last_pause < requests'[k].id
             /\ requests'[k].op = "resume" => requests'[k].id <= last_resume
      BY <2>2 DEF PauseOK
    <2>8. ASSUME NEW u \in Threads, Posted(u)
          PROVE  /\ \A k \in DOMAIN requests' : requests'[k].id = id[u] => requests'[k].op = op[u]
                 /\ \/ id[u] \in IdsIn(requests)'
                    \/ \A k \in DOMAIN requests' : id[u] < requests'[k].id
                 /\ op[u] = "pause" /\ id[u] \notin IdsIn(requests)' /\ id[u] > last_resume
                       => paused'
      <3>0. id[u] \in Nat
        BY <2>8, TensorBounds DEF IdsOK
      <3>1. \A k \in DOMAIN requests' : requests'[k].id = id[u] => requests'[k].op = op[u]
        BY <2>2, <2>8 DEF PauseOK
      <3>2. CASE id[u] = r.id
        <4>1. r.op = op[u]
          BY <2>2, <2>8, <3>2 DEF PauseOK
        <4>2. QED
          BY <2>1, <2>3, <3>1, <3>2, <4>1
      <3>3. CASE id[u] # r.id /\ id[u] \notin IdsIn(requests)
        <4>1. \A k \in DOMAIN requests : id[u] < requests[k].id
          BY <2>8, <3>3 DEF PauseOK
        <4>2. id[u] < r.id
          BY <2>2, <4>1
        <4>3. op[u] = "pause" /\ id[u] > last_resume => paused
          BY <2>8, <3>3 DEF PauseOK
        <4>4. op[u] = "pause" /\ id[u] > last_resume => paused'
          <5>1. id[u] > last_resume => r.op # "resume"
            BY <1>0, <2>3, <2>5, <3>0, <4>2
          <5>2. paused /\ r.op # "resume" => paused'
            BY <2>1
          <5>3. QED
            BY <4>3, <5>1, <5>2
        <4>5. \A k \in DOMAIN requests' : id[u] < requests'[k].id
          BY <2>2, <4>1
        <4>6. QED
          BY <3>1, <4>4, <4>5
      <3>4. CASE id[u] # r.id /\ id[u] \in IdsIn(requests)
        BY <2>4, <3>1, <3>4
      <3>5. QED
        BY <3>2, <3>3, <3>4
    <2>9. /\ last_pause < next_request_id /\ last_resume < next_request_id
      BY DEF PauseOK
    <2>10. \A u \in Threads : Posted(u)' => Posted(u)
      BY <2>1 DEF Posted
    <2>11. QED
      BY <2>1, <2>6, <2>7, <2>8, <2>9, <2>10 DEF PauseOK
  <1>9. ASSUME NEW t \in Threads, Drain(t)
        PROVE  PauseOK'
    BY <1>9, PauseIsKept DEF Drain, Posted
  <1>10. CASE Loaded \/ Reply \/ Die \/ UNCHANGED vars
    BY <1>10, PauseIsKept DEF Loaded, Reply, Die, Posted
  <1>11. QED
    BY <1>1, <1>2, <1>3, <1>4, <1>5, <1>6, <1>7, <1>8, <1>9, <1>10 DEF Next

-----------------------------------------------------------------------------
(* Room in the queues.                                                     *)

(* As many places of the queue are taken as there are different ids in it, *)
(* and each of these has its slot or is the one about to get one.          *)
LEMMA QueueFitsSlots ==
    ASSUME TypeOK, PlaceOK, IdsOK, OrderOK, RoomOK
    PROVE  WorkerNeverWaits
  <1> DEFINE a == Len(responses)
             b == IF work = None THEN 0 ELSE 1
             c == Len(requests)
             at(k) == IF k <= a THEN responses[k].id
                      ELSE IF k <= a + b THEN work.id ELSE requests[k - a - b].id
             f == [k \in 1 .. a + b + c |-> at(k)]
  <1>0. /\ a \in Nat /\ b \in {0, 1} /\ c \in Nat
        /\ DOMAIN responses = 1 .. a /\ DOMAIN requests = 1 .. c
        /\ MaxOutstanding \in Nat /\ MaxOutstanding >= 1
    BY TensorBounds DEF TypeOK
  <1>1. Cardinality({work} \ {None}) = b
    <2>1. CASE work = None
      <3>1. {work} \ {None} = {}
        BY <2>1
      <3>2. QED
        BY <2>1, <3>1, FS_EmptySet
    <2>2. CASE work # None
      <3>1. {work} \ {None} = {work}
        BY <2>2
      <3>2. QED
        BY <2>2, <3>1, FS_Singleton
    <2>3. QED
      BY <2>1, <2>2
  <1>2. CASE worker = "none"
    <2>1. a = 0 /\ c = 0 /\ b = 0
      BY <1>2 DEF OrderOK
    <2>2. QED
      BY <1>0, <1>1, <1>2, <2>1 DEF WorkerNeverWaits, RoomOK
  <1>3. CASE next_request_id = 1
    <2>1. work = None
      BY <1>3, TensorBounds DEF OrderOK
    <2>2. ASSUME NEW j \in DOMAIN requests
          PROVE  FALSE
      <3>1. requests[j] \in Requests /\ requests[j].id < 1
        BY <1>3 DEF TypeOK, OrderOK
      <3>2. QED
        BY <3>1, TensorBounds DEF Requests
    <2>3. c = 0
      BY <1>0, <2>2
    <2>4. a <= 1
      BY <1>3 DEF OrderOK
    <2>5. QED
      BY <1>0, <1>1, <1>3, <2>1, <2>3, <2>4 DEF WorkerNeverWaits, RoomOK
  <1>4. CASE worker # "none" /\ next_request_id # 1
    <2>1. Ready \notin IdsIn(responses)
      BY <1>4 DEF OrderOK, PlaceOK
    <2>2. /\ \A i \in 1 .. a : responses[i].id \in Ids /\ responses[i].id \in ToCome
          /\ \A j \in 1 .. c : requests[j].id \in Ids /\ requests[j].id \in ToCome
          /\ b = 1 => work # None /\ work.id \in Ids /\ work.id \in ToCome
      <3>1. \A i \in 1 .. a : responses[i] \in Responses /\ responses[i].id \in IdsIn(responses)
        BY <1>0 DEF TypeOK, IdsIn
      <3>2. \A j \in 1 .. c : requests[j] \in Requests /\ requests[j].id \in IdsIn(requests)
        BY <1>0 DEF TypeOK, IdsIn
      <3>3. QED
        BY <2>1, <3>1, <3>2 DEF Responses, Requests, ToCome, OrderOK
    <2>3. \A k \in 1 .. a + b + c :
             \/ k \in 1 .. a /\ at(k) = responses[k].id
             \/ k = a + 1 /\ b = 1 /\ at(k) = work.id
             \/ k - a - b \in 1 .. c /\ k > a + b /\ at(k) = requests[k - a - b].id
      BY <1>0
    <2> DEFINE S == ToCome \ {Ready}
    <2>4. \A k \in 1 .. a + b + c : at(k) \in S /\ at(k) \in Nat
      <3>1. \A k \in 1 .. a + b + c : at(k) \in ToCome /\ at(k) \in Ids
        BY <2>2, <2>3
      <3>2. QED
        BY <3>1, TensorBounds
    <2>5. ASSUME NEW k \in 1 .. a + b + c, NEW l \in 1 .. a + b + c, k < l
          PROVE  at(k) < at(l)
      <3> USE <1>0
      <3> HIDE DEF a, b, c, at
      <3>1. CASE l \in 1 .. a /\ at(l) = responses[l].id
        <4>1. k \in 1 .. a /\ at(k) = responses[k].id
          BY <2>3, <2>5, <3>1
        <4>2. QED
          BY <2>5, <3>1, <4>1 DEF OrderOK
      <3>2. CASE l = a + 1 /\ b = 1 /\ at(l) = work.id
        <4>1. k \in 1 .. a /\ at(k) = responses[k].id
          BY <2>3, <2>5, <3>2
        <4>2. QED
          BY <2>2, <3>2, <4>1 DEF OrderOK
      <3>3. CASE l - a - b \in 1 .. c /\ l > a + b /\ at(l) = requests[l - a - b].id
        <4>1. CASE k \in 1 .. a /\ at(k) = responses[k].id
          BY <3>3, <4>1 DEF OrderOK
        <4>2. CASE k = a + 1 /\ b = 1 /\ at(k) = work.id
          BY <2>2, <3>3, <4>2 DEF OrderOK
        <4>3. CASE k - a - b \in 1 .. c /\ k > a + b /\ at(k) = requests[k - a - b].id
          <5>1. k - a - b < l - a - b
            BY <2>5
          <5>2. QED
            BY <3>3, <4>3, <5>1 DEF OrderOK
        <4>4. QED
          BY <2>3, <4>1, <4>2, <4>3
      <3>4. QED
        BY <2>3, <3>1, <3>2, <3>3
    <2>6. f \in Injection(1 .. a + b + c, S)
      <3> USE <1>0
      <3>1. f \in [1 .. a + b + c -> S] /\ \A k \in 1 .. a + b + c : f[k] = at(k)
        BY <2>4
      <3> HIDE DEF a, b, c, at, f, S
      <3>2. ASSUME NEW k \in 1 .. a + b + c, NEW l \in 1 .. a + b + c, f[k] = f[l]
            PROVE  k = l
        <4>1. at(k) = at(l) /\ at(k) \in Nat /\ at(l) \in Nat
          BY <2>4, <3>1, <3>2
        <4>2. ~(k < l) /\ ~(l < k)
          BY <2>5, <4>1
        <4>3. QED
          BY <4>2
      <3>3. QED
        BY <3>1, <3>2 DEF Injection, IsInjective
    <2>7. IsFiniteSet(Ids) /\ IsFiniteSet(DOMAIN pending) /\ Cardinality(DOMAIN pending) \in Nat
      <3>1. IsFiniteSet(Ids)
        BY FS_Interval, TensorBounds
      <3>2. QED
        BY <3>1, FS_Subset, FS_CardinalityType DEF TypeOK
    <2>8. \E T : /\ S \subseteq T /\ IsFiniteSet(T) /\ Cardinality(T) \in Nat
                 /\ Cardinality(T) <= MaxOutstanding
      <3>1. CASE \A t \in Threads : pc[t] # "register"
        <4>1. S \subseteq DOMAIN pending
          BY <3>1 DEF RoomOK, Registering
        <4>2. QED
          BY <2>7, <4>1 DEF RoomOK
      <3>2. ASSUME NEW t \in Threads, pc[t] = "register"
            PROVE  \E T : /\ S \subseteq T /\ IsFiniteSet(T) /\ Cardinality(T) \in Nat
                          /\ Cardinality(T) <= MaxOutstanding
        <4>1. \A u \in Threads : pc[u] = "register" => u = t
          BY <3>2 DEF PlaceOK
        <4>2. S \subseteq DOMAIN pending \cup {id[t]}
          BY <4>1 DEF RoomOK, Registering
        <4>3. Cardinality(DOMAIN pending) < MaxOutstanding /\ id[t] \notin DOMAIN pending
          BY <3>2 DEF RoomOK
        <4>4. /\ IsFiniteSet(DOMAIN pending \cup {id[t]})
              /\ Cardinality(DOMAIN pending \cup {id[t]}) = Cardinality(DOMAIN pending) + 1
          BY <2>7, <4>3, FS_AddElement
        <4>5. QED
          BY <1>0, <2>7, <4>2, <4>3, <4>4
      <3>3. QED
        BY <3>1, <3>2
    <2>9. PICK T : /\ S \subseteq T /\ IsFiniteSet(T) /\ Cardinality(T) \in Nat
                   /\ Cardinality(T) <= MaxOutstanding
      BY <2>8
    <2>10. IsFiniteSet(S) /\ Cardinality(S) \in Nat /\ Cardinality(S) <= MaxOutstanding
      <3> HIDE DEF S
      <3>1. IsFiniteSet(S) /\ Cardinality(S) <= Cardinality(T)
        BY <2>9, FS_Subset
      <3>2. Cardinality(S) \in Nat
        BY <3>1, FS_CardinalityType
      <3>3. QED
        BY <1>0, <2>9, <3>1, <3>2
    <2>11. a + b + c <= Cardinality(S)
      <3> HIDE DEF a, b, c, f, S
      <3>1. a + b + c \in Nat
        BY <1>0
      <3>2. Cardinality(1 .. a + b + c) <= Cardinality(S)
        BY <2>6, <2>10, FS_Injection
      <3>3. Cardinality(1 .. a + b + c) = a + b + c
        BY <3>1, FS_Interval
      <3>4. QED
        BY <3>2, <3>3
    <2>12. c + a + b <= MaxOutstanding
      <3> HIDE DEF a, b, c, S
      <3>1. QED
        BY <1>0, <2>10, <2>11
    <2>13. QED
      BY <1>1, <1>4, <2>12 DEF WorkerNeverWaits, RoomOK
  <1>5. QED
    BY <1>2, <1>3, <1>4

-----------------------------------------------------------------------------
(* The theorems.                                                           *)

(* TensorInv holds in every reachable state.                               *)
THEOREM TensorInvariant == Spec => []TensorInv
  <1>1. Init => TensorInv
    <2> SUFFICES ASSUME Init
                 PROVE  TensorInv
      OBVIOUS
    <2> USE DEF Init
    <2>0. /\ DOMAIN pending = {} /\ DOMAIN requests = {} /\ DOMAIN responses = {}
          /\ Cardinality(DOMAIN pending) = 0
      BY FS_EmptySet
    <2>1. TypeOK
      <3>1. 1 \in 1 .. MaxRequests + 1 /\ 0 \in 0 .. MaxStarts
        BY TensorBounds
      <3>2. ProcessTyped
        <4>1. <<>> \in Seq(Requests) /\ <<>> \in Seq(Responses)
          OBVIOUS
        <4>2. QED
          BY <3>1, <4>1 DEF ProcessTyped
      <3>3. SlotsTyped
        BY <2>0, <3>1 DEF SlotsTyped
      <3>4. ThreadsTyped
        BY DEF ThreadsTyped, Ops
      <3>5. QED
        BY <3>2, <3>3, <3>4 DEF TypeOK, ProcessTyped, SlotsTyped, ThreadsTyped
    <2>2. PlaceOK
      BY TensorBounds DEF PlaceOK
    <2>3. IdsOK /\ OrderOK /\ KeptOK
      BY <2>0 DEF IdsOK, Posted, OrderOK, IdsIn, KeptOK
    <2>4. RoomOK /\ SlotsAreOwed /\ OwedOK
      BY <2>0, TensorBounds DEF RoomOK, ToCome, IdsIn, SlotsAreOwed, OwedOK
    <2>5. AloneOK /\ PauseOK
      BY <2>0 DEF AloneOK, PauseOK, Posted
    <2>6. QED
      BY <2>1, <2>2, <2>3, <2>4, <2>5 DEF TensorInv
  <1>2. TensorInv /\ [Next]_vars => TensorInv'
    BY TypeStep, PlaceStep, IdsStep, OrderStep, KeptStep, RoomStep, OwedStep, AloneStep, PauseStep
       DEF TensorInv
  <1>3. QED
    BY <1>1, <1>2, PTL DEF Spec

(* Late replies give their slots back, whoever reads them, and the worker  *)
(* always has room for its reply.                                          *)
THEOREM TensorIsSound == Spec => []SlotsAreSound
  <1>1. TensorInv => SlotsAreSound
    BY QueueFitsSlots DEF TensorInv, SlotsAreSound
  <1>2. QED
    BY <1>1, TensorInvariant, PTL

(* Once a pause has returned, no module runs before a resume is sent.      *)
THEOREM PauseIsObeyed == Spec => PauseHolds
  <1>1. TensorInv /\ [Next]_vars =>
            (worker = "serving" /\ worker' = "reply" =>
                LET r == Head(requests)
                IN  r.op = "infer" /\ last_pause > last_resume => work'.status = "paused")
    <2> SUFFICES ASSUME TensorInv, [Next]_vars, worker = "serving", worker' = "reply",
                        Head(requests).op = "infer", last_pause > last_resume
                 PROVE  work'.status = "paused"
      OBVIOUS
    <2>1. Serve
      BY DEF Next, vars, process, Start, StartReady, StartFails, Stop, StopEnds, Submit, Drain,
             Put, PutRefused, Register, Receive, Look, ReadWire, TimesOut, WorkerGone, Dispose,
             Loaded, Reply, Die, Running
    <2>2. paused
      BY DEF TensorInv, PauseOK
    <2>3. Outcome(Head(requests).op) = {"paused"}
      BY <2>2 DEF Outcome
    <2>4. QED
      BY <2>1, <2>3 DEF Serve
  <1>2. QED
    BY <1>1, TensorInvariant, PTL DEF Spec, PauseHolds
=============================================================================
