---------------------------- MODULE ModelService ----------------------------
(***************************************************************************)
(* ModelService (cogni_agent/model_service.py): one resident model in a    *)
(* worker process behind two bounded queues, and the threads that generate *)
(* with it, cancel what is being generated and stop it.                    *)
(*                                                                         *)
(* Every start makes a new incarnation: a process with queues and events   *)
(* of its own.  The service's attributes refer to the latest one, or to    *)
(* none after a stop; a thread reads them anew at each step.  A token is   *)
(* its request and its position in the answer.  A timeout may strike       *)
(* whenever its wait is not over.  use, drawn once, says which threads use *)
(* the service and whether one at a time does, as the compute lock of the  *)
(* server has it, or all at once; cancel comes at any time.                *)
(***************************************************************************)
EXTENDS Naturals, FiniteSets, SequencesExt

CONSTANTS Callers,              \* threads that generate
          Stoppers,             \* threads that stop the service
          Uses,                 \* who uses the service, and whether alone
          RequestSlots,         \* capacity of the request queue
          ResponseSlots,        \* capacity of the response queue
          MaxTokens,            \* max_new_tokens
          MaxRequests,          \* bound: requests
          MaxStarts,            \* bound: incarnations
          Absent

Threads == Callers \cup Stoppers
Incarnations == 1 .. MaxStarts
Ids == 1 .. MaxRequests
Stop == 0                       \* the request that ends a worker
Statuses == {"ok", "cancelled", "error", "mutated"}

ASSUME ServiceAssumption ==
    /\ RequestSlots \in Nat \ {0} /\ ResponseSlots \in Nat \ {0}
    /\ MaxTokens \in Nat \ {0}
    /\ MaxRequests \in Nat /\ MaxStarts \in Nat
    /\ Uses \subseteq [who : SUBSET Threads, alone : BOOLEAN]
    /\ Callers \cap Stoppers = {} /\ Absent \notin Threads \cup Nat
    /\ Absent \notin [id : Nat, made : Nat, emitted : Seq(Nat \X Nat), status : Statuses]

VARIABLES process, starts,
          request_lock, active_request_id, next_request_id,
          ready,            \* incarnations whose ready event is set
          cancel,           \* ... whose cancel event is set
          requests,         \* request queue of each incarnation
          responses,        \* response queue of each incarnation
          worker,           \* where each worker process is
          work,             \* the request it is at
          place, id,        \* where each thread is, with which request
          got,              \* the tokens it has been handed
          ending,           \* how its call ends
          joined,           \* the process its stop waits for
          gave_up,          \* a cancelled request was not drained in time
          use

service == <<process, starts, request_lock, active_request_id, next_request_id>>
workers == <<ready, worker, work>>
wires == <<requests, responses>>
threads == <<place, id, got, ending, joined>>
service_vars == <<service, workers, cancel, wires, threads, gave_up, use>>

Token(i, k) == <<i, k>>
Answer(i, n) == [k \in 1 .. n |-> Token(i, k)]
Frame(i, status, tokens, total, final) ==
    [id |-> i, status |-> status, tokens |-> tokens, total |-> total, final |-> final]

ServiceInit ==
    /\ process = Absent /\ starts = 0
    /\ request_lock = Absent /\ active_request_id = Absent /\ next_request_id = 1
    /\ ready = {}
    /\ cancel = {}
    /\ requests = [p \in Incarnations |-> <<>>]
    /\ responses = [p \in Incarnations |-> <<>>]
    /\ worker = [p \in Incarnations |-> "none"]
    /\ work = [p \in Incarnations |-> Absent]
    /\ place = [t \in Threads |-> "idle"]
    /\ id = [t \in Threads |-> 0]
    /\ got = [t \in Threads |-> <<>>]
    /\ ending = [t \in Threads |-> "none"]
    /\ joined = [t \in Threads |-> Absent]
    /\ gave_up = FALSE
    /\ use \in Uses

Live(p) == worker[p] \notin {"none", "dead"}
Running == process # Absent /\ Live(process)
Set(event) == cancel' = cancel \cup ({event} \ {Absent})
MayEnter(t) ==
    /\ t \in use.who
    /\ use.alone => \A u \in Threads \ {t} : place[u] = "idle"

GoesTo(t, point) == place' = [place EXCEPT ![t] = point]
Returns(t) ==
    /\ GoesTo(t, "idle")
    /\ id' = [id EXCEPT ![t] = 0]
    /\ got' = [got EXCEPT ![t] = <<>>]
    /\ ending' = [ending EXCEPT ![t] = "none"]
    /\ joined' = [joined EXCEPT ![t] = Absent]
EndsCall(t, point, how) == GoesTo(t, point) /\ ending' = [ending EXCEPT ![t] = how]

-----------------------------------------------------------------------------
(* start                                                                   *)

Call(t, point) == GoesTo(t, point) /\ UNCHANGED <<id, got, ending, joined>>

(* A worker that is alive is taken as it is, ready or not. *)
StartRunning(c) ==
    /\ place[c] = "idle" /\ MayEnter(c)
    /\ next_request_id <= MaxRequests
    /\ Running
    /\ Call(c, "lock")
    /\ UNCHANGED <<service, workers, cancel, wires, gave_up>>

StartSpawn(c) ==
    /\ place[c] = "idle" /\ MayEnter(c)
    /\ next_request_id <= MaxRequests
    /\ ~Running
    /\ starts < MaxStarts
    /\ starts' = starts + 1
    /\ process' = starts + 1
    /\ worker' = [worker EXCEPT ![starts + 1] = "loading"]
    /\ Call(c, "ready")
    /\ UNCHANGED <<request_lock, active_request_id, next_request_id, ready, work,
                   cancel, wires, gave_up>>

Ready(c) ==
    /\ place[c] = "ready"
    /\ process \in ready
    /\ GoesTo(c, "lock")
    /\ UNCHANGED <<service, workers, cancel, wires, id, got, ending, joined, gave_up>>

(* The worker failed, or is not ready in time: start stops the service and *)
(* raises.  A service stopped meanwhile by another has no ready event.     *)
NotReady(c) ==
    /\ place[c] = "ready"
    /\ process \notin ready
    /\ IF process = Absent THEN Returns(c) ELSE Call(c, "stop")
    /\ UNCHANGED <<service, workers, cancel, wires, gave_up>>

-----------------------------------------------------------------------------
(* stop                                                                    *)

StopCall(s) ==
    /\ s \in Stoppers
    /\ place[s] = "idle" /\ MayEnter(s)
    /\ process # Absent
    /\ Call(s, "stop")
    /\ UNCHANGED <<service, workers, cancel, wires, gave_up>>

StopBegin(t) ==
    /\ place[t] = "stop"
    /\ IF process = Absent
       THEN Returns(t) /\ UNCHANGED <<cancel, requests>>
       ELSE /\ Set(process)
            /\ requests' = IF Running /\ Len(requests[process]) < RequestSlots
                           THEN [requests EXCEPT ![process] = Append(@, Stop)]
                           ELSE requests
            /\ joined' = [joined EXCEPT ![t] = process]
            /\ GoesTo(t, "join")
            /\ UNCHANGED <<id, got, ending>>
    /\ UNCHANGED <<service, workers, responses, gave_up>>

Ended(p) ==
    /\ worker' = [worker EXCEPT ![p] = "dead"]
    /\ work' = [work EXCEPT ![p] = Absent]

(* It has ended, or is terminated once the join has timed out. *)
StopJoin(t) ==
    /\ place[t] = "join"
    /\ Ended(joined[t])
    /\ GoesTo(t, "clear")
    /\ UNCHANGED <<service, ready, cancel, wires, id, got, ending, joined, gave_up>>

(* The queues and events the attributes refer to by now are gone. *)
StopClear(t) ==
    /\ place[t] = "clear"
    /\ process' = Absent
    /\ active_request_id' = Absent
    /\ ready' = ready \ {process}
    /\ cancel' = cancel \ {process}
    /\ requests' = [p \in Incarnations |-> IF p = process THEN <<>> ELSE requests[p]]
    /\ responses' = [p \in Incarnations |-> IF p = process THEN <<>> ELSE responses[p]]
    /\ Returns(t)
    /\ UNCHANGED <<starts, request_lock, next_request_id, worker, work, gave_up>>

-----------------------------------------------------------------------------
(* iter_generate_tokens                                                    *)

(* Busy, or a prompt or a budget out of bounds. *)
Refuse(c) ==
    /\ place[c] = "lock"
    /\ Returns(c)
    /\ UNCHANGED <<service, workers, cancel, wires, gave_up>>

Lock(c) ==
    /\ place[c] = "lock"
    /\ next_request_id <= MaxRequests
    /\ request_lock = Absent
    /\ request_lock' = c
    /\ GoesTo(c, "register")
    /\ UNCHANGED <<process, starts, active_request_id, next_request_id, workers,
                   cancel, wires, id, got, ending, joined, gave_up>>

Register(c) ==
    /\ place[c] = "register"
    /\ next_request_id' = next_request_id + 1
    /\ active_request_id' = next_request_id
    /\ cancel' = cancel \ {process}
    /\ id' = [id EXCEPT ![c] = next_request_id]
    /\ GoesTo(c, IF process = Absent THEN "finally" ELSE "put")
    /\ UNCHANGED <<got, ending, joined>>
    /\ UNCHANGED <<process, starts, request_lock, workers, wires, gave_up>>

(* Seeded bug: the bound of the request queue is not looked at. *)
HasRoom_Always == process # Absent

HasRoom == process # Absent /\ Len(requests[process]) < RequestSlots

Put(c) ==
    /\ place[c] = "put"
    /\ \/ /\ HasRoom
          /\ requests' = [requests EXCEPT ![process] = Append(@, id[c])]
          /\ Call(c, "wait")
       \/ ~HasRoom /\ Call(c, "finally") /\ UNCHANGED requests
    /\ UNCHANGED <<service, workers, cancel, responses, gave_up>>

(* Seeded bug: whose frame it is, is not looked at. *)
Accepts_Anyone(c, f) == TRUE

Accepts(c, f) ==
    /\ f.id = id[c]
    /\ f.total = Len(got[c]) + Len(f.tokens)

Hands(c, f) == got' = [got EXCEPT ![c] = @ \o f.tokens]

(* A consumer that closes the generator at the last chunk is late: the     *)
(* call does not count as completed, and drains what has come already.     *)
Receive(c) ==
    /\ place[c] = "wait"
    /\ Running
    /\ responses[process] # <<>>
    /\ responses' = [responses EXCEPT ![process] = Tail(@)]
    /\ LET f == Head(responses[process]) IN
         \/ ~Accepts(c, f) /\ EndsCall(c, "finally", "broken") /\ UNCHANGED got
         \/ /\ Accepts(c, f) /\ f.status = "ok"
            /\ Hands(c, f)
            /\ \/ ~f.final /\ UNCHANGED <<place, ending>>
               \/ f.final /\ EndsCall(c, "release", "ok")
               \/ f.final /\ EndsCall(c, "finally", "late")
         \/ /\ Accepts(c, f) /\ f.status = "cancelled"
            /\ Hands(c, f)
            /\ EndsCall(c, "release", "ended")
         \/ /\ Accepts(c, f) /\ f.status \in {"error", "mutated"}
            /\ EndsCall(c, "release", "ended")
            /\ UNCHANGED got
    /\ UNCHANGED <<service, workers, cancel, requests, id, joined, gave_up>>

(* The deadline has passed, the worker is not running, or the consumer has *)
(* closed the generator at a chunk.                                        *)
Break(c) ==
    /\ place[c] = "wait"
    /\ EndsCall(c, "finally", "broken")
    /\ \/ Set(process)
       \/ (~Running \/ got[c] # <<>>) /\ UNCHANGED cancel
    /\ UNCHANGED <<service, workers, wires, id, got, joined, gave_up>>

(* The clause itself raises when there is no cancel event any more: the    *)
(* request lock stays taken.                                               *)
Torn(c) == process = Absent /\ Returns(c)

Finally(c) ==
    /\ place[c] = "finally"
    /\ \/ Torn(c) /\ UNCHANGED cancel
       \/ process # Absent /\ Set(process) /\ Call(c, "drain")
    /\ UNCHANGED <<service, workers, wires, gave_up>>

Own(c, f) == f.id = id[c] /\ f.final

DrainFrame(c) ==
    /\ place[c] = "drain"
    /\ Running
    /\ responses[process] # <<>>
    /\ responses' = [responses EXCEPT ![process] = Tail(@)]
    /\ GoesTo(c, IF Own(c, Head(responses[process])) THEN "release" ELSE "drain")
    /\ UNCHANGED <<service, workers, cancel, requests, id, got, ending, joined, gave_up>>

(* The worker is not running, or the cancellation timeout has passed. *)
DrainOver(c) ==
    /\ place[c] = "drain"
    /\ gave_up' = (gave_up \/ (Running /\ ending[c] # "late"))
    /\ Torn(c) \/ Call(c, "release")
    /\ UNCHANGED <<service, workers, cancel, wires>>

Release(c) ==
    /\ place[c] = "release"
    /\ active_request_id' = IF active_request_id = id[c] THEN Absent ELSE active_request_id
    /\ request_lock' = Absent
    /\ Returns(c)
    /\ UNCHANGED <<process, starts, next_request_id, workers, cancel, wires, gave_up>>

CancelActive ==
    /\ active_request_id # Absent
    /\ Set(process)
    /\ UNCHANGED <<service, workers, wires, threads, gave_up>>

-----------------------------------------------------------------------------
(* _worker_main                                                            *)

Moves(p, point) == worker' = [worker EXCEPT ![p] = point]
Works(p, change) == work' = [work EXCEPT ![p] = change]
others == <<service, threads, gave_up>>

LoadModel(p) ==
    /\ worker[p] = "loading"
    /\ Moves(p, "idle")
    /\ ready' = ready \cup {p}
    /\ UNCHANGED <<others, cancel, wires, work>>

Take(p) ==
    /\ worker[p] = "idle"
    /\ requests[p] # <<>>
    /\ requests' = [requests EXCEPT ![p] = Tail(@)]
    /\ LET next == Head(requests[p]) IN
         IF next = Stop
         THEN Moves(p, "dead") /\ UNCHANGED work
         ELSE /\ Moves(p, "decode")
              /\ Works(p, [id |-> next, made |-> 0, emitted |-> <<>>, status |-> "ok"])
    /\ UNCHANGED <<others, cancel, ready, responses>>

(* The advisory pipeline finds the request cancelled before it is begun. *)
SkipCancelled(p) ==
    /\ worker[p] = "decode"
    /\ work[p].made = 0
    /\ p \in cancel
    /\ Moves(p, "finish")
    /\ Works(p, [work[p] EXCEPT !.status = "cancelled"])
    /\ UNCHANGED <<others, cancel, wires, ready>>

(* One more token: the streamer drops it if the request is cancelled, and  *)
(* raises if the response queue stays full.                                *)
Decode(p) ==
    /\ worker[p] = "decode"
    /\ LET w == work[p]
           token == Token(w.id, w.made + 1)
           more == [w EXCEPT !.made = @ + 1]
           sent == [more EXCEPT !.emitted = Append(@, token)] IN
         \/ /\ p \in cancel
            /\ Works(p, more) /\ Moves(p, "check") /\ UNCHANGED responses
         \/ /\ p \notin cancel
            /\ Len(responses[p]) < ResponseSlots
            /\ responses' = [responses EXCEPT ![p] =
                   Append(@, Frame(w.id, "ok", <<token>>, Len(sent.emitted), FALSE))]
            /\ Works(p, sent) /\ Moves(p, "check")
         \/ /\ p \notin cancel
            /\ Len(responses[p]) = ResponseSlots
            /\ Works(p, [sent EXCEPT !.status = "error"])
            /\ Moves(p, "finish") /\ UNCHANGED responses
    /\ UNCHANGED <<others, cancel, requests, ready>>

(* The stopping criteria: cancelled, the token bound, or a stop token. *)
Check(p) ==
    /\ worker[p] = "check"
    /\ \/ /\ p \in cancel
          /\ Moves(p, "finish")
          /\ Works(p, [work[p] EXCEPT !.status = "cancelled"])
       \/ p \notin cancel /\ Moves(p, "finish") /\ UNCHANGED work
       \/ /\ p \notin cancel /\ work[p].made < MaxTokens
          /\ Moves(p, "decode") /\ UNCHANGED work
    /\ UNCHANGED <<others, cancel, wires, ready>>

ModelRaises(p) ==
    /\ worker[p] \in {"decode", "check"}
    /\ Moves(p, "finish")
    /\ Works(p, [work[p] EXCEPT !.status = "error"])
    /\ UNCHANGED <<others, cancel, wires, ready>>

(* The post-check of the streamed tokens, the signature of the base model, *)
(* and the final frame, without which the worker ends.                     *)
FinishRequest(p) ==
    /\ worker[p] = "finish"
    /\ LET w == work[p]
           whole == Answer(w.id, w.made)
           agreed == IF w.status # "error" /\ ~IsPrefix(w.emitted, whole)
                     THEN "error" ELSE w.status IN
         \E status \in {agreed, "mutated"} :
             LET rest == IF status \in {"ok", "cancelled"}
                         THEN SubSeq(whole, Len(w.emitted) + 1, w.made) ELSE <<>>
             IN  IF Len(responses[p]) < ResponseSlots
                 THEN /\ responses' = [responses EXCEPT ![p] =
                             Append(@, Frame(w.id, status, rest,
                                             Len(w.emitted) + Len(rest), TRUE))]
                      /\ Moves(p, IF status = "mutated" THEN "dead" ELSE "idle")
                 ELSE Moves(p, "dead") /\ UNCHANGED responses
    /\ Works(p, [work[p] EXCEPT !.emitted = <<>>, !.status = "ok"])
    /\ UNCHANGED <<others, cancel, requests, ready>>

(* The model cannot be loaded, or the operating system ends the process. *)
Die(p) ==
    /\ Live(p)
    /\ Ended(p)
    /\ UNCHANGED <<others, cancel, wires, ready>>

-----------------------------------------------------------------------------
Serve(p) == LoadModel(p) \/ Take(p) \/ SkipCancelled(p) \/ Decode(p) \/ Check(p)
            \/ ModelRaises(p) \/ FinishRequest(p)

GoOn(t) ==
    \/ Ready(t) \/ NotReady(t)
    \/ StopBegin(t) \/ StopJoin(t) \/ StopClear(t)
    \/ Lock(t) \/ Refuse(t) \/ Register(t) \/ Put(t)
    \/ Receive(t) \/ Break(t) \/ Finally(t)
    \/ DrainFrame(t) \/ DrainOver(t) \/ Release(t)

ServiceNext ==
    /\ UNCHANGED use
    /\ \/ \E c \in Callers : StartRunning(c) \/ StartSpawn(c)
       \/ \E s \in Stoppers : StopCall(s)
       \/ \E t \in Threads : GoOn(t)
       \/ \E p \in Incarnations : Serve(p) \/ Die(p)
       \/ CancelActive

ServiceSpec == ServiceInit /\ [][ServiceNext]_service_vars

-----------------------------------------------------------------------------
Tokens == Ids \X (1 .. MaxTokens)
Frames == [id : Ids, status : Statuses, tokens : Seq(Tokens), total : 0 .. MaxTokens,
           final : BOOLEAN]

(* Every variable has its type; the queues keep their bounds. *)
ServiceTypeOK ==
    /\ process \in Incarnations \cup {Absent} /\ starts \in 0 .. MaxStarts
    /\ request_lock \in Callers \cup {Absent}
    /\ active_request_id \in Ids \cup {Absent}
    /\ next_request_id \in 1 .. MaxRequests + 1
    /\ ready \subseteq Incarnations /\ cancel \subseteq Incarnations
    /\ \A p \in Incarnations :
          /\ requests[p] \in Seq(Ids \cup {Stop}) /\ Len(requests[p]) <= RequestSlots
          /\ responses[p] \in Seq(Frames) /\ Len(responses[p]) <= ResponseSlots
          /\ work[p] = Absent \/ work[p].id \in Ids
    /\ worker \in [Incarnations -> {"none", "loading", "idle", "decode", "check",
                                    "finish", "dead"}]
    /\ place \in [Threads -> {"idle", "ready", "stop", "join", "clear", "lock", "register",
                           "put", "wait", "finally", "drain", "release"}]
    /\ id \in [Threads -> Ids \cup {0}]
    /\ got \in [Threads -> Seq(Tokens)]
    /\ joined \in [Threads -> Incarnations \cup {Absent}]
    /\ gave_up \in BOOLEAN /\ use \in Uses

(* A call is handed its own tokens only, in order and without a gap, over  *)
(* cancelled predecessors, late frames and restarts of the worker; and one *)
(* that ends well has been handed all the model made for it, what was      *)
(* streamed and what came with the last frame.                             *)
AnswersAreOwn ==
    [][\A c \in Callers :
          /\ got'[c] = Answer(id'[c], Len(got'[c]))
          /\ ending[c] = "none" /\ ending'[c] \in {"ok", "late"} =>
                Len(got'[c]) = work[process].made]_service_vars

(* A request starts with a worker at rest: whatever became of the earlier  *)
(* ones, none of them, its frames or its cancellation can reach this one,  *)
(* unless a cancelled request was given up before its final frame came.    *)
StartsClean ==
    \A c \in Callers :
        place[c] = "put" /\ Running /\ ~gave_up =>
            /\ responses[process] = <<>>
            /\ worker[process] \in {"loading", "idle"}
            /\ Range(requests[process]) \subseteq {Stop}

(* The model is resident once: no worker is left behind that the service   *)
(* does not know of, as long as one thread at a time uses the service.     *)
OneResidentModel == use.alone => \A p \in Incarnations : Live(p) => p = process

(* However a call ends, and whatever becomes of the worker under it, the   *)
(* service is free when no caller is inside, and has no request to cancel, *)
(* as long as one thread at a time uses it.                                *)
FreeWhenIdle ==
    use.alone =>
        /\ request_lock # Absent =>
               place[request_lock] \in {"register", "put", "wait", "finally", "drain", "release"}
        /\ active_request_id # Absent =>
               \E c \in Callers : place[c] # "idle" /\ id[c] = active_request_id

(* model_service.py over its requests, drains, stops and restarts: the     *)
(* worker a request meets is at rest, one model is resident at a time, and *)
(* nobody who has left still owns the service.                             *)
ServiceSound == ServiceTypeOK /\ StartsClean /\ OneResidentModel /\ FreeWhenIdle
=============================================================================
