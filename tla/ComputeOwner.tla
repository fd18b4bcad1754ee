---------------------------- MODULE ComputeOwner ----------------------------
(***************************************************************************)
(* The control plane's arbitration of the one local compute slot           *)
(* (cogni_demo/server.py): DemoHTTPServer's compute lock and the condition *)
(* of each of the three managers - JobManager ("job"), AgentManager        *)
(* ("agent") and EvolutionController ("evolution") - under concurrent HTTP *)
(* requests.  All four are reentrant.                                      *)
(*                                                                         *)
(* A request is a route: the locks it takes, the managers whose activity   *)
(* it looks at and what it starts, in the order of the code.  Looking at a *)
(* manager (is_active) takes its condition for the one step.  Acquiring a  *)
(* lock the thread already holds is left out, and so is everything that    *)
(* takes a single manager's condition and nothing else.                    *)
(***************************************************************************)
EXTENDS Naturals, Sequences, FiniteSets

CONSTANTS Threads,      \* HTTP worker threads
          Mixes,        \* sets of kinds of requests that may arrive together
          None

Managers == {"job", "agent", "evolution"}
Locks == Managers \cup {"compute"}
Kinds == {"validate", "chat", "evolve", "state"}

ASSUME OwnerAssumption == Mixes \subseteq SUBSET Kinds /\ None \notin Threads

VARIABLES holder,       \* who holds each lock
          request,      \* the request each thread is serving
          at,           \* how far along its route it is
          active,       \* which managers have work in progress
          resident,     \* the chat model is loaded
          mix           \* the kinds of requests that arrive, chosen once

vars == <<holder, request, at, active, resident, mix>>

Lock(l) == <<"lock", l>>
Idle(m) == <<"idle", m>>        \* go on only if m is not active
Start(m) == <<"start", m>>
Unload == <<"unload", "agent">>
Leave == <<"leave", "all">>     \* leave the with blocks

(* Seeded bug: the resident chat model is left alone. *)
StartValidation_KeepsModel ==
    <<Lock("compute"), Idle("agent"), Idle("evolution"),
      Lock("job"), Idle("job"), Idle("agent"), Idle("evolution"), Start("job")>>

(* start_validation, AgentManager.stop_model, JobManager.start and its     *)
(* availability check.                                                     *)
StartValidation ==
    <<Lock("compute"), Idle("agent"), Idle("evolution"), Idle("agent"), Unload,
      Lock("job"), Idle("job"), Idle("agent"), Idle("evolution"), Start("job")>>

(* AgentManager.snapshot calls EvolutionController.snapshot with its own   *)
(* condition held: a state poll does, and so does the answer to a chat.    *)
AgentState == <<Lock("agent"), Lock("evolution")>>

(* Seeded bug: evolution is not asked. *)
StartAgentTurn_ForgetsEvolution ==
    <<Lock("compute"), Idle("job"),
      Lock("agent"), Idle("agent"), Idle("job"), Start("agent"),
      Leave>> \o AgentState

StartAgentTurn ==
    <<Lock("compute"), Idle("job"), Idle("evolution"),
      Lock("agent"), Idle("agent"), Idle("job"), Idle("evolution"), Start("agent"),
      Leave>> \o AgentState

StartEvolution ==
    <<Lock("compute"), Idle("job"), Idle("agent"),
      Lock("evolution"), Idle("evolution"), Idle("job"), Idle("agent"),
      Start("evolution")>>

Route(kind) == CASE kind = "validate" -> StartValidation
                 [] kind = "chat"     -> StartAgentTurn
                 [] kind = "evolve"   -> StartEvolution
                 [] kind = "state"    -> AgentState

Init ==
    /\ holder = [l \in Locks |-> None]
    /\ request = [t \in Threads |-> None]
    /\ at = [t \in Threads |-> 1]
    /\ active = {}
    /\ resident = FALSE
    /\ mix \in Mixes

Serving(t) == request[t] # None
Step(t) == Route(request[t])[at[t]]
Reached(t, op) == Serving(t) /\ at[t] <= Len(Route(request[t])) /\ Step(t)[1] = op
Target(t) == Step(t)[2]
Advance(t) == at' = [at EXCEPT ![t] = @ + 1]
Free(t, l) == holder[l] \in {None, t}

Arrive(t, kind) ==
    /\ ~Serving(t)
    /\ request' = [request EXCEPT ![t] = kind]
    /\ UNCHANGED <<holder, at, active, resident>>

Acquire(t) ==
    /\ Reached(t, "lock")
    /\ Free(t, Target(t))
    /\ holder' = [holder EXCEPT ![Target(t)] = t]
    /\ Advance(t)
    /\ UNCHANGED <<request, active, resident>>

Held(t) == {l \in Locks : holder[l] = t}
Without(locks) == [l \in Locks |-> IF l \in locks THEN None ELSE holder[l]]

Release(t) ==
    /\ Reached(t, "leave")
    /\ holder' = Without(Held(t))
    /\ Advance(t)
    /\ UNCHANGED <<request, active, resident>>

(* The with blocks are left, normally or by the exception of a busy        *)
(* manager, and the request is answered.                                   *)
Answer(t) ==
    /\ holder' = Without(Held(t))
    /\ request' = [request EXCEPT ![t] = None]
    /\ at' = [at EXCEPT ![t] = 1]

LookIdle(t) ==
    /\ Reached(t, "idle")
    /\ Free(t, Target(t))
    /\ Target(t) \notin active
    /\ Advance(t)
    /\ UNCHANGED <<holder, request, active, resident>>

(* Seeded bug: the request polls for the manager to be idle, in its locks. *)
LookBusy_Polls(t) ==
    /\ Reached(t, "idle")
    /\ Free(t, Target(t))
    /\ Target(t) \in active
    /\ UNCHANGED vars

LookBusy(t) ==
    /\ Reached(t, "idle")
    /\ Free(t, Target(t))
    /\ Target(t) \in active
    /\ Answer(t)
    /\ UNCHANGED <<active, resident>>

StopModel(t) ==
    /\ Reached(t, "unload")
    /\ resident' = FALSE
    /\ Advance(t)
    /\ UNCHANGED <<holder, request, active>>

(* The status becomes an active one and the worker thread is started. *)
Begin(t) ==
    /\ Reached(t, "start")
    /\ active' = active \cup {Target(t)}
    /\ Advance(t)
    /\ UNCHANGED <<holder, request, resident>>

Done(t) ==
    /\ Serving(t)
    /\ at[t] > Len(Route(request[t]))
    /\ Answer(t)
    /\ UNCHANGED <<active, resident>>

(* A turn or an evolution cycle generates with the resident model.  *)
Generate(m) ==
    /\ m \in active \cap {"agent", "evolution"}
    /\ ~resident
    /\ resident' = TRUE
    /\ UNCHANGED <<holder, request, at, active>>

(* The worker thread reports its end, under its manager's condition. *)
Finish(m) ==
    /\ m \in active
    /\ holder[m] = None
    /\ active' = active \ {m}
    /\ UNCHANGED <<holder, request, at, resident>>

Serve(t) ==
    \/ Acquire(t) \/ LookIdle(t) \/ LookBusy(t)
    \/ StopModel(t) \/ Begin(t) \/ Release(t) \/ Done(t)

Next ==
    /\ UNCHANGED mix
    /\ \/ \E t \in Threads : Serve(t) \/ \E kind \in mix : Arrive(t, kind)
       \/ \E m \in Managers : Generate(m) \/ Finish(m)

Spec == Init /\ [][Next]_vars

(* A thread that can go on does, and one that waits for a lock again and   *)
(* again released gets it in the end.                                      *)
FairSpec == Spec /\ \A t \in Threads : SF_vars(Serve(t) /\ UNCHANGED mix)

-----------------------------------------------------------------------------
(* Every variable has its type, and whoever holds a lock is still serving  *)
(* the request it took the lock for.                                       *)
TypeOK ==
    /\ holder \in [Locks -> Threads \cup {None}]
    /\ request \in [Threads -> Kinds \cup {None}]
    /\ at \in [Threads -> 1 .. 12]
    /\ active \subseteq Managers
    /\ resident \in BOOLEAN
    /\ mix \in Mixes
    /\ \A l \in Locks : holder[l] # None => Serving(holder[l])

(* The server serializes live validation, chat, and evolution: whatever    *)
(* requests race, at most one of them has work in progress.                *)
OneComputeMode == Cardinality(active) <= 1

(* What server.py's compute lock is for, with locks that are given back. *)
OwnerSound == TypeOK /\ OneComputeMode

(* The validation child never shares the device with a resident chat       *)
(* model, not even one that an earlier turn or evolution cycle has left.   *)
ValidationAlone == "job" \in active => ~resident

(* No request waits for another for ever: every one is answered, as long   *)
(* as no request to evolve meets a chat or a state poll.  These take the   *)
(* agent's and the evolution's conditions in opposite orders.              *)
Apart == "evolve" \notin mix \/ mix \cap {"chat", "state"} = {}
AnsweredApart == \A t \in Threads : Apart /\ Serving(t) ~> ~Serving(t)
=============================================================================
