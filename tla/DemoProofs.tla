----------------------------- MODULE DemoProofs -----------------------------
(***************************************************************************)
(* Proofs about the two protocols of cogni_demo: ComputeOwner, for any     *)
(* threads and any mixes of requests, and LaunchSession, for any launchers *)
(* and any patience.                                                       *)
(*                                                                         *)
(* The compute slot: between its first step and its start, a request that  *)
(* starts something holds the compute lock.  So nobody else starts anything*)
(* meanwhile, and a manager it has found idle is still idle when it        *)
(* decides.                                                                *)
(*                                                                         *)
(* The launchers: the document names a server, nothing is left behind, and *)
(* who reuses a session reuses that of the server that answered.           *)
(***************************************************************************)
EXTENDS ComputeOwner, LaunchSession, FiniteSetTheorems, TLAPS

Starters == {"validate", "chat", "evolve"}
StartAt(kind) == IF kind = "validate" THEN 10 ELSE 8

-----------------------------------------------------------------------------
(* The routes, as far as the proofs need them.                             *)

(* Every step of a route is an operation with a target of its kind. *)
LEMMA RouteSteps ==
    ASSUME NEW k \in Kinds
    PROVE  /\ Len(Route(k)) \in 1 .. 11
           /\ \A i \in 1 .. Len(Route(k)) :
                 /\ Route(k)[i][1] = "lock" => Route(k)[i][2] \in Locks
                 /\ Route(k)[i][1] \in {"idle", "start"} => Route(k)[i][2] \in Managers
                 /\ Route(k)[i][1] = "idle" => Route(k)[i] = Idle(Route(k)[i][2])
<1>1. CASE k = "validate"
      BY <1>1, SMT DEF Route, StartValidation, Lock, Idle, Start, Unload, Locks, Managers
<1>2. CASE k = "chat"
      BY <1>2, SMT DEF Route, StartAgentTurn, AgentState, Lock, Idle, Start, Leave, Locks,
                       Managers
<1>3. CASE k = "evolve"
      BY <1>3, SMT DEF Route, StartEvolution, Lock, Idle, Start, Locks, Managers
<1>4. CASE k = "state"
      BY <1>4, SMT DEF Route, AgentState, Lock, Idle, Locks, Managers
<1> QED BY <1>1, <1>2, <1>3, <1>4 DEF Kinds

(* A request starts something at one step, after it has found all managers *)
(* idle, with no release in between; and it takes the compute lock first.  *)
LEMMA RouteOrder ==
    ASSUME NEW k \in Kinds, NEW i \in 1 .. Len(Route(k))
    PROVE  /\ Route(k)[i][1] = "start" => k \in Starters /\ i = StartAt(k)
           /\ Route(k)[i][1] = "leave" => i > StartAt(k)
           /\ Route(k)[i] = <<"start", "job">> => k = "validate"
           /\ Route(k)[i][1] = "unload" => k = "validate" /\ i = 5
           /\ k = "validate" /\ i = 5 => Route(k)[i][1] = "unload"
<1>1. CASE k = "validate"
      BY <1>1, SMT DEF Route, StartValidation, Lock, Idle, Start, Unload, Starters, StartAt
<1>2. CASE k = "chat"
      BY <1>2, SMT DEF Route, StartAgentTurn, AgentState, Lock, Idle, Start, Leave, Starters,
                       StartAt
<1>3. CASE k = "evolve"
      BY <1>3, SMT DEF Route, StartEvolution, Lock, Idle, Start, Starters, StartAt
<1>4. CASE k = "state"
      BY <1>4, SMT DEF Route, AgentState, Lock
<1> QED BY <1>1, <1>2, <1>3, <1>4 DEF Kinds

(* A start names the manager that is started.                              *)
LEMMA StartSteps ==
    ASSUME NEW k \in Kinds, NEW i \in 1 .. Len(Route(k)), Route(k)[i][1] = "start"
    PROVE  Route(k)[i] = <<"start", Route(k)[i][2]>>
<1>1. CASE k = "validate"
      BY <1>1, SMT DEF Route, StartValidation, Lock, Idle, Start, Unload
<1>2. CASE k = "chat"
      BY <1>2, SMT DEF Route, StartAgentTurn, AgentState, Lock, Idle, Start, Leave
<1>3. CASE k = "evolve"
      BY <1>3, SMT DEF Route, StartEvolution, Lock, Idle, Start
<1>4. CASE k = "state"
      BY <1>4, SMT DEF Route, AgentState, Lock
<1> QED BY <1>1, <1>2, <1>3, <1>4 DEF Kinds

(* A request that starts something takes the compute lock first and looks  *)
(* at every manager before its start.                                      *)
LEMMA RouteSees ==
    ASSUME NEW k \in Starters
    PROVE  /\ StartAt(k) <= Len(Route(k))
           /\ Route(k)[1] = Lock("compute")
           /\ \A m \in Managers : \E i \in 1 .. StartAt(k) - 1 : Route(k)[i] = Idle(m)
<1>1. CASE k = "validate"
      <2>1. /\ Len(Route(k)) = 10 /\ Route(k)[1] = Lock("compute")
            /\ Route(k)[2] = Idle("agent") /\ Route(k)[3] = Idle("evolution")
            /\ Route(k)[7] = Idle("job")
            BY <1>1, SMT DEF Route, StartValidation, Lock, Idle, Start, Unload
      <2>2. StartAt(k) = 10
            BY <1>1 DEF StartAt
      <2>3. 2 \in 1 .. StartAt(k) - 1 /\ 3 \in 1 .. StartAt(k) - 1 /\ 7 \in 1 .. StartAt(k) - 1
            BY <2>2
      <2> QED BY <2>1, <2>2, <2>3 DEF Managers
<1>2. CASE k = "chat"
      <2>1. /\ Len(Route(k)) = 11 /\ Route(k)[1] = Lock("compute")
            /\ Route(k)[2] = Idle("job") /\ Route(k)[3] = Idle("evolution")
            /\ Route(k)[5] = Idle("agent")
            BY <1>2, SMT DEF Route, StartAgentTurn, AgentState, Lock, Idle, Start, Leave
      <2>2. StartAt(k) = 8
            BY <1>2 DEF StartAt
      <2>3. 2 \in 1 .. StartAt(k) - 1 /\ 3 \in 1 .. StartAt(k) - 1 /\ 5 \in 1 .. StartAt(k) - 1
            BY <2>2
      <2> QED BY <2>1, <2>2, <2>3 DEF Managers
<1>3. CASE k = "evolve"
      <2>1. /\ Len(Route(k)) = 8 /\ Route(k)[1] = Lock("compute")
            /\ Route(k)[2] = Idle("job") /\ Route(k)[3] = Idle("agent")
            /\ Route(k)[5] = Idle("evolution")
            BY <1>3, SMT DEF Route, StartEvolution, Lock, Idle, Start
      <2>2. StartAt(k) = 8
            BY <1>3 DEF StartAt
      <2>3. 2 \in 1 .. StartAt(k) - 1 /\ 3 \in 1 .. StartAt(k) - 1 /\ 5 \in 1 .. StartAt(k) - 1
            BY <2>2
      <2> QED BY <2>1, <2>2, <2>3 DEF Managers
<1> QED BY <1>1, <1>2, <1>3 DEF Starters

(* A validation has found the agent and the evolution idle before it       *)
(* unloads the model.                                                      *)
LEMMA ValidationSees ==
    Route("validate")[2] = Idle("agent") /\ Route("validate")[3] = Idle("evolution")
BY SMT DEF Route, StartValidation, Lock, Idle, Start, Unload

-----------------------------------------------------------------------------
(* The inductive invariant.                                                *)

(* A request between its first step and its start. *)
Deciding(t) ==
    Serving(t) /\ request[t] \in Starters /\ at[t] \in 2 .. StartAt(request[t])

(* The managers it has found idle. *)
Seen(t) == {m \in Managers : \E i \in 1 .. at[t] - 1 : Route(request[t])[i] = Idle(m)}

Places ==
    /\ holder \in [Locks -> Threads \cup {None}]
    /\ request \in [Threads -> Kinds \cup {None}]
    /\ at \in [Threads -> 1 .. 12]
    /\ active \subseteq Managers
    /\ resident \in BOOLEAN
    /\ mix \in Mixes
    /\ \A l \in Locks : holder[l] # None => Serving(holder[l])
    /\ \A t \in Threads : ~Serving(t) => at[t] = 1

(* It holds the compute lock, what it has seen still holds, and a          *)
(* validation has unloaded the model.                                      *)
Entitled(t) ==
    /\ holder["compute"] = t
    /\ Seen(t) \cap active = {}
    /\ request[t] = "validate" /\ at[t] > 5 => ~resident

Decisions == \A t \in Threads : Deciding(t) => Entitled(t)

AtMostOne == \A m, n \in active : m = n

OwnerInv == Places /\ Decisions /\ AtMostOne /\ ValidationAlone

-----------------------------------------------------------------------------
(* A server that has just started serves nobody.                           *)
LEMMA InitialOwner == Init => OwnerInv
<1> SUFFICES ASSUME Init PROVE OwnerInv
    OBVIOUS
<1>1. Places
      <2>1. /\ holder \in [Locks -> Threads \cup {None}]
            /\ request \in [Threads -> Kinds \cup {None}]
            /\ at \in [Threads -> 1 .. 12]
            BY DEF Init
      <2>2. active \subseteq Managers /\ resident \in BOOLEAN /\ mix \in Mixes
            BY DEF Init
      <2>3. \A l \in Locks : holder[l] # None => Serving(holder[l])
            BY DEF Init
      <2>4. \A t \in Threads : ~Serving(t) => at[t] = 1
            BY DEF Init
      <2> QED BY <2>1, <2>2, <2>3, <2>4 DEF Places
<1>2. Decisions
      BY OwnerAssumption DEF Init, Decisions, Deciding, Serving
<1> QED BY <1>1, <1>2 DEF Init, AtMostOne, ValidationAlone, OwnerInv

(* Two requests never decide at once. *)
LEMMA OneDecides ==
    ASSUME Decisions, NEW t \in Threads, NEW u \in Threads, Deciding(t), Deciding(u)
    PROVE  t = u
BY DEF Decisions, Entitled

(* A thread at a step of its route: what the step is. *)
LEMMA AtStep ==
    ASSUME Places, NEW t \in Threads, NEW op, Reached(t, op)
    PROVE  /\ request[t] \in Kinds
           /\ at[t] \in 1 .. Len(Route(request[t])) /\ at[t] \in 1 .. 11
           /\ Step(t) = Route(request[t])[at[t]] /\ Step(t)[1] = op
           /\ op = "lock" => Target(t) \in Locks
           /\ op \in {"idle", "start"} => Target(t) \in Managers
           /\ op = "idle" => Step(t) = Idle(Target(t))
<1>1. /\ request[t] \in Kinds /\ at[t] <= Len(Route(request[t])) /\ Step(t)[1] = op
      BY DEF Reached, Places, Serving
<1>2. /\ Len(Route(request[t])) \in 1 .. 11 /\ at[t] \in 1 .. 12
      BY <1>1, RouteSteps DEF Places
<1>3. at[t] \in 1 .. Len(Route(request[t])) /\ at[t] \in 1 .. 11
      <2>1. \A n \in 1 .. 11, i \in 1 .. 12 : i <= n => i \in 1 .. n /\ i \in 1 .. 11
            OBVIOUS
      <2> QED BY <2>1, <1>1, <1>2
<1>4. LET s == Route(request[t])[at[t]]
      IN  /\ s[1] = "lock" => s[2] \in Locks
          /\ s[1] \in {"idle", "start"} => s[2] \in Managers
          /\ s[1] = "idle" => s = Idle(s[2])
      BY <1>1, <1>3, RouteSteps
<1>5. Step(t) = Route(request[t])[at[t]] /\ Target(t) = Step(t)[2]
      BY DEF Step, Target
<1> QED BY <1>1, <1>3, <1>4, <1>5

(* One more step of a route sees what it looked at, if it looked. *)
LEMMA SeenGrows ==
    ASSUME Places, NEW t \in Threads, NEW op, Reached(t, op), Advance(t),
           request' = request
    PROVE  /\ at'[t] = at[t] + 1
           /\ \A u \in Threads \ {t} : at'[u] = at[u]
           /\ op # "idle" => Seen(t)' \subseteq Seen(t)
           /\ op = "idle" => Seen(t)' \subseteq Seen(t) \cup {Target(t)}
<1>1. /\ at'[t] = at[t] + 1 /\ \A u \in Threads \ {t} : at'[u] = at[u]
      BY DEF Advance, Places
<1>2. /\ at[t] \in 1 .. 11
      /\ Step(t) = Route(request[t])[at[t]] /\ Step(t)[1] = op
      BY AtStep
<1>3. ASSUME NEW m \in Seen(t)' PROVE m \in Seen(t) \/ Step(t) = Idle(m)
      <2>1. m \in Managers /\ \E i \in 1 .. at[t] : Route(request[t])[i] = Idle(m)
            BY <1>1, <1>2 DEF Seen
      <2>2. PICK i \in 1 .. at[t] : Route(request[t])[i] = Idle(m)
            BY <2>1
      <2>3. CASE i = at[t]
            BY <2>2, <2>3, <1>2
      <2>4. CASE i # at[t]
            <3>1. i \in 1 .. at[t] - 1
                  BY <2>4, <1>2
            <3> QED BY <3>1, <2>1, <2>2 DEF Seen
      <2> QED BY <2>3, <2>4
<1>4. ASSUME NEW m \in Managers, Step(t) = Idle(m) PROVE op = "idle" /\ m = Target(t)
      BY <1>2, <1>4 DEF Idle, Target
<1>5. Seen(t)' \subseteq Managers
      BY DEF Seen
<1> QED BY <1>1, <1>3, <1>4, <1>5

(* A request that starts something has found every manager idle, holds     *)
(* the compute lock, and if it is a validation the model is not loaded.    *)
LEMMA StartsAlone ==
    ASSUME OwnerInv, NEW t \in Threads, Reached(t, "start")
    PROVE  /\ Deciding(t) /\ active = {}
           /\ at[t] = StartAt(request[t])
           /\ Target(t) = "job" => ~resident
<1>1. /\ request[t] \in Kinds /\ at[t] \in 1 .. Len(Route(request[t]))
      /\ Step(t) = Route(request[t])[at[t]] /\ Step(t)[1] = "start"
      BY AtStep DEF OwnerInv
<1>2. request[t] \in Starters /\ at[t] = StartAt(request[t])
      BY <1>1, RouteOrder
<1>3. Deciding(t)
      BY <1>2 DEF Deciding, StartAt, Reached
<1>4. Managers \subseteq Seen(t)
      BY <1>2, RouteSees DEF Seen
<1>5. active = {}
      BY <1>3, <1>4 DEF OwnerInv, Places, Decisions, Entitled
<1>6. ASSUME Target(t) = "job" PROVE ~resident
      <2>1. Step(t) = <<"start", "job">>
            BY <1>1, <1>6, StartSteps DEF Target
      <2>2. request[t] = "validate"
            BY <2>1, <1>1, RouteOrder
      <2>3. at[t] > 5
            BY <2>2, <1>2 DEF StartAt
      <2> QED BY <2>2, <2>3, <1>3 DEF OwnerInv, Decisions, Entitled
<1> QED BY <1>2, <1>3, <1>5, <1>6

-----------------------------------------------------------------------------
(* Preservation.                                                           *)

(* A thread that moves on and decides afterwards did so before, or has     *)
(* just taken the compute lock.                                            *)
LEMMA StillDecides ==
    ASSUME Places, NEW t \in Threads, NEW op, Reached(t, op), Advance(t),
           request' = request, Deciding(t)'
    PROVE  \/ Deciding(t) /\ at[t] < StartAt(request[t])
           \/ at[t] = 1 /\ op = "lock" /\ Target(t) = "compute"
<1>1. /\ at'[t] = at[t] + 1 /\ at[t] \in 1 .. 11
      /\ Step(t) = Route(request[t])[at[t]] /\ Step(t)[1] = op
      BY AtStep, SeenGrows
<1>2. Serving(t) /\ request[t] \in Starters /\ at'[t] \in 2 .. StartAt(request[t])
      BY DEF Deciding, Serving
<1>3. CASE at[t] = 1
      BY <1>1, <1>2, <1>3, RouteSees DEF Lock, Target
<1>4. CASE at[t] # 1
      <2>1. StartAt(request[t]) \in Nat
            BY DEF StartAt
      <2>2. at[t] \in 2 .. StartAt(request[t]) /\ at[t] < StartAt(request[t])
            BY <1>1, <1>2, <1>4, <2>1
      <2> QED BY <1>2, <2>2 DEF Deciding
<1> QED BY <1>3, <1>4

(* A step that leaves a deciding thread its lock and its place, starts     *)
(* nothing and loads nothing leaves it entitled.                           *)
LEMMA OthersStay ==
    ASSUME Decisions, NEW u \in Threads, Deciding(u)',
           request'[u] = request[u], at'[u] = at[u],
           holder["compute"] = u => holder'["compute"] = u,
           active' \subseteq active, resident' => resident
    PROVE  Entitled(u)'
<1>1. Deciding(u) /\ Seen(u)' = Seen(u)
      BY DEF Deciding, Serving, Seen
<1> QED BY <1>1 DEF Decisions, Entitled

(* A request that arrives decides nothing yet.                             *)
LEMMA ArriveKeeps ==
    ASSUME OwnerInv, NEW t \in Threads, NEW kind \in mix, Arrive(t, kind), UNCHANGED mix
    PROVE  OwnerInv'
<1> USE DEF Arrive
<1>1. at[t] = 1 /\ kind \in Kinds
      BY OwnerAssumption DEF OwnerInv, Places
<1>2. \A u \in Threads \ {t} : request'[u] = request[u]
      BY DEF OwnerInv, Places
<1>3. Places'
      <2>1. \A l \in Locks : holder[l] # None => holder[l] \in Threads \ {t}
            BY DEF OwnerInv, Places
      <2>2. \A l \in Locks : holder'[l] # None => Serving(holder[l])'
            BY <1>2, <2>1 DEF OwnerInv, Places, Serving
      <2>3. \A u \in Threads : ~Serving(u)' => at'[u] = 1
            BY <1>1, <1>2 DEF OwnerInv, Places, Serving
      <2>4. request' \in [Threads -> Kinds \cup {None}]
            BY <1>1 DEF OwnerInv, Places
      <2> QED BY <2>2, <2>3, <2>4 DEF OwnerInv, Places, Serving
<1>4. ASSUME NEW u \in Threads, Deciding(u)' PROVE Entitled(u)'
      <2>1. u # t
            BY <1>1, <1>4 DEF Deciding
      <2> QED BY <1>2, <1>4, <2>1, OthersStay DEF OwnerInv
<1> QED BY <1>3, <1>4 DEF OwnerInv, Decisions, AtMostOne, ValidationAlone

(* Places is kept by a thread that moves on. *)
LEMMA PlacesAdvance ==
    ASSUME Places, NEW t \in Threads, NEW op, Reached(t, op), Advance(t),
           request' = request, UNCHANGED mix,
           holder' \in [Locks -> Threads \cup {None}],
           \A l \in Locks : holder'[l] \in {None, t, holder[l]},
           active' \subseteq Managers, resident' \in BOOLEAN
    PROVE  Places'
<1>1. at'[t] \in 1 .. 12 /\ \A u \in Threads \ {t} : at'[u] = at[u]
      <2>1. \A i \in 1 .. 11 : i + 1 \in 1 .. 12
            OBVIOUS
      <2>2. at[t] \in 1 .. 11
            BY AtStep
      <2>3. at'[t] = at[t] + 1 /\ \A u \in Threads \ {t} : at'[u] = at[u]
            BY SeenGrows
      <2> QED BY <2>1, <2>2, <2>3
<1>2. at' \in [Threads -> 1 .. 12]
      BY <1>1 DEF Places, Advance
<1>3. Serving(t)
      BY DEF Reached
<1>4. \A l \in Locks : holder'[l] # None => Serving(holder'[l])
      BY <1>3 DEF Places
<1>5. \A u \in Threads : ~Serving(u) => at'[u] = 1
      BY <1>1, <1>3 DEF Places
<1> QED BY <1>2, <1>4, <1>5 DEF Places, Serving

(* A lock is taken from nobody, and the compute lock entitles to nothing   *)
(* but to look.                                                            *)
LEMMA AcquireKeeps ==
    ASSUME OwnerInv, NEW t \in Threads, Acquire(t), UNCHANGED mix
    PROVE  OwnerInv'
<1> USE DEF Acquire
<1>1. Target(t) \in Locks /\ Places
      BY AtStep DEF OwnerInv
<1>2. /\ holder' \in [Locks -> Threads \cup {None}]
      /\ holder'[Target(t)] = t
      /\ \A l \in Locks \ {Target(t)} : holder'[l] = holder[l]
      BY <1>1 DEF Places
<1>3. Places'
      <2>1. \A l \in Locks : holder'[l] \in {None, t, holder[l]}
            BY <1>2
      <2>2. active' \subseteq Managers /\ resident' \in BOOLEAN
            BY <1>1 DEF Places
      <2> QED BY <1>1, <1>2, <2>1, <2>2, PlacesAdvance
<1>4. "compute" \in Locks
      BY DEF Locks
<1>5. ASSUME NEW u \in Threads \ {t}, Deciding(u)' PROVE Entitled(u)'
      <2>1. at'[u] = at[u]
            BY <1>1, SeenGrows
      <2>2. holder["compute"] = u => Target(t) # "compute"
            BY OwnerAssumption DEF Free
      <2>3. holder["compute"] = u => holder'["compute"] = u
            BY <1>2, <1>4, <2>2
      <2> QED BY <1>5, <2>1, <2>3, OthersStay DEF OwnerInv
<1>6. ASSUME Deciding(t)' PROVE Entitled(t)'
      <2>1. at'[t] = at[t] + 1 /\ Seen(t)' \subseteq Seen(t)
            BY <1>1, SeenGrows
      <2>2. CASE Deciding(t) /\ at[t] < StartAt(request[t])
            <3>1. Entitled(t)
                  BY <2>2 DEF OwnerInv, Decisions
            <3>2. holder'["compute"] = t
                  BY <3>1, <1>2, <1>4 DEF Entitled
            <3>3. request[t] = "validate" => at[t] # 5
                  BY <1>1, AtStep, RouteOrder
            <3>4. at'[t] > 5 /\ at[t] # 5 => at[t] > 5
                  <4>1. at[t] \in 1 .. 11
                        BY <1>1, AtStep
                  <4> QED BY <2>1, <4>1
            <3> QED BY <2>1, <3>1, <3>2, <3>3, <3>4 DEF Entitled
      <2>3. CASE at[t] = 1 /\ Target(t) = "compute"
            <3>1. Seen(t)' = {} /\ ~(at'[t] > 5)
                  BY <2>1, <2>3 DEF Seen
            <3> QED BY <2>3, <3>1, <1>2 DEF Entitled
      <2> QED BY <1>1, <1>6, <2>2, <2>3, StillDecides
<1> QED BY <1>3, <1>5, <1>6 DEF OwnerInv, Decisions, AtMostOne, ValidationAlone

(* A manager found idle is idle.                                           *)
LEMMA LookIdleKeeps ==
    ASSUME OwnerInv, NEW t \in Threads, LookIdle(t), UNCHANGED mix
    PROVE  OwnerInv'
<1> USE DEF LookIdle
<1>1. Places'
      BY PlacesAdvance DEF OwnerInv, Places
<1>2. ASSUME NEW u \in Threads \ {t}, Deciding(u)' PROVE Entitled(u)'
      <2>1. at'[u] = at[u]
            BY SeenGrows DEF OwnerInv
      <2> QED BY <1>2, <2>1, OthersStay DEF OwnerInv
<1>3. ASSUME Deciding(t)' PROVE Entitled(t)'
      <2>1. at'[t] = at[t] + 1 /\ Seen(t)' \subseteq Seen(t) \cup {Target(t)}
            BY SeenGrows DEF OwnerInv
      <2>2. Deciding(t)
            BY <1>3, StillDecides DEF OwnerInv
      <2>3. Entitled(t)
            BY <2>2 DEF OwnerInv, Decisions
      <2>4. request[t] = "validate" => at[t] # 5
            BY AtStep, RouteOrder DEF OwnerInv
      <2>5. at'[t] > 5 /\ at[t] # 5 => at[t] > 5
            BY <2>1, AtStep DEF OwnerInv
      <2> QED BY <2>1, <2>3, <2>4, <2>5 DEF Entitled
<1> QED BY <1>1, <1>2, <1>3 DEF OwnerInv, Decisions, AtMostOne, ValidationAlone

(* stop_model is what a validation relies on after its fifth step.         *)
LEMMA StopModelKeeps ==
    ASSUME OwnerInv, NEW t \in Threads, StopModel(t), UNCHANGED mix
    PROVE  OwnerInv'
<1> USE DEF StopModel
<1>1. Places'
      BY PlacesAdvance DEF OwnerInv, Places
<1>2. ASSUME NEW u \in Threads \ {t}, Deciding(u)' PROVE Entitled(u)'
      <2>1. at'[u] = at[u]
            BY SeenGrows DEF OwnerInv
      <2> QED BY <1>2, <2>1, OthersStay DEF OwnerInv
<1>3. ASSUME Deciding(t)' PROVE Entitled(t)'
      <2>1. Seen(t)' \subseteq Seen(t)
            BY SeenGrows DEF OwnerInv
      <2>2. Deciding(t)
            BY <1>3, StillDecides DEF OwnerInv
      <2> QED BY <2>1, <2>2 DEF OwnerInv, Decisions, Entitled
<1> QED BY <1>1, <1>2, <1>3 DEF OwnerInv, Decisions, AtMostOne, ValidationAlone

(* A start happens when nothing is active, and ends the decision.          *)
LEMMA BeginKeeps ==
    ASSUME OwnerInv, NEW t \in Threads, Begin(t), UNCHANGED mix
    PROVE  OwnerInv'
<1> USE DEF Begin
<1>1. /\ Deciding(t) /\ active = {} /\ at[t] = StartAt(request[t])
      /\ Target(t) = "job" => ~resident
      BY StartsAlone
<1>2. active' = {Target(t)} /\ Target(t) \in Managers
      BY <1>1, AtStep DEF OwnerInv
<1>3. Places'
      BY <1>2, PlacesAdvance DEF OwnerInv, Places
<1>4. ASSUME NEW u \in Threads PROVE ~Deciding(u)'
      <2>1. CASE u = t
            <3>1. at'[t] = StartAt(request[t]) + 1 /\ StartAt(request[t]) \in Nat
                  BY <1>1, SeenGrows DEF OwnerInv, StartAt
            <3> QED BY <2>1, <3>1 DEF Deciding
      <2>2. CASE u # t
            <3>1. at'[u] = at[u]
                  BY <2>2, SeenGrows DEF OwnerInv
            <3>2. Deciding(u)' => Deciding(u)
                  BY <3>1 DEF Deciding, Serving
            <3> QED BY <1>1, <2>2, <3>2, OneDecides DEF OwnerInv
      <2> QED BY <2>1, <2>2
<1>5. AtMostOne' /\ ValidationAlone'
      BY <1>1, <1>2 DEF AtMostOne, ValidationAlone
<1> QED BY <1>3, <1>4, <1>5 DEF OwnerInv, Decisions

(* The with blocks are left only after the start.                          *)
LEMMA ReleaseKeeps ==
    ASSUME OwnerInv, NEW t \in Threads, Release(t), UNCHANGED mix
    PROVE  OwnerInv'
<1> USE DEF Release
<1>1. Places'
      <2>1. /\ holder' \in [Locks -> Threads \cup {None}]
            /\ \A l \in Locks : holder'[l] \in {None, t, holder[l]}
            BY DEF OwnerInv, Places, Without
      <2> QED BY <2>1, PlacesAdvance DEF OwnerInv, Places
<1>2. ASSUME NEW u \in Threads \ {t}, Deciding(u)' PROVE Entitled(u)'
      <2>1. at'[u] = at[u]
            BY SeenGrows DEF OwnerInv
      <2>2. holder["compute"] = u => holder'["compute"] = u
            BY DEF Without, Held, Locks
      <2> QED BY <1>2, <2>1, <2>2, OthersStay DEF OwnerInv
<1>3. ~Deciding(t)'
      <2>1. at[t] > StartAt(request[t]) /\ at[t] \in 1 .. 11
            BY AtStep, RouteOrder DEF OwnerInv
      <2>2. at'[t] = at[t] + 1 /\ StartAt(request[t]) \in Nat
            BY SeenGrows DEF OwnerInv, StartAt
      <2> QED BY <2>1, <2>2 DEF Deciding
<1> QED BY <1>1, <1>2, <1>3 DEF OwnerInv, Decisions, AtMostOne, ValidationAlone

(* A busy manager ends a request as the end of its route does. *)
LEMMA AnswerKeeps ==
    ASSUME OwnerInv, NEW t \in Threads, Answer(t), UNCHANGED <<active, resident, mix>>
    PROVE  OwnerInv'
<1> USE DEF Answer
<1>1. \A u \in Threads \ {t} : request'[u] = request[u] /\ at'[u] = at[u]
      BY DEF OwnerInv, Places
<1>2. /\ holder' \in [Locks -> Threads \cup {None}]
      /\ \A l \in Locks : holder'[l] # None => holder'[l] = holder[l] /\ holder[l] # t
      BY DEF OwnerInv, Places, Without, Held
<1>3. Places'
      <2>1. request' \in [Threads -> Kinds \cup {None}] /\ at' \in [Threads -> 1 .. 12]
            BY DEF OwnerInv, Places
      <2>2. ASSUME NEW l \in Locks, holder'[l] # None PROVE request'[holder'[l]] # None
            <3>1. /\ holder'[l] = holder[l] /\ holder[l] \in Threads \ {t}
                  /\ request[holder[l]] # None
                  BY <1>2, <2>2 DEF OwnerInv, Places, Serving
            <3> QED BY <3>1, <1>1
      <2>3. \A u \in Threads : ~Serving(u)' => at'[u] = 1
            BY <1>1 DEF OwnerInv, Places, Serving
      <2> QED BY <1>2, <2>1, <2>2, <2>3 DEF OwnerInv, Places, Serving
<1>4. ASSUME NEW u \in Threads, Deciding(u)' PROVE Entitled(u)'
      <2>1. u # t
            BY <1>4 DEF Deciding, OwnerInv, Places
      <2>2. holder["compute"] = u => holder'["compute"] = u
            BY <2>1 DEF Without, Held, Locks
      <2> QED BY <1>1, <1>4, <2>1, <2>2, OthersStay DEF OwnerInv
<1> QED BY <1>3, <1>4 DEF OwnerInv, Decisions, AtMostOne, ValidationAlone

(* A turn or a cycle that loads the model is active, so no validation is   *)
(* past its looks.                                                         *)
LEMMA GenerateKeeps ==
    ASSUME OwnerInv, NEW m \in Managers, Generate(m), UNCHANGED mix
    PROVE  OwnerInv'
<1> USE DEF Generate
<1>1. Places'
      BY DEF OwnerInv, Places, Serving
<1>2. ASSUME NEW u \in Threads, Deciding(u)' PROVE Entitled(u)'
      <2>1. Deciding(u) /\ Entitled(u) /\ Seen(u)' = Seen(u)
            BY <1>2 DEF Deciding, Serving, Seen, OwnerInv, Decisions
      <2>2. ASSUME request[u] = "validate", at[u] > 5 PROVE FALSE
            <3>1. 2 \in 1 .. at[u] - 1 /\ 3 \in 1 .. at[u] - 1
                  BY <2>2 DEF OwnerInv, Places
            <3>2. m \in Seen(u)
                  BY <2>2, <3>1, ValidationSees DEF Seen
            <3> QED BY <2>1, <3>2 DEF Entitled
      <2> QED BY <2>1, <2>2 DEF Entitled
<1>3. "job" \notin active
      BY DEF OwnerInv, AtMostOne
<1> QED BY <1>1, <1>2, <1>3 DEF OwnerInv, Decisions, AtMostOne, ValidationAlone

(* A manager that becomes idle contradicts nothing that was seen.          *)
LEMMA FinishKeeps ==
    ASSUME OwnerInv, NEW m \in Managers, Finish(m), UNCHANGED mix
    PROVE  OwnerInv'
<1> USE DEF Finish
<1>1. Places'
      BY DEF OwnerInv, Places, Serving
<1>2. ASSUME NEW u \in Threads, Deciding(u)' PROVE Entitled(u)'
      BY <1>2, OthersStay DEF OwnerInv
<1> QED BY <1>1, <1>2 DEF OwnerInv, Decisions, AtMostOne, ValidationAlone

-----------------------------------------------------------------------------
(* What holds of every behaviour.                                          *)

(* No step of any request, turn, job or cycle breaks the inductive         *)
(* invariant.                                                              *)
THEOREM OwnerInductive == Spec => []OwnerInv
<1>1. Init => OwnerInv
      BY InitialOwner
<1>2. OwnerInv /\ [Next]_vars => OwnerInv'
      <2> SUFFICES ASSUME OwnerInv, [Next]_vars PROVE OwnerInv'
          OBVIOUS
      <2>1. CASE Next
            <3>1. UNCHANGED mix
                  BY <2>1 DEF Next
            <3>2. ASSUME NEW t \in Threads, Serve(t) PROVE OwnerInv'
                  BY <3>1, <3>2, AcquireKeeps, LookIdleKeeps, StopModelKeeps, BeginKeeps,
                     ReleaseKeeps, AnswerKeeps DEF Serve, LookBusy, Done
            <3>3. ASSUME NEW t \in Threads, NEW kind \in mix, Arrive(t, kind)
                  PROVE OwnerInv'
                  BY <3>1, <3>3, ArriveKeeps
            <3>4. ASSUME NEW m \in Managers, Generate(m) \/ Finish(m) PROVE OwnerInv'
                  BY <3>1, <3>4, GenerateKeeps, FinishKeeps
            <3> QED BY <2>1, <3>2, <3>3, <3>4 DEF Next
      <2>2. CASE UNCHANGED vars
            <3>1. Places'
                  BY <2>2 DEF vars, OwnerInv, Places, Serving
            <3>2. ASSUME NEW u \in Threads, Deciding(u)' PROVE Entitled(u)'
                  BY <2>2, <3>2, OthersStay DEF vars, OwnerInv
            <3>3. AtMostOne' /\ ValidationAlone'
                  BY <2>2 DEF vars, OwnerInv, AtMostOne, ValidationAlone
            <3> QED BY <3>1, <3>2, <3>3 DEF OwnerInv, Decisions
      <2> QED BY <2>1, <2>2
<1> QED BY <1>1, <1>2, PTL DEF Spec

(* The variables have their types, and whoever holds a lock is serving the *)
(* request it took the lock for.                                           *)
THEOREM OwnerTypes == Spec => []TypeOK
<1>1. OwnerInv => TypeOK
      BY DEF OwnerInv, Places, TypeOK
<1> QED BY <1>1, OwnerInductive, PTL

(* Validation, chat and evolution are serialized, however many requests    *)
(* race: at most one manager has work in progress.                         *)
THEOREM OneModeAtATime == Spec => []OneComputeMode
<1>1. OwnerInv => OneComputeMode
      <2> SUFFICES ASSUME OwnerInv PROVE OneComputeMode
          OBVIOUS
      <2>1. CASE active = {}
            BY <2>1, FS_EmptySet DEF OneComputeMode
      <2>2. CASE active # {}
            <3>1. PICK m \in active : TRUE
                  BY <2>2
            <3>2. active = {m}
                  BY <3>1 DEF OwnerInv, AtMostOne
            <3>3. Cardinality({m}) = 1
                  BY FS_Singleton
            <3> QED BY <3>2, <3>3 DEF OneComputeMode
      <2> QED BY <2>1, <2>2
<1> QED BY <1>1, OwnerInductive, PTL

(* Both at once: every lock is held for the request it was taken for, and  *)
(* one mode of compute at most has work in progress.                       *)
THEOREM OwnerIsSound == Spec => []OwnerSound
<1>1. TypeOK /\ OneComputeMode => OwnerSound
      BY DEF OwnerSound
<1> QED BY <1>1, OwnerTypes, OneModeAtATime, PTL

(* No chat model is resident while the validation child runs.              *)
THEOREM ValidationRunsAlone == Spec => []ValidationAlone
<1>1. OwnerInv => ValidationAlone
      BY DEF OwnerInv
<1> QED BY <1>1, OwnerInductive, PTL

-----------------------------------------------------------------------------
(* Launchers and the session document.                                     *)

(* What the three properties rest on: the port is held by exactly those    *)
(* that are past their bind and not through with their close; from the     *)
(* publication to the end of serving the document is the server's own, or  *)
(* gone; nobody pings without having read a document; and components run   *)
(* from their build to the end of the process at the latest.               *)
PortIsHeld == \A l \in Launchers : pc[l] \in Listening <=> listener = l
DocumentIsOwn ==
    \A l \in Launchers : pc[l] \in {"restrict", "ready", "serve"} => document \in {l, Absent}
PingsWhatItRead ==
    \A l \in Launchers : pc[l] \in {"ping", "again"} => found[l] # Absent
Built == {"bind", "wait", "again", "check", "remove"} \cup Listening
ControlsAreBuilt == \A l \in controls : pc[l] \in Built
LaunchInv ==
    LaunchSound /\ PortIsHeld /\ DocumentIsOwn /\ PingsWhatItRead /\ ControlsAreBuilt

Points == Listening \cup Ended \cup
              {"off", "ping", "clear", "build", "bind", "wait", "again", "check", "remove"}

LEMMA InitHolds == LaunchInit => LaunchInv
  BY LaunchAssumption
  DEF LaunchInit, LaunchInv, LaunchSound, LaunchTypeOK, NamesAServer, NothingLeft, PortIsHeld,
      DocumentIsOwn, PingsWhatItRead, ControlsAreBuilt, Listening, Ended

(* Only launcher l goes anywhere in this step. *)
Moves(l) == pc' = [pc EXCEPT ![l] = pc'[l]]

(* A step of one launcher keeps the types when it goes to a known point    *)
(* and writes known values: the frame of all the steps below.              *)
LEMMA TypesKept ==
    ASSUME LaunchTypeOK, NEW l \in Launchers, Moves(l), pc'[l] \in Points,
           document' \in Launchers \cup {Absent, Old, Malformed},
           listener' \in Launchers \cup {Absent},
           found' \in [Launchers -> Launchers \cup {Absent, Old}],
           tries' \in [Launchers -> 0 .. Retries],
           controls' \subseteq Launchers,
           seen' \in [Launchers -> Launchers \cup {Absent}],
           punctual' = punctual
    PROVE  LaunchTypeOK' /\ \A m \in Launchers \ {l} : pc'[m] = pc[m]
  BY DEF LaunchTypeOK, Moves, Points

(* A launcher looks around: it goes from one point before its bind to      *)
(* another, or ends, and touches neither the port nor the document.        *)
Before == {"off", "ping", "clear", "build", "bind", "wait", "again"}

LEMMA LooksAround ==
    ASSUME LaunchInv, LaunchTypeOK', NEW l \in Launchers,
           pc[l] \in Before, pc'[l] \in Before \cup {"reused", "failed"},
           \A m \in Launchers \ {l} : pc'[m] = pc[m] /\ found'[m] = found[m],
           controls' \subseteq controls \cup {l},
           l \in controls' => pc'[l] \in Built,
           pc'[l] \in {"ping", "again"} => found'[l] # Absent,
           UNCHANGED <<document, listener>>
    PROVE  LaunchInv'
<1>1. NamesAServer'
  BY DEF LaunchInv, LaunchSound, PortIsHeld, NamesAServer, Before, Listening, Ended
<1>2. NothingLeft'
  BY DEF LaunchInv, LaunchSound, NothingLeft, LaunchTypeOK, Built, Before, Listening, Ended
<1>3. PortIsHeld'
  BY DEF LaunchInv, PortIsHeld, Before, Listening
<1>4. DocumentIsOwn'
  BY DEF LaunchInv, DocumentIsOwn, Before
<1>5. PingsWhatItRead'
  BY DEF LaunchInv, PingsWhatItRead, Before
<1>6. ControlsAreBuilt'
  BY DEF LaunchInv, LaunchSound, ControlsAreBuilt, LaunchTypeOK
<1>7. QED
  BY <1>1, <1>2, <1>3, <1>4, <1>5, <1>6 DEF LaunchInv, LaunchSound

-----------------------------------------------------------------------------
(* The points a launcher goes through before it has the port, from its     *)
(* first look at the document to the last.                                 *)
LEMMA LookingSteps ==
    ASSUME LaunchInv, NEW l \in Launchers,
           \/ Launch(l) \/ Ping(l) \/ Build(l) \/ BindRefused(l) \/ BindFails(l)
           \/ LookAgain(l) \/ PingAgain(l) \/ GiveUp(l)
    PROVE  LaunchInv'
<1>0. LaunchTypeOK /\ (l \in controls => pc[l] \in Built)
  BY DEF LaunchInv, LaunchSound, ControlsAreBuilt
<1> DEFINE Goes == /\ Moves(l) /\ pc'[l] \in Before \cup {"reused", "failed"}
                   /\ controls' \subseteq controls \cup {l}
                   /\ l \in controls' => pc'[l] \in Built
                   /\ pc'[l] \in {"ping", "again"} => found'[l] # Absent
<1>1. Goes
  <2> USE <1>0 DEF Moves, Goto, LaunchTypeOK, Before, Built, Listening
  <2>1. CASE Launch(l)
    BY <2>1 DEF Launch, Read
  <2>2. CASE Ping(l)
    BY <2>2 DEF Ping
  <2>3. CASE Build(l)
    BY <2>3 DEF Build
  <2>4. CASE BindRefused(l)
    BY <2>4 DEF BindRefused
  <2>5. CASE BindFails(l)
    BY <2>5 DEF BindFails
  <2>6. CASE LookAgain(l)
    BY <2>6 DEF LookAgain, Read
  <2>7. CASE PingAgain(l)
    BY <2>7 DEF PingAgain
  <2>8. CASE GiveUp(l)
    BY <2>8 DEF GiveUp
  <2>9. QED
    BY <2>1, <2>2, <2>3, <2>4, <2>5, <2>6, <2>7, <2>8
<1>2. /\ pc[l] \in Before
      /\ \A m \in Launchers \ {l} : found'[m] = found[m]
      /\ UNCHANGED <<document, listener, punctual>>
  BY <1>0 DEF Launch, Ping, Build, BindRefused, BindFails, LookAgain, PingAgain, GiveUp,
              Read, LaunchTypeOK, Before
<1>3. /\ found' \in [Launchers -> Launchers \cup {Absent, Old}]
      /\ seen' \in [Launchers -> Launchers \cup {Absent}]
  <2>1. Metadata \in Launchers \cup {Absent, Old}
    BY <1>0 DEF Metadata, LaunchTypeOK
  <2>2. Answerer \in Launchers \cup {Absent}
    BY <1>0 DEF Answerer, LaunchTypeOK
  <2>3. QED
    BY <2>1, <2>2, <1>0
    DEF Launch, Ping, Build, BindRefused, BindFails, LookAgain, PingAgain, GiveUp,
        Read, Pings, LaunchTypeOK
<1>4. tries' \in [Launchers -> 0 .. Retries]
  BY <1>0, LaunchAssumption
  DEF Launch, Ping, Build, BindRefused, BindFails, LookAgain, PingAgain, GiveUp, LaunchTypeOK
<1>5. LaunchTypeOK' /\ \A m \in Launchers \ {l} : pc'[m] = pc[m]
  <2>1. pc'[l] \in Points /\ controls' \subseteq Launchers
    BY <1>0, <1>1 DEF Points, Before, Ended, LaunchTypeOK
  <2>2. document' \in Launchers \cup {Absent, Old, Malformed} /\ listener' \in Launchers \cup {Absent}
    BY <1>0, <1>2 DEF LaunchTypeOK
  <2>3. QED
    BY <2>1, <2>2, <1>0, <1>1, <1>2, <1>3, <1>4, TypesKept
<1>6. QED
  BY <1>1, <1>2, <1>5, LooksAround

-----------------------------------------------------------------------------
(* Whoever clears a document, holds the port or has held it: the port is   *)
(* taken when it is free and given back, the document becomes the          *)
(* server's own or goes.                                                   *)
LEMMA HoldsThePort ==
    ASSUME LaunchInv, LaunchTypeOK', NEW l \in Launchers,
           \A m \in Launchers \ {l} : pc'[m] = pc[m],
           \A m \in Launchers \ {l} : found'[m] = found[m],
           controls' \subseteq controls, l \in controls' => pc'[l] \in Built,
           pc'[l] \notin {"ping", "again"},
           IF pc'[l] \in Listening THEN listener \in {Absent, l} /\ listener' = l
           ELSE listener' = IF listener = l THEN Absent ELSE listener,
           \/ document' \in {document, Absent}
              /\ (pc'[l] \in {"restrict", "ready", "serve"} => document' \in {l, Absent})
           \/ document' = l /\ pc'[l] = "restrict",
           document' = l => pc'[l] \in Listening \cup {"check", "remove"} \cup (Ended \ {"reused"})
    PROVE  LaunchInv'
<1>0. Absent \notin Launchers
  BY LaunchAssumption
<1>1. NamesAServer'
  BY <1>0 DEF LaunchInv, LaunchSound, PortIsHeld, NamesAServer, Listening, Ended
<1>2. PortIsHeld'
  BY <1>0 DEF LaunchInv, PortIsHeld
<1>3. DocumentIsOwn'
  BY <1>0 DEF LaunchInv, PortIsHeld, DocumentIsOwn, Listening
<1>4. PingsWhatItRead'
  BY DEF LaunchInv, PingsWhatItRead
<1>5. ControlsAreBuilt'
  BY DEF LaunchInv, LaunchSound, ControlsAreBuilt, LaunchTypeOK
<1>6. NothingLeft'
  BY <1>5 DEF NothingLeft, ControlsAreBuilt, Built, Listening, Ended
<1>7. QED
  BY <1>1, <1>2, <1>3, <1>4, <1>5, <1>6 DEF LaunchInv, LaunchSound

(* The other points: the clearing, and from the bind to the end.           *)
LEMMA PortSteps ==
    ASSUME LaunchInv, NEW l \in Launchers,
           \/ Clear(l) \/ Bind(l) \/ Publish(l) \/ RestrictRights(l) \/ ServeForever(l) \/ End(l)
           \/ Close(l) \/ Check(l) \/ Remove(l) \/ Die(l)
    PROVE  LaunchInv'
<1>0. /\ LaunchTypeOK /\ Absent \notin Launchers
      /\ l \in controls => pc[l] \in Built
      /\ pc[l] \in Listening <=> listener = l
      /\ pc[l] \in {"restrict", "ready", "serve"} => document \in {l, Absent}
      /\ document = l => pc[l] \in Listening \cup {"check", "remove"} \cup (Ended \ {"reused"})
  BY LaunchAssumption
  DEF LaunchInv, LaunchSound, ControlsAreBuilt, PortIsHeld, DocumentIsOwn, NamesAServer
<1> DEFINE Holds == /\ Moves(l) /\ pc'[l] \in Points \ {"ping", "again"}
                    /\ controls' \subseteq controls
                    /\ l \in controls' => pc'[l] \in Built
           Port == IF pc'[l] \in Listening THEN listener \in {Absent, l} /\ listener' = l
                   ELSE listener' = IF listener = l THEN Absent ELSE listener
           Document == /\ \/ /\ document' \in {document, Absent}
                             /\ pc'[l] \in {"restrict", "ready", "serve"} => document' \in {l, Absent}
                          \/ document' = l /\ pc'[l] = "restrict"
                       /\ document' = l => pc'[l] \in Listening \cup {"check", "remove"}
                                                         \cup (Ended \ {"reused"})
<1>1. Holds /\ Port /\ Document
  <2> USE <1>0 DEF Moves, Goto, LaunchTypeOK, Points, Built, Listening, Ended, Unlink
  <2>1. CASE Clear(l)
    BY <2>1 DEF Clear
  <2>2. CASE Bind(l)
    BY <2>2 DEF Bind
  <2>3. CASE Publish(l)
    BY <2>3 DEF Publish
  <2>4. CASE RestrictRights(l)
    BY <2>4 DEF RestrictRights
  <2>5. CASE ServeForever(l)
    BY <2>5 DEF ServeForever
  <2>6. CASE End(l)
    BY <2>6 DEF End
  <2>7. CASE Close(l)
    BY <2>7 DEF Close
  <2>8. CASE Check(l)
    BY <2>8 DEF Check, Exit
  <2>9. CASE Remove(l)
    BY <2>9 DEF Remove, Exit
  <2>10. CASE Die(l)
    BY <2>10 DEF Die
  <2>11. QED
    BY <2>1, <2>2, <2>3, <2>4, <2>5, <2>6, <2>7, <2>8, <2>9, <2>10
<1>2. /\ found' \in [Launchers -> Launchers \cup {Absent, Old}]
      /\ \A m \in Launchers \ {l} : found'[m] = found[m]
      /\ seen' \in [Launchers -> Launchers \cup {Absent}]
  <2>1. Metadata \in Launchers \cup {Absent, Old} /\ Answerer \in Launchers \cup {Absent}
    BY <1>0 DEF Metadata, Answerer, LaunchTypeOK
  <2>2. QED
    BY <2>1, <1>0
    DEF Clear, Bind, Publish, RestrictRights, ServeForever, End, Close, Check, Remove, Die,
        Read,
        LaunchTypeOK
<1>3. tries' = tries /\ punctual' = punctual
  BY DEF Clear, Bind, Publish, RestrictRights, ServeForever, End, Close, Check, Remove, Die
<1>4. LaunchTypeOK' /\ \A m \in Launchers \ {l} : pc'[m] = pc[m]
  <2>1. /\ document' \in Launchers \cup {Absent, Old, Malformed}
        /\ listener' \in Launchers \cup {Absent}
        /\ controls' \subseteq Launchers /\ tries' \in [Launchers -> 0 .. Retries]
    BY <1>0, <1>1, <1>3 DEF LaunchTypeOK
  <2>2. QED
    BY <2>1, <1>0, <1>1, <1>2, <1>3, TypesKept
<1>5. QED
  BY <1>1, <1>2, <1>4, HoldsThePort

-----------------------------------------------------------------------------
(* Instances of the product that race for the port and the document of     *)
(* server.py's main: the invariant is inductive.                           *)
THEOREM LaunchInductive == LaunchSpec => []LaunchInv
<1>1. LaunchInv /\ [LaunchNext]_launch_vars => LaunchInv'
  <2> SUFFICES ASSUME LaunchInv, [LaunchNext]_launch_vars PROVE LaunchInv'
    OBVIOUS
  <2>1. CASE LaunchNext
    BY <2>1, LookingSteps, PortSteps DEF LaunchNext
  <2>2. CASE UNCHANGED launch_vars
    BY <2>2 DEF launch_vars, LaunchInv, LaunchSound, LaunchTypeOK, NamesAServer, NothingLeft,
                PortIsHeld,
                DocumentIsOwn, PingsWhatItRead, ControlsAreBuilt
  <2>3. QED
    BY <2>1, <2>2
<1>2. QED
  BY <1>1, InitHolds, PTL DEF LaunchSpec

(* The document names nobody who does not listen yet, and an instance that *)
(* has ended leaves no components behind, however many are launched.       *)
THEOREM LaunchIsSound == LaunchSpec => []LaunchSound
<1>1. LaunchInv => LaunchSound
  BY DEF LaunchInv
<1>2. QED
  BY <1>1, LaunchInductive, PTL

(* Whoever reuses the session of a document that is still the one it read  *)
(* has the token of the server that answered its ping.                     *)
THEOREM ReuseIsOfTheServer == LaunchSpec => ReusedIsTheServer
<1> DEFINE Own == \A l \in Launchers : pc[l] # "reused" /\ pc'[l] = "reused"
                                           /\ Metadata = found[l] => listener = found[l]
<1>1. LaunchInv /\ [LaunchNext]_launch_vars => [Own]_launch_vars
  <2> SUFFICES ASSUME LaunchInv, LaunchNext, NEW l \in Launchers,
                      pc[l] # "reused", pc'[l] = "reused", Metadata = found[l]
               PROVE  listener = found[l]
    OBVIOUS
  <2>1. Ping(l) \/ PingAgain(l)
    <3>1. \A m \in Launchers, point \in Points : Goto(m, point) => m = l /\ point = "reused"
      BY DEF Goto, LaunchInv, LaunchSound, LaunchTypeOK
    <3>2. PICK m \in Launchers : \E point \in Points :
              Goto(m, point) /\ (point = "reused" => Ping(m) \/ PingAgain(m))
      BY DEF LaunchNext, Launch, Ping, Clear, Build, Bind, BindRefused, BindFails, LookAgain,
             PingAgain, GiveUp, Publish, RestrictRights, ServeForever, End, Close, Check, Remove, Die,
             Exit, Points, Listening, Ended
    <3>3. QED
      BY <3>1, <3>2
  <2>2. Answerer # Absent /\ found[l] # Absent
    BY <2>1 DEF Ping, PingAgain, Pings, Goto, LaunchInv, LaunchSound, LaunchTypeOK,
                PingsWhatItRead
  <2>3. listener \in Launchers /\ pc[listener] = "serve"
    BY <2>2 DEF Answerer, LaunchInv, LaunchSound, LaunchTypeOK
  <2>4. document = listener
    BY <2>2, <2>3 DEF DocumentIsOwn, LaunchInv, Metadata
  <2>5. QED
    BY <2>3, <2>4, LaunchAssumption DEF Metadata
<1>2. QED
  BY <1>1, LaunchInductive, PTL DEF LaunchSpec, ReusedIsTheServer

-----------------------------------------------------------------------------
(* Why only the unaware remove: a server that was seen has served, and will *)
(* not publish again; and whoever is about to remove a document did not see *)
(* the server that it names.                                               *)
Served == {"serve", "closing", "check", "remove", "gone", "dead"}
SeenHasServed ==
    \A l \in Launchers : seen[l] \in Launchers => pc[seen[l]] \in Served
RemovesAnother ==
    \A l \in Launchers : punctual /\ pc[l] \in {"clear", "remove"} /\ seen[l] \in Launchers
                             => document # seen[l] \/ pc[seen[l]] # "serve"
AwareInv == LaunchInv /\ SeenHasServed /\ RemovesAnother

(* What one launcher does to the history, the document and itself.         *)
StepsOf(k) ==
    \/ Launch(k) \/ Ping(k) \/ Clear(k) \/ Build(k) \/ Bind(k) \/ BindRefused(k)
    \/ BindFails(k) \/ LookAgain(k) \/ PingAgain(k) \/ GiveUp(k) \/ Publish(k)
    \/ RestrictRights(k) \/ ServeForever(k) \/ End(k) \/ Close(k) \/ Check(k) \/ Remove(k) \/ Die(k)
Does(k) ==
    /\ seen' = seen \/ seen' = [seen EXCEPT ![k] = Answerer]
    /\ punctual' = punctual
    /\ Moves(k)
    /\ pc[k] \in Served => pc'[k] \in Served
    /\ pc'[k] = "serve" => pc[k] = "ready"
    /\ document' # document /\ document' # Absent => pc[k] = "publish" /\ document' = k
    /\ document' # document /\ document' = Absent => pc[k] \in {"clear", "remove", "restrict"}
    /\ pc'[k] \in {"clear", "remove"}
         => /\ seen' = [seen EXCEPT ![k] = Answerer]
            /\ document' = document
            /\ \/ document \in {Absent, Malformed}
               \/ document = k /\ pc[k] = "check"
               \/ ~punctual \/ Answerer = Absent

LEMMA StepDoes ==
    ASSUME LaunchInv, NEW k \in Launchers, StepsOf(k)
    PROVE  Does(k)
<1> USE DEF LaunchInv, LaunchSound, LaunchTypeOK, Does, Moves, Goto, Served, Unlink, Read,
            Pings, Metadata
<1>1. CASE Launch(k) \/ LookAgain(k) \/ Check(k)
  BY <1>1, LaunchAssumption DEF Launch, LookAgain, Check, Exit
<1>2. CASE Ping(k) \/ PingAgain(k)
  BY <1>2 DEF Ping, PingAgain
<1>3. CASE Clear(k) \/ RestrictRights(k) \/ Remove(k)
  BY <1>3 DEF Clear, RestrictRights, Remove, Exit
<1>4. CASE Build(k) \/ Bind(k) \/ BindRefused(k) \/ BindFails(k) \/ GiveUp(k)
  BY <1>4 DEF Build, Bind, BindRefused, BindFails, GiveUp
<1>5. CASE Publish(k) \/ ServeForever(k) \/ End(k)
  BY <1>5, LaunchAssumption DEF Publish, ServeForever, End
<1>6. CASE Close(k)
  BY <1>6 DEF Close
<1>7. CASE Die(k)
  BY <1>7 DEF Die
<1>8. QED
  BY <1>1, <1>2, <1>3, <1>4, <1>5, <1>6, <1>7 DEF StepsOf

LEMMA AnswererServes ==
    ASSUME LaunchInv
    PROVE  /\ Answerer \in Launchers \cup {Absent}
           /\ Answerer \in Launchers => pc[Answerer] = "serve"
           /\ Absent \notin Launchers /\ Malformed \notin Launchers
  BY LaunchAssumption DEF Answerer, LaunchInv, LaunchSound, LaunchTypeOK

LEMMA AwareInductive == LaunchSpec => []AwareInv
<1>1. LaunchInit => AwareInv
  BY InitHolds, LaunchAssumption DEF LaunchInit, AwareInv, SeenHasServed, RemovesAnother
<1>2. AwareInv /\ LaunchInv' /\ [LaunchNext]_launch_vars => AwareInv'
  <2> SUFFICES ASSUME AwareInv, LaunchInv', LaunchNext PROVE SeenHasServed' /\ RemovesAnother'
    BY DEF AwareInv, launch_vars, SeenHasServed, RemovesAnother
  <2>0. LaunchInv /\ LaunchTypeOK /\ SeenHasServed /\ RemovesAnother
    BY DEF AwareInv, LaunchInv, LaunchSound
  <2>1. PICK k \in Launchers : StepsOf(k) /\ Does(k)
    BY <2>0, StepDoes DEF LaunchNext, StepsOf
  <2> USE <2>0, <2>1 DEF Moves, Served, Does
  <2>2. SeenHasServed'
    BY AnswererServes DEF SeenHasServed, LaunchTypeOK
  <2>3. RemovesAnother'
    <3> SUFFICES ASSUME NEW l \in Launchers, punctual', pc'[l] \in {"clear", "remove"},
                        seen'[l] \in Launchers, pc'[seen'[l]] = "serve"
                 PROVE  document' # seen'[l]
      BY DEF RemovesAnother
    <3>1. CASE l = k
      BY <3>1, AnswererServes DEF LaunchTypeOK
    <3>2. CASE l # k
      <4>1. seen'[l] = seen[l] /\ pc'[l] = pc[l] /\ pc[seen[l]] \in Served
        BY <3>2 DEF LaunchTypeOK, SeenHasServed
      <4>2. pc[seen[l]] = "serve"
        BY <4>1 DEF LaunchTypeOK
      <4>3. document # seen[l]
        BY <4>1, <4>2 DEF RemovesAnother
      <4>4. document' = seen[l] => document' = document
        BY <4>1, <4>2, AnswererServes DEF LaunchTypeOK
      <4>5. QED
        BY <4>1, <4>3, <4>4
    <3>3. QED
      BY <3>1, <3>2
  <2>4. QED
    BY <2>2, <2>3
<1>3. QED
  BY <1>1, <1>2, LaunchInductive, PTL DEF LaunchSpec

(* "never delete a replacement session": whoever removes the document of a *)
(* server that serves looked last before that server served.               *)
THEOREM RemovalIsUnaware == LaunchSpec => OnlyTheUnawareRemove
<1> DEFINE Unaware == punctual /\ Answerer # Absent /\ document = Answerer /\ document' # document
         => \E l \in Launchers : /\ pc[l] \in {"clear", "remove"} /\ pc'[l] # pc[l]
                                 /\ seen[l] # Answerer
<1>1. AwareInv /\ [LaunchNext]_launch_vars => [Unaware]_launch_vars
  <2> SUFFICES ASSUME AwareInv, LaunchNext, punctual, Answerer # Absent, document = Answerer,
                      document' # document
               PROVE  \E l \in Launchers : /\ pc[l] \in {"clear", "remove"} /\ pc'[l] # pc[l]
                                           /\ seen[l] # Answerer
    OBVIOUS
  <2>0. /\ LaunchInv /\ LaunchTypeOK /\ RemovesAnother
        /\ Answerer \in Launchers /\ pc[Answerer] = "serve" /\ listener = Answerer
    BY AnswererServes DEF AwareInv, LaunchInv, LaunchSound, Answerer
  <2>1. PICK k \in Launchers : StepsOf(k) /\ Does(k)
    BY <2>0, StepDoes DEF LaunchNext, StepsOf
  <2>2. pc[k] \notin {"publish", "restrict"}
    BY <2>0 DEF LaunchInv, PortIsHeld, Listening
  <2>3. pc[k] \in {"clear", "remove"} /\ document' = Absent
    BY <2>0, <2>1, <2>2 DEF Does
  <2>4. pc'[k] # pc[k]
    BY <2>0, <2>1, <2>3
    DEF StepsOf, Launch, Ping, Clear, Build, Bind, BindRefused, BindFails, LookAgain, PingAgain,
        GiveUp, Publish, RestrictRights, ServeForever, End, Close, Check, Remove, Die, Exit, Goto,
        LaunchTypeOK, Ended
  <2>5. seen[k] # Answerer
    BY <2>0, <2>3 DEF RemovesAnother
  <2>6. QED
    BY <2>3, <2>4, <2>5
<1>2. QED
  BY <1>1, AwareInductive, PTL DEF LaunchSpec, OnlyTheUnawareRemove
=============================================================================
