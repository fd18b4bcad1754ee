---------------------------- MODULE RuntimeProofs ----------------------------
(***************************************************************************)
(* Proofs about GenesisRuntime, for every number of threads, sessions,     *)
(* experts and domains, and for every number of crashes: a solve never     *)
(* runs under the overlay of another session or beyond the margin, the     *)
(* cache and the router keep their bounds, what a night saves is still,    *)
(* and what is learned, saved and restored is sound.  The last parts are   *)
(* about the searches: LatentSearch, which an inference runs under the     *)
(* guard, whose tree and retriever are sound for every width, depth,       *)
(* capacity and number of simulations, and WorkflowSearch, whose archive   *)
(* is sound for every budget and proposer.                                 *)
(***************************************************************************)
EXTENDS GenesisRuntime, LatentSearch, WorkflowSearch,
        FiniteSetTheorems, WellFoundedInduction, SequenceTheorems, TLAPS

-----------------------------------------------------------------------------
(* The overlay.  Hooks are installed and removed only by the caller that   *)
(* holds the guard; the first invariant says who that is.                  *)

Points == {"idle", "route", "lock", "slot", "guard", "body", "apply",
           "calibrate", "room", "evict", "keep"}
Inside(c) == call[c].at \in {"body", "apply"}

Calls == [op : {"idle", "infer", "compile"}, at : Points, session : Sessions \cup {None}]
CallsTyped ==
    /\ call \in [Callers -> Calls]
    /\ \A c \in Callers : call[c].at # "idle" => call[c].op # "idle"
InsideIsGuarded ==
    \A c \in Callers : Inside(c) =>
        guard = c /\ (call[c].op = "infer" \/ (call[c].op = "compile" /\ call[c].at = "body"))
CompilesBare == \A c \in Callers : Inside(c) /\ call[c].op = "compile" => hooks = {}

OverlayInv == CallsTyped /\ InsideIsGuarded /\ CompilesBare /\ OverlayIsOwn

(* No other thread takes the guard away from the caller that holds it. *)
LEMMA LearningKeepsGuard ==
    ASSUME NEW k \in Callers, guard = k, LearningNext
    PROVE  guard' = k
  BY CallersAssumption
  DEF LearningNext, Actors, Work, Call, InferenceSlot, EvolutionSlot, EnterBody, Enforce,
      Rejected, EndBody, Adapt, ExpertStep, Recruit, Consolidate, Train, Checkpoint,
      WriteTemporary, ReplaceFile, ComputeDigest, RecordDigest, EndSave, SaveFails, Restore,
      RestoreContext, Unreadable, LoadModules, LoadState, NightFalls, SavedElsewhere, RollBack, Morning, BeginNight,
      EndCheckpoint, BeginRollback, EndNight, Leave, gateVars

LEMMA OverlayOfLearning ==
    ASSUME OverlayInv, LearningNext, UNCHANGED sessionVars
    PROVE  OverlayInv'
<1>1. call' = call /\ hooks' = hooks
  BY DEF sessionVars, hookVars
<1>2. \A c \in Callers : Inside(c) => guard' = c
  BY LearningKeepsGuard DEF OverlayInv, InsideIsGuarded
<1>3. QED
  BY <1>1, <1>2 DEF OverlayInv, CallsTyped, InsideIsGuarded, CompilesBare, OverlayIsOwn, Inside

(* Steps of a caller on its way to the hooks, and after them. *)
LEMMA OverlayOfOthers ==
    ASSUME OverlayInv, NEW c \in Callers,
           call' = [call EXCEPT ![c] = call'[c]],
           call'[c] \in Calls, call'[c].at # "idle" => call'[c].op # "idle",
           ~Inside(c), ~Inside(c)', hooks' = hooks,
           guard' = guard \/ guard = c
    PROVE  OverlayInv'
<1>1. CallsTyped'
  BY DEF OverlayInv, CallsTyped
<1>2. \A d \in Callers : Inside(d)' => d # c /\ call'[d] = call[d] /\ Inside(d)
  BY DEF OverlayInv, CallsTyped, Inside
<1>3. \A d \in Callers : Inside(d) => guard' = d /\ Inside(d)'
  BY DEF OverlayInv, CallsTyped, InsideIsGuarded, Inside
<1>4. QED
  BY <1>1, <1>2, <1>3
  DEF OverlayInv, CallsTyped, InsideIsGuarded, CompilesBare, OverlayIsOwn, Inside

(* Up to the hooks, and from the locks back. *)
LEMMA OverlayOfPaths ==
    ASSUME OverlayInv, NEW c \in Callers, NEW s \in Sessions \cup {None},
           \/ Infer(c, s) \/ Compile(c, s) \/ TakeSessionLock(c)
           \/ EnterSlot(c) \/ Refused(c)
           \/ Reinsert(c) \/ Calibrate(c) \/ CheckRoom(c) \/ EvictOldest(c) \/ Keep(c)
    PROVE  OverlayInv'
<1> USE DEF OverlayInv, CallsTyped, InsideIsGuarded, CompilesBare, OverlayIsOwn, Inside, Points, Calls
<1>1. call[c] \in Calls /\ (call[c].at # "idle" => call[c].op # "idle")
  OBVIOUS
<1>2. CASE Infer(c, s)
  BY <1>1, <1>2, OverlayOfOthers DEF Infer, hookVars, gateVars
<1>3. CASE Compile(c, s)
  BY <1>1, <1>3, OverlayOfOthers DEF Compile, hookVars, gateVars
<1>4. CASE TakeSessionLock(c)
  BY <1>1, <1>4, OverlayOfOthers DEF TakeSessionLock, Step, hookVars, gateVars
<1>5. CASE EnterSlot(c)
  BY <1>1, <1>5, OverlayOfOthers DEF EnterSlot, Step, InferenceSlot, hookVars
<1>6. CASE Refused(c)
  BY <1>1, <1>6, OverlayOfOthers DEF Refused, Release, Leave, IdleCall, hookVars
<1>7. CASE Reinsert(c)
  <2>1. /\ call' = [call EXCEPT ![c] = call'[c]] /\ call'[c] \in Calls
        /\ call'[c].at \in {"lock", "slot"} /\ call'[c].op = call[c].op
    BY <1>1, <1>7 DEF Reinsert, Step
  <2>2. QED
    BY <1>1, <1>7, <2>1, OverlayOfOthers DEF Reinsert, hookVars, gateVars
<1>8. CASE Calibrate(c)
  BY <1>1, <1>8, OverlayOfOthers DEF Calibrate, EndCall, Step, IdleCall, hookVars, gateVars
<1>9. CASE CheckRoom(c)
  BY <1>1, <1>9, OverlayOfOthers DEF CheckRoom, Step, hookVars, gateVars
<1>10. CASE EvictOldest(c)
  BY <1>1, <1>10, OverlayOfOthers DEF EvictOldest, EndCall, Step, IdleCall, hookVars, gateVars
<1>11. CASE Keep(c)
  BY <1>1, <1>11, OverlayOfOthers DEF Keep, EndCall, IdleCall, hookVars, gateVars
<1>12. QED
  BY <1>2, <1>3, <1>4, <1>5, <1>6, <1>7, <1>8, <1>9, <1>10, <1>11

(* Nobody is inside while the guard is free, so that the hooks a caller    *)
(* finds when it takes the guard are none.                                 *)
LEMMA OverlayOfGuard ==
    ASSUME OverlayInv, NEW c \in Callers, EnterGuard(c)
    PROVE  OverlayInv'
<1> USE DEF OverlayInv, CallsTyped, Inside, Points, Calls
<1>1. guard = None /\ guard' = c /\ call' = [call EXCEPT ![c].at = "body"]
      /\ call[c].at = "guard"
  BY DEF EnterGuard, Enforce, Step
<1>2. \A d \in Callers : ~Inside(d)
  BY <1>1, CallersAssumption DEF InsideIsGuarded
<1>3. hooks = {}
  BY <1>2 DEF OverlayIsOwn
<1>4. hooks' = IF call[c].op = "infer" /\ call[c].session # None THEN {call[c].session} ELSE {}
  BY <1>3 DEF EnterGuard, hookVars
<1>5. CallsTyped' /\ \A d \in Callers : Inside(d)' => d = c
  BY <1>1, <1>2
<1>6. call'[c].op = call[c].op /\ call'[c].session = call[c].session /\ call'[c].at = "body"
  BY <1>1
<1>7. call[c].op # "idle"
  BY <1>1
<1>8. QED
  BY <1>1, <1>4, <1>5, <1>6, <1>7 DEF InsideIsGuarded, CompilesBare, OverlayIsOwn

(* In the body and out of it.  No other caller is inside. *)
LEMMA OverlayOfBodies ==
    ASSUME OverlayInv, NEW c \in Callers, Backbone(c) \/ EndInfer(c) \/ EndCompile(c)
    PROVE  OverlayInv'
<1> USE DEF OverlayInv, CallsTyped, Inside, Points, Calls
<1>1. call[c].at \in {"body", "apply"} /\ guard = c
  BY DEF Backbone, EndInfer, EndCompile, InsideIsGuarded
<1>2. \A d \in Callers : Inside(d) => d = c
  BY <1>1 DEF InsideIsGuarded
<1>3. CASE Backbone(c)
  <2>1. call' = [call EXCEPT ![c].at = "apply"] /\ call[c].op = "infer" /\ hooks' = hooks
        /\ guard' = c
    BY <1>1, <1>3 DEF Backbone, Step, hookVars, gateVars
  <2>2. CallsTyped' /\ \A d \in Callers : Inside(d)' => d = c
    BY <2>1, <1>2
  <2>3. call'[c].op = "infer" /\ call'[c].session = call[c].session /\ call'[c].at = "apply"
    BY <2>1
  <2>4. hooks' = {call'[c].session} \ {None} /\ Inside(c)'
    BY <1>1, <2>1, <2>3 DEF OverlayIsOwn
  <2>5. InsideIsGuarded' /\ CompilesBare'
    <3> SUFFICES ASSUME NEW d \in Callers, Inside(d)'
                 PROVE  guard' = d /\ call'[d].op = "infer"
      BY DEF InsideIsGuarded, CompilesBare
    <3> QED
      BY <2>1, <2>2, <2>3
  <2>6. OverlayIsOwn'
    BY <2>2, <2>3, <2>4 DEF OverlayIsOwn
  <2>7. QED
    BY <2>2, <2>5, <2>6
<1>4. CASE EndInfer(c)
  <2>1. call' = [call EXCEPT ![c] = IdleCall]
    BY <1>4 DEF EndInfer
  <2>2. CallsTyped' /\ \A d \in Callers : ~Inside(d)'
    BY <2>1, <1>2 DEF IdleCall
  <2>3. hooks' = {}
    BY <1>4, <1>1 DEF EndInfer, InsideIsGuarded, OverlayIsOwn
  <2>4. QED
    BY <2>2, <2>3 DEF InsideIsGuarded, CompilesBare, OverlayIsOwn
<1>5. CASE EndCompile(c)
  <2>1. call' = [call EXCEPT ![c] = IdleCall] \/ call' = [call EXCEPT ![c].at = "calibrate"]
    BY <1>5 DEF EndCompile, Step
  <2>2. CallsTyped' /\ \A d \in Callers : ~Inside(d)'
    BY <2>1, <1>2, <1>1 DEF IdleCall
  <2>3. hooks' = {}
    BY <1>5, <1>1 DEF EndCompile, CompilesBare, hookVars
  <2>4. QED
    BY <2>2, <2>3 DEF InsideIsGuarded, CompilesBare, OverlayIsOwn
<1>6. QED
  BY <1>3, <1>4, <1>5

LEMMA OverlayInductive == Spec => []OverlayInv
<1> USE DEF OverlayInv, CallsTyped, InsideIsGuarded, CompilesBare, OverlayIsOwn, Inside, Points,
            Calls
<1>1. Init => OverlayInv
  BY DEF Init, SessionsInit, IdleCall
<1>2. OverlayInv /\ [Next]_vars => OverlayInv'
  <2> SUFFICES ASSUME OverlayInv, [Next]_vars PROVE OverlayInv'
    OBVIOUS
  <2>1. CASE SessionsNext
    <3>1. CASE \E c \in Callers :
                  \/ \E s \in Sessions \cup {None} : Infer(c, s)
                  \/ \E s \in Sessions : Compile(c, s)
                  \/ TakeSessionLock(c) \/ EnterSlot(c) \/ Refused(c)
                  \/ Reinsert(c) \/ Calibrate(c) \/ CheckRoom(c) \/ EvictOldest(c) \/ Keep(c)
      BY <3>1, OverlayOfPaths
    <3>2. CASE \E c \in Callers : EnterGuard(c)
      BY <3>2, OverlayOfGuard
    <3>3. CASE \E c \in Callers : Backbone(c) \/ EndInfer(c) \/ EndCompile(c)
      BY <3>3, OverlayOfBodies
    <3>4. CASE (\E s \in Sessions : Discard(s)) \/ TrainCore
      BY <3>4 DEF Discard, TrainCore, gateVars, hookVars
    <3>5. QED
      BY <2>1, <3>1, <3>2, <3>3, <3>4, CallersAssumption DEF SessionsNext
  <2>2. CASE LearningNext /\ UNCHANGED sessionVars
    BY <2>2, OverlayOfLearning
  <2>3. CASE Restart
    BY <2>3 DEF Restart, IdleCall
  <2>4. CASE UNCHANGED vars
    BY <2>4 DEF vars, gateVars, sessionVars, hookVars
  <2>5. QED
    BY <2>1, <2>2, <2>3, <2>4 DEF Next
<1>3. QED
  BY <1>1, <1>2, PTL DEF Spec

(* A backbone call runs under the overlay of its own session: the guard    *)
(* serialises the bodies of infer and of compile_fast_weight_session, with *)
(* a session or without one.                                               *)
THEOREM OverlaysAreOwn == Spec => []OverlayIsOwn
<1>1. OverlayInv => OverlayIsOwn
  BY DEF OverlayInv
<1>2. QED
  BY <1>1, OverlayInductive, PTL
-----------------------------------------------------------------------------
(* The checkpoint at rest.  A worker holds its slot from its call to its   *)
(* return, a night's mode leaves no slot occupied, and the driver restores *)
(* in ROLLING_BACK only.                                                   *)

ActsShape ==
    /\ act = [c \in Actors |-> act[c]]
    /\ \A c \in Actors : act[c] = [op |-> act[c].op, at |-> act[c].at, data |-> act[c].data]
SlotsOfMode ==
    /\ mode # "INFERENCE" => requests = {}
    /\ mode \in {"INFERENCE", "CHECKPOINTING"} => tasks = {}
WorkersHoldSlots ==
    \A w \in Workers :
        /\ act[w].at \in {"guard", "body"} =>
             /\ act[w].op \in {"adapt", "step"} => w \in requests
             /\ act[w].op \in {"recruit", "consolidate", "train"} => w \in tasks
        /\ act[w].at = "context" => act[w].op = "restore"
DriverRollsBack == act[Driver].at \in {"idle"} \cup Saving \/ mode = "ROLLING_BACK"

RestInv == ActsShape /\ SlotsOfMode /\ WorkersHoldSlots /\ DriverRollsBack

(* Sessions enter and leave inference slots of their own. *)
LEMMA RestOfSessions ==
    ASSUME RestInv, SessionsNext, UNCHANGED learningVars
    PROVE  RestInv'
<1>1. act' = act
  BY DEF learningVars
<1>2. /\ mode' = mode
      /\ requests' \subseteq requests \/ mode = "INFERENCE"
      /\ tasks' \subseteq tasks
      /\ \A w \in Workers : (w \in requests => w \in requests') /\ (w \in tasks => w \in tasks')
  BY CallersAssumption
  DEF SessionsNext, Actors, Infer, Compile, TakeSessionLock, EnterSlot, EnterGuard, Refused,
      Backbone, EndInfer, EndCompile, Reinsert, Calibrate, CheckRoom, EvictOldest, Keep, Discard,
      TrainCore, InferenceSlot, Enforce, Release, Leave, gateVars
<1>3. QED
  BY <1>1, <1>2 DEF RestInv, ActsShape, SlotsOfMode, WorkersHoldSlots, DriverRollsBack

(* What a worker or the driver does to its own place and to the slots. *)
Moved(c) ==
    /\ ActsShape'
    /\ \A d \in Actors \ {c} : act'[d] = act[d]
    /\ \A w \in Workers \ {c} : (w \in requests => w \in requests')
                                /\ (w \in tasks => w \in tasks')

(* A step that leaves the mode alone. *)
LEMMA RestOfOne ==
    ASSUME RestInv, NEW c \in Actors, Moved(c), mode' = mode,
           requests' \subseteq requests \/ mode = "INFERENCE",
           tasks' \subseteq tasks \/ mode = "EVOLUTION",
           act'[c].at \in {"guard", "body"} =>
              /\ act'[c].op \in {"adapt", "step"} => c \in requests' \/ c = Driver
              /\ act'[c].op \in {"recruit", "consolidate", "train"} => c \in tasks' \/ c = Driver,
           act'[c].at = "context" => act'[c].op = "restore",
           c = Driver => act'[c].at \in {"idle"} \cup Saving \/ mode = "ROLLING_BACK"
    PROVE  RestInv'
  BY LearningAssumption DEF RestInv, SlotsOfMode, WorkersHoldSlots, DriverRollsBack, Moved, Actors

LEMMA Placed ==
    ASSUME ActsShape, NEW c \in Actors, NEW o, NEW a, NEW d,
           act' = [act EXCEPT ![c] = [op |-> o, at |-> a, data |-> d]]
    PROVE  /\ ActsShape'
           /\ \A e \in Actors \ {c} : act'[e] = act[e]
           /\ act'[c].op = o /\ act'[c].at = a /\ act'[c].data = d
<1>1. act' = [e \in Actors |-> IF e = c THEN [op |-> o, at |-> a, data |-> d] ELSE act[e]]
  BY DEF ActsShape
<1>2. QED
  BY <1>1 DEF ActsShape

LEMMA Returned ==
    ASSUME ActsShape, NEW c \in Actors, Return(c)
    PROVE  /\ ActsShape'
           /\ \A e \in Actors \ {c} : act'[e] = act[e]
           /\ act'[c].at = "idle" /\ act'[c].op = "idle"
<1>1. act' = [e \in Actors |-> IF e = c THEN Idle ELSE act[e]]
  BY DEF ActsShape, Return
<1>2. QED
  BY <1>1 DEF ActsShape, Idle

LEMMA Went ==
    ASSUME ActsShape, NEW c \in Actors, NEW a, Go(c, a)
    PROVE  /\ ActsShape'
           /\ \A e \in Actors \ {c} : act'[e] = act[e]
           /\ act'[c].at = a /\ act'[c].op = act[c].op /\ act'[c].data = act[c].data
<1>1. [act[c] EXCEPT !.at = a] = [op |-> act[c].op, at |-> a, data |-> act[c].data]
  BY DEF ActsShape
<1>2. act' = [act EXCEPT ![c] = [act[c] EXCEPT !.at = a]]
  BY DEF Go
<1>3. act' = [e \in Actors |-> IF e = c THEN [op |-> act[c].op, at |-> a, data |-> act[c].data]
                               ELSE act[e]]
  BY <1>1, <1>2 DEF ActsShape
<1>4. QED
  BY <1>3 DEF ActsShape

LEMMA WentWith ==
    ASSUME ActsShape, NEW c \in Actors, NEW a, NEW d, GoWith(c, a, d)
    PROVE  /\ ActsShape'
           /\ \A e \in Actors \ {c} : act'[e] = act[e]
           /\ act'[c].at = a /\ act'[c].op = act[c].op /\ act'[c].data = d
<1>1. act' = [e \in Actors |-> IF e = c THEN [op |-> act[c].op, at |-> a, data |-> d]
                               ELSE act[e]]
  BY DEF ActsShape, GoWith
<1>2. QED
  BY <1>1 DEF ActsShape

LEMMA Collected ==
    ASSUME ActsShape, NEW c \in Actors, Collect(c)
    PROVE  /\ ActsShape'
           /\ \A e \in Actors \ {c} : act'[e] = act[e]
           /\ act'[c].at = "write" /\ act'[c].op = "checkpoint"
           /\ act'[c].data.stream = stream /\ act'[c].data.snapshots = snapshots
<1> DEFINE taken == [op |-> "checkpoint", at |-> "write",
                     data |-> [stream |-> stream, snapshots |-> snapshots]]
<1>1. act' = [e \in Actors |-> IF e = c THEN taken ELSE act[e]]
  BY DEF Collect, ActsShape
<1>2. QED
  BY <1>1 DEF ActsShape

LEMMA RestOfWork ==
    ASSUME RestInv, NEW c \in Workers,
           \/ Work(c) \/ Adapt(c) \/ ExpertStep(c) \/ Recruit(c) \/ Consolidate(c) \/ Train(c)
           \/ Checkpoint(c)
    PROVE  RestInv'
<1>0. ActsShape /\ c \in Actors /\ c # Driver
  BY LearningAssumption DEF RestInv, Actors
<1>1. CASE Work(c)
  <2>1. PICK o \in {"adapt", "step", "recruit", "consolidate", "train"} :
           /\ Call(c, o)
           /\ \/ o \in {"adapt", "step"} /\ InferenceSlot(c)
              \/ o \in {"recruit", "consolidate", "train"} /\ EvolutionSlot(c)
    BY <1>1 DEF Work
  <2>2. Moved(c) /\ act'[c].op = o /\ act'[c].at = "guard"
    BY <1>0, <2>1, Placed DEF Call, Moved, InferenceSlot, EvolutionSlot
  <2>3. QED
    BY <1>0, <2>1, <2>2, RestOfOne DEF InferenceSlot, EvolutionSlot
<1>2. CASE Adapt(c) \/ ExpertStep(c) \/ Recruit(c) \/ Consolidate(c) \/ Train(c)
  <2>1. EndBody(c)
    BY <1>2 DEF Adapt, ExpertStep, Recruit, Consolidate, Train
  <2>2. Moved(c) /\ act'[c].at = "idle"
    BY <1>0, <2>1, Returned DEF EndBody, Leave, Moved
  <2>3. QED
    BY <1>0, <2>1, <2>2, RestOfOne DEF EndBody, Leave
<1>3. CASE Checkpoint(c)
  <2>1. Moved(c) /\ act'[c].at = "write"
    BY <1>0, <1>3, Collected DEF Checkpoint, Moved, gateVars
  <2>2. QED
    BY <1>0, <1>3, <2>1, RestOfOne DEF Checkpoint, gateVars
<1>4. QED
  BY <1>1, <1>2, <1>3

LEMMA RestOfSteps ==
    ASSUME RestInv, NEW c \in Actors,
           EnterBody(c) \/ Rejected(c) \/ WriteTemporary(c) \/ ComputeDigest(c)
    PROVE  RestInv' /\ mode' = mode
<1>0. ActsShape /\ SlotsOfMode /\ WorkersHoldSlots /\ DriverRollsBack
      /\ (c # Driver => c \in Workers)
  BY DEF RestInv, Actors
<1>1. CASE EnterBody(c)
  <2>1. act[c].at = "guard" /\ requests' = requests /\ tasks' = tasks /\ mode' = mode
    BY <1>1 DEF EnterBody, Enforce
  <2>2. Moved(c) /\ act'[c].at \in {"body", "load"} /\ act'[c].op = act[c].op
    <3>1. (\E d : GoWith(c, "body", d)) \/ Go(c, "body") \/ Go(c, "load")
      BY <1>1 DEF EnterBody
    <3>2. QED
      BY <1>0, <2>1, <3>1, Went, WentWith DEF Moved
  <2>3. QED
    BY <1>0, <2>1, <2>2, RestOfOne DEF WorkersHoldSlots, DriverRollsBack, Saving
<1>2. CASE Rejected(c)
  <2>1. Moved(c) /\ act'[c].at = "idle"
    BY <1>0, <1>2, Returned DEF Rejected, Leave, Moved
  <2>2. QED
    BY <1>0, <1>2, <2>1, RestOfOne DEF Rejected, Leave
<1>3. CASE WriteTemporary(c)
  <2>1. Moved(c) /\ act'[c].at = "replace"
    BY <1>0, <1>3, Went DEF WriteTemporary, Moved, gateVars
  <2>2. QED
    BY <1>0, <1>3, <2>1, RestOfOne DEF WriteTemporary, Saving, gateVars
<1>4. CASE ComputeDigest(c)
  <2>1. Moved(c) /\ act'[c].at = "record"
    BY <1>0, <1>4, WentWith DEF ComputeDigest, Moved, gateVars
  <2>2. QED
    BY <1>0, <1>4, <2>1, RestOfOne DEF ComputeDigest, Saving, gateVars
<1>5. QED
  BY <1>1, <1>2, <1>3, <1>4

LEMMA RestOfRestore ==
    ASSUME RestInv, NEW c \in Actors,
           \/ Restore(c) \/ RestoreContext(c) \/ Unreadable(c) \/ LoadModules(c) \/ LoadState(c)
    PROVE  RestInv' /\ mode' = mode
<1>0. ActsShape /\ SlotsOfMode /\ WorkersHoldSlots /\ DriverRollsBack
      /\ (c # Driver => c \in Workers)
  BY DEF RestInv, Actors
<1>1. CASE Restore(c)
  <2>1. act' = [e \in Actors |-> IF e = c
                                  THEN [op |-> "restore", at |-> "context", data |-> None]
                                  ELSE act[e]]
    BY <1>0, <1>1 DEF Restore, ActsShape
  <2>2. ActsShape' /\ (\A e \in Actors \ {c} : act'[e] = act[e])
        /\ act'[c].op = "restore" /\ act'[c].at = "context"
    BY <1>0, <2>1 DEF ActsShape
  <2>3. mode' = mode /\ requests' = requests /\ tasks' = tasks
        /\ (c = Driver => mode = "ROLLING_BACK")
    BY <1>1 DEF Restore, OneCall, gateVars
  <2>4. Moved(c)
    BY <2>2, <2>3 DEF Moved
  <2>5. QED
    BY <2>2, <2>3, <2>4, RestOfOne
<1>2. CASE RestoreContext(c)
  <2>1. Moved(c) /\ act'[c].at = "guard" /\ act'[c].op = act[c].op
    BY <1>0, <1>2, WentWith DEF RestoreContext, Moved, EvolutionSlot, gateVars
  <2>2. /\ mode' = mode /\ requests' = requests
        /\ tasks' = tasks \/ mode = "EVOLUTION"
        /\ act[c].at = "context"
    BY <1>2 DEF RestoreContext, EvolutionSlot, gateVars
  <2>3. c # Driver => act[c].op = "restore"
    BY <1>0, <2>2 DEF WorkersHoldSlots
  <2>4. c = Driver => mode = "ROLLING_BACK"
    BY <1>0, <2>2 DEF DriverRollsBack, Saving
  <2>5. QED
    BY <2>1, <2>2, <2>3, <2>4, RestOfOne
<1>3. CASE LoadModules(c)
  <2>1. Moved(c) /\ act'[c].at = "reload" /\ mode' = mode /\ act[c].at = "load"
        /\ requests' = requests /\ tasks' = tasks
    BY <1>0, <1>3, Went DEF LoadModules, Moved, gateVars
  <2>2. QED
    BY <1>0, <2>1, RestOfOne DEF DriverRollsBack, Saving
<1>4. CASE LoadState(c)
  <2>1. Moved(c) /\ act'[c].at = "idle"
    BY <1>0, <1>4, Returned DEF LoadState, Leave, Moved
  <2>2. QED
    BY <1>0, <1>4, <2>1, RestOfOne DEF LoadState, Leave
<1>5. CASE Unreadable(c)
  <2>1. Moved(c) /\ act'[c].at = "idle"
    BY <1>0, <1>5, Returned DEF Unreadable, Moved, gateVars
  <2>2. QED
    BY <1>0, <1>5, <2>1, RestOfOne DEF Unreadable, gateVars
<1>6. QED
  BY <1>1, <1>2, <1>3, <1>4, <1>5

(* The steps of a night, of the driver alone.  A night begins when no      *)
(* request is active and ends when no task is, and never while the driver  *)
(* restores.                                                               *)
LEMMA RestOfMode ==
    ASSUME RestInv, Moved(Driver), requests' = requests, tasks' = tasks,
           SlotsOfMode', act'[Driver].at \in {"idle"} \cup Saving
    PROVE  RestInv'
  BY LearningAssumption DEF RestInv, WorkersHoldSlots, DriverRollsBack, Moved, Actors

LEMMA RestOfNight ==
    ASSUME RestInv, NightFalls \/ SavedElsewhere \/ RollBack \/ Morning
    PROVE  RestInv'
<1>0. ActsShape /\ SlotsOfMode /\ Driver \in Actors
  BY DEF RestInv, Actors
<1>1. act[Driver].at = "idle" /\ requests' = requests /\ tasks' = tasks /\ SlotsOfMode'
  BY <1>0 DEF NightFalls, SavedElsewhere, RollBack, Morning, BeginNight, EndCheckpoint,
              BeginRollback, EndNight, SlotsOfMode
<1>2. Collect(Driver) \/ act' = act
  BY DEF NightFalls, SavedElsewhere, RollBack, Morning, learningVars
<1>3. CASE Collect(Driver)
  <2>1. Moved(Driver) /\ act'[Driver].at = "write"
    BY <1>0, <1>1, <1>3, Collected DEF Moved
  <2>2. QED
    BY <1>1, <2>1, RestOfMode DEF Saving
<1>4. CASE act' = act
  <2>1. Moved(Driver) /\ act'[Driver].at = "idle"
    BY <1>0, <1>1, <1>4 DEF Moved, ActsShape
  <2>2. QED
    BY <1>1, <2>1, RestOfMode
<1>5. QED
  BY <1>2, <1>3, <1>4

LEMMA RestOfFiles ==
    ASSUME RestInv, NEW c \in Actors, ReplaceFile(c) \/ RecordDigest(c) \/ SaveFails(c)
    PROVE  RestInv'
<1>0. ActsShape /\ SlotsOfMode /\ WorkersHoldSlots /\ DriverRollsBack
      /\ (c # Driver => c \in Workers)
  BY DEF RestInv, Actors
<1>1. Go(c, "digest") \/ Return(c)
  BY DEF ReplaceFile, RecordDigest, SaveFails, EndSave
<1>2. /\ requests' = requests /\ tasks' = tasks
      /\ mode' = mode \/ (c = Driver /\ mode = "CHECKPOINTING" /\ mode' \in {"INFERENCE", "EVOLUTION"})
  BY DEF ReplaceFile, RecordDigest, SaveFails, EndSave, EndCheckpoint, gateVars
<1>3. Moved(c) /\ act'[c].at \in {"digest", "idle"}
  BY <1>0, <1>1, <1>2, Went, Returned DEF Moved
<1>4. CASE mode' = mode
  BY <1>0, <1>2, <1>3, <1>4, RestOfOne DEF Saving
<1>5. CASE mode' # mode
  <2>1. SlotsOfMode'
    BY <1>0, <1>2, <1>5 DEF SlotsOfMode
  <2>2. QED
    BY <1>2, <1>3, <1>5, <2>1, RestOfMode DEF Saving
<1>6. QED
  BY <1>4, <1>5

LEMMA RestInductive == Spec => []RestInv
<1>1. Init => RestInv
  <2> SUFFICES ASSUME Init PROVE RestInv
    OBVIOUS
  <2>1. act = [c \in Actors |-> Idle] /\ mode = "INFERENCE" /\ tasks = {}
    BY DEF Init, GateInit, LearningInit, Started
  <2>2. QED
    BY <2>1 DEF RestInv, ActsShape, SlotsOfMode, WorkersHoldSlots, DriverRollsBack, Idle, Actors
<1>2. RestInv /\ [Next]_vars => RestInv'
  <2> SUFFICES ASSUME RestInv, [Next]_vars PROVE RestInv'
    OBVIOUS
  <2>1. CASE SessionsNext /\ UNCHANGED learningVars
    BY <2>1, RestOfSessions
  <2>2. CASE LearningNext
    BY <2>2, RestOfWork, RestOfSteps, RestOfRestore, RestOfFiles, RestOfNight DEF LearningNext
  <2>3. CASE Restart
    <3>1. act' = [c \in Actors |-> Idle] /\ mode' = "INFERENCE" /\ tasks' = {}
      BY <2>3 DEF Restart, Crash
    <3>2. QED
      BY <3>1 DEF RestInv, ActsShape, SlotsOfMode, WorkersHoldSlots, DriverRollsBack, Idle, Actors
  <2>4. CASE UNCHANGED vars
    BY <2>4 DEF vars, gateVars, learningVars, RestInv, ActsShape, SlotsOfMode, WorkersHoldSlots,
                DriverRollsBack
  <2>5. QED
    BY <2>1, <2>2, <2>3, <2>4 DEF Next
<1>3. QED
  BY <1>1, <1>2, PTL DEF Spec

(* docs/ARCHITECTURE.md:50: between the drain of the requests and the end  *)
(* of the checkpoint only a restore_checkpoint without a slot changes what *)
(* is saved, however many threads call, and across crashes.                *)
THEOREM CheckpointIsAtRest == Spec => AtRestIsStill
<1> DEFINE Still == mode = "CHECKPOINTING" /\ mode' = mode /\ live' # live =>
                      \E c \in Workers : act[c].at \in {"load", "reload"} /\ NoSlot(c)
<1>1. RestInv /\ [Next]_vars => [Still]_<<live, mode>>
  <2> SUFFICES ASSUME RestInv, Next, mode = "CHECKPOINTING", mode' = mode, live' # live
               PROVE  \E c \in Workers : act[c].at \in {"load", "reload"} /\ NoSlot(c)
    BY DEF vars, learningVars, gateVars
  <2>1. requests = {} /\ tasks = {} /\ act[Driver].at \in {"idle"} \cup Saving
    BY DEF RestInv, SlotsOfMode, DriverRollsBack
  <2>2. LearningNext
    BY DEF Next, learningVars, Restart
  <2>3. PICK c \in Actors :
           \/ LoadModules(c) \/ LoadState(c) \/ EnterBody(c)
           \/ (c \in Workers /\ (\/ Adapt(c) \/ ExpertStep(c) \/ Recruit(c)
                                \/ Consolidate(c) \/ Train(c)))
    BY <2>2 DEF LearningNext, Actors, Work, Call, Checkpoint, Collect, Rejected, WriteTemporary,
                ReplaceFile, ComputeDigest, RecordDigest, SaveFails, Restore, RestoreContext,
                Unreadable, NightFalls, SavedElsewhere, RollBack, Morning, learningVars
  <2>4. CASE LoadModules(c) \/ LoadState(c)
    <3>1. act[c].at \in {"load", "reload"}
      BY <2>4 DEF LoadModules, LoadState
    <3>2. c \in Workers
      BY <2>1, <3>1 DEF Actors, Saving
    <3>3. QED
      BY <2>1, <3>1, <3>2 DEF NoSlot
  <2>5. CASE EnterBody(c)
    <3>1. act[c].at = "guard" /\ act[c].op \in {"adapt", "step"}
      BY <2>5 DEF EnterBody, live
    <3>2. c \in Workers
      BY <2>1, <3>1 DEF Actors, Saving
    <3>3. QED
      BY <2>1, <3>1, <3>2 DEF RestInv, WorkersHoldSlots
  <2>6. CASE c \in Workers /\ (Adapt(c) \/ ExpertStep(c) \/ Recruit(c) \/ Consolidate(c) \/ Train(c))
    <3>1. act[c].at = "body" /\ act[c].op \in {"adapt", "step", "recruit", "consolidate", "train"}
      BY <2>6 DEF Adapt, ExpertStep, Recruit, Consolidate, Train, EndBody
    <3>2. QED
      BY <2>1, <2>6, <3>1 DEF RestInv, WorkersHoldSlots
  <2>7. QED
    BY <2>3, <2>4, <2>5, <2>6
<1>2. QED
  BY <1>1, RestInductive, PTL DEF Spec, AtRestIsStill
-----------------------------------------------------------------------------
(* The pool of experts.  Whatever is done to it, each activation of a slot *)
(* stays accounted for, and so a pool that is saved or loaded is as sound  *)
(* as the one in use.                                                      *)

Counted(p) == p.recruited = Cardinality(Active(p)) + p.pruned + p.merged
PoolOK(p) ==
    /\ p = [slot |-> p.slot, recruited |-> p.recruited, pruned |-> p.pruned, merged |-> p.merged]
    /\ p.slot = [i \in Slots |-> p.slot[i]]
    /\ p.recruited \in Nat /\ p.pruned \in Nat /\ p.merged \in Nat
    /\ Counted(p)
    /\ Cardinality(Active(p)) \in MinExperts..MaxExperts
    /\ \A i \in Slots \ Active(p) : p.slot[i] = Blank

(* There are finitely many slots. *)
LEMMA SlotsAreFinite ==
    /\ IsFiniteSet(Slots) /\ Cardinality(Slots) = MaxExperts
    /\ \A p : IsFiniteSet(Active(p)) /\ Cardinality(Active(p)) \in Nat
<1>1. MaxExperts \in Nat /\ MaxExperts >= 1
  BY LearningAssumption DEF ValidPool
<1>2. IsFiniteSet(Slots) /\ Cardinality(Slots) = MaxExperts
  BY <1>1, FS_Interval DEF Slots
<1>3. \A p : Active(p) \subseteq Slots
  BY DEF Active
<1>4. \A p : IsFiniteSet(Active(p))
  BY <1>2, <1>3, FS_Subset
<1>5. QED
  BY <1>2, <1>4, FS_CardinalityType

(* The pool of a start. *)
LEMMA FirstPoolIsSound == PoolOK(FirstPool)
<1>1. MaxExperts \in Nat /\ MinExperts \in Nat /\ 1 <= MinExperts /\ MinExperts <= MaxExperts
  BY LearningAssumption DEF ValidPool
<1>2. Active(FirstPool) = 1..MinExperts
  BY <1>1 DEF Active, FirstPool, Slots, Fresh, Blank
<1>3. Cardinality(Active(FirstPool)) = MinExperts
  BY <1>1, <1>2, FS_Interval
<1>4. /\ FirstPool.recruited = MinExperts /\ FirstPool.pruned = 0 /\ FirstPool.merged = 0
      /\ FirstPool.slot = [i \in Slots |-> FirstPool.slot[i]]
      /\ FirstPool = [slot |-> FirstPool.slot, recruited |-> FirstPool.recruited,
                      pruned |-> FirstPool.pruned, merged |-> FirstPool.merged]
  BY DEF FirstPool
<1>5. \A i \in Slots \ Active(FirstPool) : FirstPool.slot[i] = Blank
  BY <1>1, <1>2 DEF FirstPool, Slots
<1>6. QED
  BY <1>1, <1>3, <1>4, <1>5 DEF PoolOK, Counted

(* One expert fewer, by pruning or by merging. *)
LEMMA OneFewer ==
    ASSUME NEW p, PoolOK(p), Cardinality(Active(p)) > MinExperts,
           NEW q, NEW i \in Active(p),
           q = [slot |-> q.slot, recruited |-> q.recruited, pruned |-> q.pruned,
                merged |-> q.merged],
           q.slot = [j \in Slots |-> q.slot[j]],
           Active(q) = Active(p) \ {i}, q.slot[i] = Blank,
           \A j \in Slots \ Active(p) : q.slot[j] = p.slot[j],
           q.recruited = p.recruited,
           \/ q.pruned = p.pruned + 1 /\ q.merged = p.merged
           \/ q.pruned = p.pruned /\ q.merged = p.merged + 1
    PROVE  PoolOK(q)
<1>1. MaxExperts \in Nat /\ MinExperts \in Nat
  BY LearningAssumption DEF ValidPool
<1>2. /\ p.recruited \in Nat /\ p.pruned \in Nat /\ p.merged \in Nat
      /\ p.recruited = Cardinality(Active(p)) + p.pruned + p.merged
      /\ Cardinality(Active(p)) \in MinExperts..MaxExperts
  BY DEF PoolOK, Counted
<1>3. IsFiniteSet(Active(p)) /\ Cardinality(Active(p)) \in Nat
  BY SlotsAreFinite
<1>4. Cardinality(Active(q)) = Cardinality(Active(p)) - 1
  BY <1>3, FS_RemoveElement
<1>5. /\ q.recruited \in Nat /\ q.pruned \in Nat /\ q.merged \in Nat
      /\ q.recruited = Cardinality(Active(q)) + q.pruned + q.merged
      /\ Cardinality(Active(q)) \in MinExperts..MaxExperts
  BY <1>1, <1>2, <1>3, <1>4
<1>6. \A j \in Slots \ Active(q) : q.slot[j] = Blank
  BY DEF PoolOK
<1>7. QED
  BY <1>5, <1>6 DEF PoolOK, Counted

(* maintain_ leaves a sound pool, also when it finds nothing to do. *)
LEMMA MaintainedIsSound ==
    ASSUME NEW p, PoolOK(p), NEW q \in Maintained(p)
    PROVE  PoolOK(q)
<1>0. /\ p = [slot |-> p.slot, recruited |-> p.recruited, pruned |-> p.pruned,
              merged |-> p.merged]
      /\ p.slot = [i \in Slots |-> p.slot[i]]
  BY DEF PoolOK
<1>1. CASE Cardinality(Active(p)) <= MinExperts
  BY <1>1 DEF Maintained
<1>2. CASE ~(Cardinality(Active(p)) <= MinExperts) /\ Prunable(p) # {}
  <2>1. PICK i \in Prunable(p) : q = [p EXCEPT !.slot[i] = Blank, !.pruned = @ + 1]
    BY <1>2 DEF Maintained
  <2>2. q = [slot |-> [j \in Slots |-> IF j = i THEN Blank ELSE p.slot[j]],
             recruited |-> p.recruited, pruned |-> p.pruned + 1, merged |-> p.merged]
    BY <1>0, <2>1
  <2>3. i \in Active(p) /\ i \in Slots
    BY DEF Prunable, Active
  <2>4. Active(q) = Active(p) \ {i}
    BY <2>2, <2>3 DEF Active, Blank
  <2>5. Cardinality(Active(p)) > MinExperts
    BY <1>2, SlotsAreFinite, LearningAssumption DEF ValidPool
  <2>6. QED
    BY <2>2, <2>3, <2>4, <2>5, OneFewer DEF Active
<1>3. CASE ~(Cardinality(Active(p)) <= MinExperts) /\ Prunable(p) = {}
  <2>1. PICK m \in Merges(p) :
          q = [p EXCEPT !.slot[m.into] = [on |-> TRUE, warm |-> m.warm,
                                          age |-> Older(p.slot[m.into], p.slot[m.gone])],
                        !.slot[m.gone] = Blank,
                        !.merged = @ + 1]
    BY <1>3 DEF Maintained
  <2> DEFINE one == [on |-> TRUE, warm |-> m.warm,
                     age |-> Older(p.slot[m.into], p.slot[m.gone])]
  <2>2. m.into \in Active(p) /\ m.gone \in Active(p) /\ m.into < m.gone
    BY DEF Merges
  <2>3. m.into # m.gone /\ m.into \in Slots /\ m.gone \in Slots
    BY <2>2 DEF Active, Slots
  <2>4. q = [slot |-> [j \in Slots |-> IF j = m.gone THEN Blank
                                       ELSE IF j = m.into THEN one ELSE p.slot[j]],
             recruited |-> p.recruited, pruned |-> p.pruned, merged |-> p.merged + 1]
    BY <1>0, <2>1, <2>3
  <2>5. Active(q) = Active(p) \ {m.gone}
    BY <2>2, <2>3, <2>4 DEF Active, Blank
  <2>6. Cardinality(Active(p)) > MinExperts
    BY <1>3, SlotsAreFinite, LearningAssumption DEF ValidPool
  <2>7. QED
    BY <2>2, <2>3, <2>4, <2>5, <2>6, OneFewer DEF Active
<1>4. QED
  BY <1>1, <1>2, <1>3

(* The slot recruit_ activates is a free one. *)
LEMMA LowestIsFree ==
    ASSUME NEW S \in SUBSET Slots, S # {}
    PROVE  (CHOOSE i \in S : \A j \in S : i <= j) \in S
<1>1. S \subseteq Nat
  BY DEF Slots
<1>2. PICK x \in S : \A y \in S : ~(<<y, x>> \in OpToRel(<, Nat))
  BY <1>1, NatLessThanWellFounded, WFMin
<1>3. \A y \in S : x <= y
  <2> SUFFICES ASSUME NEW y \in S, y < x PROVE FALSE
    BY <1>1
  <2>1. <<y, x>> \in OpToRel(<, Nat)
    BY <1>1 DEF OpToRel
  <2>2. QED
    BY <1>2, <2>1
<1>4. QED
  BY <1>3

(* recruit_: the pool is as sound with the new expert as it was without. *)
LEMMA RecruitedIsSound ==
    ASSUME NEW p, PoolOK(p), NEW q \in Recruited(p)
    PROVE  PoolOK(q)
<1> DEFINE room == IF Cardinality(Active(p)) >= MaxExperts THEN Maintained(p) ELSE {p}
           lowest(r) == CHOOSE i \in Slots \ Active(r) : \A j \in Slots \ Active(r) : i <= j
<1>1. PICK r \in room :
        q = IF Active(r) = Slots THEN r
            ELSE [r EXCEPT !.slot[lowest(r)] = Fresh, !.recruited = @ + 1]
  BY DEF Recruited
<1>2. PoolOK(r)
  BY MaintainedIsSound
<1>3. CASE Active(r) = Slots
  BY <1>1, <1>2, <1>3
<1>4. CASE Active(r) # Slots
  <2>1. Slots \ Active(r) # {} /\ Active(r) \subseteq Slots
    BY <1>4 DEF Active
  <2>2. PICK i \in Slots \ Active(r) : i = lowest(r)
    BY <2>1, LowestIsFree
  <2>3. q = [slot |-> [j \in Slots |-> IF j = i THEN Fresh ELSE r.slot[j]],
             recruited |-> r.recruited + 1, pruned |-> r.pruned, merged |-> r.merged]
    BY <1>1, <1>2, <1>4, <2>2 DEF PoolOK
  <2>4. Active(q) = Active(r) \cup {i}
    BY <2>2, <2>3 DEF Active, Fresh, Blank
  <2>5. /\ IsFiniteSet(Active(r)) /\ Cardinality(Active(r)) \in Nat
        /\ IsFiniteSet(Slots) /\ Cardinality(Slots) = MaxExperts
    BY SlotsAreFinite
  <2>6. Cardinality(Active(q)) = Cardinality(Active(r)) + 1
    BY <2>2, <2>4, <2>5, FS_AddElement
  <2>7. Cardinality(Active(q)) <= MaxExperts
    BY <2>1, <2>2, <2>4, <2>5, FS_Subset
  <2>8. MaxExperts \in Nat /\ MinExperts \in Nat
    BY LearningAssumption DEF ValidPool
  <2>9. /\ r.recruited \in Nat /\ r.pruned \in Nat /\ r.merged \in Nat
        /\ r.recruited = Cardinality(Active(r)) + r.pruned + r.merged
        /\ Cardinality(Active(r)) \in MinExperts..MaxExperts
    BY <1>2 DEF PoolOK, Counted
  <2>10. q.recruited = r.recruited + 1 /\ q.pruned = r.pruned /\ q.merged = r.merged
    BY <2>3
  <2>11. /\ q.recruited \in Nat /\ q.pruned \in Nat /\ q.merged \in Nat
         /\ q.recruited = Cardinality(Active(q)) + q.pruned + q.merged
         /\ Cardinality(Active(q)) \in MinExperts..MaxExperts
    BY <2>5, <2>6, <2>7, <2>8, <2>9, <2>10
  <2>12. \A j \in Slots \ Active(q) : q.slot[j] = Blank
    BY <1>2, <2>3, <2>4 DEF PoolOK
  <2>13. /\ q = [slot |-> q.slot, recruited |-> q.recruited, pruned |-> q.pruned,
                 merged |-> q.merged]
         /\ q.slot = [j \in Slots |-> q.slot[j]]
    BY <2>3
  <2>14. QED
    BY <2>11, <2>12, <2>13 DEF PoolOK, Counted
<1>5. QED
  BY <1>3, <1>4

(* update_usage_ activates and releases nothing. *)
LEMMA UsedIsSound ==
    ASSUME NEW p, PoolOK(p), NEW routed, NEW cooled
    PROVE  PoolOK(Used(p, routed, cooled))
<1> DEFINE q == Used(p, routed, cooled)
           used(i) == [on |-> TRUE,
                       age |-> IF p.slot[i].age < MinimumAge THEN p.slot[i].age + 1
                               ELSE MinimumAge,
                       warm |-> i \notin cooled /\ (i \in routed \/ p.slot[i].warm)]
           slots == [i \in Slots |-> IF ~p.slot[i].on THEN p.slot[i] ELSE used(i)]
<1>0. q = [p EXCEPT !.slot = slots]
  BY DEF Used
<1>1. q = [slot |-> slots, recruited |-> p.recruited, pruned |-> p.pruned,
           merged |-> p.merged]
  <2> HIDE DEF slots, q
  <2> QED
    BY <1>0 DEF PoolOK
<1>2. \A i : used(i).on = TRUE
  OBVIOUS
<1> HIDE DEF used, q
<1>3. Active(q) = Active(p)
  BY <1>1, <1>2 DEF Active
<1>4. \A i \in Slots \ Active(p) : q.slot[i] = p.slot[i]
  BY <1>1 DEF Active
<1>5. /\ q.recruited = p.recruited /\ q.pruned = p.pruned /\ q.merged = p.merged
      /\ q = [slot |-> q.slot, recruited |-> q.recruited, pruned |-> q.pruned,
              merged |-> q.merged]
      /\ q.slot = [i \in Slots |-> q.slot[i]]
  BY <1>1
<1>6. PoolOK(q)
  BY <1>3, <1>4, <1>5 DEF PoolOK, Counted
<1>7. QED
  BY <1>6 DEF q
-----------------------------------------------------------------------------
(* What is learned.  Whoever has entered a body or loads a file holds the  *)
(* guard, so that what it has read is still what is live; and what a file  *)
(* holds, or a restore is about to load, is as sound as the live state it  *)
(* was written from.                                                       *)

SnapshotsOK(s) == s \in Seq(ToSet(s)) /\ Len(s) <= MaxDomains
SavedOK(f) == f.stream \in Nat /\ PoolOK(f.pool) /\ SnapshotsOK(f.snapshots)

LiveOK ==
    /\ unsafe \subseteq {"swarm", "experts"}
    /\ stream \in Nat
    /\ PoolOK(pool)
    /\ SnapshotsOK(snapshots)
    /\ ~restored => domains = snapshots

Ops == {"idle", "adapt", "step", "recruit", "consolidate", "train", "checkpoint", "restore"}
Places == {"idle", "guard", "body", "context", "load", "reload"} \cup Saving
Guarded == {"body", "load", "reload"}

PlaceOK(c) ==
    /\ act[c].op \in Ops /\ act[c].at \in Places
    /\ act[c].at \in Guarded => guard = c
    /\ act[c].at = "body" /\ act[c].op = "adapt" => act[c].data = stream /\ "swarm" \notin unsafe
    /\ act[c].at = "body" /\ act[c].op = "step" =>
         act[c].data \subseteq Active(pool) /\ "experts" \notin unsafe
    /\ act[c].at = "context" => file # None
    /\ act[c].at = "guard" /\ act[c].op = "restore" => SavedOK(act[c].data)
    /\ act[c].at \in {"load", "reload"} => SavedOK(act[c].data)
    /\ act[c].at = "reload" => pool = act[c].data.pool
    /\ act[c].at = "write" => act[c].data.stream \in Nat /\ SnapshotsOK(act[c].data.snapshots)
PlacesOK == \A c \in Actors : PlaceOK(c)

FilesOK ==
    /\ tmp \notin {None, Torn} => SavedOK(tmp)
    /\ file \notin {None, Torn} => SavedOK(file)

(* As long as nothing is spoiled: one checkpoint at a time, what it has    *)
(* computed the digest of, and the pair before and after it.               *)
PairOK ==
    ~spoiled =>
       /\ \A c, d \in Actors : act[c].at \in Saving /\ act[d].at \in Saving => c = d
       /\ \A c \in Actors : act[c].at = "record" => act[c].data = file
       /\ (\A c \in Actors : act[c].at \notin BetweenFiles) => digest = file

LearningInv == ActsShape /\ LiveOK /\ PlacesOK /\ FilesOK /\ PairOK

(* A sequence is one of its own elements. *)
LEMMA OfOwnElements ==
    ASSUME NEW S, NEW s \in Seq(S)
    PROVE  s \in Seq(ToSet(s))
<1>1. s \in [1..Len(s) -> ToSet(s)] /\ Len(s) \in Nat
  BY DEF ToSet
<1>2. QED
  BY <1>1

(* consolidate never outgrows its budget, and as long as no file was       *)
(* loaded it treats the records as it treats the snapshots.                *)
LEMMA ConsolidatedFits ==
    ASSUME LiveOK
    PROVE  /\ SnapshotsOK(Consolidated.snapshots)
           /\ ~restored => Consolidated.domains = Consolidated.snapshots
<1> DEFINE known == UNION (ToSet(snapshots) \cup ToSet(domains))
           new == CHOOSE n \in 1..(Cardinality(known) + 1) : n \notin known
           snaps == Snapped({new})
           names == Append(domains, {new})
<1>1. /\ snapshots \in Seq(ToSet(snapshots)) /\ Len(snapshots) <= MaxDomains
      /\ MaxDomains \in Nat /\ MaxDomains >= 1
  BY LearningAssumption DEF LiveOK, SnapshotsOK, ValidLifecycle
<1> HIDE DEF new
<1> DEFINE S == ToSet(snapshots) \cup {{new}}
<1>2. snaps \in Seq(S) /\ Len(snaps) = Len(snapshots) + 1
  <2>1. snapshots \in Seq(S)
    BY <1>1
  <2> HIDE DEF S
  <2>2. {new} \in S
    BY DEF S
  <2>3. QED
    BY <2>1, <2>2 DEF Snapped
<1>3. ~restored => names = snaps
  BY DEF LiveOK, Snapped
<1> DEFINE one == snaps[1] \cup snaps[2]
           merged == MergeOldest(snaps)
<1>4. Consolidated = IF Len(snaps) <= MaxDomains
                       THEN [snapshots |-> snaps, domains |-> names]
                       ELSE [snapshots |-> merged,
                             domains |-> IF Len(names) < 2 THEN names ELSE MergeOldest(names)]
  BY DEF Consolidated, new
<1> HIDE DEF snaps, names, S, merged
<1>5. CASE Len(snaps) <= MaxDomains
  <2>1. snaps \in Seq(ToSet(snaps))
    BY <1>2, OfOwnElements
  <2>2. QED
    BY <1>3, <1>4, <1>5, <2>1 DEF SnapshotsOK
<1>6. CASE ~(Len(snaps) <= MaxDomains)
  <2>1. Len(snaps) \in Nat /\ Len(snaps) >= 2 /\ Len(snaps) <= MaxDomains + 1
    BY <1>1, <1>2, <1>6
  <2> DEFINE T == S \cup {one}
             rest == SubSeq(snaps, 3, Len(snaps))
  <2>2. snaps \in Seq(T)
    BY <1>2
  <2>3. one \in T
    OBVIOUS
  <2> HIDE DEF T, one
  <2>4. rest \in Seq(T) /\ Len(rest) = Len(snaps) - 2
    <3>1. \A i \in 3..Len(snaps) : snaps[i] \in T
      BY <2>1, <2>2
    <3>2. 3 \in Int /\ Len(snaps) \in Int
      BY <2>1
    <3>3. /\ SubSeq(snaps, 3, Len(snaps)) \in Seq(T)
          /\ Len(SubSeq(snaps, 3, Len(snaps))) =
               IF 3 <= Len(snaps) THEN Len(snaps) - 3 + 1 ELSE 0
      BY <3>1, <3>2, SubSeqProperties
    <3> HIDE DEF rest
    <3>4. rest \in Seq(T) /\ Len(rest) = IF 3 <= Len(snaps) THEN Len(snaps) - 3 + 1 ELSE 0
      BY <3>3 DEF rest
    <3>5. \A n \in Nat : n >= 2 => (IF 3 <= n THEN n - 3 + 1 ELSE 0) = n - 2
      OBVIOUS
    <3>6. QED
      BY <2>1, <3>4, <3>5
  <2>5. <<one>> \in Seq(T) /\ Len(<<one>>) = 1
    BY <2>3
  <2> HIDE DEF rest
  <2>6. <<one>> \o rest \in Seq(T) /\ Len(<<one>> \o rest) = Len(snaps) - 1
    BY <2>1, <2>4, <2>5
  <2>7. merged = <<one>> \o rest
    BY DEF merged, MergeOldest, one, rest
  <2>8. merged \in Seq(T) /\ Len(merged) <= MaxDomains
    BY <1>1, <2>1, <2>6, <2>7
  <2>9. ~restored => Len(names) >= 2 /\ MergeOldest(names) = merged
    BY <1>3, <2>1 DEF merged
  <2>10. Consolidated.snapshots = merged /\ (~restored => Consolidated.domains = merged)
    BY <1>4, <1>6, <2>9, <2>1, <1>3
  <2>11. merged \in Seq(ToSet(merged))
    BY <2>8, OfOwnElements
  <2>12. QED
    BY <2>8, <2>10, <2>11 DEF SnapshotsOK
<1>7. QED
  BY <1>5, <1>6

(* The others, when c takes a step: they are not under the guard, or what  *)
(* they have read stands.                                                  *)
LEMMA OthersPlaced ==
    ASSUME PlacesOK, NEW c \in Actors, NEW d \in Actors \ {c}, act'[d] = act[d],
           \/ guard' = guard /\ pool' = pool /\ stream' = stream /\ unsafe' \subseteq unsafe
           \/ guard \in {c, None},
           file' = file \/ file' # None
    PROVE  PlaceOK(d)'
<1>1. d # None /\ d # c
  BY CallersAssumption
<1>2. QED
  BY <1>1 DEF PlacesOK, PlaceOK, Guarded

LEMMA PlacesFollow ==
    ASSUME PlacesOK, NEW c \in Actors, \A d \in Actors \ {c} : act'[d] = act[d],
           \/ guard' = guard /\ pool' = pool /\ stream' = stream /\ unsafe' \subseteq unsafe
           \/ guard \in {c, None},
           file' = file \/ file' # None,
           PlaceOK(c)'
    PROVE  PlacesOK'
  BY OthersPlaced DEF PlacesOK

(* No checkpoint begins, goes on or ends. *)
LEMMA PairStands ==
    ASSUME PairOK, NEW c \in Actors, \A d \in Actors \ {c} : act'[d] = act[d],
           act[c].at \notin Saving, act'[c].at \notin Saving,
           UNCHANGED files, spoiled' = spoiled
    PROVE  PairOK' /\ (FilesOK => FilesOK')
<1>1. tmp' = tmp /\ file' = file /\ digest' = digest
  BY DEF files
<1>2. \A d \in Actors : act'[d].at \in Saving => d # c
  OBVIOUS
<1>3. \A d \in Actors : act'[d].at \in Saving => act'[d] = act[d]
  BY <1>2
<1>4. (\A d \in Actors : act'[d].at \notin BetweenFiles)
        => \A d \in Actors : act[d].at \notin BetweenFiles
  BY DEF Saving, BetweenFiles
<1>5. \A d \in Actors : act'[d].at = "record" => act'[d] = act[d]
  BY <1>3 DEF Saving
<1>6. PairOK'
  BY <1>1, <1>3, <1>4, <1>5 DEF PairOK
<1>7. QED
  BY <1>1, <1>6 DEF FilesOK

(* The slots are entered, bodies are entered and refused. *)
LEMMA LearningOfEntry ==
    ASSUME LearningInv, NEW c \in Actors, (c \in Workers /\ Work(c)) \/ EnterBody(c) \/ Rejected(c)
    PROVE  LearningInv'
<1>0. ActsShape /\ LiveOK /\ PlacesOK /\ PlaceOK(c) /\ FilesOK /\ PairOK
  BY DEF LearningInv, PlacesOK
<1>1. CASE c \in Workers /\ Work(c)
  <2>1. PICK o \in {"adapt", "step", "recruit", "consolidate", "train"} :
           Call(c, o) /\ (InferenceSlot(c) \/ EvolutionSlot(c))
    BY <1>1 DEF Work
  <2>2. /\ ActsShape' /\ \A e \in Actors \ {c} : act'[e] = act[e]
        /\ act'[c].op = o /\ act'[c].at = "guard"
    <3>1. act' = [e \in Actors |-> IF e = c THEN [op |-> o, at |-> "guard", data |-> None]
                                   ELSE act[e]]
      BY <1>0, <2>1 DEF Call, ActsShape
    <3>2. QED
      BY <1>0, <3>1 DEF ActsShape
  <2>3. UNCHANGED <<guard, live, domains, files, restored, spoiled>> /\ act[c].at = "idle"
    BY <2>1 DEF Call, InferenceSlot, EvolutionSlot
  <2>4. PlaceOK(c)'
    BY <2>2 DEF PlaceOK, Ops, Places, Guarded
  <2>5. PlacesOK'
    BY <1>0, <2>2, <2>3, <2>4, PlacesFollow DEF live, files
  <2>6. PairOK' /\ FilesOK'
    BY <1>0, <2>2, <2>3, PairStands DEF Saving
  <2>7. LiveOK'
    BY <1>0, <2>3 DEF LiveOK, live
  <2>8. QED
    BY <2>2, <2>5, <2>6, <2>7 DEF LearningInv
<1>2. CASE EnterBody(c)
  <2>1. /\ act[c].at = "guard" /\ guard = None /\ guard' = c
        /\ UNCHANGED <<pool, stream, snapshots, domains, files, restored, spoiled>>
    BY <1>2 DEF EnterBody, Enforce
  <2>2. \/ /\ act[c].op = "adapt" /\ unsafe' = SwarmEnsured /\ GoWith(c, "body", stream)
        \/ /\ act[c].op = "step" /\ unsafe' = ExpertsEnsured
           /\ \E routed \in Routes : GoWith(c, "body", routed)
        \/ act[c].op \in {"recruit", "consolidate", "train"} /\ Go(c, "body") /\ unsafe' = unsafe
        \/ act[c].op = "restore" /\ Go(c, "load") /\ unsafe' = unsafe
    BY <1>2 DEF EnterBody
  <2>3. /\ ActsShape' /\ \A e \in Actors \ {c} : act'[e] = act[e]
        /\ act'[c].at \in {"body", "load"} /\ PlaceOK(c)'
    <3>1. CASE act[c].op = "adapt" /\ unsafe' = SwarmEnsured /\ GoWith(c, "body", stream)
      <4>1. /\ ActsShape' /\ \A e \in Actors \ {c} : act'[e] = act[e]
            /\ act'[c].at = "body" /\ act'[c].op = "adapt" /\ act'[c].data = stream
        BY <1>0, <3>1, WentWith
      <4>2. "swarm" \notin unsafe'
        BY <3>1 DEF SwarmEnsured
      <4>3. QED
        BY <2>1, <4>1, <4>2 DEF PlaceOK, Ops, Places, Guarded
    <3>2. CASE /\ act[c].op = "step" /\ unsafe' = ExpertsEnsured
               /\ \E routed \in Routes : GoWith(c, "body", routed)
      <4>1. PICK routed \in Routes : GoWith(c, "body", routed)
        BY <3>2
      <4>2. /\ ActsShape' /\ \A e \in Actors \ {c} : act'[e] = act[e]
            /\ act'[c].at = "body" /\ act'[c].op = "step" /\ act'[c].data = routed
        BY <1>0, <3>2, <4>1, WentWith
      <4>3. "experts" \notin unsafe' /\ routed \subseteq Active(pool)
        BY <3>2 DEF ExpertsEnsured, Routes
      <4>4. act'[c].data \subseteq Active(pool')
        BY <2>1, <4>2, <4>3
      <4>5. QED
        BY <2>1, <4>2, <4>3, <4>4 DEF PlaceOK, Ops, Places, Guarded
    <3>3. CASE act[c].op \in {"recruit", "consolidate", "train"} /\ Go(c, "body")
      <4>1. /\ ActsShape' /\ \A e \in Actors \ {c} : act'[e] = act[e]
            /\ act'[c].at = "body" /\ act'[c].op = act[c].op
        BY <1>0, <3>3, Went
      <4>2. QED
        BY <2>1, <3>3, <4>1 DEF PlaceOK, Ops, Places, Guarded
    <3>4. CASE act[c].op = "restore" /\ Go(c, "load")
      <4>1. /\ ActsShape' /\ \A e \in Actors \ {c} : act'[e] = act[e]
            /\ act'[c].at = "load" /\ act'[c].op = "restore" /\ act'[c].data = act[c].data
        BY <1>0, <3>4, Went
      <4>2. SavedOK(act[c].data)
        BY <1>0, <2>1, <3>4 DEF PlaceOK
      <4>3. SavedOK(act'[c].data)
        BY <4>1, <4>2
      <4>4. QED
        BY <2>1, <4>1, <4>3 DEF PlaceOK, Ops, Places, Guarded
    <3>5. QED
      BY <2>2, <3>1, <3>2, <3>3, <3>4
  <2>4. PlacesOK'
    BY <1>0, <2>1, <2>3, PlacesFollow DEF files
  <2>5. PairOK' /\ FilesOK'
    BY <1>0, <2>1, <2>3, PairStands DEF Saving
  <2>6. unsafe' \subseteq unsafe
    BY <2>2 DEF SwarmEnsured, ExpertsEnsured
  <2>7. LiveOK'
    BY <1>0, <2>1, <2>6 DEF LiveOK
  <2>8. QED
    BY <2>3, <2>4, <2>5, <2>7 DEF LearningInv
<1>3. CASE Rejected(c)
  <2>1. /\ act[c].at \in {"guard", "body", "load"}
        /\ guard' = guard \/ guard = c
        /\ Return(c) /\ UNCHANGED <<live, domains, files, restored, spoiled>>
    BY <1>3 DEF Rejected, NotAdmitted, Misfit, Leave
  <2>2. /\ ActsShape' /\ \A e \in Actors \ {c} : act'[e] = act[e]
        /\ act'[c].at = "idle" /\ act'[c].op = "idle"
    BY <1>0, <2>1, Returned
  <2>3. PlaceOK(c)'
    BY <2>2 DEF PlaceOK, Ops, Places, Guarded
  <2>4. PlacesOK'
    BY <1>0, <2>1, <2>2, <2>3, PlacesFollow DEF live, files
  <2>5. PairOK' /\ FilesOK'
    BY <1>0, <2>1, <2>2, PairStands DEF Saving
  <2>6. LiveOK'
    BY <1>0, <2>1 DEF LiveOK, live
  <2>7. QED
    BY <2>2, <2>4, <2>5, <2>6 DEF LearningInv
<1>4. QED
  BY <1>1, <1>2, <1>3

(* The bodies of the day and of the night end. *)
LEMMA LearningOfBodies ==
    ASSUME LearningInv, NEW c \in Workers,
           Adapt(c) \/ ExpertStep(c) \/ Recruit(c) \/ Consolidate(c) \/ Train(c)
    PROVE  LearningInv'
<1>0. /\ ActsShape /\ LiveOK /\ PlacesOK /\ FilesOK /\ PairOK
      /\ c \in Actors /\ PlaceOK(c)
  BY DEF LearningInv, PlacesOK, Actors
<1>1. EndBody(c)
  BY DEF Adapt, ExpertStep, Recruit, Consolidate, Train
<1>2. /\ act[c].at = "body" /\ Return(c) /\ UNCHANGED <<files, restored, spoiled>>
  BY <1>1 DEF EndBody
<1>3. guard = c
  BY <1>0, <1>2 DEF PlaceOK, Guarded
<1>4. /\ ActsShape' /\ \A e \in Actors \ {c} : act'[e] = act[e]
      /\ act'[c].at = "idle" /\ act'[c].op = "idle"
  BY <1>0, <1>2, Returned
<1>5. PlaceOK(c)'
  BY <1>4 DEF PlaceOK, Ops, Places, Guarded
<1>6. PlacesOK'
  BY <1>0, <1>2, <1>3, <1>4, <1>5, PlacesFollow DEF files
<1>7. PairOK' /\ FilesOK'
  BY <1>0, <1>2, <1>4, PairStands DEF Saving
<1>8. LiveOK'
  <2>1. CASE Adapt(c)
    <3>1. act[c].data = stream
      BY <1>0, <1>2, <2>1 DEF Adapt, PlaceOK
    <3>2. stream' = stream + 1
      BY <2>1, <3>1 DEF Adapt
    <3>3. QED
      BY <1>0, <1>2, <2>1, <3>2 DEF Adapt, LiveOK
  <2>2. CASE ExpertStep(c)
    <3>1. pool' = pool \/ \E cooled : pool' = Used(pool, act[c].data, cooled)
      BY <2>2 DEF ExpertStep
    <3>2. PoolOK(pool')
      BY <1>0, <3>1, UsedIsSound DEF LiveOK
    <3>3. QED
      BY <1>0, <1>2, <2>2, <3>2 DEF ExpertStep, LiveOK
  <2>3. CASE Recruit(c)
    <3>1. pool' = pool \/ pool' \in Recruited(pool)
      BY <2>3 DEF Recruit
    <3>2. PoolOK(pool')
      BY <1>0, <3>1, RecruitedIsSound DEF LiveOK
    <3>3. QED
      BY <1>0, <1>2, <2>3, <3>2 DEF Recruit, LiveOK
  <2>4. CASE Consolidate(c)
    <3>1. /\ snapshots' = Consolidated.snapshots /\ domains' = Consolidated.domains
          /\ UNCHANGED <<pool, stream, unsafe>>
      BY <2>4 DEF Consolidate
    <3>2. SnapshotsOK(Consolidated.snapshots)
          /\ (~restored => Consolidated.domains = Consolidated.snapshots)
      BY <1>0, ConsolidatedFits
    <3>3. SnapshotsOK(snapshots')
      BY <3>1, <3>2
    <3>4. QED
      BY <1>0, <1>2, <3>1, <3>2, <3>3 DEF LiveOK
  <2>5. CASE Train(c)
    BY <1>0, <1>2, <2>5 DEF Train, LiveOK
  <2>6. QED
    BY <2>1, <2>2, <2>3, <2>4, <2>5
<1>9. QED
  BY <1>4, <1>6, <1>7, <1>8 DEF LearningInv

(* A checkpoint begins: what it collects is sound.  A second one under way *)
(* spoils the pair of files.                                               *)
LEMMA LearningOfCollect ==
    ASSUME LearningInv, NEW c \in Actors, act[c].at = "idle", Collect(c), guard' = guard
    PROVE  LearningInv'
<1>0. ActsShape /\ LiveOK /\ PlacesOK /\ FilesOK /\ PairOK
  BY DEF LearningInv, gateVars
<1>1. /\ ActsShape' /\ \A e \in Actors \ {c} : act'[e] = act[e]
      /\ act'[c].at = "write" /\ act'[c].op = "checkpoint"
      /\ act'[c].data.stream = stream /\ act'[c].data.snapshots = snapshots
  BY <1>0, Collected
<1>2. /\ UNCHANGED <<live, domains, files, restored>>
      /\ spoiled' = (spoiled \/ Savers \ {c} # {})
  BY DEF Collect
<1>3. LiveOK' /\ FilesOK'
  BY <1>0, <1>2 DEF LiveOK, FilesOK, live, files
<1>4. SnapshotsOK(act'[c].data.snapshots) /\ act'[c].data.stream \in Nat
  BY <1>0, <1>1 DEF LiveOK
<1>5. PlaceOK(c)'
  BY <1>1, <1>4 DEF PlaceOK, Ops, Places, Guarded, Saving
<1>6. PlacesOK'
  BY <1>0, <1>1, <1>2, <1>5, PlacesFollow DEF live, files
<1>7. PairOK'
  <2> SUFFICES ASSUME ~spoiled'
               PROVE  /\ \A d \in Actors \ {c} : act'[d].at \notin Saving
                      /\ digest' = file'
    BY <1>1 DEF PairOK, Saving
  <2>1. ~spoiled /\ \A d \in Actors \ {c} : act[d].at \notin Saving
    BY <1>2 DEF Savers
  <2>2. \A d \in Actors : act[d].at \notin BetweenFiles
    BY <2>1 DEF Saving, BetweenFiles
  <2>3. digest = file
    BY <1>0, <2>1, <2>2 DEF PairOK
  <2>4. QED
    BY <1>1, <1>2, <2>1, <2>3 DEF files
<1>8. QED
  BY <1>1, <1>3, <1>6, <1>7 DEF LearningInv

(* The two files are written.  Only the one checkpoint under way touches   *)
(* them as long as nothing is spoiled.                                     *)
LEMMA LearningOfFiles ==
    ASSUME LearningInv, NEW c \in Actors,
           \/ WriteTemporary(c) \/ ReplaceFile(c) \/ ComputeDigest(c) \/ RecordDigest(c)
           \/ SaveFails(c)
    PROVE  LearningInv'
<1>0. ActsShape /\ LiveOK /\ PlacesOK /\ FilesOK /\ PairOK /\ PlaceOK(c)
  BY DEF LearningInv, PlacesOK
<1>1. /\ guard' = guard /\ UNCHANGED <<live, domains, restored>>
      /\ act[c].at \in Saving
  BY DEF WriteTemporary, ReplaceFile, ComputeDigest, RecordDigest, SaveFails, EndSave,
         EndCheckpoint, gateVars, Saving
<1>2. LiveOK'
  BY <1>0, <1>1 DEF LiveOK, live
<1>3. ASSUME ~spoiled
      PROVE  \A d \in Actors \ {c} : act[d].at \notin Saving
  BY <1>0, <1>1, <1>3 DEF PairOK
<1>4. CASE WriteTemporary(c)
  <2>1. /\ act[c].at = "write" /\ Go(c, "replace") /\ UNCHANGED <<file, digest, spoiled>>
        /\ tmp' = [pool |-> pool, stream |-> act[c].data.stream,
                   snapshots |-> act[c].data.snapshots]
    BY <1>4 DEF WriteTemporary
  <2>2. /\ ActsShape' /\ \A e \in Actors \ {c} : act'[e] = act[e]
        /\ act'[c].at = "replace" /\ act'[c].op = act[c].op
    BY <1>0, <2>1, Went
  <2>3. PoolOK(pool) /\ act[c].data.stream \in Nat /\ SnapshotsOK(act[c].data.snapshots)
    BY <1>0, <2>1 DEF LiveOK, PlaceOK
  <2>4. SavedOK(tmp')
    BY <2>1, <2>3 DEF SavedOK
  <2>5. FilesOK'
    BY <1>0, <2>1, <2>4 DEF FilesOK
  <2>6. PlaceOK(c)'
    BY <1>0, <2>2 DEF PlaceOK, Ops, Places, Guarded, Saving
  <2>7. PlacesOK'
    BY <1>0, <1>1, <2>1, <2>2, <2>6, PlacesFollow DEF live
  <2>8. PairOK'
    <3> SUFFICES ASSUME ~spoiled' PROVE PairOK'
      BY DEF PairOK
    <3>1. \A d \in Actors : act[d].at \notin BetweenFiles
      BY <1>3, <2>1 DEF Saving, BetweenFiles
    <3>2. digest = file
      BY <1>0, <2>1, <3>1 DEF PairOK
    <3>3. QED
      BY <1>3, <2>1, <2>2, <3>2 DEF PairOK, Saving
  <2>9. QED
    BY <1>2, <2>2, <2>5, <2>7, <2>8 DEF LearningInv
<1>5. CASE ReplaceFile(c)
  <2>1. /\ act[c].at = "replace" /\ UNCHANGED <<digest, spoiled>>
        /\ tmp # None /\ file' = tmp /\ tmp' = None /\ Go(c, "digest")
    BY <1>5 DEF ReplaceFile
  <2>2. /\ ActsShape' /\ \A e \in Actors \ {c} : act'[e] = act[e]
        /\ act'[c].at = "digest" /\ act'[c].op = act[c].op
    BY <1>0, <2>1, Went
  <2>3. FilesOK'
    BY <1>0, <2>1 DEF FilesOK
  <2>4. PlaceOK(c)'
    BY <1>0, <2>2 DEF PlaceOK, Ops, Places, Guarded, Saving
  <2>5. PlacesOK'
    BY <1>0, <1>1, <2>1, <2>2, <2>4, PlacesFollow DEF live
  <2>6. PairOK'
    BY <1>3, <2>1, <2>2 DEF PairOK, Saving, BetweenFiles
  <2>7. QED
    BY <1>2, <2>2, <2>3, <2>5, <2>6 DEF LearningInv
<1>6. CASE ComputeDigest(c)
  <2>1. /\ UNCHANGED files /\ GoWith(c, "record", file)
        /\ spoiled' = (spoiled /\ Savers \ {c} # {})
    BY <1>6 DEF ComputeDigest
  <2>2. /\ ActsShape' /\ \A e \in Actors \ {c} : act'[e] = act[e]
        /\ act'[c].at = "record" /\ act'[c].op = act[c].op /\ act'[c].data = file
    BY <1>0, <2>1, WentWith
  <2>3. FilesOK'
    BY <1>0, <2>1 DEF FilesOK, files
  <2>4. PlaceOK(c)'
    BY <1>0, <2>2 DEF PlaceOK, Ops, Places, Guarded, Saving
  <2>5. PlacesOK'
    BY <1>0, <1>1, <2>1, <2>2, <2>4, PlacesFollow DEF live, files
  <2>6. PairOK'
    <3> SUFFICES ASSUME ~spoiled' PROVE PairOK'
      BY DEF PairOK
    <3>1. \A d \in Actors \ {c} : act[d].at \notin Saving
      BY <1>3, <2>1 DEF Savers
    <3>2. QED
      BY <2>1, <2>2, <3>1 DEF PairOK, Saving, BetweenFiles, files
  <2>7. QED
    BY <1>2, <2>2, <2>3, <2>5, <2>6 DEF LearningInv
<1>7. CASE RecordDigest(c)
  <2>1. /\ act[c].at = "record" /\ tmp' = tmp /\ file' = file /\ digest' = act[c].data
        /\ spoiled' = spoiled /\ Return(c)
    BY <1>7 DEF RecordDigest, EndSave
  <2>2. /\ ActsShape' /\ \A e \in Actors \ {c} : act'[e] = act[e]
        /\ act'[c].at = "idle" /\ act'[c].op = "idle"
    BY <1>0, <2>1, Returned
  <2>3. FilesOK'
    BY <1>0, <2>1 DEF FilesOK
  <2>4. PlaceOK(c)'
    BY <2>2 DEF PlaceOK, Ops, Places, Guarded
  <2>5. PlacesOK'
    BY <1>0, <1>1, <2>1, <2>2, <2>4, PlacesFollow DEF live
  <2>6. PairOK'
    <3> SUFFICES ASSUME ~spoiled' PROVE PairOK'
      BY DEF PairOK
    <3>1. digest' = file'
      BY <1>0, <2>1 DEF PairOK
    <3>2. QED
      BY <1>3, <2>1, <2>2, <3>1 DEF PairOK, Saving
  <2>7. QED
    BY <1>2, <2>2, <2>3, <2>5, <2>6 DEF LearningInv
<1>8. CASE SaveFails(c)
  <2>1. /\ tmp' \in {tmp, Torn} /\ file' = file /\ Return(c)
        /\ digest' = digest \/ act[c].at = "record"
        /\ spoiled' = (spoiled \/ act[c].at \in BetweenFiles)
    BY <1>8 DEF SaveFails, EndSave
  <2>2. /\ ActsShape' /\ \A e \in Actors \ {c} : act'[e] = act[e]
        /\ act'[c].at = "idle" /\ act'[c].op = "idle"
    BY <1>0, <2>1, Returned
  <2>3. FilesOK'
    BY <1>0, <2>1 DEF FilesOK
  <2>4. PlaceOK(c)'
    BY <2>2 DEF PlaceOK, Ops, Places, Guarded
  <2>5. PlacesOK'
    BY <1>0, <1>1, <2>1, <2>2, <2>4, PlacesFollow DEF live
  <2>6. PairOK'
    <3> SUFFICES ASSUME ~spoiled' PROVE PairOK'
      BY DEF PairOK
    <3>1. ~spoiled /\ act[c].at \notin BetweenFiles
      BY <2>1
    <3>2. \A d \in Actors : act[d].at \notin BetweenFiles
      BY <1>3, <3>1 DEF Saving, BetweenFiles
    <3>3. digest = file
      BY <1>0, <3>1, <3>2 DEF PairOK
    <3>4. QED
      BY <1>3, <2>1, <2>2, <3>1, <3>3 DEF PairOK, Saving, BetweenFiles
  <2>7. QED
    BY <1>2, <2>2, <2>3, <2>5, <2>6 DEF LearningInv
<1>9. QED
  BY <1>4, <1>5, <1>6, <1>7, <1>8

(* A file is loaded.  What is loaded was read after the file was verified, *)
(* and a file never goes away again.                                       *)
LEMMA LearningOfRestore ==
    ASSUME LearningInv, NEW c \in Actors,
           \/ Restore(c) \/ RestoreContext(c) \/ Unreadable(c) \/ LoadModules(c) \/ LoadState(c)
    PROVE  LearningInv'
<1>0. ActsShape /\ LiveOK /\ PlacesOK /\ FilesOK /\ PairOK /\ PlaceOK(c)
  BY DEF LearningInv, PlacesOK
<1>1. UNCHANGED <<domains, files, spoiled>> /\ act[c].at \notin Saving
  BY DEF Restore, RestoreContext, Unreadable, LoadModules, LoadState, Saving
<1>2. CASE Restore(c)
  <2>1. /\ act' = [e \in Actors |-> IF e = c
                                     THEN [op |-> "restore", at |-> "context", data |-> None]
                                     ELSE act[e]]
        /\ file # None /\ guard' = guard /\ UNCHANGED <<live, restored>>
    BY <1>0, <1>2 DEF Restore, ActsShape, gateVars
  <2>2. /\ ActsShape' /\ \A e \in Actors \ {c} : act'[e] = act[e]
        /\ act'[c].op = "restore" /\ act'[c].at = "context"
    BY <1>0, <2>1 DEF ActsShape
  <2>3. PlaceOK(c)'
    BY <1>1, <2>1, <2>2 DEF PlaceOK, Ops, Places, Guarded, files
  <2>4. PlacesOK'
    BY <1>0, <1>1, <2>1, <2>2, <2>3, PlacesFollow DEF live, files
  <2>5. PairOK' /\ FilesOK'
    BY <1>0, <1>1, <2>2, PairStands DEF Saving
  <2>6. LiveOK'
    BY <1>0, <1>1, <2>1 DEF LiveOK, live
  <2>7. QED
    BY <2>2, <2>4, <2>5, <2>6 DEF LearningInv
<1>3. CASE RestoreContext(c)
  <2>1. /\ act[c].at = "context" /\ file # Torn /\ GoWith(c, "guard", file)
        /\ guard' = guard /\ UNCHANGED <<live, restored>>
    BY <1>3 DEF RestoreContext, EvolutionSlot, gateVars
  <2>2. /\ ActsShape' /\ \A e \in Actors \ {c} : act'[e] = act[e]
        /\ act'[c].at = "guard" /\ act'[c].op = act[c].op /\ act'[c].data = file
    BY <1>0, <2>1, WentWith
  <2>3. SavedOK(file)
    BY <1>0, <2>1 DEF PlaceOK, FilesOK
  <2>4. SavedOK(act'[c].data)
    BY <2>2, <2>3
  <2>5. PlaceOK(c)'
    BY <1>0, <2>2, <2>4 DEF PlaceOK, Ops, Places, Guarded
  <2>6. PlacesOK'
    BY <1>0, <1>1, <2>1, <2>2, <2>5, PlacesFollow DEF live, files
  <2>7. PairOK' /\ FilesOK'
    BY <1>0, <1>1, <2>2, PairStands DEF Saving
  <2>8. LiveOK'
    BY <1>0, <1>1, <2>1 DEF LiveOK, live
  <2>9. QED
    BY <2>2, <2>6, <2>7, <2>8 DEF LearningInv
<1>4. CASE LoadModules(c)
  <2>1. /\ act[c].at = "load" /\ pool' = act[c].data.pool /\ Go(c, "reload")
        /\ guard' = guard /\ UNCHANGED <<stream, snapshots, unsafe, restored>>
    BY <1>4 DEF LoadModules, gateVars
  <2>2. /\ ActsShape' /\ \A e \in Actors \ {c} : act'[e] = act[e]
        /\ act'[c].at = "reload" /\ act'[c].op = act[c].op /\ act'[c].data = act[c].data
    BY <1>0, <2>1, Went
  <2>3. guard = c /\ SavedOK(act[c].data)
    BY <1>0, <2>1 DEF PlaceOK, Guarded
  <2>4. SavedOK(act'[c].data) /\ pool' = act'[c].data.pool /\ PoolOK(pool')
    BY <2>1, <2>2, <2>3 DEF SavedOK
  <2>5. PlaceOK(c)'
    BY <1>0, <2>1, <2>2, <2>3, <2>4 DEF PlaceOK, Ops, Places, Guarded
  <2>6. PlacesOK'
    BY <1>0, <1>1, <2>2, <2>3, <2>5, PlacesFollow DEF files
  <2>7. PairOK' /\ FilesOK'
    BY <1>0, <1>1, <2>2, PairStands DEF Saving
  <2>8. LiveOK'
    BY <1>0, <1>1, <2>1, <2>4 DEF LiveOK
  <2>9. QED
    BY <2>2, <2>6, <2>7, <2>8 DEF LearningInv
<1>5. CASE LoadState(c)
  <2>1. /\ act[c].at = "reload" /\ Return(c)
        /\ stream' = act[c].data.stream /\ snapshots' = act[c].data.snapshots
        /\ restored' = TRUE /\ unsafe' \subseteq unsafe /\ pool' = pool
    BY <1>5 DEF LoadState, Reprojected
  <2>2. /\ ActsShape' /\ \A e \in Actors \ {c} : act'[e] = act[e]
        /\ act'[c].at = "idle" /\ act'[c].op = "idle"
    BY <1>0, <2>1, Returned
  <2>3. guard = c /\ SavedOK(act[c].data)
    BY <1>0, <2>1 DEF PlaceOK, Guarded
  <2>4. stream' \in Nat /\ SnapshotsOK(snapshots')
    BY <2>1, <2>3 DEF SavedOK
  <2>5. PlaceOK(c)'
    BY <2>2 DEF PlaceOK, Ops, Places, Guarded
  <2>6. PlacesOK'
    BY <1>0, <1>1, <2>2, <2>3, <2>5, PlacesFollow DEF files
  <2>7. PairOK' /\ FilesOK'
    BY <1>0, <1>1, <2>2, PairStands DEF Saving
  <2>8. LiveOK'
    BY <1>0, <2>1, <2>4 DEF LiveOK
  <2>9. QED
    BY <2>2, <2>6, <2>7, <2>8 DEF LearningInv
<1>6. CASE Unreadable(c)
  <2>1. Return(c) /\ guard' = guard /\ UNCHANGED <<live, restored>>
    BY <1>6 DEF Unreadable, gateVars
  <2>2. /\ ActsShape' /\ \A e \in Actors \ {c} : act'[e] = act[e]
        /\ act'[c].at = "idle" /\ act'[c].op = "idle"
    BY <1>0, <2>1, Returned
  <2>3. PlaceOK(c)'
    BY <2>2 DEF PlaceOK, Ops, Places, Guarded
  <2>4. PlacesOK'
    BY <1>0, <1>1, <2>1, <2>2, <2>3, PlacesFollow DEF live, files
  <2>5. PairOK' /\ FilesOK'
    BY <1>0, <1>1, <2>2, PairStands DEF Saving
  <2>6. LiveOK'
    BY <1>0, <1>1, <2>1 DEF LiveOK, live
  <2>7. QED
    BY <2>2, <2>4, <2>5, <2>6 DEF LearningInv
<1>7. QED
  BY <1>2, <1>3, <1>4, <1>5, <1>6

(* Nothing of what is learned is touched, and whoever holds the guard      *)
(* under it keeps it.                                                      *)
LEMMA LearningUntouched ==
    ASSUME LearningInv, UNCHANGED learningVars,
           guard' = guard \/ guard \notin Actors
    PROVE  LearningInv'
<1>1. /\ act' = act /\ UNCHANGED <<pool, stream, snapshots, unsafe, domains>>
      /\ UNCHANGED <<tmp, file, digest, restored, spoiled>>
  BY DEF learningVars, live, files
<1>2. ActsShape' /\ LiveOK' /\ FilesOK' /\ PairOK'
  BY <1>1 DEF LearningInv, ActsShape, LiveOK, FilesOK, PairOK
<1>3. \A c \in Actors : act[c].at \in Guarded => guard' = c
  BY DEF LearningInv, PlacesOK, PlaceOK
<1>4. ASSUME NEW c \in Actors PROVE PlaceOK(c)'
  BY <1>1, <1>3 DEF LearningInv, PlacesOK, PlaceOK
<1>5. QED
  BY <1>2, <1>4 DEF LearningInv, PlacesOK

(* A crash: the files stay, and a checkpoint that had replaced the one but *)
(* not yet recorded the other is what spoils them.                         *)
LEMMA LearningOfRestart ==
    ASSUME LearningInv, Restart
    PROVE  LearningInv'
<1>0. FilesOK /\ PairOK
  BY DEF LearningInv
<1>1. /\ act' = [c \in Actors |-> Idle] /\ UNCHANGED <<tmp, file, digest>>
      /\ pool' = FirstPool /\ stream' = 0 /\ snapshots' = <<>> /\ domains' = <<>>
      /\ unsafe' = {}
      /\ spoiled' = (spoiled \/ \E c \in Actors : act[c].at \in BetweenFiles)
  BY DEF Restart, Crash, files
<1>2. ActsShape' /\ \A c \in Actors : act'[c].at = "idle" /\ act'[c].op = "idle"
  BY <1>1 DEF ActsShape, Idle
<1>3. PlacesOK'
  BY <1>2 DEF PlacesOK, PlaceOK, Ops, Places, Guarded
<1>4. FilesOK'
  BY <1>0, <1>1 DEF FilesOK
<1>5. PairOK'
  BY <1>0, <1>1, <1>2 DEF PairOK, Saving
<1>6. LiveOK'
  <2>1. SnapshotsOK(<<>>)
    BY LearningAssumption DEF SnapshotsOK, ValidLifecycle
  <2>2. QED
    BY <1>1, <2>1, FirstPoolIsSound DEF LiveOK
<1>7. QED
  BY <1>2, <1>3, <1>4, <1>5, <1>6 DEF LearningInv

(* Sessions take the guard when it is free and give back only their own. *)
LEMMA SessionsKeepGuard ==
    ASSUME SessionsNext
    PROVE  guard' = guard \/ guard \notin Actors
<1>1. guard' = guard \/ guard = None \/ guard \in Callers
  BY DEF SessionsNext, Infer, Compile, TakeSessionLock, EnterSlot, EnterGuard, Refused,
         Backbone, EndInfer, EndCompile, Reinsert, Calibrate, CheckRoom, EvictOldest, Keep,
         Discard, TrainCore, InferenceSlot, Enforce, Release, Leave, gateVars
<1>2. QED
  BY <1>1, CallersAssumption

(* What is learned and what is saved stays sound, in every state. *)
LEMMA LearningInductive == Spec => []LearningInv
<1>1. Init => LearningInv
  <2> SUFFICES ASSUME Init PROVE LearningInv
    OBVIOUS
  <2>1. /\ act = [c \in Actors |-> Idle] /\ pool = FirstPool /\ stream = 0
        /\ snapshots = <<>> /\ domains = <<>> /\ unsafe = {}
        /\ tmp = None /\ file = None /\ digest = None
    BY DEF Init, LearningInit, Started
  <2>2. ActsShape /\ \A c \in Actors : act[c].at = "idle" /\ act[c].op = "idle"
    BY <2>1 DEF ActsShape, Idle
  <2>3. SnapshotsOK(<<>>)
    BY LearningAssumption DEF SnapshotsOK, ValidLifecycle
  <2>4. LiveOK
    BY <2>1, <2>3, FirstPoolIsSound DEF LiveOK
  <2>5. PlacesOK
    BY <2>2 DEF PlacesOK, PlaceOK, Ops, Places, Guarded
  <2>6. FilesOK /\ PairOK
    BY <2>1, <2>2 DEF FilesOK, PairOK, Saving
  <2>7. QED
    BY <2>2, <2>4, <2>5, <2>6 DEF LearningInv
<1>2. LearningInv /\ [Next]_vars => LearningInv'
  <2> SUFFICES ASSUME LearningInv, [Next]_vars PROVE LearningInv'
    OBVIOUS
  <2>1. CASE SessionsNext /\ UNCHANGED learningVars
    BY <2>1, SessionsKeepGuard, LearningUntouched
  <2>2. CASE LearningNext
    <3>1. CASE \E c \in Workers :
                 \/ Work(c) \/ Adapt(c) \/ ExpertStep(c) \/ Recruit(c) \/ Consolidate(c)
                 \/ Train(c) \/ Checkpoint(c)
      <4>1. PICK c \in Workers :
                 \/ Work(c) \/ Adapt(c) \/ ExpertStep(c) \/ Recruit(c) \/ Consolidate(c)
                 \/ Train(c) \/ Checkpoint(c)
        BY <3>1
      <4>2. c \in Actors
        BY DEF Actors
      <4>3. CASE Checkpoint(c)
        BY <4>2, <4>3, LearningOfCollect DEF Checkpoint, gateVars
      <4>4. QED
        BY <4>1, <4>2, <4>3, LearningOfEntry, LearningOfBodies
    <3>2. CASE \E c \in Actors :
                 \/ EnterBody(c) \/ Rejected(c)
                 \/ WriteTemporary(c) \/ ReplaceFile(c) \/ ComputeDigest(c) \/ RecordDigest(c)
                 \/ SaveFails(c) \/ Restore(c) \/ RestoreContext(c) \/ Unreadable(c)
                 \/ LoadModules(c) \/ LoadState(c)
      BY <3>2, LearningOfEntry, LearningOfFiles, LearningOfRestore
    <3>3. CASE NightFalls \/ SavedElsewhere \/ RollBack \/ Morning
      <4>1. /\ act[Driver].at = "idle" /\ guard' = guard /\ Driver \in Actors
            /\ Collect(Driver) \/ UNCHANGED learningVars
        BY <3>3 DEF NightFalls, SavedElsewhere, RollBack, Morning, BeginNight, EndCheckpoint,
                    BeginRollback, EndNight, Actors
      <4>2. QED
        BY <4>1, LearningOfCollect, LearningUntouched
    <3>4. QED
      BY <2>2, <3>1, <3>2, <3>3 DEF LearningNext
  <2>3. CASE Restart
    BY <2>3, LearningOfRestart
  <2>4. CASE UNCHANGED vars
    BY <2>4, LearningUntouched DEF vars, gateVars
  <2>5. QED
    BY <2>1, <2>2, <2>3, <2>4 DEF Next
<1>3. QED
  BY <1>1, <1>2, PTL DEF Spec

(* experts.py, adaptation.py and runtime.py: for every size of the pool    *)
(* and every budget of domains, whatever is saved, restored or cut off by  *)
(* a crash, the pool accounts for every expert, a running step keeps those *)
(* it was routed to, snapshots stay within their budget and, until a file  *)
(* was loaded, agree with the records, no solve runs on an operator that   *)
(* was not projected, and outside a checkpoint's last two steps the digest *)
(* is the file's; not, though, after checkpoints met or one crashed or     *)
(* raised in those two steps, until the next that computes its digest      *)
(* alone.                                                                  *)
THEOREM LearningStaysSound == Spec => []LearningIsSound
<1>1. LearningInv => LearningIsSound
  <2> SUFFICES ASSUME LearningInv PROVE LearningIsSound
    OBVIOUS
  <2>1. LiveOK /\ PairOK /\ \A c \in Actors : PlaceOK(c)
    BY DEF LearningInv, PlacesOK
  <2>2. LearningTypeOK
    BY <2>1 DEF LearningTypeOK, LiveOK, PlaceOK, Ops, Places
  <2>3. PoolIsSound
    <3>1. PoolOK(pool)
      BY <2>1 DEF LiveOK
    <3>2. \A c \in Workers : PlaceOK(c)
      BY <2>1 DEF Actors
    <3>3. QED
      BY <3>1, <3>2 DEF PoolIsSound, PoolOK, Counted, PlaceOK
  <2>4. DomainsAreSound
    BY <2>1 DEF DomainsAreSound, LiveOK, SnapshotsOK
  <2>5. SolvesAreContractive
    BY <2>1 DEF SolvesAreContractive, PlaceOK, Actors
  <2>6. PairMatches
    BY <2>1 DEF PairMatches, PairOK
  <2>7. QED
    BY <2>2, <2>3, <2>4, <2>5, <2>6 DEF LearningIsSound
<1>2. QED
  BY <1>1, LearningInductive, PTL

(* adapt_stream and restore_checkpoint under the guard: no observation is  *)
(* added to a stream state that is no longer the latest, and a restore     *)
(* that comes to its end has all of the file in place.                     *)
THEOREM GuardedStaysWhole == Spec => GuardedIsWhole
<1> DEFINE Whole(c) ==
             /\ act[c].op = "adapt" /\ act[c].at = "body" /\ act'[c] = Idle
                  => act[c].data = stream
             /\ act[c].at = "reload" /\ act'[c] = Idle /\ restored'
                  => /\ pool' = act[c].data.pool
                     /\ stream' = act[c].data.stream
                     /\ snapshots' = act[c].data.snapshots
<1>1. LearningInv /\ [Next]_vars => [\A c \in Actors : Whole(c)]_<<act, live>>
  <2> SUFFICES ASSUME LearningInv, Next, NEW c \in Actors PROVE Whole(c)
    BY DEF vars, learningVars
  <2>1. PlaceOK(c) /\ ActsShape
    BY DEF LearningInv, PlacesOK
  <2>2. act[c].op = "adapt" /\ act[c].at = "body" => act[c].data = stream
    BY <2>1 DEF PlaceOK
  <2>3. ASSUME act[c].at = "reload", act'[c] = Idle, restored'
        PROVE  /\ pool' = act[c].data.pool
               /\ stream' = act[c].data.stream
               /\ snapshots' = act[c].data.snapshots
    <3>1. act'[c] # act[c]
      BY <2>3 DEF Idle
    <3>2. ~Restart
      BY <2>3 DEF Restart, Crash
    <3>3. LearningNext
      BY <3>1, <3>2 DEF Next, learningVars
    <3>4. PICK d \in Actors :
             \/ (d \in Workers /\ (\/ Work(d) \/ Adapt(d) \/ ExpertStep(d) \/ Recruit(d)
                                   \/ Consolidate(d) \/ Train(d) \/ Checkpoint(d)))
             \/ EnterBody(d) \/ Rejected(d)
             \/ WriteTemporary(d) \/ ReplaceFile(d) \/ ComputeDigest(d) \/ RecordDigest(d)
             \/ SaveFails(d) \/ Restore(d) \/ RestoreContext(d) \/ Unreadable(d)
             \/ LoadModules(d) \/ LoadState(d)
      <4>1. ~(NightFalls \/ SavedElsewhere \/ RollBack \/ Morning)
        BY <2>1, <2>3, <3>1 DEF NightFalls, SavedElsewhere, RollBack, Morning, Collect,
                                learningVars, ActsShape, Actors
      <4>2. QED
        BY <3>3, <4>1 DEF LearningNext, Actors
    <3>5. d = c
      <4>1. ASSUME d # c PROVE FALSE
        BY <2>1, <3>1, <3>4, <4>1
        DEF ActsShape, Work, Call, Adapt, ExpertStep, Recruit, Consolidate, Train, EndBody,
            Checkpoint, Collect, EnterBody, Rejected, WriteTemporary, ReplaceFile, ComputeDigest,
            RecordDigest, EndSave, SaveFails, Restore, RestoreContext, Unreadable, LoadModules,
            LoadState, Go, GoWith, Return
      <4>2. QED
        BY <4>1
    <3>6. LoadState(c)
      BY <2>3, <3>4, <3>5
      DEF Work, Call, Adapt, ExpertStep, Recruit, Consolidate, Train, EndBody, Checkpoint,
          EnterBody, Rejected, NotAdmitted, Misfit, WriteTemporary, ReplaceFile, ComputeDigest,
          RecordDigest, SaveFails, Restore, RestoreContext, Unreadable, LoadModules, Saving
    <3>7. QED
      BY <2>1, <2>3, <3>6 DEF LoadState, PlaceOK
  <2>4. QED
    BY <2>2, <2>3
<1>2. QED
  BY <1>1, LearningInductive, PTL DEF Spec, GuardedIsWhole
-----------------------------------------------------------------------------
(* Core and overlay together.  A caller on its way to a solve holds an     *)
(* inference slot, a night in which the core may be trained begins when    *)
(* none is held, and C-FIRE projects the core before it is applied.        *)

CallersHoldSlots ==
    \A c \in Callers : call[c].at \in {"guard", "body", "apply"} => c \in requests
AppliedIsProjected == \A c \in Callers : call[c].at = "apply" => core < CoreBudget

CoreInv == core \in Nat /\ CallersHoldSlots /\ AppliedIsProjected

(* The slots of a caller are its own. *)
LEMMA CoreOfLearning ==
    ASSUME CoreInv, LearningNext, UNCHANGED sessionVars
    PROVE  CoreInv'
<1>1. call' = call /\ core' = core
  BY DEF sessionVars
<1>2. \A c \in Callers : c \in requests => c \in requests'
  BY CallersAssumption
  DEF LearningNext, Actors, Work, Call, InferenceSlot, EvolutionSlot, EnterBody, Enforce,
      Rejected, EndBody, Adapt, ExpertStep, Recruit, Consolidate, Train, Checkpoint,
      WriteTemporary, ReplaceFile, ComputeDigest, RecordDigest, EndSave, SaveFails, Restore,
      RestoreContext, Unreadable, LoadModules, LoadState, NightFalls, SavedElsewhere, RollBack, Morning, BeginNight,
      EndCheckpoint, BeginRollback, EndNight, Leave, gateVars
<1>3. QED
  BY <1>1, <1>2 DEF CoreInv, CallersHoldSlots, AppliedIsProjected

(* What a caller's step does to its place, its slot and the core. *)
LEMMA CoreOfOne ==
    ASSUME CoreInv, NEW c \in Callers, \A d \in Callers \ {c} : call'[d] = call[d],
           \A d \in Callers \ {c} : d \in requests => d \in requests',
           call'[c].at \in {"guard", "body", "apply"} => c \in requests',
           (core' = core /\ call'[c].at # "apply") \/ core' = Projected(core)
    PROVE  CoreInv'
<1>1. Projected(core) \in Nat /\ Projected(core) < CoreBudget
  BY BudgetsAssumption DEF Projected, CoreInv
<1>2. core' \in Nat
  BY <1>1 DEF CoreInv
<1>3. CallersHoldSlots'
  BY DEF CoreInv, CallersHoldSlots
<1>4. AppliedIsProjected'
  BY <1>1 DEF CoreInv, AppliedIsProjected
<1>5. QED
  BY <1>2, <1>3, <1>4 DEF CoreInv

LEMMA CoreOfSessions ==
    ASSUME CoreInv, CallsTyped, SlotsOfMode, SessionsNext
    PROVE  CoreInv'
<1> USE DEF CallsTyped, Calls
<1>1. ASSUME NEW c \in Callers, NEW s \in Sessions \cup {None},
             \/ Infer(c, s) \/ Compile(c, s) \/ TakeSessionLock(c)
             \/ Reinsert(c) \/ Calibrate(c) \/ CheckRoom(c) \/ EvictOldest(c) \/ Keep(c)
      PROVE  CoreInv'
  <2>1. /\ \A d \in Callers \ {c} : call'[d] = call[d]
        /\ call'[c].at \in {"idle", "route", "lock", "slot", "room", "evict", "keep"}
        /\ requests' = requests /\ core' = core
    BY <1>1 DEF Infer, Compile, TakeSessionLock, Reinsert, Calibrate, CheckRoom, EvictOldest,
                Keep, Step, EndCall, IdleCall, gateVars
  <2>2. QED
    BY <2>1, CoreOfOne
<1>2. ASSUME NEW c \in Callers, EnterSlot(c) \/ EnterGuard(c)
      PROVE  CoreInv'
  <2>1. /\ \A d \in Callers \ {c} : call'[d] = call[d]
        /\ call'[c].at \in {"guard", "body"}
        /\ requests \subseteq requests' /\ core' = core
        /\ c \in requests' \/ call[c].at = "guard"
    BY <1>2 DEF EnterSlot, EnterGuard, Step, InferenceSlot, Enforce
  <2>2. c \in requests'
    BY <2>1 DEF CoreInv, CallersHoldSlots
  <2>3. QED
    BY <2>1, <2>2, CoreOfOne
<1>3. ASSUME NEW c \in Callers, Refused(c) \/ EndInfer(c) \/ EndCompile(c)
      PROVE  CoreInv'
  <2>1. /\ \A d \in Callers \ {c} : call'[d] = call[d]
        /\ call'[c].at \in {"idle", "calibrate"}
        /\ requests' = requests \ {c} /\ core' = core
    BY <1>3 DEF Refused, EndInfer, EndCompile, Release, Leave, Step, IdleCall
  <2>2. QED
    BY <2>1, CoreOfOne
<1>4. ASSUME NEW c \in Callers, Backbone(c)
      PROVE  CoreInv'
  <2>1. /\ \A d \in Callers \ {c} : call'[d] = call[d]
        /\ call[c].at = "body" /\ requests' = requests /\ core' = Projected(core)
    BY <1>4 DEF Backbone, Step, gateVars
  <2>2. c \in requests'
    BY <2>1 DEF CoreInv, CallersHoldSlots
  <2>3. QED
    BY <2>1, <2>2, CoreOfOne
<1>5. ASSUME NEW s \in Sessions, Discard(s)
      PROVE  CoreInv'
  BY <1>5 DEF Discard, gateVars, CoreInv, CallersHoldSlots, AppliedIsProjected
<1>6. CASE TrainCore
  <2>1. requests = {} /\ requests' = requests /\ call' = call /\ core' \in CoreNorms
    BY <1>6 DEF TrainCore, SlotsOfMode, gateVars
  <2>2. \A c \in Callers : call[c].at \notin {"guard", "body", "apply"}
    BY <2>1 DEF CoreInv, CallersHoldSlots
  <2>3. QED
    BY <2>1, <2>2, BudgetsAssumption DEF CoreInv, CallersHoldSlots, AppliedIsProjected
<1>7. QED
  BY <1>1, <1>2, <1>3, <1>4, <1>5, <1>6 DEF SessionsNext

(* factory.py: for all budgets that leave the gap, the composed operator   *)
(* stays below the spectral margin in every solve, whatever norm a night   *)
(* has left the core with since the overlay was admitted.                  *)
THEOREM SolvesStayBelowMargin == Spec => []ComposedBelowMargin
<1>0. CoreBudget - 1 \in Nat /\ [c \in Callers |-> IdleCall] \in [Callers -> {IdleCall}]
  BY BudgetsAssumption
<1>1. Init => CoreInv
  BY <1>0 DEF Init, SessionsInit, IdleCall, CoreInv, CallersHoldSlots, AppliedIsProjected
<1>2. CoreInv /\ OverlayInv /\ RestInv /\ [Next]_vars => CoreInv'
  <2> SUFFICES ASSUME CoreInv, OverlayInv, RestInv, [Next]_vars PROVE CoreInv'
    OBVIOUS
  <2>1. CASE SessionsNext
    BY <2>1, CoreOfSessions DEF OverlayInv, RestInv
  <2>2. CASE LearningNext /\ UNCHANGED sessionVars
    BY <2>2, CoreOfLearning
  <2>3. CASE Restart
    BY <1>0, <2>3 DEF Restart, IdleCall, CoreInv, CallersHoldSlots, AppliedIsProjected
  <2>4. CASE UNCHANGED vars
    BY <2>4 DEF vars, gateVars, sessionVars, CoreInv, CallersHoldSlots, AppliedIsProjected
  <2>5. QED
    BY <2>1, <2>2, <2>3, <2>4 DEF Next
<1>3. CoreInv /\ OverlayInv => ComposedBelowMargin
  <2> SUFFICES ASSUME CoreInv, OverlayInv, NEW c \in Callers, call[c].at = "apply"
               PROVE  core + OverlayBudget * Cardinality(hooks) < SpectralMargin
    BY DEF ComposedBelowMargin
  <2>1. core \in Nat /\ core < CoreBudget
    BY DEF CoreInv, AppliedIsProjected
  <2>2. call[c].op = "infer"
    BY DEF OverlayInv, InsideIsGuarded, Inside
  <2>3. hooks = {} \/ hooks = {call[c].session}
    BY <2>2 DEF OverlayInv, OverlayIsOwn
  <2>4. Cardinality(hooks) \in {0, 1}
    BY <2>3, FS_EmptySet, FS_Singleton
  <2>5. OverlayBudget * Cardinality(hooks) \in {0, OverlayBudget}
    <3>1. OverlayBudget \in Nat
      BY BudgetsAssumption
    <3>2. OverlayBudget * 0 = 0 /\ OverlayBudget * 1 = OverlayBudget
      BY <3>1
    <3>3. QED
      BY <2>4, <3>2
  <2>6. QED
    BY <2>1, <2>5, BudgetsAssumption
<1>4. QED
  BY <1>1, <1>2, <1>3, OverlayInductive, RestInductive, PTL DEF Spec

-----------------------------------------------------------------------------
(* Sessions.  First, sums, and sequences with an element less.             *)

(* A set of numbers that has 0, and with a number the next, has them all.  *)
LEMMA Induction ==
    ASSUME NEW T, 0 \in T, \A n \in Nat : n \in T => n + 1 \in T
    PROVE  \A n \in Nat : n \in T
<1> SUFFICES ASSUME NEW z \in Nat, z \notin T PROVE FALSE
  OBVIOUS
<1>1. PICK x \in Nat \ T : \A y \in Nat \ T : ~(<<y, x>> \in OpToRel(<, Nat))
  <2>1. Nat \ T \subseteq Nat /\ Nat \ T # {}
    OBVIOUS
  <2>2. QED
    BY <2>1, NatLessThanWellFounded, WFMin
<1>2. x # 0 /\ x - 1 \in Nat
  OBVIOUS
<1>3. x - 1 \in T
  <2>1. <<x - 1, x>> \in OpToRel(<, Nat)
    BY <1>2 DEF OpToRel
  <2>2. QED
    BY <1>1, <1>2, <2>1
<1>4. QED
  BY <1>2, <1>3

(* The sums of the sizes of the first entries of s, as SizeOf has them.    *)
Totals(s, n, f) == f = [i \in 0 .. n |-> IF i = 0 THEN 0 ELSE f[i - 1] + s[i].size]

LEMMA TotalsExist ==
    ASSUME NEW s, NEW n \in Nat
    PROVE  \E f : Totals(s, n, f)
<1> DEFINE T == {k \in Nat : \E f : Totals(s, k, f)}
<1>1. 0 \in T
  <2>1. Totals(s, 0, [i \in 0 .. 0 |-> 0])
    BY DEF Totals
  <2>2. QED
    BY <2>1
<1>2. ASSUME NEW k \in Nat, k \in T
      PROVE  k + 1 \in T
  <2>1. PICK f : Totals(s, k, f)
    BY <1>2
  <2> DEFINE g == [i \in 0 .. k + 1 |-> IF i <= k THEN f[i] ELSE f[k] + s[k + 1].size]
  <2>2. \A i \in 0 .. k : f[i] = IF i = 0 THEN 0 ELSE f[i - 1] + s[i].size
    BY <2>1 DEF Totals
  <2>3. \A i \in 0 .. k + 1 : g[i] = IF i = 0 THEN 0 ELSE g[i - 1] + s[i].size
    <3> TAKE i \in 0 .. k + 1
    <3>1. CASE i <= k
      BY <2>2, <3>1
    <3>2. CASE i = k + 1
      BY <3>2
    <3>3. QED
      BY <3>1, <3>2
  <2>4. Totals(s, k + 1, g)
    <3> DEFINE h == [i \in 0 .. k + 1 |-> IF i = 0 THEN 0 ELSE g[i - 1] + s[i].size]
    <3>1. g = h
      <4>1. \A i \in 0 .. k + 1 : g[i] = h[i]
        BY <2>3
      <4>2. QED
        BY <4>1
    <3>2. QED
      BY <3>1 DEF Totals
  <2>5. QED
    BY <2>4
<1>3. n \in T
  <2> HIDE DEF T
  <2>1. QED
    BY <1>1, <1>2, Induction
<1>4. QED
  BY <1>3

(* Sums of a sequence of numbers are numbers. *)
LEMMA TotalsType ==
    ASSUME NEW s, NEW n \in Nat, NEW f, Totals(s, n, f), \A i \in 1 .. n : s[i].size \in Nat
    PROVE  /\ \A i \in 0 .. n : f[i] \in Nat
           /\ f[0] = 0
           /\ \A i \in 1 .. n : f[i] = f[i - 1] + s[i].size
<1>1. \A i \in 0 .. n : f[i] = IF i = 0 THEN 0 ELSE f[i - 1] + s[i].size
  BY DEF Totals
<1> DEFINE T == {k \in Nat : k <= n => f[k] \in Nat}
<1>2. 0 \in T
  BY <1>1
<1>3. ASSUME NEW k \in Nat, k \in T
      PROVE  k + 1 \in T
  <2> SUFFICES ASSUME k + 1 <= n PROVE f[k + 1] \in Nat
    OBVIOUS
  <2>1. f[k] \in Nat /\ k + 1 \in 0 .. n /\ s[k + 1].size \in Nat
    BY <1>3
  <2>2. f[k + 1] = f[k] + s[k + 1].size
    BY <1>1, <2>1
  <2>3. QED
    BY <2>1, <2>2
<1>4. \A k \in Nat : k \in T
  <2> HIDE DEF T
  <2>1. QED
    BY <1>2, <1>3, Induction
<1>5. QED
  BY <1>1, <1>4

(* Where two sequences agree, their sums grow alike. *)
Numbers(s, n) == \A i \in 1 .. n : s[i].size \in Nat
Agree(t, n, s, d) == \A i \in 1 .. n : t[i].size = s[d + i].size

LEMMA TotalsShift ==
    ASSUME NEW s, NEW m \in Nat, NEW f, Totals(s, m, f), Numbers(s, m),
           NEW t, NEW n \in Nat, NEW g, Totals(t, n, g), Numbers(t, n),
           NEW d \in Nat, d + n <= m, Agree(t, n, s, d)
    PROVE  f[d + n] = f[d] + g[n]
<1> DEFINE T == {k \in Nat : k <= n => f[d + k] = f[d] + g[k]}
<1>1. /\ \A i \in 0 .. m : f[i] \in Nat
      /\ \A i \in 1 .. m : f[i] = f[i - 1] + s[i].size
  BY TotalsType DEF Numbers
<1>2. /\ \A i \in 0 .. n : g[i] \in Nat
      /\ g[0] = 0
      /\ \A i \in 1 .. n : g[i] = g[i - 1] + t[i].size
  BY TotalsType DEF Numbers
<1> USE DEF Numbers, Agree
<1>3. 0 \in T
  <2>1. d \in 0 .. m
    OBVIOUS
  <2>2. QED
    BY <1>1, <1>2, <2>1
<1>4. ASSUME NEW k \in Nat, k \in T
      PROVE  k + 1 \in T
  <2> SUFFICES ASSUME k + 1 <= n PROVE f[d + (k + 1)] = f[d] + g[k + 1]
    OBVIOUS
  <2>1. f[d + k] = f[d] + g[k]
    BY <1>4
  <2>2. k + 1 \in 1 .. n /\ d + (k + 1) \in 1 .. m /\ (d + (k + 1)) - 1 = d + k /\ (k + 1) - 1 = k
    OBVIOUS
  <2>3. f[d + (k + 1)] = f[d + k] + s[d + (k + 1)].size
    BY <1>1, <2>2
  <2>4. g[k + 1] = g[k] + t[k + 1].size /\ t[k + 1].size = s[d + (k + 1)].size
    BY <1>2, <2>2
  <2>5. f[d] \in Nat /\ g[k] \in Nat /\ t[k + 1].size \in Nat
    BY <1>1, <1>2, <2>2
  <2>6. QED
    BY <2>1, <2>3, <2>4, <2>5
<1>5. \A k \in Nat : k \in T
  <2> HIDE DEF T
  <2>1. QED
    BY <1>3, <1>4, Induction
<1>6. QED
  BY <1>5

(* Of the numbers with a property one is the least. *)
LEMMA Least ==
    ASSUME NEW T \in SUBSET Nat, T # {}
    PROVE  \E x \in T : \A y \in T : x <= y
<1>1. PICK x \in T : \A y \in T : ~(<<y, x>> \in OpToRel(<, Nat))
  BY NatLessThanWellFounded, WFMin
<1>2. \A y \in T : x <= y
  <2> SUFFICES ASSUME NEW y \in T, ~(x <= y) PROVE FALSE
    OBVIOUS
  <2>1. <<y, x>> \in OpToRel(<, Nat)
    BY DEF OpToRel
  <2>2. QED
    BY <1>1, <2>1
<1>3. QED
  BY <1>2

(* Of numbers with a bound one is the greatest. *)
LEMMA Greatest ==
    ASSUME NEW b \in Nat, NEW T \in SUBSET (0 .. b), T # {}
    PROVE  \E m \in T : \A k \in T : k <= m
<1> DEFINE U == {b - k : k \in T}
<1>1. U \subseteq Nat /\ U # {}
  <2>1. \A k \in T : k \in Nat /\ b - k \in Nat
    OBVIOUS
  <2>2. PICK k \in T : TRUE
    OBVIOUS
  <2>3. b - k \in U
    OBVIOUS
  <2>4. QED
    BY <2>1, <2>3
<1>2. PICK x \in U : \A y \in U : ~(<<y, x>> \in OpToRel(<, Nat))
  BY <1>1, NatLessThanWellFounded, WFMin
<1>3. PICK m \in T : x = b - m
  OBVIOUS
<1>4. \A k \in T : k <= m
  <2> SUFFICES ASSUME NEW k \in T, ~(k <= m) PROVE FALSE
    OBVIOUS
  <2>1. b - k < x /\ b - k \in U /\ b - k \in Nat /\ x \in Nat
    BY <1>3
  <2>2. QED
    BY <1>2, <2>1 DEF OpToRel
<1>5. QED
  BY <1>4

(* The entries of the cache, and what they weigh. *)
Records == [id : Sessions, size : Sizes]

LEMMA RecordSizes ==
    ASSUME NEW s \in Seq(Records)
    PROVE  /\ Len(s) \in Nat /\ DOMAIN s = 1 .. Len(s)
           /\ \A i \in 1 .. Len(s) : s[i] \in Records
           /\ Numbers(s, Len(s))
<1>1. \A i \in 1 .. Len(s) : s[i] \in Records
  BY ElementOfSeq
<1>2. QED
  BY <1>1, BudgetsAssumption, LenProperties DEF Records, Numbers

LEMMA SizeIsTotal ==
    ASSUME NEW s \in Seq(Records)
    PROVE  \E f : Totals(s, Len(s), f) /\ SizeOf(s) = f[Len(s)]
<1> DEFINE f == CHOOSE f : Totals(s, Len(s), f)
<1>1. Len(s) \in Nat
  BY LenProperties
<1>2. Totals(s, Len(s), f)
  BY <1>1, TotalsExist
<1>3. SizeOf(s) = f[Len(s)]
  BY DEF SizeOf, Totals
<1>4. QED
  BY <1>2, <1>3

LEMMA SizeIsNumber ==
    ASSUME NEW s \in Seq(Records)
    PROVE  /\ SizeOf(s) \in Nat
           /\ Len(s) = 0 => SizeOf(s) = 0
           /\ Len(s) = 1 => SizeOf(s) = s[1].size
<1>1. PICK f : Totals(s, Len(s), f) /\ SizeOf(s) = f[Len(s)]
  BY SizeIsTotal
<1>2. Len(s) \in Nat /\ \A i \in 1 .. Len(s) : s[i].size \in Nat
  BY RecordSizes DEF Numbers
<1>3. /\ \A i \in 0 .. Len(s) : f[i] \in Nat
      /\ f[0] = 0
      /\ \A i \in 1 .. Len(s) : f[i] = f[i - 1] + s[i].size
  BY <1>1, <1>2, TotalsType
<1>4. Len(s) = 1 => f[1] = f[0] + s[1].size
  <2>1. Len(s) = 1 => 1 \in 1 .. Len(s) /\ 1 - 1 = 0
    OBVIOUS
  <2>2. QED
    BY <1>3, <2>1
<1>5. QED
  BY <1>1, <1>2, <1>3, <1>4

(* Two sequences weigh together what each of them does. *)
LEMMA SizeOfConcat ==
    ASSUME NEW s \in Seq(Records), NEW t \in Seq(Records)
    PROVE  s \o t \in Seq(Records) /\ SizeOf(s \o t) = SizeOf(s) + SizeOf(t)
<1> DEFINE u == s \o t
           m == Len(s)
           n == Len(t)
<1>1. /\ u \in Seq(Records) /\ Len(u) = m + n /\ m \in Nat /\ n \in Nat
      /\ \A i \in 1 .. m + n : u[i] = IF i <= m THEN s[i] ELSE t[i - m]
  BY ConcatProperties, LenProperties
<1> HIDE DEF u
<1>2. PICK f : Totals(u, m + n, f) /\ SizeOf(u) = f[m + n]
  BY <1>1, SizeIsTotal
<1>3. PICK g : Totals(s, m, g) /\ SizeOf(s) = g[m]
  BY SizeIsTotal
<1>4. PICK h : Totals(t, n, h) /\ SizeOf(t) = h[n]
  BY SizeIsTotal
<1>5. Numbers(u, m + n) /\ Numbers(s, m) /\ Numbers(t, n)
  <2>1. Numbers(u, Len(u)) /\ Numbers(s, m) /\ Numbers(t, n)
    BY <1>1, RecordSizes
  <2>2. QED
    BY <1>1, <2>1
<1>6. Agree(s, m, u, 0)
  <2> SUFFICES ASSUME NEW i \in 1 .. m PROVE s[i].size = u[0 + i].size
    BY DEF Agree
  <2>1. i \in 1 .. m + n /\ i <= m /\ 0 + i = i
    BY <1>1
  <2>2. u[i] = s[i]
    BY <1>1, <2>1
  <2>3. QED
    BY <2>1, <2>2
<1>7. Agree(t, n, u, m)
  <2> SUFFICES ASSUME NEW i \in 1 .. n PROVE t[i].size = u[m + i].size
    BY DEF Agree
  <2>1. m + i \in 1 .. m + n /\ ~(m + i <= m) /\ (m + i) - m = i
    BY <1>1
  <2>2. QED
    BY <1>1, <2>1
<1>8. f[0 + m] = f[0] + g[m]
  <2>1. m + n \in Nat /\ 0 + m <= m + n /\ 0 \in Nat
    BY <1>1
  <2>2. QED
    BY <1>1, <1>2, <1>3, <1>5, <1>6, <2>1, TotalsShift
<1>9. f[m + n] = f[m] + h[n]
  <2>1. m + n \in Nat /\ m + n <= m + n
    BY <1>1
  <2>2. QED
    BY <1>1, <1>2, <1>4, <1>5, <1>7, <2>1, TotalsShift
<1>10. f[0] = 0
  <2>1. m + n \in Nat /\ \A i \in 1 .. m + n : u[i].size \in Nat
    BY <1>1, <1>5 DEF Numbers
  <2>2. QED
    BY <1>2, <2>1, TotalsType
<1>11. SizeOf(s) \in Nat /\ SizeOf(t) \in Nat
  BY SizeIsNumber
<1>12. SizeOf(u) = SizeOf(s) + SizeOf(t)
  <2>1. f[m] = g[m]
    BY <1>1, <1>3, <1>8, <1>10, <1>11
  <2>2. QED
    BY <1>2, <1>3, <1>4, <1>9, <2>1
<1>13. QED
  BY <1>1, <1>12 DEF u

LEMMA SizeOfAppend ==
    ASSUME NEW s \in Seq(Records), NEW e \in Records
    PROVE  /\ Append(s, e) \in Seq(Records)
           /\ SizeOf(Append(s, e)) = SizeOf(s) + e.size
<1>1. <<e>> \in Seq(Records) /\ Len(<<e>>) = 1 /\ <<e>>[1] = e
  OBVIOUS
<1>2. SizeOf(<<e>>) = e.size
  BY <1>1, SizeIsNumber
<1>3. Append(s, e) = s \o <<e>>
  BY AppendIsConcat
<1>4. QED
  BY <1>1, <1>2, <1>3, SizeOfConcat

(* What eviction from the front leaves, and what it takes away. *)
LEMMA SizeOfParts ==
    ASSUME NEW s \in Seq(Records), NEW n \in 0 .. Len(s)
    PROVE  /\ SubSeq(s, 1, n) \in Seq(Records) /\ Len(SubSeq(s, 1, n)) = n
           /\ SubSeq(s, n + 1, Len(s)) \in Seq(Records)
           /\ Len(SubSeq(s, n + 1, Len(s))) = Len(s) - n
           /\ \A i \in 1 .. Len(s) - n : SubSeq(s, n + 1, Len(s))[i] = s[n + i]
           /\ SizeOf(s) = SizeOf(SubSeq(s, 1, n)) + SizeOf(SubSeq(s, n + 1, Len(s)))
<1> DEFINE a == SubSeq(s, 1, n)
           b == SubSeq(s, n + 1, Len(s))
<1>1. Len(s) \in Nat /\ n \in Nat /\ n <= Len(s) /\ \A i \in 1 .. Len(s) : s[i] \in Records
  BY RecordSizes
<1>2. a \in Seq(Records) /\ Len(a) = n /\ \A i \in 1 .. n : a[i] = s[i]
  <2>1. /\ a \in Seq(Records)
        /\ Len(a) = IF 1 <= n THEN n - 1 + 1 ELSE 0
        /\ \A i \in 1 .. n - 1 + 1 : a[i] = s[1 + i - 1]
    <3>1. \A i \in 1 .. n : s[i] \in Records
      BY <1>1
    <3>2. QED
      BY <1>1, <3>1, SubSeqProperties
  <2>2. \A i \in 1 .. n : i \in 1 .. n - 1 + 1 /\ 1 + i - 1 = i
    BY <1>1
  <2>3. QED
    BY <1>1, <2>1, <2>2
<1>3. b \in Seq(Records) /\ Len(b) = Len(s) - n /\ \A i \in 1 .. Len(s) - n : b[i] = s[n + i]
  <2>1. /\ b \in Seq(Records)
        /\ Len(b) = IF n + 1 <= Len(s) THEN Len(s) - (n + 1) + 1 ELSE 0
        /\ \A i \in 1 .. Len(s) - (n + 1) + 1 : b[i] = s[(n + 1) + i - 1]
    <3>1. \A i \in n + 1 .. Len(s) : s[i] \in Records
      BY <1>1
    <3>2. QED
      BY <1>1, <3>1, SubSeqProperties
  <2>2. \A i \in 1 .. Len(s) - n : i \in 1 .. Len(s) - (n + 1) + 1 /\ (n + 1) + i - 1 = n + i
    BY <1>1
  <2>3. QED
    BY <1>1, <2>1, <2>2
<1> HIDE DEF a, b
<1>4. s = a \o b
  <2>1. /\ a \o b \in Seq(Records) /\ Len(a \o b) = n + (Len(s) - n)
        /\ \A i \in 1 .. n + (Len(s) - n) : (a \o b)[i] = IF i <= n THEN a[i] ELSE b[i - n]
    BY <1>2, <1>3, ConcatProperties
  <2>2. \A i \in 1 .. Len(s) : (a \o b)[i] = s[i]
    <3> SUFFICES ASSUME NEW i \in 1 .. Len(s) PROVE (a \o b)[i] = s[i]
      OBVIOUS
    <3>1. (a \o b)[i] = IF i <= n THEN a[i] ELSE b[i - n]
      BY <1>1, <2>1
    <3>2. CASE i <= n
      BY <1>1, <1>2, <3>1, <3>2
    <3>3. CASE ~(i <= n)
      <4>1. i - n \in 1 .. Len(s) - n /\ n + (i - n) = i
        BY <1>1, <3>3
      <4>2. QED
        BY <1>3, <3>1, <3>3, <4>1
    <3>4. QED
      BY <3>2, <3>3
  <2>3. Len(s) = Len(a \o b)
    BY <1>1, <2>1
  <2>4. QED
    BY <2>1, <2>2, <2>3, SeqEqual
<1>5. QED
  BY <1>2, <1>3, <1>4, SizeOfConcat DEF a, b

(* One element less. *)
LEMMA OneRemoved ==
    ASSUME NEW S, NEW s \in Seq(S), NEW p \in 1 .. Len(s)
    PROVE  /\ RemoveAt(s, p) \in Seq(S)
           /\ Len(RemoveAt(s, p)) = Len(s) - 1
           /\ \A i \in 1 .. Len(s) - 1 :
                  RemoveAt(s, p)[i] = IF i < p THEN s[i] ELSE s[i + 1]
<1> DEFINE a == SubSeq(s, 1, p - 1)
           b == SubSeq(s, p + 1, Len(s))
<1>1. Len(s) \in Nat /\ p \in Nat /\ \A i \in 1 .. Len(s) : s[i] \in S
  BY LenProperties, ElementOfSeq
<1>2. a \in Seq(S) /\ Len(a) = p - 1 /\ \A i \in 1 .. p - 1 : a[i] = s[i]
  <2>1. /\ a \in Seq(S)
        /\ Len(a) = IF 1 <= p - 1 THEN p - 1 - 1 + 1 ELSE 0
        /\ \A i \in 1 .. p - 1 - 1 + 1 : a[i] = s[1 + i - 1]
    <3>1. \A i \in 1 .. p - 1 : s[i] \in S
      BY <1>1
    <3>2. QED
      BY <1>1, <3>1, SubSeqProperties
  <2>2. \A i \in 1 .. p - 1 : i \in 1 .. p - 1 - 1 + 1 /\ 1 + i - 1 = i
    BY <1>1
  <2>3. QED
    BY <1>1, <2>1, <2>2
<1>3. b \in Seq(S) /\ Len(b) = Len(s) - p /\ \A i \in 1 .. Len(s) - p : b[i] = s[p + i]
  <2>1. /\ b \in Seq(S)
        /\ Len(b) = IF p + 1 <= Len(s) THEN Len(s) - (p + 1) + 1 ELSE 0
        /\ \A i \in 1 .. Len(s) - (p + 1) + 1 : b[i] = s[(p + 1) + i - 1]
    <3>1. \A i \in p + 1 .. Len(s) : s[i] \in S
      BY <1>1
    <3>2. QED
      BY <1>1, <3>1, SubSeqProperties
  <2>2. \A i \in 1 .. Len(s) - p : i \in 1 .. Len(s) - (p + 1) + 1 /\ (p + 1) + i - 1 = p + i
    BY <1>1
  <2>3. QED
    BY <1>1, <2>1, <2>2
<1>4. RemoveAt(s, p) = a \o b
  BY DEF RemoveAt
<1> HIDE DEF a, b
<1>5. /\ a \o b \in Seq(S) /\ Len(a \o b) = (p - 1) + (Len(s) - p)
      /\ \A i \in 1 .. (p - 1) + (Len(s) - p) :
             (a \o b)[i] = IF i <= p - 1 THEN a[i] ELSE b[i - (p - 1)]
  <2>1. /\ a \o b \in Seq(S) /\ Len(a \o b) = Len(a) + Len(b)
        /\ \A i \in 1 .. Len(a) + Len(b) :
               (a \o b)[i] = IF i <= Len(a) THEN a[i] ELSE b[i - Len(a)]
    BY <1>2, <1>3, ConcatProperties
  <2>2. QED
    BY <1>2, <1>3, <2>1
<1>6. (p - 1) + (Len(s) - p) = Len(s) - 1
  BY <1>1
<1>7. ASSUME NEW i \in 1 .. Len(s) - 1
      PROVE  (a \o b)[i] = IF i < p THEN s[i] ELSE s[i + 1]
  <2>1. (a \o b)[i] = IF i <= p - 1 THEN a[i] ELSE b[i - (p - 1)]
    BY <1>5, <1>6
  <2>2. CASE i < p
    <3>1. i \in 1 .. p - 1 /\ i <= p - 1
      BY <1>1, <2>2
    <3>2. QED
      BY <1>2, <2>1, <2>2, <3>1
  <2>3. CASE ~(i < p)
    <3>1. ~(i <= p - 1) /\ i - (p - 1) \in 1 .. Len(s) - p /\ p + (i - (p - 1)) = i + 1
      BY <1>1, <2>3
    <3>2. QED
      BY <1>3, <2>1, <2>3, <3>1
  <2>4. QED
    BY <2>2, <2>3
<1>8. QED
  BY <1>4, <1>5, <1>6, <1>7

(* The removed entry is what the rest weighs less. *)
LEMMA SizeOfRemoved ==
    ASSUME NEW s \in Seq(Records), NEW p \in 1 .. Len(s)
    PROVE  SizeOf(s) = SizeOf(RemoveAt(s, p)) + s[p].size
<1> DEFINE a == SubSeq(s, 1, p - 1)
           b == SubSeq(s, p, Len(s))
           c == SubSeq(s, p + 1, Len(s))
           d == SubSeq(b, 1, 1)
           e == SubSeq(b, 2, Len(b))
<1>1. Len(s) \in Nat /\ p \in Nat /\ p - 1 \in 0 .. Len(s) /\ p \in 0 .. Len(s) /\ (p - 1) + 1 = p
  BY RecordSizes
<1>2. /\ a \in Seq(Records)
      /\ b \in Seq(Records) /\ Len(b) = Len(s) - (p - 1)
      /\ \A i \in 1 .. Len(s) - (p - 1) : b[i] = s[(p - 1) + i]
      /\ SizeOf(s) = SizeOf(a) + SizeOf(b)
  <2>1. /\ a \in Seq(Records)
        /\ SubSeq(s, (p - 1) + 1, Len(s)) \in Seq(Records)
        /\ Len(SubSeq(s, (p - 1) + 1, Len(s))) = Len(s) - (p - 1)
        /\ \A i \in 1 .. Len(s) - (p - 1) : SubSeq(s, (p - 1) + 1, Len(s))[i] = s[(p - 1) + i]
        /\ SizeOf(s) = SizeOf(a) + SizeOf(SubSeq(s, (p - 1) + 1, Len(s)))
    BY <1>1, SizeOfParts
  <2>2. QED
    BY <1>1, <2>1
<1>3. /\ c \in Seq(Records) /\ Len(c) = Len(s) - p
      /\ \A i \in 1 .. Len(s) - p : c[i] = s[p + i]
  BY <1>1, SizeOfParts
<1> HIDE DEF a, b, c
<1>4. 1 \in 0 .. Len(b) /\ Len(b) - 1 = Len(s) - p /\ Len(b) \in Nat
  BY <1>1, <1>2
<1>5. /\ d \in Seq(Records) /\ Len(d) = 1
      /\ e \in Seq(Records) /\ Len(e) = Len(b) - 1
      /\ \A i \in 1 .. Len(b) - 1 : e[i] = b[1 + i]
      /\ SizeOf(b) = SizeOf(d) + SizeOf(e)
  <2>1. 1 + 1 = 2
    OBVIOUS
  <2>2. QED
    BY <1>2, <1>4, <2>1, SizeOfParts
<1>6. d[1] = s[p]
  <2>1. d[1] = b[1]
    <3>1. b[1] \in Records
      BY <1>2, <1>4, RecordSizes
    <3>2. \A i \in 1 .. 1 : b[i] \in Records
      BY <3>1
    <3>3. \A i \in 1 .. 1 - 1 + 1 : d[i] = b[1 + i - 1]
      BY <3>2, SubSeqProperties
    <3>4. QED
      BY <3>3
  <2>2. 1 \in 1 .. Len(s) - (p - 1) /\ (p - 1) + 1 = p
    BY <1>1
  <2>3. QED
    BY <1>2, <2>1, <2>2
<1> HIDE DEF d, e
<1>7. e = c
  <2>1. \A i \in 1 .. Len(e) : e[i] = c[i]
    <3> SUFFICES ASSUME NEW i \in 1 .. Len(s) - p PROVE e[i] = c[i]
      BY <1>4, <1>5
    <3>1. i \in 1 .. Len(b) - 1 /\ 1 + i \in 1 .. Len(s) - (p - 1) /\ (p - 1) + (1 + i) = p + i
      BY <1>1, <1>4
    <3>2. QED
      BY <1>2, <1>3, <1>5, <3>1
  <2>2. QED
    BY <1>3, <1>4, <1>5, <2>1, SeqEqual
<1>8. SizeOf(d) = s[p].size
  BY <1>5, <1>6, SizeIsNumber
<1>9. SizeOf(RemoveAt(s, p)) = SizeOf(a) + SizeOf(c)
  BY <1>2, <1>3, SizeOfConcat DEF RemoveAt, a, c
<1>10. SizeOf(a) \in Nat /\ SizeOf(c) \in Nat /\ SizeOf(d) \in Nat
  BY <1>2, <1>3, <1>5, SizeIsNumber
<1>11. QED
  BY <1>2, <1>5, <1>7, <1>8, <1>9, <1>10

(* As many elements as places, when no two are alike. *)
LEMMA CountOfPlaces ==
    ASSUME NEW n \in Nat, NEW f, \A i, j \in 1 .. n : f[i] = f[j] => i = j,
           NEW T, \A x : x \in T <=> \E i \in 1 .. n : x = f[i]
    PROVE  Cardinality(T) = n
<1> DEFINE g == [i \in 1 .. n |-> f[i]]
<1>1. g \in Bijection(1 .. n, T)
  BY DEF Bijection, Injection, Surjection, IsInjective
<1>2. ExistsBijection(1 .. n, T)
  BY <1>1 DEF ExistsBijection
<1>3. QED
  BY <1>2, FS_CountingElements

-----------------------------------------------------------------------------
(* The cache and the router.                                               *)

(* What a cache with counter b keeps to: one entry per session, the        *)
(* counter, and both bounds.                                               *)
Apart(s) == \A i, j \in 1 .. Len(s) : s[i].id = s[j].id => i = j
Stored(s, b) ==
    /\ s \in Seq(Records) /\ Apart(s)
    /\ Len(s) <= MaxSessions
    /\ b = SizeOf(s) /\ b <= MaxBytes

(* pop takes the entry of the session and no other, and its size with it.  *)
LEMMA PoppedIsOne ==
    ASSUME NEW s \in Seq(Records), Apart(s), NEW k
    PROVE  /\ Without(s, k) \in Seq(Records) /\ Apart(Without(s, k))
           /\ \A i \in 1 .. Len(Without(s, k)) : Without(s, k)[i].id # k
           /\ Len(Without(s, k)) <= Len(s)
           /\ \A i \in 1 .. Len(s) : s[i].id # k =>
                  \E j \in 1 .. Len(Without(s, k)) : Without(s, k)[j] = s[i]
           /\ IF \E i \in 1 .. Len(s) : s[i].id = k
                THEN /\ PlaceOf(s, k) \in 1 .. Len(s) /\ s[PlaceOf(s, k)].id = k
                     /\ Len(Without(s, k)) = Len(s) - 1
                     /\ SizeOf(s) = SizeOf(Without(s, k)) + s[PlaceOf(s, k)].size
                ELSE Without(s, k) = s
<1>1. DOMAIN s = 1 .. Len(s) /\ Len(s) \in Nat
  BY RecordSizes
<1>2. CASE ~\E i \in 1 .. Len(s) : s[i].id = k
  BY <1>1, <1>2 DEF Without
<1>3. CASE \E i \in 1 .. Len(s) : s[i].id = k
  <2> DEFINE p == PlaceOf(s, k)
             r == RemoveAt(s, p)
  <2>1. p \in 1 .. Len(s) /\ s[p].id = k
    BY <1>1, <1>3 DEF PlaceOf
  <2>2. Without(s, k) = r
    BY <1>1, <1>3 DEF Without
  <2> HIDE DEF p
  <2>3. /\ r \in Seq(Records) /\ Len(r) = Len(s) - 1
        /\ \A i \in 1 .. Len(s) - 1 : r[i] = IF i < p THEN s[i] ELSE s[i + 1]
    BY <2>1, OneRemoved
  <2>4. SizeOf(s) = SizeOf(r) + s[p].size
    BY <2>1, SizeOfRemoved
  <2> HIDE DEF r
  <2> DEFINE from(i) == IF i < p THEN i ELSE i + 1
  <2>5. \A i \in 1 .. Len(r) : from(i) \in 1 .. Len(s) /\ from(i) # p /\ r[i] = s[from(i)]
    BY <1>1, <2>1, <2>3
  <2>6. \A i, j \in 1 .. Len(r) : from(i) = from(j) => i = j
    BY <1>1, <2>1, <2>3
  <2>7. \A i \in 1 .. Len(s) : i # p => \E j \in 1 .. Len(r) : r[j] = s[i]
    <3> SUFFICES ASSUME NEW i \in 1 .. Len(s), i # p
                 PROVE  \E j \in 1 .. Len(r) : r[j] = s[i]
      OBVIOUS
    <3>1. CASE i < p
      BY <1>1, <2>1, <2>3, <3>1
    <3>2. CASE ~(i < p)
      <4>1. i - 1 \in 1 .. Len(s) - 1 /\ ~(i - 1 < p) /\ (i - 1) + 1 = i
        BY <1>1, <2>1, <3>2
      <4>2. r[i - 1] = s[i]
        BY <2>3, <4>1
      <4>3. QED
        BY <2>3, <4>1, <4>2
    <3>3. QED
      BY <3>1, <3>2
  <2> HIDE DEF from
  <2>8. Apart(r)
    BY <2>5, <2>6 DEF Apart
  <2>9. \A i \in 1 .. Len(r) : r[i].id # k
    BY <2>1, <2>5 DEF Apart
  <2>10. Len(r) <= Len(s)
    BY <1>1, <2>3
  <2>11. QED
    BY <1>3, <2>1, <2>2, <2>3, <2>4, <2>7, <2>8, <2>9, <2>10 DEF p
<1>4. QED
  BY <1>2, <1>3

(* A new last entry, of a session that had none. *)
LEMMA ApartOfAppend ==
    ASSUME NEW s \in Seq(Records), Apart(s), NEW e \in Records,
           \A i \in 1 .. Len(s) : s[i].id # e.id
    PROVE  Apart(Append(s, e))
<1> DEFINE t == Append(s, e)
<1>1. /\ Len(t) = Len(s) + 1 /\ Len(s) \in Nat /\ t[Len(s) + 1] = e
      /\ \A i \in 1 .. Len(s) : t[i] = s[i]
  BY AppendProperties, LenProperties
<1> HIDE DEF t
<1>2. Apart(t)
  <2> SUFFICES ASSUME NEW i \in 1 .. Len(t), NEW j \in 1 .. Len(t), t[i].id = t[j].id
               PROVE  i = j
    BY DEF Apart
  <2>1. (i \in 1 .. Len(s) \/ i = Len(s) + 1) /\ (j \in 1 .. Len(s) \/ j = Len(s) + 1)
    BY <1>1
  <2>2. QED
    BY <1>1, <2>1 DEF Apart
<1>3. QED
  BY <1>2 DEF t

(* admit keeps the cache within its bounds, and the counter exact: however *)
(* many entries it evicts, they are the least recently used, and the new   *)
(* one fits.                                                               *)
LEMMA AdmittedFits ==
    ASSUME Stored(cache, bytes), NEW s \in Sessions, NEW size \in Sizes, size <= MaxBytes
    PROVE  Stored(Admitted(s, size).cache, Admitted(s, size).bytes)
<1> DEFINE others == Without(cache, s)
           n == Len(others)
           rest == bytes - (IF s \in Cached THEN EntryOf(s).size ELSE 0)
           kept(q) == SubSeq(others, q + 1, n)
           left(q) == rest - SizeOf(SubSeq(others, 1, q))
           fits(q) == q = n \/ (Len(kept(q)) < MaxSessions /\ left(q) + size <= MaxBytes)
           first(q) == fits(q) /\ \A l \in 0 .. (q - 1) : ~fits(l)
           evicted == CHOOSE q \in 0 .. n : first(q)
           new == [id |-> s, size |-> size]
<1>1. cache \in Seq(Records) /\ Apart(cache) /\ bytes = SizeOf(cache)
  BY DEF Stored
<1>2. DOMAIN cache = 1 .. Len(cache) /\ \A i \in 1 .. Len(cache) : cache[i] \in Records
  BY <1>1, RecordSizes
<1>3. s \in Cached <=> \E i \in 1 .. Len(cache) : cache[i].id = s
  BY <1>2 DEF Cached
<1>4. /\ others \in Seq(Records) /\ Apart(others) /\ n \in Nat
      /\ \A i \in 1 .. n : others[i].id # s
      /\ rest = SizeOf(others) /\ SizeOf(others) \in Nat
  <2>1. /\ others \in Seq(Records) /\ Apart(others)
        /\ \A i \in 1 .. n : others[i].id # s
    BY <1>1, PoppedIsOne
  <2>2. SizeOf(others) \in Nat /\ SizeOf(cache) \in Nat /\ n \in Nat
    BY <1>1, <2>1, SizeIsNumber, LenProperties
  <2>3. rest = SizeOf(others)
    <3>1. CASE s \in Cached
      <4>1. /\ PlaceOf(cache, s) \in 1 .. Len(cache)
            /\ SizeOf(cache) = SizeOf(others) + cache[PlaceOf(cache, s)].size
        BY <1>1, <1>3, <3>1, PoppedIsOne
      <4>2. cache[PlaceOf(cache, s)].size \in Nat
        BY <1>2, <4>1, BudgetsAssumption DEF Records
      <4>3. QED
        BY <1>1, <2>2, <3>1, <4>1, <4>2 DEF EntryOf
    <3>2. CASE s \notin Cached
      <4>1. others = cache
        BY <1>1, <1>3, <3>2, PoppedIsOne
      <4>2. QED
        BY <1>1, <2>2, <3>2, <4>1
    <3>3. QED
      BY <3>1, <3>2
  <2>4. QED
    BY <2>1, <2>2, <2>3
<1> HIDE DEF others, rest
<1>5. evicted \in 0 .. n /\ fits(evicted)
  <2> DEFINE T == {q \in 0 .. n : fits(q)}
  <2>1. n \in T /\ T \in SUBSET Nat
    <3>1. fits(n) /\ n \in 0 .. n
      BY <1>4
    <3> HIDE DEF fits
    <3>2. QED
      BY <3>1, <1>4
  <2>2. PICK x \in T : \A y \in T : x <= y
    <3> HIDE DEF T
    <3>1. QED
      BY <2>1, Least
  <2>3. \A l \in 0 .. (x - 1) : ~fits(l)
    <3> SUFFICES ASSUME NEW l \in 0 .. (x - 1), fits(l) PROVE FALSE
      OBVIOUS
    <3> HIDE DEF fits
    <3>1. l \in 0 .. n /\ l < x /\ x \in Nat
      BY <1>4
    <3>2. l \in T
      BY <3>1
    <3>3. QED
      BY <2>2, <3>1, <3>2
  <2>4. \E q \in 0 .. n : first(q)
    BY <2>3
  <2> HIDE DEF fits
  <2>5. QED
    BY <2>4
<1> DEFINE m == evicted
<1>6. /\ Admitted(s, size).cache = Append(kept(m), new)
      /\ Admitted(s, size).bytes = left(m) + size
  <2>1. Admitted(s, size) = [cache |-> Append(kept(m), new), bytes |-> left(m) + size]
    BY DEF Admitted, others, rest
  <2> HIDE DEF kept, left, new, m
  <2>2. QED
    BY <2>1
<1> HIDE DEF m, evicted
<1>7. m \in 0 .. n /\ fits(m)
  BY <1>5 DEF m
<1>8. /\ kept(m) \in Seq(Records) /\ Len(kept(m)) = n - m
      /\ \A i \in 1 .. n - m : kept(m)[i] = others[m + i]
      /\ SizeOf(others) = SizeOf(SubSeq(others, 1, m)) + SizeOf(kept(m))
      /\ SubSeq(others, 1, m) \in Seq(Records)
  BY <1>4, <1>7, SizeOfParts
<1>9. SizeOf(kept(m)) \in Nat /\ left(m) = SizeOf(kept(m)) /\ (n - m = 0 => SizeOf(kept(m)) = 0)
  <2>1. SizeOf(kept(m)) \in Nat /\ SizeOf(SubSeq(others, 1, m)) \in Nat
    BY <1>8, SizeIsNumber
  <2>2. Len(kept(m)) = 0 => SizeOf(kept(m)) = 0
    BY <1>8, SizeIsNumber
  <2>3. QED
    BY <1>4, <1>8, <2>1, <2>2
<1> DEFINE k == kept(m)
           w == left(m)
<1>10. m = n \/ (Len(k) < MaxSessions /\ w + size <= MaxBytes)
  BY <1>7
<1> HIDE DEF fits, first
<1>11. k \in Seq(Records) /\ Len(k) = n - m /\ w = SizeOf(k) /\ w \in Nat
       /\ \A i \in 1 .. n - m : k[i] = others[m + i]
  BY <1>8, <1>9
<1>12. m = n => Len(k) = 0 /\ w = 0
  BY <1>4, <1>9, <1>11
<1> HIDE DEF k, w
<1>13. new \in Records /\ new.size = size /\ new.id = s /\ size \in Nat
  BY BudgetsAssumption DEF Records
<1>14. Apart(k) /\ \A i \in 1 .. Len(k) : k[i].id # new.id
  <2>1. \A i \in 1 .. Len(k) : m + i \in 1 .. n /\ k[i] = others[m + i]
    BY <1>4, <1>7, <1>11
  <2>2. \A i, j \in 1 .. Len(k) : m + i = m + j => i = j
    BY <1>4, <1>7
  <2>3. Apart(k)
    <3> SUFFICES ASSUME NEW i \in 1 .. Len(k), NEW j \in 1 .. Len(k), k[i].id = k[j].id
                 PROVE  i = j
      BY DEF Apart
    <3>1. m + i = m + j
      BY <1>4, <2>1 DEF Apart
    <3>2. QED
      BY <2>2, <3>1
  <2>4. QED
    BY <1>4, <1>13, <2>1, <2>3
<1>15. /\ Append(k, new) \in Seq(Records) /\ Apart(Append(k, new))
       /\ SizeOf(Append(k, new)) = w + size
       /\ Len(Append(k, new)) = Len(k) + 1
  <2>1. k \in Seq(Records) /\ new \in Records
    BY <1>11, <1>13
  <2> HIDE DEF k, new, w
  <2>2. Append(k, new) \in Seq(Records) /\ Len(Append(k, new)) = Len(k) + 1
    BY <2>1, AppendProperties
  <2>3. Apart(Append(k, new))
    BY <2>1, <1>14, ApartOfAppend
  <2>4. SizeOf(Append(k, new)) = w + size
    BY <2>1, <1>11, <1>13, SizeOfAppend
  <2>5. QED
    BY <2>2, <2>3, <2>4
<1>16. Len(k) + 1 <= MaxSessions /\ w + size <= MaxBytes
  <2>1. MaxSessions \in Nat \ {0} /\ MaxBytes \in Nat /\ Len(k) \in Nat
    BY <1>11, BudgetsAssumption, LenProperties
  <2>2. QED
    BY <1>10, <1>11, <1>12, <1>13, <2>1
<1>17. Admitted(s, size).cache = Append(k, new) /\ Admitted(s, size).bytes = w + size
  BY <1>6 DEF k, w
<1>18. QED
  BY <1>15, <1>16, <1>17 DEF Stored

(* get moves the entry it returns to the end, and weighs nothing anew.     *)
LEMMA TouchedFits ==
    ASSUME Stored(cache, bytes), NEW s \in Cached
    PROVE  /\ Stored(Touched(cache, s), bytes)
           /\ \E i \in 1 .. Len(Touched(cache, s)) : Touched(cache, s)[i].id = s
<1> DEFINE others == Without(cache, s)
           e == cache[PlaceOf(cache, s)]
<1>1. /\ cache \in Seq(Records) /\ Apart(cache) /\ bytes = SizeOf(cache)
      /\ Len(cache) <= MaxSessions /\ bytes <= MaxBytes
  BY DEF Stored
<1>2. DOMAIN cache = 1 .. Len(cache) /\ \A i \in 1 .. Len(cache) : cache[i] \in Records
  BY <1>1, RecordSizes
<1>3. \E i \in 1 .. Len(cache) : cache[i].id = s
  BY <1>2 DEF Cached
<1>4. /\ others \in Seq(Records) /\ Apart(others)
      /\ \A i \in 1 .. Len(others) : others[i].id # s
      /\ PlaceOf(cache, s) \in 1 .. Len(cache) /\ e.id = s
      /\ Len(others) = Len(cache) - 1
      /\ SizeOf(cache) = SizeOf(others) + e.size
  BY <1>1, <1>3, PoppedIsOne
<1>5. e \in Records
  BY <1>2, <1>4
<1>6. Touched(cache, s) = Append(others, e)
  BY DEF Touched
<1> HIDE DEF others, e
<1>7. /\ Append(others, e) \in Seq(Records) /\ Apart(Append(others, e))
      /\ SizeOf(Append(others, e)) = SizeOf(others) + e.size
      /\ Len(Append(others, e)) = Len(others) + 1
      /\ Append(others, e)[Len(others) + 1] = e
  BY <1>4, <1>5, SizeOfAppend, ApartOfAppend, AppendProperties
<1>8. Len(others) \in Nat /\ Len(cache) \in Nat
  BY <1>1, <1>4, LenProperties
<1>9. Len(others) + 1 \in 1 .. Len(Append(others, e))
  BY <1>7, <1>8
<1>10. Len(Append(others, e)) = Len(cache)
  BY <1>4, <1>7, <1>8
<1>11. QED
  BY <1>1, <1>4, <1>6, <1>7, <1>9, <1>10 DEF Stored

(* discard gives back the bytes of the entry it takes out. *)
LEMMA DiscardedFits ==
    ASSUME Stored(cache, bytes), NEW s \in Cached
    PROVE  /\ Stored(Without(cache, s), bytes - EntryOf(s).size)
           /\ \A k \in Cached : k # s =>
                  \E i \in 1 .. Len(Without(cache, s)) : Without(cache, s)[i].id = k
<1> DEFINE others == Without(cache, s)
           e == cache[PlaceOf(cache, s)]
<1>1. /\ cache \in Seq(Records) /\ Apart(cache) /\ bytes = SizeOf(cache)
      /\ Len(cache) <= MaxSessions /\ bytes <= MaxBytes
  BY DEF Stored
<1>2. DOMAIN cache = 1 .. Len(cache) /\ \A i \in 1 .. Len(cache) : cache[i] \in Records
  BY <1>1, RecordSizes
<1>3. \E i \in 1 .. Len(cache) : cache[i].id = s
  BY <1>2 DEF Cached
<1>4. /\ others \in Seq(Records) /\ Apart(others)
      /\ PlaceOf(cache, s) \in 1 .. Len(cache)
      /\ Len(others) = Len(cache) - 1
      /\ SizeOf(cache) = SizeOf(others) + e.size
      /\ \A i \in 1 .. Len(cache) : cache[i].id # s =>
             \E j \in 1 .. Len(others) : others[j] = cache[i]
  BY <1>1, <1>3, PoppedIsOne
<1>5. e.size \in Nat
  BY <1>2, <1>4, BudgetsAssumption DEF Records
<1>6. EntryOf(s) = e
  BY DEF EntryOf
<1> HIDE DEF others, e
<1>7. SizeOf(others) \in Nat /\ Len(others) \in Nat /\ Len(cache) \in Nat
  BY <1>1, <1>4, SizeIsNumber, LenProperties
<1>8. bytes - e.size = SizeOf(others) /\ bytes - e.size <= MaxBytes /\ Len(others) <= MaxSessions
  BY <1>1, <1>4, <1>5, <1>7, BudgetsAssumption
<1>9. Stored(others, bytes - e.size)
  BY <1>4, <1>8 DEF Stored
<1>10. \A k \in Cached : k # s => \E i \in 1 .. Len(others) : others[i].id = k
  BY <1>2, <1>4 DEF Cached
<1>11. QED
  BY <1>6, <1>9, <1>10 DEF others

(* What the router knows, it knows once. *)
Known(q) ==
    /\ q \in Seq(Sessions)
    /\ \A i, j \in 1 .. Len(q) : q[i] = q[j] => i = j

LEMMA ForgottenOnce ==
    ASSUME NEW q, Known(q), NEW s
    PROVE  /\ Known(RemoveFirst(q, s))
           /\ \A i \in 1 .. Len(RemoveFirst(q, s)) : RemoveFirst(q, s)[i] # s
           /\ Len(RemoveFirst(q, s)) <= Len(q)
           /\ s \in ToSet(q) => Len(RemoveFirst(q, s)) = Len(q) - 1
<1>1. q \in Seq(Sessions) /\ Len(q) \in Nat /\ DOMAIN q = 1 .. Len(q)
  BY LenProperties DEF Known
<1>2. CASE ~\E i \in 1 .. Len(q) : q[i] = s
  <2>1. RemoveFirst(q, s) = q
    BY <1>2 DEF RemoveFirst
  <2>2. s \notin ToSet(q)
    BY <1>1, <1>2 DEF ToSet
  <2>3. /\ Known(q) /\ Len(q) <= Len(q)
        /\ \A i \in 1 .. Len(q) : q[i] # s
    BY <1>1, <1>2
  <2>4. QED
    BY <2>1, <2>2, <2>3
<1>3. CASE \E i \in 1 .. Len(q) : q[i] = s
  <2> DEFINE I == {i \in 1 .. Len(q) : q[i] = s}
             p == SelectInSeq(q, LAMBDA v : v = s)
             r == RemoveAt(q, p)
  <2>1. p \in I
    <3>1. I # {} /\ I \in SUBSET Nat
      BY <1>1, <1>3
    <3>2. p = CHOOSE x \in I : \A y \in I : x <= y
      BY <3>1 DEF SelectInSeq, Min
    <3>3. \E x \in I : \A y \in I : x <= y
      <4> HIDE DEF I
      <4>1. QED
        BY <3>1, Least
    <3> HIDE DEF I, p
    <3>4. QED
      BY <3>2, <3>3
  <2>2. RemoveFirst(q, s) = r
    BY <1>3 DEF RemoveFirst
  <2> HIDE DEF p
  <2>3. p \in 1 .. Len(q) /\ q[p] = s
    BY <2>1
  <2>4. /\ r \in Seq(Sessions) /\ Len(r) = Len(q) - 1
        /\ \A i \in 1 .. Len(q) - 1 : r[i] = IF i < p THEN q[i] ELSE q[i + 1]
    BY <1>1, <2>3, OneRemoved
  <2> HIDE DEF r
  <2> DEFINE from(i) == IF i < p THEN i ELSE i + 1
  <2>5. \A i \in 1 .. Len(r) : from(i) \in 1 .. Len(q) /\ from(i) # p /\ r[i] = q[from(i)]
    BY <1>1, <2>3, <2>4
  <2>6. \A i, j \in 1 .. Len(r) : from(i) = from(j) => i = j
    BY <1>1, <2>3, <2>4
  <2> HIDE DEF from
  <2>7. \A i, j \in 1 .. Len(r) : r[i] = r[j] => i = j
    BY <2>5, <2>6 DEF Known
  <2>8. \A i \in 1 .. Len(r) : r[i] # s
    BY <2>3, <2>5 DEF Known
  <2>9. Len(r) <= Len(q)
    BY <1>1, <2>4
  <2>10. QED
    BY <2>2, <2>4, <2>7, <2>8, <2>9 DEF Known
<1>4. QED
  BY <1>2, <1>3

(* An assignment adds what is not there, popitem takes the oldest. *)
LEMMA PutOnce ==
    ASSUME NEW q, Known(q), NEW s \in Sessions
    PROVE  Known(Put(q, s)) /\ Len(Put(q, s)) <= Len(q) + 1
<1>1. q \in Seq(Sessions) /\ Len(q) \in Nat /\ DOMAIN q = 1 .. Len(q)
  BY LenProperties DEF Known
<1>2. CASE s \in ToSet(q)
  BY <1>1, <1>2 DEF Put
<1>3. CASE s \notin ToSet(q)
  <2> DEFINE t == Append(q, s)
  <2>1. /\ t \in Seq(Sessions) /\ Len(t) = Len(q) + 1 /\ t[Len(q) + 1] = s
        /\ \A i \in 1 .. Len(q) : t[i] = q[i] /\ q[i] # s
    BY <1>1, <1>3, AppendProperties DEF ToSet
  <2> HIDE DEF t
  <2>2. \A i, j \in 1 .. Len(t) : t[i] = t[j] => i = j
    <3> SUFFICES ASSUME NEW i \in 1 .. Len(t), NEW j \in 1 .. Len(t), t[i] = t[j]
                 PROVE  i = j
      OBVIOUS
    <3>1. (i \in 1 .. Len(q) \/ i = Len(q) + 1) /\ (j \in 1 .. Len(q) \/ j = Len(q) + 1)
      BY <1>1, <2>1
    <3>2. QED
      BY <2>1, <3>1 DEF Known
  <2>3. Put(q, s) = t
    BY <1>3 DEF Put, t
  <2>4. QED
    BY <1>1, <2>1, <2>2, <2>3 DEF Known
<1>4. QED
  BY <1>2, <1>3

LEMMA TailOnce ==
    ASSUME NEW q, Known(q), q # <<>>
    PROVE  Known(Tail(q)) /\ Len(Tail(q)) = Len(q) - 1
<1>1. q \in Seq(Sessions) /\ Len(q) \in Nat
  BY LenProperties DEF Known
<1>2. /\ Tail(q) \in Seq(Sessions) /\ Len(Tail(q)) = Len(q) - 1
      /\ \A i \in 1 .. Len(Tail(q)) : Tail(q)[i] = q[i + 1]
  BY <1>1, HeadTailProperties
<1>3. \A i, j \in 1 .. Len(Tail(q)) : Tail(q)[i] = Tail(q)[j] => i = j
  <2> SUFFICES ASSUME NEW i \in 1 .. Len(Tail(q)), NEW j \in 1 .. Len(Tail(q)),
                      Tail(q)[i] = Tail(q)[j]
               PROVE  i = j
    OBVIOUS
  <2>1. i + 1 \in 1 .. Len(q) /\ j + 1 \in 1 .. Len(q)
    BY <1>1, <1>2
  <2>2. i + 1 = j + 1
    BY <1>2, <2>1 DEF Known
  <2>3. QED
    BY <1>1, <1>2, <2>2
<1>4. QED
  BY <1>2, <1>3 DEF Known

(* The caller that is inside a session that is active, and the cache.      *)
ActiveIsHeld ==
    active_session # None =>
        \E c \in Callers : Inside(c) /\ call[c].op = "infer" /\ call[c].session = active_session

(* Only sessions are compiled; compilations calibrate, inferences route. *)
CompilesNamed ==
    \A c \in Callers :
        /\ call[c].op = "compile" => call[c].session \in Sessions
        /\ call[c].at = "calibrate" => call[c].op = "compile"
        /\ call[c].at = "route" => call[c].op = "infer"

SessionInv ==
    /\ Stored(cache, bytes)
    /\ active_session \in Sessions \cup {None}
    /\ active_session # None => active_session \in Cached
    /\ ActiveIsHeld /\ CompilesNamed
    /\ hooks \subseteq Sessions
    /\ session_lock \in Callers \cup {None}

LEMMA CachedIs ==
    ASSUME NEW s \in Seq(Records), cache = s
    PROVE  \A k : k \in Cached <=> \E i \in 1 .. Len(s) : s[i].id = k
<1>1. DOMAIN s = 1 .. Len(s)
  BY RecordSizes
<1>2. QED
  BY <1>1 DEF Cached

(* Nobody is inside while the guard is free or another caller compiles, so *)
(* that no session is active then.                                         *)
LEMMA NoneIsActive ==
    ASSUME SessionInv, OverlayInv, NEW c \in Callers,
           guard = None \/ (Inside(c) /\ (call[c].op # "infer" \/ call[c].session = None))
    PROVE  active_session = None
<1> SUFFICES ASSUME active_session # None PROVE FALSE
  OBVIOUS
<1>1. PICK d \in Callers : Inside(d) /\ call[d].op = "infer" /\ call[d].session = active_session
  BY DEF SessionInv, ActiveIsHeld
<1>2. guard = d
  BY <1>1 DEF OverlayInv, InsideIsGuarded
<1>3. guard # None
  BY <1>2, CallersAssumption
<1>4. Inside(c) /\ (call[c].op # "infer" \/ call[c].session = None)
  BY <1>3
<1>5. guard = c
  BY <1>4 DEF OverlayInv, InsideIsGuarded
<1>6. c = d
  BY <1>2, <1>5
<1>7. QED
  BY <1>1, <1>4, <1>6

(* Steps that leave the cache, the hooks and who is inside alone. *)
LEMMA SessionOfOthers ==
    ASSUME SessionInv, NEW c \in Callers, UNCHANGED <<cacheVars, hookVars>>,
           \A d \in Callers \ {c} : call'[d] = call[d],
           Inside(c) => /\ Inside(c)' /\ call'[c].op = call[c].op
                        /\ call'[c].session = call[c].session,
           call'[c].op = "compile" => call'[c].session \in Sessions,
           call'[c].at = "calibrate" => call'[c].op = "compile",
           call'[c].at = "route" => call'[c].op = "infer",
           session_lock' \in {session_lock, c, None}
    PROVE  SessionInv'
<1>1. Stored(cache, bytes)' /\ Cached' = Cached
  BY DEF SessionInv, Stored, Cached, cacheVars
<1>2. ActiveIsHeld'
  BY DEF SessionInv, ActiveIsHeld, Inside, hookVars
<1>3. CompilesNamed'
  BY DEF SessionInv, CompilesNamed
<1>4. QED
  BY <1>1, <1>2, <1>3 DEF SessionInv, hookVars

LEMMA SessionOfPaths ==
    ASSUME SessionInv, CallsTyped, NEW c \in Callers, NEW s \in Sessions \cup {None},
           \/ Infer(c, s) \/ (Compile(c, s) /\ s \in Sessions) \/ TakeSessionLock(c)
           \/ EnterSlot(c) \/ Refused(c) \/ Backbone(c)
           \/ Reinsert(c) \/ Calibrate(c) \/ CheckRoom(c) \/ EvictOldest(c) \/ Keep(c)
    PROVE  SessionInv'
<1> USE DEF CallsTyped, Calls
<1>1. /\ call[c].op = "compile" => call[c].session \in Sessions
      /\ call[c].at = "calibrate" => call[c].op = "compile"
      /\ call[c].at = "route" => call[c].op = "infer"
  BY DEF SessionInv, CompilesNamed
<1>2. CASE \/ Infer(c, s) \/ (Compile(c, s) /\ s \in Sessions) \/ TakeSessionLock(c)
           \/ EnterSlot(c) \/ Backbone(c)
  <2>1. /\ \A d \in Callers \ {c} : call'[d] = call[d]
        /\ Inside(c) => Inside(c)' /\ call'[c].op = call[c].op /\ call'[c].session = call[c].session
        /\ session_lock' \in {session_lock, c, None} /\ UNCHANGED <<cacheVars, hookVars>>
        /\ call'[c].op = "compile" => call'[c].session \in Sessions
        /\ call'[c].at = "calibrate" => call'[c].op = "compile"
        /\ call'[c].at = "route" => call'[c].op = "infer"
    BY <1>1, <1>2 DEF Infer, Compile, TakeSessionLock, EnterSlot, Backbone, Step, Inside
  <2>2. QED
    BY <2>1, SessionOfOthers
<1>3. CASE Refused(c)
  <2>1. /\ \A d \in Callers \ {c} : call'[d] = call[d]
        /\ ~Inside(c) /\ UNCHANGED <<cacheVars, hookVars>>
        /\ session_lock' \in {session_lock, c, None} /\ call'[c] = IdleCall
    BY <1>3 DEF Refused, Release, Inside
  <2>2. QED
    BY <2>1, SessionOfOthers DEF IdleCall
<1>4. CASE Reinsert(c)
  <2>1. /\ \A d \in Callers \ {c} : call'[d] = call[d]
        /\ ~Inside(c) /\ UNCHANGED <<cacheVars, hookVars>> /\ session_lock' = session_lock
        /\ call'[c].op = "infer" /\ call'[c].at \in {"lock", "slot"}
    BY <1>1, <1>4 DEF Reinsert, Step, Inside
  <2>2. QED
    BY <2>1, SessionOfOthers
<1>5. CASE Calibrate(c) \/ CheckRoom(c) \/ EvictOldest(c) \/ Keep(c)
  <2>1. /\ \A d \in Callers \ {c} : call'[d] = call[d]
        /\ ~Inside(c) /\ UNCHANGED <<cacheVars, hookVars>> /\ session_lock' = session_lock
        /\ call'[c].at \in {"idle", "room", "evict", "keep"}
    BY <1>5 DEF Calibrate, CheckRoom, EvictOldest, Keep, Step, EndCall, IdleCall, Inside
  <2>2. call'[c].op = "compile" => call'[c].session \in Sessions
    BY <1>1, <1>5 DEF Calibrate, CheckRoom, EvictOldest, Keep, Step, EndCall, IdleCall
  <2>3. QED
    BY <2>1, <2>2, SessionOfOthers
<1>6. QED
  BY <1>2, <1>3, <1>4, <1>5

LEMMA SessionOfGuard ==
    ASSUME SessionInv, OverlayInv, NEW c \in Callers, EnterGuard(c)
    PROVE  SessionInv'
<1>1. guard = None /\ call[c].at = "guard" /\ ~Inside(c)
  BY DEF EnterGuard, Enforce, Inside
<1>2. active_session = None
  BY <1>1, NoneIsActive
<1>3. /\ call'[c].at = "body" /\ call'[c].op = call[c].op /\ call'[c].session = call[c].session
      /\ \A d \in Callers \ {c} : call'[d] = call[d]
  BY DEF EnterGuard, Step, OverlayInv, CallsTyped
<1>4. call[c].session \in Sessions \cup {None}
  BY DEF OverlayInv, CallsTyped, Calls
<1>5. CompilesNamed'
  BY <1>1, <1>3 DEF SessionInv, CompilesNamed
<1>6. bytes' = bytes /\ session_lock' = session_lock
  BY DEF EnterGuard
<1>7. CASE call[c].op = "infer" /\ call[c].session # None
  <2> DEFINE s == call[c].session
  <2>1. /\ s \in Cached /\ cache' = Touched(cache, s) /\ active_session' = s
        /\ hooks' = hooks \cup {s}
    BY <1>7 DEF EnterGuard
  <2>2. /\ Stored(Touched(cache, s), bytes)
        /\ \E i \in 1 .. Len(Touched(cache, s)) : Touched(cache, s)[i].id = s
    BY <2>1, TouchedFits DEF SessionInv
  <2>3. Stored(cache, bytes)' /\ \E i \in 1 .. Len(cache') : cache'[i].id = s
    BY <1>6, <2>1, <2>2 DEF Stored, Apart
  <2>4. s \in Cached'
    BY <2>3, RecordSizes DEF Stored, Cached
  <2>5. Inside(c)' /\ call'[c].op = "infer" /\ call'[c].session = active_session'
    BY <1>3, <1>7, <2>1 DEF Inside
  <2>6. ActiveIsHeld'
    BY <2>5 DEF ActiveIsHeld
  <2>7. QED
    BY <1>4, <1>5, <1>6, <1>7, <2>1, <2>3, <2>4, <2>6 DEF SessionInv
<1>8. CASE ~(call[c].op = "infer" /\ call[c].session # None)
  <2>1. cache' = cache /\ active_session' = None /\ hooks' = hooks
    BY <1>2, <1>8 DEF EnterGuard, hookVars
  <2>2. Stored(cache, bytes)'
    BY <1>6, <2>1 DEF SessionInv, Stored
  <2>3. QED
    BY <1>5, <1>6, <2>1, <2>2 DEF SessionInv, ActiveIsHeld
<1>9. QED
  BY <1>7, <1>8

LEMMA SessionOfEnds ==
    ASSUME SessionInv, OverlayInv, NEW c \in Callers, EndInfer(c) \/ EndCompile(c)
    PROVE  SessionInv'
<1>1. Inside(c)
  BY DEF EndInfer, EndCompile, Inside
<1>2. /\ \A d \in Callers \ {c} : call'[d] = call[d]
      /\ \/ call'[c] = IdleCall
         \/ /\ call'[c].op = "compile" /\ call[c].op = "compile" /\ call'[c].at = "calibrate"
            /\ call'[c].session = call[c].session
  <2>1. call \in [Callers -> Calls]
    BY DEF OverlayInv, CallsTyped
  <2>2. CASE call' = [call EXCEPT ![c] = IdleCall]
    BY <2>1, <2>2
  <2>3. CASE call[c].op = "compile" /\ call' = [call EXCEPT ![c].at = "calibrate"]
    BY <2>1, <2>3 DEF Calls
  <2>4. QED
    BY <2>2, <2>3 DEF EndInfer, EndCompile, Step
<1>3. CompilesNamed'
  BY <1>2 DEF SessionInv, CompilesNamed, IdleCall
<1>4. session_lock' \in {session_lock, None} /\ hooks' \subseteq hooks
  BY DEF EndInfer, EndCompile, Release, hookVars
<1>5. active_session' = None
  <2>1. CASE EndInfer(c)
    <3>1. call[c].session = None => active_session = None
      BY <1>1, NoneIsActive
    <3>2. QED
      BY <2>1, <3>1 DEF EndInfer
  <2>2. CASE EndCompile(c)
    <3>1. call[c].op # "infer"
      BY <2>2 DEF EndCompile
    <3>2. active_session = None
      BY <1>1, <3>1, NoneIsActive
    <3>3. QED
      BY <2>2, <3>2 DEF EndCompile, hookVars
  <2>3. QED
    BY <2>1, <2>2
<1>6. Stored(cache', bytes')
  <2>1. CASE cache' = cache /\ bytes' = bytes
    BY <2>1 DEF SessionInv
  <2>2. CASE \E size \in Sizes :
                /\ MayBeAdmitted(size) /\ call[c].op = "compile"
                /\ cache' = Admitted(call[c].session, size).cache
                /\ bytes' = Admitted(call[c].session, size).bytes
    <3>1. PICK size \in Sizes : /\ MayBeAdmitted(size) /\ call[c].op = "compile"
                                /\ cache' = Admitted(call[c].session, size).cache
                                /\ bytes' = Admitted(call[c].session, size).bytes
      BY <2>2
    <3>2. call[c].session \in Sessions /\ size <= MaxBytes
      BY <3>1 DEF SessionInv, CompilesNamed, MayBeAdmitted
    <3>3. Stored(Admitted(call[c].session, size).cache, Admitted(call[c].session, size).bytes)
      BY <3>2, AdmittedFits DEF SessionInv
    <3>4. QED
      BY <3>1, <3>3
  <2>3. QED
    BY <2>1, <2>2 DEF EndInfer, EndCompile, cacheVars
<1>7. Stored(cache, bytes)'
  BY <1>6 DEF Stored, Apart
<1>8. QED
  BY <1>3, <1>4, <1>5, <1>7 DEF SessionInv, ActiveIsHeld

LEMMA SessionOfDiscard ==
    ASSUME SessionInv, NEW s \in Sessions, Discard(s)
    PROVE  SessionInv'
<1>1. /\ s \in Cached /\ active_session # s
      /\ cache' = Without(cache, s) /\ bytes' = bytes - EntryOf(s).size
      /\ UNCHANGED <<active_session, hooks, session_lock, call>>
  BY DEF Discard, hookVars
<1>2. /\ Stored(Without(cache, s), bytes - EntryOf(s).size)
      /\ \A k \in Cached : k # s =>
             \E i \in 1 .. Len(Without(cache, s)) : Without(cache, s)[i].id = k
  BY <1>1, DiscardedFits DEF SessionInv
<1>3. /\ Stored(cache, bytes)'
      /\ \A k \in Cached : k # s => \E i \in 1 .. Len(cache') : cache'[i].id = k
  BY <1>1, <1>2 DEF Stored, Apart
<1>4. \A k \in Cached : k # s => k \in Cached'
  BY <1>3, RecordSizes DEF Stored, Cached
<1>5. active_session' # None => active_session' \in Cached'
  BY <1>1, <1>4 DEF SessionInv
<1>6. ActiveIsHeld' /\ CompilesNamed'
  BY <1>1 DEF SessionInv, ActiveIsHeld, CompilesNamed, Inside
<1>7. QED
  BY <1>1, <1>3, <1>5, <1>6 DEF SessionInv

(* What does not touch the sessions. *)
LEMMA SessionUntouched ==
    ASSUME SessionInv,
           UNCHANGED <<cache, bytes, active_session, hooks, session_lock, call>>
    PROVE  SessionInv'
  BY DEF SessionInv, Stored, Cached, ActiveIsHeld, CompilesNamed, Inside

(* A process that has just started. *)
JustStarted ==
    /\ cache = <<>> /\ bytes = 0
    /\ active_session = None /\ hooks = {} /\ session_lock = None
    /\ call = [c \in Callers |-> IdleCall]

LEMMA SessionOfStart == JustStarted => SessionInv
<1> SUFFICES ASSUME JustStarted PROVE SessionInv
  OBVIOUS
<1> USE DEF JustStarted
<1>1. cache \in Seq(Records) /\ Len(cache) = 0
  BY EmptySeq
<1>2. SizeOf(cache) = 0
  BY <1>1, SizeIsNumber
<1>3. Stored(cache, bytes)
  BY <1>1, <1>2, BudgetsAssumption DEF Stored, Apart
<1>4. QED
  BY <1>3 DEF SessionInv, ActiveIsHeld, CompilesNamed, IdleCall

LEMMA SessionInductive == Spec => []SessionInv
<1>1. Init => SessionInv
  BY SessionOfStart DEF Init, SessionsInit, JustStarted
<1>2. JustStarted' => SessionInv'
  BY SessionOfStart, PTL
<1>3. SessionInv /\ OverlayInv /\ [Next]_vars => SessionInv'
  <2> SUFFICES ASSUME SessionInv, OverlayInv, [Next]_vars PROVE SessionInv'
    OBVIOUS
  <2>1. CASE SessionsNext
    <3>1. ASSUME NEW c \in Callers, NEW s \in Sessions \cup {None},
                 \/ Infer(c, s) \/ (Compile(c, s) /\ s \in Sessions) \/ TakeSessionLock(c)
                 \/ EnterSlot(c) \/ Refused(c) \/ Backbone(c)
                 \/ Reinsert(c) \/ Calibrate(c) \/ CheckRoom(c) \/ EvictOldest(c) \/ Keep(c)
          PROVE  SessionInv'
      BY <3>1, SessionOfPaths DEF OverlayInv
    <3>2. ASSUME NEW c \in Callers, EnterGuard(c) PROVE SessionInv'
      BY <3>2, SessionOfGuard
    <3>3. ASSUME NEW c \in Callers, EndInfer(c) \/ EndCompile(c) PROVE SessionInv'
      BY <3>3, SessionOfEnds
    <3>4. ASSUME NEW s \in Sessions, Discard(s) PROVE SessionInv'
      BY <3>4, SessionOfDiscard
    <3>5. CASE TrainCore
      BY <3>5, SessionUntouched DEF TrainCore, cacheVars, hookVars
    <3>6. QED
      BY <2>1, <3>1, <3>2, <3>3, <3>4, <3>5 DEF SessionsNext
  <2>2. CASE LearningNext /\ UNCHANGED sessionVars
    BY <2>2, SessionUntouched DEF sessionVars, cacheVars, hookVars
  <2>3. CASE Restart
    BY <1>2, <2>3 DEF Restart, JustStarted
  <2>4. CASE UNCHANGED vars
    BY <2>4, SessionUntouched DEF vars, sessionVars, cacheVars, hookVars
  <2>5. QED
    BY <2>1, <2>2, <2>3, <2>4 DEF Next
<1>4. QED
  BY <1>1, <1>3, OverlayInductive, PTL DEF Spec

(* The router, which has no lock.  Its bound is lost only where operations *)
(* meet, and then every other caller adds one entry at most.               *)
InHand == {c \in Callers : call[c].at \in {"route", "keep"}}
Holds(c) == IF call[c].at \in {"route", "keep"} THEN 1 ELSE 0

RouterInv ==
    /\ Known(calibrated)
    /\ ~crossed => /\ \A c, d \in InRouter : c = d
                   /\ Len(calibrated) <= RouterSessions
                   /\ \A c \in Callers : Len(calibrated) + Holds(c) <= RouterSessions
    /\ Len(calibrated) + Cardinality(InHand) <= RouterSessions + (Cardinality(Callers) - 1)
    /\ \A c \in InRouter : call[c].session \in Sessions

LEMMA HandCount ==
    ASSUME NEW T \in SUBSET Callers, NEW c \in Callers
    PROVE  /\ Cardinality(T) \in Nat /\ Cardinality(Callers) \in Nat
           /\ Cardinality(T) <= Cardinality(Callers)
           /\ Cardinality(T \cup {c}) = Cardinality(T) + (IF c \in T THEN 0 ELSE 1)
           /\ Cardinality(T \ {c}) = Cardinality(T) - (IF c \in T THEN 1 ELSE 0)
<1>1. IsFiniteSet(T) /\ Cardinality(T) <= Cardinality(Callers)
  BY ThreadsAssumption, FS_Subset
<1>2. Cardinality(T) \in Nat /\ Cardinality(Callers) \in Nat
  BY <1>1, ThreadsAssumption, FS_CardinalityType
<1>3. Cardinality(T \cup {c}) = IF c \in T THEN Cardinality(T) ELSE Cardinality(T) + 1
  BY <1>1, FS_AddElement
<1>4. Cardinality(T \ {c}) = IF c \in T THEN Cardinality(T) - 1 ELSE Cardinality(T)
  BY <1>1, FS_RemoveElement
<1>5. QED
  BY <1>1, <1>2, <1>3, <1>4

LEMMA HandMoves ==
    ASSUME NEW c \in Callers, \A d \in Callers \ {c} : call'[d] = call[d]
    PROVE  /\ Cardinality(InHand) \in Nat /\ Cardinality(InHand') \in Nat
           /\ Cardinality(InHand') = Cardinality(InHand) + (Holds(c)' - Holds(c))
           /\ Cardinality(InHand') <= Cardinality(Callers) /\ Cardinality(Callers) \in Nat
<1>1. InHand \in SUBSET Callers /\ InHand' \in SUBSET Callers
  BY DEF InHand
<1>2. InHand' = IF call'[c].at \in {"route", "keep"} THEN InHand \cup {c} ELSE InHand \ {c}
  BY DEF InHand
<1>3. c \in InHand <=> call[c].at \in {"route", "keep"}
  BY DEF InHand
<1>4. /\ Cardinality(InHand) \in Nat /\ Cardinality(InHand') \in Nat
      /\ Cardinality(InHand') <= Cardinality(Callers) /\ Cardinality(Callers) \in Nat
  BY <1>1, HandCount
<1>5. /\ Cardinality(InHand \cup {c}) = Cardinality(InHand) + (IF c \in InHand THEN 0 ELSE 1)
      /\ Cardinality(InHand \ {c}) = Cardinality(InHand) - (IF c \in InHand THEN 1 ELSE 0)
  BY <1>1, HandCount
<1>6. CASE call'[c].at \in {"route", "keep"}
  BY <1>2, <1>3, <1>4, <1>5, <1>6 DEF Holds
<1>7. CASE call'[c].at \notin {"route", "keep"}
  BY <1>2, <1>3, <1>4, <1>5, <1>7 DEF Holds
<1>8. QED
  BY <1>4, <1>6, <1>7

(* A step of an operation that is alone, or that the others have met: it   *)
(* trades its entry for one in its hand, or there is room.                 *)
LEMMA RouterOfOne ==
    ASSUME RouterInv, NEW c \in Callers, \A d \in Callers \ {c} : call'[d] = call[d],
           Known(calibrated'), c \in InRouter' => call'[c].session \in Sessions,
           ~crossed' => InRouter \subseteq {c},
           \/ /\ ~crossed' => ~crossed
              /\ Len(calibrated') + Holds(c)' <= Len(calibrated) + Holds(c)
           \/ Len(calibrated') < RouterSessions
    PROVE  RouterInv'
<1>1. Len(calibrated) \in Nat /\ Len(calibrated') \in Nat /\ RouterSessions \in Nat
  BY LenProperties, BudgetsAssumption DEF RouterInv, Known
<1>2. /\ Cardinality(InHand) \in Nat /\ Cardinality(InHand') \in Nat
      /\ Cardinality(InHand') = Cardinality(InHand) + (Holds(c)' - Holds(c))
      /\ Cardinality(InHand') <= Cardinality(Callers) /\ Cardinality(Callers) \in Nat
  BY HandMoves
<1>3. Holds(c) \in {0, 1} /\ Holds(c)' \in {0, 1}
  BY DEF Holds
<1>4. Len(calibrated') + Cardinality(InHand') <= RouterSessions + (Cardinality(Callers) - 1)
  <2>1. Len(calibrated) + Cardinality(InHand) <= RouterSessions + (Cardinality(Callers) - 1)
    BY DEF RouterInv
  <2>2. CASE Len(calibrated') + Holds(c)' <= Len(calibrated) + Holds(c)
    BY <1>1, <1>2, <1>3, <2>1, <2>2
  <2>3. CASE Len(calibrated') < RouterSessions
    BY <1>1, <1>2, <2>3
  <2>4. QED
    BY <2>2, <2>3
<1>5. ASSUME ~crossed'
      PROVE  /\ InRouter' \subseteq {c}
             /\ Len(calibrated') + Holds(c)' <= RouterSessions
             /\ \A d \in Callers \ {c} : Holds(d)' = 0
  <2>1. InRouter' \subseteq {c}
    BY <1>5 DEF InRouter
  <2>2. \A d \in Callers \ {c} : Holds(d)' = 0
    BY <2>1 DEF InRouter, Holds
  <2>3. Len(calibrated') + Holds(c)' <= RouterSessions
    <3>1. CASE ~crossed /\ Len(calibrated') + Holds(c)' <= Len(calibrated) + Holds(c)
      <4>1. Len(calibrated) + Holds(c) <= RouterSessions
        BY <3>1 DEF RouterInv
      <4>2. QED
        BY <1>1, <1>3, <3>1, <4>1
    <3>2. CASE Len(calibrated') < RouterSessions
      BY <1>1, <1>3, <3>2
    <3>3. QED
      BY <1>5, <3>1, <3>2
  <2>4. QED
    BY <2>1, <2>2, <2>3
<1>6. ~crossed' => /\ \A a, d \in InRouter' : a = d
                   /\ Len(calibrated') <= RouterSessions
                   /\ \A d \in Callers : Len(calibrated') + Holds(d)' <= RouterSessions
  BY <1>1, <1>3, <1>5
<1>7. \A d \in InRouter' : call'[d].session \in Sessions
  BY DEF RouterInv, InRouter
<1>8. QED
  BY <1>4, <1>6, <1>7 DEF RouterInv

(* Callers outside the router move outside it. *)
LEMMA RouterOfOthers ==
    ASSUME RouterInv, UNCHANGED routerVars,
           \A d \in Callers : d \in InRouter \/ d \in InRouter' => call'[d] = call[d]
    PROVE  RouterInv'
<1>1. calibrated' = calibrated /\ crossed' = crossed
  BY DEF routerVars
<1>2. InRouter' = InRouter
  BY DEF InRouter
<1>3. \A d \in Callers : Holds(d)' = Holds(d)
  BY DEF InRouter, Holds
<1>4. InHand' = InHand
  BY DEF InRouter, InHand
<1>5. \A d \in InRouter : call'[d] = call[d] /\ call[d].session \in Sessions
  BY DEF RouterInv, InRouter
<1>6. QED
  BY <1>1, <1>2, <1>3, <1>4, <1>5 DEF RouterInv

LEMMA RouterOfSteps ==
    ASSUME RouterInv, SessionInv, CallsTyped, NEW c \in Callers, NEW s \in Sessions \cup {None},
           \/ Infer(c, s) /\ s \in ToSet(calibrated)
           \/ Reinsert(c) \/ CheckRoom(c) \/ EvictOldest(c) \/ Keep(c)
           \/ Calibrate(c) /\ ~EndCall(c)
    PROVE  RouterInv'
<1> USE DEF CallsTyped, Calls
<1>1. /\ Known(calibrated) /\ Len(calibrated) \in Nat /\ RouterSessions \in Nat
      /\ calibrated \in Seq(Sessions)
  BY LenProperties, BudgetsAssumption DEF RouterInv, Known
<1>2. c \in InRouter => call[c].session \in Sessions /\ (~crossed => InRouter \subseteq {c})
  BY DEF RouterInv
<1>3. CASE Infer(c, s) /\ s \in ToSet(calibrated)
  <2>1. s \in Sessions
    BY <1>1, <1>3, ElementOfSeq DEF ToSet
  <2>2. /\ calibrated' = RemoveFirst(calibrated, s) /\ call[c].at = "idle"
        /\ call' = [call EXCEPT ![c] = [op |-> "infer", at |-> "route", session |-> s]]
        /\ crossed' = (crossed \/ InRouter \ {c} # {})
    BY <1>3 DEF Infer, EntersRouter
  <2>3. Known(calibrated') /\ Len(calibrated') = Len(calibrated) - 1
    BY <1>1, <1>3, <2>2, ForgottenOnce
  <2>4. /\ \A d \in Callers \ {c} : call'[d] = call[d]
        /\ call'[c].at = "route" /\ call'[c].session = s
    BY <2>2
  <2>5. Holds(c) = 0 /\ Holds(c)' = 1
    BY <2>2, <2>4 DEF Holds
  <2>6. ~crossed' => ~crossed /\ InRouter \subseteq {c}
    BY <2>2
  <2>7. Len(calibrated') + Holds(c)' <= Len(calibrated) + Holds(c)
    BY <1>1, <2>3, <2>5
  <2>8. QED
    BY <2>1, <2>3, <2>4, <2>6, <2>7, RouterOfOne
<1>4. CASE Reinsert(c)
  <2>1. /\ call[c].at = "route" /\ calibrated' = Put(calibrated, call[c].session)
        /\ crossed' = crossed
    BY <1>4 DEF Reinsert
  <2>2. /\ \A d \in Callers \ {c} : call'[d] = call[d]
        /\ call'[c].at \in {"lock", "slot"}
    BY <1>4 DEF Reinsert, Step
  <2>3. c \in InRouter /\ c \notin InRouter'
    BY <2>1, <2>2 DEF InRouter
  <2>4. Known(calibrated') /\ Len(calibrated') <= Len(calibrated) + 1 /\ Len(calibrated') \in Nat
    BY <1>1, <1>2, <2>1, <2>3, PutOnce, LenProperties DEF Known
  <2>5. Holds(c) = 1 /\ Holds(c)' = 0
    BY <2>1, <2>2 DEF Holds
  <2>6. Len(calibrated') + Holds(c)' <= Len(calibrated) + Holds(c)
    BY <1>1, <2>4, <2>5
  <2>7. QED
    BY <1>2, <2>1, <2>2, <2>3, <2>4, <2>6, RouterOfOne
<1>5. CASE Calibrate(c) /\ ~EndCall(c)
  <2>1. /\ call[c].at = "calibrate" /\ calibrated' = RemoveFirst(calibrated, call[c].session)
        /\ crossed' = (crossed \/ InRouter \ {c} # {}) /\ call' = [call EXCEPT ![c].at = "room"]
    BY <1>5 DEF Calibrate, EntersRouter, Step
  <2>2. /\ \A d \in Callers \ {c} : call'[d] = call[d]
        /\ call'[c].at = "room" /\ call'[c].session = call[c].session
    BY <2>1
  <2>3. call[c].session \in Sessions
    BY <2>1 DEF SessionInv, CompilesNamed
  <2>4. Known(calibrated') /\ Len(calibrated') <= Len(calibrated) /\ Len(calibrated') \in Nat
    BY <1>1, <2>1, ForgottenOnce, LenProperties DEF Known
  <2>5. Holds(c) = 0 /\ Holds(c)' = 0
    BY <2>1, <2>2 DEF Holds
  <2>6. Len(calibrated') + Holds(c)' <= Len(calibrated) + Holds(c)
    BY <1>1, <2>4, <2>5
  <2>7. ~crossed' => ~crossed /\ InRouter \subseteq {c}
    BY <2>1
  <2>8. QED
    BY <2>2, <2>3, <2>4, <2>6, <2>7, RouterOfOne
<1>6. CASE CheckRoom(c)
  <2>1. call[c].at = "room" /\ calibrated' = calibrated /\ c \in InRouter
    BY <1>6 DEF CheckRoom, InRouter
  <2>2. /\ \A d \in Callers \ {c} : call'[d] = call[d]
        /\ call'[c].at \in {"evict", "keep"} /\ call'[c].session = call[c].session
    BY <1>6 DEF CheckRoom, Step
  <2>3. CASE Len(calibrated) >= RouterSessions
    <3>1. crossed' = crossed /\ call'[c].at = "evict"
      BY <1>6, <2>3 DEF CheckRoom, Step
    <3>2. Holds(c) = 0 /\ Holds(c)' = 0
      BY <2>1, <3>1 DEF Holds
    <3>3. Len(calibrated') + Holds(c)' <= Len(calibrated) + Holds(c)
      BY <1>1, <2>1, <3>2
    <3>4. QED
      BY <1>1, <1>2, <2>1, <2>2, <3>1, <3>3, RouterOfOne
  <2>4. CASE ~(Len(calibrated) >= RouterSessions)
    <3>1. crossed' = (crossed /\ InRouter \ {c} # {})
      BY <1>6, <2>4 DEF CheckRoom
    <3>2. ~crossed' => InRouter \subseteq {c}
      BY <1>2, <2>1, <3>1
    <3>3. Len(calibrated') < RouterSessions
      BY <1>1, <2>1, <2>4
    <3>4. QED
      BY <1>1, <1>2, <2>1, <2>2, <3>2, <3>3, RouterOfOne
  <2>5. QED
    BY <2>3, <2>4
<1>7. CASE EvictOldest(c)
  <2>1. call[c].at = "evict" /\ crossed' = crossed /\ c \in InRouter
    BY <1>7 DEF EvictOldest, InRouter
  <2>2. /\ \A d \in Callers \ {c} : call'[d] = call[d]
        /\ call'[c].at \in {"idle", "room"}
        /\ call'[c].at = "room" => call'[c].session = call[c].session
    BY <1>7 DEF EvictOldest, EndCall, Step, IdleCall
  <2>3. Known(calibrated') /\ Len(calibrated') <= Len(calibrated)
    <3>1. CASE calibrated = <<>>
      BY <1>1, <1>7, <3>1 DEF EvictOldest
    <3>2. CASE calibrated # <<>>
      <4>1. calibrated' = Tail(calibrated)
        BY <1>7, <3>2 DEF EvictOldest
      <4>2. Known(Tail(calibrated)) /\ Len(Tail(calibrated)) = Len(calibrated) - 1
        BY <1>1, <3>2, TailOnce
      <4>3. QED
        BY <1>1, <4>1, <4>2
    <3>3. QED
      BY <3>1, <3>2
  <2>4. Holds(c) = 0 /\ Holds(c)' = 0
    BY <2>1, <2>2 DEF Holds
  <2>5. Len(calibrated') + Holds(c)' <= Len(calibrated) + Holds(c)
    <3>1. Len(calibrated') \in Nat
      BY <2>3, LenProperties DEF Known
    <3>2. QED
      BY <1>1, <2>3, <2>4, <3>1
  <2>6. c \in InRouter' => call'[c].session \in Sessions
    BY <1>2, <2>1, <2>2 DEF InRouter
  <2>7. QED
    BY <1>2, <2>1, <2>2, <2>3, <2>5, <2>6, RouterOfOne
<1>8. CASE Keep(c)
  <2>1. /\ call[c].at = "keep" /\ calibrated' = Put(calibrated, call[c].session)
        /\ crossed' = crossed /\ c \in InRouter
    BY <1>8 DEF Keep, InRouter
  <2>2. (\A d \in Callers \ {c} : call'[d] = call[d]) /\ call'[c].at = "idle"
    BY <1>8 DEF Keep, EndCall, IdleCall
  <2>3. c \notin InRouter'
    BY <2>2 DEF InRouter
  <2>4. Known(calibrated') /\ Len(calibrated') <= Len(calibrated) + 1 /\ Len(calibrated') \in Nat
    BY <1>1, <1>2, <2>1, PutOnce, LenProperties DEF Known
  <2>5. Holds(c) = 1 /\ Holds(c)' = 0
    BY <2>1, <2>2 DEF Holds
  <2>6. Len(calibrated') + Holds(c)' <= Len(calibrated) + Holds(c)
    BY <1>1, <2>4, <2>5
  <2>7. QED
    BY <1>2, <2>1, <2>2, <2>3, <2>4, <2>6, RouterOfOne
<1>9. QED
  BY <1>3, <1>4, <1>5, <1>6, <1>7, <1>8

LEMMA RouterOfRest ==
    ASSUME RouterInv, CallsTyped, NEW c \in Callers, NEW s \in Sessions \cup {None},
           \/ Infer(c, s) /\ s \notin ToSet(calibrated)
           \/ Compile(c, s) \/ TakeSessionLock(c) \/ EnterSlot(c) \/ EnterGuard(c) \/ Refused(c)
           \/ Backbone(c) \/ EndInfer(c) \/ EndCompile(c)
           \/ Calibrate(c) /\ EndCall(c)
    PROVE  RouterInv'
<1> USE DEF CallsTyped, Calls
<1>1. UNCHANGED routerVars
  <2>1. CASE Infer(c, s) /\ s \notin ToSet(calibrated)
    <3>1. calibrated \in Seq(Sessions)
      BY DEF RouterInv, Known
    <3>2. ~\E i \in 1 .. Len(calibrated) : calibrated[i] = s
      BY <2>1, <3>1, LenProperties DEF ToSet
    <3>3. RemoveFirst(calibrated, s) = calibrated
      BY <3>2 DEF RemoveFirst
    <3>4. QED
      BY <2>1, <3>3 DEF Infer, routerVars
  <2>2. CASE Calibrate(c) /\ EndCall(c)
    <3>1. ~Step(c, "room")
      BY <2>2 DEF EndCall, Step, IdleCall
    <3>2. QED
      BY <2>2, <3>1 DEF Calibrate
  <2>3. QED
    BY <2>1, <2>2 DEF Compile, TakeSessionLock, EnterSlot, EnterGuard, Refused, Backbone,
                      EndInfer, EndCompile
<1>2. /\ \A d \in Callers \ {c} : call'[d] = call[d]
      /\ call[c].at \in {"idle", "lock", "slot", "guard", "body", "apply", "calibrate"}
      /\ call'[c].at \in {"idle", "lock", "slot", "guard", "body", "apply", "calibrate"}
  BY DEF Infer, Compile, TakeSessionLock, EnterSlot, EnterGuard, Refused, Backbone, EndInfer,
         EndCompile, Calibrate, Step, EndCall, IdleCall
<1>3. c \notin InRouter /\ c \notin InRouter'
  BY <1>2 DEF InRouter
<1>4. QED
  BY <1>1, <1>2, <1>3, RouterOfOthers

(* A router that has just been built. *)
NothingKnown ==
    calibrated = <<>> /\ crossed = FALSE /\ call = [c \in Callers |-> IdleCall]

LEMMA RouterOfStart == NothingKnown => RouterInv
<1> SUFFICES ASSUME NothingKnown PROVE RouterInv
  OBVIOUS
<1>1. calibrated \in Seq(Sessions) /\ Len(calibrated) = 0
  BY EmptySeq DEF NothingKnown
<1>2. Known(calibrated)
  BY <1>1 DEF Known
<1>3. InRouter = {} /\ InHand = {} /\ \A c \in Callers : Holds(c) = 0
  BY DEF NothingKnown, IdleCall, InRouter, InHand, Holds
<1>4. Cardinality(InHand) = 0 /\ Cardinality(Callers) \in Nat
  BY <1>3, FS_EmptySet, FS_CardinalityType, ThreadsAssumption
<1>5. RouterSessions \in Nat /\ RouterSessions > 0
  BY BudgetsAssumption
<1>6. Len(calibrated) + Cardinality(InHand) <= RouterSessions + (Cardinality(Callers) - 1)
  BY <1>1, <1>4, <1>5
<1>7. QED
  BY <1>1, <1>2, <1>3, <1>5, <1>6 DEF RouterInv

LEMMA RouterInductive == Spec => []RouterInv
<1>1. Init => RouterInv
  BY RouterOfStart DEF Init, SessionsInit, NothingKnown
<1>2. NothingKnown' => RouterInv'
  BY RouterOfStart, PTL
<1>3. RouterInv /\ SessionInv /\ OverlayInv /\ [Next]_vars => RouterInv'
  <2> SUFFICES ASSUME RouterInv, SessionInv, OverlayInv, [Next]_vars PROVE RouterInv'
    OBVIOUS
  <2>1. CallsTyped
    BY DEF OverlayInv
  <2>2. CASE SessionsNext
    <3>1. ASSUME NEW c \in Callers, NEW s \in Sessions \cup {None},
                 \/ Infer(c, s) \/ Reinsert(c) \/ Calibrate(c) \/ CheckRoom(c)
                 \/ EvictOldest(c) \/ Keep(c)
          PROVE  RouterInv'
      <4>1. CASE Infer(c, s)
        BY <2>1, <4>1, RouterOfSteps, RouterOfRest
      <4>2. CASE Calibrate(c)
        BY <2>1, <4>2, RouterOfSteps, RouterOfRest
      <4>3. QED
        BY <2>1, <3>1, <4>1, <4>2, RouterOfSteps
    <3>2. ASSUME NEW c \in Callers, NEW s \in Sessions \cup {None},
                 \/ Compile(c, s) \/ TakeSessionLock(c) \/ EnterSlot(c) \/ EnterGuard(c)
                 \/ Refused(c) \/ Backbone(c) \/ EndInfer(c) \/ EndCompile(c)
          PROVE  RouterInv'
      BY <2>1, <3>2, RouterOfRest
    <3>3. CASE (\E s \in Sessions : Discard(s)) \/ TrainCore
      <4>1. UNCHANGED routerVars /\ call' = call
        BY <3>3 DEF Discard, TrainCore
      <4>2. QED
        BY <4>1, RouterOfOthers
    <3>4. QED
      BY <2>2, <3>1, <3>2, <3>3 DEF SessionsNext
  <2>3. CASE UNCHANGED sessionVars
    BY <2>3, RouterOfOthers DEF sessionVars
  <2>4. CASE Restart
    BY <1>2, <2>4 DEF Restart, NothingKnown
  <2>5. QED
    BY <2>2, <2>3, <2>4 DEF Next, vars
<1>4. QED
  BY <1>1, <1>3, SessionInductive, OverlayInductive, PTL DEF Spec

(* FastWeightSessionCache and ContrastiveSessionRouter, for every number   *)
(* of sessions and callers and all bounds: admit, discard and get keep one *)
(* entry per session, an exact byte count and both bounds, never lose the  *)
(* entry whose overlay is in use, and leave every solve below the margin.  *)
(* The router, which has no lock, knows each session once; route and       *)
(* calibrate keep its bound as long as they do not meet, and when they do  *)
(* it has at most one entry more for every other caller, until a calibrate *)
(* by itself has made room.                                                *)
THEOREM SessionsStaySound == Spec => []SessionsAreSound
<1>1. SessionInv /\ RouterInv /\ OverlayInv /\ ComposedBelowMargin => SessionsAreSound
  <2> SUFFICES ASSUME SessionInv, RouterInv, OverlayInv, ComposedBelowMargin
               PROVE  SessionsAreSound
    OBVIOUS
  <2>1. /\ cache \in Seq(Records) /\ Apart(cache) /\ DOMAIN cache = 1 .. Len(cache)
        /\ Len(cache) \in Nat
    BY RecordSizes DEF SessionInv, Stored
  <2>2. Cardinality(Cached) = Len(cache)
    <3> DEFINE ids == [i \in 1 .. Len(cache) |-> cache[i].id]
    <3>1. \A i, j \in 1 .. Len(cache) : ids[i] = ids[j] => i = j
      BY <2>1 DEF Apart
    <3>2. \A x : x \in Cached <=> \E i \in 1 .. Len(cache) : x = ids[i]
      BY <2>1 DEF Cached
    <3> HIDE DEF ids
    <3> DEFINE n == Len(cache)
    <3>3. n \in Nat
      BY <2>1
    <3>4. /\ \A i, j \in 1 .. n : ids[i] = ids[j] => i = j
          /\ \A x : x \in Cached <=> \E i \in 1 .. n : x = ids[i]
      BY <3>1, <3>2
    <3> HIDE DEF n
    <3>5. Cardinality(Cached) = n
      BY <3>3, <3>4, CountOfPlaces
    <3>6. QED
      BY <3>5 DEF n
  <2>3. CacheIsBounded
    BY <2>2 DEF SessionInv, Stored, CacheIsBounded
  <2>4. /\ calibrated \in Seq(Sessions) /\ DOMAIN calibrated = 1 .. Len(calibrated)
        /\ Len(calibrated) \in Nat
    BY LenProperties DEF RouterInv, Known
  <2>5. Cardinality(ToSet(calibrated)) = Len(calibrated)
    <3>1. \A x : x \in ToSet(calibrated) <=> \E i \in 1 .. Len(calibrated) : x = calibrated[i]
      BY <2>4 DEF ToSet
    <3>2. \A i, j \in 1 .. Len(calibrated) : calibrated[i] = calibrated[j] => i = j
      BY DEF RouterInv, Known
    <3>3. QED
      BY <2>4, <3>1, <3>2, CountOfPlaces
  <2>6. RouterIsBounded
    BY <2>5 DEF RouterInv, InHand, RouterIsBounded
  <2>7. SessionsTypeOK
    BY <2>1, <2>4 DEF SessionInv, OverlayInv, CallsTyped, Calls, Points, Records, SessionsTypeOK
  <2>8. QED
    BY <2>3, <2>6, <2>7 DEF SessionsAreSound
<1>2. QED
  BY <1>1, SessionInductive, RouterInductive, OverlayInductive, SolvesStayBelowMargin, PTL

-----------------------------------------------------------------------------
(* The search.  The tree: a node is below its parent, which is expanded    *)
(* and has it as one of its children.                                      *)

TreeOK ==
    /\ node_count \in 1 .. MaxNodes
    /\ parents \in [Nodes -> Nodes \cup {Nil}] /\ depths \in [Nodes -> 0 .. MaxDepth]
    /\ children \in [Nodes -> [Actions -> Nodes \cup {Nil}]]
    /\ expanded \in [Nodes -> BOOLEAN]
    /\ parents[0] = Nil
    /\ \A n \in 1 .. node_count - 1 :
           parents[n] \in 0 .. n - 1 /\ expanded[parents[n]]
    /\ \A n \in Nodes : expanded[n] =>
           /\ n < node_count
           /\ \A a \in Actions :
                  /\ children[n][a] \in 1 .. node_count - 1
                  /\ parents[children[n][a]] = n
                  /\ \A b \in Actions : children[n][a] = children[n][b] => a = b
    /\ \A n \in Nodes : n >= node_count => parents[n] = Nil

(* The simulation under way: its edges go down, each to a node on the path *)
(* and no two from one node, and every node but the root has one to it.    *)
EdgeSet == [node : Nodes, action : Actions]
Child(e) == children[e.node][e.action]
PathOK ==
    /\ path \in Seq(EdgeSet)
    /\ node \in 0 .. node_count - 1
    /\ 0 \in OnPath
    /\ \A e \in Edges : e.node < node /\ expanded[e.node] /\ Child(e) \in OnPath
    /\ \A e, f \in Edges : e.node = f.node => e = f
    /\ \A n \in OnPath \ {0} : \E e \in Edges : Child(e) = n

(* What the counters say, and what is left to do. *)
CountsOK ==
    /\ pc \in {"select", "backup", "extract", "done"}
    /\ simulations_completed \in 0 .. Simulations
    /\ expansions \in Nat /\ frontier_rollouts \in Nat /\ capacity_exhausted \in BOOLEAN
    /\ pc \in {"select", "backup"} => simulations_completed < Simulations
    /\ expansions + frontier_rollouts
           = simulations_completed + (IF pc = "backup" THEN 1 ELSE 0)
    /\ node_count = 1 + Width * expansions
    /\ capacity_exhausted => ~can_expand

(* A leaf that stays one has no room below it. *)
Shut(n) == depths[n] >= MaxDepth \/ ~can_expand

VisitsOK ==
    /\ node_visits \in [Nodes -> Nat] /\ action_visits \in [Nodes -> [Actions -> Nat]]
    /\ node_visits[0] = simulations_completed
    /\ \A n \in Nodes :
           /\ node_visits[n] <= simulations_completed
           /\ n >= node_count => node_visits[n] = 0
           /\ ~expanded[n] /\ node_visits[n] > 0 => Shut(n)
           /\ ~expanded[n] => \A a \in Actions : action_visits[n][a] = 0
           /\ expanded[n] =>
                  /\ Total(action_visits[n])
                         = node_visits[n] - (IF pc = "backup" /\ n = node THEN 0 ELSE 1)
                  /\ \A a \in Actions : action_visits[n][a] = node_visits[children[n][a]]
    /\ pc = "backup" /\ ~expanded[node] => Shut(node)

(* A slot has the newest of the handles it was given. *)
RingOK ==
    /\ next_handle = node_count
    /\ handles \in [RingSlots -> Nodes \cup {Nil}]
    /\ handle_parents \in [RingSlots -> Nodes \cup {Nil}]
    /\ \A s \in RingSlots : handles[s] # Nil =>
           /\ handles[s] < node_count /\ handles[s] % Capacity = s
           /\ handle_parents[s] = parents[handles[s]]
    /\ \A s \in RingSlots : handles[s] = Nil => handle_parents[s] = Nil
    /\ \A h \in 0 .. node_count - 1 : handles[h % Capacity] >= h

BestOK ==
    /\ best_path \in Seq(Nodes)
    /\ pc = "extract" => best_path # <<>>

SearchInv == TreeOK /\ PathOK /\ CountsOK /\ VisitsOK /\ RingOK /\ BestOK

(* What Total adds up. *)
Running(f, g) == g[0] = 0 /\ \A k \in 1 .. Width : g[k] = g[k - 1] + f[k - 1]

LEMMA TotalIsRunning ==
    ASSUME NEW f
    PROVE  \E g : Running(f, g) /\ Total(f) = g[Width]
<1> DEFINE s == [k \in 1 .. Width |-> [size |-> f[k - 1]]]
           sums(g) == g = [k \in 0 .. Width |-> IF k = 0 THEN 0 ELSE g[k - 1] + f[k - 1]]
           sum == CHOOSE g : sums(g)
<1>1. Width \in Nat
  BY SearchAssumption DEF ValidConfig
<1>2. PICK h : Totals(s, Width, h)
  BY <1>1, TotalsExist
<1>3. sums(h)
  <2>1. \A k \in 1 .. Width : s[k].size = f[k - 1]
    OBVIOUS
  <2> HIDE DEF s
  <2>2. h = [k \in 0 .. Width |-> IF k = 0 THEN 0 ELSE h[k - 1] + s[k].size]
    BY <1>2 DEF Totals
  <2> DEFINE r == [k \in 0 .. Width |-> IF k = 0 THEN 0 ELSE h[k - 1] + f[k - 1]]
  <2>3. \A k \in 0 .. Width : (IF k = 0 THEN 0 ELSE h[k - 1] + s[k].size) = r[k]
    BY <2>1, <1>1
  <2>4. h = r
    <3> HIDE DEF r
    <3>1. \A k \in 0 .. Width : h[k] = r[k]
      BY <2>2, <2>3
    <3>2. h = [k \in 0 .. Width |-> h[k]] /\ r = [k \in 0 .. Width |-> r[k]]
      BY <2>2 DEF r
    <3>3. QED
      BY <3>1, <3>2
  <2>5. QED
    BY <2>4
<1> HIDE DEF s
<1>4. sums(sum)
  BY <1>3
<1>5. Total(f) = sum[Width]
  BY DEF Total
<1> HIDE DEF sum
<1>6. Running(f, sum)
  <2>1. \A k \in 0 .. Width : sum[k] = IF k = 0 THEN 0 ELSE sum[k - 1] + f[k - 1]
    BY <1>4
  <2>2. 0 \in 0 .. Width /\ \A k \in 1 .. Width : k \in 0 .. Width /\ k # 0
    BY <1>1
  <2>3. QED
    BY <2>1, <2>2 DEF Running
<1>7. QED
  BY <1>5, <1>6

(* Counters that are all zero, and counters one of which has gone up. *)
LEMMA TotalOfNone ==
    ASSUME NEW f \in [Actions -> Nat], \A a \in Actions : f[a] = 0
    PROVE  Total(f) = 0
<1>1. PICK g : Running(f, g) /\ Total(f) = g[Width]
  BY TotalIsRunning
<1> DEFINE T == {k \in Nat : k <= Width => g[k] = 0}
<1>2. Width \in Nat
  BY SearchAssumption DEF ValidConfig
<1>3. 0 \in T
  BY <1>1 DEF Running
<1>4. ASSUME NEW k \in Nat, k \in T
      PROVE  k + 1 \in T
  <2> SUFFICES ASSUME k + 1 <= Width PROVE g[k + 1] = 0
    OBVIOUS
  <2>1. k + 1 \in 1 .. Width /\ (k + 1) - 1 = k /\ k \in Actions /\ g[k] = 0
    BY <1>2, <1>4 DEF Actions
  <2>2. g[k + 1] = g[k] + f[k]
    BY <1>1, <2>1 DEF Running
  <2>3. QED
    BY <2>1, <2>2
<1>5. \A k \in Nat : k \in T
  <2> HIDE DEF T
  <2>1. QED
    BY <1>3, <1>4, Induction
<1>6. QED
  BY <1>1, <1>2, <1>5

LEMMA TotalOfOneMore ==
    ASSUME NEW f \in [Actions -> Nat], NEW a \in Actions,
           NEW f2 \in [Actions -> Nat],
           \A b \in Actions : f2[b] = f[b] + (IF b = a THEN 1 ELSE 0)
    PROVE  Total(f) \in Nat /\ Total(f2) = Total(f) + 1
<1>1. PICK g : Running(f, g) /\ Total(f) = g[Width]
  BY TotalIsRunning
<1>2. PICK h : Running(f2, h) /\ Total(f2) = h[Width]
  BY TotalIsRunning
<1> DEFINE T == {k \in Nat : k <= Width =>
                     g[k] \in Nat /\ h[k] = g[k] + (IF a < k THEN 1 ELSE 0)}
<1>3. Width \in Nat /\ a \in 0 .. Width - 1
  BY SearchAssumption DEF ValidConfig, Actions
<1>4. 0 \in T
  BY <1>1, <1>2, <1>3 DEF Running
<1>5. ASSUME NEW k \in Nat, k \in T
      PROVE  k + 1 \in T
  <2> SUFFICES ASSUME k + 1 <= Width
               PROVE  /\ g[k + 1] \in Nat
                      /\ h[k + 1] = g[k + 1] + (IF a < k + 1 THEN 1 ELSE 0)
    OBVIOUS
  <2>1. /\ k + 1 \in 1 .. Width /\ (k + 1) - 1 = k /\ k \in Actions
        /\ g[k] \in Nat /\ h[k] = g[k] + (IF a < k THEN 1 ELSE 0)
    BY <1>3, <1>5 DEF Actions
  <2>2. g[k + 1] = g[k] + f[k] /\ h[k + 1] = h[k] + f2[k]
    BY <1>1, <1>2, <2>1 DEF Running
  <2>3. f[k] \in Nat /\ f2[k] = f[k] + (IF k = a THEN 1 ELSE 0)
    BY <2>1
  <2>4. QED
    BY <1>3, <2>1, <2>2, <2>3
<1>6. \A k \in Nat : k \in T
  <2> HIDE DEF T
  <2>1. QED
    BY <1>4, <1>5, Induction
<1>7. QED
  BY <1>1, <1>2, <1>3, <1>6

(* Remainders: handles a ring apart share a slot, nearer ones do not. *)
LEMMA RingOfHandles ==
    /\ \A h \in Nat : h % Capacity \in RingSlots
    /\ \A h \in Nat : (h + Capacity) % Capacity = h % Capacity
    /\ \A h, x \in Nat :
           h <= x /\ x < h + Capacity /\ x % Capacity = h % Capacity => x = h
<1>1. Capacity \in Nat /\ Capacity > 0
  BY SearchAssumption DEF ValidConfig
<1>2. ASSUME NEW h \in Nat
      PROVE  h % Capacity \in RingSlots
  BY <1>1 DEF RingSlots
<1>3. ASSUME NEW h \in Nat
      PROVE  h = (Capacity * (h \div Capacity)) + (h % Capacity) /\ h \div Capacity \in Nat
  BY <1>1
<1>4. ASSUME NEW h \in Nat, NEW x \in Nat,
             h <= x, x < h + Capacity, x % Capacity = h % Capacity
      PROVE  x = h
  <2> DEFINE p == x \div Capacity
             q == h \div Capacity
             r == h % Capacity
  <2>1. x = Capacity * p + r /\ h = Capacity * q + r /\ p \in Nat /\ q \in Nat /\ r \in Nat
    BY <1>2, <1>3, <1>4, <1>1 DEF RingSlots
  <2> HIDE DEF p, q, r
  <2>2. x - h = Capacity * (p - q)
    BY <2>1, <1>1
  <2>3. p - q >= 1 => Capacity * (p - q) >= Capacity
    BY <2>1, <1>1
  <2>4. p - q <= 0 => Capacity * (p - q) <= 0
    BY <2>1, <1>1
  <2>5. QED
    BY <1>1, <1>4, <2>1, <2>2, <2>3, <2>4
<1>5. ASSUME NEW h \in Nat
      PROVE  (h + Capacity) % Capacity = h % Capacity
  <2> DEFINE y == h + Capacity
             p == y \div Capacity
             q == h \div Capacity
             r == y % Capacity
             t == h % Capacity
  <2>1. y \in Nat
    BY <1>1
  <2> HIDE DEF y
  <2>2. /\ y = (Capacity * p) + r /\ h = (Capacity * q) + t
        /\ p \in Nat /\ q \in Nat /\ r \in RingSlots /\ t \in RingSlots
    BY <1>2, <1>3, <2>1
  <2> HIDE DEF p, q, r, t
  <2>3. /\ r \in Nat /\ t \in Nat /\ r < Capacity /\ t < Capacity
        /\ y = h + Capacity
    BY <1>1, <2>2 DEF RingSlots, y
  <2>4. t - r = Capacity * (p - q - 1)
    BY <1>1, <2>2, <2>3
  <2>5. p - q - 1 >= 1 => Capacity * (p - q - 1) >= Capacity
    BY <1>1, <2>2
  <2>6. p - q - 1 <= -1 => Capacity * (p - q - 1) <= -Capacity
    BY <1>1, <2>2
  <2>7. p - q - 1 = 0
    BY <1>1, <2>2, <2>3, <2>4, <2>5, <2>6
  <2>8. r = t
    BY <1>1, <2>3, <2>4, <2>7
  <2>9. QED
    BY <2>8 DEF r, t, y
<1>6. QED
  BY <1>2, <1>4, <1>5

-----------------------------------------------------------------------------
(* The retriever.                                                          *)

LEMMA SearchSizes ==
    /\ Width \in Nat /\ Width > 0 /\ MaxDepth \in Nat /\ Simulations \in Nat /\ Simulations > 0
    /\ MaxNodes \in Nat /\ MaxNodes >= 1 + Width
    /\ Capacity \in Nat /\ Capacity > 0 /\ Capacity <= MaxNodes
    /\ Nodes = 0 .. MaxNodes - 1 /\ Actions = 0 .. Width - 1 /\ RingSlots = 0 .. Capacity - 1
    /\ Nil = -1
  BY SearchAssumption DEF ValidConfig, Nodes, Actions, RingSlots, Nil

LEMMA ParentsAreBelow ==
    ASSUME TreeOK, NEW n \in Nodes
    PROVE  parents[n] = Nil \/ (parents[n] \in 0 .. n - 1 /\ n \in 1 .. node_count - 1)
<1>1. n = 0 \/ n \in 1 .. node_count - 1 \/ n >= node_count
  BY SearchSizes DEF TreeOK
<1>2. QED
  BY <1>1 DEF TreeOK

(* The ancestors of the nodes, as LineageSafe has them. *)
Lineage(f) == f = [n \in Nodes |-> IF parents[n] = Nil THEN {}
                                   ELSE f[parents[n]] \cup {parents[n]}]

LEMMA LineageExists ==
    ASSUME TreeOK
    PROVE  \E f : Lineage(f)
<1> DEFINE step(f, n) == IF parents[n] = Nil THEN {} ELSE f[parents[n]] \cup {parents[n]}
           upto(f, k) == f = [n \in 0 .. k |-> step(f, n)]
           T == {k \in Nat : k \in Nodes => \E f : upto(f, k)}
<1>1. 0 \in T
  <2>1. parents[0] = Nil
    BY DEF TreeOK
  <2>2. upto([n \in 0 .. 0 |-> {}], 0)
    BY <2>1
  <2>3. QED
    BY <2>2
<1>2. ASSUME NEW k \in Nat, k \in T
      PROVE  k + 1 \in T
  <2> SUFFICES ASSUME k + 1 \in Nodes PROVE \E f : upto(f, k + 1)
    OBVIOUS
  <2>1. k \in Nodes
    BY SearchSizes
  <2>2. PICK f : upto(f, k)
    BY <1>2, <2>1
  <2> DEFINE g == [n \in 0 .. k + 1 |-> IF n <= k THEN f[n] ELSE step(f, k + 1)]
             h == [n \in 0 .. k + 1 |-> step(g, n)]
  <2>3. \A n \in 0 .. k : f[n] = step(f, n)
    BY <2>2
  <2>4. \A n \in 0 .. k + 1 : parents[n] = Nil \/ parents[n] \in 0 .. n - 1
    <3>1. \A n \in 0 .. k + 1 : n \in Nodes
      BY SearchSizes
    <3>2. QED
      BY <3>1, ParentsAreBelow
  <2>5. \A n \in 0 .. k : g[n] = f[n]
    OBVIOUS
  <2>6. \A n \in 0 .. k + 1 : step(g, n) = step(f, n)
    <3> SUFFICES ASSUME NEW n \in 0 .. k + 1, parents[n] # Nil
                 PROVE  g[parents[n]] = f[parents[n]]
      OBVIOUS
    <3>1. parents[n] \in 0 .. k
      BY <2>4
    <3>2. QED
      BY <2>5, <3>1
  <2>7. \A n \in 0 .. k + 1 : g[n] = step(f, n)
    <3> SUFFICES ASSUME NEW n \in 0 .. k + 1 PROVE g[n] = step(f, n)
      OBVIOUS
    <3>1. n \in 0 .. k \/ n = k + 1
      OBVIOUS
    <3> HIDE DEF step
    <3>2. QED
      BY <2>3, <3>1
  <2> HIDE DEF step
  <2>8. \A n \in 0 .. k + 1 : g[n] = h[n]
    BY <2>6, <2>7
  <2>9. g = h
    BY <2>8
  <2>10. QED
    BY <2>9
<1>3. MaxNodes - 1 \in T
  <2> HIDE DEF T
  <2>1. MaxNodes - 1 \in Nat
    BY SearchSizes
  <2>2. QED
    BY <1>1, <1>2, <2>1, Induction
<1>4. MaxNodes - 1 \in Nodes /\ Nodes = 0 .. MaxNodes - 1
  BY SearchSizes
<1>5. PICK f : upto(f, MaxNodes - 1)
  BY <1>3, <1>4
<1>6. Lineage(f)
  BY <1>4, <1>5 DEF Lineage
<1>7. QED
  BY <1>6

LEMMA LineageGoesDown ==
    ASSUME TreeOK, NEW f, Lineage(f)
    PROVE  \A n \in Nodes :
               /\ f[n] \subseteq 0 .. n - 1
               /\ f[n] = IF parents[n] = Nil THEN {} ELSE f[parents[n]] \cup {parents[n]}
<1>1. \A n \in Nodes : f[n] = IF parents[n] = Nil THEN {} ELSE f[parents[n]] \cup {parents[n]}
  BY DEF Lineage
<1> DEFINE T == {k \in Nat : \A n \in Nodes : n <= k => f[n] \subseteq 0 .. n - 1}
<1>2. ASSUME NEW n \in Nodes,
             \A m \in Nodes : m < n => f[m] \subseteq 0 .. m - 1
      PROVE  f[n] \subseteq 0 .. n - 1
  <2>1. CASE parents[n] = Nil
    BY <1>1, <2>1
  <2>2. CASE parents[n] # Nil
    <3>1. parents[n] \in 0 .. n - 1
      BY <2>2, ParentsAreBelow
    <3>2. parents[n] \in Nodes /\ parents[n] < n /\ n \in Nat /\ parents[n] \in Nat
      BY <3>1, SearchSizes
    <3>3. f[parents[n]] \subseteq 0 .. parents[n] - 1
      BY <1>2, <3>2
    <3>4. 0 .. parents[n] - 1 \subseteq 0 .. n - 1
      BY <3>2
    <3>5. f[n] = f[parents[n]] \cup {parents[n]}
      BY <1>1, <2>2
    <3>6. QED
      BY <3>1, <3>3, <3>4, <3>5
  <2>3. QED
    BY <2>1, <2>2
<1>3. 0 \in T
  <2> SUFFICES ASSUME NEW n \in Nodes, n <= 0 PROVE f[n] \subseteq 0 .. n - 1
    OBVIOUS
  <2>1. \A m \in Nodes : ~(m < n)
    BY SearchSizes
  <2>2. QED
    BY <1>2, <2>1
<1>4. ASSUME NEW k \in Nat, k \in T
      PROVE  k + 1 \in T
  <2> SUFFICES ASSUME NEW n \in Nodes, n <= k + 1 PROVE f[n] \subseteq 0 .. n - 1
    OBVIOUS
  <2>1. \A m \in Nodes : m < n => m <= k
    BY SearchSizes
  <2>2. \A m \in Nodes : m < n => f[m] \subseteq 0 .. m - 1
    BY <1>4, <2>1
  <2>3. QED
    BY <1>2, <2>2
<1>5. \A k \in Nat : k \in T
  <2> HIDE DEF T
  <2>1. QED
    BY <1>3, <1>4, Induction
<1>6. \A n \in Nodes : n \in Nat /\ n <= n
  BY SearchSizes
<1>7. QED
  BY <1>1, <1>5, <1>6

(* A handle has its slot as long as it is one of the latest. *)
Latest(h) == h >= node_count - Capacity

LEMMA SlotOfHandle ==
    ASSUME TreeOK, RingOK, NEW h \in 0 .. node_count - 1
    PROVE  IF Latest(h)
             THEN /\ SlotFor(h) \in RingSlots /\ SlotFor(h) # Nil
                  /\ handles[SlotFor(h)] = h /\ handle_parents[SlotFor(h)] = parents[h]
             ELSE SlotFor(h) = Nil
<1> DEFINE s == h % Capacity
<1>1. h \in Nat /\ s \in RingSlots /\ node_count \in Nat /\ Capacity \in Nat /\ Nil \notin Nat
  BY RingOfHandles, SearchSizes DEF TreeOK
<1>2. s \in Nat
  BY <1>1, SearchSizes
<1>3. SlotFor(h) = IF handles[s] = h THEN s ELSE Nil
  BY <1>1 DEF SlotFor
<1>4. CASE Latest(h)
  <2>1. handles[s] >= h
    BY DEF RingOK
  <2>2. handles[s] # Nil /\ handles[s] \in Nat
    BY <1>1, <2>1, SearchSizes DEF RingOK
  <2>3. handles[s] < node_count /\ handles[s] % Capacity = s
    BY <1>1, <2>2 DEF RingOK
  <2>4. handles[s] < h + Capacity
    BY <1>1, <1>4, <2>2, <2>3 DEF Latest
  <2>5. handles[s] = h
    BY <1>1, <2>1, <2>2, <2>3, <2>4, RingOfHandles
  <2>6. handle_parents[s] = parents[h]
    BY <1>1, <2>2, <2>5 DEF RingOK
  <2>7. QED
    BY <1>1, <1>2, <1>3, <1>4, <2>5, <2>6
<1>5. CASE ~Latest(h)
  <2>1. h + Capacity \in 0 .. node_count - 1
    BY <1>1, <1>5 DEF Latest
  <2>2. (h + Capacity) % Capacity = s
    BY <1>1, RingOfHandles
  <2>3. handles[s] >= h + Capacity
    BY <2>1, <2>2 DEF RingOK
  <2>4. handles[s] # h
    BY <1>1, <2>3, SearchSizes
  <2>5. QED
    BY <1>3, <1>5, <2>4
<1>6. QED
  BY <1>4, <1>5

LEMMA SlotOfNil == SlotFor(Nil) = Nil
  BY SearchSizes DEF SlotFor

(* The walk of retrieve from slot to slot. *)
Up(s) == IF s = Nil THEN Nil ELSE SlotFor(handle_parents[s])
Walk(h, n, c) == c = [i \in 0 .. n |-> IF i = 0 THEN SlotFor(h) ELSE Up(c[i - 1])]

LEMMA WalkExists ==
    ASSUME NEW h, NEW n \in Nat
    PROVE  \E c : Walk(h, n, c)
<1> DEFINE T == {k \in Nat : \E c : Walk(h, k, c)}
<1>1. 0 \in T
  <2>1. Walk(h, 0, [i \in 0 .. 0 |-> SlotFor(h)])
    BY DEF Walk
  <2>2. QED
    BY <2>1
<1>2. ASSUME NEW k \in Nat, k \in T
      PROVE  k + 1 \in T
  <2>1. PICK c : Walk(h, k, c)
    BY <1>2
  <2> DEFINE d == [i \in 0 .. k + 1 |-> IF i <= k THEN c[i] ELSE Up(c[k])]
             e == [i \in 0 .. k + 1 |-> IF i = 0 THEN SlotFor(h) ELSE Up(d[i - 1])]
  <2>2. \A i \in 0 .. k : c[i] = IF i = 0 THEN SlotFor(h) ELSE Up(c[i - 1])
    BY <2>1 DEF Walk
  <2>3. \A i \in 0 .. k + 1 : d[i] = e[i]
    <3> SUFFICES ASSUME NEW i \in 0 .. k + 1 PROVE d[i] = e[i]
      OBVIOUS
    <3>1. CASE i = 0
      BY <2>2, <3>1
    <3>2. CASE i \in 1 .. k
      <4>1. i - 1 \in 0 .. k + 1 /\ i - 1 <= k /\ i \in 0 .. k /\ i <= k /\ i # 0
        BY <3>2
      <4>2. d[i] = c[i] /\ d[i - 1] = c[i - 1]
        BY <4>1
      <4>3. c[i] = Up(c[i - 1])
        BY <2>2, <4>1
      <4> HIDE DEF d
      <4>4. QED
        BY <4>1, <4>2, <4>3
    <3>3. CASE i = k + 1
      <4>1. i - 1 = k /\ i # 0 /\ ~(i <= k)
        BY <3>3
      <4>2. d[i] = Up(c[k]) /\ d[i - 1] = c[k]
        BY <4>1
      <4> HIDE DEF d
      <4>3. QED
        BY <4>1, <4>2
    <3>4. QED
      BY <3>1, <3>2, <3>3
  <2>4. d = e
    <3>1. d = [i \in 0 .. k + 1 |-> d[i]] /\ e = [i \in 0 .. k + 1 |-> e[i]]
      OBVIOUS
    <3> HIDE DEF d, e
    <3>2. QED
      BY <2>3, <3>1
  <2>5. Walk(h, k + 1, d)
    BY <2>4 DEF Walk
  <2>6. QED
    BY <2>5
<1>3. n \in T
  <2> HIDE DEF T
  <2>1. QED
    BY <1>1, <1>2, Induction
<1>4. QED
  BY <1>3

LEMMA CandidatesOfWalk ==
    ASSUME NEW h
    PROVE  \E c : /\ c[0] = SlotFor(h)
                  /\ \A i \in 1 .. Capacity : c[i] = Up(c[i - 1])
                  /\ Candidates(h) = {handles[c[i]] : i \in {j \in 1 .. Capacity : c[j] # Nil}}
<1> DEFINE walk == CHOOSE c : Walk(h, Capacity, c)
<1>1. Capacity \in Nat
  BY SearchSizes
<1>2. Walk(h, Capacity, walk)
  BY <1>1, WalkExists
<1>3. Candidates(h) = {handles[walk[i]] : i \in {j \in 1 .. Capacity : walk[j] # Nil}}
  BY DEF Candidates, Walk, Up
<1> HIDE DEF walk
<1>4. \A i \in 0 .. Capacity : walk[i] = IF i = 0 THEN SlotFor(h) ELSE Up(walk[i - 1])
  BY <1>2 DEF Walk
<1>5. walk[0] = SlotFor(h) /\ \A i \in 1 .. Capacity : walk[i] = Up(walk[i - 1])
  <2>1. 0 \in 0 .. Capacity /\ \A i \in 1 .. Capacity : i \in 0 .. Capacity /\ i # 0
    BY <1>1
  <2>2. QED
    BY <1>4, <2>1
<1>6. QED
  BY <1>3, <1>5

(* The walk from a node goes over its ancestors from the nearest on, and   *)
(* ends at the first that is not among the latest: it has met all that are.*)
LEMMA WalkMeetsAncestors ==
    ASSUME TreeOK, RingOK, NEW A, Lineage(A), NEW n \in 0 .. node_count - 1, NEW c,
           c[0] = SlotFor(n), \A i \in 1 .. Capacity : c[i] = Up(c[i - 1])
    PROVE  {handles[c[i]] : i \in {j \in 1 .. Capacity : c[j] # Nil}}
               = IF Latest(n) THEN {a \in A[n] : Latest(a)} ELSE {}
<1> DEFINE met(k) == {handles[c[i]] : i \in {j \in 1 .. k : c[j] # Nil}}
           On(k) == /\ c[k] \in RingSlots
                    /\ handles[c[k]] \in 0 .. n - k
                    /\ Latest(handles[c[k]])
                    /\ handle_parents[c[k]] = parents[handles[c[k]]]
                    /\ A[handles[c[k]]] \subseteq A[n]
                    /\ A[n] \subseteq met(k) \cup A[handles[c[k]]]
           Off(k) == c[k] = Nil /\ \A a \in A[n] : Latest(a) => a \in met(k)
           T == {k \in Nat : k <= Capacity =>
                     /\ met(k) \subseteq {a \in A[n] : Latest(a)}
                     /\ On(k) \/ Off(k)}
<1>1. /\ node_count \in Nat /\ node_count <= MaxNodes /\ Capacity \in Nat /\ n \in Nat
      /\ n \in Nodes /\ Nil \notin Nat /\ Capacity > 0
      /\ RingSlots \subseteq Nat
  BY SearchSizes DEF TreeOK
<1>2. \A m \in Nodes : /\ A[m] \subseteq 0 .. m - 1
                       /\ A[m] = IF parents[m] = Nil THEN {} ELSE A[parents[m]] \cup {parents[m]}
  BY LineageGoesDown
<1>3. CASE Latest(n)
  <2>1. 0 \in T
    <3>1. met(0) = {}
      OBVIOUS
    <3>2. /\ c[0] \in RingSlots /\ handles[c[0]] = n
          /\ handle_parents[c[0]] = parents[n]
      BY <1>3, SlotOfHandle
    <3>3. n \in 0 .. n - 0
      BY <1>1
    <3> HIDE DEF met
    <3>4. On(0)
      BY <1>3, <3>2, <3>3
    <3>5. QED
      BY <3>1, <3>4
  <2>2. ASSUME NEW k \in Nat, k \in T
        PROVE  k + 1 \in T
    <3> SUFFICES ASSUME k + 1 <= Capacity
                 PROVE  /\ met(k + 1) \subseteq {a \in A[n] : Latest(a)}
                        /\ On(k + 1) \/ Off(k + 1)
      OBVIOUS
    <3>1. k <= Capacity /\ k + 1 \in 1 .. Capacity /\ (k + 1) - 1 = k
      BY <1>1
    <3>2. met(k) \subseteq {a \in A[n] : Latest(a)} /\ (On(k) \/ Off(k))
      BY <2>2, <3>1
    <3>3. c[k + 1] = Up(c[k])
      BY <3>1
    <3>4. met(k + 1) = met(k) \cup (IF c[k + 1] = Nil THEN {} ELSE {handles[c[k + 1]]})
      <4>1. \A j : j \in 1 .. k + 1 <=> j \in 1 .. k \/ j = k + 1
        OBVIOUS
      <4>2. QED
        BY <4>1
    <3> HIDE DEF met
    <3>5. CASE Off(k)
      <4>1. c[k + 1] = Nil
        BY <3>3, <3>5 DEF Up
      <4>2. met(k + 1) = met(k)
        BY <3>4, <4>1
      <4>3. QED
        BY <3>2, <3>5, <4>1, <4>2
    <3>6. CASE On(k)
      <4> DEFINE h == handles[c[k]]
                 p == parents[h]
      <4>1. /\ h \in 0 .. n - k /\ Latest(h) /\ A[h] \subseteq A[n]
            /\ A[n] \subseteq met(k) \cup A[h]
            /\ c[k + 1] = SlotFor(p)
        BY <1>1, <3>3, <3>6 DEF Up
      <4> HIDE DEF h
      <4>2. h \in Nodes /\ h < node_count /\ h \in Nat
        BY <1>1, <4>1, SearchSizes
      <4>3. CASE p = Nil
        <5>1. A[h] = {} /\ c[k + 1] = Nil
          BY <1>2, <4>1, <4>2, <4>3, SlotOfNil
        <5>2. met(k + 1) = met(k)
          BY <3>4, <5>1
        <5>3. QED
          BY <3>2, <4>1, <5>1, <5>2
      <4>4. CASE p # Nil
        <5>1. p \in 0 .. h - 1
          BY <4>2, <4>4, ParentsAreBelow
        <5>2. A[h] = A[p] \cup {p} /\ p \in Nodes
          <6>1. A[h] = IF parents[h] = Nil THEN {} ELSE A[parents[h]] \cup {parents[h]}
            BY <1>2, <4>2
          <6>2. p \in Nodes
            BY <1>1, <4>2, <5>1, SearchSizes
          <6>3. QED
            BY <4>4, <6>1, <6>2
        <5>3. p \in 0 .. node_count - 1 /\ p \in 0 .. n - (k + 1)
          BY <1>1, <4>1, <4>2, <5>1
        <5> HIDE DEF p
        <5>4. CASE Latest(p)
          <6>1. /\ c[k + 1] \in RingSlots /\ c[k + 1] # Nil /\ handles[c[k + 1]] = p
                /\ handle_parents[c[k + 1]] = parents[p]
            BY <4>1, <5>3, <5>4, SlotOfHandle
          <6>2. met(k + 1) = met(k) \cup {p}
            BY <3>4, <6>1
          <6>3. p \in A[n] /\ A[p] \subseteq A[n]
            BY <4>1, <5>2
          <6>4. A[n] \subseteq met(k + 1) \cup A[p]
            BY <4>1, <5>2, <6>2
          <6>5. On(k + 1)
            BY <5>3, <5>4, <6>1, <6>3, <6>4
          <6>6. QED
            BY <3>2, <5>4, <6>2, <6>3, <6>5
        <5>5. CASE ~Latest(p)
          <6>1. c[k + 1] = Nil
            BY <4>1, <5>3, <5>5, SlotOfHandle
          <6>2. met(k + 1) = met(k)
            BY <3>4, <6>1
          <6>3. \A a \in A[h] : ~Latest(a)
            <7> SUFFICES ASSUME NEW a \in A[h] PROVE ~Latest(a)
              OBVIOUS
            <7>0. p \in Nodes /\ p \in Nat
              BY <1>1, <5>2, <5>3
            <7>1. A[p] \subseteq 0 .. p - 1
              BY <1>2, <7>0
            <7>2. a \in Nat /\ a <= p
              BY <5>2, <7>0, <7>1
            <7>3. QED
              BY <1>1, <5>5, <7>0, <7>2 DEF Latest
          <6>4. Off(k + 1)
            BY <4>1, <6>1, <6>2, <6>3
          <6>5. QED
            BY <3>2, <6>2, <6>4
        <5>6. QED
          BY <5>4, <5>5
      <4>5. QED
        BY <4>3, <4>4
    <3>7. QED
      BY <3>2, <3>5, <3>6
  <2>3. Capacity \in T
    <3> HIDE DEF T
    <3>1. QED
      BY <1>1, <2>1, <2>2, Induction
  <2>4. met(Capacity) \subseteq {a \in A[n] : Latest(a)} /\ (On(Capacity) \/ Off(Capacity))
    BY <1>1, <2>3
  <2> HIDE DEF met
  <2>5. ~On(Capacity)
    <3> SUFFICES ASSUME handles[c[Capacity]] \in 0 .. n - Capacity, Latest(handles[c[Capacity]])
                 PROVE  FALSE
      OBVIOUS
    <3>1. QED
      BY <1>1 DEF Latest
  <2>6. met(Capacity) = {a \in A[n] : Latest(a)}
    BY <2>4, <2>5
  <2>7. QED
    BY <1>3, <2>6 DEF met
<1>4. CASE ~Latest(n)
  <2> DEFINE U == {k \in Nat : k <= Capacity => c[k] = Nil}
  <2>1. 0 \in U
    BY <1>4, SlotOfHandle
  <2>2. ASSUME NEW k \in Nat, k \in U
        PROVE  k + 1 \in U
    <3> SUFFICES ASSUME k + 1 <= Capacity PROVE c[k + 1] = Nil
      OBVIOUS
    <3>1. c[k] = Nil /\ k + 1 \in 1 .. Capacity /\ (k + 1) - 1 = k
      BY <1>1, <2>2
    <3>2. QED
      BY <3>1 DEF Up
  <2>3. \A k \in Nat : k \in U
    <3> HIDE DEF U
    <3>1. QED
      BY <2>1, <2>2, Induction
  <2>4. \A j \in 1 .. Capacity : c[j] = Nil
    BY <1>1, <2>3
  <2>5. QED
    BY <1>4, <2>4
<1>5. QED
  BY <1>3, <1>4

LEMMA LineageIsSafe ==
    ASSUME TreeOK, RingOK
    PROVE  LineageSafe
<1> DEFINE A == CHOOSE f : Lineage(f)
<1>1. Lineage(A)
  BY LineageExists
<1> HIDE DEF A
<1>2. ASSUME NEW n \in 0 .. node_count - 1
      PROVE  Candidates(n) = IF Latest(n) THEN {a \in A[n] : Latest(a)} ELSE {}
  <2>1. PICK c : /\ c[0] = SlotFor(n)
                 /\ \A i \in 1 .. Capacity : c[i] = Up(c[i - 1])
                 /\ Candidates(n) = {handles[c[i]] : i \in {j \in 1 .. Capacity : c[j] # Nil}}
    BY CandidatesOfWalk
  <2>2. QED
    BY <1>1, <2>1, WalkMeetsAncestors
<1>3. next_handle = node_count
  BY DEF RingOK
<1>4. QED
  BY <1>2, <1>3 DEF LineageSafe, Latest, Lineage, A

-----------------------------------------------------------------------------
(* The steps of the search.                                                *)

LEMMA SearchStarts == SearchInit => SearchInv
<1> SUFFICES ASSUME SearchInit PROVE SearchInv
  OBVIOUS
<1> USE DEF SearchInit, RootOnly, RootInRing
<1>1. 0 \in Nodes /\ 0 \in RingSlots /\ Nil \notin Nat /\ 0 % Capacity = 0
  BY SearchSizes
<1>2. TreeOK
  BY <1>1, SearchSizes DEF TreeOK
<1>3. Edges = {} /\ OnPath = {0}
  BY DEF Edges, OnPath
<1>4. PathOK
  BY <1>3 DEF PathOK, EdgeSet
<1>5. CountsOK
  <2>1. Width * 0 = 0
    BY SearchSizes
  <2>2. /\ expansions = 0 /\ frontier_rollouts = 0 /\ simulations_completed = 0 /\ pc = "select"
        /\ node_count = 1 /\ capacity_exhausted = FALSE
    OBVIOUS
  <2> HIDE DEF SearchInit, RootOnly, RootInRing
  <2>3. capacity_exhausted \in BOOLEAN /\ (capacity_exhausted => ~can_expand)
    BY <2>2
  <2>4. node_count = 1 + Width * expansions /\ 0 < Simulations /\ 0 \in 0 .. Simulations
    BY <2>1, <2>2, SearchSizes
  <2>5. QED
    BY <2>2, <2>3, <2>4 DEF CountsOK
<1>6. VisitsOK
  BY SearchSizes DEF VisitsOK
<1>7. RingOK
  BY <1>1, SearchSizes DEF RingOK
<1>8. BestOK
  BY DEF BestOK
<1>9. QED
  BY <1>2, <1>4, <1>5, <1>6, <1>7, <1>8 DEF SearchInv

LEMMA NodesBelow ==
    ASSUME TreeOK
    PROVE  /\ node_count \in Nat /\ 0 \in Nodes /\ 0 \in 0 .. node_count - 1
           /\ 0 .. node_count - 1 \subseteq Nodes
           /\ \A m \in 1 .. node_count - 1 : m \in Nodes /\ m # 0
<1>1. node_count \in 1 .. MaxNodes
  BY DEF TreeOK
<1>2. QED
  BY <1>1, SearchSizes

(* Two edges to one child are one edge. *)
LEMMA OneEdgeToEach ==
    ASSUME TreeOK, NEW e \in EdgeSet, NEW f \in EdgeSet,
           expanded[e.node], expanded[f.node], Child(e) = Child(f)
    PROVE  e = f
<1>1. /\ e = [node |-> e.node, action |-> e.action] /\ f = [node |-> f.node, action |-> f.action]
      /\ e.node \in Nodes /\ f.node \in Nodes /\ e.action \in Actions /\ f.action \in Actions
  BY DEF EdgeSet
<1>2. parents[Child(e)] = e.node /\ parents[Child(f)] = f.node
  BY <1>1 DEF TreeOK, Child
<1>3. e.action = f.action
  BY <1>1, <1>2 DEF TreeOK, Child
<1>4. QED
  BY <1>1, <1>2, <1>3

LEMMA EdgesAreEdges ==
    ASSUME TreeOK, PathOK
    PROVE  Edges \subseteq EdgeSet /\ OnPath \subseteq 0 .. node_count - 1
<1>1. Edges \subseteq EdgeSet
  BY DEF Edges, PathOK
<1>2. \A e \in Edges : e.node \in 0 .. node_count - 1
  <2>1. \A e \in Edges : e.node \in Nodes /\ e.node < node
    BY <1>1 DEF EdgeSet, PathOK
  <2>2. node \in 0 .. node_count - 1 /\ node_count \in Nat /\ Nodes = 0 .. MaxNodes - 1
        /\ MaxNodes \in Nat
    BY SearchSizes DEF PathOK, TreeOK
  <2> HIDE DEF Edges
  <2>3. QED
    BY <2>1, <2>2
<1>3. QED
  BY <1>1, <1>2 DEF OnPath, PathOK

LEMMA SelectStep ==
    ASSUME SearchInv, Select
    PROVE  SearchInv'
<1> USE DEF SearchInv
<1>0. UNCHANGED <<tree, visits, retriever, telemetry, best_path>> /\ pc = "select" /\ pc' = "select"
  BY DEF Select
<1>1. PICK a \in Actions : /\ path' = Append(path, [node |-> node, action |-> a])
                           /\ node' = children[node][a]
  BY DEF Select
<1> DEFINE e == [node |-> node, action |-> a]
<1>2. node \in Nodes /\ node \in Nat /\ e \in EdgeSet /\ expanded[node] /\ Child(e) = node'
  BY <1>1, SearchSizes DEF Select, PathOK, TreeOK, EdgeSet, Inner, Child
<1>3. node' \in 1 .. node_count - 1 /\ parents[node'] = node
  BY <1>1, <1>2 DEF TreeOK
<1>4. node < node'
  BY <1>2, <1>3 DEF TreeOK
<1>5. path' \in Seq(EdgeSet) /\ Edges' = Edges \cup {e}
  <2> HIDE DEF e
  <2>1. path' = Append(path, e) /\ path \in Seq(EdgeSet)
    BY <1>1 DEF e, PathOK
  <2>2. /\ path' \in Seq(EdgeSet) /\ Len(path') = Len(path) + 1
        /\ \A i \in 1 .. Len(path) : path'[i] = path[i]
        /\ path'[Len(path) + 1] = e
    BY <1>2, <2>1
  <2>3. DOMAIN path' = 1 .. Len(path) + 1 /\ DOMAIN path = 1 .. Len(path) /\ Len(path) \in Nat
    BY <2>1, <2>2
  <2>4. Edges' = {path'[i] : i \in DOMAIN path'}
    BY DEF Edges
  <2>6. \A f \in Edges' : f \in Edges \/ f = e
    <3> SUFFICES ASSUME NEW f \in Edges' PROVE f \in Edges \/ f = e
      OBVIOUS
    <3>1. PICK i \in DOMAIN path' : f = path'[i]
      BY <2>4
    <3>2. i \in DOMAIN path \/ i = Len(path) + 1
      BY <2>3
    <3>3. \A j \in DOMAIN path : path'[j] = path[j]
      BY <2>2, <2>3
    <3>4. QED
      BY <2>2, <3>1, <3>2, <3>3 DEF Edges
  <2>7. \A f \in Edges : f \in Edges'
    <3>1. \A i \in DOMAIN path : i \in DOMAIN path' /\ path'[i] = path[i]
      BY <2>2, <2>3
    <3>2. QED
      BY <2>4, <3>1 DEF Edges
  <2>8. e \in Edges'
    <3>1. Len(path) + 1 \in DOMAIN path'
      BY <2>3
    <3>2. QED
      BY <2>2, <2>4, <3>1
  <2>9. QED
    BY <2>2, <2>6, <2>7, <2>8
<1>6. OnPath' = OnPath \cup {node'}
  <2>1. e.node = node
    OBVIOUS
  <2> HIDE DEF e
  <2>2. QED
    BY <1>5, <2>1 DEF OnPath
<1>7. TreeOK' /\ RingOK' /\ BestOK'
  BY <1>0 DEF tree, retriever, TreeOK, RingOK, BestOK
<1>8. CountsOK'
  BY <1>0 DEF CountsOK, tree, telemetry, can_expand
<1>9. VisitsOK'
  BY <1>0 DEF VisitsOK, Shut, can_expand, tree, visits, telemetry
<1>10. PathOK'
  <2>1. \A f : Child(f)' = Child(f)
    BY <1>0 DEF Child, tree
  <2>2. node_count' = node_count /\ expanded' = expanded
    BY <1>0 DEF tree
  <2>3. e.node = node
    OBVIOUS
  <2>4. \A f \in Edges : f.node < node /\ f.node \in Nat /\ expanded[f.node] /\ Child(f) \in OnPath
    <3>1. \A f \in Edges : f.node \in Nat
      BY EdgesAreEdges, SearchSizes DEF EdgeSet
    <3>2. QED
      BY <3>1 DEF PathOK
  <2> HIDE DEF e
  <2>5. node' \in 0 .. node_count' - 1 /\ 0 \in OnPath'
    BY <1>3, <1>6, <2>2 DEF PathOK
  <2>6. \A f \in Edges' : f.node < node' /\ expanded'[f.node] /\ Child(f)' \in OnPath'
    <3> SUFFICES ASSUME NEW f \in Edges'
                 PROVE  f.node < node' /\ expanded'[f.node] /\ Child(f) \in OnPath'
      BY <2>1
    <3>1. CASE f = e
      BY <1>2, <1>4, <1>6, <2>2, <2>3, <3>1
    <3>2. CASE f \in Edges
      <4>1. f.node < node'
        BY <1>2, <1>3, <1>4, <2>4, <3>2
      <4>2. QED
        BY <1>6, <2>2, <2>4, <3>2, <4>1
    <3>3. QED
      BY <1>5, <3>1, <3>2
  <2>7. \A f, g \in Edges' : f.node = g.node => f = g
    <3>1. \A f \in Edges : f.node # e.node
      BY <1>2, <2>3, <2>4
    <3>2. QED
      BY <1>5, <3>1 DEF PathOK
  <2>8. \A n \in OnPath' \ {0} : \E f \in Edges' : Child(f)' = n
    <3> SUFFICES ASSUME NEW n \in OnPath' \ {0} PROVE \E f \in Edges' : Child(f) = n
      BY <2>1
    <3>1. n = node' \/ n \in OnPath \ {0}
      BY <1>6
    <3>2. e \in Edges' /\ Edges \subseteq Edges'
      BY <1>5
    <3>3. QED
      BY <1>2, <3>1, <3>2 DEF PathOK
  <2>9. QED
    BY <1>5, <2>5, <2>6, <2>7, <2>8 DEF PathOK
<1>11. QED
  BY <1>7, <1>8, <1>9, <1>10

LEMMA RolloutStep ==
    ASSUME SearchInv, Rollout
    PROVE  SearchInv'
<1> USE DEF SearchInv
<1>0. /\ UNCHANGED <<tree, visits, retriever, node, path, best_path>>
      /\ simulations_completed' = simulations_completed /\ expansions' = expansions
      /\ frontier_rollouts' = frontier_rollouts + 1
      /\ pc = "select" /\ pc' = "backup" /\ ~expanded[node]
  BY DEF Rollout
<1>1. TreeOK' /\ RingOK' /\ BestOK'
  BY <1>0 DEF tree, retriever, TreeOK, RingOK, BestOK
<1>2. Edges' = Edges /\ OnPath' = OnPath /\ \A e : Child(e)' = Child(e)
  BY <1>0 DEF Edges, OnPath, Child, tree
<1>3. PathOK'
  BY <1>0, <1>2 DEF PathOK, tree
<1>4. Shut(node)
  BY SearchSizes DEF Rollout, Shut
<1>5. CountsOK'
  <2>1. capacity_exhausted' \in BOOLEAN /\ (capacity_exhausted' => ~can_expand)
    <3>1. CASE ~can_expand /\ capacity_exhausted' = TRUE
      BY <3>1
    <3>2. CASE capacity_exhausted' = capacity_exhausted
      BY <3>2 DEF CountsOK
    <3>3. QED
      BY <3>1, <3>2 DEF Rollout
  <2>2. node_count' = node_count /\ (can_expand' <=> can_expand)
    BY <1>0 DEF tree, can_expand
  <2>3. QED
    BY <1>0, <2>1, <2>2 DEF CountsOK
<1>6. \A n : Shut(n)' <=> Shut(n)
  BY <1>0 DEF Shut, can_expand, tree
<1>7. VisitsOK'
  BY <1>0, <1>4, <1>6 DEF VisitsOK, tree, visits
<1>8. QED
  BY <1>1, <1>3, <1>5, <1>7

LEMMA BestSteps ==
    ASSUME SearchInv, Extract \/ Finish
    PROVE  SearchInv'
<1> USE DEF SearchInv
<1>0. UNCHANGED <<tree, visits, retriever, node, path, telemetry>> /\ pc = "extract"
      /\ pc' \in {"extract", "done"}
  BY DEF Extract, Finish
<1>1. TreeOK' /\ RingOK'
  BY <1>0 DEF tree, retriever, TreeOK, RingOK
<1>2. Edges' = Edges /\ OnPath' = OnPath /\ \A e : Child(e)' = Child(e)
  BY <1>0 DEF Edges, OnPath, Child, tree
<1>3. PathOK'
  BY <1>0, <1>2 DEF PathOK, tree
<1>4. CountsOK'
  BY <1>0 DEF CountsOK, tree, telemetry, can_expand
<1>5. VisitsOK'
  BY <1>0 DEF VisitsOK, Shut, can_expand, tree, visits, telemetry
<1>6. BestOK'
  <2>1. CASE Extract
    <3>1. PICK a \in Actions : best_path' = Append(best_path, children[Last(best_path)][a])
      BY <2>1 DEF Extract, Favourites
    <3>2. best_path \in Seq(Nodes) /\ best_path # <<>> /\ expanded[Last(best_path)]
      BY <1>0, <2>1 DEF Extract, Goes, Inner, BestOK
    <3>3. Last(best_path) \in Nodes
      BY <3>2 DEF Last
    <3>4. children[Last(best_path)][a] \in Nodes
      <4>1. children[Last(best_path)][a] \in 1 .. node_count - 1
        BY <3>2, <3>3 DEF TreeOK
      <4>2. QED
        BY <4>1, NodesBelow
    <3> HIDE DEF SearchInv
    <3>5. QED
      BY <3>1, <3>2, <3>4 DEF BestOK
  <2>2. CASE Finish
    BY <2>2 DEF Finish, BestOK
  <2>3. QED
    BY <2>1, <2>2
<1>7. QED
  BY <1>1, <1>3, <1>4, <1>5, <1>6

LEMMA ExpandStep ==
    ASSUME SearchInv, Expand
    PROVE  SearchInv'
<1> USE DEF SearchInv
<1> DEFINE new == node_count .. node_count + Width - 1
<1>0. /\ pc = "select" /\ pc' = "backup" /\ ~expanded[node]
      /\ UNCHANGED <<visits, node, path, simulations_completed, frontier_rollouts,
                     capacity_exhausted, best_path>>
      /\ expanded' = [expanded EXCEPT ![node] = TRUE] /\ expansions' = expansions + 1
  BY DEF Expand
<1>1. /\ parents' = [n \in Nodes |-> IF n \in new THEN node ELSE parents[n]]
      /\ depths' = [n \in Nodes |-> IF n \in new THEN depths[node] + 1 ELSE depths[n]]
      /\ children' = [children EXCEPT ![node] = [a \in Actions |-> node_count + a]]
      /\ node_count' = node_count + Width
  BY DEF Expand, AddChildren
<1>2. /\ node \in Nodes /\ node \in 0 .. node_count - 1 /\ node_count \in 1 .. MaxNodes
      /\ node_count + Width <= MaxNodes /\ depths[node] < MaxDepth
  BY SearchSizes DEF Expand, can_expand, TreeOK, PathOK
<1>3. /\ node_count \in Nat /\ node \in Nat
      /\ new \subseteq Nodes /\ 0 \notin new /\ node \notin new
      /\ 0 .. node_count - 1 \subseteq Nodes
  BY <1>2, SearchSizes
<1>4. \A a \in Actions : a \in Nat /\ node_count + a \in new
  BY <1>3, SearchSizes
<1>5. \A n \in Nodes : IF n \in new THEN parents'[n] = node /\ depths'[n] = depths[node] + 1
                       ELSE parents'[n] = parents[n] /\ depths'[n] = depths[n]
  BY <1>1
<1>6. \A n \in Nodes : /\ expanded'[n] <=> (n = node \/ expanded[n])
                       /\ n # node => children'[n] = children[n]
  <2>1. \A n \in Nodes : expanded'[n] = IF n = node THEN TRUE ELSE expanded[n]
    BY <1>0 DEF TreeOK
  <2>2. \A n \in Nodes : n # node => children'[n] = children[n]
    BY <1>1 DEF TreeOK
  <2>3. QED
    BY <2>1, <2>2
<1>7. \A a \in Actions : children'[node][a] = node_count + a
  BY <1>1, <1>2 DEF TreeOK
<1>8. TreeOK'
  <2>1. node_count' \in 1 .. MaxNodes
    BY <1>1, <1>2, <1>3, SearchSizes
  <2>2. parents' \in [Nodes -> Nodes \cup {Nil}]
    BY <1>1, <1>2 DEF TreeOK
  <2>3. depths' \in [Nodes -> 0 .. MaxDepth]
    <3>1. depths[node] + 1 \in 0 .. MaxDepth
      BY <1>2, SearchSizes DEF TreeOK
    <3>2. QED
      BY <1>1, <3>1 DEF TreeOK
  <2>4. children' \in [Nodes -> [Actions -> Nodes \cup {Nil}]]
    <3>1. [a \in Actions |-> node_count + a] \in [Actions -> Nodes \cup {Nil}]
      BY <1>3, <1>4
    <3>2. QED
      BY <1>1, <3>1 DEF TreeOK
  <2>5. expanded' \in [Nodes -> BOOLEAN]
    BY <1>0 DEF TreeOK
  <2>6. parents'[0] = Nil
    BY <1>3, <1>5, SearchSizes DEF TreeOK
  <2>7. \A n \in 1 .. node_count' - 1 : parents'[n] \in 0 .. n - 1 /\ expanded'[parents'[n]]
    <3> SUFFICES ASSUME NEW n \in 1 .. node_count' - 1
                 PROVE  parents'[n] \in 0 .. n - 1 /\ expanded'[parents'[n]]
      OBVIOUS
    <3>1. CASE n \in new
      <4>1. parents'[n] = node /\ node < n /\ n \in Nat
        BY <1>2, <1>3, <1>5, <3>1
      <4>2. node \in 0 .. n - 1
        BY <1>3, <4>1
      <4>3. QED
        BY <1>2, <1>6, <4>1, <4>2
    <3>2. CASE n \notin new
      <4>1. n \in 1 .. node_count - 1 /\ n \in Nodes
        BY <1>1, <1>3, <3>2, SearchSizes
      <4>2. parents'[n] = parents[n] /\ parents[n] \in 0 .. n - 1 /\ expanded[parents[n]]
        BY <1>5, <3>2, <4>1 DEF TreeOK
      <4>3. parents[n] \in Nodes
        BY <4>1, <4>2, SearchSizes
      <4>4. QED
        BY <1>6, <4>2, <4>3
    <3>3. QED
      BY <3>1, <3>2
  <2>8. ASSUME NEW n \in Nodes, expanded'[n]
        PROVE  /\ n < node_count'
               /\ \A a \in Actions :
                      /\ children'[n][a] \in 1 .. node_count' - 1
                      /\ parents'[children'[n][a]] = n
                      /\ \A b \in Actions : children'[n][a] = children'[n][b] => a = b
    <3>1. CASE n = node
      <4>1. n < node_count'
        BY <1>1, <1>2, <1>3, <3>1, SearchSizes
      <4>2. ASSUME NEW a \in Actions
            PROVE  children'[n][a] \in 1 .. node_count' - 1 /\ parents'[children'[n][a]] = n
        <5>1. children'[n][a] = node_count + a /\ node_count + a \in new
          BY <1>4, <1>7, <3>1
        <5>2. parents'[node_count + a] = node
          BY <1>3, <1>5, <5>1
        <5>3. node_count + a \in 1 .. node_count' - 1
          BY <1>1, <1>2, <1>3, <5>1, SearchSizes
        <5>4. QED
          BY <3>1, <5>1, <5>2, <5>3
      <4>3. \A a, b \in Actions : children'[n][a] = children'[n][b] => a = b
        BY <1>3, <1>4, <1>7, <3>1
      <4>4. QED
        BY <4>1, <4>2, <4>3
    <3>2. CASE n # node
      <4>1. expanded[n] /\ children'[n] = children[n]
        BY <1>6, <2>8, <3>2
      <4>2. n < node_count /\ n \in Nat
        BY <4>1, SearchSizes DEF TreeOK
      <4>3. n < node_count'
        BY <1>1, <1>3, <4>2, SearchSizes
      <4>4. ASSUME NEW a \in Actions
            PROVE  children'[n][a] \in 1 .. node_count' - 1 /\ parents'[children'[n][a]] = n
        <5>1. children[n][a] \in 1 .. node_count - 1 /\ parents[children[n][a]] = n
          BY <4>1 DEF TreeOK
        <5>2. children[n][a] \notin new /\ children[n][a] \in Nodes
          BY <1>3, <5>1
        <5>3. parents'[children[n][a]] = n
          BY <1>5, <5>1, <5>2
        <5>4. children[n][a] \in 1 .. node_count' - 1
          BY <1>1, <1>3, <5>1, SearchSizes
        <5>5. QED
          BY <4>1, <5>3, <5>4
      <4>5. \A a, b \in Actions : children'[n][a] = children'[n][b] => a = b
        BY <4>1 DEF TreeOK
      <4>6. QED
        BY <4>3, <4>4, <4>5
    <3>3. QED
      BY <3>1, <3>2
  <2>9. \A n \in Nodes : n >= node_count' => parents'[n] = Nil
    <3> SUFFICES ASSUME NEW n \in Nodes, n >= node_count' PROVE parents'[n] = Nil
      OBVIOUS
    <3>1. n \notin new /\ n >= node_count
      BY <1>1, <1>3, SearchSizes
    <3>2. QED
      BY <1>5, <3>1 DEF TreeOK
  <2>10. QED
    BY <2>1, <2>2, <2>3, <2>4, <2>5, <2>6, <2>7, <2>8, <2>9 DEF TreeOK
<1>9. Edges' = Edges /\ OnPath' = OnPath /\ Edges \subseteq EdgeSet
  BY <1>0, EdgesAreEdges DEF Edges, OnPath
<1>10. PathOK'
  <2>1. \A e \in Edges : e.node \in Nodes /\ e.node # node
    BY <1>2, <1>3, <1>9, SearchSizes DEF EdgeSet, PathOK
  <2>2. \A e \in Edges : Child(e)' = Child(e) /\ expanded'[e.node]
    BY <1>6, <2>1 DEF Child, PathOK
  <2>3. node' \in 0 .. node_count' - 1
    BY <1>0, <1>1, <1>2, <1>3, SearchSizes
  <2>4. path' = path /\ node' = node
    BY <1>0
  <2>5. \A e \in Edges' : e.node < node' /\ expanded'[e.node] /\ Child(e)' \in OnPath'
    BY <1>9, <2>2, <2>4 DEF PathOK
  <2>6. \A n \in OnPath' \ {0} : \E e \in Edges' : Child(e)' = n
    <3> SUFFICES ASSUME NEW n \in OnPath \ {0} PROVE \E e \in Edges : Child(e)' = n
      BY <1>9
    <3>1. PICK e \in Edges : Child(e) = n
      BY DEF PathOK
    <3>2. QED
      BY <2>2, <3>1
  <2>7. 0 \in OnPath' /\ path' \in Seq(EdgeSet) /\ \A e, f \in Edges' : e.node = f.node => e = f
    BY <1>9, <2>4 DEF PathOK
  <2>8. QED
    BY <2>3, <2>5, <2>6, <2>7 DEF PathOK
<1>11. CountsOK'
  <2>1. capacity_exhausted = FALSE
    BY <1>2 DEF CountsOK, can_expand
  <2>2. capacity_exhausted' \in BOOLEAN /\ (capacity_exhausted' => ~can_expand')
    BY <1>0, <2>1
  <2>3. node_count' = 1 + Width * expansions'
    <3>1. Width * (expansions + 1) = Width * expansions + Width
      BY SearchSizes DEF CountsOK
    <3>2. Width * expansions \in Nat
      BY SearchSizes DEF CountsOK
    <3>3. QED
      BY <1>0, <1>1, <3>1, <3>2, SearchSizes DEF CountsOK
  <2>4. /\ pc' \in {"select", "backup", "extract", "done"}
        /\ simulations_completed' \in 0 .. Simulations
        /\ expansions' \in Nat /\ frontier_rollouts' \in Nat
        /\ simulations_completed' < Simulations
        /\ expansions' + frontier_rollouts' = simulations_completed' + 1
        /\ pc' = "backup"
    BY <1>0, SearchSizes DEF CountsOK
  <2>5. QED
    BY <2>2, <2>3, <2>4 DEF CountsOK
<1>12. VisitsOK'
  <2>1. /\ node_visits' = node_visits /\ action_visits' = action_visits /\ node' = node
        /\ simulations_completed' = simulations_completed
    BY <1>0 DEF visits
  <2>2. ~Shut(node)
    BY <1>2, SearchSizes DEF Shut, can_expand, TreeOK
  <2>3. node_visits[node] = 0 /\ \A a \in Actions : action_visits[node][a] = 0
    <3>1. node_visits[node] \in Nat /\ ~(node_visits[node] > 0)
      BY <1>0, <1>2, <2>2 DEF VisitsOK
    <3>2. QED
      BY <1>0, <1>2, <3>1 DEF VisitsOK
  <2>4. Total(action_visits[node]) = 0
    <3>1. action_visits[node] \in [Actions -> Nat]
      BY <1>2 DEF VisitsOK
    <3>2. QED
      BY <2>3, <3>1, TotalOfNone
  <2>5. \A n \in Nodes : n >= node_count => node_visits[n] = 0
    BY DEF VisitsOK
  <2>6. ASSUME NEW n \in Nodes
        PROVE  /\ node_visits[n] <= simulations_completed
               /\ n >= node_count' => node_visits[n] = 0
               /\ ~expanded'[n] /\ node_visits[n] > 0 => Shut(n)'
               /\ ~expanded'[n] => \A a \in Actions : action_visits[n][a] = 0
    <3>1. node_visits[n] <= simulations_completed
      BY DEF VisitsOK
    <3>2. n >= node_count' => node_visits[n] = 0
      BY <1>1, <1>3, <2>5, SearchSizes
    <3>3. ASSUME ~expanded'[n], node_visits[n] > 0
          PROVE  Shut(n)'
      <4>0. n < node_count
        BY <1>3, <2>5, <3>3, SearchSizes
      <4>1. ~expanded[n] /\ n \notin new
        <5>1. n \notin new
          BY <1>3, <4>0
        <5>2. QED
          BY <1>6, <3>3, <5>1
      <4>2. Shut(n) /\ depths'[n] = depths[n]
        BY <1>5, <3>3, <4>1 DEF VisitsOK
      <4>3. QED
        BY <1>2, <4>2 DEF Shut, can_expand
    <3>4. ~expanded'[n] => \A a \in Actions : action_visits[n][a] = 0
      BY <1>6 DEF VisitsOK
    <3>5. QED
      BY <3>1, <3>2, <3>3, <3>4
  <2>7. ASSUME NEW n \in Nodes, expanded'[n]
        PROVE  /\ Total(action_visits[n]) = node_visits[n] - (IF n = node THEN 0 ELSE 1)
               /\ \A a \in Actions : action_visits[n][a] = node_visits[children'[n][a]]
    <3>1. CASE n = node
      <4>1. \A a \in Actions : node_visits[node_count + a] = 0
        BY <1>3, <1>4, <2>5
      <4>2. QED
        BY <1>7, <2>3, <2>4, <3>1, <4>1
    <3>2. CASE n # node
      <4>1. expanded[n] /\ children'[n] = children[n]
        BY <1>6, <2>7, <3>2
      <4>2. QED
        BY <1>0, <3>2, <4>1 DEF VisitsOK
    <3>3. QED
      BY <3>1, <3>2
  <2>8. /\ node_visits \in [Nodes -> Nat] /\ action_visits \in [Nodes -> [Actions -> Nat]]
        /\ node_visits[0] = simulations_completed
    BY DEF VisitsOK
  <2>9. expanded'[node]
    BY <1>2, <1>6
  <2> HIDE DEF SearchInv
  <2>10. QED
    BY <1>0, <2>1, <2>6, <2>7, <2>8, <2>9 DEF VisitsOK
<1>13. RingOK'
  <2> DEFINE last == node_count + Width - 1
             newest(s) == {h \in node_count .. last : h % Capacity = s}
  <2>1. /\ handles' = [s \in RingSlots |-> IF newest(s) = {} THEN handles[s] ELSE Max(newest(s))]
        /\ handle_parents' = [s \in RingSlots |-> IF newest(s) = {} THEN handle_parents[s]
                                                  ELSE node]
        /\ next_handle' = last + 1
    BY DEF Expand, Add
  <2>2. last \in Nat /\ new = node_count .. last
    BY <1>3, SearchSizes
  <2>3. \A s : newest(s) # {} =>
            /\ Max(newest(s)) \in newest(s)
            /\ \A h \in newest(s) : h <= Max(newest(s))
    <3> SUFFICES ASSUME NEW s, newest(s) # {}
                 PROVE  /\ Max(newest(s)) \in newest(s)
                        /\ \A h \in newest(s) : h <= Max(newest(s))
      OBVIOUS
    <3>1. newest(s) \subseteq 0 .. last
      BY <1>3, <2>2
    <3> HIDE DEF newest
    <3>2. PICK m \in newest(s) : \A k \in newest(s) : k <= m
      BY <2>2, <3>1, Greatest
    <3>3. \A k \in newest(s) : k \in Nat
      BY <2>2, <3>1
    <3>4. \E x \in newest(s) : \A y \in newest(s) : x >= y
      BY <3>2, <3>3
    <3>5. Max(newest(s)) \in newest(s) /\ \A y \in newest(s) : Max(newest(s)) >= y
      BY <3>4 DEF Max
    <3>6. QED
      BY <3>3, <3>5
  <2>4. ASSUME NEW s \in RingSlots, newest(s) # {}
        PROVE  /\ handles'[s] \in new /\ handles'[s] % Capacity = s
               /\ handle_parents'[s] = node
               /\ \A h \in new : h % Capacity = s => h <= handles'[s]
    <3>1. handles'[s] = Max(newest(s)) /\ handle_parents'[s] = node
      BY <2>1, <2>4
    <3>2. handles'[s] \in newest(s) /\ \A h \in newest(s) : h <= handles'[s]
      BY <2>3, <2>4, <3>1
    <3>3. QED
      BY <2>2, <3>1, <3>2
  <2>5. \A s \in RingSlots : newest(s) = {} =>
            handles'[s] = handles[s] /\ handle_parents'[s] = handle_parents[s]
    BY <2>1
  <2>6. handles' \in [RingSlots -> Nodes \cup {Nil}]
    <3>1. \A s \in RingSlots : handles'[s] \in Nodes \cup {Nil}
      BY <1>3, <2>4, <2>5 DEF RingOK
    <3>2. QED
      BY <2>1, <3>1
  <2>7. handle_parents' \in [RingSlots -> Nodes \cup {Nil}]
    <3>1. \A s \in RingSlots : handle_parents'[s] \in Nodes \cup {Nil}
      BY <1>2, <2>4, <2>5 DEF RingOK
    <3>2. QED
      BY <2>1, <3>1
  <2>8. next_handle' = node_count'
    BY <1>1, <1>3, <2>1, SearchSizes
  <2>9. ASSUME NEW s \in RingSlots, handles'[s] # Nil
        PROVE  /\ handles'[s] < node_count' /\ handles'[s] % Capacity = s
               /\ handle_parents'[s] = parents'[handles'[s]]
    <3>1. CASE newest(s) = {}
      <4>1. /\ handles'[s] = handles[s] /\ handles[s] < node_count /\ handles[s] % Capacity = s
            /\ handle_parents'[s] = parents[handles[s]] /\ handles[s] \in Nodes
        BY <2>5, <2>9, <3>1 DEF RingOK
      <4>2. handles[s] \notin new /\ handles[s] \in Nat
        BY <1>3, <4>1, SearchSizes
      <4>3. parents'[handles[s]] = parents[handles[s]]
        BY <1>5, <4>1, <4>2
      <4>4. handles[s] < node_count'
        BY <1>1, <1>3, <4>1, <4>2, SearchSizes
      <4>5. QED
        BY <4>1, <4>3, <4>4
    <3>2. CASE newest(s) # {}
      <4>1. handles'[s] \in new /\ handles'[s] % Capacity = s /\ handle_parents'[s] = node
        BY <2>4, <3>2
      <4>2. parents'[handles'[s]] = node
        BY <1>3, <1>5, <4>1
      <4>3. handles'[s] < node_count'
        BY <1>1, <1>3, <4>1, SearchSizes
      <4>4. QED
        BY <4>1, <4>2, <4>3
    <3>3. QED
      BY <3>1, <3>2
  <2>10. ASSUME NEW s \in RingSlots, handles'[s] = Nil
         PROVE  handle_parents'[s] = Nil
    <3>1. newest(s) = {}
      BY <1>3, <2>4, <2>10, SearchSizes
    <3>2. QED
      BY <2>5, <2>10, <3>1 DEF RingOK
  <2>11. ASSUME NEW h \in 0 .. node_count' - 1
         PROVE  handles'[h % Capacity] >= h
    <3>1. h \in Nat /\ h % Capacity \in RingSlots /\ (h \in 0 .. node_count - 1 \/ h \in new)
      BY <1>1, <1>3, RingOfHandles, SearchSizes
    <3> DEFINE s == h % Capacity
    <3>2. CASE newest(s) = {}
      <4>1. h \notin new
        BY <2>2, <3>2
      <4>2. handles'[s] = handles[s]
        BY <2>5, <3>1, <3>2
      <4>3. QED
        BY <3>1, <4>1, <4>2 DEF RingOK
    <3>3. CASE newest(s) # {}
      <4>1. handles'[s] \in new /\ \A x \in new : x % Capacity = s => x <= handles'[s]
        BY <2>4, <3>1, <3>3
      <4> HIDE DEF s
      <4>2. CASE h \in new
        <5>1. h <= handles'[s] /\ handles'[s] \in Nat /\ h \in Nat
          BY <1>3, <4>1, <4>2, SearchSizes DEF s
        <5>2. QED
          BY <5>1 DEF s
      <4>3. CASE h \in 0 .. node_count - 1
        <5>1. h <= handles'[s] /\ handles'[s] \in Nat
          BY <1>3, <4>1, <4>3
        <5>2. QED
          BY <3>1, <5>1 DEF s
      <4>4. QED
        BY <3>1, <4>2, <4>3
    <3>4. QED
      BY <3>2, <3>3
  <2> HIDE DEF SearchInv, newest, last
  <2>12. QED
    BY <2>6, <2>7, <2>8, <2>9, <2>10, <2>11 DEF RingOK
<1>14. BestOK'
  BY <1>0 DEF BestOK
<1>15. QED
  BY <1>8, <1>10, <1>11, <1>12, <1>13, <1>14

(* A visited node but the last sent the simulation over one of its edges. *)
LEMMA BackupStep ==
    ASSUME SearchInv, Backup
    PROVE  SearchInv'
<1> USE DEF SearchInv
<1>0. /\ pc = "backup" /\ UNCHANGED <<tree, retriever, expansions, frontier_rollouts,
                                      capacity_exhausted>>
      /\ simulations_completed' = simulations_completed + 1 /\ node' = 0 /\ path' = <<>>
      /\ pc' = IF simulations_completed' = Simulations THEN "extract" ELSE "select"
      /\ best_path' = IF simulations_completed' = Simulations THEN <<0>> ELSE best_path
  BY DEF Backup
<1>1. TreeOK' /\ RingOK'
  BY <1>0 DEF tree, retriever, TreeOK, RingOK
<1>2. node_count' = node_count /\ expanded' = expanded /\ children' = children /\ depths' = depths
  BY <1>0 DEF tree
<1>3. Edges \subseteq EdgeSet /\ OnPath \subseteq 0 .. node_count - 1
  BY EdgesAreEdges
<1>4. \A e \in Edges : /\ e.node \in Nodes /\ e.action \in Actions
                       /\ e = [node |-> e.node, action |-> e.action]
  BY <1>3 DEF EdgeSet
<1>5. PathOK'
  <2>1. Edges' = {} /\ OnPath' = {0}
    BY <1>0 DEF Edges, OnPath
  <2>2. 0 \in 0 .. node_count' - 1
    BY <1>2, SearchSizes DEF TreeOK
  <2>3. path' \in Seq(EdgeSet)
    BY <1>0
  <2>4. QED
    BY <1>0, <2>1, <2>2, <2>3 DEF PathOK
<1>6. CountsOK'
  <2>1. capacity_exhausted' \in BOOLEAN /\ (capacity_exhausted' => ~can_expand')
    BY <1>0, <1>2 DEF CountsOK, can_expand
  <2>2. /\ simulations_completed \in Nat /\ simulations_completed < Simulations
        /\ expansions + frontier_rollouts = simulations_completed + 1
    BY <1>0, SearchSizes DEF CountsOK
  <2>3. node_count' = 1 + Width * expansions' /\ expansions' \in Nat /\ frontier_rollouts' \in Nat
    BY <1>0, <1>2 DEF CountsOK
  <2>4. /\ simulations_completed' \in 0 .. Simulations
        /\ pc' \in {"select", "extract"}
        /\ pc' = "select" => simulations_completed' < Simulations
        /\ expansions' + frontier_rollouts' = simulations_completed'
    BY <1>0, <2>2, SearchSizes
  <2>5. expansions' + frontier_rollouts'
            = simulations_completed' + (IF pc' = "backup" THEN 1 ELSE 0)
    BY <2>2, <2>4, <1>0
  <2>6. QED
    BY <2>1, <2>3, <2>4, <2>5 DEF CountsOK
<1>7. BestOK'
  <2>1. <<0>> \in Seq(Nodes) /\ <<0>> # <<>>
    BY NodesBelow
  <2>2. best_path \in Seq(Nodes)
    BY DEF BestOK
  <2>3. CASE simulations_completed' = Simulations
    BY <1>0, <2>1, <2>3 DEF BestOK
  <2>4. CASE simulations_completed' # Simulations
    BY <1>0, <2>2, <2>4 DEF BestOK
  <2>5. QED
    BY <2>3, <2>4
<1>8. VisitsOK'
  <2> DEFINE on(n) == IF n \in OnPath THEN 1 ELSE 0
             over(n, a) == IF [node |-> n, action |-> a] \in Edges THEN 1 ELSE 0
  <2>1. /\ node_visits' = [n \in Nodes |-> node_visits[n] + on(n)]
        /\ action_visits' = [n \in Nodes |-> [a \in Actions |->
                                 action_visits[n][a] + over(n, a)]]
    BY DEF Backup
  <2>2. \A n \in Nodes :
            /\ node_visits'[n] = node_visits[n] + on(n)
            /\ \A a \in Actions : action_visits'[n][a] = action_visits[n][a] + over(n, a)
    BY <2>1
  <2>3. /\ \A n : on(n) \in {0, 1} /\ \A a : over(n, a) \in {0, 1}
        /\ \A n : n \in OnPath => on(n) = 1
        /\ \A n : n \notin OnPath => on(n) = 0
    OBVIOUS
  <2>4. /\ node_visits \in [Nodes -> Nat] /\ action_visits \in [Nodes -> [Actions -> Nat]]
        /\ node_visits[0] = simulations_completed /\ simulations_completed \in Nat
    <3>1. simulations_completed \in 0 .. Simulations /\ Simulations \in Nat
      BY SearchSizes DEF CountsOK
    <3>2. QED
      BY <3>1 DEF VisitsOK
  <2>5. node_visits' \in [Nodes -> Nat]
    <3> HIDE DEF on, over
    <3>1. \A n \in Nodes : node_visits[n] + on(n) \in Nat
      BY <2>3, <2>4
    <3>2. QED
      BY <2>1, <3>1
  <2>6. action_visits' \in [Nodes -> [Actions -> Nat]]
    <3> HIDE DEF on, over
    <3>1. \A n \in Nodes : \A a \in Actions : action_visits[n][a] + over(n, a) \in Nat
      <4>1. \A n \in Nodes : \A a \in Actions : action_visits[n][a] \in Nat
        BY <2>4
      <4>2. \A n, a : over(n, a) \in Nat
        BY <2>3
      <4>3. QED
        BY <4>1, <4>2
    <3>2. QED
      BY <2>1, <3>1
  <2>7. node_visits'[0] = simulations_completed'
    <3>1. 0 \in OnPath /\ 0 \in Nodes
      BY SearchSizes DEF PathOK
    <3>2. QED
      BY <1>0, <2>2, <2>3, <2>4, <3>1
  <2>8. \A n \in Nodes : ~expanded[n] => \A a \in Actions : over(n, a) = 0
    BY DEF PathOK
  <2>9. ASSUME NEW n \in Nodes
        PROVE  /\ node_visits'[n] <= simulations_completed'
               /\ n >= node_count' => node_visits'[n] = 0
               /\ ~expanded'[n] /\ node_visits'[n] > 0 => Shut(n)'
               /\ ~expanded'[n] => \A a \in Actions : action_visits'[n][a] = 0
    <3> DEFINE v == node_visits[n]
    <3>1. /\ v \in Nat /\ v <= simulations_completed /\ n \in Nat /\ node_count \in Nat
          /\ n >= node_count => v = 0
      <4>1. v <= simulations_completed /\ (n >= node_count => v = 0)
        BY DEF VisitsOK
      <4>2. v \in Nat
        BY <2>4
      <4>3. QED
        BY <4>1, <4>2, NodesBelow, SearchSizes
    <3>2. node_visits'[n] = v + on(n) /\ on(n) \in {0, 1}
      BY <2>2, <2>3
    <3>3. n >= node_count => on(n) = 0
      BY <1>3, <3>1
    <3> HIDE DEF on, v
    <3>4. /\ node_visits'[n] <= simulations_completed'
          /\ n >= node_count' => node_visits'[n] = 0
      BY <1>0, <1>2, <2>4, <3>1, <3>2, <3>3
    <3>5. ASSUME ~expanded'[n], node_visits'[n] > 0
          PROVE  Shut(n)'
      <4>1. v > 0 \/ n \in OnPath
        BY <3>1, <3>2, <3>5 DEF on
      <4>2. ~expanded[n]
        BY <1>2, <3>5
      <4>3. n \in OnPath => n = node
        BY <4>2 DEF OnPath, PathOK
      <4>4. Shut(n)
        BY <1>0, <4>1, <4>2, <4>3 DEF VisitsOK, v
      <4>5. QED
        BY <1>2, <4>4 DEF Shut, can_expand
    <3>6. ASSUME ~expanded'[n], NEW a \in Actions
          PROVE  action_visits'[n][a] = 0
      <4>1. ~expanded[n] /\ over(n, a) = 0
        BY <1>2, <2>8, <3>6
      <4>2. action_visits[n][a] = 0
        BY <4>1 DEF VisitsOK
      <4> HIDE DEF over
      <4>3. QED
        BY <2>2, <4>1, <4>2
    <3>7. QED
      BY <3>4, <3>5, <3>6
  <2>10. ASSUME NEW n \in Nodes, expanded[n], NEW a \in Actions
         PROVE  action_visits'[n][a] = node_visits'[children[n][a]]
    <3> DEFINE e == [node |-> n, action |-> a]
               c == children[n][a]
    <3>1. e \in EdgeSet /\ Child(e) = c /\ e.node = n
      BY DEF EdgeSet, Child
    <3>2. c \in Nodes /\ c # 0
      <4>1. c \in 1 .. node_count - 1
        BY <2>10 DEF TreeOK
      <4>2. QED
        BY <4>1, NodesBelow
    <3>3. e \in Edges <=> c \in OnPath
      <4>1. e \in Edges => c \in OnPath
        BY <3>1 DEF PathOK
      <4>2. ASSUME c \in OnPath
            PROVE  e \in Edges
        <5> HIDE DEF e, c
        <5>1. PICK f \in Edges : Child(f) = c
          BY <3>2, <4>2 DEF PathOK
        <5>2. f \in EdgeSet /\ expanded[f.node]
          BY <1>3 DEF PathOK
        <5>3. f = e
          BY <2>10, <3>1, <5>1, <5>2, OneEdgeToEach
        <5>4. QED
          BY <5>3
      <4>3. QED
        BY <4>1, <4>2
    <3>4. over(n, a) = on(c)
      BY <3>3
    <3>5. action_visits[n][a] = node_visits[c]
      BY <2>10 DEF VisitsOK
    <3> HIDE DEF on, over, c
    <3>6. QED
      BY <2>2, <3>2, <3>4, <3>5 DEF c
  <2>11. ASSUME NEW n \in Nodes, expanded[n]
         PROVE  Total(action_visits'[n]) = node_visits'[n] - 1
    <3> DEFINE f == action_visits[n]
               g == action_visits'[n]
               v == node_visits[n]
    <3>1. /\ f \in [Actions -> Nat] /\ g \in [Actions -> Nat] /\ v \in Nat
          /\ \A a \in Actions : g[a] = f[a] + over(n, a)
          /\ node_visits'[n] = v + on(n)
      BY <2>2, <2>4, <2>6
    <3>2. Total(f) = v - (IF n = node THEN 0 ELSE 1)
      BY <1>0, <2>11 DEF VisitsOK
    <3>3. ASSUME \A a \in Actions : over(n, a) = 0
          PROVE  g = f
      <4> HIDE DEF over, f, g
      <4>1. \A a \in Actions : f[a] \in Nat /\ g[a] = f[a]
        BY <3>1, <3>3
      <4>2. QED
        BY <3>1, <4>1
    <3>4. CASE n = node
      <4>1. \A e \in Edges : e.node # n
        BY <1>4, <3>4, SearchSizes DEF PathOK
      <4>2. \A a \in Actions : over(n, a) = 0
        BY <4>1
      <4>3. n \in OnPath
        BY <3>4 DEF OnPath
      <4>4. on(n) = 1
        BY <4>3
      <4> HIDE DEF over, on, f, g, v
      <4>5. g = f
        BY <3>3, <4>2
      <4>6. QED
        BY <3>1, <3>2, <3>4, <4>4, <4>5 DEF g
    <3>5. CASE n # node /\ n \in OnPath
      <4>1. PICK e \in Edges : e.node = n
        BY <3>5 DEF OnPath
      <4>2. \A b \in Actions : [node |-> n, action |-> b] \in Edges <=> b = e.action
        <5> SUFFICES ASSUME NEW b \in Actions
                     PROVE  [node |-> n, action |-> b] \in Edges <=> b = e.action
          OBVIOUS
        <5>1. e = [node |-> n, action |-> e.action]
          BY <1>4, <4>1
        <5>2. [node |-> n, action |-> b] \in Edges => [node |-> n, action |-> b] = e
          <6>1. [node |-> n, action |-> b].node = n
            OBVIOUS
          <6>2. QED
            BY <4>1, <6>1 DEF PathOK
        <5>3. [node |-> n, action |-> b].action = b
          OBVIOUS
        <5>4. QED
          BY <5>1, <5>2, <5>3
      <4>3. \A b \in Actions : g[b] = f[b] + (IF b = e.action THEN 1 ELSE 0)
        BY <3>1, <4>2
      <4>4. on(n) = 1 /\ e.action \in Actions
        BY <1>4, <3>5
      <4> HIDE DEF over, on, f, g, v
      <4>5. Total(f) \in Nat /\ Total(g) = Total(f) + 1
        BY <3>1, <4>3, <4>4, TotalOfOneMore
      <4>6. QED
        BY <3>1, <3>2, <3>5, <4>4, <4>5 DEF g
    <3>6. CASE n \notin OnPath
      <4>1. \A e \in Edges : e.node # n
        BY <3>6 DEF OnPath
      <4>2. \A a \in Actions : over(n, a) = 0
        BY <4>1
      <4>3. on(n) = 0 /\ n # node
        BY <3>6 DEF OnPath
      <4> HIDE DEF over, on, f, g, v
      <4>4. g = f
        BY <3>3, <4>2
      <4>5. QED
        BY <3>1, <3>2, <4>3, <4>4 DEF g
    <3>7. QED
      BY <3>4, <3>5, <3>6
  <2>12. pc' # "backup"
    BY <1>0
  <2> HIDE DEF SearchInv, on, over
  <2>13. QED
    BY <1>2, <2>5, <2>6, <2>7, <2>9, <2>10, <2>11, <2>12 DEF VisitsOK
<1>9. QED
  BY <1>1, <1>5, <1>6, <1>7, <1>8

LEMMA SearchInductive == SearchSpec => []SearchInv
<1>1. SearchInit => SearchInv
  BY SearchStarts
<1>2. SearchInv /\ [SearchNext]_treeVars => SearchInv'
  <2>1. CASE SearchNext
    BY <2>1, SelectStep, ExpandStep, RolloutStep, BackupStep, BestSteps DEF SearchNext
  <2>2. CASE UNCHANGED treeVars
    <3>1. /\ UNCHANGED <<tree, visits, retriever, telemetry>>
          /\ UNCHANGED <<pc, node, path, best_path>>
      BY <2>2 DEF treeVars
    <3>2. Edges' = Edges /\ OnPath' = OnPath /\ \A e : Child(e)' = Child(e)
      BY <3>1 DEF Edges, OnPath, Child, tree
    <3>3. TreeOK' = TreeOK /\ RingOK' = RingOK /\ BestOK' = BestOK
      BY <3>1 DEF TreeOK, RingOK, BestOK, tree, retriever
    <3>4. PathOK => PathOK'
      BY <3>1, <3>2 DEF PathOK, tree
    <3>5. CountsOK => CountsOK'
      BY <3>1 DEF CountsOK, can_expand, tree, telemetry
    <3>6. VisitsOK => VisitsOK'
      BY <3>1 DEF VisitsOK, Shut, can_expand, tree, visits, telemetry
    <3>7. QED
      BY <3>3, <3>4, <3>5, <3>6 DEF SearchInv
  <2>3. QED
    BY <2>1, <2>2
<1>3. QED
  BY <1>1, <1>2, PTL DEF SearchSpec

LEMMA SearchInvIsSound ==
    ASSUME SearchInv
    PROVE  TreeIsSound
<1> USE DEF SearchInv
<1>1. \A n \in Nodes : node_visits[n] \in 0 .. Simulations
  <2>1. \A n \in Nodes : node_visits[n] \in Nat /\ node_visits[n] <= simulations_completed
    BY DEF VisitsOK
  <2>2. simulations_completed \in 0 .. Simulations /\ Simulations \in Nat
    BY SearchSizes DEF CountsOK
  <2>3. QED
    BY <2>1, <2>2
<1>2. \A n \in Nodes : \A a \in Actions : action_visits[n][a] \in 0 .. Simulations
  <2> SUFFICES ASSUME NEW n \in Nodes, NEW a \in Actions
               PROVE  action_visits[n][a] \in 0 .. Simulations
    OBVIOUS
  <2>1. CASE expanded[n]
    <3>1. children[n][a] \in 1 .. node_count - 1
      BY <2>1 DEF TreeOK
    <3>2. children[n][a] \in Nodes
      BY <3>1, NodesBelow
    <3>3. action_visits[n][a] = node_visits[children[n][a]]
      BY <2>1 DEF VisitsOK
    <3>4. QED
      BY <1>1, <3>2, <3>3
  <2>2. CASE ~expanded[n]
    <3>1. action_visits[n][a] = 0
      BY <2>2 DEF VisitsOK
    <3>2. QED
      BY <3>1, SearchSizes
  <2>3. QED
    BY <2>1, <2>2
<1>3. TypeOK
  <2>1. node_visits \in [Nodes -> 0 .. Simulations]
    BY <1>1 DEF VisitsOK
  <2>2. action_visits \in [Nodes -> [Actions -> 0 .. Simulations]]
    <3>1. \A n \in Nodes : action_visits[n] \in [Actions -> 0 .. Simulations]
      BY <1>2 DEF VisitsOK
    <3>2. QED
      BY <3>1 DEF VisitsOK
  <2>3. expansions \in 0 .. Simulations /\ frontier_rollouts \in 0 .. Simulations
    BY SearchSizes DEF CountsOK
  <2>4. node \in Nodes /\ next_handle \in 1 .. MaxNodes
    BY SearchSizes DEF PathOK, TreeOK, RingOK
  <2>5. QED
    BY <2>1, <2>2, <2>3, <2>4 DEF TypeOK, TreeOK, PathOK, CountsOK, RingOK, BestOK, EdgeSet
<1>4. VisitsAreConserved
  <2>1. 0 .. node_count - 1 \subseteq Nodes
    BY SearchSizes DEF TreeOK
  <2>2. ASSUME NEW n \in 0 .. node_count - 1, expanded[n], NEW a \in Actions
        PROVE  children[n][a] \in Children(n)
    <3>1. children[n][a] \in 1 .. node_count - 1 /\ parents[children[n][a]] = n
      BY <2>1, <2>2 DEF TreeOK
    <3>2. QED
      BY <3>1 DEF Children
  <2>3. \A n \in 0 .. node_count - 1 : expanded[n] <=> Children(n) # {}
    <3>1. 0 \in Actions
      BY SearchSizes
    <3>2. \A n \in 0 .. node_count - 1 : Children(n) # {} => expanded[n]
      BY DEF Children, TreeOK
    <3>3. QED
      BY <2>2, <3>1, <3>2
  <2>4. /\ node_visits[0] = simulations_completed
        /\ \A n \in 0 .. node_count - 1 :
               /\ expanded[n] =>
                      Total(action_visits[n])
                          = node_visits[n] - (IF pc = "backup" /\ n = node THEN 0 ELSE 1)
               /\ \A a \in Actions :
                      IF expanded[n] THEN action_visits[n][a] = node_visits[children[n][a]]
                                     ELSE action_visits[n][a] = 0
    BY <2>1 DEF VisitsOK
  <2>5. /\ expansions + frontier_rollouts
               = simulations_completed + (IF pc = "backup" THEN 1 ELSE 0)
        /\ node_count = 1 + Width * expansions
        /\ capacity_exhausted => ~can_expand
    BY DEF CountsOK
  <2> HIDE DEF SearchInv
  <2>6. QED
    BY <2>2, <2>3, <2>4, <2>5 DEF VisitsAreConserved
<1>5. LineageSafe
  BY LineageIsSafe
<1>6. QED
  BY <1>3, <1>4, <1>5 DEF TreeIsSound

(* The arena of the tree and the ring of its retriever, of any width, depth, *)
(* capacity and number of simulations: every visit is accounted for, and     *)
(* what is retrieved for a node are the latest of its true ancestors.        *)
THEOREM TreeStaysSound == SearchSpec => []TreeIsSound
<1>1. SearchInv => TreeIsSound
  BY SearchInvIsSound
<1>2. QED
  BY <1>1, SearchInductive, PTL

-----------------------------------------------------------------------------
(* Lines of descent in an archive.                                         *)

(* A set that has every number below which it has all has every number.    *)
LEMMA FromBelow ==
    ASSUME NEW T, \A n \in Nat : (\A m \in Nat : m < n => m \in T) => n \in T
    PROVE  \A n \in Nat : n \in T
<1> SUFFICES ASSUME NEW z \in Nat, z \notin T PROVE FALSE
  OBVIOUS
<1>1. PICK x \in Nat \ T : \A y \in Nat \ T : x <= y
  <2>1. Nat \ T \in SUBSET Nat /\ Nat \ T # {}
    OBVIOUS
  <2>2. QED
    BY <2>1, Least
<1>2. \A m \in Nat : m < x => m \in T
  BY <1>1
<1>3. QED
  BY <1>1, <1>2

(* Every record is proposed from an earlier one, or from none.             *)
Descending(archive) ==
    \A k \in DOMAIN archive : archive[k].parent_id \in 0 .. k - 1

LEMMA DescentStep ==
    ASSUME NEW n \in Nat, NEW archive, DOMAIN archive = 1 .. n, Descending(archive),
           NEW i \in 1 .. n, NEW k \in 1 .. n
    PROVE  k \in Descendants(archive, i)
               <=> k = i \/ archive[k].parent_id \in Descendants(archive, i)
<1> DEFINE D == Descendants(archive, i)
           Closed(S) == i \in S /\ \A c \in 1 .. n : archive[c].parent_id \in S => c \in S
<1>1. D = {c \in 1 .. n : \A S \in SUBSET (1 .. n) : Closed(S) => c \in S}
  BY DEF Descendants
<1> HIDE DEF D
<1>2. Closed(D)
  BY <1>1
<1>3. ASSUME k \in D, k # i, archive[k].parent_id \notin D
      PROVE  FALSE
  <2> DEFINE S == D \ {k}
  <2>1. S \in SUBSET (1 .. n) /\ Closed(S)
    BY <1>1, <1>2, <1>3
  <2>2. k \in S
    BY <1>1, <1>3, <2>1
  <2>3. QED
    BY <2>2
<1>4. QED
  BY <1>2, <1>3 DEF D

LEMMA DescentIsInside ==
    ASSUME NEW n \in Nat, NEW archive, DOMAIN archive = 1 .. n, NEW i \in 1 .. n
    PROVE  Descendants(archive, i) \subseteq 1 .. n /\ i \in Descendants(archive, i)
  BY DEF Descendants

(* The line of a record is what the walk over its parents passes.          *)
Walked(archive, n, f) ==
    f = [j \in 0 .. n |-> IF j = NoParent THEN {} ELSE {j} \cup f[archive[j].parent_id]]

LEMMA WalkIsDescent ==
    ASSUME NEW n \in Nat, NEW archive, DOMAIN archive = 1 .. n, Descending(archive), NEW f,
           Walked(archive, n, f)
    PROVE  \A j \in 0 .. n : f[j] = {a \in 1 .. n : j \in Descendants(archive, a)}
<1> DEFINE Above(j) == {a \in 1 .. n : j \in Descendants(archive, a)}
           T == {j \in Nat : j <= n => f[j] = Above(j)}
<1>0. \A j \in 0 .. n : f[j] = IF j = NoParent THEN {} ELSE {j} \cup f[archive[j].parent_id]
  BY DEF Walked
<1>1. ASSUME NEW j \in Nat, \A m \in Nat : m < j => m \in T
      PROVE  j \in T
  <2> SUFFICES ASSUME j <= n PROVE f[j] = Above(j)
    OBVIOUS
  <2>0. j \in 0 .. n
    OBVIOUS
  <2>1. f[j] = IF j = NoParent THEN {} ELSE {j} \cup f[archive[j].parent_id]
    BY <1>0, <2>0, Zenon
  <2>2. CASE j = 0
    <3>1. f[j] = {}
      BY <2>1, <2>2 DEF NoParent
    <3>2. \A a \in 1 .. n : 0 \notin Descendants(archive, a)
      BY DescentIsInside
    <3>3. QED
      BY <2>2, <3>1, <3>2
  <2>3. CASE j # 0
    <3> DEFINE p == archive[j].parent_id
    <3>1. j \in 1 .. n /\ p \in 0 .. j - 1
      BY <2>3 DEF Descending
    <3> HIDE DEF p
    <3>2. f[p] = Above(p)
      BY <1>1, <3>1
    <3>3. f[j] = {j} \cup Above(p)
      BY <2>1, <2>3, <3>2 DEF p, NoParent
    <3>4. \A a \in 1 .. n : j \in Descendants(archive, a)
                                <=> j = a \/ p \in Descendants(archive, a)
      BY <3>1, DescentStep DEF p
    <3>5. QED
      BY <3>1, <3>3, <3>4
  <2>4. QED
    BY <2>2, <2>3
<1>2. \A j \in Nat : j \in T
  <2> HIDE DEF T
  <2>1. QED
    BY <1>1, FromBelow
<1>3. QED
  BY <1>2

LEMMA ParentsWalked ==
    ASSUME NEW n \in Nat, NEW archive, DOMAIN archive = 1 .. n, Descending(archive)
    PROVE  \E f : Walked(archive, n, f)
<1> DEFINE Above(j) == {a \in 1 .. n : j \in Descendants(archive, a)}
           f == [j \in 0 .. n |-> Above(j)]
           g == [j \in 0 .. n |->
                    IF j = NoParent THEN {} ELSE {j} \cup f[archive[j].parent_id]]
<1>1. ASSUME NEW j \in 0 .. n
      PROVE  f[j] = g[j]
  <2>1. CASE j = 0
    <3>1. \A a \in 1 .. n : 0 \notin Descendants(archive, a)
      BY DescentIsInside
    <3>2. Above(0) = {}
      BY <3>1
    <3>3. QED
      BY <2>1, <3>2 DEF NoParent
  <2>2. CASE j # 0
    <3> DEFINE p == archive[j].parent_id
    <3>1. j \in 1 .. n /\ p \in 0 .. n
      BY <2>2 DEF Descending
    <3>2. f[p] = Above(p) /\ f[j] = Above(j)
      BY <3>1
    <3>3. g[j] = {j} \cup f[p]
      BY <2>2 DEF NoParent
    <3>4. \A a \in 1 .. n : j \in Descendants(archive, a)
                                <=> j = a \/ p \in Descendants(archive, a)
      BY <3>1, DescentStep
    <3> HIDE DEF f, g, p
    <3>5. QED
      BY <3>1, <3>2, <3>3, <3>4
  <2>3. QED
    BY <2>1, <2>2
<1>2. f = g
  <2>1. f = [j \in 0 .. n |-> f[j]] /\ g = [j \in 0 .. n |-> g[j]]
    OBVIOUS
  <2> HIDE DEF f, g
  <2>2. QED
    BY <1>1, <2>1
<1>3. Walked(archive, n, f)
  BY <1>2 DEF Walked
<1>4. QED
  BY <1>3

LEMMA LineIsDescent ==
    ASSUME NEW n \in Nat, Len(records) = n, DOMAIN records = 1 .. n, Descending(records),
           NEW i \in 0 .. n
    PROVE  Line(i) = {a \in 1 .. n : i \in Descendants(records, a)}
<1> DEFINE f == CHOOSE f : Walked(records, n, f)
<1>1. Walked(records, n, f)
  BY ParentsWalked
<1>2. Line(i) = f[i]
  BY DEF Line, Walked
<1> HIDE DEF f
<1>3. QED
  BY <1>1, <1>2, WalkIsDescent

(* One record more: those that were there keep their parents and scores.   *)
OneMore(n, s, t) ==
    /\ Len(s) = n /\ DOMAIN s = 1 .. n /\ Len(t) = n + 1 /\ DOMAIN t = 1 .. n + 1
    /\ \A k \in 1 .. n : /\ t[k].parent_id = s[k].parent_id
                         /\ s[k].score \in Int /\ t[k].score = s[k].score
    /\ t[n + 1].score \in Int

(* It descends from whatever its parent descends from.                     *)
LEMMA DescentGrows ==
    ASSUME NEW n \in Nat, NEW s, NEW t, OneMore(n, s, t), Descending(s), Descending(t)
    PROVE  /\ \A i \in 1 .. n :
                  Descendants(t, i) = Descendants(s, i)
                      \cup IF t[n + 1].parent_id \in Descendants(s, i) THEN {n + 1} ELSE {}
           /\ Descendants(t, n + 1) = {n + 1}
<1>a. /\ DOMAIN s = 1 .. n /\ DOMAIN t = 1 .. n + 1
      /\ \A k \in 1 .. n : t[k].parent_id = s[k].parent_id
  BY DEF OneMore
<1> USE <1>a
<1> DEFINE p == t[n + 1].parent_id
<1>0. n + 1 \in Nat /\ n + 1 \in 1 .. n + 1 /\ p \in 0 .. n
      /\ \A k \in 1 .. n : k \in 1 .. n + 1 /\ s[k].parent_id \in 0 .. k - 1
  <2>1. n + 1 \in Nat /\ n + 1 \in 1 .. n + 1 /\ (n + 1) - 1 = n
        /\ \A k \in 1 .. n : k \in 1 .. n + 1
    OBVIOUS
  <2>2. p \in 0 .. (n + 1) - 1
    BY <2>1 DEF Descending
  <2>3. \A k \in 1 .. n : s[k].parent_id \in 0 .. k - 1
    BY DEF Descending
  <2> HIDE DEF p
  <2>4. QED
    BY <2>1, <2>2, <2>3
<1>1. ASSUME NEW i \in 1 .. n
      PROVE  Descendants(t, i) = Descendants(s, i)
                 \cup IF p \in Descendants(s, i) THEN {n + 1} ELSE {}
  <2> DEFINE C == Descendants(s, i)
             D == Descendants(t, i)
             T == {k \in Nat : k <= n => (k \in D <=> k \in C)}
  <2>1. C \subseteq 1 .. n /\ D \subseteq 1 .. n + 1 /\ i \in 1 .. n + 1
    BY <1>0, DescentIsInside
  <2>2. \A k \in 1 .. n : k \in C <=> k = i \/ s[k].parent_id \in C
    BY DescentStep
  <2>3. \A k \in 1 .. n + 1 : k \in D <=> k = i \/ t[k].parent_id \in D
    BY <1>0, DescentStep
  <2> HIDE DEF C, D
  <2>4. ASSUME NEW k \in Nat, \A m \in Nat : m < k => m \in T
        PROVE  k \in T
    <3> SUFFICES ASSUME k <= n PROVE k \in D <=> k \in C
      OBVIOUS
    <3>1. CASE k = 0
      BY <2>1, <3>1
    <3>2. CASE k # 0
      <4> DEFINE r == s[k].parent_id
      <4>1. k \in 1 .. n /\ k \in 1 .. n + 1
        BY <3>2
      <4>2. r \in 0 .. k - 1 /\ t[k].parent_id = r
        BY <1>0, <4>1
      <4> HIDE DEF r
      <4>3. r \in D <=> r \in C
        BY <2>4, <4>1, <4>2
      <4>4. (k \in D <=> k = i \/ r \in D) /\ (k \in C <=> k = i \/ r \in C)
        BY <2>2, <2>3, <4>1, <4>2 DEF r
      <4>5. QED
        BY <4>3, <4>4
    <3>3. QED
      BY <3>1, <3>2
  <2>5. \A k \in Nat : k \in T
    <3> HIDE DEF T
    <3>1. QED
      BY <2>4, FromBelow
  <2>6. \A k \in 0 .. n : k \in D <=> k \in C
    BY <2>5
  <2>7. n + 1 \in D <=> p \in C
    <3>1. n + 1 # i
      OBVIOUS
    <3>2. n + 1 \in D <=> p \in D
      BY <1>0, <2>3, <3>1
    <3> HIDE DEF p
    <3>3. QED
      BY <1>0, <2>6, <3>2
  <2>8. \A k : k \in D => k \in 1 .. n \/ k = n + 1
    BY <2>1
  <2> HIDE DEF p
  <2>9. D = C \cup IF p \in C THEN {n + 1} ELSE {}
    <3>1. ASSUME NEW k
          PROVE  k \in D <=> k \in C \/ (k = n + 1 /\ p \in C)
      <4>1. CASE k \in 1 .. n
        BY <2>6, <4>1
      <4>2. CASE k = n + 1
        <5>1. k \notin C
          BY <2>1, <4>2
        <5>2. QED
          BY <2>7, <4>2, <5>1
      <4>3. CASE k \notin 1 .. n /\ k # n + 1
        BY <2>1, <2>8, <4>3
      <4>4. QED
        BY <4>1, <4>2, <4>3
    <3>2. QED
      BY <3>1
  <2>10. QED
    BY <2>9 DEF C, D
<1>2. Descendants(t, n + 1) = {n + 1}
  <2> DEFINE D == Descendants(t, n + 1)
             T == {k \in Nat : k <= n => k \notin D}
  <2>1. D \subseteq 1 .. n + 1 /\ n + 1 \in D
    BY <1>0, DescentIsInside
  <2>2. \A k \in 1 .. n + 1 : k \in D <=> k = n + 1 \/ t[k].parent_id \in D
    BY <1>0, DescentStep
  <2> HIDE DEF D
  <2>3. ASSUME NEW k \in Nat, \A m \in Nat : m < k => m \in T
        PROVE  k \in T
    <3> SUFFICES ASSUME k <= n PROVE k \notin D
      OBVIOUS
    <3>1. CASE k = 0
      BY <2>1, <3>1
    <3>2. CASE k # 0
      <4> DEFINE r == s[k].parent_id
      <4>1. k \in 1 .. n /\ k \in 1 .. n + 1 /\ k # n + 1
        BY <3>2
      <4>2. r \in 0 .. k - 1 /\ t[k].parent_id = r
        BY <1>0, <4>1
      <4> HIDE DEF r
      <4>3. r \notin D
        BY <2>3, <4>1, <4>2
      <4>4. QED
        BY <2>2, <4>1, <4>2, <4>3
    <3>3. QED
      BY <3>1, <3>2
  <2>4. \A k \in Nat : k \in T
    <3> HIDE DEF T
    <3>1. QED
      BY <2>3, FromBelow
  <2>5. \A k \in 1 .. n : k \notin D
    BY <2>4
  <2>6. D = {n + 1}
    <3>1. \A k \in D : k \in 1 .. n \/ k = n + 1
      BY <2>1
    <3>2. QED
      BY <2>1, <2>5, <3>1
  <2>7. QED
    BY <2>6 DEF D
<1>3. QED
  BY <1>1, <1>2

-----------------------------------------------------------------------------
(* What a part of an archive has earned.                                   *)

Summed(archive, ids, n, f) ==
    f = [k \in 0 .. n |->
            IF k = 0 THEN 0 ELSE f[k - 1] + (IF k \in ids THEN archive[k].score ELSE 0)]

LEMMA SummedExists ==
    ASSUME NEW archive, NEW ids, NEW n \in Nat
    PROVE  \E f : Summed(archive, ids, n, f)
<1> DEFINE Gain(k) == IF k \in ids THEN archive[k].score ELSE 0
           T == {k \in Nat : \E f : Summed(archive, ids, k, f)}
<1>1. Summed(archive, ids, 0, [k \in 0 .. 0 |-> 0])
  BY DEF Summed
<1>2. ASSUME NEW m \in Nat, NEW f, Summed(archive, ids, m, f)
      PROVE  \E g : Summed(archive, ids, m + 1, g)
  <2> DEFINE g == [k \in 0 .. m + 1 |-> IF k <= m THEN f[k] ELSE f[m] + Gain(m + 1)]
             h == [k \in 0 .. m + 1 |-> IF k = 0 THEN 0 ELSE g[k - 1] + Gain(k)]
  <2>1. \A k \in 0 .. m : f[k] = IF k = 0 THEN 0 ELSE f[k - 1] + Gain(k)
    BY <1>2 DEF Summed
  <2>2. ASSUME NEW k \in 0 .. m + 1
        PROVE  g[k] = h[k]
    <3>1. CASE k = 0
      BY <2>1, <3>1
    <3>2. CASE k \in 1 .. m
      <4>1. k - 1 \in 0 .. m + 1 /\ k - 1 <= m /\ k \in 0 .. m /\ k <= m /\ k # 0
        BY <3>2
      <4>2. g[k] = f[k] /\ g[k - 1] = f[k - 1] /\ h[k] = g[k - 1] + Gain(k)
        BY <4>1
      <4>3. f[k] = f[k - 1] + Gain(k)
        BY <2>1, <4>1
      <4> HIDE DEF g, h, Gain
      <4>4. QED
        BY <4>2, <4>3
    <3>3. CASE k = m + 1
      <4>1. k - 1 = m /\ k # 0 /\ ~(k <= m) /\ m \in 0 .. m + 1
        BY <3>3
      <4>2. g[k] = f[m] + Gain(k) /\ g[m] = f[m] /\ h[k] = g[k - 1] + Gain(k)
        BY <3>3, <4>1
      <4> HIDE DEF g, h, Gain
      <4>3. QED
        BY <4>1, <4>2
    <3>4. QED
      BY <3>1, <3>2, <3>3
  <2>3. g = h
    <3>1. g = [k \in 0 .. m + 1 |-> g[k]] /\ h = [k \in 0 .. m + 1 |-> h[k]]
      OBVIOUS
    <3> HIDE DEF g, h
    <3>2. QED
      BY <2>2, <3>1
  <2>4. Summed(archive, ids, m + 1, g)
    BY <2>3 DEF Summed
  <2>5. QED
    BY <2>4
<1>3. ASSUME NEW k \in Nat, \A m \in Nat : m < k => m \in T
      PROVE  k \in T
  <2>1. CASE k = 0
    BY <1>1, <2>1
  <2>2. CASE k # 0
    <3>1. k - 1 \in Nat /\ (k - 1) + 1 = k /\ k - 1 \in T
      BY <1>3, <2>2
    <3>2. QED
      BY <1>2, <3>1
  <2>3. QED
    BY <2>1, <2>2
<1>4. \A k \in Nat : k \in T
  <2> HIDE DEF T
  <2>1. QED
    BY <1>3, FromBelow
<1>5. QED
  BY <1>4

Adding(archive, ids, n, f) ==
    /\ f[0] = 0
    /\ \A k \in 1 .. n : f[k] = f[k - 1] + (IF k \in ids THEN archive[k].score ELSE 0)

LEMMA EarnedIsSummed ==
    ASSUME NEW archive, NEW ids, NEW n \in Nat, Len(archive) = n
    PROVE  \E f : Earned(archive, ids) = f[n] /\ Adding(archive, ids, n, f)
<1> DEFINE f == CHOOSE f : Summed(archive, ids, n, f)
<1>1. Summed(archive, ids, n, f)
  BY SummedExists
<1>2. Earned(archive, ids) = f[n]
  BY DEF Earned, Summed
<1> HIDE DEF f
<1>3. \A k \in 0 .. n :
          f[k] = IF k = 0 THEN 0 ELSE f[k - 1] + (IF k \in ids THEN archive[k].score ELSE 0)
  BY <1>1 DEF Summed
<1>4. 0 \in 0 .. n /\ \A k \in 1 .. n : k \in 0 .. n /\ k # 0
  OBVIOUS
<1>5. Adding(archive, ids, n, f)
  BY <1>3, <1>4 DEF Adding
<1>6. QED
  BY <1>2, <1>5

(* What a part has earned is a number, and what one record more adds.      *)
LEMMA EarnedGrows ==
    ASSUME NEW n \in Nat, NEW s, NEW t, OneMore(n, s, t), NEW ids, NEW more,
           \A k \in 1 .. n : k \in ids <=> k \in more
    PROVE  /\ Earned(s, ids) \in Int
           /\ Earned(t, more) = Earned(s, ids)
                                    + (IF n + 1 \in more THEN t[n + 1].score ELSE 0)
<1>a. /\ Len(s) = n /\ Len(t) = n + 1 /\ t[n + 1].score \in Int
      /\ \A k \in 1 .. n : s[k].score \in Int /\ t[k].score = s[k].score
  BY DEF OneMore
<1> USE <1>a
<1>1. PICK f : Earned(s, ids) = f[n] /\ Adding(s, ids, n, f)
  BY EarnedIsSummed
<1>2. PICK g : Earned(t, more) = g[n + 1] /\ Adding(t, more, n + 1, g)
  <2>1. n + 1 \in Nat
    OBVIOUS
  <2>2. QED
    BY <2>1, EarnedIsSummed
<1> DEFINE Gain(k) == IF k \in ids THEN s[k].score ELSE 0
           Gains(k) == IF k \in more THEN t[k].score ELSE 0
<1>11. f[0] = 0 /\ \A k \in 1 .. n : f[k] = f[k - 1] + Gain(k)
  BY <1>1 DEF Adding
<1>12. g[0] = 0 /\ \A k \in 1 .. n + 1 : g[k] = g[k - 1] + Gains(k)
  BY <1>2 DEF Adding
<1>3. \A k \in 1 .. n : Gain(k) \in Int /\ Gains(k) = Gain(k)
  OBVIOUS
<1> DEFINE T == {k \in Nat : k <= n => f[k] \in Int /\ g[k] = f[k]}
<1>4. ASSUME NEW k \in Nat, \A m \in Nat : m < k => m \in T
      PROVE  k \in T
  <2> SUFFICES ASSUME k <= n PROVE f[k] \in Int /\ g[k] = f[k]
    OBVIOUS
  <2>1. CASE k = 0
    BY <1>11, <1>12, <2>1
  <2>2. CASE k # 0
    <3>1. k \in 1 .. n /\ k \in 1 .. n + 1 /\ k - 1 \in Nat /\ k - 1 < k /\ k - 1 <= n
      BY <2>2
    <3>2. f[k - 1] \in Int /\ g[k - 1] = f[k - 1]
      BY <1>4, <3>1
    <3> HIDE DEF Gain, Gains
    <3>3. f[k] = f[k - 1] + Gain(k) /\ g[k] = g[k - 1] + Gain(k) /\ Gain(k) \in Int
      BY <1>11, <1>12, <1>3, <3>1
    <3>4. QED
      BY <3>2, <3>3
  <2>3. QED
    BY <2>1, <2>2
<1>5. \A k \in Nat : k \in T
  <2> HIDE DEF T
  <2>1. QED
    BY <1>4, FromBelow
<1>6. f[n] \in Int /\ g[n] = f[n]
  BY <1>5
<1>7. g[n + 1] = g[n] + Gains(n + 1)
  <2>1. n + 1 \in 1 .. n + 1 /\ (n + 1) - 1 = n
    OBVIOUS
  <2> HIDE DEF Gains
  <2>2. QED
    BY <1>12, <2>1
<1>8. QED
  BY <1>1, <1>2, <1>6, <1>7

(* A part that has nothing earns nothing.                                  *)
LEMMA EarnedByNone ==
    ASSUME NEW n \in Nat, NEW s, Len(s) = n, NEW ids, \A k \in 1 .. n : k \notin ids
    PROVE  Earned(s, ids) = 0
<1>1. PICK f : Earned(s, ids) = f[n] /\ Adding(s, ids, n, f)
  BY EarnedIsSummed
<1> DEFINE T == {k \in Nat : k <= n => f[k] = 0}
<1>2. ASSUME NEW k \in Nat, \A m \in Nat : m < k => m \in T
      PROVE  k \in T
  <2> SUFFICES ASSUME k <= n PROVE f[k] = 0
    OBVIOUS
  <2>1. CASE k = 0
    BY <1>1, <2>1 DEF Adding
  <2>2. CASE k # 0
    <3>1. k \in 1 .. n /\ k - 1 \in Nat /\ k - 1 < k /\ k - 1 <= n
      BY <2>2
    <3>2. f[k - 1] = 0
      BY <1>2, <3>1
    <3>3. f[k] = f[k - 1] + 0
      BY <1>1, <3>1 DEF Adding
    <3>4. QED
      BY <3>2, <3>3
  <2>3. QED
    BY <2>1, <2>2
<1>3. \A k \in Nat : k \in T
  <2> HIDE DEF T
  <2>1. QED
    BY <1>2, FromBelow
<1>4. QED
  BY <1>1, <1>3

-----------------------------------------------------------------------------
(* What the validator lets through has no cycle.                           *)

LEMMA ValidIsAcyclic ==
    ASSUME NEW w, Len(w.nodes) \in Nat, Valid(w)
    PROVE  Acyclic(w)
<1> DEFINE n == Len(w.nodes)
           Reached(R) == {x \in Ids(w) : \A e \in Range(w.edges) : e.target = x => e.source \in R}
           Stages(f) == f = [k \in 0 .. n |-> IF k = 0 THEN {} ELSE Reached(f[k - 1])]
           ready == CHOOSE f : Stages(f)
<1>1. \E f : Stages(f)
  <2> DEFINE Upto(m, f) == f = [k \in 0 .. m |-> IF k = 0 THEN {} ELSE Reached(f[k - 1])]
             T == {m \in Nat : \E f : Upto(m, f)}
  <2>1. Upto(0, [k \in 0 .. 0 |-> {}])
    OBVIOUS
  <2>2. ASSUME NEW m \in Nat, NEW f, Upto(m, f)
        PROVE  \E g : Upto(m + 1, g)
    <3> DEFINE g == [k \in 0 .. m + 1 |-> IF k <= m THEN f[k] ELSE Reached(f[m])]
               h == [k \in 0 .. m + 1 |-> IF k = 0 THEN {} ELSE Reached(g[k - 1])]
    <3> HIDE DEF Reached
    <3>1. \A k \in 0 .. m : f[k] = IF k = 0 THEN {} ELSE Reached(f[k - 1])
      BY <2>2
    <3> HIDE DEF Upto
    <3>2. ASSUME NEW k \in 0 .. m + 1
          PROVE  g[k] = h[k]
      <4>1. CASE k = 0
        BY <3>1, <4>1
      <4>2. CASE k \in 1 .. m
        <5>1. k - 1 \in 0 .. m + 1 /\ k - 1 <= m /\ k \in 0 .. m /\ k <= m /\ k # 0
          BY <4>2
        <5>2. g[k] = f[k] /\ g[k - 1] = f[k - 1] /\ h[k] = Reached(g[k - 1])
          BY <5>1
        <5>3. f[k] = Reached(f[k - 1])
          BY <3>1, <5>1
        <5> HIDE DEF g, h
        <5>4. QED
          BY <5>2, <5>3
      <4>3. CASE k = m + 1
        <5>1. k - 1 = m /\ k # 0 /\ ~(k <= m) /\ m \in 0 .. m + 1
          BY <4>3
        <5>2. g[k] = Reached(f[m]) /\ g[m] = f[m] /\ h[k] = Reached(g[k - 1])
          BY <5>1
        <5> HIDE DEF g, h
        <5>3. QED
          BY <5>1, <5>2
      <4>4. QED
        BY <4>1, <4>2, <4>3
    <3>3. g = h
      <4>1. g = [k \in 0 .. m + 1 |-> g[k]] /\ h = [k \in 0 .. m + 1 |-> h[k]]
        OBVIOUS
      <4> HIDE DEF g, h
      <4>2. QED
        BY <3>2, <4>1
    <3>4. Upto(m + 1, g)
      BY <3>3 DEF Upto
    <3>5. QED
      BY <3>4
  <2>3. ASSUME NEW k \in Nat, \A m \in Nat : m < k => m \in T
        PROVE  k \in T
    <3> HIDE DEF Upto
    <3>1. CASE k = 0
      BY <2>1, <3>1
    <3>2. CASE k # 0
      <4>1. k - 1 \in Nat /\ (k - 1) + 1 = k /\ k - 1 \in T
        BY <2>3, <3>2
      <4>2. QED
        BY <2>2, <4>1
    <3>3. QED
      BY <3>1, <3>2
  <2>4. \A k \in Nat : k \in T
    <3> HIDE DEF T
    <3>1. QED
      BY <2>3, FromBelow
  <2>5. \E f : Upto(n, f)
    <3> HIDE DEF Upto
    <3>1. QED
      BY <2>4
  <2>6. QED
    BY <2>5, Zenon
<1>2. Stages(ready)
  <2> HIDE DEF Stages
  <2>1. QED
    BY <1>1
<1>3. Visited(w) = ready[n]
  BY DEF Visited
<1> HIDE DEF ready
<1>4. \A k \in 0 .. n : ready[k] = IF k = 0 THEN {} ELSE Reached(ready[k - 1])
  BY <1>2
<1>5. ready[n] = Ids(w) /\ \A e \in Range(w.edges) : {e.source, e.target} \subseteq Ids(w)
  BY <1>3 DEF Valid
<1>6. ASSUME NEW S \in SUBSET Ids(w), S # {}
      PROVE  \E x \in S : \A e \in Range(w.edges) : e.target = x => e.source \notin S
  <2> DEFINE T == {k \in 0 .. n : ready[k] \cap S # {}}
  <2>1. T \in SUBSET Nat /\ n \in T
    BY <1>5, <1>6
  <2>2. PICK k \in T : \A m \in T : k <= m
    BY <2>1, Least
  <2>3. k \in 0 .. n /\ ready[k] \cap S # {}
    BY <2>2
  <2> HIDE DEF Reached
  <2>4. k # 0
    BY <1>4, <2>3
  <2>5. k - 1 \in 0 .. n /\ ~(k <= k - 1)
    BY <2>3, <2>4
  <2>6. ready[k - 1] \cap S = {}
    BY <2>2, <2>5
  <2>7. ready[k] = Reached(ready[k - 1])
    BY <1>4, <2>3, <2>4
  <2>8. PICK x \in S : x \in Reached(ready[k - 1])
    BY <2>3, <2>7
  <2>9. \A e \in Range(w.edges) : e.target = x => e.source \in ready[k - 1]
    BY <2>8 DEF Reached
  <2>10. QED
    BY <2>6, <2>9
<1>7. QED
  BY <1>5, <1>6 DEF Acyclic

-----------------------------------------------------------------------------
(* The invariant of the search.                                            *)

(* Where it stands: only a search whose initial workflow was scored goes   *)
(* on, an iteration has a parent and room for its result, and no record    *)
(* beats the best.                                                         *)
ArchiveAt ==
    /\ at = "initial" => /\ records = <<>> /\ iterations_used = 0 /\ evaluations = 0
                         /\ rejected = <<>>
    /\ at \in {"select", "propose", "returned"} => records # <<>>
    /\ at = "propose" => /\ parent_id \in DOMAIN records /\ iterations_used >= 1
                         /\ Len(records) < Budget.max_archive_entries
    /\ records # <<>> =>
          /\ best_id \in DOMAIN records
          /\ \A j \in DOMAIN records : records[j].score <= records[best_id].score

AFlowInv == ArchiveIsSound /\ ArchiveAt

RecordType ==
    [workflow : Workflows, score : Scores, parent_id : Nat,
     iteration : 0 .. Budget.max_iterations, visits : Nat \ {0},
     value_sum : -Infinity .. Infinity]

LEMMA AFlowConstants ==
    /\ Budget.max_iterations \in Nat /\ Budget.max_archive_entries \in Nat \ {0}
    /\ Largest \in Nat /\ Infinity = Largest + 1
    /\ \A s \in Scores : s \in Int /\ -Largest <= s /\ s <= Largest
    /\ \A w \in Workflows : w.schema => Len(w.nodes) \in Nat
<1>1. Budget.max_iterations \in Nat /\ Budget.max_archive_entries \in Nat \ {0}
  BY AFlowAssumption DEF ValidBudget
<1>2. /\ Largest \in Nat /\ Infinity = Largest + 1
      /\ \A s \in Scores : s \in Int /\ -Largest <= s /\ s <= Largest
  BY AFlowAssumption DEF Infinity
<1>3. QED
  BY <1>1, <1>2, AFlowAssumption

LEMMA RecordsAre ==
    ASSUME ArchiveTypeOK
    PROVE  /\ records \in Seq(RecordType) /\ Len(records) \in Nat
           /\ DOMAIN records = 1 .. Len(records)
           /\ \A k \in 1 .. Len(records) :
                 /\ records[k] \in RecordType
                 /\ records[k].workflow \in Workflows /\ records[k].score \in Scores
                 /\ records[k].parent_id \in Nat /\ records[k].visits \in Nat
                 /\ records[k].score \in Int
                 /\ records[k].value_sum \in -Infinity .. Infinity
<1>1. records \in Seq(RecordType)
  BY DEF ArchiveTypeOK, RecordType
<1>2. Len(records) \in Nat /\ DOMAIN records = 1 .. Len(records)
      /\ \A k \in 1 .. Len(records) : records[k] \in RecordType
  BY <1>1
<1>3. ASSUME NEW r \in RecordType
      PROVE  /\ r.workflow \in Workflows /\ r.score \in Scores
             /\ r.parent_id \in Nat /\ r.visits \in Nat /\ r.score \in Int
             /\ r.value_sum \in -Infinity .. Infinity
  BY AFlowConstants DEF RecordType
<1>4. QED
  BY <1>1, <1>2, <1>3

(* A finite sum is a sum, whatever came before.                            *)
LEMMA PlusAdds ==
    ASSUME NEW sum \in -Infinity .. Infinity, NEW score \in Scores
    PROVE  /\ Plus(sum, score) \in -Infinity .. Infinity
           /\ ~Infinite(Plus(sum, score)) => ~Infinite(sum) /\ Plus(sum, score) = sum + score
  BY AFlowConstants DEF Plus, Infinite

LEMMA ArchiveDescends ==
    ASSUME ArchiveTypeOK, KeptWorkflows
    PROVE  Descending(records)
  BY RecordsAre DEF KeptWorkflows, Descending

(* What a scored workflow makes of the archive.                            *)
Grown(w, score, n) ==
    /\ n \in Nat /\ parent_id \in 1 .. n /\ OneMore(n, records, records')
    /\ Descending(records) /\ Descending(records')
    /\ records' \in Seq(RecordType)
    /\ \A k \in 1 .. n :
          /\ records'[k].workflow = records[k].workflow
          /\ IF parent_id \in Descendants(records, k)
             THEN /\ records'[k].visits = records[k].visits + 1
                  /\ records'[k].value_sum = Plus(records[k].value_sum, score)
             ELSE /\ records'[k].visits = records[k].visits
                  /\ records'[k].value_sum = records[k].value_sum
    /\ records'[n + 1].workflow = w /\ records'[n + 1].score = score
    /\ records'[n + 1].parent_id = parent_id /\ records'[n + 1].visits = 1
    /\ records'[n + 1].value_sum = score

LEMMA Archived ==
    ASSUME AFlowInv, NEW w \in Workflows, NEW score \in Scores, Archive(w, score)
    PROVE  Grown(w, score, Len(records))
<1> DEFINE n == Len(records)
<1> DEFINE old == Backpropagate(parent_id, score)
           new == Record(w, score, parent_id)
<1>1. /\ ArchiveTypeOK /\ n \in Nat /\ DOMAIN records = 1 .. n /\ Descending(records)
      /\ \A k \in 1 .. n : records[k] \in RecordType
  BY RecordsAre, ArchiveDescends DEF AFlowInv, ArchiveIsSound
<1>11. \A k \in 1 .. n : records[k].score \in Int
  BY <1>1, RecordsAre
<1>2. parent_id \in 1 .. n /\ records' = Append(old, new)
  BY <1>1 DEF AFlowInv, ArchiveAt, Archive
<1>3. \A k \in 1 .. n : k \in Line(parent_id) <=> parent_id \in Descendants(records, k)
  <2>1. parent_id \in 0 .. n
    BY <1>1, <1>2
  <2>2. QED
    BY <1>1, <2>1, LineIsDescent
<1>4. DOMAIN old = 1 .. n
  BY <1>1 DEF Backpropagate
<1>5. ASSUME NEW k \in 1 .. n
      PROVE  /\ old[k] \in RecordType
             /\ old[k].workflow = records[k].workflow
             /\ old[k].score = records[k].score
             /\ old[k].parent_id = records[k].parent_id
             /\ IF parent_id \in Descendants(records, k)
                THEN /\ old[k].visits = records[k].visits + 1
                     /\ old[k].value_sum = Plus(records[k].value_sum, score)
                ELSE /\ old[k].visits = records[k].visits
                     /\ old[k].value_sum = records[k].value_sum
  <2> DEFINE r == records[k]
             more == [r EXCEPT !.visits = @ + 1, !.value_sum = Plus(@, score)]
  <2>1. r \in RecordType
    BY <1>1
  <2>2. old[k] = IF k \in Line(parent_id) THEN more ELSE r
    BY <1>1 DEF Backpropagate
  <2>3. Plus(r.value_sum, score) \in -Infinity .. Infinity
    <3>1. r.value_sum \in -Infinity .. Infinity
      BY <2>1 DEF RecordType
    <3>2. QED
      BY <3>1, PlusAdds
  <2> HIDE DEF r, old
  <2>4. /\ more \in RecordType
        /\ more.workflow = r.workflow /\ more.score = r.score /\ more.parent_id = r.parent_id
        /\ more.visits = r.visits + 1 /\ more.value_sum = Plus(r.value_sum, score)
    <3> DEFINE count == r.visits + 1
               sum == Plus(r.value_sum, score)
    <3>1. count \in Nat \ {0} /\ sum \in -Infinity .. Infinity
      BY <2>1, <2>3 DEF RecordType
    <3>2. more = [r EXCEPT !.visits = count, !.value_sum = sum]
      OBVIOUS
    <3> HIDE DEF count, sum, more
    <3>3. /\ more \in RecordType
          /\ more.workflow = r.workflow /\ more.score = r.score
          /\ more.parent_id = r.parent_id /\ more.visits = count /\ more.value_sum = sum
      BY <2>1, <3>1, <3>2 DEF RecordType
    <3>4. QED
      BY <3>3 DEF count, sum
  <2> HIDE DEF more
  <2>5. /\ old[k] \in RecordType
        /\ old[k].workflow = r.workflow /\ old[k].score = r.score
        /\ old[k].parent_id = r.parent_id
        /\ IF parent_id \in Descendants(records, k)
           THEN /\ old[k].visits = r.visits + 1
                /\ old[k].value_sum = Plus(r.value_sum, score)
           ELSE /\ old[k].visits = r.visits /\ old[k].value_sum = r.value_sum
    BY <2>1, <2>2, <2>4, <1>3
  <2>6. QED
    BY <2>5 DEF r
<1>6. /\ new \in RecordType /\ new.workflow = w /\ new.score = score
      /\ new.parent_id = parent_id /\ new.visits = 1 /\ new.value_sum = score
  <2>1. iterations_used \in 0 .. Budget.max_iterations
    BY <1>1 DEF ArchiveTypeOK
  <2>2. score \in -Infinity .. Infinity /\ parent_id \in Nat /\ 1 \in Nat \ {0}
    BY <1>1, <1>2, AFlowConstants
  <2>3. QED
    BY <2>1, <2>2 DEF Record, RecordType
<1> HIDE DEF old, new, n
<1>7. old \in Seq(RecordType) /\ Len(old) = n
  <2>1. old = [k \in 1 .. n |-> old[k]]
    BY <1>1 DEF old, Backpropagate
  <2>2. old \in [1 .. n -> RecordType]
    BY <2>1, <1>5
  <2>3. old \in Seq(RecordType)
    BY <1>1, <2>2, SeqDef
  <2>4. Len(old) \in Nat /\ 1 .. Len(old) = 1 .. n
    BY <1>4, <2>3, LenProperties
  <2>5. QED
    BY <1>1, <2>3, <2>4
<1>8. /\ records' \in Seq(RecordType) /\ Len(records') = n + 1
      /\ \A k \in 1 .. n : records'[k] = old[k]
      /\ records'[n + 1] = new
  BY <1>1, <1>2, <1>6, <1>7, AppendProperties
<1>9. DOMAIN records' = 1 .. n + 1
  BY <1>8, LenProperties
<1>10. OneMore(n, records, records')
  <2>1. Len(records) = n
    BY DEF n
  <2>2. score \in Int
    BY AFlowConstants
  <2>3. \A k \in 1 .. n : /\ records'[k].parent_id = records[k].parent_id
                          /\ records'[k].score = records[k].score
    BY <1>5, <1>8
  <2>4. records'[n + 1].score \in Int
    BY <1>6, <1>8, <2>2
  <2>5. QED
    BY <1>1, <1>8, <1>9, <1>11, <2>1, <2>3, <2>4 DEF OneMore
<1>12. Descending(records')
  <2>1. \A k \in 1 .. n : records'[k].parent_id \in 0 .. k - 1
    BY <1>1, <1>10 DEF Descending, OneMore
  <2>2. records'[n + 1].parent_id \in 0 .. (n + 1) - 1
    BY <1>1, <1>2, <1>6, <1>8
  <2>3. \A k \in 1 .. n + 1 : k \in 1 .. n \/ k = n + 1
    BY <1>1
  <2>4. QED
    BY <1>9, <2>1, <2>2, <2>3 DEF Descending
<1>13. \A k \in 1 .. n :
          /\ records'[k].workflow = records[k].workflow
          /\ IF parent_id \in Descendants(records, k)
             THEN /\ records'[k].visits = records[k].visits + 1
                  /\ records'[k].value_sum = Plus(records[k].value_sum, score)
             ELSE /\ records'[k].visits = records[k].visits
                  /\ records'[k].value_sum = records[k].value_sum
  BY <1>5, <1>8
<1>14. QED
  BY <1>1, <1>2, <1>6, <1>8, <1>10, <1>12, <1>13 DEF Grown, n

(* A scored workflow is a new one, and so is what is kept.                 *)
LEMMA ArchivedIsKept ==
    ASSUME AFlowInv, NEW w \in Workflows, NEW score \in Scores, Archive(w, score)
    PROVE  KeptWorkflows'
<1> DEFINE n == Len(records)
<1>1. /\ n \in Nat /\ parent_id \in 1 .. n
      /\ Len(records') = n + 1 /\ DOMAIN records' = 1 .. n + 1
      /\ \A k \in 1 .. n : /\ records'[k].workflow = records[k].workflow
                           /\ records'[k].parent_id = records[k].parent_id
      /\ records'[n + 1].workflow = w /\ records'[n + 1].parent_id = parent_id
  BY Archived DEF Grown, OneMore
<1>2. /\ ArchiveTypeOK /\ KeptWorkflows /\ DOMAIN records = 1 .. n
      /\ n < Budget.max_archive_entries /\ w \notin seen /\ seen' = seen \cup {w}
      /\ Valid(w) /\ Budget.max_archive_entries \in Nat
  BY RecordsAre, AFlowConstants DEF AFlowInv, ArchiveIsSound, ArchiveAt, Archive
<1> HIDE DEF n
<1>3. Len(records') <= Budget.max_archive_entries
  BY <1>1, <1>2
<1>4. seen' = {r.workflow : r \in Range(records')}
  <2>1. seen = {records[k].workflow : k \in 1 .. n}
    BY <1>2 DEF KeptWorkflows, Range
  <2>2. {r.workflow : r \in Range(records')} = {records'[k].workflow : k \in 1 .. n + 1}
    BY <1>1 DEF Range
  <2>3. 1 .. n + 1 = (1 .. n) \cup {n + 1}
    BY <1>1
  <2>4. {records'[k].workflow : k \in 1 .. n + 1} = seen \cup {w}
    BY <1>1, <2>1, <2>3
  <2>5. QED
    BY <1>2, <2>2, <2>4
<1>5. Cardinality(seen') = Len(records')
  <2>1. Cardinality(seen) = n /\ seen = {records[k].workflow : k \in 1 .. n}
    BY <1>2 DEF KeptWorkflows, Range, n
  <2>2. IsFiniteSet(1 .. n)
    <3>1. n \in Int /\ 1 \in Int
      BY <1>1
    <3>2. QED
      BY <3>1, FS_Interval
  <2>3. IsFiniteSet(seen)
    <3> DEFINE f == [k \in 1 .. n |-> records[k].workflow]
    <3>1. f \in Surjection(1 .. n, seen)
      BY <2>1 DEF Surjection
    <3>2. QED
      BY <2>2, <3>1, FS_Surjection
  <2>4. QED
    BY <1>1, <1>2, <2>1, <2>3, FS_AddElement
<1>6. \A v \in seen' : Acyclic(v)
  <2>1. Len(w.nodes) \in Nat
    BY <1>2, AFlowConstants DEF Valid
  <2>2. Acyclic(w)
    BY <1>2, <2>1, ValidIsAcyclic
  <2>3. QED
    BY <1>2, <2>2 DEF KeptWorkflows
<1>7. \A i \in DOMAIN records' : /\ records'[i].parent_id < i
                                 /\ records'[i].parent_id = NoParent <=> i = 1
  <2>1. ASSUME NEW i \in 1 .. n
        PROVE  /\ records'[i].parent_id < i
               /\ records'[i].parent_id = NoParent <=> i = 1
    BY <1>1, <1>2 DEF KeptWorkflows
  <2>2. records'[n + 1].parent_id < n + 1 /\ records'[n + 1].parent_id # NoParent /\ n + 1 # 1
    BY <1>1 DEF NoParent
  <2>3. \A i \in 1 .. n + 1 : i \in 1 .. n \/ i = n + 1
    BY <1>1
  <2>4. QED
    BY <1>1, <2>1, <2>2, <2>3
<1>8. QED
  BY <1>3, <1>4, <1>5, <1>6, <1>7 DEF KeptWorkflows

(* Credit goes up by the score where the new record descends from.         *)
LEMMA ArchivedIsCredited ==
    ASSUME AFlowInv, NEW w \in Workflows, NEW score \in Scores, Archive(w, score)
    PROVE  CreditIsTrue'
<1> DEFINE n == Len(records)
           D(i) == Descendants(records, i)
           E(i) == Descendants(records', i)
<1>0. Grown(w, score, n)
  BY Archived
<1>1. /\ n \in Nat /\ parent_id \in 1 .. n /\ OneMore(n, records, records')
      /\ Descending(records) /\ Descending(records')
      /\ \A k \in 1 .. n :
            IF parent_id \in D(k)
            THEN /\ records'[k].visits = records[k].visits + 1
                 /\ records'[k].value_sum = Plus(records[k].value_sum, score)
            ELSE /\ records'[k].visits = records[k].visits
                 /\ records'[k].value_sum = records[k].value_sum
      /\ records'[n + 1].score = score /\ records'[n + 1].parent_id = parent_id
      /\ records'[n + 1].visits = 1 /\ records'[n + 1].value_sum = score
  BY <1>0 DEF Grown
<1>2. /\ CreditIsTrue /\ DOMAIN records = 1 .. n
      /\ \A k \in 1 .. n : records[k].value_sum \in -Infinity .. Infinity
  BY RecordsAre DEF AFlowInv, ArchiveIsSound
<1>3. DOMAIN records' = 1 .. n + 1
  BY <1>1 DEF OneMore
<1>4. /\ \A i \in 1 .. n : E(i) = D(i) \cup IF parent_id \in D(i) THEN {n + 1} ELSE {}
      /\ E(n + 1) = {n + 1}
  <2> HIDE DEF n
  <2>1. /\ \A i \in 1 .. n :
              Descendants(records', i) = Descendants(records, i)
                  \cup IF records'[n + 1].parent_id \in Descendants(records, i)
                       THEN {n + 1} ELSE {}
        /\ Descendants(records', n + 1) = {n + 1}
    BY <1>1, DescentGrows
  <2>2. QED
    BY <1>1, <2>1
<1>5. \A i \in 1 .. n : D(i) \subseteq 1 .. n
  BY <1>1, <1>2, DescentIsInside
<1>6. n + 1 \notin 1 .. n /\ \A k \in 1 .. n : k # n + 1
  BY <1>1
<1>7. Len(records) = n
  OBVIOUS
<1>8. \A i \in 1 .. n : /\ records[i].visits = Cardinality(D(i))
                        /\ \/ Infinite(records[i].value_sum)
                           \/ records[i].value_sum = Earned(records, D(i))
  BY <1>2 DEF CreditIsTrue
<1> HIDE DEF n, D, E
<1>9. ASSUME NEW i \in 1 .. n
      PROVE  records'[i].visits = Cardinality(E(i))
  <2>1. CASE parent_id \in D(i)
    <3>1. E(i) = D(i) \cup {n + 1} /\ n + 1 \notin D(i)
      BY <1>4, <1>5, <1>6, <2>1
    <3>2. IsFiniteSet(D(i))
      <4>1. n \in Int /\ 1 \in Int
        BY <1>1
      <4>2. IsFiniteSet(1 .. n)
        BY <4>1, FS_Interval
      <4>3. QED
        BY <1>5, <4>2, FS_Subset
    <3>3. Cardinality(E(i)) = Cardinality(D(i)) + 1
      BY <3>1, <3>2, FS_AddElement
    <3>4. QED
      BY <1>1, <1>8, <2>1, <3>3
  <2>2. CASE parent_id \notin D(i)
    BY <1>1, <1>4, <1>8, <2>2
  <2>3. QED
    BY <2>1, <2>2
<1>10. ASSUME NEW i \in 1 .. n
       PROVE  /\ Earned(records, D(i)) \in Int
              /\ Earned(records', E(i)) =
                     Earned(records, D(i)) + (IF parent_id \in D(i) THEN score ELSE 0)
  <2>1. \A k \in 1 .. n : k \in D(i) <=> k \in E(i)
    BY <1>4, <1>6
  <2>2. n + 1 \in E(i) <=> parent_id \in D(i)
    BY <1>4, <1>5, <1>6
  <2>3. /\ Earned(records, D(i)) \in Int
        /\ Earned(records', E(i)) = Earned(records, D(i))
              + (IF n + 1 \in E(i) THEN records'[n + 1].score ELSE 0)
    BY <1>1, <2>1, EarnedGrows
  <2>4. QED
    BY <1>1, <2>2, <2>3
<1>11. ASSUME NEW i \in 1 .. n
       PROVE  \/ Infinite(records'[i].value_sum)
              \/ records'[i].value_sum = Earned(records', E(i))
  <2>1. CASE parent_id \in D(i)
    <3>1. records'[i].value_sum = Plus(records[i].value_sum, score)
      BY <1>1, <2>1
    <3>2. ~Infinite(records'[i].value_sum) =>
              /\ ~Infinite(records[i].value_sum)
              /\ records'[i].value_sum = records[i].value_sum + score
      BY <1>2, <3>1, PlusAdds
    <3>3. QED
      BY <1>8, <1>10, <2>1, <3>2
  <2>2. CASE parent_id \notin D(i)
    <3>1. records'[i].value_sum = records[i].value_sum
      BY <1>1, <2>2
    <3>2. Earned(records', E(i)) = Earned(records, D(i))
      BY <1>10, <2>2
    <3>3. QED
      BY <1>8, <3>1, <3>2
  <2>3. QED
    BY <2>1, <2>2
<1>12. /\ records'[n + 1].visits = Cardinality(E(n + 1))
       /\ records'[n + 1].value_sum = Earned(records', E(n + 1))
  <2>1. Cardinality({n + 1}) = 1
    BY FS_Singleton
  <2>2. Earned(records, {}) = 0
    BY <1>1, <1>7, EarnedByNone
  <2>3. \A k \in 1 .. n : k \in {} <=> k \in {n + 1}
    BY <1>6
  <2>4. Earned(records', {n + 1}) = Earned(records, {})
              + (IF n + 1 \in {n + 1} THEN records'[n + 1].score ELSE 0)
    BY <1>1, <2>3, EarnedGrows
  <2>5. score \in Int
    BY AFlowConstants
  <2>6. records'[n + 1].visits = Cardinality(E(n + 1))
    BY <1>1, <1>4, <2>1
  <2>7. records'[n + 1].value_sum = Earned(records', E(n + 1))
    <3>1. Earned(records', E(n + 1)) = Earned(records', {n + 1})
      BY <1>4
    <3>2. Earned(records', {n + 1}) = 0 + score
      BY <1>1, <2>2, <2>4
    <3>3. 0 + score = score /\ records'[n + 1].value_sum = score
      BY <1>1, <2>5
    <3>4. QED
      BY <3>1, <3>2, <3>3
  <2>8. QED
    BY <2>6, <2>7
<1>13. \A i \in 1 .. n + 1 : i \in 1 .. n \/ i = n + 1
  BY <1>1
<1>14. \A i \in 1 .. n + 1 : /\ records'[i].visits = Cardinality(E(i))
                             /\ \/ Infinite(records'[i].value_sum)
                                \/ records'[i].value_sum = Earned(records', E(i))
  BY <1>9, <1>11, <1>12, <1>13
<1>15. QED
  BY <1>3, <1>14 DEF CreditIsTrue, E

(* The evaluations that failed are among the iterations.                   *)
Failed(r) == {i \in DOMAIN r : r[i].reason = "evaluation_error"}

LEMMA FailuresCounted ==
    ASSUME NEW R, NEW r \in Seq(R)
    PROVE  /\ Cardinality(Failed(r)) \in Nat /\ Cardinality(Failed(r)) <= Len(r)
           /\ \A x \in R :
                 Cardinality(Failed(Append(r, x))) =
                     Cardinality(Failed(r)) + (IF x.reason = "evaluation_error" THEN 1 ELSE 0)
<1>1. Len(r) \in Nat /\ DOMAIN r = 1 .. Len(r)
  BY LenProperties
<1>2. IsFiniteSet(1 .. Len(r)) /\ Cardinality(1 .. Len(r)) = Len(r)
  BY <1>1, FS_Interval
<1>3. Failed(r) \subseteq 1 .. Len(r)
  BY <1>1 DEF Failed
<1>4. /\ IsFiniteSet(Failed(r)) /\ Cardinality(Failed(r)) <= Len(r)
      /\ Cardinality(Failed(r)) \in Nat
  BY <1>2, <1>3, FS_Subset, FS_CardinalityType
<1>5. ASSUME NEW x \in R
      PROVE  Cardinality(Failed(Append(r, x))) =
                 Cardinality(Failed(r)) + (IF x.reason = "evaluation_error" THEN 1 ELSE 0)
  <2> DEFINE s == Append(r, x)
  <2>1. s \in Seq(R) /\ Len(s) = Len(r) + 1 /\ s[Len(r) + 1] = x
        /\ \A i \in 1 .. Len(r) : s[i] = r[i]
    BY AppendProperties
  <2>2. DOMAIN s = (1 .. Len(r)) \cup {Len(r) + 1} /\ Len(r) + 1 \notin 1 .. Len(r)
    <3>1. DOMAIN s = 1 .. Len(r) + 1
      BY <2>1, LenProperties
    <3>2. QED
      BY <1>1, <3>1
  <2> HIDE DEF s
  <2>3. Failed(s) = Failed(r) \cup (IF x.reason = "evaluation_error" THEN {Len(r) + 1} ELSE {})
    BY <1>1, <2>1, <2>2 DEF Failed
  <2>4. CASE x.reason = "evaluation_error"
    <3>1. Failed(s) = Failed(r) \cup {Len(r) + 1} /\ Len(r) + 1 \notin Failed(r)
      BY <1>3, <2>2, <2>3, <2>4
    <3>2. Cardinality(Failed(s)) = Cardinality(Failed(r)) + 1
      BY <1>4, <3>1, FS_AddElement
    <3>3. QED
      BY <2>4, <3>2 DEF s
  <2>5. CASE x.reason # "evaluation_error"
    <3>1. Failed(s) = Failed(r)
      BY <2>3, <2>5
    <3>2. QED
      BY <1>4, <2>5, <3>1 DEF s
  <2>6. QED
    BY <2>4, <2>5
<1>6. QED
  BY <1>4, <1>5

(* Who is a promotion: a record that beats all before it.                  *)
Beats(archive) ==
    {i \in DOMAIN archive : \A j \in 1 .. i - 1 : archive[j].score < archive[i].score}

LEMMA AccountOfArchive ==
    ASSUME records # <<>>, Accounted
    PROVE  /\ iterations_used = Len(records) - 1 + Len(rejected)
                  + (IF at = "propose" \/ at = "raised" THEN 1 ELSE 0)
           /\ evaluations = Len(records) + Cardinality(Failed(rejected))
           /\ Range(promotions) = Beats(records) /\ best_id = Last(promotions)
  BY DEF Accounted, Failed, Beats

(* A new record is promoted if it beats the best, which beats all others.  *)
LEMMA BeatsGrows ==
    ASSUME NEW n \in Nat, NEW s, NEW t, OneMore(n, s, t),
           NEW b \in 1 .. n, \A j \in 1 .. n : s[j].score <= s[b].score
    PROVE  Beats(t) = Beats(s) \cup IF t[n + 1].score > s[b].score THEN {n + 1} ELSE {}
<1>a. /\ DOMAIN s = 1 .. n /\ DOMAIN t = 1 .. n + 1 /\ t[n + 1].score \in Int
      /\ \A k \in 1 .. n : s[k].score \in Int /\ t[k].score = s[k].score
  BY DEF OneMore
<1> USE <1>a
<1>1. \A i \in 1 .. n + 1 : i \in 1 .. n \/ i = n + 1
  OBVIOUS
<1>2. ASSUME NEW i \in 1 .. n
      PROVE  i \in 1 .. n + 1 /\ i # n + 1 /\ (i \in Beats(t) <=> i \in Beats(s))
  <2>1. i \in 1 .. n + 1 /\ i # n + 1 /\ \A j \in 1 .. i - 1 : j \in 1 .. n
    OBVIOUS
  <2>2. QED
    BY <2>1 DEF Beats
<1>3. n + 1 \in 1 .. n + 1 /\ (n + 1) - 1 = n /\ n + 1 \notin 1 .. n
  OBVIOUS
<1>4. n + 1 \in Beats(t) <=> \A j \in 1 .. n : t[j].score < t[n + 1].score
  BY <1>3 DEF Beats
<1>5. (\A j \in 1 .. n : t[j].score < t[n + 1].score) <=> t[n + 1].score > s[b].score
  OBVIOUS
<1>6. Beats(t) \subseteq 1 .. n + 1 /\ Beats(s) \subseteq 1 .. n
  BY DEF Beats
<1>7. QED
  BY <1>1, <1>2, <1>3, <1>4, <1>5, <1>6

LEMMA RangeOfAppend ==
    ASSUME NEW R, NEW s \in Seq(R), NEW x
    PROVE  Range(Append(s, x)) = Range(s) \cup {x} /\ Last(Append(s, x)) = x
<1>1. s \in Seq(R \cup {x}) /\ x \in R \cup {x}
  BY SeqMonotonic
<1>2. Len(s) \in Nat /\ DOMAIN s = 1 .. Len(s)
  BY LenProperties
<1> DEFINE t == Append(s, x)
<1>3. /\ t \in Seq(R \cup {x}) /\ Len(t) = Len(s) + 1 /\ t[Len(s) + 1] = x
      /\ \A i \in 1 .. Len(s) : t[i] = s[i]
  BY <1>1, AppendProperties
<1>4. DOMAIN t = 1 .. Len(s) + 1
  BY <1>3, LenProperties
<1> HIDE DEF t
<1>5. 1 .. Len(s) + 1 = (1 .. Len(s)) \cup {Len(s) + 1}
  BY <1>2
<1>6. Range(t) = Range(s) \cup {x}
  BY <1>2, <1>3, <1>4, <1>5 DEF Range
<1>7. Last(t) = x
  BY <1>3 DEF Last
<1>8. QED
  BY <1>6, <1>7 DEF t

LEMMA ArchivedIsAccounted ==
    ASSUME AFlowInv, NEW w \in Workflows, NEW score \in Scores, Archive(w, score)
    PROVE  /\ Accounted' /\ ArchiveAt'
           /\ best_id' \in 1 .. Len(records) + 1 /\ evaluations' \in 0 .. 1 + iterations_used
           /\ promotions' \in Seq(1 .. Len(records) + 1)
<1> DEFINE n == Len(records)
           wins == score > records[best_id].score
<1>0. n \in Nat /\ OneMore(n, records, records') /\ records'[n + 1].score = score
  BY Archived DEF Grown
<1>1. /\ n \in Nat /\ Len(records') = n + 1 /\ DOMAIN records' = 1 .. n + 1
      /\ \A k \in 1 .. n : records'[k].score = records[k].score
      /\ records'[n + 1].score = score
  BY <1>0 DEF OneMore
<1>2. /\ ArchiveTypeOK /\ Accounted /\ DOMAIN records = 1 .. n /\ score \in Int
      /\ \A k \in 1 .. n : records[k].score \in Int
      /\ at = "propose" /\ records # <<>>
      /\ best_id \in 1 .. n /\ \A j \in 1 .. n : records[j].score <= records[best_id].score
      /\ iterations_used \in Nat /\ promotions \in Seq(1 .. n)
  <2>1. ArchiveTypeOK /\ Accounted /\ ArchiveAt /\ at = "propose"
    BY DEF AFlowInv, ArchiveIsSound, Archive
  <2>2. DOMAIN records = 1 .. n /\ \A k \in 1 .. n : records[k].score \in Int
    BY <2>1, RecordsAre
  <2>3. records # <<>> /\ iterations_used \in Nat /\ promotions \in Seq(1 .. n)
    BY <2>1, <2>2, AFlowConstants DEF ArchiveAt, ArchiveTypeOK
  <2>4. QED
    BY <2>1, <2>2, <2>3, AFlowConstants DEF ArchiveAt
<1>3. /\ iterations_used = n - 1 + Len(rejected) + 1
      /\ evaluations = n + Cardinality(Failed(rejected))
      /\ Range(promotions) = Beats(records) /\ best_id = Last(promotions)
  BY <1>2, AccountOfArchive
<1>4. /\ Len(rejected) \in Nat /\ Cardinality(Failed(rejected)) \in Nat
      /\ Cardinality(Failed(rejected)) <= Len(rejected)
  BY <1>2, FailuresCounted, LenProperties DEF ArchiveTypeOK
<1>5. /\ at' = "select" /\ evaluations' = evaluations + 1
      /\ best_id' = IF wins THEN n + 1 ELSE best_id
      /\ promotions' = IF wins THEN Append(promotions, n + 1) ELSE promotions
      /\ rejected' = rejected /\ iterations_used' = iterations_used
  BY DEF Archive
<1>6. records' # <<>>
  BY <1>1
<1>7. Beats(records') = Beats(records) \cup IF wins THEN {n + 1} ELSE {}
  <2> HIDE DEF n
  <2>1. Beats(records') = Beats(records)
            \cup IF records'[n + 1].score > records[best_id].score THEN {n + 1} ELSE {}
    BY <1>0, <1>2, BeatsGrows
  <2>2. QED
    BY <1>0, <2>1
<1> HIDE DEF n
<1>8. Range(promotions') = Beats(records') /\ best_id' = Last(promotions')
  <2>1. CASE wins
    <3>1. promotions' = Append(promotions, n + 1) /\ best_id' = n + 1
      BY <1>5, <2>1
    <3>2. Range(promotions') = Range(promotions) \cup {n + 1} /\ Last(promotions') = n + 1
      BY <1>2, <3>1, RangeOfAppend
    <3>3. QED
      BY <1>3, <1>7, <2>1, <3>1, <3>2
  <2>2. CASE ~wins
    BY <1>3, <1>5, <1>7, <2>2
  <2>3. QED
    BY <2>1, <2>2
<1>9. /\ iterations_used' = Len(records') - 1 + Len(rejected')
      /\ evaluations' = Len(records') + Cardinality(Failed(rejected'))
      /\ evaluations' \in 0 .. 1 + iterations_used
  <2> DEFINE c == Cardinality(Failed(rejected))
  <2>1. /\ iterations_used' = iterations_used /\ Len(rejected') = Len(rejected)
        /\ evaluations' = evaluations + 1 /\ Cardinality(Failed(rejected')) = c
    BY <1>5
  <2>2. evaluations = n + c /\ c \in Nat /\ c <= Len(rejected)
    BY <1>3, <1>4
  <2> HIDE DEF c
  <2>3. n \in Nat /\ Len(records') = n + 1 /\ Len(rejected) \in Nat
        /\ iterations_used = n - 1 + Len(rejected) + 1
    BY <1>1, <1>3, <1>4
  <2>4. iterations_used' = Len(records') - 1 + Len(rejected')
    BY <2>1, <2>3
  <2>5. evaluations' = Len(records') + Cardinality(Failed(rejected'))
    BY <2>1, <2>2, <2>3
  <2>6. evaluations' \in 0 .. 1 + iterations_used
    BY <2>1, <2>2, <2>3
  <2>7. QED
    BY <2>4, <2>5, <2>6
<1>10. /\ best_id' \in 1 .. n + 1
       /\ \A j \in 1 .. n + 1 : records'[j].score <= records'[best_id'].score
  <2>1. \A j \in 1 .. n + 1 : j \in 1 .. n \/ j = n + 1
    BY <1>1
  <2>2. CASE wins
    <3>1. best_id' = n + 1 /\ score > records[best_id].score /\ n + 1 \in 1 .. n + 1
      <4>1. n + 1 \in 1 .. n + 1
        BY <1>1
      <4>2. best_id' = n + 1
        BY <1>5, <2>2
      <4>3. QED
        BY <2>2, <4>1, <4>2
    <3>2. \A j \in 1 .. n : records[j].score <= score
      BY <1>2, <3>1
    <3>3. ASSUME NEW j \in 1 .. n + 1
          PROVE  records'[j].score <= score
      <4>1. CASE j \in 1 .. n
        BY <1>1, <3>2, <4>1
      <4>2. CASE j = n + 1
        BY <1>1, <1>2, <4>2
      <4>3. QED
        BY <2>1, <4>1, <4>2
    <3>4. QED
      BY <1>1, <3>1, <3>3
  <2>3. CASE ~wins
    <3>1. best_id' = best_id /\ best_id \in 1 .. n
      BY <1>2, <1>5, <2>3
    <3>2. score <= records[best_id].score
      BY <1>2, <2>3
    <3>3. ASSUME NEW j \in 1 .. n + 1
          PROVE  records'[j].score <= records[best_id].score
      <4>1. CASE j \in 1 .. n
        BY <1>1, <1>2, <4>1
      <4>2. CASE j = n + 1
        BY <1>1, <3>2, <4>2
      <4>3. QED
        BY <2>1, <4>1, <4>2
    <3>4. records'[best_id] = records'[best_id'] /\ best_id \in 1 .. n + 1
          /\ records'[best_id].score = records[best_id].score
      BY <1>1, <3>1
    <3>5. QED
      BY <3>1, <3>3, <3>4
  <2>4. QED
    BY <2>2, <2>3
<1>11. ArchiveAt'
  BY <1>1, <1>5, <1>6, <1>10 DEF ArchiveAt
<1>12. Accounted'
  <2>1. /\ iterations_used' = Len(records') - 1 + Len(rejected') + 0
        /\ evaluations' = Len(records') + Cardinality(Failed(rejected'))
        /\ Range(promotions') = Beats(records') /\ best_id' = Last(promotions')
    <3>1. Len(records') - 1 + Len(rejected') \in Int
      BY <1>1, <1>4, <1>5
    <3>2. QED
      BY <1>8, <1>9, <3>1
  <2>2. at' = "select"
    BY <1>5
  <2>3. QED
    BY <2>1, <2>2 DEF Accounted, Failed, Beats
<1>13. promotions' \in Seq(1 .. n + 1)
  <2>1. 1 .. n \subseteq 1 .. n + 1 /\ n + 1 \in 1 .. n + 1
    BY <1>1
  <2>2. promotions \in Seq(1 .. n + 1)
    BY <1>2, <2>1, SeqMonotonic
  <2>3. Append(promotions, n + 1) \in Seq(1 .. n + 1)
    BY <2>1, <2>2, AppendProperties
  <2>4. QED
    BY <1>5, <2>2, <2>3
<1>14. QED
  BY <1>9, <1>10, <1>11, <1>12, <1>13 DEF n

-----------------------------------------------------------------------------
(* The steps of the search.                                                *)

LEMMA AFlowStarts ==
    ASSUME AFlowInit
    PROVE  AFlowInv
<1>1. ArchiveTypeOK
  <2>1. /\ records = <<>> /\ promotions = <<>> /\ rejected = <<>>
        /\ seen = {} /\ best_id = 0 /\ parent_id = 0 /\ evaluations = 0
        /\ iterations_used = 0 /\ at = "initial" /\ stop_reason = "none"
    BY DEF AFlowInit, NoParent
  <2>2. Len(records) = 0
    BY <2>1
  <2>3. 0 \in 0 .. 1 + Budget.max_iterations /\ 0 \in 0 .. Budget.max_iterations
    BY AFlowConstants
  <2>4. QED
    BY <2>1, <2>2, <2>3, EmptySeq DEF ArchiveTypeOK
<1>2. KeptWorkflows
  <2>1. records = <<>> /\ seen = {} /\ Len(records) = 0 /\ DOMAIN records = {}
    BY DEF AFlowInit
  <2>2. Cardinality(seen) = 0
    BY <2>1, FS_EmptySet
  <2>3. QED
    BY <2>1, <2>2, AFlowConstants DEF KeptWorkflows, Range
<1>3. CreditIsTrue /\ Accounted /\ ArchiveAt
  BY DEF AFlowInit, CreditIsTrue, Accounted, ArchiveAt
<1>4. QED
  BY <1>1, <1>2, <1>3 DEF AFlowInv, ArchiveIsSound

(* A first record is its own best.                                         *)
BegunWith(w, score) ==
    /\ at = "initial" /\ at' = "select" /\ Valid(w)
    /\ records' = <<Record(w, score, NoParent)>> /\ seen' = {w} /\ best_id' = 1
    /\ promotions' = <<1>> /\ evaluations' = 1
    /\ UNCHANGED <<rejected, iterations_used, parent_id, stop_reason>>

LEMMA FirstRecord ==
    ASSUME AFlowInv, NEW w \in Workflows, NEW score \in Scores, BegunWith(w, score)
    PROVE  AFlowInv'
<1> USE DEF BegunWith
<1> DEFINE r == Record(w, score, NoParent)
<1>1. /\ ArchiveTypeOK /\ ArchiveAt /\ records = <<>> /\ iterations_used = 0 /\ rejected = <<>>
  BY DEF AFlowInv, ArchiveIsSound, ArchiveAt
<1>2. /\ r \in RecordType /\ r.workflow = w /\ r.score = score /\ r.parent_id = 0
      /\ r.visits = 1 /\ r.value_sum = score
  <2>1. /\ iterations_used \in 0 .. Budget.max_iterations
        /\ score \in -Infinity .. Infinity /\ 1 \in Nat \ {0} /\ NoParent \in Nat
    BY <1>1, AFlowConstants DEF NoParent
  <2>2. r \in RecordType
    BY <2>1 DEF Record, RecordType
  <2>3. QED
    BY <2>2 DEF Record, NoParent
<1> HIDE DEF r
<1>3. /\ records' = <<r>> /\ Len(records') = 1 /\ DOMAIN records' = {1} /\ records'[1] = r
      /\ 1 .. 1 = {1} /\ records' # <<>> /\ Range(records') = {r}
  <2>1. records' = <<r>>
    BY DEF r
  <2>2. Len(<<r>>) = 1 /\ DOMAIN <<r>> = {1} /\ <<r>>[1] = r /\ <<r>> # <<>> /\ 1 .. 1 = {1}
    OBVIOUS
  <2>3. QED
    BY <2>1, <2>2 DEF Range
<1>4. score \in Int
  BY AFlowConstants
<1>5. ArchiveTypeOK'
  <2>1. records' \in Seq(RecordType)
    BY <1>2, <1>3
  <2>2. promotions' \in Seq(DOMAIN records')
    BY <1>3
  <2>3. best_id' \in 0 .. Len(records') /\ parent_id' \in 0 .. Len(records')
    <3>1. Len(records) = 0
      BY <1>1
    <3>2. parent_id = 0
      BY <1>1, <3>1 DEF ArchiveTypeOK
    <3>3. QED
      BY <1>3, <3>2
  <2>4. rejected' = <<>> /\ evaluations' \in 0 .. 1 + Budget.max_iterations
    BY <1>1, AFlowConstants
  <2>5. /\ iterations_used' \in 0 .. Budget.max_iterations
        /\ stop_reason' \in {"none", "archive_budget_exhausted", "iteration_budget_exhausted"}
        /\ seen' \subseteq Workflows /\ at' = "select"
    BY <1>1 DEF ArchiveTypeOK
  <2>6. QED
    BY <2>1, <2>2, <2>3, <2>4, <2>5, EmptySeq DEF ArchiveTypeOK, RecordType
<1>6. KeptWorkflows'
  <2>1. Acyclic(w)
    BY AFlowConstants, ValidIsAcyclic DEF Valid
  <2>2. Cardinality(seen') = 1
    BY FS_Singleton
  <2>3. Len(records') <= Budget.max_archive_entries
    BY <1>3, AFlowConstants
  <2>4. seen' = {x.workflow : x \in Range(records')}
    BY <1>2, <1>3
  <2>5. \A i \in DOMAIN records' : /\ records'[i].parent_id < i
                                   /\ records'[i].parent_id = NoParent <=> i = 1
    BY <1>2, <1>3 DEF NoParent
  <2>6. QED
    BY <1>3, <2>1, <2>2, <2>3, <2>4, <2>5 DEF KeptWorkflows
<1>7. CreditIsTrue'
  <2>1. Descendants(records', 1) = {1}
    BY <1>3 DEF Descendants
  <2>2. Cardinality({1}) = 1
    BY FS_Singleton
  <2>3. Earned(records', {1}) = score
    <3>1. PICK f : Earned(records', {1}) = f[1] /\ Adding(records', {1}, 1, f)
      BY <1>3, EarnedIsSummed
    <3>2. f[0] = 0 /\ f[1] = f[1 - 1] + records'[1].score
      BY <3>1 DEF Adding
    <3>3. QED
      BY <1>2, <1>3, <1>4, <3>1, <3>2
  <2>4. QED
    BY <1>2, <1>3, <2>1, <2>2, <2>3 DEF CreditIsTrue
<1>8. Accounted'
  <2>1. Len(rejected') = 0 /\ DOMAIN rejected' = {}
    BY <1>1
  <2>2. /\ Cardinality({}) = 0
        /\ {i \in DOMAIN rejected' : rejected'[i].reason = "evaluation_error"} = {}
    BY <2>1, FS_EmptySet
  <2>3. Range(promotions') = {1} /\ Last(promotions') = 1
    BY DEF Range, Last
  <2>4. {i \in DOMAIN records' : \A j \in 1 .. i - 1 : records'[j].score < records'[i].score} = {1}
    BY <1>3
  <2>5. QED
    BY <1>1, <1>3, <2>1, <2>2, <2>3, <2>4 DEF Accounted
<1>9. ArchiveAt'
  <2>1. records'[1].score <= records'[1].score
    BY <1>2, <1>3, <1>4
  <2>2. QED
    BY <1>3, <2>1 DEF ArchiveAt
<1>10. QED
  BY <1>5, <1>6, <1>7, <1>8, <1>9 DEF AFlowInv, ArchiveIsSound

LEMMA ArchivedStaysSound ==
    ASSUME AFlowInv, NEW w \in Workflows, NEW score \in Scores, Archive(w, score)
    PROVE  AFlowInv'
<1> DEFINE n == Len(records)
<1>1. /\ n \in Nat /\ records' \in Seq(RecordType)
      /\ Len(records') = n + 1 /\ DOMAIN records' = 1 .. n + 1
  BY Archived DEF Grown, OneMore
<1>2. /\ Accounted' /\ ArchiveAt'
      /\ best_id' \in 1 .. n + 1 /\ evaluations' \in 0 .. 1 + iterations_used
      /\ promotions' \in Seq(1 .. n + 1)
  BY ArchivedIsAccounted
<1>3. /\ ArchiveTypeOK /\ DOMAIN records = 1 .. n /\ at' = "select"
      /\ seen' = seen \cup {w} /\ UNCHANGED <<rejected, iterations_used, parent_id, stop_reason>>
  BY RecordsAre DEF AFlowInv, ArchiveIsSound, Archive
<1> HIDE DEF n
<1>4. ArchiveTypeOK'
  <2>1. parent_id \in 0 .. n /\ iterations_used \in 0 .. Budget.max_iterations
        /\ seen \subseteq Workflows
    BY <1>3 DEF ArchiveTypeOK, n
  <2>2. /\ parent_id' \in 0 .. n + 1 /\ best_id' \in 0 .. n + 1
        /\ evaluations' \in 0 .. 1 + Budget.max_iterations
    BY <1>1, <1>2, <1>3, <2>1, AFlowConstants
  <2>3. rejected' \in Seq([iteration : 1 .. Budget.max_iterations,
                           parent_id : DOMAIN records',
                           reason : {"proposer_error", "invalid_workflow",
                                     "duplicate_workflow", "evaluation_error"}])
    <3>1. DOMAIN records \subseteq DOMAIN records'
      BY <1>1, <1>3
    <3>2. [iteration : 1 .. Budget.max_iterations, parent_id : DOMAIN records,
           reason : {"proposer_error", "invalid_workflow",
                     "duplicate_workflow", "evaluation_error"}]
             \subseteq
          [iteration : 1 .. Budget.max_iterations, parent_id : DOMAIN records',
           reason : {"proposer_error", "invalid_workflow",
                     "duplicate_workflow", "evaluation_error"}]
      BY <3>1
    <3>3. QED
      BY <1>3, <3>2, SeqMonotonic DEF ArchiveTypeOK
  <2>4. stop_reason' \in {"none", "archive_budget_exhausted", "iteration_budget_exhausted"}
    BY <1>3 DEF ArchiveTypeOK
  <2>5. QED
    BY <1>1, <1>2, <1>3, <2>1, <2>2, <2>3, <2>4 DEF ArchiveTypeOK, RecordType
<1>5. QED
  BY <1>2, <1>4, ArchivedIsKept, ArchivedIsCredited DEF AFlowInv, ArchiveIsSound

(* Steps that leave the records alone leave what is known of them.         *)
LEMMA RecordsAlone ==
    ASSUME KeptWorkflows, CreditIsTrue, UNCHANGED <<records, seen>>
    PROVE  KeptWorkflows' /\ CreditIsTrue'
<1>1. KeptWorkflows'
  BY DEF KeptWorkflows
<1>2. CreditIsTrue'
  BY DEF CreditIsTrue
<1>3. QED
  BY <1>1, <1>2

(* An iteration that comes to nothing.                                     *)
LEMMA RejectedStaysSound ==
    ASSUME AFlowInv, at = "propose",
           NEW reason \in {"proposer_error", "invalid_workflow",
                           "duplicate_workflow", "evaluation_error"},
           Reject(reason),
           evaluations' = evaluations + IF reason = "evaluation_error" THEN 1 ELSE 0
    PROVE  AFlowInv'
<1> DEFINE R == [iteration : 1 .. Budget.max_iterations, parent_id : DOMAIN records,
                 reason : {"proposer_error", "invalid_workflow",
                           "duplicate_workflow", "evaluation_error"}]
           x == [iteration |-> iterations_used, parent_id |-> parent_id, reason |-> reason]
<1>1. /\ ArchiveTypeOK /\ KeptWorkflows /\ CreditIsTrue /\ Accounted /\ ArchiveAt
      /\ records # <<>> /\ parent_id \in DOMAIN records
      /\ iterations_used \in 1 .. Budget.max_iterations
      /\ Len(records) \in Nat
  <2>1. iterations_used >= 1 /\ iterations_used \in 0 .. Budget.max_iterations
    BY DEF AFlowInv, ArchiveIsSound, ArchiveAt, ArchiveTypeOK
  <2>2. QED
    BY <2>1, RecordsAre, AFlowConstants DEF AFlowInv, ArchiveIsSound, ArchiveAt
<1>2. rejected \in Seq(R) /\ x \in R /\ x.reason = reason
  BY <1>1 DEF ArchiveTypeOK
<1>3. /\ rejected' = Append(rejected, x) /\ at' = "select"
      /\ UNCHANGED <<records, seen, best_id, promotions, iterations_used, parent_id,
                     stop_reason>>
  BY DEF Reject
<1> HIDE DEF R, x
<1>4. /\ rejected' \in Seq(R) /\ Len(rejected') = Len(rejected) + 1 /\ Len(rejected) \in Nat
  BY <1>2, <1>3, AppendProperties, LenProperties
<1>5. /\ iterations_used = Len(records) - 1 + Len(rejected) + 1
      /\ evaluations = Len(records) + Cardinality(Failed(rejected))
      /\ Range(promotions) = Beats(records) /\ best_id = Last(promotions)
  BY <1>1, AccountOfArchive
<1> DEFINE c == Cardinality(Failed(rejected))
           d == IF reason = "evaluation_error" THEN 1 ELSE 0
<1>6. c \in Nat /\ c <= Len(rejected) /\ Cardinality(Failed(rejected')) = c + d
  BY <1>2, <1>3, FailuresCounted
<1>7. d \in {0, 1} /\ evaluations' = evaluations + d /\ evaluations = Len(records) + c
  BY <1>5
<1> HIDE DEF c, d
<1>8. /\ evaluations' \in 0 .. 1 + Budget.max_iterations
      /\ evaluations' = Len(records) + Cardinality(Failed(rejected'))
      /\ iterations_used = Len(records) - 1 + Len(rejected')
  <2>1. iterations_used \in Nat /\ iterations_used <= Budget.max_iterations
        /\ Len(records) \in Nat /\ Budget.max_iterations \in Nat
    BY <1>1, AFlowConstants
  <2>2. iterations_used = Len(records) - 1 + Len(rejected')
    BY <1>4, <1>5, <2>1
  <2>3. evaluations' = Len(records) + Cardinality(Failed(rejected'))
    BY <1>6, <1>7, <2>1
  <2>4. evaluations' \in 0 .. 1 + Budget.max_iterations
    <3>1. c + d \in Nat /\ c + d <= Len(rejected) + 1 /\ evaluations' = Len(records) + (c + d)
      BY <1>4, <1>6, <1>7, <2>1
    <3>2. Len(records) + (Len(rejected) + 1) = iterations_used + 1
      BY <1>4, <1>5, <2>1
    <3>3. QED
      BY <1>4, <2>1, <3>1, <3>2
  <2>5. QED
    BY <2>2, <2>3, <2>4
<1>9. ArchiveTypeOK'
  BY <1>1, <1>3, <1>4, <1>8 DEF ArchiveTypeOK, R
<1>10. Accounted'
  <2>1. /\ iterations_used' = Len(records') - 1 + Len(rejected') + 0
        /\ evaluations' = Len(records') + Cardinality(Failed(rejected'))
        /\ Range(promotions') = Beats(records') /\ best_id' = Last(promotions')
    <3>1. Len(records) - 1 + Len(rejected') \in Int
      BY <1>1, <1>4
    <3>2. QED
      BY <1>3, <1>5, <1>8, <3>1
  <2>2. at' = "select"
    BY <1>3
  <2>3. QED
    BY <2>1, <2>2 DEF Accounted, Failed, Beats
<1>11. ArchiveAt'
  BY <1>1, <1>3 DEF ArchiveAt
<1>12. QED
  BY <1>1, <1>3, <1>9, <1>10, <1>11, RecordsAlone DEF AFlowInv, ArchiveIsSound

LEMMA ReturnedStaysSound ==
    ASSUME AFlowInv, ReturnResult
    PROVE  AFlowInv'
<1>1. /\ at = "select" /\ at' = "returned"
      /\ stop_reason' \in {"archive_budget_exhausted", "iteration_budget_exhausted"}
      /\ UNCHANGED <<records, seen, best_id, promotions, rejected, evaluations,
                     iterations_used, parent_id>>
  BY DEF ReturnResult
<1>2. ArchiveTypeOK' /\ Accounted' /\ ArchiveAt'
  BY <1>1 DEF AFlowInv, ArchiveIsSound, ArchiveTypeOK, Accounted, ArchiveAt
<1>3. QED
  BY <1>1, <1>2, RecordsAlone DEF AFlowInv, ArchiveIsSound

LEMMA SelectedStaysSound ==
    ASSUME AFlowInv, SelectParent
    PROVE  AFlowInv'
<1>1. /\ at = "select" /\ iterations_used < Budget.max_iterations
      /\ Len(records) < Budget.max_archive_entries
      /\ iterations_used' = iterations_used + 1
      /\ UNCHANGED <<records, seen, best_id, promotions, rejected, evaluations, stop_reason>>
      /\ \/ at' = "raised" /\ parent_id' = parent_id
         \/ at' = "propose" /\ parent_id' \in ParentCandidates
  <2>1. Len(records) \in Nat
    BY RecordsAre DEF AFlowInv, ArchiveIsSound
  <2>2. QED
    BY <2>1, AFlowConstants DEF SelectParent, ArchiveFull
<1>2. /\ ArchiveTypeOK /\ KeptWorkflows /\ CreditIsTrue /\ Accounted /\ ArchiveAt
      /\ records # <<>> /\ DOMAIN records = 1 .. Len(records) /\ Len(records) \in Nat
      /\ iterations_used \in 0 .. Budget.max_iterations
  BY <1>1, RecordsAre DEF AFlowInv, ArchiveIsSound, ArchiveAt, ArchiveTypeOK
<1>3. ParentCandidates \subseteq DOMAIN records
  <2>1. 1 \in DOMAIN records
    BY <1>2 DEF ArchiveAt
  <2>2. QED
    BY <2>1 DEF ParentCandidates
<1>4. /\ iterations_used' \in 1 .. Budget.max_iterations
      /\ parent_id' \in 0 .. Len(records)
      /\ at' = "propose" => parent_id' \in DOMAIN records
  <2>1. iterations_used' \in 1 .. Budget.max_iterations
    BY <1>1, <1>2, AFlowConstants
  <2>2. parent_id \in 0 .. Len(records) /\ DOMAIN records \subseteq 0 .. Len(records)
    BY <1>2 DEF ArchiveTypeOK
  <2>3. CASE at' = "raised" /\ parent_id' = parent_id
    BY <2>1, <2>2, <2>3
  <2>4. CASE at' = "propose" /\ parent_id' \in ParentCandidates
    BY <1>3, <2>1, <2>2, <2>4
  <2>5. QED
    BY <1>1, <2>3, <2>4
<1>5. ArchiveTypeOK'
  BY <1>1, <1>2, <1>4 DEF ArchiveTypeOK
<1>6. Accounted'
  <2>1. /\ iterations_used = Len(records) - 1 + Len(rejected)
        /\ evaluations = Len(records) + Cardinality(Failed(rejected))
        /\ Range(promotions) = Beats(records) /\ best_id = Last(promotions)
    BY <1>1, <1>2, AccountOfArchive, LenProperties DEF ArchiveTypeOK
  <2>2. Len(rejected) \in Nat
    BY <1>2, LenProperties DEF ArchiveTypeOK
  <2>3. iterations_used' = Len(records) - 1 + Len(rejected) + 1
    BY <1>1, <2>1
  <2>4. QED
    BY <1>1, <2>1, <2>3 DEF Accounted, Failed, Beats
<1>7. ArchiveAt'
  BY <1>1, <1>2, <1>4 DEF ArchiveAt
<1>8. QED
  BY <1>1, <1>2, <1>5, <1>6, <1>7, RecordsAlone DEF AFlowInv, ArchiveIsSound

LEMMA BegunStaysSound ==
    ASSUME AFlowInv, NEW w \in Workflows, Begin(w)
    PROVE  AFlowInv'
<1>1. at = "initial" /\ UNCHANGED <<rejected, iterations_used, parent_id, stop_reason>>
  BY DEF Begin
<1>2. CASE at' = "raised" /\ UNCHANGED <<records, seen, best_id, promotions, evaluations>>
  <2>1. records = <<>>
    BY <1>1 DEF AFlowInv, ArchiveAt
  <2>2. ArchiveTypeOK' /\ Accounted' /\ ArchiveAt'
    BY <1>1, <1>2, <2>1 DEF AFlowInv, ArchiveIsSound, ArchiveTypeOK, Accounted, ArchiveAt
  <2>3. QED
    BY <1>2, <2>2, RecordsAlone DEF AFlowInv, ArchiveIsSound
<1>3. CASE /\ Valid(w)
           /\ at' = "select"
           /\ \E score \in Scores : records' = <<Record(w, score, NoParent)>>
           /\ seen' = {w} /\ best_id' = 1 /\ promotions' = <<1>>
           /\ evaluations' = 1
  <2>1. PICK score \in Scores : records' = <<Record(w, score, NoParent)>>
    BY <1>3
  <2>2. QED
    BY <1>1, <1>3, <2>1, FirstRecord DEF BegunWith
<1>4. QED
  BY <1>2, <1>3 DEF Begin

LEMMA AFlowStaysSound ==
    ASSUME AFlowInv, [AFlowNext]_aflowVars
    PROVE  AFlowInv'
<1>1. CASE ReturnResult
  BY <1>1, ReturnedStaysSound
<1>2. CASE SelectParent
  BY <1>2, SelectedStaysSound
<1>3. ASSUME NEW reason \in {"proposer_error", "invalid_workflow", "duplicate_workflow"},
             at = "propose", Reject(reason), UNCHANGED evaluations
      PROVE  AFlowInv'
  <2>1. evaluations \in 0 .. 1 + Budget.max_iterations
    BY DEF AFlowInv, ArchiveIsSound, ArchiveTypeOK
  <2>2. evaluations' = evaluations + IF reason = "evaluation_error" THEN 1 ELSE 0
    BY <1>3, <2>1, AFlowConstants
  <2>3. QED
    BY <1>3, <2>2, RejectedStaysSound
<1>4. CASE ProposerFails
  BY <1>3, <1>4 DEF ProposerFails
<1>5. ASSUME NEW w \in Workflows, Begin(w)
      PROVE  AFlowInv'
  BY <1>5, BegunStaysSound
<1>6. ASSUME NEW w \in Workflows, Refuse(w)
      PROVE  AFlowInv'
  BY <1>3, <1>6 DEF Refuse
<1>7. ASSUME NEW w \in Workflows, EvaluationFails(w)
      PROVE  AFlowInv'
  BY <1>7, RejectedStaysSound DEF EvaluationFails
<1>8. ASSUME NEW w \in Workflows, NEW score \in Scores, Archive(w, score)
      PROVE  AFlowInv'
  BY <1>8, ArchivedStaysSound
<1>9. CASE UNCHANGED aflowVars
  <2>1. UNCHANGED <<records, seen>>
    BY <1>9 DEF aflowVars
  <2>2. ArchiveTypeOK' /\ Accounted' /\ ArchiveAt'
    BY <1>9 DEF aflowVars, AFlowInv, ArchiveIsSound, ArchiveTypeOK, Accounted, ArchiveAt
  <2>3. QED
    BY <2>1, <2>2, RecordsAlone DEF AFlowInv, ArchiveIsSound
<1>10. QED
  BY <1>1, <1>2, <1>4, <1>5, <1>6, <1>7, <1>8, <1>9 DEF AFlowNext

(* The archive that a search of aflow.py builds is sound: it keeps         *)
(* different workflows without cycles within its bound, every record has   *)
(* the credit of itself and all that descends from it, and the iterations, *)
(* evaluations and promotions add up, for every budget and proposer.       *)
THEOREM ArchiveStaysSound == AFlowSpec => []ArchiveIsSound
<1>1. AFlowInit => AFlowInv
  BY AFlowStarts
<1>2. AFlowInv /\ [AFlowNext]_aflowVars => AFlowInv'
  BY AFlowStaysSound
<1>3. AFlowInv => ArchiveIsSound
  BY DEF AFlowInv
<1>4. QED
  BY <1>1, <1>2, <1>3, PTL DEF AFlowSpec
=============================================================================
