--------------------------- MODULE LearningState ---------------------------
(***************************************************************************)
(* What GenesisRuntime learns and saves: the stream state of the swarm     *)
(* (cogni_core/swarm.py), the preallocated pool of experts (experts.py),   *)
(* the FP-EWC snapshots and their domain records (adaptation.py,           *)
(* fp_ewc.py), and checkpoint and restore_checkpoint (cogni_os/runtime.py).*)
(*                                                                         *)
(* Day operations run in an inference slot, night operations in an         *)
(* evolution slot, both under the VRAM guard; checkpoint takes neither.    *)
(* The driver is the thread that walks a night: its checkpoint is the      *)
(* callback of enter_evolution, its restore the one of ROLLING_BACK.  A    *)
(* crash keeps the two files and nothing else.                             *)
(*                                                                         *)
(* Weights are abstracted to whether their operator is contractive, usage  *)
(* to warm or cold against prune_usage_threshold, and an observation       *)
(* stream to how many observations the swarm state has taken in.           *)
(***************************************************************************)
EXTENDS RuntimeGate, SequencesExt

CONSTANTS Workers,      \* threads that use the runtime besides the driver
          Driver,
          MaxExperts, MinExperts, MinimumAge,
          MaxDomains

(* What ExpertConfig and FixedPointDomainLifecycle accept. *)
ValidPool ==
    /\ MaxExperts \in Nat \ {0} /\ MinimumAge \in Nat \ {0}
    /\ MinExperts \in 1..MaxExperts
ValidLifecycle == MaxDomains \in Nat \ {0}

ASSUME LearningAssumption == ValidPool /\ ValidLifecycle /\ Driver \notin Workers

VARIABLES pool,         \* the buffers of the experts
          stream,       \* _swarm_state
          snapshots,    \* regularizer.snapshots, each the domains it anchors
          domains,      \* domains.domains, each the domains its name joins
          unsafe,       \* modules with an operator beyond its margin
          act,          \* where each worker and the driver are
          tmp, file,    \* genesis-state.pt.tmp and genesis-state.pt
          digest,       \* what genesis-state.sha256 is the digest of
          restored,     \* history: snapshots came from a file
          spoiled,      \* history: checkpoints met, or one ended between the two files,
                        \* and none has computed its digest alone since
          learningCalls, crashes    \* bounds

live == <<pool, stream, snapshots, unsafe>>
files == <<tmp, file, digest>>
learningVars == <<live, domains, act, files, restored, spoiled, learningCalls, crashes>>

Actors == Workers \cup {Driver}
Slots == 1..MaxExperts
Idle == [op |-> "idle", at |-> "idle", data |-> None]
Saving == {"write", "replace", "digest", "record"}
BetweenFiles == {"digest", "record"}     \* the new file is there, its digest is not yet
Savers == {c \in Actors : act[c].at \in Saving}

(* What a torch.save that raised leaves of its file; torch.load refuses it. *)
Torn == [pool |-> None, stream |-> 0, snapshots |-> <<>>]

Blank == [on |-> FALSE, age |-> 0, warm |-> FALSE]
Fresh == [Blank EXCEPT !.on = TRUE]
Active(p) == {i \in Slots : p.slot[i].on}
FirstPool == [slot |-> [i \in Slots |-> IF i <= MinExperts THEN Fresh ELSE Blank],
              recruited |-> MinExperts, pruned |-> 0, merged |-> 0]

(* The pool after a start: initial_experts is taken to be min_experts. *)
Started ==
    /\ pool = FirstPool
    /\ stream = 0
    /\ snapshots = <<>>
    /\ domains = <<>>
    /\ unsafe = {}
    /\ act = [c \in Actors |-> Idle]

LearningInit ==
    /\ Started
    /\ tmp = None /\ file = None /\ digest = None
    /\ restored = FALSE
    /\ spoiled = FALSE

(* update_usage_: only a routed expert can get warm, any average may fall, *)
(* everyone active grows older.                                            *)
Used(p, routed, cooled) ==
    [p EXCEPT !.slot = [i \in Slots |->
        IF ~p.slot[i].on THEN p.slot[i]
        ELSE [on |-> TRUE,
              age |-> IF p.slot[i].age < MinimumAge THEN p.slot[i].age + 1 ELSE MinimumAge,
              warm |-> i \notin cooled /\ (i \in routed \/ p.slot[i].warm)]]]

Prunable(p) == {i \in Active(p) : p.slot[i].age >= MinimumAge /\ ~p.slot[i].warm}

Older(e, f) == IF e.age > f.age THEN e.age ELSE f.age
Merges(p) ==
    {m \in [into : Active(p), gone : Active(p), warm : BOOLEAN] :
        /\ m.into < m.gone
        /\ p.slot[m.into].warm \/ p.slot[m.gone].warm => m.warm}

(* Seeded bug: a merge forgets to release the second expert. *)
Maintained_KeepsBoth(p) ==
    IF Cardinality(Active(p)) <= MinExperts THEN {p}
    ELSE IF Prunable(p) # {}
      THEN {[p EXCEPT !.slot[i] = Blank, !.pruned = @ + 1] : i \in Prunable(p)}
      ELSE {[p EXCEPT !.merged = @ + 1]}

(* maintain_(force_merge = True): the coldest expert old enough goes if it *)
(* is cold, else the closest pair becomes one expert in the lower slot.    *)
Maintained(p) ==
    IF Cardinality(Active(p)) <= MinExperts THEN {p}
    ELSE IF Prunable(p) # {}
      THEN {[p EXCEPT !.slot[i] = Blank, !.pruned = @ + 1] : i \in Prunable(p)}
      ELSE {[p EXCEPT !.slot[m.into] = [on |-> TRUE, warm |-> m.warm,
                                        age |-> Older(p.slot[m.into], p.slot[m.gone])],
                      !.slot[m.gone] = Blank,
                      !.merged = @ + 1] : m \in Merges(p)}

(* recruit_ on novel observations: a full pool is maintained first, and    *)
(* the lowest free slot is activated, if there is one.                     *)
Recruited(p) ==
    LET room == IF Cardinality(Active(p)) >= MaxExperts THEN Maintained(p) ELSE {p}
        lowest(q) == CHOOSE i \in Slots \ Active(q) : \A j \in Slots \ Active(q) : i <= j
    IN  {IF Active(q) = Slots THEN q
         ELSE [q EXCEPT !.slot[lowest(q)] = Fresh, !.recruited = @ + 1] : q \in room}

MergeOldest(q) == <<q[1] \cup q[2]>> \o SubSeq(q, 3, Len(q))

(* The regularizer's own consolidate: parameters and squared gradients. *)
Snapped(anchored) == Append(snapshots, anchored)

(* consolidate of a new domain: snapshot and record are appended, then     *)
(* _enforce_domain_budget merges the two oldest of each; with fewer than   *)
(* two records the unpacking raises, the snapshots already merged.         *)
Consolidated ==
    LET known == UNION (ToSet(snapshots) \cup ToSet(domains))
        new == CHOOSE n \in 1..(Cardinality(known) + 1) : n \notin known
        snaps == Snapped({new})
        names == Append(domains, {new})
    IN  IF Len(snaps) <= MaxDomains
          THEN [snapshots |-> snaps, domains |-> names]
          ELSE [snapshots |-> MergeOldest(snaps),
                domains |-> IF Len(names) < 2 THEN names ELSE MergeOldest(names)]

Go(c, at) == act' = [act EXCEPT ![c].at = at]
GoWith(c, at, data) == act' = [act EXCEPT ![c] = [op |-> @.op, at |-> at, data |-> data]]
Return(c) == act' = [act EXCEPT ![c] = Idle]
OneCall == learningCalls > 0 /\ learningCalls' = learningCalls - 1

Call(c, op) ==
    /\ act[c].at = "idle"
    /\ OneCall
    /\ act' = [act EXCEPT ![c] = [op |-> op, at |-> "guard", data |-> None]]
    /\ UNCHANGED <<live, domains, files, restored, spoiled, crashes>>

(* adapt_stream and expert_step enter their slot; recruit_expert,          *)
(* consolidate_domain and an optimizer's task enter theirs.                *)
Work(c) ==
    \/ \E op \in {"adapt", "step"} : Call(c, op) /\ InferenceSlot(c)
    \/ \E op \in {"recruit", "consolidate", "train"} : Call(c, op) /\ EvolutionSlot(c)

(* C-FIRE, the last thing before an operator is applied. *)
SwarmEnsured == unsafe \ {"swarm"}
ExpertsEnsured == unsafe \ {"experts"}

(* Who a batch is routed to with some weight: active experts only. *)
Routes == SUBSET Active(pool) \ {{}}

(* The guard is taken.  The swarm and the experts project their operators  *)
(* first; the swarm reads the stream state, the experts route.             *)
EnterBody(c) ==
    /\ act[c].at = "guard"
    /\ Enforce(c)
    /\ \/ /\ act[c].op = "adapt"
          /\ unsafe' = SwarmEnsured
          /\ GoWith(c, "body", stream)
       \/ /\ act[c].op = "step"
          /\ unsafe' = ExpertsEnsured
          /\ \E routed \in Routes :
               GoWith(c, "body", routed)
       \/ act[c].op \in {"recruit", "consolidate", "train"} /\ Go(c, "body") /\ UNCHANGED unsafe
       \/ act[c].op = "restore" /\ Go(c, "load") /\ UNCHANGED unsafe
    /\ UNCHANGED <<pool, stream, snapshots, domains, files, restored, spoiled,
                   learningCalls, crashes>>

(* The memory of the device, or that of the experts, does not suffice.     *)
NotAdmitted(c) ==
    \/ act[c].at = "guard" /\ guard = None
    \/ act[c].op = "step" /\ act[c].at = "body"

(* What is to be loaded does not fit the runtime: keys, shapes, finiteness *)
(* and DEQ certificates are all checked before the first module is loaded. *)
Misfit(c) == act[c].at = "load"

(* Or the body raises before it has changed anything.                      *)
Rejected(c) ==
    /\ NotAdmitted(c) \/ Misfit(c) \/ act[c].at = "body"
    /\ Leave(c)
    /\ Return(c)
    /\ UNCHANGED <<live, domains, files, restored, spoiled, learningCalls, crashes>>

EndBody(c) ==
    /\ act[c].at = "body"
    /\ Leave(c)
    /\ Return(c)
    /\ UNCHANGED <<files, restored, spoiled, learningCalls, crashes>>

Adapt(c) ==
    /\ act[c].op = "adapt"
    /\ EndBody(c)
    /\ stream' = act[c].data + 1
    /\ UNCHANGED <<pool, snapshots, unsafe, domains>>

ExpertStep(c) ==
    /\ act[c].op = "step"
    /\ EndBody(c)
    /\ \/ \E cooled \in SUBSET Active(pool) : pool' = Used(pool, act[c].data, cooled)
       \/ UNCHANGED pool                               \* track_usage is off
    /\ UNCHANGED <<stream, snapshots, unsafe, domains>>

Recruit(c) ==
    /\ act[c].op = "recruit"
    /\ EndBody(c)
    /\ pool' \in {pool} \cup Recruited(pool)           \* unchanged: nothing novel
    /\ UNCHANGED <<stream, snapshots, unsafe, domains>>

Consolidate(c) ==
    /\ act[c].op = "consolidate"
    /\ EndBody(c)
    /\ snapshots' = Consolidated.snapshots
    /\ domains' = Consolidated.domains
    /\ UNCHANGED <<pool, stream, unsafe>>

(* An optimizer that is not behind optimizer_step. *)
Train(c) ==
    /\ act[c].op = "train"
    /\ EndBody(c)
    /\ unsafe' = {"swarm", "experts"}
    /\ UNCHANGED <<pool, stream, snapshots, domains>>

(* checkpoint, called by a caller in EVOLUTION: no slot, no guard.  The    *)
(* dictionary takes the stream state and the snapshots as they are now,    *)
(* and the buffers of the experts by reference.                            *)
Collect(c) ==
    /\ OneCall
    /\ act' = [act EXCEPT ![c] = [op |-> "checkpoint", at |-> "write",
                                  data |-> [stream |-> stream, snapshots |-> snapshots]]]
    /\ spoiled' = (spoiled \/ Savers \ {c} # {})
    /\ UNCHANGED <<live, domains, files, restored, crashes>>

Checkpoint(c) ==
    /\ act[c].at = "idle"
    /\ mode = "EVOLUTION"
    /\ Collect(c)
    /\ UNCHANGED gateVars

(* enter_evolution, with checkpoint as its callback or with another one. *)
NightFalls ==
    /\ act[Driver].at = "idle"
    /\ BeginNight
    /\ Collect(Driver) \/ UNCHANGED learningVars

SavedElsewhere ==
    /\ act[Driver].at = "idle"
    /\ \E saved \in BOOLEAN : EndCheckpoint(saved)
    /\ UNCHANGED learningVars

(* torch.save: the buffers are read when they are written. *)
WriteTemporary(c) ==
    /\ act[c].at = "write"
    /\ tmp' = [pool |-> pool, stream |-> act[c].data.stream,
               snapshots |-> act[c].data.snapshots]
    /\ Go(c, "replace")
    /\ UNCHANGED <<gateVars, live, domains, file, digest, restored, spoiled,
                   learningCalls, crashes>>

(* os.replace; it raises when another checkpoint has taken the file. *)
ReplaceFile(c) ==
    /\ act[c].at = "replace"
    /\ tmp # None
    /\ file' = tmp /\ tmp' = None
    /\ Go(c, "digest")
    /\ UNCHANGED <<gateVars, live, domains, digest, restored, spoiled, learningCalls,
                   crashes>>

ComputeDigest(c) ==
    /\ act[c].at = "digest"
    /\ GoWith(c, "record", file)
    /\ spoiled' = (spoiled /\ Savers \ {c} # {})
    /\ UNCHANGED <<gateVars, live, domains, files, restored, learningCalls, crashes>>

(* checkpoint returns or raises; enter_evolution goes on, or back. *)
EndSave(c, saved) ==
    /\ Return(c)
    /\ IF c = Driver THEN EndCheckpoint(saved) ELSE UNCHANGED gateVars

RecordDigest(c) ==
    /\ act[c].at = "record"
    /\ digest' = act[c].data
    /\ EndSave(c, TRUE)
    /\ UNCHANGED <<live, domains, tmp, file, restored, spoiled, learningCalls, crashes>>

(* Any of the four steps raises: torch.save leaves a torn file, reading    *)
(* the new file or writing its digest leaves the old digest or none.       *)
SaveFails(c) ==
    /\ act[c].at \in Saving
    /\ IF act[c].at = "write" THEN tmp' \in {tmp, Torn} ELSE UNCHANGED tmp
    /\ IF act[c].at = "record" THEN digest' \in {digest, None} ELSE UNCHANGED digest
    /\ spoiled' = (spoiled \/ act[c].at \in BetweenFiles)
    /\ EndSave(c, FALSE)
    /\ UNCHANGED <<live, domains, file, restored, learningCalls, crashes>>

(* restore_checkpoint: the mode is checked and the file verified ...       *)
Restore(c) ==
    /\ act[c].at = "idle"
    /\ file # None /\ file = digest
    /\ mode = IF c = Driver THEN "ROLLING_BACK" ELSE "EVOLUTION"
    /\ OneCall
    /\ act' = [act EXCEPT ![c] = [op |-> "restore", at |-> "context", data |-> None]]
    /\ UNCHANGED <<gateVars, live, domains, files, restored, spoiled, crashes>>

(* ... and then the file and the mode are read again: a slot in EVOLUTION, *)
(* none in any other mode, INFERENCE included.                             *)
RestoreContext(c) ==
    /\ act[c].at = "context"
    /\ file # Torn
    /\ IF mode = "EVOLUTION" THEN EvolutionSlot(c) ELSE UNCHANGED gateVars
    /\ GoWith(c, "guard", file)
    /\ UNCHANGED <<live, domains, files, restored, spoiled, learningCalls, crashes>>

(* torch.load raises. *)
Unreadable(c) ==
    /\ act[c].at = "context"
    /\ Return(c)
    /\ UNCHANGED <<gateVars, live, domains, files, restored, spoiled, learningCalls,
                   crashes>>

(* The projections of _enforce_restored_contractivity. *)
Reprojected == unsafe \ {"swarm", "experts"}

LoadModules(c) ==
    /\ act[c].at = "load"
    /\ pool' = act[c].data.pool
    /\ Go(c, "reload")
    /\ UNCHANGED <<gateVars, stream, snapshots, unsafe, domains, files, restored,
                   spoiled, learningCalls, crashes>>

(* Stream state and snapshots, but not the domain records. *)
LoadState(c) ==
    /\ act[c].at = "reload"
    /\ stream' = act[c].data.stream
    /\ snapshots' = act[c].data.snapshots
    /\ restored' = TRUE
    /\ unsafe' = Reprojected
    /\ Leave(c)
    /\ Return(c)
    /\ UNCHANGED <<pool, domains, files, spoiled, learningCalls, crashes>>

RollBack ==
    /\ act[Driver].at = "idle"
    /\ BeginRollback
    /\ UNCHANGED learningVars

Morning ==
    /\ act[Driver].at = "idle"
    /\ EndNight
    /\ UNCHANGED learningVars

Crash ==
    /\ crashes > 0
    /\ crashes' = crashes - 1
    /\ spoiled' = (spoiled \/ \E c \in Actors : act[c].at \in BetweenFiles)
    /\ pool' = FirstPool
    /\ stream' = 0
    /\ snapshots' = <<>> /\ domains' = <<>>
    /\ unsafe' = {}
    /\ restored' = FALSE
    /\ act' = [c \in Actors |-> Idle]
    /\ UNCHANGED <<files, learningCalls>>

LearningNext ==
    \/ \E c \in Workers :
         \/ Work(c) \/ Adapt(c) \/ ExpertStep(c) \/ Recruit(c) \/ Consolidate(c) \/ Train(c)
         \/ Checkpoint(c)
    \/ \E c \in Actors :
         \/ EnterBody(c) \/ Rejected(c)
         \/ WriteTemporary(c) \/ ReplaceFile(c) \/ ComputeDigest(c) \/ RecordDigest(c)
         \/ SaveFails(c)
         \/ Restore(c) \/ RestoreContext(c) \/ Unreadable(c) \/ LoadModules(c) \/ LoadState(c)
    \/ NightFalls \/ SavedElsewhere \/ RollBack \/ Morning

LearningTypeOK ==
    /\ unsafe \subseteq {"swarm", "experts"}
    /\ stream \in Nat
    /\ \A c \in Actors :
         /\ act[c].op \in {"idle", "adapt", "step", "recruit", "consolidate", "train",
                           "checkpoint", "restore"}
         /\ act[c].at \in {"idle", "guard", "body", "context", "load", "reload"} \cup Saving

(* Every activation of a slot is accounted for, the pool stays between its *)
(* bounds, a released slot keeps nothing of its expert, and no expert that *)
(* a running step was routed to is released under it.                      *)
PoolIsSound ==
    /\ pool.recruited = Cardinality(Active(pool)) + pool.pruned + pool.merged
    /\ Cardinality(Active(pool)) \in MinExperts..MaxExperts
    /\ \A i \in Slots \ Active(pool) : pool.slot[i] = Blank
    /\ \A c \in Workers : act[c].op = "step" /\ act[c].at = "body" =>
           act[c].data \subseteq Active(pool)

(* Snapshot memory is fixed, and until a file is loaded each record names  *)
(* exactly the domains its snapshot anchors.                               *)
DomainsAreSound ==
    /\ Len(snapshots) <= MaxDomains
    /\ ~restored => domains = snapshots

SolvesAreContractive ==
    \A c \in Workers : act[c].at = "body" =>
        /\ act[c].op = "adapt" => "swarm" \notin unsafe
        /\ act[c].op = "step" => "experts" \notin unsafe

(* Outside the stretch from os.replace to the digest file, the recorded    *)
(* digest is the file's.  Not so after two checkpoints were under way      *)
(* together, or one crashed or raised in that stretch: then the first one  *)
(* that computes its digest alone and records it makes the pair right.     *)
PairMatches ==
    (\A c \in Actors : act[c].at \notin BetweenFiles) /\ ~spoiled => digest = file

(* The pool, the domains, the projections before each solve and the pair   *)
(* of files: experts.py recruit_/maintain_, adaptation.py consolidate and  *)
(* runtime.py checkpoint.                                                  *)
LearningIsSound ==
    LearningTypeOK /\ PoolIsSound /\ DomainsAreSound /\ SolvesAreContractive /\ PairMatches

NoSlot(c) == c \notin requests \cup tasks

(* docs/ARCHITECTURE.md:50: while the checkpoint of a night is taken,      *)
(* nothing it saves changes, except by a restore_checkpoint whose night    *)
(* ended between its two looks at the mode and that now holds no slot.     *)
AtRestIsStill ==
    [][mode = "CHECKPOINTING" /\ mode' = mode /\ live' # live =>
         \E c \in Workers : act[c].at \in {"load", "reload"} /\ NoSlot(c)]_<<live, mode>>

(* A guarded operation ends on the state it started from: the swarm adds   *)
(* its observation to the latest stream state, so that none is lost, and   *)
(* when a restore is through, what it loaded is what is live.              *)
GuardedIsWhole ==
    [][\A c \in Actors :
         /\ act[c].op = "adapt" /\ act[c].at = "body" /\ act'[c] = Idle
              => act[c].data = stream
         /\ act[c].at = "reload" /\ act'[c] = Idle /\ restored'
              => /\ pool' = act[c].data.pool
                 /\ stream' = act[c].data.stream
                 /\ snapshots' = act[c].data.snapshots]_<<act, live>>
=============================================================================
