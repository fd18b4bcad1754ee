------------------------- MODULE FastWeightSessions -------------------------
(***************************************************************************)
(* The session overlays of GenesisRuntime: FastWeightSessionCache and its  *)
(* gate (cogni_core/adaptation.py), ContrastiveSessionRouter (routing.py), *)
(* the bounded programmer and the projected adapter core                   *)
(* (fast_weights.py, fp_ewc.py), and the two runtime calls that use them,  *)
(* infer and compile_fast_weight_session.                                  *)
(*                                                                         *)
(* Activating a session installs forward hooks on modules all callers      *)
(* share.  A caller goes through the locks in the order of its with        *)
(* statement: session lock (only with an effective session), inference     *)
(* slot, VRAM guard, and then the hooks; an exception at any of them gives *)
(* back what was taken.  A norm is an integer, a session's overlays are    *)
(* one overlay with a norm and a size.                                     *)
(***************************************************************************)
EXTENDS RuntimeGate, SequencesExt

CONSTANTS Callers,                      \* threads that infer and compile
          Sessions,
          MaxSessions, MaxBytes,        \* bounds of the cache
          RouterSessions,               \* bound of the router
          Sizes,                        \* bytes an overlay can have
          SpectralMargin, OverlayBudget, CoreBudget,
          CoreNorms                     \* norms a night can leave the core with

(* cogni_os/factory.py: a gap of 1.0e-3 below the margin less the overlay. *)
ASSUME BudgetsAssumption ==
    /\ {SpectralMargin, OverlayBudget, CoreBudget} \cup CoreNorms \subseteq Nat
    /\ CoreBudget > 0 /\ CoreBudget + OverlayBudget < SpectralMargin
    /\ {MaxSessions, MaxBytes, RouterSessions} \subseteq Nat \ {0}
    /\ Sizes \subseteq Nat

ASSUME ThreadsAssumption == IsFiniteSet(Callers)

VARIABLES cache,            \* _sessions, least recently used first
          bytes,            \* _bytes
          active_session,
          hooks,            \* sessions whose forward hooks are installed
          session_lock,     \* GenesisRuntime._session_lock
          calibrated,       \* sessions of the router, least recently used first
          crossed,          \* history: router operations met, and none made room alone since
          core,             \* spectral norm of adapter.core
          call,             \* where each caller is
          sessionCalls      \* bound: calls left

cacheVars == <<cache, bytes>>
hookVars == <<active_session, hooks>>
routerVars == <<calibrated, crossed>>
sessionVars == <<cacheVars, hookVars, session_lock, routerVars, core, call, sessionCalls>>

IdleCall == [op |-> "idle", at |-> "idle", session |-> None]

SessionsInit ==
    /\ cache = <<>>
    /\ bytes = 0
    /\ active_session = None
    /\ hooks = {}
    /\ session_lock = None
    /\ calibrated = <<>>
    /\ crossed = FALSE
    /\ core = CoreBudget - 1
    /\ call = [c \in Callers |-> IdleCall]

Cached == {cache[i].id : i \in DOMAIN cache}
SizeOf(entries) ==
    LET sum[n \in 0 .. Len(entries)] == IF n = 0 THEN 0 ELSE sum[n - 1] + entries[n].size
    IN  sum[Len(entries)]
PlaceOf(entries, s) == CHOOSE i \in DOMAIN entries : entries[i].id = s

(* OrderedDict.pop with a default. *)
Without(entries, s) ==
    IF \E i \in DOMAIN entries : entries[i].id = s
      THEN RemoveAt(entries, PlaceOf(entries, s))
      ELSE entries

EntryOf(s) == cache[PlaceOf(cache, s)]

(* OrderedDict.pop and reinsertion: s becomes the most recently used. *)
Touched(entries, s) == Append(Without(entries, s), entries[PlaceOf(entries, s)])

(* Seeded bug: the bytes of the entry that is replaced stay counted. *)
Admitted_KeepsPrevious(s, size) ==
    LET others == Without(cache, s)
        kept(n) == SubSeq(others, n + 1, Len(others))
        fits(n) == \/ n = Len(others)
                   \/ /\ Len(kept(n)) < MaxSessions
                      /\ bytes - SizeOf(others) + SizeOf(kept(n)) + size <= MaxBytes
        evicted == CHOOSE n \in 0..Len(others) : fits(n) /\ \A m \in 0..(n - 1) : ~fits(m)
    IN  [cache |-> Append(kept(evicted), [id |-> s, size |-> size]),
         bytes |-> bytes - (SizeOf(others) - SizeOf(kept(evicted))) + size]

(* admit, under its lock: the previous entry of s goes, then the least     *)
(* recently used ones until count and bytes leave room.                    *)
Admitted(s, size) ==
    LET others == Without(cache, s)
        rest == bytes - (IF s \in Cached THEN EntryOf(s).size ELSE 0)
        kept(n) == SubSeq(others, n + 1, Len(others))
        left(n) == rest - SizeOf(SubSeq(others, 1, n))
        fits(n) == \/ n = Len(others)
                   \/ Len(kept(n)) < MaxSessions /\ left(n) + size <= MaxBytes
        evicted == CHOOSE n \in 0..Len(others) : fits(n) /\ \A m \in 0..(n - 1) : ~fits(m)
    IN  [cache |-> Append(kept(evicted), [id |-> s, size |-> size]),
         bytes |-> left(evicted) + size]

(* OverlayAcceptanceGate.evaluate, of an overlay that its programmer has   *)
(* scaled down to OverlayBudget; its quality is the caller's.              *)
Acceptable == core + OverlayBudget <= SpectralMargin

(* The checks of admit, which the lock does not cover. *)
MayBeAdmitted(size) == Acceptable /\ size <= MaxBytes

(* spectral_guard_, applied by c_fire_ before every use of the core. *)
Projected(norm) == IF norm < CoreBudget THEN norm ELSE CoreBudget - 1

Step(c, at) == call' = [call EXCEPT ![c].at = at]

Release(c) ==
    /\ Leave(c)
    /\ session_lock' = IF session_lock = c THEN None ELSE session_lock

(* The router has no lock: its operations on the OrderedDict are single    *)
(* steps, and between them anyone may come.  InRouter is the stretch in    *)
(* which an operation relies on what it did or saw there before.           *)
InRouter == {c \in Callers : call[c].at \in {"route", "room", "evict", "keep"}}
EntersRouter(c) == crossed' = (crossed \/ InRouter \ {c} # {})

(* Assignment to a key: one that is there keeps its place. *)
Put(entries, s) == IF s \in ToSet(entries) THEN entries ELSE Append(entries, s)

EndCall(c) == call' = [call EXCEPT ![c] = IdleCall]

(* infer up to the router's pop: without a session, or with one that is    *)
(* not calibrated (KeyError), it goes on without a session lock.           *)
Infer(c, s) ==
    /\ call[c].at = "idle"
    /\ sessionCalls > 0
    /\ sessionCalls' = sessionCalls - 1
    /\ LET known == s \in ToSet(calibrated)
       IN  /\ call' = [call EXCEPT ![c] = [op |-> "infer",
                                           at |-> IF known THEN "route" ELSE "slot",
                                           session |-> IF known THEN s ELSE None]]
           /\ calibrated' = RemoveFirst(calibrated, s)
           /\ IF known THEN EntersRouter(c) ELSE UNCHANGED crossed
    /\ UNCHANGED <<gateVars, cacheVars, hookVars, session_lock, core>>

(* route puts the entry back, whoever came between, and compares: features *)
(* that are too far away lose the session.                                 *)
Reinsert(c) ==
    /\ call[c].at = "route"
    /\ calibrated' = Put(calibrated, call[c].session)
    /\ \/ Step(c, "lock")
       \/ call' = [call EXCEPT ![c].at = "slot", ![c].session = None]
    /\ UNCHANGED <<gateVars, cacheVars, hookVars, session_lock, crossed, core, sessionCalls>>

Compile(c, s) ==
    /\ call[c].at = "idle"
    /\ sessionCalls > 0
    /\ sessionCalls' = sessionCalls - 1
    /\ call' = [call EXCEPT ![c] = [op |-> "compile", at |-> "lock", session |-> s]]
    /\ UNCHANGED <<gateVars, cacheVars, hookVars, session_lock, routerVars, core>>

TakeSessionLock(c) ==
    /\ call[c].at = "lock"
    /\ session_lock = None
    /\ session_lock' = c
    /\ Step(c, "slot")
    /\ UNCHANGED <<gateVars, cacheVars, hookVars, routerVars, core, sessionCalls>>

EnterSlot(c) ==
    /\ call[c].at = "slot"
    /\ InferenceSlot(c)
    /\ Step(c, "guard")
    /\ UNCHANGED <<cacheVars, hookVars, session_lock, routerVars, core, sessionCalls>>

(* The guard is taken.  An inference with a session then activates it; a   *)
(* compilation runs its programmer.                                        *)
EnterGuard(c) ==
    /\ call[c].at = "guard"
    /\ Enforce(c)
    /\ LET s == call[c].session
       IN  IF call[c].op = "infer" /\ s # None
             THEN /\ s \in Cached
                  /\ active_session = None
                  /\ cache' = Touched(cache, s)
                  /\ active_session' = s
                  /\ hooks' = hooks \cup {s}
             ELSE UNCHANGED <<cache, hookVars>>
    /\ Step(c, "body")
    /\ UNCHANGED <<bytes, session_lock, routerVars, core, sessionCalls>>

(* Refused by the mode, by the memory admission, or by activate when the   *)
(* cache has evicted what the router still knows (KeyError).               *)
Refused(c) ==
    /\ \/ call[c].at = "slot" /\ mode # "INFERENCE"
       \/ call[c].at = "guard" /\ guard = None
    /\ Release(c)
    /\ call' = [call EXCEPT ![c] = IdleCall]
    /\ UNCHANGED <<cacheVars, hookVars, routerVars, core, sessionCalls>>

(* The backbone reaches the adapter: C-FIRE, then the core with the hooks. *)
Backbone(c) ==
    /\ call[c].at = "body"
    /\ call[c].op = "infer"
    /\ core' = Projected(core)
    /\ Step(c, "apply")
    /\ UNCHANGED <<gateVars, cacheVars, hookVars, session_lock, routerVars, sessionCalls>>

(* The search has returned, or something raised: the finally of activate   *)
(* takes the hooks off before the locks go.                                *)
EndInfer(c) ==
    /\ call[c].at = "apply"
    /\ hooks' = hooks \ {call[c].session}
    /\ active_session' = IF call[c].session = None THEN active_session ELSE None
    /\ Release(c)
    /\ call' = [call EXCEPT ![c] = IdleCall]
    /\ UNCHANGED <<cacheVars, routerVars, core, sessionCalls>>

(* The emitted overlay is admitted or rejected, and the locks are left.    *)
EndCompile(c) ==
    /\ call[c].at = "body"
    /\ call[c].op = "compile"
    /\ \/ \E size \in Sizes :
            /\ MayBeAdmitted(size)
            /\ cache' = Admitted(call[c].session, size).cache
            /\ bytes' = Admitted(call[c].session, size).bytes
            /\ Step(c, "calibrate")
       \/ call' = [call EXCEPT ![c] = IdleCall] /\ UNCHANGED cacheVars
    /\ Release(c)
    /\ UNCHANGED <<hookVars, routerVars, core, sessionCalls>>

(* calibrate, after the locks: pop with a default, then as many of the     *)
(* least recently used as it takes, one check and one popitem at a time,   *)
(* then the assignment.  It is skipped without features.                   *)
Calibrate(c) ==
    /\ call[c].at = "calibrate"
    /\ \/ /\ calibrated' = RemoveFirst(calibrated, call[c].session)
          /\ EntersRouter(c)
          /\ Step(c, "room")
       \/ EndCall(c) /\ UNCHANGED routerVars
    /\ UNCHANGED <<gateVars, cacheVars, hookVars, session_lock, core, sessionCalls>>

CheckRoom(c) ==
    /\ call[c].at = "room"
    /\ IF Len(calibrated) >= RouterSessions
         THEN Step(c, "evict") /\ UNCHANGED crossed
         ELSE Step(c, "keep") /\ crossed' = (crossed /\ InRouter \ {c} # {})
    /\ UNCHANGED <<gateVars, cacheVars, hookVars, session_lock, calibrated, core,
                   sessionCalls>>

(* popitem raises when the others have emptied the router meanwhile. *)
EvictOldest(c) ==
    /\ call[c].at = "evict"
    /\ IF calibrated = <<>>
         THEN EndCall(c) /\ UNCHANGED calibrated
         ELSE Step(c, "room") /\ calibrated' = Tail(calibrated)
    /\ UNCHANGED <<gateVars, cacheVars, hookVars, session_lock, crossed, core, sessionCalls>>

Keep(c) ==
    /\ call[c].at = "keep"
    /\ calibrated' = Put(calibrated, call[c].session)
    /\ EndCall(c)
    /\ UNCHANGED <<gateVars, cacheVars, hookVars, session_lock, crossed, core, sessionCalls>>

Discard(s) ==
    /\ sessionCalls > 0
    /\ sessionCalls' = sessionCalls - 1
    /\ active_session # s
    /\ s \in Cached
    /\ cache' = Without(cache, s)
    /\ bytes' = bytes - EntryOf(s).size
    /\ UNCHANGED <<gateVars, hookVars, session_lock, routerVars, core, call>>

(* optimizer_step in a night task: the norm ends below the margin.         *)
TrainCore ==
    /\ mode = "EVOLUTION"
    /\ core' \in CoreNorms
    /\ UNCHANGED <<gateVars, cacheVars, hookVars, session_lock, routerVars, call,
                   sessionCalls>>

SessionsNext ==
    \/ \E c \in Callers :
         \/ \E s \in Sessions \cup {None} : Infer(c, s)
         \/ \E s \in Sessions : Compile(c, s)
         \/ TakeSessionLock(c) \/ EnterSlot(c) \/ EnterGuard(c) \/ Refused(c)
         \/ Backbone(c) \/ EndInfer(c) \/ EndCompile(c)
         \/ Reinsert(c) \/ Calibrate(c) \/ CheckRoom(c) \/ EvictOldest(c) \/ Keep(c)
    \/ \E s \in Sessions : Discard(s)
    \/ TrainCore

SessionsTypeOK ==
    /\ cache \in Seq([id : Sessions, size : Sizes])
    /\ active_session \in Sessions \cup {None}
    /\ hooks \subseteq Sessions
    /\ session_lock \in Callers \cup {None}
    /\ calibrated \in Seq(Sessions)
    /\ call \in [Callers -> [op : {"idle", "infer", "compile"},
                             at : {"idle", "route", "lock", "slot", "guard", "body", "apply",
                                   "calibrate", "room", "evict", "keep"},
                             session : Sessions \cup {None}]]

(* One entry per session, the counter says what the entries weigh, both    *)
(* bounds hold, and the entry whose overlay is in use is still there.      *)
CacheIsBounded ==
    /\ Cardinality(Cached) = Len(cache)
    /\ Len(cache) <= MaxSessions
    /\ bytes = SizeOf(cache)
    /\ bytes <= MaxBytes
    /\ active_session # None => active_session \in Cached

(* The router knows each session once.  It keeps its bound unless router   *)
(* operations have met since a calibrate last found room by itself, and    *)
(* then every other caller adds one entry at most, in hand or in place.    *)
RouterIsBounded ==
    LET inHand == {c \in Callers : call[c].at \in {"route", "keep"}}
    IN  /\ Cardinality(ToSet(calibrated)) = Len(calibrated)
        /\ ~crossed => Len(calibrated) <= RouterSessions
        /\ Len(calibrated) + Cardinality(inHand)
              <= RouterSessions + (Cardinality(Callers) - 1)

(* While the adapter core is applied, core and overlay together stay below *)
(* the margin, whatever a night did to the core since the admission.       *)
ComposedBelowMargin ==
    \A c \in Callers : call[c].at = "apply" =>
        core + OverlayBudget * Cardinality(hooks) < SpectralMargin

(* Sessions never outgrow their bounds and never endanger the solve:       *)
(* adaptation.py admit, discard and activate against each other and        *)
(* against the norm budgets of factory.py.                                 *)
SessionsAreSound ==
    SessionsTypeOK /\ CacheIsBounded /\ RouterIsBounded /\ ComposedBelowMargin

(* A backbone call runs under the overlay of its own effective session and *)
(* no other, a call without one under none, although hooks are global to   *)
(* the module and calls without a session do not take the session lock.    *)
OverlayIsOwn ==
    /\ \A c \in Callers : call[c].op = "infer" /\ call[c].at \in {"body", "apply"} =>
           hooks = {call[c].session} \ {None}
    /\ (\A c \in Callers : call[c].at \notin {"body", "apply"}) => hooks = {}
=============================================================================
