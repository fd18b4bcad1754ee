------------------------------ MODULE DayNight ------------------------------
(***************************************************************************)
(* What RhythmController promises its callers, with the eight modes        *)
(* forgotten: a gate that admits day work (inference requests) or night    *)
(* work (evolution tasks), never both, and that only opens for one kind    *)
(* when nothing of the other kind is still running.                        *)
(***************************************************************************)

CONSTANTS Requests,     \* identities of pieces of day work
          Tasks         \* identities of pieces of night work

VARIABLES gate,         \* "day", "night" or "shut"
          requests,     \* day work in progress
          tasks         \* night work in progress

dnVars == <<gate, requests, tasks>>

Init ==
    /\ gate = "day"
    /\ requests = {}
    /\ tasks = {}

(* Day work is admitted only by a gate open for the day. *)
AdmitRequest(r) ==
    /\ gate = "day"
    /\ requests' = requests \cup {r}
    /\ UNCHANGED <<gate, tasks>>

FinishRequest(r) ==
    /\ r \in requests
    /\ requests' = requests \ {r}
    /\ UNCHANGED <<gate, tasks>>

AdmitTask(t) ==
    /\ gate = "night"
    /\ tasks' = tasks \cup {t}
    /\ UNCHANGED <<gate, requests>>

FinishTask(t) ==
    /\ t \in tasks
    /\ tasks' = tasks \ {t}
    /\ UNCHANGED <<gate, requests>>

(* Shutting the gate admits nothing new and waits for nobody. *)
Shut ==
    /\ gate' = "shut"
    /\ UNCHANGED <<requests, tasks>>

OpenDay ==
    /\ gate # "day"
    /\ tasks = {}
    /\ gate' = "day"
    /\ UNCHANGED <<requests, tasks>>

(* The night is never opened straight from the day. *)
OpenNight ==
    /\ gate = "shut"
    /\ requests = {}
    /\ gate' = "night"
    /\ UNCHANGED <<requests, tasks>>

Next ==
    \/ \E r \in Requests : AdmitRequest(r) \/ FinishRequest(r)
    \/ \E t \in Tasks : AdmitTask(t) \/ FinishTask(t)
    \/ Shut
    \/ OpenDay
    \/ OpenNight

Spec == Init /\ [][Next]_dnVars
=============================================================================
