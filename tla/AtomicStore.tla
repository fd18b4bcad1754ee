----------------------------- MODULE AtomicStore -----------------------------
(***************************************************************************)
(* What the promotion journal promises about the live source files: an     *)
(* attempt to change a file happens entirely or not at all, and the answer *)
(* the caller gets says which.  "promoted" means the file has exactly the  *)
(* candidate, "rejected" that it is untouched; an attempt that raised or   *)
(* was cut short by a crash is "unknown" and may be either.                *)
(***************************************************************************)
CONSTANTS Files, Contents, Foreign, None

VARIABLES store,        \* the content of each file, as the owner sees it
          candidate,    \* what the open attempt on a file would make of it
          outcome       \* what became of the last attempt on each file

asVars == <<store, candidate, outcome>>

Init ==
    /\ store \in [Files -> Contents]
    /\ candidate = [f \in Files |-> None]
    /\ outcome = [f \in Files |-> "none"]

Attempt(f, v) ==
    /\ outcome[f] # "open"
    /\ outcome' = [outcome EXCEPT ![f] = "open"]
    /\ candidate' = [candidate EXCEPT ![f] = v]
    /\ UNCHANGED store

Close(f, answers) ==
    /\ outcome[f] = "open"
    /\ \E o \in answers : outcome' = [outcome EXCEPT ![f] = o]
    /\ candidate' = [candidate EXCEPT ![f] = None]

Promote(f) ==
    /\ Close(f, {"promoted", "unknown"})
    /\ store' = [store EXCEPT ![f] = candidate[f]]

Keep(f) ==
    /\ Close(f, {"rejected", "unknown"})
    /\ UNCHANGED store

(* An edit by somebody else. *)
Edit(f, v) ==
    /\ store' = [store EXCEPT ![f] = v]
    /\ UNCHANGED <<candidate, outcome>>

Next ==
    \E f \in Files :
        \/ \E v \in Contents : Attempt(f, v)
        \/ Promote(f)
        \/ Keep(f)
        \/ \E v \in Foreign : Edit(f, v)

Spec == Init /\ [][Next]_asVars
=============================================================================
