------------------------------ MODULE Dialogue ------------------------------
(***************************************************************************)
(* What a conversation promises to the user: it is made of complete        *)
(* exchanges, one question is open at a time, an answered question stays,  *)
(* one that is not answered leaves no trace, and only the oldest exchanges *)
(* are ever forgotten, or all of them at the user's wish.                  *)
(***************************************************************************)
EXTENDS Naturals, Sequences

CONSTANTS Turns, None

VARIABLES history,      \* the turns that were answered and are remembered
          asked         \* the turn that waits for its answer

vars == <<history, asked>>

Init == history = <<>> /\ asked = None

Newest(s, n) == SubSeq(s, Len(s) - n + 1, Len(s))

(* Room is made for a question before it is known to be answered. *)
Ask(t) ==
    /\ asked = None
    /\ asked' = t
    /\ \E n \in 0 .. Len(history) : history' = Newest(history, n)

Answer ==
    /\ asked # None
    /\ asked' = None
    /\ \E n \in 1 .. Len(history) + 1 : history' = Newest(Append(history, asked), n)

Drop == asked # None /\ asked' = None /\ UNCHANGED history

Forget == asked = None /\ history' = <<>> /\ UNCHANGED asked

Next == (\E t \in Turns : Ask(t)) \/ Answer \/ Drop \/ Forget

Spec == Init /\ [][Next]_vars
=============================================================================
