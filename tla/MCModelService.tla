--------------------------- MODULE MCModelService ---------------------------
EXTENDS ModelService

CONSTANTS c1, c2, s1

MCCallers == {c1, c2}
MCStoppers == {s1}

(* A caller and a stop in turn, two callers at once, a stop at any time. *)
MCUses == {[who |-> {c1, s1}, alone |-> TRUE],
           [who |-> {c1, c2}, alone |-> FALSE],
           [who |-> {c1, s1}, alone |-> FALSE]}
=============================================================================
