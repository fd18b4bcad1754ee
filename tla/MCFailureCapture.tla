-------------------------- MODULE MCFailureCapture --------------------------
EXTENDS FailureCapture

CONSTANTS c1, c2, f1, f2

(* One thread while writes fail and time passes, and two that race.        *)
MCUses ==
    {[controllers |-> {c1}, failures |-> {f1, f2}, faults |-> TRUE, time |-> 1],
     [controllers |-> {c1, c2}, failures |-> {f1}, faults |-> TRUE, time |-> 0]}
=============================================================================
