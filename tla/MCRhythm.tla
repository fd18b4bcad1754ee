------------------------------ MODULE MCRhythm ------------------------------
(* A small instance of Rhythm for TLC; the configuration names it. *)
EXTENDS Rhythm
=============================================================================
