--------------------------- MODULE MCComputeOwner ---------------------------
EXTENDS ComputeOwner

(* All routes together, and the two halves in which no lock order clashes. *)
AllMixes == {Kinds, {"validate", "chat", "state"}, {"validate", "evolve"}}
=============================================================================
