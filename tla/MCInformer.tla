----------------------------- MODULE MCInformer -----------------------------
(* Model-checking instance of Informer: TLC's symmetry set.                *)
EXTENDS Informer, TLC

\* Keys are interchangeable; used by the runs without liveness properties.
Symmetry == Permutations(Keys)
=============================================================================
