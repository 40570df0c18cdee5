-------------------------- MODULE MCDomainLifecycle -------------------------
(* Finite instances of DomainLifecycle for TLC.                            *)
EXTENDS DomainLifecycle, TLC

Symmetry == Permutations(Request)
=============================================================================
