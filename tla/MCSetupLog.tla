----------------------------- MODULE MCSetupLog -----------------------------
(* Finite instances of SetupLog for TLC.                                   *)
EXTENDS SetupLog
=============================================================================
