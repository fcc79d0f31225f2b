-------------------------- MODULE MCQEMULifecycle --------------------------
(* Instances of QEMULifecycle for TLC; the constants are set in the cfgs.   *)
EXTENDS QEMULifecycle, TLC

(* stop, forceStop and reboot calls are interchangeable. *)
Symmetry == Permutations(Calls)
=============================================================================
