------------------------ MODULE MCRecoveryExecution -------------------------
(* One console, two attempts, crashes.                                      *)
EXTENDS RecoveryExecution

CONSTANTS a1, a2, o1
=============================================================================
