-------------------------- MODULE MCDefferedTasks ---------------------------
(* DefferedTasks with a few tasks and delays for TLC. *)
EXTENDS DefferedTasks
=============================================================================
