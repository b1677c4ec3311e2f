-------------------------- MODULE MCWorkingThread ---------------------------
(* WorkingThread with a few tasks for TLC. *)
EXTENDS WorkingThread
=============================================================================
