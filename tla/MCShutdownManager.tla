-------------------------- MODULE MCShutdownManager --------------------------
(* ShutdownManager with one requester, say a signal handler; the main       *)
(* thread is another.  A second one would find the flag set.                *)
EXTENDS ShutdownManager

CONSTANTS user, main_thread
=============================================================================
