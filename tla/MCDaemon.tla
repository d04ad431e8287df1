------------------------------ MODULE MCDaemon ------------------------------
(* The instance of Daemon that TLC checks. *)
EXTENDS Daemon

CONSTANTS d1, d2

MCProcs == {d1, d2}
=============================================================================
