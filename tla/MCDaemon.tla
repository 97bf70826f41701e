------------------------------ MODULE MCDaemon ------------------------------
(* A small instance of Daemon. *)
EXTENDS Daemon

MCVmConfigs == {NoConfig}
=============================================================================
