-------------------------------- MODULE MCDaemon --------------------------------
(* Two commands at the same time, and two daemons in one behaviour. *)
EXTENDS Daemon
================================================================================
