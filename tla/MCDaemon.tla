------------------------------- MODULE MCDaemon ------------------------------
(* Instances of Daemon for TLC. *)
EXTENDS Daemon

\* SIGKILL, and the last of the real-time signals, which OCaml has no name for.
KillingSignals == {-7, 64}
=============================================================================
