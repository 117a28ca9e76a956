----------------------------- MODULE MCNanoMutex -----------------------------
(* Instances of NanoMutex for TLC. *)
EXTENDS NanoMutex

\* A thread that has a mutex waits for no other.
NoNesting == {}
==============================================================================
