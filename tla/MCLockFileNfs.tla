----------------------------- MODULE MCLockFileNfs -----------------------------
(* Instances of LockFileNfs for TLC. *)
EXTENDS LockFileNfs

\* One program on each machine.
OwnHost == [p \in Procs |-> p]
=============================================================================
