---------------------------- MODULE MCWeakHashtbl ----------------------------
(* Instances of WeakHashtbl for TLC. *)
EXTENDS WeakHashtbl
=============================================================================
