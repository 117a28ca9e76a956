------------------------------- MODULE MCSqueue -------------------------------
(* Instances of Squeue for TLC. *)
EXTENDS Squeue

\* One element, or two in any order.
OneOrTwo == {<<e>> : e \in Elements} \cup {s \in Elements \X Elements : s[1] # s[2]}
==============================================================================
