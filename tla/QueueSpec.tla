------------------------------ MODULE QueueSpec ------------------------------
(***************************************************************************)
(* The queue that thread_safe_queue.mli promises: unbounded, first in      *)
(* first out, each operation one atomic step.  ThreadSafeQueue is shown to *)
(* implement this module; the pool of NanoMutex relies on it.              *)
(***************************************************************************)
EXTENDS Sequences

CONSTANT Values

VARIABLE contents

Init == contents = <<>>

Enqueue(v) == contents' = Append(contents, v)

Dequeue == contents # <<>> /\ contents' = Tail(contents)

Next == Dequeue \/ \E v \in Values : Enqueue(v)

Spec == Init /\ [][Next]_contents
==============================================================================
