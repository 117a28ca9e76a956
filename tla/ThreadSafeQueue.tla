--------------------------- MODULE ThreadSafeQueue ---------------------------
(***************************************************************************)
(* Thread_safe_queue (core_kernel/thread_safe_queue): a linked list that   *)
(* threads, finalisers and signal handlers share without a mutex, because  *)
(* no operation has a point where OCaml may switch but one: enqueue may    *)
(* have to allocate an element.  Elements are recycled through a pool, so  *)
(* the pointers of one that is reused are stale until they are overwritten.*)
(***************************************************************************)
EXTENDS Naturals, Sequences, FiniteSets

CONSTANTS Threads,
          Values, NoValue,   (* NoValue and NoElt are Uopt.none              *)
          Elts, NoElt        (* the elements that fit in memory              *)

ASSUME ThreadSafeQueueAssumption ==
          IsFiniteSet(Elts) /\ Elts # {} /\ NoElt \notin Elts /\ NoValue \notin Values

VARIABLES value, next,       (* the fields of each element; next[NoElt] is   *)
                             (* NoElt                                        *)
          length, front, back, unused_elts,
          enqueuing          (* what a thread that allocates will enqueue    *)

list == <<length, front, back>>
vars == <<value, next, list, unused_elts, enqueuing>>

TypeOK == /\ value \in [Elts -> Values \cup {NoValue}]
          /\ next \in [Elts \cup {NoElt} -> Elts \cup {NoElt}]
          /\ length \in Nat
          /\ front \in Elts
          /\ back \in Elts
          /\ unused_elts \in Elts \cup {NoElt}
          /\ enqueuing \in [Threads -> Values \cup {NoValue}]

\* create.
Init == /\ value = [e \in Elts |-> NoValue]
        /\ next = [e \in Elts \cup {NoElt} |-> NoElt]
        /\ length = 0
        /\ front \in Elts
        /\ back = front
        /\ unused_elts = NoElt
        /\ enqueuing = [t \in Threads |-> NoValue]

\* The i-th element from e on, and all of them.
From(e) == LET f[i \in 0..Cardinality(Elts)] == IF i = 0 THEN e ELSE next[f[i - 1]] IN f

Chain(e) == {From(e)[i] : i \in 0..Cardinality(Elts)} \ {NoElt}

\* What the collector cannot reclaim.
Live == Chain(front) \cup Chain(unused_elts)

Allocating == {t \in Threads : enqueuing[t] # NoValue}

-----------------------------------------------------------------------------
\* The end of enqueue: e is the new back.
Link(e) == /\ length' = length + 1
           /\ back' = e
           /\ UNCHANGED front

\* Mutant: the element that is taken stays in the pool.
EnqueueFromPoolTwice(t, v) ==
  /\ enqueuing[t] = NoValue
  /\ unused_elts # NoElt
  /\ Link(unused_elts)
  /\ value' = [value EXCEPT ![back] = v]
  /\ next' = [next EXCEPT ![back] = unused_elts]
  /\ UNCHANGED <<unused_elts, enqueuing>>

\* enqueue, with an element of the pool: one stretch.
EnqueueFromPool(t, v) == /\ enqueuing[t] = NoValue
                         /\ unused_elts # NoElt
                         /\ Link(unused_elts)
                         /\ value' = [value EXCEPT ![back] = v]
                         /\ next' = [next EXCEPT ![back] = unused_elts]
                         /\ unused_elts' = next[unused_elts]
                         /\ UNCHANGED enqueuing

\* enqueue, when the pool is empty: get_unused_elt allocates, and others run.
\* The guard bounds the memory.
Allocate(t, v) == /\ enqueuing[t] = NoValue
                  /\ unused_elts = NoElt
                  /\ Cardinality(Live) + Cardinality(Allocating) < Cardinality(Elts)
                  /\ enqueuing' = [enqueuing EXCEPT ![t] = v]
                  /\ UNCHANGED <<value, next, list, unused_elts>>

\* The allocation returns an element, and enqueue goes on.
EnqueueNew(t) == /\ enqueuing[t] # NoValue
                 /\ \E e \in Elts \ Live :
                       /\ Link(e)
                       /\ value' = [value EXCEPT ![back] = enqueuing[t], ![e] = NoValue]
                       /\ next' = [next EXCEPT ![back] = e, ![e] = NoElt]
                 /\ enqueuing' = [enqueuing EXCEPT ![t] = NoValue]
                 /\ UNCHANGED unused_elts

\* return_unused_elt.
Return(e) == /\ value' = [value EXCEPT ![e] = NoValue]
             /\ next' = [next EXCEPT ![e] = unused_elts]
             /\ unused_elts' = e

\* Mutant: the element is returned to the pool before its next is read.
DequeueReturningFirst(t) == /\ enqueuing[t] = NoValue
                            /\ length > 0
                            /\ Return(front)
                            /\ front' = IF unused_elts = NoElt THEN next[front] ELSE unused_elts
                            /\ length' = length - 1
                            /\ UNCHANGED <<back, enqueuing>>

\* dequeue_exn, which is also how the test of length and dequeue_exn behave
\* together.
Dequeue(t) == /\ enqueuing[t] = NoValue
              /\ length > 0
              /\ front' = next[front]
              /\ length' = length - 1
              /\ Return(front)
              /\ UNCHANGED <<back, enqueuing>>

\* dequeue_exn of an empty queue raises.
RaiseEmpty(t) == /\ enqueuing[t] = NoValue
                 /\ length = 0
                 /\ UNCHANGED vars

ClearInternalPool(t) == /\ enqueuing[t] = NoValue
                        /\ unused_elts' = NoElt
                        /\ UNCHANGED <<value, next, list, enqueuing>>

Next == \E t \in Threads : \/ \E v \in Values : EnqueueFromPool(t, v) \/ Allocate(t, v)
                           \/ EnqueueNew(t)
                           \/ Dequeue(t) \/ RaiseEmpty(t)
                           \/ ClearInternalPool(t)

Spec == Init /\ [][Next]_vars

-----------------------------------------------------------------------------
(***************************************************************************)
(* Properties.                                                             *)
(***************************************************************************)

(* The elements that hold the contents, without the back.                  *)
InUse == {From(front)[i] : i \in 0..length - 1}

(* The invariant of thread_safe_queue.ml, and what it takes for granted:   *)
(* length elements with a value lead from the front to the back, which has *)
(* none; the pool ends, its elements keep no value from the collector, and *)
(* none of them is also in the list, although the back of the list points  *)
(* to whatever the reused element pointed to.                              *)
EltsConsistent == /\ TypeOK
                  /\ length < Cardinality(Elts)
                  /\ From(front)[length] = back
                  /\ Cardinality(InUse \cup {back}) = length + 1
                  /\ \A e \in InUse : value[e] # NoValue
                  /\ value[back] = NoValue
                  /\ From(unused_elts)[Cardinality(Elts)] = NoElt
                  /\ \A e \in Chain(unused_elts) : value[e] = NoValue /\ e \notin InUse \cup {back}

Abstract == INSTANCE QueueSpec WITH contents <- [i \in 1..length |-> value[From(front)[i - 1]]]

(* Thread_safe_queue implements QueueSpec: an enqueue that allocates, and  *)
(* is overtaken by any number of other operations, still adds its value    *)
(* once, at what is then the back, and nothing is lost or repeated.        *)
ImplementsQueueSpec == Abstract!Spec
==============================================================================
