--------------------------- MODULE BoundedQueueSpec ---------------------------
(***************************************************************************)
(* What squeue.mli promises: one queue; a thread that asks for room or for *)
(* an element gets its turn only when there is room or an element; and     *)
(* while room or an element lasts, those who ask for it get their turns.   *)
(* Who is next is left open.  Squeue is shown to implement this module.    *)
(***************************************************************************)
EXTENDS Naturals, Sequences

CONSTANTS Threads, Batches, MaxSizes

VARIABLES queue,
          maxsize,
          asked      (* what each thread waits for: room, an element, nothing *)

vars == <<queue, maxsize, asked>>

Init == /\ queue = <<>>
        /\ maxsize \in MaxSizes
        /\ asked = [t \in Threads |-> "nothing"]

Ask(t, what) == /\ asked[t] = "nothing"
                /\ asked' = [asked EXCEPT ![t] = what]
                /\ UNCHANGED <<queue, maxsize>>

There(what) == IF what = "room" THEN Len(queue) < maxsize ELSE queue # <<>>

Served(t, what) == /\ asked[t] = what
                   /\ There(what)
                   /\ asked' = [asked EXCEPT ![t] = "nothing"]
                   /\ UNCHANGED maxsize

Put(t, batch) == Served(t, "room") /\ queue' = queue \o batch

Take(t) == Served(t, "element") /\ queue' = Tail(queue)

TakeAll(t) == Served(t, "element") /\ queue' = <<>>

See(t) == Served(t, "element") /\ UNCHANGED queue

PutAnyway(batch) == queue' = queue \o batch /\ UNCHANGED <<maxsize, asked>>

Clear == queue' = <<>> /\ UNCHANGED <<maxsize, asked>>

Next == \/ \E t \in Threads : \/ \E what \in {"room", "element"} : Ask(t, what)
                              \/ \E batch \in Batches : Put(t, batch)
                              \/ Take(t) \/ TakeAll(t) \/ See(t)
        \/ \E batch \in Batches : PutAnyway(batch)
        \/ Clear

ServeRoom == \E t \in Threads : \E batch \in Batches : Put(t, batch)

ServeElement == \E t \in Threads : Take(t) \/ TakeAll(t) \/ See(t)

Fairness == WF_vars(ServeRoom) /\ WF_vars(ServeElement)

SafeSpec == Init /\ [][Next]_vars

Spec == SafeSpec /\ Fairness
==============================================================================
