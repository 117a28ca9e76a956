------------------------------- MODULE BusSpec -------------------------------
(***************************************************************************)
(* What bus.mli promises, with sets in place of arrays.  A write calls     *)
(* each of the subscribers it found once and no other; a subscription made *)
(* during a write is for the next one, and so is the end of one; close     *)
(* takes effect after the current write, and then tells every remaining    *)
(* subscriber once.  Bus is shown to implement this module.                *)
(***************************************************************************)
EXTENDS Naturals

CONSTANT Subscribers

VARIABLES known,     (* the subscribers handed out so far                    *)
          members,   (* those the next write is for                          *)
          pending,   (* those the current write has still to call            *)
          writing,
          closed,
          told       (* how often the on_close of each was called            *)

vars == <<known, members, pending, writing, closed, told>>

Init == /\ known = {}
        /\ members = {}
        /\ pending = {}
        /\ writing = FALSE
        /\ closed = FALSE
        /\ told = [s \in Subscribers |-> 0]

Subscribe(s) == /\ s \notin known
                /\ known' = known \cup {s}
                /\ members' = IF closed THEN members ELSE members \cup {s}
                /\ UNCHANGED <<pending, writing, closed, told>>

Unsubscribe(s) == /\ ~ closed
                  /\ members' = members \ {s}
                  /\ UNCHANGED <<known, pending, writing, closed, told>>

StartWrite == /\ ~ closed /\ ~ writing
              /\ writing' = TRUE
              /\ pending' = members
              /\ UNCHANGED <<known, members, closed, told>>

CallBack(s) == /\ s \in pending
               /\ pending' = pending \ {s}
               /\ UNCHANGED <<known, members, writing, closed, told>>

EndWrite == /\ writing /\ pending = {}
            /\ writing' = FALSE
            /\ UNCHANGED <<known, members, pending, closed, told>>

\* on_callback_raise raised: the write is given up and the bus is closed.
AbandonWrite == /\ writing
                /\ writing' = FALSE
                /\ pending' = {}
                /\ closed' = TRUE
                /\ UNCHANGED <<known, members, told>>

Close == /\ closed' = TRUE
         /\ UNCHANGED <<known, members, pending, writing, told>>

Tell(s) == /\ closed /\ ~ writing
           /\ s \in members
           /\ members' = members \ {s}
           /\ told' = [told EXCEPT ![s] = @ + 1]
           /\ UNCHANGED <<known, pending, writing, closed>>

Next == \/ \E s \in Subscribers : Subscribe(s) \/ Unsubscribe(s) \/ CallBack(s) \/ Tell(s)
        \/ StartWrite \/ EndWrite \/ AbandonWrite \/ Close

Spec == Init /\ [][Next]_vars
==============================================================================
