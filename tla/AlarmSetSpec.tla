---------------------------- MODULE AlarmSetSpec -----------------------------
(***************************************************************************)
(* What timing_wheel_intf.ml promises: a set of alarms with their times,   *)
(* and a clock that fires those of the intervals it leaves behind.         *)
(***************************************************************************)
EXTENDS Integers, Functions

CONSTANTS Times, Cells

VARIABLES alarms,     (* the time of each alarm that is set                 *)
          now,
          precision   (* the length of an interval                          *)

vars == <<alarms, now, precision>>

Interval(time) == time \div precision

Init == /\ alarms = <<>>
        /\ now \in Times
        /\ precision \in Nat \ {0}

Without(fired) == Restrict(alarms, DOMAIN alarms \ fired)

\* A new alarm, or another time for one that is set.
Set(a, time) == /\ Interval(time) >= Interval(now)
                /\ alarms' = [b \in DOMAIN alarms \cup {a} |-> IF b = a THEN time ELSE alarms[b]]
                /\ UNCHANGED <<now, precision>>

Remove(a) == /\ a \in DOMAIN alarms
             /\ alarms' = Without({a})
             /\ UNCHANGED <<now, precision>>

Advance(to) == /\ to > now
               /\ now' = to
               /\ alarms' = Without({a \in DOMAIN alarms : Interval(alarms[a]) < Interval(to)})
               /\ UNCHANGED precision

FirePast == /\ alarms' = Without({a \in DOMAIN alarms : alarms[a] <= now})
            /\ UNCHANGED <<now, precision>>

Clear == /\ alarms' = <<>>
         /\ UNCHANGED <<now, precision>>

Next == \/ \E a \in Cells : Remove(a) \/ \E time \in Times : Set(a, time)
        \/ \E to \in Times : Advance(to)
        \/ FirePast
        \/ Clear

Spec == Init /\ [][Next]_vars
=============================================================================
