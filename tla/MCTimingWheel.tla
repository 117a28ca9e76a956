---------------------------- MODULE MCTimingWheel ----------------------------
(* Instances of TimingWheel for TLC. *)
EXTENDS TimingWheel, TLC

\* Two and three levels; levels that reach to the end of time and levels that
\* do not; intervals of one and of two times.
SmallConfigs == {[level_bits |-> <<1, 1>>, alarm_precision |-> 0],
                 [level_bits |-> <<1, 2>>, alarm_precision |-> 0],
                 [level_bits |-> <<1, 1, 1>>, alarm_precision |-> 0],
                 [level_bits |-> <<1, 1>>, alarm_precision |-> 1]}

Symmetry == Permutations(Cells)
=============================================================================
