---------------------------- MODULE MCStatistics ----------------------------
(* Local clocks for the instances of Statistics, in half periods. *)
EXTENDS Statistics

Fixed(o) == [from |-> o, to |-> o, at |-> 0]

\* Whole and half periods off, and a change forward or back by one period.
MCZones == {Fixed(0), Fixed(2), Fixed(1),
            [from |-> 0, to |-> 2, at |-> 3], [from |-> 2, to |-> 0, at |-> 3]}
=============================================================================
