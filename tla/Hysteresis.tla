----------------------------- MODULE Hysteresis -----------------------------
(***************************************************************************)
(* What rise and fall promise an operator about one endpoint: the verdict  *)
(* turns only after Rise (Fall) reports in a row that contradict it, and   *)
(* every report is applied as one indivisible step.  The README states it  *)
(* as "An endpoint needs health.fall consecutive failures to drop out and  *)
(* health.rise consecutive successes to return".                           *)
(***************************************************************************)
EXTENDS Naturals

CONSTANTS Rise, Fall

VARIABLES
    fresh,      \* the first verdict, which bypasses the thresholds, is due
    verdict,    \* TRUE: in rotation
    run         \* reports in a row that contradict the verdict

vars == <<fresh, verdict, run>>

Threshold(ok) == IF ok THEN Rise ELSE Fall

Init ==
    /\ fresh \in BOOLEAN
    /\ verdict = FALSE
    /\ run = 0

\* The first verdict is taken as it comes.
First(ok) ==
    /\ fresh
    /\ fresh' = FALSE
    /\ verdict' = ok
    /\ run' = 0

\* A report that agrees with the verdict ends the contradicting run.
Agree(ok) ==
    /\ ~fresh
    /\ ok = verdict
    /\ run' = 0
    /\ UNCHANGED <<fresh, verdict>>

\* A report that contradicts it lengthens the run, and at the threshold turns
\* the verdict.
Contradict(ok) ==
    /\ ~fresh
    /\ ok # verdict
    /\ IF run + 1 < Threshold(ok)
       THEN run' = run + 1 /\ UNCHANGED verdict
       ELSE run' = 0 /\ verdict' = ok
    /\ UNCHANGED fresh

Next == \E ok \in BOOLEAN : First(ok) \/ Agree(ok) \/ Contradict(ok)

Spec == Init /\ [][Next]_vars
=============================================================================
