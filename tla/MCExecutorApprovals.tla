------------------------- MODULE MCExecutorApprovals -------------------------
(* Instances of ExecutorApprovals for TLC: which run makes which tool call, *)
(* and which request is about which of them.                                *)
EXTENDS ExecutorApprovals, TLC

CONSTANTS c, d, q1, q2

\* Two calls of one run.
SameRun == c :> 1 @@ d :> 1
\* One call in each of two runs.
TwoRuns == c :> 1 @@ d :> 2

Twice   == q1 :> c @@ q2 :> c
Each    == q1 :> c @@ q2 :> d

\* With SameRun and Each, swapping the calls and their requests changes nothing.
Swap == {p \in Permutations({c, d, q1, q2}) :
           \A q \in {q1, q2} : p[q] \in {q1, q2} /\ Each[p[q]] = p[Each[q]]}
=============================================================================
