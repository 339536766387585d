------------------------- MODULE MCWorkflowScheduler -------------------------
(* Instances of WorkflowScheduler for TLC: the edges of three plans, the   *)
(* sessions their steps are assigned to, and their display order.          *)
EXTENDS WorkflowScheduler, TLC

CONSTANTS a, b, c, g, h, p, retry

Solo  == a :> {}
Chain == a :> {} @@ b :> {a}
Join  == a :> {} @@ b :> {} @@ c :> {a, b}    \* a and b side by side

Alone1    == a :> g
Alone     == a :> g @@ b :> g @@ c :> g
Assigned2 == a :> g @@ b :> h
Assigned  == a :> g @@ b :> h @@ c :> g

Displayed1 == a :> 1
Displayed2 == a :> 1 @@ b :> 2
Displayed  == a :> 1 @@ b :> 2 @@ c :> 3
===============================================================================
