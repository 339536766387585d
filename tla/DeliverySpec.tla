------------------------------ MODULE DeliverySpec ------------------------------
(***************************************************************************)
(* What the delivery queue promises of every member, whatever the tasks,   *)
(* handlers and restarts do: a delivery waits, is worked on, and settles;  *)
(* it leaves that path only by being withdrawn; deliveries are taken up in *)
(* the order they were accepted, one at a time, and none is taken up while *)
(* a failure awaits the user's answer.                                      *)
(***************************************************************************)
EXTENDS Naturals

CONSTANTS Members, RowIds

VARIABLE phase    \* phase[m][i]: where delivery i of member m stands

Phase == {"absent", "waiting", "active", "blocked", "settled", "withdrawn"}

Phases == [Members -> [RowIds -> Phase]]

Init == phase = [m \in Members |-> [i \in RowIds |-> "absent"]]

\* One step of one delivery.  Accepting and taking up may fall together, and
\* recovery returns an interrupted delivery to the queue.
MayBecome(p) ==
    CASE p = "absent"  -> {"absent", "waiting", "active"}
      [] p = "waiting" -> {"waiting", "active", "withdrawn"}
      [] p = "active"  -> {"active", "waiting", "blocked", "settled", "withdrawn"}
      [] p = "blocked" -> {"blocked", "settled", "withdrawn"}
      [] p = "settled" -> {"settled", "withdrawn"}
      [] OTHER         -> {"withdrawn"}

InOrder(P) == \A i, j \in RowIds :
    i < j /\ P[j] \in {"active", "blocked", "settled"}
       => P[i] \in {"blocked", "settled", "withdrawn"}

OneAtATime(P) == \A i, j \in RowIds : P[i] = "active" /\ P[j] = "active" => i = j

TakesUp(P, Q) == \E i \in RowIds : P[i] # "active" /\ Q[i] = "active"
Blocked(P)    == \E i \in RowIds : P[i] = "blocked"

MemberStep(P, Q) ==
    /\ \A i \in RowIds : Q[i] \in MayBecome(P[i])
    /\ InOrder(Q) /\ OneAtATime(Q)
    /\ TakesUp(P, Q) => ~Blocked(Q)

Next == phase' \in Phases /\ \A m \in Members : MemberStep(phase[m], phase'[m])

Spec == Init /\ [][Next]_phase
================================================================================
