----------------------------- MODULE ApprovalSpec -----------------------------
(***************************************************************************)
(* What the approval of tool calls promises to the executor that asks, to  *)
(* the user who decides and to whoever stops the run: a decision is asked  *)
(* for on request, falls once and stays; a request is answered once, and   *)
(* with the decision, unless its run has been halted meanwhile or the      *)
(* service turned it away; and nobody decides what a process has asked     *)
(* that is dead.                                                           *)
(***************************************************************************)

CONSTANTS
  Calls,     \* what is to be decided
  Asks,      \* the requests
  CallOf,    \* CallOf[q]: what request q is about
  RunOf,     \* RunOf[c]: the run that c is part of
  Options    \* what the user may decide

VARIABLES
  asked,     \* the requests made
  halted,    \* the runs told to stop
  orphans,   \* open decisions whose process has died
  decision,  \* decision[c]: none, pending, an option, or why there is none
  reply      \* reply[q]: what request q has been answered

Ends  == {"cancelled", "expired"}

Init ==
  /\ asked = {} /\ halted = {} /\ orphans = {}
  /\ decision = [c \in Calls |-> "none"]
  /\ reply = [q \in Asks |-> "none"]

\* A decision is asked for by a request.  It falls once, and the user takes it
\* only for a process that lives.
Decides(c) ==
  \/ decision'[c] = decision[c]
  \/ /\ decision[c] = "none" /\ decision'[c] = "pending"
     /\ \E q \in asked : CallOf[q] = c
  \/ /\ decision[c] = "pending"
     /\ \/ decision'[c] \in Ends
        \/ decision'[c] \in Options /\ c \notin orphans

\* The answer is the decision; or that there is none, or will be no use for it;
\* or that somebody else asks already; or that the run has moved on.
Fits(q, v) ==
  LET outcome == decision[CallOf[q]] IN
  \/ v \in Options /\ v = outcome
  \/ v = "cancelled" /\ outcome \in Ends
  \/ v = "cancelled" /\ outcome \in Options /\ RunOf[CallOf[q]] \in halted
  \/ v = "duplicate" /\ \E p \in asked \ {q} : CallOf[p] = CallOf[q]
  \/ v = "moved"

Answers(q) ==
  \/ reply'[q] = reply[q]
  \/ q \in asked /\ reply[q] = "none" /\ Fits(q, reply'[q])

Next ==
  /\ asked \subseteq asked' /\ halted \subseteq halted'
  /\ \A c \in orphans : c \in orphans' \/ decision'[c] \in Ends
  /\ \A c \in Calls : Decides(c)
  /\ \A q \in Asks : Answers(q)

Spec == Init /\ [][Next]_<<asked, halted, orphans, decision, reply>>
===============================================================================
