--------------------------- MODULE WorkflowReducer ---------------------------
(***************************************************************************)
(* The state machine of a workflow execution: the statuses of a step, of   *)
(* the execution and of an agent session, the transitions that             *)
(* orchestrator/reducer.rs accepts, and the statuses it derives for the    *)
(* execution and for a session from the statuses of the steps.             *)
(*                                                                         *)
(* PreCompleted, Revising and Recompiling belong to reviews, loops and     *)
(* recompilation.  The tables keep them; the scheduler's model never       *)
(* enters them.                                                            *)
(***************************************************************************)

StepStatus == {"Pending", "Ready", "Running", "PreCompleted", "WaitingInput",
               "WaitingReview", "InterruptRequested", "Interrupted", "Blocked",
               "Revising", "Completed", "Failed", "Skipped"}

ExecStatus == {"Pending", "Running", "Failed", "Paused", "Recompiling",
               "Completed", "Waiting"}

SessionState == {"Idle", "Running", "Paused", "Completed", "Failed"}

-----------------------------------------------------------------------------
(* The classes the derivations are written in. *)

CompletedLike == {"Completed", "Skipped"}
WaitingLike   == {"PreCompleted", "WaitingInput", "WaitingReview"}
ReadyLike     == {"Pending", "Ready", "Blocked", "Revising"}
FailedLike    == {"Failed", "InterruptRequested", "Interrupted"}

(* derive_execution_status, over the set of the steps' statuses *)
DeriveExecution(statuses) ==
  IF statuses \subseteq {"Pending"} THEN "Pending"
  ELSE IF statuses \subseteq CompletedLike THEN "Waiting"
  ELSE IF "Running" \in statuses THEN "Running"
  ELSE IF /\ statuses \cap WaitingLike # {}
          /\ statuses \subseteq WaitingLike \cup CompletedLike \cup ReadyLike
       THEN "Waiting"
  ELSE "Paused"

(* derive_agent_session_state, over the statuses of the session's steps *)
DeriveSession(statuses) ==
  IF statuses = {} THEN "Idle"
  ELSE IF "Running" \in statuses THEN "Running"
  ELSE IF statuses \cap WaitingLike # {} THEN "Paused"
  ELSE IF statuses \cap FailedLike # {} THEN "Failed"
  ELSE IF statuses \subseteq CompletedLike THEN "Completed"
  ELSE "Idle"

-----------------------------------------------------------------------------
(* The statuses an execution and a step may move to. *)

ExecMoves ==
  [Pending     |-> {"Running", "Failed", "Paused", "Recompiling", "Completed", "Waiting"},
   Running     |-> {"Failed", "Paused", "Recompiling", "Completed", "Waiting"},
   Failed      |-> {"Running", "Paused", "Recompiling", "Waiting"},
   Paused      |-> {"Running", "Failed", "Recompiling", "Completed", "Waiting"},
   Recompiling |-> {"Running", "Failed", "Paused", "Completed", "Waiting"},
   Waiting     |-> {"Running", "Failed", "Paused", "Recompiling", "Completed"},
   Completed   |-> {}]

StepMoves ==
  [Pending            |-> {"Ready", "Blocked"},
   Ready              |-> {"Running"},
   Running            |-> {"PreCompleted", "WaitingInput", "WaitingReview",
                           "InterruptRequested", "Completed", "Failed"},
   PreCompleted       |-> {"WaitingReview", "Revising", "Completed", "Failed"},
   WaitingInput       |-> {"Ready", "Revising", "PreCompleted", "Failed",
                           "InterruptRequested"},
   WaitingReview      |-> {"Ready", "Revising", "Completed", "Failed",
                           "WaitingInput", "InterruptRequested"},
   InterruptRequested |-> {"Interrupted", "Failed"},
   Interrupted        |-> {"Ready", "Failed", "Skipped"},
   Blocked            |-> {"Ready", "Skipped"},
   Revising           |-> {"Ready", "Running", "Failed"},
   Failed             |-> {"Ready", "Skipped"},
   Completed          |-> {"Ready"},
   Skipped            |-> {}]

(* validate_step_in_execution: the statuses a step may take under an       *)
(* execution's status                                                      *)
StepsUnder ==
  [Pending     |-> {"Pending", "Ready", "Blocked", "Skipped"},
   Running     |-> StepStatus,
   Failed      |-> StepStatus \ {"Running"},
   Paused      |-> {"Pending", "Ready", "Blocked", "Completed", "Failed",
                    "Skipped", "InterruptRequested", "Interrupted"},
   Recompiling |-> StepStatus \ {"Running"},
   Completed   |-> CompletedLike,
   Waiting     |-> StepStatus \ {"Pending", "Blocked", "Running"}]

(* validate_agent_session_in_execution *)
SessionsUnder ==
  [Pending     |-> {"Idle"},
   Running     |-> SessionState,
   Failed      |-> SessionState \ {"Running"},
   Paused      |-> SessionState \ {"Running"},
   Recompiling |-> SessionState \ {"Running"},
   Completed   |-> {"Idle", "Completed"},
   Waiting     |-> {"Idle", "Paused", "Completed"}]

(* A transition of reducer.rs: from what its caller holds in memory, not   *)
(* from what the row now says.                                             *)
StepMayMove(execStatus, from, to) ==
  to \in StepMoves[from] /\ to \in StepsUnder[execStatus]

ExecMayMove(from, to) == to \in ExecMoves[from]
==============================================================================
