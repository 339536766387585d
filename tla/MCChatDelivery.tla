---------------------------- MODULE MCChatDelivery ----------------------------
(* Instances of ChatDelivery for TLC: who the members are, and which events  *)
(* the environment may cause in which run.                                   *)
EXTENDS ChatDelivery

CONSTANTS alpha, beta

\* Everything that can happen to a member.
AnyEvent == EventKinds

\* Nobody stops a member and nothing is deleted.
Undisturbed == {"resend", "retry", "fault", "failure", "crash", "ask"}

\* Every dispatch and startup succeeds.
Healthy == {"retry", "failure", "crash", "ask", "continue", "unqueue"}

\* The events of the runs that show a disagreement.
StopOnce         == {"stop"}
CrashInRecovery  == {"crash", "relapse"}
FaultOnly        == {"fault"}
RetryOnly        == {"retry"}
ResendAfterDelete == {"unqueue", "resend"}
AskAndFail       == {"ask", "failure"}
===============================================================================
