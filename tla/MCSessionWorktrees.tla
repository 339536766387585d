-------------------------- MODULE MCSessionWorktrees --------------------------
(* Instances of SessionWorktrees for TLC: the events of each run.            *)
EXTENDS SessionWorktrees, TLC

CONSTANTS a, b, h1, h2

\* One request after the other, none of them dropped.
Orderly == {"fault", "conflict", "edit", "stage", "delete"}

\* Two sessions share the base workspace: requests may be dropped between two
\* steps, git may fail to look at the paths and the branch of a merge and refuse
\* to delete a branch or a directory, and a discard or a deletion may give up a
\* merge.
Sharing == {"abandon", "lookfault", "tipfault", "branchfault", "wipefault",
            "conflict", "dropmerge", "delete"}

\* Sessions differ in nothing, and neither do handlers.
Swap == Permutations(Sessions) \cup Permutations(Handlers)

\* The events of the runs that show a disagreement.
Busy         == {"busy"}
Overlap      == {"conflict", "overlap"}
Twice        == {"twice"}
HalfAbort    == {"conflict", "halfabort"}
DropMerge    == {"conflict", "dropmerge"}
LookFault    == {"conflict", "lookfault"}
TipFault     == {"tipfault"}
BranchFault  == {"branchfault"}
AbandonEdit  == {"abandon", "edit"}
HalfDeletion == {"wipefault", "delete"}
StageInMerge == {"conflict", "edit", "latestage"}
===============================================================================
