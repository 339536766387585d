--------------------------- MODULE SessionWorktrees ---------------------------
(* The isolated git worktrees of chat sessions (session_worktree.rs,         *)
(* worktree_manager.rs, chat_session_worktree.rs and their routes).  A       *)
(* session works on a branch of its own in a directory of its own; a row     *)
(* says how far that worktree is, and a merge squashes what the branch has   *)
(* after the row's cursor into one commit of the base workspace, which all   *)
(* sessions and the user share.  A step is one statement, or one git command *)
(* with the reads it depends on, so requests interleave between them and a   *)
(* request that is dropped, by a restart or by its client, leaves the rows   *)
(* and the repository as they are.                                           *)
EXTENDS Integers, FiniteSets

CONSTANTS Sessions,    \* isolated sessions with one base workspace
          Handlers,    \* requests and run starts that may be under way at once
          MaxRows,     \* bound on the worktrees a session has in its life
          MaxCommits,  \* bound on the commits made in one worktree
          Events,      \* the events below that the environment may cause
          Budget       \* bound on how many of them it causes

EventKinds ==
  {"abandon",      \* a request is dropped between two steps
   "halfabort",    \* ... or an abort after it has reset the base workspace
   "fault",        \* git or the file system fails, but for the next four
   "lookfault",    \* git fails to list the unmerged paths after a patch
   "tipfault",     \* git fails to read the branch after a commit
   "branchfault",  \* git fails to delete a branch
   "wipefault",    \* the worktree of a session that is deleted is not removed
   "conflict",     \* the base workspace has diverged from what a patch touches
   "busy",         \* an agent commits while its session is being merged
   "edit",         \* the user edits a tracked file of the base workspace
   "stage",        \* the user stages that edit
   "latestage",    \* ... while a session is being merged
   "dropmerge",    \* a worktree that is being merged is discarded or deleted
   "delete",       \* the user deletes a session
   "overlap",      \* a merge passes its checks while another one is open
   "twice"}        \* a session has two requests or run starts under way

ASSUME WorktreeAssumption ==
  /\ IsFiniteSet(Sessions) /\ IsFiniteSet(Handlers)
  /\ MaxRows \in Nat /\ MaxCommits \in Nat
  /\ Events \subseteq EventKinds /\ Budget \in Nat

VARIABLES
  row,       \* row[s]: the worktree rows of s, oldest first
  tip,       \* tip[s]: commits on the branch of s, or NoBranch
  dir,       \* dir[s]: what is at the worktree path of s
  head,      \* head[s]: commits of s the base branch accounts for
  staged,    \* staged[s]: commits of s in the index of the base workspace,
  unmerged,  \* ... in it as unmerged paths,
  loose,     \* ... and in its files only
  edit,      \* the user's own edit of the base workspace
  run,       \* run[s]: the workspace the last run of s was started in
  call,      \* call[h]: the request that h serves
  gone,      \* deleted sessions
  budget     \* bound: events the environment may still cause

base == <<head, staged, unmerged, loose, edit>>
vars == <<row, tip, dir, base, run, call, gone, budget>>

-------------------------------------------------------------------------------
(* State. *)

NoBranch == -1
NoRow    == 0
RowIds   == 1..MaxRows

\* Commits of the session's branch; 0 stands for those of an earlier branch.
Commits == 0..MaxCommits

\* SessionWorktreeStatus; "none" is a row that does not exist.
Status == {"none", "creating", "active", "dirty", "merging", "needs_resolution",
           "merged", "archived", "cleanup_pending", "cleanup_failed"}

\* The rows find_active_by_session finds and the unique index guards.
Live == {"creating", "active", "dirty", "merging", "needs_resolution", "merged",
         "cleanup_pending"}

(* mutant: a worktree whose cleanup failed is still offered to runs *)
ForWorkspaceFailed == {"creating", "active", "dirty", "merging",
                       "needs_resolution", "merged", "cleanup_failed"}

\* is_active_for_workspace
ForWorkspace == {"creating", "active", "dirty", "merging", "needs_resolution",
                 "merged"}

\* validate_transition, apart from the self-transitions it allows.
Edges(from) ==
  CASE from = "creating"         -> {"active", "cleanup_failed", "archived"}
    [] from = "active"           -> {"dirty", "merging", "cleanup_pending",
                                     "archived", "cleanup_failed"}
    [] from = "dirty"            -> {"active", "merging", "cleanup_pending",
                                     "archived", "cleanup_failed"}
    [] from = "merging"          -> {"merged", "needs_resolution", "dirty", "active",
                                     "cleanup_pending", "cleanup_failed"}
    [] from = "needs_resolution" -> {"merged", "dirty", "merging",
                                     "cleanup_pending", "cleanup_failed"}
    [] from = "merged"           -> {"dirty", "cleanup_pending", "archived"}
    [] from = "cleanup_pending"  -> {"archived", "cleanup_failed"}
    [] from = "cleanup_failed"   -> {"cleanup_pending", "archived"}
    [] OTHER                     -> {}
Allowed(from, to) == to = from \/ to \in Edges(from)

\* base_commit is the cursor; squash says that merge_operation is set.
Row    == [status : Status, cursor : 0..MaxCommits, squash : BOOLEAN]
NoneRow == [status |-> "none", cursor |-> 0, squash |-> FALSE]

Pc == {"free", "branch", "add", "activate", "unmake", "start",
       "check", "claim", "note", "diff", "unstage", "apply", "list", "look",
       "commit", "retreat", "tip", "mark", "cursor", "conflicted", "undo",
       "verify", "reset", "remove", "fail", "unbranch", "archive",
       "wipe", "wipebranch", "cascade"}

\* op: the request; row: the row it works on; patch: the commits it applies;
\* upto: the tip it read; squash: merge_operation as it read it; path: the
\* workspace a run was given.
Call == [op : {"none", "run", "prepare", "merge", "continue", "abort", "discard",
               "retry", "force", "delete"},
         s : Sessions, pc : Pc, row : RowIds \cup {NoRow},
         patch : SUBSET Commits, upto : 0..MaxCommits, squash : BOOLEAN,
         path : {"base", "worktree"}]

Free(s) == [op |-> "none", s |-> s, pc |-> "free", row |-> NoRow, patch |-> {},
            upto |-> 0, squash |-> FALSE, path |-> "base"]

Init ==
  /\ row = [s \in Sessions |-> [i \in RowIds |-> NoneRow]]
  /\ tip = [s \in Sessions |-> NoBranch]
  /\ dir = [s \in Sessions |-> "none"]
  /\ head = [s \in Sessions |-> {}]
  /\ staged = [s \in Sessions |-> {}]
  /\ unmerged = [s \in Sessions |-> {}]
  /\ loose = [s \in Sessions |-> {}]
  /\ edit = "none"
  /\ run = [s \in Sessions |-> "none"]
  /\ call \in [Handlers -> {Free(s) : s \in Sessions}]
  /\ gone = {}
  /\ budget = Budget

-------------------------------------------------------------------------------
(* Statements. *)

Spend(event) == event \in Events /\ budget > 0 /\ budget' = budget - 1

\* find_active_by_session; the unique index leaves at most one such row.
LiveRows(s)   == {i \in RowIds : row[s][i].status \in Live}
ActiveRow(s)  == IF LiveRows(s) = {} THEN NoRow
                 ELSE CHOOSE i \in LiveRows(s) : \A j \in LiveRows(s) : j <= i
ActiveStatus(s) ==
  IF ActiveRow(s) = NoRow THEN "none" ELSE row[s][ActiveRow(s)].status

\* find_latest_for_session
Used(s)   == {i \in RowIds : row[s][i].status # "none"}
Latest(s) == IF Used(s) = {} THEN NoRow
             ELSE CHOOSE i \in Used(s) : \A j \in Used(s) : j <= i

\* find_latest_by_session_and_status with cleanup_failed
Failed(s) == {i \in RowIds : row[s][i].status = "cleanup_failed"}
LatestFailed(s) == CHOOSE i \in Failed(s) : \A j \in Failed(s) : j <= i

SetStatus(s, i, to) == row' = [row EXCEPT ![s][i].status = to]

\* apply_transition on the active row: find, validate, compare and set.  A row
\* that changes in between is refused, as when it had changed before.
CanMove(s, to) == ActiveRow(s) # NoRow /\ Allowed(ActiveStatus(s), to)
Move(s, to)    == SetStatus(s, ActiveRow(s), to)

\* transition_status_clearing_transient
MoveClearing(s, i, to) ==
  row' = [row EXCEPT ![s][i].status = to, ![s][i].squash = FALSE]

\* create: the unique index refuses a second live row.
CanCreate(s) == LiveRows(s) = {} /\ Latest(s) < MaxRows
NewRow(s)    == Latest(s) + 1
Create(s)    == row' = [row EXCEPT ![s][NewRow(s)] = [NoneRow EXCEPT !.status = "creating"]]

-------------------------------------------------------------------------------
(* Handlers. *)

At(h, pc) == call[h].pc = pc
Goto(h, pc) == call' = [call EXCEPT ![h].pc = pc]
Done(h)   == call' = [call EXCEPT ![h] = Free(call[h].s)]

NoGit == UNCHANGED <<tip, dir, base>>
Aside == UNCHANGED <<run, gone, budget>>

Serving(s) == \E h \in Handlers : call[h].s = s /\ ~At(h, "free")

\* A request takes a free handler; a session has one at a time, or "twice".
Begin(h, s, c) ==
  /\ At(h, "free") /\ s \notin gone
  /\ call' = [call EXCEPT ![h] = c]

Request(s) ==
  IF Serving(s) THEN Spend("twice") ELSE UNCHANGED budget

NewCall(op, s, pc, i) ==
  [Free(s) EXCEPT !.op = op, !.pc = pc, !.row = i,
                  !.squash = i # NoRow /\ row[s][i].squash]

-------------------------------------------------------------------------------
(* ensure_for_session and the start of a run. *)

\* branch_has_commits_not_in_base; a squash never makes the branch an ancestor.
HasUnmerged(s, i) ==
  tip[s] > (IF row[s][i].squash THEN row[s][i].cursor ELSE 0)

\* refresh_merge_availability, part of every read of the latest row.
Refresh(s) ==
  LET i == Latest(s) IN
  IF i # NoRow /\ row[s][i].status = "merged" /\ HasUnmerged(s, i)
  THEN SetStatus(s, i, "dirty") ELSE UNCHANGED row

\* get_worktree_status
Poll(s) ==
  /\ s \notin gone /\ Refresh(s) /\ row' # row
  /\ UNCHANGED call /\ NoGit /\ Aside

\* prepare_worktree: an existing live row is all it needs.
Prepare(h, s) ==
  /\ CanCreate(s) /\ Create(s)
  /\ Begin(h, s, NewCall("prepare", s, "branch", NewRow(s)))
  /\ Request(s) /\ NoGit /\ UNCHANGED <<run, gone>>

\* resolve_workspace_path_for_agent: the first run creates the worktree.
ResolveWorkspace(h, s) ==
  /\ Begin(h, s,
       IF Latest(s) = NoRow THEN NewCall("run", s, "branch", 1)
       ELSE [NewCall("run", s, "start", Latest(s)) EXCEPT !.path =
               IF row[s][Latest(s)].status \in ForWorkspace THEN "worktree" ELSE "base"])
  /\ IF Latest(s) = NoRow THEN CanCreate(s) /\ Create(s) ELSE Refresh(s)
  /\ Request(s) /\ NoGit /\ UNCHANGED <<run, gone>>

\* create_worktree makes the branch, which must not exist ...
Earlier(commits) == IF commits = {} THEN {} ELSE {0}

MakeBranch(h) ==
  LET s == call[h].s IN
  /\ At(h, "branch")
  /\ IF tip[s] # NoBranch
     THEN Goto(h, "unmake") /\ UNCHANGED <<tip, base>>
     ELSE /\ Goto(h, "add")
          /\ tip' = [tip EXCEPT ![s] = 0]
          /\ head' = [head EXCEPT ![s] = {}]
          /\ staged' = [staged EXCEPT ![s] = Earlier(@)]
          /\ unmerged' = [unmerged EXCEPT ![s] = Earlier(@)]
          /\ loose' = [loose EXCEPT ![s] = Earlier(@)]
          /\ UNCHANGED edit
  /\ UNCHANGED <<row, dir>> /\ Aside

\* ... and ensure_worktree_exists_inner the directory; what is left at its
\* path is removed first.
AddWorktree(h) ==
  /\ At(h, "add")
  /\ \/ /\ dir' = [dir EXCEPT ![call[h].s] = "worktree"]
        /\ Goto(h, "activate") /\ UNCHANGED budget
     \/ /\ dir[call[h].s] # "worktree" /\ Spend("fault")
        /\ Goto(h, "unmake") /\ UNCHANGED dir
  /\ UNCHANGED <<row, tip, base, run, gone>>

\* A run goes on to start in the worktree it made.
Activate(h) ==
  LET s == call[h].s  i == call[h].row IN
  /\ At(h, "activate")
  /\ IF row[s][i].status = "creating"
     THEN /\ SetStatus(s, i, "active")
          /\ IF call[h].op = "run"
             THEN call' = [call EXCEPT ![h].pc = "start", ![h].path = "worktree"]
             ELSE Done(h)
     ELSE UNCHANGED row /\ Done(h)
  /\ NoGit /\ Aside

Unmake(h) ==
  LET s == call[h].s  i == call[h].row IN
  /\ At(h, "unmake")
  /\ IF row[s][i].status = "creating" THEN SetStatus(s, i, "cleanup_failed")
     ELSE UNCHANGED row
  /\ Done(h) /\ NoGit /\ Aside

\* run_agent_internal makes the directory it was given, if there is none.
StartRun(h) ==
  LET s == call[h].s IN
  /\ At(h, "start")
  /\ run' = [run EXCEPT ![s] = call[h].path]
  /\ dir' = [dir EXCEPT ![s] =
       IF call[h].path = "worktree" /\ @ = "none" THEN "plain" ELSE @]
  /\ Done(h) /\ UNCHANGED <<row, tip, base, gone, budget>>

\* An agent commits in its worktree.
BeingMerged(s) == ActiveStatus(s) \in {"merging", "needs_resolution"}

AgentCommits(s) ==
  /\ run[s] = "worktree" /\ dir[s] = "worktree" /\ tip[s] \in 0..(MaxCommits - 1)
  /\ IF BeingMerged(s) THEN Spend("busy") ELSE UNCHANGED budget
  /\ tip' = [tip EXCEPT ![s] = @ + 1]
  /\ UNCHANGED <<row, dir, base, run, call, gone>>

-------------------------------------------------------------------------------
(* The base workspace. *)

None == [s \in Sessions |-> {}]
And(f, g) == [s \in Sessions |-> f[s] \cup g[s]]

\* git reset --merge HEAD: what is staged or unmerged goes.
ResetMerge ==
  /\ staged' = None /\ unmerged' = None
  /\ edit' = IF edit = "staged" THEN "lost" ELSE edit
  /\ UNCHANGED <<head, loose>>

\* git merge --abort, which fails without a merge, and git reset --hard HEAD.
ResetHard ==
  /\ staged' = None /\ unmerged' = None /\ loose' = None
  /\ edit' = IF edit \in {"loose", "staged"} THEN "lost" ELSE edit
  /\ UNCHANGED head

\* unstage_pre_merge_dirty_paths: the index is HEAD again, the files stay.
UnstageDirty ==
  /\ staged' = None /\ unmerged' = None
  /\ loose' = And(loose, And(staged, unmerged))
  /\ edit' = IF edit = "staged" THEN "loose" ELSE edit
  /\ UNCHANGED head

IsStaged == staged # None \/ edit = "staged"

\* git commit takes the whole index.
CommitIndex ==
  /\ head' = And(head, staged) /\ staged' = None
  /\ edit' = IF edit = "staged" THEN "committed" ELSE edit
  /\ UNCHANGED <<unmerged, loose>>

UserEdits ==
  /\ edit = "none" /\ Spend("edit") /\ edit' = "loose"
  /\ UNCHANGED <<row, tip, dir, head, staged, unmerged, loose, run, call, gone>>

UserStages ==
  /\ edit = "loose" /\ edit' = "staged"
  /\ Spend(IF \E s \in Sessions : BeingMerged(s) THEN "latestage" ELSE "stage")
  /\ UNCHANGED <<row, tip, dir, head, staged, unmerged, loose, run, call, gone>>

-------------------------------------------------------------------------------
(* perform_merge. *)

MergeWork == {"claim", "note", "diff", "unstage", "apply", "list", "look",
              "commit", "retreat", "tip", "mark", "cursor", "conflicted", "undo",
              "verify", "reset"}

OthersMerge(s) ==
  \E t \in Sessions \ {s} :
     \/ BeingMerged(t)
     \/ \E h \in Handlers : call[h].s = t /\ call[h].pc \in MergeWork

\* merge_worktree needs an active row.
RequestMerge(h, s) ==
  /\ ActiveRow(s) # NoRow
  /\ Begin(h, s, NewCall("merge", s, "check", ActiveRow(s)))
  /\ Request(s) /\ UNCHANGED <<row, run, gone>> /\ NoGit

(* mutant: the unmerged paths of another merge are not looked for *)
CheckBaseNever(h) ==
  /\ At(h, "check") /\ Goto(h, "claim")
  /\ IF unmerged = None /\ OthersMerge(call[h].s) THEN Spend("overlap")
     ELSE UNCHANGED budget
  /\ UNCHANGED <<row, run, gone>> /\ NoGit

\* validate_merge_preconditions: a squash leaves no marker, so only unmerged
\* paths show that an integration is in progress.  "overlap" when another one
\* is and there are none.
CheckBase(h) ==
  /\ At(h, "check")
  /\ IF unmerged # None THEN Done(h) /\ UNCHANGED budget
     ELSE /\ Goto(h, "claim")
          /\ IF OthersMerge(call[h].s) THEN Spend("overlap") ELSE UNCHANGED budget
  /\ UNCHANGED <<row, run, gone>> /\ NoGit

\* merge_session_changes: the status first, ...
Claim(h) ==
  LET s == call[h].s IN
  /\ At(h, "claim")
  /\ IF CanMove(s, "merging")
     THEN /\ Move(s, "merging")
          /\ call' = [call EXCEPT ![h].pc = "note", ![h].row = ActiveRow(s)]
     ELSE UNCHANGED row /\ Done(h)
  /\ NoGit /\ Aside

\* ... then the operation; no row, no merge.
Note(h) ==
  LET s == call[h].s  i == call[h].row IN
  /\ At(h, "note")
  /\ IF row[s][i].status = "none" THEN UNCHANGED row /\ Done(h)
     ELSE /\ row' = [row EXCEPT ![s][i].squash = TRUE]
          /\ call' = [call EXCEPT ![h].pc = "diff", ![h].squash = TRUE,
                                  ![h].upto = row[s][i].cursor]
  /\ NoGit /\ Aside

\* execute_squash_merge: the patch from the cursor to the tip, if there is one.
Diff(h) ==
  LET s == call[h].s
      patch == {n \in Commits : call[h].upto < n /\ n <= tip[s]} IN
  /\ At(h, "diff")
  /\ call' = [call EXCEPT ![h].patch = patch,
                          ![h].pc = IF tip[s] = NoBranch THEN "undo"
                                    ELSE IF patch = {} THEN "tip" ELSE "unstage"]
  /\ UNCHANGED row /\ NoGit /\ Aside

(* mutant: what is staged already is left in the index *)
UnstageNothing(h) ==
  /\ At(h, "unstage")
  /\ Goto(h, "apply") /\ UNCHANGED row /\ NoGit /\ Aside

Unstage(h) ==
  /\ At(h, "unstage")
  /\ UnstageDirty /\ Goto(h, "apply")
  /\ UNCHANGED <<row, tip, dir>> /\ Aside

\* git apply --3way --index: clean, ...
InTheWay == loose # None \/ unmerged # None \/ edit = "loose"

ApplyClean(h) ==
  LET s == call[h].s IN
  /\ At(h, "apply") /\ loose[s] \cap call[h].patch = {}
  /\ staged' = [staged EXCEPT ![s] = @ \cup (call[h].patch \ head[s])]
  /\ Goto(h, "look")
  /\ UNCHANGED <<row, tip, dir, head, unmerged, loose, edit>> /\ Aside

\* ... with conflicts, ...
ApplyConflicts(h) ==
  LET s == call[h].s IN
  /\ At(h, "apply") /\ loose[s] \cap call[h].patch = {}
  /\ ~(call[h].patch \subseteq head[s]) /\ Spend("conflict")
  /\ unmerged' = [unmerged EXCEPT ![s] = @ \cup (call[h].patch \ head[s])]
  /\ Goto(h, "list")
  /\ UNCHANGED <<row, tip, dir, head, staged, loose, edit, run, gone>>

\* ... or refused, because of what is in the files already or by a failure.
ApplyRefused(h) ==
  /\ At(h, "apply")
  /\ IF InTheWay THEN UNCHANGED budget ELSE Spend("fault")
  /\ Goto(h, "list")
  /\ UNCHANGED <<row, run, gone>> /\ NoGit

\* list_unmerged_paths tells conflicts, whose ever they are, from a refusal.
\* When it fails the merge is given up as it stands.
ListUnmerged(h) ==
  /\ At(h, "list")
  /\ \/ /\ Goto(h, IF unmerged # None THEN "conflicted" ELSE "retreat")
        /\ UNCHANGED budget
     \/ Spend("lookfault") /\ Goto(h, "undo")
  /\ UNCHANGED <<row, run, gone>> /\ NoGit

\* The base workspace is reset; nobody looks whether that has worked.
Retreat(h) ==
  /\ At(h, "retreat") /\ Goto(h, "undo")
  /\ \/ ResetMerge /\ UNCHANGED budget
     \/ Spend("fault") /\ UNCHANGED base
  /\ UNCHANGED <<row, tip, dir, run, gone>>

\* A patch that changes nothing needs no commit.
Look(h) ==
  /\ At(h, "look")
  /\ Goto(h, IF IsStaged THEN "commit" ELSE "tip")
  /\ UNCHANGED row /\ NoGit /\ Aside

\* What a commit that fails has left is reset by a merge, not by continue_merge.
Commit(h) ==
  /\ At(h, "commit")
  /\ \/ /\ IsStaged /\ unmerged = None /\ CommitIndex
        /\ Goto(h, "tip") /\ UNCHANGED budget
     \/ /\ IF IsStaged /\ unmerged = None THEN Spend("fault") ELSE UNCHANGED budget
        /\ IF call[h].op = "merge" THEN Goto(h, "retreat") ELSE Done(h)
        /\ UNCHANGED base
  /\ UNCHANGED <<row, tip, dir, run, gone>>

\* mark_cursor_integration_merged: the tip as it is now.  A request that cannot
\* read it returns, and leaves the row in the middle of its merge.
ReadTip(h) ==
  LET s == call[h].s IN
  /\ At(h, "tip")
  /\ \/ /\ IF ~call[h].squash THEN Goto(h, "mark")
           ELSE IF tip[s] = NoBranch THEN Done(h)
           ELSE call' = [call EXCEPT ![h].pc = "mark", ![h].upto = tip[s]]
        /\ UNCHANGED budget
     \/ call[h].squash /\ Spend("tipfault") /\ Done(h)
  /\ UNCHANGED <<row, run, gone>> /\ NoGit

\* mark_merged, ...
MarkMerged(h) ==
  LET s == call[h].s IN
  /\ At(h, "mark")
  /\ IF CanMove(s, "merged")
     THEN /\ Move(s, "merged")
          /\ IF call[h].squash
             THEN call' = [call EXCEPT ![h].pc = "cursor", ![h].row = ActiveRow(s)]
             ELSE Done(h)
     ELSE UNCHANGED row /\ Done(h)
  /\ NoGit /\ Aside

(* mutant: the cursor is the commit after the tip *)
RecordCursorNext(h) ==
  LET s == call[h].s  i == call[h].row IN
  /\ At(h, "cursor")
  /\ row' = IF row[s][i].status = "none" THEN row
            ELSE [row EXCEPT ![s][i].cursor = call[h].upto + 1]
  /\ Done(h) /\ NoGit /\ Aside

\* ... record_base_commit.
RecordCursor(h) ==
  LET s == call[h].s  i == call[h].row IN
  /\ At(h, "cursor")
  /\ row' = IF row[s][i].status = "none" THEN row
            ELSE [row EXCEPT ![s][i].cursor = call[h].upto]
  /\ Done(h) /\ NoGit /\ Aside

\* mark_needs_conflict_resolution
MarkConflicted(h) ==
  LET s == call[h].s IN
  /\ At(h, "conflicted")
  /\ IF CanMove(s, "needs_resolution") THEN Move(s, "needs_resolution")
     ELSE UNCHANGED row
  /\ Done(h) /\ NoGit /\ Aside

\* abort_merge: the row, not the base workspace.
Undo(h) ==
  LET s == call[h].s IN
  /\ At(h, "undo")
  /\ IF CanMove(s, "dirty") THEN MoveClearing(s, ActiveRow(s), "dirty")
     ELSE UNCHANGED row
  /\ Done(h) /\ NoGit /\ Aside

\* A git command that has changed nothing fails.  Before the claim, and in a
\* continuation, the request returns; a merge that is under way is given up.
GitFails(h) ==
  /\ Spend("fault")
  /\ \/ At(h, "branch") /\ Goto(h, "unmake")
     \/ call[h].pc \in {"diff", "unstage"} /\ Goto(h, "undo")
     \/ At(h, "look") /\ call[h].op = "merge" /\ Goto(h, "retreat")
     \/ At(h, "look") /\ call[h].op = "continue" /\ Done(h)
     \/ call[h].pc \in {"check", "verify"} /\ Done(h)
  /\ UNCHANGED <<row, run, gone>> /\ NoGit

-------------------------------------------------------------------------------
(* Resolution, continuation and abortion. *)

\* resolve_conflict_file, for all files of one session's patch: the session's
\* content is staged, or the base's stands and the patch is accounted for.
Resolve(s, t) ==
  /\ s \notin gone /\ ActiveStatus(s) = "needs_resolution" /\ unmerged[t] # {}
  /\ unmerged' = [unmerged EXCEPT ![t] = {}]
  /\ \/ staged' = [staged EXCEPT ![t] = @ \cup unmerged[t]] /\ UNCHANGED head
     \/ head' = [head EXCEPT ![t] = @ \cup unmerged[t]] /\ UNCHANGED staged
  /\ UNCHANGED <<row, tip, dir, loose, edit, call>> /\ Aside

\* continue_merge
RequestContinue(h, s) ==
  /\ ActiveStatus(s) = "needs_resolution"
  /\ Begin(h, s, NewCall("continue", s, "verify", ActiveRow(s)))
  /\ Request(s) /\ UNCHANGED <<row, run, gone>> /\ NoGit

(* mutant: unresolved conflicts do not stop a continuation *)
VerifyNothing(h) ==
  /\ At(h, "verify")
  /\ Goto(h, IF call[h].squash THEN "look" ELSE "commit")
  /\ UNCHANGED row /\ NoGit /\ Aside

Verify(h) ==
  /\ At(h, "verify")
  /\ IF unmerged # None THEN Done(h)
     ELSE Goto(h, IF call[h].squash THEN "look" ELSE "commit")
  /\ UNCHANGED row /\ NoGit /\ Aside

(* mutant: an abort changes the status and not the base workspace *)
RequestAbortUnreset(h, s) ==
  /\ BeingMerged(s)
  /\ Begin(h, s, NewCall("abort", s, "undo", ActiveRow(s)))
  /\ Request(s) /\ UNCHANGED <<row, run, gone>> /\ NoGit

\* perform_abort_merge
RequestAbort(h, s) ==
  /\ BeingMerged(s)
  /\ Begin(h, s, NewCall("abort", s, "reset", ActiveRow(s)))
  /\ Request(s) /\ UNCHANGED <<row, run, gone>> /\ NoGit

ResetBase(h) ==
  /\ At(h, "reset")
  /\ \/ /\ IF call[h].squash THEN ResetMerge ELSE ResetHard
        /\ Goto(h, "undo") /\ UNCHANGED budget
     \/ /\ Spend("fault") /\ UNCHANGED base
        /\ IF call[h].squash THEN Done(h) ELSE Goto(h, "undo")
  /\ UNCHANGED <<row, tip, dir, run, gone>>

-------------------------------------------------------------------------------
(* Cleanup. *)

\* discard_worktree
RequestDiscard(h, s) ==
  /\ CanMove(s, "cleanup_pending") /\ Move(s, "cleanup_pending")
  /\ Begin(h, s, NewCall("discard", s, "remove", ActiveRow(s)))
  /\ IF Serving(s) THEN Spend("twice")
     ELSE IF BeingMerged(s) THEN Spend("dropmerge") ELSE UNCHANGED budget
  /\ NoGit /\ UNCHANGED <<run, gone>>

(* mutant: a cleanup is retried beside a live worktree *)
RequestRetryAnyway(h, s, op) ==
  /\ Failed(s) # {}
  /\ SetStatus(s, LatestFailed(s), "cleanup_pending")
  /\ Begin(h, s, NewCall(op, s, "remove", LatestFailed(s)))
  /\ Request(s) /\ NoGit /\ UNCHANGED <<run, gone>>

\* retry_cleanup and force_remove_failed_cleanup, only without a live row.
RequestRetry(h, s, op) ==
  /\ LiveRows(s) = {} /\ Failed(s) # {}
  /\ SetStatus(s, LatestFailed(s), "cleanup_pending")
  /\ Begin(h, s, NewCall(op, s, "remove", LatestFailed(s)))
  /\ Request(s) /\ NoGit /\ UNCHANGED <<run, gone>>

\* The directory goes, or it is locked and only its registration goes.
Removed(s, left) ==
  dir' = [dir EXCEPT ![s] = IF left /\ @ # "none" THEN "plain" ELSE "none"]

\* cleanup_worktree; force_remove_worktree puts up with a locked directory.
RemoveWorktree(h) ==
  LET s == call[h].s IN
  /\ At(h, "remove")
  /\ \/ /\ Removed(s, FALSE) /\ UNCHANGED budget
        /\ Goto(h, "unbranch")
     \/ /\ dir[s] # "none" /\ Spend("fault") /\ Removed(s, TRUE)
        /\ \/ Goto(h, "fail")
           \/ call[h].op = "force" /\ Goto(h, "unbranch")
  /\ UNCHANGED <<row, tip, base, run, gone>>

(* mutant: the failure is reported and not recorded *)
FailQuietly(h) ==
  /\ At(h, "fail") /\ UNCHANGED row /\ Done(h) /\ NoGit /\ Aside

Fail(h) ==
  LET s == call[h].s  i == call[h].row IN
  /\ At(h, "fail")
  /\ IF row[s][i].status = "cleanup_pending"
     THEN MoveClearing(s, i, "cleanup_failed") ELSE UNCHANGED row
  /\ Done(h) /\ NoGit /\ Aside

\* delete_session_branch_if_present: git keeps a branch that is checked out.
DeleteBranch(h, then) ==
  LET s == call[h].s IN
  \/ /\ dir[s] # "worktree" \/ tip[s] = NoBranch
     /\ tip' = [tip EXCEPT ![s] = NoBranch]
     /\ Goto(h, then) /\ UNCHANGED budget
  \/ /\ tip[s] # NoBranch
     /\ IF dir[s] = "worktree" THEN UNCHANGED budget ELSE Spend("branchfault")
     /\ Done(h) /\ UNCHANGED tip

Unbranch(h) ==
  /\ At(h, "unbranch") /\ DeleteBranch(h, "archive")
  /\ UNCHANGED <<row, dir, base, run, gone>>

Archive(h) ==
  LET s == call[h].s  i == call[h].row IN
  /\ At(h, "archive")
  /\ IF row[s][i].status = "cleanup_pending" THEN MoveClearing(s, i, "archived")
     ELSE UNCHANGED row
  /\ Done(h) /\ NoGit /\ Aside

\* delete_session: force_cleanup_for_session_deletion, then the cascade.
RequestDelete(h, s) ==
  /\ Used(s) # {} /\ ~Serving(s) /\ Spend("delete")
  /\ BeingMerged(s) => "dropmerge" \in Events
  /\ Begin(h, s, NewCall("delete", s, "wipe", NoRow))
  /\ UNCHANGED <<row, run, gone>> /\ NoGit

Wipe(h) ==
  LET s == call[h].s IN
  /\ At(h, "wipe")
  /\ \/ Removed(s, FALSE) /\ UNCHANGED budget
     \/ dir[s] # "none" /\ Spend("fault") /\ Removed(s, TRUE)
  /\ Goto(h, "wipebranch") /\ UNCHANGED <<row, tip, base, run, gone>>

WipeFails(h) ==
  /\ At(h, "wipe") /\ dir[call[h].s] # "none" /\ Spend("wipefault")
  /\ Removed(call[h].s, TRUE)
  /\ Done(h) /\ UNCHANGED <<row, tip, base, run, gone>>

WipeBranch(h) ==
  /\ At(h, "wipebranch") /\ DeleteBranch(h, "cascade")
  /\ UNCHANGED <<row, dir, base, run, gone>>

Cascade(h) ==
  LET s == call[h].s IN
  /\ At(h, "cascade")
  /\ row' = [row EXCEPT ![s] = [i \in RowIds |-> NoneRow]]
  /\ gone' = gone \cup {s}
  /\ Done(h) /\ NoGit /\ UNCHANGED <<run, budget>>

-------------------------------------------------------------------------------
(* The next-state relation. *)

\* The backend dies or the client leaves: the request stops where it is.
Abandon(h) ==
  /\ ~At(h, "free") /\ Done(h)
  /\ Spend(IF At(h, "undo") /\ call[h].op = "abort" THEN "halfabort" ELSE "abandon")
  /\ UNCHANGED <<row, tip, dir, base, run, gone>>

Make(h)  == MakeBranch(h) \/ AddWorktree(h) \/ Activate(h) \/ Unmake(h) \/ StartRun(h)
Merge(h) ==
  \/ CheckBase(h) \/ Claim(h) \/ Note(h) \/ Diff(h) \/ Unstage(h)
  \/ ApplyClean(h) \/ ApplyConflicts(h) \/ ApplyRefused(h) \/ ListUnmerged(h)
  \/ Look(h) \/ Commit(h) \/ Retreat(h) \/ ReadTip(h) \/ MarkMerged(h)
  \/ RecordCursor(h) \/ MarkConflicted(h) \/ Undo(h) \/ Verify(h) \/ ResetBase(h)
  \/ GitFails(h)
Clean(h) ==
  \/ RemoveWorktree(h) \/ Fail(h) \/ Unbranch(h) \/ Archive(h)
  \/ Wipe(h) \/ WipeFails(h) \/ WipeBranch(h) \/ Cascade(h)
Step(h)  == Make(h) \/ Merge(h) \/ Clean(h)

Requests(h, s) ==
  \/ Prepare(h, s) \/ ResolveWorkspace(h, s) \/ RequestMerge(h, s)
  \/ RequestContinue(h, s) \/ RequestAbort(h, s) \/ RequestDiscard(h, s)
  \/ RequestRetry(h, s, "retry") \/ RequestRetry(h, s, "force")
  \/ RequestDelete(h, s)

Next ==
  \/ \E h \in Handlers : Step(h) \/ Abandon(h)
  \/ \E h \in Handlers, s \in Sessions : Requests(h, s)
  \/ \E s \in Sessions : Poll(s) \/ AgentCommits(s) \/ \E t \in Sessions : Resolve(s, t)
  \/ UserEdits \/ UserStages

Spec == Init /\ [][Next]_vars

\* A request that is not dropped goes on to its end.
FairSpec == Spec /\ \A h \in Handlers : WF_vars(Step(h))

-------------------------------------------------------------------------------
(* What must hold. *)

TypeOK ==
  /\ row \in [Sessions -> [RowIds -> Row]]
  /\ tip \in [Sessions -> NoBranch..MaxCommits]
  /\ dir \in [Sessions -> {"none", "plain", "worktree"}]
  /\ head \in [Sessions -> SUBSET Commits]
  /\ staged \in [Sessions -> SUBSET Commits]
  /\ unmerged \in [Sessions -> SUBSET Commits]
  /\ loose \in [Sessions -> SUBSET Commits]
  /\ edit \in {"none", "loose", "staged", "committed", "lost"}
  /\ run \in [Sessions -> {"none", "base", "worktree"}]
  /\ call \in [Handlers -> Call]
  /\ gone \in SUBSET Sessions
  /\ budget \in 0..Budget

\* No cleanup removes the directory or the branch of a worktree in use: while
\* a row says the worktree is there, both exist, unless its session is being
\* deleted.
BeingDeleted(s) == \E h \in Handlers : call[h].op = "delete" /\ call[h].s = s

LiveWorktreeIntact ==
  \A s \in Sessions : \A i \in RowIds :
    row[s][i].status \in ForWorkspace \ {"creating"} /\ ~BeingDeleted(s)
      => dir[s] = "worktree" /\ tip[s] # NoBranch

\* The cursor never passes a commit that the base branch does not account for:
\* such a commit is in no later patch, and a discard deletes it for good.
NothingSkipped ==
  \A s \in Sessions : \A i \in RowIds :
    row[s][i].status \in ForWorkspace
      => {n \in Commits : 0 < n /\ n <= row[s][i].cursor} \subseteq head[s]

\* Unmerged paths in the base workspace belong to a merge that can still be
\* resolved or aborted, as long as git can list them ("lookfault").
ConflictHasOwner ==
  \A s \in Sessions : unmerged[s] # {} => BeingMerged(s)

\* A merge adds the commits of its own session to the base branch, and of no
\* other.
CommitIsOwn ==
  [][\A h \in Handlers : Commit(h) =>
       \A s \in Sessions : head'[s] # head[s] => s = call[h].s]_vars

\* No step of a merge loses or commits what the user has edited in the base
\* workspace.
Kept == {"loose", "staged"}
EditsStay == [][(edit \in Kept) => (edit' \in Kept)]_vars

\* Where a run was sent to a worktree, there is one.
RunsInWorktree ==
  [][\A s \in Sessions :
       run'[s] = "worktree" /\ run[s] # "worktree" => dir[s] = "worktree"]_vars

\* A worktree that is being created, merged or cleaned up leaves that state, as
\* long as its request runs to its end ("abandon", "tipfault", "branchfault").
Passing == {"creating", "merging", "cleanup_pending"}
WorkEnds ==
  \A s \in Sessions : \A p \in Passing : ActiveStatus(s) = p ~> ActiveStatus(s) # p

\* The transitions the comment of the model lists.
ModelDoc(from) ==
  CASE from = "creating"         -> {"active", "cleanup_failed"}
    [] from = "active"           -> {"dirty", "merging", "cleanup_pending", "archived"}
    [] from = "dirty"            -> {"active", "merging", "cleanup_pending", "archived"}
    [] from = "merging"          -> {"merged", "needs_resolution", "dirty", "active",
                                     "cleanup_pending"}
    [] from = "needs_resolution" -> {"merged", "dirty", "merging"}
    [] from = "merged"           -> {"dirty", "cleanup_pending", "archived"}
    [] from = "cleanup_pending"  -> {"archived", "cleanup_failed"}
    [] from = "cleanup_failed"   -> {"cleanup_pending", "archived"}
    [] OTHER                     -> {}

\* Every change of a status is one the comment of the model lists.
FollowsModelDoc ==
  [][\A s \in Sessions : \A i \in RowIds :
       LET from == row[s][i].status  to == row'[s][i].status IN
       from # "none" /\ to \notin {from, "none"} => to \in ModelDoc(from)]_vars
===============================================================================
