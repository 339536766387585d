---------------------- MODULE WorktreeMerges_proofs ----------------------
(* What merges, their continuations and their abortions keep, for any        *)
(* sessions, requests and commits: unmerged paths have an owner; a commit    *)
(* takes its own session's work; the cursor skips nothing; and the user's    *)
(* edits are kept.                                                           *)
(*                                                                           *)
(* The argument is built in layers on the invariant of                       *)
(* SessionWorktrees_proofs: where a request may stand and what its row then  *)
(* says (MInv), who owns the unmerged paths (CInv), which session has        *)
(* something staged (XInv), what the cursor and the index account for        *)
(* (SInv), and where the user's edit is (EInv).                              *)
EXTENDS SessionWorktrees_proofs

-------------------------------------------------------------------------------
(* Merges.  The base workspace is shared, and the row of a session says how  *)
(* far its merge is.  Whatever the environment does, a request of a merge is *)
(* where its operation puts it, and the row has the status that goes with    *)
(* it (Placed): nobody but the handler of a session moves its row meanwhile. *)

Being == {"merging", "needs_resolution"}
In(s, statuses) == \E i \in RowIds : row[s][i].status \in statuses

Onward == {"note", "diff", "unstage", "apply", "look", "commit", "retreat", "tip",
           "mark"}
Course(op) ==
  CASE op = "merge"    -> Onward \cup {"check", "claim", "list", "cursor", "conflicted",
                                      "undo"}
    [] op = "continue" -> {"verify", "look", "commit", "tip", "mark", "cursor"}
    [] op = "abort"    -> {"reset", "undo"}
    [] OTHER           -> Pc \ (MergeWork \cup {"check"})

Placed(h) ==
  LET s == call[h].s  op == call[h].op  pc == call[h].pc IN
  /\ pc \in Course(op)
  /\ op = "merge" /\ pc \notin {"check", "claim", "cursor"} => In(s, {"merging"})
  /\ op = "continue" /\ pc # "cursor" => In(s, {"needs_resolution"})
  /\ op = "abort" => In(s, Being)
  /\ pc = "note" => row[s][call[h].row].status = "merging"
  /\ pc \in {"diff", "unstage", "apply", "list", "conflicted"} =>
       \A i \in RowIds : row[s][i].status = "merging" => row[s][i].squash
  /\ pc = "cursor" => row[s][call[h].row].status \in {"merged", "dirty"}
  /\ pc = "branch" => row[s][call[h].row].status = "creating"
  /\ pc \in DeletePcs /\ "dropmerge" \notin Events => ~In(s, Being)

\* A merge begins where nothing of its session is unmerged, and but for its
\* conflicts nothing is; nor where git has failed to list them, nor where a
\* merge is aborted that has not noted its operation yet.
Smooth(h) ==
  LET pc == call[h].pc IN
  \/ pc \in Onward \cup {"claim"}
  \/ pc = "undo" /\ "lookfault" \notin Events
  \/ pc = "reset" /\ ~call[h].squash
  => unmerged[call[h].s] = {}

Fresh(s) ==
  \A i \in RowIds :
    /\ row[s][i].status = "creating" => row[s][i].cursor = 0
    /\ row[s][i].status = "needs_resolution" => row[s][i].squash
    /\ row[s][i].status = "merging" /\ ~row[s][i].squash => unmerged[s] = {}

MInv ==
  /\ IInv
  /\ \A h \in Handlers : Placed(h) /\ Smooth(h)
  /\ \A s \in Sessions : Fresh(s)

\* The only live row is the active one.
LEMMA ActiveOne ==
  ASSUME NEW s \in Sessions, OneLive(s), NEW i \in RowIds, row[s][i].status \in Live
  PROVE  ActiveRow(s) = i /\ ActiveStatus(s) = row[s][i].status /\ i # NoRow
<1>1. LiveRows(s) # {} /\ i # NoRow
  BY WorktreeAssumption DEF LiveRows, RowIds, NoRow
<1>2. \E k \in LiveRows(s) : \A j \in LiveRows(s) : j <= k
  BY <1>1, HasLatest DEF LiveRows
<1>3. ActiveRow(s) \in LiveRows(s)
  BY <1>1, <1>2 DEF ActiveRow
<1>4. ActiveRow(s) = i
  BY <1>3 DEF LiveRows, OneLive
<1> QED BY <1>1, <1>4 DEF ActiveStatus

LEMMA ActiveIn ==
  ASSUME NEW s \in Sessions, OneLive(s), NEW statuses \in SUBSET Live
  PROVE  In(s, statuses) <=> ActiveStatus(s) \in statuses
<1>1. ASSUME In(s, statuses) PROVE ActiveStatus(s) \in statuses
  BY <1>1, ActiveOne DEF In
<1>2. ASSUME ActiveStatus(s) \in statuses PROVE In(s, statuses)
  <2>1. ActiveRow(s) # NoRow
    BY <1>2 DEF ActiveStatus, Live
  <2> QED BY <1>2, <2>1, ActiveIsLive DEF In
<1> QED BY <1>1, <1>2

LEMMA BeingIn ==
  ASSUME NEW s \in Sessions, OneLive(s)
  PROVE  BeingMerged(s) <=> In(s, Being)
BY ActiveIn DEF BeingMerged, Being, Live

\* What a step of a handler does to the others.
LEMMA CallsApart ==
  ASSUME TypeOK, NEW h \in Handlers, Step(h) \/ Abandon(h)
  PROVE  /\ ~At(h, "free") /\ call'[h].s = call[h].s
         /\ \A g \in Handlers \ {h} : call'[g] = call[g]
<1>1. call \in [Handlers -> Call] /\ call[h] \in Call
  BY DEF TypeOK
<1> USE <1>1 DEF At, Goto, Done, Free
<1>2. CASE Make(h)
  BY <1>2 DEF Make, MakeBranch, AddWorktree, Activate, Unmake, StartRun, Call
<1>3. CASE Merge(h)
  <2>1. CASE CheckBase(h) \/ Claim(h) \/ Note(h) \/ Diff(h) \/ Unstage(h)
    BY <2>1 DEF CheckBase, Claim, Note, Diff, Unstage, Call
  <2>2. CASE ApplyClean(h) \/ ApplyConflicts(h) \/ ApplyRefused(h) \/ Look(h) \/ Commit(h)
    BY <2>2 DEF ApplyClean, ApplyConflicts, ApplyRefused, Look, Commit, Call
  <2>5. CASE ListUnmerged(h) \/ Retreat(h) \/ GitFails(h)
    BY <2>5 DEF ListUnmerged, Retreat, GitFails, Call
  <2>3. CASE ReadTip(h) \/ MarkMerged(h) \/ RecordCursor(h) \/ MarkConflicted(h)
    BY <2>3 DEF ReadTip, MarkMerged, RecordCursor, MarkConflicted, Call
  <2>4. CASE Undo(h) \/ Verify(h) \/ ResetBase(h)
    BY <2>4 DEF Undo, Verify, ResetBase, Call
  <2> QED BY <1>3, <2>1, <2>2, <2>3, <2>4, <2>5 DEF Merge
<1>4. CASE Clean(h)
  <2>1. CASE RemoveWorktree(h)
    BY <2>1 DEF RemoveWorktree, Removed, Call
  <2>4. CASE Fail(h) \/ Archive(h) \/ Cascade(h)
    BY <2>4 DEF Fail, Archive, Cascade, Call
  <2>2. CASE Unbranch(h) \/ WipeBranch(h)
    BY <2>2 DEF Unbranch, WipeBranch, DeleteBranch, Call
  <2>3. CASE Wipe(h) \/ WipeFails(h)
    BY <2>3 DEF Wipe, WipeFails, Removed, Call
  <2> QED BY <1>4, <2>1, <2>2, <2>3, <2>4 DEF Clean
<1>5. CASE Abandon(h)
  BY <1>5 DEF Abandon, Call
<1> QED BY <1>2, <1>3, <1>4, <1>5 DEF Step

LEMMA RowsApart ==
  ASSUME TypeOK, NEW h \in Handlers, Step(h) \/ Abandon(h)
  PROVE  \A t \in Sessions \ {call[h].s} :
           row'[t] = row[t] /\ dir'[t] = dir[t] /\ tip'[t] = tip[t]
<1>1. /\ row \in [Sessions -> [RowIds -> Row]] /\ tip \in [Sessions -> NoBranch..MaxCommits]
      /\ dir \in [Sessions -> {"none", "plain", "worktree"}]
  BY DEF TypeOK
<1> USE <1>1 DEF NoGit, SetStatus, MoveClearing, Move
<1>2. CASE Make(h)
  BY <1>2 DEF Make, MakeBranch, AddWorktree, Activate, Unmake, StartRun
<1>3. CASE Merge(h)
  <2>1. CASE CheckBase(h) \/ Claim(h) \/ Note(h) \/ Diff(h) \/ Unstage(h)
    BY <2>1 DEF CheckBase, Claim, Note, Diff, Unstage
  <2>2. CASE ApplyClean(h) \/ ApplyConflicts(h) \/ ApplyRefused(h) \/ Look(h) \/ Commit(h)
    BY <2>2 DEF ApplyClean, ApplyConflicts, ApplyRefused, Look, Commit
  <2>5. CASE ListUnmerged(h) \/ Retreat(h) \/ GitFails(h)
    BY <2>5 DEF ListUnmerged, Retreat, GitFails
  <2>3. CASE ReadTip(h) \/ MarkMerged(h) \/ RecordCursor(h) \/ MarkConflicted(h)
    BY <2>3 DEF ReadTip, MarkMerged, RecordCursor, MarkConflicted
  <2>4. CASE Undo(h) \/ Verify(h) \/ ResetBase(h)
    BY <2>4 DEF Undo, Verify, ResetBase
  <2> QED BY <1>3, <2>1, <2>2, <2>3, <2>4, <2>5 DEF Merge
<1>4. CASE Clean(h)
  BY <1>4 DEF Clean, RemoveWorktree, Removed, Fail, Unbranch, DeleteBranch, Archive,
              Wipe, WipeFails, WipeBranch, Cascade
<1>5. CASE Abandon(h)
  BY <1>5 DEF Abandon
<1> QED BY <1>2, <1>3, <1>4, <1>5 DEF Step

LEMMA StepApart ==
  ASSUME IInv, NEW h \in Handlers, Step(h) \/ Abandon(h)
  PROVE  /\ ~At(h, "free") /\ call[h].s \in Sessions /\ call[h] \in Call
         /\ Only(h, call[h].s)
<1>1. TypeOK /\ Alone
  BY DEF IInv
<1>2. /\ ~At(h, "free") /\ call'[h].s = call[h].s
      /\ \A g \in Handlers \ {h} : call'[g] = call[g]
  BY <1>1, CallsApart
<1>3. \A t \in Sessions \ {call[h].s} :
        row'[t] = row[t] /\ dir'[t] = dir[t] /\ tip'[t] = tip[t]
  BY <1>1, RowsApart
<1>4. \A g \in Handlers \ {h} : call[g].s = call[h].s => At(g, "free")
  BY <1>1, <1>2 DEF Alone
<1> QED BY <1>1, <1>2, <1>3, <1>4 DEF Only, TypeOK, Call

LEMMA RequestApart ==
  ASSUME IInv, OneAtATime, NEW h \in Handlers, NEW s \in Sessions, Requests(h, s)
  PROVE  /\ At(h, "free") /\ ~Serving(s) /\ Only(h, s)
         /\ UNCHANGED <<tip, dir, base>>
<1>1. TypeOK /\ row \in [Sessions -> [RowIds -> Row]] /\ call \in [Handlers -> Call]
  BY DEF IInv, TypeOK
<1>2. /\ ~Serving(s)
      /\ \E c : Begin(h, s, c) /\ c.s = s
      /\ \A t \in Sessions \ {s} : row'[t] = row[t]
      /\ NoGit
  <2> USE <1>1 DEF Request, Spend, OneAtATime
  <2>0. \A op, pc, i : NewCall(op, s, pc, i).s = s
    BY DEF NewCall, Free
  <2>1. CASE Prepare(h, s)
    BY <2>0, <2>1 DEF Prepare, Create
  <2>2. CASE ResolveWorkspace(h, s)
    <3>1. PICK c : /\ Begin(h, s, c)
                   /\ c = IF Latest(s) = NoRow THEN NewCall("run", s, "branch", 1)
                          ELSE [NewCall("run", s, "start", Latest(s)) EXCEPT !.path =
                                  IF row[s][Latest(s)].status \in ForWorkspace
                                  THEN "worktree" ELSE "base"]
      BY <2>2 DEF ResolveWorkspace
    <3>2. c.s = s
      BY <3>1 DEF NewCall, Free
    <3>3. ~Serving(s) /\ NoGit /\ \A t \in Sessions \ {s} : row'[t] = row[t]
      BY <2>2 DEF ResolveWorkspace, Refresh, Create, SetStatus
    <3> QED BY <3>1, <3>2, <3>3
  <2>3. CASE RequestMerge(h, s) \/ RequestContinue(h, s) \/ RequestAbort(h, s)
    BY <2>0, <2>3 DEF RequestMerge, RequestContinue, RequestAbort
  <2>4. CASE RequestDiscard(h, s) \/ RequestRetry(h, s, "retry") \/ RequestRetry(h, s, "force")
    BY <2>0, <2>4 DEF RequestDiscard, RequestRetry, SetStatus, Move
  <2>5. CASE RequestDelete(h, s)
    BY <2>0, <2>5 DEF RequestDelete
  <2> QED BY <2>1, <2>2, <2>3, <2>4, <2>5 DEF Requests
<1>3. PICK c : Begin(h, s, c) /\ c.s = s
  BY <1>2
<1>4. /\ At(h, "free") /\ call' = [call EXCEPT ![h] = c]
      /\ \A g \in Handlers : call[g].s = s => At(g, "free")
  BY <1>2, <1>3 DEF Begin, Serving
<1> QED BY <1>1, <1>2, <1>3, <1>4 DEF Only, NoGit, base

LEMMA UnmergedApart ==
  ASSUME TypeOK, NEW h \in Handlers, Step(h)
  PROVE  /\ \A t \in Sessions \ {call[h].s} : unmerged'[t] \subseteq unmerged[t]
         /\ ~ApplyConflicts(h) => \A t \in Sessions : unmerged[t] = {} => unmerged'[t] = {}
<1>1. unmerged \in [Sessions -> SUBSET Commits] /\ None = [t \in Sessions |-> {}]
  BY DEF TypeOK, None
<1> USE <1>1 DEF NoGit, base
<1>2. CASE Make(h)
  BY <1>2 DEF Make, MakeBranch, AddWorktree, Activate, Unmake, StartRun, Earlier
<1>3. CASE Merge(h)
  <2>1. CASE CheckBase(h) \/ Claim(h) \/ Note(h) \/ Diff(h) \/ Look(h)
    BY <2>1 DEF CheckBase, Claim, Note, Diff, Look
  <2>2. CASE Unstage(h) \/ ApplyClean(h) \/ ApplyConflicts(h) \/ ApplyRefused(h)
    BY <2>2 DEF Unstage, UnstageDirty, ApplyClean, ApplyConflicts, ApplyRefused
  <2>5. CASE ListUnmerged(h) \/ Retreat(h) \/ GitFails(h)
    BY <2>5 DEF ListUnmerged, Retreat, ResetMerge, GitFails
  <2>3. CASE ReadTip(h) \/ MarkMerged(h) \/ RecordCursor(h) \/ MarkConflicted(h)
    BY <2>3 DEF ReadTip, MarkMerged, RecordCursor, MarkConflicted
  <2>4. CASE Undo(h) \/ Verify(h) \/ ResetBase(h) \/ Commit(h)
    BY <2>4 DEF Undo, Verify, ResetBase, Commit, CommitIndex, ResetMerge, ResetHard
  <2> QED BY <1>3, <2>1, <2>2, <2>3, <2>4, <2>5 DEF Merge
<1>4. CASE Clean(h)
  BY <1>4 DEF Clean, RemoveWorktree, Fail, Unbranch, Archive, Wipe, WipeFails,
              WipeBranch, Cascade
<1> QED BY <1>2, <1>3, <1>4 DEF Step

\* It is enough to look at the handler and the session of the step.
LEMMA MergeLocally ==
  ASSUME MInv, IInv', NEW h \in Handlers, NEW s \in Sessions, Only(h, s),
         Placed(h)', Smooth(h)', Fresh(s)',
         \A t \in Sessions \ {s} : unmerged'[t] \subseteq unmerged[t]
  PROVE  MInv'
<1>1. ASSUME NEW g \in Handlers, g # h PROVE Placed(g)' /\ Smooth(g)'
  <2>1. Placed(g) /\ Smooth(g) /\ call'[g] = call[g] /\ call[g].s \in Sessions
    BY <1>1 DEF MInv, IInv, TypeOK, Call, Only
  <2>2. CASE call[g].s # s
    <3>1. row'[call[g].s] = row[call[g].s]
          /\ unmerged'[call[g].s] \subseteq unmerged[call[g].s]
      BY <2>1, <2>2 DEF Only
    <3>2. \A S : In(call[g].s, S)' <=> In(call[g].s, S)
      BY <2>1, <3>1 DEF In
    <3>3. Placed(g)'
      BY <2>1, <3>1, <3>2 DEF Placed
    <3> QED BY <2>1, <3>1, <3>3 DEF Smooth
  <2>3. CASE call[g].s = s
    <3>1. call[g].pc = "free"
      BY <1>1, <2>3 DEF Only, At
    <3>2. call[g].op \notin {"merge", "continue", "abort"}
      BY <2>1, <3>1 DEF Placed, Course, Onward
    <3>3. Placed(g)'
      BY <2>1, <3>1, <3>2 DEF Placed, Course, DeletePcs
    <3> QED BY <2>1, <3>1, <3>3 DEF Smooth, Onward
  <2> QED BY <2>2, <2>3
<1>2. ASSUME NEW t \in Sessions, t # s PROVE Fresh(t)'
  <2>1. Fresh(t) /\ row'[t] = row[t]
    BY <1>2 DEF MInv, Only
  <2> QED BY <2>1 DEF Fresh
<1> QED BY <1>1, <1>2 DEF MInv

\* The effects of a step on its own request
LEMMA Freed ==
  ASSUME TypeOK, NEW h \in Handlers, Done(h)
  PROVE  Placed(h)' /\ Smooth(h)'
<1>1. call'[h].pc = "free" /\ call'[h].op = "none"
  BY DEF Done, Free, TypeOK
<1> QED BY <1>1 DEF Placed, Course, Pc, MergeWork, Smooth, Onward, DeletePcs

LEMMA Walks ==
  ASSUME TypeOK, NEW h \in Handlers, Placed(h), UNCHANGED row, NEW c \in Call,
         call' = [call EXCEPT ![h] = c], c.s = call[h].s, c.op = call[h].op,
         call[h].pc \notin {"check", "claim", "cursor"},
         c.op \in {"merge", "continue", "abort"}, c.pc \in Course(c.op),
         c.pc \notin {"note", "diff", "cursor"},
         c.pc \in {"unstage", "apply", "list", "conflicted"} =>
           call[h].pc \in {"diff", "unstage", "apply", "list", "conflicted"}
  PROVE  Placed(h)'
<1>1. call'[h] = c
  BY DEF TypeOK
<1>2. c.pc \notin DeletePcs \cup {"branch"}
  BY DEF Course, Onward, DeletePcs
<1>3. \A S : In(c.s, S)' <=> In(c.s, S)
  BY DEF In
<1> QED BY <1>1, <1>2, <1>3 DEF Placed

LEMMA RowsAlike ==
  ASSUME NEW s \in Sessions, Fresh(s), UNCHANGED row,
         unmerged[s] = {} => unmerged'[s] = {}
  PROVE  Fresh(s)'
BY DEF Fresh

\* What MInv says of a handler at work
LEMMA MergeStart ==
  ASSUME MInv, NEW h \in Handlers
  PROVE  /\ TypeOK /\ call[h] \in Call /\ call[h].s \in Sessions
         /\ OneLive(call[h].s) /\ OfHandler(h)
         /\ Placed(h) /\ Smooth(h) /\ Fresh(call[h].s)
         /\ row \in Rows /\ unmerged \in [Sessions -> SUBSET Commits]
BY DEF MInv, IInv, TypeOK, Call, Rows, OfSession

\* A row gets another status.
LEMMA StatusSet ==
  ASSUME row \in Rows, NEW s \in Sessions, NEW i \in RowIds, NEW to,
         SetStatus(s, i, to)
  PROVE  /\ row'[s][i] = [row[s][i] EXCEPT !.status = to]
         /\ \A j \in RowIds \ {i} : row'[s][j] = row[s][j]
BY DEF Rows, SetStatus

LEMMA OpOf ==
  ASSUME NEW h \in Handlers, Placed(h)
  PROVE  LET op == call[h].op  pc == call[h].pc IN
         /\ pc \in {"check", "claim", "note", "diff", "unstage", "apply", "list",
                   "retreat", "conflicted"} => op = "merge"
         /\ pc \in {"look", "commit", "tip", "mark", "cursor"} => op \in {"merge", "continue"}
         /\ pc = "verify" => op = "continue"
         /\ pc = "reset" => op = "abort"
         /\ pc = "undo" => op \in {"merge", "abort"}
BY DEF Placed, Course, Onward, MergeWork

\* The steps of a merge that leave the rows alone
Unrowed(h) ==
  \/ Diff(h) \/ Unstage(h) \/ ApplyClean(h) \/ ApplyConflicts(h) \/ ApplyRefused(h)
  \/ ListUnmerged(h) \/ Look(h) \/ Commit(h) \/ Retreat(h) \/ ReadTip(h)
  \/ Verify(h) \/ ResetBase(h) \/ (GitFails(h) /\ ~At(h, "branch"))

LEMMA UnrowedPlaces ==
  ASSUME MInv, NEW h \in Handlers, NEW s, s = call[h].s, Unrowed(h)
  PROVE  Placed(h)' /\ Smooth(h)' /\ Fresh(s)'
<1>1. /\ TypeOK /\ call[h] \in Call /\ s \in Sessions /\ call \in Calls
      /\ Placed(h) /\ Smooth(h) /\ Fresh(s)
      /\ unmerged \in [Sessions -> SUBSET Commits]
  BY MergeStart DEF TypeOK, Calls
<1>2. LET op == call[h].op  pc == call[h].pc IN
      /\ pc \in {"diff", "unstage", "apply", "list", "retreat"} => op = "merge"
      /\ pc \in {"look", "commit", "tip"} => op \in {"merge", "continue"}
      /\ pc = "verify" => op = "continue"
      /\ pc = "reset" => op = "abort"
  BY <1>1, OpOf
<1>3. UNCHANGED row /\ ~At(h, "free")
  BY DEF Unrowed, Diff, Unstage, ApplyClean, ApplyConflicts, ApplyRefused, ListUnmerged, Look,
         Commit, Retreat, ReadTip, Verify, ResetBase, GitFails, At
<1>4. Fresh(s)'
  <2>1. Step(h)
    BY Zenon DEF Unrowed, Step, Merge
  <2>2. CASE ~ApplyConflicts(h)
    BY <1>1, <1>3, <2>1, <2>2, UnmergedApart, RowsAlike
  <2>3. CASE ApplyConflicts(h)
    <3>1. call[h].pc = "apply"
      BY <2>3 DEF ApplyConflicts, At
    <3>2. \A i \in RowIds : row[s][i].status = "merging" => row[s][i].squash
      BY <1>1, <3>1 DEF Placed
    <3> QED BY <1>1, <1>3, <3>2 DEF Fresh
  <2> QED BY <2>2, <2>3
<1>5. None[s] = {}
  BY <1>1 DEF None
<1> DEFINE MergeWalk == {"unstage", "apply", "list", "look", "commit", "retreat", "tip",
                         "mark", "conflicted", "undo"}
<1>6. ASSUME NEW pc \in Pc, Goto(h, pc), call[h].pc \notin {"check", "claim", "cursor"},
             \/ call[h].op = "merge" /\ pc \in MergeWalk
             \/ call[h].op = "continue" /\ pc \in {"look", "commit", "tip", "mark"}
             \/ call[h].op = "abort" /\ pc = "undo",
             pc \in {"unstage", "apply", "list", "conflicted"} =>
               call[h].pc \in {"diff", "unstage", "apply", "list", "conflicted"},
             \/ pc \in {"list", "conflicted"} \/ unmerged'[s] = {}
             \/ pc = "undo" /\ "lookfault" \in Events
      PROVE  Placed(h)' /\ Smooth(h)'
  <2>1. PICK c \in Call : /\ c.s = s /\ call' = [call EXCEPT ![h] = c]
                          /\ c.pc = pc /\ c.op = call[h].op /\ c.row = call[h].row
    BY <1>3, <1>6, Goes DEF MInv
  <2>5. /\ c.op \in {"merge", "continue", "abort"} /\ pc \in Course(c.op)
        /\ pc \notin {"note", "diff", "cursor"}
    BY <1>6, <2>1 DEF Course, Onward
  <2>2. Placed(h)'
    BY <1>1, <1>3, <1>6, <2>1, <2>5, Walks
  <2>3. call'[h] = c
    BY <1>1, <2>1 DEF Calls
  <2>4. Smooth(h)'
    BY <1>6, <2>1, <2>3 DEF Smooth, Onward
  <2> QED BY <2>2, <2>4
<1>17. MergeWalk \cup {"look", "commit", "tip", "mark", "undo"} \subseteq Pc
  BY DEF Pc
<1>7. CASE Diff(h)
  <2>1. PICK pc \in {"undo", "tip", "unstage"}, patch \in SUBSET Commits :
          call' = [call EXCEPT ![h] = [call[h] EXCEPT !.patch = patch, !.pc = pc]]
    BY <1>1, <1>7 DEF Diff, Calls
  <2>8. [call[h] EXCEPT !.patch = patch, !.pc = pc] \in Call
    BY <1>1 DEF Call, Pc
  <2>2. PICK c \in Call : /\ c = [call[h] EXCEPT !.patch = patch, !.pc = pc]
                          /\ c.s = s /\ c.op = call[h].op /\ c.pc = pc
    BY <1>1, <2>8 DEF Call
  <2>3. call[h].pc = "diff" /\ unmerged' = unmerged
    BY <1>7 DEF Diff, NoGit, base, At
  <2>7. c.op = "merge" /\ c.pc \in Course("merge")
    BY <1>2, <2>2, <2>3 DEF Course, Onward
  <2>4. Placed(h)'
    BY <1>1, <1>3, <2>1, <2>2, <2>3, <2>7, Walks
  <2>5. call'[h] = c
    BY <1>1, <2>1, <2>2 DEF Calls
  <2>6. Smooth(h)'
    BY <1>1, <2>2, <2>3, <2>5 DEF Smooth, Onward
  <2> QED BY <1>4, <2>4, <2>6
<1>8. CASE Unstage(h)
  <2>1. Goto(h, "apply") /\ unmerged' = None /\ call[h].pc = "unstage"
    BY <1>8 DEF Unstage, UnstageDirty, At
  <2> QED BY <1>2, <1>4, <1>5, <1>6, <2>1, <1>17
<1>9. CASE ApplyClean(h)
  <2>1. Goto(h, "look") /\ unmerged' = unmerged /\ call[h].pc = "apply"
    BY <1>9 DEF ApplyClean, At
  <2> QED BY <1>1, <1>2, <1>4, <1>6, <2>1, <1>17 DEF Smooth, Onward
<1>10. CASE ApplyConflicts(h)
  <2>1. Goto(h, "list") /\ call[h].pc = "apply"
    BY <1>10 DEF ApplyConflicts, At
  <2> QED BY <1>2, <1>4, <1>6, <2>1, <1>17
<1>11. CASE ApplyRefused(h)
  <2>1. Goto(h, "list") /\ call[h].pc = "apply"
    BY <1>11 DEF ApplyRefused, At
  <2> QED BY <1>2, <1>4, <1>6, <2>1, <1>17
<1>18. CASE ListUnmerged(h)
  <2>1. /\ call[h].pc = "list" /\ unmerged' = unmerged
        /\ \/ Goto(h, "conflicted")
           \/ Goto(h, "retreat") /\ unmerged = None
           \/ Goto(h, "undo") /\ "lookfault" \in Events
    BY <1>18 DEF ListUnmerged, Spend, NoGit, base, At
  <2> QED BY <1>2, <1>4, <1>5, <1>6, <2>1, <1>17
<1>19. CASE Retreat(h)
  <2>1. /\ call[h].pc = "retreat" /\ Goto(h, "undo")
        /\ unmerged' = None \/ unmerged' = unmerged
    BY <1>19 DEF Retreat, ResetMerge, base, At
  <2> QED BY <1>1, <1>2, <1>4, <1>5, <1>6, <2>1, <1>17 DEF Smooth, Onward
<1>20. CASE GitFails(h) /\ ~At(h, "branch")
  <2>1. /\ unmerged' = unmerged
        /\ \/ call[h].pc \in {"diff", "unstage"} /\ Goto(h, "undo")
           \/ call[h].pc = "look" /\ call[h].op = "merge" /\ Goto(h, "retreat")
           \/ Done(h)
    BY <1>20 DEF GitFails, NoGit, base, At
  <2> QED BY <1>1, <1>2, <1>4, <1>6, <2>1, <1>17, Freed DEF Smooth, Onward
<1>12. CASE Look(h)
  <2>1. /\ Goto(h, "commit") \/ Goto(h, "tip")
        /\ unmerged' = unmerged /\ call[h].pc = "look"
    BY <1>12 DEF Look, NoGit, base, At
  <2> QED BY <1>1, <1>2, <1>4, <1>6, <2>1, <1>17 DEF Smooth, Onward
<1>13. CASE Commit(h)
  <2>1. /\ call[h].pc = "commit"
        /\ \/ Goto(h, "tip") /\ unmerged' = unmerged
           \/ Goto(h, "retreat") /\ unmerged' = unmerged /\ call[h].op = "merge"
           \/ Done(h)
    BY <1>13 DEF Commit, CommitIndex, base, At
  <2> QED BY <1>1, <1>2, <1>4, <1>5, <1>6, <2>1, <1>17, Freed DEF Smooth, Onward
<1>14. CASE ReadTip(h)
  <2>1. call[h].pc = "tip" /\ unmerged' = unmerged
    BY <1>14 DEF ReadTip, NoGit, base, At
  <2>2. CASE Goto(h, "mark") \/ Done(h)
    BY <1>1, <1>2, <1>4, <1>6, <2>1, <2>2, <1>17, Freed DEF Smooth, Onward
  <2>3. CASE tip[s] # NoBranch /\ call' = [call EXCEPT ![h].pc = "mark", ![h].upto = tip[s]]
    <3>1. tip[s] \in 0..MaxCommits
      BY <1>1, <2>3, WorktreeAssumption DEF TypeOK, NoBranch
    <3>8. [call[h] EXCEPT !.pc = "mark", !.upto = tip[s]] \in Call
      BY <1>1, <3>1 DEF Call, Pc
    <3>2. PICK c \in Call : /\ c = [call[h] EXCEPT !.pc = "mark", !.upto = tip[s]]
                            /\ c.s = s /\ c.op = call[h].op /\ c.pc = "mark"
      BY <1>1, <3>8 DEF Call
    <3>3. call' = [call EXCEPT ![h] = c]
      BY <1>1, <2>3, <3>2 DEF Calls
    <3>7. c.op \in {"merge", "continue", "abort"} /\ c.pc \in Course(c.op)
      BY <1>2, <2>1, <3>2 DEF Course, Onward
    <3>4. Placed(h)'
      BY <1>1, <1>3, <2>1, <3>2, <3>3, <3>7, Walks
    <3>5. call'[h] = c
      BY <1>1, <3>3 DEF Calls
    <3>6. Smooth(h)'
      BY <1>1, <2>1, <3>2, <3>5 DEF Smooth, Onward
    <3> QED BY <1>4, <3>4, <3>6
  <2> QED BY <1>14, <2>2, <2>3 DEF ReadTip
<1>15. CASE Verify(h)
  <2>1. /\ call[h].pc = "verify" /\ unmerged' = unmerged
        /\ Done(h) \/ (unmerged = None /\ (Goto(h, "look") \/ Goto(h, "commit")))
    BY <1>15 DEF Verify, NoGit, base, At
  <2> QED BY <1>1, <1>2, <1>4, <1>5, <1>6, <2>1, <1>17, Freed
<1>16. CASE ResetBase(h)
  <2>1. call[h].pc = "reset"
    BY <1>16 DEF ResetBase, At
  <2>2. ResetMerge \/ ResetHard => unmerged' = None
    BY DEF ResetMerge, ResetHard
  <2>3. UNCHANGED base => unmerged' = unmerged
    BY DEF base
  <2>4. \/ Done(h)
        \/ Goto(h, "undo") /\ (unmerged' = None \/ (unmerged' = unmerged /\ ~call[h].squash))
    BY <1>16, <2>2, <2>3, Zenon DEF ResetBase
  <2> QED BY <1>1, <1>2, <1>4, <1>5, <1>6, <2>1, <2>4, <1>17, Freed DEF Smooth
<1> QED BY <1>7, <1>8, <1>9, <1>10, <1>11, <1>12, <1>13, <1>14, <1>15, <1>16, <1>18,
           <1>19, <1>20, Zenon DEF Unrowed

\* A row that moves to another status stays fresh.
LEMMA FreshSet ==
  ASSUME row \in Rows, NEW s \in Sessions, Fresh(s), NEW i \in RowIds, NEW to,
         SetStatus(s, i, to) \/ MoveClearing(s, i, to),
         to \notin {"creating", "needs_resolution"},
         unmerged[s] = {} => unmerged'[s] = {}, to = "merging" => unmerged[s] = {}
  PROVE  Fresh(s)' /\ row'[s][i].status = to
<1>1. /\ row'[s][i].status = to
      /\ \A j \in RowIds \ {i} : row'[s][j] = row[s][j]
  <2>1. row \in [Sessions -> [RowIds -> Row]] /\ row[s][i] \in Row
    BY DEF Rows
  <2>2. CASE SetStatus(s, i, to)
    BY <2>1, <2>2 DEF SetStatus, Row
  <2>3. CASE MoveClearing(s, i, to)
    <3>1. row'[s] = [row[s] EXCEPT ![i] = [row[s][i] EXCEPT !.status = to, !.squash = FALSE]]
      BY <2>1, <2>3 DEF MoveClearing
    <3> QED BY <2>1, <3>1 DEF Row
  <2> QED BY <2>2, <2>3
<1> QED BY <1>1 DEF Fresh

LEMMA CheckBasePlaces ==
  ASSUME MInv, NEW h \in Handlers, NEW s, s = call[h].s, CheckBase(h)
  PROVE  Placed(h)' /\ Smooth(h)' /\ Fresh(s)'
<1>1. TypeOK /\ s \in Sessions /\ Fresh(s) /\ Placed(h) /\ call[h] \in Call /\ call \in Calls
  BY MergeStart DEF TypeOK, Calls
<1>2. UNCHANGED <<row, unmerged>> /\ At(h, "check") /\ ~At(h, "free")
  BY DEF CheckBase, NoGit, base, At
<1>3. Fresh(s)'
  BY <1>1, <1>2, RowsAlike
<1>4. CASE Done(h)
  BY <1>1, <1>3, <1>4, Freed
<1>5. CASE Goto(h, "claim") /\ unmerged = None
  <2>1. call[h].op = "merge"
    BY <1>1, <1>2, OpOf DEF At
  <2>2. PICK c \in Call : /\ c.s = s /\ call' = [call EXCEPT ![h] = c]
                          /\ c.pc = "claim" /\ c.op = "merge" /\ c.row = call[h].row
    BY <1>2, <1>5, <2>1, Goes DEF MInv, Pc
  <2>3. call'[h] = c
    BY <1>1, <2>2 DEF Calls
  <2>4. Placed(h)'
    BY <2>2, <2>3 DEF Placed, Course, DeletePcs
  <2> QED BY <1>1, <1>2, <1>3, <1>5, <2>2, <2>3, <2>4 DEF Smooth, None
<1> QED BY <1>4, <1>5 DEF CheckBase

LEMMA ClaimPlaces ==
  ASSUME MInv, NEW h \in Handlers, NEW s, s = call[h].s, Claim(h)
  PROVE  Placed(h)' /\ Smooth(h)' /\ Fresh(s)'
<1>1. /\ TypeOK /\ s \in Sessions /\ OneLive(s) /\ Fresh(s) /\ Placed(h) /\ Smooth(h)
      /\ call[h] \in Call /\ call \in Calls /\ row \in Rows
  BY MergeStart DEF TypeOK, Calls, Rows
<1>2. At(h, "claim") /\ UNCHANGED unmerged
  BY DEF Claim, NoGit, base
<1>3. CASE UNCHANGED row /\ Done(h)
  BY <1>1, <1>2, <1>3, Freed, RowsAlike
<1>4. CASE CanMove(s, "merging") /\ Move(s, "merging")
             /\ call' = [call EXCEPT ![h].pc = "note", ![h].row = ActiveRow(s)]
  <2>1. PICK a \in RowIds : a = ActiveRow(s)
    BY <1>1, <1>4, ActiveIsLive DEF CanMove
  <2>2. Fresh(s)' /\ row'[s][a].status = "merging"
    <3>1. SetStatus(s, a, "merging")
      BY <1>4, <2>1 DEF Move
    <3> QED BY <1>1, <1>2, <3>1, FreshSet DEF Smooth, At
  <2>3. [call[h] EXCEPT !.pc = "note", !.row = a] \in Call
    BY <1>1, <2>1 DEF Call, Pc
  <2>4. PICK c \in Call : c = [call[h] EXCEPT !.pc = "note", !.row = a]
    BY <2>3
  <2>5. c.pc = "note" /\ c.row = a /\ c.s = s /\ c.op = call[h].op
    BY <1>1, <2>4 DEF Call
  <2>6. call'[h] = c
    BY <1>1, <1>4, <2>1, <2>4 DEF Calls
  <2>7. call[h].op = "merge"
    BY <1>1, <1>2, OpOf DEF At
  <2>8. In(s, {"merging"})'
    BY <2>2 DEF In
  <2>9. Placed(h)'
    BY <2>2, <2>5, <2>6, <2>7, <2>8 DEF Placed, Course, Onward, DeletePcs
  <2>10. Smooth(h)'
    BY <1>1, <1>2, <2>5, <2>6 DEF Smooth, At
  <2> QED BY <2>2, <2>9, <2>10
<1> QED BY <1>3, <1>4 DEF Claim

LEMMA NotePlaces ==
  ASSUME MInv, NEW h \in Handlers, NEW s, s = call[h].s, Note(h)
  PROVE  Placed(h)' /\ Smooth(h)' /\ Fresh(s)'
<1>1. /\ TypeOK /\ s \in Sessions /\ OneLive(s) /\ Fresh(s) /\ Placed(h) /\ Smooth(h)
      /\ call[h] \in Call /\ call \in Calls /\ row \in Rows /\ OfHandler(h)
  BY MergeStart DEF TypeOK, Calls, Rows
<1>2. At(h, "note") /\ UNCHANGED unmerged
  BY DEF Note, NoGit, base
<1>3. PICK i \in RowIds : i = call[h].row
  BY <1>1, <1>2 DEF OfHandler, Named, At, RowPcs
<1>4. row[s][i].status = "merging" /\ call[h].op = "merge"
  BY <1>1, <1>2, <1>3, OpOf DEF Placed, At
<1>5. /\ row' = [row EXCEPT ![s][i].squash = TRUE]
      /\ call' = [call EXCEPT ![h].pc = "diff", ![h].squash = TRUE,
                              ![h].upto = row[s][i].cursor]
  BY <1>3, <1>4 DEF Note
<1>6. /\ row'[s][i].squash /\ row'[s][i].status = "merging"
      /\ \A j \in RowIds \ {i} : row'[s][j] = row[s][j]
  <2>1. row[s][i] \in Row
    BY <1>1 DEF Rows
  <2> QED BY <1>1, <1>4, <1>5, <2>1 DEF Rows, Row
<1>7. \A j \in RowIds : row'[s][j].status = "merging" => j = i
  BY <1>1, <1>4, <1>6 DEF OneLive, Live
<1>8. PICK c \in Call : /\ call'[h] = c /\ c.pc = "diff" /\ c.op = "merge" /\ c.s = s
  <2>1. PICK n \in 0..MaxCommits : n = row[s][i].cursor
    BY <1>1 DEF Rows, Row
  <2>2. [call[h] EXCEPT !.pc = "diff", !.squash = TRUE, !.upto = n] \in Call
    BY <1>1 DEF Call, Pc
  <2>3. call'[h] = [call[h] EXCEPT !.pc = "diff", !.squash = TRUE, !.upto = n]
    BY <1>1, <1>5, <2>1 DEF Calls
  <2> QED BY <1>1, <1>4, <2>2, <2>3 DEF Call
<1>9. In(s, {"merging"})'
  BY <1>6 DEF In
<1>10. Placed(h)'
  BY <1>6, <1>7, <1>8, <1>9 DEF Placed, Course, Onward, DeletePcs
<1>11. Smooth(h)'
  BY <1>1, <1>2, <1>8 DEF Smooth, At, Onward
<1>12. Fresh(s)'
  BY <1>1, <1>2, <1>6 DEF Fresh
<1> QED BY <1>10, <1>11, <1>12

LEMMA MarkMergedPlaces ==
  ASSUME MInv, NEW h \in Handlers, NEW s, s = call[h].s, MarkMerged(h)
  PROVE  Placed(h)' /\ Smooth(h)' /\ Fresh(s)'
<1>1. /\ TypeOK /\ s \in Sessions /\ OneLive(s) /\ Fresh(s) /\ Placed(h) /\ Smooth(h)
      /\ call[h] \in Call /\ call \in Calls /\ row \in Rows
  BY MergeStart DEF TypeOK, Calls, Rows
<1>2. At(h, "mark") /\ UNCHANGED unmerged
  BY DEF MarkMerged, NoGit, base
<1>3. CASE UNCHANGED row /\ Done(h)
  BY <1>1, <1>2, <1>3, Freed, RowsAlike
<1>4. CASE CanMove(s, "merged") /\ Move(s, "merged")
             /\ (\/ Done(h)
                 \/ call' = [call EXCEPT ![h].pc = "cursor", ![h].row = ActiveRow(s)])
  <2>1. PICK a \in RowIds : a = ActiveRow(s)
    BY <1>1, <1>4, ActiveIsLive DEF CanMove
  <2>2. Fresh(s)' /\ row'[s][a].status = "merged"
    <3>1. SetStatus(s, a, "merged")
      BY <1>4, <2>1 DEF Move
    <3> QED BY <1>1, <1>2, <3>1, FreshSet
  <2>3. CASE Done(h)
    BY <1>1, <2>2, <2>3, Freed
  <2>4. CASE call' = [call EXCEPT ![h].pc = "cursor", ![h].row = ActiveRow(s)]
    <3>1. [call[h] EXCEPT !.pc = "cursor", !.row = a] \in Call
      BY <1>1, <2>1 DEF Call, Pc
    <3>2. PICK c \in Call : c = [call[h] EXCEPT !.pc = "cursor", !.row = a]
      BY <3>1
    <3>3. c.pc = "cursor" /\ c.row = a /\ c.s = s /\ c.op = call[h].op
      BY <1>1, <3>2 DEF Call
    <3>4. call'[h] = c
      BY <1>1, <2>4, <2>1, <3>2 DEF Calls
    <3>5. c.op \in {"merge", "continue"}
      BY <1>1, <1>2, <3>3, OpOf DEF At
    <3>6. Placed(h)'
      BY <2>2, <3>3, <3>4, <3>5 DEF Placed, Course, Onward, DeletePcs
    <3>7. Smooth(h)'
      BY <3>3, <3>4 DEF Smooth, Onward
    <3> QED BY <2>2, <3>6, <3>7
  <2> QED BY <1>4, <2>3, <2>4
<1> QED BY <1>3, <1>4 DEF MarkMerged

LEMMA RecordCursorPlaces ==
  ASSUME MInv, NEW h \in Handlers, NEW s, s = call[h].s, RecordCursor(h)
  PROVE  Placed(h)' /\ Smooth(h)' /\ Fresh(s)'
<1>1. /\ TypeOK /\ s \in Sessions /\ Fresh(s) /\ Placed(h)
      /\ call[h] \in Call /\ row \in Rows /\ OfHandler(h)
  BY MergeStart DEF TypeOK, Rows
<1>2. At(h, "cursor") /\ Done(h) /\ UNCHANGED unmerged
  BY DEF RecordCursor, NoGit, base
<1>3. PICK i \in RowIds : i = call[h].row
  BY <1>1, <1>2 DEF OfHandler, Named, At, RowPcs
<1>4. row[s][i].status \in {"merged", "dirty"}
  BY <1>1, <1>2, <1>3 DEF Placed, At
<1>5. row' = [row EXCEPT ![s][i].cursor = call[h].upto]
  BY <1>3, <1>4 DEF RecordCursor
<1>6. /\ row'[s][i].status = row[s][i].status
      /\ \A j \in RowIds \ {i} : row'[s][j] = row[s][j]
  <2>1. row[s][i] \in Row
    BY <1>1 DEF Rows
  <2> QED BY <1>1, <1>5, <2>1 DEF Rows, Row
<1>7. Fresh(s)'
  BY <1>1, <1>2, <1>4, <1>6 DEF Fresh
<1> QED BY <1>1, <1>2, <1>7, Freed

LEMMA MarkConflictedPlaces ==
  ASSUME MInv, NEW h \in Handlers, NEW s, s = call[h].s, MarkConflicted(h)
  PROVE  Placed(h)' /\ Smooth(h)' /\ Fresh(s)'
<1>1. /\ TypeOK /\ s \in Sessions /\ OneLive(s) /\ Fresh(s) /\ Placed(h)
      /\ call[h] \in Call /\ row \in Rows
  BY MergeStart DEF TypeOK, Rows
<1>2. At(h, "conflicted") /\ Done(h) /\ UNCHANGED unmerged
  BY DEF MarkConflicted, NoGit, base
<1>3. CASE UNCHANGED row
  BY <1>1, <1>2, <1>3, Freed, RowsAlike
<1>4. CASE CanMove(s, "needs_resolution") /\ Move(s, "needs_resolution")
  <2>1. call[h].op = "merge"
    BY <1>1, <1>2, OpOf DEF At
  <2>2. PICK a \in RowIds : row[s][a].status = "merging"
    BY <1>1, <1>2, <2>1 DEF Placed, At, In
  <2>3. a = ActiveRow(s) /\ row[s][a].squash
    BY <1>1, <1>2, <2>2, ActiveOne DEF Live, Placed, At
  <2>4. SetStatus(s, a, "needs_resolution")
    BY <1>4, <2>3 DEF Move
  <2>5. /\ row'[s][a] = [row[s][a] EXCEPT !.status = "needs_resolution"]
        /\ \A j \in RowIds \ {a} : row'[s][j] = row[s][j]
    BY <1>1, <2>4, StatusSet
  <2>6. row'[s][a].squash /\ row'[s][a].status = "needs_resolution"
    BY <1>1, <2>3, <2>5 DEF Rows, Row
  <2>7. Fresh(s)'
    BY <1>1, <1>2, <2>5, <2>6 DEF Fresh
  <2> QED BY <1>1, <1>2, <2>7, Freed
<1> QED BY <1>3, <1>4 DEF MarkConflicted

LEMMA UndoPlaces ==
  ASSUME MInv, NEW h \in Handlers, NEW s, s = call[h].s, Undo(h)
  PROVE  Placed(h)' /\ Smooth(h)' /\ Fresh(s)'
<1>1. /\ TypeOK /\ s \in Sessions /\ OneLive(s) /\ Fresh(s) /\ row \in Rows
  BY MergeStart DEF TypeOK, Rows
<1>2. Done(h) /\ UNCHANGED unmerged
  BY DEF Undo, NoGit, base
<1>3. CASE UNCHANGED row
  BY <1>1, <1>2, <1>3, Freed, RowsAlike
<1>4. CASE CanMove(s, "dirty") /\ MoveClearing(s, ActiveRow(s), "dirty")
  <2>1. PICK a \in RowIds : a = ActiveRow(s)
    BY <1>1, <1>4, ActiveIsLive DEF CanMove
  <2>2. Fresh(s)'
    BY <1>1, <1>2, <1>4, <2>1, FreshSet
  <2> QED BY <1>1, <1>2, <2>2, Freed
<1> QED BY <1>3, <1>4 DEF Undo

\* The requests that are no merges stay where they were.
Ashore == Pc \ (MergeWork \cup {"check", "branch"})

LEMMA Strays ==
  ASSUME MInv, NEW h \in Handlers, NEW c \in Call, call' = [call EXCEPT ![h] = c],
         c.s = call[h].s, c.op = call[h].op, call[h].pc \in Ashore \cup {"branch"},
         call[h].pc # "free", c.pc \in Ashore \ {"free"},
         c.pc \in DeletePcs => call[h].pc \in DeletePcs /\ UNCHANGED row
  PROVE  Placed(h)' /\ Smooth(h)'
<1>1. Placed(h) /\ call \in Calls
  BY MergeStart DEF TypeOK, Calls
<1>2. call'[h] = c
  BY <1>1 DEF Calls
<1>3. c.op \notin {"merge", "continue", "abort"}
  BY <1>1 DEF Placed, Course, Onward, Ashore, MergeWork
<1>4. \A S : UNCHANGED row => (In(c.s, S)' <=> In(c.s, S))
  BY DEF In
<1>5. Placed(h)'
  BY <1>1, <1>2, <1>3, <1>4 DEF Placed, Course, Ashore, MergeWork, DeletePcs
<1>6. Smooth(h)'
  BY <1>2 DEF Smooth, Ashore, MergeWork, Onward
<1> QED BY <1>5, <1>6

LEMMA GitFailsPlaces ==
  ASSUME MInv, NEW h \in Handlers, NEW s, s = call[h].s, GitFails(h)
  PROVE  Placed(h)' /\ Smooth(h)' /\ Fresh(s)'
<1>1. CASE At(h, "branch")
  <2>1. s \in Sessions /\ Fresh(s) /\ UNCHANGED <<row, unmerged>> /\ Goto(h, "unmake")
    BY <1>1, MergeStart DEF GitFails, NoGit, base, At
  <2>2. "unmake" \in Ashore \ ({"free"} \cup DeletePcs)
    BY DEF Ashore, Pc, MergeWork, DeletePcs
  <2>3. PICK c \in Call : /\ c.s = s /\ call' = [call EXCEPT ![h] = c]
                          /\ c.pc = "unmake" /\ c.op = call[h].op /\ c.row = call[h].row
    BY <1>1, <2>1, Goes DEF MInv, At, Pc
  <2>4. Placed(h)' /\ Smooth(h)'
    BY <1>1, <2>2, <2>3, Strays DEF At
  <2> QED BY <2>1, <2>4, RowsAlike
<1>2. CASE ~At(h, "branch")
  <2>1. Unrowed(h)
    BY <1>2 DEF Unrowed
  <2> QED BY <2>1, UnrowedPlaces
<1> QED BY <1>1, <1>2

LEMMA MakePlaces ==
  ASSUME MInv, NEW h \in Handlers, NEW s, s = call[h].s, Make(h)
  PROVE  Placed(h)' /\ Smooth(h)' /\ Fresh(s)'
<1>1. /\ TypeOK /\ s \in Sessions /\ Fresh(s) /\ row \in Rows
      /\ call[h] \in Call /\ call \in Calls /\ OfHandler(h)
  BY MergeStart DEF TypeOK, Calls, Rows
<1>9. unmerged[s] = {} => unmerged'[s] = {}
  BY <1>1, UnmergedApart DEF Step, Make, MakeBranch, AddWorktree, Activate, Unmake,
     StartRun, ApplyConflicts, At
<1>2. /\ call[h].pc \in MakePcs \cup {"start"} /\ ~At(h, "free")
      /\ call[h].pc \in Ashore \cup {"branch"}
  BY DEF Make, MakeBranch, AddWorktree, Activate, Unmake, StartRun, At, MakePcs, Ashore,
         MergeWork, Pc
<1>3. ASSUME NEW pc \in {"add", "activate", "unmake", "start"}, Goto(h, pc)
      PROVE  Placed(h)' /\ Smooth(h)'
  <2>1. pc \in Ashore \ ({"free"} \cup DeletePcs)
    BY DEF Ashore, Pc, MergeWork, DeletePcs
  <2>2. PICK c \in Call : /\ c.s = s /\ call' = [call EXCEPT ![h] = c]
                          /\ c.pc = pc /\ c.op = call[h].op /\ c.row = call[h].row
    BY <1>2, <1>3, <2>1, Goes DEF MInv, Ashore
  <2> QED BY <1>1, <1>2, <2>1, <2>2, Strays DEF At
<1>4. CASE MakeBranch(h) \/ AddWorktree(h) \/ StartRun(h)
  <2>1. UNCHANGED row
    BY <1>4 DEF MakeBranch, AddWorktree, StartRun
  <2>2. Goto(h, "add") \/ Goto(h, "activate") \/ Goto(h, "unmake") \/ Done(h)
    BY <1>4 DEF MakeBranch, AddWorktree, StartRun
  <2> QED BY <1>1, <1>3, <2>1, <2>2, <1>9, Freed, RowsAlike
<1>5. PICK i : i = call[h].row
  OBVIOUS
<1>6. CASE At(h, "activate") \/ At(h, "unmake")
  <2>1. i \in RowIds
    BY <1>1, <1>5, <1>6 DEF OfHandler, Named, RowPcs, MakePcs, At
  <2>2. CASE Unmake(h)
    <3>1. UNCHANGED row \/ SetStatus(s, i, "cleanup_failed")
      BY <1>5, <2>2 DEF Unmake
    <3>2. Fresh(s)'
      BY <1>1, <2>1, <3>1, <1>9, RowsAlike, FreshSet
    <3> QED BY <1>1, <2>2, <3>2, Freed DEF Unmake
  <2>3. CASE Activate(h)
    <3>1. UNCHANGED row \/ SetStatus(s, i, "active")
      BY <1>5, <2>3 DEF Activate
    <3>2. Fresh(s)'
      BY <1>1, <2>1, <3>1, <1>9, RowsAlike, FreshSet
    <3>3. \/ Done(h)
          \/ call' = [call EXCEPT ![h].pc = "start", ![h].path = "worktree"]
      BY <2>3 DEF Activate
    <3>4. CASE call' = [call EXCEPT ![h].pc = "start", ![h].path = "worktree"]
      <4>1. [call[h] EXCEPT !.pc = "start", !.path = "worktree"] \in Call
        BY <1>1 DEF Call, Pc
      <4>2. PICK c \in Call : c = [call[h] EXCEPT !.pc = "start", !.path = "worktree"]
        BY <4>1
      <4>3. /\ call' = [call EXCEPT ![h] = c] /\ c.s = s /\ c.op = call[h].op
            /\ c.pc = "start"
        BY <1>1, <3>4, <4>2 DEF Calls, Call
      <4>4. "start" \in Ashore \ ({"free"} \cup DeletePcs)
        BY DEF Ashore, Pc, MergeWork, DeletePcs
      <4> QED BY <1>2, <3>2, <4>3, <4>4, Strays DEF At
    <3> QED BY <1>1, <3>2, <3>3, <3>4, Freed
  <2>4. At(h, "activate") => ~At(h, "unmake")
    BY DEF At
  <2> QED BY <2>2, <2>3, <1>4 DEF Make
<1> QED BY <1>4, <1>6 DEF Make, Activate, Unmake

LEMMA CleanPlaces ==
  ASSUME MInv, NEW h \in Handlers, NEW s, s = call[h].s, Clean(h)
  PROVE  Placed(h)' /\ Smooth(h)' /\ Fresh(s)'
<1>1. /\ TypeOK /\ s \in Sessions /\ Fresh(s) /\ row \in Rows
      /\ call[h] \in Call /\ call \in Calls /\ OfHandler(h)
  BY MergeStart DEF TypeOK, Calls, Rows
<1>9. UNCHANGED unmerged
  BY DEF Clean, RemoveWorktree, Fail, Unbranch, Archive, Wipe, WipeFails, WipeBranch,
         Cascade, NoGit, base
<1>2. ~At(h, "free") /\ call[h].pc \in Ashore
  BY DEF Clean, RemoveWorktree, Fail, Unbranch, Archive, Wipe, WipeFails, WipeBranch,
         Cascade, At, Ashore, MergeWork, Pc
<1>3. ASSUME NEW pc \in {"unbranch", "fail", "archive", "wipebranch", "cascade"}, Goto(h, pc),
             pc \in DeletePcs => call[h].pc \in DeletePcs, UNCHANGED row
      PROVE  Placed(h)' /\ Smooth(h)'
  <2>1. pc \in Ashore \ {"free"}
    BY DEF Ashore, Pc, MergeWork
  <2>2. PICK c \in Call : /\ c.s = s /\ call' = [call EXCEPT ![h] = c]
                          /\ c.pc = pc /\ c.op = call[h].op /\ c.row = call[h].row
    BY <1>2, <1>3, <2>1, Goes DEF MInv, Ashore
  <2> QED BY <1>2, <1>3, <2>1, <2>2, Strays DEF At
<1>4. CASE RemoveWorktree(h) \/ Unbranch(h) \/ Wipe(h) \/ WipeFails(h) \/ WipeBranch(h)
  <2>1. UNCHANGED row
    BY <1>4 DEF RemoveWorktree, Unbranch, Wipe, WipeFails, WipeBranch
  <2>2. CASE RemoveWorktree(h) \/ Unbranch(h)
    <3>1. Goto(h, "unbranch") \/ Goto(h, "fail") \/ Goto(h, "archive") \/ Done(h)
      BY <2>2 DEF RemoveWorktree, Unbranch, DeleteBranch
    <3>2. {"unbranch", "fail", "archive"} \cap DeletePcs = {}
      BY DEF DeletePcs
    <3> QED BY <1>1, <1>3, <2>1, <3>1, <3>2, <1>9, Freed, RowsAlike
  <2>3. CASE Wipe(h) \/ WipeFails(h) \/ WipeBranch(h)
    <3>1. Goto(h, "wipebranch") \/ Goto(h, "cascade") \/ Done(h)
      BY <2>3 DEF Wipe, WipeFails, WipeBranch, DeleteBranch
    <3>2. call[h].pc \in DeletePcs
      BY <2>3 DEF Wipe, WipeFails, WipeBranch, At, DeletePcs
    <3> QED BY <1>1, <1>3, <2>1, <3>1, <3>2, <1>9, Freed, RowsAlike
  <2> QED BY <1>4, <2>2, <2>3
<1>5. CASE Fail(h) \/ Archive(h)
  <2>1. PICK i \in RowIds : i = call[h].row
    BY <1>1, <1>5 DEF OfHandler, Named, RowPcs, At, Fail, Archive
  <2>2. \/ UNCHANGED row
        \/ MoveClearing(s, i, "cleanup_failed") \/ MoveClearing(s, i, "archived")
    BY <1>5, <2>1 DEF Fail, Archive
  <2>3. Fresh(s)'
    BY <1>1, <2>1, <2>2, <1>9, RowsAlike, FreshSet
  <2> QED BY <1>1, <1>5, <2>3, Freed DEF Fail, Archive
<1>6. CASE Cascade(h)
  <2>1. \A i \in RowIds : row'[s][i] = NoneRow
    BY <1>1, <1>6 DEF Cascade, Rows
  <2>2. Fresh(s)'
    BY <2>1 DEF Fresh, NoneRow
  <2> QED BY <1>1, <1>6, <2>2, Freed DEF Cascade
<1> QED BY <1>4, <1>5, <1>6 DEF Clean

LEMMA SessionStart ==
  ASSUME MInv, NEW s \in Sessions
  PROVE  /\ TypeOK /\ OneLive(s) /\ Fresh(s) /\ row \in Rows /\ call \in Calls
         /\ unmerged \in [Sessions -> SUBSET Commits]
BY DEF MInv, IInv, TypeOK, Rows, Calls, OfSession

\* The request c begins for session s, and writes its row.
Asked(s, c) ==
  \/ /\ c.op \in {"prepare", "run"} /\ c.pc = "branch" /\ c.row \in RowIds
     /\ LiveRows(s) = {}
     /\ row' = [row EXCEPT ![s][c.row] = [NoneRow EXCEPT !.status = "creating"]]
  \/ c.op = "run" /\ c.pc = "start" /\ Refresh(s)
  \/ c.op = "merge" /\ c.pc = "check" /\ UNCHANGED row
  \/ /\ c.op = "continue" /\ c.pc = "verify" /\ UNCHANGED row
     /\ ActiveStatus(s) = "needs_resolution"
  \/ /\ c.op = "abort" /\ c.pc = "reset" /\ UNCHANGED row /\ BeingMerged(s)
     /\ ActiveRow(s) \in RowIds /\ c.squash = row[s][ActiveRow(s)].squash
  \/ /\ c.op = "discard" /\ c.pc = "remove" /\ ActiveRow(s) \in RowIds
     /\ SetStatus(s, ActiveRow(s), "cleanup_pending")
     /\ "dropmerge" \notin Events => ~BeingMerged(s)
  \/ /\ c.op \in {"retry", "force"} /\ c.pc = "remove" /\ LiveRows(s) = {}
     /\ LatestFailed(s) \in RowIds /\ SetStatus(s, LatestFailed(s), "cleanup_pending")
  \/ /\ c.op = "delete" /\ c.pc = "wipe" /\ UNCHANGED row
     /\ "dropmerge" \notin Events => ~BeingMerged(s)

LEMMA RequestForms ==
  ASSUME IInv, OneAtATime, NEW h \in Handlers, NEW s \in Sessions, Requests(h, s)
  PROVE  \E c \in Call : call' = [call EXCEPT ![h] = c] /\ c.s = s /\ Asked(s, c)
<1>1. TypeOK /\ OneLive(s) /\ ~Serving(s)
  BY RequestApart DEF IInv, OfSession
<1>2. /\ ActiveRow(s) \in RowIds \cup {NoRow}
      /\ ActiveRow(s) # NoRow => ActiveRow(s) \in RowIds
  BY <1>1, ActiveIsLive
<1>3. "dropmerge" \notin Events => ~Spend("dropmerge")
  BY DEF Spend
<1>4. CASE Prepare(h, s)
  <2>1. NewRow(s) \in RowIds
    BY <1>4, NewIsRow DEF Prepare
  <2>2. LET c == NewCall("prepare", s, "branch", NewRow(s)) IN
        c \in Call /\ c.op = "prepare" /\ c.pc = "branch" /\ c.row = NewRow(s) /\ c.s = s
    BY <1>1, <2>1, NewCallType DEF Pc
  <2> QED BY <1>4, <2>1, <2>2 DEF Prepare, Create, CanCreate, Begin, Asked
<1>5. CASE ResolveWorkspace(h, s)
  <2>1. CASE Latest(s) = NoRow
    <3>1. NewRow(s) = 1
      BY <2>1 DEF NewRow, NoRow
    <3>2. CanCreate(s) /\ Create(s) /\ Begin(h, s, NewCall("run", s, "branch", 1))
      BY <1>5, <2>1 DEF ResolveWorkspace
    <3>3. 1 \in RowIds
      BY <3>1, <3>2, NewIsRow
    <3>4. LET c == NewCall("run", s, "branch", 1) IN
          c \in Call /\ c.op = "run" /\ c.pc = "branch" /\ c.row = 1 /\ c.s = s
      BY <1>1, <3>3, NewCallType DEF Pc
    <3> QED BY <3>1, <3>2, <3>3, <3>4 DEF Create, CanCreate, Begin, Asked
  <2>2. CASE Latest(s) # NoRow
    <3> DEFINE d == NewCall("run", s, "start", Latest(s))
    <3>1. PICK path \in {"base", "worktree"} :
            Begin(h, s, [d EXCEPT !.path = path]) /\ Refresh(s)
      BY <1>5, <2>2 DEF ResolveWorkspace
    <3>2. Latest(s) \in RowIds
      BY <2>2, LatestIsRow
    <3>3. d \in Call /\ d.op = "run" /\ d.pc = "start" /\ d.s = s
      BY <1>1, <3>2, NewCallType DEF Pc
    <3> HIDE DEF d
    <3>4. [d EXCEPT !.path = path] \in Call
      BY <3>3 DEF Call
    <3>5. PICK c \in Call : c = [d EXCEPT !.path = path]
      BY <3>4
    <3>6. c.op = "run" /\ c.pc = "start" /\ c.s = s
      BY <3>3, <3>5 DEF Call
    <3> QED BY <3>1, <3>5, <3>6 DEF Begin, Asked
  <2> QED BY <2>1, <2>2
<1>6. CASE RequestMerge(h, s)
  <2>1. LET c == NewCall("merge", s, "check", ActiveRow(s)) IN
        c \in Call /\ c.op = "merge" /\ c.pc = "check" /\ c.s = s
    BY <1>1, <1>2, NewCallType DEF Pc
  <2> QED BY <1>6, <2>1 DEF RequestMerge, Begin, Asked
<1>7. CASE RequestContinue(h, s)
  <2>1. LET c == NewCall("continue", s, "verify", ActiveRow(s)) IN
        c \in Call /\ c.op = "continue" /\ c.pc = "verify" /\ c.s = s
    BY <1>1, <1>2, NewCallType DEF Pc
  <2> QED BY <1>7, <2>1 DEF RequestContinue, Begin, Asked
<1>8. CASE RequestAbort(h, s)
  <2>1. ActiveRow(s) # NoRow
    BY <1>8 DEF RequestAbort, BeingMerged, ActiveStatus
  <2>2. LET c == NewCall("abort", s, "reset", ActiveRow(s)) IN
        c \in Call /\ c.op = "abort" /\ c.pc = "reset" /\ c.s = s
    BY <1>1, <1>2, NewCallType DEF Pc
  <2>3. NewCall("abort", s, "reset", ActiveRow(s)).squash = row[s][ActiveRow(s)].squash
    <3>1. row[s][ActiveRow(s)] \in Row
      BY <1>1, <1>2, <2>1 DEF TypeOK
    <3> QED BY <2>1, <3>1 DEF NewCall, Free, Row
  <2> QED BY <1>2, <1>8, <2>1, <2>2, <2>3 DEF RequestAbort, Begin, Asked
<1>9. CASE RequestDiscard(h, s)
  <2>1. LET c == NewCall("discard", s, "remove", ActiveRow(s)) IN
        c \in Call /\ c.op = "discard" /\ c.pc = "remove" /\ c.s = s
    BY <1>1, <1>2, NewCallType DEF Pc
  <2>2. /\ ActiveRow(s) # NoRow /\ SetStatus(s, ActiveRow(s), "cleanup_pending")
        /\ Begin(h, s, NewCall("discard", s, "remove", ActiveRow(s)))
        /\ "dropmerge" \notin Events => ~BeingMerged(s)
    BY <1>1, <1>3, <1>9 DEF RequestDiscard, CanMove, Move
  <2> QED BY <1>2, <2>1, <2>2 DEF Begin, Asked
<1>10. ASSUME NEW op \in {"retry", "force"}, RequestRetry(h, s, op)
       PROVE  \E c \in Call : call' = [call EXCEPT ![h] = c] /\ c.s = s /\ Asked(s, c)
  <2>1. LatestFailed(s) \in RowIds
    BY <1>10, FailedIsRow DEF RequestRetry
  <2>2. LET c == NewCall(op, s, "remove", LatestFailed(s)) IN
        c \in Call /\ c.op = op /\ c.pc = "remove" /\ c.s = s
    BY <1>1, <2>1, NewCallType DEF Pc
  <2> QED BY <1>10, <2>1, <2>2 DEF RequestRetry, Begin, Asked
<1>11. CASE RequestDelete(h, s)
  <2>1. LET c == NewCall("delete", s, "wipe", NoRow) IN
        c \in Call /\ c.op = "delete" /\ c.pc = "wipe" /\ c.s = s
    BY <1>1, NewCallType DEF Pc
  <2> QED BY <1>11, <2>1 DEF RequestDelete, Begin, Asked
<1> QED BY <1>4, <1>5, <1>6, <1>7, <1>8, <1>9, <1>10, <1>11 DEF Requests

LEMMA FreshRefreshed ==
  ASSUME row \in Rows, NEW s \in Sessions, Fresh(s), Refresh(s), UNCHANGED unmerged
  PROVE  Fresh(s)'
<1>1. CASE UNCHANGED row
  BY <1>1, RowsAlike
<1>2. CASE SetStatus(s, Latest(s), "dirty") /\ Latest(s) # NoRow
  <2>1. PICK i \in RowIds : i = Latest(s)
    BY <1>2, LatestIsRow
  <2> QED BY <1>2, <2>1, FreshSet
<1> QED BY <1>1, <1>2 DEF Refresh

LEMMA RequestPlaces ==
  ASSUME MInv, OneAtATime, NEW h \in Handlers, NEW s \in Sessions, Requests(h, s)
  PROVE  Placed(h)' /\ Smooth(h)' /\ Fresh(s)'
<1>1. /\ TypeOK /\ OneLive(s) /\ Fresh(s) /\ row \in Rows /\ call \in Calls
      /\ row \in [Sessions -> [RowIds -> Row]]
  BY SessionStart DEF Rows
<1>2. PICK c \in Call : call' = [call EXCEPT ![h] = c] /\ c.s = s /\ Asked(s, c)
  BY RequestForms DEF MInv
<1>3. call'[h] = c
  BY <1>1, <1>2 DEF Calls
<1>4. \A S : UNCHANGED row => (In(s, S)' <=> In(s, S))
  BY DEF In
<1>5. BeingMerged(s) <=> In(s, Being)
  BY <1>1, BeingIn
<1>14. UNCHANGED unmerged
  BY RequestApart DEF MInv, base
<1>6. Smooth(h)'
  <2>1. CASE c.pc # "reset"
    BY <1>2, <1>3, <2>1 DEF Asked, Smooth, Onward
  <2>2. CASE c.pc = "reset" /\ ~c.squash
    <3>1. /\ BeingMerged(s) /\ ActiveRow(s) \in RowIds
          /\ ~row[s][ActiveRow(s)].squash
      BY <1>2, <2>2 DEF Asked
    <3>2. row[s][ActiveRow(s)].status \in Being
      BY <3>1, WorktreeAssumption
         DEF BeingMerged, ActiveStatus, Being, RowIds, NoRow
    <3> QED BY <1>1, <1>2, <1>3, <1>14, <2>2, <3>1, <3>2 DEF Fresh, Being, Smooth
  <2> QED BY <1>3, <2>1, <2>2 DEF Smooth, Onward
<1>7. CASE c.op \in {"prepare", "run"} /\ c.pc = "branch" /\ c.row \in RowIds
           /\ row' = [row EXCEPT ![s][c.row] = [NoneRow EXCEPT !.status = "creating"]]
  <2>1. /\ row'[s][c.row].status = "creating" /\ row'[s][c.row].cursor = 0
        /\ \A j \in RowIds \ {c.row} : row'[s][j] = row[s][j]
    BY <1>1, <1>7 DEF NoneRow
  <2>2. Fresh(s)'
    BY <1>1, <1>14, <2>1 DEF Fresh
  <2>3. Placed(h)'
    BY <1>2, <1>3, <1>7, <2>1 DEF Placed, Course, Pc, MergeWork, DeletePcs
  <2> QED BY <1>6, <2>2, <2>3
<1>8. CASE c.op = "run" /\ c.pc = "start" /\ Refresh(s)
  <2>1. Fresh(s)'
    BY <1>1, <1>8, <1>14, FreshRefreshed
  <2>2. Placed(h)'
    BY <1>2, <1>3, <1>8 DEF Placed, Course, Pc, MergeWork, DeletePcs
  <2> QED BY <1>6, <2>1, <2>2
<1>9. CASE c.op = "merge" /\ c.pc = "check" /\ UNCHANGED row
  <2>1. Placed(h)'
    BY <1>3, <1>9 DEF Placed, Course, DeletePcs
  <2> QED BY <1>1, <1>6, <1>9, <2>1, <1>14, RowsAlike
<1>10. CASE c.op = "continue" /\ c.pc = "verify" /\ UNCHANGED row
            /\ ActiveStatus(s) = "needs_resolution"
  <2>1. In(s, {"needs_resolution"})
    BY <1>1, <1>10, ActiveIn DEF Live
  <2>2. Placed(h)'
    BY <1>2, <1>3, <1>4, <1>10, <2>1 DEF Placed, Course, DeletePcs
  <2> QED BY <1>1, <1>6, <1>10, <2>2, <1>14, RowsAlike
<1>11. CASE c.op = "abort" /\ c.pc = "reset" /\ UNCHANGED row /\ BeingMerged(s)
  <2>1. Placed(h)'
    BY <1>2, <1>3, <1>4, <1>5, <1>11 DEF Placed, Course, DeletePcs
  <2> QED BY <1>1, <1>6, <1>11, <2>1, <1>14, RowsAlike
<1>12. CASE c.op \in {"discard", "retry", "force"} /\ c.pc = "remove"
            /\ \E i \in RowIds : SetStatus(s, i, "cleanup_pending")
  <2>1. Fresh(s)'
    BY <1>1, <1>12, <1>14, FreshSet
  <2>2. Placed(h)'
    BY <1>3, <1>12 DEF Placed, Course, Pc, MergeWork, DeletePcs
  <2> QED BY <1>6, <2>1, <2>2
<1>13. CASE c.op = "delete" /\ c.pc = "wipe" /\ UNCHANGED row
            /\ ("dropmerge" \notin Events => ~BeingMerged(s))
  <2>1. Placed(h)'
    BY <1>2, <1>3, <1>4, <1>5, <1>13 DEF Placed, Course, Pc, MergeWork
  <2> QED BY <1>1, <1>6, <1>13, <2>1, <1>14, RowsAlike
<1> QED BY <1>2, <1>7, <1>8, <1>9, <1>10, <1>11, <1>12, <1>13 DEF Asked

\* No step of the environment is one of a handler.
Outside ==
  \/ \E s \in Sessions : Poll(s) \/ AgentCommits(s) \/ \E t \in Sessions : Resolve(s, t)
  \/ UserEdits \/ UserStages \/ UNCHANGED vars

LEMMA PollApart ==
  ASSUME row \in Rows, NEW s \in Sessions, Poll(s)
  PROVE  \E i \in RowIds :
           /\ row[s][i].status = "merged" /\ row'[s][i] = [row[s][i] EXCEPT !.status = "dirty"]
           /\ \A j \in RowIds \ {i} : row'[s][j] = row[s][j]
           /\ \A t \in Sessions \ {s} : row'[t] = row[t]
<1>1. /\ Latest(s) # NoRow /\ row[s][Latest(s)].status = "merged"
      /\ SetStatus(s, Latest(s), "dirty")
  BY DEF Poll, Refresh
<1>2. PICK i \in RowIds : i = Latest(s)
  BY <1>1, LatestIsRow
<1>3. \A t \in Sessions \ {s} : row'[t] = row[t]
  BY <1>1 DEF SetStatus, Rows
<1> QED BY <1>1, <1>2, <1>3, StatusSet

LEMMA OutsideRows ==
  ASSUME TypeOK, Outside
  PROVE  /\ UNCHANGED call
         /\ UNCHANGED row \/ \E s \in Sessions : Poll(s)
         /\ \A t \in Sessions : unmerged'[t] \subseteq unmerged[t]
<1>1. unmerged \in [Sessions -> SUBSET Commits]
  BY DEF TypeOK
<1>2. ASSUME NEW s \in Sessions, NEW t \in Sessions, Resolve(s, t)
      PROVE  UNCHANGED <<call, row>> /\ \A u \in Sessions : unmerged'[u] \subseteq unmerged[u]
  BY <1>1, <1>2 DEF Resolve
<1>3. ASSUME NEW s \in Sessions, Poll(s)
      PROVE  UNCHANGED <<call, unmerged>>
  BY <1>3 DEF Poll, NoGit, base
<1>4. ASSUME NEW s \in Sessions, AgentCommits(s)
      PROVE  UNCHANGED <<call, row, unmerged>>
  BY <1>4 DEF AgentCommits, base
<1>5. UserEdits \/ UserStages \/ UNCHANGED vars => UNCHANGED <<call, row, unmerged>>
  BY DEF UserEdits, UserStages, vars, base
<1> QED BY <1>2, <1>3, <1>4, <1>5 DEF Outside

LEMMA OutsideKept ==
  ASSUME MInv, IInv', Outside
  PROVE  MInv'
<1>1. TypeOK /\ row \in Rows /\ row \in [Sessions -> [RowIds -> Row]]
  BY DEF MInv, IInv, TypeOK, Rows
<1>2. UNCHANGED call /\ \A t \in Sessions : unmerged'[t] \subseteq unmerged[t]
  BY <1>1, OutsideRows
<1>3. /\ \A s \in Sessions : \A i \in RowIds :
           /\ row'[s][i].squash = row[s][i].squash
           /\ row'[s][i].cursor = row[s][i].cursor
           /\ \/ row'[s][i].status = row[s][i].status
              \/ row[s][i].status = "merged" /\ row'[s][i].status = "dirty"
  <2>1. CASE UNCHANGED row
    BY <2>1
  <2>2. ASSUME NEW t \in Sessions, Poll(t),
               NEW s \in Sessions, NEW i \in RowIds
        PROVE  /\ row'[s][i].squash = row[s][i].squash
               /\ row'[s][i].cursor = row[s][i].cursor
               /\ \/ row'[s][i].status = row[s][i].status
                  \/ row[s][i].status = "merged" /\ row'[s][i].status = "dirty"
    <3>1. PICK k \in RowIds :
           /\ row[t][k].status = "merged" /\ row'[t][k] = [row[t][k] EXCEPT !.status = "dirty"]
           /\ \A j \in RowIds \ {k} : row'[t][j] = row[t][j]
           /\ \A u \in Sessions \ {t} : row'[u] = row[u]
      BY <1>1, <2>2, PollApart
    <3>2. row[t][k] \in Row
      BY <1>1
    <3>3. CASE s = t /\ i = k
      BY <3>1, <3>2, <3>3 DEF Row
    <3>4. CASE s = t /\ i # k
      BY <3>1, <3>4
    <3>5. CASE s # t
      BY <3>1, <3>5
    <3> QED BY <3>3, <3>4, <3>5
  <2> QED BY <1>1, <2>1, <2>2, OutsideRows
<1>4. \A s \in Sessions : Fresh(s) => Fresh(s)'
  BY <1>2, <1>3 DEF Fresh
<1>5. ASSUME NEW h \in Handlers PROVE Placed(h)' /\ Smooth(h)'
  <2>1. Placed(h) /\ Smooth(h) /\ call'[h] = call[h] /\ OfHandler(h)
    BY <1>2 DEF MInv, IInv
  <2>2. PICK s \in Sessions : s = call[h].s
    BY <1>1 DEF TypeOK, Call
  <2>3. \A S \in SUBSET Being : In(s, S) => In(s, S)'
    BY <1>3 DEF In, Being
  <2>4. {"merging"} \in SUBSET Being /\ {"needs_resolution"} \in SUBSET Being
        /\ Being \in SUBSET Being
    BY DEF Being
  <2>5. In(s, Being)' => In(s, Being)
    BY <1>3 DEF In, Being
  <2>6. call[h].pc \in {"note", "cursor", "branch"} => call[h].row \in RowIds
    BY <2>1 DEF OfHandler, Named, RowPcs, MakePcs
  <2>7. Placed(h)'
    BY <1>3, <2>1, <2>2, <2>3, <2>4, <2>5, <2>6 DEF Placed
  <2> QED BY <1>2, <2>1, <2>2, <2>7 DEF Smooth
<1> QED BY <1>4, <1>5 DEF MInv

LEMMA InitMerge ==
  Init => MInv
<1> SUFFICES ASSUME Init PROVE MInv
  OBVIOUS
<1>1. IInv
  BY InitInv
<1>2. \A h \in Handlers : call[h].pc = "free" /\ call[h].op = "none"
  BY DEF Init, Free
<1>3. \A h \in Handlers : Placed(h) /\ Smooth(h)
  BY <1>2 DEF Placed, Course, Pc, MergeWork, Smooth, Onward, DeletePcs
<1>4. \A s \in Sessions : Fresh(s)
  BY DEF Init, Fresh, NoneRow
<1> QED BY <1>1, <1>3, <1>4 DEF MInv

\* One step of a merge
LEMMA MergePlaces ==
  ASSUME MInv, NEW h \in Handlers, NEW s, s = call[h].s, Merge(h)
  PROVE  Placed(h)' /\ Smooth(h)' /\ Fresh(s)'
<1>1. CASE \/ CheckBase(h) \/ Claim(h) \/ Note(h) \/ MarkMerged(h) \/ RecordCursor(h)
           \/ MarkConflicted(h) \/ Undo(h)
  BY <1>1, CheckBasePlaces, ClaimPlaces, NotePlaces, MarkMergedPlaces,
     RecordCursorPlaces, MarkConflictedPlaces, UndoPlaces
<1>2. CASE GitFails(h)
  BY <1>2, GitFailsPlaces
<1>3. CASE Unrowed(h)
  BY <1>3, UnrowedPlaces
<1>4. \/ CheckBase(h) \/ Claim(h) \/ Note(h) \/ MarkMerged(h) \/ RecordCursor(h)
      \/ MarkConflicted(h) \/ Undo(h) \/ GitFails(h) \/ Unrowed(h)
  BY Zenon DEF Merge, Unrowed
<1> QED BY <1>1, <1>2, <1>3, <1>4

LEMMA MergeKept ==
  ASSUME OneAtATime, MInv, [Next]_vars
  PROVE  MInv'
<1>1. IInv'
  BY StepInv DEF MInv
<1>2. ASSUME NEW h \in Handlers, Step(h) \/ Abandon(h)
      PROVE  MInv'
  <2>1. PICK s \in Sessions : s = call[h].s /\ Only(h, s)
    BY <1>2, StepApart DEF MInv
  <2>2. CASE Step(h)
    <3>1. Placed(h)' /\ Smooth(h)' /\ Fresh(s)'
      BY <2>1, <2>2, MakePlaces, MergePlaces, CleanPlaces DEF Step
    <3>2. \A t \in Sessions \ {s} : unmerged'[t] \subseteq unmerged[t]
      BY <2>1, <2>2, UnmergedApart DEF MInv, IInv
    <3> QED BY <1>1, <2>1, <3>1, <3>2, MergeLocally
  <2>3. CASE Abandon(h)
    <3>1. Done(h) /\ UNCHANGED <<row, unmerged>>
      BY <2>3 DEF Abandon, base
    <3>2. Placed(h)' /\ Smooth(h)' /\ Fresh(s)'
      BY <3>1, Freed, RowsAlike, SessionStart
    <3> QED BY <1>1, <2>1, <3>1, <3>2, MergeLocally
  <2> QED BY <1>2, <2>2, <2>3
<1>3. ASSUME NEW h \in Handlers, NEW s \in Sessions, Requests(h, s)
      PROVE  MInv'
  <2>1. Only(h, s) /\ UNCHANGED unmerged
    BY <1>3, RequestApart DEF MInv, base
  <2> QED BY <1>1, <1>3, <2>1, RequestPlaces, MergeLocally
<1>4. CASE Outside
  BY <1>1, <1>4, OutsideKept
<1> QED BY <1>2, <1>3, <1>4 DEF Next, Outside

\* Conflicts.  Where a merge has left unmerged paths, its row says so: the
\* steps that write the row in between find nothing unmerged (Smooth), and
\* nobody else's step adds an unmerged path.
Owned(s) == unmerged[s] # {} => In(s, Being)
CInv == MInv /\ \A s \in Sessions : Owned(s)

LEMMA BeingKept ==
  ASSUME row \in Rows, NEW s \in Sessions, NEW i \in RowIds, row[s][i].status \notin Being,
         NEW to, SetStatus(s, i, to) \/ MoveClearing(s, i, to), In(s, Being)
  PROVE  In(s, Being)'
<1>1. \A j \in RowIds \ {i} : row'[s][j] = row[s][j]
  BY DEF Rows, SetStatus, MoveClearing
<1> QED BY <1>1 DEF In

LEMMA MakeOwned ==
  ASSUME CInv, NEW h \in Handlers, NEW s, s = call[h].s, Make(h)
  PROVE  Owned(s)'
<1>1. /\ TypeOK /\ s \in Sessions /\ OneLive(s) /\ row \in Rows /\ OfHandler(h)
      /\ Placed(h) /\ Owned(s) /\ unmerged \in [Sessions -> SUBSET Commits]
  BY MergeStart DEF TypeOK, Rows, CInv
<1>2. call[h].pc \in MakePcs => call[h].row \in RowIds
  BY <1>1 DEF OfHandler, Named, RowPcs
<1>3. CASE MakeBranch(h)
  <2>1. UNCHANGED row /\ call[h].pc = "branch"
    BY <1>3 DEF MakeBranch, At
  <2>2. row[s][call[h].row].status = "creating" /\ call[h].row \in RowIds
    BY <1>1, <1>2, <2>1 DEF Placed, MakePcs
  <2>3. ~In(s, Being)
    BY <1>1, <2>2 DEF In, Being, OneLive, Live
  <2>4. unmerged[s] = {}
    BY <1>1, <2>3 DEF Owned
  <2>5. unmerged'[s] = {}
    BY <1>1, <1>3, <2>4 DEF MakeBranch, base, Earlier
  <2> QED BY <2>5 DEF Owned
<1>4. CASE AddWorktree(h) \/ StartRun(h)
  <2>1. UNCHANGED <<row, unmerged>>
    BY <1>4 DEF AddWorktree, StartRun, base
  <2> QED BY <1>1, <2>1 DEF Owned, In
<1>5. CASE Activate(h) \/ Unmake(h)
  <2>1. PICK i \in RowIds : i = call[h].row
    BY <1>2, <1>5 DEF Activate, Unmake, At, MakePcs
  <2>2. /\ unmerged' = unmerged
        /\ \/ UNCHANGED row
           \/ /\ row[s][i].status = "creating"
              /\ SetStatus(s, i, "active") \/ SetStatus(s, i, "cleanup_failed")
    BY <1>5, <2>1 DEF Activate, Unmake, NoGit, base
  <2>3. In(s, Being) => In(s, Being)'
    <3>1. CASE UNCHANGED row
      BY <3>1 DEF In
    <3>2. CASE row[s][i].status = "creating"
      BY <1>1, <2>2, <3>1, <3>2, BeingKept DEF Being
    <3> QED BY <2>2, <3>1, <3>2
  <2> QED BY <1>1, <2>2, <2>3 DEF Owned
<1> QED BY <1>3, <1>4, <1>5 DEF Make

LEMMA MergeOwned ==
  ASSUME CInv, "lookfault" \notin Events, NEW h \in Handlers, NEW s, s = call[h].s, Merge(h)
  PROVE  Owned(s)'
<1>1. /\ TypeOK /\ s \in Sessions /\ OneLive(s) /\ row \in Rows /\ OfHandler(h)
      /\ Placed(h) /\ Smooth(h) /\ Owned(s) /\ unmerged \in [Sessions -> SUBSET Commits]
  BY MergeStart DEF TypeOK, Rows, CInv
<1>2. None[s] = {}
  BY <1>1 DEF None
<1>3. CASE \/ CheckBase(h) \/ ListUnmerged(h) \/ Retreat(h) \/ Verify(h) \/ ResetBase(h)
           \/ GitFails(h)
  <2>1. UNCHANGED row /\ unmerged'[s] \subseteq unmerged[s]
    BY <1>2, <1>3 DEF CheckBase, ListUnmerged, Retreat, Verify, ResetBase, GitFails,
                      ResetMerge, ResetHard, NoGit, base
  <2> QED BY <1>1, <2>1 DEF Owned, In
<1>4. CASE Claim(h) \/ Note(h) \/ Diff(h) \/ Unstage(h) \/ ApplyClean(h)
  <2>1. call[h].pc \in Onward \cup {"claim"}
    BY <1>4 DEF Claim, Note, Diff, Unstage, ApplyClean, At, Onward
  <2>2. unmerged[s] = {}
    BY <1>1, <2>1 DEF Smooth
  <2>3. unmerged'[s] = {}
    BY <1>2, <1>4, <2>2
       DEF Claim, Note, Diff, Unstage, UnstageDirty, ApplyClean, NoGit, base
  <2> QED BY <2>3 DEF Owned
<1>5. CASE ApplyRefused(h) \/ Look(h) \/ Commit(h)
  <2>1. call[h].pc \in Onward
    BY <1>5 DEF ApplyRefused, Look, Commit, At, Onward
  <2>2. unmerged[s] = {}
    BY <1>1, <2>1 DEF Smooth
  <2>3. unmerged'[s] = {}
    BY <1>2, <1>5, <2>2
       DEF ApplyRefused, Look, Commit, CommitIndex, NoGit, base
  <2> QED BY <2>3 DEF Owned
<1>6. CASE ReadTip(h) \/ MarkMerged(h) \/ Undo(h)
  <2>1. call[h].pc \in Onward \cup {"undo"}
    BY <1>6 DEF ReadTip, MarkMerged, Undo, At, Onward
  <2>2. unmerged[s] = {}
    BY <1>1, <2>1 DEF Smooth
  <2>3. unmerged'[s] = {}
    BY <1>6, <2>2 DEF ReadTip, MarkMerged, Undo, NoGit, base
  <2> QED BY <2>3 DEF Owned
<1>7. CASE ApplyConflicts(h)
  <2>1. UNCHANGED row /\ call[h].pc = "apply"
    BY <1>7 DEF ApplyConflicts, At
  <2>2. In(s, {"merging"})
    BY <1>1, <2>1, OpOf DEF Placed
  <2> QED BY <2>1, <2>2 DEF Owned, In, Being
<1>8. CASE RecordCursor(h)
  <2>1. unmerged' = unmerged /\ call[h].row \in RowIds
    BY <1>1, <1>8 DEF RecordCursor, NoGit, base, OfHandler, Named, RowPcs, At
  <2>2. \A j \in RowIds : row'[s][j].status = row[s][j].status
    BY <1>1, <1>8, <2>1 DEF RecordCursor, Rows, Row
  <2> QED BY <1>1, <2>1, <2>2 DEF Owned, In
<1>9. CASE MarkConflicted(h)
  <2>1. unmerged' = unmerged
    BY <1>9 DEF MarkConflicted, NoGit, base
  <2>2. CASE UNCHANGED row
    BY <1>1, <2>1, <2>2 DEF Owned, In
  <2>3. CASE ActiveRow(s) # NoRow /\ SetStatus(s, ActiveRow(s), "needs_resolution")
    <3>1. PICK a \in RowIds : a = ActiveRow(s)
      BY <1>1, <2>3, ActiveIsLive
    <3>2. row'[s][a].status = "needs_resolution"
      BY <1>1, <2>3, <3>1 DEF SetStatus, Rows, Row
    <3> QED BY <3>2 DEF Owned, In, Being
  <2> QED BY <1>9, <2>2, <2>3 DEF MarkConflicted, CanMove, Move
<1> QED BY <1>3, <1>4, <1>5, <1>6, <1>7, <1>8, <1>9 DEF Merge

LEMMA CleanOwned ==
  ASSUME CInv, "dropmerge" \notin Events, NEW h \in Handlers, NEW s, s = call[h].s, Clean(h)
  PROVE  Owned(s)'
<1>1. /\ TypeOK /\ s \in Sessions /\ row \in Rows /\ OfHandler(h) /\ Placed(h) /\ Owned(s)
  BY MergeStart DEF TypeOK, Rows, CInv
<1>2. unmerged' = unmerged
  BY DEF Clean, RemoveWorktree, Fail, Unbranch, Archive, Wipe, WipeFails, WipeBranch,
         Cascade, NoGit, base
<1>3. CASE RemoveWorktree(h) \/ Unbranch(h) \/ Wipe(h) \/ WipeFails(h) \/ WipeBranch(h)
  <2>1. UNCHANGED row
    BY <1>3 DEF RemoveWorktree, Unbranch, Wipe, WipeFails, WipeBranch
  <2> QED BY <1>1, <1>2, <2>1 DEF Owned, In
<1>4. CASE Fail(h) \/ Archive(h)
  <2>1. PICK i \in RowIds : i = call[h].row
    BY <1>1, <1>4 DEF OfHandler, Named, RowPcs, At, Fail, Archive
  <2>2. \/ UNCHANGED row
        \/ /\ row[s][i].status = "cleanup_pending"
           /\ MoveClearing(s, i, "cleanup_failed") \/ MoveClearing(s, i, "archived")
    BY <1>4, <2>1 DEF Fail, Archive
  <2>3. In(s, Being) => In(s, Being)'
    <3>1. CASE UNCHANGED row
      BY <3>1 DEF In
    <3>2. CASE row[s][i].status = "cleanup_pending"
      BY <1>1, <2>2, <3>1, <3>2, BeingKept DEF Being
    <3> QED BY <2>2, <3>1, <3>2
  <2> QED BY <1>1, <1>2, <2>3 DEF Owned
<1>5. CASE Cascade(h)
  <2>1. ~In(s, Being)
    BY <1>1, <1>5 DEF Placed, Cascade, At, DeletePcs
  <2> QED BY <1>1, <1>2, <2>1 DEF Owned
<1> QED BY <1>3, <1>4, <1>5 DEF Clean

LEMMA RequestOwned ==
  ASSUME CInv, OneAtATime, "dropmerge" \notin Events,
         NEW h \in Handlers, NEW s \in Sessions, Requests(h, s)
  PROVE  Owned(s)'
<1>1. TypeOK /\ OneLive(s) /\ row \in Rows /\ Owned(s) /\ unmerged' = unmerged
  BY SessionStart, RequestApart DEF CInv, MInv, base
<1>2. PICK c \in Call : Asked(s, c)
  BY RequestForms DEF CInv, MInv
<1>3. LiveRows(s) = {} => ~In(s, Being)
  BY DEF LiveRows, Live, In, Being
<1>4. CASE UNCHANGED row
  BY <1>1, <1>4 DEF Owned, In
<1>5. CASE LiveRows(s) = {} \/ ~BeingMerged(s)
  BY <1>1, <1>3, <1>5, BeingIn DEF Owned
<1>6. CASE Refresh(s)
  <2>1. CASE Latest(s) # NoRow /\ row[s][Latest(s)].status = "merged"
             /\ SetStatus(s, Latest(s), "dirty")
    <3>1. PICK i \in RowIds : i = Latest(s)
      BY <2>1, LatestIsRow
    <3>2. In(s, Being) => In(s, Being)'
      BY <1>1, <2>1, <3>1, BeingKept DEF Being
    <3> QED BY <1>1, <3>2 DEF Owned
  <2> QED BY <1>4, <1>6, <2>1 DEF Refresh
<1> QED BY <1>2, <1>4, <1>5, <1>6 DEF Asked

LEMMA OutsideOwned ==
  ASSUME CInv, Outside
  PROVE  \A s \in Sessions : Owned(s)'
<1>1. TypeOK /\ row \in Rows /\ \A s \in Sessions : Owned(s)
  BY DEF CInv, MInv, IInv, TypeOK, Rows
<1>2. \A t \in Sessions : unmerged'[t] \subseteq unmerged[t]
  BY <1>1, OutsideRows
<1>3. ASSUME NEW s \in Sessions, In(s, Being) PROVE In(s, Being)'
  <2>1. CASE UNCHANGED row
    BY <1>3, <2>1 DEF In
  <2>2. ASSUME NEW t \in Sessions, Poll(t) PROVE In(s, Being)'
    <3>1. PICK k \in RowIds :
           /\ row[t][k].status = "merged" /\ row'[t][k] = [row[t][k] EXCEPT !.status = "dirty"]
           /\ \A j \in RowIds \ {k} : row'[t][j] = row[t][j]
           /\ \A u \in Sessions \ {t} : row'[u] = row[u]
      BY <1>1, <2>2, PollApart
    <3> QED BY <1>3, <3>1 DEF In, Being
  <2> QED BY <1>1, <2>1, <2>2, OutsideRows
<1> QED BY <1>1, <1>2, <1>3 DEF Owned

LEMMA ConflictsKept ==
  ASSUME OneAtATime, "dropmerge" \notin Events, "lookfault" \notin Events, CInv, [Next]_vars
  PROVE  CInv'
<1>1. MInv'
  BY MergeKept DEF CInv
<1>2. ASSUME NEW h \in Handlers, NEW s \in Sessions, Only(h, s), Owned(s)',
             \A t \in Sessions \ {s} : unmerged'[t] \subseteq unmerged[t]
      PROVE  CInv'
  <2>1. ASSUME NEW t \in Sessions \ {s} PROVE Owned(t)'
    <3>1. Owned(t) /\ row'[t] = row[t] /\ unmerged'[t] \subseteq unmerged[t]
      BY <1>2 DEF CInv, Only
    <3> QED BY <3>1 DEF Owned, In
  <2> QED BY <1>1, <1>2, <2>1 DEF CInv
<1>3. ASSUME NEW h \in Handlers, Step(h) PROVE CInv'
  <2>1. PICK s \in Sessions : s = call[h].s /\ Only(h, s)
    BY <1>3, StepApart DEF CInv, MInv
  <2>2. Owned(s)'
    BY <1>3, <2>1, MakeOwned, MergeOwned, CleanOwned DEF Step
  <2>3. \A t \in Sessions \ {s} : unmerged'[t] \subseteq unmerged[t]
    BY <1>3, <2>1, UnmergedApart DEF CInv, MInv, IInv
  <2> QED BY <1>2, <2>1, <2>2, <2>3
<1>4. ASSUME NEW h \in Handlers, Abandon(h) PROVE CInv'
  <2>1. UNCHANGED <<row, unmerged>>
    BY <1>4 DEF Abandon, base
  <2> QED BY <1>1, <2>1 DEF CInv, Owned, In
<1>5. ASSUME NEW h \in Handlers, NEW s \in Sessions, Requests(h, s) PROVE CInv'
  <2>1. Only(h, s) /\ UNCHANGED unmerged
    BY <1>5, RequestApart DEF CInv, MInv, base
  <2> QED BY <1>2, <1>5, <2>1, RequestOwned
<1>6. CASE Outside
  BY <1>1, <1>6, OutsideOwned DEF CInv
<1> QED BY <1>3, <1>4, <1>5, <1>6 DEF Next, Outside

\* Unmerged paths in the base workspace belong to a merge that can still be
\* resolved or aborted, whichever other step fails, is dropped or comes in
\* between, where git lists the unmerged paths after a patch and no worktree is
\* discarded or deleted while it is being merged (session_worktree.rs,
\* list_unmerged_paths and perform_merge, mark_needs_conflict_resolution and
\* validate_merge_preconditions).  Both conditions are needed: a merge that
\* cannot list them makes its row dirty and leaves the paths behind.
THEOREM ConflictsAreOwned ==
  OneAtATime /\ Events \cap {"dropmerge", "lookfault"} = {} => (Spec => []ConflictHasOwner)
<1> SUFFICES ASSUME OneAtATime, "dropmerge" \notin Events, "lookfault" \notin Events
             PROVE  Spec => []ConflictHasOwner
  OBVIOUS
<1>1. Init => CInv
  <2>1. ASSUME Init PROVE \A s \in Sessions : Owned(s)
    BY <2>1 DEF Init, Owned
  <2> QED BY <2>1, InitMerge DEF CInv
<1>2. CInv /\ [Next]_vars => CInv'
  BY ConflictsKept
<1>3. CInv => ConflictHasOwner
  <2>1. ASSUME CInv, NEW s \in Sessions, unmerged[s] # {} PROVE BeingMerged(s)
    <3>1. OneLive(s) /\ In(s, Being)
      BY <2>1 DEF CInv, MInv, IInv, OfSession, Owned
    <3> QED BY <3>1, BeingIn
  <2> QED BY <2>1 DEF ConflictHasOwner
<1> QED BY <1>1, <1>2, <1>3, PTL DEF Spec

-------------------------------------------------------------------------------
(* One merge at a time.  Without an "overlap" the check of a merge, which    *)
(* looks for unmerged paths only, passes while no other session is being     *)
(* merged; then the index is the merging session's from the moment it is     *)
(* unstaged to the commit.                                                   *)

Engaged(s) ==
  In(s, Being) \/ \E h \in Handlers : call[h].s = s /\ call[h].pc \in MergeWork
Exclusive == \A s, t \in Sessions : Engaged(s) /\ Engaged(t) => s = t

ApplyPcs == {"apply", "list", "look", "commit", "retreat", "conflicted"}
Applying(s) ==
  \/ In(s, {"needs_resolution"})
  \/ \E h \in Handlers : call[h].s = s /\ call[h].pc \in ApplyPcs
Clear(s) == staged[s] = {} /\ unmerged[s] = {}
Apart == \A s \in Sessions : Applying(s) => \A t \in Sessions \ {s} : Clear(t)

XInv == MInv /\ Exclusive /\ Apart

LEMMA ApplyingEngaged ==
  ASSUME NEW s \in Sessions, Applying(s)
  PROVE  Engaged(s)
BY DEF Applying, Engaged, In, Being, ApplyPcs, MergeWork

LEMMA PcOf ==
  ASSUME TypeOK, NEW h \in Handlers
  PROVE  /\ \A pc : Goto(h, pc) => call'[h].pc = pc
         /\ Done(h) => call'[h].pc = "free"
<1>1. call \in [Handlers -> Call] /\ call[h] \in Call
  BY DEF TypeOK
<1>2. ASSUME NEW pc, Goto(h, pc) PROVE call'[h].pc = pc
  BY <1>1, <1>2 DEF Goto, Call
<1> QED BY <1>1, <1>2 DEF Done, Free

LEMMA NotIn ==
  ASSUME row \in Rows, NEW s \in Sessions, NEW S, In(s, S)',
         \/ UNCHANGED row
         \/ \E i \in RowIds : \E to : to \notin S /\ (SetStatus(s, i, to) \/ MoveClearing(s, i, to))
  PROVE  In(s, S)
<1>1. CASE UNCHANGED row
  BY <1>1 DEF In
<1>2. ASSUME NEW i \in RowIds, NEW to, to \notin S,
             SetStatus(s, i, to) \/ MoveClearing(s, i, to)
      PROVE  In(s, S)
  <2>1. row \in [Sessions -> [RowIds -> Row]] /\ row[s][i] \in Row
    BY DEF Rows
  <2>2. \A j \in RowIds \ {i} : row'[s][j] = row[s][j]
    BY <1>2, <2>1 DEF SetStatus, MoveClearing
  <2>3. row'[s][i].status = to
    <3>1. CASE SetStatus(s, i, to)
      BY <2>1, <3>1 DEF SetStatus, Row
    <3>2. CASE MoveClearing(s, i, to)
      <4>1. row'[s] = [row[s] EXCEPT ![i] = [row[s][i] EXCEPT !.status = to, !.squash = FALSE]]
        BY <2>1, <3>2 DEF MoveClearing
      <4> QED BY <2>1, <4>1 DEF Row
    <3> QED BY <1>2, <3>1, <3>2
  <2> QED BY <1>2, <2>2, <2>3 DEF In
<1> QED BY <1>1, <1>2

\* It is enough to look at the handler and the session of the step.
LEMMA ExclusiveLocally ==
  ASSUME XInv, MInv', NEW h \in Handlers, NEW s \in Sessions, Only(h, s),
         Engaged(s)' => Engaged(s) \/ \A t \in Sessions \ {s} : ~Engaged(t),
         Applying(s)' => Applying(s) \/ \A t \in Sessions \ {s} : Clear(t)',
         \A t \in Sessions : t # s \/ call[h].pc # "apply" => (Clear(t) => Clear(t)')
  PROVE  XInv'
<1>1. ASSUME NEW t \in Sessions \ {s}
      PROVE  (Engaged(t)' => Engaged(t)) /\ (Applying(t)' => Applying(t))
  <2>1. row'[t] = row[t]
    BY DEF Only
  <2>2. \A S : In(t, S)' <=> In(t, S)
    BY <2>1 DEF In
  <2>3. \A g \in Handlers : call'[g].s = t => call'[g] = call[g]
    BY DEF Only
  <2>4. Engaged(t)' => Engaged(t)
    BY <2>2, <2>3 DEF Engaged
  <2> QED BY <2>2, <2>3, <2>4 DEF Applying
<1>2. Exclusive'
  <2>1. Exclusive
    BY DEF XInv
  <2>2. SUFFICES ASSUME NEW t \in Sessions, NEW u \in Sessions, Engaged(t)', Engaged(u)'
                 PROVE  t = u
    BY DEF Exclusive
  <2>3. CASE t # s /\ u # s
    BY <1>1, <2>1, <2>2, <2>3 DEF Exclusive
  <2>4. CASE t = s /\ u # s
    BY <1>1, <2>1, <2>2, <2>4 DEF Exclusive
  <2>5. CASE t # s /\ u = s
    BY <1>1, <2>1, <2>2, <2>5 DEF Exclusive
  <2> QED BY <2>3, <2>4, <2>5
<1>3. Apart'
  <2>1. SUFFICES ASSUME NEW u \in Sessions, Applying(u)', NEW t \in Sessions \ {u}
                 PROVE  Clear(t)'
    BY DEF Apart
  <2>2. CASE Applying(u)
    <3>1. Clear(t)
      BY <2>1, <2>2 DEF XInv, Apart
    <3>2. CASE t = s /\ call[h].pc = "apply"
      <4>1. Engaged(s)
        BY <3>2 DEF Only, At, Engaged, MergeWork
      <4>2. Engaged(u)
        BY <2>2, ApplyingEngaged
      <4> QED BY <2>1, <3>2, <4>1, <4>2 DEF XInv, Exclusive
    <3> QED BY <3>1, <3>2
  <2>3. CASE ~Applying(u)
    <3>1. u = s
      BY <1>1, <2>1, <2>3
    <3> QED BY <2>1, <2>3, <3>1
  <2> QED BY <2>2, <2>3
<1> QED BY <1>2, <1>3 DEF XInv

\* Nothing gets into the index but by the patch that is applied.
LEMMA ClearKept ==
  ASSUME TypeOK, NEW h \in Handlers, Step(h)
  PROVE  \A t \in Sessions : t # call[h].s \/ call[h].pc # "apply" => (Clear(t) => Clear(t)')
<1>1. /\ staged \in [Sessions -> SUBSET Commits] /\ None = [t \in Sessions |-> {}]
      /\ unmerged \in [Sessions -> SUBSET Commits]
  BY DEF TypeOK, None
<1> USE <1>1 DEF NoGit, base, Clear
<1>2. CASE Make(h)
  <2>1. CASE MakeBranch(h)
    BY <2>1 DEF MakeBranch, Earlier
  <2>2. CASE ~MakeBranch(h)
    BY <1>2, <2>2 DEF Make, AddWorktree, Activate, Unmake, StartRun
  <2> QED BY <2>1, <2>2
<1>3. CASE Merge(h)
  <2>1. CASE CheckBase(h) \/ Claim(h) \/ Note(h) \/ Diff(h) \/ Look(h) \/ Verify(h)
    BY <2>1 DEF CheckBase, Claim, Note, Diff, Look, Verify
  <2>2. CASE Unstage(h) \/ ApplyRefused(h)
    BY <2>2 DEF Unstage, UnstageDirty, ApplyRefused
  <2>6. CASE ListUnmerged(h) \/ Retreat(h) \/ GitFails(h)
    BY <2>6 DEF ListUnmerged, Retreat, ResetMerge, GitFails
  <2>3. CASE ApplyClean(h) \/ ApplyConflicts(h)
    BY <2>3 DEF ApplyClean, ApplyConflicts, At
  <2>4. CASE ReadTip(h) \/ MarkMerged(h) \/ RecordCursor(h) \/ MarkConflicted(h) \/ Undo(h)
    BY <2>4 DEF ReadTip, MarkMerged, RecordCursor, MarkConflicted, Undo
  <2>5. CASE ResetBase(h) \/ Commit(h)
    BY <2>5 DEF ResetBase, Commit, CommitIndex, ResetMerge, ResetHard
  <2> QED BY <1>3, <2>1, <2>2, <2>3, <2>4, <2>5, <2>6 DEF Merge
<1>4. CASE Clean(h)
  BY <1>4 DEF Clean, RemoveWorktree, Fail, Unbranch, Archive, Wipe, WipeFails,
              WipeBranch, Cascade
<1> QED BY <1>2, <1>3, <1>4 DEF Step

\* A step that ends outside the work of a merge engages nobody.
LEMMA Disengaged ==
  ASSUME NEW h \in Handlers, NEW s \in Sessions, Only(h, s), call'[h].pc \notin MergeWork,
         \A S \in {Being, {"needs_resolution"}} : In(s, S)' => In(s, S)
  PROVE  (Engaged(s)' => Engaged(s)) /\ (Applying(s)' => Applying(s))
<1>1. \A g \in Handlers : call'[g].pc \in MergeWork => call'[g] = call[g]
  BY DEF Only
<1>2. Engaged(s)' => Engaged(s)
  BY <1>1 DEF Engaged
<1>3. ApplyPcs \subseteq MergeWork
  BY DEF ApplyPcs, MergeWork
<1>4. Applying(s)' => Applying(s)
  BY <1>1, <1>3 DEF Applying
<1> QED BY <1>2, <1>4

LEMMA AshoreApart ==
  ASSUME MInv, NEW h \in Handlers, NEW s, s = call[h].s, Only(h, s), Make(h) \/ Clean(h)
  PROVE  (Engaged(s)' => Engaged(s)) /\ (Applying(s)' => Applying(s))
<1>1. /\ TypeOK /\ s \in Sessions /\ row \in Rows /\ OfHandler(h)
  BY MergeStart DEF TypeOK, Rows
<1>2. call'[h].pc \notin MergeWork
  <2>1. CASE Make(h) /\ ~Activate(h)
    <3>1. \/ Goto(h, "unmake") \/ Goto(h, "add") \/ Goto(h, "activate") \/ Done(h)
      BY <2>1 DEF Make, MakeBranch, AddWorktree, Unmake, StartRun
    <3> QED BY <1>1, <3>1, PcOf DEF MergeWork
  <2>2. CASE Activate(h)
    <3>1. \/ call' = [call EXCEPT ![h].pc = "start", ![h].path = "worktree"] \/ Done(h)
      BY <2>2 DEF Activate
    <3>2. call[h] \in Call /\ call \in [Handlers -> Call]
      BY <1>1 DEF TypeOK
    <3>3. CASE call' = [call EXCEPT ![h].pc = "start", ![h].path = "worktree"]
      BY <3>2, <3>3 DEF MergeWork, Call
    <3> QED BY <1>1, <3>1, <3>3, PcOf DEF MergeWork
  <2>3. CASE Clean(h)
    <3>1. \/ Goto(h, "unbranch") \/ Goto(h, "fail") \/ Goto(h, "archive")
          \/ Goto(h, "wipebranch") \/ Goto(h, "cascade") \/ Done(h)
      BY <2>3 DEF Clean, RemoveWorktree, Fail, Unbranch, DeleteBranch, Archive, Wipe,
                  WipeFails, WipeBranch, Cascade
    <3> QED BY <1>1, <3>1, PcOf DEF MergeWork
  <2> QED BY <2>1, <2>2, <2>3
<1>3. \A S \in {Being, {"needs_resolution"}} : In(s, S)' => In(s, S)
  <2> SUFFICES ASSUME NEW S \in {Being, {"needs_resolution"}}, In(s, S)' PROVE In(s, S)
    OBVIOUS
  <2>0. S \cap {"active", "cleanup_failed", "archived", "none"} = {}
    BY DEF Being
  <2>1. PICK i : i = call[h].row
    OBVIOUS
  <2>2. CASE Activate(h) \/ Unmake(h) \/ Fail(h) \/ Archive(h)
    <3>1. i \in RowIds
      BY <1>1, <2>1, <2>2 DEF OfHandler, Named, RowPcs, MakePcs, At, Activate, Unmake,
                              Fail, Archive
    <3>2. \/ UNCHANGED row
          \/ SetStatus(s, i, "active") \/ SetStatus(s, i, "cleanup_failed")
          \/ MoveClearing(s, i, "cleanup_failed") \/ MoveClearing(s, i, "archived")
      BY <2>1, <2>2 DEF Activate, Unmake, Fail, Archive
    <3> QED BY <1>1, <2>0, <3>1, <3>2, NotIn
  <2>3. CASE Cascade(h)
    <3>1. \A j \in RowIds : row'[s][j].status = "none"
      BY <1>1, <2>3 DEF Cascade, Rows, NoneRow
    <3> QED BY <2>0, <3>1 DEF In
  <2>4. CASE UNCHANGED row
    BY <2>4 DEF In
  <2> QED BY <2>2, <2>3, <2>4
          DEF Make, MakeBranch, AddWorktree, StartRun, Clean, RemoveWorktree, Unbranch,
              Wipe, WipeFails, WipeBranch
<1> QED BY <1>1, <1>2, <1>3, Disengaged

LEMMA MergeApart ==
  ASSUME MInv, "overlap" \notin Events, NEW h \in Handlers, NEW s, s = call[h].s,
         Only(h, s), Merge(h)
  PROVE  /\ Engaged(s)' => Engaged(s) \/ \A t \in Sessions \ {s} : ~Engaged(t)
         /\ Applying(s)' => Applying(s) \/ \A t \in Sessions \ {s} : Clear(t)'
<1>1. /\ TypeOK /\ s \in Sessions /\ row \in Rows /\ OfHandler(h) /\ Placed(h) /\ OneLive(s)
      /\ row \in [Sessions -> [RowIds -> Row]]
  BY MergeStart DEF TypeOK, Rows
<1>2. CASE CheckBase(h)
  <2>1. UNCHANGED row /\ (Goto(h, "claim") \/ Done(h))
    BY <1>2 DEF CheckBase
  <2>2. Applying(s)' => Applying(s)
    <3>1. \A g \in Handlers : call'[g].pc \in ApplyPcs => call'[g] = call[g]
      BY <1>1, <2>1, PcOf DEF Only, ApplyPcs
    <3> QED BY <2>1, <3>1 DEF Applying, In
  <2>3. CASE Done(h)
    <3>1. \A S : In(s, S)' => In(s, S)
      BY <2>1 DEF In
    <3> QED BY <1>1, <2>3, <3>1, PcOf, Disengaged DEF MergeWork
  <2>4. CASE ~Done(h)
    <3>1. ~OthersMerge(s)
      BY <1>2, <2>4 DEF CheckBase, Spend
    <3>2. ASSUME NEW t \in Sessions \ {s}, Engaged(t) PROVE FALSE
      <4>1. OneLive(t)
        BY DEF MInv, IInv, OfSession
      <4> QED BY <3>1, <3>2, <4>1, BeingIn DEF Engaged, OthersMerge
    <3> QED BY <2>2, <3>2
  <2> QED BY <2>3, <2>4
<1>4. CASE GitFails(h)
  <2>1. UNCHANGED row /\ \A S : In(s, S)' => In(s, S)
    BY <1>4 DEF GitFails, In
  <2>2. CASE call[h].pc = "look"
    BY <1>1, <2>2 DEF Engaged, Applying, MergeWork, ApplyPcs
  <2>3. CASE call[h].pc \in {"diff", "unstage"}
    <3>1. Goto(h, "undo")
      BY <1>4, <2>3 DEF GitFails, At
    <3>2. \A g \in Handlers : call'[g].pc \in ApplyPcs => call'[g] = call[g]
      BY <1>1, <3>1, PcOf DEF Only, ApplyPcs
    <3> QED BY <1>1, <2>1, <2>3, <3>2 DEF Engaged, Applying, MergeWork
  <2>4. CASE call[h].pc \notin {"look", "diff", "unstage"}
    <3>1. Goto(h, "unmake") \/ Done(h)
      BY <1>4, <2>4 DEF GitFails, At
    <3> QED BY <1>1, <2>1, <3>1, PcOf, Disengaged DEF MergeWork
  <2> QED BY <2>2, <2>3, <2>4
<1>3. CASE ~CheckBase(h) /\ ~GitFails(h)
  <2>1. call[h].pc \in MergeWork
    BY <1>3 DEF Merge, Claim, Note, Diff, Unstage, ApplyClean, ApplyConflicts,
                ApplyRefused, ListUnmerged, Look, Commit, Retreat, ReadTip,
                MarkMerged, RecordCursor, MarkConflicted, Undo, Verify, ResetBase, At,
                MergeWork
  <2>2. Engaged(s)
    BY <2>1 DEF Engaged
  <2>3. CASE ApplyClean(h) \/ ApplyConflicts(h) \/ ApplyRefused(h) \/ ListUnmerged(h)
             \/ Look(h) \/ Commit(h) \/ Retreat(h) \/ MarkConflicted(h)
    <3>1. call[h].pc \in ApplyPcs
      BY <2>3 DEF ApplyClean, ApplyConflicts, ApplyRefused, ListUnmerged, Look, Commit,
                  Retreat, MarkConflicted, At, ApplyPcs
    <3> QED BY <2>2, <3>1 DEF Applying
  <2>4. CASE Verify(h)
    <3>1. In(s, {"needs_resolution"})
      BY <1>1, <2>4, OpOf DEF Verify, At, Placed
    <3> QED BY <2>2, <3>1 DEF Applying
  <2>5. CASE Unstage(h)
    <3>1. \A t \in Sessions : Clear(t)'
      BY <2>5 DEF Unstage, UnstageDirty, Clear, None
    <3> QED BY <2>2, <3>1
  <2>6. CASE Claim(h) \/ Note(h) \/ Diff(h) \/ ReadTip(h) \/ MarkMerged(h)
             \/ RecordCursor(h) \/ Undo(h) \/ ResetBase(h)
    <3>1. call'[h].pc \notin ApplyPcs
      <4>0. call[h] \in Call /\ call \in [Handlers -> Call]
        BY <1>1 DEF TypeOK
      <4>1. CASE RecordCursor(h) \/ Undo(h) \/ ResetBase(h)
        <5>1. Done(h) \/ Goto(h, "undo")
          BY <4>1 DEF RecordCursor, Undo, ResetBase
        <5> QED BY <1>1, <5>1, PcOf DEF ApplyPcs
      <4>2. CASE Claim(h) \/ Note(h) \/ MarkMerged(h)
        <5>1. Done(h) \/ call'[h].pc \in {"note", "diff", "cursor"}
          BY <4>0, <4>2 DEF Claim, Note, MarkMerged, Call
        <5> QED BY <1>1, <5>1, PcOf DEF ApplyPcs
      <4>3. CASE Diff(h)
        <5>1. call'[h].pc \in {"undo", "tip", "unstage"}
          BY <4>0, <4>3 DEF Diff, Call
        <5> QED BY <5>1 DEF ApplyPcs
      <4>4. CASE ReadTip(h)
        <5>1. Done(h) \/ call'[h].pc = "mark"
          BY <1>1, <4>0, <4>4, PcOf DEF ReadTip, Call
        <5> QED BY <1>1, <5>1, PcOf DEF ApplyPcs
      <4> QED BY <2>6, <4>1, <4>2, <4>3, <4>4
    <3>2. \A g \in Handlers : call'[g].pc \in ApplyPcs => call'[g] = call[g]
      BY <3>1 DEF Only
    <3>3. In(s, {"needs_resolution"})' => In(s, {"needs_resolution"})
      <4>1. CASE Diff(h) \/ ReadTip(h) \/ ResetBase(h)
        <5>1. UNCHANGED row
          BY <4>1 DEF Diff, ReadTip, ResetBase
        <5> QED BY <5>1 DEF In
      <4>2. CASE Claim(h) \/ MarkMerged(h) \/ Undo(h)
        <5>1. \/ UNCHANGED row
              \/ /\ ActiveRow(s) # NoRow
                 /\ \/ SetStatus(s, ActiveRow(s), "merging")
                    \/ SetStatus(s, ActiveRow(s), "merged")
                    \/ MoveClearing(s, ActiveRow(s), "dirty")
          BY <4>2 DEF Claim, MarkMerged, Undo, Move, CanMove
        <5>2. ActiveRow(s) # NoRow => ActiveRow(s) \in RowIds
          BY <1>1, ActiveIsLive
        <5> QED BY <1>1, <5>1, <5>2, NotIn
      <4>3. CASE Note(h) \/ RecordCursor(h)
        <5>1. PICK i \in RowIds : i = call[h].row
          BY <1>1, <4>3 DEF Note, RecordCursor, OfHandler, Named, RowPcs, At
        <5>2. \A j \in RowIds : row'[s][j].status = row[s][j].status
          <6>1. row[s][i] \in Row
            BY <1>1
          <6>2. \/ UNCHANGED row
                \/ row' = [row EXCEPT ![s][i].squash = TRUE]
                \/ row' = [row EXCEPT ![s][i].cursor = call[h].upto]
            BY <4>3, <5>1 DEF Note, RecordCursor
          <6>3. CASE row' = [row EXCEPT ![s][i].squash = TRUE]
            BY <1>1, <6>1, <6>3 DEF Row
          <6>4. CASE row' = [row EXCEPT ![s][i].cursor = call[h].upto]
            BY <1>1, <6>1, <6>4 DEF Row
          <6> QED BY <6>2, <6>3, <6>4
        <5> QED BY <5>2 DEF In
      <4> QED BY <2>6, <4>1, <4>2, <4>3
    <3> QED BY <2>2, <3>2, <3>3 DEF Applying
  <2> QED BY <1>3, <2>3, <2>4, <2>5, <2>6 DEF Merge
<1> QED BY <1>2, <1>3, <1>4

LEMMA RequestsApart ==
  ASSUME MInv, OneAtATime, NEW h \in Handlers, NEW s \in Sessions, Requests(h, s)
  PROVE  (Engaged(s)' => Engaged(s)) /\ (Applying(s)' => Applying(s))
<1>1. TypeOK /\ OneLive(s) /\ row \in Rows /\ call \in Calls /\ Only(h, s)
  BY SessionStart, RequestApart DEF MInv
<1>2. PICK c \in Call : call' = [call EXCEPT ![h] = c] /\ c.s = s /\ Asked(s, c)
  BY RequestForms DEF MInv
<1>3. call'[h] = c
  BY <1>1, <1>2 DEF Calls
<1>4. CASE c.pc \in {"verify", "reset"}
  <2>1. UNCHANGED row /\ In(s, Being)
    <3>1. UNCHANGED row /\ ActiveStatus(s) \in Being
      BY <1>2, <1>4 DEF Asked, BeingMerged, Being
    <3> QED BY <1>1, <3>1, ActiveIn DEF Being, Live
  <2>2. \A g \in Handlers : call'[g].pc \in ApplyPcs => call'[g] = call[g]
    BY <1>1, <1>3, <1>4 DEF Only, ApplyPcs
  <2> QED BY <2>1, <2>2 DEF Engaged, Applying, In
<1>5. CASE c.pc \notin {"verify", "reset"}
  <2>1. call'[h].pc \notin MergeWork
    BY <1>2, <1>3, <1>5 DEF Asked, MergeWork
  <2>2. \A S \in {Being, {"needs_resolution"}} : In(s, S)' => In(s, S)
    <3> SUFFICES ASSUME NEW S \in {Being, {"needs_resolution"}}, In(s, S)' PROVE In(s, S)
      OBVIOUS
    <3>0. S \cap {"creating", "dirty", "cleanup_pending"} = {}
      BY DEF Being
    <3>1. CASE c.row \in RowIds
                 /\ row' = [row EXCEPT ![s][c.row] = [NoneRow EXCEPT !.status = "creating"]]
      <4>1. /\ row'[s][c.row].status = "creating"
            /\ \A j \in RowIds \ {c.row} : row'[s][j] = row[s][j]
        BY <1>1, <3>1 DEF Rows, NoneRow
      <4> QED BY <3>0, <4>1 DEF In
    <3>2. CASE Refresh(s)
      <4>1. \/ UNCHANGED row
            \/ \E i \in RowIds : SetStatus(s, i, "dirty")
        BY <3>2, LatestIsRow DEF Refresh
      <4> QED BY <1>1, <3>0, <4>1, NotIn
    <3>3. CASE \E i \in RowIds : SetStatus(s, i, "cleanup_pending")
      BY <1>1, <3>0, <3>3, NotIn
    <3>4. CASE UNCHANGED row
      BY <3>4 DEF In
    <3> QED BY <1>2, <3>1, <3>2, <3>3, <3>4 DEF Asked
  <2> QED BY <1>1, <2>1, <2>2, Disengaged
<1> QED BY <1>4, <1>5

LEMMA OutsideApart ==
  ASSUME XInv, MInv', Outside
  PROVE  XInv'
<1>1. TypeOK /\ row \in Rows
  BY DEF XInv, MInv, IInv, TypeOK, Rows
<1>2. UNCHANGED call
  BY <1>1, OutsideRows
<1>3. \A t \in Sessions, S \in {Being, {"needs_resolution"}} : In(t, S)' => In(t, S)
  <2>1. CASE UNCHANGED row
    BY <2>1 DEF In
  <2>2. ASSUME NEW s \in Sessions, Poll(s),
               NEW t \in Sessions, NEW S \in {Being, {"needs_resolution"}}, In(t, S)'
        PROVE  In(t, S)
    <3>1. PICK k \in RowIds :
           /\ row[s][k].status = "merged" /\ row'[s][k] = [row[s][k] EXCEPT !.status = "dirty"]
           /\ \A j \in RowIds \ {k} : row'[s][j] = row[s][j]
           /\ \A u \in Sessions \ {s} : row'[u] = row[u]
      BY <1>1, <2>2, PollApart
    <3>2. row'[s][k].status = "dirty" /\ "dirty" \notin S
      BY <1>1, <2>2, <3>1 DEF Rows, Row, Being
    <3> QED BY <2>2, <3>1, <3>2 DEF In
  <2> QED BY <1>1, <2>1, <2>2, OutsideRows
<1>4. \A t \in Sessions : (Engaged(t)' => Engaged(t)) /\ (Applying(t)' => Applying(t))
  BY <1>2, <1>3 DEF Engaged, Applying
<1>5. \A u \in Sessions : Applying(u) => \A t \in Sessions \ {u} : Clear(t) => Clear(t)'
  <2>1. ASSUME NEW s \in Sessions, NEW t \in Sessions, Resolve(s, t), NEW u \in Sessions,
               Clear(u)
        PROVE  Clear(u)'
    BY <1>1, <2>1 DEF Resolve, Clear, TypeOK
  <2>2. CASE UNCHANGED <<staged, unmerged>>
    BY <2>2 DEF Clear
  <2> QED BY <2>1, <2>2 DEF Outside, Poll, AgentCommits, UserEdits, UserStages, NoGit, vars, base
<1>6. Exclusive'
  BY <1>4 DEF XInv, Exclusive
<1>7. Apart'
  BY <1>4, <1>5 DEF XInv, Apart
<1> QED BY <1>6, <1>7 DEF XInv

LEMMA ExclusiveKept ==
  ASSUME OneAtATime, "overlap" \notin Events, XInv, [Next]_vars
  PROVE  XInv'
<1>1. MInv /\ MInv' /\ TypeOK
  BY MergeKept DEF XInv, MInv, IInv
<1>2. ASSUME NEW h \in Handlers, Step(h) PROVE XInv'
  <2>1. PICK s \in Sessions : s = call[h].s /\ Only(h, s)
    BY <1>1, <1>2, StepApart DEF MInv
  <2>2. /\ Engaged(s)' => Engaged(s) \/ \A t \in Sessions \ {s} : ~Engaged(t)
        /\ Applying(s)' => Applying(s) \/ \A t \in Sessions \ {s} : Clear(t)'
    BY <1>1, <1>2, <2>1, AshoreApart, MergeApart DEF Step
  <2>3. \A t \in Sessions : t # s \/ call[h].pc # "apply" => (Clear(t) => Clear(t)')
    BY <1>1, <1>2, <2>1, ClearKept
  <2> QED BY <1>1, <2>1, <2>2, <2>3, ExclusiveLocally
<1>3. ASSUME NEW h \in Handlers, Abandon(h) PROVE XInv'
  <2>1. PICK s \in Sessions : s = call[h].s /\ Only(h, s)
    BY <1>1, <1>3, StepApart DEF MInv
  <2>2. UNCHANGED <<row, staged, unmerged>> /\ Done(h)
    BY <1>3 DEF Abandon, base
  <2>3. call'[h].pc \notin MergeWork
    BY <1>1, <2>2, PcOf DEF MergeWork
  <2>4. (Engaged(s)' => Engaged(s)) /\ (Applying(s)' => Applying(s))
    <3>1. \A S : In(s, S)' => In(s, S)
      BY <2>2 DEF In
    <3> QED BY <2>1, <2>3, <3>1, Disengaged
  <2>5. \A t \in Sessions : Clear(t) => Clear(t)'
    BY <2>2 DEF Clear
  <2> QED BY <1>1, <2>1, <2>4, <2>5, ExclusiveLocally
<1>4. ASSUME NEW h \in Handlers, NEW s \in Sessions, Requests(h, s) PROVE XInv'
  <2>1. Only(h, s) /\ UNCHANGED <<staged, unmerged>>
    BY <1>1, <1>4, RequestApart DEF MInv, base
  <2>2. (Engaged(s)' => Engaged(s)) /\ (Applying(s)' => Applying(s))
    BY <1>1, <1>4, RequestsApart
  <2>3. \A t \in Sessions : Clear(t) => Clear(t)'
    BY <2>1 DEF Clear
  <2> QED BY <1>1, <2>1, <2>2, <2>3, ExclusiveLocally
<1>5. CASE Outside
  BY <1>1, <1>5, OutsideApart
<1> QED BY <1>2, <1>3, <1>4, <1>5 DEF Next, Outside

LEMMA InitExclusive ==
  ASSUME Init
  PROVE  XInv
<1>1. MInv /\ \A h \in Handlers : call[h].pc = "free"
  BY InitMerge DEF Init, Free
<1>2. ASSUME NEW s \in Sessions PROVE ~Engaged(s) /\ ~Applying(s)
  <2>1. \A S : In(s, S) => "none" \in S
    BY DEF Init, In, NoneRow
  <2> QED BY <1>1, <2>1 DEF Engaged, Applying, MergeWork, ApplyPcs, Being
<1> QED BY <1>1, <1>2 DEF XInv, Exclusive, Apart

\* A commit of the base workspace takes what is staged of its own session, and
\* of no other, where no two merges pass their checks together
\* (session_worktree.rs, perform_merge).
THEOREM CommitsAreOwn ==
  OneAtATime /\ "overlap" \notin Events => (Spec => CommitIsOwn)
<1> SUFFICES ASSUME OneAtATime, "overlap" \notin Events
             PROVE  Spec => CommitIsOwn
  OBVIOUS
<1> DEFINE A == \A h \in Handlers : Commit(h) =>
                  \A s \in Sessions : head'[s] # head[s] => s = call[h].s
<1>1. Init => XInv
  BY InitExclusive
<1>2. XInv /\ [Next]_vars => XInv'
  BY ExclusiveKept
<1>3. XInv => [A]_vars
  <2>1. ASSUME XInv, NEW h \in Handlers, Commit(h), NEW s \in Sessions,
               head'[s] # head[s]
        PROVE  s = call[h].s
    <3>1. TypeOK /\ call[h].s \in Sessions
      BY <2>1 DEF XInv, MInv, IInv, TypeOK, Call
    <3>2. Applying(call[h].s)
      BY <2>1 DEF Commit, At, Applying, ApplyPcs
    <3>3. head' = And(head, staged)
      BY <2>1 DEF Commit, CommitIndex, ResetMerge, base
    <3>4. staged[s] # {}
      BY <2>1, <3>1, <3>3 DEF And, TypeOK
    <3> QED BY <2>1, <3>1, <3>2, <3>4 DEF XInv, Apart, Clear
  <2> QED BY <2>1
<1> QED BY <1>1, <1>2, <1>3, PTL DEF Spec, CommitIsOwn

-------------------------------------------------------------------------------
(* The cursor.  From the row's cursor to the tip, every commit of a session  *)
(* that is being merged is in the base branch or on its way there: in the    *)
(* patch, in the index or among the unmerged paths (Caught, for the request  *)
(* at work; Accounted, for the conflict that waits).  An "overlap" would     *)
(* take them out of the index, a "busy" agent would add one behind the       *)
(* patch, a "halfabort" drops them and leaves the row.                       *)

UpTo(n) == {m \in Commits : 0 < m /\ m <= n}

Covered(s) ==
  \A i \in RowIds : row[s][i].status \in ForWorkspace => UpTo(row[s][i].cursor) \subseteq head[s]

Caught(h) ==
  LET s == call[h].s  pc == call[h].pc IN
  /\ pc \in {"diff", "unstage", "apply"} => UpTo(call[h].upto) \subseteq head[s]
  /\ pc \in {"unstage", "apply"} => UpTo(tip[s]) \subseteq head[s] \cup call[h].patch
  /\ pc = "list" /\ unmerged[s] # {}
       => UpTo(tip[s]) \subseteq head[s] \cup staged[s] \cup unmerged[s]
  /\ pc \in {"look", "commit"} => UpTo(tip[s]) \subseteq head[s] \cup staged[s]
  /\ pc = "conflicted" => UpTo(tip[s]) \subseteq head[s] \cup staged[s] \cup unmerged[s]
  /\ pc = "tip" => UpTo(tip[s]) \subseteq head[s]
  /\ (pc = "mark" /\ call[h].squash) \/ pc = "cursor" => UpTo(call[h].upto) \subseteq head[s]

Gathered(s) == UpTo(tip[s]) \subseteq head[s] \cup staged[s] \cup unmerged[s]
Accounted(s) ==
  In(s, {"needs_resolution"}) =>
    \/ \E h \in Handlers : call[h].s = s /\ call[h].pc = "undo"
    \/ Gathered(s)

SInv ==
  /\ XInv
  /\ \A h \in Handlers : Caught(h)
  /\ \A s \in Sessions : Covered(s) /\ Accounted(s)

LEMMA SkipStart ==
  ASSUME SInv, NEW h \in Handlers
  PROVE  /\ MInv /\ TypeOK /\ call[h] \in Call /\ call \in Calls /\ call[h].s \in Sessions
         /\ OneLive(call[h].s) /\ OfHandler(h) /\ Fresh(call[h].s)
         /\ Placed(h) /\ Smooth(h) /\ Caught(h) /\ Covered(call[h].s) /\ Accounted(call[h].s)
         /\ row \in Rows /\ row \in [Sessions -> [RowIds -> Row]]
         /\ head \in [Sessions -> SUBSET Commits] /\ staged \in [Sessions -> SUBSET Commits]
         /\ unmerged \in [Sessions -> SUBSET Commits]
         /\ tip \in [Sessions -> NoBranch..MaxCommits]
BY MergeStart DEF SInv, XInv, TypeOK, Rows, Calls

LEMMA NotBoth ==
  ASSUME NEW s \in Sessions, OneLive(s), In(s, {"merging"})
  PROVE  ~In(s, {"needs_resolution"})
BY DEF In, OneLive, Live

LEMMA CoveredSet ==
  ASSUME row \in Rows, NEW s \in Sessions, Covered(s), head[s] \subseteq head'[s],
         \/ UNCHANGED row
         \/ \E i \in RowIds : \E to :
              /\ to \in ForWorkspace => row[s][i].status \in ForWorkspace
              /\ SetStatus(s, i, to) \/ MoveClearing(s, i, to)
  PROVE  Covered(s)'
<1>1. CASE UNCHANGED row
  BY <1>1 DEF Covered
<1>2. ASSUME NEW i \in RowIds, NEW to, to \in ForWorkspace => row[s][i].status \in ForWorkspace,
             SetStatus(s, i, to) \/ MoveClearing(s, i, to)
      PROVE  Covered(s)'
  <2>1. row \in [Sessions -> [RowIds -> Row]] /\ row[s][i] \in Row
    BY DEF Rows
  <2>2. \A j \in RowIds \ {i} : row'[s][j] = row[s][j]
    BY <1>2, <2>1 DEF SetStatus, MoveClearing
  <2>3. row'[s][i].status = to /\ row'[s][i].cursor = row[s][i].cursor
    <3>1. CASE SetStatus(s, i, to)
      BY <2>1, <3>1 DEF SetStatus, Row
    <3>2. CASE MoveClearing(s, i, to)
      <4>1. row'[s] = [row[s] EXCEPT ![i] = [row[s][i] EXCEPT !.status = to, !.squash = FALSE]]
        BY <2>1, <3>2 DEF MoveClearing
      <4> QED BY <2>1, <4>1 DEF Row
    <3> QED BY <1>2, <3>1, <3>2
  <2>4. ASSUME NEW j \in RowIds, row'[s][j].status \in ForWorkspace
        PROVE  UpTo(row'[s][j].cursor) \subseteq head'[s]
    <3>1. row[s][j].status \in ForWorkspace /\ row'[s][j].cursor = row[s][j].cursor
      BY <1>2, <2>2, <2>3, <2>4
    <3> QED BY <3>1 DEF Covered
  <2> QED BY <2>4 DEF Covered, UpTo
<1> QED BY <1>1, <1>2

\* A step that leaves what is gathered leaves it accounted for.
LEMMA AccountedStays ==
  ASSUME NEW h \in Handlers, NEW s \in Sessions, Only(h, s), Accounted(s),
         call[h].pc # "undo", In(s, {"needs_resolution"})' => In(s, {"needs_resolution"}),
         Gathered(s) => Gathered(s)'
  PROVE  Accounted(s)'
BY DEF Accounted, Only, At

LEMMA SkipLocally ==
  ASSUME SInv, XInv', NEW h \in Handlers, NEW s \in Sessions, Only(h, s),
         Caught(h)', Covered(s)', Accounted(s)',
         \A t \in Sessions \ {s} :
           /\ head[t] \subseteq head'[t]
           /\ Engaged(t) => staged'[t] = staged[t] /\ unmerged'[t] = unmerged[t]
  PROVE  SInv'
<1>1. ASSUME NEW t \in Sessions \ {s} PROVE Covered(t)' /\ Accounted(t)'
  <2>1. /\ Covered(t) /\ Accounted(t) /\ row'[t] = row[t] /\ tip'[t] = tip[t]
        /\ head[t] \subseteq head'[t]
    BY DEF SInv, Only
  <2>2. Covered(t)'
    BY <2>1 DEF Covered, UpTo
  <2>3. CASE In(t, {"needs_resolution"})
    <3>1. staged'[t] = staged[t] /\ unmerged'[t] = unmerged[t]
      BY <2>3 DEF Engaged, In, Being
    <3>2. Gathered(t) => Gathered(t)'
      BY <2>1, <3>1 DEF Gathered, UpTo
    <3>3. \A g \in Handlers : call[g].s = t /\ call[g].pc = "undo" => call'[g] = call[g]
      BY DEF Only, At
    <3> QED BY <2>1, <2>2, <2>3, <3>2, <3>3 DEF Accounted
  <2>4. CASE ~In(t, {"needs_resolution"})
    BY <2>1, <2>2, <2>4 DEF Accounted, In
  <2> QED BY <2>3, <2>4
<1>2. ASSUME NEW g \in Handlers, g # h PROVE Caught(g)'
  <2>1. Caught(g) /\ call'[g] = call[g] /\ call[g].s \in Sessions
    BY <1>2 DEF SInv, XInv, MInv, IInv, TypeOK, Call, Only
  <2>2. CASE call[g].pc \notin MergeWork
    BY <2>1, <2>2 DEF Caught, MergeWork
  <2>3. CASE call[g].pc \in MergeWork
    <3>1. call[g].s # s
      BY <1>2, <2>3 DEF Only, At, MergeWork
    <3>2. PICK t \in Sessions : t = call[g].s /\ t # s
      BY <2>1, <3>1
    <3>3. Engaged(t)
      BY <2>3, <3>2 DEF Engaged
    <3>4. /\ head[t] \subseteq head'[t] /\ staged'[t] = staged[t] /\ unmerged'[t] = unmerged[t]
          /\ tip'[t] = tip[t]
      BY <3>2, <3>3 DEF Only
    <3> QED BY <2>1, <3>2, <3>4 DEF Caught, UpTo
  <2> QED BY <2>2, <2>3
<1> QED BY <1>1, <1>2 DEF SInv

\* What a step does to the part of the other sessions in the base workspace
LEMMA BaseApart ==
  ASSUME XInv, NEW h \in Handlers, NEW s, s = call[h].s, Step(h)
  PROVE  \A t \in Sessions \ {s} :
           /\ head[t] \subseteq head'[t]
           /\ Engaged(t) => staged'[t] = staged[t] /\ unmerged'[t] = unmerged[t]
<1>1. /\ s \in Sessions /\ head \in [Sessions -> SUBSET Commits]
      /\ staged \in [Sessions -> SUBSET Commits] /\ unmerged \in [Sessions -> SUBSET Commits]
  BY MergeStart DEF XInv, TypeOK
<1>2. CASE Make(h) \/ Clean(h) \/ CheckBase(h) \/ GitFails(h)
  <2>1. CASE MakeBranch(h)
    BY <1>1, <2>1 DEF MakeBranch, base
  <2>2. UNCHANGED base \/ MakeBranch(h)
    BY <1>2 DEF Make, AddWorktree, Activate, Unmake, StartRun, CheckBase, GitFails, Clean,
                RemoveWorktree, Fail, Unbranch, Archive, Wipe, WipeFails, WipeBranch,
                Cascade, NoGit, base
  <2> QED BY <2>1, <2>2 DEF base
<1>3. CASE Merge(h) /\ ~CheckBase(h) /\ ~GitFails(h)
  <2>1. call[h].pc \in MergeWork
    BY <1>3 DEF Merge, Claim, Note, Diff, Unstage, ApplyClean, ApplyConflicts,
                ApplyRefused, ListUnmerged, Look, Commit, Retreat, ReadTip, MarkMerged, RecordCursor,
                MarkConflicted, Undo, Verify, ResetBase, At, MergeWork
  <2>2. \A t \in Sessions \ {s} : ~Engaged(t)
    BY <1>1, <2>1 DEF XInv, Exclusive, Engaged
  <2>3. head' = head \/ head' = And(head, staged)
    BY <1>3 DEF Merge, Claim, Note, Diff, Unstage, UnstageDirty, ApplyClean,
                ApplyConflicts, ApplyRefused, ListUnmerged, Look, Commit, CommitIndex,
                Retreat, ReadTip, MarkMerged, RecordCursor, MarkConflicted, Undo, Verify, ResetBase,
                ResetMerge, ResetHard, NoGit, base
  <2> QED BY <1>1, <2>2, <2>3 DEF And
<1> QED BY <1>2, <1>3 DEF Step

CaughtPcs == {"diff", "unstage", "apply", "list", "look", "commit", "conflicted", "tip",
              "mark", "cursor"}

LEMMA NotCaught ==
  ASSUME NEW h \in Handlers, call'[h].pc \notin CaughtPcs
  PROVE  Caught(h)'
BY DEF Caught, CaughtPcs

LEMMA MakeSkips ==
  ASSUME SInv, NEW h \in Handlers, NEW s, s = call[h].s, Only(h, s), Make(h)
  PROVE  Caught(h)' /\ Covered(s)' /\ Accounted(s)'
<1>1. /\ TypeOK /\ s \in Sessions /\ OneLive(s) /\ OfHandler(h) /\ Fresh(s) /\ Placed(h)
      /\ Covered(s) /\ Accounted(s) /\ row \in Rows /\ head \in [Sessions -> SUBSET Commits]
      /\ call[h] \in Call /\ call \in [Handlers -> Call]
  BY SkipStart DEF Calls
<1>2. Caught(h)'
  <2>1. CASE Activate(h)
    <3>1. Done(h) \/ call'[h].pc = "start"
      BY <1>1, <2>1 DEF Activate, Call
    <3> QED BY <1>1, <3>1, PcOf, NotCaught DEF CaughtPcs
  <2>2. CASE ~Activate(h)
    <3>1. Goto(h, "unmake") \/ Goto(h, "add") \/ Goto(h, "activate") \/ Done(h)
      BY <2>2 DEF Make, MakeBranch, AddWorktree, Unmake, StartRun
    <3> QED BY <1>1, <3>1, PcOf, NotCaught DEF CaughtPcs
  <2> QED BY <2>1, <2>2
<1>3. call[h].pc \in MakePcs \cup {"start"} /\ call[h].pc # "undo"
  BY DEF Make, MakeBranch, AddWorktree, Activate, Unmake, StartRun, At, MakePcs
<1>4. CASE MakeBranch(h)
  <2>1. UNCHANGED row /\ call[h].pc = "branch" /\ \A t \in Sessions : t = s => head'[t] \in {{}, head[t]}
    BY <1>1, <1>4 DEF MakeBranch, At, base
  <2>2. PICK i \in RowIds : i = call[h].row /\ row[s][i].status = "creating"
    BY <1>1, <2>1 DEF Placed, OfHandler, Named, RowPcs, MakePcs
  <2>3. \A j \in RowIds : row[s][j].status \in Live => j = i
    BY <1>1, <2>2 DEF OneLive, Live
  <2>4. ~In(s, {"needs_resolution"})
    BY <2>2, <2>3 DEF In, Live
  <2>5. row[s][i].cursor = 0 /\ UpTo(0) = {}
    BY <1>1, <2>2 DEF Fresh, UpTo, Commits
  <2>6. Covered(s)'
    BY <2>1, <2>3, <2>5 DEF Covered, ForWorkspace, Live, UpTo
  <2>7. Accounted(s)'
    BY <2>1, <2>4 DEF Accounted, In
  <2> QED BY <1>2, <2>6, <2>7
<1>5. CASE ~MakeBranch(h)
  <2>1. UNCHANGED <<tip, base>>
    BY <1>5 DEF Make, AddWorktree, Activate, Unmake, StartRun, NoGit
  <2>2. PICK i : i = call[h].row
    OBVIOUS
  <2>3. /\ call[h].pc \in MakePcs => i \in RowIds
        /\ \/ UNCHANGED row
           \/ /\ call[h].pc \in MakePcs /\ row[s][i].status = "creating"
              /\ \E to \in {"active", "cleanup_failed"} : SetStatus(s, i, to)
    BY <1>1, <1>5, <2>2
       DEF Make, AddWorktree, Activate, Unmake, StartRun, OfHandler, Named, RowPcs, At, MakePcs
  <2>4. Covered(s)'
    BY <1>1, <2>1, <2>3, CoveredSet DEF base, ForWorkspace
  <2>5. In(s, {"needs_resolution"})' => In(s, {"needs_resolution"})
    BY <1>1, <2>3, NotIn
  <2>6. Gathered(s) => Gathered(s)'
    BY <2>1 DEF Gathered, UpTo, base
  <2>7. Accounted(s)'
    BY <1>1, <1>3, <2>5, <2>6, AccountedStays
  <2> QED BY <1>2, <2>4, <2>7
<1> QED BY <1>4, <1>5

LEMMA CleanSkips ==
  ASSUME SInv, NEW h \in Handlers, NEW s, s = call[h].s, Only(h, s), Clean(h)
  PROVE  Caught(h)' /\ Covered(s)' /\ Accounted(s)'
<1>1. /\ TypeOK /\ s \in Sessions /\ OfHandler(h) /\ Covered(s) /\ Accounted(s)
      /\ row \in Rows /\ tip \in [Sessions -> NoBranch..MaxCommits]
      /\ head \in [Sessions -> SUBSET Commits]
  BY SkipStart
<1>2. Caught(h)'
  <2>1. \/ Goto(h, "unbranch") \/ Goto(h, "fail") \/ Goto(h, "archive")
        \/ Goto(h, "wipebranch") \/ Goto(h, "cascade") \/ Done(h)
    BY DEF Clean, RemoveWorktree, Fail, Unbranch, DeleteBranch, Archive, Wipe,
           WipeFails, WipeBranch, Cascade
  <2> QED BY <1>1, <2>1, PcOf, NotCaught DEF CaughtPcs
<1>3. UNCHANGED base /\ call[h].pc # "undo"
  BY DEF Clean, RemoveWorktree, Fail, Unbranch, Archive, Wipe, WipeFails, WipeBranch,
         Cascade, NoGit, base, At
<1>4. \A t \in Sessions : t = s => tip'[t] \in {tip[t], NoBranch}
  <2>1. CASE UNCHANGED tip
    BY <2>1
  <2>2. CASE Unbranch(h) \/ WipeBranch(h)
    BY <1>1, <2>2 DEF Unbranch, WipeBranch, DeleteBranch
  <2> QED BY <2>1, <2>2
          DEF Clean, RemoveWorktree, Fail, Archive, Wipe, WipeFails, Cascade, NoGit
<1>5. Gathered(s) => Gathered(s)'
  <2>1. UpTo(NoBranch) = {}
    BY DEF UpTo, NoBranch, Commits
  <2>2. tip'[s] \in {tip[s], NoBranch}
    BY <1>1, <1>4
  <2> QED BY <1>3, <2>1, <2>2 DEF Gathered, UpTo, base
<1>6. CASE Cascade(h)
  <2>1. \A j \in RowIds : row'[s][j].status = "none"
    BY <1>1, <1>6 DEF Cascade, Rows, NoneRow
  <2>2. Covered(s)'
    BY <2>1 DEF Covered, ForWorkspace
  <2>3. Accounted(s)'
    BY <2>1 DEF Accounted, In
  <2> QED BY <1>2, <2>2, <2>3
<1>7. CASE ~Cascade(h)
  <2>1. PICK i : i = call[h].row
    OBVIOUS
  <2>2. \/ UNCHANGED row
        \/ /\ i \in RowIds
           /\ \E to \in {"cleanup_failed", "archived"} : MoveClearing(s, i, to)
    BY <1>1, <1>7, <2>1
       DEF Clean, RemoveWorktree, Fail, Unbranch, Archive, Wipe, WipeFails, WipeBranch,
           OfHandler, Named, RowPcs, At
  <2>3. Covered(s)'
    BY <1>1, <1>3, <2>2, CoveredSet DEF base, ForWorkspace
  <2>4. In(s, {"needs_resolution"})' => In(s, {"needs_resolution"})
    BY <1>1, <2>2, NotIn
  <2>5. Accounted(s)'
    BY <1>1, <1>3, <1>5, <2>4, AccountedStays
  <2> QED BY <1>2, <2>3, <2>5
<1> QED BY <1>6, <1>7

\* Where an operation reads the cursor and makes the patch
LEMMA PatchSkips ==
  ASSUME SInv, NEW h \in Handlers, NEW s, s = call[h].s, Only(h, s),
         CheckBase(h) \/ Claim(h) \/ Note(h) \/ Diff(h) \/ Unstage(h)
  PROVE  Caught(h)' /\ Covered(s)' /\ Accounted(s)'
<1>1. /\ TypeOK /\ s \in Sessions /\ OneLive(s) /\ OfHandler(h) /\ Placed(h) /\ Caught(h)
      /\ Covered(s) /\ Accounted(s) /\ row \in Rows /\ head \in [Sessions -> SUBSET Commits]
      /\ call[h] \in Call /\ call \in [Handlers -> Call]
      /\ row \in [Sessions -> [RowIds -> Row]] /\ tip \in [Sessions -> NoBranch..MaxCommits]
  BY SkipStart DEF Calls
<1>2. call[h].pc # "undo"
  BY DEF CheckBase, Claim, Note, Diff, Unstage, At
<1>3. CASE CheckBase(h) \/ Claim(h)
  <2>1. UNCHANGED <<tip, base>>
    BY <1>3 DEF CheckBase, Claim, NoGit
  <2>2. Caught(h)'
    <3>1. Done(h) \/ call'[h].pc \in {"claim", "note"}
      BY <1>1, <1>3, PcOf DEF CheckBase, Claim, Call
    <3> QED BY <1>1, <3>1, PcOf, NotCaught DEF CaughtPcs
  <2>3. \/ UNCHANGED row
        \/ /\ ActiveRow(s) \in RowIds /\ row[s][ActiveRow(s)].status \in ForWorkspace
           /\ SetStatus(s, ActiveRow(s), "merging")
    <3>1. CASE CanMove(s, "merging") /\ Move(s, "merging")
      <4>1. /\ ActiveRow(s) \in RowIds /\ Allowed(row[s][ActiveRow(s)].status, "merging")
            /\ ActiveStatus(s) = row[s][ActiveRow(s)].status
            /\ row[s][ActiveRow(s)].status \in Live
        BY <1>1, <3>1, ActiveIsLive DEF CanMove
      <4>2. row[s][ActiveRow(s)].status \in ForWorkspace
        BY <4>1 DEF Allowed, Edges, Live, ForWorkspace
      <4> QED BY <3>1, <4>1, <4>2 DEF Move
    <3> QED BY <1>3, <3>1 DEF CheckBase, Claim
  <2>4. Covered(s)'
    BY <1>1, <2>1, <2>3, CoveredSet DEF base
  <2>5. In(s, {"needs_resolution"})' => In(s, {"needs_resolution"})
    BY <1>1, <2>3, NotIn
  <2>6. Gathered(s) => Gathered(s)'
    BY <2>1 DEF Gathered, UpTo, base
  <2> QED BY <1>1, <1>2, <2>2, <2>4, <2>5, <2>6, AccountedStays
<1>4. CASE Note(h)
  <2>1. PICK i \in RowIds : i = call[h].row /\ row[s][i].status = "merging"
    BY <1>1, <1>4 DEF Note, At, Placed, OfHandler, Named, RowPcs
  <2>2. /\ row' = [row EXCEPT ![s][i].squash = TRUE]
        /\ call' = [call EXCEPT ![h].pc = "diff", ![h].squash = TRUE,
                                ![h].upto = row[s][i].cursor]
        /\ UNCHANGED <<tip, base>>
    BY <1>4, <2>1 DEF Note, NoGit
  <2>3. \A j \in RowIds : row'[s][j].status = row[s][j].status /\ row'[s][j].cursor = row[s][j].cursor
    <3>1. row[s][i] \in Row
      BY <1>1
    <3> QED BY <1>1, <2>2, <3>1 DEF Row
  <2>4. Covered(s)'
    BY <1>1, <2>2, <2>3 DEF Covered, UpTo, base
  <2>5. UpTo(row[s][i].cursor) \subseteq head[s]
    BY <1>1, <2>1 DEF Covered, ForWorkspace
  <2>6. call'[h].pc = "diff" /\ call'[h].upto = row[s][i].cursor /\ call'[h].s = s
    BY <1>1, <2>2 DEF Call
  <2>7. Caught(h)'
    BY <2>2, <2>5, <2>6 DEF Caught, UpTo, base
  <2>8. In(s, {"needs_resolution"})' => In(s, {"needs_resolution"})
    BY <2>3 DEF In
  <2>9. Gathered(s) => Gathered(s)'
    BY <2>2 DEF Gathered, UpTo, base
  <2> QED BY <1>1, <1>2, <2>4, <2>7, <2>8, <2>9, AccountedStays
<1>5. CASE Diff(h)
  <2>1. UNCHANGED <<row, tip, base>> /\ call[h].pc = "diff"
    BY <1>5 DEF Diff, NoGit, At
  <2>2. PICK patch : patch = {n \in Commits : call[h].upto < n /\ n <= tip[s]}
    OBVIOUS
  <2>3. /\ call'[h].patch = patch /\ call'[h].upto = call[h].upto /\ call'[h].s = s
        /\ call'[h].pc = IF tip[s] = NoBranch THEN "undo"
                         ELSE IF patch = {} THEN "tip" ELSE "unstage"
    BY <1>1, <1>5, <2>2 DEF Diff, Call
  <2>4. UpTo(call[h].upto) \subseteq head[s]
    BY <1>1, <2>1 DEF Caught
  <2>5. UpTo(tip[s]) \subseteq head[s] \cup patch
    <3>1. tip[s] \in Int /\ call[h].upto \in Int /\ Commits \subseteq Int
      BY <1>1, WorktreeAssumption DEF NoBranch, Call, Commits
    <3>2. ASSUME NEW n \in UpTo(tip[s]), n \notin patch PROVE n \in UpTo(call[h].upto)
      <4>1. n \in Commits /\ n \in Int /\ 0 < n /\ n <= tip[s]
        BY <3>1, <3>2 DEF UpTo
      <4>2. ~(call[h].upto < n)
        BY <2>2, <3>2, <4>1
      <4> QED BY <3>1, <4>1, <4>2 DEF UpTo
    <3> QED BY <2>4, <3>2
  <2>6. Caught(h)'
    BY <2>1, <2>3, <2>4, <2>5 DEF Caught, UpTo, base
  <2>7. Covered(s)'
    BY <1>1, <2>1, CoveredSet DEF base
  <2>8. In(s, {"needs_resolution"})' => In(s, {"needs_resolution"})
    BY <2>1 DEF In
  <2>9. Gathered(s) => Gathered(s)'
    BY <2>1 DEF Gathered, UpTo, base
  <2> QED BY <1>1, <1>2, <2>6, <2>7, <2>8, <2>9, AccountedStays
<1>6. CASE Unstage(h)
  <2>1. UNCHANGED <<row, tip, head>> /\ call[h].pc = "unstage" /\ Goto(h, "apply")
    BY <1>6 DEF Unstage, UnstageDirty, At
  <2>2. call'[h] = [call[h] EXCEPT !.pc = "apply"]
    BY <1>1, <2>1 DEF Goto
  <2>3. /\ call'[h].pc = "apply" /\ call'[h].s = s /\ call'[h].upto = call[h].upto
        /\ call'[h].patch = call[h].patch
    BY <1>1, <2>2 DEF Call
  <2>4. Caught(h)'
    BY <1>1, <2>1, <2>3 DEF Caught, UpTo
  <2>5. Covered(s)'
    BY <1>1, <2>1, CoveredSet
  <2>6. ~In(s, {"needs_resolution"})
    BY <1>1, <2>1, OpOf, NotBoth DEF Placed
  <2>7. Accounted(s)'
    BY <2>1, <2>6 DEF Accounted, In
  <2> QED BY <2>4, <2>5, <2>7
<1> QED BY <1>3, <1>4, <1>5, <1>6

\* Where the patch goes into the index and the index into the base branch
LEMMA ApplySkips ==
  ASSUME SInv, NEW h \in Handlers, NEW s, s = call[h].s, Only(h, s),
         \/ ApplyClean(h) \/ ApplyConflicts(h) \/ ApplyRefused(h) \/ ListUnmerged(h)
         \/ Retreat(h) \/ Look(h) \/ Commit(h)
  PROVE  Caught(h)' /\ Covered(s)' /\ Accounted(s)'
<1>1. /\ TypeOK /\ s \in Sessions /\ OneLive(s) /\ Placed(h) /\ Smooth(h) /\ Caught(h)
      /\ Covered(s) /\ Accounted(s) /\ row \in Rows /\ head \in [Sessions -> SUBSET Commits]
      /\ staged \in [Sessions -> SUBSET Commits] /\ unmerged \in [Sessions -> SUBSET Commits]
      /\ call[h] \in Call /\ call \in [Handlers -> Call]
  BY SkipStart DEF Calls
<1>2. UNCHANGED <<row, tip>> /\ call[h].pc # "undo"
  BY DEF ApplyClean, ApplyConflicts, ApplyRefused, ListUnmerged, Retreat, Look, Commit,
         NoGit, At
<1>3. In(s, {"needs_resolution"})' => In(s, {"needs_resolution"})
  BY <1>2 DEF In
<1>4. call[h].pc \in {"apply", "list", "retreat"} => ~In(s, {"needs_resolution"})
  BY <1>1, OpOf, NotBoth DEF Placed
<1>5. ASSUME head[s] \subseteq head'[s] PROVE Covered(s)'
  BY <1>1, <1>2, <1>5, CoveredSet
<1>6. CASE ApplyClean(h)
  <2>1. /\ Goto(h, "look") /\ call[h].pc = "apply" /\ head' = head
        /\ staged'[s] = staged[s] \cup (call[h].patch \ head[s])
    BY <1>1, <1>6 DEF ApplyClean, At
  <2>2. call'[h].pc = "look" /\ call'[h].s = s
    BY <1>1, <2>1 DEF Goto, Call
  <2>3. UpTo(tip[s]) \subseteq head[s] \cup staged'[s]
    BY <1>1, <2>1 DEF Caught
  <2>4. Caught(h)'
    BY <1>2, <2>1, <2>2, <2>3 DEF Caught, UpTo
  <2> QED BY <1>3, <1>4, <1>5, <2>1, <2>4 DEF Accounted
<1>7. CASE ApplyConflicts(h)
  <2>1. /\ Goto(h, "list") /\ call[h].pc = "apply" /\ UNCHANGED <<head, staged>>
        /\ unmerged'[s] = unmerged[s] \cup (call[h].patch \ head[s])
    BY <1>1, <1>7 DEF ApplyConflicts, At
  <2>2. call'[h].pc = "list" /\ call'[h].s = s
    BY <1>1, <2>1 DEF Goto, Call
  <2>3. UpTo(tip[s]) \subseteq head[s] \cup unmerged'[s]
    BY <1>1, <2>1 DEF Caught
  <2>4. Caught(h)'
    BY <1>2, <2>1, <2>2, <2>3 DEF Caught, UpTo
  <2> QED BY <1>3, <1>4, <1>5, <2>1, <2>4 DEF Accounted
<1>8. CASE ApplyRefused(h)
  <2>1. call[h].pc = "apply"
    BY <1>8 DEF ApplyRefused, At
  <2>2. unmerged[s] = {}
    BY <1>1, <2>1 DEF Smooth, Onward
  <2>3. Goto(h, "list") /\ UNCHANGED base
    BY <1>8 DEF ApplyRefused, NoGit
  <2>4. call'[h].pc = "list" /\ call'[h].s = s
    BY <1>1, <2>3 DEF Goto, Call
  <2>5. Caught(h)'
    BY <2>2, <2>3, <2>4 DEF Caught, base
  <2> QED BY <1>3, <1>4, <1>5, <2>1, <2>3, <2>5 DEF Accounted, base
<1>9. CASE Look(h)
  <2>1. /\ UNCHANGED base /\ call[h].pc = "look"
        /\ Goto(h, "commit") \/ (Goto(h, "tip") /\ staged = None)
    BY <1>9 DEF Look, NoGit, At, IsStaged
  <2>2. call'[h].s = s
    BY <1>1, <2>1 DEF Goto, Call
  <2>3. UpTo(tip[s]) \subseteq head[s] \cup staged[s] /\ None[s] = {}
    BY <1>1, <2>1 DEF Caught, None
  <2>4. Caught(h)'
    <3>1. CASE Goto(h, "commit")
      <4>1. call'[h].pc = "commit"
        BY <1>1, <3>1, PcOf
      <4> QED BY <1>2, <2>1, <2>2, <2>3, <4>1 DEF Caught, UpTo, base
    <3>2. CASE Goto(h, "tip") /\ staged = None
      <4>1. call'[h].pc = "tip"
        BY <1>1, <3>2, PcOf
      <4> QED BY <1>2, <2>1, <2>2, <2>3, <3>2, <4>1 DEF Caught, UpTo, base
    <3> QED BY <2>1, <3>1, <3>2
  <2>5. Gathered(s) => Gathered(s)'
    BY <1>2, <2>1 DEF Gathered, UpTo, base
  <2>6. Accounted(s)'
    BY <1>1, <1>2, <1>3, <2>5, AccountedStays
  <2> QED BY <1>5, <2>1, <2>4, <2>6 DEF base
<1>10. CASE Commit(h)
  <2>1. call[h].pc = "commit" /\ UpTo(tip[s]) \subseteq head[s] \cup staged[s]
    BY <1>1, <1>10 DEF Commit, At, Caught
  <2>2. CASE CommitIndex /\ Goto(h, "tip")
    <3>1. head'[s] = head[s] \cup staged[s] /\ unmerged' = unmerged
      BY <1>1, <2>2 DEF CommitIndex, And
    <3>2. call'[h].pc = "tip" /\ call'[h].s = s
      BY <1>1, <2>2 DEF Goto, Call
    <3>3. Caught(h)'
      BY <1>2, <2>1, <3>1, <3>2 DEF Caught, UpTo
    <3>4. Gathered(s)'
      BY <1>2, <2>1, <3>1 DEF Gathered, UpTo
    <3> QED BY <1>5, <3>1, <3>3, <3>4 DEF Accounted
  <2>3. CASE call[h].op = "merge" /\ UNCHANGED base /\ Goto(h, "retreat")
    <3>1. Caught(h)'
      BY <1>1, <2>3, PcOf, NotCaught DEF CaughtPcs
    <3>2. ~In(s, {"needs_resolution"})
      BY <1>1, <2>1, <2>3, NotBoth DEF Placed
    <3> QED BY <1>3, <1>5, <2>3, <3>1, <3>2 DEF Accounted, base
  <2>4. CASE UNCHANGED base /\ Done(h)
    <3>1. Caught(h)'
      BY <1>1, <2>4, PcOf, NotCaught DEF CaughtPcs
    <3>2. Gathered(s) => Gathered(s)'
      BY <1>2, <2>4 DEF Gathered, UpTo, base
    <3>3. Accounted(s)'
      BY <1>1, <1>2, <1>3, <3>2, AccountedStays
    <3> QED BY <1>5, <2>4, <3>1, <3>3 DEF base
  <2> QED BY <1>10, <2>2, <2>3, <2>4 DEF Commit
<1>11. CASE ListUnmerged(h)
  <2>1. /\ UNCHANGED base /\ call[h].pc = "list"
        /\ \/ Goto(h, "conflicted") /\ unmerged # None
           \/ Goto(h, "retreat") \/ Goto(h, "undo")
    BY <1>11 DEF ListUnmerged, NoGit, At
  <2>2. CASE Goto(h, "conflicted") /\ unmerged # None
    <3>1. \A t \in Sessions \ {s} : unmerged[t] = {}
      <4>1. Applying(s)
        BY <2>1 DEF Applying, ApplyPcs
      <4> QED BY <1>1, <4>1 DEF SInv, XInv, Apart, Clear
    <3>2. unmerged[s] # {}
      <4>1. ASSUME unmerged[s] = {} PROVE unmerged = None
        <5>1. \A t \in Sessions : unmerged[t] = {}
          BY <3>1, <4>1
        <5> QED BY <1>1, <5>1 DEF None
      <4> QED BY <2>2, <4>1
    <3>3. call'[h].pc = "conflicted" /\ call'[h].s = s
      BY <1>1, <2>2 DEF Goto, Call
    <3>4. Caught(h)'
      BY <1>1, <1>2, <2>1, <3>2, <3>3 DEF Caught, UpTo, base
    <3> QED BY <1>3, <1>4, <1>5, <2>1, <3>4 DEF Accounted, base
  <2>3. CASE Goto(h, "retreat") \/ Goto(h, "undo")
    <3>1. Caught(h)'
      BY <1>1, <2>3, PcOf, NotCaught DEF CaughtPcs
    <3> QED BY <1>3, <1>4, <1>5, <2>1, <3>1 DEF Accounted, base
  <2> QED BY <2>1, <2>2, <2>3
<1>12. CASE Retreat(h)
  <2>1. head' = head /\ call[h].pc = "retreat" /\ Goto(h, "undo")
    BY <1>12 DEF Retreat, ResetMerge, base, At
  <2>2. Caught(h)'
    BY <1>1, <2>1, PcOf, NotCaught DEF CaughtPcs
  <2> QED BY <1>3, <1>4, <1>5, <2>1, <2>2 DEF Accounted
<1> QED BY <1>6, <1>7, <1>8, <1>9, <1>10, <1>11, <1>12

\* A failure of git ends the request or turns it around.
LEMMA GitFailsSkips ==
  ASSUME SInv, NEW h \in Handlers, NEW s, s = call[h].s, Only(h, s), GitFails(h)
  PROVE  Caught(h)' /\ Covered(s)' /\ Accounted(s)'
<1>1. TypeOK /\ s \in Sessions /\ Covered(s) /\ Accounted(s) /\ row \in Rows
  BY SkipStart
<1>2. /\ UNCHANGED <<row, tip, base>> /\ call[h].pc # "undo"
      /\ Goto(h, "unmake") \/ Goto(h, "undo") \/ Goto(h, "retreat") \/ Done(h)
  BY DEF GitFails, NoGit, At
<1>3. Caught(h)'
  BY <1>1, <1>2, PcOf, NotCaught DEF CaughtPcs
<1>4. Covered(s)'
  BY <1>1, <1>2, CoveredSet DEF base
<1>5. In(s, {"needs_resolution"})' => In(s, {"needs_resolution"})
  BY <1>2 DEF In
<1>6. Gathered(s) => Gathered(s)'
  BY <1>2 DEF Gathered, UpTo, base
<1> QED BY <1>1, <1>2, <1>3, <1>4, <1>5, <1>6, AccountedStays

\* Where the cursor is read and recorded, and where a merge waits or ends
LEMMA MarkSkips ==
  ASSUME SInv, NEW h \in Handlers, NEW s, s = call[h].s, Only(h, s),
         \/ ReadTip(h) \/ MarkMerged(h) \/ RecordCursor(h) \/ MarkConflicted(h) \/ Undo(h)
         \/ Verify(h) \/ ResetBase(h)
  PROVE  Caught(h)' /\ Covered(s)' /\ Accounted(s)'
<1>1. /\ TypeOK /\ s \in Sessions /\ OneLive(s) /\ Placed(h) /\ Smooth(h) /\ Caught(h)
      /\ OfHandler(h) /\ Covered(s) /\ Accounted(s) /\ row \in Rows
      /\ head \in [Sessions -> SUBSET Commits] /\ row \in [Sessions -> [RowIds -> Row]]
      /\ staged \in [Sessions -> SUBSET Commits] /\ unmerged \in [Sessions -> SUBSET Commits]
      /\ call[h] \in Call /\ call \in [Handlers -> Call]
  BY SkipStart DEF Calls
<1>2. UNCHANGED <<tip, head>>
  BY DEF ReadTip, MarkMerged, RecordCursor, MarkConflicted, Undo, Verify, ResetBase,
         ResetMerge, ResetHard, NoGit, base
<1>3. ASSUME NEW to \in ForWorkspace, CanMove(s, to),
             SetStatus(s, ActiveRow(s), to) \/ MoveClearing(s, ActiveRow(s), to),
             to \in {"merged", "dirty", "needs_resolution"}
      PROVE  Covered(s)'
  <2>1. /\ ActiveRow(s) \in RowIds /\ Allowed(row[s][ActiveRow(s)].status, to)
        /\ row[s][ActiveRow(s)].status \in Live
    BY <1>1, <1>3, ActiveIsLive DEF CanMove
  <2>2. row[s][ActiveRow(s)].status \in ForWorkspace
    BY <1>3, <2>1 DEF Allowed, Edges, Live, ForWorkspace
  <2>3. PICK a \in RowIds : a = ActiveRow(s)
    BY <2>1
  <2>4. /\ to \in ForWorkspace => row[s][a].status \in ForWorkspace
        /\ SetStatus(s, a, to) \/ MoveClearing(s, a, to)
    BY <1>3, <2>2, <2>3
  <2> QED BY <1>1, <1>2, <2>4, CoveredSet
<1>4. UNCHANGED row => Covered(s)'
  BY <1>1, <1>2, CoveredSet
<1>5. UNCHANGED base => (Gathered(s) => Gathered(s)')
  BY <1>2 DEF Gathered, UpTo, base
<1>6. Done(h) => Caught(h)'
  BY <1>1, PcOf, NotCaught DEF CaughtPcs
<1>7. UNCHANGED row => (In(s, {"needs_resolution"})' => In(s, {"needs_resolution"}))
  BY DEF In
<1>8. CASE ReadTip(h)
  <2>1. UNCHANGED <<row, base>> /\ call[h].pc = "tip"
    BY <1>8 DEF ReadTip, NoGit, At
  <2>2. UpTo(tip[s]) \subseteq head[s]
    BY <1>1, <2>1 DEF Caught
  <2>3. Caught(h)'
    <3>1. CASE ~call[h].squash /\ Goto(h, "mark")
      <4>1. call'[h].pc = "mark" /\ ~call'[h].squash
        BY <1>1, <3>1 DEF Goto, Call
      <4> QED BY <4>1 DEF Caught
    <3>2. CASE call' = [call EXCEPT ![h].pc = "mark", ![h].upto = tip[s]]
      <4>1. call'[h].pc = "mark" /\ call'[h].upto = tip[s] /\ call'[h].s = s
        BY <1>1, <3>2 DEF Call
      <4> QED BY <1>2, <2>2, <4>1 DEF Caught, UpTo
    <3> QED BY <1>6, <1>8, <3>1, <3>2 DEF ReadTip
  <2>4. Accounted(s)'
    BY <1>1, <1>5, <1>7, <2>1, AccountedStays
  <2> QED BY <1>4, <2>1, <2>3, <2>4
<1>9. CASE MarkMerged(h)
  <2>1. UNCHANGED base /\ call[h].pc = "mark"
    BY <1>9 DEF MarkMerged, NoGit, At
  <2>2. Covered(s)'
    BY <1>3, <1>4, <1>9 DEF MarkMerged, Move, ForWorkspace
  <2>3. In(s, {"needs_resolution"})' => In(s, {"needs_resolution"})
    <3>1. UNCHANGED row \/ (ActiveRow(s) # NoRow /\ SetStatus(s, ActiveRow(s), "merged"))
      BY <1>9 DEF MarkMerged, Move, CanMove
    <3>2. ActiveRow(s) # NoRow => ActiveRow(s) \in RowIds
      BY <1>1, ActiveIsLive
    <3> QED BY <1>1, <3>1, <3>2, NotIn
  <2>4. Accounted(s)'
    BY <1>1, <1>5, <2>1, <2>3, AccountedStays
  <2>5. Caught(h)'
    <3>1. CASE call[h].squash /\ call' = [call EXCEPT ![h].pc = "cursor", ![h].row = ActiveRow(s)]
      <4>1. call'[h].pc = "cursor" /\ call'[h].upto = call[h].upto /\ call'[h].s = s
        BY <1>1, <3>1 DEF Call
      <4>2. UpTo(call[h].upto) \subseteq head[s]
        BY <1>1, <2>1, <3>1 DEF Caught
      <4> QED BY <1>2, <4>1, <4>2 DEF Caught, UpTo
    <3> QED BY <1>6, <1>9, <3>1 DEF MarkMerged
  <2> QED BY <2>2, <2>4, <2>5
<1>10. CASE RecordCursor(h)
  <2>1. UNCHANGED base /\ call[h].pc = "cursor" /\ Done(h)
    BY <1>10 DEF RecordCursor, NoGit, At
  <2>2. PICK i \in RowIds : i = call[h].row
    BY <1>1, <2>1 DEF OfHandler, Named, RowPcs
  <2>3. row[s][i].status # "none" /\ UpTo(call[h].upto) \subseteq head[s]
    BY <1>1, <2>1, <2>2 DEF Placed, Caught
  <2>4. row' = [row EXCEPT ![s][i].cursor = call[h].upto]
    BY <1>10, <2>2, <2>3 DEF RecordCursor
  <2>5. /\ row'[s][i].cursor = call[h].upto /\ row'[s][i].status = row[s][i].status
        /\ \A j \in RowIds \ {i} : row'[s][j] = row[s][j]
    <3>1. row[s][i] \in Row
      BY <1>1
    <3> QED BY <1>1, <2>4, <3>1 DEF Row
  <2>6. Covered(s)'
    BY <1>1, <1>2, <2>3, <2>5 DEF Covered, UpTo
  <2>7. In(s, {"needs_resolution"})' => In(s, {"needs_resolution"})
    BY <2>5 DEF In
  <2> QED BY <1>1, <1>5, <1>6, <2>1, <2>6, <2>7, AccountedStays
<1>11. CASE MarkConflicted(h)
  <2>1. UNCHANGED base /\ call[h].pc = "conflicted" /\ Done(h)
    BY <1>11 DEF MarkConflicted, NoGit, At
  <2>2. Gathered(s)'
    BY <1>1, <1>2, <2>1 DEF Caught, Gathered, UpTo, base
  <2>3. Covered(s)'
    BY <1>3, <1>4, <1>11 DEF MarkConflicted, Move, ForWorkspace
  <2> QED BY <1>6, <2>1, <2>2, <2>3 DEF Accounted
<1>12. CASE Undo(h)
  <2>1. Done(h)
    BY <1>12 DEF Undo
  <2>2. Covered(s)'
    BY <1>3, <1>4, <1>12 DEF Undo, ForWorkspace
  <2>3. ~In(s, {"needs_resolution"})'
    <3>1. CASE CanMove(s, "dirty") /\ MoveClearing(s, ActiveRow(s), "dirty")
      <4>1. PICK a \in RowIds : /\ a = ActiveRow(s)
                                /\ \A j \in RowIds : row[s][j].status \in Live => j = a
        BY <1>1, <3>1, ActiveIsLive DEF CanMove
      <4>2. MoveClearing(s, a, "dirty")
        BY <3>1, <4>1
      <4>3. row'[s][a].status = "dirty" /\ \A j \in RowIds \ {a} : row'[s][j] = row[s][j]
        <5>1. row'[s] = [row[s] EXCEPT ![a] = [row[s][a] EXCEPT !.status = "dirty", !.squash = FALSE]]
          BY <1>1, <4>2 DEF MoveClearing
        <5>2. row[s][a] \in Row
          BY <1>1
        <5> QED BY <1>1, <5>1, <5>2 DEF Row
      <4> QED BY <4>1, <4>3 DEF In, Live
    <3>2. CASE ~CanMove(s, "dirty") /\ UNCHANGED row
      <4>1. ASSUME NEW i \in RowIds, row[s][i].status = "needs_resolution" PROVE FALSE
        <5>1. ActiveRow(s) # NoRow /\ ActiveStatus(s) = "needs_resolution"
          BY <1>1, <4>1, ActiveOne DEF Live
        <5> QED BY <3>2, <5>1 DEF CanMove, Allowed, Edges
      <4> QED BY <3>2, <4>1 DEF In
    <3> QED BY <1>12, <3>1, <3>2 DEF Undo
  <2> QED BY <1>6, <2>1, <2>2, <2>3 DEF Accounted
<1>13. CASE Verify(h)
  <2>1. /\ UNCHANGED <<row, base>> /\ call[h].pc = "verify"
        /\ Done(h) \/ (unmerged = None /\ (Goto(h, "look") \/ Goto(h, "commit")))
    BY <1>13 DEF Verify, NoGit, At
  <2>2. Accounted(s)'
    BY <1>1, <1>5, <1>7, <2>1, AccountedStays
  <2>3. CASE unmerged = None /\ (Goto(h, "look") \/ Goto(h, "commit"))
    <3>1. In(s, {"needs_resolution"})
      BY <1>1, <2>1, OpOf DEF Placed
    <3>2. Gathered(s)
      BY <1>1, <2>1, <3>1 DEF Accounted, Only, At
    <3>3. UpTo(tip[s]) \subseteq head[s] \cup staged[s]
      BY <1>1, <2>3, <3>2 DEF Gathered, None
    <3>4. call'[h].pc \in {"look", "commit"} /\ call'[h].s = s
      BY <1>1, <2>3 DEF Goto, Call
    <3>5. Caught(h)'
      BY <1>2, <2>1, <3>3, <3>4 DEF Caught, UpTo, base
    <3> QED BY <1>4, <2>1, <2>2, <3>5
  <2> QED BY <1>4, <1>6, <2>1, <2>2, <2>3
<1>14. CASE ResetBase(h)
  <2>1. UNCHANGED row /\ call[h].pc = "reset"
    BY <1>14 DEF ResetBase, At
  <2>2. CASE Goto(h, "undo")
    <3>1. call'[h].pc = "undo" /\ call'[h].s = s
      BY <1>1, <2>2 DEF Goto, Call
    <3>2. Accounted(s)'
      BY <3>1 DEF Accounted
    <3> QED BY <1>4, <2>1, <3>1, <3>2, NotCaught DEF CaughtPcs
  <2>3. CASE Done(h) /\ UNCHANGED base
    BY <1>1, <1>4, <1>5, <1>6, <1>7, <2>1, <2>3, AccountedStays
  <2> QED BY <1>14, <2>2, <2>3 DEF ResetBase
<1> QED BY <1>8, <1>9, <1>10, <1>11, <1>12, <1>13, <1>14

LEMMA RequestSkips ==
  ASSUME SInv, OneAtATime, NEW h \in Handlers, NEW s \in Sessions, Requests(h, s)
  PROVE  Caught(h)' /\ Covered(s)' /\ Accounted(s)'
<1>1. /\ TypeOK /\ OneLive(s) /\ row \in Rows /\ call \in Calls /\ Only(h, s)
      /\ Covered(s) /\ Accounted(s) /\ row \in [Sessions -> [RowIds -> Row]]
  BY SessionStart, RequestApart DEF SInv, XInv, MInv, Rows
<1>2. UNCHANGED <<tip, base>> /\ At(h, "free") /\ ~Serving(s)
  BY RequestApart DEF SInv, XInv, MInv
<1>3. PICK c \in Call : call' = [call EXCEPT ![h] = c] /\ c.s = s /\ Asked(s, c)
  BY RequestForms DEF SInv, XInv, MInv
<1>4. call'[h] = c
  BY <1>1, <1>3 DEF Calls
<1>5. Caught(h)'
  BY <1>3, <1>4, NotCaught DEF Asked, CaughtPcs
<1>6. Gathered(s) => Gathered(s)'
  BY <1>2 DEF Gathered, UpTo, base
<1>7. head[s] \subseteq head'[s] /\ call[h].pc # "undo"
  BY <1>2 DEF base, At
<1>8. CASE UNCHANGED row \/ \E i \in RowIds : SetStatus(s, i, "cleanup_pending")
  <2>1. Covered(s)'
    BY <1>1, <1>7, <1>8, CoveredSet DEF ForWorkspace
  <2>2. In(s, {"needs_resolution"})' => In(s, {"needs_resolution"})
    BY <1>1, <1>8, NotIn
  <2> QED BY <1>1, <1>5, <1>6, <1>7, <2>1, <2>2, AccountedStays
<1>9. CASE Refresh(s)
  <2>1. \/ UNCHANGED row
        \/ /\ Latest(s) \in RowIds /\ row[s][Latest(s)].status = "merged"
           /\ SetStatus(s, Latest(s), "dirty")
    BY <1>9, LatestIsRow DEF Refresh
  <2>2. Covered(s)'
    BY <1>1, <1>7, <2>1, CoveredSet DEF ForWorkspace
  <2>3. In(s, {"needs_resolution"})' => In(s, {"needs_resolution"})
    BY <1>1, <2>1, NotIn
  <2> QED BY <1>1, <1>5, <1>6, <1>7, <2>2, <2>3, AccountedStays
<1>10. CASE c.row \in RowIds
            /\ row' = [row EXCEPT ![s][c.row] = [NoneRow EXCEPT !.status = "creating"]]
  <2>1. /\ row'[s][c.row].status = "creating" /\ row'[s][c.row].cursor = 0
        /\ \A j \in RowIds \ {c.row} : row'[s][j] = row[s][j]
    BY <1>1, <1>10 DEF NoneRow
  <2>2. UpTo(0) = {}
    BY DEF UpTo, Commits
  <2>3. Covered(s)'
    BY <1>1, <1>7, <2>1, <2>2 DEF Covered, UpTo
  <2>4. In(s, {"needs_resolution"})' => In(s, {"needs_resolution"})
    BY <2>1 DEF In
  <2> QED BY <1>1, <1>5, <1>6, <1>7, <2>3, <2>4, AccountedStays
<1> QED BY <1>3, <1>8, <1>9, <1>10 DEF Asked

LEMMA AbandonSkips ==
  ASSUME SInv, "halfabort" \notin Events, NEW h \in Handlers, NEW s, s = call[h].s,
         Only(h, s), Abandon(h)
  PROVE  Caught(h)' /\ Covered(s)' /\ Accounted(s)'
<1>1. /\ TypeOK /\ s \in Sessions /\ OneLive(s) /\ Placed(h) /\ row \in Rows
      /\ Covered(s) /\ Accounted(s)
  BY SkipStart
<1>2. UNCHANGED <<row, tip, base>> /\ Done(h) /\ ~(At(h, "undo") /\ call[h].op = "abort")
  BY DEF Abandon, Spend
<1>3. Caught(h)'
  BY <1>1, <1>2, PcOf, NotCaught DEF CaughtPcs
<1>4. Covered(s)'
  BY <1>1, <1>2, CoveredSet DEF base
<1>5. In(s, {"needs_resolution"})' => In(s, {"needs_resolution"})
  BY <1>2 DEF In
<1>6. Gathered(s) => Gathered(s)'
  BY <1>2 DEF Gathered, UpTo, base
<1>7. CASE call[h].pc # "undo"
  BY <1>1, <1>3, <1>4, <1>5, <1>6, <1>7, AccountedStays
<1>8. CASE call[h].pc = "undo"
  <2>1. ~In(s, {"needs_resolution"})
    BY <1>1, <1>2, <1>8, OpOf, NotBoth DEF At, Placed
  <2> QED BY <1>3, <1>4, <1>5, <2>1 DEF Accounted
<1> QED BY <1>7, <1>8

LEMMA OutsideSkips ==
  ASSUME SInv, XInv', "busy" \notin Events, Outside
  PROVE  SInv'
<1>1. /\ TypeOK /\ row \in Rows /\ \A h \in Handlers : Placed(h) /\ Caught(h)
      /\ \A s \in Sessions : Covered(s) /\ Accounted(s) /\ OneLive(s)
      /\ \A h \in Handlers : call[h].s \in Sessions
      /\ row \in [Sessions -> [RowIds -> Row]] /\ tip \in [Sessions -> NoBranch..MaxCommits]
  BY DEF SInv, XInv, MInv, IInv, TypeOK, Rows, OfSession, Call
<1>2. UNCHANGED call
  BY <1>1, OutsideRows
<1>3. \A t \in Sessions : /\ head[t] \subseteq head'[t] /\ staged[t] \subseteq staged'[t]
                          /\ head[t] \cup staged[t] \cup unmerged[t]
                               \subseteq head'[t] \cup staged'[t] \cup unmerged'[t]
  <2>1. ASSUME NEW s \in Sessions, NEW u \in Sessions, Resolve(s, u), NEW t \in Sessions
        PROVE  /\ head[t] \subseteq head'[t] /\ staged[t] \subseteq staged'[t]
               /\ head[t] \cup staged[t] \cup unmerged[t]
                    \subseteq head'[t] \cup staged'[t] \cup unmerged'[t]
    BY <1>1, <2>1 DEF Resolve, TypeOK
  <2>2. CASE UNCHANGED <<head, staged, unmerged>>
    BY <2>2
  <2> QED BY <2>1, <2>2 DEF Outside, Poll, AgentCommits, UserEdits, UserStages, NoGit, vars, base
<1>4. \A t \in Sessions :
        /\ Covered(t)'
        /\ In(t, {"needs_resolution"})' => In(t, {"needs_resolution"})
  <2>1. ASSUME UNCHANGED row, NEW t \in Sessions
        PROVE  Covered(t)' /\ (In(t, {"needs_resolution"})' => In(t, {"needs_resolution"}))
    BY <1>1, <1>3, <2>1 DEF Covered, UpTo, In
  <2>2. ASSUME NEW s \in Sessions, Poll(s), NEW t \in Sessions
        PROVE  Covered(t)' /\ (In(t, {"needs_resolution"})' => In(t, {"needs_resolution"}))
    <3>1. PICK k \in RowIds :
           /\ row[s][k].status = "merged" /\ row'[s][k] = [row[s][k] EXCEPT !.status = "dirty"]
           /\ \A j \in RowIds \ {k} : row'[s][j] = row[s][j]
           /\ \A u \in Sessions \ {s} : row'[u] = row[u]
      BY <1>1, <2>2, PollApart
    <3>2. row'[s][k].status = "dirty" /\ row'[s][k].cursor = row[s][k].cursor
      BY <1>1, <3>1 DEF Row
    <3>3. \A i \in RowIds :
            /\ row'[t][i].cursor = row[t][i].cursor
            /\ row'[t][i].status \in ForWorkspace => row[t][i].status \in ForWorkspace
            /\ row'[t][i].status = "needs_resolution" => row[t][i].status = "needs_resolution"
      <4>1. CASE t = s
        BY <3>1, <3>2, <4>1 DEF ForWorkspace
      <4>2. CASE t # s
        BY <3>1, <4>2
      <4> QED BY <4>1, <4>2
    <3> QED BY <1>1, <1>3, <3>3 DEF Covered, UpTo, In
  <2> QED BY <1>1, <2>1, <2>2, OutsideRows
<1>5. \A t \in Sessions : tip'[t] # tip[t] => ~In(t, Being)
  <2>1. ASSUME NEW s \in Sessions, AgentCommits(s), NEW t \in Sessions, tip'[t] # tip[t]
        PROVE  ~In(t, Being)
    <3>1. t = s /\ ~BeingMerged(s)
      BY <1>1, <2>1 DEF AgentCommits, Spend
    <3> QED BY <1>1, <3>1, BeingIn
  <2>2. (\E s \in Sessions : AgentCommits(s)) \/ UNCHANGED tip
    BY DEF Outside, Poll, Resolve, UserEdits, UserStages, NoGit, vars
  <2> QED BY <2>1, <2>2
<1>6. ASSUME NEW t \in Sessions PROVE Accounted(t)'
  <2>1. CASE tip'[t] = tip[t]
    <3>1. Gathered(t) => Gathered(t)'
      BY <1>3, <2>1 DEF Gathered, UpTo
    <3> QED BY <1>1, <1>2, <1>4, <3>1 DEF Accounted
  <2>2. CASE tip'[t] # tip[t]
    BY <1>4, <1>5, <2>2 DEF Accounted, In, Being
  <2> QED BY <2>1, <2>2
<1>7. ASSUME NEW g \in Handlers PROVE Caught(g)'
  <2>1. PICK t \in Sessions : t = call[g].s /\ call'[g] = call[g]
    BY <1>1, <1>2
  <2>2. CASE tip'[t] = tip[t]
    <3>1. unmerged'[t] \subseteq unmerged[t]
      BY <1>1, OutsideRows
    <3>2. unmerged'[t] # {} => unmerged[t] # {}
      BY <3>1
    <3>3. call[g].pc # "list" => Caught(g)'
      BY <1>1, <1>3, <2>1, <2>2 DEF Caught, UpTo
    <3>4. call[g].pc = "list" => Caught(g)'
      <4>1. ASSUME call[g].pc = "list", unmerged'[t] # {}
            PROVE  UpTo(tip[t]) \subseteq head'[t] \cup staged'[t] \cup unmerged'[t]
        <5>1. UpTo(tip[t]) \subseteq head[t] \cup staged[t] \cup unmerged[t]
          BY <1>1, <2>1, <3>2, <4>1 DEF Caught
        <5> QED BY <1>3, <5>1
      <4> QED BY <2>1, <2>2, <4>1 DEF Caught, UpTo
    <3> QED BY <3>3, <3>4
  <2>3. CASE tip'[t] # tip[t]
    <3>1. call[g].pc \notin {"unstage", "apply", "list", "look", "commit", "conflicted", "tip"}
      <4>1. ~In(t, {"merging"}) /\ ~In(t, {"needs_resolution"})
        BY <1>5, <2>3 DEF In, Being
      <4> QED BY <1>1, <2>1, <4>1, OpOf DEF Placed
    <3> QED BY <1>1, <1>3, <2>1, <3>1 DEF Caught, UpTo
  <2> QED BY <2>2, <2>3
<1> QED BY <1>4, <1>6, <1>7 DEF SInv

InTurn == OneAtATime /\ Events \cap {"overlap", "busy", "halfabort"} = {}

LEMMA SkipKept ==
  ASSUME InTurn, SInv, [Next]_vars
  PROVE  SInv'
<1>1. OneAtATime /\ "overlap" \notin Events /\ "busy" \notin Events /\ "halfabort" \notin Events
  BY DEF InTurn
<1>2. XInv /\ XInv' /\ IInv
  BY <1>1, ExclusiveKept DEF SInv, XInv, MInv
<1>3. ASSUME NEW h \in Handlers, Step(h) PROVE SInv'
  <2>1. PICK s \in Sessions : s = call[h].s /\ Only(h, s)
    BY <1>2, <1>3, StepApart
  <2>2. Caught(h)' /\ Covered(s)' /\ Accounted(s)'
    <3>1. CASE Make(h) \/ Clean(h)
      BY <2>1, <3>1, MakeSkips, CleanSkips
    <3>2. CASE Merge(h)
      BY <2>1, <3>2, PatchSkips, ApplySkips, GitFailsSkips, MarkSkips DEF Merge
    <3> QED BY <1>3, <3>1, <3>2 DEF Step
  <2>3. \A t \in Sessions \ {s} :
           /\ head[t] \subseteq head'[t]
           /\ Engaged(t) => staged'[t] = staged[t] /\ unmerged'[t] = unmerged[t]
    BY <1>2, <1>3, <2>1, BaseApart
  <2> QED BY <1>2, <2>1, <2>2, <2>3, SkipLocally
<1>4. ASSUME NEW h \in Handlers, Abandon(h) PROVE SInv'
  <2>1. PICK s \in Sessions : s = call[h].s /\ Only(h, s)
    BY <1>2, <1>4, StepApart
  <2>2. UNCHANGED base
    BY <1>4 DEF Abandon
  <2> QED BY <1>1, <1>2, <1>4, <2>1, <2>2, AbandonSkips, SkipLocally DEF base
<1>5. ASSUME NEW h \in Handlers, NEW s \in Sessions, Requests(h, s) PROVE SInv'
  <2>1. Only(h, s) /\ UNCHANGED base
    BY <1>1, <1>2, <1>5, RequestApart
  <2> QED BY <1>1, <1>2, <1>5, <2>1, RequestSkips, SkipLocally DEF base
<1>6. CASE Outside
  BY <1>1, <1>2, <1>6, OutsideSkips
<1> QED BY <1>3, <1>4, <1>5, <1>6 DEF Next, Outside

\* The cursor of a worktree never passes a commit that the base branch does
\* not account for, whatever fails or is dropped, where merges pass their
\* checks one at a time, no agent commits while its session is being merged
\* and no abort is dropped after it has reset the base workspace
\* (session_worktree.rs, mark_cursor_integration_merged).
THEOREM CursorsSkipNothing == InTurn => (Spec => []NothingSkipped)
<1> SUFFICES ASSUME InTurn PROVE Spec => []NothingSkipped
  OBVIOUS
<1>1. Init => SInv
  <2> SUFFICES ASSUME Init PROVE SInv
    OBVIOUS
  <2>1. XInv /\ \A h \in Handlers : call[h].pc = "free"
    BY InitExclusive DEF Init, Free
  <2>2. \A h \in Handlers : Caught(h)
    BY <2>1 DEF Caught
  <2>3. \A s \in Sessions, i \in RowIds : row[s][i].status = "none"
    BY DEF Init, NoneRow
  <2>4. \A s \in Sessions : Covered(s) /\ Accounted(s)
    BY <2>3 DEF Covered, ForWorkspace, Accounted, In
  <2> QED BY <2>1, <2>2, <2>4 DEF SInv
<1>2. SInv /\ [Next]_vars => SInv'
  BY SkipKept
<1>3. SInv => NothingSkipped
  BY DEF SInv, Covered, UpTo, NothingSkipped
<1> QED BY <1>1, <1>2, <1>3, PTL DEF Spec

-------------------------------------------------------------------------------
(* The user's edit.  Only "unstage" may change what a user's edit is, and it *)
(* keeps the file; from then on it is not in the index (Unstaged), and it    *)
(* stays out while the conflict waits (Minded), for the user stages nothing  *)
(* meanwhile.  An abort finds a conflict, never a merge at work, so it undoes *)
(* a squash (Squashing) and does not reset the files.                        *)

Unstaged(h) ==
  call[h].pc \in {"apply", "list", "look", "commit", "retreat", "conflicted", "verify",
                 "reset"}
    => edit # "staged"
Squashing(h) == call[h].pc = "reset" => call[h].squash
RootedPcs == {"unstage", "apply", "look", "commit", "tip"}
Rooted(h) ==
  call[h].op = "merge" /\ call[h].pc \in RootedPcs => tip[call[h].s] # NoBranch
Minded(s) ==
  /\ In(s, {"needs_resolution"}) => edit # "staged"
  /\ In(s, {"merging"}) => \E h \in Handlers :
       call[h].s = s /\ call[h].op = "merge" /\ call[h].pc \notin {"check", "claim", "cursor"}

EInv ==
  /\ MInv
  /\ \A h \in Handlers : Unstaged(h) /\ Squashing(h) /\ Rooted(h)
  /\ \A s \in Sessions : Minded(s)

Mindful(h, s) == Unstaged(h) /\ Squashing(h) /\ Rooted(h) /\ Minded(s)
EditKept == edit' = edit \/ (edit' = "loose" /\ edit \in Kept)

LEMMA EditStart ==
  ASSUME EInv, NEW h \in Handlers
  PROVE  /\ MInv /\ TypeOK /\ call[h] \in Call /\ call \in Calls /\ call[h].s \in Sessions
         /\ call \in [Handlers -> Call]
         /\ OneLive(call[h].s) /\ OfHandler(h) /\ Fresh(call[h].s) /\ Placed(h)
         /\ Mindful(h, call[h].s) /\ row \in Rows /\ row \in [Sessions -> [RowIds -> Row]]
         /\ tip \in [Sessions -> NoBranch..MaxCommits]
         /\ edit \in {"none", "loose", "staged", "committed", "lost"}
BY MergeStart DEF EInv, TypeOK, Rows, Calls, Mindful

\* The handler of a session whose row says "merging" is the one that merges it.
LEMMA Merging ==
  ASSUME EInv, NEW h \in Handlers, NEW s \in Sessions, In(s, {"merging"})
  PROVE  /\ Serving(s)
         /\ call[h].s = s /\ ~At(h, "free") =>
              call[h].op = "merge" /\ call[h].pc \notin {"check", "claim", "cursor"}
<1>1. PICK g \in Handlers : /\ call[g].s = s /\ call[g].op = "merge"
                            /\ call[g].pc \notin {"check", "claim", "cursor"}
  BY DEF EInv, Minded
<1>2. ~At(g, "free")
  <2>1. call[g].pc \in Course("merge")
    BY <1>1 DEF EInv, MInv, Placed
  <2> QED BY <2>1 DEF Course, Onward, At
<1> QED BY <1>1, <1>2 DEF EInv, MInv, IInv, Alone, Serving

\* It is enough to look at the handler and the session of the step.
LEMMA EditLocally ==
  ASSUME EInv, MInv', NEW h \in Handlers, NEW s \in Sessions, Only(h, s),
         Mindful(h, s)', EditKept
  PROVE  EInv'
<1>1. ASSUME NEW g \in Handlers, g # h PROVE Unstaged(g)' /\ Squashing(g)' /\ Rooted(g)'
  <2>1. /\ Unstaged(g) /\ Squashing(g) /\ Rooted(g) /\ call'[g] = call[g]
        /\ call[g].s \in Sessions
    BY <1>1 DEF EInv, MInv, IInv, TypeOK, Call, Only
  <2>2. CASE call[g].s = s
    <3>1. call[g].pc = "free"
      BY <1>1, <2>2 DEF Only, At
    <3> QED BY <2>1, <3>1 DEF Unstaged, Squashing, Rooted, RootedPcs
  <2>3. CASE call[g].s # s
    <3>1. tip'[call[g].s] = tip[call[g].s]
      BY <2>1, <2>3 DEF Only
    <3> QED BY <2>1, <3>1 DEF Unstaged, Squashing, Rooted, EditKept
  <2> QED BY <2>2, <2>3
<1>2. ASSUME NEW t \in Sessions, t # s PROVE Minded(t)'
  <2>1. Minded(t) /\ row'[t] = row[t]
    BY <1>2 DEF EInv, Only
  <2>2. In(t, {"needs_resolution"})' => edit' # "staged"
    BY <2>1 DEF Minded, In, EditKept
  <2>3. ASSUME In(t, {"merging"})'
        PROVE  (\E g \in Handlers : /\ call[g].s = t /\ call[g].op = "merge"
                                    /\ call[g].pc \notin {"check", "claim", "cursor"})'
    <3>1. In(t, {"merging"})
      BY <2>1, <2>3 DEF In
    <3>2. PICK g \in Handlers : /\ call[g].s = t /\ call[g].op = "merge"
                                /\ call[g].pc \notin {"check", "claim", "cursor"}
      BY <2>1, <3>1 DEF Minded
    <3>3. g # h
      <4>1. call[g].pc \in Course("merge")
        BY <3>2 DEF EInv, MInv, Placed
      <4> QED BY <1>2, <3>2, <4>1 DEF Only, At, Course, Onward
    <3> QED BY <3>2, <3>3 DEF Only
  <2> QED BY <2>2, <2>3 DEF Minded
<1> QED BY <1>1, <1>2 DEF EInv, Mindful

\* A request that goes on, and one that ends
LEMMA EditWalks ==
  ASSUME EInv, NEW h \in Handlers, NEW s, s = call[h].s, ~At(h, "free"),
         UNCHANGED <<row, tip>>, EditKept, NEW c \in Call, call' = [call EXCEPT ![h] = c],
         c.s = s, c.op = call[h].op, c.pc \notin {"reset", "check", "claim", "cursor"},
         c.pc \in {"apply", "list", "look", "commit", "retreat", "conflicted", "verify"} =>
           edit' # "staged",
         c.op = "merge" /\ c.pc \in RootedPcs => tip[s] # NoBranch
  PROVE  Mindful(h, s)'
<1>1. call \in Calls /\ s \in Sessions /\ Mindful(h, s)
  BY EditStart
<1>2. call'[h] = c
  BY <1>1 DEF Calls
<1>3. Unstaged(h)' /\ Squashing(h)' /\ Rooted(h)'
  BY <1>2 DEF Unstaged, Squashing, Rooted
<1>4. In(s, {"needs_resolution"})' => edit' # "staged"
  BY <1>1 DEF Mindful, Minded, In, EditKept
<1>5. In(s, {"merging"})' => call[h].op = "merge"
  BY <1>1, Merging DEF In
<1>6. Minded(s)'
  BY <1>2, <1>4, <1>5 DEF Minded
<1> QED BY <1>3, <1>6 DEF Mindful

LEMMA EditEnds ==
  ASSUME EInv, NEW h \in Handlers, NEW s, s = call[h].s, Done(h), UNCHANGED edit,
         ~In(s, {"merging"})', In(s, {"needs_resolution"})' => edit # "staged"
  PROVE  Mindful(h, s)'
<1>1. TypeOK
  BY EditStart
<1>2. call'[h].pc = "free"
  BY <1>1, PcOf
<1> QED BY <1>2 DEF Mindful, Unstaged, Squashing, Rooted, RootedPcs, Minded

LEMMA AshoreEdits ==
  ASSUME EInv, NEW h \in Handlers, NEW s, s = call[h].s, Make(h) \/ Clean(h)
  PROVE  Mindful(h, s)' /\ UNCHANGED edit
<1>1. /\ TypeOK /\ s \in Sessions /\ Placed(h) /\ OfHandler(h) /\ Mindful(h, s)
      /\ row \in Rows /\ call[h] \in Call /\ call \in [Handlers -> Call]
  BY EditStart
<1>2. UNCHANGED edit
  BY DEF Make, MakeBranch, AddWorktree, Activate, Unmake, StartRun, Clean, RemoveWorktree,
         Fail, Unbranch, Archive, Wipe, WipeFails, WipeBranch, Cascade, NoGit, base
<1>3. call'[h].pc \notin RootedPcs \cup {"list", "retreat", "conflicted", "verify", "reset"}
  <2>1. CASE Activate(h)
    <3>1. Done(h) \/ call'[h].pc = "start"
      BY <1>1, <2>1 DEF Activate, Call
    <3> QED BY <1>1, <3>1, PcOf DEF RootedPcs
  <2>2. CASE ~Activate(h)
    <3>1. \E pc \in {"unmake", "add", "activate", "unbranch", "fail", "archive",
                     "wipebranch", "cascade"} : Goto(h, pc) \/ Done(h)
      BY <2>2 DEF Make, MakeBranch, AddWorktree, Unmake, StartRun, Clean, RemoveWorktree,
                  Fail, Unbranch, DeleteBranch, Archive, Wipe, WipeFails, WipeBranch, Cascade
    <3> QED BY <1>1, <3>1, PcOf DEF RootedPcs
  <2> QED BY <2>1, <2>2
<1>4. ~At(h, "free") /\ call[h].op # "merge"
  <2>1. call[h].pc \in MakePcs \cup DeletePcs \cup {"start", "remove", "fail", "unbranch", "archive"}
    BY DEF Make, MakeBranch, AddWorktree, Activate, Unmake, StartRun, Clean, RemoveWorktree,
           Fail, Unbranch, Archive, Wipe, WipeFails, WipeBranch, Cascade, At, MakePcs, DeletePcs
  <2> QED BY <1>1, <2>1 DEF Placed, Course, Onward, MakePcs, DeletePcs, At
<1>5. \A S \in {{"merging"}, {"needs_resolution"}} : In(s, S)' => In(s, S)
  <2> SUFFICES ASSUME NEW S \in {{"merging"}, {"needs_resolution"}}, In(s, S)' PROVE In(s, S)
    OBVIOUS
  <2>1. PICK i : i = call[h].row
    OBVIOUS
  <2>2. CASE Cascade(h)
    <3>1. \A j \in RowIds : row'[s][j].status = "none"
      BY <1>1, <2>2 DEF Cascade, Rows, NoneRow
    <3> QED BY <3>1 DEF In
  <2>3. CASE ~Cascade(h)
    <3>1. \/ UNCHANGED row
          \/ /\ call[h].pc \in RowPcs
             /\ \E to \in {"active", "cleanup_failed", "archived"} :
                  SetStatus(s, i, to) \/ MoveClearing(s, i, to)
      BY <2>1, <2>3
         DEF Make, MakeBranch, AddWorktree, Activate, Unmake, StartRun, Clean, RemoveWorktree,
             Fail, Unbranch, Archive, Wipe, WipeFails, WipeBranch, RowPcs, MakePcs, At
    <3>2. call[h].pc \in RowPcs => i \in RowIds
      BY <1>1, <2>1 DEF OfHandler, Named
    <3> QED BY <1>1, <3>1, <3>2, NotIn
  <2> QED BY <2>2, <2>3
<1>6. ~In(s, {"merging"})
  BY <1>1, <1>4, Merging
<1>7. Minded(s)'
  BY <1>1, <1>2, <1>5, <1>6 DEF Mindful, Minded
<1>8. Unstaged(h)' /\ Squashing(h)' /\ Rooted(h)'
  BY <1>3 DEF Unstaged, Squashing, Rooted, RootedPcs
<1> QED BY <1>2, <1>7, <1>8 DEF Mindful

LEMMA EditGoes ==
  ASSUME EInv, NEW h \in Handlers, NEW s, s = call[h].s, ~At(h, "free"),
         UNCHANGED <<row, tip>>, EditKept, NEW pc \in Pc, Goto(h, pc),
         pc \notin {"reset", "check", "claim", "cursor"},
         pc \in {"apply", "list", "look", "commit", "retreat", "conflicted", "verify"} =>
           edit' # "staged",
         call[h].op = "merge" /\ pc \in RootedPcs => tip[s] # NoBranch
  PROVE  Mindful(h, s)'
<1>1. PICK c \in Call : /\ c.s = s /\ call' = [call EXCEPT ![h] = c]
                        /\ c.pc = pc /\ c.op = call[h].op /\ c.row = call[h].row
  BY Goes DEF EInv, MInv
<1> QED BY <1>1, EditWalks

LEMMA PatchEdits ==
  ASSUME EInv, NEW h \in Handlers, NEW s, s = call[h].s,
         CheckBase(h) \/ Claim(h) \/ Note(h) \/ Diff(h) \/ Unstage(h)
  PROVE  Mindful(h, s)' /\ EditKept
<1>1. /\ TypeOK /\ s \in Sessions /\ OneLive(s) /\ OfHandler(h) /\ Placed(h) /\ Mindful(h, s)
      /\ call[h] \in Call /\ call \in [Handlers -> Call] /\ row \in Rows
      /\ row \in [Sessions -> [RowIds -> Row]] /\ call \in Calls
  BY EditStart
<1>2. call[h].op = "merge" /\ ~At(h, "free")
  BY <1>1, OpOf DEF CheckBase, Claim, Note, Diff, Unstage, At
<1>3. EditKept
  BY DEF CheckBase, Claim, Note, Diff, Unstage, UnstageDirty, NoGit, base, EditKept, Kept
<1>4. \A S : UNCHANGED row => (In(s, S)' => In(s, S))
  BY DEF In
<1>5. CASE CheckBase(h) \/ Claim(h)
  <2>1. UNCHANGED <<tip, edit>> /\ ~In(s, {"merging"})
    BY <1>1, <1>2, <1>5, Merging DEF CheckBase, Claim, NoGit, base, At
  <2>2. CASE UNCHANGED row /\ Done(h)
    BY <1>1, <1>3, <1>4, <2>1, <2>2, EditEnds DEF Mindful, Minded
  <2>3. CASE UNCHANGED row /\ Goto(h, "claim")
    <3>1. call'[h].pc = "claim"
      BY <1>1, <2>3, PcOf
    <3>2. Minded(s)'
      BY <1>1, <1>4, <2>1, <2>3 DEF Mindful, Minded
    <3> QED BY <1>3, <3>1, <3>2 DEF Mindful, Unstaged, Squashing, Rooted, RootedPcs
  <2>4. CASE CanMove(s, "merging") /\ Move(s, "merging")
             /\ call' = [call EXCEPT ![h].pc = "note", ![h].row = ActiveRow(s)]
    <3>1. call'[h].pc = "note" /\ call'[h].op = "merge" /\ call'[h].s = s
      BY <1>1, <1>2, <2>4 DEF Call
    <3>2. In(s, {"needs_resolution"})' => In(s, {"needs_resolution"})
      <4>1. ActiveRow(s) \in RowIds
        BY <1>1, <2>4, ActiveIsLive DEF CanMove
      <4> QED BY <1>1, <2>4, <4>1, NotIn DEF Move
    <3>3. Minded(s)'
      BY <1>1, <2>1, <3>1, <3>2 DEF Mindful, Minded
    <3> QED BY <1>3, <3>1, <3>3 DEF Mindful, Unstaged, Squashing, Rooted, RootedPcs
  <2> QED BY <1>5, <2>2, <2>3, <2>4 DEF CheckBase, Claim
<1>6. CASE Note(h)
  <2>1. PICK i \in RowIds : i = call[h].row /\ row[s][i].status = "merging"
    BY <1>1, <1>6 DEF Note, At, Placed, OfHandler, Named, RowPcs
  <2>2. /\ row' = [row EXCEPT ![s][i].squash = TRUE] /\ UNCHANGED edit
        /\ call' = [call EXCEPT ![h].pc = "diff", ![h].squash = TRUE,
                                ![h].upto = row[s][i].cursor]
    BY <1>6, <2>1 DEF Note, NoGit, base
  <2>3. call'[h].pc = "diff" /\ call'[h].op = "merge" /\ call'[h].s = s
    BY <1>1, <1>2, <2>2 DEF Call
  <2>4. \A j \in RowIds : row'[s][j].status = row[s][j].status
    <3>1. row[s][i] \in Row
      BY <1>1
    <3> QED BY <1>1, <2>2, <3>1 DEF Row
  <2>5. Minded(s)'
    BY <1>1, <2>2, <2>3, <2>4 DEF Mindful, Minded, In
  <2> QED BY <1>3, <2>3, <2>5 DEF Mindful, Unstaged, Squashing, Rooted, RootedPcs
<1>7. CASE Diff(h)
  <2>1. UNCHANGED <<row, tip, base>>
    BY <1>7 DEF Diff, NoGit
  <2>2. PICK patch \in SUBSET Commits :
          call' = [call EXCEPT ![h].patch = patch,
                               ![h].pc = IF tip[s] = NoBranch THEN "undo"
                                         ELSE IF patch = {} THEN "tip" ELSE "unstage"]
    BY <1>7 DEF Diff
  <2>3. PICK pc \in {"undo", "tip", "unstage"} :
          /\ pc # "undo" => tip[s] # NoBranch
          /\ call' = [call EXCEPT ![h].patch = patch, ![h].pc = pc]
    BY <2>2
  <2>4. [call[h] EXCEPT !.patch = patch, !.pc = pc] \in Call
    BY <1>1 DEF Call, Pc
  <2>5. PICK c \in Call : c = [call[h] EXCEPT !.patch = patch, !.pc = pc]
    BY <2>4
  <2>6. c.s = s /\ c.op = call[h].op /\ c.pc = pc /\ call' = [call EXCEPT ![h] = c]
    BY <1>1, <2>3, <2>5 DEF Call
  <2>7. pc \in RootedPcs => pc # "undo"
    BY DEF RootedPcs
  <2> QED BY <1>2, <1>3, <2>1, <2>3, <2>6, <2>7, EditWalks
<1>8. CASE Unstage(h)
  <2>1. UNCHANGED <<row, tip>> /\ Goto(h, "apply") /\ edit' # "staged" /\ call[h].pc = "unstage"
    BY <1>8 DEF Unstage, UnstageDirty, At
  <2>2. tip[s] # NoBranch
    BY <1>1, <1>2, <2>1 DEF Mindful, Rooted, RootedPcs
  <2> QED BY <1>2, <1>3, <2>1, <2>2, EditGoes DEF Pc
<1> QED BY <1>5, <1>6, <1>7, <1>8

LEMMA ApplyEdits ==
  ASSUME EInv, NEW h \in Handlers, NEW s, s = call[h].s,
         \/ ApplyClean(h) \/ ApplyConflicts(h) \/ ApplyRefused(h) \/ ListUnmerged(h)
         \/ Retreat(h) \/ Look(h) \/ Commit(h)
  PROVE  Mindful(h, s)' /\ EditKept
<1>1. /\ TypeOK /\ s \in Sessions /\ Placed(h) /\ Mindful(h, s) /\ OneLive(s)
  BY EditStart
<1>2. /\ UNCHANGED <<row, tip>> /\ ~At(h, "free")
      /\ call[h].pc \in {"apply", "list", "look", "commit", "retreat"}
  BY DEF ApplyClean, ApplyConflicts, ApplyRefused, ListUnmerged, Retreat, Look, Commit,
         NoGit, At
<1>3. edit # "staged"
  BY <1>1, <1>2 DEF Mindful, Unstaged
<1>4. UNCHANGED edit
  BY <1>3 DEF ApplyClean, ApplyConflicts, ApplyRefused, ListUnmerged, Retreat, Look,
              Commit, CommitIndex, ResetMerge, NoGit, base
<1>5. EditKept
  BY <1>4 DEF EditKept
<1>6. call[h].op = "merge" /\ call[h].pc \in {"apply", "look", "commit"} => tip[s] # NoBranch
  BY <1>1, <1>2 DEF Mindful, Rooted, RootedPcs
<1>7. ASSUME NEW pc \in {"list", "look", "conflicted", "undo", "commit", "retreat", "tip"},
             Goto(h, pc), pc \in RootedPcs => call[h].pc \in {"apply", "look", "commit"}
      PROVE  Mindful(h, s)'
  <2>1. pc \in Pc
    BY DEF Pc
  <2> QED BY <1>2, <1>3, <1>4, <1>5, <1>6, <1>7, <2>1, EditGoes
<1>8. CASE Done(h) /\ call[h].op = "continue"
  <2>1. call[h].pc # "free" /\ ~In(s, {"merging"})
    BY <1>1, <1>2, <1>8, Merging
  <2>2. ~In(s, {"merging"})' /\ (In(s, {"needs_resolution"})' => edit # "staged")
    BY <1>2, <1>3, <2>1 DEF In
  <2> QED BY <1>4, <1>5, <1>8, <2>2, EditEnds
<1>9. \/ \E pc \in {"list", "look", "conflicted", "undo", "commit", "retreat", "tip"} :
           Goto(h, pc) /\ (pc \in RootedPcs => call[h].pc \in {"apply", "look", "commit"})
      \/ Done(h) /\ call[h].op = "continue"
  <2>1. CASE Commit(h)
    <3>1. call[h].op \in {"merge", "continue"}
      BY <1>1, <2>1, OpOf DEF Commit, At
    <3> QED BY <2>1, <3>1 DEF Commit, At
  <2>2. CASE ~Commit(h)
    BY <2>2 DEF ApplyClean, ApplyConflicts, ApplyRefused, ListUnmerged, Retreat, Look, At,
                RootedPcs
  <2> QED BY <2>1, <2>2
<1> QED BY <1>5, <1>7, <1>8, <1>9

LEMMA GitFailsEdits ==
  ASSUME EInv, NEW h \in Handlers, NEW s, s = call[h].s, GitFails(h)
  PROVE  Mindful(h, s)' /\ EditKept
<1>1. /\ TypeOK /\ s \in Sessions /\ Placed(h) /\ Mindful(h, s)
      /\ UNCHANGED <<row, tip, edit>> /\ ~At(h, "free")
  BY EditStart DEF GitFails, NoGit, base, At
<1>2. EditKept
  BY <1>1 DEF EditKept
<1>3. CASE Done(h) /\ (call[h].pc \in {"check", "verify"} \/ call[h].op = "continue")
  <2>1. ~In(s, {"merging"})
    <3>1. call[h].pc = "check" \/ call[h].op # "merge"
      BY <1>1, <1>3, OpOf
    <3> QED BY <1>1, <3>1, Merging
  <2>2. ~In(s, {"merging"})' /\ (In(s, {"needs_resolution"})' => edit # "staged")
    BY <1>1, <2>1 DEF In, Mindful, Minded
  <2> QED BY <1>1, <1>2, <1>3, <2>2, EditEnds
<1>4. ASSUME NEW pc \in {"unmake", "undo", "retreat"}, Goto(h, pc),
             pc = "retreat" => edit # "staged"
      PROVE  Mindful(h, s)'
  <2>1. pc \in Pc /\ pc \notin RootedPcs
    BY DEF Pc, RootedPcs
  <2> QED BY <1>1, <1>2, <1>4, <2>1, EditGoes
<1>5. CASE \E pc \in {"unmake", "undo", "retreat"} : Goto(h, pc) /\ (pc = "retreat" => At(h, "look"))
  <2>1. At(h, "look") => edit # "staged"
    BY <1>1 DEF Mindful, Unstaged, At
  <2> QED BY <1>2, <1>4, <1>5, <2>1
<1>6. \/ \E pc \in {"unmake", "undo", "retreat"} : Goto(h, pc) /\ (pc = "retreat" => At(h, "look"))
      \/ Done(h) /\ (call[h].pc \in {"check", "verify"} \/ call[h].op = "continue")
  BY DEF GitFails
<1> QED BY <1>2, <1>3, <1>5, <1>6

\* The active row leaves the statuses of a merge.
LEMMA MovedOut ==
  ASSUME row \in Rows, NEW s \in Sessions, OneLive(s), NEW to \in {"merged", "dirty"},
         \/ CanMove(s, to) /\ (Move(s, to) \/ MoveClearing(s, ActiveRow(s), to))
         \/ ~CanMove(s, to) /\ UNCHANGED row
  PROVE  ~In(s, {"merging"})' /\ ~In(s, {"needs_resolution"})'
<1>1. row \in [Sessions -> [RowIds -> Row]]
  BY DEF Rows
<1>2. CASE CanMove(s, to) /\ (Move(s, to) \/ MoveClearing(s, ActiveRow(s), to))
  <2>1. PICK a \in RowIds : /\ a = ActiveRow(s)
                            /\ \A j \in RowIds : row[s][j].status \in Live => j = a
    BY <1>2, ActiveIsLive DEF CanMove
  <2>2. SetStatus(s, a, to) \/ MoveClearing(s, a, to)
    BY <1>2, <2>1 DEF Move
  <2>3. \A j \in RowIds \ {a} : row'[s][j] = row[s][j]
    BY <1>1, <2>2 DEF SetStatus, MoveClearing
  <2>4. row'[s][a].status = to
    <3>1. row[s][a] \in Row
      BY <1>1
    <3>2. CASE SetStatus(s, a, to)
      BY <1>1, <3>1, <3>2 DEF SetStatus, Row
    <3>3. CASE MoveClearing(s, a, to)
      <4>1. row'[s] = [row[s] EXCEPT ![a] = [row[s][a] EXCEPT !.status = to, !.squash = FALSE]]
        BY <1>1, <3>3 DEF MoveClearing
      <4> QED BY <1>1, <3>1, <4>1 DEF Row
    <3> QED BY <2>2, <3>2, <3>3
  <2> QED BY <2>1, <2>3, <2>4 DEF In, Live
<1>3. CASE ~CanMove(s, to) /\ UNCHANGED row
  <2>1. ASSUME NEW i \in RowIds, row[s][i].status \in {"merging", "needs_resolution"}
        PROVE  FALSE
    <3>1. ActiveRow(s) # NoRow /\ ActiveStatus(s) \in {"merging", "needs_resolution"}
      BY <2>1, ActiveOne DEF Live
    <3> QED BY <1>3, <3>1 DEF CanMove, Allowed, Edges
  <2> QED BY <1>3, <2>1 DEF In
<1> QED BY <1>2, <1>3

LEMMA MarkEdits ==
  ASSUME EInv, "tipfault" \notin Events, NEW h \in Handlers, NEW s, s = call[h].s,
         \/ ReadTip(h) \/ MarkMerged(h) \/ RecordCursor(h) \/ MarkConflicted(h) \/ Undo(h)
         \/ Verify(h) \/ ResetBase(h)
  PROVE  Mindful(h, s)' /\ EditKept
<1>1. /\ TypeOK /\ s \in Sessions /\ Placed(h) /\ Mindful(h, s) /\ OneLive(s) /\ OfHandler(h)
      /\ call[h] \in Call /\ call \in [Handlers -> Call] /\ row \in Rows
      /\ row \in [Sessions -> [RowIds -> Row]] /\ tip \in [Sessions -> NoBranch..MaxCommits]
  BY EditStart
<1>2. UNCHANGED edit
  <2>1. CASE ResetBase(h)
    <3>1. edit # "staged" /\ call[h].squash
      BY <1>1, <2>1 DEF ResetBase, At, Mindful, Unstaged, Squashing
    <3> QED BY <2>1, <3>1 DEF ResetBase, ResetMerge, base
  <2> QED BY <2>1 DEF ReadTip, MarkMerged, RecordCursor, MarkConflicted, Undo, Verify,
                      NoGit, base
<1>3. EditKept
  BY <1>2 DEF EditKept
<1>4. ~At(h, "free")
  BY DEF ReadTip, MarkMerged, RecordCursor, MarkConflicted, Undo, Verify, ResetBase, At
<1>5. call[h].op # "merge" \/ call[h].pc = "cursor" => ~In(s, {"merging"})
  BY <1>1, <1>4, Merging
<1>6. In(s, {"needs_resolution"}) => edit # "staged"
  BY <1>1 DEF Mindful, Minded
<1>7. CASE ReadTip(h)
  <2>1. UNCHANGED <<row, tip>> /\ call[h].pc = "tip"
    BY <1>7 DEF ReadTip, NoGit, At
  <2>2. CASE Goto(h, "mark")
    BY <1>3, <1>4, <2>1, <2>2, EditGoes DEF Pc, RootedPcs
  <2>3. CASE tip[s] = NoBranch /\ Done(h)
    <3>1. ~In(s, {"merging"})
      BY <1>1, <1>5, <2>1, <2>3 DEF Mindful, Rooted, RootedPcs
    <3>2. ~In(s, {"merging"})' /\ (In(s, {"needs_resolution"})' => edit # "staged")
      BY <1>6, <2>1, <3>1 DEF In
    <3> QED BY <1>2, <1>3, <2>3, <3>2, EditEnds
  <2>4. CASE tip[s] # NoBranch /\ call' = [call EXCEPT ![h].pc = "mark", ![h].upto = tip[s]]
    <3>1. PICK n \in 0..MaxCommits : n = tip[s]
      BY <1>1, <2>4, WorktreeAssumption DEF NoBranch
    <3>2. [call[h] EXCEPT !.pc = "mark", !.upto = n] \in Call
      BY <1>1 DEF Call, Pc
    <3>3. PICK c \in Call : c = [call[h] EXCEPT !.pc = "mark", !.upto = n]
      BY <3>2
    <3>4. c.s = s /\ c.op = call[h].op /\ c.pc = "mark" /\ call' = [call EXCEPT ![h] = c]
      BY <1>1, <2>4, <3>1, <3>3 DEF Call
    <3> QED BY <1>3, <1>4, <2>1, <3>4, EditWalks DEF RootedPcs
  <2> QED BY <1>7, <2>2, <2>3, <2>4 DEF ReadTip, Spend
<1>8. CASE MarkMerged(h)
  <2>1. \/ CanMove(s, "merged") /\ Move(s, "merged")
        \/ ~CanMove(s, "merged") /\ UNCHANGED row
    BY <1>8 DEF MarkMerged
  <2>2. ~In(s, {"merging"})' /\ ~In(s, {"needs_resolution"})'
    BY <1>1, <2>1, MovedOut
  <2>3. CASE Done(h)
    BY <1>2, <1>3, <2>2, <2>3, EditEnds
  <2>4. CASE call' = [call EXCEPT ![h].pc = "cursor", ![h].row = ActiveRow(s)]
    <3>1. call'[h].pc = "cursor"
      BY <1>1, <2>4 DEF Call
    <3> QED BY <1>3, <2>2, <3>1
            DEF Mindful, Unstaged, Squashing, Rooted, RootedPcs, Minded
  <2> QED BY <1>8, <2>3, <2>4 DEF MarkMerged
<1>9. CASE RecordCursor(h)
  <2>1. Done(h) /\ call[h].pc = "cursor"
    BY <1>9 DEF RecordCursor, At
  <2>2. PICK i \in RowIds : i = call[h].row
    BY <1>1, <2>1 DEF OfHandler, Named, RowPcs
  <2>3. \A j \in RowIds : row'[s][j].status = row[s][j].status
    <3>1. row[s][i] \in Row
      BY <1>1
    <3>2. CASE row' = [row EXCEPT ![s][i].cursor = call[h].upto]
      BY <1>1, <3>1, <3>2 DEF Row
    <3> QED BY <1>9, <2>2, <3>2 DEF RecordCursor
  <2>4. ~In(s, {"merging"})' /\ (In(s, {"needs_resolution"})' => edit # "staged")
    BY <1>5, <1>6, <2>1, <2>3 DEF In
  <2> QED BY <1>2, <1>3, <2>1, <2>4, EditEnds
<1>10. CASE MarkConflicted(h)
  <2>1. Done(h) /\ call[h].pc = "conflicted" /\ edit # "staged"
    BY <1>1, <1>10 DEF MarkConflicted, At, Mindful, Unstaged
  <2>2. PICK a \in RowIds : row[s][a].status = "merging"
    BY <1>1, <2>1, OpOf DEF Placed, In
  <2>3. ActiveRow(s) = a /\ ActiveStatus(s) = "merging" /\ a # NoRow
    BY <1>1, <2>2, ActiveOne DEF Live
  <2>4. SetStatus(s, a, "needs_resolution")
    BY <1>10, <2>3 DEF MarkConflicted, CanMove, Allowed, Edges, Move
  <2>5. /\ row'[s][a].status = "needs_resolution"
        /\ \A j \in RowIds \ {a} : row'[s][j] = row[s][j]
    <3>1. row[s][a] \in Row
      BY <1>1
    <3> QED BY <1>1, <2>4, <3>1 DEF SetStatus, Row
  <2>6. ~In(s, {"merging"})'
    BY <1>1, <2>2, <2>5 DEF In, OneLive, Live
  <2> QED BY <1>2, <1>3, <2>1, <2>6, EditEnds
<1>11. CASE Undo(h)
  <2>1. \/ CanMove(s, "dirty") /\ MoveClearing(s, ActiveRow(s), "dirty")
        \/ ~CanMove(s, "dirty") /\ UNCHANGED row
    BY <1>11 DEF Undo
  <2>2. ~In(s, {"merging"})' /\ ~In(s, {"needs_resolution"})'
    BY <1>1, <2>1, MovedOut
  <2> QED BY <1>2, <1>3, <1>11, <2>2, EditEnds DEF Undo
<1>12. CASE Verify(h) \/ ResetBase(h)
  <2>1. UNCHANGED <<row, tip>> /\ call[h].pc \in {"verify", "reset"}
    BY <1>12 DEF Verify, ResetBase, NoGit, At
  <2>2. edit # "staged" /\ call[h].op # "merge"
    BY <1>1, <2>1, OpOf DEF Mindful, Unstaged
  <2>3. CASE Done(h)
    <3>1. ~In(s, {"merging"})' /\ (In(s, {"needs_resolution"})' => edit # "staged")
      BY <1>5, <2>1, <2>2 DEF In
    <3> QED BY <1>2, <1>3, <2>3, <3>1, EditEnds
  <2>4. ASSUME NEW pc \in {"look", "commit", "undo"}, Goto(h, pc)
        PROVE  Mindful(h, s)'
    <3>1. pc \in Pc
      BY DEF Pc
    <3> QED BY <1>2, <1>3, <1>4, <2>1, <2>2, <2>4, <3>1, EditGoes
  <2> QED BY <1>3, <1>12, <2>3, <2>4 DEF Verify, ResetBase
<1> QED BY <1>7, <1>8, <1>9, <1>10, <1>11, <1>12

LEMMA RequestEdits ==
  ASSUME EInv, OneAtATime, NEW h \in Handlers, NEW s \in Sessions, Requests(h, s)
  PROVE  Mindful(h, s)' /\ UNCHANGED edit
<1>1. /\ TypeOK /\ OneLive(s) /\ row \in Rows /\ call \in Calls /\ Minded(s) /\ Fresh(s)
      /\ row \in [Sessions -> [RowIds -> Row]]
  BY SessionStart DEF EInv, Rows
<1>2. UNCHANGED <<tip, base>> /\ ~Serving(s)
  BY RequestApart DEF EInv, MInv
<1>3. PICK c \in Call : call' = [call EXCEPT ![h] = c] /\ c.s = s /\ Asked(s, c)
  BY RequestForms DEF EInv, MInv
<1>4. call'[h] = c
  BY <1>1, <1>3 DEF Calls
<1>5. ~In(s, {"merging"})
  BY <1>2, Merging
<1>6. CASE c.pc \in {"verify", "reset"}
  <2>1. /\ UNCHANGED row /\ c.op \in {"continue", "abort"} /\ ActiveStatus(s) \in Being
        /\ c.pc = "reset" => /\ ActiveRow(s) \in RowIds
                             /\ c.squash = row[s][ActiveRow(s)].squash
    BY <1>3, <1>6 DEF Asked, BeingMerged, Being
  <2>2. ActiveStatus(s) = "needs_resolution" /\ In(s, {"needs_resolution"})
    <3>1. ActiveStatus(s) # "merging"
      BY <1>1, <1>5, ActiveIn DEF Live
    <3>2. ActiveStatus(s) = "needs_resolution"
      BY <2>1, <3>1 DEF Being
    <3> QED BY <1>1, <3>2, ActiveIn DEF Live
  <2>3. c.pc = "reset" => c.squash
    <3>1. c.pc = "reset" => row[s][ActiveRow(s)].status = "needs_resolution"
      BY <2>1, <2>2 DEF ActiveStatus
    <3> QED BY <1>1, <2>1, <3>1 DEF Fresh
  <2>4. edit # "staged" /\ UNCHANGED edit
    BY <1>1, <1>2, <2>2 DEF Minded, base
  <2>5. Unstaged(h)' /\ Squashing(h)' /\ Rooted(h)'
    BY <1>4, <2>1, <2>3, <2>4 DEF Unstaged, Squashing, Rooted
  <2>6. Minded(s)'
    BY <1>5, <2>1, <2>4 DEF Minded, In
  <2> QED BY <2>4, <2>5, <2>6 DEF Mindful
<1>7. CASE c.pc \notin {"verify", "reset"}
  <2>1. Unstaged(h)' /\ Squashing(h)' /\ Rooted(h)'
    BY <1>3, <1>4, <1>7 DEF Asked, Unstaged, Squashing, Rooted, RootedPcs
  <2>2. \A S \in {{"merging"}, {"needs_resolution"}} : In(s, S)' => In(s, S)
    <3> SUFFICES ASSUME NEW S \in {{"merging"}, {"needs_resolution"}}, In(s, S)' PROVE In(s, S)
      OBVIOUS
    <3>1. CASE c.row \in RowIds
                 /\ row' = [row EXCEPT ![s][c.row] = [NoneRow EXCEPT !.status = "creating"]]
      <4>1. /\ row'[s][c.row].status = "creating"
            /\ \A j \in RowIds \ {c.row} : row'[s][j] = row[s][j]
        BY <1>1, <3>1 DEF NoneRow
      <4> QED BY <4>1 DEF In
    <3>2. CASE Refresh(s)
      <4>1. UNCHANGED row \/ \E i \in RowIds : SetStatus(s, i, "dirty")
        BY <3>2, LatestIsRow DEF Refresh
      <4> QED BY <1>1, <4>1, NotIn
    <3>3. CASE \E i \in RowIds : SetStatus(s, i, "cleanup_pending")
      BY <1>1, <3>3, NotIn
    <3>4. CASE UNCHANGED row
      BY <3>4 DEF In
    <3> QED BY <1>3, <3>1, <3>2, <3>3, <3>4 DEF Asked
  <2>3. Minded(s)'
    BY <1>1, <1>2, <1>5, <2>2 DEF Minded, base
  <2> QED BY <1>2, <2>1, <2>3 DEF Mindful, base
<1> QED BY <1>6, <1>7

LEMMA OutsideEdits ==
  ASSUME EInv, MInv', "latestage" \notin Events, Outside
  PROVE  EInv' /\ (edit \in Kept => edit' \in Kept)
<1>1. /\ TypeOK /\ row \in Rows /\ row \in [Sessions -> [RowIds -> Row]]
      /\ tip \in [Sessions -> NoBranch..MaxCommits]
      /\ \A g \in Handlers : Placed(g) /\ Unstaged(g) /\ Squashing(g) /\ Rooted(g)
                             /\ call[g].s \in Sessions
      /\ \A s \in Sessions : OneLive(s) /\ Minded(s)
  BY DEF EInv, MInv, IInv, TypeOK, Rows, OfSession, Call
<1>2. UNCHANGED call
  BY <1>1, OutsideRows
<1>3. \A t \in Sessions, S \in {{"merging"}, {"needs_resolution"}} : In(t, S)' => In(t, S)
  <2>1. CASE UNCHANGED row
    BY <2>1 DEF In
  <2>2. ASSUME NEW s \in Sessions, Poll(s), NEW t \in Sessions,
               NEW S \in {{"merging"}, {"needs_resolution"}}, In(t, S)'
        PROVE  In(t, S)
    <3>1. PICK k \in RowIds :
           /\ row[s][k].status = "merged" /\ row'[s][k] = [row[s][k] EXCEPT !.status = "dirty"]
           /\ \A j \in RowIds \ {k} : row'[s][j] = row[s][j]
           /\ \A u \in Sessions \ {s} : row'[u] = row[u]
      BY <1>1, <2>2, PollApart
    <3>2. row'[s][k].status = "dirty" /\ "dirty" \notin S
      BY <1>1, <2>2, <3>1 DEF Row
    <3> QED BY <2>2, <3>1, <3>2 DEF In
  <2> QED BY <1>1, <2>1, <2>2, OutsideRows
<1>4. \A t \in Sessions : tip[t] # NoBranch => tip'[t] # NoBranch
  <2>1. ASSUME NEW s \in Sessions, AgentCommits(s), NEW t \in Sessions, tip[t] # NoBranch
        PROVE  tip'[t] # NoBranch
    <3>1. CASE t = s
      <4>1. tip'[s] = tip[s] + 1 /\ tip[s] \in 0..(MaxCommits - 1)
        BY <1>1, <2>1 DEF AgentCommits
      <4> QED BY <3>1, <4>1, WorktreeAssumption DEF NoBranch
    <3>2. CASE t # s
      BY <1>1, <2>1, <3>2 DEF AgentCommits
    <3> QED BY <3>1, <3>2
  <2>2. (\E s \in Sessions : AgentCommits(s)) \/ UNCHANGED tip
    BY DEF Outside, Poll, Resolve, UserEdits, UserStages, NoGit, vars
  <2> QED BY <2>1, <2>2
<1>5. \/ UNCHANGED edit
      \/ edit \notin Kept /\ edit' = "loose"
      \/ /\ edit' = "staged" /\ edit = "loose"
         /\ \A s \in Sessions : ~In(s, Being)
  <2>1. CASE UserStages
    <3>1. \A s \in Sessions : ~BeingMerged(s)
      BY <2>1 DEF UserStages, Spend
    <3> QED BY <1>1, <2>1, <3>1, BeingIn DEF UserStages
  <2>2. CASE UserEdits
    BY <2>2 DEF UserEdits, Kept
  <2> QED BY <2>1, <2>2
          DEF Outside, Poll, AgentCommits, Resolve, NoGit, vars, base
<1>6. ASSUME NEW g \in Handlers PROVE Unstaged(g)' /\ Squashing(g)' /\ Rooted(g)'
  <2>1. Squashing(g)' /\ Rooted(g)'
    BY <1>1, <1>2, <1>4 DEF Squashing, Rooted
  <2>2. CASE edit' # "staged" \/ UNCHANGED edit
    BY <1>1, <1>2, <2>1, <2>2 DEF Unstaged
  <2>3. CASE \A s \in Sessions : ~In(s, Being)
    <3>1. call[g].pc \notin {"apply", "list", "look", "commit", "retreat", "conflicted",
                            "verify", "reset"}
      <4>1. \A s \in Sessions : ~In(s, {"merging"}) /\ ~In(s, {"needs_resolution"})
        BY <2>3 DEF In, Being
      <4> QED BY <1>1, <2>3, <4>1, OpOf DEF Placed
    <3> QED BY <1>2, <2>1, <3>1 DEF Unstaged
  <2> QED BY <1>5, <2>2, <2>3
<1>7. ASSUME NEW t \in Sessions PROVE Minded(t)'
  <2>1. In(t, {"merging"})' => In(t, {"merging"})
    BY <1>3
  <2>2. In(t, {"needs_resolution"})' => In(t, {"needs_resolution"})
    BY <1>3
  <2>3. In(t, {"needs_resolution"})' => edit' # "staged"
    BY <1>1, <1>5, <2>2 DEF Minded, In, Being
  <2> QED BY <1>1, <1>2, <2>1, <2>3 DEF Minded
<1>8. edit \in Kept => edit' \in Kept
  BY <1>5 DEF Kept
<1> QED BY <1>6, <1>7, <1>8 DEF EInv

Careful == OneAtATime /\ Events \cap {"abandon", "latestage", "tipfault"} = {}

LEMMA EditsKept ==
  ASSUME Careful, EInv, [Next]_vars
  PROVE  EInv' /\ (edit \in Kept => edit' \in Kept)
<1>1. /\ OneAtATime /\ "abandon" \notin Events /\ "latestage" \notin Events
      /\ "tipfault" \notin Events
  BY DEF Careful
<1>2. MInv /\ MInv' /\ IInv
  BY <1>1, MergeKept DEF EInv, MInv
<1>3. EditKept => (edit \in Kept => edit' \in Kept)
  BY DEF EditKept, Kept
<1>4. UNCHANGED edit => EditKept
  BY DEF EditKept
<1>5. ASSUME NEW h \in Handlers, Step(h) PROVE EInv' /\ EditKept
  <2>1. PICK s \in Sessions : s = call[h].s /\ Only(h, s)
    BY <1>2, <1>5, StepApart
  <2>2. Mindful(h, s)' /\ EditKept
    <3>1. CASE Make(h) \/ Clean(h)
      BY <1>4, <2>1, <3>1, AshoreEdits
    <3>2. CASE Merge(h)
      BY <1>1, <2>1, <3>2, PatchEdits, ApplyEdits, GitFailsEdits, MarkEdits DEF Merge
    <3> QED BY <1>5, <3>1, <3>2 DEF Step
  <2> QED BY <1>2, <2>1, <2>2, EditLocally
<1>6. ASSUME NEW h \in Handlers, Abandon(h) PROVE EInv' /\ EditKept
  <2>1. PICK s \in Sessions : s = call[h].s /\ Only(h, s)
    BY <1>2, <1>6, StepApart
  <2>2. UNCHANGED <<row, edit>> /\ Done(h) /\ call[h].op = "abort" /\ ~At(h, "free")
    BY <1>1, <1>6 DEF Abandon, Spend, base
  <2>3. ~In(s, {"merging"}) /\ Minded(s)
    BY <2>1, <2>2, Merging DEF EInv
  <2>4. ~In(s, {"merging"})' /\ (In(s, {"needs_resolution"})' => edit # "staged")
    BY <2>2, <2>3 DEF In, Minded
  <2>5. Mindful(h, s)'
    BY <2>1, <2>2, <2>4, EditEnds
  <2> QED BY <1>2, <1>4, <2>1, <2>2, <2>5, EditLocally
<1>7. ASSUME NEW h \in Handlers, NEW s \in Sessions, Requests(h, s) PROVE EInv' /\ EditKept
  <2>1. Only(h, s)
    BY <1>1, <1>2, <1>7, RequestApart
  <2> QED BY <1>1, <1>2, <1>4, <1>7, <2>1, RequestEdits, EditLocally
<1>8. CASE Outside
  BY <1>1, <1>2, <1>8, OutsideEdits
<1> QED BY <1>3, <1>5, <1>6, <1>7, <1>8 DEF Next, Outside

\* No step of a merge loses or commits what the user has edited in the base
\* workspace, whichever other step fails or conflicts, where no merge is left
\* at "merging" with nobody at work, by a request that is dropped or that
\* cannot read the branch after its commit, and the user stages nothing while a
\* session is being merged (worktree_manager.rs, unstage_pre_merge_dirty_paths
\* and the resets).
THEOREM EditsAreKept == Careful => (Spec => EditsStay)
<1> SUFFICES ASSUME Careful PROVE Spec => EditsStay
  OBVIOUS
<1> DEFINE A == (edit \in Kept) => (edit' \in Kept)
<1>1. Init => EInv
  <2> SUFFICES ASSUME Init PROVE EInv
    OBVIOUS
  <2>1. MInv /\ \A h \in Handlers : call[h].pc = "free"
    BY InitMerge DEF Init, Free
  <2>2. \A h \in Handlers : Unstaged(h) /\ Squashing(h) /\ Rooted(h)
    BY <2>1 DEF Unstaged, Squashing, Rooted, RootedPcs
  <2>3. \A s \in Sessions : Minded(s)
    BY DEF Init, NoneRow, Minded, In
  <2> QED BY <2>1, <2>2, <2>3 DEF EInv
<1>2. EInv /\ [Next]_vars => EInv'
  BY EditsKept
<1>3. EInv /\ [Next]_vars => [A]_vars
  BY EditsKept
<1>4. EditsStay <=> [][A]_vars
  BY DEF EditsStay
<1> QED BY <1>1, <1>2, <1>3, PTL DEF Spec, EditsStay
===============================================================================
