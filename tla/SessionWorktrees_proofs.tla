---------------------- MODULE SessionWorktrees_proofs ----------------------
(* For any sessions, requests and commits: every variable keeps its type, a  *)
(* worktree that a row says is in use is there, and a run finds the          *)
(* worktree it is sent to.  What is assumed of the environment throughout    *)
(* is that a session has one request or run start under way at a time; each  *)
(* theorem names what else it needs.                                         *)
(*                                                                           *)
(* The argument.  A session has at most one row that is live, and at most    *)
(* one handler (Alone).  The directory and the branch are removed only at    *)
(* "remove" and "unbranch", and by then that row has left the statuses in    *)
(* which the worktree is in use (Cleaning): a discard moves it first, a      *)
(* retry finds none.  A row enters those statuses only from "activate",      *)
(* where the directory and the branch are known to be there (Making), or     *)
(* from one another.                                                         *)
EXTENDS SessionWorktrees, FiniteSetTheorems, TLAPS

\* A session has one request or run start under way at a time; a deletion, once
\* begun, is not cut short.
OneAtATime == "twice" \notin Events
Whole ==
  "delete" \in Events => Events \cap {"abandon", "branchfault", "wipefault"} = {}

\* The worktree is there.
InUse == ForWorkspace \ {"creating"}
There(s) == dir[s] = "worktree" /\ tip[s] # NoBranch

\* What holds of a session.
OneLive(s) ==
  \A i, j \in RowIds :
    row[s][i].status \in Live /\ row[s][j].status \in Live => i = j
Intact(s) ==
  Whole /\ (\E i \in RowIds : row[s][i].status \in InUse) /\ ~BeingDeleted(s)
    => There(s)

MakePcs == {"branch", "add", "activate", "unmake"}
Attended(s) ==
  "abandon" \notin Events =>
    \A i \in RowIds : row[s][i].status = "creating" =>
      \E h \in Handlers :
        call[h].s = s /\ call[h].pc \in MakePcs /\ call[h].row = i

\* What holds of a handler.
Making(h) ==
  /\ At(h, "add") => tip[call[h].s] # NoBranch
  /\ At(h, "activate") => There(call[h].s)
Cleaning(h) ==
  call[h].pc \in {"remove", "unbranch"} =>
    \A i \in RowIds : row[call[h].s][i].status \notin InUse
DeletePcs == {"wipe", "wipebranch", "cascade"}
Deleting(h) ==
  /\ call[h].op = "delete" => call[h].pc \in DeletePcs /\ "delete" \in Events
  /\ call[h].pc \in DeletePcs => call[h].op = "delete"
  /\ At(h, "wipebranch") => dir[call[h].s] # "worktree"
Starting(h) ==
  "abandon" \notin Events /\ Whole /\ At(h, "start") /\ call[h].path = "worktree"
    => dir[call[h].s] = "worktree"
RowPcs == MakePcs \cup {"note", "cursor", "remove", "fail", "unbranch", "archive"}
Named(h) == call[h].pc \in RowPcs => call[h].row \in RowIds

Alone ==
  \A h, g \in Handlers :
    call[h].s = call[g].s /\ ~At(h, "free") /\ ~At(g, "free") => h = g

OfSession(s) == OneLive(s) /\ Intact(s) /\ Attended(s)
OfHandler(h) == Making(h) /\ Cleaning(h) /\ Deleting(h) /\ Starting(h) /\ Named(h)
IInv ==
  /\ TypeOK
  /\ Alone
  /\ \A s \in Sessions : OfSession(s)
  /\ \A h \in Handlers : OfHandler(h)

-------------------------------------------------------------------------------
(* Facts about rows. *)

\* A set of rows that is not empty has a latest one.
LEMMA HasLatest ==
  ASSUME NEW T \in SUBSET RowIds, T # {}
  PROVE  \E i \in T : \A j \in T : j <= i
<1> DEFINE Above(i) == {j \in T : j > i}
           All == {Above(i) : i \in T}
<1>1. All \subseteq FiniteSubsetsOf(RowIds) /\ All # {}
  <2>1. IsFiniteSet(RowIds)
    BY WorktreeAssumption, FS_Interval DEF RowIds
  <2>2. \A i \in T : Above(i) \in SUBSET RowIds /\ IsFiniteSet(Above(i))
    BY <2>1, FS_Subset
  <2> QED BY <2>2 DEF FiniteSubsetsOf
<1>2. IsWellFoundedOn(StrictSubsetOrdering(RowIds), FiniteSubsetsOf(RowIds))
  BY FS_StrictSubsetOrderingWellFounded
<1>3. PICK X \in All : \A Y \in All : ~(<<Y, X>> \in StrictSubsetOrdering(RowIds))
  BY <1>1, <1>2, WFMin
<1>4. PICK i \in T : X = Above(i)
  BY <1>3
<1>5. ASSUME NEW j \in T, ~(j <= i) PROVE FALSE
  <2>1. i \in Int /\ j \in Int /\ T \subseteq Int
    BY WorktreeAssumption DEF RowIds
  <2>2. j > i /\ ~(j > j)
    BY <1>5, <2>1
  <2>3. \A k \in T : k > j => k > i
    BY <2>1, <2>2
  <2>4. Above(j) \subseteq Above(i) /\ Above(j) # Above(i)
    BY <2>2, <2>3
  <2>5. <<Above(j), X>> \in StrictSubsetOrdering(RowIds)
    BY <2>4, <1>4 DEF StrictSubsetOrdering
  <2> QED BY <2>5, <1>3
<1> QED BY <1>4, <1>5

\* The live row is the one find_active_by_session finds, and the only one.
LEMMA ActiveIsLive ==
  ASSUME NEW s \in Sessions, OneLive(s)
  PROVE  /\ LiveRows(s) = {} => ActiveRow(s) = NoRow
         /\ ActiveRow(s) # NoRow =>
              /\ ActiveRow(s) \in RowIds /\ ActiveStatus(s) \in Live
              /\ ActiveStatus(s) = row[s][ActiveRow(s)].status
              /\ \A i \in RowIds : row[s][i].status \in Live => i = ActiveRow(s)
<1>1. CASE LiveRows(s) = {}
  BY <1>1 DEF ActiveRow, NoRow
<1>2. CASE LiveRows(s) # {}
  <2>1. \E i \in LiveRows(s) : \A j \in LiveRows(s) : j <= i
    BY <1>2, HasLatest DEF LiveRows
  <2>2. ActiveRow(s) \in LiveRows(s)
    BY <1>2, <2>1 DEF ActiveRow
  <2>3. ActiveRow(s) \in RowIds /\ row[s][ActiveRow(s)].status \in Live
    BY <2>2 DEF LiveRows
  <2>4. \A i \in RowIds : row[s][i].status \in Live => i = ActiveRow(s)
    BY <2>3 DEF OneLive
  <2>5. ActiveRow(s) # NoRow
    BY <2>3, WorktreeAssumption DEF RowIds, NoRow
  <2> QED BY <1>2, <2>3, <2>4, <2>5 DEF ActiveStatus
<1> QED BY <1>1, <1>2

LEMMA LatestIsRow ==
  ASSUME NEW s \in Sessions
  PROVE  Latest(s) \in RowIds \cup {NoRow}
<1>1. CASE Used(s) = {}
  BY <1>1 DEF Latest
<1>2. CASE Used(s) # {}
  <2>1. \E i \in Used(s) : \A j \in Used(s) : j <= i
    BY <1>2, HasLatest DEF Used
  <2> QED BY <1>2, <2>1 DEF Latest, Used
<1> QED BY <1>1, <1>2

LEMMA FailedIsRow ==
  ASSUME NEW s \in Sessions, Failed(s) # {}
  PROVE  LatestFailed(s) \in RowIds /\ row[s][LatestFailed(s)].status = "cleanup_failed"
<1>1. \E i \in Failed(s) : \A j \in Failed(s) : j <= i
  BY HasLatest DEF Failed
<1> QED BY <1>1 DEF LatestFailed, Failed

\* A row that is created is the next one.
LEMMA NewIsRow ==
  ASSUME NEW s \in Sessions, CanCreate(s)
  PROVE  NewRow(s) \in RowIds
BY LatestIsRow, WorktreeAssumption DEF CanCreate, NewRow, RowIds, NoRow

-------------------------------------------------------------------------------
(* Types. *)

Rows  == [Sessions -> [RowIds -> Row]]
Calls == [Handlers -> Call]

\* What is written to a row, a call and the base workspace has its type.
LEMMA RowTypes ==
  ASSUME TypeOK, NEW s \in Sessions, NEW i
  PROVE  /\ \A to \in Status : [row EXCEPT ![s][i].status = to] \in Rows
         /\ \A to \in Status :
              [row EXCEPT ![s][i].status = to, ![s][i].squash = FALSE] \in Rows
         /\ [row EXCEPT ![s][i].squash = TRUE] \in Rows
         /\ \A n \in 0..MaxCommits : [row EXCEPT ![s][i].cursor = n] \in Rows
         /\ [row EXCEPT ![s][i] = [NoneRow EXCEPT !.status = "creating"]] \in Rows
         /\ [row EXCEPT ![s] = [j \in RowIds |-> NoneRow]] \in Rows
<1>1. 0 \in 0..MaxCommits
  BY WorktreeAssumption
<1>2. NoneRow \in Row /\ [NoneRow EXCEPT !.status = "creating"] \in Row
  BY <1>1 DEF NoneRow, Row, Status
<1>3. row \in Rows
  BY DEF TypeOK, Rows
<1>4. [row EXCEPT ![s][i] = [NoneRow EXCEPT !.status = "creating"]] \in Rows
  BY <1>2, <1>3 DEF Rows
<1>5. [row EXCEPT ![s] = [j \in RowIds |-> NoneRow]] \in Rows
  BY <1>2, <1>3 DEF Rows
<1>6. CASE i \in RowIds
  <2>1. row[s][i] \in Row
    BY <1>3, <1>6 DEF Rows
  <2>2. /\ \A to \in Status : [row[s][i] EXCEPT !.status = to] \in Row
        /\ \A to \in Status : [row[s][i] EXCEPT !.status = to, !.squash = FALSE] \in Row
        /\ [row[s][i] EXCEPT !.squash = TRUE] \in Row
        /\ \A n \in 0..MaxCommits : [row[s][i] EXCEPT !.cursor = n] \in Row
    BY <2>1 DEF Row
  <2>3. \A r \in Row : [row EXCEPT ![s] = [row[s] EXCEPT ![i] = r]] \in Rows
    BY <1>3, <1>6 DEF Rows
  <2>4. \A to \in Status : [row EXCEPT ![s][i].status = to] \in Rows
    BY <2>2, <2>3
  <2>5. \A to \in Status :
          [row EXCEPT ![s][i].status = to, ![s][i].squash = FALSE] \in Rows
    <3>1. TAKE to \in Status
    <3>2. [row EXCEPT ![s][i].status = to, ![s][i].squash = FALSE]
            = [row EXCEPT ![s] = [row[s] EXCEPT ![i] =
                 [row[s][i] EXCEPT !.status = to, !.squash = FALSE]]]
      BY <1>3, <1>6 DEF Rows
    <3> QED BY <2>2, <2>3, <3>2
  <2>6. [row EXCEPT ![s][i].squash = TRUE] \in Rows
    BY <2>2, <2>3
  <2>7. \A n \in 0..MaxCommits : [row EXCEPT ![s][i].cursor = n] \in Rows
    BY <2>2, <2>3
  <2> QED BY <1>4, <1>5, <2>4, <2>5, <2>6, <2>7
<1>7. CASE i \notin RowIds
  <2>1. \A r : [row[s] EXCEPT ![i] = r] = row[s]
    BY <1>3, <1>7 DEF Rows
  <2>2. [row EXCEPT ![s] = row[s]] = row
    BY <1>3 DEF Rows
  <2>3. \A to, x, y : /\ [row EXCEPT ![s][i].status = to] = row
                      /\ [row EXCEPT ![s][i].squash = x] = row
                      /\ [row EXCEPT ![s][i].cursor = y] = row
    BY <2>1, <2>2
  <2>4. \A to : [row EXCEPT ![s][i].status = to, ![s][i].squash = FALSE] = row
    BY <1>3, <1>7, <2>3 DEF Rows
  <2> QED BY <1>3, <1>4, <1>5, <2>3, <2>4
<1> QED BY <1>6, <1>7

LEMMA CallTypes ==
  ASSUME TypeOK, NEW h \in Handlers
  PROVE  /\ \A s \in Sessions : Free(s) \in Call
         /\ \A c \in Call : [call EXCEPT ![h] = c] \in Calls
         /\ \A pc \in Pc : [call EXCEPT ![h].pc = pc] \in Calls
         /\ [call EXCEPT ![h] = Free(call[h].s)] \in Calls
<1>1. \A s \in Sessions : Free(s) \in Call
  <2>1. 0 \in 0..MaxCommits /\ {} \in SUBSET Commits
    BY WorktreeAssumption
  <2> QED BY <2>1 DEF Free, Call, Pc, NoRow
<1>2. call \in Calls
  BY DEF TypeOK, Calls
<1>3. \A c \in Call : [call EXCEPT ![h] = c] \in Calls
  BY <1>2 DEF Calls
<1>4. \A pc \in Pc : [call EXCEPT ![h].pc = pc] \in Calls
  BY <1>2 DEF Calls, Call
<1>5. call[h].s \in Sessions
  BY <1>2 DEF Calls, Call
<1> QED BY <1>1, <1>3, <1>4, <1>5

LEMMA NewCallType ==
  ASSUME TypeOK, NEW s \in Sessions, NEW i \in RowIds \cup {NoRow}, NEW pc \in Pc,
         NEW op \in {"run", "prepare", "merge", "continue", "abort", "discard",
                     "retry", "force", "delete"}
  PROVE  /\ NewCall(op, s, pc, i) \in Call
         /\ NewCall(op, s, pc, i).op = op /\ NewCall(op, s, pc, i).s = s
         /\ NewCall(op, s, pc, i).pc = pc /\ NewCall(op, s, pc, i).row = i
         /\ NewCall(op, s, pc, i).path = "base"
<1>1. 0 \in 0..MaxCommits /\ {} \in SUBSET Commits
  BY WorktreeAssumption
<1>2. (i # NoRow /\ row[s][i].squash) \in BOOLEAN
  OBVIOUS
<1> QED BY <1>1, <1>2 DEF NewCall, Free, Call

LEMMA BaseTypes ==
  ASSUME TypeOK
  PROVE  /\ None \in [Sessions -> SUBSET Commits]
         /\ \A f, g \in [Sessions -> SUBSET Commits] :
              And(f, g) \in [Sessions -> SUBSET Commits]
BY DEF None, And

BaseType ==
  /\ head \in [Sessions -> SUBSET Commits] /\ staged \in [Sessions -> SUBSET Commits]
  /\ unmerged \in [Sessions -> SUBSET Commits]
  /\ loose \in [Sessions -> SUBSET Commits]
  /\ edit \in {"none", "loose", "staged", "committed", "lost"}

LEMMA BaseStays ==
  ASSUME TypeOK,
         ResetMerge \/ ResetHard \/ UnstageDirty \/ CommitIndex \/ UNCHANGED base
  PROVE  BaseType'
<1>1. CASE ResetMerge
  BY <1>1, BaseTypes DEF ResetMerge, TypeOK, BaseType
<1>2. CASE ResetHard
  BY <1>2, BaseTypes DEF ResetHard, TypeOK, BaseType
<1>3. CASE UnstageDirty
  <2>1. And(loose, And(staged, unmerged)) \in [Sessions -> SUBSET Commits]
    BY BaseTypes DEF TypeOK
  <2> QED BY <1>3, <2>1, BaseTypes DEF UnstageDirty, TypeOK, BaseType
<1>4. CASE CommitIndex
  BY <1>4, BaseTypes DEF CommitIndex, TypeOK, BaseType
<1>5. CASE UNCHANGED base
  BY <1>5 DEF base, TypeOK, BaseType
<1> QED BY <1>1, <1>2, <1>3, <1>4, <1>5

LEMMA SpendType ==
  ASSUME TypeOK, NEW event, Spend(event) \/ UNCHANGED budget
  PROVE  budget' \in 0..Budget
BY WorktreeAssumption DEF Spend, TypeOK

-------------------------------------------------------------------------------
(* What a step of one handler leaves alone. *)

\* The step is one of handler h for session s.
Only(h, s) ==
  /\ \A g \in Handlers \ {h} : call'[g] = call[g]
  /\ call'[h].s = s /\ (At(h, "free") \/ call[h].s = s)
  /\ \A g \in Handlers \ {h} : call[g].s = s => At(g, "free")
  /\ \A t \in Sessions \ {s} : row'[t] = row[t] /\ dir'[t] = dir[t] /\ tip'[t] = tip[t]

\* It is enough to look at the session and the handler of the step.
LEMMA Locally ==
  ASSUME IInv, TypeOK', NEW h \in Handlers, NEW s \in Sessions, Only(h, s),
         OfSession(s)', OfHandler(h)'
  PROVE  IInv'
<1>1. Alone'
  <2> SUFFICES ASSUME NEW f \in Handlers, NEW g \in Handlers,
                      call'[f].s = call'[g].s, ~At(f, "free")', ~At(g, "free")'
               PROVE  f = g
    BY DEF Alone
  <2>1. CASE f # h /\ g # h
    BY <2>1 DEF IInv, Alone, Only, At
  <2>2. CASE f = h /\ g # h
    BY <2>2 DEF Only, At
  <2>3. CASE f # h /\ g = h
    BY <2>3 DEF Only, At
  <2> QED BY <2>1, <2>2, <2>3
<1>2. ASSUME NEW t \in Sessions, t # s PROVE OfSession(t)'
  <2>0. OfSession(t) /\ row'[t] = row[t] /\ dir'[t] = dir[t] /\ tip'[t] = tip[t]
    BY <1>2 DEF IInv, Only
  <2>1. OneLive(t)'
    BY <2>0 DEF OfSession, OneLive
  <2>2. BeingDeleted(t) => BeingDeleted(t)'
    <3> SUFFICES ASSUME NEW g \in Handlers, call[g].op = "delete", call[g].s = t
                 PROVE  call'[g] = call[g]
      BY DEF BeingDeleted
    <3>1. ~At(g, "free")
      BY DEF IInv, OfHandler, Deleting, DeletePcs, At
    <3> QED BY <1>2, <3>1 DEF Only
  <2>3. Intact(t)'
    BY <2>0, <2>2 DEF OfSession, Intact, There
  <2>4. ASSUME NEW i \in RowIds, NEW g \in Handlers,
               call[g].s = t, call[g].pc \in MakePcs
        PROVE  call'[g] = call[g]
    BY <1>2, <2>4 DEF Only, At, MakePcs
  <2>5. Attended(t)'
    BY <2>0, <2>4 DEF OfSession, Attended
  <2> QED BY <2>1, <2>3, <2>5 DEF OfSession
<1>3. ASSUME NEW g \in Handlers, g # h PROVE OfHandler(g)'
  <2>0. OfHandler(g) /\ call'[g] = call[g] /\ call[g].s \in Sessions
    BY <1>3 DEF IInv, Only, TypeOK, Call
  <2>1. CASE call[g].s = s
    <3>1. call[g].pc = "free"
      BY <1>3, <2>1 DEF Only, At
    <3> QED BY <2>0, <3>1
            DEF OfHandler, Making, Cleaning, Deleting, Starting, Named, At, DeletePcs,
                RowPcs, MakePcs
  <2>2. CASE call[g].s # s
    <3>1. LET t == call[g].s IN row'[t] = row[t] /\ dir'[t] = dir[t] /\ tip'[t] = tip[t]
      BY <2>0, <2>2 DEF Only
    <3> QED BY <2>0, <3>1
            DEF OfHandler, Making, Cleaning, Deleting, Starting, Named, At, There
  <2> QED BY <2>1, <2>2
<1> QED BY <1>1, <1>2, <1>3 DEF IInv

\* A handler that is at work is alone with its session.
LEMMA AtWork ==
  ASSUME IInv, NEW h \in Handlers, ~At(h, "free")
  PROVE  /\ call[h].s \in Sessions /\ call[h] \in Call
         /\ OfSession(call[h].s) /\ OfHandler(h)
         /\ \A g \in Handlers \ {h} : call[g].s = call[h].s => At(g, "free")
BY DEF IInv, Alone, TypeOK, Call

\* A request begins for a session that has none.
LEMMA OnlyOne ==
  ASSUME OneAtATime, NEW s \in Sessions, Request(s)
  PROVE  ~Serving(s) /\ UNCHANGED budget
BY DEF Request, Spend, OneAtATime

LEMMA AtEase ==
  ASSUME IInv, NEW s \in Sessions, NEW h \in Handlers, NEW c \in Call, c.s = s,
         ~Serving(s), Begin(h, s, c),
         \A t \in Sessions \ {s} : row'[t] = row[t], UNCHANGED <<tip, dir>>
  PROVE  /\ At(h, "free") /\ OfSession(s) /\ OfHandler(h) /\ TypeOK /\ row \in Rows
         /\ \A g \in Handlers : call[g].s = s => At(g, "free")
         /\ ~BeingDeleted(s) /\ call[h].op # "delete" /\ call[h].pc \notin MakePcs
         /\ Only(h, s) /\ call'[h] = c /\ call' \in Calls
<1>1. \A g \in Handlers : call[g].s = s => At(g, "free")
  BY DEF Serving
<1>2. ~BeingDeleted(s)
  BY <1>1 DEF BeingDeleted, IInv, OfHandler, Deleting, DeletePcs, At
<1>3. At(h, "free") /\ OfSession(s) /\ OfHandler(h) /\ TypeOK
  BY DEF Begin, IInv
<1>4. call[h].op # "delete" /\ call[h].pc \notin MakePcs
  BY <1>3 DEF At, MakePcs, DeletePcs, OfHandler, Deleting
<1>5. call' = [call EXCEPT ![h] = c] /\ call \in Calls /\ row \in Rows
  BY <1>3 DEF Begin, TypeOK, Calls, Rows
<1>6. call'[h] = c /\ call' \in Calls /\ \A g \in Handlers \ {h} : call'[g] = call[g]
  BY <1>5 DEF Calls
<1> QED BY <1>1, <1>2, <1>3, <1>4, <1>5, <1>6 DEF Only

\* Steps that only move a row between statuses in which the worktree is in use,
\* and neither begin nor end the making or the removal of a worktree.
Standing(from, to) == to = from \/ (from \in InUse /\ to \in InUse)
Special == MakePcs \cup {"remove", "unbranch", "start"} \cup DeletePcs

LEMMA Softly ==
  ASSUME IInv, TypeOK', NEW h \in Handlers, NEW s \in Sessions, Only(h, s),
         \A i \in RowIds : Standing(row[s][i].status, row'[s][i].status),
         dir' = dir, tip' = tip,
         call'[h].pc \notin Special \ {"start"}, call'[h].op # "delete", Named(h)', Starting(h)',
         call[h].pc \notin MakePcs, call[h].op # "delete"
  PROVE  IInv'
<1>0. OfSession(s) /\ OfHandler(h)
  BY DEF IInv
<1>1. /\ \A i \in RowIds : row[s][i].status \in Live <=> row'[s][i].status \in Live
      /\ \A i \in RowIds : row[s][i].status \in InUse <=> row'[s][i].status \in InUse
      /\ \A i \in RowIds : row'[s][i].status = "creating" => row[s][i].status = "creating"
  BY DEF Standing, InUse, ForWorkspace, Live
<1>2. OneLive(s)'
  BY <1>0, <1>1 DEF OfSession, OneLive
<1>3. BeingDeleted(s) => BeingDeleted(s)'
  <2> SUFFICES ASSUME NEW g \in Handlers, call[g].op = "delete", call[g].s = s
               PROVE  call'[g] = call[g]
    BY DEF BeingDeleted
  <2> QED BY DEF Only
<1>4. Intact(s)'
  BY <1>0, <1>1, <1>3 DEF OfSession, Intact, There
<1>5. Attended(s)'
  <2> SUFFICES ASSUME NEW g \in Handlers, call[g].s = s, call[g].pc \in MakePcs
               PROVE  call'[g] = call[g]
    BY <1>0, <1>1 DEF OfSession, Attended
  <2> QED BY DEF Only
<1>6. OfHandler(h)'
  BY DEF OfHandler, Making, Cleaning, Deleting, Starting, Special, MakePcs, At,
         DeletePcs
<1> QED BY <1>2, <1>4, <1>5, <1>6, Locally DEF OfSession


LEMMA Quietly ==
  ASSUME IInv, TypeOK', NEW h \in Handlers, NEW s \in Sessions, Only(h, s),
         \A i \in RowIds : Standing(row[s][i].status, row'[s][i].status),
         dir' = dir, tip' = tip,
         call'[h].pc \notin Special, call'[h].op # "delete", Named(h)',
         call[h].pc \notin MakePcs, call[h].op # "delete"
  PROVE  IInv'
<1>1. Starting(h)' /\ call'[h].pc \notin Special \ {"start"}
  BY DEF Starting, Special, At
<1> QED BY <1>1, Softly
-------------------------------------------------------------------------------
(* The steps of a merge, of its continuation and of its abortion. *)

\* A row that is rewritten keeps its standing, and so do the others.
LEMMA RowEdited ==
  ASSUME TypeOK, NEW s \in Sessions, NEW i \in RowIds, NEW r \in Row,
         row' = [row EXCEPT ![s][i] = r], Standing(row[s][i].status, r.status)
  PROVE  /\ row' \in Rows
         /\ \A t \in Sessions \ {s} : row'[t] = row[t]
         /\ \A j \in RowIds : Standing(row[s][j].status, row'[s][j].status)
<1>1. row \in Rows
  BY DEF TypeOK, Rows
<1>2. row' \in Rows
  BY <1>1 DEF Rows
<1>3. \A j \in RowIds : row'[s][j] = IF j = i THEN r ELSE row[s][j]
  BY <1>1 DEF Rows
<1> QED BY <1>1, <1>2, <1>3 DEF Standing, Rows

\* The transitions of a merge start from a worktree in use.
LEMMA MovesInUse ==
  ASSUME NEW s \in Sessions, OneLive(s), TypeOK,
         NEW to \in {"merging", "merged", "needs_resolution", "dirty"}, CanMove(s, to)
  PROVE  /\ ActiveRow(s) \in RowIds /\ row[s][ActiveRow(s)] \in Row
         /\ row[s][ActiveRow(s)].status \in InUse /\ to \in InUse
<1>1. /\ ActiveRow(s) \in RowIds /\ ActiveStatus(s) \in Live
      /\ ActiveStatus(s) = row[s][ActiveRow(s)].status /\ Allowed(ActiveStatus(s), to)
  BY ActiveIsLive DEF CanMove
<1>2. row[s][ActiveRow(s)] \in Row
  BY <1>1 DEF TypeOK
<1>3. ActiveStatus(s) \in InUse
  BY <1>1 DEF Allowed, Edges, Live, InUse, ForWorkspace
<1> QED BY <1>1, <1>2, <1>3 DEF InUse, ForWorkspace

\* What all steps of a merge have in common.
LEMMA MergeSteps ==
  ASSUME IInv, NEW h \in Handlers, call[h].pc \in MergeWork \cup {"check"},
         NEW c \in Call, c.s = call[h].s, c.op \in {call[h].op, "none"},
         c.pc \notin Special, c.pc \in RowPcs => c.row \in RowIds,
         call' = [call EXCEPT ![h] = c],
         row' \in Rows, \A t \in Sessions \ {call[h].s} : row'[t] = row[t],
         \A i \in RowIds : Standing(row[call[h].s][i].status, row'[call[h].s][i].status),
         UNCHANGED <<tip, dir, run, gone>>, BaseType', budget' \in 0..Budget
  PROVE  IInv'
<1> DEFINE s == call[h].s
<1>1. ~At(h, "free") /\ call[h].pc \notin MakePcs \cup DeletePcs
  BY DEF MergeWork, At, MakePcs, DeletePcs
<1>2. /\ s \in Sessions /\ OfHandler(h) /\ TypeOK
      /\ \A g \in Handlers \ {h} : call[g].s = s => At(g, "free")
  BY <1>1, AtWork DEF IInv
<1>3. TypeOK'
  BY <1>2 DEF TypeOK, BaseType, Rows
<1>4. Only(h, s) /\ call'[h] = c
  BY <1>2 DEF Only, TypeOK
<1>5. call[h].op # "delete" /\ c.op # "delete"
  BY <1>1, <1>2 DEF OfHandler, Deleting
<1>6. Named(h)'
  BY <1>4 DEF Named
<1> QED BY <1>1, <1>2, <1>3, <1>4, <1>5, <1>6, Quietly

LEMMA RowsStay ==
  ASSUME TypeOK, UNCHANGED row, NEW s \in Sessions
  PROVE  /\ row' \in Rows /\ \A t \in Sessions \ {s} : row'[t] = row[t]
         /\ \A i \in RowIds : Standing(row[s][i].status, row'[s][i].status)
BY DEF TypeOK, Rows, Standing

\* Goto and Done.
QuietPcs == Pc \ (Special \cup RowPcs)
LEMMA CallMoves ==
  ASSUME IInv, NEW h \in Handlers, call[h].pc \in MergeWork \cup {"check"},
         (\E pc \in QuietPcs : Goto(h, pc)) \/ Done(h)
  PROVE  \E c \in Call :
           /\ c.s = call[h].s /\ c.op \in {call[h].op, "none"} /\ c.pc \notin Special
           /\ c.pc \in RowPcs => c.row \in RowIds
           /\ call' = [call EXCEPT ![h] = c]
<1>1. call[h] \in Call /\ call[h].s \in Sessions /\ TypeOK
  BY DEF IInv, TypeOK, Call
<1>2. ASSUME NEW pc \in QuietPcs, Goto(h, pc)
      PROVE  LET c == [call[h] EXCEPT !.pc = pc] IN
             /\ c \in Call /\ c.s = call[h].s /\ c.op = call[h].op /\ c.pc = pc
             /\ call' = [call EXCEPT ![h] = c]
  <2>1. pc \in Pc
    BY DEF QuietPcs
  <2>2. LET c == [call[h] EXCEPT !.pc = pc] IN
             /\ c \in Call /\ c.s = call[h].s /\ c.op = call[h].op /\ c.pc = pc
    BY <1>1, <2>1 DEF Call
  <2>3. call' = [call EXCEPT ![h] = [call[h] EXCEPT !.pc = pc]]
    BY <1>2 DEF Goto
  <2> QED BY <2>2, <2>3
<1>3. ASSUME Done(h)
      PROVE  LET c == Free(call[h].s) IN
             /\ c \in Call /\ c.s = call[h].s /\ c.op = "none" /\ c.pc = "free"
             /\ call' = [call EXCEPT ![h] = c]
  <2>1. Free(call[h].s) \in Call
    BY <1>1, CallTypes
  <2> QED BY <1>3, <2>1 DEF Done, Free
<1>4. "free" \notin Special \cup RowPcs
  BY DEF Special, RowPcs, MakePcs, DeletePcs
<1>5. CASE \E pc \in QuietPcs : Goto(h, pc)
  <2>1. PICK pc \in QuietPcs : Goto(h, pc)
    BY <1>5
  <2> QED BY <1>2, <2>1 DEF QuietPcs
<1>6. CASE Done(h)
  BY <1>3, <1>4, <1>6
<1> QED BY <1>5, <1>6

\* Steps that write no row.
LEMMA Bare ==
  ASSUME IInv, NEW h \in Handlers, call[h].pc \in MergeWork \cup {"check"},
         (\E pc \in QuietPcs : Goto(h, pc)) \/ Done(h),
         UNCHANGED <<row, tip, dir, run, gone>>, BaseType', budget' \in 0..Budget
  PROVE  IInv'
<1>1. TypeOK /\ call[h].s \in Sessions
  BY DEF IInv, TypeOK, Call
<1>2. PICK c \in Call : /\ c.s = call[h].s /\ c.op \in {call[h].op, "none"}
                        /\ c.pc \notin Special
                        /\ c.pc \in RowPcs => c.row \in RowIds
                        /\ call' = [call EXCEPT ![h] = c]
  BY CallMoves
<1>3. /\ row' \in Rows /\ \A t \in Sessions \ {call[h].s} : row'[t] = row[t]
      /\ \A i \in RowIds : Standing(row[call[h].s][i].status, row'[call[h].s][i].status)
  BY <1>1, RowsStay
<1> QED BY <1>2, <1>3, MergeSteps

\* Steps that write the row of their session.
LEMMA Written ==
  ASSUME IInv, NEW h \in Handlers, call[h].pc \in MergeWork \cup {"check"},
         (\E pc \in QuietPcs : Goto(h, pc)) \/ Done(h),
         NEW i \in RowIds, NEW r \in Row, row' = [row EXCEPT ![call[h].s][i] = r],
         Standing(row[call[h].s][i].status, r.status), NoGit, Aside
  PROVE  IInv'
<1>1. TypeOK /\ call[h].s \in Sessions
  BY DEF IInv, TypeOK, Call
<1>2. PICK c \in Call : /\ c.s = call[h].s /\ c.op \in {call[h].op, "none"}
                        /\ c.pc \notin Special
                        /\ c.pc \in RowPcs => c.row \in RowIds
                        /\ call' = [call EXCEPT ![h] = c]
  BY CallMoves
<1>3. /\ row' \in Rows /\ \A t \in Sessions \ {call[h].s} : row'[t] = row[t]
      /\ \A j \in RowIds : Standing(row[call[h].s][j].status, row'[call[h].s][j].status)
  BY <1>1, RowEdited
<1>4. BaseType' /\ budget' \in 0..Budget /\ UNCHANGED <<tip, dir, run, gone>>
  BY <1>1, BaseStays, SpendType DEF NoGit, Aside
<1> QED BY <1>2, <1>3, <1>4, MergeSteps

LEMMA CheckBaseStep ==
  ASSUME IInv, NEW h \in Handlers, CheckBase(h)
  PROVE  IInv'
<1>1. (\E pc \in QuietPcs : Goto(h, pc)) \/ Done(h)
  BY DEF CheckBase, QuietPcs, Pc, Special, RowPcs, MakePcs, DeletePcs
<1>2. BaseType' /\ budget' \in 0..Budget
  BY BaseStays, SpendType DEF IInv, CheckBase, NoGit
<1> QED BY <1>1, <1>2, Bare DEF CheckBase, NoGit, At

LEMMA ClaimStep ==
  ASSUME IInv, NEW h \in Handlers, Claim(h)
  PROVE  IInv'
<1> DEFINE s == call[h].s
           c == [call[h] EXCEPT !.pc = "note", !.row = ActiveRow(s)]
           r == [row[s][ActiveRow(s)] EXCEPT !.status = "merging"]
<1>0. TypeOK /\ s \in Sessions /\ OneLive(s) /\ call[h] \in Call
  BY DEF IInv, TypeOK, Call, OfSession
<1>1. CASE CanMove(s, "merging")
  <2>1. /\ ActiveRow(s) \in RowIds /\ row[s][ActiveRow(s)] \in Row
        /\ row[s][ActiveRow(s)].status \in InUse /\ "merging" \in InUse
    BY <1>0, <1>1, MovesInUse
  <2>2. row' = [row EXCEPT ![s][ActiveRow(s)] = r]
    BY <1>1 DEF Claim, Move, SetStatus
  <2>3. r \in Row /\ r.status = "merging"
    BY <2>1 DEF Row, Status
  <2>4. /\ row' \in Rows /\ \A t \in Sessions \ {s} : row'[t] = row[t]
        /\ \A i \in RowIds : Standing(row[s][i].status, row'[s][i].status)
    <3>1. Standing(row[s][ActiveRow(s)].status, r.status)
      BY <2>1, <2>3 DEF Standing
    <3> HIDE DEF r
    <3> QED BY <1>0, <2>1, <2>2, <2>3, <3>1, RowEdited
  <2>5. /\ c \in Call /\ c.s = s /\ c.op = call[h].op /\ c.pc = "note"
        /\ c.row \in RowIds
    BY <1>0, <2>1 DEF Call, Pc
  <2>6. call' = [call EXCEPT ![h] = c]
    BY <1>0, <1>1 DEF Claim, IInv, TypeOK, Call
  <2>7. BaseType' /\ budget' \in 0..Budget /\ UNCHANGED <<tip, dir, run, gone>>
    BY <1>0, BaseStays, SpendType DEF Claim, NoGit, Aside
  <2>8. c.pc \notin Special /\ call[h].pc \in MergeWork \cup {"check"}
    BY <2>5 DEF Claim, At, MergeWork, Special, MakePcs, DeletePcs
  <2> HIDE DEF c, r
  <2> QED BY <2>4, <2>5, <2>6, <2>7, <2>8, MergeSteps
<1>2. CASE ~CanMove(s, "merging")
  <2>1. Done(h) /\ UNCHANGED <<row, tip, dir, run, gone>>
    BY <1>2 DEF Claim, NoGit, Aside
  <2>2. BaseType' /\ budget' \in 0..Budget
    BY <1>0, BaseStays, SpendType DEF Claim, NoGit, Aside
  <2> QED BY <2>1, <2>2, Bare DEF Claim, At, MergeWork
<1> QED BY <1>1, <1>2

LEMMA NoteStep ==
  ASSUME IInv, NEW h \in Handlers, Note(h)
  PROVE  IInv'
<1> DEFINE s == call[h].s
           i == call[h].row
           c == [call[h] EXCEPT !.pc = "diff", !.squash = TRUE, !.upto = row[s][i].cursor]
           r == [row[s][i] EXCEPT !.squash = TRUE]
<1>0. TypeOK /\ s \in Sessions /\ call[h] \in Call /\ i \in RowIds /\ row[s][i] \in Row
  BY DEF IInv, TypeOK, Call, OfHandler, Named, RowPcs, Note, At
<1>1. CASE row[s][i].status # "none"
  <2>1. row' = [row EXCEPT ![s][i] = r]
    BY <1>1 DEF Note
  <2>2. r \in Row /\ r.status = row[s][i].status
    BY <1>0 DEF Row
  <2>3. /\ row' \in Rows /\ \A t \in Sessions \ {s} : row'[t] = row[t]
        /\ \A j \in RowIds : Standing(row[s][j].status, row'[s][j].status)
    BY <1>0, <2>1, <2>2, RowEdited DEF Standing
  <2>4. /\ c \in Call /\ c.s = s /\ c.op = call[h].op /\ c.pc = "diff"
    BY <1>0 DEF Call, Pc, Row
  <2>5. call' = [call EXCEPT ![h] = c]
    BY <1>0, <1>1 DEF Note, IInv, TypeOK, Call
  <2>6. BaseType' /\ budget' \in 0..Budget /\ UNCHANGED <<tip, dir, run, gone>>
    BY <1>0, BaseStays, SpendType DEF Note, NoGit, Aside
  <2>7. /\ c.pc \notin Special \cup RowPcs
        /\ call[h].pc \in MergeWork \cup {"check"}
    BY <2>4 DEF Note, At, MergeWork, Special, MakePcs, DeletePcs, RowPcs
  <2> HIDE DEF c, r
  <2> QED BY <2>3, <2>4, <2>5, <2>6, <2>7, MergeSteps
<1>2. CASE row[s][i].status = "none"
  <2>1. Done(h) /\ UNCHANGED <<row, tip, dir, run, gone>>
    BY <1>2 DEF Note, NoGit, Aside
  <2>2. BaseType' /\ budget' \in 0..Budget
    BY <1>0, BaseStays, SpendType DEF Note, NoGit, Aside
  <2> QED BY <2>1, <2>2, Bare DEF Note, At, MergeWork
<1> QED BY <1>1, <1>2

LEMMA DiffStep ==
  ASSUME IInv, NEW h \in Handlers, Diff(h)
  PROVE  IInv'
<1> DEFINE s == call[h].s
           patch == {n \in Commits : call[h].upto < n /\ n <= tip[s]}
           pc == IF tip[s] = NoBranch THEN "undo"
                 ELSE IF patch = {} THEN "tip" ELSE "unstage"
           c == [call[h] EXCEPT !.patch = patch, !.pc = pc]
<1>0. TypeOK /\ s \in Sessions /\ call[h] \in Call
  BY DEF IInv, TypeOK, Call
<1>1. patch \in SUBSET Commits /\ pc \in {"undo", "tip", "unstage"}
  OBVIOUS
<1>2. call' = [call EXCEPT ![h] = c]
  BY <1>0 DEF Diff, IInv, TypeOK, Call
<1> HIDE DEF patch, pc
<1>3. /\ c \in Call /\ c.s = s /\ c.op = call[h].op /\ c.pc = pc
  BY <1>0, <1>1 DEF Call, Pc
<1>4. /\ row' \in Rows /\ \A t \in Sessions \ {s} : row'[t] = row[t]
      /\ \A i \in RowIds : Standing(row[s][i].status, row'[s][i].status)
  BY <1>0, RowsStay DEF Diff
<1>5. BaseType' /\ budget' \in 0..Budget /\ UNCHANGED <<tip, dir, run, gone>>
  BY <1>0, BaseStays, SpendType DEF Diff, NoGit, Aside
<1>6. /\ c.pc \notin Special \cup RowPcs
      /\ call[h].pc \in MergeWork \cup {"check"}
  BY <1>1, <1>3 DEF Diff, At, MergeWork, Special, MakePcs, DeletePcs, RowPcs
<1> HIDE DEF c
<1> QED BY <1>2, <1>3, <1>4, <1>5, <1>6, MergeSteps

LEMMA UnstageStep ==
  ASSUME IInv, NEW h \in Handlers, Unstage(h)
  PROVE  IInv'
<1>1. (\E pc \in QuietPcs : Goto(h, pc)) \/ Done(h)
  BY DEF Unstage, QuietPcs, Pc, Special, RowPcs, MakePcs, DeletePcs
<1>2. BaseType' /\ budget' \in 0..Budget
  BY BaseStays, SpendType DEF IInv, Unstage, NoGit, Aside, base
<1> QED BY <1>1, <1>2, Bare DEF Unstage, NoGit, Aside, At, MergeWork

LEMMA ApplyCleanStep ==
  ASSUME IInv, NEW h \in Handlers, ApplyClean(h)
  PROVE  IInv'
<1>1. (\E pc \in QuietPcs : Goto(h, pc)) \/ Done(h)
  BY DEF ApplyClean, QuietPcs, Pc, Special, RowPcs, MakePcs, DeletePcs
<1>2. BaseType' /\ budget' \in 0..Budget
  <2>1. call[h] \in Call /\ TypeOK
    BY DEF IInv, TypeOK
  <2>2. call[h].patch \ head[call[h].s] \in SUBSET Commits
    BY <2>1 DEF TypeOK, Call
  <2>3. BaseType'
    BY <2>1, <2>2 DEF ApplyClean, BaseType, TypeOK
  <2> QED BY <2>1, <2>3, SpendType DEF ApplyClean, Aside
<1> QED BY <1>1, <1>2, Bare DEF ApplyClean, NoGit, Aside, At, MergeWork

LEMMA ApplyConflictsStep ==
  ASSUME IInv, NEW h \in Handlers, ApplyConflicts(h)
  PROVE  IInv'
<1>1. (\E pc \in QuietPcs : Goto(h, pc)) \/ Done(h)
  BY DEF ApplyConflicts, QuietPcs, Pc, Special, RowPcs, MakePcs, DeletePcs
<1>2. BaseType' /\ budget' \in 0..Budget
  <2>1. call[h] \in Call /\ TypeOK
    BY DEF IInv, TypeOK
  <2>2. call[h].patch \ head[call[h].s] \in SUBSET Commits
    BY <2>1 DEF TypeOK, Call
  <2>3. BaseType'
    BY <2>1, <2>2 DEF ApplyConflicts, BaseType, TypeOK
  <2> QED BY <2>1, <2>3, SpendType DEF ApplyConflicts
<1> QED BY <1>1, <1>2, Bare DEF ApplyConflicts, NoGit, Aside, At, MergeWork

LEMMA ApplyRefusedStep ==
  ASSUME IInv, NEW h \in Handlers, ApplyRefused(h)
  PROVE  IInv'
<1>1. (\E pc \in QuietPcs : Goto(h, pc)) \/ Done(h)
  BY DEF ApplyRefused, QuietPcs, Pc, Special, RowPcs, MakePcs, DeletePcs
<1>2. BaseType' /\ budget' \in 0..Budget
  BY BaseStays, SpendType DEF IInv, ApplyRefused, NoGit, Aside, base
<1> QED BY <1>1, <1>2, Bare DEF ApplyRefused, NoGit, Aside, At, MergeWork

LEMMA ListUnmergedStep ==
  ASSUME IInv, NEW h \in Handlers, ListUnmerged(h)
  PROVE  IInv'
<1>1. (\E pc \in QuietPcs : Goto(h, pc)) \/ Done(h)
  BY DEF ListUnmerged, QuietPcs, Pc, Special, RowPcs, MakePcs, DeletePcs
<1>2. BaseType' /\ budget' \in 0..Budget
  BY BaseStays, SpendType DEF IInv, ListUnmerged, NoGit
<1> QED BY <1>1, <1>2, Bare DEF ListUnmerged, NoGit, At, MergeWork

LEMMA RetreatStep ==
  ASSUME IInv, NEW h \in Handlers, Retreat(h)
  PROVE  IInv'
<1>1. (\E pc \in QuietPcs : Goto(h, pc)) \/ Done(h)
  BY DEF Retreat, QuietPcs, Pc, Special, RowPcs, MakePcs, DeletePcs
<1>2. BaseType' /\ budget' \in 0..Budget
  BY BaseStays, SpendType DEF IInv, Retreat, base
<1> QED BY <1>1, <1>2, Bare DEF Retreat, At, MergeWork

LEMMA LookStep ==
  ASSUME IInv, NEW h \in Handlers, Look(h)
  PROVE  IInv'
<1>1. (\E pc \in QuietPcs : Goto(h, pc)) \/ Done(h)
  BY DEF Look, QuietPcs, Pc, Special, RowPcs, MakePcs, DeletePcs
<1>2. BaseType' /\ budget' \in 0..Budget
  BY BaseStays, SpendType DEF IInv, Look, NoGit, Aside, base
<1> QED BY <1>1, <1>2, Bare DEF Look, NoGit, Aside, At, MergeWork

LEMMA CommitStep ==
  ASSUME IInv, NEW h \in Handlers, Commit(h)
  PROVE  IInv'
<1>1. (\E pc \in QuietPcs : Goto(h, pc)) \/ Done(h)
  BY DEF Commit, QuietPcs, Pc, Special, RowPcs, MakePcs, DeletePcs
<1>2. BaseType' /\ budget' \in 0..Budget
  BY BaseStays, SpendType DEF IInv, Commit, NoGit, Aside, base
<1> QED BY <1>1, <1>2, Bare DEF Commit, NoGit, Aside, At, MergeWork

LEMMA VerifyStep ==
  ASSUME IInv, NEW h \in Handlers, Verify(h)
  PROVE  IInv'
<1>1. (\E pc \in QuietPcs : Goto(h, pc)) \/ Done(h)
  BY DEF Verify, QuietPcs, Pc, Special, RowPcs, MakePcs, DeletePcs
<1>2. BaseType' /\ budget' \in 0..Budget
  BY BaseStays, SpendType DEF IInv, Verify, NoGit, Aside, base
<1> QED BY <1>1, <1>2, Bare DEF Verify, NoGit, Aside, At, MergeWork

LEMMA ResetBaseStep ==
  ASSUME IInv, NEW h \in Handlers, ResetBase(h)
  PROVE  IInv'
<1>1. (\E pc \in QuietPcs : Goto(h, pc)) \/ Done(h)
  BY DEF ResetBase, QuietPcs, Pc, Special, RowPcs, MakePcs, DeletePcs
<1>2. BaseType' /\ budget' \in 0..Budget
  BY BaseStays, SpendType DEF IInv, ResetBase, NoGit, Aside, base
<1> QED BY <1>1, <1>2, Bare DEF ResetBase, NoGit, Aside, At, MergeWork

LEMMA ReadTipStep ==
  ASSUME IInv, NEW h \in Handlers, ReadTip(h)
  PROVE  IInv'
<1> DEFINE s == call[h].s
           c == [call[h] EXCEPT !.pc = "mark", !.upto = tip[s]]
<1>0. TypeOK /\ s \in Sessions /\ call[h] \in Call
  BY DEF IInv, TypeOK, Call
<1>1. BaseType' /\ budget' \in 0..Budget /\ UNCHANGED <<row, tip, dir, run, gone>>
  BY <1>0, BaseStays, SpendType DEF ReadTip, NoGit, Aside
<1>2. CASE call[h].squash /\ tip[s] # NoBranch /\ ~Done(h)
  <2>1. tip[s] \in 0..MaxCommits
    BY <1>0, <1>2, WorktreeAssumption DEF TypeOK, NoBranch
  <2>2. /\ c \in Call /\ c.s = s /\ c.op = call[h].op /\ c.pc = "mark"
    BY <1>0, <2>1 DEF Call, Pc
  <2>3. call' = [call EXCEPT ![h] = c]
    BY <1>0, <1>2 DEF ReadTip, IInv, TypeOK, Call
  <2>4. /\ row' \in Rows /\ \A t \in Sessions \ {s} : row'[t] = row[t]
        /\ \A i \in RowIds : Standing(row[s][i].status, row'[s][i].status)
    BY <1>0, <1>1, RowsStay
  <2>5. /\ c.pc \notin Special \cup RowPcs
        /\ call[h].pc \in MergeWork \cup {"check"}
    BY <2>2 DEF ReadTip, At, MergeWork, Special, MakePcs, DeletePcs, RowPcs
  <2> HIDE DEF c
  <2> QED BY <1>1, <2>2, <2>3, <2>4, <2>5, MergeSteps
<1>3. CASE call[h].squash /\ Done(h)
  BY <1>1, <1>3, Bare DEF ReadTip, At, MergeWork
<1>4. CASE ~(call[h].squash /\ tip[s] # NoBranch)
  <2>1. (\E pc \in QuietPcs : Goto(h, pc)) \/ Done(h)
    BY <1>4 DEF ReadTip, QuietPcs, Pc, Special, RowPcs, MakePcs, DeletePcs
  <2> QED BY <1>1, <2>1, Bare DEF ReadTip, At, MergeWork
<1> QED BY <1>2, <1>3, <1>4

LEMMA MarkMergedStep ==
  ASSUME IInv, NEW h \in Handlers, MarkMerged(h)
  PROVE  IInv'
<1> DEFINE s == call[h].s
           c == [call[h] EXCEPT !.pc = "cursor", !.row = ActiveRow(s)]
           r == [row[s][ActiveRow(s)] EXCEPT !.status = "merged"]
<1>0. TypeOK /\ s \in Sessions /\ OneLive(s) /\ call[h] \in Call
  BY DEF IInv, TypeOK, Call, OfSession
<1>1. NoGit /\ Aside /\ call[h].pc \in MergeWork \cup {"check"}
  BY DEF MarkMerged, At, MergeWork
<1>2. CASE CanMove(s, "merged")
  <2>1. /\ ActiveRow(s) \in RowIds /\ row[s][ActiveRow(s)] \in Row
        /\ row[s][ActiveRow(s)].status \in InUse /\ "merged" \in InUse
    BY <1>0, <1>2, MovesInUse
  <2>2. row' = [row EXCEPT ![s][ActiveRow(s)] = r]
    BY <1>2 DEF MarkMerged, Move, SetStatus
  <2>3. r \in Row /\ r.status = "merged"
    BY <2>1 DEF Row, Status
  <2>4. /\ row' \in Rows /\ \A t \in Sessions \ {s} : row'[t] = row[t]
        /\ \A i \in RowIds : Standing(row[s][i].status, row'[s][i].status)
    <3>1. Standing(row[s][ActiveRow(s)].status, r.status)
      BY <2>1, <2>3 DEF Standing
    <3> HIDE DEF r
    <3> QED BY <1>0, <2>1, <2>2, <2>3, <3>1, RowEdited
  <2>5. CASE call[h].squash
    <3>2. /\ c \in Call /\ c.s = s /\ c.op = call[h].op /\ c.pc = "cursor"
          /\ c.row \in RowIds
      BY <1>0, <2>1 DEF Call, Pc
    <3>3. call' = [call EXCEPT ![h] = c]
      BY <1>0, <1>2, <2>5 DEF MarkMerged, IInv, TypeOK, Call
    <3>4. BaseType' /\ budget' \in 0..Budget /\ UNCHANGED <<tip, dir, run, gone>>
      BY <1>0, <1>1, BaseStays, SpendType DEF NoGit, Aside
    <3>5. c.pc \notin Special
      BY <3>2 DEF Special, MakePcs, DeletePcs
    <3> HIDE DEF c, r
    <3> QED BY <1>1, <2>4, <3>2, <3>3, <3>4, <3>5, MergeSteps
  <2>6. CASE ~call[h].squash
    <3>1. Done(h)
      BY <1>2, <2>6 DEF MarkMerged
    <3> HIDE DEF r
    <3> QED BY <1>1, <2>1, <2>2, <2>3, <3>1, Written DEF Standing
  <2> QED BY <2>5, <2>6
<1>3. CASE ~CanMove(s, "merged")
  <2>1. Done(h) /\ UNCHANGED <<row, tip, dir, run, gone>>
    BY <1>1, <1>3 DEF MarkMerged, NoGit, Aside
  <2>2. BaseType' /\ budget' \in 0..Budget
    BY <1>0, <1>1, BaseStays, SpendType DEF NoGit, Aside
  <2> QED BY <1>1, <2>1, <2>2, Bare
<1> QED BY <1>2, <1>3

LEMMA RecordCursorStep ==
  ASSUME IInv, NEW h \in Handlers, RecordCursor(h)
  PROVE  IInv'
<1> DEFINE s == call[h].s
           i == call[h].row
           r == [row[s][i] EXCEPT !.cursor = call[h].upto]
<1>0. TypeOK /\ s \in Sessions /\ call[h] \in Call /\ i \in RowIds /\ row[s][i] \in Row
  BY DEF IInv, TypeOK, Call, OfHandler, Named, RowPcs, RecordCursor, At
<1>1. NoGit /\ Aside /\ Done(h) /\ call[h].pc \in MergeWork \cup {"check"}
  BY DEF RecordCursor, At, MergeWork
<1>2. CASE row[s][i].status # "none"
  <2>1. row' = [row EXCEPT ![s][i] = r]
    BY <1>2 DEF RecordCursor
  <2>2. r \in Row /\ r.status = row[s][i].status
    BY <1>0 DEF Row, Call
  <2> HIDE DEF r
  <2> QED BY <1>0, <1>1, <2>1, <2>2, Written DEF Standing
<1>3. CASE row[s][i].status = "none"
  <2>1. UNCHANGED <<row, tip, dir, run, gone>>
    BY <1>1, <1>3 DEF RecordCursor, NoGit, Aside
  <2>2. BaseType' /\ budget' \in 0..Budget
    BY <1>0, <1>1, BaseStays, SpendType DEF NoGit, Aside
  <2> QED BY <1>1, <2>1, <2>2, Bare
<1> QED BY <1>2, <1>3

LEMMA MarkConflictedStep ==
  ASSUME IInv, NEW h \in Handlers, MarkConflicted(h)
  PROVE  IInv'
<1> DEFINE s == call[h].s
           r == [row[s][ActiveRow(s)] EXCEPT !.status = "needs_resolution"]
<1>0. TypeOK /\ s \in Sessions /\ OneLive(s) /\ row \in Rows
  BY DEF IInv, TypeOK, Call, OfSession, Rows
<1>1. NoGit /\ Aside /\ Done(h) /\ call[h].pc \in MergeWork \cup {"check"}
  BY DEF MarkConflicted, At, MergeWork
<1>2. CASE CanMove(s, "needs_resolution")
  <2>1. /\ ActiveRow(s) \in RowIds /\ row[s][ActiveRow(s)] \in Row
        /\ row[s][ActiveRow(s)].status \in InUse /\ "needs_resolution" \in InUse
    BY <1>0, <1>2, MovesInUse
  <2>2. row' = [row EXCEPT ![s][ActiveRow(s)] = r]
    BY <1>0, <1>2, <2>1 DEF MarkConflicted, Move, SetStatus, MoveClearing, Rows
  <2>3. r \in Row /\ r.status = "needs_resolution"
    BY <2>1 DEF Row, Status
  <2> HIDE DEF r
  <2> QED BY <1>1, <2>1, <2>2, <2>3, Written DEF Standing
<1>3. CASE ~CanMove(s, "needs_resolution")
  <2>1. UNCHANGED <<row, tip, dir, run, gone>>
    BY <1>1, <1>3 DEF MarkConflicted, NoGit, Aside
  <2>2. BaseType' /\ budget' \in 0..Budget
    BY <1>0, <1>1, BaseStays, SpendType DEF NoGit, Aside
  <2> QED BY <1>1, <2>1, <2>2, Bare
<1> QED BY <1>2, <1>3

LEMMA UndoStep ==
  ASSUME IInv, NEW h \in Handlers, Undo(h)
  PROVE  IInv'
<1> DEFINE s == call[h].s
           r == [row[s][ActiveRow(s)] EXCEPT !.status = "dirty", !.squash = FALSE]
<1>0. TypeOK /\ s \in Sessions /\ OneLive(s) /\ row \in Rows
  BY DEF IInv, TypeOK, Call, OfSession, Rows
<1>1. NoGit /\ Aside /\ Done(h) /\ call[h].pc \in MergeWork \cup {"check"}
  BY DEF Undo, At, MergeWork
<1>2. CASE CanMove(s, "dirty")
  <2>1. /\ ActiveRow(s) \in RowIds /\ row[s][ActiveRow(s)] \in Row
        /\ row[s][ActiveRow(s)].status \in InUse /\ "dirty" \in InUse
    BY <1>0, <1>2, MovesInUse
  <2>2. row' = [row EXCEPT ![s][ActiveRow(s)] = r]
    BY <1>0, <1>2, <2>1 DEF Undo, Move, SetStatus, MoveClearing, Rows
  <2>3. r \in Row /\ r.status = "dirty"
    BY <2>1 DEF Row, Status
  <2> HIDE DEF r
  <2> QED BY <1>1, <2>1, <2>2, <2>3, Written DEF Standing
<1>3. CASE ~CanMove(s, "dirty")
  <2>1. UNCHANGED <<row, tip, dir, run, gone>>
    BY <1>1, <1>3 DEF Undo, NoGit, Aside
  <2>2. BaseType' /\ budget' \in 0..Budget
    BY <1>0, <1>1, BaseStays, SpendType DEF NoGit, Aside
  <2> QED BY <1>1, <2>1, <2>2, Bare
<1> QED BY <1>2, <1>3

-------------------------------------------------------------------------------
(* The making of a worktree. *)

\* What a step at work starts from.
LEMMA Start ==
  ASSUME IInv, NEW h \in Handlers, ~At(h, "free")
  PROVE  /\ TypeOK /\ call[h] \in Call /\ call[h].s \in Sessions
         /\ OfSession(call[h].s) /\ OfHandler(h)
         /\ row \in Rows /\ tip \in [Sessions -> NoBranch..MaxCommits]
         /\ dir \in [Sessions -> {"none", "plain", "worktree"}]
BY AtWork DEF IInv, TypeOK, Rows

\* A step at work is one of its handler alone.
LEMMA Alonely ==
  ASSUME IInv, NEW h \in Handlers, ~At(h, "free"),
         NEW c \in Call, c.s = call[h].s, call' = [call EXCEPT ![h] = c],
         \A t \in Sessions \ {call[h].s} :
           row'[t] = row[t] /\ dir'[t] = dir[t] /\ tip'[t] = tip[t]
  PROVE  Only(h, call[h].s) /\ call'[h] = c /\ call' \in Calls
BY AtWork DEF Only, IInv, TypeOK, Calls

LEMMA Goes ==
  ASSUME IInv, NEW h \in Handlers, ~At(h, "free")
  PROVE  /\ \A pc \in Pc : Goto(h, pc) =>
              \E c \in Call :
                /\ c.s = call[h].s /\ call' = [call EXCEPT ![h] = c]
                /\ c.pc = pc /\ c.op = call[h].op /\ c.row = call[h].row
         /\ Done(h) =>
              \E c \in Call :
                /\ c.s = call[h].s /\ call' = [call EXCEPT ![h] = c]
                /\ c.pc = "free" /\ c.op = "none"
<1>1. TypeOK /\ call[h] \in Call /\ call[h].s \in Sessions
  BY Start
<1>2. ASSUME NEW pc \in Pc, Goto(h, pc)
      PROVE  \E c \in Call :
                /\ c.s = call[h].s /\ call' = [call EXCEPT ![h] = c]
                /\ c.pc = pc /\ c.op = call[h].op /\ c.row = call[h].row
  <2>1. call' = [call EXCEPT ![h] = [call[h] EXCEPT !.pc = pc]]
    BY <1>2 DEF Goto
  <2>2. LET c == [call[h] EXCEPT !.pc = pc] IN
              /\ c \in Call /\ c.s = call[h].s
              /\ c.pc = pc /\ c.op = call[h].op /\ c.row = call[h].row
    BY <1>1 DEF Call
  <2> QED BY <2>1, <2>2
<1>3. ASSUME Done(h)
      PROVE  \E c \in Call :
                /\ c.s = call[h].s /\ call' = [call EXCEPT ![h] = c]
                /\ c.pc = "free" /\ c.op = "none"
  <2>1. Free(call[h].s) \in Call
    BY <1>1, CallTypes
  <2> QED BY <1>3, <2>1 DEF Done, Free
<1> QED BY <1>2, <1>3

\* The facts about a session of which no row changes its status.
LEMMA SameRows ==
  ASSUME IInv, NEW h \in Handlers, ~At(h, "free"), NEW s, s = call[h].s, Only(h, s),
         \A i \in RowIds : row'[s][i].status = row[s][i].status,
         Whole /\ call[h].op = "delete" => call'[h].op = "delete",
         \/ Whole /\ There(s) => There(s)' \/ BeingDeleted(s)'
         \/ \A i \in RowIds : row[s][i].status \notin InUse,
         call[h].pc \in MakePcs =>
           \/ call'[h].pc \in MakePcs /\ call'[h].row = call[h].row
           \/ row[s][call[h].row].status # "creating" \/ "abandon" \in Events
  PROVE  OfSession(s)'
<1>0. OfSession(s) /\ s \in Sessions
  BY Start
<1>1. OneLive(s)'
  BY <1>0 DEF OfSession, OneLive
<1>2. Whole /\ BeingDeleted(s) => BeingDeleted(s)'
  <2> SUFFICES ASSUME Whole, NEW g \in Handlers, call[g].op = "delete", call[g].s = s
               PROVE  call'[g].op = "delete" /\ call'[g].s = s
    BY DEF BeingDeleted
  <2> QED BY DEF Only
<1>3. Intact(s)'
  <2> SUFFICES ASSUME Whole, NEW i \in RowIds, row'[s][i].status \in InUse, ~BeingDeleted(s)'
               PROVE  There(s)'
    BY DEF Intact
  <2>1. There(s)
    BY <1>0, <1>2 DEF OfSession, Intact
  <2> QED BY <2>1
<1>4. Attended(s)'
  <2> SUFFICES ASSUME "abandon" \notin Events, NEW i \in RowIds,
                      row'[s][i].status = "creating"
               PROVE  \E g \in Handlers :
                        call'[g].s = s /\ call'[g].pc \in MakePcs /\ call'[g].row = i
    BY DEF Attended
  <2>1. PICK g \in Handlers : call[g].s = s /\ call[g].pc \in MakePcs /\ call[g].row = i
    BY <1>0 DEF OfSession, Attended
  <2>2. CASE g # h
    BY <2>1, <2>2 DEF Only
  <2>3. CASE g = h
    BY <2>1, <2>3 DEF Only
  <2> QED BY <2>2, <2>3
<1> QED BY <1>1, <1>3, <1>4 DEF OfSession

LEMMA MakeBranchStep ==
  ASSUME IInv, NEW h \in Handlers, NEW s, s = call[h].s, MakeBranch(h)
  PROVE  IInv'
<1>0. ~At(h, "free") /\ At(h, "branch")
  BY DEF MakeBranch, At
<1>1. /\ TypeOK /\ call[h] \in Call /\ s \in Sessions
      /\ OfSession(s) /\ OfHandler(h) /\ call[h].op # "delete" /\ call[h].row \in RowIds
  BY <1>0, Start DEF OfHandler, Deleting, DeletePcs, Named, RowPcs, MakePcs, At
<1>2. CASE tip[s] # NoBranch
  <2>1. Goto(h, "unmake") /\ UNCHANGED <<row, tip, dir, base, run, gone, budget>>
    BY <1>2 DEF MakeBranch, Aside
  <2>2. PICK c \in Call : /\ c.s = s /\ call' = [call EXCEPT ![h] = c]
                          /\ c.pc = "unmake" /\ c.op = call[h].op
                          /\ c.row = call[h].row
    BY <1>0, <2>1, Goes DEF Pc
  <2>3. Only(h, s) /\ call'[h] = c /\ call' \in Calls
    BY <1>0, <2>1, <2>2, Alonely
  <2>4. OfSession(s)'
    BY <1>0, <2>1, <2>2, <2>3, SameRows DEF There, MakePcs
  <2>5. OfHandler(h)'
    BY <1>1, <2>2, <2>3
       DEF OfHandler, Making, Cleaning, Deleting, DeletePcs, Starting, Named, At
  <2>6. TypeOK'
    BY <1>1, <2>1, <2>3, BaseStays, SpendType DEF TypeOK, BaseType, Calls
  <2> QED BY <1>1, <2>3, <2>4, <2>5, <2>6, Locally
<1>3. CASE tip[s] = NoBranch
  <2>1. Goto(h, "add") /\ tip' = [tip EXCEPT ![s] = 0] /\ UNCHANGED <<row, dir>> /\ Aside
    BY <1>3 DEF MakeBranch
  <2>2. PICK c \in Call : /\ c.s = s /\ call' = [call EXCEPT ![h] = c]
                          /\ c.pc = "add" /\ c.op = call[h].op
                          /\ c.row = call[h].row
    BY <1>0, <2>1, Goes DEF Pc
  <2>3. tip'[s] = 0 /\ \A t \in Sessions \ {s} : tip'[t] = tip[t]
    BY <1>1, <2>1 DEF TypeOK
  <2>4. Only(h, s) /\ call'[h] = c /\ call' \in Calls
    BY <1>0, <2>1, <2>2, <2>3, Alonely
  <2>5. OfSession(s)'
    BY <1>0, <2>1, <2>2, <2>3, <2>4, SameRows DEF There, MakePcs, NoBranch
  <2>6. OfHandler(h)'
    BY <1>1, <2>2, <2>3, <2>4
       DEF OfHandler, Making, Cleaning, Deleting, DeletePcs, Starting, Named, At, NoBranch
  <2>7. TypeOK'
    <3>1. \A commits \in SUBSET Commits : Earlier(commits) \in SUBSET Commits
      BY WorktreeAssumption DEF Earlier, Commits
    <3>2. /\ head' = [head EXCEPT ![s] = {}]
          /\ staged' = [staged EXCEPT ![s] = Earlier(staged[s])]
          /\ unmerged' = [unmerged EXCEPT ![s] = Earlier(unmerged[s])]
          /\ loose' = [loose EXCEPT ![s] = Earlier(loose[s])]
          /\ edit' = edit
      BY <1>3 DEF MakeBranch
    <3>3. BaseType'
      BY <1>1, <3>1, <3>2 DEF BaseType, TypeOK
    <3>4. tip' \in [Sessions -> NoBranch..MaxCommits]
      BY <1>1, <2>1, WorktreeAssumption DEF TypeOK, NoBranch
    <3> QED BY <1>1, <2>1, <2>4, <3>3, <3>4 DEF TypeOK, BaseType, Calls, Aside
  <2> QED BY <1>1, <2>4, <2>5, <2>6, <2>7, Locally
<1> QED BY <1>2, <1>3

LEMMA GitFailsStep ==
  ASSUME IInv, NEW h \in Handlers, NEW s, s = call[h].s, GitFails(h)
  PROVE  IInv'
<1>1. TypeOK /\ UNCHANGED <<row, tip, dir, base, run, gone>> /\ budget' \in 0..Budget
  BY SpendType DEF IInv, GitFails, NoGit
<1>2. CASE At(h, "branch") /\ Goto(h, "unmake")
  <2>0. ~At(h, "free")
    BY <1>2 DEF At
  <2>1. /\ call[h] \in Call /\ s \in Sessions /\ OfSession(s) /\ OfHandler(h)
        /\ call[h].op # "delete" /\ call[h].row \in RowIds
    BY <1>2, <2>0, Start DEF OfHandler, Deleting, DeletePcs, Named, RowPcs, MakePcs, At
  <2>2. PICK c \in Call : /\ c.s = s /\ call' = [call EXCEPT ![h] = c]
                          /\ c.pc = "unmake" /\ c.op = call[h].op
                          /\ c.row = call[h].row
    BY <1>2, <2>0, Goes DEF Pc
  <2>3. Only(h, s) /\ call'[h] = c /\ call' \in Calls
    BY <1>1, <2>0, <2>2, Alonely
  <2>4. OfSession(s)'
    BY <1>1, <1>2, <2>0, <2>2, <2>3, SameRows DEF There, MakePcs
  <2>5. OfHandler(h)'
    BY <2>1, <2>2, <2>3
       DEF OfHandler, Making, Cleaning, Deleting, DeletePcs, Starting, Named, At
  <2>6. TypeOK'
    BY <1>1, <2>1, <2>3, BaseStays DEF TypeOK, BaseType, Calls
  <2> QED BY <1>1, <2>1, <2>3, <2>4, <2>5, <2>6, Locally
<1>3. CASE ~(At(h, "branch") /\ Goto(h, "unmake"))
  <2>1. (\E pc \in QuietPcs : Goto(h, pc)) \/ Done(h)
    BY <1>3 DEF GitFails, At, QuietPcs, Pc, Special, RowPcs, MakePcs, DeletePcs
  <2>2. call[h].pc \in MergeWork \cup {"check"}
    BY <1>3 DEF GitFails, At, MergeWork
  <2> QED BY <1>1, <2>1, <2>2, BaseStays, Bare DEF base
<1> QED BY <1>2, <1>3

LEMMA AddWorktreeStep ==
  ASSUME IInv, NEW h \in Handlers, NEW s, s = call[h].s, AddWorktree(h)
  PROVE  IInv'
<1>0. ~At(h, "free") /\ At(h, "add")
  BY DEF AddWorktree, At
<1>1. /\ TypeOK /\ call[h] \in Call /\ s \in Sessions
      /\ OfSession(s) /\ OfHandler(h) /\ call[h].op # "delete" /\ call[h].row \in RowIds
      /\ tip[s] # NoBranch
  BY <1>0, Start DEF OfHandler, Deleting, DeletePcs, Named, RowPcs, MakePcs, At, Making
<1>2. UNCHANGED <<row, tip, base, run, gone>> /\ BaseType'
  BY <1>1, BaseStays DEF AddWorktree
<1>3. CASE dir' = [dir EXCEPT ![s] = "worktree"] /\ Goto(h, "activate") /\ UNCHANGED budget
  <2>1. PICK c \in Call : /\ c.s = s /\ call' = [call EXCEPT ![h] = c]
                          /\ c.pc = "activate" /\ c.op = call[h].op
                          /\ c.row = call[h].row
    BY <1>0, <1>3, Goes DEF Pc
  <2>2. dir'[s] = "worktree" /\ \A t \in Sessions \ {s} : dir'[t] = dir[t]
    BY <1>1, <1>3 DEF TypeOK
  <2>3. Only(h, s) /\ call'[h] = c /\ call' \in Calls
    BY <1>0, <1>2, <2>1, <2>2, Alonely
  <2>4. OfSession(s)'
    BY <1>0, <1>2, <2>1, <2>2, <2>3, SameRows DEF There, MakePcs
  <2>5. OfHandler(h)'
    BY <1>1, <1>2, <2>1, <2>2, <2>3
       DEF OfHandler, Making, Cleaning, Deleting, DeletePcs, Starting, Named, At, There
  <2>6. TypeOK'
    BY <1>1, <1>2, <1>3, <2>3 DEF TypeOK, BaseType, Calls
  <2> QED BY <1>1, <2>3, <2>4, <2>5, <2>6, Locally
<1>4. CASE Spend("fault") /\ Goto(h, "unmake") /\ UNCHANGED dir
  <2>1. PICK c \in Call : /\ c.s = s /\ call' = [call EXCEPT ![h] = c]
                          /\ c.pc = "unmake" /\ c.op = call[h].op
                          /\ c.row = call[h].row
    BY <1>0, <1>4, Goes DEF Pc
  <2>3. Only(h, s) /\ call'[h] = c /\ call' \in Calls
    BY <1>0, <1>2, <1>4, <2>1, Alonely
  <2>4. OfSession(s)'
    BY <1>0, <1>2, <1>4, <2>1, <2>3, SameRows DEF There, MakePcs
  <2>5. OfHandler(h)'
    BY <1>1, <2>1, <2>3
       DEF OfHandler, Making, Cleaning, Deleting, DeletePcs, Starting, Named, At
  <2>6. TypeOK'
    BY <1>1, <1>2, <1>4, <2>3, SpendType DEF TypeOK, BaseType, Calls
  <2> QED BY <1>1, <2>3, <2>4, <2>5, <2>6, Locally
<1> QED BY <1>3, <1>4 DEF AddWorktree

\* A worktree is made, or its making is given up.
LEMMA Settles ==
  ASSUME IInv, NEW h \in Handlers, NEW s, s = call[h].s, call[h].pc \in {"activate", "unmake"},
         NEW to \in {"active", "cleanup_failed"},
         to = "active" => At(h, "activate"),
         IF row[s][call[h].row].status = "creating"
         THEN SetStatus(s, call[h].row, to) ELSE UNCHANGED row,
         NEW c \in Call, c.s = s, call' = [call EXCEPT ![h] = c],
         c.op # "delete", c.pc \in {"free", "start"},
         c.pc = "start" => At(h, "activate"),
         NoGit, Aside
  PROVE  IInv'
<1> DEFINE i == call[h].row
<1>0. ~At(h, "free") /\ call[h].pc \in MakePcs /\ call[h].pc \notin DeletePcs
  BY DEF At, MakePcs, DeletePcs
<1>1. /\ TypeOK /\ call[h] \in Call /\ s \in Sessions /\ row \in Rows
      /\ OfSession(s) /\ OfHandler(h) /\ call[h].op # "delete" /\ i \in RowIds
  BY <1>0, Start DEF OfHandler, Deleting, Named, RowPcs
<1>2. UNCHANGED <<tip, dir, base, run, gone, budget>> /\ BaseType'
  BY <1>1, BaseStays DEF NoGit, Aside
<1>3. CASE row[s][i].status = "creating"
  <2>1. /\ row' = [row EXCEPT ![s][i].status = to] /\ row' \in Rows
        /\ \A t \in Sessions \ {s} : row'[t] = row[t]
        /\ row'[s][i].status = to
        /\ \A j \in RowIds \ {i} : row'[s][j] = row[s][j]
    <3>1. row' = [row EXCEPT ![s][i].status = to]
      BY <1>3 DEF SetStatus
    <3>2. row' \in Rows
      BY <1>1, <3>1, RowTypes DEF Status
    <3>3. row[s] \in [RowIds -> Row] /\ row[s][i] \in Row
      BY <1>1 DEF Rows
    <3> QED BY <1>1, <3>1, <3>2, <3>3 DEF Rows, Row
  <2>2. Only(h, s) /\ call'[h] = c /\ call' \in Calls
    BY <1>0, <1>2, <2>1, Alonely
  <2>3. \A j \in RowIds \ {i} : row[s][j].status \notin Live
    BY <1>1, <1>3 DEF OfSession, OneLive, Live
  <2>4. OneLive(s)'
    BY <2>1, <2>3 DEF OneLive
  <2>5. Intact(s)'
    <3>1. \A j \in RowIds \ {i} : row'[s][j].status \notin InUse
      BY <2>1, <2>3 DEF InUse, ForWorkspace, Live
    <3>2. CASE to = "active"
      BY <1>1, <1>2, <3>2 DEF OfHandler, Making, There, Intact
    <3>3. CASE to = "cleanup_failed"
      <4>1. \A j \in RowIds : row'[s][j].status \notin InUse
        BY <2>1, <3>1, <3>3 DEF InUse, ForWorkspace
      <4> QED BY <4>1 DEF Intact
    <3> QED BY <3>2, <3>3
  <2>6. Attended(s)'
    BY <2>1, <2>3 DEF Attended, Live
  <2>7. OfHandler(h)'
    <3>1. c.pc = "start" => dir'[s] = "worktree"
      BY <1>1, <1>2 DEF OfHandler, Making, There
    <3> QED BY <2>2, <3>1
            DEF OfHandler, Making, Cleaning, Deleting, DeletePcs, Starting, Named, At,
                RowPcs, MakePcs
  <2>8. TypeOK'
    BY <1>1, <1>2, <2>1, <2>2 DEF TypeOK, BaseType, Calls, Rows
  <2> QED BY <1>1, <2>2, <2>4, <2>5, <2>6, <2>7, <2>8, Locally DEF OfSession
<1>4. CASE row[s][i].status # "creating"
  <2>1. UNCHANGED row
    BY <1>4
  <2>2. Only(h, s) /\ call'[h] = c /\ call' \in Calls
    BY <1>0, <1>2, <2>1, Alonely
  <2>3. OfSession(s)'
    BY <1>0, <1>1, <1>2, <1>4, <2>1, <2>2, SameRows DEF There
  <2>4. OfHandler(h)'
    <3>1. c.pc = "start" => dir'[s] = "worktree"
      BY <1>1, <1>2 DEF OfHandler, Making, There
    <3> QED BY <2>2, <3>1
            DEF OfHandler, Making, Cleaning, Deleting, DeletePcs, Starting, Named, At,
                RowPcs, MakePcs
  <2>5. TypeOK'
    BY <1>1, <1>2, <2>1, <2>2 DEF TypeOK, BaseType, Calls
  <2> QED BY <1>1, <2>2, <2>3, <2>4, <2>5, Locally
<1> QED BY <1>3, <1>4

LEMMA ActivateStep ==
  ASSUME IInv, NEW h \in Handlers, NEW s, s = call[h].s, Activate(h)
  PROVE  IInv'
<1> DEFINE c == [call[h] EXCEPT !.pc = "start", !.path = "worktree"]
<1>0. ~At(h, "free") /\ At(h, "activate") /\ NoGit /\ Aside
  BY DEF Activate, At
<1>1. TypeOK /\ call[h] \in Call /\ call[h].op # "delete"
  BY <1>0, Start DEF OfHandler, Deleting, DeletePcs, At
<1>2. IF row[s][call[h].row].status = "creating"
      THEN SetStatus(s, call[h].row, "active") ELSE UNCHANGED row
  BY DEF Activate
<1>3. CASE Done(h)
  <2>1. PICK d \in Call : /\ d.s = s /\ call' = [call EXCEPT ![h] = d]
                          /\ d.pc = "free" /\ d.op = "none"
    BY <1>0, <1>3, Goes
  <2> QED BY <1>0, <1>2, <2>1, Settles DEF At
<1>4. CASE call' = [call EXCEPT ![h].pc = "start", ![h].path = "worktree"]
  <2>1. c \in Call /\ c.s = s /\ c.pc = "start" /\ c.op # "delete"
    BY <1>1 DEF Call, Pc
  <2>2. call' = [call EXCEPT ![h] = c]
    BY <1>1, <1>4 DEF TypeOK, Call
  <2> HIDE DEF c
  <2> QED BY <1>0, <1>2, <2>1, <2>2, Settles DEF At
<1> QED BY <1>3, <1>4 DEF Activate

LEMMA UnmakeStep ==
  ASSUME IInv, NEW h \in Handlers, NEW s, s = call[h].s, Unmake(h)
  PROVE  IInv'
<1>0. ~At(h, "free") /\ At(h, "unmake") /\ NoGit /\ Aside /\ Done(h)
  BY DEF Unmake, At
<1>1. IF row[s][call[h].row].status = "creating"
      THEN SetStatus(s, call[h].row, "cleanup_failed") ELSE UNCHANGED row
  BY DEF Unmake
<1>2. PICK d \in Call : /\ d.s = s /\ call' = [call EXCEPT ![h] = d]
                        /\ d.pc = "free" /\ d.op = "none"
  BY <1>0, Goes
<1> QED BY <1>0, <1>1, <1>2, Settles DEF At

LEMMA StartRunStep ==
  ASSUME IInv, NEW h \in Handlers, NEW s, s = call[h].s, StartRun(h)
  PROVE  IInv'
<1>0. ~At(h, "free") /\ At(h, "start") /\ Done(h)
  BY DEF StartRun, At
<1>1. /\ TypeOK /\ call[h] \in Call /\ s \in Sessions
      /\ OfSession(s) /\ OfHandler(h) /\ call[h].op # "delete"
  BY <1>0, Start DEF OfHandler, Deleting, DeletePcs, At
<1>2. UNCHANGED <<row, tip, base, gone, budget>> /\ BaseType'
  BY <1>1, BaseStays DEF StartRun
<1>3. PICK c \in Call : /\ c.s = s /\ call' = [call EXCEPT ![h] = c]
                        /\ c.pc = "free" /\ c.op = "none"
  BY <1>0, Goes
<1>4. /\ \A t \in Sessions \ {s} : dir'[t] = dir[t]
      /\ dir[s] = "worktree" => dir'[s] = "worktree"
      /\ dir' \in [Sessions -> {"none", "plain", "worktree"}]
      /\ run' \in [Sessions -> {"none", "base", "worktree"}]
  BY <1>1 DEF StartRun, TypeOK, Call
<1>5. Only(h, s) /\ call'[h] = c /\ call' \in Calls
  BY <1>0, <1>2, <1>3, <1>4, Alonely
<1>6. OfSession(s)'
  BY <1>0, <1>1, <1>2, <1>4, <1>5, SameRows DEF There, MakePcs, At
<1>7. OfHandler(h)'
  BY <1>3, <1>5
     DEF OfHandler, Making, Cleaning, Deleting, DeletePcs, Starting, Named, At, RowPcs,
         MakePcs
<1>8. TypeOK'
  BY <1>1, <1>2, <1>4, <1>5 DEF TypeOK, BaseType, Calls
<1> QED BY <1>1, <1>5, <1>6, <1>7, <1>8, Locally


-------------------------------------------------------------------------------
(* The removal of a worktree. *)

LEMMA RemoveWorktreeStep ==
  ASSUME IInv, NEW h \in Handlers, NEW s, s = call[h].s, RemoveWorktree(h)
  PROVE  IInv'
<1>0. ~At(h, "free") /\ At(h, "remove")
  BY DEF RemoveWorktree, At
<1>1. /\ TypeOK /\ call[h] \in Call /\ s \in Sessions
      /\ OfSession(s) /\ OfHandler(h) /\ call[h].op # "delete" /\ call[h].row \in RowIds
      /\ \A i \in RowIds : row[s][i].status \notin InUse
  BY <1>0, Start DEF OfHandler, Deleting, DeletePcs, Named, RowPcs, Cleaning, At
<1>2. UNCHANGED <<row, tip, base, run, gone>> /\ BaseType' /\ budget' \in 0..Budget
  BY <1>1, BaseStays, SpendType DEF RemoveWorktree
<1>3. /\ dir' \in [Sessions -> {"none", "plain", "worktree"}]
      /\ \A t \in Sessions \ {s} : dir'[t] = dir[t]
  BY <1>1 DEF RemoveWorktree, Removed, TypeOK
<1>4. PICK pc \in {"unbranch", "fail"} : Goto(h, pc)
  BY DEF RemoveWorktree
<1>5. PICK c \in Call : /\ c.s = s /\ call' = [call EXCEPT ![h] = c]
                        /\ c.pc = pc /\ c.op = call[h].op /\ c.row = call[h].row
  BY <1>0, <1>4, Goes DEF Pc
<1>6. Only(h, s) /\ call'[h] = c /\ call' \in Calls
  BY <1>0, <1>2, <1>3, <1>5, Alonely
<1>7. OfSession(s)'
  BY <1>0, <1>1, <1>2, <1>5, <1>6, SameRows DEF MakePcs, At
<1>8. OfHandler(h)'
  BY <1>1, <1>2, <1>5, <1>6
     DEF OfHandler, Making, Cleaning, Deleting, DeletePcs, Starting, Named, At
<1>9. TypeOK'
  BY <1>1, <1>2, <1>3, <1>6 DEF TypeOK, BaseType, Calls
<1> QED BY <1>1, <1>6, <1>7, <1>8, <1>9, Locally

LEMMA UnbranchStep ==
  ASSUME IInv, NEW h \in Handlers, NEW s, s = call[h].s, Unbranch(h)
  PROVE  IInv'
<1>0. ~At(h, "free") /\ At(h, "unbranch")
  BY DEF Unbranch, At
<1>1. /\ TypeOK /\ call[h] \in Call /\ s \in Sessions
      /\ OfSession(s) /\ OfHandler(h) /\ call[h].op # "delete" /\ call[h].row \in RowIds
      /\ \A i \in RowIds : row[s][i].status \notin InUse
  BY <1>0, Start DEF OfHandler, Deleting, DeletePcs, Named, RowPcs, Cleaning, At
<1>2. UNCHANGED <<row, dir, base, run, gone>> /\ BaseType' /\ budget' \in 0..Budget
  BY <1>1, BaseStays, SpendType DEF Unbranch, DeleteBranch
<1>3. /\ tip' \in [Sessions -> NoBranch..MaxCommits]
      /\ \A t \in Sessions \ {s} : tip'[t] = tip[t]
  BY <1>1, WorktreeAssumption DEF Unbranch, DeleteBranch, TypeOK, NoBranch
<1>4. Goto(h, "archive") \/ Done(h)
  BY DEF Unbranch, DeleteBranch
<1>5. PICK c \in Call : /\ c.s = s /\ call' = [call EXCEPT ![h] = c]
                        /\ \/ c.pc = "archive" /\ c.op = call[h].op /\ c.row = call[h].row
                           \/ c.pc = "free" /\ c.op = "none"
  BY <1>0, <1>4, Goes DEF Pc
<1>6. Only(h, s) /\ call'[h] = c /\ call' \in Calls
  BY <1>0, <1>2, <1>3, <1>5, Alonely
<1>7. OfSession(s)'
  BY <1>0, <1>1, <1>2, <1>5, <1>6, SameRows DEF MakePcs, At
<1>8. OfHandler(h)'
  BY <1>1, <1>5, <1>6
     DEF OfHandler, Making, Cleaning, Deleting, DeletePcs, Starting, Named, At, RowPcs,
         MakePcs
<1>9. TypeOK'
  BY <1>1, <1>2, <1>3, <1>6 DEF TypeOK, BaseType, Calls
<1> QED BY <1>1, <1>6, <1>7, <1>8, <1>9, Locally

\* A cleanup ends.
LEMMA CleanupEnds ==
  ASSUME IInv, NEW h \in Handlers, NEW s, s = call[h].s,
         call[h].pc \in {"fail", "archive"}, NEW to \in {"cleanup_failed", "archived"},
         IF row[s][call[h].row].status = "cleanup_pending"
         THEN MoveClearing(s, call[h].row, to) ELSE UNCHANGED row,
         Done(h), NoGit, Aside
  PROVE  IInv'
<1> DEFINE i == call[h].row
<1>0. ~At(h, "free") /\ call[h].pc \notin MakePcs \cup DeletePcs
  BY DEF At, MakePcs, DeletePcs
<1>1. /\ TypeOK /\ call[h] \in Call /\ s \in Sessions /\ row \in Rows
      /\ OfSession(s) /\ OfHandler(h) /\ call[h].op # "delete" /\ i \in RowIds
  BY <1>0, Start DEF OfHandler, Deleting, Named, RowPcs
<1>2. UNCHANGED <<tip, dir, base, run, gone, budget>> /\ BaseType'
  BY <1>1, BaseStays DEF NoGit, Aside
<1>3. PICK c \in Call : /\ c.s = s /\ call' = [call EXCEPT ![h] = c]
                        /\ c.pc = "free" /\ c.op = "none"
  BY <1>0, Goes
<1>4. /\ row' \in Rows /\ \A t \in Sessions \ {s} : row'[t] = row[t]
      /\ \A j \in RowIds : row'[s][j].status # row[s][j].status
           => row'[s][j].status = to
  <2>1. CASE row[s][i].status = "cleanup_pending"
    <3>1. row' = [row EXCEPT ![s][i].status = to, ![s][i].squash = FALSE]
      BY <2>1 DEF MoveClearing
    <3>2. row' \in Rows
      BY <1>1, <3>1, RowTypes DEF Status
    <3>3. row[s] \in [RowIds -> Row] /\ row[s][i] \in Row
      BY <1>1 DEF Rows
    <3> QED BY <1>1, <3>1, <3>2, <3>3 DEF Rows, Row
  <2>2. CASE row[s][i].status # "cleanup_pending"
    BY <1>1, <2>2
  <2> QED BY <2>1, <2>2
<1>5. Only(h, s) /\ call'[h] = c /\ call' \in Calls
  BY <1>0, <1>2, <1>3, <1>4, Alonely
<1>6. OneLive(s)'
  BY <1>1, <1>4 DEF OfSession, OneLive, Live
<1>7. BeingDeleted(s) => BeingDeleted(s)'
  <2> SUFFICES ASSUME NEW g \in Handlers, call[g].op = "delete", call[g].s = s
               PROVE  call'[g] = call[g]
    BY DEF BeingDeleted
  <2> QED BY <1>1, <1>5 DEF Only
<1>8. Intact(s)'
  BY <1>1, <1>2, <1>4, <1>7 DEF OfSession, Intact, There, InUse, ForWorkspace
<1>9. Attended(s)'
  <2> SUFFICES ASSUME NEW g \in Handlers, call[g].s = s, call[g].pc \in MakePcs
               PROVE  call'[g] = call[g]
    BY <1>1, <1>4 DEF OfSession, Attended
  <2> QED BY <1>0, <1>5 DEF Only
<1>10. OfHandler(h)'
  BY <1>3, <1>5
     DEF OfHandler, Making, Cleaning, Deleting, DeletePcs, Starting, Named, At, RowPcs,
         MakePcs
<1>11. TypeOK'
  BY <1>1, <1>2, <1>4, <1>5 DEF TypeOK, BaseType, Calls, Rows
<1> QED BY <1>1, <1>5, <1>6, <1>8, <1>9, <1>10, <1>11, Locally DEF OfSession

LEMMA FailStep ==
  ASSUME IInv, NEW h \in Handlers, NEW s, s = call[h].s, Fail(h)
  PROVE  IInv'
BY CleanupEnds DEF Fail, At

LEMMA ArchiveStep ==
  ASSUME IInv, NEW h \in Handlers, NEW s, s = call[h].s, Archive(h)
  PROVE  IInv'
BY CleanupEnds DEF Archive, At

LEMMA WipeStep ==
  ASSUME IInv, NEW h \in Handlers, NEW s, s = call[h].s, Wipe(h)
  PROVE  IInv'
<1>0. ~At(h, "free") /\ At(h, "wipe")
  BY DEF Wipe, At
<1>1. /\ TypeOK /\ call[h] \in Call /\ s \in Sessions
      /\ OfSession(s) /\ OfHandler(h) /\ call[h].op = "delete" /\ "delete" \in Events
  BY <1>0, Start DEF OfHandler, Deleting, DeletePcs, At
<1>2. UNCHANGED <<row, tip, base, run, gone>> /\ BaseType' /\ budget' \in 0..Budget
  BY <1>1, BaseStays, SpendType DEF Wipe
<1>3. /\ dir' \in [Sessions -> {"none", "plain", "worktree"}]
      /\ \A t \in Sessions \ {s} : dir'[t] = dir[t]
      /\ dir'[s] # "worktree"
  BY <1>1 DEF Wipe, Removed, TypeOK
<1>4. Goto(h, "wipebranch")
  BY DEF Wipe
<1>5. PICK c \in Call : /\ c.s = s /\ call' = [call EXCEPT ![h] = c]
                        /\ c.pc = "wipebranch" /\ c.op = call[h].op
  BY <1>0, <1>4, Goes DEF Pc
<1>6. Only(h, s) /\ call'[h] = c /\ call' \in Calls
  BY <1>0, <1>2, <1>3, <1>5, Alonely
<1>7. BeingDeleted(s)'
  BY <1>1, <1>5, <1>6 DEF BeingDeleted
<1>8. OfSession(s)'
  BY <1>0, <1>1, <1>2, <1>5, <1>6, <1>7, SameRows DEF MakePcs, At
<1>9. OfHandler(h)'
  BY <1>1, <1>3, <1>5, <1>6
     DEF OfHandler, Making, Cleaning, Deleting, DeletePcs, Starting, Named, At, RowPcs,
         MakePcs
<1>10. TypeOK'
  BY <1>1, <1>2, <1>3, <1>6 DEF TypeOK, BaseType, Calls
<1> QED BY <1>1, <1>6, <1>8, <1>9, <1>10, Locally

\* Only where deletions are cut short.
LEMMA WipeFailsStep ==
  ASSUME IInv, NEW h \in Handlers, NEW s, s = call[h].s, WipeFails(h)
  PROVE  IInv'
<1>0. ~At(h, "free") /\ At(h, "wipe") /\ Done(h) /\ "wipefault" \in Events
  BY DEF WipeFails, Spend, At
<1>1. /\ TypeOK /\ call[h] \in Call /\ s \in Sessions
      /\ OfSession(s) /\ OfHandler(h) /\ "delete" \in Events
  BY <1>0, Start DEF OfHandler, Deleting, DeletePcs, At
<1>2. UNCHANGED <<row, tip, base, run, gone>> /\ BaseType' /\ budget' \in 0..Budget
  BY <1>1, BaseStays, SpendType DEF WipeFails
<1>3. ~Whole
  BY <1>0, <1>1 DEF Whole
<1>4. PICK c \in Call : /\ c.s = s /\ call' = [call EXCEPT ![h] = c]
                        /\ c.pc = "free" /\ c.op = "none"
  BY <1>0, Goes
<1>5. /\ dir' \in [Sessions -> {"none", "plain", "worktree"}]
      /\ \A t \in Sessions \ {s} : dir'[t] = dir[t]
  BY <1>1 DEF WipeFails, Removed, TypeOK
<1>6. Only(h, s) /\ call'[h] = c /\ call' \in Calls
  BY <1>0, <1>2, <1>4, <1>5, Alonely
<1>7. OfSession(s)'
  BY <1>0, <1>2, <1>3, <1>6, SameRows DEF MakePcs, At
<1>8. OfHandler(h)'
  BY <1>4, <1>6
     DEF OfHandler, Making, Cleaning, Deleting, DeletePcs, Starting, Named, At, RowPcs,
         MakePcs
<1>9. TypeOK'
  BY <1>1, <1>2, <1>5, <1>6 DEF TypeOK, BaseType, Calls
<1> QED BY <1>1, <1>6, <1>7, <1>8, <1>9, Locally

LEMMA WipeBranchStep ==
  ASSUME IInv, NEW h \in Handlers, NEW s, s = call[h].s, WipeBranch(h)
  PROVE  IInv'
<1>0. ~At(h, "free") /\ At(h, "wipebranch")
  BY DEF WipeBranch, At
<1>1. /\ TypeOK /\ call[h] \in Call /\ s \in Sessions
      /\ OfSession(s) /\ OfHandler(h) /\ call[h].op = "delete" /\ "delete" \in Events
      /\ dir[s] # "worktree"
  BY <1>0, Start DEF OfHandler, Deleting, DeletePcs, At
<1>2. UNCHANGED <<row, dir, base, run, gone>> /\ BaseType'
  BY <1>1, BaseStays DEF WipeBranch
<1>3. /\ budget' \in 0..Budget
      /\ Whole => Goto(h, "cascade")
      /\ Goto(h, "cascade") \/ Done(h)
      /\ UNCHANGED tip \/ tip' = [tip EXCEPT ![s] = NoBranch]
  <2>1. Whole => ~Spend("branchfault")
    BY <1>1 DEF Spend, Whole
  <2> QED BY <1>1, <2>1, SpendType DEF WipeBranch, DeleteBranch
<1>4. PICK c \in Call : /\ c.s = s /\ call' = [call EXCEPT ![h] = c]
                        /\ \/ c.pc = "cascade" /\ c.op = call[h].op
                           \/ ~Whole /\ c.pc = "free" /\ c.op = "none"
  <2>1. CASE Goto(h, "cascade")
    BY <1>0, <2>1, Goes DEF Pc
  <2>2. CASE ~Whole /\ Done(h)
    BY <1>0, <2>2, Goes
  <2> QED BY <1>3, <2>1, <2>2
<1>5. /\ tip' \in [Sessions -> NoBranch..MaxCommits]
      /\ \A t \in Sessions \ {s} : tip'[t] = tip[t]
  BY <1>1, <1>3, WorktreeAssumption DEF TypeOK, NoBranch
<1>6. Only(h, s) /\ call'[h] = c /\ call' \in Calls
  BY <1>0, <1>2, <1>4, <1>5, Alonely
<1>7. Whole => BeingDeleted(s)'
  BY <1>1, <1>4, <1>6 DEF BeingDeleted
<1>8. OfSession(s)'
  <2>1. Whole /\ call[h].op = "delete" => call'[h].op = "delete"
    BY <1>4, <1>6
  <2>2. call[h].pc \notin MakePcs /\ \A i \in RowIds : row'[s][i].status = row[s][i].status
    BY <1>0, <1>2 DEF MakePcs, At
  <2> QED BY <1>0, <1>6, <1>7, <2>1, <2>2, SameRows
<1>9. OfHandler(h)'
  BY <1>1, <1>4, <1>6
     DEF OfHandler, Making, Cleaning, Deleting, DeletePcs, Starting, Named, At, RowPcs,
         MakePcs
<1>10. TypeOK'
  BY <1>1, <1>2, <1>3, <1>5, <1>6 DEF TypeOK, BaseType, Calls
<1> QED BY <1>1, <1>6, <1>8, <1>9, <1>10, Locally

LEMMA CascadeStep ==
  ASSUME IInv, NEW h \in Handlers, NEW s, s = call[h].s, Cascade(h)
  PROVE  IInv'
<1>0. ~At(h, "free") /\ At(h, "cascade") /\ Done(h)
  BY DEF Cascade, At
<1>1. TypeOK /\ call[h] \in Call /\ s \in Sessions /\ row \in Rows
  BY <1>0, Start
<1>2. UNCHANGED <<tip, dir, base, run, budget>> /\ BaseType' /\ gone' = gone \cup {s}
  BY <1>1, BaseStays DEF Cascade, NoGit
<1>3. PICK c \in Call : /\ c.s = s /\ call' = [call EXCEPT ![h] = c]
                        /\ c.pc = "free" /\ c.op = "none"
  BY <1>0, Goes
<1>4. row' = [row EXCEPT ![s] = [i \in RowIds |-> NoneRow]]
  BY DEF Cascade
<1>5. /\ row' \in Rows /\ \A t \in Sessions \ {s} : row'[t] = row[t]
      /\ \A i \in RowIds : row'[s][i].status = "none"
  BY <1>1, <1>4, RowTypes DEF Rows, NoneRow
<1>6. Only(h, s) /\ call'[h] = c /\ call' \in Calls
  BY <1>0, <1>2, <1>3, <1>5, Alonely
<1>7. OfSession(s)'
  BY <1>5 DEF OfSession, OneLive, Intact, Attended, Live, InUse, ForWorkspace
<1>8. OfHandler(h)'
  BY <1>3, <1>6
     DEF OfHandler, Making, Cleaning, Deleting, DeletePcs, Starting, Named, At, RowPcs,
         MakePcs
<1>9. TypeOK'
  BY <1>1, <1>2, <1>5, <1>6 DEF TypeOK, BaseType, Calls, Rows
<1> QED BY <1>1, <1>6, <1>7, <1>8, <1>9, Locally

-------------------------------------------------------------------------------
(* Requests. *)

\* A refresh moves a merged row to another status in which it is in use.
LEMMA RefreshStands ==
  ASSUME TypeOK, NEW s \in Sessions, Refresh(s)
  PROVE  /\ row' \in Rows /\ \A t \in Sessions \ {s} : row'[t] = row[t]
         /\ \A i \in RowIds : Standing(row[s][i].status, row'[s][i].status)
<1>1. CASE UNCHANGED row
  BY <1>1, RowsStay
<1>2. CASE Latest(s) # NoRow /\ row[s][Latest(s)].status = "merged"
             /\ SetStatus(s, Latest(s), "dirty")
  <2>1. Latest(s) \in RowIds
    BY <1>2, LatestIsRow
  <2>2. row[s][Latest(s)] \in Row
    BY <2>1 DEF TypeOK
  <2>3. [row[s][Latest(s)] EXCEPT !.status = "dirty"] \in Row
    BY <2>2 DEF Row, Status
  <2>4. row' = [row EXCEPT ![s][Latest(s)] =
                  [row[s][Latest(s)] EXCEPT !.status = "dirty"]]
    BY <1>2 DEF SetStatus
  <2>5. Standing(row[s][Latest(s)].status,
                 [row[s][Latest(s)] EXCEPT !.status = "dirty"].status)
    BY <1>2, <2>2 DEF Standing, InUse, ForWorkspace, Row
  <2> QED BY <2>1, <2>3, <2>4, <2>5, RowEdited
<1> QED BY <1>1, <1>2 DEF Refresh

\* Requests that begin without writing a row.
LEMMA RequestsQuietly ==
  ASSUME IInv, OneAtATime, NEW h \in Handlers, NEW s \in Sessions,
         NEW op \in {"merge", "continue", "abort"},
         NEW pc \in {"check", "verify", "reset"},
         Begin(h, s, NewCall(op, s, pc, ActiveRow(s))), Request(s),
         UNCHANGED <<row, run, gone>>, NoGit
  PROVE  IInv'
<1> DEFINE c == NewCall(op, s, pc, ActiveRow(s))
<1>1. TypeOK /\ OneLive(s) /\ ~Serving(s) /\ UNCHANGED budget
  BY OnlyOne DEF IInv, OfSession
<1>2. ActiveRow(s) \in RowIds \cup {NoRow}
  BY <1>1, ActiveIsLive
<1>3. c \in Call /\ c.op = op /\ c.s = s /\ c.pc = pc
  BY <1>1, <1>2, NewCallType DEF Pc
<1> HIDE DEF c
<1>4. UNCHANGED <<tip, dir>> /\ BaseType'
  BY <1>1, BaseStays DEF NoGit
<1>5. /\ Only(h, s) /\ call'[h] = c /\ call' \in Calls
      /\ call[h].op # "delete" /\ call[h].pc \notin MakePcs
  BY <1>1, <1>3, <1>4, AtEase DEF c
<1>6. TypeOK'
  BY <1>1, <1>4, <1>5 DEF TypeOK, BaseType, Calls
<1>7. Named(h)' /\ call'[h].pc \notin Special /\ call'[h].op # "delete"
  BY <1>3, <1>5 DEF Named, RowPcs, MakePcs, Special, DeletePcs
<1> QED BY <1>1, <1>4, <1>5, <1>6, <1>7, RowsStay, Quietly

LEMMA RequestMergeStep ==
  ASSUME IInv, OneAtATime, NEW h \in Handlers, NEW s \in Sessions, RequestMerge(h, s)
  PROVE  IInv'
BY RequestsQuietly DEF RequestMerge

LEMMA RequestContinueStep ==
  ASSUME IInv, OneAtATime, NEW h \in Handlers, NEW s \in Sessions, RequestContinue(h, s)
  PROVE  IInv'
BY RequestsQuietly DEF RequestContinue

LEMMA RequestAbortStep ==
  ASSUME IInv, OneAtATime, NEW h \in Handlers, NEW s \in Sessions, RequestAbort(h, s)
  PROVE  IInv'
BY RequestsQuietly DEF RequestAbort

\* Requests that begin by giving a row a new status while no other is live.
LEMMA RowBegins ==
  ASSUME IInv, OneAtATime, NEW h \in Handlers, NEW s \in Sessions, ~Serving(s),
         NEW c \in Call, c.s = s, c.op # "delete", Begin(h, s, c),
         NEW i \in RowIds, c.row = i,
         \A j \in RowIds \ {i} : row[s][j].status \notin Live,
         NEW r \in Row, row' = [row EXCEPT ![s][i] = r],
         \/ r.status = "creating" /\ c.pc = "branch"
         \/ r.status = "cleanup_pending" /\ c.pc = "remove",
         budget' \in 0..Budget, NoGit, UNCHANGED <<run, gone>>
  PROVE  IInv'
<1>1. TypeOK /\ row \in Rows
  BY DEF IInv, TypeOK, Rows
<1>2. /\ row' \in Rows /\ \A t \in Sessions \ {s} : row'[t] = row[t]
      /\ row'[s][i] = r /\ \A j \in RowIds \ {i} : row'[s][j] = row[s][j]
  BY <1>1 DEF Rows
<1>3. UNCHANGED <<tip, dir>> /\ BaseType'
  BY <1>1, BaseStays DEF NoGit
<1>4. Only(h, s) /\ call'[h] = c /\ call' \in Calls
  BY <1>2, <1>3, AtEase
<1>5. \A j \in RowIds : row'[s][j].status \notin InUse
  BY <1>2 DEF InUse, ForWorkspace, Live
<1>6. OneLive(s)' /\ Intact(s)'
  BY <1>2, <1>5 DEF OneLive, Intact
<1>7. Attended(s)'
  <2>1. \A j \in RowIds : row'[s][j].status = "creating" => j = i /\ c.pc = "branch"
    BY <1>2 DEF Live
  <2> QED BY <1>4, <2>1 DEF Attended, MakePcs
<1>8. OfHandler(h)'
  BY <1>4, <1>5
     DEF OfHandler, Making, Cleaning, Deleting, DeletePcs, Starting, Named, At
<1>9. TypeOK'
  BY <1>1, <1>2, <1>3, <1>4 DEF TypeOK, BaseType, Calls, Rows
<1> QED BY <1>4, <1>6, <1>7, <1>8, <1>9, Locally DEF OfSession

LEMMA Creates ==
  ASSUME IInv, OneAtATime, NEW h \in Handlers, NEW s \in Sessions,
         NEW op \in {"run", "prepare"}, CanCreate(s), Create(s),
         Begin(h, s, NewCall(op, s, "branch", NewRow(s))), Request(s),
         NoGit, UNCHANGED <<run, gone>>
  PROVE  IInv'
<1>1. TypeOK /\ ~Serving(s) /\ budget' \in 0..Budget /\ NewRow(s) \in RowIds
  BY OnlyOne, NewIsRow, SpendType DEF IInv
<1> DEFINE c == NewCall(op, s, "branch", NewRow(s))
           r == [NoneRow EXCEPT !.status = "creating"]
<1>2. c \in Call /\ c.op = op /\ c.s = s /\ c.pc = "branch" /\ c.row = NewRow(s)
  BY <1>1, NewCallType DEF Pc
<1>3. r \in Row /\ r.status = "creating"
  <2>1. 0 \in 0..MaxCommits
    BY WorktreeAssumption
  <2> QED BY <2>1 DEF NoneRow, Row, Status
<1>4. row' = [row EXCEPT ![s][NewRow(s)] = r]
  BY DEF Create
<1>5. \A j \in RowIds : row[s][j].status \notin Live
  BY DEF CanCreate, LiveRows
<1>6. Begin(h, s, c)
  OBVIOUS
<1> HIDE DEF c, r
<1> QED BY <1>1, <1>2, <1>3, <1>4, <1>5, <1>6, RowBegins

LEMMA PrepareStep ==
  ASSUME IInv, OneAtATime, NEW h \in Handlers, NEW s \in Sessions, Prepare(h, s)
  PROVE  IInv'
BY Creates DEF Prepare

\* A run of a session with a worktree is sent there.
LEMMA ResolveWorkspaceStep ==
  ASSUME IInv, OneAtATime, NEW h \in Handlers, NEW s \in Sessions, ResolveWorkspace(h, s)
  PROVE  IInv'
<1>1. CASE Latest(s) = NoRow
  <2>1. NewRow(s) = 1
    BY <1>1 DEF NewRow, NoRow
  <2> QED BY <1>1, <2>1, Creates DEF ResolveWorkspace
<1>2. CASE Latest(s) # NoRow
  <2> DEFINE i == Latest(s)
             d == NewCall("run", s, "start", i)
             c == [d EXCEPT !.path =
                     IF row[s][i].status \in ForWorkspace THEN "worktree" ELSE "base"]
  <2>1. i \in RowIds
    BY <1>2, LatestIsRow
  <2>2. Begin(h, s, c) /\ Refresh(s) /\ Request(s) /\ NoGit /\ UNCHANGED <<run, gone>>
    BY <1>2 DEF ResolveWorkspace
  <2>3. TypeOK /\ ~Serving(s) /\ UNCHANGED budget
    BY <2>2, OnlyOne DEF IInv
  <2>4. d \in Call /\ d.op = "run" /\ d.s = s /\ d.pc = "start" /\ d.row = i
    BY <2>1, <2>3, NewCallType DEF Pc
  <2> HIDE DEF d
  <2>5. /\ c \in Call /\ c.op = "run" /\ c.s = s /\ c.pc = "start"
        /\ c.path = "worktree" => row[s][i].status \in ForWorkspace
    BY <2>4 DEF Call
  <2> HIDE DEF c, i
  <2>6. /\ row' \in Rows /\ \A t \in Sessions \ {s} : row'[t] = row[t]
        /\ \A j \in RowIds : Standing(row[s][j].status, row'[s][j].status)
    BY <2>2, <2>3, RefreshStands
  <2>7. UNCHANGED <<tip, dir>> /\ BaseType'
    BY <2>2, <2>3, BaseStays DEF NoGit
  <2>8. /\ Only(h, s) /\ call'[h] = c /\ call' \in Calls /\ OfSession(s)
        /\ call[h].op # "delete" /\ call[h].pc \notin MakePcs /\ ~BeingDeleted(s)
        /\ \A g \in Handlers : call[g].s = s => At(g, "free")
    BY <2>2, <2>3, <2>5, <2>6, <2>7, AtEase
  <2>9. TypeOK'
    BY <2>2, <2>3, <2>6, <2>7, <2>8 DEF TypeOK, BaseType, Calls, Rows
  <2>10. Starting(h)'
    <3> SUFFICES ASSUME Whole, "abandon" \notin Events, c.path = "worktree"
                 PROVE  dir[s] = "worktree"
      BY <2>5, <2>7, <2>8 DEF Starting
    <3>1. row[s][i].status # "creating"
      BY <2>1, <2>8 DEF OfSession, Attended, At, MakePcs
    <3>2. row[s][i].status \in InUse
      BY <2>5, <3>1 DEF InUse
    <3> QED BY <2>1, <2>8, <3>2 DEF OfSession, Intact, There
  <2>11. /\ Named(h)' /\ call'[h].pc \notin Special \ {"start"}
         /\ call'[h].op # "delete"
    BY <2>5, <2>8 DEF Named, RowPcs, MakePcs, Special, DeletePcs
  <2> QED BY <2>6, <2>7, <2>8, <2>9, <2>10, <2>11, Softly
<1> QED BY <1>1, <1>2

LEMMA RequestDiscardStep ==
  ASSUME IInv, OneAtATime, NEW h \in Handlers, NEW s \in Sessions, RequestDiscard(h, s)
  PROVE  IInv'
<1> DEFINE i == ActiveRow(s)
           c == NewCall("discard", s, "remove", i)
           r == [row[s][i] EXCEPT !.status = "cleanup_pending"]
<1>1. TypeOK /\ OneLive(s)
  BY DEF IInv, OfSession
<1>2. i \in RowIds /\ \A j \in RowIds \ {i} : row[s][j].status \notin Live
  BY <1>1, ActiveIsLive DEF RequestDiscard, CanMove
<1>3. ~Serving(s) /\ budget' \in 0..Budget
  BY <1>1, SpendType DEF RequestDiscard, Spend, OneAtATime
<1>4. r \in Row /\ r.status = "cleanup_pending" /\ row' = [row EXCEPT ![s][i] = r]
  <2>1. row[s][i] \in Row
    BY <1>1, <1>2 DEF TypeOK
  <2> QED BY <2>1 DEF Row, Status, RequestDiscard, Move, SetStatus
<1>5. c \in Call /\ c.op = "discard" /\ c.s = s /\ c.pc = "remove" /\ c.row = i
  BY <1>1, <1>2, NewCallType DEF Pc
<1>6. Begin(h, s, c) /\ NoGit /\ UNCHANGED <<run, gone>>
  BY DEF RequestDiscard
<1> HIDE DEF c, r
<1> QED BY <1>2, <1>3, <1>4, <1>5, <1>6, RowBegins

LEMMA RequestRetryStep ==
  ASSUME IInv, OneAtATime, NEW h \in Handlers, NEW s \in Sessions,
         NEW op \in {"retry", "force"}, RequestRetry(h, s, op)
  PROVE  IInv'
<1> DEFINE i == LatestFailed(s)
           c == NewCall(op, s, "remove", i)
           r == [row[s][i] EXCEPT !.status = "cleanup_pending"]
<1>1. TypeOK /\ ~Serving(s) /\ budget' \in 0..Budget
  BY OnlyOne, SpendType DEF IInv, RequestRetry
<1>2. i \in RowIds /\ \A j \in RowIds \ {i} : row[s][j].status \notin Live
  BY <1>1, FailedIsRow DEF RequestRetry, LiveRows
<1>3. r \in Row /\ r.status = "cleanup_pending" /\ row' = [row EXCEPT ![s][i] = r]
  <2>1. row[s][i] \in Row
    BY <1>1, <1>2 DEF TypeOK
  <2> QED BY <2>1 DEF Row, Status, RequestRetry, SetStatus
<1>4. c \in Call /\ c.op = op /\ c.s = s /\ c.pc = "remove" /\ c.row = i
  BY <1>1, <1>2, NewCallType DEF Pc
<1>5. Begin(h, s, c) /\ NoGit /\ UNCHANGED <<run, gone>>
  BY DEF RequestRetry
<1> HIDE DEF c, r
<1> QED BY <1>1, <1>2, <1>3, <1>4, <1>5, RowBegins

LEMMA RequestDeleteStep ==
  ASSUME IInv, NEW h \in Handlers, NEW s \in Sessions, RequestDelete(h, s)
  PROVE  IInv'
<1> DEFINE c == NewCall("delete", s, "wipe", NoRow)
<1>1. TypeOK /\ ~Serving(s) /\ "delete" \in Events /\ budget' \in 0..Budget
  BY SpendType DEF IInv, RequestDelete, Spend
<1>2. c \in Call /\ c.op = "delete" /\ c.s = s /\ c.pc = "wipe"
  BY <1>1, NewCallType DEF Pc
<1>3. Begin(h, s, c) /\ UNCHANGED <<row, run, gone>> /\ UNCHANGED <<tip, dir>> /\ NoGit
  BY DEF RequestDelete, NoGit
<1> HIDE DEF c
<1>4. /\ Only(h, s) /\ call'[h] = c /\ call' \in Calls /\ OfSession(s)
      /\ call[h].op # "delete" /\ call[h].pc \notin MakePcs
  BY <1>1, <1>2, <1>3, AtEase
<1>5. BeingDeleted(s)' /\ BaseType'
  BY <1>1, <1>2, <1>3, <1>4, BaseStays DEF BeingDeleted, NoGit
<1>6. OneLive(s)' /\ Intact(s)'
  BY <1>3, <1>4, <1>5 DEF OfSession, OneLive, Intact
<1>7. Attended(s)'
  <2> SUFFICES ASSUME NEW g \in Handlers, call[g].s = s, call[g].pc \in MakePcs
               PROVE  call'[g] = call[g]
    BY <1>3, <1>4 DEF OfSession, Attended
  <2> QED BY <1>4 DEF Only
<1>8. OfHandler(h)'
  BY <1>1, <1>2, <1>4
     DEF OfHandler, Making, Cleaning, Deleting, DeletePcs, Starting, Named, At, RowPcs,
         MakePcs
<1>9. TypeOK'
  BY <1>1, <1>3, <1>4, <1>5 DEF TypeOK, BaseType, Calls
<1> QED BY <1>4, <1>6, <1>7, <1>8, <1>9, Locally DEF OfSession

-------------------------------------------------------------------------------
(* Abandoned requests, and what no handler does. *)

LEMMA AbandonStep ==
  ASSUME IInv, OneAtATime, NEW h \in Handlers, NEW s, s = call[h].s, Abandon(h)
  PROVE  IInv'
<1>0. ~At(h, "free") /\ Done(h)
  BY DEF Abandon
<1>1. TypeOK /\ call[h] \in Call /\ s \in Sessions /\ OfHandler(h)
  BY <1>0, Start
<1>2. UNCHANGED <<row, tip, dir, base, run, gone>> /\ BaseType' /\ budget' \in 0..Budget
  BY <1>1, BaseStays, SpendType DEF Abandon
<1>3. At(h, "undo") \/ "abandon" \in Events
  BY DEF Abandon, Spend
<1>4. /\ Whole => call[h].op # "delete"
      /\ call[h].pc \in MakePcs => "abandon" \in Events
  BY <1>1, <1>3 DEF OfHandler, Deleting, DeletePcs, At, MakePcs, Whole
<1>5. PICK c \in Call : /\ c.s = s /\ call' = [call EXCEPT ![h] = c]
                        /\ c.pc = "free" /\ c.op = "none"
  BY <1>0, Goes
<1>6. Only(h, s) /\ call'[h] = c /\ call' \in Calls
  BY <1>0, <1>2, <1>5, Alonely
<1>7. OfSession(s)'
  BY <1>0, <1>2, <1>4, <1>6, SameRows DEF There
<1>8. OfHandler(h)'
  BY <1>5, <1>6
     DEF OfHandler, Making, Cleaning, Deleting, DeletePcs, Starting, Named, At, RowPcs,
         MakePcs
<1>9. TypeOK'
  BY <1>1, <1>2, <1>6 DEF TypeOK, BaseType, Calls
<1> QED BY <1>1, <1>6, <1>7, <1>8, <1>9, Locally

\* Steps that change no call, no directory and no worktree's standing.
LEMMA Aloof ==
  ASSUME IInv, TypeOK', UNCHANGED <<dir, call>>,
         \A s \in Sessions : tip'[s] = NoBranch <=> tip[s] = NoBranch,
         \A s \in Sessions, i \in RowIds : Standing(row[s][i].status, row'[s][i].status)
  PROVE  IInv'
<1>1. Alone'
  BY DEF IInv, Alone, At
<1>2. ASSUME NEW s \in Sessions PROVE OfSession(s)'
  <2>1. OfSession(s)
    BY DEF IInv
  <2>2. /\ \A i \in RowIds : row[s][i].status \in Live <=> row'[s][i].status \in Live
        /\ \A i \in RowIds : row[s][i].status \in InUse <=> row'[s][i].status \in InUse
        /\ \A i \in RowIds : row'[s][i].status = "creating" => row[s][i].status = "creating"
    BY DEF Standing, InUse, ForWorkspace, Live
  <2>3. There(s)' <=> There(s)
    BY DEF There
  <2>4. BeingDeleted(s)' <=> BeingDeleted(s)
    BY DEF BeingDeleted
  <2> QED BY <2>1, <2>2, <2>3, <2>4 DEF OfSession, OneLive, Intact, Attended
<1>3. ASSUME NEW h \in Handlers PROVE OfHandler(h)'
  <2>1. OfHandler(h) /\ call[h].s \in Sessions
    BY DEF IInv, TypeOK, Call
  <2>2. \A i \in RowIds :
          LET s == call[h].s IN row[s][i].status \in InUse <=> row'[s][i].status \in InUse
    BY <2>1 DEF Standing
  <2> QED BY <2>1, <2>2
          DEF OfHandler, Making, Cleaning, Deleting, Starting, Named, At, There
<1> QED BY <1>1, <1>2, <1>3 DEF IInv

LEMMA RowsAsTheyAre ==
  ASSUME UNCHANGED row
  PROVE  \A s \in Sessions, i \in RowIds : Standing(row[s][i].status, row'[s][i].status)
BY DEF Standing

LEMMA PollStep ==
  ASSUME IInv, NEW s \in Sessions, Poll(s)
  PROVE  IInv'
<1>1. TypeOK /\ UNCHANGED <<tip, dir, base, run, call, gone, budget>> /\ Refresh(s)
  BY DEF Poll, NoGit, Aside, IInv
<1>2. /\ row' \in Rows /\ \A t \in Sessions \ {s} : row'[t] = row[t]
      /\ \A i \in RowIds : Standing(row[s][i].status, row'[s][i].status)
  BY <1>1, RefreshStands
<1>3. \A t \in Sessions, i \in RowIds : Standing(row[t][i].status, row'[t][i].status)
  BY <1>2 DEF Standing
<1>4. TypeOK'
  BY <1>1, <1>2, BaseStays DEF TypeOK, BaseType, Rows
<1> QED BY <1>1, <1>3, <1>4, Aloof

LEMMA AgentCommitsStep ==
  ASSUME IInv, NEW s \in Sessions, AgentCommits(s)
  PROVE  IInv'
<1>1. TypeOK /\ UNCHANGED <<row, dir, base, run, call, gone>> /\ budget' \in 0..Budget
  BY SpendType DEF AgentCommits, IInv
<1>2. tip' \in [Sessions -> NoBranch..MaxCommits]
      /\ \A t \in Sessions : tip'[t] = NoBranch <=> tip[t] = NoBranch
  BY <1>1, WorktreeAssumption DEF AgentCommits, TypeOK, NoBranch
<1>3. TypeOK'
  BY <1>1, <1>2, BaseStays DEF TypeOK, BaseType
<1> QED BY <1>1, <1>2, <1>3, Aloof, RowsAsTheyAre

LEMMA ResolveStep ==
  ASSUME IInv, NEW s \in Sessions, NEW t \in Sessions, Resolve(s, t)
  PROVE  IInv'
<1>1. TypeOK /\ UNCHANGED <<row, tip, dir, loose, edit, call, run, gone, budget>>
  BY DEF Resolve, Aside, IInv
<1>2. /\ unmerged' \in [Sessions -> SUBSET Commits]
      /\ staged' \in [Sessions -> SUBSET Commits] /\ head' \in [Sessions -> SUBSET Commits]
  <2>1. \A x, y \in SUBSET Commits : x \cup y \in SUBSET Commits
    OBVIOUS
  <2>2. /\ unmerged' = [unmerged EXCEPT ![t] = {}]
        /\ \/ staged' = [staged EXCEPT ![t] = staged[t] \cup unmerged[t]] /\ head' = head
           \/ head' = [head EXCEPT ![t] = head[t] \cup unmerged[t]] /\ staged' = staged
    BY DEF Resolve
  <2>3. staged[t] \cup unmerged[t] \in SUBSET Commits
        /\ head[t] \cup unmerged[t] \in SUBSET Commits
    BY <1>1, <2>1 DEF TypeOK
  <2>4. unmerged' \in [Sessions -> SUBSET Commits]
    BY <1>1, <2>2 DEF TypeOK
  <2>5. CASE staged' = [staged EXCEPT ![t] = staged[t] \cup unmerged[t]] /\ head' = head
    BY <1>1, <2>3, <2>4, <2>5 DEF TypeOK
  <2>6. CASE head' = [head EXCEPT ![t] = head[t] \cup unmerged[t]] /\ staged' = staged
    BY <1>1, <2>3, <2>4, <2>6 DEF TypeOK
  <2> QED BY <2>2, <2>4, <2>5, <2>6
<1>3. TypeOK'
  BY <1>1, <1>2 DEF TypeOK
<1> QED BY <1>1, <1>3, Aloof, RowsAsTheyAre

LEMMA UserStep ==
  ASSUME IInv, UserEdits \/ UserStages
  PROVE  IInv'
<1>1. /\ TypeOK /\ budget' \in 0..Budget /\ edit' \in {"loose", "staged"}
      /\ UNCHANGED <<row, tip, dir, head, staged, unmerged, loose, run, call, gone>>
  BY SpendType DEF UserEdits, UserStages, IInv
<1>2. TypeOK'
  BY <1>1 DEF TypeOK
<1> QED BY <1>1, <1>2, Aloof, RowsAsTheyAre

LEMMA StutterStep ==
  ASSUME IInv, UNCHANGED vars
  PROVE  IInv'
<1>1. TypeOK /\ UNCHANGED <<row, tip, dir, head, staged, unmerged, loose, edit, run,
                            call, gone, budget>>
  BY DEF vars, base, IInv
<1>2. TypeOK'
  BY <1>1 DEF TypeOK
<1> QED BY <1>1, <1>2, Aloof, RowsAsTheyAre

-------------------------------------------------------------------------------
(* The theorems. *)

LEMMA InitInv ==
  ASSUME Init
  PROVE  IInv
<1>1. \A h \in Handlers : \E s \in Sessions : call[h] = Free(s)
  BY DEF Init
<1>2. ASSUME NEW h \in Handlers PROVE call[h].pc = "free" /\ call[h].op = "none"
  <2>1. PICK s \in Sessions : call[h] = Free(s)
    BY <1>1
  <2>2. Free(s).pc = "free" /\ Free(s).op = "none"
    BY DEF Free
  <2> QED BY <2>1, <2>2
<1>3. TypeOK
  <2>1. 0 \in 0..MaxCommits /\ NoBranch \in NoBranch..MaxCommits /\ Budget \in 0..Budget
    BY WorktreeAssumption DEF NoBranch
  <2>2. NoneRow \in Row
    BY <2>1 DEF NoneRow, Row, Status
  <2>3. \A s \in Sessions : Free(s) \in Call
    BY <2>1 DEF Free, Call, Pc, NoRow
  <2>4. call \in [Handlers -> Call]
    BY <2>3 DEF Init
  <2> QED BY <2>1, <2>2, <2>4 DEF Init, TypeOK
<1>4. Alone
  BY <1>2 DEF Alone, At
<1>5. \A s \in Sessions, i \in RowIds : row[s][i].status = "none"
  BY DEF Init, NoneRow
<1>6. \A s \in Sessions : OfSession(s)
  BY <1>5 DEF OfSession, OneLive, Intact, Attended, Live, InUse, ForWorkspace
<1>7. \A h \in Handlers : OfHandler(h)
  BY <1>2 DEF OfHandler, Making, Cleaning, Deleting, DeletePcs, Starting, Named, At,
              RowPcs, MakePcs
<1> QED BY <1>3, <1>4, <1>6, <1>7 DEF IInv

LEMMA StepInv ==
  ASSUME OneAtATime, IInv, [Next]_vars
  PROVE  IInv'
<1>1. ASSUME NEW h \in Handlers, Make(h) PROVE IInv'
  <2>1. \E s : s = call[h].s
    OBVIOUS
  <2>2. PICK s : s = call[h].s
    BY <2>1
  <2> QED BY <1>1, <2>2, MakeBranchStep, AddWorktreeStep, ActivateStep, UnmakeStep,
             StartRunStep DEF Make
<1>2. ASSUME NEW h \in Handlers, Merge(h) PROVE IInv'
  <2>1. \E s : s = call[h].s
    OBVIOUS
  <2>2. PICK s : s = call[h].s
    BY <2>1
  <2> QED BY <1>2, <2>2, CheckBaseStep, ClaimStep, NoteStep, DiffStep, UnstageStep,
             ApplyCleanStep, ApplyConflictsStep, ApplyRefusedStep, ListUnmergedStep,
             LookStep, CommitStep, RetreatStep, ReadTipStep, MarkMergedStep,
             RecordCursorStep, MarkConflictedStep, UndoStep, VerifyStep, ResetBaseStep,
             GitFailsStep DEF Merge
<1>3. ASSUME NEW h \in Handlers, Clean(h) \/ Abandon(h) PROVE IInv'
  <2>1. \E s : s = call[h].s
    OBVIOUS
  <2>2. PICK s : s = call[h].s
    BY <2>1
  <2> QED BY <1>3, <2>2, RemoveWorktreeStep, FailStep, UnbranchStep, ArchiveStep,
             WipeStep, WipeFailsStep, WipeBranchStep, CascadeStep, AbandonStep
          DEF Clean
<1>4. ASSUME NEW h \in Handlers, NEW s \in Sessions, Requests(h, s) PROVE IInv'
  BY <1>4, PrepareStep, ResolveWorkspaceStep, RequestMergeStep, RequestContinueStep,
     RequestAbortStep, RequestDiscardStep, RequestRetryStep, RequestDeleteStep
     DEF Requests
<1>5. ASSUME NEW s \in Sessions,
             Poll(s) \/ AgentCommits(s) \/ \E t \in Sessions : Resolve(s, t)
      PROVE  IInv'
  BY <1>5, PollStep, AgentCommitsStep, ResolveStep
<1>6. CASE UserEdits \/ UserStages
  BY <1>6, UserStep
<1>7. CASE UNCHANGED vars
  BY <1>7, StutterStep
<1> QED BY <1>1, <1>2, <1>3, <1>4, <1>5, <1>6, <1>7 DEF Next, Step

\* While a session has one request at a time, the inductive invariant above
\* holds of every execution.
THEOREM Invariance == OneAtATime => (Spec => []IInv)
<1> SUFFICES ASSUME OneAtATime PROVE Spec => []IInv
  OBVIOUS
<1>1. IInv /\ [Next]_vars => IInv'
  BY StepInv
<1> QED BY <1>1, InitInv, PTL DEF Spec

\* Every row, call and commit set keeps its type, whatever the sessions and
\* requests.
THEOREM TypeCorrect == OneAtATime => (Spec => []TypeOK)
<1> SUFFICES ASSUME OneAtATime PROVE Spec => []TypeOK
  OBVIOUS
<1>1. Spec => []IInv
  BY Invariance
<1>2. IInv => TypeOK
  BY DEF IInv
<1> QED BY <1>1, <1>2, PTL

\* No cleanup (run_cleanup, create_worktree's rollback) removes the directory
\* or the branch of a worktree that a row says is in use.
THEOREM WorktreesStay == OneAtATime /\ Whole => (Spec => []LiveWorktreeIntact)
<1> SUFFICES ASSUME OneAtATime, Whole PROVE Spec => []LiveWorktreeIntact
  OBVIOUS
<1>1. Spec => []IInv
  BY Invariance
<1>2. IInv => LiveWorktreeIntact
  BY DEF IInv, OfSession, Intact, There, InUse, LiveWorktreeIntact
<1> QED BY <1>1, <1>2, PTL

\* A run that resolve_workspace_path_for_agent sends to a worktree finds one
\* there, while no creation is dropped midway.
THEOREM RunsFindTheirWorktree ==
  OneAtATime /\ Whole /\ "abandon" \notin Events => (Spec => RunsInWorktree)
<1> SUFFICES ASSUME OneAtATime, Whole, "abandon" \notin Events
             PROVE  Spec => RunsInWorktree
  OBVIOUS
<1> DEFINE Sent(s) == run'[s] = "worktree" /\ run[s] # "worktree" => dir[s] = "worktree"
           A == \A s \in Sessions : Sent(s)
<1>1. Spec => []IInv
  BY Invariance
<1>2. IInv /\ [Next]_vars => [A]_vars
  <2> SUFFICES ASSUME IInv, Next, NEW s \in Sessions,
                      run'[s] = "worktree", run[s] # "worktree"
               PROVE  dir[s] = "worktree"
    OBVIOUS
  <2>1. run' # run
    OBVIOUS
  <2>2. ASSUME NEW h \in Handlers, StartRun(h) PROVE dir[s] = "worktree"
    <3>1. At(h, "start") /\ run' = [run EXCEPT ![call[h].s] = call[h].path]
      BY <2>2 DEF StartRun
    <3>2. TypeOK /\ call[h].s \in Sessions /\ Starting(h)
      BY DEF IInv, TypeOK, Call, OfHandler
    <3>3. s = call[h].s /\ call[h].path = "worktree"
      BY <3>1, <3>2 DEF TypeOK
    <3> QED BY <3>1, <3>2, <3>3 DEF Starting
  <2>3. ASSUME NEW h \in Handlers, Step(h), ~StartRun(h) PROVE UNCHANGED run
    <3>1. Make(h) => UNCHANGED run
      BY <2>3 DEF Make, MakeBranch, AddWorktree, Activate, Unmake, Aside
    <3>2. Merge(h) => UNCHANGED run
      BY DEF Merge, CheckBase, Claim, Note, Diff, Unstage, ApplyClean, ApplyConflicts,
             ApplyRefused, ListUnmerged, Look, Commit, Retreat, ReadTip, MarkMerged,
             RecordCursor, MarkConflicted, Undo, Verify, ResetBase, GitFails, Aside
    <3>3. Clean(h) => UNCHANGED run
      BY DEF Clean, RemoveWorktree, Fail, Unbranch, Archive, Wipe, WipeFails,
             WipeBranch, Cascade, Aside
    <3> QED BY <2>3, <3>1, <3>2, <3>3 DEF Step
  <2>4. ASSUME NEW h \in Handlers, Abandon(h) PROVE UNCHANGED run
    BY <2>4 DEF Abandon
  <2>5. ASSUME NEW h \in Handlers, NEW t \in Sessions, Requests(h, t)
        PROVE  UNCHANGED run
    BY <2>5 DEF Requests, Prepare, ResolveWorkspace, RequestMerge, RequestContinue,
                RequestAbort, RequestDiscard, RequestRetry, RequestDelete
  <2>6. ASSUME NEW t \in Sessions,
               Poll(t) \/ AgentCommits(t) \/ \E u \in Sessions : Resolve(t, u)
        PROVE  UNCHANGED run
    BY <2>6 DEF Poll, AgentCommits, Resolve, Aside
  <2>7. UserEdits \/ UserStages => UNCHANGED run
    BY DEF UserEdits, UserStages
  <2> QED BY <2>1, <2>2, <2>3, <2>4, <2>5, <2>6, <2>7 DEF Next
<1>3. A <=> \A s \in Sessions :
              run'[s] = "worktree" /\ run[s] # "worktree" => dir[s] = "worktree"
  OBVIOUS
<1> QED BY <1>1, <1>2, PTL DEF Spec, RunsInWorktree

===============================================================================
