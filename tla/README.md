# OpenTeams: a TLA+ development of delivery, outbox, workflows, approvals and worktrees

OpenTeams lets a user chat with a team of coding agents.  A message addressed to
a member is delivered through a durable queue in SQLite, executed by an agent
process, and finalized; what happens to it is published to the clients through an
outbox; the agent asks the user for approval of its tool calls, and may work in a git
worktree of its session, whose commits are merged into the project afterwards; a plan
of several steps is executed by a workflow scheduler.  The user may stop, retry,
delete, pause and resume at any moment, and the backend may die and come back.  This
directory models that machinery, checks it with TLC and proves its central properties
with TLAPS.

    DeliverySpec             what the queue promises (abstract specification)
    DeliveryLedger           one member's queue rows and the SQL statements on them
    ChatDelivery             tasks, executors, handlers, restarts; the properties
    DeliveryProjection       what a client makes of the deliveries it is told about
    RuntimeOutbox            records, publisher, broadcast, replay, client
    WorkflowReducer          statuses of a workflow, their transitions and derivations
    WorkflowScheduler        passes, work items, user requests, restarts
    ApprovalSpec             what the approval of tool calls promises (abstract)
    ExecutorApprovals        requests for approval: rows, waiters, timers, events
    SessionWorktrees         worktrees of sessions: creation, merge, cleanup, runs
    MC*, *.cfg               instances for TLC
    *_proofs                 the theorems and their proofs

    DeliverySpec <--implements-- ChatDelivery --uses--> DeliveryLedger
         ^
         +-- drives -- RuntimeOutbox --uses--> DeliveryProjection
    WorkflowReducer <--extends-- WorkflowScheduler

`ChatDelivery` is shown to implement `DeliverySpec`, and `RuntimeOutbox` takes the
deliveries to be whatever `DeliverySpec` allows: so what is shown of the outbox holds
for every way the deliveries can really change, without composing the two state
spaces.

Paths below are relative to `src/crates/` unless they start with `docs/` or
`frontend/`.

## 1. Inventory

| Component | State | Operations | Talks to | Hard parts |
|---|---|---|---|---|
| Delivery ledger, `db/src/models/chat_message_queue.rs`, `services/.../queued_message.rs` | rows of `chat_message_queue`: status, revision, attempt, run, resolution | create (idempotent), claim oldest, bind, transition, fail or skip, finalize, recover, resolve, delete; each a compare-and-set on (id, revision, status) | all of the below | order and exclusion of claims; stale revisions |
| Dispatch tasks, `chat_runner/lifecycle.rs` | a task per dispatched delivery, in memory | persist and dispatch, dispatch next, load, register, prepare, bind, start, error path | ledger, run controls, executor | every await is a point where others act; errors after the binding |
| Run lifecycle, `chat_runner/runtime.rs` | `run_controls` (one stop token per member), watcher and stream bridge per run | finalize, protocol retry, exit watcher, stop, recover a missing control | ledger, tasks | stop racing start and end; the control belongs to one run |
| Approval bridge, `chat_runner/lifecycle.rs` | status `waiting_approval` of the delivery | enter and leave waiting around each request | ledger, approval service | callbacks after the executor's exit; two requests of one run |
| Approval service, `services/.../approvals/executor_approvals.rs`, `db/src/models/chat_executor_approval_request.rs` | rows of `chat_executor_approval_requests`, the waiters in memory, timers, the inbox item, the member's `waitingapproval` | request, mark, recheck, announce, answer, expire, cancel by stop or removal, expire at startup | bridge, members, inbox, clients | the row can be answered before the waiter is registered; several settlers; a count that is stale when used; requests that outlive their run |
| Session worktrees, `services/.../session_worktree.rs`, `db/src/models/chat_session_worktree.rs` | a row per worktree with status, cursor and kind of merge; directory, branch, index and paths of git | create, send a run to, merge, continue, abort, discard, retry and force cleanup, delete with the session | chat runner, git, the user's own checkout | no lock over several git commands; requests dropped between two of them; rows that follow one another at one path |
| Startup recovery, `lifecycle.rs` | none of its own | reset member, requeue, resume | ledger, members | crash between its steps |
| HTTP handlers, `server/src/routes/chat/` | none | send, resend, stop, continue, delete entry, delete message | runner, ledger | several statements per request |
| Session members, `chat_session_agent.rs` | `state` of `chat_session_agents` | set together with a delivery's binding, stopping and finalization | ledger | agreement with the ledger |
| Runtime outbox, `db/src/models/chat_runtime_outbox.rs`, `services/.../chat_runtime_outbox.rs` | a revision per session, revisioned records, what of them is published | trigger on commit, publish, mark, prune, hydrate, replay page by page | ledger, broadcast, clients | revision of the commit, snapshot of the publication; lag, pruning, a crash before the mark |
| Client projection, `frontend/src/context/workspace/chatDelivery*.ts` | cards per delivery, cursor, `needsResync`, one recovery request | apply delta, hydrate, replay, retry | outbox | late and repeated answers, a gap noticed during a recovery |
| Workflow scheduler and reducers, `services/.../workflow/orchestrator/`, `workflow/runtime/` | execution, steps, agent sessions, transcripts; cancel requests in memory | wake, promote, claim, run, settle, park, synchronize; stop, pause, interrupt, skip, retry, resume, answer, accept, complete; recovery | executors, the user | every write after an await; derived statuses; requests against running steps |
| Workflow reviews, loops, iterations | rounds, review nodes, loop rows | review, revise, recompile | scheduler | not modelled |
| Plan compiler and validator | none | compile, validate | scheduler | not modelled |
| Executors, agent protocol, agent catalogue, analytics, projects, GitHub, workspace changes, frontend other than the projection, desktop shell | their own | — | chat runner, scheduler | mostly input and output |

What makes each correct:

* ledger: one delivery in flight per member, creation order, one delivery per
  message and target, ended deliveries stay ended;
* tasks and lifecycle: every in-flight delivery has a worker, every executor owns
  its delivery, one executor per member, nothing is requeued while it runs, a
  stale task never ends a newer attempt, everything taken up ends;
* recovery: no orphaned delivery, however often it is interrupted;
* handlers: deletion takes nothing else along; a repeated send adds nothing;
* outbox: what is retained is contiguous, so that a cursor is either followed by
  its next record or recognisably too old; a client notices every loss and ends up
  with the server's state; it shows no card of a delivery whose end it has passed;
* workflow: a step runs when its dependencies are done, one agent at a time and
  never without an owner; the derived statuses agree with the steps when nobody is
  at work; a workflow ends or shows the user what to act on;
* approvals: a request never sleeps through its answer, the executor is told what
  the row records, whatever is shown as open is pending, a member that shows that it
  waits does wait, and every request returns;
* worktrees: a worktree in use is there, the cursor passes nothing that the base
  branch lacks, conflicts belong to a merge that can still be ended, the user's edits
  stay, a run that is sent to a worktree finds one.

`PROJECT.json` lists the components with their sources, and the hazards of the
code with the line where each bites and the properties that watch it.

## 2. The models

Operators marked *mutant* are not part of a model: each is a likely mistake in the
definition below it.  `PROJECT.json` ("mutants") says which run must fail when the
mistake is made, so no property is satisfied by everything.

### DeliveryLedger

A ledger is a function from row ids to rows.  A row id stands for the primary
key and for the `created_at, id` order in which rows are claimed; ids are handed
out from below and never reused.  Each query and each SQL statement is an
operator on a ledger, named after what it does: `Enqueue` is `create_queued`
with its `ON CONFLICT DO NOTHING`, `NextClaim`/`Claim` the subselect and the
update of `claim_next`, `Matches` the WHERE clause of every compare-and-set,
`Requeue` is `recover_inflight_cas`, `ResolveFailed` is `skip_failed_for_member`
(which resolves the blockers and keeps their status), `EraseMessage` the foreign
key's cascade.  Every update advances the revision, as in the code.

The legacy status `processing` is read everywhere as `starting` and written
nowhere, so it is left out.

The member state `waitingapproval` has no value of its own in these two models.
The approval service swaps it with `running` while a request is pending
(`executor_approvals.rs:479-528`); the handlers modelled here never write it and treat
both alike: stop accepts either (`ChatSessionAgent::mark_stopping_for_delivery`) and
the recovery scan finds either (`find_all_active`).  One place tells them apart: at
startup the approval service makes the members that wait idle *before* the recovery
looks for active ones.  `Crash` therefore picks which members with an open request
really waited (`ExpireOrphaned`), and a crash that catches one is an event of its own,
`unanswered`: after it the delivery stays in `waiting_approval` (section 3,
disagreements).  `ExecutorApprovals` models the service itself.

### ChatDelivery

Persistent state: `rows` (a ledger per member), `member`, `message`, `sent`.
In memory, and lost in a crash: `control` (`run_controls`), `task`, `wake`
(spawned `dispatch_next_queued_message` calls), `stop`, `unqueue`, `recovering`.
A run id identifies the dispatch task that owns it, its executor, its watcher
and its stream bridge; `task[m][k].pc` says where that chain stands:

    load -> register -> prepare -> start -> execute -> finalize -> commit -> done
               (run_agent_internal)       (executor)   (stream bridge)
    prepare/start --error--> drop -> fail -> settle -> skip -> mark -> done
    commit --protocol retry--> retry -> reclaim -> register

One action is one statement or transaction, with the code around it up to the
next await: between two actions every other actor may act.  `load` and
`LoadFault` are `dispatch_queued_entry` and the head of `run_agent_internal`;
`register` is `register_run_control`; `Bind` the transaction that binds run,
delivery and member; `Start*` the branches of the startup `select!`; `Exit` the
lifecycle watcher's verdict; `Finalize`/`Commit` the bridge's read and its
finalization, which also claims the next delivery; `DropControl`, `Fail`,
`SettleBound`, `SettleStarting` the error path; `Skip`/`Mark`
`fail_or_skip_queue_entry`.  A stop request goes through `StopFind`,
`StopLookup` and then either `StopTransition`, `StopCancel` or, without a
control or without a delivery, `StopReset`, `StopList`, `StopRequeue`
(`recover_missing_run_control`).  `Unqueue`, `UnqueueCount`, `UnqueueErase` are
the three statements of `delete_queue_item`.  `Crash` drops everything in memory
and computes what `recover_orphaned_session_agents` will find;
`RecoverReset`, `RecoverRequeue`, `RecoverResume` follow, per member, before the
server accepts requests (`Serving`; `local-deployment/src/lib.rs:172` awaits
recovery before serving).

Merged steps: a read that only feeds the compare-and-set directly after it is
merged with it when a miss changes nothing (approval bridge, delete entry,
recovery's list and requeue while nothing else runs).  The reads whose staleness
matters are steps of their own.

Bounds, each a guard or a constant: `MaxMessages`, `MaxRows` (rows one member is
ever given), `MaxRuns` (dispatches of one member), `Budget` (events the
environment causes in all), one stop call per member and one delete-entry call
at a time, one open approval per run.  `RoomForMessage` keeps a message id for a
protocol retry that is already decided on.  Database errors are not modelled:
every statement succeeds or misses.

Not modelled: deletion of whole sessions, members, agents and runs; the
statements that only tests call; message contents; the emission of events, which
no handler waits on (the outbox is `RuntimeOutbox`).

### DeliverySpec

Each delivery is waiting, active, blocked (failed, unanswered), settled or
withdrawn.  A step of a member moves deliveries along these phases, keeps them in
creation order with one active, and takes none up while one is blocked.
`ChatDelivery` implements it under `phase <- PhaseOf(row)`: checked by
`AnyEvent`, proved as `DeliveryKeepsPromise`.

### DeliveryProjection and RuntimeOutbox

`DeliveryProjection` holds the pure functions of the client's reducer
(`frontend/src/context/workspace/chatDeliveryRuntime.ts`): a member's queue
snapshot (`QueueItems`, from `snapshot_from_messages`), the merge of what is shown
with what is reported (`Merge`, `mergeChatDelivery`), and the three ways a report
is applied: `ReplaceMember` (a delta), `Replace` (a fresh snapshot), `MergeOnly` (a
stale one).

`RuntimeOutbox` has four parts.

*The database.*  `CommitOne` and `CommitTwo` are transactions that move deliveries
as `DeliverySpec` allows; the SQL triggers append one record per changed delivery
and advance the session's revision.  `log` keeps every record ever appended, as
bookkeeping; `stored` says which ones retention has left.

*The publisher.*  `Emit` hands the lowest unpublished record to the broadcast
stream with the member's queue *as it is by then*, `MarkPublished` marks it; a crash
in between publishes it again.  `Prune` deletes published records from the old end.

*The server's answers.*  A request with a cursor runs `replay_after`:
`ReadRevision`, `ListRecords` (a page of records, which must be contiguous),
`BuildDelta` per record (the queue as it is by then), and falls back to
`AnswerSnapshot`.  A snapshot is built between two equal reads of the revision and
is one step.

*The client.*  `ReceiveDelta` and `ReceiveLagged` take the stream;
`StartRecovery` is the scheduler's request, one at a time, with `retry` as its
timer; `HydrateRecovery`, `OpenPage`, `ApplyReplayed`, `NextPage` and
`FinishReplay` apply the answer; `HydrateReload` applies the snapshots that
`refreshMessages` and the reply to a send bring.  A page is applied without another
handler in between (JavaScript runs a handler to completion), which is what
`Applying` guards.  Whether a request is *fresh* (its `requestedAt` later than the
last stream event) is a flag that each applied delta takes down.

Disturbances, each spending the `Budget`: the socket drops, the receiver lags, the
process dies, retention prunes, a request fails, the user reloads, sends, or
switches to another session and back.

Three histories serve the properties only: `skipped` (revisions that a stale
snapshot carried the cursor across), `unheard` (records handed out before a first
subscription, which `onopen` does not ask for), `forgotten` (records missed when
`needsResync` went down while it was up for them).

Not modelled: outbox rows of older versions without a member; the correlation of
deliveries by run or source message; several sessions or clients at a time; ties
of `requestedAt` and `lastEventAt` in one millisecond; `agent_run_started`, which is
no delivery input; `delivery_upsert` and `delivery_terminal`, which nothing
dispatches; display fields.  A first reload that fails leaves the client without
a state until the next delta asks for one; the model keeps that (`cursor = -1`).
A record lost while disconnected and followed by a switch of sessions is left to
the reload alone, and counted as `unheard`.

### WorkflowReducer and WorkflowScheduler

`WorkflowReducer` is `orchestrator/reducer.rs`: the statuses of steps, executions
and agent sessions, the tables of allowed transitions (`StepMoves`, `ExecMoves`,
`StepsUnder`, `SessionsUnder`), and the two derivations (`DeriveExecution`,
`DeriveSession`), over the set of the steps' statuses.

`WorkflowScheduler` is one execution whose steps are plain tasks, with three kinds
of actors.

*A pass* (`pass[p]`) is one run of `wake_scheduler`:

    read -> sync -> promote -> sync -> select -> launch -> join -> sync -> judge
                       |                  |                          |
                     (end)        (nothing: sync, end)         read, or end

*A work item* (`work[<<o, s>>]`) is `prepare_and_run_step` of a pass, or of a
manual retry (`retry_single_step_only`), for one step:

    claim -> sync -> run -> record -> write -> sync -> done
                      |-------------> write -> sync -> parked -> sync -> ask -> done
                      |-- cancelled --> acknowledge -> write ...
    any refusal -> guard -> write or done     (the guard around the item)

*A request* (`user`) is one route's handler: stop, pause, interrupt, skip, retry,
resume, approve, reject, complete, accept.  Each loads the execution and the steps,
and goes through its writes.

Only three writes compare the row with what was read: the claim, the skip and the
forced completion.  All others validate the transition in memory and overwrite, so
every record keeps what its actor read (`seen`, `exec`) and an action validates
against that.  `synchronize_runtime_state` is two steps, `SyncRead` and `SyncWrite`,
for every actor, because what it read may be old when it writes.

Coarser than the code: sync's reads are one step and its writes another; a pass's
promotion and selection decide on the steps as read, but read the sessions when
they select; stop and resume read and write the execution in one step; one request
handler is at work at a time; one retry item per step; the registration of a
run's cancellation token is the control point `run`; startup recovery is one step;
open transcripts are a set of step and kind.

Not modelled here: loops, reviews by the lead or the user and review nodes, result
nodes, recompilation and iterations, expired sessions, `submit_step_input`, the
transcript of a final review, transient storage errors and the recovery loop
that repeats a pass after one.

### ExecutorApprovals

One member, whose runs follow one another; a call (`c`) is one tool call of a run, a
request (`q`) one attempt to have it approved (`executor_approvals.rs`,
`request_and_wait`, inside the bridge of `lifecycle.rs:85-164`).  A step is one
statement, one access to the map of waiters or one event:

    off -> enter -> entering -> create -> notify -> register -> mark -> recheck
                                   |                                      |
                            (duplicate: leave)              (answered: tidy -> leave)
        announce -> wait -> (withdrawn) -> leave -> leaving -> done
    gone: dropped with its runtime or with the process

`row[c]` is the request's row, `waiter[c]` and `mail[q]` the oneshot channel, `timer`
and `lapsed` the timers and the passing of time, `inbox[c]` and `card[c]` what the
inbox and a client show.  Whatever settles a row goes on through `close[c]`: wake the
waiter, count what else is pending, restore the member, archive the inbox item; `by`
says whether the answer's handler, the request or a removal does it.

Events: `parallel` (a second request while one is pending), `own` (an ACP agent, whose
requests and timers live on a runtime that ends with the run), `stop`, `idle` (the
inactivity timeout tells the run to stop), `exit` (the executor ends by itself),
`remove` (of the member), `crash`.

`ApprovalSpec` is what all this amounts to for the executor, the user and whoever
stops the run: decisions, answers, the requests made, the runs halted and the decisions
whose process has died (`orphans`).  `Service` maps a row to its decision, a request
that has returned to its answer, and a pending row to an orphan from a crash until
`BootExpires`; `DecisionsKept` says that the mapped behaviour is one of `ApprovalSpec`.
An answer there is the decision, or `cancelled` where it has ended without one or the
run has been halted meanwhile, or `duplicate` where another request about the call is
being served, or `moved` where the delivery has changed.

Merged or left out: the finalization of a run is one step and a failed run leaves the
member idle, not dead; `create_or_find` is one step; what is deleted after a sweep is
not modelled; handlers run to their end; workflow runs, the older registry
`approvals.rs` and `cancel_for_run`, which nothing calls, are left out.  Bounds:
`LastRun` runs and `Budget` events.

The statement of an answer compares the deadline, an RFC 3339 text, with SQLite's
`datetime('now')` as texts (`chat_executor_approval_request.rs:154`), and `T` sorts after
the space: an answer may be taken after the deadline for as long as the row is pending.
`Resolves` therefore does not ask whether the call has lapsed.

### SessionWorktrees

Sessions, their rows in order of creation, and handlers, each serving one request
(`call[h]`).  A step is one statement or one git command together with the reads
before it.  Commits are numbers: 0 stands for what an earlier branch left, `tip[s]` is
the session's branch, `head[s]` what the base branch accounts for, `staged`,
`unmerged` and `loose` what the base workspace holds of each session's patch, `edit`
an edit of the user's own in it.  `dir[s]` is the directory at the session's path.

`Prepare`, `MakeBranch`, `AddWorktree`, `Activate` create a worktree on behalf of a
run, `StartRun` sends the run to it, `ResolveWorkspace` sends a run to whatever there
is.  A merge goes `CheckBase`, `Claim`, `Note`, `Diff`, `Unstage`, one of the three
outcomes of applying the patch, `Look`, `Commit`, `ReadTip`, `MarkMerged`,
`RecordCursor`.  After a patch that is not clean `ListUnmerged` tells conflicts, which
lead to `MarkConflicted`, from a refusal, which leads to `Retreat` and `Undo`.
`RequestContinue` with `Verify` or `RequestAbort` with `ResetBase` and `Undo` end a
conflict.  `RequestDiscard`,
`RequestRetry` and `RequestDelete` lead to the removal of directory, branch and row.

Kept from the code: a creation dropped midway leaves its row `creating` for good; a
branch that git refuses to delete leaves the row in `cleanup_pending`; the route for
cleaning up a merged worktree always fails its own check; only squash merges can be
reached from the routes, so the others are left out.

Every git command of a merge, a continuation and an abort may fail.  One that has
changed nothing fails in `GitFails`, a patch in `ApplyRefused`, a commit in `Commit`,
the resets in `Retreat` and `ResetBase`, a removal in `RemoveWorktree` and `Wipe`: the
event `fault`.  A failure leads where the code's `?` or `Err` arm leads: to a return, to
`Retreat` (the reset of the base workspace, whose own failure nobody notices) or to
`Undo` (`abort_merge`).  Four failures are events of their own, because what the runs
check does not survive them: `lookfault` (the unmerged paths are not listed after a
patch, 1116), `tipfault` (the tip is not read after a commit, 1226), `branchfault` (a
branch is not deleted) and `wipefault` (the worktree of a deleted session is not
removed).  `WorktreesShared` has all four, `WorktreesInOrder` none.  Statements of the
database do not fail, and a comparison of branches that fails when a row is read is
taken for a later read.

Coarser than the code: `base_commit` is recorded with the insertion of the row; the
two reads and the insertion of `resolve_workspace` are one step; contents of files are
left out, a resolution that drops a commit's changes counts as accounting for it; the
refresh that follows each read of a row is part of the step; `workspace_path` of the
session and the inbox notices are left out.

Some orders of steps break a property in the code itself.  They are events of their
own, so that a run can have them or not: `halfabort` (an abort dropped between its
reset and its status), `overlap` (a second session's merge while another's is resolved
and not committed), `latestage` (the user stages during a merge), `dropmerge` (a merge
in conflict is discarded), `busy` (the agent commits during its own merge), `twice` (a
second cleanup or a run's creation beside the first).  `abandon` drops a request
between any two steps.

## 3. What is checked

### Delivery

| Run | Events | Shows |
|---|---|---|
| AnyEvent | all; 2 messages, 4 rows, 5 runs, 2 events; 452,000 states | the ledger's guarantees: `InCreationOrder` (which has one delivery in flight as a special case), `OneDeliveryPerTarget`, the refinement `PromiseKept`; a run id always names the delivery and the attempt it was given (`RunNamesItsDelivery`) |
| Undisturbed | resend, retry, fault, failure, crash, approval; 3 messages, 3 rows, 6 runs, 2 events; 450,000 states | tasks, executors, members and ledger agree: `NoOrphanedDelivery`, `ExecutorOwnsDelivery`, `MemberShowsDelivery` |
| QueueAdvances | retry, failure, crash, approval, continue, unqueue; as Undisturbed; 19,000 states | liveness: `InFlightEnds`, `QueueAdvances` |
| StopLosesEnd (violation) | one stop | bridge reads the delivery; stop makes it `stopping`; the finalization misses; the bridge gives up; the delivery never ends (an approval callback in that window, event `late`, does the same) |

The split follows the code: the ledger's guarantees rest on its statements and
hold whatever happens, while agreement with executors and progress are lost by
stops and deletions at the wrong moment.

### Outbox and client

| Run | Bounds | Shows |
|---|---|---|
| ClientRecovers | two members with a delivery each, two changes, pages of one, one disturbance of any kind; 1,092,245 states, about two and a half minutes | `OutboxContiguous`, `GhostsAreExplained`, `LossIsNoticed`, `CursorNeverGoesBack`, and the liveness `ClientCatchesUp` |

### Workflow

| Run | Plan and requests | Shows |
|---|---|---|
| StepsRun | two steps side by side and one that needs both, on two sessions; two requests among skip and resume; 569,851 states, about a minute | `FollowsDependencies`, `SettledAgrees`, `NoSilentStall` |
| Interruptions | one step, one session; two requests among stop, pause, interrupt, skip, retry, complete, accept; 1,272,006 states, about a minute and a half | `NoAbandonedStep`, `OneRunnerPerStep` |
| StepsEnd | the first plan on one session, one request among approve, reject, skip, resume, one crash; 2,877 states | liveness: `StepsSettle`, `EndsAtTheUser` |

### Approvals

| Run | Calls and events | Shows |
|---|---|---|
| ApprovalAnswers | two calls of one run, a second run after it; one of stop, inactivity, removal; 2.68 million states up to the symmetry of the two calls, about a minute and a half | `OnlyPendingIsShown`, `OnlyStopsWin`, `WaitingHasReason` |
| ApprovalsEnd | two requests about one call; one of all seven events; 560,000 states | `NoLostWakeup`, the refinement `DecisionsKept` and the liveness `RequestReturns` |

### Worktrees

| Run | Sessions and events | Shows |
|---|---|---|
| WorktreesInOrder | one session, one request at a time; 3 rows, 2 commits, 3 of git fault, conflict, edit, staging, deletion; 163,990 states | `LiveWorktreeIntact`, `NothingSkipped`, `ConflictHasOwner`, `EditsStay`, `RunsInWorktree` and the liveness `WorkEnds` |
| WorktreesShared | two sessions, two handlers; 1 row and 1 commit each, 2 of abandon, paths or branch of a merge not read, branch or directory kept, conflict, merge given up, deletion; 263,972 states up to the symmetry of sessions and of handlers | `NothingSkipped`, `CommitIsOwn` |

`PROJECT.json` ("findings") gives for the violation the line of the code and the
sentence of the repository it disagrees with; the other disagreements are below.

### Why the bounds are enough

*Delivery.*  The hazards are races within one member's queue, so one member is
enough: members share messages only, and what a deletion does to another member's
delivery is proved for any number of members (`UnqueueSparesTheLedger`).  Two
messages give a delivery in flight and one behind it; a third is needed only for a
protocol retry among queued messages.  Four rows allow a delivery to be deleted,
re-created and followed; five or six runs allow each delivery to be dispatched
again after a requeue.  Two events suffice for every disagreement found, and
combine freely with sends, exits and all internal steps, which are not counted.

*Outbox.*  A delta out of order needs two records, a page boundary two records and
pages of one, a stale snapshot one record after it; two members tell a delta of one
from the state of the other.  One disturbance combines with every interleaving of
commits, publication, answers and handlers.  The proofs of section 4 hold for all
bounds.

*Workflow.*  The plan with a join is the smallest with parallel steps, a step that
waits for two, and two steps on one session.  The requests that cross running
agents are checked on one step, because what they race with is that step's item,
its pass and its retry; the same properties were explored with a chain of two steps
(3.35 million states) while the model was built.  Two requests are needed for a
retry after an interrupt.

*Approvals.*  A race needs two parties about one row: two requests about one call for
the waiters, two calls of one run for counts and the member, a second run for what the
first leaves behind.  One event combines with answers, timers and exits, which are not
counted; the proofs hold for any number.  `ApprovalAnswers` takes states that differ by
a swap of the two calls with their requests as one (`Swap`), which both runs and all of
its invariants treat alike.

*Worktrees.*  Three rows follow one another at a path; two commits make a cursor that
can stop between them; two sessions share a base workspace.  `WorktreesShared` takes
states that differ by a swap of the two sessions or of the two handlers as one.

Deadlock is not checked because each system may really stop: users need not act,
and the events are bounded.

### Fairness

*Delivery* (`FairSpec`).  Weak fairness on the steps of tasks, watchers, stop and
delete handlers, spawned wake-ups and recovery: they are futures on the async
runtime, never wait on one another, and run until they return.  Weak fairness on
the end of an executor: it finishes, is stopped, or is killed after the
inactivity timeout (`wait_for_lifecycle_event`).  None on users, faults, crashes
or approval callbacks.

*Outbox*.  Weak fairness on the publisher's loop, on the server's answers, on the
client's handlers, on the scheduler's request (an effect, and a timer after a
failure) and on the reconnection (a timer).  None on changes and disturbances.

*Workflow*.  Weak fairness on each pass, each work item, each retry's return and
the handler at work.  That includes the end of an agent:
`wait_for_executor_exit_or_cancel_with_inactivity_timeout`
(`services/.../workflow/runtime/runner.rs:1908`) ends it.  None on requests and
restarts.

*Approvals*.  Weak fairness on each request's future, on what settles a row and goes on
to close it, on timers and the passing of time, on the stop handler and on startup.
None on answers, on the end of an executor and on events.

*Worktrees*.  Weak fairness on each handler: a request that is not dropped goes on to
its end.  `WorktreesInOrder`, the run with a liveness property, drops none and leaves
out the two failures that end a request in the middle (`tipfault`, `branchfault`).

### Disagreements observed outside the runs

While the models were built TLC also showed these; each is reproduced by the
change given.

| What happens | How to see it |
|---|---|
| stop reads no control; the task registers and binds; stop requeues a running delivery (and the member shows none) | `Undisturbed.cfg` with `Events <- StopOnce`, `MaxMessages = 2`, `MaxRuns = 5`, `Budget = 1`: `RequeuesOnlyOrphans`, `MemberShowsDelivery` |
| a crash between recovery's reset of the member and its requeue: the next recovery does not find the delivery | `Undisturbed.cfg` with `Events <- CrashInRecovery`, `MaxMessages = 1`, `MaxRows = 2`: `NoOrphanedDelivery` |
| stop requeues; another task claims; the first task's error path fails the new attempt | `Undisturbed.cfg` with `Events <- StopOnce`: `StaleTaskSparesNewerAttempt` |
| the count says nothing is queued; a message is queued; the failure is skipped; nobody claims | `QueueAdvances.cfg` with `Events <- FaultOnly`: `NoStrandedQueue` |
| a protocol retry is queued behind an older message and runs after it | `Events <- RetryOnly`: `RetryGoesFirst` |
| `waiting_approval` becomes `skipped`, which `can_transition_to` rejects | `Events <- AskAndFail`: `FollowsTransitionGraph` |
| a message is sent again while its last queue entry is being deleted, and the delivery goes with it | `AnyEvent.cfg` with `Events <- ResendAfterDelete`, `MaxRows = 3`: `UnqueueSparesOthers` |
| startup makes a member that waits for an approval idle before the recovery looks for active members (`executor_approvals.rs:142`): its delivery stays in `waiting_approval` | `ApprovalAnswers.cfg` with `LastRun = 1`, `Events = {"crash"}`: `RestartRequeues` |
| two permissions asked for at once: both requests read the delivery running and one loses the compare-and-set, unanswered (`lifecycle.rs:113`) | the same with `Events = {"parallel"}`: `OnlyStopsWin` |
| the next call of a run marks the member between the count and the restoration of the last one (`executor_approvals.rs:497`): it waits and is shown running | the same with `Events = {}`: `WaitingIsShown` |
| an executor that ends by itself leaves its requests pending (`runtime.rs:3309`); they hold the member of the next run | the same without `SYMMETRY`, with `RunOf <- TwoRuns`, `LastRun = 2`, `Events = {"exit"}`: `WaitingHasReason` |
| a second request about the same call registers after the first one's waiter has been taken out for an answer; the first then announces a card for a settled row (`executor_approvals.rs:340`), and nobody closes it | the same without `SYMMETRY`, with `CallOf <- Twice`, `LastRun = 1`, `Events = {"parallel"}`: `OnlyPendingIsShown` |
| a crash between the settling of a row and the archiving of its inbox item leaves the item open; so does an ACP runtime that ends with the request's run (`own`), which also leaves the row pending until the next start | the same with `Events = {"crash"}` or `{"own", "exit"}`: `OnlyPendingIsShown` |
| a stale snapshot carries the cursor across the end of a delivery and keeps its card | `ClientRecovers.cfg` with one member, `Events = {}`, `MaxRevision = 3`, `PageLimit = 2`: `NoGhost` |
| a delta out of order raises `needsResync` while a snapshot is on its way; the snapshot, older than the delta, takes it down (`useWorkspaceState.ts:855`) and nobody asks again | `ClientRecovers.cfg` with `Spec`, one member and `Events = {}`: `GapSurvivesRecovery` |
| a stop fails the execution; a running item's synchronization derives another status and overwrites it (`mod.rs:1496`) | `StepsRun.cfg` with `Requests = {"stop"}`: `StopIsTerminal` |
| a step whose open dependency was skipped is pending in a paused workflow, and resume says there is nothing to resume (`retry_resume.rs:855`) | `StepsEnd.cfg` with `Spec`, `Requests = {"retry", "skip"}`, `MaxRequests = 2`, `Crashes = 0`: `ResumeIsOffered` |
| a synchronization that read before a retry, a refusal, an acceptance or an interrupt writes after it | `StepsRun.cfg` with one request `retry`, `reject` or `interrupt`, or two among `accept` and `resume`: `SettledAgrees` |
| a cancel request kept from an interrupted review ends the approved or resumed run of the same attempt; or nobody ends it | `Interruptions.cfg` with `Requests = {"interrupt", "approve", "resume"}`, `MaxRequests = 3`: `NoAbandonedStep` |
| a forced completion cancels a running step and gives up when another, claimed meanwhile, is not as it was loaded (`plan_control.rs:763`): the cancelled step stays running | `StepsRun.cfg` with `Requests = {"stop", "complete"}`: `NoAbandonedStep` |
| the cancel request of a forced completion is kept, and ends the run of the same attempt when the step is resumed | `Interruptions.cfg` with `Requests = {"stop", "complete", "resume"}`, `MaxRequests = 3`: `NoAbandonedStep` |
| two passes at once: one promotes from steps the other has changed; or both promote one step, and the second writes ready over the running row, which is claimed again | simulation of `StepsRun.cfg` with two passes, `MaxRequests = 4` and `{"interrupt", "retry", "skip"}` or `{"approve", "skip", "interrupt"}`: `FollowsDependencies`; with `{"pause", "resume", "retry"}`: `OneRunnerPerStep` (which two requests `approve` break as well, after a longer search) |
| the guard of a refused item finds the step running, by another item's claim, and fails it (`step_executor.rs:2627`) | `StepsRun.cfg` with `AgentOf <- Alone` and `Requests = {"retry", "resume"}`: `FollowsDependencies` |
| the same failure of a running step, and the user retries it: the second run begins beside the first | `Interruptions.cfg` with `Requests = {"pause", "retry"}`, `MaxRequests = 3` (a trace of 67 states): `OneRunnerPerStep` |
| a crash between a claim and its synchronization, or while the execution says Paused or Waiting: the running step is not recovered | `StepsRun.cfg` with `Requests = {"skip"}`, `Crashes = 1`: `NoAbandonedStep` |
| a crash while an approval is being applied: the execution waits with a ready step and no request applies | `StepsEnd.cfg` with `Spec`, `MaxRequests = 2` and the invariant `Quiet /\ exec = "Waiting" /\ (\E s \in Steps : step[s] = "Ready") => asks # {}` |
| a crash between parking a step and writing its transcript leaves nothing to answer | the same with `Quiet /\ exec # "Failed" => \A s \in Steps : step[s] \in Parking => \E k \in asks : k[1] = s` |

In the worktrees (`WorktreesInOrder.cfg` with `Spec`, 1 commit, and the change given;
the line is of `session_worktree.rs` unless another file is named):

| What happens | How to see it |
|---|---|
| the cursor is the tip read after the commit (1226); what the agent has committed meanwhile is in no later patch | `Events <- Busy`, 2 commits: `NothingSkipped` |
| once conflicts are resolved nothing marks the merge as open (1680): another session's merge unstages it, and the continuation records it as done | `Events <- Overlap`, two sessions: `NothingSkipped` |
| an abort cut short after its reset (1465) leaves a row that `continue_merge` takes for complete | `Events <- HalfAbort`: `NothingSkipped` |
| a second discard of a row in `cleanup_pending` (1786) removes the worktree created after the first | `Events <- Twice`, two handlers, 2 rows: `LiveWorktreeIntact` |
| a merge in conflict can be discarded (1782); its unmerged paths then belong to nobody and every merge is refused | `Events <- DropMerge`: `ConflictHasOwner` |
| git cannot list the unmerged paths after a conflicting patch (1116): the row is made dirty (930) and the base workspace is not reset; the paths belong to nobody and every merge is refused | `Events <- LookFault`: `ConflictHasOwner` |
| git cannot read the branch after the commit (1226): the request returns past `abort_merge` (908) and the row stays `merging` until the user merges again or aborts | `Events <- TipFault` and `FairSpec`: `WorkEnds` |
| ... and that abort resets an index from which a merge without a patch has unstaged nothing: what the user had staged is lost | `Events = {"tipfault", "edit", "stage"}`: `EditsStay` |
| git cannot delete the branch of a worktree that is discarded (1942): the request returns and the row stays `cleanup_pending` until it is discarded again | `Events <- BranchFault` and `FairSpec`: `WorkEnds` |
| a merge cut short between its status and its operation is aborted with `git reset --hard` (1476) over the user's edits | `Events <- AbandonEdit`: `EditsStay` |
| a run is sent to the path of a worktree that is `creating` (`lifecycle.rs:2361`), and a plain directory is made there | `Events <- Twice`, two handlers: `RunsInWorktree` |
| what the user stages after the merge has unstaged (1142) is committed with the session's work | `Events <- StageInMerge`: `EditsStay` |
| `validate_transition` (272) allows `needs_conflict_resolution` to `cleanup_pending`, which the model's comment does not list | `Events <- DropMerge`: `FollowsModelDoc` |
| a deletion that fails half-way (1749) leaves a row that offers a path without a worktree | `Events <- HalfDeletion`: `RunsInWorktree` |

## 4. What is proved

Every theorem holds for all values of the constants that its module's assumption
admits: any finite sets of members, calls, steps, sessions and handlers, any bounds,
and, where no hypothesis says otherwise, any set of events.

### Delivery

For `DeliveryAssumption` and `LedgerAssumption` alone (`ChatDelivery_proofs`,
`ChatDeliveryRuns_proofs`):

    TypesAreKept            Spec => []TypeOK
    OneDeliveryInFlight     Spec => []OneActive
    DeliveriesInOrder       Spec => []InCreationOrder
    OneDeliveryPerMessage   Spec => []OneDeliveryPerTarget
    EndedStaysEnded         Spec => TerminalIsFinal
    DeliveryKeepsPromise    Spec => PromiseKept      (implements DeliverySpec)
    RunsNameTheirDelivery   Spec => []RunNamesItsDelivery
    RunsEndTheirOwnAttempt  Spec => RunEndsItsOwnAttempt
    UnqueueSparesTheLedger  "resend" \notin Events => (Spec => UnqueueSparesOthers)

and, when the events are such that nobody is parted from a delivery at work
(`LeftAlone`, below):

    NoDeliveryIsOrphaned      Spec => []NoOrphanedDelivery
    ExecutorsOwnTheirDelivery Spec => []ExecutorOwnsDelivery
    OneExecutorPerMember      Spec => []OneExecutor
    MembersShowTheirDelivery  Spec => []MemberShowsDelivery

*Statements.*  `Statement(L, M)` in `ChatDelivery_proofs` is the disjunction of
everything a handler may run against one ledger, with the condition under which
it runs it: a status is written only over an active one, a requeue only returns
an active row, a deletion removes a queued row or a message.  `Sound(L)` is the
ledger's invariant.  None of `OneActive`, `InCreationOrder` and
`OneDeliveryPerTarget` is inductive alone: a new row is last in order only if ids
are handed out from below (`Dense`), and an older row may be requeued only
because everything younger is untouched (`Ordered` with `Single`).
`StatementKeepsLedgerSound` proves that every statement keeps `Sound`;
`StatementEffects` what it may do to each row.

*Steps.*  `NextRunsStatements` in `ChatDelivery_proofs` shows, action by action,
that a step of the system runs at most one statement on each ledger.  The
conditions hold because of what tasks and stop calls remember between two of
their steps (`SafeTask`, `SafeStop`): a task about to write a status has decided
on one that ends the delivery, a stop call about to requeue has read an active
row, and the compare-and-set checks that the row still is what was read.  With
`IInv == Bookkeeping /\ Ledgers`, `InitIInv` and `StepIInv` give `[]IInv`, and the
theorems follow; the refinement and `TerminalIsFinal` follow from `[]IInv` and
`StatementEffects`.

*Runs.*  `Named` is what a run id may be relied on for: a run in `runOf` has been
taken by one task of one member, the task carries the row's id and revision from
the claim on, and a task that has loaded its delivery agrees with the row wherever
the row is in flight and bound to the task's run.  Every action keeps it because
run ids are never handed out twice and because a requeue raises the attempt.

*Undisturbed deliveries.*  `LeftAlone` says that `Events` has no `stop`, `remove`,
`unanswered`, `relapse` and `late`, and not both `unqueue` and `resend`.  Each of
these breaks the four properties in the code (section 3, disagreements): a stop
requeues a delivery its task is starting, a removal cascades to a delivery in
flight, a restart forgets a member that waits for approval, a second crash comes
between recovery's two statements, an executor is started after its run was given
up, a message sent again is erased with its queue entry.  Everything else - sends,
resends, retries, faults, failures, crashes, approvals, continuations - stays.  The
invariant `SteadyIInv` says per member (`SteadyAt`): at most one task holds the
member (`Held`), its row is in flight with the status its place in the program
implies (`Fits`), the run's control is its own (`Owned`), the member's state is what
that status implies (`Shown`); when no task holds the member, nothing is in flight
and the member is idle, or recovery still has it on its list.  `RunSteady`,
`QueueSteady`, `RecoverySteady` and `CrashSteady` go through the actions; a step of
one task leaves what it does not hold alone (`SameAt`).

### Outbox

For `OutboxAssumption` (`RuntimeOutbox_proofs`):

    TypeCorrect             Spec => []TypeOK
    OutboxStaysContiguous   Spec => []OutboxContiguous
    GhostsExplained         Spec => []GhostsAreExplained
    LossNoticed             Spec => []LossIsNoticed
    CursorMonotone          Spec => CursorNeverGoesBack

`IInv` adds to the types what retention leaves (`Retained`), that replay pages are in
order of revision (`PageOrdered`), that what the client shows was true at the cursor
or is explained (`Truthful`, `GhostsAreExplained`), and which changes the client has
heard of, or will when it looks next (`Heard`).

### Workflows

For `WorkflowAssumption` (`WorkflowScheduler_proofs`, `WorkflowOrder_proofs`):

    StatusesHaveTypes       Spec => []TypeOK
    DerivedSessionIsAllowed what derive_session_status derives, its validation allows
    RunningStepsAreAttended NoInterruption => (Spec => []NoAbandonedStep)
    InterruptedStepsAreAttended
                            OnlyInterrupted => (Spec => []NoAbandonedStep)
    OneRunnerUntilRetriedTwice
                            OnlyInterrupted => (Spec => [](RetriedOnce => OneRunnerPerStep))
    DependenciesComeFirst   NoInterrupts /\ OneDriver => (Spec => FollowsDependencies)
    LastSynchronizationIsRight
                            OnlyWaking /\ Passes # {} => (Spec => []SettledAgrees)
    PlansDoNotStall         the same and Acyclic => (Spec => []NoSilentStall)

`NoInterrupts` says that requests have no stop, pause, interrupt and forced
completion, `NoInterruption` that the process does not die either: those part a step
from its run on purpose, or leave it to recovery.  The invariant says what an item of a pass knows
about its step (`SoundItems`), a pass about the items it has started (`SoundPasses`),
a retry about the status it saw (`SoundRetry`), and that every running step is
`Attended`.  `Calm` keeps requests out that `NoInterrupts` excludes.

`OnlyInterrupted` is the other half: requests may stop, pause, interrupt, retry, skip,
reject and accept, in any number and order, one pass drives the plan, and the process
does not die.  A stop cancels the runs of the steps it has loaded as running, settles
each of them, and looks again; a run that is told writes nothing more.  Between the
two writes the row says running and nobody runs it, so `Kept` has two sides: an item
that has not been told (`Holds`: its attempt is the row's and no cancel request names
it), or the handler that told it (`BeingStopped`).  What makes them meet is `UserMinds`
(a step on a handler's list has been started and stays so, and a step that is retried
has an attempt nobody told to stop), `CancelsFit` (a cancel request names a step that
has been started, and no attempt to come, so no run is told before it is claimed) and
`PassesSee` (what a pass takes for pending nobody else has promoted, so no promotion
puts a running step back to ready).  The invariant is `Whole`.  A resume, an
approval, a forced completion or a second pass breaks the property in the code (section
3, disagreements).

`OneRunnerUntilRetriedTwice` stands on `Whole` as well.  `RetriedOnce` is a condition on
the state, so the theorem speaks of every state up to the second retry of a step, however
many steps are retried.  `Single` says that two runs of one step are of two attempts, since
a claim takes an attempt nobody works on (`AttemptsFit`), and that before its first retry a
step has no item but the pass's (`RetriesCount`): of two runs of a step that has been retried
once one is the first.  While the first run goes on untold, its step is running or asked to
interrupt, and no handler at work may settle, refuse or retry it (`FirstRuns`, `Grants`), so
the retry that would start the other has not begun.  The second retry breaks this: when
the retry item of the first is refused, its guard fails the row that the pass's agent
is running, and the user retries a step that still has its agent (section 3,
disagreements).

`OneDriver` has the passes follow one another and nobody retry.  Promotion and
selection decide on steps read several writes ago; what keeps the readings good is
that each status is left by one actor only: a pending step by the pass, a ready or
running one by its item, a parked one by the answer to its only transcript, a failed
one by a resume or a skip.  `OrderInv` says so of items (`ItemsFit`), transcripts
(`AsksFit`), handlers (`UserFits`) and of what a pass has read (`PassesFit`: what it
takes for pending is pending, what it takes for done is done); with `Started`, that
only steps whose dependencies are done have left `Pending`, the theorem follows.  A
restart empties what passes, items and handlers hold and makes ready what was
running, so it keeps `OrderInv` too (the StepsRun plan with `Crashes = 1` and this
property alone has 674,255 states, without a counterexample).  Two passes at once and retries break the
property (section 3, disagreements).

`OnlyWaking` has the user skip, resume and approve, the requests that end by waking
the scheduler.  Synchronizations overwrite each other from stale readings; the last
one is the pass's.  `WakeInv` says that a handler that has written a step will wake a
pass and cannot fail before, and that no synchronization of a running execution is
refused; `Cool` says what the pass knows from the moment nobody else is `Hot`: it has
read the steps as they are, and once it judges, execution and sessions agree with
them.  A retry, a refusal, an interrupt or an acceptance may be the last to
synchronize, from an older reading, and the property fails.  `Acyclic` is the
validator's rule (`validator.rs`, `detect_cycle`) as a rank of the steps: in a plan
without cycles whose pass finds nothing to promote, an open step of least rank would
have all its dependencies done.

### Approvals

For `ApprovalAssumption` (`ExecutorApprovals_proofs`):

    TypesHold               Spec => []TypeOK
    NobodySleepsThrough     Spec => []NoLostWakeup
    AnswersAreRecorded      Spec => []AnswerIsSelected
    DecisionsAreKept        Spec => DecisionsKept    (implements ApprovalSpec)
    StopsAloneWin           OneByOne => (Spec => []OnlyStopsWin)
    OnlyOpenIsShown         Kept /\ NoCrash /\ OneEach => (Spec => []OnlyPendingIsShown)
    MembersWaitForAReason   Kept /\ Obeys => (Spec => []WaitingHasReason)

`IInv` relates the row of a call, the waiter in memory, the letter it may hold and the
place of its request: `Bound`, `Known`, `Aimed` and `Held` say whose waiter is
registered and who holds it; `Sleeping` is `NoLostWakeup` strengthened to requests
that are about to wait; `Faithful` is `AnswerIsSelected` strengthened to answers that
are on their way; `Rebooting` says what startup has taken over.

`DecisionsAreKept` carries along why a request has its answer (`Grounds`), from the
moment it has one until it returns it (`Grounded`): rows are settled, runs halted and
requests made meanwhile, none of which takes a reason away (`GroundsStay`).
`AnswersHaveSource` goes through the places an answer comes from - the row as
`create_or_find` or the second reading finds it, the channel, the stop, the refusal of
a second waiter, the delivery that has changed - and `SourcesAreGrounds` finds the
reason for each; `RowsMove` and `OrphansExpire` are the decisions' side.

The hypotheses of the other three name the events that break the properties in the
code, each with a row among the disagreements of section 3: `OneByOne` has no two
requests of one run at once, `Kept` no request that ends with its runtime (`own`),
`NoCrash` no crash, `OneEach` no two requests about one call at once, `Obeys` no
executor that ends by itself.  The ApprovalAnswers run satisfies all of them.

`StopsAloneWin` rests on `Alone`: at most one request of a run is at work, so what a
request has read of the delivery (`Steady`) only an end of the run can change, and
that is a stop (`OnTime`, `Begun`).  `OnlyOpenIsShown` rests on `ItemOwed` and
`CardOwed`: what shows a settled row as open is about to be closed by whoever settled
it, or, for an item created late, by the request itself when it rechecks the row.
`MembersWaitForAReason` rests on `Owed` (a member that waits has a pending row, or a
restoration on its way), on `Asked` (a pending row has a request at work) and on
`Warned` (a request that outlives its run has been told so).

### Worktrees

For `WorktreeAssumption` and `OneAtATime`, that a session has one request at a time
(no `twice`; `SessionWorktrees_proofs`, `WorktreeMerges_proofs`).  The second column is
what each theorem needs besides.

    TypeCorrect                                   Spec => []TypeOK
    WorktreesStay          Whole                  Spec => []LiveWorktreeIntact
    RunsFindTheirWorktree  Whole, no abandon      Spec => []RunsInWorktree
    ConflictsAreOwned      no dropmerge, lookfault
                                                  Spec => []ConflictHasOwner
    CommitsAreOwn          no overlap             Spec => CommitIsOwn
    CursorsSkipNothing     no overlap, busy, halfabort
                                                  Spec => []NothingSkipped
    EditsAreKept           no abandon, latestage, tipfault
                                                  Spec => EditsStay

`Whole`: where sessions are deleted, no request is dropped and no removal fails
halfway.  Each event that is left out breaks the property in the code (section 3,
disagreements); everything else - other failures, conflicts, edits, deletions, requests
dropped between any two steps, any number of sessions at one base workspace - stays.
`WorktreesInOrder` satisfies all these hypotheses, `WorktreesShared` those of its two
properties.

*Worktrees.*  Per session the invariant has at most one live row (`OneLive`), whose
directory and branch are there (`Intact`), and a row that is being made or removed has
its handler (`Attended`); per handler it says what the request may rely on between two
steps: `Making`, `Cleaning`, `Deleting`, `Starting`, `Named`.

*Merges.*  `MInv` adds where the operation of a request puts it and which status the
session's row has meanwhile (`Placed`), and that nothing of its session is unmerged
where a merge starts, nor, without `lookfault`, where it is given up (`Smooth`).  On it
rest four invariants.  `CInv`: unmerged paths of a session mean that its row is being
merged or resolved (`Owned`).  `XInv`: at most one session is engaged in a merge
(`Exclusive`), and from the unstaging of a merge to its commit nothing of another
session is staged or unmerged (`Apart`); the check that starts a merge looks for
unmerged paths only, so `Exclusive` is where `overlap` hurts. `SInv`: the cursor of a
row in use is covered by the base branch (`Covered`), a merge at work carries the rest
of the branch in its patch, in the index or among the unmerged paths (`Caught`), and so
does a merge that waits for its resolution (`Accounted`).  `EInv`: from the unstaging on
the user's edit is not in the index (`Unstaged`), nor while a conflict waits (`Minded`),
and an abort undoes a squash, so it resets the index and not the files (`Squashing`).

### Only model-checked

Liveness (`InFlightEnds`, `QueueAdvances`, the client's catching up, `StepsSettle`,
`EndsAtTheUser`, `RequestReturns`, `WorkEnds`) and everything about ENABLED: the proof
system has no rules for fairness that its provers can use.  What recursive
definitions compute for every input, since the induction theorems take an operator
as a parameter.
Every safety property of the passing runs is stated by a theorem, most of them under a
hypothesis.

A theorem with a hypothesis says nothing of the requests and events it excludes; of
those that break the property the disagreements of section 3 show how.  The others are
left to the runs: `SettledAgrees` and `NoSilentStall` are proved for `Crashes = 0` only,
and the Interruptions run has a forced completion in a plan of one step.  `OneRunnerPerStep`
under resumes, approvals, forced completions and crashes was only looked at: on one step
with up to three requests TLC finds no violation of `RetriedOnce => OneRunnerPerStep`,
which is a small instance and no more.

## 5. What is not modelled

| Part | Reason |
|---|---|
| Reviews, loops and iterations of workflows | built on the scheduler; their statuses are kept in the reducer's tables |
| Plan compiler and validator | sequential checks of a graph |
| Protocol parsing, prompts, executors | text and processes; in the models an executor starts, asks and ends |
| Agent catalogue, configuration, skills | look-ups on the machine |
| Projects, GitHub, repositories | rows and calls to services, no protocol of their own |
| Analytics, statistics, notifications | consumers that feed nothing back |
| Workspace changes of a run | a diff that nothing reads back |
| Frontend but for the delivery projection, desktop shell, command line | clients of the server |

## 6. What is left of the plan

* `PlanValidator`: cycle and reachability checks against graph definitions.
* Reviews and loops on top of `WorkflowScheduler`.
