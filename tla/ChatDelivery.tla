----------------------------- MODULE ChatDelivery -----------------------------
(***************************************************************************)
(* Delivery of chat messages to agent members through the durable queue:   *)
(* the HTTP handlers, the dispatch tasks of ChatRunner, the executor with  *)
(* its exit watcher and stream bridge, the stop handler, the delete        *)
(* handler, approval callbacks, and backend restarts.                      *)
(*                                                                         *)
(* Every await on the database is a point where the other actors may run:  *)
(* one action is one transaction or statement together with the code up to *)
(* the next one.  Where a read is merged with the compare-and-set that     *)
(* follows it, a miss changes nothing, so no outcome is lost.              *)
(***************************************************************************)
EXTENDS DeliveryLedger, FiniteSets

CONSTANTS Members,        \* the agent members of one session
          Events,         \* the events below that the environment may cause
          Budget          \* bound on how many of them it causes

EventKinds ==
  {"resend",       \* idempotent retry of a send
   "retry",        \* the agent's output calls for a protocol retry
   "stop",         \* stop request for a member
   "continue",     \* "continue" after a failure
   "unqueue",      \* deletion of a queue entry
   "remove",       \* deletion of a message
   "ask",          \* tool approval requested by an executor
   "late",         \* its callback comes after the executor's exit
   "unanswered",   \* the backend dies while a request is pending
   "fault",        \* a dispatch or a startup that fails
   "failure",      \* an executor that fails
   "crash",        \* the backend dies while it serves requests
   "relapse"}      \* the backend dies during startup recovery

ASSUME DeliveryAssumption ==
  IsFiniteSet(Members) /\ Events \subseteq EventKinds /\ Budget \in Nat

VARIABLES
  \* persistent
  rows,       \* rows[m]: member m's ledger
  member,     \* member[m]: chat_session_agents.state
  message,    \* message[n]: its resolved targets ({}: no such message)
  sent,       \* messages created so far; message ids are creation order
  \* in memory
  control,    \* run_controls[m]: the run whose stop token is registered
  task,       \* task[m][k]: the dispatch task that owns run k of member m
  wake,       \* wake[m]: spawned dispatch_next_queued_message calls
  stop,       \* stop[m]: the stop handler serving member m
  unqueue,    \* the delete-queue-item handler
  recovering, \* recovering[m]: what startup recovery still owes member m
  \* bound
  budget      \* events the environment may still cause

persistent == <<rows, member, message, sent>>
memory     == <<control, task, wake, stop, unqueue, recovering>>
vars       == <<persistent, memory, budget>>

-------------------------------------------------------------------------------
(* State. *)

\* "running" stands for `running` and for `waitingapproval`, which the approval
\* service alone swaps with it: every handler below treats the two alike.
MemberState  == {"idle", "running", "stopping", "dead"}
ActiveMember == {"running", "stopping"}

TaskStep == {"free", "load", "register", "prepare", "start", "execute",
             "finalize", "commit", "retry", "reclaim", "drop", "fail",
             "settle", "skip", "mark", "done"}
Outcome  == {"none", "ok", "retry", "failed", "stopped"}

Task == [pc       : TaskStep,
         row      : RowIds \cup {NoRow},   \* the delivery it works on
         entry    : Nat,    \* revision of the queue entry it was handed
         rev      : Nat,    \* revision its next compare-and-set expects
         attempt  : Nat,    \* attempt_no of the delivery it loaded
         next     : Status, \* status it decided to write
         outcome  : Outcome,
         stopped  : BOOLEAN,  \* its stop token is cancelled
         watched  : BOOLEAN,  \* the exit watcher has not finished
         asking   : BOOLEAN]  \* an approval request is open

IdleTask == [pc |-> "free", row |-> NoRow, entry |-> 0, rev |-> 0,
             attempt |-> 0, next |-> "absent", outcome |-> "none",
             stopped |-> FALSE, watched |-> FALSE, asking |-> FALSE]

StopStep == {"idle", "find", "lookup", "transition", "cancel", "reset",
             "list", "requeue"}
StopCall == [pc     : StopStep,
             live   : BOOLEAN,                \* the member row looked active
             row    : RowIds \cup {NoRow},    \* the delivery it found
             rev    : Nat,
             status : Status,
             run    : Runs \cup {NoRun}]      \* that delivery's run, then
                                              \* the registered run
NoStop == [pc |-> "idle", live |-> FALSE, row |-> NoRow, rev |-> 0,
           status |-> "absent", run |-> NoRun]

UnqueueCall == [pc : {"idle", "count", "erase"}, msg : Messages \cup {NoMessage}]
NoUnqueue   == [pc |-> "idle", msg |-> NoMessage]

Recovery == {"none", "reset", "requeue", "resume"}

MessageRow == [targets : SUBSET Members, user : BOOLEAN]
NoSuchMessage == [targets |-> {}, user |-> FALSE]

Init ==
  /\ rows       = [m \in Members |-> EmptyLedger]
  /\ member     = [m \in Members |-> "idle"]
  /\ message    = [n \in Messages |-> NoSuchMessage]
  /\ sent       = 0
  /\ control    = [m \in Members |-> NoRun]
  /\ task       = [m \in Members |-> [k \in Runs |-> IdleTask]]
  /\ wake       = [m \in Members |-> 0]
  /\ stop       = [m \in Members |-> NoStop]
  /\ unqueue    = NoUnqueue
  /\ recovering = [m \in Members |-> "none"]
  /\ budget     = Budget

-------------------------------------------------------------------------------
(* Helpers. *)

Spend(kind) == /\ kind \in Events /\ budget > 0
               /\ budget' = budget - 1

\* Recovery completes before the server accepts requests.
Serving == \A m \in Members : recovering[m] = "none"

\* The message of a protocol retry already decided on is set aside.
RoomForMessage ==
  sent + Cardinality({p \in Members \X Runs : task[p[1]][p[2]].outcome = "retry"})
    < MaxMessages

Exists(n) == message[n].targets # {}

IsFreeRun(T, k) == /\ T[k].pc = "free"
                   /\ \A j \in Runs : j < k => T[j].pc # "free"
HasFreeRun(T)   == \E k \in Runs : IsFreeRun(T, k)
FreeRun(T)      == CHOOSE k \in Runs : IsFreeRun(T, k)

\* dispatch_queued_entry is called with the row as the caller read it.
Launch(T, L, i) ==
  IF i = NoRow THEN T
  ELSE [T EXCEPT ![FreeRun(T)] = [IdleTask EXCEPT !.pc    = "load",
                                                  !.row   = i,
                                                  !.entry = L[i].rev]]

\* A task keeps its run id and, while they last, its watcher and approval.
Finished(t) == [IdleTask EXCEPT !.pc      = "done",
                                !.row     = t.row,
                                !.watched = t.watched,
                                !.asking  = t.asking]

SetTask(m, k, t) == task' = [task EXCEPT ![m][k] = t]
SetRows(m, L)    == rows' = [rows EXCEPT ![m] = L]

TheRow(m, k)  == rows[m][task[m][k].row]
Working(m, k) == task[m][k].pc \notin {"free", "done"}

-------------------------------------------------------------------------------
(* Handlers: sending. *)

\* persist_delivery_bundle_rows for one target: create, then claim the
\* oldest.  The dispatch list holds the claimed row and a row of this very
\* message that is starting and not bound yet.
Bundle(L, n) == ClaimNext(Enqueue(L, n))
ToDispatch(L, n) ==
  LET queued  == Enqueue(L, n)
      Unbound == {i \in RowIds : /\ queued[i].status = "starting"
                                 /\ queued[i].msg = n
                                 /\ queued[i].run = NoRun}
  IN  IF NextClaim(queued) # NoRow THEN NextClaim(queued)
      ELSE IF Unbound # {} THEN CHOOSE i \in Unbound : TRUE
      ELSE NoRow

CanBundle(m, n) == /\ HasRowFor(rows[m], n) \/ HasRoom(rows[m])
                   /\ ToDispatch(rows[m], n) = NoRow \/ HasFreeRun(task[m])

PersistBundle(n, targets) ==
  /\ \A m \in targets : CanBundle(m, n)
  /\ rows' = [m \in Members |->
                IF m \in targets THEN Bundle(rows[m], n) ELSE rows[m]]
  /\ task' = [m \in Members |->
                IF m \in targets
                THEN Launch(task[m], Bundle(rows[m], n), ToDispatch(rows[m], n))
                ELSE task[m]]
  /\ UNCHANGED <<member, control, wake, stop, unqueue, recovering>>

\* persist_and_dispatch_message: a new message
Send(targets) ==
  /\ Serving /\ targets # {} /\ RoomForMessage
  /\ sent' = sent + 1
  /\ message' = [message EXCEPT ![sent + 1] = [targets |-> targets, user |-> TRUE]]
  /\ PersistBundle(sent + 1, targets)
  /\ UNCHANGED budget

\* persist_and_dispatch_message: the client's retry of a message it sent
Resend(n) ==
  /\ Serving /\ Exists(n) /\ message[n].user
  /\ Spend("resend")
  /\ PersistBundle(n, message[n].targets)
  /\ UNCHANGED <<message, sent>>

\* continue_member_queue: the snapshot must be blocked with work waiting
Continue(m) ==
  /\ Serving /\ IsBlocked(rows[m]) /\ HasQueued(rows[m])
  /\ Spend("continue")
  /\ SetRows(m, ResolveFailed(rows[m]))
  /\ wake' = [wake EXCEPT ![m] = @ + 1]
  /\ UNCHANGED <<member, message, sent, control, task, stop, unqueue, recovering>>

\* dispatch_next_queued_message
Wake(m) ==
  /\ wake[m] > 0
  /\ NextClaim(rows[m]) # NoRow => HasFreeRun(task[m])
  /\ wake' = [wake EXCEPT ![m] = @ - 1]
  /\ SetRows(m, ClaimNext(rows[m]))
  /\ task' = [task EXCEPT ![m] =
                Launch(task[m], ClaimNext(rows[m]), NextClaim(rows[m]))]
  /\ UNCHANGED <<member, message, sent, control, stop, unqueue, recovering, budget>>

-------------------------------------------------------------------------------
(* The dispatch task of run k: dispatch_queued_entry, run_agent_internal.   *)

TaskOnly == UNCHANGED <<rows, member, message, sent, wake, stop, unqueue, recovering>>

\* Loads the message and the claimed row by id; anything but a starting row
\* is an error, and the entry handed over is then failed or skipped.
Load(m, k) ==
  LET t == task[m][k]  r == TheRow(m, k) IN
  /\ t.pc = "load"
  /\ SetTask(m, k, IF r.status = "starting"
                   THEN [t EXCEPT !.pc = "register", !.rev = r.rev,
                                  !.attempt = r.attempt]
                   ELSE [t EXCEPT !.pc = "skip"])
  /\ TaskOnly /\ UNCHANGED <<control, budget>>

\* The member or its agent cannot be resolved.
LoadFault(m, k) ==
  /\ task[m][k].pc = "load"
  /\ Spend("fault")
  /\ SetTask(m, k, [task[m][k] EXCEPT !.pc = "skip"])
  /\ TaskOnly /\ UNCHANGED control

\* register_run_control: the new token replaces whatever is registered.
Register(m, k) ==
  /\ task[m][k].pc = "register"
  /\ control' = [control EXCEPT ![m] = k]
  /\ SetTask(m, k, [task[m][k] EXCEPT !.pc = "prepare"])
  /\ TaskOnly /\ UNCHANGED budget

\* Workspace, context, skills or prompt cannot be prepared.
PrepareFault(m, k) ==
  /\ task[m][k].pc = "prepare"
  /\ Spend("fault")
  /\ SetTask(m, k, [task[m][k] EXCEPT !.pc = "drop", !.outcome = "failed"])
  /\ TaskOnly /\ UNCHANGED control

\* bind_delivery_to_new_run: run, delivery and member in one transaction
Bind(m, k) ==
  LET t == task[m][k] IN
  /\ t.pc = "prepare"
  /\ IF Matches(rows[m], t.row, t.rev, {"starting"})
     THEN /\ SetRows(m, BindRun(rows[m], t.row, k))
          /\ member' = [member EXCEPT ![m] = "running"]
          /\ SetTask(m, k, [t EXCEPT !.pc = "start", !.rev = 0])
     ELSE /\ UNCHANGED <<rows, member>>
          /\ SetTask(m, k, [t EXCEPT !.pc = "drop",
                                     !.outcome = IF t.stopped THEN "stopped"
                                                              ELSE "failed"])
  /\ UNCHANGED <<message, sent, control, wake, stop, unqueue, recovering, budget>>

\* wait_for_executor_startup selects among the executor that came up, the
\* stop token and an error or timeout; several may be ready.
Start(m, k) ==
  /\ task[m][k].pc = "start"
  /\ SetTask(m, k, [task[m][k] EXCEPT !.pc = "execute", !.watched = TRUE])
  /\ TaskOnly /\ UNCHANGED <<control, budget>>

StartStopped(m, k) ==
  /\ task[m][k].pc = "start" /\ task[m][k].stopped
  /\ SetTask(m, k, [task[m][k] EXCEPT !.pc = "drop", !.outcome = "stopped"])
  /\ TaskOnly /\ UNCHANGED <<control, budget>>

StartFault(m, k) ==
  /\ task[m][k].pc = "start"
  /\ Spend("fault")
  /\ SetTask(m, k, [task[m][k] EXCEPT !.pc = "drop", !.outcome = "failed"])
  /\ TaskOnly /\ UNCHANGED control

\* DeliveryAwareApprovalBridge: find by run, expect a status, compare-and-set.
Approval(m, k, from, to) ==
  IF \E i \in BoundTo(rows[m], k) : rows[m][i].status = from
  THEN \E i \in BoundTo(rows[m], k) :
          rows[m][i].status = from /\ SetRows(m, SetStatus(rows[m], i, to))
  ELSE UNCHANGED rows

AskApproval(m, k) ==
  /\ task[m][k].pc = "execute" /\ ~task[m][k].asking
  /\ Spend("ask")
  /\ Approval(m, k, "running", "waiting_approval")
  /\ SetTask(m, k, [task[m][k] EXCEPT !.asking = TRUE])
  /\ UNCHANGED <<member, message, sent, control, wake, stop, unqueue, recovering>>

\* The answer, the timeout or the cancellation of the request.  Its callback
\* runs in the executor's client and may come after the executor's exit.
LeaveApproval(m, k) ==
  /\ task[m][k].asking
  /\ IF task[m][k].pc = "execute" THEN UNCHANGED budget ELSE Spend("late")
  /\ Approval(m, k, "waiting_approval", "running")
  /\ SetTask(m, k, [task[m][k] EXCEPT !.asking = FALSE])
  /\ UNCHANGED <<member, message, sent, control, wake, stop, unqueue, recovering>>

\* The lifecycle watcher publishes a completion status and ends the stream.
Exit(m, k, outcome) ==
  LET t == task[m][k] IN
  /\ t.pc = "execute"
  /\ \/ outcome = "ok" /\ UNCHANGED budget
     \/ outcome = "failed" /\ Spend("failure")
     \/ outcome = "stopped" /\ t.stopped /\ UNCHANGED budget
     \/ outcome = "retry" /\ RoomForMessage /\ Spend("retry")
  /\ SetTask(m, k, [t EXCEPT !.pc = "finalize", !.outcome = outcome])
  /\ TaskOnly /\ UNCHANGED control

\* spawn_exit_watcher: after the stream has ended, drop the own control.
WatcherEnds(m, k) ==
  LET t == task[m][k] IN
  /\ t.watched /\ t.pc # "execute"
  /\ control' = [control EXCEPT ![m] = IF @ = k THEN NoRun ELSE @]
  /\ SetTask(m, k, [t EXCEPT !.watched = FALSE])
  /\ TaskOnly /\ UNCHANGED budget

\* The stream bridge reads the delivery bound to its run ...
Finalize(m, k) ==
  LET t == task[m][k] IN
  /\ t.pc = "finalize"
  /\ SetTask(m, k,
       IF BoundTo(rows[m], k) = {} THEN Finished(t)
       ELSE LET i == CHOOSE i \in BoundTo(rows[m], k) : TRUE
            IN  [t EXCEPT !.pc = "commit", !.rev = rows[m][i].rev])
  /\ TaskOnly /\ UNCHANGED <<control, budget>>

\* ... and finalizes exactly that revision.  A success or a stop also claims
\* and dispatches the next delivery, unless a protocol retry follows; a miss
\* is ignored for good.
Commit(m, k) ==
  LET t     == task[m][k]
      Mine  == {i \in BoundTo(rows[m], k) : Matches(rows[m], i, t.rev, Active)}
      i     == CHOOSE i \in Mine : TRUE
      done  == SetStatus(rows[m], i, "completed")
      next  == IF t.outcome = "retry" THEN NoRow ELSE NextClaim(done)
      after == IF t.outcome = "retry" THEN done ELSE ClaimNext(done)
      ended == [task[m] EXCEPT ![k] =
                  IF t.outcome = "retry" THEN [t EXCEPT !.pc = "retry", !.rev = 0]
                                         ELSE Finished(t)]
  IN
  /\ t.pc = "commit"
  /\ \/ /\ Mine = {}
        /\ SetTask(m, k, Finished(t))
        /\ UNCHANGED <<rows, member>>
     \/ /\ Mine # {} /\ t.outcome # "failed"
        /\ next # NoRow => HasFreeRun(task[m])
        /\ SetRows(m, after)
        /\ member' = [member EXCEPT ![m] = "idle"]
        /\ task' = [task EXCEPT ![m] = Launch(ended, after, next)]
     \/ /\ Mine # {} /\ t.outcome = "failed"
        /\ SetRows(m, FailOrSkip(rows[m], i))
        /\ member' = [member EXCEPT ![m] = "dead"]
        /\ SetTask(m, k, Finished(t))
  /\ UNCHANGED <<message, sent, control, wake, stop, unqueue, recovering, budget>>

\* Protocol retry: a new message for this member, which run_agent_internal
\* dispatches directly: it creates the delivery ...
Retry(m, k) ==
  LET t == task[m][k] IN
  /\ t.pc = "retry" /\ sent < MaxMessages
  /\ HasRoom(rows[m]) /\ HasFreeRun(task[m])
  /\ sent' = sent + 1
  /\ message' = [message EXCEPT ![sent + 1] = [targets |-> {m}, user |-> FALSE]]
  /\ SetRows(m, Enqueue(rows[m], sent + 1))
  /\ task' = [task EXCEPT ![m] =
                [@ EXCEPT ![k] = Finished(t),
                          ![FreeRun(@)] = [IdleTask EXCEPT !.pc  = "reclaim",
                                                           !.row = Fresh(rows[m])]]]
  /\ UNCHANGED <<member, control, wake, stop, unqueue, recovering, budget>>

\* ... and claims.  Another row that was older is dispatched instead, and the
\* retry stays queued behind it.
Reclaim(m, k) ==
  LET t    == task[m][k]
      next == NextClaim(rows[m])
      L    == ClaimNext(rows[m]) IN
  /\ t.pc = "reclaim"
  /\ SetRows(m, L)
  /\ \/ next = NoRow /\ SetTask(m, k, Finished(t))
     \/ next = t.row /\ SetTask(m, k, [t EXCEPT !.pc = "register", !.rev = L[next].rev,
                                                !.attempt = L[next].attempt])
     \/ /\ next \notin {NoRow, t.row}
        /\ SetTask(m, k, [IdleTask EXCEPT !.pc = "load", !.row = next,
                                          !.entry = L[next].rev])
  /\ UNCHANGED <<member, message, sent, control, wake, stop, unqueue,
                 recovering, budget>>

-------------------------------------------------------------------------------
(* The error path of run_agent_internal and fail_or_skip_queue_entry.       *)

AfterFailure(t) == IF t.entry > 0
                   THEN [t EXCEPT !.pc = "skip", !.rev = 0, !.next = "absent",
                                  !.outcome = "none"]
                   ELSE Finished(t)

\* Drops its own control ...
DropControl(m, k) ==
  /\ task[m][k].pc = "drop"
  /\ control' = [control EXCEPT ![m] = IF @ = k THEN NoRun ELSE @]
  /\ SetTask(m, k, [task[m][k] EXCEPT !.pc = "fail"])
  /\ TaskOnly /\ UNCHANGED budget

\* ... reads the delivery again and decides.
Fail(m, k) ==
  LET t == task[m][k]  r == TheRow(m, k) IN
  /\ t.pc = "fail"
  /\ SetTask(m, k,
       IF r.status \in Stored /\ r.run = k
       THEN [t EXCEPT !.pc = "settle", !.rev = r.rev, !.next = "running"]
       ELSE IF r.status = "starting"
       THEN [t EXCEPT !.pc = "settle", !.rev = r.rev,
                      !.next = IF t.outcome = "stopped" THEN "cancelled"
                               ELSE FailureStatus(rows[m])]
       ELSE AfterFailure(t))
  /\ TaskOnly /\ UNCHANGED <<control, budget>>

\* A delivery already bound to this run is finalized like a finished run,
\* except that nothing is claimed ...
SettleBound(m, k) ==
  LET t    == task[m][k]
      Mine == {i \in BoundTo(rows[m], k) : Matches(rows[m], i, t.rev, Active)}
      i    == CHOOSE i \in Mine : TRUE IN
  /\ t.pc = "settle" /\ t.next = "running"
  /\ IF Mine = {} THEN UNCHANGED <<rows, member>>
     ELSE IF t.outcome = "stopped"
     THEN /\ SetRows(m, SetStatus(rows[m], i, "completed"))
          /\ member' = [member EXCEPT ![m] = "idle"]
     ELSE /\ SetRows(m, FailOrSkip(rows[m], i))
          /\ member' = [member EXCEPT ![m] = "dead"]
  /\ SetTask(m, k, AfterFailure(t))
  /\ UNCHANGED <<message, sent, control, wake, stop, unqueue, recovering, budget>>

\* ... one still starting takes the status decided on.
SettleStarting(m, k) ==
  LET t == task[m][k] IN
  /\ t.pc = "settle" /\ t.next # "running"
  /\ SetRows(m, IF Matches(rows[m], t.row, t.rev, {"starting"})
                THEN SetStatus(rows[m], t.row, t.next) ELSE rows[m])
  /\ SetTask(m, k, AfterFailure(t))
  /\ UNCHANGED <<member, message, sent, control, wake, stop, unqueue, recovering, budget>>

\* fail_or_skip_queue_entry: is anything queued? ...
Skip(m, k) ==
  /\ task[m][k].pc = "skip"
  /\ SetTask(m, k, [task[m][k] EXCEPT !.pc = "mark",
                                      !.next = FailureStatus(rows[m])])
  /\ TaskOnly /\ UNCHANGED <<control, budget>>

\* ... then finalize the entry as it was handed over.
Mark(m, k) ==
  LET t == task[m][k] IN
  /\ t.pc = "mark"
  /\ SetRows(m, IF Matches(rows[m], t.row, t.entry, {"starting"})
                THEN SetStatus(rows[m], t.row, t.next) ELSE rows[m])
  /\ SetTask(m, k, Finished(t))
  /\ UNCHANGED <<member, message, sent, control, wake, stop, unqueue, recovering, budget>>

-------------------------------------------------------------------------------
(* stop_agent and recover_missing_run_control, one call per member at a time. *)

SetStop(m, s) == stop' = [stop EXCEPT ![m] = s]
StopOnly == UNCHANGED <<message, sent, wake, unqueue, recovering>>

\* Reads the member ...
StopRequest(m) ==
  /\ Serving /\ stop[m].pc = "idle"
  /\ Spend("stop")
  /\ SetStop(m, [NoStop EXCEPT !.pc = "find", !.live = member[m] \in ActiveMember])
  /\ StopOnly /\ UNCHANGED <<rows, member, control, task>>

\* ... its active delivery ...
StopFind(m) ==
  LET i == ActiveRow(rows[m]) IN
  /\ stop[m].pc = "find"
  /\ SetStop(m, IF i # NoRow
                THEN [pc |-> "lookup", live |-> FALSE, row |-> i,
                      rev |-> rows[m][i].rev, status |-> rows[m][i].status,
                      run |-> rows[m][i].run]
                ELSE IF stop[m].live THEN [NoStop EXCEPT !.pc = "lookup"]
                ELSE NoStop)
  /\ StopOnly /\ UNCHANGED <<rows, member, control, task, budget>>

\* ... and the registered control.  A member without one is recovered; so is
\* one without a delivery, after its token is cancelled.
StopLookup(m) ==
  LET s == stop[m]
      c == control[m]
      transition == \/ s.status = "starting"
                    \/ s.status \in {"running", "waiting_approval"} /\ s.run = c
  IN
  /\ s.pc = "lookup"
  /\ IF c = NoRun \/ s.row = NoRow
     THEN SetStop(m, [NoStop EXCEPT !.pc = "reset"])
     ELSE SetStop(m, [s EXCEPT !.pc  = IF transition THEN "transition" ELSE "cancel",
                               !.run = c])
  /\ task' = IF c # NoRun /\ s.row = NoRow
             THEN [task EXCEPT ![m][c].stopped = TRUE] ELSE task
  /\ StopOnly /\ UNCHANGED <<rows, member, control, budget>>

\* A starting delivery is cancelled; a bound one becomes stopping together
\* with its member, which must still be active.
StopTransition(m) ==
  LET s     == stop[m]
      found == Matches(rows[m], s.row, s.rev, {s.status}) IN
  /\ s.pc = "transition"
  /\ IF s.status = "starting"
     THEN /\ SetRows(m, IF found THEN SetStatus(rows[m], s.row, "cancelled")
                                 ELSE rows[m])
          /\ UNCHANGED member
     ELSE IF found /\ rows[m][s.row].run = s.run /\ member[m] = "running"
     THEN /\ SetRows(m, SetStatus(rows[m], s.row, "stopping"))
          /\ member' = [member EXCEPT ![m] = "stopping"]
     ELSE UNCHANGED <<rows, member>>
  /\ SetStop(m, [NoStop EXCEPT !.pc = "cancel", !.run = s.run])
  /\ StopOnly /\ UNCHANGED <<control, task, budget>>

StopCancel(m) ==
  LET c == stop[m].run IN
  /\ stop[m].pc = "cancel"
  /\ task' = IF control[m] = c THEN [task EXCEPT ![m][c].stopped = TRUE] ELSE task
  /\ SetStop(m, NoStop)
  /\ StopOnly /\ UNCHANGED <<rows, member, control, budget>>

\* recover_missing_run_control: the member and the control first ...
StopReset(m) ==
  /\ stop[m].pc = "reset"
  /\ member'  = [member EXCEPT ![m] = "idle"]
  /\ control' = [control EXCEPT ![m] = NoRun]
  /\ SetStop(m, [NoStop EXCEPT !.pc = "list"])
  /\ StopOnly /\ UNCHANGED <<rows, task, budget>>

\* ... then requeue_stale_inflight: list, and requeue what did not change.
StopList(m) ==
  LET i == ActiveRow(rows[m]) IN
  /\ stop[m].pc = "list"
  /\ SetStop(m, IF i = NoRow THEN NoStop
                ELSE [NoStop EXCEPT !.pc = "requeue", !.row = i,
                                    !.rev = rows[m][i].rev,
                                    !.status = rows[m][i].status])
  /\ StopOnly /\ UNCHANGED <<rows, member, control, task, budget>>

StopRequeue(m) ==
  LET s == stop[m] IN
  /\ s.pc = "requeue"
  /\ SetRows(m, IF Matches(rows[m], s.row, s.rev, {s.status})
                THEN Requeue(rows[m], s.row) ELSE rows[m])
  /\ SetStop(m, NoStop)
  /\ StopOnly /\ UNCHANGED <<member, control, task, budget>>

-------------------------------------------------------------------------------
(* Deletion. *)

DeleteOnly == UNCHANGED <<member, control, task, wake, stop, recovering>>

\* delete_queue_item: delete the entry if it is still queued ...
Unqueue(m, i) ==
  /\ Serving /\ unqueue.pc = "idle" /\ rows[m][i].status = "queued"
  /\ Spend("unqueue")
  /\ SetRows(m, DeleteRow(rows[m], i))
  /\ unqueue' = [pc |-> "count", msg |-> rows[m][i].msg]
  /\ DeleteOnly /\ UNCHANGED <<message, sent>>

\* ... count the deliveries left of its message ...
UnqueueCount ==
  /\ unqueue.pc = "count"
  /\ unqueue' = IF \E m \in Members : HasRowFor(rows[m], unqueue.msg)
                THEN NoUnqueue ELSE [unqueue EXCEPT !.pc = "erase"]
  /\ DeleteOnly /\ UNCHANGED <<rows, message, sent, budget>>

Erase(n) == /\ rows' = [m \in Members |-> EraseMessage(rows[m], n)]
            /\ message' = [message EXCEPT ![n] = NoSuchMessage]

\* ... and delete the message when there were none.
UnqueueErase ==
  /\ unqueue.pc = "erase"
  /\ Erase(unqueue.msg)
  /\ unqueue' = NoUnqueue
  /\ DeleteOnly /\ UNCHANGED <<sent, budget>>

\* delete_message: whatever its deliveries are doing
RemoveMessage(n) ==
  /\ Serving /\ Exists(n)
  /\ Spend("remove")
  /\ Erase(n)
  /\ DeleteOnly /\ UNCHANGED <<sent, unqueue>>

-------------------------------------------------------------------------------
(* The backend dies and comes back: tasks, handlers and controls are lost.  *)
(* Startup first expires the requests for approval nobody answered, which    *)
(* makes their waiting members idle; then, before requests are served,       *)
(* recover_orphaned_session_agents finds the members to recover ...          *)

\* The members an unanswered request may hold in waitingapproval.
MayWait == {m \in Members : member[m] = "running"
                              /\ \E k \in Runs : task[m][k].asking}

\* expire_orphaned: `unanswered` are the members that really waited.
ExpireOrphaned(unanswered) ==
  member' = [m \in Members |-> IF m \in unanswered THEN "idle" ELSE member[m]]

Crash ==
  \E unanswered \in SUBSET MayWait :
    /\ Spend(IF unanswered # {} THEN "unanswered"
             ELSE IF Serving THEN "crash" ELSE "relapse")
    /\ ExpireOrphaned(unanswered)
    /\ control' = [m \in Members |-> NoRun]
    /\ task' = [m \in Members |-> [k \in Runs |->
         IF task[m][k].pc = "free" THEN IdleTask
         ELSE [Finished(task[m][k]) EXCEPT !.watched = FALSE, !.asking = FALSE]]]
    /\ wake' = [m \in Members |-> 0]
    /\ stop' = [m \in Members |-> NoStop]
    /\ unqueue' = NoUnqueue
    /\ recovering' = [m \in Members |->
         IF \/ member'[m] \in ActiveMember
            \/ \E i \in RowIds : /\ rows[m][i].status = "starting"
                                 /\ rows[m][i].run = NoRun
         THEN "reset"
         ELSE IF HasQueued(rows[m]) THEN "resume" ELSE "none"]
    /\ UNCHANGED <<rows, message, sent>>

RecoverOnly == UNCHANGED <<message, sent, control, task, stop, unqueue, budget>>

\* ... resets the member ...
RecoverReset(m) ==
  /\ recovering[m] = "reset"
  /\ member' = [member EXCEPT ![m] = "idle"]
  /\ recovering' = [recovering EXCEPT ![m] = "requeue"]
  /\ RecoverOnly /\ UNCHANGED <<rows, wake>>

\* ... requeues what was in flight ...
RecoverRequeue(m) ==
  LET i == ActiveRow(rows[m]) IN
  /\ recovering[m] = "requeue"
  /\ SetRows(m, IF i = NoRow THEN rows[m] ELSE Requeue(rows[m], i))
  /\ recovering' = [recovering EXCEPT ![m] = "resume"]
  /\ RecoverOnly /\ UNCHANGED <<member, wake>>

\* ... and resumes the queue.
RecoverResume(m) ==
  /\ recovering[m] = "resume"
  /\ wake' = [wake EXCEPT ![m] = @ + 1]
  /\ recovering' = [recovering EXCEPT ![m] = "none"]
  /\ RecoverOnly /\ UNCHANGED <<rows, member>>

-------------------------------------------------------------------------------
TaskStepOf(m, k) ==
  \/ Load(m, k) \/ Register(m, k) \/ Bind(m, k)
  \/ Start(m, k) \/ StartStopped(m, k)
  \/ Finalize(m, k) \/ Commit(m, k) \/ Retry(m, k) \/ Reclaim(m, k)
  \/ DropControl(m, k) \/ Fail(m, k) \/ SettleBound(m, k) \/ SettleStarting(m, k)
  \/ Skip(m, k) \/ Mark(m, k)

FaultOf(m, k) == LoadFault(m, k) \/ PrepareFault(m, k) \/ StartFault(m, k)

ExecutorOf(m, k) == \E outcome \in Outcome \ {"none"} : Exit(m, k, outcome)

ApprovalOf(m, k) == AskApproval(m, k) \/ LeaveApproval(m, k)

RunOf(m, k) == TaskStepOf(m, k) \/ FaultOf(m, k) \/ ExecutorOf(m, k)
               \/ ApprovalOf(m, k) \/ WatcherEnds(m, k)

StopStepOf(m) == StopFind(m) \/ StopLookup(m) \/ StopTransition(m)
                 \/ StopCancel(m) \/ StopReset(m) \/ StopList(m) \/ StopRequeue(m)

RecoveryOf(m) == RecoverReset(m) \/ RecoverRequeue(m) \/ RecoverResume(m)

UnqueueStep == UnqueueCount \/ UnqueueErase

Next ==
  \/ \E targets \in SUBSET Members : Send(targets)
  \/ \E n \in Messages : Resend(n) \/ RemoveMessage(n)
  \/ \E m \in Members :
        \/ Continue(m) \/ Wake(m) \/ RecoveryOf(m)
        \/ StopRequest(m) \/ StopStepOf(m)
        \/ \E i \in RowIds : Unqueue(m, i)
        \/ \E k \in Runs : RunOf(m, k)
  \/ UnqueueStep
  \/ Crash

Spec == Init /\ [][Next]_vars

\* Tasks, watchers, handlers and recovery run on the async runtime and always
\* get on.  An executor ends: it finishes, is stopped, or is killed after
\* SESSION_INACTIVITY_TIMEOUT without activity.  Nothing makes a user act, a
\* fault happen or the backend die, and an approval callback may be dropped
\* with its executor.
Fairness ==
  /\ \A m \in Members :
        /\ WF_vars(Wake(m)) /\ WF_vars(RecoveryOf(m)) /\ WF_vars(StopStepOf(m))
        /\ \A k \in Runs : /\ WF_vars(TaskStepOf(m, k))
                           /\ WF_vars(ExecutorOf(m, k))
                           /\ WF_vars(WatcherEnds(m, k))
  /\ WF_vars(UnqueueStep)

FairSpec == Spec /\ Fairness
-------------------------------------------------------------------------------
(* Safety: what holds whatever the environment does. *)

\* Every variable stays within its declared shape.
TypeOK ==
  /\ rows \in [Members -> Ledger]
  /\ member \in [Members -> MemberState]
  /\ message \in [Messages -> MessageRow]
  /\ sent \in 0..MaxMessages
  /\ control \in [Members -> Runs \cup {NoRun}]
  /\ task \in [Members -> [Runs -> Task]]
  /\ wake \in [Members -> Nat]
  /\ stop \in [Members -> StopCall]
  /\ unqueue \in UnqueueCall
  /\ recovering \in [Members -> Recovery]
  /\ budget \in 0..Budget

\* At most one delivery of a member is in flight: no statement ever runs into
\* the partial unique index idx_chat_message_queue_one_active.
OneActive == \A m \in Members : \A i, j \in ActiveRows(rows[m]) : i = j

\* Deliveries are taken up in the order they were created: once one is in
\* flight or has ended, every older one has ended or was deleted, across
\* requeues, restarts, deletions and re-creations.
InCreationOrder ==
  \A m \in Members : \A i, j \in RowIds :
    i < j /\ rows[m][j].status \in Active \cup Terminal
      => rows[m][i].status \in Terminal \cup {"deleted"}

\* A message has one delivery per target, however often it is sent: the
\* unique index on (chat_message_id, session_agent_id) is never run into.
OneDeliveryPerTarget ==
  \A m \in Members : \A i, j \in RowIds :
    /\ rows[m][i].status \in Stored /\ rows[m][j].status \in Stored
    /\ rows[m][i].msg = rows[m][j].msg
    => i = j

\* A run is bound to one delivery, the one its task was given, in the attempt
\* the task loaded: finding a delivery by run id finds the right one, however
\* often the delivery went back to the queue and was dispatched again.
RunNamesItsDelivery ==
  \A m \in Members : \A i \in RowIds : \A k \in Runs :
    rows[m][i].run = k =>
      /\ task[m][k].row = i /\ task[m][k].pc # "free"
      /\ Working(m, k) => rows[m][i].attempt = task[m][k].attempt

\* A delivery that has ended never changes its status again; it can only be
\* deleted with its message.
TerminalIsFinal ==
  [][\A m \in Members : \A i \in RowIds :
       rows[m][i].status \in Terminal
         => rows'[m][i].status \in {rows[m][i].status, "deleted"}]_vars

\* The end of a run ends no delivery but its own, in the attempt it started.
RunEndsItsOwnAttempt ==
  [][\A m \in Members : \A k \in Runs : \A i \in RowIds :
       /\ Commit(m, k) \/ SettleBound(m, k)
       /\ rows[m][i].status \in Active /\ rows'[m][i] # rows[m][i]
       => i = task[m][k].row /\ rows[m][i].attempt = task[m][k].attempt]_vars

\* The ledger, seen as phases, behaves as DeliverySpec says.
Promise == INSTANCE DeliverySpec
  WITH phase <- [m \in Members |-> [i \in RowIds |-> PhaseOf(rows[m][i])]]

PromiseKept == Promise!Spec

-------------------------------------------------------------------------------
(* Safety of undisturbed members: what holds while nobody stops a member or *)
(* deletes a message under a running delivery.                              *)

\* Every in-flight delivery has a task at work on it, and a bound one has the
\* task of its run, or recovery is about to return it: no orphaned lease.
NoOrphanedDelivery ==
  \A m \in Members : \A i \in ActiveRows(rows[m]) :
    \/ recovering[m] \in {"reset", "requeue"}
    \/ \E k \in Runs : /\ Working(m, k) /\ task[m][k].row = i
                       /\ rows[m][i].run \in {NoRun, k}

\* An executor that runs, or whose end is not finalized yet, owns its
\* delivery: the delivery is in flight and bound to this very run.
ExecutorOwnsDelivery ==
  \A m \in Members : \A k \in Runs :
    task[m][k].pc \in {"start", "execute", "finalize", "commit"}
      => TheRow(m, k).run = k /\ TheRow(m, k).status \in Active

\* A member never has two executors.
OneExecutor ==
  \A m \in Members : \A k, l \in Runs :
    task[m][k].pc = "execute" /\ task[m][l].pc = "execute" => k = l

\* The member row and the ledger tell the same story: the member is active
\* exactly while one of its deliveries is bound and in flight.
MemberShowsDelivery ==
  \A m \in Members :
    recovering[m] = "none" =>
      (member[m] \in ActiveMember
         <=> \E i \in ActiveRows(rows[m]) : rows[m][i].run # NoRun)

\* Work that waits for a free and unblocked member is about to be claimed by
\* someone: no queue is stranded.
SomeoneWillClaim(m) ==
  wake[m] > 0 \/ recovering[m] # "none"
  \/ \E k \in Runs : task[m][k].pc \in {"retry", "reclaim"}

NoStrandedQueue ==
  \A m \in Members : NextClaim(rows[m]) # NoRow => SomeoneWillClaim(m)

\* Only a delivery whose run is over and accounted for, or whose task died
\* with the backend, goes back to the queue: nothing is executed again while
\* its first execution is still under way or waits to be finalized.
RequeuesOnlyOrphans ==
  [][\A m \in Members : \A i \in RowIds : \A k \in Runs :
       /\ rows[m][i].status \in Active /\ rows'[m][i].status = "queued"
       /\ rows[m][i].run = k
       => task[m][k].pc \notin {"start", "execute", "finalize", "commit"}]_vars

\* A task that could not start its delivery ends no later attempt of it.
StaleTaskSparesNewerAttempt ==
  [][\A m \in Members : \A k \in Runs :
       SettleStarting(m, k) /\ rows' # rows
         => TheRow(m, k).attempt = task[m][k].attempt]_vars

\* Deleting a queue entry takes no delivery along that a member is working
\* on or has ended, nor one that waits for another member.
UnqueueSparesOthers ==
  [][UnqueueErase => rows' = rows]_vars

\* A protocol retry is dispatched before the messages queued meanwhile.
RetryGoesFirst ==
  [][\A m \in Members : \A k \in Runs :
       Reclaim(m, k) /\ rows' # rows
         => rows'[m][task[m][k].row].status = "starting"]_vars

\* Every change of a status is an edge of can_transition_to, apart from the
\* return to the queue that recovery makes.
FollowsTransitionGraph ==
  [][\A m \in Members : \A i \in RowIds :
       LET from == rows[m][i].status  to == rows'[m][i].status IN
       from \in Stored /\ to \notin {from, "deleted"}
         => to \in CanTransition(from) \/ (from \in Active /\ to = "queued")]_vars

-------------------------------------------------------------------------------
(* Liveness. *)

\* A delivery that was taken up ends or goes back to the queue.
InFlightEnds ==
  \A m \in Members : \A i \in RowIds :
    rows[m][i].status \in Active ~> rows[m][i].status \notin Active

\* A queue whose failures are answered drains: a waiting delivery is taken up
\* and ends, or a failure blocks its member, or it is deleted.
QueueAdvances ==
  \A m \in Members : \A i \in RowIds :
    rows[m][i].status = "queued"
      ~> rows[m][i].status \in Terminal \cup {"deleted"} \/ IsBlocked(rows[m])
===============================================================================
