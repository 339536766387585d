-------------------------- MODULE WorkflowScheduler --------------------------
(***************************************************************************)
(* The workflow scheduler: wake_scheduler and the step executor it starts, *)
(* the handlers through which the user stops, pauses, interrupts, retries, *)
(* skips, resumes, answers, accepts or completes, and the recovery at      *)
(* startup.  One execution, whose steps are plain tasks.                   *)
(*                                                                         *)
(* Every actor works from what it read before an await: a pass from the    *)
(* steps of its iteration, a work item from the execution it was given, a  *)
(* handler from the execution and the steps it loaded.  Only three writes  *)
(* of a step compare the row with what was read (the claim of a ready      *)
(* step, the skip, the forced completion).  All the others validate the    *)
(* transition in memory and then overwrite the row.                        *)
(***************************************************************************)
EXTENDS Naturals, WorkflowReducer

CONSTANTS
  Steps,      \* the steps of the plan
  Agents,     \* the workflow agent sessions
  Passes,     \* the scheduler passes that may run at the same time
  Retry,      \* the owner of a work item that a manual retry started
  Deps,       \* Deps[s]: the steps with an edge to s
  AgentOf,    \* AgentOf[s]: the session s is assigned to
  Order,      \* Order[s]: the display order of s
  Requests,   \* the user's requests that are considered
  MaxRequests,\* how many of them arrive (bounds attempts and wakes)
  Crashes     \* how many times the process restarts

ASSUME StepsAssumption ==
  /\ Steps # {}
  /\ Deps \in [Steps -> SUBSET Steps]
  /\ AgentOf \in [Steps -> Agents]
  /\ Order \in [Steps -> Nat]
  /\ \A s, t \in Steps : Order[s] = Order[t] => s = t
ASSUME RetryAssumption == Retry \notin Passes
ASSUME BoundsAssumption == MaxRequests \in Nat /\ Crashes \in Nat

VARIABLES
  exec,       \* the execution's status (chat_workflow_executions)
  stopped,    \* its event log has the failure "stopped_by_user"
  step,       \* step[s]: the status of the step's row (chat_workflow_steps)
  attempt,    \* attempt[s]: the row's retry_count
  session,    \* session[g]: the state of an agent session
  asks,       \* the unresolved transcripts: <<step, what is waited for>>
  cancels,    \* STEP_CANCEL_REQUESTS: <<step, attempt>>
  pass,       \* pass[p]: a scheduler pass
  work,       \* work[<<o, s>>]: o's prepare_and_run_step for s
  user,       \* the request handler at work
  wakes,      \* passes that were spawned and have not begun
  budget      \* requests and crashes still to come

vars == <<exec, stopped, step, attempt, session, asks, cancels, pass, work,
          user, wakes, budget>>
rows == <<exec, stopped, step, attempt, session, asks>>

Owners == Passes \cup {Retry}
Items  == Owners \X Steps

-----------------------------------------------------------------------------
(* Plain operators *)

Blank == [s \in Steps |-> "Pending"]

First(S) == CHOOSE s \in S : \A t \in S : Order[s] <= Order[t]

StepsOf(g) == {s \in Steps : AgentOf[s] = g}

(* mutants: a skipped step satisfies nothing; one dependency is enough *)
DepsCompleted(s, table) == \A d \in Deps[s] : table[d] = "Completed"

OneDepDone(s, table) ==
  Deps[s] = {} \/ \E d \in Deps[s] : table[d] \in CompletedLike

DepsDone(s, table) == \A d \in Deps[s] : table[d] \in CompletedLike

AllDone(table) == \A s \in Steps : table[s] \in CompletedLike

PassOff == [pc |-> "off", next |-> "off", exec |-> "Pending", seen |-> Blank,
            batch |-> {}, halt |-> FALSE,
            snapExec |-> "Pending", snapStep |-> Blank]

WorkOff == [pc |-> "off", next |-> "off", exec |-> "Pending",
            seen |-> "Pending", attempt |-> 0, out |-> "Pending",
            guarded |-> FALSE, snapExec |-> "Pending", snapStep |-> Blank]

UserOff == [pc |-> "off", next |-> "off", act |-> "none", exec |-> "Pending",
            seen |-> Blank, todo |-> {},
            snapExec |-> "Pending", snapStep |-> Blank]

-----------------------------------------------------------------------------
(* synchronize_runtime_state: read the execution and the steps, then write *)
(* what they derive.  Between the two another actor may write.  A is the   *)
(* actor's record, next the place it goes on at.                           *)

SyncRead(a, next) ==
  [a EXCEPT !.pc = "syncing", !.next = next,
            !.snapExec = exec, !.snapStep = step]

Derived(a) == DeriveExecution({a.snapStep[s] : s \in Steps})

(* the derived status differs from the one read, and may not follow it *)
SyncFails(a) ==
  Derived(a) # a.snapExec /\ ~ExecMayMove(a.snapExec, Derived(a))

(* mutant: the execution takes the state a session would have *)
SyncWriteConfused(a) ==
  /\ ~SyncFails(a)
  /\ exec' = DeriveSession({a.snapStep[s] : s \in Steps})
  /\ session' = [g \in Agents |-> DeriveSession({a.snapStep[s] : s \in StepsOf(g)})]

SyncWrite(a) ==
  /\ ~SyncFails(a)
  /\ exec' = IF Derived(a) = a.snapExec THEN exec ELSE Derived(a)
  /\ session' = [g \in Agents |-> DeriveSession({a.snapStep[s] : s \in StepsOf(g)})]

Synced(a) == [a EXCEPT !.pc = a.next, !.next = "off",
                       !.snapExec = "Pending", !.snapStep = Blank]

(* the row of step s becomes to *)
SetStep(s, to) == step' = [step EXCEPT ![s] = to]

-----------------------------------------------------------------------------
(* A scheduler pass: wake_scheduler, under wake_scheduler_with_recovery    *)

SetPass(p, r) == pass' = [pass EXCEPT ![p] = r]

(* A spawned pass begins, unless the execution is terminal by then. *)
PassBegins(p) ==
  /\ wakes > 0
  /\ pass[p].pc = "off"
  /\ wakes' = wakes - 1
  /\ pass' = IF exec \in {"Completed", "Failed"} THEN pass
             ELSE [pass EXCEPT ![p].pc = "read"]
  /\ UNCHANGED <<rows, cancels, work, user, budget>>

(* The iteration's steps are read once, before the first synchronization. *)
PassReads(p) ==
  /\ pass[p].pc = "read"
  /\ SetPass(p, [pass[p] EXCEPT !.pc = "sync", !.next = "promote", !.seen = step])
  /\ UNCHANGED <<rows, cancels, work, user, wakes, budget>>

Promotable(p) ==
  {s \in Steps : pass[p].seen[s] = "Pending" /\ DepsDone(s, pass[p].seen)}

(* A pending step whose dependencies are done becomes ready: validated     *)
(* from what was read, written without looking at the row.                 *)
PassPromotes(p) ==
  LET s == First(Promotable(p)) IN
  /\ pass[p].pc = "promote"
  /\ pass[p].exec # "Completed"
  /\ Promotable(p) # {}
  /\ StepMayMove(pass[p].exec, "Pending", "Ready")
  /\ SetStep(s, "Ready")
  /\ SetPass(p, [pass[p] EXCEPT !.seen[s] = "Ready"])
  /\ UNCHANGED <<exec, stopped, attempt, session, asks, cancels, work, user,
                 wakes, budget>>

(* One ready step for each idle session: the first in display order. *)
Candidates(p) ==
  LET ready == {s \in Steps : /\ pass[p].seen[s] = "Ready"
                              /\ DepsDone(s, pass[p].seen)
                              /\ session[AgentOf[s]] = "Idle"}
  IN {First(ready \cap StepsOf(AgentOf[s])) : s \in ready}

PassSelects(p) ==
  LET running == pass[p].exec = "Running" IN
  /\ pass[p].pc = "select"
  /\ Candidates(p) # {}
  /\ running \/ ExecMayMove(pass[p].exec, "Running")
  /\ exec' = IF running THEN exec ELSE "Running"
  /\ SetPass(p, [pass[p] EXCEPT !.pc = IF running THEN "launch" ELSE "reload",
                                !.batch = Candidates(p)])
  /\ UNCHANGED <<stopped, step, attempt, session, asks, cancels, work, user,
                 wakes, budget>>

(* The work items begin, with the execution as the pass holds it: as it    *)
(* was synchronized, or as it was read back after it was set running.      *)
PassLaunches(p) ==
  LET held == IF pass[p].pc = "reload" THEN exec ELSE pass[p].exec IN
  /\ pass[p].pc \in {"launch", "reload"}
  /\ SetPass(p, [pass[p] EXCEPT !.pc = "join", !.exec = held, !.seen = Blank])
  /\ work' = [w \in Items |-> IF w[1] = p /\ w[2] \in pass[p].batch
                              THEN [WorkOff EXCEPT !.pc = "claim", !.exec = held]
                              ELSE work[w]]
  /\ UNCHANGED <<rows, cancels, user, wakes, budget>>

(* mutants: no synchronization after the batch; every batch ends the pass *)
PassJoinsUnsynced(p) ==
  LET outs == {work[<<p, s>>].out : s \in pass[p].batch} IN
  /\ pass[p].pc = "join"
  /\ \A s \in pass[p].batch : work[<<p, s>>].pc = "done"
  /\ SetPass(p, IF "Error" \in outs THEN PassOff
                ELSE [pass[p] EXCEPT !.pc = "judge", !.batch = {},
                                     !.halt = outs # {"Completed"}])
  /\ work' = [w \in Items |-> IF w[1] = p THEN WorkOff ELSE work[w]]
  /\ UNCHANGED <<rows, cancels, user, wakes, budget>>

PassJoinsAndHalts(p) ==
  /\ pass[p].pc = "join"
  /\ \A s \in pass[p].batch : work[<<p, s>>].pc = "done"
  /\ SetPass(p, [pass[p] EXCEPT !.pc = "sync", !.next = "judge", !.batch = {},
                                !.halt = TRUE])
  /\ work' = [w \in Items |-> IF w[1] = p THEN WorkOff ELSE work[w]]
  /\ UNCHANGED <<rows, cancels, user, wakes, budget>>

(* join_all: when every work item has returned.  An error ends the pass.   *)
PassJoins(p) ==
  LET outs == {work[<<p, s>>].out : s \in pass[p].batch} IN
  /\ pass[p].pc = "join"
  /\ \A s \in pass[p].batch : work[<<p, s>>].pc = "done"
  /\ SetPass(p, IF "Error" \in outs THEN PassOff
                ELSE [pass[p] EXCEPT !.pc = "sync", !.next = "judge", !.batch = {},
                                     !.halt = outs # {"Completed"}])
  /\ work' = [w \in Items |-> IF w[1] = p THEN WorkOff ELSE work[w]]
  /\ UNCHANGED <<rows, cancels, user, wakes, budget>>

(* After the batch: everything is done and the user has to review it, or   *)
(* an item parked, failed or was interrupted, or the next iteration.       *)
PassJudges(p) ==
  /\ pass[p].pc = "judge"
  /\ SetPass(p, IF \/ pass[p].exec = "Waiting" /\ AllDone(step)
                   \/ pass[p].exec = "Completed"
                   \/ pass[p].halt
                THEN PassOff
                ELSE [PassOff EXCEPT !.pc = "read"])
  /\ UNCHANGED <<rows, cancels, work, user, wakes, budget>>

(* A pass synchronizes after reading, after its promotions, when nothing   *)
(* can be scheduled, and after its batch.                                  *)
PassSyncs(p) ==
  /\ \/ pass[p].pc = "sync"
     \/ pass[p].pc = "promote" /\ pass[p].exec # "Completed" /\ Promotable(p) = {}
     \/ pass[p].pc = "select" /\ Candidates(p) = {}
  /\ SetPass(p, SyncRead(pass[p], CASE pass[p].pc = "sync"    -> pass[p].next
                                    [] pass[p].pc = "promote" -> "select"
                                    [] pass[p].pc = "select"  -> "off"))
  /\ UNCHANGED <<rows, cancels, work, user, wakes, budget>>

PassSynced(p) ==
  /\ pass[p].pc = "syncing"
  /\ SyncWrite(pass[p])
  /\ SetPass(p, IF pass[p].next = "off" THEN PassOff
                ELSE [Synced(pass[p]) EXCEPT !.exec = exec'])
  /\ UNCHANGED <<stopped, step, attempt, asks, cancels, work, user, wakes, budget>>

(* A pass ends: the execution is completed, or a transition was refused,   *)
(* which is not an error that the recovery loop tries again.               *)
PassEnds(p) ==
  /\ \/ pass[p].pc = "promote" /\ pass[p].exec = "Completed"
     \/ pass[p].pc = "select" /\ Candidates(p) # {} /\ pass[p].exec = "Completed"
     \/ pass[p].pc = "syncing" /\ SyncFails(pass[p])
  /\ SetPass(p, PassOff)
  /\ UNCHANGED <<rows, cancels, work, user, wakes, budget>>

-----------------------------------------------------------------------------
(* A work item: prepare_and_run_step of owner o for step s                 *)

SetWork(o, s, r) == work' = [work EXCEPT ![<<o, s>>] = r]

Parking == {"WaitingReview", "WaitingInput"}

(* The claim compares the row with "Ready".  A row that is no longer ready *)
(* was claimed by somebody else: the item counts as completed.             *)
Claims(o, s) ==
  /\ work[<<o, s>>].pc = "claim"
  /\ StepMayMove(work[<<o, s>>].exec, "Ready", "Running")
  /\ IF step[s] = "Ready"
     THEN /\ SetStep(s, "Running")
          /\ SetWork(o, s, [work[<<o, s>>] EXCEPT !.pc = "sync", !.next = "run",
                              !.seen = "Running", !.attempt = attempt[s]])
     ELSE /\ SetWork(o, s, [work[<<o, s>>] EXCEPT !.pc = "done", !.out = "Completed"])
          /\ UNCHANGED step
  /\ UNCHANGED <<exec, stopped, attempt, session, asks, cancels, pass, user,
                 wakes, budget>>

(* The agent's process ends.  Its result is recorded, which reads the row  *)
(* again, or the step parks from the row as it was claimed; a report that  *)
(* lacks context does the first, an input request the second.  The cancel  *)
(* request of this attempt is cleared; if the exit was judged after it     *)
(* came, the run was interrupted.                                          *)
AgentEnds(o, s) ==
  LET w == work[<<o, s>>] IN
  /\ w.pc = "run"
  /\ \/ \E out \in {"Completed", "Failed", "WaitingInput"} :
          SetWork(o, s, [w EXCEPT !.pc = "record", !.out = out])
     \/ \E out \in Parking :
          SetWork(o, s, [w EXCEPT !.pc = "write", !.out = out])
     \/ /\ <<s, w.attempt>> \in cancels
        /\ SetWork(o, s, [w EXCEPT !.pc = "acknowledge", !.out = "Interrupted"])
  /\ cancels' = cancels \ {<<s, w.attempt>>}
  /\ UNCHANGED <<rows, pass, user, wakes, budget>>

(* The process could not be started: nothing was registered, and a cancel  *)
(* request of this attempt stays.                                          *)
AgentFailsToStart(o, s) ==
  /\ work[<<o, s>>].pc = "run"
  /\ SetWork(o, s, [work[<<o, s>>] EXCEPT !.pc = "record", !.out = "Failed"])
  /\ UNCHANGED <<rows, cancels, pass, user, wakes, budget>>

(* record_execution_result stores the result and returns the row. *)
Records(o, s) ==
  /\ work[<<o, s>>].pc = "record"
  /\ SetWork(o, s, [work[<<o, s>>] EXCEPT !.pc = "write", !.seen = step[s]])
  /\ UNCHANGED <<rows, cancels, pass, user, wakes, budget>>

(* The step takes the status of the outcome: validated from what the item  *)
(* holds, written without looking at the row.                              *)
Settles(o, s) ==
  LET w == work[<<o, s>>] IN
  /\ w.pc = "write"
  /\ StepMayMove(w.exec, w.seen, w.out)
  /\ SetStep(s, w.out)
  /\ SetWork(o, s, [w EXCEPT !.pc = "sync",
                             !.next = IF w.out \in Parking THEN "parked" ELSE "done"])
  /\ UNCHANGED <<exec, stopped, attempt, session, asks, cancels, pass, user,
                 wakes, budget>>

(* acknowledge_step_interrupted: only a step that was asked to stop. *)
Acknowledges(o, s) ==
  /\ work[<<o, s>>].pc = "acknowledge"
  /\ SetWork(o, s, IF step[s] = "InterruptRequested"
                   THEN [work[<<o, s>>] EXCEPT !.pc = "write", !.seen = step[s]]
                   ELSE [work[<<o, s>>] EXCEPT !.pc = "done"])
  /\ UNCHANGED <<rows, cancels, pass, user, wakes, budget>>

(* An error inside the item: the claim or the outcome was refused, or a    *)
(* synchronization failed.  The guard around it settles the row it finds,  *)
(* once.                                                                   *)
Errs(o, s) ==
  LET w == work[<<o, s>>] IN
  /\ \/ w.pc = "claim" /\ ~StepMayMove(w.exec, "Ready", "Running")
     \/ w.pc = "write" /\ ~StepMayMove(w.exec, w.seen, w.out)
     \/ w.pc = "syncing" /\ w.next # "off" /\ SyncFails(w)
  /\ SetWork(o, s, IF w.guarded
                   THEN [w EXCEPT !.pc = "done", !.out = "Error", !.next = "off",
                                  !.snapExec = "Pending", !.snapStep = Blank]
                   ELSE [w EXCEPT !.pc = "guard", !.guarded = TRUE, !.next = "off",
                                  !.snapExec = "Pending", !.snapStep = Blank])
  /\ UNCHANGED <<rows, cancels, pass, user, wakes, budget>>

Guards(o, s) ==
  LET w == work[<<o, s>>] IN
  /\ w.pc = "guard"
  /\ SetWork(o, s,
       CASE step[s] = "InterruptRequested" ->
              [w EXCEPT !.pc = "write", !.seen = step[s], !.out = "Interrupted"]
         [] step[s] \in {"Running", "Revising"} ->
              [w EXCEPT !.pc = "write", !.seen = step[s], !.out = "Failed"]
         [] step[s] = "Interrupted" -> [w EXCEPT !.pc = "done", !.out = "Interrupted"]
         [] OTHER -> [w EXCEPT !.pc = "done", !.out = "Error"])
  /\ UNCHANGED <<rows, cancels, pass, user, wakes, budget>>

(* park_for_user_action synchronizes a second time and then asks. *)
Asks(o, s) ==
  /\ work[<<o, s>>].pc = "ask"
  /\ asks' = asks \cup {<<s, work[<<o, s>>].out>>}
  /\ SetWork(o, s, [work[<<o, s>>] EXCEPT !.pc = "done"])
  /\ UNCHANGED <<exec, stopped, step, attempt, session, cancels, pass, user,
                 wakes, budget>>

(* retry_single_step_only: a retried step's item ends with one more        *)
(* synchronization and wakes nobody.                                       *)
RetryReturns(s) ==
  LET w == work[<<Retry, s>>] IN
  /\ w.pc = "done"
  /\ SetWork(Retry, s, IF w.out = "Error" THEN WorkOff
                       ELSE [WorkOff EXCEPT !.pc = "sync", !.out = w.out])
  /\ UNCHANGED <<rows, cancels, pass, user, wakes, budget>>

WorkSyncs(o, s) ==
  LET w == work[<<o, s>>] IN
  /\ w.pc \in {"sync", "parked"}
  /\ SetWork(o, s, SyncRead(w, IF w.pc = "parked" THEN "ask" ELSE w.next))
  /\ UNCHANGED <<rows, cancels, pass, user, wakes, budget>>

WorkSynced(o, s) ==
  LET w == work[<<o, s>>] IN
  /\ w.pc = "syncing"
  /\ IF w.next = "off" /\ SyncFails(w) THEN UNCHANGED <<exec, session>>
     ELSE SyncWrite(w)
  /\ SetWork(o, s, IF w.next = "off" THEN WorkOff ELSE Synced(w))
  /\ UNCHANGED <<stopped, step, attempt, asks, cancels, pass, user, wakes, budget>>

-----------------------------------------------------------------------------
(* The user's requests.  A handler loads the execution and the steps, goes *)
(* through its writes, each with a synchronization, and spawns a pass or a *)
(* retried work item.  A refused transition ends it with an error.         *)

UserLess == <<pass, work, wakes, budget>>

Begins(act, pc, todo) ==
  /\ user.pc = "off"
  /\ act \in Requests
  /\ budget.requests > 0
  /\ budget' = [budget EXCEPT !.requests = @ - 1]
  /\ user' = [UserOff EXCEPT !.pc = pc, !.act = act, !.exec = exec,
                             !.seen = step, !.todo = todo]

Interruptible == {"Running", "WaitingInput", "WaitingReview"}

(* stop_execution and pause_all load the steps they will interrupt. *)
StopBegins ==
  /\ exec = "Running"
  /\ Begins("stop", "sweep", {s \in Steps : step[s] \in Interruptible})
  /\ UNCHANGED <<rows, cancels, pass, work, wakes>>

PauseBegins ==
  /\ exec \in {"Running", "Paused"}
  /\ Begins("pause", "sweep", {s \in Steps : step[s] \in Interruptible})
  /\ UNCHANGED <<rows, cancels, pass, work, wakes>>

(* mutant: the run is not told to stop *)
UserSweepsQuietly ==
  /\ user.pc = "sweep"
  /\ user.todo # {}
  /\ user' = [user EXCEPT !.pc = "request"]
  /\ UNCHANGED <<rows, cancels, UserLess>>

(* For each of them: cancel the run, if the step was running, ... *)
UserSweeps ==
  LET s == First(user.todo) IN
  /\ user.pc = "sweep"
  /\ user.todo # {}
  /\ cancels' = IF user.seen[s] = "Running"
                THEN cancels \cup {<<s, attempt[s]>>} ELSE cancels
  /\ user' = [user EXCEPT !.pc = "request"]
  /\ UNCHANGED <<rows, UserLess>>

(* ... request the interrupt, ... *)
UserRequests ==
  LET s == First(user.todo) IN
  /\ user.pc = "request"
  /\ StepMayMove(user.exec, user.seen[s], "InterruptRequested")
  /\ SetStep(s, "InterruptRequested")
  /\ user' = [user EXCEPT !.pc = "sync",
                          !.next = IF user.act = "interrupt" THEN "cancel" ELSE "settle"]
  /\ UNCHANGED <<exec, stopped, attempt, session, asks, cancels, UserLess>>

(* ... and grant it, not waiting for the run. *)
UserSettles ==
  LET s == First(user.todo) IN
  /\ user.pc = "settle"
  /\ StepMayMove(user.exec, "InterruptRequested", "Interrupted")
  /\ SetStep(s, "Interrupted")
  /\ user' = [user EXCEPT !.pc = "sync", !.todo = @ \ {s},
                          !.next = IF user.act = "interrupt" THEN "off" ELSE "sweep"]
  /\ UNCHANGED <<exec, stopped, attempt, session, asks, cancels, UserLess>>

(* A stop ends with the execution failed, from whatever it says now. *)
StopEnds ==
  /\ user.pc = "sweep" /\ user.act = "stop" /\ user.todo = {}
  /\ IF ExecMayMove(exec, "Failed")
     THEN exec' = "Failed" /\ stopped' = TRUE
     ELSE UNCHANGED <<exec, stopped>>
  /\ user' = UserOff
  /\ UNCHANGED <<step, attempt, session, asks, cancels, UserLess>>

(* A pause synchronizes and then leaves the execution paused. *)
PauseEnds ==
  /\ user.pc = "pause"
  /\ exec' = IF user.exec # "Paused" /\ ExecMayMove(user.exec, "Paused")
             THEN "Paused" ELSE exec
  /\ user' = UserOff
  /\ UNCHANGED <<stopped, step, attempt, session, asks, cancels, UserLess>>

(* interrupt_step requests the interrupt first and cancels after it; the   *)
(* run, if there is one, has to acknowledge.                               *)
InterruptBegins(s) ==
  /\ step[s] \in Interruptible
  /\ Begins("interrupt", "request", {s})
  /\ UNCHANGED <<rows, cancels, pass, work, wakes>>

InterruptCancels ==
  LET s          == First(user.todo)
      registered == \E o \in Owners : /\ work[<<o, s>>].pc = "run"
                                      /\ work[<<o, s>>].attempt = attempt[s]
  IN
  /\ user.pc = "cancel"
  /\ cancels' = IF user.seen[s] = "WaitingInput" THEN cancels
                ELSE cancels \cup {<<s, attempt[s]>>}
  /\ user' = IF \/ user.seen[s] = "Running"
                \/ user.seen[s] = "WaitingReview" /\ registered
             THEN UserOff ELSE [user EXCEPT !.pc = "settle"]
  /\ UNCHANGED <<rows, UserLess>>

(* skip_step compares the row with the step it loaded. *)
SkipBegins(s) ==
  /\ step[s] \in {"Interrupted", "Blocked", "Failed"}
  /\ Begins("skip", "skip", {s})
  /\ UNCHANGED <<rows, cancels, pass, work, wakes>>

Skips ==
  LET s == First(user.todo) IN
  /\ user.pc = "skip"
  /\ StepMayMove(user.exec, user.seen[s], "Skipped")
  /\ IF step[s] = user.seen[s]
     THEN /\ SetStep(s, "Skipped")
          /\ user' = [user EXCEPT !.pc = "sync", !.next = "again"]
     ELSE /\ user' = UserOff
          /\ UNCHANGED step
  /\ UNCHANGED <<exec, stopped, attempt, session, asks, cancels, UserLess>>

(* begin_step_retry: a new attempt of a failed or interrupted step. *)
RetryBegins(s) ==
  /\ step[s] \in {"Failed", "Interrupted"}
  /\ work[<<Retry, s>>].pc = "off"
  /\ Begins("retry", "prepare", {s})
  /\ UNCHANGED <<rows, cancels, pass, work, wakes>>

(* mutant: the retry keeps the number of the attempt it replaces *)
RetryPreparesInPlace ==
  /\ user.pc = "prepare"
  /\ user' = [user EXCEPT !.pc = "ready", !.seen = step]
  /\ UNCHANGED <<rows, cancels, UserLess>>

RetryPrepares ==
  LET s == First(user.todo) IN
  /\ user.pc = "prepare"
  /\ attempt' = [attempt EXCEPT ![s] = @ + 1]
  /\ user' = [user EXCEPT !.pc = "ready", !.seen = step]
  /\ UNCHANGED <<exec, stopped, step, session, asks, cancels, UserLess>>

(* The step of a retry or of an answer becomes ready again. *)
UserReadies ==
  LET s == First(user.todo) IN
  /\ user.pc = "ready"
  /\ StepMayMove(user.exec, user.seen[s], "Ready")
  /\ SetStep(s, "Ready")
  /\ user' = [user EXCEPT !.pc = "sync",
                          !.next = IF user.act = "retry" THEN "activate" ELSE "again"]
  /\ UNCHANGED <<exec, stopped, attempt, session, asks, cancels, UserLess>>

(* activate_execution_for_step_retry, from the execution loaded first *)
RetryActivates ==
  /\ user.pc = "activate"
  /\ user.exec # "Running"
  /\ ExecMayMove(user.exec, "Running")
  /\ exec' = "Running"
  /\ user' = [user EXCEPT !.pc = "reload"]
  /\ UNCHANGED <<stopped, step, attempt, session, asks, cancels, UserLess>>

RetrySpawns ==
  LET held == IF user.pc = "reload" THEN exec ELSE user.exec IN
  /\ \/ user.pc = "reload"
     \/ user.pc = "activate" /\ user.exec = "Running"
  /\ SetWork(Retry, First(user.todo), [WorkOff EXCEPT !.pc = "claim", !.exec = held])
  /\ user' = UserOff
  /\ UNCHANGED <<rows, cancels, pass, wakes, budget>>

(* resume_execution: there is a ready or a failed step, or a pending one   *)
(* whose dependencies are all completed (a skipped one does not count).    *)
(* A failed execution that was not stopped never got its steps.            *)
Resumable(table) ==
  \E s \in Steps : \/ table[s] \in {"Ready", "Failed"}
                   \/ table[s] = "Pending" /\ \A d \in Deps[s] : table[d] = "Completed"

ResumeBegins ==
  /\ exec = "Paused"
  /\ Resumable(step)
  /\ Begins("resume", "revive", {s \in Steps : step[s] = "Failed"})
  /\ UNCHANGED <<rows, cancels, pass, work, wakes>>

ResumeRevives ==
  LET s == First(user.todo) IN
  /\ user.pc = "revive"
  /\ user.todo # {}
  /\ StepMayMove(user.exec, "Failed", "Ready")
  /\ SetStep(s, "Ready")
  /\ user' = [user EXCEPT !.pc = "sync", !.next = "revive", !.todo = @ \ {s}]
  /\ UNCHANGED <<exec, stopped, attempt, session, asks, cancels, UserLess>>

(* resolve_transcript_action: the answer to a parked step.  The transcript *)
(* is resolved first; an approval makes the step ready, a refusal fails it *)
(* (from the row as record_execution_result returns it).                   *)
AnswerBegins(s) ==
  /\ exec \in {"Waiting", "Running"}
  /\ \E ask \in asks, act \in {"approve", "reject"} :
       /\ ask[1] = s
       /\ Begins(act, IF act = "approve" THEN "ready" ELSE "record", {s})
       /\ asks' = asks \ {ask}
  /\ UNCHANGED <<exec, stopped, step, attempt, session, cancels, pass, work, wakes>>

AnswerRecords ==
  /\ user.pc = "record"
  /\ user' = [user EXCEPT !.pc = "fail", !.seen = step]
  /\ UNCHANGED <<rows, cancels, UserLess>>

AnswerFails ==
  LET s == First(user.todo) IN
  /\ user.pc = "fail"
  /\ StepMayMove(user.exec, user.seen[s], "Failed")
  /\ SetStep(s, "Failed")
  /\ user' = [user EXCEPT !.pc = "sync", !.next = "again"]
  /\ UNCHANGED <<exec, stopped, attempt, session, asks, cancels, UserLess>>

(* mark_execution_completed: cancel what runs, leave the runnable states,  *)
(* complete every step that is still as it was loaded, ...                 *)
CompleteBegins ==
  /\ exec \in {"Failed", "Paused"}
  /\ Begins("complete", "hold", {s \in Steps : step[s] # "Completed"})
  /\ cancels' = cancels \cup {<<s, attempt[s]>> : s \in {t \in Steps : step[t] = "Running"}}
  /\ UNCHANGED <<rows, pass, work, wakes>>

CompleteHolds ==
  /\ user.pc = "hold"
  /\ exec' = "Waiting"
  /\ user' = [user EXCEPT !.pc = "force"]
  /\ UNCHANGED <<stopped, step, attempt, session, asks, cancels, UserLess>>

CompleteForces ==
  LET s == First(user.todo) IN
  /\ user.pc = "force"
  /\ user.todo # {}
  /\ IF step[s] = user.seen[s]
     THEN SetStep(s, "Completed") /\ user' = [user EXCEPT !.todo = @ \ {s}]
     ELSE UNCHANGED step /\ user' = UserOff
  /\ UNCHANGED <<exec, stopped, attempt, session, asks, cancels, UserLess>>

(* ... resolve the transcripts, complete the sessions, ... *)
CompleteCloses ==
  /\ user.pc = "force"
  /\ user.todo = {}
  /\ asks' = {}
  /\ session' = [g \in Agents |-> "Completed"]
  /\ user' = [user EXCEPT !.pc = "finish"]
  /\ UNCHANGED <<exec, stopped, step, attempt, cancels, UserLess>>

(* ... and the execution, from whatever it says now. *)
CompleteEnds ==
  /\ user.pc = "finish"
  /\ exec' = IF ExecMayMove(exec, "Completed") THEN "Completed" ELSE exec
  /\ user' = UserOff
  /\ UNCHANGED <<stopped, step, attempt, session, asks, cancels, UserLess>>

(* accept_iteration_result asks only that the execution is waiting. *)
AcceptBegins ==
  /\ exec = "Waiting"
  /\ Begins("accept", "accept", {})
  /\ UNCHANGED <<rows, cancels, pass, work, wakes>>

AcceptEnds ==
  /\ user.pc = "accept"
  /\ exec' = "Completed"
  /\ user' = UserOff
  /\ UNCHANGED <<stopped, step, attempt, session, asks, cancels, UserLess>>

(* The handlers synchronize after each write of a step; skip_step and      *)
(* resolve_transcript_action do it twice.                                  *)
UserSyncs ==
  /\ \/ user.pc \in {"sync", "again"}
     \/ user.pc = "sweep" /\ user.act = "pause" /\ user.todo = {}
  /\ user' = SyncRead(user, CASE user.pc = "sync"  -> user.next
                              [] user.pc = "sweep" -> "pause"
                              [] user.pc = "again" ->
                                   IF user.act = "reject" THEN "off" ELSE "wake")
  /\ UNCHANGED <<rows, cancels, UserLess>>

UserSynced ==
  /\ user.pc = "syncing"
  /\ SyncWrite(user)
  /\ user' = IF user.next = "off" THEN UserOff
             ELSE [Synced(user) EXCEPT !.exec = IF user.next = "pause" THEN exec' ELSE @]
  /\ UNCHANGED <<stopped, step, attempt, asks, cancels, UserLess>>

(* The routes of skip, resume and approve spawn a pass. *)
UserWakes ==
  /\ \/ user.pc = "wake"
     \/ user.pc = "revive" /\ user.todo = {}
  /\ wakes' = wakes + 1
  /\ user' = UserOff
  /\ UNCHANGED <<rows, cancels, pass, work, budget>>

(* The status each handler is about to write. *)
UserTarget ==
  CASE user.pc = "request" -> "InterruptRequested"
    [] user.pc = "settle"  -> "Interrupted"
    [] user.pc = "skip"    -> "Skipped"
    [] user.pc = "fail"    -> "Failed"
    [] OTHER               -> "Ready"

(* A transition is refused: the request fails. *)
UserErrs ==
  LET s    == First(user.todo)
      from == CASE user.pc = "settle" -> "InterruptRequested"
                [] user.pc = "revive" -> "Failed"
                [] OTHER              -> user.seen[s]
  IN
  /\ \/ /\ user.pc \in {"request", "settle", "skip", "ready", "revive", "fail"}
        /\ user.todo # {}
        /\ ~StepMayMove(user.exec, from, UserTarget)
     \/ /\ user.pc = "activate"
        /\ user.exec # "Running"
        /\ ~ExecMayMove(user.exec, "Running")
     \/ user.pc = "syncing" /\ SyncFails(user)
  /\ user' = UserOff
  /\ UNCHANGED <<rows, cancels, UserLess>>

-----------------------------------------------------------------------------
(* The process ends.  At startup, before requests are served,              *)
(* recover_orphaned_workflow_executions makes the running steps of a       *)
(* running execution ready, derives its sessions and pauses it.            *)

(* mutant: the steps are left as the crash found them *)
RecoveredAsFound == [s \in Steps |-> step[s]]

Recovered == [s \in Steps |-> IF step[s] = "Running" THEN "Ready" ELSE step[s]]

Restarts ==
  /\ budget.crashes > 0
  /\ budget' = [budget EXCEPT !.crashes = @ - 1]
  /\ IF exec = "Running"
     THEN /\ exec' = "Paused"
          /\ step' = Recovered
          /\ session' = [g \in Agents |-> DeriveSession({Recovered[s] : s \in StepsOf(g)})]
     ELSE UNCHANGED <<exec, step, session>>
  /\ pass' = [p \in Passes |-> PassOff]
  /\ work' = [w \in Items |-> WorkOff]
  /\ user' = UserOff
  /\ cancels' = {}
  /\ wakes' = 0
  /\ UNCHANGED <<stopped, attempt, asks>>

-----------------------------------------------------------------------------
(* execute_plan has materialized the steps, made those without             *)
(* dependencies ready, synchronized, and spawned the first pass.           *)
Bootstrapped == [s \in Steps |-> IF Deps[s] = {} THEN "Ready" ELSE "Pending"]

Init ==
  /\ step = Bootstrapped
  /\ exec = DeriveExecution({Bootstrapped[s] : s \in Steps})
  /\ session = [g \in Agents |-> "Idle"]
  /\ stopped = FALSE
  /\ attempt = [s \in Steps |-> 0]
  /\ asks = {}
  /\ cancels = {}
  /\ pass = [p \in Passes |-> PassOff]
  /\ work = [w \in Items |-> WorkOff]
  /\ user = UserOff
  /\ wakes = 1
  /\ budget = [requests |-> MaxRequests, crashes |-> Crashes]

PassActs(p) ==
  \/ PassBegins(p) \/ PassReads(p) \/ PassPromotes(p) \/ PassSelects(p)
  \/ PassLaunches(p) \/ PassJoins(p) \/ PassJudges(p)
  \/ PassSyncs(p) \/ PassSynced(p) \/ PassEnds(p)

ItemActs(o, s) ==
  \/ Claims(o, s) \/ AgentEnds(o, s) \/ AgentFailsToStart(o, s) \/ Records(o, s)
  \/ Settles(o, s) \/ Acknowledges(o, s) \/ Errs(o, s) \/ Guards(o, s) \/ Asks(o, s)
  \/ WorkSyncs(o, s) \/ WorkSynced(o, s)

Arrives ==
  \/ StopBegins \/ PauseBegins \/ ResumeBegins \/ CompleteBegins \/ AcceptBegins
  \/ \E s \in Steps : \/ InterruptBegins(s) \/ SkipBegins(s)
                      \/ RetryBegins(s) \/ AnswerBegins(s)

HandlerActs ==
  \/ UserSweeps \/ UserRequests \/ UserSettles \/ StopEnds \/ PauseEnds
  \/ InterruptCancels \/ Skips \/ RetryPrepares \/ UserReadies \/ RetryActivates
  \/ RetrySpawns \/ ResumeRevives \/ AnswerRecords \/ AnswerFails
  \/ CompleteHolds \/ CompleteForces \/ CompleteCloses \/ CompleteEnds \/ AcceptEnds
  \/ UserSyncs \/ UserSynced \/ UserWakes \/ UserErrs

Next ==
  \/ \E p \in Passes : PassActs(p)
  \/ \E o \in Owners, s \in Steps : ItemActs(o, s)
  \/ \E s \in Steps : RetryReturns(s)
  \/ Arrives
  \/ HandlerActs
  \/ Restarts

Spec == Init /\ [][Next]_vars

(* Every task that has begun goes on: a pass, a work item (the wait for an *)
(* agent's process has a timeout), a handler.  Nothing makes the user act  *)
(* or the process die.                                                     *)
Fairness ==
  /\ \A p \in Passes : WF_vars(PassActs(p))
  /\ \A o \in Owners, s \in Steps : WF_vars(ItemActs(o, s))
  /\ \A s \in Steps : WF_vars(RetryReturns(s))
  /\ WF_vars(HandlerActs)

FairSpec == Spec /\ Fairness

-----------------------------------------------------------------------------
(* Properties *)

PassPcs == {"off", "read", "sync", "syncing", "promote", "select", "launch",
            "reload", "join", "judge"}
WorkPcs == {"off", "claim", "sync", "syncing", "run", "record", "write",
            "acknowledge", "guard", "parked", "ask", "done"}
UserPcs == {"off", "sync", "syncing", "again", "sweep", "request", "settle",
            "pause", "cancel", "skip", "prepare", "ready", "activate", "reload",
            "revive", "record", "fail", "hold", "force", "finish",
            "accept", "wake"}
Acts    == {"stop", "pause", "interrupt", "skip", "retry", "resume", "approve",
            "reject", "complete", "accept"}
Table   == [Steps -> StepStatus]

PassRec == [pc : PassPcs, next : PassPcs, exec : ExecStatus,
            seen : Table, batch : SUBSET Steps, halt : BOOLEAN,
            snapExec : ExecStatus, snapStep : Table]
WorkRec == [pc : WorkPcs, next : WorkPcs, exec : ExecStatus,
            seen : StepStatus, attempt : Nat,
            out : StepStatus \cup {"Error"}, guarded : BOOLEAN,
            snapExec : ExecStatus, snapStep : Table]
UserRec == [pc : UserPcs, next : UserPcs, act : Acts \cup {"none"},
            exec : ExecStatus, seen : Table, todo : SUBSET Steps,
            snapExec : ExecStatus, snapStep : Table]

(* Type invariant *)
TypeOK ==
  /\ exec \in ExecStatus
  /\ stopped \in BOOLEAN
  /\ step \in Table
  /\ attempt \in [Steps -> Nat]
  /\ session \in [Agents -> SessionState]
  /\ asks \subseteq Steps \X Parking
  /\ cancels \subseteq Steps \X Nat
  /\ pass \in [Passes -> PassRec]
  /\ work \in [Items -> WorkRec]
  /\ user \in UserRec
  /\ wakes \in Nat
  /\ budget \in [requests : 0..MaxRequests, crashes : 0..Crashes]

(* Nobody is at work. *)
Quiet ==
  /\ \A p \in Passes : pass[p].pc = "off"
  /\ \A w \in Items : work[w].pc = "off"
  /\ user.pc = "off"
  /\ wakes = 0

(* The actors that still owe step s a status: an item between its claim    *)
(* and its outcome, a handler that has s on its list                       *)
Minds(o, s) ==
  \/ work[<<o, s>>].pc \in {"run", "record", "write", "acknowledge", "guard"}
  \/ work[<<o, s>>].pc \in {"sync", "syncing"} /\ work[<<o, s>>].next = "run"

Handles(s) == user.pc # "off" /\ s \in user.todo

(* The agents that execute step s and have not been told to stop *)
Executing(s) ==
  {o \in Owners : /\ work[<<o, s>>].pc = "run"
                  /\ <<s, work[<<o, s>>].attempt>> \notin cancels}

(* A step whose row says running is somebody's: no early return, refused   *)
(* transition, cancellation or restart leaves it behind (the claim, the    *)
(* guard around a work item, the retry's new attempt number, the recovery  *)
(* at startup).                                                            *)
NoAbandonedStep ==
  \A s \in Steps : step[s] = "Running" => (\E o \in Owners : Minds(o, s)) \/ Handles(s)

(* Two agents never work on one step, unless one of them has been told to  *)
(* stop: a retry may begin while the interrupted run is still ending (the  *)
(* claim, request_step_execution_cancel, prepare_manual_retry).            *)
OneRunnerPerStep == \A s \in Steps : \A o1, o2 \in Executing(s) : o1 = o2

(* A step starts running only when all its dependencies are completed or   *)
(* skipped at that moment, although promotion and selection decide on the  *)
(* steps as they were read several writes ago.                             *)
FollowsDependencies ==
  [][\A s \in Steps : step'[s] = "Running" /\ step[s] # "Running"
       => \A d \in Deps[s] : step[d] \in CompletedLike]_step

(* When nobody is at work, the statuses of the execution and of the agent  *)
(* sessions are those the steps derive: each synchronization overwrites    *)
(* them from its own reading, and the last one has to be right.  A session *)
(* left running or failed would never be given a step again.               *)
ExecutionAgrees ==
  \/ exec = DeriveExecution({step[s] : s \in Steps})
  \/ exec = "Completed"
  \/ exec = "Failed" /\ stopped

SessionsAgree ==
  \A g \in Agents : session[g] = DeriveSession({step[s] : s \in StepsOf(g)})

SettledAgrees == Quiet => ExecutionAgrees /\ SessionsAgree

(* When nobody is at work and no step waits for the user, the plan is      *)
(* done: wake_scheduler stops at a plan with nothing to schedule, and      *)
(* nothing but a request wakes it again.                                   *)
NoSilentStall ==
  Quiet /\ (\A s \in Steps : step[s] \in ReadyLike \cup CompletedLike) => AllDone(step)

(* A paused workflow with a step that only waits to be promoted can be     *)
(* resumed (resume_execution against the rule of skip_step that a skipped  *)
(* step satisfies its edges).                                              *)
ResumeIsOffered ==
  /\ Quiet
  /\ exec = "Paused"
  /\ \E s \in Steps : step[s] = "Pending" /\ DepsDone(s, step)
  => Resumable(step)

(* A workflow the user has stopped stays failed: stop_execution is a       *)
(* terminal decision.                                                      *)
StopIsTerminal == [][stopped /\ exec = "Failed" => exec' = "Failed"]_exec

(* Every running step settles (prepare_and_run_step, its guard, recovery). *)
StepsSettle == \A s \in Steps : step[s] = "Running" ~> step[s] # "Running"

(* Unless the process dies, a workflow moves on by itself until it is done *)
(* or shows the user a step to act on (wake_scheduler's loop).             *)
NeedsUser == {"WaitingInput", "WaitingReview", "Failed", "Interrupted"}

EndsAtTheUser ==
  <>[](\/ AllDone(step)
       \/ \E s \in Steps : step[s] \in NeedsUser
       \/ budget.crashes < Crashes)
=============================================================================
