---------------------------- MODULE DeliveryLedger ----------------------------
(***************************************************************************)
(* One member's part of the table chat_message_queue, and the statements   *)
(* the code runs against it (crates/db/src/models/chat_message_queue.rs).  *)
(*                                                                         *)
(* A ledger is a function from row ids to rows.  Row ids are handed out in *)
(* creation order, so the id is at once the primary key, which a deleted   *)
(* and re-created delivery does not get back, and the `created_at, id`     *)
(* order in which rows are claimed.  The legacy status `processing`, which *)
(* no statement writes any more, is read everywhere as `starting` and is   *)
(* left out.                                                               *)
(***************************************************************************)
EXTENDS Naturals

CONSTANTS MaxMessages,    \* bound on the messages of the session
          MaxRows,        \* bound on the rows one member is ever given
          MaxRuns         \* bound on the runs (dispatches) of one member

ASSUME LedgerAssumption ==
    MaxMessages \in Nat /\ MaxRows \in Nat /\ MaxRuns \in Nat

Messages == 1..MaxMessages
RowIds   == 1..MaxRows
Runs     == 1..MaxRuns

NoMessage == 0
NoRow     == 0
NoRun     == 0

-------------------------------------------------------------------------------
(* Statuses: `is_active`, `is_terminal`, `can_transition_to`. *)

Active   == {"starting", "running", "waiting_approval", "stopping"}
Terminal == {"failed", "cancelled", "skipped", "completed"}

\* The rows a query can return; "absent" ids are not handed out yet and
\* "deleted" ones are gone.
Stored == {"queued"} \cup Active \cup Terminal
Status == Stored \cup {"absent", "deleted"}

CanTransition(status) ==
    CASE status = "queued"           -> {"starting", "cancelled"}
      [] status = "starting"         -> {"running", "failed", "cancelled", "skipped"}
      [] status = "running"          -> {"waiting_approval", "stopping"} \cup Terminal
      [] status = "waiting_approval" -> {"running", "stopping", "completed",
                                         "failed", "cancelled"}
      [] status = "stopping"         -> {"completed", "failed", "cancelled"}
      [] OTHER                       -> {}

Row == [status   : Status,
        msg      : Messages \cup {NoMessage},
        rev      : Nat,
        attempt  : Nat,
        run      : Runs \cup {NoRun},
        resolved : BOOLEAN]

Blank(status) == [status |-> status, msg |-> NoMessage, rev |-> 0,
                  attempt |-> 0, run |-> NoRun, resolved |-> FALSE]

Ledger      == [RowIds -> Row]
EmptyLedger == [i \in RowIds |-> Blank("absent")]

-------------------------------------------------------------------------------
(* Queries. *)

ActiveRows(L) == {i \in RowIds : L[i].status \in Active}
QueuedRows(L) == {i \in RowIds : L[i].status = "queued"}

\* Definitions marked "mutant" are not part of the model.  Each is what a
\* likely mistake would make of the definition that follows it; the runs must
\* fail when it takes that definition's place.

ActiveRowNotWaiting(L) ==    \* mutant: a delivery awaiting approval is missed
  IF ActiveRows(L) = {} THEN NoRow
  ELSE IF \E i \in RowIds : L[i].status \in Active \ {"waiting_approval"}
  THEN CHOOSE i \in RowIds : L[i].status \in Active \ {"waiting_approval"}
  ELSE NoRow

\* find_active_for_member ... LIMIT 1
ActiveRow(L) == IF ActiveRows(L) = {} THEN NoRow
                ELSE CHOOSE i \in RowIds : L[i].status \in Active

HasQueued(L) == QueuedRows(L) # {}

\* A failed row blocks the queue until the user has answered it.
Unresolved(row) == row.status = "failed" /\ ~row.resolved
IsBlocked(L)    == \E i \in RowIds : Unresolved(L[i])

HasOpenRowFor(L, msg) ==     \* mutant: a delivery that has ended is forgotten
  \E i \in RowIds : /\ L[i].status \in Stored \ Terminal
                    /\ L[i].msg = msg

\* ON CONFLICT(chat_message_id, session_agent_id) DO NOTHING
HasRowFor(L, msg) == \E i \in RowIds : L[i].status \in Stored /\ L[i].msg = msg

BoundNotWaiting(L, run) ==   \* mutant: a delivery awaiting approval is missed
  {i \in RowIds : /\ L[i].status \in Stored \ {"waiting_approval"}
                  /\ L[i].run = run}

\* Rows found by find_by_run_id; terminal rows keep their run.
BoundTo(L, run) == {i \in RowIds : L[i].status \in Stored /\ L[i].run = run}

IsFresh(L, i) == /\ L[i].status = "absent"
                 /\ \A j \in RowIds : j < i => L[j].status # "absent"
HasRoom(L)    == \E i \in RowIds : IsFresh(L, i)
Fresh(L)      == CHOOSE i \in RowIds : IsFresh(L, i)

OldestQueued(L, i) == L[i].status = "queued" /\ \A j \in QueuedRows(L) : i <= j

ClaimableWhileBlocked(L, i) ==   \* mutant: a failure does not hold the queue
  OldestQueued(L, i) /\ ActiveRows(L) = {}
ClaimableNewest(L, i) ==         \* mutant: last in, first out
  /\ L[i].status = "queued" /\ \A j \in QueuedRows(L) : i >= j
  /\ ActiveRows(L) = {} /\ ~IsBlocked(L)

\* The WHERE clause of claim_next: the oldest queued row of a member that
\* has no delivery in flight and no unresolved failure.
Claimable(L, i) == OldestQueued(L, i) /\ ActiveRows(L) = {} /\ ~IsBlocked(L)
NextClaim(L)    == IF \E i \in RowIds : Claimable(L, i)
                   THEN CHOOSE i \in RowIds : Claimable(L, i)
                   ELSE NoRow

\* Where a delivery stands, for someone who waits for it.
PhaseOf(row) ==
  CASE row.status \in Active -> "active"
    [] Unresolved(row)       -> "blocked"
    [] row.status \in Terminal /\ ~Unresolved(row) -> "settled"
    [] row.status = "queued"  -> "waiting"
    [] row.status = "deleted" -> "withdrawn"
    [] OTHER                  -> "absent"

-------------------------------------------------------------------------------
(* Statements.  Each returns the ledger after it; every update of a row     *)
(* advances its revision.                                                   *)

Insert(L, i, msg) == [L EXCEPT ![i] = [Blank("queued") EXCEPT !.msg = msg]]

\* create_queued: idempotent on (message, member)
Enqueue(L, msg) == IF HasRowFor(L, msg) THEN L ELSE Insert(L, Fresh(L), msg)

LegacyClaim(L, i) ==     \* mutant: the claim still writes the old status
  [L EXCEPT ![i].status = "processing", ![i].rev = @ + 1, ![i].attempt = @ + 1]
Claim(L, i) == [L EXCEPT ![i].status  = "starting",
                         ![i].rev     = @ + 1,
                         ![i].attempt = @ + 1]
ClaimNext(L) == IF NextClaim(L) = NoRow THEN L ELSE Claim(L, NextClaim(L))

BindRun(L, i, run) == [L EXCEPT ![i].status = "running",
                                ![i].rev    = @ + 1,
                                ![i].run    = run]

SetStatus(L, i, status) == [L EXCEPT ![i].status = status,
                                     ![i].rev    = @ + 1]

AlwaysSkipped(L) == "skipped"    \* mutant: a failure never asks the user
\* `failed` when work waits behind the failure, otherwise `skipped`
FailureStatus(L)  == IF HasQueued(L) THEN "failed" ELSE "skipped"
FailOrSkip(L, i)  == SetStatus(L, i, FailureStatus(L))

RequeueKeepingRun(L, i) ==       \* mutant: the run id is not cleared
  SetStatus(L, i, "queued")
\* recover_inflight_cas
Requeue(L, i) == [L EXCEPT ![i].status = "queued",
                           ![i].rev    = @ + 1,
                           ![i].run    = NoRun]

\* skip_failed_for_member
ResolveFailed(L) ==
    [i \in RowIds |-> IF Unresolved(L[i])
                      THEN [L[i] EXCEPT !.resolved = TRUE, !.rev = @ + 1]
                      ELSE L[i]]

DeleteRow(L, i) == [L EXCEPT ![i] = Blank("deleted")]

\* FOREIGN KEY (chat_message_id) ... ON DELETE CASCADE
EraseMessage(L, msg) ==
    [i \in RowIds |-> IF L[i].status \in Stored /\ L[i].msg = msg
                      THEN Blank("deleted") ELSE L[i]]

MatchesAnyRevision(L, i, rev, statuses) ==   \* mutant: revision not compared
  i \in RowIds /\ L[i].status \in statuses
MatchesById(L, i, rev, statuses) ==          \* mutant: only the id is compared
  i \in RowIds /\ L[i].status \in Stored
\* A compare-and-set finds its row: same id, same revision, expected status.
Matches(L, i, rev, statuses) ==
    i \in RowIds /\ L[i].rev = rev /\ L[i].status \in statuses
===============================================================================
