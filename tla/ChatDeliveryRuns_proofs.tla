------------------------ MODULE ChatDeliveryRuns_proofs ------------------------
(***************************************************************************)
(* Theorems about ChatDelivery that relate tasks and deliveries: which run *)
(* a delivery names, and who works on it.                                  *)
(*                                                                         *)
(* They need more of a statement than ChatDelivery_proofs does: not only   *)
(* that the ledger stays sound, but what becomes of a row's revision,      *)
(* attempt and run (`Turn`).  A task is then followed through the turns of *)
(* the row it points at.                                                   *)
(***************************************************************************)
EXTENDS ChatDelivery_proofs

-------------------------------------------------------------------------------
(* What an update does to a row. *)

Claims(r, q) == /\ r.status = "queued" /\ q.status = "starting"
                /\ q.msg = r.msg /\ q.run = r.run /\ q.rev > r.rev

Advances(r, q) == /\ r.status \in Active /\ q.status \in Taken \ {"starting"}
                  /\ q.msg = r.msg /\ q.run = r.run /\ q.attempt = r.attempt
                  /\ q.rev > r.rev

GoesBack(r, q) == /\ r.status \in Active /\ q.status = "queued"
                  /\ q.msg = r.msg /\ q.run = NoRun /\ q.rev > r.rev

Resolves(r, q) == /\ r.status = "failed" /\ q.status = "failed"
                  /\ q.msg = r.msg /\ q.run = r.run /\ q.attempt = r.attempt
                  /\ q.rev > r.rev

Vanishes(r, q) == r.status \in Stored /\ q = Blank("deleted")

Turn(r, q) == \/ q = r
              \/ Claims(r, q) \/ Advances(r, q) \/ GoesBack(r, q)
              \/ Resolves(r, q) \/ Vanishes(r, q)

\* A row that is created, and may be claimed at once.
Appears(r, q, n) == /\ r.status = "absent" /\ q.status \in {"queued", "starting"}
                    /\ q.msg = n /\ q.run = NoRun

\* The fields of a row that a statement rewrites.
LEMMA NextTurnFields ==
  ASSUME NEW r \in Row, NEW status \in Status
  PROVE  /\ LET q == [r EXCEPT !.status = status, !.rev = @ + 1, !.attempt = @ + 1] IN
            /\ q \in Row /\ q.status = status /\ q.msg = r.msg /\ q.run = r.run
            /\ q.rev > r.rev
         /\ LET q == [r EXCEPT !.status = status, !.rev = @ + 1] IN
            /\ q \in Row /\ q.status = status /\ q.msg = r.msg /\ q.run = r.run
            /\ q.attempt = r.attempt /\ q.rev > r.rev
         /\ LET q == [r EXCEPT !.resolved = TRUE, !.rev = @ + 1] IN
            /\ q \in Row /\ q.status = r.status /\ q.msg = r.msg /\ q.run = r.run
            /\ q.attempt = r.attempt /\ q.rev > r.rev
<1>1. r.rev \in Nat /\ r.attempt \in Nat /\ r.rev + 1 > r.rev
  BY DEF Row
<1>2. DOMAIN r = {"status", "msg", "rev", "attempt", "run", "resolved"}
  BY DEF Row
<1>3. NoRun \in Runs \cup {NoRun}
  OBVIOUS
<1>4. /\ [r EXCEPT !.status = status, !.rev = @ + 1, !.attempt = @ + 1] \in Row
      /\ [r EXCEPT !.status = status, !.rev = @ + 1] \in Row
      /\ [r EXCEPT !.resolved = TRUE, !.rev = @ + 1] \in Row
  BY <1>3, RowsWritten
<1> QED BY <1>1, <1>2, <1>4

\* A row that is bound to run k.
Binding(r, q, k) == /\ r.status = "starting" /\ q.status = "running"
                    /\ q.msg = r.msg /\ q.run = k /\ q.attempt = r.attempt
                    /\ q.rev > r.rev

\* claim_next claims the row it chose, and no other.
LEMMA ClaimNextClaims ==
  ASSUME NEW L \in Ledger
  PROVE  \A i \in RowIds : IF i = NextClaim(L) THEN Claims(L[i], ClaimNext(L)[i])
                                               ELSE ClaimNext(L)[i] = L[i]
<1>1. CASE NextClaim(L) = NoRow
  BY <1>1, RowIdsPositive DEF ClaimNext
<1>2. CASE NextClaim(L) # NoRow
  <2> DEFINE i == NextClaim(L)
             q == [L[i] EXCEPT !.status = "starting", !.rev = @ + 1, !.attempt = @ + 1]
  <2>1. i \in RowIds /\ L[i].status = "queued" /\ L[i] \in Row
    BY <1>2, NextClaimChosen DEF Claimable, OldestQueued, Ledger
  <2>2. ClaimNext(L) = [L EXCEPT ![i] = q]
    BY <1>2, <2>1 DEF ClaimNext, Claim, Ledger
  <2>3. Claims(L[i], q) /\ q \in Row
    <3>1. "starting" \in Status
      BY DEF Status, Stored, Active
    <3>2. q \in Row /\ q.status = "starting" /\ q.msg = L[i].msg
          /\ q.run = L[i].run /\ q.rev > L[i].rev
      BY <2>1, <3>1, NextTurnFields
    <3> QED BY <2>1, <3>2 DEF Claims
  <2>4. LET R == [L EXCEPT ![i] = q] IN
        R \in Ledger /\ R[i] = q /\ \A j \in RowIds : j # i => R[j] = L[j]
    <3> HIDE DEF i, q
    <3> QED BY <2>1, <2>3, ReplaceTyped
  <2> HIDE DEF q
  <2> QED BY <2>2, <2>3, <2>4
<1> QED BY <1>1, <1>2

\* A transition of a delivery in flight advances its row.
LEMMA SetStatusTurns ==
  ASSUME NEW L \in Ledger, NEW i \in RowIds, L[i].status \in Active,
         NEW status \in Taken \ {"starting"}
  PROVE  /\ SetStatus(L, i, status) \in Ledger
         /\ Advances(L[i], SetStatus(L, i, status)[i])
         /\ SetStatus(L, i, status)[i].status = status
         /\ \A j \in RowIds : j # i => SetStatus(L, i, status)[j] = L[j]
<1> DEFINE q == [L[i] EXCEPT !.status = status, !.rev = @ + 1]
<1>1. L[i] \in Row
  BY DEF Ledger
<1>2. status \in Status
  BY DEF Taken, Status, Stored
<1>3. q \in Row /\ Advances(L[i], q) /\ q.status = status
  BY <1>1, <1>2, NextTurnFields DEF Advances
<1>4. SetStatus(L, i, status) = [L EXCEPT ![i] = q]
  BY <1>1 DEF SetStatus, Ledger, Row
<1> DEFINE M == SetStatus(L, i, status)
<1>5. M \in Ledger /\ M[i] = q /\ \A j \in RowIds : j # i => M[j] = L[j]
  <2> HIDE DEF q
  <2>1. LET R == [L EXCEPT ![i] = q] IN
        R \in Ledger /\ R[i] = q /\ \A j \in RowIds : j # i => R[j] = L[j]
    BY <1>3, ReplaceTyped
  <2> QED BY <1>4, <2>1
<1> QED BY <1>3, <1>5

\* The answer to a failure marks rows that failed, and no other.
LEMMA ResolveFailedTurns ==
  ASSUME NEW L \in Ledger, NEW M
  PROVE  M = ResolveFailed(L) => \A i \in RowIds : M[i] = L[i] \/ Resolves(L[i], M[i])
<1>1. ASSUME M = ResolveFailed(L), NEW i \in RowIds
      PROVE  M[i] = L[i] \/ Resolves(L[i], M[i])
  <2>1. L[i] \in Row
    BY DEF Ledger
  <2>2. CASE Unresolved(L[i])
    <3>1. M[i] = [L[i] EXCEPT !.resolved = TRUE, !.rev = @ + 1]
      BY <1>1, <2>2 DEF ResolveFailed
    <3>2. L[i].status = "failed" /\ L[i].status \in Status
      BY <2>1, <2>2 DEF Unresolved, Row
    <3>3. /\ M[i].status = L[i].status /\ M[i].msg = L[i].msg
          /\ M[i].run = L[i].run /\ M[i].attempt = L[i].attempt
          /\ M[i].rev > L[i].rev
      BY <2>1, <3>1, <3>2, NextTurnFields
    <3> QED BY <3>2, <3>3 DEF Resolves
  <2>3. CASE ~Unresolved(L[i])
    BY <1>1, <2>3 DEF ResolveFailed
  <2> QED BY <2>2, <2>3
<1> QED BY <1>1

\* Every update turns each row or leaves it alone.
LEMMA UpdateTurns ==
  ASSUME NEW L \in Ledger, NEW M, Update(L, M)
  PROVE  \A i \in RowIds : Turn(L[i], M[i])
<1>1. CASE M = L
  BY <1>1 DEF Turn
<1>2. CASE M = ClaimNext(L)
  BY <1>2, ClaimNextClaims DEF Turn
<1>3. CASE Moves(L, M)
  <2>1. PICK i \in RowIds, status \in Taken \ {"starting"} :
          /\ L[i].status \in Active
          /\ M = SetStatus(L, i, status)
             \/ (status \in Terminal /\ M = ClaimNext(SetStatus(L, i, status)))
    BY <1>3 DEF Moves
  <2> DEFINE N == SetStatus(L, i, status)
  <2>2. /\ N \in Ledger /\ Advances(L[i], N[i]) /\ N[i].status = status
        /\ \A j \in RowIds : j # i => N[j] = L[j]
    BY <2>1, SetStatusTurns
  <2> HIDE DEF N
  <2>3. CASE M = N
    BY <2>2, <2>3 DEF Turn
  <2>4. CASE M = ClaimNext(N)
    <3>1. \A j \in RowIds : M[j] = N[j] \/ Claims(N[j], M[j])
      BY <2>2, <2>4, ClaimNextClaims
    <3>2. status # "queued"
      BY DEF Taken, Active, Terminal
    <3>3. M[i] = N[i]
      BY <2>2, <3>1, <3>2 DEF Claims
    <3> QED BY <2>2, <3>1, <3>3 DEF Turn
  <2> QED BY <2>1, <2>3, <2>4 DEF N
<1>4. CASE Returns(L, M)
  <2>1. PICK i \in RowIds : L[i].status \in Active /\ M = Requeue(L, i)
    BY <1>4 DEF Returns
  <2>2. L[i] \in Row
    BY DEF Ledger
  <2>3. GoesBack(L[i], M[i]) /\ \A j \in RowIds : j # i => M[j] = L[j]
    BY <2>1, <2>2 DEF Requeue, GoesBack, Row, Ledger
  <2> QED BY <2>3 DEF Turn
<1>5. CASE M = ResolveFailed(L)
  BY <1>5, ResolveFailedTurns DEF Turn
<1>6. CASE Deletes(L, M)
  <2>1. CASE \E i \in RowIds : L[i].status = "queued" /\ M = DeleteRow(L, i)
    <3>1. PICK i \in RowIds : L[i].status = "queued" /\ M = DeleteRow(L, i)
      BY <2>1
    <3>2. M[i] = Blank("deleted") /\ \A j \in RowIds : j # i => M[j] = L[j]
      BY <3>1 DEF DeleteRow, Ledger
    <3> QED BY <3>1, <3>2 DEF Turn, Vanishes, Stored
  <2>2. CASE \E n \in Messages \cup {NoMessage} : M = EraseMessage(L, n)
    BY <2>2 DEF EraseMessage, Turn, Vanishes
  <2> QED BY <1>6, <2>1, <2>2 DEF Deletes
<1> QED BY <1>1, <1>2, <1>3, <1>4, <1>5, <1>6 DEF Update

\* create_queued adds one row of its message, or none.
LEMMA EnqueueTurns ==
  ASSUME NEW L \in Ledger, NEW n \in Messages, HasRowFor(L, n) \/ HasRoom(L)
  PROVE  /\ Enqueue(L, n) \in Ledger
         /\ \A i \in RowIds : \/ Enqueue(L, n)[i] = L[i]
                              \/ /\ Appears(L[i], Enqueue(L, n)[i], n)
                                 /\ Enqueue(L, n)[i].status = "queued"
<1>1. CASE HasRowFor(L, n)
  BY <1>1 DEF Enqueue
<1>2. CASE ~HasRowFor(L, n)
  <2> DEFINE i == Fresh(L)
             q == [Blank("queued") EXCEPT !.msg = n]
  <2>1. i \in RowIds /\ L[i].status = "absent"
    BY <1>2, FreshChosen DEF IsFresh
  <2>2. q \in Row /\ Appears(L[i], q, n) /\ q.status = "queued"
    <3> HIDE DEF i
    <3> QED BY <2>1 DEF Blank, Row, Status, Stored, Appears, NoMessage, NoRun
  <2>3. Enqueue(L, n) = [L EXCEPT ![i] = q]
    BY <1>2 DEF Enqueue, Insert
  <2>4. /\ Enqueue(L, n) \in Ledger /\ Enqueue(L, n)[i] = q
        /\ \A j \in RowIds : j # i => Enqueue(L, n)[j] = L[j]
    <3> HIDE DEF i, q
    <3>1. LET R == [L EXCEPT ![i] = q] IN
          R \in Ledger /\ R[i] = q /\ \A j \in RowIds : j # i => R[j] = L[j]
      BY <2>1, <2>2, ReplaceTyped
    <3> QED BY <2>3, <3>1
  <2> QED BY <2>1, <2>2, <2>4
<1> QED BY <1>1, <1>2

\* The delivery that persist_delivery_bundle_rows creates may be claimed at once.
LEMMA BundleTurns ==
  ASSUME NEW L \in Ledger, NEW n \in Messages, HasRowFor(L, n) \/ HasRoom(L)
  PROVE  \A i \in RowIds : \/ Turn(L[i], Bundle(L, n)[i])
                           \/ Appears(L[i], Bundle(L, n)[i], n)
<1> DEFINE N == Enqueue(L, n)
<1>1. /\ N \in Ledger
      /\ \A i \in RowIds : \/ N[i] = L[i]
                           \/ Appears(L[i], N[i], n) /\ N[i].status = "queued"
  BY EnqueueTurns
<1> HIDE DEF N
<1>2. \A i \in RowIds : ClaimNext(N)[i] = N[i] \/ Claims(N[i], ClaimNext(N)[i])
  BY <1>1, ClaimNextClaims
<1>3. Bundle(L, n) = ClaimNext(N)
  BY DEF Bundle, N
<1> QED BY <1>1, <1>2, <1>3 DEF Turn, Appears, Claims

\* bind_delivery_to_new_run binds one row.
LEMMA BindRunTurns ==
  ASSUME NEW L \in Ledger, NEW i \in RowIds, L[i].status = "starting", NEW k \in Runs
  PROVE  /\ Binding(L[i], BindRun(L, i, k)[i], k)
         /\ \A j \in RowIds : j # i => BindRun(L, i, k)[j] = L[j]
<1>1. L[i] \in Row
  BY DEF Ledger
<1>2. BindRun(L, i, k)[i] = [L[i] EXCEPT !.status = "running", !.rev = @ + 1, !.run = k]
  BY DEF BindRun, Ledger
<1>3. \A j \in RowIds : j # i => BindRun(L, i, k)[j] = L[j]
  BY DEF BindRun, Ledger
<1> QED BY <1>1, <1>2, <1>3 DEF Binding, Row

-------------------------------------------------------------------------------
(* What a step does to the rows of a member.                                 *)

\* A row is created for a new message or, by the retry of a send, for one that
\* is there; it is bound by the task that points at it; and otherwise a step
\* turns it.
LEMMA RowsTurn ==
  ASSUME IInv, [Next]_vars, NEW m \in Members, NEW i \in RowIds
  PROVE  \/ Turn(rows[m][i], rows'[m][i])
         \/ \E n \in Messages :
              /\ Appears(rows[m][i], rows'[m][i], n)
              /\ \/ n = sent + 1 /\ sent' = sent + 1
                 \/ Exists(n) /\ sent' = sent /\ "resend" \in Events
         \/ \E k \in Runs : /\ task[m][k].row = i /\ Bind(m, k)
                            /\ Binding(rows[m][i], rows'[m][i], k)
<1>1. rows[m] \in Ledger /\ \A x \in Members : rows[x] \in Ledger
  BY DEF IInv, Ledgers
<1>2. CASE ~CreatesOrBinds
  <2>1. Update(rows[m], rows'[m])
    BY <1>2, NextRunsUpdates DEF RunsUpdates
  <2> QED BY <1>1, <2>1, UpdateTurns
<1>3. ASSUME NEW n \in Messages, NEW targets \in SUBSET Members, PersistBundle(n, targets)
      PROVE  Turn(rows[m][i], rows'[m][i]) \/ Appears(rows[m][i], rows'[m][i], n)
  <2>1. CASE m \in targets
    <3>1. HasRowFor(rows[m], n) \/ HasRoom(rows[m])
      BY <1>3, <2>1 DEF PersistBundle, CanBundle
    <3>2. rows'[m] = Bundle(rows[m], n)
      BY <1>3, <2>1 DEF PersistBundle
    <3> QED BY <1>1, <3>1, <3>2, BundleTurns
  <2>2. CASE m \notin targets
    BY <1>3, <2>2 DEF PersistBundle, Turn
  <2> QED BY <2>1, <2>2
<1>4. ASSUME NEW targets \in SUBSET Members, Send(targets)
      PROVE  Turn(rows[m][i], rows'[m][i])
             \/ \E n \in Messages : Appears(rows[m][i], rows'[m][i], n)
                                    /\ n = sent + 1 /\ sent' = sent + 1
  <2>1. sent + 1 \in Messages
    BY <1>4, RoomIsRoom DEF Send, IInv, Bookkeeping
  <2> QED BY <1>3, <1>4, <2>1 DEF Send
<1>5. ASSUME NEW n \in Messages, Resend(n)
      PROVE  Turn(rows[m][i], rows'[m][i])
             \/ (/\ Appears(rows[m][i], rows'[m][i], n)
                 /\ Exists(n) /\ sent' = sent /\ "resend" \in Events)
  <2>1. message[n].targets \in SUBSET Members
    BY DEF IInv, Bookkeeping, MessageRow
  <2> QED BY <1>3, <1>5, <2>1 DEF Resend, Spend
<1>6. ASSUME NEW x \in Members, NEW k \in Runs, Retry(x, k)
      PROVE  Turn(rows[m][i], rows'[m][i])
             \/ \E n \in Messages : Appears(rows[m][i], rows'[m][i], n)
                                    /\ n = sent + 1 /\ sent' = sent + 1
  <2>1. sent + 1 \in Messages
    BY <1>6, LedgerAssumption DEF Retry, IInv, Bookkeeping, Messages
  <2>2. sent' = sent + 1 /\ SetRows(x, Enqueue(rows[x], sent + 1)) /\ HasRoom(rows[x])
    BY <1>6 DEF Retry
  <2>3. CASE x = m
    <3>1. rows'[m] = Enqueue(rows[m], sent + 1)
      BY <2>2, <2>3 DEF SetRows, IInv, Ledgers
    <3> QED BY <1>1, <2>1, <2>2, <2>3, <3>1, EnqueueTurns DEF Turn
  <2>4. CASE x # m
    BY <2>2, <2>4 DEF SetRows, IInv, Ledgers, Turn
  <2> QED BY <2>3, <2>4
<1>7. ASSUME NEW x \in Members, NEW k \in Runs, Bind(x, k)
      PROVE  Turn(rows[m][i], rows'[m][i])
             \/ (/\ task[m][k].row = i /\ Bind(m, k)
                 /\ Binding(rows[m][i], rows'[m][i], k))
  <2> DEFINE t == task[x][k]
  <2>1. CASE x = m /\ Matches(rows[x], t.row, t.rev, {"starting"})
    <3>1. t.row \in RowIds /\ rows[m][t.row].status = "starting"
      BY <2>1 DEF Matches
    <3>2. rows'[m] = BindRun(rows[m], t.row, k)
      BY <1>7, <2>1 DEF Bind, SetRows, IInv, Ledgers
    <3> HIDE DEF t
    <3>3. CASE t.row = i
      BY <1>1, <1>7, <2>1, <3>1, <3>2, <3>3, BindRunTurns DEF t
    <3>4. CASE t.row # i
      BY <1>1, <3>1, <3>2, <3>4, BindRunTurns DEF Turn
    <3> QED BY <3>3, <3>4
  <2>2. CASE ~(x = m /\ Matches(rows[x], t.row, t.rev, {"starting"}))
    BY <1>7, <2>2 DEF Bind, SetRows, IInv, Ledgers, Turn
  <2> QED BY <2>1, <2>2
<1> QED BY <1>2, <1>4, <1>5, <1>6, <1>7 DEF CreatesOrBinds

-------------------------------------------------------------------------------
(* Messages: a row never names one that was not sent.                        *)

NewestMessage ==
  /\ \A m \in Members : \A i \in RowIds :
       rows[m][i].status \in Stored => rows[m][i].msg <= sent
  /\ \A n \in Messages : Exists(n) => n <= sent

\* A step sends at most one message, numbered after all the others.
LEMMA MessagesGrow ==
  ASSUME IInv, [Next]_vars
  PROVE  /\ sent' \in {sent, sent + 1}
         /\ \A n \in Messages : Exists(n)' => Exists(n) \/ (n = sent + 1 /\ sent' = sent + 1)
<1>1. message \in [Messages -> MessageRow]
  BY DEF IInv, Bookkeeping
<1>2. ASSUME NEW row, message' = [message EXCEPT ![sent + 1] = row], sent' = sent + 1
      PROVE  \A n \in Messages : Exists(n)' => Exists(n) \/ (n = sent + 1 /\ sent' = sent + 1)
  BY <1>1, <1>2 DEF Exists
<1>3. ASSUME NEW n, Erase(n)
      PROVE  \A x \in Messages : Exists(x)' => Exists(x)
  BY <1>1, <1>3 DEF Erase, Exists, NoSuchMessage
<1>4. CASE UNCHANGED <<message, sent>>
  BY <1>4 DEF Exists
<1>5. CASE \E targets \in SUBSET Members : Send(targets)
  BY <1>2, <1>5 DEF Send
<1>6. CASE \E n \in Messages : Resend(n)
  BY <1>4, <1>6 DEF Resend
<1>7. CASE \E n \in Messages : RemoveMessage(n)
  BY <1>3, <1>7 DEF RemoveMessage
<1>8. CASE UnqueueStep
  BY <1>3, <1>4, <1>8 DEF UnqueueStep, UnqueueCount, UnqueueErase
<1>9. ASSUME NEW m \in Members, NEW k \in Runs, RunOf(m, k)
      PROVE  UNCHANGED <<message, sent>> \/ Retry(m, k)
  <2>1. CASE FaultOf(m, k) \/ ExecutorOf(m, k) \/ ApprovalOf(m, k) \/ WatcherEnds(m, k)
    BY <2>1 DEF FaultOf, LoadFault, PrepareFault, StartFault, ExecutorOf, Exit,
       ApprovalOf, AskApproval, LeaveApproval, WatcherEnds, TaskOnly
  <2>2. CASE TaskStepOf(m, k)
    BY <2>2 DEF TaskStepOf, Load, Register, Bind, Start, StartStopped, Finalize,
       Commit, Reclaim, DropControl, Fail, SettleBound, SettleStarting, Skip, Mark, TaskOnly
  <2> QED BY <1>9, <2>1, <2>2 DEF RunOf
<1>10. CASE \E m \in Members, k \in Runs : RunOf(m, k)
  <2>1. PICK m \in Members, k \in Runs : RunOf(m, k)
    BY <1>10
  <2>2. CASE Retry(m, k)
    BY <1>2, <2>2 DEF Retry
  <2> QED BY <1>4, <1>9, <2>1, <2>2
<1>11. ASSUME NEW m \in Members,
              \/ Continue(m) \/ Wake(m) \/ RecoveryOf(m) \/ StopRequest(m)
              \/ StopStepOf(m) \/ \E i \in RowIds : Unqueue(m, i)
       PROVE  UNCHANGED <<message, sent>>
  <2>1. CASE StopRequest(m) \/ StopStepOf(m)
    BY <2>1 DEF StopRequest, StopStepOf, StopFind, StopLookup, StopTransition,
       StopCancel, StopReset, StopList, StopRequeue, StopOnly
  <2> QED BY <1>11, <2>1 DEF Continue, Wake, RecoveryOf, RecoverReset, RecoverRequeue,
       RecoverResume, RecoverOnly, Unqueue
<1>12. CASE Crash \/ UNCHANGED vars
  BY <1>4, <1>12 DEF Crash, vars, persistent
<1> QED BY <1>4, <1>5, <1>6, <1>7, <1>8, <1>10, <1>11, <1>12 DEF Next

\* No row and no message is numbered beyond the messages sent.
LEMMA NewestIsSent ==
  ASSUME IInv, IInv', [Next]_vars, NewestMessage
  PROVE  NewestMessage'
<1>1. sent \in Nat /\ sent' \in {sent, sent + 1}
  BY MessagesGrow, LedgerAssumption DEF IInv, Bookkeeping
<1>2. \A n \in Messages : Exists(n)' => n <= sent'
  BY <1>1, MessagesGrow DEF NewestMessage, Messages
<1>3. ASSUME NEW m \in Members, NEW i \in RowIds, rows'[m][i].status \in Stored
      PROVE  rows'[m][i].msg <= sent'
  <2>1. rows[m][i].status \in Stored => rows[m][i].msg \in Nat /\ rows[m][i].msg <= sent
    BY RowIsTyped, LedgerAssumption DEF NewestMessage, IInv, Row, Messages, NoMessage
  <2>2. CASE rows[m][i].status \in Stored /\ rows'[m][i].msg = rows[m][i].msg
    BY <1>1, <2>1, <2>2
  <2>3. CASE Turn(rows[m][i], rows'[m][i])
    BY <1>3, <2>2, <2>3 DEF Turn, Claims, Advances, GoesBack, Resolves, Vanishes, Blank,
       Stored, Active, Terminal
  <2>4. CASE \E n \in Messages :
              /\ Appears(rows[m][i], rows'[m][i], n)
              /\ \/ n = sent + 1 /\ sent' = sent + 1
                 \/ Exists(n) /\ sent' = sent /\ "resend" \in Events
    BY <1>1, <2>4 DEF Appears, NewestMessage
  <2>5. CASE \E k \in Runs : Binding(rows[m][i], rows'[m][i], k)
    BY <2>2, <2>5 DEF Binding, Stored, Active
  <2> QED BY <2>3, <2>4, <2>5, RowsTurn
<1> QED BY <1>2, <1>3 DEF NewestMessage

-------------------------------------------------------------------------------
(* Deleting a queue entry: the message goes when no delivery of it is left. *)

\* What a delete-queue-item call carries: a message that was sent and, once it
\* has counted none, one that no ledger has a delivery of.
NothingLeft ==
  unqueue.pc # "idle" =>
    /\ unqueue.msg <= sent
    /\ unqueue.pc = "erase" => \A m \in Members : ~HasRowFor(rows[m], unqueue.msg)

\* Who writes what the call carries.
LEMMA UnqueueMoves ==
  ASSUME [Next]_vars
  PROVE  \/ unqueue' = unqueue \/ unqueue' = NoUnqueue
         \/ UnqueueCount
         \/ \E m \in Members, i \in RowIds : Unqueue(m, i)
<1>1. ASSUME NEW m \in Members, NEW k \in Runs, RunOf(m, k)
      PROVE  unqueue' = unqueue
  <2>1. CASE FaultOf(m, k) \/ ExecutorOf(m, k) \/ ApprovalOf(m, k) \/ WatcherEnds(m, k)
    BY <2>1 DEF FaultOf, LoadFault, PrepareFault, StartFault, ExecutorOf, Exit,
       ApprovalOf, AskApproval, LeaveApproval, WatcherEnds, TaskOnly
  <2>2. CASE TaskStepOf(m, k)
    BY <2>2 DEF TaskStepOf, Load, Register, Bind, Start, StartStopped, Finalize, Retry,
       Commit, Reclaim, DropControl, Fail, SettleBound, SettleStarting, Skip, Mark, TaskOnly
  <2> QED BY <1>1, <2>1, <2>2 DEF RunOf
<1>2. ASSUME NEW m \in Members, \/ Continue(m) \/ Wake(m) \/ RecoveryOf(m)
                                \/ StopRequest(m) \/ StopStepOf(m)
      PROVE  unqueue' = unqueue
  <2>1. CASE StopRequest(m) \/ StopStepOf(m)
    BY <2>1 DEF StopRequest, StopStepOf, StopFind, StopLookup, StopTransition,
       StopCancel, StopReset, StopList, StopRequeue, StopOnly
  <2> QED BY <1>2, <2>1 DEF Continue, Wake, RecoveryOf, RecoverReset, RecoverRequeue,
       RecoverResume, RecoverOnly
<1>3. ASSUME \/ \E targets \in SUBSET Members : Send(targets)
             \/ \E n \in Messages : Resend(n) \/ RemoveMessage(n)
             \/ UnqueueErase \/ Crash \/ UNCHANGED vars
      PROVE  unqueue' = unqueue \/ unqueue' = NoUnqueue
  BY <1>3 DEF Send, Resend, RemoveMessage, PersistBundle, UnqueueErase, Crash, vars, memory
<1> QED BY <1>1, <1>2, <1>3 DEF Next, UnqueueStep

\* A ledger without a delivery of a message that was sent gets none, unless
\* the send is tried again.
LEMMA NoneLeftStays ==
  ASSUME IInv, [Next]_vars, "resend" \notin Events, NEW m \in Members,
         NEW n \in Nat, n <= sent, ~HasRowFor(rows[m], n)
  PROVE  ~HasRowFor(rows'[m], n)
<1>1. sent \in Nat
  BY LedgerAssumption DEF IInv, Bookkeeping
<1>2. ASSUME NEW i \in RowIds, rows'[m][i].status \in Stored, rows'[m][i].msg = n
      PROVE  FALSE
  <2>1. ~(rows[m][i].status \in Stored /\ rows[m][i].msg = n)
    BY DEF HasRowFor
  <2>2. CASE Turn(rows[m][i], rows'[m][i])
    BY <1>2, <2>1, <2>2 DEF Turn, Claims, Advances, GoesBack, Resolves, Vanishes, Blank,
       Stored, Active, Terminal
  <2>3. CASE Appears(rows[m][i], rows'[m][i], sent + 1)
    BY <1>1, <1>2, <2>3 DEF Appears
  <2>4. CASE \E k \in Runs : Binding(rows[m][i], rows'[m][i], k)
    BY <1>2, <2>1, <2>4 DEF Binding, Stored, Active
  <2> QED BY <2>2, <2>3, <2>4, RowsTurn
<1> QED BY <1>2 DEF HasRowFor

UnqueueIInv == IInv /\ NewestMessage /\ NothingLeft

\* No step makes the call forget a delivery.
LEMMA NothingLeftStays ==
  ASSUME "resend" \notin Events
  PROVE  UnqueueIInv /\ [Next]_vars => UnqueueIInv'
<1> SUFFICES ASSUME UnqueueIInv, [Next]_vars PROVE UnqueueIInv'
  OBVIOUS
<1>1. IInv /\ IInv' /\ NewestMessage /\ NewestMessage'
  BY StepIInv, NewestIsSent DEF UnqueueIInv
<1>2. /\ sent \in Nat /\ sent' \in {sent, sent + 1}
      /\ unqueue.msg \in Nat
  BY <1>1, MessagesGrow, LedgerAssumption DEF IInv, Bookkeeping, UnqueueCall, Messages, NoMessage
<1>3. CASE unqueue' = unqueue
  <2>1. unqueue.pc = "erase" => \A m \in Members : ~HasRowFor(rows'[m], unqueue.msg)
    BY <1>1, <1>2, NoneLeftStays DEF UnqueueIInv, NothingLeft
  <2>2. unqueue.pc # "idle" => unqueue.msg <= sent'
    BY <1>2 DEF UnqueueIInv, NothingLeft
  <2> QED BY <1>1, <1>3, <2>1, <2>2 DEF UnqueueIInv, NothingLeft
<1>4. CASE unqueue' = NoUnqueue
  BY <1>1, <1>4 DEF UnqueueIInv, NothingLeft, NoUnqueue
<1>5. CASE UnqueueCount
  <2>1. rows' = rows /\ sent' = sent
    BY <1>5 DEF UnqueueCount
  <2>2. CASE \E m \in Members : HasRowFor(rows[m], unqueue.msg)
    BY <1>4, <1>5, <2>2 DEF UnqueueCount
  <2>3. CASE ~\E m \in Members : HasRowFor(rows[m], unqueue.msg)
    <3>1. unqueue' = [unqueue EXCEPT !.pc = "erase"] /\ unqueue.pc = "count"
      BY <1>5, <2>3 DEF UnqueueCount
    <3>2. unqueue'.msg = unqueue.msg /\ unqueue.msg <= sent
      BY <1>1, <3>1 DEF UnqueueIInv, NothingLeft, IInv, Bookkeeping, UnqueueCall
    <3> QED BY <1>1, <2>1, <2>3, <3>2 DEF UnqueueIInv, NothingLeft
  <2> QED BY <2>2, <2>3
<1>6. ASSUME NEW m \in Members, NEW i \in RowIds, Unqueue(m, i)
      PROVE  UnqueueIInv'
  <2>1. unqueue' = [pc |-> "count", msg |-> rows[m][i].msg] /\ sent' = sent
        /\ rows[m][i].status = "queued"
    BY <1>6 DEF Unqueue
  <2>2. rows[m][i].msg <= sent
    BY <1>1, <2>1 DEF NewestMessage, Stored
  <2> QED BY <1>1, <2>1, <2>2 DEF UnqueueIInv, NothingLeft
<1> QED BY <1>3, <1>4, <1>5, <1>6, UnqueueMoves

\* The deletion of a message without deliveries touches no ledger.
LEMMA ErasesNothing ==
  ASSUME IInv, NothingLeft, UnqueueErase
  PROVE  rows' = rows
<1>1. \A m \in Members : EraseMessage(rows[m], unqueue.msg) = rows[m]
  BY DEF UnqueueErase, NothingLeft, HasRowFor, EraseMessage, IInv, Ledgers, Ledger
<1>2. rows' = [m \in Members |-> EraseMessage(rows[m], unqueue.msg)]
  BY DEF UnqueueErase, Erase
<1> QED BY <1>1, <1>2 DEF IInv, Ledgers

\* Deleting a queue entry erases the message only when no ledger has a delivery
\* of it left, although the count and the erasure are two statements: no step
\* in between can bring a delivery of it back, unless the client tries the send
\* of that very message again (delete_queue_item).
THEOREM UnqueueSparesTheLedger ==
  ASSUME "resend" \notin Events
  PROVE  Spec => UnqueueSparesOthers
<1>1. Init => UnqueueIInv
  <2>1. Init => NewestMessage
    BY DEF Init, NewestMessage, EmptyLedger, Blank, Stored, Active, Terminal,
       Exists, NoSuchMessage
  <2>2. Init => NothingLeft
    BY DEF Init, NothingLeft, NoUnqueue
  <2> QED BY <2>1, <2>2, InitIInv DEF UnqueueIInv
<1>2. UnqueueIInv /\ [Next]_vars => UnqueueIInv'
  BY NothingLeftStays
<1>3. UnqueueIInv /\ [Next]_vars => (UnqueueErase => rows' = rows)
  BY ErasesNothing DEF UnqueueIInv
<1> QED BY <1>1, <1>2, <1>3, PTL DEF Spec, UnqueueSparesOthers

-------------------------------------------------------------------------------
(* Runs and deliveries: a run id leads to the delivery its task works on.    *)

\* Where a task has not bound its run yet.
Early == {"free", "load", "register", "prepare", "reclaim"}

\* A delivery that nobody has started names no run.
RunOnlyWhenTaken(L) == \A i \in RowIds :
  L[i].status \in {"absent", "deleted", "queued", "starting"} => L[i].run = NoRun

\* A delivery that names a run is the one its task was given, in the attempt
\* the task loaded.
NamesTask(L, T) == \A i \in RowIds, k \in Runs : L[i].run = k =>
  /\ T[k].row = i /\ T[k].pc \notin Early
  /\ T[k].pc # "done" => T[k].attempt = L[i].attempt

\* A task about to bind its run expects a revision of the attempt it loaded, or
\* one that is past.
Expects(t, r) ==
  /\ r.status # "absent"
  /\ r.status \in Stored => /\ t.rev <= r.rev
                            /\ t.rev = r.rev => t.attempt = r.attempt

Loaded(L, T) == \A k \in Runs :
  T[k].pc \in {"register", "prepare"} => Expects(T[k], L[T[k].row])

Named(L, T) == RunOnlyWhenTaken(L) /\ NamesTask(L, T) /\ Loaded(L, T)

RunsNamed == \A m \in Members : Named(rows[m], task[m])

\* How a step that binds nothing may change a task: it leaves alone what the
\* invariant reads, loads or claims a starting delivery, goes on towards
\* the bind, or stays behind it with its delivery and attempt.
TaskKeeps(t, u, M) ==
  \/ u.pc = t.pc /\ u.row = t.row /\ u.rev = t.rev /\ u.attempt = t.attempt
  \/ t.pc \in Early /\ u.pc \notin {"register", "prepare"}
  \/ /\ t.pc = "register" /\ u.pc = "prepare"
     /\ u.row = t.row /\ u.rev = t.rev /\ u.attempt = t.attempt
  \/ /\ t.pc \in Early /\ u.pc = "register"
     /\ M[u.row].status = "starting"
     /\ u.rev = M[u.row].rev /\ u.attempt = M[u.row].attempt
  \/ /\ t.pc \notin Early /\ u.pc \notin Early /\ u.row = t.row
     /\ u.pc # "done" => t.pc # "done" /\ u.attempt = t.attempt

TurnsOrAppears(r, q) == Turn(r, q) \/ \E n \in Messages : Appears(r, q, n)

\* A turn keeps what a task that has not bound its run expects.
LEMMA ExpectsKept ==
  ASSUME NEW t \in Task, NEW r \in Row, NEW q \in Row, TurnsOrAppears(r, q), Expects(t, r)
  PROVE  Expects(t, q)
<1>1. r.rev \in Nat /\ q.rev \in Nat /\ t.rev \in Nat
  BY DEF Row, Task
<1>2. r.status # "absent"
  BY DEF Expects
<1>3. CASE q = r
  BY <1>3
<1>4. CASE Vanishes(r, q)
  BY <1>4 DEF Vanishes, Blank, Expects, Stored, Active, Terminal
<1>5. CASE q.rev > r.rev /\ q.status # "absent" /\ r.status \in Stored
  BY <1>1, <1>5 DEF Expects
<1> QED BY <1>2, <1>3, <1>4, <1>5 DEF TurnsOrAppears, Turn, Claims, Advances, GoesBack,
   Resolves, Appears, Taken, Stored, Active, Terminal

\* A turn names no run anew.
LEMMA RunKept ==
  ASSUME NEW r \in Row, NEW q \in Row, TurnsOrAppears(r, q),
         r.status \in {"absent", "deleted", "queued", "starting"} => r.run = NoRun
  PROVE  /\ q.status \in {"absent", "deleted", "queued", "starting"} => q.run = NoRun
         /\ q.run # NoRun => q.run = r.run /\ q.attempt = r.attempt
BY DEF TurnsOrAppears, Turn, Claims, Advances, GoesBack, Resolves, Appears, Vanishes,
   Blank, Taken, Active, Terminal

\* Rows that turn and tasks that keep leave the two in agreement.
LEMMA NamedKept ==
  ASSUME NEW L \in Ledger, NEW M \in Ledger,
         NEW T \in [Runs -> SafeTask], NEW U \in [Runs -> SafeTask], Named(L, T),
         \A i \in RowIds : TurnsOrAppears(L[i], M[i]),
         \A k \in Runs : TaskKeeps(T[k], U[k], M)
  PROVE  Named(M, U)
<1>1. /\ \A i \in RowIds : L[i] \in Row /\ M[i] \in Row
      /\ \A k \in Runs : T[k] \in Task /\ U[k] \in Task /\ U[k] \in SafeTask /\ k # NoRun
  BY LedgerAssumption DEF Ledger, SafeTask, Runs, NoRun
<1>2. \A i \in RowIds :
        /\ M[i].status \in {"absent", "deleted", "queued", "starting"} => M[i].run = NoRun
        /\ M[i].run # NoRun => M[i].run = L[i].run /\ M[i].attempt = L[i].attempt
  BY <1>1, RunKept DEF Named, RunOnlyWhenTaken
<1>3. RunOnlyWhenTaken(M)
  BY <1>2 DEF RunOnlyWhenTaken
<1>4. NamesTask(M, U)
  <2> SUFFICES ASSUME NEW i \in RowIds, NEW k \in Runs, M[i].run = k
               PROVE  /\ U[k].row = i /\ U[k].pc \notin Early
                      /\ U[k].pc # "done" => U[k].attempt = M[i].attempt
    BY DEF NamesTask
  <2>1. L[i].run = k /\ M[i].attempt = L[i].attempt
    BY <1>1, <1>2
  <2>2. /\ T[k].row = i /\ T[k].pc \notin Early
        /\ T[k].pc # "done" => T[k].attempt = L[i].attempt
    BY <2>1 DEF Named, NamesTask
  <2>3. TaskKeeps(T[k], U[k], M)
    OBVIOUS
  <2> QED BY <2>1, <2>2, <2>3 DEF TaskKeeps, Early
<1>5. Loaded(M, U)
  <2> SUFFICES ASSUME NEW k \in Runs, U[k].pc \in {"register", "prepare"}
               PROVE  Expects(U[k], M[U[k].row])
    BY DEF Loaded
  <2>1. U[k].row \in RowIds
    BY <1>1 DEF SafeTask
  <2>2. TaskKeeps(T[k], U[k], M)
    OBVIOUS
  <2>3. CASE M[U[k].row].status = "starting" /\ U[k].rev = M[U[k].row].rev
             /\ U[k].attempt = M[U[k].row].attempt
    BY <1>1, <2>1, <2>3 DEF Expects, Row
  <2>4. CASE /\ T[k].pc \in {"register", "prepare"}
             /\ U[k].row = T[k].row /\ U[k].rev = T[k].rev /\ U[k].attempt = T[k].attempt
    <3>1. Expects(T[k], L[U[k].row])
      BY <2>4 DEF Named, Loaded
    <3>2. Expects(T[k], M[U[k].row])
      BY <1>1, <2>1, <3>1, ExpectsKept
    <3> QED BY <2>4, <3>2 DEF Expects
  <2> QED BY <2>2, <2>3, <2>4 DEF TaskKeeps, Early
<1> QED BY <1>3, <1>4, <1>5 DEF Named

\* dispatch_queued_entry takes a free run, or none.
LEMMA LaunchTakesFree ==
  ASSUME NEW T \in [Runs -> SafeTask], NEW L \in Ledger,
         NEW i \in RowIds \cup {NoRow}, i = NoRow \/ HasFreeRun(T)
  PROVE  /\ \A k \in Runs :
              \/ Launch(T, L, i)[k] = T[k]
              \/ /\ T[k].pc = "free" /\ i # NoRow
                 /\ Launch(T, L, i)[k].pc = "load" /\ Launch(T, L, i)[k].row = i
                 /\ Launch(T, L, i)[k].entry = L[i].rev
         /\ i # NoRow => /\ FreeRun(T) \in Runs /\ T[FreeRun(T)].pc = "free"
                         /\ Launch(T, L, i)[FreeRun(T)].pc = "load"
                         /\ Launch(T, L, i)[FreeRun(T)].row = i
                         /\ Launch(T, L, i)[FreeRun(T)].entry = L[i].rev
<1>1. CASE i = NoRow
  BY <1>1 DEF Launch
<1>2. CASE i # NoRow
  <2> DEFINE n == L[i].rev
             t == [IdleTask EXCEPT !.pc = "load", !.row = i, !.entry = n]
             f == FreeRun(T)
  <2>1. f \in Runs /\ T[f].pc = "free"
    BY <1>2 DEF HasFreeRun, FreeRun, IsFreeRun
  <2>2. Launch(T, L, i) = [T EXCEPT ![f] = t]
    BY <1>2 DEF Launch
  <2>3. t.pc = "load" /\ t.row = i /\ t.entry = n
    <3> HIDE DEF n
    <3> QED BY DEF IdleTask
  <2> HIDE DEF t, f
  <2>4. /\ Launch(T, L, i)[f] = t
        /\ \A k \in Runs : k # f => Launch(T, L, i)[k] = T[k]
    BY <2>1, <2>2
  <2> QED BY <1>2, <2>1, <2>3, <2>4 DEF f
<1> QED BY <1>1, <1>2

-------------------------------------------------------------------------------
(* What the actions that dispatch do to rows and tasks.                      *)

\* Delivery d, which is starting, is handed to a free run other than k; no
\* other task but k's changes.
HandsOut(T, U, M, d, k) ==
  /\ \A j \in Runs \ {k} :
       \/ U[j] = T[j]
       \/ /\ d # NoRow /\ T[j].pc = "free" /\ U[j].pc = "load"
          /\ U[j].row = d /\ U[j].entry = M[d].rev
  /\ d # NoRow =>
       /\ M[d].status = "starting"
       /\ \E j \in Runs \ {k} : /\ T[j].pc = "free" /\ U[j].pc = "load"
                               /\ U[j].row = d /\ U[j].entry = M[d].rev

\* A launch hands out, whatever run k that was not free does.
LEMMA LaunchHandsOut ==
  ASSUME NEW T \in [Runs -> SafeTask], NEW U, NEW E \in [Runs -> SafeTask], NEW M \in Ledger,
         NEW d \in RowIds \cup {NoRow}, d = NoRow \/ HasFreeRun(E),
         U = Launch(E, M, d), d # NoRow => M[d].status = "starting",
         NEW k, k \in Runs => E[k].pc # "free",
         \A j \in Runs : j # k => E[j] = T[j]
  PROVE  HandsOut(T, U, M, d, k) /\ (k \in Runs => U[k] = E[k])
<1>1. /\ \A j \in Runs : \/ U[j] = E[j]
                         \/ /\ d # NoRow /\ E[j].pc = "free" /\ U[j].pc = "load"
                            /\ U[j].row = d /\ U[j].entry = M[d].rev
      /\ d # NoRow => /\ FreeRun(E) \in Runs /\ E[FreeRun(E)].pc = "free"
                      /\ U[FreeRun(E)].pc = "load" /\ U[FreeRun(E)].row = d
                      /\ U[FreeRun(E)].entry = M[d].rev
  BY LaunchTakesFree
<1>2. d # NoRow => FreeRun(E) \in Runs \ {k}
  BY <1>1
<1> QED BY <1>1, <1>2 DEF HandsOut

\* dispatch_next_queued_message
LEMMA WakeSummary ==
  ASSUME IInv, NEW m \in Members, Wake(m)
  PROVE  LET d == NextClaim(rows[m]) IN
         /\ rows'[m] = ClaimNext(rows[m])
         /\ HandsOut(task[m], task'[m], rows'[m], d, NoRun)
         /\ \A x \in Members : x # m => rows'[x] = rows[x] /\ task'[x] = task[x]
         /\ member' = member
<1> DEFINE d == NextClaim(rows[m])
           M == ClaimNext(rows[m])
<1>1. task \in Tasks /\ task[m] \in [Runs -> SafeTask] /\ rows[m] \in Ledger /\ Sound(rows[m])
  BY DEF IInv, Bookkeeping, Ledgers, Tasks
<1>2. M \in Ledger
  BY <1>1, ClaimNextSound DEF Sound
<1>3. d \in RowIds \cup {NoRow} /\ (d = NoRow \/ HasFreeRun(task[m]))
  BY NextClaimChosen DEF Wake
<1>4. d # NoRow => M[d].status = "starting"
  BY <1>1, <1>3, ClaimNextClaims DEF Claims
<1>5. /\ rows'[m] = M /\ task'[m] = Launch(task[m], M, d) /\ member' = member
      /\ \A x \in Members : x # m => rows'[x] = rows[x] /\ task'[x] = task[x]
  BY <1>1 DEF Wake, SetRows, IInv, Ledgers, Tasks
<1>6. NoRun \notin Runs
  BY LedgerAssumption DEF Runs, NoRun
<1>7. HandsOut(task[m], task'[m], M, d, NoRun)
  <2> HIDE DEF M, d
  <2> QED BY <1>1, <1>2, <1>3, <1>4, <1>5, <1>6, LaunchHandsOut
<1> QED BY <1>5, <1>7

\* persist_delivery_bundle_rows, for one target
LEMMA BundleSummary ==
  ASSUME IInv, NEW n \in Messages, NEW targets \in SUBSET Members,
         PersistBundle(n, targets), NEW m \in Members
  PROVE  \/ rows'[m] = rows[m] /\ task'[m] = task[m]
         \/ \E d \in RowIds \cup {NoRow} :
              /\ HandsOut(task[m], task'[m], rows'[m], d, NoRun)
              /\ \A i \in RowIds :
                   \/ rows'[m][i] = rows[m][i]
                   \/ /\ Claims(rows[m][i], rows'[m][i]) \/ Appears(rows[m][i], rows'[m][i], n)
                      /\ rows'[m][i].status = "starting" => i = d
<1>1. CASE m \notin targets
  BY <1>1 DEF PersistBundle
<1>2. CASE m \in targets
  <2> DEFINE N == Enqueue(rows[m], n)
             M == Bundle(rows[m], n)
             d == ToDispatch(rows[m], n)
             Unbound == {j \in RowIds : /\ N[j].status = "starting"
                                        /\ N[j].msg = n /\ N[j].run = NoRun}
  <2>1. task[m] \in [Runs -> SafeTask] /\ rows[m] \in Ledger /\ Sound(rows[m])
    BY DEF IInv, Bookkeeping, Ledgers, Tasks
  <2>2. HasRowFor(rows[m], n) \/ HasRoom(rows[m])
    BY <1>2 DEF PersistBundle, CanBundle
  <2>3. /\ N \in Ledger /\ Sound(N)
        /\ \A i \in RowIds : \/ N[i] = rows[m][i]
                             \/ Appears(rows[m][i], N[i], n) /\ N[i].status = "queued"
    BY <2>1, <2>2, EnqueueTurns, EnqueueSound
  <2>4. M = ClaimNext(N)
    BY DEF Bundle
  <2>5. M \in Ledger
    <3>1. Sound(ClaimNext(N))
      BY <2>3, ClaimNextSound
    <3> QED BY <2>4, <3>1 DEF Sound
  <2>6. \/ d = NextClaim(N) /\ NextClaim(N) # NoRow
        \/ NextClaim(N) = NoRow /\ d = (CHOOSE j \in Unbound : TRUE) /\ Unbound # {}
        \/ NextClaim(N) = NoRow /\ d = NoRow
    <3> HIDE DEF N
    <3> QED BY DEF ToDispatch, N
  <2> HIDE DEF N, M, d
  <2>7. \A i \in RowIds : IF i = NextClaim(N) THEN Claims(N[i], M[i]) ELSE M[i] = N[i]
    BY <2>3, <2>4, ClaimNextClaims
  <2>8. NextClaim(N) \in RowIds \cup {NoRow}
    BY NextClaimChosen
  <2>9. /\ d \in RowIds \cup {NoRow}
        /\ d # NoRow => M[d].status = "starting"
        /\ NextClaim(N) # NoRow => d = NextClaim(N)
    <3>1. Unbound # {} => (CHOOSE j \in Unbound : TRUE) \in Unbound
      OBVIOUS
    <3>2. CASE d = NextClaim(N) /\ NextClaim(N) # NoRow
      BY <2>7, <2>8, <3>2 DEF Claims
    <3>3. CASE NextClaim(N) = NoRow /\ d = (CHOOSE j \in Unbound : TRUE) /\ Unbound # {}
      <4>1. d \in RowIds /\ N[d].status = "starting"
        BY <3>1, <3>3
      <4> QED BY <2>7, <3>3, <4>1, RowIdsPositive
    <3> QED BY <2>6, <3>2, <3>3
  <2>10. d = NoRow \/ HasFreeRun(task[m])
    BY <1>2 DEF PersistBundle, CanBundle, d
  <2>11. rows'[m] = M /\ task'[m] = Launch(task[m], M, d)
    BY <1>2 DEF PersistBundle, M, d
  <2>12. NoRun \notin Runs
    BY LedgerAssumption DEF Runs, NoRun
  <2>13. HandsOut(task[m], task'[m], M, d, NoRun)
    BY <2>1, <2>5, <2>9, <2>10, <2>11, <2>12, LaunchHandsOut
  <2>14. ASSUME NEW i \in RowIds
         PROVE  \/ M[i] = rows[m][i]
                \/ /\ Claims(rows[m][i], M[i]) \/ Appears(rows[m][i], M[i], n)
                   /\ M[i].status = "starting" => i = d
    <3>1. CASE i = NextClaim(N)
      BY <2>3, <2>7, <2>9, <3>1, RowIdsPositive DEF Claims, Appears
    <3>2. CASE i # NextClaim(N)
      BY <2>3, <2>7, <3>2
    <3> QED BY <3>1, <3>2
  <2> QED BY <2>9, <2>11, <2>13, <2>14
<1> QED BY <1>1, <1>2

\* Only member m's rows, tasks and member row change.
OnlyAt(m) == \A x \in Members : x # m =>
  rows'[x] = rows[x] /\ task'[x] = task[x] /\ member'[x] = member[x]

\* A task that has ended keeps its delivery.
LEMMA FinishedFields ==
  ASSUME NEW t \in Task
  PROVE  Finished(t).pc = "done" /\ Finished(t).row = t.row
BY DEF Finished, IdleTask

\* The delivery of run k of member m ends, and delivery d is handed out.
EndsDelivery(m, k, i, d) ==
  /\ i \in BoundTo(rows[m], k) /\ rows[m][i].status \in Active
  /\ Advances(rows[m][i], rows'[m][i]) /\ rows'[m][i].status \in Terminal
  /\ \A j \in RowIds : j # i =>
       \/ rows'[m][j] = rows[m][j]
       \/ j = d /\ Claims(rows[m][j], rows'[m][j])
  /\ HandsOut(task[m], task'[m], rows'[m], d, k)

\* The stream bridge finds that there is nothing to finalize, or ends the
\* delivery of its run and hands out the next one.
LEMMA CommitSummary ==
  ASSUME IInv, NEW m \in Members, NEW k \in Runs, Commit(m, k)
  PROVE  LET t == task[m][k]
             u == task'[m][k]
         IN
         /\ t.pc = "commit" /\ OnlyAt(m)
         /\ u.pc \in {"done", "retry"} /\ u.row = t.row
         /\ u.pc = "retry" => u.attempt = t.attempt
         /\ \/ /\ {i \in BoundTo(rows[m], k) : Matches(rows[m], i, t.rev, Active)} = {}
               /\ rows'[m] = rows[m] /\ member'[m] = member[m] /\ u.pc = "done"
               /\ HandsOut(task[m], task'[m], rows'[m], NoRow, k)
            \/ /\ member'[m] \in {"idle", "dead"}
               /\ \E i \in RowIds, d \in RowIds \cup {NoRow} : EndsDelivery(m, k, i, d)
<1> DEFINE t     == task[m][k]
           L     == rows[m]
           Mine  == {i \in BoundTo(L, k) : Matches(L, i, t.rev, Active)}
           i     == CHOOSE i \in Mine : TRUE
           done  == SetStatus(L, i, "completed")
           next  == IF t.outcome = "retry" THEN NoRow ELSE NextClaim(done)
           after == IF t.outcome = "retry" THEN done ELSE ClaimNext(done)
           last  == IF t.outcome = "retry" THEN [t EXCEPT !.pc = "retry", !.rev = 0]
                                           ELSE Finished(t)
           ended == [task[m] EXCEPT ![k] = last]
<1>1. /\ t \in SafeTask /\ t \in Task /\ task[m] \in [Runs -> SafeTask]
      /\ L \in Ledger /\ Sound(L) /\ t.pc = "commit" /\ Finished(t) \in SafeTask
  BY TaskIsSafe, FinishedSafe DEF IInv, Bookkeeping, Ledgers, Tasks, Commit
<1>2. /\ last \in SafeTask /\ last.pc \in {"done", "retry"} /\ last.row = t.row
      /\ last.pc = "retry" => last.attempt = t.attempt
  <2>1. CASE t.outcome = "retry"
    BY <1>1, <2>1 DEF SafeTask, Task, TaskStep
  <2>2. CASE t.outcome # "retry"
    BY <1>1, <2>2, FinishedFields
  <2> QED BY <2>1, <2>2
<1>3. ASSUME NEW T, task' = [task EXCEPT ![m] = T]
      PROVE  task'[m] = T /\ \A x \in Members : x # m => task'[x] = task[x]
  BY <1>3 DEF IInv, Bookkeeping, Tasks
<1>4. ASSUME NEW M, SetRows(m, M)
      PROVE  rows'[m] = M /\ \A x \in Members : x # m => rows'[x] = rows[x]
  BY <1>4 DEF IInv, Ledgers, SetRows
<1>5. ASSUME NEW s, member' = [member EXCEPT ![m] = s]
      PROVE  member'[m] = s /\ \A x \in Members : x # m => member'[x] = member[x]
  BY <1>5 DEF IInv, Bookkeeping
<1>6. ASSUME SetTask(m, k, Finished(t))
      PROVE  /\ task'[m][k] = Finished(t) /\ \A x \in Members : x # m => task'[x] = task[x]
             /\ \A M : HandsOut(task[m], task'[m], M, NoRow, k)
  BY <1>1, <1>6 DEF SetTask, HandsOut, IInv, Bookkeeping, Tasks
<1>7. Finished(t).pc = "done" /\ Finished(t).row = t.row
  BY <1>1, FinishedFields
<1>8. CASE Mine = {} /\ SetTask(m, k, Finished(t)) /\ UNCHANGED <<rows, member>>
  BY <1>1, <1>6, <1>7, <1>8 DEF OnlyAt
<1>9. CASE Mine # {}
  <2>1. i \in RowIds /\ i \in BoundTo(L, k) /\ L[i].status \in Active
    BY <1>9 DEF Matches
  <2> HIDE DEF i
  <2>2. ASSUME NEW status \in Terminal
        PROVE  LET M == SetStatus(L, i, status) IN
               /\ M \in Ledger /\ Sound(M) /\ Advances(L[i], M[i]) /\ M[i].status = status
               /\ \A j \in RowIds : j # i => M[j] = L[j]
    <3>1. status \in Taken \ {"starting"} /\ status \in Taken
      BY DEF Taken, Terminal
    <3>2. Sound(SetStatus(L, i, status))
      BY <1>1, <2>1, <3>1, SetStatusSound
    <3> QED BY <1>1, <2>1, <3>1, <3>2, SetStatusTurns
  <2>3. CASE /\ SetRows(m, FailOrSkip(L, i)) /\ member' = [member EXCEPT ![m] = "dead"]
             /\ SetTask(m, k, Finished(t))
    <3>1. FailureStatus(L) \in Terminal /\ FailOrSkip(L, i) = SetStatus(L, i, FailureStatus(L))
      BY DEF FailureStatus, Terminal, FailOrSkip
    <3>2. /\ Advances(L[i], rows'[m][i]) /\ rows'[m][i].status \in Terminal
          /\ \A j \in RowIds : j # i => rows'[m][j] = L[j]
      BY <1>4, <2>2, <2>3, <3>1
    <3>3. OnlyAt(m) /\ member'[m] \in {"idle", "dead"}
      BY <1>4, <1>5, <1>6, <2>3 DEF OnlyAt
    <3>4. EndsDelivery(m, k, i, NoRow)
      <4>1. \A M : HandsOut(task[m], task'[m], M, NoRow, k)
        BY <1>6, <2>3
      <4>2. HandsOut(task[m], task'[m], rows'[m], NoRow, k)
        BY <4>1
      <4> QED BY <2>1, <3>2, <4>2 DEF EndsDelivery
    <3> QED BY <1>1, <1>6, <1>7, <2>1, <2>3, <3>3, <3>4
  <2>4. CASE /\ SetRows(m, after) /\ member' = [member EXCEPT ![m] = "idle"]
             /\ task' = [task EXCEPT ![m] = Launch(ended, after, next)]
             /\ next = NoRow \/ HasFreeRun(task[m])
    <3>1. /\ done \in Ledger /\ Sound(done) /\ Advances(L[i], done[i])
          /\ done[i].status = "completed" /\ \A j \in RowIds : j # i => done[j] = L[j]
      BY <2>2 DEF Terminal
    <3>2. /\ next \in RowIds \cup {NoRow} /\ after \in Ledger
          /\ \A j \in RowIds : IF j = next THEN Claims(done[j], after[j])
                                            ELSE after[j] = done[j]
      <4> HIDE DEF done
      <4>1. CASE t.outcome = "retry"
        BY <3>1, <4>1, RowIdsPositive
      <4>2. CASE t.outcome # "retry"
        <5>1. ClaimNext(done) \in Ledger
          BY <3>1, ClaimNextSound DEF Sound
        <5> QED BY <3>1, <4>2, <5>1, NextClaimChosen, ClaimNextClaims
      <4> QED BY <4>1, <4>2
    <3>3. ended \in [Runs -> SafeTask] /\ ended[k] = last
          /\ \A j \in Runs : j # k => ended[j] = task[m][j]
      <4> HIDE DEF last
      <4> QED BY <1>1, <1>2
    <3>4. HasFreeRun(task[m]) => HasFreeRun(ended)
      <4>1. ASSUME NEW j \in Runs, IsFreeRun(task[m], j)
            PROVE  IsFreeRun(ended, j)
        <5>1. j # k /\ t.pc # "free"
          BY <1>1, <4>1 DEF IsFreeRun
        <5> HIDE DEF ended, last
        <5> QED BY <1>2, <3>3, <4>1, <5>1 DEF IsFreeRun
      <4> QED BY <4>1 DEF HasFreeRun
    <3>5. /\ task'[m] = Launch(ended, after, next) /\ rows'[m] = after
          /\ member'[m] = "idle" /\ OnlyAt(m)
      BY <1>3, <1>4, <1>5, <2>4 DEF OnlyAt
    <3>6. next # NoRow => after[next].status = "starting"
      BY <3>2 DEF Claims
    <3>7. next = NoRow \/ HasFreeRun(ended)
      BY <2>4, <3>4
    <3> HIDE DEF done, next, after, last, ended
    <3>8. HandsOut(task[m], task'[m], after, next, k) /\ task'[m][k] = last
      <4>1. next \in RowIds \cup {NoRow} /\ after \in Ledger
        BY <3>2
      <4>2. k \in Runs => ended[k].pc # "free"
        BY <1>2, <3>3
      <4> QED BY <1>1, <3>3, <3>5, <3>6, <3>7, <4>1, <4>2, LaunchHandsOut
    <3>9. next # i /\ after[i] = done[i]
      <4>1. ~Claims(done[i], after[i])
        BY <3>1 DEF Claims
      <4> QED BY <2>1, <3>2, <4>1
    <3>10. ASSUME NEW j \in RowIds, j # i
           PROVE  after[j] = L[j] \/ (j = next /\ Claims(L[j], after[j]))
      <4>1. done[j] = L[j]
        BY <3>1, <3>10
      <4>2. IF j = next THEN Claims(done[j], after[j]) ELSE after[j] = done[j]
        BY <3>2
      <4> QED BY <4>1, <4>2
    <3>11. Advances(L[i], after[i]) /\ after[i].status \in Terminal
      BY <3>1, <3>9 DEF Terminal
    <3>12. EndsDelivery(m, k, i, next)
      BY <2>1, <3>5, <3>8, <3>10, <3>11 DEF EndsDelivery
    <3> QED BY <1>1, <1>2, <2>1, <3>2, <3>5, <3>8, <3>12
  <2>5. \/ /\ SetRows(m, FailOrSkip(L, i)) /\ member' = [member EXCEPT ![m] = "dead"]
           /\ SetTask(m, k, Finished(t))
        \/ /\ SetRows(m, after) /\ member' = [member EXCEPT ![m] = "idle"]
           /\ task' = [task EXCEPT ![m] = Launch(ended, after, next)]
           /\ next = NoRow \/ HasFreeRun(task[m])
    BY <1>9 DEF Commit, i
  <2> HIDE DEF L, t, after, next, ended, Mine
  <2> QED BY <2>3, <2>4, <2>5
<1>10. CASE Mine = {} /\ ~UNCHANGED <<rows, member>>
  BY <1>10 DEF Commit
<1> QED BY <1>8, <1>9, <1>10 DEF Commit

\* A step that rewrites one task rewrites no other.
LEMMA OneTaskSet ==
  ASSUME task \in Tasks, NEW m \in Members, NEW k \in Runs, NEW u, SetTask(m, k, u)
  PROVE  /\ task'[m][k] = u
         /\ \A j \in Runs : j # k => task'[m][j] = task[m][j]
         /\ \A x \in Members : x # m => task'[x] = task[x]
BY DEF SetTask, Tasks

\* What the error path leaves of a task.
LEMMA AfterFailureFields ==
  ASSUME NEW t \in Task
  PROVE  /\ AfterFailure(t).row = t.row
         /\ t.entry > 0 => /\ AfterFailure(t).pc = "skip"
                           /\ AfterFailure(t).entry = t.entry
                           /\ AfterFailure(t).attempt = t.attempt
         /\ ~(t.entry > 0) => AfterFailure(t).pc = "done"
<1>1. CASE t.entry > 0
  BY <1>1 DEF AfterFailure, Task
<1>2. CASE ~(t.entry > 0)
  BY <1>2, FinishedFields DEF AfterFailure
<1> QED BY <1>1, <1>2

\* The steps of a task that stay within it, binding apart.
LEMMA OwnStepKeeps ==
  ASSUME IInv, NEW m \in Members, NEW k \in Runs, OwnTaskStep(m, k), ~Bind(m, k)
  PROVE  /\ TaskKeeps(task[m][k], task'[m][k], rows'[m])
         /\ \A j \in Runs : j # k => task'[m][j] = task[m][j]
         /\ \A x \in Members : x # m => task'[x] = task[x]
<1> DEFINE t == task[m][k]
           r == TheRow(m, k)
           Keeps == /\ TaskKeeps(t, task'[m][k], rows'[m])
                    /\ \A j \in Runs : j # k => task'[m][j] = task[m][j]
                    /\ \A x \in Members : x # m => task'[x] = task[x]
<1>1. t \in SafeTask /\ t \in Task /\ task \in Tasks
  BY TaskIsSafe DEF IInv, Bookkeeping
<1>2. ASSUME NEW u, SetTask(m, k, u), TaskKeeps(t, u, rows'[m])
      PROVE  Keeps
  BY <1>1, <1>2, OneTaskSet
<1> SUFFICES Keeps
  OBVIOUS
<1> HIDE DEF Keeps
<1>3. CASE Load(m, k)
  <2>1. t.pc = "load" /\ rows' = rows
    BY <1>3 DEF Load, TaskOnly
  <2>2. CASE r.status = "starting"
    <3> DEFINE u == [t EXCEPT !.pc = "register", !.rev = r.rev, !.attempt = r.attempt]
    <3>1. SetTask(m, k, u)
      BY <1>3, <2>2 DEF Load
    <3>2. /\ u.pc = "register" /\ u.row = t.row
          /\ u.rev = r.rev /\ u.attempt = r.attempt
      <4> HIDE DEF r
      <4> QED BY <1>1 DEF Task
    <3> HIDE DEF u
    <3>3. TaskKeeps(t, u, rows'[m])
      BY <2>1, <2>2, <3>2 DEF TaskKeeps, TheRow, Early
    <3> QED BY <1>2, <3>1, <3>3
  <2>3. CASE r.status # "starting"
    <3> DEFINE u == [t EXCEPT !.pc = "skip"]
    <3>1. SetTask(m, k, u) /\ u.pc = "skip"
      BY <1>1, <1>3, <2>3 DEF Load, Task
    <3> HIDE DEF u
    <3> QED BY <1>2, <2>1, <3>1 DEF TaskKeeps, Early
  <2> QED BY <2>2, <2>3
<1>4. CASE LoadFault(m, k)
  <2> DEFINE u == [t EXCEPT !.pc = "skip"]
  <2>1. SetTask(m, k, u) /\ u.pc = "skip" /\ t.pc = "load"
    BY <1>1, <1>4 DEF LoadFault, Task
  <2> HIDE DEF u
  <2> QED BY <1>2, <2>1 DEF TaskKeeps, Early
<1>5. CASE Register(m, k)
  <2> DEFINE u == [t EXCEPT !.pc = "prepare"]
  <2>1. /\ SetTask(m, k, u) /\ t.pc = "register"
        /\ u.pc = "prepare" /\ u.row = t.row /\ u.rev = t.rev /\ u.attempt = t.attempt
    BY <1>1, <1>5 DEF Register, Task
  <2> HIDE DEF u
  <2> QED BY <1>2, <2>1 DEF TaskKeeps
<1>6. CASE PrepareFault(m, k)
  <2> DEFINE u == [t EXCEPT !.pc = "drop", !.outcome = "failed"]
  <2>1. SetTask(m, k, u) /\ u.pc = "drop" /\ t.pc = "prepare"
    BY <1>1, <1>6 DEF PrepareFault, Task
  <2> HIDE DEF u
  <2> QED BY <1>2, <2>1 DEF TaskKeeps, Early
<1>7. ASSUME NEW u, SetTask(m, k, u), u.row = t.row, t.pc \notin Early, u.pc \notin Early,
             u.pc # "done" => t.pc # "done" /\ u.attempt = t.attempt
      PROVE  Keeps
  BY <1>2, <1>7 DEF TaskKeeps
<1>8. CASE Start(m, k) \/ StartStopped(m, k) \/ StartFault(m, k) \/ ExecutorOf(m, k)
           \/ DropControl(m, k) \/ Skip(m, k)
  <2> DEFINE up          == [t EXCEPT !.pc = "execute", !.watched = TRUE]
             dropped(o)  == [t EXCEPT !.pc = "drop", !.outcome = o]
             ended(o)    == [t EXCEPT !.pc = "finalize", !.outcome = o]
             failing     == [t EXCEPT !.pc = "fail"]
             marked(s)   == [t EXCEPT !.pc = "mark", !.next = s]
  <2>1. t.pc \in {"start", "execute", "drop", "skip"}
    <3>1. CASE ExecutorOf(m, k)
      BY <3>1 DEF ExecutorOf, Exit
    <3> QED BY <1>8, <3>1 DEF Start, StartStopped, StartFault, DropControl, Skip
  <2>2. \/ SetTask(m, k, up) \/ SetTask(m, k, failing)
        \/ SetTask(m, k, dropped("stopped")) \/ SetTask(m, k, dropped("failed"))
        \/ \E o \in Outcome : SetTask(m, k, ended(o))
        \/ SetTask(m, k, marked(FailureStatus(rows[m])))
    <3>1. CASE ExecutorOf(m, k)
      <4>1. PICK o \in Outcome : Exit(m, k, o)
        BY <3>1 DEF ExecutorOf
      <4>2. SetTask(m, k, ended(o))
        BY <4>1 DEF Exit
      <4> HIDE DEF up, dropped, ended, failing, marked
      <4> QED BY <4>2
    <3>2. Start(m, k) => SetTask(m, k, up)
      BY DEF Start
    <3>3. StartStopped(m, k) => SetTask(m, k, dropped("stopped"))
      BY DEF StartStopped
    <3>4. StartFault(m, k) => SetTask(m, k, dropped("failed"))
      BY DEF StartFault
    <3>5. DropControl(m, k) => SetTask(m, k, failing)
      BY DEF DropControl
    <3>6. Skip(m, k) => SetTask(m, k, marked(FailureStatus(rows[m])))
      BY DEF Skip
    <3> HIDE DEF up, dropped, ended, failing, marked
    <3> QED BY <1>8, <3>1, <3>2, <3>3, <3>4, <3>5, <3>6
  <2>3. ASSUME NEW u, SetTask(m, k, u), u.row = t.row, u.attempt = t.attempt,
               u.pc \in {"execute", "drop", "finalize", "fail", "mark"}
        PROVE  Keeps
    BY <1>7, <2>1, <2>3 DEF Early
  <2>4. /\ up.row = t.row /\ up.attempt = t.attempt /\ up.pc = "execute"
        /\ failing.row = t.row /\ failing.attempt = t.attempt /\ failing.pc = "fail"
        /\ \A o : /\ dropped(o).row = t.row /\ dropped(o).attempt = t.attempt
                  /\ dropped(o).pc = "drop"
                  /\ ended(o).row = t.row /\ ended(o).attempt = t.attempt
                  /\ ended(o).pc = "finalize"
                  /\ marked(o).row = t.row /\ marked(o).attempt = t.attempt
                  /\ marked(o).pc = "mark"
    BY <1>1 DEF Task
  <2> HIDE DEF up, dropped, ended, failing, marked
  <2> QED BY <2>2, <2>3, <2>4
<1>9. CASE Finalize(m, k)
  <2>1. t.pc = "finalize"
    BY <1>9 DEF Finalize
  <2>2. CASE SetTask(m, k, Finished(t))
    BY <1>1, <1>7, <2>1, <2>2, FinishedFields DEF Early
  <2>3. CASE BoundTo(rows[m], k) # {}
    <3> DEFINE i == CHOOSE i \in BoundTo(rows[m], k) : TRUE
               n == rows[m][i].rev
               u == [t EXCEPT !.pc = "commit", !.rev = n]
    <3>1. SetTask(m, k, u)
      BY <1>9, <2>3 DEF Finalize
    <3>2. u.pc = "commit" /\ u.row = t.row /\ u.attempt = t.attempt
      <4> HIDE DEF n
      <4> QED BY <1>1 DEF Task
    <3> HIDE DEF u
    <3> QED BY <1>7, <2>1, <3>1, <3>2 DEF Early
  <2> QED BY <1>9, <2>2, <2>3 DEF Finalize
<1>10. CASE Fail(m, k) \/ SettleBound(m, k) \/ SettleStarting(m, k) \/ Mark(m, k)
  <2>1. t.pc \in {"fail", "settle", "mark"}
    BY <1>10 DEF Fail, SettleBound, SettleStarting, Mark
  <2>2. CASE SetTask(m, k, Finished(t))
    BY <1>1, <1>7, <2>1, <2>2, FinishedFields DEF Early
  <2>3. CASE SetTask(m, k, AfterFailure(t))
    BY <1>1, <1>7, <2>1, <2>3, AfterFailureFields DEF Early
  <2>4. CASE Fail(m, k)
    <3> DEFINE n       == r.rev
               late(s) == [t EXCEPT !.pc = "settle", !.rev = n, !.next = s]
               ended   == AfterFailure(t)
    <3>1. \/ SetTask(m, k, late("running")) \/ SetTask(m, k, late("cancelled"))
          \/ SetTask(m, k, late(FailureStatus(rows[m]))) \/ SetTask(m, k, ended)
      BY <2>4 DEF Fail
    <3>2. \A s : late(s).pc = "settle" /\ late(s).row = t.row /\ late(s).attempt = t.attempt
      <4> HIDE DEF n
      <4> QED BY <1>1 DEF Task
    <3> HIDE DEF late
    <3> QED BY <1>7, <2>1, <2>3, <3>1, <3>2 DEF Early
  <2> QED BY <1>10, <2>2, <2>3, <2>4 DEF SettleBound, SettleStarting, Mark
<1>11. CASE ApprovalOf(m, k) \/ WatcherEnds(m, k)
  <2>1. \/ \E b : SetTask(m, k, [t EXCEPT !.asking = b])
        \/ SetTask(m, k, [t EXCEPT !.watched = FALSE])
    BY <1>11 DEF ApprovalOf, AskApproval, LeaveApproval, WatcherEnds
  <2>2. ASSUME NEW u, SetTask(m, k, u), u.row = t.row, u.attempt = t.attempt,
               u.pc = t.pc, u.rev = t.rev
        PROVE  Keeps
    BY <1>2, <2>2 DEF TaskKeeps
  <2>3. \A b : LET u == [t EXCEPT !.asking = b]
                   w == [t EXCEPT !.watched = b]
               IN  /\ u.row = t.row /\ u.attempt = t.attempt /\ u.pc = t.pc /\ u.rev = t.rev
                   /\ w.row = t.row /\ w.attempt = t.attempt /\ w.pc = t.pc /\ w.rev = t.rev
    BY <1>1 DEF Task
  <2> QED BY <2>1, <2>2, <2>3
<1> QED BY <1>3, <1>4, <1>5, <1>6, <1>8, <1>9, <1>10, <1>11 DEF OwnTaskStep

\* The protocol retry: a free run is to reclaim the delivery just created.
LEMMA RetrySummary ==
  ASSUME IInv, NEW m \in Members, NEW k \in Runs, Retry(m, k)
  PROVE  LET i == Fresh(rows[m]) IN
         /\ task[m][k].pc = "retry" /\ OnlyAt(m) /\ member'[m] = member[m]
         /\ rows'[m] = Enqueue(rows[m], sent + 1) /\ HasRoom(rows[m])
         /\ i \in RowIds /\ rows[m][i].status = "absent"
         /\ task'[m][k].pc = "done" /\ task'[m][k].row = task[m][k].row
         /\ \E f \in Runs \ {k} :
              /\ task[m][f].pc = "free"
              /\ task'[m][f].pc = "reclaim" /\ task'[m][f].row = i /\ task'[m][f].entry = 0
              /\ \A j \in Runs \ {k, f} : task'[m][j] = task[m][j]
<1> DEFINE t == task[m][k]
           i == Fresh(rows[m])
           f == FreeRun(task[m])
           u == [IdleTask EXCEPT !.pc = "reclaim", !.row = i]
           T == [task[m] EXCEPT ![k] = Finished(t), ![f] = u]
<1>1. /\ t \in Task /\ task \in Tasks /\ task[m] \in [Runs -> SafeTask]
      /\ t.pc = "retry" /\ Finished(t).pc = "done" /\ Finished(t).row = t.row
  BY TaskIsSafe, FinishedFields DEF IInv, Bookkeeping, Tasks, Retry
<1>2. i \in RowIds /\ rows[m][i].status = "absent"
  BY FreshChosen DEF Retry, IsFresh
<1>3. f \in Runs /\ task[m][f].pc = "free" /\ f # k
  <2>1. \E j \in Runs : IsFreeRun(task[m], j)
    BY DEF Retry, HasFreeRun
  <2>2. IsFreeRun(task[m], f) /\ f \in Runs
    BY <2>1 DEF FreeRun
  <2> QED BY <1>1, <2>2 DEF IsFreeRun
<1>4. u.pc = "reclaim" /\ u.row = i /\ u.entry = 0
  <2> HIDE DEF i
  <2> QED BY DEF IdleTask
<1>5. rows'[m] = Enqueue(rows[m], sent + 1) /\ member' = member
      /\ \A x \in Members : x # m => rows'[x] = rows[x]
  BY DEF Retry, SetRows, IInv, Ledgers
<1>6. task' = [task EXCEPT ![m] = T]
  BY DEF Retry
<1> HIDE DEF u, f
<1>7. /\ T[k] = Finished(t) /\ T[f] = u
      /\ \A j \in Runs \ {k, f} : T[j] = task[m][j]
  BY <1>1, <1>3
<1> HIDE DEF T
<1>8. task'[m] = T /\ \A x \in Members : x # m => task'[x] = task[x]
  BY <1>1, <1>6 DEF Tasks
<1> QED BY <1>1, <1>2, <1>3, <1>4, <1>5, <1>7, <1>8 DEF OnlyAt, Retry

\* Its claim: the retry, an older delivery, or nothing.
LEMMA ReclaimSummary ==
  ASSUME IInv, NEW m \in Members, NEW k \in Runs, Reclaim(m, k)
  PROVE  LET t == task[m][k]
             u == task'[m][k]
             d == NextClaim(rows[m])
         IN
         /\ t.pc = "reclaim" /\ OnlyAt(m) /\ member'[m] = member[m]
         /\ rows'[m] = ClaimNext(rows[m])
         /\ \A j \in Runs \ {k} : task'[m][j] = task[m][j]
         /\ \/ d = NoRow /\ u.pc = "done"
            \/ /\ d \in RowIds /\ rows'[m][d].status = "starting" /\ u.row = d
               /\ \/ /\ u.pc = "register" /\ t.row = d /\ u.entry = t.entry
                     /\ u.rev = rows'[m][d].rev /\ u.attempt = rows'[m][d].attempt
                  \/ u.pc = "load" /\ u.entry = rows'[m][d].rev
<1> DEFINE t == task[m][k]
           d == NextClaim(rows[m])
           L == ClaimNext(rows[m])
           n == L[d].rev
           a == L[d].attempt
           again == [t EXCEPT !.pc = "register", !.rev = n, !.attempt = a]
           other == [IdleTask EXCEPT !.pc = "load", !.row = d, !.entry = n]
<1>1. /\ t \in SafeTask /\ t \in Task /\ task \in Tasks /\ t.pc = "reclaim"
      /\ Finished(t).pc = "done" /\ t.row \in RowIds /\ rows[m] \in Ledger
  BY TaskIsSafe, FinishedFields DEF IInv, Bookkeeping, Ledgers, Tasks, Reclaim, SafeTask
<1>2. rows'[m] = L /\ member' = member
      /\ \A x \in Members : x # m => rows'[x] = rows[x]
  BY DEF Reclaim, SetRows, IInv, Ledgers
<1>3. d = NoRow \/ (d \in RowIds /\ L[d].status = "starting")
  BY <1>1, NextClaimChosen, ClaimNextClaims DEF Claims
<1>4. /\ again.pc = "register" /\ again.row = t.row /\ again.entry = t.entry
      /\ again.rev = n /\ again.attempt = a
      /\ other.pc = "load" /\ other.row = d /\ other.entry = n
  <2> HIDE DEF n, a, d
  <2> QED BY <1>1 DEF Task, IdleTask
<1>5. CASE d = NoRow
  <2>1. t.row # d
    BY <1>1, <1>5, RowIdsPositive
  <2>2. SetTask(m, k, Finished(t))
    BY <1>5, <2>1 DEF Reclaim
  <2> QED BY <1>1, <1>2, <1>5, <2>2, OneTaskSet DEF OnlyAt
<1>6. CASE d # NoRow /\ d = t.row
  <2>1. SetTask(m, k, again)
    BY <1>6 DEF Reclaim
  <2> HIDE DEF again, other, L
  <2>2. /\ task'[m][k] = again /\ \A j \in Runs : j # k => task'[m][j] = task[m][j]
        /\ \A x \in Members : x # m => task'[x] = task[x]
    BY <1>1, <2>1, OneTaskSet
  <2>3. OnlyAt(m)
    BY <1>2, <2>2 DEF OnlyAt
  <2> QED BY <1>1, <1>2, <1>3, <1>4, <1>6, <2>2, <2>3 DEF L
<1>7. CASE d # NoRow /\ d # t.row
  <2>1. SetTask(m, k, other)
    BY <1>7 DEF Reclaim
  <2> HIDE DEF again, other, L
  <2>2. /\ task'[m][k] = other /\ \A j \in Runs : j # k => task'[m][j] = task[m][j]
        /\ \A x \in Members : x # m => task'[x] = task[x]
    BY <1>1, <2>1, OneTaskSet
  <2>3. OnlyAt(m)
    BY <1>2, <2>2 DEF OnlyAt
  <2> QED BY <1>1, <1>2, <1>3, <1>4, <1>7, <2>2, <2>3 DEF L
<1> QED BY <1>5, <1>6, <1>7

-------------------------------------------------------------------------------
(* Runs are named right.                                                     *)

\* A task that is left alone keeps.
LEMMA SameKeeps ==
  ASSUME NEW t, NEW M
  PROVE  TaskKeeps(t, t, M)
BY DEF TaskKeeps

\* Handing a delivery out keeps every task but that of the run that ends.
LEMMA HandsOutKeeps ==
  ASSUME NEW T, NEW U, NEW M, NEW d, NEW k, HandsOut(T, U, M, d, k), NEW j \in Runs \ {k}
  PROVE  TaskKeeps(T[j], U[j], M)
BY DEF HandsOut, TaskKeeps, Early

\* A crash ends every task.
LEMMA CrashEnds ==
  ASSUME IInv, Crash, NEW m \in Members, NEW k \in Runs
  PROVE  LET t == task[m][k]
             u == task'[m][k]
         IN  \/ t.pc = "free" /\ u = IdleTask
             \/ t.pc # "free" /\ u.pc = "done" /\ u.row = t.row
<1>1. task[m][k] \in Task
  BY TaskIsSafe DEF IInv, Bookkeeping
<1> DEFINE ended(x, j) == [Finished(task[x][j]) EXCEPT !.watched = FALSE, !.asking = FALSE]
<1>2. task' = [x \in Members |-> [j \in Runs |->
         IF task[x][j].pc = "free" THEN IdleTask ELSE ended(x, j)]]
  BY Zenon DEF Crash
<1>3. ended(m, k).pc = "done" /\ ended(m, k).row = task[m][k].row
  <2> DEFINE f == Finished(task[m][k])
  <2>1. f \in Task /\ f.pc = "done" /\ f.row = task[m][k].row
    BY <1>1, FinishedFields, FinishedSafe DEF SafeTask
  <2> HIDE DEF f
  <2>2. LET u == [f EXCEPT !.watched = FALSE, !.asking = FALSE]
        IN  u.pc = "done" /\ u.row = f.row
    BY <2>1 DEF Task
  <2> QED BY <2>1, <2>2 DEF f
<1> HIDE DEF ended
<1> QED BY <1>2, <1>3

\* A stop call only cancels tokens.
LEMMA StopCancels ==
  ASSUME IInv, NEW x \in Members, StopRequest(x) \/ StopStepOf(x),
         NEW m \in Members, NEW k \in Runs
  PROVE  LET t == task[m][k]
             u == task'[m][k]
         IN  /\ u.pc = t.pc /\ u.row = t.row /\ u.rev = t.rev
             /\ u.attempt = t.attempt /\ u.entry = t.entry /\ u.next = t.next
<1> DEFINE t == task[m][k]
<1>1. t \in Task /\ task \in Tasks
  BY TaskIsSafe DEF IInv, Bookkeeping
<1>2. CASE task' = task
  BY <1>2
<1>3. ASSUME NEW c, task' = [task EXCEPT ![x][c].stopped = TRUE]
      PROVE  task'[m][k] = t \/ task'[m][k] = [t EXCEPT !.stopped = TRUE]
  <2>1. CASE x = m
    <3>1. task'[m] = [task[m] EXCEPT ![c].stopped = TRUE]
      BY <1>1, <1>3, <2>1 DEF Tasks
    <3>2. task[m] \in [Runs -> SafeTask]
      BY <1>1 DEF Tasks
    <3> QED BY <3>1, <3>2
  <2>2. CASE x # m
    BY <1>1, <1>3, <2>2 DEF Tasks
  <2> QED BY <2>1, <2>2
<1>4. task' = task \/ \E c : task' = [task EXCEPT ![x][c].stopped = TRUE]
  BY DEF StopRequest, StopStepOf, StopFind, StopLookup, StopTransition, StopCancel,
     StopReset, StopList, StopRequeue
<1>5. CASE task'[m][k] = t \/ task'[m][k] = [t EXCEPT !.stopped = TRUE]
  BY <1>1, <1>5 DEF Task
<1> QED BY <1>2, <1>3, <1>4, <1>5

\* Every step keeps a task, or binds its run.
LEMMA TasksKeep ==
  ASSUME IInv, [Next]_vars, NEW m \in Members, NEW j \in Runs
  PROVE  TaskKeeps(task[m][j], task'[m][j], rows'[m]) \/ Bind(m, j)
<1> DEFINE Keeps == TaskKeeps(task[m][j], task'[m][j], rows'[m])
<1> SUFFICES Keeps \/ Bind(m, j)
  OBVIOUS
<1>1. ASSUME task' = task
      PROVE  Keeps
  BY <1>1, SameKeeps
<1>2. ASSUME NEW x \in Members, x # m, OnlyAt(x)
      PROVE  Keeps
  BY <1>2, SameKeeps DEF OnlyAt
<1>3. ASSUME NEW n \in Messages, NEW targets \in SUBSET Members, PersistBundle(n, targets)
      PROVE  Keeps
  <2>1. CASE task'[m] = task[m]
    BY <2>1, SameKeeps
  <2>2. CASE \E d : HandsOut(task[m], task'[m], rows'[m], d, NoRun)
    <3>1. j \in Runs \ {NoRun}
      BY LedgerAssumption DEF Runs, NoRun
    <3> QED BY <2>2, <3>1, HandsOutKeeps
  <2> QED BY <1>3, <2>1, <2>2, BundleSummary
<1>4. CASE \E targets \in SUBSET Members : Send(targets)
  <2>1. sent + 1 \in Messages
    BY <1>4, RoomIsRoom DEF Send, IInv, Bookkeeping
  <2> QED BY <1>3, <1>4, <2>1 DEF Send
<1>5. CASE \E n \in Messages : Resend(n)
  <2>1. \A n \in Messages : message[n].targets \in SUBSET Members
    BY DEF IInv, Bookkeeping, MessageRow
  <2> QED BY <1>3, <1>5, <2>1 DEF Resend
<1>6. CASE \E n \in Messages : RemoveMessage(n)
  BY <1>1, <1>6 DEF RemoveMessage, DeleteOnly
<1>7. ASSUME NEW x \in Members, Wake(x)
      PROVE  Keeps
  <2>1. CASE x = m
    <3>1. j \in Runs \ {NoRun}
      BY LedgerAssumption DEF Runs, NoRun
    <3>2. HandsOut(task[m], task'[m], rows'[m], NextClaim(rows[m]), NoRun)
      BY <1>7, <2>1, WakeSummary
    <3> QED BY <3>1, <3>2, HandsOutKeeps
  <2>2. CASE x # m
    BY <1>7, <2>2, SameKeeps, WakeSummary
  <2> QED BY <2>1, <2>2
<1>8. ASSUME NEW x \in Members, Continue(x) \/ RecoveryOf(x) \/ \E i \in RowIds : Unqueue(x, i)
      PROVE  Keeps
  <2>1. CASE Continue(x) \/ RecoveryOf(x)
    BY <1>1, <2>1 DEF Continue, RecoveryOf, RecoverReset, RecoverRequeue, RecoverResume,
       RecoverOnly
  <2>2. CASE \E i \in RowIds : Unqueue(x, i)
    BY <1>1, <2>2 DEF Unqueue, DeleteOnly
  <2> QED BY <1>8, <2>1, <2>2
<1>9. ASSUME NEW x \in Members, StopRequest(x) \/ StopStepOf(x)
      PROVE  Keeps
  BY <1>9, StopCancels DEF TaskKeeps
<1>10. ASSUME NEW x \in Members, NEW k \in Runs, Commit(x, k)
       PROVE  Keeps
  <2>1. CASE x # m
    BY <1>2, <1>10, <2>1, CommitSummary
  <2>2. CASE x = m /\ j = k
    <3> DEFINE t == task[m][k]
               u == task'[m][k]
    <3>1. /\ t.pc = "commit" /\ u.pc \in {"done", "retry"} /\ u.row = t.row
          /\ u.pc = "retry" => u.attempt = t.attempt
      BY <1>10, <2>2, CommitSummary
    <3> QED BY <2>2, <3>1 DEF TaskKeeps, Early
  <2>3. CASE x = m /\ j # k
    <3>1. \E d : HandsOut(task[m], task'[m], rows'[m], d, k)
      BY <1>10, <2>3, CommitSummary DEF EndsDelivery
    <3> QED BY <2>3, <3>1, HandsOutKeeps
  <2> QED BY <2>1, <2>2, <2>3
<1>11. ASSUME NEW x \in Members, NEW k \in Runs, Retry(x, k)
       PROVE  Keeps
  <2>1. CASE x # m
    BY <1>2, <1>11, <2>1, RetrySummary
  <2>2. CASE x = m
    <3>1. PICK f \in Runs \ {k} :
            /\ task[m][f].pc = "free" /\ task'[m][f].pc = "reclaim"
            /\ \A l \in Runs \ {k, f} : task'[m][l] = task[m][l]
      BY <1>11, <2>2, RetrySummary
    <3>2. task[m][k].pc = "retry" /\ task'[m][k].pc = "done" /\ task'[m][k].row = task[m][k].row
      BY <1>11, <2>2, RetrySummary
    <3> QED BY <3>1, <3>2 DEF TaskKeeps, Early
  <2> QED BY <2>1, <2>2
<1>12. ASSUME NEW x \in Members, NEW k \in Runs, Reclaim(x, k)
       PROVE  Keeps
  <2>1. CASE x # m
    BY <1>2, <1>12, <2>1, ReclaimSummary
  <2>2. CASE x = m /\ j # k
    BY <1>12, <2>2, ReclaimSummary, SameKeeps
  <2>3. CASE x = m /\ j = k
    <3> DEFINE t == task[m][k]
               u == task'[m][k]
               d == NextClaim(rows[m])
    <3>1. /\ t.pc = "reclaim"
          /\ \/ u.pc = "done"
             \/ /\ rows'[m][d].status = "starting" /\ u.row = d
                /\ \/ /\ u.pc = "register"
                      /\ u.rev = rows'[m][d].rev /\ u.attempt = rows'[m][d].attempt
                   \/ u.pc = "load"
      BY <1>12, <2>3, ReclaimSummary
    <3> HIDE DEF d
    <3> QED BY <2>3, <3>1 DEF TaskKeeps, Early
  <2> QED BY <2>1, <2>2, <2>3
<1>13. ASSUME NEW x \in Members, NEW k \in Runs, OwnTaskStep(x, k), ~Bind(x, k)
       PROVE  Keeps
  BY <1>13, OwnStepKeeps, SameKeeps
<1>14. ASSUME NEW x \in Members, NEW k \in Runs, Bind(x, k)
       PROVE  Keeps \/ Bind(m, j)
  <2>1. task \in Tasks /\ \E u : SetTask(x, k, u)
    BY <1>14 DEF IInv, Bookkeeping, Bind
  <2>2. CASE x = m /\ j = k
    BY <1>14, <2>2
  <2>3. CASE x # m \/ j # k
    BY <2>1, <2>3, OneTaskSet, SameKeeps
  <2> QED BY <2>2, <2>3
<1>15. ASSUME NEW x \in Members, NEW k \in Runs, RunOf(x, k)
       PROVE  Keeps \/ Bind(m, j)
  <2>1. OwnTaskStep(x, k) \/ Commit(x, k) \/ Retry(x, k) \/ Reclaim(x, k)
    BY <1>15 DEF RunOf, TaskStepOf, FaultOf, OwnTaskStep
  <2> QED BY <1>10, <1>11, <1>12, <1>13, <1>14, <2>1
<1>16. CASE UnqueueStep \/ UNCHANGED vars
  BY <1>1, <1>16 DEF UnqueueStep, UnqueueCount, UnqueueErase, DeleteOnly, vars, memory
<1>17. CASE Crash
  <2>1. task[m][j].pc \in TaskStep
    BY TaskIsSafe DEF IInv, Bookkeeping, Task
  <2> QED BY <1>17, <2>1, CrashEnds DEF TaskKeeps, Early, IdleTask, TaskStep
<1> HIDE DEF Keeps
<1> QED BY <1>4, <1>5, <1>6, <1>7, <1>8, <1>9, <1>15, <1>16, <1>17 DEF Next

\* What a bind that finds its delivery does.
LEMMA BindSummary ==
  ASSUME IInv, NEW m \in Members, NEW k \in Runs, Bind(m, k),
         Matches(rows[m], task[m][k].row, task[m][k].rev, {"starting"})
  PROVE  LET t == task[m][k]
             u == task'[m][k]
         IN
         /\ t.pc = "prepare" /\ OnlyAt(m) /\ member'[m] = "running"
         /\ t.row \in RowIds /\ rows[m][t.row].rev = t.rev
         /\ Binding(rows[m][t.row], rows'[m][t.row], k)
         /\ \A i \in RowIds \ {t.row} : rows'[m][i] = rows[m][i]
         /\ u.pc = "start" /\ u.row = t.row /\ u.attempt = t.attempt
         /\ \A j \in Runs \ {k} : task'[m][j] = task[m][j]
<1> DEFINE t == task[m][k]
           u == [t EXCEPT !.pc = "start", !.rev = 0]
<1>1. t \in Task /\ task \in Tasks /\ rows[m] \in Ledger
  BY TaskIsSafe DEF IInv, Bookkeeping, Ledgers
<1>2. t.pc = "prepare" /\ SetTask(m, k, u) /\ SetRows(m, BindRun(rows[m], t.row, k))
      /\ member' = [member EXCEPT ![m] = "running"]
  BY DEF Bind
<1>3. u.pc = "start" /\ u.row = t.row /\ u.attempt = t.attempt
  BY <1>1 DEF Task
<1>4. t.row \in RowIds /\ rows[m][t.row].rev = t.rev /\ rows[m][t.row].status = "starting"
  BY DEF Matches
<1> HIDE DEF u
<1>5. /\ task'[m][k] = u /\ \A j \in Runs : j # k => task'[m][j] = task[m][j]
      /\ \A x \in Members : x # m => task'[x] = task[x]
  BY <1>1, <1>2, OneTaskSet
<1>6. rows'[m] = BindRun(rows[m], t.row, k) /\ \A x \in Members : x # m => rows'[x] = rows[x]
  BY <1>2 DEF SetRows, IInv, Ledgers
<1>7. /\ Binding(rows[m][t.row], rows'[m][t.row], k)
      /\ \A i \in RowIds : i # t.row => rows'[m][i] = rows[m][i]
  <2> HIDE DEF t
  <2> QED BY <1>1, <1>4, <1>6, BindRunTurns
<1>8. member'[m] = "running" /\ \A x \in Members : x # m => member'[x] = member[x]
  BY <1>2 DEF IInv, Bookkeeping
<1> QED BY <1>2, <1>3, <1>4, <1>5, <1>6, <1>7, <1>8 DEF OnlyAt

\* Binding names the run after the attempt its task loaded.
LEMMA BindKeepsNamed ==
  ASSUME IInv, IInv', RunsNamed, NEW m \in Members, NEW k \in Runs, Bind(m, k),
         Matches(rows[m], task[m][k].row, task[m][k].rev, {"starting"})
  PROVE  Named(rows'[m], task'[m])
<1> DEFINE T == task[m]
           U == task'[m]
           L == rows[m]
           M == rows'[m]
           t == T[k]
           u == U[k]
<1>1. /\ Named(L, T) /\ t.pc = "prepare"
      /\ t.row \in RowIds /\ L[t.row].rev = t.rev
      /\ Binding(L[t.row], M[t.row], k)
      /\ \A i \in RowIds \ {t.row} : M[i] = L[i]
      /\ u.pc = "start" /\ u.row = t.row /\ u.attempt = t.attempt
      /\ \A j \in Runs \ {k} : U[j] = T[j]
  BY BindSummary DEF RunsNamed
<1>2. \A j \in Runs : T[j] \in Task /\ T[j].rev \in Nat
  BY TaskIsSafe DEF IInv, Bookkeeping, Task
<1>3. \A i \in RowIds : L[i] \in Row /\ L[i].rev \in Nat /\ M[t.row].rev \in Nat
  <2>1. M[t.row] \in Row
    BY <1>1 DEF IInv, Ledgers, Ledger
  <2> QED BY <2>1, RowIsTyped DEF IInv, Row
<1>4. t.attempt = L[t.row].attempt
  <2>1. Expects(t, L[t.row])
    BY <1>1 DEF Named, Loaded
  <2> QED BY <1>1, <2>1 DEF Expects, Binding, Stored, Active
<1> HIDE DEF T, U, L, M, t, u
<1>5. RunOnlyWhenTaken(M)
  BY <1>1 DEF RunOnlyWhenTaken, Named, Binding
<1>6. NamesTask(M, U)
  <2> SUFFICES ASSUME NEW i \in RowIds, NEW j \in Runs, M[i].run = j
               PROVE  /\ U[j].row = i /\ U[j].pc \notin Early
                      /\ U[j].pc # "done" => U[j].attempt = M[i].attempt
    BY DEF NamesTask
  <2>1. CASE i = t.row
    BY <1>1, <1>4, <2>1 DEF Binding, Early, t, u
  <2>2. CASE i # t.row
    BY <1>1, <2>2 DEF Named, NamesTask, Early, t
  <2> QED BY <2>1, <2>2
<1>7. Loaded(M, U)
  <2> SUFFICES ASSUME NEW j \in Runs, U[j].pc \in {"register", "prepare"}
               PROVE  Expects(U[j], M[U[j].row])
    BY DEF Loaded
  <2>1. j # k /\ U[j] = T[j] /\ Expects(T[j], L[T[j].row])
    BY <1>1 DEF Named, Loaded, u
  <2>2. T[j].row \in RowIds
    BY <2>1, TaskIsSafe DEF IInv, Bookkeeping, SafeTask, T
  <2>3. CASE T[j].row = t.row
    BY <1>1, <1>2, <1>3, <2>1, <2>3 DEF Expects, Binding, Stored, Active
  <2>4. CASE T[j].row # t.row
    BY <1>1, <2>1, <2>2, <2>4
  <2> QED BY <2>3, <2>4
<1>8. Named(M, U)
  BY <1>5, <1>6, <1>7 DEF Named
<1> QED BY <1>8 DEF M, U

RunsIInv == IInv /\ RunsNamed

LEMMA StepNames == RunsIInv /\ [Next]_vars => RunsIInv'
<1> SUFFICES ASSUME RunsIInv, [Next]_vars PROVE RunsIInv'
  OBVIOUS
<1>1. IInv /\ IInv' /\ RunsNamed
  BY StepIInv DEF RunsIInv
<1>2. ASSUME NEW m \in Members
      PROVE  Named(rows'[m], task'[m])
  <2>1. CASE \E k \in Runs : Bind(m, k) /\ Matches(rows[m], task[m][k].row, task[m][k].rev, {"starting"})
    BY <1>1, <2>1, BindKeepsNamed
  <2>2. CASE ~\E k \in Runs : Bind(m, k) /\ Matches(rows[m], task[m][k].row, task[m][k].rev, {"starting"})
    <3>1. /\ rows[m] \in Ledger /\ rows'[m] \in Ledger
          /\ task[m] \in [Runs -> SafeTask] /\ task'[m] \in [Runs -> SafeTask]
          /\ Named(rows[m], task[m])
      BY <1>1 DEF IInv, Bookkeeping, Ledgers, Tasks, RunsNamed
    <3>2. ASSUME NEW k \in Runs, Bind(m, k)
          PROVE  /\ TaskKeeps(task[m][k], task'[m][k], rows'[m])
                 /\ rows'[m] = rows[m]
      <4> DEFINE t == task[m][k]
                 o == IF t.stopped THEN "stopped" ELSE "failed"
                 u == [t EXCEPT !.pc = "drop", !.outcome = o]
      <4>1. t \in Task /\ task \in Tasks /\ ~Matches(rows[m], t.row, t.rev, {"starting"})
        BY <1>1, <2>2, <3>2, TaskIsSafe DEF IInv, Bookkeeping
      <4>2. t.pc = "prepare" /\ rows' = rows /\ SetTask(m, k, u)
        BY <3>2, <4>1 DEF Bind
      <4>3. u.pc = "drop"
        <5> HIDE DEF o
        <5> QED BY <4>1 DEF Task
      <4> HIDE DEF u
      <4>4. task'[m][k] = u
        BY <4>1, <4>2, OneTaskSet
      <4> QED BY <4>2, <4>3, <4>4 DEF TaskKeeps, Early
    <3>3. \A k \in Runs : TaskKeeps(task[m][k], task'[m][k], rows'[m])
      BY <1>1, <3>2, TasksKeep
    <3>4. \A i \in RowIds : TurnsOrAppears(rows[m][i], rows'[m][i])
      BY <1>1, <3>2, RowsTurn DEF TurnsOrAppears, Turn
    <3> QED BY <3>1, <3>3, <3>4, NamedKept
  <2> QED BY <2>1, <2>2
<1> QED BY <1>1, <1>2 DEF RunsIInv, RunsNamed

LEMMA InitNames == Init => RunsIInv
<1> SUFFICES ASSUME Init PROVE RunsIInv
  OBVIOUS
<1>1. \A m \in Members : /\ \A i \in RowIds : rows[m][i] = Blank("absent")
                         /\ \A k \in Runs : task[m][k].pc = "free"
  BY DEF Init, EmptyLedger, IdleTask
<1>2. NoRun \notin Runs
  BY LedgerAssumption DEF Runs, NoRun
<1>3. RunsNamed
  BY <1>1, <1>2 DEF RunsNamed, Named, RunOnlyWhenTaken, NamesTask, Loaded, Blank
<1> QED BY <1>3, InitIInv DEF RunsIInv

\* A run id leads to the delivery its task was given and, while the task works,
\* to the attempt it loaded, whatever is stopped, retried, deleted or crashes
\* (bind_delivery_to_new_run, find_by_run_id).
THEOREM RunsNameTheirDelivery == Spec => []RunNamesItsDelivery
<1>1. RunsIInv => RunNamesItsDelivery
  BY DEF RunsIInv, RunsNamed, Named, NamesTask, RunNamesItsDelivery, Working, Early
<1> QED BY <1>1, InitNames, StepNames, PTL DEF Spec

\* The end of an executor, and the error path of a run that was bound, touch no
\* delivery in flight but the one they started, in the attempt they started
\* (finalize_run_and_claim_next, fail_or_skip_inflight_cas).
THEOREM RunsEndTheirOwnAttempt == Spec => RunEndsItsOwnAttempt
<1> DEFINE Ends == \A m \in Members : \A k \in Runs : \A i \in RowIds :
              /\ Commit(m, k) \/ SettleBound(m, k)
              /\ rows[m][i].status \in Active /\ rows'[m][i] # rows[m][i]
              => i = task[m][k].row /\ rows[m][i].attempt = task[m][k].attempt
<1>1. RunsIInv => Ends
  <2> SUFFICES ASSUME RunsIInv, NEW m \in Members, NEW k \in Runs, NEW i \in RowIds,
                      Commit(m, k) \/ SettleBound(m, k),
                      rows[m][i].status \in Active, rows'[m][i] # rows[m][i]
               PROVE  i = task[m][k].row /\ rows[m][i].attempt = task[m][k].attempt
    OBVIOUS
  <2>1. rows[m][i].run = k => i = task[m][k].row
        /\ (task[m][k].pc # "done" => rows[m][i].attempt = task[m][k].attempt)
    BY DEF RunsIInv, RunsNamed, Named, NamesTask
  <2>2. task[m][k].pc \in {"commit", "settle"}
    BY DEF Commit, SettleBound
  <2>3. CASE Commit(m, k)
    <3>1. PICK j \in RowIds : \E d : EndsDelivery(m, k, j, d)
      BY <2>3, CommitSummary DEF RunsIInv
    <3>2. i = j
      BY <3>1 DEF EndsDelivery, Claims, Active
    <3> QED BY <2>1, <2>2, <3>1, <3>2 DEF EndsDelivery, BoundTo
  <2>4. CASE SettleBound(m, k)
    <3> DEFINE Mine == {j \in BoundTo(rows[m], k) : Matches(rows[m], j, task[m][k].rev, Active)}
               j    == CHOOSE j \in Mine : TRUE
    <3>1. Mine # {}
      BY <2>4 DEF SettleBound
    <3>2. j \in BoundTo(rows[m], k)
      BY <3>1
    <3>3. \E status : SetRows(m, SetStatus(rows[m], j, status))
      BY <2>4, <3>1 DEF SettleBound, FailOrSkip
    <3> HIDE DEF j
    <3>4. i = j
      BY <3>2, <3>3 DEF SetRows, SetStatus, RunsIInv, IInv, Ledgers, Ledger
    <3> QED BY <2>1, <2>2, <3>2, <3>4 DEF BoundTo
  <2> QED BY <2>3, <2>4
<1>2. Spec => []RunsIInv
  BY InitNames, StepNames, PTL DEF Spec
<1>3. RunsIInv => Ends
  BY <1>1
<1> QED BY <1>2, <1>3, PTL DEF RunEndsItsOwnAttempt

-------------------------------------------------------------------------------
(* Tasks and deliveries of a member that is left alone: who works on what.   *)

\* Where a task may hold a delivery that is starting, where it has an executor
\* or owes the end of one, and where it may hold a delivery bound to its run.
Starters == {"load", "register", "prepare", "drop", "fail", "settle", "skip", "mark"}
Owners   == {"start", "execute", "finalize", "commit"}
Runners  == Owners \cup {"drop", "fail", "settle"}

\* What task t of run k knows of row r, the one it works on.
Fit(k, t, r) ==
  /\ t.pc \in Owners => r.run = k /\ r.status \in Active
  /\ t.pc = "commit" => t.rev = r.rev
  /\ t.pc \in {"drop", "fail"} /\ r.run = k => r.status \in Active
  /\ t.pc = "settle" /\ t.next = "running" =>
       r.run = k /\ r.status \in Active /\ t.rev = r.rev
  /\ t.pc = "settle" /\ t.next # "running" => r.run # k
  /\ t.pc = "reclaim" => t.entry = 0
  /\ r.status \in {"absent", "queued"} => t.pc = "reclaim"
  /\ r.status = "starting" =>
       /\ t.pc \notin Owners \cup {"retry"}
       /\ t.pc \in {"load", "skip", "mark"} => t.entry = r.rev
       /\ t.pc \in {"register", "prepare", "settle"} => t.rev = r.rev
       /\ t.pc \in {"register", "prepare", "drop", "fail", "settle"} => t.entry \in {0, r.rev}

AtRest(t) == t.pc \in {"free", "done"}

Fits(L, T) == \A k \in Runs : AtRest(T[k]) \/ Fit(k, T[k], L[T[k].row])

\* Row r, with id i, has a task to take it on if it is in flight.
OwnedRow(r, i, T) ==
  /\ r.status = "starting" => \E k \in Runs : T[k].row = i /\ T[k].pc \in Starters
  /\ r.status \in Active \ {"starting"} =>
       /\ r.run \in Runs
       /\ T[r.run].row = i /\ T[r.run].pc \in Runners

Owned(L, T) == \A i \in RowIds : OwnedRow(L[i], i, T)

HasBound(L) == \E i \in RowIds : L[i].status \in Active /\ L[i].run # NoRun

Shown(L, s) == s \in ActiveMember <=> HasBound(L)

Held(L, T, s) == Fits(L, T) /\ Owned(L, T) /\ Shown(L, s)

\* How another task's step may change the row run j works on.
Foreign(j, r, q) ==
  \/ q = r
  \/ Resolves(r, q)
  \/ /\ r.run # j /\ q.run # j /\ q.status # "absent"
     /\ q.status = "starting" => r.status \in {"absent", "queued"}
     /\ q.status = "queued" => r.status = "absent"

LEMMA FitKept ==
  ASSUME NEW j, NEW t \in Task, NEW r, NEW q, Foreign(j, r, q), Fit(j, t, r)
  PROVE  Fit(j, t, q)
<1>1. CASE q = r
  BY <1>1
<1>2. CASE Resolves(r, q)
  BY <1>2 DEF Resolves, Fit, Active, Owners
<1>3. CASE /\ r.run # j /\ q.run # j /\ q.status # "absent"
           /\ q.status = "starting" => r.status \in {"absent", "queued"}
           /\ q.status = "queued" => r.status = "absent"
  BY <1>3 DEF Fit, Owners
<1> QED BY <1>1, <1>2, <1>3 DEF Foreign

\* Rows that are created, claimed or withdrawn are nobody's yet.
LEMMA NewIsForeign ==
  ASSUME NEW r, NEW q, NEW j \in Runs, r.run = NoRun,
         Claims(r, q) \/ (\E n : Appears(r, q, n)) \/ (r.status = "queued" /\ q = Blank("deleted"))
  PROVE  Foreign(j, r, q)
<1>1. NoRun # j
  BY LedgerAssumption DEF Runs, NoRun
<1> QED BY <1>1 DEF Foreign, Claims, Appears, Blank

\* A delivery that another run, or nobody yet, is bound to.
LEMMA AdvanceIsForeign ==
  ASSUME NEW r, NEW q, NEW j \in Runs, r.run # j,
         Advances(r, q) \/ \E k \in Runs \ {j} : Binding(r, q, k)
  PROVE  Foreign(j, r, q)
BY DEF Foreign, Advances, Binding, Taken, Active, Terminal

\* What a step of run k, or of none, may make of the tasks: its own fits, and so
\* does one that takes a free run.
TasksFit(T, U, M, k) == \A j \in Runs :
  LET fits == Fit(j, U[j], M[U[j].row]) IN
  IF j = k THEN AtRest(U[j]) \/ fits
           ELSE U[j] = T[j] \/ (T[j].pc = "free" /\ fits)

\* It may change a row only under the tasks of others that do not mind ...
ForeignToOthers(L, M, k) == \A i \in RowIds : \A j \in Runs \ {k} : Foreign(j, L[i], M[i])

\* ... and a delivery in flight keeps its task, or gets one.
KeepsOwners(L, M, T, U, k) == \A i \in RowIds : M[i].status \in Active =>
  \/ OwnedRow(M[i], i, U)
  \/ /\ M[i] = L[i]
     /\ k \in Runs /\ T[k].row = i =>
          /\ M[i].status = "starting" /\ T[k].pc \in Starters
               => U[k].row = i /\ U[k].pc \in Starters
          /\ M[i].run = k /\ T[k].pc \in Runners => U[k].row = i /\ U[k].pc \in Runners

\* Such a step leaves the member in order.
LEMMA HeldKept ==
  ASSUME NEW L, NEW M, NEW T \in [Runs -> SafeTask], NEW U, NEW s, NEW k,
         Held(L, T, s), TasksFit(T, U, M, k), ForeignToOthers(L, M, k),
         KeepsOwners(L, M, T, U, k)
  PROVE  Fits(M, U) /\ Owned(M, U)
<1>1. \A j \in Runs : T[j] \in Task /\ (AtRest(T[j]) \/ T[j].row \in RowIds)
  BY DEF SafeTask, AtRest
<1>2. ASSUME NEW j \in Runs \ {k}, U[j] = T[j], ~AtRest(T[j])
      PROVE  Fit(j, U[j], M[U[j].row])
  <2>1. T[j].row \in RowIds /\ Fit(j, T[j], L[T[j].row])
    BY <1>1, <1>2 DEF Held, Fits
  <2> QED BY <1>1, <1>2, <2>1, FitKept DEF ForeignToOthers
<1>3. Fits(M, U)
  BY <1>2 DEF Fits, TasksFit
<1>4. ASSUME NEW i \in RowIds, M[i].status \in Active, M[i] = L[i],
             k \in Runs /\ T[k].row = i =>
               /\ M[i].status = "starting" /\ T[k].pc \in Starters
                    => U[k].row = i /\ U[k].pc \in Starters
               /\ M[i].run = k /\ T[k].pc \in Runners => U[k].row = i /\ U[k].pc \in Runners
      PROVE  OwnedRow(M[i], i, U)
  <2>1. OwnedRow(L[i], i, T)
    BY DEF Held, Owned
  <2>2. \A j \in Runs \ {k} : T[j].pc # "free" => U[j] = T[j]
    BY DEF TasksFit
  <2>3. CASE M[i].status = "starting"
    <3>1. PICK j \in Runs : T[j].row = i /\ T[j].pc \in Starters
      BY <1>4, <2>1, <2>3 DEF OwnedRow
    <3>2. U[j].row = i /\ U[j].pc \in Starters
      BY <1>4, <2>2, <2>3, <3>1 DEF Starters
    <3> QED BY <2>3, <3>2 DEF OwnedRow
  <2>4. CASE M[i].status # "starting"
    <3> DEFINE j == M[i].run
    <3>1. j \in Runs /\ T[j].row = i /\ T[j].pc \in Runners
      BY <1>4, <2>1, <2>4 DEF OwnedRow
    <3>2. U[j].row = i /\ U[j].pc \in Runners
      BY <1>4, <2>2, <3>1 DEF Runners, Owners
    <3> QED BY <2>4, <3>1, <3>2 DEF OwnedRow
  <2> QED BY <2>3, <2>4
<1>5. Owned(M, U)
  <2>1. \A i \in RowIds : M[i].status \notin Active => OwnedRow(M[i], i, U)
    BY DEF OwnedRow, Active
  <2> QED BY <1>4, <2>1 DEF Owned, KeepsOwners
<1> QED BY <1>3, <1>5

-------------------------------------------------------------------------------
(* The steps of a task.                                                      *)

\* Task t of run k, which works on row r, has come to u without a statement.
Onward(k, t, u, r) ==
  /\ u.row = t.row
  /\ AtRest(u) \/ Fit(k, u, r)
  /\ r.status = "starting" /\ t.pc \in Starters => u.pc \in Starters
  /\ r.status \in Active /\ r.run = k /\ t.pc \in Runners => u.pc \in Runners

\* What the invariants say of a task at work and its row.
LEMMA AtWork ==
  ASSUME IInv, RunsNamed, NEW m \in Members, NEW k \in Runs,
         Held(rows[m], task[m], member[m]), ~AtRest(task[m][k])
  PROVE  LET t == task[m][k]
             r == TheRow(m, k)
         IN  /\ t \in Task /\ t.row \in RowIds /\ r \in Row /\ Fit(k, t, r)
             /\ r.status \in {"absent", "deleted", "queued", "starting"} => r.run = NoRun
             /\ r.run = k => t.pc \notin Early
             /\ \A i \in RowIds : rows[m][i].run = k => i = t.row
<1>1. task[m][k] \in SafeTask
  BY TaskIsSafe DEF IInv, Bookkeeping
<1>2. task[m][k] \in Task /\ task[m][k].row \in RowIds
  BY <1>1 DEF SafeTask, AtRest
<1> QED BY <1>2, RowIsTyped DEF TheRow, Held, Fits, RunsNamed, Named, RunOnlyWhenTaken,
       NamesTask, IInv

\* A step that leaves the ledger alone and takes its task onward.
LEMMA OnwardHeld ==
  ASSUME IInv, RunsNamed, NEW m \in Members, NEW k \in Runs,
         Held(rows[m], task[m], member[m]),
         NEW u, SetTask(m, k, u), rows'[m] = rows[m], member'[m] = member[m],
         Onward(k, task[m][k], u, TheRow(m, k))
  PROVE  Held(rows'[m], task'[m], member'[m])
<1>1. /\ task \in Tasks /\ task[m] \in [Runs -> SafeTask]
      /\ task'[m][k] = u /\ \A j \in Runs : j # k => task'[m][j] = task[m][j]
  BY OneTaskSet DEF IInv, Bookkeeping, Tasks
<1> DEFINE L == rows[m]
           T == task[m]
           U == task'[m]
<1>2. TasksFit(T, U, L, k)
  BY <1>1 DEF Onward, TheRow, TasksFit
<1>3. KeepsOwners(L, L, T, U, k)
  BY <1>1 DEF Onward, TheRow, KeepsOwners
<1>4. ForeignToOthers(L, L, k)
  BY DEF Foreign, ForeignToOthers
<1>5. T \in [Runs -> SafeTask] /\ Held(L, T, member[m])
  BY <1>1
<1> HIDE DEF L, T, U
<1>6. Fits(L, U) /\ Owned(L, U)
  BY <1>2, <1>3, <1>4, <1>5, HeldKept
<1> QED BY <1>5, <1>6 DEF Held, L, U

\* Before the executor runs.
LEMMA DispatchHeld ==
  ASSUME IInv, RunsNamed, NEW m \in Members, NEW k \in Runs,
         Held(rows[m], task[m], member[m]),
         Load(m, k) \/ LoadFault(m, k) \/ Register(m, k) \/ PrepareFault(m, k)
  PROVE  Held(rows'[m], task'[m], member'[m])
<1> DEFINE t == task[m][k]
           r == TheRow(m, k)
           n == r.rev
           a == r.attempt
           loaded   == [t EXCEPT !.pc = "register", !.rev = n, !.attempt = a]
           skipping == [t EXCEPT !.pc = "skip"]
           prepared == [t EXCEPT !.pc = "prepare"]
           dropped  == [t EXCEPT !.pc = "drop", !.outcome = "failed"]
<1>1. t.pc \in {"load", "register", "prepare"} /\ rows' = rows /\ member' = member
  BY DEF Load, LoadFault, Register, PrepareFault, TaskOnly
<1>2. /\ t \in Task /\ Fit(k, t, r)
      /\ r.status \in {"absent", "deleted", "queued", "starting"} => r.run = NoRun
      /\ r.run # k
  BY <1>1, AtWork DEF AtRest, Early
<1>3. /\ loaded.pc = "register" /\ loaded.row = t.row /\ loaded.entry = t.entry
      /\ loaded.rev = n
      /\ skipping.pc = "skip" /\ skipping.row = t.row /\ skipping.entry = t.entry
      /\ prepared.pc = "prepare" /\ prepared.row = t.row /\ prepared.entry = t.entry
      /\ prepared.rev = t.rev
      /\ dropped.pc = "drop" /\ dropped.row = t.row /\ dropped.entry = t.entry
  <2> HIDE DEF n, a
  <2> QED BY <1>2 DEF Task
<1>4. Load(m, k) => IF r.status = "starting" THEN SetTask(m, k, loaded)
                                             ELSE SetTask(m, k, skipping)
  BY DEF Load
<1>5. LoadFault(m, k) => SetTask(m, k, skipping)
  BY DEF LoadFault
<1>6. Register(m, k) => SetTask(m, k, prepared)
  BY DEF Register
<1>7. PrepareFault(m, k) => SetTask(m, k, dropped)
  BY DEF PrepareFault
<1> HIDE DEF loaded, skipping, prepared, dropped
<1>8. CASE Load(m, k)
  <2>1. t.pc = "load"
    BY <1>8 DEF Load
  <2>2. /\ r.status = "starting" => Onward(k, t, loaded, r)
        /\ Onward(k, t, skipping, r)
    BY <1>2, <1>3, <2>1 DEF Onward, Fit, AtRest, Starters, Owners, Runners, n
  <2> QED BY <1>1, <1>4, <1>8, <2>2, OnwardHeld
<1>9. CASE LoadFault(m, k)
  <2>1. t.pc = "load"
    BY <1>9 DEF LoadFault
  <2>2. Onward(k, t, skipping, r)
    BY <1>2, <1>3, <2>1 DEF Onward, Fit, AtRest, Starters, Owners, Runners
  <2> QED BY <1>1, <1>5, <1>9, <2>2, OnwardHeld
<1>10. CASE Register(m, k)
  <2>1. t.pc = "register"
    BY <1>10 DEF Register
  <2>2. Onward(k, t, prepared, r)
    BY <1>2, <1>3, <2>1 DEF Onward, Fit, AtRest, Starters, Owners, Runners
  <2> QED BY <1>1, <1>6, <1>10, <2>2, OnwardHeld
<1>11. CASE PrepareFault(m, k)
  <2>1. t.pc = "prepare"
    BY <1>11 DEF PrepareFault
  <2>2. Onward(k, t, dropped, r)
    BY <1>2, <1>3, <2>1 DEF Onward, Fit, AtRest, Starters, Owners, Runners
  <2> QED BY <1>1, <1>7, <1>11, <2>2, OnwardHeld
<1> QED BY <1>8, <1>9, <1>10, <1>11

\* While the executor runs and until its end is known; a bind that misses.
LEMMA ExecutionHeld ==
  ASSUME IInv, RunsNamed, NEW m \in Members, NEW k \in Runs,
         Held(rows[m], task[m], member[m]),
         \/ Start(m, k) \/ StartStopped(m, k) \/ StartFault(m, k) \/ ExecutorOf(m, k)
         \/ DropControl(m, k)
         \/ Bind(m, k) /\ ~Matches(rows[m], task[m][k].row, task[m][k].rev, {"starting"})
  PROVE  Held(rows'[m], task'[m], member'[m])
<1> DEFINE t == task[m][k]
           r == TheRow(m, k)
           up         == [t EXCEPT !.pc = "execute", !.watched = TRUE]
           dropped(o) == [t EXCEPT !.pc = "drop", !.outcome = o]
           ended(o)   == [t EXCEPT !.pc = "finalize", !.outcome = o]
           failing    == [t EXCEPT !.pc = "fail"]
<1>1. t.pc \in {"start", "execute", "drop", "prepare"} /\ rows' = rows /\ member' = member
  <2>1. CASE ExecutorOf(m, k)
    <3>1. PICK o \in Outcome : Exit(m, k, o)
      BY <2>1 DEF ExecutorOf
    <3> QED BY <3>1 DEF Exit, TaskOnly
  <2>2. CASE ~ExecutorOf(m, k)
    BY <2>2 DEF Start, StartStopped, StartFault, DropControl, Bind, TaskOnly
  <2> QED BY <2>1, <2>2
<1>2. /\ t \in Task /\ Fit(k, t, r)
      /\ r.status \in {"absent", "deleted", "queued", "starting"} => r.run = NoRun
      /\ r.run = k => t.pc # "prepare"
  BY <1>1, AtWork DEF AtRest, Early
<1>3. /\ up.pc = "execute" /\ up.row = t.row
      /\ failing.pc = "fail" /\ failing.row = t.row /\ failing.entry = t.entry
      /\ \A o : /\ dropped(o).pc = "drop" /\ dropped(o).row = t.row
                /\ dropped(o).entry = t.entry
                /\ ended(o).pc = "finalize" /\ ended(o).row = t.row
  BY <1>2 DEF Task
<1>4. CASE Start(m, k)
  <2>1. t.pc = "start" /\ SetTask(m, k, up)
    BY <1>4 DEF Start
  <2> HIDE DEF up
  <2>2. Onward(k, t, up, r)
    BY <1>2, <1>3, <2>1 DEF Onward, Fit, AtRest, Starters, Owners, Runners
  <2> QED BY <1>1, <2>1, <2>2, OnwardHeld
<1>5. ASSUME t.pc = "start" \/ t.pc = "prepare", NEW o, SetTask(m, k, dropped(o))
      PROVE  Held(rows'[m], task'[m], member'[m])
  <2> DEFINE u == dropped(o)
  <2>1. u.pc = "drop" /\ u.row = t.row /\ u.entry = t.entry
    BY <1>3
  <2> HIDE DEF dropped
  <2>2. Onward(k, t, u, r)
    BY <1>2, <1>5, <2>1 DEF Onward, Fit, AtRest, Starters, Owners, Runners
  <2> QED BY <1>1, <1>5, <2>2, OnwardHeld
<1>6. CASE StartStopped(m, k) \/ StartFault(m, k)
  <2>1. t.pc = "start"
    BY <1>6 DEF StartStopped, StartFault
  <2>2. StartStopped(m, k) => SetTask(m, k, dropped("stopped"))
    BY DEF StartStopped
  <2>3. StartFault(m, k) => SetTask(m, k, dropped("failed"))
    BY DEF StartFault
  <2> HIDE DEF dropped
  <2> QED BY <1>5, <1>6, <2>1, <2>2, <2>3
<1>7. CASE ExecutorOf(m, k)
  <2>1. PICK o \in Outcome : Exit(m, k, o)
    BY <1>7 DEF ExecutorOf
  <2> DEFINE u == ended(o)
  <2>2. t.pc = "execute" /\ SetTask(m, k, u)
    BY <2>1 DEF Exit
  <2> HIDE DEF ended
  <2>3. Onward(k, t, u, r)
    BY <1>2, <1>3, <2>2 DEF Onward, Fit, AtRest, Starters, Owners, Runners
  <2> QED BY <1>1, <2>2, <2>3, OnwardHeld
<1>8. CASE DropControl(m, k)
  <2>1. t.pc = "drop" /\ SetTask(m, k, failing)
    BY <1>8 DEF DropControl
  <2> HIDE DEF failing
  <2>2. Onward(k, t, failing, r)
    BY <1>2, <1>3, <2>1 DEF Onward, Fit, AtRest, Starters, Owners, Runners
  <2> QED BY <1>1, <2>1, <2>2, OnwardHeld
<1>9. CASE Bind(m, k) /\ ~Matches(rows[m], t.row, t.rev, {"starting"})
  <2> DEFINE o == IF t.stopped THEN "stopped" ELSE "failed"
  <2>1. t.pc = "prepare" /\ SetTask(m, k, dropped(o))
    BY <1>9 DEF Bind
  <2> HIDE DEF dropped, o
  <2> QED BY <1>5, <2>1
<1> QED BY <1>4, <1>6, <1>7, <1>8, <1>9

\* A run that has ended reads its delivery; a run that has failed decides.
LEMMA DecisionHeld ==
  ASSUME IInv, RunsNamed, NEW m \in Members, NEW k \in Runs,
         Held(rows[m], task[m], member[m]),
         Finalize(m, k) \/ Fail(m, k) \/ Skip(m, k)
  PROVE  Held(rows'[m], task'[m], member'[m])
<1> DEFINE t == task[m][k]
           r == TheRow(m, k)
           n == r.rev
<1>1. t.pc \in {"finalize", "fail", "skip"} /\ rows' = rows /\ member' = member
  BY DEF Finalize, Fail, Skip, TaskOnly
<1>2. /\ t \in Task /\ t.row \in RowIds /\ Fit(k, t, r)
      /\ r.status \in {"absent", "deleted", "queued", "starting"} => r.run = NoRun
      /\ \A i \in RowIds : rows[m][i].run = k => i = t.row
  BY <1>1, AtWork DEF AtRest
<1>3. CASE Finalize(m, k)
  <2> DEFINE B == BoundTo(rows[m], k)
             i == CHOOSE i \in B : TRUE
             x == rows[m][i].rev
             u == [t EXCEPT !.pc = "commit", !.rev = x]
  <2>1. r.run = k /\ r.status \in Active /\ t.pc = "finalize"
    BY <1>2, <1>3 DEF Finalize, Fit, Owners
  <2>2. t.row \in B
    BY <1>2, <2>1 DEF BoundTo, TheRow, Stored
  <2>3. i = t.row
    <3>1. i \in B
      BY <2>2
    <3> HIDE DEF i
    <3> QED BY <1>2, <3>1 DEF BoundTo
  <2>4. SetTask(m, k, u)
    BY <1>3, <2>2 DEF Finalize
  <2>5. x = n
    BY <2>3 DEF TheRow
  <2>6. u.pc = "commit" /\ u.row = t.row /\ u.rev = n
    <3> HIDE DEF x, n
    <3> QED BY <1>2, <2>5 DEF Task
  <2> HIDE DEF u
  <2>7. Onward(k, t, u, r)
    BY <1>2, <2>1, <2>6 DEF Onward, Fit, AtRest, Starters, Owners, Runners, Active
  <2> QED BY <1>1, <2>4, <2>7, OnwardHeld
<1>4. CASE Fail(m, k)
  <2> DEFINE late(s) == [t EXCEPT !.pc = "settle", !.rev = n, !.next = s]
             over    == AfterFailure(t)
             decided == IF t.outcome = "stopped" THEN "cancelled" ELSE FailureStatus(rows[m])
  <2>1. t.pc = "fail"
    BY <1>4 DEF Fail
  <2>2. \A s : late(s).pc = "settle" /\ late(s).row = t.row /\ late(s).rev = n
               /\ late(s).next = s /\ late(s).entry = t.entry
    <3> HIDE DEF n
    <3> QED BY <1>2 DEF Task
  <2>3. decided # "running"
    BY DEF FailureStatus
  <2>4. CASE r.status \in Stored /\ r.run = k
    <3>1. SetTask(m, k, late("running"))
      BY <1>4, <2>4 DEF Fail
    <3> HIDE DEF late
    <3>2. Onward(k, t, late("running"), r)
      <4>1. r.status \in Active \ {"starting"}
        BY <1>2, <2>1, <2>4, LedgerAssumption DEF Fit, Runs, NoRun
      <4> QED BY <1>2, <2>1, <2>2, <2>4, <4>1 DEF Onward, Fit, AtRest, Starters, Owners, Runners, Active
    <3> QED BY <1>1, <3>1, <3>2, OnwardHeld
  <2>5. CASE ~(r.status \in Stored /\ r.run = k) /\ r.status = "starting"
    <3>1. SetTask(m, k, late(decided))
      BY <1>4, <2>5 DEF Fail
    <3> HIDE DEF late, decided
    <3>2. Onward(k, t, late(decided), r)
      BY <1>2, <2>1, <2>2, <2>3, <2>5 DEF Onward, Fit, AtRest, Starters, Owners, Runners,
         Stored, Active
    <3> QED BY <1>1, <3>1, <3>2, OnwardHeld
  <2>6. CASE ~(r.status \in Stored /\ r.run = k) /\ r.status # "starting"
    <3>1. SetTask(m, k, over)
      BY <1>4, <2>6 DEF Fail
    <3>2. over.row = t.row /\ over.pc \in {"skip", "done"}
      BY <1>2, AfterFailureFields
    <3> HIDE DEF over
    <3>3. Onward(k, t, over, r)
      BY <1>2, <2>1, <2>6, <3>2 DEF Onward, Fit, AtRest, Starters, Owners, Runners,
         Stored, Active
    <3> QED BY <1>1, <3>1, <3>3, OnwardHeld
  <2> QED BY <2>4, <2>5, <2>6
<1>5. CASE Skip(m, k)
  <2> DEFINE s == FailureStatus(rows[m])
             u == [t EXCEPT !.pc = "mark", !.next = s]
  <2>1. t.pc = "skip" /\ SetTask(m, k, u)
    BY <1>5 DEF Skip
  <2>2. u.pc = "mark" /\ u.row = t.row /\ u.entry = t.entry
    <3> HIDE DEF s
    <3> QED BY <1>2 DEF Task
  <2> HIDE DEF u
  <2>3. Onward(k, t, u, r)
    BY <1>2, <2>1, <2>2 DEF Onward, Fit, AtRest, Starters, Owners, Runners
  <2> QED BY <1>1, <2>1, <2>3, OnwardHeld
<1> QED BY <1>3, <1>4, <1>5

\* A task writes the row it works on, which was in flight, and comes to u: the
\* row is bound to this run and stays in flight, or ends.
Rewrites(m, k, u) ==
  LET t == task[m][k]
      r == rows[m][t.row]
      q == rows'[m][t.row]
  IN
  /\ t.row \in RowIds /\ u.row = t.row
  /\ \A i \in RowIds \ {t.row} : rows'[m][i] = rows[m][i]
  /\ r.status \in Active /\ r.run \in {NoRun, k} /\ q.run \in {NoRun, k}
  /\ q.status \in Taken \ {"starting"}
  /\ q.status \in Active => q.run = k /\ u.pc \in Runners
  /\ AtRest(u) \/ Fit(k, u, q)
  /\ member'[m] \in ActiveMember <=> q.status \in Active

LEMMA ChangeHeld ==
  ASSUME IInv, NEW m \in Members, NEW k \in Runs, NEW u, SetTask(m, k, u),
         Held(rows[m], task[m], member[m]), Rewrites(m, k, u)
  PROVE  Held(rows'[m], task'[m], member'[m])
<1> DEFINE L == rows[m]
           M == rows'[m]
           T == task[m]
           U == task'[m]
           i == T[k].row
           r == L[i]
           q == M[i]
<1>1. /\ T \in [Runs -> SafeTask] /\ Sound(L) /\ U[k] = u
      /\ \A j \in Runs : j # k => U[j] = T[j]
  BY OneTaskSet DEF IInv, Bookkeeping, Ledgers, Tasks
<1>2. /\ i \in RowIds /\ u.row = i
      /\ \A j \in RowIds : j # i => M[j] = L[j]
      /\ r.status \in Active /\ r.run \in {NoRun, k} /\ q.run \in {NoRun, k}
      /\ q.status \in Taken \ {"starting"}
      /\ q.status \in Active => q.run = k /\ u.pc \in Runners
      /\ AtRest(u) \/ Fit(k, u, q)
      /\ member'[m] \in ActiveMember <=> q.status \in Active
  BY DEF Rewrites
<1>3. NoRun \notin Runs
  BY LedgerAssumption DEF Runs, NoRun
<1>4. Held(L, T, member[m])
  OBVIOUS
<1> DEFINE s == member'[m]
<1> HIDE DEF L, M, T, U, s
<1>5. \A j \in RowIds : L[j].status \in Active => j = i
  BY <1>1, <1>2 DEF Sound, Single, ActiveRows
<1>6. TasksFit(T, U, M, k)
  BY <1>1, <1>2 DEF TasksFit
<1>7. ForeignToOthers(L, M, k)
  BY <1>2, <1>3 DEF ForeignToOthers, Foreign, Taken, Active, Terminal
<1>8. KeepsOwners(L, M, T, U, k)
  <2> SUFFICES ASSUME NEW j \in RowIds, M[j].status \in Active
               PROVE  OwnedRow(M[j], j, U)
    BY DEF KeepsOwners
  <2>1. j = i
    BY <1>2, <1>5
  <2> QED BY <1>1, <1>2, <2>1 DEF OwnedRow
<1>9. Fits(M, U) /\ Owned(M, U)
  BY <1>1, <1>4, <1>6, <1>7, <1>8, HeldKept
<1>10. HasBound(M) <=> q.status \in Active
  BY <1>2, <1>3, <1>5 DEF HasBound
<1> QED BY <1>2, <1>9, <1>10 DEF Held, Shown, M, U, s

\* The callbacks of an executor that runs.
LEMMA ApprovalHeld ==
  ASSUME IInv, RunsNamed, NEW m \in Members, NEW k \in Runs,
         Held(rows[m], task[m], member[m]), "late" \notin Events, ApprovalOf(m, k)
  PROVE  Held(rows'[m], task'[m], member'[m])
<1> DEFINE t == task[m][k]
           r == TheRow(m, k)
           asked(b) == [t EXCEPT !.asking = b]
<1>1. t.pc = "execute" /\ member' = member
  BY DEF ApprovalOf, AskApproval, LeaveApproval, Spend
<1>2. /\ t \in Task /\ t.row \in RowIds /\ r \in Row /\ Fit(k, t, r)
      /\ \A i \in RowIds : rows[m][i].run = k => i = t.row
  BY <1>1, AtWork DEF AtRest
<1>3. \A b : asked(b).pc = "execute" /\ asked(b).row = t.row
  BY <1>1, <1>2 DEF Task
<1>4. r.run = k /\ r.status \in Active \ {"starting"} /\ k # NoRun
  BY <1>1, <1>2, LedgerAssumption DEF Fit, Owners, Runs, NoRun
<1>5. AskApproval(m, k) => Approval(m, k, "running", "waiting_approval")
                           /\ SetTask(m, k, asked(TRUE))
  BY DEF AskApproval
<1>6. LeaveApproval(m, k) => Approval(m, k, "waiting_approval", "running")
                             /\ SetTask(m, k, asked(FALSE))
  BY DEF LeaveApproval
<1> HIDE DEF asked
<1>7. ASSUME NEW b, NEW from, NEW to \in {"running", "waiting_approval"},
             Approval(m, k, from, to), SetTask(m, k, asked(b))
      PROVE  Held(rows'[m], task'[m], member'[m])
  <2> DEFINE u == asked(b)
  <2>1. u.pc = "execute" /\ u.row = t.row
    BY <1>3
  <2>2. \A q : q.run = k /\ q.status \in Active \ {"starting"} => Fit(k, u, q)
    BY <2>1 DEF Fit, Active, Owners
  <2>3. CASE rows' = rows
    <3>1. Onward(k, t, u, r)
      BY <1>1, <1>4, <2>1, <2>2 DEF Onward, Starters, Runners, Owners
    <3> QED BY <1>1, <1>7, <2>3, <3>1, OnwardHeld
  <2>4. ASSUME NEW i \in BoundTo(rows[m], k), SetRows(m, SetStatus(rows[m], i, to))
        PROVE  Held(rows'[m], task'[m], member'[m])
    <3>1. i = t.row
      BY <1>2, <2>4 DEF BoundTo
    <3>2. to \in Active \ {"starting"} /\ to \in Taken \ {"starting"}
      BY DEF Active, Taken
    <3>3. rows'[m] = SetStatus(rows[m], t.row, to) /\ rows[m] \in Ledger
      BY <2>4, <3>1 DEF SetRows, IInv, Ledgers
    <3>4. /\ Advances(r, rows'[m][t.row]) /\ rows'[m][t.row].status = to
          /\ \A j \in RowIds \ {t.row} : rows'[m][j] = rows[m][j]
      <4> HIDE DEF t
      <4> QED BY <1>2, <1>4, <3>2, <3>3, SetStatusTurns DEF TheRow, t
    <3>5. rows'[m][t.row].run = k
      BY <1>4, <3>4 DEF Advances
    <3>6. member[m] \in ActiveMember
      BY <1>2, <1>4 DEF Held, Shown, HasBound, TheRow
    <3>7. u.pc \in Runners
      BY <2>1 DEF Runners, Owners
    <3> HIDE DEF u
    <3>8. Rewrites(m, k, u)
      BY <1>1, <1>2, <1>4, <2>1, <2>2, <3>2, <3>4, <3>5, <3>6, <3>7 DEF TheRow, Rewrites
    <3> QED BY <1>7, <3>8, ChangeHeld DEF u
  <2> QED BY <1>7, <2>3, <2>4 DEF Approval
<1> QED BY <1>5, <1>6, <1>7 DEF ApprovalOf

\* A bind that finds its delivery: now the run owns it.
LEMMA BindHeld ==
  ASSUME IInv, RunsNamed, NEW m \in Members, NEW k \in Runs,
         Held(rows[m], task[m], member[m]), Bind(m, k)
  PROVE  Held(rows'[m], task'[m], member'[m])
<1> DEFINE t == task[m][k]
           r == rows[m][t.row]
           q == rows'[m][t.row]
           u == [t EXCEPT !.pc = "start", !.rev = 0]
<1>1. CASE ~Matches(rows[m], t.row, t.rev, {"starting"})
  BY <1>1, ExecutionHeld
<1>2. CASE Matches(rows[m], t.row, t.rev, {"starting"})
  <2>1. /\ t.row \in RowIds /\ Binding(r, q, k) /\ member'[m] = "running"
        /\ \A i \in RowIds \ {t.row} : rows'[m][i] = rows[m][i]
    BY <1>2, BindSummary
  <2>2. t \in Task /\ r.run = NoRun
    BY <2>1, TaskIsSafe DEF IInv, Bookkeeping, RunsNamed, Named, RunOnlyWhenTaken, Binding
  <2>3. SetTask(m, k, u)
    BY <1>2 DEF Bind
  <2>4. u.pc = "start" /\ u.row = t.row
    BY <2>2 DEF Task
  <2> HIDE DEF u
  <2>5. Fit(k, u, q) /\ u.pc \in Runners
    BY <2>1, <2>4 DEF Fit, Binding, Active, Owners, Runners
  <2>6. Rewrites(m, k, u)
    BY <2>1, <2>2, <2>4, <2>5 DEF Rewrites, Binding, Active, Taken, ActiveMember
  <2> QED BY <2>3, <2>6, ChangeHeld
<1> QED BY <1>1, <1>2

\* A task ends the delivery it works on.
LEMMA EndHeld ==
  ASSUME IInv, NEW m \in Members, NEW k \in Runs,
         Held(rows[m], task[m], member[m]),
         NEW u, SetTask(m, k, u), u.row = task[m][k].row, u.pc \in {"skip", "done"},
         NEW status \in Terminal, task[m][k].row \in RowIds,
         TheRow(m, k).status \in Active, TheRow(m, k).run \in {NoRun, k},
         SetRows(m, SetStatus(rows[m], task[m][k].row, status)),
         member'[m] \notin ActiveMember
  PROVE  Held(rows'[m], task'[m], member'[m])
<1> DEFINE i == task[m][k].row
           r == rows[m][i]
           q == rows'[m][i]
<1>1. rows[m] \in Ledger /\ rows'[m] = SetStatus(rows[m], i, status)
  BY DEF SetRows, IInv, Ledgers
<1>2. status \in Taken \ {"starting"} /\ i \in RowIds /\ r.status \in Active
      /\ r.run \in {NoRun, k}
  BY DEF Taken, Terminal, TheRow
<1>3. /\ Advances(r, q) /\ q.status = status
      /\ \A j \in RowIds \ {i} : rows'[m][j] = rows[m][j]
  <2> HIDE DEF i
  <2> QED BY <1>1, <1>2, SetStatusTurns
<1>4. Fit(k, u, q)
  BY <1>3 DEF Fit, Owners, Terminal, AtRest
<1>5. Rewrites(m, k, u)
  BY <1>2, <1>3, <1>4 DEF Rewrites, Advances, Terminal, Active
<1> QED BY <1>5, ChangeHeld

\* The error path writes its decision.
LEMMA SettleHeld ==
  ASSUME IInv, RunsNamed, NEW m \in Members, NEW k \in Runs,
         Held(rows[m], task[m], member[m]),
         SettleBound(m, k) \/ SettleStarting(m, k) \/ Mark(m, k)
  PROVE  Held(rows'[m], task'[m], member'[m])
<1> DEFINE t == task[m][k]
           r == TheRow(m, k)
<1>1. t.pc \in {"settle", "mark"}
  BY DEF SettleBound, SettleStarting, Mark
<1>2. /\ t \in Task /\ t.row \in RowIds /\ Fit(k, t, r) /\ t \in SafeTask
      /\ r.status \in {"absent", "deleted", "queued", "starting"} => r.run = NoRun
      /\ \A i \in RowIds : rows[m][i].run = k => i = t.row
  BY <1>1, AtWork, TaskIsSafe DEF AtRest, IInv, Bookkeeping
<1>3. r.status = "starting" => member[m] \notin ActiveMember
  <2>1. Single(rows[m])
    BY DEF IInv, Ledgers, Sound
  <2> QED BY <1>2, <2>1 DEF Single, ActiveRows, Active, TheRow, Held, Shown, HasBound
<1>4. CASE SettleBound(m, k)
  <2> DEFINE Mine == {i \in BoundTo(rows[m], k) : Matches(rows[m], i, t.rev, Active)}
             i    == CHOOSE i \in Mine : TRUE
             u    == AfterFailure(t)
  <2>1. r.run = k /\ r.status \in Active /\ t.rev = r.rev
    BY <1>2, <1>4 DEF SettleBound, Fit
  <2>2. t.row \in Mine
    BY <1>2, <2>1 DEF BoundTo, Matches, TheRow, Stored
  <2>3. i = t.row
    <3>1. i \in Mine
      BY <2>2
    <3> HIDE DEF i
    <3> QED BY <1>2, <3>1 DEF BoundTo
  <2>4. PICK status \in Terminal :
          /\ SetRows(m, SetStatus(rows[m], i, status))
          /\ member' = [member EXCEPT ![m] = "idle"] \/ member' = [member EXCEPT ![m] = "dead"]
    <3>1. FailOrSkip(rows[m], i) = SetStatus(rows[m], i, FailureStatus(rows[m]))
          /\ FailureStatus(rows[m]) \in Terminal /\ "completed" \in Terminal
      BY DEF FailOrSkip, FailureStatus, Terminal
    <3>2. Mine # {}
      BY <2>2
    <3>3. \/ /\ SetRows(m, SetStatus(rows[m], i, "completed"))
             /\ member' = [member EXCEPT ![m] = "idle"]
          \/ /\ SetRows(m, FailOrSkip(rows[m], i))
             /\ member' = [member EXCEPT ![m] = "dead"]
      BY <1>4, <3>2 DEF SettleBound
    <3> HIDE DEF i, Mine
    <3> QED BY <3>1, <3>3
  <2>5. member'[m] \notin ActiveMember
    BY <2>4 DEF IInv, Bookkeeping, ActiveMember
  <2>6. SetTask(m, k, u) /\ u.row = t.row /\ u.pc \in {"skip", "done"}
    BY <1>2, <1>4, AfterFailureFields DEF SettleBound
  <2> HIDE DEF u, i
  <2>7. SetRows(m, SetStatus(rows[m], t.row, status))
    BY <2>3, <2>4
  <2> QED BY <1>2, <2>1, <2>5, <2>6, <2>7, EndHeld
<1>5. ASSUME NEW u, NEW rev, NEW status \in Terminal,
             SetTask(m, k, u), u.row = t.row, u.pc \in {"skip", "done"},
             r.status = "starting" => rev = r.rev, member' = member,
             r.status = "starting" \/ Onward(k, t, u, r),
             SetRows(m, IF Matches(rows[m], t.row, rev, {"starting"})
                        THEN SetStatus(rows[m], t.row, status) ELSE rows[m])
      PROVE  Held(rows'[m], task'[m], member'[m])
  <2>1. CASE r.status = "starting"
    <3>1. Matches(rows[m], t.row, rev, {"starting"})
      BY <1>2, <1>5, <2>1 DEF Matches, TheRow
    <3>2. SetRows(m, SetStatus(rows[m], t.row, status))
      BY <1>5, <3>1
    <3>3. r.status \in Active /\ r.run \in {NoRun, k}
      BY <1>2, <2>1 DEF Active
    <3> QED BY <1>2, <1>3, <1>5, <2>1, <3>2, <3>3, EndHeld
  <2>2. CASE r.status # "starting"
    <3>1. ~Matches(rows[m], t.row, rev, {"starting"})
      BY <2>2 DEF Matches, TheRow
    <3>2. rows' = rows
      BY <1>5, <3>1 DEF SetRows, IInv, Ledgers
    <3> QED BY <1>5, <2>2, <3>2, OnwardHeld
  <2> QED BY <2>1, <2>2
<1>6. CASE SettleStarting(m, k)
  <2> DEFINE u == AfterFailure(t)
  <2>1. t.pc = "settle" /\ t.next # "running" /\ t.next \in Terminal /\ member' = member
    BY <1>2, <1>6 DEF SettleStarting, SafeTask, Terminal
  <2>2. SetTask(m, k, u) /\ u.row = t.row /\ u.pc \in {"skip", "done"}
    BY <1>2, <1>6, AfterFailureFields DEF SettleStarting
  <2>3. r.run # k /\ (r.status = "starting" => t.rev = r.rev)
        /\ r.status \notin {"absent", "queued"}
    BY <1>2, <2>1 DEF Fit
  <2> HIDE DEF u
  <2>4. r.status = "starting" \/ Onward(k, t, u, r)
    BY <2>1, <2>2, <2>3 DEF Onward, Fit, AtRest, Owners
  <2> QED BY <1>5, <1>6, <2>1, <2>2, <2>3, <2>4 DEF SettleStarting
<1>7. CASE Mark(m, k)
  <2> DEFINE u == Finished(t)
  <2>1. t.pc = "mark" /\ t.next \in Terminal /\ member' = member
    BY <1>2, <1>7 DEF Mark, SafeTask, Terminal
  <2>2. SetTask(m, k, u) /\ u.row = t.row /\ u.pc = "done"
    BY <1>2, <1>7, FinishedFields DEF Mark
  <2>3. (r.status = "starting" => t.entry = r.rev) /\ r.status \notin {"absent", "queued"}
    BY <1>2, <2>1 DEF Fit
  <2> HIDE DEF u
  <2>4. r.status = "starting" \/ Onward(k, t, u, r)
    BY <2>1, <2>2, <2>3 DEF Onward, AtRest, Starters, Runners, Owners
  <2> QED BY <1>5, <1>7, <2>1, <2>2, <2>3, <2>4 DEF Mark
<1> QED BY <1>4, <1>6, <1>7

\* The exit watcher ends.
LEMMA WatcherHeld ==
  ASSUME IInv, RunsNamed, NEW m \in Members, NEW k \in Runs,
         Held(rows[m], task[m], member[m]), WatcherEnds(m, k)
  PROVE  Held(rows'[m], task'[m], member'[m])
<1> DEFINE t == task[m][k]
           r == TheRow(m, k)
           u == [t EXCEPT !.watched = FALSE]
<1>1. t \in Task /\ SetTask(m, k, u) /\ rows' = rows /\ member' = member
  BY TaskIsSafe DEF WatcherEnds, TaskOnly, IInv, Bookkeeping
<1>2. u.pc = t.pc /\ u.row = t.row /\ u.rev = t.rev /\ u.entry = t.entry /\ u.next = t.next
  BY <1>1 DEF Task
<1>3. AtRest(t) \/ Fit(k, t, r)
  BY DEF Held, Fits, TheRow
<1> HIDE DEF u
<1>4. Onward(k, t, u, r)
  BY <1>2, <1>3 DEF Onward, Fit, AtRest
<1> QED BY <1>1, <1>4, OnwardHeld

-------------------------------------------------------------------------------
(* Deliveries that are created, claimed and handed out.                      *)

\* A task that is handed a delivery fits it, and takes it on.
LEMMA HandsOutFits ==
  ASSUME NEW T, NEW U, NEW M, NEW d, NEW k, HandsOut(T, U, M, d, k),
         k \in Runs => AtRest(U[k]) \/ Fit(k, U[k], M[U[k].row])
  PROVE  TasksFit(T, U, M, k) /\ (d # NoRow => OwnedRow(M[d], d, U))
<1>1. ASSUME NEW j \in Runs \ {k}, d # NoRow, U[j].pc = "load",
             U[j].row = d, U[j].entry = M[d].rev
      PROVE  Fit(j, U[j], M[U[j].row])
  BY <1>1 DEF HandsOut, Fit, Owners
<1>2. TasksFit(T, U, M, k)
  BY <1>1 DEF TasksFit, HandsOut
<1>3. d # NoRow => OwnedRow(M[d], d, U)
  BY DEF HandsOut, OwnedRow, Starters
<1> QED BY <1>2, <1>3

\* A step outside the tasks at work that only creates, claims and hands out.
LEMMA NewWorkHeld ==
  ASSUME IInv, RunsNamed, NEW m \in Members, NEW d \in RowIds \cup {NoRow},
         Held(rows[m], task[m], member[m]),
         HandsOut(task[m], task'[m], rows'[m], d, NoRun), member'[m] = member[m],
         \A i \in RowIds :
            \/ rows'[m][i] = rows[m][i]
            \/ /\ Claims(rows[m][i], rows'[m][i]) \/ \E n : Appears(rows[m][i], rows'[m][i], n)
               /\ rows'[m][i].status = "starting" => i = d
  PROVE  Held(rows'[m], task'[m], member'[m])
<1> DEFINE L == rows[m]
           M == rows'[m]
           T == task[m]
           U == task'[m]
           s == member[m]
<1>1. T \in [Runs -> SafeTask] /\ RunOnlyWhenTaken(L) /\ NoRun \notin Runs /\ NoRow \notin RowIds
  BY LedgerAssumption DEF IInv, Bookkeeping, Tasks, RunsNamed, Named, Runs, NoRun, RowIds, NoRow
<1>2. /\ Held(L, T, s) /\ HandsOut(T, U, M, d, NoRun)
      /\ \A i \in RowIds : \/ M[i] = L[i]
                           \/ /\ Claims(L[i], M[i]) \/ \E n : Appears(L[i], M[i], n)
                              /\ M[i].status = "starting" => i = d
  OBVIOUS
<1> HIDE DEF L, M, T, U, s
<1>3. \A i \in RowIds : \/ M[i] = L[i]
                        \/ /\ Claims(L[i], M[i]) \/ \E n : Appears(L[i], M[i], n)
                           /\ L[i].run = NoRun /\ M[i].run = NoRun
                           /\ L[i].status \notin Active
                           /\ M[i].status \in Active => i = d
  BY <1>1, <1>2 DEF RunOnlyWhenTaken, Claims, Appears, Active
<1>4. TasksFit(T, U, M, NoRun) /\ (d # NoRow => OwnedRow(M[d], d, U))
  BY <1>1, <1>2, HandsOutFits
<1>5. ForeignToOthers(L, M, NoRun)
  <2>1. ASSUME NEW i \in RowIds, NEW j \in Runs
        PROVE  Foreign(j, L[i], M[i])
    <3>1. CASE M[i] = L[i]
      BY <3>1 DEF Foreign
    <3>2. CASE (Claims(L[i], M[i]) \/ \E n : Appears(L[i], M[i], n)) /\ L[i].run = NoRun
      BY <3>2, NewIsForeign
    <3> QED BY <1>3, <3>1, <3>2
  <2> QED BY <2>1 DEF ForeignToOthers
<1>6. KeepsOwners(L, M, T, U, NoRun)
  BY <1>1, <1>3, <1>4 DEF KeepsOwners
<1>7. Fits(M, U) /\ Owned(M, U)
  BY <1>1, <1>2, <1>4, <1>5, <1>6, HeldKept
<1>8. HasBound(M) <=> HasBound(L)
  BY <1>3 DEF HasBound
<1> QED BY <1>2, <1>7, <1>8 DEF Held, Shown, M, U, s, L

\* dispatch_next_queued_message
LEMMA WakeHeld ==
  ASSUME IInv, RunsNamed, NEW m \in Members, Held(rows[m], task[m], member[m]), Wake(m)
  PROVE  Held(rows'[m], task'[m], member'[m])
<1> DEFINE d == NextClaim(rows[m])
<1>1. /\ rows'[m] = ClaimNext(rows[m]) /\ member'[m] = member[m]
      /\ HandsOut(task[m], task'[m], rows'[m], d, NoRun)
      /\ d \in RowIds \cup {NoRow} /\ rows[m] \in Ledger
  BY WakeSummary, NextClaimChosen DEF IInv, Ledgers
<1>2. \A i \in RowIds : IF i = d THEN Claims(rows[m][i], rows'[m][i])
                                 ELSE rows'[m][i] = rows[m][i]
  BY <1>1, ClaimNextClaims
<1> HIDE DEF d
<1> QED BY <1>1, <1>2, NewWorkHeld

\* persist_delivery_bundle_rows
LEMMA BundleHeld ==
  ASSUME IInv, RunsNamed, NEW n \in Messages, NEW targets \in SUBSET Members,
         PersistBundle(n, targets), NEW m \in Members, Held(rows[m], task[m], member[m])
  PROVE  Held(rows'[m], task'[m], member'[m])
<1>1. member'[m] = member[m]
  BY DEF PersistBundle
<1>2. CASE rows'[m] = rows[m] /\ task'[m] = task[m]
  BY <1>1, <1>2
<1>3. CASE \E d \in RowIds \cup {NoRow} :
              /\ HandsOut(task[m], task'[m], rows'[m], d, NoRun)
              /\ \A i \in RowIds :
                   \/ rows'[m][i] = rows[m][i]
                   \/ /\ Claims(rows[m][i], rows'[m][i]) \/ Appears(rows[m][i], rows'[m][i], n)
                      /\ rows'[m][i].status = "starting" => i = d
  BY <1>1, <1>3, NewWorkHeld
<1> QED BY <1>2, <1>3, BundleSummary

\* The stream bridge ends the delivery of its run and hands out the next.
LEMMA CommitHeld ==
  ASSUME IInv, RunsNamed, NEW m \in Members, NEW k \in Runs,
         Held(rows[m], task[m], member[m]), Commit(m, k)
  PROVE  Held(rows'[m], task'[m], member'[m])
<1> DEFINE L == rows[m]
           M == rows'[m]
           T == task[m]
           U == task'[m]
           s == member'[m]
           t == T[k]
           u == U[k]
<1>1. t.pc = "commit" /\ u.pc \in {"done", "retry"} /\ u.row = t.row
  BY CommitSummary
<1>2. /\ t \in Task /\ t.row \in RowIds /\ Fit(k, t, L[t.row]) /\ L[t.row] \in Row
      /\ \A i \in RowIds : L[i].run = k => i = t.row
      /\ T \in [Runs -> SafeTask] /\ RunOnlyWhenTaken(L) /\ Sound(L)
      /\ NoRun \notin Runs /\ NoRow \notin RowIds
  <2>1. ~AtRest(t)
    BY <1>1 DEF AtRest
  <2>2. /\ t \in Task /\ t.row \in RowIds /\ Fit(k, t, L[t.row]) /\ L[t.row] \in Row
        /\ \A i \in RowIds : L[i].run = k => i = t.row
    BY <2>1, AtWork DEF TheRow
  <2>3. T \in [Runs -> SafeTask] /\ RunOnlyWhenTaken(L) /\ Sound(L)
    BY DEF IInv, Bookkeeping, Tasks, Ledgers, RunsNamed, Named
  <2>4. NoRun \notin Runs /\ NoRow \notin RowIds
    BY LedgerAssumption DEF Runs, NoRun, RowIds, NoRow
  <2> QED BY <2>2, <2>3, <2>4
<1>3. {i \in BoundTo(L, k) : Matches(L, i, t.rev, Active)} # {}
  BY <1>1, <1>2 DEF Fit, Owners, BoundTo, Matches, Stored
<1>4. s \in {"idle", "dead"}
      /\ \E i \in RowIds, d \in RowIds \cup {NoRow} : EndsDelivery(m, k, i, d)
  BY <1>3, CommitSummary
<1>5. PICK d \in RowIds \cup {NoRow} : EndsDelivery(m, k, t.row, d)
  BY <1>2, <1>4 DEF EndsDelivery, BoundTo
<1>6. Held(L, T, member[m])
  OBVIOUS
<1>7. /\ L[t.row].status \in Active /\ L[t.row].run = k
      /\ Advances(L[t.row], M[t.row]) /\ M[t.row].status \in Terminal
      /\ \A j \in RowIds : j # t.row => \/ M[j] = L[j]
                                        \/ j = d /\ Claims(L[j], M[j]) /\ L[j].run = NoRun
      /\ HandsOut(T, U, M, d, k)
  BY <1>2, <1>5 DEF EndsDelivery, BoundTo, RunOnlyWhenTaken, Claims
<1> HIDE DEF L, M, T, U, s
<1>8. \A j \in RowIds : M[j].status \in Active => j = d /\ M[j].run = NoRun
  <2>1. \A j \in RowIds : L[j].status \in Active => j = t.row
    BY <1>2, <1>7 DEF Sound, Single, ActiveRows
  <2> QED BY <1>7, <2>1 DEF Claims, Active, Terminal
<1>9. AtRest(u) \/ Fit(k, u, M[u.row])
  BY <1>1, <1>7 DEF AtRest, Fit, Owners, Terminal
<1>10. TasksFit(T, U, M, k) /\ (d # NoRow => OwnedRow(M[d], d, U))
  BY <1>7, <1>9, HandsOutFits
<1>11. ForeignToOthers(L, M, k)
  <2>1. ASSUME NEW i \in RowIds, NEW j \in Runs \ {k}
        PROVE  Foreign(j, L[i], M[i])
    <3>1. CASE i = t.row
      BY <1>7, <3>1, AdvanceIsForeign
    <3>2. CASE M[i] = L[i]
      BY <3>2 DEF Foreign
    <3>3. CASE Claims(L[i], M[i]) /\ L[i].run = NoRun
      BY <3>3, NewIsForeign
    <3> QED BY <1>7, <3>1, <3>2, <3>3
  <2> QED BY <2>1 DEF ForeignToOthers
<1>12. KeepsOwners(L, M, T, U, k)
  BY <1>2, <1>8, <1>10 DEF KeepsOwners
<1>13. Fits(M, U) /\ Owned(M, U)
  BY <1>2, <1>6, <1>10, <1>11, <1>12, HeldKept
<1>14. s \notin ActiveMember /\ ~HasBound(M)
  BY <1>4, <1>8 DEF ActiveMember, HasBound
<1> QED BY <1>13, <1>14 DEF Held, Shown, M, U, s

\* The protocol retry is queued, and a free run is to claim it.
LEMMA RetryHeld ==
  ASSUME IInv, RunsNamed, NewestMessage, NEW m \in Members, NEW k \in Runs,
         Held(rows[m], task[m], member[m]), Retry(m, k)
  PROVE  Held(rows'[m], task'[m], member'[m])
<1> DEFINE L == rows[m]
           M == rows'[m]
           T == task[m]
           U == task'[m]
           s == member[m]
           n == sent + 1
           i == Fresh(L)
<1>1. /\ T[k].pc = "retry" /\ member'[m] = s
      /\ M = Enqueue(L, n) /\ HasRoom(L)
      /\ i \in RowIds /\ L[i].status = "absent"
      /\ U[k].pc = "done"
  BY RetrySummary
<1>2. PICK f \in Runs \ {k} : /\ T[f].pc = "free"
                              /\ U[f].pc = "reclaim" /\ U[f].row = i /\ U[f].entry = 0
                              /\ \A j \in Runs \ {k, f} : U[j] = T[j]
  BY RetrySummary
<1>3. /\ T \in [Runs -> SafeTask] /\ RunOnlyWhenTaken(L) /\ L \in Ledger
      /\ Held(L, T, s)
  BY DEF IInv, Bookkeeping, Tasks, Ledgers, RunsNamed, Named
<1>4. ~HasRowFor(L, n) /\ n \in Messages
  <2>1. sent \in Nat /\ n \in Messages
    BY LedgerAssumption DEF IInv, Bookkeeping, Retry, Messages
  <2> QED BY <2>1 DEF NewestMessage, HasRowFor
<1>5. \A j \in RowIds : IF j = i THEN Appears(L[j], M[j], n) /\ M[j].status = "queued"
                                 ELSE M[j] = L[j]
  <2>1. M = [L EXCEPT ![i] = [Blank("queued") EXCEPT !.msg = n]]
    BY <1>1, <1>4 DEF Enqueue, Insert
  <2>2. LET q == [Blank("queued") EXCEPT !.msg = n] IN
        q.status = "queued" /\ q.msg = n /\ q.run = NoRun
    <3> HIDE DEF n
    <3> QED BY DEF Blank
  <2> HIDE DEF i, M, n
  <2> QED BY <1>1, <1>3, <2>1, <2>2 DEF Appears, Ledger
<1> HIDE DEF L, M, T, U, s, n, i
<1>6. TasksFit(T, U, M, k)
  <2>1. Fit(f, U[f], M[U[f].row])
    BY <1>1, <1>2, <1>5 DEF Fit, Owners
  <2> QED BY <1>1, <1>2, <2>1 DEF TasksFit, AtRest
<1>7. ForeignToOthers(L, M, k)
  <2>1. L[i].run = NoRun
    BY <1>1, <1>3 DEF RunOnlyWhenTaken
  <2>2. ASSUME NEW x \in RowIds, NEW j \in Runs \ {k}
        PROVE  Foreign(j, L[x], M[x])
    <3>1. CASE x = i
      BY <1>5, <2>1, <3>1, NewIsForeign
    <3>2. CASE x # i
      BY <1>5, <3>2 DEF Foreign
    <3> QED BY <3>1, <3>2
  <2> QED BY <2>2 DEF ForeignToOthers
<1>8. \A j \in RowIds : M[j] = L[j] \/ (M[j].status \notin Active /\ L[j].status \notin Active)
  BY <1>1, <1>5 DEF Active
<1>9. KeepsOwners(L, M, T, U, k)
  BY <1>1, <1>8 DEF KeepsOwners, Starters, Runners, Owners
<1>10. Fits(M, U) /\ Owned(M, U)
  BY <1>3, <1>6, <1>7, <1>9, HeldKept
<1>11. HasBound(M) <=> HasBound(L)
  BY <1>8 DEF HasBound
<1> QED BY <1>1, <1>3, <1>10, <1>11 DEF Held, Shown, M, U, s

\* It claims: the retry, an older delivery, or nothing.
LEMMA ReclaimHeld ==
  ASSUME IInv, RunsNamed, NEW m \in Members, NEW k \in Runs,
         Held(rows[m], task[m], member[m]), Reclaim(m, k)
  PROVE  Held(rows'[m], task'[m], member'[m])
<1> DEFINE L == rows[m]
           M == rows'[m]
           T == task[m]
           U == task'[m]
           s == member[m]
           t == T[k]
           u == U[k]
           d == NextClaim(L)
<1>1. /\ t.pc = "reclaim" /\ member'[m] = s /\ M = ClaimNext(L)
      /\ \A j \in Runs \ {k} : U[j] = T[j]
      /\ \/ d = NoRow /\ u.pc = "done"
         \/ /\ d \in RowIds /\ M[d].status = "starting" /\ u.row = d
            /\ \/ /\ u.pc = "register" /\ t.row = d /\ u.entry = t.entry
                  /\ u.rev = M[d].rev /\ u.attempt = M[d].attempt
               \/ u.pc = "load" /\ u.entry = M[d].rev
  BY ReclaimSummary
<1>2. /\ T \in [Runs -> SafeTask] /\ RunOnlyWhenTaken(L) /\ L \in Ledger
      /\ Held(L, T, s)
  BY DEF IInv, Bookkeeping, Tasks, Ledgers, RunsNamed, Named
<1>3. t.entry = 0
  <2>1. ~AtRest(t)
    BY <1>1 DEF AtRest
  <2>2. Fit(k, t, TheRow(m, k))
    BY <2>1, AtWork
  <2> QED BY <1>1, <2>2 DEF Fit
<1>4. NoRow \notin RowIds
  BY LedgerAssumption DEF RowIds, NoRow
<1> HIDE DEF M, T, U, s
<1>5. \A j \in RowIds : IF j = d THEN Claims(L[j], M[j]) /\ L[j].run = NoRun
                                 ELSE M[j] = L[j]
  <2>1. \A j \in RowIds : IF j = d THEN Claims(L[j], M[j]) ELSE M[j] = L[j]
    <3> HIDE DEF L, d
    <3> QED BY <1>1, <1>2, ClaimNextClaims DEF d
  <2> QED BY <1>2, <2>1 DEF Claims, RunOnlyWhenTaken
<1> HIDE DEF L, d
<1>6. AtRest(u) \/ Fit(k, u, M[u.row])
  BY <1>1, <1>3 DEF AtRest, Fit, Owners
<1>7. TasksFit(T, U, M, k)
  BY <1>1, <1>6 DEF TasksFit
<1>8. ForeignToOthers(L, M, k)
  <2>1. ASSUME NEW x \in RowIds, NEW j \in Runs \ {k}
        PROVE  Foreign(j, L[x], M[x])
    <3>1. CASE x = d
      BY <1>5, <3>1, NewIsForeign
    <3>2. CASE x # d
      BY <1>5, <3>2 DEF Foreign
    <3> QED BY <3>1, <3>2
  <2> QED BY <2>1 DEF ForeignToOthers
<1>9. d # NoRow => OwnedRow(M[d], d, U)
  BY <1>1 DEF OwnedRow, Starters
<1>10. KeepsOwners(L, M, T, U, k)
  BY <1>1, <1>4, <1>5, <1>9 DEF KeepsOwners, Starters, Runners, Owners
<1>11. Fits(M, U) /\ Owned(M, U)
  BY <1>2, <1>7, <1>8, <1>10, HeldKept
<1>12. HasBound(M) <=> HasBound(L)
  BY <1>5 DEF HasBound, Claims, Active
<1> QED BY <1>1, <1>2, <1>11, <1>12 DEF Held, Shown, M, U, s

\* Every step of a task.
LEMMA RunHeld ==
  ASSUME IInv, RunsNamed, NewestMessage, "late" \notin Events,
         NEW m \in Members, NEW k \in Runs,
         Held(rows[m], task[m], member[m]), RunOf(m, k)
  PROVE  Held(rows'[m], task'[m], member'[m])
<1>1. CASE FaultOf(m, k) \/ Load(m, k) \/ Register(m, k) \/ Start(m, k)
           \/ StartStopped(m, k) \/ ExecutorOf(m, k) \/ DropControl(m, k)
  BY <1>1, DispatchHeld, ExecutionHeld DEF FaultOf
<1>2. CASE ApprovalOf(m, k) \/ WatcherEnds(m, k) \/ Bind(m, k)
  BY <1>2, ApprovalHeld, WatcherHeld, BindHeld
<1>3. CASE Finalize(m, k) \/ Fail(m, k) \/ Skip(m, k) \/ SettleBound(m, k)
           \/ SettleStarting(m, k) \/ Mark(m, k)
  BY <1>3, DecisionHeld, SettleHeld
<1>4. CASE Commit(m, k) \/ Retry(m, k) \/ Reclaim(m, k)
  BY <1>4, CommitHeld, RetryHeld, ReclaimHeld
<1> QED BY <1>1, <1>2, <1>3, <1>4 DEF RunOf, TaskStepOf, FaultOf

-------------------------------------------------------------------------------
(* The queue and recovery.                                                   *)

\* A step that changes no task and no delivery in flight.
LEMMA QuietHeld ==
  ASSUME IInv, NEW m \in Members, Held(rows[m], task[m], member[m]),
         task'[m] = task[m], member'[m] = member[m],
         \A i \in RowIds :
           \/ rows'[m][i] = rows[m][i]
           \/ /\ rows[m][i].status \notin Active /\ rows'[m][i].status \notin Active
              /\ \A j \in Runs : Foreign(j, rows[m][i], rows'[m][i])
  PROVE  Held(rows'[m], task'[m], member'[m])
<1> DEFINE L == rows[m]
           M == rows'[m]
           T == task[m]
           s == member[m]
<1>1. T \in [Runs -> SafeTask] /\ Held(L, T, s) /\ NoRun \notin Runs
  BY LedgerAssumption DEF IInv, Bookkeeping, Tasks, Runs, NoRun
<1>2. \A i \in RowIds :
         \/ M[i] = L[i]
         \/ /\ L[i].status \notin Active /\ M[i].status \notin Active
            /\ \A j \in Runs : Foreign(j, L[i], M[i])
  OBVIOUS
<1> HIDE DEF L, M, T, s
<1>3. TasksFit(T, T, M, NoRun)
  BY <1>1 DEF TasksFit
<1>4. ForeignToOthers(L, M, NoRun)
  BY <1>2 DEF ForeignToOthers, Foreign
<1>5. KeepsOwners(L, M, T, T, NoRun)
  BY <1>1, <1>2 DEF KeepsOwners
<1>6. Fits(M, T) /\ Owned(M, T)
  BY <1>1, <1>3, <1>4, <1>5, HeldKept
<1>7. HasBound(M) <=> HasBound(L)
  BY <1>2 DEF HasBound
<1> QED BY <1>1, <1>6, <1>7 DEF Held, Shown, L, M, T, s

\* continue_member_queue answers failures; delete_queue_item takes a delivery
\* that waits.
LEMMA QueueHeld ==
  ASSUME IInv, RunsNamed, NEW m \in Members, Held(rows[m], task[m], member[m]),
         Continue(m) \/ \E i \in RowIds : Unqueue(m, i)
  PROVE  Held(rows'[m], task'[m], member'[m])
<1>1. rows[m] \in Ledger /\ RunOnlyWhenTaken(rows[m])
  BY DEF IInv, Ledgers, RunsNamed, Named
<1>2. CASE Continue(m)
  <2>1. task' = task /\ member' = member /\ rows'[m] = ResolveFailed(rows[m])
    BY <1>2 DEF Continue, SetRows, IInv, Ledgers
  <2>2. \A i \in RowIds : rows'[m][i] = rows[m][i] \/ Resolves(rows[m][i], rows'[m][i])
    BY <1>1, <2>1, ResolveFailedTurns
  <2> QED BY <2>1, <2>2, QuietHeld DEF Resolves, Foreign, Active
<1>3. ASSUME NEW i \in RowIds, Unqueue(m, i)
      PROVE  Held(rows'[m], task'[m], member'[m])
  <2>1. /\ task' = task /\ member' = member /\ rows[m][i].status = "queued"
        /\ rows'[m] = [rows[m] EXCEPT ![i] = Blank("deleted")]
    BY <1>3 DEF Unqueue, DeleteOnly, SetRows, DeleteRow, IInv, Ledgers
  <2>2. rows[m][i].run = NoRun
    BY <1>1, <2>1 DEF RunOnlyWhenTaken
  <2>3. \A j \in RowIds : IF j = i THEN rows'[m][j] = Blank("deleted")
                                   ELSE rows'[m][j] = rows[m][j]
    BY <1>1, <2>1 DEF Ledger
  <2>4. \A j \in Runs : Foreign(j, rows[m][i], rows'[m][i])
    BY <2>1, <2>2, <2>3, NewIsForeign
  <2>5. rows[m][i].status \notin Active /\ rows'[m][i].status \notin Active
    BY <2>1, <2>3 DEF Active, Blank
  <2> QED BY <2>1, <2>3, <2>4, <2>5, QuietHeld
<1> QED BY <1>2, <1>3

-------------------------------------------------------------------------------
(* A member that nobody stops, whose messages nobody deletes, and whose      *)
(* approvals are over before the backend dies.                               *)

LeftAlone == /\ Events \cap {"stop", "remove", "unanswered", "relapse", "late"} = {}
             /\ ~({"unqueue", "resend"} \subseteq Events)

\* No stop call serves the member; until it has recovered nobody works for it;
\* its tasks and deliveries are in order unless recovery is about to return what
\* was in flight.
SteadyAt(m) ==
  /\ stop[m] = NoStop
  /\ recovering[m] # "none" => wake[m] = 0 /\ \A k \in Runs : AtRest(task[m][k])
  /\ recovering[m] \in {"none", "resume"} => Held(rows[m], task[m], member[m])
  /\ recovering[m] = "requeue" => member[m] = "idle"

SteadyIInv ==
  /\ IInv /\ RunsNamed /\ NewestMessage
  /\ "unqueue" \notin Events => unqueue.pc = "idle"
  /\ "resend" \notin Events => NothingLeft
  /\ \A m \in Members : SteadyAt(m)

\* What a step leaves of member m.
SameAt(m) == /\ rows'[m] = rows[m] /\ task'[m] = task[m] /\ member'[m] = member[m]
             /\ stop'[m] = stop[m] /\ wake'[m] = wake[m] /\ recovering'[m] = recovering[m]

LEMMA SameSteady ==
  ASSUME NEW m, SteadyAt(m), SameAt(m)
  PROVE  SteadyAt(m)'
BY DEF SteadyAt, SameAt

LEMMA ServedSteady ==
  ASSUME NEW m, SteadyAt(m), recovering[m] = "none", recovering'[m] = "none",
         stop'[m] = stop[m],
         Held(rows[m], task[m], member[m]) => Held(rows'[m], task'[m], member'[m])
  PROVE  SteadyAt(m)'
BY DEF SteadyAt

\* A step of a task concerns its member alone.
LEMMA RunIsLocal ==
  ASSUME IInv, NEW x \in Members, NEW k \in Runs, RunOf(x, k)
  PROVE  /\ UNCHANGED <<stop, wake, recovering>>
         /\ \A m \in Members : m # x => SameAt(m)
<1>1. UNCHANGED <<stop, wake, recovering>>
  <2>1. CASE FaultOf(x, k) \/ ExecutorOf(x, k) \/ ApprovalOf(x, k) \/ WatcherEnds(x, k)
    BY <2>1 DEF FaultOf, LoadFault, PrepareFault, StartFault, ExecutorOf, Exit,
       ApprovalOf, AskApproval, LeaveApproval, WatcherEnds, TaskOnly
  <2>2. CASE TaskStepOf(x, k)
    BY <2>2 DEF TaskStepOf, Load, Register, Bind, Start, StartStopped, Finalize, Retry,
       Commit, Reclaim, DropControl, Fail, SettleBound, SettleStarting, Skip, Mark, TaskOnly
  <2> QED BY <2>1, <2>2 DEF RunOf
<1>2. CASE Commit(x, k) \/ Retry(x, k) \/ Reclaim(x, k)
  <2>1. OnlyAt(x)
    BY <1>2, CommitSummary, RetrySummary, ReclaimSummary
  <2> QED BY <1>1, <2>1 DEF OnlyAt, SameAt
<1>3. ASSUME NEW M, SetRows(x, M)
      PROVE  \A m \in Members : m # x => rows'[m] = rows[m]
  BY <1>3 DEF SetRows, IInv, Ledgers
<1>4. ASSUME NEW s, member' = [member EXCEPT ![x] = s]
      PROVE  \A m \in Members : m # x => member'[m] = member[m]
  BY <1>4 DEF IInv, Bookkeeping
<1>5. ASSUME NEW u, SetTask(x, k, u)
      PROVE  \A m \in Members : m # x => task'[m] = task[m]
  BY <1>5, OneTaskSet DEF IInv, Bookkeeping
<1>6. CASE Bind(x, k)
  <2>1. \A m \in Members : m # x => task'[m] = task[m]
    BY <1>5, <1>6 DEF Bind
  <2>2. \A m \in Members : m # x => rows'[m] = rows[m] /\ member'[m] = member[m]
    BY <1>3, <1>4, <1>6 DEF Bind
  <2> QED BY <1>1, <2>1, <2>2 DEF SameAt
<1>7. CASE OwnTaskStep(x, k) /\ ~Bind(x, k)
  <2>1. \A m \in Members : m # x => task'[m] = task[m]
    BY <1>7, OwnStepKeeps
  <2>2. CASE ApprovalOf(x, k)
    <3>1. UNCHANGED rows \/ \E M : SetRows(x, M)
      BY <2>2 DEF ApprovalOf, AskApproval, LeaveApproval, Approval
    <3>2. member' = member
      BY <2>2 DEF ApprovalOf, AskApproval, LeaveApproval
    <3> QED BY <1>1, <1>3, <2>1, <3>1, <3>2 DEF SameAt
  <2>3. CASE SettleBound(x, k)
    <3> DEFINE Mine == {j \in BoundTo(rows[x], k) : Matches(rows[x], j, task[x][k].rev, Active)}
               i    == CHOOSE i \in Mine : TRUE
    <3>1. \/ UNCHANGED <<rows, member>>
          \/ /\ SetRows(x, SetStatus(rows[x], i, "completed"))
             /\ member' = [member EXCEPT ![x] = "idle"]
          \/ /\ SetRows(x, FailOrSkip(rows[x], i))
             /\ member' = [member EXCEPT ![x] = "dead"]
      BY <2>3 DEF SettleBound
    <3> HIDE DEF i
    <3> QED BY <1>1, <1>3, <1>4, <2>1, <3>1 DEF SameAt
  <2>4. CASE SettleStarting(x, k) \/ Mark(x, k)
    <3>1. (\E M : SetRows(x, M)) /\ member' = member
      BY <2>4 DEF SettleStarting, Mark
    <3> QED BY <1>1, <1>3, <2>1, <3>1 DEF SameAt
  <2>5. CASE ~(ApprovalOf(x, k) \/ SettleBound(x, k) \/ SettleStarting(x, k) \/ Mark(x, k))
    <3>1. UNCHANGED <<rows, member>>
      <4>1. CASE ExecutorOf(x, k)
        BY <4>1 DEF ExecutorOf, Exit, TaskOnly
      <4>2. CASE ~ExecutorOf(x, k)
        BY <1>7, <2>5, <4>2 DEF OwnTaskStep, Load, LoadFault, Register, PrepareFault, Start,
           StartStopped, StartFault, ApprovalOf, WatcherEnds, Finalize, DropControl, Fail,
           Skip, TaskOnly
      <4> QED BY <4>1, <4>2
    <3> QED BY <1>1, <2>1, <3>1 DEF SameAt
  <2> QED BY <2>2, <2>3, <2>4, <2>5
<1>8. OwnTaskStep(x, k) \/ Commit(x, k) \/ Retry(x, k) \/ Reclaim(x, k)
  BY DEF RunOf, TaskStepOf, FaultOf, OwnTaskStep
<1> QED BY <1>1, <1>2, <1>6, <1>7, <1>8

\* A task that has ended, or that nobody has taken, does nothing but let its
\* exit watcher end.
LEMMA RunWorks ==
  ASSUME "late" \notin Events, NEW x \in Members, NEW k \in Runs, RunOf(x, k)
  PROVE  WatcherEnds(x, k) \/ ~AtRest(task[x][k])
<1>1. CASE ApprovalOf(x, k)
  BY <1>1 DEF ApprovalOf, AskApproval, LeaveApproval, Spend, AtRest
<1>2. CASE ExecutorOf(x, k)
  BY <1>2 DEF ExecutorOf, Exit, AtRest
<1>3. CASE FaultOf(x, k)
  BY <1>3 DEF FaultOf, LoadFault, PrepareFault, StartFault, AtRest
<1>4. CASE TaskStepOf(x, k)
  BY <1>4 DEF TaskStepOf, Load, Register, Bind, Start, StartStopped, Finalize, Retry,
     Commit, Reclaim, DropControl, Fail, SettleBound, SettleStarting, Skip, Mark, AtRest
<1> QED BY <1>1, <1>2, <1>3, <1>4 DEF RunOf

\* A step of a task keeps every member steady.
LEMMA RunSteady ==
  ASSUME SteadyIInv, LeftAlone, NEW x \in Members, NEW k \in Runs, RunOf(x, k),
         NEW m \in Members
  PROVE  SteadyAt(m)'
<1>1. /\ IInv /\ RunsNamed /\ NewestMessage /\ SteadyAt(m) /\ "late" \notin Events
      /\ UNCHANGED <<stop, wake, recovering>>
      /\ m # x => SameAt(m)
  BY RunIsLocal DEF SteadyIInv, LeftAlone
<1>2. CASE m # x
  BY <1>1, <1>2, SameSteady
<1>3. CASE m = x /\ recovering[m] = "none"
  <2>1. Held(rows[m], task[m], member[m]) => Held(rows'[m], task'[m], member'[m])
    BY <1>1, <1>3, RunHeld
  <2> QED BY <1>1, <1>3, <2>1, ServedSteady
<1>4. CASE m = x /\ recovering[m] # "none"
  <2>1. WatcherEnds(x, k) /\ \A j \in Runs : AtRest(task[m][j])
    BY <1>1, <1>4, RunWorks DEF SteadyAt
  <2>2. rows' = rows /\ member' = member
    BY <2>1 DEF WatcherEnds, TaskOnly
  <2>3. \A j \in Runs : task'[m][j].pc = task[m][j].pc
    <3> DEFINE u == [task[x][k] EXCEPT !.watched = FALSE]
    <3>1. SetTask(x, k, u) /\ task \in Tasks /\ task[x][k] \in Task
      BY <1>1, <2>1, TaskIsSafe DEF WatcherEnds, IInv, Bookkeeping
    <3>2. u.pc = task[x][k].pc
      BY <3>1 DEF Task
    <3> HIDE DEF u
    <3> QED BY <1>4, <3>1, <3>2, OneTaskSet
  <2>4. Held(rows[m], task[m], member[m]) => Held(rows'[m], task'[m], member'[m])
    BY <1>1, <1>4, <2>1, WatcherHeld
  <2> QED BY <1>1, <2>1, <2>2, <2>3, <2>4 DEF SteadyAt, AtRest
<1> QED BY <1>2, <1>3, <1>4

\* Sends, the queue, and wake-ups.
LEMMA QueueSteady ==
  ASSUME SteadyIInv, LeftAlone, NEW m \in Members,
         \/ \E targets \in SUBSET Members : Send(targets)
         \/ \E n \in Messages : Resend(n)
         \/ \E x \in Members : Continue(x) \/ Wake(x) \/ \E i \in RowIds : Unqueue(x, i)
         \/ UnqueueStep
  PROVE  SteadyAt(m)'
<1>1. IInv /\ RunsNamed /\ SteadyAt(m)
  BY DEF SteadyIInv
<1>2. ASSUME Serving, NEW n \in Messages, NEW targets \in SUBSET Members,
             PersistBundle(n, targets)
      PROVE  SteadyAt(m)'
  <2>1. recovering[m] = "none" /\ UNCHANGED <<recovering, stop>>
    BY <1>2 DEF Serving, PersistBundle
  <2>2. Held(rows[m], task[m], member[m]) => Held(rows'[m], task'[m], member'[m])
    BY <1>1, <1>2, BundleHeld
  <2> QED BY <1>1, <2>1, <2>2, ServedSteady
<1>3. CASE \E targets \in SUBSET Members : Send(targets)
  <2>1. PICK targets \in SUBSET Members : Send(targets)
    BY <1>3
  <2>2. sent + 1 \in Messages
    BY <1>1, <2>1, RoomIsRoom DEF Send, IInv, Bookkeeping
  <2> QED BY <1>2, <2>1, <2>2 DEF Send
<1>4. CASE \E n \in Messages : Resend(n)
  <2>1. PICK n \in Messages : Resend(n)
    BY <1>4
  <2>2. message[n].targets \in SUBSET Members
    BY <1>1 DEF IInv, Bookkeeping, MessageRow
  <2> QED BY <1>2, <2>1, <2>2 DEF Resend
<1>5. ASSUME NEW x \in Members, Continue(x) \/ Wake(x) \/ \E i \in RowIds : Unqueue(x, i)
      PROVE  SteadyAt(m)'
  <2>1. UNCHANGED <<member, stop, recovering>>
    BY <1>5 DEF Continue, Wake, Unqueue, DeleteOnly
  <2>2. CASE m # x
    <3>1. rows'[m] = rows[m] /\ task'[m] = task[m]
      BY <1>1, <1>5, <2>2, WakeSummary DEF Continue, Unqueue, DeleteOnly, SetRows, IInv, Ledgers
    <3>2. wake'[m] = wake[m]
      BY <1>1, <1>5, <2>2 DEF Continue, Wake, Unqueue, DeleteOnly, IInv, Bookkeeping
    <3> QED BY <1>1, <2>1, <3>1, <3>2, SameSteady DEF SameAt
  <2>3. CASE m = x
    <3>1. recovering[m] = "none"
      BY <1>1, <1>5, <2>3 DEF Continue, Wake, Unqueue, Serving, SteadyAt
    <3>2. Held(rows[m], task[m], member[m]) => Held(rows'[m], task'[m], member'[m])
      BY <1>1, <1>5, <2>3, WakeHeld, QueueHeld
    <3> QED BY <1>1, <2>1, <3>1, <3>2, ServedSteady
  <2> QED BY <2>2, <2>3
<1>6. CASE UnqueueStep
  <2>1. UnqueueErase => NothingLeft
    BY DEF UnqueueErase, SteadyIInv, LeftAlone
  <2>2. rows' = rows
    BY <1>1, <1>6, <2>1, ErasesNothing DEF UnqueueStep, UnqueueCount
  <2>3. UNCHANGED <<member, task, wake, stop, recovering>>
    BY <1>6 DEF UnqueueStep, UnqueueCount, UnqueueErase, DeleteOnly
  <2> QED BY <1>1, <2>2, <2>3, SameSteady DEF SameAt
<1> QED BY <1>3, <1>4, <1>5, <1>6

\* Recovery makes the member idle, returns what was in flight, and lets go.
LEMMA RecoverySteady ==
  ASSUME SteadyIInv, NEW x \in Members, RecoveryOf(x), NEW m \in Members
  PROVE  SteadyAt(m)'
<1>1. IInv /\ SteadyAt(m) /\ UNCHANGED <<task, stop>>
  BY DEF SteadyIInv, RecoveryOf, RecoverReset, RecoverRequeue, RecoverResume, RecoverOnly
<1>2. CASE m # x
  <2>1. SameAt(m)
    BY <1>1, <1>2 DEF SameAt, RecoveryOf, RecoverReset, RecoverRequeue, RecoverResume,
       RecoverOnly, SetRows, IInv, Ledgers, Bookkeeping
  <2> QED BY <1>1, <2>1, SameSteady
<1>3. CASE m = x /\ RecoverReset(x)
  <2>1. /\ recovering[m] = "reset" /\ recovering'[m] = "requeue"
        /\ member'[m] = "idle" /\ wake' = wake
    BY <1>1, <1>3 DEF RecoverReset, IInv, Bookkeeping
  <2> QED BY <1>1, <2>1 DEF SteadyAt
<1>4. CASE m = x /\ RecoverRequeue(x)
  <2> DEFINE L == rows[m]
             M == rows'[m]
             i == ActiveRow(L)
  <2>1. /\ recovering[m] = "requeue" /\ recovering'[m] = "resume"
        /\ member' = member /\ wake' = wake
        /\ M = IF i = NoRow THEN L ELSE Requeue(L, i)
    BY <1>1, <1>4 DEF RecoverRequeue, RecoverOnly, SetRows, IInv, Bookkeeping, Ledgers
  <2>2. L \in Ledger /\ Sound(L) /\ NoRow \notin RowIds
    BY <1>1, LedgerAssumption DEF IInv, Ledgers, RowIds, NoRow
  <2>3. \A j \in RowIds : M[j].status \notin Active
    <3>1. \A j \in RowIds : L[j].status \in Active => j = i /\ i # NoRow
      BY <2>2, ActiveRowChosen DEF Sound, Single, ActiveRows
    <3>2. CASE i = NoRow
      BY <2>1, <3>1, <3>2
    <3>3. CASE i # NoRow
      <4>1. i \in RowIds
        BY <3>3, ActiveRowChosen
      <4> HIDE DEF i, M
      <4>2. /\ M[i].status = "queued"
            /\ \A j \in RowIds : j # i => M[j] = L[j]
        BY <2>1, <2>2, <3>3, <4>1 DEF Requeue, Ledger, Row
      <4> QED BY <3>1, <4>2 DEF Active
    <3> QED BY <3>2, <3>3
  <2>4. Held(M, task'[m], member'[m])
    BY <1>1, <2>1, <2>3 DEF SteadyAt, Held, Fits, Owned, OwnedRow, Shown, HasBound,
       Active, ActiveMember
  <2> QED BY <1>1, <2>1, <2>4 DEF SteadyAt
<1>5. CASE m = x /\ RecoverResume(x)
  <2>1. /\ recovering[m] = "resume" /\ recovering'[m] = "none"
        /\ UNCHANGED <<rows, member>>
    BY <1>1, <1>5 DEF RecoverResume, IInv, Bookkeeping
  <2> QED BY <1>1, <2>1 DEF SteadyAt
<1> QED BY <1>2, <1>3, <1>4, <1>5 DEF RecoveryOf

\* After a crash no task works, and recovery owes the member whatever was in
\* flight: a bound delivery shows in its member, a starting one names no run.
LEMMA CrashSteady ==
  ASSUME SteadyIInv, LeftAlone, Crash, NEW m \in Members
  PROVE  SteadyAt(m)'
<1> DEFINE L == rows[m]
<1>1. IInv /\ RunsNamed /\ SteadyAt(m) /\ RunOnlyWhenTaken(L)
  BY DEF SteadyIInv, RunsNamed, Named
<1>2. PICK unanswered \in SUBSET MayWait :
        /\ Spend(IF unanswered # {} THEN "unanswered"
                 ELSE IF Serving THEN "crash" ELSE "relapse")
        /\ ExpireOrphaned(unanswered)
        /\ wake' = [x \in Members |-> 0]
        /\ stop' = [x \in Members |-> NoStop]
        /\ recovering' = [x \in Members |->
             IF \/ member'[x] \in ActiveMember
                \/ \E i \in RowIds : /\ rows[x][i].status = "starting"
                                     /\ rows[x][i].run = NoRun
             THEN "reset"
             ELSE IF HasQueued(rows[x]) THEN "resume" ELSE "none"]
        /\ rows' = rows
  BY Zenon DEF Crash
<1>3. unanswered = {} /\ Serving
  BY <1>2 DEF Spend, LeftAlone
<1>4. member'[m] = member[m]
  BY <1>2, <1>3 DEF ExpireOrphaned
<1>5. \A k \in Runs : AtRest(task'[m][k])
  BY <1>1, CrashEnds DEF AtRest, IdleTask
<1>6. /\ wake'[m] = 0 /\ stop'[m] = NoStop /\ recovering'[m] # "requeue"
      /\ recovering'[m] # "reset" =>
           /\ member[m] \notin ActiveMember
           /\ ~\E i \in RowIds : L[i].status = "starting" /\ L[i].run = NoRun
  BY <1>2, <1>4
<1>7. ASSUME recovering'[m] # "reset"
      PROVE  Held(rows'[m], task'[m], member'[m])
  <2>1. Held(L, task[m], member[m])
    BY <1>1, <1>3 DEF Serving, SteadyAt
  <2>2. \A i \in RowIds : L[i].status \notin Active
    <3>1. NoRun \notin Runs
      BY LedgerAssumption DEF Runs, NoRun
    <3> HIDE DEF L
    <3> QED BY <1>1, <1>6, <1>7, <2>1, <3>1 DEF Held, Owned, OwnedRow, Shown, HasBound,
            RunOnlyWhenTaken
  <2> QED BY <1>2, <1>4, <1>5, <1>6, <1>7, <2>2 DEF Held, Fits, Owned, OwnedRow, Shown,
          HasBound, Active
<1> QED BY <1>5, <1>6, <1>7 DEF SteadyAt

LEMMA StepSteady == LeftAlone /\ SteadyIInv /\ [Next]_vars => SteadyIInv'
<1> SUFFICES ASSUME LeftAlone, SteadyIInv, [Next]_vars PROVE SteadyIInv'
  OBVIOUS
<1>1. /\ IInv /\ RunsNamed /\ NewestMessage
      /\ IInv' /\ RunsNamed' /\ NewestMessage'
  <2>1. IInv /\ RunsNamed /\ NewestMessage
    BY DEF SteadyIInv
  <2>2. IInv' /\ RunsNamed'
    BY <2>1, StepNames DEF RunsIInv
  <2> QED BY <2>1, <2>2, NewestIsSent
<1>2. "unqueue" \notin Events => unqueue'.pc = "idle"
  BY UnqueueMoves DEF SteadyIInv, UnqueueCount, Unqueue, Spend, NoUnqueue
<1>3. "resend" \notin Events => NothingLeft'
  BY <1>1, NothingLeftStays DEF SteadyIInv, UnqueueIInv
<1>4. ASSUME NEW m \in Members
      PROVE  SteadyAt(m)'
  <2>1. CASE \E x \in Members, k \in Runs : RunOf(x, k)
    BY <2>1, RunSteady
  <2>2. CASE \/ \E targets \in SUBSET Members : Send(targets)
             \/ \E n \in Messages : Resend(n)
             \/ \E x \in Members : Continue(x) \/ Wake(x) \/ \E i \in RowIds : Unqueue(x, i)
             \/ UnqueueStep
    BY <2>2, QueueSteady
  <2>3. CASE (\E x \in Members : RecoveryOf(x)) \/ Crash
    BY <2>3, RecoverySteady, CrashSteady
  <2>4. \A n \in Messages : ~RemoveMessage(n)
    BY DEF RemoveMessage, Spend, LeftAlone
  <2>5. \A x \in Members : ~StopRequest(x) /\ ~StopStepOf(x)
    BY DEF StopRequest, Spend, LeftAlone, SteadyIInv, SteadyAt, NoStop, StopStepOf, StopFind,
       StopLookup, StopTransition, StopCancel, StopReset, StopList, StopRequeue
  <2>6. CASE UNCHANGED vars
    BY <2>6, SameSteady DEF SteadyIInv, SameAt, vars, persistent, memory
  <2> QED BY <2>1, <2>2, <2>3, <2>4, <2>5, <2>6 DEF Next
<1> QED BY <1>1, <1>2, <1>3, <1>4 DEF SteadyIInv

LEMMA InitSteady == Init => SteadyIInv
<1> SUFFICES ASSUME Init PROVE SteadyIInv
  OBVIOUS
<1>1. IInv /\ RunsNamed
  BY InitNames DEF RunsIInv
<1>2. \A m \in Members : /\ \A i \in RowIds : rows[m][i] = Blank("absent")
                         /\ \A k \in Runs : task[m][k].pc = "free"
                         /\ member[m] = "idle" /\ stop[m] = NoStop /\ recovering[m] = "none"
  BY DEF Init, EmptyLedger, IdleTask
<1>3. NewestMessage /\ NothingLeft /\ unqueue.pc = "idle"
  BY DEF Init, NewestMessage, EmptyLedger, Blank, Stored, Active, Terminal, Exists,
     NoSuchMessage, NothingLeft, NoUnqueue
<1>4. ASSUME NEW m \in Members
      PROVE  SteadyAt(m)
  <2>1. Held(rows[m], task[m], member[m])
    BY <1>2 DEF Held, Fits, AtRest, Owned, OwnedRow, Shown, HasBound, Blank, Active, ActiveMember
  <2> QED BY <1>2, <2>1 DEF SteadyAt
<1> QED BY <1>1, <1>3, <1>4 DEF SteadyIInv

LEMMA Steadiness ==
  ASSUME LeftAlone
  PROVE  Spec => []SteadyIInv
<1>1. SteadyIInv /\ [Next]_vars => SteadyIInv'
  BY StepSteady
<1> QED BY <1>1, InitSteady, PTL DEF Spec

\* What a steady member's invariant says in any state.
LEMMA SteadySays ==
  ASSUME SteadyIInv, NEW m \in Members
  PROVE  /\ \A k \in Runs : AtRest(task[m][k]) \/ Fit(k, task[m][k], TheRow(m, k))
         /\ recovering[m] = "none" => Held(rows[m], task[m], member[m])
         /\ recovering[m] \notin {"reset", "requeue"} => Owned(rows[m], task[m])
<1>1. SteadyAt(m) /\ recovering[m] \in Recovery
  BY DEF SteadyIInv, IInv, Bookkeeping
<1> QED BY <1>1 DEF SteadyAt, Held, Fits, TheRow, Recovery

\* No orphaned lease: a delivery in flight has a task at work on it, and once it
\* is bound that is the task of its run; or startup recovery is about to return
\* it to the queue (claim_next, bind_delivery_to_new_run, recover_inflight_cas).
THEOREM NoDeliveryIsOrphaned ==
  ASSUME LeftAlone
  PROVE  Spec => []NoOrphanedDelivery
<1>1. SteadyIInv => NoOrphanedDelivery
  <2> SUFFICES ASSUME SteadyIInv, NEW m \in Members, NEW i \in ActiveRows(rows[m]),
                      recovering[m] \notin {"reset", "requeue"}
               PROVE  \E k \in Runs : /\ Working(m, k) /\ task[m][k].row = i
                                      /\ rows[m][i].run \in {NoRun, k}
    BY DEF NoOrphanedDelivery
  <2>1. /\ OwnedRow(rows[m][i], i, task[m]) /\ rows[m][i].status \in Active
        /\ rows[m][i].status = "starting" => rows[m][i].run = NoRun
    BY SteadySays DEF Owned, ActiveRows, SteadyIInv, RunsNamed, Named, RunOnlyWhenTaken
  <2> QED BY <2>1 DEF OwnedRow, Working, Starters, Runners, Owners
<1> QED BY <1>1, Steadiness, PTL

\* An executor that runs, or whose end is not accounted for, owns its delivery:
\* it is in flight and bound to this run, so the end finds it
\* (find_by_run_id, finalize_run_and_claim_next).
THEOREM ExecutorsOwnTheirDelivery ==
  ASSUME LeftAlone
  PROVE  Spec => []ExecutorOwnsDelivery
<1>1. SteadyIInv => ExecutorOwnsDelivery
  BY SteadySays DEF ExecutorOwnsDelivery, Fit, Owners, AtRest
<1> QED BY <1>1, Steadiness, PTL

\* A member never has two executors.
THEOREM OneExecutorPerMember ==
  ASSUME LeftAlone
  PROVE  Spec => []OneExecutor
<1>1. SteadyIInv => OneExecutor
  <2> SUFFICES ASSUME SteadyIInv, NEW m \in Members, NEW k \in Runs, NEW l \in Runs,
                      task[m][k].pc = "execute", task[m][l].pc = "execute"
               PROVE  k = l
    BY DEF OneExecutor
  <2>1. /\ TheRow(m, k).run = k /\ TheRow(m, k).status \in Active
        /\ TheRow(m, l).run = l /\ TheRow(m, l).status \in Active
    BY SteadySays DEF Fit, Owners, AtRest
  <2>2. task[m][k].row \in RowIds /\ task[m][l].row \in RowIds /\ Single(rows[m])
    BY TaskIsSafe DEF SteadyIInv, IInv, Bookkeeping, SafeTask, Ledgers, Sound
  <2>3. task[m][k].row = task[m][l].row
    BY <2>1, <2>2 DEF Single, ActiveRows, TheRow
  <2> QED BY <2>1, <2>3 DEF TheRow
<1> QED BY <1>1, Steadiness, PTL

\* The member row is active exactly while a delivery of the member is bound and
\* in flight (chat_session_agents.state against chat_message_queue).
THEOREM MembersShowTheirDelivery ==
  ASSUME LeftAlone
  PROVE  Spec => []MemberShowsDelivery
<1>1. SteadyIInv => MemberShowsDelivery
  <2> SUFFICES ASSUME SteadyIInv, NEW m \in Members, recovering[m] = "none"
               PROVE  member[m] \in ActiveMember
                        <=> \E i \in ActiveRows(rows[m]) : rows[m][i].run # NoRun
    BY DEF MemberShowsDelivery
  <2>1. Shown(rows[m], member[m])
    BY SteadySays DEF Held
  <2> QED BY <2>1 DEF Shown, HasBound, ActiveRows
<1> QED BY <1>1, Steadiness, PTL
================================================================================
