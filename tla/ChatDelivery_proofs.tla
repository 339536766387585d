-------------------------- MODULE ChatDelivery_proofs --------------------------
(***************************************************************************)
(* Theorems about ChatDelivery, for every set of members, every set of     *)
(* events and every bound.                                                 *)
(*                                                                         *)
(* The argument has two halves.  The first is about DeliveryLedger alone:  *)
(* what the statements do to one member's ledger.  `Sound` is the          *)
(* invariant they keep; `Statement` is the disjunction of them, with the   *)
(* conditions under which the handlers of ChatDelivery run them.           *)
(*                                                                         *)
(* The second: a step of the system runs at most one Statement against     *)
(* each member's ledger (lemma NextRunsStatements), which reduces every    *)
(* property of the ledgers to a fact about single statements.  That the    *)
(* statements meet their conditions rests on what tasks and stop calls     *)
(* carry between two of their steps, which `SafeTask` and `SafeStop` say.  *)
(***************************************************************************)
EXTENDS ChatDelivery, FiniteSetTheorems, TLAPS

-------------------------------------------------------------------------------
(* The invariant of one ledger. *)

Ended == Terminal \cup {"deleted"}
Taken == Active \cup Terminal

\* Row ids are handed out from below.
Dense(L) == \A i, j \in RowIds :
    i < j /\ L[i].status = "absent" => L[j].status = "absent"

Single(L) == \A i, j \in ActiveRows(L) : i = j

Ordered(L) == \A i, j \in RowIds :
    i < j /\ L[j].status \in Taken => L[i].status \in Ended

OnePerMessage(L) == \A i, j \in RowIds :
    /\ L[i].status \in Stored /\ L[j].status \in Stored
    /\ L[i].msg = L[j].msg
    => i = j

Sound(L) == /\ L \in Ledger
            /\ Dense(L) /\ Single(L) /\ Ordered(L) /\ OnePerMessage(L)

-------------------------------------------------------------------------------
(* The statements a handler may have run against a ledger. *)

Creates(L, M) == \E n \in Messages :
    /\ HasRowFor(L, n) \/ HasRoom(L)
    /\ M = Enqueue(L, n) \/ M = ClaimNext(Enqueue(L, n))

Binds(L, M) == \E i \in RowIds, k \in Runs :
    L[i].status = "starting" /\ M = BindRun(L, i, k)

Moves(L, M) == \E i \in RowIds, status \in Taken \ {"starting"} :
    /\ L[i].status \in Active
    /\ \/ M = SetStatus(L, i, status)
       \/ status \in Terminal /\ M = ClaimNext(SetStatus(L, i, status))

Returns(L, M) == \E i \in RowIds : L[i].status \in Active /\ M = Requeue(L, i)

Deletes(L, M) == \/ \E i \in RowIds : L[i].status = "queued" /\ M = DeleteRow(L, i)
                 \/ \E n \in Messages \cup {NoMessage} : M = EraseMessage(L, n)

\* Those that neither create a delivery nor bind one to a run ...
Update(L, M) == \/ M = L
                \/ M = ClaimNext(L)
                \/ Moves(L, M)
                \/ Returns(L, M)
                \/ M = ResolveFailed(L)
                \/ Deletes(L, M)

\* ... and all of them.
Statement(L, M) == Update(L, M) \/ Creates(L, M) \/ Binds(L, M)

-------------------------------------------------------------------------------
(* Choices. *)

\* claim_next returns no row or one that its WHERE clause admits.
LEMMA NextClaimChosen ==
  ASSUME NEW L
  PROVE  NextClaim(L) = NoRow
         \/ (NextClaim(L) \in RowIds /\ Claimable(L, NextClaim(L)))
BY DEF NextClaim

\* find_active_for_member returns no row exactly when none is in flight.
LEMMA ActiveRowChosen ==
  ASSUME NEW L
  PROVE  \/ ActiveRow(L) = NoRow /\ ActiveRows(L) = {}
         \/ ActiveRow(L) \in RowIds /\ L[ActiveRow(L)].status \in Active
<1>1. CASE ActiveRows(L) = {}
  BY <1>1 DEF ActiveRow
<1>2. CASE ActiveRows(L) # {}
  <2>1. \E i \in RowIds : L[i].status \in Active
    BY <1>2 DEF ActiveRows
  <2>2. ActiveRow(L) = CHOOSE i \in RowIds : L[i].status \in Active
    BY <1>2 DEF ActiveRow
  <2> QED BY <2>1, <2>2
<1> QED BY <1>1, <1>2

\* A row id is left whenever there is room.
LEMMA FreshChosen ==
  ASSUME NEW L, HasRoom(L)
  PROVE  Fresh(L) \in RowIds /\ IsFresh(L, Fresh(L))
BY DEF HasRoom, Fresh

\* Row ids are positive: no row is mistaken for NoRow.
LEMMA RowIdsPositive == \A i \in RowIds : i \in Nat /\ i # NoRow /\ i > 0
BY LedgerAssumption DEF RowIds, NoRow

-------------------------------------------------------------------------------
(* The empty ledger is sound. *)
LEMMA EmptySound == Sound(EmptyLedger)
<1>1. EmptyLedger \in Ledger
  BY DEF EmptyLedger, Ledger, Row, Blank, Status, Stored, NoMessage, NoRun
<1>2. \A i \in RowIds : EmptyLedger[i].status = "absent"
  BY DEF EmptyLedger, Blank
<1>3. Dense(EmptyLedger)
  BY <1>2 DEF Dense
<1>4. Single(EmptyLedger)
  BY <1>2 DEF Single, ActiveRows, Active
<1>5. Ordered(EmptyLedger)
  BY <1>2 DEF Ordered, Taken, Active, Terminal
<1>6. OnePerMessage(EmptyLedger)
  BY <1>2 DEF OnePerMessage, Stored, Active, Terminal
<1> QED BY <1>1, <1>3, <1>4, <1>5, <1>6 DEF Sound

-------------------------------------------------------------------------------
(* Every statement keeps a sound ledger sound. *)

USE RowIdsPositive

\* A row of a ledger that is replaced by a row leaves a ledger.
LEMMA ReplaceTyped ==
  ASSUME NEW L \in Ledger, NEW i \in RowIds, NEW r \in Row
  PROVE  /\ [L EXCEPT ![i] = r] \in Ledger
         /\ [L EXCEPT ![i] = r][i] = r
         /\ \A j \in RowIds : j # i => [L EXCEPT ![i] = r][j] = L[j]
BY DEF Ledger

\* The row a statement writes is a row of the same message.
LEMMA RowsWritten ==
  ASSUME NEW r \in Row, NEW status \in Status, NEW run \in Runs \cup {NoRun}
  PROVE  /\ [r EXCEPT !.status = status, !.rev = @ + 1] \in Row
         /\ [r EXCEPT !.status = status, !.rev = @ + 1, !.attempt = @ + 1] \in Row
         /\ [r EXCEPT !.status = status, !.rev = @ + 1, !.run = run] \in Row
         /\ [r EXCEPT !.resolved = TRUE, !.rev = @ + 1] \in Row
<1> DEFINE n == r.rev + 1
           a == r.attempt + 1
<1>1. n \in Nat /\ a \in Nat
  BY DEF Row
<1> HIDE DEF n, a
<1>2. /\ [r EXCEPT !.status = status, !.rev = n] \in Row
      /\ [r EXCEPT !.status = status, !.rev = n, !.attempt = a] \in Row
      /\ [r EXCEPT !.status = status, !.rev = n, !.run = run] \in Row
      /\ [r EXCEPT !.resolved = TRUE, !.rev = n] \in Row
  BY <1>1 DEF Row
<1> QED BY <1>2 DEF n, a

\* create_queued adds at most one row per message, behind all others.
LEMMA EnqueueSound ==
  ASSUME NEW L, Sound(L), NEW n \in Messages, HasRowFor(L, n) \/ HasRoom(L)
  PROVE  Sound(Enqueue(L, n))
<1>1. CASE HasRowFor(L, n)
  BY <1>1 DEF Enqueue
<1>2. CASE ~HasRowFor(L, n)
  <2> DEFINE i == Fresh(L)
             r == [Blank("queued") EXCEPT !.msg = n]
             M == [L EXCEPT ![i] = r]
  <2>1. i \in RowIds /\ IsFresh(L, i)
    BY <1>2, FreshChosen
  <2>2. r \in Row /\ r.status = "queued" /\ r.msg = n
    BY DEF Row, Blank, Status, Stored, NoRun
  <2>3. Enqueue(L, n) = M
    BY <1>2 DEF Enqueue, Insert
  <2>4. L \in Ledger
    BY DEF Sound
  <2> HIDE DEF i, r
  <2>5. M \in Ledger /\ M[i] = r /\ \A j \in RowIds : j # i => M[j] = L[j]
    BY <2>1, <2>2, <2>4, ReplaceTyped
  <2> HIDE DEF M
  <2>6. Dense(M)
    BY <2>1, <2>2, <2>5 DEF Sound, Dense, IsFresh
  <2>7. Single(M)
    BY <2>1, <2>2, <2>5 DEF Sound, Single, ActiveRows, Active
  <2>8. Ordered(M)
    BY <2>1, <2>2, <2>5 DEF Sound, Ordered, IsFresh, Taken, Ended, Active, Terminal
  <2>9. OnePerMessage(M)
    BY <1>2, <2>1, <2>2, <2>5 DEF Sound, OnePerMessage, HasRowFor
  <2> QED BY <2>3, <2>5, <2>6, <2>7, <2>8, <2>9 DEF Sound
<1> QED BY <1>1, <1>2

\* claim_next takes up the oldest queued delivery of a free member.
LEMMA ClaimNextSound ==
  ASSUME NEW L, Sound(L)
  PROVE  Sound(ClaimNext(L))
<1>1. CASE NextClaim(L) = NoRow
  BY <1>1 DEF ClaimNext
<1>2. CASE NextClaim(L) # NoRow
  <2> DEFINE i == NextClaim(L)
             r == [L[i] EXCEPT !.status = "starting", !.rev = @ + 1, !.attempt = @ + 1]
             M == [L EXCEPT ![i] = r]
  <2>1. i \in RowIds /\ OldestQueued(L, i) /\ ActiveRows(L) = {}
    BY <1>2, NextClaimChosen DEF Claimable
  <2>2. L \in Ledger /\ L[i] \in Row
    BY <2>1 DEF Sound, Ledger
  <2>3. r \in Row /\ r.status = "starting" /\ r.msg = L[i].msg
    <3>1. "starting" \in Status /\ NoRun \in Runs \cup {NoRun}
      BY DEF Status, Stored, Active
    <3>2. r \in Row
      BY <2>2, <3>1, RowsWritten
    <3> QED BY <2>2, <3>2 DEF Row
  <2>4. ClaimNext(L) = M
    BY <1>2, <2>1, <2>2 DEF ClaimNext, Claim, Ledger
  <2> HIDE DEF i, r
  <2>5. M \in Ledger /\ M[i] = r /\ \A j \in RowIds : j # i => M[j] = L[j]
    BY <2>1, <2>2, <2>3, ReplaceTyped
  <2> HIDE DEF M
  <2>6. L[i].status = "queued"
    BY <2>1 DEF OldestQueued
  <2>7. Dense(M)
    BY <2>1, <2>3, <2>5, <2>6 DEF Sound, Dense
  <2>8. Single(M)
    BY <2>1, <2>5 DEF Single, ActiveRows
  <2>9. Ordered(M)
    <3> SUFFICES ASSUME NEW a \in RowIds, NEW b \in RowIds, a < b,
                        M[b].status \in Taken
                 PROVE  M[a].status \in Ended
      BY DEF Ordered
    <3>1. CASE b = i
      <4>1. M[a] = L[a] /\ a # i
        BY <2>5, <3>1
      <4>2. L[a].status \in Status
        BY <2>2 DEF Ledger, Row
      <4>3. L[a].status # "queued"
        BY <2>1, <3>1 DEF OldestQueued, QueuedRows
      <4>4. L[a].status \notin Active
        BY <2>1 DEF ActiveRows
      <4>5. L[a].status # "absent"
        BY <2>1, <2>6, <3>1 DEF Sound, Dense
      <4> QED BY <4>1, <4>2, <4>3, <4>4, <4>5 DEF Status, Stored, Ended
    <3>2. CASE b # i
      <4>1. L[a].status \in Ended
        BY <2>5, <3>2 DEF Sound, Ordered
      <4> QED BY <2>5, <2>6, <4>1 DEF Ended, Terminal
    <3> QED BY <3>1, <3>2
  <2>10. OnePerMessage(M)
    <3>1. \A j \in RowIds : M[j].msg = L[j].msg
      BY <2>3, <2>5
    <3>2. \A j \in RowIds : M[j].status \in Stored => L[j].status \in Stored
      BY <2>5, <2>6 DEF Stored
    <3> QED BY <3>1, <3>2 DEF Sound, OnePerMessage
  <2> QED BY <2>4, <2>5, <2>7, <2>8, <2>9, <2>10 DEF Sound
<1> QED BY <1>1, <1>2

\* A row in flight that moves on, within flight or to its end, keeps the
\* ledger sound whatever else of the row changes but its message.
LEMMA AdvanceSound ==
  ASSUME NEW L, Sound(L), NEW i \in RowIds, L[i].status \in Active,
         NEW r \in Row, r.status \in Taken, r.msg = L[i].msg
  PROVE  Sound([L EXCEPT ![i] = r])
<1> DEFINE M == [L EXCEPT ![i] = r]
<1>1. M \in Ledger /\ M[i] = r /\ \A j \in RowIds : j # i => M[j] = L[j]
  BY ReplaceTyped DEF Sound
<1> HIDE DEF M
<1>2. Dense(M)
  BY <1>1 DEF Sound, Dense, Taken, Active, Terminal
<1>3. Single(M)
  BY <1>1 DEF Sound, Single, ActiveRows
<1>4. Ordered(M)
  <2>1. \A a, b \in RowIds : a < b /\ M[b].status \in Taken => L[b].status \in Taken
    BY <1>1 DEF Taken
  <2>2. \A a \in RowIds : L[a].status \in Ended => a # i
    BY DEF Ended, Active, Terminal
  <2> QED BY <1>1, <2>1, <2>2 DEF Sound, Ordered
<1>5. OnePerMessage(M)
  <2>1. \A j \in RowIds : M[j].msg = L[j].msg
    BY <1>1
  <2>2. \A j \in RowIds : M[j].status \in Stored => L[j].status \in Stored
    BY <1>1 DEF Stored
  <2> QED BY <2>1, <2>2 DEF Sound, OnePerMessage
<1> QED BY <1>1, <1>2, <1>3, <1>4, <1>5 DEF Sound, M

\* recover_inflight_cas puts the delivery back at the head of the queue.
LEMMA RequeueSound ==
  ASSUME NEW L, Sound(L), NEW i \in RowIds, L[i].status \in Active
  PROVE  Sound(Requeue(L, i))
<1> DEFINE r == [L[i] EXCEPT !.status = "queued", !.rev = @ + 1, !.run = NoRun]
           M == [L EXCEPT ![i] = r]
<1>1. L \in Ledger /\ L[i] \in Row
  BY DEF Sound, Ledger
<1>2. r \in Row /\ r.status = "queued" /\ r.msg = L[i].msg
  <2>1. "queued" \in Status /\ NoRun \in Runs \cup {NoRun}
    BY DEF Status, Stored
  <2>2. r \in Row
    BY <1>1, <2>1, RowsWritten
  <2> QED BY <1>1, <2>2 DEF Row
<1>3. Requeue(L, i) = M
  BY <1>1 DEF Requeue, Ledger
<1> HIDE DEF r
<1>4. M \in Ledger /\ M[i] = r /\ \A j \in RowIds : j # i => M[j] = L[j]
  BY <1>1, <1>2, ReplaceTyped
<1> HIDE DEF M
<1>5. Dense(M)
  BY <1>2, <1>4 DEF Sound, Dense, Active
<1>6. Single(M)
  BY <1>2, <1>4 DEF Sound, Single, ActiveRows, Active
<1>7. Ordered(M)
  <2>1. \A b \in RowIds : M[b].status \in Taken => b # i /\ L[b].status \in Taken
    BY <1>2, <1>4 DEF Taken, Active, Terminal
  <2>2. \A a \in RowIds : L[a].status \in Ended => a # i
    BY DEF Ended, Active, Terminal
  <2> QED BY <1>4, <2>1, <2>2 DEF Sound, Ordered
<1>8. OnePerMessage(M)
  <2>1. \A j \in RowIds : M[j].msg = L[j].msg
    BY <1>2, <1>4
  <2>2. \A j \in RowIds : M[j].status \in Stored => L[j].status \in Stored
    BY <1>4 DEF Stored
  <2> QED BY <2>1, <2>2 DEF Sound, OnePerMessage
<1> QED BY <1>3, <1>4, <1>5, <1>6, <1>7, <1>8 DEF Sound

\* skip_failed_for_member leaves every status as it is.
LEMMA ResolveSound ==
  ASSUME NEW L, Sound(L)
  PROVE  Sound(ResolveFailed(L))
<1> DEFINE M == ResolveFailed(L)
<1>1. \A i \in RowIds : /\ M[i] \in Row
                        /\ M[i].status = L[i].status /\ M[i].msg = L[i].msg
  <2> SUFFICES ASSUME NEW i \in RowIds
               PROVE  /\ M[i] \in Row
                      /\ M[i].status = L[i].status /\ M[i].msg = L[i].msg
    OBVIOUS
  <2>1. L[i] \in Row
    BY DEF Sound, Ledger
  <2>2. CASE Unresolved(L[i])
    <3> DEFINE r == [L[i] EXCEPT !.resolved = TRUE, !.rev = @ + 1]
    <3>1. M[i] = r
      BY <2>2 DEF ResolveFailed
    <3>2. "queued" \in Status /\ NoRun \in Runs \cup {NoRun}
      BY DEF Status, Stored
    <3>3. r \in Row
      BY <2>1, <3>2, RowsWritten
    <3> QED BY <2>1, <3>1, <3>3 DEF Row
  <2>3. CASE ~Unresolved(L[i])
    BY <2>1, <2>3 DEF ResolveFailed
  <2> QED BY <2>2, <2>3
<1>2. M \in Ledger
  BY <1>1 DEF ResolveFailed, Ledger
<1> HIDE DEF M
<1>3. Dense(M) /\ Single(M) /\ Ordered(M) /\ OnePerMessage(M)
  BY <1>1 DEF Sound, Dense, Single, ActiveRows, Ordered, OnePerMessage
<1> QED BY <1>2, <1>3 DEF Sound, M

\* Deleting rows, one or all those of a message, only ever frees the others.
LEMMA WithdrawSound ==
  ASSUME NEW L, Sound(L), NEW M \in Ledger,
         \A i \in RowIds : M[i] = L[i] \/ (/\ M[i].status = "deleted"
                                           /\ L[i].status \in Stored)
  PROVE  Sound(M)
<1>1. Dense(M)
  BY DEF Sound, Dense, Stored, Active, Terminal
<1>2. Single(M)
  BY DEF Sound, Single, ActiveRows, Active
<1>3. Ordered(M)
  <2>1. \A b \in RowIds : M[b].status \in Taken => L[b].status \in Taken
    BY DEF Taken, Active, Terminal
  <2>2. \A a \in RowIds : L[a].status \in Ended => M[a].status \in Ended
    BY DEF Ended
  <2> QED BY <2>1, <2>2 DEF Sound, Ordered
<1>4. OnePerMessage(M)
  <2>1. \A i \in RowIds : M[i].status \in Stored => M[i] = L[i]
    BY DEF Stored, Active, Terminal
  <2> QED BY <2>1 DEF Sound, OnePerMessage
<1> QED BY <1>1, <1>2, <1>3, <1>4 DEF Sound

\* The statements of a deletion withdraw rows and change nothing else.
LEMMA DeletesWithdraws ==
  ASSUME NEW L \in Ledger, NEW M, Deletes(L, M)
  PROVE  /\ M \in Ledger
         /\ \A i \in RowIds : M[i] = L[i] \/ (/\ M[i].status = "deleted"
                                              /\ L[i].status \in Stored)
<1>1. Blank("deleted") \in Row /\ Blank("deleted").status = "deleted"
  BY DEF Blank, Row, Status, NoMessage, NoRun
<1>2. CASE \E i \in RowIds : L[i].status = "queued" /\ M = DeleteRow(L, i)
  <2>1. PICK i \in RowIds : L[i].status = "queued" /\ M = DeleteRow(L, i)
    BY <1>2
  <2> DEFINE r == Blank("deleted")
  <2>2. M = [L EXCEPT ![i] = r]
    BY <2>1 DEF DeleteRow
  <2> HIDE DEF r
  <2>3. M \in Ledger /\ M[i] = r /\ \A j \in RowIds : j # i => M[j] = L[j]
    <3>1. r \in Row
      BY <1>1 DEF r
    <3>2. /\ [L EXCEPT ![i] = r] \in Ledger
          /\ [L EXCEPT ![i] = r][i] = r
          /\ \A j \in RowIds : j # i => [L EXCEPT ![i] = r][j] = L[j]
      BY <3>1, ReplaceTyped
    <3> QED BY <2>2, <3>2
  <2> QED BY <1>1, <2>1, <2>3 DEF Stored, r
<1>3. CASE \E n \in Messages \cup {NoMessage} : M = EraseMessage(L, n)
  BY <1>1, <1>3 DEF EraseMessage, Ledger
<1> QED BY <1>2, <1>3 DEF Deletes

\* bind_run_cas and the transitions of an active row advance that row.
LEMMA BindRunAdvances ==
  ASSUME NEW L \in Ledger, NEW i \in RowIds, L[i].status \in Active, NEW k \in Runs
  PROVE  \E r \in Row : /\ r.status \in Active /\ r.msg = L[i].msg
                        /\ BindRun(L, i, k) = [L EXCEPT ![i] = r]
<1> DEFINE r == [L[i] EXCEPT !.status = "running", !.rev = @ + 1, !.run = k]
<1>1. L[i] \in Row
  BY DEF Ledger
<1>2. r \in Row
  <2>1. "running" \in Status /\ k \in Runs \cup {NoRun}
    BY DEF Status, Stored, Active
  <2> QED BY <1>1, <2>1, RowsWritten
<1>3. r.status = "running" /\ r.msg = L[i].msg
  BY <1>1 DEF Row
<1>4. BindRun(L, i, k) = [L EXCEPT ![i] = r]
  BY <1>1 DEF BindRun, Ledger
<1> QED BY <1>2, <1>3, <1>4 DEF Active

\* Writing a status that the delivery graph allows advances the row.
LEMMA SetStatusAdvances ==
  ASSUME NEW L \in Ledger, NEW i \in RowIds, NEW status \in Status
  PROVE  \E r \in Row : /\ r.status = status /\ r.msg = L[i].msg
                        /\ SetStatus(L, i, status) = [L EXCEPT ![i] = r]
<1> DEFINE r == [L[i] EXCEPT !.status = status, !.rev = @ + 1]
<1>1. L[i] \in Row
  BY DEF Ledger
<1>2. r \in Row
  <2>1. NoRun \in Runs \cup {NoRun}
    OBVIOUS
  <2> QED BY <1>1, <2>1, RowsWritten
<1>3. r.status = status /\ r.msg = L[i].msg
  BY <1>1 DEF Row
<1>4. SetStatus(L, i, status) = [L EXCEPT ![i] = r]
  BY <1>1 DEF SetStatus, Ledger
<1> QED BY <1>2, <1>3, <1>4

\* A transition of a delivery in flight keeps the ledger sound.
LEMMA SetStatusSound ==
  ASSUME NEW L, Sound(L), NEW i \in RowIds, L[i].status \in Active,
         NEW status \in Taken
  PROVE  Sound(SetStatus(L, i, status))
<1>1. L \in Ledger /\ status \in Status
  BY DEF Sound, Taken, Status, Stored
<1>2. PICK r \in Row : /\ r.status = status /\ r.msg = L[i].msg
                       /\ SetStatus(L, i, status) = [L EXCEPT ![i] = r]
  BY <1>1, SetStatusAdvances
<1>3. Sound([L EXCEPT ![i] = r])
  BY <1>2, AdvanceSound
<1> QED BY <1>2, <1>3

\* Binding a run keeps the ledger sound.
LEMMA BindRunSound ==
  ASSUME NEW L, Sound(L), NEW i \in RowIds, L[i].status \in Active, NEW k \in Runs
  PROVE  Sound(BindRun(L, i, k))
<1>1. PICK r \in Row : /\ r.status \in Active /\ r.msg = L[i].msg
                       /\ BindRun(L, i, k) = [L EXCEPT ![i] = r]
  BY BindRunAdvances DEF Sound
<1>2. r.status \in Taken
  BY <1>1 DEF Taken
<1>3. Sound([L EXCEPT ![i] = r])
  BY <1>1, <1>2, AdvanceSound
<1> QED BY <1>1, <1>3

\* Whatever the handlers run against a sound ledger leaves it sound: one
\* delivery in flight, deliveries taken up in creation order, and one
\* delivery per message.
THEOREM StatementKeepsLedgerSound ==
  ASSUME NEW L, Sound(L), NEW M, Statement(L, M)
  PROVE  Sound(M)
<1>1. CASE M = L
  BY <1>1
<1>2. CASE Creates(L, M)
  <2>1. PICK n \in Messages : /\ HasRowFor(L, n) \/ HasRoom(L)
                              /\ M = Enqueue(L, n) \/ M = ClaimNext(Enqueue(L, n))
    BY <1>2 DEF Creates
  <2>2. HasRowFor(L, n) \/ HasRoom(L)
    BY <2>1
  <2>3. Sound(Enqueue(L, n))
    BY <2>2, EnqueueSound
  <2>4. Sound(ClaimNext(Enqueue(L, n)))
    BY <2>3, ClaimNextSound
  <2> QED BY <2>1, <2>3, <2>4
<1>3. CASE M = ClaimNext(L)
  BY <1>3, ClaimNextSound
<1>4. CASE Binds(L, M)
  BY <1>4, BindRunSound DEF Binds, Active
<1>5. CASE Moves(L, M)
  <2>1. PICK i \in RowIds, status \in Taken \ {"starting"} :
          /\ L[i].status \in Active
          /\ \/ M = SetStatus(L, i, status)
             \/ M = ClaimNext(SetStatus(L, i, status))
    BY <1>5 DEF Moves
  <2>2. Sound(SetStatus(L, i, status))
    BY <2>1, SetStatusSound
  <2>3. Sound(ClaimNext(SetStatus(L, i, status)))
    BY <2>2, ClaimNextSound
  <2> QED BY <2>1, <2>2, <2>3
<1>6. CASE Returns(L, M)
  BY <1>6, RequeueSound DEF Returns
<1>7. CASE M = ResolveFailed(L)
  BY <1>7, ResolveSound
<1>8. CASE Deletes(L, M)
  BY <1>8, DeletesWithdraws, WithdrawSound DEF Sound
<1> QED BY <1>1, <1>2, <1>3, <1>4, <1>5, <1>6, <1>7, <1>8 DEF Statement, Update

-------------------------------------------------------------------------------
(* What a statement does to each row.                                        *)

RowEffect(r, q) ==
  \/ q = r
  \/ r.status = "absent"  /\ q.status \in {"queued", "starting"}
  \/ r.status = "queued"  /\ q.status = "starting"
  \/ r.status \in Active  /\ q.status \in Taken \cup {"queued"}
  \/ Unresolved(r)        /\ q.status = "failed" /\ q.resolved
  \/ r.status \in Stored  /\ q.status = "deleted"

\* A delivery is taken up.
Takes(L, M) == \E i \in RowIds : L[i].status \notin Active /\ M[i].status \in Active

Effects(L, M) == /\ \A i \in RowIds : RowEffect(L[i], M[i])
                 /\ Takes(L, M) => ~IsBlocked(M)

\* Changing one row of a ledger, without taking it up.
LEMMA OneRowEffects ==
  ASSUME NEW L \in Ledger, NEW i \in RowIds, NEW r \in Row, RowEffect(L[i], r),
         L[i].status \in Active \/ r.status \notin Active
  PROVE  Effects(L, [L EXCEPT ![i] = r])
<1> DEFINE M == [L EXCEPT ![i] = r]
<1>1. M \in Ledger /\ M[i] = r /\ \A j \in RowIds : j # i => M[j] = L[j]
  BY ReplaceTyped
<1> HIDE DEF M
<1>2. \A j \in RowIds : RowEffect(L[j], M[j])
  BY <1>1 DEF RowEffect
<1>3. ~Takes(L, M)
  BY <1>1 DEF Takes
<1> QED BY <1>2, <1>3 DEF Effects, M

Claimed(r, q) == r.status = "queued" /\ q.status = "starting"

\* The row claim_next takes up, and that no failure is open then.
LEMMA ClaimNextEffects ==
  ASSUME NEW L, Sound(L)
  PROVE  LET M == ClaimNext(L) IN
         \/ M = L
         \/ /\ ~IsBlocked(M)
            /\ \A j \in RowIds : M[j] = L[j] \/ Claimed(L[j], M[j])
<1> DEFINE M == ClaimNext(L)
<1>1. CASE NextClaim(L) = NoRow
  BY <1>1 DEF ClaimNext
<1>2. CASE NextClaim(L) # NoRow
  <2> DEFINE i == NextClaim(L)
  <2>1. i \in RowIds /\ L[i].status = "queued" /\ ~IsBlocked(L)
    BY <1>2, NextClaimChosen DEF Claimable, OldestQueued
  <2>2. L \in Ledger /\ L[i] \in Row
    BY <2>1 DEF Sound, Ledger
  <2>3. M = Claim(L, i)
    BY <1>2 DEF ClaimNext
  <2> HIDE DEF i, M
  <2>4. M[i].status = "starting" /\ \A j \in RowIds : j # i => M[j] = L[j]
    BY <2>1, <2>2, <2>3 DEF Claim, Ledger, Row
  <2>5. ~IsBlocked(M)
    BY <2>1, <2>4 DEF IsBlocked, Unresolved
  <2>6. \A j \in RowIds : M[j] = L[j] \/ Claimed(L[j], M[j])
    BY <2>1, <2>4 DEF Claimed
  <2> QED BY <2>5, <2>6 DEF M
<1> QED BY <1>1, <1>2

\* A claim that follows another statement in the same transaction.
LEMMA ThenClaimEffects ==
  ASSUME NEW L \in Ledger, NEW N, Sound(N), Effects(L, N), ~Takes(L, N)
  PROVE  Effects(L, ClaimNext(N))
<1> DEFINE M == ClaimNext(N)
<1>1. CASE M = N
  BY <1>1
<1>2. CASE /\ ~IsBlocked(M)
           /\ \A j \in RowIds : M[j] = N[j] \/ Claimed(N[j], M[j])
  <2> HIDE DEF M
  <2> SUFFICES ASSUME NEW j \in RowIds
               PROVE  RowEffect(L[j], M[j])
    BY <1>2 DEF Effects, M
  <2>1. RowEffect(L[j], N[j])
    BY DEF Effects
  <2>2. CASE M[j] = N[j]
    BY <2>1, <2>2
  <2>3. CASE Claimed(N[j], M[j])
    BY <2>1, <2>3 DEF Claimed, RowEffect, Taken, Active, Unresolved
  <2> QED BY <1>2, <2>2, <2>3
<1> QED BY <1>1, <1>2, ClaimNextEffects

\* create_queued takes nothing up.
LEMMA EnqueueEffects ==
  ASSUME NEW L, Sound(L), NEW n \in Messages, HasRowFor(L, n) \/ HasRoom(L)
  PROVE  Effects(L, Enqueue(L, n)) /\ ~Takes(L, Enqueue(L, n))
<1>1. CASE HasRowFor(L, n)
  <2>1. Enqueue(L, n) = L
    BY <1>1 DEF Enqueue
  <2>2. Effects(L, L) /\ ~Takes(L, L)
    BY DEF Effects, RowEffect, Takes
  <2> QED BY <2>1, <2>2
<1>2. CASE ~HasRowFor(L, n)
  <2> DEFINE i == Fresh(L)
             r == [Blank("queued") EXCEPT !.msg = n]
  <2>1. i \in RowIds /\ L[i].status = "absent"
    BY <1>2, FreshChosen DEF IsFresh
  <2>2. r \in Row /\ r.status = "queued"
    BY DEF Row, Blank, Status, Stored, NoRun
  <2>3. Enqueue(L, n) = [L EXCEPT ![i] = r]
    BY <1>2 DEF Enqueue, Insert
  <2>4. L \in Ledger
    BY DEF Sound
  <2> HIDE DEF i, r
  <2>5. RowEffect(L[i], r) /\ r.status \notin Active
    BY <2>1, <2>2 DEF RowEffect, Active
  <2>6. Effects(L, [L EXCEPT ![i] = r])
    BY <2>1, <2>2, <2>4, <2>5, OneRowEffects
  <2>7. ~Takes(L, [L EXCEPT ![i] = r])
    BY <2>1, <2>2, <2>4, <2>5, ReplaceTyped DEF Takes
  <2> QED BY <2>3, <2>6, <2>7
<1> QED BY <1>1, <1>2

\* A transition of a delivery in flight takes nothing up.
LEMMA SetStatusEffects ==
  ASSUME NEW L \in Ledger, NEW i \in RowIds, L[i].status \in Active,
         NEW status \in Taken
  PROVE  /\ Effects(L, SetStatus(L, i, status))
         /\ ~Takes(L, SetStatus(L, i, status))
<1>1. PICK r \in Row : /\ r.status = status
                      /\ SetStatus(L, i, status) = [L EXCEPT ![i] = r]
  BY SetStatusAdvances DEF Taken, Status, Stored
<1>2. RowEffect(L[i], r)
  BY <1>1 DEF RowEffect
<1>3. Effects(L, [L EXCEPT ![i] = r])
  BY <1>2, OneRowEffects
<1>4. ~Takes(L, [L EXCEPT ![i] = r])
  BY ReplaceTyped DEF Takes
<1> QED BY <1>1, <1>3, <1>4

\* What any statement does to a row, and that none takes a delivery up while
\* a failure awaits its answer.
THEOREM StatementEffects ==
  ASSUME NEW L, Sound(L), NEW M, Statement(L, M)
  PROVE  Effects(L, M)
<1>1. L \in Ledger
  BY DEF Sound
<1>2. Effects(L, L) /\ ~Takes(L, L)
  BY DEF Effects, RowEffect, Takes
<1>3. CASE Creates(L, M)
  <2>1. PICK n \in Messages : /\ HasRowFor(L, n) \/ HasRoom(L)
                              /\ M = Enqueue(L, n) \/ M = ClaimNext(Enqueue(L, n))
    BY <1>3 DEF Creates
  <2>2. HasRowFor(L, n) \/ HasRoom(L)
    BY <2>1
  <2>3. Effects(L, Enqueue(L, n)) /\ ~Takes(L, Enqueue(L, n))
    BY <2>2, EnqueueEffects
  <2>4. Sound(Enqueue(L, n))
    BY <2>2, EnqueueSound
  <2>5. Effects(L, ClaimNext(Enqueue(L, n)))
    BY <1>1, <2>3, <2>4, ThenClaimEffects
  <2> QED BY <2>1, <2>3, <2>5
<1>4. CASE M = ClaimNext(L)
  BY <1>1, <1>2, <1>4, ThenClaimEffects
<1>5. CASE Binds(L, M)
  <2>1. PICK i \in RowIds, k \in Runs : L[i].status = "starting" /\ M = BindRun(L, i, k)
    BY <1>5 DEF Binds
  <2>2. L[i].status \in Active
    BY <2>1 DEF Active
  <2>3. PICK r \in Row : r.status \in Active /\ BindRun(L, i, k) = [L EXCEPT ![i] = r]
    BY <1>1, <2>2, BindRunAdvances
  <2>4. RowEffect(L[i], r)
    BY <2>2, <2>3 DEF RowEffect, Taken
  <2>5. Effects(L, [L EXCEPT ![i] = r])
    BY <1>1, <2>2, <2>4, OneRowEffects
  <2> QED BY <2>1, <2>3, <2>5
<1>6. CASE Moves(L, M)
  <2>1. PICK i \in RowIds, status \in Taken \ {"starting"} :
          /\ L[i].status \in Active
          /\ \/ M = SetStatus(L, i, status)
             \/ M = ClaimNext(SetStatus(L, i, status))
    BY <1>6 DEF Moves
  <2>2. Effects(L, SetStatus(L, i, status)) /\ ~Takes(L, SetStatus(L, i, status))
    BY <1>1, <2>1, SetStatusEffects
  <2>3. Sound(SetStatus(L, i, status))
    BY <2>1, SetStatusSound
  <2>4. Effects(L, ClaimNext(SetStatus(L, i, status)))
    BY <1>1, <2>2, <2>3, ThenClaimEffects
  <2> QED BY <2>1, <2>2, <2>4
<1>7. CASE Returns(L, M)
  <2>1. PICK i \in RowIds : L[i].status \in Active /\ M = Requeue(L, i)
    BY <1>7 DEF Returns
  <2>2. M[i].status = "queued" /\ \A j \in RowIds : j # i => M[j] = L[j]
    BY <1>1, <2>1 DEF Requeue, Ledger, Row
  <2>3. \A j \in RowIds : RowEffect(L[j], M[j])
    BY <2>1, <2>2 DEF RowEffect
  <2>4. ~Takes(L, M)
    BY <2>2 DEF Takes, Active
  <2> QED BY <2>3, <2>4 DEF Effects
<1>8. CASE M = ResolveFailed(L)
  <2>1. ASSUME NEW i \in RowIds
        PROVE  RowEffect(L[i], M[i]) /\ M[i].status = L[i].status
    <3>1. L[i] \in Row
      BY <1>1 DEF Ledger
    <3>2. CASE Unresolved(L[i])
      BY <1>8, <3>1, <3>2 DEF ResolveFailed, Row, RowEffect, Unresolved
    <3>3. CASE ~Unresolved(L[i])
      BY <1>8, <3>3 DEF ResolveFailed, RowEffect
    <3> QED BY <3>2, <3>3
  <2>2. ~Takes(L, M)
    BY <2>1 DEF Takes
  <2> QED BY <2>1, <2>2 DEF Effects
<1>9. CASE Deletes(L, M)
  <2>1. \A i \in RowIds : M[i] = L[i] \/ (/\ M[i].status = "deleted"
                                         /\ L[i].status \in Stored)
    BY <1>1, <1>9, DeletesWithdraws
  <2>2. \A i \in RowIds : RowEffect(L[i], M[i])
    BY <2>1 DEF RowEffect
  <2>3. ~Takes(L, M)
    BY <2>1 DEF Takes, Active
  <2> QED BY <2>2, <2>3 DEF Effects
<1> QED BY <1>2, <1>3, <1>4, <1>5, <1>6, <1>7, <1>8, <1>9 DEF Statement, Update

-------------------------------------------------------------------------------
(* The inductive invariant of the system. *)

\* A task at work has a delivery, and one that is about to write a status has
\* decided on one that ends the delivery.
SafeTask == {t \in Task :
    /\ t.pc \notin {"free", "done"} => t.row \in RowIds
    /\ t.pc = "settle" => t.next \in {"running", "cancelled", "failed", "skipped"}
    /\ t.pc = "mark"   => t.next \in {"failed", "skipped"}}

\* A stop call that is about to write has read a delivery in flight.
SafeStop == {s \in StopCall :
    /\ s.pc = "requeue"    => s.status \in Active
    /\ s.pc = "transition" => s.status \in {"starting", "running", "waiting_approval"}}

Tasks == [Members -> [Runs -> SafeTask]]

Bookkeeping ==
  /\ member \in [Members -> MemberState]
  /\ message \in [Messages -> MessageRow]
  /\ sent \in 0..MaxMessages
  /\ control \in [Members -> Runs \cup {NoRun}]
  /\ task \in Tasks
  /\ wake \in [Members -> Nat]
  /\ stop \in [Members -> SafeStop]
  /\ unqueue \in UnqueueCall
  /\ recovering \in [Members -> Recovery]
  /\ budget \in 0..Budget

Ledgers == rows \in [Members -> Ledger] /\ \A m \in Members : Sound(rows[m])

IInv == Bookkeeping /\ Ledgers

\* What a step does to the ledgers.
RunsStatements == /\ rows' = [m \in Members |-> rows'[m]]
                  /\ \A m \in Members : Statement(rows[m], rows'[m])

\* The steps that create no delivery and bind none to a run do less.
RunsUpdates == /\ rows' = [m \in Members |-> rows'[m]]
               /\ \A m \in Members : Update(rows[m], rows'[m])

CreatesOrBinds ==
  \/ \E targets \in SUBSET Members : Send(targets)
  \/ \E n \in Messages : Resend(n)
  \/ \E m \in Members, k \in Runs : Retry(m, k) \/ Bind(m, k)

-------------------------------------------------------------------------------
(* Writing one member's ledger, one task, one stop call. *)

\* A step that leaves the ledgers alone updates nothing.
LEMMA LeavesRows ==
  ASSUME Ledgers, UNCHANGED rows
  PROVE  RunsUpdates
BY DEF RunsUpdates, Ledgers, Update

\* A step that writes one member's ledger by an Update runs one on that
\* member and none on the others.
LEMMA WritesRows ==
  ASSUME Ledgers, NEW m \in Members, NEW L, SetRows(m, L), Update(rows[m], L)
  PROVE  RunsUpdates
<1>1. /\ rows' = [x \in Members |-> rows'[x]]
      /\ rows'[m] = L /\ \A x \in Members : x # m => rows'[x] = rows[x]
  BY DEF Ledgers, SetRows
<1>2. \A x \in Members : Update(rows[x], rows[x])
  BY DEF Update
<1> QED BY <1>1, <1>2 DEF RunsUpdates

\* Storing one safe task keeps the table of tasks well formed.
LEMMA WritesTask ==
  ASSUME task \in Tasks, NEW m \in Members, NEW k \in Runs, NEW t \in SafeTask,
         SetTask(m, k, t)
  PROVE  task' \in Tasks
BY DEF Tasks, SetTask

\* Every entry of the table of tasks is a safe task.
LEMMA TaskIsSafe ==
  ASSUME task \in Tasks, NEW m \in Members, NEW k \in Runs
  PROVE  task[m][k] \in SafeTask /\ task[m][k] \in Task
BY DEF Tasks, SafeTask

\* Every entry of a ledger is a row.
LEMMA RowIsTyped ==
  ASSUME Ledgers, NEW m \in Members, NEW i \in RowIds
  PROVE  rows[m][i] \in Row
BY DEF Ledgers, Ledger

\* A run that is not used yet carries nothing.
LEMMA IdleTaskSafe == IdleTask \in SafeTask
BY DEF IdleTask, SafeTask, Task, TaskStep, Outcome, Status

\* A task that returns keeps its delivery and carries nothing else.
LEMMA FinishedSafe ==
  ASSUME NEW t \in Task
  PROVE  Finished(t) \in SafeTask
BY DEF Finished, IdleTask, SafeTask, Task, TaskStep, Outcome, Status

\* The error path leads a safe task to a safe one: to fail_or_skip_queue_entry
\* if it was handed a queue entry, and otherwise to its end.
LEMMA AfterFailureSafe ==
  ASSUME NEW t \in SafeTask, t.pc \notin {"free", "done"}
  PROVE  AfterFailure(t) \in SafeTask
<1>1. CASE t.entry > 0
  BY <1>1 DEF AfterFailure, SafeTask, Task, TaskStep, Outcome, Status
<1>2. CASE ~(t.entry > 0)
  BY <1>2, FinishedSafe DEF AfterFailure, SafeTask
<1> QED BY <1>1, <1>2

\* dispatch_queued_entry takes a free run for a row that is there.
LEMMA LaunchTyped ==
  ASSUME NEW T \in [Runs -> SafeTask], NEW L \in Ledger,
         NEW i \in RowIds \cup {NoRow}, i = NoRow \/ HasFreeRun(T)
  PROVE  Launch(T, L, i) \in [Runs -> SafeTask]
<1>1. CASE i = NoRow
  BY <1>1 DEF Launch
<1>2. CASE i # NoRow
  <2> DEFINE n == L[i].rev
             t == [IdleTask EXCEPT !.pc = "load", !.row = i, !.entry = n]
  <2>1. i \in RowIds /\ n \in Nat
    BY <1>2 DEF Ledger, Row
  <2>2. t \in SafeTask
    <3> HIDE DEF n
    <3> QED BY <2>1 DEF IdleTask, SafeTask, Task, TaskStep, Outcome, Status
  <2>3. FreeRun(T) \in Runs
    BY <1>2 DEF HasFreeRun, FreeRun
  <2>4. Launch(T, L, i) = [T EXCEPT ![FreeRun(T)] = t]
    BY <1>2 DEF Launch
  <2> HIDE DEF t
  <2> QED BY <2>2, <2>3, <2>4
<1> QED BY <1>1, <1>2

\* A message that still has room is numbered within the bound.
LEMMA RoomIsRoom ==
  ASSUME sent \in 0..MaxMessages, RoomForMessage
  PROVE  sent + 1 \in Messages /\ sent + 1 \in 0..MaxMessages
<1> DEFINE P == {p \in Members \X Runs : task[p[1]][p[2]].outcome = "retry"}
<1>1. IsFiniteSet(Members) /\ IsFiniteSet(Runs)
  BY DeliveryAssumption, LedgerAssumption, FS_Interval DEF Runs
<1>2. IsFiniteSet(Members \X Runs)
  BY <1>1, FS_Product
<1>3. IsFiniteSet(P)
  BY <1>2, FS_Subset
<1>4. Cardinality(P) \in Nat
  BY <1>3, FS_CardinalityType
<1>5. sent + Cardinality(P) < MaxMessages
  BY DEF RoomForMessage
<1> HIDE DEF P
<1> QED BY <1>4, <1>5, LedgerAssumption DEF Messages

-------------------------------------------------------------------------------
(* Every action runs a statement against each ledger, or none.              *)

\* transition_status_cas: a delivery in flight may move along the delivery graph.
LEMMA AdvanceIsUpdate ==
  ASSUME NEW L, NEW i \in RowIds, L[i].status \in Active,
         NEW status \in Taken \ {"starting"}
  PROVE  Update(L, SetStatus(L, i, status))
BY DEF Update, Moves

\* fail_or_skip_inflight_cas: a delivery in flight may be failed or skipped.
LEMMA FailOrSkipIsUpdate ==
  ASSUME NEW L, NEW i \in RowIds, L[i].status \in Active
  PROVE  Update(L, FailOrSkip(L, i))
<1>1. FailureStatus(L) \in Taken \ {"starting"}
  BY DEF FailureStatus, Taken, Terminal
<1> QED BY <1>1, AdvanceIsUpdate DEF FailOrSkip

\* Erasing a message deletes its rows from every ledger.
LEMMA EraseRunsUpdates ==
  ASSUME Ledgers, NEW n \in Messages \cup {NoMessage}, Erase(n)
  PROVE  RunsUpdates
<1>1. \A m \in Members : Update(rows[m], rows'[m])
  BY DEF Erase, Update, Deletes
<1>2. rows' = [m \in Members |-> rows'[m]]
  BY DEF Erase
<1> QED BY <1>1, <1>2 DEF RunsUpdates

\* The steps of the task of one run.
LEMMA RunRunsUpdates ==
  ASSUME IInv, NEW m \in Members, NEW k \in Runs, RunOf(m, k),
         ~Bind(m, k), ~Retry(m, k)
  PROVE  RunsUpdates
<1> DEFINE t == task[m][k]
           L == rows[m]
<1> USE DEF IInv
<1>1. t \in SafeTask /\ t \in Task
  BY TaskIsSafe DEF Bookkeeping
<1>2. CASE \/ Load(m, k) \/ LoadFault(m, k) \/ Register(m, k) \/ PrepareFault(m, k)
           \/ Start(m, k) \/ StartStopped(m, k) \/ StartFault(m, k)
           \/ Finalize(m, k) \/ DropControl(m, k) \/ Fail(m, k) \/ Skip(m, k) \/ WatcherEnds(m, k)
           \/ ExecutorOf(m, k)
  <2>1. UNCHANGED rows
    BY <1>2 DEF Load, LoadFault, Register, PrepareFault, Start, StartStopped,
       StartFault, Finalize, DropControl, Fail, Skip, WatcherEnds, ExecutorOf, Exit, TaskOnly
  <2> QED BY <2>1, LeavesRows
<1>4. ASSUME NEW from \in Active, NEW to \in Active \ {"starting"}, Approval(m, k, from, to)
      PROVE  RunsUpdates
  <2>1. CASE UNCHANGED rows
    BY <2>1, LeavesRows
  <2>2. CASE \E i \in BoundTo(L, k) : L[i].status = from /\ SetRows(m, SetStatus(L, i, to))
    <3>1. PICK i \in RowIds : L[i].status \in Active /\ SetRows(m, SetStatus(L, i, to))
      BY <2>2 DEF BoundTo
    <3>2. Update(L, SetStatus(L, i, to))
      BY <3>1, AdvanceIsUpdate DEF Taken
    <3> QED BY <3>1, <3>2, WritesRows
  <2> QED BY <1>4, <2>1, <2>2 DEF Approval
<1>5. CASE ApprovalOf(m, k)
  <2>1. {"running", "waiting_approval"} \subseteq Active \ {"starting"}
    BY DEF Active
  <2> QED BY <1>4, <1>5, <2>1 DEF ApprovalOf, AskApproval, LeaveApproval
<1>6. CASE Commit(m, k)
  <2> DEFINE Mine == {i \in BoundTo(L, k) : Matches(L, i, t.rev, Active)}
             i    == CHOOSE i \in Mine : TRUE
             done == SetStatus(L, i, "completed")
  <2>1. CASE Mine = {}
    BY <1>6, <2>1, LeavesRows DEF Commit
  <2>2. CASE Mine # {}
    <3>1. i \in RowIds /\ L[i].status \in Active
      BY <2>2 DEF Matches
    <3>2. "completed" \in Taken \ {"starting"} /\ "completed" \in Terminal
      BY DEF Taken, Terminal
    <3> HIDE DEF i
    <3>3. Update(L, done) /\ Update(L, ClaimNext(done))
      BY <3>1, <3>2 DEF Update, Moves
    <3>4. Update(L, FailOrSkip(L, i))
      BY <3>1, FailOrSkipIsUpdate
    <3>5. \/ SetRows(m, done) \/ SetRows(m, ClaimNext(done))
          \/ SetRows(m, FailOrSkip(L, i))
      BY <1>6, <2>2 DEF Commit, i
    <3> HIDE DEF done
    <3> QED BY <3>3, <3>4, <3>5, WritesRows
  <2> QED BY <2>1, <2>2
<1>8. CASE Reclaim(m, k)
  <2>1. Update(L, ClaimNext(L))
    BY DEF Update
  <2>2. SetRows(m, ClaimNext(L))
    BY <1>8 DEF Reclaim
  <2> QED BY <2>1, <2>2, WritesRows
<1>9. CASE SettleBound(m, k)
  <2> DEFINE Mine == {i \in BoundTo(L, k) : Matches(L, i, t.rev, Active)}
             i    == CHOOSE i \in Mine : TRUE
             done == SetStatus(L, i, "completed")
  <2>1. CASE Mine = {}
    BY <1>9, <2>1, LeavesRows DEF SettleBound
  <2>2. CASE Mine # {}
    <3>1. i \in RowIds /\ L[i].status \in Active
      BY <2>2 DEF Matches
    <3> HIDE DEF i
    <3>2. Update(L, done)
      BY <3>1, AdvanceIsUpdate DEF Taken, Terminal
    <3>3. Update(L, FailOrSkip(L, i))
      BY <3>1, FailOrSkipIsUpdate
    <3>4. SetRows(m, done) \/ SetRows(m, FailOrSkip(L, i))
      BY <1>9, <2>2 DEF SettleBound, i
    <3> HIDE DEF done
    <3> QED BY <3>2, <3>3, <3>4, WritesRows
  <2> QED BY <2>1, <2>2
<1>10. ASSUME NEW rev, NEW status \in Taken \ {"starting"},
              SetRows(m, IF Matches(L, t.row, rev, {"starting"})
                         THEN SetStatus(L, t.row, status) ELSE L)
       PROVE  RunsUpdates
  <2>1. CASE Matches(L, t.row, rev, {"starting"})
    <3>1. t.row \in RowIds /\ L[t.row].status \in Active
      BY <2>1 DEF Matches, Active
    <3>2. Update(L, SetStatus(L, t.row, status))
      BY <3>1, AdvanceIsUpdate
    <3> QED BY <1>10, <2>1, <3>2, WritesRows
  <2>2. CASE ~Matches(L, t.row, rev, {"starting"})
    <3>1. Update(L, L)
      BY DEF Update
    <3> QED BY <1>10, <2>2, <3>1, WritesRows
  <2> QED BY <2>1, <2>2
<1>11. CASE SettleStarting(m, k)
  <2>1. t.next \in Taken \ {"starting"}
    BY <1>1, <1>11 DEF SettleStarting, SafeTask, Taken, Terminal
  <2> QED BY <1>10, <1>11, <2>1 DEF SettleStarting
<1>12. CASE Mark(m, k)
  <2>1. t.next \in Taken \ {"starting"}
    BY <1>1, <1>12 DEF Mark, SafeTask, Taken, Terminal
  <2> QED BY <1>10, <1>12, <2>1 DEF Mark
<1> QED BY <1>2, <1>5, <1>6, <1>8, <1>9, <1>11, <1>12
    DEF RunOf, TaskStepOf, FaultOf

\* The steps of a stop call.
LEMMA StopRunsUpdates ==
  ASSUME IInv, NEW m \in Members, StopRequest(m) \/ StopStepOf(m)
  PROVE  RunsUpdates
<1> DEFINE s == stop[m]
           L == rows[m]
<1> USE DEF IInv
<1>1. s \in SafeStop
  BY DEF Bookkeeping
<1>2. CASE \/ StopRequest(m) \/ StopFind(m) \/ StopLookup(m)
           \/ StopCancel(m) \/ StopReset(m) \/ StopList(m)
  <2>1. UNCHANGED rows
    BY <1>2 DEF StopRequest, StopFind, StopLookup, StopCancel, StopReset, StopList
  <2> QED BY <2>1, LeavesRows
<1>3. CASE StopTransition(m)
  <2>1. CASE ~Matches(L, s.row, s.rev, {s.status})
    <3>1. UNCHANGED rows
      BY <1>3, <2>1 DEF StopTransition, SetRows, Ledgers
    <3> QED BY <3>1, LeavesRows
  <2>2. CASE Matches(L, s.row, s.rev, {s.status})
    <3>1. s.row \in RowIds /\ L[s.row].status = s.status
      BY <2>2 DEF Matches
    <3>2. L[s.row].status \in Active
      BY <1>1, <1>3, <3>1 DEF StopTransition, SafeStop, Active
    <3>3. /\ Update(L, SetStatus(L, s.row, "cancelled"))
          /\ Update(L, SetStatus(L, s.row, "stopping"))
      BY <3>1, <3>2, AdvanceIsUpdate DEF Taken, Active, Terminal
    <3>4. \/ SetRows(m, SetStatus(L, s.row, "cancelled"))
          \/ SetRows(m, SetStatus(L, s.row, "stopping"))
          \/ UNCHANGED rows
      BY <1>3, <2>2 DEF StopTransition
    <3> QED BY <3>3, <3>4, WritesRows, LeavesRows
  <2> QED BY <2>1, <2>2
<1>4. CASE StopRequeue(m)
  <2>1. CASE Matches(L, s.row, s.rev, {s.status})
    <3>1. s.row \in RowIds /\ L[s.row].status \in Active
      BY <1>1, <1>4, <2>1 DEF StopRequeue, SafeStop, Matches
    <3>2. Update(L, Requeue(L, s.row))
      BY <3>1 DEF Update, Returns
    <3>3. SetRows(m, Requeue(L, s.row))
      BY <1>4, <2>1 DEF StopRequeue
    <3> QED BY <3>2, <3>3, WritesRows
  <2>2. CASE ~Matches(L, s.row, s.rev, {s.status})
    <3>1. SetRows(m, L)
      BY <1>4, <2>2 DEF StopRequeue
    <3>2. Update(L, L)
      BY DEF Update
    <3> QED BY <3>1, <3>2, WritesRows
  <2> QED BY <2>1, <2>2
<1> QED BY <1>2, <1>3, <1>4 DEF StopStepOf

\* The steps of startup recovery.
LEMMA RecoveryRunsUpdates ==
  ASSUME IInv, NEW m \in Members, RecoveryOf(m)
  PROVE  RunsUpdates
<1> USE DEF IInv
<1>1. CASE RecoverReset(m) \/ RecoverResume(m)
  BY <1>1, LeavesRows DEF RecoverReset, RecoverResume
<1>2. CASE RecoverRequeue(m)
  <2> DEFINE L == rows[m]
             i == ActiveRow(L)
  <2>1. CASE i = NoRow
    <3>1. SetRows(m, L)
      BY <1>2, <2>1 DEF RecoverRequeue
    <3>2. Update(L, L)
      BY DEF Update
    <3> QED BY <3>1, <3>2, WritesRows
  <2>2. CASE i # NoRow
    <3>1. i \in RowIds /\ L[i].status \in Active
      BY <2>2, ActiveRowChosen
    <3>2. SetRows(m, Requeue(L, i))
      BY <1>2, <2>2 DEF RecoverRequeue
    <3> HIDE DEF i
    <3>3. Update(L, Requeue(L, i))
      BY <3>1 DEF Update, Returns
    <3> QED BY <3>2, <3>3, WritesRows
  <2> QED BY <2>1, <2>2
<1> QED BY <1>1, <1>2 DEF RecoveryOf

\* A step that creates no delivery and binds none runs at most one update
\* against each ledger ...
LEMMA NextRunsUpdates ==
  ASSUME IInv, [Next]_vars, ~CreatesOrBinds
  PROVE  RunsUpdates
<1> USE DEF IInv
<1>3. ASSUME NEW n \in Messages, RemoveMessage(n)
      PROVE  RunsUpdates
  BY <1>3, EraseRunsUpdates DEF RemoveMessage
<1>4. ASSUME NEW m \in Members, Continue(m)
      PROVE  RunsUpdates
  <2>1. Update(rows[m], ResolveFailed(rows[m]))
    BY DEF Update
  <2> QED BY <1>4, <2>1, WritesRows DEF Continue
<1>5. ASSUME NEW m \in Members, Wake(m)
      PROVE  RunsUpdates
  <2>1. Update(rows[m], ClaimNext(rows[m]))
    BY DEF Update
  <2> QED BY <1>5, <2>1, WritesRows DEF Wake
<1>6. ASSUME NEW m \in Members, NEW i \in RowIds, Unqueue(m, i)
      PROVE  RunsUpdates
  <2>1. Update(rows[m], DeleteRow(rows[m], i))
    BY <1>6 DEF Unqueue, Update, Deletes
  <2> QED BY <1>6, <2>1, WritesRows DEF Unqueue
<1>7. CASE UnqueueStep
  <2>1. CASE UnqueueCount
    BY <2>1, LeavesRows DEF UnqueueCount
  <2>2. CASE UnqueueErase
    <3>1. unqueue.msg \in Messages \cup {NoMessage}
      BY DEF Bookkeeping, UnqueueCall
    <3> QED BY <2>2, <3>1, EraseRunsUpdates DEF UnqueueErase
  <2> QED BY <1>7, <2>1, <2>2 DEF UnqueueStep
<1>8. CASE Crash
  BY <1>8, LeavesRows DEF Crash
<1>9. CASE UNCHANGED vars
  BY <1>9, LeavesRows DEF vars, persistent
<1>10. ASSUME NEW m \in Members, NEW k \in Runs, RunOf(m, k)
       PROVE  RunsUpdates
  BY <1>10, RunRunsUpdates DEF CreatesOrBinds
<1>11. ASSUME NEW m \in Members, StopRequest(m) \/ StopStepOf(m) \/ RecoveryOf(m)
       PROVE  RunsUpdates
  BY <1>11, StopRunsUpdates, RecoveryRunsUpdates
<1> QED BY <1>3, <1>4, <1>5, <1>6, <1>7, <1>8, <1>9, <1>10, <1>11 DEF Next, CreatesOrBinds

\* persist_delivery_bundle_rows, for every target at once
LEMMA BundleRunsStatements ==
  ASSUME Ledgers, NEW n \in Messages, NEW targets \in SUBSET Members,
         PersistBundle(n, targets)
  PROVE  RunsStatements
<1>1. ASSUME NEW m \in Members
      PROVE  Statement(rows[m], rows'[m])
  <2>1. CASE m \in targets
    <3>1. HasRowFor(rows[m], n) \/ HasRoom(rows[m])
      BY <2>1 DEF PersistBundle, CanBundle
    <3>2. rows'[m] = ClaimNext(Enqueue(rows[m], n))
      BY <2>1 DEF PersistBundle, Bundle
    <3> QED BY <3>1, <3>2 DEF Statement, Creates
  <2>2. CASE m \notin targets
    BY <2>2 DEF PersistBundle, Statement, Update
  <2> QED BY <2>1, <2>2
<1>2. rows' = [m \in Members |-> rows'[m]]
  BY DEF PersistBundle
<1> QED BY <1>1, <1>2 DEF RunsStatements

\* ... and the others one statement each.
LEMMA NextRunsStatements ==
  ASSUME IInv, [Next]_vars
  PROVE  RunsStatements
<1> USE DEF IInv
<1>1. ASSUME NEW m \in Members, NEW L, SetRows(m, L), Statement(rows[m], L)
      PROVE  RunsStatements
  <2>1. /\ rows' = [x \in Members |-> rows'[x]]
        /\ rows'[m] = L /\ \A x \in Members : x # m => rows'[x] = rows[x]
    BY <1>1 DEF Ledgers, SetRows
  <2>2. \A x \in Members : Statement(rows[x], rows[x])
    BY DEF Statement, Update
  <2> QED BY <1>1, <2>1, <2>2 DEF RunsStatements
<1>2. RunsUpdates => RunsStatements
  BY DEF RunsUpdates, RunsStatements, Statement
<1>3. ASSUME NEW targets \in SUBSET Members, Send(targets)
      PROVE  RunsStatements
  <2>1. sent + 1 \in Messages
    BY <1>3, RoomIsRoom DEF Send, Bookkeeping
  <2> QED BY <1>3, <2>1, BundleRunsStatements DEF Send
<1>4. ASSUME NEW n \in Messages, Resend(n)
      PROVE  RunsStatements
  <2>1. message[n].targets \in SUBSET Members
    BY DEF Bookkeeping, MessageRow
  <2> QED BY <1>4, <2>1, BundleRunsStatements DEF Resend
<1>5. ASSUME NEW m \in Members, NEW k \in Runs, Bind(m, k)
      PROVE  RunsStatements
  <2> DEFINE t == task[m][k]
             L == rows[m]
  <2>1. CASE Matches(L, t.row, t.rev, {"starting"})
    <3>1. Statement(L, BindRun(L, t.row, k))
      BY <2>1 DEF Matches, Statement, Binds
    <3>2. SetRows(m, BindRun(L, t.row, k))
      BY <1>5, <2>1 DEF Bind
    <3> QED BY <1>1, <3>1, <3>2
  <2>2. CASE ~Matches(L, t.row, t.rev, {"starting"})
    BY <1>2, <1>5, <2>2, LeavesRows DEF Bind
  <2> QED BY <2>1, <2>2
<1>6. ASSUME NEW m \in Members, NEW k \in Runs, Retry(m, k)
      PROVE  RunsStatements
  <2> DEFINE L == rows[m]
  <2>1. sent + 1 \in Messages
    BY <1>6, LedgerAssumption DEF Retry, Bookkeeping, Messages
  <2>2. Statement(L, Enqueue(L, sent + 1))
    BY <1>6, <2>1 DEF Retry, Statement, Creates
  <2>3. SetRows(m, Enqueue(L, sent + 1))
    BY <1>6 DEF Retry
  <2> QED BY <1>1, <2>2, <2>3
<1>7. CASE ~CreatesOrBinds
  BY <1>2, <1>7, NextRunsUpdates
<1> QED BY <1>3, <1>4, <1>5, <1>6, <1>7 DEF CreatesOrBinds

-------------------------------------------------------------------------------
(* The ledgers stay sound.                                                   *)

\* Soundness of the ledgers is kept by every step that runs statements only.
LEMMA StatementsKeepLedgers ==
  ASSUME Ledgers, RunsStatements
  PROVE  Ledgers'
<1>1. ASSUME NEW m \in Members
      PROVE  Sound(rows'[m]) /\ rows'[m] \in Ledger
  <2>1. Sound(rows[m]) /\ Statement(rows[m], rows'[m])
    BY DEF Ledgers, RunsStatements
  <2>2. Sound(rows'[m])
    BY <2>1, StatementKeepsLedgerSound
  <2> QED BY <2>2 DEF Sound
<1>2. rows' \in [Members -> Ledger]
  BY <1>1 DEF RunsStatements
<1> QED BY <1>1, <1>2 DEF Ledgers

-------------------------------------------------------------------------------
(* The rest of the state keeps its shape.                                    *)

\* The budget of events never leaves its range.
LEMMA SpendTyped ==
  ASSUME budget \in 0..Budget, NEW kind, Spend(kind)
  PROVE  budget' \in 0..Budget
BY DeliveryAssumption DEF Spend

\* The row a task works on.
LEMMA TheRowTyped ==
  ASSUME Ledgers, task \in Tasks, NEW m \in Members, NEW k \in Runs,
         task[m][k].pc \notin {"free", "done"}
  PROVE  /\ TheRow(m, k) \in Row
         /\ TheRow(m, k).rev \in Nat /\ TheRow(m, k).attempt \in Nat
<1>1. task[m][k].row \in RowIds
  BY DEF Tasks, SafeTask
<1>2. TheRow(m, k) \in Row
  BY <1>1, RowIsTyped DEF TheRow
<1> QED BY <1>2 DEF Row

\* Actions of a task that rewrite that task and no other.
OwnTaskStep(m, k) ==
  \/ Load(m, k) \/ LoadFault(m, k) \/ Register(m, k) \/ PrepareFault(m, k)
  \/ Bind(m, k) \/ Start(m, k) \/ StartStopped(m, k) \/ StartFault(m, k)
  \/ Finalize(m, k) \/ DropControl(m, k) \/ Fail(m, k) \/ Skip(m, k)
  \/ SettleBound(m, k) \/ SettleStarting(m, k) \/ Mark(m, k)
  \/ ApprovalOf(m, k) \/ ExecutorOf(m, k) \/ WatcherEnds(m, k)

\* A step that writes only the task of run k keeps the bookkeeping typed.
LEMMA OwnTaskTyped ==
  ASSUME Bookkeeping, Ledgers, NEW m \in Members, NEW k \in Runs, OwnTaskStep(m, k)
  PROVE  task' \in Tasks
<1> DEFINE t == task[m][k]
           r == TheRow(m, k)
<1>1. t \in SafeTask /\ t \in Task /\ task \in Tasks
  BY TaskIsSafe DEF Bookkeeping
<1>2. ASSUME NEW u \in SafeTask, SetTask(m, k, u)
      PROVE  task' \in Tasks
  BY <1>1, <1>2, WritesTask
<1>3. CASE Load(m, k)
  <2>1. t.pc = "load" /\ r.rev \in Nat /\ r.attempt \in Nat
    BY <1>1, <1>3, TheRowTyped DEF Load
  <2>2. /\ [t EXCEPT !.pc = "register", !.rev = r.rev, !.attempt = r.attempt] \in SafeTask
        /\ [t EXCEPT !.pc = "skip"] \in SafeTask
    <3> HIDE DEF r
    <3> QED BY <1>1, <2>1 DEF Task, SafeTask, TaskStep
  <2>3. \/ SetTask(m, k, [t EXCEPT !.pc = "register", !.rev = r.rev,
                                   !.attempt = r.attempt])
        \/ SetTask(m, k, [t EXCEPT !.pc = "skip"])
    BY <1>3 DEF Load
  <2> QED BY <1>2, <2>2, <2>3
<1>4. CASE LoadFault(m, k) \/ Register(m, k) \/ Start(m, k) \/ DropControl(m, k)
  <2>1. /\ [t EXCEPT !.pc = "skip"] \in SafeTask
        /\ [t EXCEPT !.pc = "prepare"] \in SafeTask
        /\ [t EXCEPT !.pc = "execute", !.watched = TRUE] \in SafeTask
        /\ [t EXCEPT !.pc = "fail"] \in SafeTask
    BY <1>1, <1>4 DEF LoadFault, Register, Start, DropControl, Task, SafeTask, TaskStep
  <2>2. \/ SetTask(m, k, [t EXCEPT !.pc = "skip"])
        \/ SetTask(m, k, [t EXCEPT !.pc = "prepare"])
        \/ SetTask(m, k, [t EXCEPT !.pc = "execute", !.watched = TRUE])
        \/ SetTask(m, k, [t EXCEPT !.pc = "fail"])
    BY <1>4 DEF LoadFault, Register, Start, DropControl
  <2> QED BY <1>2, <2>1, <2>2
<1>5. CASE PrepareFault(m, k) \/ StartStopped(m, k) \/ StartFault(m, k) \/ Bind(m, k)
  <2>1. /\ [t EXCEPT !.pc = "drop", !.outcome = "failed"] \in SafeTask
        /\ [t EXCEPT !.pc = "drop", !.outcome = "stopped"] \in SafeTask
        /\ [t EXCEPT !.pc = "start", !.rev = 0] \in SafeTask
    BY <1>1, <1>5 DEF PrepareFault, StartStopped, StartFault, Bind,
       Task, SafeTask, TaskStep, Outcome
  <2>2. \/ SetTask(m, k, [t EXCEPT !.pc = "drop", !.outcome = "failed"])
        \/ SetTask(m, k, [t EXCEPT !.pc = "drop", !.outcome = "stopped"])
        \/ SetTask(m, k, [t EXCEPT !.pc = "start", !.rev = 0])
    BY <1>5 DEF PrepareFault, StartStopped, StartFault, Bind
  <2> QED BY <1>2, <2>1, <2>2
<1>6. CASE Finalize(m, k)
  <2>1. CASE BoundTo(rows[m], k) = {}
    <3>1. SetTask(m, k, Finished(t))
      BY <1>6, <2>1 DEF Finalize
    <3> QED BY <1>1, <1>2, <3>1, FinishedSafe
  <2>2. CASE BoundTo(rows[m], k) # {}
    <3> DEFINE i == CHOOSE i \in BoundTo(rows[m], k) : TRUE
               n == rows[m][i].rev
    <3>1. i \in RowIds
      BY <2>2 DEF BoundTo
    <3>2. n \in Nat
      BY <3>1, RowIsTyped DEF Row
    <3>3. SetTask(m, k, [t EXCEPT !.pc = "commit", !.rev = n])
      BY <1>6, <2>2 DEF Finalize
    <3> HIDE DEF n
    <3>4. [t EXCEPT !.pc = "commit", !.rev = n] \in SafeTask
      BY <1>1, <1>6, <3>2 DEF Finalize, Task, SafeTask, TaskStep
    <3> QED BY <1>2, <3>3, <3>4
  <2> QED BY <2>1, <2>2
<1>7. CASE Fail(m, k)
  <2>1. t.pc = "fail" /\ r.rev \in Nat
    BY <1>1, <1>7, TheRowTyped DEF Fail
  <2>2. AfterFailure(t) \in SafeTask
    BY <1>1, <2>1, AfterFailureSafe
  <2>3. PICK next \in {"running", "cancelled", "failed", "skipped"} :
          SetTask(m, k, [t EXCEPT !.pc = "settle", !.rev = r.rev, !.next = next])
          \/ SetTask(m, k, AfterFailure(t))
    BY <1>7 DEF Fail, FailureStatus
  <2>4. [t EXCEPT !.pc = "settle", !.rev = r.rev, !.next = next] \in SafeTask
    <3> HIDE DEF r
    <3> QED BY <1>1, <2>1 DEF Task, SafeTask, TaskStep, Status, Stored, Active, Terminal
  <2> QED BY <1>2, <2>2, <2>3, <2>4
<1>8. CASE Skip(m, k)
  <2>1. PICK next \in {"failed", "skipped"} :
          SetTask(m, k, [t EXCEPT !.pc = "mark", !.next = next])
    BY <1>8 DEF Skip, FailureStatus
  <2>2. [t EXCEPT !.pc = "mark", !.next = next] \in SafeTask
    BY <1>1, <1>8 DEF Skip, Task, SafeTask, TaskStep, Status, Stored, Terminal
  <2> QED BY <1>2, <2>1, <2>2
<1>9. CASE SettleBound(m, k) \/ SettleStarting(m, k) \/ Mark(m, k)
  <2>1. AfterFailure(t) \in SafeTask /\ Finished(t) \in SafeTask
    BY <1>1, <1>9, AfterFailureSafe, FinishedSafe DEF SettleBound, SettleStarting, Mark
  <2>2. SetTask(m, k, AfterFailure(t)) \/ SetTask(m, k, Finished(t))
    BY <1>9 DEF SettleBound, SettleStarting, Mark
  <2> QED BY <1>2, <2>1, <2>2
<1>10. CASE ApprovalOf(m, k) \/ WatcherEnds(m, k)
  <2>1. /\ [t EXCEPT !.asking = TRUE] \in SafeTask
        /\ [t EXCEPT !.asking = FALSE] \in SafeTask
        /\ [t EXCEPT !.watched = FALSE] \in SafeTask
    BY <1>1 DEF Task, SafeTask
  <2>2. \/ SetTask(m, k, [t EXCEPT !.asking = TRUE])
        \/ SetTask(m, k, [t EXCEPT !.asking = FALSE])
        \/ SetTask(m, k, [t EXCEPT !.watched = FALSE])
    BY <1>10 DEF ApprovalOf, AskApproval, LeaveApproval, WatcherEnds
  <2> QED BY <1>2, <2>1, <2>2
<1>11. CASE ExecutorOf(m, k)
  <2>1. PICK outcome \in Outcome : Exit(m, k, outcome)
    BY <1>11 DEF ExecutorOf
  <2>2. [t EXCEPT !.pc = "finalize", !.outcome = outcome] \in SafeTask
    BY <1>1, <2>1 DEF Exit, Task, SafeTask, TaskStep
  <2>3. SetTask(m, k, [t EXCEPT !.pc = "finalize", !.outcome = outcome])
    BY <2>1 DEF Exit
  <2> QED BY <1>2, <2>2, <2>3
<1> QED BY <1>3, <1>4, <1>5, <1>6, <1>7, <1>8, <1>9, <1>10, <1>11 DEF OwnTaskStep

\* Commit, Retry and Reclaim hand a delivery to another run.
LEMMA HandingOnTyped ==
  ASSUME Bookkeeping, Ledgers, NEW m \in Members, NEW k \in Runs,
         Commit(m, k) \/ Retry(m, k) \/ Reclaim(m, k)
  PROVE  task' \in Tasks
<1> DEFINE t == task[m][k]
<1>1. t \in SafeTask /\ t \in Task /\ task \in Tasks /\ Finished(t) \in SafeTask
  BY TaskIsSafe, FinishedSafe DEF Bookkeeping
<1>2. ASSUME NEW u \in SafeTask, SetTask(m, k, u)
      PROVE  task' \in Tasks
  BY <1>1, <1>2, WritesTask
<1>3. ASSUME NEW T \in [Runs -> SafeTask], task' = [task EXCEPT ![m] = T]
      PROVE  task' \in Tasks
  BY <1>1, <1>3 DEF Tasks
<1>4. task[m] \in [Runs -> SafeTask]
  BY <1>1 DEF Tasks
<1>5. CASE Commit(m, k)
  <2> DEFINE Mine  == {i \in BoundTo(rows[m], k) : Matches(rows[m], i, t.rev, Active)}
             i     == CHOOSE i \in Mine : TRUE
             done  == SetStatus(rows[m], i, "completed")
             next  == IF t.outcome = "retry" THEN NoRow ELSE NextClaim(done)
             after == IF t.outcome = "retry" THEN done ELSE ClaimNext(done)
             last  == IF t.outcome = "retry" THEN [t EXCEPT !.pc = "retry", !.rev = 0]
                                             ELSE Finished(t)
             ended == [task[m] EXCEPT ![k] = last]
  <2>1. CASE SetTask(m, k, Finished(t))
    BY <1>1, <1>2, <2>1
  <2>2. CASE /\ Mine # {}
             /\ next = NoRow \/ HasFreeRun(task[m])
             /\ task' = [task EXCEPT ![m] = Launch(ended, after, next)]
    <3>1. [t EXCEPT !.pc = "retry", !.rev = 0] \in SafeTask
      BY <1>1, <1>5 DEF Commit, Task, SafeTask, TaskStep
    <3>2. last \in SafeTask /\ last.pc # "free"
      BY <1>1, <3>1 DEF Finished, IdleTask, Task
    <3>3. ended \in [Runs -> SafeTask]
      <4> HIDE DEF last
      <4> QED BY <1>4, <3>2
    <3>4. i \in RowIds /\ rows[m][i].status \in Active
      <4>1. Mine # {}
        BY <2>2
      <4> QED BY <4>1 DEF Matches
    <3>5. Sound(done)
      <4>1. Sound(rows[m])
        BY DEF Ledgers
      <4>2. "completed" \in Taken
        BY DEF Taken, Terminal
      <4> HIDE DEF i
      <4> QED BY <3>4, <4>1, <4>2, SetStatusSound
    <3>6. after \in Ledger
      <4>1. Sound(ClaimNext(done))
        BY <3>5, ClaimNextSound
      <4> QED BY <3>5, <4>1 DEF Sound
    <3>7. next \in RowIds \cup {NoRow}
      BY NextClaimChosen
    <3>8. HasFreeRun(task[m]) => HasFreeRun(ended)
      <4>1. ASSUME NEW j \in Runs, IsFreeRun(task[m], j)
            PROVE  IsFreeRun(ended, j)
        <5>1. t.pc # "free" /\ j # k
          BY <1>5, <4>1 DEF Commit, IsFreeRun
        <5>2. \A x \in Runs : ended[x] = IF x = k THEN last ELSE task[m][x]
          BY <1>4
        <5> HIDE DEF ended, last
        <5> QED BY <3>2, <4>1, <5>1, <5>2 DEF IsFreeRun
      <4> QED BY <4>1 DEF HasFreeRun
    <3>9. next = NoRow \/ HasFreeRun(ended)
      BY <2>2, <3>8
    <3> HIDE DEF ended, after, next
    <3>10. Launch(ended, after, next) \in [Runs -> SafeTask]
      BY <3>3, <3>6, <3>7, <3>9, LaunchTyped
    <3> QED BY <1>3, <2>2, <3>10
  <2> QED BY <1>5, <2>1, <2>2 DEF Commit
<1>6. CASE Retry(m, k)
  <2> DEFINE T == [task[m] EXCEPT ![k] = Finished(t)]
             u == [IdleTask EXCEPT !.pc = "reclaim", !.row = Fresh(rows[m])]
  <2>1. Fresh(rows[m]) \in RowIds
    BY <1>6, FreshChosen DEF Retry
  <2>2. u \in SafeTask
    BY <2>1 DEF IdleTask, SafeTask, Task, TaskStep, Outcome, Status
  <2>3. T \in [Runs -> SafeTask]
    BY <1>1, <1>4
  <2>4. task' = [task EXCEPT ![m] = [T EXCEPT ![FreeRun(task[m])] = u]]
    BY <1>6 DEF Retry
  <2> HIDE DEF T, u
  <2>5. [T EXCEPT ![FreeRun(task[m])] = u] \in [Runs -> SafeTask]
    BY <2>2, <2>3
  <2> QED BY <1>3, <2>4, <2>5
<1>7. CASE Reclaim(m, k)
  <2> DEFINE next == NextClaim(rows[m])
             L    == ClaimNext(rows[m])
             rev  == L[next].rev
             att  == L[next].attempt
  <2>1. CASE next = NoRow
    <3>1. t.row # next
      BY <1>1, <1>7, <2>1, RowIdsPositive DEF Reclaim, SafeTask
    <3>2. SetTask(m, k, Finished(t))
      BY <1>7, <2>1, <3>1 DEF Reclaim
    <3> QED BY <1>1, <1>2, <3>2
  <2>2. CASE next # NoRow
    <3>1. next \in RowIds
      BY <2>2, NextClaimChosen
    <3>2. L \in Ledger
      <4>1. Sound(rows[m])
        BY DEF Ledgers
      <4>2. Sound(L)
        BY <4>1, ClaimNextSound
      <4> QED BY <4>2 DEF Sound
    <3>3. rev \in Nat /\ att \in Nat
      BY <3>1, <3>2 DEF Ledger, Row
    <3>4. \/ SetTask(m, k, [t EXCEPT !.pc = "register", !.rev = rev, !.attempt = att])
          \/ SetTask(m, k, [IdleTask EXCEPT !.pc = "load", !.row = next, !.entry = rev])
      BY <1>7, <2>2 DEF Reclaim
    <3> HIDE DEF rev, att, next
    <3>5. [t EXCEPT !.pc = "register", !.rev = rev, !.attempt = att] \in SafeTask
      BY <1>1, <1>7, <3>3 DEF Reclaim, Task, SafeTask, TaskStep
    <3>6. [IdleTask EXCEPT !.pc = "load", !.row = next, !.entry = rev] \in SafeTask
      BY <3>1, <3>3 DEF IdleTask, SafeTask, Task, TaskStep, Outcome, Status
    <3> QED BY <1>2, <3>4, <3>5, <3>6
  <2> QED BY <2>1, <2>2
<1> QED BY <1>5, <1>6, <1>7

\* persist_delivery_bundle_rows dispatches what it claimed.
LEMMA BundleTyped ==
  ASSUME Bookkeeping, Ledgers, NEW n \in Messages, NEW targets \in SUBSET Members,
         PersistBundle(n, targets)
  PROVE  task' \in Tasks
<1>1. ASSUME NEW m \in Members
      PROVE  task'[m] \in [Runs -> SafeTask]
  <2>1. task[m] \in [Runs -> SafeTask]
    BY DEF Bookkeeping, Tasks
  <2>2. CASE m \notin targets
    BY <2>1, <2>2 DEF PersistBundle
  <2>3. CASE m \in targets
    <3> DEFINE L == Bundle(rows[m], n)
               i == ToDispatch(rows[m], n)
    <3>1. HasRowFor(rows[m], n) \/ HasRoom(rows[m])
      BY <2>3 DEF PersistBundle, CanBundle
    <3>2. i = NoRow \/ HasFreeRun(task[m])
      BY <2>3 DEF PersistBundle, CanBundle
    <3>3. Sound(rows[m])
      BY DEF Ledgers
    <3>4. Sound(Enqueue(rows[m], n))
      BY <3>1, <3>3, EnqueueSound
    <3>5. Sound(L)
      <4>1. Sound(ClaimNext(Enqueue(rows[m], n)))
        BY <3>4, ClaimNextSound
      <4> QED BY <4>1 DEF Bundle
    <3>6. L \in Ledger
      BY <3>5 DEF Sound
    <3>7. i \in RowIds \cup {NoRow}
      <4> DEFINE queued  == Enqueue(rows[m], n)
                 Unbound == {j \in RowIds : /\ queued[j].status = "starting"
                                            /\ queued[j].msg = n
                                            /\ queued[j].run = NoRun}
      <4>1. \/ i = NextClaim(queued) /\ NextClaim(queued) # NoRow
            \/ i = (CHOOSE j \in Unbound : TRUE) /\ Unbound # {}
            \/ i = NoRow
        <5> HIDE DEF queued
        <5> QED BY DEF ToDispatch, queued
      <4>2. Unbound # {} => (CHOOSE j \in Unbound : TRUE) \in RowIds
        OBVIOUS
      <4>3. NextClaim(queued) \in RowIds \cup {NoRow}
        BY NextClaimChosen
      <4> HIDE DEF queued, Unbound, i
      <4> QED BY <4>1, <4>2, <4>3
    <3>8. task'[m] = Launch(task[m], L, i)
      BY <2>3 DEF PersistBundle
    <3> HIDE DEF L, i
    <3> QED BY <2>1, <3>2, <3>6, <3>7, <3>8, LaunchTyped
  <2> QED BY <2>2, <2>3
<1>2. task' = [m \in Members |-> task'[m]]
  BY DEF PersistBundle
<1> HIDE DEF Tasks
<1>3. task' \in [Members -> [Runs -> SafeTask]]
  BY <1>1, <1>2
<1> QED BY <1>3 DEF Tasks

\* dispatch_next_queued_message dispatches what it claimed.
LEMMA WakeTyped ==
  ASSUME Bookkeeping, Ledgers, NEW m \in Members, Wake(m)
  PROVE  task' \in Tasks
<1> DEFINE L == ClaimNext(rows[m])
           i == NextClaim(rows[m])
<1>1. task \in Tasks /\ task[m] \in [Runs -> SafeTask]
  BY DEF Bookkeeping, Tasks
<1>2. L \in Ledger
  <2>1. Sound(rows[m])
    BY DEF Ledgers
  <2>2. Sound(L)
    BY <2>1, ClaimNextSound
  <2> QED BY <2>2 DEF Sound
<1>3. i \in RowIds \cup {NoRow}
  BY NextClaimChosen
<1>4. i = NoRow \/ HasFreeRun(task[m])
  BY DEF Wake
<1>5. task' = [task EXCEPT ![m] = Launch(task[m], L, i)]
  BY DEF Wake
<1> HIDE DEF L, i
<1>6. Launch(task[m], L, i) \in [Runs -> SafeTask]
  BY <1>1, <1>2, <1>3, <1>4, LaunchTyped
<1> QED BY <1>1, <1>5, <1>6 DEF Tasks

\* A run keeps the rest of the state in shape.
LEMMA RunTyped ==
  ASSUME Bookkeeping, Ledgers, NEW m \in Members, NEW k \in Runs, RunOf(m, k)
  PROVE  Bookkeeping'
<1> USE DEF Bookkeeping
<1>1. CASE OwnTaskStep(m, k)
  <2>1. task' \in Tasks
    BY <1>1, OwnTaskTyped
  <2>2. UNCHANGED <<message, sent, wake, stop, unqueue, recovering>>
    BY <1>1 DEF OwnTaskStep, Load, LoadFault, Register, PrepareFault, Bind, Start,
       StartStopped, StartFault, Finalize, DropControl, Fail, Skip, SettleBound,
       SettleStarting, Mark, ApprovalOf, AskApproval, LeaveApproval, ExecutorOf, Exit, WatcherEnds,
       TaskOnly
  <2>3. control' \in [Members -> Runs \cup {NoRun}]
    BY <1>1 DEF OwnTaskStep, Load, LoadFault, Register, PrepareFault, Bind, Start,
       StartStopped, StartFault, Finalize, DropControl, Fail, Skip, SettleBound,
       SettleStarting, Mark, ApprovalOf, AskApproval, LeaveApproval, ExecutorOf, Exit, WatcherEnds,
       TaskOnly
  <2>4. member' \in [Members -> MemberState]
    BY <1>1 DEF OwnTaskStep, Load, LoadFault, Register, PrepareFault, Bind, Start,
       StartStopped, StartFault, Finalize, DropControl, Fail, Skip, SettleBound,
       SettleStarting, Mark, ApprovalOf, AskApproval, LeaveApproval, ExecutorOf, Exit, WatcherEnds,
       TaskOnly, MemberState
  <2>5. UNCHANGED budget \/ \E kind \in EventKinds : Spend(kind)
    BY <1>1 DEF OwnTaskStep, Load, LoadFault, Register, PrepareFault, Bind, Start,
       StartStopped, StartFault, Finalize, DropControl, Fail, Skip, SettleBound,
       SettleStarting, Mark, ApprovalOf, AskApproval, LeaveApproval, ExecutorOf, Exit, WatcherEnds,
       TaskOnly, EventKinds
  <2>6. budget' \in 0..Budget
    BY <2>5, SpendTyped
  <2> QED BY <2>1, <2>2, <2>3, <2>4, <2>6
<1>2. CASE Commit(m, k) \/ Retry(m, k) \/ Reclaim(m, k)
  <2>1. task' \in Tasks
    BY <1>2, HandingOnTyped
  <2>2. UNCHANGED <<control, wake, stop, unqueue, recovering, budget>>
    BY <1>2 DEF Commit, Retry, Reclaim
  <2>3. member' \in [Members -> MemberState]
    BY <1>2 DEF Commit, Retry, Reclaim, MemberState
  <2>4. sent' \in 0..MaxMessages /\ message' \in [Messages -> MessageRow]
    <3>1. CASE Retry(m, k)
      <4> DEFINE new == [targets |-> {m}, user |-> FALSE]
      <4>1. sent' = sent + 1 /\ sent < MaxMessages
            /\ message' = [message EXCEPT ![sent + 1] = new]
        BY <3>1 DEF Retry
      <4>2. new \in MessageRow
        BY DEF MessageRow
      <4> HIDE DEF new
      <4>3. message' \in [Messages -> MessageRow]
        BY <4>1, <4>2
      <4> QED BY <4>1, <4>3, LedgerAssumption
    <3>2. CASE Commit(m, k) \/ Reclaim(m, k)
      BY <3>2 DEF Commit, Reclaim
    <3> QED BY <1>2, <3>1, <3>2
  <2> QED BY <2>1, <2>2, <2>3, <2>4
<1> QED BY <1>1, <1>2 DEF RunOf, TaskStepOf, FaultOf, OwnTaskStep

\* A stop call keeps the rest of the state in shape.
LEMMA StopTyped ==
  ASSUME Bookkeeping, Ledgers, NEW m \in Members, StopRequest(m) \/ StopStepOf(m)
  PROVE  Bookkeeping'
<1> DEFINE s == stop[m]
<1>1. s \in SafeStop /\ s \in StopCall /\ stop \in [Members -> SafeStop]
  BY DEF Bookkeeping, SafeStop
<1>2. NoStop \in SafeStop
  BY DEF NoStop, SafeStop, StopCall, StopStep, Status
<1>3. ASSUME NEW u \in SafeStop, SetStop(m, u)
      PROVE  stop' \in [Members -> SafeStop]
  BY <1>1, <1>3 DEF SetStop
<1>4. \A i \in RowIds : /\ rows[m][i].rev \in Nat
                         /\ rows[m][i].status \in Status
                         /\ rows[m][i].run \in Runs \cup {NoRun}
  BY RowIsTyped DEF Row
<1>5. ActiveRow(rows[m]) = NoRow \/ ActiveRow(rows[m]) \in RowIds
  BY ActiveRowChosen
<1>6. CASE StopRequest(m)
  <2>1. [NoStop EXCEPT !.pc = "find", !.live = member[m] \in ActiveMember] \in SafeStop
    <3> DEFINE b == member[m] \in ActiveMember
    <3>1. b = TRUE \/ b = FALSE
      OBVIOUS
    <3>2. /\ [NoStop EXCEPT !.pc = "find", !.live = TRUE] \in SafeStop
          /\ [NoStop EXCEPT !.pc = "find", !.live = FALSE] \in SafeStop
      BY DEF NoStop, SafeStop, StopCall, StopStep, Status
    <3> HIDE DEF b
    <3>3. [NoStop EXCEPT !.pc = "find", !.live = b] \in SafeStop
      BY <3>1, <3>2
    <3> QED BY <3>3 DEF b
  <2>2. stop' \in [Members -> SafeStop]
    BY <1>3, <1>6, <2>1 DEF StopRequest
  <2>3. budget' \in 0..Budget
    BY <1>6, SpendTyped DEF StopRequest, Bookkeeping
  <2> QED BY <1>6, <2>2, <2>3 DEF StopRequest, StopOnly, Bookkeeping
<1>7. CASE StopFind(m)
  <2> DEFINE i == ActiveRow(rows[m])
             u == [pc |-> "lookup", live |-> FALSE, row |-> i,
                   rev |-> rows[m][i].rev, status |-> rows[m][i].status,
                   run |-> rows[m][i].run]
  <2>1. i # NoRow => u \in SafeStop
    <3> HIDE DEF i
    <3> QED BY <1>4, <1>5 DEF i, SafeStop, StopCall, StopStep
  <2>2. [NoStop EXCEPT !.pc = "lookup"] \in SafeStop
    BY DEF NoStop, SafeStop, StopCall, StopStep, Status
  <2>3. \/ i # NoRow /\ SetStop(m, u)
        \/ SetStop(m, [NoStop EXCEPT !.pc = "lookup"])
        \/ SetStop(m, NoStop)
    BY <1>7 DEF StopFind
  <2> HIDE DEF u
  <2>4. stop' \in [Members -> SafeStop]
    BY <1>2, <1>3, <2>1, <2>2, <2>3
  <2> QED BY <1>7, <2>4 DEF StopFind, StopOnly, Bookkeeping
<1>8. ASSUME NEW c, control[m] = c, c # NoRun, task' = [task EXCEPT ![m][c].stopped = TRUE]
      PROVE  task' \in Tasks
  <2>1. c \in Runs
    BY <1>8 DEF Bookkeeping
  <2>2. task[m][c] \in SafeTask
    BY <2>1 DEF Bookkeeping, Tasks
  <2> DEFINE u == [task[m][c] EXCEPT !.stopped = TRUE]
  <2>3. u \in SafeTask
    BY <2>2 DEF SafeTask, Task
  <2>4. task' = [task EXCEPT ![m][c] = u]
    BY <1>8, <2>1, <2>2 DEF Bookkeeping, Tasks
  <2>5. SetTask(m, c, u)
    BY <2>4 DEF SetTask
  <2> HIDE DEF u
  <2> QED BY <2>1, <2>3, <2>5, WritesTask DEF Bookkeeping
<1>9. CASE StopLookup(m)
  <2> DEFINE c == control[m]
             transition == \/ s.status = "starting"
                           \/ s.status \in {"running", "waiting_approval"} /\ s.run = c
  <2>1. c \in Runs \cup {NoRun}
    BY DEF Bookkeeping
  <2>2. /\ [NoStop EXCEPT !.pc = "reset"] \in SafeStop
        /\ [s EXCEPT !.pc = "cancel", !.run = c] \in SafeStop
        /\ transition => [s EXCEPT !.pc = "transition", !.run = c] \in SafeStop
    BY <1>1, <2>1 DEF NoStop, SafeStop, StopCall, StopStep, Status
  <2>3. \/ SetStop(m, [NoStop EXCEPT !.pc = "reset"])
        \/ SetStop(m, [s EXCEPT !.pc = "cancel", !.run = c])
        \/ transition /\ SetStop(m, [s EXCEPT !.pc = "transition", !.run = c])
    BY <1>9 DEF StopLookup
  <2>4. stop' \in [Members -> SafeStop]
    BY <1>3, <2>2, <2>3
  <2>5. task' \in Tasks
    BY <1>8, <1>9 DEF StopLookup, Bookkeeping
  <2> QED BY <1>9, <2>4, <2>5 DEF StopLookup, StopOnly, Bookkeeping
<1>10. CASE StopTransition(m)
  <2>1. [NoStop EXCEPT !.pc = "cancel", !.run = s.run] \in SafeStop
    BY <1>1 DEF NoStop, SafeStop, StopCall, StopStep, Status
  <2>2. SetStop(m, [NoStop EXCEPT !.pc = "cancel", !.run = s.run])
    BY <1>10 DEF StopTransition
  <2>3. stop' \in [Members -> SafeStop]
    BY <1>3, <2>1, <2>2
  <2>4. member' \in [Members -> MemberState]
    BY <1>10 DEF StopTransition, Bookkeeping, MemberState
  <2> QED BY <1>10, <2>3, <2>4 DEF StopTransition, StopOnly, Bookkeeping
<1>11. CASE StopCancel(m)
  <2>1. stop' \in [Members -> SafeStop]
    BY <1>2, <1>3, <1>11 DEF StopCancel
  <2>2. task' \in Tasks
    <3> DEFINE c == s.run
    <3>1. CASE control[m] = c /\ c # NoRun
      <4>1. task' = [task EXCEPT ![m][c].stopped = TRUE]
        BY <1>11, <3>1 DEF StopCancel
      <4> QED BY <1>8, <3>1, <4>1
    <3>2. CASE control[m] # c
      BY <1>11, <3>2 DEF StopCancel, Bookkeeping
    <3>3. CASE control[m] = c /\ c = NoRun
      <4>1. task' = [task EXCEPT ![m][NoRun].stopped = TRUE]
        BY <1>11, <3>3 DEF StopCancel
      <4>2. NoRun \notin Runs
        BY LedgerAssumption DEF Runs, NoRun
      <4> QED BY <4>1, <4>2 DEF Bookkeeping, Tasks
    <3> QED BY <3>1, <3>2, <3>3
  <2> QED BY <1>11, <2>1, <2>2 DEF StopCancel, StopOnly, Bookkeeping
<1>12. CASE StopReset(m)
  <2>1. [NoStop EXCEPT !.pc = "list"] \in SafeStop
    BY DEF NoStop, SafeStop, StopCall, StopStep, Status
  <2>2. stop' \in [Members -> SafeStop]
    BY <1>3, <1>12, <2>1 DEF StopReset
  <2>3. member' \in [Members -> MemberState]
    BY <1>12 DEF StopReset, Bookkeeping, MemberState
  <2> QED BY <1>12, <2>2, <2>3 DEF StopReset, StopOnly, Bookkeeping
<1>13. CASE StopList(m)
  <2> DEFINE i == ActiveRow(rows[m])
             r == rows[m][i]
             u == [NoStop EXCEPT !.pc = "requeue", !.row = i, !.rev = r.rev,
                                 !.status = r.status]
  <2>1. i # NoRow => i \in RowIds /\ r.status \in Active /\ r.rev \in Nat
                     /\ r.status \in Status
    BY <1>4, ActiveRowChosen
  <2>2. (i # NoRow /\ SetStop(m, u)) \/ SetStop(m, NoStop)
    BY <1>13 DEF StopList
  <2> HIDE DEF i, r
  <2>3. i # NoRow => u \in SafeStop
    BY <2>1 DEF NoStop, SafeStop, StopCall, StopStep
  <2>4. stop' \in [Members -> SafeStop]
    BY <1>2, <1>3, <2>2, <2>3
  <2> QED BY <1>13, <2>4 DEF StopList, StopOnly, Bookkeeping
<1>14. CASE StopRequeue(m)
  <2>1. stop' \in [Members -> SafeStop]
    BY <1>2, <1>3, <1>14 DEF StopRequeue
  <2> QED BY <1>14, <2>1 DEF StopRequeue, StopOnly, Bookkeeping
<1> QED BY <1>6, <1>7, <1>9, <1>10, <1>11, <1>12, <1>13, <1>14 DEF StopStepOf

\* Requests, wake-ups, deletions, the crash and recovery keep it in shape.
LEMMA OthersTyped ==
  ASSUME Bookkeeping, Ledgers,
         \/ \E targets \in SUBSET Members : Send(targets)
         \/ \E n \in Messages : Resend(n) \/ RemoveMessage(n)
         \/ \E m \in Members : \/ Continue(m) \/ Wake(m) \/ RecoveryOf(m)
                               \/ \E i \in RowIds : Unqueue(m, i)
         \/ UnqueueStep \/ Crash \/ UNCHANGED vars
  PROVE  Bookkeeping'
<1> USE DEF Bookkeeping
<1>1. ASSUME NEW targets \in SUBSET Members, Send(targets)
      PROVE  Bookkeeping'
  <2> DEFINE new == [targets |-> targets, user |-> TRUE]
  <2>1. sent + 1 \in Messages /\ sent + 1 \in 0..MaxMessages
    BY <1>1, RoomIsRoom DEF Send
  <2>2. new \in MessageRow
    BY DEF MessageRow
  <2>3. message' = [message EXCEPT ![sent + 1] = new]
    BY <1>1 DEF Send
  <2> HIDE DEF new
  <2>4. message' \in [Messages -> MessageRow]
    BY <2>2, <2>3
  <2>5. task' \in Tasks
    BY <1>1, <2>1, BundleTyped DEF Send
  <2> QED BY <1>1, <2>1, <2>4, <2>5 DEF Send, PersistBundle
<1>2. ASSUME NEW n \in Messages, Resend(n)
      PROVE  Bookkeeping'
  <2>1. message[n].targets \in SUBSET Members
    BY DEF MessageRow
  <2>2. task' \in Tasks
    BY <1>2, <2>1, BundleTyped DEF Resend
  <2>3. budget' \in 0..Budget
    BY <1>2, SpendTyped DEF Resend
  <2> QED BY <1>2, <2>2, <2>3 DEF Resend, PersistBundle
<1>3. ASSUME NEW n \in Messages \cup {NoMessage}, Erase(n)
      PROVE  message' \in [Messages -> MessageRow]
  <2>1. NoSuchMessage \in MessageRow
    BY DEF NoSuchMessage, MessageRow
  <2> QED BY <1>3, <2>1 DEF Erase
<1>4. ASSUME NEW n \in Messages, RemoveMessage(n)
      PROVE  Bookkeeping'
  <2>1. message' \in [Messages -> MessageRow]
    BY <1>3, <1>4 DEF RemoveMessage
  <2>2. budget' \in 0..Budget
    BY <1>4, SpendTyped DEF RemoveMessage
  <2> QED BY <1>4, <2>1, <2>2 DEF RemoveMessage, DeleteOnly
<1>5. ASSUME NEW m \in Members, Continue(m)
      PROVE  Bookkeeping'
  <2>1. budget' \in 0..Budget
    BY <1>5, SpendTyped DEF Continue
  <2>2. wake' \in [Members -> Nat]
    BY <1>5 DEF Continue
  <2> QED BY <1>5, <2>1, <2>2 DEF Continue
<1>6. ASSUME NEW m \in Members, Wake(m)
      PROVE  Bookkeeping'
  <2>1. task' \in Tasks
    BY <1>6, WakeTyped
  <2>2. wake' \in [Members -> Nat]
    BY <1>6 DEF Wake
  <2> QED BY <1>6, <2>1, <2>2 DEF Wake
<1>7. ASSUME NEW m \in Members, RecoveryOf(m)
      PROVE  Bookkeeping'
  <2>1. wake' \in [Members -> Nat]
    BY <1>7 DEF RecoveryOf, RecoverReset, RecoverRequeue, RecoverResume
  <2>2. member' \in [Members -> MemberState]
    BY <1>7 DEF RecoveryOf, RecoverReset, RecoverRequeue, RecoverResume, MemberState
  <2>3. recovering' \in [Members -> Recovery]
    BY <1>7 DEF RecoveryOf, RecoverReset, RecoverRequeue, RecoverResume, Recovery
  <2> QED BY <1>7, <2>1, <2>2, <2>3
      DEF RecoveryOf, RecoverReset, RecoverRequeue, RecoverResume, RecoverOnly
<1>8. ASSUME NEW m \in Members, NEW i \in RowIds, Unqueue(m, i)
      PROVE  Bookkeeping'
  <2>1. rows[m][i].msg \in Messages \cup {NoMessage}
    BY RowIsTyped DEF Row
  <2>2. unqueue' \in UnqueueCall
    BY <1>8, <2>1 DEF Unqueue, UnqueueCall
  <2>3. budget' \in 0..Budget
    BY <1>8, SpendTyped DEF Unqueue
  <2> QED BY <1>8, <2>2, <2>3 DEF Unqueue, DeleteOnly
<1>9. CASE UnqueueStep
  <2>1. unqueue' \in UnqueueCall
    BY <1>9 DEF UnqueueStep, UnqueueCount, UnqueueErase, UnqueueCall, NoUnqueue, NoMessage
  <2>2. unqueue.msg \in Messages \cup {NoMessage}
    BY DEF UnqueueCall
  <2>3. message' \in [Messages -> MessageRow]
    BY <1>3, <1>9, <2>2 DEF UnqueueStep, UnqueueCount, UnqueueErase
  <2> QED BY <1>9, <2>1, <2>3 DEF UnqueueStep, UnqueueCount, UnqueueErase, DeleteOnly
<1>10. CASE Crash
  <2>0. /\ control' = [m \in Members |-> NoRun]
        /\ task' = [m \in Members |-> [k \in Runs |->
             IF task[m][k].pc = "free" THEN IdleTask
             ELSE [Finished(task[m][k]) EXCEPT !.watched = FALSE, !.asking = FALSE]]]
        /\ wake' = [m \in Members |-> 0]
        /\ stop' = [m \in Members |-> NoStop]
        /\ unqueue' = NoUnqueue
        /\ UNCHANGED <<rows, message, sent>>
    BY <1>10, Zenon DEF Crash
  <2>1. task' \in Tasks
    <3> SUFFICES ASSUME NEW m \in Members, NEW k \in Runs
                 PROVE  task'[m][k] \in SafeTask
      BY <2>0 DEF Tasks
    <3>1. task[m][k] \in Task
      BY TaskIsSafe
    <3>2. [Finished(task[m][k]) EXCEPT !.watched = FALSE, !.asking = FALSE] \in SafeTask
      <4> DEFINE f == Finished(task[m][k])
      <4>1. f \in SafeTask
        BY <3>1, FinishedSafe
      <4> HIDE DEF f
      <4>2. [f EXCEPT !.watched = FALSE, !.asking = FALSE] \in SafeTask
        BY <4>1 DEF SafeTask, Task
      <4> QED BY <4>2 DEF f
    <3> QED BY <2>0, <3>2, IdleTaskSafe
  <2>2. control' \in [Members -> Runs \cup {NoRun}] /\ wake' \in [Members -> Nat]
    BY <2>0
  <2>3. NoStop \in SafeStop
    BY DEF NoStop, SafeStop, StopCall, StopStep, Status
  <2>4. stop' \in [Members -> SafeStop]
    BY <2>0, <2>3
  <2>5. unqueue' \in UnqueueCall
    BY <2>0 DEF UnqueueCall, NoUnqueue
  <2>6. recovering' \in [Members -> Recovery]
    BY <1>10 DEF Crash, Recovery
  <2>7. budget' \in 0..Budget
    BY <1>10, SpendTyped DEF Crash
  <2>8. member' \in [Members -> MemberState]
    BY <1>10 DEF Crash, ExpireOrphaned, MemberState
  <2> QED BY <2>0, <2>1, <2>2, <2>4, <2>5, <2>6, <2>7, <2>8
<1>11. CASE UNCHANGED vars
  BY <1>11 DEF vars, persistent, memory
<1> QED BY <1>1, <1>2, <1>4, <1>5, <1>6, <1>7, <1>8, <1>9, <1>10, <1>11

-------------------------------------------------------------------------------
(* The invariant and the theorems.                                           *)

\* The initial states satisfy the inductive invariant.
LEMMA InitIInv == Init => IInv
<1> SUFFICES ASSUME Init PROVE IInv
  OBVIOUS
<1>1. task \in Tasks
  BY IdleTaskSafe DEF Init, Tasks
<1>2. stop \in [Members -> SafeStop]
  <2>1. NoStop \in SafeStop
    BY DEF NoStop, SafeStop, StopCall, StopStep, Status
  <2> QED BY <2>1 DEF Init
<1>3. message \in [Messages -> MessageRow]
  BY DEF Init, NoSuchMessage, MessageRow
<1>4. unqueue \in UnqueueCall
  BY DEF Init, NoUnqueue, UnqueueCall
<1>5. /\ member \in [Members -> MemberState]
      /\ sent \in 0..MaxMessages /\ budget \in 0..Budget
      /\ control \in [Members -> Runs \cup {NoRun}]
      /\ wake \in [Members -> Nat] /\ recovering \in [Members -> Recovery]
  BY LedgerAssumption, DeliveryAssumption DEF Init, MemberState, Recovery
<1>6. Ledgers
  BY EmptySound DEF Init, Ledgers, Sound
<1> QED BY <1>1, <1>2, <1>3, <1>4, <1>5, <1>6 DEF IInv, Bookkeeping

\* Every step of the system preserves the inductive invariant.
LEMMA StepIInv == IInv /\ [Next]_vars => IInv'
<1> SUFFICES ASSUME IInv, [Next]_vars PROVE IInv'
  OBVIOUS
<1>1. Ledgers'
  BY NextRunsStatements, StatementsKeepLedgers DEF IInv
<1>2. Bookkeeping'
  <2>1. Bookkeeping /\ Ledgers
    BY DEF IInv
  <2>2. ASSUME NEW m \in Members, NEW k \in Runs, RunOf(m, k)
        PROVE  Bookkeeping'
    BY <2>1, <2>2, RunTyped
  <2>3. ASSUME NEW m \in Members, StopRequest(m) \/ StopStepOf(m)
        PROVE  Bookkeeping'
    BY <2>1, <2>3, StopTyped
  <2>4. CASE \/ \E targets \in SUBSET Members : Send(targets)
             \/ \E n \in Messages : Resend(n) \/ RemoveMessage(n)
             \/ \E m \in Members : \/ Continue(m) \/ Wake(m) \/ RecoveryOf(m)
                                   \/ \E i \in RowIds : Unqueue(m, i)
             \/ UnqueueStep \/ Crash \/ UNCHANGED vars
    BY <2>1, <2>4, OthersTyped
  <2> QED BY <2>2, <2>3, <2>4 DEF Next
<1> QED BY <1>1, <1>2 DEF IInv

\* The inductive invariant holds throughout: whatever the tasks, handlers, events
\* and restarts do, the ledgers are sound and what tasks and stop calls carry
\* between two of their steps stays valid.
THEOREM InvariantHolds == Spec => []IInv
BY InitIInv, StepIInv, PTL DEF Spec

\* Every variable keeps its declared shape, whatever the members, events and
\* bounds.
THEOREM TypesAreKept == Spec => []TypeOK
<1>1. IInv => TypeOK
  <2> SUFFICES ASSUME IInv PROVE TypeOK
    OBVIOUS
  <2>1. task \in [Members -> [Runs -> Task]] /\ stop \in [Members -> StopCall]
    BY DEF IInv, Bookkeeping, Tasks, SafeTask, SafeStop
  <2> QED BY <2>1 DEF IInv, Bookkeeping, Ledgers, TypeOK
<1> QED BY <1>1, InvariantHolds, PTL

\* The partial unique index on in-flight deliveries is never run into: a
\* member has at most one delivery in flight.
THEOREM OneDeliveryInFlight == Spec => []OneActive
<1>1. IInv => OneActive
  BY DEF IInv, Ledgers, Sound, Single, OneActive
<1> QED BY <1>1, InvariantHolds, PTL

\* Deliveries are taken up in creation order.
THEOREM DeliveriesInOrder == Spec => []InCreationOrder
<1>1. IInv => InCreationOrder
  BY DEF IInv, Ledgers, Sound, Ordered, Taken, Ended, InCreationOrder
<1> QED BY <1>1, InvariantHolds, PTL

\* A message has one delivery per target, however often it is sent.
THEOREM OneDeliveryPerMessage == Spec => []OneDeliveryPerTarget
<1>1. IInv => OneDeliveryPerTarget
  BY DEF IInv, Ledgers, Sound, OnePerMessage, OneDeliveryPerTarget
<1> QED BY <1>1, InvariantHolds, PTL

\* A delivery that has ended keeps its status until it is deleted.
THEOREM EndedStaysEnded == Spec => TerminalIsFinal
<1> DEFINE Keeps == \A m \in Members : \A i \in RowIds :
                      rows[m][i].status \in Terminal
                        => rows'[m][i].status \in {rows[m][i].status, "deleted"}
<1>1. IInv /\ [Next]_vars => Keeps
  <2> SUFFICES ASSUME IInv, [Next]_vars, NEW m \in Members, NEW i \in RowIds,
                      rows[m][i].status \in Terminal
               PROVE  rows'[m][i].status \in {rows[m][i].status, "deleted"}
    OBVIOUS
  <2>1. Sound(rows[m]) /\ Statement(rows[m], rows'[m])
    BY NextRunsStatements DEF IInv, Ledgers, RunsStatements
  <2>2. RowEffect(rows[m][i], rows'[m][i])
    BY <2>1, StatementEffects DEF Effects
  <2> QED BY <2>2 DEF RowEffect, Unresolved, Active, Terminal
<1> QED BY <1>1, InvariantHolds, PTL DEF Spec, TerminalIsFinal

-------------------------------------------------------------------------------
(* ChatDelivery implements DeliverySpec.                                     *)

\* Every row has one of the phases of DeliverySpec.
LEMMA PhaseOfRow ==
  ASSUME NEW r \in Row
  PROVE  /\ PhaseOf(r) \in Promise!Phase
         /\ PhaseOf(r) = "active" <=> r.status \in Active
         /\ PhaseOf(r) = "blocked" <=> Unresolved(r)
         /\ PhaseOf(r) \in {"blocked", "settled"} <=> r.status \in Terminal
         /\ PhaseOf(r) = "withdrawn" <=> r.status = "deleted"
         /\ PhaseOf(r) = "waiting" <=> r.status = "queued"
         /\ PhaseOf(r) = "absent" <=> r.status = "absent"
<1>1. r.status \in Status
  BY DEF Row
<1> QED BY <1>1 DEF PhaseOf, Promise!Phase, Unresolved, Status, Stored, Active, Terminal

\* The effect of a statement on a row is a step of its phase.
LEMMA EffectIsPhaseStep ==
  ASSUME NEW r \in Row, NEW q \in Row, RowEffect(r, q)
  PROVE  PhaseOf(q) \in Promise!MayBecome(PhaseOf(r))
<1>1. CASE q = r
  BY <1>1, PhaseOfRow DEF Promise!MayBecome, Promise!Phase
<1>2. CASE r.status = "absent" /\ q.status \in {"queued", "starting"}
  BY <1>2, PhaseOfRow DEF Promise!MayBecome, Active
<1>3. CASE r.status = "queued" /\ q.status = "starting"
  BY <1>3, PhaseOfRow DEF Promise!MayBecome, Active
<1>4. CASE r.status \in Active /\ q.status \in Taken \cup {"queued"}
  <2>1. PhaseOf(q) \in {"active", "waiting", "blocked", "settled"}
    BY <1>4, PhaseOfRow DEF Taken
  <2> QED BY <1>4, <2>1, PhaseOfRow DEF Promise!MayBecome
<1>5. CASE Unresolved(r) /\ q.status = "failed" /\ q.resolved
  <2>1. PhaseOf(r) = "blocked" /\ PhaseOf(q) = "settled"
    BY <1>5, PhaseOfRow DEF Unresolved, Terminal
  <2> QED BY <2>1 DEF Promise!MayBecome
<1>6. CASE r.status \in Stored /\ q.status = "deleted"
  <2>1. PhaseOf(q) = "withdrawn"
    BY <1>6, PhaseOfRow
  <2>2. PhaseOf(r) \in {"active", "waiting", "blocked", "settled"}
    BY <1>6, PhaseOfRow DEF Stored
  <2> QED BY <2>1, <2>2 DEF Promise!MayBecome
<1> QED BY <1>1, <1>2, <1>3, <1>4, <1>5, <1>6 DEF RowEffect

\* A statement is a step of its member.
LEMMA StatementIsMemberStep ==
  ASSUME NEW L, Sound(L), NEW M, Statement(L, M)
  PROVE  Promise!MemberStep([i \in RowIds |-> PhaseOf(L[i])],
                            [i \in RowIds |-> PhaseOf(M[i])])
<1> DEFINE P == [i \in RowIds |-> PhaseOf(L[i])]
           Q == [i \in RowIds |-> PhaseOf(M[i])]
<1>1. Sound(M) /\ Effects(L, M)
  BY StatementKeepsLedgerSound, StatementEffects
<1>2. \A i \in RowIds : L[i] \in Row /\ M[i] \in Row
  BY <1>1 DEF Sound, Ledger
<1>3. \A i \in RowIds : P[i] = PhaseOf(L[i]) /\ Q[i] = PhaseOf(M[i])
  OBVIOUS
<1> HIDE DEF P, Q
<1>4. \A i \in RowIds : Q[i] \in Promise!MayBecome(P[i])
  BY <1>1, <1>2, <1>3, EffectIsPhaseStep DEF Effects
<1>5. \A i \in RowIds : /\ Q[i] \in {"active", "blocked", "settled"}
                             => M[i].status \in Taken
                        /\ M[i].status \in Ended
                             => Q[i] \in {"blocked", "settled", "withdrawn"}
                        /\ Q[i] = "active" <=> M[i].status \in Active
                        /\ P[i] = "active" <=> L[i].status \in Active
                        /\ Q[i] = "blocked" <=> Unresolved(M[i])
  BY <1>2, <1>3, PhaseOfRow DEF Taken, Ended
<1>6. Promise!InOrder(Q)
  BY <1>1, <1>5 DEF Promise!InOrder, Sound, Ordered
<1>7. Promise!OneAtATime(Q)
  BY <1>1, <1>5 DEF Promise!OneAtATime, Sound, Single, ActiveRows
<1>8. Promise!TakesUp(P, Q) => ~Promise!Blocked(Q)
  BY <1>1, <1>5 DEF Promise!TakesUp, Promise!Blocked, Effects, Takes, IsBlocked
<1>9. Promise!MemberStep(P, Q)
  BY <1>4, <1>6, <1>7, <1>8 DEF Promise!MemberStep
<1> QED BY <1>9 DEF P, Q

\* The delivery queue keeps the promise of DeliverySpec, whatever the tasks,
\* handlers and restarts do: order, one delivery at a time, no delivery taken
\* up while a failure awaits its answer, and no way back from an end.
THEOREM DeliveryKeepsPromise == Spec => PromiseKept
<1> DEFINE Phases == [m \in Members |-> [i \in RowIds |-> PhaseOf(rows[m][i])]]
<1>1. Init => Promise!Init
  <2> SUFFICES ASSUME Init
               PROVE  \A m \in Members : \A i \in RowIds : PhaseOf(rows[m][i]) = "absent"
    BY DEF Promise!Init
  <2>1. \A m \in Members : \A i \in RowIds :
          rows[m][i] \in Row /\ rows[m][i].status = "absent"
    BY EmptySound DEF Init, Sound, Ledger, EmptyLedger, Blank
  <2> QED BY <2>1, PhaseOfRow
<1>2. IInv /\ IInv' /\ [Next]_vars => Promise!Next
  <2> SUFFICES ASSUME IInv, IInv', [Next]_vars
               PROVE  Promise!Next
    OBVIOUS
  <2>1. ASSUME NEW m \in Members
        PROVE  Promise!MemberStep(Phases[m], Phases'[m])
    <3>1. Sound(rows[m]) /\ Statement(rows[m], rows'[m])
      BY NextRunsStatements DEF IInv, Ledgers, RunsStatements
    <3>2. Promise!MemberStep([i \in RowIds |-> PhaseOf(rows[m][i])],
                             [i \in RowIds |-> PhaseOf(rows'[m][i])])
      BY <3>1, StatementIsMemberStep
    <3> QED BY <3>2
  <2>2. \A m \in Members : \A i \in RowIds : PhaseOf(rows'[m][i]) \in Promise!Phase
    <3>1. \A m \in Members : \A i \in RowIds : rows'[m][i] \in Row
      BY DEF IInv, Ledgers, Ledger
    <3> QED BY <3>1, PhaseOfRow
  <2>3. Phases' \in Promise!Phases
    BY <2>2 DEF Promise!Phases
  <2> QED BY <2>1, <2>3 DEF Promise!Next
<1> QED BY <1>1, <1>2, InvariantHolds, PTL DEF Spec, PromiseKept, Promise!Spec
===============================================================================
