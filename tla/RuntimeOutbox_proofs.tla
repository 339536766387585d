------------------------- MODULE RuntimeOutbox_proofs -------------------------
(***************************************************************************)
(* Theorems about RuntimeOutbox, for every set of members and deliveries,  *)
(* every page limit and every bound.                                        *)
(*                                                                         *)
(* Every message the client may be shown - a delta on the stream, a delta  *)
(* of a replay page, a snapshot - is truthful up to its revision: what it  *)
(* lists as alive either still is or ended later (`Covers`).  The client's *)
(* projection inherits this at its cursor, because the cursor moves only   *)
(* over the one delta it applies, or to the revision of a snapshot.        *)
(***************************************************************************)
EXTENDS RuntimeOutbox, SequenceTheorems, TLAPS

-------------------------------------------------------------------------------
(* The inductive invariant. *)

\* The published revisions are the oldest, everything else is retained, and
\* the record being marked is the oldest one not published.
Retained ==
    /\ \A r \in 1..Revision \ stored : r \in published /\ \A s \in stored : r < s
    /\ \A s \in published, t \in (1..Revision) \ published : s < t
    /\ marking # 0 => marking \in Unpublished /\ \A s \in Unpublished : marking <= s

\* What a page under way contains: the deltas after the cursor it was asked
\* for, without a gap; what remains of it joins on to the client's cursor.
Contiguous(after) ==
    \A k \in 1..Len(recovery.events) : recovery.events[k].rev = after + k

PageOrdered ==
    /\ recovery.current <= Revision /\ recovery.upto <= Revision
    /\ recovery.after <= cursor
    /\ recovery.stage \in {"list", "build", "answered"} => recovery.after >= 0
    /\ recovery.stage = "list" => recovery.events = <<>>
    /\ recovery.stage = "build" => recovery.after + Len(recovery.events) < recovery.upto
    /\ recovery.stage = "answered" => recovery.after + Len(recovery.events) = recovery.upto
    /\ recovery.stage \in {"build", "answered"} => Contiguous(recovery.after)
    /\ recovery.stage = "apply" =>
          /\ recovery.upto - Len(recovery.events) <= cursor
          /\ Contiguous(recovery.upto - Len(recovery.events))

\* What is listed as alive of member m at revision c either is, or ended later.
Covers(items, m, c) == \A i \in RowIds :
    items[i] \in Alive /\ phase[m][i] \notin Alive
        => \E r \in 1..Revision : log[r] = <<m, i>> /\ r > c

TruthfulDelta(d) == /\ d.rev <= Revision /\ log[d.rev][1] = d.member
                    /\ Covers(d.items, d.member, d.rev)
TruthfulSnap(s)  == /\ s.rev <= Revision
                    /\ \A m \in Members : Covers(s.items[m], m, s.rev)

Truthful ==
    /\ \A k \in 1..Len(stream) : stream[k] # Lagged => TruthfulDelta(stream[k])
    /\ \A k \in 1..Len(recovery.events) : TruthfulDelta(recovery.events[k])
    /\ TruthfulSnap(recovery.snap)
    /\ \A q \in reloads : TruthfulSnap(q.snap)
    /\ cursor <= Revision

\* What was handed out beyond the cursor is on its way, or the client knows or
\* will be told that it is missing, or it is one of the two exceptions.
Heard ==
    /\ socket # "open" => stream = <<>>
    /\ \A r \in HandedOut : r > cursor =>
          Undelivered(r) \/ Announced \/ needsResync \/ r \in unheard \cup forgotten

IInv == TypeOK /\ Retained /\ PageOrdered /\ Truthful /\ GhostsAreExplained /\ Heard

-------------------------------------------------------------------------------
(* Types. *)

\* A member's queue is a list of items, whatever the phases.
LEMMA QueueItemsTyped ==
  ASSUME NEW F \in [RowIds -> D!Phase]
  PROVE  P!QueueItems(F) \in P!Items
BY DEF P!QueueItems, P!Items, P!Item

\* The reducer's three ways to change a member's projection keep it one.
LEMMA MergeTyped ==
  ASSUME NEW old \in P!Display, NEW new \in P!Display
  PROVE  P!Merge(old, new) \in P!Display
BY DEF P!Merge, P!Display, P!Shown

LEMMA ObservedTyped ==
  ASSUME NEW x \in P!Item
  PROVE  P!Observed(x) \in P!Display
BY DEF P!Observed, P!Item, P!Display, P!Shown

LEMMA ProjectionTyped ==
  ASSUME NEW V \in P!Displays, NEW items \in P!Items
  PROVE  /\ P!ReplaceMember(V, items) \in P!Displays
         /\ P!Replace(items) \in P!Displays
         /\ P!MergeOnly(V, items) \in P!Displays
<1> SUFFICES ASSUME NEW i \in RowIds
             PROVE  /\ P!ReplaceMember(V, items)[i] \in P!Display
                    /\ P!Replace(items)[i] \in P!Display
                    /\ P!MergeOnly(V, items)[i] \in P!Display
  BY DEF P!ReplaceMember, P!Replace, P!MergeOnly, P!Displays
<1>1. V[i] \in P!Display /\ items[i] \in P!Item
  BY DEF P!Displays, P!Items
<1>2. P!Merge(V[i], P!Observed(items[i])) \in P!Display
  BY <1>1, ObservedTyped, MergeTyped
<1>3. P!ReplaceMember(V, items)[i] \in P!Display
  BY <1>1, <1>2 DEF P!ReplaceMember, P!Display
<1>4. P!Replace(items)[i] \in P!Display
  BY <1>1 DEF P!Replace, P!Display, P!Shown
<1>5. P!MergeOnly(V, items)[i] \in P!Display
  BY <1>1, <1>2 DEF P!MergeOnly
<1> QED BY <1>3, <1>4, <1>5

\* What the server builds.
LEMMA BuiltTyped ==
  ASSUME TypeOK
  PROVE  /\ \A m \in Members : QueueOf(m) \in P!Items
         /\ \A r \in 1..Revision : log[r][1] \in Members /\ DeltaFor(r) \in Delta
         /\ CurrentSnapshot \in Snapshot
<1>1. \A m \in Members : QueueOf(m) \in P!Items
  BY QueueItemsTyped DEF QueueOf, TypeOK
<1>2. ASSUME NEW r \in 1..Revision
      PROVE  log[r][1] \in Members /\ DeltaFor(r) \in Delta
  <2>1. log[r] \in Members \X RowIds
    BY ElementOfSeq DEF TypeOK, Revision
  <2>2. r \in Revisions
    BY OutboxAssumption DEF TypeOK, Revision, Revisions
  <2> QED BY <1>1, <2>1, <2>2 DEF DeltaFor, Delta
<1>3. Revision \in 0..MaxRevision
  BY OutboxAssumption DEF TypeOK, Revision
<1> QED BY <1>1, <1>2, <1>3 DEF CurrentSnapshot, Snapshot

\* The initial requests.
LEMMA InitialTyped ==
  /\ NoSnapshot \in Snapshot /\ Idle \in Recovery
  /\ \A b \in BOOLEAN : NewReload(b) \in Reload
<1>1. NoSnapshot \in Snapshot
  BY OutboxAssumption DEF NoSnapshot, Snapshot, NoItems, P!Items, P!Item
<1>2. Idle \in Recovery
  BY <1>1, OutboxAssumption, EmptySeq DEF Idle, Recovery, Stage
<1>3. \A b \in BOOLEAN : NewReload(b) \in Reload
  BY <1>1 DEF NewReload, Reload
<1> QED BY <1>1, <1>2, <1>3

\* Reading the revision asks for the page after the cursor.
LEMMA ReadTyped ==
  ASSUME NEW q \in Recovery, NEW s \in Stage, NEW c \in 0..MaxRevision, q.after >= 0
  PROVE  [q EXCEPT !.current = c, !.upto = q.after, !.events = <<>>, !.stage = s]
            \in Recovery
<1>1. q.after \in 0..MaxRevision /\ <<>> \in Seq(Delta)
  BY OutboxAssumption, EmptySeq DEF Recovery
<1> QED BY <1>1 DEF Recovery

\* Answering a reload keeps it one.
LEMMA ReloadTyped ==
  ASSUME NEW q \in Reload, NEW n \in Snapshot
  PROVE  /\ [q EXCEPT !.answered = TRUE, !.snap = n] \in Reload
         /\ Outdated(q) \in Reload
BY DEF Reload, Outdated

-------------------------------------------------------------------------------
(* Who changes what. *)

LEMMA Footprints ==
  ASSUME Next
  PROVE  /\ \/ UNCHANGED <<phase, log>>
            \/ CommitOne \/ CommitTwo
         /\ \/ UNCHANGED <<stored, published, marking>>
            \/ CommitOne \/ CommitTwo \/ Emit \/ MarkPublished \/ Prune \/ Crash
         /\ \/ UNCHANGED <<channel, socket>>
            \/ Emit \/ Crash \/ ReceiveDelta \/ ReceiveLagged \/ Connect \/ Drop
            \/ Lag \/ SwitchSession
         /\ \/ UNCHANGED <<view, cursor, skipped>>
            \/ ReceiveDelta \/ HydrateRecovery \/ HydrateReload \/ ApplyReplayed
            \/ FinishReplay
         /\ \/ UNCHANGED recovery
            \/ Crash \/ AnswerSnapshot \/ ReadRevision \/ ListRecords \/ BuildDelta
            \/ RecoveryFails \/ ReceiveDelta \/ HydrateRecovery \/ StartRecovery
            \/ OpenPage \/ ApplyReplayed \/ NextPage \/ FinishReplay
         /\ \/ UNCHANGED reloads
            \/ Crash \/ AnswerReload \/ ReloadFails \/ ReceiveDelta \/ HydrateReload
            \/ ApplyReplayed \/ FinishReplay \/ Connect \/ SwitchSession \/ Refresh
            \/ Send
         /\ \/ UNCHANGED needsResync
            \/ ReceiveDelta \/ ReceiveLagged \/ HydrateRecovery \/ HydrateReload
            \/ ApplyReplayed \/ FinishReplay \/ Connect
         /\ \/ UNCHANGED missed
            \/ Emit \/ HydrateRecovery \/ HydrateReload \/ FinishReplay \/ SwitchSession
         /\ UNCHANGED spent \/ \E kind \in Events : Spend(kind)
<1> USE DEF server, channel, client
<1>1. CASE CommitOne
  BY <1>1 DEF CommitOne, Commit
<1>2. CASE CommitTwo
  <2>1. UNCHANGED <<channel, socket, view, cursor, skipped, recovery,
                    reloads, needsResync, missed, spent>>
    BY <1>2 DEF CommitTwo, Commit
  <2> QED BY <1>2, <2>1
<1>3. CASE Emit
  BY <1>3 DEF Emit
<1>4. CASE MarkPublished
  BY <1>4 DEF MarkPublished
<1>5. CASE AnswerSnapshot
  BY <1>5 DEF AnswerSnapshot
<1>6. CASE ReadRevision
  BY <1>6 DEF ReadRevision
<1>7. CASE ListRecords
  BY <1>7 DEF ListRecords
<1>8. CASE BuildDelta
  BY <1>8 DEF BuildDelta
<1>9. CASE AnswerReload
  BY <1>9 DEF AnswerReload
<1>10. CASE ReceiveDelta
  BY <1>10 DEF ReceiveDelta
<1>11. CASE ReceiveLagged
  BY <1>11 DEF ReceiveLagged
<1>12. CASE HydrateRecovery
  BY <1>12 DEF HydrateRecovery, Hydrate
<1>13. CASE HydrateReload
  BY <1>13 DEF HydrateReload
<1>14. CASE StartRecovery
  BY <1>14 DEF StartRecovery
<1>15. CASE OpenPage
  BY <1>15 DEF OpenPage
<1>16. CASE ApplyReplayed
  BY <1>16 DEF ApplyReplayed
<1>17. CASE NextPage
  BY <1>17 DEF NextPage
<1>18. CASE FinishReplay
  BY <1>18 DEF FinishReplay
<1>19. CASE Connect
  BY <1>19 DEF Connect
<1>20. CASE Prune
  BY <1>20 DEF Prune, Spend
<1>21. CASE Crash
  BY <1>21 DEF Crash, Spend
<1>22. CASE RecoveryFails
  BY <1>22 DEF RecoveryFails, Spend
<1>23. CASE ReloadFails
  BY <1>23 DEF ReloadFails, Spend
<1>24. CASE Drop
  BY <1>24 DEF Drop, Spend
<1>25. CASE Lag
  BY <1>25 DEF Lag, Spend
<1>26. CASE SwitchSession
  BY <1>26 DEF SwitchSession, Spend
<1>27. CASE Refresh
  BY <1>27 DEF Refresh, Spend
<1>28. CASE Send
  BY <1>28 DEF Send, Spend
<1> QED BY <1>1, <1>2, <1>3, <1>4, <1>5, <1>6, <1>7, <1>8, <1>9, <1>10, <1>11, <1>12, <1>13, <1>14, <1>15, <1>16, <1>17, <1>18, <1>19, <1>20, <1>21, <1>22, <1>23, <1>24, <1>25, <1>26, <1>27, <1>28
        DEF Next, Publisher, Answers, Handlers, Disturbances

-------------------------------------------------------------------------------
(* Types, part by part. *)

ServerTyped ==
    /\ phase \in [Members -> [RowIds -> D!Phase]]
    /\ log \in Seq(Members \X RowIds) /\ Len(log) <= MaxRevision
    /\ stored \subseteq 1..Revision /\ published \subseteq 1..Revision
    /\ marking \in 0..Revision
ChannelTyped == /\ stream \in Seq(Delta \cup {Lagged}) /\ repeated \in BOOLEAN
                /\ socket \in {"first", "open", "lost"}
ClientTyped == /\ view \in [Members -> P!Displays]
               /\ cursor \in -1..MaxRevision /\ needsResync \in BOOLEAN
               /\ skipped \subseteq 0..MaxRevision
RequestsTyped == recovery \in Recovery /\ reloads \subseteq Reload
HistoryTyped == /\ unheard \subseteq Revisions /\ forgotten \subseteq Revisions
                /\ spent \in 0..Budget

LEMMA TypeParts ==
  TypeOK <=> /\ ServerTyped /\ ChannelTyped /\ ClientTyped /\ RequestsTyped
             /\ HistoryTyped
BY DEF TypeOK, ServerTyped, ChannelTyped, ClientTyped, RequestsTyped, HistoryTyped

\* A commit appends records to the log and to the outbox.
LEMMA CommitTyped ==
  ASSUME ServerTyped, NEW Q \in [Members -> [RowIds -> D!Phase]],
         NEW rows \in Seq(Members \X RowIds), Commit(Q, rows)
  PROVE  /\ ServerTyped'
         /\ Revision' = Revision + Len(rows)
         /\ \A r \in 1..Revision : log'[r] = log[r]
         /\ \A k \in 1..Len(rows) : log'[Revision + k] = rows[k]
<1>1. /\ log' \in Seq(Members \X RowIds) /\ Revision' = Revision + Len(rows)
      /\ \A r \in 1..Revision + Len(rows) :
            log'[r] = IF r <= Revision THEN log[r] ELSE rows[r - Revision]
  BY ConcatProperties DEF Commit, ServerTyped, Revision
<1>2. Revision \in Nat /\ Len(rows) \in Nat
  BY LenProperties DEF ServerTyped, Revision
<1>3. stored' \subseteq 1..Revision' /\ published' \subseteq 1..Revision'
      /\ marking' \in 0..Revision'
  <2> DEFINE n == Revision + Len(rows)
  <2>1. /\ stored' = stored \cup (Revision + 1 .. n)
        /\ published' = published /\ marking' = marking
    BY DEF Commit
  <2>2. stored \subseteq 1..Revision /\ published \subseteq 1..Revision
        /\ marking \in 0..Revision
    BY DEF ServerTyped
  <2>3. n \in Nat /\ Revision <= n /\ Revision' = n
    BY <1>1, <1>2
  <2> HIDE DEF n
  <2> QED BY <2>1, <2>2, <2>3, <1>2
<1>4. phase' \in [Members -> [RowIds -> D!Phase]] /\ Len(log') <= MaxRevision
  BY <1>1 DEF Commit, Revision
<1>5. ServerTyped'
  BY <1>1, <1>3, <1>4 DEF ServerTyped
<1>6. \A r \in 1..Revision : log'[r] = log[r]
  BY <1>1, <1>2
<1>7. ASSUME NEW k \in 1..Len(rows)
      PROVE  log'[Revision + k] = rows[k]
  <2> DEFINE i == Revision + k
  <2>1. i \in 1..Revision + Len(rows) /\ ~(i <= Revision) /\ i - Revision = k
    BY <1>2
  <2> HIDE DEF i
  <2>2. log'[i] = rows[k]
    BY <1>1, <2>1
  <2> QED BY <2>2 DEF i
<1> QED BY <1>1, <1>5, <1>6, <1>7

\* Both commits are one, of one or two records for every delivery that changed.
LEMMA CommitIsCommit ==
  ASSUME ServerTyped, CommitOne \/ CommitTwo
  PROVE  \E Q \in [Members -> [RowIds -> D!Phase]], rows \in Seq(Members \X RowIds) :
            /\ Commit(Q, rows)
            /\ \A m \in Members, i \in RowIds : Q[m][i] # phase[m][i] =>
                  \E k \in 1..Len(rows) : rows[k] = <<m, i>>
<1>1. CASE CommitOne
  <2>1. PICK m \in Members, i \in RowIds, p \in D!Phase :
           Commit([phase EXCEPT ![m][i] = p], <<<<m, i>>>>)
    BY <1>1 DEF CommitOne
  <2> DEFINE Q == [phase EXCEPT ![m][i] = p]
             rows == <<<<m, i>>>>
  <2>2. Q \in [Members -> [RowIds -> D!Phase]] /\ rows \in Seq(Members \X RowIds)
    BY DEF ServerTyped
  <2>3. \A n \in Members, j \in RowIds : Q[n][j] # phase[n][j] => <<n, j>> = <<m, i>>
    BY DEF ServerTyped
  <2>4. Len(rows) = 1 /\ rows[1] = <<m, i>>
    OBVIOUS
  <2> HIDE DEF Q, rows
  <2>5. \A n \in Members, j \in RowIds : Q[n][j] # phase[n][j] =>
           \E k \in 1..Len(rows) : rows[k] = <<n, j>>
    BY <2>3, <2>4
  <2> QED BY <2>1, <2>2, <2>5 DEF Q, rows
<1>2. CASE CommitTwo
  <2>1. PICK m \in Members, n \in Members, i \in RowIds, j \in RowIds,
             p \in D!Phase, q \in D!Phase :
           Commit([phase EXCEPT ![m][i] = p, ![n][j] = q], <<<<m, i>>, <<n, j>>>>)
    BY <1>2, ZenonT(60) DEF CommitTwo
  <2> DEFINE Q == [phase EXCEPT ![m][i] = p, ![n][j] = q]
             rows == <<<<m, i>>, <<n, j>>>>
  <2>2. Q \in [Members -> [RowIds -> D!Phase]] /\ rows \in Seq(Members \X RowIds)
    <3>1. [phase EXCEPT ![m][i] = p] \in [Members -> [RowIds -> D!Phase]]
      BY DEF ServerTyped
    <3>2. Q = [[phase EXCEPT ![m][i] = p] EXCEPT ![n][j] = q]
      BY DEF ServerTyped
    <3>3. Q \in [Members -> [RowIds -> D!Phase]]
      BY <3>1, <3>2
    <3>4. rows \in Seq(Members \X RowIds)
      OBVIOUS
    <3> QED BY <3>3, <3>4
  <2>3. \A a \in Members, b \in RowIds : Q[a][b] # phase[a][b] =>
           <<a, b>> = <<m, i>> \/ <<a, b>> = <<n, j>>
    BY DEF ServerTyped
  <2>4. Len(rows) = 2 /\ rows[1] = <<m, i>> /\ rows[2] = <<n, j>>
    OBVIOUS
  <2> HIDE DEF Q, rows
  <2>5. \A a \in Members, b \in RowIds : Q[a][b] # phase[a][b] =>
           \E k \in 1..Len(rows) : rows[k] = <<a, b>>
    BY <2>3, <2>4
  <2> QED BY <2>1, <2>2, <2>5 DEF Q, rows
<1> QED BY <1>1, <1>2

LEMMA ServerPreserved ==
  ASSUME IInv, Next
  PROVE  ServerTyped'
<1> ServerTyped
  BY TypeParts DEF IInv
<1>1. CASE CommitOne \/ CommitTwo
  BY <1>1, CommitIsCommit, CommitTyped
<1>2. CASE UNCHANGED <<phase, log>> /\ UNCHANGED <<stored, published, marking>>
  BY <1>2 DEF ServerTyped, Revision
<1>3. CASE Emit
  BY <1>3 DEF Emit, ServerTyped, Revision, Unpublished
<1>4. CASE MarkPublished
  BY <1>4 DEF MarkPublished, ServerTyped, Revision
<1>5. CASE Prune
  BY <1>5 DEF Prune, PrunePublished, ServerTyped, Revision
<1>6. CASE Crash
  BY <1>6 DEF Crash, ServerTyped, Revision
<1> QED BY <1>1, <1>2, <1>3, <1>4, <1>5, <1>6, Footprints

\* A stream of deltas and lag notices stays one when its head is taken off,
\* when it loses its oldest messages, when a delta is appended.
LEMMA ChannelPreserved ==
  ASSUME IInv, Next
  PROVE  ChannelTyped'
<1> ChannelTyped /\ TypeOK
  BY TypeParts DEF IInv
<1>0. <<>> \in Seq(Delta \cup {Lagged}) /\ Lagged \in Delta \cup {Lagged}
  BY EmptySeq
<1>1. CASE UNCHANGED <<channel, socket>>
  BY <1>1 DEF ChannelTyped, channel
<1>2. CASE Emit
  <2>1. PICK r \in Unpublished :
           /\ stream' = IF socket = "open" THEN Append(stream, DeltaFor(r)) ELSE stream
           /\ UNCHANGED <<repeated, socket>>
    BY <1>2 DEF Emit
  <2>2. DeltaFor(r) \in Delta
    BY BuiltTyped DEF Unpublished, TypeOK
  <2> QED BY <2>1, <2>2, AppendProperties DEF ChannelTyped
<1>3. CASE ReceiveDelta \/ ReceiveLagged
  <2>1. Tail(stream) \in Seq(Delta \cup {Lagged})
    BY <1>3, HeadTailProperties DEF ReceiveDelta, ReceiveLagged, ChannelTyped
  <2> QED BY <1>3, <2>1 DEF ReceiveDelta, ReceiveLagged, ChannelTyped
<1>4. CASE Lag
  <2>1. PICK k \in 1..Len(stream) :
           /\ stream' = <<Lagged>> \o SubSeq(stream, k + 1, Len(stream))
           /\ repeated' = FALSE /\ UNCHANGED socket
    BY <1>4 DEF Lag, LagBy
  <2>2. SubSeq(stream, k + 1, Len(stream)) \in Seq(Delta \cup {Lagged})
    <3>1. \A j \in k + 1 .. Len(stream) : stream[j] \in Delta \cup {Lagged}
      BY ElementOfSeq DEF ChannelTyped
    <3> QED BY <3>1, LenProperties, SubSeqProperties DEF ChannelTyped
  <2>3. <<Lagged>> \in Seq(Delta \cup {Lagged})
    BY <1>0
  <2> QED BY <2>1, <2>2, <2>3, ConcatProperties DEF ChannelTyped
<1>5. CASE Crash \/ Connect \/ Drop \/ SwitchSession
  BY <1>0, <1>5 DEF Crash, Connect, Drop, SwitchSession, NoStream, ChannelTyped
<1> QED BY <1>1, <1>2, <1>3, <1>4, <1>5, Footprints

\* A member of a sequence of deltas or snapshots is one.
LEMMA HeadTyped ==
  ASSUME TypeOK
  PROVE  /\ stream # <<>> /\ Head(stream) # Lagged => Head(stream) \in Delta
         /\ recovery.events \in Seq(Delta)
         /\ recovery.events # <<>> =>
               Head(recovery.events) \in Delta /\ Tail(recovery.events) \in Seq(Delta)
         /\ recovery.snap \in Snapshot
         /\ \A q \in reloads : q.snap \in Snapshot
<1>1. stream # <<>> => Head(stream) \in Delta \cup {Lagged}
  BY HeadTailProperties DEF TypeOK
<1>2. recovery.events \in Seq(Delta) /\ recovery.snap \in Snapshot
  BY DEF TypeOK, Recovery
<1>3. recovery.events # <<>> =>
         Head(recovery.events) \in Delta /\ Tail(recovery.events) \in Seq(Delta)
  BY <1>2, HeadTailProperties
<1>4. \A q \in reloads : q.snap \in Snapshot
  BY DEF TypeOK, Reload
<1> QED BY <1>1, <1>2, <1>3, <1>4

\* Applying a delta or a snapshot.
LEMMA AppliedTyped ==
  ASSUME ClientTyped, NEW d \in Delta, Advance(d), UNCHANGED needsResync
  PROVE  ClientTyped'
<1>1. d.member \in Members /\ d.items \in P!Items /\ d.rev \in Revisions
  BY DEF Delta
<1>2. view' \in [Members -> P!Displays]
  BY <1>1, ProjectionTyped DEF Advance, ClientTyped
<1> QED BY <1>1, <1>2, OutboxAssumption DEF Advance, ClientTyped, Revisions

LEMMA HydratedTyped ==
  ASSUME ClientTyped, NEW s \in Snapshot, NEW fresh \in BOOLEAN, Hydrate(s, fresh)
  PROVE  ClientTyped'
<1>1. s.rev \in 0..MaxRevision /\ \A m \in Members : s.items[m] \in P!Items
  BY DEF Snapshot
<1>2. \A m \in Members : /\ P!Replace(s.items[m]) \in P!Displays
                         /\ P!MergeOnly(view[m], s.items[m]) \in P!Displays
  BY <1>1, ProjectionTyped DEF ClientTyped
<1>3. view' \in [Members -> P!Displays]
  BY <1>2 DEF Hydrate, client, ClientTyped
<1>4. cursor' \in -1..MaxRevision /\ needsResync' \in BOOLEAN
  <2>1. cursor' = cursor \/ cursor' = s.rev
    BY DEF Hydrate, client
  <2>2. needsResync' = needsResync \/ needsResync' = FALSE
    BY DEF Hydrate, client, Settled
  <2>3. cursor' \in -1..MaxRevision
    BY <1>1, <2>1, OutboxAssumption DEF ClientTyped
  <2> QED BY <2>2, <2>3 DEF ClientTyped
<1>5. skipped' \subseteq 0..MaxRevision
  <2>1. skipped' = skipped \/ skipped' = skipped \cup (cursor + 1 .. s.rev)
    BY DEF Hydrate, client
  <2>2. cursor + 1 .. s.rev \subseteq 0..MaxRevision
    BY <1>1, OutboxAssumption DEF ClientTyped
  <2> QED BY <2>1, <2>2 DEF ClientTyped
<1> QED BY <1>3, <1>4, <1>5 DEF ClientTyped

\* The freshness of a request is a Boolean.
LEMMA FreshTyped ==
  ASSUME RequestsTyped
  PROVE  recovery.fresh \in BOOLEAN /\ \A q \in reloads : q.fresh \in BOOLEAN
BY DEF RequestsTyped, Recovery, Reload

LEMMA ClientPreserved ==
  ASSUME IInv, Next
  PROVE  ClientTyped'
<1> TypeOK /\ ClientTyped /\ RequestsTyped
  BY TypeParts DEF IInv
<1>1. CASE ReceiveDelta
  <2> DEFINE d == Head(stream)
  <2>1. d \in Delta
    BY <1>1, HeadTyped DEF ReceiveDelta
  <2>2. \/ Advance(d) /\ UNCHANGED needsResync
        \/ UNCHANGED client
        \/ needsResync' = TRUE /\ UNCHANGED <<view, cursor, skipped>>
    BY <1>1 DEF ReceiveDelta
  <2> HIDE DEF d
  <2> QED BY <2>1, <2>2, AppliedTyped DEF client, ClientTyped
<1>2. CASE ApplyReplayed
  <2> DEFINE d == Head(recovery.events)
  <2>1. d \in Delta
    BY <1>2, HeadTyped DEF ApplyReplayed
  <2>2. \/ Advance(d) /\ UNCHANGED needsResync
        \/ UNCHANGED client
        \/ needsResync' = TRUE /\ UNCHANGED <<view, cursor, skipped>>
    BY <1>2 DEF ApplyReplayed
  <2> HIDE DEF d
  <2> QED BY <2>1, <2>2, AppliedTyped DEF client, ClientTyped
<1>3. CASE HydrateRecovery
  BY <1>3, HydratedTyped, HeadTyped, FreshTyped DEF HydrateRecovery
<1>4. CASE HydrateReload
  BY <1>4, HydratedTyped, HeadTyped, FreshTyped DEF HydrateReload
<1>5. CASE FinishReplay
  <2>1. recovery.current \in 0..MaxRevision
    BY DEF RequestsTyped, Recovery
  <2>2. UNCHANGED <<view, skipped>> /\ (cursor' = cursor \/ cursor' = recovery.current)
    BY <1>5 DEF FinishReplay, client
  <2>3. needsResync' = needsResync \/ needsResync' = FALSE
    BY <1>5 DEF FinishReplay, Settled, client
  <2>4. cursor' \in -1..MaxRevision
    BY <2>1, <2>2, OutboxAssumption DEF ClientTyped
  <2> QED BY <2>2, <2>3, <2>4 DEF ClientTyped
<1>6. CASE UNCHANGED <<view, cursor, skipped>> /\ needsResync' \in BOOLEAN
  BY <1>6 DEF ClientTyped
<1>7. \/ ReceiveDelta \/ ApplyReplayed \/ HydrateRecovery \/ HydrateReload \/ FinishReplay
      \/ needsResync' \in BOOLEAN
  <2>1. \/ UNCHANGED needsResync \/ ReceiveDelta \/ ApplyReplayed \/ HydrateRecovery
        \/ HydrateReload \/ FinishReplay \/ ReceiveLagged \/ Connect
    BY Footprints
  <2> QED BY <2>1 DEF ReceiveLagged, Connect, Reconnected, ClientTyped
<1> QED BY <1>1, <1>2, <1>3, <1>4, <1>5, <1>6, <1>7, Footprints

LEMMA RequestsPreserved ==
  ASSUME IInv, Next
  PROVE  RequestsTyped'
<1> TypeOK /\ RequestsTyped /\ PageOrdered /\ Revision \in 0..MaxRevision
  BY TypeParts, OutboxAssumption DEF IInv, TypeOK, Revision
<1>1. recovery' \in Recovery
  <2> recovery \in Recovery /\ Idle \in Recovery
    BY InitialTyped DEF RequestsTyped
  <2>1. CASE UNCHANGED recovery \/ HydrateRecovery \/ FinishReplay
    BY <2>1 DEF HydrateRecovery, FinishReplay
  <2>2. CASE Crash \/ RecoveryFails
    <3>1. "retry" \in Stage /\ [Idle EXCEPT !.stage = "retry"] \in Recovery
      BY DEF Recovery, Stage
    <3> QED BY <2>2, <3>1 DEF Crash, RecoveryFails
  <2>3. CASE AnswerSnapshot
    <3>1. recovery' = [recovery EXCEPT !.stage = "hydrate", !.snap = CurrentSnapshot]
      BY <2>3 DEF AnswerSnapshot
    <3>2. "hydrate" \in Stage /\ CurrentSnapshot \in Snapshot
      BY BuiltTyped DEF Stage
    <3> QED BY <3>1, <3>2 DEF Recovery
  <2>4. CASE ReadRevision
    <3> DEFINE s == IF recovery.after = Revision THEN "answered"
                    ELSE IF recovery.after > Revision THEN "snapshot" ELSE "list"
    <3>1. recovery' = [recovery EXCEPT !.current = Revision, !.upto = recovery.after,
                                       !.events = <<>>, !.stage = s]
      BY <2>4 DEF ReadRevision
    <3>2. s \in Stage /\ recovery.after >= 0
      BY <2>4 DEF ReadRevision, Stage
    <3> HIDE DEF s
    <3> QED BY <3>1, <3>2, ReadTyped
  <2>5. CASE ListRecords
    <3>1. \/ \E u \in recovery.after + 1 .. Revision :
                recovery' = [recovery EXCEPT !.stage = "build", !.upto = u]
          \/ recovery' = [recovery EXCEPT !.stage = "snapshot"]
      BY <2>5 DEF ListRecords
    <3>2. \A u \in recovery.after + 1 .. Revision : u \in 0..MaxRevision
      BY OutboxAssumption DEF Recovery
    <3>3. "build" \in Stage /\ "snapshot" \in Stage
      BY DEF Stage
    <3> QED BY <3>1, <3>2, <3>3 DEF Recovery
  <2>6. CASE BuildDelta
    <3> DEFINE r == recovery.after + Len(recovery.events) + 1
               s == IF r = recovery.upto THEN "answered" ELSE "build"
    <3>1. recovery' = [recovery EXCEPT !.events = Append(@, DeltaFor(r)), !.stage = s]
      BY <2>6 DEF BuildDelta
    <3>2. s \in Stage
      BY DEF Stage
    <3>3. r \in 1..Revision
      BY <2>6, HeadTyped, LenProperties DEF BuildDelta, PageOrdered, Recovery
    <3>4. Append(recovery.events, DeltaFor(r)) \in Seq(Delta)
      BY <3>3, BuiltTyped, HeadTyped, AppendProperties
    <3> HIDE DEF r, s
    <3> QED BY <3>1, <3>2, <3>4 DEF Recovery
  <2>7. CASE ReceiveDelta
    <3>1. recovery' = recovery \/ recovery' = Stale(recovery)
      BY <2>7 DEF ReceiveDelta
    <3> QED BY <3>1 DEF Recovery, Stale
  <2>8. CASE StartRecovery
    <3>1. cursor \in -1..MaxRevision /\ "sent" \in Stage
      BY DEF TypeOK, Stage
    <3>2. recovery' = [Idle EXCEPT !.stage = "sent", !.after = cursor]
      BY <2>8 DEF StartRecovery
    <3> QED BY <3>1, <3>2 DEF Recovery
  <2>9. CASE OpenPage
    BY <2>9 DEF OpenPage, Recovery, Stage
  <2>10. CASE ApplyReplayed
    <3> DEFINE rest == [recovery EXCEPT !.events = Tail(@)]
    <3>1. rest \in Recovery
      BY <2>10, HeadTyped DEF ApplyReplayed, Recovery
    <3>2. recovery' = rest \/ recovery' = Stale(rest)
      BY <2>10 DEF ApplyReplayed
    <3> HIDE DEF rest
    <3> QED BY <3>1, <3>2 DEF Recovery, Stale
  <2>11. CASE NextPage
    <3>1. recovery.upto \in -1..MaxRevision /\ "sent" \in Stage
      BY OutboxAssumption DEF Recovery, Stage
    <3>2. recovery' = [recovery EXCEPT !.stage = "sent", !.after = recovery.upto]
      BY <2>11 DEF NextPage
    <3> QED BY <3>1, <3>2 DEF Recovery
  <2> QED BY <2>1, <2>2, <2>3, <2>4, <2>5, <2>6, <2>7, <2>8, <2>9, <2>10, <2>11,
             Footprints
<1>2. reloads' \subseteq Reload
  <2> reloads \subseteq Reload
    BY DEF RequestsTyped
  <2>1. CASE UNCHANGED reloads \/ Crash \/ ReloadFails \/ HydrateReload
    BY <2>1 DEF Crash, ReloadFails, HydrateReload
  <2>2. CASE AnswerReload
    BY <2>2, ReloadTyped, BuiltTyped DEF AnswerReload
  <2>3. CASE ReceiveDelta \/ ApplyReplayed \/ FinishReplay
    <3>1. reloads' = reloads \/ reloads' = {Outdated(q) : q \in reloads}
      BY <2>3 DEF ReceiveDelta, ApplyReplayed, FinishReplay, Advance, ReloadsOutdated
    <3>2. \A q \in reloads : Outdated(q) \in Reload
      BY DEF Reload, Outdated
    <3> QED BY <3>1, <3>2
  <2>4. CASE Connect \/ SwitchSession \/ Refresh \/ Send
    <3>1. NewReload(TRUE) \in Reload /\ NewReload(FALSE) \in Reload
      BY InitialTyped
    <3> QED BY <2>4, <3>1 DEF Connect, SwitchSession, Refresh, Send
  <2> QED BY <2>1, <2>2, <2>3, <2>4, Footprints
<1> QED BY <1>1, <1>2 DEF RequestsTyped

LEMMA HistoryPreserved ==
  ASSUME IInv, Next
  PROVE  HistoryTyped'
<1> TypeOK /\ HistoryTyped /\ Revision \in 0..MaxRevision
  BY TypeParts, OutboxAssumption DEF IInv, TypeOK, Revision
<1>1. unheard' \subseteq Revisions /\ forgotten' \subseteq Revisions
  <2>0. 1..Revision \subseteq Revisions /\ HandedOut \subseteq Revisions
    BY OutboxAssumption DEF Revisions, HandedOut, TypeOK
  <2>1. CASE UNCHANGED missed
    BY <2>1 DEF missed, HistoryTyped
  <2>2. CASE Emit
    BY <2>0, <2>2 DEF Emit, Unpublished, HistoryTyped, TypeOK
  <2>3. CASE SwitchSession
    BY <2>0, <2>3 DEF SwitchSession, HistoryTyped
  <2>4. CASE HydrateRecovery \/ HydrateReload \/ FinishReplay
    <3>1. UNCHANGED missed \/ \E c \in -1..MaxRevision : Settled(c)
      <4>1. \A q \in reloads : q.snap.rev \in -1..MaxRevision
        BY HeadTyped DEF Snapshot
      <4>2. recovery.snap.rev \in -1..MaxRevision /\ recovery.current \in -1..MaxRevision
        BY HeadTyped, OutboxAssumption DEF Snapshot, TypeOK, Recovery
      <4> QED BY <2>4, <4>1, <4>2
              DEF HydrateRecovery, HydrateReload, FinishReplay, Hydrate
    <3>2. \A c \in -1..MaxRevision : Missed(c) \subseteq Revisions
      BY <2>0 DEF Missed
    <3> QED BY <3>1, <3>2 DEF Settled, missed, HistoryTyped
  <2> QED BY <2>1, <2>2, <2>3, <2>4, Footprints
<1>2. spent' \in 0..Budget
  BY OutboxAssumption, Footprints DEF Spend, HistoryTyped
<1> QED BY <1>1, <1>2 DEF HistoryTyped

LEMMA TypePreserved ==
  ASSUME IInv, Next
  PROVE  TypeOK'
BY ServerPreserved, ChannelPreserved, ClientPreserved, RequestsPreserved,
   HistoryPreserved
   DEF TypeOK, ServerTyped, ChannelTyped, ClientTyped, RequestsTyped, HistoryTyped

-------------------------------------------------------------------------------
(* The outbox. *)

LEMMA RetainedPreserved ==
  ASSUME IInv, Next
  PROVE  Retained'
<1> TypeOK /\ Retained /\ ServerTyped
  BY TypeParts DEF IInv
<1>0. Revision \in Nat
  BY LenProperties DEF TypeOK, Revision
<1>1. CASE CommitOne \/ CommitTwo
  <2>1. PICK rows \in Seq(Members \X RowIds) :
           /\ Revision' = Revision + Len(rows)
           /\ stored' = stored \cup (Revision + 1 .. Revision + Len(rows))
           /\ published' = published /\ marking' = marking
    BY <1>1, CommitIsCommit, CommitTyped DEF Commit
  <2> DEFINE n == Revision + Len(rows)
  <2>2. n \in Nat /\ Revision <= n
    BY <1>0, LenProperties
  <2>3. stored' = stored \cup (Revision + 1 .. n) /\ Revision' = n
    BY <2>1
  <2> HIDE DEF n
  <2>4. (1..n) \ stored' = (1..Revision) \ stored
    BY <1>0, <2>2, <2>3 DEF TypeOK
  <2>5. \A r \in 1..Revision' \ stored' : r \in published' /\ \A s \in stored' : r < s
    BY <1>0, <2>1, <2>2, <2>3, <2>4 DEF Retained
  <2>6. \A s \in published', t \in (1..Revision') \ published' : s < t
    BY <1>0, <2>1, <2>2, <2>3 DEF Retained, TypeOK
  <2>7. marking' # 0 => /\ marking' \in Unpublished'
                        /\ \A s \in Unpublished' : marking' <= s
    BY <1>0, <2>1, <2>2, <2>3 DEF Retained, TypeOK, Unpublished
  <2> QED BY <2>5, <2>6, <2>7 DEF Retained
<1>2. CASE UNCHANGED <<phase, log>> /\ UNCHANGED <<stored, published, marking>>
  BY <1>2 DEF Retained, Revision, Unpublished
<1>3. CASE Emit
  BY <1>3 DEF Emit, HeadOfOutbox, Retained, Revision, Unpublished
<1>4. CASE MarkPublished
  <2>1. /\ marking \in stored \ published /\ published' = published \cup {marking}
        /\ marking' = 0 /\ stored' = stored /\ Revision' = Revision
        /\ \A s \in stored \ published : marking <= s
    BY <1>4 DEF MarkPublished, Retained, Unpublished, Revision
  <2>2. \A t \in (1..Revision) \ published : t \in stored
    BY DEF Retained
  <2>3. \A t \in (1..Revision) \ published' : marking < t
    BY <1>0, <2>1, <2>2 DEF TypeOK
  <2> QED BY <2>1, <2>3 DEF Retained
<1>5. CASE Prune
  <2>1. PICK r \in stored : stored' = {s \in stored : s > r \/ s \notin published}
    BY <1>5 DEF Prune, PrunePublished
  <2>2. /\ published' = published /\ marking' = marking /\ Revision' = Revision
    BY <1>5 DEF Prune, Revision
  <2>3. \A t \in (1..Revision) \ stored' : t \in published /\ \A s \in stored' : t < s
    BY <1>0, <2>1 DEF Retained, TypeOK
  <2> QED BY <2>1, <2>2, <2>3 DEF Retained, Unpublished
<1>6. CASE Crash
  BY <1>6 DEF Crash, Retained, Revision, Unpublished
<1> QED BY <1>1, <1>2, <1>3, <1>4, <1>5, <1>6, Footprints

-------------------------------------------------------------------------------
(* The cursor and the log only grow. *)

LEMMA LogGrows ==
  ASSUME IInv, Next
  PROVE  /\ Revision \in Nat /\ Revision' \in Nat /\ Revision <= Revision'
         /\ \A r \in 1..Revision : log'[r] = log[r]
<1> TypeOK /\ ServerTyped
  BY TypeParts DEF IInv
<1>0. Revision \in Nat
  BY LenProperties DEF TypeOK, Revision
<1>1. CASE CommitOne \/ CommitTwo
  <2>1. PICK rows \in Seq(Members \X RowIds) :
           /\ Revision' = Revision + Len(rows)
           /\ \A r \in 1..Revision : log'[r] = log[r]
    BY <1>1, CommitIsCommit, CommitTyped
  <2>2. Len(rows) \in Nat
    BY LenProperties
  <2> QED BY <1>0, <2>1, <2>2
<1>2. CASE UNCHANGED <<phase, log>>
  BY <1>0, <1>2 DEF Revision
<1> QED BY <1>1, <1>2, Footprints

\* The deltas of an opened page follow the cursor or are known.
LEMMA ReplayFollows ==
  ASSUME IInv, ApplyReplayed
  PROVE  Known(Head(recovery.events)) \/ Follows(Head(recovery.events).rev)
<1> DEFINE d == Head(recovery.events)
           n == Len(recovery.events)
<1>1. /\ recovery.events \in Seq(Delta) /\ recovery.events # <<>>
      /\ d = recovery.events[1] /\ n \in Nat \ {0}
  BY HeadTyped, EmptySeq DEF ApplyReplayed, IInv
<1>2. /\ recovery.upto - n <= cursor /\ d.rev = recovery.upto - n + 1
  BY <1>1 DEF IInv, PageOrdered, Contiguous, ApplyReplayed, Applying
<1>3. recovery.upto \in Nat /\ cursor \in Int /\ cursor >= -1 /\ d.rev \in Nat /\ d.rev >= 1
  <2>1. recovery.upto \in Nat /\ cursor \in Int /\ cursor >= -1
    BY OutboxAssumption DEF IInv, TypeOK, Recovery
  <2>2. d \in Delta
    BY <1>1, HeadTyped DEF IInv
  <2>3. d.rev \in Revisions
    BY <2>2 DEF Delta
  <2> QED BY <2>1, <2>3, OutboxAssumption DEF Revisions
<1> HIDE DEF d, n
<1>4. (cursor >= 0 /\ d.rev <= cursor) \/ d.rev = cursor + 1
  BY <1>1, <1>2, <1>3
<1> QED BY <1>4 DEF Known, Follows, d

LEMMA CursorAdvances ==
  ASSUME IInv, Next
  PROVE  cursor' >= cursor
<1> TypeOK /\ cursor \in Int
  BY OutboxAssumption DEF IInv, TypeOK
<1>1. CASE UNCHANGED <<view, cursor, skipped>>
  BY <1>1
<1>2. CASE ReceiveDelta
  <2>1. UNCHANGED cursor \/ (Advance(Head(stream)) /\ Follows(Head(stream).rev))
    BY <1>2 DEF ReceiveDelta, client
  <2> QED BY <2>1 DEF Advance, Follows
<1>3. CASE ApplyReplayed
  <2>1. \/ UNCHANGED cursor
        \/ Advance(Head(recovery.events)) /\ Follows(Head(recovery.events).rev)
    BY <1>3 DEF ApplyReplayed, client
  <2> QED BY <2>1 DEF Advance, Follows
<1>4. CASE HydrateRecovery
  BY <1>4 DEF HydrateRecovery, Hydrate, client
<1>5. CASE HydrateReload
  BY <1>5 DEF HydrateReload, Hydrate, client
<1>6. CASE FinishReplay
  <2>1. recovery.current \in Int
    BY OutboxAssumption DEF TypeOK, Recovery
  <2> QED BY <1>6, <2>1 DEF FinishReplay, client
<1> QED BY <1>1, <1>2, <1>3, <1>4, <1>5, <1>6, Footprints

-------------------------------------------------------------------------------
(* A page under way joins on to the cursor. *)

LEMMA RecoveryNumbers ==
  ASSUME TypeOK
  PROVE  /\ recovery.after \in Int /\ recovery.after >= -1
         /\ recovery.current \in Nat /\ recovery.upto \in Nat
         /\ recovery.events \in Seq(Delta) /\ Len(recovery.events) \in Nat
         /\ recovery.stage \in Stage /\ cursor \in Int /\ cursor >= -1
<1>1. recovery \in Recovery /\ cursor \in -1..MaxRevision
  BY DEF TypeOK
<1>2. /\ recovery.after \in -1..MaxRevision /\ recovery.stage \in Stage
      /\ recovery.current \in 0..MaxRevision /\ recovery.upto \in 0..MaxRevision
      /\ recovery.events \in Seq(Delta)
  BY <1>1 DEF Recovery
<1> QED BY <1>1, <1>2, OutboxAssumption, LenProperties

\* A stale request is the same page.
LEMMA StaleIsSame ==
  ASSUME NEW q \in Recovery
  PROVE  /\ Stale(q).stage = q.stage /\ Stale(q).after = q.after
         /\ Stale(q).current = q.current /\ Stale(q).upto = q.upto
         /\ Stale(q).events = q.events /\ Stale(q).snap = q.snap
BY DEF Stale, Recovery

\* Counting from the end of a sequence that lost its head.
LEMMA ShiftedByOne == \A a, n, k \in Int : a - n + (k + 1) = a - (n - 1) + k
OBVIOUS

LEMMA PagePreserved ==
  ASSUME IInv, Next
  PROVE  PageOrdered'
<1> TypeOK /\ PageOrdered /\ recovery \in Recovery
  BY DEF IInv, TypeOK
<1>a. cursor' \in Int /\ cursor' >= -1
  BY TypePreserved, OutboxAssumption DEF TypeOK
<1>0. /\ cursor \in Int /\ cursor' \in Int /\ cursor <= cursor' /\ cursor' >= -1
      /\ Revision \in Nat /\ Revision' \in Nat /\ Revision <= Revision'
      /\ recovery.after \in Int /\ recovery.current \in Nat /\ recovery.upto \in Nat
      /\ recovery.events \in Seq(Delta) /\ Len(recovery.events) \in Nat
  BY <1>a, RecoveryNumbers, LogGrows, CursorAdvances
<1>1. CASE UNCHANGED recovery
  BY <1>0, <1>1 DEF PageOrdered, Contiguous
<1>2. CASE ReceiveDelta
  <2>1. recovery' = recovery \/ recovery' = Stale(recovery)
    BY <1>2 DEF ReceiveDelta
  <2>2. /\ recovery'.stage = recovery.stage /\ recovery'.after = recovery.after
        /\ recovery'.current = recovery.current /\ recovery'.upto = recovery.upto
        /\ recovery'.events = recovery.events
    BY <2>1, StaleIsSame
  <2> QED BY <1>0, <2>2 DEF PageOrdered, Contiguous
<1>3. CASE HydrateRecovery \/ FinishReplay
  <2>1. recovery' = Idle
    BY <1>3 DEF HydrateRecovery, FinishReplay
  <2> QED BY <1>0, <2>1 DEF PageOrdered, Idle
<1>4. CASE Crash \/ RecoveryFails
  <2>1. CASE UNCHANGED recovery
    BY <1>0, <2>1 DEF PageOrdered, Contiguous
  <2>2. CASE recovery' = [Idle EXCEPT !.stage = "retry"]
    <3>1. /\ recovery'.stage = "retry" /\ recovery'.after = -1
          /\ recovery'.current = 0 /\ recovery'.upto = 0
      BY <2>2 DEF Idle
    <3> QED BY <1>0, <3>1 DEF PageOrdered
  <2> QED BY <1>4, <2>1, <2>2 DEF Crash, RecoveryFails
<1>5. CASE AnswerSnapshot
  <2>1. /\ recovery'.stage = "hydrate" /\ recovery'.after = recovery.after
        /\ recovery'.current = recovery.current /\ recovery'.upto = recovery.upto
    BY <1>5 DEF AnswerSnapshot, Recovery
  <2> QED BY <1>0, <2>1 DEF PageOrdered
<1>6. CASE ReadRevision
  <2>1. /\ recovery'.current = Revision /\ recovery'.upto = recovery.after
        /\ recovery'.after = recovery.after /\ recovery'.events = <<>>
        /\ recovery.after >= 0
        /\ recovery'.stage \in {"answered", "snapshot", "list"}
    BY <1>6 DEF ReadRevision, Recovery
  <2>2. recovery.after <= Revision
    BY <1>0 DEF IInv, Truthful, PageOrdered
  <2> QED BY <1>0, <2>1, <2>2 DEF PageOrdered, Contiguous
<1>7. CASE ListRecords
  <2>1. /\ recovery'.after = recovery.after /\ recovery'.events = recovery.events
        /\ recovery'.current = recovery.current /\ recovery.stage = "list"
        /\ \/ recovery'.stage = "snapshot" /\ recovery'.upto = recovery.upto
           \/ /\ recovery'.stage = "build"
              /\ recovery'.upto \in recovery.after + 1 .. Revision
    BY <1>7 DEF ListRecords, Recovery
  <2>2. Len(recovery.events) = 0
    BY <1>0, <2>1 DEF PageOrdered
  <2> QED BY <1>0, <2>1, <2>2 DEF PageOrdered, Contiguous
<1>8. CASE BuildDelta
  <2> DEFINE r == recovery.after + Len(recovery.events) + 1
  <2>1. /\ recovery.stage = "build" /\ recovery'.after = recovery.after
        /\ recovery'.events = Append(recovery.events, DeltaFor(r))
        /\ recovery'.current = recovery.current /\ recovery'.upto = recovery.upto
        /\ recovery'.stage = IF r = recovery.upto THEN "answered" ELSE "build"
    BY <1>8 DEF BuildDelta, Recovery
  <2>2. r \in 1..Revision /\ recovery.after >= 0 /\ r <= recovery.upto
    BY <1>0, <2>1 DEF PageOrdered
  <2>3. DeltaFor(r) \in Delta /\ DeltaFor(r).rev = r
    BY <2>2, BuiltTyped DEF DeltaFor
  <2>4. /\ \A k \in 1..Len(recovery.events) : recovery'.events[k] = recovery.events[k]
        /\ recovery'.events[Len(recovery.events) + 1] = DeltaFor(r)
    BY <1>0, <2>1, <2>3, AppendProperties
  <2>11. Len(recovery'.events) = Len(recovery.events) + 1
    BY <1>0, <2>1, <2>3, AppendProperties
  <2>5. r = recovery.after + Len(recovery.events) + 1
    OBVIOUS
  <2> HIDE DEF r
  <2>6. ASSUME NEW k \in 1..Len(recovery'.events)
        PROVE  recovery'.events[k].rev = recovery.after + k
    <3>1. CASE k \in 1..Len(recovery.events)
      BY <2>1, <2>4, <3>1 DEF PageOrdered, Contiguous
    <3>2. CASE k = Len(recovery.events) + 1
      <4>1. recovery'.events[k].rev = r
        BY <2>3, <2>4, <3>2
      <4>2. recovery.after \in Int /\ Len(recovery.events) \in Nat
        BY <1>0
      <4>3. r = recovery.after + k
        BY <2>5, <3>2, <4>2
      <4> QED BY <4>1, <4>3
    <3> QED BY <1>0, <2>11, <3>1, <3>2
  <2>7. recovery.after + Len(recovery'.events) = r
    BY <1>0, <2>5, <2>11
  <2>8. Contiguous(recovery.after)'
    BY <2>1, <2>6 DEF Contiguous
  <2>9. recovery'.stage = "answered" => recovery.after + Len(recovery'.events) = recovery.upto
    BY <2>1, <2>7
  <2>10. recovery'.stage = "build" => recovery.after + Len(recovery'.events) < recovery.upto
    BY <1>0, <2>1, <2>2, <2>5, <2>7
  <2>12. recovery'.stage = "answered" \/ recovery'.stage = "build"
    BY <2>1
  <2>13. /\ recovery'.current <= Revision' /\ recovery'.upto <= Revision'
         /\ recovery'.after <= cursor' /\ recovery'.after >= 0
    BY <1>0, <2>1, <2>2 DEF PageOrdered
  <2> QED BY <2>1, <2>8, <2>9, <2>10, <2>12, <2>13 DEF PageOrdered
<1>9. CASE StartRecovery
  <2>1. /\ recovery'.stage = "sent" /\ recovery'.after = cursor
        /\ recovery'.current = 0 /\ recovery'.upto = 0
    BY <1>9 DEF StartRecovery, Idle
  <2> QED BY <1>0, <2>1 DEF PageOrdered
<1>10. CASE OpenPage
  <2>1. /\ recovery.stage = "answered" /\ recovery'.stage = "apply"
        /\ recovery'.after = recovery.after /\ recovery'.events = recovery.events
        /\ recovery'.current = recovery.current /\ recovery'.upto = recovery.upto
    BY <1>10 DEF OpenPage, Recovery
  <2>2. /\ recovery.upto - Len(recovery.events) = recovery.after
        /\ Contiguous(recovery.after)
    BY <1>0, <2>1 DEF PageOrdered
  <2>3. Contiguous(recovery.upto - Len(recovery.events))'
    BY <2>1, <2>2 DEF Contiguous
  <2>4. recovery.upto - Len(recovery.events) <= cursor'
    BY <1>0, <2>2 DEF PageOrdered
  <2> QED BY <1>0, <2>1, <2>3, <2>4 DEF PageOrdered, Contiguous
<1>11. CASE ApplyReplayed
  <2> DEFINE rest == [recovery EXCEPT !.events = Tail(@)]
  <2>1. /\ recovery.stage = "apply" /\ recovery.events # <<>>
        /\ recovery' = rest \/ recovery' = Stale(rest)
    BY <1>11 DEF ApplyReplayed, Applying
  <2>2. rest \in Recovery
    BY <2>1, HeadTyped DEF Recovery
  <2>3. /\ recovery'.stage = "apply" /\ recovery'.after = recovery.after
        /\ recovery'.events = Tail(recovery.events)
        /\ recovery'.current = recovery.current /\ recovery'.upto = recovery.upto
    <3>1. /\ rest.stage = "apply" /\ rest.after = recovery.after
          /\ rest.events = Tail(recovery.events)
          /\ rest.current = recovery.current /\ rest.upto = recovery.upto
      BY <2>1 DEF Recovery
    <3> HIDE DEF rest
    <3> QED BY <2>1, <2>2, <3>1, StaleIsSame
  <2>4. Len(recovery'.events) = Len(recovery.events) - 1
    BY <1>0, <2>1, <2>3, HeadTailProperties
  <2>7. \A k \in 1..Len(recovery'.events) : recovery'.events[k] = recovery.events[k + 1]
    BY <1>0, <2>1, <2>3, HeadTailProperties
  <2>5. recovery.upto - Len(recovery'.events) <= cursor'
    <3>1. Head(recovery.events).rev = recovery.upto - Len(recovery.events) + 1
      <4>1. 1 \in 1..Len(recovery.events) /\ Head(recovery.events) = recovery.events[1]
        BY <1>0, <2>1, EmptySeq
      <4> QED BY <2>1, <4>1 DEF PageOrdered, Contiguous
    <3>2. Head(recovery.events).rev <= cursor'
      <4>1. CASE Known(Head(recovery.events))
        <5>1. Head(recovery.events).rev \in Int
          BY <2>1, HeadTyped, OutboxAssumption DEF Delta, Revisions
        <5> QED BY <1>0, <4>1, <5>1 DEF Known
      <4>2. CASE ~Known(Head(recovery.events)) /\ Follows(Head(recovery.events).rev)
        BY <1>11, <4>2, <1>0 DEF ApplyReplayed, Advance
      <4> QED BY <1>11, <4>1, <4>2, ReplayFollows
    <3>3. recovery.upto - Len(recovery'.events) = Head(recovery.events).rev
      BY <1>0, <2>4, <3>1
    <3> QED BY <3>2, <3>3
  <2>6. \A k \in 1..Len(recovery'.events) :
           recovery'.events[k].rev = recovery.upto - Len(recovery'.events) + k
    <3> SUFFICES ASSUME NEW k \in 1..Len(recovery'.events)
                 PROVE  recovery.events[k + 1].rev = recovery.upto - Len(recovery'.events) + k
      BY <2>7
    <3>1. k + 1 \in 1..Len(recovery.events)
      BY <1>0, <2>4
    <3>2. recovery.events[k + 1].rev = recovery.upto - Len(recovery.events) + (k + 1)
      BY <2>1, <3>1 DEF PageOrdered, Contiguous
    <3>3. k \in Int /\ recovery.upto \in Int /\ Len(recovery.events) \in Int
      BY <1>0
    <3>4. recovery.upto - Len(recovery.events) + (k + 1)
             = recovery.upto - (Len(recovery.events) - 1) + k
      BY <3>3, ShiftedByOne, Zenon
    <3> QED BY <2>4, <3>2, <3>4
  <2> QED BY <1>0, <2>3, <2>5, <2>6 DEF PageOrdered, Contiguous
<1>12. CASE NextPage
  <2>1. /\ recovery.stage = "apply" /\ recovery.events = <<>>
        /\ recovery'.stage = "sent" /\ recovery'.after = recovery.upto
        /\ recovery'.current = recovery.current /\ recovery'.upto = recovery.upto
    BY <1>12 DEF NextPage, Applying, Recovery
  <2>2. recovery.upto <= cursor
    BY <1>0, <2>1 DEF PageOrdered
  <2> QED BY <1>0, <2>1, <2>2 DEF PageOrdered
<1> QED BY <1>1, <1>2, <1>3, <1>4, <1>5, <1>6, <1>7, <1>8, <1>9, <1>10, <1>11, <1>12,
           Footprints

-------------------------------------------------------------------------------
(* What is said of the deliveries stays true. *)

\* A commit records every delivery it changes beyond the revision.
LEMMA ChangesAreRecorded ==
  ASSUME IInv, Next
  PROVE  \A m \in Members, i \in RowIds : phase'[m][i] # phase[m][i] =>
            \E r \in Revision + 1 .. Revision' : log'[r] = <<m, i>>
<1> TypeOK /\ ServerTyped
  BY TypeParts DEF IInv
<1>1. CASE CommitOne \/ CommitTwo
  <2>1. PICK Q \in [Members -> [RowIds -> D!Phase]], rows \in Seq(Members \X RowIds) :
           /\ Commit(Q, rows)
           /\ \A m \in Members, i \in RowIds : Q[m][i] # phase[m][i] =>
                 \E k \in 1..Len(rows) : rows[k] = <<m, i>>
    BY <1>1, CommitIsCommit
  <2>2. /\ Revision' = Revision + Len(rows) /\ phase' = Q
        /\ \A k \in 1..Len(rows) : log'[Revision + k] = rows[k]
    BY <2>1, CommitTyped DEF Commit
  <2>3. Len(rows) \in Nat /\ Revision \in Nat
    BY LenProperties, LogGrows
  <2> SUFFICES ASSUME NEW m \in Members, NEW i \in RowIds, phase'[m][i] # phase[m][i]
               PROVE  \E r \in Revision + 1 .. Revision' : log'[r] = <<m, i>>
    OBVIOUS
  <2>4. PICK k \in 1..Len(rows) : rows[k] = <<m, i>>
    BY <2>1, <2>2
  <2>5. Revision + k \in Revision + 1 .. Revision'
    BY <2>2, <2>3
  <2> QED BY <2>2, <2>4, <2>5
<1>2. CASE UNCHANGED <<phase, log>>
  BY <1>2
<1> QED BY <1>1, <1>2, Footprints

LEMMA CoversStable ==
  ASSUME IInv, Next, NEW items, NEW m \in Members, NEW c \in Int, c <= Revision,
         Covers(items, m, c)
  PROVE  Covers(items, m, c)'
<1> SUFFICES ASSUME NEW i \in RowIds, items[i] \in Alive, phase'[m][i] \notin Alive
             PROVE  \E r \in 1..Revision' : log'[r] = <<m, i>> /\ r > c
  BY DEF Covers
<1>1. CASE phase[m][i] \notin Alive
  <2>1. PICK r \in 1..Revision : log[r] = <<m, i>> /\ r > c
    BY <1>1 DEF Covers
  <2>2. r \in 1..Revision' /\ log'[r] = log[r]
    BY LogGrows
  <2> QED BY <2>1, <2>2
<1>2. CASE phase[m][i] \in Alive
  <2>1. PICK r \in Revision + 1 .. Revision' : log'[r] = <<m, i>>
    BY <1>2, ChangesAreRecorded
  <2>2. r \in 1..Revision' /\ r > c
    BY LogGrows
  <2> QED BY <2>1, <2>2
<1> QED BY <1>1, <1>2

LEMMA DeltaStable ==
  ASSUME IInv, Next, NEW d \in Delta, TruthfulDelta(d)
  PROVE  TruthfulDelta(d)'
<1>1. d.rev \in 1..Revision /\ d.member \in Members
  BY OutboxAssumption, LogGrows DEF TruthfulDelta, Delta, Revisions
<1>2. d.rev \in Int /\ d.rev <= Revision'
  BY <1>1, LogGrows
<1>3. Covers(d.items, d.member, d.rev)'
  BY <1>1, <1>2, CoversStable DEF TruthfulDelta
<1>4. log'[d.rev][1] = d.member
  BY <1>1, LogGrows DEF TruthfulDelta
<1> QED BY <1>2, <1>3, <1>4 DEF TruthfulDelta

LEMMA SnapStable ==
  ASSUME IInv, Next, NEW s \in Snapshot, TruthfulSnap(s)
  PROVE  TruthfulSnap(s)'
<1>1. s.rev \in Int /\ s.rev <= Revision /\ s.rev <= Revision'
  BY LogGrows DEF TruthfulSnap, Snapshot
<1>2. \A m \in Members : Covers(s.items[m], m, s.rev)'
  BY <1>1, CoversStable DEF TruthfulSnap
<1> QED BY <1>1, <1>2 DEF TruthfulSnap

\* What the server builds is truthful: it lists the queues as they are.
LEMMA BuiltTruthful ==
  ASSUME TypeOK
  PROVE  /\ \A r \in 1..Revision : TruthfulDelta(DeltaFor(r))
         /\ TruthfulSnap(CurrentSnapshot)
         /\ TruthfulSnap(NoSnapshot)
<1>1. \A m \in Members, i \in RowIds :
         QueueOf(m)[i] \in Alive => phase[m][i] \in Alive
  BY DEF QueueOf, P!QueueItems, Alive, P!Shown
<1>2. \A m \in Members, c \in Int : Covers(QueueOf(m), m, c)
  BY <1>1 DEF Covers
<1>3. Revision \in Nat
  BY LenProperties DEF TypeOK, Revision
<1>4. ASSUME NEW r \in 1..Revision
      PROVE  TruthfulDelta(DeltaFor(r))
  <2>1. log[r][1] \in Members /\ r \in Int /\ r <= Revision
    BY <1>3, BuiltTyped
  <2>2. Covers(QueueOf(log[r][1]), log[r][1], r)
    BY <1>2, <2>1
  <2> QED BY <2>1, <2>2 DEF TruthfulDelta, DeltaFor
<1>5. TruthfulSnap(CurrentSnapshot)
  BY <1>2, <1>3 DEF TruthfulSnap, CurrentSnapshot
<1>6. TruthfulSnap(NoSnapshot)
  BY <1>3 DEF TruthfulSnap, NoSnapshot, NoItems, Covers, Alive, P!Shown
<1> QED BY <1>4, <1>5, <1>6

\* Only an answer brings deltas or a snapshot to the request.
LEMMA RecoveryFootprint ==
  ASSUME IInv, Next
  PROVE  /\ \/ recovery'.events = recovery.events \/ recovery'.events = <<>>
            \/ BuildDelta \/ ApplyReplayed
         /\ recovery'.snap = recovery.snap \/ recovery'.snap = NoSnapshot \/ AnswerSnapshot
<1> TypeOK /\ recovery \in Recovery
  BY DEF IInv, TypeOK
<1>1. CASE UNCHANGED recovery \/ ReceiveDelta
  <2>1. recovery' = recovery \/ recovery' = Stale(recovery)
    BY <1>1 DEF ReceiveDelta
  <2> QED BY <2>1, StaleIsSame
<1>2. CASE HydrateRecovery \/ FinishReplay \/ StartRecovery \/ Crash \/ RecoveryFails
  <2>1. \/ recovery' = recovery \/ recovery' = Idle
        \/ recovery' = [Idle EXCEPT !.stage = "retry"]
        \/ recovery' = [Idle EXCEPT !.stage = "sent", !.after = cursor]
    BY <1>2 DEF HydrateRecovery, FinishReplay, StartRecovery, Crash, RecoveryFails
  <2>2. Idle \in Recovery /\ Idle.events = <<>> /\ Idle.snap = NoSnapshot
    BY InitialTyped DEF Idle
  <2> QED BY <2>1, <2>2 DEF Recovery
<1>3. CASE AnswerSnapshot
  BY <1>3 DEF AnswerSnapshot, Recovery
<1>4. CASE ReadRevision \/ ListRecords \/ OpenPage \/ NextPage
  BY <1>4 DEF ReadRevision, ListRecords, OpenPage, NextPage, Recovery
<1>5. CASE BuildDelta
  <2>1. recovery'.snap = recovery.snap
    BY <1>5 DEF BuildDelta, Recovery
  <2> QED BY <1>5, <2>1
<1>6. CASE ApplyReplayed
  <2> DEFINE rest == [recovery EXCEPT !.events = Tail(@)]
  <2>1. recovery.events # <<>> /\ (recovery' = rest \/ recovery' = Stale(rest))
    BY <1>6 DEF ApplyReplayed
  <2>2. rest \in Recovery /\ rest.snap = recovery.snap
    BY <2>1, HeadTyped DEF Recovery
  <2> HIDE DEF rest
  <2>3. recovery'.snap = recovery.snap
    BY <2>1, <2>2, StaleIsSame
  <2> QED BY <1>6, <2>3
<1> QED BY <1>1, <1>2, <1>3, <1>4, <1>5, <1>6, Footprints

\* The cursor moves to the revision of a delta or of a snapshot.
LEMMA AppliedRevision ==
  ASSUME IInv, Next
  PROVE  cursor' = cursor \/ \E c \in Int : c <= Revision /\ cursor' = c
<1> TypeOK /\ Truthful /\ PageOrdered
  BY DEF IInv
<1>1. CASE UNCHANGED <<view, cursor, skipped>>
  BY <1>1
<1>2. CASE ReceiveDelta
  <2>1. UNCHANGED cursor \/ cursor' = Head(stream).rev
    BY <1>2 DEF ReceiveDelta, client, Advance
  <2>2. /\ Head(stream) \in Delta /\ Head(stream) = stream[1] /\ 1 \in 1..Len(stream)
        /\ stream[1] # Lagged
    BY <1>2, HeadTyped, EmptySeq DEF ReceiveDelta, TypeOK
  <2>3. Head(stream).rev \in Int /\ Head(stream).rev <= Revision
    BY <2>2 DEF Truthful, TruthfulDelta, Delta, Revisions
  <2> QED BY <2>1, <2>3
<1>3. CASE ApplyReplayed
  <2>1. UNCHANGED cursor \/ cursor' = Head(recovery.events).rev
    BY <1>3 DEF ApplyReplayed, client, Advance
  <2>2. /\ Head(recovery.events) \in Delta /\ 1 \in 1..Len(recovery.events)
        /\ Head(recovery.events) = recovery.events[1]
    BY <1>3, HeadTyped, EmptySeq DEF ApplyReplayed
  <2>3. Head(recovery.events).rev \in Int /\ Head(recovery.events).rev <= Revision
    BY <2>2 DEF Truthful, TruthfulDelta, Delta, Revisions
  <2> QED BY <2>1, <2>3
<1>4. CASE HydrateRecovery \/ HydrateReload
  <2>1. cursor' = cursor \/ cursor' = recovery.snap.rev
        \/ \E q \in reloads : cursor' = q.snap.rev
    BY <1>4 DEF HydrateRecovery, HydrateReload, Hydrate, client
  <2>2. /\ recovery.snap.rev \in Int /\ recovery.snap.rev <= Revision
        /\ \A q \in reloads : q.snap.rev \in Int /\ q.snap.rev <= Revision
    BY HeadTyped DEF Truthful, TruthfulSnap, Snapshot
  <2> QED BY <2>1, <2>2
<1>5. CASE FinishReplay
  BY <1>5, RecoveryNumbers DEF FinishReplay, PageOrdered, client
<1> QED BY <1>1, <1>2, <1>3, <1>4, <1>5, Footprints

\* Every message of the stream was there, is a lag notice or was built now.
LEMMA StreamFootprint ==
  ASSUME IInv, Next, NEW k \in 1..Len(stream')
  PROVE  \/ \E j \in 1..Len(stream) : stream'[k] = stream[j]
         \/ stream'[k] = Lagged
         \/ UNCHANGED <<phase, log>> /\ \E r \in 1..Revision : stream'[k] = DeltaFor(r)
<1> TypeOK
  BY DEF IInv
<1>0. stream \in Seq(Delta \cup {Lagged}) /\ Len(stream) \in Nat
  BY LenProperties DEF TypeOK
<1>1. CASE UNCHANGED <<channel, socket>>
  BY <1>1 DEF channel
<1>2. CASE Emit
  <2>1. PICK r \in Unpublished :
           stream' = stream \/ stream' = Append(stream, DeltaFor(r))
    BY <1>2 DEF Emit
  <2>2. DeltaFor(r) \in Delta /\ r \in 1..Revision
    BY BuiltTyped DEF Unpublished, TypeOK
  <2>3. CASE stream' = stream
    BY <2>3
  <2>4. CASE stream' = Append(stream, DeltaFor(r))
    <3>1. /\ Len(stream') = Len(stream) + 1
          /\ \A j \in 1..Len(stream) : stream'[j] = stream[j]
          /\ stream'[Len(stream) + 1] = DeltaFor(r)
      BY <1>0, <2>2, <2>4, AppendProperties
    <3>2. k \in 1..Len(stream) \/ k = Len(stream) + 1
      BY <1>0, <3>1
    <3>3. UNCHANGED <<phase, log>>
      BY <1>2 DEF Emit
    <3> QED BY <2>2, <3>1, <3>2, <3>3
  <2> QED BY <2>1, <2>3, <2>4
<1>3. CASE ReceiveDelta \/ ReceiveLagged
  <2>1. stream # <<>> /\ (stream' = stream \/ stream' = Tail(stream))
    BY <1>3 DEF ReceiveDelta, ReceiveLagged
  <2>2. CASE stream' = stream
    BY <2>2
  <2>3. CASE stream' = Tail(stream)
    <3>1. Len(stream') = Len(stream) - 1 /\ stream'[k] = stream[k + 1]
      BY <1>0, <2>1, <2>3, HeadTailProperties
    <3>2. k + 1 \in 1..Len(stream)
      BY <1>0, <3>1
    <3> QED BY <3>1, <3>2
  <2> QED BY <2>1, <2>2, <2>3
<1>4. CASE Lag
  <2>1. PICK n \in 1..Len(stream) :
           stream' = <<Lagged>> \o SubSeq(stream, n + 1, Len(stream))
    BY <1>4 DEF Lag, LagBy
  <2> DEFINE rest == SubSeq(stream, n + 1, Len(stream))
  <2>2. /\ rest \in Seq(Delta \cup {Lagged})
        /\ Len(rest) = IF n + 1 <= Len(stream) THEN Len(stream) - (n + 1) + 1 ELSE 0
        /\ \A j \in 1 .. Len(stream) - (n + 1) + 1 : rest[j] = stream[n + 1 + j - 1]
    <3>1. \A j \in n + 1 .. Len(stream) : stream[j] \in Delta \cup {Lagged}
      BY <1>0, ElementOfSeq
    <3> QED BY <1>0, <3>1, SubSeqProperties
  <2>3. Len(rest) = Len(stream) - n
    BY <1>0, <2>2
  <2>4. <<Lagged>> \in Seq(Delta \cup {Lagged}) /\ Len(<<Lagged>>) = 1
        /\ <<Lagged>>[1] = Lagged
    OBVIOUS
  <2>5. /\ Len(stream') = 1 + Len(rest)
        /\ \A j \in 1 .. 1 + Len(rest) :
              stream'[j] = IF j <= 1 THEN <<Lagged>>[j] ELSE rest[j - 1]
    <3> HIDE DEF rest
    <3>1. stream' = <<Lagged>> \o rest
      BY <2>1 DEF rest
    <3> QED BY <2>2, <2>4, <3>1, ConcatProperties
  <2>6. CASE k = 1
    BY <1>0, <2>3, <2>4, <2>5, <2>6
  <2>7. CASE k # 1
    <3>1. k - 1 \in 1..Len(stream) - n /\ stream'[k] = rest[k - 1]
      BY <1>0, <2>3, <2>5, <2>7
    <3>2. rest[k - 1] = stream[n + 1 + (k - 1) - 1]
      BY <1>0, <2>2, <3>1
    <3>3. n + 1 + (k - 1) - 1 \in 1..Len(stream)
      BY <1>0, <3>1
    <3> QED BY <3>1, <3>2, <3>3
  <2> QED BY <2>6, <2>7
<1>5. CASE Crash \/ Connect \/ Drop \/ SwitchSession
  <2>1. stream' = <<>>
    BY <1>5 DEF Crash, Connect, Drop, SwitchSession, NoStream
  <2> QED BY <2>1, EmptySeq
<1> QED BY <1>1, <1>2, <1>3, <1>4, <1>5, Footprints

\* Every delta of a page was there or was built now.
LEMMA EventsFootprint ==
  ASSUME IInv, Next, NEW k \in 1..Len(recovery'.events)
  PROVE  \/ \E j \in 1..Len(recovery.events) : recovery'.events[k] = recovery.events[j]
         \/ UNCHANGED <<phase, log>>
               /\ \E r \in 1..Revision : recovery'.events[k] = DeltaFor(r)
<1> TypeOK /\ recovery \in Recovery
  BY DEF IInv, TypeOK
<1>0. recovery.events \in Seq(Delta) /\ Len(recovery.events) \in Nat
  BY RecoveryNumbers
<1>1. CASE recovery'.events = recovery.events
  BY <1>1
<1>2. CASE recovery'.events = <<>>
  BY <1>2, EmptySeq
<1>3. CASE BuildDelta
  <2> DEFINE r == recovery.after + Len(recovery.events) + 1
  <2>1. recovery'.events = Append(recovery.events, DeltaFor(r))
    BY <1>3 DEF BuildDelta, Recovery
  <2>2. r \in 1..Revision
    BY <1>3, RecoveryNumbers, LogGrows DEF IInv, PageOrdered, BuildDelta
  <2>3. UNCHANGED <<phase, log>> /\ DeltaFor(r) \in Delta
    BY <1>3, <2>2, BuiltTyped DEF BuildDelta, server
  <2> HIDE DEF r
  <2>4. /\ Len(recovery'.events) = Len(recovery.events) + 1
        /\ \A j \in 1..Len(recovery.events) : recovery'.events[j] = recovery.events[j]
        /\ recovery'.events[Len(recovery.events) + 1] = DeltaFor(r)
    BY <1>0, <2>1, <2>3, AppendProperties
  <2>5. k \in 1..Len(recovery.events) \/ k = Len(recovery.events) + 1
    BY <1>0, <2>4
  <2> QED BY <2>2, <2>3, <2>4, <2>5
<1>4. CASE ApplyReplayed
  <2>1. recovery.events # <<>> /\ recovery'.events = Tail(recovery.events)
    <3> DEFINE rest == [recovery EXCEPT !.events = Tail(@)]
    <3>1. recovery.events # <<>> /\ (recovery' = rest \/ recovery' = Stale(rest))
      BY <1>4 DEF ApplyReplayed
    <3>2. rest \in Recovery /\ rest.events = Tail(recovery.events)
      BY <1>0, <3>1, HeadTyped DEF Recovery
    <3> HIDE DEF rest
    <3> QED BY <3>1, <3>2, StaleIsSame
  <2>2. Len(recovery'.events) = Len(recovery.events) - 1
        /\ recovery'.events[k] = recovery.events[k + 1]
    BY <1>0, <2>1, HeadTailProperties
  <2>3. k + 1 \in 1..Len(recovery.events)
    BY <1>0, <2>2
  <2> QED BY <2>2, <2>3
<1> QED BY <1>1, <1>2, <1>3, <1>4, RecoveryFootprint

\* Every reload carries what it carried, nothing, or the current snapshot.
LEMMA ReloadsFootprint ==
  ASSUME IInv, Next, NEW q \in reloads'
  PROVE  \/ \E p \in reloads : q.snap = p.snap
         \/ q.snap = NoSnapshot
         \/ UNCHANGED <<phase, log>> /\ q.snap = CurrentSnapshot
<1> reloads \subseteq Reload
  BY DEF IInv, TypeOK
<1>1. CASE reloads' \subseteq reloads
  BY <1>1
<1>2. CASE AnswerReload
  <2>1. PICK p \in reloads :
           reloads' = (reloads \ {p})
              \cup {[p EXCEPT !.answered = TRUE, !.snap = CurrentSnapshot]}
    BY <1>2 DEF AnswerReload
  <2>2. [p EXCEPT !.answered = TRUE, !.snap = CurrentSnapshot].snap = CurrentSnapshot
    BY DEF Reload
  <2>3. UNCHANGED <<phase, log>>
    BY <1>2 DEF AnswerReload, server
  <2> QED BY <2>1, <2>2, <2>3
<1>3. CASE reloads' = {Outdated(p) : p \in reloads}
  <2>1. PICK p \in reloads : q = Outdated(p)
    BY <1>3
  <2>2. q.snap = p.snap
    BY <2>1 DEF Outdated, Reload
  <2> QED BY <2>2
<1>4. CASE reloads' = reloads \cup {NewReload(TRUE)} \/ reloads' = reloads \cup {NewReload(FALSE)}
  BY <1>4 DEF NewReload
<1>5. \/ reloads' \subseteq reloads \/ AnswerReload
      \/ reloads' = {Outdated(p) : p \in reloads}
      \/ reloads' = reloads \cup {NewReload(TRUE)}
      \/ reloads' = reloads \cup {NewReload(FALSE)}
  <2>1. CASE UNCHANGED reloads \/ Crash \/ ReloadFails \/ HydrateReload
    BY <2>1 DEF Crash, ReloadFails, HydrateReload
  <2>2. CASE ReceiveDelta \/ ApplyReplayed \/ FinishReplay
    BY <2>2 DEF ReceiveDelta, ApplyReplayed, FinishReplay, Advance, ReloadsOutdated
  <2>3. CASE Connect \/ SwitchSession \/ Refresh \/ Send
    BY <2>3 DEF Connect, SwitchSession, Refresh, Send
  <2> QED BY <2>1, <2>2, <2>3, Footprints
<1> QED BY <1>1, <1>2, <1>3, <1>4, <1>5

LEMMA TruthfulPreserved ==
  ASSUME IInv, Next
  PROVE  Truthful'
<1> TypeOK /\ Truthful
  BY DEF IInv
<1>0. TypeOK'
  BY TypePreserved
<1>a. /\ stream' \in Seq(Delta \cup {Lagged}) /\ recovery'.events \in Seq(Delta)
      /\ recovery'.snap \in Snapshot /\ \A q \in reloads' : q.snap \in Snapshot
  BY <1>0 DEF TypeOK, Recovery, Reload
<1>b. ASSUME UNCHANGED <<phase, log>>, NEW d \in Delta, NEW r \in 1..Revision,
             d = DeltaFor(r)
      PROVE  TruthfulDelta(d)'
  <2>1. TruthfulDelta(d)
    BY <1>b, BuiltTruthful
  <2> QED BY <2>1, DeltaStable
<1>c. ASSUME NEW s \in Snapshot, s = NoSnapshot \/ s = CurrentSnapshot
      PROVE  TruthfulSnap(s)'
  <2>1. TruthfulSnap(s)
    BY <1>c, BuiltTruthful
  <2> QED BY <2>1, SnapStable
<1>1. ASSUME NEW k \in 1..Len(stream'), stream'[k] # Lagged
      PROVE  \A d \in Delta : d = stream'[k] => TruthfulDelta(d)'
  <2> SUFFICES ASSUME NEW d \in Delta, d = stream'[k]
               PROVE  TruthfulDelta(d)'
    OBVIOUS
  <2>1. CASE \E j \in 1..Len(stream) : stream'[k] = stream[j]
    <3>1. TruthfulDelta(d)
      BY <1>1, <2>1 DEF Truthful
    <3> QED BY <3>1, DeltaStable
  <2> QED BY <1>1, <1>b, <2>1, StreamFootprint
<1>2. ASSUME NEW k \in 1..Len(recovery'.events)
      PROVE  \A d \in Delta : d = recovery'.events[k] => TruthfulDelta(d)'
  <2> SUFFICES ASSUME NEW d \in Delta, d = recovery'.events[k]
               PROVE  TruthfulDelta(d)'
    OBVIOUS
  <2>1. CASE \E j \in 1..Len(recovery.events) : recovery'.events[k] = recovery.events[j]
    <3>1. TruthfulDelta(d)
      BY <2>1 DEF Truthful
    <3> QED BY <3>1, DeltaStable
  <2> QED BY <1>b, <2>1, EventsFootprint
<1>3. ASSUME NEW s \in Snapshot, s = recovery'.snap
      PROVE  TruthfulSnap(s)'
  <2>1. CASE s = recovery.snap
    BY <2>1, SnapStable DEF Truthful
  <2>2. s = recovery.snap \/ s = NoSnapshot \/ s = CurrentSnapshot
    <3>1. AnswerSnapshot => recovery'.snap = CurrentSnapshot
      BY DEF AnswerSnapshot, Recovery, TypeOK
    <3> QED BY <1>3, <3>1, RecoveryFootprint
  <2> QED BY <1>c, <2>1, <2>2
<1>4. ASSUME NEW q \in reloads', NEW s \in Snapshot, s = q.snap
      PROVE  TruthfulSnap(s)'
  <2>1. CASE \E p \in reloads : s = p.snap
    <3>1. TruthfulSnap(s)
      BY <2>1 DEF Truthful
    <3> QED BY <3>1, SnapStable
  <2> QED BY <1>4, <1>c, <2>1, ReloadsFootprint
<1>5. cursor' <= Revision'
  <2>1. /\ cursor \in Int /\ cursor <= Revision /\ Revision \in Nat /\ Revision' \in Nat
        /\ Revision <= Revision'
    BY LogGrows, OutboxAssumption DEF Truthful, TypeOK
  <2> QED BY <2>1, AppliedRevision
<1>6. \A k \in 1..Len(stream') : stream'[k] # Lagged => TruthfulDelta(stream[k])'
  <2> SUFFICES ASSUME NEW k \in 1..Len(stream'), stream'[k] # Lagged
               PROVE  TruthfulDelta(stream[k])'
    OBVIOUS
  <2>1. stream'[k] \in Delta
    BY <1>a, ElementOfSeq
  <2>2. PICK d \in Delta : d = stream'[k]
    BY <2>1
  <2>3. TruthfulDelta(d)'
    BY <1>1, <2>2
  <2> QED BY <2>2, <2>3 DEF TruthfulDelta, Covers
<1>7. \A k \in 1..Len(recovery'.events) : TruthfulDelta(recovery.events[k])'
  <2> SUFFICES ASSUME NEW k \in 1..Len(recovery'.events)
               PROVE  TruthfulDelta(recovery.events[k])'
    OBVIOUS
  <2>1. recovery'.events[k] \in Delta
    BY <1>a, ElementOfSeq
  <2>2. PICK d \in Delta : d = recovery'.events[k]
    BY <2>1
  <2>3. TruthfulDelta(d)'
    BY <1>2, <2>2
  <2> QED BY <2>2, <2>3 DEF TruthfulDelta, Covers
<1>8. TruthfulSnap(recovery.snap)'
  <2>1. PICK s \in Snapshot : s = recovery'.snap
    BY <1>a
  <2>2. TruthfulSnap(s)'
    BY <1>3, <2>1
  <2> QED BY <2>1, <2>2 DEF TruthfulSnap, Covers
<1>9. \A q \in reloads' : TruthfulSnap(q.snap)'
  <2> SUFFICES ASSUME NEW q \in reloads'
               PROVE  TruthfulSnap(q.snap)'
    OBVIOUS
  <2>1. PICK s \in Snapshot : s = q.snap
    BY <1>a
  <2>2. TruthfulSnap(s)'
    BY <1>4, <2>1
  <2> QED BY <2>1, <2>2
<1> QED BY <1>5, <1>6, <1>7, <1>8, <1>9 DEF Truthful

-------------------------------------------------------------------------------
(* What the client shows. *)

\* A projection shows a delivery as alive only if the message listed it so, or
\* if it was alive and the message is merged in.
LEMMA AliveAfterMerge ==
  ASSUME NEW old \in P!Display, NEW x \in P!Item, x # "none",
         P!Merge(old, P!Observed(x)) \in Alive
  PROVE  x \in Alive
BY DEF P!Merge, P!Observed, P!Rank, P!Display, P!Item, Alive, P!Shown

LEMMA AliveAfterDelta ==
  ASSUME NEW V \in P!Displays, NEW items \in P!Items, NEW i \in RowIds,
         P!ReplaceMember(V, items)[i] \in Alive
  PROVE  items[i] \in Alive
<1>1. V[i] \in P!Display /\ items[i] \in P!Item
  BY DEF P!Displays, P!Items
<1>2. CASE items[i] # "none"
  <2>1. P!ReplaceMember(V, items)[i] = P!Merge(V[i], P!Observed(items[i]))
    BY <1>2 DEF P!ReplaceMember
  <2> QED BY <1>1, <1>2, <2>1, AliveAfterMerge
<1>3. CASE items[i] = "none"
  BY <1>3 DEF P!ReplaceMember, Alive, P!Shown
<1> QED BY <1>2, <1>3

LEMMA AliveAfterSnapshot ==
  ASSUME NEW V \in P!Displays, NEW items \in P!Items, NEW i \in RowIds
  PROVE  /\ P!Replace(items)[i] \in Alive => items[i] \in Alive
         /\ P!MergeOnly(V, items)[i] \in Alive => items[i] \in Alive \/ V[i] \in Alive
<1>1. V[i] \in P!Display /\ items[i] \in P!Item
  BY DEF P!Displays, P!Items
<1>2. P!Replace(items)[i] \in Alive => items[i] \in Alive
  BY DEF P!Replace, Alive, P!Shown
<1>3. ASSUME P!MergeOnly(V, items)[i] \in Alive
      PROVE  items[i] \in Alive \/ V[i] \in Alive
  <2>1. CASE items[i] = "none" \/ (V[i] = "none" /\ P!Observed(items[i]) = "ended")
    BY <1>3, <2>1 DEF P!MergeOnly
  <2>2. CASE ~(items[i] = "none" \/ (V[i] = "none" /\ P!Observed(items[i]) = "ended"))
    <3>1. P!MergeOnly(V, items)[i] = P!Merge(V[i], P!Observed(items[i]))
      BY <2>2 DEF P!MergeOnly
    <3> QED BY <1>1, <1>3, <2>2, <3>1, AliveAfterMerge
  <2> QED BY <2>1, <2>2
<1> QED BY <1>2, <1>3

\* A card of member m is explained by a change beyond the cursor, or by one a
\* stale snapshot carried the cursor across.
Explained(m, i, c, S) ==
    \E r \in 1..Revision : log[r] = <<m, i>> /\ (r > c \/ r \in S)

\* Applying a truthful delta that follows the cursor.
LEMMA DeltaExplained ==
  ASSUME TypeOK, GhostsAreExplained, NEW d \in Delta, TruthfulDelta(d),
         cursor \in Int, Follows(d.rev), Advance(d), UNCHANGED <<phase, log>>
  PROVE  GhostsAreExplained'
<1> SUFFICES ASSUME NEW m \in Members, NEW i \in RowIds,
                    view'[m][i] \in Alive, phase[m][i] \notin Alive
             PROVE  Explained(m, i, d.rev, skipped)
  BY DEF GhostsAreExplained, Explained, Advance, Revision
<1>1. /\ d.member \in Members /\ d.items \in P!Items /\ d.rev \in Int
      /\ view[m] \in P!Displays
  BY DEF Delta, Revisions, TypeOK
<1>2. CASE m = d.member
  <2>1. d.items[i] \in Alive
    <3>1. view'[m] = P!ReplaceMember(view[m], d.items)
      BY <1>1, <1>2 DEF Advance, TypeOK
    <3> QED BY <1>1, <3>1, AliveAfterDelta
  <2> QED BY <1>2, <2>1 DEF TruthfulDelta, Covers, Explained
<1>3. CASE m # d.member
  <2>1. view'[m] = view[m]
    BY <1>3 DEF Advance, TypeOK
  <2>2. PICK r \in 1..Revision : log[r] = <<m, i>> /\ (r > cursor \/ r \in skipped)
    BY <2>1 DEF GhostsAreExplained
  <2>3. r # d.rev
    BY <1>3, <2>2 DEF TruthfulDelta
  <2>4. r > d.rev \/ r \in skipped
    BY <1>1, <2>2, <2>3 DEF Follows
  <2> QED BY <2>2, <2>4 DEF Explained
<1> QED BY <1>2, <1>3

\* Hydrating from a truthful snapshot.
LEMMA SnapshotExplained ==
  ASSUME TypeOK, GhostsAreExplained, NEW s \in Snapshot, NEW fresh, TruthfulSnap(s),
         Hydrate(s, fresh), UNCHANGED <<phase, log>>
  PROVE  GhostsAreExplained'
<1>1. CASE UNCHANGED client
  BY <1>1 DEF client, GhostsAreExplained, Revision
<1>2. CASE ~UNCHANGED client
  <2> SUFFICES ASSUME NEW m \in Members, NEW i \in RowIds,
                      view'[m][i] \in Alive, phase[m][i] \notin Alive
               PROVE  \E r \in 1..Revision :
                         log[r] = <<m, i>> /\ (r > cursor' \/ r \in skipped')
    BY DEF GhostsAreExplained, Revision
  <2>1. /\ s.items[m] \in P!Items /\ s.rev \in Int /\ view[m] \in P!Displays
        /\ cursor \in Int /\ cursor' = s.rev
    BY <1>2, OutboxAssumption DEF Snapshot, TypeOK, Hydrate
  <2>2. \/ view'[m] = P!Replace(s.items[m])
        \/ /\ view'[m] = P!MergeOnly(view[m], s.items[m])
           /\ skipped' = skipped \cup (cursor + 1 .. s.rev)
    BY <1>2 DEF Hydrate
  <2>3. CASE s.items[m][i] \in Alive
    <3>1. PICK r \in 1..Revision : log[r] = <<m, i>> /\ r > s.rev
      BY <2>3 DEF TruthfulSnap, Covers
    <3> QED BY <2>1, <3>1
  <2>4. CASE s.items[m][i] \notin Alive
    <3>1. view[m][i] \in Alive /\ skipped' = skipped \cup (cursor + 1 .. s.rev)
      BY <2>1, <2>2, <2>4, AliveAfterSnapshot
    <3>2. PICK r \in 1..Revision : log[r] = <<m, i>> /\ (r > cursor \/ r \in skipped)
      BY <3>1 DEF GhostsAreExplained
    <3>3. r > s.rev \/ r \in skipped'
      BY <2>1, <3>1, <3>2
    <3> QED BY <2>1, <3>2, <3>3
  <2> QED BY <2>3, <2>4
<1> QED BY <1>1, <1>2

LEMMA GhostsPreserved ==
  ASSUME IInv, Next
  PROVE  GhostsAreExplained'
<1> TypeOK /\ GhostsAreExplained /\ Truthful /\ PageOrdered /\ cursor \in Int
  BY OutboxAssumption DEF IInv, TypeOK
<1>1. CASE UNCHANGED <<view, cursor, skipped>>
  <2> SUFFICES ASSUME NEW m \in Members, NEW i \in RowIds,
                      view[m][i] \in Alive, phase'[m][i] \notin Alive
               PROVE  \E r \in 1..Revision' :
                         log'[r] = <<m, i>> /\ (r > cursor \/ r \in skipped)
    BY <1>1 DEF GhostsAreExplained
  <2>1. CASE phase[m][i] \notin Alive
    <3>1. PICK r \in 1..Revision : log[r] = <<m, i>> /\ (r > cursor \/ r \in skipped)
      BY <2>1 DEF GhostsAreExplained
    <3>2. r \in 1..Revision' /\ log'[r] = log[r]
      BY LogGrows
    <3> QED BY <3>1, <3>2
  <2>2. CASE phase[m][i] \in Alive
    <3>1. PICK r \in Revision + 1 .. Revision' : log'[r] = <<m, i>>
      BY <2>2, ChangesAreRecorded
    <3>2. r \in 1..Revision' /\ r > cursor
      BY LogGrows DEF Truthful
    <3> QED BY <3>1, <3>2
  <2> QED BY <2>1, <2>2
<1>2. CASE ReceiveDelta
  <2>1. UNCHANGED <<phase, log>>
    BY <1>2 DEF ReceiveDelta, server
  <2>2. CASE UNCHANGED <<view, cursor, skipped>>
    BY <1>1, <2>2
  <2>3. CASE Advance(Head(stream)) /\ Follows(Head(stream).rev)
    <3> DEFINE d == Head(stream)
    <3>1. d \in Delta /\ d = stream[1] /\ 1 \in 1..Len(stream) /\ stream[1] # Lagged
      BY <1>2, HeadTyped, EmptySeq DEF ReceiveDelta, TypeOK
    <3>2. TruthfulDelta(d)
      BY <3>1 DEF Truthful
    <3> HIDE DEF d
    <3> QED BY <2>1, <2>3, <3>1, <3>2, DeltaExplained DEF d
  <2> QED BY <1>2, <2>2, <2>3 DEF ReceiveDelta, client
<1>3. CASE ApplyReplayed
  <2>1. UNCHANGED <<phase, log>>
    BY <1>3 DEF ApplyReplayed, server
  <2>2. CASE UNCHANGED <<view, cursor, skipped>>
    BY <1>1, <2>2
  <2>3. CASE Advance(Head(recovery.events)) /\ Follows(Head(recovery.events).rev)
    <3> DEFINE d == Head(recovery.events)
    <3>1. d \in Delta /\ d = recovery.events[1] /\ 1 \in 1..Len(recovery.events)
      BY <1>3, HeadTyped, EmptySeq DEF ApplyReplayed
    <3>2. TruthfulDelta(d)
      BY <3>1 DEF Truthful
    <3> HIDE DEF d
    <3> QED BY <2>1, <2>3, <3>1, <3>2, DeltaExplained DEF d
  <2> QED BY <1>3, <2>2, <2>3 DEF ApplyReplayed, client
<1>4. CASE HydrateRecovery
  <2>1. /\ Hydrate(recovery.snap, recovery.fresh) /\ UNCHANGED <<phase, log>>
        /\ recovery.snap \in Snapshot /\ TruthfulSnap(recovery.snap)
    BY <1>4, HeadTyped DEF HydrateRecovery, server, Truthful
  <2> QED BY <2>1, SnapshotExplained
<1>5. CASE HydrateReload
  <2>1. PICK q \in reloads : Hydrate(q.snap, q.fresh)
    BY <1>5 DEF HydrateReload
  <2>2. q.snap \in Snapshot /\ TruthfulSnap(q.snap) /\ UNCHANGED <<phase, log>>
    BY <1>5, HeadTyped DEF HydrateReload, server, Truthful
  <2> QED BY <2>1, <2>2, SnapshotExplained
<1>6. CASE FinishReplay
  <2>1. recovery.stage = "apply" /\ recovery.events = <<>> /\ recovery.current <= recovery.upto
    BY <1>6, RecoveryNumbers DEF FinishReplay, Applying
  <2>2. recovery.upto - Len(recovery.events) <= cursor /\ Len(recovery.events) = 0
    BY <2>1 DEF PageOrdered
  <2>3. recovery.upto <= cursor /\ recovery.current <= cursor
    BY <2>1, <2>2, RecoveryNumbers
  <2>4. UNCHANGED <<view, cursor, skipped>>
    BY <1>6, <2>3, RecoveryNumbers DEF FinishReplay, client
  <2> QED BY <1>1, <2>4
<1> QED BY <1>1, <1>2, <1>3, <1>4, <1>5, <1>6, Footprints


-------------------------------------------------------------------------------
(* What was handed out is heard of. *)

Accounted(r) == Undelivered(r) \/ Announced \/ needsResync \/ r \in unheard \cup forgotten

\* Only the publisher's next record is new among those handed out.
LEMMA HandedOutFootprint ==
  ASSUME IInv, Next, ~Emit
  PROVE  HandedOut' \subseteq HandedOut
<1>1. CASE UNCHANGED <<stored, published, marking>>
  BY <1>1 DEF HandedOut
<1>2. CASE CommitOne \/ CommitTwo
  <2>1. UNCHANGED <<published, marking>>
    BY <1>2, CommitIsCommit, TypeParts DEF Commit, IInv
  <2> QED BY <2>1 DEF HandedOut
<1>3. CASE MarkPublished \/ Prune \/ Crash
  BY <1>3 DEF MarkPublished, Prune, Crash, HandedOut
<1> QED BY <1>1, <1>2, <1>3, Footprints

\* Reading the head of the stream takes nothing else off it.
LEMMA HeadRead ==
  ASSUME TypeOK, stream # <<>>, stream' = Tail(stream) \/ stream' = stream,
         NEW r, r # Head(stream).rev, Undelivered(r)
  PROVE  Undelivered(r)'
<1>0. stream \in Seq(Delta \cup {Lagged}) /\ Len(stream) \in Nat
  BY LenProperties DEF TypeOK
<1>1. PICK k \in 1..Len(stream) : stream[k].rev = r
  BY DEF Undelivered
<1>2. CASE stream' = stream
  BY <1>1, <1>2 DEF Undelivered
<1>3. CASE stream' = Tail(stream)
  <2>1. /\ Len(stream') = Len(stream) - 1
        /\ \A j \in 1..Len(stream) - 1 : stream'[j] = stream[j + 1]
        /\ Head(stream) = stream[1]
    BY <1>0, <1>3, HeadTailProperties
  <2>2. k - 1 \in 1..Len(stream) - 1 /\ (k - 1) + 1 = k
    BY <1>0, <1>1, <2>1
  <2>3. stream'[k - 1] = stream[k]
    BY <2>1, <2>2
  <2> QED BY <1>1, <2>1, <2>2, <2>3 DEF Undelivered
<1> QED BY <1>2, <1>3

\* A request that ends settles what it leaves missing.
LEMMA SettledAccounts ==
  ASSUME NEW r \in HandedOut, NEW c, r > c, Settled(c), Accounted(r),
         UNCHANGED <<channel, socket>>
  PROVE  Accounted(r)'
<1>1. Undelivered(r)' = Undelivered(r) /\ Announced' = Announced
  BY DEF channel, Undelivered, Announced
<1>2. CASE needsResync
  BY <1>1, <1>2 DEF Settled, Missed, Accounted
<1>3. CASE ~needsResync
  BY <1>1, <1>3 DEF Settled, Accounted
<1> QED BY <1>2, <1>3

\* ... and the flag goes down in no other way.
LEMMA SettledOnly ==
  ASSUME HydrateRecovery \/ HydrateReload \/ FinishReplay
  PROVE  /\ UNCHANGED <<channel, socket>>
         /\ UNCHANGED <<needsResync, missed>> \/ Settled(cursor')
<1>1. ASSUME NEW s, NEW fresh, Hydrate(s, fresh)
      PROVE  UNCHANGED <<needsResync, missed>> \/ Settled(cursor')
  <2>1. CASE UNCHANGED <<client, missed>>
    BY <2>1 DEF client
  <2>2. CASE cursor' = s.rev /\ Settled(s.rev)
    BY <2>2, Zenon
  <2>3. CASE UNCHANGED <<needsResync, missed>>
    BY <2>3
  <2> QED BY <1>1, <2>1, <2>2, <2>3, Zenon DEF Hydrate
<1>2. CASE HydrateRecovery
  BY <1>1, <1>2 DEF HydrateRecovery
<1>3. CASE HydrateReload
  BY <1>1, <1>3 DEF HydrateReload
<1>4. CASE FinishReplay
  <2>1. UNCHANGED <<channel, socket>>
    BY <1>4 DEF FinishReplay
  <2>2. CASE UNCHANGED <<client, reloads, missed>>
    BY <2>1, <2>2 DEF client
  <2>3. CASE cursor' = recovery.current /\ Settled(recovery.current)
    BY <2>1, <2>3, Zenon
  <2> QED BY <1>4, <2>2, <2>3, Zenon DEF FinishReplay
<1> QED BY <1>2, <1>3, <1>4

LEMMA HeardPreserved ==
  ASSUME IInv, Next
  PROVE  Heard'
<1> TypeOK /\ Heard
  BY DEF IInv
<1> /\ stream \in Seq(Delta \cup {Lagged}) /\ Len(stream) \in Nat
    /\ cursor \in Int /\ cursor' \in Int /\ cursor' >= cursor
  BY LenProperties, CursorAdvances, TypePreserved, OutboxAssumption DEF TypeOK
<1>1. (socket # "open" => stream = <<>>)'
  <2>1. CASE UNCHANGED <<channel, socket>>
    BY <2>1 DEF Heard, channel
  <2>2. CASE Emit
    BY <2>2 DEF Emit, Heard
  <2>3. CASE Crash \/ Connect \/ Drop \/ SwitchSession
    BY <2>3 DEF Crash, Connect, Drop, SwitchSession, NoStream
  <2>4. CASE ReceiveDelta \/ ReceiveLagged
    BY <2>4 DEF ReceiveDelta, ReceiveLagged, Heard
  <2>5. CASE Lag
    <3>1. stream # <<>> /\ UNCHANGED socket
      BY <2>5, EmptySeq DEF Lag
    <3> QED BY <3>1 DEF Heard
  <2> QED BY <2>1, <2>2, <2>3, <2>4, <2>5, Footprints
<1> SUFFICES ASSUME NEW r \in HandedOut', r > cursor'
             PROVE  Accounted(r)'
  BY <1>1 DEF Heard, Accounted
<1> r \in Int
  BY TypePreserved DEF HandedOut, TypeOK
<1>2. ASSUME r \in HandedOut
      PROVE  Accounted(r)
  BY <1>2 DEF Heard, Accounted
<1>3. CASE Emit
  <2>1. PICK s \in Unpublished :
           /\ marking = 0 /\ marking' = s
           /\ stream' = IF socket = "open" THEN Append(stream, DeltaFor(s)) ELSE stream
           /\ unheard' = IF socket = "first" THEN unheard \cup {s} ELSE unheard
           /\ UNCHANGED <<published, socket, needsResync, forgotten, cursor>>
    BY <1>3 DEF Emit, client
  <2>2. r = s \/ r \in HandedOut
    BY <2>1 DEF HandedOut
  <2>3. DeltaFor(s) \in Delta /\ DeltaFor(s).rev = s
    BY BuiltTyped DEF Unpublished, TypeOK, DeltaFor
  <2>4. CASE socket = "open"
    <3>1. /\ Len(stream') = Len(stream) + 1
          /\ \A j \in 1..Len(stream) : stream'[j] = stream[j]
          /\ stream'[Len(stream) + 1] = DeltaFor(s)
      BY <2>1, <2>3, <2>4, AppendProperties
    <3>2. \A v : Undelivered(v) => Undelivered(v)'
      BY <3>1 DEF Undelivered
    <3>3. Undelivered(s)'
      <4>1. Len(stream) + 1 \in 1..Len(stream')
        BY <3>1
      <4> QED BY <2>3, <3>1, <4>1 DEF Undelivered
    <3>4. Announced => Announced'
      BY <2>1, <3>2 DEF Announced
    <3> QED BY <1>2, <2>1, <2>2, <3>2, <3>3, <3>4 DEF Accounted
  <2>5. CASE socket = "first"
    <3>1. Undelivered(r)' = Undelivered(r) /\ Announced' = Announced
      BY <2>1, <2>5 DEF Undelivered, Announced
    <3> QED BY <1>2, <2>1, <2>2, <2>5, <3>1 DEF Accounted
  <2>6. CASE socket = "lost"
    BY <2>1, <2>6 DEF Accounted, Announced
  <2> QED BY <2>4, <2>5, <2>6 DEF TypeOK
<1>4. CASE ~Emit
  <2>0. r \in HandedOut /\ r > cursor /\ Accounted(r)
    <3>1. r \in HandedOut
      BY <1>4, HandedOutFootprint
    <3>2. r > cursor
      OBVIOUS
    <3> QED BY <1>2, <3>1, <3>2
  <2>1. CASE UNCHANGED <<channel, socket, needsResync, missed>>
    BY <2>0, <2>1 DEF channel, missed, Accounted, Undelivered, Announced
  <2>2. CASE ReceiveDelta
    <3> DEFINE d == Head(stream)
    <3>1. /\ d \in Delta /\ d.rev \in Revisions /\ stream # <<>>
          /\ stream' = Tail(stream) \/ stream' = stream
          /\ UNCHANGED <<socket, missed>>
      BY <2>2, HeadTyped DEF ReceiveDelta, Delta
    <3>2. \/ Known(d) /\ UNCHANGED client
          \/ Advance(d) /\ UNCHANGED needsResync
          \/ needsResync' = TRUE
      BY <2>2 DEF ReceiveDelta
    <3> HIDE DEF d
    <3>3. needsResync' = TRUE \/ (r # d.rev /\ UNCHANGED needsResync)
      <4>1. CASE Known(d) /\ UNCHANGED client
        BY <2>0, <3>1, <4>1 DEF Known, client, Revisions
      <4>2. CASE Advance(d) /\ UNCHANGED needsResync
        BY <3>1, <4>2 DEF Advance, Revisions
      <4> QED BY <3>2, <4>1, <4>2
    <3>4. \A v : v # d.rev /\ Undelivered(v) => Undelivered(v)'
      BY <3>1, HeadRead DEF d
    <3>5. Announced => Announced'
      <4>1. Lagged.rev # d.rev
        BY <3>1 DEF Lagged, Revisions
      <4> QED BY <3>1, <3>4, <4>1 DEF Announced
    <3> QED BY <2>0, <3>1, <3>3, <3>4, <3>5 DEF Accounted, missed
  <2>3. CASE ReceiveLagged
    BY <2>3 DEF ReceiveLagged, Accounted
  <2>4. CASE Connect
    <3>1. CASE socket = "lost"
      BY <2>4, <3>1 DEF Connect, Reconnected, Accounted
    <3>2. CASE socket # "lost"
      <4>1. stream = <<>> /\ UNCHANGED <<needsResync, missed>>
        BY <2>4, <3>2 DEF Connect, Heard
      <4>2. ~Undelivered(r) /\ ~Announced
        BY <3>2, <4>1 DEF Undelivered, Announced
      <4> QED BY <2>0, <4>1, <4>2 DEF Accounted, missed
    <3> QED BY <3>1, <3>2
  <2>5. CASE Crash \/ Drop
    <3>1. CASE socket = "first"
      <4>1. stream = <<>> /\ stream' = <<>>
            /\ UNCHANGED <<socket, needsResync, missed>>
        BY <2>5, <3>1 DEF Crash, Drop, NoStream, Heard, client
      <4> QED BY <2>0, <4>1 DEF Accounted, missed, Undelivered, Announced
    <3>2. CASE socket # "first"
      <4>1. socket' = "lost"
        BY <2>5, <3>2 DEF Crash, Drop, TypeOK
      <4> QED BY <4>1 DEF Accounted, Announced
    <3> QED BY <3>1, <3>2
  <2>6. CASE Lag
    <3>1. PICK n \in 1..Len(stream) :
             stream' = <<Lagged>> \o SubSeq(stream, n + 1, Len(stream))
      BY <2>6 DEF Lag, LagBy
    <3>2. SubSeq(stream, n + 1, Len(stream)) \in Seq(Delta \cup {Lagged})
      <4>1. \A j \in n + 1 .. Len(stream) : stream[j] \in Delta \cup {Lagged}
        BY ElementOfSeq
      <4> QED BY <4>1, SubSeqProperties
    <3> DEFINE rest == SubSeq(stream, n + 1, Len(stream))
    <3>3. /\ <<Lagged>> \in Seq(Delta \cup {Lagged}) /\ Len(<<Lagged>>) = 1
          /\ <<Lagged>>[1] = Lagged
      OBVIOUS
    <3> HIDE DEF rest
    <3>4. Len(stream') = 1 + Len(rest) /\ Len(rest) \in Nat /\ stream'[1] = Lagged
      BY <3>1, <3>2, <3>3, ConcatProperties, LenProperties DEF rest
    <3>5. Undelivered(Lagged.rev)'
      <4>1. 1 \in 1..Len(stream')
        BY <3>4
      <4> QED BY <3>4, <4>1 DEF Undelivered
    <3> QED BY <3>5 DEF Accounted, Announced
  <2>7. CASE SwitchSession
    BY <2>0, <2>7 DEF SwitchSession, Accounted, client
  <2>8. CASE HydrateRecovery \/ HydrateReload \/ FinishReplay
    BY <2>0, <2>1, <2>8, SettledOnly, SettledAccounts
  <2>9. CASE ApplyReplayed
    <3>1. /\ UNCHANGED <<channel, socket, missed>>
          /\ UNCHANGED needsResync \/ needsResync' = TRUE
      BY <2>9 DEF ApplyReplayed, client
    <3> QED BY <2>0, <3>1 DEF Accounted, channel, missed, Undelivered, Announced
  <2> QED BY <1>4, <2>1, <2>2, <2>3, <2>4, <2>5, <2>6, <2>7, <2>8, <2>9, Footprints
<1> QED BY <1>3, <1>4


-------------------------------------------------------------------------------
(* The theorems. *)

LEMMA InitIInv == Init => IInv
<1> SUFFICES ASSUME Init PROVE IInv
  OBVIOUS
<1> USE DEF Init
<1>0. Revision = 0 /\ <<>> \in Seq(Members \X RowIds)
      /\ <<>> \in Seq(Delta \cup {Lagged}) /\ Len(stream) = 0 /\ MaxRevision \in Nat
      /\ 1..Revision = {}
  BY EmptySeq, OutboxAssumption DEF Revision
<1>1. TypeOK
  <2>1. phase \in [Members -> [RowIds -> D!Phase]] /\ view \in [Members -> P!Displays]
    BY DEF D!Phase, NoItems, P!Displays, P!Display
  <2>2. recovery \in Recovery /\ reloads \subseteq Reload
    BY InitialTyped
  <2>3. log \in Seq(Members \X RowIds) /\ Len(log) <= MaxRevision
        /\ stream \in Seq(Delta \cup {Lagged}) /\ marking \in 0..Revision
    BY <1>0 DEF Revision
  <2>4. cursor \in -1..MaxRevision /\ spent \in 0..Budget
    BY OutboxAssumption
  <2> QED BY <2>1, <2>2, <2>3, <2>4, Zenon DEF TypeOK
<1>2. Retained
  BY <1>0 DEF Retained
<1>3. PageOrdered
  BY <1>0 DEF PageOrdered, Idle
<1>4. \A m \in Members : \A c : Covers(NoItems, m, c)
  BY DEF Covers, NoItems, Alive, P!Shown
<1>5. TruthfulSnap(NoSnapshot)
  BY <1>0, <1>4 DEF TruthfulSnap, NoSnapshot
<1>6. Truthful
  BY <1>0, <1>5 DEF Truthful, Idle, NewReload
<1>7. GhostsAreExplained
  BY DEF GhostsAreExplained, NoItems, Alive, P!Shown
<1>8. Heard
  BY DEF Heard, HandedOut
<1> QED BY <1>1, <1>2, <1>3, <1>6, <1>7, <1>8 DEF IInv

LEMMA Stutters ==
  ASSUME IInv, UNCHANGED vars
  PROVE  IInv'
<1>1. /\ UNCHANGED <<phase, log, stored, published, marking, stream, repeated, socket>>
      /\ UNCHANGED <<view, cursor, needsResync, skipped, recovery, reloads, spent>>
      /\ UNCHANGED <<unheard, forgotten>>
  BY DEF vars, server, channel, client, missed
<1>2. TypeOK'
  BY <1>1 DEF IInv, TypeOK, Revision
<1>3. Retained' /\ PageOrdered'
  BY <1>1 DEF IInv, Retained, PageOrdered, Contiguous, Revision, Unpublished
<1>4. Truthful' /\ GhostsAreExplained'
  <2>1. /\ \A d : TruthfulDelta(d) <=> TruthfulDelta(d)'
        /\ \A s : TruthfulSnap(s) <=> TruthfulSnap(s)'
    BY <1>1 DEF TruthfulDelta, TruthfulSnap, Covers, Revision
  <2>2. Truthful'
    BY <1>1, <2>1 DEF IInv, Truthful, Revision
  <2>3. GhostsAreExplained'
    BY <1>1 DEF IInv, GhostsAreExplained, Revision
  <2> QED BY <2>2, <2>3
<1>5. Heard'
  BY <1>1 DEF IInv, Heard, HandedOut, Undelivered, Announced
<1> QED BY <1>2, <1>3, <1>4, <1>5 DEF IInv

LEMMA NextIInv == IInv /\ [Next]_vars => IInv'
<1>1. ASSUME IInv, Next PROVE IInv'
  BY <1>1, TypePreserved, RetainedPreserved, PagePreserved, TruthfulPreserved,
     GhostsPreserved, HeardPreserved DEF IInv
<1> QED BY <1>1, Stutters

THEOREM Invariance == Spec => []IInv
BY InitIInv, NextIInv, PTL DEF Spec

\* Every variable keeps its type: whatever the stages of a recovery carry over
\* their awaits stays a page of this session's deltas or a whole snapshot.
THEOREM TypeCorrect == Spec => []TypeOK
<1>1. IInv => TypeOK
  BY DEF IInv
<1> QED BY <1>1, Invariance, PTL

\* Retention and the publisher, in any interleaving with commits, crashes and
\* pruning, never leave a hole in the records after a cursor.
THEOREM OutboxStaysContiguous == Spec => []OutboxContiguous
<1>1. IInv => OutboxContiguous
  BY DEF IInv, Retained, OutboxContiguous
<1> QED BY <1>1, Invariance, PTL

\* Whatever is lost, repeated or answered late, a card of an ended delivery is
\* explained by a change the client has yet to reach or was carried across.
THEOREM GhostsExplained == Spec => []GhostsAreExplained
<1>1. IInv => GhostsAreExplained
  BY DEF IInv
<1> QED BY <1>1, Invariance, PTL

\* A quiet, connected client lacks no change of which it could have heard.
THEOREM LossNoticed == Spec => []LossIsNoticed
<1>1. ASSUME IInv, Quiet, NEW r \in cursor + 1 .. Revision
      PROVE  r \in unheard \cup forgotten
  <2>1. cursor \in Int /\ cursor >= 0 /\ Revision \in Nat
    BY <1>1, LenProperties, OutboxAssumption DEF IInv, TypeOK, Quiet, Revision
  <2>2. r \in 1..Revision /\ r > cursor
    BY <2>1
  <2>3. r \in published
    <3>1. r \in stored => r \in published
      BY <1>1 DEF Quiet, Unpublished
    <3>2. r \notin stored => r \in published
      BY <1>1, <2>2 DEF IInv, Retained
    <3> QED BY <3>1, <3>2
  <2>4. r \in HandedOut
    BY <2>2, <2>3 DEF HandedOut
  <2>5. ~needsResync /\ ~Announced /\ ~Undelivered(r)
    BY <1>1 DEF Quiet, Announced, Undelivered
  <2> QED BY <1>1, <2>2, <2>4, <2>5 DEF IInv, Heard
<1>2. IInv => LossIsNoticed
  BY <1>1 DEF LossIsNoticed
<1> QED BY <1>2, Invariance, PTL

\* No delta, snapshot or replay, however late, moves a client's cursor back.
THEOREM CursorMonotone == Spec => CursorNeverGoesBack
<1>1. ASSUME IInv, [Next]_vars PROVE [cursor' >= cursor]_vars
  BY <1>1, CursorAdvances
<1> QED BY <1>1, Invariance, PTL DEF Spec, CursorNeverGoesBack
===============================================================================
