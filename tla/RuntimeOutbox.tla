---------------------------- MODULE RuntimeOutbox ----------------------------
(***************************************************************************)
(* How the state of a session's deliveries reaches a client.               *)
(*                                                                         *)
(* Every committed change of a delivery advances the session's revision    *)
(* and appends an outbox record (SQL triggers).  A publisher hands the     *)
(* records to the session's broadcast stream and marks them; old marked    *)
(* records are pruned.  A client hydrates from a snapshot, applies the     *)
(* stream's deltas while they are contiguous, and otherwise asks for a     *)
(* replay of the records after its cursor, or for a new snapshot.          *)
(*                                                                         *)
(* The deliveries themselves follow DeliverySpec, which ChatDelivery       *)
(* implements.  One session and one client; the browser's clock is not     *)
(* modelled: a request is `fresh` until a stream event is applied.         *)
(***************************************************************************)
EXTENDS Integers, Sequences, FiniteSets

CONSTANTS Members, RowIds,
          PageLimit,      \* records in one replay page
          MaxRevision,    \* bound on the changes of the deliveries
          Events, Budget  \* which disturbances happen, and how many in all

EventKinds == {"drop", "lag", "crash", "prune", "fail", "refetch", "send", "switch"}

ASSUME OutboxAssumption ==
    /\ PageLimit \in Nat \ {0} /\ MaxRevision \in Nat /\ Budget \in Nat
    /\ Events \subseteq EventKinds

VARIABLES
    \* the database
    phase,      \* the deliveries
    log,        \* log[r] = <<m, i>>: delivery i of member m changed at revision r
    stored,     \* revisions whose record is retained
    published,  \* revisions whose record is marked published
    \* the server process
    marking,    \* the record handed out but not marked yet, or 0
    stream,     \* what the client's subscription still holds
    repeated,   \* its head was delivered once, as a delta
    \* the client
    socket,     \* "first": not connected yet; "open"; "lost"
    view,       \* what it shows, per member
    cursor,     \* highest revision applied, -1 before hydration
    needsResync,
    recovery,   \* the resync scheduler's request
    reloads,    \* other snapshot requests: refreshMessages, a send's reply
    \* bookkeeping of the properties and of the bounds
    skipped,    \* revisions a stale snapshot carried the cursor across
    unheard,    \* revisions handed out before a first subscription
    forgotten,  \* revisions missed when the flag that asks for them went down
    spent

D == INSTANCE DeliverySpec
P == INSTANCE DeliveryProjection

server == <<phase, log, stored, published, marking>>
client == <<view, cursor, needsResync, skipped>>
channel == <<stream, repeated>>
missed  == <<unheard, forgotten>>
vars   == <<server, channel, socket, client, recovery, reloads, missed, spent>>

Revision == Len(log)
Revisions == 1..MaxRevision

NoStream == stream' = <<>> /\ repeated' = FALSE

NoItems    == [i \in RowIds |-> "none"]
Snapshot   == [rev : 0..MaxRevision, items : [Members -> P!Items]]
NoSnapshot == [rev |-> 0, items |-> [m \in Members |-> NoItems]]
Delta      == [rev : Revisions, member : Members, items : P!Items]
Lagged     == [rev |-> 0]      \* runtime_resync_required

\* Stages of the scheduler's request: on its way, being answered (revision
\* read, records listed, queues being read, snapshot being built), answered,
\* its deltas being applied, failed and waiting for the retry timer.
Stage == {"idle", "sent", "list", "build", "snapshot", "answered", "hydrate",
          "apply", "retry"}
Recovery == [stage : Stage, after : -1..MaxRevision, current : 0..MaxRevision,
             upto : 0..MaxRevision, events : Seq(Delta), snap : Snapshot,
             fresh : BOOLEAN]
Idle == [stage |-> "idle", after |-> -1, current |-> 0, upto |-> 0,
         events |-> <<>>, snap |-> NoSnapshot, fresh |-> TRUE]

\* A reply to a send counts as requested when it arrives (`pinned`).
Reload == [answered : BOOLEAN, snap : Snapshot, fresh : BOOLEAN, pinned : BOOLEAN]
NewReload(pinned) == [answered |-> FALSE, snap |-> NoSnapshot,
                      fresh |-> TRUE, pinned |-> pinned]

Alive == P!Shown

QueueOf(m)      == P!QueueItems(phase[m])
DeltaFor(r)     == [rev |-> r, member |-> log[r][1], items |-> QueueOf(log[r][1])]
CurrentSnapshot == [rev |-> Revision, items |-> [m \in Members |-> QueueOf(m)]]

Unpublished == stored \ published
Applying    == recovery.stage = "apply"     \* a page is applied in one go

Spend(kind) == /\ kind \in Events
               /\ spent < Budget
               /\ spent' = spent + 1

-------------------------------------------------------------------------------
(* The database: a transaction changes some deliveries, each one a record.  *)

Commit(Q, rows) ==
    /\ \A m \in Members : D!MemberStep(phase[m], Q[m])
    /\ Revision + Len(rows) <= MaxRevision
    /\ phase' = Q
    /\ log' = log \o rows
    /\ stored' = stored \cup (Revision + 1 .. Revision + Len(rows))
    /\ UNCHANGED <<published, marking, channel, socket, client, recovery,
                   reloads, missed, spent>>

\* A delivery changes phase, or status within the phase `active`.
CanChange(m, i, p) == /\ p \in D!MayBecome(phase[m][i])
                      /\ p # phase[m][i] \/ p = "active"

CommitOne == Revision < MaxRevision /\ \E m \in Members, i \in RowIds, p \in D!Phase :
    /\ CanChange(m, i, p)
    /\ Commit([phase EXCEPT ![m][i] = p], <<<<m, i>>>>)

\* A finalization that claims the next delivery, a send to two members.
CommitTwo == Revision + 2 <= MaxRevision /\ \E m, n \in Members, i, j \in RowIds, p, q \in D!Phase :
    /\ <<m, i>> # <<n, j>> /\ CanChange(m, i, p) /\ CanChange(n, j, q)
    /\ Commit([phase EXCEPT ![m][i] = p, ![n][j] = q], <<<<m, i>>, <<n, j>>>>)

-------------------------------------------------------------------------------
(* The publisher. *)

\* One record is handed to the stream, with the member's queue as it is by
\* now, as a delta and again as the `queue_updated` of older clients: one
\* message here, delivered twice.  Nobody is subscribed while the client has
\* no socket.
HeadOfOutbox(r) == r \in Unpublished /\ \A s \in Unpublished : r <= s

Emit == \E r \in Unpublished :
    /\ marking = 0 /\ HeadOfOutbox(r)
    /\ marking' = r
    /\ stream' = IF socket = "open" THEN Append(stream, DeltaFor(r))
                 ELSE stream
    /\ unheard' = IF socket = "first" THEN unheard \cup {r} ELSE unheard
    /\ UNCHANGED <<phase, log, stored, published, repeated, socket, client,
                   recovery, reloads, forgotten, spent>>

MarkPublished ==
    /\ marking # 0
    /\ published' = published \cup {marking}
    /\ marking' = 0
    /\ UNCHANGED <<phase, log, stored, channel, socket, client, recovery, reloads,
                   missed, spent>>

PruneAny(r) ==      \* mutant: retention does not look at published_at
    stored' = {s \in stored : s > r}

\* Published rows older than the cutoff are deleted.
PrunePublished(r) == stored' = {s \in stored : s > r \/ s \notin published}

Prune == \E r \in stored :
    /\ Spend("prune")
    /\ PrunePublished(r)
    /\ UNCHANGED <<phase, log, published, marking, channel, socket, client,
                   recovery, reloads, missed>>

\* The process dies: requests being answered fail, the stream is gone.
Crash ==
    /\ Spend("crash")
    /\ marking' = 0 /\ NoStream
    /\ socket' = IF socket = "open" THEN "lost" ELSE socket
    /\ recovery' = IF recovery.stage \in {"sent", "list", "build", "snapshot"}
                   THEN [Idle EXCEPT !.stage = "retry"] ELSE recovery
    /\ reloads' = {q \in reloads : q.answered}
    /\ UNCHANGED <<phase, log, stored, published, client, missed>>

-------------------------------------------------------------------------------
(* The server's answers to the scheduler's request. *)

\* The snapshot is built between two equal reads of the revision, so that it
\* is the state at that revision; after three attempts the request fails.
AnswerSnapshot ==
    /\ \/ recovery.stage = "sent" /\ recovery.after < 0
       \/ recovery.stage = "snapshot"
    /\ recovery' = [recovery EXCEPT !.stage = "hydrate", !.snap = CurrentSnapshot]
    /\ UNCHANGED <<server, channel, socket, client, reloads, missed, spent>>

\* replay_after reads the current revision first ...
ReadRevision ==
    /\ recovery.stage = "sent" /\ recovery.after >= 0
    /\ recovery' = [recovery EXCEPT
           !.current = Revision, !.upto = recovery.after, !.events = <<>>,
           !.stage = IF recovery.after = Revision THEN "answered"
                     ELSE IF recovery.after > Revision THEN "snapshot" ELSE "list"]
    /\ UNCHANGED <<server, channel, socket, client, reloads, missed, spent>>

\* ... then the records after the cursor, as many as a page holds; they must
\* be contiguous, or the answer is a snapshot ...
FirstAfter(after) ==
    {r \in stored : /\ after < r
                    /\ Cardinality({s \in stored : after < s /\ s <= r}) <= PageLimit}

ListRecords ==
    /\ recovery.stage = "list"
    /\ \/ \E u \in recovery.after + 1 .. Revision :
             /\ FirstAfter(recovery.after) = recovery.after + 1 .. u
             /\ recovery' = [recovery EXCEPT !.stage = "build", !.upto = u]
       \/ /\ \A u \in recovery.after + 1 .. Revision :
                FirstAfter(recovery.after) # recovery.after + 1 .. u
          /\ recovery' = [recovery EXCEPT !.stage = "snapshot"]
    /\ UNCHANGED <<server, channel, socket, client, reloads, missed, spent>>

\* ... then the member's queue of one record after the other.
BuildDelta ==
    /\ recovery.stage = "build"
    /\ LET r == recovery.after + Len(recovery.events) + 1 IN
       recovery' = [recovery EXCEPT
           !.events = Append(@, DeltaFor(r)),
           !.stage  = IF r = recovery.upto THEN "answered" ELSE "build"]
    /\ UNCHANGED <<server, channel, socket, client, reloads, missed, spent>>

RecoveryFails ==
    /\ recovery.stage \in Stage \ {"idle", "retry", "apply"}
    /\ Spend("fail")
    /\ recovery' = [Idle EXCEPT !.stage = "retry"]
    /\ UNCHANGED <<server, channel, socket, client, reloads, missed>>

AnswerReload == \E q \in reloads :
    /\ ~q.answered
    /\ reloads' = (reloads \ {q})
                     \cup {[q EXCEPT !.answered = TRUE, !.snap = CurrentSnapshot]}
    /\ UNCHANGED <<server, channel, socket, client, recovery, missed, spent>>

ReloadFails == \E q \in reloads :
    /\ Spend("fail")
    /\ reloads' = reloads \ {q}
    /\ UNCHANGED <<server, channel, socket, client, recovery, missed>>

-------------------------------------------------------------------------------
(* The client's reducer.  JavaScript runs each handler to completion. *)

\* lastEventAt moves on: requests already on their way are no longer fresh.
Outdated(q)     == IF q.pinned THEN q ELSE [q EXCEPT !.fresh = FALSE]
ReloadsOutdated == reloads' = {Outdated(q) : q \in reloads}
Stale(r)        == [r EXCEPT !.fresh = FALSE]

\* What was handed out beyond `c` and will not come any more; a lost socket
\* and a lagged stream have yet to say so.
HandedOut      == (published \cup {marking}) \ {0}
Undelivered(r) == \E k \in 1..Len(stream) : stream[k].rev = r
Announced      == socket = "lost" \/ Undelivered(Lagged.rev)
Missed(c)      == {r \in HandedOut : r > c /\ ~Undelivered(r) /\ ~Announced}

\* The flag that asks for a recovery goes down.
Settled(c) == /\ needsResync' = FALSE
              /\ forgotten' = IF needsResync THEN forgotten \cup Missed(c) ELSE forgotten
              /\ UNCHANGED unheard

Follows(rev)     == rev = cursor + 1

\* applyChatRuntimeDelta for a delta that follows the cursor
Advance(d) ==
    /\ view' = [view EXCEPT ![d.member] = P!ReplaceMember(@, d.items)]
    /\ cursor' = d.rev
    /\ ReloadsOutdated
    /\ UNCHANGED skipped

\* ... is known already, or does not follow.
Known(d) == cursor >= 0 /\ d.rev <= cursor

ReceiveDelta ==
    /\ ~Applying /\ stream # <<>> /\ Head(stream) # Lagged
    /\ repeated' = ~repeated
    /\ stream' = IF repeated THEN Tail(stream) ELSE stream
    /\ LET d == Head(stream) IN
       \/ /\ Known(d)
          /\ UNCHANGED <<client, recovery, reloads>>
       \/ /\ cursor >= 0 /\ ~Known(d) /\ Follows(d.rev)
          /\ Advance(d)
          /\ recovery' = Stale(recovery)
          /\ UNCHANGED needsResync
       \/ /\ ~Known(d) /\ (cursor < 0 \/ ~Follows(d.rev))
          /\ needsResync' = TRUE
          /\ UNCHANGED <<view, cursor, skipped, recovery, reloads>>
    /\ UNCHANGED <<server, socket, missed, spent>>

ReceiveLagged ==
    /\ ~Applying /\ stream # <<>> /\ Head(stream) = Lagged
    /\ stream' = Tail(stream)
    /\ needsResync' = TRUE
    /\ UNCHANGED <<server, repeated, socket, view, cursor, skipped, recovery, reloads,
                   missed, spent>>

\* applySnapshotReceived
HydrateAlways(snap, fresh) ==      \* mutant: an older snapshot is not refused
    /\ view' = [m \in Members |-> P!Replace(snap.items[m])]
    /\ cursor' = snap.rev
    /\ Settled(snap.rev)
    /\ UNCHANGED skipped

Hydrate(snap, fresh) ==
    \/ /\ snap.rev < cursor
       /\ UNCHANGED <<client, missed>>
    \/ /\ snap.rev >= cursor /\ fresh
       /\ view' = [m \in Members |-> P!Replace(snap.items[m])]
       /\ cursor' = snap.rev
       /\ Settled(snap.rev)
       /\ UNCHANGED skipped
    \/ /\ snap.rev >= cursor /\ ~fresh
       /\ view' = [m \in Members |-> P!MergeOnly(view[m], snap.items[m])]
       /\ cursor' = snap.rev
       /\ skipped' = skipped \cup (cursor + 1 .. snap.rev)
       /\ UNCHANGED <<needsResync, missed>>

HydrateRecovery ==
    /\ ~Applying /\ recovery.stage = "hydrate"
    /\ Hydrate(recovery.snap, recovery.fresh)
    /\ recovery' = Idle
    /\ UNCHANGED <<server, channel, socket, reloads, spent>>

HydrateReload == \E q \in reloads :
    /\ ~Applying /\ q.answered
    /\ Hydrate(q.snap, q.fresh)
    /\ reloads' = reloads \ {q}
    /\ UNCHANGED <<server, channel, socket, recovery, spent>>

DueOnce == recovery.stage = "idle" /\ needsResync   \* mutant: a failure has no retry

\* The scheduler runs one recovery at a time, while the flag is up or when a
\* failed one is due again.
Due == (recovery.stage = "idle" /\ needsResync) \/ recovery.stage = "retry"

StartRecovery ==
    /\ ~Applying /\ Due
    /\ recovery' = [Idle EXCEPT !.stage = "sent", !.after = cursor]
    /\ UNCHANGED <<server, channel, socket, client, reloads, missed, spent>>

\* recoverChatRuntime: the deltas of a page ...
OpenPage ==
    /\ ~Applying /\ recovery.stage = "answered"
    /\ recovery' = [recovery EXCEPT !.stage = "apply"]
    /\ UNCHANGED <<server, channel, socket, client, reloads, missed, spent>>

ApplyReplayed ==
    /\ Applying /\ recovery.events # <<>>
    /\ LET d    == Head(recovery.events)
           rest == [recovery EXCEPT !.events = Tail(@)]
       IN \/ /\ Known(d)
             /\ recovery' = rest
             /\ UNCHANGED <<client, reloads>>
          \/ /\ ~Known(d) /\ Follows(d.rev)
             /\ Advance(d)
             /\ recovery' = Stale(rest)
             /\ UNCHANGED needsResync
          \/ /\ ~Known(d) /\ ~Follows(d.rev)
             /\ recovery' = rest
             /\ needsResync' = TRUE
             /\ UNCHANGED <<view, cursor, skipped, reloads>>
    /\ UNCHANGED <<server, channel, socket, missed, spent>>

\* ... the request for the next page ...
NextPage ==
    /\ Applying /\ recovery.events = <<>> /\ recovery.upto < recovery.current
    /\ recovery' = [recovery EXCEPT !.stage = "sent", !.after = recovery.upto]
    /\ UNCHANGED <<server, channel, socket, client, reloads, missed, spent>>

\* ... and `replay_completed`.
FinishReplay ==
    /\ Applying /\ recovery.events = <<>> /\ recovery.upto >= recovery.current
    /\ recovery' = Idle
    /\ IF recovery.current < cursor
       THEN UNCHANGED <<client, reloads, missed>>
       ELSE /\ cursor' = recovery.current
            /\ Settled(recovery.current)
            /\ ReloadsOutdated
            /\ UNCHANGED <<view, skipped>>
    /\ UNCHANGED <<server, channel, socket, spent>>

-------------------------------------------------------------------------------
(* The connection, and the user. *)

\* onopen: every connection but the first asks for a recovery and reloads.
Reconnected == needsResync' = TRUE

Connect ==
    /\ ~Applying /\ socket # "open"
    /\ socket' = "open" /\ NoStream
    /\ IF socket = "lost"
       THEN Reconnected /\ reloads' = reloads \cup {NewReload(FALSE)}
       ELSE UNCHANGED <<needsResync, reloads>>
    /\ UNCHANGED <<server, view, cursor, skipped, recovery, missed, spent>>

Drop ==
    /\ ~Applying /\ socket = "open" /\ Spend("drop")
    /\ socket' = "lost" /\ NoStream
    /\ UNCHANGED <<server, client, recovery, reloads, missed>>

LagQuietly(k) == stream' = SubSeq(stream, k + 1, Len(stream))  \* mutant: nobody is told

\* A receiver that is too slow loses the oldest messages and is told so.
LagBy(k) == stream' = <<Lagged>> \o SubSeq(stream, k + 1, Len(stream))

Lag == \E k \in 1..Len(stream) :
    /\ Spend("lag")
    /\ LagBy(k) /\ repeated' = FALSE
    /\ UNCHANGED <<server, socket, client, recovery, reloads, missed>>

\* Another session and back: the new subscription counts as a first one, and
\* what the old one would have announced is not.
SwitchSession ==
    /\ ~Applying /\ Spend("switch")
    /\ socket' = "first" /\ NoStream
    /\ unheard' = unheard \cup {r \in HandedOut : Undelivered(r) \/ Announced}
    /\ reloads' = reloads \cup {NewReload(FALSE)}
    /\ UNCHANGED <<server, client, recovery, forgotten>>

Refresh ==
    /\ ~Applying /\ Spend("refetch")
    /\ reloads' = reloads \cup {NewReload(FALSE)}
    /\ UNCHANGED <<server, channel, socket, client, recovery, missed>>

\* The reply to a send carries a snapshot taken after its commit.
Send ==
    /\ ~Applying /\ Spend("send")
    /\ reloads' = reloads \cup {NewReload(TRUE)}
    /\ UNCHANGED <<server, channel, socket, client, recovery, missed>>

-------------------------------------------------------------------------------
Init ==
    /\ phase = [m \in Members |-> [i \in RowIds |-> "absent"]]
    /\ log = <<>> /\ stored = {} /\ published = {} /\ marking = 0
    /\ stream = <<>> /\ repeated = FALSE /\ socket = "first"
    /\ view = [m \in Members |-> NoItems]
    /\ cursor = -1 /\ needsResync = FALSE
    /\ recovery = Idle
    /\ reloads = {NewReload(FALSE)}      \* the session was just opened
    /\ skipped = {} /\ unheard = {} /\ forgotten = {} /\ spent = 0

Publisher == Emit \/ MarkPublished
Answers   == \/ AnswerSnapshot \/ ReadRevision \/ ListRecords \/ BuildDelta
             \/ AnswerReload
Handlers  == \/ ReceiveDelta \/ ReceiveLagged \/ HydrateRecovery \/ HydrateReload
             \/ StartRecovery \/ OpenPage \/ ApplyReplayed \/ NextPage
             \/ FinishReplay \/ Connect
Disturbances == \/ Prune \/ Crash \/ RecoveryFails \/ ReloadFails \/ Drop \/ Lag
                \/ SwitchSession \/ Refresh \/ Send

Next == CommitOne \/ CommitTwo \/ Publisher \/ Answers \/ Handlers \/ Disturbances

Spec == Init /\ [][Next]_vars

\* The publisher's task, the server's answers and the client's handlers go on;
\* a lost socket is reopened by its timer.  Nothing is assumed of the changes
\* and of the disturbances.
FairSpec ==
    /\ Spec
    /\ WF_vars(Emit) /\ WF_vars(MarkPublished)
    /\ WF_vars(AnswerSnapshot \/ ReadRevision \/ ListRecords \/ BuildDelta)
    /\ WF_vars(AnswerReload) /\ WF_vars(HydrateReload)
    /\ WF_vars(ReceiveDelta \/ ReceiveLagged)
    /\ WF_vars(HydrateRecovery \/ OpenPage \/ ApplyReplayed \/ NextPage \/ FinishReplay)
    /\ WF_vars(StartRecovery) /\ WF_vars(Connect)

-------------------------------------------------------------------------------
TypeOK ==
    /\ phase \in [Members -> [RowIds -> D!Phase]]
    /\ log \in Seq(Members \X RowIds) /\ Len(log) <= MaxRevision
    /\ stored \subseteq 1..Revision /\ published \subseteq 1..Revision
    /\ marking \in 0..Revision
    /\ stream \in Seq(Delta \cup {Lagged}) /\ repeated \in BOOLEAN
    /\ socket \in {"first", "open", "lost"}
    /\ view \in [Members -> P!Displays]
    /\ cursor \in -1..MaxRevision /\ needsResync \in BOOLEAN
    /\ recovery \in Recovery
    /\ reloads \subseteq Reload
    /\ skipped \subseteq 0..MaxRevision
    /\ unheard \subseteq Revisions /\ forgotten \subseteq Revisions
    /\ spent \in 0..Budget

\* Retention deletes only what was published, and only from the old end, so
\* that a cursor is either followed by its next record or recognisably too
\* old.
OutboxContiguous ==
    \A r \in 1..Revision \ stored :
        r \in published /\ \A s \in stored : r < s

\* The client shows a delivery that has ended only while the change that
\* ended it is beyond its cursor, or when a stale snapshot carried the cursor
\* across that change.
GhostsAreExplained ==
    \A m \in Members, i \in RowIds :
        view[m][i] \in Alive /\ phase[m][i] \notin Alive
            => \E r \in 1..Revision : log[r] = <<m, i>> /\ (r > cursor \/ r \in skipped)

\* ... which is the promise without its exception: once the cursor has passed
\* the end of a delivery, no card is left.
NoGhost ==
    \A m \in Members, i \in RowIds :
        view[m][i] \in Alive /\ phase[m][i] \notin Alive
            => \E r \in 1..Revision : log[r] = <<m, i>> /\ r > cursor

\* Nothing is on its way and the client does not ask for anything.
Quiet == /\ socket = "open" /\ stream = <<>> /\ marking = 0 /\ Unpublished = {}
         /\ recovery.stage = "idle" /\ reloads = {} /\ ~needsResync /\ cursor >= 0

\* Whatever was lost on the way, by a dropped socket, a lagging receiver, a
\* crash or retention, the client notices: a quiet client lacks only changes
\* handed out before its first subscription, or whose gap it had noticed and
\* forgot when an older answer arrived.
LossIsNoticed == Quiet => cursor + 1 .. Revision \subseteq unheard \cup forgotten

\* ... and a gap noticed while a recovery is in flight is not forgotten when
\* the recovery ends: the flag stays up and the scheduler goes on.
GapSurvivesRecovery ==
    [][(recovery.stage # "idle" /\ recovery' = Idle /\ needsResync /\ ~needsResync')
          => Missed(cursor') \subseteq unheard]_vars

\* The cursor never goes back, whatever arrives late or twice.
CursorNeverGoesBack == [][cursor' >= cursor]_vars

\* The client ends up connected, with every change it still asks for.
ClientCatchesUp == <>[](socket = "open" /\ ~needsResync
                        /\ (cursor >= 0 =>
                                cursor + 1 .. Revision \subseteq unheard \cup forgotten))
===============================================================================
