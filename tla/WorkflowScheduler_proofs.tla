---------------------- MODULE WorkflowScheduler_proofs ----------------------
(***************************************************************************)
(* Theorems about WorkflowScheduler, for every plan, any number of passes, *)
(* sessions and requests: its types; that a step whose row says running is *)
(* never left behind, neither by the pass that runs it nor by the requests *)
(* that interrupt it; and that no two agents work on one step.             *)
(***************************************************************************)
EXTENDS WorkflowScheduler, WellFoundedInduction, TLAPS

-----------------------------------------------------------------------------
(* The reducer *)

(* What the reducer derives is a status. *)
LEMMA DerivedStatus ==
  \A S : DeriveExecution(S) \in ExecStatus /\ DeriveSession(S) \in SessionState
BY DEF DeriveExecution, DeriveSession, ExecStatus, SessionState

(* synchronize_runtime_state validates the state of a session against the  *)
(* status of the execution, both derived from one reading of the steps:    *)
(* whatever the steps say, and whichever of them are the session's, the    *)
(* validation never refuses.                                               *)
THEOREM DerivedSessionIsAllowed ==
  ASSUME NEW S \in SUBSET StepStatus, NEW T \in SUBSET S
  PROVE  DeriveSession(T) \in SessionsUnder[DeriveExecution(S)]
<1>1. CASE S \subseteq {"Pending"}
  BY <1>1 DEF DeriveExecution, DeriveSession, SessionsUnder, CompletedLike,
              WaitingLike, FailedLike, SessionState
<1>2. CASE ~(S \subseteq {"Pending"}) /\ S \subseteq CompletedLike
  BY <1>2 DEF DeriveExecution, DeriveSession, SessionsUnder, CompletedLike,
              WaitingLike, FailedLike, SessionState
<1>3. CASE "Running" \in S
  BY <1>3 DEF DeriveExecution, DeriveSession, SessionsUnder, CompletedLike,
              WaitingLike, FailedLike, SessionState
<1>4. CASE /\ ~(S \subseteq {"Pending"}) /\ ~(S \subseteq CompletedLike)
           /\ "Running" \notin S
  BY <1>4 DEF DeriveExecution, DeriveSession, SessionsUnder, CompletedLike,
              WaitingLike, ReadyLike, FailedLike, SessionState
<1> QED  BY <1>1, <1>2, <1>3, <1>4

-----------------------------------------------------------------------------
(* The first step of a set, in display order, is one of the set. *)
LEMMA FirstIsOne ==
  ASSUME NEW S \in SUBSET Steps, S # {}
  PROVE  First(S) \in S
<1> DEFINE Below == {ss \in Nat \X Nat : ss[1] < ss[2]}
           T     == {Order[s] : s \in S}
<1>1. IsWellFoundedOn(Below, Nat)
  BY NatLessThanWellFounded, Zenon DEF OpToRel
<1>2. T \subseteq Nat /\ T # {}
  BY StepsAssumption
<1>3. PICK x \in T : \A y \in T : ~(<<y, x>> \in Below)
  BY <1>1, <1>2, WFMin
<1>4. \A y \in T : x <= y
  <2>1. \A y \in T : ~(y < x)
    BY <1>2, <1>3
  <2>2. x \in Nat /\ (\A y \in T : y \in Nat)
    BY <1>2, <1>3
  <2> HIDE DEF T
  <2> QED  BY <2>1, <2>2
<1>5. PICK s \in S : \A t \in S : Order[s] <= Order[t]
  BY <1>4
<1> QED  BY <1>5 DEF First

-----------------------------------------------------------------------------
(* Types *)

LEMMA OffTypes ==
  Blank \in Table /\ PassOff \in PassRec /\ WorkOff \in WorkRec /\ UserOff \in UserRec
<1>1. Blank \in Table
  BY DEF Blank, Table, StepStatus
<1> QED  BY <1>1 DEF PassOff, PassRec, PassPcs, WorkOff, WorkRec, WorkPcs, UserOff,
                     UserRec, UserPcs, ExecStatus, StepStatus

(* What a synchronization reads and writes has its type. *)
LEMMA SyncTypes ==
  ASSUME TypeOK, NEW a, SyncWrite(a)
  PROVE  exec' \in ExecStatus /\ session' \in [Agents -> SessionState]
BY DerivedStatus DEF TypeOK, SyncWrite, Derived

LEMMA CandidatesAreSteps ==
  ASSUME NEW p \in Passes
  PROVE  Candidates(p) \subseteq Steps
<1> DEFINE ready == {s \in Steps : /\ pass[p].seen[s] = "Ready"
                                   /\ DepsDone(s, pass[p].seen)
                                   /\ session[AgentOf[s]] = "Idle"}
<1>1. ASSUME NEW s \in ready
      PROVE  First(ready \cap StepsOf(AgentOf[s])) \in Steps
  <2>1. s \in ready \cap StepsOf(AgentOf[s])
    BY <1>1 DEF StepsOf
  <2>2. /\ ready \cap StepsOf(AgentOf[s]) \in SUBSET Steps
        /\ ready \cap StepsOf(AgentOf[s]) # {}
    BY <2>1
  <2> HIDE DEF ready
  <2>3. First(ready \cap StepsOf(AgentOf[s])) \in ready \cap StepsOf(AgentOf[s])
    BY <2>2, FirstIsOne
  <2> QED  BY <2>2, <2>3
<1> QED  BY <1>1 DEF Candidates

(* The candidates of a selection were read ready or made so.               *)
LEMMA CandidatesAreReady ==
  ASSUME NEW p \in Passes, NEW s \in Candidates(p)
  PROVE  s \in Steps /\ pass[p].seen[s] = "Ready"
<1> DEFINE ready == {t \in Steps : /\ pass[p].seen[t] = "Ready"
                                   /\ DepsDone(t, pass[p].seen)
                                   /\ session[AgentOf[t]] = "Idle"}
<1>1. PICK t \in ready : s = First(ready \cap StepsOf(AgentOf[t]))
  BY DEF Candidates
<1>2. t \in ready \cap StepsOf(AgentOf[t])
  BY <1>1 DEF StepsOf
<1>3. ready \cap StepsOf(AgentOf[t]) \in SUBSET Steps
  OBVIOUS
<1>4. s \in ready \cap StepsOf(AgentOf[t])
  <2> HIDE DEF ready
  <2> QED  BY <1>1, <1>2, <1>3, FirstIsOne
<1>5. s \in ready
  BY <1>4
<1> QED  BY <1>5

(* Transitions lead to statuses. *)
LEMMA MoveTypes ==
  ASSUME NEW e \in ExecStatus, NEW from, NEW to, StepMayMove(e, from, to)
  PROVE  to \in StepStatus
<1>1. StepsUnder[e] \subseteq StepStatus
  BY DEF ExecStatus, StepsUnder, StepStatus, CompletedLike
<1> QED  BY <1>1 DEF StepMayMove

LEMMA StatusNames ==
  /\ {"Pending", "Ready", "Running", "Completed", "Failed", "Interrupted",
      "InterruptRequested", "Skipped", "WaitingInput", "WaitingReview"} \subseteq StepStatus
  /\ "Pending" \in ExecStatus /\ "syncing" \in UserPcs
BY DEF StepStatus, ExecStatus, UserPcs

(* What the type invariant needs to be inductive: a handler that is about  *)
(* to interrupt a step has one on its list, an item that is about to ask   *)
(* the user has parked, and next is set only around a synchronization.     *)
Aimed ==
  /\ \/ user.pc \in {"request", "cancel"}
     \/ user.next \in {"request", "cancel"}
     => user.todo # {}
  /\ user.pc \notin {"sync", "syncing"} => user.next = "off"

ParkedItem(w) ==
  /\ w.pc \in {"parked", "ask"} \/ w.next \in {"parked", "ask"} => w.out \in Parking
  /\ w.pc \notin {"sync", "syncing"} => w.next = "off"

Parked == \A o \in Owners, s \in Steps : ParkedItem(work[<<o, s>>])

Typed == TypeOK /\ Aimed /\ Parked

(* One action of a pass writes its own record, *)
LEMMA PassWrite ==
  ASSUME TypeOK, NEW p \in Passes, NEW r \in PassRec, SetPass(p, r)
  PROVE  pass' \in [Passes -> PassRec]
BY DEF TypeOK, SetPass

(* and one of a work item its own. *)
LEMMA WorkWrite ==
  ASSUME TypeOK, NEW o, NEW s, NEW r \in WorkRec, SetWork(o, s, r)
  PROVE  work' \in [Items -> WorkRec]
BY DEF TypeOK, SetWork

LEMMA PassTypes ==
  ASSUME Typed, NEW p \in Passes, PassActs(p)
  PROVE  TypeOK'
<1>0. /\ pass[p] \in PassRec /\ step \in Table /\ exec \in ExecStatus
      /\ work \in [Items -> WorkRec]
  BY DEF Typed, TypeOK
<1>1. CASE PassBegins(p)
  <2>1. [pass[p] EXCEPT !.pc = "read"] \in PassRec
    BY <1>0, <1>1 DEF PassRec, PassPcs
  <2> QED  BY <1>0, <1>1, <2>1, PassWrite DEF Typed, TypeOK, PassBegins, rows
<1>2. CASE PassReads(p)
  <2>1. [pass[p] EXCEPT !.pc = "sync", !.next = "promote", !.seen = step] \in PassRec
    BY <1>0, <1>2 DEF PassRec, PassPcs
  <2> QED  BY <1>0, <1>2, <2>1, PassWrite DEF Typed, TypeOK, PassReads, rows
<1>3. CASE PassPromotes(p)
  <2>1. \A s : [pass[p] EXCEPT !.seen[s] = "Ready"] \in PassRec
    BY <1>0, <1>3 DEF PassRec, Table, StepStatus
  <2> QED  BY <1>0, <1>3, <2>1, PassWrite DEF Typed, TypeOK, PassPromotes, rows,
              SetStep, Table, StepStatus
<1>4. CASE PassSelects(p)
  <2>1. \A pc \in PassPcs : [pass[p] EXCEPT !.pc = pc, !.batch = Candidates(p)] \in PassRec
    BY <1>0, <1>4, CandidatesAreSteps DEF PassRec
  <2> QED  BY <1>0, <1>4, <2>1, PassWrite DEF Typed, TypeOK, PassSelects, rows, PassPcs, ExecStatus
<1>5. CASE PassLaunches(p)
  <2>1. /\ \A e \in ExecStatus : [pass[p] EXCEPT !.pc = "join", !.exec = e, !.seen = Blank] \in PassRec
        /\ \A e \in ExecStatus : [WorkOff EXCEPT !.pc = "claim", !.exec = e] \in WorkRec
        /\ pass[p].exec \in ExecStatus
    BY <1>0, <1>5, OffTypes DEF PassRec, PassPcs, WorkRec, WorkPcs
  <2> QED  BY <1>0, <1>5, <2>1, PassWrite DEF Typed, TypeOK, PassLaunches, rows
<1>6. CASE PassJoins(p)
  <2>1. /\ PassOff \in PassRec /\ WorkOff \in WorkRec
        /\ \A b \in BOOLEAN : [pass[p] EXCEPT !.pc = "sync", !.next = "judge", !.batch = {},
                                           !.halt = b] \in PassRec
    BY <1>0, <1>6, OffTypes DEF PassRec, PassPcs
  <2> QED  BY <1>0, <1>6, <2>1, PassWrite DEF Typed, TypeOK, PassJoins, rows
<1>7. CASE PassJudges(p)
  <2>1. PassOff \in PassRec /\ [PassOff EXCEPT !.pc = "read"] \in PassRec
    BY <1>0, <1>7, OffTypes DEF PassRec, PassPcs
  <2> QED  BY <1>0, <1>7, <2>1, PassWrite DEF Typed, TypeOK, PassJudges, rows
<1>8. CASE PassSyncs(p)
  <2>1. SyncRead(pass[p], pass[p].next) \in PassRec /\ SyncRead(pass[p], "select") \in PassRec
        /\ SyncRead(pass[p], "off") \in PassRec
    BY <1>0, <1>8 DEF SyncRead, PassRec, PassPcs
  <2> QED  BY <1>0, <1>8, <2>1, PassWrite DEF Typed, TypeOK, PassSyncs, rows
<1>9. CASE PassSynced(p)
  <2>1. /\ exec' \in ExecStatus /\ session' \in [Agents -> SessionState] /\ PassOff \in PassRec
        /\ [Synced(pass[p]) EXCEPT !.exec = exec'] \in PassRec
    BY <1>0, <1>9, OffTypes, SyncTypes DEF Typed, PassSynced, Synced, PassRec, PassPcs, ExecStatus
  <2> QED  BY <1>0, <1>9, <2>1, PassWrite DEF Typed, TypeOK, PassSynced, rows
<1>10. CASE PassEnds(p)
  <2>1. PassOff \in PassRec
    BY <1>0, <1>10, OffTypes
  <2> QED  BY <1>0, <1>10, <2>1, PassWrite DEF Typed, TypeOK, PassEnds, rows
<1> QED  BY <1>1, <1>2, <1>3, <1>4, <1>5, <1>6, <1>7, <1>8, <1>9, <1>10 DEF PassActs

LEMMA ItemTypes ==
  ASSUME Typed, NEW o \in Owners, NEW s \in Steps, ItemActs(o, s)
  PROVE  TypeOK'
<1>0. /\ work[<<o, s>>] \in WorkRec /\ step \in Table /\ step[s] \in StepStatus
      /\ exec \in ExecStatus /\ attempt[s] \in Nat
  BY DEF Typed, TypeOK, Items, Table
<1>1. CASE Claims(o, s)
  <2>1. /\ [work[<<o, s>>] EXCEPT !.pc = "sync", !.next = "run", !.seen = "Running",
                                !.attempt = attempt[s]] \in WorkRec
        /\ [work[<<o, s>>] EXCEPT !.pc = "done", !.out = "Completed"] \in WorkRec
    BY <1>0, <1>1, StatusNames DEF WorkRec, WorkPcs
  <2> QED  BY <1>0, <1>1, <2>1, WorkWrite DEF Typed, TypeOK, Claims, rows, SetStep,
              Table, StepStatus
<1>2. CASE AgentEnds(o, s)
  <2>1. \A pc \in WorkPcs, out \in StepStatus : [work[<<o, s>>] EXCEPT !.pc = pc, !.out = out] \in WorkRec
    BY <1>0, <1>2 DEF WorkRec
  <2> QED  BY <1>0, <1>2, <2>1, WorkWrite DEF Typed, TypeOK, AgentEnds, rows,
              Parking, StepStatus, WorkPcs
<1>3. CASE AgentFailsToStart(o, s)
  <2>1. [work[<<o, s>>] EXCEPT !.pc = "record", !.out = "Failed"] \in WorkRec
    BY <1>0, <1>3, StatusNames DEF WorkRec, WorkPcs
  <2> QED  BY <1>0, <1>3, <2>1, WorkWrite DEF Typed, TypeOK, AgentFailsToStart, rows
<1>4. CASE Records(o, s)
  <2>1. [work[<<o, s>>] EXCEPT !.pc = "write", !.seen = step[s]] \in WorkRec
    BY <1>0, <1>4 DEF WorkRec, WorkPcs
  <2> QED  BY <1>0, <1>4, <2>1, WorkWrite DEF Typed, TypeOK, Records, rows
<1>5. CASE Settles(o, s)
  <2>1. /\ \A next \in WorkPcs : [work[<<o, s>>] EXCEPT !.pc = "sync", !.next = next] \in WorkRec
        /\ work[<<o, s>>].out \in StepStatus
    BY <1>0, <1>5, MoveTypes DEF Settles, WorkRec, WorkPcs
  <2> QED  BY <1>0, <1>5, <2>1, WorkWrite DEF Typed, TypeOK, Settles, rows, SetStep, Table, WorkPcs
<1>6. CASE Acknowledges(o, s)
  <2>1. /\ [work[<<o, s>>] EXCEPT !.pc = "write", !.seen = step[s]] \in WorkRec
        /\ [work[<<o, s>>] EXCEPT !.pc = "done"] \in WorkRec
    BY <1>0, <1>6 DEF WorkRec, WorkPcs
  <2> QED  BY <1>0, <1>6, <2>1, WorkWrite DEF Typed, TypeOK, Acknowledges, rows
<1>7. CASE Errs(o, s)
  <2>1. /\ [work[<<o, s>>] EXCEPT !.pc = "done", !.out = "Error", !.next = "off",
                                !.snapExec = "Pending", !.snapStep = Blank] \in WorkRec
        /\ [work[<<o, s>>] EXCEPT !.pc = "guard", !.guarded = TRUE, !.next = "off",
                                !.snapExec = "Pending", !.snapStep = Blank] \in WorkRec
    BY <1>0, <1>7, OffTypes, StatusNames DEF WorkRec, WorkPcs
  <2> QED  BY <1>0, <1>7, <2>1, WorkWrite DEF Typed, TypeOK, Errs, rows
<1>8. CASE Guards(o, s)
  <2>1. /\ \A out \in StepStatus : [work[<<o, s>>] EXCEPT !.pc = "write", !.seen = step[s],
                                                        !.out = out] \in WorkRec
        /\ \A out \in StepStatus \cup {"Error"} : [work[<<o, s>>] EXCEPT !.pc = "done",
                                                                  !.out = out] \in WorkRec
    BY <1>0, <1>8 DEF WorkRec, WorkPcs
  <2> QED  BY <1>0, <1>8, <2>1, WorkWrite DEF Typed, TypeOK, Guards, rows, StepStatus
<1>9. CASE Asks(o, s)
  <2>1. /\ [work[<<o, s>>] EXCEPT !.pc = "done"] \in WorkRec
        /\ work[<<o, s>>].pc = "ask" => work[<<o, s>>].out \in Parking
    BY <1>0, <1>9 DEF Typed, Parked, ParkedItem, WorkRec, WorkPcs
  <2> QED  BY <1>0, <1>9, <2>1, WorkWrite DEF Typed, TypeOK, Asks, rows
<1>10. CASE WorkSyncs(o, s)
  <2>1. SyncRead(work[<<o, s>>], "ask") \in WorkRec /\ SyncRead(work[<<o, s>>], work[<<o, s>>].next) \in WorkRec
    BY <1>0, <1>10 DEF SyncRead, WorkRec, WorkPcs
  <2> QED  BY <1>0, <1>10, <2>1, WorkWrite DEF Typed, TypeOK, WorkSyncs, rows
<1>11. CASE WorkSynced(o, s)
  <2>1. WorkOff \in WorkRec /\ Synced(work[<<o, s>>]) \in WorkRec
    BY <1>0, OffTypes, StatusNames DEF Synced, WorkRec, WorkPcs
  <2>2. exec' \in ExecStatus /\ session' \in [Agents -> SessionState]
    BY <1>11, SyncTypes DEF Typed, TypeOK, WorkSynced
  <2> QED  BY <1>0, <1>11, <2>1, <2>2, WorkWrite DEF Typed, TypeOK, WorkSynced, rows
<1> QED  BY <1>1, <1>2, <1>3, <1>4, <1>5, <1>6, <1>7, <1>8, <1>9, <1>10, <1>11 DEF ItemActs

LEMMA HandlerTypes ==
  ASSUME Typed, HandlerActs
  PROVE  TypeOK'
<1>0. user \in UserRec /\ step \in Table /\ exec \in ExecStatus
  BY DEF Typed, TypeOK
<1>1. CASE UserSweeps
  <2>1. [user EXCEPT !.pc = "request"] \in UserRec /\ First(user.todo) \in Steps
    BY <1>0, <1>1, OffTypes, FirstIsOne DEF UserRec, UserPcs, UserSweeps
  <2>2. cancels' \subseteq Steps \X Nat
    BY <1>1, <2>1 DEF Typed, TypeOK, UserSweeps
  <2>3. user' \in UserRec
    BY <1>1, <2>1 DEF UserSweeps
  <2>4. UNCHANGED <<rows, pass, work, wakes, budget>>
    BY <1>1 DEF UserSweeps, UserLess
  <2> QED  BY <2>2, <2>3, <2>4 DEF Typed, TypeOK, rows
<1>2. CASE UserRequests
  <2>1. \A n \in UserPcs : [user EXCEPT !.pc = "sync", !.next = n] \in UserRec
    <3>1. "sync" \in UserPcs
      BY DEF UserPcs
    <3> QED  BY <1>0, <3>1 DEF UserRec
  <2>2. user' \in UserRec
    BY <1>2, <2>1 DEF UserRequests, UserPcs
  <2>3. step' \in Table
    BY <1>0, <1>2 DEF UserRequests, SetStep, Table, StepStatus
  <2>4. UNCHANGED <<exec, stopped, attempt, session, asks, cancels, pass, work, wakes, budget>>
    BY <1>2 DEF UserRequests, UserLess
  <2> QED  BY <2>2, <2>3, <2>4 DEF Typed, TypeOK
<1>3. CASE UserSettles
  <2>1. ASSUME NEW n \in UserPcs, NEW d
        PROVE  [user EXCEPT !.pc = "sync", !.todo = @ \ {d}, !.next = n] \in UserRec
    <3>1. "sync" \in UserPcs /\ user.todo \ {d} \in SUBSET Steps
      BY <1>0 DEF UserRec, UserPcs
    <3> QED  BY <1>0, <3>1 DEF UserRec
  <2>2. user' \in UserRec
    BY <1>3, <2>1 DEF UserSettles, UserPcs
  <2>3. step' \in Table
    BY <1>0, <1>3 DEF UserSettles, SetStep, Table, StepStatus
  <2>4. UNCHANGED <<exec, stopped, attempt, session, asks, cancels, pass, work, wakes, budget>>
    BY <1>3 DEF UserSettles, UserLess
  <2> QED  BY <2>2, <2>3, <2>4 DEF Typed, TypeOK
<1>4. CASE StopEnds
  <2>1. UserOff \in UserRec
    BY <1>0, <1>4, OffTypes DEF UserRec, UserPcs
  <2> QED  BY <1>0, <1>4, <2>1 DEF Typed, TypeOK, StopEnds, rows, UserLess, ExecStatus
<1>5. CASE PauseEnds
  <2>1. UserOff \in UserRec
    BY <1>0, <1>5, OffTypes DEF UserRec, UserPcs
  <2> QED  BY <1>0, <1>5, <2>1 DEF Typed, TypeOK, PauseEnds, rows, UserLess, ExecStatus
<1>6. CASE InterruptCancels
  <2>1. First(user.todo) \in Steps /\ UserOff \in UserRec /\ [user EXCEPT !.pc = "settle"] \in UserRec
    BY <1>0, <1>6, OffTypes, FirstIsOne DEF UserRec, UserPcs, InterruptCancels, Typed, Aimed
  <2> QED  BY <1>0, <1>6, <2>1 DEF Typed, TypeOK, InterruptCancels, rows, UserLess
<1>7. CASE Skips
  <2>1. UserOff \in UserRec /\ [user EXCEPT !.pc = "sync", !.next = "again"] \in UserRec
    BY <1>0, <1>7, OffTypes DEF UserRec, UserPcs
  <2>2. user' \in UserRec
    BY <1>7, <2>1 DEF Skips
  <2>3. step' \in Table
    BY <1>0, <1>7 DEF Skips, SetStep, Table, StepStatus
  <2>4. UNCHANGED <<exec, stopped, attempt, session, asks, cancels, pass, work, wakes, budget>>
    BY <1>7 DEF Skips, UserLess
  <2> QED  BY <2>2, <2>3, <2>4 DEF Typed, TypeOK
<1>8. CASE RetryPrepares
  <2>1. [user EXCEPT !.pc = "ready", !.seen = step] \in UserRec
    BY <1>0 DEF UserRec, UserPcs
  <2>2. attempt' \in [Steps -> Nat]
    <3>1. attempt \in [Steps -> Nat]
      BY DEF Typed, TypeOK
    <3>2. \A t : [attempt EXCEPT ![t] = attempt[t] + 1] \in [Steps -> Nat]
      <4>1. \A x \in Steps : attempt[x] + 1 \in Nat
        BY <3>1
      <4> QED  BY <3>1, <4>1
    <3> QED  BY <1>8, <3>2 DEF RetryPrepares
  <2> QED  BY <1>0, <1>8, <2>1, <2>2 DEF Typed, TypeOK, RetryPrepares, rows, UserLess
<1>9. CASE UserReadies
  <2>1. \A n \in UserPcs : [user EXCEPT !.pc = "sync", !.next = n] \in UserRec
    <3>1. "sync" \in UserPcs
      BY DEF UserPcs
    <3> QED  BY <1>0, <3>1 DEF UserRec
  <2>2. user' \in UserRec
    BY <1>9, <2>1 DEF UserReadies, UserPcs
  <2>3. step' \in Table
    BY <1>0, <1>9 DEF UserReadies, SetStep, Table, StepStatus
  <2>4. UNCHANGED <<exec, stopped, attempt, session, asks, cancels, pass, work, wakes, budget>>
    BY <1>9 DEF UserReadies, UserLess
  <2> QED  BY <2>2, <2>3, <2>4 DEF Typed, TypeOK
<1>10. CASE RetryActivates
  <2>1. [user EXCEPT !.pc = "reload"] \in UserRec
    BY <1>0, <1>10 DEF UserRec, UserPcs
  <2> QED  BY <1>0, <1>10, <2>1 DEF Typed, TypeOK, RetryActivates, rows, UserLess, ExecStatus
<1>11. CASE RetrySpawns
  <2>1. UserOff \in UserRec /\ (\A e \in ExecStatus : [WorkOff EXCEPT !.pc = "claim", !.exec = e] \in WorkRec)
        /\ user.exec \in ExecStatus
    BY <1>0, <1>11, OffTypes DEF UserRec, UserPcs, WorkRec, WorkPcs
  <2> QED  BY <1>0, <1>11, <2>1, WorkWrite DEF Typed, TypeOK, RetrySpawns, rows, UserLess
<1>12. CASE ResumeRevives
  <2>1. \A d : [user EXCEPT !.pc = "sync", !.next = "revive", !.todo = @ \ {d}] \in UserRec
    BY <1>0, <1>12 DEF UserRec, UserPcs
  <2> QED  BY <1>0, <1>12, <2>1 DEF Typed, TypeOK, ResumeRevives, rows, UserLess,
              SetStep, Table, StepStatus
<1>13. CASE AnswerRecords
  <2>1. [user EXCEPT !.pc = "fail", !.seen = step] \in UserRec
    BY <1>0, <1>13 DEF UserRec, UserPcs
  <2> QED  BY <1>0, <1>13, <2>1 DEF Typed, TypeOK, AnswerRecords, rows, UserLess
<1>14. CASE AnswerFails
  <2>1. [user EXCEPT !.pc = "sync", !.next = "again"] \in UserRec
    BY <1>0, <1>14 DEF UserRec, UserPcs
  <2> QED  BY <1>0, <1>14, <2>1 DEF Typed, TypeOK, AnswerFails, rows, UserLess,
              SetStep, Table, StepStatus
<1>15. CASE CompleteHolds
  <2>1. [user EXCEPT !.pc = "force"] \in UserRec
    BY <1>0, <1>15 DEF UserRec, UserPcs
  <2> QED  BY <1>0, <1>15, <2>1 DEF Typed, TypeOK, CompleteHolds, rows, UserLess, ExecStatus
<1>16. CASE CompleteForces
  <2>1. UserOff \in UserRec /\ (\A d : [user EXCEPT !.todo = @ \ {d}] \in UserRec)
    BY <1>0, <1>16, OffTypes DEF UserRec, UserPcs
  <2> QED  BY <1>0, <1>16, <2>1 DEF Typed, TypeOK, CompleteForces, rows, UserLess,
              SetStep, Table, StepStatus
<1>17. CASE CompleteCloses
  <2>1. [user EXCEPT !.pc = "finish"] \in UserRec
    BY <1>0, <1>17 DEF UserRec, UserPcs
  <2> QED  BY <1>0, <1>17, <2>1 DEF Typed, TypeOK, CompleteCloses, rows, UserLess, SessionState
<1>18. CASE CompleteEnds
  <2>1. UserOff \in UserRec
    BY <1>0, <1>18, OffTypes DEF UserRec, UserPcs
  <2> QED  BY <1>0, <1>18, <2>1 DEF Typed, TypeOK, CompleteEnds, rows, UserLess, ExecStatus
<1>19. CASE AcceptEnds
  <2>1. UserOff \in UserRec
    BY <1>0, <1>19, OffTypes DEF UserRec, UserPcs
  <2> QED  BY <1>0, <1>19, <2>1 DEF Typed, TypeOK, AcceptEnds, rows, UserLess, ExecStatus
<1>20. CASE UserSyncs
  <2>1. \A n \in UserPcs : SyncRead(user, n) \in UserRec
    BY <1>0, <1>20, StatusNames DEF UserRec, SyncRead
  <2> QED  BY <1>0, <1>20, <2>1 DEF Typed, TypeOK, UserSyncs, rows, UserLess, UserRec, UserPcs
<1>21. CASE UserSynced
  <2>1. /\ exec' \in ExecStatus /\ session' \in [Agents -> SessionState] /\ UserOff \in UserRec
        /\ \A e \in ExecStatus : [Synced(user) EXCEPT !.exec = e] \in UserRec
        /\ user.exec \in ExecStatus /\ Synced(user).exec = user.exec
    BY <1>0, <1>21, OffTypes, SyncTypes, StatusNames DEF UserRec, UserPcs, Typed, UserSynced, Synced
  <2> QED  BY <1>0, <1>21, <2>1 DEF Typed, TypeOK, UserSynced, rows, UserLess
<1>22. CASE UserWakes
  <2>1. UserOff \in UserRec
    BY <1>0, <1>22, OffTypes DEF UserRec, UserPcs
  <2> QED  BY <1>0, <1>22, <2>1 DEF Typed, TypeOK, UserWakes, rows, UserLess
<1>23. CASE UserErrs
  <2>1. UserOff \in UserRec
    BY <1>0, <1>23, OffTypes DEF UserRec, UserPcs
  <2> QED  BY <1>0, <1>23, <2>1 DEF Typed, TypeOK, UserErrs, rows, UserLess
<1> QED  BY <1>1, <1>2, <1>3, <1>4, <1>5, <1>6, <1>7, <1>8, <1>9, <1>10, <1>11,
            <1>12, <1>13, <1>14, <1>15, <1>16, <1>17, <1>18, <1>19, <1>20, <1>21,
            <1>22, <1>23 DEF HandlerActs

LEMMA BeginTypes ==
  ASSUME TypeOK, NEW act \in Acts, NEW pc \in UserPcs, NEW todo \in SUBSET Steps,
         Begins(act, pc, todo)
  PROVE  /\ user' \in UserRec
         /\ budget' \in [requests : 0..MaxRequests, crashes : 0..Crashes]
<1>1. user' \in UserRec
  <2>1. UserOff \in UserRec /\ exec \in ExecStatus /\ step \in Table
    BY OffTypes DEF TypeOK
  <2> QED  BY <2>1 DEF Begins, UserRec
<1>2. budget' \in [requests : 0..MaxRequests, crashes : 0..Crashes]
  BY BoundsAssumption DEF TypeOK, Begins
<1> QED  BY <1>1, <1>2

LEMMA RequestTypes ==
  ASSUME Typed, Arrives
  PROVE  TypeOK'
<1> DEFINE Goal == /\ user' \in UserRec
                  /\ budget' \in [requests : 0..MaxRequests, crashes : 0..Crashes]
<1>0. ASSUME NEW act \in Acts, NEW pc \in UserPcs, NEW todo \in SUBSET Steps,
             Begins(act, pc, todo)
      PROVE  Goal
  BY <1>0, BeginTypes DEF Typed
<1> HIDE DEF Goal
<1>1. CASE StopBegins
  <2>1. PICK todo \in SUBSET Steps : Begins("stop", "sweep", todo)
    BY <1>1 DEF StopBegins
  <2>2. Goal
    BY <2>1, <1>0 DEF Acts, UserPcs
  <2> QED  BY <1>1, <2>2 DEF Goal, StopBegins, Typed, TypeOK, rows
<1>2. CASE PauseBegins
  <2>1. PICK todo \in SUBSET Steps : Begins("pause", "sweep", todo)
    BY <1>2 DEF PauseBegins
  <2>2. Goal
    BY <2>1, <1>0 DEF Acts, UserPcs
  <2> QED  BY <1>2, <2>2 DEF Goal, PauseBegins, Typed, TypeOK, rows
<1>3. CASE ResumeBegins
  <2>1. PICK todo \in SUBSET Steps : Begins("resume", "revive", todo)
    BY <1>3 DEF ResumeBegins
  <2>2. Goal
    BY <2>1, <1>0 DEF Acts, UserPcs
  <2> QED  BY <1>3, <2>2 DEF Goal, ResumeBegins, Typed, TypeOK, rows
<1>4. CASE CompleteBegins
  <2>1. PICK todo \in SUBSET Steps : Begins("complete", "hold", todo)
    BY <1>4 DEF CompleteBegins
  <2>2. Goal
    BY <2>1, <1>0 DEF Acts, UserPcs
  <2> QED  BY <1>4, <2>2 DEF Goal, CompleteBegins, Typed, TypeOK, rows
<1>5. CASE AcceptBegins
  <2>1. PICK todo \in SUBSET Steps : Begins("accept", "accept", todo)
    BY <1>5 DEF AcceptBegins
  <2>2. Goal
    BY <2>1, <1>0 DEF Acts, UserPcs
  <2> QED  BY <1>5, <2>2 DEF Goal, AcceptBegins, Typed, TypeOK, rows
<1>6. ASSUME NEW s \in Steps, InterruptBegins(s)
      PROVE  TypeOK'
  <2>1. PICK todo \in SUBSET Steps : Begins("interrupt", "request", todo)
    BY <1>6 DEF InterruptBegins
  <2>2. Goal
    BY <2>1, <1>0 DEF Acts, UserPcs
  <2> QED  BY <1>6, <2>2 DEF Goal, InterruptBegins, Typed, TypeOK, rows
<1>7. ASSUME NEW s \in Steps, SkipBegins(s)
      PROVE  TypeOK'
  <2>1. PICK todo \in SUBSET Steps : Begins("skip", "skip", todo)
    BY <1>7 DEF SkipBegins
  <2>2. Goal
    BY <2>1, <1>0 DEF Acts, UserPcs
  <2> QED  BY <1>7, <2>2 DEF Goal, SkipBegins, Typed, TypeOK, rows
<1>8. ASSUME NEW s \in Steps, RetryBegins(s)
      PROVE  TypeOK'
  <2>1. PICK todo \in SUBSET Steps : Begins("retry", "prepare", todo)
    BY <1>8 DEF RetryBegins
  <2>2. Goal
    BY <2>1, <1>0 DEF Acts, UserPcs
  <2> QED  BY <1>8, <2>2 DEF Goal, RetryBegins, Typed, TypeOK, rows
<1>9. ASSUME NEW s \in Steps, AnswerBegins(s)
      PROVE  TypeOK'
  <2>1. PICK act \in {"approve", "reject"}, pc \in {"ready", "record"} : Begins(act, pc, {s})
    BY <1>9 DEF AnswerBegins
  <2>2. Goal
    BY <2>1, <1>0 DEF Acts, UserPcs
  <2> QED  BY <1>9, <2>2 DEF Goal, AnswerBegins, Typed, TypeOK, rows
<1> QED  BY <1>1, <1>2, <1>3, <1>4, <1>5, <1>6, <1>7, <1>8, <1>9 DEF Arrives

LEMMA RestartTypes ==
  ASSUME Typed, Restarts
  PROVE  TypeOK'
<1>1. exec' \in ExecStatus /\ session' \in [Agents -> SessionState] /\ step' \in Table
  <2>1. Recovered \in Table
    BY StatusNames DEF Typed, TypeOK, Recovered, Table
  <2> QED  BY <2>1, DerivedStatus DEF Typed, TypeOK, Restarts, ExecStatus
<1>2. budget' \in [requests : 0..MaxRequests, crashes : 0..Crashes]
  BY BoundsAssumption DEF Typed, TypeOK, Restarts
<1> QED  BY <1>1, <1>2, OffTypes DEF Typed, TypeOK, Restarts

LEMMA ReturnTypes ==
  ASSUME Typed, NEW s \in Steps, RetryReturns(s)
  PROVE  TypeOK'
<1>1. work[<<Retry, s>>] \in WorkRec
  BY DEF Typed, TypeOK, Items, Owners
<1>2. /\ WorkOff \in WorkRec
      /\ [WorkOff EXCEPT !.pc = "sync", !.out = work[<<Retry, s>>].out] \in WorkRec
  BY <1>1, OffTypes DEF WorkRec, WorkPcs
<1> QED  BY <1>2, WorkWrite DEF Typed, TypeOK, RetryReturns, rows

-----------------------------------------------------------------------------
(* Frames: what an action of one actor leaves alone *)

LEMMA PassFrame ==
  ASSUME NEW p \in Passes, PassActs(p)
  PROVE  /\ UNCHANGED <<user, cancels, budget>>
         /\ \A q \in Passes \ {p} : pass'[q] = pass[q]
         /\ PassLaunches(p) \/ PassJoins(p) \/ UNCHANGED work
<1> USE DEF rows, SetPass
<1>1. CASE PassBegins(p)
  BY <1>1 DEF PassBegins
<1>2. CASE PassReads(p)
  BY <1>2 DEF PassReads
<1>3. CASE PassPromotes(p)
  BY <1>3 DEF PassPromotes
<1>4. CASE PassSelects(p)
  BY <1>4 DEF PassSelects
<1>5. CASE PassLaunches(p)
  BY <1>5 DEF PassLaunches
<1>6. CASE PassJoins(p)
  BY <1>6 DEF PassJoins
<1>7. CASE PassJudges(p)
  BY <1>7 DEF PassJudges
<1>8. CASE PassSyncs(p)
  BY <1>8 DEF PassSyncs
<1>9. CASE PassSynced(p)
  BY <1>9 DEF PassSynced
<1>10. CASE PassEnds(p)
  BY <1>10 DEF PassEnds
<1> QED  BY <1>1, <1>2, <1>3, <1>4, <1>5, <1>6, <1>7, <1>8, <1>9, <1>10 DEF PassActs

LEMMA ItemFrame ==
  ASSUME NEW o \in Owners, NEW s \in Steps, ItemActs(o, s) \/ (o = Retry /\ RetryReturns(s))
  PROVE  /\ UNCHANGED <<user, pass, budget>>
         /\ \A w \in Items \ {<<o, s>>} : work'[w] = work[w]
<1> USE DEF rows, SetWork
<1>1. CASE Claims(o, s)
  <2>1. PICK r : work' = [work EXCEPT ![<<o, s>>] = r]
    BY <1>1 DEF Claims
  <2> QED  BY <1>1, <2>1 DEF Claims
<1>2. CASE AgentEnds(o, s)
  <2>1. PICK r : work' = [work EXCEPT ![<<o, s>>] = r]
    BY <1>2 DEF AgentEnds
  <2>2. UNCHANGED <<user, pass, budget>>
    BY <1>2 DEF AgentEnds
  <2> QED  BY <2>1, <2>2
<1>3. CASE AgentFailsToStart(o, s)
  BY <1>3 DEF AgentFailsToStart
<1>4. CASE Records(o, s)
  BY <1>4 DEF Records
<1>5. CASE Settles(o, s)
  BY <1>5 DEF Settles
<1>6. CASE Acknowledges(o, s)
  BY <1>6 DEF Acknowledges
<1>7. CASE Errs(o, s)
  BY <1>7 DEF Errs
<1>8. CASE Guards(o, s)
  BY <1>8 DEF Guards
<1>9. CASE Asks(o, s)
  BY <1>9 DEF Asks
<1>10. CASE WorkSyncs(o, s)
  BY <1>10 DEF WorkSyncs
<1>11. CASE WorkSynced(o, s)
  BY <1>11 DEF WorkSynced
<1>12. CASE o = Retry /\ RetryReturns(s)
  BY <1>12 DEF RetryReturns
<1> QED  BY <1>1, <1>2, <1>3, <1>4, <1>5, <1>6, <1>7, <1>8, <1>9, <1>10, <1>11, <1>12 DEF ItemActs

LEMMA HandlerFrame ==
  ASSUME HandlerActs
  PROVE  /\ UNCHANGED <<pass, budget>>
         /\ RetrySpawns \/ UNCHANGED work
<1> USE DEF rows, UserLess
<1>1. CASE UserSweeps
  BY <1>1 DEF UserSweeps
<1>2. CASE UserRequests
  BY <1>2 DEF UserRequests
<1>3. CASE UserSettles
  BY <1>3 DEF UserSettles
<1>4. CASE StopEnds
  BY <1>4 DEF StopEnds
<1>5. CASE PauseEnds
  BY <1>5 DEF PauseEnds
<1>6. CASE InterruptCancels
  BY <1>6 DEF InterruptCancels
<1>7. CASE Skips
  BY <1>7 DEF Skips
<1>8. CASE RetryPrepares
  BY <1>8 DEF RetryPrepares
<1>9. CASE UserReadies
  BY <1>9 DEF UserReadies
<1>10. CASE RetryActivates
  BY <1>10 DEF RetryActivates
<1>11. CASE RetrySpawns
  BY <1>11 DEF RetrySpawns
<1>12. CASE ResumeRevives
  BY <1>12 DEF ResumeRevives
<1>13. CASE AnswerRecords
  BY <1>13 DEF AnswerRecords
<1>14. CASE AnswerFails
  BY <1>14 DEF AnswerFails
<1>15. CASE CompleteHolds
  BY <1>15 DEF CompleteHolds
<1>16. CASE CompleteForces
  BY <1>16 DEF CompleteForces
<1>17. CASE CompleteCloses
  BY <1>17 DEF CompleteCloses
<1>18. CASE CompleteEnds
  BY <1>18 DEF CompleteEnds
<1>19. CASE AcceptEnds
  BY <1>19 DEF AcceptEnds
<1>20. CASE UserSyncs
  BY <1>20 DEF UserSyncs
<1>21. CASE UserSynced
  BY <1>21 DEF UserSynced
<1>22. CASE UserWakes
  BY <1>22 DEF UserWakes
<1>23. CASE UserErrs
  BY <1>23 DEF UserErrs
<1> QED  BY <1>1, <1>2, <1>3, <1>4, <1>5, <1>6, <1>7, <1>8, <1>9, <1>10, <1>11,
            <1>12, <1>13, <1>14, <1>15, <1>16, <1>17, <1>18, <1>19, <1>20, <1>21,
            <1>22, <1>23 DEF HandlerActs

LEMMA RequestFrame ==
  ASSUME Arrives
  PROVE  UNCHANGED <<pass, work>>
BY DEF Arrives, StopBegins, PauseBegins, ResumeBegins, CompleteBegins, AcceptBegins,
       InterruptBegins, SkipBegins, RetryBegins, AnswerBegins

-----------------------------------------------------------------------------
(* The type invariant *)

(* A work item that has just been launched *)
Launched(e) == [WorkOff EXCEPT !.pc = "claim", !.exec = e]

LEMMA PassBatch ==
  ASSUME Typed, NEW p \in Passes, PassLaunches(p) \/ PassJoins(p),
         NEW o \in Owners, NEW s \in Steps
  PROVE  \/ work'[<<o, s>>] = work[<<o, s>>]
         \/ o = p /\ work'[<<o, s>>] = WorkOff
         \/ o = p /\ \E e : work'[<<o, s>>] = Launched(e)
<1>1. <<o, s>> \in Items /\ <<o, s>>[1] = o /\ <<o, s>>[2] = s
  BY DEF Items
<1>2. CASE PassLaunches(p)
  <2>1. PICK e : work' = [w \in Items |-> IF w[1] = p /\ w[2] \in pass[p].batch
                                         THEN Launched(e) ELSE work[w]]
    BY <1>2 DEF PassLaunches, Launched
  <2>2. work'[<<o, s>>] = IF o = p /\ s \in pass[p].batch
                          THEN Launched(e) ELSE work[<<o, s>>]
    BY <1>1, <2>1
  <2> QED  BY <2>2
<1>3. CASE PassJoins(p)
  <2>1. work' = [w \in Items |-> IF w[1] = p THEN WorkOff ELSE work[w]]
    BY <1>3 DEF PassJoins
  <2>2. work'[<<o, s>>] = IF o = p THEN WorkOff ELSE work[<<o, s>>]
    BY <1>1, <2>1
  <2> QED  BY <2>2
<1> QED  BY <1>2, <1>3

LEMMA AimedByHandlers ==
  ASSUME Typed, HandlerActs
  PROVE  Aimed'
<1>1. user \in UserRec /\ Aimed
  BY DEF Typed, TypeOK
<1> USE DEF Aimed, UserRec, UserOff, UserLess
<1>2. CASE UserSweeps
  BY <1>1, <1>2 DEF UserSweeps
<1>3. CASE UserRequests
  BY <1>1, <1>3 DEF UserRequests
<1>4. CASE UserSettles
  BY <1>1, <1>4 DEF UserSettles
<1>5. CASE StopEnds
  BY <1>1, <1>5 DEF StopEnds
<1>6. CASE PauseEnds
  BY <1>1, <1>6 DEF PauseEnds
<1>7. CASE InterruptCancels
  BY <1>1, <1>7 DEF InterruptCancels
<1>8. CASE Skips
  <2>1. user' = UserOff \/ user' = [user EXCEPT !.pc = "sync", !.next = "again"]
    BY <1>8 DEF Skips
  <2>2. CASE user' = UserOff
    BY <2>2
  <2>3. CASE user' # UserOff
    BY <1>1, <2>1, <2>3
  <2> QED  BY <2>2, <2>3
<1>9. CASE RetryPrepares
  BY <1>1, <1>9 DEF RetryPrepares
<1>10. CASE UserReadies
  BY <1>1, <1>10 DEF UserReadies
<1>11. CASE RetryActivates
  BY <1>1, <1>11 DEF RetryActivates
<1>12. CASE RetrySpawns
  BY <1>1, <1>12 DEF RetrySpawns
<1>13. CASE ResumeRevives
  BY <1>1, <1>13 DEF ResumeRevives
<1>14. CASE AnswerRecords
  BY <1>1, <1>14 DEF AnswerRecords
<1>15. CASE AnswerFails
  BY <1>1, <1>15 DEF AnswerFails
<1>16. CASE CompleteHolds
  BY <1>1, <1>16 DEF CompleteHolds
<1>17. CASE CompleteForces
  <2>1. /\ user.pc = "force"
        /\ user' = UserOff \/ \E d : user' = [user EXCEPT !.todo = @ \ {d}]
    BY <1>17 DEF CompleteForces
  <2>2. CASE user' = UserOff
    BY <2>2
  <2>3. CASE user' # UserOff
    BY <1>1, <2>1, <2>3
  <2> QED  BY <2>2, <2>3
<1>18. CASE CompleteCloses
  BY <1>1, <1>18 DEF CompleteCloses
<1>19. CASE CompleteEnds
  BY <1>1, <1>19 DEF CompleteEnds
<1>20. CASE AcceptEnds
  BY <1>1, <1>20 DEF AcceptEnds
<1>21. CASE UserSyncs
  BY <1>1, <1>21 DEF UserSyncs, SyncRead
<1>22. CASE UserSynced
  <2>1. /\ user.pc = "syncing"
        /\ user' = UserOff \/ \E e : user' = [Synced(user) EXCEPT !.exec = e]
    BY <1>22 DEF UserSynced
  <2>2. CASE user' = UserOff
    BY <2>2
  <2>3. CASE user' # UserOff
    BY <1>1, <2>1, <2>3 DEF Synced
  <2> QED  BY <2>2, <2>3
<1>23. CASE UserWakes
  BY <1>1, <1>23 DEF UserWakes
<1>24. CASE UserErrs
  BY <1>1, <1>24 DEF UserErrs
<1> QED  BY <1>2, <1>3, <1>4, <1>5, <1>6, <1>7, <1>8, <1>9, <1>10, <1>11, <1>12,
            <1>13, <1>14, <1>15, <1>16, <1>17, <1>18, <1>19, <1>20, <1>21, <1>22,
            <1>23, <1>24 DEF HandlerActs

LEMMA AimedByRequests ==
  ASSUME Arrives
  PROVE  Aimed'
<1> USE DEF Aimed, Begins, UserOff
<1>1. CASE StopBegins
  BY <1>1 DEF StopBegins
<1>2. CASE PauseBegins
  BY <1>2 DEF PauseBegins
<1>3. CASE ResumeBegins
  BY <1>3 DEF ResumeBegins
<1>4. CASE CompleteBegins
  BY <1>4 DEF CompleteBegins
<1>5. CASE AcceptBegins
  BY <1>5 DEF AcceptBegins
<1>6. ASSUME NEW s \in Steps, InterruptBegins(s)
      PROVE  Aimed'
  BY <1>6 DEF InterruptBegins
<1>7. ASSUME NEW s \in Steps, SkipBegins(s)
      PROVE  Aimed'
  BY <1>7 DEF SkipBegins
<1>8. ASSUME NEW s \in Steps, RetryBegins(s)
      PROVE  Aimed'
  BY <1>8 DEF RetryBegins
<1>9. ASSUME NEW s \in Steps, AnswerBegins(s)
      PROVE  Aimed'
  BY <1>9 DEF AnswerBegins
<1> QED  BY <1>1, <1>2, <1>3, <1>4, <1>5, <1>6, <1>7, <1>8, <1>9 DEF Arrives

LEMMA ParkedByItems ==
  ASSUME Typed, NEW o \in Owners, NEW s \in Steps,
         ItemActs(o, s) \/ (o = Retry /\ RetryReturns(s))
  PROVE  Parked'
<1>1. <<o, s>> \in Items /\ work \in [Items -> WorkRec]
  BY DEF Typed, TypeOK, Items
<1>2. work[<<o, s>>] \in WorkRec /\ ParkedItem(work[<<o, s>>])
  BY <1>1 DEF Typed, Parked
<1>3. ParkedItem(work'[<<o, s>>])
  <2> USE <1>1, <1>2 DEF ParkedItem, WorkRec, SetWork
  <2>1. CASE Claims(o, s)
    <3>1. work[<<o, s>>].pc = "claim" /\ work[<<o, s>>].next = "off"
      BY <2>1 DEF Claims
    <3>2. PICK r : /\ work' = [work EXCEPT ![<<o, s>>] = r]
                   /\ <<r.pc, r.next>> \in {<<"sync", "run">>, <<"done", "off">>}
      BY <2>1 DEF Claims
    <3> QED  BY <3>1, <3>2
  <2>2. CASE AgentEnds(o, s)
    <3>1. /\ work[<<o, s>>].pc = "run"
          /\ \E pc \in {"record", "write", "acknowledge"} : \E out :
               work' = [work EXCEPT ![<<o, s>>] =
                          [work[<<o, s>>] EXCEPT !.pc = pc, !.out = out]]
      BY <2>2 DEF AgentEnds
    <3> QED  BY <3>1
  <2>3. CASE AgentFailsToStart(o, s)
    BY <2>3 DEF AgentFailsToStart
  <2>4. CASE Records(o, s)
    BY <2>4 DEF Records
  <2>5. CASE Settles(o, s)
    BY <2>5 DEF Settles
  <2>6. CASE Acknowledges(o, s)
    BY <2>6 DEF Acknowledges
  <2>7. CASE Errs(o, s)
    BY <2>7 DEF Errs
  <2>8. CASE Guards(o, s)
    BY <2>8 DEF Guards
  <2>9. CASE Asks(o, s)
    BY <2>9 DEF Asks
  <2>10. CASE WorkSyncs(o, s)
    BY <2>10 DEF WorkSyncs, SyncRead
  <2>11. CASE WorkSynced(o, s)
    BY <2>11 DEF WorkSynced, Synced, WorkOff
  <2>12. CASE o = Retry /\ RetryReturns(s)
    BY <2>12 DEF RetryReturns, WorkOff
  <2> QED  BY <2>1, <2>2, <2>3, <2>4, <2>5, <2>6, <2>7, <2>8, <2>9, <2>10, <2>11, <2>12 DEF ItemActs
<1>4. ASSUME NEW w \in Items, w # <<o, s>>
      PROVE  work'[w] = work[w]
  BY <1>4, ItemFrame
<1>5. ASSUME NEW r \in Owners, NEW t \in Steps
      PROVE  ParkedItem(work'[<<r, t>>])
  <2>1. CASE <<r, t>> = <<o, s>>
    BY <2>1, <1>3
  <2>2. CASE <<r, t>> # <<o, s>>
    <3>1. work'[<<r, t>>] = work[<<r, t>>]
      BY <1>4, <2>2 DEF Items
    <3> QED  BY <3>1 DEF Typed, Parked
  <2> QED  BY <2>1, <2>2
<1> QED  BY <1>5 DEF Parked

(* Every step keeps the types. *)
LEMMA TypedKept ==
  ASSUME Typed, [Next]_vars
  PROVE  Typed'
<1>1. ASSUME NEW p \in Passes, PassActs(p)
      PROVE  Typed'
  <2>1. TypeOK'
    BY <1>1, PassTypes
  <2>2. Aimed'
    BY <1>1, PassFrame DEF Typed, Aimed
  <2>3. Parked'
    <3>1. ASSUME NEW o \in Owners, NEW s \in Steps
          PROVE  \/ work'[<<o, s>>] = work[<<o, s>>]
                 \/ work'[<<o, s>>] = WorkOff
                 \/ \E e : work'[<<o, s>>] = Launched(e)
      <4>1. CASE PassLaunches(p) \/ PassJoins(p)
        BY <4>1, PassBatch
      <4>2. CASE UNCHANGED work
        BY <4>2
      <4> QED  BY <1>1, <4>1, <4>2, PassFrame
    <3>2. ParkedItem(WorkOff) /\ (\A e : ParkedItem(Launched(e)))
      BY DEF ParkedItem, WorkOff, Launched
    <3> QED  BY <3>1, <3>2 DEF Typed, Parked
  <2> QED  BY <2>1, <2>2, <2>3 DEF Typed
<1>2. ASSUME NEW o \in Owners, NEW s \in Steps, ItemActs(o, s)
      PROVE  Typed'
  <2>1. TypeOK'
    BY <1>2, ItemTypes
  <2>2. Aimed'
    BY <1>2, ItemFrame DEF Typed, Aimed
  <2>3. Parked'
    BY <1>2, ParkedByItems
  <2> QED  BY <2>1, <2>2, <2>3 DEF Typed
<1>3. ASSUME NEW s \in Steps, RetryReturns(s)
      PROVE  Typed'
  <2>1. TypeOK'
    BY <1>3, ReturnTypes
  <2>2. Retry \in Owners
    BY DEF Owners
  <2>3. Aimed'
    BY <1>3, <2>2, ItemFrame DEF Typed, Aimed
  <2>4. Parked'
    BY <1>3, <2>2, ParkedByItems
  <2> QED  BY <2>1, <2>3, <2>4 DEF Typed
<1>4. CASE Arrives
  <2>1. TypeOK' /\ Aimed'
    BY <1>4, RequestTypes, AimedByRequests
  <2>2. Parked'
    BY <1>4, RequestFrame DEF Typed, Parked
  <2> QED  BY <2>1, <2>2 DEF Typed
<1>5. CASE HandlerActs
  <2>1. TypeOK' /\ Aimed'
    BY <1>5, HandlerTypes, AimedByHandlers
  <2>2. Parked'
    <3>1. ASSUME NEW w \in Items
          PROVE  \/ work'[w] = work[w]
                 \/ \E e : work'[w] = Launched(e)
      BY <1>5, HandlerFrame DEF RetrySpawns, SetWork, Typed, TypeOK, Launched
    <3>2. ASSUME NEW o \in Owners, NEW s \in Steps
          PROVE  <<o, s>> \in Items
      BY DEF Items
    <3>3. \A e : ParkedItem(Launched(e))
      BY DEF ParkedItem, WorkOff, Launched
    <3> QED  BY <3>1, <3>2, <3>3 DEF Typed, Parked
  <2> QED  BY <2>1, <2>2 DEF Typed
<1>6. CASE Restarts
  <2>1. TypeOK'
    BY <1>6, RestartTypes
  <2>2. Aimed' /\ Parked'
    BY <1>6 DEF Restarts, Aimed, Parked, ParkedItem, UserOff, WorkOff, Items
  <2> QED  BY <2>1, <2>2 DEF Typed
<1>7. CASE UNCHANGED vars
  BY <1>7 DEF vars, Typed, TypeOK, Aimed, Parked
<1> QED  BY <1>1, <1>2, <1>3, <1>4, <1>5, <1>6, <1>7 DEF Next

LEMMA TypedInitially ==
  ASSUME Init
  PROVE  Typed
<1>1. step \in Table /\ exec \in ExecStatus
  BY StatusNames, DerivedStatus DEF Init, Bootstrapped, Table
<1>2. /\ pass \in [Passes -> PassRec] /\ work \in [Items -> WorkRec] /\ user \in UserRec
      /\ session \in [Agents -> SessionState]
  BY OffTypes DEF Init, SessionState
<1>3. budget \in [requests : 0..MaxRequests, crashes : 0..Crashes]
  BY BoundsAssumption DEF Init
<1>4. TypeOK
  BY <1>1, <1>2, <1>3 DEF Init, TypeOK
<1>5. Aimed /\ Parked
  BY DEF Init, Aimed, Parked, ParkedItem, UserOff, WorkOff, Items
<1> QED  BY <1>4, <1>5 DEF Typed

(* Every variable keeps its type: the rows hold statuses of the schema,    *)
(* whatever passes, items, handlers and restarts write into them.          *)
THEOREM StatusesHaveTypes == Spec => []TypeOK
<1>1. Init => Typed
  BY TypedInitially
<1>2. Typed /\ [Next]_vars => Typed'
  BY TypedKept
<1>3. Typed => TypeOK
  BY DEF Typed
<1> QED  BY <1>1, <1>2, <1>3, PTL DEF Spec

-----------------------------------------------------------------------------
(* A running step is never left behind.  As long as nobody interrupts, no  *)
(* cancel request is ever made, and the item that has claimed a step goes  *)
(* on with an execution it holds as running: under it no transition of the *)
(* guard around the item can be refused, so the item ends only after the   *)
(* step has left "Running".                                                *)

(* The requests that interrupt a running step. *)
Interrupting == {"stop", "pause", "interrupt", "complete"}

(* Nobody makes one of them; *)
NoInterrupts == Requests \cap Interrupting = {}

(* and the process does not restart. *)
NoInterruption == NoInterrupts /\ Crashes = 0

(* The places of a handler that only an interrupting request comes to. *)
InterruptPcs == {"sweep", "request", "settle", "cancel", "pause", "hold", "force", "finish"}

(* No handler is at an interrupting place, and nothing is cancelled. *)
Calm ==
  /\ cancels = {}
  /\ user.pc \notin InterruptPcs /\ user.next \notin InterruptPcs

(* Only the guard writes a second time, and only what is always accepted. *)
SoundItem(w) ==
  /\ w.pc # "acknowledge"
  /\ w.next \in {"off", "run", "parked", "ask", "done"}
  /\ w.out # "Running"
  /\ w.guarded => /\ w.pc \notin {"claim", "run", "record"}
                  /\ w.pc \in {"sync", "syncing"} => w.next # "run"
                  /\ w.pc = "write" =>
                       <<w.seen, w.out>> \in {<<"InterruptRequested", "Interrupted">>,
                                              <<"Running", "Failed">>,
                                              <<"Revising", "Failed">>}

SoundItems == \A o \in Owners, s \in Steps : SoundItem(work[<<o, s>>])

(* A pass has work items only between launching and joining a batch. *)
SoundPass(p) ==
  /\ pass[p].next # "join"
  /\ \A s \in Steps : \/ pass[p].pc = "join" /\ s \in pass[p].batch
                      \/ work[<<p, s>>].pc = "off"

SoundPasses == \A p \in Passes : SoundPass(p)

(* A retry has a step, and no item for it yet. *)
SoundRetry ==
  /\ user.act = "retry" => /\ user.todo # {}
                           /\ \A s \in user.todo : work[<<Retry, s>>].pc = "off"
  /\ {user.pc, user.next} \cap {"activate", "reload"} # {} => user.act = "retry"
  /\ user.pc = "revive" \/ user.next = "revive" => user.act # "retry"

(* The item minds the step and holds the execution as running. *)
Attends(o, s) == Minds(o, s) /\ work[<<o, s>>].exec = "Running"

Attended(s) == \E o \in Owners : Attends(o, s)

(* The state is sound: what no action breaks, not even a restart.          *)
Sound ==
  /\ Typed
  /\ Calm
  /\ SoundItems
  /\ SoundPasses
  /\ SoundRetry

(* The inductive invariant: with the running steps attended, what it takes *)
(* for them to stay so.                                                    *)
IInv ==
  /\ Sound
  /\ \A s \in Steps : step[s] = "Running" => Attended(s)

LEMMA RunsUnder ==
  ASSUME NEW e \in ExecStatus, StepMayMove(e, "Ready", "Running")
  PROVE  e = "Running"
BY DEF ExecStatus, StepMayMove, StepsUnder, StepStatus, CompletedLike

LEMMA GuardIsAccepted ==
  /\ StepMayMove("Running", "InterruptRequested", "Interrupted")
  /\ StepMayMove("Running", "Running", "Failed")
  /\ StepMayMove("Running", "Revising", "Failed")
BY DEF StepMayMove, StepMoves, StepsUnder, StepStatus

LEMMA OffIsSound ==
  /\ SoundItem(WorkOff)
  /\ WorkOff.pc = "off" /\ WorkOff.out = "Pending"
  /\ \A e : SoundItem(Launched(e)) /\ Launched(e).pc = "claim"
BY DEF SoundItem, WorkOff, Launched

(* An item leaves the requests to cancel as they are, or clears its own. *)
LEMMA ItemsClear ==
  ASSUME NEW o \in Owners, NEW s \in Steps, ItemActs(o, s)
  PROVE  cancels' \subseteq cancels
<1>1. CASE Claims(o, s)
  BY <1>1 DEF Claims
<1>2. CASE AgentEnds(o, s)
  BY <1>2 DEF AgentEnds
<1>3. CASE AgentFailsToStart(o, s)
  BY <1>3 DEF AgentFailsToStart
<1>4. CASE Records(o, s)
  BY <1>4 DEF Records
<1>5. CASE Settles(o, s)
  BY <1>5 DEF Settles
<1>6. CASE Acknowledges(o, s)
  BY <1>6 DEF Acknowledges
<1>7. CASE Errs(o, s)
  BY <1>7 DEF Errs
<1>8. CASE Guards(o, s)
  BY <1>8 DEF Guards
<1>9. CASE Asks(o, s)
  BY <1>9 DEF Asks
<1>10. CASE WorkSyncs(o, s)
  BY <1>10 DEF WorkSyncs
<1>11. CASE WorkSynced(o, s)
  BY <1>11 DEF WorkSynced
<1> QED  BY <1>1, <1>2, <1>3, <1>4, <1>5, <1>6, <1>7, <1>8, <1>9, <1>10, <1>11 DEF ItemActs

LEMMA CalmByHandlers ==
  ASSUME Typed, Calm, HandlerActs
  PROVE  Calm'
<1>1. user \in UserRec /\ Calm
  BY DEF Typed, TypeOK
<1>2. cancels' = {} /\ user'.pc \notin InterruptPcs /\ user'.next \notin InterruptPcs
  <2> USE <1>1 DEF Calm, InterruptPcs, UserRec, UserOff, UserLess
  <2>1. CASE UserSweeps
    BY <2>1 DEF UserSweeps
  <2>2. CASE UserRequests
    BY <2>2 DEF UserRequests
  <2>3. CASE UserSettles
    BY <2>3 DEF UserSettles
  <2>4. CASE StopEnds
    BY <2>4 DEF StopEnds
  <2>5. CASE PauseEnds
    BY <2>5 DEF PauseEnds
  <2>6. CASE InterruptCancels
    BY <2>6 DEF InterruptCancels
  <2>7. CASE Skips
    <3>1. /\ UNCHANGED cancels
          /\ user' = UserOff \/ user' = [user EXCEPT !.pc = "sync", !.next = "again"]
      BY <2>7 DEF Skips
    <3>2. CASE user' = UserOff
      BY <3>1, <3>2
    <3>3. CASE user' # UserOff
      BY <3>1, <3>3
    <3> QED  BY <3>2, <3>3
  <2>8. CASE RetryPrepares
    BY <2>8 DEF RetryPrepares
  <2>9. CASE UserReadies
    BY <2>9 DEF UserReadies
  <2>10. CASE RetryActivates
    BY <2>10 DEF RetryActivates
  <2>11. CASE RetrySpawns
    BY <2>11 DEF RetrySpawns
  <2>12. CASE ResumeRevives
    BY <2>12 DEF ResumeRevives
  <2>13. CASE AnswerRecords
    BY <2>13 DEF AnswerRecords
  <2>14. CASE AnswerFails
    BY <2>14 DEF AnswerFails
  <2>15. CASE CompleteHolds
    BY <2>15 DEF CompleteHolds
  <2>16. CASE CompleteForces
    BY <2>16 DEF CompleteForces
  <2>17. CASE CompleteCloses
    BY <2>17 DEF CompleteCloses
  <2>18. CASE CompleteEnds
    BY <2>18 DEF CompleteEnds
  <2>19. CASE AcceptEnds
    BY <2>19 DEF AcceptEnds
  <2>20. CASE UserSyncs
    BY <2>20 DEF UserSyncs, SyncRead
  <2>21. CASE UserSynced
    <3>1. /\ UNCHANGED cancels
          /\ user' = UserOff \/ \E e : user' = [Synced(user) EXCEPT !.exec = e]
      BY <2>21 DEF UserSynced
    <3>2. CASE user' = UserOff
      BY <3>1, <3>2
    <3>3. CASE user' # UserOff
      BY <3>1, <3>3 DEF Synced
    <3> QED  BY <3>2, <3>3
  <2>22. CASE UserWakes
    BY <2>22 DEF UserWakes
  <2>23. CASE UserErrs
    BY <2>23 DEF UserErrs
  <2> QED  BY <2>1, <2>2, <2>3, <2>4, <2>5, <2>6, <2>7, <2>8, <2>9, <2>10, <2>11,
              <2>12, <2>13, <2>14, <2>15, <2>16, <2>17, <2>18, <2>19, <2>20, <2>21,
              <2>22, <2>23 DEF HandlerActs
<1> QED  BY <1>2 DEF Calm

LEMMA CalmByRequests ==
  ASSUME NoInterrupts, Calm, Arrives
  PROVE  Calm'
<1>1. cancels' = {} /\ user'.pc \notin InterruptPcs /\ user'.next \notin InterruptPcs
  <2> USE DEF Calm, InterruptPcs, NoInterrupts, Interrupting, Begins, UserOff
  <2>1. CASE StopBegins
    BY <2>1 DEF StopBegins
  <2>2. CASE PauseBegins
    BY <2>2 DEF PauseBegins
  <2>3. CASE ResumeBegins
    BY <2>3 DEF ResumeBegins
  <2>4. CASE CompleteBegins
    BY <2>4 DEF CompleteBegins
  <2>5. CASE AcceptBegins
    BY <2>5 DEF AcceptBegins
  <2>6. ASSUME NEW s \in Steps, InterruptBegins(s)
        PROVE  cancels' = {} /\ user'.pc \notin InterruptPcs /\ user'.next \notin InterruptPcs
    BY <2>6 DEF InterruptBegins
  <2>7. ASSUME NEW s \in Steps, SkipBegins(s)
        PROVE  cancels' = {} /\ user'.pc \notin InterruptPcs /\ user'.next \notin InterruptPcs
    BY <2>7 DEF SkipBegins
  <2>8. ASSUME NEW s \in Steps, RetryBegins(s)
        PROVE  cancels' = {} /\ user'.pc \notin InterruptPcs /\ user'.next \notin InterruptPcs
    BY <2>8 DEF RetryBegins
  <2>9. ASSUME NEW s \in Steps, AnswerBegins(s)
        PROVE  cancels' = {} /\ user'.pc \notin InterruptPcs /\ user'.next \notin InterruptPcs
    BY <2>9 DEF AnswerBegins
  <2> QED  BY <2>1, <2>2, <2>3, <2>4, <2>5, <2>6, <2>7, <2>8, <2>9 DEF Arrives
<1> QED  BY <1>1 DEF Calm

LEMMA SoundByItems ==
  ASSUME Typed, Calm, SoundItems, NEW o \in Owners, NEW s \in Steps,
         ItemActs(o, s) \/ (o = Retry /\ RetryReturns(s))
  PROVE  SoundItems'
<1>1. <<o, s>> \in Items /\ work \in [Items -> WorkRec]
  BY DEF Typed, TypeOK, Items
<1>2. /\ work[<<o, s>>] \in WorkRec /\ SoundItem(work[<<o, s>>])
      /\ ParkedItem(work[<<o, s>>]) /\ cancels = {}
  BY <1>1 DEF Typed, Parked, SoundItems, Calm
<1>3. SoundItem(work'[<<o, s>>])
  <2> USE <1>1, <1>2 DEF SoundItem, WorkRec, SetWork
  <2>1. CASE Claims(o, s)
    <3>1. work[<<o, s>>].pc = "claim" /\ ~work[<<o, s>>].guarded
      BY <2>1 DEF Claims
    <3>2. CASE step[s] = "Ready"
      <4>1. work' = [work EXCEPT ![<<o, s>>] =
                      [work[<<o, s>>] EXCEPT !.pc = "sync", !.next = "run",
                         !.seen = "Running", !.attempt = attempt[s]]]
        BY <2>1, <3>2 DEF Claims
      <4> QED  BY <3>1, <4>1
    <3>3. CASE step[s] # "Ready"
      <4>1. work' = [work EXCEPT ![<<o, s>>] =
                      [work[<<o, s>>] EXCEPT !.pc = "done", !.out = "Completed"]]
        BY <2>1, <3>3 DEF Claims
      <4> QED  BY <3>1, <4>1
    <3> QED  BY <3>2, <3>3
  <2>2. CASE AgentEnds(o, s)
    <3>1. work[<<o, s>>].pc = "run"
      BY <2>2 DEF AgentEnds
    <3>2. PICK pc \in {"record", "write"}, out \in {"Completed", "Failed"} \cup Parking :
            work' = [work EXCEPT ![<<o, s>>] =
                      [work[<<o, s>>] EXCEPT !.pc = pc, !.out = out]]
      BY <2>2 DEF AgentEnds, Parking
    <3> QED  BY <3>1, <3>2 DEF Parking
  <2>3. CASE AgentFailsToStart(o, s)
    BY <2>3 DEF AgentFailsToStart
  <2>4. CASE Records(o, s)
    BY <2>4 DEF Records
  <2>5. CASE Settles(o, s)
    BY <2>5 DEF Settles
  <2>6. CASE Acknowledges(o, s)
    BY <2>6 DEF Acknowledges
  <2>7. CASE Errs(o, s)
    BY <2>7 DEF Errs
  <2>8. CASE Guards(o, s)
    BY <2>8 DEF Guards
  <2>9. CASE Asks(o, s)
    BY <2>9 DEF Asks
  <2>10. CASE WorkSyncs(o, s)
    BY <2>10 DEF WorkSyncs, SyncRead, ParkedItem
  <2>11. CASE WorkSynced(o, s)
    BY <2>11 DEF WorkSynced, Synced, WorkOff
  <2>12. CASE o = Retry /\ RetryReturns(s)
    BY <2>12 DEF RetryReturns, WorkOff
  <2> QED  BY <2>1, <2>2, <2>3, <2>4, <2>5, <2>6, <2>7, <2>8, <2>9, <2>10, <2>11, <2>12 DEF ItemActs
<1>4. ASSUME NEW w \in Items, w # <<o, s>>
      PROVE  work'[w] = work[w]
  BY <1>4, ItemFrame
<1>5. ASSUME NEW r \in Owners, NEW t \in Steps
      PROVE  SoundItem(work'[<<r, t>>])
  <2>1. CASE <<r, t>> = <<o, s>>
    BY <2>1, <1>3
  <2>2. CASE <<r, t>> # <<o, s>>
    <3>1. work'[<<r, t>>] = work[<<r, t>>]
      BY <1>4, <2>2 DEF Items
    <3> QED  BY <3>1 DEF SoundItems
  <2> QED  BY <2>1, <2>2
<1> QED  BY <1>5 DEF SoundItems

(* An item that attends to its step does so until the step is settled. *)
LEMMA ItemKeepsAttending ==
  ASSUME Typed, Calm, SoundItems, NEW o \in Owners, NEW s \in Steps, ItemActs(o, s),
         step'[s] = "Running", step[s] = "Running" => Attended(s)
  PROVE  Attended(s)'
<1>1. <<o, s>> \in Items /\ work \in [Items -> WorkRec] /\ step \in Table
  BY DEF Typed, TypeOK, Items
<1>2. /\ work[<<o, s>>] \in WorkRec /\ SoundItem(work[<<o, s>>])
      /\ ParkedItem(work[<<o, s>>]) /\ cancels = {}
  BY <1>1 DEF Typed, Parked, SoundItems, Calm
<1>3. CASE step[s] = "Running" /\ ~Attends(o, s)
  <2>1. PICK r \in Owners : Attends(r, s) /\ r # o
    BY <1>3 DEF Attended
  <2>2. work'[<<r, s>>] = work[<<r, s>>]
    BY <2>1, ItemFrame DEF Items
  <2> QED  BY <2>1, <2>2 DEF Attended, Attends, Minds
<1>4. CASE step[s] # "Running"
  <2>1. Claims(o, s)
    <3> USE DEF SoundItem, WorkRec, SetStep, Table, rows
    <3>1. ~AgentEnds(o, s)
      BY <1>1, <1>2, <1>4 DEF AgentEnds
    <3>2. ~AgentFailsToStart(o, s)
      BY <1>1, <1>2, <1>4 DEF AgentFailsToStart
    <3>3. ~Records(o, s)
      BY <1>1, <1>2, <1>4 DEF Records
    <3>4. ~Settles(o, s)
      BY <1>1, <1>2, <1>4 DEF Settles
    <3>5. ~Acknowledges(o, s)
      BY <1>1, <1>2, <1>4 DEF Acknowledges
    <3>6. ~Errs(o, s)
      BY <1>1, <1>2, <1>4 DEF Errs
    <3>7. ~Guards(o, s)
      BY <1>1, <1>2, <1>4 DEF Guards
    <3>8. ~Asks(o, s)
      BY <1>1, <1>2, <1>4 DEF Asks
    <3>9. ~WorkSyncs(o, s)
      BY <1>1, <1>2, <1>4 DEF WorkSyncs
    <3>10. ~WorkSynced(o, s)
      BY <1>1, <1>2, <1>4 DEF WorkSynced
    <3> QED  BY <3>1, <3>2, <3>3, <3>4, <3>5, <3>6, <3>7, <3>8, <3>9, <3>10 DEF ItemActs
  <2>2. work[<<o, s>>].exec = "Running"
    BY <2>1, <1>2, RunsUnder DEF Claims, WorkRec
  <2>3. step[s] = "Ready"
    BY <2>1, <1>4 DEF Claims
  <2>4. work'[<<o, s>>] = [work[<<o, s>>] EXCEPT !.pc = "sync", !.next = "run",
                             !.seen = "Running", !.attempt = attempt[s]]
    BY <1>1, <2>1, <2>3 DEF Claims, SetWork
  <2> QED  BY <1>2, <2>2, <2>4 DEF Attended, Attends, Minds, WorkRec
<1>5. CASE step[s] = "Running" /\ Attends(o, s)
  <2>1. work'[<<o, s>>].exec = "Running" /\ Minds(o, s)'
    <3> USE <1>1, <1>2 DEF Attends, Minds, SoundItem, WorkRec, SetWork
    <3>1. CASE Claims(o, s)
      BY <1>5, <3>1 DEF Claims
    <3>2. CASE AgentEnds(o, s)
      BY <1>5, <3>2 DEF AgentEnds
    <3>3. CASE AgentFailsToStart(o, s)
      BY <1>5, <3>3 DEF AgentFailsToStart
    <3>4. CASE Records(o, s)
      BY <1>5, <3>4 DEF Records
    <3>5. CASE Settles(o, s)
      BY <1>5, <3>5 DEF Settles, SetStep, Table
    <3>6. CASE Acknowledges(o, s)
      BY <1>5, <3>6 DEF Acknowledges
    <3>7. CASE Errs(o, s)
      BY <1>5, <3>7, GuardIsAccepted DEF Errs
    <3>8. CASE Guards(o, s)
      BY <1>5, <3>8 DEF Guards
    <3>9. CASE Asks(o, s)
      BY <1>5, <3>9 DEF Asks
    <3>10. CASE WorkSyncs(o, s)
      BY <1>5, <3>10 DEF WorkSyncs, SyncRead
    <3>11. CASE WorkSynced(o, s)
      BY <1>5, <3>11 DEF WorkSynced, Synced
    <3> QED  BY <3>1, <3>2, <3>3, <3>4, <3>5, <3>6, <3>7, <3>8, <3>9, <3>10, <3>11 DEF ItemActs
  <2> QED  BY <2>1 DEF Attended, Attends
<1> QED  BY <1>3, <1>4, <1>5

LEMMA HandlersRunNothing ==
  ASSUME Typed, Calm, HandlerActs, NEW s \in Steps, step'[s] = "Running"
  PROVE  step[s] = "Running"
<1>1. step \in Table /\ user.pc \notin InterruptPcs
  BY DEF Typed, TypeOK, Calm
<1> USE DEF Table, SetStep, InterruptPcs, rows
<1>2. CASE UserSweeps
  BY <1>1, <1>2 DEF UserSweeps
<1>3. CASE UserRequests
  BY <1>1, <1>3 DEF UserRequests
<1>4. CASE UserSettles
  BY <1>1, <1>4 DEF UserSettles
<1>5. CASE StopEnds
  BY <1>1, <1>5 DEF StopEnds
<1>6. CASE PauseEnds
  BY <1>1, <1>6 DEF PauseEnds
<1>7. CASE InterruptCancels
  BY <1>1, <1>7 DEF InterruptCancels
<1>8. CASE Skips
  BY <1>1, <1>8 DEF Skips
<1>9. CASE RetryPrepares
  BY <1>1, <1>9 DEF RetryPrepares
<1>10. CASE UserReadies
  BY <1>1, <1>10 DEF UserReadies
<1>11. CASE RetryActivates
  BY <1>1, <1>11 DEF RetryActivates
<1>12. CASE RetrySpawns
  BY <1>1, <1>12 DEF RetrySpawns
<1>13. CASE ResumeRevives
  BY <1>1, <1>13 DEF ResumeRevives
<1>14. CASE AnswerRecords
  BY <1>1, <1>14 DEF AnswerRecords
<1>15. CASE AnswerFails
  BY <1>1, <1>15 DEF AnswerFails
<1>16. CASE CompleteHolds
  BY <1>1, <1>16 DEF CompleteHolds
<1>17. CASE CompleteForces
  BY <1>1, <1>17 DEF CompleteForces
<1>18. CASE CompleteCloses
  BY <1>1, <1>18 DEF CompleteCloses
<1>19. CASE CompleteEnds
  BY <1>1, <1>19 DEF CompleteEnds
<1>20. CASE AcceptEnds
  BY <1>1, <1>20 DEF AcceptEnds
<1>21. CASE UserSyncs
  BY <1>1, <1>21 DEF UserSyncs
<1>22. CASE UserSynced
  BY <1>1, <1>22 DEF UserSynced
<1>23. CASE UserWakes
  BY <1>1, <1>23 DEF UserWakes
<1>24. CASE UserErrs
  BY <1>1, <1>24 DEF UserErrs
<1> QED  BY <1>2, <1>3, <1>4, <1>5, <1>6, <1>7, <1>8, <1>9, <1>10, <1>11, <1>12,
            <1>13, <1>14, <1>15, <1>16, <1>17, <1>18, <1>19, <1>20, <1>21, <1>22,
            <1>23, <1>24 DEF HandlerActs

LEMMA RequestsRunNothing ==
  ASSUME Arrives
  PROVE  UNCHANGED step
BY DEF Arrives, StopBegins, PauseBegins, ResumeBegins, CompleteBegins, AcceptBegins,
       InterruptBegins, SkipBegins, RetryBegins, AnswerBegins, rows

LEMMA PassesRunNothing ==
  ASSUME Typed, NEW p \in Passes, PassActs(p), NEW s \in Steps, step'[s] = "Running"
  PROVE  step[s] = "Running"
<1>0. step \in Table
  BY DEF Typed, TypeOK
<1> USE DEF Table, SetStep, rows
<1>1. CASE PassBegins(p)
  BY <1>0, <1>1 DEF PassBegins
<1>2. CASE PassReads(p)
  BY <1>0, <1>2 DEF PassReads
<1>3. CASE PassPromotes(p)
  BY <1>0, <1>3 DEF PassPromotes
<1>4. CASE PassSelects(p)
  BY <1>0, <1>4 DEF PassSelects
<1>5. CASE PassLaunches(p)
  BY <1>0, <1>5 DEF PassLaunches
<1>6. CASE PassJoins(p)
  BY <1>0, <1>6 DEF PassJoins
<1>7. CASE PassJudges(p)
  BY <1>0, <1>7 DEF PassJudges
<1>8. CASE PassSyncs(p)
  BY <1>0, <1>8 DEF PassSyncs
<1>9. CASE PassSynced(p)
  BY <1>0, <1>9 DEF PassSynced
<1>10. CASE PassEnds(p)
  BY <1>0, <1>10 DEF PassEnds
<1> QED  BY <1>1, <1>2, <1>3, <1>4, <1>5, <1>6, <1>7, <1>8, <1>9, <1>10 DEF PassActs

LEMMA ItemsRunTheirOwn ==
  ASSUME Typed, NEW o \in Owners, NEW s \in Steps, ItemActs(o, s),
         NEW t \in Steps, t # s
  PROVE  step'[t] = step[t]
<1>0. step \in Table
  BY DEF Typed, TypeOK
<1> USE DEF Table, SetStep, rows
<1>1. CASE Claims(o, s)
  BY <1>0, <1>1 DEF Claims
<1>2. CASE AgentEnds(o, s)
  BY <1>0, <1>2 DEF AgentEnds
<1>3. CASE AgentFailsToStart(o, s)
  BY <1>0, <1>3 DEF AgentFailsToStart
<1>4. CASE Records(o, s)
  BY <1>0, <1>4 DEF Records
<1>5. CASE Settles(o, s)
  BY <1>0, <1>5 DEF Settles
<1>6. CASE Acknowledges(o, s)
  BY <1>0, <1>6 DEF Acknowledges
<1>7. CASE Errs(o, s)
  BY <1>0, <1>7 DEF Errs
<1>8. CASE Guards(o, s)
  BY <1>0, <1>8 DEF Guards
<1>9. CASE Asks(o, s)
  BY <1>0, <1>9 DEF Asks
<1>10. CASE WorkSyncs(o, s)
  BY <1>0, <1>10 DEF WorkSyncs
<1>11. CASE WorkSynced(o, s)
  BY <1>0, <1>11 DEF WorkSynced
<1> QED  BY <1>1, <1>2, <1>3, <1>4, <1>5, <1>6, <1>7, <1>8, <1>9, <1>10, <1>11 DEF ItemActs

LEMMA ItemsAreOn ==
  ASSUME NEW o \in Owners, NEW s \in Steps,
         ItemActs(o, s) \/ (o = Retry /\ RetryReturns(s))
  PROVE  work[<<o, s>>].pc # "off"
BY DEF ItemActs, Claims, AgentEnds, AgentFailsToStart, Records, Settles, Acknowledges,
       Errs, Guards, Asks, WorkSyncs, WorkSynced, RetryReturns

(* The items that attend to a step are not touched. *)
LEMMA StillAttended ==
  ASSUME NEW s \in Steps, Attended(s),
         \A o \in Owners : Attends(o, s) => work'[<<o, s>>] = work[<<o, s>>]
  PROVE  Attended(s)'
BY DEF Attended, Attends, Minds

LEMMA SoundOwnPass ==
  ASSUME Typed, NEW p \in Passes, PassActs(p), SoundPass(p)
  PROVE  SoundPass(p)'
<1>1. /\ pass[p] \in PassRec /\ pass \in [Passes -> PassRec]
      /\ pass[p].next # "join" /\ p \in Owners
      /\ \A s \in Steps : <<p, s>> \in Items
  BY DEF Typed, TypeOK, SoundPass, Owners, Items
<1>2. CASE PassLaunches(p)
  <2>1. \A s \in Steps : work[<<p, s>>].pc = "off"
    BY <1>2 DEF PassLaunches, SoundPass
  <2>2. pass'[p].pc = "join" /\ pass'[p].batch = pass[p].batch /\ pass'[p].next = pass[p].next
    BY <1>1, <1>2 DEF PassLaunches, SetPass, PassRec
  <2>3. ASSUME NEW s \in Steps, s \notin pass[p].batch
        PROVE  work'[<<p, s>>] = work[<<p, s>>]
    <3>1. <<p, s>> \in Items
      BY <1>1
    <3> QED  BY <1>2, <2>3, <3>1 DEF PassLaunches
  <2> QED  BY <1>1, <2>1, <2>2, <2>3 DEF SoundPass
<1>3. CASE PassJoins(p)
  <2>1. pass'[p].next # "join" /\ pass'[p].pc # "join"
    BY <1>1, <1>3 DEF PassJoins, SetPass, PassRec, PassOff
  <2>2. ASSUME NEW s \in Steps
        PROVE  work'[<<p, s>>].pc = "off"
    <3>1. <<p, s>> \in Items
      BY <1>1
    <3>2. work' = [w \in Items |-> IF w[1] = p THEN WorkOff ELSE work[w]]
      BY <1>3 DEF PassJoins
    <3>3. work'[<<p, s>>] = WorkOff
      BY <3>1, <3>2
    <3> QED  BY <3>3 DEF WorkOff
  <2> QED  BY <2>1, <2>2 DEF SoundPass
<1>4. CASE ~PassLaunches(p) /\ ~PassJoins(p)
  <2>1. UNCHANGED work
    BY <1>4, PassFrame
  <2>2. pass[p].pc # "join" /\ pass'[p].next # "join"
    <3> USE <1>1, <1>4 DEF PassRec, SetPass, PassOff
    <3>1. CASE PassBegins(p)
      BY <3>1 DEF PassBegins
    <3>2. CASE PassReads(p)
      BY <3>2 DEF PassReads
    <3>3. CASE PassPromotes(p)
      BY <3>3 DEF PassPromotes
    <3>4. CASE PassSelects(p)
      BY <3>4 DEF PassSelects
    <3>5. CASE PassJudges(p)
      BY <3>5 DEF PassJudges
    <3>6. CASE PassSyncs(p)
      BY <3>6 DEF PassSyncs, SyncRead
    <3>7. CASE PassSynced(p)
      BY <3>7 DEF PassSynced, Synced
    <3>8. CASE PassEnds(p)
      BY <3>8 DEF PassEnds
    <3> QED  BY <3>1, <3>2, <3>3, <3>4, <3>5, <3>6, <3>7, <3>8 DEF PassActs
  <2> QED  BY <2>1, <2>2 DEF SoundPass
<1> QED  BY <1>2, <1>3, <1>4

(* What the acting pass does to the work items *)
LEMMA PassItems ==
  ASSUME Typed, NEW p \in Passes, PassActs(p), NEW o \in Owners, NEW s \in Steps
  PROVE  \/ work'[<<o, s>>] = work[<<o, s>>]
         \/ o = p /\ work'[<<o, s>>] = WorkOff
         \/ o = p /\ \E e : work'[<<o, s>>] = Launched(e)
<1>1. CASE PassLaunches(p) \/ PassJoins(p)
  BY <1>1, PassBatch
<1>2. CASE UNCHANGED work
  BY <1>2
<1> QED  BY <1>1, <1>2, PassFrame

LEMMA PassKeepsPasses ==
  ASSUME Typed, SoundPasses, NEW p \in Passes, PassActs(p)
  PROVE  SoundPasses'
<1>1. ASSUME NEW r \in Passes
      PROVE  SoundPass(r)'
  <2>1. CASE r = p
    BY <2>1, SoundOwnPass DEF SoundPasses
  <2>2. CASE r # p
    <3>1. pass'[r] = pass[r]
      BY <2>2, PassFrame
    <3>2. \A s \in Steps : work'[<<r, s>>] = work[<<r, s>>]
      BY <2>2, PassItems DEF Owners
    <3> QED  BY <3>1, <3>2 DEF SoundPasses, SoundPass
  <2> QED  BY <2>1, <2>2
<1> QED  BY <1>1 DEF SoundPasses

LEMMA PassKeepsRetry ==
  ASSUME Typed, SoundRetry, NEW p \in Passes, PassActs(p)
  PROVE  SoundRetry'
<1>1. Retry \in Owners /\ Retry # p
  BY RetryAssumption DEF Owners
<1>2. \A s \in Steps : work'[<<Retry, s>>] = work[<<Retry, s>>]
  BY <1>1, PassItems
<1>3. user.todo \subseteq Steps
  BY DEF Typed, TypeOK, UserRec
<1>4. user' = user
  BY PassFrame
<1> QED  BY <1>2, <1>3, <1>4 DEF SoundRetry

LEMMA PassKeepsSound ==
  ASSUME Sound, NEW p \in Passes, PassActs(p)
  PROVE  Sound'
<1> USE DEF Sound
<1>1. Typed'
  BY TypedKept DEF Next
<1>2. Calm'
  BY PassFrame DEF Calm
<1>3. SoundItems'
  <2>1. ASSUME NEW o \in Owners, NEW s \in Steps
        PROVE  SoundItem(work'[<<o, s>>])
    BY PassItems, OffIsSound DEF SoundItems
  <2> QED  BY <2>1 DEF SoundItems
<1>4. SoundPasses' /\ SoundRetry'
  BY PassKeepsPasses, PassKeepsRetry
<1> QED  BY <1>1, <1>2, <1>3, <1>4

LEMMA PassKeepsInv ==
  ASSUME IInv, NEW p \in Passes, PassActs(p)
  PROVE  IInv'
<1> USE DEF IInv
<1>1. Sound'
  BY PassKeepsSound
<1>2. ASSUME NEW s \in Steps, step'[s] = "Running"
      PROVE  Attended(s)'
  <2>1. Attended(s)
    BY <1>2, PassesRunNothing DEF Sound
  <2>2. ASSUME NEW o \in Owners, Attends(o, s)
        PROVE  work'[<<o, s>>] = work[<<o, s>>]
    <3>1. CASE o # p
      BY <3>1, PassItems DEF Sound
    <3>2. CASE o = p
      <4>1. work[<<p, s>>].pc \notin {"off", "done"}
        BY <2>2, <3>2 DEF Attends, Minds
      <4>2. pass[p].pc = "join" /\ s \in pass[p].batch
        BY <4>1 DEF Sound, SoundPasses, SoundPass
      <4>3. ~PassLaunches(p) /\ ~PassJoins(p)
        BY <4>1, <4>2 DEF PassLaunches, PassJoins
      <4> QED  BY <3>2, <4>3, PassFrame
    <3> QED  BY <3>1, <3>2
  <2> QED  BY <2>1, <2>2, StillAttended
<1> QED  BY <1>1, <1>2

LEMMA ItemKeepsPasses ==
  ASSUME SoundPasses, NEW o \in Owners, NEW s \in Steps,
         ItemActs(o, s) \/ (o = Retry /\ RetryReturns(s))
  PROVE  SoundPasses'
<1>1. /\ UNCHANGED pass
      /\ \A r \in Owners, t \in Steps :
           <<r, t>> # <<o, s>> => work'[<<r, t>>] = work[<<r, t>>]
  BY ItemFrame DEF Items
<1>2. work[<<o, s>>].pc # "off"
  BY ItemsAreOn
<1>3. ASSUME NEW p \in Passes, NEW t \in Steps
      PROVE  (pass[p].pc = "join" /\ t \in pass[p].batch) \/ work'[<<p, t>>].pc = "off"
  <2>1. p \in Owners
    BY DEF Owners
  <2>2. CASE <<p, t>> = <<o, s>>
    BY <1>2, <2>2 DEF SoundPasses, SoundPass
  <2>3. CASE <<p, t>> # <<o, s>>
    BY <1>1, <2>1, <2>3 DEF SoundPasses, SoundPass
  <2> QED  BY <2>2, <2>3
<1> QED  BY <1>1, <1>3 DEF SoundPasses, SoundPass

LEMMA ItemKeepsRetry ==
  ASSUME Typed, SoundRetry, NEW o \in Owners, NEW s \in Steps,
         ItemActs(o, s) \/ (o = Retry /\ RetryReturns(s))
  PROVE  SoundRetry'
<1>1. /\ UNCHANGED user
      /\ \A r \in Owners, t \in Steps :
           <<r, t>> # <<o, s>> => work'[<<r, t>>] = work[<<r, t>>]
  BY ItemFrame DEF Items
<1>2. work[<<o, s>>].pc # "off"
  BY ItemsAreOn
<1>3. Retry \in Owners /\ user.todo \subseteq Steps
  BY DEF Typed, TypeOK, UserRec, Owners
<1>4. ASSUME NEW t \in user.todo, user.act = "retry"
      PROVE  work'[<<Retry, t>>].pc = "off"
  <2>1. work[<<Retry, t>>].pc = "off"
    BY <1>4 DEF SoundRetry
  <2>2. <<Retry, t>> # <<o, s>>
    BY <1>2, <2>1
  <2> QED  BY <1>1, <1>3, <2>1, <2>2
<1> QED  BY <1>1, <1>4 DEF SoundRetry

LEMMA ItemKeepsSound ==
  ASSUME Sound, NEW o \in Owners, NEW s \in Steps,
         ItemActs(o, s) \/ (o = Retry /\ RetryReturns(s))
  PROVE  Sound'
<1> USE DEF Sound
<1>1. Typed'
  BY TypedKept DEF Next
<1>2. cancels' \subseteq cancels
  <2>1. CASE ItemActs(o, s)
    BY <2>1, ItemsClear
  <2>2. CASE RetryReturns(s)
    BY <2>2 DEF RetryReturns
  <2> QED  BY <2>1, <2>2
<1>3. Calm'
  BY <1>2, ItemFrame DEF Calm
<1>4. SoundItems' /\ SoundPasses' /\ SoundRetry'
  BY SoundByItems, ItemKeepsPasses, ItemKeepsRetry
<1> QED  BY <1>1, <1>3, <1>4

LEMMA ItemKeepsInv ==
  ASSUME IInv, NEW o \in Owners, NEW s \in Steps,
         ItemActs(o, s) \/ (o = Retry /\ RetryReturns(s))
  PROVE  IInv'
<1> USE DEF IInv
<1>0. \A r \in Owners, t \in Steps :
        <<r, t>> # <<o, s>> => work'[<<r, t>>] = work[<<r, t>>]
  BY ItemFrame DEF Items
<1>1. Sound' /\ Typed /\ Calm /\ SoundItems
  BY ItemKeepsSound DEF Sound
<1>2. ASSUME NEW t \in Steps, step'[t] = "Running"
      PROVE  Attended(t)'
  <2>1. CASE ItemActs(o, s) /\ t = s
    BY <1>1, <1>2, <2>1, ItemKeepsAttending
  <2>2. CASE ItemActs(o, s) /\ t # s
    <3>1. Attended(t)
      BY <1>1, <1>2, <2>2, ItemsRunTheirOwn
    <3>2. \A r \in Owners : work'[<<r, t>>] = work[<<r, t>>]
      BY <1>0, <2>2
    <3> QED  BY <3>1, <3>2, StillAttended
  <2>3. CASE o = Retry /\ RetryReturns(s)
    <3>1. Attended(t) /\ work[<<o, s>>].pc = "done"
      BY <1>2, <2>3 DEF RetryReturns, rows
    <3>2. ASSUME NEW r \in Owners, Attends(r, t)
          PROVE  work'[<<r, t>>] = work[<<r, t>>]
      <4>1. <<r, t>> # <<o, s>>
        BY <3>1, <3>2 DEF Attends, Minds
      <4> QED  BY <1>0, <4>1
    <3> QED  BY <3>1, <3>2, StillAttended
  <2> QED  BY <2>1, <2>2, <2>3
<1> QED  BY <1>1, <1>2

LEMMA RetryByHandlers ==
  ASSUME Typed, SoundRetry, HandlerActs, user.pc \in InterruptPcs => user.act # "retry"
  PROVE  SoundRetry'
<1>1. /\ user \in UserRec /\ SoundRetry /\ Aimed
      /\ user.pc \in InterruptPcs => user.act # "retry"
  BY DEF Typed, TypeOK
<1>2. CASE user' = UserOff
  BY <1>2 DEF SoundRetry, UserOff
<1>3. CASE user' # UserOff
  <2>1. UNCHANGED work
    BY <1>3, HandlerFrame DEF RetrySpawns
  <2> USE <1>1, <1>3 DEF SoundRetry, InterruptPcs, UserRec, UserLess
  <2>2. CASE UserSweeps
    BY <2>1, <2>2 DEF UserSweeps
  <2>3. CASE UserRequests
    BY <2>1, <2>3 DEF UserRequests
  <2>4. CASE UserSettles
    BY <2>1, <2>4 DEF UserSettles
  <2>5. CASE StopEnds
    BY <2>1, <2>5 DEF StopEnds
  <2>6. CASE PauseEnds
    BY <2>1, <2>6 DEF PauseEnds
  <2>7. CASE InterruptCancels
    BY <2>1, <2>7 DEF InterruptCancels
  <2>8. CASE Skips
    <3>1. user.pc = "skip" /\ user' = [user EXCEPT !.pc = "sync", !.next = "again"]
      BY <2>8 DEF Skips
    <3> QED  BY <2>1, <3>1
  <2>9. CASE RetryPrepares
    BY <2>1, <2>9 DEF RetryPrepares
  <2>10. CASE UserReadies
    BY <2>1, <2>10 DEF UserReadies
  <2>11. CASE RetryActivates
    BY <2>1, <2>11 DEF RetryActivates
  <2>12. CASE RetrySpawns
    BY <2>1, <2>12 DEF RetrySpawns
  <2>13. CASE ResumeRevives
    BY <2>1, <2>13 DEF ResumeRevives
  <2>14. CASE AnswerRecords
    BY <2>1, <2>14 DEF AnswerRecords
  <2>15. CASE AnswerFails
    BY <2>1, <2>15 DEF AnswerFails
  <2>16. CASE CompleteHolds
    BY <2>1, <2>16 DEF CompleteHolds
  <2>17. CASE CompleteForces
    BY <2>1, <2>17 DEF CompleteForces
  <2>18. CASE CompleteCloses
    BY <2>1, <2>18 DEF CompleteCloses
  <2>19. CASE CompleteEnds
    BY <2>1, <2>19 DEF CompleteEnds
  <2>20. CASE AcceptEnds
    BY <2>1, <2>20 DEF AcceptEnds
  <2>21. CASE UserSyncs
    BY <2>1, <2>21 DEF UserSyncs, SyncRead
  <2>22. CASE UserSynced
    <3>1. user.pc = "syncing" /\ (\E e : user' = [Synced(user) EXCEPT !.exec = e])
      BY <2>22 DEF UserSynced
    <3>2. /\ user'.act = user.act /\ user'.todo = user.todo
          /\ user'.pc = user.next /\ user'.next = "off"
      BY <3>1 DEF Synced
    <3> HIDE DEF UserRec, UserLess, InterruptPcs
    <3>3. user'.act = "retry" => user'.todo # {} /\ \A s \in user'.todo : work'[<<Retry, s>>].pc = "off"
      BY <2>1, <3>2
    <3>4. {user'.pc, user'.next} \cap {"activate", "reload"} # {} => user'.act = "retry"
      BY <2>1, <3>2
    <3>5. user'.pc = "revive" \/ user'.next = "revive" => user'.act # "retry"
      BY <3>1, <3>2
    <3> QED  BY <3>3, <3>4, <3>5
  <2>23. CASE UserWakes
    BY <2>1, <2>23 DEF UserWakes
  <2>24. CASE UserErrs
    BY <2>1, <2>24 DEF UserErrs
  <2> QED  BY <2>2, <2>3, <2>4, <2>5, <2>6, <2>7, <2>8, <2>9, <2>10, <2>11, <2>12,
              <2>13, <2>14, <2>15, <2>16, <2>17, <2>18, <2>19, <2>20, <2>21, <2>22,
              <2>23, <2>24 DEF HandlerActs
<1> QED  BY <1>2, <1>3

(* What a handler does to the work items: a retry spawns one.              *)
LEMMA HandlerItems ==
  ASSUME Typed, SoundRetry, HandlerActs, NEW o \in Owners, NEW s \in Steps
  PROVE  \/ work'[<<o, s>>] = work[<<o, s>>]
         \/ /\ o = Retry /\ work[<<o, s>>].pc = "off"
            /\ \E e : work'[<<o, s>>] = Launched(e)
<1>1. CASE UNCHANGED work
  BY <1>1
<1>2. CASE RetrySpawns
  <2>1. user.act = "retry"
    BY <1>2 DEF RetrySpawns, SoundRetry
  <2>2. user.todo # {} /\ user.todo \in SUBSET Steps
    BY <2>1 DEF SoundRetry, Typed, TypeOK, UserRec
  <2>3. First(user.todo) \in user.todo
    BY <2>2, FirstIsOne
  <2>4. work[<<Retry, First(user.todo)>>].pc = "off"
    BY <2>1, <2>3 DEF SoundRetry
  <2>5. PICK e : work' = [work EXCEPT ![<<Retry, First(user.todo)>>] = Launched(e)]
    BY <1>2 DEF RetrySpawns, SetWork, Launched
  <2>6. <<o, s>> \in Items /\ work \in [Items -> WorkRec]
    BY DEF Items, Typed, TypeOK
  <2>7. CASE <<o, s>> = <<Retry, First(user.todo)>>
    BY <2>4, <2>5, <2>6, <2>7
  <2>8. CASE <<o, s>> # <<Retry, First(user.todo)>>
    BY <2>5, <2>6, <2>8
  <2> QED  BY <2>7, <2>8
<1> QED  BY <1>1, <1>2, HandlerFrame

LEMMA HandlerKeepsPasses ==
  ASSUME Typed, SoundRetry, SoundPasses, HandlerActs
  PROVE  SoundPasses'
<1>1. UNCHANGED pass
  BY HandlerFrame
<1>2. ASSUME NEW p \in Passes, NEW s \in Steps
      PROVE  work'[<<p, s>>] = work[<<p, s>>]
  <2>1. p \in Owners /\ p # Retry
    BY RetryAssumption DEF Owners
  <2> QED  BY <2>1, HandlerItems
<1> QED  BY <1>1, <1>2 DEF SoundPasses, SoundPass

LEMMA HandlerKeepsSound ==
  ASSUME Sound, HandlerActs
  PROVE  Sound'
<1> USE DEF Sound
<1>1. Typed'
  BY TypedKept DEF Next
<1>2. Calm'
  BY CalmByHandlers
<1>3. SoundItems'
  <2>1. ASSUME NEW o \in Owners, NEW s \in Steps
        PROVE  SoundItem(work'[<<o, s>>])
    BY HandlerItems, OffIsSound DEF SoundItems
  <2> QED  BY <2>1 DEF SoundItems
<1>4. SoundPasses'
  BY HandlerKeepsPasses
<1>5. SoundRetry'
  BY RetryByHandlers DEF Calm
<1> QED  BY <1>1, <1>2, <1>3, <1>4, <1>5

LEMMA HandlerKeepsInv ==
  ASSUME IInv, HandlerActs
  PROVE  IInv'
<1> USE DEF IInv
<1>1. Sound' /\ Typed /\ Calm /\ SoundRetry
  BY HandlerKeepsSound DEF Sound
<1>2. ASSUME NEW s \in Steps, step'[s] = "Running"
      PROVE  Attended(s)'
  <2>1. Attended(s)
    BY <1>1, <1>2, HandlersRunNothing
  <2>2. ASSUME NEW o \in Owners, Attends(o, s)
        PROVE  work'[<<o, s>>] = work[<<o, s>>]
    BY <1>1, <2>2, HandlerItems DEF Attends, Minds
  <2> QED  BY <2>1, <2>2, StillAttended
<1> QED  BY <1>1, <1>2

LEMMA RetryByRequests ==
  ASSUME Typed, Arrives
  PROVE  SoundRetry'
<1> USE DEF SoundRetry, Begins, UserOff
<1>1. CASE StopBegins
  BY <1>1 DEF StopBegins
<1>2. CASE PauseBegins
  BY <1>2 DEF PauseBegins
<1>3. CASE ResumeBegins
  BY <1>3 DEF ResumeBegins
<1>4. CASE CompleteBegins
  BY <1>4 DEF CompleteBegins
<1>5. CASE AcceptBegins
  BY <1>5 DEF AcceptBegins
<1>6. ASSUME NEW s \in Steps, InterruptBegins(s)
      PROVE  SoundRetry'
  BY <1>6 DEF InterruptBegins
<1>7. ASSUME NEW s \in Steps, SkipBegins(s)
      PROVE  SoundRetry'
  BY <1>7 DEF SkipBegins
<1>8. ASSUME NEW s \in Steps, RetryBegins(s)
      PROVE  SoundRetry'
  BY <1>8 DEF RetryBegins
<1>9. ASSUME NEW s \in Steps, AnswerBegins(s)
      PROVE  SoundRetry'
  BY <1>9 DEF AnswerBegins
<1> QED  BY <1>1, <1>2, <1>3, <1>4, <1>5, <1>6, <1>7, <1>8, <1>9 DEF Arrives

LEMMA RequestKeepsSound ==
  ASSUME NoInterrupts, Sound, Arrives
  PROVE  Sound'
<1> USE DEF Sound
<1>1. Typed'
  BY TypedKept DEF Next
<1>2. Calm'
  BY CalmByRequests
<1>3. UNCHANGED <<pass, work>>
  BY RequestFrame
<1>4. SoundItems' /\ SoundPasses'
  BY <1>3 DEF SoundItems, SoundPasses, SoundPass
<1>5. SoundRetry'
  BY RetryByRequests
<1> QED  BY <1>1, <1>2, <1>4, <1>5

(* A restart leaves no pass, no work item, no handler and nothing that is  *)
(* cancelled.                                                              *)
LEMMA RestartKeepsSound ==
  ASSUME Sound, Restarts
  PROVE  Sound'
<1>1. Typed'
  BY TypedKept DEF Sound, Next
<1>2. /\ \A o \in Owners, s \in Steps : work'[<<o, s>>] = WorkOff
      /\ \A p \in Passes : pass'[p] = PassOff
      /\ user' = UserOff /\ cancels' = {}
  BY DEF Restarts, Items
<1>3. Calm' /\ SoundRetry'
  BY <1>2 DEF Calm, SoundRetry, UserOff, InterruptPcs
<1>4. SoundItems'
  BY <1>2, OffIsSound DEF SoundItems
<1>5. SoundPasses'
  BY <1>2, OffIsSound DEF SoundPasses, SoundPass, PassOff, Owners
<1> QED  BY <1>1, <1>3, <1>4, <1>5 DEF Sound

LEMMA InitiallySound ==
  ASSUME Init
  PROVE  Sound
<1>1. Typed
  BY TypedInitially
<1>2. \A o \in Owners, s \in Steps : work[<<o, s>>] = WorkOff
  BY DEF Init, Items
<1>3. Calm /\ SoundRetry
  BY DEF Init, Calm, SoundRetry, UserOff, InterruptPcs
<1>4. SoundItems
  BY <1>2, OffIsSound DEF SoundItems
<1>5. SoundPasses
  BY <1>2, OffIsSound DEF Init, SoundPasses, SoundPass, PassOff, Owners
<1> QED  BY <1>1, <1>3, <1>4, <1>5 DEF Sound

LEMMA NoRestarts ==
  ASSUME Typed, Crashes = 0
  PROVE  ~Restarts
<1>1. budget.crashes = 0
  BY DEF Typed, TypeOK
<1> QED  BY <1>1 DEF Restarts

LEMMA UnchangedIsSound ==
  ASSUME Sound, UNCHANGED vars
  PROVE  Sound'
<1>1. Typed'
  BY TypedKept DEF Sound
<1>2. Calm' /\ SoundItems' /\ SoundPasses' /\ SoundRetry'
  BY DEF Sound, vars, Calm, SoundItems, SoundPasses, SoundPass, SoundRetry
<1> QED  BY <1>1, <1>2 DEF Sound

LEMMA AttendanceKept ==
  ASSUME NoInterruption, IInv, [Next]_vars
  PROVE  IInv'
<1>1. ASSUME NEW p \in Passes, PassActs(p)
      PROVE  IInv'
  BY <1>1, PassKeepsInv
<1>2. ASSUME NEW o \in Owners, NEW s \in Steps, ItemActs(o, s)
      PROVE  IInv'
  BY <1>2, ItemKeepsInv
<1>3. ASSUME NEW s \in Steps, RetryReturns(s)
      PROVE  IInv'
  <2>1. Retry \in Owners
    BY DEF Owners
  <2> QED  BY <1>3, <2>1, ItemKeepsInv
<1>4. CASE Arrives
  <2>1. Sound'
    BY <1>4, RequestKeepsSound DEF IInv, NoInterruption
  <2>2. UNCHANGED <<work, step>>
    BY <1>4, RequestFrame, RequestsRunNothing
  <2> QED  BY <2>1, <2>2, StillAttended DEF IInv
<1>5. CASE HandlerActs
  BY <1>5, HandlerKeepsInv
<1>6. ~Restarts
  BY NoRestarts DEF IInv, Sound, NoInterruption
<1>7. CASE UNCHANGED vars
  <2>1. Sound'
    BY <1>7, UnchangedIsSound DEF IInv
  <2>2. \A s \in Steps : step'[s] = "Running" => Attended(s)'
    BY <1>7 DEF IInv, vars, Attended, Attends, Minds
  <2> QED  BY <2>1, <2>2 DEF IInv
<1> QED  BY <1>1, <1>2, <1>3, <1>4, <1>5, <1>6, <1>7 DEF Next

(* As long as nobody interrupts and the process lives, a step whose row    *)
(* says running is being worked on, or about to be settled: whatever the   *)
(* plan, however many passes run at once (resume_execution spawns them     *)
(* without looking), and however retries, skips, resumes and answers fall  *)
(* between the reads and the writes of the others.                         *)
THEOREM RunningStepsAreAttended ==
  ASSUME NoInterruption
  PROVE  Spec => []NoAbandonedStep
<1>1. Init => IInv
  <2>1. Init => \A s \in Steps : step[s] # "Running"
    BY DEF Init, Bootstrapped
  <2> QED  BY <2>1, InitiallySound DEF IInv
<1>2. IInv /\ [Next]_vars => IInv'
  BY AttendanceKept
<1>3. IInv => NoAbandonedStep
  BY DEF IInv, NoAbandonedStep, Attended, Attends
<1> QED  BY <1>1, <1>2, <1>3, PTL DEF Spec
-----------------------------------------------------------------------------
(* The same when the user stops, pauses and interrupts.  The handler that  *)
(* cancels a run and the run that acknowledges it write the same row in    *)
(* either order, and each trusts the other to settle it: the run that      *)
(* finds no request to acknowledge leaves, the handler that interrupts a   *)
(* running step leaves it to the run.                                      *)

(* Passes run one after another, the process lives, and nobody resumes,    *)
(* approves or completes.  With any of these the property fails: a second  *)
(* pass promotes a step that is running, a resume readies one, an approval *)
(* that was loaded before an interrupt readies an interrupted one, and a   *)
(* completion cancels a run that it then does not settle.                  *)
OnlyInterrupted ==
  /\ Requests \cap {"resume", "approve", "complete"} = {}
  /\ \A p, q \in Passes : p = q
  /\ Crashes = 0

(* Where the handler is, or goes on after a synchronization *)
Places == {user.pc, user.next}

Stopping == {"stop", "pause"}

(* The step has been started.  (Only then can it be interrupted.) *)
Past(s) == step[s] \notin {"Pending", "Ready"}

(* The step's present attempt has been told to stop. *)
Cancelled(s) == <<s, attempt[s]>> \in cancels

(* The item has claimed its step, and its agent has not ended. *)
Claimed(w) == w.pc = "run" \/ (w.pc \in {"sync", "syncing"} /\ w.next = "run")

(* Only the guard writes a second time, and only what is always accepted;  *)
(* the first time the item writes an outcome, from the row as it was       *)
(* claimed or as it was read again.                                        *)
SoundWork(w) ==
  /\ w.next \in {"off", "run", "parked", "ask", "done"}
  /\ w.pc = "record" => w.out \in {"Completed", "Failed", "WaitingInput"}
  /\ w.pc = "acknowledge" => w.out = "Interrupted"
  /\ w.pc = "write" => w.out \in {"Completed", "Failed", "Interrupted"} \cup Parking
  /\ Claimed(w) => w.seen = "Running"
  /\ w.guarded => /\ w.pc \notin {"claim", "run", "record", "acknowledge"}
                  /\ w.pc \in {"sync", "syncing"} => w.next # "run"
                  /\ w.pc = "write" =>
                       <<w.seen, w.out>> \in {<<"InterruptRequested", "Interrupted">>,
                                              <<"Running", "Failed">>,
                                              <<"Revising", "Failed">>}

SoundWorks == \A o \in Owners, s \in Steps : SoundWork(work[<<o, s>>])

(* A step that has an item has been made ready. *)
Readied == \A o \in Owners, s \in Steps : work[<<o, s>>].pc # "off" => step[s] # "Pending"

(* The pass promotes what it has read *)
Reads(p) == pass[p].pc = "promote" \/ pass[p].next = "promote"

(* and what it takes for pending is: nobody else promotes.  What it takes  *)
(* for anything else has been made ready.                                  *)
PassSees(p) ==
  /\ pass[p].pc \notin {"sync", "syncing"} => pass[p].next = "off"
  /\ pass[p].next \notin {"launch", "reload"}
  /\ Reads(p) => \A s \in Steps : pass[p].seen[s] = "Pending" => step[s] = "Pending"
  /\ \A s \in Steps : pass[p].seen[s] # "Pending" => step[s] # "Pending"
  /\ pass[p].pc \in {"launch", "reload"} => \A s \in pass[p].batch : step[s] # "Pending"

PassesSee == \A p \in Passes : PassSees(p)

(* The handler's place fits its request. *)
UserSound ==
  /\ Places \cap {"revive", "hold", "force", "finish"} = {}
  /\ Places \cap {"sweep", "pause"} # {} => user.act \in Stopping
  /\ Places \cap {"request", "settle"} # {} =>
       user.act \in Stopping \cup {"interrupt"} /\ user.todo # {}
  /\ "cancel" \in Places => user.act = "interrupt"
  /\ "record" \in Places => user.act = "reject"
  /\ user.pc \in {"prepare", "ready"} => user.act = "retry"
  /\ user.next \notin {"prepare", "ready"}
  /\ user.act \in Stopping /\ user.pc # "pause" => user.exec \in {"Running", "Paused"}
  /\ user.act \in {"interrupt", "retry"} => \A s, t \in user.todo : s = t

(* What it has loaded has been started, and stays so.  A step it retries   *)
(* is not running, and its new attempt has not been told to stop.          *)
UserMinds ==
  /\ user.act \in Stopping \cup {"interrupt"} =>
       \A s \in user.todo : Past(s) /\ user.seen[s] \in Interruptible
  /\ user.act = "interrupt" /\ Places \cap {"cancel", "settle"} # {} =>
       \A s \in user.todo : step[s] # "Running"
  /\ user.act = "retry" => \A s \in user.todo : step[s] # "Pending"
  /\ user.pc \in {"prepare", "ready"} => \A s \in user.todo : Past(s) /\ step[s] # "Running"
  /\ user.pc = "ready" => \A s \in user.todo : ~Cancelled(s)
  /\ \A s \in Steps : user.seen[s] # "Pending" => step[s] # "Pending"

(* The item holds its step: it goes on with an execution it holds as       *)
(* running, its agent has not been told to stop, and what it is about to   *)
(* write will be accepted.                                                 *)
Holds(o, s) ==
  LET w == work[<<o, s>>] IN
  /\ Minds(o, s)
  /\ w.pc # "acknowledge"
  /\ w.exec = "Running"
  /\ Claimed(w) => w.attempt = attempt[s] /\ ~Cancelled(s)
  /\ w.pc = "write" => StepMayMove("Running", w.seen, w.out)

(* The step's run has been told to stop, and the handler is about to       *)
(* request the interrupt.                                                  *)
BeingStopped(s) ==
  user.pc = "request" /\ user.act \in Stopping /\ s = First(user.todo)

Kept(s) == (\E o \in Owners : Holds(o, s)) \/ BeingStopped(s)

RunningKept == \A s \in Steps : step[s] = "Running" => Kept(s)

(* Only an attempt that has been started is told to stop. *)
CancelsFit ==
  /\ \A s \in Steps : Cancelled(s) => Past(s)
  /\ \A k \in cancels : k[2] <= attempt[k[1]]

(* The inductive invariant *)
Whole ==
  /\ Typed
  /\ SoundPasses
  /\ SoundRetry
  /\ SoundWorks
  /\ Readied
  /\ PassesSee
  /\ UserSound
  /\ UserMinds
  /\ RunningKept
  /\ CancelsFit

(* The statuses go on: a step that was made ready stays so, one that was   *)
(* started is not started again.                                           *)
Onward ==
  \A s \in Steps : /\ step[s] # "Pending" => step'[s] # "Pending"
                   /\ Past(s) => Past(s)' /\ (step'[s] = "Running" => step[s] = "Running")

-----------------------------------------------------------------------------
(* What the actors do to the steps *)

(* A pass makes a pending step ready. *)
LEMMA PassSteps ==
  ASSUME Typed, NEW p \in Passes, PassSees(p), PassActs(p)
  PROVE  \/ UNCHANGED step
         \/ \E s \in Steps : step[s] = "Pending" /\ step' = [step EXCEPT ![s] = "Ready"]
<1>1. CASE PassPromotes(p)
  <2> DEFINE s == First(Promotable(p))
  <2>1. Promotable(p) # {} /\ pass[p].pc = "promote" /\ step' = [step EXCEPT ![s] = "Ready"]
    BY <1>1 DEF PassPromotes, SetStep
  <2>2. s \in Promotable(p)
    BY <2>1, FirstIsOne DEF Promotable
  <2>3. s \in Steps /\ pass[p].seen[s] = "Pending"
    BY <2>2 DEF Promotable
  <2>4. step[s] = "Pending"
    BY <2>1, <2>3 DEF PassSees, Reads
  <2> HIDE DEF s
  <2> QED  BY <2>1, <2>3, <2>4
<1>2. CASE ~PassPromotes(p)
  BY <1>2 DEF PassActs, PassBegins, PassReads, PassSelects, PassLaunches, PassJoins,
              PassJudges, PassSyncs, PassSynced, PassEnds, rows
<1> QED  BY <1>1, <1>2

LEMMA PassOnward ==
  ASSUME Typed, NEW p \in Passes, PassSees(p), PassActs(p)
  PROVE  Onward
<1>1. step \in Table
  BY DEF Typed, TypeOK
<1>2. CASE UNCHANGED step
  BY <1>2 DEF Onward, Past
<1>3. ASSUME NEW s \in Steps, step[s] = "Pending", step' = [step EXCEPT ![s] = "Ready"]
      PROVE  Onward
  BY <1>1, <1>3 DEF Onward, Past, Table
<1> QED  BY <1>2, <1>3, PassSteps

(* Passes and items leave the attempts alone. *)
LEMMA PassAttempts ==
  ASSUME NEW p \in Passes, PassActs(p)
  PROVE  UNCHANGED attempt
BY DEF PassActs, PassBegins, PassReads, PassPromotes, PassSelects, PassLaunches, PassJoins,
       PassJudges, PassSyncs, PassSynced, PassEnds, rows

LEMMA ItemAttempts ==
  ASSUME NEW o \in Owners, NEW s \in Steps, ItemActs(o, s) \/ (o = Retry /\ RetryReturns(s))
  PROVE  UNCHANGED attempt
BY DEF ItemActs, Claims, AgentEnds, AgentFailsToStart, Records, Settles, Acknowledges,
       Errs, Guards, Asks, WorkSyncs, WorkSynced, RetryReturns, rows

(* An item claims its step or writes the outcome. *)
LEMMA ItemSteps ==
  ASSUME NEW o \in Owners, NEW s \in Steps, ItemActs(o, s) \/ (o = Retry /\ RetryReturns(s))
  PROVE  \/ UNCHANGED step
         \/ Claims(o, s) /\ step[s] = "Ready" /\ step' = [step EXCEPT ![s] = "Running"]
         \/ Settles(o, s) /\ step' = [step EXCEPT ![s] = work[<<o, s>>].out]
<1>1. CASE Claims(o, s)
  BY <1>1 DEF Claims, SetStep
<1>2. CASE Settles(o, s)
  BY <1>2 DEF Settles, SetStep
<1>3. CASE ~Claims(o, s) /\ ~Settles(o, s)
  BY <1>3 DEF ItemActs, AgentEnds, AgentFailsToStart, Records, Acknowledges,
              Errs, Guards, Asks, WorkSyncs, WorkSynced, RetryReturns, rows
<1> QED  BY <1>1, <1>2, <1>3

LEMMA ItemOnward ==
  ASSUME Typed, SoundWorks, Readied, NEW o \in Owners, NEW s \in Steps,
         ItemActs(o, s) \/ (o = Retry /\ RetryReturns(s))
  PROVE  /\ Onward
         /\ \A t \in Steps : step[t] = "Pending" => step'[t] = "Pending"
<1>1. step \in Table /\ SoundWork(work[<<o, s>>]) /\ step[s] # "Pending"
  BY ItemsAreOn DEF Typed, TypeOK, SoundWorks, Readied
<1>2. CASE UNCHANGED step
  BY <1>2 DEF Onward, Past
<1>3. CASE Claims(o, s) /\ step[s] = "Ready" /\ step' = [step EXCEPT ![s] = "Running"]
  BY <1>1, <1>3 DEF Onward, Past, Table
<1>4. CASE Settles(o, s) /\ step' = [step EXCEPT ![s] = work[<<o, s>>].out]
  <2>1. work[<<o, s>>].out \in {"Completed", "Failed", "Interrupted"} \cup Parking
    BY <1>1, <1>4 DEF Settles, SoundWork
  <2> QED  BY <1>1, <1>4, <2>1 DEF Onward, Past, Table, Parking
<1> QED  BY <1>2, <1>3, <1>4, ItemSteps
LEMMA OffIsSoundWork ==
  /\ SoundWork(WorkOff)
  /\ \A e : SoundWork(Launched(e))
BY DEF SoundWork, WorkOff, Launched, Claimed

LEMMA WorksByItems ==
  ASSUME Typed, SoundWorks, NEW o \in Owners, NEW s \in Steps,
         ItemActs(o, s) \/ (o = Retry /\ RetryReturns(s))
  PROVE  SoundWorks'
<1>1. <<o, s>> \in Items /\ work \in [Items -> WorkRec]
  BY DEF Typed, TypeOK, Items
<1>2. work[<<o, s>>] \in WorkRec /\ SoundWork(work[<<o, s>>])
  BY <1>1 DEF SoundWorks
<1>3. SoundWork(work'[<<o, s>>])
  <2> USE <1>1, <1>2 DEF SoundWork, Claimed, WorkRec, SetWork
  <2>1. CASE Claims(o, s)
    <3>1. work[<<o, s>>].pc = "claim" /\ ~work[<<o, s>>].guarded
      BY <2>1 DEF Claims
    <3>2. CASE step[s] = "Ready"
      <4>1. work' = [work EXCEPT ![<<o, s>>] =
                      [work[<<o, s>>] EXCEPT !.pc = "sync", !.next = "run",
                         !.seen = "Running", !.attempt = attempt[s]]]
        BY <2>1, <3>2 DEF Claims
      <4> QED  BY <3>1, <4>1
    <3>3. CASE step[s] # "Ready"
      <4>1. work' = [work EXCEPT ![<<o, s>>] =
                      [work[<<o, s>>] EXCEPT !.pc = "done", !.out = "Completed"]]
        BY <2>1, <3>3 DEF Claims
      <4> QED  BY <3>1, <4>1
    <3> QED  BY <3>2, <3>3
  <2>2. CASE AgentEnds(o, s)
    <3>1. work[<<o, s>>].pc = "run" /\ ~work[<<o, s>>].guarded
      BY <2>2 DEF AgentEnds
    <3>2. ASSUME NEW out \in {"Completed", "Failed", "WaitingInput"},
                 work' = [work EXCEPT ![<<o, s>>] =
                           [work[<<o, s>>] EXCEPT !.pc = "record", !.out = out]]
          PROVE  SoundWork(work'[<<o, s>>])
      BY <3>1, <3>2
    <3>3. ASSUME NEW out \in Parking,
                 work' = [work EXCEPT ![<<o, s>>] =
                           [work[<<o, s>>] EXCEPT !.pc = "write", !.out = out]]
          PROVE  SoundWork(work'[<<o, s>>])
      BY <3>1, <3>3
    <3>4. ASSUME work' = [work EXCEPT ![<<o, s>>] =
                           [work[<<o, s>>] EXCEPT !.pc = "acknowledge", !.out = "Interrupted"]]
          PROVE  SoundWork(work'[<<o, s>>])
      BY <3>1, <3>4
    <3> QED  BY <2>2, <3>2, <3>3, <3>4 DEF AgentEnds
  <2>3. CASE AgentFailsToStart(o, s)
    BY <2>3 DEF AgentFailsToStart
  <2>4. CASE Records(o, s)
    <3>1. /\ work[<<o, s>>].pc = "record" /\ ~work[<<o, s>>].guarded
          /\ work[<<o, s>>].next \in {"off", "run", "parked", "ask", "done"}
          /\ work[<<o, s>>].out \in {"Completed", "Failed", "WaitingInput"}
      BY <2>4 DEF Records
    <3>2. work'[<<o, s>>] = [work[<<o, s>>] EXCEPT !.pc = "write", !.seen = step[s]]
      BY <2>4 DEF Records
    <3> QED  BY <3>1, <3>2 DEF Parking
  <2>5. CASE Settles(o, s)
    BY <2>5 DEF Settles
  <2>6. CASE Acknowledges(o, s)
    BY <2>6 DEF Acknowledges
  <2>7. CASE Errs(o, s)
    BY <2>7 DEF Errs
  <2>8. CASE Guards(o, s)
    BY <2>8 DEF Guards
  <2>9. CASE Asks(o, s)
    BY <2>9 DEF Asks
  <2>10. CASE WorkSyncs(o, s)
    BY <2>10 DEF WorkSyncs, SyncRead
  <2>11. CASE WorkSynced(o, s)
    BY <2>11 DEF WorkSynced, Synced, WorkOff
  <2>12. CASE o = Retry /\ RetryReturns(s)
    BY <2>12 DEF RetryReturns, WorkOff
  <2> QED  BY <2>1, <2>2, <2>3, <2>4, <2>5, <2>6, <2>7, <2>8, <2>9, <2>10, <2>11, <2>12 DEF ItemActs
<1>4. ASSUME NEW r \in Owners, NEW t \in Steps
      PROVE  SoundWork(work'[<<r, t>>])
  <2>1. CASE <<r, t>> = <<o, s>>
    BY <2>1, <1>3
  <2>2. CASE <<r, t>> # <<o, s>>
    <3>1. work'[<<r, t>>] = work[<<r, t>>]
      BY <2>2, ItemFrame DEF Items
    <3> QED  BY <3>1 DEF SoundWorks
  <2> QED  BY <2>1, <2>2
<1> QED  BY <1>4 DEF SoundWorks

(* An item that is not touched, and whose attempt is told nothing, holds   *)
(* its step as before.                                                     *)
LEMMA StillHeld ==
  ASSUME NEW o \in Owners, NEW s \in Steps, Holds(o, s),
         work'[<<o, s>>] = work[<<o, s>>], attempt'[s] = attempt[s],
         Cancelled(s)' => Cancelled(s)
  PROVE  Holds(o, s)'
BY DEF Holds, Minds, Claimed

(* The transitions out of "Running" that an item may ask for. *)
LEMMA OutcomeIsAccepted ==
  ASSUME NEW out \in {"Completed", "Failed"} \cup Parking
  PROVE  StepMayMove("Running", "Running", out)
BY DEF StepMayMove, StepMoves, StepsUnder, StepStatus, Parking

(* An item that holds its step does so until the step is settled. *)
LEMMA ItemKeepsHolding ==
  ASSUME Typed, SoundWorks, NEW o \in Owners, NEW s \in Steps, ItemActs(o, s),
         Holds(o, s), step[s] = "Running", step'[s] = "Running"
  PROVE  Holds(o, s)'
<1> DEFINE w == work[<<o, s>>]
<1>1. /\ <<o, s>> \in Items /\ work \in [Items -> WorkRec] /\ step \in Table
      /\ w \in WorkRec /\ SoundWork(w)
  BY DEF Typed, TypeOK, Items, SoundWorks
<1>2. /\ Minds(o, s) /\ w.pc # "acknowledge" /\ w.exec = "Running"
      /\ Claimed(w) => w.attempt = attempt[s] /\ ~Cancelled(s)
      /\ w.pc = "write" => StepMayMove("Running", w.seen, w.out)
  BY DEF Holds
<1>3. attempt' = attempt /\ cancels' \subseteq cancels
  BY ItemAttempts, ItemsClear
<1>4. ASSUME NEW r, work' = [work EXCEPT ![<<o, s>>] = r]
      PROVE  work'[<<o, s>>] = r
  BY <1>1, <1>4
<1>5. CASE Claims(o, s)
  BY <1>2, <1>5 DEF Claims, Minds
<1>6. CASE AgentEnds(o, s)
  <2>1. w.pc = "run" /\ w.seen = "Running" /\ <<s, w.attempt>> \notin cancels
    BY <1>1, <1>2, <1>6 DEF AgentEnds, SoundWork, Claimed, Cancelled
  <2>2. ASSUME NEW out \in {"Completed", "Failed", "WaitingInput"},
               work' = [work EXCEPT ![<<o, s>>] = [w EXCEPT !.pc = "record", !.out = out]]
        PROVE  Holds(o, s)'
    <3>1. work'[<<o, s>>] = [w EXCEPT !.pc = "record", !.out = out]
      BY <1>4, <2>2
    <3> QED  BY <1>1, <1>2, <3>1 DEF Holds, Minds, Claimed, WorkRec
  <2>3. ASSUME NEW out \in Parking,
               work' = [work EXCEPT ![<<o, s>>] = [w EXCEPT !.pc = "write", !.out = out]]
        PROVE  Holds(o, s)'
    <3>1. work'[<<o, s>>] = [w EXCEPT !.pc = "write", !.out = out]
      BY <1>4, <2>3
    <3> QED  BY <1>1, <1>2, <2>1, <3>1, OutcomeIsAccepted DEF Holds, Minds, Claimed, WorkRec
  <2> QED  BY <1>6, <2>1, <2>2, <2>3 DEF AgentEnds, SetWork
<1>7. CASE AgentFailsToStart(o, s)
  <2>1. work'[<<o, s>>] = [w EXCEPT !.pc = "record", !.out = "Failed"]
    BY <1>4, <1>7 DEF AgentFailsToStart, SetWork
  <2> QED  BY <1>1, <1>2, <2>1 DEF Holds, Minds, Claimed, WorkRec
<1>8. CASE Records(o, s)
  <2>1. w.out \in {"Completed", "Failed"} \cup Parking
    BY <1>1, <1>8 DEF Records, SoundWork, Parking
  <2>2. work'[<<o, s>>] = [w EXCEPT !.pc = "write", !.seen = "Running"]
    BY <1>4, <1>8 DEF Records, SetWork
  <2> QED  BY <1>1, <1>2, <2>1, <2>2, OutcomeIsAccepted DEF Holds, Minds, Claimed, WorkRec
<1>9. CASE Settles(o, s)
  <2>1. step'[s] = w.out
    BY <1>1, <1>9 DEF Settles, SetStep, Table
  <2> QED  BY <1>1, <1>9, <2>1 DEF Settles, SoundWork, Parking
<1>10. CASE Acknowledges(o, s)
  BY <1>2, <1>10 DEF Acknowledges
<1>11. CASE Errs(o, s)
  <2>1. w.pc = "syncing" /\ w.next = "run" /\ ~w.guarded
    BY <1>1, <1>2, <1>11 DEF Errs, Minds, SoundWork
  <2>2. work'[<<o, s>>] = [w EXCEPT !.pc = "guard", !.guarded = TRUE, !.next = "off",
                                    !.snapExec = "Pending", !.snapStep = Blank]
    BY <1>4, <1>11, <2>1 DEF Errs, SetWork
  <2> QED  BY <1>1, <1>2, <2>2 DEF Holds, Minds, Claimed, WorkRec
<1>12. CASE Guards(o, s)
  <2>1. work'[<<o, s>>] = [w EXCEPT !.pc = "write", !.seen = "Running", !.out = "Failed"]
    BY <1>4, <1>12 DEF Guards, SetWork
  <2> QED  BY <1>1, <1>2, <2>1, GuardIsAccepted DEF Holds, Minds, Claimed, WorkRec
<1>13. CASE Asks(o, s)
  BY <1>2, <1>13 DEF Asks, Minds
<1>14. CASE WorkSyncs(o, s)
  <2>1. w.pc = "sync" /\ w.next = "run"
    BY <1>2, <1>14 DEF WorkSyncs, Minds
  <2>2. work'[<<o, s>>] = [w EXCEPT !.pc = "syncing", !.next = "run",
                                    !.snapExec = exec, !.snapStep = step]
    BY <1>4, <1>14, <2>1 DEF WorkSyncs, SetWork, SyncRead
  <2> QED  BY <1>1, <1>2, <1>3, <2>1, <2>2 DEF Holds, Minds, Claimed, Cancelled, WorkRec
<1>15. CASE WorkSynced(o, s)
  <2>1. w.pc = "syncing" /\ w.next = "run"
    BY <1>2, <1>15 DEF WorkSynced, Minds
  <2>2. work'[<<o, s>>] = [w EXCEPT !.pc = "run", !.next = "off",
                                    !.snapExec = "Pending", !.snapStep = Blank]
    BY <1>4, <1>15, <2>1 DEF WorkSynced, SetWork, Synced
  <2> QED  BY <1>1, <1>2, <1>3, <2>1, <2>2 DEF Holds, Minds, Claimed, Cancelled, WorkRec
<1> QED  BY <1>5, <1>6, <1>7, <1>8, <1>9, <1>10, <1>11, <1>12, <1>13, <1>14, <1>15 DEF ItemActs

(* An item that has just claimed its step holds it. *)
LEMMA ClaimHolds ==
  ASSUME Typed, CancelsFit, NEW o \in Owners, NEW s \in Steps, Claims(o, s), step[s] = "Ready"
  PROVE  Holds(o, s)'
<1>1. /\ <<o, s>> \in Items /\ work \in [Items -> WorkRec]
      /\ work[<<o, s>>] \in WorkRec
  BY DEF Typed, TypeOK, Items
<1>2. work[<<o, s>>].exec = "Running"
  BY <1>1, RunsUnder DEF Claims, WorkRec
<1>3. ~Cancelled(s) /\ UNCHANGED <<attempt, cancels>>
  BY DEF CancelsFit, Past, Claims
<1>4. work'[<<o, s>>] = [work[<<o, s>>] EXCEPT !.pc = "sync", !.next = "run",
                           !.seen = "Running", !.attempt = attempt[s]]
  BY <1>1 DEF Claims, SetWork
<1> QED  BY <1>1, <1>2, <1>3, <1>4 DEF Holds, Minds, Claimed, Cancelled, WorkRec

LEMMA RunningKeptByItems ==
  ASSUME Typed, SoundWorks, CancelsFit, RunningKept, NEW o \in Owners, NEW s \in Steps,
         ItemActs(o, s) \/ (o = Retry /\ RetryReturns(s))
  PROVE  RunningKept'
<1>1. /\ UNCHANGED <<user, attempt>>
      /\ \A r \in Owners, t \in Steps :
           <<r, t>> # <<o, s>> => work'[<<r, t>>] = work[<<r, t>>]
  BY ItemFrame, ItemAttempts DEF Items
<1>2. cancels' \subseteq cancels
  <2>1. CASE ItemActs(o, s)
    BY <2>1, ItemsClear
  <2>2. CASE RetryReturns(s)
    BY <2>2 DEF RetryReturns
  <2> QED  BY <2>1, <2>2
<1>3. ASSUME NEW r \in Owners, NEW t \in Steps, Holds(r, t), <<r, t>> # <<o, s>>
      PROVE  Holds(r, t)'
  BY <1>1, <1>2, <1>3, StillHeld DEF Cancelled
<1>4. ASSUME NEW t \in Steps, BeingStopped(t)
      PROVE  BeingStopped(t)'
  BY <1>1, <1>4 DEF BeingStopped
<1>5. ASSUME NEW t \in Steps, step'[t] = "Running", step[t] = "Running"
      PROVE  Kept(t)'
  <2>1. CASE BeingStopped(t)
    BY <1>4, <2>1 DEF Kept
  <2>2. ASSUME NEW r \in Owners, Holds(r, t)
        PROVE  Holds(r, t)'
    <3>1. CASE <<r, t>> # <<o, s>>
      BY <1>3, <2>2, <3>1
    <3>2. CASE <<r, t>> = <<o, s>> /\ ItemActs(o, s)
      BY <1>5, <2>2, <3>2, ItemKeepsHolding
    <3>3. CASE <<r, t>> = <<o, s>> /\ RetryReturns(s) /\ o = Retry
      BY <2>2, <3>3 DEF Holds, Minds, RetryReturns
    <3> QED  BY <3>1, <3>2, <3>3
  <2> QED  BY <1>5, <2>1, <2>2 DEF RunningKept, Kept
<1>6. ASSUME NEW t \in Steps, step'[t] = "Running", step[t] # "Running"
      PROVE  Kept(t)'
  <2>0. step \in Table /\ SoundWork(work[<<o, s>>])
    BY DEF Typed, TypeOK, SoundWorks
  <2>1. CASE Claims(o, s) /\ step[s] = "Ready" /\ step' = [step EXCEPT ![s] = "Running"]
    <3>1. t = s
      BY <1>6, <2>0, <2>1 DEF Table
    <3> QED  BY <2>1, <3>1, ClaimHolds DEF Kept
  <2>2. CASE Settles(o, s) /\ step' = [step EXCEPT ![s] = work[<<o, s>>].out]
    BY <1>6, <2>0, <2>2 DEF Settles, SoundWork, Table, Parking
  <2> QED  BY <1>6, <2>1, <2>2, ItemSteps
<1> QED  BY <1>5, <1>6 DEF RunningKept
LEMMA CancelsKept ==
  ASSUME CancelsFit, Onward, UNCHANGED attempt, cancels' \subseteq cancels
  PROVE  CancelsFit'
BY DEF CancelsFit, Onward, Cancelled

LEMMA UserMindsKept ==
  ASSUME Typed, UserMinds, Onward, UNCHANGED <<user, attempt>>, cancels' \subseteq cancels
  PROVE  UserMinds'
<1>1. user.todo \subseteq Steps
  BY DEF Typed, TypeOK, UserRec
<1>2. user.act \in Stopping \cup {"interrupt"} =>
        \A s \in user.todo : Past(s)' /\ user.seen[s] \in Interruptible
  BY <1>1 DEF UserMinds, Onward
<1>3. user.act = "interrupt" /\ Places \cap {"cancel", "settle"} # {} =>
        \A s \in user.todo : step'[s] # "Running"
  BY <1>1 DEF UserMinds, Onward
<1>4. user.act = "retry" => \A s \in user.todo : step'[s] # "Pending"
  BY <1>1 DEF UserMinds, Onward
<1>5. user.pc \in {"prepare", "ready"} =>
        \A s \in user.todo : Past(s)' /\ step'[s] # "Running"
  BY <1>1 DEF UserMinds, Onward
<1>6. user.pc = "ready" => \A s \in user.todo : ~Cancelled(s)'
  BY DEF UserMinds, Cancelled
<1>7. \A s \in Steps : user.seen[s] # "Pending" => step'[s] # "Pending"
  BY DEF UserMinds, Onward
<1> QED  BY <1>2, <1>3, <1>4, <1>5, <1>6, <1>7 DEF UserMinds, Places

LEMMA UserSoundKept ==
  ASSUME UserSound, UNCHANGED user
  PROVE  UserSound'
BY DEF UserSound, Places

-----------------------------------------------------------------------------
(* A pass keeps the invariant. *)

LEMMA PassStillSees ==
  ASSUME Typed, NEW p \in Passes, PassSees(p), PassActs(p)
  PROVE  PassSees(p)'
<1>1. pass \in [Passes -> PassRec] /\ pass[p] \in PassRec /\ step \in Table
  BY DEF Typed, TypeOK
<1>2. Blank = [s \in Steps |-> "Pending"]
  BY DEF Blank
<1>3. ASSUME NEW r, SetPass(p, r)
      PROVE  pass'[p] = r
  BY <1>1, <1>3 DEF SetPass
<1>0. ASSUME pass'[p] = PassOff
      PROVE  PassSees(p)'
  BY <1>0, <1>2 DEF PassSees, Reads, PassOff
<1>4. CASE PassBegins(p)
  <2>1. /\ pass[p].pc = "off" /\ UNCHANGED step
        /\ pass'[p] = pass[p] \/ pass'[p] = [pass[p] EXCEPT !.pc = "read"]
    BY <1>1, <1>4 DEF PassBegins, rows
  <2> QED  BY <1>1, <2>1 DEF PassSees, Reads, PassRec
<1>5. CASE PassReads(p)
  <2>1. /\ UNCHANGED step
        /\ pass'[p] = [pass[p] EXCEPT !.pc = "sync", !.next = "promote", !.seen = step]
    BY <1>3, <1>5 DEF PassReads, rows
  <2> QED  BY <1>1, <2>1 DEF PassSees, Reads, PassRec
<1>6. CASE PassPromotes(p)
  <2> DEFINE s == First(Promotable(p))
  <2>1. /\ Promotable(p) # {} /\ pass[p].pc = "promote" /\ step' = [step EXCEPT ![s] = "Ready"]
        /\ pass'[p] = [pass[p] EXCEPT !.seen[s] = "Ready"]
    BY <1>3, <1>6 DEF PassPromotes, SetStep
  <2>2. s \in Promotable(p)
    BY <2>1, FirstIsOne DEF Promotable
  <2>3. s \in Steps
    BY <2>2 DEF Promotable
  <2> HIDE DEF s
  <2>4. /\ pass'[p].pc = "promote" /\ pass'[p].next = "off"
        /\ pass'[p].seen = [pass[p].seen EXCEPT ![s] = "Ready"]
    BY <1>1, <2>1 DEF PassRec, PassSees
  <2>5. ASSUME NEW t \in Steps
        PROVE  /\ pass'[p].seen[t] = "Pending" => step'[t] = "Pending"
               /\ pass'[p].seen[t] # "Pending" => step'[t] # "Pending"
    <3>1. CASE t = s
      BY <1>1, <2>1, <2>3, <2>4, <3>1 DEF PassRec, Table
    <3>2. CASE t # s
      BY <1>1, <2>1, <2>3, <2>4, <3>2 DEF PassRec, Table, PassSees, Reads
    <3> QED  BY <3>1, <3>2
  <2> QED  BY <2>4, <2>5 DEF PassSees
<1>7. CASE PassSelects(p)
  <2>1. PICK pc \in {"launch", "reload"} :
          pass'[p] = [pass[p] EXCEPT !.pc = pc, !.batch = Candidates(p)]
    BY <1>3, <1>7 DEF PassSelects
  <2>2. pass[p].pc = "select" /\ UNCHANGED step
    BY <1>7 DEF PassSelects
  <2>3. \A s \in Candidates(p) : step[s] # "Pending"
    BY CandidatesAreReady DEF PassSees
  <2> QED  BY <1>1, <2>1, <2>2, <2>3 DEF PassSees, Reads, PassRec
<1>8. CASE PassLaunches(p)
  <2>1. PICK e : pass'[p] = [pass[p] EXCEPT !.pc = "join", !.exec = e, !.seen = Blank]
    BY <1>3, <1>8 DEF PassLaunches
  <2>2. pass[p].pc \in {"launch", "reload"} /\ UNCHANGED step
    BY <1>8 DEF PassLaunches, rows
  <2> QED  BY <1>1, <1>2, <2>1, <2>2 DEF PassSees, Reads, PassRec
<1>9. CASE PassJoins(p)
  <2>1. UNCHANGED step
    BY <1>9 DEF PassJoins, rows
  <2>2. ASSUME NEW h, pass'[p] = [pass[p] EXCEPT !.pc = "sync", !.next = "judge",
                                                 !.batch = {}, !.halt = h]
        PROVE  PassSees(p)'
    BY <1>1, <2>1, <2>2 DEF PassSees, Reads, PassRec
  <2> QED  BY <1>0, <1>3, <1>9, <2>2 DEF PassJoins
<1>10. CASE PassJudges(p)
  <2>1. pass'[p] \in {PassOff, [PassOff EXCEPT !.pc = "read"]} /\ UNCHANGED step
    BY <1>3, <1>10 DEF PassJudges, rows
  <2> QED  BY <1>2, <2>1 DEF PassSees, Reads, PassOff
<1>11. CASE PassSyncs(p)
  <2>1. PICK next : /\ \/ pass[p].pc = "sync" /\ next = pass[p].next
                       \/ pass[p].pc = "promote" /\ next = "select"
                       \/ pass[p].pc = "select" /\ next = "off"
                    /\ pass'[p] = SyncRead(pass[p], next)
    BY <1>3, <1>11 DEF PassSyncs
  <2>2. UNCHANGED step
    BY <1>11 DEF PassSyncs, rows
  <2> QED  BY <1>1, <2>1, <2>2 DEF PassSees, Reads, PassRec, SyncRead
<1>12. CASE PassSynced(p)
  <2>1. UNCHANGED step
    BY <1>12 DEF PassSynced
  <2>2. ASSUME NEW e, pass'[p] = [Synced(pass[p]) EXCEPT !.exec = e]
        PROVE  PassSees(p)'
    BY <1>1, <1>12, <2>1, <2>2 DEF PassSynced, PassSees, Reads, PassRec, Synced
  <2> QED  BY <1>0, <1>3, <1>12, <2>2 DEF PassSynced
<1>13. CASE PassEnds(p)
  <2>1. pass'[p] = PassOff /\ UNCHANGED step
    BY <1>3, <1>13 DEF PassEnds, rows
  <2> QED  BY <1>2, <2>1 DEF PassSees, Reads, PassOff
<1> QED  BY <1>4, <1>5, <1>6, <1>7, <1>8, <1>9, <1>10, <1>11, <1>12, <1>13 DEF PassActs

(* A pass leaves an item alone until it has returned. *)
LEMMA PassLeavesBusy ==
  ASSUME Typed, SoundPasses, NEW p \in Passes, PassActs(p),
         NEW o \in Owners, NEW s \in Steps, work[<<o, s>>].pc \notin {"off", "done"}
  PROVE  work'[<<o, s>>] = work[<<o, s>>]
<1>1. CASE o # p
  BY <1>1, PassItems
<1>2. CASE o = p
  <2>1. pass[p].pc = "join" /\ s \in pass[p].batch
    BY <1>2 DEF SoundPasses, SoundPass
  <2>2. ~PassLaunches(p) /\ ~PassJoins(p)
    BY <1>2, <2>1 DEF PassLaunches, PassJoins
  <2> QED  BY <2>2, PassFrame
<1> QED  BY <1>1, <1>2

(* It launches an item for a step it has made, or found, ready. *)
LEMMA PassReadies ==
  ASSUME Typed, Readied, NEW p \in Passes, PassSees(p), PassActs(p)
  PROVE  Readied'
<1>1. Onward
  BY PassOnward
<1>2. ASSUME NEW o \in Owners, NEW s \in Steps, work'[<<o, s>>].pc # "off"
      PROVE  step[s] # "Pending"
  <2>1. CASE PassLaunches(p)
    <3>1. <<o, s>> \in Items /\ <<o, s>>[1] = o /\ <<o, s>>[2] = s
      BY DEF Items
    <3>2. CASE o = p /\ s \in pass[p].batch
      BY <2>1, <3>2 DEF PassLaunches, PassSees
    <3>3. CASE ~(o = p /\ s \in pass[p].batch)
      <4>1. work'[<<o, s>>] = work[<<o, s>>]
        BY <2>1, <3>1, <3>3 DEF PassLaunches
      <4> QED  BY <1>2, <4>1 DEF Readied
    <3> QED  BY <3>2, <3>3
  <2>2. CASE PassJoins(p)
    <3>1. <<o, s>> \in Items /\ <<o, s>>[1] = o
      BY DEF Items
    <3>2. work'[<<o, s>>] \in {work[<<o, s>>], WorkOff}
      BY <2>2, <3>1 DEF PassJoins
    <3> QED  BY <1>2, <3>2 DEF Readied, WorkOff
  <2>3. CASE UNCHANGED work
    BY <1>2, <2>3 DEF Readied
  <2> QED  BY <2>1, <2>2, <2>3, PassFrame
<1> QED  BY <1>1, <1>2 DEF Readied, Onward

LEMMA RunningKeptByPasses ==
  ASSUME Typed, SoundPasses, RunningKept, NEW p \in Passes, PassActs(p)
  PROVE  RunningKept'
<1>1. UNCHANGED <<user, cancels, attempt>>
  BY PassFrame, PassAttempts
<1>2. ASSUME NEW s \in Steps, step'[s] = "Running"
      PROVE  Kept(s)'
  <2>1. Kept(s)
    BY <1>2, PassesRunNothing DEF RunningKept
  <2>2. ASSUME NEW o \in Owners, Holds(o, s)
        PROVE  Holds(o, s)'
    <3>1. work'[<<o, s>>] = work[<<o, s>>]
      BY <2>2, PassLeavesBusy DEF Holds, Minds
    <3> QED  BY <1>1, <2>2, <3>1, StillHeld DEF Cancelled
  <2>3. BeingStopped(s) => BeingStopped(s)'
    BY <1>1 DEF BeingStopped
  <2> QED  BY <2>1, <2>2, <2>3 DEF Kept
<1> QED  BY <1>2 DEF RunningKept

LEMMA PassKeepsWhole ==
  ASSUME OnlyInterrupted, Whole, NEW p \in Passes, PassActs(p)
  PROVE  Whole'
<1> USE DEF Whole
<1>1. Typed'
  BY TypedKept DEF Next
<1>2. UNCHANGED <<user, cancels, attempt>> /\ PassSees(p) /\ Onward
  BY PassFrame, PassAttempts, PassOnward DEF PassesSee
<1>3. SoundPasses' /\ SoundRetry' /\ Readied' /\ RunningKept'
  BY <1>2, PassKeepsPasses, PassKeepsRetry, PassReadies, RunningKeptByPasses
<1>4. SoundWorks'
  <2>1. ASSUME NEW o \in Owners, NEW s \in Steps
        PROVE  SoundWork(work'[<<o, s>>])
    BY PassItems, OffIsSoundWork DEF SoundWorks
  <2> QED  BY <2>1 DEF SoundWorks
<1>5. PassesSee'
  <2>1. PassSees(p)'
    BY <1>2, PassStillSees
  <2>2. \A q \in Passes : q = p
    BY DEF OnlyInterrupted
  <2> QED  BY <2>1, <2>2 DEF PassesSee
<1>6. UserSound' /\ UserMinds' /\ CancelsFit'
  BY <1>2, UserSoundKept, UserMindsKept, CancelsKept
<1> QED  BY <1>1, <1>3, <1>4, <1>5, <1>6

-----------------------------------------------------------------------------
(* A work item keeps it. *)

(* The pass goes on seeing the pending steps when their statuses stay. *)
LEMMA PassesStillSee ==
  ASSUME Typed, PassesSee, UNCHANGED pass, Onward,
         \A s \in Steps : step[s] = "Pending" => step'[s] = "Pending"
  PROVE  PassesSee'
<1>1. \A p \in Passes : pass[p].batch \subseteq Steps
  BY DEF Typed, TypeOK, PassRec
<1> QED  BY <1>1 DEF PassesSee, PassSees, Reads, Onward

LEMMA ItemKeepsWhole ==
  ASSUME Whole, NEW o \in Owners, NEW s \in Steps,
         ItemActs(o, s) \/ (o = Retry /\ RetryReturns(s))
  PROVE  Whole'
<1> USE DEF Whole
<1>1. Typed'
  BY TypedKept DEF Next
<1>2. UNCHANGED <<user, pass, attempt>>
  BY ItemFrame, ItemAttempts
<1>3. cancels' \subseteq cancels
  <2>1. CASE ItemActs(o, s)
    BY <2>1, ItemsClear
  <2>2. CASE RetryReturns(s)
    BY <2>2 DEF RetryReturns
  <2> QED  BY <2>1, <2>2
<1>4. Onward /\ (\A t \in Steps : step[t] = "Pending" => step'[t] = "Pending")
  BY ItemOnward
<1>5. SoundPasses' /\ SoundRetry' /\ SoundWorks' /\ RunningKept'
  BY ItemKeepsPasses, ItemKeepsRetry, WorksByItems, RunningKeptByItems
<1>6. Readied'
  <2>1. ASSUME NEW r \in Owners, NEW t \in Steps, work'[<<r, t>>].pc # "off"
        PROVE  step[t] # "Pending"
    <3>1. CASE <<r, t>> = <<o, s>>
      BY <3>1, ItemsAreOn DEF Readied
    <3>2. CASE <<r, t>> # <<o, s>>
      BY <2>1, <3>2, ItemFrame DEF Readied, Items
    <3> QED  BY <3>1, <3>2
  <2> QED  BY <1>4, <2>1 DEF Readied, Onward
<1>7. PassesSee' /\ UserSound' /\ UserMinds' /\ CancelsFit'
  BY <1>2, <1>3, <1>4, PassesStillSee, UserSoundKept, UserMindsKept, CancelsKept
<1> QED  BY <1>1, <1>5, <1>6, <1>7
-----------------------------------------------------------------------------
(* A handler keeps it. *)

(* An action of a handler that goes on *)
LEMMA UserSoundByHandlers ==
  ASSUME Typed, UserSound, HandlerActs
  PROVE  UserSound'
<1>1. user \in UserRec /\ Aimed
  BY DEF Typed, TypeOK
<1>2. CASE user' = UserOff
  BY <1>2 DEF UserSound, Places, UserOff, Stopping
<1>3. CASE user' # UserOff
  <2> USE <1>1, <1>3 DEF UserSound, Places, Stopping, UserRec, Aimed
  <2>1. CASE UserSweeps
    BY <2>1 DEF UserSweeps
  <2>2. CASE UserRequests
    BY <2>2 DEF UserRequests
  <2>3. CASE UserSettles
    BY <2>3 DEF UserSettles
  <2>4. CASE StopEnds
    BY <2>4 DEF StopEnds
  <2>5. CASE PauseEnds
    BY <2>5 DEF PauseEnds
  <2>6. CASE InterruptCancels
    <3>1. user.pc = "cancel" /\ user' = [user EXCEPT !.pc = "settle"]
      BY <2>6 DEF InterruptCancels
    <3> QED  BY <3>1
  <2>7. CASE Skips
    <3>1. user.pc = "skip" /\ user' = [user EXCEPT !.pc = "sync", !.next = "again"]
      BY <2>7 DEF Skips
    <3> QED  BY <3>1
  <2>8. CASE RetryPrepares
    BY <2>8 DEF RetryPrepares
  <2>9. CASE UserReadies
    BY <2>9 DEF UserReadies
  <2>10. CASE RetryActivates
    BY <2>10 DEF RetryActivates
  <2>11. CASE RetrySpawns
    BY <2>11 DEF RetrySpawns
  <2>12. CASE ResumeRevives
    BY <2>12 DEF ResumeRevives
  <2>13. CASE AnswerRecords
    BY <2>13 DEF AnswerRecords
  <2>14. CASE AnswerFails
    BY <2>14 DEF AnswerFails
  <2>15. CASE CompleteHolds
    BY <2>15 DEF CompleteHolds
  <2>16. CASE CompleteForces
    BY <2>16 DEF CompleteForces
  <2>17. CASE CompleteCloses
    BY <2>17 DEF CompleteCloses
  <2>18. CASE CompleteEnds
    BY <2>18 DEF CompleteEnds
  <2>19. CASE AcceptEnds
    BY <2>19 DEF AcceptEnds
  <2>20. CASE UserSyncs
    BY <2>20 DEF UserSyncs, SyncRead
  <2>21. CASE UserSynced
    <3>1. user.pc = "syncing" /\ user' = [Synced(user) EXCEPT !.exec =
                                            IF user.next = "pause" THEN exec' ELSE @]
      BY <2>21 DEF UserSynced
    <3>2. /\ user'.act = user.act /\ user'.todo = user.todo
          /\ user'.pc = user.next /\ user'.next = "off"
          /\ user.next # "pause" => user'.exec = user.exec
      BY <3>1 DEF Synced
    <3>3. {user.next, "off"} \cap {"revive", "hold", "force", "finish"} = {}
      OBVIOUS
    <3> HIDE DEF UserRec, Aimed
    <3> QED  BY <3>1, <3>2, <3>3
  <2>22. CASE UserWakes
    BY <2>22 DEF UserWakes
  <2>23. CASE UserErrs
    BY <2>23 DEF UserErrs
  <2> QED  BY <2>1, <2>2, <2>3, <2>4, <2>5, <2>6, <2>7, <2>8, <2>9, <2>10, <2>11,
              <2>12, <2>13, <2>14, <2>15, <2>16, <2>17, <2>18, <2>19, <2>20, <2>21,
              <2>22, <2>23 DEF HandlerActs
<1> QED  BY <1>2, <1>3

(* The step a handler interrupts, settles or retries is on its list. *)
LEMMA OnTheList ==
  ASSUME Typed, UserSound, SoundRetry,
         \/ user.pc \in {"request", "settle", "cancel", "prepare", "ready"}
         \/ user.pc = "sweep" /\ user.todo # {}
  PROVE  First(user.todo) \in user.todo /\ First(user.todo) \in Steps
<1>1. user.todo \in SUBSET Steps
  BY DEF Typed, TypeOK, UserRec
<1>2. user.todo # {}
  BY DEF Typed, Aimed, UserSound, Places, SoundRetry
<1> QED  BY <1>1, <1>2, FirstIsOne

(* What a handler writes: it interrupts, skips or fails a step that has    *)
(* been made ready, or makes the one it retries ready.                     *)
Interrupts(s, to) ==
  /\ step[s] # "Pending"
  /\ to \in {"InterruptRequested", "Interrupted", "Skipped", "Failed"}
  /\ step' = [step EXCEPT ![s] = to]

LEMMA HandlerSteps ==
  ASSUME Typed, UserSound, SoundRetry, UserMinds, HandlerActs
  PROVE  \/ UNCHANGED step
         \/ \E s \in Steps, to \in StepStatus : Interrupts(s, to)
         \/ UserReadies
<1> DEFINE s == First(user.todo)
<1>1. step \in Table /\ user \in UserRec
  BY DEF Typed, TypeOK
<1>2. ASSUME s \notin Steps, NEW to, SetStep(s, to)
      PROVE  UNCHANGED step
  BY <1>1, <1>2 DEF SetStep, Table
<1>3. CASE UserRequests
  <2>1. user.pc = "request" /\ SetStep(s, "InterruptRequested")
    BY <1>3 DEF UserRequests
  <2>2. s \in user.todo /\ s \in Steps
    BY <2>1, OnTheList
  <2>3. step[s] # "Pending"
    BY <2>1, <2>2 DEF UserSound, UserMinds, Places, Past
  <2> QED  BY <2>1, <2>2, <2>3, StatusNames DEF SetStep, Interrupts
<1>4. CASE UserSettles
  <2>1. user.pc = "settle" /\ SetStep(s, "Interrupted")
    BY <1>4 DEF UserSettles
  <2>2. s \in user.todo /\ s \in Steps
    BY <2>1, OnTheList
  <2>3. step[s] # "Pending"
    BY <2>1, <2>2 DEF UserSound, UserMinds, Places, Past
  <2> QED  BY <2>1, <2>2, <2>3, StatusNames DEF SetStep, Interrupts
<1>5. CASE Skips
  <2>1. CASE step[s] = user.seen[s]
    <3>1. StepMayMove(user.exec, step[s], "Skipped") /\ SetStep(s, "Skipped")
      BY <1>5, <2>1 DEF Skips
    <3>2. step[s] # "Pending"
      BY <3>1 DEF StepMayMove, StepMoves
    <3> QED  BY <1>2, <3>1, <3>2, StatusNames DEF SetStep, Interrupts
  <2>2. CASE step[s] # user.seen[s]
    BY <1>5, <2>2 DEF Skips
  <2> QED  BY <2>1, <2>2
<1>6. CASE AnswerFails
  <2>1. StepMayMove(user.exec, user.seen[s], "Failed") /\ SetStep(s, "Failed")
    BY <1>6 DEF AnswerFails
  <2>2. user.seen[s] # "Pending"
    BY <2>1 DEF StepMayMove, StepMoves
  <2>3. s \in Steps => step[s] # "Pending"
    BY <2>2 DEF UserMinds
  <2> QED  BY <1>2, <2>1, <2>3, StatusNames DEF SetStep, Interrupts
<1>7. CASE ResumeRevives \/ CompleteForces
  BY <1>7 DEF ResumeRevives, CompleteForces, UserSound, Places
<1>8. CASE ~(UserRequests \/ UserSettles \/ Skips \/ AnswerFails \/ ResumeRevives \/ CompleteForces)
  BY <1>8 DEF HandlerActs, UserSweeps, StopEnds, PauseEnds, InterruptCancels,
              RetryPrepares, RetryActivates, RetrySpawns, AnswerRecords, CompleteHolds,
              CompleteCloses, CompleteEnds, AcceptEnds, UserSyncs, UserSynced,
              UserWakes, UserErrs, rows
<1> QED  BY <1>3, <1>4, <1>5, <1>6, <1>7, <1>8

LEMMA HandlerStatuses ==
  ASSUME Typed, UserSound, SoundRetry, UserMinds, HandlerActs, NEW t \in Steps
  PROVE  /\ step'[t] = "Pending" <=> step[t] = "Pending"
         /\ step'[t] = "Running" => step[t] = "Running"
         /\ Past(t) => Past(t)' \/ UserReadies
<1>1. step \in Table
  BY DEF Typed, TypeOK
<1>2. CASE UNCHANGED step
  BY <1>2 DEF Past
<1>3. ASSUME NEW s \in Steps, NEW to, Interrupts(s, to)
      PROVE  /\ step'[t] = "Pending" <=> step[t] = "Pending"
             /\ step'[t] = "Running" => step[t] = "Running"
             /\ Past(t) => Past(t)'
  BY <1>1, <1>3 DEF Interrupts, Past, Table
<1>4. CASE UserReadies
  <2>1. user.pc = "ready" /\ step' = [step EXCEPT ![First(user.todo)] = "Ready"]
    BY <1>4 DEF UserReadies, SetStep
  <2>2. First(user.todo) \in Steps /\ First(user.todo) \in user.todo
    BY <2>1, OnTheList
  <2>3. step[First(user.todo)] # "Pending"
    BY <2>1, <2>2 DEF UserMinds, Past
  <2> QED  BY <1>1, <1>4, <2>1, <2>2, <2>3 DEF Past, Table
<1> QED  BY <1>2, <1>3, <1>4, HandlerSteps

LEMMA HandlerCancels ==
  ASSUME HandlerActs
  PROVE  UserSweeps \/ InterruptCancels \/ RetryPrepares \/ UNCHANGED <<cancels, attempt>>
BY DEF HandlerActs, UserRequests, UserSettles, StopEnds, PauseEnds, Skips, UserReadies,
       RetryActivates, RetrySpawns, ResumeRevives, AnswerRecords, AnswerFails,
       CompleteHolds, CompleteForces, CompleteCloses, CompleteEnds, AcceptEnds,
       UserSyncs, UserSynced, UserWakes, UserErrs, rows

(* Who is told to stop is a run of a step on the list. *)
LEMMA CancelsByHandlers ==
  ASSUME Typed, UserSound, SoundRetry, UserMinds, CancelsFit, HandlerActs
  PROVE  CancelsFit'
<1> DEFINE s == First(user.todo)
<1>1. /\ step \in Table /\ attempt \in [Steps -> Nat]
      /\ \A k \in cancels : k[1] \in Steps /\ k[2] \in Nat
      /\ \A t \in Steps : <<t, attempt[t]>>[1] = t /\ <<t, attempt[t]>>[2] = attempt[t]
  BY DEF Typed, TypeOK
<1>2. CASE UserSweeps \/ InterruptCancels
  <2>1. CASE cancels' = cancels
    BY <1>2, <2>1 DEF UserSweeps, InterruptCancels, CancelsFit, rows, Cancelled, Past
  <2>2. CASE cancels' # cancels
    <3>1. /\ user.pc = "cancel" \/ (user.pc = "sweep" /\ user.todo # {})
          /\ cancels' = cancels \cup {<<s, attempt[s]>>}
          /\ UNCHANGED <<step, attempt>>
      BY <1>2, <2>2 DEF UserSweeps, InterruptCancels, rows
    <3>2. s \in user.todo /\ s \in Steps
      BY <3>1, OnTheList
    <3>3. Past(s)
      BY <3>1, <3>2 DEF UserSound, UserMinds, Places
    <3>4. \A t \in Steps : Cancelled(t)' => Cancelled(t) \/ t = s
      BY <3>1 DEF Cancelled
    <3>5. \A t \in Steps : Cancelled(t)' => Past(t)'
      BY <3>1, <3>3, <3>4 DEF CancelsFit, Past
    <3>6. \A k \in cancels' : k[2] <= attempt'[k[1]]
      BY <1>1, <3>1, <3>2 DEF CancelsFit
    <3> QED  BY <3>5, <3>6 DEF CancelsFit
  <2> QED  BY <2>1, <2>2
<1>3. CASE RetryPrepares
  <2>1. /\ user.pc = "prepare" /\ UNCHANGED <<step, cancels>>
        /\ attempt' = [attempt EXCEPT ![s] = @ + 1]
    BY <1>3 DEF RetryPrepares
  <2>2. s \in Steps
    BY <2>1, OnTheList
  <2>3. <<s, attempt[s] + 1>> \notin cancels
    <3>1. ASSUME <<s, attempt[s] + 1>> \in cancels
          PROVE  attempt[s] + 1 <= attempt[s]
      BY <3>1 DEF CancelsFit
    <3> QED  BY <1>1, <2>2, <3>1
  <2>4. ASSUME NEW t \in Steps, Cancelled(t)'
        PROVE  Past(t)'
    <3>1. CASE t = s
      BY <1>1, <2>1, <2>2, <2>3, <2>4, <3>1 DEF Cancelled
    <3>2. CASE t # s
      BY <1>1, <2>1, <2>4, <3>2 DEF Cancelled, CancelsFit, Past
    <3> QED  BY <3>1, <3>2
  <2>5. ASSUME NEW k \in cancels
        PROVE  k[2] <= attempt'[k[1]]
    <3>1. k[2] <= attempt[k[1]] /\ k[1] \in Steps /\ k[2] \in Nat
      BY <1>1 DEF CancelsFit
    <3>2. attempt'[k[1]] = attempt[k[1]] \/ attempt'[k[1]] = attempt[k[1]] + 1
      BY <1>1, <2>1, <3>1
    <3> QED  BY <1>1, <3>1, <3>2
  <2> QED  BY <2>1, <2>4, <2>5 DEF CancelsFit
<1>4. CASE UNCHANGED <<cancels, attempt>>
  <2>1. ASSUME NEW t \in Steps, Cancelled(t)
        PROVE  Past(t)'
    <3>1. Past(t)
      BY <2>1 DEF CancelsFit
    <3>2. CASE UserReadies
      <4>1. user.pc = "ready" /\ step' = [step EXCEPT ![s] = "Ready"]
        BY <3>2 DEF UserReadies, SetStep
      <4>2. s \in user.todo
        BY <4>1, OnTheList
      <4>3. t # s
        BY <2>1, <4>1, <4>2 DEF UserMinds
      <4> QED  BY <1>1, <3>1, <4>1, <4>3 DEF Past, Table
    <3> QED  BY <3>1, <3>2, HandlerStatuses
  <2> QED  BY <1>4, <2>1 DEF CancelsFit, Cancelled
<1> QED  BY <1>2, <1>3, <1>4, HandlerCancels
LEMMA OffMinds ==
  /\ UserOff.act = "none" /\ UserOff.pc = "off" /\ UserOff.next = "off"
  /\ UserOff.todo = {} /\ \A s \in Steps : UserOff.seen[s] = "Pending"
BY DEF UserOff, Blank

(* A handler that goes on with the same list and the same reading, without *)
(* retrying, minds what it minded: what it interrupts stays started.       *)
LEMMA UserGoesOn ==
  ASSUME Typed, UserSound, SoundRetry, UserMinds, HandlerActs, ~UserReadies,
         user'.act = user.act, user'.todo \subseteq user.todo,
         user'.seen = user.seen \/ user'.seen = step,
         user'.seen = user.seen \/ user.act \notin Stopping \cup {"interrupt"},
         user'.pc \notin {"prepare", "ready"},
         user.act = "interrupt" /\ Places' \cap {"cancel", "settle"} # {} =>
           \A s \in user'.todo : step'[s] # "Running"
  PROVE  UserMinds'
<1>1. user.todo \subseteq Steps /\ user'.todo \subseteq Steps
  BY DEF Typed, TypeOK, UserRec
<1>2. \A t \in Steps : /\ step[t] # "Pending" => step'[t] # "Pending"
                       /\ Past(t) => Past(t)'
  BY HandlerStatuses
<1>3. user'.act \in Stopping \cup {"interrupt"} =>
        \A s \in user'.todo : Past(s)' /\ user'.seen[s] \in Interruptible
  BY <1>1, <1>2 DEF UserMinds
<1>4. user'.act = "retry" => \A s \in user'.todo : step'[s] # "Pending"
  BY <1>1, <1>2 DEF UserMinds
<1>5. \A s \in Steps : user'.seen[s] # "Pending" => step'[s] # "Pending"
  BY <1>2 DEF UserMinds
<1> QED  BY <1>3, <1>4, <1>5 DEF UserMinds

LEMMA UserMindsByHandlers ==
  ASSUME Typed, UserSound, SoundRetry, UserMinds, CancelsFit, HandlerActs
  PROVE  UserMinds'
<1> DEFINE s == First(user.todo)
<1>1. user \in UserRec /\ step \in Table /\ attempt \in [Steps -> Nat]
  BY DEF Typed, TypeOK
<1>2. CASE user' = UserOff
  BY <1>2, OffMinds DEF UserMinds, Places, Stopping
<1>3. CASE UserSweeps
  <2>1. /\ user.pc = "sweep" /\ user' = [user EXCEPT !.pc = "request"] /\ UNCHANGED step
        /\ user.act # "interrupt"
    BY <1>3 DEF UserSweeps, rows, UserSound, Places, Stopping
  <2>2. ~UserReadies
    BY <2>1 DEF UserReadies
  <2> QED  BY <1>1, <2>1, <2>2, UserGoesOn DEF UserRec
<1>4. CASE UserRequests
  <2>1. /\ user.pc = "request" /\ step' = [step EXCEPT ![s] = "InterruptRequested"]
        /\ \E next \in {"cancel", "settle"} :
             user' = [user EXCEPT !.pc = "sync", !.next = next]
    BY <1>4 DEF UserRequests, SetStep
  <2>2. s \in user.todo /\ s \in Steps
    BY <2>1, OnTheList
  <2>3. ~UserReadies
    BY <2>1 DEF UserReadies
  <2>4. user.act = "interrupt" => \A t \in user.todo : step'[t] # "Running"
    BY <1>1, <2>1, <2>2 DEF UserSound, Table
  <2> QED  BY <1>1, <2>1, <2>3, <2>4, UserGoesOn DEF UserRec
<1>5. CASE UserSettles
  <2>1. /\ user.pc = "settle"
        /\ \E next \in {"off", "sweep"} :
             user' = [user EXCEPT !.pc = "sync", !.todo = @ \ {s}, !.next = next]
    BY <1>5 DEF UserSettles
  <2>2. ~UserReadies
    BY <2>1 DEF UserReadies
  <2> QED  BY <1>1, <2>1, <2>2, UserGoesOn DEF UserRec, Places
<1>6. CASE InterruptCancels /\ user' # UserOff
  <2>1. /\ user.pc = "cancel" /\ user' = [user EXCEPT !.pc = "settle"] /\ UNCHANGED step
    BY <1>6 DEF InterruptCancels, rows
  <2>2. ~UserReadies /\ user.act = "interrupt"
    BY <2>1 DEF UserReadies, UserSound, Places
  <2>3. \A t \in user.todo : step[t] # "Running"
    BY <2>1, <2>2 DEF UserMinds, Places
  <2> QED  BY <1>1, <2>1, <2>2, <2>3, UserGoesOn DEF UserRec
<1>7. CASE (Skips /\ user' # UserOff) \/ AnswerFails
  <2>1. /\ user.pc \in {"skip", "fail"} /\ user' = [user EXCEPT !.pc = "sync", !.next = "again"]
    BY <1>7 DEF Skips, AnswerFails
  <2>2. ~UserReadies
    BY <2>1 DEF UserReadies
  <2> QED  BY <1>1, <2>1, <2>2, UserGoesOn DEF UserRec, Places
<1>8. CASE RetryPrepares
  <2>1. /\ user.pc = "prepare" /\ user' = [user EXCEPT !.pc = "ready", !.seen = step]
        /\ UNCHANGED <<step, cancels>> /\ attempt' = [attempt EXCEPT ![s] = @ + 1]
    BY <1>8 DEF RetryPrepares
  <2>2. s \in user.todo /\ s \in Steps /\ user.act = "retry"
    BY <2>1, OnTheList DEF UserSound
  <2>3. \A t \in user.todo : t = s /\ Past(t) /\ step[t] # "Running"
    BY <2>1, <2>2 DEF UserSound, UserMinds
  <2>4. <<s, attempt[s] + 1>> \notin cancels
    <3>1. ASSUME <<s, attempt[s] + 1>> \in cancels
          PROVE  attempt[s] + 1 <= attempt[s]
      BY <3>1 DEF CancelsFit
    <3> QED  BY <1>1, <2>2, <3>1
  <2>5. ~Cancelled(s)'
    BY <1>1, <2>1, <2>2, <2>4 DEF Cancelled
  <2>6. /\ user'.act = "retry" /\ user'.todo = user.todo /\ user'.seen = step
        /\ user'.pc = "ready"
    BY <1>1, <2>1, <2>2 DEF UserRec
  <2> QED  BY <2>1, <2>3, <2>5, <2>6 DEF UserMinds, Stopping, Past
<1>9. CASE UserReadies
  <2>1. /\ user.pc = "ready" /\ step' = [step EXCEPT ![s] = "Ready"] /\ user.act = "retry"
        /\ user' = [user EXCEPT !.pc = "sync", !.next = "activate"]
    BY <1>9 DEF UserReadies, SetStep, UserSound
  <2>2. \A t \in Steps : step[t] # "Pending" => step'[t] # "Pending"
    BY HandlerStatuses
  <2>3. user.todo \subseteq Steps
    BY <1>1 DEF UserRec
  <2>4. /\ user'.act = "retry" /\ user'.todo = user.todo /\ user'.seen = user.seen
        /\ user'.pc = "sync"
    BY <1>1, <2>1 DEF UserRec
  <2>5. user'.act = "retry" => \A t \in user'.todo : step'[t] # "Pending"
    BY <2>1, <2>2, <2>3, <2>4 DEF UserMinds
  <2>6. \A t \in Steps : user'.seen[t] # "Pending" => step'[t] # "Pending"
    BY <2>2, <2>4 DEF UserMinds
  <2> QED  BY <2>4, <2>5, <2>6 DEF UserMinds, Stopping
<1>10. CASE RetryActivates
  <2>1. user.pc = "activate" /\ user' = [user EXCEPT !.pc = "reload"]
    BY <1>10 DEF RetryActivates
  <2>2. ~UserReadies /\ user.act = "retry"
    BY <2>1 DEF UserReadies, SoundRetry
  <2> QED  BY <1>1, <2>1, <2>2, UserGoesOn DEF UserRec
<1>11. CASE AnswerRecords
  <2>1. user.pc = "record" /\ user' = [user EXCEPT !.pc = "fail", !.seen = step] /\ UNCHANGED step
    BY <1>11 DEF AnswerRecords, rows
  <2>2. ~UserReadies /\ user.act = "reject"
    BY <2>1 DEF UserReadies, UserSound, Places
  <2> QED  BY <1>1, <2>1, <2>2, UserGoesOn DEF UserRec, Stopping
<1>12. CASE UserSyncs
  <2>1. PICK next : /\ \/ user.pc = "sync" /\ next = user.next
                       \/ next \in {"pause", "off", "wake"}
                    /\ user' = SyncRead(user, next)
    BY <1>12 DEF UserSyncs
  <2>2. ~UserReadies /\ UNCHANGED step
    BY <1>12 DEF UserReadies, UserSyncs, rows
  <2>3. /\ user'.act = user.act /\ user'.todo = user.todo /\ user'.seen = user.seen
        /\ user'.pc = "syncing" /\ user'.next = next
    BY <1>1, <2>1 DEF UserRec, SyncRead
  <2>4. user.act = "interrupt" /\ Places' \cap {"cancel", "settle"} # {} =>
          \A t \in user.todo : step[t] # "Running"
    BY <2>1, <2>3 DEF UserMinds, Places
  <2> QED  BY <2>2, <2>3, <2>4, UserGoesOn
<1>13. CASE UserSynced /\ user' # UserOff
  <2>1. user.pc = "syncing" /\ UNCHANGED step /\ \E e : user' = [Synced(user) EXCEPT !.exec = e]
    BY <1>13 DEF UserSynced
  <2>2. ~UserReadies
    BY <2>1 DEF UserReadies
  <2>3. /\ user'.act = user.act /\ user'.todo = user.todo /\ user'.seen = user.seen
        /\ user'.pc = user.next /\ user'.next = "off"
    BY <1>1, <2>1 DEF UserRec, Synced
  <2>4. user.act = "interrupt" /\ Places' \cap {"cancel", "settle"} # {} =>
          \A t \in user.todo : step[t] # "Running"
    BY <2>3 DEF UserMinds, Places
  <2> QED  BY <2>1, <2>2, <2>3, <2>4, UserGoesOn DEF UserSound
<1>14. CASE ResumeRevives \/ CompleteHolds \/ CompleteForces \/ CompleteCloses \/ CompleteEnds
  BY <1>14 DEF ResumeRevives, CompleteHolds, CompleteForces, CompleteCloses, CompleteEnds,
               UserSound, Places
<1>15. CASE StopEnds \/ PauseEnds \/ RetrySpawns \/ AcceptEnds \/ UserWakes \/ UserErrs
  BY <1>2, <1>15 DEF StopEnds, PauseEnds, RetrySpawns, AcceptEnds, UserWakes, UserErrs
<1> QED  BY <1>2, <1>3, <1>4, <1>5, <1>6, <1>7, <1>8, <1>9, <1>10, <1>11, <1>12, <1>13,
            <1>14, <1>15 DEF HandlerActs

LEMMA HandlerReadies ==
  ASSUME Typed, UserSound, SoundRetry, UserMinds, Readied, HandlerActs
  PROVE  Readied'
<1>1. ASSUME NEW o \in Owners, NEW s \in Steps, work'[<<o, s>>].pc # "off"
      PROVE  step[s] # "Pending"
  <2>1. CASE UNCHANGED work
    BY <1>1, <2>1 DEF Readied
  <2>2. CASE RetrySpawns
    <3>1. user.act = "retry"
      BY <2>2 DEF RetrySpawns, SoundRetry
    <3>2. First(user.todo) \in user.todo
      <4>1. user.todo # {} /\ user.todo \in SUBSET Steps
        BY <3>1 DEF SoundRetry, Typed, TypeOK, UserRec
      <4> QED  BY <4>1, FirstIsOne
    <3>3. step[First(user.todo)] # "Pending"
      BY <3>1, <3>2 DEF UserMinds
    <3>4. PICK r : work' = [work EXCEPT ![<<Retry, First(user.todo)>>] = r]
      BY <2>2 DEF RetrySpawns, SetWork
    <3>5. CASE s = First(user.todo)
      BY <3>3, <3>5
    <3>6. CASE s # First(user.todo)
      <4>1. <<o, s>> \in Items /\ <<o, s>> # <<Retry, First(user.todo)>> /\ work \in [Items -> WorkRec]
        BY <3>6 DEF Items, Typed, TypeOK
      <4>2. work'[<<o, s>>] = work[<<o, s>>]
        BY <3>4, <4>1
      <4> QED  BY <1>1, <4>2 DEF Readied
    <3> QED  BY <3>5, <3>6
  <2> QED  BY <2>1, <2>2, HandlerFrame
<1>2. \A s \in Steps : step[s] # "Pending" => step'[s] # "Pending"
  BY HandlerStatuses
<1> QED  BY <1>1, <1>2 DEF Readied

(* The run a handler tells to stop is one whose interrupt it is about to   *)
(* request: the step stays kept.                                           *)
LEMMA RunningKeptByHandlers ==
  ASSUME Typed, UserSound, SoundRetry, UserMinds, RunningKept, HandlerActs
  PROVE  RunningKept'
<1> DEFINE f == First(user.todo)
<1>1. user \in UserRec /\ attempt \in [Steps -> Nat] /\ step \in Table
  BY DEF Typed, TypeOK
<1>2. ASSUME NEW s \in Steps, step'[s] = "Running", NEW o \in Owners, Holds(o, s)
      PROVE  Kept(s)'
  <2>1. step[s] = "Running"
    BY <1>2, HandlerStatuses
  <2>2. work'[<<o, s>>] = work[<<o, s>>]
    BY <1>2, HandlerItems DEF Holds, Minds
  <2>3. ASSUME attempt'[s] = attempt[s], Cancelled(s)' => Cancelled(s)
        PROVE  Kept(s)'
    BY <1>2, <2>2, <2>3, StillHeld DEF Kept
  <2>4. CASE UserSweeps
    <3>1. /\ user.pc = "sweep" /\ user.todo # {} /\ UNCHANGED attempt
          /\ cancels' \subseteq cancels \cup {<<f, attempt[f]>>}
          /\ user' = [user EXCEPT !.pc = "request"]
      BY <2>4 DEF UserSweeps, rows
    <3>2. CASE s = f
      <4>1. user.act \in Stopping
        BY <3>1 DEF UserSound, Places
      <4>2. user'.pc = "request" /\ user'.act = user.act /\ user'.todo = user.todo
        BY <1>1, <3>1 DEF UserRec
      <4> QED  BY <3>2, <4>1, <4>2 DEF Kept, BeingStopped
    <3>3. CASE s # f
      BY <2>3, <3>1, <3>3 DEF Cancelled
    <3> QED  BY <3>2, <3>3
  <2>5. CASE InterruptCancels
    <3>1. /\ user.pc = "cancel" /\ UNCHANGED attempt
          /\ cancels' \subseteq cancels \cup {<<f, attempt[f]>>}
      BY <2>5 DEF InterruptCancels, rows
    <3>2. s # f
      BY <2>1, <3>1, OnTheList DEF UserSound, UserMinds, Places
    <3> QED  BY <2>3, <3>1, <3>2 DEF Cancelled
  <2>6. CASE RetryPrepares
    <3>1. /\ user.pc = "prepare" /\ UNCHANGED cancels
          /\ attempt' = [attempt EXCEPT ![f] = @ + 1]
      BY <2>6 DEF RetryPrepares
    <3>2. s # f
      BY <2>1, <3>1, OnTheList DEF UserMinds
    <3>3. attempt'[s] = attempt[s]
      BY <1>1, <3>1, <3>2
    <3> QED  BY <2>3, <3>1, <3>3 DEF Cancelled
  <2>7. CASE UNCHANGED <<cancels, attempt>>
    BY <2>3, <2>7 DEF Cancelled
  <2> QED  BY <2>4, <2>5, <2>6, <2>7, HandlerCancels
<1>3. ASSUME NEW s \in Steps, step'[s] = "Running", BeingStopped(s)
      PROVE  FALSE
  <2>1. user.pc = "request" /\ user.act \in Stopping /\ s = f
    BY <1>3 DEF BeingStopped
  <2>2. f \in user.todo
    BY <2>1, OnTheList
  <2>3. user.exec \in {"Running", "Paused"} /\ user.seen[f] \in Interruptible
    BY <2>1, <2>2 DEF UserSound, UserMinds
  <2>4. StepMayMove(user.exec, user.seen[f], "InterruptRequested")
    BY <2>3 DEF StepMayMove, StepMoves, StepsUnder, StepStatus, Interruptible
  <2>5. ~UserErrs
    BY <2>1, <2>4 DEF UserErrs, UserTarget
  <2>6. ~UserRequests
    <3>1. ASSUME UserRequests
          PROVE  step'[s] = "InterruptRequested"
      BY <1>1, <2>1, <3>1 DEF UserRequests, SetStep, Table
    <3> QED  BY <1>3, <3>1
  <2> QED  BY <2>1, <2>5, <2>6 DEF HandlerActs, UserSweeps, UserSettles, StopEnds,
               PauseEnds, InterruptCancels, Skips, RetryPrepares, UserReadies,
               RetryActivates, RetrySpawns, ResumeRevives, AnswerRecords, AnswerFails,
               CompleteHolds, CompleteForces, CompleteCloses, CompleteEnds, AcceptEnds,
               UserSyncs, UserSynced, UserWakes
<1>4. ASSUME NEW s \in Steps, step'[s] = "Running"
      PROVE  Kept(s)'
  <2>1. Kept(s)
    BY <1>4, HandlerStatuses DEF RunningKept
  <2> QED  BY <1>2, <1>3, <1>4, <2>1 DEF Kept
<1> QED  BY <1>4 DEF RunningKept

LEMMA HandlerKeepsWhole ==
  ASSUME Whole, HandlerActs
  PROVE  Whole'
<1> USE DEF Whole
<1>1. Typed'
  BY TypedKept DEF Next
<1>2. SoundPasses' /\ Readied' /\ UserSound' /\ UserMinds' /\ RunningKept' /\ CancelsFit'
  BY HandlerKeepsPasses, HandlerReadies, UserSoundByHandlers, UserMindsByHandlers,
     RunningKeptByHandlers, CancelsByHandlers
<1>3. SoundRetry'
  <2>1. user.pc \in InterruptPcs => user.act # "retry"
    BY DEF InterruptPcs, UserSound, Places, Stopping
  <2> QED  BY <2>1, RetryByHandlers
<1>4. SoundWorks'
  <2>1. ASSUME NEW o \in Owners, NEW s \in Steps
        PROVE  SoundWork(work'[<<o, s>>])
    BY HandlerItems, OffIsSoundWork DEF SoundWorks
  <2> QED  BY <2>1 DEF SoundWorks
<1>5. PassesSee'
  <2>1. UNCHANGED pass /\ \A p \in Passes : pass[p].batch \subseteq Steps
    BY HandlerFrame DEF Typed, TypeOK, PassRec
  <2>2. \A t \in Steps : step'[t] = "Pending" <=> step[t] = "Pending"
    BY HandlerStatuses
  <2> QED  BY <2>1, <2>2 DEF PassesSee, PassSees, Reads
<1> QED  BY <1>1, <1>2, <1>3, <1>4, <1>5
-----------------------------------------------------------------------------
(* A request keeps it, and it holds in the beginning. *)

LEMMA RequestLeaves ==
  ASSUME OnlyInterrupted, Arrives
  PROVE  UNCHANGED <<step, attempt, cancels, pass, work>> /\ user.pc = "off"
BY DEF OnlyInterrupted, Arrives, StopBegins, PauseBegins, ResumeBegins, CompleteBegins,
       AcceptBegins, InterruptBegins, SkipBegins, RetryBegins, AnswerBegins, Begins, rows

(* Where each request begins *)
LEMMA RequestAsks ==
  ASSUME OnlyInterrupted, Arrives
  PROVE  \E act, pc, todo :
           /\ user' = [UserOff EXCEPT !.pc = pc, !.act = act, !.exec = exec,
                                      !.seen = step, !.todo = todo]
           /\ \/ /\ act \in Stopping /\ pc = "sweep" /\ exec \in {"Running", "Paused"}
                 /\ todo = {s \in Steps : step[s] \in Interruptible}
              \/ /\ act = "interrupt" /\ pc = "request"
                 /\ \E s \in Steps : todo = {s} /\ step[s] \in Interruptible
              \/ /\ act = "retry" /\ pc = "prepare"
                 /\ \E s \in Steps : todo = {s} /\ step[s] \in {"Failed", "Interrupted"}
              \/ act = "skip" /\ pc = "skip"
              \/ act = "reject" /\ pc = "record"
              \/ act = "accept" /\ pc = "accept"
<1> USE DEF OnlyInterrupted, Begins, Stopping
<1>1. CASE StopBegins
  BY <1>1 DEF StopBegins
<1>2. CASE PauseBegins
  BY <1>2 DEF PauseBegins
<1>3. CASE ResumeBegins \/ CompleteBegins
  BY <1>3 DEF ResumeBegins, CompleteBegins
<1>4. CASE AcceptBegins
  BY <1>4 DEF AcceptBegins
<1>5. CASE \E s \in Steps : InterruptBegins(s)
  BY <1>5 DEF InterruptBegins
<1>6. CASE \E s \in Steps : SkipBegins(s)
  BY <1>6 DEF SkipBegins
<1>7. CASE \E s \in Steps : RetryBegins(s)
  BY <1>7 DEF RetryBegins
<1>8. CASE \E s \in Steps : AnswerBegins(s)
  BY <1>8 DEF AnswerBegins
<1> QED  BY <1>1, <1>2, <1>3, <1>4, <1>5, <1>6, <1>7, <1>8 DEF Arrives

LEMMA UserByRequests ==
  ASSUME OnlyInterrupted, Arrives
  PROVE  UserSound' /\ UserMinds'
<1>1. PICK act, pc, todo :
        /\ user' = [UserOff EXCEPT !.pc = pc, !.act = act, !.exec = exec,
                                   !.seen = step, !.todo = todo]
        /\ \/ /\ act \in Stopping /\ pc = "sweep" /\ exec \in {"Running", "Paused"}
              /\ todo = {s \in Steps : step[s] \in Interruptible}
           \/ /\ act = "interrupt" /\ pc = "request"
              /\ \E s \in Steps : todo = {s} /\ step[s] \in Interruptible
           \/ /\ act = "retry" /\ pc = "prepare"
              /\ \E s \in Steps : todo = {s} /\ step[s] \in {"Failed", "Interrupted"}
           \/ act = "skip" /\ pc = "skip"
           \/ act = "reject" /\ pc = "record"
           \/ act = "accept" /\ pc = "accept"
  BY RequestAsks
<1>2. /\ user'.pc = pc /\ user'.next = "off" /\ user'.act = act /\ user'.exec = exec
      /\ user'.seen = step /\ user'.todo = todo
  BY <1>1 DEF UserOff
<1>3. UNCHANGED <<step, attempt, cancels>>
  BY RequestLeaves
<1>4. UserSound'
  BY <1>1, <1>2 DEF UserSound, Places, Stopping
<1>5. UserMinds'
  <2>1. act \in Stopping \cup {"interrupt"} =>
          \A s \in todo : Past(s) /\ step[s] \in Interruptible
    BY <1>1 DEF Stopping, Past, Interruptible
  <2>2. act = "retry" => \A s \in todo : Past(s) /\ step[s] # "Running" /\ step[s] # "Pending"
    BY <1>1 DEF Stopping, Past
  <2>3. pc = "prepare" => act = "retry"
    BY <1>1
  <2>4. pc \notin {"cancel", "settle", "ready"}
    BY <1>1
  <2> QED  BY <1>2, <1>3, <2>1, <2>2, <2>3, <2>4 DEF UserMinds, Places, Past
<1> QED  BY <1>4, <1>5

LEMMA RequestKeepsWhole ==
  ASSUME OnlyInterrupted, Whole, Arrives
  PROVE  Whole'
<1> USE DEF Whole
<1>1. Typed'
  BY TypedKept DEF Next
<1>2. UNCHANGED <<step, attempt, cancels, pass, work>> /\ user.pc = "off"
  BY RequestLeaves
<1>3. SoundPasses' /\ SoundWorks' /\ Readied' /\ PassesSee' /\ CancelsFit'
  BY <1>2 DEF SoundPasses, SoundPass, SoundWorks, Readied, PassesSee, PassSees, Reads,
              CancelsFit, Cancelled, Past
<1>4. SoundRetry' /\ UserSound' /\ UserMinds'
  BY RetryByRequests, UserByRequests
<1>5. RunningKept'
  <2>1. ASSUME NEW s \in Steps, step'[s] = "Running"
        PROVE  Kept(s)'
    <3>1. PICK o \in Owners : Holds(o, s)
      BY <1>2, <2>1 DEF RunningKept, Kept, BeingStopped
    <3>2. Holds(o, s)'
      BY <1>2, <3>1, StillHeld DEF Cancelled
    <3> QED  BY <3>2 DEF Kept
  <2> QED  BY <2>1 DEF RunningKept
<1> QED  BY <1>1, <1>3, <1>4, <1>5

LEMMA InitiallyWhole ==
  ASSUME Init
  PROVE  Whole
<1>1. Typed /\ SoundPasses /\ SoundRetry
  BY InitiallySound DEF Sound
<1>2. /\ \A o \in Owners, s \in Steps : work[<<o, s>>] = WorkOff
      /\ \A p \in Passes : pass[p] = PassOff
      /\ user = UserOff /\ cancels = {}
      /\ \A s \in Steps : step[s] \in {"Pending", "Ready"}
  BY DEF Init, Items, Bootstrapped
<1>3. SoundWorks /\ Readied
  BY <1>2, OffIsSoundWork, OffIsSound DEF SoundWorks, Readied
<1>4. PassesSee
  BY <1>2 DEF PassesSee, PassSees, Reads, PassOff, Blank
<1>5. UserSound /\ UserMinds
  BY <1>2, OffMinds DEF UserSound, UserMinds, Places, Stopping
<1>6. RunningKept /\ CancelsFit
  BY <1>2 DEF RunningKept, CancelsFit, Cancelled
<1> QED  BY <1>1, <1>3, <1>4, <1>5, <1>6 DEF Whole

LEMMA UnchangedIsWhole ==
  ASSUME Whole, UNCHANGED vars
  PROVE  Whole'
<1> USE DEF Whole
<1>1. Typed'
  BY TypedKept
<1>2. SoundPasses' /\ SoundRetry' /\ SoundWorks' /\ Readied' /\ PassesSee' /\ UserSound'
  BY DEF vars, SoundPasses, SoundPass, SoundRetry, SoundWorks, Readied, PassesSee,
         PassSees, Reads, UserSound, Places
<1>3. Onward /\ UNCHANGED <<user, attempt, cancels, work>>
  BY DEF vars, Onward, Past
<1>4. UserMinds' /\ CancelsFit'
  BY <1>3, UserMindsKept, CancelsKept
<1>5. RunningKept'
  <2>1. ASSUME NEW s \in Steps, step'[s] = "Running"
        PROVE  Kept(s)'
    <3>1. step[s] = "Running"
      BY <2>1 DEF vars
    <3>2. \A o \in Owners : Holds(o, s) => Holds(o, s)'
      BY <1>3, StillHeld DEF Cancelled
    <3>3. BeingStopped(s) => BeingStopped(s)'
      BY <1>3 DEF BeingStopped
    <3> QED  BY <3>1, <3>2, <3>3 DEF RunningKept, Kept
  <2> QED  BY <2>1 DEF RunningKept
<1> QED  BY <1>1, <1>2, <1>4, <1>5

LEMMA WholeKept ==
  ASSUME OnlyInterrupted, Whole, [Next]_vars
  PROVE  Whole'
<1>1. ASSUME NEW p \in Passes, PassActs(p)
      PROVE  Whole'
  BY <1>1, PassKeepsWhole
<1>2. ASSUME NEW o \in Owners, NEW s \in Steps, ItemActs(o, s)
      PROVE  Whole'
  BY <1>2, ItemKeepsWhole
<1>3. ASSUME NEW s \in Steps, RetryReturns(s)
      PROVE  Whole'
  <2>1. Retry \in Owners
    BY DEF Owners
  <2> QED  BY <1>3, <2>1, ItemKeepsWhole
<1>4. CASE Arrives
  BY <1>4, RequestKeepsWhole
<1>5. CASE HandlerActs
  BY <1>5, HandlerKeepsWhole
<1>6. ~Restarts
  BY NoRestarts DEF Whole, OnlyInterrupted
<1>7. CASE UNCHANGED vars
  BY <1>7, UnchangedIsWhole
<1> QED  BY <1>1, <1>2, <1>3, <1>4, <1>5, <1>6, <1>7 DEF Next

(* A step that is being stopped, paused or interrupted is settled: while   *)
(* its row says running, either a run goes on that has not been told to    *)
(* stop, or the handler that told it has the step on its list, whichever   *)
(* of the two comes first at each of their writes, and however the user    *)
(* retries, skips, refuses and accepts before and after.                   *)
THEOREM InterruptedStepsAreAttended ==
  ASSUME OnlyInterrupted
  PROVE  Spec => []NoAbandonedStep
<1>1. Init => Whole
  BY InitiallyWhole
<1>2. Whole /\ [Next]_vars => Whole'
  BY WholeKept
<1>3. Whole => NoAbandonedStep
  <2>1. ASSUME Whole, NEW s \in Steps, BeingStopped(s)
        PROVE  Handles(s)
    BY <2>1, OnTheList DEF Whole, BeingStopped, Handles
  <2>2. ASSUME Whole, NEW s \in Steps, step[s] = "Running"
        PROVE  (\E o \in Owners : Minds(o, s)) \/ Handles(s)
    BY <2>1, <2>2 DEF Whole, RunningKept, Kept, Holds
  <2> QED  BY <2>2 DEF NoAbandonedStep
<1> QED  BY <1>1, <1>2, <1>3, PTL DEF Spec-----------------------------------------------------------------------------
(* Two agents never work on one step, as long as no step is retried twice. *)
(* A retry begins while the run it replaces may still be ending, so there  *)
(* can be two runs of a step; that the first of them has been told to stop *)
(* follows from how the step came to be failed or interrupted.             *)
(*                                                                         *)
(* A second retry breaks it.  A pass that is about to select sees the step *)
(* which the first retry has made ready, and claims it; the retry's own    *)
(* item, spawned with an execution that a synchronization has meanwhile    *)
(* turned to paused, is refused the claim, and its guard fails the row it  *)
(* finds running.  The step can be retried again, beside the pass's agent, *)
(* which nobody has told to stop.                                          *)

RetriedOnce == \A s \in Steps : attempt[s] <= 1

(* The user is asked about the step. *)
AskedAbout(s) == \E ask \in asks : ask[1] = s

(* The first run of the step goes on and has not been told to stop. *)
FirstRun(o, s) ==
  /\ Claimed(work[<<o, s>>])
  /\ work[<<o, s>>].attempt = 0
  /\ <<s, 0>> \notin cancels

(* The item has parked its step and will ask. *)
WillAsk(w) == {w.pc, w.next} \cap {"parked", "ask"} # {}

(* The handler may give the step a status that ends a run. *)
Grants(s) ==
  /\ s \in user.todo
  /\ \/ user.act \in {"reject", "retry"}
     \/ user.act \in Stopping \cup {"interrupt"} /\ user.seen[s] \in Parking
     \/ /\ user.act \in Stopping /\ s = First(user.todo)
        /\ Places \cap {"request", "settle"} # {}

(* A claim takes the attempt that the row says, and finds it to be a new   *)
(* one: a step is made ready only for an attempt that nobody works on.     *)
AttemptFits(o, s) ==
  Claimed(work[<<o, s>>]) =>
    /\ work[<<o, s>>].attempt <= attempt[s]
    /\ \A r \in Owners \ {o} :
         Claimed(work[<<r, s>>]) => work[<<r, s>>].attempt # work[<<o, s>>].attempt
    /\ ~Past(s) \/ (user.pc = "ready" /\ s \in user.todo) =>
         work[<<o, s>>].attempt # attempt[s]

AttemptsFit == \A o \in Owners, s \in Steps : AttemptFits(o, s)

(* A retry that has begun has taken a new attempt. *)
RetriesCount ==
  /\ \A s \in Steps : work[<<Retry, s>>].pc # "off" => attempt[s] >= 1
  /\ user.act = "retry" /\ user.pc # "prepare" => \A s \in user.todo : attempt[s] >= 1

(* While the first run goes on unstopped, the step is its, whatever the    *)
(* handler at work has read.                                               *)
FirstRuns ==
  \A o \in Owners, s \in Steps : FirstRun(o, s) =>
    /\ attempt[s] = 0
    /\ step[s] \in {"Running", "InterruptRequested"}
    /\ ~AskedAbout(s) /\ ~Grants(s)

(* interrupt_step settles only a step it has found parked. *)
InterruptSettles ==
  user.act = "interrupt" /\ "settle" \in Places => \A s \in user.todo : user.seen[s] \in Parking

Rejects ==
  Places \cap {"record", "fail"} # {} => user.act = "reject" /\ user.todo # {}

(* The user is asked only about a step that has been started. *)
Opened(s) ==
  \/ \E o \in Owners : WillAsk(work[<<o, s>>])
  \/ AskedAbout(s)
  \/ user.act = "reject" /\ s \in user.todo

OpenedWereStarted == \A s \in Steps : Opened(s) => Past(s) \/ attempt[s] >= 1

(* The inductive invariant, above Whole *)
Single ==
  /\ AttemptsFit
  /\ RetriesCount
  /\ FirstRuns
  /\ InterruptSettles
  /\ Rejects
  /\ OpenedWereStarted

-----------------------------------------------------------------------------
(* What an action does to the items that run *)

(* A step that has not been retried has no item but the pass's. *)
LEMMA LoneItem ==
  ASSUME OnlyInterrupted, RetriesCount, NEW s \in Steps, attempt[s] = 0,
         NEW o \in Owners, work[<<o, s>>].pc # "off",
         NEW r \in Owners, work[<<r, s>>].pc # "off"
  PROVE  o = r
<1>1. o # Retry /\ r # Retry
  BY DEF RetriesCount
<1> QED  BY <1>1 DEF Owners, OnlyInterrupted

(* An item that runs after its action was running before it, or claims. *)
LEMMA ItemsRun ==
  ASSUME Typed, NEW o \in Owners, NEW s \in Steps,
         ItemActs(o, s) \/ (o = Retry /\ RetryReturns(s)), Claimed(work'[<<o, s>>])
  PROVE  \/ /\ Claimed(work[<<o, s>>])
            /\ work'[<<o, s>>].attempt = work[<<o, s>>].attempt
            /\ UNCHANGED <<step, cancels, asks>>
         \/ /\ step[s] = "Ready" /\ step' = [step EXCEPT ![s] = "Running"]
            /\ work'[<<o, s>>].attempt = attempt[s]
            /\ UNCHANGED <<cancels, asks>>
<1> DEFINE w == work[<<o, s>>]
<1>1. <<o, s>> \in Items /\ work \in [Items -> WorkRec] /\ w \in WorkRec /\ ParkedItem(w)
  BY DEF Typed, TypeOK, Items, Parked
<1>2. ASSUME NEW r, SetWork(o, s, r)
      PROVE  work'[<<o, s>>] = r
  BY <1>1, <1>2 DEF SetWork
<1> USE DEF Claimed
<1>3. CASE Claims(o, s)
  <2>1. CASE step[s] = "Ready"
    <3>1. work'[<<o, s>>] = [w EXCEPT !.pc = "sync", !.next = "run",
                               !.seen = "Running", !.attempt = attempt[s]]
      BY <1>2, <1>3, <2>1 DEF Claims
    <3> QED  BY <1>1, <1>3, <2>1, <3>1 DEF Claims, SetStep, WorkRec
  <2>2. CASE step[s] # "Ready"
    <3>1. work'[<<o, s>>] = [w EXCEPT !.pc = "done", !.out = "Completed"]
      BY <1>2, <1>3, <2>2 DEF Claims
    <3> QED  BY <1>1, <3>1 DEF WorkRec
  <2> QED  BY <2>1, <2>2
<1>4. CASE AgentEnds(o, s)
  <2>1. PICK pc \in {"record", "write", "acknowledge"} :
          \E out : work'[<<o, s>>] = [w EXCEPT !.pc = pc, !.out = out]
    BY <1>2, <1>4 DEF AgentEnds
  <2> QED  BY <1>1, <2>1 DEF WorkRec
<1>5. CASE AgentFailsToStart(o, s) \/ Records(o, s)
  <2>1. CASE AgentFailsToStart(o, s)
    BY <1>1, <1>2, <2>1 DEF AgentFailsToStart, WorkRec
  <2>2. CASE Records(o, s)
    BY <1>1, <1>2, <2>2 DEF Records, WorkRec
  <2> QED  BY <1>5, <2>1, <2>2
<1>6. CASE Settles(o, s)
  <2>1. PICK next \in {"parked", "done"} :
          work'[<<o, s>>] = [w EXCEPT !.pc = "sync", !.next = next]
    BY <1>2, <1>6 DEF Settles
  <2> QED  BY <1>1, <2>1 DEF WorkRec
<1>7. CASE Acknowledges(o, s) \/ Errs(o, s) \/ Asks(o, s)
  <2>1. CASE Acknowledges(o, s)
    BY <1>1, <1>2, <2>1 DEF Acknowledges, WorkRec
  <2>2. CASE Errs(o, s)
    <3>1. work'[<<o, s>>].pc \in {"done", "guard"}
      BY <1>1, <2>2 DEF Errs, SetWork, WorkRec
    <3> QED  BY <3>1
  <2>3. CASE Asks(o, s)
    BY <1>1, <1>2, <2>3 DEF Asks, WorkRec
  <2> QED  BY <1>7, <2>1, <2>2, <2>3
<1>8. CASE Guards(o, s)
  <2>1. work'[<<o, s>>].pc \in {"write", "done"}
    BY <1>1, <1>8 DEF Guards, SetWork, WorkRec
  <2> QED  BY <2>1
<1>9. CASE WorkSyncs(o, s)
  <2>1. /\ work'[<<o, s>>] = SyncRead(w, IF w.pc = "parked" THEN "ask" ELSE w.next)
        /\ w.pc \in {"sync", "parked"}
        /\ UNCHANGED <<step, cancels, asks>>
    BY <1>2, <1>9 DEF WorkSyncs, rows
  <2>2. /\ work'[<<o, s>>].next = (IF w.pc = "parked" THEN "ask" ELSE w.next)
        /\ work'[<<o, s>>].pc = "syncing"
        /\ work'[<<o, s>>].attempt = w.attempt
    BY <1>1, <2>1 DEF SyncRead, WorkRec
  <2> QED  BY <2>1, <2>2
<1>10. CASE WorkSynced(o, s)
  <2>1. /\ w.pc = "syncing" /\ UNCHANGED <<step, cancels, asks>>
        /\ work'[<<o, s>>] \in {WorkOff, Synced(w)}
    BY <1>2, <1>10 DEF WorkSynced
  <2>2. work'[<<o, s>>] # WorkOff
    BY DEF WorkOff
  <2>3. work'[<<o, s>>].pc = w.next /\ work'[<<o, s>>].next = "off" /\ work'[<<o, s>>].attempt = w.attempt
    BY <1>1, <2>1, <2>2 DEF Synced, WorkRec
  <2> QED  BY <2>1, <2>3
<1>11. CASE RetryReturns(s) /\ o = Retry
  <2>1. \/ work'[<<o, s>>] = WorkOff
        \/ work'[<<o, s>>] = [WorkOff EXCEPT !.pc = "sync", !.out = w.out]
    BY <1>2, <1>11 DEF RetryReturns
  <2>2. /\ WorkOff.pc = "off" /\ WorkOff.next = "off"
        /\ \A out : [WorkOff EXCEPT !.pc = "sync", !.out = out].next = "off"
        /\ \A out : [WorkOff EXCEPT !.pc = "sync", !.out = out].pc = "sync"
    BY DEF WorkOff
  <2> QED  BY <2>1, <2>2
<1> QED  BY <1>3, <1>4, <1>5, <1>6, <1>7, <1>8, <1>9, <1>10, <1>11 DEF ItemActs

(* An item that has parked its step after its action had done so before,   *)
(* or does it now.                                                         *)
LEMMA ItemsPark ==
  ASSUME Typed, NEW o \in Owners, NEW s \in Steps,
         ItemActs(o, s) \/ (o = Retry /\ RetryReturns(s)), WillAsk(work'[<<o, s>>])
  PROVE  WillAsk(work[<<o, s>>]) \/ Past(s)'
<1> DEFINE w == work[<<o, s>>]
<1>1. /\ <<o, s>> \in Items /\ work \in [Items -> WorkRec] /\ step \in Table
      /\ w \in WorkRec /\ ParkedItem(w)
  BY DEF Typed, TypeOK, Items, Parked
<1>2. ASSUME NEW r, SetWork(o, s, r)
      PROVE  work'[<<o, s>>] = r
  BY <1>1, <1>2 DEF SetWork
<1> USE DEF WillAsk
<1>3. CASE Claims(o, s)
  <2>1. CASE step[s] = "Ready"
    <3>1. work'[<<o, s>>] = [w EXCEPT !.pc = "sync", !.next = "run",
                               !.seen = "Running", !.attempt = attempt[s]]
      BY <1>2, <1>3, <2>1 DEF Claims
    <3> QED  BY <1>1, <3>1 DEF WorkRec
  <2>2. CASE step[s] # "Ready"
    <3>1. work'[<<o, s>>] = [w EXCEPT !.pc = "done", !.out = "Completed"]
      BY <1>2, <1>3, <2>2 DEF Claims
    <3> QED  BY <1>1, <3>1 DEF WorkRec
  <2> QED  BY <2>1, <2>2
<1>4. CASE AgentEnds(o, s)
  <2>1. PICK pc \in {"record", "write", "acknowledge"} :
          \E out : work'[<<o, s>>] = [w EXCEPT !.pc = pc, !.out = out]
    BY <1>2, <1>4 DEF AgentEnds
  <2> QED  BY <1>1, <2>1 DEF WorkRec
<1>5. CASE AgentFailsToStart(o, s) \/ Records(o, s) \/ Acknowledges(o, s)
  <2>1. work'[<<o, s>>].pc \in {"record", "write", "done"} /\ work'[<<o, s>>].next = w.next
    BY <1>1, <1>5 DEF AgentFailsToStart, Records, Acknowledges, SetWork, WorkRec
  <2> QED  BY <2>1
<1>6. CASE Settles(o, s)
  <2>1. /\ work'[<<o, s>>] = [w EXCEPT !.pc = "sync",
                                       !.next = IF w.out \in Parking THEN "parked" ELSE "done"]
        /\ step' = [step EXCEPT ![s] = w.out]
    BY <1>2, <1>6 DEF Settles, SetStep
  <2>2. w.out \in Parking
    BY <1>1, <2>1 DEF WorkRec
  <2> QED  BY <1>1, <2>1, <2>2 DEF Past, Parking, Table
<1>7. CASE Errs(o, s)
  <2>1. work'[<<o, s>>].pc \in {"done", "guard"} /\ work'[<<o, s>>].next = "off"
    BY <1>1, <1>7 DEF Errs, SetWork, WorkRec
  <2> QED  BY <2>1
<1>8. CASE Guards(o, s)
  <2>1. work'[<<o, s>>].pc \in {"write", "done"} /\ work'[<<o, s>>].next = w.next
    BY <1>1, <1>8 DEF Guards, SetWork, WorkRec
  <2> QED  BY <2>1
<1>9. CASE Asks(o, s)
  BY <1>9 DEF Asks
<1>10. CASE WorkSyncs(o, s)
  <2>1. /\ work'[<<o, s>>] = SyncRead(w, IF w.pc = "parked" THEN "ask" ELSE w.next)
        /\ w.pc \in {"sync", "parked"}
    BY <1>2, <1>10 DEF WorkSyncs
  <2>2. /\ work'[<<o, s>>].next = (IF w.pc = "parked" THEN "ask" ELSE w.next)
        /\ work'[<<o, s>>].pc = "syncing"
    BY <1>1, <2>1 DEF SyncRead, WorkRec
  <2> QED  BY <2>1, <2>2
<1>11. CASE WorkSynced(o, s)
  <2>1. w.pc = "syncing" /\ work'[<<o, s>>] \in {WorkOff, Synced(w)}
    BY <1>2, <1>11 DEF WorkSynced
  <2>2. work'[<<o, s>>] # WorkOff
    BY DEF WorkOff
  <2>3. work'[<<o, s>>].pc = w.next /\ work'[<<o, s>>].next = "off"
    BY <1>1, <2>1, <2>2 DEF Synced, WorkRec
  <2> QED  BY <2>1, <2>3
<1>12. CASE RetryReturns(s) /\ o = Retry
  <2>1. \/ work'[<<o, s>>] = WorkOff
        \/ work'[<<o, s>>] = [WorkOff EXCEPT !.pc = "sync", !.out = w.out]
    BY <1>2, <1>12 DEF RetryReturns
  <2>2. work'[<<o, s>>].pc \in {"off", "sync"} /\ work'[<<o, s>>].next = "off"
    BY <2>1 DEF WorkOff
  <2> QED  BY <2>2
<1> QED  BY <1>3, <1>4, <1>5, <1>6, <1>7, <1>8, <1>9, <1>10, <1>11, <1>12 DEF ItemActs

(* It asks only when it has parked the step. *)
LEMMA ItemsAsk ==
  ASSUME NEW o \in Owners, NEW s \in Steps,
         ItemActs(o, s) \/ (o = Retry /\ RetryReturns(s))
  PROVE  \/ UNCHANGED asks
         \/ WillAsk(work[<<o, s>>]) /\ \E k : asks' = asks \cup {<<s, k>>}
<1>1. CASE Asks(o, s)
  BY <1>1 DEF Asks, WillAsk
<1>2. CASE ~Asks(o, s)
  BY <1>2 DEF ItemActs, Claims, AgentEnds, AgentFailsToStart, Records, Settles,
              Acknowledges, Errs, Guards, WorkSyncs, WorkSynced, RetryReturns, rows
<1> QED  BY <1>1, <1>2

(* It clears only the request to cancel its own run. *)
LEMMA ItemsClearOwn ==
  ASSUME NEW o \in Owners, NEW s \in Steps,
         ItemActs(o, s) \/ (o = Retry /\ RetryReturns(s))
  PROVE  \/ UNCHANGED cancels
         \/ /\ Claimed(work[<<o, s>>])
            /\ cancels' = cancels \ {<<s, work[<<o, s>>].attempt>>}
<1>1. CASE AgentEnds(o, s)
  BY <1>1 DEF AgentEnds, Claimed
<1>2. CASE ~AgentEnds(o, s)
  BY <1>2 DEF ItemActs, Claims, Asks, AgentFailsToStart, Records, Settles,
              Acknowledges, Errs, Guards, WorkSyncs, WorkSynced, RetryReturns, rows
<1> QED  BY <1>1, <1>2

(* A handler that goes on does so with its request, with what is left of   *)
(* its list, and mostly with what it has loaded.                           *)
SameRequest ==
  /\ user'.act = user.act
  /\ user'.todo \subseteq user.todo
  /\ user'.seen = user.seen \/ user.act \in {"retry", "reject"}
  /\ user'.pc = "ready" \/ user.pc = "prepare" => RetryPrepares
  /\ user.act \in Stopping /\ Places' \cap {"request", "settle"} # {} =>
       \/ UserSweeps
       \/ Places \cap {"request", "settle"} # {} /\ user'.todo = user.todo
  /\ user.act = "interrupt" /\ "settle" \in Places' => InterruptCancels \/ "settle" \in Places
  /\ Places' \cap {"record", "fail"} # {} =>
       Places \cap {"record", "fail"} # {} /\ user'.todo = user.todo

LEMMA HandlersKeepRequest ==
  ASSUME Typed, UserSound, SoundRetry, HandlerActs, user' # UserOff
  PROVE  SameRequest
<1>1. /\ user \in UserRec
      /\ user.pc \notin {"sync", "syncing"} => user.next = "off"
  BY DEF Typed, TypeOK, Aimed
<1>2. /\ Places \cap {"revive", "hold", "force", "finish"} = {}
      /\ user.pc \in {"prepare", "ready"} => user.act = "retry"
      /\ user.next \notin {"prepare", "ready"}
      /\ "record" \in Places => user.act = "reject"
      /\ "cancel" \in Places => user.act = "interrupt"
  BY DEF UserSound
<1> USE <1>1, <1>2 DEF SameRequest, Places, Stopping, UserRec
<1>3. CASE UserSweeps
  BY <1>3 DEF UserSweeps
<1>4. CASE UserRequests
  <2>1. /\ user.pc = "request"
        /\ user' = [user EXCEPT !.pc = "sync",
                                !.next = IF user.act = "interrupt" THEN "cancel" ELSE "settle"]
    BY <1>4 DEF UserRequests
  <2> QED  BY <2>1
<1>5. CASE UserSettles
  <2>1. /\ user.pc = "settle"
        /\ \E next \in {"off", "sweep"} :
             user' = [user EXCEPT !.pc = "sync", !.todo = @ \ {First(user.todo)}, !.next = next]
    BY <1>5 DEF UserSettles
  <2> QED  BY <2>1
<1>6. CASE InterruptCancels
  <2>1. user.pc = "cancel" /\ user' = [user EXCEPT !.pc = "settle"]
    BY <1>6, user' # UserOff DEF InterruptCancels
  <2> QED  BY <1>6, <2>1
<1>7. CASE Skips \/ AnswerFails
  <2>1. user.pc \in {"skip", "fail"} /\ user' = [user EXCEPT !.pc = "sync", !.next = "again"]
    BY <1>7, user' # UserOff DEF Skips, AnswerFails
  <2> QED  BY <2>1
<1>8. CASE RetryPrepares
  BY <1>8 DEF RetryPrepares
<1>9. CASE UserReadies
  <2>1. /\ user.pc = "ready" /\ \E next \in {"activate", "again"} :
             user' = [user EXCEPT !.pc = "sync", !.next = next]
    BY <1>9 DEF UserReadies
  <2> QED  BY <2>1
<1>10. CASE RetryActivates
  BY <1>10 DEF RetryActivates
<1>11. CASE AnswerRecords
  BY <1>11 DEF AnswerRecords
<1>12. CASE UserSyncs
  <2>1. PICK next : /\ \/ user.pc = "sync" /\ next = user.next
                       \/ user.pc \in {"sweep", "again"} /\ next \in {"pause", "off", "wake"}
                    /\ user' = SyncRead(user, next)
    BY <1>12 DEF UserSyncs
  <2>2. /\ user'.act = user.act /\ user'.todo = user.todo /\ user'.seen = user.seen
        /\ user'.pc = "syncing" /\ user'.next = next
    BY <2>1 DEF SyncRead
  <2> HIDE DEF UserRec
  <2> QED  BY <2>1, <2>2
<1>13. CASE UserSynced
  <2>1. user.pc = "syncing" /\ \E e : user' = [Synced(user) EXCEPT !.exec = e]
    BY <1>13, user' # UserOff DEF UserSynced
  <2>2. /\ user'.act = user.act /\ user'.todo = user.todo /\ user'.seen = user.seen
        /\ user'.pc = user.next /\ user'.next = "off"
    BY <2>1 DEF Synced
  <2> HIDE DEF UserRec
  <2> QED  BY <2>1, <2>2
<1>14. CASE ResumeRevives \/ CompleteHolds \/ CompleteForces \/ CompleteCloses \/ CompleteEnds
  BY <1>14 DEF ResumeRevives, CompleteHolds, CompleteForces, CompleteCloses, CompleteEnds
<1>15. CASE StopEnds \/ PauseEnds \/ RetrySpawns \/ AcceptEnds \/ UserWakes \/ UserErrs
  BY <1>15, user' # UserOff DEF StopEnds, PauseEnds, RetrySpawns, AcceptEnds, UserWakes, UserErrs
<1> QED  BY <1>3, <1>4, <1>5, <1>6, <1>7, <1>8, <1>9, <1>10, <1>11, <1>12, <1>13,
            <1>14, <1>15 DEF HandlerActs

(* A handler takes no request to cancel back, and asks nothing. *)
LEMMA HandlersAskNothing ==
  ASSUME HandlerActs
  PROVE  asks' \subseteq asks /\ cancels \subseteq cancels'
BY DEF HandlerActs, UserSweeps, UserRequests, UserSettles, StopEnds, PauseEnds,
       InterruptCancels, Skips, RetryPrepares, UserReadies, RetryActivates, RetrySpawns,
       ResumeRevives, AnswerRecords, AnswerFails, CompleteHolds, CompleteForces,
       CompleteCloses, CompleteEnds, AcceptEnds, UserSyncs, UserSynced, UserWakes,
       UserErrs, rows

(* It gives the step it retries a new attempt. *)
LEMMA HandlerAttempts ==
  ASSUME Typed, UserSound, SoundRetry, HandlerActs, NEW s \in Steps
  PROVE  /\ attempt[s] \in Nat
         /\ \/ attempt'[s] = attempt[s]
            \/ /\ RetryPrepares /\ user.act = "retry" /\ s \in user.todo
               /\ attempt'[s] = attempt[s] + 1
<1>1. attempt \in [Steps -> Nat]
  BY DEF Typed, TypeOK
<1>2. CASE RetryPrepares
  <2>1. user.pc = "prepare" /\ attempt' = [attempt EXCEPT ![First(user.todo)] = @ + 1]
    BY <1>2 DEF RetryPrepares
  <2>2. First(user.todo) \in user.todo /\ user.act = "retry"
    BY <2>1, OnTheList DEF UserSound
  <2> QED  BY <1>1, <1>2, <2>1, <2>2
<1>3. CASE ~RetryPrepares
  <2>1. UNCHANGED attempt
    BY <1>3, HandlerCancels DEF UserSweeps, InterruptCancels, rows
  <2> QED  BY <1>1, <2>1
<1> QED  BY <1>2, <1>3

(* A step does not go back, and its attempts count up, unless the handler  *)
(* that has taken a new attempt of it makes it ready.                      *)
LEMMA StartedStays ==
  ASSUME Whole, RetriesCount, HandlerActs, NEW s \in Steps, Past(s) \/ attempt[s] >= 1
  PROVE  Past(s)' \/ attempt'[s] >= 1
<1> USE DEF Whole
<1>1. attempt[s] \in Nat /\ attempt'[s] \in {attempt[s], attempt[s] + 1}
  BY HandlerAttempts
<1>2. CASE UserReadies
  <2>1. /\ user.pc = "ready" /\ step' = [step EXCEPT ![First(user.todo)] = "Ready"]
    BY <1>2 DEF UserReadies, SetStep
  <2>2. First(user.todo) \in user.todo /\ user.act = "retry"
    BY <2>1, OnTheList DEF UserSound
  <2>3. CASE s = First(user.todo)
    BY <1>1, <2>1, <2>2, <2>3 DEF RetriesCount
  <2>4. CASE s # First(user.todo)
    BY <1>1, <2>1, <2>4 DEF Past, Typed, TypeOK, Table
  <2> QED  BY <2>3, <2>4
<1>3. CASE ~UserReadies
  BY <1>1, <1>3, HandlerStatuses
<1> QED  BY <1>2, <1>3

-----------------------------------------------------------------------------
(* A pass keeps Single. *)
LEMMA PassKeepsSingle ==
  ASSUME OnlyInterrupted, Whole, Single, NEW p \in Passes, PassActs(p)
  PROVE  Single'
<1> USE DEF Whole, Single
<1>1. UNCHANGED <<user, cancels, attempt, asks>> /\ PassSees(p)
  <2>1. UNCHANGED asks
    BY DEF PassActs, PassBegins, PassReads, PassPromotes, PassSelects, PassLaunches,
           PassJoins, PassJudges, PassSyncs, PassSynced, PassEnds, rows
  <2> QED  BY <2>1, PassFrame, PassAttempts DEF PassesSee
<1>2. \A s \in Steps : Past(s) => Past(s)'
  BY <1>1, PassOnward DEF Onward
<1>3. ASSUME NEW o \in Owners, NEW s \in Steps
      PROVE  \/ work'[<<o, s>>] = work[<<o, s>>]
             \/ o # Retry /\ ~Claimed(work'[<<o, s>>]) /\ ~WillAsk(work'[<<o, s>>])
  <2>1. /\ ~Claimed(WorkOff) /\ ~WillAsk(WorkOff)
        /\ \A e : ~Claimed(Launched(e)) /\ ~WillAsk(Launched(e))
    BY DEF Claimed, WillAsk, WorkOff, Launched
  <2>2. p # Retry
    BY RetryAssumption
  <2> QED  BY <2>1, <2>2, PassItems
<1>4. AttemptsFit'
  <2>1. ASSUME NEW o \in Owners, NEW s \in Steps
        PROVE  AttemptFits(o, s)'
    BY <1>1, <1>2, <1>3 DEF AttemptsFit, AttemptFits
  <2> QED  BY <2>1 DEF AttemptsFit
<1>5. RetriesCount'
  <2>1. Retry \in Owners
    BY DEF Owners
  <2> QED  BY <1>1, <1>3, <2>1 DEF RetriesCount
<1>6. FirstRuns'
  <2>1. ASSUME NEW o \in Owners, NEW s \in Steps, FirstRun(o, s)'
        PROVE  /\ attempt[s] = 0
               /\ step'[s] \in {"Running", "InterruptRequested"}
               /\ ~AskedAbout(s) /\ ~Grants(s)
    <3>1. FirstRun(o, s)
      BY <1>1, <1>3, <2>1 DEF FirstRun
    <3>2. step'[s] = step[s]
      <4>1. step[s] # "Pending" /\ step \in Table
        BY <2>1, <3>1 DEF FirstRuns, Typed, TypeOK
      <4> QED  BY <1>1, <4>1, PassSteps DEF Table
    <3> QED  BY <2>1, <3>1, <3>2 DEF FirstRuns
  <2> QED  BY <1>1, <2>1 DEF FirstRuns, AskedAbout, Grants, Places
<1>7. InterruptSettles' /\ Rejects'
  BY <1>1 DEF InterruptSettles, Rejects, Places
<1>8. OpenedWereStarted'
  <2>1. ASSUME NEW s \in Steps, Opened(s)'
        PROVE  Opened(s)
    BY <1>1, <1>3, <2>1 DEF Opened, AskedAbout
  <2> QED  BY <1>1, <1>2, <2>1 DEF OpenedWereStarted
<1> QED  BY <1>4, <1>5, <1>6, <1>7, <1>8

-----------------------------------------------------------------------------
(* An item keeps Single. *)

(* A step that is found ready, and has not been retried, is nobody's: the  *)
(* user is not asked about it, and no handler has it on a list from which  *)
(* it would end a run.                                                     *)
LEMMA NobodyGrantsReady ==
  ASSUME Whole, Single, NEW s \in Steps, step[s] = "Ready", attempt[s] = 0
  PROVE  ~AskedAbout(s) /\ ~Grants(s)
<1> USE DEF Whole, Single
<1>1. ~Past(s) /\ ~(attempt[s] >= 1)
  BY DEF Past
<1>2. ~Opened(s)
  BY <1>1 DEF OpenedWereStarted
<1>3. ASSUME s \in user.todo
      PROVE  user.act \notin Stopping \cup {"interrupt", "retry", "reject"}
  <2>1. user.act \notin Stopping \cup {"interrupt"}
    BY <1>1, <1>3 DEF UserMinds
  <2>2. user.act # "reject"
    BY <1>2, <1>3 DEF Opened
  <2>3. user.act # "retry"
    BY <1>1, <1>3 DEF UserMinds, RetriesCount
  <2> QED  BY <2>1, <2>2, <2>3
<1> QED  BY <1>2, <1>3 DEF Opened, Grants

LEMMA ItemKeepsSingle ==
  ASSUME OnlyInterrupted, Whole, Single, NEW o \in Owners, NEW s \in Steps,
         ItemActs(o, s) \/ (o = Retry /\ RetryReturns(s))
  PROVE  Single'
<1> USE DEF Whole, Single
<1>1. /\ UNCHANGED <<user, attempt>> /\ step \in Table /\ attempt \in [Steps -> Nat]
      /\ work[<<o, s>>].pc # "off"
  BY ItemFrame, ItemAttempts, ItemsAreOn DEF Typed, TypeOK
<1>2. \A t \in Steps : Past(t) => Past(t)'
  BY ItemOnward DEF Onward
<1>3. ASSUME NEW r \in Owners, NEW t \in Steps, r # o \/ t # s
      PROVE  work'[<<r, t>>] = work[<<r, t>>]
  BY <1>3, ItemFrame DEF Items
<1>4. AttemptsFit'
  <2>1. ASSUME NEW r \in Owners, NEW t \in Steps, r # o \/ t # s, Claimed(work'[<<r, t>>])
        PROVE  AttemptFits(r, t)'
    <3>1. work'[<<r, t>>] = work[<<r, t>>]
      BY <1>3, <2>1
    <3>2. /\ work[<<r, t>>].attempt <= attempt[t]
          /\ ~Past(t) \/ (user.pc = "ready" /\ t \in user.todo) =>
               work[<<r, t>>].attempt # attempt[t]
          /\ \A q \in Owners \ {r} :
               Claimed(work[<<q, t>>]) => work[<<q, t>>].attempt # work[<<r, t>>].attempt
      BY <2>1, <3>1 DEF AttemptsFit, AttemptFits
    <3>3. ASSUME NEW q \in Owners \ {r}, Claimed(work'[<<q, t>>])
          PROVE  work'[<<q, t>>].attempt # work[<<r, t>>].attempt
      <4>1. CASE q # o \/ t # s
        BY <1>3, <3>2, <3>3, <4>1
      <4>2. CASE q = o /\ t = s
        <5>1. \/ Claimed(work[<<o, s>>]) /\ work'[<<o, s>>].attempt = work[<<o, s>>].attempt
              \/ step[s] = "Ready" /\ work'[<<o, s>>].attempt = attempt[s]
          BY <3>3, <4>2, ItemsRun
        <5> QED  BY <3>2, <3>3, <4>2, <5>1 DEF Past
      <4> QED  BY <4>1, <4>2
    <3> QED  BY <1>1, <1>2, <3>1, <3>2, <3>3 DEF AttemptFits
  <2>2. ASSUME Claimed(work'[<<o, s>>])
        PROVE  AttemptFits(o, s)'
    <3>1. CASE /\ Claimed(work[<<o, s>>])
               /\ work'[<<o, s>>].attempt = work[<<o, s>>].attempt
      BY <1>1, <1>2, <1>3, <3>1 DEF AttemptsFit, AttemptFits
    <3>2. CASE /\ step[s] = "Ready" /\ step' = [step EXCEPT ![s] = "Running"]
               /\ work'[<<o, s>>].attempt = attempt[s]
      <4>1. Past(s)' /\ ~Past(s)
        BY <1>1, <3>2 DEF Past, Table
      <4>2. ~(user.pc = "ready" /\ s \in user.todo)
        BY <4>1 DEF UserMinds
      <4>3. ASSUME NEW q \in Owners \ {o}, Claimed(work'[<<q, s>>])
            PROVE  work'[<<q, s>>].attempt # attempt[s]
        BY <1>3, <4>1, <4>3 DEF AttemptsFit, AttemptFits
      <4>4. attempt[s] <= attempt[s]
        BY <1>1
      <4> QED  BY <1>1, <3>2, <4>1, <4>2, <4>3, <4>4 DEF AttemptFits
    <3> QED  BY <2>2, <3>1, <3>2, ItemsRun
  <2>3. ASSUME NEW r \in Owners, NEW t \in Steps
        PROVE  AttemptFits(r, t)'
    <3>1. CASE Claimed(work'[<<r, t>>])
      BY <2>1, <2>2, <3>1
    <3>2. CASE ~Claimed(work'[<<r, t>>])
      BY <3>2 DEF AttemptFits
    <3> QED  BY <3>1, <3>2
  <2> QED  BY <2>3 DEF AttemptsFit
<1>5. RetriesCount'
  <2>1. Retry \in Owners
    BY DEF Owners
  <2>2. ASSUME NEW t \in Steps, work'[<<Retry, t>>].pc # "off"
        PROVE  work[<<Retry, t>>].pc # "off"
    BY <1>1, <1>3, <2>1, <2>2
  <2> QED  BY <1>1, <2>2 DEF RetriesCount
<1>6. FirstRuns'
  <2>1. ASSUME NEW r \in Owners, NEW t \in Steps, FirstRun(r, t)', t # s
        PROVE  /\ attempt[t] = 0
               /\ step'[t] \in {"Running", "InterruptRequested"}
               /\ ~AskedAbout(t)' /\ ~Grants(t)
    <3>1. work'[<<r, t>>] = work[<<r, t>>]
      BY <1>3, <2>1
    <3>2. <<t, 0>> \notin cancels
      <4>1. <<t, 0>> \notin cancels' /\ <<t, 0>> # <<s, work[<<o, s>>].attempt>>
        BY <2>1 DEF FirstRun
      <4> QED  BY <4>1, ItemsClearOwn
    <3>3. FirstRun(r, t)
      BY <2>1, <3>1, <3>2 DEF FirstRun
    <3>4. step'[t] = step[t]
      BY <1>1, <2>1, ItemSteps DEF Table
    <3>5. AskedAbout(t)' => AskedAbout(t)
      <4>1. \A k : <<s, k>>[1] # t
        BY <2>1
      <4>2. CASE UNCHANGED asks
        BY <4>2 DEF AskedAbout
      <4>3. ASSUME NEW k, asks' = asks \cup {<<s, k>>}
            PROVE  AskedAbout(t)' => AskedAbout(t)
        BY <4>1, <4>3 DEF AskedAbout
      <4> QED  BY <4>2, <4>3, ItemsAsk
    <3> QED  BY <3>3, <3>4, <3>5 DEF FirstRuns
  <2>2. ASSUME FirstRun(o, s)'
        PROVE  /\ attempt[s] = 0
               /\ step'[s] \in {"Running", "InterruptRequested"}
               /\ ~AskedAbout(s)' /\ ~Grants(s)
    <3>1. CASE /\ Claimed(work[<<o, s>>])
               /\ work'[<<o, s>>].attempt = work[<<o, s>>].attempt
               /\ UNCHANGED <<step, cancels, asks>>
      BY <2>2, <3>1 DEF FirstRun, FirstRuns, AskedAbout
    <3>2. CASE /\ step[s] = "Ready" /\ step' = [step EXCEPT ![s] = "Running"]
               /\ work'[<<o, s>>].attempt = attempt[s]
               /\ UNCHANGED <<cancels, asks>>
      <4>1. attempt[s] = 0 /\ step'[s] = "Running" /\ UNCHANGED asks
        BY <1>1, <2>2, <3>2 DEF FirstRun, Table
      <4> QED  BY <3>2, <4>1, NobodyGrantsReady DEF AskedAbout
    <3> QED  BY <2>2, <3>1, <3>2, ItemsRun DEF FirstRun
  <2>3. ASSUME NEW r \in Owners, r # o, FirstRun(r, s)'
        PROVE  FALSE
    <3>1. work'[<<r, s>>] = work[<<r, s>>]
      BY <1>3, <2>3
    <3>2. Claimed(work[<<r, s>>]) /\ work[<<r, s>>].attempt = 0 /\ <<s, 0>> \notin cancels'
      BY <2>3, <3>1 DEF FirstRun
    <3>3. Claimed(work[<<o, s>>]) => work[<<o, s>>].attempt # 0
      BY <2>3, <3>2 DEF AttemptsFit, AttemptFits
    <3>4. <<s, 0>> \notin cancels
      BY <3>2, <3>3, ItemsClearOwn
    <3>5. attempt[s] = 0
      BY <3>2, <3>4 DEF FirstRun, FirstRuns
    <3>6. work[<<r, s>>].pc # "off"
      BY <3>2 DEF Claimed
    <3> QED  BY <1>1, <2>3, <3>5, <3>6, LoneItem
  <2>4. ASSUME NEW r \in Owners, NEW t \in Steps, FirstRun(r, t)'
        PROVE  /\ attempt[t] = 0
               /\ step'[t] \in {"Running", "InterruptRequested"}
               /\ ~AskedAbout(t)' /\ ~Grants(t)
    BY <2>1, <2>2, <2>3, <2>4
  <2>5. \A t \in Steps : Grants(t)' => Grants(t)
    BY <1>1 DEF Grants, Places
  <2> QED  BY <1>1, <2>4, <2>5 DEF FirstRuns
<1>7. InterruptSettles' /\ Rejects'
  BY <1>1 DEF InterruptSettles, Rejects, Places
<1>8. OpenedWereStarted'
  <2>1. ASSUME NEW t \in Steps, NEW r \in Owners, WillAsk(work'[<<r, t>>])
        PROVE  Opened(t) \/ Past(t)'
    <3>1. CASE r = o /\ t = s
      BY <2>1, <3>1, ItemsPark DEF Opened
    <3>2. CASE r # o \/ t # s
      BY <1>3, <2>1, <3>2 DEF Opened
    <3> QED  BY <3>1, <3>2
  <2>2. ASSUME NEW t \in Steps, AskedAbout(t)'
        PROVE  Opened(t)
    <3>1. CASE UNCHANGED asks
      BY <2>2, <3>1 DEF Opened, AskedAbout
    <3>2. ASSUME WillAsk(work[<<o, s>>]), NEW k, asks' = asks \cup {<<s, k>>}
          PROVE  Opened(t)
      BY <2>2, <3>2 DEF Opened, AskedAbout
    <3> QED  BY <3>1, <3>2, ItemsAsk
  <2>3. ASSUME NEW t \in Steps, Opened(t)'
        PROVE  Opened(t) \/ Past(t)'
    BY <1>1, <2>1, <2>2, <2>3 DEF Opened
  <2> QED  BY <1>1, <1>2, <2>3 DEF OpenedWereStarted
<1> QED  BY <1>4, <1>5, <1>6, <1>7, <1>8

-----------------------------------------------------------------------------
(* A handler keeps Single. *)

(* What it writes, while it grants nothing, is a request to interrupt. *)
LEMMA HandlersOnlyRequest ==
  ASSUME Whole, Single, HandlerActs, NEW s \in Steps,
         step[s] \in {"Running", "InterruptRequested"}, ~Grants(s)
  PROVE  step'[s] \in {"Running", "InterruptRequested"}
<1> DEFINE f == First(user.todo)
<1> USE DEF Whole, Single
<1>1. step \in Table
  BY DEF Typed, TypeOK
<1>2. ASSUME s # f, NEW to, SetStep(f, to)
      PROVE  step'[s] = step[s]
  BY <1>1, <1>2 DEF SetStep, Table
<1>3. CASE UserRequests
  BY <1>1, <1>2, <1>3 DEF UserRequests, SetStep, Table
<1>4. CASE UserSettles
  <2>1. user.pc = "settle" /\ SetStep(f, "Interrupted")
    BY <1>4 DEF UserSettles
  <2>2. f \in user.todo /\ user.act \in Stopping \cup {"interrupt"}
    BY <2>1, OnTheList DEF UserSound, Places
  <2>3. Grants(f)
    BY <2>1, <2>2 DEF Grants, InterruptSettles, Places
  <2> QED  BY <1>2, <2>1, <2>3
<1>5. CASE UserReadies
  <2>1. user.pc = "ready" /\ SetStep(f, "Ready")
    BY <1>5 DEF UserReadies
  <2>2. Grants(f)
    BY <2>1, OnTheList DEF UserSound, Grants
  <2> QED  BY <1>2, <2>1, <2>2
<1>6. CASE Skips
  <2>1. CASE step[f] = user.seen[f]
    <3>1. StepMayMove(user.exec, step[f], "Skipped") /\ SetStep(f, "Skipped")
      BY <1>6, <2>1 DEF Skips
    <3>2. step[f] \notin {"Running", "InterruptRequested"}
      BY <3>1 DEF StepMayMove, StepMoves
    <3> QED  BY <1>2, <3>1, <3>2
  <2>2. CASE step[f] # user.seen[f]
    BY <1>6, <2>2 DEF Skips
  <2> QED  BY <2>1, <2>2
<1>7. CASE AnswerFails
  <2>1. user.pc = "fail" /\ SetStep(f, "Failed")
    BY <1>7 DEF AnswerFails
  <2>2. user.act = "reject" /\ user.todo # {} /\ user.todo \in SUBSET Steps
    BY <2>1 DEF Rejects, Places, Typed, TypeOK, UserRec
  <2>3. Grants(f)
    BY <2>2, FirstIsOne DEF Grants
  <2> QED  BY <1>2, <2>1, <2>3
<1>8. CASE ResumeRevives \/ CompleteForces
  BY <1>8 DEF ResumeRevives, CompleteForces, UserSound, Places
<1>9. CASE ~(UserRequests \/ UserSettles \/ Skips \/ UserReadies \/ AnswerFails
             \/ ResumeRevives \/ CompleteForces)
  BY <1>9 DEF HandlerActs, UserSweeps, StopEnds, PauseEnds, InterruptCancels,
              RetryPrepares, RetryActivates, RetrySpawns, AnswerRecords, CompleteHolds,
              CompleteCloses, CompleteEnds, AcceptEnds, UserSyncs, UserSynced,
              UserWakes, UserErrs, rows
<1> QED  BY <1>3, <1>4, <1>5, <1>6, <1>7, <1>8, <1>9

(* A handler comes to grant what it did not only when it tells the run of  *)
(* the step it goes on with to stop.                                       *)
LEMMA NobodyComesToGrant ==
  ASSUME Whole, Single, HandlerActs, NEW s \in Steps, Grants(s)', ~Grants(s)
  PROVE  Cancelled(s)' /\ UNCHANGED attempt
<1> DEFINE f == First(user.todo)
<1> USE DEF Whole, Single
<1>1. user' # UserOff
  BY DEF Grants, UserOff
<1>2. SameRequest
  BY <1>1, HandlersKeepRequest
<1>3. s \in user.todo /\ s \in user'.todo
  BY <1>2 DEF Grants, SameRequest
<1>4. ~(user.act \in {"reject", "retry"}) /\ user'.seen = user.seen /\ user'.act = user.act
  BY <1>2, <1>3 DEF Grants, SameRequest
<1>5. /\ user.act \in Stopping /\ s = First(user'.todo)
      /\ Places' \cap {"request", "settle"} # {}
  BY <1>3, <1>4 DEF Grants
<1>6. UserSweeps
  BY <1>2, <1>3, <1>5 DEF SameRequest, Grants
<1>7. /\ user' = [user EXCEPT !.pc = "request"] /\ user \in UserRec
      /\ cancels' = IF user.seen[f] = "Running" THEN cancels \cup {<<f, attempt[f]>>} ELSE cancels
      /\ UNCHANGED attempt
  BY <1>6 DEF UserSweeps, rows, Typed, TypeOK
<1>8. s = f
  BY <1>5, <1>7 DEF UserRec
<1>9. user.seen[s] = "Running"
  <2>1. user.seen[s] \in Interruptible
    BY <1>3, <1>5 DEF UserMinds
  <2>2. user.seen[s] \notin Parking
    BY <1>3, <1>5 DEF Grants
  <2> QED  BY <2>1, <2>2 DEF Interruptible, Parking
<1> QED  BY <1>7, <1>8, <1>9 DEF Cancelled

LEMMA HandlerKeepsSingle ==
  ASSUME OnlyInterrupted, Whole, Single, HandlerActs
  PROVE  Single'
<1> USE DEF Whole, Single
<1>0. /\ UserOff.act = "none" /\ UserOff.pc = "off" /\ UserOff.next = "off"
      /\ UserOff.todo = {}
  BY OffMinds
<1>1. user' # UserOff => SameRequest
  BY HandlersKeepRequest
<1>2. ASSUME NEW o \in Owners, NEW s \in Steps
      PROVE  \/ work'[<<o, s>>] = work[<<o, s>>]
             \/ ~Claimed(work'[<<o, s>>]) /\ ~WillAsk(work'[<<o, s>>])
  <2>1. \A e : ~Claimed(Launched(e)) /\ ~WillAsk(Launched(e))
    BY DEF Claimed, WillAsk, WorkOff, Launched
  <2> QED  BY <2>1, HandlerItems
<1>3. asks' \subseteq asks /\ cancels \subseteq cancels'
  BY HandlersAskNothing
<1>4. AttemptsFit'
  <2>1. ASSUME NEW o \in Owners, NEW s \in Steps, Claimed(work'[<<o, s>>])
        PROVE  AttemptFits(o, s)'
    <3>1. work'[<<o, s>>] = work[<<o, s>>]
      BY <1>2, <2>1
    <3>2. /\ work[<<o, s>>].attempt <= attempt[s]
          /\ ~Past(s) \/ (user.pc = "ready" /\ s \in user.todo) =>
               work[<<o, s>>].attempt # attempt[s]
          /\ \A q \in Owners \ {o} :
               Claimed(work[<<q, s>>]) => work[<<q, s>>].attempt # work[<<o, s>>].attempt
      BY <2>1, <3>1 DEF AttemptsFit, AttemptFits
    <3>3. work[<<o, s>>].attempt \in Nat /\ attempt[s] \in Nat
      <4>1. <<o, s>> \in Items /\ work \in [Items -> WorkRec] /\ attempt \in [Steps -> Nat]
        BY DEF Items, Typed, TypeOK
      <4>2. work[<<o, s>>] \in WorkRec
        BY <4>1
      <4> QED  BY <4>1, <4>2 DEF WorkRec
    <3>4. \A q \in Owners \ {o} :
            Claimed(work'[<<q, s>>]) => work'[<<q, s>>].attempt # work[<<o, s>>].attempt
      BY <1>2, <3>2
    <3>5. CASE attempt'[s] = attempt[s] + 1
      <4>1. work[<<o, s>>].attempt <= attempt[s] + 1 /\ work[<<o, s>>].attempt # attempt[s] + 1
        BY <3>2, <3>3
      <4> QED  BY <3>1, <3>4, <3>5, <4>1 DEF AttemptFits
    <3>6. CASE attempt'[s] = attempt[s]
      <4>1. ASSUME ~Past(s)'
            PROVE  ~Past(s) \/ (user.pc = "ready" /\ s \in user.todo)
        <5>1. CASE UserReadies
          <6>1. user.pc = "ready" /\ step' = [step EXCEPT ![First(user.todo)] = "Ready"]
            BY <5>1 DEF UserReadies, SetStep
          <6>2. First(user.todo) \in user.todo
            BY <6>1, OnTheList
          <6>3. s # First(user.todo) => step'[s] = step[s]
            BY <6>1 DEF Typed, TypeOK, Table
          <6> QED  BY <4>1, <6>1, <6>2, <6>3 DEF Past
        <5>2. CASE ~UserReadies
          BY <4>1, <5>2, HandlerStatuses
        <5> QED  BY <5>1, <5>2
      <4>2. ASSUME user'.pc = "ready" /\ s \in user'.todo
            PROVE  FALSE
        <5>1. RetryPrepares /\ s \in user.todo
          BY <1>0, <1>1, <4>2 DEF SameRequest
        <5>2. user.pc = "prepare" /\ attempt' = [attempt EXCEPT ![First(user.todo)] = @ + 1]
          BY <5>1 DEF RetryPrepares
        <5>3. First(user.todo) \in user.todo /\ First(user.todo) \in Steps /\ user.act = "retry"
          BY <5>2, OnTheList DEF UserSound
        <5>4. s = First(user.todo)
          BY <5>1, <5>3 DEF UserSound
        <5>5. attempt'[s] = attempt[s] + 1
          BY <5>2, <5>3, <5>4 DEF Typed, TypeOK
        <5> QED  BY <3>3, <3>6, <5>5
      <4> QED  BY <3>1, <3>2, <3>4, <3>6, <4>1, <4>2 DEF AttemptFits
    <3> QED  BY <3>5, <3>6, HandlerAttempts
  <2>2. ASSUME NEW o \in Owners, NEW s \in Steps
        PROVE  AttemptFits(o, s)'
    <3>1. CASE Claimed(work'[<<o, s>>])
      BY <2>1, <3>1
    <3>2. CASE ~Claimed(work'[<<o, s>>])
      BY <3>2 DEF AttemptFits
    <3> QED  BY <3>1, <3>2
  <2> QED  BY <2>2 DEF AttemptsFit
<1>5. RetriesCount'
  <2>0. user.todo \subseteq Steps
    BY DEF Typed, TypeOK, UserRec
  <2>1. ASSUME NEW s \in Steps, attempt[s] >= 1
        PROVE  attempt'[s] >= 1
    BY <2>1, HandlerAttempts
  <2>2. ASSUME NEW s \in Steps, work'[<<Retry, s>>].pc # "off"
        PROVE  attempt'[s] >= 1
    <3>1. CASE work'[<<Retry, s>>] = work[<<Retry, s>>]
      BY <2>1, <2>2, <3>1 DEF RetriesCount
    <3>2. CASE work'[<<Retry, s>>] # work[<<Retry, s>>]
      <4>1. RetrySpawns
        BY <3>2, HandlerFrame
      <4>2. user.act = "retry" /\ user.pc # "prepare"
        BY <4>1 DEF RetrySpawns, SoundRetry
      <4>3. First(user.todo) \in user.todo
        <5>1. user.todo # {} /\ user.todo \in SUBSET Steps
          BY <2>0, <4>2 DEF SoundRetry
        <5> QED  BY <5>1, FirstIsOne
      <4>4. s = First(user.todo)
        <5>1. PICK r : work' = [work EXCEPT ![<<Retry, First(user.todo)>>] = r]
          BY <4>1 DEF RetrySpawns, SetWork
        <5>2. <<Retry, s>> \in Items /\ work \in [Items -> WorkRec]
          BY DEF Items, Owners, Typed, TypeOK
        <5>3. <<Retry, s>> = <<Retry, First(user.todo)>>
          BY <3>2, <5>1, <5>2
        <5> QED  BY <5>3
      <4> QED  BY <2>1, <4>2, <4>3, <4>4 DEF RetriesCount
    <3> QED  BY <3>1, <3>2
  <2>3. ASSUME user'.act = "retry", NEW s \in user'.todo
        PROVE  attempt'[s] >= 1
    <3>1. SameRequest
      BY <1>0, <1>1, <2>3
    <3>2. user.act = "retry" /\ s \in user.todo /\ s \in Steps
      BY <2>0, <2>3, <3>1 DEF SameRequest
    <3>3. CASE user.pc # "prepare"
      BY <2>1, <3>2, <3>3 DEF RetriesCount
    <3>4. CASE user.pc = "prepare"
      <4>1. attempt' = [attempt EXCEPT ![First(user.todo)] = @ + 1]
        BY <3>1, <3>4 DEF SameRequest, RetryPrepares
      <4>2. First(user.todo) \in user.todo
        BY <3>4, OnTheList
      <4>3. s = First(user.todo)
        BY <3>2, <4>2 DEF UserSound
      <4>4. attempt \in [Steps -> Nat]
        BY DEF Typed, TypeOK
      <4>5. attempt'[s] = attempt[s] + 1 /\ attempt[s] \in Nat
        BY <3>2, <4>1, <4>3, <4>4
      <4> QED  BY <4>5
    <3> QED  BY <3>3, <3>4
  <2> QED  BY <2>2, <2>3 DEF RetriesCount
<1>6. FirstRuns'
  <2>1. ASSUME NEW o \in Owners, NEW s \in Steps, FirstRun(o, s)'
        PROVE  /\ attempt'[s] = 0
               /\ step'[s] \in {"Running", "InterruptRequested"}
               /\ ~AskedAbout(s)' /\ ~Grants(s)'
    <3>1. FirstRun(o, s)
      BY <1>2, <1>3, <2>1 DEF FirstRun
    <3>2. /\ attempt[s] = 0 /\ step[s] \in {"Running", "InterruptRequested"}
          /\ ~AskedAbout(s) /\ ~Grants(s)
      BY <3>1 DEF FirstRuns
    <3>3. attempt'[s] = 0
      BY <3>2, HandlerAttempts DEF Grants
    <3>4. step'[s] \in {"Running", "InterruptRequested"}
      BY <3>2, HandlersOnlyRequest
    <3>5. ~AskedAbout(s)'
      BY <1>3, <3>2 DEF AskedAbout
    <3>6. ~Cancelled(s)'
      BY <2>1, <3>3 DEF FirstRun, Cancelled
    <3> QED  BY <3>2, <3>3, <3>4, <3>5, <3>6, NobodyComesToGrant
  <2> QED  BY <2>1 DEF FirstRuns
<1>7. InterruptSettles'
  <2>1. ASSUME user'.act = "interrupt", "settle" \in Places', NEW s \in user'.todo
        PROVE  user'.seen[s] \in Parking
    <3>1. SameRequest
      BY <1>0, <1>1, <2>1
    <3>2. /\ user.act = "interrupt" /\ s \in user.todo /\ user'.seen = user.seen
          /\ InterruptCancels \/ "settle" \in Places
      BY <2>1, <3>1 DEF SameRequest
    <3>3. CASE "settle" \in Places
      BY <3>2, <3>3 DEF InterruptSettles
    <3>4. CASE InterruptCancels
      <4>1. user.pc = "cancel" /\ user.seen[First(user.todo)] # "Running"
        BY <1>0, <2>1, <3>4 DEF InterruptCancels
      <4>2. First(user.todo) \in user.todo
        BY <4>1, OnTheList
      <4>3. s = First(user.todo)
        BY <3>2, <4>2 DEF UserSound
      <4>4. user.seen[s] \in Interruptible
        BY <3>2 DEF UserMinds
      <4> QED  BY <3>2, <4>1, <4>3, <4>4 DEF Interruptible, Parking
    <3> QED  BY <3>2, <3>3, <3>4
  <2> QED  BY <2>1 DEF InterruptSettles
<1>8. Rejects'
  <2>1. ASSUME Places' \cap {"record", "fail"} # {}
        PROVE  user'.act = "reject" /\ user'.todo # {}
    <3>1. SameRequest
      BY <1>0, <1>1, <2>1 DEF Places
    <3> QED  BY <2>1, <3>1 DEF SameRequest, Rejects
  <2> QED  BY <2>1 DEF Rejects
<1>9. OpenedWereStarted'
  <2>1. ASSUME NEW s \in Steps, Opened(s)'
        PROVE  Opened(s)
    <3>1. user'.act = "reject" /\ s \in user'.todo => user.act = "reject" /\ s \in user.todo
      BY <1>0, <1>1 DEF SameRequest
    <3>2. \A o \in Owners : WillAsk(work'[<<o, s>>]) => WillAsk(work[<<o, s>>])
      BY <1>2
    <3> QED  BY <1>3, <2>1, <3>1, <3>2 DEF Opened, AskedAbout
  <2>2. ASSUME NEW s \in Steps, Opened(s)
        PROVE  Past(s)' \/ attempt'[s] >= 1
    BY <2>2, StartedStays DEF OpenedWereStarted
  <2> QED  BY <2>1, <2>2 DEF OpenedWereStarted
<1> QED  BY <1>4, <1>5, <1>6, <1>7, <1>8, <1>9

-----------------------------------------------------------------------------
(* A request keeps Single, and it holds in the beginning. *)

(* The user refuses what a step asks. *)
LEMMA RefusalsAnswer ==
  ASSUME Arrives
  PROVE  /\ asks' \subseteq asks
         /\ user'.act = "reject" => \A s \in user'.todo : AskedAbout(s)
<1>1. CASE \E s \in Steps : AnswerBegins(s)
  <2>1. PICK s \in Steps : AnswerBegins(s)
    BY <1>1
  <2>2. PICK ask \in asks, act \in {"approve", "reject"} :
          /\ ask[1] = s /\ asks' = asks \ {ask}
          /\ Begins(act, IF act = "approve" THEN "ready" ELSE "record", {s})
    BY <2>1 DEF AnswerBegins
  <2>3. user'.todo = {s}
    BY <2>2 DEF Begins, UserOff
  <2> QED  BY <2>2, <2>3 DEF AskedAbout
<1>2. CASE ~(\E s \in Steps : AnswerBegins(s))
  <2>1. ASSUME NEW act, NEW pc, NEW todo, Begins(act, pc, todo)
        PROVE  user'.act = act
    BY <2>1 DEF Begins, UserOff
  <2>2. UNCHANGED asks /\ user'.act # "reject"
    BY <1>2, <2>1 DEF Arrives, StopBegins, PauseBegins, ResumeBegins, CompleteBegins,
                AcceptBegins, InterruptBegins, SkipBegins, RetryBegins, rows
  <2> QED  BY <2>2
<1> QED  BY <1>1, <1>2

LEMMA RequestKeepsSingle ==
  ASSUME OnlyInterrupted, Whole, Single, Arrives
  PROVE  Single'
<1> USE DEF Whole, Single
<1>1. PICK act, pc, todo :
        /\ user' = [UserOff EXCEPT !.pc = pc, !.act = act, !.exec = exec,
                                   !.seen = step, !.todo = todo]
        /\ \/ /\ act \in Stopping /\ pc = "sweep"
           \/ /\ act = "interrupt" /\ pc = "request"
           \/ /\ act = "retry" /\ pc = "prepare"
              /\ \E s \in Steps : todo = {s} /\ step[s] \in {"Failed", "Interrupted"}
           \/ act = "skip" /\ pc = "skip"
           \/ act = "reject" /\ pc = "record"
           \/ act = "accept" /\ pc = "accept"
  BY RequestAsks
<1>2. /\ user'.pc = pc /\ user'.next = "off" /\ user'.act = act
      /\ user'.seen = step /\ user'.todo = todo
  BY <1>1 DEF UserOff
<1>3. UNCHANGED <<step, attempt, cancels, work>>
  BY RequestLeaves
<1>4. /\ asks' \subseteq asks
      /\ act = "reject" => \A s \in todo : AskedAbout(s)
  BY <1>2, RefusalsAnswer
<1>5. AttemptsFit'
  <2>1. pc # "ready"
    BY <1>1
  <2>2. ASSUME NEW o \in Owners, NEW s \in Steps
        PROVE  AttemptFits(o, s)'
    BY <1>2, <1>3, <2>1 DEF AttemptsFit, AttemptFits, Past
  <2> QED  BY <2>2 DEF AttemptsFit
<1>6. RetriesCount'
  <2>1. act = "retry" => pc = "prepare"
    BY <1>1 DEF Stopping
  <2> QED  BY <1>2, <1>3, <2>1 DEF RetriesCount
<1>7. FirstRuns'
  <2>1. ASSUME NEW o \in Owners, NEW s \in Steps, FirstRun(o, s)'
        PROVE  /\ attempt[s] = 0
               /\ step[s] \in {"Running", "InterruptRequested"}
               /\ ~AskedAbout(s)' /\ ~Grants(s)'
    <3>1. FirstRun(o, s)
      BY <1>3, <2>1 DEF FirstRun
    <3>2. /\ attempt[s] = 0 /\ step[s] \in {"Running", "InterruptRequested"}
          /\ ~AskedAbout(s)
      BY <3>1 DEF FirstRuns
    <3>3. ~AskedAbout(s)'
      BY <1>4, <3>2 DEF AskedAbout
    <3>4. step[s] \notin Parking
      BY <3>2 DEF Parking
    <3>5. s \in todo => act \notin {"reject", "retry"}
      BY <1>1, <1>4, <3>2 DEF Stopping
    <3>6. act \in Stopping => {pc, "off"} \cap {"request", "settle"} = {}
      BY <1>1 DEF Stopping
    <3>7. ~Grants(s)'
      BY <1>2, <3>4, <3>5, <3>6 DEF Grants, Places
    <3> QED  BY <3>2, <3>3, <3>7
  <2> QED  BY <1>3, <2>1 DEF FirstRuns
<1>8. InterruptSettles'
  BY <1>1, <1>2 DEF InterruptSettles, Places
<1>9. Rejects'
  <2>1. pc \in {"record", "fail"} => act = "reject"
    BY <1>1
  <2>2. act = "reject" => todo # {}
    <3>1. CASE act = "reject"
      <4>1. PICK s \in Steps : AnswerBegins(s)
        BY <1>2, <3>1 DEF Arrives, StopBegins, PauseBegins, ResumeBegins, CompleteBegins,
                AcceptBegins, InterruptBegins, SkipBegins, RetryBegins, Begins, UserOff
      <4> QED  BY <1>2, <4>1 DEF AnswerBegins, Begins, UserOff
    <3> QED  BY <3>1
  <2> QED  BY <1>2, <2>1, <2>2 DEF Rejects, Places
<1>10. OpenedWereStarted'
  <2>1. ASSUME NEW s \in Steps, Opened(s)'
        PROVE  Opened(s)
    BY <1>2, <1>3, <1>4, <2>1 DEF Opened, AskedAbout
  <2> QED  BY <1>3, <2>1 DEF OpenedWereStarted, Past
<1> QED  BY <1>5, <1>6, <1>7, <1>8, <1>9, <1>10

LEMMA InitiallySingle ==
  ASSUME Init
  PROVE  Single
<1>1. /\ \A o \in Owners, s \in Steps : work[<<o, s>>] = WorkOff
      /\ Retry \in Owners /\ user = UserOff /\ asks = {}
  BY DEF Init, Items, Owners
<1>2. WorkOff.pc = "off" /\ WorkOff.next = "off" /\ ~Claimed(WorkOff) /\ ~WillAsk(WorkOff)
  BY DEF WorkOff, Claimed, WillAsk
<1>3. AttemptsFit /\ RetriesCount /\ FirstRuns
  BY <1>1, <1>2, OffMinds DEF AttemptsFit, AttemptFits, RetriesCount, FirstRuns, FirstRun
<1>4. InterruptSettles /\ Rejects
  BY <1>1, OffMinds DEF InterruptSettles, Rejects, Places
<1>5. OpenedWereStarted
  BY <1>1, <1>2, OffMinds DEF OpenedWereStarted, Opened, AskedAbout
<1> QED  BY <1>3, <1>4, <1>5 DEF Single

LEMMA SingleKept ==
  ASSUME OnlyInterrupted, Whole, Single, [Next]_vars
  PROVE  Single'
<1>1. ASSUME NEW p \in Passes, PassActs(p)
      PROVE  Single'
  BY <1>1, PassKeepsSingle
<1>2. ASSUME NEW o \in Owners, NEW s \in Steps, ItemActs(o, s)
      PROVE  Single'
  BY <1>2, ItemKeepsSingle
<1>3. ASSUME NEW s \in Steps, RetryReturns(s)
      PROVE  Single'
  <2>1. Retry \in Owners
    BY DEF Owners
  <2> QED  BY <1>3, <2>1, ItemKeepsSingle
<1>4. CASE Arrives
  BY <1>4, RequestKeepsSingle
<1>5. CASE HandlerActs
  BY <1>5, HandlerKeepsSingle
<1>6. ~Restarts
  BY NoRestarts DEF Whole, OnlyInterrupted
<1>7. CASE UNCHANGED vars
  BY <1>7 DEF vars, Single, AttemptsFit, AttemptFits, RetriesCount, FirstRuns, FirstRun,
              InterruptSettles, Rejects, OpenedWereStarted, Opened, AskedAbout, Grants,
              Places, Past
<1> QED  BY <1>1, <1>2, <1>3, <1>4, <1>5, <1>6, <1>7 DEF Next

(* Two runs of a step are runs of two attempts, so one is of the first.    *)
LEMMA SingleHasOneRunner ==
  ASSUME Typed, Single, RetriedOnce
  PROVE  OneRunnerPerStep
<1>1. ASSUME NEW s \in Steps, NEW o1 \in Executing(s), NEW o2 \in Executing(s), o1 # o2
      PROVE  FALSE
  <2>1. /\ o1 \in Owners /\ Claimed(work[<<o1, s>>])
        /\ <<s, work[<<o1, s>>].attempt>> \notin cancels
        /\ o2 \in Owners /\ Claimed(work[<<o2, s>>])
        /\ <<s, work[<<o2, s>>].attempt>> \notin cancels
    BY DEF Executing, Claimed
  <2>2. /\ attempt[s] \in Nat /\ attempt[s] <= 1
        /\ work[<<o1, s>>].attempt \in Nat /\ work[<<o2, s>>].attempt \in Nat
    <3>1. <<o1, s>> \in Items /\ <<o2, s>> \in Items
      BY <2>1 DEF Items
    <3>2. work[<<o1, s>>] \in WorkRec /\ work[<<o2, s>>] \in WorkRec /\ attempt[s] \in Nat
      BY <3>1 DEF Typed, TypeOK
    <3> QED  BY <3>2 DEF WorkRec, RetriedOnce
  <2>3. /\ work[<<o1, s>>].attempt <= attempt[s] /\ work[<<o2, s>>].attempt <= attempt[s]
        /\ work[<<o1, s>>].attempt # work[<<o2, s>>].attempt
    BY <1>1, <2>1 DEF Single, AttemptsFit, AttemptFits
  <2>4. attempt[s] = 1 /\ (work[<<o1, s>>].attempt = 0 \/ work[<<o2, s>>].attempt = 0)
    BY <2>2, <2>3
  <2>5. FirstRun(o1, s) \/ FirstRun(o2, s)
    BY <2>1, <2>4 DEF FirstRun
  <2>6. attempt[s] = 0
    BY <2>1, <2>5 DEF Single, FirstRuns
  <2> QED  BY <2>4, <2>6
<1> QED  BY <1>1 DEF OneRunnerPerStep

(* However the user stops, pauses, interrupts, retries, skips, refuses and *)
(* accepts, no two agents that have not been told to stop work on one      *)
(* step, until a step is retried a second time.  (The claim of a ready     *)
(* row, the new attempt that prepare_manual_retry takes, the order in      *)
(* which each handler cancels a run and writes its step.)                  *)
THEOREM OneRunnerUntilRetriedTwice ==
  ASSUME OnlyInterrupted
  PROVE  Spec => [](RetriedOnce => OneRunnerPerStep)
<1>1. Init => Whole /\ Single
  BY InitiallyWhole, InitiallySingle
<1>2. Whole /\ Single /\ [Next]_vars => Whole' /\ Single'
  BY WholeKept, SingleKept
<1>3. Whole /\ Single => (RetriedOnce => OneRunnerPerStep)
  BY SingleHasOneRunner DEF Whole
<1> QED  BY <1>1, <1>2, <1>3, PTL DEF Spec
==============================================================================
