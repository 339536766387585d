------------------------ MODULE WorkflowOrder_proofs ------------------------
(***************************************************************************)
(* Theorems about WorkflowScheduler, for every plan: in which order its    *)
(* steps start, and what execution and sessions say when nobody is at      *)
(* work.                                                                   *)
(***************************************************************************)
EXTENDS WorkflowScheduler_proofs

-----------------------------------------------------------------------------
(* Promotion and selection decide on the steps as they were read at the    *)
(* beginning of an iteration, claims and outcomes on what an item holds,   *)
(* answers on what a handler loaded.  What keeps these readings good is    *)
(* that every status a step leaves is left by one actor only: a pending    *)
(* step by the pass, a ready or a running one by its item, a parked one by *)
(* the answer to its only transcript, a failed one by a resume or a skip.  *)

(* The passes run one after another (execute_plan spawns one, and so does  *)
(* each handler that wakes the scheduler; here a pass that is asked for    *)
(* while another runs begins when that has ended), and no step is retried  *)
(* by hand.                                                                *)
OneDriver == (\A p, q \in Passes : p = q) /\ "retry" \notin Requests

RetryPcs == {"prepare", "activate", "reload"}

NoRetry ==
  /\ \A s \in Steps : work[<<Retry, s>>].pc = "off"
  /\ user.act # "retry"
  /\ user.pc \notin RetryPcs
  /\ user.next \notin RetryPcs

(* The statuses a step has without interrupts                              *)
Outcomes == {"Completed", "Failed"} \cup Parking
Plain    == {"Pending", "Ready", "Running", "Skipped"} \cup Outcomes

PlainSteps == \A s \in Steps : step[s] \in Plain

(* The transcript of step s is open; its answer is being carried out.      *)
Asked(s)   == \E k \in asks : k[1] = s
Answers(s) == user.pc \in {"ready", "record", "fail"} /\ s \in user.todo

(* The item has claimed its step and has yet to settle it,                 *)
Works(w) ==
  \/ w.pc \in {"run", "record", "write"}
  \/ w.pc \in {"sync", "syncing"} /\ w.next = "run"

(* or it has parked it and has yet to ask the user.                        *)
Parks(w) ==
  \/ w.pc \in {"parked", "ask"}
  \/ w.pc \in {"sync", "syncing"} /\ w.next \in {"parked", "ask"}

Fits(w, s) ==
  /\ Works(w) => step[s] = "Running" /\ w.exec = "Running"
  /\ w.pc \in {"record", "write"} => w.out \in Outcomes
  /\ Parks(w) => step[s] \in Parking /\ ~Asked(s) /\ ~Answers(s)

ItemsFit == \A o \in Owners, s \in Steps : Fits(work[<<o, s>>], s)

(* One transcript for a parked step, gone when it is answered              *)
AsksFit ==
  /\ \A k \in asks : step[k[1]] \in Parking /\ ~Answers(k[1])
  /\ \A k, l \in asks : k[1] = l[1] => k = l

(* A handler finds on its list what it put there.                          *)
UserFits ==
  /\ user.pc \in {"ready", "record", "fail"} =>
       user.todo # {} /\ \A s \in user.todo : step[s] \in Parking
  /\ user.act = "resume" => \A s \in user.todo : step[s] = "Failed"
  /\ user.pc = "revive" \/ user.next = "revive" => user.act = "resume"
  /\ user.pc = "skip" => user.act # "resume"
  /\ user.next \notin {"ready", "record", "fail", "skip"}

(* What the pass has read is not the present state of the steps, but it    *)
(* errs on the safe side: what it takes for pending is pending, and what   *)
(* it takes for done is done.                                              *)
PassFits(p) ==
  /\ pass[p].pc \notin {"sync", "syncing"} => pass[p].next = "off"
  /\ Reads(p) => \A s \in Steps :
       /\ pass[p].seen[s] = "Pending" => step[s] = "Pending"
       /\ pass[p].seen[s] \in CompletedLike => step[s] \in CompletedLike

PassesFit == \A p \in Passes : PassFits(p)

(* It never launches a running step: what it takes for ready is not        *)
(* running, until its batch has been launched.                             *)
Offers(p) ==
  /\ pass[p].next \notin {"launch", "reload"}
  /\ pass[p].pc = "join" => pass[p].seen = Blank
  /\ \A s \in Steps : pass[p].seen[s] = "Ready" => step[s] # "Running"
  /\ pass[p].pc \in {"launch", "reload"} =>
       \A s \in pass[p].batch : step[s] # "Running"

PassesOffer == \A p \in Passes : Offers(p)

(* The item of a running step is the one that attends to it.  (A crash     *)
(* that came while the execution did not say running leaves a running step *)
(* without any.)                                                           *)
OwnItems ==
  \A o \in Owners, s \in Steps :
    step[s] = "Running" /\ work[<<o, s>>].pc # "off" => Attends(o, s)

(* Only a step whose dependencies are done has left "Pending".             *)
Started ==
  \A s \in Steps : step[s] # "Pending" => \A d \in Deps[s] : step[d] \in CompletedLike

(* The inductive invariant                                                 *)
OrderInv ==
  /\ Sound
  /\ OwnItems
  /\ PassesOffer
  /\ NoRetry
  /\ PlainSteps
  /\ ItemsFit
  /\ AsksFit
  /\ UserFits
  /\ PassesFit
  /\ Started

-----------------------------------------------------------------------------
(* One item at a time minds a step.                                        *)
LEMMA OneItem ==
  ASSUME OneDriver, NoRetry, NEW o \in Owners, NEW r \in Owners, NEW s \in Steps,
         work[<<o, s>>].pc # "off", work[<<r, s>>].pc # "off"
  PROVE  o = r
BY DEF OneDriver, NoRetry, Owners

LEMMA ItemType ==
  ASSUME Typed, NEW o \in Owners, NEW s \in Steps
  PROVE  /\ work[<<o, s>>] \in WorkRec
         /\ \A r \in WorkRec : SetWork(o, s, r) => work'[<<o, s>>] = r
BY DEF Typed, TypeOK, Items, SetWork

(* What an item does to the row of its step                                *)
LEMMA ItemMoves ==
  ASSUME OneDriver, OrderInv, NEW o \in Owners, NEW s \in Steps, ItemActs(o, s)
  PROVE  \/ step'[s] = step[s]
         \/ step[s] = "Ready" /\ step'[s] = "Running"
         \/ step[s] = "Running" /\ step'[s] \in Outcomes
<1>1. /\ step \in Table /\ Fits(work[<<o, s>>], s)
  BY DEF OrderInv, Sound, Typed, TypeOK, ItemsFit
<1> USE DEF Table, SetStep, rows
<1>2. CASE Claims(o, s)
  BY <1>1, <1>2 DEF Claims
<1>3. CASE Settles(o, s)
  BY <1>1, <1>3 DEF Settles, Fits, Works
<1>4. CASE AgentEnds(o, s) \/ AgentFailsToStart(o, s) \/ Records(o, s)
  BY <1>4 DEF AgentEnds, AgentFailsToStart, Records
<1>5. CASE Acknowledges(o, s) \/ Errs(o, s) \/ Guards(o, s)
  BY <1>5 DEF Acknowledges, Errs, Guards
<1>6. CASE Asks(o, s) \/ WorkSyncs(o, s) \/ WorkSynced(o, s)
  BY <1>6 DEF Asks, WorkSyncs, WorkSynced
<1> QED  BY <1>2, <1>3, <1>4, <1>5, <1>6 DEF ItemActs

(* and to the transcripts.                                                 *)
LEMMA ItemAsks ==
  ASSUME NEW o \in Owners, NEW s \in Steps, ItemActs(o, s)
  PROVE  \/ UNCHANGED asks
         \/ /\ work[<<o, s>>].pc = "ask"
            /\ UNCHANGED step
            /\ \E out : asks' = asks \cup {<<s, out>>}
<1> USE DEF rows
<1>1. CASE Claims(o, s) \/ Settles(o, s) \/ WorkSynced(o, s)
  BY <1>1 DEF Claims, Settles, WorkSynced
<1>2. CASE AgentEnds(o, s) \/ AgentFailsToStart(o, s) \/ Records(o, s)
  BY <1>2 DEF AgentEnds, AgentFailsToStart, Records
<1>3. CASE Acknowledges(o, s) \/ Errs(o, s) \/ Guards(o, s)
  BY <1>3 DEF Acknowledges, Errs, Guards
<1>4. CASE Asks(o, s) \/ WorkSyncs(o, s)
  BY <1>4 DEF Asks, WorkSyncs
<1> QED  BY <1>1, <1>2, <1>3, <1>4 DEF ItemActs

(* How the item that acts keeps fitting its step                           *)
ItemGoesOn(o, s) ==
  /\ Works(work'[<<o, s>>]) => step'[s] = "Running" /\ work'[<<o, s>>].exec = "Running"
  /\ work'[<<o, s>>].pc \in {"record", "write"} => work'[<<o, s>>].out \in Outcomes
  /\ Parks(work'[<<o, s>>]) =>
       /\ step'[s] \in Parking
       /\ UNCHANGED asks
       /\ Parks(work[<<o, s>>]) \/ step[s] = "Running"

LEMMA ItemFits ==
  ASSUME OneDriver, OrderInv, NEW o \in Owners, NEW s \in Steps, ItemActs(o, s)
  PROVE  ItemGoesOn(o, s)
<1>1. /\ work[<<o, s>>] \in WorkRec /\ Fits(work[<<o, s>>], s)
      /\ \A r \in WorkRec : SetWork(o, s, r) => work'[<<o, s>>] = r
      /\ work \in [Items -> WorkRec] /\ <<o, s>> \in Items
      /\ step \in Table /\ PlainSteps /\ cancels = {}
      /\ ParkedItem(work[<<o, s>>]) /\ SoundItem(work[<<o, s>>]) /\ OwnItems
  BY ItemType DEF OrderInv, Sound, Typed, TypeOK, ItemsFit, Calm, Parked, SoundItems, Items
<1> USE DEF ItemGoesOn, Works, Parks, WorkRec, SetWork
<1>2. CASE Claims(o, s)
  <2>1. /\ work[<<o, s>>].exec \in ExecStatus
        /\ StepMayMove(work[<<o, s>>].exec, "Ready", "Running")
    BY <1>1, <1>2 DEF Claims
  <2>2. work[<<o, s>>].exec = "Running"
    BY <2>1, RunsUnder
  <2>3. CASE step[s] = "Ready"
    <3>1. work'[<<o, s>>] = [work[<<o, s>>] EXCEPT !.pc = "sync", !.next = "run",
                                !.seen = "Running", !.attempt = attempt[s]]
      BY <1>1, <1>2, <2>3 DEF Claims
    <3>2. step'[s] = "Running"
      BY <1>1, <1>2, <2>3 DEF Claims, SetStep, Table
    <3> QED  BY <1>1, <2>2, <3>1, <3>2
  <2>4. CASE step[s] # "Ready"
    <3>1. work'[<<o, s>>] = [work[<<o, s>>] EXCEPT !.pc = "done", !.out = "Completed"]
      BY <1>1, <1>2, <2>4 DEF Claims
    <3> QED  BY <1>1, <3>1
  <2> QED  BY <2>3, <2>4
<1>3. CASE AgentEnds(o, s)
  <2>1. work[<<o, s>>].pc = "run" /\ UNCHANGED <<step, asks>>
    BY <1>3 DEF AgentEnds, rows
  <2>2. PICK pc \in {"record", "write"}, out \in Outcomes :
          work' = [work EXCEPT ![<<o, s>>] =
                    [work[<<o, s>>] EXCEPT !.pc = pc, !.out = out]]
    BY <1>1, <1>3 DEF AgentEnds, Outcomes, Parking
  <2>3. work'[<<o, s>>] = [work[<<o, s>>] EXCEPT !.pc = pc, !.out = out]
    BY <1>1, <2>2
  <2> QED  BY <1>1, <2>1, <2>2, <2>3 DEF Fits
<1>4. CASE AgentFailsToStart(o, s)
  BY <1>1, <1>4 DEF AgentFailsToStart, Fits, Outcomes, rows
<1>5. CASE Records(o, s)
  BY <1>1, <1>5 DEF Records, Fits, rows
<1>6. CASE Settles(o, s)
  <2>1. step'[s] = work[<<o, s>>].out /\ step[s] = "Running" /\ UNCHANGED asks
    BY <1>1, <1>6 DEF Settles, SetStep, Table, Fits
  <2>2. work'[<<o, s>>] = [work[<<o, s>>] EXCEPT !.pc = "sync",
                    !.next = IF work[<<o, s>>].out \in Parking THEN "parked" ELSE "done"]
    BY <1>1, <1>6 DEF Settles
  <2> QED  BY <1>1, <2>1, <2>2
<1>7. CASE Acknowledges(o, s)
  BY <1>1, <1>7 DEF Acknowledges, SoundItem
<1>8. CASE Errs(o, s)
  BY <1>1, <1>8 DEF Errs
<1>9. CASE Guards(o, s)
  <2>1. step[s] = "Running" => work[<<o, s>>].exec = "Running"
    BY <1>1, <1>9 DEF Guards, OwnItems, Attends
  <2>2. step[s] \notin {"InterruptRequested", "Interrupted", "Revising"}
    BY <1>1 DEF PlainSteps, Plain, Outcomes, Parking
  <2>3. CASE step[s] = "Running"
    <3>1. work'[<<o, s>>] = [work[<<o, s>>] EXCEPT !.pc = "write", !.seen = step[s],
                                                 !.out = "Failed"]
      BY <1>1, <1>9, <2>3 DEF Guards
    <3>2. UNCHANGED step /\ work[<<o, s>>].pc = "guard"
      BY <1>9 DEF Guards, rows
    <3> QED  BY <1>1, <2>1, <2>3, <3>1, <3>2 DEF Outcomes
  <2>4. CASE step[s] # "Running"
    <3>1. work'[<<o, s>>] = [work[<<o, s>>] EXCEPT !.pc = "done", !.out = "Error"]
      BY <1>1, <1>9, <2>2, <2>4 DEF Guards
    <3> QED  BY <1>1, <3>1
  <2> QED  BY <2>3, <2>4
<1>10. CASE Asks(o, s)
  BY <1>1, <1>10 DEF Asks
<1>11. CASE WorkSyncs(o, s)
  BY <1>1, <1>11 DEF WorkSyncs, SyncRead, Fits, ParkedItem, rows
<1>12. CASE WorkSynced(o, s)
  BY <1>1, <1>12 DEF WorkSynced, Synced, WorkOff, Fits, SoundItem
<1> QED  BY <1>2, <1>3, <1>4, <1>5, <1>6, <1>7, <1>8, <1>9, <1>10, <1>11, <1>12 DEF ItemActs

LEMMA ItemKeepsOrder ==
  ASSUME OneDriver, OrderInv, NEW o \in Owners, NEW s \in Steps, ItemActs(o, s)
  PROVE  OrderInv'
<1>1. /\ Sound /\ OwnItems /\ PassesOffer /\ NoRetry /\ PlainSteps /\ ItemsFit /\ AsksFit /\ UserFits
      /\ PassesFit /\ Started
      /\ Deps \in [Steps -> SUBSET Steps] /\ user.todo \subseteq Steps
      /\ asks \subseteq Steps \X Parking
  BY StepsAssumption DEF OrderInv, Sound, Typed, TypeOK, UserRec
<1>2. Sound'
  BY <1>1, ItemKeepsSound
<1>3. /\ UNCHANGED <<user, pass>>
      /\ \A r \in Owners, t \in Steps :
           <<r, t>> # <<o, s>> => work'[<<r, t>>] = work[<<r, t>>]
  BY ItemFrame DEF Items
<1>4. \A t \in Steps : t # s => step'[t] = step[t]
  BY <1>1, ItemsRunTheirOwn DEF Sound
<1>5. \/ step'[s] = step[s]
      \/ step[s] = "Ready" /\ step'[s] = "Running"
      \/ step[s] = "Running" /\ step'[s] \in Outcomes
  BY ItemMoves
<1>6. work[<<o, s>>].pc # "off"
  BY ItemsAreOn
<1>7. \A t \in Steps : \/ step'[t] = step[t]
                       \/ step[t] \in {"Ready", "Running"} /\ step'[t] \in {"Running"} \cup Outcomes
  BY <1>4, <1>5
<1>8. NoRetry'
  <2>1. o # Retry
    BY <1>1, <1>6 DEF NoRetry
  <2>2. \A t \in Steps : work'[<<Retry, t>>] = work[<<Retry, t>>]
    BY <1>3, <2>1 DEF Owners
  <2> QED  BY <1>1, <1>3, <2>2 DEF NoRetry
<1>9. PlainSteps'
  BY <1>1, <1>7 DEF PlainSteps, Plain
<1>10. UserFits'
  <2>1. \A t \in user.todo : step[t] \in Parking \cup {"Failed"} => step'[t] = step[t]
    BY <1>1, <1>7 DEF Parking
  <2> QED  BY <1>1, <1>3, <2>1 DEF UserFits
<1>11. PassesFit'
  <2>1. \A t \in Steps : step[t] \in CompletedLike \cup {"Pending"} => step'[t] = step[t]
    BY <1>7 DEF CompletedLike
  <2> QED  BY <1>1, <1>3, <2>1 DEF PassesFit, PassFits, Reads
<1>12. Started'
  <2>1. \A t \in Steps : /\ step'[t] # "Pending" => step[t] # "Pending"
                         /\ step[t] \in CompletedLike => step'[t] \in CompletedLike
    BY <1>7 DEF CompletedLike
  <2> QED  BY <1>1, <2>1 DEF Started
<1>13. AsksFit'
  <2>1. CASE UNCHANGED asks
    <3>1. \A t \in Steps : step[t] \in Parking => step'[t] = step[t]
      BY <1>7 DEF Parking
    <3> QED  BY <1>1, <1>3, <2>1, <3>1 DEF AsksFit, Answers
  <2>2. CASE ~UNCHANGED asks
    <3>1. PICK out : asks' = asks \cup {<<s, out>>}
      BY <2>2, ItemAsks
    <3>2. work[<<o, s>>].pc = "ask" /\ UNCHANGED step
      BY <2>2, ItemAsks
    <3>3. step[s] \in Parking /\ ~Asked(s) /\ ~Answers(s)
      BY <1>1, <3>2 DEF ItemsFit, Fits, Parks
    <3>4. \A k \in asks : k[1] # s
      BY <3>3 DEF Asked
    <3>5. <<s, out>>[1] = s
      OBVIOUS
    <3> QED  BY <1>1, <1>3, <3>1, <3>2, <3>3, <3>4, <3>5 DEF AsksFit, Answers
  <2> QED  BY <2>1, <2>2
<1>14. ItemsFit'
  <2>1. ASSUME NEW r \in Owners, NEW t \in Steps
        PROVE  Fits(work[<<r, t>>], t)'
    <3>1. CASE t # s
      <4>1. work'[<<r, t>>] = work[<<r, t>>] /\ step'[t] = step[t]
        BY <1>3, <1>4, <3>1
      <4>2. Asked(t)' => Asked(t)
        <5>1. \A out : <<s, out>>[1] # t
          BY <3>1
        <5>2. asks' = asks \/ \E out : asks' = asks \cup {<<s, out>>}
          BY ItemAsks
        <5> QED  BY <5>1, <5>2 DEF Asked
      <4>3. Answers(t)' => Answers(t)
        BY <1>3 DEF Answers
      <4>4. Fits(work[<<r, t>>], t)
        BY <1>1 DEF ItemsFit
      <4> QED  BY <4>1, <4>2, <4>3, <4>4 DEF Fits
    <3>2. CASE t = s /\ r # o
      <4>1. work[<<r, t>>].pc = "off"
        BY <1>1, <1>6, <3>2, OneItem
      <4>2. work'[<<r, t>>].pc = "off"
        BY <1>3, <3>2, <4>1
      <4> QED  BY <4>2 DEF Fits, Works, Parks
    <3>3. CASE t = s /\ r = o
      <4>1. ItemGoesOn(o, s)
        BY ItemFits
      <4>2. Fits(work[<<o, s>>], s)
        BY <1>1 DEF ItemsFit
      <4>3. ASSUME Parks(work'[<<o, s>>])
            PROVE  ~Asked(s)' /\ ~Answers(s)'
        <5>1. UNCHANGED asks /\ (Parks(work[<<o, s>>]) \/ step[s] = "Running")
          BY <4>1, <4>3 DEF ItemGoesOn
        <5>2. ~Asked(s) /\ ~Answers(s)
          <6>1. CASE Parks(work[<<o, s>>])
            BY <4>2, <6>1 DEF Fits
          <6>2. CASE step[s] = "Running"
            <7>1. step[s] \notin Parking
              BY <6>2 DEF Parking
            <7>2. ~Asked(s)
              BY <1>1, <7>1 DEF Asked, AsksFit
            <7>3. ~Answers(s)
              BY <1>1, <7>1 DEF Answers, UserFits
            <7> QED  BY <7>2, <7>3
          <6> QED  BY <5>1, <6>1, <6>2
        <5> QED  BY <1>3, <5>1, <5>2 DEF Asked, Answers
      <4> QED  BY <3>3, <4>1, <4>3 DEF Fits, ItemGoesOn
    <3> QED  BY <3>1, <3>2, <3>3
  <2> QED  BY <2>1 DEF ItemsFit
<1>15. OwnItems'
  <2>1. ASSUME NEW r \in Owners, NEW t \in Steps, step'[t] = "Running",
               work'[<<r, t>>].pc # "off"
        PROVE  Attends(r, t)'
    <3>1. CASE t # s
      <4>1. work'[<<r, t>>] = work[<<r, t>>] /\ step'[t] = step[t]
        BY <1>3, <1>4, <3>1
      <4> QED  BY <1>1, <2>1, <4>1 DEF OwnItems, Attends, Minds
    <3>2. CASE t = s /\ r # o
      <4>1. work[<<r, t>>].pc = "off"
        BY <1>1, <1>6, <3>2, OneItem
      <4> QED  BY <1>3, <2>1, <3>2, <4>1
    <3>3. CASE t = s /\ r = o
      <4>1. step[s] = "Running" => Attended(s)
        BY <1>1, <1>6 DEF OwnItems, Attended
      <4>2. Attended(s)'
        BY <1>1, <2>1, <3>3, <4>1, ItemKeepsAttending DEF Sound
      <4>3. PICK q \in Owners : Attends(q, s)'
        BY <4>2 DEF Attended
      <4>4. q = o
        <5>1. work'[<<q, s>>].pc # "off"
          BY <4>3 DEF Attends, Minds
        <5>2. CASE q # o
          <6>1. work[<<q, s>>].pc = "off"
            BY <1>1, <1>6, <5>2, OneItem
          <6> QED  BY <1>3, <5>1, <5>2, <6>1
        <5> QED  BY <5>2
      <4> QED  BY <3>3, <4>3, <4>4
    <3> QED  BY <3>1, <3>2, <3>3
  <2> QED  BY <2>1 DEF OwnItems
<1>16. PassesOffer'
  <2>1. ASSUME NEW q \in Passes
        PROVE  Offers(q)'
    <3>1. q = o
      BY <1>1, <1>6 DEF OneDriver, NoRetry, Owners
    <3>2. /\ pass[q].pc = "join" /\ pass[q].seen = Blank
          /\ pass[q].next \notin {"launch", "reload"}
      BY <1>1, <1>6, <3>1 DEF Sound, SoundPasses, SoundPass, PassesOffer, Offers
    <3> QED  BY <1>3, <3>2 DEF Offers, Blank
  <2> QED  BY <2>1 DEF PassesOffer
<1> QED  BY <1>2, <1>8, <1>9, <1>10, <1>11, <1>12, <1>13, <1>14, <1>15, <1>16 DEF OrderInv

-----------------------------------------------------------------------------
(* The only row a pass writes is that of a pending step with everything it *)
(* depends on done.                                                        *)
LEMMA PromotesTheReady ==
  ASSUME OrderInv, NEW p \in Passes, PassPromotes(p)
  PROVE  \E s \in Steps :
           /\ step[s] = "Pending"
           /\ \A d \in Deps[s] : step[d] \in CompletedLike
           /\ step' = [step EXCEPT ![s] = "Ready"]
           /\ pass' = [pass EXCEPT ![p] = [pass[p] EXCEPT !.seen[s] = "Ready"]]
<1> DEFINE s == First(Promotable(p))
<1>1. /\ Promotable(p) # {} /\ pass[p].pc = "promote"
      /\ step' = [step EXCEPT ![s] = "Ready"]
      /\ pass' = [pass EXCEPT ![p] = [pass[p] EXCEPT !.seen[s] = "Ready"]]
  BY DEF PassPromotes, SetStep, SetPass
<1>2. Promotable(p) \in SUBSET Steps
  BY DEF Promotable
<1>3. s \in Promotable(p)
  BY <1>1, <1>2, FirstIsOne
<1>4. s \in Steps /\ pass[p].seen[s] = "Pending" /\ DepsDone(s, pass[p].seen)
  BY <1>3 DEF Promotable
<1>5. PassFits(p) /\ Reads(p)
  BY <1>1 DEF OrderInv, PassesFit, Reads
<1>6. Deps[s] \subseteq Steps
  BY <1>4, StepsAssumption
<1> HIDE DEF s
<1>7. step[s] = "Pending" /\ \A d \in Deps[s] : step[d] \in CompletedLike
  BY <1>4, <1>5, <1>6 DEF PassFits, DepsDone
<1> QED  BY <1>1, <1>4, <1>7

LEMMA PassMoves ==
  ASSUME OrderInv, NEW p \in Passes, PassActs(p), NEW t \in Steps
  PROVE  \/ step'[t] = step[t]
         \/ /\ step[t] = "Pending" /\ step'[t] = "Ready"
            /\ \A d \in Deps[t] : step[d] \in CompletedLike
<1>1. CASE PassPromotes(p)
  <2>1. step \in Table
    BY DEF OrderInv, Sound, Typed, TypeOK
  <2> QED  BY <1>1, <2>1, PromotesTheReady DEF Table
<1>2. CASE ~PassPromotes(p)
  BY <1>2 DEF PassActs, PassBegins, PassReads, PassSelects, PassLaunches, PassJoins,
              PassJudges, PassSyncs, PassSynced, PassEnds, rows
<1> QED  BY <1>1, <1>2

LEMMA PassAsks ==
  ASSUME NEW p \in Passes, PassActs(p)
  PROVE  UNCHANGED asks
BY DEF PassActs, PassBegins, PassReads, PassPromotes, PassSelects, PassLaunches,
       PassJoins, PassJudges, PassSyncs, PassSynced, PassEnds, rows

LEMMA PassKeepsFitting ==
  ASSUME OrderInv, NEW p \in Passes, PassActs(p)
  PROVE  PassFits(p)'
<1>1. /\ PassFits(p) /\ pass[p] \in PassRec /\ pass \in [Passes -> PassRec]
      /\ step \in Table
  BY DEF OrderInv, Sound, Typed, TypeOK, PassesFit
<1>2. CASE PassPromotes(p)
  <2>1. PICK s \in Steps :
          /\ step[s] = "Pending"
          /\ step' = [step EXCEPT ![s] = "Ready"]
          /\ pass' = [pass EXCEPT ![p] = [pass[p] EXCEPT !.seen[s] = "Ready"]]
    BY <1>2, PromotesTheReady
  <2>2. pass'[p] = [pass[p] EXCEPT !.seen[s] = "Ready"]
    BY <1>1, <2>1
  <2>3. pass[p].seen \in Table
    BY <1>1 DEF PassRec
  <2>4. /\ pass'[p].pc = pass[p].pc /\ pass'[p].next = pass[p].next
        /\ pass'[p].seen = [pass[p].seen EXCEPT ![s] = "Ready"]
    BY <1>1, <2>2 DEF PassRec
  <2>5. \A t \in Steps : /\ t # s => step'[t] = step[t] /\ pass'[p].seen[t] = pass[p].seen[t]
                         /\ t = s => pass'[p].seen[t] = "Ready"
    BY <1>1, <2>1, <2>3, <2>4 DEF Table
  <2> QED  BY <1>1, <2>4, <2>5 DEF PassFits, Reads, CompletedLike
<1>3. CASE ~PassPromotes(p)
  <2>1. UNCHANGED step
    BY <1>3 DEF PassActs, PassBegins, PassReads, PassSelects, PassLaunches, PassJoins,
                PassJudges, PassSyncs, PassSynced, PassEnds, rows
  <2> USE <1>1, <2>1 DEF PassFits, Reads, PassRec, SetPass, PassOff
  <2>2. CASE PassBegins(p)
    BY <2>2 DEF PassBegins
  <2>3. CASE PassReads(p)
    BY <2>3 DEF PassReads
  <2>4. CASE PassSelects(p)
    BY <2>4 DEF PassSelects
  <2>5. CASE PassLaunches(p)
    BY <2>5 DEF PassLaunches
  <2>6. CASE PassJoins(p)
    BY <2>6 DEF PassJoins
  <2>7. CASE PassJudges(p)
    BY <2>7 DEF PassJudges
  <2>8. CASE PassSyncs(p)
    BY <2>8 DEF PassSyncs, SyncRead
  <2>9. CASE PassSynced(p)
    BY <2>9 DEF PassSynced, Synced
  <2>10. CASE PassEnds(p)
    BY <2>10 DEF PassEnds
  <2> QED  BY <1>3, <2>2, <2>3, <2>4, <2>5, <2>6, <2>7, <2>8, <2>9, <2>10 DEF PassActs
<1> QED  BY <1>2, <1>3

LEMMA PassKeepsOffering ==
  ASSUME OrderInv, NEW p \in Passes, PassActs(p)
  PROVE  Offers(p)'
<1>1. /\ Offers(p) /\ pass[p] \in PassRec /\ pass \in [Passes -> PassRec]
      /\ pass[p].next # "join" /\ step \in Table
  BY DEF OrderInv, Sound, Typed, TypeOK, PassesOffer, SoundPasses, SoundPass
<1>2. CASE PassPromotes(p)
  <2>1. PICK s \in Steps :
          /\ step' = [step EXCEPT ![s] = "Ready"]
          /\ pass' = [pass EXCEPT ![p] = [pass[p] EXCEPT !.seen[s] = "Ready"]]
    BY <1>2, PromotesTheReady
  <2>2. pass'[p] = [pass[p] EXCEPT !.seen[s] = "Ready"] /\ pass[p].pc = "promote"
    BY <1>1, <1>2, <2>1 DEF PassPromotes
  <2>3. pass[p].seen \in Table
    BY <1>1 DEF PassRec
  <2>4. /\ pass'[p].pc = "promote" /\ pass'[p].next = pass[p].next
        /\ pass'[p].seen = [pass[p].seen EXCEPT ![s] = "Ready"]
    BY <1>1, <2>2 DEF PassRec
  <2>5. \A t \in Steps : /\ t # s => step'[t] = step[t] /\ pass'[p].seen[t] = pass[p].seen[t]
                         /\ t = s => step'[t] = "Ready"
    BY <1>1, <2>1, <2>3, <2>4 DEF Table
  <2> QED  BY <1>1, <2>4, <2>5 DEF Offers
<1>3. CASE PassSelects(p)
  <2>1. /\ UNCHANGED step /\ pass'[p].pc \in {"launch", "reload"}
        /\ pass'[p].batch = Candidates(p) /\ pass'[p].seen = pass[p].seen
        /\ pass'[p].next = pass[p].next
    BY <1>1, <1>3 DEF PassSelects, SetPass, PassRec
  <2>2. \A s \in Candidates(p) : s \in Steps /\ pass[p].seen[s] = "Ready"
    BY CandidatesAreReady
  <2> QED  BY <1>1, <2>1, <2>2 DEF Offers
<1>4. CASE ~PassPromotes(p) /\ ~PassSelects(p)
  <2>1. UNCHANGED step
    BY <1>4 DEF PassActs, PassBegins, PassReads, PassSelects, PassLaunches, PassJoins,
                PassJudges, PassSyncs, PassSynced, PassEnds, rows
  <2> USE <1>1, <2>1 DEF Offers, PassRec, SetPass, PassOff, Blank
  <2>2. CASE PassBegins(p)
    BY <2>2 DEF PassBegins
  <2>3. CASE PassReads(p)
    BY <2>3 DEF PassReads
  <2>5. CASE PassLaunches(p)
    BY <2>5 DEF PassLaunches
  <2>6. CASE PassJoins(p)
    BY <2>6 DEF PassJoins
  <2>7. CASE PassJudges(p)
    BY <2>7 DEF PassJudges
  <2>8. CASE PassSyncs(p)
    BY <2>8 DEF PassSyncs, SyncRead
  <2>9. CASE PassSynced(p)
    BY <2>9 DEF PassSynced, Synced
  <2>10. CASE PassEnds(p)
    BY <2>10 DEF PassEnds
  <2> QED  BY <1>4, <2>2, <2>3, <2>5, <2>6, <2>7, <2>8, <2>9, <2>10 DEF PassActs
<1> QED  BY <1>2, <1>3, <1>4

LEMMA PassKeepsOrder ==
  ASSUME OneDriver, OrderInv, NEW p \in Passes, PassActs(p)
  PROVE  OrderInv'
<1>1. /\ Sound /\ OwnItems /\ PassesOffer /\ NoRetry /\ PlainSteps /\ ItemsFit /\ AsksFit /\ UserFits
      /\ PassesFit /\ Started
      /\ Deps \in [Steps -> SUBSET Steps] /\ user.todo \subseteq Steps
      /\ asks \subseteq Steps \X Parking
  BY StepsAssumption DEF OrderInv, Sound, Typed, TypeOK, UserRec
<1>2. Sound'
  BY <1>1, PassKeepsSound
<1>3. UNCHANGED <<user, asks>>
  BY PassFrame, PassAsks
<1>4. \A t \in Steps :
        \/ step'[t] = step[t]
        \/ /\ step[t] = "Pending" /\ step'[t] = "Ready"
           /\ \A d \in Deps[t] : step[d] \in CompletedLike
  BY PassMoves
<1>5. ASSUME NEW o \in Owners, NEW s \in Steps
      PROVE  \/ work'[<<o, s>>] = work[<<o, s>>]
             \/ o = p /\ work'[<<o, s>>] = WorkOff
             \/ o = p /\ \E e : work'[<<o, s>>] = Launched(e)
  <2>1. CASE PassLaunches(p) \/ PassJoins(p)
    BY <1>1, <2>1, PassBatch DEF Sound
  <2>2. CASE UNCHANGED work
    BY <2>2
  <2> QED  BY <2>1, <2>2, PassFrame
<1>6. NoRetry'
  <2>1. Retry \in Owners /\ Retry # p
    BY RetryAssumption DEF Owners
  <2>2. \A s \in Steps : work'[<<Retry, s>>] = work[<<Retry, s>>]
    BY <1>5, <2>1
  <2> QED  BY <1>1, <1>3, <2>2 DEF NoRetry
<1>7. PlainSteps'
  BY <1>1, <1>4 DEF PlainSteps, Plain
<1>8. \A t \in Steps : step[t] \in {"Running", "Failed"} \cup Parking => step'[t] = step[t]
  BY <1>4 DEF Parking
<1>9. UserFits'
  BY <1>1, <1>3, <1>8 DEF UserFits
<1>10. AsksFit'
  BY <1>1, <1>3, <1>8 DEF AsksFit, Answers
<1>11. PassesFit'
  <2>1. ASSUME NEW q \in Passes
        PROVE  PassFits(q)'
    <3>1. q = p
      BY DEF OneDriver
    <3> QED  BY <3>1, PassKeepsFitting
  <2> QED  BY <2>1 DEF PassesFit
<1>12. Started'
  <2>1. \A t \in Steps : step[t] \in CompletedLike => step'[t] \in CompletedLike
    BY <1>4 DEF CompletedLike
  <2> QED  BY <1>1, <1>4, <2>1 DEF Started
<1>13. ItemsFit'
  <2>1. ASSUME NEW o \in Owners, NEW s \in Steps
        PROVE  Fits(work[<<o, s>>], s)'
    <3>1. CASE work'[<<o, s>>] = work[<<o, s>>]
      <4>1. Fits(work[<<o, s>>], s)
        BY <1>1 DEF ItemsFit
      <4>2. (Asked(s)' <=> Asked(s)) /\ (Answers(s)' <=> Answers(s))
        BY <1>3 DEF Asked, Answers
      <4> QED  BY <1>8, <3>1, <4>1, <4>2 DEF Fits
    <3>2. CASE work'[<<o, s>>].pc \in {"off", "claim"}
      BY <3>2 DEF Fits, Works, Parks
    <3> QED  BY <1>5, <3>1, <3>2, OffIsSound
  <2> QED  BY <2>1 DEF ItemsFit
<1>14. PassesOffer'
  <2>1. ASSUME NEW q \in Passes
        PROVE  Offers(q)'
    <3>1. q = p
      BY DEF OneDriver
    <3> QED  BY <3>1, PassKeepsOffering
  <2> QED  BY <2>1 DEF PassesOffer
<1>15. OwnItems'
  <2>1. ASSUME NEW o \in Owners, NEW s \in Steps, step'[s] = "Running",
               work'[<<o, s>>].pc # "off"
        PROVE  Attends(o, s)'
    <3>1. step[s] = "Running"
      BY <1>4, <2>1
    <3>2. CASE work'[<<o, s>>] = work[<<o, s>>]
      BY <1>1, <2>1, <3>1, <3>2 DEF OwnItems, Attends, Minds
    <3>3. CASE work'[<<o, s>>] # work[<<o, s>>]
      <4>1. PassLaunches(p) /\ o = p
        <5>1. o = p /\ \E e : work'[<<o, s>>] = Launched(e)
          BY <1>5, <2>1, <3>3, OffIsSound
        <5>2. ~PassJoins(p)
          <6>1. <<o, s>> \in Items /\ <<o, s>>[1] = o
            BY DEF Items
          <6>2. PassJoins(p) => work'[<<o, s>>] = WorkOff
            BY <5>1, <6>1 DEF PassJoins
          <6> QED  BY <2>1, <6>2, OffIsSound
        <5> QED  BY <3>3, <5>1, <5>2, PassFrame
      <4>2. s \in pass[p].batch /\ pass[p].pc \in {"launch", "reload"}
        <5>1. <<o, s>> \in Items /\ <<o, s>>[1] = o /\ <<o, s>>[2] = s
          BY DEF Items
        <5> QED  BY <3>3, <4>1, <5>1 DEF PassLaunches
      <4> QED  BY <1>1, <3>1, <4>2 DEF PassesOffer, Offers
    <3> QED  BY <3>2, <3>3
  <2> QED  BY <2>1 DEF OwnItems
<1> QED  BY <1>2, <1>6, <1>7, <1>9, <1>10, <1>11, <1>12, <1>13, <1>14, <1>15 DEF OrderInv

-----------------------------------------------------------------------------
(* What a handler does to the row of a step                                *)
LEMMA HandlerMoves ==
  ASSUME OrderInv, HandlerActs, NEW t \in Steps
  PROVE  \/ step'[t] = step[t]
         \/ Answers(t) /\ step[t] \in Parking /\ step'[t] \in {"Ready", "Failed"}
         \/ /\ step[t] = "Failed" /\ step'[t] = "Ready" /\ user.pc = "revive"
            /\ t = First(user.todo)
         \/ step[t] = "Failed" /\ step'[t] = "Skipped" /\ user.pc = "skip"
<1>1. /\ step \in Table /\ user.todo \in SUBSET Steps /\ UserFits
      /\ user.pc \notin InterruptPcs /\ step[t] \in Plain
  BY DEF OrderInv, Sound, Typed, TypeOK, UserRec, Calm, PlainSteps
<1>2. user.todo # {} => First(user.todo) \in user.todo
  BY <1>1, FirstIsOne
<1> USE DEF Table, SetStep, rows
<1>3. CASE UserReadies
  <2>1. user.pc = "ready" /\ user.todo # {}
    BY <1>1, <1>3 DEF UserReadies, UserFits
  <2> QED  BY <1>1, <1>2, <1>3, <2>1 DEF UserReadies, UserFits, Answers
<1>4. CASE AnswerFails
  <2>1. user.pc = "fail" /\ user.todo # {}
    BY <1>1, <1>4 DEF AnswerFails, UserFits
  <2> QED  BY <1>1, <1>2, <1>4, <2>1 DEF AnswerFails, UserFits, Answers
<1>5. CASE ResumeRevives
  BY <1>1, <1>2, <1>5 DEF ResumeRevives, UserFits
<1>6. CASE Skips
  <2>1. /\ user.pc = "skip" /\ "Skipped" \in StepMoves[user.seen[First(user.todo)]]
    BY <1>6 DEF Skips, StepMayMove
  <2>2. CASE step'[t] # step[t]
    <3>1. /\ t = First(user.todo) /\ step[t] = user.seen[t]
          /\ step' = [step EXCEPT ![t] = "Skipped"]
      BY <1>1, <1>6, <2>2 DEF Skips
    <3>2. step[t] = "Failed"
      BY <1>1, <2>1, <3>1 DEF StepMoves, Plain, Outcomes, Parking
    <3> QED  BY <1>1, <2>1, <3>1, <3>2
  <2> QED  BY <2>2
<1>7. CASE UserSweeps \/ UserRequests \/ UserSettles \/ StopEnds \/ PauseEnds
  BY <1>1, <1>7 DEF UserSweeps, UserRequests, UserSettles, StopEnds, PauseEnds, InterruptPcs
<1>8. CASE InterruptCancels \/ RetryPrepares \/ RetryActivates \/ RetrySpawns
  BY <1>8 DEF InterruptCancels, RetryPrepares, RetryActivates, RetrySpawns
<1>9. CASE CompleteHolds \/ CompleteForces \/ CompleteCloses \/ CompleteEnds
  BY <1>1, <1>9 DEF CompleteHolds, CompleteForces, CompleteCloses, CompleteEnds, InterruptPcs
<1>10. CASE AnswerRecords \/ AcceptEnds \/ UserSyncs \/ UserSynced \/ UserWakes \/ UserErrs
  BY <1>10 DEF AnswerRecords, AcceptEnds, UserSyncs, UserSynced, UserWakes, UserErrs
<1> QED  BY <1>3, <1>4, <1>5, <1>6, <1>7, <1>8, <1>9, <1>10 DEF HandlerActs

(* A handler opens no transcript, and only one that goes on answering is   *)
(* answering; no retry begins.                                             *)
LEMMA HandlerGoesOn ==
  ASSUME OrderInv, HandlerActs
  PROVE  /\ UNCHANGED <<asks, work>>
         /\ user'.act # "retry" /\ {user'.pc, user'.next} \cap RetryPcs = {}
         /\ user'.next \notin {"ready", "record", "fail", "skip"} /\ user'.pc # "skip"
         /\ user'.pc \in {"ready", "record", "fail"} =>
              /\ user.pc \in {"ready", "record", "fail"}
              /\ user'.todo = user.todo /\ user'.act = user.act /\ UNCHANGED step
         /\ user'.pc = "revive" \/ user'.next = "revive" => user'.act = "resume"
         /\ user'.act = "resume" =>
              /\ user.act = "resume" /\ user.pc # "skip"
              /\ user'.todo \subseteq user.todo
              /\ user.pc = "revive" => \/ UNCHANGED step
                                       \/ First(user.todo) \notin user'.todo
<1>1. /\ user \in UserRec /\ UserFits /\ Aimed /\ NoRetry
      /\ user.pc \notin InterruptPcs /\ user.next \notin InterruptPcs
  BY DEF OrderInv, Sound, Typed, TypeOK, Calm
<1> USE <1>1 DEF UserFits, Aimed, NoRetry, RetryPcs, InterruptPcs, UserRec, UserOff,
                 UserLess, rows
<1>2. CASE UserReadies
  BY <1>2 DEF UserReadies
<1>3. CASE AnswerFails
  BY <1>3 DEF AnswerFails
<1>4. CASE ResumeRevives
  <2>1. /\ user.pc = "revive" /\ UNCHANGED <<asks, work>>
        /\ user' = [user EXCEPT !.pc = "sync", !.next = "revive",
                                !.todo = @ \ {First(user.todo)}]
    BY <1>4 DEF ResumeRevives
  <2> QED  BY <2>1
<1>5. CASE Skips
  <2>1. user' = UserOff \/ user' = [user EXCEPT !.pc = "sync", !.next = "again"]
    BY <1>5 DEF Skips
  <2>2. user.pc = "skip" /\ UNCHANGED <<asks, work>>
    BY <1>5 DEF Skips
  <2>3. CASE user' = UserOff
    BY <2>2, <2>3
  <2>4. CASE user' # UserOff
    BY <2>1, <2>2, <2>4
  <2> QED  BY <2>3, <2>4
<1>6. CASE UserSweeps \/ UserRequests \/ UserSettles \/ StopEnds \/ PauseEnds
  BY <1>6 DEF UserSweeps, UserRequests, UserSettles, StopEnds, PauseEnds
<1>7. CASE InterruptCancels \/ RetryPrepares \/ RetryActivates \/ RetrySpawns
  BY <1>7 DEF InterruptCancels, RetryPrepares, RetryActivates, RetrySpawns
<1>8. CASE CompleteHolds \/ CompleteForces \/ CompleteCloses \/ CompleteEnds
  BY <1>8 DEF CompleteHolds, CompleteForces, CompleteCloses, CompleteEnds
<1>9. CASE AnswerRecords
  BY <1>9 DEF AnswerRecords
<1>10. CASE AcceptEnds \/ UserWakes
  BY <1>10 DEF AcceptEnds, UserWakes
<1>11. CASE UserErrs
  BY <1>11 DEF UserErrs
<1>12. CASE UserSyncs
  BY <1>12 DEF UserSyncs, SyncRead
<1>13. CASE UserSynced
  <2>1. user.pc = "syncing" /\ UNCHANGED <<step, asks, work>>
    BY <1>13 DEF UserSynced
  <2>2. CASE user' = UserOff
    BY <2>1, <2>2
  <2>3. CASE user' # UserOff
    <3>1. \E e : user' = [Synced(user) EXCEPT !.exec = e]
      BY <1>13, <2>3 DEF UserSynced
    <3>2. /\ user'.act = user.act /\ user'.todo = user.todo
          /\ user'.pc = user.next /\ user'.next = "off"
      BY <3>1 DEF Synced
    <3> QED  BY <2>1, <3>2
  <2> QED  BY <2>2, <2>3
<1> QED  BY <1>2, <1>3, <1>4, <1>5, <1>6, <1>7, <1>8, <1>9, <1>10, <1>11, <1>12, <1>13
         DEF HandlerActs

LEMMA HandlerKeepsOrder ==
  ASSUME OneDriver, OrderInv, HandlerActs
  PROVE  OrderInv'
<1>1. /\ Sound /\ OwnItems /\ PassesOffer /\ NoRetry /\ PlainSteps /\ ItemsFit /\ AsksFit /\ UserFits
      /\ PassesFit /\ Started
      /\ Deps \in [Steps -> SUBSET Steps] /\ user.todo \subseteq Steps
      /\ asks \subseteq Steps \X Parking
  BY StepsAssumption DEF OrderInv, Sound, Typed, TypeOK, UserRec
<1>2. Sound'
  BY <1>1, HandlerKeepsSound
<1>3. UNCHANGED <<pass, work, asks>>
  BY HandlerFrame, HandlerGoesOn
<1>4. \A t \in Steps :
        \/ step'[t] = step[t]
        \/ Answers(t) /\ step[t] \in Parking /\ step'[t] \in {"Ready", "Failed"}
        \/ /\ step[t] = "Failed" /\ step'[t] = "Ready" /\ user.pc = "revive"
           /\ t = First(user.todo)
        \/ step[t] = "Failed" /\ step'[t] = "Skipped" /\ user.pc = "skip"
  BY HandlerMoves
<1>5. NoRetry'
  BY <1>1, <1>3, HandlerGoesOn DEF NoRetry
<1>6. PlainSteps'
  BY <1>1, <1>4 DEF PlainSteps, Plain, Outcomes
<1>7. \A t \in Steps : Answers(t)' => Answers(t) /\ UNCHANGED step
  BY HandlerGoesOn DEF Answers
<1>8. AsksFit'
  <2>1. ASSUME NEW k \in asks
        PROVE  step'[k[1]] \in Parking /\ ~Answers(k[1])'
    <3>1. k[1] \in Steps /\ step[k[1]] \in Parking /\ ~Answers(k[1])
      BY <1>1 DEF AsksFit
    <3>2. step'[k[1]] = step[k[1]]
      BY <1>4, <3>1 DEF Parking
    <3> QED  BY <1>7, <3>1, <3>2
  <2> QED  BY <1>1, <1>3, <2>1 DEF AsksFit
<1>9. ItemsFit'
  <2>1. ASSUME NEW o \in Owners, NEW s \in Steps
        PROVE  Fits(work[<<o, s>>], s)'
    <3>1. Fits(work[<<o, s>>], s) /\ work'[<<o, s>>] = work[<<o, s>>]
      BY <1>1, <1>3 DEF ItemsFit
    <3>2. Works(work[<<o, s>>]) => step'[s] = "Running"
      BY <1>4, <3>1 DEF Fits, Parking
    <3>3. Parks(work[<<o, s>>]) => step'[s] \in Parking /\ ~Asked(s)' /\ ~Answers(s)'
      <4>1. Asked(s)' <=> Asked(s)
        BY <1>3 DEF Asked
      <4>2. Parks(work[<<o, s>>]) => step'[s] = step[s]
        BY <1>4, <3>1 DEF Fits, Parking
      <4> QED  BY <1>7, <3>1, <4>1, <4>2 DEF Fits
    <3> QED  BY <3>1, <3>2, <3>3 DEF Fits
  <2> QED  BY <2>1 DEF ItemsFit
<1>10. PassesFit'
  <2>1. \A t \in Steps : /\ step[t] = "Pending" => step'[t] = "Pending"
                         /\ step[t] \in CompletedLike => step'[t] \in CompletedLike
    BY <1>4 DEF Parking, CompletedLike
  <2> QED  BY <1>1, <1>3, <2>1 DEF PassesFit, PassFits, Reads
<1>11. Started'
  <2>1. \A t \in Steps : /\ step'[t] # "Pending" => step[t] # "Pending"
                         /\ step[t] \in CompletedLike => step'[t] \in CompletedLike
    BY <1>4 DEF Parking, CompletedLike
  <2> QED  BY <1>1, <2>1 DEF Started
<1>12. UserFits'
  <2>1. user'.pc \in {"ready", "record", "fail"} =>
          user'.todo # {} /\ \A s \in user'.todo : step'[s] \in Parking
    BY <1>1, HandlerGoesOn DEF UserFits
  <2>2. ASSUME user'.act = "resume", NEW s \in user'.todo
        PROVE  step'[s] = "Failed"
    <3>1. /\ user.act = "resume" /\ user.pc # "skip" /\ s \in user.todo
          /\ user.pc = "revive" => UNCHANGED step \/ First(user.todo) # s
      BY <2>2, HandlerGoesOn
    <3>2. s \in Steps /\ step[s] = "Failed"
      BY <1>1, <3>1 DEF UserFits
    <3> QED  BY <1>4, <3>1, <3>2 DEF Parking
  <2> QED  BY <2>1, <2>2, HandlerGoesOn DEF UserFits
<1>13. \A t \in Steps : step'[t] = "Running" => step[t] = "Running"
  BY <1>4
<1>14. OwnItems'
  BY <1>1, <1>3, <1>13 DEF OwnItems, Attends, Minds
<1>15. PassesOffer'
  <2>1. ASSUME NEW q \in Passes
        PROVE  Offers(q)'
    <3>1. Offers(q) /\ pass[q].batch \subseteq Steps
      BY <1>1 DEF PassesOffer, Sound, Typed, TypeOK, PassRec
    <3> QED  BY <1>3, <1>13, <3>1 DEF Offers
  <2> QED  BY <2>1 DEF PassesOffer
<1> QED  BY <1>2, <1>5, <1>6, <1>8, <1>9, <1>10, <1>11, <1>12, <1>14, <1>15 DEF OrderInv

-----------------------------------------------------------------------------
(* A request takes the transcript it answers,                              *)
LEMMA RequestBegins ==
  ASSUME NoInterrupts, OneDriver, OrderInv, Arrives
  PROVE  /\ UNCHANGED <<step, pass, work>>
         /\ user.pc = "off" /\ user'.next = "off" /\ user'.act # "retry"
         /\ \/ user'.pc = "accept" /\ user'.act # "resume" /\ UNCHANGED asks
            \/ user'.pc = "skip" /\ user'.act # "resume" /\ UNCHANGED asks
            \/ /\ user'.pc = "revive" /\ user'.act = "resume" /\ UNCHANGED asks
               /\ user'.todo = {s \in Steps : step[s] = "Failed"}
            \/ /\ user'.pc \in {"ready", "record"} /\ user'.act # "resume"
               /\ \E k \in asks : user'.todo = {k[1]} /\ asks' = asks \ {k}
<1>1. UNCHANGED <<step, pass, work>>
  BY RequestFrame, RequestsRunNothing
<1> USE <1>1 DEF Begins, UserOff, rows, NoInterrupts, Interrupting, OneDriver
<1>2. ~StopBegins /\ ~PauseBegins /\ ~CompleteBegins
  BY DEF StopBegins, PauseBegins, CompleteBegins
<1>3. CASE ResumeBegins
  BY <1>3 DEF ResumeBegins
<1>4. CASE AcceptBegins
  BY <1>4 DEF AcceptBegins
<1>5. \A s \in Steps : ~InterruptBegins(s) /\ ~RetryBegins(s)
  BY DEF InterruptBegins, RetryBegins
<1>6. CASE \E s \in Steps : SkipBegins(s)
  BY <1>6 DEF SkipBegins
<1>7. CASE \E s \in Steps : AnswerBegins(s)
  <2>1. PICK s \in Steps : AnswerBegins(s)
    BY <1>7
  <2>2. PICK k \in asks, act \in {"approve", "reject"} :
          /\ k[1] = s /\ asks' = asks \ {k}
          /\ Begins(act, IF act = "approve" THEN "ready" ELSE "record", {s})
    BY <2>1 DEF AnswerBegins
  <2>3. /\ user'.pc \in {"ready", "record"} /\ user'.act = act /\ user'.todo = {k[1]}
        /\ user'.next = "off" /\ user.pc = "off"
    BY <2>2
  <2> QED  BY <2>2, <2>3
<1> QED  BY <1>2, <1>3, <1>4, <1>5, <1>6, <1>7 DEF Arrives

(* which is the only one of its step: nobody else will answer it, and no   *)
(* item is about to ask for it again.                                      *)
LEMMA RequestKeepsOrder ==
  ASSUME NoInterrupts, OneDriver, OrderInv, Arrives
  PROVE  OrderInv'
<1>1. /\ Sound /\ OwnItems /\ PassesOffer /\ NoRetry /\ PlainSteps /\ ItemsFit /\ AsksFit /\ UserFits
      /\ PassesFit /\ Started
  BY DEF OrderInv
<1>2. Sound'
  BY <1>1, RequestKeepsSound
<1>3. UNCHANGED <<step, pass, work>>
  BY RequestBegins
<1>4. PlainSteps' /\ PassesFit' /\ Started'
  BY <1>1, <1>3 DEF PlainSteps, PassesFit, PassFits, Reads, Started
<1>5. NoRetry'
  BY <1>1, <1>3, RequestBegins DEF NoRetry, RetryPcs
<1>6. asks' \subseteq asks
  BY RequestBegins
<1>7. ASSUME NEW s, Answers(s)'
      PROVE  /\ Asked(s) /\ step[s] \in Parking
             /\ \A k \in asks' : k[1] # s
  <2>1. user'.pc \in {"ready", "record"}
    BY <1>7, RequestBegins DEF Answers
  <2>2. PICK k \in asks : user'.todo = {k[1]} /\ asks' = asks \ {k}
    BY <2>1, RequestBegins
  <2>3. s = k[1]
    BY <1>7, <2>2 DEF Answers
  <2> QED  BY <1>1, <2>2, <2>3 DEF AsksFit, Asked
<1>8. AsksFit'
  BY <1>1, <1>3, <1>6, <1>7 DEF AsksFit
<1>9. UserFits'
  <2>1. user'.pc \in {"ready", "record", "fail"} =>
          user'.todo # {} /\ \A s \in user'.todo : step'[s] \in Parking
    <3>1. user'.pc \in {"ready", "record", "fail"} => user'.todo # {}
      BY RequestBegins
    <3>2. ASSUME user'.pc \in {"ready", "record", "fail"}, NEW s \in user'.todo
          PROVE  step'[s] \in Parking
      BY <1>3, <1>7, <3>2 DEF Answers
    <3> QED  BY <3>1, <3>2
  <2>2. user'.act = "resume" => \A s \in user'.todo : step'[s] = "Failed"
    BY <1>3, RequestBegins
  <2>3. /\ user'.pc = "revive" \/ user'.next = "revive" => user'.act = "resume"
        /\ user'.pc = "skip" => user'.act # "resume"
        /\ user'.next \notin {"ready", "record", "fail", "skip"}
    BY RequestBegins
  <2> QED  BY <2>1, <2>2, <2>3 DEF UserFits
<1>10. ItemsFit'
  <2>1. ASSUME NEW o \in Owners, NEW s \in Steps
        PROVE  Fits(work[<<o, s>>], s)'
    <3>1. Fits(work[<<o, s>>], s)
      BY <1>1 DEF ItemsFit
    <3>2. Parks(work[<<o, s>>]) => ~Asked(s)' /\ ~Answers(s)'
      <4>1. Asked(s)' => Asked(s)
        BY <1>6 DEF Asked
      <4> QED  BY <1>7, <3>1, <4>1 DEF Fits
    <3> QED  BY <1>3, <3>1, <3>2 DEF Fits
  <2> QED  BY <2>1 DEF ItemsFit
<1>11. OwnItems' /\ PassesOffer'
  BY <1>1, <1>3 DEF OwnItems, Attends, Minds, PassesOffer, Offers
<1> QED  BY <1>2, <1>4, <1>5, <1>8, <1>9, <1>10, <1>11 DEF OrderInv

(* A restart leaves nobody at work; the running steps it makes ready had   *)
(* their dependencies done when they started, and an open transcript is    *)
(* still the one of a parked step.                                         *)
LEMMA RestartKeepsOrder ==
  ASSUME OrderInv, Restarts
  PROVE  OrderInv'
<1>1. /\ Sound /\ PlainSteps /\ AsksFit /\ Started /\ step \in Table
      /\ asks \subseteq Steps \X Parking /\ Deps \in [Steps -> SUBSET Steps]
  BY StepsAssumption DEF OrderInv, Sound, Typed, TypeOK
<1>2. Sound'
  BY <1>1, RestartKeepsSound
<1>3. /\ \A o \in Owners, s \in Steps : work'[<<o, s>>] = WorkOff
      /\ \A p \in Passes : pass'[p] = PassOff
      /\ user' = UserOff /\ UNCHANGED asks
  BY DEF Restarts, Items
<1>4. \A t \in Steps : \/ step'[t] = step[t]
                       \/ step[t] = "Running" /\ step'[t] = "Ready"
  BY DEF Restarts, Recovered
<1>5. NoRetry'
  <2>1. Retry \in Owners
    BY DEF Owners
  <2> QED  BY <1>3, <2>1 DEF NoRetry, RetryPcs, UserOff, WorkOff
<1>6. PlainSteps'
  BY <1>1, <1>4 DEF PlainSteps, Plain
<1>7. ItemsFit' /\ OwnItems'
  <2>1. \A o \in Owners, s \in Steps : work'[<<o, s>>].pc = "off"
    BY <1>3, OffIsSound
  <2>2. ASSUME NEW o \in Owners, NEW s \in Steps
        PROVE  Fits(work[<<o, s>>], s)'
    BY <2>1 DEF Fits, Works, Parks
  <2> QED  BY <2>1, <2>2 DEF ItemsFit, OwnItems
<1>8. AsksFit'
  <2>1. \A t \in Steps : step[t] \in Parking => step'[t] = step[t]
    BY <1>4 DEF Parking
  <2> QED  BY <1>1, <1>3, <2>1 DEF AsksFit, Answers, UserOff
<1>9. UserFits' /\ PassesFit' /\ PassesOffer'
  BY <1>3 DEF UserFits, UserOff, PassesFit, PassFits, Reads, PassOff, PassesOffer,
              Offers, Blank
<1>10. Started'
  <2>1. \A t \in Steps : /\ step'[t] # "Pending" => step[t] # "Pending"
                         /\ step[t] \in CompletedLike => step'[t] \in CompletedLike
    BY <1>4 DEF CompletedLike
  <2> QED  BY <1>1, <2>1 DEF Started
<1> QED  BY <1>2, <1>5, <1>6, <1>7, <1>8, <1>9, <1>10 DEF OrderInv

LEMMA OrderInitially ==
  ASSUME Init
  PROVE  OrderInv
<1>1. Sound
  BY InitiallySound
<1>2. \A o \in Owners, s \in Steps : work[<<o, s>>] = WorkOff
  BY DEF Init, Items
<1>3. NoRetry
  <2>1. Retry \in Owners
    BY DEF Owners
  <2>2. \A s \in Steps : work[<<Retry, s>>].pc = "off"
    BY <1>2, <2>1, OffIsSound
  <2> QED  BY <2>2 DEF NoRetry, Init, UserOff, RetryPcs
<1>4. ItemsFit
  <2>1. ASSUME NEW o \in Owners, NEW s \in Steps
        PROVE  Fits(work[<<o, s>>], s)
    <3>1. work[<<o, s>>].pc = "off"
      BY <1>2, OffIsSound
    <3> QED  BY <3>1 DEF Fits, Works, Parks
  <2> QED  BY <2>1 DEF ItemsFit
<1>5. PlainSteps /\ Started
  BY DEF Init, Bootstrapped, PlainSteps, Started, Plain
<1>6. AsksFit /\ UserFits
  BY DEF Init, AsksFit, UserFits, UserOff
<1>7. PassesFit /\ PassesOffer
  BY DEF Init, PassesFit, PassFits, Reads, PassOff, PassesOffer, Offers, Blank
<1>8. OwnItems
  BY <1>2, OffIsSound DEF OwnItems
<1> QED  BY <1>1, <1>3, <1>4, <1>5, <1>6, <1>7, <1>8 DEF OrderInv

LEMMA OrderKept ==
  ASSUME NoInterrupts, OneDriver, OrderInv, [Next]_vars
  PROVE  OrderInv'
<1>1. ASSUME NEW p \in Passes, PassActs(p)
      PROVE  OrderInv'
  BY <1>1, PassKeepsOrder
<1>2. ASSUME NEW o \in Owners, NEW s \in Steps, ItemActs(o, s)
      PROVE  OrderInv'
  BY <1>2, ItemKeepsOrder
<1>3. \A s \in Steps : ~RetryReturns(s)
  BY DEF OrderInv, NoRetry, RetryReturns
<1>4. CASE Arrives
  BY <1>4, RequestKeepsOrder
<1>5. CASE HandlerActs
  BY <1>5, HandlerKeepsOrder
<1>6. CASE Restarts
  BY <1>6, RestartKeepsOrder
<1>7. CASE UNCHANGED vars
  <2>1. Sound'
    BY <1>7, UnchangedIsSound DEF OrderInv
  <2>2. NoRetry' /\ PlainSteps' /\ Started' /\ UserFits'
    BY <1>7 DEF OrderInv, vars, NoRetry, PlainSteps, Started, UserFits
  <2>3. PassesFit'
    BY <1>7 DEF OrderInv, vars, PassesFit, PassFits, Reads
  <2>4. AsksFit'
    BY <1>7 DEF OrderInv, vars, AsksFit, Answers
  <2>5. ItemsFit'
    <3>1. \A s \in Steps : (Asked(s)' <=> Asked(s)) /\ (Answers(s)' <=> Answers(s))
      BY <1>7 DEF vars, Asked, Answers
    <3> QED  BY <1>7, <3>1 DEF OrderInv, vars, ItemsFit, Fits
  <2>6. OwnItems' /\ PassesOffer'
    BY <1>7 DEF OrderInv, vars, OwnItems, Attends, Minds, PassesOffer, Offers
  <2> QED  BY <2>1, <2>2, <2>3, <2>4, <2>5, <2>6 DEF OrderInv
<1> QED  BY <1>1, <1>2, <1>3, <1>4, <1>5, <1>6, <1>7 DEF Next

(* Only a claim starts a step, and what is ready has its dependencies done.*)
LEMMA StartsInOrder ==
  ASSUME OneDriver, OrderInv, Next, NEW s \in Steps, step'[s] = "Running", step[s] # "Running"
  PROVE  \A d \in Deps[s] : step[d] \in CompletedLike
<1>1. Typed /\ Calm /\ Started
  BY DEF OrderInv, Sound
<1>2. ~(\E p \in Passes : PassActs(p))
  BY <1>1, PassesRunNothing
<1>3. ~HandlerActs
  BY <1>1, HandlersRunNothing
<1>4. ~Arrives
  BY RequestsRunNothing
<1>5. ~Restarts /\ \A t \in Steps : ~RetryReturns(t)
  <2>1. ~Restarts
    BY DEF Restarts, Recovered
  <2>2. \A t \in Steps : ~RetryReturns(t)
    BY DEF OrderInv, NoRetry, RetryReturns
  <2> QED  BY <2>1, <2>2
<1>6. PICK o \in Owners, t \in Steps : ItemActs(o, t)
  BY <1>2, <1>3, <1>4, <1>5 DEF Next
<1>7. t = s
  BY <1>1, <1>6, ItemsRunTheirOwn
<1>8. step[s] = "Ready"
  BY <1>6, <1>7, ItemMoves DEF Outcomes, Parking
<1> QED  BY <1>1, <1>8 DEF Started

(* As long as nobody interrupts or retries and one pass drives the plan, a *)
(* step starts only when everything it depends on is completed or skipped, *)
(* whatever the plan, however resumes, skips and answers fall between the  *)
(* reads and the writes of the pass, and however often the process dies    *)
(* and recovers the plan.                                                  *)
THEOREM DependenciesComeFirst ==
  ASSUME NoInterrupts, OneDriver
  PROVE  Spec => FollowsDependencies
<1>1. Init => OrderInv
  BY OrderInitially
<1>2. OrderInv /\ [Next]_vars => OrderInv'
  BY OrderKept
<1>3. OrderInv /\ [Next]_vars =>
        [\A s \in Steps : step'[s] = "Running" /\ step[s] # "Running"
           => \A d \in Deps[s] : step[d] \in CompletedLike]_step
  <2>1. UNCHANGED vars => UNCHANGED step
    BY DEF vars
  <2>2. ASSUME OrderInv, Next, NEW s \in Steps, step'[s] = "Running", step[s] # "Running"
        PROVE  \A d \in Deps[s] : step[d] \in CompletedLike
    BY <2>2, StartsInOrder
  <2> QED  BY <2>1, <2>2
<1> QED  BY <1>1, <1>2, <1>3, PTL DEF Spec, FollowsDependencies

-----------------------------------------------------------------------------
(* When nobody is at work, the execution and the sessions say what the     *)
(* steps derive, and the plan has not stopped short of the user.  Each     *)
(* synchronization overwrites them from its own reading, and the last one  *)
(* is the pass's: a handler that has written a step spawns a pass when it  *)
(* is done, and it cannot fail before.                                     *)

(* The user skips, resumes and approves: what a pass is spawned for.  (A   *)
(* refusal spawns none, and its own last synchronization may be stale.)    *)
OnlyWaking ==
  /\ Requests \subseteq {"skip", "resume", "approve"}
  /\ Crashes = 0
  /\ \A p, q \in Passes : p = q

(* The handler has written a step, or it is a resume, and it goes on to    *)
(* spawn a pass.                                                           *)
UserWill ==
  /\ user.act \in {"none", "skip", "resume", "approve"}
  /\ user.pc \in {"off", "skip", "ready", "revive", "sync", "syncing", "again", "wake"}
  /\ user.next \in {"off", "revive", "again", "wake"}
  /\ user.pc \in {"sync", "syncing"} => user.next # "off"
  /\ user.act = "resume" => user.exec = "Paused"

(* A pass is spawned or will be.                                           *)
Hot == user.pc \in {"revive", "sync", "syncing", "again", "wake"} \/ wakes > 0

(* The statuses the execution has without a stop or an acceptance, none of *)
(* them "Pending" before a step has left "Pending": from these no          *)
(* derivation is refused.                                                  *)
Lively == {"Pending", "Running", "Paused", "Waiting"}

Begun(e, table) ==
  /\ e \in Lively
  /\ e # "Pending" => \E s \in Steps : table[s] # "Pending"

Since(table) == \A s \in Steps : table[s] # "Pending" => step[s] # "Pending"

SnapFits(a) == Begun(a.snapExec, a.snapStep) /\ Since(a.snapStep)

BegunInv ==
  /\ Begun(exec, step)
  /\ SnapFits(user)
  /\ \A p \in Passes : /\ SnapFits(pass[p]) /\ Since(pass[p].seen)
                       /\ pass[p].exec \in Lively
  /\ \A o \in Owners, s \in Steps : SnapFits(work[<<o, s>>])

SeenRunning ==
  \A o \in Owners, s \in Steps :
    Works(work[<<o, s>>]) => work[<<o, s>>].seen = "Running"

Launching ==
  \A p \in Passes :
    /\ pass[p].pc \in {"launch", "reload", "join"} => pass[p].batch # {}
    /\ pass[p].pc = "launch" => pass[p].exec = "Running"
    /\ pass[p].next \in {"off", "promote", "select", "judge"}

WakeInv ==
  /\ OrderInv
  /\ UserWill
  /\ BegunInv
  /\ SeenRunning
  /\ Launching

LEMMA OnlyWakingIsQuiet ==
  ASSUME OnlyWaking
  PROVE  NoInterrupts /\ OneDriver
BY DEF OnlyWaking, NoInterrupts, Interrupting, OneDriver

(* No synchronization is refused,                                          *)
LEMMA SyncSucceeds ==
  ASSUME NEW a, Begun(a.snapExec, a.snapStep)
  PROVE  ~SyncFails(a)
<1>1. Derived(a) \in Lively
  BY DEF Derived, DeriveExecution, Lively
<1>2. Derived(a) = "Pending" => \A s \in Steps : a.snapStep[s] = "Pending"
  BY DEF Derived, DeriveExecution
<1>3. Derived(a) = "Pending" => a.snapExec = "Pending"
  BY <1>2 DEF Begun
<1> QED  BY <1>1, <1>3 DEF SyncFails, ExecMayMove, ExecMoves, Begun, Lively

(* and none makes the execution pending again.                             *)
LEMMA SyncBegins ==
  ASSUME Begun(exec, step), NEW a, SnapFits(a), SyncWrite(a)
  PROVE  Begun(exec', step)
<1>1. Derived(a) \in Lively
  BY DEF Derived, DeriveExecution, Lively
<1>2. Derived(a) # "Pending" => \E s \in Steps : a.snapStep[s] # "Pending"
  <2>1. (\A s \in Steps : a.snapStep[s] = "Pending") => {a.snapStep[s] : s \in Steps} \subseteq {"Pending"}
    OBVIOUS
  <2> QED  BY <2>1 DEF Derived, DeriveExecution
<1>3. Derived(a) # "Pending" => \E s \in Steps : step[s] # "Pending"
  BY <1>2 DEF SnapFits, Since
<1>4. exec' = exec \/ exec' = Derived(a)
  BY DEF SyncWrite
<1> QED  BY <1>1, <1>3, <1>4 DEF Begun

(* A synchronizing actor's reading is kept, dropped, or taken anew.        *)
Snaps(b, a) ==
  \/ b.snapExec = a.snapExec /\ b.snapStep = a.snapStep
  \/ b.snapExec = "Pending" /\ b.snapStep = Blank
  \/ b.snapExec = exec /\ b.snapStep = step

LEMMA SnapHolds ==
  ASSUME NEW a, NEW b, SnapFits(a), Begun(exec, step), Snaps(b, a),
         \A s \in Steps : step[s] # "Pending" => step'[s] # "Pending"
  PROVE  /\ Begun(b.snapExec, b.snapStep)
         /\ \A s \in Steps : b.snapStep[s] # "Pending" => step'[s] # "Pending"
BY DEF Snaps, SnapFits, Begun, Since, Blank, Lively

LEMMA PassSnaps ==
  ASSUME TypeOK, NEW p \in Passes, PassActs(p)
  PROVE  Snaps(pass'[p], pass[p])
<1>1. pass[p] \in PassRec /\ pass \in [Passes -> PassRec]
  BY DEF TypeOK
<1> USE <1>1 DEF SetPass, PassRec, PassOff, Snaps
<1>2. CASE PassBegins(p)
  BY <1>2 DEF PassBegins
<1>3. CASE PassReads(p)
  BY <1>3 DEF PassReads
<1>4. CASE PassPromotes(p)
  BY <1>4 DEF PassPromotes
<1>5. CASE PassSelects(p)
  BY <1>5 DEF PassSelects
<1>6. CASE PassLaunches(p)
  BY <1>6 DEF PassLaunches
<1>7. CASE PassJoins(p)
  BY <1>7 DEF PassJoins
<1>8. CASE PassJudges(p)
  BY <1>8 DEF PassJudges
<1>9. CASE PassSyncs(p)
  BY <1>9 DEF PassSyncs, SyncRead
<1>10. CASE PassSynced(p)
  BY <1>10 DEF PassSynced, Synced
<1>11. CASE PassEnds(p)
  BY <1>11 DEF PassEnds
<1> QED  BY <1>2, <1>3, <1>4, <1>5, <1>6, <1>7, <1>8, <1>9, <1>10, <1>11 DEF PassActs

LEMMA ItemSnaps ==
  ASSUME Typed, NEW o \in Owners, NEW s \in Steps, ItemActs(o, s)
  PROVE  Snaps(work'[<<o, s>>], work[<<o, s>>])
<1>1. /\ work[<<o, s>>] \in WorkRec /\ work \in [Items -> WorkRec] /\ <<o, s>> \in Items
  BY DEF Typed, TypeOK, Items
<1> USE <1>1 DEF SetWork, WorkRec, WorkOff, Snaps
<1>2. CASE Claims(o, s)
  <2>1. CASE step[s] = "Ready"
    <3>1. work'[<<o, s>>] = [work[<<o, s>>] EXCEPT !.pc = "sync", !.next = "run",
                                !.seen = "Running", !.attempt = attempt[s]]
      BY <1>2, <2>1 DEF Claims
    <3> QED  BY <3>1
  <2>2. CASE step[s] # "Ready"
    <3>1. work'[<<o, s>>] = [work[<<o, s>>] EXCEPT !.pc = "done", !.out = "Completed"]
      BY <1>2, <2>2 DEF Claims
    <3> QED  BY <3>1
  <2> QED  BY <2>1, <2>2
<1>3. CASE AgentEnds(o, s)
  <2>1. PICK pc, out : work' = [work EXCEPT ![<<o, s>>] =
                                  [work[<<o, s>>] EXCEPT !.pc = pc, !.out = out]]
    BY <1>3 DEF AgentEnds
  <2> QED  BY <2>1
<1>4. CASE AgentFailsToStart(o, s)
  BY <1>4 DEF AgentFailsToStart
<1>5. CASE Records(o, s)
  BY <1>5 DEF Records
<1>6. CASE Settles(o, s)
  BY <1>6 DEF Settles
<1>7. CASE Acknowledges(o, s)
  BY <1>7 DEF Acknowledges
<1>8. CASE Errs(o, s)
  BY <1>8 DEF Errs
<1>9. CASE Guards(o, s)
  BY <1>9 DEF Guards
<1>10. CASE Asks(o, s)
  BY <1>10 DEF Asks
<1>11. CASE WorkSyncs(o, s)
  BY <1>11 DEF WorkSyncs, SyncRead
<1>12. CASE WorkSynced(o, s)
  BY <1>12 DEF WorkSynced, Synced
<1> QED  BY <1>2, <1>3, <1>4, <1>5, <1>6, <1>7, <1>8, <1>9, <1>10, <1>11, <1>12 DEF ItemActs

(* What a handler has written a pass will follow; a handler that ends      *)
(* otherwise has written nothing.                                          *)
LEMMA HandlerWill ==
  ASSUME WakeInv, HandlerActs
  PROVE  /\ UserWill'
         /\ Snaps(user', user)
         /\ ~Hot' => ~Hot /\ UNCHANGED <<exec, step, session>>
<1>1. /\ user \in UserRec /\ wakes \in Nat /\ UserWill /\ UserFits
      /\ user.pc \notin {"sync", "syncing"} => user.next = "off"
      /\ ~SyncFails(user)
  BY SyncSucceeds DEF WakeInv, OrderInv, Sound, Typed, TypeOK, Aimed, BegunInv, SnapFits
<1> USE <1>1 DEF UserWill, Snaps, Hot, UserRec, UserOff, UserLess, rows
<1>2. CASE UserReadies
  <2>1. /\ user.pc = "ready" /\ user.act # "retry"
        /\ user' = [user EXCEPT !.pc = "sync", !.next = "again"]
    BY <1>2 DEF UserReadies
  <2> QED  BY <2>1
<1>3. CASE ResumeRevives
  <2>1. user' = [user EXCEPT !.pc = "sync", !.next = "revive",
                             !.todo = user.todo \ {First(user.todo)}]
    BY <1>3 DEF ResumeRevives
  <2> QED  BY <2>1
<1>4. CASE Skips
  <2>1. UNCHANGED <<exec, session, wakes>> /\ user.pc = "skip"
    BY <1>4 DEF Skips
  <2>2. CASE step[First(user.todo)] = user.seen[First(user.todo)]
    <3>1. user' = [user EXCEPT !.pc = "sync", !.next = "again"]
      BY <1>4, <2>2 DEF Skips
    <3> QED  BY <3>1
  <2>3. CASE step[First(user.todo)] # user.seen[First(user.todo)]
    <3>1. user' = UserOff /\ UNCHANGED step
      BY <1>4, <2>3 DEF Skips
    <3> QED  BY <2>1, <3>1
  <2> QED  BY <2>2, <2>3
<1>5. CASE UserSweeps \/ UserRequests \/ UserSettles \/ StopEnds \/ PauseEnds
  BY <1>5 DEF UserSweeps, UserRequests, UserSettles, StopEnds, PauseEnds
<1>6. CASE InterruptCancels \/ RetryPrepares \/ RetryActivates \/ RetrySpawns
  BY <1>6 DEF InterruptCancels, RetryPrepares, RetryActivates, RetrySpawns
<1>7. CASE CompleteHolds \/ CompleteForces \/ CompleteCloses \/ CompleteEnds
  BY <1>7 DEF CompleteHolds, CompleteForces, CompleteCloses, CompleteEnds
<1>8. CASE AnswerRecords \/ AnswerFails \/ AcceptEnds
  BY <1>8 DEF AnswerRecords, AnswerFails, AcceptEnds
<1>9. CASE UserWakes
  BY <1>9 DEF UserWakes
<1>10. CASE UserErrs
  <2>1. user' = UserOff /\ UNCHANGED <<exec, step, session, wakes>>
    BY <1>10 DEF UserErrs
  <2>2. user.pc # "revive"
    <3>1. StepMayMove("Paused", "Failed", "Ready")
      BY DEF StepMayMove, StepMoves, StepsUnder
    <3> QED  BY <1>10, <3>1 DEF UserErrs, UserFits, UserTarget
  <2>3. user.pc \in {"skip", "ready"}
    BY <1>10, <2>2 DEF UserErrs
  <2> QED  BY <2>1, <2>3
<1>11. CASE UserSyncs
  <2>1. CASE user.pc = "sync"
    <3>1. user' = SyncRead(user, user.next)
      BY <1>11, <2>1 DEF UserSyncs
    <3> QED  BY <2>1, <3>1 DEF SyncRead
  <2>2. CASE user.pc = "again"
    <3>1. user' = SyncRead(user, "wake")
      BY <1>11, <2>2 DEF UserSyncs
    <3> QED  BY <2>2, <3>1 DEF SyncRead
  <2> QED  BY <1>11, <2>1, <2>2 DEF UserSyncs
<1>12. CASE UserSynced
  <2>1. user.pc = "syncing" /\ user.next \in {"revive", "again", "wake"}
    BY <1>12 DEF UserSynced
  <2>2. user' = [Synced(user) EXCEPT !.exec = user.exec]
    BY <1>12, <2>1 DEF UserSynced, Synced
  <2>3. /\ user'.act = user.act /\ user'.exec = user.exec
        /\ user'.pc = user.next /\ user'.next = "off"
        /\ user'.snapExec = "Pending" /\ user'.snapStep = Blank
    BY <2>2 DEF Synced
  <2> QED  BY <2>1, <2>3
<1> QED  BY <1>2, <1>3, <1>4, <1>5, <1>6, <1>7, <1>8, <1>9, <1>10, <1>11, <1>12
         DEF HandlerActs

LEMMA RequestWill ==
  ASSUME OnlyWaking, WakeInv, Arrives
  PROVE  /\ UserWill'
         /\ Snaps(user', user)
         /\ UNCHANGED <<exec, step, session, wakes>>
         /\ ~Hot' => ~Hot
<1> USE DEF UserWill, Snaps, Hot, Begins, UserOff, rows, OnlyWaking
<1>1. ~StopBegins /\ ~PauseBegins /\ ~CompleteBegins /\ ~AcceptBegins
  BY DEF StopBegins, PauseBegins, CompleteBegins, AcceptBegins
<1>2. CASE ResumeBegins
  <2>1. /\ exec = "Paused" /\ UNCHANGED <<exec, step, session, wakes>>
        /\ Begins("resume", "revive", {s \in Steps : step[s] = "Failed"})
    BY <1>2 DEF ResumeBegins
  <2> QED  BY <2>1
<1>3. \A s \in Steps : ~InterruptBegins(s) /\ ~RetryBegins(s)
  BY DEF InterruptBegins, RetryBegins
<1>4. CASE \E s \in Steps : SkipBegins(s)
  <2>1. PICK s \in Steps : SkipBegins(s)
    BY <1>4
  <2>2. Begins("skip", "skip", {s}) /\ UNCHANGED <<exec, step, session, wakes>>
    BY <2>1 DEF SkipBegins
  <2> QED  BY <2>2
<1>5. CASE \E s \in Steps : AnswerBegins(s)
  <2>1. PICK s \in Steps : AnswerBegins(s)
    BY <1>5
  <2>2. /\ \E act \in {"approve", "reject"} :
             Begins(act, IF act = "approve" THEN "ready" ELSE "record", {s})
        /\ UNCHANGED <<exec, step, session, wakes>>
    BY <2>1 DEF AnswerBegins
  <2>3. Begins("approve", "ready", {s})
    BY <2>2
  <2> QED  BY <2>2, <2>3
<1> QED  BY <1>1, <1>2, <1>3, <1>4, <1>5 DEF Arrives

(* No step becomes pending again.                                          *)
LEMMA StepsStayBegun ==
  ASSUME OnlyWaking, OrderInv, Next, NEW s \in Steps, step[s] # "Pending"
  PROVE  step'[s] # "Pending"
<1>1. CASE \E p \in Passes : PassActs(p)
  BY <1>1, PassMoves
<1>2. CASE \E o \in Owners, t \in Steps : ItemActs(o, t)
  <2>1. PICK o \in Owners, t \in Steps : ItemActs(o, t)
    BY <1>2
  <2>2. CASE t # s
    BY <2>1, <2>2, ItemsRunTheirOwn DEF OrderInv, Sound
  <2>3. CASE t = s
    BY <2>1, <2>3, ItemMoves, OnlyWakingIsQuiet DEF Outcomes, Parking
  <2> QED  BY <2>2, <2>3
<1>3. CASE Arrives
  BY <1>3, RequestsRunNothing
<1>4. CASE HandlerActs
  BY <1>4, HandlerMoves
<1>5. ~Restarts
  BY NoRestarts DEF OrderInv, Sound, OnlyWaking
<1>6. \A t \in Steps : ~RetryReturns(t)
  BY DEF OrderInv, NoRetry, RetryReturns
<1> QED  BY <1>1, <1>2, <1>3, <1>4, <1>5, <1>6 DEF Next

(* Who writes the execution's status: a synchronization, and a selection   *)
Writes ==
  \/ UNCHANGED exec
  \/ \E a : SnapFits(a) /\ SyncWrite(a) /\ UNCHANGED step
  \/ exec' = "Running" /\ (\E s \in Steps : step[s] # "Pending") /\ UNCHANGED step

LEMMA PassWrites ==
  ASSUME WakeInv, NEW p \in Passes, PassActs(p)
  PROVE  Writes
<1>1. SnapFits(pass[p]) /\ Since(pass[p].seen)
  BY DEF WakeInv, BegunInv
<1>2. CASE PassSelects(p)
  <2>1. Candidates(p) # {} /\ UNCHANGED step /\ exec' \in {exec, "Running"}
    BY <1>2 DEF PassSelects
  <2>2. \E s \in Steps : step[s] # "Pending"
    BY <1>1, <2>1, CandidatesAreReady DEF Since
  <2> QED  BY <2>1, <2>2 DEF Writes
<1>3. CASE PassSynced(p)
  BY <1>1, <1>3 DEF PassSynced, Writes
<1>4. CASE ~PassSelects(p) /\ ~PassSynced(p)
  BY <1>4 DEF PassActs, PassBegins, PassReads, PassPromotes, PassLaunches, PassJoins,
              PassJudges, PassSyncs, PassEnds, rows, Writes
<1> QED  BY <1>2, <1>3, <1>4

LEMMA ItemWrites ==
  ASSUME WakeInv, NEW o \in Owners, NEW s \in Steps, ItemActs(o, s)
  PROVE  Writes
<1>1. SnapFits(work[<<o, s>>])
  BY DEF WakeInv, BegunInv
<1>2. CASE WorkSynced(o, s)
  BY <1>1, <1>2 DEF WorkSynced, Writes
<1>3. CASE ~WorkSynced(o, s)
  BY <1>3 DEF ItemActs, Claims, AgentEnds, AgentFailsToStart, Records, Settles,
              Acknowledges, Errs, Guards, Asks, WorkSyncs, rows, Writes
<1> QED  BY <1>2, <1>3

LEMMA HandlerWrites ==
  ASSUME WakeInv, HandlerActs
  PROVE  Writes
<1>1. SnapFits(user) /\ user.pc \in {"off", "skip", "ready", "revive", "sync", "syncing",
                                     "again", "wake"}
  BY DEF WakeInv, BegunInv, UserWill
<1> USE DEF rows, Writes
<1>2. CASE UserSynced
  BY <1>1, <1>2 DEF UserSynced
<1>3. CASE UserReadies \/ ResumeRevives \/ Skips
  BY <1>3 DEF UserReadies, ResumeRevives, Skips
<1>4. CASE UserSweeps \/ UserRequests \/ UserSettles \/ StopEnds \/ PauseEnds
  BY <1>1, <1>4 DEF UserSweeps, UserRequests, UserSettles, StopEnds, PauseEnds
<1>5. CASE InterruptCancels \/ RetryPrepares \/ RetryActivates \/ RetrySpawns
  BY <1>1, <1>5 DEF InterruptCancels, RetryPrepares, RetryActivates, RetrySpawns
<1>6. CASE CompleteHolds \/ CompleteForces \/ CompleteCloses \/ CompleteEnds
  BY <1>1, <1>6 DEF CompleteHolds, CompleteForces, CompleteCloses, CompleteEnds
<1>7. CASE AnswerRecords \/ AnswerFails \/ AcceptEnds
  BY <1>1, <1>7 DEF AnswerRecords, AnswerFails, AcceptEnds
<1>8. CASE UserWakes \/ UserErrs \/ UserSyncs
  BY <1>8 DEF UserWakes, UserErrs, UserSyncs
<1> QED  BY <1>2, <1>3, <1>4, <1>5, <1>6, <1>7, <1>8 DEF HandlerActs

LEMMA ExecStaysBegun ==
  ASSUME Begun(exec, step), Writes,
         \A s \in Steps : step[s] # "Pending" => step'[s] # "Pending"
  PROVE  Begun(exec', step')
<1>1. CASE UNCHANGED exec
  BY <1>1 DEF Begun
<1>2. ASSUME NEW a, SnapFits(a), SyncWrite(a), UNCHANGED step
      PROVE  Begun(exec', step')
  BY <1>2, SyncBegins
<1>3. CASE exec' = "Running" /\ (\E s \in Steps : step[s] # "Pending") /\ UNCHANGED step
  BY <1>3 DEF Begun, Lively
<1> QED  BY <1>1, <1>2, <1>3 DEF Writes

(* What a pass has read it has read when it was so.                        *)
LEMMA PassHolds ==
  ASSUME WakeInv, NEW p \in Passes, PassActs(p), Begun(exec', step'),
         \A s \in Steps : step[s] # "Pending" => step'[s] # "Pending"
  PROVE  /\ \A s \in Steps : pass'[p].seen[s] # "Pending" => step'[s] # "Pending"
         /\ pass'[p].exec \in Lively
<1>1. /\ pass[p] \in PassRec /\ pass \in [Passes -> PassRec] /\ step \in Table
      /\ Since(pass[p].seen) /\ pass[p].exec \in Lively /\ exec \in Lively
  BY DEF WakeInv, OrderInv, Sound, Typed, TypeOK, BegunInv, Begun
<1>2. "Pending" \in Lively /\ exec' \in Lively
  BY DEF Lively, Begun
<1>3. CASE PassPromotes(p)
  <2>1. PICK s \in Steps :
          /\ step' = [step EXCEPT ![s] = "Ready"]
          /\ pass' = [pass EXCEPT ![p] = [pass[p] EXCEPT !.seen[s] = "Ready"]]
    BY <1>3, PromotesTheReady DEF WakeInv
  <2>2. pass'[p] = [pass[p] EXCEPT !.seen[s] = "Ready"]
    BY <1>1, <2>1
  <2>3. pass[p].seen \in Table
    BY <1>1 DEF PassRec
  <2>4. /\ pass'[p].exec = pass[p].exec
        /\ pass'[p].seen = [pass[p].seen EXCEPT ![s] = "Ready"]
    BY <1>1, <2>2 DEF PassRec
  <2>5. ASSUME NEW t \in Steps, pass'[p].seen[t] # "Pending"
        PROVE  step'[t] # "Pending"
    <3>1. CASE t = s
      BY <1>1, <2>1, <3>1 DEF Table
    <3>2. CASE t # s
      <4>1. pass[p].seen[t] # "Pending"
        BY <2>3, <2>4, <2>5, <3>2 DEF Table
      <4> QED  BY <1>1, <4>1 DEF Since
    <3> QED  BY <3>1, <3>2
  <2> QED  BY <1>1, <2>4, <2>5
<1>4. CASE ~PassPromotes(p)
  <2> USE <1>1, <1>2 DEF Since, PassRec, SetPass, PassOff, Blank
  <2>1. CASE PassBegins(p)
    BY <2>1 DEF PassBegins
  <2>2. CASE PassReads(p)
    BY <2>2 DEF PassReads
  <2>3. CASE PassSelects(p)
    BY <2>3 DEF PassSelects
  <2>4. CASE PassLaunches(p)
    BY <2>4 DEF PassLaunches
  <2>5. CASE PassJoins(p)
    BY <2>5 DEF PassJoins
  <2>6. CASE PassJudges(p)
    BY <2>6 DEF PassJudges
  <2>7. CASE PassSyncs(p)
    BY <2>7 DEF PassSyncs, SyncRead
  <2>8. CASE PassSynced(p)
    BY <2>8 DEF PassSynced, Synced
  <2>9. CASE PassEnds(p)
    BY <2>9 DEF PassEnds
  <2> QED  BY <1>4, <2>1, <2>2, <2>3, <2>4, <2>5, <2>6, <2>7, <2>8, <2>9 DEF PassActs
<1> QED  BY <1>3, <1>4

LEMMA ItemSeesRunning ==
  ASSUME OneDriver, WakeInv, NEW o \in Owners, NEW s \in Steps, ItemActs(o, s),
         Works(work'[<<o, s>>])
  PROVE  work'[<<o, s>>].seen = "Running"
<1>1. /\ work[<<o, s>>] \in WorkRec /\ Fits(work[<<o, s>>], s)
      /\ \A r \in WorkRec : SetWork(o, s, r) => work'[<<o, s>>] = r
      /\ work \in [Items -> WorkRec] /\ <<o, s>> \in Items /\ PlainSteps
      /\ ParkedItem(work[<<o, s>>]) /\ SoundItem(work[<<o, s>>])
      /\ Works(work[<<o, s>>]) => work[<<o, s>>].seen = "Running"
  BY ItemType DEF WakeInv, OrderInv, Sound, Typed, TypeOK, ItemsFit, Parked, SoundItems,
                  Items, SeenRunning
<1> USE DEF Works, WorkRec, SetWork
<1>2. CASE Claims(o, s)
  <2>1. CASE step[s] = "Ready"
    <3>1. work'[<<o, s>>] = [work[<<o, s>>] EXCEPT !.pc = "sync", !.next = "run",
                                !.seen = "Running", !.attempt = attempt[s]]
      BY <1>1, <1>2, <2>1 DEF Claims
    <3> QED  BY <1>1, <3>1
  <2>2. CASE step[s] # "Ready"
    <3>1. work'[<<o, s>>] = [work[<<o, s>>] EXCEPT !.pc = "done", !.out = "Completed"]
      BY <1>1, <1>2, <2>2 DEF Claims
    <3> QED  BY <1>1, <3>1
  <2> QED  BY <2>1, <2>2
<1>3. CASE AgentEnds(o, s)
  <2>1. work[<<o, s>>].pc = "run"
    BY <1>3 DEF AgentEnds
  <2>2. PICK pc, out : work' = [work EXCEPT ![<<o, s>>] =
                                  [work[<<o, s>>] EXCEPT !.pc = pc, !.out = out]]
    BY <1>3 DEF AgentEnds
  <2>3. work'[<<o, s>>] = [work[<<o, s>>] EXCEPT !.pc = pc, !.out = out]
    BY <1>1, <2>2
  <2> QED  BY <1>1, <2>1, <2>3
<1>4. CASE AgentFailsToStart(o, s)
  BY <1>1, <1>4 DEF AgentFailsToStart
<1>5. CASE Records(o, s)
  BY <1>1, <1>5 DEF Records, Fits
<1>6. CASE Settles(o, s)
  <2>1. work'[<<o, s>>] = [work[<<o, s>>] EXCEPT !.pc = "sync",
                    !.next = IF work[<<o, s>>].out \in Parking THEN "parked" ELSE "done"]
    BY <1>1, <1>6 DEF Settles
  <2> QED  BY <1>1, <2>1
<1>7. CASE Acknowledges(o, s)
  BY <1>1, <1>7 DEF Acknowledges, SoundItem
<1>8. CASE Errs(o, s)
  BY <1>1, <1>8 DEF Errs
<1>9. CASE Guards(o, s)
  <2>1. step[s] \notin {"InterruptRequested", "Interrupted", "Revising"}
    BY <1>1 DEF PlainSteps, Plain, Outcomes, Parking
  <2>2. CASE step[s] = "Running"
    <3>1. work'[<<o, s>>] = [work[<<o, s>>] EXCEPT !.pc = "write", !.seen = step[s],
                                                 !.out = "Failed"]
      BY <1>1, <1>9, <2>2 DEF Guards
    <3> QED  BY <1>1, <2>2, <3>1
  <2>3. CASE step[s] # "Running"
    <3>1. work'[<<o, s>>] = [work[<<o, s>>] EXCEPT !.pc = "done", !.out = "Error"]
      BY <1>1, <1>9, <2>1, <2>3 DEF Guards
    <3> QED  BY <1>1, <3>1
  <2> QED  BY <2>2, <2>3
<1>10. CASE Asks(o, s)
  BY <1>1, <1>10 DEF Asks
<1>11. CASE WorkSyncs(o, s)
  BY <1>1, <1>11 DEF WorkSyncs, SyncRead, ParkedItem
<1>12. CASE WorkSynced(o, s)
  BY <1>1, <1>12 DEF WorkSynced, Synced, WorkOff, SoundItem
<1> QED  BY <1>2, <1>3, <1>4, <1>5, <1>6, <1>7, <1>8, <1>9, <1>10, <1>11, <1>12 DEF ItemActs

LEMMA PassLaunching ==
  ASSUME WakeInv, NEW p \in Passes, PassActs(p)
  PROVE  /\ pass'[p].pc \in {"launch", "reload", "join"} => pass'[p].batch # {}
         /\ pass'[p].pc = "launch" => pass'[p].exec = "Running"
         /\ pass'[p].next \in {"off", "promote", "select", "judge"}
<1>1. /\ pass[p] \in PassRec /\ pass \in [Passes -> PassRec]
      /\ pass[p].pc \in {"launch", "reload", "join"} => pass[p].batch # {}
      /\ pass[p].next \in {"off", "promote", "select", "judge"}
  BY DEF WakeInv, OrderInv, Sound, Typed, TypeOK, Launching
<1> USE <1>1 DEF PassRec, SetPass, PassOff
<1>2. CASE PassBegins(p)
  BY <1>2 DEF PassBegins
<1>3. CASE PassReads(p)
  BY <1>3 DEF PassReads
<1>4. CASE PassPromotes(p)
  BY <1>4 DEF PassPromotes
<1>5. CASE PassSelects(p)
  BY <1>5 DEF PassSelects
<1>6. CASE PassLaunches(p)
  BY <1>6 DEF PassLaunches
<1>7. CASE PassJoins(p)
  BY <1>7 DEF PassJoins
<1>8. CASE PassJudges(p)
  BY <1>8 DEF PassJudges
<1>9. CASE PassSyncs(p)
  BY <1>9 DEF PassSyncs, SyncRead
<1>10. CASE PassSynced(p)
  BY <1>10 DEF PassSynced, Synced
<1>11. CASE PassEnds(p)
  BY <1>11 DEF PassEnds
<1> QED  BY <1>2, <1>3, <1>4, <1>5, <1>6, <1>7, <1>8, <1>9, <1>10, <1>11 DEF PassActs

LEMMA SinceHolds ==
  ASSUME NEW table, Since(table),
         \A s \in Steps : step[s] # "Pending" => step'[s] # "Pending"
  PROVE  \A s \in Steps : table[s] # "Pending" => step'[s] # "Pending"
BY DEF Since

LEMMA OffSnaps ==
  ASSUME NEW e
  PROVE  /\ Snaps(WorkOff, WorkOff) /\ SnapFits(WorkOff) /\ SnapFits(Launched(e))
         /\ WorkOff.snapExec = "Pending" /\ WorkOff.snapStep = Blank
         /\ Launched(e).snapExec = "Pending" /\ Launched(e).snapStep = Blank
BY DEF Snaps, SnapFits, Begun, Since, Lively, WorkOff, Launched, Blank

LEMMA PassKeepsWake ==
  ASSUME OnlyWaking, WakeInv, NEW p \in Passes, PassActs(p)
  PROVE  WakeInv'
<1>1. /\ OrderInv /\ UserWill /\ BegunInv /\ SeenRunning /\ Launching
      /\ Typed /\ TypeOK /\ p \in Owners
  BY DEF WakeInv, OrderInv, Sound, Typed, Owners
<1>2. OrderInv'
  BY <1>1, PassKeepsOrder, OnlyWakingIsQuiet
<1>3. user' = user
  BY PassFrame
<1>4. UserWill'
  BY <1>1, <1>3 DEF UserWill
<1>5. \A s \in Steps : step[s] # "Pending" => step'[s] # "Pending"
  BY <1>1, StepsStayBegun DEF Next
<1>6. Begun(exec', step')
  BY <1>1, <1>5, PassWrites, ExecStaysBegun DEF BegunInv
<1>7. ASSUME NEW o \in Owners, NEW s \in Steps
      PROVE  \/ work'[<<o, s>>] = work[<<o, s>>]
             \/ work'[<<o, s>>] = WorkOff
             \/ \E e : work'[<<o, s>>] = Launched(e)
  <2>1. CASE PassLaunches(p) \/ PassJoins(p)
    BY <1>1, <2>1, PassBatch
  <2>2. CASE UNCHANGED work
    BY <2>2
  <2> QED  BY <2>1, <2>2, PassFrame
<1>8. SeenRunning'
  <2>1. ASSUME NEW o \in Owners, NEW s \in Steps, Works(work'[<<o, s>>])
        PROVE  work'[<<o, s>>].seen = "Running"
    <3>1. work'[<<o, s>>].pc \notin {"off", "claim"}
      BY <2>1 DEF Works
    <3>2. work'[<<o, s>>] = work[<<o, s>>]
      BY <1>7, <3>1, OffIsSound
    <3> QED  BY <1>1, <2>1, <3>2 DEF SeenRunning
  <2> QED  BY <2>1 DEF SeenRunning
<1>9. ASSUME NEW q \in Passes
      PROVE  q = p
  BY DEF OnlyWaking
<1>10. Launching'
  BY <1>9, PassLaunching DEF Launching
<1>11. BegunInv'
  <2>1. SnapFits(user)'
    BY <1>1, <1>3, <1>5, SinceHolds DEF BegunInv, SnapFits, Since, Begun
  <2>2. SnapFits(pass[p])'
    <3>1. SnapFits(pass[p]) /\ Begun(exec, step)
      BY <1>1 DEF BegunInv
    <3>2. Snaps(pass'[p], pass[p])
      BY <1>1, PassSnaps
    <3> QED  BY <1>5, <3>1, <3>2, SnapHolds DEF SnapFits, Begun, Since
  <2>3. Since(pass[p].seen)' /\ pass'[p].exec \in Lively
    BY <1>5, <1>6, PassHolds DEF Since
  <2>4. ASSUME NEW o \in Owners, NEW s \in Steps
        PROVE  SnapFits(work[<<o, s>>])'
    <3>1. CASE work'[<<o, s>>] = work[<<o, s>>]
      BY <1>1, <1>5, <3>1 DEF BegunInv, SnapFits, Since, Begun
    <3>2. CASE work'[<<o, s>>] # work[<<o, s>>]
      <4>1. work'[<<o, s>>].snapExec = "Pending" /\ work'[<<o, s>>].snapStep = Blank
        BY <1>7, <3>2, OffSnaps
      <4> QED  BY <4>1 DEF SnapFits, Begun, Since, Blank, Lively
    <3> QED  BY <3>1, <3>2
  <2> QED  BY <1>6, <1>9, <2>1, <2>2, <2>3, <2>4 DEF BegunInv, Begun
<1> QED  BY <1>2, <1>4, <1>8, <1>10, <1>11 DEF WakeInv

LEMMA ItemKeepsWake ==
  ASSUME OnlyWaking, WakeInv, NEW o \in Owners, NEW s \in Steps, ItemActs(o, s)
  PROVE  WakeInv'
<1>1. /\ OrderInv /\ UserWill /\ BegunInv /\ SeenRunning /\ Launching /\ Typed
  BY DEF WakeInv, OrderInv, Sound
<1>2. OrderInv'
  BY <1>1, ItemKeepsOrder, OnlyWakingIsQuiet
<1>3. /\ UNCHANGED <<user, pass>>
      /\ \A r \in Owners, t \in Steps :
           <<r, t>> # <<o, s>> => work'[<<r, t>>] = work[<<r, t>>]
  BY ItemFrame DEF Items
<1>4. UserWill' /\ Launching'
  BY <1>1, <1>3 DEF UserWill, Launching
<1>5. \A t \in Steps : step[t] # "Pending" => step'[t] # "Pending"
  BY <1>1, StepsStayBegun DEF Next
<1>6. Begun(exec', step')
  BY <1>1, <1>5, ItemWrites, ExecStaysBegun DEF BegunInv
<1>7. SeenRunning'
  <2>1. ASSUME NEW r \in Owners, NEW t \in Steps, Works(work'[<<r, t>>])
        PROVE  work'[<<r, t>>].seen = "Running"
    <3>1. CASE <<r, t>> = <<o, s>>
      <4>1. r = o /\ t = s
        BY <3>1
      <4> QED  BY <2>1, <4>1, ItemSeesRunning, OnlyWakingIsQuiet
    <3>2. CASE <<r, t>> # <<o, s>>
      BY <1>1, <1>3, <2>1, <3>2 DEF SeenRunning
    <3> QED  BY <3>1, <3>2
  <2> QED  BY <2>1 DEF SeenRunning
<1>8. BegunInv'
  <2>1. SnapFits(user)'
    BY <1>1, <1>3, <1>5 DEF BegunInv, SnapFits, Since, Begun
  <2>2. \A p \in Passes : /\ SnapFits(pass[p])' /\ Since(pass[p].seen)'
                          /\ pass'[p].exec \in Lively
    BY <1>1, <1>3, <1>5 DEF BegunInv, SnapFits, Since, Begun
  <2>3. ASSUME NEW r \in Owners, NEW t \in Steps
        PROVE  SnapFits(work[<<r, t>>])'
    <3>1. CASE <<r, t>> = <<o, s>>
      <4>1. r = o /\ t = s
        BY <3>1
      <4>2. SnapFits(work[<<o, s>>]) /\ Begun(exec, step)
        BY <1>1 DEF BegunInv
      <4>3. Snaps(work'[<<o, s>>], work[<<o, s>>])
        BY <1>1, ItemSnaps
      <4> QED  BY <1>5, <4>1, <4>2, <4>3, SnapHolds DEF SnapFits, Begun, Since
    <3>2. CASE <<r, t>> # <<o, s>>
      BY <1>1, <1>3, <1>5, <3>2 DEF BegunInv, SnapFits, Since, Begun
    <3> QED  BY <3>1, <3>2
  <2> QED  BY <1>6, <2>1, <2>2, <2>3 DEF BegunInv, Begun
<1> QED  BY <1>2, <1>4, <1>7, <1>8 DEF WakeInv

(* A step of the user's leaves passes and items as they are.               *)
LEMMA UserKeepsWake ==
  ASSUME WakeInv, OrderInv', UserWill', UNCHANGED <<pass, work>>, Snaps(user', user),
         Begun(exec', step'),
         \A s \in Steps : step[s] # "Pending" => step'[s] # "Pending"
  PROVE  WakeInv'
<1>1. BegunInv /\ SeenRunning /\ Launching
  BY DEF WakeInv
<1>2. SeenRunning' /\ Launching'
  BY <1>1 DEF SeenRunning, Launching
<1>3. SnapFits(user)'
  <2>1. SnapFits(user) /\ Begun(exec, step)
    BY <1>1 DEF BegunInv
  <2> QED  BY <2>1, SnapHolds DEF SnapFits, Begun, Since
<1>4. \A p \in Passes : /\ SnapFits(pass[p])' /\ Since(pass[p].seen)'
                        /\ pass'[p].exec \in Lively
  BY <1>1 DEF BegunInv, SnapFits, Since, Begun
<1>5. \A o \in Owners, s \in Steps : SnapFits(work[<<o, s>>])'
  BY <1>1 DEF BegunInv, SnapFits, Since, Begun
<1>6. BegunInv'
  BY <1>3, <1>4, <1>5 DEF BegunInv, Begun
<1> QED  BY <1>2, <1>6 DEF WakeInv

LEMMA HandlerKeepsWake ==
  ASSUME OnlyWaking, WakeInv, HandlerActs
  PROVE  WakeInv'
<1>1. OrderInv /\ Begun(exec, step)
  BY DEF WakeInv, BegunInv
<1>2. OrderInv'
  BY <1>1, HandlerKeepsOrder, OnlyWakingIsQuiet
<1>3. UserWill' /\ Snaps(user', user)
  BY HandlerWill
<1>4. UNCHANGED <<pass, work>>
  BY <1>1, HandlerFrame, HandlerGoesOn
<1>5. \A s \in Steps : step[s] # "Pending" => step'[s] # "Pending"
  BY <1>1, StepsStayBegun DEF Next
<1>6. Begun(exec', step')
  BY <1>1, <1>5, HandlerWrites, ExecStaysBegun
<1> QED  BY <1>2, <1>3, <1>4, <1>5, <1>6, UserKeepsWake

LEMMA RequestKeepsWake ==
  ASSUME OnlyWaking, WakeInv, Arrives
  PROVE  WakeInv'
<1>1. OrderInv /\ Begun(exec, step)
  BY DEF WakeInv, BegunInv
<1>2. OrderInv'
  BY <1>1, RequestKeepsOrder, OnlyWakingIsQuiet
<1>3. UserWill' /\ Snaps(user', user) /\ UNCHANGED <<exec, step>>
  BY RequestWill
<1>4. UNCHANGED <<pass, work>>
  BY RequestFrame
<1>5. Begun(exec', step')
  BY <1>1, <1>3 DEF Begun
<1> QED  BY <1>2, <1>3, <1>4, <1>5, UserKeepsWake

LEMMA WakeInitially ==
  ASSUME OnlyWaking, Init
  PROVE  WakeInv
<1>1. OrderInv
  BY OrderInitially, OnlyWakingIsQuiet
<1>2. \A o \in Owners, s \in Steps : work[<<o, s>>] = WorkOff
  BY DEF Init, Items
<1>3. UserWill
  BY DEF Init, UserWill, UserOff
<1>4. SeenRunning
  BY <1>2, OffIsSound DEF SeenRunning, Works
<1>5. Launching
  BY DEF Init, Launching, PassOff
<1>6. BegunInv
  <2>1. SnapFits(user)
    BY DEF Init, UserOff, SnapFits, Begun, Since, Lively, Blank
  <2>2. \A p \in Passes : /\ SnapFits(pass[p]) /\ Since(pass[p].seen)
                          /\ pass[p].exec \in Lively
    BY DEF Init, PassOff, SnapFits, Begun, Since, Lively, Blank
  <2>3. \A o \in Owners, s \in Steps : SnapFits(work[<<o, s>>])
    BY <1>2, OffSnaps
  <2>4. Begun(exec, step)
    <3>1. exec \in Lively
      BY DEF Init, DeriveExecution, Lively
    <3>2. (\A s \in Steps : step[s] = "Pending") => {step[s] : s \in Steps} \subseteq {"Pending"}
      OBVIOUS
    <3>3. (\A s \in Steps : step[s] = "Pending") => exec = "Pending"
      BY <3>2 DEF Init, DeriveExecution
    <3> QED  BY <3>1, <3>3 DEF Begun
  <2> QED  BY <2>1, <2>2, <2>3, <2>4 DEF BegunInv
<1> QED  BY <1>1, <1>3, <1>4, <1>5, <1>6 DEF WakeInv

-----------------------------------------------------------------------------
(* As long as no pass is owed, nothing but the pass and its items has      *)
(* written since the pass began: what it has read is so.                   *)

(* The item has settled its step.                                          *)
Ended(w) ==
  \/ w.pc \in {"parked", "ask", "done"}
  \/ w.pc \in {"sync", "syncing"} /\ w.next \in {"parked", "ask", "done"}

ItemCool(w, s) ==
  /\ w.pc = "claim" => w.exec = "Running"
  /\ w.pc # "guard"
  /\ Ended(w) => w.out \in Outcomes /\ w.out \in {"Completed", step[s]}

(* What the last synchronization has to leave                              *)
Agrees == exec = DeriveExecution({step[s] : s \in Steps}) /\ SessionsAgree

(* The plan has not stopped before the user has to act.                    *)
NoStall ==
  (\A s \in Steps : step[s] \in ReadyLike \cup CompletedLike) => AllDone(step)

(* A plan without cycles: the validator of plans refuses the others.       *)
Acyclic ==
  \E rank \in [Steps -> Nat] : \A s \in Steps : \A d \in Deps[s] : rank[d] < rank[s]

(* A pass is about to synchronize, and goes on at next.                    *)
At(p, next) == pass[p].pc \in {"sync", "syncing"} /\ pass[p].next = next

NonePromotable == \A s \in Steps : step[s] = "Pending" => ~DepsDone(s, step)

PassCool(p) ==
  /\ \/ At(p, "promote") \/ pass[p].pc = "promote"
     \/ At(p, "select") \/ pass[p].pc = "select"
     => pass[p].seen = step
  /\ pass[p].pc = "syncing" => pass[p].snapStep = step /\ pass[p].snapExec = exec
  /\ At(p, "select") \/ pass[p].pc = "select" => NonePromotable
  /\ pass[p].pc = "select" => SessionsAgree
  /\ pass[p].pc = "reload" => exec = "Running"
  /\ (At(p, "judge") \/ pass[p].pc = "judge") /\ pass[p].halt =>
       \E s \in Steps : step[s] \in {"Failed"} \cup Parking
  /\ pass[p].pc \in {"judge", "off"} => Agrees
  /\ pass[p].pc = "off" \/ At(p, "off") => (Acyclic => NoStall)

Cool ==
  ~Hot => /\ \A p \in Passes : PassCool(p)
          /\ \A o \in Owners, s \in Steps : ItemCool(work[<<o, s>>], s)

SettledInv == WakeInv /\ Cool

(* Nothing an item holds is refused, and it settles its step as it says.   *)
LEMMA ItemStaysCool ==
  ASSUME OnlyWaking, WakeInv, NEW o \in Owners, NEW s \in Steps, ItemActs(o, s),
         ItemCool(work[<<o, s>>], s)
  PROVE  ItemCool(work[<<o, s>>], s)'
<1>1. /\ work[<<o, s>>] \in WorkRec /\ Fits(work[<<o, s>>], s)
      /\ \A r \in WorkRec : SetWork(o, s, r) => work'[<<o, s>>] = r
      /\ work \in [Items -> WorkRec] /\ <<o, s>> \in Items /\ step \in Table
      /\ ParkedItem(work[<<o, s>>]) /\ SoundItem(work[<<o, s>>])
      /\ Works(work[<<o, s>>]) => work[<<o, s>>].seen = "Running"
      /\ ~SyncFails(work[<<o, s>>])
  BY ItemType, SyncSucceeds
     DEF WakeInv, OrderInv, Sound, Typed, TypeOK, ItemsFit, Parked, SoundItems, Items,
         SeenRunning, BegunInv, SnapFits
<1> USE DEF ItemCool, Ended, WorkRec, SetWork
<1>2. CASE Claims(o, s)
  <2>1. CASE step[s] = "Ready"
    <3>1. work'[<<o, s>>] = [work[<<o, s>>] EXCEPT !.pc = "sync", !.next = "run",
                                !.seen = "Running", !.attempt = attempt[s]]
      BY <1>1, <1>2, <2>1 DEF Claims
    <3> QED  BY <1>1, <3>1
  <2>2. CASE step[s] # "Ready"
    <3>1. work'[<<o, s>>] = [work[<<o, s>>] EXCEPT !.pc = "done", !.out = "Completed"]
      BY <1>1, <1>2, <2>2 DEF Claims
    <3> QED  BY <1>1, <3>1 DEF Outcomes
  <2> QED  BY <2>1, <2>2
<1>3. CASE AgentEnds(o, s)
  <2>1. work[<<o, s>>].pc = "run"
    BY <1>3 DEF AgentEnds
  <2>2. PICK pc \in {"record", "write", "acknowledge"}, out \in StepStatus :
          work' = [work EXCEPT ![<<o, s>>] =
                    [work[<<o, s>>] EXCEPT !.pc = pc, !.out = out]]
    BY <1>3 DEF AgentEnds, Parking, StepStatus
  <2>3. work'[<<o, s>>] = [work[<<o, s>>] EXCEPT !.pc = pc, !.out = out]
    BY <1>1, <2>2
  <2> QED  BY <1>1, <2>1, <2>2, <2>3
<1>4. CASE AgentFailsToStart(o, s)
  BY <1>1, <1>4 DEF AgentFailsToStart
<1>5. CASE Records(o, s)
  BY <1>1, <1>5 DEF Records
<1>6. CASE Settles(o, s)
  <2>1. /\ work'[<<o, s>>] = [work[<<o, s>>] EXCEPT !.pc = "sync",
                    !.next = IF work[<<o, s>>].out \in Parking THEN "parked" ELSE "done"]
        /\ step'[s] = work[<<o, s>>].out
    BY <1>1, <1>6 DEF Settles, SetStep, Table
  <2>2. work[<<o, s>>].out \in Outcomes
    BY <1>1, <1>6 DEF Settles, Fits
  <2> QED  BY <1>1, <2>1, <2>2
<1>7. CASE Acknowledges(o, s)
  BY <1>1, <1>7 DEF Acknowledges, SoundItem
<1>8. CASE Errs(o, s)
  <2>1. StepMayMove("Running", "Ready", "Running")
    BY DEF StepMayMove, StepMoves, StepsUnder, StepStatus
  <2>2. \A out \in Outcomes : StepMayMove("Running", "Running", out)
    BY DEF StepMayMove, StepMoves, StepsUnder, StepStatus, Outcomes, Parking
  <2>3. work[<<o, s>>].pc = "write" =>
          StepMayMove(work[<<o, s>>].exec, work[<<o, s>>].seen, work[<<o, s>>].out)
    BY <1>1, <2>2 DEF Fits, Works
  <2> QED  BY <1>1, <1>8, <2>1, <2>3 DEF Errs
<1>9. CASE Guards(o, s)
  BY <1>9 DEF Guards
<1>10. CASE Asks(o, s)
  BY <1>1, <1>10 DEF Asks
<1>11. CASE WorkSyncs(o, s)
  BY <1>1, <1>11 DEF WorkSyncs, SyncRead, ParkedItem, rows
<1>12. CASE WorkSynced(o, s)
  BY <1>1, <1>12 DEF WorkSynced, Synced, WorkOff, SoundItem
<1> QED  BY <1>2, <1>3, <1>4, <1>5, <1>6, <1>7, <1>8, <1>9, <1>10, <1>11, <1>12 DEF ItemActs

LEMMA ItemWakesNobody ==
  ASSUME NEW o \in Owners, NEW s \in Steps, ItemActs(o, s)
  PROVE  UNCHANGED wakes
BY DEF ItemActs, Claims, AgentEnds, AgentFailsToStart, Records, Settles, Acknowledges,
       Errs, Guards, Asks, WorkSyncs, WorkSynced

LEMMA OffIsCool ==
  ASSUME NEW w, NEW s, w.pc = "off"
  PROVE  ItemCool(w, s)
BY DEF ItemCool, Ended

(* Items are at work only while their pass waits for them.                 *)
LEMMA ItemsOfAJoin ==
  ASSUME OnlyWaking, OrderInv, NEW o \in Owners, NEW s \in Steps, work[<<o, s>>].pc # "off"
  PROVE  \A p \in Passes : pass[p].pc = "join" /\ pass[p].next = "off"
<1>1. o \in Passes
  BY DEF OrderInv, NoRetry, Owners
<1>2. pass[o].pc = "join"
  BY <1>1 DEF OrderInv, Sound, SoundPasses, SoundPass
<1>3. pass[o].next = "off"
  BY <1>1, <1>2 DEF OrderInv, PassesFit, PassFits
<1> QED  BY <1>1, <1>2, <1>3 DEF OnlyWaking

LEMMA ItemKeepsSettled ==
  ASSUME OnlyWaking, SettledInv, NEW o \in Owners, NEW s \in Steps, ItemActs(o, s)
  PROVE  Cool'
<1>1. WakeInv /\ Cool /\ OrderInv /\ NoRetry /\ Typed
  BY DEF SettledInv, WakeInv, OrderInv, Sound
<1>2. /\ UNCHANGED <<user, pass>>
      /\ \A r \in Owners, t \in Steps :
           <<r, t>> # <<o, s>> => work'[<<r, t>>] = work[<<r, t>>]
  BY ItemFrame DEF Items
<1>3. ASSUME ~Hot'
      PROVE  ~Hot
  BY <1>2, <1>3, ItemWakesNobody DEF Hot
<1>4. work[<<o, s>>].pc # "off"
  BY ItemsAreOn
<1>5. ASSUME NEW p \in Passes
      PROVE  PassCool(p)'
  <2>1. pass'[p].pc = "join"
    BY <1>1, <1>2, <1>4, ItemsOfAJoin
  <2> QED  BY <2>1 DEF PassCool, At
<1>6. ASSUME ~Hot', NEW r \in Owners, NEW t \in Steps
      PROVE  ItemCool(work[<<r, t>>], t)'
  <2>1. ItemCool(work[<<r, t>>], t)
    BY <1>1, <1>3, <1>6 DEF Cool
  <2>2. CASE t # s
    <3>1. step'[t] = step[t] /\ work'[<<r, t>>] = work[<<r, t>>]
      BY <1>1, <1>2, <2>2, ItemsRunTheirOwn
    <3> QED  BY <2>1, <3>1 DEF ItemCool
  <2>3. CASE t = s /\ r = o
    BY <1>1, <2>1, <2>3, ItemStaysCool
  <2>4. CASE t = s /\ r # o
    <3>1. work[<<r, t>>].pc = "off"
      BY <1>1, <1>4, <2>4, OneItem, OnlyWakingIsQuiet
    <3>2. work'[<<r, t>>].pc = "off"
      BY <1>2, <2>4, <3>1
    <3> QED  BY <3>2, OffIsCool DEF ItemCool, Ended
  <2> QED  BY <2>2, <2>3, <2>4
<1> QED  BY <1>5, <1>6 DEF Cool

LEMMA UserKeepsSettled ==
  ASSUME SettledInv, UNCHANGED <<pass, work>>,
         ~Hot' => ~Hot /\ UNCHANGED <<exec, step, session>>
  PROVE  Cool'
<1> SUFFICES ASSUME ~Hot' PROVE Cool'
  BY DEF Cool
<1>1. UNCHANGED <<pass, work, exec, step, session>> /\ ~Hot /\ Cool
  BY DEF SettledInv
<1>2. \A p \in Passes : PassCool(p)'
  BY <1>1 DEF Cool, PassCool, At, NonePromotable, SessionsAgree, Agrees, NoStall
<1>3. \A o \in Owners, s \in Steps : ItemCool(work[<<o, s>>], s)'
  BY <1>1 DEF Cool, ItemCool, Ended
<1> QED  BY <1>2, <1>3 DEF Cool

(* With nothing to promote and nothing to select, in a plan without cycles *)
(* whose sessions say what their steps derive, a step is still to come     *)
(* only where the user has to act first: of the unfinished steps the       *)
(* lowest has all its dependencies done, and its session is idle.          *)
LEMMA NothingToDo ==
  ASSUME OrderInv, Acyclic, NonePromotable, SessionsAgree,
         NEW p \in Passes, pass[p].seen = step, Candidates(p) = {}
  PROVE  NoStall
<1> SUFFICES ASSUME \A s \in Steps : step[s] \in ReadyLike \cup CompletedLike,
                    ~AllDone(step)
             PROVE  FALSE
  BY DEF NoStall
<1>1. \A s \in Steps : step[s] \in {"Pending", "Ready"} \cup CompletedLike
  BY DEF OrderInv, PlainSteps, Plain, Outcomes, Parking, ReadyLike, CompletedLike
<1>2. PICK rank \in [Steps -> Nat] : \A s \in Steps : \A d \in Deps[s] : rank[d] < rank[s]
  BY DEF Acyclic
<1> DEFINE Todo  == {s \in Steps : step[s] \notin CompletedLike}
           T     == {rank[s] : s \in Todo}
           Below == {ss \in Nat \X Nat : ss[1] < ss[2]}
<1>3. PICK x \in T : \A y \in T : ~(<<y, x>> \in Below)
  <2>1. IsWellFoundedOn(Below, Nat)
    BY NatLessThanWellFounded, Zenon DEF OpToRel
  <2>2. T \subseteq Nat /\ T # {}
    BY <1>2 DEF AllDone
  <2> QED  BY <2>1, <2>2, WFMin
<1>4. PICK s \in Todo : rank[s] = x
  BY <1>3
<1>5. ASSUME NEW d \in Deps[s]
      PROVE  step[d] \in CompletedLike
  <2>1. d \in Steps /\ rank[d] < rank[s] /\ s \in Steps
    BY <1>2, <1>4, <1>5, StepsAssumption
  <2>2. rank[d] \in Nat /\ rank[s] \in Nat
    BY <1>2, <2>1
  <2>3. <<rank[d], x>> \in Below
    BY <1>4, <2>1, <2>2
  <2>4. rank[d] \notin T
    BY <1>3, <2>3
  <2> QED  BY <2>1, <2>4
<1>6. s \in Steps /\ DepsDone(s, step)
  BY <1>5 DEF DepsDone
<1>7. step[s] = "Ready"
  BY <1>1, <1>4, <1>6 DEF NonePromotable
<1>8. session[AgentOf[s]] = "Idle"
  <2> DEFINE S == {step[t] : t \in StepsOf(AgentOf[s])}
  <2>1. AgentOf[s] \in Agents /\ s \in StepsOf(AgentOf[s])
    BY <1>6, StepsAssumption DEF StepsOf
  <2>2. "Ready" \in S
    BY <1>7, <2>1
  <2>3. S \subseteq {"Pending", "Ready"} \cup CompletedLike
    BY <1>1 DEF StepsOf
  <2>4. session[AgentOf[s]] = DeriveSession(S)
    BY <2>1 DEF SessionsAgree
  <2> HIDE DEF S
  <2> QED  BY <2>2, <2>3, <2>4 DEF DeriveSession, CompletedLike, WaitingLike, FailedLike
<1>9. Candidates(p) # {}
  BY <1>6, <1>7, <1>8 DEF Candidates
<1> QED  BY <1>9

(* What a synchronization of the present state leaves                      *)
LEMMA SyncAgrees ==
  ASSUME NEW a, SyncWrite(a), a.snapStep = step, a.snapExec = exec, UNCHANGED step
  PROVE  Agrees'
<1>1. Derived(a) = DeriveExecution({step'[s] : s \in Steps})
  BY DEF Derived
<1>2. exec' = Derived(a)
  BY DEF SyncWrite
<1>3. SessionsAgree'
  BY DEF SyncWrite, SessionsAgree
<1> QED  BY <1>1, <1>2, <1>3 DEF Agrees

LEMMA PassStaysCool ==
  ASSUME OnlyWaking, SettledInv, NEW p \in Passes, PassActs(p), ~Hot'
  PROVE  PassCool(p)'
<1>1. /\ pass[p] \in PassRec /\ pass \in [Passes -> PassRec] /\ step \in Table
      /\ OrderInv /\ PassFits(p) /\ pass[p].exec \in Lively /\ exec \in Lively
      /\ pass[p].next \in {"off", "promote", "select", "judge"}
      /\ ~SyncFails(pass[p])
      /\ user' = user
      /\ pass[p].pc \in {"launch", "reload", "join"} => pass[p].batch # {}
      /\ p \in Owners
  BY SyncSucceeds, PassFrame
     DEF SettledInv, WakeInv, OrderInv, Sound, Typed, TypeOK, PassesFit, BegunInv,
         Launching, SnapFits, Begun, Owners
<1>2. CASE PassBegins(p)
  <2>1. pass[p].pc = "off" /\ exec \notin {"Completed", "Failed"}
    BY <1>1, <1>2 DEF PassBegins, Lively
  <2>2. pass' = [pass EXCEPT ![p].pc = "read"]
    BY <1>2, <2>1 DEF PassBegins
  <2>3. pass'[p].pc = "read"
    BY <1>1, <2>2 DEF PassRec
  <2> QED  BY <2>3 DEF PassCool, At
<1> SUFFICES ASSUME ~PassBegins(p) PROVE PassCool(p)'
  BY <1>2
<1>3. UNCHANGED wakes
  BY DEF PassActs, PassReads, PassPromotes, PassSelects, PassLaunches, PassJoins,
         PassJudges, PassSyncs, PassSynced, PassEnds
<1>4. PassCool(p) /\ \A s \in Steps : ItemCool(work[<<p, s>>], s)
  BY <1>1, <1>3 DEF SettledInv, Cool, Hot
<1>5. CASE PassReads(p)
  <2>1. /\ pass'[p].pc = "sync" /\ pass'[p].next = "promote" /\ pass'[p].seen = step
        /\ UNCHANGED step
    BY <1>1, <1>5 DEF PassReads, SetPass, PassRec, rows
  <2> QED  BY <2>1 DEF PassCool, At
<1>6. CASE PassPromotes(p)
  <2>1. PICK s \in Steps :
          /\ step' = [step EXCEPT ![s] = "Ready"]
          /\ pass' = [pass EXCEPT ![p] = [pass[p] EXCEPT !.seen[s] = "Ready"]]
    BY <1>1, <1>6, PromotesTheReady
  <2>2. pass[p].pc = "promote" /\ pass[p].next = "off" /\ pass[p].seen = step
    BY <1>1, <1>4, <1>6 DEF PassPromotes, PassCool, PassFits
  <2>3. pass'[p].pc = "promote" /\ pass'[p].next = "off" /\ pass'[p].seen = step'
    BY <1>1, <2>1, <2>2 DEF PassRec
  <2> QED  BY <2>3 DEF PassCool, At
<1>7. CASE PassSelects(p)
  <2>1. /\ pass[p].pc = "select"
        /\ pass'[p].pc = "launch" \/ (pass'[p].pc = "reload" /\ exec' = "Running")
    BY <1>1, <1>7 DEF PassSelects, SetPass, PassRec
  <2> QED  BY <2>1 DEF PassCool, At
<1>8. CASE PassLaunches(p)
  <2>1. pass'[p].pc = "join"
    BY <1>1, <1>8 DEF PassLaunches, SetPass, PassRec
  <2> QED  BY <2>1 DEF PassCool, At
<1>9. CASE PassJoins(p)
  <2> DEFINE outs == {work[<<p, s>>].out : s \in pass[p].batch}
  <2>1. /\ pass[p].batch # {} /\ pass[p].batch \subseteq Steps
        /\ \A s \in pass[p].batch : work[<<p, s>>].pc = "done"
    BY <1>1, <1>9 DEF PassJoins, PassRec
  <2>2. \A s \in pass[p].batch : /\ work[<<p, s>>].out \in Outcomes
                                 /\ work[<<p, s>>].out \in {"Completed", step[s]}
    BY <1>4, <2>1 DEF ItemCool, Ended
  <2>3. "Error" \notin outs
    BY <2>2 DEF Outcomes, Parking
  <2>4. /\ pass'[p].pc = "sync" /\ pass'[p].next = "judge"
        /\ pass'[p].halt = (outs # {"Completed"})
    <3>1. SetPass(p, [pass[p] EXCEPT !.pc = "sync", !.next = "judge", !.batch = {},
                                     !.halt = outs # {"Completed"}])
      BY <1>9, <2>3 DEF PassJoins
    <3> HIDE DEF outs
    <3> QED  BY <1>1, <3>1 DEF SetPass, PassRec
  <2>5. UNCHANGED step
    BY <1>9 DEF PassJoins, rows
  <2>6. ASSUME outs # {"Completed"}
        PROVE  \E s \in Steps : step'[s] \in {"Failed"} \cup Parking
    <3>1. PICK s \in pass[p].batch : work[<<p, s>>].out # "Completed"
      BY <2>1, <2>6
    <3>2. step[s] \in {"Failed"} \cup Parking
      BY <2>2, <3>1 DEF Outcomes
    <3> QED  BY <2>1, <2>5, <3>2
  <2> HIDE DEF outs
  <2> QED  BY <2>4, <2>6 DEF PassCool, At
<1>10. CASE PassJudges(p)
  <2>1. /\ pass[p].pc = "judge" /\ UNCHANGED <<exec, step, session>>
        /\ Agrees
    BY <1>4, <1>10 DEF PassJudges, rows, PassCool
  <2>2. Agrees'
    BY <2>1 DEF Agrees, SessionsAgree
  <2>3. CASE pass'[p] = PassOff
    <3>1. AllDone(step) \/ pass[p].halt
      <4>1. pass' = [pass EXCEPT ![p] = [PassOff EXCEPT !.pc = "read"]] => pass'[p].pc = "read"
        BY <1>1 DEF PassOff
      <4> QED  BY <1>1, <1>10, <2>3, <4>1 DEF PassJudges, SetPass, PassOff, Lively
    <3>2. NoStall
      <4>1. CASE AllDone(step)
        BY <4>1 DEF NoStall
      <4>2. CASE pass[p].halt
        <5>1. PICK s \in Steps : step[s] \in {"Failed"} \cup Parking
          BY <1>4, <2>1, <4>2 DEF PassCool
        <5> QED  BY <5>1 DEF NoStall, Parking, ReadyLike, CompletedLike
      <4> QED  BY <3>1, <4>1, <4>2
    <3>3. NoStall'
      BY <2>1, <3>2 DEF NoStall, AllDone
    <3> QED  BY <2>2, <2>3, <3>3 DEF PassCool, At, PassOff
  <2>4. CASE pass'[p] # PassOff
    <3>1. pass'[p] = [PassOff EXCEPT !.pc = "read"]
      BY <1>1, <1>10, <2>4 DEF PassJudges, SetPass
    <3> QED  BY <3>1 DEF PassCool, At, PassOff
  <2> QED  BY <2>3, <2>4
<1>11. CASE PassSyncs(p)
  <2>0. UNCHANGED <<exec, step, session>>
    BY <1>11 DEF PassSyncs, rows
  <2>1. CASE pass[p].pc = "sync"
    <3>1. /\ pass'[p].pc = "syncing" /\ pass'[p].next = pass[p].next
          /\ pass'[p].snapStep = step /\ pass'[p].snapExec = exec
          /\ pass'[p].seen = pass[p].seen /\ pass'[p].halt = pass[p].halt
      BY <1>1, <1>11, <2>1 DEF PassSyncs, SetPass, SyncRead, PassRec
    <3>2. /\ NonePromotable => NonePromotable'
          /\ NoStall => NoStall'
      BY <2>0 DEF NonePromotable, NoStall
    <3> QED  BY <1>4, <2>0, <2>1, <3>1, <3>2 DEF PassCool, At
  <2>2. CASE pass[p].pc = "promote"
    <3>1. /\ pass'[p].pc = "syncing" /\ pass'[p].next = "select"
          /\ pass'[p].snapStep = step /\ pass'[p].snapExec = exec
          /\ pass'[p].seen = pass[p].seen
      BY <1>1, <1>11, <2>2 DEF PassSyncs, SetPass, SyncRead, PassRec
    <3>2. pass[p].seen = step /\ Promotable(p) = {}
      BY <1>4, <1>11, <2>2 DEF PassSyncs, PassCool
    <3>3. NonePromotable'
      BY <2>0, <3>2 DEF Promotable, NonePromotable
    <3> QED  BY <2>0, <3>1, <3>2, <3>3 DEF PassCool, At
  <2>3. CASE pass[p].pc = "select"
    <3>1. /\ pass'[p].pc = "syncing" /\ pass'[p].next = "off"
          /\ pass'[p].snapStep = step /\ pass'[p].snapExec = exec
      BY <1>1, <1>11, <2>3 DEF PassSyncs, SetPass, SyncRead, PassRec
    <3>2. pass[p].seen = step /\ Candidates(p) = {} /\ NonePromotable /\ SessionsAgree
      BY <1>4, <1>11, <2>3 DEF PassSyncs, PassCool
    <3>3. Acyclic => NoStall
      BY <1>1, <3>2, NothingToDo
    <3>4. Acyclic => NoStall'
      BY <2>0, <3>3 DEF NoStall
    <3> QED  BY <2>0, <3>1, <3>4 DEF PassCool, At
  <2> QED  BY <1>11, <2>1, <2>2, <2>3 DEF PassSyncs
<1>12. CASE PassSynced(p)
  <2>1. /\ pass[p].pc = "syncing" /\ SyncWrite(pass[p]) /\ UNCHANGED step
        /\ pass[p].snapStep = step /\ pass[p].snapExec = exec
    BY <1>4, <1>12 DEF PassSynced, PassCool
  <2>2. Agrees'
    BY <2>1, SyncAgrees
  <2>3. CASE pass[p].next = "off"
    <3>1. pass'[p] = PassOff
      BY <1>1, <1>12, <2>3 DEF PassSynced, SetPass
    <3>2. Acyclic => NoStall'
      BY <1>4, <2>1, <2>3 DEF PassCool, At, NoStall
    <3> QED  BY <2>2, <3>1, <3>2 DEF PassCool, At, PassOff
  <2>4. CASE pass[p].next # "off"
    <3>1. /\ pass'[p].pc = pass[p].next /\ pass'[p].next = "off"
          /\ pass'[p].seen = pass[p].seen /\ pass'[p].halt = pass[p].halt
      <4>1. pass'[p] = [Synced(pass[p]) EXCEPT !.exec = exec']
        BY <1>1, <1>12, <2>4 DEF PassSynced, SetPass
      <4> QED  BY <1>1, <4>1 DEF Synced, PassRec
    <3>2. NonePromotable => NonePromotable'
      BY <2>1 DEF NonePromotable
    <3>3. SessionsAgree'
      BY <2>2 DEF Agrees
    <3> QED  BY <1>1, <1>4, <2>1, <2>2, <2>4, <3>1, <3>2, <3>3 DEF PassCool, At
  <2> QED  BY <2>3, <2>4
<1>13. CASE PassEnds(p)
  BY <1>1, <1>13 DEF PassEnds, Lively
<1> QED  BY <1>5, <1>6, <1>7, <1>8, <1>9, <1>10, <1>11, <1>12, <1>13 DEF PassActs

LEMMA PassKeepsSettled ==
  ASSUME OnlyWaking, SettledInv, NEW p \in Passes, PassActs(p)
  PROVE  Cool'
<1> SUFFICES ASSUME ~Hot' PROVE Cool'
  BY DEF Cool
<1>1. OrderInv /\ NoRetry /\ Typed /\ SoundPass(p) /\ Launching
  BY DEF SettledInv, WakeInv, OrderInv, Sound, SoundPasses
<1>2. ASSUME NEW q \in Passes
      PROVE  PassCool(q)'
  <2>1. q = p
    BY DEF OnlyWaking
  <2> QED  BY <2>1, PassStaysCool
<1>3. ASSUME NEW o \in Owners, NEW s \in Steps
      PROVE  ItemCool(work[<<o, s>>], s)'
  <2>1. CASE work'[<<o, s>>].pc = "off"
    BY <2>1 DEF ItemCool, Ended
  <2> SUFFICES ASSUME work'[<<o, s>>].pc # "off" PROVE ItemCool(work[<<o, s>>], s)'
    BY <2>1
  <2>2. user' = user
    BY PassFrame
  <2>3. CASE PassLaunches(p)
    <3>1. ~Hot
      BY <2>2, <2>3 DEF Hot, PassLaunches
    <3>2. PassCool(p) /\ ItemCool(work[<<o, s>>], s) /\ UNCHANGED <<exec, step>>
      BY <2>3, <3>1 DEF SettledInv, Cool, PassLaunches, rows
    <3>3. CASE work'[<<o, s>>] = work[<<o, s>>]
      BY <3>2, <3>3 DEF ItemCool
    <3>4. CASE work'[<<o, s>>] # work[<<o, s>>]
      <4>1. <<o, s>> \in Items
        BY DEF Items
      <4>2. work'[<<o, s>>] = Launched(IF pass[p].pc = "reload" THEN exec ELSE pass[p].exec)
        BY <2>3, <3>4, <4>1 DEF PassLaunches, Launched
      <4>3. (IF pass[p].pc = "reload" THEN exec ELSE pass[p].exec) = "Running"
        BY <1>1, <2>3, <3>2 DEF PassLaunches, PassCool, Launching
      <4> QED  BY <4>2, <4>3 DEF ItemCool, Ended, Launched, WorkOff
    <3> QED  BY <3>3, <3>4
  <2>4. CASE PassJoins(p)
    <3>1. o # Retry
      <4>1. UNCHANGED work \/ work'[<<Retry, s>>] = work[<<Retry, s>>]
        BY <1>1, <2>4, PassBatch, RetryAssumption DEF Owners
      <4>2. work'[<<Retry, s>>].pc = "off"
        BY <1>1, <4>1 DEF NoRetry
      <4> QED  BY <4>2
    <3>2. o = p
      BY <3>1 DEF Owners, OnlyWaking
    <3>3. <<o, s>> \in Items /\ <<o, s>>[1] = o
      BY DEF Items
    <3>4. work'[<<o, s>>] = WorkOff
      BY <2>4, <3>2, <3>3 DEF PassJoins
    <3> QED  BY <3>4 DEF WorkOff
  <2>5. CASE UNCHANGED work /\ ~PassLaunches(p) /\ ~PassJoins(p)
    <3>1. pass[p].pc = "join"
      BY <1>1, <2>5, ItemsOfAJoin
    <3>2. FALSE
      BY <2>5, <3>1 DEF PassActs, PassBegins, PassReads, PassPromotes, PassSelects,
              PassJudges, PassSyncs, PassSynced, PassEnds
    <3> QED  BY <3>2
  <2> QED  BY <2>3, <2>4, <2>5, PassFrame
<1> QED  BY <1>2, <1>3 DEF Cool

LEMMA SettledInitially ==
  ASSUME OnlyWaking, Init
  PROVE  SettledInv
<1>1. Hot
  BY DEF Init, Hot
<1> QED  BY <1>1, WakeInitially DEF SettledInv, Cool

LEMMA SettledKept ==
  ASSUME OnlyWaking, SettledInv, [Next]_vars
  PROVE  SettledInv'
<1>1. WakeInv /\ OrderInv
  BY DEF SettledInv, WakeInv
<1>2. CASE \E p \in Passes : PassActs(p)
  BY <1>1, <1>2, PassKeepsWake, PassKeepsSettled DEF SettledInv
<1>3. CASE \E o \in Owners, s \in Steps : ItemActs(o, s)
  BY <1>1, <1>3, ItemKeepsWake, ItemKeepsSettled DEF SettledInv
<1>4. \A s \in Steps : ~RetryReturns(s)
  BY <1>1 DEF OrderInv, NoRetry, RetryReturns
<1>5. CASE Arrives
  <2>1. WakeInv'
    BY <1>1, <1>5, RequestKeepsWake
  <2>2. UNCHANGED <<pass, work>>
    BY <1>5, RequestFrame
  <2>3. Cool'
    BY <1>1, <1>5, <2>2, RequestWill, UserKeepsSettled
  <2> QED  BY <2>1, <2>3 DEF SettledInv
<1>6. CASE HandlerActs
  <2>1. WakeInv'
    BY <1>1, <1>6, HandlerKeepsWake
  <2>2. UNCHANGED <<pass, work>>
    BY <1>1, <1>6, HandlerFrame, HandlerGoesOn
  <2>3. Cool'
    BY <1>1, <1>6, <2>2, HandlerWill, UserKeepsSettled
  <2> QED  BY <2>1, <2>3 DEF SettledInv
<1>7. ~Restarts
  BY <1>1, NoRestarts DEF OrderInv, Sound, OnlyWaking
<1>8. CASE UNCHANGED vars
  <2>1. OrderInv'
    BY <1>1, <1>8, OrderKept, OnlyWakingIsQuiet
  <2>2. UserWill' /\ SeenRunning' /\ Launching'
    BY <1>1, <1>8 DEF vars, WakeInv, UserWill, SeenRunning, Launching
  <2>3. BegunInv'
    BY <1>1, <1>8 DEF vars, WakeInv, BegunInv, SnapFits, Begun, Since
  <2>4. Cool'
    <3>1. UNCHANGED <<pass, work, exec, step, session, user, wakes>>
      BY <1>8 DEF vars
    <3>2. ~Hot' => ~Hot
      BY <3>1 DEF Hot
    <3> QED  BY <3>1, <3>2, UserKeepsSettled
  <2> QED  BY <2>1, <2>2, <2>3, <2>4 DEF SettledInv, WakeInv
<1> QED  BY <1>2, <1>3, <1>4, <1>5, <1>6, <1>7, <1>8 DEF Next

(* When the last of the actors is done, the pass was the last to write.    *)
LEMMA QuietIsSettled ==
  ASSUME SettledInv, Quiet, Passes # {}
  PROVE  Agrees /\ (Acyclic => NoStall)
<1>1. ~Hot
  BY DEF Quiet, Hot
<1>2. PICK p \in Passes : PassCool(p)
  BY <1>1 DEF SettledInv, Cool
<1>3. pass[p].pc = "off"
  BY DEF Quiet
<1> QED  BY <1>2, <1>3 DEF PassCool

(* As long as one pass drives the plan and the user only skips, resumes    *)
(* and approves: when nobody is at work, the execution and every session   *)
(* say what the steps derive, whichever of the synchronizations of the     *)
(* pass, its items and the handlers overtook each other before.            *)
THEOREM LastSynchronizationIsRight ==
  ASSUME OnlyWaking, Passes # {}
  PROVE  Spec => []SettledAgrees
<1>1. Init => SettledInv
  BY SettledInitially
<1>2. SettledInv /\ [Next]_vars => SettledInv'
  BY SettledKept
<1>3. SettledInv => SettledAgrees
  BY QuietIsSettled DEF SettledAgrees, Agrees, ExecutionAgrees
<1> QED  BY <1>1, <1>2, <1>3, PTL DEF Spec

(* And no plan without cycles stops silently: when nobody is at work and   *)
(* no step waits for the user, every step is done.                         *)
THEOREM PlansDoNotStall ==
  ASSUME OnlyWaking, Passes # {}, Acyclic
  PROVE  Spec => []NoSilentStall
<1>1. Init => SettledInv
  BY SettledInitially
<1>2. SettledInv /\ [Next]_vars => SettledInv'
  BY SettledKept
<1>3. SettledInv => NoSilentStall
  BY QuietIsSettled DEF NoSilentStall, NoStall
<1> QED  BY <1>1, <1>2, <1>3, PTL DEF Spec

================================================================================
