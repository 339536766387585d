-------------------------- MODULE ExecutorApprovals --------------------------
(***************************************************************************)
(* Approval of an agent's tool calls: executor_approvals.rs, the bridge    *)
(* that shows the waiting in the delivery (chat_runner/lifecycle.rs), and  *)
(* what is left of both at a restart.                                      *)
(*                                                                         *)
(* A request for approval is a future of the executor.  It moves the       *)
(* delivery to waiting_approval, writes a row for the tool call, registers *)
(* a waiter in memory, and waits.  The user's answer, the timer, a stop or *)
(* the removal of the member settle the row; the first of them wins, wakes *)
(* the waiter, restores the member and tells the inbox and the clients.    *)
(*                                                                         *)
(* One member, whose runs follow one another.  A step is one statement or  *)
(* one access of a shared map, with the code around it.                    *)
(***************************************************************************)
EXTENDS Naturals, FiniteSets

CONSTANTS
  Calls,    \* tool calls: the rows' key (run, tool call)
  RunOf,    \* RunOf[c]: the run that makes tool call c
  LastRun,  \* bound on the runs
  Asks,     \* the requests for approval
  CallOf,   \* CallOf[q]: the tool call q is about
  Options,  \* what the user may answer
  Events,   \* what happens besides
  Budget    \* ... and how often in all

Runs    == 1..LastRun
Ends    == {"cancelled", "expired"}
Pending == "pending"
NoAsk   == "none"

EventKinds == {"parallel", "own", "stop", "idle", "exit", "remove", "crash"}

ASSUME ApprovalAssumption ==
  /\ LastRun \in Nat \ {0} /\ Budget \in Nat
  /\ RunOf \in [Calls -> Runs] /\ CallOf \in [Asks -> Calls]
  /\ NoAsk \notin Asks
  /\ Options \cap (Ends \cup {Pending, "none", "closed", "duplicate", "moved"}) = {}
  /\ Events \subseteq EventKinds

VARIABLES
  \* the database
  delivery, \* delivery[r]: status and revision of the delivery bound to run r
  member,   \* the member's state
  row,      \* row[c]: none, pending, an end, or the option selected
  inbox,    \* inbox[c]: the item of the call's request
  lapsed,   \* calls whose expires_at has passed
  \* the executor
  run,      \* the latest run
  executor, \* whether it is running, or ended and not finalized
  told,     \* runs whose cancellation token is set
  ask,      \* ask[q]: where request q stands
  \* the server's memory
  waiter,   \* waiter[c]: whose sender WAITERS holds
  mail,     \* mail[q]: what q's receiver holds
  timer,    \* calls with a spawned timer
  close,    \* close[c]: the work left to the one that settled the row
  stop,     \* a stop request
  sweep,    \* the rows a removal of the member has left to cancel
  boot,     \* startup, and the rows it has left
  \* a connected client
  card,     \* card[c]: what the events have told it
  spent

database == <<delivery, member, row, inbox, lapsed>>
process  == <<run, executor, told>>
memory   == <<waiter, mail, timer, close>>
others   == <<stop, sweep, boot>>
vars     == <<database, process, ask, memory, others, card, spent>>

Spend(kind) == /\ kind \in Events
               /\ spent < Budget
               /\ spent' = spent + 1

InFlight == {"running", "waiting", "stopping"}
Active   == {"running", "waiting", "stopping"}    \* of the member

Of(q)    == CallOf[q]
Home(q)  == RunOf[CallOf[q]]

Idle     == [pc |-> "off", rev |-> 0, out |-> "none"]
Finished == {"off", "done", "gone"}
NoClose  == [pc |-> "off", by |-> "none"]
NoStop   == [pc |-> "off", rev |-> 0]
NoBoot   == [pc |-> "off", todo |-> {}]

Serving  == boot.pc = "off"

GoesOn(q, pc)       == ask' = [ask EXCEPT ![q].pc = pc]
GoesOnWith(q, pc, out) == ask' = [ask EXCEPT ![q].pc = pc, ![q].out = out]

-----------------------------------------------------------------------------
(* Runs.  A delivery is claimed when none is in flight; binding it sets the *)
(* member running, whatever it was.                                         *)

Bind ==
  /\ Serving /\ executor = "none" /\ run < LastRun
  /\ \A r \in Runs : delivery[r].status \notin InFlight
  /\ run' = run + 1
  /\ executor' = "running"
  /\ delivery' = [delivery EXCEPT ![run + 1] = [status |-> "running", rev |-> 0]]
  /\ member' = "running"
  /\ UNCHANGED <<row, inbox, lapsed, told, ask, memory, others, card, spent>>

(* The executor's process ends, told to or by itself.  Under an ACP agent   *)
(* ("own") the requests and their timers end with the runtime of the run;   *)
(* the other executors leave theirs to the server's runtime.                *)
Drops(r) ==
  /\ ask' = [q \in Asks |-> IF Home(q) = r /\ ask[q].pc \notin Finished
                            THEN [ask[q] EXCEPT !.pc = "gone"] ELSE ask[q]]
  /\ timer' = {c \in timer : RunOf[c] # r}
  /\ close' = [c \in Calls |-> IF RunOf[c] = r /\ close[c].by = "run"
                               THEN NoClose ELSE close[c]]

ExecutorEnds ==
  /\ executor = "running"
  /\ \/ run \in told /\ UNCHANGED spent
     \/ Spend("exit")
  /\ executor' = "ended"
  /\ \/ "own" \in Events /\ Drops(run)
     \/ UNCHANGED <<ask, timer, close>>
  /\ UNCHANGED <<database, run, told, waiter, mail, others, card>>

(* The finalization writes delivery and member in one transaction (its      *)
(* races with stop and with the bridge are ChatDelivery's; a failed run     *)
(* leaves the member dead, here idle as well).                              *)
Finalize ==
  /\ executor = "ended"
  /\ executor' = "none"
  /\ delivery' = [delivery EXCEPT ![run] = [status |-> "ended", rev |-> @.rev + 1]]
  /\ member' = "idle"
  /\ UNCHANGED <<row, inbox, lapsed, run, told, ask, memory, others, card, spent>>

(* Nothing was heard of the executor for too long. *)
Inactive ==
  /\ executor = "running" /\ Spend("idle")
  /\ told' = told \cup {run}
  /\ UNCHANGED <<database, run, executor, ask, memory, others, card>>

(* stop_agent reads the delivery, moves it and the member to stopping if    *)
(* neither has changed, and tells the executor in either case.              *)
StopReads ==
  /\ stop.pc = "off" /\ Serving /\ executor = "running"
  /\ member \in Active /\ delivery[run].status \in InFlight
  /\ Spend("stop")
  /\ stop' = [pc |-> "write", rev |-> delivery[run].rev]
  /\ UNCHANGED <<database, process, ask, memory, sweep, boot, card>>

StopWrites ==
  /\ stop.pc = "write"
  /\ stop' = [stop EXCEPT !.pc = "tell"]
  /\ IF /\ delivery[run].rev = stop.rev
        /\ delivery[run].status \in {"running", "waiting"}
        /\ member \in {"running", "waiting"}
     THEN /\ delivery' = [delivery EXCEPT ![run] = [status |-> "stopping", rev |-> @.rev + 1]]
          /\ member' = "stopping"
     ELSE UNCHANGED <<delivery, member>>
  /\ UNCHANGED <<row, inbox, lapsed, process, ask, memory, sweep, boot, card, spent>>

StopTells ==
  /\ stop.pc = "tell"
  /\ stop' = NoStop
  /\ told' = told \cup {run}
  /\ UNCHANGED <<database, run, executor, ask, memory, sweep, boot, card, spent>>

-----------------------------------------------------------------------------
(* A request for approval *)

(* One spawned task per permission, or one request at a time. *)
Begins(q) ==
  /\ executor = "running" /\ Home(q) = run
  /\ ask[q].pc = "off"
  /\ \/ "parallel" \in Events
     \/ \A p \in Asks : Home(p) = run => ask[p].pc \in Finished
  /\ GoesOn(q, "enter")
  /\ UNCHANGED <<database, process, memory, others, card, spent>>

(* mutant: the revision is the one the delivery was bound with *)
ReadsOnce(q, from, writes, next) ==
  /\ ask' = IF delivery[Home(q)].status # from
            THEN [ask EXCEPT ![q].pc = next]
            ELSE [ask EXCEPT ![q].pc = writes, ![q].rev = 0]
  /\ UNCHANGED <<database, process, memory, others, card, spent>>

(* transition_delivery: a delivery in another status is left alone; one     *)
(* that changes between the read and the write fails the request.           *)
Reads(q, from, writes, next) ==
  /\ ask' = IF delivery[Home(q)].status # from
            THEN [ask EXCEPT ![q].pc = next]
            ELSE [ask EXCEPT ![q].pc = writes, ![q].rev = delivery[Home(q)].rev]
  /\ UNCHANGED <<database, process, memory, others, card, spent>>

Writes(q, from, to, next) ==
  /\ IF delivery[Home(q)] = [status |-> from, rev |-> ask[q].rev]
     THEN /\ delivery' = [delivery EXCEPT ![Home(q)] = [status |-> to, rev |-> @.rev + 1]]
          /\ GoesOn(q, next)
     ELSE /\ GoesOnWith(q, "done", "moved")
          /\ UNCHANGED delivery
  /\ UNCHANGED <<member, row, inbox, lapsed, process, memory, others, card, spent>>

EnterReads(q)  == ask[q].pc = "enter" /\ Reads(q, "running", "entering", "create")
EnterWrites(q) == ask[q].pc = "entering" /\ Writes(q, "running", "waiting", "create")
LeaveReads(q)  == ask[q].pc = "leave" /\ Reads(q, "waiting", "leaving", "done")
LeaveWrites(q) == ask[q].pc = "leaving" /\ Writes(q, "waiting", "running", "done")

(* mutant: an end is handed over as if it were an option *)
AnswerAsRecorded(status) == status

(* create_or_find: a row that is settled already answers the request (its  *)
(* INSERT and its SELECT are one step here).                               *)
Answer(status) == IF status \in Options THEN status ELSE "cancelled"

Creates(q) ==
  /\ ask[q].pc = "create"
  /\ row' = [row EXCEPT ![Of(q)] = IF @ = "none" THEN Pending ELSE @]
  /\ IF row[Of(q)] \in {"none", Pending}
     THEN GoesOn(q, "notify")
     ELSE GoesOnWith(q, "leave", Answer(row[Of(q)]))
  /\ UNCHANGED <<delivery, member, inbox, lapsed, process, memory, others, card, spent>>

(* An item that is archived stays archived. *)
Notifies(q) ==
  /\ ask[q].pc = "notify"
  /\ inbox' = [inbox EXCEPT ![Of(q)] = IF @ = "none" THEN "open" ELSE @]
  /\ GoesOn(q, "register")
  /\ UNCHANGED <<delivery, member, row, lapsed, process, memory, others, card, spent>>

Registers(q) ==
  /\ ask[q].pc = "register"
  /\ IF waiter[Of(q)] = NoAsk
     THEN waiter' = [waiter EXCEPT ![Of(q)] = q] /\ GoesOn(q, "mark")
     ELSE UNCHANGED waiter /\ GoesOnWith(q, "leave", "duplicate")
  /\ UNCHANGED <<database, process, mail, timer, close, others, card, spent>>

(* mark_agent_waiting: only while the member runs and the row is pending. *)
Marks(q) ==
  /\ ask[q].pc = "mark"
  /\ member' = IF member = "running" /\ row[Of(q)] = Pending THEN "waiting" ELSE member
  /\ GoesOn(q, "recheck")
  /\ UNCHANGED <<delivery, row, inbox, lapsed, process, memory, others, card, spent>>

(* mutant: the row is not read again after the waiter is registered *)
RechecksNothing(q) ==
  /\ ask[q].pc = "recheck"
  /\ GoesOn(q, "announce")
  /\ UNCHANGED <<database, process, memory, others, card, spent>>

(* The row is read again: it may have been settled before there was a      *)
(* waiter to wake.                                                         *)
Rechecks(q) ==
  /\ ask[q].pc = "recheck"
  /\ IF row[Of(q)] = Pending THEN GoesOn(q, "announce")
     ELSE GoesOnWith(q, "tidy", Answer(row[Of(q)]))
  /\ UNCHANGED <<database, process, memory, others, card, spent>>

Archived(c) == inbox' = [inbox EXCEPT ![c] = IF @ = "open" THEN "archived" ELSE @]

Tidies(q) ==
  /\ ask[q].pc = "tidy"
  /\ waiter' = [waiter EXCEPT ![Of(q)] = NoAsk]
  /\ Archived(Of(q))
  /\ GoesOn(q, "leave")
  /\ UNCHANGED <<delivery, member, row, lapsed, process, mail, timer, close, others,
                 card, spent>>

(* mutant: the clients are told whether or not somebody still waits *)
AnnouncesAlways(q) ==
  /\ ask[q].pc = "announce"
  /\ card' = [card EXCEPT ![Of(q)] = "open"]
  /\ timer' = timer \cup {Of(q)}
  /\ GoesOn(q, "wait")
  /\ UNCHANGED <<database, process, waiter, mail, close, others, spent>>

(* The clients are told while the waiter's entry is held, and the timer is *)
(* spawned.                                                                *)
Announces(q) ==
  /\ ask[q].pc = "announce"
  /\ card' = [card EXCEPT ![Of(q)] = IF waiter[Of(q)] = NoAsk THEN @ ELSE "open"]
  /\ timer' = timer \cup {Of(q)}
  /\ GoesOn(q, "wait")
  /\ UNCHANGED <<database, process, waiter, mail, close, others, spent>>

Receives(q) ==
  /\ ask[q].pc = "wait" /\ mail[q] # "none"
  /\ GoesOnWith(q, "leave", Answer(mail[q]))
  /\ UNCHANGED <<database, process, memory, others, card, spent>>

(* The one that moves the row out of pending closes the request. *)
Settles(c, status, by) ==
  /\ row' = [row EXCEPT ![c] = status]
  /\ close' = [close EXCEPT ![c] = [pc |-> "wake", by |-> by]]

(* The executor is told to stop: finish_request within the request. *)
Withdraws(q) ==
  /\ ask[q].pc = "wait" /\ Home(q) \in told
  /\ IF row[Of(q)] = Pending
     THEN Settles(Of(q), "cancelled", "run") /\ GoesOn(q, "withdrawn")
     ELSE UNCHANGED <<row, close>> /\ GoesOnWith(q, "leave", "cancelled")
  /\ UNCHANGED <<delivery, member, inbox, lapsed, process, waiter, mail, timer, others,
                 card, spent>>

Withdrawn(q) ==
  /\ ask[q].pc = "withdrawn" /\ close[Of(q)].pc = "off"
  /\ GoesOnWith(q, "leave", "cancelled")
  /\ UNCHANGED <<database, process, memory, others, card, spent>>

-----------------------------------------------------------------------------
(* The ends of a request *)

(* mutant: an answer replaces an earlier one *)
ResolvesAgain(c) ==
  /\ Serving /\ row[c] \notin {"none"} \cup Ends
  /\ close[c].pc = "off"
  /\ \E o \in Options : Settles(c, o, "server")
  /\ UNCHANGED <<delivery, member, inbox, lapsed, process, ask, waiter, mail, timer,
                 others, card, spent>>

(* The user selects one of the options.  The statement asks for            *)
(* expires_at > datetime('now', 'subsec'), but compares a text with a 'T'  *)
(* between date and time with one that has a space there: on the day of    *)
(* the deadline an answer that comes after it is still taken, and a model  *)
(* without days lets it come at any time.                                  *)
Resolves(c) ==
  /\ Serving /\ row[c] = Pending
  /\ \E o \in Options : Settles(c, o, "server")
  /\ UNCHANGED <<delivery, member, inbox, lapsed, process, ask, waiter, mail, timer,
                 others, card, spent>>

(* Time passes. *)
Lapses(c) ==
  /\ row[c] = Pending /\ c \notin lapsed
  /\ lapsed' = lapsed \cup {c}
  /\ UNCHANGED <<delivery, member, row, inbox, process, ask, memory, others, card, spent>>

(* mutant: the timer leaves the row to the next start *)
ExpiresQuietly(c) ==
  /\ c \in timer \cap lapsed
  /\ timer' = timer \ {c}
  /\ UNCHANGED <<database, process, ask, waiter, mail, close, others, card, spent>>

Expires(c) ==
  /\ c \in timer \cap lapsed
  /\ timer' = timer \ {c}
  /\ IF row[c] = Pending THEN Settles(c, "expired", "run") ELSE UNCHANGED <<row, close>>
  /\ UNCHANGED <<delivery, member, inbox, lapsed, process, ask, waiter, mail, others,
                 card, spent>>

(* Removing the member, or the session: the pending rows are listed, and    *)
(* cancelled one after the other.  The deletion itself is not modelled.     *)
SweepBegins ==
  /\ Serving /\ sweep = {} /\ Spend("remove")
  /\ sweep' = {c \in Calls : row[c] = Pending}
  /\ UNCHANGED <<database, process, ask, memory, stop, boot, card>>

SweepCancels(c) ==
  /\ c \in sweep
  /\ \A d \in Calls : close[d].by # "sweep"
  /\ sweep' = sweep \ {c}
  /\ IF row[c] = Pending THEN Settles(c, "cancelled", "sweep") ELSE UNCHANGED <<row, close>>
  /\ UNCHANGED <<delivery, member, inbox, lapsed, process, ask, waiter, mail, timer,
                 stop, boot, card, spent>>

(* The sender is taken out of WAITERS; with an answer it is used, without  *)
(* one it is dropped, which the receiver notices as well.                  *)
Wakes(c) ==
  /\ close[c].pc = "wake"
  /\ close' = [close EXCEPT ![c].pc = "count"]
  /\ waiter' = [waiter EXCEPT ![c] = NoAsk]
  /\ mail' = [q \in Asks |-> IF q = waiter[c]
                             THEN (IF row[c] \in Options THEN row[c] ELSE "closed")
                             ELSE mail[q]]
  /\ UNCHANGED <<database, process, ask, timer, others, card, spent>>

(* restore_agent_if_no_pending: any pending row of the member counts. *)
Counts(c) ==
  /\ close[c].pc = "count"
  /\ close' = [close EXCEPT ![c].pc =
                 IF \E d \in Calls : row[d] = Pending THEN "archive" ELSE "restore"]
  /\ UNCHANGED <<database, process, ask, waiter, mail, timer, others, card, spent>>

(* mutant: the member is left waiting *)
RestoresNobody(c) ==
  /\ close[c].pc = "restore"
  /\ close' = [close EXCEPT ![c].pc = "archive"]
  /\ UNCHANGED <<database, process, ask, waiter, mail, timer, others, card, spent>>

Restores(c) ==
  /\ close[c].pc = "restore"
  /\ close' = [close EXCEPT ![c].pc = "archive"]
  /\ member' = IF member = "waiting" THEN "running" ELSE member
  /\ UNCHANGED <<delivery, row, inbox, lapsed, process, ask, waiter, mail, timer,
                 others, card, spent>>

Archives(c) ==
  /\ close[c].pc = "archive"
  /\ close' = [close EXCEPT ![c] = NoClose]
  /\ Archived(c)
  /\ card' = [card EXCEPT ![c] = "closed"]
  /\ UNCHANGED <<delivery, member, row, lapsed, process, ask, waiter, mail, timer,
                 others, spent>>

-----------------------------------------------------------------------------
(* The process dies and starts again: expire_orphaned, then                *)
(* recover_orphaned_session_agents, then requests are served.              *)

Crash ==
  /\ Spend("crash")
  /\ executor' = "none"
  /\ ask' = [q \in Asks |-> IF ask[q].pc \in Finished THEN ask[q]
                            ELSE [ask[q] EXCEPT !.pc = "gone"]]
  /\ waiter' = [c \in Calls |-> NoAsk] /\ mail' = [q \in Asks |-> "none"]
  /\ timer' = {} /\ close' = [c \in Calls |-> NoClose]
  /\ stop' = NoStop /\ sweep' = {} /\ card' = [c \in Calls |-> "none"]
  /\ boot' = [pc |-> "expire", todo |-> {}]
  /\ UNCHANGED <<database, run, told>>

BootExpires ==
  /\ boot.pc = "expire"
  /\ row' = [c \in Calls |-> IF row[c] = Pending THEN "expired" ELSE row[c]]
  /\ boot' = [pc |-> "tidy", todo |-> {c \in Calls : row[c] = Pending}]
  /\ UNCHANGED <<delivery, member, inbox, lapsed, process, ask, memory, stop, sweep,
                 card, spent>>

BootTidies(c) ==
  /\ boot.pc = "tidy" /\ c \in boot.todo
  /\ boot' = [boot EXCEPT !.todo = @ \ {c}]
  /\ member' = IF member = "waiting" THEN "idle" ELSE member
  /\ Archived(c)
  /\ UNCHANGED <<delivery, row, lapsed, process, ask, memory, stop, sweep, card, spent>>

(* Active members are reset and their deliveries go back to the queue. *)
BootRecovers ==
  /\ boot.pc = "tidy" /\ boot.todo = {}
  /\ boot' = NoBoot
  /\ IF member \in Active
     THEN /\ member' = "idle"
          /\ delivery' = [r \in Runs |-> IF delivery[r].status \in InFlight
                                         THEN [status |-> "requeued", rev |-> delivery[r].rev + 1]
                                         ELSE delivery[r]]
     ELSE UNCHANGED <<member, delivery>>
  /\ UNCHANGED <<row, inbox, lapsed, process, ask, memory, stop, sweep, card, spent>>

-----------------------------------------------------------------------------
Init ==
  /\ delivery = [r \in Runs |-> [status |-> "none", rev |-> 0]]
  /\ member = "idle"
  /\ row = [c \in Calls |-> "none"] /\ inbox = [c \in Calls |-> "none"]
  /\ lapsed = {}
  /\ run = 0 /\ executor = "none" /\ told = {}
  /\ ask = [q \in Asks |-> Idle]
  /\ waiter = [c \in Calls |-> NoAsk] /\ mail = [q \in Asks |-> "none"]
  /\ timer = {} /\ close = [c \in Calls |-> NoClose]
  /\ stop = NoStop /\ sweep = {} /\ boot = NoBoot
  /\ card = [c \in Calls |-> "none"] /\ spent = 0

Request(q) ==
  \/ EnterReads(q) \/ EnterWrites(q) \/ Creates(q) \/ Notifies(q) \/ Registers(q)
  \/ Marks(q) \/ Rechecks(q) \/ Tidies(q) \/ Announces(q) \/ Receives(q)
  \/ Withdraws(q) \/ Withdrawn(q) \/ LeaveReads(q) \/ LeaveWrites(q)

Closing(c) == Wakes(c) \/ Counts(c) \/ Restores(c) \/ Archives(c)

Stopping == StopWrites \/ StopTells

Booting  == BootExpires \/ BootRecovers \/ \E c \in Calls : BootTidies(c)

Next ==
  \/ Bind \/ ExecutorEnds \/ Finalize \/ Inactive \/ StopReads \/ Stopping
  \/ \E q \in Asks : Begins(q) \/ Request(q)
  \/ \E c \in Calls : \/ Resolves(c) \/ Lapses(c) \/ Expires(c) \/ SweepCancels(c)
                      \/ Closing(c)
  \/ SweepBegins \/ Crash \/ Booting

Spec == Init /\ [][Next]_vars

(* Futures and handlers go on, time passes, timers fire, startup ends.     *)
(* Nobody has to answer, and no executor has to end.                       *)
FairSpec ==
  /\ Spec
  /\ \A q \in Asks : WF_vars(Request(q))
  /\ \A c \in Calls : /\ WF_vars(Closing(c)) /\ WF_vars(Lapses(c))
                      /\ WF_vars(Expires(c)) /\ WF_vars(SweepCancels(c))
  /\ WF_vars(Stopping) /\ WF_vars(Booting)

-----------------------------------------------------------------------------
(* Properties *)

AskPcs == {"off", "enter", "entering", "create", "notify", "register", "mark",
           "recheck", "tidy", "announce", "wait", "withdrawn", "leave", "leaving",
           "done", "gone"}
Status == {"none", "running", "waiting", "stopping", "ended", "requeued"}

(* Type invariant *)
TypeOK ==
  /\ delivery \in [Runs -> [status : Status, rev : Nat]]
  /\ member \in {"idle"} \cup Active
  /\ row \in [Calls -> {"none", Pending} \cup Ends \cup Options]
  /\ inbox \in [Calls -> {"none", "open", "archived"}]
  /\ lapsed \subseteq Calls /\ timer \subseteq Calls /\ sweep \subseteq Calls
  /\ run \in 0..LastRun /\ executor \in {"none", "running", "ended"}
  /\ told \subseteq 0..LastRun
  /\ ask \in [Asks -> [pc : AskPcs, rev : Nat,
                       out : {"none", "cancelled", "duplicate", "moved"} \cup Options]]
  /\ waiter \in [Calls -> Asks \cup {NoAsk}]
  /\ mail \in [Asks -> {"none", "closed"} \cup Options]
  /\ close \in [Calls -> [pc : {"off", "wake", "count", "restore", "archive"},
                          by : {"none", "server", "run", "sweep"}]]
  /\ stop \in [pc : {"off", "write", "tell"}, rev : Nat]
  /\ boot \in [pc : {"off", "expire", "tidy"}, todo : SUBSET Calls]
  /\ card \in [Calls -> {"none", "open", "closed"}]
  /\ spent \in 0..Budget

Settled(c) == row[c] \notin {"none", Pending}

(* A request that waits will hear of the end of its row: what settles the  *)
(* row finds the waiter, although the waiter is registered after the row   *)
(* can be answered (request_and_wait reads the row again; resolve and      *)
(* finish_request take the waiter out after their write).                  *)
NoLostWakeup ==
  \A q \in Asks : ask[q].pc = "wait" =>
    \/ mail[q] # "none"
    \/ waiter[Of(q)] = q /\ (row[Of(q)] = Pending \/ close[Of(q)].pc = "wake")

(* What the executor is answered is what the row records, for good: of     *)
(* several answers, the timer and a stop, one wins (select and             *)
(* finish_pending compare with pending).                                   *)
AnswerIsSelected ==
  \A q \in Asks : ask[q].out \in Options => row[Of(q)] = ask[q].out

(* The service, seen as decisions and answers, behaves as ApprovalSpec     *)
(* says: an executor is answered once, when the row is settled and with    *)
(* what it records, unless its run has been told to stop, another request  *)
(* asks already or the delivery has changed; and the user cannot answer    *)
(* what a process that died has left open (the compare with pending in     *)
(* select and finish_pending, the second reading in request_and_wait,      *)
(* expire_orphaned before requests are served).                            *)
Service == INSTANCE ApprovalSpec
  WITH asked    <- {q \in Asks : ask[q].pc # "off"},
       halted   <- told,
       orphans  <- {c \in Calls : boot.pc = "expire" /\ row[c] = Pending},
       decision <- row,
       reply    <- [q \in Asks |-> IF ask[q].pc = "done" THEN ask[q].out ELSE "none"]

DecisionsKept == Service!Spec

Quiet ==
  /\ Serving /\ stop.pc = "off" /\ sweep = {}
  /\ \A q \in Asks : \/ ask[q].pc \in Finished
                     \/ ask[q].pc = "wait" /\ mail[q] = "none" /\ Home(q) \notin told
  /\ \A c \in Calls : close[c].pc = "off"

(* When everybody is done or waits, nothing asks for a decision that has   *)
(* been made: no inbox item (notify_executor_approval_requested may come   *)
(* after the answer; the request archives it then), and no client's card   *)
(* (the waiter's entry is held while the request is announced).            *)
InboxFollowsRow == \A c \in Calls : inbox[c] = "open" => row[c] = Pending
CardFollowsRow  == \A c \in Calls : card[c] = "open" => row[c] = Pending

OnlyPendingIsShown == Quiet => InboxFollowsRow /\ CardFollowsRow

(* An approval callback loses against nobody but a stop or the end of its  *)
(* run (the comment in transition_delivery).                               *)
OnlyStopsWin ==
  \A q \in Asks : ask[q].out = "moved" =>
      delivery[Home(q)].status \notin {"running", "waiting"}

(* When everybody is done or waits, a member that shows waitingapproval    *)
(* waits for a request of its run (restore_agent_if_no_pending).           *)
WaitingHasReason ==
  Quiet /\ executor = "running" /\ member = "waiting" =>
      \E q \in Asks : Home(q) = run /\ ask[q].pc = "wait"

(* ... and a running member with a request that waits shows it             *)
(* (mark_agent_waiting).                                                   *)
WaitingIsShown ==
  Quiet /\ executor = "running" /\ member = "running" =>
      \A q \in Asks : Home(q) = run => ask[q].pc # "wait"

(* After a restart no delivery is left in flight without an executor       *)
(* (recover_orphaned_session_agents).                                      *)
RestartRequeues ==
  Serving /\ executor = "none" => \A r \in Runs : delivery[r].status \notin InFlight

(* Every request returns or ends with its process, whether or not somebody *)
(* answers (the timer, finish_request).                                    *)
RequestReturns == \A q \in Asks : ask[q].pc \notin Finished ~> ask[q].pc \in Finished

=============================================================================
